---------------------------- MODULE Task_lemmas -----------------------------
(***************************************************************************)
(* The inductive invariant of the tasks, what kinds of steps keep which of *)
(* its parts, and the steps of Task::add_pending.                          *)
(***************************************************************************)
EXTENDS Task, TLAPS

-----------------------------------------------------------------------------
(***************************************************************************)
(* Lists of tasks.                                                         *)
(***************************************************************************)

LEMMA ElementFacts ==
  ASSUME NEW s \in Seq(Tasks)
  PROVE  /\ Len(s) \in Nat
         /\ s = <<>> <=> Len(s) = 0
         /\ \A i \in 1..Len(s) : s[i] \in Tasks
OBVIOUS

LEMMA AppendFacts ==
  ASSUME NEW s \in Seq(Tasks), NEW u \in Tasks
  PROVE  /\ Append(s, u) \in Seq(Tasks)
         /\ Len(Append(s, u)) = Len(s) + 1
         /\ \A i \in 1..Len(s) : Append(s, u)[i] = s[i]
         /\ Append(s, u)[Len(s) + 1] = u
OBVIOUS

LEMMA TailFacts ==
  ASSUME NEW s \in Seq(Tasks), s # <<>>
  PROVE  /\ Tail(s) \in Seq(Tasks)
         /\ Len(Tail(s)) = Len(s) - 1
         /\ \A i \in 1..Len(Tail(s)) : Tail(s)[i] = s[i + 1]
         /\ Head(s) = s[1]
OBVIOUS

-----------------------------------------------------------------------------
(***************************************************************************)
(* The inductive invariant.                                                *)
(***************************************************************************)

AddSteps == {"add", "lock", "leave", "append"}
Steps == {"loop", "pending", "status", "move", "complete", "rehome", "unlist",
          "fire", "callback"} \cup CallSteps \cup CleanupSteps

\* Where a thread is in no call on a task.
Idle == {"loop", "callback", "pending"}

TaskRecord ==
  [home : Homes, is_scheduled : BOOLEAN, is_strong_unscheduled : BOOLEAN,
   thread : Homes, pending_nextptr : {Off, Processing, Listed},
   initialized : BOOLEAN]

ThreadRecord ==
  [pc : Steps, fires : Tasks \cup {NoTask}, my_pending : Seq(Tasks),
   t : Tasks \cup {NoTask}, thread : Homes, always : BOOLEAN, back : Steps,
   home : Homes, go : BOOLEAN, listed : BOOLEAN, next : {Off, Processing, Listed}]

Types ==
  /\ task \in [Tasks -> TaskRecord]
  /\ scheduled \in [Threads -> SUBSET Tasks]
  /\ pending \in [Threads -> Seq(Tasks)]
  /\ lock \in [Homes -> Threads \cup {Free}]
  /\ cpu \in [Threads -> ThreadRecord]

\* A thread with record c is in process_pending of the task c.t, ...
Processes(c) ==
  \/ c.pc \in {"status", "move", "complete"}
  \/ c.pc \in AddSteps /\ c.back = "pending"

\* ... is in run_tasks and has not decided yet to keep c.t on its list, ...
Visits(c) ==
  \/ c.pc \in {"rehome", "unlist", "fire"}
  \/ c.pc \in AddSteps /\ c.back = "unlist"

\* ... or is in the code of the task it fires.
Fires(c) ==
  \/ c.pc = "callback"
  \/ c.pc \in CallSteps \cup CleanupSteps /\ c.back = "callback"

\* The steps of a thread follow its calls.
Control(c) ==
  /\ c.pc \notin Idle => c.t \in Tasks
  /\ c.pc \in CallSteps \cup CleanupSteps =>
       \/ c.back \in {"loop", "callback"}
       \/ c.pc \in AddSteps /\ c.back \in {"pending", "unlist"}
  /\ c.pc \in AddSteps => (c.always <=> c.back = "pending")
  /\ c.pc = "leave" => c.thread = Quiescent
  /\ c.fires # NoTask <=> Fires(c)
  /\ c.my_pending # <<>> => c.pc = "pending" \/ Processes(c)

ControlInv == \A h \in Threads : Control(cpu[h])

\* A task has the thread on whose scheduled list it is, and a task marked as
\* on a pending list has a thread that runs.
OwnerInv ==
  \A t \in Tasks :
    /\ \A h \in Threads : t \in scheduled[h] => task[t].thread = h
    /\ task[t].pending_nextptr = Listed => task[t].thread # Quiescent

\* A list of tasks that wait for thread h has only tasks of that thread.
Owned(T, s, h) ==
  /\ \A i \in 1..Len(s) : /\ T[s[i]].thread = h
                          /\ T[s[i]].pending_nextptr = Listed
  /\ \A i, j \in 1..Len(s) : s[i] = s[j] => i = j

PendingInv ==
  \A h \in Threads :
    /\ Owned(task, pending[h], h)
    /\ Owned(task, cpu[h].my_pending, h)
    /\ \A i \in 1..Len(pending[h]), j \in 1..Len(cpu[h].my_pending) :
         pending[h][i] # cpu[h].my_pending[j]

\* process_pending has its task to itself, and the task keeps its thread
\* until process_pending changes it.
ProcessInv ==
  \A h \in Threads :
    /\ Processes(cpu[h]) => task[cpu[h].t].pending_nextptr = Processing
    /\ cpu[h].pc \in {"status", "move"} => task[cpu[h].t].thread = h
    /\ \A g \in Threads :
         Processes(cpu[h]) /\ Processes(cpu[g]) /\ cpu[g].t = cpu[h].t => g = h

\* add_pending has the lock of the task's thread from its check on.
LockInv ==
  \A h \in Threads :
    cpu[h].pc \in {"leave", "append"} =>
      /\ lock[cpu[h].thread] = h
      /\ task[cpu[h].t].thread = cpu[h].thread

\* The task a thread visits or fires stays on its list meanwhile.
RunInv ==
  \A h \in Threads :
    /\ Visits(cpu[h]) => cpu[h].t \in scheduled[h]
    /\ cpu[h].fires # NoTask => cpu[h].fires \in scheduled[h]

\* A task is destroyed by one thread, on no other's behalf, and its home is
\* the quiescent thread meanwhile.
Destroyer(h) ==
  cpu[h].pc \in CleanupSteps =>
    /\ task[cpu[h].t].initialized
    /\ task[cpu[h].t].home = Quiescent
    /\ cpu[h].fires # cpu[h].t
    /\ \A g \in Threads :
         g # h /\ cpu[g].t = cpu[h].t =>
           /\ cpu[g].pc \notin CleanupSteps
           /\ cpu[g].pc \in CallSteps => cpu[g].back \in {"pending", "unlist"}

DestroyInv == \A h \in Threads : Destroyer(h)

\* A destroyed task has no marks, and nobody is in a call on it.
GoneInv ==
  \A t \in Tasks :
    ~task[t].initialized =>
      /\ task[t].pending_nextptr = Off
      /\ \A h \in Threads : /\ t \notin scheduled[h]
                            /\ cpu[h].t = t => cpu[h].pc \in Idle

StructInv ==
  /\ Types /\ ControlInv /\ OwnerInv /\ PendingInv /\ ProcessInv /\ LockInv
  /\ RunInv /\ DestroyInv /\ GoneInv

\* A task that should be on a list.
Wants(s) == Runnable(s) /\ s.home # Quiescent

\* A thread is about to put the task on a list, or to see that it is on one.
Schedules(c, t) == c.t = t /\ c.pc \in CallSteps \ {"strong"}
Busy(C, t) == \E g \in Threads : Schedules(C[g], t)

\* The task is on a scheduled list.
On(S, t) == \E g \in Threads : t \in S[g]

\* A wanted task is on a list or being scheduled.
Settled(T, S, C, t) ==
  Wants(T[t]) => On(S, t) \/ T[t].pending_nextptr # Off \/ Busy(C, t)

NoneForgotten == \A t \in Tasks : Settled(task, scheduled, cpu, t)

\* Whoever takes a wanted task off a list, or decides from an older status
\* not to list it, leaves it to another thread that has changed the status
\* since.
Deferred(h) ==
  LET c == cpu[h] IN
  /\ c.pc = "rehome" /\ Wants(task[c.t]) /\ task[c.t].home = h
       => task[c.t].pending_nextptr = Listed \/ Busy(cpu, c.t)
  /\ c.pc = "unlist" /\ Wants(task[c.t])
       => task[c.t].pending_nextptr = Listed \/ Busy(cpu, c.t)
  /\ c.pc = "move" /\ ~c.go /\ Wants(task[c.t]) => Busy(cpu, c.t)
  /\ c.pc = "complete" /\ ~c.go /\ Wants(task[c.t])
       => On(scheduled, c.t) \/ Busy(cpu, c.t)
  /\ c.pc = "append" /\ c.thread = Quiescent /\ Wants(task[c.t])
       => \E g \in Threads \ {h} : Schedules(cpu[g], c.t)

ListedInv == NoneForgotten /\ \A h \in Threads : Deferred(h)

IInv == StructInv /\ ListedInv

-----------------------------------------------------------------------------
(***************************************************************************)
(* Steps that leave the lists alone.                                       *)
(***************************************************************************)

USE DEF Idle

OthersSame(h) == \A g \in Threads \ {h} : cpu'[g] = cpu[g]

SameLists ==
  /\ scheduled' = scheduled /\ pending' = pending
  /\ \A t \in Tasks : /\ task'[t].thread = task[t].thread
                       /\ task'[t].pending_nextptr = task[t].pending_nextptr
                       /\ task'[t].initialized = task[t].initialized

\* The new record of thread h says nothing new of the lists.
Moves(h) ==
  LET c == cpu[h]
      d == cpu'[h] IN
  /\ Control(d)
  /\ d.my_pending = c.my_pending
  /\ Processes(d) => Processes(c) /\ d.t = c.t
  /\ d.pc \in {"status", "move"} => c.pc \in {"status", "move"}
  /\ Visits(d) => d.t \in scheduled[h]
  /\ d.fires # NoTask => d.fires \in scheduled[h]
  /\ d.pc \notin Idle => task[d.t].initialized

\* Nor does the step disturb a thread that destroys a task.
Spares(h) ==
  \A g \in Threads \ {h} :
    cpu[g].pc \in CleanupSteps =>
      /\ task'[cpu[g].t].home = Quiescent
      /\ cpu'[h].t = cpu[g].t =>
           /\ cpu'[h].pc \notin CleanupSteps
           /\ cpu'[h].pc \in CallSteps => cpu'[h].back \in {"pending", "unlist"}

\* The tasks of a list keep their marks.
SameMarks(T1, T2, s) ==
  \A i \in 1..Len(s) : /\ T2[s[i]].thread = T1[s[i]].thread
                       /\ T2[s[i]].pending_nextptr = T1[s[i]].pending_nextptr

LEMMA OwnedStays ==
  ASSUME NEW T1, NEW T2, NEW s \in Seq(Tasks), NEW h, Owned(T1, s, h),
         SameMarks(T1, T2, s)
  PROVE  Owned(T2, s, h)
BY DEF Owned, SameMarks

\* The lists of the waiting tasks and the marks of all tasks stay as they are.
LEMMA MarksKept ==
  ASSUME StructInv, pending' = pending,
         \A g \in Threads : cpu'[g].my_pending = cpu[g].my_pending,
         \A t \in Tasks : /\ task'[t].thread = task[t].thread
                          /\ task'[t].pending_nextptr = task[t].pending_nextptr
  PROVE  PendingInv'
<1> SUFFICES ASSUME NEW g \in Threads
             PROVE  /\ Owned(task', pending[g], g)
                    /\ Owned(task', cpu[g].my_pending, g)
  BY DEF StructInv, PendingInv
<1>1. pending[g] \in Seq(Tasks) /\ cpu[g].my_pending \in Seq(Tasks)
  BY DEF StructInv, Types, ThreadRecord
<1>2. Owned(task, pending[g], g) /\ Owned(task, cpu[g].my_pending, g)
  BY DEF StructInv, PendingInv
<1>3. /\ \A i \in 1..Len(pending[g]) : pending[g][i] \in Tasks
      /\ \A i \in 1..Len(cpu[g].my_pending) : cpu[g].my_pending[i] \in Tasks
  BY <1>1, ElementFacts
<1>4. SameMarks(task, task', pending[g]) /\ SameMarks(task, task', cpu[g].my_pending)
  BY Zenon, <1>3 DEF SameMarks
<1> QED
  BY <1>1, <1>2, <1>4, OwnedStays

LEMMA StatusStep ==
  ASSUME StructInv, NEW h \in Threads, Types', LockInv', SameLists,
         OthersSame(h), Moves(h), Spares(h), Destroyer(h)'
  PROVE  StructInv'
<1>1. ControlInv'
  BY DEF StructInv, ControlInv, OthersSame, Moves
<1>2. OwnerInv'
  BY DEF StructInv, OwnerInv, SameLists
<1>3. \A g \in Threads : cpu'[g].my_pending = cpu[g].my_pending
  BY DEF OthersSame, Moves
<1>4. PendingInv'
  BY <1>3, MarksKept DEF SameLists
<1>5. ProcessInv'
  <2>1. \A g \in Threads : Processes(cpu'[g]) => Processes(cpu[g]) /\ cpu'[g].t = cpu[g].t
    BY DEF OthersSame, Moves
  <2>2. \A g \in Threads : cpu'[g].pc \in {"status", "move"} => cpu[g].pc \in {"status", "move"}
    BY DEF OthersSame, Moves
  <2>3. \A g \in Threads : Processes(cpu[g]) => cpu[g].t \in Tasks
    BY DEF StructInv, ControlInv, Control, Processes, AddSteps
  <2>4. \A g \in Threads : cpu'[g].pc \in {"status", "move"} => Processes(cpu'[g])
    BY DEF Processes
  <2> QED
    BY <2>1, <2>2, <2>3, <2>4 DEF StructInv, ProcessInv, SameLists
<1>6. RunInv'
  BY DEF StructInv, RunInv, OthersSame, Moves, SameLists
<1>7. DestroyInv'
  <2> SUFFICES ASSUME NEW g \in Threads, g # h PROVE Destroyer(g)'
    BY DEF DestroyInv
  <2>1. cpu'[g] = cpu[g]
    BY DEF OthersSame
  <2>2. cpu[g].pc \in CleanupSteps => cpu[g].t \in Tasks
    BY DEF StructInv, ControlInv, Control, CleanupSteps
  <2> QED
    BY <2>1, <2>2 DEF StructInv, DestroyInv, Destroyer, OthersSame, Spares, SameLists
<1>8. GoneInv'
  <2> SUFFICES ASSUME NEW t \in Tasks, NEW g \in Threads, ~task'[t].initialized
               PROVE  /\ task'[t].pending_nextptr = Off
                      /\ t \notin scheduled'[g]
                      /\ cpu'[g].t = t => cpu'[g].pc \in Idle
    BY DEF GoneInv
  <2>1. ~task[t].initialized
    BY DEF SameLists
  <2>2. CASE g = h
    BY <2>1, <2>2 DEF StructInv, GoneInv, Moves, SameLists
  <2>3. CASE g # h
    BY <2>1, <2>3 DEF StructInv, GoneInv, OthersSame, SameLists
  <2> QED
    BY <2>2, <2>3
<1> QED
  BY <1>1, <1>2, <1>4, <1>5, <1>6, <1>7, <1>8 DEF StructInv

\* A step of thread h takes no task off a list and leaves no task it is
\* scheduling without a list, the tasks of U excepted.
CarefulBut(h, U) ==
  \A t \in Tasks \ U :
    /\ Wants(task'[t]) => Wants(task[t]) \/ Schedules(cpu'[h], t)
    /\ task'[t].home = task[t].home \/ ~Wants(task'[t]) \/ Schedules(cpu'[h], t)
    /\ On(scheduled, t) => On(scheduled', t)
    /\ \/ task'[t].pending_nextptr = task[t].pending_nextptr
       \/ task'[t].pending_nextptr = Listed
    /\ Wants(task'[t]) /\ Schedules(cpu[h], t) =>
         \/ Schedules(cpu'[h], t)
         \/ task'[t].pending_nextptr = Listed
         \/ t \in scheduled'[h]
Careful(h) == CarefulBut(h, {})

LEMMA ListedStepBut ==
  ASSUME StructInv, StructInv', ListedInv, NEW h \in Threads, OthersSame(h),
         Deferred(h)', NEW U, CarefulBut(h, U),
         \A t \in U : Settled(task', scheduled', cpu', t),
         \A g \in Threads \ {h} : cpu[g].t \in U => Deferred(g)'
  PROVE  ListedInv'
<1>1. ASSUME NEW t \in Tasks \ U, Busy(cpu, t), Wants(task'[t])
      PROVE  \/ Busy(cpu', t)
             \/ task'[t].pending_nextptr = Listed
             \/ t \in scheduled'[h]
  <2>1. PICK g \in Threads : Schedules(cpu[g], t)
    BY <1>1 DEF Busy
  <2>2. CASE g = h
    BY <1>1, <2>1, <2>2 DEF CarefulBut, Busy
  <2>3. CASE g # h
    BY <2>1, <2>3 DEF OthersSame, Busy
  <2> QED
    BY <2>2, <2>3
<1>2. ASSUME NEW t \in Tasks \ U, Wants(task'[t]), ~Wants(task[t]) \/ task'[t].home # task[t].home
      PROVE  Schedules(cpu'[h], t) /\ Busy(cpu', t)
  BY <1>2 DEF CarefulBut, Busy
<1>3. \A t \in Tasks : \A k \in Threads : t \in scheduled'[k] => task'[t].thread = k
  BY DEF StructInv, OwnerInv
<1>4. \A t \in Tasks : On(scheduled', t) => task'[t].thread \in Threads
  BY <1>3 DEF On
<1>5. \A t \in Tasks : task'[t].pending_nextptr = Listed => task'[t].thread # Quiescent
  BY DEF StructInv, OwnerInv
<1>6. Quiescent \notin Threads
  BY ThreadsAssumption DEF Quiescent
<1>7. NoneForgotten'
  <2> SUFFICES ASSUME NEW t \in Tasks \ U, Wants(task'[t]), ~Busy(cpu', t)
               PROVE  On(scheduled', t) \/ task'[t].pending_nextptr # Off
    BY DEF NoneForgotten, Settled
  <2>1. Wants(task[t])
    BY <1>2
  <2>2. CASE Busy(cpu, t)
    BY <1>1, <2>2 DEF Listed, Off, On
  <2>3. CASE ~Busy(cpu, t)
    <3>1. On(scheduled, t) \/ task[t].pending_nextptr # Off
      BY <2>1, <2>3 DEF ListedInv, NoneForgotten, Settled
    <3> QED
      BY <3>1 DEF CarefulBut, Listed, Off
  <2> QED
    BY Zenon, <2>2, <2>3
<1>8. ASSUME NEW g \in Threads, g # h, cpu[g].t \notin U PROVE Deferred(g)'
  <2> DEFINE c == cpu[g]
             t == cpu[g].t
  <2>1. cpu'[g] = c /\ Deferred(g)
    BY Zenon, <1>8 DEF OthersSame, ListedInv
  <2>2. c.pc \in {"rehome", "unlist", "move", "complete", "append"} => t \in Tasks \ U
    BY Zenon, <1>8 DEF StructInv, ControlInv, Control
  <2>3. ASSUME c.pc = "rehome" \/ c.pc = "unlist", Wants(task'[t]),
               c.pc = "rehome" => task'[t].home = g
        PROVE  task'[t].pending_nextptr = Listed \/ Busy(cpu', t)
    <3>1. t \in Tasks \ U /\ t \in scheduled'[g]
      BY Zenon, <2>1, <2>2, <2>3 DEF StructInv, RunInv, Visits
    <3>2. CASE Wants(task[t]) /\ task'[t].home = task[t].home
      <4>1. task[t].pending_nextptr = Listed \/ Busy(cpu, t)
        BY Zenon, <2>1, <2>3, <3>2 DEF Deferred
      <4>2. CASE task[t].pending_nextptr = Listed
        BY Zenon, <3>1, <4>2 DEF CarefulBut
      <4>3. CASE Busy(cpu, t) /\ t \in scheduled'[h]
        BY <1>3, <1>8, <3>1, <4>3
      <4> QED
        BY Zenon, <1>1, <2>3, <3>1, <4>1, <4>2, <4>3
    <3> QED
      BY Zenon, <1>2, <2>3, <3>1, <3>2
  <2>4. ASSUME c.pc = "move", ~c.go, Wants(task'[t]) PROVE Busy(cpu', t)
    <3>1. t \in Tasks \ U /\ task'[t].thread = g /\ task'[t].pending_nextptr = Processing
      BY Zenon, <2>1, <2>2, <2>4 DEF StructInv, ProcessInv, Processes
    <3>2. task'[t].pending_nextptr # Listed /\ t \notin scheduled'[h]
      BY <1>3, <1>8, <3>1 DEF Processing, Listed
    <3>3. CASE Wants(task[t])
      BY Zenon, <1>1, <2>1, <2>4, <3>1, <3>2, <3>3 DEF Deferred
    <3> QED
      BY Zenon, <1>2, <2>4, <3>1, <3>3
  <2>5. ASSUME c.pc = "complete", ~c.go, Wants(task'[t])
        PROVE  On(scheduled', t) \/ Busy(cpu', t)
    <3>1. t \in Tasks \ U /\ task'[t].pending_nextptr = Processing
      BY Zenon, <2>1, <2>2, <2>5 DEF StructInv, ProcessInv, Processes
    <3>2. task'[t].pending_nextptr # Listed
      BY <3>1 DEF Processing, Listed
    <3>3. CASE Wants(task[t]) /\ On(scheduled, t)
      BY Zenon, <3>1, <3>3 DEF CarefulBut
    <3>4. CASE Wants(task[t]) /\ Busy(cpu, t)
      BY Zenon, <1>1, <2>5, <3>1, <3>2, <3>4 DEF On
    <3> QED
      BY Zenon, <1>2, <2>1, <2>5, <3>1, <3>3, <3>4 DEF Deferred
  <2>6. ASSUME c.pc = "append", c.thread = Quiescent, Wants(task'[t])
        PROVE  \E k \in Threads \ {g} : Schedules(cpu'[k], t)
    <3>1. t \in Tasks \ U /\ task'[t].thread = Quiescent
      BY Zenon, <2>1, <2>2, <2>6 DEF StructInv, LockInv
    <3>2. task'[t].pending_nextptr # Listed /\ t \notin scheduled'[h]
      BY Zenon, <1>3, <1>5, <1>6, <3>1
    <3>3. CASE Wants(task[t])
      <4>1. PICK k \in Threads \ {g} : Schedules(cpu[k], t)
        BY Zenon, <2>1, <2>6, <3>3 DEF Deferred
      <4>2. CASE k = h
        BY Zenon, <1>8, <2>6, <3>1, <3>2, <4>1, <4>2 DEF CarefulBut
      <4>3. CASE k # h
        BY <4>1, <4>3 DEF OthersSame
      <4> QED
        BY <4>2, <4>3
    <3> QED
      BY Zenon, <1>2, <1>8, <2>6, <3>1, <3>3
  <2> QED
    BY Zenon, <2>1, <2>3, <2>4, <2>5, <2>6 DEF Deferred
<1> QED
  BY <1>7, <1>8 DEF ListedInv

LEMMA ListedStep ==
  ASSUME StructInv, StructInv', ListedInv, NEW h \in Threads, OthersSame(h),
         Careful(h), Deferred(h)'
  PROVE  ListedInv'
<1>1. CarefulBut(h, {})
  BY DEF Careful
<1> QED
  BY <1>1, ListedStepBut

-----------------------------------------------------------------------------
(***************************************************************************)
(* What a step makes of its thread's record.                               *)
(***************************************************************************)

\* Thread h is at pc now, in a call on task t that returns to back.
NowAt(h, pc, t, back) ==
  /\ OthersSame(h)
  /\ cpu' \in [Threads -> ThreadRecord]
  /\ cpu'[h].pc = pc /\ cpu'[h].t = t /\ cpu'[h].back = back

\* The variables a call does not write.
SameRun(h) == /\ cpu'[h].fires = cpu[h].fires
              /\ cpu'[h].my_pending = cpu[h].my_pending
SameLocals(h) == /\ cpu'[h].thread = cpu[h].thread /\ cpu'[h].always = cpu[h].always
                 /\ cpu'[h].home = cpu[h].home /\ cpu'[h].go = cpu[h].go

LEMMA LocalsEffect ==
  ASSUME Types, NEW h \in Threads, NEW r \in ThreadRecord, Locals(h, r)
  PROVE  NowAt(h, r.pc, r.t, r.back) /\ cpu'[h] = r
<1>1. cpu' \in [Threads -> ThreadRecord] /\ cpu'[h] = r /\ OthersSame(h)
  BY DEF Types, OthersSame, Locals
<1> QED
  BY <1>1 DEF NowAt

LEMMA GotoEffect ==
  ASSUME Types, NEW h \in Threads, NEW p \in Steps, Goto(h, p)
  PROVE  NowAt(h, p, cpu[h].t, cpu[h].back) /\ SameRun(h) /\ SameLocals(h)
<1> DEFINE c == cpu[h]
           r == [c EXCEPT !.pc = p]
<1>1. c \in ThreadRecord
  BY DEF Types
<1>2. /\ r \in ThreadRecord
      /\ r.pc = p /\ r.t = c.t /\ r.back = c.back /\ r.fires = c.fires
      /\ r.my_pending = c.my_pending /\ r.thread = c.thread /\ r.always = c.always
      /\ r.home = c.home /\ r.go = c.go
  BY <1>1 DEF ThreadRecord
<1>3. Locals(h, r)
  BY DEF Goto
<1> HIDE DEF r
<1> QED
  BY Zenon, <1>2, <1>3, LocalsEffect DEF SameRun, SameLocals

LEMMA EnterEffect ==
  ASSUME Types, NEW h \in Threads, NEW p \in Steps, NEW t \in Tasks, Enter(h, p, t)
  PROVE  NowAt(h, p, t, cpu[h].pc) /\ SameRun(h) /\ SameLocals(h)
<1> DEFINE c == cpu[h]
           r == [c EXCEPT !.pc = p, !.t = t, !.back = c.pc]
<1>1. c \in ThreadRecord
  BY DEF Types
<1>2. /\ r \in ThreadRecord
      /\ r.pc = p /\ r.t = t /\ r.back = c.pc /\ r.fires = c.fires
      /\ r.my_pending = c.my_pending /\ r.thread = c.thread /\ r.always = c.always
      /\ r.home = c.home /\ r.go = c.go
  BY Zenon, <1>1 DEF ThreadRecord
<1>3. Locals(h, r)
  BY DEF Enter
<1> HIDE DEF r
<1> QED
  BY Zenon, <1>2, <1>3, LocalsEffect DEF SameRun, SameLocals

LEMMA AddPendingEffect ==
  ASSUME Types, NEW h \in Threads, NEW t \in Tasks, NEW a \in BOOLEAN, NEW b \in Steps,
         CallAddPending(h, t, a, b)
  PROVE  /\ NowAt(h, "add", t, b) /\ SameRun(h)
         /\ cpu'[h].always = a
<1> DEFINE c == cpu[h]
           r == [c EXCEPT !.pc = "add", !.t = t, !.always = a, !.back = b]
<1>1. c \in ThreadRecord
  BY DEF Types
<1>a. "add" \in Steps
  BY DEF Steps, CallSteps
<1>2. /\ r \in ThreadRecord
      /\ r.pc = "add" /\ r.t = t /\ r.back = b /\ r.always = a
      /\ r.fires = c.fires /\ r.my_pending = c.my_pending
  BY Zenon, <1>1, <1>a DEF ThreadRecord
<1>3. Locals(h, r)
  BY DEF CallAddPending
<1> HIDE DEF r
<1> QED
  BY <1>2, <1>3, LocalsEffect DEF SameRun

-----------------------------------------------------------------------------
(***************************************************************************)
(* The kinds of steps that leave the lists alone.                          *)
(***************************************************************************)

SameHomes == \A t \in Tasks : task'[t].home = task[t].home

LEMMA QuiescentNeverRuns ==
  Quiescent \notin Threads
BY ThreadsAssumption DEF Quiescent

LEMMA StepNames ==
  /\ AddSteps \subseteq CallSteps
  /\ {"loop", "pending", "callback", "status", "move", "complete", "rehome", "unlist",
      "fire"} \cap (CallSteps \cup CleanupSteps) = {}
  /\ CallSteps \cap CleanupSteps = {}
BY DEF AddSteps, CallSteps, CleanupSteps

\* A task in a call or a visit is not destroyed.
LEMMA InUse ==
  ASSUME StructInv, NEW h \in Threads, cpu[h].pc \notin Idle
  PROVE  cpu[h].t \in Tasks /\ task[cpu[h].t].initialized
<1>1. cpu[h].t \in Tasks
  BY DEF StructInv, ControlInv, Control
<1> QED
  BY <1>1 DEF StructInv, GoneInv

\* A thread goes on in a call, or returns from it.
LEMMA CallGoesOn ==
  ASSUME StructInv, NEW h \in Threads, cpu[h].pc \in CallSteps,
         NEW p, NowAt(h, p, cpu[h].t, cpu[h].back), SameRun(h), SameHomes,
         p \in CallSteps \/ (p = cpu[h].back /\ p \in {"loop", "callback"}),
         cpu[h].pc \in AddSteps => p \in AddSteps,
         p \in AddSteps => (cpu'[h].always <=> cpu[h].back = "pending"),
         p = "leave" => cpu'[h].thread = Quiescent
  PROVE  Moves(h) /\ Spares(h) /\ Destroyer(h)'
<1> DEFINE c == cpu[h]
           d == cpu'[h]
<1>1. Control(c) /\ c.t \in Tasks /\ task[c.t].initialized
  BY Zenon, InUse, StepNames DEF StructInv, ControlInv
<1>2. /\ d.pc = p /\ d.t = c.t /\ d.back = c.back
      /\ d.fires = c.fires /\ d.my_pending = c.my_pending
  BY DEF NowAt, SameRun
<1>3. \/ c.back \in {"loop", "callback"}
      \/ c.pc \in AddSteps /\ p \in AddSteps /\ c.back \in {"pending", "unlist"}
  BY Zenon, <1>1 DEF Control
<1>4. p \notin CleanupSteps /\ p \notin {"pending", "status", "move", "complete", "rehome", "unlist", "fire"}
  BY StepNames
<1>5. (Processes(d) <=> Processes(c)) /\ (Visits(d) <=> Visits(c)) /\ (Fires(d) <=> Fires(c))
  <2>1. c.pc \notin {"status", "move", "complete", "rehome", "unlist", "fire", "callback"}
    BY StepNames
  <2>2. c.back \in {"pending", "unlist"} => c.pc \in AddSteps /\ p \in AddSteps
    BY <1>3
  <2>3. Processes(d) <=> Processes(c)
    BY Zenon, <1>2, <1>4, <2>1, <2>2 DEF Processes
  <2>4. Visits(d) <=> Visits(c)
    BY Zenon, <1>2, <1>4, <2>1, <2>2 DEF Visits
  <2>5. Fires(d) <=> Fires(c)
    BY <1>2, <2>1, StepNames DEF Fires
  <2> QED
    BY <2>3, <2>4, <2>5
<1>6. Control(d)
  <2>1. c.pc # "pending"
    BY StepNames
  <2> QED
    BY Zenon, <1>1, <1>2, <1>3, <1>4, <1>5, <2>1 DEF Control
<1> HIDE DEF c, d
<1>7. Moves(h)
  BY Zenon, <1>1, <1>2, <1>4, <1>5, <1>6 DEF Moves, StructInv, RunInv, c, d
<1>8. Spares(h)
  <2> SUFFICES ASSUME NEW g \in Threads \ {h}, cpu[g].pc \in CleanupSteps
               PROVE  /\ task'[cpu[g].t].home = Quiescent
                      /\ d.t = cpu[g].t => d.back \in {"pending", "unlist"}
    BY Zenon, <1>2, <1>4 DEF Spares, d
  <2>1. Destroyer(g) /\ cpu[g].t \in Tasks
    BY Zenon, InUse, StepNames DEF StructInv, DestroyInv
  <2> QED
    BY Zenon, <1>2, <2>1 DEF Destroyer, SameHomes, c
<1>9. Destroyer(h)'
  BY Zenon, <1>2, <1>4 DEF Destroyer, d
<1> QED
  BY <1>7, <1>8, <1>9

\* A call of an element's code begins.
LEMMA CallBegins ==
  ASSUME StructInv, NEW h \in Threads, NEW t \in Tasks, Call(h, t),
         NEW p \in {"schedule", "strong", "weak", "moved"},
         NowAt(h, p, t, cpu[h].pc), SameRun(h),
         \A u \in Tasks \ {t} : task'[u].home = task[u].home
  PROVE  Moves(h) /\ Spares(h) /\ Destroyer(h)'
<1> DEFINE c == cpu[h]
           d == cpu'[h]
<1>1. /\ Control(c) /\ c.pc \in {"loop", "callback"} /\ task[t].initialized
      /\ \A g \in Threads : ~Destroys(g, t)
  BY DEF StructInv, ControlInv, Call
<1>2. /\ d.pc = p /\ d.t = t /\ d.back = c.pc
      /\ d.fires = c.fires /\ d.my_pending = c.my_pending
  BY DEF NowAt, SameRun
<1>3. p \in CallSteps /\ p \notin CleanupSteps /\ p \notin AddSteps
      /\ p \notin {"status", "move", "complete", "rehome", "unlist", "fire", "pending",
                   "callback", "leave", "loop"}
  BY DEF CallSteps, CleanupSteps, AddSteps
<1>4. ~Processes(c) /\ ~Processes(d) /\ ~Visits(d) /\ (Fires(d) <=> Fires(c))
  BY Zenon, <1>1, <1>2, <1>3, StepNames DEF Processes, Visits, Fires
<1>5. Control(d)
  BY Zenon, <1>1, <1>2, <1>3, <1>4 DEF Control
<1> HIDE DEF c, d
<1>6. Moves(h)
  BY Zenon, <1>1, <1>2, <1>3, <1>4, <1>5 DEF Moves, StructInv, RunInv, c, d
<1>7. Spares(h)
  <2> SUFFICES ASSUME NEW g \in Threads \ {h}, cpu[g].pc \in CleanupSteps
               PROVE  /\ task'[cpu[g].t].home = Quiescent
                      /\ d.t # cpu[g].t
    BY DEF Spares, d
  <2>1. Destroyer(g) /\ cpu[g].t \in Tasks
    BY InUse, StepNames DEF StructInv, DestroyInv
  <2>2. cpu[g].t # t
    BY <1>1 DEF Destroys
  <2> QED
    BY Zenon, <1>2, <2>1, <2>2 DEF Destroyer
<1>8. Destroyer(h)'
  BY <1>2, <1>3 DEF Destroyer, d
<1> QED
  BY Zenon, <1>6, <1>7, <1>8

LEMMA LockStays ==
  ASSUME StructInv, NEW h \in Threads, OthersSame(h), SameLists, lock' = lock,
         cpu'[h].pc \notin {"leave", "append"}
  PROVE  LockInv'
<1> SUFFICES ASSUME NEW g \in Threads, cpu'[g].pc \in {"leave", "append"}
             PROVE  /\ lock'[cpu'[g].thread] = g
                    /\ task'[cpu'[g].t].thread = cpu'[g].thread
  BY DEF LockInv
<1>1. g # h /\ cpu'[g] = cpu[g]
  BY DEF OthersSame
<1>2. cpu[g].t \in Tasks
  BY <1>1, InUse
<1> QED
  BY <1>1, <1>2 DEF StructInv, LockInv, SameLists

LEMMA NothingDeferred ==
  ASSUME NEW h \in Threads,
         cpu'[h].pc \notin {"rehome", "unlist", "move", "complete", "append"}
  PROVE  Deferred(h)'
BY Zenon DEF Deferred

\* Nothing but the thread's record changes.
Quiet == UNCHANGED <<task, scheduled, pending>>

LEMMA QuietLists ==
  ASSUME Quiet
  PROVE  SameLists /\ SameHomes
BY DEF Quiet, SameLists, SameHomes

LEMMA QuietCareful ==
  ASSUME NEW h \in Threads, Quiet,
         \A t \in Tasks : Wants(task[t]) /\ Schedules(cpu[h], t) =>
                           \/ Schedules(cpu'[h], t)
                           \/ task[t].pending_nextptr = Listed
  PROVE  Careful(h)
BY DEF Quiet, Careful, CarefulBut

\* A thread goes on in a call, or returns from it, and writes nothing shared.
LEMMA QuietCallStep ==
  ASSUME IInv, NEW h \in Threads, Quiet, lock' = lock, cpu[h].pc \in CallSteps,
         NEW p, p \notin {"leave", "append"},
         NowAt(h, p, cpu[h].t, cpu[h].back), SameRun(h),
         p \in CallSteps \/ (p = cpu[h].back /\ p \in {"loop", "callback"}),
         cpu[h].pc \in AddSteps => p \in AddSteps,
         p \in AddSteps => (cpu'[h].always <=> cpu[h].back = "pending"),
         \/ p \in CallSteps \ {"strong"}
         \/ ~Wants(task[cpu[h].t])
         \/ task[cpu[h].t].pending_nextptr = Listed
  PROVE  IInv'
<1>1. StructInv /\ ListedInv /\ Types
  BY DEF IInv, StructInv
<1>2. OthersSame(h) /\ cpu'[h].pc = p /\ cpu'[h].t = cpu[h].t
  BY DEF NowAt
<1>3. SameLists /\ SameHomes
  BY QuietLists
<1>4. Types'
  BY <1>1 DEF Types, NowAt, Quiet
<1>5. LockInv'
  BY <1>1, <1>2, <1>3, LockStays
<1>6. Moves(h) /\ Spares(h) /\ Destroyer(h)'
  BY Zenon, <1>1, <1>3, CallGoesOn
<1>7. StructInv'
  BY Zenon, <1>1, <1>2, <1>3, <1>4, <1>5, <1>6, StatusStep
<1>8. Careful(h)
  BY Zenon, <1>2, QuietCareful DEF Schedules
<1>9. Deferred(h)'
  BY Zenon, <1>2, NothingDeferred, StepNames
<1> QED
  BY Zenon, <1>1, <1>2, <1>7, <1>8, <1>9, ListedStep DEF IInv

-----------------------------------------------------------------------------
(***************************************************************************)
(* Task::add_pending, up to its list.                                      *)
(***************************************************************************)

LEMMA AddReadThreadStep ==
  ASSUME IInv, NEW h \in Threads, AddReadThread(h)
  PROVE  IInv'
<1> DEFINE c == cpu[h]
           r == [c EXCEPT !.pc = "lock", !.thread = task[c.t].thread]
<1>1. StructInv /\ Types
  BY DEF IInv, StructInv
<1>2. c.pc = "add" /\ Locals(h, r) /\ Quiet /\ lock' = lock
  BY DEF AddReadThread, At, Quiet
<1>3. c.t \in Tasks /\ c \in ThreadRecord /\ task[c.t].thread \in Homes /\ Control(c)
  BY Zenon, <1>1, <1>2, InUse DEF Types, TaskRecord, StructInv, ControlInv
<1>4. "lock" \in Steps /\ {"add", "lock"} \subseteq CallSteps \cap AddSteps
  BY DEF Steps, CallSteps, AddSteps
<1>5. /\ r \in ThreadRecord
      /\ r.pc = "lock" /\ r.t = c.t /\ r.back = c.back /\ r.fires = c.fires
      /\ r.my_pending = c.my_pending /\ r.always = c.always
  BY Zenon, <1>3, <1>4 DEF ThreadRecord
<1> HIDE DEF r
<1>6. NowAt(h, "lock", c.t, c.back) /\ cpu'[h] = r /\ SameRun(h)
  BY <1>1, <1>2, <1>5, LocalsEffect DEF SameRun
<1> QED
  BY Zenon, <1>2, <1>3, <1>4, <1>5, <1>6, QuietCallStep DEF Control

LEMMA AddLockStep ==
  ASSUME IInv, NEW h \in Threads, AddLock(h)
  PROVE  IInv'
<1> DEFINE c == cpu[h]
           ok == /\ task[c.t].thread = c.thread
                 /\ task[c.t].pending_nextptr # Processing \/ c.always
           p == IF c.thread = Quiescent THEN "leave" ELSE "append"
<1>1. StructInv /\ ListedInv /\ Types
  BY DEF IInv, StructInv
<1>2. c.pc = "lock" /\ Quiet /\ lock[c.thread] = Free
  BY Zenon DEF AddLock, At, Quiet
<1>3. c.t \in Tasks /\ Control(c) /\ c.thread \in Homes /\ c \in ThreadRecord
  BY Zenon, <1>1, <1>2, InUse DEF Types, ThreadRecord, StructInv, ControlInv
<1>4. {"lock", "add", "leave", "append"} \subseteq Steps \cap CallSteps \cap AddSteps
  BY DEF Steps, CallSteps, AddSteps
<1>5. CASE ~ok
  <2>1. Goto(h, "add") /\ lock' = lock
    BY Zenon, <1>5 DEF AddLock
  <2>2. NowAt(h, "add", c.t, c.back) /\ SameRun(h) /\ SameLocals(h)
    BY <1>1, <1>4, <2>1, GotoEffect
  <2>3. cpu'[h].always <=> cpu[h].back = "pending"
    BY Zenon, <1>2, <1>3, <1>4, <2>2 DEF Control, SameLocals
  <2>4. /\ cpu[h].pc \in CallSteps /\ "add" \in AddSteps
        /\ "add" \in CallSteps \ {"strong"} /\ "add" \notin {"leave", "append"}
    BY <1>2, <1>4
  <2> QED
    BY Zenon, <1>2, <2>1, <2>2, <2>3, <2>4, QuietCallStep
<1>6. CASE ok
  <2>1. Goto(h, p) /\ lock' = [lock EXCEPT ![c.thread] = h]
    BY Zenon, <1>6 DEF AddLock
  <2>2. p \in {"leave", "append"} /\ (p = "leave" <=> c.thread = Quiescent)
    OBVIOUS
  <2> HIDE DEF p
  <2>3. NowAt(h, p, c.t, c.back) /\ SameRun(h) /\ SameLocals(h)
    BY <1>1, <1>4, <2>1, <2>2, GotoEffect
  <2>4. OthersSame(h) /\ SameLists /\ SameHomes /\ cpu'[h].pc = p
        /\ cpu'[h].t = c.t /\ cpu'[h].thread = c.thread
    BY <1>2, <2>3, QuietLists DEF NowAt, SameLocals
  <2>5. Types'
    BY <1>1, <1>2, <1>3, <2>1, <2>3 DEF Types, NowAt, Quiet
  <2>6. LockInv'
    <3> SUFFICES ASSUME NEW g \in Threads, cpu'[g].pc \in {"leave", "append"}
                 PROVE  /\ lock'[cpu'[g].thread] = g
                        /\ task[cpu'[g].t].thread = cpu'[g].thread
      BY Zenon, <1>2 DEF LockInv, Quiet
    <3>1. CASE g = h
      BY Zenon, <1>1, <1>3, <1>6, <2>1, <2>4, <3>1 DEF Types
    <3>2. CASE g # h
      <4>1. cpu'[g] = cpu[g] /\ lock[cpu[g].thread] = g
            /\ task[cpu[g].t].thread = cpu[g].thread
        BY <1>1, <2>4, <3>2 DEF OthersSame, StructInv, LockInv
      <4>2. cpu[g].thread # c.thread
        BY <1>2, <4>1, ThreadsAssumption DEF Free
      <4>3. cpu[g].thread \in Homes
        BY <1>1 DEF Types, ThreadRecord
      <4> QED
        BY <1>1, <2>1, <4>1, <4>2, <4>3 DEF Types
    <3> QED
      BY <3>1, <3>2
  <2>7. Moves(h) /\ Spares(h) /\ Destroyer(h)'
    BY Zenon, <1>1, <1>2, <1>3, <1>4, <2>2, <2>3, <2>4, CallGoesOn DEF Control,
       SameLocals
  <2>8. StructInv'
    BY Zenon, <1>1, <2>4, <2>5, <2>6, <2>7, StatusStep
  <2>9. Careful(h)
    BY <1>2, <1>4, <2>2, <2>4, QuietCareful DEF Schedules
  <2>10. Deferred(h)'
    <3>1. cpu'[h].pc = "append" => cpu'[h].thread # Quiescent
      BY Zenon, <2>2, <2>4
    <3>2. cpu'[h].pc \notin {"rehome", "unlist", "move", "complete"}
      BY <2>2, <2>4
    <3> QED
      BY Zenon, <3>1, <3>2 DEF Deferred
  <2> QED
    BY <1>1, <2>4, <2>8, <2>9, <2>10, ListedStep DEF IInv
<1> QED
  BY <1>5, <1>6

-----------------------------------------------------------------------------
(***************************************************************************)
(* Steps that change the marks or the lists of one task.                   *)
(***************************************************************************)

\* Of all tasks only u changes, and only in its marks.
Only(u) ==
  /\ \A t \in Tasks \ {u} : task'[t] = task[t]
  /\ task'[u].initialized = task[u].initialized
  /\ task'[u].home = task[u].home
  /\ task'[u].is_scheduled = task[u].is_scheduled
  /\ task'[u].is_strong_unscheduled = task[u].is_strong_unscheduled

\* Only thread h writes its scheduled list.
OthersLists(h) == \A g \in Threads \ {h} : scheduled'[g] = scheduled[g]

\* No thread but h is in process_pending of u.
NotProcessed(h, u) == \A g \in Threads \ {h} : ~(Processes(cpu[g]) /\ cpu[g].t = u)

LEMMA OnlyKeeps ==
  ASSUME NEW u \in Tasks, Only(u)
  PROVE  /\ SameHomes
         /\ \A t \in Tasks : task'[t].initialized = task[t].initialized
         /\ \A t \in Tasks : Wants(task'[t]) <=> Wants(task[t])
<1>1. \A t \in Tasks : /\ task'[t].initialized = task[t].initialized
                       /\ task'[t].home = task[t].home
                       /\ task'[t].is_scheduled = task[t].is_scheduled
                       /\ task'[t].is_strong_unscheduled = task[t].is_strong_unscheduled
  BY DEF Only
<1> QED
  BY <1>1 DEF SameHomes, Wants, Runnable

LEMMA ThreadWrite ==
  ASSUME task \in [Tasks -> TaskRecord], NEW u \in Tasks, NEW k \in Homes, SetThread(u, k)
  PROVE  /\ task' \in [Tasks -> TaskRecord] /\ Only(u)
         /\ task'[u].thread = k
         /\ task'[u].pending_nextptr = task[u].pending_nextptr
<1> DEFINE r == [task[u] EXCEPT !.thread = k]
<1>1. task[u] \in TaskRecord /\ task' = [task EXCEPT ![u] = r]
  BY DEF SetThread
<1>2. /\ r \in TaskRecord /\ r.thread = k /\ r.pending_nextptr = task[u].pending_nextptr
      /\ r.initialized = task[u].initialized /\ r.home = task[u].home
      /\ r.is_scheduled = task[u].is_scheduled
      /\ r.is_strong_unscheduled = task[u].is_strong_unscheduled
  BY <1>1 DEF TaskRecord
<1> HIDE DEF r
<1> QED
  BY <1>1, <1>2 DEF Only

LEMMA NextptrWrite ==
  ASSUME task \in [Tasks -> TaskRecord], NEW u \in Tasks,
         NEW x \in {Off, Processing, Listed}, SetNextptr(u, x)
  PROVE  /\ task' \in [Tasks -> TaskRecord] /\ Only(u)
         /\ task'[u].pending_nextptr = x
         /\ task'[u].thread = task[u].thread
<1> DEFINE r == [task[u] EXCEPT !.pending_nextptr = x]
<1>1. task[u] \in TaskRecord /\ task' = [task EXCEPT ![u] = r]
  BY DEF SetNextptr
<1>2. /\ r \in TaskRecord /\ r.pending_nextptr = x /\ r.thread = task[u].thread
      /\ r.initialized = task[u].initialized /\ r.home = task[u].home
      /\ r.is_scheduled = task[u].is_scheduled
      /\ r.is_strong_unscheduled = task[u].is_strong_unscheduled
  BY <1>1 DEF TaskRecord
<1> HIDE DEF r
<1> QED
  BY <1>1, <1>2 DEF Only

LEMMA ControlStays ==
  ASSUME StructInv, NEW h \in Threads, OthersSame(h), Control(cpu'[h])
  PROVE  ControlInv'
BY DEF StructInv, ControlInv, OthersSame

LEMMA RunStays ==
  ASSUME StructInv, NEW h \in Threads, OthersSame(h), OthersLists(h),
         Visits(cpu'[h]) => cpu'[h].t \in scheduled'[h],
         cpu'[h].fires # NoTask => cpu'[h].fires \in scheduled'[h]
  PROVE  RunInv'
BY Zenon DEF StructInv, RunInv, OthersSame, OthersLists

LEMMA DestroyStays ==
  ASSUME StructInv, NEW h \in Threads, OthersSame(h), Spares(h), Destroyer(h)',
         \A t \in Tasks : task'[t].initialized = task[t].initialized
  PROVE  DestroyInv'
<1> SUFFICES ASSUME NEW g \in Threads, g # h PROVE Destroyer(g)'
  BY DEF DestroyInv
<1>1. cpu'[g] = cpu[g]
  BY Zenon DEF OthersSame
<1>2. cpu[g].pc \in CleanupSteps => cpu[g].t \in Tasks
  BY Zenon DEF StructInv, ControlInv, Control, CleanupSteps
<1> QED
  BY <1>1, <1>2 DEF StructInv, DestroyInv, Destroyer, OthersSame, Spares

LEMMA GoneStays ==
  ASSUME StructInv, NEW h \in Threads, NEW u \in Tasks, OthersSame(h), OthersLists(h),
         Only(u), task[u].initialized, scheduled'[h] \subseteq scheduled[h] \cup {u},
         cpu'[h].pc \notin Idle => task[cpu'[h].t].initialized
  PROVE  GoneInv'
<1> SUFFICES ASSUME NEW t \in Tasks, NEW g \in Threads, ~task'[t].initialized
             PROVE  /\ task'[t].pending_nextptr = Off
                    /\ t \notin scheduled'[g]
                    /\ cpu'[g].t = t => cpu'[g].pc \in Idle
  BY Zenon DEF GoneInv
<1>1. t # u /\ task'[t] = task[t] /\ ~task[t].initialized
  BY Zenon DEF Only
<1>2. CASE g = h
  BY Zenon, <1>1, <1>2 DEF StructInv, GoneInv
<1>3. CASE g # h
  BY <1>1, <1>3 DEF StructInv, GoneInv, OthersSame, OthersLists
<1> QED
  BY Zenon, <1>2, <1>3

LEMMA ProcessStays ==
  ASSUME StructInv, NEW h \in Threads, NEW u \in Tasks, OthersSame(h), Only(u),
         NotProcessed(h, u),
         Processes(cpu'[h]) => /\ Processes(cpu[h]) /\ cpu'[h].t = cpu[h].t
                               /\ task'[cpu[h].t].pending_nextptr = Processing,
         cpu'[h].pc \in {"status", "move"} => task'[cpu[h].t].thread = h
  PROVE  ProcessInv'
<1>1. \A g \in Threads : Processes(cpu'[g]) => Processes(cpu[g]) /\ cpu'[g].t = cpu[g].t
  BY Zenon DEF OthersSame
<1>2. \A g \in Threads : cpu'[g].pc \in {"status", "move"} => Processes(cpu'[g])
  BY Zenon DEF Processes
<1>3. \A g \in Threads : Processes(cpu[g]) => cpu[g].t \in Tasks
  BY Zenon DEF StructInv, ControlInv, Control, Processes, AddSteps
<1>4. \A g \in Threads \ {h} : Processes(cpu[g]) =>
        cpu'[g] = cpu[g] /\ task'[cpu[g].t] = task[cpu[g].t]
  BY Zenon, <1>3 DEF OthersSame, NotProcessed, Only
<1> QED
  BY <1>1, <1>2, <1>4 DEF StructInv, ProcessInv

LEMMA PendingStays ==
  ASSUME StructInv, NEW u \in Tasks, Only(u), task[u].pending_nextptr # Listed,
         pending' = pending,
         \A g \in Threads : cpu'[g].my_pending = cpu[g].my_pending
  PROVE  PendingInv'
<1> SUFFICES ASSUME NEW g \in Threads
             PROVE  /\ Owned(task', pending[g], g)
                    /\ Owned(task', cpu[g].my_pending, g)
  BY DEF StructInv, PendingInv
<1>1. pending[g] \in Seq(Tasks) /\ cpu[g].my_pending \in Seq(Tasks)
  BY Zenon DEF StructInv, Types, ThreadRecord
<1>2. Owned(task, pending[g], g) /\ Owned(task, cpu[g].my_pending, g)
  BY Zenon DEF StructInv, PendingInv
<1>3. /\ \A i \in 1..Len(pending[g]) : pending[g][i] \in Tasks \ {u}
      /\ \A i \in 1..Len(cpu[g].my_pending) : cpu[g].my_pending[i] \in Tasks \ {u}
  BY Zenon, <1>1, <1>2, ElementFacts DEF Owned
<1>4. SameMarks(task, task', pending[g]) /\ SameMarks(task, task', cpu[g].my_pending)
  BY Zenon, <1>3 DEF SameMarks, Only
<1> QED
  BY Zenon, <1>1, <1>2, <1>4, OwnedStays

LEMMA Stutter ==
  ASSUME IInv, UNCHANGED <<task, scheduled, pending, lock, cpu>>
  PROVE  IInv'
<1>1. /\ task' = task /\ scheduled' = scheduled /\ pending' = pending
      /\ lock' = lock /\ cpu' = cpu
  OBVIOUS
<1>2. Types' /\ ControlInv'
  BY <1>1 DEF IInv, StructInv, Types, ControlInv
<1>3. OwnerInv' /\ PendingInv'
  BY Zenon, <1>1 DEF IInv, StructInv, OwnerInv, PendingInv
<1>4. ProcessInv' /\ LockInv' /\ RunInv'
  BY Zenon, <1>1 DEF IInv, StructInv, ProcessInv, LockInv, RunInv
<1>5. DestroyInv' /\ GoneInv'
  BY ZenonT(30), <1>1 DEF IInv, StructInv, DestroyInv, Destroyer, GoneInv
<1>6. NoneForgotten'
  BY <1>1 DEF IInv, ListedInv, NoneForgotten
<1>7. \A h \in Threads : Deferred(h)'
  BY Zenon, <1>1 DEF IInv, ListedInv, Deferred
<1> QED
  BY <1>2, <1>3, <1>4, <1>5, <1>6, <1>7 DEF IInv, StructInv, ListedInv

-----------------------------------------------------------------------------
(***************************************************************************)
(* Task::add_pending: the task's thread and its list.                      *)
(***************************************************************************)

LEMMA AddLeaveQuiescentStep ==
  ASSUME IInv, NEW h \in Threads, AddLeaveQuiescent(h)
  PROVE  IInv'
<1> DEFINE c == cpu[h]
           u == cpu[h].t
           home == task[cpu[h].t].home
<1>1. StructInv /\ ListedInv /\ Types
  BY DEF IInv, StructInv
<1>2. c.pc = "leave" /\ scheduled' = scheduled /\ pending' = pending
  BY Zenon DEF AddLeaveQuiescent, At
<1>3. /\ u \in Tasks /\ task[u].initialized /\ Control(c) /\ c \in ThreadRecord
      /\ home \in Homes
  BY Zenon, <1>1, <1>2, InUse DEF Types, TaskRecord, StructInv, ControlInv
<1>4. c.thread = Quiescent /\ task[u].thread = Quiescent /\ lock[Quiescent] = h
  BY Zenon, <1>1, <1>2, <1>3 DEF StructInv, LockInv, Control
<1>5. {"leave", "append"} \subseteq Steps \cap CallSteps \cap AddSteps
  BY DEF Steps, CallSteps, AddSteps
<1>6. CASE home = Quiescent
  <2>1. Goto(h, "append") /\ Quiet /\ lock' = lock
    BY <1>2, <1>6 DEF AddLeaveQuiescent, Quiet
  <2>2. NowAt(h, "append", u, c.back) /\ SameRun(h) /\ SameLocals(h)
    BY <1>1, <1>5, <2>1, GotoEffect
  <2>3. OthersSame(h) /\ SameLists /\ SameHomes /\ cpu'[h].pc = "append"
        /\ cpu'[h].t = u /\ cpu'[h].thread = Quiescent
    BY Zenon, <1>4, <2>1, <2>2, QuietLists DEF NowAt, SameLocals
  <2>4. Types'
    BY <1>1, <2>1, <2>2 DEF Types, NowAt, Quiet
  <2>5. LockInv'
    <3> SUFFICES ASSUME NEW g \in Threads, cpu'[g].pc \in {"leave", "append"}
                 PROVE  /\ lock[cpu'[g].thread] = g
                        /\ task[cpu'[g].t].thread = cpu'[g].thread
      BY Zenon, <2>1 DEF LockInv, Quiet
    <3>1. CASE g = h
      BY Zenon, <1>4, <2>3, <3>1
    <3>2. CASE g # h
      BY Zenon, <1>1, <2>3, <3>2 DEF OthersSame, StructInv, LockInv
    <3> QED
      BY Zenon, <3>1, <3>2
  <2>6. Moves(h) /\ Spares(h) /\ Destroyer(h)'
    BY Zenon, <1>1, <1>2, <1>3, <1>5, <2>2, <2>3, CallGoesOn DEF Control, SameLocals
  <2>7. StructInv'
    BY Zenon, <1>1, <2>3, <2>4, <2>5, <2>6, StatusStep
  <2>8. Careful(h)
    BY <1>5, <2>1, <2>3, QuietCareful DEF Schedules
  <2>9. Deferred(h)'
    <3>1. ~Wants(task'[cpu'[h].t])
      BY Zenon, <1>6, <2>1, <2>3 DEF Wants, Quiet
    <3> QED
      BY Zenon, <2>3, <3>1 DEF Deferred
  <2> QED
    BY <1>1, <2>3, <2>7, <2>8, <2>9, ListedStep DEF IInv
<1>7. CASE home # Quiescent /\ (on_scheduled_list(u) \/ on_pending_list(u))
  <2>1. UNCHANGED <<task, scheduled, pending, lock, cpu>>
    BY Zenon, <1>2, <1>7 DEF AddLeaveQuiescent
  <2> QED
    BY <2>1, Stutter
<1>8. CASE home # Quiescent /\ ~on_scheduled_list(u) /\ ~on_pending_list(u)
  <2> DEFINE r == [c EXCEPT !.pc = "append", !.thread = home]
  <2>1. /\ lock[home] = Free
        /\ SetThread(u, home)
        /\ lock' = [lock EXCEPT ![home] = h, ![Quiescent] = Free]
        /\ Locals(h, r)
    BY Zenon, <1>8 DEF AddLeaveQuiescent
  <2>2. task[u].pending_nextptr = Off /\ \A g \in Threads : u \notin scheduled[g]
    BY Zenon, <1>8 DEF on_scheduled_list, on_pending_list
  <2>3. Only(u) /\ task'[u].thread = home /\ task'[u].pending_nextptr = Off
        /\ task' \in [Tasks -> TaskRecord]
    BY Zenon, <1>1, <1>3, <2>1, <2>2, ThreadWrite DEF Types
  <2>4. /\ r \in ThreadRecord
        /\ r.pc = "append" /\ r.t = u /\ r.back = c.back /\ r.thread = home
        /\ r.fires = c.fires /\ r.my_pending = c.my_pending /\ r.always = c.always
    BY Zenon, <1>3, <1>5 DEF ThreadRecord
  <2> HIDE DEF r
  <2>5. NowAt(h, "append", u, c.back) /\ cpu'[h] = r /\ SameRun(h) /\ OthersSame(h)
    BY Zenon, <1>1, <2>1, <2>4, LocalsEffect DEF SameRun, NowAt
  <2>6. SameHomes /\ (\A t \in Tasks : task'[t].initialized = task[t].initialized)
        /\ (\A t \in Tasks : Wants(task'[t]) <=> Wants(task[t]))
    BY Zenon, <1>3, <2>3, OnlyKeeps
  <2>7. Types'
    BY Zenon, <1>1, <1>2, <1>3, <2>1, <2>3, <2>5 DEF Types, NowAt, Homes
  <2>8. Moves(h) /\ Spares(h) /\ Destroyer(h)'
    BY Zenon, <1>1, <1>2, <1>3, <1>5, <2>4, <2>5, <2>6, CallGoesOn DEF Control
  <2>9. ControlInv'
    BY Zenon, <1>1, <2>5, <2>8, ControlStays DEF Moves
  <2>10. OwnerInv'
    BY ZenonT(30), <1>1, <1>2, <1>8, <2>2, <2>3 DEF StructInv, OwnerInv, Only, Off,
       Listed
  <2>11. \A g \in Threads : cpu'[g].my_pending = cpu[g].my_pending
    BY Zenon, <2>5 DEF OthersSame, SameRun
  <2>12. PendingInv'
    BY <1>1, <1>2, <1>3, <2>2, <2>3, <2>11, PendingStays DEF Off, Listed
  <2>13. NotProcessed(h, u) /\ ~Processes(c)
    BY <1>1, <2>2 DEF StructInv, ProcessInv, NotProcessed, Off, Processing
  <2>14. ProcessInv'
    <3>1. ~Processes(cpu'[h]) /\ cpu'[h].pc \notin {"status", "move"}
      BY Zenon, <2>4, <2>5, <2>8, <2>13 DEF Moves
    <3> QED
      BY Zenon, <1>1, <1>3, <2>3, <2>5, <2>13, <3>1, ProcessStays
  <2>15. LockInv'
    <3> SUFFICES ASSUME NEW g \in Threads, cpu'[g].pc \in {"leave", "append"}
                 PROVE  /\ lock'[cpu'[g].thread] = g
                        /\ task'[cpu'[g].t].thread = cpu'[g].thread
      BY Zenon DEF LockInv
    <3>1. CASE g = h
      BY Zenon, <1>1, <1>3, <1>8, <2>1, <2>3, <2>4, <2>5, <3>1 DEF Types
    <3>2. CASE g # h
      <4>1. cpu'[g] = cpu[g] /\ lock[cpu[g].thread] = g
            /\ task[cpu[g].t].thread = cpu[g].thread
        BY Zenon, <1>1, <2>5, <3>2 DEF OthersSame, StructInv, LockInv
      <4>2. cpu[g].thread # Quiescent /\ cpu[g].thread # home
        BY <1>4, <2>1, <3>2, <4>1, ThreadsAssumption DEF Free
      <4>3. cpu[g].t \in Tasks /\ cpu[g].t # u
        BY Zenon, <1>1, <1>4, <4>1, <4>2, InUse
      <4>4. cpu[g].thread \in Homes
        BY <1>1 DEF Types, ThreadRecord
      <4> QED
        BY Zenon, <1>1, <2>1, <2>3, <4>1, <4>2, <4>3, <4>4 DEF Types, Only
    <3> QED
      BY Zenon, <3>1, <3>2
  <2>16. OthersLists(h)
    BY <1>2 DEF OthersLists
  <2>17. RunInv'
    BY Zenon, <1>1, <1>2, <2>5, <2>8, <2>16, RunStays DEF Moves
  <2>18. DestroyInv'
    BY Zenon, <1>1, <2>5, <2>6, <2>8, DestroyStays
  <2>19. GoneInv'
    BY Zenon, <1>1, <1>2, <1>3, <2>3, <2>4, <2>5, <2>16, GoneStays
  <2>20. StructInv'
    BY <2>7, <2>9, <2>10, <2>12, <2>14, <2>15, <2>17, <2>18, <2>19 DEF StructInv
  <2>21. Careful(h)
    <3>1. \A t \in Tasks : Schedules(c, t) => Schedules(cpu'[h], t)
      BY Zenon, <1>5, <2>4, <2>5 DEF Schedules
    <3>2. \A t \in Tasks : /\ task'[t].pending_nextptr = task[t].pending_nextptr
                           /\ task'[t].home = task[t].home
      BY Zenon, <2>2, <2>3, <2>6 DEF Only, SameHomes
    <3> QED
      BY Zenon, <1>2, <2>6, <3>1, <3>2 DEF Careful, CarefulBut
  <2>22. Deferred(h)'
    BY Zenon, <1>8, <2>4, <2>5 DEF Deferred
  <2> QED
    BY <1>1, <2>5, <2>20, <2>21, <2>22, ListedStep DEF IInv
<1> QED
  BY Zenon, <1>6, <1>7, <1>8

\* add_pending returns.
LEMMA CallReturns ==
  ASSUME StructInv, NEW h \in Threads, cpu[h].pc = "append",
         NowAt(h, cpu[h].back, cpu[h].t, cpu[h].back), SameRun(h), SameHomes
  PROVE  /\ cpu[h].back \in {"loop", "callback", "pending", "unlist"}
         /\ Control(cpu'[h]) /\ ~Processes(cpu'[h])
         /\ (Visits(cpu'[h]) <=> cpu[h].back = "unlist")
         /\ (cpu[h].back = "unlist" => cpu[h].t \in scheduled[h])
         /\ (cpu'[h].fires # NoTask => cpu'[h].fires \in scheduled[h])
         /\ Spares(h) /\ Destroyer(h)'
<1> DEFINE c == cpu[h]
           d == cpu'[h]
           b == cpu[h].back
<1>1. Control(c) /\ c.t \in Tasks /\ "append" \in AddSteps \cap CallSteps
  BY Zenon, InUse DEF StructInv, ControlInv, AddSteps, CallSteps
<1>2. /\ d.pc = b /\ d.t = c.t /\ d.back = b
      /\ d.fires = c.fires /\ d.my_pending = c.my_pending
  BY Zenon DEF NowAt, SameRun
<1>3. b \in {"loop", "callback", "pending", "unlist"}
  BY Zenon, <1>1 DEF Control
<1>4. b \notin CallSteps \cup CleanupSteps \cup AddSteps
  BY Zenon, <1>3, StepNames
<1>5. /\ ~Processes(d) /\ (Processes(c) <=> b = "pending")
      /\ (Visits(d) <=> b = "unlist") /\ (Visits(c) <=> b = "unlist")
      /\ (Fires(d) <=> Fires(c))
  BY Zenon, <1>1, <1>2, <1>3, <1>4 DEF Processes, Visits, Fires
<1>6. Control(d)
  BY Zenon, <1>1, <1>2, <1>3, <1>4, <1>5 DEF Control
<1>7. /\ b = "unlist" => c.t \in scheduled[h]
      /\ d.fires # NoTask => d.fires \in scheduled[h]
  BY Zenon, <1>2, <1>5 DEF StructInv, RunInv
<1>8. Spares(h)
  <2> SUFFICES ASSUME NEW g \in Threads \ {h}, cpu[g].pc \in CleanupSteps
               PROVE  task'[cpu[g].t].home = Quiescent
    BY Zenon, <1>2, <1>4 DEF Spares
  <2>1. Destroyer(g) /\ cpu[g].t \in Tasks
    BY Zenon, InUse, StepNames DEF StructInv, DestroyInv
  <2> QED
    BY Zenon, <2>1 DEF Destroyer, SameHomes
<1>9. Destroyer(h)'
  BY Zenon, <1>2, <1>4 DEF Destroyer
<1> QED
  BY Zenon, <1>3, <1>5, <1>6, <1>7, <1>8, <1>9

Lacks(s, u) == \A i \in 1..Len(s) : s[i] # u

LEMMA OwnedAppend ==
  ASSUME NEW T, NEW s \in Seq(Tasks), NEW u \in Tasks, NEW k, Owned(T, s, k),
         T[u].thread = k, T[u].pending_nextptr = Listed, Lacks(s, u)
  PROVE  /\ Append(s, u) \in Seq(Tasks)
         /\ Owned(T, Append(s, u), k)
         /\ \A i \in 1..Len(Append(s, u)) :
              Append(s, u)[i] = u \/ \E j \in 1..Len(s) : Append(s, u)[i] = s[j]
<1> DEFINE a == Append(s, u)
<1>1. /\ a \in Seq(Tasks) /\ Len(s) \in Nat /\ Len(a) = Len(s) + 1
      /\ \A i \in 1..Len(s) : a[i] = s[i]
      /\ a[Len(s) + 1] = u
  BY AppendFacts, ElementFacts
<1> HIDE DEF a
<1>2. \A i \in 1..Len(a) : i \in 1..Len(s) \/ i = Len(s) + 1
  BY <1>1
<1>3. \A i \in 1..Len(a) : T[a[i]].thread = k /\ T[a[i]].pending_nextptr = Listed
  BY Zenon, <1>1, <1>2 DEF Owned
<1>4. \A i, j \in 1..Len(a) : a[i] = a[j] => i = j
  BY ZenonT(30), <1>1, <1>2 DEF Owned, Lacks
<1> QED
  BY Zenon, <1>1, <1>2, <1>3, <1>4 DEF Owned, a

\* Nobody else needs the lock that thread h gives back.
LEMMA LockGiven ==
  ASSUME StructInv, NEW h \in Threads, OthersSame(h), cpu[h].pc = "append",
         lock' = [lock EXCEPT ![cpu[h].thread] = Free],
         \A t \in Tasks : task'[t].thread = task[t].thread,
         cpu'[h].pc \notin {"leave", "append"}
  PROVE  LockInv' /\ lock' \in [Homes -> Threads \cup {Free}]
<1>1. lock \in [Homes -> Threads \cup {Free}] /\ lock[cpu[h].thread] = h
  BY DEF StructInv, Types, LockInv
<1>2. lock' \in [Homes -> Threads \cup {Free}]
  BY Zenon, <1>1
<1>3. ASSUME NEW g \in Threads, cpu'[g].pc \in {"leave", "append"}
      PROVE  /\ lock'[cpu'[g].thread] = g
             /\ task'[cpu'[g].t].thread = cpu'[g].thread
  <2>1. g # h /\ cpu'[g] = cpu[g]
    BY Zenon, <1>3 DEF OthersSame
  <2>2. cpu[g].t \in Tasks /\ cpu[g].thread \in Homes
    BY Zenon, <1>3, <2>1, InUse DEF StructInv, Types, ThreadRecord
  <2>3. lock[cpu[g].thread] = g /\ task[cpu[g].t].thread = cpu[g].thread
    BY Zenon, <1>3, <2>1 DEF StructInv, LockInv
  <2>4. cpu[g].thread # cpu[h].thread
    BY Zenon, <1>1, <2>1, <2>3
  <2> QED
    BY Zenon, <1>1, <2>1, <2>2, <2>3, <2>4
<1> QED
  BY Zenon, <1>2, <1>3 DEF LockInv

\* add_pending writes the mark of its task, and returns.
LEMMA AppendMarks ==
  ASSUME StructInv, NEW h \in Threads, cpu[h].pc = "append",
         NowAt(h, cpu[h].back, cpu[h].t, cpu[h].back), SameRun(h),
         lock' = [lock EXCEPT ![cpu[h].thread] = Free], scheduled' = scheduled,
         task' \in [Tasks -> TaskRecord], Only(cpu[h].t), NotProcessed(h, cpu[h].t),
         task'[cpu[h].t].thread = task[cpu[h].t].thread,
         pending' \in [Threads -> Seq(Tasks)], OwnerInv', PendingInv'
  PROVE  StructInv'
<1> DEFINE c == cpu[h]
           u == cpu[h].t
<1>1. u \in Tasks /\ task[u].initialized /\ OthersSame(h) /\ cpu'[h].pc = c.back /\ cpu'[h].t = u
  BY Zenon, InUse DEF NowAt
<1>2. SameHomes /\ \A t \in Tasks : task'[t].initialized = task[t].initialized
  BY Zenon, <1>1, OnlyKeeps
<1>3. /\ c.back \in {"loop", "callback", "pending", "unlist"}
      /\ Control(cpu'[h]) /\ ~Processes(cpu'[h])
      /\ (Visits(cpu'[h]) <=> c.back = "unlist")
      /\ (c.back = "unlist" => u \in scheduled[h])
      /\ (cpu'[h].fires # NoTask => cpu'[h].fires \in scheduled[h])
      /\ Spares(h) /\ Destroyer(h)'
  BY Zenon, <1>2, CallReturns
<1>4. \A t \in Tasks : task'[t].thread = task[t].thread
  BY Zenon, <1>1 DEF Only
<1>5. LockInv' /\ lock' \in [Homes -> Threads \cup {Free}]
  BY Zenon, <1>1, <1>3, <1>4, LockGiven
<1>6. Types'
  BY Zenon, <1>5 DEF StructInv, Types, NowAt
<1>7. ControlInv'
  BY Zenon, <1>1, <1>3, ControlStays
<1>8. ProcessInv'
  BY Zenon, <1>1, <1>3, ProcessStays
<1>9. OthersLists(h)
  BY Zenon DEF OthersLists
<1>10. RunInv'
  BY Zenon, <1>1, <1>3, <1>9, RunStays
<1>11. DestroyInv'
  BY Zenon, <1>1, <1>2, <1>3, DestroyStays
<1>12. GoneInv'
  BY Zenon, <1>1, <1>9, GoneStays
<1> QED
  BY Zenon, <1>5, <1>6, <1>7, <1>8, <1>10, <1>11, <1>12 DEF StructInv

\* The task is not yet on the list of its thread, where add_pending puts it.
LEMMA PendingAppend ==
  ASSUME StructInv, NEW u \in Tasks, NEW k \in Threads, Only(u),
         task[u].pending_nextptr # Listed, task[u].thread = k,
         task'[u].pending_nextptr = Listed, task'[u].thread = k,
         pending' = [pending EXCEPT ![k] = Append(@, u)],
         \A g \in Threads : cpu'[g].my_pending = cpu[g].my_pending
  PROVE  PendingInv' /\ pending' \in [Threads -> Seq(Tasks)]
<1>1. \A g \in Threads : pending[g] \in Seq(Tasks) /\ cpu[g].my_pending \in Seq(Tasks)
  BY Zenon DEF StructInv, Types, ThreadRecord
<1>2. ASSUME NEW g \in Threads
      PROVE  /\ Owned(task', pending[g], g) /\ Owned(task', cpu[g].my_pending, g)
             /\ Lacks(pending[g], u) /\ Lacks(cpu[g].my_pending, u)
  <2>1. Owned(task, pending[g], g) /\ Owned(task, cpu[g].my_pending, g)
    BY Zenon DEF StructInv, PendingInv
  <2>2. /\ \A i \in 1..Len(pending[g]) : pending[g][i] \in Tasks \ {u}
        /\ \A i \in 1..Len(cpu[g].my_pending) : cpu[g].my_pending[i] \in Tasks \ {u}
    BY Zenon, <1>1, <2>1, ElementFacts DEF Owned
  <2>3. SameMarks(task, task', pending[g]) /\ SameMarks(task, task', cpu[g].my_pending)
    BY Zenon, <2>2 DEF SameMarks, Only
  <2> QED
    BY Zenon, <1>1, <2>1, <2>2, <2>3, OwnedStays DEF Lacks
<1>3. /\ pending'[k] = Append(pending[k], u)
      /\ \A g \in Threads \ {k} : pending'[g] = pending[g]
  BY Zenon DEF StructInv, Types
<1>4. /\ pending'[k] \in Seq(Tasks) /\ Owned(task', pending'[k], k)
      /\ \A i \in 1..Len(pending'[k]) :
           pending'[k][i] = u \/ \E j \in 1..Len(pending[k]) : pending'[k][i] = pending[k][j]
  <2> DEFINE q == pending[k]
             T == task'
  <2>1. q \in Seq(Tasks) /\ Owned(T, q, k) /\ Lacks(q, u)
        /\ T[u].thread = k /\ T[u].pending_nextptr = Listed
    BY Zenon, <1>1, <1>2
  <2>2. pending'[k] = Append(q, u)
    BY Zenon, <1>3
  <2> HIDE DEF q, T
  <2>3. /\ Append(q, u) \in Seq(Tasks)
        /\ Owned(T, Append(q, u), k)
        /\ \A i \in 1..Len(Append(q, u)) :
             Append(q, u)[i] = u \/ \E j \in 1..Len(q) : Append(q, u)[i] = q[j]
    BY Zenon, <2>1, OwnedAppend
  <2> QED
    BY ZenonT(30), <2>2, <2>3 DEF q, T
<1>5. pending' \in [Threads -> Seq(Tasks)]
  BY Zenon, <1>3, <1>4 DEF StructInv, Types
<1>6. ASSUME NEW g \in Threads
      PROVE  /\ Owned(task', pending'[g], g) /\ Owned(task', cpu'[g].my_pending, g)
             /\ \A i \in 1..Len(pending'[g]), j \in 1..Len(cpu'[g].my_pending) :
                  pending'[g][i] # cpu'[g].my_pending[j]
  <2>1. \A i \in 1..Len(pending[g]), j \in 1..Len(cpu[g].my_pending) :
           pending[g][i] # cpu[g].my_pending[j]
    BY Zenon DEF StructInv, PendingInv
  <2>2. CASE g = k
    BY SMTT(30), <1>2, <1>4, <2>1, <2>2 DEF Lacks
  <2>3. CASE g # k
    BY <1>2, <1>3, <2>1, <2>3
  <2> QED
    BY Zenon, <2>2, <2>3
<1> QED
  BY Zenon, <1>5, <1>6 DEF PendingInv

LEMMA AddAppendStep ==
  ASSUME IInv, NEW h \in Threads, AddAppend(h)
  PROVE  IInv'
<1> DEFINE c == cpu[h]
           u == cpu[h].t
           x == task[cpu[h].t].pending_nextptr
           b == cpu[h].back
<1>1. StructInv /\ ListedInv /\ Types
  BY DEF IInv, StructInv
<1>2. c.pc = "append" /\ scheduled' = scheduled
  BY Zenon DEF AddAppend, At
<1>3. /\ u \in Tasks /\ task[u].initialized /\ Control(c) /\ c.thread \in Homes
      /\ b \in Steps
  BY Zenon, <1>1, <1>2, InUse DEF Types, ThreadRecord, StructInv, ControlInv
<1>4. c.thread = task[u].thread /\ lock[c.thread] = h
  BY Zenon, <1>1, <1>2 DEF StructInv, LockInv
<1>5. CASE x = Processing /\ ~c.always
  <2>1. UNCHANGED <<task, scheduled, pending, lock, cpu>>
    BY <1>2, <1>5 DEF AddAppend
  <2> QED
    BY <2>1, Stutter
<1>6. CASE ~(x = Processing /\ ~c.always)
  <2>1. lock' = [lock EXCEPT ![c.thread] = Free] /\ Goto(h, b)
    BY Zenon, <1>6 DEF AddAppend
  <2>2. NowAt(h, b, u, b) /\ SameRun(h)
    BY Zenon, <1>1, <1>3, <2>1, GotoEffect
  <2>3. OthersSame(h) /\ cpu'[h].pc = b /\ cpu'[h].t = u
    BY Zenon, <2>2 DEF NowAt
  <2>4. \A g \in Threads : cpu'[g].my_pending = cpu[g].my_pending
    BY Zenon, <2>2, <2>3 DEF OthersSame, SameRun
  <2>5. "append" \in AddSteps \cap CallSteps /\ (c.always <=> b = "pending")
    BY Zenon, <1>2, <1>3 DEF Control, AddSteps, CallSteps
  <2>6. b = "pending" <=> Processes(c)
    BY <1>2, <2>5 DEF Processes
  <2>7. Processes(c) => x = Processing
    BY Zenon, <1>1 DEF StructInv, ProcessInv
  <2>8. NotProcessed(h, u)
    <3> SUFFICES ASSUME NEW g \in Threads \ {h}, Processes(cpu[g]), cpu[g].t = u PROVE FALSE
      BY DEF NotProcessed
    <3>1. x = Processing
      BY Zenon, <1>1 DEF StructInv, ProcessInv
    <3>2. Processes(c)
      BY Zenon, <1>6, <2>5, <2>6, <3>1
    <3> QED
      BY Zenon, <1>1, <3>2 DEF StructInv, ProcessInv
  <2>9. \A t \in Tasks : Schedules(c, t) => t = u
    BY DEF Schedules
  <2>10. CASE x = Listed
    <3>1. Quiet
      BY <1>2, <1>6, <2>10 DEF AddAppend, Quiet
    <3>2. SameLists /\ SameHomes
      BY <3>1, QuietLists
    <3>3. /\ b \in {"loop", "callback", "pending", "unlist"}
          /\ Control(cpu'[h]) /\ ~Processes(cpu'[h])
          /\ (Visits(cpu'[h]) <=> b = "unlist")
          /\ (b = "unlist" => u \in scheduled[h])
          /\ (cpu'[h].fires # NoTask => cpu'[h].fires \in scheduled[h])
          /\ Spares(h) /\ Destroyer(h)'
      BY Zenon, <1>1, <1>2, <2>2, <3>2, CallReturns
    <3>4. Moves(h)
      BY Zenon, <1>3, <2>3, <2>4, <3>3 DEF Moves
    <3>5. LockInv' /\ lock' \in [Homes -> Threads \cup {Free}]
      BY Zenon, <1>1, <1>2, <2>1, <2>3, <3>2, <3>3, LockGiven DEF SameLists
    <3>6. Types'
      BY Zenon, <1>1, <2>2, <3>1, <3>5 DEF Types, NowAt, Quiet
    <3>7. StructInv'
      BY Zenon, <1>1, <2>3, <3>2, <3>3, <3>4, <3>5, <3>6, StatusStep
    <3>8. Careful(h)
      BY Zenon, <2>9, <2>10, <3>1, QuietCareful
    <3>9. Deferred(h)'
      BY Zenon, <2>3, <2>10, <3>1, <3>3 DEF Deferred, Quiet
    <3> QED
      BY Zenon, <1>1, <2>3, <3>7, <3>8, <3>9, ListedStep DEF IInv
  <2>11. CASE x # Listed /\ c.thread = Quiescent
    <3>1. SetNextptr(u, Off) /\ pending' = pending
      BY <1>6, <2>11 DEF AddAppend
    <3>2. /\ task' \in [Tasks -> TaskRecord] /\ Only(u)
          /\ task'[u].pending_nextptr = Off /\ task'[u].thread = Quiescent
      BY Zenon, <1>1, <1>3, <1>4, <2>11, <3>1, NextptrWrite DEF Types
    <3>3. OwnerInv'
      <4>1. \A t \in Tasks : task'[t].thread = task[t].thread
        BY Zenon, <1>4, <2>11, <3>2 DEF Only
      <4>2. \A t \in Tasks : task'[t].pending_nextptr = Listed => task[t].pending_nextptr = Listed
        BY <3>2 DEF Only, Off, Listed
      <4> QED
        BY Zenon, <1>1, <1>2, <4>1, <4>2 DEF StructInv, OwnerInv
    <3>4. PendingInv'
      BY Zenon, <1>1, <1>3, <2>4, <2>11, <3>1, <3>2, PendingStays
    <3>5. StructInv'
      BY Zenon, <1>1, <1>2, <1>4, <2>1, <2>2, <2>8, <2>11, <3>1, <3>2, <3>3, <3>4,
         AppendMarks DEF Types
    <3>6. \A g \in Threads : u \notin scheduled[g]
      BY Zenon, <1>1, <1>3, <1>4, <2>11, QuiescentNeverRuns DEF StructInv, OwnerInv
    <3>7. \A t \in Tasks : Wants(task'[t]) <=> Wants(task[t])
      BY Zenon, <1>3, <3>2, OnlyKeeps
    <3>8. CarefulBut(h, {u})
      BY Zenon, <1>2, <2>9, <3>2 DEF CarefulBut, Only
    <3>9. Settled(task', scheduled', cpu', u)
      <4> SUFFICES ASSUME Wants(task'[u]) PROVE Busy(cpu', u)
        BY Zenon DEF Settled
      <4>1. PICK g \in Threads \ {h} : Schedules(cpu[g], u)
        BY Zenon, <1>1, <1>2, <1>3, <2>11, <3>7 DEF ListedInv, Deferred
      <4> QED
        BY Zenon, <2>3, <4>1 DEF Busy, OthersSame
    <3>10. ASSUME NEW g \in Threads \ {h}, cpu[g].t = u PROVE Deferred(g)'
      <4>1. cpu[g].pc \notin {"rehome", "unlist"}
        BY Zenon, <1>1, <3>6, <3>10 DEF StructInv, RunInv, Visits
      <4>2. cpu[g].pc \notin {"move", "complete"}
        BY <2>8, <3>10 DEF NotProcessed, Processes
      <4>3. ~(cpu[g].pc = "append" /\ cpu[g].thread = Quiescent)
        BY Zenon, <1>1, <1>4, <2>11 DEF StructInv, LockInv
      <4>4. cpu'[g] = cpu[g]
        BY <2>3 DEF OthersSame
      <4> QED
        BY Zenon, <4>1, <4>2, <4>3, <4>4 DEF Deferred
    <3>11. Deferred(h)'
      <4>1. b # "unlist"
        BY Zenon, <1>1, <1>2, <2>5, <3>6 DEF StructInv, RunInv, Visits
      <4>2. b \in {"loop", "callback", "pending"}
        BY Zenon, <1>2, <1>3, <2>5, <4>1 DEF Control
      <4> QED
        BY <2>3, <4>2, NothingDeferred
    <3> QED
      BY Zenon, <1>1, <2>3, <3>5, <3>8, <3>9, <3>10, <3>11, ListedStepBut DEF IInv
  <2>12. CASE x # Listed /\ c.thread # Quiescent
    <3>1. SetNextptr(u, Listed) /\ pending' = [pending EXCEPT ![c.thread] = Append(@, u)]
      BY Zenon, <1>6, <2>12 DEF AddAppend
    <3>2. /\ task' \in [Tasks -> TaskRecord] /\ Only(u)
          /\ task'[u].pending_nextptr = Listed /\ task'[u].thread = c.thread
      BY Zenon, <1>1, <1>3, <1>4, <3>1, NextptrWrite DEF Types
    <3>3. c.thread \in Threads
      BY ZenonT(30), <1>3, <2>12 DEF Homes
    <3>4. OwnerInv'
      BY <1>1, <1>2, <1>4, <2>12, <3>2 DEF StructInv, OwnerInv, Only
    <3>5. PendingInv' /\ pending' \in [Threads -> Seq(Tasks)]
      BY Zenon, <1>1, <1>3, <1>4, <2>4, <2>12, <3>1, <3>2, <3>3, PendingAppend
    <3>6. StructInv'
      BY Zenon, <1>1, <1>2, <1>4, <2>1, <2>2, <2>8, <3>2, <3>4, <3>5, AppendMarks
    <3>7. SameHomes /\ \A t \in Tasks : Wants(task'[t]) <=> Wants(task[t])
      BY Zenon, <1>3, <3>2, OnlyKeeps
    <3>8. Careful(h)
      BY Zenon, <1>2, <2>9, <3>2, <3>7 DEF Careful, CarefulBut, Only, SameHomes
    <3>9. Deferred(h)'
      <4>1. b \in {"loop", "callback", "pending", "unlist"}
        BY Zenon, <1>2, <1>3, <2>5 DEF Control
      <4> QED
        BY Zenon, <2>3, <3>2, <4>1 DEF Deferred
    <3> QED
      BY <1>1, <2>3, <3>6, <3>8, <3>9, ListedStep DEF IInv
  <2> QED
    BY Zenon, <2>10, <2>11, <2>12
<1> QED
  BY Zenon, <1>5, <1>6
=============================================================================
