---------------------------- MODULE Task_threads ----------------------------
(***************************************************************************)
(* The steps of a thread's own loop keep the invariant of Task_lemmas:     *)
(* RouterThread::process_pending and RouterThread::run_tasks.              *)
(***************************************************************************)
EXTENDS Task_lemmas

USE DEF Idle

-----------------------------------------------------------------------------
(***************************************************************************)
(* RouterThread::process_pending and Task::process_pending.                *)
(***************************************************************************)

\* A thread outside of the calls on tasks disturbs nobody who destroys one.
LEMMA OutsideSpares ==
  ASSUME StructInv, NEW h \in Threads, SameHomes,
         cpu'[h].pc \notin CallSteps \cup CleanupSteps
  PROVE  Spares(h) /\ Destroyer(h)'
<1>1. Spares(h)
  <2> SUFFICES ASSUME NEW g \in Threads \ {h}, cpu[g].pc \in CleanupSteps
               PROVE  task'[cpu[g].t].home = Quiescent
    BY DEF Spares
  <2>1. Destroyer(g) /\ cpu[g].t \in Tasks
    BY InUse, StepNames DEF StructInv, DestroyInv
  <2> QED
    BY <2>1 DEF Destroyer, SameHomes
<1>2. Destroyer(h)'
  BY DEF Destroyer
<1> QED
  BY <1>1, <1>2

SameThreads == \A t \in Tasks : task'[t].thread = task[t].thread

LEMMA LockKept ==
  ASSUME StructInv, NEW h \in Threads, OthersSame(h), SameThreads, lock' = lock,
         cpu'[h].pc \notin {"leave", "append"}
  PROVE  LockInv'
<1> SUFFICES ASSUME NEW g \in Threads, cpu'[g].pc \in {"leave", "append"}
             PROVE  /\ lock'[cpu'[g].thread] = g
                    /\ task'[cpu'[g].t].thread = cpu'[g].thread
  BY DEF LockInv
<1>1. g # h /\ cpu'[g] = cpu[g]
  BY DEF OthersSame
<1>2. cpu[g].t \in Tasks
  BY <1>1, InUse
<1> QED
  BY <1>1, <1>2 DEF StructInv, LockInv, SameThreads

\* A task of thread h that is in no other's process_pending is not left to
\* the others.
LEMMA OwnDeferred ==
  ASSUME StructInv, NEW h \in Threads, OthersSame(h), NEW u \in Tasks,
         task[u].thread = h, NotProcessed(h, u),
         NEW g \in Threads \ {h}, cpu[g].t = u
  PROVE  Deferred(g)'
<1>1. cpu[g].pc \notin {"rehome", "unlist"}
  BY DEF StructInv, RunInv, Visits, OwnerInv
<1>2. cpu[g].pc \notin {"move", "complete"}
  BY DEF NotProcessed, Processes
<1>3. ~(cpu[g].pc = "append" /\ cpu[g].thread = Quiescent)
  BY QuiescentNeverRuns DEF StructInv, LockInv
<1>4. cpu'[g] = cpu[g]
  BY DEF OthersSame
<1> QED
  BY <1>1, <1>2, <1>3, <1>4 DEF Deferred

\* A thread outside of the calls leaves those who schedule a task alone.
LEMMA StillBusy ==
  ASSUME NEW h \in Threads, OthersSame(h), cpu[h].pc \notin CallSteps, NEW t
  PROVE  /\ Busy(cpu, t) => Busy(cpu', t)
         /\ \A k \in Threads : Schedules(cpu[k], t) => Schedules(cpu'[k], t)
<1>1. \A k \in Threads : Schedules(cpu[k], t) => Schedules(cpu'[k], t)
  <2> SUFFICES ASSUME NEW k \in Threads, Schedules(cpu[k], t) PROVE Schedules(cpu'[k], t)
    OBVIOUS
  <2>1. k # h
    BY DEF Schedules
  <2> QED
    BY <2>1 DEF OthersSame
<1> QED
  BY <1>1 DEF Busy

LEMMA NoCall ==
  ASSUME NEW h \in Threads, cpu[h].pc \notin CallSteps, NEW t
  PROVE  ~Schedules(cpu[h], t)
BY DEF Schedules

\* The record of a thread between its calls.
LEMMA BetweenCalls ==
  ASSUME StructInv, NEW h \in Threads
  PROVE  /\ cpu[h].pc = "loop" => cpu[h].my_pending = <<>>
         /\ cpu[h].pc \in {"loop", "pending", "status", "move", "complete", "rehome",
                           "unlist", "fire"} => cpu[h].fires = NoTask
<1>1. Control(cpu[h])
  BY DEF StructInv, ControlInv
<1>2. cpu[h].pc = "loop" => ~Processes(cpu[h])
  BY StepNames DEF Processes
<1>3. cpu[h].pc \in {"loop", "pending", "status", "move", "complete", "rehome",
                     "unlist", "fire"} => ~Fires(cpu[h])
  BY StepNames DEF Fires
<1> QED
  BY <1>1, <1>2, <1>3 DEF Control

LEMMA MyPendingKept ==
  ASSUME NEW h \in Threads, OthersSame(h), SameRun(h)
  PROVE  \A g \in Threads : cpu'[g].my_pending = cpu[g].my_pending
BY DEF OthersSame, SameRun

LEMMA ClaimPendingStep ==
  ASSUME IInv, NEW h \in Threads, ClaimPending(h)
  PROVE  IInv'
<1> DEFINE c == cpu[h]
           r == [c EXCEPT !.pc = "pending", !.my_pending = pending[h]]
           u == pending[h][1]
<1>1. StructInv /\ ListedInv /\ Types
  BY DEF IInv, StructInv
<1>2. /\ c.pc = "loop" /\ pending[h] # <<>> /\ Locals(h, r)
      /\ pending' = [pending EXCEPT ![h] = <<>>]
      /\ task' = task /\ scheduled' = scheduled /\ lock' = lock
  BY DEF ClaimPending, At
<1>3. pending[h] \in Seq(Tasks) /\ c \in ThreadRecord /\ "pending" \in Steps
  BY <1>1 DEF Types, Steps
<1>4. /\ r \in ThreadRecord
      /\ r.pc = "pending" /\ r.t = c.t /\ r.back = c.back /\ r.fires = c.fires
      /\ r.my_pending = pending[h]
  BY Zenon, <1>3 DEF ThreadRecord
<1> HIDE DEF r
<1>5. NowAt(h, "pending", c.t, c.back) /\ cpu'[h] = r /\ OthersSame(h)
  BY <1>1, <1>2, <1>4, LocalsEffect DEF NowAt
<1>6. c.fires = NoTask /\ c.my_pending = <<>> /\ Control(c)
  BY <1>1, <1>2, BetweenCalls DEF StructInv, ControlInv
<1>7. 1 \in 1..Len(pending[h]) /\ u \in Tasks
  BY <1>2, <1>3, ElementFacts
<1>8. task[u].initialized
  BY <1>1, <1>7 DEF StructInv, PendingInv, Owned, GoneInv, Off, Listed
<1>9. Only(u) /\ SameHomes /\ SameThreads
  BY <1>2 DEF Only, SameHomes, SameThreads
<1>10. /\ pending'[h] = <<>>
       /\ \A g \in Threads \ {h} : pending'[g] = pending[g]
       /\ pending' \in [Threads -> Seq(Tasks)]
  BY <1>1, <1>2 DEF Types
<1>11. Types'
  BY <1>1, <1>2, <1>5, <1>10 DEF Types, NowAt
<1>12. ~Processes(cpu'[h]) /\ ~Visits(cpu'[h]) /\ ~Fires(cpu'[h])
       /\ "pending" \notin CallSteps \cup CleanupSteps \cup AddSteps
  <2>1. "pending" \notin CallSteps \cup CleanupSteps \cup AddSteps
    BY StepNames
  <2> QED
    BY <1>4, <1>5, <2>1 DEF Processes, Visits, Fires
<1>13. Control(cpu'[h])
  BY <1>4, <1>5, <1>6, <1>12 DEF Control
<1>14. ControlInv'
  BY <1>1, <1>5, <1>13, ControlStays
<1>15. OwnerInv'
  BY <1>1, <1>2 DEF StructInv, OwnerInv
<1>16. PendingInv'
  <2> SUFFICES ASSUME NEW g \in Threads
               PROVE  /\ Owned(task, pending'[g], g)
                      /\ Owned(task, cpu'[g].my_pending, g)
                      /\ \A i \in 1..Len(pending'[g]), j \in 1..Len(cpu'[g].my_pending) :
                           pending'[g][i] # cpu'[g].my_pending[j]
    BY SMTT(30), <1>2 DEF PendingInv
  <2>1. CASE g = h
    <3>1. 1..Len(pending'[h]) = {}
      BY <1>10
    <3> QED
      BY <1>1, <1>4, <1>5, <2>1, <3>1 DEF StructInv, PendingInv, Owned
  <2>2. CASE g # h
    BY SMTT(30), <1>1, <1>5, <1>10, <2>2 DEF StructInv, PendingInv, OthersSame
  <2> QED
    BY <2>1, <2>2
<1>17. ProcessInv'
  <2>1. \A g \in Threads : Processes(cpu'[g]) => cpu'[g] = cpu[g]
    BY <1>5, <1>12 DEF OthersSame
  <2>2. \A g \in Threads : cpu'[g].pc \in {"status", "move"} => cpu'[g] = cpu[g]
    BY <1>4, <1>5 DEF OthersSame
  <2> QED
    BY Zenon, <1>1, <1>2, <2>1, <2>2 DEF StructInv, ProcessInv
<1>18. LockInv'
  BY <1>1, <1>2, <1>4, <1>5, <1>9, LockKept
<1>19. OthersLists(h)
  BY <1>2 DEF OthersLists
<1>20. RunInv'
  BY <1>1, <1>4, <1>5, <1>6, <1>12, <1>19, RunStays
<1>21. Spares(h) /\ Destroyer(h)'
  BY <1>1, <1>4, <1>5, <1>9, <1>12, OutsideSpares
<1>22. DestroyInv'
  BY <1>1, <1>2, <1>5, <1>21, DestroyStays
<1>23. GoneInv'
  BY Zenon, <1>1, <1>2, <1>4, <1>5, <1>7, <1>8, <1>9, <1>19, GoneStays
<1>24. StructInv'
  BY <1>11, <1>14, <1>15, <1>16, <1>17, <1>18, <1>20, <1>22, <1>23 DEF StructInv
<1>25. Careful(h)
  <2>1. \A t \in Tasks : ~Schedules(c, t)
    BY <1>2, NoCall, StepNames
  <2> QED
    BY <1>2, <2>1 DEF Careful, CarefulBut
<1>26. Deferred(h)'
  BY <1>4, <1>5, NothingDeferred
<1> QED
  BY <1>1, <1>5, <1>24, <1>25, <1>26, ListedStep DEF IInv

\* A thread outside of the calls goes on, and writes nothing shared.
LEMMA QuietStep ==
  ASSUME IInv, NEW h \in Threads, Quiet, lock' = lock, cpu[h].pc \notin CallSteps,
         OthersSame(h), cpu' \in [Threads -> ThreadRecord],
         cpu'[h].pc \notin {"leave", "append"},
         Moves(h), Spares(h), Destroyer(h)', Deferred(h)'
  PROVE  IInv'
<1>1. StructInv /\ ListedInv /\ Types
  BY DEF IInv, StructInv
<1>2. SameLists
  BY QuietLists
<1>3. Types'
  BY <1>1 DEF Types, Quiet
<1>4. LockInv'
  BY <1>1, <1>2, LockStays
<1>5. StructInv'
  BY <1>1, <1>2, <1>3, <1>4, StatusStep
<1>6. Careful(h)
  BY QuietCareful, NoCall
<1> QED
  BY <1>1, <1>5, <1>6, ListedStep DEF IInv

LEMMA PendingStatusStep ==
  ASSUME IInv, NEW h \in Threads, PendingStatus(h)
  PROVE  IInv'
<1> DEFINE c == cpu[h]
           u == cpu[h].t
           p == IF task[cpu[h].t].home # h THEN "move" ELSE "complete"
           r == [c EXCEPT !.pc = p, !.home = task[cpu[h].t].home,
                          !.go = Runnable(task[cpu[h].t])]
<1>1. StructInv /\ Types
  BY DEF IInv, StructInv
<1>2. c.pc = "status" /\ Locals(h, r) /\ Quiet /\ lock' = lock
  BY DEF PendingStatus, At, Quiet
<1>3. /\ u \in Tasks /\ task[u].initialized /\ Control(c) /\ c \in ThreadRecord
      /\ task[u].home \in Homes /\ Runnable(task[u]) \in BOOLEAN
  BY Zenon, <1>1, <1>2, InUse DEF Types, TaskRecord, StructInv, ControlInv, Runnable
<1>4. p \in Steps /\ p \in {"move", "complete"}
  BY DEF Steps
<1> HIDE DEF p
<1>5. /\ r \in ThreadRecord
      /\ r.pc = p /\ r.t = u /\ r.back = c.back /\ r.fires = c.fires
      /\ r.my_pending = c.my_pending /\ r.go = Runnable(task[u])
  BY Zenon, <1>3, <1>4 DEF ThreadRecord
<1> HIDE DEF r
<1>6. NowAt(h, p, u, c.back) /\ cpu'[h] = r
  BY <1>1, <1>2, <1>5, LocalsEffect
<1>7. OthersSame(h) /\ cpu' \in [Threads -> ThreadRecord]
  BY <1>6 DEF NowAt
<1>8. p \notin CallSteps \cup CleanupSteps /\ c.pc \notin CallSteps \cup CleanupSteps
  BY <1>2, <1>4, StepNames
<1>9. /\ Processes(cpu'[h]) /\ Processes(c) /\ ~Visits(cpu'[h])
      /\ ~Fires(cpu'[h]) /\ c.fires = NoTask
  <2>1. p \notin AddSteps
    BY <1>8, StepNames
  <2> QED
    BY Zenon, <1>1, <1>2, <1>4, <1>5, <1>6, <1>8, <2>1, BetweenCalls DEF Processes,
       Visits, Fires
<1>10. Control(cpu'[h])
  BY Zenon, <1>3, <1>4, <1>5, <1>6, <1>8, <1>9, StepNames DEF Control
<1>11. Moves(h)
  BY Zenon, <1>2, <1>3, <1>5, <1>6, <1>9, <1>10 DEF Moves
<1>12. Spares(h) /\ Destroyer(h)'
  BY <1>1, <1>2, <1>5, <1>6, <1>8, QuietLists, OutsideSpares
<1>13. Deferred(h)'
  BY Zenon, <1>2, <1>4, <1>5, <1>6 DEF Deferred, Quiet, Wants
<1>14. cpu'[h].pc \notin {"leave", "append"}
  BY <1>4, <1>5, <1>6
<1> QED
  BY <1>2, <1>7, <1>8, <1>11, <1>12, <1>13, <1>14, QuietStep

\* The head of the claimed list is on no list any more.
LEMMA HeadClaimed ==
  ASSUME NEW T, NEW s \in Seq(Tasks), s # <<>>, NEW k, Owned(T, s, k)
  PROVE  /\ Head(s) \in Tasks /\ Tail(s) \in Seq(Tasks)
         /\ T[Head(s)].thread = k /\ T[Head(s)].pending_nextptr = Listed
         /\ Owned(T, Tail(s), k) /\ Lacks(Tail(s), Head(s))
         /\ \A i \in 1..Len(Tail(s)) : \E j \in 1..Len(s) : Tail(s)[i] = s[j]
         /\ Head(s) = s[1] /\ 1 \in 1..Len(s)
<1> DEFINE a == Tail(s)
<1>1. /\ a \in Seq(Tasks) /\ Len(s) \in Nat /\ Len(a) = Len(s) - 1 /\ Len(s) > 0
      /\ \A i \in 1..Len(a) : a[i] = s[i + 1]
      /\ Head(s) = s[1]
  BY TailFacts, ElementFacts
<1> HIDE DEF a
<1>2. 1 \in 1..Len(s) /\ \A i \in 1..Len(a) : i + 1 \in 1..Len(s) /\ i + 1 # 1
  BY <1>1
<1>3. Head(s) \in Tasks
  BY <1>1, <1>2, ElementFacts
<1>4. Lacks(a, Head(s))
  BY <1>1, <1>2 DEF Lacks, Owned
<1>5. \A i \in 1..Len(a) : T[a[i]].thread = k /\ T[a[i]].pending_nextptr = Listed
  BY <1>1, <1>2 DEF Owned
<1>6. ASSUME NEW i \in 1..Len(a), NEW j \in 1..Len(a), a[i] = a[j] PROVE i = j
  <2>1. s[i + 1] = s[j + 1]
    BY <1>1, <1>6
  <2>2. i + 1 = j + 1
    BY <1>2, <2>1 DEF Owned
  <2> QED
    BY <2>2
<1>7. \A i \in 1..Len(a) : \E j \in 1..Len(s) : a[i] = s[j]
  BY <1>1, <1>2
<1> QED
  BY <1>1, <1>2, <1>3, <1>4, <1>5, <1>6, <1>7 DEF Owned, a

\* A thread outside of the calls changes the marks and the lists of one task.
LEMMA OutsideMarks ==
  ASSUME StructInv, NEW h \in Threads, NEW u \in Tasks, task[u].initialized,
         OthersSame(h), Only(u), OthersLists(h),
         scheduled'[h] \subseteq scheduled[h] \cup {u},
         cpu'[h].pc \notin CallSteps \cup CleanupSteps, ~Visits(cpu'[h]),
         cpu'[h].fires = NoTask, cpu'[h].pc \notin Idle => cpu'[h].t = u,
         Control(cpu'[h]), Types', OwnerInv', PendingInv', ProcessInv', LockInv'
  PROVE  StructInv'
<1>1. SameHomes /\ \A t \in Tasks : task'[t].initialized = task[t].initialized
  BY OnlyKeeps
<1>2. ControlInv'
  BY ControlStays
<1>3. RunInv'
  BY RunStays
<1>4. Spares(h) /\ Destroyer(h)'
  BY <1>1, OutsideSpares
<1>5. DestroyInv'
  BY <1>1, <1>4, DestroyStays
<1>6. GoneInv'
  BY GoneStays
<1> QED
  BY <1>2, <1>3, <1>5, <1>6 DEF StructInv

LEMMA PendingTaskStep ==
  ASSUME IInv, NEW h \in Threads, PendingTask(h)
  PROVE  IInv'
<1> DEFINE c == cpu[h]
           s == cpu[h].my_pending
<1>1. StructInv /\ ListedInv /\ Types
  BY DEF IInv, StructInv
<1>2. /\ c.pc = "pending" /\ scheduled' = scheduled /\ pending' = pending /\ lock' = lock
  BY DEF PendingTask, At
<1>3. /\ Control(c) /\ c \in ThreadRecord /\ s \in Seq(Tasks) /\ c.fires = NoTask
      /\ "pending" \notin CallSteps \cup CleanupSteps \cup AddSteps
  BY Zenon, <1>1, <1>2, BetweenCalls, StepNames DEF Types, ThreadRecord, StructInv,
     ControlInv
<1>4. {"loop", "status"} \subseteq Steps
      /\ {"loop", "status"} \cap (CallSteps \cup CleanupSteps \cup AddSteps) = {}
  BY StepNames DEF Steps
<1>5. CASE s = <<>>
  <2>1. Goto(h, "loop") /\ Quiet
    BY <1>2, <1>5 DEF PendingTask, Quiet
  <2>2. NowAt(h, "loop", c.t, c.back) /\ SameRun(h)
    BY <1>1, <1>4, <2>1, GotoEffect
  <2>3. OthersSame(h) /\ cpu' \in [Threads -> ThreadRecord] /\ cpu'[h].pc = "loop"
        /\ cpu'[h].fires = NoTask /\ cpu'[h].my_pending = s
    BY <1>3, <2>2 DEF NowAt, SameRun
  <2>4. ~Processes(cpu'[h]) /\ ~Visits(cpu'[h]) /\ ~Fires(cpu'[h])
    BY <1>4, <2>3 DEF Processes, Visits, Fires
  <2>5. Control(cpu'[h])
    BY <1>4, <1>5, <2>3, <2>4 DEF Control
  <2>6. Moves(h)
    BY Zenon, <2>3, <2>4, <2>5 DEF Moves
  <2>7. Spares(h) /\ Destroyer(h)'
    BY <1>1, <1>4, <2>1, <2>3, QuietLists, OutsideSpares
  <2>8. Deferred(h)'
    BY <2>3, NothingDeferred
  <2> QED
    BY <1>2, <1>3, <2>1, <2>3, <2>6, <2>7, <2>8, QuietStep
<1>6. CASE s # <<>>
  <2> DEFINE u == Head(s)
             r == [c EXCEPT !.pc = "status", !.t = Head(s), !.my_pending = Tail(s)]
  <2>1. Locals(h, r) /\ SetNextptr(u, Processing)
    BY <1>6 DEF PendingTask
  <2>2. Owned(task, s, h)
    BY <1>1 DEF StructInv, PendingInv
  <2>3. /\ u \in Tasks /\ Tail(s) \in Seq(Tasks)
        /\ task[u].thread = h /\ task[u].pending_nextptr = Listed
        /\ Owned(task, Tail(s), h) /\ Lacks(Tail(s), u)
        /\ \A i \in 1..Len(Tail(s)) : \E j \in 1..Len(s) : Tail(s)[i] = s[j]
        /\ u = s[1] /\ 1 \in 1..Len(s)
    BY ZenonT(30), <1>3, <1>6, <2>2, HeadClaimed
  <2> HIDE DEF u
  <2>4. task[u].initialized
    BY <1>1, <2>3 DEF StructInv, GoneInv, Off, Listed
  <2>5. /\ r \in ThreadRecord
        /\ r.pc = "status" /\ r.t = u /\ r.back = c.back /\ r.fires = c.fires
        /\ r.my_pending = Tail(s)
    BY Zenon, <1>3, <1>4, <2>3 DEF ThreadRecord, u
  <2> HIDE DEF r
  <2>6. NowAt(h, "status", u, c.back) /\ cpu'[h] = r /\ OthersSame(h)
        /\ cpu' \in [Threads -> ThreadRecord]
    BY <1>1, <2>1, <2>5, LocalsEffect DEF NowAt
  <2>7. /\ task' \in [Tasks -> TaskRecord] /\ Only(u)
        /\ task'[u].pending_nextptr = Processing /\ task'[u].thread = h
    BY Zenon, <1>1, <2>1, <2>3, NextptrWrite DEF Types
  <2>8. Types'
    BY <1>1, <1>2, <2>6, <2>7 DEF Types
  <2>9. OwnerInv'
    <3>1. \A t \in Tasks : task'[t].thread = task[t].thread
      BY Zenon, <2>3, <2>7 DEF Only
    <3>2. \A t \in Tasks : task'[t].pending_nextptr = Listed => task[t].pending_nextptr = Listed
      BY <2>7 DEF Only, Processing, Listed
    <3> QED
      BY <1>1, <1>2, <3>1, <3>2 DEF StructInv, OwnerInv
  <2>10. PendingInv'
    <3> SUFFICES ASSUME NEW g \in Threads
                 PROVE  /\ Owned(task', pending[g], g)
                        /\ Owned(task', cpu'[g].my_pending, g)
                        /\ \A i \in 1..Len(pending[g]), j \in 1..Len(cpu'[g].my_pending) :
                             pending[g][i] # cpu'[g].my_pending[j]
      BY <1>2 DEF PendingInv
    <3> DEFINE q == pending[g]
               m == cpu'[g].my_pending
    <3>1. q \in Seq(Tasks) /\ Owned(task, q, g) /\ m \in Seq(Tasks)
      BY Zenon, <1>1, <2>6 DEF Types, StructInv, PendingInv, ThreadRecord
    <3>2. /\ Owned(task, m, g) /\ Lacks(m, u)
          /\ \A i \in 1..Len(q), j \in 1..Len(m) : q[i] # m[j]
      <4>1. CASE g = h
        <5>1. m = Tail(s)
          BY <2>5, <2>6, <4>1
        <5>2. \A i \in 1..Len(q), j \in 1..Len(s) : q[i] # s[j]
          BY <1>1, <4>1 DEF StructInv, PendingInv
        <5> HIDE DEF q, m
        <5> QED
          BY <2>3, <4>1, <5>1, <5>2
      <4>2. CASE g # h
        <5>1. m = cpu[g].my_pending
          BY <2>6, <4>2 DEF OthersSame
        <5>2. Owned(task, m, g) /\ \A i \in 1..Len(q), j \in 1..Len(m) : q[i] # m[j]
          BY <1>1, <5>1 DEF StructInv, PendingInv
        <5> QED
          BY ZenonT(30), <2>3, <4>2, <5>2 DEF Owned, Lacks
      <4> QED
        BY Zenon, <4>1, <4>2
    <3>3. Lacks(q, u)
      <4>1. CASE g = h
        BY <1>1, <2>3, <4>1 DEF StructInv, PendingInv, Lacks
      <4>2. CASE g # h
        BY ZenonT(30), <2>3, <3>1, <4>2 DEF Owned, Lacks
      <4> QED
        BY <4>1, <4>2
    <3> HIDE DEF q, m
    <3>4. /\ \A i \in 1..Len(q) : q[i] \in Tasks \ {u}
          /\ \A i \in 1..Len(m) : m[i] \in Tasks \ {u}
      BY <3>1, <3>2, <3>3, ElementFacts DEF Lacks
    <3>5. SameMarks(task, task', q) /\ SameMarks(task, task', m)
      BY Zenon, <2>7, <3>4 DEF SameMarks, Only
    <3>6. Owned(task', q, g) /\ Owned(task', m, g)
      BY <3>1, <3>2, <3>5, OwnedStays
    <3> QED
      BY <3>2, <3>6 DEF q, m
  <2>11. NotProcessed(h, u) /\ \A g \in Threads : ~(Processes(cpu[g]) /\ cpu[g].t = u)
    BY <1>1, <2>3 DEF StructInv, ProcessInv, NotProcessed, Processing, Listed
  <2>12. ProcessInv'
    <3>1. \A g \in Threads : Processes(cpu[g]) => cpu[g].t \in Tasks
      BY <1>1 DEF StructInv, ControlInv, Control, Processes, AddSteps
    <3>2. \A g \in Threads \ {h} : Processes(cpu[g]) =>
            /\ cpu'[g] = cpu[g] /\ task'[cpu[g].t] = task[cpu[g].t] /\ cpu[g].t # u
      BY <2>6, <2>7, <2>11, <3>1 DEF OthersSame, Only
    <3>3. \A g \in Threads : cpu[g].pc \in {"status", "move"} => Processes(cpu[g])
      BY DEF Processes
    <3>4. cpu'[h].t = u /\ \A g \in Threads \ {h} : cpu'[g] = cpu[g]
      BY <2>5, <2>6 DEF OthersSame
    <3> QED
      BY <1>1, <2>7, <3>2, <3>3, <3>4 DEF StructInv, ProcessInv
  <2>13. SameThreads
    BY Zenon, <2>3, <2>7 DEF SameThreads, Only
  <2>14. LockInv'
    BY SMTT(30), <1>1, <1>2, <2>5, <2>6, <2>13, LockKept
  <2>15. OthersLists(h)
    BY <1>2 DEF OthersLists
  <2>16. Processes(cpu'[h]) /\ ~Visits(cpu'[h]) /\ ~Fires(cpu'[h])
    BY <1>4, <2>5, <2>6 DEF Processes, Visits, Fires
  <2>17. Control(cpu'[h])
    BY ZenonT(30), <1>3, <1>4, <2>3, <2>5, <2>6, <2>16 DEF Control
  <2>18. StructInv'
    <3>1. cpu'[h].pc \notin CallSteps \cup CleanupSteps /\ cpu'[h].t = u
      BY <1>4, <2>5, <2>6
    <3>2. cpu'[h].fires = NoTask /\ scheduled'[h] \subseteq scheduled[h] \cup {u}
      BY <1>2, <1>3, <2>5, <2>6
    <3> QED
      BY Zenon, <1>1, <2>3, <2>4, <2>6, <2>7, <2>8, <2>9, <2>10, <2>12, <2>14, <2>15,
         <2>16, <2>17, <3>1, <3>2, OutsideMarks
  <2>19. CarefulBut(h, {u})
    <3>1. \A t \in Tasks : ~Schedules(c, t)
      BY Zenon, <1>2, NoCall, StepNames
    <3> QED
      BY Zenon, <1>2, <2>7, <3>1 DEF CarefulBut, Only
  <2>20. Settled(task', scheduled', cpu', u)
    BY <2>7 DEF Settled, Processing, Off
  <2>21. \A g \in Threads \ {h} : cpu[g].t \in {u} => Deferred(g)'
    BY ZenonT(30), <1>1, <2>3, <2>6, <2>11, OwnDeferred
  <2>22. Deferred(h)'
    BY <2>5, <2>6, NothingDeferred
  <2> QED
    BY Zenon, <1>1, <2>6, <2>18, <2>19, <2>20, <2>21, <2>22, ListedStepBut DEF IInv
<1> QED
  BY <1>5, <1>6

LEMMA PendingMoveStep ==
  ASSUME IInv, NEW h \in Threads, PendingMove(h)
  PROVE  IInv'
<1> DEFINE c == cpu[h]
           u == cpu[h].t
<1>1. StructInv /\ ListedInv /\ Types
  BY DEF IInv, StructInv
<1>2. /\ c.pc = "move" /\ lock[h] = Free
      /\ scheduled' = [scheduled EXCEPT ![h] = @ \ {u}]
      /\ SetThread(u, c.home) /\ Goto(h, "complete")
      /\ pending' = pending /\ lock' = lock
  BY DEF PendingMove, At
<1>3. /\ u \in Tasks /\ task[u].initialized /\ Control(c) /\ c.home \in Homes
      /\ c.fires = NoTask
  BY Zenon, <1>1, <1>2, InUse, BetweenCalls DEF Types, ThreadRecord, StructInv,
     ControlInv
<1>4. {"complete", "move"} \subseteq Steps
      /\ {"complete", "move"} \cap (CallSteps \cup CleanupSteps \cup AddSteps) = {}
  BY StepNames DEF Steps
<1>5. NowAt(h, "complete", u, c.back) /\ SameRun(h) /\ SameLocals(h)
  BY Zenon, <1>1, <1>2, <1>4, GotoEffect
<1>6. /\ OthersSame(h) /\ cpu' \in [Threads -> ThreadRecord] /\ cpu'[h].pc = "complete"
      /\ cpu'[h].t = u /\ cpu'[h].fires = NoTask /\ cpu'[h].my_pending = c.my_pending
      /\ cpu'[h].go = c.go
  BY Zenon, <1>3, <1>5 DEF NowAt, SameRun, SameLocals
<1>7. Processes(c) /\ task[u].pending_nextptr = Processing /\ task[u].thread = h
  <2>1. Processes(c)
    BY <1>2 DEF Processes
  <2> QED
    BY Zenon, <1>1, <1>2, <2>1 DEF StructInv, ProcessInv
<1>8. /\ task' \in [Tasks -> TaskRecord] /\ Only(u)
      /\ task'[u].thread = c.home /\ task'[u].pending_nextptr = Processing
  BY Zenon, <1>1, <1>2, <1>3, <1>7, ThreadWrite DEF Types
<1>9. /\ scheduled'[h] = scheduled[h] \ {u} /\ OthersLists(h)
      /\ scheduled' \in [Threads -> SUBSET Tasks]
  BY <1>1, <1>2 DEF Types, OthersLists
<1>10. Types'
  BY Zenon, <1>1, <1>2, <1>6, <1>8, <1>9 DEF Types
<1>11. NotProcessed(h, u)
  BY Zenon, <1>1, <1>7 DEF StructInv, ProcessInv, NotProcessed
<1>12. \A g \in Threads : u \notin scheduled'[g]
  BY ZenonT(30), <1>1, <1>3, <1>7, <1>9 DEF StructInv, OwnerInv, OthersLists
<1>13. OwnerInv'
  <2> SUFFICES ASSUME NEW t \in Tasks
               PROVE  /\ \A g \in Threads : t \in scheduled'[g] => task'[t].thread = g
                      /\ task'[t].pending_nextptr = Listed => task'[t].thread # Quiescent
    BY DEF OwnerInv
  <2>1. CASE t = u
    BY <1>8, <1>12, <2>1 DEF Processing, Listed
  <2>2. CASE t # u
    <3>1. task'[t] = task[t] /\ \A g \in Threads : t \in scheduled'[g] => t \in scheduled[g]
      BY Zenon, <1>8, <1>9, <2>2 DEF Only, OthersLists
    <3> QED
      BY <1>1, <3>1 DEF StructInv, OwnerInv
  <2> QED
    BY <2>1, <2>2
<1>14. PendingInv'
  <2>1. task[u].pending_nextptr # Listed
    BY <1>7 DEF Processing, Listed
  <2> QED
    BY Zenon, <1>1, <1>2, <1>3, <1>5, <1>6, <1>8, <2>1, MyPendingKept, PendingStays
<1>15. ProcessInv'
  BY Zenon, <1>1, <1>3, <1>6, <1>7, <1>8, <1>11, ProcessStays
<1>16. LockInv'
  <2> SUFFICES ASSUME NEW g \in Threads, cpu'[g].pc \in {"leave", "append"}
               PROVE  /\ lock[cpu'[g].thread] = g
                      /\ task'[cpu'[g].t].thread = cpu'[g].thread
    BY Zenon, <1>2 DEF LockInv
  <2>1. g # h /\ cpu'[g] = cpu[g]
    BY <1>6 DEF OthersSame
  <2>2. cpu[g].t \in Tasks
    BY <1>1, <2>1, InUse
  <2>3. lock[cpu[g].thread] = g /\ task[cpu[g].t].thread = cpu[g].thread
    BY Zenon, <1>1, <2>1 DEF StructInv, LockInv
  <2>4. cpu[g].t # u
    BY <1>2, <1>7, <2>3, ThreadsAssumption DEF Free
  <2> QED
    BY Zenon, <1>8, <2>1, <2>2, <2>3, <2>4 DEF Only
<1>17. Processes(cpu'[h]) /\ ~Visits(cpu'[h]) /\ ~Fires(cpu'[h])
  BY <1>4, <1>6 DEF Processes, Visits, Fires
<1>18. Control(cpu'[h])
  BY Zenon, <1>3, <1>4, <1>6, <1>17 DEF Control
<1>19. StructInv'
  BY ZenonT(30), <1>1, <1>3, <1>4, <1>6, <1>8, <1>9, <1>10, <1>13, <1>14, <1>15,
     <1>16, <1>17, <1>18,
     OutsideMarks
<1>20. \A t \in Tasks : ~Schedules(c, t)
  BY <1>2, NoCall, StepNames
<1>21. CarefulBut(h, {u})
  <2>1. \A t \in Tasks \ {u} : On(scheduled, t) => On(scheduled', t)
    BY <1>9 DEF On, OthersLists
  <2> QED
    BY Zenon, <1>8, <1>20, <2>1 DEF CarefulBut, Only
<1>22. Settled(task', scheduled', cpu', u)
  BY <1>8 DEF Settled, Processing, Off
<1>23. \A g \in Threads \ {h} : cpu[g].t \in {u} => Deferred(g)'
  BY Zenon, <1>1, <1>3, <1>6, <1>7, <1>11, OwnDeferred
<1>24. Deferred(h)'
  <2>1. ASSUME ~c.go, Wants(task'[u]) PROVE Busy(cpu', u)
    <3>1. Wants(task[u])
      BY Zenon, <1>3, <1>8, <2>1, OnlyKeeps
    <3>2. Busy(cpu, u)
      BY Zenon, <1>1, <1>2, <2>1, <3>1 DEF ListedInv, Deferred
    <3> QED
      BY Zenon, <1>2, <1>4, <1>6, <3>2, StillBusy
  <2> QED
    BY Zenon, <1>6, <2>1 DEF Deferred
<1> QED
  BY Zenon, <1>1, <1>6, <1>19, <1>21, <1>22, <1>23, <1>24, ListedStepBut DEF IInv

\* process_pending and run_tasks call add_pending.
LEMMA AddBegins ==
  ASSUME StructInv, NEW h \in Threads, NEW b,
         \/ cpu[h].pc = "complete" /\ b = "pending"
         \/ cpu[h].pc = "rehome" /\ b = "unlist",
         NowAt(h, "add", cpu[h].t, b), SameRun(h), SameHomes,
         cpu'[h].always <=> b = "pending"
  PROVE  Moves(h) /\ Spares(h) /\ Destroyer(h)' /\ Deferred(h)'
<1> DEFINE c == cpu[h]
           d == cpu'[h]
<1>1. Control(c) /\ c.t \in Tasks /\ task[c.t].initialized /\ c.fires = NoTask
  BY Zenon, InUse, BetweenCalls DEF StructInv, ControlInv
<1>2. /\ d.pc = "add" /\ d.t = c.t /\ d.back = b
      /\ d.fires = NoTask /\ d.my_pending = c.my_pending
  BY Zenon, <1>1 DEF NowAt, SameRun
<1>3. "add" \in AddSteps /\ "add" \in CallSteps /\ "add" \notin CleanupSteps
      /\ c.pc \notin AddSteps
  BY DEF AddSteps, CallSteps, CleanupSteps
<1>4. /\ (Processes(d) <=> b = "pending") /\ (Processes(c) <=> b = "pending")
      /\ (Visits(d) <=> b = "unlist") /\ (Visits(c) <=> b = "unlist")
      /\ ~Fires(d)
  BY <1>2, <1>3 DEF Processes, Visits, Fires
<1>5. Control(d)
  BY Zenon, <1>1, <1>2, <1>3, <1>4 DEF Control
<1>6. Visits(d) => c.t \in scheduled[h]
  BY Zenon, <1>4 DEF StructInv, RunInv
<1>7. Moves(h)
  BY Zenon, <1>1, <1>2, <1>4, <1>5, <1>6 DEF Moves
<1>8. Spares(h)
  <2> SUFFICES ASSUME NEW g \in Threads \ {h}, cpu[g].pc \in CleanupSteps
               PROVE  task'[cpu[g].t].home = Quiescent
    BY <1>2, <1>3 DEF Spares
  <2>1. Destroyer(g) /\ cpu[g].t \in Tasks
    BY InUse, StepNames DEF StructInv, DestroyInv
  <2> QED
    BY Zenon, <2>1 DEF Destroyer, SameHomes
<1>9. Destroyer(h)'
  BY Zenon, <1>2, <1>3 DEF Destroyer
<1>10. Deferred(h)'
  BY <1>2, NothingDeferred
<1> QED
  BY Zenon, <1>7, <1>8, <1>9, <1>10

LEMMA PendingCompleteStep ==
  ASSUME IInv, NEW h \in Threads, PendingComplete(h)
  PROVE  IInv'
<1> DEFINE c == cpu[h]
           u == cpu[h].t
           here == task[cpu[h].t].thread = h
<1>1. StructInv /\ ListedInv /\ Types
  BY DEF IInv, StructInv
<1>2. c.pc = "complete" /\ pending' = pending /\ lock' = lock
  BY DEF PendingComplete, At
<1>3. /\ u \in Tasks /\ task[u].initialized /\ Control(c) /\ c.fires = NoTask
  BY <1>1, <1>2, InUse, BetweenCalls DEF StructInv, ControlInv
<1>4. {"complete", "pending"} \subseteq Steps
      /\ {"complete", "pending"} \cap (CallSteps \cup CleanupSteps \cup AddSteps) = {}
  BY StepNames DEF Steps
<1>5. CASE c.go /\ ~here
  <2>1. CallAddPending(h, u, TRUE, "pending") /\ Quiet
    BY Zenon, <1>2, <1>5 DEF PendingComplete, Quiet
  <2>2. NowAt(h, "add", u, "pending") /\ SameRun(h) /\ cpu'[h].always = TRUE
    BY Zenon, <1>1, <1>3, <1>4, <2>1, AddPendingEffect
  <2>3. OthersSame(h) /\ cpu' \in [Threads -> ThreadRecord] /\ cpu'[h].pc = "add"
    BY <2>2 DEF NowAt
  <2>4. Moves(h) /\ Spares(h) /\ Destroyer(h)' /\ Deferred(h)'
    BY Zenon, <1>1, <1>2, <2>1, <2>2, QuietLists, AddBegins
  <2> QED
    BY <1>2, <1>4, <2>1, <2>3, <2>4, QuietStep
<1>6. CASE ~c.go \/ here
  <2>1. /\ scheduled' = IF c.go THEN [scheduled EXCEPT ![h] = @ \cup {u}] ELSE scheduled
        /\ SetNextptr(u, Off) /\ Goto(h, "pending")
    BY Zenon, <1>6 DEF PendingComplete
  <2>2. NowAt(h, "pending", u, c.back) /\ SameRun(h)
    BY <1>1, <1>4, <2>1, GotoEffect
  <2>3. /\ OthersSame(h) /\ cpu' \in [Threads -> ThreadRecord] /\ cpu'[h].pc = "pending"
        /\ cpu'[h].fires = NoTask
    BY <1>3, <2>2 DEF NowAt, SameRun
  <2>4. Processes(c) /\ task[u].pending_nextptr = Processing
    <3>1. Processes(c)
      BY <1>2 DEF Processes
    <3> QED
      BY <1>1, <3>1 DEF StructInv, ProcessInv
  <2>5. /\ task' \in [Tasks -> TaskRecord] /\ Only(u)
        /\ task'[u].thread = task[u].thread /\ task'[u].pending_nextptr = Off
    BY <1>1, <1>3, <2>1, NextptrWrite DEF Types
  <2>6. /\ OthersLists(h) /\ scheduled' \in [Threads -> SUBSET Tasks]
        /\ scheduled'[h] \subseteq scheduled[h] \cup {u}
        /\ scheduled[h] \subseteq scheduled'[h]
        /\ c.go => u \in scheduled'[h]
        /\ ~c.go => scheduled' = scheduled
    <3>1. CASE c.go
      BY <1>1, <1>3, <2>1, <3>1 DEF Types, OthersLists
    <3>2. CASE ~c.go
      BY <1>1, <2>1, <3>2 DEF Types, OthersLists
    <3> QED
      BY <3>1, <3>2
  <2>7. Types'
    BY Zenon, <1>1, <1>2, <2>3, <2>5, <2>6 DEF Types
  <2>8. NotProcessed(h, u)
    BY ZenonT(30), <1>1, <2>4 DEF StructInv, ProcessInv, NotProcessed
  <2>9. OwnerInv'
    <3> SUFFICES ASSUME NEW t \in Tasks
                 PROVE  /\ \A g \in Threads : t \in scheduled'[g] => task'[t].thread = g
                        /\ task'[t].pending_nextptr = Listed => task'[t].thread # Quiescent
      BY DEF OwnerInv
    <3>1. \A g \in Threads : t \in scheduled[g] => task[t].thread = g
      BY <1>1 DEF StructInv, OwnerInv
    <3>2. CASE t = u
      BY <1>6, <2>5, <2>6, <3>1, <3>2 DEF Off, Listed, OthersLists
    <3>3. CASE t # u
      <4>1. task'[t] = task[t] /\ \A g \in Threads : t \in scheduled'[g] => t \in scheduled[g]
        BY Zenon, <2>5, <2>6, <3>3 DEF Only, OthersLists
      <4> QED
        BY <1>1, <4>1 DEF StructInv, OwnerInv
    <3> QED
      BY <3>2, <3>3
  <2>10. PendingInv'
    <3>1. task[u].pending_nextptr # Listed
      BY <2>4 DEF Processing, Listed
    <3> QED
      BY ZenonT(30), <1>1, <1>2, <1>3, <2>2, <2>3, <2>5, <3>1, MyPendingKept,
         PendingStays
  <2>11. ~Processes(cpu'[h]) /\ ~Visits(cpu'[h]) /\ ~Fires(cpu'[h])
    BY <1>4, <2>3 DEF Processes, Visits, Fires
  <2>12. ProcessInv'
    BY Zenon, <1>1, <1>3, <2>3, <2>5, <2>8, <2>11, ProcessStays
  <2>13. SameThreads
    BY Zenon, <2>5 DEF SameThreads, Only
  <2>14. LockInv'
    BY <1>1, <1>2, <2>3, <2>13, LockKept
  <2>15. Control(cpu'[h])
    BY Zenon, <1>4, <2>3, <2>11 DEF Control
  <2>16. StructInv'
    BY ZenonT(30), <1>1, <1>3, <1>4, <2>3, <2>5, <2>6, <2>7, <2>9, <2>10, <2>11,
       <2>12, <2>14, <2>15,
       OutsideMarks
  <2>17. \A t \in Tasks : ~Schedules(c, t)
    BY <1>2, NoCall, StepNames
  <2>18. \A t : On(scheduled, t) => On(scheduled', t)
    BY <2>6 DEF On, OthersLists
  <2>19. CarefulBut(h, {u})
    BY Zenon, <2>5, <2>17, <2>18 DEF CarefulBut, Only
  <2>20. c.pc \notin CallSteps /\ (Wants(task'[u]) <=> Wants(task[u])) /\ task'[u].home = task[u].home
    BY Zenon, <1>2, <1>3, <1>4, <2>5, OnlyKeeps DEF Only
  <2>21. Settled(task', scheduled', cpu', u)
    <3> SUFFICES ASSUME Wants(task'[u]) PROVE On(scheduled', u) \/ Busy(cpu', u)
      BY Zenon DEF Settled
    <3>1. CASE c.go
      BY Zenon, <2>6, <3>1 DEF On
    <3>2. CASE ~c.go
      <4>1. On(scheduled, u) \/ Busy(cpu, u)
        BY Zenon, <1>1, <1>2, <2>20, <3>2 DEF ListedInv, Deferred
      <4> QED
        BY Zenon, <2>3, <2>18, <2>20, <4>1, StillBusy
    <3> QED
      BY Zenon, <3>1, <3>2
  <2>22. ASSUME NEW g \in Threads \ {h}, cpu[g].t \in {u} PROVE Deferred(g)'
    <3>1. cpu'[g] = cpu[g] /\ cpu[g].t = u /\ Deferred(g)
      BY <1>1, <2>3, <2>22 DEF OthersSame, ListedInv
    <3>2. cpu[g].pc \notin {"move", "complete"}
      BY <2>8, <3>1 DEF NotProcessed, Processes
    <3>3. task[u].pending_nextptr # Listed
      BY <2>4 DEF Processing, Listed
    <3>4. Busy(cpu, u) => Busy(cpu', u)
      BY Zenon, <2>3, <2>20, StillBusy
    <3>5. \A k \in Threads : Schedules(cpu[k], u) => Schedules(cpu'[k], u)
      BY Zenon, <2>3, <2>20, StillBusy
    <3> QED
      BY ZenonT(30), <2>20, <3>1, <3>2, <3>3, <3>4, <3>5 DEF Deferred
  <2>23. Deferred(h)'
    BY <2>3, NothingDeferred
  <2> QED
    BY ZenonT(30), <1>1, <2>3, <2>16, <2>19, <2>21, <2>22, <2>23, ListedStepBut
       DEF IInv
<1> QED
  BY <1>5, <1>6

-----------------------------------------------------------------------------
(***************************************************************************)
(* RouterThread::run_tasks.                                                *)
(***************************************************************************)

LEMMA RunTaskStep ==
  ASSUME IInv, NEW h \in Threads, NEW t \in Tasks, RunTask(h, t)
  PROVE  IInv'
<1> DEFINE c == cpu[h]
           p == IF task[t].home = h /\ Runnable(task[t]) THEN "fire" ELSE "rehome"
           r == [c EXCEPT !.t = t, !.pc = p]
<1>1. StructInv /\ Types
  BY DEF IInv, StructInv
<1>2. c.pc = "loop" /\ t \in scheduled[h] /\ Locals(h, r) /\ Quiet /\ lock' = lock
  BY DEF RunTask, At, Quiet
<1>3. Control(c) /\ c \in ThreadRecord /\ c.fires = NoTask /\ c.my_pending = <<>>
      /\ task[t].initialized
  BY <1>1, <1>2, BetweenCalls DEF Types, StructInv, ControlInv, GoneInv
<1>4. /\ p \in {"fire", "rehome"} /\ p \in Steps
      /\ p = "rehome" => ~(task[t].home = h /\ Runnable(task[t]))
  BY DEF Steps
<1>5. p \notin CallSteps \cup CleanupSteps \cup AddSteps
      /\ c.pc \notin CallSteps \cup CleanupSteps
  BY <1>2, <1>4, StepNames
<1> HIDE DEF p
<1>6. /\ r \in ThreadRecord
      /\ r.pc = p /\ r.t = t /\ r.back = c.back /\ r.fires = NoTask /\ r.my_pending = <<>>
  BY Zenon, <1>3, <1>4 DEF ThreadRecord
<1> HIDE DEF r
<1>7. NowAt(h, p, t, c.back) /\ cpu'[h] = r /\ OthersSame(h)
      /\ cpu' \in [Threads -> ThreadRecord]
  BY <1>1, <1>2, <1>6, LocalsEffect DEF NowAt
<1>8. ~Processes(cpu'[h]) /\ ~Fires(cpu'[h])
  BY Zenon, <1>4, <1>5, <1>6, <1>7 DEF Processes, Fires
<1>9. Control(cpu'[h])
  BY Zenon, <1>4, <1>5, <1>6, <1>7, <1>8 DEF Control
<1>10. Moves(h)
  BY ZenonT(30), <1>2, <1>3, <1>4, <1>6, <1>7, <1>8, <1>9 DEF Moves
<1>11. Spares(h) /\ Destroyer(h)'
  BY Zenon, <1>1, <1>2, <1>5, <1>6, <1>7, QuietLists, OutsideSpares
<1>12. Deferred(h)'
  BY Zenon, <1>2, <1>4, <1>6, <1>7 DEF Deferred, Quiet, Wants
<1>13. cpu'[h].pc \notin {"leave", "append"}
  BY Zenon, <1>4, <1>6, <1>7
<1> QED
  BY Zenon, <1>2, <1>5, <1>7, <1>10, <1>11, <1>12, <1>13, QuietStep

LEMMA RunRehomeStep ==
  ASSUME IInv, NEW h \in Threads, RunRehome(h)
  PROVE  IInv'
<1> DEFINE c == cpu[h]
           u == cpu[h].t
<1>1. StructInv /\ ListedInv /\ Types
  BY DEF IInv, StructInv
<1>2. c.pc = "rehome" /\ Quiet /\ lock' = lock
  BY Zenon DEF RunRehome, At, Quiet
<1>3. u \in Tasks /\ task[u].initialized /\ Control(c) /\ c.fires = NoTask
  BY Zenon, <1>1, <1>2, InUse, BetweenCalls DEF StructInv, ControlInv
<1>4. {"rehome", "unlist"} \subseteq Steps
      /\ {"rehome", "unlist"} \cap (CallSteps \cup CleanupSteps \cup AddSteps) = {}
  BY StepNames DEF Steps
<1>5. CASE task[u].home # h
  <2>1. CallAddPending(h, u, FALSE, "unlist")
    BY Zenon, <1>5 DEF RunRehome
  <2>2. NowAt(h, "add", u, "unlist") /\ SameRun(h) /\ cpu'[h].always = FALSE
    BY ZenonT(30), <1>1, <1>3, <1>4, <2>1, AddPendingEffect
  <2>3. OthersSame(h) /\ cpu' \in [Threads -> ThreadRecord] /\ cpu'[h].pc = "add"
    BY <2>2 DEF NowAt
  <2>4. Moves(h) /\ Spares(h) /\ Destroyer(h)' /\ Deferred(h)'
    BY <1>1, <1>2, <2>2, QuietLists, AddBegins
  <2> QED
    BY Zenon, <1>2, <1>4, <2>3, <2>4, QuietStep
<1>6. CASE task[u].home = h
  <2>1. Goto(h, "unlist")
    BY <1>6 DEF RunRehome
  <2>2. NowAt(h, "unlist", u, c.back) /\ SameRun(h)
    BY <1>1, <1>4, <2>1, GotoEffect
  <2>3. /\ OthersSame(h) /\ cpu' \in [Threads -> ThreadRecord] /\ cpu'[h].pc = "unlist"
        /\ cpu'[h].t = u /\ cpu'[h].fires = NoTask /\ cpu'[h].my_pending = c.my_pending
    BY <1>3, <2>2 DEF NowAt, SameRun
  <2>4. ~Processes(cpu'[h]) /\ ~Fires(cpu'[h]) /\ Visits(cpu'[h]) /\ Visits(c) /\ ~Processes(c)
    BY <1>2, <1>4, <2>3 DEF Processes, Fires, Visits
  <2>5. Control(cpu'[h])
    BY Zenon, <1>2, <1>3, <1>4, <2>3, <2>4 DEF Control
  <2>6. Moves(h)
    BY Zenon, <1>1, <1>3, <2>3, <2>4, <2>5 DEF Moves, StructInv, RunInv
  <2>7. Spares(h) /\ Destroyer(h)'
    BY Zenon, <1>1, <1>2, <1>4, <2>3, QuietLists, OutsideSpares
  <2>8. Deferred(h)'
    <3>1. ASSUME Wants(task[u]) PROVE task[u].pending_nextptr = Listed \/ Busy(cpu', u)
      <4>1. task[u].pending_nextptr = Listed \/ Busy(cpu, u)
        BY Zenon, <1>1, <1>2, <1>6, <3>1 DEF ListedInv, Deferred
      <4> QED
        BY Zenon, <1>2, <1>4, <2>3, <4>1, StillBusy
    <3> QED
      BY Zenon, <1>2, <2>3, <3>1 DEF Deferred, Quiet
  <2> QED
    BY Zenon, <1>2, <1>4, <2>3, <2>6, <2>7, <2>8, QuietStep
<1> QED
  BY <1>5, <1>6

LEMMA RunUnlistStep ==
  ASSUME IInv, NEW h \in Threads, RunUnlist(h)
  PROVE  IInv'
<1> DEFINE c == cpu[h]
           u == cpu[h].t
<1>1. StructInv /\ ListedInv /\ Types
  BY DEF IInv, StructInv
<1>2. /\ c.pc = "unlist" /\ scheduled' = [scheduled EXCEPT ![h] = @ \ {u}]
      /\ Goto(h, "loop") /\ task' = task /\ pending' = pending /\ lock' = lock
  BY DEF RunUnlist, At
<1>3. u \in Tasks /\ task[u].initialized /\ Control(c) /\ c.fires = NoTask
  BY Zenon, <1>1, <1>2, InUse, BetweenCalls DEF StructInv, ControlInv
<1>4. {"loop", "unlist"} \subseteq Steps
      /\ {"loop", "unlist"} \cap (CallSteps \cup CleanupSteps \cup AddSteps) = {}
  BY StepNames DEF Steps
<1>5. NowAt(h, "loop", u, c.back) /\ SameRun(h)
  BY Zenon, <1>1, <1>2, <1>4, GotoEffect
<1>6. /\ OthersSame(h) /\ cpu' \in [Threads -> ThreadRecord] /\ cpu'[h].pc = "loop"
      /\ cpu'[h].fires = NoTask /\ cpu'[h].my_pending = c.my_pending
  BY Zenon, <1>3, <1>5 DEF NowAt, SameRun
<1>7. Visits(c) /\ ~Processes(c)
  BY Zenon, <1>2, <1>4 DEF Visits, Processes
<1>8. u \in scheduled[h] /\ task[u].thread = h
  BY Zenon, <1>1, <1>3, <1>7 DEF StructInv, RunInv, OwnerInv
<1>9. Only(u) /\ SameThreads
  BY Zenon, <1>2 DEF Only, SameThreads
<1>10. /\ scheduled'[h] = scheduled[h] \ {u} /\ OthersLists(h)
       /\ scheduled' \in [Threads -> SUBSET Tasks]
  BY Zenon, <1>1, <1>2 DEF Types, OthersLists
<1>11. Types'
  BY Zenon, <1>1, <1>2, <1>6, <1>10 DEF Types
<1>12. OwnerInv'
  <2>1. \A t \in Tasks, g \in Threads : t \in scheduled'[g] => t \in scheduled[g]
    BY SMTT(30), <1>10 DEF OthersLists
  <2> QED
    BY Zenon, <1>1, <1>2, <2>1 DEF StructInv, OwnerInv
<1>13. PendingInv'
  BY <1>1, <1>2, <1>5, <1>6, MyPendingKept DEF StructInv, PendingInv
<1>14. ~Processes(cpu'[h]) /\ ~Visits(cpu'[h]) /\ ~Fires(cpu'[h])
  BY Zenon, <1>4, <1>6 DEF Processes, Visits, Fires
<1>15. ProcessInv'
  <2>1. \A g \in Threads : Processes(cpu'[g]) => cpu'[g] = cpu[g]
    BY <1>6, <1>14 DEF OthersSame
  <2>2. \A g \in Threads : cpu'[g].pc \in {"status", "move"} => cpu'[g] = cpu[g]
    BY <1>6 DEF OthersSame
  <2> QED
    BY Zenon, <1>1, <1>2, <2>1, <2>2 DEF StructInv, ProcessInv
<1>16. LockInv'
  BY Zenon, <1>1, <1>2, <1>6, <1>9, LockKept
<1>17. Control(cpu'[h])
  BY Zenon, <1>2, <1>3, <1>4, <1>6, <1>7, <1>14 DEF Control
<1>18. StructInv'
  BY ZenonT(30), <1>1, <1>3, <1>4, <1>6, <1>9, <1>10, <1>11, <1>12, <1>13, <1>14,
     <1>15, <1>16, <1>17,
     OutsideMarks
<1>19. \A t \in Tasks : ~Schedules(c, t)
  BY Zenon, <1>2, NoCall, StepNames
<1>20. CarefulBut(h, {u})
  <2>1. \A t \in Tasks \ {u} : On(scheduled, t) => On(scheduled', t)
    BY <1>10 DEF On, OthersLists
  <2> QED
    BY Zenon, <1>2, <1>19, <2>1 DEF CarefulBut
<1>21. Wants(task[u]) => task[u].pending_nextptr = Listed \/ Busy(cpu', u)
  <2>1. Wants(task[u]) => task[u].pending_nextptr = Listed \/ Busy(cpu, u)
    BY Zenon, <1>1, <1>2 DEF ListedInv, Deferred
  <2> QED
    BY Zenon, <1>2, <1>4, <1>6, <2>1, StillBusy
<1>22. Settled(task', scheduled', cpu', u)
  BY <1>2, <1>21 DEF Settled, Off, Listed
<1>23. ASSUME NEW g \in Threads \ {h}, cpu[g].t \in {u} PROVE Deferred(g)'
  <2>1. cpu'[g] = cpu[g] /\ cpu[g].t = u
    BY Zenon, <1>6, <1>23 DEF OthersSame
  <2>2. cpu[g].pc \notin {"rehome", "unlist"}
    BY Zenon, <1>1, <1>3, <1>8, <2>1 DEF StructInv, RunInv, Visits, OwnerInv
  <2>3. cpu[g].pc # "move"
    BY Zenon, <1>1, <1>8, <2>1 DEF StructInv, ProcessInv
  <2>4. ~(cpu[g].pc = "append" /\ cpu[g].thread = Quiescent)
    BY <1>1, <1>8, <2>1, QuiescentNeverRuns DEF StructInv, LockInv
  <2>5. cpu[g].pc = "complete" => task[u].pending_nextptr # Listed
    BY <1>1, <2>1 DEF StructInv, ProcessInv, Processes, Processing, Listed
  <2> QED
    BY Zenon, <1>2, <1>21, <2>1, <2>2, <2>3, <2>4, <2>5 DEF Deferred
<1>24. Deferred(h)'
  BY Zenon, <1>6, NothingDeferred
<1> QED
  BY ZenonT(30), <1>1, <1>6, <1>18, <1>20, <1>22, <1>23, <1>24, ListedStepBut DEF IInv

\* Of all tasks only u changes, and only in its status.
StatusOnly(u) ==
  /\ \A t \in Tasks \ {u} : task'[t] = task[t]
  /\ task'[u].initialized = task[u].initialized
  /\ task'[u].thread = task[u].thread
  /\ task'[u].pending_nextptr = task[u].pending_nextptr

LEMMA ScheduledWrite ==
  ASSUME task \in [Tasks -> TaskRecord], NEW u \in Tasks, NEW b \in BOOLEAN,
         SetScheduled(u, b)
  PROVE  /\ task' \in [Tasks -> TaskRecord] /\ StatusOnly(u)
         /\ task'[u].is_scheduled = b /\ SameHomes
<1> DEFINE r == [task[u] EXCEPT !.is_scheduled = b]
<1>1. task[u] \in TaskRecord /\ task' = [task EXCEPT ![u] = r]
  BY DEF SetScheduled
<1>2. /\ r \in TaskRecord /\ r.pending_nextptr = task[u].pending_nextptr
      /\ r.thread = task[u].thread /\ r.initialized = task[u].initialized
      /\ r.home = task[u].home
  BY <1>1 DEF TaskRecord
<1>3. r.is_scheduled = b
  BY <1>1 DEF TaskRecord
<1> HIDE DEF r
<1> QED
  BY <1>1, <1>2, <1>3 DEF StatusOnly, SameHomes

LEMMA StrongWrite ==
  ASSUME task \in [Tasks -> TaskRecord], NEW u \in Tasks, NEW b \in BOOLEAN,
         SetStrong(u, b)
  PROVE  /\ task' \in [Tasks -> TaskRecord] /\ StatusOnly(u)
         /\ task'[u].is_strong_unscheduled = b /\ SameHomes
<1> DEFINE r == [task[u] EXCEPT !.is_strong_unscheduled = b]
<1>1. task[u] \in TaskRecord /\ task' = [task EXCEPT ![u] = r]
  BY DEF SetStrong
<1>2. /\ r \in TaskRecord /\ r.pending_nextptr = task[u].pending_nextptr
      /\ r.thread = task[u].thread /\ r.initialized = task[u].initialized
      /\ r.home = task[u].home
  BY <1>1 DEF TaskRecord
<1>3. r.is_strong_unscheduled = b
  BY <1>1 DEF TaskRecord
<1> HIDE DEF r
<1> QED
  BY <1>1, <1>2, <1>3 DEF StatusOnly, SameHomes

LEMMA HomeWrite ==
  ASSUME task \in [Tasks -> TaskRecord], NEW u \in Tasks, NEW k \in Homes,
         SetHome(u, k)
  PROVE  /\ task' \in [Tasks -> TaskRecord] /\ StatusOnly(u)
         /\ task'[u].home = k
<1> DEFINE r == [task[u] EXCEPT !.home = k]
<1>1. task[u] \in TaskRecord /\ task' = [task EXCEPT ![u] = r]
  BY DEF SetHome
<1>2. /\ r \in TaskRecord /\ r.pending_nextptr = task[u].pending_nextptr
      /\ r.thread = task[u].thread /\ r.initialized = task[u].initialized
      /\ r.home = k
  BY <1>1 DEF TaskRecord
<1> HIDE DEF r
<1> QED
  BY <1>1, <1>2 DEF StatusOnly

\* A thread writes the status of a task.  If the task is wanted then, the
\* thread is about to schedule it.
LEMMA StatusWrite ==
  ASSUME IInv, NEW h \in Threads, NEW u \in Tasks, StatusOnly(u),
         task' \in [Tasks -> TaskRecord],
         scheduled' = scheduled, pending' = pending, lock' = lock,
         OthersSame(h), cpu' \in [Threads -> ThreadRecord],
         cpu'[h].pc \notin {"leave", "append"},
         Moves(h), Spares(h), Destroyer(h)', Deferred(h)',
         Wants(task'[u]) => Schedules(cpu'[h], u),
         cpu[h].pc \in CallSteps => cpu[h].t = u
  PROVE  IInv'
<1>1. StructInv /\ ListedInv /\ Types
  BY DEF IInv, StructInv
<1>2. SameLists
  BY Zenon DEF SameLists, StatusOnly
<1>3. Types'
  BY Zenon, <1>1 DEF Types
<1>4. LockInv'
  BY <1>1, <1>2, LockStays
<1>5. StructInv'
  BY <1>1, <1>2, <1>3, <1>4, StatusStep
<1>6. Careful(h)
  <2>1. \A t \in Tasks : Schedules(cpu[h], t) => t = u
    BY Zenon DEF Schedules
  <2>2. \A t \in Tasks : task'[t].pending_nextptr = task[t].pending_nextptr
    BY Zenon, <1>2 DEF SameLists
  <2> QED
    BY Zenon, <2>1, <2>2 DEF Careful, CarefulBut, StatusOnly
<1> QED
  BY Zenon, <1>1, <1>5, <1>6, ListedStep DEF IInv

LEMMA RunFireStep ==
  ASSUME IInv, NEW h \in Threads, RunFire(h)
  PROVE  IInv'
<1> DEFINE c == cpu[h]
           u == cpu[h].t
           r == [c EXCEPT !.pc = "callback", !.fires = cpu[h].t]
<1>1. StructInv /\ Types
  BY DEF IInv, StructInv
<1>2. /\ c.pc = "fire" /\ SetScheduled(u, FALSE) /\ Locals(h, r)
      /\ scheduled' = scheduled /\ pending' = pending /\ lock' = lock
  BY Zenon DEF RunFire, At
<1>3. u \in Tasks /\ task[u].initialized /\ Control(c) /\ c \in ThreadRecord
  BY Zenon, <1>1, <1>2, InUse DEF Types, StructInv, ControlInv
<1>4. /\ "callback" \in Steps
      /\ {"callback", "fire"} \cap (CallSteps \cup CleanupSteps \cup AddSteps) = {}
  BY StepNames DEF Steps
<1>5. /\ r \in ThreadRecord
      /\ r.pc = "callback" /\ r.t = u /\ r.back = c.back /\ r.fires = u
      /\ r.my_pending = c.my_pending
  BY Zenon, <1>3, <1>4 DEF ThreadRecord
<1> HIDE DEF r
<1>6. cpu'[h] = r /\ OthersSame(h) /\ cpu' \in [Threads -> ThreadRecord]
  BY <1>1, <1>2, <1>5, LocalsEffect DEF NowAt
<1>7. /\ task' \in [Tasks -> TaskRecord] /\ StatusOnly(u)
      /\ task'[u].is_scheduled = FALSE /\ SameHomes
  BY Zenon, <1>1, <1>2, <1>3, ScheduledWrite DEF Types
<1>8. /\ ~Processes(cpu'[h]) /\ ~Visits(cpu'[h]) /\ Fires(cpu'[h])
      /\ ~Processes(c) /\ Visits(c)
  BY Zenon, <1>2, <1>4, <1>5, <1>6 DEF Processes, Visits, Fires
<1>9. u # NoTask
  BY Zenon, <1>3, NoTaskAssumption
<1>10. Control(cpu'[h])
  BY Zenon, <1>2, <1>3, <1>4, <1>5, <1>6, <1>8, <1>9 DEF Control
<1>11. u \in scheduled[h]
  BY Zenon, <1>1, <1>8 DEF StructInv, RunInv
<1>12. Moves(h)
  BY Zenon, <1>3, <1>5, <1>6, <1>8, <1>10, <1>11 DEF Moves
<1>13. Spares(h) /\ Destroyer(h)'
  BY Zenon, <1>1, <1>4, <1>5, <1>6, <1>7, OutsideSpares
<1>14. Deferred(h)'
  BY Zenon, <1>5, <1>6, NothingDeferred
<1>15. ~Wants(task'[u]) /\ cpu'[h].pc = "callback" /\ c.pc \notin CallSteps
  BY Zenon, <1>2, <1>4, <1>5, <1>6, <1>7 DEF Wants, Runnable
<1> QED
  BY ZenonT(30), <1>2, <1>3, <1>6, <1>7, <1>12, <1>13, <1>14, <1>15, StatusWrite

LEMMA RunFiredStep ==
  ASSUME IInv, NEW h \in Threads, RunFired(h)
  PROVE  IInv'
<1> DEFINE c == cpu[h]
           u == cpu[h].fires
           p == IF task[cpu[h].fires].is_scheduled THEN "loop" ELSE "unlist"
           r == [c EXCEPT !.fires = NoTask, !.t = cpu[h].fires, !.pc = p]
<1>1. StructInv /\ Types
  BY DEF IInv, StructInv
<1>2. c.pc = "callback" /\ Locals(h, r) /\ Quiet /\ lock' = lock
  BY DEF RunFired, At, Quiet
<1>3. Control(c) /\ c \in ThreadRecord /\ u \in Tasks \cup {NoTask}
  BY Zenon, <1>1 DEF Types, ThreadRecord, StructInv, ControlInv
<1>4. u # NoTask /\ u \in Tasks /\ u \in scheduled[h] /\ task[u].initialized
  <2>1. u # NoTask
    BY <1>2, <1>3 DEF Control, Fires
  <2>2. u \in scheduled[h]
    BY Zenon, <1>1, <2>1 DEF StructInv, RunInv
  <2> QED
    BY Zenon, <1>1, <1>3, <2>1, <2>2 DEF StructInv, GoneInv
<1>5. p \in {"loop", "unlist"} /\ p \in Steps /\ (p = "unlist" => ~task[u].is_scheduled)
  BY Zenon DEF Steps
<1> HIDE DEF p
<1>6. /\ p \notin CallSteps \cup CleanupSteps \cup AddSteps
      /\ c.pc \notin CallSteps \cup CleanupSteps \cup AddSteps
  BY <1>2, <1>5, StepNames
<1>7. /\ r \in ThreadRecord
      /\ r.pc = p /\ r.t = u /\ r.back = c.back /\ r.fires = NoTask
      /\ r.my_pending = c.my_pending
  BY Zenon, <1>3, <1>4, <1>5 DEF ThreadRecord
<1> HIDE DEF r
<1>8. cpu'[h] = r /\ OthersSame(h) /\ cpu' \in [Threads -> ThreadRecord]
  BY Zenon, <1>1, <1>2, <1>7, LocalsEffect DEF NowAt
<1>9. ~Processes(cpu'[h]) /\ ~Fires(cpu'[h]) /\ ~Processes(c)
  BY Zenon, <1>2, <1>5, <1>6, <1>7, <1>8 DEF Processes, Fires
<1>10. Control(cpu'[h])
  <2>1. c.my_pending = <<>>
    BY Zenon, <1>2, <1>3, <1>9 DEF Control
  <2> QED
    BY Zenon, <1>4, <1>5, <1>6, <1>7, <1>8, <1>9, <2>1 DEF Control
<1>11. Moves(h)
  BY Zenon, <1>4, <1>5, <1>7, <1>8, <1>9, <1>10 DEF Moves
<1>12. Spares(h) /\ Destroyer(h)'
  BY Zenon, <1>1, <1>2, <1>6, <1>7, <1>8, QuietLists, OutsideSpares
<1>13. Deferred(h)'
  <2>1. p = "unlist" => ~Wants(task[u])
    BY Zenon, <1>5 DEF Wants, Runnable
  <2> QED
    BY Zenon, <1>2, <1>5, <1>7, <1>8, <2>1 DEF Deferred, Quiet
<1>14. cpu'[h].pc \notin {"leave", "append"}
  BY Zenon, <1>5, <1>7, <1>8
<1> QED
  BY Zenon, <1>2, <1>6, <1>8, <1>11, <1>12, <1>13, <1>14, QuietStep
=============================================================================
