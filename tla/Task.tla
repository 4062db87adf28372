-------------------------------- MODULE Task --------------------------------
(***************************************************************************)
(* Tasks and the threads that run them (lib/task.cc, include/click/task.hh *)
(* and the driver loop of lib/routerthread.cc), in the build with several  *)
(* threads.                                                                *)
(*                                                                         *)
(* A task is on the scheduled list of its thread, which only that thread   *)
(* touches, or on the pending list of its thread, which any thread may     *)
(* extend under the list's lock.  Its status word (home thread, scheduled, *)
(* strongly unscheduled) is written without a lock by any thread at any    *)
(* time.  Every access to a word another thread may write is a step of its *)
(* own; two are merged only when nothing another thread does between them  *)
(* can be told from doing it before or after.  Memory is sequentially      *)
(* consistent, which the code's fences ask for.                            *)
(*                                                                         *)
(* The router is running and is not dying throughout, and no thread is     *)
(* told to stop.  A task is destroyed when no other thread is in the       *)
(* middle of a call on it, and by nobody's order but its own thread's or   *)
(* another's element code; its own code does not destroy it.               *)
(***************************************************************************)
EXTENDS Lists, FiniteSets

CONSTANTS Tasks,        \* the tasks of the router
          Threads,      \* the ids of the running threads
          MaxCalls      \* bound: scheduling calls made by the elements' code

ASSUME TasksAssumption == IsFiniteSet(Tasks)
ASSUME ThreadsAssumption == Threads \subseteq Nat
ASSUME CallsAssumption == MaxCalls \in Nat

VARIABLES task,         \* the fields of each Task
          scheduled,    \* the scheduled list of each thread, in any order
          pending,      \* the pending list of each thread
          lock,         \* the thread that holds each _pending_lock
          cpu,          \* what each thread is executing
          calls,        \* calls made so far (bound)
          failed        \* the assertion that stopped the program, if any

vars == <<task, scheduled, pending, lock, cpu, calls, failed>>

Quiescent == -1         \* the thread that never runs its tasks
Homes == Threads \cup {Quiescent}
Free == -2              \* nobody holds the lock
NoTask == "no task"
ASSUME NoTaskAssumption == NoTask \notin Tasks

(* The values of _pending_nextptr that the code tells apart: 0, 1, and the *)
(* two (2, and a pointer) that say the task is on a pending list.          *)
Off == 0
Processing == 1
Listed == 2

TypeOK ==
    /\ task \in [Tasks -> [home : Homes, is_scheduled : BOOLEAN,
                           is_strong_unscheduled : BOOLEAN, thread : Homes,
                           pending_nextptr : {Off, Processing, Listed},
                           initialized : BOOLEAN]]
    /\ scheduled \in [Threads -> SUBSET Tasks]
    /\ \A h \in Threads : /\ pending[h] \in Seq(Tasks)
                          /\ cpu[h].my_pending \in Seq(Tasks)
                          /\ cpu[h].fires \in Tasks \cup {NoTask}
    /\ lock \in [Homes -> Threads \cup {Free}]
    /\ calls \in 0..MaxCalls
    /\ failed \in {"none", "pending", "quiescent"}

on_scheduled_list(t) == \E h \in Threads : t \in scheduled[h]
on_pending_list(t) == task[t].pending_nextptr # Off

Runnable(s) == s.is_scheduled /\ ~s.is_strong_unscheduled

(* After Task::initialize: unscheduled, or scheduled and, unless the home  *)
(* is the quiescent thread, on its home's pending list.  Some of the tasks *)
(* may not be there, and some of the calls be made already.                *)
Init ==
    /\ \E home \in [Tasks -> Homes], on, made \in [Tasks -> BOOLEAN] :
        /\ \A t \in Tasks : ~made[t] => home[t] = Quiescent /\ ~on[t]
        /\ task = [t \in Tasks |->
                     [home |-> home[t], is_scheduled |-> on[t],
                      is_strong_unscheduled |-> FALSE, thread |-> home[t],
                      pending_nextptr |->
                        IF on[t] /\ home[t] # Quiescent THEN Listed ELSE Off,
                      initialized |-> made[t]]]
        /\ pending \in [Threads -> UNION {[1..n -> Tasks] : n \in 0..Cardinality(Tasks)}]
        /\ \A h \in Threads :
             /\ \A t \in Tasks : Contains(pending[h], t) <=> on[t] /\ home[t] = h
             /\ \A i, j \in 1..Len(pending[h]) :
                  pending[h][i] = pending[h][j] => i = j
    /\ scheduled = [h \in Threads |-> {}]
    /\ lock = [h \in Homes |-> Free]
    /\ cpu = [h \in Threads |-> [pc |-> "loop", fires |-> NoTask,
                                 my_pending |-> <<>>, t |-> NoTask,
                                 thread |-> Quiescent, always |-> FALSE,
                                 back |-> "loop", home |-> Quiescent,
                                 go |-> FALSE, listed |-> FALSE, next |-> Off]]
    /\ calls \in 0..MaxCalls
    /\ failed = "none"

At(h, pc) == failed = "none" /\ cpu[h].pc = pc
(* Writes of one field of a task.                                          *)
SetThread(t, h) == task' = [task EXCEPT ![t].thread = h]
SetNextptr(t, x) == task' = [task EXCEPT ![t].pending_nextptr = x]
SetHome(t, h) == task' = [task EXCEPT ![t].home = h]
SetScheduled(t, b) == task' = [task EXCEPT ![t].is_scheduled = b]
SetStrong(t, b) == task' = [task EXCEPT ![t].is_strong_unscheduled = b]

(* Where a thread is, and its local variables.                             *)
Locals(h, c) == cpu' = [cpu EXCEPT ![h] = c]
Goto(h, pc) == Locals(h, [cpu[h] EXCEPT !.pc = pc])
Enter(h, pc, t) == Locals(h, [cpu[h] EXCEPT !.pc = pc, !.t = t, !.back = cpu[h].pc])

-----------------------------------------------------------------------------
(* Task::add_pending(always), called by thread h on the task cpu[h].t, and  *)
(* returning to cpu[h].back.                                               *)

CallAddPending(h, t, always, back) ==
    Locals(h, [cpu[h] EXCEPT !.pc = "add", !.t = t, !.always = always,
                              !.back = back])

(* Read _thread into a local variable.                                     *)
AddReadThread(h) ==
    /\ At(h, "add")
    /\ Locals(h, [cpu[h] EXCEPT !.pc = "lock", !.thread = task[cpu[h].t].thread])
    /\ UNCHANGED <<task, scheduled, pending, lock, calls, failed>>

(* Mutant: whether the task still has the thread is not asked again.       *)
AddLockTrusts(h) ==
    LET c == cpu[h] IN
    /\ At(h, "lock")
    /\ lock[c.thread] = Free
    /\ IF task[c.t].pending_nextptr # Processing \/ c.always
       THEN /\ lock' = [lock EXCEPT ![c.thread] = h]
            /\ Goto(h, IF c.thread = Quiescent THEN "leave" ELSE "append")
       ELSE UNCHANGED lock /\ Goto(h, "add")
    /\ UNCHANGED <<task, scheduled, pending, calls, failed>>

(* Take that thread's lock, and give it up and start again when the task   *)
(* has changed threads or its process_pending is not over.                 *)
AddLock(h) ==
    LET c == cpu[h]
        t == task[c.t] IN
    /\ At(h, "lock")
    /\ lock[c.thread] = Free
    /\ IF t.thread = c.thread /\ (t.pending_nextptr # Processing \/ c.always)
       THEN /\ lock' = [lock EXCEPT ![c.thread] = h]
            /\ Goto(h, IF c.thread = Quiescent THEN "leave" ELSE "append")
       ELSE UNCHANGED lock /\ Goto(h, "add")
    /\ UNCHANGED <<task, scheduled, pending, calls, failed>>

(* The task's thread is the quiescent one but its home is not: give it its *)
(* home's thread, going from one lock to the other.                        *)
AddLeaveQuiescent(h) ==
    LET c == cpu[h]
        home == task[c.t].home IN
    /\ At(h, "leave")
    /\ \/ /\ home = Quiescent
          /\ Goto(h, "append")
          /\ UNCHANGED <<task, lock, failed>>
       \/ /\ home # Quiescent
          /\ on_scheduled_list(c.t) \/ on_pending_list(c.t)
          /\ failed' = "quiescent"
          /\ UNCHANGED <<task, lock, cpu>>
       \/ /\ home # Quiescent
          /\ ~on_scheduled_list(c.t) /\ ~on_pending_list(c.t)
          /\ lock[home] = Free
          /\ SetThread(c.t, home)
          /\ lock' = [lock EXCEPT ![home] = h, ![Quiescent] = Free]
          /\ Locals(h, [cpu[h] EXCEPT !.pc = "append", !.thread = home])
          /\ UNCHANGED failed
    /\ UNCHANGED <<scheduled, pending, calls>>

(* Extend the list unless the task is on one, and release the lock.  The   *)
(* quiescent thread has no list.                                           *)
AddAppend(h) ==
    LET c == cpu[h]
        x == task[c.t].pending_nextptr IN
    /\ At(h, "append")
    /\ IF x = Processing /\ ~c.always
       THEN failed' = "pending" /\ UNCHANGED <<task, pending, lock, cpu>>
       ELSE /\ lock' = [lock EXCEPT ![c.thread] = Free]
            /\ Goto(h, c.back)
            /\ UNCHANGED failed
            /\ CASE x = Listed -> UNCHANGED <<task, pending>>
                 [] x # Listed /\ c.thread = Quiescent ->
                      /\ SetNextptr(c.t, Off)
                      /\ UNCHANGED pending
                 [] OTHER ->
                      /\ SetNextptr(c.t, Listed)
                      /\ pending' = [pending EXCEPT ![c.thread] = Append(@, c.t)]
    /\ UNCHANGED <<scheduled, calls>>

-----------------------------------------------------------------------------
(* RouterThread::process_pending and Task::process_pending.                *)

(* Claim the whole pending list.                                           *)
ClaimPending(h) ==
    /\ At(h, "loop")
    /\ pending[h] # <<>>
    /\ lock[h] = Free
    /\ Locals(h, [cpu[h] EXCEPT !.pc = "pending", !.my_pending = pending[h]])
    /\ pending' = [pending EXCEPT ![h] = <<>>]
    /\ UNCHANGED <<task, scheduled, lock, calls, failed>>

(* Take the next task of the claimed list and mark it as being processed.  *)
PendingTask(h) ==
    LET c == cpu[h] IN
    /\ At(h, "pending")
    /\ IF c.my_pending = <<>>
       THEN Goto(h, "loop") /\ UNCHANGED task
       ELSE /\ Locals(h, [cpu[h] EXCEPT !.pc = "status", !.t = Head(c.my_pending),
                                      !.my_pending = Tail(c.my_pending)])
            /\ SetNextptr(Head(c.my_pending), Processing)
    /\ UNCHANGED <<scheduled, pending, lock, calls, failed>>

(* Copy the status word; what follows depends on the copy.                 *)
PendingStatus(h) ==
    LET t == task[cpu[h].t] IN
    /\ At(h, "status")
    /\ Locals(h, [cpu[h] EXCEPT !.pc = IF t.home # h THEN "move" ELSE "complete",
                                !.home = t.home, !.go = Runnable(t)])
    /\ UNCHANGED <<task, scheduled, pending, lock, calls, failed>>

(* Mutant: the task stays on this thread's scheduled list.                 *)
PendingMoveListed(h) ==
    /\ At(h, "move")
    /\ lock[h] = Free
    /\ SetThread(cpu[h].t, cpu[h].home)
    /\ Goto(h, "complete")
    /\ UNCHANGED <<scheduled, pending, lock, calls, failed>>

(* The home is another thread: leave this thread's list and change thread, *)
(* under this thread's lock.                                               *)
PendingMove(h) ==
    LET c == cpu[h] IN
    /\ At(h, "move")
    /\ lock[h] = Free
    /\ scheduled' = [scheduled EXCEPT ![h] = @ \ {c.t}]
    /\ SetThread(c.t, c.home)
    /\ Goto(h, "complete")
    /\ UNCHANGED <<pending, lock, calls, failed>>

(* Schedule the task if the copy of its status said so (complete_schedule  *)
(* called with this thread), and mark it as not being processed any more.  *)
PendingComplete(h) ==
    LET c == cpu[h]
        here == task[c.t].thread = h IN
    /\ At(h, "complete")
    /\ \/ /\ c.go /\ ~here
          /\ CallAddPending(h, c.t, TRUE, "pending")
          /\ UNCHANGED <<task, scheduled>>
       \/ /\ ~c.go \/ here
          /\ scheduled' = IF c.go
                          THEN [scheduled EXCEPT ![h] = @ \cup {c.t}]
                          ELSE scheduled
          /\ SetNextptr(c.t, Off)
          /\ Goto(h, "pending")
    /\ UNCHANGED <<pending, lock, calls, failed>>

-----------------------------------------------------------------------------
(* RouterThread::run_tasks.                                                *)

(* Look at a task of the list: fire it when its status word is as wanted,  *)
(* and otherwise take it off the list.                                     *)
RunTask(h, t) ==
    /\ At(h, "loop")
    /\ t \in scheduled[h]
    /\ Locals(h, [cpu[h] EXCEPT !.t = t, !.pc =
                   IF task[t].home = h /\ Runnable(task[t]) THEN "fire" ELSE "rehome"])
    /\ UNCHANGED <<task, scheduled, pending, lock, calls, failed>>

(* Mutant: a task whose home is elsewhere is only taken off the list.      *)
RunDropsMoved(h) ==
    /\ At(h, "rehome")
    /\ Goto(h, "unlist")
    /\ UNCHANGED <<task, scheduled, pending, lock, calls, failed>>

(* The status is not as wanted because the home is elsewhere: the pending  *)
(* list takes the task there.                                              *)
RunRehome(h) ==
    /\ At(h, "rehome")
    /\ IF task[cpu[h].t].home # h THEN CallAddPending(h, cpu[h].t, FALSE, "unlist")
                                  ELSE Goto(h, "unlist")
    /\ UNCHANGED <<task, scheduled, pending, lock, calls, failed>>

RunUnlist(h) ==
    /\ At(h, "unlist")
    /\ scheduled' = [scheduled EXCEPT ![h] = @ \ {cpu[h].t}]
    /\ Goto(h, "loop")
    /\ UNCHANGED <<task, pending, lock, calls, failed>>

(* Clear is_scheduled, then call the task's code.                          *)
RunFire(h) ==
    /\ At(h, "fire")
    /\ SetScheduled(cpu[h].t, FALSE)
    /\ Locals(h, [cpu[h] EXCEPT !.pc = "callback", !.fires = cpu[h].t])
    /\ UNCHANGED <<scheduled, pending, lock, calls, failed>>

(* The task's code has returned: keep the task on the list if it was       *)
(* scheduled again meanwhile.                                              *)
RunFired(h) ==
    LET t == cpu[h].fires IN
    /\ At(h, "callback")
    /\ Locals(h, [cpu[h] EXCEPT !.fires = NoTask, !.t = t,
                                !.pc = IF task[t].is_scheduled THEN "loop" ELSE "unlist"])
    /\ UNCHANGED <<task, scheduled, pending, lock, calls, failed>>

-----------------------------------------------------------------------------
CleanupSteps == {"clean", "clean2", "clean3", "clean4"}
Destroys(h, t) == cpu[h].t = t /\ cpu[h].pc \in CleanupSteps

(* The calls an element's code makes, from the code of a task that thread  *)
(* h fires, or from a timer or a select handler (at "loop").               *)

Call(h, t) ==
    /\ failed = "none" /\ cpu[h].pc \in {"loop", "callback"}
    /\ task[t].initialized /\ \A g \in Threads : ~Destroys(g, t)
    /\ calls < MaxCalls
    /\ calls' = calls + 1

(* reschedule: is_scheduled is set first.                                  *)
reschedule(h, t) ==
    /\ Call(h, t)
    /\ SetScheduled(t, TRUE)
    /\ Enter(h, "schedule", t)
    /\ UNCHANGED <<scheduled, pending, lock, failed>>

(* reschedule goes on to complete_schedule unless the task is on a pending *)
(* list.                                                                   *)
RescheduleLook(h) ==
    /\ At(h, "schedule")
    /\ Goto(h, IF task[cpu[h].t].pending_nextptr = Listed THEN cpu[h].back
                                                          ELSE "list")
    /\ UNCHANGED <<task, scheduled, pending, lock, calls, failed>>

(* Mutant: the calling thread lists the task, whatever thread it has.      *)
CompleteHere(h) ==
    LET c == cpu[h] IN
    /\ At(h, "list")
    /\ scheduled' = [scheduled EXCEPT ![h] = @ \cup {c.t}]
    /\ Goto(h, c.back)
    /\ UNCHANGED <<task, pending, lock, calls, failed>>

(* complete_schedule called without a thread: the task's own thread lists  *)
(* it at once, another one asks for it.                                    *)
CompleteSchedule(h) ==
    LET c == cpu[h]
        here == task[c.t].thread = h IN
    /\ At(h, "list")
    /\ scheduled' = IF here THEN [scheduled EXCEPT ![h] = @ \cup {c.t}]
                            ELSE scheduled
    /\ Goto(h, IF here THEN c.back ELSE "ask")
    /\ UNCHANGED <<task, pending, lock, calls, failed>>

(* complete_schedule and move_thread call add_pending unless the task is   *)
(* on a pending list.                                                      *)
AskPending(h) ==
    LET c == cpu[h] IN
    /\ At(h, "ask")
    /\ IF task[c.t].pending_nextptr = Listed
       THEN Goto(h, c.back)
       ELSE CallAddPending(h, c.t, FALSE, c.back)
    /\ UNCHANGED <<task, scheduled, pending, lock, calls, failed>>

(* fast_reschedule, allowed only in the task's own code.                   *)
fast_reschedule(h) ==
    /\ cpu[h].fires # NoTask
    /\ Call(h, cpu[h].fires)
    /\ SetScheduled(cpu[h].fires, TRUE)
    /\ UNCHANGED <<scheduled, pending, lock, cpu, failed>>

unschedule(h, t) ==
    /\ Call(h, t)
    /\ SetScheduled(t, FALSE)
    /\ UNCHANGED <<scheduled, pending, lock, cpu, failed>>

strong_unschedule(h, t) ==
    /\ Call(h, t)
    /\ SetScheduled(t, FALSE)
    /\ Enter(h, "strong", t)
    /\ UNCHANGED <<scheduled, pending, lock, failed>>

StrongUnscheduled(h) ==
    /\ At(h, "strong")
    /\ SetStrong(cpu[h].t, TRUE)
    /\ Goto(h, cpu[h].back)
    /\ UNCHANGED <<scheduled, pending, lock, calls, failed>>

strong_reschedule(h, t) ==
    /\ Call(h, t)
    /\ SetStrong(t, FALSE)
    /\ Enter(h, "weak", t)
    /\ UNCHANGED <<scheduled, pending, lock, failed>>

StrongRescheduled(h) ==
    /\ At(h, "weak")
    /\ SetScheduled(cpu[h].t, TRUE)
    /\ Goto(h, "schedule")
    /\ UNCHANGED <<scheduled, pending, lock, calls, failed>>

(* move_thread: write the home, then look whether anybody must be told.    *)
move_thread(h, t, home) ==
    /\ Call(h, t)
    /\ SetHome(t, home)
    /\ Enter(h, "moved", t)
    /\ UNCHANGED <<scheduled, pending, lock, failed>>

(* Mutant: nobody is told.                                                 *)
MoveUntold(h) ==
    /\ At(h, "moved")
    /\ Goto(h, cpu[h].back)
    /\ UNCHANGED <<task, scheduled, pending, lock, calls, failed>>

MoveTold(h) ==
    LET t == task[cpu[h].t] IN
    /\ At(h, "moved")
    /\ Goto(h, IF t.home # Quiescent /\ Runnable(t) THEN "ask" ELSE cpu[h].back)
    /\ UNCHANGED <<task, scheduled, pending, lock, calls, failed>>

-----------------------------------------------------------------------------
(* Task::cleanup, from the destructor: the home becomes the quiescent      *)
(* thread, then the caller waits until the task is on no list.             *)

CallSteps == {"schedule", "list", "ask", "weak", "strong", "moved",
              "add", "lock", "leave", "append"}

cleanup(h, t) ==
    /\ Call(h, t)
    /\ cpu[h].fires # t
    /\ \A g \in Threads : cpu[g].t = t => cpu[g].pc \notin CallSteps
                                          \/ cpu[g].back \in {"pending", "unlist"}
    /\ SetHome(t, Quiescent)
    /\ Enter(h, "clean", t)
    /\ UNCHANGED <<scheduled, pending, lock, failed>>

(* needs_cleanup reads the two list fields one after the other, and again. *)
CleanupReadScheduled(h) ==
    /\ At(h, "clean")
    /\ Locals(h, [cpu[h] EXCEPT !.pc = "clean2", !.listed = on_scheduled_list(cpu[h].t)])
    /\ UNCHANGED <<task, scheduled, pending, lock, calls, failed>>

CleanupReadPending(h) ==
    /\ At(h, "clean2")
    /\ Locals(h, [cpu[h] EXCEPT !.pc = "clean3",
                                !.next = task[cpu[h].t].pending_nextptr])
    /\ UNCHANGED <<task, scheduled, pending, lock, calls, failed>>

(* Mutant: the two fields are read once.                                   *)
CleanupLooksOnce(h) ==
    LET c == cpu[h]
        clean == ~c.listed /\ c.next = Off IN
    /\ At(h, "clean3")
    /\ task' = [task EXCEPT ![c.t].initialized = ~clean]
    /\ Goto(h, CASE clean -> c.back
                 [] ~clean /\ task[c.t].thread = h -> "clean4"
                 [] OTHER -> "clean")
    /\ UNCHANGED <<scheduled, pending, lock, calls, failed>>

(* On no list: the task is no more.  Changed, or on a list of a thread     *)
(* that is not this one: look again.                                       *)
CleanupLook(h) ==
    LET c == cpu[h]
        same == /\ c.listed = on_scheduled_list(c.t)
                /\ c.next = task[c.t].pending_nextptr
        clean == ~c.listed /\ c.next = Off IN
    /\ At(h, "clean3")
    /\ task' = [task EXCEPT ![c.t].initialized = ~(same /\ clean)]
    /\ Goto(h, CASE same /\ clean -> c.back
                 [] same /\ ~clean /\ task[c.t].thread = h -> "clean4"
                 [] OTHER -> "clean")
    /\ UNCHANGED <<scheduled, pending, lock, calls, failed>>

(* Mutant: only the scheduled list is looked at.                           *)
CleanupLeavesPending(h) ==
    /\ At(h, "clean4")
    /\ scheduled' = [scheduled EXCEPT ![h] = @ \ {cpu[h].t}]
    /\ Goto(h, "clean")
    /\ UNCHANGED <<task, pending, lock, calls, failed>>

(* On a list of this thread: take it off.                                  *)
CleanupUnlist(h) ==
    LET c == cpu[h]
        t == task[c.t] IN
    /\ At(h, "clean4")
    /\ IF on_scheduled_list(c.t)
       THEN /\ scheduled' = [scheduled EXCEPT ![h] = @ \ {c.t}]
            /\ UNCHANGED <<task, pending>>
       ELSE /\ lock[h] = Free
            /\ IF t.thread = h /\ Contains(pending[h], c.t)
               THEN /\ \E i \in 1..Len(pending[h]) :
                         /\ pending[h][i] = c.t
                         /\ pending' = [pending EXCEPT ![h] = RemoveAt(@, i)]
                    /\ SetNextptr(c.t, Off)
               ELSE UNCHANGED <<task, pending>>
            /\ UNCHANGED scheduled
    /\ Goto(h, "clean")
    /\ UNCHANGED <<lock, calls, failed>>

-----------------------------------------------------------------------------
Continue(h) ==
    \/ AddReadThread(h) \/ AddLock(h) \/ AddLeaveQuiescent(h) \/ AddAppend(h)
    \/ PendingTask(h) \/ PendingStatus(h) \/ PendingMove(h) \/ PendingComplete(h)
    \/ RunRehome(h) \/ RunUnlist(h) \/ RunFire(h) \/ RunFired(h)
    \/ RescheduleLook(h) \/ CompleteSchedule(h) \/ AskPending(h)
    \/ StrongUnscheduled(h) \/ StrongRescheduled(h) \/ MoveTold(h)
    \/ CleanupReadScheduled(h) \/ CleanupReadPending(h)
    \/ CleanupLook(h) \/ CleanupUnlist(h)

ElementCall(h, t) ==
    \/ reschedule(h, t) \/ unschedule(h, t)
    \/ strong_unschedule(h, t) \/ strong_reschedule(h, t) \/ cleanup(h, t)
    \/ \E home \in Homes : move_thread(h, t, home)

Next ==
    \E h \in Threads :
        \/ ClaimPending(h) \/ Continue(h) \/ fast_reschedule(h)
        \/ \E t \in Tasks : RunTask(h, t) \/ ElementCall(h, t)

(* A thread executes what it has begun, and in each round of its loop it   *)
(* looks at its pending list and at the tasks of its list.                 *)
Fairness ==
    \A h \in Threads :
        /\ WF_vars(Continue(h))
        /\ WF_vars(ClaimPending(h))
        /\ \A t \in Tasks : WF_vars(RunTask(h, t))

Spec == Init /\ [][Next]_vars /\ Fairness

-----------------------------------------------------------------------------
(* A call on the task is being executed: the thread has set the status and *)
(* has not changed the lists yet.                                          *)
BeingScheduled(t) ==
    \E h \in Threads : /\ cpu[h].t = t
                       /\ cpu[h].pc \in CallSteps \ {"strong"}

(* The first invariant of task.cc's comment: a task that is scheduled and  *)
(* not strongly unscheduled, and whose home is a thread that runs, is on a *)
(* scheduled or a pending list, except while a call is scheduling it.      *)
ScheduledIsListed ==
    \A t \in Tasks :
        Runnable(task[t]) /\ task[t].home # Quiescent /\ ~BeingScheduled(t)
            => on_scheduled_list(t) \/ on_pending_list(t)

(* The lists agree with the tasks: a task on the scheduled list of a       *)
(* thread has that thread (run_tasks asserts it), a task on a pending list *)
(* or on the part of it a thread has claimed has that thread               *)
(* (process_pending asserts it), is marked as listed, and is there once.   *)
ListsOwned ==
    \A h \in Threads, t \in Tasks :
        LET waiting == pending[h] \o cpu[h].my_pending IN
        /\ t \in scheduled[h] => task[t].thread = h
        /\ Contains(waiting, t) =>
             /\ task[t].thread = h
             /\ task[t].pending_nextptr = Listed
             /\ \A i, j \in 1..Len(waiting) :
                  waiting[i] = t /\ waiting[j] = t => i = j

(* The second invariant of task.cc's comment: a task of the quiescent      *)
(* thread is on no list, except while process_pending is moving it there.  *)
QuiescentIsUnlisted ==
    \A t \in Tasks :
        task[t].thread = Quiescent =>
            /\ ~on_scheduled_list(t)
            /\ task[t].pending_nextptr # Listed

(* However a task is moved and rescheduled, its code is executed by one    *)
(* thread at a time.                                                       *)
OneRunner ==
    \A g, h \in Threads :
        cpu[g].fires # NoTask /\ cpu[g].fires = cpu[h].fires => g = h

(* Threads that wait for each other in cleanup: each of them destroys a    *)
(* task that is on a list of another one of them, and none gets back to    *)
(* its loop to take a task off its lists.                                  *)
Entangled(h) ==
    \E H \in SUBSET Threads :
        /\ h \in H
        /\ \A g \in H :
             LET t == cpu[g].t IN
             /\ cpu[g].pc \in CleanupSteps
             /\ on_scheduled_list(t) \/ on_pending_list(t)
             /\ task[t].thread \in H \ {g}

(* "It will eventually run, unless its home thread is quiescent or it has  *)
(* been strong_unschedule()d": a scheduled task is fired, or one of the    *)
(* calls takes the reason to fire it away, unless the thread that has it   *)
(* or should have it is one of those that wait for each other in cleanup.  *)
RescheduledRuns ==
    \A t \in Tasks :
        (Runnable(task[t]) /\ task[t].home # Quiescent)
            ~> (\/ ~Runnable(task[t]) \/ task[t].home = Quiescent
                \/ \E h \in {task[t].home, task[t].thread} : Entangled(h)
                \/ failed # "none")

(* Once cleanup has returned, and the memory of the task is given back, no *)
(* list has the task and no thread is about to look at it.                 *)
DestroyedIsForgotten ==
    \A t \in Tasks, h \in Threads :
        ~task[t].initialized =>
            /\ t \notin scheduled[h] /\ ~Contains(pending[h], t)
            /\ cpu[h].fires # t /\ ~Contains(cpu[h].my_pending, t)
            /\ cpu[h].t = t => cpu[h].pc \in {"loop", "callback", "pending"}

(* The wait in cleanup ends, since the other thread notices that the home  *)
(* is not it any more, unless that thread is waiting in a cleanup of its   *)
(* own for a task that only this thread can take off its list.             *)
CleanupEnds ==
    \A t \in Tasks :
        (\E h \in Threads : Destroys(h, t))
            ~> (\/ ~task[t].initialized
                \/ \E h \in Threads : Destroys(h, t) /\ Entangled(h))
=============================================================================
