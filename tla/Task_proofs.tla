---------------------------- MODULE Task_proofs -----------------------------
(***************************************************************************)
(* Proofs about tasks, for any tasks, threads and number of calls: the     *)
(* calls of the elements keep the invariant of Task_lemmas as the steps of *)
(* the threads do, and what follows from it.                               *)
(***************************************************************************)
EXTENDS Task_threads

USE DEF Idle

-----------------------------------------------------------------------------
(***************************************************************************)
(* The calls of the elements' code.                                        *)
(***************************************************************************)

\* A call begins by writing the status.
LEMMA CallStep ==
  ASSUME IInv, NEW h \in Threads, NEW t \in Tasks, Call(h, t),
         NEW p \in {"schedule", "strong", "weak", "moved"}, Enter(h, p, t),
         StatusOnly(t), task' \in [Tasks -> TaskRecord],
         p = "strong" => ~Wants(task'[t]),
         scheduled' = scheduled, pending' = pending, lock' = lock
  PROVE  IInv'
<1>1. StructInv /\ Types
  BY DEF IInv, StructInv
<1>2. p \in Steps /\ p \in CallSteps
  BY DEF Steps, CallSteps
<1>3. NowAt(h, p, t, cpu[h].pc) /\ SameRun(h)
  BY <1>1, <1>2, EnterEffect
<1>4. OthersSame(h) /\ cpu' \in [Threads -> ThreadRecord] /\ cpu'[h].pc = p /\ cpu'[h].t = t
  BY <1>3 DEF NowAt
<1>5. \A u \in Tasks \ {t} : task'[u].home = task[u].home
  BY DEF StatusOnly
<1>6. Moves(h) /\ Spares(h) /\ Destroyer(h)'
  BY <1>1, <1>3, <1>5, CallBegins
<1>7. Deferred(h)'
  BY <1>4, NothingDeferred
<1>8. Wants(task'[t]) => Schedules(cpu'[h], t)
  BY <1>2, <1>4 DEF Schedules
<1>9. cpu[h].pc \notin CallSteps
  BY StepNames DEF Call
<1> QED
  BY Zenon, <1>4, <1>6, <1>7, <1>8, <1>9, StatusWrite

LEMMA RescheduleStep ==
  ASSUME IInv, NEW h \in Threads, NEW t \in Tasks, reschedule(h, t)
  PROVE  IInv'
<1>1. Call(h, t) /\ Enter(h, "schedule", t) /\ SetScheduled(t, TRUE)
      /\ scheduled' = scheduled /\ pending' = pending /\ lock' = lock
  BY Zenon DEF reschedule
<1>2. StatusOnly(t) /\ task' \in [Tasks -> TaskRecord]
  BY Zenon, <1>1, ScheduledWrite DEF IInv, StructInv, Types
<1> QED
  BY <1>1, <1>2, CallStep

LEMMA StrongUnscheduleStep ==
  ASSUME IInv, NEW h \in Threads, NEW t \in Tasks, strong_unschedule(h, t)
  PROVE  IInv'
<1>1. Call(h, t) /\ Enter(h, "strong", t) /\ SetScheduled(t, FALSE)
      /\ scheduled' = scheduled /\ pending' = pending /\ lock' = lock
  BY Zenon DEF strong_unschedule
<1>2. StatusOnly(t) /\ task' \in [Tasks -> TaskRecord] /\ task'[t].is_scheduled = FALSE
  BY Zenon, <1>1, ScheduledWrite DEF IInv, StructInv, Types
<1>3. ~Wants(task'[t])
  BY <1>2 DEF Wants, Runnable
<1> QED
  BY <1>1, <1>2, <1>3, CallStep

LEMMA StrongRescheduleStep ==
  ASSUME IInv, NEW h \in Threads, NEW t \in Tasks, strong_reschedule(h, t)
  PROVE  IInv'
<1>1. Call(h, t) /\ Enter(h, "weak", t) /\ SetStrong(t, FALSE)
      /\ scheduled' = scheduled /\ pending' = pending /\ lock' = lock
  BY Zenon DEF strong_reschedule
<1>2. StatusOnly(t) /\ task' \in [Tasks -> TaskRecord]
  BY Zenon, <1>1, StrongWrite DEF IInv, StructInv, Types
<1> QED
  BY <1>1, <1>2, CallStep

LEMMA MoveThreadStep ==
  ASSUME IInv, NEW h \in Threads, NEW t \in Tasks, NEW home \in Homes,
         move_thread(h, t, home)
  PROVE  IInv'
<1>1. Call(h, t) /\ Enter(h, "moved", t) /\ SetHome(t, home)
      /\ scheduled' = scheduled /\ pending' = pending /\ lock' = lock
  BY DEF move_thread
<1>2. StatusOnly(t) /\ task' \in [Tasks -> TaskRecord]
  BY <1>1, HomeWrite DEF IInv, StructInv, Types
<1> QED
  BY <1>1, <1>2, CallStep

\* A thread between its calls stays where it is.
LEMMA StaysPut ==
  ASSUME StructInv, NEW h \in Threads, cpu' = cpu, cpu[h].pc \in {"loop", "callback"},
         SameHomes
  PROVE  /\ OthersSame(h) /\ Moves(h) /\ Spares(h) /\ Destroyer(h)' /\ Deferred(h)'
         /\ cpu' \in [Threads -> ThreadRecord]
         /\ cpu[h].pc \notin CallSteps
<1>1. OthersSame(h) /\ cpu' \in [Threads -> ThreadRecord]
  BY DEF OthersSame, StructInv, Types
<1>2. cpu[h].pc \notin CallSteps \cup CleanupSteps
  BY StepNames
<1>3. Moves(h)
  BY Zenon, InUse DEF Moves, StructInv, ControlInv, RunInv
<1>4. Spares(h) /\ Destroyer(h)'
  BY <1>2, OutsideSpares
<1>5. Deferred(h)'
  BY NothingDeferred
<1> QED
  BY <1>1, <1>2, <1>3, <1>4, <1>5

LEMMA UnscheduleStep ==
  ASSUME IInv, NEW h \in Threads, NEW t \in Tasks, unschedule(h, t)
  PROVE  IInv'
<1>1. /\ Call(h, t) /\ SetScheduled(t, FALSE) /\ cpu' = cpu
      /\ scheduled' = scheduled /\ pending' = pending /\ lock' = lock
  BY Zenon DEF unschedule
<1>2. StructInv /\ Types /\ cpu[h].pc \in {"loop", "callback"}
  BY <1>1 DEF IInv, StructInv, Call
<1>3. StatusOnly(t) /\ task' \in [Tasks -> TaskRecord] /\ task'[t].is_scheduled = FALSE
      /\ SameHomes
  BY Zenon, <1>1, <1>2, ScheduledWrite DEF Types
<1>4. ~Wants(task'[t])
  BY <1>3 DEF Wants, Runnable
<1>5. /\ OthersSame(h) /\ Moves(h) /\ Spares(h) /\ Destroyer(h)' /\ Deferred(h)'
      /\ cpu' \in [Threads -> ThreadRecord] /\ cpu[h].pc \notin CallSteps
  BY <1>1, <1>2, <1>3, StaysPut
<1>6. cpu'[h].pc \notin {"leave", "append"}
  BY <1>1, <1>2
<1> QED
  BY <1>1, <1>3, <1>4, <1>5, <1>6, StatusWrite

\* The task that schedules itself again is on the list of its thread.
LEMMA FastRescheduleStep ==
  ASSUME IInv, NEW h \in Threads, fast_reschedule(h)
  PROVE  IInv'
<1> DEFINE u == cpu[h].fires
<1>1. /\ u # NoTask /\ Call(h, u) /\ SetScheduled(u, TRUE) /\ cpu' = cpu
      /\ scheduled' = scheduled /\ pending' = pending /\ lock' = lock
  BY Zenon DEF fast_reschedule
<1>2. StructInv /\ ListedInv /\ Types /\ cpu[h].pc \in {"loop", "callback"}
  BY <1>1 DEF IInv, StructInv, Call
<1>3. u \in Tasks /\ u \in scheduled[h] /\ task[u].thread = h
  <2>1. u \in Tasks
    BY <1>1, <1>2 DEF Types, ThreadRecord
  <2> QED
    BY <1>1, <1>2, <2>1 DEF StructInv, RunInv, OwnerInv
<1>4. StatusOnly(u) /\ task' \in [Tasks -> TaskRecord] /\ SameHomes
  BY Zenon, <1>1, <1>2, <1>3, ScheduledWrite DEF Types
<1>5. /\ OthersSame(h) /\ Moves(h) /\ Spares(h) /\ Destroyer(h)' /\ Deferred(h)'
      /\ cpu' \in [Threads -> ThreadRecord] /\ cpu[h].pc \notin CallSteps
  BY <1>1, <1>2, <1>4, StaysPut
<1>6. SameLists
  BY Zenon, <1>1, <1>4 DEF SameLists, StatusOnly
<1>7. Types'
  BY <1>1, <1>2, <1>4, <1>5 DEF Types
<1>8. LockInv'
  <2>1. cpu'[h].pc \notin {"leave", "append"}
    BY <1>1, <1>2
  <2> QED
    BY <1>1, <1>2, <1>5, <1>6, <2>1, LockStays
<1>9. StructInv'
  BY <1>2, <1>5, <1>6, <1>7, <1>8, StatusStep
<1>10. CarefulBut(h, {u})
  <2>1. \A t \in Tasks : ~Schedules(cpu[h], t)
    BY <1>5, NoCall
  <2> QED
    BY Zenon, <1>1, <1>4, <2>1 DEF CarefulBut, StatusOnly
<1>11. On(scheduled', u) /\ Settled(task', scheduled', cpu', u)
  BY Zenon, <1>1, <1>3 DEF Settled, On
<1>12. ASSUME NEW g \in Threads \ {h}, cpu[g].t \in {u} PROVE Deferred(g)'
  <2>1. cpu'[g] = cpu[g] /\ cpu[g].t = u
    BY <1>1, <1>12
  <2>2. cpu[g].pc \notin {"rehome", "unlist"}
    BY Zenon, <1>2, <1>3, <2>1 DEF StructInv, RunInv, Visits, OwnerInv
  <2>3. cpu[g].pc # "move"
    BY Zenon, <1>2, <1>3, <2>1 DEF StructInv, ProcessInv
  <2>4. ~(cpu[g].pc = "append" /\ cpu[g].thread = Quiescent)
    BY <1>2, <1>3, <2>1, QuiescentNeverRuns DEF StructInv, LockInv
  <2> QED
    BY Zenon, <1>11, <2>1, <2>2, <2>3, <2>4 DEF Deferred
<1> QED
  BY Zenon, <1>2, <1>5, <1>9, <1>10, <1>11, <1>12, ListedStepBut DEF IInv

\* The steps of a call before add_pending.
OuterSteps == {"schedule", "list", "ask", "weak", "strong", "moved"}

LEMMA InCall ==
  ASSUME StructInv, NEW h \in Threads, cpu[h].pc \in OuterSteps
  PROVE  /\ cpu[h].t \in Tasks /\ task[cpu[h].t].initialized
         /\ cpu[h].pc \in CallSteps /\ cpu[h].pc \notin AddSteps
         /\ cpu[h].back \in {"loop", "callback"} /\ cpu[h].back \in Steps
<1>1. cpu[h].pc \in CallSteps /\ cpu[h].pc \notin AddSteps /\ cpu[h].pc \notin Idle
  BY DEF OuterSteps, CallSteps, AddSteps
<1>2. Control(cpu[h])
  BY DEF StructInv, ControlInv
<1>3. cpu[h].back \in {"loop", "callback"}
  BY <1>1, <1>2 DEF Control
<1>4. cpu[h].back \in Steps
  BY <1>3 DEF Steps
<1> QED
  BY <1>1, <1>3, <1>4, InUse

\* A call writes the status of its task on its way.
LEMMA CallWrites ==
  ASSUME IInv, NEW h \in Threads, cpu[h].pc \in OuterSteps,
         NEW p, p = "schedule" \/ (p = cpu[h].back /\ ~Wants(task'[cpu[h].t])),
         Goto(h, p), StatusOnly(cpu[h].t), SameHomes, task' \in [Tasks -> TaskRecord],
         scheduled' = scheduled, pending' = pending, lock' = lock
  PROVE  IInv'
<1> DEFINE u == cpu[h].t
<1>1. StructInv /\ Types
  BY DEF IInv, StructInv
<1>2. /\ u \in Tasks /\ cpu[h].pc \in CallSteps /\ cpu[h].pc \notin AddSteps
      /\ cpu[h].back \in {"loop", "callback"} /\ cpu[h].back \in Steps
  BY Zenon, <1>1, InCall
<1>3. p \in Steps /\ p \notin {"leave", "append"} /\ p \notin AddSteps
      /\ "schedule" \in CallSteps
  BY Zenon, <1>2, StepNames DEF Steps, CallSteps, AddSteps
<1>4. NowAt(h, p, u, cpu[h].back) /\ SameRun(h)
  BY <1>1, <1>3, GotoEffect
<1>5. OthersSame(h) /\ cpu' \in [Threads -> ThreadRecord] /\ cpu'[h].pc = p /\ cpu'[h].t = u
  BY <1>4 DEF NowAt
<1>6. Moves(h) /\ Spares(h) /\ Destroyer(h)'
  BY Zenon, <1>1, <1>2, <1>3, <1>4, CallGoesOn
<1>7. Deferred(h)'
  BY Zenon, <1>2, <1>5, NothingDeferred
<1>8. Wants(task'[u]) => Schedules(cpu'[h], u)
  BY <1>3, <1>5 DEF Schedules
<1> QED
  BY Zenon, <1>2, <1>3, <1>5, <1>6, <1>7, <1>8, StatusWrite

LEMMA StrongUnscheduledStep ==
  ASSUME IInv, NEW h \in Threads, StrongUnscheduled(h)
  PROVE  IInv'
<1> DEFINE u == cpu[h].t
<1>1. /\ cpu[h].pc = "strong" /\ SetStrong(u, TRUE) /\ Goto(h, cpu[h].back)
      /\ scheduled' = scheduled /\ pending' = pending /\ lock' = lock
  BY Zenon DEF StrongUnscheduled, At
<1>2. StructInv /\ Types /\ cpu[h].pc \in OuterSteps
  BY <1>1 DEF IInv, StructInv, OuterSteps
<1>3. StatusOnly(u) /\ task' \in [Tasks -> TaskRecord] /\ SameHomes
      /\ task'[u].is_strong_unscheduled = TRUE
  BY Zenon, <1>1, <1>2, InCall, StrongWrite DEF Types
<1>4. ~Wants(task'[u])
  BY <1>3 DEF Wants, Runnable
<1> QED
  BY <1>1, <1>2, <1>3, <1>4, CallWrites

LEMMA StrongRescheduledStep ==
  ASSUME IInv, NEW h \in Threads, StrongRescheduled(h)
  PROVE  IInv'
<1> DEFINE u == cpu[h].t
<1>1. /\ cpu[h].pc = "weak" /\ SetScheduled(u, TRUE) /\ Goto(h, "schedule")
      /\ scheduled' = scheduled /\ pending' = pending /\ lock' = lock
  BY Zenon DEF StrongRescheduled, At
<1>2. StructInv /\ Types /\ cpu[h].pc \in OuterSteps
  BY <1>1 DEF IInv, StructInv, OuterSteps
<1>3. StatusOnly(u) /\ task' \in [Tasks -> TaskRecord] /\ SameHomes
  BY Zenon, <1>1, <1>2, InCall, ScheduledWrite DEF Types
<1> QED
  BY <1>1, <1>2, <1>3, CallWrites

\* A call goes on to another of its steps, or returns because its task is
\* not wanted or is on a pending list.
LEMMA CallLooks ==
  ASSUME IInv, NEW h \in Threads, cpu[h].pc \in OuterSteps, Quiet, lock' = lock,
         NEW p, Goto(h, p),
         \/ p \in {"list", "ask"}
         \/ /\ p = cpu[h].back
            /\ ~Wants(task[cpu[h].t]) \/ task[cpu[h].t].pending_nextptr = Listed
  PROVE  IInv'
<1> DEFINE u == cpu[h].t
<1>1. StructInv /\ Types
  BY DEF IInv, StructInv
<1>2. /\ u \in Tasks /\ cpu[h].pc \in CallSteps /\ cpu[h].pc \notin AddSteps
      /\ cpu[h].back \in {"loop", "callback"} /\ cpu[h].back \in Steps
  BY Zenon, <1>1, InCall
<1>3. p \in Steps /\ p \notin {"leave", "append"} /\ p \notin AddSteps
      /\ {"list", "ask"} \subseteq CallSteps \ {"strong"}
  BY <1>2, StepNames DEF Steps, CallSteps, AddSteps
<1>4. NowAt(h, p, u, cpu[h].back) /\ SameRun(h)
  BY Zenon, <1>1, <1>3, GotoEffect
<1> QED
  BY Zenon, <1>2, <1>3, <1>4, QuietCallStep

LEMMA RescheduleLookStep ==
  ASSUME IInv, NEW h \in Threads, RescheduleLook(h)
  PROVE  IInv'
<1> DEFINE p == IF task[cpu[h].t].pending_nextptr = Listed THEN cpu[h].back ELSE "list"
<1>1. cpu[h].pc = "schedule" /\ Goto(h, p) /\ Quiet /\ lock' = lock
  BY DEF RescheduleLook, At, Quiet
<1>2. cpu[h].pc \in OuterSteps
  BY <1>1 DEF OuterSteps
<1>3. p = "list" \/ (p = cpu[h].back /\ task[cpu[h].t].pending_nextptr = Listed)
  OBVIOUS
<1> HIDE DEF p
<1> QED
  BY <1>1, <1>2, <1>3, CallLooks

LEMMA MoveToldStep ==
  ASSUME IInv, NEW h \in Threads, MoveTold(h)
  PROVE  IInv'
<1> DEFINE t == task[cpu[h].t]
           p == IF t.home # Quiescent /\ Runnable(t) THEN "ask" ELSE cpu[h].back
<1>1. cpu[h].pc = "moved" /\ Goto(h, p) /\ Quiet /\ lock' = lock
  BY DEF MoveTold, At, Quiet
<1>2. cpu[h].pc \in OuterSteps
  BY <1>1 DEF OuterSteps
<1>3. p = "ask" \/ (p = cpu[h].back /\ ~Wants(t))
  BY DEF Wants
<1> HIDE DEF p
<1> QED
  BY <1>1, <1>2, <1>3, CallLooks

LEMMA AskPendingStep ==
  ASSUME IInv, NEW h \in Threads, AskPending(h)
  PROVE  IInv'
<1> DEFINE c == cpu[h]
           u == cpu[h].t
<1>1. cpu[h].pc = "ask" /\ Quiet /\ lock' = lock
  BY DEF AskPending, At, Quiet
<1>2. StructInv /\ Types /\ cpu[h].pc \in OuterSteps
  BY <1>1 DEF IInv, StructInv, OuterSteps
<1>3. CASE task[u].pending_nextptr = Listed
  <2>1. Goto(h, c.back)
    BY <1>3 DEF AskPending
  <2> QED
    BY <1>1, <1>2, <1>3, <2>1, CallLooks
<1>4. CASE task[u].pending_nextptr # Listed
  <2>1. CallAddPending(h, u, FALSE, c.back)
    BY Zenon, <1>4 DEF AskPending
  <2>2. /\ u \in Tasks /\ c.pc \in CallSteps /\ c.pc \notin AddSteps
        /\ c.back \in {"loop", "callback"} /\ c.back \in Steps
    BY <1>2, InCall
  <2>3. NowAt(h, "add", u, c.back) /\ SameRun(h) /\ cpu'[h].always = FALSE
    BY Zenon, <1>2, <2>1, <2>2, AddPendingEffect
  <2>4. "add" \in CallSteps \ {"strong"} /\ c.back # "pending"
    BY <2>2 DEF CallSteps
  <2> QED
    BY <1>1, <2>2, <2>3, <2>4, QuietCallStep
<1> QED
  BY <1>3, <1>4

LEMMA CompleteScheduleStep ==
  ASSUME IInv, NEW h \in Threads, CompleteSchedule(h)
  PROVE  IInv'
<1> DEFINE c == cpu[h]
           u == cpu[h].t
<1>1. c.pc = "list" /\ task' = task /\ pending' = pending /\ lock' = lock
  BY DEF CompleteSchedule, At
<1>2. StructInv /\ ListedInv /\ Types /\ c.pc \in OuterSteps
  BY <1>1 DEF IInv, StructInv, OuterSteps
<1>3. CASE task[u].thread # h
  <2>1. Goto(h, "ask") /\ Quiet
    BY <1>1, <1>3 DEF CompleteSchedule, Quiet
  <2> QED
    BY <1>1, <1>2, <2>1, CallLooks
<1>4. CASE task[u].thread = h
  <2>1. scheduled' = [scheduled EXCEPT ![h] = @ \cup {u}] /\ Goto(h, c.back)
    BY <1>4 DEF CompleteSchedule
  <2>2. /\ u \in Tasks /\ task[u].initialized /\ c.pc \in CallSteps /\ c.pc \notin AddSteps
        /\ c.back \in {"loop", "callback"} /\ c.back \in Steps
    BY <1>2, InCall
  <2>3. NowAt(h, c.back, u, c.back) /\ SameRun(h)
    BY ZenonT(30), <1>2, <2>1, <2>2, GotoEffect
  <2>4. /\ OthersSame(h) /\ cpu' \in [Threads -> ThreadRecord] /\ cpu'[h].pc = c.back
        /\ cpu'[h].t = u /\ cpu'[h].my_pending = c.my_pending
    BY <2>3 DEF NowAt, SameRun
  <2>5. SameHomes /\ Only(u) /\ SameThreads
    BY <1>1 DEF SameHomes, Only, SameThreads
  <2>6. c.back \notin CallSteps \cup AddSteps
    BY <2>2, StepNames
  <2>7. c.back # "leave" /\ c.back \notin {"leave", "append"}
    BY <2>2
  <2>8. Moves(h) /\ Spares(h) /\ Destroyer(h)'
    BY ZenonT(30), <1>2, <2>2, <2>3, <2>5, <2>6, <2>7, CallGoesOn
  <2>9. /\ scheduled'[h] = scheduled[h] \cup {u} /\ OthersLists(h)
        /\ scheduled' \in [Threads -> SUBSET Tasks]
    BY <1>2, <2>1, <2>2 DEF Types, OthersLists
  <2>10. Types'
    BY <1>1, <1>2, <2>4, <2>9 DEF Types
  <2>11. ControlInv'
    BY Zenon, <1>2, <2>4, <2>8, ControlStays DEF Moves
  <2>12. OwnerInv'
    <3>1. \A t \in Tasks, g \in Threads :
            t \in scheduled'[g] => t \in scheduled[g] \/ (t = u /\ g = h)
      BY <2>9 DEF OthersLists
    <3> QED
      BY Zenon, <1>1, <1>2, <1>4, <3>1 DEF StructInv, OwnerInv
  <2>13. PendingInv'
    BY <1>1, <1>2, <2>3, <2>4, MyPendingKept DEF StructInv, PendingInv
  <2>14. ProcessInv'
    <3>1. ~Processes(cpu'[h])
      BY Zenon, <2>2, <2>4, <2>6 DEF Processes
    <3>2. \A g \in Threads : Processes(cpu'[g]) => cpu'[g] = cpu[g]
      BY <2>4, <3>1 DEF OthersSame
    <3>3. \A g \in Threads : cpu'[g].pc \in {"status", "move"} => cpu'[g] = cpu[g]
      BY <2>2, <2>4 DEF OthersSame
    <3> QED
      BY Zenon, <1>1, <1>2, <3>2, <3>3 DEF StructInv, ProcessInv
  <2>15. LockInv'
    BY <1>1, <1>2, <2>4, <2>5, <2>7, LockKept
  <2>16. RunInv'
    BY Zenon, <1>2, <2>4, <2>8, <2>9, RunStays DEF Moves
  <2>17. DestroyInv'
    BY Zenon, <1>1, <1>2, <2>4, <2>8, DestroyStays
  <2>18. GoneInv'
    BY ZenonT(30), <1>2, <2>2, <2>4, <2>5, <2>9, GoneStays
  <2>19. StructInv'
    BY SMTT(30), <2>10, <2>11, <2>12, <2>13, <2>14, <2>15, <2>16, <2>17, <2>18
       DEF StructInv
  <2>20. Careful(h)
    <3>1. \A t \in Tasks : Schedules(c, t) => t \in scheduled'[h]
      BY <2>9 DEF Schedules
    <3>2. \A t \in Tasks : On(scheduled, t) => On(scheduled', t)
      BY <2>9 DEF On, OthersLists
    <3> QED
      BY <1>1, <3>1, <3>2 DEF Careful, CarefulBut
  <2>21. Deferred(h)'
    BY <2>2, <2>4, NothingDeferred
  <2> QED
    BY SMTT(30), <1>2, <2>4, <2>19, <2>20, <2>21, ListedStep DEF IInv
<1> QED
  BY <1>3, <1>4

-----------------------------------------------------------------------------
(***************************************************************************)
(* Task::cleanup.                                                          *)
(***************************************************************************)

LEMMA CleanupStep ==
  ASSUME IInv, NEW h \in Threads, NEW t \in Tasks, cleanup(h, t)
  PROVE  IInv'
<1> DEFINE c == cpu[h]
           d == cpu'[h]
<1>1. /\ Call(h, t) /\ Enter(h, "clean", t) /\ SetHome(t, Quiescent) /\ c.fires # t
      /\ scheduled' = scheduled /\ pending' = pending /\ lock' = lock
      /\ \A g \in Threads : cpu[g].t = t => cpu[g].pc \notin CallSteps
                                            \/ cpu[g].back \in {"pending", "unlist"}
  BY Zenon DEF cleanup
<1>2. StructInv /\ Types
  BY DEF IInv, StructInv
<1>3. /\ Control(c) /\ c.pc \in {"loop", "callback"} /\ task[t].initialized
      /\ \A g \in Threads : ~Destroys(g, t)
  BY Zenon, <1>1, <1>2 DEF StructInv, ControlInv, Call
<1>4. Quiescent \in Homes
  BY DEF Homes
<1>5. StatusOnly(t) /\ task' \in [Tasks -> TaskRecord] /\ task'[t].home = Quiescent
  BY Zenon, <1>1, <1>2, <1>4, HomeWrite DEF Types
<1>6. "clean" \in Steps /\ "clean" \in CleanupSteps
  BY DEF Steps, CleanupSteps
<1>7. NowAt(h, "clean", t, c.pc) /\ SameRun(h)
  BY ZenonT(30), <1>1, <1>2, <1>6, EnterEffect
<1>8. /\ OthersSame(h) /\ cpu' \in [Threads -> ThreadRecord]
      /\ d.pc = "clean" /\ d.t = t /\ d.back = c.pc
      /\ d.fires = c.fires /\ d.my_pending = c.my_pending
  BY <1>7 DEF NowAt, SameRun
<1>9. d.pc \notin CallSteps /\ d.pc \notin AddSteps /\ c.pc \notin CallSteps
      /\ c.pc \notin CleanupSteps
  BY Zenon, <1>3, <1>6, <1>8, StepNames
<1>10. ~Processes(c) /\ ~Processes(d) /\ ~Visits(d) /\ (Fires(d) <=> Fires(c))
  BY Zenon, <1>3, <1>6, <1>8, <1>9, StepNames DEF Processes, Visits, Fires
<1>11. Control(d)
  BY Zenon, <1>3, <1>8, <1>9, <1>10 DEF Control
<1> HIDE DEF c, d
<1>12. Moves(h)
  BY ZenonT(30), <1>2, <1>3, <1>8, <1>10, <1>11 DEF Moves, StructInv, RunInv, c, d
<1>13. Spares(h)
  <2> SUFFICES ASSUME NEW g \in Threads \ {h}, cpu[g].pc \in CleanupSteps
               PROVE  task'[cpu[g].t].home = Quiescent /\ d.t # cpu[g].t
    BY Zenon DEF Spares, d
  <2>1. Destroyer(g) /\ cpu[g].t \in Tasks
    BY <1>2, InUse, StepNames DEF StructInv, DestroyInv
  <2>2. cpu[g].t # t
    BY <1>3 DEF Destroys
  <2> QED
    BY ZenonT(30), <1>5, <1>8, <2>1, <2>2 DEF Destroyer, StatusOnly
<1>14. Destroyer(h)'
  <2>1. task'[t].initialized
    BY <1>3, <1>5 DEF StatusOnly
  <2>2. ASSUME NEW g \in Threads, g # h, cpu'[g].t = t
        PROVE  /\ cpu'[g].pc \notin CleanupSteps
               /\ cpu'[g].pc \in CallSteps => cpu'[g].back \in {"pending", "unlist"}
    BY Zenon, <1>1, <1>3, <1>8, <2>2 DEF OthersSame, Destroys
  <2> QED
    BY Zenon, <1>1, <1>5, <1>8, <2>1, <2>2 DEF Destroyer, c, d
<1>15. Deferred(h)'
  BY <1>8, NothingDeferred DEF d
<1>16. ~Wants(task'[t])
  BY <1>5 DEF Wants
<1> QED
  BY ZenonT(30), <1>1, <1>5, <1>8, <1>9, <1>12, <1>13, <1>14, <1>15, <1>16,
     StatusWrite DEF c, d

\* A thread goes on in cleanup.
LEMMA CleanupGoesOn ==
  ASSUME StructInv, NEW h \in Threads, cpu[h].pc \in CleanupSteps,
         NEW p \in CleanupSteps, NowAt(h, p, cpu[h].t, cpu[h].back), SameRun(h), SameHomes,
         \A t \in Tasks : task'[t].initialized = task[t].initialized
  PROVE  /\ Moves(h) /\ Spares(h) /\ Destroyer(h)' /\ Deferred(h)'
         /\ ~Processes(cpu'[h]) /\ ~Visits(cpu'[h])
         /\ cpu'[h].pc \notin {"leave", "append"}
<1> DEFINE c == cpu[h]
           d == cpu'[h]
<1>1. Control(c) /\ c.t \in Tasks /\ task[c.t].initialized /\ Destroyer(h)
  BY Zenon, InUse, StepNames DEF StructInv, ControlInv, DestroyInv
<1>2. /\ d.pc = p /\ d.t = c.t /\ d.back = c.back
      /\ d.fires = c.fires /\ d.my_pending = c.my_pending /\ OthersSame(h)
  BY DEF NowAt, SameRun
<1>3. c.pc \notin CallSteps /\ p \notin CallSteps /\ p \notin AddSteps /\ c.pc \notin AddSteps
  BY StepNames
<1>4. /\ {c.pc, p} \cap {"loop", "pending", "callback", "status", "move", "complete",
                         "rehome", "unlist", "fire"} = {}
      /\ p \notin {"leave", "append"}
  BY DEF CleanupSteps
<1>5. /\ ~Processes(c) /\ ~Processes(d) /\ ~Visits(d) /\ (Fires(d) <=> Fires(c))
  BY Zenon, <1>2, <1>3, <1>4 DEF Processes, Visits, Fires
<1>6. Control(d)
  BY Zenon, <1>1, <1>2, <1>3, <1>4, <1>5 DEF Control
<1> HIDE DEF c, d
<1>7. Moves(h)
  BY Zenon, <1>1, <1>2, <1>4, <1>5, <1>6 DEF Moves, StructInv, RunInv, c, d
<1>8. Spares(h)
  <2> SUFFICES ASSUME NEW g \in Threads \ {h}, cpu[g].pc \in CleanupSteps
               PROVE  task'[cpu[g].t].home = Quiescent /\ d.t # cpu[g].t
    BY Zenon DEF Spares, d
  <2>1. Destroyer(g) /\ cpu[g].t \in Tasks
    BY Zenon, InUse, StepNames DEF StructInv, DestroyInv
  <2> QED
    BY Zenon, <1>2, <2>1 DEF Destroyer, SameHomes, c
<1>9. Destroyer(h)'
  BY ZenonT(30), <1>1, <1>2 DEF Destroyer, SameHomes, OthersSame, c, d
<1>10. Deferred(h)'
  BY Zenon, <1>2, <1>4, NothingDeferred DEF d
<1> QED
  BY Zenon, <1>2, <1>4, <1>5, <1>7, <1>8, <1>9, <1>10 DEF d

\* needs_cleanup reads.
LEMMA CleanupReads ==
  ASSUME IInv, NEW h \in Threads, cpu[h].pc \in CleanupSteps, Quiet, lock' = lock,
         NEW p \in CleanupSteps, NowAt(h, p, cpu[h].t, cpu[h].back), SameRun(h)
  PROVE  IInv'
<1>1. StructInv
  BY DEF IInv
<1>2. SameHomes /\ \A t \in Tasks : task'[t].initialized = task[t].initialized
  BY QuietLists DEF SameLists
<1>3. /\ Moves(h) /\ Spares(h) /\ Destroyer(h)' /\ Deferred(h)'
      /\ cpu'[h].pc \notin {"leave", "append"}
  BY Zenon, <1>1, <1>2, CleanupGoesOn
<1>4. OthersSame(h) /\ cpu' \in [Threads -> ThreadRecord] /\ cpu[h].pc \notin CallSteps
  BY StepNames DEF NowAt
<1> QED
  BY <1>3, <1>4, QuietStep

LEMMA CleanupReadScheduledStep ==
  ASSUME IInv, NEW h \in Threads, CleanupReadScheduled(h)
  PROVE  IInv'
<1> DEFINE c == cpu[h]
           b == on_scheduled_list(c.t)
           r == [c EXCEPT !.pc = "clean2", !.listed = b]
<1>1. c.pc = "clean" /\ Locals(h, r) /\ Quiet /\ lock' = lock
  BY DEF CleanupReadScheduled, At, Quiet
<1>2. Types /\ c \in ThreadRecord
  BY DEF IInv, StructInv, Types
<1>3. b \in BOOLEAN
  BY DEF on_scheduled_list
<1>4. {"clean", "clean2"} \subseteq Steps \cap CleanupSteps
  BY DEF Steps, CleanupSteps
<1> HIDE DEF b
<1>5. /\ r \in ThreadRecord
      /\ r.pc = "clean2" /\ r.t = c.t /\ r.back = c.back /\ r.fires = c.fires
      /\ r.my_pending = c.my_pending
  BY Zenon, <1>2, <1>3, <1>4 DEF ThreadRecord
<1> HIDE DEF r
<1>6. NowAt(h, "clean2", c.t, c.back) /\ SameRun(h)
  BY <1>1, <1>2, <1>5, LocalsEffect DEF SameRun
<1> QED
  BY <1>1, <1>4, <1>6, CleanupReads

LEMMA CleanupReadPendingStep ==
  ASSUME IInv, NEW h \in Threads, CleanupReadPending(h)
  PROVE  IInv'
<1> DEFINE c == cpu[h]
           x == task[c.t].pending_nextptr
           r == [c EXCEPT !.pc = "clean3", !.next = x]
<1>1. c.pc = "clean2" /\ Locals(h, r) /\ Quiet /\ lock' = lock
  BY DEF CleanupReadPending, At, Quiet
<1>2. StructInv /\ Types /\ c \in ThreadRecord
  BY DEF IInv, StructInv, Types
<1>3. x \in {Off, Processing, Listed}
  BY Zenon, <1>1, <1>2, InUse DEF Types, TaskRecord
<1>4. {"clean2", "clean3"} \subseteq Steps \cap CleanupSteps
  BY DEF Steps, CleanupSteps
<1> HIDE DEF x
<1>5. /\ r \in ThreadRecord
      /\ r.pc = "clean3" /\ r.t = c.t /\ r.back = c.back /\ r.fires = c.fires
      /\ r.my_pending = c.my_pending
  BY Zenon, <1>2, <1>3, <1>4 DEF ThreadRecord
<1> HIDE DEF r
<1>6. NowAt(h, "clean3", c.t, c.back) /\ SameRun(h)
  BY Zenon, <1>1, <1>2, <1>5, LocalsEffect DEF SameRun
<1> QED
  BY <1>1, <1>4, <1>6, CleanupReads

\* Task u, which this thread destroys, is on no list: nobody else is in a
\* call on it.
LEMMA NobodyElse ==
  ASSUME StructInv, NEW h \in Threads, NEW u \in Tasks, cpu[h].t = u,
         cpu[h].pc \in CleanupSteps, task[u].pending_nextptr = Off,
         \A g \in Threads : u \notin scheduled[g],
         NEW g \in Threads, g # h, cpu[g].t = u
  PROVE  cpu[g].pc \in Idle
<1> DEFINE c == cpu[g]
<1>1. Destroyer(h) /\ Control(c) /\ c.pc \in Steps
  BY DEF StructInv, DestroyInv, ControlInv, Types, ThreadRecord
<1>2. c.pc \notin CleanupSteps /\ (c.pc \in CallSteps => c.back \in {"pending", "unlist"})
  BY Zenon, <1>1 DEF Destroyer
<1>3. ~Processes(c)
  BY DEF StructInv, ProcessInv, Off, Processing
<1>4. ~Visits(c)
  BY Zenon DEF StructInv, RunInv
<1>5. c.pc \notin CallSteps
  BY Zenon, <1>1, <1>2, <1>3, <1>4 DEF Control, Processes, Visits
<1> QED
  BY ZenonT(30), <1>1, <1>2, <1>3, <1>4, <1>5 DEF Steps, Processes, Visits

\* What the last write of cleanup keeps of a task.
LEMMA Forgetting ==
  ASSUME NEW s \in TaskRecord
  PROVE  LET r == [s EXCEPT !.initialized = FALSE]
         IN  /\ r \in TaskRecord /\ r.thread = s.thread /\ r.home = s.home
             /\ r.pending_nextptr = s.pending_nextptr
             /\ r.is_scheduled = s.is_scheduled
             /\ r.is_strong_unscheduled = s.is_strong_unscheduled
BY ZenonT(30) DEF TaskRecord

\* The task is destroyed: it is on no list, and cleanup returns.
LEMMA CleanupEndsStep ==
  ASSUME IInv, NEW h \in Threads, cpu[h].pc \in CleanupSteps,
         NEW u \in Tasks, u = cpu[h].t,
         task[u].pending_nextptr = Off, \A g \in Threads : u \notin scheduled[g],
         NowAt(h, cpu[h].back, u, cpu[h].back), SameRun(h),
         task' = [task EXCEPT ![u].initialized = FALSE],
         scheduled' = scheduled, pending' = pending, lock' = lock
  PROVE  IInv'
<1> DEFINE c == cpu[h]
           d == cpu'[h]
<1>1. StructInv /\ ListedInv /\ Types /\ Control(c) /\ Destroyer(h)
  BY Zenon DEF IInv, StructInv, ControlInv, DestroyInv
<1>2. /\ d.pc = c.back /\ d.t = u /\ d.fires = c.fires /\ d.my_pending = c.my_pending
      /\ OthersSame(h) /\ cpu' \in [Threads -> ThreadRecord]
  BY DEF NowAt, SameRun
<1>3. c.back \in {"loop", "callback"}
  BY Zenon, <1>1, StepNames DEF Control
<1>4. /\ task' \in [Tasks -> TaskRecord]
      /\ \A t \in Tasks \ {u} : task'[t] = task[t]
      /\ task'[u].thread = task[u].thread /\ task'[u].home = task[u].home
      /\ task'[u].pending_nextptr = task[u].pending_nextptr
      /\ task'[u].is_scheduled = task[u].is_scheduled
      /\ task'[u].is_strong_unscheduled = task[u].is_strong_unscheduled
  <2> DEFINE r == [task[u] EXCEPT !.initialized = FALSE]
  <2>1. task[u] \in TaskRecord /\ task' = [task EXCEPT ![u] = r]
    BY <1>1 DEF Types
  <2>2. /\ r \in TaskRecord /\ r.thread = task[u].thread /\ r.home = task[u].home
        /\ r.pending_nextptr = task[u].pending_nextptr
        /\ r.is_scheduled = task[u].is_scheduled
        /\ r.is_strong_unscheduled = task[u].is_strong_unscheduled
    BY <2>1, Forgetting
  <2> HIDE DEF r
  <2>3. task \in [Tasks -> TaskRecord]
    BY <1>1 DEF Types
  <2>4. task'[u] = r /\ \A t \in Tasks \ {u} : task'[t] = task[t]
    BY <2>1, <2>3
  <2>5. task' \in [Tasks -> TaskRecord]
    BY <2>1, <2>2, <2>3
  <2> QED
    BY Zenon, <2>2, <2>4, <2>5
<1>5. \A t \in Tasks : /\ task'[t].thread = task[t].thread /\ task'[t].home = task[t].home
                       /\ task'[t].pending_nextptr = task[t].pending_nextptr
                       /\ Wants(task'[t]) <=> Wants(task[t])
  BY Zenon, <1>4 DEF Wants, Runnable
<1>6. SameThreads /\ SameHomes
  BY Zenon, <1>5 DEF SameThreads, SameHomes
<1>7. c.pc \notin CallSteps /\ c.pc \notin AddSteps
      /\ {c.pc} \cap {"loop", "pending", "callback", "status", "move", "complete",
                      "rehome", "unlist", "fire"} = {}
  BY StepNames
<1>8. ~Processes(c) /\ ~Processes(d) /\ ~Visits(d) /\ (Fires(d) <=> Fires(c))
  BY Zenon, <1>2, <1>3, <1>7, StepNames DEF Processes, Visits, Fires
<1>9. Control(d)
  BY ZenonT(30), <1>1, <1>2, <1>3, <1>7, <1>8, StepNames DEF Control
<1> HIDE DEF c, d
<1>10. Types'
  BY Zenon, <1>1, <1>2, <1>4 DEF Types
<1>11. ControlInv'
  BY <1>1, <1>2, <1>9, ControlStays DEF d
<1>12. OwnerInv'
  BY Zenon, <1>1, <1>5 DEF StructInv, OwnerInv
<1>13. PendingInv'
  <2>1. \A g \in Threads : cpu'[g].my_pending = cpu[g].my_pending
    BY SMTT(30), <1>2 DEF OthersSame, c, d
  <2> QED
    BY Zenon, <1>1, <1>5, <2>1, MarksKept
<1>14. ProcessInv'
  <2>1. \A g \in Threads : Processes(cpu'[g]) => cpu'[g] = cpu[g] /\ cpu[g].t \in Tasks
    BY ZenonT(30), <1>1, <1>2, <1>8 DEF OthersSame, StructInv, ControlInv, Control,
       Processes, AddSteps, d
  <2>2. \A g \in Threads : cpu'[g].pc \in {"status", "move"} => Processes(cpu'[g])
    BY DEF Processes
  <2> QED
    BY <1>1, <1>5, <2>1, <2>2 DEF StructInv, ProcessInv
<1>15. LockInv'
  BY ZenonT(30), <1>1, <1>2, <1>3, <1>6, LockKept DEF d
<1>16. RunInv'
  <2>1. OthersLists(h)
    BY DEF OthersLists
  <2> QED
    BY ZenonT(30), <1>1, <1>2, <1>8, <2>1, RunStays DEF StructInv, RunInv, c, d
<1>17. DestroyInv'
  <2> SUFFICES ASSUME NEW g \in Threads, cpu'[g].pc \in CleanupSteps
               PROVE  Destroyer(g)'
    BY Zenon DEF DestroyInv, Destroyer
  <2>1. g # h /\ cpu'[g] = cpu[g]
    BY Zenon, <1>2, <1>3, StepNames DEF OthersSame, d
  <2>2. cpu[g].t # u /\ cpu[g].t \in Tasks /\ Destroyer(g)
    BY Zenon, <1>1, <2>1, InUse, StepNames DEF Destroyer, StructInv, DestroyInv
  <2>3. task'[cpu[g].t] = task[cpu[g].t]
    BY Zenon, <1>4, <2>2
  <2>4. \A k \in Threads : k # g /\ cpu'[k].t = cpu[g].t => k # h /\ cpu'[k] = cpu[k]
    BY Zenon, <1>2, <2>2 DEF OthersSame, d
  <2> QED
    BY ZenonT(30), <2>1, <2>2, <2>3, <2>4 DEF Destroyer
<1>18. GoneInv'
  <2> SUFFICES ASSUME NEW t \in Tasks, NEW g \in Threads, ~task'[t].initialized
               PROVE  /\ task'[t].pending_nextptr = Off
                      /\ t \notin scheduled[g]
                      /\ cpu'[g].t = t => cpu'[g].pc \in Idle
    BY Zenon DEF GoneInv
  <2>1. CASE t = u /\ g = h
    BY Zenon, <1>2, <1>3, <1>5, <2>1 DEF d
  <2>2. CASE t = u /\ g # h
    BY ZenonT(30), <1>1, <1>2, <1>5, <2>2, NobodyElse DEF OthersSame
  <2>3. CASE t # u
    BY ZenonT(30), <1>1, <1>2, <1>4, <2>3 DEF StructInv, GoneInv, OthersSame, d
  <2> QED
    BY Zenon, <2>1, <2>2, <2>3
<1>19. StructInv'
  BY SMTT(30), <1>10, <1>11, <1>12, <1>13, <1>14, <1>15, <1>16, <1>17, <1>18
     DEF StructInv
<1>20. Careful(h)
  BY Zenon, <1>5, <1>7 DEF Careful, CarefulBut, Schedules, c
<1>21. Deferred(h)'
  BY Zenon, <1>2, <1>3, NothingDeferred DEF d
<1> QED
  BY ZenonT(30), <1>1, <1>2, <1>19, <1>20, <1>21, ListedStep DEF IInv

LEMMA CleanupLookStep ==
  ASSUME IInv, NEW h \in Threads, CleanupLook(h)
  PROVE  IInv'
<1> DEFINE c == cpu[h]
           u == c.t
           same == c.listed = on_scheduled_list(u) /\ c.next = task[u].pending_nextptr
           clean == ~c.listed /\ c.next = Off
           p == CASE same /\ clean -> c.back
                  [] same /\ ~clean /\ task[u].thread = h -> "clean4"
                  [] OTHER -> "clean"
<1>1. /\ c.pc = "clean3" /\ Goto(h, p)
      /\ task' = [task EXCEPT ![u].initialized = ~(same /\ clean)]
      /\ scheduled' = scheduled /\ pending' = pending /\ lock' = lock
  BY Zenon DEF CleanupLook, At
<1>2. StructInv /\ Types
  BY DEF IInv, StructInv
<1>3. {"clean", "clean3", "clean4"} \subseteq Steps \cap CleanupSteps
  BY DEF Steps, CleanupSteps
<1>4. u \in Tasks /\ task[u].initialized
  BY Zenon, <1>1, <1>2, InUse
<1>5. CASE same /\ clean
  <2>1. c.back \in Steps /\ p = c.back /\ task' = [task EXCEPT ![u].initialized = FALSE]
    BY Zenon, <1>1, <1>2, <1>5 DEF Types, ThreadRecord
  <2>2. task[u].pending_nextptr = Off /\ \A g \in Threads : u \notin scheduled[g]
    BY <1>5 DEF on_scheduled_list
  <2> HIDE DEF p
  <2>3. NowAt(h, c.back, u, c.back) /\ SameRun(h)
    BY Zenon, <1>1, <1>2, <2>1, GotoEffect
  <2> QED
    BY ZenonT(30), <1>1, <1>3, <1>4, <2>1, <2>2, <2>3, CleanupEndsStep
<1>6. CASE ~(same /\ clean)
  <2>1. p \in {"clean", "clean4"}
    BY <1>6
  <2> HIDE DEF p
  <2>2. task' = task
    BY ZenonT(30), <1>1, <1>2, <1>4, <1>6 DEF Types, TaskRecord
  <2>3. NowAt(h, p, u, c.back) /\ SameRun(h)
    BY <1>1, <1>2, <1>3, <2>1, GotoEffect
  <2> QED
    BY ZenonT(30), <1>1, <1>3, <2>1, <2>2, <2>3, CleanupReads DEF Quiet
<1> QED
  BY Zenon, <1>5, <1>6

-----------------------------------------------------------------------------
(***************************************************************************)
(* Task::cleanup takes the task off a list of its thread.                  *)
(***************************************************************************)

\* A thread that destroys task u changes the marks or the lists of u only.
LEMMA CleanupMarks ==
  ASSUME IInv, NEW h \in Threads, cpu[h].pc \in CleanupSteps,
         NEW u \in Tasks, u = cpu[h].t,
         NowAt(h, "clean", u, cpu[h].back), SameRun(h), Only(u), OthersLists(h),
         scheduled'[h] \subseteq scheduled[h], scheduled[h] \ {u} \subseteq scheduled'[h],
         Types', OwnerInv', PendingInv', ProcessInv', SameThreads, lock' = lock
  PROVE  IInv'
<1>1. StructInv /\ ListedInv /\ Destroyer(h) /\ task[u].initialized
  BY Zenon, InUse, StepNames DEF IInv, StructInv, DestroyInv
<1>2. /\ OthersSame(h) /\ cpu'[h].pc = "clean" /\ cpu'[h].t = u
      /\ cpu'[h].fires = cpu[h].fires
  BY DEF NowAt, SameRun
<1>3. /\ SameHomes
      /\ \A t \in Tasks : task'[t].initialized = task[t].initialized
      /\ \A t \in Tasks : Wants(task'[t]) <=> Wants(task[t])
  BY Zenon, OnlyKeeps
<1>4. "clean" \in CleanupSteps
  BY Zenon DEF CleanupSteps
<1>5. /\ Moves(h) /\ Spares(h) /\ Destroyer(h)' /\ Deferred(h)' /\ ~Visits(cpu'[h])
      /\ cpu'[h].pc \notin {"leave", "append"}
  BY Zenon, <1>1, <1>3, <1>4, CleanupGoesOn
<1>6. ~Wants(task[u]) /\ cpu[h].fires # u
  BY Zenon, <1>1 DEF Destroyer, Wants
<1>7. ControlInv'
  BY Zenon, <1>1, <1>2, <1>5, ControlStays DEF Moves
<1>8. LockInv'
  BY Zenon, <1>1, <1>2, <1>5, LockKept
<1>9. RunInv'
  <2>1. cpu'[h].fires # NoTask => cpu'[h].fires \in scheduled'[h]
    BY Zenon, <1>1, <1>2, <1>6 DEF StructInv, RunInv
  <2> QED
    BY ZenonT(30), <1>1, <1>2, <1>5, <2>1, RunStays
<1>10. DestroyInv'
  BY Zenon, <1>1, <1>2, <1>3, <1>5, DestroyStays
<1>11. GoneInv'
  BY ZenonT(30), <1>1, <1>2, GoneStays
<1>12. StructInv'
  BY <1>7, <1>8, <1>9, <1>10, <1>11 DEF StructInv
<1>13. CarefulBut(h, {u})
  <2> SUFFICES ASSUME NEW t \in Tasks \ {u}
               PROVE  /\ Wants(task'[t]) => Wants(task[t])
                      /\ task'[t].home = task[t].home
                      /\ On(scheduled, t) => On(scheduled', t)
                      /\ task'[t].pending_nextptr = task[t].pending_nextptr
                      /\ ~Schedules(cpu[h], t)
    BY Zenon DEF CarefulBut
  <2>1. task'[t] = task[t]
    BY Zenon DEF Only
  <2>2. On(scheduled, t) => On(scheduled', t)
    BY DEF On, OthersLists
  <2>3. ~Schedules(cpu[h], t)
    BY Zenon DEF Schedules
  <2> QED
    BY Zenon, <2>1, <2>2, <2>3
<1>14. \A t \in {u} : Settled(task', scheduled', cpu', t)
  BY Zenon, <1>3, <1>6 DEF Settled
<1>15. ASSUME NEW g \in Threads \ {h}, cpu[g].t \in {u} PROVE Deferred(g)'
  <2>1. ~Wants(task'[cpu'[g].t])
    BY Zenon, <1>2, <1>3, <1>6, <1>15 DEF OthersSame
  <2> QED
    BY Zenon, <2>1 DEF Deferred
<1>16. ListedInv'
  BY ZenonT(30), <1>1, <1>2, <1>5, <1>12, <1>13, <1>14, <1>15, ListedStepBut
<1> QED
  BY <1>12, <1>16 DEF IInv

\* What is left of a list of waiting tasks without its i-th.
LEMMA OwnedRemoveAt ==
  ASSUME NEW T, NEW s \in Seq(Tasks), NEW k, Owned(T, s, k), NEW i \in 1..Len(s)
  PROVE  /\ RemoveAt(s, i) \in Seq(Tasks)
         /\ Owned(T, RemoveAt(s, i), k)
         /\ Lacks(RemoveAt(s, i), s[i])
         /\ \A j \in 1..Len(RemoveAt(s, i)) :
              \E m \in 1..Len(s) : RemoveAt(s, i)[j] = s[m]
<1> DEFINE n == Len(s) - 1
           r == RemoveAt(s, i)
<1>1. Len(s) \in Nat /\ n \in Nat /\ n + 1 = Len(s) /\ \A j \in 1..Len(s) : s[j] \in Tasks
  OBVIOUS
<1>2. r = [j \in 1..n |-> IF j < i THEN s[j] ELSE s[j + 1]]
  BY DEF RemoveAt
<1> HIDE DEF r
<1>3. \A j \in 1..n : j \in 1..Len(s) /\ j + 1 \in 1..Len(s)
  BY <1>1
<1>4. \A j \in 1..n : r[j] = (IF j < i THEN s[j] ELSE s[j + 1]) /\ r[j] \in Tasks
  BY <1>1, <1>2, <1>3
<1>5. r \in Seq(Tasks) /\ Len(r) = n
  BY <1>1, <1>2, <1>4
<1>6. Lacks(r, s[i])
  BY <1>1, <1>3, <1>4, <1>5 DEF Lacks, Owned
<1>7. \A j \in 1..n : \E m \in 1..Len(s) : r[j] = s[m]
  BY Zenon, <1>1, <1>3, <1>4
<1>8. Owned(T, r, k)
  <2>1. \A j \in 1..n : T[r[j]].thread = k /\ T[r[j]].pending_nextptr = Listed
    BY <1>7 DEF Owned
  <2>2. ASSUME NEW j \in 1..n, NEW m \in 1..n, r[j] = r[m] PROVE j = m
    BY <1>1, <1>3, <1>4, <2>2 DEF Owned
  <2> QED
    BY Zenon, <1>5, <2>1, <2>2 DEF Owned
<1> QED
  BY <1>5, <1>6, <1>7, <1>8 DEF r

\* The pending list of thread h loses its i-th task, which is on no list then.
Removes(h, i) == pending' = [pending EXCEPT ![h] = RemoveAt(pending[h], i)]

LEMMA PendingRemove ==
  ASSUME StructInv, NEW h \in Threads, NEW i \in 1..Len(pending[h]),
         NEW u \in Tasks, u = pending[h][i], Only(u), SameThreads,
         task'[u].pending_nextptr = Off,
         Removes(h, i),
         \A g \in Threads : cpu'[g].my_pending = cpu[g].my_pending
  PROVE  /\ PendingInv' /\ pending' \in [Threads -> Seq(Tasks)]
         /\ NotProcessed(h, u)
<1> DEFINE s == pending[h]
           r == RemoveAt(s, i)
<1>1. /\ PendingInv /\ pending \in [Threads -> Seq(Tasks)]
      /\ \A g \in Threads : cpu[g].my_pending \in Seq(Tasks)
  BY Zenon DEF StructInv, Types, ThreadRecord
<1>2. s \in Seq(Tasks) /\ Owned(task, s, h)
  <2>1. Owned(task, pending[h], h)
    BY Zenon, <1>1 DEF PendingInv
  <2> QED
    BY Zenon, <1>1, <2>1
<1>3. task[u].thread = h /\ task[u].pending_nextptr = Listed
  BY Zenon, <1>2 DEF Owned
<1>4. /\ r \in Seq(Tasks) /\ Owned(task, r, h) /\ Lacks(r, u)
      /\ \A j \in 1..Len(r) : \E m \in 1..Len(s) : r[j] = s[m]
  BY Zenon, <1>2, OwnedRemoveAt
<1> HIDE DEF r
<1>5. /\ pending'[h] = r /\ \A g \in Threads \ {h} : pending'[g] = pending[g]
      /\ pending' \in [Threads -> Seq(Tasks)]
  BY Zenon, <1>1, <1>4 DEF Removes, r
<1>6. ASSUME NEW q \in Seq(Tasks), NEW g, Owned(task, q, g), Lacks(q, u)
      PROVE  Owned(task', q, g)
  <2>1. \A j \in 1..Len(q) : q[j] \in Tasks \ {u}
    BY Zenon, <1>6, ElementFacts DEF Lacks
  <2>2. SameMarks(task, task', q)
    BY ZenonT(30), <2>1 DEF SameMarks, Only
  <2> QED
    BY Zenon, <1>6, <2>2, OwnedStays
<1>7. \A g \in Threads \ {h} : Lacks(pending[g], u) /\ Lacks(cpu[g].my_pending, u)
  <2>1. \A g \in Threads : Owned(task, pending[g], g) /\ Owned(task, cpu[g].my_pending, g)
    BY Zenon, <1>1 DEF PendingInv
  <2> QED
    BY <1>3, <2>1 DEF Owned, Lacks
<1>8. Lacks(cpu[h].my_pending, u)
  BY Zenon, <1>1 DEF PendingInv, Lacks
<1>9. ASSUME NEW g \in Threads
      PROVE  Owned(task', pending'[g], g) /\ Owned(task', cpu[g].my_pending, g)
  <2>1. Owned(task, pending[g], g) /\ Owned(task, cpu[g].my_pending, g)
    BY Zenon, <1>1 DEF PendingInv
  <2>2. Owned(task', cpu[g].my_pending, g)
    BY Zenon, <1>1, <1>6, <1>7, <1>8, <2>1
  <2>3. CASE g = h
    BY Zenon, <1>4, <1>5, <1>6, <2>2, <2>3
  <2>4. CASE g # h
    BY ZenonT(30), <1>1, <1>5, <1>6, <1>7, <2>1, <2>2, <2>4
  <2> QED
    BY Zenon, <2>3, <2>4
<1>10. ASSUME NEW g \in Threads, NEW j \in 1..Len(pending'[g]),
              NEW m \in 1..Len(cpu[g].my_pending)
       PROVE  pending'[g][j] # cpu[g].my_pending[m]
  <2>1. \A k \in 1..Len(pending[g]) : pending[g][k] # cpu[g].my_pending[m]
    BY Zenon, <1>1 DEF PendingInv
  <2>2. CASE g = h
    BY Zenon, <1>4, <1>5, <2>1, <2>2
  <2>3. CASE g # h
    BY Zenon, <1>5, <2>1, <2>3
  <2> QED
    BY Zenon, <2>2, <2>3
<1>11. PendingInv'
  <2>1. \A g \in Threads : Owned(task', cpu'[g].my_pending, g)
    BY Zenon, <1>9
  <2>2. \A g \in Threads : \A j \in 1..Len(pending'[g]), m \in 1..Len(cpu'[g].my_pending) :
          pending'[g][j] # cpu'[g].my_pending[m]
    BY Zenon, <1>10
  <2> QED
    BY Zenon, <1>9, <2>1, <2>2 DEF PendingInv
<1>12. NotProcessed(h, u)
  BY <1>3 DEF NotProcessed, StructInv, ProcessInv, Processing, Listed
<1> QED
  BY Zenon, <1>5, <1>11, <1>12

LEMMA CleanupUnlistStep ==
  ASSUME IInv, NEW h \in Threads, CleanupUnlist(h)
  PROVE  IInv'
<1> DEFINE c == cpu[h]
           u == cpu[h].t
           waits == task[u].thread = h /\ Contains(pending[h], u)
<1>1. StructInv /\ Types
  BY DEF IInv, StructInv
<1>2. c.pc = "clean4" /\ Goto(h, "clean") /\ lock' = lock
  BY Zenon DEF CleanupUnlist, At
<1>3. {"clean", "clean4"} \subseteq Steps \cap CleanupSteps
  BY DEF Steps, CleanupSteps
<1>4. u \in Tasks
  BY <1>1, <1>2, InUse
<1>5. NowAt(h, "clean", u, c.back) /\ SameRun(h)
  BY <1>1, <1>2, <1>3, GotoEffect
<1>6. OthersSame(h) /\ cpu' \in [Threads -> ThreadRecord]
      /\ \A g \in Threads : cpu'[g].my_pending = cpu[g].my_pending
  BY <1>5 DEF NowAt, SameRun, OthersSame
<1>7. cpu'[h].pc = "clean" /\ ~Processes(cpu'[h])
  BY <1>5 DEF NowAt, Processes, AddSteps
<1>8. CASE on_scheduled_list(u)
  <2>1. scheduled' = [scheduled EXCEPT ![h] = @ \ {u}] /\ task' = task /\ pending' = pending
    BY Zenon, <1>8 DEF CleanupUnlist
  <2>2. /\ scheduled'[h] = scheduled[h] \ {u} /\ OthersLists(h)
        /\ scheduled' \in [Threads -> SUBSET Tasks]
    BY <1>1, <2>1 DEF Types, OthersLists
  <2>3. Only(u) /\ SameThreads
    BY <2>1 DEF Only, SameThreads
  <2>4. Types'
    BY SMTT(30), <1>1, <1>2, <1>6, <2>1, <2>2 DEF Types
  <2>5. OwnerInv'
    <3>1. \A t \in Tasks, g \in Threads : t \in scheduled'[g] => t \in scheduled[g]
      BY <2>2 DEF OthersLists
    <3> QED
      BY <1>1, <2>1, <3>1 DEF StructInv, OwnerInv
  <2>6. PendingInv'
    BY <1>1, <1>6, <2>1, MarksKept
  <2>7. ProcessInv'
    <3>1. \A g \in Threads : Processes(cpu'[g]) => cpu'[g] = cpu[g]
      BY <1>6, <1>7 DEF OthersSame
    <3>2. \A g \in Threads : cpu'[g].pc \in {"status", "move"} => cpu'[g] = cpu[g]
      BY <1>6, <1>7 DEF OthersSame
    <3> QED
      BY Zenon, <1>1, <2>1, <3>1, <3>2 DEF StructInv, ProcessInv
  <2> QED
    BY ZenonT(30), <1>2, <1>3, <1>4, <1>5, <2>2, <2>3, <2>4, <2>5, <2>6, <2>7,
       CleanupMarks
<1>9. CASE ~on_scheduled_list(u) /\ waits
  <2>1. PICK i \in 1..Len(pending[h]) :
          pending[h][i] = u /\ Removes(h, i)
    BY Zenon, <1>9 DEF CleanupUnlist, Removes
  <2>2. SetNextptr(u, Off) /\ scheduled' = scheduled
    BY Zenon, <1>9 DEF CleanupUnlist
  <2>3. /\ task' \in [Tasks -> TaskRecord] /\ Only(u)
        /\ task'[u].pending_nextptr = Off /\ task'[u].thread = task[u].thread
    BY Zenon, <1>1, <1>4, <2>2, NextptrWrite DEF Types
  <2>4. SameThreads /\ OthersLists(h)
    BY Zenon, <2>2, <2>3 DEF SameThreads, Only, OthersLists
  <2>5. PendingInv' /\ pending' \in [Threads -> Seq(Tasks)] /\ NotProcessed(h, u)
    BY ZenonT(30), <1>1, <1>4, <1>6, <2>1, <2>3, <2>4, PendingRemove
  <2>6. Types'
    BY ZenonT(30), <1>1, <1>2, <1>6, <2>2, <2>3, <2>5 DEF Types
  <2>7. OwnerInv'
    <3>1. \A t \in Tasks : task'[t].pending_nextptr = Listed => task[t].pending_nextptr = Listed
      BY <2>3 DEF Only, Off, Listed
    <3> QED
      BY ZenonT(30), <1>1, <2>2, <2>4, <3>1 DEF StructInv, OwnerInv, SameThreads
  <2>8. ProcessInv'
    BY ZenonT(30), <1>1, <1>4, <1>6, <1>7, <2>3, <2>5, ProcessStays
  <2> QED
    BY ZenonT(30), <1>2, <1>3, <1>4, <1>5, <2>2, <2>3, <2>4, <2>5, <2>6, <2>7,
       <2>8, CleanupMarks
<1>10. CASE ~on_scheduled_list(u) /\ ~waits
  <2>1. Quiet
    BY Zenon, <1>10 DEF CleanupUnlist, Quiet
  <2> QED
    BY Zenon, <1>2, <1>3, <1>5, <2>1, CleanupReads
<1> QED
  BY Zenon, <1>8, <1>9, <1>10

-----------------------------------------------------------------------------
(***************************************************************************)
(* The invariant holds in every state.                                     *)
(***************************************************************************)

LEMMA InitEstablishesInv ==
  ASSUME Init
  PROVE  IInv
<1>1. PICK home \in [Tasks -> Homes], on, made \in [Tasks -> BOOLEAN] :
        /\ \A t \in Tasks : ~made[t] => home[t] = Quiescent /\ ~on[t]
        /\ task = [t \in Tasks |->
                     [home |-> home[t], is_scheduled |-> on[t],
                      is_strong_unscheduled |-> FALSE, thread |-> home[t],
                      pending_nextptr |->
                        IF on[t] /\ home[t] # Quiescent THEN Listed ELSE Off,
                      initialized |-> made[t]]]
        /\ pending \in [Threads -> UNION {[1..n -> Tasks] : n \in 0..Cardinality(Tasks)}]
        /\ \A h \in Threads :
             /\ \A t \in Tasks : Contains(pending[h], t) <=> on[t] /\ home[t] = h
             /\ \A i, j \in 1..Len(pending[h]) :
                  pending[h][i] = pending[h][j] => i = j
  BY Zenon DEF Init
<1>2. /\ scheduled = [h \in Threads |-> {}] /\ lock = [h \in Homes |-> Free]
      /\ cpu = [h \in Threads |-> [pc |-> "loop", fires |-> NoTask,
                                   my_pending |-> <<>>, t |-> NoTask,
                                   thread |-> Quiescent, always |-> FALSE,
                                   back |-> "loop", home |-> Quiescent,
                                   go |-> FALSE, listed |-> FALSE, next |-> Off]]
  BY Zenon DEF Init
<1>3. \A h \in Threads : /\ scheduled[h] = {} /\ cpu[h].pc = "loop"
                         /\ cpu[h].fires = NoTask /\ cpu[h].my_pending = <<>>
  BY Zenon, <1>2
<1>4. \A t \in Tasks : /\ task[t].home = home[t] /\ task[t].thread = home[t]
                       /\ task[t].is_scheduled = on[t] /\ task[t].initialized = made[t]
                       /\ task[t].pending_nextptr =
                            IF on[t] /\ home[t] # Quiescent THEN Listed ELSE Off
  BY Zenon, <1>1
<1>5. task \in [Tasks -> TaskRecord]
  <2>1. \A t \in Tasks : [home |-> home[t], is_scheduled |-> on[t],
                          is_strong_unscheduled |-> FALSE, thread |-> home[t],
                          pending_nextptr |->
                            IF on[t] /\ home[t] # Quiescent THEN Listed ELSE Off,
                          initialized |-> made[t]] \in TaskRecord
    BY Zenon DEF TaskRecord
  <2> QED
    BY Zenon, <1>1, <2>1
<1>6. cpu \in [Threads -> ThreadRecord]
  <2>1. "loop" \in Steps /\ Quiescent \in Homes /\ <<>> \in Seq(Tasks)
    BY DEF Steps, Homes
  <2>2. [pc |-> "loop", fires |-> NoTask, my_pending |-> <<>>, t |-> NoTask,
         thread |-> Quiescent, always |-> FALSE, back |-> "loop", home |-> Quiescent,
         go |-> FALSE, listed |-> FALSE, next |-> Off] \in ThreadRecord
    BY Zenon, <2>1 DEF ThreadRecord
  <2> QED
    BY Zenon, <1>2, <2>2
<1>7. pending \in [Threads -> Seq(Tasks)]
  <2> SUFFICES ASSUME NEW h \in Threads PROVE pending[h] \in Seq(Tasks)
    BY Zenon, <1>1
  <2>1. PICK n \in 0..Cardinality(Tasks) : pending[h] \in [1..n -> Tasks]
    BY <1>1
  <2>2. n \in Nat
    OBVIOUS
  <2> QED
    BY <2>1, <2>2
<1>8. Types
  BY Zenon, <1>2, <1>5, <1>6, <1>7 DEF Types
<1>10. ControlInv
  BY Zenon, <1>3, StepNames DEF ControlInv, Control, Fires
<1>11. OwnerInv
  BY SMTT(30), <1>3, <1>4 DEF OwnerInv, Listed, Off
<1>12. PendingInv
  <2>1. ASSUME NEW h \in Threads PROVE Owned(task, pending[h], h)
    <3>1. \A i \in 1..Len(pending[h]) : pending[h][i] \in Tasks /\ Contains(pending[h], pending[h][i])
      BY <1>7, ElementFacts DEF Contains
    <3>2. \A i \in 1..Len(pending[h]) : /\ task[pending[h][i]].thread = h
                                        /\ task[pending[h][i]].pending_nextptr = Listed
      BY <1>1, <1>4, <3>1, QuiescentNeverRuns
    <3> QED
      BY Zenon, <1>1, <3>2 DEF Owned
  <2> QED
    BY <1>3, <2>1 DEF PendingInv, Owned
<1>13. \A h \in Threads : ~Processes(cpu[h]) /\ ~Visits(cpu[h])
  BY Zenon, <1>3, StepNames DEF Processes, Visits
<1>14. ProcessInv /\ LockInv /\ RunInv
  BY Zenon, <1>3, <1>13 DEF ProcessInv, LockInv, RunInv
<1>15. DestroyInv /\ GoneInv
  <2>1. \A t \in Tasks : ~task[t].initialized => task[t].pending_nextptr = Off
    BY Zenon, <1>1, <1>4
  <2>2. \A h \in Threads : cpu[h].pc \in Idle
    BY Zenon, <1>3, StepNames
  <2>3. GoneInv
    BY Zenon, <1>3, <2>1, <2>2 DEF GoneInv
  <2>4. DestroyInv
    BY Zenon, <1>3, StepNames DEF DestroyInv, Destroyer
  <2> QED
    BY <2>3, <2>4
<1>16. ListedInv
  <2>1. NoneForgotten
    BY <1>4 DEF NoneForgotten, Settled, Wants, Runnable, Listed, Off
  <2> QED
    BY Zenon, <1>3, <2>1 DEF ListedInv, Deferred
<1> QED
  BY <1>8, <1>10, <1>11, <1>12, <1>14, <1>15, <1>16 DEF IInv, StructInv

LEMMA StepKeepsInv == IInv /\ [Next]_vars => IInv'
<1> SUFFICES ASSUME IInv, [Next]_vars PROVE IInv'
  OBVIOUS
<1>1. CASE UNCHANGED vars
  BY <1>1, Stutter DEF vars
<1>2. ASSUME NEW h \in Threads, Continue(h) PROVE IInv'
  <2>1. CASE AddReadThread(h)
    BY <2>1, AddReadThreadStep
  <2>2. CASE AddLock(h)
    BY SMTT(30), <2>2, AddLockStep
  <2>3. CASE AddLeaveQuiescent(h)
    BY <2>3, AddLeaveQuiescentStep
  <2>4. CASE AddAppend(h)
    BY <2>4, AddAppendStep
  <2>5. CASE PendingTask(h)
    BY <2>5, PendingTaskStep
  <2>6. CASE PendingStatus(h)
    BY <2>6, PendingStatusStep
  <2>7. CASE PendingMove(h)
    BY <2>7, PendingMoveStep
  <2>8. CASE PendingComplete(h)
    BY <2>8, PendingCompleteStep
  <2>9. CASE RunRehome(h)
    BY <2>9, RunRehomeStep
  <2>10. CASE RunUnlist(h)
    BY <2>10, RunUnlistStep
  <2>11. CASE RunFire(h)
    BY <2>11, RunFireStep
  <2>12. CASE RunFired(h)
    BY <2>12, RunFiredStep
  <2>13. CASE RescheduleLook(h)
    BY <2>13, RescheduleLookStep
  <2>14. CASE CompleteSchedule(h)
    BY <2>14, CompleteScheduleStep
  <2>15. CASE AskPending(h)
    BY <2>15, AskPendingStep
  <2>16. CASE StrongUnscheduled(h)
    BY <2>16, StrongUnscheduledStep
  <2>17. CASE StrongRescheduled(h)
    BY <2>17, StrongRescheduledStep
  <2>18. CASE MoveTold(h)
    BY <2>18, MoveToldStep
  <2>19. CASE CleanupReadScheduled(h)
    BY <2>19, CleanupReadScheduledStep
  <2>20. CASE CleanupReadPending(h)
    BY <2>20, CleanupReadPendingStep
  <2>21. CASE CleanupLook(h)
    BY <2>21, CleanupLookStep
  <2>22. CASE CleanupUnlist(h)
    BY <2>22, CleanupUnlistStep
  <2> QED
    BY ZenonT(30), <1>2, <2>1, <2>2, <2>3, <2>4, <2>5, <2>6, <2>7, <2>8, <2>9,
       <2>10, <2>11, <2>12,
       <2>13, <2>14, <2>15, <2>16, <2>17, <2>18, <2>19, <2>20, <2>21, <2>22 DEF Continue
<1>3. ASSUME NEW h \in Threads, NEW t \in Tasks, ElementCall(h, t) PROVE IInv'
  <2>1. CASE reschedule(h, t)
    BY <2>1, RescheduleStep
  <2>2. CASE unschedule(h, t)
    BY SMTT(30), <2>2, UnscheduleStep
  <2>3. CASE strong_unschedule(h, t)
    BY <2>3, StrongUnscheduleStep
  <2>4. CASE strong_reschedule(h, t)
    BY <2>4, StrongRescheduleStep
  <2>5. CASE cleanup(h, t)
    BY <2>5, CleanupStep
  <2>6. ASSUME NEW home \in Homes, move_thread(h, t, home) PROVE IInv'
    BY SMTT(30), <2>6, MoveThreadStep
  <2> QED
    BY Zenon, <1>3, <2>1, <2>2, <2>3, <2>4, <2>5, <2>6 DEF ElementCall
<1>4. ASSUME NEW h \in Threads, ClaimPending(h) PROVE IInv'
  BY <1>4, ClaimPendingStep
<1>5. ASSUME NEW h \in Threads, fast_reschedule(h) PROVE IInv'
  BY <1>5, FastRescheduleStep
<1>6. ASSUME NEW h \in Threads, NEW t \in Tasks, RunTask(h, t) PROVE IInv'
  BY <1>6, RunTaskStep
<1> QED
  BY Zenon, <1>1, <1>2, <1>3, <1>4, <1>5, <1>6 DEF Next

\* Whatever the threads and the elements' code do, the lists, the marks and
\* the threads' local variables fit together as IInv says.
THEOREM Invariance == Spec => []IInv
<1>1. Init => IInv
  BY InitEstablishesInv
<1>2. IInv /\ [Next]_vars => IInv'
  BY StepKeepsInv
<1> QED
  BY <1>1, <1>2, PTL DEF Spec

-----------------------------------------------------------------------------
(***************************************************************************)
(* What follows.                                                           *)
(***************************************************************************)

\* A task that is scheduled and has a thread that runs is on a list, except
\* while a call is scheduling it: none of the unlocked looks at the lists in
\* reschedule, add_pending, process_pending and run_tasks forgets it.
THEOREM ScheduledTasksListed == Spec => []ScheduledIsListed
<1>1. IInv => ScheduledIsListed
  <2> SUFFICES ASSUME IInv, NEW t \in Tasks, Wants(task[t]), ~Busy(cpu, t)
               PROVE  On(scheduled, t) \/ task[t].pending_nextptr # Off
    BY Zenon DEF ScheduledIsListed, BeingScheduled, on_scheduled_list,
       on_pending_list,
           Wants, Busy, Schedules, On
  <2> QED
    BY Zenon DEF IInv, ListedInv, NoneForgotten, Settled
<1> QED
  BY <1>1, Invariance, PTL

\* The tasks on the lists of a thread have that thread and their marks, and
\* are there once: the assertions of run_tasks and process_pending hold.
THEOREM ListedTasksOwned == Spec => []ListsOwned
<1>1. IInv => ListsOwned
  <2> SUFFICES ASSUME IInv, NEW h \in Threads, NEW t \in Tasks
               PROVE  LET w == pending[h] \o cpu[h].my_pending IN
                      /\ t \in scheduled[h] => task[t].thread = h
                      /\ Contains(w, t) =>
                           /\ task[t].thread = h
                           /\ task[t].pending_nextptr = Listed
                           /\ \A i, j \in 1..Len(w) : w[i] = t /\ w[j] = t => i = j
    BY Zenon DEF ListsOwned
  <2> DEFINE a == pending[h]
             b == cpu[h].my_pending
             w == a \o b
  <2>1. a \in Seq(Tasks) /\ b \in Seq(Tasks)
    BY Zenon DEF IInv, StructInv, Types, ThreadRecord
  <2>2. /\ Owned(task, a, h) /\ Owned(task, b, h)
        /\ \A i \in 1..Len(a), j \in 1..Len(b) : a[i] # b[j]
    BY Zenon DEF IInv, StructInv, PendingInv
  <2>3. t \in scheduled[h] => task[t].thread = h
    BY Zenon DEF IInv, StructInv, OwnerInv
  <2> HIDE DEF a, b
  <2>4. /\ Len(a) \in Nat /\ Len(b) \in Nat /\ Len(w) = Len(a) + Len(b)
        /\ \A i \in 1..Len(w) : w[i] = IF i <= Len(a) THEN a[i] ELSE b[i - Len(a)]
    BY <2>1
  <2> HIDE DEF w
  <2>5. \A i \in 1..Len(w) : \/ i \in 1..Len(a) /\ w[i] = a[i]
                             \/ i - Len(a) \in 1..Len(b) /\ w[i] = b[i - Len(a)]
    BY <2>4
  <2>6. ASSUME NEW i \in 1..Len(w)
        PROVE  task[w[i]].thread = h /\ task[w[i]].pending_nextptr = Listed
    BY SMTT(30), <2>2, <2>5 DEF Owned
  <2>7. ASSUME NEW i \in 1..Len(w), NEW j \in 1..Len(w), w[i] = w[j] PROVE i = j
    <3>1. CASE i \in 1..Len(a) /\ w[i] = a[i]
      <4>1. CASE j \in 1..Len(a) /\ w[j] = a[j]
        BY Zenon, <2>2, <2>7, <3>1, <4>1 DEF Owned
      <4>2. CASE j - Len(a) \in 1..Len(b) /\ w[j] = b[j - Len(a)]
        BY ZenonT(30), <2>2, <2>7, <3>1, <4>2
      <4> QED
        BY Zenon, <2>5, <4>1, <4>2
    <3>2. CASE i - Len(a) \in 1..Len(b) /\ w[i] = b[i - Len(a)]
      <4>1. CASE j \in 1..Len(a) /\ w[j] = a[j]
        BY Zenon, <2>2, <2>7, <3>2, <4>1
      <4>2. CASE j - Len(a) \in 1..Len(b) /\ w[j] = b[j - Len(a)]
        <5>1. i - Len(a) = j - Len(a)
          BY Zenon, <2>2, <2>7, <3>2, <4>2 DEF Owned
        <5> QED
          BY <2>4, <5>1
      <4> QED
        BY <2>5, <4>1, <4>2
    <3> QED
      BY <2>5, <3>1, <3>2
  <2>8. Contains(w, t) => /\ task[t].thread = h /\ task[t].pending_nextptr = Listed
                          /\ \A i, j \in 1..Len(w) : w[i] = t /\ w[j] = t => i = j
    BY Zenon, <2>6, <2>7 DEF Contains
  <2> QED
    BY Zenon, <2>3, <2>8 DEF a, b, w
<1> QED
  BY <1>1, Invariance, PTL

\* A task of the quiescent thread, which never runs, is on no list.
THEOREM QuiescentTasksUnlisted == Spec => []QuiescentIsUnlisted
<1>1. IInv => QuiescentIsUnlisted
  BY Zenon, QuiescentNeverRuns
  DEF IInv, StructInv, OwnerInv, QuiescentIsUnlisted, on_scheduled_list
<1> QED
  BY <1>1, Invariance, PTL

\* The code of a task is executed by one thread at a time, whichever threads
\* the task is moved to while it runs.
THEOREM TasksRunOnce == Spec => []OneRunner
<1>1. IInv => OneRunner
  <2> SUFFICES ASSUME IInv, NEW g \in Threads, NEW h \in Threads,
                      cpu[g].fires # NoTask, cpu[g].fires = cpu[h].fires
               PROVE  g = h
    BY DEF OneRunner
  <2>1. cpu[g].fires \in scheduled[g] /\ cpu[g].fires \in scheduled[h]
    BY Zenon DEF IInv, StructInv, RunInv
  <2>2. cpu[g].fires \in Tasks
    BY Zenon, <2>1 DEF IInv, StructInv, Types
  <2> QED
    BY Zenon, <2>1, <2>2 DEF IInv, StructInv, OwnerInv
<1> QED
  BY <1>1, Invariance, PTL

\* When cleanup has returned, no list has the task and no thread is about to
\* look at it: the reads without a lock in needs_cleanup are enough.
THEOREM DestroyedTasksForgotten == Spec => []DestroyedIsForgotten
<1>1. IInv => DestroyedIsForgotten
  <2> SUFFICES ASSUME IInv, NEW t \in Tasks, NEW h \in Threads, ~task[t].initialized
               PROVE  /\ t \notin scheduled[h] /\ ~Contains(pending[h], t)
                      /\ cpu[h].fires # t /\ ~Contains(cpu[h].my_pending, t)
                      /\ cpu[h].t = t => cpu[h].pc \in {"loop", "callback", "pending"}
    BY Zenon DEF DestroyedIsForgotten
  <2>1. /\ task[t].pending_nextptr = Off /\ t \notin scheduled[h]
        /\ cpu[h].t = t => cpu[h].pc \in Idle
    BY Zenon DEF IInv, StructInv, GoneInv
  <2>2. Owned(task, pending[h], h) /\ Owned(task, cpu[h].my_pending, h)
    BY Zenon DEF IInv, StructInv, PendingInv
  <2>3. ~Contains(pending[h], t) /\ ~Contains(cpu[h].my_pending, t)
    BY <2>1, <2>2 DEF Owned, Contains, Off, Listed
  <2>4. cpu[h].fires # t
    BY Zenon, <2>1, NoTaskAssumption DEF IInv, StructInv, RunInv
  <2> QED
    BY Zenon, <2>1, <2>3, <2>4
<1> QED
  BY <1>1, Invariance, PTL
=============================================================================
