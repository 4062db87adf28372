------------------------------- MODULE MCTask -------------------------------
(***************************************************************************)
(* An instance of Task for TLC with two threads and two tasks.  Either     *)
(* there is one task only, in any of its initial states, and all the calls *)
(* are still to come; or each thread has one of the two tasks, scheduled,  *)
(* and two calls are still to come, enough for each thread to destroy the  *)
(* other's task.                                                           *)
(***************************************************************************)
EXTENDS Task

CONSTANTS t1, t2

OneTask == ~task[t2].initialized /\ calls = 0

TwoTasks ==
    /\ calls = MaxCalls - 2
    /\ \A t \in Tasks : task[t].initialized /\ task[t].is_scheduled
    /\ task[t1].home = 0 /\ task[t2].home = 1

MCInit == Init /\ (OneTask \/ TwoTasks)

MCSpec == MCInit /\ [][Next]_vars /\ Fairness
=============================================================================
