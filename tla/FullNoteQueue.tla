--------------------------- MODULE FullNoteQueue ---------------------------
(***************************************************************************)
(* The Queue element (elements/standard/fullnotequeue.{cc,hh} over the ring *)
(* of include/click/standard/storage.hh) between a thread that pushes and a *)
(* thread that pulls, with the two notifiers that put the other side's task *)
(* to sleep and wake it (include/click/notifier.hh).  The pushing task is   *)
(* InfiniteSource's, the pulling one Unqueue's.                            *)
(*                                                                         *)
(* Nothing is locked: every access to an index, a signal or a task's       *)
(* scheduled flag that the other thread may write is a step of its own.    *)
(* Of a task only the flag is kept: Task.tla shows that a scheduled task   *)
(* is run, by one thread at a time, and that the flag is cleared just      *)
(* before.                                                                 *)
(***************************************************************************)
EXTENDS Integers, Sequences

CONSTANTS Capacity,      \* _capacity; the ring has one slot more
          Burst,         \* _burstsize of the source
          Limit,         \* _limit of the source
          Trigger,       \* SLEEPINESS_TRIGGER
          NoPacket       \* the null packet

ASSUME QueueAssumption ==
    /\ Capacity \in Nat \ {0} /\ Burst \in Nat \ {0} /\ Limit \in Nat /\ Trigger \in Nat
    /\ NoPacket \notin Nat

VARIABLES q,             \* the ring
          head, tail,    \* _head and _tail
          sleepiness,    \* _sleepiness
          empty_note,    \* is the signal of _empty_note (non-empty) active?
          full_note,     \* is the signal of _full_note (non-full) active?
          scheduled,     \* is the task of each side scheduled?
          src,           \* what the pushing thread executes
          snk,           \* what the pulling thread executes
          ret            \* history: the last operation and its result

queue == <<q, head, tail>>
notes == <<sleepiness, empty_note, full_note>>
vars == <<queue, notes, scheduled, src, snk, ret>>

Indices == 0..Capacity
Packets == 1..Limit

next_i(i) == IF i # Capacity THEN i + 1 ELSE 0
size(h, t) == IF t - h >= 0 THEN t - h ELSE Capacity + (t - h) + 1

TypeOK ==
    /\ q \in [Indices -> Packets \cup {NoPacket}]
    /\ head \in Indices /\ tail \in Indices
    /\ sleepiness \in 0..Trigger
    /\ empty_note \in BOOLEAN /\ full_note \in BOOLEAN
    /\ scheduled \in [{"src", "snk"} -> BOOLEAN]
    /\ src.count \in 0..Limit /\ src.n \in 0..Burst /\ src.h \in Indices

(* Both tasks start scheduled, with the source free to push.  The signal   *)
(* of the empty notifier is active from the start.                         *)
Init ==
    /\ q = [i \in Indices |-> NoPacket]
    /\ head = 0 /\ tail = 0
    /\ sleepiness = 0 /\ empty_note = TRUE /\ full_note = TRUE
    /\ scheduled = [s \in {"src", "snk"} |-> TRUE]
    /\ src = [pc |-> "idle", count |-> 0, n |-> 0, worked |-> FALSE, h |-> 0]
    /\ snk = [pc |-> "idle", p |-> NoPacket]
    /\ ret = <<"none">>

-----------------------------------------------------------------------------
(* The source: InfiniteSource::run_task and FullNoteQueue::push.           *)

SrcGo(pc) == src' = [src EXCEPT !.pc = pc]

(* The thread fires the task.                                              *)
SrcFire ==
    /\ src.pc = "idle" /\ scheduled["src"]
    /\ scheduled' = [scheduled EXCEPT !["src"] = FALSE]
    /\ SrcGo("run")
    /\ UNCHANGED <<queue, notes, snk, ret>>

(* Give up until woken when the queue is said to be full; otherwise push a *)
(* burst, cut at the limit.                                                *)
SrcRun ==
    /\ src.pc = "run"
    /\ LET left == Limit - src.count
           n == IF left <= Burst THEN left ELSE Burst IN
       src' = IF full_note THEN [src EXCEPT !.pc = "push", !.n = n, !.worked = n > 0]
                           ELSE [src EXCEPT !.pc = "idle"]
    /\ UNCHANGED <<queue, notes, scheduled, snk, ret>>

(* After the burst the task asks to run again, unless the burst was empty. *)
SrcEnd ==
    /\ src.pc = "push" /\ src.n = 0
    /\ SrcGo("idle")
    /\ scheduled' = [scheduled EXCEPT !["src"] = @ \/ src.worked]
    /\ UNCHANGED <<queue, notes, snk, ret>>

(* Mutant: the head is compared with the tail, not with its successor.     *)
SrcPushOver ==
    /\ src.pc = "push" /\ src.n > 0
    /\ src' = [src EXCEPT !.pc = "store", !.h = head,
                          !.count = @ + 1, !.n = @ - 1]
    /\ UNCHANGED <<queue, notes, scheduled, snk, ret>>

(* push: read the head; the tail is this thread's.  A packet that finds    *)
(* the ring full is dropped.                                               *)
SrcPush ==
    /\ src.pc = "push" /\ src.n > 0
    /\ LET full == next_i(tail) = head IN
       /\ src' = [src EXCEPT !.pc = IF full THEN "push" ELSE "store", !.h = head,
                             !.count = @ + 1, !.n = @ - 1]
       /\ ret' = IF full THEN <<"push", FALSE>> ELSE ret
    /\ UNCHANGED <<queue, notes, scheduled, snk>>

SrcStore ==
    /\ src.pc = "store"
    /\ q' = [q EXCEPT ![tail] = src.count]
    /\ SrcGo("publish")
    /\ UNCHANGED <<head, tail, notes, scheduled, snk, ret>>

SrcPublish ==
    /\ src.pc = "publish"
    /\ tail' = next_i(tail)
    /\ ret' = <<"push", TRUE>>
    /\ SrcGo("wake")
    /\ UNCHANGED <<q, head, notes, scheduled, snk>>

(* Mutant: the signal is set, the task is not scheduled.                   *)
SrcWakesNobody ==
    /\ src.pc = "wake"
    /\ empty_note' = TRUE
    /\ SrcGo("test")
    /\ UNCHANGED <<queue, sleepiness, full_note, scheduled, snk, ret>>

(* _empty_note.wake(): the signal first, then the task if it was inactive. *)
SrcWake ==
    /\ src.pc = "wake"
    /\ empty_note' = TRUE
    /\ SrcGo(IF empty_note THEN "test" ELSE "reschedule")
    /\ UNCHANGED <<queue, sleepiness, full_note, scheduled, snk, ret>>

SrcReschedule ==
    /\ src.pc = "reschedule"
    /\ scheduled' = [scheduled EXCEPT !["snk"] = TRUE]
    /\ SrcGo("test")
    /\ UNCHANGED <<queue, notes, snk, ret>>

(* The ring was filled, by the head read at the start: say so.             *)
SrcSleep ==
    /\ src.pc = "test"
    /\ IF size(src.h, tail) = Capacity
       THEN full_note' = FALSE /\ SrcGo("recheck")
       ELSE UNCHANGED full_note /\ SrcGo("push")
    /\ UNCHANGED <<queue, sleepiness, empty_note, scheduled, snk, ret>>

(* Mutant: the source does not look again.                                 *)
SrcTrusts ==
    /\ src.pc = "recheck"
    /\ SrcGo("push")
    /\ UNCHANGED <<queue, notes, scheduled, snk, ret>>

(* The other thread may have pulled meanwhile: look again.                 *)
SrcRecheck ==
    /\ src.pc = "recheck"
    /\ SrcGo(IF size(head, tail) < Capacity THEN "nonfull" ELSE "push")
    /\ UNCHANGED <<queue, notes, scheduled, snk, ret>>

SrcNonfull ==
    /\ src.pc = "nonfull"
    /\ full_note' = TRUE
    /\ SrcGo(IF full_note THEN "push" ELSE "self")
    /\ UNCHANGED <<queue, sleepiness, empty_note, scheduled, snk, ret>>

SrcSelf ==
    /\ src.pc = "self"
    /\ scheduled' = [scheduled EXCEPT !["src"] = TRUE]
    /\ SrcGo("push")
    /\ UNCHANGED <<queue, notes, snk, ret>>

-----------------------------------------------------------------------------
(* The sink: Unqueue::run_task (bursts of one) and FullNoteQueue::pull.    *)

SnkGo(pc) == snk' = [snk EXCEPT !.pc = pc]

SnkFire ==
    /\ snk.pc = "idle" /\ scheduled["snk"]
    /\ scheduled' = [scheduled EXCEPT !["snk"] = FALSE]
    /\ SnkGo("pull")
    /\ UNCHANGED <<queue, notes, src, ret>>

(* pull: read the tail; the head is this thread's.                         *)
SnkPull ==
    /\ snk.pc = "pull"
    /\ IF head # tail
       THEN SnkGo("take") /\ UNCHANGED ret
       ELSE SnkGo("doze") /\ ret' = <<"pull", NoPacket>>
    /\ UNCHANGED <<queue, notes, scheduled, src>>

SnkTake ==
    /\ snk.pc = "take"
    /\ snk' = [pc |-> "release", p |-> q[head]]
    /\ UNCHANGED <<queue, notes, scheduled, src, ret>>

SnkRelease ==
    /\ snk.pc = "release"
    /\ head' = next_i(head)
    /\ ret' = <<"pull", snk.p>>
    /\ sleepiness' = 0
    /\ SnkGo("wake")
    /\ UNCHANGED <<q, tail, empty_note, full_note, scheduled, src>>

(* _full_note.wake().                                                      *)
SnkWake ==
    /\ snk.pc = "wake"
    /\ full_note' = TRUE
    /\ SnkGo(IF full_note THEN "again" ELSE "reschedule")
    /\ UNCHANGED <<queue, sleepiness, empty_note, scheduled, src, ret>>

SnkReschedule ==
    /\ snk.pc = "reschedule"
    /\ scheduled' = [scheduled EXCEPT !["src"] = TRUE]
    /\ SnkGo("again")
    /\ UNCHANGED <<queue, notes, src, ret>>

(* pull_failure: after Trigger empty pulls, put the pullers to sleep.      *)
SnkDoze ==
    /\ snk.pc = "doze"
    /\ IF sleepiness >= Trigger
       THEN empty_note' = FALSE /\ SnkGo("recheck") /\ UNCHANGED sleepiness
       ELSE sleepiness' = sleepiness + 1 /\ SnkGo("signal") /\ UNCHANGED empty_note
    /\ UNCHANGED <<queue, full_note, scheduled, src, ret>>

(* Mutant: the sink does not look again.                                   *)
SnkTrusts ==
    /\ snk.pc = "recheck"
    /\ SnkGo("signal")
    /\ UNCHANGED <<queue, notes, scheduled, src, ret>>

(* The other thread may have pushed meanwhile: look again.                 *)
SnkRecheck ==
    /\ snk.pc = "recheck"
    /\ SnkGo(IF size(head, tail) # 0 THEN "nonempty" ELSE "signal")
    /\ UNCHANGED <<queue, notes, scheduled, src, ret>>

SnkNonempty ==
    /\ snk.pc = "nonempty"
    /\ empty_note' = TRUE
    /\ SnkGo(IF empty_note THEN "signal" ELSE "self")
    /\ UNCHANGED <<queue, sleepiness, full_note, scheduled, src, ret>>

SnkSelf ==
    /\ snk.pc = "self"
    /\ scheduled' = [scheduled EXCEPT !["snk"] = TRUE]
    /\ SnkGo("signal")
    /\ UNCHANGED <<queue, notes, src, ret>>

(* run_task after an empty pull: run again only if the signal is active.   *)
SnkSignal ==
    /\ snk.pc = "signal"
    /\ SnkGo(IF empty_note THEN "again" ELSE "idle")
    /\ UNCHANGED <<queue, notes, scheduled, src, ret>>

SnkAgain ==
    /\ snk.pc = "again"
    /\ scheduled' = [scheduled EXCEPT !["snk"] = TRUE]
    /\ SnkGo("idle")
    /\ UNCHANGED <<queue, notes, src, ret>>

-----------------------------------------------------------------------------
SrcStep == \/ SrcFire \/ SrcRun \/ SrcEnd \/ SrcPush \/ SrcStore \/ SrcPublish
           \/ SrcWake \/ SrcReschedule \/ SrcSleep \/ SrcRecheck \/ SrcNonfull \/ SrcSelf

SnkStep == \/ SnkFire \/ SnkPull \/ SnkTake \/ SnkRelease \/ SnkWake \/ SnkReschedule
           \/ SnkDoze \/ SnkRecheck \/ SnkNonempty \/ SnkSelf \/ SnkSignal \/ SnkAgain

Next == SrcStep \/ SnkStep

(* Each thread runs: its scheduled task is fired and goes on to its end.   *)
Spec == Init /\ [][Next]_vars /\ WF_vars(SrcStep) /\ WF_vars(SnkStep)

-----------------------------------------------------------------------------
Contents == [k \in 1..size(head, tail) |-> q[(head + k - 1) % (Capacity + 1)]]

Fifo == INSTANCE BoundedFifo WITH fifo <- Contents

(* Between one pushing and one pulling thread the queue is a bounded       *)
(* first-in first-out queue: a packet is visible when the tail moves, gone *)
(* when the head does, refused only when the ring is full, and the slot    *)
(* being written is never the slot being read.                             *)
FifoSpec == Fifo!Init /\ [][Fifo!Next]_<<Contents, ret>>

(* No wake-up of the puller is lost: while the queue holds a packet, the   *)
(* pulling task is scheduled or running, or the pusher is about to         *)
(* schedule it.                                                            *)
PullerAwake ==
    size(head, tail) > 0 =>
        scheduled["snk"] \/ snk.pc # "idle" \/ src.pc \in {"wake", "reschedule"}

(* No wake-up of the pusher is lost: while the queue has room and packets  *)
(* remain, the pushing task is scheduled or running, or the puller is      *)
(* about to schedule it.                                                   *)
PusherAwake ==
    size(head, tail) < Capacity /\ src.count < Limit =>
        scheduled["src"] \/ src.pc # "idle" \/ snk.pc \in {"wake", "reschedule"}

(* Every packet leaves the source, and then the queue.                     *)
Drained == <>[](src.count = Limit /\ head = tail)
=============================================================================
