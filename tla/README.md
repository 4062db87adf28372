# The EmPOWER access point agent in TLA+

The repository is the Click modular router with the elements that turn a WiFi
access point into an EmPOWER *WTP* (wireless termination point). A controller
gives every station its own access point, the *LVAP* (light virtual access
point), and moves it between interfaces and WTPs. This directory models the
agent: its tables and what changes them, the path of data frames over these
tables, its downlink scheduler and the scheduler's queues, its receive
statistics and its multicast groups; and two parts of the platform that every
element rests on, Click's tasks and its queue with notifiers, both with several
threads. TLC checks the models on small instances; TLAPS proves nearly all of
the safety properties for every value of the constants.

All sources named here are in `src/elements/empower/` unless a path is given.

## The system

| Part | Source | What it does | Model |
|---|---|---|---|
| LVAP manager | `empowerlvapmanager.cc/.hh` | tables of LVAPs and VAPs, BSSID masks, controller messages | `EmpowerLVAPManager` |
| Beacon source | `empowerbeaconsource.cc` | periodic beacons; the countdown of a channel switch announcement (CSA) and what happens at its end | `EmpowerLVAPManager` |
| Authentication, association, deauthentication, disassociation responders | `empoweropenauthresponder.cc`, `empowerassociationresponder.cc`, `empowerdeauthresponder.cc`, `empowerdisassocresponder.cc` | 802.11 management frames of the stations | `EmpowerLVAPManager` |
| QoS manager | `empowerqosmanager.cc/.hh` | deficit round robin over (tenant, DSCP), round robin over address pairs | `EmpowerQOSManager`; which copies it makes of a frame: `EmpowerDataPath` |
| Aggregation queue | `empowerqosmanager.hh` | ring buffer of one address pair | `AggregationQueue`, refining `BoundedFifo` |
| Transmission policies, Minstrel | `src/elements/wifi/transmissionpolicies.cc`, `minstrel.cc` | per station policies and rate statistics | only the set of stations with a policy (`txp`) |
| RX statistics, triggers | `empowerrxstats.cc`, `*_trigger.cc`, `dstinfo.hh`, `sma.hh` | RSSI averages; periodic reports to the controller | `EmpowerRXStats`, `SMA` |
| Multicast table, IGMP | `empowermulticasttable.cc`, `empowerigmpmembership.cc` | group membership | `EmpowerMulticastTable` |
| Decapsulation, encapsulation, tee | `empowerwifidecap.cc`, `empowerwifiencap.cc`, `empowertee.cc`, `samples/empower.click` | where one frame goes, from the LVAP and VAP tables | `EmpowerDataPath` |
| Tasks | `src/lib/task.cc`, `src/include/click/task.hh`, `src/lib/routerthread.cc` | scheduling, moving and destroying tasks from any thread | `Task` |
| Queue | `src/elements/standard/fullnotequeue.*`, `src/include/click/notifier.hh`, `src/include/click/standard/storage.hh` | a queue between two threads, with notifiers | `FullNoteQueue`, refining `BoundedFifo` |
| Register monitor | `empowerregmon.cc` | samples of hardware counters | not modelled |
| 802.11k, message layouts | `empower11k.cc`, `empowerpacket.hh` | no state | not modelled |
| The rest of the Click core, other elements, lvnfs, drivers | rest of `src/` | a general router | not modelled |

How they interact: a controller message arrives at `EmpowerLVAPManager::push`
and its handler changes the tables, creates traffic rules in the QoS manager of
an interface, sets policies and may start a CSA. The beacon timer runs the
countdown and at its end calls back into the manager. Frames of a station are
handled by the responders, which change the station's entry and report to the
controller. Packets for a station are stored by the QoS manager under the
tenant's rule, and pulled by the driver.

Frames from the wired side enter the tee, which hands them to the QoS manager of
one or of all interfaces; data frames from the air go to the wired side and to
the tee.

**Atomicity.** The agent's configuration runs on one thread of the user-level
router. A packet pushed through the graph, a timer and a handler each run to
completion; so each is one action of the agent's modules. A message of several
parts (`push` loops over them) is the same as several messages. The locks of the
aggregation queue are held from the first access to the last. `Task` and
`FullNoteQueue` are about code written for several threads: there every access
to a word another thread may write is a step of its own.

## Modules

### EmpowerLVAPManager

| State | Code |
|---|---|
| `lvaps[s]` | `_lvaps`, an `EmpowerStationState` each |
| `vaps[b]` | `_vaps`, an `EmpowerVAPState` each |
| `masks[i]` | the mask written to the hardware register of interface i |
| `rules[i]` | keys of the traffic rules in the QoS manager of i |
| `txp[i]` | stations in the transmission policy table of i |
| `ports` | whether `_ports` is set; no message leaves before |
| `agent` | whether the process is up, and how it died |
| `requests`, `replies` | history: add_lvap and del_lvap messages, and their responses by module id |

Each handler that changes state is an action of the same name; `handle_add_lvap`
and `handle_del_lvap` are split into the cases their early returns make. The
handlers of the other elements are `run_timer` (beacon source), `auth_push`,
`deauth_push`, `disassoc_push`.

Abstractions. A block, the triple (hardware address, channel, band), is a model
value. An Ethernet address is the set of its one bits, so that the masks are
computed as the code computes them, with fewer bits. Each add_lvap and del_lvap
carries a new module id. A handler that returns early without a change is a
stuttering step, except that a request ignored still counts as a request.
Reports to the controller (status, counters, statistics) and frames are
functions of the tables and are left out.

Where the code fails, the model fails: an assertion (`add_lvap` during a CSA
towards another block; a traffic rule for a block of another WTP, which indexes
a `Vector` with -1) leads to `agent = "assert"`, a null pointer
(`handle_auth_response` for a station without LVAP) to `"segv"`. `run_timer`
erases entries of the hash table it iterates over, and reads an entry after its
removal; the pool allocator leaves all but the first word of a freed entry as it
was, so the iteration goes on and the response has the right id. The order of
the iteration is arbitrary: `MasksAfter` is nondeterministic in which entries
were visited before the last removal.

The multicast table is not in this module but in `EmpowerMulticastTable`;
`_mtbl` is null in the sample configuration (`samples/empower.click`).

### EmpowerDataPath

Extends `EmpowerLVAPManager` by the elements that read its tables for each data
frame. `Copies` is what the tee and `EmpowerQOSManager::push` make of a frame: for each
copy the receiver, the transmitter, the interface and the tenant whose queue it
waits in; `encap_group` is what `EmpowerWifiEncap` makes of a group frame (the
sample configuration uses the QoS manager in its place). Its loop visits the
LVAPs in the order of a hash table, so the order is a parameter (`Orders`): the
LVAPs it sends for are those whose key, the station under DMS and the BSSID
otherwise, no LVAP visited before has (`FirstOf`, the vector `sent`). A frame keeps
the LVAP at which it was made, so that two frames of one BSSID are two. The actions `tee_push`
and `decap_push` are data frames from the two sides. A frame changes no table
except when a copy has no queue: `store` falls back to the tenant's default rule
and uses what it finds without a check, and the process ends. A frame whose
copies all have queues is a stuttering step here, and the subject of
`EmpowerQOSManager`.

Abstractions. Whether the multicast policy of an interface for a group is DMS is
an input (`dms`), since the messages that set it touch no other table. A clone of a
frame is always made; one that fails for lack of memory is skipped by the code. The
history `strayed` holds the LVAPs that are on an interface other than the one
whose default rule their last add_lvap made, `dropped` the default rules that
were deleted and not made again.

### EmpowerQOSManager

State: `rules` (each with its queues, inner list, size, deficit and quantum),
`active_list`, `head_table`, the notifier (`sleepiness`, `asleep`), and the
history of arrivals, packets dropped and packets sent. Actions: `store` (called by
`push` for each copy of a packet), `pull`, `set_traffic_rule`,
`del_traffic_rule`. The air time of a packet is chosen anew at each estimate,
since the rate of the station may change between two. `wifi_encap` may fail
(`EncapMayFail`) as it does when the packet pool is exhausted. When it is `uniqueify`
that fails, `pull` takes the rule out of the list although packets may wait, and since `size()` is not 0
`store` never appends it again; the history variable `stranded` holds these
rules, and the properties say that nothing else leaves a rule out. The scheduler
pulls only while the notifier is on (`PrioSched` tests the signal).

`store` for a tenant without a default rule, `pull` of a deleted rule, and a
`wifi_encap` that finds no room for its headers and kills the null packet, all
dereference null and end the process (`agent = "segv"`).

### AggregationQueue and BoundedFifo

The ring buffer with its indices, and the queue it stands for. `ret` is what the
last call returned. The refinement maps the queue to
`Contents`, the `nb_pkts` slots from `head` on.

### EmpowerRXStats and SMA

State: `neighbors` (the tables `stas` and `aps` of `DstInfo`), the trigger
objects `rssi` and `summary` in order of creation, the lists `rssi_triggers` and
`summary_triggers` of those installed, and history. Objects and lists are apart
because an object outlives its place in a list: an RSSI trigger is never
deleted, and `del_summary_trigger` deletes another one than it takes out. `armed`
says that the timer of an object is scheduled, `freed` that it was deleted. Using
a deleted object either ends the process or reads any value; `Verdicts`,
`Dangling` and `Crash` say where.

Actions: `simple_action` (a frame was heard), `run_timer`, `send_img_response`
(the channel quality requests of the controller), the four handlers that add and
remove triggers, the two timer callbacks, and `clear_triggers` (the `reconnect`
handler). An RSSI is converted to `uint8_t` as the code does. Which table a frame
belongs to is an input. A report of more than four neighbours makes the local
vector of `send_img_response` grow, which deletes averages even earlier; the
instances have one neighbour in each table.

`SMA` is the moving average as operators on a record; `MCRings` adds values to it
and compares it with its definition, beside the ring of `AggregationQueue`.

### EmpowerMulticastTable

The vector of groups with their receivers, and the actions `push` (an IGMP
message, as its sequence of records), `AddLvap`, `handle_del_lvap` and
`handle_del_mcast_receiver`. `reported` is what the controller knows; `cut` holds
the stations with a message that a record of unknown kind ended before its
report. A deleted LVAP leaves its groups only if it is shared
(`empowerlvapmanager.cc:1798`); the receivers of an LVAP with its own BSSID stay
until handle_del_mcast_receiver. The log
line of `leavegroup` for a receiver that is not found reads through the end
iterator; while no group ever existed that is a null pointer, and the model
takes the step to `agent = "segv"`. A failing allocation of a report is left out.

### Task

A task has a status word (`home`, `is_scheduled`, `is_strong_unscheduled`) that
any thread may write at any time, a `thread`, and `pending_nextptr` (0 off, 1
being processed, 2 on a pending list). A thread has a scheduled list that only it
touches, a pending list under a lock, and `cpu[h]`, the place in the code where it
is with its local variables. The quiescent thread has the id -1. The operations
are those of `task.hh`; each is cut at every access to shared memory, and
continues where the code does (`reschedule`, `RescheduleLook`,
`CompleteSchedule`, `AskPending`, ...). The driver loop is `ClaimPending`, which
takes over the pending list, and `RunTask`.

A thread in `cleanup` waits for the thread that has the task on a list. Two
threads that destroy tasks of each other wait forever (`Entangled`): neither gets
back to its loop, where it would take the task off. The instance has two tasks
and reaches this; the two liveness properties are stated for everything else.

Assumptions: sequentially consistent memory, which the code's fences ask for; a
router that runs and is not dying; a task is not destroyed by its own code, nor
while another thread is in the middle of a call on it. The order of the
scheduled list is left out.

Two assertions of `add_pending` can fail, and the model then stops with `failed`
naming which; the invariant `failed = "none"` does not hold:

- `task.cc:255`: thread A reads `_pending_nextptr` as 2 under the lock, the task's
  thread, which has claimed its list, sets it to 1 without the lock, and A
  finds 1 although it did not ask for `always`.
- `task.cc:241`: `process_pending` has moved the task to the quiescent thread and
  calls `add_pending(true)`; if its home is a running thread again by then, the
  task is required to be on no list, but its `_pending_nextptr` is still 1.

Both need a move or a reschedule by another thread within a few instructions. The
properties of the run are about the behaviours up to such a step.

### FullNoteQueue

The ring with `_head` and `_tail`, the signals of both notifiers, the scheduled
flags of the two tasks, and where each thread is. `InfiniteSource` pushes in
bursts, `Unqueue` pulls. Of a task only the scheduled flag is kept, as `Task`
justifies. Memory is sequentially consistent; the refinement maps the queue to
the slots from `head` to `tail`.

### The other modules

`Lists` has the operators on sequences that several modules share, defined without
recursion so that the proofs may use them. `MC…` modules give the constants
their values for TLC, and `MCTask` also chooses among the initial states.
`…_proofs` modules hold the theorems, with `Task_lemmas` and `Task_threads`. Operators with a comment that starts with *Mutant* are versions of
the definition below them with a plausible mistake; they are not used by the
specifications, and show that the properties notice the mistake.

## What is checked

| Run | Instance | Properties |
|---|---|---|
| `lvap_one` | 1 station with a BSSID of its own or that of a VAP, 1 tenant or none, 2 interfaces, 2 foreign blocks, 3 requests, countdowns from 0 and 1; every message and frame | `TypeOK`, `CsaInv`, `IfaceMatchesBlock`, `AnsweredOnce`, `SwitchOnlyAfterCountdown`, `PolicyOutlivesOthers`, `CsaTerminates`, `KeptIdAnswered` |
| `data_path` | 2 stations, one sharing the BSSID of a VAP, the other sharing it too or having its own, 1 VAP, 2 tenants, 4 requests, a deletable rule; data frames to each station and to a group, every choice of multicast policies, LVAPs visited in either order | `VapsAcked`, `KeptIdsOpen`, `GroupReachesOnce`, `EncapReachesOnce`, `CopiesQueued` |
| `qos` | 1 tenant, 2 DSCPs, 2 flows, 3 packets, capacity 2, air times 1 and 3, quantum 2; the rule of DSCP 1 is deleted and created again; encapsulation may fail | `NoRuleForgotten`, `InnerListExact`, `PacketsConserved`, `FlowOrderKept`, `DeficitBounded`, `NoLostWakeup`, `PacketsDelivered` |
| `rings` | ring of capacity 4, 2 packets; window of 3, 7 additions of 3 values of both signs | `OnlyQueuedSlotsFilled`, `FifoSpec`, `AverageOfRecent` |
| `rx` | 1 address in both tables, 2 conditions of each kind, 2 triggers in all, 2 ids, limits none and 2, 2 reports, 1 reconnect | `ArmedInstalled`, `OnlyCurrentSession`, `SummaryWithinLimit`, `MatchReported` |
| `mcast` | 2 stations, 3 groups, messages of 2 records of every kind | `TableWellFormed`, `TableAsReported` |
| `task` | 2 threads and the quiescent one; 1 task in any initial state and 3 calls, or 2 tasks, scheduled on one thread each, and 2 calls | `ScheduledIsListed`, `ListsOwned`, `QuiescentIsUnlisted`, `OneRunner`, `DestroyedIsForgotten`, `RescheduledRuns`, `CleanupEnds` |
| `queue` | capacity 2, bursts of 3, 7 packets, sleep after 2 empty pulls | `PullerAwake`, `PusherAwake`, `FifoSpec`, `Drained` |

`TypeOK` of the other modules documents the types of their variables; it is an
invariant of the same instances.

What they say:

- **A switch is orderly.** An LVAP changes its interface only when its countdown
  is over and to the announced target; until then neither messages nor frames
  change its block, BSSID or mask flag. Only an LVAP with its own BSSID and the
  mask set ever switches (`SwitchOnlyAfterCountdown`, `CsaInv`,
  `IfaceMatchesBlock`).
- **Requests are answered once.** The answer may come from the handler or, much
  later, from the timer; in both cases it has the right id and kind, and is the
  only one (`AnsweredOnce`, `KeptIdsOpen`). The requests kept by a countdown are
  answered unless a later one for the same station overtakes them
  (`KeptIdAnswered`): a second del_lvap replaces the id of the first, whose
  sender never hears of it.
- **LVAPs do not disturb others.** VAPs stay acknowledged (`VapsAcked`), and a
  station's policy disappears only with its LVAP there or by del_port
  (`PolicyOutlivesOthers`).
- **Group frames arrive once.** Whatever the policies and whichever BSSIDs are
  shared, a station served gets one copy of a group frame, from its own LVAP or
  from its VAP; none only when the VAP of a shared LVAP is not on its interface
  (`GroupReachesOnce`). The older encapsulation element sends one frame for each
  BSSID, and so one to each station, in whichever order it visits the LVAPs
  (`EncapReachesOnce`), but for the policy it leaves to be implemented.
- **Copies find a queue** unless the LVAP was steered, or updated for another
  block, away from the interface of its rule, or the controller deleted the rule,
  or the LVAP has no tenant; in each of these cases the next frame for it
  ends the process (`CopiesQueued`).
- **The scheduler loses nothing.** Each packet is in one place, flows keep their
  order, no rule with packets is left out of the list, the notifier is on while
  packets wait, deficits stay bounded, and every packet accepted is sent. Packets
  go only with a deleted rule or a failing encapsulation.
- **Timers die with their triggers.** A running timer belongs to a trigger that
  is installed, allocated and of the current controller session, even though the
  wrong trigger may be deleted: the destructor clears the timer
  (`ArmedInstalled`, `OnlyCurrentSession`). A limited summary trigger sends no
  more than its limit (`SummaryWithinLimit`). A condition that holds is reported
  (`MatchReported`).
- **The moving average is exact** in every fill state of its window
  (`AverageOfRecent`).
- **Groups agree with reports.** The vectors hold each group and receiver once,
  and the same memberships as the reports sent (`TableWellFormed`,
  `TableAsReported`).

- **A scheduled task is never lost.** The first three invariants the comment at
  `task.cc:106` lists, made precise about the moments it calls temporary, hold for every
  interleaving of two threads (`ScheduledIsListed`, `QuiescentIsUnlisted`,
  `ListsOwned`; the fourth one only lists the values of `_pending_nextptr`). One
  thread at a time runs a task (`OneRunner`), and a rescheduled task does run
  (`RescheduledRuns`, promised at `task.hh:196`). A destroyed task is on no list and
  in no thread's hands (`DestroyedIsForgotten`). Its destruction ends, unless the
  destroying thread and the one it waits for are caught in destroying each
  other's tasks (`CleanupEnds`); tasks of threads caught so do not run either.
- **No wake-up is lost.** The second look that `push` and `pull` of the queue take
  after going to sleep is enough (`PullerAwake`, `PusherAwake`), the queue is a
  queue without a lock (`FifoSpec`), and all packets go through (`Drained`).

### Where the code and its comments disagree

Each of these is a run that is expected to violate its property.

- `lvap_acked`: "frame addressed to net_bssid must be acked by this WTP"
  (`empowerlvapmanager.hh:138`). Band steering does not recompute the masks. (An
  update of `_set_mask` does not either, `empowerlvapmanager.cc:1600`; the run's
  counterexample is the steering.)
- `qos_active`: "check if tr is in active list" (`empowerqosmanager.cc:215`). The
  test is `size() == 0`, which is also true of a rule just created and of one
  whose only packet is held; such a rule is appended again and gets more than
  one quantum a round.
- `rx_rearm`: "re-schedule the timer" (`empowerrxstats.cc:42`).
  `del_summary_trigger` erases an entry and then deletes what the iterator points
  to, the next trigger; that one stays in the list, freed and without a timer.
- `rx_average`: "Returns the average of the last P elements added to this SMA"
  (`sma.hh:45`). `send_img_response` copies `DstInfo` entries, and the destructors
  of the copies delete the averages of the table.

The models also contain the following, for which no run states a property:

- The two assertions of `add_pending`, and threads that destroy each other's tasks
  (see Task).
- The four ways to a copy without a queue (see `CopiesQueued`), each a null
  pointer in `store`.
- A deauthentication frame resets `_lvap_bssid` (`empowerdeauthresponder.cc:159`);
  the comment at `empowerlvapmanager.hh:141` names only authentication and
  association requests.
- `run_timer` of the receive statistics does not close windows: the call of
  `update` is commented out (`empowerrxstats.cc:106`), whatever `dstinfo.hh:47`
  says. Only a request of the controller does, and an entry heard since the last
  one may be deleted as stale.
- The value of an RSSI trigger, in dBm (`empowerpacket.hh:713`), is compared with
  an average that starts at 0 and whose samples are unsigned.

### Bounds

Named constants bound what is unbounded: `MaxRequests`, `MaxPackets`, and
`MaxActive` (the length of the list up to which rules are still created). Three
requests for one station make add, CSA and an interfering request; four for two
stations make both countdowns end in the same timer run, let one station be
updated or steered while the other comes and goes, and let both share a BSSID.
`Slots` are the places of the LVAP table, one for each station. Three packets with
capacity 2 fill a queue and overflow it, and let one arrive while another is held
and a third waits. Capacity 4 lets head and tail wrap around at every fill level.
Both foreign blocks matter: one shares a channel with ours, so that its removal
is immediate, the other does not.

`MaxTriggers`, `MaxPackets`, `MaxFrames`, `MaxSent`, `MaxWindows` and
`MaxSessions` bound the receive statistics: three summary triggers over two
conditions (`rx_rearm`) let one be deleted before, after and next to another; in
`rx` two triggers, of one kind or of both, make both callbacks race with removal
and reconnect. With one silent window allowed, two reports make an entry stale. Two
records in a message make a join and a leave of the same or of two groups; three
groups let a group be removed between two others.

`MaxCalls` bounds the calls of element code on tasks. Three make a move, a
reschedule during it and a second move or a destruction; each of the mistakes the
mutants make, and both failing assertions, need no more. Two calls with two tasks
are enough for both threads to destroy the other's. A queue of two with bursts of
three overflows; seven packets take both indices of the three slots around twice.

Deadlock is checked only in `rings`: elsewhere the process may die, or the
requests, packets, triggers or calls run out.

### Fairness

`WF(run_timer)`: `EmpowerBeaconSource::run_timer` re-schedules itself on every
path. `WF(pull)`: the driver pulls whenever it can send and the notifier is on.
`WF` of each trigger callback and of `EmpowerRXStats::run_timer`: Click runs a
scheduled timer. `Task`: weak fairness of each thread's steps, that is, a thread
executes what it has begun, and in the rounds of its loop looks at its pending list
and at each of its tasks. Strong fairness is not needed: with the calls bounded, a
lock is not taken, and a list not changed, infinitely often.
`FullNoteQueue`: weak fairness of each thread. No fairness is assumed of the controller or of the stations.

## What is proved

TLAPS proves the theorems below for every value of the constants that satisfies
the assumptions named: any number of stations, rules, flows, packets, threads
and tasks, any capacity and any bound on the number of steps. Every safety
property of the runs is among them except those of the multicast table and of the moving
average. Each theorem of the form `Spec => []P` follows from an inductive
invariant `IInv` of its module (theorem `Invariance`), which the initial states
satisfy and every action keeps, one lemma or step per action.

A leaf of a proof that cites `Zenon` needs no arithmetic and is given to that
prover directly; the others go to the SMT solver first.

### Tables and data path

`EmpowerDataPath_proofs`, for `EmpowerLVAPManager` and `EmpowerDataPath`. The
assumptions `AddressAssumption`, `BlockAssumption`, `MessageAssumption` and
`MarkAssumption` give the constants their types. `GroupAssumption` says that the
group address is no station's, `BssidAssumption` that the BSSID derived for a
station is not that of a VAP, and `SlotAssumption` that the places of the LVAP
table are numbers.

| Theorem | Property |
|---|---|
| `TypeCorrect` | `TypeOK` |
| `SwitchStateConsistent` | `CsaInv` |
| `IfaceFollowsBlock` | `IfaceMatchesBlock` |
| `RequestsAnsweredOnce` | `AnsweredOnce`, `KeptIdsOpen` |
| `VapsAlwaysAcked` | `VapsAcked` |
| `SwitchAfterCountdown` | `SwitchOnlyAfterCountdown` |
| `PoliciesOutlive` | `PolicyOutlivesOthers` |
| `IdsStayOpen` | `KeptIdsOpen`, with the data path |
| `GroupFramesOnce` | `GroupReachesOnce` |
| `EncapFramesOnce` | `EncapReachesOnce` |
| `CopiesFindQueues` | `CopiesQueued` |

`IInv` joins four parts. `LvapInv` says of each LVAP that
it has its type, that interface and block agree and that its CSA fields are
consistent. The parts are needed together: that a steered LVAP stays well typed
needs the target to be one of our blocks, which the timer has just tested; that
an update cannot break an announced switch needs that `csa_active` excludes the
update. `HistoryOK` types the history and says that answers match requests.
`AnsweredOnce` alone is not inductive: the timer answers ids it finds in the
LVAPs, so the proof needs `KeptIdsOpen`, that these are ids of requests for that
very station without an answer. From this follows that no id is kept by two
LVAPs, so a timer run that ends many countdowns answers each once. The masks are
not part of the induction for LVAPs (that fails, see above) but are for VAPs:
each step either recomputes the masks or leaves masks and VAPs alone, and the
lemma `MaskCoversVaps` says that a recomputation covers the VAPs whatever the
LVAPs are.

`PoliciesOutlive` is an action property: each handler is shown to leave the policy
table alone, to add to it, or to remove the one station whose LVAP it removes on
that interface. It rests on the types alone.

`GroupFramesOnce` and `EncapFramesOnce` need of the reachable states only the
types and that a hosted LVAP has an interface: the copies of one interface are
taken apart by their transmitter, which is a VAP's for shared LVAPs and the
station's own otherwise. `EncapFramesOnce` rests on `OneOfEachBssid`: of the LVAPs
with one BSSID exactly the one visited first is not found in `sent`, and there is a
first one because the places are natural numbers (`FirstVisited`). `CopiesFindQueues` has an invariant of its own,
`QueuesInv`: besides `IInv`, every LVAP that was not moved and every VAP has the
default rule of its tenant on its interface, or the rule was deleted. It is the
only place where the two histories of the data path, `strayed` and `dropped`,
are used.

### Scheduler

`EmpowerQOSManager_proofs`. `QosAssumption` types the constants and asks for one
possible air time at least; `MarkAssumption` keeps the marks apart from packets and rules.

| Theorem | Property |
|---|---|
| `NoRuleLeftBehind` | `NoRuleForgotten` |
| `WakeupNeverLost` | `NoLostWakeup` |
| `DeficitsStayBounded` | `DeficitBounded` |
| `InnerListsStayExact` | `InnerListExact` |
| `FlowsStayInOrder` | `FlowOrderKept` |
| `PacketsNeverLost` | `PacketsConserved` |

`IInv` has three parts. `StateInv` is about the queues of a rule: `_size` counts
the occupied places (stated as a bijection, so that no induction over sets is
needed: a packet that comes or goes extends or shrinks it), every flow with
packets is in the inner list once, and a queue is sorted by arrival. `SchedInv`
joins the properties about the active list, the notifier and the deficits;
`NoLostWakeup` needs `NoRuleForgotten`, since `pull` goes to sleep when the list is
empty and only the latter says that nothing waits then. `PlaceInv` follows each
packet: it is accounted for (`Accounted`), in one place at most (`Once`), and what
was sent of a flow is older than what is held, and that older than what is
queued (`Ordered`). The last is what `FlowOrderKept`, which is about packets sent
only, lacks to be inductive. `PlaceInv` is an operator `Placed` of the tables, with one
lemma for each way a packet moves: `TakenSent`, `TakenHeld`, `HeldSent` and so on.

The recursion of `dequeue` stops at the first flow of the inner list that has packets.
The model defines that place by quantifiers (`FirstBacklogged`, a set of one
element), so that the proofs can reason about it.

### Rings

`AggregationQueue_proofs` (`RingAssumption`: the capacity is positive and the mark of a
free slot is no packet) and `FullNoteQueue_proofs` (`QueueAssumption`, the same
and the bounds' types):

| Theorem | Property |
|---|---|
| `RingInvariant` | `OnlyQueuedSlotsFilled`, and the types |
| `AggregationQueue_proofs!ImplementsFifo` | `FifoSpec`: the ring implements `BoundedFifo` |
| `PullerNeverLost` | `PullerAwake` |
| `PusherNeverLost` | `PusherAwake` |
| `FullNoteQueue_proofs!ImplementsFifo` | `FifoSpec`, with a thread at each end |

For the ring of the agent: the slots `At(0)`, …, `At(Capacity - 1)` are all different
(`SlotsDistinct`), so a push fills a free slot and leaves the others, and moving
`head` shifts every `At(k)` by one (`NextSlot`), so a pull removes the first
element of the contents and keeps the order of the rest.

For the queue between threads the invariant says what each thread knows at each
of its steps. `SlotsApart`: the slot being written is free and not the one being
read, and what is published or handed out is what the slot holds; from it the
refinement follows. `EmptyNoteInv` and `FullNoteInv`: a thread that is neither
running nor scheduled was told to sleep or is about to be rescheduled by the other,
and a signal that is off although it should be on has one of the two threads at
the step that repairs it. `PullerAwake` alone is not inductive: it does not say
why the sleeper's second look comes after the signal was turned off.

### Receive statistics

`EmpowerRXStats_proofs`. `RxAssumption` types the constants; the relation of a
trigger is one of the five of `trigger.hh`.

| Theorem | Property |
|---|---|
| `TimersInstalled` | `ArmedInstalled` |
| `TimersOfThisSession` | `OnlyCurrentSession` |
| `ReportsWithinLimit` | `SummaryWithinLimit` |

`IInv` says of every trigger object that its timer runs only while it is in its
list and of the current session, and of a summary trigger also that it is not
freed and has a report left before its limit. The removals are the hard part:
taking an entry out of a list shifts those behind it, and `del_summary_trigger`
deletes another object than it takes out.

### Tasks

`Task_proofs`, on the lemmas of `Task_lemmas` (the invariant, what each kind of
step keeps, `add_pending`) and `Task_threads` (`process_pending` and
`run_tasks`); for any finite set of tasks (`TasksAssumption`, `NoTaskAssumption`) and any
threads numbered from 0 on (`ThreadsAssumption`), so that the quiescent thread is
none of them.

| Theorem | Property |
|---|---|
| `ScheduledTasksListed` | `ScheduledIsListed` |
| `ListedTasksOwned` | `ListsOwned` |
| `QuiescentTasksUnlisted` | `QuiescentIsUnlisted` |
| `TasksRunOnce` | `OneRunner` |
| `DestroyedTasksForgotten` | `DestroyedIsForgotten` |

`IInv` is `StructInv`, about the lists, and `ListedInv`, about tasks not being
forgotten. `StructInv` says who may touch what: a listed task has the thread of
the list (`OwnerInv`, `PendingInv`), `process_pending` has its task to itself
(`ProcessInv`), `add_pending` holds the lock of the task's thread from its check on
(`LockInv`), a task stays on the list while it is visited or fired (`RunInv`, from
which `OneRunner` follows with `OwnerInv`), and a task is destroyed by one thread
while nobody else calls on it (`DestroyInv`, `GoneInv`). `ListedInv` is the
strengthening of `ScheduledIsListed`: a thread that is about to take a task off a list, or
not to list it, having read a status that is not true any more, leaves the
task to the thread that changed the status, which is still in its call (`Deferred`).
A step is then one of a few kinds, and one lemma for each kind says which
parts of the invariant it keeps; an action has to show only its kind and the parts it disturbs.

### Only model-checked

- Liveness under fairness: `CsaTerminates`, `KeptIdAnswered`, `PacketsDelivered`,
  `MatchReported`, `RescheduledRuns`, `CleanupEnds`, `Drained`.
- The multicast table (`TableWellFormed`, `TableAsReported`) and the moving average
  (`AverageOfRecent`): both are about what a loop over a sequence computes, which
  takes an induction over data that the installed provers do not do.

## Not modelled

- Message parsing and layouts, frames and beacons, statistics and the reports made
  of them have no state of their own.
- The messages that set and remove the policy of a group address
  (`handle_incom_mcast_addr_response`, `handle_del_mcast_addr`): they touch only
  the policy, which the data path takes as an input.
- Minstrel's statistics: arithmetic on measured success rates, and a random choice.
- The register monitor reads counters of the driver and subtracts them. The
  duplicate filter is a table of sequence numbers in front of the modelled
  elements: a frame it drops is one the models need not receive.
- 802.11k forwards requests and reports. The lvnfs are not part of the agent.
- `top` of the aggregation queue and `clear` of the QoS manager are never called.
- The rest of Click: the repository holds the whole router, its parser, its
  drivers and several hundred elements the agent does not use, over 400,000 lines
  beside the 11,000 of the agent. Most are functions from packet to packet. Of
  the platform the models contain what the agent and every element depend on,
  tasks, queues and notifiers, and state what they use of the rest.
