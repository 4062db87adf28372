------------------------ MODULE EmpowerRXStats_proofs ------------------------
(***************************************************************************)
(* Proofs about the triggers of EmpowerRXStats, for any number of          *)
(* addresses, interfaces, conditions and sessions: whose timer runs, for   *)
(* which session, and how often a summary is sent.                         *)
(***************************************************************************)
EXTENDS EmpowerRXStats, WellFoundedInduction, TLAPS

-----------------------------------------------------------------------------
(***************************************************************************)
(* Facts about the sequence operators the model uses: the least of a set   *)
(* of numbers, the first place in a sequence that passes a test, and a     *)
(* sequence with one place more or less.                                   *)
(***************************************************************************)

\* A set of natural numbers that is not empty has a least element.
LEMMA LeastFacts ==
  ASSUME NEW S \in SUBSET Nat, S # {}
  PROVE  Least(S) \in S /\ \A y \in S : Least(S) <= y
<1>1. PICK x \in S : \A y \in S : ~ (<<y, x>> \in OpToRel(<, Nat))
  BY Zenon, WFMin, NatLessThanWellFounded
<1>2. ASSUME NEW y \in S PROVE x <= y
  <2>1. <<y, x>> \in Nat \X Nat /\ <<y, x>>[1] = y /\ <<y, x>>[2] = x
    OBVIOUS
  <2>2. ~ (y < x)
    BY <1>1, <2>1 DEF OpToRel
  <2> QED
    BY <2>2
<1> QED
  BY Zenon, <1>2 DEF Least

\* The first place at which a sequence passes a test is a place of it.
LEMMA FirstPlace ==
  ASSUME NEW s, Len(s) \in Nat, NEW I \in SUBSET (1 .. Len(s)), I # {}
  PROVE  /\ Least(I) \in I
         /\ Least(I) \in 1 .. Len(s)
         /\ \A j \in I : Least(I) <= j
<1>1. I \in SUBSET Nat
  OBVIOUS
<1> QED
  BY Zenon, <1>1, LeastFacts

\* A sequence is a function on its places, and such a function a sequence.
LEMMA LenFacts ==
  ASSUME NEW S, NEW s \in Seq(S)
  PROVE  /\ Len(s) \in Nat
         /\ DOMAIN s = 1 .. Len(s)
         /\ s \in [1 .. Len(s) -> S]
         /\ \A i \in 1 .. Len(s) : s[i] \in S
OBVIOUS

LEMMA FunctionIsSeq ==
  ASSUME NEW T, NEW n \in Nat, NEW f \in [1 .. n -> T]
  PROVE  /\ f \in Seq(T)
         /\ Len(f) = n
         /\ DOMAIN f = 1 .. n
OBVIOUS

LEMMA SeqOfMore ==
  ASSUME NEW S, NEW T, S \subseteq T, NEW s \in Seq(S)
  PROVE  s \in Seq(T)
<1>1. Len(s) \in Nat /\ s \in [1 .. Len(s) -> T]
  OBVIOUS
<1> QED
  BY <1>1

LEMMA EmptyFacts ==
  ASSUME NEW S
  PROVE  /\ <<>> \in Seq(S)
         /\ Len(<<>>) = 0
         /\ \A s \in Seq(S) : s = <<>> <=> Len(s) = 0
OBVIOUS

LEMMA AppendFacts ==
  ASSUME NEW S, NEW s \in Seq(S), NEW e \in S
  PROVE  /\ Append(s, e) \in Seq(S)
         /\ Append(s, e) # <<>>
         /\ Len(Append(s, e)) = Len(s) + 1
         /\ \A i \in 1 .. Len(s) : Append(s, e)[i] = s[i]
         /\ Append(s, e)[Len(s) + 1] = e
OBVIOUS

\* RemoveAt closes the gap the removed element leaves.
LEMMA RemoveAtFacts ==
  ASSUME NEW S, NEW s \in Seq(S), NEW k \in 1 .. Len(s)
  PROVE  /\ RemoveAt(s, k) \in Seq(S)
         /\ Len(RemoveAt(s, k)) = Len(s) - 1
         /\ \A i \in 1 .. Len(s) - 1 :
              RemoveAt(s, k)[i] = s[IF i < k THEN i ELSE i + 1]
<1>1. Len(s) - 1 \in Nat /\ RemoveAt(s, k) \in [1 .. Len(s) - 1 -> S]
  BY DEF RemoveAt
<1>2. RemoveAt(s, k) \in Seq(S) /\ Len(RemoveAt(s, k)) = Len(s) - 1
  BY <1>1, FunctionIsSeq
<1> QED
  BY <1>2 DEF RemoveAt

\* What is left are the elements at the other places.
LEMMA ContainsRemoveAt ==
  ASSUME NEW S, NEW s \in Seq(S), NEW k \in 1 .. Len(s), NEW e
  PROVE  Contains(RemoveAt(s, k), e) <=> \E i \in 1 .. Len(s) : i # k /\ s[i] = e
<1> DEFINE r == RemoveAt(s, k)
<1>1. /\ Len(s) \in Nat
      /\ Len(r) = Len(s) - 1
      /\ \A i \in 1 .. Len(s) - 1 : r[i] = s[IF i < k THEN i ELSE i + 1]
  BY RemoveAtFacts, LenFacts
<1> HIDE DEF r
<1>2. ASSUME NEW i \in 1 .. Len(r), r[i] = e
      PROVE  \E j \in 1 .. Len(s) : j # k /\ s[j] = e
  <2> DEFINE j == IF i < k THEN i ELSE i + 1
  <2>1. j \in 1 .. Len(s) /\ j # k /\ s[j] = e
    BY <1>1, <1>2
  <2> QED
    BY <2>1
<1>3. ASSUME NEW j \in 1 .. Len(s), j # k, s[j] = e
      PROVE  \E i \in 1 .. Len(r) : r[i] = e
  <2> DEFINE i == IF j < k THEN j ELSE j - 1
  <2>1. i \in 1 .. Len(r) /\ r[i] = e
    BY <1>1, <1>3
  <2> QED
    BY <2>1
<1> QED
  BY <1>2, <1>3 DEF Contains, r

\* Appending an element adds it and keeps the others.
LEMMA ContainsAppend ==
  ASSUME NEW S, NEW s \in Seq(S), NEW e \in S, NEW x
  PROVE  Contains(Append(s, e), x) <=> Contains(s, x) \/ x = e
<1>1. /\ Len(s) \in Nat
      /\ Len(Append(s, e)) = Len(s) + 1
      /\ \A i \in 1 .. Len(s) : Append(s, e)[i] = s[i]
      /\ Append(s, e)[Len(s) + 1] = e
  BY AppendFacts, LenFacts
<1> QED
  BY <1>1 DEF Contains

-----------------------------------------------------------------------------
(***************************************************************************)
(* The inductive invariant.                                                *)
(***************************************************************************)

RssiObj ==
  [id: Ids, key: RssiKeys, dispatched: BOOLEAN, armed: BOOLEAN, session: Nat]

SummaryObj ==
  [id: Ids, key: SummaryKeys, limit: Limits, sent: Nat, frames: Nat,
   armed: BOOLEAN, freed: BOOLEAN, session: Nat]

\* The part of the invariant about the RSSI triggers: a running timer belongs
\* to a trigger in the list that was made in this session.
RssiInv ==
  /\ rssi \in Seq(RssiObj)
  /\ rssi_triggers \in Seq(1 .. Len(rssi))
  /\ \A o \in 1 .. Len(rssi) :
       rssi[o].armed => Contains(rssi_triggers, o) /\ rssi[o].session = session

\* A summary trigger whose timer runs has, besides, not been deleted, and has
\* a report left to send before it reaches its limit.
SummaryFacts(x, listed) ==
  /\ x.armed => listed /\ ~x.freed /\ x.session = session
  /\ x.limit > 0 => x.sent <= x.limit
  /\ x.limit > 0 /\ x.armed => x.sent < x.limit

SummaryInv ==
  /\ summary \in Seq(SummaryObj)
  /\ summary_triggers \in Seq(1 .. Len(summary))
  /\ \A o \in 1 .. Len(summary) :
       SummaryFacts(summary[o], Contains(summary_triggers, o))

IInv == session \in Nat /\ RssiInv /\ SummaryInv

-----------------------------------------------------------------------------
(***************************************************************************)
(* Facts about the operators.                                              *)
(***************************************************************************)

\* The test of a trigger finds true or false.
LEMMA VerdictsBoolean ==
  ASSUME NEW key \in RssiKeys, NEW n
  PROVE  Verdicts(key, n) \subseteq BOOLEAN
<1> DEFINE avg == A!avg(n.sma)
<1>1. matches(key, avg) \in BOOLEAN
  <2>1. key.rel \in Relations
    BY RxAssumption
  <2> HIDE DEF avg
  <2>2. CASE key.rel = "EQ"
    BY <2>2 DEF matches
  <2>3. CASE key.rel = "GT"
    BY <2>3 DEF matches
  <2>4. CASE key.rel = "LT"
    BY <2>4 DEF matches
  <2>5. CASE key.rel = "GE"
    BY <2>5 DEF matches
  <2>6. CASE key.rel = "LE"
    BY <2>6 DEF matches
  <2> QED
    BY <2>1, <2>2, <2>3, <2>4, <2>5, <2>6 DEF Relations
<1> QED
  BY <1>1 DEF Verdicts

\* The place Found returns, when it is not 0, is a place of the list.
LEMMA FoundPlace ==
  ASSUME SummaryInv, NEW objs, NEW id
  PROVE  Found(objs, id) # 0 => Found(objs, id) \in 1 .. Len(summary_triggers)
<1> DEFINE I == {i \in 1 .. Len(summary_triggers) :
                   objs[summary_triggers[i]].id = id}
<1>1. Found(objs, id) = IF I # {} THEN Least(I) ELSE 0
  BY DEF Found, SelectInSeq
<1>2. Len(summary_triggers) \in Nat
  BY LenFacts DEF SummaryInv
<1>3. I \in SUBSET (1 .. Len(summary_triggers))
  OBVIOUS
<1> HIDE DEF I
<1> QED
  BY <1>1, <1>2, <1>3, FirstPlace

-----------------------------------------------------------------------------
(***************************************************************************)
(* RSSI triggers.                                                          *)
(***************************************************************************)

\* A step that rewrites the objects keeps the invariant if it starts no timer
\* and keeps in the list whatever still has one.
LEMMA RewriteKeepsRssi ==
  ASSUME RssiInv,
         rssi' \in [1 .. Len(rssi) -> RssiObj],
         rssi_triggers' \in Seq(1 .. Len(rssi)),
         \A o \in 1 .. Len(rssi) :
           rssi'[o].armed =>
             /\ rssi[o].armed
             /\ rssi'[o].session = rssi[o].session
             /\ session' = session
             /\ Contains(rssi_triggers, o) => Contains(rssi_triggers', o)
  PROVE  RssiInv'
<1>1. Len(rssi) \in Nat
  BY LenFacts DEF RssiInv
<1>2. rssi' \in Seq(RssiObj) /\ Len(rssi') = Len(rssi)
  BY <1>1, FunctionIsSeq
<1>3. \A o \in 1 .. Len(rssi) :
        rssi'[o].armed => Contains(rssi_triggers', o) /\ rssi'[o].session = session'
  BY DEF RssiInv
<1> QED
  BY <1>2, <1>3 DEF RssiInv

\* A step that leaves the RSSI triggers alone keeps the invariant.
LEMMA SameRssi ==
  ASSUME RssiInv, UNCHANGED <<rssi, rssi_triggers, session>>
  PROVE  RssiInv'
BY DEF RssiInv

\* The condition is made ready again, or a new trigger of this session starts
\* its timer and enters the list.
LEMMA AddKeepsRssi ==
  ASSUME RssiInv, session \in Nat, NEW key \in RssiKeys, NEW id \in Ids,
         add_rssi_trigger(key, id)
  PROVE  RssiInv'
<1> DEFINE same == {o \in Range(rssi_triggers) : rssi[o].key = key}
           new  == [id |-> id, key |-> key, dispatched |-> FALSE, armed |-> TRUE,
                    session |-> session]
<1>1. /\ Len(rssi) \in Nat
      /\ DOMAIN rssi = 1 .. Len(rssi)
      /\ \A o \in 1 .. Len(rssi) : rssi[o] \in RssiObj
  BY LenFacts DEF RssiInv
<1>2. session' = session
  BY DEF add_rssi_trigger
<1>3. CASE same # {}
  <2>1. /\ rssi' = [o \in DOMAIN rssi |->
             IF o \in same THEN [rssi[o] EXCEPT !.dispatched = FALSE] ELSE rssi[o]]
        /\ rssi_triggers' = rssi_triggers
    BY <1>3 DEF add_rssi_trigger
  <2> HIDE DEF same
  <2>2. ASSUME NEW o \in 1 .. Len(rssi)
        PROVE  /\ rssi'[o] \in RssiObj
               /\ rssi'[o].armed = rssi[o].armed
               /\ rssi'[o].session = rssi[o].session
    <3>1. rssi[o] \in RssiObj
      BY <1>1
    <3>2. CASE o \in same
      BY Zenon, <1>1, <2>1, <3>1, <3>2 DEF RssiObj
    <3>3. CASE o \notin same
      BY <1>1, <2>1, <3>1, <3>3
    <3> QED
      BY <3>2, <3>3
  <2>3. rssi' \in [1 .. Len(rssi) -> RssiObj]
    BY <1>1, <2>1, <2>2
  <2> QED
    BY <1>2, <2>1, <2>2, <2>3, RewriteKeepsRssi DEF RssiInv
<1>4. CASE same = {}
  <2>1. rssi' = Append(rssi, new) /\ rssi_triggers' = Append(rssi_triggers, Len(rssi) + 1)
    BY <1>4 DEF add_rssi_trigger
  <2>2. new \in RssiObj /\ new.session = session
    BY DEF RssiObj
  <2> HIDE DEF new
  <2>3. /\ rssi' \in Seq(RssiObj)
        /\ Len(rssi') = Len(rssi) + 1
        /\ \A o \in 1 .. Len(rssi) : rssi'[o] = rssi[o]
        /\ rssi'[Len(rssi) + 1] = new
    BY <2>1, <2>2, AppendFacts DEF RssiInv
  <2>4. rssi_triggers \in Seq(1 .. Len(rssi) + 1) /\ Len(rssi) + 1 \in 1 .. Len(rssi) + 1
    BY <1>1, SeqOfMore DEF RssiInv
  <2>5. rssi_triggers' \in Seq(1 .. Len(rssi'))
    BY <2>1, <2>3, <2>4, AppendFacts
  <2>6. \A o : Contains(rssi_triggers', o) <=>
                 Contains(rssi_triggers, o) \/ o = Len(rssi) + 1
    <3> DEFINE S == 1 .. Len(rssi) + 1
               e == Len(rssi) + 1
    <3>1. rssi_triggers \in Seq(S) /\ e \in S
      BY <2>4
    <3> HIDE DEF S, e
    <3>2. \A o : Contains(Append(rssi_triggers, e), o) <=>
                   Contains(rssi_triggers, o) \/ o = e
      BY <3>1, ContainsAppend
    <3> QED
      BY <2>1, <3>2 DEF e
  <2>7. ASSUME NEW o \in 1 .. Len(rssi'), rssi'[o].armed
        PROVE  Contains(rssi_triggers', o) /\ rssi'[o].session = session'
    <3>1. CASE o = Len(rssi) + 1
      BY <1>2, <2>2, <2>3, <2>6, <3>1
    <3>2. CASE o # Len(rssi) + 1
      <4>1. o \in 1 .. Len(rssi)
        BY <1>1, <2>3, <3>2
      <4> QED
        BY <1>2, <2>3, <2>6, <2>7, <4>1 DEF RssiInv
    <3> QED
      BY <3>1, <3>2
  <2> QED
    BY <2>3, <2>5, <2>7 DEF RssiInv
<1> QED
  BY <1>3, <1>4

\* The trigger that leaves the list loses its timer; the others stay in it.
LEMMA DelKeepsRssi ==
  ASSUME RssiInv, NEW id \in Ids, del_rssi_trigger(id)
  PROVE  RssiInv'
<1> DEFINE I == {i \in 1 .. Len(rssi_triggers) : rssi[rssi_triggers[i]].id = id}
           k == SelectInSeq(rssi_triggers, LAMBDA o : rssi[o].id = id)
           x == rssi_triggers[k]
<1>1. k = IF I # {} THEN Least(I) ELSE 0
  BY DEF SelectInSeq
<1>2. /\ Len(rssi) \in Nat
      /\ DOMAIN rssi = 1 .. Len(rssi)
      /\ rssi \in [1 .. Len(rssi) -> RssiObj]
      /\ Len(rssi_triggers) \in Nat
      /\ \A i \in 1 .. Len(rssi_triggers) : rssi_triggers[i] \in 1 .. Len(rssi)
  BY LenFacts DEF RssiInv
<1>3. /\ k # 0
      /\ rssi' = [rssi EXCEPT ![x].armed = FALSE]
      /\ rssi_triggers' = RemoveAt(rssi_triggers, k)
      /\ session' = session
  BY DEF del_rssi_trigger
<1>4. I \in SUBSET (1 .. Len(rssi_triggers))
  OBVIOUS
<1> HIDE DEF I, k
<1>5. k \in 1 .. Len(rssi_triggers)
  BY <1>1, <1>2, <1>3, <1>4, FirstPlace
<1>6. x \in 1 .. Len(rssi)
  BY <1>2, <1>5
<1>7. [rssi[x] EXCEPT !.armed = FALSE] \in RssiObj
      /\ ~[rssi[x] EXCEPT !.armed = FALSE].armed
  BY Zenon, <1>2, <1>6 DEF RssiObj
<1>8. rssi' \in [1 .. Len(rssi) -> RssiObj]
      /\ ~rssi'[x].armed
      /\ \A o \in 1 .. Len(rssi) : o # x => rssi'[o] = rssi[o]
  BY <1>2, <1>3, <1>6, <1>7
<1>9. rssi_triggers' \in Seq(1 .. Len(rssi))
  BY <1>3, <1>5, RemoveAtFacts DEF RssiInv
<1>10. ASSUME NEW o \in 1 .. Len(rssi), o # x, Contains(rssi_triggers, o)
       PROVE  Contains(rssi_triggers', o)
  <2>1. PICK i \in 1 .. Len(rssi_triggers) : rssi_triggers[i] = o
    BY <1>10 DEF Contains
  <2>2. i # k
    BY <1>10, <2>1
  <2> QED
    BY <1>3, <1>5, <2>1, <2>2, ContainsRemoveAt DEF RssiInv
<1> QED
  BY <1>3, <1>8, <1>9, <1>10, RewriteKeepsRssi

\* A callback only writes whether the trigger reported.
LEMMA CallbackKeepsRssi ==
  ASSUME RssiInv, NEW o \in DOMAIN rssi, send_rssi_trigger_callback(o)
  PROVE  RssiInv'
<1>1. /\ DOMAIN rssi = 1 .. Len(rssi)
      /\ rssi \in [1 .. Len(rssi) -> RssiObj]
  BY LenFacts DEF RssiInv
<1>2. UNCHANGED <<rssi_triggers, session>>
  BY DEF send_rssi_trigger_callback, Crash
<1>3. CASE rssi' = rssi
  BY <1>2, <1>3, SameRssi
<1>4. ASSUME NEW m \in BOOLEAN, rssi' = [rssi EXCEPT ![o].dispatched = m]
      PROVE  RssiInv'
  <2>1. rssi[o] \in RssiObj
    BY <1>1
  <2>2. /\ [rssi[o] EXCEPT !.dispatched = m] \in RssiObj
        /\ [rssi[o] EXCEPT !.dispatched = m].armed = rssi[o].armed
        /\ [rssi[o] EXCEPT !.dispatched = m].session = rssi[o].session
    BY <2>1 DEF RssiObj
  <2>3. /\ rssi' \in [1 .. Len(rssi) -> RssiObj]
        /\ \A q \in 1 .. Len(rssi) : /\ rssi'[q].armed = rssi[q].armed
                                     /\ rssi'[q].session = rssi[q].session
    BY <1>1, <1>4, <2>2
  <2> QED
    BY <1>2, <2>3, RewriteKeepsRssi DEF RssiInv
<1>5. \/ rssi' = rssi
      \/ \E m \in Verdicts(rssi[o].key, neighbors["stas"][rssi[o].key.eth]) :
           rssi' = [rssi EXCEPT ![o].dispatched = m]
  BY DEF send_rssi_trigger_callback, Crash
<1>6. rssi[o].key \in RssiKeys
  BY <1>1 DEF RssiObj
<1> QED
  BY <1>3, <1>4, <1>5, <1>6, VerdictsBoolean

\* A new session stops the timers of all triggers in the list, and so all.
LEMMA ClearKeepsRssi ==
  ASSUME RssiInv, clear_triggers
  PROVE  RssiInv'
<1>1. CASE Crash
  BY <1>1, SameRssi DEF Crash
<1>2. CASE /\ rssi' = [o \in DOMAIN rssi |->
                  IF Contains(rssi_triggers, o)
                  THEN [rssi[o] EXCEPT !.armed = FALSE] ELSE rssi[o]]
           /\ rssi_triggers' = <<>>
  <2>1. /\ DOMAIN rssi = 1 .. Len(rssi)
        /\ rssi \in [1 .. Len(rssi) -> RssiObj]
    BY LenFacts DEF RssiInv
  <2>2. ASSUME NEW o \in 1 .. Len(rssi)
        PROVE  rssi'[o] \in RssiObj /\ ~rssi'[o].armed
    <3>1. rssi[o] \in RssiObj
      BY <2>1
    <3>2. CASE Contains(rssi_triggers, o)
      BY Zenon, <1>2, <2>1, <3>1, <3>2 DEF RssiObj
    <3>3. CASE ~Contains(rssi_triggers, o)
      BY <1>2, <2>1, <3>1, <3>3 DEF RssiInv
    <3> QED
      BY <3>2, <3>3
  <2>3. rssi' \in [1 .. Len(rssi) -> RssiObj]
    BY <1>2, <2>1, <2>2
  <2>4. rssi_triggers' \in Seq(1 .. Len(rssi))
    BY <1>2, EmptyFacts
  <2> QED
    BY <2>2, <2>3, <2>4, RewriteKeepsRssi
<1> QED
  BY <1>1, <1>2 DEF clear_triggers

-----------------------------------------------------------------------------
(***************************************************************************)
(* Summary triggers.                                                       *)
(***************************************************************************)

\* A step that rewrites the objects keeps the invariant if each of them still
\* satisfies it with the new list.
LEMMA RewriteKeepsSummary ==
  ASSUME SummaryInv, session' = session,
         summary' \in [1 .. Len(summary) -> SummaryObj],
         summary_triggers' \in Seq(1 .. Len(summary)),
         \A o \in 1 .. Len(summary) :
           SummaryFacts(summary'[o], Contains(summary_triggers', o))
  PROVE  SummaryInv'
<1>1. Len(summary) \in Nat
  BY LenFacts DEF SummaryInv
<1>2. summary' \in Seq(SummaryObj) /\ Len(summary') = Len(summary)
  BY <1>1, FunctionIsSeq
<1> QED
  BY <1>2 DEF SummaryInv, SummaryFacts

\* A step that leaves the summary triggers alone keeps the invariant.
LEMMA SameSummary ==
  ASSUME SummaryInv, UNCHANGED <<summary, summary_triggers, session>>
  PROVE  SummaryInv'
BY DEF SummaryInv, SummaryFacts

\* Capturing a frame changes no timer and no count of reports.
LEMMA CaptureKeepsSummary ==
  ASSUME SummaryInv, NEW t \in Tables, NEW ta \in Addrs, NEW iface \in Ifaces,
         NEW r \in Rssis, simple_action(t, ta, iface, r)
  PROVE  SummaryInv'
<1>1. CASE Crash
  BY <1>1, SameSummary DEF Crash
<1>2. CASE /\ summary' = [o \in DOMAIN summary |->
                  IF Captures(o, ta, iface)
                  THEN [summary[o] EXCEPT !.frames = @ + 1] ELSE summary[o]]
           /\ UNCHANGED <<summary_triggers, session>>
  <2>1. /\ DOMAIN summary = 1 .. Len(summary)
        /\ summary \in [1 .. Len(summary) -> SummaryObj]
    BY LenFacts DEF SummaryInv
  <2>2. ASSUME NEW o \in 1 .. Len(summary)
        PROVE  /\ summary'[o] \in SummaryObj
               /\ SummaryFacts(summary'[o], Contains(summary_triggers', o))
    <3>1. summary[o] \in SummaryObj
          /\ SummaryFacts(summary[o], Contains(summary_triggers, o))
      BY <2>1 DEF SummaryInv
    <3>2. CASE Captures(o, ta, iface)
      <4>1. summary'[o] = [summary[o] EXCEPT !.frames = @ + 1]
        BY <1>2, <2>1, <3>2
      <4>2. summary'[o] \in SummaryObj
        BY <3>1, <4>1 DEF SummaryObj
      <4>3. /\ summary'[o].armed = summary[o].armed
            /\ summary'[o].freed = summary[o].freed
            /\ summary'[o].session = summary[o].session
            /\ summary'[o].limit = summary[o].limit
            /\ summary'[o].sent = summary[o].sent
        BY <3>1, <4>1 DEF SummaryObj
      <4> QED
        BY <1>2, <3>1, <4>2, <4>3 DEF SummaryFacts
    <3>3. CASE ~Captures(o, ta, iface)
      BY <1>2, <2>1, <3>1, <3>3
    <3> QED
      BY <3>2, <3>3
  <2>3. summary' \in [1 .. Len(summary) -> SummaryObj]
    BY <1>2, <2>1, <2>2
  <2> QED
    BY Zenon, <1>2, <2>2, <2>3, RewriteKeepsSummary DEF SummaryInv
<1> QED
  BY <1>1, <1>2 DEF simple_action

\* A new trigger of this session starts its timer and enters the list, with
\* no report sent.
LEMMA AddKeepsSummary ==
  ASSUME SummaryInv, session \in Nat, NEW key \in SummaryKeys, NEW id \in Ids,
         NEW limit \in Limits, add_summary_trigger(key, id, limit)
  PROVE  SummaryInv'
<1> DEFINE new == [id |-> id, key |-> key, limit |-> limit, sent |-> 0,
                   frames |-> 0, armed |-> TRUE, freed |-> FALSE,
                   session |-> session]
           n   == Len(summary)
<1>1. CASE UNCHANGED <<summary, summary_triggers, session>>
  BY <1>1, SameSummary
<1>2. CASE /\ summary' = Append(summary, new)
           /\ summary_triggers' = Append(summary_triggers, n + 1)
           /\ session' = session
  <2>1. n \in Nat /\ limit \in Nat
    BY LenFacts, RxAssumption DEF SummaryInv
  <2>2. new \in SummaryObj /\ SummaryFacts(new, TRUE)
    BY <2>1 DEF SummaryObj, SummaryFacts
  <2> HIDE DEF new
  <2>3. /\ summary' \in Seq(SummaryObj)
        /\ Len(summary') = n + 1
        /\ \A o \in 1 .. n : summary'[o] = summary[o]
        /\ summary'[n + 1] = new
    BY <1>2, <2>2, AppendFacts DEF SummaryInv
  <2>4. summary_triggers \in Seq(1 .. n + 1) /\ n + 1 \in 1 .. n + 1
    BY <2>1, SeqOfMore DEF SummaryInv
  <2>5. summary_triggers' \in Seq(1 .. Len(summary'))
    BY <1>2, <2>3, <2>4, AppendFacts
  <2>6. \A o : Contains(summary_triggers', o) <=>
                 Contains(summary_triggers, o) \/ o = n + 1
    BY <1>2, <2>4, ContainsAppend
  <2>7. ASSUME NEW o \in 1 .. Len(summary')
        PROVE  SummaryFacts(summary'[o], Contains(summary_triggers', o))
    <3>1. CASE o = n + 1
      BY <2>2, <2>3, <2>6, <3>1 DEF SummaryFacts
    <3>2. CASE o # n + 1
      <4>1. o \in 1 .. n
        BY <2>1, <2>3, <3>2
      <4> QED
        BY <2>3, <2>6, <4>1 DEF SummaryInv, SummaryFacts
    <3> QED
      BY <3>1, <3>2
  <2> QED
    BY <1>2, <2>3, <2>5, <2>7 DEF SummaryInv, SummaryFacts
<1> QED
  BY <1>1, <1>2 DEF add_summary_trigger, Crash, vars

\* del_summary_trigger on objects whose invariant may be about to break for
\* the trigger it finds: that one loses its timer and leaves the list, the one
\* *qi denotes then is deleted, and all others are left alone.
LEMMA EraseKeepsSummary ==
  ASSUME SummaryInv, session' = session,
         NEW objs \in [1 .. Len(summary) -> SummaryObj],
         \A o \in 1 .. Len(summary) :
           SummaryFacts(objs[o], Contains(summary_triggers, o)),
         NEW k, k # 0 => k \in 1 .. Len(summary_triggers),
         EraseAndDelete(objs, k)
  PROVE  SummaryInv'
<1> DEFINE n == Len(summary)
           x == summary_triggers[k]
           y == AfterErase(k)
           disarmed == [objs EXCEPT ![x].armed = FALSE]
<1>1. /\ Len(summary_triggers) \in Nat
      /\ \A i \in 1 .. Len(summary_triggers) : summary_triggers[i] \in 1 .. n
  BY LenFacts DEF SummaryInv
<1>2. CASE k = 0
  <2>1. summary' = objs /\ summary_triggers' = summary_triggers
    BY <1>2 DEF EraseAndDelete
  <2> QED
    BY Zenon, <2>1, RewriteKeepsSummary DEF SummaryInv
<1>3. CASE k # 0
  <2>1. k \in 1 .. Len(summary_triggers)
    BY <1>3
  <2>2. x \in 1 .. n /\ y \in 1 .. n
    BY <1>1, <2>1 DEF AfterErase
  <2>3. /\ summary' = Deleted(disarmed, y)
        /\ summary_triggers' = RemoveAt(summary_triggers, k)
    BY <1>3 DEF EraseAndDelete
  <2>4. /\ disarmed \in [1 .. n -> SummaryObj]
        /\ \A o \in 1 .. n :
             /\ o # x => disarmed[o] = objs[o]
             /\ ~disarmed[x].armed
             /\ disarmed[o].limit = objs[o].limit
             /\ disarmed[o].sent = objs[o].sent
    <3>1. objs[x] \in SummaryObj
      BY <2>2
    <3>2. /\ [objs[x] EXCEPT !.armed = FALSE] \in SummaryObj
          /\ ~[objs[x] EXCEPT !.armed = FALSE].armed
          /\ [objs[x] EXCEPT !.armed = FALSE].limit = objs[x].limit
          /\ [objs[x] EXCEPT !.armed = FALSE].sent = objs[x].sent
      BY Zenon, <3>1 DEF SummaryObj
    <3> QED
      BY <2>2, <3>2
  <2> HIDE DEF n, x, y, disarmed
  <2>5. /\ summary' \in [1 .. n -> SummaryObj]
        /\ \A o \in 1 .. n :
             /\ o # y => summary'[o] = disarmed[o]
             /\ ~summary'[y].armed
             /\ summary'[o].limit = disarmed[o].limit
             /\ summary'[o].sent = disarmed[o].sent
    <3> DEFINE d == [disarmed[y] EXCEPT !.freed = TRUE, !.armed = FALSE, !.frames = 0]
    <3>1. disarmed[y] \in SummaryObj
      BY <2>2, <2>4
    <3>2. /\ d \in SummaryObj
          /\ ~d.armed
          /\ d.limit = disarmed[y].limit
          /\ d.sent = disarmed[y].sent
      BY Zenon, <3>1 DEF SummaryObj
    <3>3. summary' = [disarmed EXCEPT ![y] = d]
      BY Zenon, <2>2, <2>3, <2>4, <3>1 DEF Deleted, SummaryObj
    <3> HIDE DEF d
    <3> QED
      BY <2>2, <2>4, <3>2, <3>3
  <2>6. summary_triggers' \in Seq(1 .. n)
    BY <2>1, <2>3, RemoveAtFacts DEF SummaryInv, n
  <2>7. ASSUME NEW o \in 1 .. n, o # x, Contains(summary_triggers, o)
        PROVE  Contains(summary_triggers', o)
    <3>1. PICK i \in 1 .. Len(summary_triggers) : summary_triggers[i] = o
      BY <2>7 DEF Contains
    <3>2. i # k
      BY <2>7, <3>1 DEF x
    <3> QED
      BY <2>1, <2>3, <3>1, <3>2, ContainsRemoveAt DEF SummaryInv
  <2>8. ASSUME NEW o \in 1 .. n
        PROVE  SummaryFacts(summary'[o], Contains(summary_triggers', o))
    <3>1. SummaryFacts(objs[o], Contains(summary_triggers, o))
      BY DEF n
    <3>2. CASE o = x \/ o = y
      <4>1. ~summary'[o].armed
        BY <2>2, <2>4, <2>5, <3>2
      <4>2. summary'[o].limit = objs[o].limit /\ summary'[o].sent = objs[o].sent
        BY <2>4, <2>5
      <4> QED
        BY <3>1, <4>1, <4>2 DEF SummaryFacts
    <3>3. CASE o # x /\ o # y
      <4>1. summary'[o] = objs[o]
        BY <2>4, <2>5, <3>3
      <4> QED
        BY <2>7, <3>1, <3>3, <4>1 DEF SummaryFacts
    <3> QED
      BY <3>2, <3>3
  <2> QED
    BY <2>5, <2>6, <2>8, RewriteKeepsSummary DEF n
<1> QED
  BY <1>2, <1>3

\* The controller deletes a trigger.
LEMMA DelKeepsSummary ==
  ASSUME SummaryInv, NEW id \in Ids, del_summary_trigger(id)
  PROVE  SummaryInv'
<1>1. CASE Crash
  BY <1>1, SameSummary DEF Crash
<1>2. CASE EraseAndDelete(summary, Found(summary, id)) /\ session' = session
  <2>1. summary \in [1 .. Len(summary) -> SummaryObj]
    BY LenFacts DEF SummaryInv
  <2>2. Found(summary, id) # 0 => Found(summary, id) \in 1 .. Len(summary_triggers)
    BY FoundPlace
  <2> QED
    BY <1>2, <2>1, <2>2, EraseKeepsSummary DEF SummaryInv
<1> QED
  BY <1>1, <1>2 DEF del_summary_trigger

\* A timer that runs has a report left; the one it sends is the last or leaves
\* another one, and the last takes the timer with it.
LEMMA CallbackKeepsSummary ==
  ASSUME SummaryInv, NEW o \in DOMAIN summary, send_summary_trigger_callback(o)
  PROVE  SummaryInv'
<1> DEFINE n == Len(summary)
           r == [summary[o] EXCEPT !.frames = 0, !.sent = @ + 1]
           q == [r EXCEPT !.armed = FALSE]
           objs == send_summary_trigger(o)
           last == objs[o].limit > 0 /\ objs[o].sent >= objs[o].limit
<1>1. /\ DOMAIN summary = 1 .. n
      /\ summary \in [1 .. n -> SummaryObj]
  BY LenFacts DEF SummaryInv
<1>2. o \in 1 .. n /\ summary[o] \in SummaryObj /\ summary[o].armed
  BY <1>1 DEF send_summary_trigger_callback
<1>3. /\ r \in SummaryObj
      /\ r.armed
      /\ r.freed = summary[o].freed
      /\ r.session = summary[o].session
      /\ r.limit = summary[o].limit
      /\ r.sent = summary[o].sent + 1
      /\ q \in SummaryObj
      /\ ~q.armed
      /\ q.limit = summary[o].limit
      /\ q.sent = summary[o].sent + 1
  <2>1. r \in SummaryObj
    <3> DEFINE z == [summary[o] EXCEPT !.frames = 0]
    <3>1. z \in SummaryObj
      BY <1>2 DEF SummaryObj
    <3>2. r = [z EXCEPT !.sent = @ + 1]
      BY <1>2 DEF SummaryObj
    <3> HIDE DEF z, r
    <3> QED
      BY <3>1, <3>2 DEF SummaryObj
  <2>2. /\ r.armed
        /\ r.freed = summary[o].freed
        /\ r.session = summary[o].session
        /\ r.limit = summary[o].limit
        /\ r.sent = summary[o].sent + 1
    BY <1>2 DEF SummaryObj
  <2> HIDE DEF r
  <2>3. q \in SummaryObj /\ ~q.armed /\ q.limit = r.limit /\ q.sent = r.sent
    BY Zenon, <2>1 DEF SummaryObj
  <2> HIDE DEF q
  <2> QED
    BY <2>1, <2>2, <2>3
<1>4. /\ summary[o].limit \in Nat
      /\ summary[o].sent \in Nat
      /\ SummaryFacts(summary[o], Contains(summary_triggers, o))
  BY Zenon, <1>2, RxAssumption DEF SummaryInv, SummaryObj
<1>5. objs = [summary EXCEPT ![o] = r]
  BY Zenon, <1>1, <1>2 DEF send_summary_trigger, SummaryObj
<1>6. objs \in [1 .. n -> SummaryObj] /\ objs[o] = r
  BY <1>1, <1>2, <1>3, <1>5
<1>7. [objs EXCEPT ![o].armed = FALSE] = [summary EXCEPT ![o] = q]
  BY Zenon, <1>1, <1>2, <1>5, <1>6
<1>8. CASE Crash
  BY <1>8, SameSummary DEF Crash
<1>9. CASE ~last /\ summary' = objs /\ UNCHANGED <<summary_triggers, session>>
  <2> HIDE DEF r, q
  <2>1. SummaryFacts(r, Contains(summary_triggers, o))
    <3>1. r.limit > 0 => r.sent < r.limit
      BY <1>3, <1>4, <1>6, <1>9
    <3> QED
      BY <1>2, <1>3, <1>4, <3>1 DEF SummaryFacts
  <2>2. ASSUME NEW p \in 1 .. n
        PROVE  SummaryFacts(summary'[p], Contains(summary_triggers', p))
    <3>1. CASE p = o
      BY <1>6, <1>9, <2>1, <3>1
    <3>2. CASE p # o
      BY <1>1, <1>5, <1>9, <3>2 DEF SummaryInv
    <3> QED
      BY <3>1, <3>2
  <2> QED
    BY <1>6, <1>9, <2>2, RewriteKeepsSummary DEF SummaryInv
<1>10. CASE /\ EraseAndDelete([objs EXCEPT ![o].armed = FALSE],
                              Found(objs, summary[o].id))
            /\ session' = session
  <2> DEFINE objs2 == [summary EXCEPT ![o] = q]
             k == Found(objs, summary[o].id)
  <2> HIDE DEF r, q, objs
  <2>1. objs2 \in [1 .. n -> SummaryObj]
    BY <1>1, <1>2, <1>3
  <2>2. ASSUME NEW p \in 1 .. n
        PROVE  SummaryFacts(objs2[p], Contains(summary_triggers, p))
    <3>1. CASE p = o
      <4>1. objs2[p] = q
        BY <1>1, <1>2, <3>1
      <4>2. q.limit > 0 => q.sent <= q.limit
        BY <1>2, <1>3, <1>4 DEF SummaryFacts
      <4> QED
        BY <1>3, <4>1, <4>2 DEF SummaryFacts
    <3>2. CASE p # o
      BY <1>1, <3>2 DEF SummaryInv
    <3> QED
      BY <3>1, <3>2
  <2>3. k # 0 => k \in 1 .. Len(summary_triggers)
    BY FoundPlace
  <2>4. EraseAndDelete(objs2, k) /\ session' = session
    BY <1>7, <1>10
  <2> HIDE DEF objs2, k
  <2> QED
    BY <2>1, <2>2, <2>3, <2>4, EraseKeepsSummary
<1> QED
  BY <1>8, <1>9, <1>10 DEF send_summary_trigger_callback

\* A new session deletes all triggers in the list, and so stops all timers.
LEMMA ClearKeepsSummary ==
  ASSUME SummaryInv, session \in Nat, clear_triggers
  PROVE  SummaryInv'
<1>1. CASE Crash
  BY <1>1, SameSummary DEF Crash
<1>2. CASE /\ summary' = [o \in DOMAIN summary |->
                  IF Contains(summary_triggers, o) THEN Deleted(summary, o)[o]
                                                   ELSE summary[o]]
           /\ summary_triggers' = <<>>
  <2> DEFINE n == Len(summary)
  <2>1. /\ DOMAIN summary = 1 .. n
        /\ summary \in [1 .. n -> SummaryObj]
        /\ n \in Nat
    BY LenFacts DEF SummaryInv
  <2>2. ASSUME NEW o \in 1 .. n
        PROVE  /\ summary'[o] \in SummaryObj
               /\ ~summary'[o].armed
               /\ summary'[o].limit = summary[o].limit
               /\ summary'[o].sent = summary[o].sent
    <3> DEFINE d == [summary[o] EXCEPT !.freed = TRUE, !.armed = FALSE, !.frames = 0]
    <3>1. summary[o] \in SummaryObj
      BY <2>1
    <3>2. CASE Contains(summary_triggers, o)
      <4>1. Deleted(summary, o)[o] = d
        BY <2>1, <3>1 DEF Deleted, SummaryObj
      <4>2. summary'[o] = d
        BY <1>2, <2>1, <3>2, <4>1
      <4>3. d \in SummaryObj
        BY Zenon, <3>1 DEF SummaryObj
      <4>4. ~d.armed /\ d.limit = summary[o].limit /\ d.sent = summary[o].sent
        BY <3>1 DEF SummaryObj
      <4> HIDE DEF d
      <4> QED
        BY <4>2, <4>3, <4>4
    <3>3. CASE ~Contains(summary_triggers, o)
      <4>1. summary'[o] = summary[o]
        BY <1>2, <2>1, <3>3
      <4>2. ~summary[o].armed
        BY <3>3 DEF SummaryInv, SummaryFacts
      <4> QED
        BY <3>1, <4>1, <4>2
    <3> QED
      BY <3>2, <3>3
  <2>3. summary' \in [1 .. n -> SummaryObj]
    BY <1>2, <2>1, <2>2
  <2>4. summary' \in Seq(SummaryObj) /\ Len(summary') = n
    BY <2>1, <2>3, FunctionIsSeq
  <2>5. summary_triggers' \in Seq(1 .. n)
    BY <1>2, EmptyFacts
  <2> QED
    BY SMTT(30), <2>2, <2>4, <2>5 DEF SummaryInv, SummaryFacts
<1> QED
  BY <1>1, <1>2 DEF clear_triggers

-----------------------------------------------------------------------------
(***************************************************************************)
(* The invariant and the properties it implies.                            *)
(***************************************************************************)

LEMMA InitEstablishesInv == Init => IInv
<1> SUFFICES ASSUME Init PROVE IInv
  OBVIOUS
<1>1. Len(rssi) = 0 /\ Len(summary) = 0
  BY EmptyFacts DEF Init
<1>2. rssi \in Seq(RssiObj) /\ rssi_triggers \in Seq(1 .. Len(rssi))
  BY EmptyFacts DEF Init
<1>3. summary \in Seq(SummaryObj) /\ summary_triggers \in Seq(1 .. Len(summary))
  BY EmptyFacts DEF Init
<1>4. RssiInv
  BY <1>1, <1>2 DEF RssiInv
<1>5. SummaryInv
  BY <1>1, <1>3 DEF SummaryInv
<1> QED
  BY <1>4, <1>5 DEF IInv, Init

\* Frames, timers, channel quality reports and messages keep the invariant.
LEMMA StepKeepsInv == IInv /\ [Next]_vars => IInv'
<1> SUFFICES ASSUME IInv, [Next]_vars PROVE IInv'
  OBVIOUS
<1> USE DEF IInv
<1>1. CASE UNCHANGED <<rssi, rssi_triggers, summary, summary_triggers, session>>
  BY <1>1, SameRssi, SameSummary
<1>2. ASSUME NEW t \in Tables, NEW ta \in Addrs, NEW iface \in Ifaces,
             NEW r \in Rssis, simple_action(t, ta, iface, r)
      PROVE  IInv'
  <2>1. UNCHANGED <<rssi, rssi_triggers, session>>
    BY <1>2 DEF simple_action, Crash
  <2> QED
    BY <1>2, <2>1, SameRssi, CaptureKeepsSummary
<1>3. CASE run_timer
  BY <1>1, <1>3 DEF run_timer, Crash
<1>4. ASSUME NEW t \in Tables, NEW iface \in Ifaces, send_img_response(t, iface)
      PROVE  IInv'
  BY <1>1, <1>4 DEF send_img_response, Crash
<1>5. ASSUME NEW key \in RssiKeys, NEW id \in Ids, add_rssi_trigger(key, id)
      PROVE  IInv'
  <2>1. UNCHANGED <<summary, summary_triggers, session>>
    BY <1>5 DEF add_rssi_trigger
  <2> QED
    BY <1>5, <2>1, AddKeepsRssi, SameSummary
<1>6. ASSUME NEW id \in Ids, del_rssi_trigger(id)
      PROVE  IInv'
  <2>1. UNCHANGED <<summary, summary_triggers, session>>
    BY <1>6 DEF del_rssi_trigger
  <2> QED
    BY <1>6, <2>1, DelKeepsRssi, SameSummary
<1>7. ASSUME NEW o \in DOMAIN rssi, send_rssi_trigger_callback(o)
      PROVE  IInv'
  <2>1. UNCHANGED <<summary, summary_triggers, session>>
    BY <1>7 DEF send_rssi_trigger_callback, Crash
  <2> QED
    BY <1>7, <2>1, CallbackKeepsRssi, SameSummary
<1>8. ASSUME NEW key \in SummaryKeys, NEW id \in Ids, NEW limit \in Limits,
             add_summary_trigger(key, id, limit)
      PROVE  IInv'
  <2>1. UNCHANGED <<rssi, rssi_triggers, session>>
    BY <1>8 DEF add_summary_trigger, Crash, vars
  <2> QED
    BY <1>8, <2>1, SameRssi, AddKeepsSummary
<1>9. ASSUME NEW id \in Ids, del_summary_trigger(id)
      PROVE  IInv'
  <2>1. UNCHANGED <<rssi, rssi_triggers, session>>
    BY <1>9 DEF del_summary_trigger, Crash
  <2> QED
    BY <1>9, <2>1, SameRssi, DelKeepsSummary
<1>10. ASSUME NEW o \in DOMAIN summary, send_summary_trigger_callback(o)
       PROVE  IInv'
  <2>1. UNCHANGED <<rssi, rssi_triggers, session>>
    BY <1>10 DEF send_summary_trigger_callback, Crash
  <2> QED
    BY <1>10, <2>1, SameRssi, CallbackKeepsSummary
<1>11. CASE clear_triggers
  <2>1. session' \in Nat
    BY <1>11 DEF clear_triggers, Crash
  <2> QED
    BY <1>11, <2>1, ClearKeepsRssi, ClearKeepsSummary
<1>12. CASE UNCHANGED vars
  BY <1>1, <1>12 DEF vars
<1> QED
  BY <1>2, <1>3, <1>4, <1>5, <1>6, <1>7, <1>8, <1>9, <1>10, <1>11, <1>12
     DEF Next, RssiTimers, SummaryTimers

\* The lists, the timers, the sessions and the counts of reports fit together
\* in every reachable state.
THEOREM Invariance == Spec => []IInv
BY InitEstablishesInv, StepKeepsInv, PTL DEF Spec

\* A running timer belongs to a trigger that is installed and not deleted,
\* although del_summary_trigger deletes another object than the one it erases.
THEOREM TimersInstalled == Spec => []ArmedInstalled
<1>1. IInv => ArmedInstalled
  <2>1. IInv => DOMAIN rssi = 1 .. Len(rssi) /\ DOMAIN summary = 1 .. Len(summary)
    BY LenFacts DEF IInv, RssiInv, SummaryInv
  <2> QED
    BY Zenon, <2>1 DEF IInv, RssiInv, SummaryInv, SummaryFacts, ArmedInstalled
<1> QED
  BY <1>1, Invariance, PTL

\* After a reconnect no timer of an earlier session of the controller runs.
THEOREM TimersOfThisSession == Spec => []OnlyCurrentSession
<1>1. IInv => OnlyCurrentSession
  <2>1. IInv => DOMAIN rssi = 1 .. Len(rssi) /\ DOMAIN summary = 1 .. Len(summary)
    BY LenFacts DEF IInv, RssiInv, SummaryInv
  <2> QED
    BY <2>1 DEF IInv, RssiInv, SummaryInv, SummaryFacts, OnlyCurrentSession
<1> QED
  BY <1>1, Invariance, PTL

\* No summary trigger with a limit sends more reports than its limit, whatever
\* was installed and deleted meanwhile under its id.
THEOREM ReportsWithinLimit == Spec => []SummaryWithinLimit
<1>1. IInv => SummaryWithinLimit
  <2>1. IInv => DOMAIN summary = 1 .. Len(summary)
    BY LenFacts DEF IInv, SummaryInv
  <2> QED
    BY <2>1 DEF IInv, SummaryInv, SummaryFacts, SummaryWithinLimit
<1> QED
  BY <1>1, Invariance, PTL
=============================================================================
