-------------------------- MODULE RateGateProofs --------------------------
(***************************************************************************)
(* Proofs about RateGate.tla, for any requests, runs, buckets and bounds.  *)
(*                                                                         *)
(*   WrittenOnce      no write is performed twice                          *)
(*   WaitsHonoured    nothing is sent before the waits the gate took on    *)
(*                    are over                                             *)
(*   SleepsBounded    no sleep is longer than MaxRateWait                  *)
(*   SlotsGivenBack   the slots are bounded, and none is kept on a way out *)
(*                                                                         *)
(* The first three follow from GateInv.  A refusal that is sent again      *)
(* raises the gate of its bucket and what the requests before it owe to    *)
(* the same height, and time lowers both, so an open gate means that       *)
(* nothing is owed.  A refusal that is handed back raises neither.         *)
(***************************************************************************)
EXTENDS RateGate, FiniteSetTheorems, TLAPS

LEMMA GateInit == Init => TypeOK /\ GateInv
  BY BoundsAssumption, RequestsAssumption
  DEF Init, TypeOK, GateInv, RequestOK

LEMMA GateTyped == TypeOK /\ [Next]_vars => TypeOK'
<1> SUFFICES ASSUME TypeOK, [Next]_vars PROVE TypeOK'
  OBVIOUS
<1> USE BoundsAssumption, RequestsAssumption
<1>1. ASSUME NEW r \in Requests, AcquireWrite(r) \/ AcquireSlot(r)
      PROVE  TypeOK'
  BY <1>1 DEF AcquireWrite, AcquireSlot, Return, Go, told, TypeOK
<1>2. ASSUME NEW r \in Requests, LookAtGate(r) \/ Wake(r) \/ Send(r)
      PROVE  TypeOK'
  BY <1>2 DEF LookAtGate, Wake, Send, Return, Go, slots, told, TypeOK
<1>3. ASSUME NEW r \in Requests, Answer(r) PROVE TypeOK'
  BY <1>3 DEF Answer, Return, Go, Perform, told, TypeOK
<1>4. ASSUME NEW r \in Requests, TimeOut(r) PROVE TypeOK'
  <2>1. stuck' \in [Requests -> 0..StuckRetries]
    BY <1>4 DEF TimeOut, Resent, TypeOK
  <2>2. performed' \in [Requests -> Nat]
    BY <1>4 DEF TimeOut, Perform, TypeOK
  <2> QED
    BY <1>4, <2>1, <2>2 DEF TimeOut, Return, Go, slots, told, TypeOK
<1>5. ASSUME NEW r \in Requests, Refuse(r) PROVE TypeOK'
  <2>1. /\ gates' \in [Buckets -> Nat]
        /\ owed' \in [Requests -> Nat] /\ named' \in [Requests -> Nat]
    BY <1>5 DEF Refuse, CloseGate, GateAfter, Raised, Larger, TypeOK
  <2>2. attempt' \in [Requests -> 0..RateRetries]
    BY <1>5 DEF Refuse, Retried, TypeOK
  <2>3. stuck' \in [Requests -> 0..StuckRetries] /\ stopped' \subseteq Runs
    BY <1>5 DEF Refuse, TypeOK
  <2>4. /\ pc' \in [Requests -> {"write", "slot", "gate", "asleep", "send",
                                 "sent", "back"}]
        /\ result' \in [Requests -> {"none", "answer", "refused", "error"}]
        /\ writing' \subseteq Writes /\ inFlight' \subseteq Requests
    BY <1>5 DEF Refuse, Return, Go, slots, told, TypeOK
  <2> QED
    BY <1>5, <2>1, <2>2, <2>3, <2>4 DEF Refuse, TypeOK
<1>6. ASSUME NEW run \in Runs, Cancel(run) PROVE TypeOK'
  BY <1>6 DEF Cancel, slots, told, TypeOK
<1>7. CASE Tick
  <2>1. ASSUME NEW n \in Nat PROVE Less(n) \in Nat
    BY DEF Less
  <2>2. /\ gates' \in [Buckets -> Nat] /\ sleep' \in [Requests -> Nat]
        /\ owed' \in [Requests -> Nat] /\ named' \in [Requests -> Nat]
    BY <1>7, <2>1 DEF Tick, TypeOK
  <2> QED
    BY <1>7, <2>2 DEF Tick, slots, TypeOK
<1>8. CASE Over \/ UNCHANGED vars
  BY <1>8 DEF Over, vars, slots, told, TypeOK
<1> QED
  BY <1>1, <1>2, <1>3, <1>4, <1>5, <1>6, <1>7, <1>8 DEF Next, RoundTrip

LEMMA GateStep == TypeOK /\ GateInv /\ [Next]_vars => GateInv'
<1> SUFFICES ASSUME TypeOK, GateInv, [Next]_vars PROVE GateInv'
  OBVIOUS
<1> USE BoundsAssumption, RequestsAssumption
<1>1. ASSUME NEW r \in Requests, AcquireWrite(r) \/ AcquireSlot(r)
      PROVE  GateInv'
  BY <1>1
  DEF AcquireWrite, AcquireSlot, Return, Go, told, TypeOK, GateInv, RequestOK
<1>2. ASSUME NEW r \in Requests, LookAtGate(r) PROVE GateInv'
  BY <1>2 DEF LookAtGate, Go, slots, told, TypeOK, GateInv, RequestOK
<1>3. ASSUME NEW r \in Requests, Wake(r) \/ Send(r) PROVE GateInv'
  BY <1>3 DEF Wake, Send, Return, Go, slots, told, TypeOK, GateInv, RequestOK
<1>4. ASSUME NEW r \in Requests, Answer(r) PROVE GateInv'
  BY <1>4 DEF Answer, Return, Go, Perform, told, TypeOK, GateInv, RequestOK
<1>5. ASSUME NEW r \in Requests, TimeOut(r) PROVE GateInv'
  BY <1>5
  DEF TimeOut, Resent, Return, Go, Perform, slots, told, TypeOK, GateInv,
      RequestOK
<1>6. ASSUME NEW r \in Requests, Refuse(r) PROVE GateInv'
  <2>1. CASE UNCHANGED <<gates, owed>> /\ pc'[r] = "back"
    BY <1>6, <2>1 DEF Refuse, Return, Go, TypeOK, GateInv, RequestOK
  <2>2. CASE \E wait \in Waits :
               wait <= MaxRateWait /\ CloseGate(r, wait) /\ Go(r, "gate")
    <3>1. PICK wait \in Waits :
            wait <= MaxRateWait /\ CloseGate(r, wait) /\ Go(r, "gate")
      BY <2>2
    <3>2. wait \in Nat
      OBVIOUS
    <3>3. \A b \in Buckets : gates'[b] <= MaxRateWait
      BY <3>1, <3>2 DEF CloseGate, GateAfter, Larger, TypeOK, GateInv
    <3>4. \A q \in Requests : RequestOK(q)'
      BY <1>6, <3>1, <3>2
      DEF Refuse, CloseGate, GateAfter, Raised, Concerned, Larger, Go, TypeOK,
          GateInv, RequestOK
    <3> QED
      BY <3>3, <3>4 DEF GateInv
  <2> QED
    BY <1>6, <2>1, <2>2 DEF Refuse, SatOut, Return, Go, TypeOK
<1>7. ASSUME NEW run \in Runs, Cancel(run) PROVE GateInv'
  BY <1>7 DEF Cancel, told, GateInv, RequestOK
<1>8. CASE Tick
  BY <1>8 DEF Tick, Less, TypeOK, GateInv, RequestOK
<1>9. CASE Over \/ UNCHANGED vars
  BY <1>9 DEF Over, vars, told, GateInv, RequestOK
<1> QED
  BY <1>1, <1>2, <1>3, <1>4, <1>5, <1>6, <1>7, <1>8, <1>9 DEF Next, RoundTrip

LEMMA GateCorrect == Spec => [](TypeOK /\ GateInv)
  BY GateInit, GateTyped, GateStep, PTL DEF Spec

\* Every variable of the gate holds what the code can hold in it: the tries of
\* a request stay within RateRetries, the resends within StuckRetries.
THEOREM GateTypes == Spec => []TypeOK
  BY GateCorrect, PTL

\* No write is performed twice: the gate only sends again what was refused,
\* and the layer below sends no write again.
THEOREM WrittenOnce == Spec => []WritesOnce
<1>1. TypeOK /\ GateInv => WritesOnce
  BY RequestsAssumption DEF GateInv, RequestOK, WritesOnce
<1> QED
  BY <1>1, GateCorrect, PTL

\* A request is sent only when every wait the gate took on is over: those of
\* the refusals of its bucket that were sent again, named to it or to another
\* before it passed the gate.  Waits of refusals handed back hold nobody.
THEOREM WaitsHonoured == Spec => []RefusalsHonoured
<1>1. GateInv => RefusalsHonoured
  BY DEF GateInv, RequestOK, RefusalsHonoured
<1> QED
  BY <1>1, GateCorrect, PTL

\* No request sleeps longer than MaxRateWait at a time.
THEOREM SleepsBounded == Spec => []NoLongSleep
<1>1. GateInv => NoLongSleep
  BY DEF GateInv, RequestOK, NoLongSleep
<1> QED
  BY <1>1, GateCorrect, PTL

----------------------------------------------------------------------------
(* The slots.  A step moves one request: it takes a slot where it found    *)
(* one free, hands both back, or moves on with what it holds.              *)

\* One request more among those counted is one more, whatever the bound.
LEMMA OneMore ==
    ASSUME NEW S, IsFiniteSet(S), NEW r, NEW n \in Nat, Cardinality(S) < n
    PROVE  Cardinality(S \union {r}) <= n
<1>1. Cardinality(S) \in Nat
  BY FS_CardinalityType, Zenon
<1>2. Cardinality(S \union {r}) \in {Cardinality(S), Cardinality(S) + 1}
  BY FS_AddElement, Zenon
<1> QED
  BY <1>1, <1>2

\* Fewer requests are no more.
LEMMA NoMore ==
    ASSUME NEW S, IsFiniteSet(S), NEW T \in SUBSET S, NEW n \in Nat,
           Cardinality(S) <= n
    PROVE  Cardinality(T) <= n
  BY FS_Subset, FS_CardinalityType

LEMMA SlotsFinite ==
    ASSUME TypeOK
    PROVE  /\ \A run : IsFiniteSet(WritesOf(run))
           /\ \A b : IsFiniteSet(InFlightOn(b))
<1>1. \A run : WritesOf(run) \subseteq Requests
  BY RequestsAssumption DEF TypeOK, WritesOf
<1>2. \A b : InFlightOn(b) \subseteq Requests
  BY DEF TypeOK, InFlightOn
<1> QED
  BY <1>1, <1>2, FS_Subset, RequestsAssumption

\* Where no slot is taken, the bounds stay.
LEMMA BoundsStay ==
    ASSUME TypeOK, SlotsHeld,
           writing' \subseteq writing, inFlight' \subseteq inFlight
    PROVE  /\ \A run \in Runs : Cardinality(WritesOf(run)') <= WriteBound
           /\ \A b \in Buckets :
                  Cardinality(InFlightOn(b)') <= RequestsAtOnce
<1> USE BoundsAssumption
<1>1. ASSUME NEW run \in Runs
      PROVE  Cardinality(WritesOf(run)') <= WriteBound
  <2>1. WritesOf(run)' \in SUBSET WritesOf(run)
    BY DEF WritesOf
  <2> QED
    BY <2>1, NoMore, SlotsFinite DEF SlotsHeld
<1>2. ASSUME NEW b \in Buckets
      PROVE  Cardinality(InFlightOn(b)') <= RequestsAtOnce
  <2>1. InFlightOn(b)' \in SUBSET InFlightOn(b)
    BY DEF InFlightOn
  <2> QED
    BY <2>1, NoMore, SlotsFinite DEF SlotsHeld
<1> QED
  BY <1>1, <1>2

\* A request that returns hands both slots back.
LEMMA ReturnHeld ==
    ASSUME TypeOK, SlotsHeld, NEW r \in Requests, NEW what, Return(r, what)
    PROVE  SlotsHeld'
<1> USE RequestsAssumption
<1>1. writing' \subseteq writing /\ inFlight' \subseteq inFlight
  BY DEF Return
<1>2. \A q \in Requests : pc'[q] = IF q = r THEN "back" ELSE pc[q]
  BY DEF Return, Go, TypeOK
<1>3. writing' = {q \in Writes : pc'[q] \notin {"write", "back"}}
  BY <1>2 DEF Return, SlotsHeld
<1>4. inFlight' = {q \in Requests : pc'[q] \notin {"write", "slot", "back"}}
  BY <1>2 DEF Return, SlotsHeld
<1> QED
  BY <1>1, <1>3, <1>4, BoundsStay DEF SlotsHeld

\* A request past both bounds keeps its slots for as long as it is.
Past == {"gate", "asleep", "send", "sent"}
LEMMA MovesHeld ==
    ASSUME TypeOK, SlotsHeld, UNCHANGED slots, NEW r \in Requests,
           pc[r] \in Past, NEW next \in Past, Go(r, next)
    PROVE  SlotsHeld'
<1> USE RequestsAssumption DEF Past
<1>1. writing' \subseteq writing /\ inFlight' \subseteq inFlight
  BY DEF slots
<1>2. \A q \in Requests : pc'[q] = IF q = r THEN next ELSE pc[q]
  BY DEF Go, TypeOK
<1>3. writing' = {q \in Writes : pc'[q] \notin {"write", "back"}}
  BY <1>2 DEF slots, SlotsHeld
<1>4. inFlight' = {q \in Requests : pc'[q] \notin {"write", "slot", "back"}}
  BY <1>2 DEF slots, SlotsHeld
<1> QED
  BY <1>1, <1>3, <1>4, BoundsStay DEF SlotsHeld

\* A write takes a slot of its run where one is free; a read takes none.
LEMMA WriteTaken ==
    ASSUME TypeOK, SlotsHeld, NEW r \in Requests, AcquireWrite(r)
    PROVE  SlotsHeld'
<1> USE BoundsAssumption, RequestsAssumption
<1>1. CASE Return(r, "error")
  BY <1>1, ReturnHeld
<1>2. CASE /\ Go(r, "slot") /\ UNCHANGED inFlight
           /\ r \in Writes => Cardinality(WritesOf(RunOf[r])) < WriteBound
           /\ writing' = IF r \in Writes THEN writing \union {r} ELSE writing
  <2>1. pc[r] = "write" /\ r \notin writing /\ r \notin inFlight
    BY DEF AcquireWrite, SlotsHeld
  <2>2. \A q \in Requests : pc'[q] = IF q = r THEN "slot" ELSE pc[q]
    BY <1>2 DEF Go, TypeOK
  <2>3. writing' = {q \in Writes : pc'[q] \notin {"write", "back"}}
    BY <1>2, <2>1, <2>2 DEF SlotsHeld
  <2>4. inFlight' = {q \in Requests : pc'[q] \notin {"write", "slot", "back"}}
    BY <1>2, <2>1, <2>2 DEF SlotsHeld
  <2>5. \A b \in Buckets : Cardinality(InFlightOn(b)') <= RequestsAtOnce
    BY <1>2 DEF InFlightOn, SlotsHeld
  <2>6. ASSUME NEW run \in Runs
        PROVE  Cardinality(WritesOf(run)') <= WriteBound
    <3>1. CASE r \in Writes /\ run = RunOf[r]
      <4>1. WritesOf(run)' = WritesOf(run) \union {r}
        BY <1>2, <3>1 DEF WritesOf
      <4> QED
        BY <1>2, <3>1, <4>1, OneMore, SlotsFinite
    <3>2. CASE ~(r \in Writes /\ run = RunOf[r])
      <4>1. WritesOf(run)' = WritesOf(run)
        BY <1>2, <3>2 DEF WritesOf
      <4> QED
        BY <4>1 DEF SlotsHeld
    <3> QED
      BY <3>1, <3>2
  <2> QED
    BY <2>3, <2>4, <2>5, <2>6 DEF SlotsHeld
<1> QED
  BY <1>1, <1>2 DEF AcquireWrite, WritesOf

\* A request takes a slot of its bucket where one is free.
LEMMA SlotTaken ==
    ASSUME TypeOK, SlotsHeld, NEW r \in Requests, AcquireSlot(r)
    PROVE  SlotsHeld'
<1> USE BoundsAssumption, RequestsAssumption
<1>1. CASE Return(r, "error")
  BY <1>1, ReturnHeld
<1>2. CASE /\ Go(r, "gate") /\ UNCHANGED writing
           /\ Cardinality(InFlightOn(BucketOf[r])) < RequestsAtOnce
           /\ inFlight' = inFlight \union {r}
  <2>1. pc[r] = "slot"
    BY DEF AcquireSlot
  <2>2. \A q \in Requests : pc'[q] = IF q = r THEN "gate" ELSE pc[q]
    BY <1>2 DEF Go, TypeOK
  <2>3. writing' = {q \in Writes : pc'[q] \notin {"write", "back"}}
    BY <1>2, <2>1, <2>2 DEF SlotsHeld
  <2>4. inFlight' = {q \in Requests : pc'[q] \notin {"write", "slot", "back"}}
    BY <1>2, <2>1, <2>2 DEF SlotsHeld
  <2>5. \A run \in Runs : Cardinality(WritesOf(run)') <= WriteBound
    BY <1>2 DEF WritesOf, SlotsHeld
  <2>6. ASSUME NEW b \in Buckets
        PROVE  Cardinality(InFlightOn(b)') <= RequestsAtOnce
    <3>1. CASE b = BucketOf[r]
      <4>1. InFlightOn(b)' = InFlightOn(b) \union {r}
        BY <1>2, <3>1 DEF InFlightOn
      <4> QED
        BY <1>2, <3>1, <4>1, OneMore, SlotsFinite
    <3>2. CASE b # BucketOf[r]
      <4>1. InFlightOn(b)' = InFlightOn(b)
        BY <1>2, <3>2 DEF InFlightOn
      <4> QED
        BY <4>1 DEF SlotsHeld
    <3> QED
      BY <3>1, <3>2
  <2> QED
    BY <2>3, <2>4, <2>5, <2>6 DEF SlotsHeld
<1> QED
  BY <1>1, <1>2 DEF AcquireSlot, InFlightOn

LEMMA SlotsStay ==
    ASSUME SlotsHeld, UNCHANGED <<pc, slots>>
    PROVE  SlotsHeld'
  BY DEF SlotsHeld, WritesOf, InFlightOn, slots

LEMMA SlotsInit == Init => SlotsHeld
<1> SUFFICES ASSUME Init PROVE SlotsHeld
  OBVIOUS
<1>1. \A run, b : WritesOf(run) = {} /\ InFlightOn(b) = {}
  BY DEF Init, WritesOf, InFlightOn
<1> QED
  BY <1>1, FS_EmptySet, BoundsAssumption, RequestsAssumption
  DEF Init, SlotsHeld

LEMMA SlotsStep == TypeOK /\ SlotsHeld /\ [Next]_vars => SlotsHeld'
<1> SUFFICES ASSUME TypeOK, SlotsHeld, [Next]_vars PROVE SlotsHeld'
  OBVIOUS
<1>1. ASSUME NEW r \in Requests, LookAtGate(r) PROVE SlotsHeld'
  BY <1>1, MovesHeld DEF LookAtGate, Past
<1>2. ASSUME NEW r \in Requests, Wake(r) PROVE SlotsHeld'
  BY <1>2, MovesHeld, ReturnHeld DEF Wake, Past
<1>3. ASSUME NEW r \in Requests, Send(r) PROVE SlotsHeld'
  BY <1>3, MovesHeld, ReturnHeld DEF Send, Past
<1>4. ASSUME NEW r \in Requests, Answer(r) PROVE SlotsHeld'
  BY <1>4, ReturnHeld DEF Answer
<1>5. ASSUME NEW r \in Requests, TimeOut(r) PROVE SlotsHeld'
  BY <1>5, MovesHeld, ReturnHeld DEF TimeOut, Past
<1>6. ASSUME NEW r \in Requests, Refuse(r) PROVE SlotsHeld'
  BY <1>6, MovesHeld, ReturnHeld DEF Refuse, Past
<1>7. CASE (\E run \in Runs : Cancel(run)) \/ Tick \/ Over \/ UNCHANGED vars
  BY <1>7, SlotsStay DEF Cancel, Tick, Over, vars
<1> QED
  BY <1>1, <1>2, <1>3, <1>4, <1>5, <1>6, <1>7, WriteTaken, SlotTaken
  DEF Next, RoundTrip

\* No run writes more than WriteBound at once, no bucket carries more than
\* RequestsAtOnce, and no path out keeps a slot: an error, a stop, a timeout
\* and a refusal give back both.
THEOREM SlotsGivenBack == Spec => []SlotsHeld
  BY SlotsInit, GateInit, GateTyped, SlotsStep, PTL DEF Spec

=============================================================================
