------------------------------ MODULE RateGate ------------------------------
(***************************************************************************)
(* What a request passes on its way to GitHub (internal/github): the write *)
(* bound of its run (writes.go), the in-flight bound and the rate gate of  *)
(* its bucket (ratelimit.go), and the resend of a stuck read               *)
(* (transport.go).  Every request of a sweep in Sweep.tla is one of these. *)
(*                                                                         *)
(* Time is counted in units of the waits GitHub names; a gate and a sleep  *)
(* hold what is left of them.                                              *)
(***************************************************************************)
EXTENDS Naturals, FiniteSets

CONSTANTS
    Requests,
    Runs,           \* the runs of the process: a sweep, or a served call
    Buckets,        \* the rate buckets: a token, or the App's installation
    RunOf,          \* RunOf[r]: the run whose context r carries
    BucketOf,       \* BucketOf[r]: the bucket r draws on
    Writes,         \* the requests that change something on GitHub
    Fixed,          \* the requests whose body cannot be replayed
    WriteBound,     \* the writes a run has in flight
    RequestsAtOnce, \* the requests a bucket has in flight
    RateRetries,    \* how often a refused request is sent again
    StuckRetries,   \* how often a stuck read is sent again
    MaxRateWait,    \* the longest wait that is sat out
    Waits           \* the waits GitHub names

ASSUME RequestsAssumption ==
    /\ IsFiniteSet(Requests)
    /\ Writes \subseteq Requests /\ Fixed \subseteq Requests
    /\ RunOf \in [Requests -> Runs] /\ BucketOf \in [Requests -> Buckets]
ASSUME BoundsAssumption ==
    /\ WriteBound \in Nat \ {0} /\ RequestsAtOnce \in Nat \ {0}
    /\ RateRetries \in Nat /\ StuckRetries \in Nat
    /\ MaxRateWait \in Nat /\ Waits \subseteq Nat

VARIABLES
    pc,             \* pc[r]: where r stands
    writing,        \* the requests that hold a write slot
    inFlight,       \* the requests that hold a slot of their bucket
    gates,          \* gates[b]: how long b's gate stays closed
    sleep,          \* sleep[r]: how long r still sleeps
    attempt,        \* attempt[r]: the refusals of r
    stuck,          \* stuck[r]: the timeouts of this attempt of r
    stopped,        \* the runs whose context is cancelled
    result,         \* result[r]: what the caller of r gets
    \* history, read by properties only
    performed,      \* performed[r]: how often GitHub performed the write r
    owed,           \* owed[r]: what is left of the waits the gate took on
                    \* before r passed it
    named           \* named[r]: and of every wait GitHub named till then

told == <<owed, named>>
slots == <<writing, inFlight>>
vars == <<pc, slots, gates, sleep, attempt, stuck, stopped, result,
          performed, told>>

Larger(a, b) == IF a < b THEN b ELSE a
Less(n) == IF n = 0 THEN 0 ELSE n - 1

Go(r, next) == pc' = [pc EXCEPT ![r] = next]

\* RoundTrip returns, and its deferred calls give the slots back.
ReturnWriting(r, what) ==       \* mutant: the write slot stays taken
    /\ Go(r, "back")
    /\ result' = [result EXCEPT ![r] = what]
    /\ inFlight' = inFlight \ {r}
    /\ UNCHANGED writing
Return(r, what) ==
    /\ Go(r, "back")
    /\ result' = [result EXCEPT ![r] = what]
    /\ writing' = writing \ {r}
    /\ inFlight' = inFlight \ {r}

Live(r) == RunOf[r] \notin stopped

\* acquireWrite: a read needs no slot.  A stopped caller may give up, or win
\* the slot all the same: select chooses.
AcquireWrite(r) ==
    /\ pc[r] = "write"
    /\ \/ /\ r \in Writes =>
               Cardinality({q \in writing : RunOf[q] = RunOf[r]}) < WriteBound
          /\ writing' = IF r \in Writes THEN writing \union {r} ELSE writing
          /\ Go(r, "slot")
          /\ UNCHANGED <<inFlight, result>>
       \/ r \in Writes /\ ~Live(r) /\ Return(r, "error")
    /\ UNCHANGED <<gates, sleep, attempt, stuck, stopped, performed, told>>

\* acquire: a slot of the bucket.
AcquireSlot(r) ==
    /\ pc[r] = "slot"
    /\ \/ /\ Cardinality({q \in inFlight : BucketOf[q] = BucketOf[r]})
               < RequestsAtOnce
          /\ inFlight' = inFlight \union {r}
          /\ Go(r, "gate")
          /\ UNCHANGED <<writing, result>>
       \/ ~Live(r) /\ Return(r, "error")
    /\ UNCHANGED <<gates, sleep, attempt, stuck, stopped, performed, told>>

\* waitForGate: an open gate lets r pass, a closed one is slept out.
LookAtGate(r) ==
    /\ pc[r] = "gate"
    /\ IF gates[BucketOf[r]] = 0
         THEN Go(r, "send") /\ UNCHANGED sleep
         ELSE /\ Go(r, "asleep")
              /\ sleep' = [sleep EXCEPT ![r] = gates[BucketOf[r]]]
    /\ UNCHANGED <<slots, gates, attempt, stuck, stopped, result, performed,
                   told>>

\* After the sleep the gate is looked at again; a stopped caller gives up.
Wake(r) ==
    /\ pc[r] = "asleep"
    /\ \/ sleep[r] = 0 /\ Go(r, "gate") /\ UNCHANGED <<slots, result>>
       \/ ~Live(r) /\ Return(r, "error")
    /\ sleep' = [sleep EXCEPT ![r] = 0]
    /\ UNCHANGED <<gates, attempt, stuck, stopped, performed, told>>

\* The connection pool sends nothing for a cancelled context.
Send(r) ==
    /\ pc[r] = "send"
    /\ IF Live(r) THEN Go(r, "sent") /\ UNCHANGED <<slots, result>>
                  ELSE Return(r, "error")
    /\ UNCHANGED <<gates, sleep, attempt, stuck, stopped, performed, told>>

\* GitHub performs what r asks for.
Perform(r) ==
    performed' = IF r \in Writes THEN [performed EXCEPT ![r] = @ + 1]
                 ELSE performed

\* GitHub answers, or the request breaks: for another reason than a timeout,
\* or because its context was cancelled; it may have been performed.
Answer(r) ==
    /\ pc[r] = "sent"
    /\ \/ Return(r, "answer") /\ Perform(r)
       \/ Return(r, "error") /\ (Perform(r) \/ UNCHANGED performed)
    /\ UNCHANGED <<gates, sleep, attempt, stuck, stopped, told>>

\* A stuck request is sent again if it can be, and cannot have done anything.
ResentAnyway(r) ==              \* mutant: a write is sent again as well
    stuck[r] < StuckRetries /\ Live(r) /\ r \notin Fixed
Resent(r) ==
    stuck[r] < StuckRetries /\ Live(r) /\ r \notin Writes \union Fixed

\* retryStuck: nothing was heard for responseHeaderTimeout.  A read is sent
\* again, below the gate; a write may have been performed, and is not.
TimeOut(r) ==
    /\ pc[r] = "sent"
    /\ IF Resent(r)
         THEN /\ Go(r, "send")
              /\ stuck' = [stuck EXCEPT ![r] = @ + 1]
              /\ UNCHANGED <<slots, result>>
         ELSE Return(r, "error") /\ UNCHANGED stuck
    /\ Perform(r) \/ UNCHANGED performed
    /\ UNCHANGED <<gates, sleep, attempt, stopped, told>>

\* closeGate: a gate closed for longer is left alone.
NewestWait(b, wait) == wait     \* mutant: the newest wait replaces it
GateAfter(b, wait) == Larger(gates[b], wait)

\* A wait named to r concerns r, and whoever draws on its bucket and has not
\* passed the gate yet.
Concerned(r) ==
    {q \in Requests : /\ BucketOf[q] = BucketOf[r]
                      /\ q = r \/ pc[q] \in {"write", "slot", "gate", "asleep"}}
Raised(waits, r, wait) ==
    [q \in Requests |-> IF q \in Concerned(r) THEN Larger(waits[q], wait)
                        ELSE waits[q]]

CloseGate(r, wait) ==
    /\ gates' = [gates EXCEPT ![BucketOf[r]] = GateAfter(BucketOf[r], wait)]
    /\ owed' = Raised(owed, r, wait)

\* A wait that is sat out, and a refused request that may be sent again.
AnyWait(wait) == TRUE           \* mutant: every wait is
SatOut(wait) == wait <= MaxRateWait
Retried(r) == attempt[r] < RateRetries /\ r \notin Fixed

\* GitHub refuses r for rate.  A wait too long to sit out stops the run
\* (reportExhausted); a shorter one closes the gate, up to RateRetries times.
\* Either way out with the refusal leaves the gate of the bucket as it is.
Refuse(r) ==
    /\ pc[r] = "sent"
    /\ \E wait \in Waits :
         /\ named' = Raised(named, r, wait)
         /\ \/ /\ ~SatOut(wait)
               /\ Return(r, "refused")
               /\ stopped' = stopped \union {RunOf[r]}
               /\ UNCHANGED <<gates, owed, attempt, stuck>>
            \/ /\ SatOut(wait) /\ ~Retried(r)
               /\ Return(r, "refused")
               /\ UNCHANGED <<gates, owed, attempt, stuck, stopped>>
            \/ /\ SatOut(wait) /\ Retried(r)
               /\ CloseGate(r, wait)
               /\ attempt' = [attempt EXCEPT ![r] = @ + 1]
               /\ stuck' = [stuck EXCEPT ![r] = 0]
               /\ Go(r, "gate")
               /\ UNCHANGED <<slots, stopped, result>>
    /\ UNCHANGED <<sleep, performed>>

\* A run is interrupted, or ends early.
Cancel(run) ==
    /\ run \notin stopped
    /\ \E r \in Requests : RunOf[r] = run /\ pc[r] # "back"
    /\ stopped' = stopped \union {run}
    /\ UNCHANGED <<pc, slots, gates, sleep, attempt, stuck, result,
                   performed, told>>

\* Time passes while somebody waits for it.
Tick ==
    /\ \/ \E b \in Buckets : gates[b] # 0
       \/ \E r \in Requests : sleep[r] # 0
    /\ gates' = [b \in Buckets |-> Less(gates[b])]
    /\ sleep' = [r \in Requests |-> Less(sleep[r])]
    /\ owed' = [r \in Requests |-> Less(owed[r])]
    /\ named' = [r \in Requests |-> Less(named[r])]
    /\ UNCHANGED <<pc, slots, attempt, stuck, stopped, result, performed>>

Over == (\A r \in Requests : pc[r] = "back") /\ UNCHANGED vars

Init ==
    /\ pc = [r \in Requests |-> "write"]
    /\ writing = {} /\ inFlight = {}
    /\ gates = [b \in Buckets |-> 0]
    /\ sleep = [r \in Requests |-> 0]
    /\ attempt = [r \in Requests |-> 0]
    /\ stuck = [r \in Requests |-> 0]
    /\ stopped = {}
    /\ result = [r \in Requests |-> "none"]
    /\ performed = [r \in Requests |-> 0]
    /\ owed = [r \in Requests |-> 0]
    /\ named = [r \in Requests |-> 0]

RoundTrip(r) ==
    \/ AcquireWrite(r) \/ AcquireSlot(r) \/ LookAtGate(r) \/ Wake(r)
    \/ Send(r) \/ Answer(r) \/ TimeOut(r) \/ Refuse(r)

Next ==
    \/ \E r \in Requests : RoundTrip(r)
    \/ \E run \in Runs : Cancel(run)
    \/ Tick
    \/ Over

Spec == Init /\ [][Next]_vars

\* Every goroutine runs, a request that is sent ends in an answer or in the
\* timeout, and time passes.
Fairness == (\A r \in Requests : WF_vars(RoundTrip(r))) /\ WF_vars(Tick)
FairSpec == Spec /\ Fairness

----------------------------------------------------------------------------
(* Properties.                                                             *)

TypeOK ==
    /\ pc \in [Requests -> {"write", "slot", "gate", "asleep", "send", "sent",
                            "back"}]
    /\ writing \subseteq Writes /\ inFlight \subseteq Requests
    /\ gates \in [Buckets -> Nat]
    /\ sleep \in [Requests -> Nat]
    /\ owed \in [Requests -> Nat] /\ named \in [Requests -> Nat]
    /\ attempt \in [Requests -> 0..RateRetries]
    /\ stuck \in [Requests -> 0..StuckRetries]
    /\ stopped \subseteq Runs
    /\ result \in [Requests -> {"none", "answer", "refused", "error"}]
    /\ performed \in [Requests -> Nat]

\* No write is performed twice, whatever times out or is refused on either
\* layer (retryStuck, rateLimited).
WritesOnce == \A r \in Writes : performed[r] <= 1

\* A wait the gate took on holds the request it was named to and every request
\* of the bucket that had not passed the gate: each is sent only once all of
\* them are over, and no refusal shortens another's wait (closeGate,
\* waitForGate).  A refusal that is handed back closes no gate: AllRefusalsHold.
RefusalsHonoured ==
    \A r \in Requests : pc[r] \in {"send", "sent"} => owed[r] = 0

\* The same of every wait GitHub named (README 451: "a refusal for rate holds
\* every request of that token until the time GitHub names").  It does not
\* hold: a refusal whose wait is too long to sit out, or that comes after the
\* last retry or to a body that cannot be replayed, goes back to its caller,
\* and the other requests of the bucket pass an open gate.
AllRefusalsHold ==
    \A r \in Requests : pc[r] = "sent" => named[r] = 0

\* No request is held for longer than MaxRateWait at a time (maxRateWait: "a
\* sweep must not sleep through it").
NoLongSleep == \A r \in Requests : sleep[r] <= MaxRateWait

\* Slots.  A run has no more writes in flight than WriteBound, a bucket no more
\* requests than RequestsAtOnce, a request is under way only with its slots in
\* hand, and whoever holds one is under way: a stop, a timeout and a refusal
\* give back both (acquireWrite, acquire and their deferred releases).
WritesOf(run) == {r \in writing : RunOf[r] = run}
InFlightOn(b) == {r \in inFlight : BucketOf[r] = b}
SlotsHeld ==
    /\ \A run \in Runs : Cardinality(WritesOf(run)) <= WriteBound
    /\ \A b \in Buckets : Cardinality(InFlightOn(b)) <= RequestsAtOnce
    /\ writing = {r \in Writes : pc[r] \notin {"write", "back"}}
    /\ inFlight = {r \in Requests : pc[r] \notin {"write", "slot", "back"}}

\* Every request ends, with the slots given back, although a write holds its
\* write slot while it waits for a slot of the bucket, and that one while it
\* sleeps at the gate.
EveryRequestEnds == \A r \in Requests : <>(pc[r] = "back")

\* The inductive invariant the proofs rest on (RateGateProofs.tla): a gate is
\* closed for at least what anybody before it still owes, and a write that is
\* under way has not been performed.
RequestOK(r) ==
    /\ pc[r] \in {"write", "slot", "gate", "asleep"}
         => owed[r] <= gates[BucketOf[r]]
    /\ pc[r] \in {"send", "sent"} => owed[r] = 0
    /\ sleep[r] <= MaxRateWait
    /\ r \in Writes => /\ pc[r] # "back" => performed[r] = 0
                       /\ performed[r] <= 1
GateInv ==
    /\ \A r \in Requests : RequestOK(r)
    /\ \A b \in Buckets : gates[b] <= MaxRateWait

=============================================================================
