---------------------------- MODULE SweepProofs ----------------------------
(***************************************************************************)
(* Proofs about Sweep.tla, for every set of pull requests, every selection *)
(* of actions, every bound and every hazard.                               *)
(*                                                                         *)
(*   TypeCorrect    every variable keeps its type                          *)
(*   HeadsPassed    a merged head is one the sweep read as passed          *)
(*   MergedStays    a row that says Merged is never taken back             *)
(*   Refinement     the sweep implements Landing.tla                       *)
(*   MergesAreFresh  no merge is asked for on a state read before the last *)
(*                  merge, with a lane of one and no answer lost           *)
(*                                                                         *)
(* The typing proof has one lemma per group of variables; the invariants   *)
(* are then preserved action by action.                                    *)
(***************************************************************************)
EXTENDS Sweep, FiniteSetTheorems, TLAPS

----------------------------------------------------------------------------
(* Typing.                                                                 *)

LEMMA StepTyped ==
  ASSUME OutcomeOK, NEW p \in PRs, NEW next \in PCs, Step(p, next)
  PROVE  OutcomeOK'
  BY DEF OutcomeOK, Step, Go

LEMMA LeaveTyped ==
  ASSUME OutcomeOK, NEW p \in PRs, NEW s \in Rows, Leave(p, s)
  PROVE  OutcomeOK'
  BY DEF OutcomeOK, Leave, Set, Go, PCs

LEMMA SetGoTyped ==
  ASSUME OutcomeOK, NEW p \in PRs, NEW s \in Rows, NEW next \in PCs,
         Set(p, s), Go(p, next), UNCHANGED lane
  PROVE  OutcomeOK'
  BY DEF OutcomeOK, Set, Go

\* pc, row and lane keep their types.
LEMMA OutcomeTyped ==
  ASSUME OutcomeOK, [Next]_vars
  PROVE  OutcomeOK'
<1> USE DEF PCs, Transient, Rows
<1>1. ASSUME NEW p \in PRs, Start(p) \/ Enter(p) PROVE OutcomeOK'
  BY <1>1, StepTyped DEF Start, Enter
<1>2. ASSUME NEW p \in PRs, Fetch(p) PROVE OutcomeOK'
  BY <1>2, StepTyped, LeaveTyped, SetGoTyped DEF Fetch, Classify
<1>3. ASSUME NEW p \in PRs, ReadStatuses(p) \/ Poll(p) \/ Retry(p)
      PROVE  OutcomeOK'
  BY <1>3, StepTyped, LeaveTyped DEF ReadStatuses, Poll, Retry
<1>4. ASSUME NEW p \in PRs, ReadRuns(p) PROVE OutcomeOK'
  BY <1>4, StepTyped, LeaveTyped, SetGoTyped, SwitchesAssumption
     DEF ReadRuns, Reject, Wait, Proceed, ToApproval, ToMerge, AllRedRows
<1>5. ASSUME NEW p \in PRs, Changelog(p) PROVE OutcomeOK'
  BY <1>5, StepTyped, LeaveTyped DEF Changelog, ToApproval, ToMerge
<1>6. ASSUME NEW p \in PRs, ListReviews(p) \/ Approve(p) PROVE OutcomeOK'
  BY <1>6, StepTyped, LeaveTyped, SetGoTyped DEF ListReviews, Approve, ToMerge
<1>7. ASSUME NEW p \in PRs, AcquireLane(p) PROVE OutcomeOK'
  BY <1>7, LeaveTyped DEF AcquireLane, OutcomeOK, Set, Go
<1>8. ASSUME NEW p \in PRs, Reread(p) PROVE OutcomeOK'
  BY <1>8, StepTyped, LeaveTyped, SetGoTyped DEF Reread, EnterMerge
<1>9. ASSUME NEW p \in PRs, Land(p) \/ Merged(p) PROVE OutcomeOK'
  BY <1>9, StepTyped, LeaveTyped DEF Land, Merged
<1>10. ASSUME NEW p \in PRs, LoseMerged(p) \/ RefuseMerge(p) PROVE OutcomeOK'
  BY <1>10, StepTyped, LeaveTyped DEF LoseMerged, RefuseMerge, MergeError
<1>11. ASSUME NEW p \in PRs, BaseModified(p) \/ Backoff(p) PROVE OutcomeOK'
  BY <1>11, StepTyped, LeaveTyped DEF BaseModified, Backoff
<1>12. ASSUME NEW p \in PRs, RetryGet(p) PROVE OutcomeOK'
  BY <1>12, StepTyped, LeaveTyped, SetGoTyped DEF RetryGet
<1>13. ASSUME NEW p \in PRs, Conflict(p) PROVE OutcomeOK'
  BY <1>13, LeaveTyped DEF Conflict
<1>14. ASSUME NEW p \in PRs, Refresh(p) PROVE OutcomeOK'
  BY <1>14 DEF Refresh, UpdateBranch, OutcomeOK, Set, Go
<1>15. ASSUME NEW p \in PRs, CutShort(p) \/ Rule(p) PROVE OutcomeOK'
  BY <1>15 DEF CutShort, Rule, UpdateBranch, OutcomeOK, Set, Go
<1>16. ASSUME NEW p \in PRs, Finish(p) \/ Label(p) PROVE OutcomeOK'
  BY <1>16, StepTyped DEF Finish, Label
<1>17. ASSUME NEW p \in PRs, Environment(p) PROVE OutcomeOK'
  BY <1>17 DEF Environment, Report, Push, BaseMoves, OutsideMerge, OutcomeOK,
               outcome
<1>18. ASSUME Look PROVE OutcomeOK'
  <2>1. ASSUME NEW p \in PRs, Step(p, "enter") PROVE OutcomeOK'
    BY <2>1, StepTyped
  <2> QED
    BY <1>18, <2>1 DEF Look, OutcomeOK, Set, Step, Go, outcome
<1>19. ASSUME Revisit \/ Stop \/ Over \/ UNCHANGED vars PROVE OutcomeOK'
  BY <1>19 DEF Revisit, Stop, Over, vars, outcome, OutcomeOK
<1> QED
  BY <1>1, <1>2, <1>3, <1>4, <1>5, <1>6, <1>7, <1>8, <1>9, <1>10, <1>11,
     <1>12, <1>13, <1>14, <1>15, <1>16, <1>17, <1>18, <1>19
  DEF Next, Goroutine

LEMMA HeadTyped ==
  ASSUME GitHubOK, NEW p \in PRs
  PROVE  head[p] \in Heads /\ head[p] \in 0..MaxHead
  BY BoundsAssumption DEF GitHubOK, Heads

LEMMA NewHeadTyped ==
  ASSUME GitHubOK, HistoryOK, NEW p \in PRs, NewHead(p)
  PROVE  /\ head' \in [PRs -> Heads]
         /\ ci' \in [PRs -> [statuses : Colors, runs : Colors]]
         /\ mstate' \in [PRs -> MStates]
         /\ dirtied' \in [PRs -> {"no", "sweep", "other"}]
<1>1. CASE head[p] < MaxHead
  <2>1. head' \in [PRs -> Heads]
    BY <1>1, BoundsAssumption DEF GitHubOK, NewHead, Heads
  <2>2. ci' \in [PRs -> [statuses : Colors, runs : Colors]]
    BY <1>1 DEF GitHubOK, NewHead, Colors
  <2>3. mstate' \in [PRs -> MStates]
    BY <1>1 DEF GitHubOK, NewHead, MStates
  <2>4. dirtied' \in [PRs -> {"no", "sweep", "other"}]
    BY <1>1 DEF HistoryOK, NewHead
  <2> QED
    BY <2>1, <2>2, <2>3, <2>4
<1>2. CASE ~(head[p] < MaxHead)
  BY <1>2 DEF GitHubOK, HistoryOK, NewHead, branch
<1> QED
  BY <1>1, <1>2

\* What GitHub holds keeps its type.
LEMMA GitHubTyped ==
  ASSUME TypeOK, [Next]_vars
  PROVE  GitHubOK'
<1> USE DEF TypeOK
<1>1. ASSUME NEW p \in PRs,
             \/ Start(p) \/ Enter(p) \/ Fetch(p) \/ ReadStatuses(p)
             \/ ReadRuns(p) \/ Poll(p) \/ ListReviews(p) \/ AcquireLane(p)
             \/ Reread(p) \/ Merged(p) \/ LoseMerged(p) \/ RefuseMerge(p)
             \/ BaseModified(p) \/ Backoff(p) \/ RetryGet(p) \/ Conflict(p)
             \/ CutShort(p) \/ Finish(p)
      PROVE  GitHubOK'
  BY <1>1 DEF Start, Enter, Fetch, ReadStatuses, ReadRuns, Poll, ListReviews,
     AcquireLane, Reread, Merged, LoseMerged, RefuseMerge, BaseModified,
     Backoff, RetryGet, Conflict, CutShort, Finish, github, GitHubOK
<1>2. ASSUME NEW p \in PRs, Retry(p) PROVE GitHubOK'
  BY <1>2 DEF Retry, GitHubOK, Colors
<1>3. ASSUME NEW p \in PRs, Changelog(p) PROVE GitHubOK'
  BY <1>3, NewHeadTyped DEF Changelog, GitHubOK, branch
<1>4. ASSUME NEW p \in PRs, Approve(p) PROVE GitHubOK'
  BY <1>4, HeadTyped DEF Approve, GitHubOK
<1>5. ASSUME NEW p \in PRs, Land(p) PROVE GitHubOK'
  BY <1>5, HeadTyped DEF Land, Disturb, GitHubOK, MStates
<1>6. ASSUME NEW p \in PRs, Refresh(p) PROVE GitHubOK'
  BY <1>6, NewHeadTyped DEF Refresh, UpdateBranch, GitHubOK, branch
<1>7. ASSUME NEW p \in PRs, Rule(p) PROVE GitHubOK'
  BY <1>7, NewHeadTyped DEF Rule, UpdateBranch, GitHubOK, branch
<1>8. ASSUME NEW p \in PRs, Label(p) PROVE GitHubOK'
  BY <1>8 DEF Label, Leftovers, GitHubOK, OutcomeOK
<1>9. ASSUME NEW p \in PRs, Report(p) PROVE GitHubOK'
  BY <1>9 DEF Report, GitHubOK, Colors
<1>10. ASSUME NEW p \in PRs, Push(p) PROVE GitHubOK'
  BY <1>10, NewHeadTyped DEF Push, GitHubOK
<1>11. ASSUME NEW p \in PRs, BaseMoves(p) PROVE GitHubOK'
  BY <1>11 DEF BaseMoves, GitHubOK, MStates
<1>12. ASSUME NEW p \in PRs, OutsideMerge(p) PROVE GitHubOK'
  BY <1>12, HeadTyped DEF OutsideMerge, GitHubOK
<1>13. ASSUME Revisit \/ Look \/ Stop \/ Over \/ UNCHANGED vars
       PROVE  GitHubOK'
  BY <1>13 DEF Revisit, Look, Stop, Over, vars, github, GitHubOK
<1> QED
  BY <1>1, <1>2, <1>3, <1>4, <1>5, <1>6, <1>7, <1>8, <1>9, <1>10, <1>11,
     <1>12, <1>13
  DEF Next, Goroutine, Environment

\* The history keeps its type.
LEMMA HistoryTyped ==
  ASSUME TypeOK, [Next]_vars
  PROVE  HistoryOK'
<1> USE DEF TypeOK
<1>1. ASSUME NEW p \in PRs,
             \/ Start(p) \/ Enter(p) \/ Poll(p) \/ AcquireLane(p)
             \/ Merged(p) \/ BaseModified(p) \/ Backoff(p)
             \/ CutShort(p) \/ Finish(p) \/ Label(p)
             \/ Report(p) \/ OutsideMerge(p)
      PROVE  HistoryOK'
  BY <1>1 DEF Start, Enter, Poll, AcquireLane, Merged, BaseModified, Backoff,
     CutShort, Finish, Label, Report, OutsideMerge, history, HistoryOK
<1>2. ASSUME NEW p \in PRs, Fetch(p) \/ Reread(p) PROVE HistoryOK'
  BY <1>2 DEF Fetch, Reread, Blinded, HistoryOK
<1>3. ASSUME NEW p \in PRs,
             \/ ReadStatuses(p) \/ Retry(p) \/ ListReviews(p) \/ Approve(p)
             \/ LoseMerged(p) \/ RefuseMerge(p) \/ RetryGet(p) \/ Conflict(p)
      PROVE  HistoryOK'
  BY <1>3 DEF ReadStatuses, Retry, ListReviews, Approve, LoseMerged,
     RefuseMerge, RetryGet, Conflict, Blinded, HistoryOK
<1>4. ASSUME NEW p \in PRs, ReadRuns(p) PROVE HistoryOK'
  <2>1. passed' \in [PRs -> SUBSET Heads]
    BY <1>4, HeadTyped DEF ReadRuns, HistoryOK
  <2>2. blind' \in [PRs -> BOOLEAN]
    BY <1>4 DEF ReadRuns, Blinded, HistoryOK
  <2> QED
    BY <1>4, <2>1, <2>2 DEF ReadRuns, HistoryOK
<1>5. ASSUME NEW p \in PRs, Changelog(p) \/ Refresh(p) \/ Rule(p) \/ Push(p)
      PROVE  HistoryOK'
  BY <1>5, NewHeadTyped
  DEF Changelog, Refresh, Rule, UpdateBranch, Push, Blinded, branch, HistoryOK
<1>6. ASSUME NEW p \in PRs, Land(p) PROVE HistoryOK'
  BY <1>6 DEF Land, Disturb, HistoryOK
<1>7. ASSUME NEW p \in PRs, BaseMoves(p) PROVE HistoryOK'
  BY <1>7 DEF BaseMoves, HistoryOK
<1>8. ASSUME Revisit \/ Look \/ Stop \/ Over \/ UNCHANGED vars
      PROVE  HistoryOK'
  BY <1>8 DEF Revisit, Look, Stop, Over, vars, history, HistoryOK
<1> QED
  BY <1>1, <1>2, <1>3, <1>4, <1>5, <1>6, <1>7, <1>8
  DEF Next, Goroutine, Environment

LEMMA ReadingTyped ==
  ASSUME NEW h \in 0..MaxHead,
         NEW s \in MStates \union Colors \union {"unknown"}
  PROVE  [head |-> h, state |-> s] \in Reading
  BY DEF Reading

LEMMA ForgetTyped ==
  ASSUME LocalOK, NEW p \in PRs, Forget(p)
  PROVE  LocalOK'
<1>1. Unread \in Reading
  BY BoundsAssumption DEF Unread, Reading
<1> QED
  BY <1>1, BoundsAssumption DEF LocalOK, Forget

LEMMA ReportedTyped ==
  ASSUME GitHubOK, NEW p \in PRs, NEW s \in Reported(p)
  PROVE  s \in MStates \union Colors \union {"unknown"}
  BY DEF Reported, GitHubOK

\* What a goroutine remembers keeps its type.
LEMMA LocalTyped ==
  ASSUME GitHubOK, RunOK, LocalOK, [Next]_vars
  PROVE  LocalOK'
<1>1. ASSUME NEW p \in PRs,
             \/ Start(p) \/ ReadRuns(p) \/ Retry(p) \/ Changelog(p)
             \/ ListReviews(p) \/ Approve(p) \/ Land(p) \/ Merged(p)
             \/ LoseMerged(p) \/ RefuseMerge(p) \/ BaseModified(p)
             \/ Backoff(p) \/ Conflict(p) \/ Refresh(p) \/ Finish(p) \/ Rule(p)
             \/ Environment(p)
      PROVE  LocalOK'
  BY <1>1 DEF Start, ReadRuns, Retry, Changelog, ListReviews, Approve, Land,
     Merged, LoseMerged, RefuseMerge, BaseModified, Backoff, Conflict,
     Refresh, Finish, Rule, Environment, Report, Push, BaseMoves,
     OutsideMerge, local, LocalOK
<1>2. ASSUME NEW p \in PRs, Enter(p) PROVE LocalOK'
  BY <1>2 DEF Enter, RunOK, LocalOK
<1>3. ASSUME NEW p \in PRs, Fetch(p) PROVE LocalOK'
  BY <1>3, ReadingTyped, ReportedTyped, HeadTyped DEF Fetch, LocalOK
<1>4. ASSUME NEW p \in PRs, ReadStatuses(p) PROVE LocalOK'
  <2>1. ci[p].statuses \in Colors
    BY DEF GitHubOK
  <2> QED
    BY <1>4, <2>1, ReadingTyped, HeadTyped DEF ReadStatuses, LocalOK
<1>5. ASSUME NEW p \in PRs, Poll(p) \/ AcquireLane(p) PROVE LocalOK'
  <2>1. polls' \in [PRs -> 0..MaxPolls]
    BY <1>5, BoundsAssumption DEF Poll, BeforeDeadline, AcquireLane, LocalOK
  <2> QED
    BY <1>5, <2>1 DEF Poll, AcquireLane, LocalOK
<1>6. ASSUME NEW p \in PRs, Reread(p) PROVE LocalOK'
  <2>1. ASSUME NEW s \in Reported(p)
        PROVE  [pull EXCEPT ![p].state = s] \in [PRs -> Reading]
    BY ReportedTyped DEF LocalOK, Reading
  <2>2. pull' \in [PRs -> Reading]
    BY <1>6, <2>1 DEF Reread, LocalOK
  <2>3. attempt' \in [PRs -> Nat]
    BY <1>6 DEF Reread, EnterMerge, LocalOK
  <2> QED
    BY <1>6, <2>2, <2>3 DEF Reread, LocalOK
<1>7. ASSUME NEW p \in PRs, RetryGet(p) PROVE LocalOK'
  BY <1>7, ReadingTyped, ReportedTyped, HeadTyped DEF RetryGet, LocalOK
<1>8. ASSUME NEW p \in PRs, CutShort(p) \/ Label(p) PROVE LocalOK'
  BY <1>8, ForgetTyped DEF CutShort, Label
<1>9. ASSUME Revisit \/ Look \/ Stop \/ Over \/ UNCHANGED vars
      PROVE  LocalOK'
  BY <1>9 DEF Revisit, Look, Stop, Over, vars, local, LocalOK
<1> QED
  BY <1>1, <1>2, <1>3, <1>4, <1>5, <1>6, <1>7, <1>8, <1>9
  DEF Next, Goroutine

\* What the run shares keeps its type.
LEMMA RunTyped ==
  ASSUME RunOK, [Next]_vars
  PROVE  RunOK'
<1>1. ASSUME NEW p \in PRs,
             \/ Start(p) \/ Enter(p) \/ Fetch(p) \/ ReadStatuses(p)
             \/ ReadRuns(p) \/ Poll(p) \/ Retry(p) \/ Changelog(p)
             \/ ListReviews(p) \/ Approve(p) \/ AcquireLane(p) \/ Reread(p)
             \/ Land(p) \/ LoseMerged(p) \/ RefuseMerge(p)
      PROVE  RunOK'
  BY <1>1 DEF Start, Enter, Fetch, ReadStatuses, ReadRuns, Poll, Retry,
     Changelog, ListReviews, Approve, AcquireLane, Reread, Land, LoseMerged,
     RefuseMerge, queue, RunOK
<1>2. ASSUME NEW p \in PRs,
             \/ BaseModified(p) \/ Backoff(p) \/ RetryGet(p) \/ Refresh(p)
             \/ CutShort(p) \/ Finish(p) \/ Rule(p) \/ Label(p)
             \/ Environment(p)
      PROVE  RunOK'
  BY <1>2 DEF BaseModified, Backoff, RetryGet, Refresh, CutShort, Finish,
     Rule, Label, Environment, Report, Push, BaseMoves, OutsideMerge, queue,
     RunOK
<1>3. ASSUME NEW p \in PRs, Merged(p) \/ Conflict(p) PROVE RunOK'
  <2>1. CASE Merged(p)
    BY <2>1 DEF Merged, RecordMerge, RunOK
  <2>2. CASE Conflict(p)
    <3>1. deferred' \in Seq(PRs)
      BY <2>2 DEF Conflict, Queued, RunOK
    <3> QED
      BY <2>2, <3>1 DEF Conflict, RunOK
  <2> QED
    BY <1>3, <2>1, <2>2
<1>4. ASSUME Revisit PROVE RunOK'
  BY <1>4 DEF Revisit, RunOK
<1>5. ASSUME Look PROVE RunOK'
  <2>1. pending # <<>> => Tail(pending) \in Seq(PRs)
    BY DEF RunOK
  <2>2. pending' \in Seq(PRs)
    BY <1>5, <2>1 DEF Look, RunOK
  <2>3. looks' \in 0..MaxLooks
    BY <1>5, BoundsAssumption DEF Look, RunOK
  <2> QED
    BY <1>5, <2>2, <2>3 DEF Look, RunOK
<1>6. ASSUME Stop \/ Over \/ UNCHANGED vars PROVE RunOK'
  BY <1>6 DEF Stop, Over, vars, queue, RunOK
<1> QED
  BY <1>1, <1>2, <1>3, <1>4, <1>5, <1>6 DEF Next, Goroutine

LEMMA TypeInit == Init => TypeOK
<1> SUFFICES ASSUME Init PROVE TypeOK
  OBVIOUS
<1> USE BoundsAssumption, SwitchesAssumption DEF Init
<1>1. GitHubOK
  <2>1. ci \in [PRs -> [statuses : Colors, runs : Colors]]
    <3>1. [statuses : FirstColors, runs : FirstColors]
            \subseteq [statuses : Colors, runs : Colors]
      OBVIOUS
    <3> QED
      BY <3>1
  <2>2. mstate \in [PRs -> MStates]
    OBVIOUS
  <2>3. head \in [PRs -> Heads] /\ landed \in [PRs -> 0..MaxHead]
    BY DEF Heads
  <2> QED
    BY <2>1, <2>2, <2>3 DEF GitHubOK
<1>2. RunOK
  BY DEF RunOK
<1>3. OutcomeOK
  BY DEF OutcomeOK, PCs, Rows, Transient
<1>4. LocalOK
  BY DEF LocalOK, Reading, Unread
<1>5. HistoryOK
  BY DEF HistoryOK
<1> QED
  BY <1>1, <1>2, <1>3, <1>4, <1>5 DEF TypeOK

LEMMA TypeStep == TypeOK /\ [Next]_vars => TypeOK'
  BY GitHubTyped, RunTyped, OutcomeTyped, LocalTyped, HistoryTyped DEF TypeOK

\* Every variable keeps its type: no handler writes a row, a label or a queue
\* entry the program has no name for.
THEOREM TypeCorrect == Spec => []TypeOK
  BY TypeInit, TypeStep, PTL DEF Spec

----------------------------------------------------------------------------
(* A merged head has passed.                                               *)

LEMMA HeadInit == Init => HeadInv
  BY DEF Init, HeadInv, HeadOK, CheckedPCs

\* A commit only touches its own branch, and moves it on.
LEMMA NewHeadGrows ==
  ASSUME TypeOK, NEW p \in PRs, NewHead(p) \/ UNCHANGED branch
  PROVE  /\ \A q \in PRs : head[q] <= head'[q]
         /\ \A q \in PRs : q # p => head'[q] = head[q]
<1>1. \A q \in PRs : head[q] \in Nat
  BY HeadTyped DEF TypeOK, Heads
<1> QED
  BY <1>1 DEF NewHead, branch, TypeOK, GitHubOK

\* Where a step may take pc, for the steps whose outcome has many branches.
LEMMA ApprovalTargets ==
  ASSUME OutcomeOK, NEW p \in PRs, ToApproval(p) \/ ToMerge(p)
  PROVE  /\ pc'[p] \in {"reviews", "lane", "refresh", "finish"}
         /\ \A q \in PRs : q # p => pc'[q] = pc[q]
  BY DEF ToApproval, ToMerge, Step, Leave, Set, Go, OutcomeOK

LEMMA VerdictTargets ==
  ASSUME OutcomeOK, NEW p \in PRs,
         Wait(p) \/ \E s \in RedRows : Reject(p, s)
  PROVE  /\ pc'[p] \in {"poll", "retry", "refresh", "finish"}
         /\ \A q \in PRs : q # p => pc'[q] = pc[q]
  BY DEF Reject, Wait, Leave, Set, Go, OutcomeOK

LEMMA ProceedTargets ==
  ASSUME OutcomeOK, NEW p \in PRs, Proceed(p)
  PROVE  /\ pc'[p] \in {"changelog", "reviews", "lane", "refresh", "finish"}
         /\ \A q \in PRs : q # p => pc'[q] = pc[q]
<1>1. CASE ToApproval(p)
  BY <1>1, ApprovalTargets
<1>2. CASE ~ToApproval(p)
  BY <1>2 DEF Proceed, Step, Leave, Set, Go, OutcomeOK
<1> QED
  BY <1>1, <1>2

\* What the invariant says of a PR that a step leaves alone, or ends.
LEMMA HeadKept ==
  ASSUME NEW q \in PRs, HeadInv,
         head'[q] = head[q], pc'[q] = pc[q], pull'[q] = pull[q],
         read'[q] = read[q], passed'[q] = passed[q],
         q \in swept' <=> q \in swept, landed'[q] = landed[q]
  PROVE  HeadOK(q)'
  BY DEF HeadInv, HeadOK

LEMMA HeadEnded ==
  ASSUME NEW q \in PRs, HeadInv,
         pc'[q] \in {"retry", "refresh", "conflict"} \union EndPCs,
         passed[q] \subseteq passed'[q],
         q \in swept' <=> q \in swept, landed'[q] = landed[q]
  PROVE  HeadOK(q)'
  BY DEF HeadInv, HeadOK, EndPCs, CheckedPCs

\* A goroutine that goes from one request behind the checks to another.
LEMMA HeadCarried ==
  ASSUME NEW q \in PRs, TypeOK, HeadInv, head[q] <= head'[q],
         pc[q] \in CheckedPCs, pc'[q] \in CheckedPCs,
         pull'[q].head = pull[q].head, passed'[q] = passed[q],
         pull[q].head \in Nat, head[q] \in Nat, head'[q] \in Nat,
         q \in swept' <=> q \in swept, landed'[q] = landed[q]
  PROVE  HeadOK(q)'
  BY DEF HeadInv, HeadOK, CheckedPCs

LEMMA HeadStep == TypeOK /\ TypeOK' /\ HeadInv /\ [Next]_vars => HeadInv'
<1> SUFFICES ASSUME TypeOK, TypeOK', HeadInv, [Next]_vars PROVE HeadInv'
  OBVIOUS
<1> USE DEF TypeOK
<1>t. \A q \in PRs : /\ head[q] \in Nat /\ head'[q] \in Nat
                     /\ pull[q].head \in Nat /\ pull'[q].head \in Nat
                     /\ read[q].head \in Nat /\ read'[q].head \in Nat
  BY BoundsAssumption DEF GitHubOK, LocalOK, Reading, Heads
<1>1. ASSUME NEW p \in PRs, Start(p) \/ Enter(p) \/ Finish(p) PROVE HeadInv'
  BY <1>1 DEF Start, Enter, Finish, HeadInv, HeadOK, CheckedPCs, Step, Go,
     github, history, local, OutcomeOK
<1>2. ASSUME NEW p \in PRs, Fetch(p) PROVE HeadInv'
  BY <1>2, <1>t DEF Fetch, Classify, HeadInv, HeadOK, CheckedPCs, Step,
     Leave, Set, Go, github, OutcomeOK, LocalOK
<1>3. ASSUME NEW p \in PRs, ReadStatuses(p) PROVE HeadInv'
  BY <1>3, <1>t DEF ReadStatuses, HeadInv, HeadOK, CheckedPCs, Step, Leave,
     Set, Go, github, OutcomeOK, LocalOK
<1>4. ASSUME NEW p \in PRs, ReadRuns(p) PROVE HeadInv'
  <2>1. UNCHANGED <<head, swept, landed, pull, read>>
    BY <1>4 DEF ReadRuns, github, local
  <2>2. \A q \in PRs : q # p => pc'[q] = pc[q] /\ passed'[q] = passed[q]
    <3>1. \A q \in PRs : q # p => passed'[q] = passed[q]
      BY <1>4 DEF ReadRuns, HistoryOK
    <3>2. \A q \in PRs : q # p => pc'[q] = pc[q]
      BY <1>4, VerdictTargets, ProceedTargets
      DEF ReadRuns, Leave, Go, OutcomeOK
    <3> QED
      BY <3>1, <3>2
  <2>3. \A q \in PRs : q # p => HeadOK(q)'
    BY <2>1, <2>2, HeadKept
  <2>4. passed[p] \subseteq passed'[p]
    BY <1>4 DEF ReadRuns, HistoryOK
  <2>5. /\ pull[p].head <= read[p].head
        /\ read[p].head <= head[p]
        /\ pull[p].head <= head[p]
    BY <1>4 DEF ReadRuns, HeadInv, HeadOK
  <2>6. \/ pc'[p] \in {"poll", "retry", "refresh", "finish"}
        \/ /\ pc'[p] \in {"changelog", "reviews", "lane", "refresh", "finish"}
           /\ read[p].head = head[p] => head[p] \in passed'[p]
    <3>1. CASE Wait(p) \/ \E r \in RedRows : Reject(p, r)
      BY <3>1, VerdictTargets
    <3>2. CASE Leave(p, "Failed")
      BY <3>2 DEF Leave, Go, OutcomeOK
    <3>3. CASE /\ Proceed(p)
               /\ read[p].head = head[p] =>
                    passed' = [passed EXCEPT ![p] = @ \union {head[p]}]
      <4>1. read[p].head = head[p] => head[p] \in passed'[p]
        BY <3>3 DEF HistoryOK
      <4> QED
        BY <3>3, <4>1, ProceedTargets
    <3> QED
      BY <1>4, <3>1, <3>2, <3>3 DEF ReadRuns, Checks
  <2>7. HeadOK(p)'
    <3>1. CASE pc'[p] \in {"retry", "refresh", "finish"}
      BY <2>1, <2>4, <3>1, HeadEnded DEF EndPCs
    <3>2. CASE pc'[p] = "poll"
      BY <2>1, <2>4, <2>5, <3>2 DEF HeadInv, HeadOK, CheckedPCs
    <3>3. CASE /\ pc'[p] \in {"changelog", "reviews", "lane"}
               /\ read[p].head = head[p] => head[p] \in passed'[p]
      <4>1. head[p] = pull[p].head => head[p] \in passed'[p]
        BY <1>t, <2>5, <3>3
      <4> QED
        BY <2>1, <2>4, <2>5, <3>3, <4>1 DEF HeadInv, HeadOK, CheckedPCs
    <3> QED
      BY <2>6, <3>1, <3>2, <3>3
  <2> QED
    BY <2>3, <2>7 DEF HeadInv
<1>5. ASSUME NEW p \in PRs, Poll(p) \/ Retry(p) PROVE HeadInv'
  BY <1>5, <1>t DEF Poll, Retry, HeadInv, HeadOK, CheckedPCs, Step, Leave,
     Set, Go, github, OutcomeOK, HistoryOK, local, history
<1>6. ASSUME NEW p \in PRs, Changelog(p) PROVE HeadInv'
  <2>1. UNCHANGED <<landed, swept, pull, read, passed>>
    BY <1>6 DEF Changelog, local
  <2>2. \A q \in PRs : head[q] <= head'[q] /\ (q # p => head'[q] = head[q])
    BY <1>6, NewHeadGrows DEF Changelog
  <2>3. /\ pc'[p] \in {"reviews", "lane", "refresh", "finish"}
        /\ \A q \in PRs : q # p => pc'[q] = pc[q]
    BY <1>6, ApprovalTargets DEF Changelog, Leave, Go, OutcomeOK
  <2>4. pc[p] \in CheckedPCs
    BY <1>6 DEF Changelog, CheckedPCs
  <2>5. \A q \in PRs : q # p => HeadOK(q)'
    BY <2>1, <2>2, <2>3, HeadKept
  <2>6. HeadOK(p)'
    <3>1. CASE pc'[p] \in {"refresh", "finish"}
      BY <2>1, <3>1, HeadEnded DEF EndPCs
    <3>2. CASE pc'[p] \in {"reviews", "lane"}
      BY <1>t, <2>1, <2>2, <2>4, <3>2, HeadCarried DEF CheckedPCs
    <3> QED
      BY <2>3, <3>1, <3>2
  <2> QED
    BY <2>5, <2>6 DEF HeadInv
<1>7. ASSUME NEW p \in PRs, ListReviews(p) \/ Approve(p) PROVE HeadInv'
  BY <1>7, <1>t DEF ListReviews, Approve, ToMerge, HeadInv, HeadOK,
     CheckedPCs, Step, Leave, Set, Go, github, OutcomeOK, local
<1>8. ASSUME NEW p \in PRs, AcquireLane(p) PROVE HeadInv'
  BY <1>8, <1>t DEF AcquireLane, HeadInv, HeadOK, CheckedPCs, Leave, Set, Go,
     github, OutcomeOK, history
<1>9. ASSUME NEW p \in PRs, Reread(p) PROVE HeadInv'
  <2>1. UNCHANGED <<head, landed, swept, read, passed>>
    BY <1>9 DEF Reread, github
  <2>2. /\ pc'[p] \in {"conflict", "refresh", "merge", "finish"}
        /\ \A q \in PRs : q # p => pc'[q] = pc[q]
    BY <1>9 DEF Reread, EnterMerge, Step, Leave, Set, Go, OutcomeOK
  <2>3. \A q \in PRs : /\ pull'[q].head = pull[q].head
                       /\ q # p => pull'[q] = pull[q]
    BY <1>9 DEF Reread, LocalOK, Reading
  <2>4. \A q \in PRs : q # p => HeadOK(q)'
    BY <2>1, <2>2, <2>3, HeadKept
  <2>5. HeadOK(p)'
    <3>1. CASE pc'[p] \in {"conflict", "refresh", "finish"}
      BY <2>1, <3>1, HeadEnded DEF EndPCs
    <3>2. CASE pc'[p] = "merge"
      <4>1. pc[p] \in CheckedPCs
        BY <1>9 DEF Reread, CheckedPCs
      <4> QED
        BY <1>t, <2>1, <2>3, <3>2, <4>1, HeadCarried DEF CheckedPCs
    <3> QED
      BY <2>2, <3>1, <3>2
  <2> QED
    BY <2>4, <2>5 DEF HeadInv
<1>10. ASSUME NEW p \in PRs, Land(p) PROVE HeadInv'
  BY <1>10, <1>t DEF Land, NamedHead, HeadInv, HeadOK, CheckedPCs, Step, Go,
     local, Heads, OutcomeOK, GitHubOK
<1>11. ASSUME NEW p \in PRs, Merged(p) \/ LoseMerged(p) \/ RefuseMerge(p)
       PROVE  HeadInv'
  BY <1>11, <1>t DEF Merged, LoseMerged, RefuseMerge, MergeError, HeadInv,
     HeadOK, CheckedPCs, Step, Leave, Set, Go, github, OutcomeOK, local,
     history
<1>12. ASSUME NEW p \in PRs, BaseModified(p) \/ Backoff(p) PROVE HeadInv'
  BY <1>12, <1>t DEF BaseModified, Backoff, HeadInv, HeadOK, CheckedPCs, Step,
     Leave, Set, Go, github, OutcomeOK, local, history
<1>13. ASSUME NEW p \in PRs, RetryGet(p) PROVE HeadInv'
  BY <1>13, <1>t DEF RetryGet, HeadInv, HeadOK, CheckedPCs, Step, Leave, Set,
     Go, github, OutcomeOK, LocalOK
<1>14. ASSUME NEW p \in PRs, Conflict(p) PROVE HeadInv'
  BY <1>14, <1>t DEF Conflict, HeadInv, HeadOK, CheckedPCs, Leave, Set, Go,
     github, OutcomeOK, local
<1>15. ASSUME NEW p \in PRs, Refresh(p) PROVE HeadInv'
  <2>1. UNCHANGED <<landed, swept, pull, read, passed>>
    BY <1>15 DEF Refresh, local
  <2>2. \A q \in PRs : q # p => head'[q] = head[q]
    BY <1>15, NewHeadGrows DEF Refresh, UpdateBranch, branch
  <2>3. pc'[p] = "finish" /\ \A q \in PRs : q # p => pc'[q] = pc[q]
    BY <1>15 DEF Refresh, Go, OutcomeOK
  <2>4. \A q \in PRs : q # p => HeadOK(q)'
    BY <2>1, <2>2, <2>3, HeadKept
  <2> QED
    BY <2>1, <2>3, <2>4, HeadEnded DEF HeadInv, EndPCs
<1>16. ASSUME NEW p \in PRs, CutShort(p) \/ Label(p) PROVE HeadInv'
  <2>1. UNCHANGED <<head, landed, swept, passed>>
    BY <1>16 DEF CutShort, Label, github, history
  <2>2. pc'[p] = "done" /\ \A q \in PRs : q # p => pc'[q] = pc[q]
    BY <1>16 DEF CutShort, Label, Step, Go, OutcomeOK
  <2>3. \A q \in PRs : q # p => pull'[q] = pull[q] /\ read'[q] = read[q]
    BY <1>16 DEF CutShort, Label, Forget, LocalOK
  <2>4. \A q \in PRs : q # p => HeadOK(q)'
    BY <2>1, <2>2, <2>3, HeadKept
  <2> QED
    BY <2>1, <2>2, <2>4, HeadEnded DEF HeadInv, EndPCs
<1>17. ASSUME NEW p \in PRs, Rule(p) PROVE HeadInv'
  <2>1. UNCHANGED <<landed, swept, pull, read, passed>>
    BY <1>17 DEF Rule, local
  <2>2. \A q \in PRs : q # p => head'[q] = head[q]
    BY <1>17, NewHeadGrows DEF Rule, UpdateBranch, branch
  <2>3. pc'[p] = "label" /\ \A q \in PRs : q # p => pc'[q] = pc[q]
    BY <1>17 DEF Rule, Go, OutcomeOK
  <2>4. \A q \in PRs : q # p => HeadOK(q)'
    BY <2>1, <2>2, <2>3, HeadKept
  <2> QED
    BY <2>1, <2>3, <2>4, HeadEnded DEF HeadInv, EndPCs
<1>18. ASSUME NEW p \in PRs, Push(p) PROVE HeadInv'
  BY <1>18, <1>t, NewHeadGrows DEF Push, HeadInv, HeadOK, outcome, local
<1>19. ASSUME NEW p \in PRs, Report(p) \/ BaseMoves(p) PROVE HeadInv'
  BY <1>19 DEF Report, BaseMoves, HeadInv, HeadOK, outcome, local, history
<1>20. ASSUME NEW p \in PRs, OutsideMerge(p) PROVE HeadInv'
  BY <1>20 DEF OutsideMerge, HeadInv, HeadOK, outcome, local, history, Open,
     GitHubOK
<1>21. ASSUME Look PROVE HeadInv'
  BY <1>21 DEF Look, HeadInv, HeadOK, CheckedPCs, outcome, local, history,
     github, Step, Set, Go, OutcomeOK, RunOK
<1>22. ASSUME Revisit \/ Stop \/ Over \/ UNCHANGED vars PROVE HeadInv'
  BY <1>22 DEF Revisit, Stop, Over, vars, HeadInv, HeadOK, outcome, local,
     history, github
<1> QED
  BY <1>1, <1>2, <1>3, <1>4, <1>5, <1>6, <1>7, <1>8, <1>9, <1>10, <1>11,
     <1>12, <1>13, <1>14, <1>15, <1>16, <1>17, <1>18, <1>19, <1>20, <1>21,
     <1>22
  DEF Next, Goroutine, Environment

LEMMA HeadCorrect == Spec => []HeadInv
<1>1. TypeOK /\ HeadInv /\ [Next]_vars => (TypeOK /\ HeadInv)'
  BY TypeStep, HeadStep
<1> QED
  BY <1>1, TypeInit, HeadInit, PTL DEF Spec

\* A head the sweep merges is one on which it read both kinds of checks green,
\* although pushes fall between any two of its requests (merge names the head
\* it read first; the reads by ref come later).
THEOREM HeadsPassed == Spec => []MergedHeadPassed
<1>1. TypeOK /\ HeadInv => MergedHeadPassed
  BY DEF TypeOK, GitHubOK, HeadInv, HeadOK, MergedHeadPassed
<1> QED
  BY <1>1, TypeCorrect, HeadCorrect, PTL

----------------------------------------------------------------------------
(* A row that says Merged stays.                                           *)

\* A step of p leaves the other PRs alone and claims no merge.
Aside(p) ==
  /\ \A q \in PRs : q # p => pc'[q] = pc[q] /\ row'[q] = row[q]
  /\ row'[p] = row[p] \/ row'[p] # "Merged"
  /\ pc'[p] # "merged"

\* No row that says Merged is taken back.
Stays == \A p \in PRs : row[p] = "Merged" => row'[p] = "Merged"

\* No row says Merged that did not.
Silent == \A p \in PRs : row'[p] = "Merged" => row[p] = "Merged"

LEMMA StepAside ==
  ASSUME OutcomeOK, NEW p \in PRs, NEW next \in PCs \ {"merged"},
         Step(p, next)
  PROVE  Aside(p)
  BY DEF Aside, Step, Go, OutcomeOK

LEMMA LeaveAside ==
  ASSUME OutcomeOK, NEW p \in PRs,
         NEW s \in {row[p]} \union (Rows \ {"Merged"}),
         Leave(p, s)
  PROVE  Aside(p)
  BY DEF Aside, Leave, Set, Go, OutcomeOK

LEMMA SetGoAside ==
  ASSUME OutcomeOK, NEW p \in PRs, NEW next \in PCs \ {"merged"},
         NEW s \in Rows \ {"Merged"}, Set(p, s), Go(p, next)
  PROVE  Aside(p)
  BY DEF Aside, Set, Go, OutcomeOK

LEMMA RowInit == Init => RowInv
  BY DEF Init, RowInv, RowOK, QueuedOK, Distinct

\* A step before ProcessPR is over: p is neither queued nor merged.
LEMMA RowWork ==
  ASSUME TypeOK, RowInv, NEW p \in PRs, pc[p] \notin EndPCs, Aside(p),
         UNCHANGED <<swept, deferred, pending, pass>>
  PROVE  RowInv' /\ Stays /\ Silent
<1>1. \A i \in DOMAIN deferred : deferred[i] \in PRs
  BY DEF TypeOK, RunOK
<1>2. \A i \in DOMAIN pending : pending[i] \in PRs
  BY DEF TypeOK, RunOK
<1>3. row[p] # "Merged" /\ row'[p] # "Merged"
  BY DEF RowInv, RowOK, Aside
<1>4. QueuedOK(deferred)'
  BY <1>1 DEF RowInv, QueuedOK, Distinct, Aside
<1>5. QueuedOK(pending)'
  BY <1>2 DEF RowInv, QueuedOK, Distinct, Aside
<1>6. \A q \in PRs : RowOK(q)'
  BY <1>3 DEF RowInv, RowOK, Aside
<1> QED
  BY <1>3, <1>4, <1>5, <1>6 DEF RowInv, Stays, Silent, Aside

\* A step after ProcessPR is over: a merged row is left as it is.
LEMMA RowEnd ==
  ASSUME TypeOK, RowInv, NEW p \in PRs, pc'[p] \in EndPCs, Aside(p),
         pc[p] \in EndPCs,
         row[p] = "Merged" => row'[p] = "Merged",
         UNCHANGED <<swept, deferred, pending, pass>>
  PROVE  RowInv' /\ Stays /\ Silent
<1>1. \A i \in DOMAIN deferred : deferred[i] \in PRs
  BY DEF TypeOK, RunOK
<1>2. \A i \in DOMAIN pending : pending[i] \in PRs
  BY DEF TypeOK, RunOK
<1>3. row'[p] = "Merged" => row[p] = "Merged"
  BY DEF Aside
<1>4. QueuedOK(deferred)'
  BY <1>1, <1>3 DEF RowInv, QueuedOK, Distinct, Aside
<1>5. QueuedOK(pending)'
  BY <1>2, <1>3 DEF RowInv, QueuedOK, Distinct, Aside
<1>6. \A q \in PRs : RowOK(q)'
  BY <1>3 DEF RowInv, RowOK, Aside
<1> QED
  BY <1>4, <1>5, <1>6 DEF RowInv, Stays, Silent, Aside

LEMMA RowStep ==
  TypeOK /\ RowInv /\ [Next]_vars =>
    RowInv' /\ Stays /\ (Silent \/ \E p \in PRs : Merged(p))
<1> SUFFICES ASSUME TypeOK, RowInv, [Next]_vars
               PROVE  /\ RowInv' /\ Stays
                      /\ Silent \/ \E p \in PRs : Merged(p)
  OBVIOUS
<1>o. OutcomeOK
  BY DEF TypeOK
<1>1. ASSUME NEW p \in PRs,
             \/ Start(p) \/ Enter(p) \/ Fetch(p) \/ ReadStatuses(p)
             \/ ReadRuns(p) \/ Poll(p) \/ Retry(p) \/ Changelog(p)
             \/ ListReviews(p) \/ Approve(p) \/ AcquireLane(p) \/ Reread(p)
             \/ LoseMerged(p) \/ RefuseMerge(p) \/ BaseModified(p)
             \/ Backoff(p) \/ RetryGet(p) \/ Refresh(p)
      PROVE  RowInv' /\ Stays /\ Silent
  <2> USE DEF PCs, Rows, Transient
  <2>1. UNCHANGED <<swept, deferred, pending, pass>>
    BY <1>1 DEF Start, Enter, Fetch, ReadStatuses, ReadRuns, Poll, Retry,
       Changelog, ListReviews, Approve, AcquireLane, Reread, LoseMerged,
       RefuseMerge, BaseModified, Backoff, RetryGet, Refresh, queue, github
  <2>2. pc[p] \notin EndPCs
    BY <1>1 DEF Start, Enter, Fetch, ReadStatuses, ReadRuns, Poll, Retry,
       Changelog, ListReviews, Approve, AcquireLane, Reread, LoseMerged,
       RefuseMerge, BaseModified, Backoff, RetryGet, Refresh, EndPCs
  <2>3. ASSUME ToApproval(p) \/ ToMerge(p) PROVE Aside(p)
    BY <1>o, <2>3, StepAside, LeaveAside DEF ToApproval, ToMerge
  <2>4. ASSUME Start(p) \/ Enter(p) PROVE Aside(p)
    BY <1>o, <2>4, StepAside DEF Start, Enter
  <2>5. ASSUME Fetch(p) PROVE Aside(p)
    BY <1>o, <2>5, StepAside, LeaveAside, SetGoAside DEF Fetch, Classify
  <2>6. ASSUME ReadStatuses(p) \/ Poll(p) \/ Retry(p) PROVE Aside(p)
    BY <1>o, <2>6, StepAside, LeaveAside DEF ReadStatuses, Poll, Retry
  <2>7. ASSUME NEW s \in RedRows, Reject(p, s) PROVE Aside(p)
    BY <1>o, <2>7, LeaveAside, SetGoAside, SwitchesAssumption
    DEF Reject, AllRedRows
  <2>8. ASSUME Wait(p) PROVE Aside(p)
    BY <1>o, <2>8, LeaveAside, SetGoAside DEF Wait
  <2>9. ASSUME Proceed(p) PROVE Aside(p)
    BY <1>o, <2>3, <2>9, StepAside, LeaveAside DEF Proceed
  <2>10. ASSUME ReadRuns(p) PROVE Aside(p)
    BY <1>o, <2>7, <2>8, <2>9, <2>10, LeaveAside DEF ReadRuns
  <2>11. ASSUME Changelog(p) PROVE Aside(p)
    BY <1>o, <2>3, <2>11, LeaveAside DEF Changelog
  <2>12. ASSUME ListReviews(p) \/ Approve(p) PROVE Aside(p)
    BY <1>o, <2>3, <2>12, LeaveAside, SetGoAside DEF ListReviews, Approve
  <2>13. ASSUME AcquireLane(p) PROVE Aside(p)
    <3>1. CASE Leave(p, "Skipped")
      BY <1>o, <3>1, LeaveAside
    <3>2. CASE ~Leave(p, "Skipped")
      BY <1>o, <2>13, <3>2 DEF AcquireLane, Aside, Set, Go, OutcomeOK
    <3> QED
      BY <3>1, <3>2
  <2>14. ASSUME Reread(p) PROVE Aside(p)
    BY <1>o, <2>14, StepAside, LeaveAside, SetGoAside DEF Reread, EnterMerge
  <2>15. ASSUME LoseMerged(p) \/ RefuseMerge(p) PROVE Aside(p)
    BY <1>o, <2>15, StepAside, LeaveAside
    DEF LoseMerged, RefuseMerge, MergeError
  <2>16. ASSUME BaseModified(p) \/ Backoff(p) PROVE Aside(p)
    BY <1>o, <2>16, StepAside, LeaveAside DEF BaseModified, Backoff
  <2>17. ASSUME RetryGet(p) PROVE Aside(p)
    BY <1>o, <2>17, StepAside, LeaveAside, SetGoAside DEF RetryGet
  <2>18. ASSUME Refresh(p) PROVE Aside(p)
    BY <1>o, <2>18 DEF Refresh, UpdateBranch, Aside, Set, Go, OutcomeOK
  <2>19. Aside(p)
    BY <1>1, <2>4, <2>5, <2>6, <2>10, <2>11, <2>12, <2>13, <2>14, <2>15,
       <2>16, <2>17, <2>18
  <2> QED
    BY <2>1, <2>2, <2>19, RowWork
<1>2. ASSUME NEW p \in PRs, CutShort(p) \/ Finish(p) \/ Rule(p) \/ Label(p)
      PROVE  RowInv' /\ Stays /\ Silent
  <2>1. UNCHANGED <<swept, deferred, pending, pass>>
    BY <1>2 DEF CutShort, Finish, Rule, Label, queue, github
  <2>2. pc[p] \in EndPCs /\ pc'[p] \in EndPCs
    BY <1>2, <1>o
    DEF CutShort, Finish, Rule, Label, Step, Go, EndPCs, OutcomeOK
  <2>3. Aside(p)
    BY <1>2, <1>o
    DEF CutShort, Finish, Rule, UpdateBranch, Label, Step, Set, Go, Aside,
        OutcomeOK
  <2>4. row[p] = "Merged" => row'[p] = "Merged"
    BY <1>2, <1>o DEF CutShort, Stands, Finish, Rule, UpdateBranch, Label,
       Step, Set, WrittenRows, Remediable, OutcomeOK
  <2> QED
    BY <2>1, <2>2, <2>3, <2>4, RowEnd
<1>3. ASSUME NEW p \in PRs, Land(p) PROVE RowInv' /\ Stays /\ Silent
  <2>1. /\ pc[p] = "merge" /\ pc'[p] = "merged" /\ p \in swept'
        /\ \A q \in PRs : q # p => pc'[q] = pc[q]
        /\ swept \subseteq swept'
        /\ UNCHANGED <<row, deferred, pending, pass>>
    BY <1>3, <1>o DEF Land, Step, Go, queue, OutcomeOK
  <2>2. /\ \A i \in DOMAIN deferred : deferred[i] \in PRs
        /\ \A i \in DOMAIN pending : pending[i] \in PRs
    BY DEF TypeOK, RunOK
  <2>3. QueuedOK(deferred)' /\ QueuedOK(pending)'
    BY <2>1, <2>2 DEF RowInv, QueuedOK, Distinct, EndPCs
  <2>4. \A q \in PRs : RowOK(q)'
    BY <2>1 DEF RowInv, RowOK, EndPCs
  <2> QED
    BY <2>1, <2>3, <2>4 DEF RowInv, Stays, Silent
<1>4. ASSUME NEW p \in PRs, Merged(p) PROVE RowInv' /\ Stays
  <2>1. /\ pc[p] = "merged" /\ pc'[p] = "finish" /\ row'[p] = "Merged"
        /\ \A q \in PRs : q # p => pc'[q] = pc[q] /\ row'[q] = row[q]
        /\ UNCHANGED <<swept, deferred, pending, pass>>
    BY <1>4, <1>o DEF Merged, Leave, Set, Go, github, OutcomeOK
  <2>2. /\ \A i \in DOMAIN deferred : deferred[i] \in PRs
        /\ \A i \in DOMAIN pending : pending[i] \in PRs
    BY DEF TypeOK, RunOK
  <2>3. QueuedOK(deferred)' /\ QueuedOK(pending)'
    BY <2>1, <2>2 DEF RowInv, QueuedOK, Distinct, EndPCs
  <2>4. \A q \in PRs : RowOK(q)'
    BY <2>1 DEF RowInv, RowOK, EndPCs
  <2> QED
    BY <2>1, <2>3, <2>4 DEF RowInv, Stays
<1>5. ASSUME NEW p \in PRs, Conflict(p) PROVE RowInv' /\ Stays /\ Silent
  <2>1. /\ pc[p] = "conflict" /\ pc'[p] = "finish" /\ row'[p] # "Merged"
        /\ \A q \in PRs : q # p => pc'[q] = pc[q] /\ row'[q] = row[q]
        /\ UNCHANGED <<swept, pending, pass>>
    BY <1>5, <1>o DEF Conflict, Leave, Set, Go, github, OutcomeOK
  <2>2. \/ UNCHANGED deferred
        \/ deferred' = Append(deferred, p) /\ pass = "first"
    BY <1>5 DEF Conflict, Queued
  <2>3. /\ deferred \in Seq(PRs)
        /\ \A i \in DOMAIN deferred : deferred[i] \in PRs
        /\ \A i \in DOMAIN pending : pending[i] \in PRs
    BY DEF TypeOK, RunOK
  <2>4. QueuedOK(pending)'
    BY <2>1, <2>3 DEF RowInv, QueuedOK, Distinct, EndPCs
  <2>5. QueuedOK(deferred)'
    <3>1. \A i \in DOMAIN deferred : deferred[i] # p
      BY <2>1 DEF RowInv, QueuedOK, EndPCs
    <3>2. /\ \A i \in DOMAIN deferred :
               pc'[deferred[i]] \in EndPCs /\ row'[deferred[i]] # "Merged"
          /\ pc'[p] \in EndPCs /\ row'[p] # "Merged"
      BY <2>1, <2>3 DEF RowInv, QueuedOK, EndPCs
    <3>3. CASE UNCHANGED deferred
      BY <3>2, <3>3 DEF RowInv, QueuedOK, Distinct
    <3>4. CASE deferred' = Append(deferred, p)
      <4>1. \A i \in DOMAIN deferred' :
              \/ i \in DOMAIN deferred /\ deferred'[i] = deferred[i]
              \/ i = Len(deferred) + 1 /\ deferred'[i] = p
        BY <2>3, <3>4
      <4> QED
        BY <3>1, <3>2, <4>1 DEF RowInv, QueuedOK, Distinct
    <3> QED
      BY <2>2, <3>3, <3>4
  <2>6. \A q \in PRs : RowOK(q)'
    BY <2>1 DEF RowInv, RowOK, EndPCs
  <2>7. Stays /\ Silent
    BY <2>1 DEF RowInv, RowOK, EndPCs, Stays, Silent
  <2> QED
    BY <2>1, <2>2, <2>4, <2>5, <2>6, <2>7 DEF RowInv
<1>6. ASSUME NEW p \in PRs, Environment(p) PROVE RowInv' /\ Stays /\ Silent
  BY <1>6 DEF Environment, Report, Push, BaseMoves, OutsideMerge, queue,
     outcome, RowInv, RowOK, QueuedOK, Distinct, Stays, Silent
<1>7. CASE Revisit
  BY <1>7 DEF Revisit, github, outcome, RowInv, RowOK, QueuedOK, Distinct,
     Stays, Silent
<1>8. CASE Look
  <2> DEFINE p == Head(pending)
  <2>1. /\ pending \in Seq(PRs) /\ pending # <<>> /\ p \in PRs
        /\ p = pending[1] /\ 1 \in DOMAIN pending
    BY <1>8 DEF Look, TypeOK, RunOK
  <2>2. row[p] # "Merged" /\ pc[p] \in EndPCs
    BY <2>1 DEF RowInv, QueuedOK
  <2>3. /\ UNCHANGED <<swept, deferred, pass>> /\ pass = "second"
        /\ row'[p] # "Merged"
        /\ pc'[p] \in EndPCs \union {"enter"}
        /\ \A q \in PRs : q # p => pc'[q] = pc[q] /\ row'[q] = row[q]
    BY <1>8, <1>o, <2>1, <2>2
    DEF Look, Step, Set, Go, outcome, github, OutcomeOK
  <2>4. \/ pending' = pending /\ UNCHANGED <<pc, row>>
        \/ pending' = Tail(pending)
    BY <1>8 DEF Look, outcome
  <2>5. deferred = <<>>
    BY <2>3 DEF RowInv
  <2>6. QueuedOK(deferred)'
    BY <2>3, <2>5 DEF QueuedOK, Distinct
  <2>7. QueuedOK(pending)'
    <3>1. CASE pending' = pending /\ UNCHANGED <<pc, row>>
      BY <3>1 DEF RowInv, QueuedOK, Distinct
    <3>2. CASE pending' = Tail(pending)
      <4>1. \A i \in DOMAIN pending' :
              /\ i + 1 \in DOMAIN pending /\ pending'[i] = pending[i + 1]
              /\ i + 1 # 1 /\ i \in Nat
        BY <2>1, <3>2
      <4>2. \A i \in DOMAIN pending : pending[i] \in PRs
        BY <2>1
      <4>3. \A i \in DOMAIN pending' : pending'[i] # p
        BY <2>1, <4>1 DEF RowInv, QueuedOK, Distinct
      <4>4. \A i \in DOMAIN pending' :
              pc'[pending'[i]] \in EndPCs /\ row'[pending'[i]] # "Merged"
        BY <2>3, <4>1, <4>2, <4>3 DEF RowInv, QueuedOK
      <4>5. \A i, j \in DOMAIN pending' : pending'[i] = pending'[j] => i = j
        BY <4>1 DEF RowInv, QueuedOK, Distinct
      <4> QED
        BY <4>4, <4>5 DEF QueuedOK, Distinct
    <3> QED
      BY <2>4, <3>1, <3>2
  <2>8. \A q \in PRs : RowOK(q)'
    BY <2>3 DEF RowInv, RowOK, EndPCs
  <2> QED
    BY <2>2, <2>3, <2>6, <2>7, <2>8 DEF RowInv, Stays, Silent
<1>9. CASE Stop \/ Over \/ UNCHANGED vars
  BY <1>9 DEF Stop, Over, vars, github, queue, outcome, RowInv, RowOK,
     QueuedOK, Distinct, Stays, Silent
<1> QED
  BY <1>1, <1>2, <1>3, <1>4, <1>5, <1>6, <1>7, <1>8, <1>9
  DEF Next, Goroutine

LEMMA RowCorrect == Spec => []RowInv
<1>1. TypeOK /\ RowInv /\ [Next]_vars => (TypeOK /\ RowInv)'
  BY TypeStep, RowStep
<1> QED
  BY <1>1, TypeInit, RowInit, PTL DEF Spec

\* A row that says Merged is final: no stop of the run, no rule of the
\* catalogue and no second pass takes it back (cutShort, applyRule, Revisit).
THEOREM MergedStays == Spec => MergedIsFinal
<1>1. TypeOK /\ RowInv /\ [Next]_vars =>
        [\A p \in PRs : row[p] = "Merged" => row'[p] = "Merged"]_row
  BY RowStep DEF Stays
<1> QED
  BY <1>1, TypeCorrect, RowCorrect, PTL DEF Spec, MergedIsFinal

----------------------------------------------------------------------------
(* The sweep implements Landing.tla.                                       *)

\* A commit is a push of the abstract branch, or nothing at the bound.
LEMMA CommitPushes ==
  ASSUME TypeOK, NEW p \in PRs, NewHead(p) \/ UNCHANGED branch
  PROVE  head' = [head EXCEPT ![p] = @ + 1] \/ UNCHANGED head
  BY DEF NewHead, branch

LEMMA PromiseInit == Init => Promise!Init
  BY DEF Init, Promise!Init

LEMMA PromiseStep ==
  TypeOK /\ HeadInv /\ RowInv /\ [Next]_vars
    => [Promise!Next]_(Promise!vars)
<1> SUFFICES ASSUME TypeOK, HeadInv, RowInv, [Next]_vars
             PROVE  Promise!Next \/ UNCHANGED Promise!vars
  OBVIOUS
<1> DEFINE Mapped == [q \in PRs |-> IF q \in swept THEN landed[q] ELSE 0]
           Said == {q \in PRs : row[q] = "Merged"}
<1>1. ASSUME NEW p \in PRs, Merged(p) PROVE Promise!Report(p)
  <2>1. pc[p] = "merged" /\ UNCHANGED <<head, passed, landed, swept>>
    BY <1>1 DEF Merged, github, history
  <2>2. Said' = Said \union {p}
    BY <1>1 DEF Merged, Leave, Set, TypeOK, OutcomeOK
  <2>3. p \in swept /\ landed[p] # 0
    BY <2>1 DEF RowInv, RowOK, HeadInv, HeadOK
  <2> QED
    BY <2>1, <2>2, <2>3 DEF Promise!Report
<1>2. CASE Silent
  <2>1. Said' = Said
    BY <1>2, RowStep DEF Silent, Stays
  <2>2. ASSUME NEW p \in PRs, Land(p) PROVE Promise!Land(p)
    <3>1. /\ pc[p] = "merge" /\ landed[p] = 0 /\ head[p] = pull[p].head
          /\ swept' = swept \union {p}
          /\ landed' = [landed EXCEPT ![p] = head[p]]
          /\ UNCHANGED <<head, passed>>
      BY <2>2 DEF Land, NamedHead, Open
    <3>2. p \notin swept /\ head[p] \in passed[p]
      BY <3>1 DEF HeadInv, HeadOK, CheckedPCs
    <3>3. Mapped' = [Mapped EXCEPT ![p] = head[p]] /\ Mapped[p] = 0
      BY <3>1, <3>2 DEF TypeOK, GitHubOK
    <3> QED
      BY <2>1, <3>1, <3>2, <3>3 DEF Promise!Land
  <2>3. ASSUME NEW p \in PRs, ReadRuns(p)
        PROVE  Promise!Pass(p) \/ UNCHANGED Promise!vars
    <3>1. UNCHANGED <<head, landed, swept>>
      BY <2>3 DEF ReadRuns, github
    <3>2. \/ passed' = [passed EXCEPT ![p] = @ \union {head[p]}]
          \/ UNCHANGED passed
      BY <2>3 DEF ReadRuns
    <3> QED
      BY <2>1, <3>1, <3>2 DEF Promise!Pass, Promise!vars
  <2>4. ASSUME NEW p \in PRs,
               Changelog(p) \/ Refresh(p) \/ Rule(p) \/ Push(p)
        PROVE  Promise!Push(p) \/ UNCHANGED Promise!vars
    <3>1. UNCHANGED <<passed, landed, swept>>
      BY <2>4 DEF Changelog, Refresh, Rule, UpdateBranch, Push
    <3>2. head' = [head EXCEPT ![p] = @ + 1] \/ UNCHANGED head
      BY <2>4, CommitPushes DEF Changelog, Refresh, Rule, UpdateBranch, Push
    <3> QED
      BY <2>1, <3>1, <3>2 DEF Promise!Push, Promise!vars
  <2>5. ASSUME NEW p \in PRs, OutsideMerge(p) PROVE UNCHANGED Promise!vars
    <3>1. landed[p] = 0 /\ landed' = [landed EXCEPT ![p] = head[p]]
      BY <2>5 DEF OutsideMerge, Open
    <3>2. UNCHANGED <<head, passed, swept>>
      BY <2>5 DEF OutsideMerge, history
    <3>3. p \notin swept
      BY <3>1 DEF HeadInv, HeadOK
    <3>4. Mapped' = Mapped
      BY <3>1, <3>2, <3>3 DEF TypeOK, GitHubOK
    <3> QED
      BY <2>1, <3>2, <3>4 DEF Promise!vars
  <2>6. ASSUME UNCHANGED <<head, passed, landed, swept>>
        PROVE  UNCHANGED Promise!vars
    BY <2>1, <2>6 DEF Promise!vars
  <2>7. ASSUME NEW p \in PRs,
               \/ Start(p) \/ Enter(p) \/ Fetch(p) \/ ReadStatuses(p)
               \/ Poll(p) \/ Retry(p) \/ ListReviews(p) \/ Approve(p)
               \/ AcquireLane(p) \/ Reread(p) \/ Merged(p) \/ LoseMerged(p)
               \/ RefuseMerge(p) \/ BaseModified(p) \/ Backoff(p)
               \/ RetryGet(p) \/ Conflict(p) \/ CutShort(p) \/ Finish(p)
               \/ Label(p) \/ Report(p) \/ BaseMoves(p)
        PROVE  UNCHANGED <<head, passed, landed, swept>>
    BY <2>7 DEF Start, Enter, Fetch, ReadStatuses, Poll, Retry, ListReviews,
       Approve, AcquireLane, Reread, Merged, LoseMerged, RefuseMerge,
       BaseModified, Backoff, RetryGet, Conflict, CutShort, Finish, Label,
       Report, BaseMoves, github, history
  <2>8. ASSUME Revisit \/ Look \/ Stop \/ Over \/ UNCHANGED vars
        PROVE  UNCHANGED <<head, passed, landed, swept>>
    BY <2>8 DEF Revisit, Look, Stop, Over, vars, github, history
  <2> QED
    BY <2>2, <2>3, <2>4, <2>5, <2>6, <2>7, <2>8
    DEF Next, Goroutine, Environment, Promise!Next
<1> QED
  BY <1>1, <1>2, RowStep DEF Promise!Next

\* The sweep implements its promise: whatever the interleaving, the failures
\* and the second pass do, it lands a head once, only the current one, only
\* after it passed, and reports only what it landed (merge, recordMerge).
THEOREM Refinement == Spec => KeepsPromise
  BY PromiseInit, PromiseStep, TypeCorrect, HeadCorrect, RowCorrect, PTL
  DEF Spec, KeepsPromise, Promise!Spec

----------------------------------------------------------------------------
(* Merges are asked for on a fresh read.                                   *)

LEMMA FreshInit == Init => FreshInv
  BY DEF Init, FreshInv, FreshOK, FetchedPCs, LanePCs, PCs, EndPCs

\* The other PRs, beside a step of p that records no merge.
LEMMA FreshOthers ==
  ASSUME NEW p \in PRs, \A q \in PRs : FreshOK(q), \A q, r \in lane : q = r,
         \A q \in PRs : q # p => /\ pc'[q] = pc[q] /\ seen'[q] = seen[q]
                                 /\ attempt'[q] = attempt[q]
                                 /\ outdated'[q] = outdated[q],
         merges' = merges, pc[p] # "merged",
         lane' = lane \/ lane' = lane \ {p}
  PROVE  /\ \A q \in PRs : q # p => FreshOK(q)'
         /\ \A q, r \in lane' : q = r
<1>1. ASSUME NEW q \in PRs, pc[q] = "merged"
      PROVE  pc'[q] = "merged"
  BY <1>1
<1>2. ASSUME NEW q \in PRs, q # p PROVE FreshOK(q)'
  <2>1. pc[q] \in LanePCs => q \in lane'
    BY <1>2 DEF FreshOK
  <2>2. pc[q] \in FetchedPCs /\ outdated[q] =>
          seen[q] < merges \/ \E r \in PRs : pc'[r] = "merged"
    BY <1>1, <1>2 DEF FreshOK
  <2> QED
    BY <1>2, <2>1, <2>2 DEF FreshOK
<1> QED
  BY <1>2

\* p itself: its ProcessPR is over, or goes on outside the lane.
LEMMA FreshEnded ==
  ASSUME NEW p \in PRs, pc'[p] \in EndPCs, seen'[p] <= merges'
  PROVE  FreshOK(p)'
  BY DEF FreshOK, EndPCs, LanePCs, FetchedPCs

LEMMA FreshCarried ==
  ASSUME NEW p \in PRs, FreshOK(p), pc[p] \in FetchedPCs \ {"merged"},
         pc'[p] \in FetchedPCs \ LanePCs,
         seen'[p] = seen[p], outdated'[p] = outdated[p], merges' = merges,
         \A q \in PRs : q # p => pc'[q] = pc[q]
  PROVE  FreshOK(p)'
<1>1. outdated[p] => seen[p] < merges \/ \E q \in PRs : pc'[q] = "merged"
  BY DEF FreshOK
<1>2. seen[p] <= merges
  BY DEF FreshOK
<1> QED
  BY <1>1, <1>2 DEF FreshOK, LanePCs

LEMMA LaneOfOne ==
  ASSUME NEW S, IsFiniteSet(S), Cardinality(S) < 1
  PROVE  S = {}
  BY FS_EmptySet, FS_CardinalityType

LEMMA FreshStep == TypeOK /\ FreshInv /\ [Next]_vars => FreshInv'
<1> SUFFICES ASSUME TypeOK, FreshInv, [Next]_vars, MergeLane = 1, Answered
             PROVE  /\ \A q \in PRs : FreshOK(q)'
                    /\ \A q, r \in lane' : q = r
                    /\ ctx' = "live"
  BY DEF FreshInv
<1> DEFINE Fresh == /\ \A q \in PRs : FreshOK(q)'
                    /\ \A q, r \in lane' : q = r
                    /\ ctx' = "live"
<1> USE DEF TypeOK
<1>i. /\ \A q \in PRs : FreshOK(q)
      /\ \A q, r \in lane : q = r
      /\ ctx = "live"
      /\ ~MayLoseReply
  BY DEF FreshInv, MayLoseReply, Answered
<1>t. /\ merges \in Nat
      /\ \A q \in PRs : seen[q] \in Nat /\ attempt[q] \in Nat
  BY DEF RunOK, LocalOK
<1>1. ASSUME NEW p \in PRs,
             \/ ReadStatuses(p) \/ ReadRuns(p) \/ Poll(p) \/ Retry(p)
             \/ Changelog(p) \/ ListReviews(p) \/ Approve(p)
             \/ RefuseMerge(p) \/ Conflict(p) \/ Refresh(p)
      PROVE  Fresh
  <2>1. UNCHANGED <<merges, ctx, seen, attempt, outdated>>
    BY <1>1 DEF ReadStatuses, ReadRuns, Poll, Retry, Changelog, ListReviews,
       Approve, RefuseMerge, Conflict, Refresh, queue, local, history
  <2>2. pc[p] \in FetchedPCs \ {"merged"}
    BY <1>1 DEF ReadStatuses, ReadRuns, Poll, Retry, Changelog, ListReviews,
       Approve, RefuseMerge, Conflict, Refresh, FetchedPCs, PCs, EndPCs
  <2> DEFINE Away == /\ \A q \in PRs : q # p => pc'[q] = pc[q]
                     /\ lane' = lane \/ lane' = lane \ {p}
                     /\ pc'[p] \in EndPCs \/ pc'[p] \in FetchedPCs \ LanePCs
  <2> USE DEF PCs, EndPCs, LanePCs, FetchedPCs
  <2>3. ASSUME NEW s, Leave(p, s) PROVE Away
    BY <2>3 DEF Leave, Go, OutcomeOK
  <2>4. ASSUME NEW next \in FetchedPCs \ LanePCs,
               Go(p, next), UNCHANGED lane
        PROVE  Away
    <3>1. pc'[p] = next /\ \A q \in PRs : q # p => pc'[q] = pc[q]
      BY <2>4 DEF Go, OutcomeOK
    <3> QED
      BY <2>4, <3>1
  <2>5. ASSUME ToApproval(p) \/ ToMerge(p) PROVE Away
    BY <2>3, <2>4, <2>5 DEF ToApproval, ToMerge, Step
  <2>6. ASSUME Wait(p) \/ \E s \in RedRows : Reject(p, s) PROVE Away
    BY <2>3, <2>4, <2>6 DEF Wait, Reject
  <2>7. ASSUME Proceed(p) PROVE Away
    BY <2>3, <2>4, <2>5, <2>7 DEF Proceed, Step
  <2>8. ASSUME ReadStatuses(p) \/ ReadRuns(p) \/ Poll(p) \/ Retry(p)
        PROVE  Away
    BY <2>3, <2>4, <2>6, <2>7, <2>8
    DEF ReadStatuses, ReadRuns, Poll, Retry, Step
  <2>9. ASSUME Changelog(p) \/ ListReviews(p) \/ Approve(p) PROVE Away
    BY <2>3, <2>4, <2>5, <2>9 DEF Changelog, ListReviews, Approve
  <2>10. ASSUME RefuseMerge(p) \/ Conflict(p) \/ Refresh(p) PROVE Away
    <3>1. CASE Refresh(p)
      BY <3>1 DEF Refresh, Go, OutcomeOK
    <3>2. CASE RefuseMerge(p) \/ Conflict(p)
      BY <2>3, <2>4, <3>2 DEF RefuseMerge, MergeError, Conflict, Step
    <3> QED
      BY <2>10, <3>1, <3>2
  <2>11. Away
    BY <1>1, <2>8, <2>9, <2>10
  <2>12. FreshOK(p)'
    <3>1. CASE pc'[p] \in EndPCs
      <4>1. seen'[p] <= merges'
        BY <1>i, <2>1 DEF FreshOK
      <4> QED
        BY <3>1, <4>1, FreshEnded
    <3>2. CASE pc'[p] \in FetchedPCs \ LanePCs
      BY <1>i, <2>1, <2>2, <2>11, <3>2, FreshCarried
    <3> QED
      BY <2>11, <3>1, <3>2
  <2> QED
    BY <1>i, <2>1, <2>2, <2>11, <2>12, FreshOthers
<1>2. ASSUME NEW p \in PRs, Start(p) \/ Enter(p) PROVE Fresh
  <2>1. /\ \A q \in PRs : q # p => pc'[q] = pc[q] /\ seen'[q] = seen[q]
        /\ pc'[p] \in {"enter", "fetch", "done"}
        /\ seen'[p] <= merges /\ pc[p] # "merged"
        /\ UNCHANGED <<merges, ctx, lane, attempt, outdated>>
    BY <1>2, <1>i, <1>t
    DEF Start, Enter, Step, Go, OutcomeOK, LocalOK, FreshOK, queue, local,
        history
  <2>2. FreshOK(p)'
    BY <2>1 DEF FreshOK, FetchedPCs, LanePCs, EndPCs
  <2> QED
    BY <1>i, <2>1, <2>2, FreshOthers
<1>3. ASSUME NEW p \in PRs, Fetch(p) PROVE Fresh
  <2>1. /\ \A q \in PRs : q # p =>
             pc'[q] = pc[q] /\ outdated'[q] = outdated[q]
        /\ pc'[p] \in EndPCs \union {"statuses", "conflict"}
        /\ pc'[p] \in {"statuses", "conflict"} => ~outdated'[p]
        /\ pc[p] # "merged"
        /\ lane' = lane \/ lane' = lane \ {p}
        /\ UNCHANGED <<merges, ctx, seen, attempt>>
    BY <1>3 DEF Fetch, Classify, Leave, Step, Set, Go, OutcomeOK, HistoryOK,
       EndPCs, queue
  <2>2. FreshOK(p)'
    BY <1>i, <2>1 DEF FreshOK, LanePCs, FetchedPCs, EndPCs
  <2> QED
    BY <1>i, <2>1, <2>2, FreshOthers
<1>4. ASSUME NEW p \in PRs, AcquireLane(p) PROVE Fresh
  <2>1. /\ \A q \in PRs : q # p =>
             pc'[q] = pc[q] /\ attempt'[q] = attempt[q]
        /\ pc[p] = "lane"
        /\ UNCHANGED <<merges, ctx, seen, outdated>>
    BY <1>4 DEF AcquireLane, Leave, Set, Go, OutcomeOK, LocalOK, queue,
       history
  <2>2. lane = {}
    <3>1. IsFiniteSet(lane)
      BY PRsAssumption, FS_Subset DEF OutcomeOK
    <3>2. Cardinality(lane) < 1
      BY <1>4, <1>i DEF AcquireLane
    <3> QED
      BY <3>1, <3>2, LaneOfOne
  <2>3. \A q \in PRs : pc[q] # "merged"
    BY <1>i, <2>2 DEF FreshOK, LanePCs
  <2>4. seen[p] = merges => ~outdated[p]
    BY <1>i, <1>t, <2>1, <2>3
    DEF FreshOK, FetchedPCs, PCs, EndPCs
  <2>5. lane' = {p}
    BY <1>4, <1>i, <2>2 DEF AcquireLane
  <2>6. \/ pc'[p] \in {"reread", "refresh"}
        \/ pc'[p] = "merge" /\ seen[p] = merges /\ attempt'[p] = 1
    BY <1>4, <1>i DEF AcquireLane, SiblingMerged, Go, OutcomeOK, LocalOK
  <2>7. FreshOK(p)'
    BY <1>i, <2>1, <2>4, <2>5, <2>6, <2>3
    DEF FreshOK, LanePCs, FetchedPCs, PCs, EndPCs
  <2>8. ASSUME NEW q \in PRs, q # p PROVE FreshOK(q)'
    BY <1>i, <2>1, <2>2, <2>3, <2>8 DEF FreshOK
  <2> QED
    BY <1>i, <2>1, <2>5, <2>7, <2>8
<1>5. ASSUME NEW p \in PRs, Reread(p) PROVE Fresh
  <2>1. /\ \A q \in PRs : q # p =>
             /\ pc'[q] = pc[q] /\ attempt'[q] = attempt[q]
             /\ outdated'[q] = outdated[q]
        /\ pc[p] = "reread"
        /\ UNCHANGED <<merges, ctx, seen>>
    BY <1>5 DEF Reread, EnterMerge, Leave, Step, Set, Go, OutcomeOK, LocalOK,
       HistoryOK, queue
  <2>2. \/ pc'[p] = "finish" /\ lane' = lane \ {p}
        \/ pc'[p] \in {"conflict", "refresh"} /\ lane' = lane /\ ~outdated'[p]
        \/ /\ pc'[p] = "merge" /\ lane' = lane /\ ~outdated'[p]
           /\ attempt'[p] = 1
    BY <1>5 DEF Reread, EnterMerge, Leave, Step, Set, Go, OutcomeOK, LocalOK,
       HistoryOK
  <2>3. FreshOK(p)'
    BY <1>i, <2>1, <2>2 DEF FreshOK, LanePCs, FetchedPCs, EndPCs
  <2> QED
    BY <1>i, <2>1, <2>2, <2>3, FreshOthers
<1>6. ASSUME NEW p \in PRs, Land(p) PROVE Fresh
  <2>1. /\ pc[p] = "merge" /\ pc'[p] = "merged" /\ p \in lane
        /\ \A q \in PRs : q # p => pc'[q] = pc[q]
        /\ UNCHANGED <<merges, ctx, lane, seen, attempt>>
    BY <1>6, <1>i
    DEF Land, Step, Go, OutcomeOK, queue, local, FreshOK, LanePCs
  <2>2. ASSUME NEW q \in PRs PROVE FreshOK(q)'
    <3>1. pc'[q] \in LanePCs => q \in lane'
      BY <1>i, <2>1, <2>2 DEF FreshOK
    <3>2. pc'[q] # "merge"
      BY <1>i, <2>1, <2>2 DEF FreshOK, LanePCs
    <3>3. pc'[q] \in {"backoff", "retryget"} => attempt'[q] > 0
      BY <1>i, <2>1, <2>2 DEF FreshOK
    <3>4. seen'[q] <= merges'
      BY <1>i, <2>1, <2>2 DEF FreshOK
    <3> QED
      BY <2>1, <2>2, <3>1, <3>2, <3>3, <3>4 DEF FreshOK
  <2> QED
    BY <1>i, <2>1, <2>2
<1>7. ASSUME NEW p \in PRs, Merged(p) PROVE Fresh
  <2>1. /\ pc[p] = "merged" /\ pc'[p] = "finish"
        /\ \A q \in PRs : q # p => pc'[q] = pc[q]
        /\ merges' = merges + 1 /\ lane' = lane \ {p}
        /\ UNCHANGED <<ctx, seen, attempt, outdated>>
    BY <1>7 DEF Merged, RecordMerge, Leave, Go, OutcomeOK, local, history
  <2>2. ASSUME NEW q \in PRs PROVE FreshOK(q)'
    <3>1. pc'[q] \in LanePCs => q \in lane'
      BY <1>i, <2>1, <2>2 DEF FreshOK, LanePCs
    <3>2. seen'[q] < merges'
      BY <1>i, <1>t, <2>1, <2>2 DEF FreshOK
    <3>3. CASE q = p
      BY <1>t, <2>1, <3>1, <3>2, <3>3 DEF FreshOK
    <3>4. CASE q # p
      BY <1>i, <1>t, <2>1, <2>2, <3>1, <3>2, <3>4 DEF FreshOK
    <3> QED
      BY <3>3, <3>4
  <2> QED
    BY <1>i, <2>1, <2>2
<1>8. ASSUME NEW p \in PRs, LoseMerged(p) PROVE Fresh
  BY <1>8, <1>i DEF LoseMerged
<1>9. ASSUME NEW p \in PRs, BaseModified(p) \/ Backoff(p) PROVE Fresh
  <2>1. /\ \A q \in PRs : q # p => pc'[q] = pc[q]
        /\ pc[p] \in {"merge", "backoff"}
        /\ \/ pc'[p] = "finish" /\ lane' = lane \ {p}
           \/ pc'[p] \in {"backoff", "retryget"} /\ lane' = lane
        /\ UNCHANGED <<merges, ctx, seen, attempt, outdated>>
    BY <1>9 DEF BaseModified, Backoff, Leave, Step, Go, OutcomeOK, queue,
       local, history
  <2>2. outdated[p] => seen[p] < merges \/ \E q \in PRs : pc'[q] = "merged"
    BY <1>i, <2>1 DEF FreshOK, FetchedPCs, PCs, EndPCs
  <2>3. FreshOK(p)'
    BY <1>i, <2>1, <2>2 DEF FreshOK, LanePCs
  <2> QED
    BY <1>i, <2>1, <2>3, FreshOthers
<1>10. ASSUME NEW p \in PRs, RetryGet(p) PROVE Fresh
  <2>1. /\ \A q \in PRs : q # p =>
             pc'[q] = pc[q] /\ attempt'[q] = attempt[q]
        /\ pc[p] = "retryget"
        /\ \/ pc'[p] = "finish" /\ lane' = lane \ {p}
           \/ pc'[p] \in {"conflict", "refresh"} /\ lane' = lane
           \/ /\ pc'[p] = "merge" /\ lane' = lane
              /\ attempt'[p] = attempt[p] + 1
        /\ UNCHANGED <<merges, ctx, seen, outdated>>
    BY <1>10 DEF RetryGet, Leave, Step, Set, Go, OutcomeOK, LocalOK, queue
  <2>2. outdated[p] => seen[p] < merges \/ \E q \in PRs : pc'[q] = "merged"
    BY <1>i, <2>1 DEF FreshOK, FetchedPCs, PCs, EndPCs
  <2>3. attempt[p] > 0
    BY <1>i, <2>1 DEF FreshOK
  <2>4. FreshOK(p)'
    BY <1>i, <1>t, <2>1, <2>2, <2>3 DEF FreshOK, LanePCs
  <2> QED
    BY <1>i, <2>1, <2>4, FreshOthers
<1>11. ASSUME NEW p \in PRs, CutShort(p) \/ Finish(p) \/ Rule(p) \/ Label(p)
       PROVE  Fresh
  <2>1. /\ \A q \in PRs : q # p => /\ pc'[q] = pc[q] /\ seen'[q] = seen[q]
                                   /\ attempt'[q] = attempt[q]
        /\ pc[p] # "merged" /\ pc'[p] \in EndPCs
        /\ seen'[p] = seen[p] \/ seen'[p] = 0
        /\ UNCHANGED <<merges, ctx, lane, outdated>>
    BY <1>11 DEF CutShort, Finish, Rule, Label, Forget, Step, Go, EndPCs,
       OutcomeOK, LocalOK, queue, local, history
  <2>2. seen'[p] <= merges'
    BY <1>i, <1>t, <2>1 DEF FreshOK
  <2> QED
    BY <1>i, <2>1, <2>2, FreshEnded, FreshOthers
<1>12. ASSUME NEW p \in PRs, Environment(p) PROVE Fresh
  BY <1>12, <1>i DEF Environment, Report, Push, BaseMoves, OutsideMerge,
     queue, local, outcome, history, FreshOK
<1>13. CASE Look
  <2> DEFINE p == Head(pending)
  <2>1. /\ \A q \in PRs : q # p => pc'[q] = pc[q]
        /\ \A q \in PRs : pc[q] = "done"
        /\ pc'[p] = "enter" \/ UNCHANGED pc
        /\ UNCHANGED <<merges, ctx, lane, seen, attempt, outdated>>
    BY <1>13
    DEF Look, Idle, Step, Go, OutcomeOK, outcome, local, history, github
  <2>2. \A q \in PRs : pc'[q] \in {"enter", "done"}
    BY <2>1 DEF OutcomeOK
  <2> QED
    BY <1>i, <2>1, <2>2 DEF FreshOK, FetchedPCs, LanePCs, EndPCs
<1>14. CASE Stop
  BY <1>14, <1>i DEF Stop, Answered
<1>15. CASE Revisit \/ Over \/ UNCHANGED vars
  BY <1>15, <1>i DEF Revisit, Over, vars, queue, local, outcome, history,
     FreshOK
<1> QED
  BY <1>1, <1>2, <1>3, <1>4, <1>5, <1>6, <1>7, <1>8, <1>9, <1>10, <1>11,
     <1>12, <1>13, <1>14, <1>15
  DEF Next, Goroutine

\* With a lane of one and no answer to a merge lost, no merge is asked for on
\* a mergeable state read before the sweep's last merge in the repository:
\* the count a PR remembers misses only a merge that still holds the lane
\* (mergesSeen, mergeInLane, recordMerge before the slot is given back).
THEOREM MergesAreFresh == Spec => []FreshUnderLane
<1>1. TypeOK /\ FreshInv /\ [Next]_vars => (TypeOK /\ FreshInv)'
  BY TypeStep, FreshStep
<1>2. FreshInv => FreshUnderLane
  BY DEF FreshInv, FreshUnderLane, FreshOK
<1> QED
  BY <1>1, <1>2, TypeInit, FreshInit, PTL DEF Spec

=============================================================================
