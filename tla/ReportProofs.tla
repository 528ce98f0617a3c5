---------------------------- MODULE ReportProofs ----------------------------
(***************************************************************************)
(* More about Sweep.tla, on top of what SweepProofs.tla proves: what the   *)
(* rows, the queue of the second pass and the count of merges tell of a    *)
(* sweep, what a stopped run leaves, that a dry run writes nothing, and     *)
(* that the label of a PR is that of its row.                              *)
(***************************************************************************)
EXTENDS SweepProofs

-----------------------------------------------------------------------------
(* One step moves one goroutine, and only a conflict makes a row await a    *)
(* rebase while goroutines run.                                             *)
Others(p) == \A q \in PRs : q # p => pc'[q] = pc[q] /\ row'[q] = row[q]

Awaits(p) == row'[p] = "AwaitingRebase" => row[p] = "AwaitingRebase"
Moves(p) == Others(p) /\ Awaits(p)

LEMMA StepMoves ==
  ASSUME OutcomeOK, NEW p \in PRs, NEW next, Step(p, next)
  PROVE  Moves(p)
  BY DEF Moves, Others, Awaits, Step, Go, OutcomeOK

LEMMA LeaveMoves ==
  ASSUME OutcomeOK, NEW p \in PRs, NEW s, Leave(p, s)
  PROVE  Others(p) /\ (s # "AwaitingRebase" => Moves(p))
  BY DEF Moves, Others, Awaits, Leave, Set, Go, OutcomeOK

LEMMA SetGoMoves ==
  ASSUME OutcomeOK, NEW p \in PRs, NEW s, NEW next, Set(p, s), Go(p, next)
  PROVE  Others(p) /\ (s # "AwaitingRebase" => Moves(p))
  BY DEF Moves, Others, Awaits, Set, Go, OutcomeOK

LEMMA OneMoves ==
  ASSUME OutcomeOK, NEW p \in PRs, Start(p) \/ Goroutine(p)
  PROVE  Others(p) /\ (Conflict(p) \/ Awaits(p))
<1>1. ASSUME ToApproval(p) \/ ToMerge(p) PROVE Moves(p)
  BY <1>1, StepMoves, LeaveMoves DEF ToApproval, ToMerge
<1>2. ASSUME NEW s \in RedRows, Reject(p, s) PROVE Moves(p)
  BY <1>2, LeaveMoves, SetGoMoves, SwitchesAssumption DEF Reject, AllRedRows
<1>3. ASSUME Wait(p) \/ Proceed(p) PROVE Moves(p)
  BY <1>1, <1>3, StepMoves, LeaveMoves, SetGoMoves DEF Wait, Proceed
<1>4. ASSUME \/ Start(p) \/ Enter(p) \/ Fetch(p) \/ ReadStatuses(p) \/ Poll(p)
             \/ Retry(p)
      PROVE  Moves(p)
  BY <1>4, StepMoves, LeaveMoves, SetGoMoves
  DEF Start, Enter, Fetch, Classify, ReadStatuses, Poll, Retry
<1>5. ASSUME ReadRuns(p) \/ Changelog(p) \/ ListReviews(p) \/ Approve(p)
      PROVE  Moves(p)
  BY <1>1, <1>2, <1>3, <1>5, LeaveMoves, SetGoMoves
  DEF ReadRuns, Changelog, ListReviews, Approve
<1>6. ASSUME AcquireLane(p) PROVE Moves(p)
  <2>1. CASE Leave(p, "Skipped")
    BY <2>1, LeaveMoves
  <2>2. CASE ~Leave(p, "Skipped")
    BY <1>6, <2>2
    DEF AcquireLane, Moves, Others, Awaits, Set, Go, OutcomeOK
  <2> QED
    BY <2>1, <2>2
<1>7. ASSUME Reread(p) \/ RetryGet(p) PROVE Moves(p)
  BY <1>7, StepMoves, LeaveMoves, SetGoMoves
  DEF Reread, EnterMerge, RetryGet
<1>8. ASSUME \/ Land(p) \/ Merged(p) \/ LoseMerged(p) \/ RefuseMerge(p)
             \/ BaseModified(p) \/ Backoff(p)
      PROVE  Moves(p)
  BY <1>8, StepMoves, LeaveMoves
  DEF Land, Merged, LoseMerged, RefuseMerge, MergeError, BaseModified,
      Backoff
<1>9. ASSUME Conflict(p) PROVE Others(p)
  BY <1>9, LeaveMoves DEF Conflict
<1>10. ASSUME Refresh(p) \/ Rule(p) PROVE Moves(p)
  BY <1>10
  DEF Refresh, Rule, UpdateBranch, Moves, Others, Awaits, Set, Go, OutcomeOK
<1>11. ASSUME CutShort(p) PROVE Moves(p)
  BY <1>11 DEF CutShort, Stands, WrittenRows, Moves, Others, Awaits, Set, Go,
     OutcomeOK
<1>12. ASSUME Finish(p) \/ Label(p) PROVE Moves(p)
  BY <1>12, StepMoves DEF Finish, Label
<1> QED
  BY <1>4, <1>5, <1>6, <1>7, <1>8, <1>9, <1>10, <1>11, <1>12
  DEF Goroutine, Moves

-----------------------------------------------------------------------------
(* What is merged is reported.                                              *)
Told == {p \in PRs : row[p] = "Merged"}

ReportInv ==
  /\ merges = Cardinality(Told)
  /\ Answered => /\ ctx = "live"
                 /\ \A p \in swept : pc[p] # "merged" => row[p] = "Merged"

LEMMA ReportInit == Init => ReportInv
<1> SUFFICES ASSUME Init PROVE ReportInv
  OBVIOUS
<1>1. Told = {}
  BY DEF Init, Told
<1>2. Cardinality(Told) = 0
  BY <1>1, FS_EmptySet
<1> QED
  BY <1>2 DEF Init, ReportInv

LEMMA ReportStep ==
  TypeOK /\ RowInv /\ ReportInv /\ [Next]_vars => ReportInv'
<1> SUFFICES ASSUME TypeOK, RowInv, ReportInv, [Next]_vars PROVE ReportInv'
  OBVIOUS
<1>o. OutcomeOK /\ Stays /\ IsFiniteSet(Told)
  <2>1. IsFiniteSet(Told)
    BY PRsAssumption, FS_Subset DEF Told
  <2> QED
    BY <2>1, RowStep DEF TypeOK
<1>c. Answered => ctx' = "live"
  <2> SUFFICES ASSUME Answered PROVE ctx' = "live"
    OBVIOUS
  <2>1. ctx = "live"
    BY DEF ReportInv
  <2>2. ~Stop
    BY DEF Stop, Answered
  <2>3. UNCHANGED ctx
    BY <2>2 DEF Next, Goroutine, Environment, Start, Enter, Fetch,
       ReadStatuses, ReadRuns, Poll, Retry, Changelog, ListReviews, Approve,
       AcquireLane, Reread, Land, Merged, LoseMerged, RefuseMerge,
       BaseModified, Backoff, RetryGet, Conflict, Refresh, CutShort, Finish,
       Rule, Label, Report, Push, BaseMoves, OutsideMerge, Revisit, Look,
       Over, vars
  <2> QED
    BY <2>1, <2>3
\* A step that lands nothing and hears of no merge.
<1>1. ASSUME Silent, UNCHANGED <<merges, swept>>,
             \A q \in PRs : pc[q] = "merged" => pc'[q] = "merged"
      PROVE  ReportInv'
  <2>1. Told' = Told
    BY <1>o, <1>1 DEF Told, Silent, Stays
  <2>2. swept \subseteq PRs
    BY DEF TypeOK, GitHubOK
  <2> QED
    BY <1>o, <1>c, <1>1, <2>1, <2>2 DEF ReportInv, Stays
<1>2. ASSUME NEW p \in PRs, Merged(p) PROVE ReportInv'
  <2>1. /\ pc[p] = "merged" /\ row'[p] = "Merged" /\ merges' = merges + 1
        /\ UNCHANGED swept
    BY <1>2, <1>o DEF Merged, RecordMerge, Leave, Set, github, OutcomeOK
  <2>2. Others(p)
    BY <1>2, <1>o, OneMoves DEF Goroutine
  <2>3. p \notin Told
    BY <2>1 DEF Told, RowInv, RowOK, EndPCs
  <2>4. Told' = Told \union {p}
    BY <1>o, <2>1, <2>2 DEF Told, Others
  <2>5. merges' = Cardinality(Told')
    BY <1>o, <2>1, <2>3, <2>4, FS_AddElement DEF ReportInv
  <2>6. swept \subseteq PRs
    BY DEF TypeOK, GitHubOK
  <2> QED
    BY <1>c, <2>1, <2>2, <2>5, <2>6 DEF ReportInv, Others
<1>3. ASSUME NEW p \in PRs, Land(p) PROVE ReportInv'
  <2>1. /\ pc'[p] = "merged" /\ swept' = swept \union {p}
        /\ UNCHANGED <<merges, row>>
    BY <1>3, <1>o DEF Land, Step, Go, queue, OutcomeOK
  <2>2. Others(p)
    BY <1>3, <1>o, OneMoves DEF Goroutine
  <2>3. swept \subseteq PRs /\ Told' = Told
    BY <2>1 DEF Told, TypeOK, GitHubOK
  <2> QED
    BY <1>c, <2>1, <2>2, <2>3 DEF ReportInv, Others
<1>4. ASSUME NEW p \in PRs, LoseMerged(p) PROVE ReportInv'
  <2>1. ~Answered
    BY <1>4 DEF LoseMerged, MayLoseReply, ReportInv, Answered
  <2>2. UNCHANGED merges
    BY <1>4 DEF LoseMerged, queue
  <2>3. ~ \E q \in PRs : Merged(q)
    BY <1>4, <2>2 DEF Merged, RecordMerge, TypeOK, RunOK
  <2>4. Told' = Told
    BY <1>o, <2>3, RowStep DEF Told, Silent, Stays
  <2> QED
    BY <2>1, <2>2, <2>4 DEF ReportInv
<1>5. ASSUME NEW p \in PRs, Start(p) \/ Goroutine(p),
             ~Merged(p), ~Land(p), ~LoseMerged(p)
      PROVE  ReportInv'
  <2>1. UNCHANGED <<merges, swept>> /\ pc[p] # "merged"
    BY <1>5 DEF Goroutine, Start, Enter, Fetch, ReadStatuses, ReadRuns, Poll,
       Retry, Changelog, ListReviews, Approve, AcquireLane, Reread,
       RefuseMerge, BaseModified, Backoff, RetryGet, Conflict, Refresh,
       CutShort, Finish, Rule, Label, queue, github
  <2>2. ~ \E q \in PRs : Merged(q)
    BY <2>1 DEF Merged, RecordMerge, TypeOK, RunOK
  <2>3. Others(p) /\ Silent
    BY <1>5, <1>o, <2>2, OneMoves, RowStep
  <2> QED
    BY <1>1, <2>1, <2>3 DEF Others
<1>6. CASE \/ \E p \in PRs : Environment(p)
           \/ Revisit \/ Look \/ Stop \/ Over \/ UNCHANGED vars
  <2>1. UNCHANGED <<merges, swept>>
    BY <1>6 DEF Environment, Report, Push, BaseMoves, OutsideMerge, Revisit,
       Look, Stop, Over, vars, queue, github
  <2>2. ~ \E q \in PRs : Merged(q)
    BY <2>1 DEF Merged, RecordMerge, TypeOK, RunOK
  <2>3. Silent
    BY <2>2, RowStep
  <2>4. \A q \in PRs : pc[q] = "merged" => pc'[q] = "merged"
    <3>1. CASE Look
      BY <3>1 DEF Look, Idle
    <3>2. CASE ~Look
      BY <1>6, <3>2 DEF Environment, Report, Push, BaseMoves, OutsideMerge,
         Revisit, Stop, Over, vars, outcome
    <3> QED
      BY <3>1, <3>2
  <2> QED
    BY <1>1, <2>1, <2>3, <2>4
<1> QED
  BY <1>2, <1>3, <1>4, <1>5, <1>6 DEF Next

LEMMA ReportCorrect == Spec => []ReportInv
<1>1. TypeOK /\ RowInv /\ ReportInv /\ [Next]_vars
        => (TypeOK /\ RowInv /\ ReportInv)'
  BY TypeStep, RowStep, ReportStep
<1> QED
  BY <1>1, TypeInit, RowInit, ReportInit, PTL DEF Spec

\* Where no answer to a merge is lost, every merge GitHub performed for the
\* sweep is reported, nothing else is, and the count of the queue is that of
\* the rows (recordMerge).
THEOREM MergesToldAndCounted == Spec => [](Answered => MergesReported)
<1>1. RowInv /\ ReportInv => (Answered => MergesReported)
  BY DEF RowInv, RowOK, ReportInv, MergesReported, Told
<1> QED
  BY <1>1, RowCorrect, ReportCorrect, PTL

-----------------------------------------------------------------------------
(* The queue of the second pass agrees with the rows.                       *)
QueueInv ==
  /\ mergedBy # 0 => row[mergedBy] = "Merged"
  /\ pass = "first" =>
       \A p \in PRs : row[p] = "AwaitingRebase" => p \in Deferred
  /\ \A p \in Deferred :
       row[p] \in {"AwaitingRebase", "Pending"} /\ mergedBy # 0

LEMMA QueueInit == Init => QueueInv
  BY DEF Init, QueueInv, Deferred

\* A step that queues nothing: the rows that are queued stay, and the others
\* do not begin to wait.
LEMMA QueueKept ==
  ASSUME TypeOK, RowInv, QueueInv, Stays, UNCHANGED <<deferred, pass>>,
         \A p \in PRs : Awaits(p),
         \A p \in Deferred : row'[p] \in {row[p], "Pending"},
         \/ mergedBy' = mergedBy
         \/ mergedBy' # 0 /\ row'[mergedBy'] = "Merged"
  PROVE  QueueInv'
<1>1. Deferred' = Deferred /\ Deferred \subseteq PRs
  BY DEF Deferred, TypeOK, RunOK
<1>2. mergedBy' # 0 => row'[mergedBy'] = "Merged"
  BY DEF QueueInv, Stays, TypeOK, RunOK
<1>3. pass' = "first" =>
         \A p \in PRs : row'[p] = "AwaitingRebase" => p \in Deferred'
  BY <1>1 DEF QueueInv, Awaits
<1>4. \A p \in Deferred' :
         row'[p] \in {"AwaitingRebase", "Pending"} /\ mergedBy' # 0
  BY <1>1 DEF QueueInv
<1> QED
  BY <1>2, <1>3, <1>4 DEF QueueInv

LEMMA QueueStep ==
  TypeOK /\ RowInv /\ QueueInv /\ [Next]_vars => QueueInv'
<1> SUFFICES ASSUME TypeOK, RowInv, QueueInv, [Next]_vars PROVE QueueInv'
  OBVIOUS
<1>o. OutcomeOK /\ Stays /\ Deferred \subseteq PRs
  BY RowStep DEF TypeOK, Deferred, RunOK
<1>e. \A p \in Deferred : pc[p] \in EndPCs
  BY DEF Deferred, RowInv, QueuedOK
<1>1. ASSUME NEW p \in PRs, Start(p) \/ Goroutine(p), ~Conflict(p)
      PROVE  QueueInv'
  <2>1. UNCHANGED <<deferred, pass>>
    BY <1>1 DEF Goroutine, Start, Enter, Fetch, ReadStatuses, ReadRuns, Poll,
       Retry, Changelog, ListReviews, Approve, AcquireLane, Reread, Land,
       Merged, LoseMerged, RefuseMerge, BaseModified, Backoff, RetryGet,
       Refresh, CutShort, Finish, Rule, Label, queue
  <2>2. Others(p) /\ Awaits(p)
    BY <1>1, <1>o, OneMoves
  <2>3. ASSUME NEW q \in Deferred PROVE row'[q] \in {row[q], "Pending"}
    <3>1. CASE q # p
      BY <1>o, <2>2, <3>1 DEF Others
    <3>2. CASE q = p
      <4>1. CutShort(p) \/ Finish(p) \/ Rule(p) \/ Label(p)
        BY <1>1, <1>e, <3>2 DEF EndPCs, Goroutine, Start, Enter, Fetch,
           ReadStatuses, ReadRuns, Poll, Retry, Changelog, ListReviews,
           Approve, AcquireLane, Reread, Land, Merged, LoseMerged,
           RefuseMerge, BaseModified, Backoff, RetryGet, Refresh
      <4>2. row[p] \notin Remediable
        BY <3>2 DEF QueueInv, Remediable
      <4> QED
        BY <1>o, <3>2, <4>1, <4>2
        DEF CutShort, Finish, Rule, Label, Step, Set, OutcomeOK
    <3> QED
      BY <3>1, <3>2
  <2>4. \/ mergedBy' = mergedBy
        \/ mergedBy' # 0 /\ row'[mergedBy'] = "Merged"
    <3>1. CASE Merged(p)
      <4>1. mergedBy' = (IF mergedBy = 0 THEN p ELSE mergedBy) /\ p # 0
        BY <3>1, PRsAssumption DEF Merged, RecordMerge
      <4>2. row'[p] = "Merged"
        BY <1>o, <3>1 DEF Merged, Leave, Set, OutcomeOK
      <4> QED
        BY <4>1, <4>2
    <3>2. CASE ~Merged(p)
      <4>1. UNCHANGED mergedBy
        BY <1>1, <3>2 DEF Goroutine, Start, Enter, Fetch, ReadStatuses,
           ReadRuns, Poll, Retry, Changelog, ListReviews, Approve,
           AcquireLane, Reread, Land, LoseMerged, RefuseMerge, BaseModified,
           Backoff, RetryGet, Refresh, CutShort, Finish, Rule, Label, queue
      <4> QED
        BY <4>1
    <3> QED
      BY <3>1, <3>2
  <2> QED
    BY <1>o, <2>1, <2>2, <2>3, <2>4, QueueKept DEF Others, Awaits
<1>2. ASSUME NEW p \in PRs, Conflict(p) PROVE QueueInv'
  <2>1. UNCHANGED <<mergedBy, pass>> /\ pc[p] = "conflict" /\ Others(p)
    BY <1>2, <1>o, OneMoves DEF Conflict, Goroutine
  <2>2. p \notin Deferred
    BY <1>e, <2>1 DEF EndPCs
  <2>3. mergedBy # 0 => row'[mergedBy] = "Merged"
    BY <1>o DEF QueueInv, Stays, TypeOK, RunOK
  <2>4. CASE UNCHANGED deferred /\ row'[p] = "Conflict"
    BY <1>o, <2>1, <2>2, <2>3, <2>4 DEF QueueInv, Others, Deferred
  <2>5. CASE /\ mergedBy # 0 /\ row'[p] = "AwaitingRebase"
             /\ deferred' = Queued(p)
    <3>1. CASE pass = "first"
      <4>1. deferred \in Seq(PRs) /\ deferred' = Append(deferred, p)
        BY <2>5, <3>1 DEF Queued, TypeOK, RunOK
      <4>2. Deferred' = Deferred \union {p}
        BY <4>1 DEF Deferred
      <4> QED
        BY <1>o, <2>1, <2>3, <2>5, <4>2 DEF QueueInv, Others
    <3>2. CASE pass # "first"
      <4>1. Deferred' = Deferred
        BY <2>5, <3>2 DEF Queued, Deferred
      <4> QED
        BY <1>o, <2>1, <2>2, <2>3, <3>2, <4>1 DEF QueueInv, Others
    <3> QED
      BY <3>1, <3>2
  <2> QED
    BY <1>2, <1>o, <2>4, <2>5 DEF Conflict, Leave, Set, OutcomeOK
<1>3. CASE Revisit
  BY <1>3 DEF Revisit, QueueInv, Deferred, outcome
<1>4. CASE Look
  <2>1. UNCHANGED <<deferred, pass, mergedBy>> /\ pass = "second"
    BY <1>4 DEF Look
  <2>2. Deferred = {} /\ Deferred' = {}
    BY <2>1 DEF Deferred, RowInv
  <2>3. mergedBy # 0 => row'[mergedBy] = "Merged"
    BY <1>o DEF QueueInv, Stays, TypeOK, RunOK
  <2> QED
    BY <2>1, <2>2, <2>3 DEF QueueInv
<1>5. CASE (\E p \in PRs : Environment(p)) \/ Stop \/ Over \/ UNCHANGED vars
  BY <1>5 DEF Environment, Report, Push, BaseMoves, OutsideMerge, Stop, Over,
     vars, queue, outcome, QueueInv, Deferred
<1> QED
  BY <1>1, <1>2, <1>3, <1>4, <1>5 DEF Next, Goroutine

\* In the first pass a PR awaits a rebase exactly when it is queued, once, and
\* behind a merge of this run; the second pass queues nothing (setConflict,
\* Revisit).
THEOREM QueueAgrees == Spec => []QueueMatchesRows
<1>1. TypeOK /\ RowInv /\ QueueInv /\ [Next]_vars
        => (TypeOK /\ RowInv /\ QueueInv)'
  BY TypeStep, RowStep, QueueStep
<1>2. TypeOK /\ RowInv /\ QueueInv => QueueMatchesRows
  <2> SUFFICES ASSUME TypeOK, RowInv, QueueInv PROVE QueueMatchesRows
    OBVIOUS
  <2>1. \A p \in Deferred : mergedBy # p
    BY DEF QueueInv
  <2> QED
    BY <2>1 DEF QueueInv, RowInv, QueuedOK, Distinct, QueueMatchesRows
<1> QED
  BY <1>1, <1>2, TypeInit, RowInit, QueueInit, PTL DEF Spec

-----------------------------------------------------------------------------
(* A dry run stays clear of every request that writes.                      *)
WritingPCs == {"changelog", "reviews", "approve", "lane", "retry"}
                \union LanePCs

DryInv == DryRun => \A p \in PRs : pc[p] \notin WritingPCs

Calm(p) == pc'[p] \notin WritingPCs
Writes == /\ UNCHANGED <<swept, approvals, label>>
          /\ UNCHANGED pc \/ UNCHANGED <<head, ci>>

LEMMA GoCalm ==
  ASSUME OutcomeOK, NEW p \in PRs, NEW next, Go(p, next),
         next \notin WritingPCs
  PROVE  Calm(p)
  BY DEF Calm, Go, OutcomeOK

LEMMA LeaveCalm ==
  ASSUME OutcomeOK, NEW p \in PRs, NEW s, Leave(p, s)
  PROVE  Calm(p)
  BY GoCalm DEF Leave, WritingPCs, LanePCs

LEMMA StepCalm ==
  ASSUME OutcomeOK, NEW p \in PRs, NEW next, Step(p, next),
         next \notin WritingPCs
  PROVE  Calm(p)
  BY GoCalm DEF Step

\* In a dry run a goroutine takes none of the steps that write, and goes to
\* none of them.
LEMMA DryGoroutine ==
  ASSUME TypeOK, DryInv, DryRun, NEW p \in PRs, Start(p) \/ Goroutine(p)
  PROVE  /\ Calm(p)
         /\ UNCHANGED <<swept, approvals, label, head, ci>>
<1>o. OutcomeOK
  BY DEF TypeOK
<1>w. pc[p] \notin WritingPCs
  BY DEF DryInv
<1>1. CASE Start(p) \/ Enter(p) \/ Poll(p) \/ Finish(p) \/ CutShort(p)
  BY <1>1, <1>o, GoCalm, StepCalm, LeaveCalm
  DEF Start, Enter, Poll, Finish, CutShort, github, WritingPCs, LanePCs
<1>2. CASE Fetch(p)
  BY <1>2, <1>o, GoCalm, StepCalm, LeaveCalm
  DEF Fetch, Classify, github, WritingPCs, LanePCs
<1>3. CASE ReadStatuses(p)
  BY <1>3, <1>o, StepCalm, LeaveCalm
  DEF ReadStatuses, github, WritingPCs, LanePCs
<1>4. CASE ReadRuns(p)
  <2>1. ASSUME NEW s \in RedRows, Reject(p, s) PROVE Calm(p)
    BY <1>o, <2>1, GoCalm, LeaveCalm DEF Reject, WritingPCs, LanePCs
  <2>2. ASSUME Wait(p) \/ Proceed(p) PROVE Calm(p)
    BY <1>o, <2>2, GoCalm, LeaveCalm DEF Wait, Proceed, WritingPCs, LanePCs
  <2> QED
    BY <1>4, <1>o, <2>1, <2>2, LeaveCalm DEF ReadRuns, github
<1>5. CASE Conflict(p)
  BY <1>5, <1>o, LeaveCalm DEF Conflict, github
<1>6. CASE Refresh(p)
  <2>1. UNCHANGED <<head, ci>>
    BY <1>6 DEF Refresh, UpdateBranch, branch
  <2> QED
    BY <1>6, <1>o, <2>1, GoCalm DEF Refresh, WritingPCs, LanePCs
<1>7. CASE Rule(p)
  <2>1. UNCHANGED <<head, ci>>
    BY <1>7 DEF Rule, branch
  <2> QED
    BY <1>7, <1>o, <2>1, GoCalm DEF Rule, WritingPCs, LanePCs
<1>8. CASE Label(p)
  BY <1>8, <1>o, StepCalm DEF Label, Labels, WritingPCs, LanePCs
<1> QED
  BY <1>w, <1>1, <1>2, <1>3, <1>4, <1>5, <1>6, <1>7, <1>8
  DEF Goroutine, Retry, Changelog, ListReviews, Approve, AcquireLane, Reread,
      Land, Merged, LoseMerged, RefuseMerge, BaseModified, Backoff, RetryGet,
      WritingPCs, LanePCs

LEMMA DryStep ==
  TypeOK /\ DryInv /\ [Next]_vars => DryInv' /\ (DryRun => Writes)
<1> SUFFICES ASSUME TypeOK, DryInv, [Next]_vars, DryRun
             PROVE  DryInv' /\ Writes
  BY DEF DryInv
<1>o. OutcomeOK
  BY DEF TypeOK
<1>1. ASSUME NEW p \in PRs, Start(p) \/ Goroutine(p)
      PROVE  DryInv' /\ Writes
  <2>1. Others(p) /\ Calm(p)
    BY <1>1, <1>o, OneMoves, DryGoroutine
  <2>2. Writes
    BY <1>1, DryGoroutine DEF Writes
  <2> QED
    BY <2>1, <2>2 DEF DryInv, Others, Calm
<1>2. CASE Look
  <2>1. PICK p \in PRs : UNCHANGED pc \/ Step(p, "enter")
    <3>1. pending \in Seq(PRs) /\ pending # <<>>
      BY <1>2 DEF Look, TypeOK, RunOK
    <3>2. Head(pending) \in PRs
      BY <3>1
    <3> QED
      BY <1>2, <3>2 DEF Look, outcome
  <2>2. \A q \in PRs : pc'[q] = pc[q] \/ pc'[q] = "enter"
    BY <1>o, <2>1 DEF Step, Go, OutcomeOK
  <2>3. Writes
    BY <1>2 DEF Look, github, Writes
  <2> QED
    BY <2>2, <2>3 DEF DryInv, WritingPCs, LanePCs
<1>3. CASE \/ \E p \in PRs : Environment(p)
           \/ Revisit \/ Stop \/ Over \/ UNCHANGED vars
  <2>1. UNCHANGED <<pc, swept, approvals, label>>
    BY <1>3 DEF Environment, Report, Push, BaseMoves, OutsideMerge, Revisit,
       Stop, Over, vars, outcome, github
  <2> QED
    BY <2>1 DEF DryInv, Writes
<1> QED
  BY <1>1, <1>2, <1>3 DEF Next

\* --dry-run writes nothing, whatever the traits, the hazards and the bounds:
\* no approval, no merge, no label, and no branch or build is moved by a step
\* of the sweep (ProcessPR, handleCancelled, setLabel).
THEOREM DryRunIsClear == Spec => DryRunWritesNothing
<1>1. Init => DryInv
  BY DEF Init, DryInv, WritingPCs, LanePCs
<1>2. TypeOK /\ DryInv /\ [Next]_vars => (TypeOK /\ DryInv)'
  BY TypeStep, DryStep
<1>3. TypeOK /\ DryInv /\ [Next]_vars
        => [DryRun => /\ UNCHANGED <<swept, approvals, label>>
                      /\ UNCHANGED pc \/ UNCHANGED <<head, ci>>]_vars
  BY DryStep DEF Writes
<1> QED
  BY <1>1, <1>2, <1>3, TypeInit, PTL DEF Spec, DryRunWritesNothing

-----------------------------------------------------------------------------
(* Where no rule acts, an outcome that rests on a refused request is the    *)
(* outcome of a stopped run, and is cut short before any rule looks at it.  *)
OpenPCs == {"queued", "enter", "fetch", "rule", "label"}
Cut == WrittenRows \union {"Pending"}

BlindOK(p) ==
  blind[p] => /\ ctx = "limited"
              /\ pc[p] \notin OpenPCs
              /\ pc[p] = "done" => row[p] \in Cut
BlindInv == "remedy" \notin Actions => \A p \in PRs : BlindOK(p)

\* A step in the middle of ProcessPR.
Midway(p) == pc'[p] \notin OpenPCs \union {"done"}
\* What a request may do to blind.
Sees(p) == UNCHANGED blind \/ Blinded(p)

LEMMA GoMidway ==
  ASSUME OutcomeOK, NEW p \in PRs, NEW next, Go(p, next),
         next \notin OpenPCs \union {"done"}
  PROVE  Midway(p)
  BY DEF Midway, Go, OutcomeOK

LEMMA LeaveMidway ==
  ASSUME OutcomeOK, NEW p \in PRs, NEW s, Leave(p, s)
  PROVE  Midway(p)
  BY GoMidway DEF Leave, OpenPCs

LEMMA StepMidway ==
  ASSUME OutcomeOK, NEW p \in PRs, NEW next, Step(p, next),
         next \notin OpenPCs \union {"done"}
  PROVE  Midway(p)
  BY GoMidway DEF Step

\* Between the read of the PR and finish a goroutine neither ends nor comes
\* to the rules, and it touches the blindness of its own PR only.
LEMMA MidwayStep ==
  ASSUME TypeOK, NEW p \in PRs, Goroutine(p),
         pc[p] \notin OpenPCs \union {"finish"}
  PROVE  Midway(p) /\ Sees(p) /\ UNCHANGED ctx
<1>o. OutcomeOK
  BY DEF TypeOK
<1>1. ASSUME ToMerge(p) \/ ToApproval(p) \/ Proceed(p) \/ Wait(p)
      PROVE  Midway(p)
  BY <1>o, <1>1, GoMidway, StepMidway, LeaveMidway
  DEF ToMerge, ToApproval, Proceed, Wait, OpenPCs
<1>2. ASSUME NEW s \in RedRows, Reject(p, s) PROVE Midway(p)
  BY <1>o, <1>2, GoMidway, LeaveMidway DEF Reject, OpenPCs
<1>3. CASE ReadStatuses(p) \/ Poll(p) \/ Retry(p)
  BY <1>o, <1>3, StepMidway, LeaveMidway
  DEF ReadStatuses, Poll, Retry, OpenPCs, Sees, history
<1>4. CASE ReadRuns(p)
  BY <1>o, <1>1, <1>2, <1>4, LeaveMidway DEF ReadRuns, Sees
<1>5. CASE Changelog(p) \/ ListReviews(p) \/ Approve(p)
  BY <1>o, <1>1, <1>5, GoMidway, LeaveMidway
  DEF Changelog, ListReviews, Approve, OpenPCs, Sees
<1>6. CASE AcquireLane(p)
  BY <1>o, <1>6, GoMidway, LeaveMidway
  DEF AcquireLane, OpenPCs, Sees, history
<1>7. CASE Reread(p) \/ RetryGet(p)
  BY <1>o, <1>7, GoMidway, StepMidway, LeaveMidway
  DEF Reread, EnterMerge, RetryGet, OpenPCs, Sees
<1>8. CASE \/ Land(p) \/ Merged(p) \/ LoseMerged(p) \/ RefuseMerge(p)
           \/ BaseModified(p) \/ Backoff(p)
  BY <1>o, <1>8, StepMidway, LeaveMidway
  DEF Land, Merged, LoseMerged, RefuseMerge, MergeError, BaseModified,
      Backoff, OpenPCs, Sees, history
<1>9. CASE Conflict(p)
  BY <1>o, <1>9, LeaveMidway DEF Conflict, Sees
<1>10. CASE Refresh(p)
  BY <1>o, <1>10, GoMidway DEF Refresh, UpdateBranch, OpenPCs, Sees
<1> QED
  BY <1>3, <1>4, <1>5, <1>6, <1>7, <1>8, <1>9, <1>10
  DEF Goroutine, Enter, Fetch, CutShort, Finish, Rule, Label, OpenPCs

LEMMA BlindStep ==
  TypeOK /\ BlindInv /\ [Next]_vars => BlindInv'
<1> SUFFICES ASSUME TypeOK, BlindInv, [Next]_vars, "remedy" \notin Actions
             PROVE  \A p \in PRs : BlindOK(p)'
  BY DEF BlindInv
<1>o. OutcomeOK /\ blind \in [PRs -> BOOLEAN]
  BY DEF TypeOK, HistoryOK
<1>b. \A p \in PRs : BlindOK(p)
  BY DEF BlindInv
<1>1. ASSUME NEW p \in PRs, Start(p) \/ Goroutine(p)
      PROVE  \A q \in PRs : BlindOK(q)'
  <2>1. Others(p)
    BY <1>1, <1>o, OneMoves
  <2>2. UNCHANGED ctx /\ Sees(p) /\ BlindOK(p)'
    <3>1. CASE Goroutine(p) /\ pc[p] \notin OpenPCs \union {"finish"}
      <4>1. Midway(p) /\ Sees(p) /\ UNCHANGED ctx
        BY <3>1, MidwayStep
      <4>2. blind'[p] => blind[p] \/ ctx = "limited"
        BY <1>o, <4>1 DEF Sees, Blinded
      <4> QED
        BY <1>b, <4>1, <4>2 DEF BlindOK, Midway
    <3>2. CASE Goroutine(p) /\ pc[p] = "finish"
      <4>1. CutShort(p) \/ Finish(p)
        BY <3>2 DEF Goroutine, Enter, Fetch, ReadStatuses, ReadRuns, Poll,
           Retry, Changelog, ListReviews, Approve, AcquireLane, Reread, Land,
           Merged, LoseMerged, RefuseMerge, BaseModified, Backoff, RetryGet,
           Conflict, Refresh, Rule, Label
      <4>2. UNCHANGED <<ctx, blind>>
        BY <4>1 DEF CutShort, Finish, history
      <4>3. CASE CutShort(p)
        <5>1. pc'[p] = "done" /\ ctx = "limited"
          BY <1>o, <4>3 DEF CutShort, Go, OutcomeOK
        <5>2. row'[p] \in Cut
          BY <1>o, <4>3 DEF CutShort, Set, Stands, Cut, OutcomeOK
        <5> QED
          BY <4>2, <5>1, <5>2 DEF BlindOK, OpenPCs, Sees
      <4>4. CASE Finish(p)
        BY <1>b, <4>2, <4>4 DEF Finish, BlindOK, Sees
      <4> QED
        BY <4>1, <4>3, <4>4
    <3>3. CASE Start(p) \/ (Goroutine(p) /\ pc[p] \in OpenPCs)
      <4>1. ~blind[p]
        BY <1>b, <3>3 DEF Start, BlindOK, OpenPCs
      <4>2. UNCHANGED <<ctx, blind>>
        BY <3>3 DEF Start, Goroutine, Enter, Fetch, ReadStatuses, ReadRuns,
           Poll, Retry, Changelog, ListReviews, Approve, AcquireLane, Reread,
           Land, Merged, LoseMerged, RefuseMerge, BaseModified, Backoff,
           RetryGet, Conflict, Refresh, CutShort, Finish, Rule, Label,
           OpenPCs, history
      <4> QED
        BY <4>1, <4>2 DEF BlindOK, Sees
    <3> QED
      BY <1>1, <3>1, <3>2, <3>3
  <2>3. ASSUME NEW q \in PRs, q # p PROVE BlindOK(q)'
    <3>1. blind'[q] = blind[q]
      BY <1>o, <2>2, <2>3 DEF Sees, Blinded
    <3> QED
      BY <1>b, <2>1, <2>2, <2>3, <3>1 DEF Others, BlindOK
  <2> QED
    BY <2>2, <2>3
<1>2. CASE Look
  <2>1. UNCHANGED <<ctx, blind>> /\ Idle
    BY <1>2 DEF Look, history
  <2>2. ASSUME NEW q \in PRs, blind[q] PROVE UNCHANGED <<pc, row>>
    BY <1>2, <1>b, <2>2 DEF Look, BlindOK, Answers, outcome
  <2> QED
    BY <1>b, <2>1, <2>2 DEF BlindOK
<1>3. CASE \/ \E p \in PRs : Environment(p)
           \/ Revisit \/ Over \/ UNCHANGED vars
  <2>1. UNCHANGED <<ctx, blind, pc, row>>
    BY <1>3 DEF Environment, Report, Push, BaseMoves, OutsideMerge, Revisit,
       Over, vars, outcome, history, NewHead, branch
  <2> QED
    BY <1>b, <2>1 DEF BlindOK
<1>4. CASE Stop
  <2>1. UNCHANGED <<blind, pc, row>> /\ ctx = "live"
    BY <1>4 DEF Stop, outcome, history
  <2> QED
    BY <1>b, <2>1 DEF BlindOK
<1> QED
  BY <1>1, <1>2, <1>3, <1>4 DEF Next

\* Where no rule acts, a PR one of whose requests the spent token refused ends
\* as what the sweep already wrote to GitHub, or as one it never reached
\* (cutShort).
THEOREM BlindIsCutShort ==
  Spec => []("remedy" \notin Actions => BlindLeftPending)
<1>1. Init => BlindInv
  BY DEF Init, BlindInv, BlindOK
<1>2. TypeOK /\ BlindInv /\ [Next]_vars => (TypeOK /\ BlindInv)'
  BY TypeStep, BlindStep
<1>3. BlindInv => ("remedy" \notin Actions => BlindLeftPending)
  BY DEF BlindInv, BlindOK, BlindLeftPending, Cut
<1> QED
  BY <1>1, <1>2, <1>3, TypeInit, PTL DEF Spec

-----------------------------------------------------------------------------
(* Where no request fails, a goroutine ends with the label of its row, and  *)
(* a PR that is queued keeps its row, and so its label, until it is taken   *)
(* up again.                                                                *)
Labelled(p) ==
  ~Is(p, "untouched") /\ LabelClass(row[p]) # "" => label[p] = LabelClass(row[p])

LabelInv ==
  NothingFails /\ ~DryRun =>
     /\ ctx = "live"
     /\ \A p \in PRs : pc[p] = "done" => Labelled(p)
     /\ \A p \in Deferred \union Revisited : row[p] = "AwaitingRebase"

\* A goroutine that ends labels its row, and one that does not writes no label.
LEMMA LabelsOwn ==
  ASSUME TypeOK, NothingFails, ~DryRun, ctx = "live", NEW p \in PRs,
         Start(p) \/ Goroutine(p)
  PROVE  /\ pc'[p] = "done" => Labelled(p)'
         /\ \A q \in PRs : q # p => label'[q] = label[q]
<1>o. OutcomeOK /\ DOMAIN label = PRs
  BY DEF TypeOK, GitHubOK
<1>f. Answers /\ ~MayFail
  BY DEF Answers, MayFail, NothingFails
<1>1. CASE Label(p)
  <2>1. UNCHANGED row
    BY <1>1 DEF Label, Step
  <2>2. \/ ~Labels(p) /\ UNCHANGED label
        \/ label' = [label EXCEPT ![p] = LabelClass(row[p])]
    BY <1>f, <1>1 DEF Label
  <2>3. LabelClass(row[p]) # "" => Labels(p)
    BY DEF Labels
  <2> QED
    BY <1>o, <2>1, <2>2, <2>3 DEF Labelled
<1>2. CASE ~Label(p)
  <2>1. UNCHANGED label
    BY <1>2 DEF Goroutine, Start, Enter, Fetch, ReadStatuses, ReadRuns, Poll,
       Retry, Changelog, ListReviews, Approve, AcquireLane, Reread, Land,
       Merged, LoseMerged, RefuseMerge, BaseModified, Backoff, RetryGet,
       Conflict, Refresh, CutShort, Finish, Rule, github
  <2>2. CASE Fetch(p)
    <3>1. PICK state : Classify(p, state)
      BY <1>f, <2>2 DEF Fetch
    <3>2. CASE ~Is(p, "untouched")
      <4>1. pc'[p] # "done"
        BY <1>o, <2>2, <3>1, <3>2
        DEF Classify, Fetch, Leave, Step, Set, Go, OutcomeOK
      <4> QED
        BY <2>1, <4>1
    <3> QED
      BY <2>1, <3>2 DEF Labelled
  <2>3. CASE Start(p) \/ Enter(p) \/ Finish(p) \/ Rule(p)
    <3>1. pc'[p] # "done"
      BY <1>o, <2>3 DEF Start, Enter, Finish, Rule, Step, Go, OutcomeOK
    <3> QED
      BY <2>1, <3>1
  <2>4. CASE Goroutine(p) /\ pc[p] \notin OpenPCs \union {"finish"}
    <3>1. pc'[p] # "done"
      BY <2>4, MidwayStep DEF Midway
    <3> QED
      BY <2>1, <3>1
  <2>5. ~CutShort(p)
    BY DEF CutShort
  <2>6. \/ Goroutine(p) /\ pc[p] \notin OpenPCs \union {"finish"}
        \/ Start(p) \/ Enter(p) \/ Fetch(p) \/ Finish(p) \/ Rule(p)
    BY <1>2, <2>5 DEF Goroutine, ReadStatuses, ReadRuns, Poll, Retry,
       Changelog, ListReviews, Approve, AcquireLane, Reread, Land, Merged,
       LoseMerged, RefuseMerge, BaseModified, Backoff, RetryGet, Conflict,
       Refresh, OpenPCs
  <2> QED
    BY <2>2, <2>3, <2>4, <2>6
<1> QED
  BY <1>1, <1>2

\* Once ProcessPR is over, a row that awaits a rebase stays: no rule acts on it.
LEMMA WaitsOn ==
  ASSUME TypeOK, ctx = "live", NEW p \in PRs, Start(p) \/ Goroutine(p),
         NEW q \in PRs, pc[q] \in EndPCs, row[q] = "AwaitingRebase"
  PROVE  row'[q] = "AwaitingRebase"
<1>o. OutcomeOK
  BY DEF TypeOK
<1>1. CASE q # p
  BY <1>o, <1>1, OneMoves DEF Others
<1>2. CASE q = p
  <2>1. Finish(p) \/ Rule(p) \/ Label(p)
    BY <1>2 DEF EndPCs, Goroutine, Start, Enter, Fetch, ReadStatuses, ReadRuns,
       Poll, Retry, Changelog, ListReviews, Approve, AcquireLane, Reread,
       Land, Merged, LoseMerged, RefuseMerge, BaseModified, Backoff, RetryGet,
       Conflict, Refresh, CutShort
  <2>2. row[p] \notin Remediable
    BY <1>2 DEF Remediable
  <2> QED
    BY <1>2, <2>1, <2>2 DEF Finish, Rule, Label, Step
<1> QED
  BY <1>1, <1>2

\* Each step keeps the labels true to the rows.
LEMMA LabelStep ==
  TypeOK /\ RowInv /\ LabelInv /\ [Next]_vars => LabelInv'
<1> SUFFICES ASSUME TypeOK, RowInv, LabelInv, [Next]_vars,
                    NothingFails, ~DryRun
             PROVE  /\ ctx' = "live"
                    /\ \A p \in PRs : pc'[p] = "done" => Labelled(p)'
                    /\ \A p \in (Deferred \union Revisited)' :
                          row'[p] = "AwaitingRebase"
  BY DEF LabelInv, NothingFails
<1>o. /\ OutcomeOK /\ ctx = "live"
      /\ deferred \in Seq(PRs) /\ pending \in Seq(PRs)
  BY DEF TypeOK, LabelInv, RunOK
<1>l. \A p \in PRs : pc[p] = "done" => Labelled(p)
  BY DEF LabelInv
<1>w. /\ Deferred \union Revisited \subseteq PRs
      /\ \A p \in Deferred \union Revisited :
            row[p] = "AwaitingRebase" /\ pc[p] \in EndPCs
  BY <1>o DEF LabelInv, Deferred, Revisited, RowInv, QueuedOK
<1>1. ASSUME NEW p \in PRs, Start(p) \/ Goroutine(p)
      PROVE  /\ ctx' = "live"
             /\ \A q \in PRs : pc'[q] = "done" => Labelled(q)'
             /\ \A q \in (Deferred \union Revisited)' :
                   row'[q] = "AwaitingRebase"
  <2>1. ctx' = "live" /\ UNCHANGED pending
    BY <1>1, <1>o DEF Goroutine, Start, Enter, Fetch, ReadStatuses, ReadRuns,
       Poll, Retry, Changelog, ListReviews, Approve, AcquireLane, Reread,
       Land, Merged, LoseMerged, RefuseMerge, BaseModified, Backoff, RetryGet,
       Conflict, Refresh, CutShort, Finish, Rule, Label, queue
  <2>2. ASSUME NEW q \in PRs, pc'[q] = "done" PROVE Labelled(q)'
    <3>1. CASE q = p
      BY <1>1, <1>o, <2>2, <3>1, LabelsOwn
    <3>2. CASE q # p
      <4>1. pc'[q] = pc[q] /\ row'[q] = row[q] /\ label'[q] = label[q]
        BY <1>1, <1>o, <3>2, OneMoves, LabelsOwn DEF Others
      <4> QED
        BY <1>l, <2>2, <4>1 DEF Labelled
    <3> QED
      BY <3>1, <3>2
  <2>3. \A q \in Deferred \union Revisited : row'[q] = "AwaitingRebase"
    BY <1>1, <1>o, <1>w, WaitsOn
  <2>4. Revisited' = Revisited
    BY <2>1 DEF Revisited
  <2>5. \/ Deferred' = Deferred
        \/ Deferred' = Deferred \union {p} /\ row'[p] = "AwaitingRebase"
    <3>1. CASE UNCHANGED deferred
      BY <3>1 DEF Deferred
    <3>2. CASE deferred' # deferred
      <4>1. Conflict(p)
        BY <1>1, <3>2 DEF Goroutine, Start, Enter, Fetch, ReadStatuses,
           ReadRuns, Poll, Retry, Changelog, ListReviews, Approve,
           AcquireLane, Reread, Land, Merged, LoseMerged, RefuseMerge,
           BaseModified, Backoff, RetryGet, Refresh, CutShort, Finish, Rule,
           Label, queue
      <4>2. deferred' = Append(deferred, p) /\ row'[p] = "AwaitingRebase"
        BY <1>o, <3>2, <4>1 DEF Conflict, Leave, Set, Queued, OutcomeOK
      <4>3. Deferred' = Deferred \union {p}
        BY <1>o, <4>2 DEF Deferred
      <4> QED
        BY <4>2, <4>3
    <3> QED
      BY <3>1, <3>2
  <2> QED
    BY <2>1, <2>2, <2>3, <2>4, <2>5
<1>2. CASE Look
  <2>1. PICK p : p = Head(pending)
    OBVIOUS
  <2>2. p \in Revisited /\ p \in PRs /\ pending # <<>>
    <3>1. pending # <<>>
      BY <1>2 DEF Look
    <3>2. 1 \in DOMAIN pending /\ p = pending[1]
      BY <1>o, <2>1, <3>1
    <3> QED
      BY <1>w, <3>1, <3>2 DEF Revisited
  <2>3. row[p] = "AwaitingRebase"
    BY <1>w, <2>2
  <2>4. UNCHANGED <<ctx, row, label, deferred>>
    BY <1>2, <1>o, <2>1, <2>2, <2>3
    DEF Look, Step, Set, outcome, github, OutcomeOK
  <2>5. \A q \in PRs : pc'[q] = "done" => pc[q] = "done"
    BY <1>2 DEF Look, Idle
  <2>6. Revisited' \subseteq Revisited
    <3>1. pending' = pending \/ pending' = Tail(pending)
      BY <1>2 DEF Look
    <3>2. \A i \in DOMAIN Tail(pending) :
             i + 1 \in DOMAIN pending /\ Tail(pending)[i] = pending[i + 1]
      BY <1>o, <2>2
    <3> QED
      BY <3>1, <3>2 DEF Revisited
  <2>7. Deferred' = Deferred
    BY <2>4 DEF Deferred
  <2> QED
    BY <1>o, <1>l, <1>w, <2>4, <2>5, <2>6, <2>7 DEF Labelled
<1>3. CASE Revisit
  <2>1. UNCHANGED <<ctx, row, pc, label>> /\ pending' = deferred
        /\ deferred' = <<>>
    BY <1>3 DEF Revisit, outcome, github
  <2>2. Revisited' = Deferred /\ Deferred' = {}
    BY <2>1 DEF Revisited, Deferred
  <2> QED
    BY <1>o, <1>l, <1>w, <2>1, <2>2 DEF Labelled
<1>4. CASE (\E p \in PRs : Environment(p)) \/ Stop \/ Over \/ UNCHANGED vars
  <2>1. ~Stop
    BY DEF Stop, NothingFails
  <2>2. UNCHANGED <<ctx, row, pc, label, pending, deferred>>
    BY <1>4, <2>1 DEF Environment, Report, Push, BaseMoves, OutsideMerge,
       Over, vars, queue, outcome, github
  <2>3. (Deferred \union Revisited)' = Deferred \union Revisited
    BY <2>2 DEF Deferred, Revisited
  <2> QED
    BY <1>o, <1>l, <1>w, <2>2, <2>3 DEF Labelled
<1> QED
  BY <1>1, <1>2, <1>3, <1>4 DEF Next

\* When no request fails, each PR the sweep touches ends with the label of
\* its final row, whichever pass decided it (finish, setLabel, Revisit).
THEOREM LabelsTellRows == Spec => []LabelTellsRow
<1>1. Init => LabelInv
  BY DEF Init, LabelInv, Deferred, Revisited
<1>2. TypeOK /\ RowInv /\ LabelInv /\ [Next]_vars
        => (TypeOK /\ RowInv /\ LabelInv)'
  BY TypeStep, RowStep, LabelStep
<1>3. LabelInv => LabelTellsRow
  BY DEF LabelInv, LabelTellsRow, Labelled, Finished, Idle
<1> QED
  BY <1>1, <1>2, <1>3, TypeInit, RowInit, PTL DEF Spec

-----------------------------------------------------------------------------
(* The merge lane: a goroutine that holds no slot stays outside, and one    *)
(* that leaves gives its slot back.                                         *)
Inside == LanePCs \union {"conflict", "refresh"}

KeepsPlace(p) ==
  /\ UNCHANGED lane
  /\ pc'[p] \in LanePCs => pc[p] \in LanePCs
  /\ pc[p] \in Inside => pc'[p] \in Inside
GivesBack(p) == lane' = lane \ {p} /\ pc'[p] \notin LanePCs
Enters(p) == /\ Cardinality(lane) < MergeLane
             /\ lane' = lane \union {p} /\ pc'[p] \in Inside

LEMMA LeaveGives ==
  ASSUME OutcomeOK, NEW p \in PRs, NEW s, Leave(p, s)
  PROVE  GivesBack(p)
  BY DEF GivesBack, Leave, Go, OutcomeOK, LanePCs

LEMMA GoKeeps ==
  ASSUME OutcomeOK, NEW p \in PRs, NEW next, Go(p, next), UNCHANGED lane,
         next \in LanePCs => pc[p] \in LanePCs,
         pc[p] \in Inside => next \in Inside
  PROVE  KeepsPlace(p)
  BY DEF KeepsPlace, Go, OutcomeOK

\* Before and after the lane, a goroutine keeps off it.
LEMMA OutsideKeeps ==
  ASSUME OutcomeOK, NEW p \in PRs, pc[p] \notin Inside,
         Start(p) \/ Goroutine(p)
  PROVE  KeepsPlace(p) \/ GivesBack(p) \/ Enters(p)
<1> DEFINE Off == KeepsPlace(p) \/ GivesBack(p)
<1>s. ASSUME NEW next, Go(p, next), UNCHANGED lane, next \notin LanePCs
      PROVE  Off
  BY <1>s, GoKeeps
<1>l. ASSUME NEW s, Leave(p, s) PROVE Off
  BY <1>l, LeaveGives
<1> HIDE DEF Off
<1> USE DEF LanePCs
<1>1. ASSUME ToApproval(p) \/ ToMerge(p) PROVE Off
  BY <1>1, <1>s, <1>l DEF ToApproval, ToMerge, Step
<1>2. ASSUME NEW s, Reject(p, s) PROVE Off
  BY <1>2, <1>s, <1>l DEF Reject
<1>3. ASSUME Wait(p) \/ Proceed(p) PROVE Off
  BY <1>1, <1>3, <1>s, <1>l DEF Wait, Proceed, Step
<1>4. ASSUME \/ Start(p) \/ Enter(p) \/ Fetch(p) \/ ReadStatuses(p) \/ Poll(p)
             \/ Retry(p)
      PROVE  Off
  BY <1>4, <1>s, <1>l
  DEF Start, Enter, Fetch, Classify, ReadStatuses, Poll, Retry, Step
<1>5. ASSUME ReadRuns(p) \/ Changelog(p) \/ ListReviews(p) \/ Approve(p)
      PROVE  Off
  BY <1>1, <1>2, <1>3, <1>5, <1>s, <1>l
  DEF ReadRuns, Changelog, ListReviews, Approve
<1>6. ASSUME CutShort(p) \/ Finish(p) \/ Rule(p) \/ Label(p) PROVE Off
  BY <1>6, <1>s DEF CutShort, Finish, Rule, Label, Step
<1>7. ASSUME AcquireLane(p) PROVE Off \/ Enters(p)
  BY <1>7, <1>l DEF AcquireLane, Enters, Go, Inside, OutcomeOK
<1>8. ~(\/ Reread(p) \/ Land(p) \/ Merged(p) \/ LoseMerged(p)
        \/ RefuseMerge(p) \/ BaseModified(p) \/ Backoff(p) \/ RetryGet(p)
        \/ Conflict(p) \/ Refresh(p))
  BY DEF Inside, Reread, Land, Merged, LoseMerged, RefuseMerge, BaseModified,
     Backoff, RetryGet, Conflict, Refresh
<1> QED
  BY <1>4, <1>5, <1>6, <1>7, <1>8 DEF Goroutine, Off

\* In the lane it goes on or gives its slot back, whatever GitHub answers.
LEMMA InsideKeeps ==
  ASSUME OutcomeOK, NEW p \in PRs, pc[p] \in Inside, Start(p) \/ Goroutine(p)
  PROVE  KeepsPlace(p) \/ GivesBack(p)
<1> DEFINE Kept == KeepsPlace(p) \/ GivesBack(p)
<1>s. ASSUME NEW next, Go(p, next), UNCHANGED lane, pc[p] \in LanePCs,
             next \in Inside
      PROVE  Kept
  BY <1>s, GoKeeps
<1>l. ASSUME NEW s, Leave(p, s) PROVE Kept
  BY <1>l, LeaveGives
<1> HIDE DEF Kept
<1> USE DEF LanePCs, Inside
<1>1. ASSUME Reread(p) \/ RetryGet(p) PROVE Kept
  BY <1>1, <1>s, <1>l DEF Reread, EnterMerge, RetryGet, Step
<1>2. ASSUME MergeError(p), pc[p] \in LanePCs PROVE Kept
  BY <1>2, <1>s, <1>l DEF MergeError, Step
<1>3. ASSUME \/ Land(p) \/ Merged(p) \/ LoseMerged(p) \/ RefuseMerge(p)
             \/ BaseModified(p) \/ Backoff(p)
      PROVE  Kept
  BY <1>2, <1>3, <1>s, <1>l
  DEF Land, Merged, LoseMerged, RefuseMerge, BaseModified, Backoff, Step
<1>4. ASSUME Conflict(p) PROVE Kept
  BY <1>4, <1>l DEF Conflict
<1>5. ASSUME Refresh(p) PROVE Kept
  BY <1>5 DEF Kept, GivesBack, Refresh, Go, OutcomeOK
<1>6. ~(\/ Start(p) \/ Enter(p) \/ Fetch(p) \/ ReadStatuses(p) \/ ReadRuns(p)
        \/ Poll(p) \/ Retry(p) \/ Changelog(p) \/ ListReviews(p)
        \/ Approve(p) \/ AcquireLane(p) \/ CutShort(p) \/ Finish(p)
        \/ Rule(p) \/ Label(p))
  BY DEF Start, Enter, Fetch, ReadStatuses, ReadRuns, Poll, Retry, Changelog,
     ListReviews, Approve, AcquireLane, CutShort, Finish, Rule, Label
<1> QED
  BY <1>1, <1>3, <1>4, <1>5, <1>6 DEF Goroutine, Kept

\* No step of a goroutine, of GitHub or of the second pass overfills the lane.
LEMMA LaneStep == TypeOK /\ LaneHeld /\ [Next]_vars => LaneHeld'
<1> SUFFICES ASSUME TypeOK, LaneHeld, [Next]_vars PROVE LaneHeld'
  OBVIOUS
<1>o. OutcomeOK
  BY DEF TypeOK
<1>h. /\ Cardinality(lane) <= MergeLane
      /\ \A p \in PRs : pc[p] \in LanePCs => p \in lane
      /\ \A p \in lane : p \in PRs /\ pc[p] \in Inside
  BY <1>o DEF LaneHeld, Inside, OutcomeOK
<1>n. IsFiniteSet(lane) /\ Cardinality(lane) \in Nat /\ MergeLane \in Nat
  BY <1>o, PRsAssumption, BoundsAssumption, FS_Subset, FS_CardinalityType
  DEF OutcomeOK
<1>1. ASSUME NEW p \in PRs, Start(p) \/ Goroutine(p) PROVE LaneHeld'
  <2>1. \A q \in PRs : q # p => pc'[q] = pc[q]
    BY <1>o, <1>1, OneMoves DEF Others
  <2>2. KeepsPlace(p) \/ GivesBack(p) \/ Enters(p)
    BY <1>o, <1>1, OutsideKeeps, InsideKeeps
  <2>3. Cardinality(lane') <= MergeLane
    <3>1. CASE KeepsPlace(p)
      <4>1. lane' = lane
        BY <3>1 DEF KeepsPlace
      <4> QED
        BY <1>h, <4>1
    <3>2. CASE GivesBack(p)
      <4>1. lane' \in SUBSET lane
        BY <3>2 DEF GivesBack
      <4>2. IsFiniteSet(lane') /\ Cardinality(lane') <= Cardinality(lane)
        BY <1>n, <4>1, FS_Subset
      <4>3. Cardinality(lane') \in Nat
        BY <4>2, FS_CardinalityType
      <4> QED
        BY <1>h, <1>n, <4>2, <4>3
    <3>3. CASE Enters(p)
      BY <1>n, <3>3, FS_AddElement DEF Enters
    <3> QED
      BY <2>2, <3>1, <3>2, <3>3
  <2>4. ASSUME NEW q \in PRs PROVE pc'[q] \in LanePCs => q \in lane'
    <3>1. CASE q = p
      <4>1. CASE KeepsPlace(p)
        BY <1>h, <3>1, <4>1 DEF KeepsPlace
      <4>2. CASE GivesBack(p) \/ Enters(p)
        BY <3>1, <4>2 DEF GivesBack, Enters
      <4> QED
        BY <2>2, <4>1, <4>2
    <3>2. CASE q # p
      <4>1. pc'[q] = pc[q] /\ (q \in lane => q \in lane')
        BY <2>1, <2>2, <3>2 DEF KeepsPlace, GivesBack, Enters
      <4> QED
        BY <1>h, <4>1
    <3> QED
      BY <3>1, <3>2
  <2>5. ASSUME NEW q \in lane' PROVE pc'[q] \in Inside
    <3>1. CASE q = p
      BY <1>h, <2>2, <2>5, <3>1 DEF KeepsPlace, GivesBack, Enters
    <3>2. CASE q # p
      <4>1. q \in lane
        BY <2>2, <2>5, <3>2 DEF KeepsPlace, GivesBack, Enters
      <4>2. q \in PRs /\ pc[q] \in Inside
        BY <1>h, <4>1
      <4> QED
        BY <2>1, <3>2, <4>2
    <3> QED
      BY <3>1, <3>2
  <2> QED
    BY <2>3, <2>4, <2>5 DEF LaneHeld, Inside
<1>2. CASE Look
  <2> DEFINE p == Head(pending)
  <2>1. /\ UNCHANGED lane /\ \A q \in PRs : pc[q] = "done"
        /\ \A q \in PRs : pc'[q] \in {"enter", "done"}
    BY <1>2, <1>o DEF Look, Idle, Step, Go, OutcomeOK, outcome
  <2> QED
    BY <1>o, <2>1 DEF LaneHeld, LanePCs, OutcomeOK
<1>3. CASE Revisit \/ Stop \/ Over \/ UNCHANGED vars
           \/ \E p \in PRs : Environment(p)
  <2>1. UNCHANGED <<pc, lane>>
    BY <1>3 DEF Revisit, Stop, Over, vars, outcome, Environment, Report, Push,
       BaseMoves, OutsideMerge
  <2> QED
    BY <2>1 DEF LaneHeld
<1> QED
  BY <1>1, <1>2, <1>3 DEF Next

\* The lane holds no more than its width, of the PRs that are inside alone,
\* whatever fails and whenever the run is stopped (mergeInLane): no slot is
\* lost to a PR that left, and nobody merges without one.
THEOREM LaneIsKept == Spec => []LaneHeld
<1>1. Init => LaneHeld
  BY BoundsAssumption, FS_EmptySet DEF Init, LaneHeld, LanePCs
<1> QED
  BY <1>1, LaneStep, TypeCorrect, PTL DEF Spec
=============================================================================
