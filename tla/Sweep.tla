------------------------------- MODULE Sweep -------------------------------
(***************************************************************************)
(* One sweep over the bot pull requests of one repository.                 *)
(*                                                                         *)
(* Every pull request is processed by a goroutine of its own               *)
(* (internal/process: ProcessPR and everything it calls), at most Readers  *)
(* of them at once (cmd/common.go: forEachPR).  They share the rebase      *)
(* queue, the merge lane and the run's context.  A second pass (Revisit)   *)
(* then processes the pull requests that a merge of this run made dirty.   *)
(* Around them GitHub, CI, the bots and people move on.                    *)
(*                                                                         *)
(* One step is one request and the local work up to the next request, so   *)
(* anything may happen between two requests of a goroutine.  A merge takes *)
(* two steps, GitHub performing it and the goroutine learning of it,       *)
(* because the siblings act in between.                                    *)
(***************************************************************************)
EXTENDS Naturals, Sequences, FiniteSets

CONSTANTS
    PRs,            \* the pull requests, by number: the order of the list
    Traits,         \* Traits[p]: what is fixed about p for the whole run
    Actions,        \* the steps selected with --actions
    DryRun,         \* --dry-run
    MergeAutoMerge, \* --merge-auto: the sweep merges auto-merge PRs itself
    Readers,        \* how many PRs of the repository are read at once
    MergeLane,      \* how many merges of the repository run at once
    MaxRetries,     \* MergeMaxRetries: the merges tried on a moving base
    MaxPolls,       \* checks read again before CheckTimeout; 0 without it
    MaxLooks,       \* looks of the second pass before RebaseWait is over
    MaxHead,        \* bound: the commits a branch gets
    Strict,         \* the base requires an up-to-date branch
    FirstColors,    \* what the checks report when the run starts
    FirstStates,    \* the mergeable states when the run starts
    RedRows,        \* the outcomes of a red head this instance explores
    Hazards         \* what may go wrong around the sweep in this instance

TraitNames ==
    {"untouched",   \* archived, switched off by policy, or a team-file PR
     "untrusted",   \* not written by a trusted bot
     "fork",        \* the head branch lives in another repository
     "obsolete",    \* superseded, or a diff that changes nothing
     "stranded",    \* a Renovate PR whose last commit is a person's
     "held",        \* not eligible by policy, or an open proof item
     "own",         \* written by the account the sweep runs under
     "auto",        \* GitHub auto-merge is enabled
     "entry",       \* earns a changelog entry
     "rescued",     \* a marker that forbids update-branch may stand
     "silent",      \* a required CircleCI context may stay silent
     "number409"}   \* the number contains 409

HazardNames ==
    {"push",        \* the bot or a person pushes at any time
     "outside",     \* somebody else merges
     "basemoves",   \* somebody else moves the base branch
     "unknown",     \* GitHub is still computing the mergeable state
     "readfail",    \* a request fails while the run goes on
     "lostreply",   \* a write is performed and its answer is lost
     "refusal",     \* GitHub refuses a merge for a review or a check
     "basemodified",\* GitHub refuses a merge because the base just moved
     "limit",       \* the token's rate is spent (StopOnRateLimit)
     "cancel"}      \* the run is interrupted

Colors == {"pending", "green", "red"}
MStates == {"clean", "behind", "dirty"}
Heads == 1..MaxHead

\* The rows of the status table (pr.StatusState).
Transient == {"Pending", "Checking", "Approving", "Merging", "Retrying"}
Rows == Transient \union
    {"Merged", "AlreadyMerged", "AutoMerge", "Failed", "FailedSecurity",
     "BlockedCI", "Skipped", "Conflict", "UntrustedAuthor", "Stale",
     "Refreshed", "Cancelled", "Retried", "NoVerdict", "Obsolete",
     "WaitingChecks", "AwaitingApproval", "Held", "Eligible",
     "AwaitingRebase", "Remedied"}

\* What evaluateChecks makes of a red head, pre-existing reds apart.
AllRedRows == {"BlockedCI", "NoVerdict", "Cancelled", "Stale", "Obsolete",
               "FailedSecurity", "Failed"}

\* The rows a rule of the catalogue may act on (rules.Remediable).
Remediable == {"Failed", "Stale", "Conflict", "Cancelled", "NoVerdict",
               "BlockedCI", "Obsolete", "WaitingChecks", "AwaitingApproval",
               "Held"}

\* The rows that stand when the run stopped on a rate limit (cutShort).
WrittenRowsButMerged == {"AlreadyMerged", "AutoMerge", "Refreshed", "Retried",
                         "Remedied"}    \* mutant: one row left out
WrittenRows == {"Merged", "AlreadyMerged", "AutoMerge", "Refreshed",
                "Retried", "Remedied"}

\* The marge/<class> label of a row, "" where the sweep writes none.
LabelClass(s) ==
    CASE s \in {"Merged", "AlreadyMerged"} -> "merged"
      [] s = "AutoMerge" -> "auto-merge"
      [] s = "Failed" -> "action-required"
      [] s = "Held" -> "held"
      [] s = "FailedSecurity" -> "security"
      [] s \in {"BlockedCI", "NoVerdict"} -> "ci-unavailable"
      [] s \in {"Stale", "Refreshed"} -> "stale"
      [] s \in {"Cancelled", "Retried", "WaitingChecks",
                "AwaitingRebase"} -> "pending"
      [] s = "Conflict" -> "conflict"
      [] s = "AwaitingApproval" -> "awaiting-approval"
      [] s = "Eligible" -> "eligible"
      [] s = "Remedied" -> "remedied"
      [] s \in {"Skipped", "UntrustedAuthor"} -> "skipped"
      [] OTHER -> ""

\* Where a goroutine stands: the request it sends next.
PCs == {"queued", "enter", "fetch", "statuses", "runs", "poll", "retry",
        "changelog", "reviews", "approve", "lane", "reread", "merge",
        "merged", "backoff", "retryget", "conflict", "refresh", "finish",
        "rule", "label", "done"}
LanePCs == {"reread", "merge", "merged", "backoff", "retryget"}

ASSUME PRsAssumption == PRs \subseteq Nat \ {0} /\ IsFiniteSet(PRs)
ASSUME TraitsAssumption == Traits \in [PRs -> SUBSET TraitNames]
ASSUME BoundsAssumption ==
    /\ Readers \in Nat \ {0}
    /\ MergeLane \in Nat \ {0}
    /\ MaxRetries \in Nat \ {0}
    /\ MaxPolls \in Nat
    /\ MaxLooks \in Nat
    /\ MaxHead \in Nat \ {0}
ASSUME SwitchesAssumption ==
    /\ DryRun \in BOOLEAN
    /\ MergeAutoMerge \in BOOLEAN
    /\ Strict \in BOOLEAN
    /\ FirstColors \subseteq Colors
    /\ FirstStates \subseteq MStates
    /\ RedRows \subseteq AllRedRows
    /\ Hazards \subseteq HazardNames

VARIABLES
    \* GitHub
    head,       \* head[p]: the newest commit of the branch
    ci,         \* ci[p]: what the two kinds of checks report on head[p]
    mstate,     \* mstate[p]: the mergeable state
    landed,     \* landed[p]: the head that was merged, or 0
    swept,      \* the PRs this sweep merged
    approvals,  \* approvals[p]: the heads the sweep's approvals landed on
    label,      \* label[p]: the labels of p: "old", "none", a class, "both"
    \* the run
    ctx,        \* "live", "limited" (rate limit) or "cancelled"
    merges,     \* rebaseQueue.merges of the repository
    mergedBy,   \* rebaseQueue.mergedBy of the repository, 0 when absent
    deferred,   \* rebaseQueue.deferred
    lane,       \* the PRs that hold a slot of the merge lane
    pass,       \* "first" or "second": rebaseQueue.revisiting
    pending,    \* what Revisit still has to look at
    looks,      \* how much of RebaseWait is spent
    \* one goroutine per PR
    pc,
    row,        \* row[p]: the state in the status table
    pull,       \* pull[p]: prRun.pull, the PR as it was read
    seen,       \* seen[p]: prRun.mergesSeen
    read,       \* read[p]: the commit statuses, as read in this poll
    attempt,    \* attempt[p]: the merge attempts
    polls,      \* polls[p]: the polls of evaluateChecks
    \* history, read by properties only
    passed,     \* passed[p]: heads on which both kinds were read green
    outdated,   \* outdated[p]: the sweep merged a sibling since p was read
    dirtied,    \* dirtied[p]: who made p dirty: "no", "sweep" or "other"
    blind       \* blind[p]: a request of p failed because the rate is spent

github == <<head, ci, mstate, landed, swept, approvals, label>>
branch == <<head, ci, mstate, dirtied>>
queue == <<merges, mergedBy, deferred, pass, pending, looks>>
local == <<pull, seen, read, attempt, polls>>
outcome == <<pc, row, lane>>
history == <<passed, outdated, dirtied, blind>>
vars == <<github, ctx, queue, local, outcome, history>>

Is(p, trait) == trait \in Traits[p]
Unread == [head |-> 0, state |-> "unknown"]
Open(p) == landed[p] = 0

----------------------------------------------------------------------------
(* Helpers of the steps.                                                   *)

Set(p, s) == row' = [row EXCEPT ![p] = s]
Go(p, next) == pc' = [pc EXCEPT ![p] = next]

\* The goroutine goes on to its next request.
Step(p, next) == Go(p, next) /\ UNCHANGED <<row, lane>>

\* ProcessPR returns with row s: a held lane slot is given back, and then
\* the deferred finish runs.
LeaveHolding(p, s) ==           \* mutant: the slot is not given back
    Set(p, s) /\ Go(p, "finish") /\ UNCHANGED lane
Leave(p, s) ==
    /\ Set(p, s)
    /\ Go(p, "finish")
    /\ lane' = lane \ {p}

\* prRun ends with ProcessPR.
Forget(p) ==
    /\ pull' = [pull EXCEPT ![p] = Unread]
    /\ read' = [read EXCEPT ![p] = Unread]
    /\ seen' = [seen EXCEPT ![p] = 0]
    /\ attempt' = [attempt EXCEPT ![p] = 0]
    /\ polls' = [polls EXCEPT ![p] = 0]

\* A stopped context fails every request; a live one only by bad luck.
Answers == ctx = "live"
MayFail == ctx # "live" \/ "readfail" \in Hazards
MayLoseReply == ctx # "live" \/ "lostreply" \in Hazards

\* Remember that the outcome of p rests on a request the stop refused.
Blinded(p) == blind' = [blind EXCEPT ![p] = @ \/ ctx = "limited"]

\* The mergeable state a read of p reports.
Reported(p) ==
    IF Open(p)
      THEN {mstate[p]} \union
           (IF "unknown" \in Hazards THEN {"unknown"} ELSE {})
      ELSE {"unknown"}

\* A commit on p's branch: CI starts over and GitHub finds no conflict.
NewHead(p) ==
    IF head[p] < MaxHead
      THEN /\ head' = [head EXCEPT ![p] = @ + 1]
           /\ ci' = [ci EXCEPT ![p] = [statuses |-> "pending",
                                       runs |-> "pending"]]
           /\ mstate' = [mstate EXCEPT ![p] = "clean"]
           /\ dirtied' = [dirtied EXCEPT ![p] = "no"]
      ELSE UNCHANGED branch

----------------------------------------------------------------------------
(* ProcessPR up to the checks.                                             *)

Active == {p \in PRs : pc[p] \notin {"queued", "done"}}

\* forEachPR starts the PRs in list order, Readers of them at once.
Start(p) ==
    /\ pc[p] = "queued"
    /\ \A q \in PRs : q < p => pc[q] # "queued"
    /\ Cardinality(Active) < Readers
    /\ Step(p, "enter")
    /\ UNCHANGED <<github, ctx, queue, local, history>>

\* A stopped run leaves p as it is; otherwise the merges are counted first.
Enter(p) ==
    /\ pc[p] = "enter"
    /\ IF ctx = "live"
         THEN Step(p, "fetch") /\ seen' = [seen EXCEPT ![p] = merges]
         ELSE Step(p, "done") /\ UNCHANGED seen
    /\ UNCHANGED <<github, ctx, queue, pull, read, attempt, polls, history>>

\* What ProcessPR makes of the PR it read, up to the next request.
Classify(p, state) ==
    CASE Is(p, "untouched") -> /\ Set(p, "Skipped")
                               /\ Go(p, "done")
                               /\ UNCHANGED lane
      [] ~Is(p, "untouched") /\ Is(p, "untrusted") ->
           Leave(p, "UntrustedAuthor")
      [] OTHER ->
           IF ~Open(p) THEN Leave(p, "AlreadyMerged")
           ELSE IF Is(p, "fork") THEN Leave(p, "Skipped")
           ELSE IF state # "dirty" THEN /\ Set(p, "Checking")
                                        /\ Go(p, "statuses")
                                        /\ UNCHANGED lane
           ELSE IF Is(p, "obsolete") THEN Leave(p, "Obsolete")
           ELSE Step(p, "conflict")

\* PullRequests.Get.  A PR that could not be read gets no finish.
Fetch(p) ==
    /\ pc[p] = "fetch"
    /\ \/ /\ Answers
          /\ \E state \in Reported(p) :
               /\ Classify(p, state)
               /\ pull' = [pull EXCEPT ![p] = [head |-> head[p],
                                               state |-> state]]
          /\ outdated' = [outdated EXCEPT ![p] = FALSE]
       \/ /\ MayFail
          /\ IF ctx = "live"
               THEN Set(p, "Failed") /\ Go(p, "done") /\ UNCHANGED lane
               ELSE Step(p, "done")
          /\ UNCHANGED <<pull, outdated>>
    /\ UNCHANGED <<github, ctx, queue, seen, read, attempt, polls,
                   passed, dirtied, blind>>

----------------------------------------------------------------------------
(* evaluateChecks.  Both kinds of checks are read by the ref of the pull   *)
(* request, so each answers for the head of its own moment.                *)

ReadStatuses(p) ==
    /\ pc[p] = "statuses"
    /\ \/ /\ Answers
          /\ Step(p, "runs")
          /\ read' = [read EXCEPT ![p] = [head |-> head[p],
                                          state |-> ci[p].statuses]]
          /\ UNCHANGED blind
       \/ /\ MayFail
          /\ Leave(p, "Failed")
          /\ Blinded(p)
          /\ UNCHANGED read
    /\ UNCHANGED <<github, ctx, queue, pull, seen, attempt, polls,
                   passed, outdated, dirtied>>

\* After the approval: no merge step, GitHub's auto-merge, or the lane.
ToMerge(p) ==
    IF "merge" \notin Actions THEN Leave(p, "Eligible")
    ELSE IF ~Is(p, "auto") \/ MergeAutoMerge THEN Step(p, "lane")
    ELSE IF pull[p].state = "behind" THEN Step(p, "refresh")
    ELSE Leave(p, "AutoMerge")

ToApproval(p) ==
    IF "approve" \in Actions /\ ~Is(p, "own")
      THEN Step(p, "reviews")
      ELSE ToMerge(p)

\* A green head: held, planned (dry run), given its entry, or approved.
Proceed(p) ==
    IF Is(p, "held") THEN Leave(p, "Held")
    ELSE IF DryRun
      THEN \/ Leave(p, "Eligible")
           \/ /\ "approve" \in Actions /\ "readfail" \in Hazards
              /\ Leave(p, "Skipped")
    ELSE IF "changelog" \in Actions /\ Is(p, "entry") THEN Step(p, "changelog")
    ELSE ToApproval(p)

\* classifyFailure: a red head ends here, or goes to the step that helps it.
RejectAlways(p, s) ==           \* mutant: a dry run reruns builds as well
    CASE s = "Stale" /\ "refresh" \in Actions ->
           Set(p, s) /\ Go(p, "refresh") /\ UNCHANGED lane
      [] s = "Cancelled" /\ "retry" \in Actions ->
           Set(p, s) /\ Go(p, "retry") /\ UNCHANGED lane
      [] OTHER -> Leave(p, s)
Reject(p, s) ==
    CASE s = "Stale" /\ "refresh" \in Actions ->
           Set(p, s) /\ Go(p, "refresh") /\ UNCHANGED lane
      [] s = "Cancelled" /\ "retry" \in Actions /\ ~DryRun ->
           Set(p, s) /\ Go(p, "retry") /\ UNCHANGED lane
      [] OTHER -> Leave(p, s)

\* Checks that have not all reported: the PR waits, and without a
\* CheckTimeout it waits for the next sweep.  A context that never reports
\* is rerun once (handleUnposted).
Wait(p) ==
    \/ /\ Is(p, "silent")
       /\ \/ Leave(p, "NoVerdict")
          \/ "retry" \in Actions /\ ~DryRun /\ Leave(p, "Retried")
    \/ IF MaxPolls = 0
         THEN Leave(p, "WaitingChecks")
         ELSE Set(p, "WaitingChecks") /\ Go(p, "poll") /\ UNCHANGED lane

\* What the combined state is made of: the statuses as they were read, and
\* the check runs.  A red check outweighs a pending one.
RunsAlone(p) == {ci[p].runs}    \* mutant: the statuses are not looked at
Checks(p) == {read[p].state, ci[p].runs}

\* ListCheckRunsForRef and the verdict.
ReadRuns(p) ==
    /\ pc[p] = "runs"
    /\ \/ /\ Answers
          /\ \/ "red" \in Checks(p) /\ \E s \in RedRows : Reject(p, s)
             \/ "red" \notin Checks(p) /\ "pending" \in Checks(p) /\ Wait(p)
             \/ Checks(p) = {"green"} /\ Proceed(p)
          /\ passed' = IF /\ read[p].head = head[p]
                          /\ read[p].state = "green" /\ ci[p].runs = "green"
                         THEN [passed EXCEPT ![p] = @ \union {head[p]}]
                         ELSE passed
          /\ UNCHANGED blind
       \/ /\ MayFail
          /\ Leave(p, "Failed")
          /\ Blinded(p)
          /\ UNCHANGED passed
    /\ UNCHANGED <<github, ctx, queue, local, outdated, dirtied>>

\* The deadline of the polls is still to come.
OnePollMore(p) == polls[p] <= MaxPolls      \* mutant: off by one
BeforeDeadline(p) == polls[p] < MaxPolls

\* The wait between two polls, up to the deadline.
Poll(p) ==
    /\ pc[p] = "poll"
    /\ \/ /\ BeforeDeadline(p)
          /\ polls' = [polls EXCEPT ![p] = @ + 1]
          /\ Step(p, "statuses")
       \/ /\ Leave(p, "WaitingChecks")
          /\ UNCHANGED polls
       \/ /\ ctx # "live"
          /\ Leave(p, "Skipped")
          /\ UNCHANGED polls
    /\ UNCHANGED <<github, ctx, queue, pull, seen, read, attempt, history>>

\* handleCancelled: the cancelled builds run again on the same head.
Retry(p) ==
    /\ pc[p] = "retry"
    /\ \/ /\ Answers
          /\ ci' = [ci EXCEPT ![p].runs = "pending"]
          /\ Leave(p, "Retried")
          /\ UNCHANGED blind
       \/ /\ MayFail
          /\ Leave(p, "Cancelled")
          /\ Blinded(p)
          /\ UNCHANGED ci
    /\ UNCHANGED <<head, mstate, landed, swept, approvals, label, ctx, queue,
                   local, passed, outdated, dirtied>>

----------------------------------------------------------------------------
(* The writes before the merge: the changelog entry and the approval.      *)

\* WriteChangelogEntry.  A line already there and an error both go on.
Changelog(p) ==
    /\ pc[p] = "changelog"
    /\ \/ /\ Answers /\ NewHead(p)
          /\ Leave(p, "WaitingChecks")
          /\ UNCHANGED blind
       \/ Answers /\ ToApproval(p) /\ UNCHANGED <<branch, blind>>
       \/ MayLoseReply /\ NewHead(p) /\ ToApproval(p) /\ Blinded(p)
       \/ MayFail /\ ToApproval(p) /\ Blinded(p) /\ UNCHANGED branch
    /\ UNCHANGED <<landed, swept, approvals, label, ctx, queue, local,
                   passed, outdated>>

\* ListReviews and ensureWriteAccess.  A push may have dismissed an approval.
ListReviews(p) ==
    /\ pc[p] = "reviews"
    /\ \/ /\ Answers /\ approvals[p] # {}
          /\ ToMerge(p)
          /\ UNCHANGED blind
       \/ /\ Answers /\ head[p] \notin approvals[p]
          /\ Set(p, "Approving") /\ Go(p, "approve")
          /\ UNCHANGED <<lane, blind>>
       \/ /\ MayFail
          /\ Leave(p, "Failed")
          /\ Blinded(p)
    /\ UNCHANGED <<github, ctx, queue, local, passed, outdated, dirtied>>

\* CreateReview names no commit: GitHub files it under the current head.
Approve(p) ==
    /\ pc[p] = "approve"
    /\ \/ /\ Answers
          /\ approvals' = [approvals EXCEPT ![p] = @ \union {head[p]}]
          /\ ToMerge(p)
          /\ UNCHANGED blind
       \/ /\ MayLoseReply
          /\ approvals' = [approvals EXCEPT ![p] = @ \union {head[p]}]
          /\ Leave(p, "Failed")
          /\ Blinded(p)
       \/ /\ MayFail
          /\ Leave(p, "Failed")
          /\ Blinded(p)
          /\ UNCHANGED approvals
    /\ UNCHANGED <<head, ci, mstate, landed, swept, label, ctx, queue, local,
                   passed, outdated, dirtied>>

----------------------------------------------------------------------------
(* mergeInLane and merge.                                                  *)

\* merge: a PR behind its base is updated instead, to merge another day.
EnterMerge(p, state) ==
    IF state = "behind"
      THEN Step(p, "refresh") /\ UNCHANGED attempt
      ELSE /\ Set(p, "Merging")
           /\ Go(p, "merge")
           /\ UNCHANGED lane
           /\ attempt' = [attempt EXCEPT ![p] = 1]

\* The count of merges moved since ProcessPR took it.
TwoMergedSince(p) == merges > seen[p] + 1   \* mutant: off by one
SiblingMerged(p) == merges # seen[p]

\* A slot of the lane.  A sibling merged since p was read makes p reread.
AcquireLane(p) ==
    /\ pc[p] = "lane"
    /\ \/ /\ Cardinality(lane) < MergeLane
          /\ lane' = lane \union {p}
          /\ IF SiblingMerged(p)
               THEN Go(p, "reread") /\ UNCHANGED <<row, attempt>>
               ELSE IF pull[p].state = "behind"
               THEN Go(p, "refresh") /\ UNCHANGED <<row, attempt>>
               ELSE /\ Go(p, "merge")
                    /\ Set(p, "Merging")
                    /\ attempt' = [attempt EXCEPT ![p] = 1]
       \/ /\ ctx # "live"
          /\ Leave(p, "Skipped")
          /\ UNCHANGED attempt
    /\ UNCHANGED <<github, ctx, queue, pull, seen, read, polls, history>>

\* The PR is read again inside the lane.
Reread(p) ==
    /\ pc[p] = "reread"
    /\ \/ /\ Answers /\ ~Open(p)
          /\ Leave(p, "AlreadyMerged")
          /\ UNCHANGED <<pull, attempt, outdated, blind>>
       \/ /\ Answers /\ Open(p) /\ head[p] # pull[p].head
          /\ Leave(p, "WaitingChecks")
          /\ UNCHANGED <<pull, attempt, outdated, blind>>
       \/ /\ Answers /\ Open(p) /\ head[p] = pull[p].head
          /\ \E state \in Reported(p) :
               /\ pull' = [pull EXCEPT ![p].state = state]
               /\ IF state = "dirty"
                    THEN Step(p, "conflict") /\ UNCHANGED attempt
                    ELSE EnterMerge(p, state)
          /\ outdated' = [outdated EXCEPT ![p] = FALSE]
          /\ UNCHANGED blind
       \/ /\ MayFail
          /\ Leave(p, "Failed")
          /\ Blinded(p)
          /\ UNCHANGED <<pull, attempt, outdated>>
    /\ UNCHANGED <<github, ctx, queue, seen, read, polls, passed, dirtied>>

\* What a landing does to the open siblings: some conflict now, and the
\* others of a repository with strict protection fall behind.
Disturb(p) ==
    \E conflicted \in
         SUBSET {q \in PRs \ {p} : Open(q) /\ mstate[q] # "dirty"} :
        /\ mstate' = [q \in PRs |->
               IF q \in conflicted THEN "dirty"
               ELSE IF Strict /\ q # p /\ Open(q) /\ mstate[q] = "clean"
                 THEN "behind" ELSE mstate[q]]
        /\ dirtied' = [q \in PRs |->
               IF q \in conflicted THEN "sweep" ELSE dirtied[q]]

\* The head the merge names.
NewestHead(p) == head[p]        \* mutant: the merge names no head
NamedHead(p) == pull[p].head

\* GitHub performs the merge of the head it names.
Land(p) ==
    /\ pc[p] = "merge"
    /\ Answers
    /\ Open(p) /\ head[p] = NamedHead(p)
    /\ mstate[p] # "dirty" /\ (Strict => mstate[p] # "behind")
    /\ Step(p, "merged")
    /\ landed' = [landed EXCEPT ![p] = NamedHead(p)]
    /\ swept' = swept \union {p}
    /\ outdated' = [q \in PRs |-> TRUE]
    /\ Disturb(p)
    /\ UNCHANGED <<head, ci, approvals, label, ctx, queue, local,
                   passed, blind>>

\* A merge error with "409" or "conflict" in its text, which names the URL,
\* is taken for a conflict; every other one fails the PR.
MergeError(p) ==
    IF Is(p, "number409") THEN Step(p, "conflict") ELSE Leave(p, "Failed")

\* recordMerge: every merge is counted, and the first is remembered.
RecordFirst(p) ==               \* mutant: later merges are not counted
    /\ merges' = IF mergedBy = 0 THEN merges + 1 ELSE merges
    /\ mergedBy' = IF mergedBy = 0 THEN p ELSE mergedBy
RecordMerge(p) ==
    /\ merges' = merges + 1
    /\ mergedBy' = IF mergedBy = 0 THEN p ELSE mergedBy

\* The answer arrives: the row and the queue say so.
Merged(p) ==
    /\ pc[p] = "merged"
    /\ Leave(p, "Merged")
    /\ RecordMerge(p)
    /\ UNCHANGED <<github, ctx, deferred, pass, pending, looks, local,
                   history>>

\* The answer is lost: a timeout, or the run stopped while it was awaited.
LoseMerged(p) ==
    /\ pc[p] = "merged"
    /\ MayLoseReply
    /\ MergeError(p)
    /\ Blinded(p)
    /\ UNCHANGED <<github, ctx, queue, local, passed, outdated, dirtied>>

\* GitHub refuses the merge, or the request fails.
RefuseMerge(p) ==
    /\ pc[p] = "merge"
    /\ \/ Answers /\ Open(p) /\ head[p] # NamedHead(p)
          /\ Leave(p, "WaitingChecks") /\ UNCHANGED blind
       \/ Answers /\ "refusal" \in Hazards
          /\ \E s \in {"AwaitingApproval", "WaitingChecks"} : Leave(p, s)
          /\ UNCHANGED blind
       \/ Answers /\ (~Open(p) \/ mstate[p] \in {"dirty", "behind"})
          /\ MergeError(p) /\ UNCHANGED blind
       \/ Answers /\ Open(p) /\ mstate[p] = "dirty"
          /\ Step(p, "conflict") /\ UNCHANGED blind
       \/ MayFail /\ MergeError(p) /\ Blinded(p)
    /\ UNCHANGED <<github, ctx, queue, local, passed, outdated, dirtied>>

\* "Base branch was modified": tried again after a wait, MaxRetries times.
BaseModified(p) ==
    /\ pc[p] = "merge"
    /\ Answers /\ "basemodified" \in Hazards
    /\ IF attempt[p] = MaxRetries
         THEN Leave(p, "Failed")
         ELSE Step(p, "backoff")
    /\ UNCHANGED <<github, ctx, queue, local, history>>

Backoff(p) ==
    /\ pc[p] = "backoff"
    /\ Step(p, "retryget") \/ (ctx # "live" /\ Leave(p, "Skipped"))
    /\ UNCHANGED <<github, ctx, queue, local, history>>

\* Between two attempts the PR is read, and kept only when it fell behind:
\* the next attempt names the head of the first.
RetryGet(p) ==
    /\ pc[p] = "retryget"
    /\ \/ /\ Answers /\ ~Open(p)
          /\ Leave(p, "AlreadyMerged")
          /\ UNCHANGED <<pull, attempt, blind>>
       \/ /\ Answers /\ Open(p)
          /\ \E state \in Reported(p) :
               CASE state = "dirty" ->
                      Step(p, "conflict") /\ UNCHANGED <<pull, attempt>>
                 [] state = "behind" ->
                      /\ Step(p, "refresh")
                      /\ pull' = [pull EXCEPT ![p] = [head |-> head[p],
                                                      state |-> state]]
                      /\ UNCHANGED attempt
                 [] OTHER ->
                      /\ Set(p, "Retrying") /\ Go(p, "merge")
                      /\ attempt' = [attempt EXCEPT ![p] = @ + 1]
                      /\ UNCHANGED <<lane, pull>>
          /\ UNCHANGED blind
       \/ /\ MayFail
          /\ Leave(p, "Failed")
          /\ Blinded(p)
          /\ UNCHANGED <<pull, attempt>>
    /\ UNCHANGED <<github, ctx, queue, seen, read, polls,
                   passed, outdated, dirtied>>

----------------------------------------------------------------------------
(* setConflict and updateBranch.                                           *)

\* The first pass queues a PR for the second, which queues nothing.
QueueAlways(p) == Append(deferred, p)       \* mutant: in either pass
Queued(p) == IF pass = "first" THEN Append(deferred, p) ELSE deferred

\* A branch the bot no longer rebases is a conflict for a person.  Else it
\* is the sweep's own conflict when the sweep merged in this repository, and
\* the first pass queues it for the second.
Conflict(p) ==
    /\ pc[p] = "conflict"
    /\ \/ /\ Is(p, "stranded") /\ Answers
          /\ Leave(p, "Conflict")
          /\ UNCHANGED <<deferred, blind>>
       \/ /\ Is(p, "stranded") => MayFail
          /\ IF mergedBy = 0
               THEN Leave(p, "Conflict") /\ UNCHANGED deferred
               ELSE Leave(p, "AwaitingRebase") /\ deferred' = Queued(p)
          /\ IF Answers /\ ~Is(p, "stranded")
               THEN UNCHANGED blind ELSE Blinded(p)
    /\ UNCHANGED <<github, ctx, merges, mergedBy, pass, pending, looks, local,
                   passed, outdated, dirtied>>

\* The update-branch action behind its guards.  A refusal leaves the row.
UpdateBranch(p) ==
    \/ /\ DryRun \/ Is(p, "rescued")
       /\ UNCHANGED <<row, branch, blind>>
    \/ /\ ~DryRun /\ Answers /\ Open(p)
       /\ NewHead(p)
       /\ Set(p, "Refreshed")
       /\ UNCHANGED blind
    \/ /\ ~DryRun /\ MayLoseReply /\ Open(p)
       /\ NewHead(p)
       /\ Set(p, "Failed")
       /\ Blinded(p)
    \/ /\ ~DryRun /\ (MayFail \/ ~Open(p))
       /\ Set(p, "Failed")
       /\ Blinded(p)
       /\ UNCHANGED branch

\* ProcessPR ends with an update of the branch.
Refresh(p) ==
    /\ pc[p] = "refresh"
    /\ UpdateBranch(p)
    /\ Go(p, "finish")
    /\ lane' = lane \ {p}
    /\ UNCHANGED <<landed, swept, approvals, label, ctx, queue, local,
                   passed, outdated>>

----------------------------------------------------------------------------
(* finish: the rules, the label, and the rows of a stopped run.            *)

\* An outcome the sweep wrote to GitHub stands.
StandsUnlessFailed(s) == s # "Failed"       \* mutant: and every other one
Stands(s) == s \in WrittenRows

\* A run stopped on a rate limit leaves pending what it wrote nothing for.
CutShort(p) ==
    /\ pc[p] = "finish"
    /\ ctx = "limited"
    /\ Set(p, IF Stands(row[p]) THEN row[p] ELSE "Pending")
    /\ Go(p, "done")
    /\ Forget(p)
    /\ UNCHANGED <<github, ctx, queue, lane, history>>

\* The stop is looked at once: a later one finds the rules already running.
Finish(p) ==
    /\ pc[p] = "finish"
    /\ ctx # "limited"
    /\ Step(p, "rule")
    /\ UNCHANGED <<github, ctx, queue, local, history>>

\* applyRule: the catalogue acts on what it may act on, or leaves it.  A rule
\* that only waits for the branch updates it instead.
Rule(p) ==
    /\ pc[p] = "rule"
    /\ Go(p, "label")
    /\ \/ UNCHANGED <<row, branch, blind>>
       \/ /\ "remedy" \in Actions /\ row[p] \in Remediable /\ ~DryRun
          /\ \/ Answers /\ Set(p, "Remedied") /\ UNCHANGED <<branch, blind>>
             \/ UpdateBranch(p)
    /\ UNCHANGED <<landed, swept, approvals, label, ctx, queue, local, lane,
                   passed, outdated>>

\* The sweep has a label to write for the row.
LabelsOnce(p) ==                \* mutant: and wrote none before
    ~DryRun /\ LabelClass(row[p]) # "" /\ label[p] = "old"
Labels(p) == ~DryRun /\ LabelClass(row[p]) # ""

\* What requests that fail leave of the label of class want: the old one, if
\* it could not be removed, with the new one or without, or none.
Leftovers(p, want) ==
    {label[p], want} \union
    (CASE label[p] = want   -> {}
       [] label[p] = "none" -> {}
       [] OTHER             -> {"none", "both"})

\* setLabel: the old label goes, the new one comes, and either may fail.
Label(p) ==
    /\ pc[p] = "label"
    /\ Step(p, "done")
    /\ Forget(p)
    /\ \/ ~Labels(p) /\ UNCHANGED label
       \/ /\ Labels(p) /\ Answers
          /\ label' = [label EXCEPT ![p] = LabelClass(row[p])]
       \/ /\ Labels(p) /\ MayFail
          /\ \E left \in Leftovers(p, LabelClass(row[p])) :
               label' = [label EXCEPT ![p] = left]
    /\ UNCHANGED <<head, ci, mstate, landed, swept, approvals, ctx, queue,
                   history>>

----------------------------------------------------------------------------
(* The second pass.                                                        *)

Idle == \A p \in PRs : pc[p] = "done"

\* Revisit takes the queue and closes it.
Revisit ==
    /\ pass = "first" /\ Idle
    /\ pass' = "second"
    /\ pending' = deferred
    /\ deferred' = <<>>
    /\ UNCHANGED <<github, ctx, merges, mergedBy, looks, local, outcome,
                   history>>

\* revisitOne: one look at the first pending PR.
Look ==
    /\ pass = "second" /\ Idle /\ pending # <<>>
    /\ LET p == Head(pending)
       IN \/ /\ Answers
             /\ \E state \in Reported(p) \ {"dirty", "unknown"} :
                  Step(p, "enter")
             /\ pending' = Tail(pending)
             /\ UNCHANGED looks
          \/ /\ Answers /\ looks < MaxLooks
             /\ Reported(p) \intersect {"dirty", "unknown"} # {}
             /\ looks' = looks + 1
             /\ UNCHANGED <<outcome, pending>>
          \/ /\ Answers /\ looks = MaxLooks
             /\ Reported(p) \intersect {"dirty", "unknown"} # {}
             /\ Set(p, "AwaitingRebase")
             /\ pending' = Tail(pending)
             /\ UNCHANGED <<pc, lane, looks>>
          \/ /\ MayFail
             /\ IF ctx = "live" THEN Set(p, "AwaitingRebase") ELSE UNCHANGED row
             /\ pending' = Tail(pending)
             /\ UNCHANGED <<pc, lane, looks>>
    /\ UNCHANGED <<github, ctx, merges, mergedBy, deferred, pass, local,
                   history>>

Finished == pass = "second" /\ Idle /\ pending = <<>>

\* The run is over: nothing moves any more.
Over == Finished /\ UNCHANGED vars

----------------------------------------------------------------------------
(* The environment.                                                        *)

\* CI reports one kind of checks on the current head.
Report(p) ==
    /\ Open(p)
    /\ \E kind \in {"statuses", "runs"}, color \in {"green", "red"} :
         /\ ci[p][kind] = "pending"
         /\ ci' = [ci EXCEPT ![p][kind] = color]
    /\ UNCHANGED <<head, mstate, landed, swept, approvals, label, ctx, queue,
                   local, outcome, history>>

\* The bot rebases a dirty branch it still owns; with "push" anybody pushes.
Push(p) ==
    /\ Open(p) /\ head[p] < MaxHead
    /\ (mstate[p] = "dirty" /\ ~Is(p, "stranded")) \/ "push" \in Hazards
    /\ NewHead(p)
    /\ UNCHANGED <<landed, swept, approvals, label, ctx, queue, local,
                   outcome, passed, outdated, blind>>

\* Somebody else moves the base.
BaseMoves(p) ==
    /\ "basemoves" \in Hazards
    /\ Open(p) /\ mstate[p] # "dirty"
    /\ \E state \in {"behind", "dirty"} :
         /\ mstate' = [mstate EXCEPT ![p] = state]
         /\ dirtied' = [dirtied EXCEPT ![p] =
                          IF state = "dirty" THEN "other" ELSE @]
    /\ UNCHANGED <<head, ci, landed, swept, approvals, label, ctx, queue,
                   local, outcome, passed, outdated, blind>>

\* Somebody else, or GitHub's auto-merge, merges the PR.
OutsideMerge(p) ==
    /\ "outside" \in Hazards
    /\ Open(p) /\ mstate[p] # "dirty"
    /\ landed' = [landed EXCEPT ![p] = head[p]]
    /\ UNCHANGED <<head, ci, mstate, swept, approvals, label, ctx, queue,
                   local, outcome, history>>

\* StopOnRateLimit, or an interrupt.  The first cause stays the cause.
Stop ==
    /\ ctx = "live" /\ ~Finished
    /\ \/ "limit" \in Hazards /\ ctx' = "limited"
       \/ "cancel" \in Hazards /\ ctx' = "cancelled"
    /\ UNCHANGED <<github, queue, local, outcome, history>>

----------------------------------------------------------------------------

Init ==
    /\ head = [p \in PRs |-> 1]
    /\ ci \in [PRs -> [statuses : FirstColors, runs : FirstColors]]
    /\ mstate \in [PRs -> FirstStates]
    /\ landed = [p \in PRs |-> 0]
    /\ swept = {}
    /\ approvals = [p \in PRs |-> {}]
    /\ label = [p \in PRs |-> "old"]
    /\ ctx = "live"
    /\ merges = 0 /\ mergedBy = 0
    /\ deferred = <<>> /\ pending = <<>>
    /\ lane = {}
    /\ pass = "first"
    /\ looks = 0
    /\ pc = [p \in PRs |-> "queued"]
    /\ row = [p \in PRs |-> "Pending"]
    /\ pull = [p \in PRs |-> Unread]
    /\ read = [p \in PRs |-> Unread]
    /\ seen = [p \in PRs |-> 0]
    /\ attempt = [p \in PRs |-> 0]
    /\ polls = [p \in PRs |-> 0]
    /\ passed = [p \in PRs |-> {}]
    /\ outdated = [p \in PRs |-> FALSE]
    /\ dirtied = [p \in PRs |-> IF mstate[p] = "dirty" THEN "other" ELSE "no"]
    /\ blind = [p \in PRs |-> FALSE]

\* The steps of one goroutine, finish included.
Goroutine(p) ==
    \/ Enter(p) \/ Fetch(p) \/ ReadStatuses(p) \/ ReadRuns(p) \/ Poll(p)
    \/ Retry(p) \/ Changelog(p) \/ ListReviews(p) \/ Approve(p)
    \/ AcquireLane(p) \/ Reread(p) \/ Land(p) \/ Merged(p) \/ LoseMerged(p)
    \/ RefuseMerge(p) \/ BaseModified(p) \/ Backoff(p) \/ RetryGet(p)
    \/ Conflict(p) \/ Refresh(p) \/ CutShort(p) \/ Finish(p)
    \/ Rule(p) \/ Label(p)

Environment(p) == Report(p) \/ Push(p) \/ BaseMoves(p) \/ OutsideMerge(p)

Next ==
    \/ \E p \in PRs : Start(p) \/ Goroutine(p)
    \/ ~Finished /\ \E p \in PRs : Environment(p)
    \/ Revisit
    \/ Look
    \/ Stop
    \/ Over

Spec == Init /\ [][Next]_vars

\* Every request is answered or times out, every wait has a deadline, and the
\* Go scheduler runs every goroutine; GitHub, CI and people owe nothing.
Fairness ==
    /\ \A p \in PRs : WF_vars(Start(p)) /\ WF_vars(Goroutine(p))
    /\ WF_vars(Revisit)
    /\ WF_vars(Look)

FairSpec == Spec /\ Fairness

----------------------------------------------------------------------------
(* Properties.                                                             *)

Reading == [head : 0..MaxHead, state : MStates \union Colors \union {"unknown"}]

GitHubOK ==
    /\ head \in [PRs -> Heads]
    /\ ci \in [PRs -> [statuses : Colors, runs : Colors]]
    /\ mstate \in [PRs -> MStates]
    /\ landed \in [PRs -> 0..MaxHead]
    /\ swept \subseteq PRs
    /\ approvals \in [PRs -> SUBSET Heads]
    /\ label \in [PRs -> {"old", "none", "both"} \union
                     {LabelClass(s) : s \in Rows}]

RunOK ==
    /\ ctx \in {"live", "limited", "cancelled"}
    /\ merges \in Nat /\ mergedBy \in PRs \union {0}
    /\ deferred \in Seq(PRs) /\ pending \in Seq(PRs)
    /\ pass \in {"first", "second"}
    /\ looks \in 0..MaxLooks

OutcomeOK == pc \in [PRs -> PCs] /\ row \in [PRs -> Rows] /\ lane \subseteq PRs

LocalOK ==
    /\ pull \in [PRs -> Reading] /\ read \in [PRs -> Reading]
    /\ seen \in [PRs -> Nat]
    /\ attempt \in [PRs -> Nat] /\ polls \in [PRs -> 0..MaxPolls]

HistoryOK ==
    /\ passed \in [PRs -> SUBSET Heads]
    /\ outdated \in [PRs -> BOOLEAN]
    /\ dirtied \in [PRs -> {"no", "sweep", "other"}]
    /\ blind \in [PRs -> BOOLEAN]

\* Every variable holds what the code can hold in it.
TypeOK == GitHubOK /\ RunOK /\ OutcomeOK /\ LocalOK /\ HistoryOK

\* A head the sweep merges is one whose statuses and check runs the sweep
\* read green, although they are read by the ref of the PR, which may have
\* moved between any two requests (getCombinedCheckState, merge).
MergedHeadPassed == \A p \in swept : landed[p] \in passed[p]

\* No answer to a merge is lost: a merge GitHub performed and the sweep took
\* for a failure is not counted (see MergesCounted).
Answered == Hazards \intersect {"lostreply", "limit", "cancel"} = {}

\* With a lane of one, a merge is asked for on a state of the PR read after
\* the last merge of this sweep in the repository (mergesSeen, mergeInLane).
FreshUnderLane ==
    MergeLane = 1 /\ Answered => \A p \in PRs :
        pc[p] = "merge" /\ attempt[p] = 1 => ~outdated[p]

\* The lane lets in no more than its width, a PR is between its reread and the
\* answer to its merge only with a slot in hand, and whoever holds one is still
\* inside: every way out, by an error or a stop too, gives it back
\* (mergeInLane, Slots).
LaneHeld ==
    /\ Cardinality(lane) <= MergeLane
    /\ \A p \in PRs : pc[p] \in LanePCs => p \in lane
    /\ \A p \in lane : pc[p] \in LanePCs \union {"conflict", "refresh"}

Deferred == {deferred[i] : i \in DOMAIN deferred}
Revisited == {pending[i] : i \in DOMAIN pending}

\* The queue of the second pass and the rows agree: in the first pass a PR
\* awaits a rebase exactly when it is queued, once, behind a merge of this
\* run; the second pass queues nothing (setConflict, Revisit).
QueueMatchesRows ==
    /\ \A i, j \in DOMAIN deferred : i # j => deferred[i] # deferred[j]
    /\ \A p \in PRs : pass = "first" /\ row[p] = "AwaitingRebase"
                         => p \in Deferred
    /\ \A p \in Deferred :
           /\ row[p] \in {"AwaitingRebase", "Pending"}
           /\ mergedBy \notin {0, p}
    /\ pass = "second" => deferred = <<>>

\* Every merge GitHub performed for this sweep is reported and counted, once
\* its goroutine is through, and nothing else is: the queue's count is the
\* number of the rows that say so (recordMerge).
MergesReported ==
    /\ \A p \in PRs : row[p] = "Merged" => p \in swept
    /\ \A p \in swept : pc[p] # "merged" => row[p] = "Merged"
    /\ merges = Cardinality({p \in PRs : row[p] = "Merged"})

\* A row that says Merged is never taken back: not by a stop, a rule, or the
\* second pass (cutShort, applyRule, Revisit).
MergedIsFinal == [][\A p \in PRs : row[p] = "Merged" => row'[p] = "Merged"]_row

\* A PR of which a request failed because the token's rate is spent ends as
\* one the run never reached, or as what the sweep already wrote (cutShort).
BlindLeftPending ==
    \A p \in PRs : pc[p] = "done" /\ blind[p] =>
        row[p] \in WrittenRows \union {"Pending"}

\* A dry run approves nothing, merges nothing, labels nothing, and moves no
\* branch and no build, on any path (--dry-run: "writes nothing").
DryRunWritesNothing ==
    [][DryRun => /\ UNCHANGED <<swept, approvals, label>>
                 /\ UNCHANGED pc \/ UNCHANGED <<head, ci>>]_vars

\* No request fails, and the run is not stopped.
NothingFails ==
    Hazards \intersect {"readfail", "lostreply", "limit", "cancel"} = {}

\* When no request fails, the label of a PR the sweep touches tells its final
\* row, whichever pass decided it (finish, setLabel).
LabelTellsRow ==
    NothingFails /\ ~DryRun /\ Finished => \A p \in PRs :
        ~Is(p, "untouched") /\ LabelClass(row[p]) # ""
        => label[p] = LabelClass(row[p])

\* The run ends: every goroutine gives its slots back, whatever fails.
Terminates == <>Finished

\* The sweep keeps the promise of Landing.tla.
Promise == INSTANCE Landing WITH
    landed <- [p \in PRs |-> IF p \in swept THEN landed[p] ELSE 0],
    reported <- {p \in PRs : row[p] = "Merged"}
KeepsPromise == Promise!Spec

----------------------------------------------------------------------------
(* The inductive invariants the proofs rest on (SweepProofs.tla).          *)

\* The requests sent after the checks were read green and before the merge.
CheckedPCs == {"changelog", "reviews", "approve", "lane", "reread", "merge",
               "backoff", "retryget"}

\* Heads only move on, and the checks are read after the PR was: so once the
\* checks were green, a branch that still has the head of run.pull has had
\* that head on both reads.
HeadOK(p) ==
    /\ pc[p] \in {"statuses", "runs", "poll"} \union CheckedPCs
         => pull[p].head <= head[p]
    /\ pc[p] = "runs"
         => pull[p].head <= read[p].head /\ read[p].head <= head[p]
    /\ pc[p] \in CheckedPCs /\ head[p] = pull[p].head
         => head[p] \in passed[p]
    /\ p \in swept => landed[p] # 0 /\ landed[p] \in passed[p]
HeadInv == \A p \in PRs : HeadOK(p)

\* Where ProcessPR is over for a PR, its deferred finish apart.
EndPCs == {"finish", "rule", "label", "done"}

Distinct(seq) == \A i, j \in DOMAIN seq : seq[i] = seq[j] => i = j

\* What is queued for the second pass is through with the first, queued once
\* and not merged; a merged PR was merged by the sweep and is through.
RowOK(p) ==
    /\ row[p] = "Merged" => p \in swept /\ pc[p] \in EndPCs
    /\ pc[p] = "merged" => p \in swept
QueuedOK(seq) ==
    /\ Distinct(seq)
    /\ \A i \in DOMAIN seq : pc[seq[i]] \in EndPCs /\ row[seq[i]] # "Merged"
RowInv ==
    /\ \A p \in PRs : RowOK(p)
    /\ QueuedOK(deferred) /\ QueuedOK(pending)
    /\ pass = "second" => deferred = <<>>
    /\ pass = "first" => pending = <<>>

\* The requests of a goroutine that has read its PR.
FetchedPCs == PCs \ ({"queued", "enter", "fetch"} \union EndPCs)

\* A PR read before the sweep's last merge knows it by the count, unless that
\* merge is still in the lane; and then the lane is taken.
FreshOK(p) ==
    /\ pc[p] \in LanePCs => p \in lane
    /\ seen[p] <= merges
    /\ pc[p] \in FetchedPCs /\ outdated[p] =>
         seen[p] < merges \/ \E q \in PRs : pc[q] = "merged"
    /\ pc[p] \in {"merge", "backoff", "retryget"} => attempt[p] > 0
    /\ pc[p] = "merge" /\ attempt[p] = 1 => ~outdated[p]
FreshInv ==
    MergeLane = 1 /\ Answered =>
        /\ \A p \in PRs : FreshOK(p)
        /\ \A p, q \in lane : p = q
        /\ ctx = "live"

----------------------------------------------------------------------------
(* What the repository says of the sweep and the sweep does not do.  Each  *)
(* is checked by a run that TLC refutes.                                   *)

\* pr/label.go:19-20: a transient state never ends a sweep.
NoTransientEnd ==
    \A p \in PRs : pc[p] = "done" =>
        row[p] \notin {"Checking", "Approving", "Merging", "Retrying"}

\* process/rebase.go:72-74: a conflict the sweep caused itself is not work
\* for a person.
OurConflictAwaitsRebase ==
    \A p \in PRs : row[p] = "Conflict" /\ ~Is(p, "stranded")
                        => dirtied[p] # "sweep"

\* process/actions.go:18: the approval goes on a green PR.
ApprovedHeadPassed == \A p \in PRs : approvals[p] \subseteq passed[p]

\* process/rebase.go:72: what setConflict records is a merge conflict.
ConflictIsReal ==
    \A p \in PRs : row[p] \in {"Conflict", "AwaitingRebase"}
                        => dirtied[p] # "no"

\* process/rebase.go:30-31: merges counts the PRs the sweep merged.
MergesCounted == Finished => merges = Cardinality(swept)

=============================================================================
