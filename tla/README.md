# A model of marge's sweep

`marge` reads the open bot pull requests (PRs) of a team's repositories,
decides what each one needs, and does it: it approves and merges what is green
and eligible, updates branches, reruns builds that gave no verdict, writes a
label and hands the rest to people or to an agent. This directory models that
program in TLA+, checks the model with TLC on small instances and proves what
matters most with TLAPS for every value of the constants. Paths below are
relative to `src/`.

## The system

| part | code | state it keeps | operations |
| --- | --- | --- | --- |
| sweep of one PR | `internal/process/processor.go`, `merge.go`, `checks.go` | `prRun`: the PR as read, the count of merges when it was read, notes | `ProcessPR`, `evaluateChecks`, `approve`, `mergeInLane`, `merge`, `finish` |
| what the PRs of a run share | `internal/process/rebase.go`, `slots.go` | `merges`, `mergedBy`, `deferred`, the merge lanes | `recordMerge`, `mergesIn`, `setConflict`, `Revisit` |
| status table | `internal/pr/status.go` | one row per PR | `Add`, `Update` |
| run | `cmd/common.go` | the context, its stop cause | `processOnceWithStatus`, `forEachPR`, `fanOut` |
| shared lookups | `internal/process/memo.go` | one entry per key | `get` |
| requests to GitHub | `internal/github/ratelimit.go`, `transport.go`, `writes.go`, `exhausted.go` | rate gates, in-flight slots, write slots | `RoundTrip`, `acquire`, `closeGate`, `waitForGate`, `retryStuck`, `StopOnRateLimit` |
| GitHub App | `internal/github/app.go` | installation tokens | `token`, `MintToken` |
| checks of a PR | `internal/process/checks.go`, `stale.go`, `protection.go`, `infra.go`, `cancelled.go` | `run.preexisting` over the polls | `getCombinedCheckState`, `evaluateRequired`, `classifyFailure` |
| team policy | `internal/policy`, `internal/pr/policy.go` | read once per run | `TeamScope`, `QueryScope`, `apply` |
| eligibility | `internal/pr/kind.go`, `proof.go`, `chartsync.go` | none | `KindOfPull`, `ClassifyUpdate`, `UnprovenBeforeMerge` |
| rule catalogue | `internal/rules` | read once per run | `Load`, `validate`, `specificity`, `Match` |
| remedies | `internal/remedy`, `internal/process/remedy.go` | `SuiteBudget` | `applyRule`, `Registry.Apply`, the guards |
| markers | `internal/process/evidence.go`, `rescue.go`, `internal/pr/rescue.go` | comments on the PR: all that outlives a run | `postMarker`, `Handoff` |
| CircleCI | `internal/circleci`, `internal/process/cancelled.go`, `unposted.go` | none (its record is CircleCI's) | `RerunWorkflow`, `Retry` |
| handoff to the agent | `internal/process/rescue.go`, `cmd/mark.go`, `internal/patterns` | markers, counted per week | `Handoff`, `markRescue` |
| sweep of the teams | `cmd/all_teams.go`, `cmd/team_groups.go`, `internal/notify` | the outcomes of the teams, what each has printed | `teamGroups`, `sweepTeam`, `Post`, `orderedOutput` |
| serve mode | `cmd/serve*.go`, `cmd/selfupdate.go` | calls in flight, the binary it was started from | `restartGuard`, `scheduleStop` |
| text algorithms | `internal/pr`, `internal/patterns`, `internal/logs` | none | parsing, grouping, superseding, diffs |

`PROJECT.json` lists every part with what is modelled of it.

How they interact: a run starts one goroutine per PR, bounded per repository
(`Readers`). The goroutines share the rebase queue under a mutex, one merge
lane per repository, the caches, and one context that a spent token or an
interrupt cancels for all of them. Every request passes the write bound of its
run, a slot of its rate bucket and the gate of that bucket. After the first
pass, `Revisit` processes the PRs that a merge of this run made dirty. What a
sweep cannot merge a rule of the catalogue may act on, once per change: a
comment on the PR remembers it for the next run. What no rule recognises is
handed to the agent the sweep runs inside. Several teams are swept at once,
those that share a repository one after the other. All the while bots push, CI
reports, and people merge.

What is hard about it, and so what the properties are about:

- **Stale reads.** GitHub is read by the ref of a PR, one request at a time, and
  every write comes seconds to minutes after the read it rests on.
- **Siblings.** A merge changes what is true of every other PR of the
  repository while their goroutines are under way.
- **Stops.** A spent token fails every request from one moment on, in the
  middle of anything. A failed read must not be taken for evidence.
- **Lost answers.** A write that timed out may have been performed.
- **Two passes** over one table, one queue and one set of labels.
- **Bounds that wait for each other**: lane, write slots, bucket slots, gates.
- **Memory in comments.** Every act comes before the marker that remembers it, and
  a run may end between the two.
- **Verdicts from several sources.** One name is reported by statuses, check runs
  and CircleCI, over pages and polls, and any read may fail.
- **Documents of several owners**: company, team, repository and rules, each of
  which may be missing, unreadable or wrong.

## The modules

| module | models | proofs |
| --- | --- | --- |
| `Landing` | what a sweep promises a repository (abstract) | |
| `Sweep` | one sweep over the PRs of one repository | `SweepProofs`, `ReportProofs` |
| `Answering` | what a cache of answers promises (abstract) | |
| `Memo` | `memo.get` for one key | `MemoProofs` |
| `RateGate` | what a request passes on its way to GitHub | `RateGateProofs` |
| `Policy` | the documents a scope is resolved from | `DecisionProofs` |
| `Eligibility` | whose PR it is, how large, and whether it may merge; EXTENDS `Policy` | `DecisionProofs` |
| `Verdict` | what the checks of a head say, poll by poll | `DecisionProofs` |
| `Catalogue` | the rule documents, their order, and which rule matches | `DecisionProofs` |
| `Decisions` | composes the four above: everything decided about a PR by reading | `DecisionProofs` |
| `Remedy` | a rule's action, its guards, and the marker, over several runs | `UpkeepProofs` |
| `Rerun` | the CircleCI runs on a head and the sweeps that ask for them again | `UpkeepProofs` |
| `Handoff` | the rescues: week's count, re-read, handoff, the agent's marks | `UpkeepProofs` |
| `Upkeep` | composes the three above: what a sweep does for a PR it does not merge | `UpkeepProofs` |
| `Teams` | a run over several teams, its posts and its output | `ServiceProofs` |
| `Serve` | the server's calls, the guard on its binary, its stop | `ServiceProofs` |
| `Tokens` | the App's token cache and its requests | `ServiceProofs` |
| `Service` | composes the three above: what surrounds the sweeps | |
| `Induction` | facts about numbers and sets that stand in for induction | its own |
| `MCSweep`, `MCMemo`, `MCRateGate`, `MCDecisions`, `MCUpkeep`, `MCService` | the instances TLC checks | |

`Sweep` implements `Landing` and `Memo` implements `Answering`: each is an
`INSTANCE ... WITH` at the end of the detailed module, checked as a property
and proved. Every request of `Sweep` is one of `RateGate`'s, and the merge lane
is found through a `memo`; the modules are not composed state by state, because
what `Sweep` needs of the two is exactly what they are proved to give: a write
happens at most once per call, and all goroutines share one lane.

### Sweep

A goroutine's `pc` names the request it sends next, so each action is one
request with the local work up to the next, and anything may happen between
two requests. GitHub's half (`head`, `ci`, `mstate`, `landed`, `approvals`,
`label`) moves in the actions that write to it and in the environment's
(`Report`, `Push`, `BaseMoves`, `OutsideMerge`). A merge takes two steps, `Land`
(GitHub performs it) and `Merged` or `LoseMerged` (the goroutine learns of it),
because siblings act in between.

| code | actions |
| --- | --- |
| `forEachPR` | `Start` |
| `ProcessPR` to the checks | `Enter`, `Fetch` (with `Classify`) |
| `evaluateChecks`, `getCombinedCheckState`, `classifyFailure` | `ReadStatuses`, `ReadRuns` (with `Reject`, `Wait`, `Proceed`), `Poll`, `Retry` |
| `changelogEntry`, `approve` | `Changelog`, `ListReviews`, `Approve` |
| `mergeInLane` | `AcquireLane`, `Reread` |
| `merge` | `Land`, `Merged`, `LoseMerged`, `RefuseMerge`, `BaseModified`, `Backoff`, `RetryGet` |
| `setConflict`, `updateBranch` | `Conflict`, `Refresh` |
| `finish` | `CutShort`, `Finish`, `Rule`, `Label` |
| `Revisit`, `revisitOne` | `Revisit`, `Look` |
| `StopOnRateLimit`, an interrupt | `Stop` |

`Traits` fixes per PR what no step changes (a fork, held by policy, written by a
stranger, ...); `Hazards` switches on what may go wrong around the sweep, so
that an instance pays only for what it is about. The variables `passed`,
`outdated`, `dirtied` and `blind` are history: properties read them, no guard
does.

What is abstracted:

- one repository per instance; the repositories of a run share nothing of
  this state but the context;
- a head is a number, and the checks of a head are its statuses and its check
  runs, each pending, green or red. Red checks that are also red on the base
  count as green, as `classifyFailure` counts them;
- which evidence makes a red head stale, cancelled, obsolete, security or
  failed is a free choice among `RedRows`;
- the reads of branch protection and write access are folded into the request
  before them, and fail with it;
- a rule may set its row, keep it, or update the branch; what else its action
  does (closing the PR, starting a suite) is left out;
- comments are left out. The trait `rescued` stands for a marker that makes the
  guards refuse an update-branch, and `silent` for a required CircleCI context
  that may never report (whether it has is free);
- labels are the old one, none, a class, or two at once;
- time is a number of polls, looks and retries.

### Memo

One key; a call that claims it makes the entry, so the call names the entry.
`Ask` and `Evict` are the critical sections, `Load` is the lookup outside the
lock (any answer, or a failure, differently each time), `Close` closes the
channel, `Wake` is the receive and the `continue`.

### RateGate

`AcquireWrite`, `AcquireSlot`, `LookAtGate`, `Wake`, `Send`, then `Answer`,
`TimeOut` (`retryStuck`) or `Refuse` (the loop of `rateLimited.RoundTrip`).
`Return` gives both slots back, as the deferred calls do. Time is counted in the
units of the waits GitHub names; `Tick` lets it pass. Two variables are history:
`owed[r]`, what is left of the waits the gate took on before r passed it, and
`named[r]`, what is left of every wait GitHub named until then. They differ by the
refusals that go back to their caller (`ratelimit.go:117-123`: a wait too long to
sit out, the last retry, a body that cannot be replayed), which close no gate.
`RefusalsHonoured` is about the first, `AllRefusalsHold`, which does not hold, about
the second.

### Decisions: Policy, Eligibility, Verdict, Catalogue

A field a file may leave out is a set, empty or with the value; a glob or a
pattern is the set of the names or texts it matches; a version is a triple or
`<<>>` when it cannot be read. No string is taken apart.

| code | definitions |
| --- | --- |
| `Loader.TeamScope`, `QueryScope` | `ReadList`, `ReadDocument`, `Resolve`: one request each, any of which may answer 404 |
| `apply`, `Exception.apply`, `checkInFlight` | `Layer`, `Narrowed`, `InRange` |
| `KindOfPull`, `ClassifyUpdate`, `UnprovenBeforeMerge` | `KindOfPull`, `ClassifyUpdate`, `Unproven`, joined by `Judge` |
| `getCombinedCheckState` | `Class`, `CombinedState`, `StatusesPending` |
| `evaluateRequired`, `lookupContext`, `isRequired` | `Matches`, `IsRequired` |
| `classifyFailure`, `redOnBase` | `NoVerdictSays`, `RedOnBase`, and the rows they lead to |
| `Load`, `validate`, `specificity`, `Match` | `Specificity`, `Hits`, `AllInBaseState` in `Catalogue` |

`Verdict` keeps what a poll leaves behind (`preexisting`), so a later poll with other
checks or other failing reads meets it. What a check reports (`says`) and what ran
(its `build`) are apart: CircleCI reports a build it cancelled as failed, and
`FailureRan` goes by what ran. Which of several suffix matches
`lookupContext` returns is the order of a Go map, a free choice.

`Written` in `Eligibility` is every change a PR names, in its title and its rows. A
title that names a size, or both versions, decides alone (`TitleDecides`,
`kind.go:252-267`): `NoRowOutgrows` excepts the rows of such a PR, and `RowsDecide`,
which does not, does not hold.

### Upkeep: Remedy, Rerun, Handoff

`Remedy` follows one PR from `list` (the comments are read) over the guards of
its action and the refusals of its rule to the act and its marker. Every write
may be refused, and its answer may be lost; `Forget` is a run that ends. A head,
a change (what the fingerprint tells apart) and a base are numbers. The PRs of a
run are processed at once and share the suites.

`Rerun` has CircleCI's half (`Begins`, `JobEnds`) and the sweep's (`Read`,
`RerunCancelled`, `Unposted`, `RerunNext`), one rerun per step. A head begins with the
pipeline of its push, and somebody may start another at any point (`PipelineStarts`),
with any of the workflows, each of which may report or not. `Unposted` reads the newest
alone, as the code does (`unposted.go:116`), and looks for a rerun's tag only there
(`unposted.go:151`): `RerunOnce` is once in a pipeline, and `OncePerHead`, which the code
claims, does not hold.

`Handoff` has the sweep that classifies the rows, counts the marks of the week,
lists what people have open, reads each candidate again and hands it over, and
the agent that marks each rescue or dies before.

### Service: Teams, Serve, Tokens

`Teams` joins teams with a common repository to groups as `teamGroups` does,
starts groups under the bound, and follows each team from its sweep over the
channel file and the attempts of its post to what it prints; `orderedOutput` is
`written`, `held` and `turn`. `Serve` has calls, a binary that is replaced on disk,
removed, or cannot be looked at (`serve_stale.go:44-51` takes all three for replaced),
the guard before and after each call, either of which may find it so (`seen`), the grace, signals, the shutdown with its
own grace, and the host that starts the server again. `Tokens` has the two
critical sections of `token` with the mint in between, and a clock.

### Composition

`Decisions`, `Upkeep` and `Service` put modules into one state space that read
nothing of each other's state. Their steps commute, so every property of one
part that holds without the others holds with them: `part` picks the one that
moves in a behaviour, and the others stay as they begin. What joins the groups is
stated where it is used: the row `Verdict` reaches is what `Catalogue` matches, its hit
is what `Remedy` is asked, a PR without one is a candidate of `Handoff`, and a
passed one is what `Sweep` takes the traits of (`held`, `stranger`, ...).

## What is checked

| run | instance | shows |
| --- | --- | --- |
| `SweepHeads` | one PR with an entry, a silent context and a diff that may turn out empty; three heads; every hazard except the spent token | `TypeOK`; `MergedHeadPassed`: no head is merged whose two kinds of checks the sweep did not read green; `KeepsPromise` |
| `SweepLane` | three PRs (one the account's own with a marker, one with auto-merge), two readers, strict base, lane of one | `FreshUnderLane`: a merge is asked for on a state read after the sweep's last merge; `MergesReported`; `LabelTellsRow` over both passes, since no request fails here |
| `SweepStop` | two PRs (stranded; number with 409), failing requests, lost answers, a spent token, fair | `LaneHeld`: the lane keeps its width and every path out gives the slot back; `BlindLeftPending`, `QueueMatchesRows`, `MergedIsFinal`, `Terminates` |
| `SweepDry` | five PRs, one per kind of decision, read one after the other | `DryRunWritesNothing` |
| `MemoShared` | four calls, two answers | `OneLookup`, `ErrorIsOwn`, `EveryCallReturns`, `KeepsPromise` |
| `GateHonoured` | two writes and a read of a sweep and a read of a served call, one bucket of two slots, waits on both sides of the limit, fair | `WritesOnce`; `RefusalsHonoured`: nobody is sent past a wait the gate took on; `SlotsHeld`: the bounds hold and every path out of a request gives both slots back; `EveryRequestEnds` |
| `Decisions` | thirteen documents for company and team, nine kinds of list entries; PRs over every author, title, row, chart and body of three lines; heads of two checks over two polls, each with one failing read; directories of three rules out of fifteen | what merges: `ExceptionsNarrow`, `NoBlindScope`, `ImpostorsWait`, `NoRowOutgrows`, `ProofsAreGiven`; what passes: `RedIsExcused`, `RequiredPassed`, `GreenPasses`, `FailureRan`; which rule acts: `Diagnosed`, `NarrowFirst` |
| `Upkeep` | two runs on a PR whose branch moves, two PRs that share two suites; a head with two workflows and up to two pipelines, four workflow runs over two sweeps; two candidates of a week of two over two runs | `RepeatsExplained`: an act is repeated only when its record was lost; `SuitesBounded`; `RerunOnce`: a workflow that posted nothing is rerun once in a pipeline, whatever starts or ends in between; `WithinWeek`, `NoCollision` |
| `Service` | three teams with shared repositories, bounds 0 to 2, two attempts; two calls, two replacements or removals of the binary; three requests of two scopes | `OneWriter`: no two teams with a common repository are swept at once; `Reported`: every team is reported in order, once; `RefusedRestarts`: a server that found its binary gone stops, and no other refuses; `MarginCovers` |

Three more runs are expected to fail. Each states what the repository says of
the program, and TLC shows a behaviour of the code that does otherwise:

| run | property | what happens |
| --- | --- | --- |
| `SweepOurConflict` | `OurConflictAwaitsRebase` | a sibling that meets the conflict between GitHub's merge and `recordMerge` is handed to a person |
| `TwoPipelines` | `OncePerHead` | a workflow rerun in the first pipeline of a head is rerun in the second as well |
| `TwoCommands` | `OneCommandPerHead` | a run that ends before the marker has the next one comment the command again |

The other definitions under the properties of a module say "does not hold". TLC
refutes each one on an instance like those above (the constants that reach it are
named here); the counterexamples are short and described in `PROJECT.json`:

| property | what happens |
| --- | --- |
| `Sweep.NoTransientEnd` | an update-branch the guards refuse leaves a green PR in `Checking` (traits `rescued`) |
| `Sweep.ApprovedHeadPassed` | a head pushed after the checks were read is approved (and then not merged) |
| `Sweep.ConflictIsReal` | any merge error of a PR whose number contains 409 is a conflict |
| `Sweep.MergesCounted` | a merge whose answer is lost is not counted, and siblings merge on stale state |
| `Sweep.BlindLeftPending` with the remedies selected | a token spent during the rules leaves an outcome that rests on a refused request; `SweepStop` selects none |
| `RateGate.AllRefusalsHold` | a refusal that goes back to its caller closes no gate, and the next request is sent before the wait it named is over |
| `Eligibility.UnreadWaits` | PRs `UnreadPulls`: a grouped PR with a row that cannot be read merges as the size of its other rows |
| `Eligibility.RowsDecide` | a PR whose title says "(minor)" merges with a larger row in its table |
| `Verdict.ScanRan` | a scan CircleCI cancelled is a security failure once another check of the head is red |
| `Verdict.PreexistingNeverShortens` | heads `TwoTests`, facts `LintRed`: an excused red check ends the wait for a context one run of which is still pending |
| `Verdict.UnseenRedWaits` | heads `LintBeyond`: a red check on the second page is not seen |
| `Catalogue.NarrowNeverShadowed` | a rule for two states is tried before the same rule for one |
| `Catalogue.NameAloneNeverActs` | directories `NamesOnly`: an output pattern nothing reads makes a name a diagnosis |
| `Remedy.OnlyDropsNamed` | a context removed by a person in between is required again |
| `Rerun.RetriedRestarts` | two jobs of one workflow that start together and are cancelled before any step: one is retried, the row says both (jobs `OneWorkflow` and no `Needs`) |
| `Teams.RefusalsFail` | a run stopped while it posts fails its team |
| `Serve.ReplacedAnswered` | another call's refusal stops the server under a running call |
| `Tokens.SentAlive` | a request held at the gate leaves with an expired token |

`GateHonoured` leaves out `TypeOK` and `NoLongSleep`, `Decisions` leaves out
`InFlightBounded`, and `MemoShared` leaves out `SameAnswer`, which `KeepsPromise`
implies: all four are proved.

Seen in the code and not stated as a property: the retries of a merge name the
head of the first attempt while the PR is read anew between them
(`merge.go:162-166`, harmless: GitHub refuses); a PR that was decided but whose finish
comes after the stop goes back to pending unless something was written, where
`README.md:182` says "The PRs it had decided keep their outcome"; a stuck read is
sent again below the gate even if the gate closed meanwhile (`ratelimit.go:46-47`);
a failed read of annotations or of CircleCI turns a blocked or cancelled check
into a red one, which the base may then excuse; when the first of two silent
workflows was rerun and the second was not, the first one's rerun keeps the
second from ever being rerun (`unposted.go:72`); two runs at once both see the
week's count of before (`common.go:383`); a team whose channel file cannot be read has
its summary neither posted nor logged.

### The bounds

- *PRs.* What one PR can do wrong by itself needs one; a lane and a queue need
  two, and a PR that falls behind by more than one merge needs three (the
  mutant `TwoMergedSince` of the staleness test passes with two).
- *`MaxHead`.* Three heads give one that was read, one pushed between the two
  kinds of checks and one pushed before the merge. Where pushes are not the
  subject one or two are enough, and an update at the bound keeps the branch.
- *`MaxRetries` 2, `MaxPolls` 1, `MaxLooks` 1* give the first, the last and the
  step between. The code's values (`MergeMaxRetries` 3 by default) add more of
  the same steps.
- *`RateRetries` 1, `StuckRetries` 1, waits 0..2 with a limit of 1* give a
  retry, its end, and a wait on each side of the limit; GitHub may name a wait of
  nothing (`ratelimit.go:163`), and a shorter one after a longer. With one write slot
  per run and two slots for four requests, a write waits for the bucket with its write
  slot in hand while reads, of its own run and of the other, send or sleep, and the
  other write waits for it.
- *Documents, PRs, checks and rules* are listed in `MCDecisions`: for each field one
  value per branch of the code that reads it, alone and beside one that
  interferes with it. Two checks on a head give a name reported twice, a red
  beside a green, a required one beside another; two polls give one that leaves
  something behind and one that meets it. Three rules give two that match and
  one that is refused.
- *`MaxHeads` 2, `MaxBase` 2, `MaxRuns` 2* give a change, a rebase of it, a moved base, and a
  run that meets what another left; a third run would meet the same comments.
  `SuiteLimit` 2 with commands for one and two suites gives a budget that is met,
  exceeded and given back.
- *`MaxPipelines` 2, `MaxFlows` 4, `MaxSweeps` 2*: two workflows and a rerun of each, or
  a second pipeline and a rerun in both; a sweep that reruns and one that finds it on the
  record. In `Upkeep` each workflow has one job, which posts or does not; that a job
  waits for another of its workflow is in `TwoPipelines` (`OneWorkflow`), and in the
  theorem for any jobs.
- *`MaxBinaries` 3*: a server that is replaced by another that is replaced in turn, or a
  binary that is removed and installed again.
- *`Weeks` 2 with two candidates, `MaxMarks` 1, `MaxHandoffs` 2*: a week that is used up, and
  marks the first run left to the second.
- *Three teams* are what it takes to have two that meet only through a third;
  two attempts are a first and a last one; three senders are two that miss one
  scope together and one of another scope. `Lifetime` 4 to `Renewal` 1 leaves room for
  an expiry before, in and after the margin.
- *The lane* is one wide, the default (`internal/pr/policy.go:172`), and two of the
  four readers (`policy.go:70`) are enough to have one wait while another merges. `FreshUnderLane` says so in its
  premise: with a wider lane the code gives no such promise.

No symmetry is used: PR numbers are ordered (the list order is the start
order).

### Fairness

`Sweep`: weak fairness of each goroutine's start and of its steps taken
together, and of the two steps of the second pass. The code justifies it: every
request has a timeout (`responseHeaderTimeout`), every wait a deadline, and Go runs
every goroutine. Nothing is owed by GitHub, CI, bots or people: `Terminates`
holds without any push or report. `Memo`: every call runs and `load` ends.
`RateGate`: every goroutine runs, a request that was sent is answered or times
out, and time passes. No strong fairness is used: a goroutine that waits for a
slot is let in because the others end, not because a slot keeps coming up.
The other modules state no liveness: `Verdict`, `Policy` and `Catalogue` end in a bounded
number of reads, and `Remedy`, `Rerun`, `Handoff`, `Teams`, `Serve` and `Tokens` run beside people, CI
and a host that owe nothing.

`Upkeep` is checked without deadlock: a PR may close, and the bounds on runs and
heads stop everything else.

Every property of a passing run has a mutant in `PROJECT.json`, a small change of
a definition like a bug one could make there, with which TLC refutes it. The
mutants stand in the modules above the definitions they replace.

## What is proved

For every set of PRs, calls or requests and every value of the bounds that
satisfies the named `ASSUME`s:

| theorem | property | rests on |
| --- | --- | --- |
| `TypeCorrect` | `TypeOK` | itself: it is inductive |
| `HeadsPassed` | `MergedHeadPassed` | `HeadInv` |
| `MergedStays` | `MergedIsFinal` | `RowInv` |
| `Refinement` | `KeepsPromise` | `HeadInv`, `RowInv` |
| `MergesAreFresh` | `FreshUnderLane` | `FreshInv` |
| `MergesToldAndCounted` | `MergesReported`, where no answer is lost | `ReportInv`, `RowInv` |
| `QueueAgrees` | `QueueMatchesRows` | `QueueInv`, `RowInv` |
| `BlindIsCutShort` | `BlindLeftPending`, where no rule acts | `BlindInv` |
| `DryRunIsClear` | `DryRunWritesNothing` | `DryInv` |
| `LookedUpOnce`, `AnsweredAlike`, `FailsAlone`, `MemoPromise` | `OneLookup`, `SameAnswer`, `ErrorIsOwn`, `KeepsPromise` | `MemoInv` |
| `GateTypes`, `WrittenOnce`, `WaitsHonoured`, `SleepsBounded` | `TypeOK`, `WritesOnce`, `RefusalsHonoured`, `NoLongSleep` of `RateGate` | `GateInv` |
| `LabelsTellRows` | `LabelTellsRow` | `LabelInv`, `QueueInv`, `RowInv` |
| `LaneIsKept` | `LaneHeld` | itself, with `TypeOK` |
| `SlotsGivenBack` | `SlotsHeld` of `RateGate` | itself, with `TypeOK` |
| `PolicyTyped`, `OnlyNarrower`, `SeenScope`, `NeverTooMany` | `TypeOK`, `ExceptionsNarrow`, `NoBlindScope`, `InFlightBounded` of `Policy` | `PolicyInv` |
| `BotsOnly`, `WithinUpdate`, `ProofsFirst` | `ImpostorsWait`, `NoRowOutgrows`, `ProofsAreGiven` | `EligibilityInv` |
| `RedNeedsExcuse`, `RequiredFirst`, `GreenGoes`, `OnlyRunsFail` | `RedIsExcused`, `RequiredPassed`, `GreenPasses`, `FailureRan` | `VerdictInv` |
| `ActsOnEvidence`, `NarrowBeatsBroad` | `Diagnosed`, `NarrowFirst` | `CatalogueInv` |
| `StopFollowsRefusal` | `RefusedRestarts` | `ServeInv` |
| `MarginIsEnough` | `MarginCovers` | `TokensInv` |
| `RerunAtMostOnce` | `RerunOnce` | `RerunInv` |
| `NeverCollides` | `NoCollision` | `HandoffInv` |
| `WithinTheWeek` | `WithinWeek` | `WeekInv` |
| `RepeatsAccounted`, `SuitesWithinBudget` | `RepeatsExplained`, `SuitesBounded` | `RemedyInv` |
| `OneAtATime` | `OneWriter` | `TurnInv` |
| `AllReported` | `Reported` | `TurnInv`, `OutputInv`, `SaidInv` |

The properties are not inductive, and the invariants say why they hold:

- `HeadInv`: heads only grow, and the reads come in the order PR, statuses,
  check runs. A merge names the head of the first read. If the branch still has
  that head when the merge lands, it had it at both reads of the checks, so the
  green verdict was about that head, although it was read by ref. The
  order of the three reads is what the code depends on.
- `RowInv`: a `Merged` row belongs to a goroutine that is past `ProcessPR`, and
  nothing queued for the second pass is `Merged`, so no later step finds such a
  row to change.
- `FreshInv`: a PR read before the sweep's last merge has seen a smaller count,
  unless that merge is landed and unrecorded, and then the lane is taken. This
  is where a lost answer breaks the argument, and the premise `Answered` of
  `FreshUnderLane` leaves it out; `MergesCounted`, which does not hold, is what it costs.
- `ReportInv`: the count is the number of `Merged` rows, and a merge that is not told
  yet is told by the goroutine that sent it, which stands at `merged`: with no lost
  answer and no stop it leaves that place by `recordMerge` only.
- `QueueInv`: while goroutines run, only `setConflict` makes a row await a rebase, and
  in the first pass it queues the PR in the same step, behind the PR of the first
  merge, whose row stays `Merged`.
- `BlindInv`: a request is refused for a spent token only after the stop, so a
  goroutine with such an outcome has `finish` ahead of it, which cuts it short before
  any rule looks. A rule that acts is a request after that point.
- `DryInv`: no goroutine of a dry run comes to a step that approves, merges, writes an
  entry or reruns a build, and what `updateBranch` and the label leave alone is theirs
  to leave.
- `MemoInv`: the key is held by the one call that looks it up or has its
  answer; how far a call is and what its entry says determine each other.
- `GateInv`: a gate is closed at least as long as anybody who has not passed it
  owes, of the waits that were taken on (of the others nobody's gate knows); a write under way has not been performed.
- `PolicyInv`: a team gets past its repository list only when the token can read the
  files; the base policy is typed and in its ranges after every layer, whatever
  the layer leaves out; exceptions are applied last, and each result lies within
  the base. `LayerResolved` and `NarrowedWithin` say it of the two operators.
- `ServeInv`: no binary is installed twice, so what a call found replaced stays so
  until the server is gone (`NextIsOther`). A call that finds it, before its handler or after,
  sets the stop in the same step (`LooksStop`), and only the end of the server takes it
  away.
- `TokensInv`: a token that was granted, however it was minted and by whomever it
  was stored, had more than the margin left when it was granted. It needs
  `LifetimeAssumption`: a token outlives the margin.

- `RerunInv`: every rerun that was made is on CircleCI's record of its pipeline, by its
  tag (`RecordShows`, kept by `ShownStays`), because a run that begins leaves the others in the
  list, jobs that end change no name and no tag, and a pipeline that starts adds first runs
  of its own number (`FirstAreRuns`, `StartsKeep`). So what a sweep is about to rerun was never
  rerun in the pipeline it read, which may be the newest no longer, and its list names a workflow
  once (`AskedOnce`). The list is that of a finite set: `WorkflowsAssumption`. A head has a pipeline:
  `PipelinesAssumption`.
- `HandoffInv`: a list that could be read holds every PR of its repository that was
  open at the count and is open still. The lists are asked for after the count and
  forgotten with the run, and people's PRs that close leave `since` too, so an old
  answer misses none of them. `TableAssumption` says that a run lists a PR once;
  the table is walked from its least candidate, which exists by `MinIsMember`.

- `LabelInv`: with no failing request and no dry run the context stays live, so
  every goroutine ends through `Label`, which writes its row's label over whatever was
  there; a PR that waits for the second pass keeps row and label until it is taken up
  and ends once more. It needs `QueueInv`: who is queued awaits a rebase.
- `EligibilityInv`, `VerdictInv`, `CatalogueInv` (`WithinUpdate` and `OnlyRunsFail` have the
  exceptions of their properties: the rows a title keeps from being read, and builds
  CircleCI cancelled beside another red check): what was decided is what the operators
  say of what was read, and what a poll left behind holds what it excused. The work is
  in the operators: the scan of a body against its reference definition line by line
  (`ProofScan`), the largest of the sizes of a group, the rows of a poll case by
  case, and the score of a rule, which grows with each thing it asks.
- `RemedyInv`: for each action and change, the times it was taken are at most one
  marker that stands (`Recorded`), or one that is about to be written, and the records
  that were forgotten. A run that looks at a PR and sees all its comments sees that marker,
  because comments are only added to. For the suites: what was started, what is left
  and one per comment under way never exceed the limit and what was given back.
- `WeekInv`: handed over, remaining and counted make up no more than the week allows;
  the count is that of a finite set of markers.
- `TurnInv`: teams with a common repository are in one group, and a team that was begun
  comes after those of its group, which are over. That the groups are what
  `teamGroups` says is shown over the list of claims, claim by claim: the parents point
  at smaller teams, a root is reached from every team, and joining two teams gives them
  one root and keeps every other two joined. The claims are walked team by
  team, and the proof holds for any order of them.
- `OutputInv`, `SaidInv`: what was passed on is in order, the team whose turn it is holds
  nothing back, and each team has printed its results before its report wherever it
  stands.

What is computed line by line, claim by claim or row by row is a recursive function, and
`Induction` lets the provers reason about it: a set of numbers has a least member
(`LeastMember`), so what holds of 0 and is passed on holds of all (`UpTo`), and a step
can be iterated (`Iterates`). The induction rules of the library take an operator as
a parameter, which the provers here cannot instantiate.

`ResolvesPolicy` says that `Decisions` is a resolution of a policy, and `EachPart` (in
`UpkeepProofs` and `ServiceProofs`) that `Upkeep` and `Service` are each of their parts: what
is proved of a part holds in the composition that the runs check.

The assumptions on the constants are those that the code gives: a document that parses
has a field at most once and finitely many entries (`DirectoriesAssumption`,
`FilesAssumption`), a rule that loads names known actions and refusals
(`AskedAssumption`), a check has a name and one of the conclusions the code tells apart, and a
check run no CircleCI build (`HeadsAssumption`), bounds are natural numbers, a body is a list of lines
(`PullsAssumption`), the sets of PRs, teams and their repositories are finite
(`PRsAssumption`, `ScopesAssumption`, `TableAssumption`). TLC evaluates each one in a run.

Two things the proofs changed. `LabelTellsRow` held on its instance because no request
fails there; it now says so itself, and holds everywhere. And in `Eligibility` the
cases that decide what is written about a PR overlapped, which TLC resolves by the first
and the logic does not: they now exclude each other.

Every invariant and action property of a passing run is stated by a theorem. Only
model-checked: liveness (`Terminates`, `EveryCallReturns`, `EveryRequestEnds`), because
TLAPS does not prove liveness under fairness here, and the three runs that are expected
to fail.

## What is left

Not modelled, and not planned:

- grouping, superseding, no-op diffs, ages and changelog entries
  (`internal/pr`), and the reading of titles and versions: text algorithms
  without shared state, taken as facts of a PR;
- fetching of logs, listing of open PRs, the caller's identity
  (`internal/logs`, `internal/github`): one read each;
- the table, the command line, the texts of summaries and findings, the
  readiness probes and the Helm chart: layout;
- the examples inside rule documents (`internal/rules/scenario.go`), a test harness
  for the catalogue;
- two runs of marge at once on one repository: nothing in the code keeps them
  apart but the schedule, and `Teams` shows that one process does.

Planned: nothing of the model. Of the proofs, what remains is liveness. Its safety half is
proved: no path out of a merge keeps the lane (`LaneIsKept`), and none out of a request
keeps a slot (`SlotsGivenBack`), for any width and whatever fails; that somebody who waits
for one gets it is what `Terminates` and `EveryRequestEnds` check.
