------------------------------- MODULE Remedy -------------------------------
(***************************************************************************)
(* What a sweep does to a PR it cannot merge, and what it remembers of it: *)
(* a rule names an action (internal/remedy), the action's guards and the   *)
(* rule's refusals are asked, the action is applied on GitHub or CircleCI, *)
(* and a marker in a comment of the PR records it (process/remedy.go and   *)
(* evidence.go).  The comments are all that outlives a run: between the    *)
(* action and its marker a request may fail, its answer may be lost, and   *)
(* the run may end.                                                        *)
(*                                                                         *)
(* Runs follow each other (team_groups.go keeps two sweeps off one PR);    *)
(* the PRs of a run are processed at once and share its suite budget.      *)
(***************************************************************************)
EXTENDS Naturals, Sequences, FiniteSets, SequencesExt, Functions

CONSTANTS
    Asked,      \* what the rules may ask: functions from the PRs to their hits
    TitleOf,    \* the change IDs of the changes, 0 for a title without one
    Required,   \* the contexts the base branch requires at first
    SuiteLimit, \* --suite-limit
    Moved,      \* the PRs whose branches others move
    MaxHeads, MaxBase, MaxRuns      \* bounds on the pushes, merges and runs

(* A hit is [name, log, commands, named, refuse, facts]: the action a rule  *)
(* names, or the marker alone that the sweep writes ("held", "unhandled");  *)
(* whether a log excerpt matched; how many commands the check names; the    *)
(* missing contexts the rule selected; the guards the rule adds; and the    *)
(* facts the classification found, [trusted, security, kind, failing,       *)
(* failed, pending, missing, silent, known, url]: pending the required      *)
(* contexts that are, the matched check being "gate"; silent whether the    *)
(* checks have been quiet for protectionSettleDelay; known whether the      *)
(* commands are; url the provider of the check's build, if it can be asked. *)
(* A marker is [kind, outcome, head, patch, title, base], 0 where unknown.  *)

VARIABLES
    hits,       \* what the rules ask, [PR -> set of hits]
    pulls,      \* [PR -> [open, head, change, merged, due]]
    base,       \* the commits of the base branch
    contexts,   \* what its protection requires
    opened,     \* whether a remediation PR is open
    comments,   \* [PR -> sequence of markers]
    runs, left, \* the run, and what is left of its suite budget
    pc, view,   \* where each PR is in the run, and what was read about it
    acted,      \* how often each action was taken on each change
    forgotten,  \* how often a record of one was lost or could not be read
    suites      \* suites started by this run, and those it gave back

github == <<pulls, base, contexts, opened, comments>>
history == <<acted, forgotten>>
remedyVars == <<hits, github, runs, left, pc, view, history, suites>>

PRs == DOMAIN hits
Update == "update-branch"
Evidence == "evidence"

\* The outcomes of which the marker is all there is.
MarkOnly == {"mark-wait", "held", "unhandled"}

\* The actions a rule may name besides, and the refusals it may add.
Actions == {Update, "rerun-failed", "circleci-retry", "close",
            "dispatch-cve-workflow", "fix-protection-context",
            "comment-command"}
Refusals == {"log-matched", "required-checks-green", "no-security-failure",
             "no-generated-edit", "once-per-change"}

\* A rule that names another action or refusal does not load
\* (validateRefusals), and a budget is no less than 0 (NewSuiteBudget).
ASSUME AskedAssumption ==
    \A a \in Asked : \A p \in DOMAIN a : \A h \in a[p] :
        /\ h.name \in Actions \union MarkOnly /\ h.refuse \in Seq(Refusals)
        /\ h.commands \in Nat
ASSUME SuiteLimitAssumption == SuiteLimit \in Nat

-----------------------------------------------------------------------------
\* Fingerprint.Matches: the patch IDs decide when both were read, else the
\* change IDs of the titles.
Matches(m, v) ==
    IF m.patch # 0 /\ v.patch # 0 THEN m.patch = v.patch
    ELSE m.title # 0 /\ m.title = v.title

\* RescueMarker.MarkStale, and a slip that knows the head alone.
StaleByHead(m, v) == m.head # v.head            \* mutant: no fingerprint
MarkStale(m, v) == m.head # v.head /\ ~Matches(m, v)

MergedFrom(m, baseSHA, head) ==
    IF baseSHA = 0 THEN TRUE
    ELSE IF m.base # 0 THEN m.base = baseSHA ELSE m.head = head

Stands(m, v) ==
    /\ ~MarkStale(m, v)
    /\ m.outcome = Update => MergedFrom(m, v.base, v.head)

AppliedTo(v) ==
    {m.outcome : m \in {n \in Range(v.markers) :
                            n.kind = Evidence /\ Stands(n, v)}}

\* The newest rescue marker, when it still stands.
FreshRescue(v) ==
    LET rescues == SelectSeq(v.markers, LAMBDA m : m.kind # Evidence)
    IN rescues # <<>> /\ ~MarkStale(Last(rescues), v)

\* Whether an equivalent of the marker that would be written stands.
Standing(v, name) == \E m \in Range(v.markers) :
    m.kind = Evidence /\ m.outcome = name /\ Stands(m, v)

-----------------------------------------------------------------------------
\* The guards each action runs, in their order; the rule's refusals follow.
Common == <<"trusted-author", "no-security-failure", "log-matched",
            "once-per-change">>
GuardsOf(name) ==
    CASE name = Update ->
            <<"trusted-author", "once-per-change", "no-fresh-rescue">>
      [] name \in {"rerun-failed", "circleci-retry"} -> Common
      [] name = "close" ->
            <<"trusted-author", "no-security-failure", "not-align-files",
              "log-matched", "once-per-change">>
      [] name = "mark-wait" -> <<"trusted-author", "no-security-failure">>
      [] name = "dispatch-cve-workflow" ->
            <<"trusted-author", "log-matched", "no-generated-edit",
              "once-per-change">>
      [] name = "fix-protection-context" ->
            <<"trusted-author", "no-security-failure", "checks-settled",
              "once-per-change">>
      [] name = "comment-command" ->
            <<"trusted-author", "no-security-failure", "known-command",
              "only-gate-waiting", "up-to-date", "once-per-change">>

\* What the guards of a single action ask.  No action here writes a file.
AllowsAlone(v, guard) ==
    LET f == v.hit.facts
    IN CASE guard = "not-align-files" -> f.kind # "align-files"
         [] guard = "no-generated-edit" -> TRUE
         [] guard = "checks-settled" -> f.pending = {} /\ f.silent
         [] guard = "known-command" -> v.hit.commands > 0 /\ f.known
         [] guard = "only-gate-waiting" ->
                /\ ~f.failed /\ ~f.failing /\ f.missing = {}
                /\ f.pending \subseteq {"gate"}
         [] guard = "up-to-date" -> v.base # 0 /\ ~v.behind

\* And those that several actions or the rules share.
Allows(v, name, guard) ==
    LET f == v.hit.facts
    IN CASE guard = "trusted-author" -> f.trusted
         [] guard = "no-security-failure" -> ~f.security
         [] guard = "log-matched" -> v.hit.log
         [] guard = "required-checks-green" ->
                ~f.failed /\ f.pending = {} /\ f.missing = {}
         [] guard = "no-fresh-rescue" -> ~FreshRescue(v)
         [] guard = "once-per-change" -> name \notin AppliedTo(v)
         [] OTHER -> AllowsAlone(v, guard)

\* The first guard that refuses, or "".
RefusedBy(v, name, extra) ==
    LET guards == GuardsOf(name) \o extra
        refuse == SelectInSeq(guards, LAMBDA g : ~Allows(v, name, g))
    IN IF refuse = 0 THEN "" ELSE guards[refuse]

-----------------------------------------------------------------------------
Zero == [k \in {} |-> 0]
CountOf(bag, key) == IF key \in DOMAIN bag THEN bag[key] ELSE 0
Plus(bag, key, n) ==
    [k \in DOMAIN bag \union {key} |-> CountOf(bag, k) + IF k = key THEN n ELSE 0]

\* What an action counts for: the change it saw and, for an update of the
\* branch, the base it saw.
KeyOf(p, v, name) ==
    <<p, name, v.change, IF name = Update THEN v.base ELSE 0>>
ChangeOf(key) == <<key[1], key[2], key[3]>>

\* A view that could not read every marker, the diff, or the base a branch
\* update would merge.
Blind(p, v) == v.cut \/ v.patch = 0 \/ (v.name = Update /\ v.base = 0)

Act(p) ==
    acted' = Plus(acted, KeyOf(p, view[p], view[p].name), 1)
Forget(p, n) ==
    forgotten' = Plus(forgotten, ChangeOf(KeyOf(p, view[p], view[p].name)), n)
WeighBlind(p) == IF Blind(p, view[p]) THEN 1 ELSE 0

Goes(p, label) == pc' = [pc EXCEPT ![p] = label]
To(p, label) == Goes(p, label) /\ UNCHANGED view
Leave(p) == Goes(p, "done") /\ view' = [view EXCEPT ![p] = <<>>]

RemedyInit ==
    /\ hits \in Asked
    /\ \E c \in IF PRs \subseteq Moved THEN DOMAIN TitleOf ELSE {1} :
          pulls = [p \in PRs |-> [open |-> TRUE, head |-> 1, change |-> c,
                                  merged |-> 1, due |-> FALSE]]
    /\ base = 1 /\ contexts = Required /\ opened = FALSE
    /\ comments = [p \in PRs |-> <<>>]
    /\ runs = 1 /\ left = SuiteLimit
    /\ pc = [p \in PRs |-> "list"] /\ view = [p \in PRs |-> <<>>]
    /\ acted = Zero /\ forgotten = Zero
    /\ suites = [started |-> 0, returned |-> 0]

-----------------------------------------------------------------------------
\* ProcessPR reads the PR.  A closed one is not listed.
ReadPull(p) ==
    /\ pc[p] = "list"
    /\ IF pulls[p].open
       THEN /\ view' = [view EXCEPT ![p] =
                            [head |-> pulls[p].head, change |-> pulls[p].change]]
            /\ Goes(p, "read")
       ELSE Leave(p)
    /\ UNCHANGED <<hits, github, runs, left, history, suites>>

\* markers, comparison and fingerprint: the comments up to a page that could
\* not be listed, the patch of the head that was read, and its distance from
\* the base.
Saw(p, k, read, compared, h) ==
    [head |-> view[p].head, change |-> view[p].change,
     markers |-> SubSeq(comments[p], 1, k), cut |-> k < Len(comments[p]),
     patch |-> IF read THEN view[p].change ELSE 0,
     title |-> TitleOf[view[p].change],
     base |-> IF compared THEN base ELSE 0,
     behind |-> pulls[p].merged < base, hit |-> h]

\* Apply: what is asked first; a command that only waits for the branch
\* updates it.
FirstRefused(v) ==
    IF v.hit.name \in MarkOnly \ {"mark-wait"} THEN ""
    ELSE RefusedBy(v, v.hit.name, v.hit.refuse)
Chosen(v) ==
    IF FirstRefused(v) = "up-to-date" /\ v.base # 0 /\ v.behind THEN Update
    ELSE v.hit.name
Stopped(v) ==
    IF Chosen(v) = v.hit.name THEN FirstRefused(v) # ""
    ELSE RefusedBy(v, Update, <<>>) # ""

\* What is kept of it until the marker.
Kept(v) ==
    [head |-> v.head, change |-> v.change, patch |-> v.patch,
     title |-> v.title, base |-> v.base, cut |-> v.cut, hit |-> v.hit,
     name |-> Chosen(v), standing |-> Standing(v, Chosen(v)), left |-> {}]
Where(name) ==
    IF name \in MarkOnly THEN "mark"
    ELSE IF name = "fix-protection-context" THEN "protection" ELSE "act"

\* Each read may fail, and a rule may match or not.
Look(p) ==
    /\ pc[p] = "read"
    /\ \E k \in 0..Len(comments[p]), read, compared \in BOOLEAN, h \in hits[p] :
          LET v == Saw(p, k, read, compared, h)
          IN IF Stopped(v) THEN Leave(p)
             ELSE /\ view' = [view EXCEPT ![p] = Kept(v)]
                  /\ Goes(p, Where(Chosen(v)))
    /\ UNCHANGED <<hits, github, runs, left, history, suites>>

-----------------------------------------------------------------------------
(* The actions.  An answer is "ok", "error" (nothing happened) or "lost"    *)
(* (it happened, and the caller is told it failed).                         *)
Answers == {"ok", "error", "lost"}

\* What every action that reached GitHub or CircleCI leads to.
Applied(p, answer) ==
    /\ IF answer = "ok" THEN To(p, "mark") ELSE Leave(p)
    /\ IF answer = "error" THEN UNCHANGED history
       ELSE /\ Act(p)
            /\ Forget(p, WeighBlind(p) + IF answer = "lost" THEN 1 ELSE 0)

\* GitHub schedules the update, and refuses one that has nothing to merge.
UpdateBranch(p, answer) ==
    /\ pc[p] = "act" /\ view[p].name = Update
    /\ Applied(p, answer)
    /\ IF answer = "error" THEN UNCHANGED pulls
       ELSE /\ pulls[p].open /\ pulls[p].merged < base
            /\ pulls' = [pulls EXCEPT ![p].due = TRUE]
    /\ UNCHANGED <<hits, base, contexts, opened, comments, runs, left, suites>>

\* rerunFailed and circleCIRetry: nothing without a build behind the check,
\* and no CircleCI build without a token.
RerunBuild(p, answer) ==
    /\ pc[p] = "act" /\ view[p].name \in {"rerun-failed", "circleci-retry"}
    /\ LET url == view[p].hit.facts.url
       IN IF url = "circleci" \/ (url = "actions" /\ view[p].name = "rerun-failed")
          THEN Applied(p, answer)
          ELSE /\ answer = "error"
               /\ Leave(p) /\ UNCHANGED history
    /\ UNCHANGED <<hits, github, runs, left, suites>>

\* closePR.  Closing a PR that closed since is no error.
ClosePR(p, answer) ==
    /\ pc[p] = "act" /\ view[p].name = "close"
    /\ Applied(p, answer)
    /\ pulls' = [pulls EXCEPT ![p].open = @ /\ answer = "error"]
    /\ UNCHANGED <<hits, base, contexts, opened, comments, runs, left, suites>>

\* dispatchCVEWorkflow: the remediation PR is the workflow's answer already.
Dispatch(p, answer) ==
    /\ pc[p] = "act" /\ view[p].name = "dispatch-cve-workflow"
    /\ IF opened THEN /\ answer = "error"
                      /\ Leave(p) /\ UNCHANGED history
       ELSE Applied(p, answer)
    /\ UNCHANGED <<hits, github, runs, left, suites>>

\* fixProtectionContext reads the protection and writes what it keeps of it,
\* all or none; a context the rule did not name, or that reported, stays.
ReadProtection(p) ==
    /\ pc[p] = "protection"
    /\ LET named == view[p].hit.named
           kept == contexts \ named
       IN IF /\ named # {} /\ named \subseteq view[p].hit.facts.missing
             /\ named \intersect contexts # {} /\ kept # {}
          THEN /\ view' = [view EXCEPT ![p].left = kept]
               /\ Goes(p, "act")
          ELSE Leave(p)
    /\ UNCHANGED <<hits, github, runs, left, history, suites>>

WriteProtection(p, answer) ==
    /\ pc[p] = "act" /\ view[p].name = "fix-protection-context"
    /\ Applied(p, answer)
    /\ contexts' = IF answer = "error" THEN contexts ELSE view[p].left
    /\ UNCHANGED <<hits, pulls, base, opened, comments, runs, left, suites>>

\* SuiteBudget.Take, all or none, and a slip that asks for one.
FitsOne(n) == left > 0                          \* mutant: any is enough
Fits(n) == n <= left

Take(p) ==
    /\ pc[p] = "act" /\ view[p].name = "comment-command"
    /\ IF Fits(view[p].hit.commands)
       THEN left' = left - view[p].hit.commands /\ To(p, "comment")
       ELSE Leave(p) /\ UNCHANGED left
    /\ UNCHANGED <<hits, github, runs, history, suites>>

\* commentCommand posts the commands, and gives back what a comment that
\* failed took.
CommentCommand(p, answer) ==
    /\ pc[p] = "comment"
    /\ Applied(p, answer)
    /\ LET n == view[p].hit.commands
       IN /\ left' = IF answer = "ok" THEN left ELSE left + n
          /\ suites' =
                [started |-> suites.started + IF answer = "error" THEN 0 ELSE n,
                 returned |-> suites.returned + IF answer = "lost" THEN n ELSE 0]
    /\ UNCHANGED <<hits, github, runs>>

-----------------------------------------------------------------------------
\* postMarker: nothing when an equivalent marker stands.  A base that could
\* not be read is asked for again; one that was read is kept.
PostMarker(p, answer) ==
    /\ pc[p] = "mark"
    /\ Leave(p)
    /\ LET v == view[p]
       IN IF v.standing
          THEN answer = "ok" /\ UNCHANGED <<comments, history>>
          ELSE /\ IF answer = "error" THEN UNCHANGED comments
                  ELSE \E b \in IF v.base # 0 THEN {v.base} ELSE {0, base} :
                         comments' = [comments EXCEPT ![p] = Append(@,
                            [kind |-> Evidence, outcome |-> v.name,
                             head |-> v.head, patch |-> v.patch,
                             title |-> v.title,
                             base |-> IF v.name = Update THEN b ELSE 0])]
               /\ IF v.name \in MarkOnly
                  THEN IF answer = "error" THEN UNCHANGED history
                       ELSE Act(p) /\ Forget(p, WeighBlind(p))
                  ELSE /\ UNCHANGED acted
                       /\ Forget(p, IF answer = "error" THEN 1 ELSE 0)
    /\ UNCHANGED <<hits, pulls, base, contexts, opened, runs, left, suites>>

\* The run ends, or is killed: a PR whose action was taken and not recorded
\* is forgotten.  The next run has a budget of its own.
NextRun ==
    /\ runs < MaxRuns
    /\ LET unmarked == {p \in PRs : pc[p] = "mark" /\ view[p].name \notin MarkOnly}
           lost == {ChangeOf(KeyOf(p, view[p], view[p].name)) : p \in unmarked}
       IN forgotten' = [k \in DOMAIN forgotten \union lost |->
                            CountOf(forgotten, k) + IF k \in lost THEN 1 ELSE 0]
    /\ runs' = runs + 1 /\ left' = SuiteLimit
    /\ pc' = [p \in PRs |-> "list"] /\ view' = [p \in PRs |-> <<>>]
    /\ suites' = [started |-> 0, returned |-> 0]
    /\ UNCHANGED <<hits, github, acted>>

-----------------------------------------------------------------------------
\* The bot rebases the branch or pushes a new version, a branch update lands,
\* the base moves, a person reopens the PR, an agent records its rescue,
\* an admin edits the protection, the CVE workflow opens its PR.
Push(p) ==
    /\ p \in Moved /\ pulls[p].head < MaxHeads
    /\ \E c \in {pulls[p].change, pulls[p].change + 1} \intersect DOMAIN TitleOf :
          pulls' = [pulls EXCEPT ![p] = [@ EXCEPT !.head = @ + 1, !.change = c,
                                                  !.merged = base]]
    /\ UNCHANGED <<hits, base, contexts, opened, comments, runs, left, pc,
                   view, history, suites>>

UpdateLands(p) ==
    /\ pulls[p].due
    /\ pulls' = [pulls EXCEPT ![p] =
            [@ EXCEPT !.head = IF pulls[p].merged < base THEN @ + 1 ELSE @,
                      !.merged = base, !.due = FALSE]]
    /\ UNCHANGED <<hits, base, contexts, opened, comments, runs, left, pc,
                   view, history, suites>>

BaseMoves ==
    /\ PRs \subseteq Moved /\ base < MaxBase
    /\ base' = base + 1
    /\ UNCHANGED <<hits, pulls, contexts, opened, comments, runs, left, pc,
                   view, history, suites>>

Reopen(p) ==
    /\ p \in Moved /\ ~pulls[p].open
    /\ pulls' = [pulls EXCEPT ![p].open = TRUE]
    /\ UNCHANGED <<hits, base, contexts, opened, comments, runs, left, pc,
                   view, history, suites>>

AgentMarks(p) ==
    /\ p \in Moved /\ \A m \in Range(comments[p]) : m.kind = Evidence
    /\ \E h \in hits[p] : h.name \in {Update, "comment-command"}
    /\ comments' = [comments EXCEPT ![p] = Append(@,
            [kind |-> "rescue", outcome |-> "failed", head |-> pulls[p].head,
             patch |-> pulls[p].change, title |-> TitleOf[pulls[p].change],
             base |-> 0])]
    /\ UNCHANGED <<hits, pulls, base, contexts, opened, runs, left, pc, view,
                   history, suites>>

AdminEdits ==
    /\ \E h \in UNION Range(hits) : h.name = "fix-protection-context"
    /\ \E c \in Required :
          contexts' = IF c \in contexts THEN contexts \ {c}
                      ELSE contexts \union {c}
    /\ UNCHANGED <<hits, pulls, base, opened, comments, runs, left, pc, view,
                   history, suites>>

Remediation ==
    /\ \E k \in DOMAIN acted : k[2] = "dispatch-cve-workflow"
    /\ opened' = ~opened
    /\ UNCHANGED <<hits, pulls, base, contexts, comments, runs, left, pc, view,
                   history, suites>>

RemedyNext ==
    \/ \E p \in PRs :
          \/ ReadPull(p) \/ Look(p) \/ ReadProtection(p) \/ Take(p)
          \/ \E answer \in Answers :
                \/ UpdateBranch(p, answer) \/ RerunBuild(p, answer)
                \/ ClosePR(p, answer) \/ Dispatch(p, answer)
                \/ WriteProtection(p, answer) \/ CommentCommand(p, answer)
                \/ PostMarker(p, answer)
          \/ Push(p) \/ UpdateLands(p) \/ Reopen(p) \/ AgentMarks(p)
    \/ NextRun \/ BaseMoves \/ AdminEdits \/ Remediation

RemedySpec == RemedyInit /\ [][RemedyNext]_remedyVars

-----------------------------------------------------------------------------
\* An action is taken on a change, a branch update on a change and a base,
\* once more only for each time its record was lost (the run ended, or the
\* comment failed, after it was taken) or could not be read (OncePerChange,
\* "twice red on the same code is real").  A rebase forgets nothing.
RepeatsExplained ==
    \A key \in DOMAIN acted :
        acted[key] <= 1 + CountOf(forgotten, ChangeOf(key))

\* A run starts no more suites than its budget and those it gave back for a
\* comment that was posted and whose answer was lost (SuiteBudget).
SuitesBounded == suites.started <= SuiteLimit + suites.returned

\* What README.md says of the command that starts a suite: a PR gets at most
\* one per head.  Does not hold.
OneCommandPerHead ==
    \A key \in DOMAIN acted : key[2] = "comment-command" => acted[key] <= 1

\* What actions_close.go says of fixProtectionContext: it only removes the
\* contexts that no job posts, and never adds one.  Does not hold: what it
\* writes was read before.
OnlyDropsNamed ==
    [][\A p \in PRs :
          pc[p] = "act" /\ view[p].name = "fix-protection-context"
             /\ contexts' # contexts /\ pc'[p] # "act"
          => contexts' = contexts \ view[p].hit.named]_remedyVars
=============================================================================
