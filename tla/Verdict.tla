------------------------------ MODULE Verdict ------------------------------
(***************************************************************************)
(* What the checks of a PR say (process/checks.go and what it calls): the  *)
(* statuses and check runs of the head, the required contexts of the base  *)
(* branch, the checks of the base head and CircleCI's builds are read and  *)
(* folded into one row, poll by poll.  Any of these reads may fail.        *)
(*                                                                         *)
(* A name is <<workflow, job>>; <<"", job>> is a bare context.             *)
(***************************************************************************)
EXTENDS Naturals, Sequences

CONSTANTS
    Heads,          \* what a head may report, one per poll
    Facts,          \* what is fixed while the PR is polled
    Failures,       \* the sets of reads that may fail in one poll
    SecurityJobs,   \* the jobs the security patterns match
    MaxPolls        \* bound on the polls before the deadline

(* A check is [name, via, says, build]: via "run" or "status"; says what it *)
(* reports; build the actions of the CircleCI build behind a status, <<>>   *)
(* where there is none, and <<"canceled">> for one cancelled before it      *)
(* began.  A head is [listed, beyond]: the checks of the first page, 100 of *)
(* each kind, and those behind it.  Facts are [required, green, red,        *)
(* behind, superseded, noop]: the required contexts, the names green on the *)
(* base head the comparison is made with and those red on the one the PR    *)
(* names, whether the head is behind, and what makes the PR obsolete.       *)

\* What a run concludes or a status says, a run refused for the budget and one
\* whose job was killed before its first step among them.
Conclusions == {"success", "neutral", "failure", "pending", "stale", "cancelled",
         "budget", "setup"}

ASSUME HeadsAssumption ==
    \A h \in Heads : \A c \in h.listed \union h.beyond :
        /\ c.name \in STRING \X STRING /\ c.says \in Conclusions
        /\ c.via \in {"run", "status"} /\ (c.via = "run" => c.build = <<>>)
ASSUME PollsAssumption == MaxPolls \in Nat

VARIABLES
    facts, head, failed,    \* what this poll reads, and which reads fail
    preexisting,            \* run.preexisting
    polls,
    row                     \* "" while polling, "passed" for a green PR

verdictVars == <<facts, head, failed, preexisting, polls, row>>

-----------------------------------------------------------------------------
Short(name) == <<"", name[2]>>

\* Build.AutoCancelled: successes up to the cancel, and nothing but cancelled
\* actions from there on.
AutoCancelled(build) ==
    /\ \E i \in DOMAIN build : build[i] = "canceled"
    /\ \A i \in DOMAIN build :
          /\ build[i] \in {"success", "canceled"}
          /\ build[i] = "success" => \A j \in 1..i : build[j] = "success"

\* classifyCheckRun and the loop over the statuses: what one check
\* established.  A budget block is read from the run's annotations, and a
\* read that fails leaves it a failure.  An unfinished or unknown conclusion
\* is neither green nor red.
SetupAlone == {"setup"}                 \* mutant: a killed job is a failure
NoVerdictSays == {"cancelled", "setup"}
Class(c, fails) ==
    CASE c.says = "budget" /\ "annotations" \notin fails -> "blocked"
      [] c.says \in NoVerdictSays -> "none"
      [] c.says \in {"success", "neutral"} -> "green"
      [] c.says \in {"pending", "stale"} -> "open"
      [] OTHER -> "red"

Red(h, fails) == {c \in h.listed : Class(c, fails) = "red"}
NamesOf(checks) == {c.name : c \in checks}

\* recordContext: a name is red once anything under it failed.
Reported(h) == NamesOf(h.listed)
Failed(h, fails, n) == n \in NamesOf(Red(h, fails))
Passed(h, fails, n) ==
    /\ ~Failed(h, fails, n)
    /\ \E c \in h.listed : c.name = n /\ Class(c, fails) = "green"

Statuses(checks) == {c \in checks : c.via = "status"}

\* The state GitHub combines of all the statuses, those of later pages too.
\* It is pending when there are none.
CombinedState(h) ==
    LET all == Statuses(h.listed \union h.beyond) IN
    IF \E c \in all : c.says \in {"failure", "setup"} THEN "failure"
    ELSE IF all = {} \/ \E c \in all : c.says = "pending" THEN "pending"
    ELSE "success"

CombinedPending(h) ==           \* mutant: no status is a pending status
    CombinedState(h) = "pending"
StatusesPending(h) == CombinedState(h) = "pending" /\ Statuses(h.listed) # {}

\* getCombinedCheckState.
State(h, fails) ==
    LET is(class) == \E c \in h.listed : Class(c, fails) = class
        running == \E c \in h.listed : c.via = "run" /\ c.says = "pending"
    IN
    CASE h.listed = {} -> "success"
      [] h.listed # {} /\ is("red") -> "failure"
      [] OTHER -> IF running THEN "pending"
                  ELSE IF is("none") THEN "noVerdict"
                  ELSE IF is("blocked") THEN "blocked"
                  ELSE IF CombinedState(h) = "failure" THEN "failure"
                  ELSE IF StatusesPending(h) THEN "pending" ELSE "success"

-----------------------------------------------------------------------------
\* lookupContext: the exact name, its last segment, or any reported name
\* whose last segment it is: a map is ranged over, so which one is open.
Matches(h, n) ==
    IF n \in Reported(h) THEN {n}
    ELSE IF Short(n) \in Reported(h) THEN {Short(n)}
    ELSE {r \in Reported(h) : Short(r) = n}

\* evaluateRequired: the ways the required contexts can be looked up.
Lookups(h) == {f \in [facts.required -> Reported(h) \union {<<>>}] :
    \A n \in facts.required :
        IF Matches(h, n) = {} THEN f[n] = <<>> ELSE f[n] \in Matches(h, n)}
Missing(found) == {n \in facts.required : found[n] = <<>>}

AllGreen(h, fails, found) ==
    \A n \in facts.required : found[n] # <<>> /\ Passed(h, fails, found[n])
RequiredFailed(h, fails, found) ==
    \E n \in facts.required \ Missing(found) : Failed(h, fails, found[n])
RequiredOpen(h, fails, found) ==
    \E n \in facts.required \ Missing(found) :
        ~Failed(h, fails, found[n]) /\ ~Passed(h, fails, found[n])

RequiredByName(n) ==            \* mutant: a workflow's job goes unmatched
    \E r \in facts.required : r = n \/ Short(r) = n
IsRequired(n) ==
    \E r \in facts.required : r = n \/ Short(r) = n \/ Short(n) = r

NotGreenOnBase(n, fails) ==             \* mutant: absent counts as red
    "base" \notin fails /\ n \notin facts.green
\* redOnBase: absent, pending and unread are not red.
RedOnBase(n, fails) == "base" \notin fails /\ n \in facts.red

\* classifyCancelled, classifyStale, classifyObsolete.
Cancelled(h, fails) ==
    /\ Red(h, fails) # {} /\ "circle" \notin fails
    /\ \A n \in NamesOf(Red(h, fails)) :
          \E c \in Statuses(Red(h, fails)) :
              c.name = n /\ AutoCancelled(c.build)
Stale(h, fails) ==
    /\ Red(h, fails) # {} /\ {"compare", "base"} \intersect fails = {}
    /\ facts.behind /\ NamesOf(Red(h, fails)) \subseteq facts.green
Obsolete(fails) == facts.superseded \/ ("compare" \notin fails /\ facts.noop)
SecurityRed(h, fails) == \E n \in NamesOf(Red(h, fails)) : n[2] \in SecurityJobs

\* classifyFailure, in its order: the row, or "excused".
Classified(h, fails) ==
    IF Cancelled(h, fails) THEN "Cancelled"
    ELSE IF Stale(h, fails) THEN "Stale"
    ELSE IF Obsolete(fails) THEN "Obsolete"
    ELSE IF SecurityRed(h, fails) THEN "FailedSecurity"
    ELSE IF \A n \in NamesOf(Red(h, fails)) :
                ~IsRequired(n) /\ RedOnBase(n, fails)
    THEN "excused" ELSE "Failed"

\* rerunOnce and handleUnposted: what CircleCI records of a settled head
\* whose required contexts never reported.  A head it never built, a rerun
\* made once already and one that may not be made leave no verdict.
CircleSays ==
    {"nothing to rerun", "unbuilt", "rerun before", "may not", "rerun"}
Unposted(h, fails, found, circle) ==
    /\ Missing(found) # {} /\ State(h, fails) # "pending"
    /\ ~RequiredOpen(h, fails, found)
    /\ "circle" \notin fails /\ circle # "nothing to rerun"

\* One poll of evaluateChecks.
RowOf(h, fails, found, circle) ==
    LET state == State(h, fails)
        red == RequiredFailed(h, fails, found) \/ state = "failure"
    IN
    IF "checks" \in fails THEN "Failed"
    ELSE IF state = "blocked" THEN "BlockedCI"
    ELSE IF state = "noVerdict" THEN "NoVerdict"
    ELSE IF "protection" \in fails THEN "Failed"
    ELSE IF red /\ Classified(h, fails) # "excused" THEN Classified(h, fails)
    ELSE IF AllGreen(h, fails, found) /\ state # "pending" THEN "passed"
    ELSE IF Unposted(h, fails, found, circle)
    THEN IF circle = "rerun" THEN "Retried" ELSE "NoVerdict"
    ELSE "WaitingChecks"

\* What the loop has excused: appended on every poll, and never taken back.
Excused(h, fails) ==
    IF {"checks", "protection"} \intersect fails # {} THEN {}
    ELSE {n \in NamesOf(Red(h, fails)) : ~IsRequired(n) /\ RedOnBase(n, fails)}

-----------------------------------------------------------------------------
Nothing == [listed |-> {}, beyond |-> {}]

VRest ==
    /\ head = Nothing /\ failed = {}
    /\ preexisting = {} /\ polls = 0 /\ row = ""
VInit == facts \in Facts /\ VRest

Poll(h, fails, found, circle) ==
    /\ polls < MaxPolls
    /\ head' = h /\ failed' = fails
    /\ polls' = polls + 1
    /\ row' = RowOf(h, fails, found, circle)
    /\ preexisting' = preexisting \union Excused(h, fails)
    /\ UNCHANGED facts

\* The loop starts again: everything but what it has excused is read anew.
NextPoll ==
    /\ row = "WaitingChecks" /\ polls < MaxPolls
    /\ row' = "" /\ head' = Nothing /\ failed' = {}
    /\ UNCHANGED <<facts, preexisting, polls>>

\* The deadline leaves the row of the last poll, the end of the run does not.
Deadline ==
    /\ row = "WaitingChecks" /\ polls <= MaxPolls
    /\ polls' = MaxPolls + 1
    /\ row' \in {"WaitingChecks", "Skipped"}
    /\ UNCHANGED <<facts, head, failed, preexisting>>

Settled ==
    /\ row # "" /\ (row = "WaitingChecks" => polls > MaxPolls)
    /\ UNCHANGED verdictVars

VNext ==
    \/ /\ row = ""
       /\ \E h \in Heads, fails \in Failures, circle \in CircleSays :
              \E found \in Lookups(h) : Poll(h, fails, found, circle)
    \/ NextPoll
    \/ Deadline
    \/ Settled

-----------------------------------------------------------------------------
\* A PR passes only when every red check it was seen to have is excused, and
\* named where the merge is reported: not required, no security check, and
\* red on the base head too (checks.go 17-21), whatever the polls before said
\* and whichever reads failed.
RedIsExcused ==
    row = "passed" => \A c \in Red(head, failed) :
        /\ ~IsRequired(c.name) /\ c.name[2] \notin SecurityJobs
        /\ "base" \notin failed /\ c.name \in facts.red
        /\ c.name \in preexisting

\* A required context is matched with reported names in two places, and in an
\* order nobody fixes.  Whichever name the lookup hits, a PR passes only when
\* one the context may mean is green, and never past a red one.
RequiredPassed ==
    row = "passed" => \A r \in facts.required :
        /\ \E n \in Matches(head, r) : Passed(head, failed, n)
        /\ \A n \in Matches(head, r) : ~Failed(head, failed, n)

\* Nothing holds back a head on which every check is green and every required
\* context reported: not the reads it does not need, not the state GitHub
\* combines of statuses nobody posted, not a poll before.
GreenPasses ==
    /\ row # "" /\ polls <= MaxPolls
    /\ {"checks", "protection"} \intersect failed = {}
    /\ head.beyond = {} /\ \A c \in head.listed : Class(c, failed) = "green"
    /\ \A r \in facts.required : Matches(head, r) # {}
    => row = "passed"

\* What a status says is not what ran: CircleCI reports a build it cancelled
\* itself as failed.
Ran(c) == c.says = "failure" /\ ~AutoCancelled(c.build)
\* A check that did not run, and the read that would have told so failed.
Unseen(c) ==
    \/ c.says = "budget" /\ "annotations" \in failed
    \/ AutoCancelled(c.build) /\ "circle" \in failed

\* The red checks a PR fails for: the scans, or what nothing excuses.
Grounds == {c \in Red(head, failed) :
    IF row = "FailedSecurity" THEN c.name[2] \in SecurityJobs
    ELSE IsRequired(c.name) \/ ~RedOnBase(c.name, failed)}

\* A check that established nothing about the code is not reported as a
\* failure of it (checks.go 189-193, infra.go 20-26): what fails a PR ran and
\* failed, or could not be read.  A build CircleCI cancelled itself is taken
\* for a failure only beside a check that was one (classifyCancelled).
FailureRan ==
    /\ row \in {"Failed", "FailedSecurity"}
    /\ {"checks", "protection"} \intersect failed = {}
    => /\ Grounds # {}
       /\ \A c \in Grounds :
            \/ Ran(c) \/ Unseen(c)
            \/ /\ AutoCancelled(c.build)
               /\ \E d \in Red(head, failed) : Ran(d) \/ Unseen(d)

\* A scan that did not run is no finding (infra.go 20-26), when everything
\* could be read.  It does not hold: a scan that CircleCI cancelled is a
\* security failure as soon as any other check of the head is red.
ScanRan ==
    row = "FailedSecurity" /\ failed = {} =>
        \E c \in Grounds : Ran(c)

\* "A pre-existing red check never shortens the wait for a pending or missing
\* required context" (checks.go 21-22).  It does not hold: a name that
\* succeeded once is green while another run of it is pending, and with a red
\* check on the head the state is not pending either.
PreexistingNeverShortens ==
    row = "passed" => \A c \in head.listed :
        c.says = "pending" =>
            \A r \in facts.required : c.name \notin Matches(head, r)

\* A PR passes only when no check of its head is red without excuse
\* (checks.go 17-21).  It does not hold either: the statuses and the check
\* runs of a head are read one page each, those of the base head whole.
UnseenRedWaits ==
    row = "passed" => \A c \in head.beyond :
        Class(c, failed) = "red" => ~IsRequired(c.name) /\ c.name \in facts.red

=============================================================================
