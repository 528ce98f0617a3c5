------------------------------ MODULE Handoff -------------------------------
(***************************************************************************)
(* The rescue step (process/rescue.go): what a sweep hands to the agent it *)
(* runs inside.  The PRs no rule recognised become candidates; the team's  *)
(* rescues of the last week are counted from the markers on its PRs        *)
(* (internal/patterns), and each candidate is read again before it is      *)
(* handed over.  The agent records each rescue it made, and may die first; *)
(* people open and close PRs of their own all the while.                   *)
(***************************************************************************)
EXTENDS Naturals, Sequences, FiniteSets, SequencesExt, FiniteSetsExt, Functions

CONSTANTS
    Table,          \* the PRs of the team in table order, [pr, repo, files]
    Teammates,      \* the PRs people may open, [repo, files]
    Failures,       \* what the sweep may find of a PR, see Unfit
    Roots,          \* the language each repository's root may tell, "" for none
    TeamFile,       \* [repo -> the language the team file says]
    Weeks,          \* what the policy may allow in a week
    Toolchains,     \* what the image may build, "" for every language
    MaxMarks, MaxMoves, MaxHandoffs     \* bounds on the markers of a PR, on
                                        \* its heads and on the runs

\* The table is numbered in the order PRStatus.Add appends, and a run lists a
\* PR once; a policy that allows less than nothing does not load (validate).
ASSUME TableAssumption ==
    /\ DOMAIN Table \subseteq Nat /\ IsFiniteSet(DOMAIN Table)
    /\ \A i, j \in DOMAIN Table : Table[i].pr = Table[j].pr => i = j
ASSUME WeeksAssumption == Weeks \subseteq Nat /\ MaxMarks \in Nat

VARIABLES
    allowed, toolchain,
    branches,       \* [pr -> [open, head, dirty]]
    people,         \* the open PRs of people
    marks,          \* [pr -> its rescue markers of the last seven days]
    rescued,        \* [pr -> the head its newest rescue marker stands for]
    handoffs, stage,    \* the run, and how far it is
    unseen,         \* the rows of the table the sweep has yet to classify
    candidates,     \* [row -> [head, read]], read FALSE: the diff is unknown
    remaining,
    spoken,         \* [repo -> its language], once asked
    listed,         \* [repo -> [err, prs]], once asked
    handed,         \* the PRs handed over
    before, since   \* the markers when the run counted them, and the PRs of
                    \* people open since then

world == <<branches, people, marks, rescued>>
memory == <<spoken, listed>>
handoffVars == <<allowed, toolchain, world, handoffs, stage, unseen, candidates,
                 remaining, memory, handed, before, since>>

Rows == DOMAIN Table
Team == {Table[i].pr : i \in Rows}
RowOfPR(p) == CHOOSE i \in Rows : Table[i].pr = p
None == [k \in {} |-> 0]
Noted(f, k, v) == [x \in DOMAIN f \union {k} |-> IF x = k THEN v ELSE f[x]]

HandoffInit ==
    /\ allowed \in Weeks /\ toolchain \in Toolchains
    /\ branches = [p \in Team |-> [open |-> TRUE, head |-> 1, dirty |-> FALSE]]
    /\ people = {}
    /\ marks = [p \in Team |-> 0] /\ rescued = [p \in Team |-> 0]
    /\ handoffs = 1 /\ stage = "sweep" /\ unseen = Rows
    /\ candidates = None /\ remaining = 0
    /\ spoken = None /\ listed = None
    /\ handed = {} /\ before = 0 /\ since = {}

-----------------------------------------------------------------------------
\* rescueRefusal: the first preconditions, of what the sweep found, and the
\* marker that stands for the head (its fingerprint is module Remedy's).
Unfit(f, p) ==
    \/ ~f.unhandled \/ ~f.enabled \/ ~f.trusted \/ f.security \/ f.pending
    \/ f.missing /\ ~f.failed
    \/ rescued[p] = branches[p].head

\* rescueCandidate, as each PR of the run is classified.
Classify(i) ==
    /\ stage = "sweep" /\ i \in unseen
    /\ LET p == Table[i].pr
       IN \E f \in Failures, read \in BOOLEAN :
             candidates' =
                IF ~branches[p].open \/ branches[p].dirty \/ Unfit(f, p)
                THEN candidates
                ELSE Noted(candidates, i, [head |-> branches[p].head,
                                           read |-> read])
    /\ unseen' = unseen \ {i}
    /\ UNCHANGED <<allowed, toolchain, world, handoffs, stage, remaining,
                   memory, handed, before, since>>

\* The markers a count reads: on every PR of the team; and a slip that skips
\* the PRs that are merged or closed.
CountedOpen == {p \in Team : branches[p].open}  \* mutant: closed ones are free
Counted == Team

\* Those of the PRs of S, one by one.
Markers(S) == {m \in S \X (1..MaxMarks) : m[2] <= marks[m[1]]}

\* weeklyRescues and Search.Rescues: up to the limit, and nothing at all when
\* it is zero.  A page that cannot be read, a scope without a repository and
\* more than maxRescuePRs PRs to read are one error, which hands nothing over.
CountWeek(readable) ==
    /\ stage = "sweep" /\ unseen = {}
    /\ LET total == Cardinality(Markers(Counted))
           used == IF total < allowed THEN total ELSE allowed
       IN IF candidates = None \/ ~readable
          THEN stage' = "over" /\ UNCHANGED <<remaining, before, since>>
          ELSE /\ stage' = "decide"
               /\ remaining' = allowed - used
               /\ before' = Cardinality(Markers(Team))
               /\ since' = people
    /\ UNCHANGED <<allowed, toolchain, world, handoffs, unseen, candidates,
                   memory, handed>>

-----------------------------------------------------------------------------
\* stillRescuable: the PR read again, right before it is handed over.
Still(i) ==
    LET b == branches[Table[i].pr]
    IN b.open /\ b.head = candidates[i].head /\ ~b.dirty

\* repoLanguage: the root is believed over the team file, unless it could not
\* be read or names no toolchain.
LanguageOf(repo, root) == IF root = "" THEN TeamFile[repo] ELSE root

\* teammateRefusal, of the PRs as they were listed.  An unknown diff collides
\* with every one of them; and a slip that finds no file of it anywhere.
CollidesWhereRead(i, t) ==                      \* mutant: a nil diff is empty
    candidates[i].read /\ t.files \intersect Table[i].files # {}
Collides(i, t) ==
    candidates[i].read => t.files \intersect Table[i].files # {}

\* teammatePRs: what one listing finds.
ListedNow(repo) ==
    {[err |-> TRUE, prs |-> {}],
     [err |-> FALSE, prs |-> {t \in people : t.repo = repo}]}

\* Handoff, one candidate, in table order.  A language and a list of PRs are
\* asked for once per repository, an error as any other answer.
Decided(i) ==
    candidates' = [j \in DOMAIN candidates \ {i} |-> candidates[j]]

HandOver(readable) ==
    /\ stage = "decide" /\ candidates # None
    /\ LET i == Min(DOMAIN candidates)
           repo == Table[i].repo
           refused == Decided(i) /\ UNCHANGED <<remaining, handed>>
       IN IF remaining = 0 \/ ~readable \/ ~Still(i)
          THEN refused /\ UNCHANGED memory
          ELSE \E root \in Roots :
             LET language == IF repo \in DOMAIN spoken THEN spoken[repo]
                             ELSE LanguageOf(repo, root)
             IN /\ spoken' = IF toolchain = "" THEN spoken
                             ELSE Noted(spoken, repo, language)
                /\ IF toolchain \notin {"", language}
                   THEN refused /\ UNCHANGED listed
                   ELSE \E list \in IF repo \in DOMAIN listed
                                    THEN {listed[repo]} ELSE ListedNow(repo) :
                      /\ listed' = Noted(listed, repo, list)
                      /\ IF list.err \/ \E t \in list.prs : Collides(i, t)
                         THEN refused
                         ELSE /\ Decided(i)
                              /\ remaining' = remaining - 1
                              /\ handed' = handed \union {Table[i].pr}
    /\ UNCHANGED <<allowed, toolchain, world, handoffs, stage, unseen, before,
                   since>>

HandoffEnds ==
    /\ stage = "decide" /\ candidates = None
    /\ stage' = "over" /\ remaining' = 0
    /\ spoken' = None /\ listed' = None /\ since' = {}
    /\ UNCHANGED <<allowed, toolchain, world, handoffs, unseen, candidates,
                   handed, before>>

\* The next run: this one ended, or was killed, and so was its agent.
NextHandoff ==
    /\ handoffs < MaxHandoffs
    /\ handoffs' = handoffs + 1 /\ stage' = "sweep" /\ unseen' = Rows
    /\ candidates' = None /\ remaining' = 0
    /\ spoken' = None /\ listed' = None
    /\ handed' = {} /\ before' = 0 /\ since' = {}
    /\ UNCHANGED <<allowed, toolchain, world>>

-----------------------------------------------------------------------------
(* The rest of the world.                                                   *)
Inside == <<allowed, toolchain, handoffs, stage, unseen, candidates, remaining,
            memory, handed, before>>

\* marge mark, of the agent or of a person, with the head pushed or not.
Marks(p, pushes) ==
    /\ branches[p].open /\ marks[p] < MaxMarks
    /\ pushes => branches[p].head < MaxMoves
    /\ marks' = [marks EXCEPT ![p] = @ + 1]
    /\ branches' = [branches EXCEPT ![p].head = @ + IF pushes THEN 1 ELSE 0]
    /\ rescued' = [rescued EXCEPT ![p] = branches'[p].head]
    /\ UNCHANGED <<Inside, people, since>>

MarkAges(p) ==
    /\ marks[p] > 0
    /\ marks' = [marks EXCEPT ![p] = @ - 1]
    /\ UNCHANGED <<Inside, branches, people, rescued, since>>

HeadMoves(p) ==
    /\ branches[p].head < MaxMoves
    /\ branches' = [branches EXCEPT ![p].head = @ + 1]
    /\ UNCHANGED <<Inside, people, marks, rescued, since>>

Ends(p) ==
    /\ branches[p].open
    /\ branches' = [branches EXCEPT ![p].open = FALSE]
    /\ UNCHANGED <<Inside, people, marks, rescued, since>>

Conflicts(p) ==
    /\ branches[p].open /\ ~branches[p].dirty
    /\ branches' = [branches EXCEPT ![p].dirty = TRUE]
    /\ UNCHANGED <<Inside, people, marks, rescued, since>>

PersonOpens(t) ==
    /\ t \notin people
    /\ people' = people \union {t}
    /\ UNCHANGED <<Inside, branches, marks, rescued, since>>

PersonCloses(t) ==
    /\ t \in people
    /\ people' = people \ {t} /\ since' = since \ {t}
    /\ UNCHANGED <<Inside, branches, marks, rescued>>

HandoffNext ==
    \/ \E i \in Rows : Classify(i)
    \/ \E readable \in BOOLEAN : CountWeek(readable) \/ HandOver(readable)
    \/ HandoffEnds \/ NextHandoff
    \/ \E p \in Team :
          \/ \E pushes \in BOOLEAN : Marks(p, pushes)
          \/ MarkAges(p) \/ HeadMoves(p) \/ Ends(p) \/ Conflicts(p)
    \/ \E t \in Teammates : PersonOpens(t) \/ PersonCloses(t)

HandoffSpec == HandoffInit /\ [][HandoffNext]_handoffVars

-----------------------------------------------------------------------------
\* What a run hands over, with the rescues the team's PRs recorded when it
\* counted them, open or not, stays within the week's count (README.md, Rescue
\* handoff; HandoffBudget).
WithinWeek == handed # {} => Cardinality(handed) + before <= allowed

\* No PR is handed over while a PR of a person that has been open since before
\* the count changes one of its files (teammateRefusal), whatever could be
\* read of either.
NoCollision ==
    [][\A p \in handed' \ handed :
          LET row == Table[RowOfPR(p)]
          IN \A t \in since : t.repo = row.repo =>
                                t.files \intersect row.files = {}]_handoffVars
=============================================================================
