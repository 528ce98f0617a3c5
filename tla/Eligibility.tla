---------------------------- MODULE Eligibility ----------------------------
(***************************************************************************)
(* Whether a green PR merges under the policy Policy.tla resolved: who     *)
(* authored it and how large its update is (pr/kind.go, pr/chartsync.go),  *)
(* whether its repository decides it, whether the policy lists it, and     *)
(* whether its body asks for a proof first (pr/proof.go).                  *)
(***************************************************************************)
EXTENDS Policy

CONSTANTS
    Pulls           \* the PRs that are read
(* A PR is [author, pinned, synced, branch, signed, title, rows, charts,   *)
(* body].  pinned: the author has the account id its login is pinned to;   *)
(* synced: the upstream-sync label; title: what its title says of the      *)
(* size, with the versions it names; rows: the version pairs of its body;  *)
(* charts: the Chart.yaml files of its diff; body: the lines the proof     *)
(* scan tells apart.                                                       *)

VARIABLES pull, verdict
judged == <<pull, verdict>>
NoPull == [author |-> "nobody"]

-----------------------------------------------------------------------------
KindByLogin ==
    [renovate |-> "renovate", dependabot |-> "dependabot",
     alignfiles |-> "align-files", heraldbot |-> "herald"]
SyncAuthors == {"release-app", "taylorbot"}

KindOf(p) ==
    CASE p.author \in DOMAIN KindByLogin -> KindByLogin[p.author]
      [] p.author \in SyncAuthors /\ p.synced -> "upstream-sync"
      [] OTHER -> ""

SelfHostedRenovateCandidate(p) == p.author = "owner" /\ p.branch = "renovate/"

\* What the discovery goes by: it reads no body and no account id.
DiscoveredKind(p) ==
    CASE KindOf(p) # "" -> KindOf(p)
      [] SelfHostedRenovateCandidate(p) -> "renovate"
      [] OTHER -> ""

KindAsDiscovered(p) ==          \* mutant: what was discovered is trusted
    DiscoveredKind(p)
KindOfPull(p) ==
    CASE KindOf(p) # "" /\ (KindOf(p) = "upstream-sync" => p.pinned) ->
             KindOf(p)
      [] SelfHostedRenovateCandidate(p) /\ p.signed -> "renovate"
      [] OTHER -> ""

LeftToClassification(kind, p) == kind = "align-files" /\ p.branch = "reposetup/"

-----------------------------------------------------------------------------
\* A version is <<major, minor, patch>>; <<"hex">> is a digest and <<>> a text
\* semver cannot read.
Semver(v) == Len(v) = 3

DiffType(from, to) ==
    IF from = <<"hex">> /\ to = <<"hex">> THEN "digest"
    ELSE IF ~(Semver(from) /\ Semver(to)) THEN Unknown
    ELSE IF from[1] # to[1] THEN "major"
    ELSE IF from[2] # to[2] THEN "minor" ELSE "patch"

UpdateRank == [t \in {Unknown, "digest", "patch", "minor", "major"} |->
    CASE t = "digest" -> 1 [] t = "patch" -> 2 [] t = "minor" -> 3
      [] t = "major" -> 4 [] OTHER -> 0]

\* larger, over every row: unknown ranks lowest.
SmallestRead(sizes) ==          \* mutant: the comparison of larger swapped
    LET known == sizes \ {Unknown} IN
    CHOOSE t \in known \union {Unknown} :
        known # {} => /\ t # Unknown
                      /\ \A u \in known : UpdateRank[t] <= UpdateRank[u]
Largest(sizes) ==
    LET all == sizes \union {Unknown} IN
    CHOOSE t \in all : \A u \in all : UpdateRank[u] <= UpdateRank[t]

Sizes(rows) == {DiffType(r[1], r[2]) : r \in rows}

\* The major of a Go module path, "update module foo/v91 to v92".
ModuleSize(title) == IF title.from # title.to THEN "major" ELSE Unknown

ClassifyUpdate(kind, p) ==
    LET says == p.title.says
        rows == Largest(Sizes(p.rows))
    IN
    IF ~CarriesVersion(kind) THEN "none"
    ELSE CASE says = "lock file maintenance" -> "lockfile"
           [] says = "pin dependencies" -> "pin"
           [] says = "all non-major" -> "minor"
           [] says \in {"major", "minor", "patch", "digest"} -> says
           [] says = "versions" -> DiffType(p.title.from, p.title.to)
           [] OTHER -> IF rows = Unknown /\ says = "module"
                       THEN ModuleSize(p.title) ELSE rows

\* ClassifyChartSync: a diff cut short, a file without its patch, lines that
\* do not pair up and a pair that cannot be read all end the search.  The
\* lines of a file are paired by order.
Pairs(f) == {<<f.removed[i], f.added[i]>> : i \in 1..Len(f.removed)}
ClassifyChartSync(charts) ==
    IF \/ charts.cut
       \/ \E f \in charts.files : ~f.delivered \/ Len(f.removed) # Len(f.added)
       \/ \E f \in charts.files : Unknown \in Sizes(Pairs(f))
    THEN Unknown
    ELSE Largest(UNION {Sizes(Pairs(f)) : f \in charts.files})

UpdateType(kind, p) ==
    IF kind = "upstream-sync" THEN ClassifyChartSync(p.charts)
    ELSE ClassifyUpdate(kind, p)

-----------------------------------------------------------------------------
\* UnprovenBeforeMerge, line by line.  "open" and "done" are task items, an
\* "asking" one says "before merging" itself; "ask" is any other line that does.
Lines == {"open", "asking", "done", "ask", "blank", "heading", "item", "text"}
Tasks == {"open", "asking", "done"}

EndsAtOnce(s) == TRUE           \* mutant: the first paragraph ends it
\* A paragraph ends the section once its list has begun.
EndsSection(s) == s.listStarted

Scanned(s, line) ==
    IF s.found THEN s
    ELSE CASE line \in Tasks ->
                IF line = "asking" \/ (line = "open" /\ s.inSection)
                THEN [s EXCEPT !.found = TRUE]
                ELSE [s EXCEPT !.listStarted = s.inSection \/ @]
           [] line = "ask" ->
                [s EXCEPT !.inSection = TRUE, !.listStarted = FALSE]
           [] line = "blank" -> s
           [] line = "heading" -> [s EXCEPT !.inSection = FALSE]
           [] line = "item" -> [s EXCEPT !.listStarted = s.inSection \/ @]
           [] OTHER -> [s EXCEPT !.inSection = @ /\ ~EndsSection(s)]

NothingSeen == [found |-> FALSE, inSection |-> FALSE, listStarted |-> FALSE]
ProofScan(body) ==
    LET scan[i \in 0..Len(body)] ==
            IF i = 0 THEN NothingSeen ELSE Scanned(scan[i - 1], body[i])
    IN scan
Unproven(body) == ProofScan(body)[Len(body)].found

ASSUME PullsAssumption == \A p \in Pulls : p.body \in Seq(Lines)

-----------------------------------------------------------------------------
\* ProcessPR, from the PR as read to the merge, its checks being green.
Verdict(policy, p) ==
    LET kind == KindOfPull(p) IN
    CASE ~policy.sweep -> "off"
      [] policy.sweep /\ kind = "" -> "untrusted"
      [] policy.sweep /\ kind # "" /\ LeftToClassification(kind, p) -> "left"
      [] OTHER -> IF ~Eligible(policy, kind, UpdateType(kind, p)) THEN "held"
                  ELSE IF Unproven(p.body) THEN "unproven" ELSE "merges"

Judge(r, p) ==
    /\ scope = "team" => r \in DOMAIN list
    /\ pull' = p
    /\ verdict' = Verdict(For(r), p)
    /\ UNCHANGED vars

EInit == Init /\ pull = NoPull /\ verdict = ""
ENext ==
    \/ Next /\ UNCHANGED judged
    \/ /\ step = "done" /\ verdict = ""
       /\ \E r \in Repos, p \in Pulls : Judge(r, p)
ESpec == EInit /\ [][ENext]_<<vars, judged>>

-----------------------------------------------------------------------------
\* Nobody's PR merges but a bot's: not one under a login somebody took over,
\* not one of the owner that no Renovate signed, though the discovery finds
\* both (kind.go 97-100, 117-120).
ImpostorsWait ==
    verdict = "merges" =>
        \/ pull.author \in DOMAIN KindByLogin
        \/ pull.author \in SyncAuthors /\ pull.pinned /\ pull.synced
        \/ pull.author = "owner" /\ pull.signed /\ pull.branch = "renovate/"

\* The reference definition of an open proof: a task that asks itself, or an
\* open one behind a line that asks, with no heading in between and no
\* paragraph once the list under that line has begun (proof.go 19-26).
OpenProof(body) ==
    \/ \E i \in DOMAIN body : body[i] = "asking"
    \/ \E i, a \in DOMAIN body :
          /\ a < i /\ body[i] = "open" /\ body[a] = "ask"
          /\ \A j \in (a + 1)..(i - 1) :
                /\ body[j] \notin {"ask", "heading"}
                /\ body[j] = "text" => \A k \in (a + 1)..(j - 1) :
                       body[k] \notin Tasks \union {"item"}

\* A PR whose body still asks for a proof is never merged, and one that asks
\* for none is never held for it.
ProofsAreGiven ==
    /\ verdict = "merges" => ~OpenProof(pull.body)
    /\ verdict = "unproven" => OpenProof(pull.body)

\* The version changes a bot wrote: those of its rows and of a title that names
\* two versions, or for a synced chart those of its files.
Written(kind, p) ==
    IF kind = "upstream-sync" THEN UNION {Pairs(f) : f \in p.charts.files}
    ELSE p.rows \union IF p.title.says = "versions"
                       THEN {<<p.title.from, p.title.to>>} ELSE {}

\* A title that names the size (lock file, pins, all non-major, "(minor)") or
\* both versions is believed, and the rows are not read.
TitleDecides(kind, p) ==
    kind # "upstream-sync" /\ p.title.says \notin {"plain", "module"}

\* No change a PR carries is larger than the update the policy let merge
\* (kind.go 241-246: "Grouped PRs take the largest change of their rows"), but
\* for the rows of a PR whose title decides.
NoRowOutgrows ==
    verdict = "merges" =>
        LET kind == KindOfPull(pull) IN
        CarriesVersion(kind) =>
            \A pair \in Written(kind, pull) :
                \/ TitleDecides(kind, pull) /\ pair \in pull.rows
                \/ UpdateRank[DiffType(pair[1], pair[2])]
                        <= UpdateRank[UpdateType(kind, pull)]

\* The same without the exception.  It does not hold: what the title says
\* merges, whatever change a row of the body names beside it.
RowsDecide ==
    verdict = "merges" /\ KindOfPull(pull) = "renovate" =>
        \A size \in Sizes(pull.rows) :
            \/ UpdateType("renovate", pull) \in {"lockfile", "pin"}
            \/ UpdateRank[size] <= UpdateRank[UpdateType("renovate", pull)]

\* A PR merges only when every version it names could be read (kind.go
\* 245-246: "Anything that cannot be read is UpdateUnknown, never a guess").
\* It does not hold: unknown ranks lowest among the rows of a group.
UnreadWaits ==
    verdict = "merges" =>
        LET kind == KindOfPull(pull) IN
        CarriesVersion(kind) => Unknown \notin Sizes(Written(kind, pull))

=============================================================================
