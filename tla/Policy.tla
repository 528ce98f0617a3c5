------------------------------- MODULE Policy -------------------------------
(***************************************************************************)
(* The policy a team's repositories are swept under (internal/policy and   *)
(* internal/pr/policy.go): TeamScope reads the repository list, the        *)
(* company defaults and the team's policy file, one request each, layers   *)
(* the documents on the built-in defaults and each repository's exception  *)
(* on the result.  QueryScope reads the company defaults alone.            *)
(*                                                                         *)
(* A field a file may leave out is a set: empty, or the one value written. *)
(***************************************************************************)
EXTENDS Integers, Sequences

CONSTANTS
    Repos,          \* the names a repository list may hold
    Scopes,         \* the scopes asked for: "team", "query"
    Lists,          \* the repository lists a team may have written
    Documents       \* the policy files a team or the company may have written

\* The kinds and update types a file may name (knownKinds, knownUpdateTypes),
\* and the type no file may name.
Kinds == {"renovate", "dependabot", "align-files", "herald", "upstream-sync"}
Types == {"major", "minor", "patch", "digest", "pin", "lockfile", "none"}
Unknown == "unknown"
CarriesVersion(kind) == kind \notin {"align-files", "herald"}

\* The ceilings, the third on the product of the first two.
MaxPerTeam == 20
MaxPerRepo == 5
MaxInFlight == 20

\* A name in a file is any string; these stand for the wrong ones.
Names == Types \union {Unknown}
KindNames == Kinds \union {"npm"}

Optional(field, S) == field \subseteq S /\ \A v, w \in field : v = w
Given(field, otherwise) ==
    IF field = {} THEN otherwise ELSE CHOOSE v \in field : TRUE

\* sound: what else ParseDocument checks of the file (no unknown key, one
\* YAML document, a positive timeout, a template that parses).
Document(doc) ==
    /\ DOMAIN doc.types \subseteq KindNames
    /\ \A k \in DOMAIN doc.types : doc.types[k] \subseteq Names
    /\ Optional(doc.rescue, BOOLEAN) /\ Optional(doc.summary, BOOLEAN)
    /\ Optional(doc.weekly, Int)
    /\ Optional(doc.perTeam, Int) /\ Optional(doc.perRepo, Int)
    /\ doc.sound \in BOOLEAN
Exception(e) ==
    /\ Optional(e.enabled, BOOLEAN) /\ Optional(e.rescue, BOOLEAN)
    /\ Optional(e.types, SUBSET Names)
List(entries) ==
    /\ DOMAIN entries \subseteq Repos
    /\ \A r \in DOMAIN entries :
           /\ entries[r].retired \in BOOLEAN
           /\ \A e, f \in entries[r].exception : e = f
           /\ \A e \in entries[r].exception : Exception(e)

ASSUME FilesAssumption ==
    /\ \A entries \in Lists : List(entries)
    /\ \A doc \in Documents : Document(doc)
    /\ Scopes \subseteq {"team", "query"}

Resolved == [sweep : BOOLEAN, types : [Kinds -> SUBSET Types],
             rescue : BOOLEAN, weekly : Int, perTeam : Int, perRepo : Int,
             summary : BOOLEAN]

CompanyDefaults ==
    [sweep |-> TRUE,
     types |-> [k \in Kinds |->
         CASE k \in {"renovate", "dependabot"} ->
                  {"patch", "minor", "digest", "pin", "lockfile"}
           [] k = "upstream-sync" -> {}
           [] OTHER -> {"none"}],
     rescue |-> FALSE, weekly |-> 5,
     perTeam |-> 5, perRepo |-> 1, summary |-> FALSE]

Eligible(policy, kind, type) == type \in policy.types[kind]
AllowsUpdate(policy, type) == \E k \in Kinds : type \in policy.types[k]

\* ParseDocument: a file that names what is not known, or a value out of its
\* range, is an error as a whole.
Parses(doc) ==
    /\ doc.sound
    /\ DOMAIN doc.types \subseteq Kinds
    /\ \A k \in DOMAIN doc.types : doc.types[k] \subseteq Types
    /\ \A n \in doc.weekly : n >= 0
    /\ \A n \in doc.perTeam : n \in 1..MaxPerTeam
    /\ \A n \in doc.perRepo : n \in 1..MaxPerRepo

\* Exception.resolve, which ParseRepositories asks first and apply again.
ExceptionParses(e) == \A T \in e.types : T \subseteq Types \ {"none"}

\* apply: the lists of the kinds a document names are replaced, the others
\* are left alone.
Layer(policy, doc) ==
    [policy EXCEPT
        !.types = [k \in Kinds |-> IF k \in DOMAIN doc.types
                                   THEN doc.types[k] ELSE @[k]],
        !.rescue = Given(doc.rescue, @), !.weekly = Given(doc.weekly, @),
        !.perTeam = Given(doc.perTeam, @), !.perRepo = Given(doc.perRepo, @),
        !.summary = Given(doc.summary, @)]

\* checkInFlight.
EachInRange(policy) ==          \* mutant: each bound is checked alone
    policy.perTeam <= MaxPerTeam /\ policy.perRepo <= MaxPerRepo
InFlightFits(policy) == policy.perTeam * policy.perRepo <= MaxInFlight

\* Exception.apply refuses what would widen.
Narrows(policy, e) ==
    /\ ExceptionParses(e)
    /\ \A on \in e.rescue : on => policy.rescue
    /\ \A T \in e.types : \A t \in T : AllowsUpdate(policy, t)

Replaced(policy, e) ==            \* mutant: its list replaces the team's
    [policy EXCEPT
        !.sweep = Given(e.enabled, @), !.rescue = Given(e.rescue, @),
        !.types = [k \in Kinds |->
            IF CarriesVersion(k) /\ e.types # {}
            THEN Given(e.types, {}) ELSE @[k]]]
\* Exception.apply: the list meets those of the kinds that name a version.
Narrowed(policy, e) ==
    [policy EXCEPT
        !.sweep = Given(e.enabled, @), !.rescue = Given(e.rescue, @),
        !.types = [k \in Kinds |->
            IF CarriesVersion(k) THEN @[k] \intersect Given(e.types, @[k])
            ELSE @[k]]]

-----------------------------------------------------------------------------
VARIABLES
    scope,          \* what is asked for
    readable,       \* the token may read the repository that holds the files
    step,           \* the file read next, "resolve", "done" or "error"
    list,           \* the repository list as parsed
    base,           \* the policy layered so far
    byRepo          \* the policies of the repositories with an exception

vars == <<scope, readable, step, list, base, byRepo>>

NoEntries == [r \in {} |-> {}]

Init ==
    /\ scope \in Scopes
    /\ readable \in BOOLEAN
    /\ step = IF scope = "team" THEN "list" ELSE "defaults"
    /\ list = NoEntries
    /\ base = CompanyDefaults
    /\ byRepo = NoEntries

Refuse ==
    /\ step' = "error"
    /\ UNCHANGED <<scope, readable, list, base, byRepo>>

\* GitHubSource.Read: 404 both for a file that is not there and for a
\* repository the token cannot read.  Every other failure is an error.
ReadFails == step \in {"list", "defaults", "team"} /\ Refuse

\* TeamScope needs the list, and reads it first.
ListAbsentIgnored ==            \* mutant: a team without a list sweeps on
    /\ step = "list" /\ step' = "defaults"
    /\ UNCHANGED <<scope, readable, list, base, byRepo>>
ListAbsent == step = "list" /\ Refuse

\* ParseRepositories leaves out what is archived or deleted.
InScope(entries) == [r \in {x \in DOMAIN entries : ~entries[x].retired} |->
                         entries[r].exception]

ReadList(entries) ==
    LET kept == InScope(entries) IN
    /\ step = "list" /\ readable
    /\ list' = kept
    /\ step' = IF /\ kept # NoEntries
                  /\ \A r \in DOMAIN kept :
                         \A e \in kept[r] : ExceptionParses(e)
               THEN "defaults" ELSE "error"
    /\ UNCHANGED <<scope, readable, base, byRepo>>

AfterFile == IF step = "defaults" /\ scope = "team" THEN "team" ELSE "resolve"

DocumentAbsent ==
    /\ step \in {"defaults", "team"}
    /\ step' = AfterFile
    /\ UNCHANGED <<scope, readable, list, base, byRepo>>

ReadDocument(doc) ==
    /\ step \in {"defaults", "team"} /\ readable
    /\ IF Parses(doc)
       THEN /\ base' = Layer(base, doc)
            /\ step' = AfterFile
       ELSE step' = "error" /\ UNCHANGED base
    /\ UNCHANGED <<scope, readable, list, byRepo>>

Exceptions == {r \in DOMAIN list : list[r] # {}}

\* NewSet.
Resolve ==
    /\ step = "resolve"
    /\ IF /\ InFlightFits(base)
          /\ \A r \in Exceptions : \A e \in list[r] : Narrows(base, e)
       THEN /\ step' = "done"
            /\ byRepo' = [r \in Exceptions |->
                              Narrowed(base, CHOOSE e \in list[r] : TRUE)]
       ELSE step' = "error" /\ UNCHANGED byRepo
    /\ UNCHANGED <<scope, readable, list, base>>

Done == step \in {"done", "error"} /\ UNCHANGED vars

Next ==
    \/ ReadFails
    \/ ListAbsent
    \/ \E entries \in Lists : ReadList(entries)
    \/ DocumentAbsent
    \/ \E doc \in Documents : ReadDocument(doc)
    \/ Resolve
    \/ Done

Spec == Init /\ [][Next]_vars

\* Set.For: what a repository of the scope is swept under.
For(r) == IF r \in DOMAIN byRepo THEN byRepo[r] ELSE base

-----------------------------------------------------------------------------
TypeOK ==
    /\ scope \in {"team", "query"} /\ readable \in BOOLEAN
    /\ step \in {"list", "defaults", "team", "resolve", "done", "error"}
    /\ DOMAIN list \subseteq Repos
    /\ \A r \in DOMAIN list : \A e \in list[r] : Exception(e)
    /\ base \in Resolved
    /\ DOMAIN byRepo \subseteq DOMAIN list
    /\ \A r \in DOMAIN byRepo : byRepo[r] \in Resolved

\* Whatever the three files say, a repository never merges an update its team
\* does not merge for the same kind of bot, never gets a rescue its team
\* switched off, never more rescues, and no other concurrency: an exception
\* only narrows (resolve.go 153-159).
ExceptionsNarrow ==
    step = "done" => \A r \in DOMAIN byRepo :
        /\ \A k \in Kinds : byRepo[r].types[k] \subseteq base.types[k]
        /\ \A k \in Kinds : ~CarriesVersion(k) =>
               byRepo[r].types[k] = base.types[k]
        /\ byRepo[r].rescue => base.rescue
        /\ byRepo[r].weekly = base.weekly
        /\ byRepo[r].perTeam = base.perTeam /\ byRepo[r].perRepo = base.perRepo

\* No combination of files, each within its own ranges, puts more PRs in
\* flight on one token than the sweep allows, in any repository
\* (document.go 101-114).
InFlightBounded ==
    step = "done" => \A r \in Repos :
        For(r).perTeam * For(r).perRepo \in 1..MaxInFlight

\* A team whose files the token cannot read is an error, never a sweep under
\* the company defaults: its own, stricter file looks absent (load.go
\* 138-141).
NoBlindScope == step = "done" /\ scope = "team" => readable

=============================================================================
