----------------------------- MODULE Catalogue -----------------------------
(***************************************************************************)
(* The rule catalogue (internal/rules): a directory of documents is listed *)
(* and every document read, the ones that do not parse are left out, the   *)
(* others ordered by how much they ask of a PR, and the first that matches *)
(* a classified PR names the remedy.                                       *)
(*                                                                         *)
(* A glob or a pattern is the set of names or texts it matches; a part a   *)
(* document may leave out is a set, empty or of one element.               *)
(***************************************************************************)
EXTENDS Integers, Sequences, FiniteSets

CONSTANTS
    Directories,    \* the sets of documents a rules directory may hold
    Subjects        \* the classified PRs

(* A document is [file, name, sound, states, kinds, check, log, pr,         *)
(* missing, refuse].  sound: what else validate asks of it: the schema, a   *)
(* summary, a source, a reason, a known action, patterns that compile and   *)
(* no glob of stars.  check is [glob, pending, output], log [sources,       *)
(* texts], pr [baseHead, titles, files], missing the globs of the           *)
(* protection signal, which are alternatives: {} where there is none.       *)
(* Names are numbers, in the order of their strings.                        *)
(* A subject is [state, kind, title, failing, pending, base, missing,       *)
(* files, logs]: failing and pending sequences, in the order the checks     *)
(* were found, base and logs functions of what could be read.               *)

\* What a document may hold: each part once, and finitely many of the others.
AtMostOne(S) == \A x, y \in S : x = y
RuleDocument(d) ==
    /\ AtMostOne(d.check) /\ AtMostOne(d.log) /\ AtMostOne(d.pr)
    /\ \A c \in d.check : AtMostOne(c.output)
    /\ \A p \in d.pr : AtMostOne(p.titles) /\ IsFiniteSet(p.files)
    /\ \A S \in {d.states, d.kinds, d.missing} : IsFiniteSet(S)

ASSUME DirectoriesAssumption == \A D \in Directories : \A d \in D : RuleDocument(d)

VARIABLES
    files,          \* the documents of the directory
    loaded,         \* "no", "yes", or "error": the sweep has no catalogue
    ruleset,        \* the rules in use
    subject, hit    \* the PR matched last, and what matched: {} for nothing

ruleVars == <<files, loaded, ruleset, subject, hit>>

-----------------------------------------------------------------------------
remediableStates ==
    {"failed", "stale", "conflict", "cancelled", "no-verdict", "blocked-ci",
     "obsolete", "waiting-checks", "awaiting-approval", "held"}
trustedKinds ==
    {"renovate", "align-files", "herald", "dependabot", "upstream-sync"}
refusals == {"log-matched", "required-checks-green", "no-security-failure",
             "no-generated-edit", "once-per-change"}

\* The output of a check is read by a pending signal alone, and a pending
\* signal reads nothing a finished check has.
CheckSound(d) == \A c \in d.check :
    c.pending => /\ c.output # {}
                 /\ d.log = {}
                 /\ \A p \in d.pr : p.baseHead = ""

\* hasStateSignal and validateSignalStrength.
HasStateSignal(d) ==
    \/ d.missing # {}
    \/ \E c \in d.check : c.output # {}
    \/ \E p \in d.pr : p.baseHead # "" \/ p.files # {}

\* Parse.
RuleParses(d) ==
    /\ d.sound /\ d.name = d.file[1]
    /\ d.check # {} \/ d.log # {} \/ d.pr # {} \/ d.missing # {}
    /\ d.states \subseteq remediableStates
    /\ d.kinds \subseteq trustedKinds
    /\ CheckSound(d)
    /\ \A p \in d.pr : p.baseHead # "" \/ p.titles # {} \/ p.files # {}
    /\ d.refuse \subseteq refusals
    /\ "log-matched" \in d.refuse => d.log # {}
    /\ d.log # {} \/ HasStateSignal(d)

\* specificity: what a rule asks, each signal by its weight.
Unweighted(d) == 0              \* mutant: the rules are tried by name
Specificity(d) ==
    Cardinality(d.states) + Cardinality(d.kinds)
    + 2 * Cardinality(d.check)
    + 4 * Cardinality({c \in d.check : c.output # {}})
    + 4 * Cardinality(d.log) + (IF d.missing = {} THEN 0 ELSE 2)
    + Cardinality({p \in d.pr : p.baseHead # ""})
    + Cardinality({p \in d.pr : p.titles # {}})
    + Cardinality(UNION {p.files : p \in d.pr})

\* The order of Load: the most specific first, then by name.
Before(d, e) ==
    \/ Specificity(d) > Specificity(e)
    \/ Specificity(d) = Specificity(e) /\ d.name < e.name

-----------------------------------------------------------------------------
Elements(seq) == {seq[i] : i \in DOMAIN seq}

MatchPRMetadata(d, s) == \A p \in d.pr :
    /\ \A T \in p.titles : s.title \in T
    /\ \A glob \in p.files : glob \intersect s.files # {}

Selected(d, s) == s.missing \intersect UNION d.missing
MatchProtection(d, s) == d.missing # {} => Selected(d, s) # {}

\* The failing checks the check signal selects, by their position.
Candidates(d, s) ==
    {i \in DOMAIN s.failing : \A c \in d.check : s.failing[i] \in c.glob}

BaseOf(s, name) == IF name \in DOMAIN s.base THEN s.base[name] ELSE "absent"

OneInBaseState(d, s) ==         \* mutant: one check speaks for all of them
    \A p \in d.pr : p.baseHead # "" =>
        \E i \in Candidates(d, s) : BaseOf(s, s.failing[i]) = p.baseHead
AllInBaseState(d, s) ==
    \A p \in d.pr : p.baseHead # "" =>
        /\ Candidates(d, s) # {}
        /\ \A i \in Candidates(d, s) : BaseOf(s, s.failing[i]) = p.baseHead

\* The commands a check's message names, of those the pattern captures.
Captured(c, pending) == pending.output \intersect UNION c.output

\* matchPending: the first unfinished check with something to say.
Speaks(d, pending) == \A c \in d.check :
    pending.name \in c.glob /\ Captured(c, pending) # {}
PendingHits(d, s) ==
    {[rule |-> d, check |-> s.pending[i].name, log |-> FALSE,
      missing |-> Selected(d, s),
      commands |-> UNION {Captured(c, s.pending[i]) : c \in d.check}] :
        i \in {j \in DOMAIN s.pending :
                  /\ Speaks(d, s.pending[j])
                  /\ \A k \in 1..(j - 1) : ~Speaks(d, s.pending[k])}}

\* matchLog: the first candidate a readable log of which carries the signal.
InLog(d, s, name) == \E l \in d.log : \E source \in l.sources :
    <<source, name>> \in DOMAIN s.logs /\ s.logs[<<source, name>>] \in l.texts
Reads(d, s, name) == d.log # {} => InLog(d, s, name)

FailingHits(d, s) ==
    LET on(check) == [rule |-> d, check |-> check, log |-> d.log # {},
                      missing |-> Selected(d, s), commands |-> {}]
        carry == {i \in Candidates(d, s) : Reads(d, s, s.failing[i])}
    IN  {on(s.failing[i]) : i \in {j \in carry : \A k \in carry : j <= k}}
        \union
        (IF Candidates(d, s) = {} /\ d.log = {} /\ d.check = {}
         THEN {on("")} ELSE {})

\* Rule.match.
Hits(d, s) ==
    IF /\ d.states # {} => s.state \in d.states
       /\ d.kinds # {} => s.kind \in d.kinds
       /\ MatchPRMetadata(d, s) /\ MatchProtection(d, s)
    THEN IF \E c \in d.check : c.pending THEN PendingHits(d, s)
         ELSE IF AllInBaseState(d, s) THEN FailingHits(d, s) ELSE {}
    ELSE {}

\* Catalogue.Match.
Hit(S, s) ==
    LET matching == {d \in S : Hits(d, s) # {}} IN
    UNION {Hits(d, s) : d \in {e \in matching :
               \A other \in matching \ {e} : Before(e, other)}}

-----------------------------------------------------------------------------
NoSubject == [state |-> "none"]

RRest ==
    /\ loaded = "no" /\ ruleset = {}
    /\ subject = NoSubject /\ hit = {}
RInit == files \in Directories /\ RRest

\* The directory cannot be listed, or one of its documents cannot be read.
LoadFails ==
    /\ loaded = "no" /\ loaded' = "error"
    /\ UNCHANGED <<files, ruleset, subject, hit>>

\* Load, after its reads: a document that does not parse is left out, two
\* rules of one name are refused.
Load ==
    LET parsed == {d \in files : RuleParses(d)} IN
    /\ loaded = "no"
    /\ IF \E d, e \in parsed : d # e /\ d.name = e.name
       THEN loaded' = "error" /\ UNCHANGED ruleset
       ELSE loaded' = "yes" /\ ruleset' = parsed
    /\ UNCHANGED <<files, subject, hit>>

\* Only: the other rules leave the contest.
Only(d) ==
    /\ loaded = "yes" /\ d \in ruleset /\ subject = NoSubject
    /\ ruleset' = {d}
    /\ UNCHANGED <<files, loaded, subject, hit>>

\* applyRule, up to the action: no rule acts on a state that is no remediable
\* one, though a rule without states would match it.
MatchSubject(s) ==
    /\ loaded = "yes" /\ subject = NoSubject
    /\ s.state \in remediableStates
    /\ subject' = s
    /\ hit' = Hit(ruleset, s)
    /\ UNCHANGED <<files, loaded, ruleset>>

Matched ==
    /\ loaded = "error" \/ subject # NoSubject
    /\ UNCHANGED ruleVars

RNext ==
    \/ LoadFails
    \/ Load
    \/ \E d \in ruleset : Only(d)
    \/ \E s \in Subjects : MatchSubject(s)
    \/ Matched

-----------------------------------------------------------------------------
\* What a hit rests on: a log that carries the failure, what the base head
\* reported for every check the rule selects, a file of the diff, a required
\* context nobody reported, or what an unfinished check says.
Evidence(h, s) ==
    LET d == h.rule IN
    \/ h.log /\ InLog(d, s, h.check)
    \/ \E p \in d.pr :
          /\ p.baseHead # ""
          /\ \A n \in Elements(s.failing) :
                (\A c \in d.check : n \in c.glob) => BaseOf(s, n) = p.baseHead
    \/ \E p \in d.pr : \E glob \in p.files : glob \intersect s.files # {}
    \/ h.missing # {} /\ h.missing \subseteq s.missing
    \/ h.commands # {}

\* No rule acts on a check name or a title alone (parse.go 239-248), but for
\* one that carries an output pattern nothing reads.
Diagnosed ==
    \A h \in hit : Evidence(h, subject) \/ \E c \in h.rule.check : c.output # {}

\* A rule that asks everything another asks, and more, is tried before it
\* (load.go 53-56), as far as its signals go.  The globs of the protection
\* signal are one thing asked: one more of them asks less, not more.
Asks(d) ==
    ({"check"} \X {c.glob : c \in d.check}) \union ({"log"} \X d.log)
    \union ({"says"} \X {c.output : c \in {x \in d.check : x.output # {}}})
    \union ({"base"} \X {p.baseHead : p \in {q \in d.pr : q.baseHead # ""}})
    \union ({"title"} \X {p.titles : p \in {q \in d.pr : q.titles # {}}})
    \union ({"file"} \X UNION {p.files : p \in d.pr})
    \union ({"missing"} \X ({d.missing} \ {{}}))
Narrower(d, e) == Asks(e) \subseteq Asks(d) /\ Asks(e) # Asks(d)
NarrowFirst ==
    \A h \in hit, d \in ruleset :
        /\ Narrower(d, h.rule)
        /\ d.states = h.rule.states /\ d.kinds = h.rule.kinds
        => Hits(d, subject) = {}

\* "A narrow rule is never shadowed by a broad one that happens to sort
\* earlier" (load.go 53-56).  It does not hold: a rule that names more states
\* or kinds applies to more PRs, and scores higher.
NarrowNeverShadowed ==
    \A h \in hit, d \in ruleset :
        /\ Asks(d) = Asks(h.rule) /\ d.kinds = h.rule.kinds
        /\ d.states # h.rule.states /\ d.states # {}
        /\ d.states \subseteq h.rule.states
        => Hits(d, subject) = {}

\* "A check name or a title is not a diagnosis" (parse.go 253).  It does not
\* hold: an output pattern counts as evidence, and a signal that does not say
\* pending never reads it.
NameAloneNeverActs == \A h \in hit : Evidence(h, subject)

=============================================================================
