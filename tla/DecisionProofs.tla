--------------------------- MODULE DecisionProofs ---------------------------
(***************************************************************************)
(* What holds of every decision of a sweep, whatever the files, the PRs,   *)
(* the checks and the rules are: a resolved policy is one and only         *)
(* narrowed, a PR that merges is a bot's, within its update and proven; a  *)
(* red check passes only with an excuse and a green head passes; a rule    *)
(* acts on evidence, and the one that asks more goes first.  Each part has *)
(* an inductive invariant of its own, and DSpec keeps the three.           *)
(***************************************************************************)
EXTENDS Decisions, Induction

-----------------------------------------------------------------------------
(* An optional field.                                                      *)

\* What a field says, or what was said before, is of the field's type.
LEMMA GivenType ==
    ASSUME NEW S, NEW field, field \subseteq S, NEW o \in S
    PROVE  Given(field, o) \in S
BY DEF Given

\* A field that says a value of its own says one of those written.
LEMMA GivenChosen ==
    ASSUME NEW field, NEW o
    PROVE  Given(field, o) = o \/ Given(field, o) \in field
BY DEF Given

-----------------------------------------------------------------------------
(* Layering (apply) and narrowing (Exception.apply).                       *)

\* The bounds on one side: each in its own range.
InRange(policy) ==
    policy.perTeam \in 1..MaxPerTeam /\ policy.perRepo \in 1..MaxPerRepo

\* The built-in defaults are a policy in range.
LEMMA DefaultsResolved ==
    CompanyDefaults \in Resolved /\ InRange(CompanyDefaults)
<1> DEFINE types == CompanyDefaults.types
<1>1. types \in [Kinds -> SUBSET Types]
  BY DEF CompanyDefaults, Kinds, Types
<1> QED
  BY <1>1 DEF CompanyDefaults, Resolved, InRange, MaxPerTeam, MaxPerRepo

\* A document that parses makes a policy in range another one.
LEMMA LayerResolved ==
    ASSUME NEW policy \in Resolved, InRange(policy),
           NEW doc, Document(doc), Parses(doc)
    PROVE  Layer(policy, doc) \in Resolved /\ InRange(Layer(policy, doc))
<1> DEFINE types == [k \in Kinds |-> IF k \in DOMAIN doc.types
                                     THEN doc.types[k] ELSE policy.types[k]]
<1>1. types \in [Kinds -> SUBSET Types]
  BY DEF Resolved, Parses
<1>2. Given(doc.rescue, policy.rescue) \in BOOLEAN
  BY GivenType DEF Resolved, Document, Optional
<1>3. Given(doc.summary, policy.summary) \in BOOLEAN
  BY GivenType DEF Resolved, Document, Optional
<1>4. Given(doc.weekly, policy.weekly) \in Int
  BY GivenType DEF Resolved, Document, Optional
<1>5. Given(doc.perTeam, policy.perTeam) \in 1..MaxPerTeam
  <2>1. doc.perTeam \subseteq 1..MaxPerTeam
    BY DEF Parses
  <2> QED
    BY <2>1, GivenType DEF InRange
<1>6. Given(doc.perRepo, policy.perRepo) \in 1..MaxPerRepo
  <2>1. doc.perRepo \subseteq 1..MaxPerRepo
    BY DEF Parses
  <2> QED
    BY <2>1, GivenType DEF InRange
<1>7. Layer(policy, doc) =
        [policy EXCEPT
            !.types = types,
            !.rescue = Given(doc.rescue, policy.rescue),
            !.weekly = Given(doc.weekly, policy.weekly),
            !.perTeam = Given(doc.perTeam, policy.perTeam),
            !.perRepo = Given(doc.perRepo, policy.perRepo),
            !.summary = Given(doc.summary, policy.summary)]
  BY DEF Layer, Resolved
<1> HIDE DEF types
<1>8. 1..MaxPerTeam \subseteq Int /\ 1..MaxPerRepo \subseteq Int
  BY DEF MaxPerTeam, MaxPerRepo
<1> QED
  BY <1>1, <1>2, <1>3, <1>4, <1>5, <1>6, <1>7, <1>8 DEF Resolved, InRange

\* What an exception leaves of a policy: fewer updates for every kind, those
\* of the kinds without a version untouched, no rescue that was off, and the
\* counts of the team.
Within(narrow, policy) ==
    /\ \A k \in Kinds : narrow.types[k] \subseteq policy.types[k]
    /\ \A k \in Kinds : ~CarriesVersion(k) => narrow.types[k] = policy.types[k]
    /\ narrow.rescue => policy.rescue
    /\ narrow.weekly = policy.weekly
    /\ narrow.perTeam = policy.perTeam /\ narrow.perRepo = policy.perRepo

LEMMA NarrowedWithin ==
    ASSUME NEW policy \in Resolved, NEW e, Exception(e), Narrows(policy, e)
    PROVE  /\ Narrowed(policy, e) \in Resolved
           /\ Within(Narrowed(policy, e), policy)
<1> DEFINE types == [k \in Kinds |->
        IF CarriesVersion(k)
        THEN policy.types[k] \intersect Given(e.types, policy.types[k])
        ELSE policy.types[k]]
<1>1. types \in [Kinds -> SUBSET Types]
  BY DEF Resolved
<1>2. \A k \in Kinds : /\ types[k] \subseteq policy.types[k]
                       /\ ~CarriesVersion(k) => types[k] = policy.types[k]
  OBVIOUS
<1>3. Given(e.enabled, policy.sweep) \in BOOLEAN
  BY GivenType DEF Resolved, Exception, Optional
<1>4. Given(e.rescue, policy.rescue) \in BOOLEAN
  BY GivenType DEF Resolved, Exception, Optional
<1>5. Given(e.rescue, policy.rescue) => policy.rescue
  BY GivenChosen DEF Narrows
<1>6. Narrowed(policy, e) =
        [policy EXCEPT !.sweep = Given(e.enabled, policy.sweep),
                       !.rescue = Given(e.rescue, policy.rescue),
                       !.types = types]
  BY DEF Narrowed, Resolved
<1> HIDE DEF types
<1> QED
  BY <1>1, <1>2, <1>3, <1>4, <1>5, <1>6 DEF Resolved, Within

-----------------------------------------------------------------------------
(* The invariant: the policy layered so far is one and in range, a team's  *)
(* list was read by whoever can read its files, no repository has a policy *)
(* before the scope is done, and one that is done fits the ceiling and     *)
(* holds nothing wider than its base.                                      *)
PolicyInv ==
    /\ TypeOK
    /\ InRange(base)
    /\ scope = "team" => step \in {"list", "error"} \/ readable
    /\ step # "done" => byRepo = NoEntries
    /\ step = "done" => /\ InFlightFits(base)
                        /\ \A r \in DOMAIN byRepo : Within(byRepo[r], base)

LEMMA InitInv == Init => PolicyInv
<1> SUFFICES ASSUME Init PROVE PolicyInv
  OBVIOUS
<1>1. scope \in {"team", "query"}
  BY FilesAssumption DEF Init
<1>2. TypeOK
  BY <1>1, DefaultsResolved DEF Init, TypeOK, NoEntries
<1> QED
  BY <1>1, <1>2, DefaultsResolved DEF Init, PolicyInv

LEMMA ReadListInv ==
    ASSUME PolicyInv, NEW entries \in Lists, ReadList(entries)
    PROVE  PolicyInv'
<1>1. /\ DOMAIN list' \subseteq Repos
      /\ \A r \in DOMAIN list' : \A e \in list'[r] : Exception(e)
  BY FilesAssumption DEF ReadList, InScope, List
<1>2. step = "list" /\ step' \in {"defaults", "error"} /\ readable
  BY DEF ReadList
<1>3. byRepo' = NoEntries /\ DOMAIN byRepo' = {}
  BY <1>2 DEF ReadList, PolicyInv, NoEntries
<1>4. /\ base \in Resolved /\ base' = base
      /\ scope' = scope /\ readable' = readable
  BY DEF ReadList, PolicyInv, TypeOK
<1>5. TypeOK'
  BY <1>1, <1>2, <1>3, <1>4 DEF PolicyInv, TypeOK
<1> QED
  BY <1>2, <1>3, <1>4, <1>5 DEF PolicyInv, InRange

LEMMA ReadDocumentInv ==
    ASSUME PolicyInv, NEW doc \in Documents, ReadDocument(doc)
    PROVE  PolicyInv'
<1>1. base' \in Resolved /\ InRange(base')
  <2>1. base \in Resolved /\ InRange(base) /\ Document(doc)
    BY FilesAssumption DEF PolicyInv, TypeOK
  <2>2. CASE Parses(doc)
    <3>1. base' = Layer(base, doc)
      BY <2>2 DEF ReadDocument
    <3> QED
      BY <2>1, <2>2, <3>1, LayerResolved
  <2>3. CASE ~Parses(doc)
    <3>1. base' = base
      BY <2>3 DEF ReadDocument
    <3> QED
      BY <2>1, <3>1
  <2> QED
    BY <2>2, <2>3
<1>2. step' \in {"team", "resolve", "error"} /\ step # "done" /\ readable
  BY DEF ReadDocument, AfterFile
<1>3. UNCHANGED <<scope, readable, list, byRepo>>
  BY DEF ReadDocument
<1>4. byRepo' = NoEntries
  BY <1>2, <1>3 DEF PolicyInv
<1>5. TypeOK'
  BY <1>1, <1>2, <1>3, <1>4 DEF PolicyInv, TypeOK
<1> QED
  BY <1>1, <1>2, <1>3, <1>4, <1>5 DEF PolicyInv, InRange

\* A step of the reading that changes neither the list nor the policy.
LEMMA StepInv ==
    ASSUME PolicyInv, UNCHANGED <<scope, readable, list, base, byRepo>>,
           step # "done",
           \/ step' = "error"
           \/ step \in {"defaults", "team"} /\ step' \in {"team", "resolve"}
    PROVE  PolicyInv'
<1>1. TypeOK'
  BY DEF PolicyInv, TypeOK
<1> QED
  BY <1>1 DEF PolicyInv, InRange

\* NewSet: every exception is asked before any policy is kept.
LEMMA ResolveInv == ASSUME PolicyInv, Resolve PROVE PolicyInv'
<1> DEFINE fits == /\ InFlightFits(base)
                   /\ \A r \in Exceptions : \A e \in list[r] : Narrows(base, e)
<1>1. CASE ~fits
  <2>1. step = "resolve" /\ step' = "error"
        /\ UNCHANGED <<scope, readable, list, base, byRepo>>
    BY <1>1 DEF Resolve
  <2> QED
    BY <2>1, StepInv
<1>2. CASE fits
  <2>1. /\ step = "resolve" /\ step' = "done"
        /\ UNCHANGED <<scope, readable, list, base>>
        /\ byRepo' = [r \in Exceptions |->
                          Narrowed(base, CHOOSE e \in list[r] : TRUE)]
    BY <1>2 DEF Resolve
  <2>2. ASSUME NEW r \in Exceptions
        PROVE  byRepo'[r] \in Resolved /\ Within(byRepo'[r], base)
    <3> DEFINE e == CHOOSE e \in list[r] : TRUE
    <3>1. e \in list[r] /\ r \in DOMAIN list
      BY DEF Exceptions
    <3>2. Exception(e) /\ Narrows(base, e) /\ base \in Resolved
      BY <1>2, <3>1 DEF PolicyInv, TypeOK
    <3>3. byRepo'[r] = Narrowed(base, e)
      BY <2>1
    <3> HIDE DEF e
    <3> QED
      BY <3>2, <3>3, NarrowedWithin
  <2>3. DOMAIN byRepo' = Exceptions /\ Exceptions \subseteq DOMAIN list
    BY <2>1 DEF Exceptions
  <2>4. TypeOK'
    BY <2>1, <2>2, <2>3 DEF PolicyInv, TypeOK
  <2>5. scope' = "team" => readable'
    BY <2>1 DEF PolicyInv
  <2>6. \A r \in DOMAIN byRepo' : Within(byRepo'[r], base')
    BY <2>1, <2>2, <2>3
  <2>7. InFlightFits(base') /\ InRange(base')
    BY <1>2, <2>1 DEF PolicyInv
  <2> QED
    BY <2>1, <2>4, <2>5, <2>6, <2>7 DEF PolicyInv
<1> QED
  BY <1>1, <1>2

LEMMA NextInv == PolicyInv /\ [Next]_vars => PolicyInv'
<1> SUFFICES ASSUME PolicyInv, [Next]_vars PROVE PolicyInv'
  OBVIOUS
<1>1. CASE ReadFails \/ ListAbsent
  BY <1>1, StepInv DEF ReadFails, ListAbsent, Refuse
<1>2. ASSUME NEW entries \in Lists, ReadList(entries) PROVE PolicyInv'
  BY <1>2, ReadListInv
<1>3. CASE DocumentAbsent
  BY <1>3, StepInv DEF DocumentAbsent, AfterFile
<1>4. ASSUME NEW doc \in Documents, ReadDocument(doc) PROVE PolicyInv'
  BY <1>4, ReadDocumentInv
<1>5. CASE Resolve
  BY <1>5, ResolveInv
<1>6. CASE Done \/ UNCHANGED vars
  <2>1. UNCHANGED vars
    BY <1>6 DEF Done
  <2>2. TypeOK'
    BY <2>1 DEF vars, PolicyInv, TypeOK
  <2> QED
    BY <2>1, <2>2 DEF vars, PolicyInv, InRange
<1> QED
  BY <1>1, <1>2, <1>3, <1>4, <1>5, <1>6 DEF Next

LEMMA Invariant == Spec => []PolicyInv
  BY InitInv, NextInv, PTL DEF Spec

-----------------------------------------------------------------------------
\* Whatever the files say, what is layered and kept are policies: every kind
\* has a set of known update types (internal/policy, resolve.go).
THEOREM PolicyTyped == Spec => []TypeOK
<1>1. PolicyInv => TypeOK
  BY DEF PolicyInv
<1> QED
  BY Invariant, <1>1, PTL

\* An exception of the repository list only narrows (Exception.apply).
THEOREM OnlyNarrower == Spec => []ExceptionsNarrow
<1>1. PolicyInv => ExceptionsNarrow
  BY DEF PolicyInv, ExceptionsNarrow, Within
<1> QED
  BY Invariant, <1>1, PTL

\* No team is swept under the company defaults because its files could not be
\* read (TeamScope).
THEOREM SeenScope == Spec => []NoBlindScope
<1>1. PolicyInv => NoBlindScope
  BY DEF PolicyInv, NoBlindScope
<1> QED
  BY Invariant, <1>1, PTL

\* No combination of files puts more PRs in flight than the ceiling
\* (checkInFlight).
THEOREM NeverTooMany == Spec => []InFlightBounded
<1>1. PolicyInv => InFlightBounded
  <2> SUFFICES ASSUME PolicyInv, step = "done", NEW r \in Repos
               PROVE  For(r).perTeam * For(r).perRepo \in 1..MaxInFlight
    BY DEF InFlightBounded
  <2>1. For(r).perTeam = base.perTeam /\ For(r).perRepo = base.perRepo
    BY DEF For, PolicyInv, Within
  <2>2. base.perTeam \in 1..20 /\ base.perRepo \in 1..5
    BY DEF PolicyInv, InRange, MaxPerTeam, MaxPerRepo
  <2>3. base.perTeam * base.perRepo <= 20
    BY DEF PolicyInv, InFlightFits, MaxInFlight
  <2>4. ASSUME NEW a \in 1..20, NEW b \in 1..5, a * b <= 20
        PROVE  a * b \in 1..20
    <3>1. CASE b = 1
      BY <2>4, <3>1
    <3>2. CASE b = 2
      BY <2>4, <3>2
    <3>3. CASE b = 3
      BY <2>4, <3>3
    <3>4. CASE b = 4
      BY <2>4, <3>4
    <3>5. CASE b = 5
      BY <2>4, <3>5
    <3> QED
      BY <3>1, <3>2, <3>3, <3>4, <3>5
  <2> QED
    BY <2>1, <2>2, <2>3, <2>4 DEF MaxInFlight
<1> QED
  BY Invariant, <1>1, PTL

-----------------------------------------------------------------------------
(* Eligibility.  The scan of a body is one step per line.                   *)
ScanStates == [found : BOOLEAN, inSection : BOOLEAN, listStarted : BOOLEAN]

LEMMA ScannedType ==
    ASSUME NEW s \in ScanStates, NEW line \in Lines
    PROVE  Scanned(s, line) \in ScanStates
BY DEF ScanStates, Scanned, EndsSection, Lines, Tasks

LEMMA ScanSteps ==
    ASSUME NEW body \in Seq(Lines)
    PROVE  /\ ProofScan(body) \in [0..Len(body) -> ScanStates]
           /\ ProofScan(body)[0] = NothingSeen
           /\ \A i \in 1..Len(body) :
                 ProofScan(body)[i] = Scanned(ProofScan(body)[i - 1], body[i])
<1> DEFINE n == Len(body)
           go == [x \in ScanStates \X (1..n) |-> Scanned(x[1], body[x[2]])]
           Recursive(f) == f = [i \in 0..n |->
                                  IF i = 0 THEN NothingSeen
                                  ELSE Scanned(f[i - 1], body[i])]
<1>1. n \in Nat /\ \A i \in 1..n : body[i] \in Lines
  OBVIOUS
<1>2. NothingSeen \in ScanStates
  BY DEF NothingSeen, ScanStates
<1>3. ASSUME NEW s \in ScanStates, NEW i \in 1..n
      PROVE  go[<<s, i>>] = Scanned(s, body[i]) /\ go[<<s, i>>] \in ScanStates
  <2>1. go[<<s, i>>] = Scanned(s, body[i])
    <3> HIDE DEF n
    <3> QED
      OBVIOUS
  <2> QED
    BY <1>1, <2>1, ScannedType
<1>4. PICK f \in [0..n -> ScanStates] :
         f[0] = NothingSeen /\ \A i \in 1..n : f[i] = go[<<f[i - 1], i>>]
  <2>1. go \in [ScanStates \X (1..n) -> ScanStates]
    <3>1. \A x \in ScanStates \X (1..n) :
              x[1] \in ScanStates /\ body[x[2]] \in Lines
      BY <1>1
    <3> HIDE DEF n
    <3> QED
      BY <3>1, ScannedType
  <2>2. Iterations(n, ScanStates, NothingSeen, go) # {}
    <3> HIDE DEF go, n
    <3> QED
      BY <1>1, <1>2, <2>1, Iterates
  <2> QED
    BY <2>2 DEF Iterations
<1>5. \A i \in 1..n : f[i] = Scanned(f[i - 1], body[i])
  <2> TAKE i \in 1..n
  <2>1. i - 1 \in 0..n
    BY <1>1
  <2>2. f[i - 1] \in ScanStates
    BY <2>1
  <2> HIDE DEF go, n
  <2> QED
    BY <1>3, <1>4, <2>2
<1>6. Recursive(f)
  <2>1. \A i \in 0..n : i = 0 \/ i \in 1..n
    BY <1>1
  <2> HIDE DEF n, go
  <2>2. f = [i \in 0..n |-> f[i]]
    OBVIOUS
  <2> QED
    BY <1>4, <1>5, <2>1, <2>2
<1>7. Recursive(ProofScan(body))
  <2>1. ProofScan(body) = CHOOSE g : Recursive(g)
    BY DEF ProofScan
  <2> HIDE DEF Recursive
  <2> QED
    BY <1>6, <2>1
<1>8. ASSUME NEW g, Recursive(g)
      PROVE  /\ g[0] = NothingSeen
             /\ \A i \in 1..n : g[i] = Scanned(g[i - 1], body[i])
  <2>1. \A i \in 1..n : i \in 0..n /\ i # 0
    BY <1>1
  <2>2. 0 \in 0..n
    BY <1>1
  <2> HIDE DEF n
  <2> QED
    BY <1>8, <2>1, <2>2
<1> DEFINE g == ProofScan(body)
<1>9. /\ g[0] = NothingSeen /\ DOMAIN g = 0..n
      /\ \A i \in 1..n : g[i] = Scanned(g[i - 1], body[i])
  <2>1. DOMAIN g = 0..n
    BY <1>7
  <2> HIDE DEF Recursive
  <2> QED
    BY <1>7, <1>8, <2>1, Zenon
<1>10. \A i \in 0..n : i \in {k \in 0..n : g[k] \in ScanStates}
  <2> DEFINE S == {k \in 0..n : g[k] \in ScanStates}
  <2>1. 0 \in S
    BY <1>1, <1>2, <1>9
  <2>2. ASSUME NEW i \in 1..n, i - 1 \in S PROVE i \in S
    <3>1. i \in 0..n /\ g[i - 1] \in ScanStates
      BY <1>1, <2>2
    <3> QED
      BY <1>1, <1>9, <3>1, ScannedType
  <2>3. \A i \in 1..n : i - 1 \in S => i \in S
    BY <2>2
  <2>4. n \in Nat
    BY <1>1
  <2>5. \A i \in 0..n : i \in S
    <3> HIDE DEF S, n, g
    <3> QED
      BY <2>1, <2>3, <2>4, UpTo
  <2> QED
    BY <2>5
<1>11. g \in [0..n -> ScanStates]
  <2>1. g = [i \in 0..n |-> g[i]]
    BY <1>7
  <2> HIDE DEF g, n
  <2> QED
    BY <1>10, <2>1
<1> QED
  BY <1>9, <1>11

\* The line i asks for a proof, and the section of the line a is still open
\* behind the line i.
InSection(body, a, i) ==
    /\ a \in 1..i /\ body[a] = "ask"
    /\ \A j \in (a + 1)..i :
          /\ body[j] \notin {"ask", "heading"}
          /\ body[j] = "text" => \A k \in (a + 1)..(j - 1) :
                 body[k] \notin Tasks \union {"item"}
ListBegun(body, a, i) ==
    \E k \in (a + 1)..i : body[k] \in Tasks \union {"item"}
OpenAt(body, i) ==
    \/ body[i] = "asking"
    \/ body[i] = "open" /\ \E a \in 1..(i - 1) : InSection(body, a, i - 1)

\* What the scan knows behind the line i.
Knows(body, i, s) ==
    /\ s.found <=> \E k \in 1..i : OpenAt(body, k)
    /\ ~s.found =>
          /\ s.inSection <=> \E a \in 1..i : InSection(body, a, i)
          /\ \A a \in 1..i : InSection(body, a, i) =>
                (s.listStarted <=> ListBegun(body, a, i))

LEMMA SectionStep ==
    ASSUME NEW body \in Seq(Lines), NEW i \in 1..Len(body)
    PROVE  \A a \in 1..i :
              /\ a = i => (InSection(body, a, i) <=> body[i] = "ask")
              /\ a # i =>
                   /\ InSection(body, a, i) <=>
                        /\ InSection(body, a, i - 1)
                        /\ body[i] \notin {"ask", "heading"}
                        /\ body[i] = "text" => ~ListBegun(body, a, i - 1)
                   /\ ListBegun(body, a, i) <=>
                        \/ ListBegun(body, a, i - 1)
                        \/ body[i] \in Tasks \union {"item"}
<1> TAKE a \in 1..i
<1>1. i \in Nat /\ a \in Nat /\ 1 <= a /\ a <= i
  OBVIOUS
<1> HIDE DEF Tasks
<1>2. CASE a = i
  <2>1. (a + 1)..i = {}
    BY <1>1, <1>2
  <2> QED
    BY <1>2, <2>1 DEF InSection
<1>3. CASE a # i
  <2>1. /\ a \in 1..(i - 1)
        /\ \A j : j \in (a + 1)..i <=> j = i \/ j \in (a + 1)..(i - 1)
    BY <1>1, <1>3
  <2> QED
    BY <1>3, <2>1 DEF InSection, ListBegun
<1> QED
  BY <1>2, <1>3

LEMMA KnowsStep ==
    ASSUME NEW body \in Seq(Lines), NEW i \in 1..Len(body),
           NEW s \in ScanStates, Knows(body, i - 1, s)
    PROVE  Knows(body, i, Scanned(s, body[i]))
<1> DEFINE line == body[i]
           t == Scanned(s, line)
           In(a) == InSection(body, a, i - 1)
           Begun(a) == ListBegun(body, a, i - 1)
<1>1. i \in Nat /\ i - 1 \in Nat /\ line \in Lines
  OBVIOUS
<1>2. \A k : k \in 1..i <=> k = i \/ k \in 1..(i - 1)
  BY <1>1
<1>3. /\ s.found \in BOOLEAN /\ s.inSection \in BOOLEAN
      /\ s.listStarted \in BOOLEAN /\ ~(i \in 1..(i - 1))
  BY <1>1 DEF ScanStates
<1>4. CASE s.found
  <2>1. t = s
    BY <1>4 DEF Scanned
  <2> QED
    BY <1>2, <1>4, <2>1 DEF Knows
<1>5. CASE ~s.found
  <2>1. s.inSection <=> \E a \in 1..(i - 1) : In(a)
    BY <1>5 DEF Knows
  <2>2. \A a \in 1..(i - 1) : In(a) => (s.listStarted <=> Begun(a))
    BY <1>5 DEF Knows
  <2>3. ~\E k \in 1..(i - 1) : OpenAt(body, k)
    BY <1>5 DEF Knows
  <2>4. \A a \in 1..i :
           InSection(body, a, i) <=>
              IF a = i THEN line = "ask"
              ELSE /\ In(a) /\ line \notin {"ask", "heading"}
                   /\ line = "text" => ~Begun(a)
    BY SectionStep
  <2>5. \A a \in 1..i : a # i =>
           (ListBegun(body, a, i) <=> Begun(a) \/ line \in Tasks \union {"item"})
    BY SectionStep
  <2>6. ~ListBegun(body, i, i)
    BY <1>1 DEF ListBegun
  <2>7. OpenAt(body, i) <=> line = "asking" \/ (line = "open" /\ s.inSection)
    <3>1. OpenAt(body, i) <=> \/ line = "asking"
                              \/ line = "open" /\ \E a \in 1..(i - 1) : In(a)
      BY DEF OpenAt
    <3> HIDE DEF In, line
    <3> QED
      BY <1>3, <2>1, <3>1
  <2> HIDE DEF In, Begun, line
  <2>8. CASE OpenAt(body, i)
    <3>1. t.found
      BY <1>5, <2>7, <2>8 DEF Scanned, Tasks, ScanStates
    <3> QED
      BY <1>2, <2>8, <3>1 DEF Knows, line
  <2>9. CASE ~OpenAt(body, i)
    <3>1. ~t.found
      BY <1>1, <1>5, <2>7, <2>9 DEF Scanned, Tasks, ScanStates, Lines
    <3>2. CASE line = "ask"
      <4>1. t.inSection = TRUE /\ t.listStarted = FALSE
        BY <1>5, <3>2 DEF Scanned, Tasks, ScanStates
      <4>2. i \in 1..i /\ InSection(body, i, i)
        BY <1>1, <2>4, <3>2
      <4>3. \A a \in 1..i : InSection(body, a, i) => a = i
        BY <2>4, <3>2
      <4> QED
        BY <1>2, <2>3, <2>6, <2>9, <3>1, <4>1, <4>2, <4>3 DEF Knows, line
    <3>3. CASE line = "heading"
      <4>1. t.inSection = FALSE
        BY <1>5, <3>3 DEF Scanned, Tasks, ScanStates
      <4>2. \A a \in 1..i : ~InSection(body, a, i)
        BY <2>4, <3>3
      <4> QED
        BY <1>2, <2>3, <2>9, <3>1, <4>1, <4>2 DEF Knows, line
    <3>4. CASE line \in Tasks \union {"item"}
      <4>1. t.inSection = s.inSection /\ t.listStarted = (s.inSection \/ s.listStarted)
        BY <1>3, <1>5, <2>7, <2>9, <3>4 DEF Scanned, Tasks, ScanStates
      <4>2. \A a \in 1..i : InSection(body, a, i) <=> a # i /\ In(a)
        BY <2>4, <3>4 DEF Tasks
      <4>3. t.inSection <=> \E a \in 1..i : InSection(body, a, i)
        BY <1>2, <1>3, <2>1, <4>1, <4>2
      <4>4. \A a \in 1..i : InSection(body, a, i) =>
               t.listStarted /\ ListBegun(body, a, i)
        BY <1>2, <2>1, <2>5, <3>4, <4>1, <4>2
      <4> QED
        BY <1>2, <2>3, <2>9, <3>1, <4>3, <4>4 DEF Knows, line
    <3>5. CASE line = "blank"
      <4>1. t = s
        BY <1>5, <3>5 DEF Scanned, Tasks, ScanStates
      <4>2. \A a \in 1..i : InSection(body, a, i) <=> a # i /\ In(a)
        BY <2>4, <3>5
      <4>3. t.inSection <=> \E a \in 1..i : InSection(body, a, i)
        BY <1>2, <1>3, <2>1, <4>1, <4>2
      <4>4. \A a \in 1..i : InSection(body, a, i) =>
               (t.listStarted <=> ListBegun(body, a, i))
        BY <1>2, <2>2, <2>5, <3>5, <4>1, <4>2 DEF Tasks
      <4> QED
        BY <1>2, <2>3, <2>9, <3>1, <4>3, <4>4 DEF Knows, line
    <3>6. CASE line = "text"
      <4>1. /\ t.inSection = (s.inSection /\ ~s.listStarted)
            /\ t.listStarted = s.listStarted
        BY <1>3, <1>5, <3>6 DEF Scanned, Tasks, ScanStates, EndsSection
      <4>2. \A a \in 1..i :
               InSection(body, a, i) <=> a # i /\ In(a) /\ ~Begun(a)
        BY <2>4, <3>6
      <4>3. t.inSection <=> \E a \in 1..i : InSection(body, a, i)
        BY <1>2, <1>3, <2>1, <2>2, <4>1, <4>2
      <4>4. \A a \in 1..i : InSection(body, a, i) =>
               (t.listStarted <=> ListBegun(body, a, i))
        BY <1>2, <2>2, <2>5, <3>6, <4>1, <4>2 DEF Tasks
      <4> QED
        BY <1>2, <2>3, <2>9, <3>1, <4>3, <4>4 DEF Knows, line
    <3> QED
      BY <1>1, <3>2, <3>3, <3>4, <3>5, <3>6 DEF Lines, Tasks
  <2> QED
    BY <2>8, <2>9
<1> QED
  BY <1>4, <1>5

\* The scan finds what the reference definition calls an open proof.
LEMMA ScanFindsOpenProof ==
    ASSUME NEW body \in Seq(Lines)
    PROVE  Unproven(body) <=> OpenProof(body)
<1> DEFINE n == Len(body)
           g == ProofScan(body)
           S == {i \in 0..n : Knows(body, i, g[i])}
<1>1. /\ n \in Nat
      /\ g \in [0..n -> ScanStates] /\ g[0] = NothingSeen
      /\ \A i \in 1..n : g[i] = Scanned(g[i - 1], body[i])
  BY ScanSteps
<1>2. 0 \in S
  <2>1. 1..0 = {} /\ 0 \in 0..n
    BY <1>1
  <2>2. Knows(body, 0, NothingSeen)
    BY <2>1 DEF Knows, NothingSeen
  <2> QED
    BY <1>1, <2>1, <2>2
<1>3. \A i \in 1..n : i - 1 \in S => i \in S
  <2> SUFFICES ASSUME NEW i \in 1..n, i - 1 \in S PROVE i \in S
    OBVIOUS
  <2>1. i \in 0..n /\ i - 1 \in 0..n
    BY <1>1
  <2>2. g[i - 1] \in ScanStates /\ Knows(body, i - 1, g[i - 1])
    BY <1>1, <2>1
  <2>3. Knows(body, i, Scanned(g[i - 1], body[i]))
    BY <2>2, KnowsStep
  <2> QED
    BY <1>1, <2>1, <2>3
<1>4. \A i \in 0..n : i \in S
  <2> HIDE DEF S, n
  <2> QED
    BY <1>1, <1>2, <1>3, UpTo
<1>5. n \in S
  BY <1>1, <1>4
<1>6. g[n].found <=> \E k \in 1..n : OpenAt(body, k)
  BY <1>5 DEF Knows
<1>7. OpenProof(body) <=> \E k \in 1..n : OpenAt(body, k)
  <2>1. DOMAIN body = 1..n
    OBVIOUS
  <2>2. ASSUME NEW i \in 1..n, NEW a \in 1..n
        PROVE  /\ a < i /\ body[a] = "ask"
               /\ \A j \in (a + 1)..(i - 1) :
                     /\ body[j] \notin {"ask", "heading"}
                     /\ body[j] = "text" => \A k \in (a + 1)..(j - 1) :
                            body[k] \notin Tasks \union {"item"}
               <=> a \in 1..(i - 1) /\ InSection(body, a, i - 1)
    <3>1. a < i <=> a \in 1..(i - 1)
      BY <1>1
    <3> QED
      BY <3>1 DEF InSection
  <2>3. \A i \in 1..n : \A a \in 1..(i - 1) : a \in 1..n
    BY <1>1
  <2> HIDE DEF n
  <2>4. ASSUME NEW i \in 1..n
        PROVE  (\E a \in 1..n : a \in 1..(i - 1) /\ InSection(body, a, i - 1))
               <=> \E a \in 1..(i - 1) : InSection(body, a, i - 1)
    BY <2>3
  <2>5. OpenProof(body) <=>
          \/ \E i \in 1..n : body[i] = "asking"
          \/ \E i \in 1..n : body[i] = "open" /\ 
                \E a \in 1..n : a \in 1..(i - 1) /\ InSection(body, a, i - 1)
    BY <2>1, <2>2 DEF OpenProof
  <2> QED
    BY <2>4, <2>5 DEF OpenAt
<1> QED
  BY <1>6, <1>7 DEF Unproven

\* The sizes an update can have, each of which has a rank.
UpdateSizes == {Unknown, "digest", "patch", "minor", "major"}

LEMMA DiffTypeSize ==
    ASSUME NEW from, NEW to PROVE DiffType(from, to) \in UpdateSizes
BY DEF DiffType, UpdateSizes

LEMMA Ranks ==
    /\ UpdateRank[Unknown] = 0 /\ UpdateRank["digest"] = 1
    /\ UpdateRank["patch"] = 2 /\ UpdateRank["minor"] = 3
    /\ UpdateRank["major"] = 4
BY DEF UpdateRank, Unknown

\* Of any rows, the largest is one of them and as large as any other, however
\* many of them could not be read.
LEMMA LargestIsLargest ==
    ASSUME NEW sizes, sizes \subseteq UpdateSizes
    PROVE  /\ Largest(sizes) \in UpdateSizes
           /\ \A u \in sizes : UpdateRank[u] <= UpdateRank[Largest(sizes)]
<1> DEFINE all == sizes \union {Unknown}
           Tops(t) == \A u \in all : UpdateRank[u] <= UpdateRank[t]
<1>1. \A u \in all : u \in {Unknown, "digest", "patch", "minor", "major"}
  BY DEF UpdateSizes
<1>2. \E t \in all : Tops(t)
  <2>1. CASE "major" \in all
    <3>1. Tops("major")
      BY <1>1, Ranks
    <3> QED
      BY <2>1, <3>1
  <2>2. CASE "major" \notin all /\ "minor" \in all
    <3>1. Tops("minor")
      BY <1>1, <2>2, Ranks
    <3> QED
      BY <2>2, <3>1
  <2>3. CASE "major" \notin all /\ "minor" \notin all /\ "patch" \in all
    <3>1. Tops("patch")
      BY <1>1, <2>3, Ranks
    <3> QED
      BY <2>3, <3>1
  <2>4. CASE {"major", "minor", "patch"} \intersect all = {} /\ "digest" \in all
    <3>1. Tops("digest")
      BY <1>1, <2>4, Ranks
    <3> QED
      BY <2>4, <3>1
  <2>5. CASE {"major", "minor", "patch", "digest"} \intersect all = {}
    <3>1. Tops(Unknown)
      BY <1>1, <2>5, Ranks
    <3> QED
      BY <3>1
  <2> QED
    BY <2>1, <2>2, <2>3, <2>4, <2>5
<1>3. Largest(sizes) = CHOOSE t \in all : Tops(t)
  BY DEF Largest
<1>4. Largest(sizes) \in all /\ Tops(Largest(sizes))
  <2> HIDE DEF Tops, all
  <2> QED
    BY <1>2, <1>3
<1> QED
  BY <1>1, <1>4 DEF UpdateSizes

\* An update type the policy can list is as large as every version pair that
\* was written, but for the rows under a title that decides.
LEMMA TypeCovers ==
    ASSUME NEW p, NEW kind, CarriesVersion(kind), UpdateType(kind, p) # Unknown,
           NEW pair \in Written(kind, p),
           ~(TitleDecides(kind, p) /\ pair \in p.rows)
    PROVE  UpdateRank[DiffType(pair[1], pair[2])]
              <= UpdateRank[UpdateType(kind, p)]
<1> DEFINE T == UpdateType(kind, p)
           says == p.title.says
           rows == Largest(Sizes(p.rows))
           size == DiffType(pair[1], pair[2])
<1> USE DEF Sizes
<1>1. CASE kind = "upstream-sync"
  <2> DEFINE sizes == UNION {Sizes(Pairs(f)) : f \in p.charts.files}
  <2>1. T = Largest(sizes)
    BY <1>1 DEF UpdateType, ClassifyChartSync
  <2>2. Written(kind, p) = UNION {Pairs(f) : f \in p.charts.files}
    BY <1>1 DEF Written
  <2>3. size \in sizes
    <3>1. PICK f \in p.charts.files : pair \in Pairs(f)
      BY <2>2
    <3>2. size \in Sizes(Pairs(f))
      BY <3>1
    <3> QED
      BY <3>2
  <2>4. sizes \subseteq UpdateSizes
    BY DiffTypeSize
  <2> HIDE DEF sizes
  <2> QED
    BY <2>1, <2>3, <2>4, LargestIsLargest
<1>2. CASE kind # "upstream-sync" /\ says = "versions"
  <2>1. pair = <<p.title.from, p.title.to>>
    BY <1>2 DEF Written, TitleDecides
  <2>2. T = DiffType(p.title.from, p.title.to)
    BY <1>2 DEF UpdateType, ClassifyUpdate
  <2>3. size = T /\ T \in UpdateSizes
    BY <2>1, <2>2, DiffTypeSize
  <2> QED
    BY <2>3, Ranks DEF UpdateSizes
<1>3. CASE kind # "upstream-sync" /\ says # "versions"
  <2>1. says \in {"plain", "module"} /\ pair \in p.rows
    BY <1>3 DEF Written, TitleDecides
  <2>2. T = IF rows = Unknown /\ says = "module"
            THEN ModuleSize(p.title) ELSE rows
    <3> HIDE DEF rows
    <3>1. T = ClassifyUpdate(kind, p)
      BY <1>3 DEF UpdateType
    <3> QED
      BY <2>1, <3>1 DEF ClassifyUpdate, rows
  <2>3. Sizes(p.rows) \subseteq UpdateSizes /\ size \in Sizes(p.rows)
    BY <2>1, DiffTypeSize
  <2>4. UpdateRank[size] <= UpdateRank[rows]
    <3> HIDE DEF Sizes
    <3> QED
      BY <2>3, LargestIsLargest
  <2>5. CASE T = rows
    BY <2>4, <2>5
  <2>6. CASE T # rows
    <3>1. T = "major"
      BY <2>2, <2>6 DEF ModuleSize
    <3>2. size \in UpdateSizes
      BY <2>3
    <3> HIDE DEF T
    <3> QED
      BY <3>1, <3>2, Ranks DEF UpdateSizes, T
  <2> QED
    BY <2>5, <2>6
<1> QED
  BY <1>1, <1>2, <1>3

-----------------------------------------------------------------------------
(* The invariant: a PR is judged once its policy is known, and under it.    *)
EligibilityInv ==
    /\ PolicyInv
    /\ pull \in Pulls \union {NoPull}
    /\ verdict # "" => /\ step = "done" /\ pull \in Pulls
                       /\ \E r \in Repos : verdict = Verdict(For(r), pull)

LEMMA EligibilityInit == EInit => EligibilityInv
BY InitInv DEF EInit, EligibilityInv

LEMMA EligibilityStep ==
    ASSUME EligibilityInv, [ENext]_<<vars, judged>> PROVE EligibilityInv'
<1>1. PolicyInv'
  BY NextInv DEF EligibilityInv, ENext, Judge
<1>2. CASE UNCHANGED judged /\ (Next \/ UNCHANGED vars)
  <2>1. pull' = pull /\ verdict' = verdict
    BY <1>2 DEF judged
  <2>2. CASE verdict = ""
    BY <1>1, <2>1, <2>2 DEF EligibilityInv
  <2>3. CASE verdict # ""
    <3>1. step = "done"
      BY <2>3 DEF EligibilityInv
    <3>2. UNCHANGED vars
      BY <1>2, <3>1 DEF Next, ReadFails, ListAbsent, ReadList, DocumentAbsent,
                        ReadDocument, Resolve, Done, Refuse
    <3>3. \A r \in Repos : For(r)' = For(r)
      BY <3>2 DEF vars, For
    <3>4. step' = step
      BY <3>2 DEF vars
    <3>5. \A r \in Repos : Verdict(For(r), pull)' = Verdict(For(r), pull)
      BY <2>1, <3>3 DEF Verdict
    <3> QED
      BY <1>1, <2>1, <3>1, <3>4, <3>5 DEF EligibilityInv
  <2> QED
    BY <2>2, <2>3
<1>3. ASSUME NEW r \in Repos, NEW p \in Pulls, Judge(r, p), step = "done"
      PROVE  EligibilityInv'
  <2>1. pull' = p /\ verdict' = Verdict(For(r), p) /\ UNCHANGED vars
    BY <1>3 DEF Judge
  <2>2. step' = "done" /\ For(r)' = For(r)
    BY <1>3, <2>1 DEF vars, For
  <2>3. verdict' = Verdict(For(r), pull)'
    BY <2>1, <2>2 DEF Verdict
  <2> QED
    BY <1>1, <2>1, <2>2, <2>3 DEF EligibilityInv
<1> QED
  BY <1>2, <1>3 DEF ENext, judged

\* The policy of every repository is one.
LEMMA ForResolved ==
    ASSUME PolicyInv, NEW r PROVE For(r) \in Resolved
BY DEF PolicyInv, TypeOK, For

\* What a PR that merges went through.
LEMMA MergesMeans ==
    ASSUME NEW policy \in Resolved, NEW p, Verdict(policy, p) = "merges"
    PROVE  /\ KindOfPull(p) # "" /\ ~Unproven(p.body)
           /\ UpdateType(KindOfPull(p), p) # Unknown
<1> DEFINE kind == KindOfPull(p)
<1>1. /\ kind # "" /\ ~Unproven(p.body)
      /\ Eligible(policy, kind, UpdateType(kind, p))
  <2> HIDE DEF kind
  <2> QED
    BY DEF Verdict, kind
<1>2. kind \in Kinds
  <2>1. kind \in {KindOf(p), "renovate", ""}
    <3> HIDE DEF KindOf
    <3> QED
      BY DEF KindOfPull
  <2>2. KindOf(p) \in Kinds \union {""}
    <3>1. \A login \in DOMAIN KindByLogin : KindByLogin[login] \in Kinds
      BY DEF KindByLogin, Kinds
    <3> HIDE DEF KindByLogin
    <3> QED
      BY <3>1 DEF KindOf, Kinds
  <2> QED
    BY <1>1, <2>1, <2>2 DEF Kinds
<1>3. policy.types[kind] \subseteq Types
  BY <1>2 DEF Resolved
<1> QED
  BY <1>1, <1>3 DEF Eligible, Types, Unknown

LEMMA JudgedImpostorsWait == EligibilityInv => ImpostorsWait
<1> SUFFICES ASSUME EligibilityInv, verdict = "merges"
             PROVE  \/ pull.author \in DOMAIN KindByLogin
                    \/ pull.author \in SyncAuthors /\ pull.pinned /\ pull.synced
                    \/ /\ pull.author = "owner" /\ pull.signed
                       /\ pull.branch = "renovate/"
  BY DEF ImpostorsWait
<1>1. KindOfPull(pull) # ""
  BY ForResolved, MergesMeans DEF EligibilityInv
<1>2. \/ KindOf(pull) # "" /\ (KindOf(pull) = "upstream-sync" => pull.pinned)
      \/ SelfHostedRenovateCandidate(pull) /\ pull.signed
  <2> HIDE DEF KindOf, SelfHostedRenovateCandidate
  <2> QED
    BY <1>1 DEF KindOfPull
<1>3. \/ pull.author \in DOMAIN KindByLogin
      \/ KindOf(pull) = ""
      \/ /\ pull.author \in SyncAuthors /\ pull.synced
         /\ KindOf(pull) = "upstream-sync"
  <2> HIDE DEF KindByLogin, SyncAuthors
  <2> QED
    BY DEF KindOf
<1> QED
  BY <1>2, <1>3 DEF SelfHostedRenovateCandidate

LEMMA JudgedByLargest == EligibilityInv => NoRowOutgrows
<1> SUFFICES ASSUME EligibilityInv, verdict = "merges",
                    CarriesVersion(KindOfPull(pull)),
                    NEW pair \in Written(KindOfPull(pull), pull),
                    ~(TitleDecides(KindOfPull(pull), pull)
                         /\ pair \in pull.rows)
             PROVE  UpdateRank[DiffType(pair[1], pair[2])] <=
                       UpdateRank[UpdateType(KindOfPull(pull), pull)]
  BY DEF NoRowOutgrows
<1>1. UpdateType(KindOfPull(pull), pull) # Unknown
  BY ForResolved, MergesMeans DEF EligibilityInv
<1> QED
  BY <1>1, TypeCovers

LEMMA JudgedByProofs == EligibilityInv => ProofsAreGiven
<1> SUFFICES ASSUME EligibilityInv PROVE ProofsAreGiven
  OBVIOUS
<1>1. CASE verdict = "merges"
  <2>1. ~Unproven(pull.body) /\ pull.body \in Seq(Lines)
    BY <1>1, ForResolved, MergesMeans, PullsAssumption DEF EligibilityInv
  <2> QED
    BY <1>1, <2>1, ScanFindsOpenProof DEF ProofsAreGiven
<1>2. CASE verdict = "unproven"
  <2>1. pull.body \in Seq(Lines)
    BY <1>2, PullsAssumption DEF EligibilityInv
  <2>2. PICK r \in Repos : Verdict(For(r), pull) = "unproven"
    BY <1>2 DEF EligibilityInv
  <2>3. Unproven(pull.body)
    <3> HIDE DEF Unproven, KindOfPull
    <3> QED
      BY <2>2 DEF Verdict
  <2> QED
    BY <1>2, <2>1, <2>3, ScanFindsOpenProof DEF ProofsAreGiven
<1> QED
  BY <1>1, <1>2 DEF ProofsAreGiven

LEMMA EligibilityInvariant == ESpec => []EligibilityInv
BY EligibilityInit, EligibilityStep, PTL DEF ESpec

-----------------------------------------------------------------------------
(* The checks.  A row that is not a wait is that of the head read last, and *)
(* what that head excuses is remembered.                                    *)
Decided == row \notin {"", "WaitingChecks", "Skipped"}
Judges == \E circle \in CircleSays : \E found \in Lookups(head) :
              row = RowOf(head, failed, found, circle)

VerdictInv ==
    /\ head \in Heads \union {Nothing}
    /\ row = "passed" => Excused(head, failed) \subseteq preexisting
    /\ polls <= MaxPolls /\ row # "" => Judges
    /\ Decided => Judges
    /\ polls \in Nat

\* A head with a red check passes only when each of them is excused.
LEMMA PassedExcuses ==
    ASSUME NEW h, NEW fails, NEW found, NEW circle,
           RowOf(h, fails, found, circle) = "passed"
    PROVE  /\ {"checks", "protection"} \intersect fails = {}
           /\ AllGreen(h, fails, found)
           /\ Red(h, fails) # {} => Classified(h, fails) = "excused"
<1>1. State(h, fails) \notin {"blocked", "noVerdict"}
  BY DEF RowOf
<1>2. Classified(h, fails) # "passed"
  BY DEF Classified
<1>3. Red(h, fails) # {} => State(h, fails) = "failure"
  BY DEF Red, State
<1>4. /\ "checks" \notin fails /\ "protection" \notin fails
      /\ AllGreen(h, fails, found)
      /\ State(h, fails) = "failure" => Classified(h, fails) = "excused"
  <2> HIDE DEF State, Classified, AllGreen
  <2> QED
    BY <1>1, <1>2 DEF RowOf
<1> QED
  BY <1>3, <1>4

LEMMA VerdictInit == VRest => VerdictInv
<1> SUFFICES ASSUME VRest PROVE VerdictInv
  OBVIOUS
<1>1. head = Nothing /\ polls = 0 /\ row = ""
  BY DEF VRest
<1>2. ~Decided
  BY <1>1 DEF Decided
<1> QED
  BY <1>1, <1>2 DEF VerdictInv


\* The facts are fixed, so a poll judges as its row will be read.
LEMMA SameJudgement ==
    ASSUME facts' = facts, NEW h, NEW fails, NEW found, NEW circle
    PROVE  /\ Lookups(h)' = Lookups(h)
           /\ RowOf(h, fails, found, circle)' = RowOf(h, fails, found, circle)
           /\ Excused(h, fails)' = Excused(h, fails)
BY DEF Lookups, RowOf, Classified, Excused, Stale, Obsolete, IsRequired,
       RedOnBase, AllGreen, RequiredFailed, RequiredOpen, Missing, Unposted

LEMMA VerdictStep ==
    ASSUME VerdictInv, [VNext]_verdictVars
    PROVE  VerdictInv'
<1>1. ASSUME NEW h \in Heads, NEW fails \in Failures, NEW circle \in CircleSays,
             NEW found \in Lookups(h), Poll(h, fails, found, circle)
      PROVE  VerdictInv'
  <2>1. head' = h /\ failed' = fails /\ facts' = facts
    BY <1>1 DEF Poll
  <2>2. row' = RowOf(h, fails, found, circle)
    BY <1>1 DEF Poll
  <2>3. Judges'
    BY <2>1, <2>2, SameJudgement DEF Judges
  <2>4. (Excused(head, failed) \subseteq preexisting)'
    <3>1. preexisting' = preexisting \union Excused(h, fails)
      BY <1>1 DEF Poll
    <3> QED
      BY <2>1, <3>1, SameJudgement
  <2>5. polls' \in Nat
    <3>1. polls' = polls + 1
      BY <1>1 DEF Poll
    <3>2. polls \in Nat
      BY DEF VerdictInv
    <3> QED
      BY <3>1, <3>2
  <2> QED
    BY <2>1, <2>3, <2>4, <2>5 DEF VerdictInv
<1>2. CASE NextPoll
  <2>1. head' = Nothing /\ row' = "" /\ polls' = polls
    BY <1>2 DEF NextPoll
  <2>2. ~Decided'
    BY <2>1 DEF Decided
  <2> QED
    BY <2>1, <2>2 DEF VerdictInv
<1>3. CASE Deadline
  <2>1. head' = head /\ row' \in {"WaitingChecks", "Skipped"}
        /\ polls' = MaxPolls + 1
    BY <1>3 DEF Deadline
  <2>2. ~Decided'
    BY <2>1 DEF Decided
  <2>3. polls' \in Nat /\ ~(polls' <= MaxPolls)
    BY <2>1, PollsAssumption
  <2> QED
    BY <2>1, <2>2, <2>3 DEF VerdictInv
<1>4. CASE UNCHANGED verdictVars
  <2>1. /\ UNCHANGED <<facts, head, failed, preexisting, polls, row>>
        /\ Decided' = Decided
    BY <1>4 DEF verdictVars, Decided
  <2>2. Judges' = Judges
    BY <2>1, SameJudgement DEF Judges
  <2>3. Excused(head, failed)' = Excused(head, failed)
    BY <2>1, SameJudgement
  <2> QED
    BY <2>1, <2>2, <2>3 DEF VerdictInv
<1> QED
  BY <1>1, <1>2, <1>3, <1>4 DEF VNext, Settled

\* What a required context is matched with is required.
LEMMA MatchesRequired ==
    ASSUME NEW h, NEW r \in facts.required, NEW n \in Matches(h, r)
    PROVE  IsRequired(n)
BY DEF Matches, IsRequired

LEMMA RowRedIsExcused == VerdictInv => RedIsExcused
<1> SUFFICES ASSUME VerdictInv, row = "passed", NEW c \in Red(head, failed)
             PROVE  /\ ~IsRequired(c.name) /\ c.name[2] \notin SecurityJobs
                    /\ "base" \notin failed /\ c.name \in facts.red
                    /\ c.name \in preexisting
  BY DEF RedIsExcused
<1>1. PICK circle \in CircleSays : \E found \in Lookups(head) :
          row = RowOf(head, failed, found, circle)
  BY DEF VerdictInv, Judges, Decided
<1>2. /\ {"checks", "protection"} \intersect failed = {}
      /\ Classified(head, failed) = "excused"
  BY <1>1, PassedExcuses
<1>3. c.name \in NamesOf(Red(head, failed))
  BY DEF NamesOf
<1>4. /\ ~SecurityRed(head, failed)
      /\ \A n \in NamesOf(Red(head, failed)) :
            ~IsRequired(n) /\ RedOnBase(n, failed)
  <2> HIDE DEF SecurityRed, NamesOf, IsRequired, RedOnBase
  <2> QED
    BY <1>2 DEF Classified
<1>5. c.name \in Excused(head, failed)
  BY <1>2, <1>3, <1>4 DEF Excused
<1> QED
  BY <1>3, <1>4, <1>5 DEF VerdictInv, SecurityRed, RedOnBase

LEMMA RowRequiredPassed == VerdictInv => RequiredPassed
<1> SUFFICES ASSUME VerdictInv, row = "passed", NEW r \in facts.required
             PROVE  /\ \E n \in Matches(head, r) : Passed(head, failed, n)
                    /\ \A n \in Matches(head, r) : ~Failed(head, failed, n)
  BY DEF RequiredPassed
<1>1. PICK found \in Lookups(head) : \E circle \in CircleSays :
          row = RowOf(head, failed, found, circle)
  BY DEF VerdictInv, Judges, Decided
<1>2. /\ AllGreen(head, failed, found)
      /\ Red(head, failed) # {} => Classified(head, failed) = "excused"
  BY <1>1, PassedExcuses
<1>3. found[r] \in Matches(head, r) /\ Passed(head, failed, found[r])
  BY <1>2 DEF AllGreen, Lookups
<1>4. ASSUME NEW n \in Matches(head, r), Failed(head, failed, n) PROVE FALSE
  <2>1. n \in NamesOf(Red(head, failed)) /\ Red(head, failed) # {}
    BY <1>4 DEF Failed, NamesOf
  <2>2. ~IsRequired(n)
    <3> HIDE DEF NamesOf, IsRequired, Red
    <3> QED
      BY <1>2, <2>1 DEF Classified
  <2> QED
    BY <2>2, MatchesRequired
<1> QED
  BY <1>3, <1>4

LEMMA RowFailureRan == VerdictInv => FailureRan
<1> SUFFICES ASSUME VerdictInv, row \in {"Failed", "FailedSecurity"},
                    {"checks", "protection"} \intersect failed = {}
             PROVE  /\ Grounds # {}
                    /\ \A c \in Grounds :
                          \/ Ran(c) \/ Unseen(c)
                          \/ /\ AutoCancelled(c.build)
                             /\ \E d \in Red(head, failed) : Ran(d) \/ Unseen(d)
  BY DEF FailureRan
<1>1. PICK circle \in CircleSays, found \in Lookups(head) :
          row = RowOf(head, failed, found, circle)
  BY DEF VerdictInv, Judges, Decided
<1>2. Classified(head, failed) = row /\ row # "excused"
  <2> HIDE DEF State, Classified, AllGreen
  <2> QED
    BY <1>1 DEF RowOf
<1>3. Grounds # {}
  <2>1. CASE row = "FailedSecurity"
    <3>1. SecurityRed(head, failed)
      <4> HIDE DEF SecurityRed
      <4> QED
        BY <1>2, <2>1 DEF Classified
    <3> QED
      BY <2>1, <3>1 DEF SecurityRed, NamesOf, Grounds
  <2>2. CASE row = "Failed"
    <3>1. \E n \in NamesOf(Red(head, failed)) :
              ~(~IsRequired(n) /\ RedOnBase(n, failed))
      <4> HIDE DEF NamesOf, IsRequired, RedOnBase, Red
      <4> QED
        BY <1>2, <2>2 DEF Classified
    <3> QED
      BY <2>2, <3>1 DEF NamesOf, Grounds
  <2> QED
    BY <2>1, <2>2
\* What is red says so, or was refused for the budget and not read.
<1>4. ASSUME NEW c \in Red(head, failed)
      PROVE  /\ c.says = "failure"
                \/ (c.says = "budget" /\ "annotations" \in failed)
             /\ c.via = "status" \/ ~AutoCancelled(c.build)
  <2>1. c \in head.listed /\ Class(c, failed) = "red"
    BY DEF Red
  <2>2. head \in Heads
    <3>1. head \in Heads \union {Nothing}
      BY DEF VerdictInv
    <3> QED
      BY <2>1, <3>1 DEF Nothing
  <2>3. /\ c.says \in Conclusions
        /\ c.via \in {"run", "status"} /\ (c.via = "run" => c.build = <<>>)
    BY <2>1, <2>2, HeadsAssumption
  <2>4. c.says = "failure" \/ (c.says = "budget" /\ "annotations" \in failed)
    BY <2>1, <2>3 DEF Class, Conclusions, NoVerdictSays
  <2>5. c.via = "status" \/ ~AutoCancelled(c.build)
    BY <2>3 DEF AutoCancelled
  <2> QED
    BY <2>4, <2>5
\* A head that was read and not taken for cancelled has one that was not.
<1>5. CASE "circle" \in failed
  BY <1>3, <1>4, <1>5 DEF Grounds, Ran, Unseen
<1>6. CASE "circle" \notin failed
  <2>1. ~Cancelled(head, failed)
    <3> HIDE DEF Cancelled
    <3> QED
      BY <1>2 DEF Classified
  <2>2. Red(head, failed) # {}
    BY <1>3 DEF Grounds
  <2>3. PICK n \in NamesOf(Red(head, failed)) :
            ~\E c \in Statuses(Red(head, failed)) :
                c.name = n /\ AutoCancelled(c.build)
    BY <1>6, <2>1, <2>2 DEF Cancelled
  <2>4. PICK d \in Red(head, failed) : d.name = n
    BY DEF NamesOf
  <2>5. ~AutoCancelled(d.build)
    BY <1>4, <2>3, <2>4 DEF Statuses
  <2>6. Ran(d) \/ Unseen(d)
    BY <1>4, <2>5 DEF Ran, Unseen
  <2> QED
    BY <1>3, <1>4, <2>6 DEF Grounds, Ran, Unseen
<1> QED
  BY <1>5, <1>6

\* A head on which every check is green has nothing to wait for and nothing
\* to excuse.
LEMMA GreenState ==
    ASSUME NEW h \in Heads, NEW fails, h.beyond = {},
           \A c \in h.listed : Class(c, fails) = "green"
    PROVE  State(h, fails) = "success"
<1>1. \A c \in h.listed : c.says \in {"success", "neutral"}
  <2>1. \A c \in h.listed : c.says \in Conclusions
    BY HeadsAssumption
  <2> QED
    BY <2>1 DEF Class, Conclusions, NoVerdictSays
<1>2. CASE h.listed = {}
  BY <1>2 DEF State
<1>3. CASE h.listed # {}
  <2>1. CombinedState(h) # "failure" /\ ~StatusesPending(h)
    <3>1. h.listed \union h.beyond = h.listed
      OBVIOUS
    <3> QED
      BY <1>1, <3>1 DEF CombinedState, StatusesPending, Statuses
  <2> QED
    BY <1>1, <1>3, <2>1 DEF State
<1> QED
  BY <1>2, <1>3

LEMMA PairNotEmpty ==
    ASSUME NEW name \in STRING \X STRING PROVE name # <<>>
<1>1. name = <<name[1], name[2]>>
  OBVIOUS
<1>2. <<name[1], name[2]>> # <<>>
  OBVIOUS
<1> QED
  BY <1>1, <1>2

LEMMA RowGreenPasses == VerdictInv => GreenPasses
<1> SUFFICES ASSUME VerdictInv, row # "" /\ polls <= MaxPolls,
                    {"checks", "protection"} \intersect failed = {},
                    head.beyond = {},
                    \A c \in head.listed : Class(c, failed) = "green",
                    \A r \in facts.required : Matches(head, r) # {}
             PROVE  row = "passed"
  BY DEF GreenPasses
<1>1. PICK circle \in CircleSays, found \in Lookups(head) :
          row = RowOf(head, failed, found, circle)
  BY DEF VerdictInv, Judges
<1>2. Red(head, failed) = {} /\ NamesOf(Red(head, failed)) = {}
  BY DEF Red, NamesOf
<1>3. State(head, failed) = "success"
  <2>1. head \in Heads \union {Nothing}
    BY DEF VerdictInv
  <2>2. CASE head = Nothing
    <3>1. head.listed = {}
      BY <2>2 DEF Nothing
    <3> QED
      BY <3>1 DEF State
  <2>3. CASE head \in Heads
    BY <2>3, GreenState
  <2> QED
    BY <2>1, <2>2, <2>3
<1>4. ~RequiredFailed(head, failed, found)
  BY <1>2 DEF RequiredFailed, Failed
<1>5. ASSUME NEW n \in facts.required
      PROVE  found[n] # <<>> /\ Passed(head, failed, found[n])
  <2>1. found[n] \in Matches(head, n)
    BY DEF Lookups
  <2>2. PICK c \in head.listed : c.name = found[n]
    BY <2>1 DEF Matches, Reported, NamesOf
  <2> HIDE DEF Nothing
  <2>3. head \in Heads
    <3>1. head \in Heads \union {Nothing}
      BY DEF VerdictInv
    <3>2. head.listed # {} /\ Nothing.listed = {}
      BY <2>2 DEF Nothing
    <3> QED
      BY <3>1, <3>2
  <2>4. c.name \in STRING \X STRING
    BY <2>3, HeadsAssumption
  <2>5. c.name # <<>>
    BY <2>4, PairNotEmpty
  <2> QED
    BY <1>2, <2>2, <2>5 DEF Passed, Failed
<1>6. AllGreen(head, failed, found)
  BY <1>5 DEF AllGreen
<1> QED
  <2> HIDE DEF State, AllGreen, RequiredFailed
  <2> QED
    BY <1>1, <1>3, <1>4, <1>6 DEF RowOf

-----------------------------------------------------------------------------
(* The rules.                                                              *)
CatalogueInv ==
    /\ part = "rules" => files \in Directories
    /\ part # "rules" => ruleset = {}
    /\ ruleset \subseteq {d \in files : RuleParses(d)}
    /\ subject = NoSubject => hit = {}
    /\ subject # NoSubject => loaded = "yes" /\ hit = Hit(ruleset, subject)

LEMMA CatalogueStep ==
    ASSUME CatalogueInv, part' = part,
           \/ UNCHANGED ruleVars
           \/ part = "rules" /\ RNext
    PROVE  CatalogueInv'
<1>1. CASE UNCHANGED ruleVars
  BY <1>1 DEF ruleVars, CatalogueInv
<1>2. CASE part = "rules" /\ LoadFails
  BY <1>2 DEF LoadFails, CatalogueInv
<1>3. CASE part = "rules" /\ Load
  BY <1>3 DEF Load, CatalogueInv
<1>4. ASSUME part = "rules", NEW d \in ruleset, Only(d) PROVE CatalogueInv'
  BY <1>4 DEF Only, CatalogueInv
<1>5. ASSUME part = "rules", NEW s \in Subjects, MatchSubject(s)
      PROVE  CatalogueInv'
  <2>1. s # NoSubject
    BY <1>5 DEF MatchSubject, NoSubject, remediableStates
  <2> QED
    BY <1>5, <2>1 DEF MatchSubject, CatalogueInv
<1>6. CASE Matched
  BY <1>1, <1>6 DEF Matched
<1> QED
  BY <1>1, <1>2, <1>3, <1>4, <1>5, <1>6 DEF RNext

\* What a hit of a failing check says.
LEMMA FailingHit ==
    ASSUME NEW d, NEW s, NEW h \in FailingHits(d, s)
    PROVE  /\ h.rule = d /\ h.log = (d.log # {}) /\ h.missing = Selected(d, s)
           /\ d.log # {} => InLog(d, s, h.check)
<1> DEFINE On(check) == [rule |-> d, check |-> check, log |-> d.log # {},
                         missing |-> Selected(d, s), commands |-> {}]
<1>1. PICK check : h = On(check) /\ (d.log # {} => InLog(d, s, check))
  <2>1. \/ \E i \in Candidates(d, s) :
              Reads(d, s, s.failing[i]) /\ h = On(s.failing[i])
        \/ d.log = {} /\ h = On("")
    BY DEF FailingHits
  <2> QED
    BY <2>1 DEF Reads
<1> QED
  BY <1>1

LEMMA HitRule ==
    ASSUME NEW d, NEW s, NEW h \in Hits(d, s) PROVE h.rule = d
<1>1. h \in PendingHits(d, s) => h.rule = d
  BY DEF PendingHits
<1> QED
  BY <1>1, FailingHit DEF Hits

\* A hit is one of a rule in use, and no other rule that hits comes before it.
LEMMA HitOfFirst ==
    ASSUME NEW S, NEW s, NEW h \in Hit(S, s)
    PROVE  /\ h.rule \in S /\ h \in Hits(h.rule, s)
           /\ \A d \in S : Hits(d, s) # {} /\ d # h.rule => Before(h.rule, d)
<1>1. PICK e \in S : /\ h \in Hits(e, s)
                     /\ \A d \in S : Hits(d, s) # {} /\ d # e => Before(e, d)
  BY DEF Hit
<1>2. h.rule = e
  BY <1>1, HitRule
<1> QED
  BY <1>1, <1>2

LEMMA HitDiagnosed ==
    ASSUME NEW d, RuleParses(d), NEW s, NEW h \in Hits(d, s), h.rule = d
    PROVE  Evidence(h, s) \/ \E c \in d.check : c.output # {}
<1>1. /\ MatchPRMetadata(d, s) /\ MatchProtection(d, s)
      /\ \/ \E c \in d.check : c.pending
         \/ /\ ~\E c \in d.check : c.pending
            /\ AllInBaseState(d, s) /\ h \in FailingHits(d, s)
  BY DEF Hits
<1>2. CASE \E c \in d.check : c.pending
  BY <1>2 DEF RuleParses, CheckSound
<1>3. CASE AllInBaseState(d, s) /\ h \in FailingHits(d, s)
  <2>1. h.log = (d.log # {}) /\ h.missing = Selected(d, s)
    BY <1>3, FailingHit
  <2>2. d.log # {} => InLog(d, s, h.check)
    BY <1>3, FailingHit
  <2>3. CASE d.log # {}
    BY <2>1, <2>2, <2>3 DEF Evidence
  <2>4. CASE d.missing # {}
    BY <1>1, <2>1, <2>4 DEF Evidence, MatchProtection, Selected
  <2>5. ASSUME NEW p \in d.pr, p.baseHead # "" PROVE Evidence(h, s)
    <3>1. ASSUME NEW i \in DOMAIN s.failing,
                 \A c \in d.check : s.failing[i] \in c.glob
          PROVE  BaseOf(s, s.failing[i]) = p.baseHead
      <4>1. i \in Candidates(d, s)
        BY <3>1 DEF Candidates
      <4> QED
        BY <1>3, <2>5, <4>1 DEF AllInBaseState
    <3>2. \A n \in Elements(s.failing) :
             (\A c \in d.check : n \in c.glob) => BaseOf(s, n) = p.baseHead
      BY <3>1 DEF Elements
    <3> QED
      BY <2>5, <3>2 DEF Evidence
  <2>6. ASSUME NEW p \in d.pr, p.files # {} PROVE Evidence(h, s)
    BY <1>1, <2>6 DEF Evidence, MatchPRMetadata
  <2> QED
    BY <2>3, <2>4, <2>5, <2>6 DEF RuleParses, HasStateSignal
<1> QED
  BY <1>1, <1>2, <1>3

LEMMA RulesDiagnose == CatalogueInv => Diagnosed
<1> SUFFICES ASSUME CatalogueInv, NEW h \in hit
             PROVE  Evidence(h, subject) \/ \E c \in h.rule.check : c.output # {}
  BY DEF Diagnosed
<1>1. hit = Hit(ruleset, subject)
  BY DEF CatalogueInv
<1>2. h.rule \in ruleset /\ h \in Hits(h.rule, subject)
  BY <1>1, HitOfFirst
<1>3. RuleParses(h.rule)
  BY <1>2 DEF CatalogueInv
<1> QED
  BY <1>2, <1>3, HitDiagnosed


-----------------------------------------------------------------------------
(* How much a rule asks.  Every kind of signal counts as often as it asks,  *)
(* so a rule that asks all another asks, and more, scores higher.           *)
One(S) == IF S = {} THEN 0 ELSE 1

LEMMA OneCounts ==
    ASSUME NEW S, AtMostOne(S) PROVE Cardinality(S) = One(S)
<1>1. CASE S = {}
  BY <1>1, FS_EmptySet DEF One
<1>2. CASE S # {}
  <2>1. PICK x : S = {x}
    BY <1>2 DEF AtMostOne
  <2> QED
    BY <1>2, <2>1, FS_Singleton DEF One
<1> QED
  BY <1>1, <1>2

Says(d) == {c \in d.check : c.output # {}}
Bases(d) == {p \in d.pr : p.baseHead # ""}
Titles(d) == {p \in d.pr : p.titles # {}}
Files(d) == UNION {p.files : p \in d.pr}
Globs(d) == {c.glob : c \in d.check}
Outputs(d) == {c.output : c \in Says(d)}
BaseHeads(d) == {p.baseHead : p \in Bases(d)}
TitleSets(d) == {p.titles : p \in Titles(d)}
Protections(d) == {d.missing} \ {{}}

\* The weights: c, o, l and m for the check, output, log and protection
\* signals, b and t for the base and title signals, f files.
Score(states, kinds, c, o, l, m, b, t, f) ==
    states + kinds + 2 * c + 4 * o + 4 * l + 2 * m + b + t + f

LEMMA ScoreGrows ==
    ASSUME NEW s \in Nat, NEW k \in Nat,
           NEW c1 \in Nat, NEW c2 \in Nat, c1 <= c2,
           NEW o1 \in Nat, NEW o2 \in Nat, o1 <= o2,
           NEW l1 \in Nat, NEW l2 \in Nat, l1 <= l2,
           NEW m1 \in Nat, NEW m2 \in Nat, m1 <= m2,
           NEW b1 \in Nat, NEW b2 \in Nat, b1 <= b2,
           NEW t1 \in Nat, NEW t2 \in Nat, t1 <= t2,
           NEW f1 \in Nat, NEW f2 \in Nat, f1 <= f2,
           \/ c1 < c2 \/ o1 < o2 \/ l1 < l2 \/ m1 < m2
           \/ b1 < b2 \/ t1 < t2 \/ f1 < f2
    PROVE  /\ Score(s, k, c1, o1, l1, m1, b1, t1, f1) <
              Score(s, k, c2, o2, l2, m2, b2, t2, f2)
BY DEF Score

LEMMA SpecificityIs ==
    ASSUME NEW d, RuleDocument(d)
    PROVE  /\ Cardinality(d.states) \in Nat /\ Cardinality(d.kinds) \in Nat
           /\ Cardinality(Files(d)) \in Nat /\ IsFiniteSet(Files(d))
           /\ Specificity(d) =
                Score(Cardinality(d.states), Cardinality(d.kinds),
                      One(d.check), One(Says(d)), One(d.log),
                      One(d.missing), One(Bases(d)), One(Titles(d)),
                      Cardinality(Files(d)))
           /\ Specificity(d) \in Nat
<1>1. /\ Cardinality(d.check) = One(d.check) /\ Cardinality(d.log) = One(d.log)
      /\ Cardinality(Says(d)) = One(Says(d))
      /\ Cardinality(Bases(d)) = One(Bases(d))
      /\ Cardinality(Titles(d)) = One(Titles(d))
  <2>1. /\ AtMostOne(d.check) /\ AtMostOne(d.log) /\ AtMostOne(Says(d))
        /\ AtMostOne(Bases(d)) /\ AtMostOne(Titles(d))
    BY DEF RuleDocument, AtMostOne, Says, Bases, Titles
  <2> QED
    BY <2>1, OneCounts
<1>2. IsFiniteSet(d.states) /\ IsFiniteSet(d.kinds)
  BY DEF RuleDocument
<1>3. IsFiniteSet(Files(d))
  <2>1. CASE d.pr = {}
    <3>1. Files(d) = {}
      BY <2>1 DEF Files
    <3> QED
      BY <3>1, FS_EmptySet
  <2>2. CASE d.pr # {}
    <3>1. PICK p \in d.pr : d.pr = {p}
      BY <2>2 DEF RuleDocument, AtMostOne
    <3>2. Files(d) = p.files
      BY <3>1 DEF Files
    <3> QED
      BY <3>2 DEF RuleDocument
  <2> QED
    BY <2>1, <2>2
<1>4. /\ Cardinality(d.states) \in Nat /\ Cardinality(d.kinds) \in Nat
      /\ Cardinality(Files(d)) \in Nat
  BY <1>2, <1>3, FS_CardinalityType
<1>5. Specificity(d) =
        Score(Cardinality(d.states), Cardinality(d.kinds),
              Cardinality(d.check), Cardinality(Says(d)), Cardinality(d.log),
              One(d.missing), Cardinality(Bases(d)),
              Cardinality(Titles(d)), Cardinality(Files(d)))
  <2>1. (IF d.missing = {} THEN 0 ELSE 2) = 2 * One(d.missing)
    BY DEF One
  <2> QED
    BY <2>1 DEF Specificity, Score, Says, Bases, Titles, Files
<1>6. /\ One(d.check) \in Nat /\ One(Says(d)) \in Nat /\ One(d.log) \in Nat
      /\ One(Bases(d)) \in Nat /\ One(Titles(d)) \in Nat
      /\ One(d.missing) \in Nat
  BY DEF One
<1>7. Score(Cardinality(d.states), Cardinality(d.kinds),
            One(d.check), One(Says(d)), One(d.log), One(d.missing),
            One(Bases(d)), One(Titles(d)), Cardinality(Files(d))) \in Nat
  BY <1>4, <1>6 DEF Score
<1> QED
  BY <1>1, <1>2, <1>3, <1>4, <1>5, <1>7

\* What is asked, signal by signal.
LEMMA AsksBySignal ==
    ASSUME NEW d, NEW e
    PROVE  Asks(e) \subseteq Asks(d) <=>
              /\ Globs(e) \subseteq Globs(d) /\ e.log \subseteq d.log
              /\ Outputs(e) \subseteq Outputs(d)
              /\ BaseHeads(e) \subseteq BaseHeads(d)
              /\ TitleSets(e) \subseteq TitleSets(d)
              /\ Files(e) \subseteq Files(d)
              /\ Protections(e) \subseteq Protections(d)
<1>1. \A x : Asks(x) =
         ({"check"} \X Globs(x)) \union ({"log"} \X x.log)
         \union ({"says"} \X Outputs(x)) \union ({"base"} \X BaseHeads(x))
         \union ({"title"} \X TitleSets(x)) \union ({"file"} \X Files(x))
         \union ({"missing"} \X Protections(x))
  BY DEF Asks, Globs, Outputs, BaseHeads, TitleSets, Files, Says, Bases, Titles,
         Protections
<1>2. ASSUME Asks(e) \subseteq Asks(d)
      PROVE  /\ Globs(e) \subseteq Globs(d) /\ e.log \subseteq d.log
             /\ Outputs(e) \subseteq Outputs(d)
             /\ BaseHeads(e) \subseteq BaseHeads(d)
             /\ TitleSets(e) \subseteq TitleSets(d)
             /\ Files(e) \subseteq Files(d)
             /\ Protections(e) \subseteq Protections(d)
  <2>1. \A x, v : /\ <<"check", v>> \in Asks(x) <=> v \in Globs(x)
                  /\ <<"log", v>> \in Asks(x) <=> v \in x.log
                  /\ <<"says", v>> \in Asks(x) <=> v \in Outputs(x)
                  /\ <<"base", v>> \in Asks(x) <=> v \in BaseHeads(x)
                  /\ <<"title", v>> \in Asks(x) <=> v \in TitleSets(x)
                  /\ <<"file", v>> \in Asks(x) <=> v \in Files(x)
                  /\ <<"missing", v>> \in Asks(x) <=> v \in Protections(x)
    BY <1>1
  <2> QED
    BY <1>2, <2>1
<1>3. ASSUME /\ Globs(e) \subseteq Globs(d) /\ e.log \subseteq d.log
             /\ Outputs(e) \subseteq Outputs(d)
             /\ BaseHeads(e) \subseteq BaseHeads(d)
             /\ TitleSets(e) \subseteq TitleSets(d)
             /\ Files(e) \subseteq Files(d)
             /\ Protections(e) \subseteq Protections(d)
      PROVE  Asks(e) \subseteq Asks(d)
  BY <1>1, <1>3
<1> QED
  BY <1>2, <1>3

\* A signal a rule carries at most once counts for whether it carries it.
LEMMA OneGrows ==
    ASSUME NEW S, NEW T, S # {} => T # {}
    PROVE  One(S) <= One(T) /\ One(S) \in Nat /\ One(T) \in Nat
BY DEF One

LEMMA SubsetCounts ==
    ASSUME NEW S, NEW T, IsFiniteSet(T), S \subseteq T
    PROVE  /\ Cardinality(S) \in Nat /\ Cardinality(T) \in Nat
           /\ Cardinality(S) <= Cardinality(T)
           /\ Cardinality(S) = Cardinality(T) => S = T
<1>1. IsFiniteSet(S) /\ Cardinality(S) <= Cardinality(T)
  BY FS_Subset
<1>2. Cardinality(S) = Cardinality(T) => S = T
  BY FS_Subset, FS_CardinalityType
<1> QED
  BY <1>1, <1>2, FS_CardinalityType

LEMMA NarrowerScoresHigher ==
    ASSUME NEW d, NEW e, RuleDocument(d), RuleDocument(e), Narrower(d, e),
           d.states = e.states, d.kinds = e.kinds
    PROVE  Specificity(e) < Specificity(d)
<1>1. /\ Globs(e) \subseteq Globs(d) /\ e.log \subseteq d.log
      /\ Outputs(e) \subseteq Outputs(d) /\ BaseHeads(e) \subseteq BaseHeads(d)
      /\ TitleSets(e) \subseteq TitleSets(d)
      /\ Files(e) \subseteq Files(d)
      /\ Protections(e) \subseteq Protections(d)
  BY AsksBySignal DEF Narrower
<1>2. ~ /\ Globs(d) \subseteq Globs(e) /\ d.log \subseteq e.log
        /\ Outputs(d) \subseteq Outputs(e) /\ BaseHeads(d) \subseteq BaseHeads(e)
        /\ TitleSets(d) \subseteq TitleSets(e)
        /\ Files(d) \subseteq Files(e)
        /\ Protections(d) \subseteq Protections(e)
  <2>1. ~(Asks(d) \subseteq Asks(e))
    BY DEF Narrower
  <2> QED
    BY <2>1, AsksBySignal
<1>3. /\ e.check # {} => d.check # {}
      /\ e.log # {} => d.log # {}
      /\ Says(e) # {} => Says(d) # {}
      /\ Bases(e) # {} => Bases(d) # {}
      /\ Titles(e) # {} => Titles(d) # {}
      /\ e.missing # {} => d.missing # {}
  <2>1. \A x : /\ x.check # {} <=> Globs(x) # {}
               /\ Says(x) # {} <=> Outputs(x) # {}
               /\ Bases(x) # {} <=> BaseHeads(x) # {}
               /\ Titles(x) # {} <=> TitleSets(x) # {}
               /\ x.missing # {} <=> Protections(x) # {}
    BY DEF Globs, Outputs, BaseHeads, TitleSets, Protections
  <2> QED
    BY <1>1, <2>1
\* A signal both carry is the same one.
<1>4. /\ ~(Globs(d) \subseteq Globs(e)) => e.check = {} /\ d.check # {}
      /\ ~(d.log \subseteq e.log) => e.log = {} /\ d.log # {}
      /\ ~(Outputs(d) \subseteq Outputs(e)) => Says(e) = {} /\ Says(d) # {}
      /\ ~(BaseHeads(d) \subseteq BaseHeads(e)) => Bases(e) = {} /\ Bases(d) # {}
      /\ ~(TitleSets(d) \subseteq TitleSets(e)) => Titles(e) = {} /\ Titles(d) # {}
      /\ ~(Protections(d) \subseteq Protections(e))
            => e.missing = {} /\ d.missing # {}
  <2>1. /\ AtMostOne(d.check) /\ AtMostOne(d.log) /\ AtMostOne(Says(d))
        /\ AtMostOne(Bases(d)) /\ AtMostOne(Titles(d))
    BY DEF RuleDocument, AtMostOne, Says, Bases, Titles
  <2>2. /\ AtMostOne(Globs(d)) /\ AtMostOne(Outputs(d)) /\ AtMostOne(BaseHeads(d))
        /\ AtMostOne(TitleSets(d))
    BY <2>1 DEF AtMostOne, Globs, Outputs, BaseHeads, TitleSets
  <2>3. ASSUME NEW S, NEW T, AtMostOne(T), S \subseteq T, ~(T \subseteq S)
        PROVE  S = {} /\ T # {}
    BY <2>3 DEF AtMostOne
  <2>4. /\ Globs(e) = {} => e.check = {}
        /\ Outputs(e) = {} => Says(e) = {}
        /\ BaseHeads(e) = {} => Bases(e) = {}
        /\ TitleSets(e) = {} => Titles(e) = {}
    BY DEF Globs, Outputs, BaseHeads, TitleSets
  <2>5. /\ Globs(d) # {} => d.check # {}
        /\ Outputs(d) # {} => Says(d) # {}
        /\ BaseHeads(d) # {} => Bases(d) # {}
        /\ TitleSets(d) # {} => Titles(d) # {}
    BY DEF Globs, Outputs, BaseHeads, TitleSets
  <2>6. ~(Globs(d) \subseteq Globs(e)) => e.check = {} /\ d.check # {}
    BY <1>1, <2>2, <2>3, <2>4, <2>5
  <2>7. ~(d.log \subseteq e.log) => e.log = {} /\ d.log # {}
    BY <1>1, <2>1, <2>3
  <2>8. ~(Outputs(d) \subseteq Outputs(e)) => Says(e) = {} /\ Says(d) # {}
    BY <1>1, <2>2, <2>3, <2>4, <2>5
  <2>9. ~(BaseHeads(d) \subseteq BaseHeads(e)) => Bases(e) = {} /\ Bases(d) # {}
    BY <1>1, <2>2, <2>3, <2>4, <2>5
  <2>10. ~(TitleSets(d) \subseteq TitleSets(e)) => Titles(e) = {} /\ Titles(d) # {}
    BY <1>1, <2>2, <2>3, <2>4, <2>5
  <2>11. ~(Protections(d) \subseteq Protections(e))
            => e.missing = {} /\ d.missing # {}
    BY <1>1 DEF Protections
  <2> QED
    BY <2>6, <2>7, <2>8, <2>9, <2>10, <2>11
<1>5. /\ One(e.check) <= One(d.check) /\ One(e.log) <= One(d.log)
      /\ One(Says(e)) <= One(Says(d)) /\ One(Bases(e)) <= One(Bases(d))
      /\ One(Titles(e)) <= One(Titles(d))
      /\ One(e.missing) <= One(d.missing)
  BY <1>3, OneGrows
<1>6. \A S : One(S) \in Nat
  BY DEF One
<1>7. /\ Cardinality(Files(e)) <= Cardinality(Files(d))
      /\ Cardinality(Files(e)) = Cardinality(Files(d)) => Files(e) = Files(d)
  BY <1>1, SpecificityIs, SubsetCounts
<1>8. \/ One(e.check) < One(d.check) \/ One(e.log) < One(d.log)
      \/ One(Says(e)) < One(Says(d)) \/ One(Bases(e)) < One(Bases(d))
      \/ One(Titles(e)) < One(Titles(d))
      \/ Cardinality(Files(e)) # Cardinality(Files(d))
      \/ One(e.missing) < One(d.missing)
  <2>1. \A S, T : S = {} /\ T # {} => One(S) < One(T)
    BY DEF One
  <2> QED
    BY <1>2, <1>4, <1>7, <2>1
<1>9. /\ Cardinality(e.states) = Cardinality(d.states)
      /\ Cardinality(e.kinds) = Cardinality(d.kinds)
      /\ \A S \in {d.states, d.kinds, Files(e), Files(d)} :
            Cardinality(S) \in Nat
  BY SpecificityIs
<1> QED
  <2>1. /\ One(e.check) \in Nat /\ One(d.check) \in Nat
        /\ One(Says(e)) \in Nat /\ One(Says(d)) \in Nat
        /\ One(e.log) \in Nat /\ One(d.log) \in Nat
        /\ One(Bases(e)) \in Nat /\ One(Bases(d)) \in Nat
        /\ One(Titles(e)) \in Nat /\ One(Titles(d)) \in Nat
        /\ One(e.missing) \in Nat /\ One(d.missing) \in Nat
    BY <1>6
  <2>2. /\ Cardinality(d.states) \in Nat /\ Cardinality(d.kinds) \in Nat
        /\ Cardinality(Files(e)) \in Nat /\ Cardinality(Files(d)) \in Nat
    BY <1>9
  <2>3. \/ Cardinality(Files(e)) < Cardinality(Files(d))
        \/ Cardinality(Files(e)) = Cardinality(Files(d))
    BY <1>7, <2>2
  <2>4. \/ One(e.check) < One(d.check) \/ One(e.log) < One(d.log)
        \/ One(Says(e)) < One(Says(d)) \/ One(Bases(e)) < One(Bases(d))
        \/ One(Titles(e)) < One(Titles(d))
        \/ Cardinality(Files(e)) < Cardinality(Files(d))
        \/ One(e.missing) < One(d.missing)
    BY <1>8, <2>3
  <2>5. Score(Cardinality(d.states), Cardinality(d.kinds),
              One(e.check), One(Says(e)), One(e.log), One(e.missing),
              One(Bases(e)), One(Titles(e)), Cardinality(Files(e))) <
        Score(Cardinality(d.states), Cardinality(d.kinds),
              One(d.check), One(Says(d)), One(d.log), One(d.missing),
              One(Bases(d)), One(Titles(d)), Cardinality(Files(d)))
    BY <1>5, <1>7, <2>1, <2>2, <2>4, ScoreGrows
  <2> QED
    BY <1>9, <2>5, SpecificityIs

LEMMA RulesNarrowFirst == CatalogueInv => NarrowFirst
<1> SUFFICES ASSUME CatalogueInv, NEW h \in hit, NEW d \in ruleset,
                    Narrower(d, h.rule),
                    d.states = h.rule.states, d.kinds = h.rule.kinds,
                    Hits(d, subject) # {}
             PROVE  FALSE
  BY DEF NarrowFirst
<1> DEFINE e == h.rule
<1>1. hit = Hit(ruleset, subject)
  BY DEF CatalogueInv
<1>2. e \in ruleset /\ (d # e => Before(e, d))
  BY <1>1, HitOfFirst
<1>3. d # e
  BY DEF Narrower
<1>4. RuleDocument(d) /\ RuleDocument(e)
  BY <1>2, DirectoriesAssumption DEF CatalogueInv
<1>5. Specificity(e) < Specificity(d)
  BY <1>4, NarrowerScoresHigher
<1>6. Specificity(e) \in Nat /\ Specificity(d) \in Nat
  BY <1>4, SpecificityIs
<1> QED
  BY <1>2, <1>3, <1>5, <1>6 DEF Before

-----------------------------------------------------------------------------
(* The three together, as DSpec runs them.                                 *)
DecisionsInv == EligibilityInv /\ VerdictInv /\ CatalogueInv

LEMMA DecisionsInvariant == DSpec => []DecisionsInv
<1>1. DInit => DecisionsInv
  <2> SUFFICES ASSUME DInit PROVE DecisionsInv
    OBVIOUS
  <2>1. EligibilityInv
    BY EligibilityInit DEF DInit
  <2>2. VRest
    <3> HIDE DEF VRest
    <3> QED
      BY DEF DInit, VInit
  <2>3. RRest /\ (part = "rules" => files \in Directories)
    BY DEF DInit, RInit
  <2>4. CatalogueInv
    BY <2>3 DEF RRest, CatalogueInv
  <2> QED
    BY <2>1, <2>2, <2>4, VerdictInit DEF DecisionsInv
<1>2. DecisionsInv /\ [DNext]_decisionVars => DecisionsInv'
  <2> SUFFICES ASSUME DecisionsInv, [DNext]_decisionVars PROVE DecisionsInv'
    OBVIOUS
  <2>1. /\ [ENext]_<<vars, judged>> /\ [VNext]_verdictVars
        /\ part' = part
    BY DEF DNext, decisionVars
  <2>0. [ENext]_<<vars, judged>>
    BY <2>1
  <2>2. UNCHANGED ruleVars \/ (part = "rules" /\ RNext)
    BY DEF DNext, decisionVars
  <2>3. EligibilityInv'
    <3>1. EligibilityInv
      BY DEF DecisionsInv
    <3> QED
      BY <2>0, <3>1, EligibilityStep, Zenon
  <2>4. VerdictInv'
    BY <2>1, VerdictStep DEF DecisionsInv
  <2>5. CatalogueInv'
    BY <2>1, <2>2, CatalogueStep DEF DecisionsInv
  <2> QED
    BY <2>3, <2>4, <2>5 DEF DecisionsInv
<1> QED
  BY <1>1, <1>2, PTL DEF DSpec

\* A behaviour of the decisions is one of the resolution of a policy, so that
\* what is proved of Spec holds of DSpec.
THEOREM ResolvesPolicy == DSpec => Spec
<1>1. DInit => Init
  BY DEF DInit, EInit
<1>2. [DNext]_decisionVars => [Next]_vars
  BY DEF DNext, decisionVars, ENext, Judge
<1> QED
  BY <1>1, <1>2, PTL DEF DSpec, Spec

\* Only a bot's PR merges, never one under a login somebody took over or of an
\* owner no Renovate signed (kind.go 97-100, 117-120).
THEOREM BotsOnly == DSpec => []ImpostorsWait
BY DecisionsInvariant, JudgedImpostorsWait, PTL DEF DecisionsInv

\* No change a merged PR carries is larger than the update the policy lists,
\* however many rows, pairs and files name versions (kind.go 241-246), but for
\* the rows of a PR whose title names the size or both versions: it decides.
THEOREM WithinUpdate == DSpec => []NoRowOutgrows
BY DecisionsInvariant, JudgedByLargest, PTL DEF DecisionsInv

\* A PR is held for a proof exactly when its body still asks for one, for a
\* body of any length (proof.go 19-26): the scan by line finds what the
\* reference definition, which quantifies over lines, calls open.
THEOREM ProofsFirst == DSpec => []ProofsAreGiven
BY DecisionsInvariant, JudgedByProofs, PTL DEF DecisionsInv

\* A PR passes only when each red check of its head is excused and remembered,
\* for any checks, any reads that fail and any number of polls
\* (checks.go 17-21).
THEOREM RedNeedsExcuse == DSpec => []RedIsExcused
BY DecisionsInvariant, RowRedIsExcused, PTL DEF DecisionsInv

\* A PR passes only with every required context green under some name it may
\* mean and red under none (evaluateRequired, lookupContext).
THEOREM RequiredFirst == DSpec => []RequiredPassed
BY DecisionsInvariant, RowRequiredPassed, PTL DEF DecisionsInv

\* Nothing holds back a head that is green throughout (evaluateChecks,
\* getCombinedCheckState).
THEOREM GreenGoes == DSpec => []GreenPasses
BY DecisionsInvariant, RowGreenPasses, PTL DEF DecisionsInv

\* What fails a PR ran and failed, or the read that would have told otherwise
\* failed, or it is a build CircleCI cancelled itself beside a check that was
\* a failure, which classifyCancelled takes the whole head for (infra.go
\* 20-26, cancelled.go 86-145).
THEOREM OnlyRunsFail == DSpec => []FailureRan
BY DecisionsInvariant, RowFailureRan, PTL DEF DecisionsInv

\* A rule never acts on a name or a title alone, for any directory of rules
\* (parse.go 239-248).
THEOREM ActsOnEvidence == DSpec => []Diagnosed
BY DecisionsInvariant, RulesDiagnose, PTL DEF DecisionsInv

\* A rule that asks all another asks, and more, is never shadowed by it
\* (load.go 53-56): it scores higher, whatever the signals are.
THEOREM NarrowBeatsBroad == DSpec => []NarrowFirst
BY DecisionsInvariant, RulesNarrowFirst, PTL DEF DecisionsInv
=============================================================================
