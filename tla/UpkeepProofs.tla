---------------------------- MODULE UpkeepProofs ----------------------------
(***************************************************************************)
(* What a sweep does for the PRs it does not merge: a remedy is repeated   *)
(* only where its record was lost or unreadable, a run starts no more      *)
(* suites than its budget, a workflow that posted nothing is rerun once in *)
(* a pipeline, and a handoff stays within the week and never collides with *)
(* a PR a person had open when the week was counted.  Each holds for any   *)
(* number of PRs, rules, pipelines, workflows, runs and sweeps.            *)
(***************************************************************************)
EXTENDS Upkeep, Induction, FunctionTheorems, SequenceTheorems

IsFcn(f) == f = [k \in DOMAIN f |-> f[k]]

-----------------------------------------------------------------------------
\* The next candidate is one.
LEMMA MinIsMember ==
    ASSUME NEW S \in SUBSET Nat, S # {}
    PROVE  Min(S) \in S
BY LeastMember DEF Min

-----------------------------------------------------------------------------
(* The handoff.  What was listed in this run covers every PR that was open  *)
(* since before the count, although people close theirs meanwhile.          *)
Covers(list, repo) ==
    ~list.err => {t \in since : t.repo = repo} \subseteq list.prs

HandoffInv ==
    /\ since \subseteq people
    /\ IsFcn(candidates) /\ DOMAIN candidates \subseteq Rows
    /\ stage # "decide" => listed = None
    /\ \A repo \in DOMAIN listed : Covers(listed[repo], repo)

\* Nothing but a candidate that is handed over changes what was handed over in
\* the run; a new run forgets it.
NoneHanded == handed' \subseteq handed

NothingHits(p) ==
    LET row == Table[RowOfPR(p)]
    IN \A t \in since : t.repo = row.repo => t.files \intersect row.files = {}

\* A candidate that is handed over was listed beside every PR of a person that
\* was open since before the count.
LEMMA HandOverLists ==
    ASSUME HandoffInv, NEW readable \in BOOLEAN, HandOver(readable)
    PROVE  /\ HandoffInv'
           /\ \A p \in handed' \ handed : NothingHits(p)
<1> DEFINE i == Min(DOMAIN candidates)
           repo == Table[i].repo
<1>1. /\ stage = "decide" /\ candidates # None
      /\ UNCHANGED <<stage, since, people>>
  BY DEF HandOver, world
<1>2. i \in DOMAIN candidates /\ i \in Rows
  <2>1. DOMAIN candidates # {}
    BY <1>1 DEF HandoffInv, None, IsFcn
  <2> QED
    BY <2>1, MinIsMember, TableAssumption DEF HandoffInv, Rows
<1>3. candidates' = [j \in DOMAIN candidates \ {i} |-> candidates[j]]
  BY DEF HandOver, Decided
<1>4. IsFcn(candidates)' /\ (DOMAIN candidates \subseteq Rows)'
  BY <1>3 DEF HandoffInv, IsFcn
<1>5. CASE UNCHANGED <<listed, handed>>
  BY <1>1, <1>4, <1>5 DEF HandoffInv, Covers
<1>6. CASE ~UNCHANGED <<listed, handed>>
  <2>1. PICK list \in IF repo \in DOMAIN listed THEN {listed[repo]}
                      ELSE ListedNow(repo) :
           /\ listed' = Noted(listed, repo, list)
           /\ IF list.err \/ \E t \in list.prs : Collides(i, t)
              THEN UNCHANGED handed
              ELSE handed' = handed \union {Table[i].pr}
    BY <1>6 DEF HandOver, memory
  <2>2. Covers(list, repo)
    BY <2>1 DEF HandoffInv, ListedNow, Covers
  <2>3. \A r \in DOMAIN listed' : Covers(listed'[r], r)
    BY <2>1, <2>2 DEF HandoffInv, Noted
  <2>4. HandoffInv'
    BY <1>1, <1>4, <2>3 DEF HandoffInv, Covers
  <2>5. ASSUME NEW p \in handed' \ handed PROVE NothingHits(p)
    <3>1. p = Table[i].pr /\ ~list.err /\ \A t \in list.prs : ~Collides(i, t)
      BY <2>1, <2>5
    <3>2. RowOfPR(p) = i
      BY <1>2, <3>1, TableAssumption DEF RowOfPR, Rows
    <3>3. ASSUME NEW t \in since, t.repo = repo
          PROVE  t.files \intersect Table[i].files = {}
      BY <2>2, <3>1, <3>3 DEF Covers, Collides
    <3> QED
      BY <3>2, <3>3 DEF NothingHits
  <2> QED
    BY <2>4, <2>5
<1> QED
  BY <1>5, <1>6

\* Every step keeps what was listed, and only a candidate is handed over.
LEMMA HandoffStep ==
    ASSUME HandoffInv, [HandoffNext]_handoffVars
    PROVE  /\ HandoffInv'
           /\ \A p \in handed' \ handed : NothingHits(p)
<1> USE DEF Covers, NoneHanded
<1>1. ASSUME NEW row \in Rows, Classify(row) PROVE HandoffInv' /\ NoneHanded
  <2>1. /\ IsFcn(candidates)'
        /\ DOMAIN candidates' \subseteq DOMAIN candidates \union {row}
    BY <1>1 DEF Classify, HandoffInv, IsFcn, Noted
  <2> QED
    BY <1>1, <2>1 DEF Classify, HandoffInv, world, memory
<1>2. ASSUME NEW readable \in BOOLEAN, CountWeek(readable)
      PROVE  HandoffInv' /\ NoneHanded
  BY <1>2 DEF CountWeek, HandoffInv, world, memory, None, IsFcn
<1>3. CASE HandoffEnds
  BY <1>3 DEF HandoffEnds, HandoffInv, world, None, IsFcn
<1>4. CASE NextHandoff
  BY <1>4 DEF NextHandoff, HandoffInv, world, None, IsFcn
<1>5. ASSUME NEW p \in Team,
             \/ \E pushes \in BOOLEAN : Marks(p, pushes)
             \/ MarkAges(p) \/ HeadMoves(p) \/ Ends(p) \/ Conflicts(p)
      PROVE  HandoffInv' /\ NoneHanded
  <2>1. UNCHANGED <<Inside, people, since>>
    BY <1>5 DEF Marks, MarkAges, HeadMoves, Ends, Conflicts
  <2> QED
    BY <2>1 DEF HandoffInv, Inside, memory, IsFcn
<1>6. ASSUME NEW t \in Teammates, PersonOpens(t) \/ PersonCloses(t)
      PROVE  HandoffInv' /\ NoneHanded
  BY <1>6 DEF PersonOpens, PersonCloses, HandoffInv, Inside, memory, IsFcn
<1>7. CASE UNCHANGED handoffVars
  BY <1>7 DEF handoffVars, HandoffInv, world, memory, IsFcn
<1> QED
  BY <1>1, <1>2, <1>3, <1>4, <1>5, <1>6, <1>7, HandOverLists DEF HandoffNext

-----------------------------------------------------------------------------
(* The week.  What was handed over, what may still be, and the markers that *)
(* were counted make up no more than the week allows.                       *)
InWeek ==
    Cardinality(handed) + remaining + before <= allowed

WeekInv ==
    /\ allowed \in Nat /\ remaining \in Nat /\ before \in Nat
    /\ IsFiniteSet(handed)
    /\ stage = "sweep" => handed = {}
    /\ handed # {} \/ remaining # 0 => InWeek

\* A team has finitely many markers: they can be counted.
LEMMA MarkersMany == \A S \in SUBSET Team : Cardinality(Markers(S)) \in Nat
<1> SUFFICES ASSUME NEW S \in SUBSET Team
             PROVE  Cardinality(Markers(S)) \in Nat
  OBVIOUS
<1>1. IsFiniteSet(Team)
  <2> DEFINE f == [i \in Rows |-> Table[i].pr]
  <2>1. IsFiniteSet(Rows)
    BY TableAssumption DEF Rows
  <2>2. f \in Surjection(Rows, Team)
    BY DEF Surjection, Team
  <2> QED
    BY <2>1, <2>2, FS_Surjection, Zenon
<1>2. IsFiniteSet(S \X (1..MaxMarks))
  <2>1. IsFiniteSet(S)
    BY <1>1, FS_Subset, Zenon
  <2>2. IsFiniteSet(1..MaxMarks)
    BY WeeksAssumption, FS_Interval
  <2> QED
    BY <2>1, <2>2, FS_Product, Zenon
<1> QED
  BY <1>2, FS_Subset, FS_CardinalityType DEF Markers

\* A rescue is handed over for one that remained; nothing else spends.
LEMMA WeekStep == WeekInv /\ [HandoffNext]_handoffVars => WeekInv'
<1> SUFFICES ASSUME WeekInv, [HandoffNext]_handoffVars PROVE WeekInv'
  OBVIOUS
<1>1. ASSUME UNCHANGED <<allowed, remaining, handed, before>>,
             UNCHANGED stage \/ stage' # "sweep"
      PROVE  WeekInv'
  BY <1>1 DEF WeekInv, InWeek
<1>2. ASSUME NEW row \in Rows, Classify(row) PROVE WeekInv'
  BY <1>1, <1>2 DEF Classify
<1>3. ASSUME NEW readable \in BOOLEAN, CountWeek(readable) PROVE WeekInv'
  <2>1. CASE UNCHANGED <<remaining, before>>
    <3>1. /\ stage' \in {"over", "decide"}
          /\ UNCHANGED <<allowed, remaining, handed, before>>
      BY <1>3, <2>1 DEF CountWeek
    <3> QED
      BY <1>1, <3>1
  <2>2. CASE ~UNCHANGED <<remaining, before>>
    <3> DEFINE total == Cardinality(Markers(Team))
    <3>1. /\ stage = "sweep" /\ stage' = "decide"
          /\ remaining' = allowed - (IF total < allowed THEN total ELSE allowed)
          /\ before' = total /\ UNCHANGED <<allowed, handed>>
      BY <1>3, <2>2 DEF CountWeek, Counted
    <3>2. total \in Nat
      BY MarkersMany
    <3>3. handed' = {} /\ Cardinality(handed') = 0 /\ IsFiniteSet(handed')
      BY <3>1, FS_EmptySet DEF WeekInv
    <3>4. allowed \in Nat
      BY DEF WeekInv
    <3> HIDE DEF total
    <3> QED
      BY <3>1, <3>2, <3>3, <3>4 DEF WeekInv, InWeek
  <2> QED
    BY <2>1, <2>2
<1>4. ASSUME NEW readable \in BOOLEAN, HandOver(readable) PROVE WeekInv'
  <2>1. UNCHANGED <<stage, allowed, before>> /\ stage = "decide"
    BY <1>4 DEF HandOver
  <2>2. CASE UNCHANGED <<remaining, handed>>
    BY <1>1, <2>1, <2>2
  <2>3. CASE ~UNCHANGED <<remaining, handed>>
    <3>1. PICK p : /\ remaining # 0 /\ remaining' = remaining - 1
                   /\ handed' = handed \union {p}
      BY <1>4, <2>3 DEF HandOver
    <3>2. IsFiniteSet(handed) /\ Cardinality(handed) \in Nat
      BY FS_CardinalityType DEF WeekInv
    <3>3. /\ IsFiniteSet(handed \union {p})
          /\ \/ Cardinality(handed \union {p}) = Cardinality(handed)
             \/ Cardinality(handed \union {p}) = Cardinality(handed) + 1
      BY <3>2, FS_AddElement
    <3> QED
      BY <2>1, <3>1, <3>2, <3>3 DEF WeekInv, InWeek
  <2> QED
    BY <2>2, <2>3
<1>5. CASE HandoffEnds
  <2>1. /\ stage' = "over" /\ remaining' = 0
        /\ UNCHANGED <<allowed, handed, before>>
    BY <1>5 DEF HandoffEnds
  <2>2. Cardinality(handed) \in Nat
    BY FS_CardinalityType DEF WeekInv
  <2> QED
    BY <2>1, <2>2 DEF WeekInv, InWeek
<1>6. CASE NextHandoff
  BY <1>6, FS_EmptySet DEF NextHandoff, WeekInv
<1>7. ASSUME NEW p \in Team,
             \/ \E pushes \in BOOLEAN : Marks(p, pushes)
             \/ MarkAges(p) \/ HeadMoves(p) \/ Ends(p) \/ Conflicts(p)
      PROVE  WeekInv'
  <2>1. UNCHANGED Inside
    BY <1>7 DEF Marks, MarkAges, HeadMoves, Ends, Conflicts
  <2> QED
    BY <1>1, <2>1 DEF Inside
<1>8. ASSUME NEW t \in Teammates, PersonOpens(t) \/ PersonCloses(t)
      PROVE  WeekInv'
  BY <1>1, <1>8 DEF PersonOpens, PersonCloses, Inside
<1>9. CASE UNCHANGED handoffVars
  BY <1>1, <1>9 DEF handoffVars
<1> QED
  BY <1>2, <1>3, <1>4, <1>5, <1>6, <1>7, <1>8, <1>9 DEF HandoffNext

\* A week begins with nothing handed over.
LEMMA WeekStarts == HandoffInit => WeekInv
BY WeeksAssumption, FS_EmptySet DEF HandoffInit, WeekInv

\* What remains is no less than nothing, so the rest is within the week.
LEMMA BoundsWeek == WeekInv => WithinWeek
<1> SUFFICES ASSUME WeekInv, handed # {}
             PROVE  Cardinality(handed) + before <= allowed
  BY DEF WithinWeek
<1>1. Cardinality(handed) \in Nat
  BY FS_CardinalityType DEF WeekInv
<1> QED
  BY <1>1 DEF WeekInv, InWeek

\* No PR is handed over while a PR of a person that has been open since before
\* the count changes one of its files (teammateRefusal).
THEOREM NeverCollides == HandoffSpec => NoCollision
<1>1. HandoffInit => HandoffInv
  BY DEF HandoffInit, HandoffInv, None, IsFcn
<1>2. HandoffInv /\ [HandoffNext]_handoffVars => HandoffInv'
  BY HandoffStep
<1>3. HandoffInv /\ [HandoffNext]_handoffVars =>
         [\A p \in handed' \ handed :
            LET row == Table[RowOfPR(p)]
            IN \A t \in since : t.repo = row.repo =>
                                  t.files \intersect row.files = {}]_handoffVars
  BY HandoffStep DEF NothingHits
<1> QED
  BY <1>1, <1>2, <1>3, PTL DEF HandoffSpec, NoCollision

-----------------------------------------------------------------------------
(* The reruns.  CircleCI's list of a pipeline shows every rerun that was    *)
(* made in it, so what is about to be rerun was not, and is asked for once. *)
RunFields == {"pipeline", "name", "rerun", "posts", "jobs"}

FlowsOK ==
    /\ flows \in Seq(Range(flows))
    /\ \A i \in DOMAIN flows : IsFcn(flows[i]) /\ DOMAIN flows[i] = RunFields

Places == (1..MaxPipelines) \X Workflows

Shows(r) ==
    \E i \in DOMAIN flows : /\ flows[i].pipeline = r[1]
                           /\ flows[i].name = r[2] /\ flows[i].rerun

RecordShows == \A r \in Places : reruns[r] # 0 => Shows(r)

AskedOnce ==
    step = "rerun" =>
        /\ found \in Seq(Places)
        /\ \A i, k \in DOMAIN found : found[i] = found[k] => i = k
        /\ \A i \in DOMAIN found : reruns[found[i]] = 0

RerunInv ==
    /\ pipelines \in 1..MaxPipelines
    /\ reruns \in [Places -> {0, 1}]
    /\ FlowsOK /\ RecordShows /\ AskedOnce

\* A list of a finite set names each of its members once.
LEMMA ListsOnce ==
    ASSUME NEW S, IsFiniteSet(S)
    PROVE  /\ SetToSeq(S) \in Seq(S)
           /\ DOMAIN SetToSeq(S) = 1..Cardinality(S)
           /\ \A i, k \in DOMAIN SetToSeq(S) :
                 SetToSeq(S)[i] = SetToSeq(S)[k] => i = k
<1>1. Cardinality(S) \in Nat /\ ExistsBijection(1..Cardinality(S), S)
  BY FS_CardinalityType
<1>2. PICK f \in [1..Cardinality(S) -> S] : IsInjective(f)
  BY <1>1 DEF ExistsBijection, Bijection, Injection
<1>3. /\ SetToSeq(S) \in [1..Cardinality(S) -> S]
      /\ IsInjective(SetToSeq(S))
  BY <1>2 DEF SetToSeq
<1> QED
  BY <1>1, <1>3 DEF IsInjective

\* A run is of the form the list keeps.
IsRun(f) == IsFcn(f) /\ DOMAIN f = RunFields

\* Runs that are added leave the others in the list.
RunsKept == \A i \in DOMAIN flows :
            i \in DOMAIN flows' /\ flows'[i] = flows[i]

\* A rerun that begins is shown in the list of its pipeline.
LEMMA BeginsShows ==
    ASSUME FlowsOK, NEW pipeline, NEW w, NEW jobs, NEW posts,
           Begins(pipeline, w, jobs, posts)
    PROVE  /\ FlowsOK' /\ RunsKept /\ UNCHANGED pipelines
           /\ \E k \in DOMAIN flows' :
                 /\ flows'[k].pipeline = pipeline
                 /\ flows'[k].name = w /\ flows'[k].rerun
<1>1. PICK run : run = [pipeline |-> pipeline, name |-> w, rerun |-> TRUE,
                         posts |-> posts, jobs |-> jobs]
  OBVIOUS
<1>2. /\ IsRun(run)
      /\ run.pipeline = pipeline /\ run.name = w /\ run.rerun
  BY <1>1 DEF IsRun, IsFcn, RunFields
<1>3. flows' = Append(flows, run) /\ UNCHANGED pipelines
  BY <1>1 DEF Begins
<1> DEFINE T == Range(flows) \union {run}
<1>4. flows \in Seq(T) /\ run \in T
  BY SeqMonotonic DEF FlowsOK
<1> HIDE DEF T
<1>5. /\ flows' \in Seq(T) /\ Len(flows') = Len(flows) + 1
      /\ \A i \in 1..Len(flows) : flows'[i] = flows[i]
      /\ flows'[Len(flows) + 1] = run
  BY <1>3, <1>4, AppendProperties
<1>6. /\ Len(flows) \in Nat /\ DOMAIN flows = 1..Len(flows)
      /\ DOMAIN flows' = 1..(Len(flows) + 1)
  BY <1>4, <1>5, LenProperties
<1>7. flows' \in Seq(Range(flows'))
  BY <1>5, SeqOfRange
<1>8. ASSUME NEW i \in DOMAIN flows' PROVE IsRun(flows'[i])
  <2>1. i \in 1..Len(flows) \/ i = Len(flows) + 1
    BY <1>6
  <2> QED
    BY <1>2, <1>5, <1>6, <2>1 DEF FlowsOK, IsRun
<1> QED
  BY <1>2, <1>3, <1>5, <1>6, <1>7, <1>8 DEF FlowsOK, RunsKept, IsRun

\* What a pipeline begins with is a list of runs.
LEMMA FirstAreRuns ==
    ASSUME NEW posts \in Selections, NEW pipeline, NEW new,
           new = FirstRuns(pipeline, posts)
    PROVE  /\ new \in Seq(Range(new))
           /\ \A i \in DOMAIN new : IsRun(new[i])
<1> DEFINE n == Cardinality(DOMAIN posts)
<1>1. n \in Nat
  <2>1. DOMAIN posts \subseteq Workflows
    BY DEF Selections
  <2> QED
    BY <2>1, WorkflowsAssumption, FS_Subset, FS_CardinalityType DEF Workflows
<1>2. DOMAIN new = 1..n /\ IsFcn(new)
  BY DEF FirstRuns, IsFcn
<1>3. \A i \in 1..n : IsRun(new[i])
  BY DEF FirstRuns, IsRun, IsFcn, RunFields
<1> HIDE DEF n
<1>4. new \in [1..n -> Range(new)]
  BY <1>2 DEF IsFcn, Range
<1>5. new \in Seq(Range(new))
  BY <1>1, <1>4, SeqDef
<1> QED
  BY <1>2, <1>3, <1>5

\* A pipeline that starts leaves the runs there were.
LEMMA StartsKeep ==
    ASSUME FlowsOK, NEW posts \in Selections, NEW pipeline,
           flows' = flows \o FirstRuns(pipeline, posts)
    PROVE  FlowsOK' /\ RunsKept
<1>1. PICK new : new = FirstRuns(pipeline, posts)
  OBVIOUS
<1>2. new \in Seq(Range(new)) /\ \A i \in DOMAIN new : IsRun(new[i])
  BY <1>1, FirstAreRuns
<1> DEFINE T == Range(flows) \union Range(new)
<1>3. flows \in Seq(T) /\ new \in Seq(T)
  <2>1. Range(flows) \subseteq T /\ Range(new) \subseteq T
    OBVIOUS
  <2> HIDE DEF T
  <2> QED
    BY <1>2, <2>1, SeqMonotonic DEF FlowsOK
<1> HIDE DEF T
<1>4. /\ flows' \in Seq(T) /\ Len(flows') = Len(flows) + Len(new)
      /\ \A i \in 1..Len(flows) + Len(new) : flows'[i] =
                IF i <= Len(flows) THEN flows[i] ELSE new[i - Len(flows)]
  BY <1>1, <1>3, ConcatProperties
<1>5. /\ Len(flows) \in Nat /\ DOMAIN flows = 1..Len(flows)
      /\ Len(new) \in Nat /\ DOMAIN new = 1..Len(new)
      /\ DOMAIN flows' = 1..(Len(flows) + Len(new))
  BY <1>3, <1>4, LenProperties
<1>6. flows' \in Seq(Range(flows'))
  BY <1>4, SeqOfRange
<1>7. ASSUME NEW i \in DOMAIN flows' PROVE IsRun(flows'[i])
  <2>1. CASE i <= Len(flows)
    BY <1>4, <1>5, <2>1 DEF FlowsOK, IsRun
  <2>2. CASE ~(i <= Len(flows))
    <3>1. i - Len(flows) \in DOMAIN new /\ flows'[i] = new[i - Len(flows)]
      BY <1>4, <1>5, <2>2
    <3> QED
      BY <1>2, <3>1
  <2> QED
    BY <2>1, <2>2
<1>8. RunsKept
  BY <1>4, <1>5 DEF RunsKept
<1> QED
  BY <1>6, <1>7, <1>8 DEF FlowsOK, IsRun

SameRun(k) ==
    /\ flows'[k].pipeline = flows[k].pipeline
    /\ flows'[k].name = flows[k].name
    /\ flows'[k].rerun = flows[k].rerun

\* What becomes of the jobs of a run changes no run's place, name or tag.
LEMMA JobsOnly ==
    ASSUME FlowsOK, NEW i, NEW jobs, flows' = [flows EXCEPT ![i].jobs = jobs]
    PROVE  /\ FlowsOK' /\ DOMAIN flows' = DOMAIN flows
           /\ \A k \in DOMAIN flows : SameRun(k)
<1>1. flows \in Seq(Range(flows))
  BY DEF FlowsOK
<1>2. DOMAIN flows' = DOMAIN flows /\ flows' \in Seq(Range(flows'))
  <2>1. Len(flows) \in Nat /\ DOMAIN flows = 1..Len(flows)
    BY <1>1
  <2>2. flows' \in [1..Len(flows) -> Range(flows')]
    BY <2>1 DEF Range
  <2>3. \A T : \A n \in Nat : \A s \in [1..n -> T] : s \in Seq(T)
    OBVIOUS
  <2>4. flows' \in Seq(Range(flows'))
    BY <2>1, <2>2, <2>3
  <2> QED
    BY <2>1, <2>4
<1>3. ASSUME NEW k \in DOMAIN flows
      PROVE  /\ IsFcn(flows'[k]) /\ DOMAIN flows'[k] = RunFields
             /\ SameRun(k)
  <2>1. IsFcn(flows[k]) /\ DOMAIN flows[k] = RunFields
    BY DEF FlowsOK
  <2>2. CASE k = i
    <3>1. flows'[k] = [flows[k] EXCEPT !.jobs = jobs]
      BY <2>2
    <3> QED
      BY <2>1, <3>1 DEF IsFcn, RunFields, SameRun
  <2>3. CASE k # i
    BY <2>1, <2>3 DEF SameRun
  <2> QED
    BY <2>2, <2>3
<1> QED
  BY <1>2, <1>3 DEF FlowsOK

\* A list that only grows, and keeps places, names and tags, shows what it
\* showed.
LEMMA ShownStays ==
    ASSUME RecordShows, UNCHANGED reruns,
           \A i \in DOMAIN flows : i \in DOMAIN flows' /\ SameRun(i)
    PROVE  RecordShows'
BY DEF RecordShows, Shows, SameRun

\* A workflow is rerun from the list alone, and then the record shows it.
LEMMA RerunStep == RerunInv /\ [RerunSteps]_rerunVars => RerunInv'
<1> SUFFICES ASSUME RerunInv, [RerunSteps]_rerunVars PROVE RerunInv'
  OBVIOUS
<1> USE DEF RerunInv
<1>1. ASSUME UNCHANGED <<pipelines, flows, reruns>>,
             step' # "rerun" \/ UNCHANGED <<step, found>>
      PROVE  RerunInv'
  BY <1>1 DEF FlowsOK, RecordShows, Shows, AskedOnce
<1>2. ASSUME FlowsOK', \A i \in DOMAIN flows : i \in DOMAIN flows' /\ SameRun(i),
             pipelines' \in 1..MaxPipelines, UNCHANGED reruns,
             step' # "rerun" \/ UNCHANGED <<step, found>>
      PROVE  RerunInv'
  <2>1. RecordShows'
    BY <1>2, ShownStays
  <2>2. AskedOnce'
    BY <1>2 DEF AskedOnce
  <2> QED
    BY <1>2, <2>1, <2>2
<1>3. RunsKept => \A i \in DOMAIN flows : i \in DOMAIN flows' /\ SameRun(i)
  BY DEF RunsKept, SameRun
<1>4. ASSUME NEW i, NEW j, NEW state, JobEnds(i, j, state) PROVE RerunInv'
  <2>1. PICK jobs : flows' = [flows EXCEPT ![i].jobs = jobs]
    BY <1>4 DEF JobEnds
  <2>2. UNCHANGED <<pipelines, reruns, step, found>>
    BY <1>4 DEF JobEnds
  <2>3. FlowsOK' /\ \A k \in DOMAIN flows : k \in DOMAIN flows' /\ SameRun(k)
    BY <2>1, JobsOnly
  <2> QED
    BY <1>2, <2>2, <2>3
<1>5. ASSUME NEW posts \in Selections, PipelineStarts(posts) PROVE RerunInv'
  <2>1. /\ flows' = flows \o FirstRuns(pipelines + 1, posts)
        /\ pipelines' = pipelines + 1 /\ pipelines < MaxPipelines
        /\ UNCHANGED <<reruns, step, found>>
    BY <1>5 DEF PipelineStarts
  <2>2. FlowsOK' /\ RunsKept
    BY <2>1, StartsKeep
  <2>3. pipelines' \in 1..MaxPipelines
    BY <2>1, PipelinesAssumption
  <2> QED
    BY <1>2, <1>3, <2>1, <2>2, <2>3
<1>6. ASSUME NEW readable \in BOOLEAN, Read(readable) PROVE RerunInv'
  <2>1. UNCHANGED <<pipelines, flows, reruns>> /\ step' # "rerun"
    BY <1>6 DEF Read, Decide, ci
  <2> QED
    BY <1>1, <2>1
<1>7. ASSUME NEW readable \in BOOLEAN, NEW built \in BOOLEAN,
             Unposted(readable, built)
      PROVE  RerunInv'
  <2> DEFINE missing == {j \in Jobs : reported[j] = ""}
             lost == {w \in Workflows : /\ RunsOf(pipelines, w) # {}
                                        /\ JobsOf[w] \intersect missing # {}}
             list == SetToSeq(lost)
  <2>1. UNCHANGED <<pipelines, flows, reruns>>
    BY <1>7 DEF Unposted, ci
  <2>2. CASE step' = "rerun"
    <3>1. /\ found' = [i \in 1..Cardinality(lost) |-> <<pipelines, list[i]>>]
          /\ \A w \in lost : ~RerunMade(pipelines, w)
      BY <1>7, <2>2 DEF Unposted, Decide
    <3>2. IsFiniteSet(lost) /\ Cardinality(lost) \in Nat
      BY WorkflowsAssumption, FS_Subset, FS_CardinalityType DEF Workflows
    <3>3. /\ list \in Seq(lost) /\ DOMAIN list = 1..Cardinality(lost)
          /\ \A i, k \in DOMAIN list : list[i] = list[k] => i = k
      BY <3>2, ListsOnce
    <3>4. lost \subseteq Workflows
      OBVIOUS
    <3>5. \A w \in lost : <<pipelines, w>> \in Places
                          /\ reruns[<<pipelines, w>>] = 0
      <4>1. \A w \in Workflows : Shows(<<pipelines, w>>) => RerunMade(pipelines, w)
        BY DEF Shows, RerunMade, RunsOf
      <4>2. \A w \in lost : <<pipelines, w>> \in Places
        BY <3>4 DEF Places
      <4> QED
        BY <3>1, <3>4, <4>1, <4>2 DEF RecordShows
    <3> HIDE DEF lost, list
    <3>6. \A i \in 1..Cardinality(lost) : list[i] \in lost
      <4>1. list \in [1..Len(list) -> lost] /\ DOMAIN list = 1..Len(list)
        BY <3>3, LenProperties, Zenon
      <4> QED
        BY <3>3, <4>1
    <3>7. found' \in Seq(Places)
      <4>1. found' \in [1..Cardinality(lost) -> Places]
        BY <3>1, <3>5, <3>6
      <4>2. \A T : \A n \in Nat : \A s \in [1..n -> T] : s \in Seq(T)
        OBVIOUS
      <4> QED
        BY <3>2, <4>1, <4>2
    <3>8. \A i, k \in DOMAIN found' : found'[i] = found'[k] => i = k
      BY <3>1, <3>3
    <3>9. \A i \in DOMAIN found' : reruns[found'[i]] = 0
      BY <3>1, <3>5, <3>6
    <3>10. AskedOnce'
      BY <2>1, <3>7, <3>8, <3>9 DEF AskedOnce
    <3> QED
      BY <2>1, <3>10 DEF FlowsOK, RecordShows, Shows
  <2>3. CASE step' # "rerun"
    BY <1>1, <2>1, <2>3
  <2> QED
    BY <2>2, <2>3
<1>8. ASSUME NEW answer \in Replies, RerunCancelled(answer) PROVE RerunInv'
  <2>1. UNCHANGED reruns /\ step' # "rerun"
    BY <1>8 DEF RerunCancelled, Decide
  <2>2. CASE UNCHANGED ci
    BY <1>1, <2>1, <2>2 DEF ci
  <2>3. ASSUME NEW p, NEW w, NEW jobs, NEW posts, Begins(p, w, jobs, posts)
        PROVE  RerunInv'
    BY <1>2, <1>3, <2>1, <2>3, BeginsShows
  <2>4. ASSUME NEW i, NEW j, flows' = [flows EXCEPT ![i].jobs[j] = "running"],
               UNCHANGED pipelines
        PROVE  RerunInv'
    <3> DEFINE again == [flows[i].jobs EXCEPT ![j] = "running"]
    <3>1. flows' = [flows EXCEPT ![i].jobs = again]
      BY <2>4
    <3> HIDE DEF again
    <3>2. FlowsOK' /\ \A k \in DOMAIN flows : k \in DOMAIN flows' /\ SameRun(k)
      BY <3>1, JobsOnly
    <3> QED
      BY <1>2, <2>1, <2>4, <3>2
  <2> QED
    BY <1>8, <2>2, <2>3, <2>4 DEF RerunCancelled
<1>9. ASSUME NEW answer \in Replies, RerunNext(answer) PROVE RerunInv'
  <2>1. CASE found = <<>>
    <3>1. step' # "rerun" /\ UNCHANGED <<pipelines, flows, reruns>>
      BY <1>9, <2>1 DEF RerunNext, Decide, ci
    <3> QED
      BY <1>1, <3>1
  <2>2. CASE found # <<>>
    <3>1. step = "rerun" /\ found \in Seq(Places)
      BY <1>9 DEF RerunNext, AskedOnce
    <3>0. PICK r : r = found[1]
      OBVIOUS
    <3>2. /\ r \in Places /\ reruns[r] = 0 /\ Tail(found) \in Seq(Places)
          /\ \A i \in DOMAIN Tail(found) :
                i + 1 \in DOMAIN found /\ Tail(found)[i] = found[i + 1]
          /\ 1 \in DOMAIN found
          /\ DOMAIN Tail(found) \subseteq Nat \ {0}
      BY <2>2, <3>0, <3>1 DEF AskedOnce
    <3>3. /\ \A i, k \in DOMAIN Tail(found) :
                Tail(found)[i] = Tail(found)[k] => i = k
          /\ \A i \in DOMAIN Tail(found) :
                Tail(found)[i] # r /\ reruns[Tail(found)[i]] = 0
      BY <3>0, <3>1, <3>2 DEF AskedOnce
    <3>4. step' # "rerun" \/ found' = Tail(found)
      BY <1>9, <2>2 DEF RerunNext, Decide
    <3>5. CASE UNCHANGED <<ci, reruns>>
      BY <3>2, <3>3, <3>4, <3>5 DEF ci, FlowsOK, RecordShows, Shows, AskedOnce
    <3>6. CASE ~UNCHANGED <<ci, reruns>>
      <4>1. /\ \E posts \in BOOLEAN : Begins(r[1], r[2], Fresh(r[2]), posts)
            /\ reruns' = [reruns EXCEPT ![r] = @ + 1]
        BY <1>9, <2>2, <3>0, <3>6 DEF RerunNext
      <4>2. /\ FlowsOK' /\ RunsKept /\ UNCHANGED pipelines /\ Shows(r)'
        <5>1. PICK posts, jobs : Begins(r[1], r[2], jobs, posts)
          BY <4>1
        <5> QED
          BY <5>1, BeginsShows DEF Shows
      <4>3. reruns' \in [Places -> {0, 1}]
        BY <3>2, <4>1
      <4>4. RecordShows'
        <5>1. SUFFICES ASSUME NEW v \in Places, reruns'[v] # 0
              PROVE  Shows(v)'
          BY DEF RecordShows
        <5>2. CASE v = r
          BY <4>2, <5>2
        <5>3. CASE v # r
          <6>1. reruns[v] # 0
            BY <4>1, <5>1, <5>3
          <6>2. Shows(v)
            BY <5>1, <6>1 DEF RecordShows
          <6> QED
            BY <1>3, <4>2, <6>2 DEF Shows, SameRun
        <5> QED
          BY <5>2, <5>3
      <4>5. AskedOnce'
        BY <3>2, <3>3, <3>4, <4>1 DEF AskedOnce
      <4> QED
        BY <4>2, <4>3, <4>4, <4>5
    <3> QED
      BY <3>5, <3>6
  <2> QED
    BY <2>1, <2>2
<1>10. CASE NextSweep
  BY <1>1, <1>10 DEF NextSweep, ci
<1>11. CASE UNCHANGED rerunVars
  BY <1>1, <1>11 DEF rerunVars, ci
<1> QED
  BY <1>4, <1>5, <1>6, <1>7, <1>8, <1>9, <1>10, <1>11 DEF RerunSteps

\* A workflow that posted nothing is rerun at most once in a pipeline, whatever
\* sweep asked for it, was killed after it or lost its answer, and whatever
\* pipelines start meanwhile (rerunOnce).
THEOREM RerunAtMostOnce == RerunSpec => []RerunOnce
<1>1. RerunInit => RerunInv
  <2> SUFFICES ASSUME RerunInit PROVE RerunInv
    OBVIOUS
  <2>1. /\ pipelines = 1 /\ step = "read"
        /\ reruns = [r \in Places |-> 0]
    BY DEF RerunInit, Places
  <2>4. /\ pipelines \in 1..MaxPipelines /\ reruns \in [Places -> {0, 1}]
        /\ RecordShows /\ AskedOnce
    BY <2>1, PipelinesAssumption DEF RecordShows, AskedOnce
  <2>2. PICK posts \in Selections : flows = FirstRuns(1, posts)
    BY DEF RerunInit
  <2>3. FlowsOK
    BY <2>2, FirstAreRuns DEF FlowsOK, IsRun
  <2> QED
    BY <2>3, <2>4 DEF RerunInv
<1>2. RerunInv => RerunOnce
  BY DEF RerunInv, RerunOnce
<1> QED
  BY <1>1, <1>2, RerunStep, PTL DEF RerunSpec

-----------------------------------------------------------------------------
(* The remedies.  What was done to a change is in a marker that whoever     *)
(* reads it will match, about to be, or counted as forgotten.               *)
Counts(bag) == \A k \in DOMAIN bag : bag[k] \in Nat
KeyAt(p) == KeyOf(p, view[p], view[p].name)

Recorded(key) == \E m \in Range(comments[key[1]]) :
    /\ m.kind = Evidence /\ m.outcome = key[2]
    /\ m.patch # 0 /\ m.patch = key[3]
    /\ key[2] = Update => m.base # 0 /\ m.base = key[4]

AboutToBe(key) ==
    LET p == key[1]
    IN /\ pc[p] = "mark" /\ view[p].name \notin MarkOnly
       /\ ~Blind(p, view[p]) /\ KeyAt(p) = key

Accounted(key) ==
    CountOf(acted, key) <= CountOf(forgotten, ChangeOf(key))
                           + IF Recorded(key) \/ AboutToBe(key) THEN 1 ELSE 0

\* What a sweep that is past the guards saw: no marker it would match.
InHand == {"protection", "act", "comment", "mark"}
ViewFields == {"head", "change", "patch", "title", "base", "cut", "hit", "name",
               "standing", "left"}
Looked(p) ==
    /\ ViewFields \subseteq DOMAIN view[p] /\ IsFcn(view[p])
    /\ view[p].hit.commands \in Nat
    /\ view[p].patch # 0 => view[p].patch = view[p].change
    /\ view[p].name \in Actions \union MarkOnly
    /\ view[p].name \notin MarkOnly => ~view[p].standing
    /\ pc[p] # "mark" => view[p].name \notin MarkOnly
    /\ ~Blind(p, view[p]) /\ ~view[p].standing => ~Recorded(KeyAt(p))

\* The suites that are reserved and not yet asked for, one by one.
Reserved(p) == {p} \X (1..view[p].hit.commands)
InFlight == UNION {Reserved(p) : p \in {q \in PRs : pc[q] = "comment"}}

Budget ==
    /\ left \in Nat /\ suites.started \in Nat /\ suites.returned \in Nat
    /\ IsFiniteSet(InFlight)
    /\ suites.started + left + Cardinality(InFlight)
          <= SuiteLimit + suites.returned

RemedyShape ==
    /\ hits \in Asked
    /\ IsFcn(pc) /\ DOMAIN pc = PRs
    /\ IsFcn(view) /\ DOMAIN view = PRs
    /\ IsFcn(comments) /\ DOMAIN comments = PRs
    /\ \A p \in PRs : comments[p] \in Seq(Range(comments[p]))
    /\ Counts(acted) /\ Counts(forgotten)

Memories == \A key \in DOMAIN acted : key[1] \in PRs /\ Accounted(key)
InHandLooked == \A p \in PRs : pc[p] \in InHand => Looked(p)

RemedyInv == RemedyShape /\ Memories /\ InHandLooked /\ Budget

Added(bag, more, key, n) ==
    /\ Counts(more) /\ DOMAIN more = DOMAIN bag \union {key}
    /\ CountOf(more, key) = CountOf(bag, key) + n
    /\ \A k : k # key => CountOf(more, k) = CountOf(bag, k)

\* Plus adds to one count and leaves the others.
LEMMA PlusAdds ==
    ASSUME NEW bag, Counts(bag), NEW key, NEW n \in Nat
    PROVE  Added(bag, Plus(bag, key, n), key, n)
<1>1. \A k : CountOf(bag, k) \in Nat
  BY DEF Counts, CountOf
<1> QED
  BY <1>1 DEF Added, Counts, Plus, CountOf

\* A count is a number, 0 where nothing was counted.
LEMMA CountIsNat ==
    ASSUME NEW bag, Counts(bag) PROVE \A k : CountOf(bag, k) \in Nat
BY DEF Counts, CountOf

\* Comments are only added to.
CommentsGrow ==
    \A p \in PRs : Range(comments[p]) \subseteq Range(comments'[p])

\* A record stays: comments are only added to.
LEMMA RecordsStay ==
    ASSUME CommentsGrow, NEW key, key[1] \in PRs, Recorded(key)
    PROVE  Recorded(key)'
<1>1. Recorded(key)' <=> \E m \in Range(comments'[key[1]]) :
        /\ m.kind = Evidence /\ m.outcome = key[2]
        /\ m.patch # 0 /\ m.patch = key[3]
        /\ key[2] = Update => m.base # 0 /\ m.base = key[4]
  BY DEF Recorded
<1> QED
  BY <1>1 DEF Recorded, CommentsGrow

Others(p) == \A q \in PRs \ {p} : pc'[q] = pc[q] /\ view'[q] = view[q]

\* Where nothing is done, what is accounted for stays so when a record that
\* was about to be made is, or is counted as forgotten.
LEMMA StillAccounted ==
    ASSUME RemedyInv, UNCHANGED <<hits, acted>>, CommentsGrow,
           Counts(forgotten'),
           \A k : CountOf(forgotten', k) >= CountOf(forgotten, k),
           \A key \in DOMAIN acted :
              AboutToBe(key) =>
                 \/ AboutToBe(key)' \/ Recorded(key)'
                 \/ CountOf(forgotten', ChangeOf(key))
                       >= CountOf(forgotten, ChangeOf(key)) + 1
    PROVE  Memories'
<1> SUFFICES ASSUME NEW key \in DOMAIN acted PROVE Accounted(key)'
  BY DEF RemedyInv, Memories, PRs
<1> DEFINE a == CountOf(acted, key)
           f == CountOf(forgotten, ChangeOf(key))
           g == CountOf(forgotten', ChangeOf(key))
<1>1. a \in Nat /\ f \in Nat /\ g \in Nat /\ g >= f
  BY CountIsNat DEF RemedyInv, RemedyShape
<1>2. a <= f + IF Recorded(key) \/ AboutToBe(key) THEN 1 ELSE 0
  BY DEF RemedyInv, Memories, Accounted
<1>3. Recorded(key) => Recorded(key)'
  BY RecordsStay DEF RemedyInv, Memories
<1>4. AboutToBe(key) => AboutToBe(key)' \/ Recorded(key)' \/ g >= f + 1
  OBVIOUS
<1>5. Accounted(key)' <=>
         a <= g + IF Recorded(key)' \/ AboutToBe(key)' THEN 1 ELSE 0
  BY DEF Accounted, ChangeOf
<1> HIDE DEF a, f, g
<1> QED
  BY <1>1, <1>2, <1>3, <1>4, <1>5

\* Where something is done, it was not recorded, or the view is blind.
Does(K, n) ==
    /\ acted' = Plus(acted, K, 1)
    /\ forgotten' = Plus(forgotten, ChangeOf(K), n)

\* What is done where no record stands is accounted for: it is recorded,
\* about to be, or counted as forgotten.
LEMMA DoneAccounted ==
    ASSUME RemedyInv, UNCHANGED hits, CommentsGrow,
           NEW p \in PRs, pc[p] \in InHand, Others(p),
           pc[p] = "mark" => view[p].name \in MarkOnly,
           ~view[p].standing,
           NEW K, K = KeyAt(p), NEW n \in Nat, n >= WeighBlind(p),
           Does(K, n),
           n > 0 \/ Recorded(K)' \/ AboutToBe(K)'
    PROVE  Memories'
<1>0. Counts(acted) /\ Counts(forgotten)
  BY DEF RemedyInv, RemedyShape
<1>1. Added(acted, acted', K, 1)
  BY <1>0, PlusAdds DEF Does
<1>2. Added(forgotten, forgotten', ChangeOf(K), n)
  BY <1>0, PlusAdds DEF Does
<1>3. \A k : CountOf(acted, k) \in Nat /\ CountOf(forgotten, k) \in Nat
  BY CountIsNat DEF RemedyInv, RemedyShape
<1>4. K[1] = p
  BY DEF KeyAt, KeyOf
<1>5. ~AboutToBe(K)
  BY <1>4 DEF AboutToBe
<1>6. n = 0 => ~Recorded(K)
  <2>1. Looked(p)
    BY DEF RemedyInv, InHandLooked
  <2>2. n = 0 => ~Blind(p, view[p])
    BY DEF WeighBlind
  <2> QED
    BY <2>1, <2>2 DEF Looked
<1>7. ASSUME NEW key \in DOMAIN acted' PROVE key[1] \in PRs
  BY <1>1, <1>4 DEF RemedyInv, Memories, Added
<1>8. Accounted(K)'
  <2>1. CountOf(acted, K) <= CountOf(forgotten, ChangeOf(K))
                             + IF Recorded(K) THEN 1 ELSE 0
    <3>1. CASE K \in DOMAIN acted
      BY <1>5, <3>1 DEF RemedyInv, Memories, Accounted
    <3>2. CASE K \notin DOMAIN acted
      BY <1>3, <3>2 DEF CountOf
    <3> QED
      BY <3>1, <3>2
  <2>2. Recorded(K) => Recorded(K)'
    BY <1>4, RecordsStay
  <2>3. /\ CountOf(acted', K) = CountOf(acted, K) + 1
        /\ CountOf(forgotten', ChangeOf(K)) = CountOf(forgotten, ChangeOf(K)) + n
    BY <1>1, <1>2 DEF Added
  <2>4. CountOf(acted', K) <= CountOf(forgotten', ChangeOf(K))
                              + IF Recorded(K)' \/ AboutToBe(K)' THEN 1 ELSE 0
    BY <1>3, <1>6, <2>1, <2>2, <2>3
  <2> QED
    BY <2>4 DEF Accounted, ChangeOf
<1>9. ASSUME NEW key \in DOMAIN acted, key # K PROVE Accounted(key)'
  <2>1. CountOf(acted, key) <= CountOf(forgotten, ChangeOf(key))
           + IF Recorded(key) \/ AboutToBe(key) THEN 1 ELSE 0
    BY DEF RemedyInv, Memories, Accounted
  <2>2. Recorded(key) => Recorded(key)'
    BY RecordsStay DEF RemedyInv, Memories
  <2>3. AboutToBe(key) => AboutToBe(key)'
    <3>1. CASE key[1] = p
      BY <1>9, <3>1 DEF AboutToBe
    <3>2. CASE key[1] # p
      <4>1. key[1] \in PRs \ {p}
        BY <3>2 DEF RemedyInv, Memories
      <4>2. pc'[key[1]] = pc[key[1]] /\ view'[key[1]] = view[key[1]]
        BY <4>1 DEF Others
      <4> QED
        BY <4>2 DEF AboutToBe, Blind, KeyAt, KeyOf
    <3> QED
      BY <3>1, <3>2
  <2>4. CountOf(acted', key) = CountOf(acted, key)
    BY <1>1, <1>3, <1>9 DEF Added
  <2>5. CountOf(forgotten', ChangeOf(key)) >= CountOf(forgotten, ChangeOf(key))
    BY <1>2, <1>3 DEF Added
  <2>6. CountOf(acted', key) <= CountOf(forgotten', ChangeOf(key))
           + IF Recorded(key)' \/ AboutToBe(key)' THEN 1 ELSE 0
    <3>1. /\ CountOf(acted, key) \in Nat
          /\ CountOf(forgotten, ChangeOf(key)) \in Nat
          /\ CountOf(forgotten', ChangeOf(key)) \in Nat
      BY <1>2, <1>3, CountIsNat DEF Added
    <3> QED
      BY <2>1, <2>2, <2>3, <2>4, <2>5, <3>1
  <2> QED
    BY <2>6 DEF Accounted, ChangeOf
<1> QED
  BY <1>1, <1>7, <1>8, <1>9 DEF Memories, PRs, Added

-----------------------------------------------------------------------------
(* A step of one PR, and what it leaves of the others.                      *)
Steps(p, label, v) ==
    /\ pc' = [pc EXCEPT ![p] = label] /\ view' = [view EXCEPT ![p] = v]

\* A step of one PR leaves the others where they are.
LEMMA StepShape ==
    ASSUME RemedyShape, NEW p \in PRs, NEW label, NEW v,
           Steps(p, label, v), UNCHANGED hits
    PROVE  /\ IsFcn(pc') /\ DOMAIN pc' = PRs /\ IsFcn(view') /\ DOMAIN view' = PRs
           /\ pc'[p] = label /\ view'[p] = v /\ Others(p)
BY DEF RemedyShape, Steps, Others, IsFcn

\* A view is still what its sweep saw while no evidence is added.
LEMMA StillLooked ==
    ASSUME RemedyInv, NEW q \in PRs, pc[q] \in InHand,
           pc'[q] = pc[q], view'[q] = view[q],
           \A m \in Range(comments'[q]) :
              m \in Range(comments[q]) \/ m.kind # Evidence
    PROVE  Looked(q)'
<1>1. Looked(q)
  BY DEF RemedyInv, InHandLooked
<1>2. KeyAt(q)' = KeyAt(q) /\ KeyAt(q)[1] = q
  BY DEF KeyAt, KeyOf
<1>3. Recorded(KeyAt(q))' => Recorded(KeyAt(q))
  <2>1. \A key : Recorded(key)' <=> \E m \in Range(comments'[key[1]]) :
          /\ m.kind = Evidence /\ m.outcome = key[2]
          /\ m.patch # 0 /\ m.patch = key[3]
          /\ key[2] = Update => m.base # 0 /\ m.base = key[4]
    BY DEF Recorded
  <2> QED
    BY <1>2, <2>1 DEF Recorded
<1>4. Blind(q, view[q])' <=> Blind(q, view[q])
  BY DEF Blind
<1> QED
  BY <1>1, <1>2, <1>3, <1>4 DEF Looked, IsFcn

\* The suites asked for are those of the PRs about to comment.
LEMMA SameFlight ==
    ASSUME UNCHANGED hits, NEW p \in PRs, Others(p),
           pc[p] # "comment", pc'[p] # "comment"
    PROVE  InFlight' = InFlight
<1>1. \A q \in PRs : pc[q] = "comment" <=> pc'[q] = "comment"
  BY DEF Others
<1>2. \A q \in PRs : pc[q] = "comment" => Reserved(q)' = Reserved(q)
  BY DEF Others, Reserved
<1> QED
  BY <1>1, <1>2 DEF InFlight, PRs

\* A step that records nothing and was not about to.
LEMMA Passes ==
    ASSUME RemedyInv, UNCHANGED <<hits, comments, history>>,
           NEW p \in PRs, NEW label, NEW v, Steps(p, label, v),
           pc[p] # "mark", label \in InHand => Looked(p)'
    PROVE  RemedyShape' /\ Memories' /\ InHandLooked' /\ Others(p)
<1>1. /\ IsFcn(pc') /\ DOMAIN pc' = PRs /\ IsFcn(view') /\ DOMAIN view' = PRs
      /\ pc'[p] = label /\ view'[p] = v /\ Others(p)
  BY StepShape DEF RemedyInv
<1>2. RemedyShape'
  BY <1>1 DEF RemedyInv, RemedyShape, history, PRs, IsFcn, Counts
<1>3. Memories'
  <2>1. \A k : CountOf(forgotten, k) \in Nat
    BY CountIsNat DEF RemedyInv, RemedyShape
  <2>2. CommentsGrow
    BY DEF CommentsGrow
  <2>3. ASSUME NEW key \in DOMAIN acted, AboutToBe(key) PROVE AboutToBe(key)'
    <3>1. key[1] \in PRs \ {p}
      BY <2>3 DEF RemedyInv, Memories, AboutToBe
    <3>2. pc'[key[1]] = pc[key[1]] /\ view'[key[1]] = view[key[1]]
      BY <1>1, <3>1 DEF Others
    <3> QED
      BY <2>3, <3>2 DEF AboutToBe, Blind, KeyAt, KeyOf
  <2>4. Counts(forgotten') /\ \A k : CountOf(forgotten', k) >= CountOf(forgotten, k)
    BY <2>1 DEF history, RemedyInv, RemedyShape
  <2> QED
    BY <2>2, <2>3, <2>4, StillAccounted DEF history
<1>4. InHandLooked'
  <2>1. ASSUME NEW q \in PRs, pc'[q] \in InHand PROVE Looked(q)'
    <3>1. CASE q = p
      BY <1>1, <2>1, <3>1
    <3>2. CASE q # p
      <4>1. pc'[q] = pc[q] /\ view'[q] = view[q]
        BY <1>1, <3>2 DEF Others
      <4> QED
        BY <2>1, <4>1, StillLooked
    <3> QED
      BY <3>1, <3>2
  <2> QED
    BY <2>1 DEF InHandLooked, PRs
<1> QED
  BY <1>1, <1>2, <1>3, <1>4

\* What every action that reached GitHub or CircleCI leads to.
LEMMA AppliedKeeps ==
    ASSUME RemedyInv, UNCHANGED <<hits, comments>>, NEW p \in PRs,
           pc[p] \in {"act", "comment"}, NEW answer \in Answers,
           Applied(p, answer)
    PROVE  /\ RemedyShape' /\ Memories' /\ InHandLooked' /\ Others(p)
           /\ pc'[p] # "comment"
<1> DEFINE label == IF answer = "ok" THEN "mark" ELSE "done"
           v == IF answer = "ok" THEN view[p] ELSE <<>>
<1>1. Steps(p, label, v)
  <2>1. [view EXCEPT ![p] = view[p]] = view
    BY DEF RemedyInv, RemedyShape, IsFcn
  <2>2. CASE answer = "ok"
    <3>1. pc' = [pc EXCEPT ![p] = "mark"] /\ view' = view
      BY <2>2 DEF Applied, To, Goes
    <3>2. label = "mark" /\ v = view[p]
      BY <2>2
    <3> HIDE DEF label, v
    <3> QED
      BY <2>1, <3>1, <3>2 DEF Steps
  <2>3. CASE answer # "ok"
    <3>1. pc' = [pc EXCEPT ![p] = "done"] /\ view' = [view EXCEPT ![p] = <<>>]
      BY <2>3 DEF Applied, Leave, Goes
    <3>2. label = "done" /\ v = <<>>
      BY <2>3
    <3> HIDE DEF label, v
    <3> QED
      BY <3>1, <3>2 DEF Steps
  <2> QED
    BY <2>2, <2>3
<1>2. /\ IsFcn(pc') /\ DOMAIN pc' = PRs /\ IsFcn(view') /\ DOMAIN view' = PRs
      /\ pc'[p] = label /\ view'[p] = v /\ Others(p)
  BY <1>1, StepShape DEF RemedyInv
<1>3. Looked(p) /\ view[p].name \notin MarkOnly /\ ~view[p].standing
  BY DEF RemedyInv, InHandLooked, InHand, Looked
<1>4. CommentsGrow
  BY DEF CommentsGrow
<1>5. InHandLooked'
  <2>1. ASSUME NEW q \in PRs, pc'[q] \in InHand PROVE Looked(q)'
    <3>1. CASE q = p
      <4>1. answer = "ok" /\ view'[p] = view[p]
        BY <1>2, <2>1, <3>1 DEF InHand
      <4>2. KeyAt(p)' = KeyAt(p) /\ (Blind(p, view[p])' <=> Blind(p, view[p]))
        BY <4>1 DEF KeyAt, KeyOf, Blind
      <4>3. Recorded(KeyAt(p))' <=> Recorded(KeyAt(p))
        BY <4>2 DEF Recorded
      <4> QED
        BY <1>3, <3>1, <4>1, <4>2, <4>3 DEF Looked, IsFcn
    <3>2. CASE q # p
      <4>1. pc'[q] = pc[q] /\ view'[q] = view[q]
        BY <1>2, <3>2 DEF Others
      <4> QED
        BY <2>1, <4>1, StillLooked
    <3> QED
      BY <3>1, <3>2
  <2> QED
    BY <2>1 DEF InHandLooked, PRs
<1>6. CASE answer = "error"
  <2>1. UNCHANGED history /\ label = "done"
    BY <1>6 DEF Applied
  <2> QED
    BY <1>1, <1>2, <2>1, Passes DEF InHand
<1>7. CASE answer # "error"
  <2>0. PICK K : K = KeyAt(p)
    OBVIOUS
  <2> DEFINE n == WeighBlind(p) + IF answer = "lost" THEN 1 ELSE 0
  <2>1. Does(K, n)
    BY <1>7, <2>0 DEF Applied, Act, Forget, KeyAt, Does
  <2>2. n \in Nat /\ n >= WeighBlind(p) /\ (n = 0 => answer # "lost")
    BY DEF WeighBlind
  <2>3. n = 0 => ~Blind(p, view[p])
    BY DEF WeighBlind
  <2>4. n > 0 \/ AboutToBe(K)'
    <3>1. CASE answer = "lost"
      BY <2>2, <3>1
    <3>2. CASE answer = "ok" /\ n = 0
      <4>1. pc'[p] = "mark" /\ view'[p] = view[p]
        BY <1>2, <3>2
      <4>2. K[1] = p
        BY <2>0 DEF KeyAt, KeyOf
      <4>3. AboutToBe(K)' <=> /\ pc'[p] = "mark" /\ view'[p].name \notin MarkOnly
                              /\ ~Blind(p, view'[p])
                              /\ KeyOf(p, view'[p], view'[p].name) = K
        BY <4>2 DEF AboutToBe, KeyAt
      <4>4. ~Blind(p, view[p]) /\ K = KeyOf(p, view[p], view[p].name)
        BY <2>0, <2>3, <3>2 DEF KeyAt
      <4> HIDE DEF n
      <4> QED
        BY <1>3, <4>1, <4>3, <4>4
    <3> HIDE DEF n
    <3> QED
      BY <1>7, <2>2, <3>1, <3>2 DEF Answers
  <2>5. /\ pc[p] \in InHand /\ (pc[p] = "mark" => view[p].name \in MarkOnly)
    BY DEF InHand
  <2>6. Memories'
    <3> HIDE DEF n
    <3> QED
      BY <1>2, <1>3, <1>4, <2>0, <2>1, <2>2, <2>4, <2>5, DoneAccounted
  <2>7. Counts(acted') /\ Counts(forgotten')
    <3>1. Counts(acted) /\ Counts(forgotten)
      BY DEF RemedyInv, RemedyShape
    <3> HIDE DEF n
    <3> QED
      BY <2>1, <2>2, <3>1, PlusAdds DEF Added, Does
  <2>8. RemedyShape'
    BY <1>2, <2>7 DEF RemedyInv, RemedyShape, PRs, IsFcn, Counts
  <2> QED
    BY <1>2, <1>5, <2>6, <2>8
<1> QED
  BY <1>6, <1>7

-----------------------------------------------------------------------------
(* The guards.  Each action asks whether the change has its evidence.       *)
Guards == Refusals \union
    {"trusted-author", "no-fresh-rescue", "not-align-files", "checks-settled",
     "known-command", "only-gate-waiting", "up-to-date"}

\* Every action asks whether it was taken on the change.
LEMMA GuardsAsk ==
    ASSUME NEW name \in Actions
    PROVE  /\ GuardsOf(name) \in Seq(Guards)
           /\ \E i \in 1..Len(GuardsOf(name)) :
                 GuardsOf(name)[i] = "once-per-change"
<1> DEFINE Asks(s) == /\ s \in Seq(Guards)
                      /\ \E i \in 1..Len(s) : s[i] = "once-per-change"
<1>1. Asks(Common)
  BY DEF Common, Guards, Refusals
<1>2. Asks(<<"trusted-author", "once-per-change", "no-fresh-rescue">>)
  BY DEF Guards, Refusals
<1>3. Asks(<<"trusted-author", "no-security-failure", "not-align-files",
             "log-matched", "once-per-change">>)
  BY DEF Guards, Refusals
<1>4. Asks(<<"trusted-author", "log-matched", "no-generated-edit",
             "once-per-change">>)
  BY DEF Guards, Refusals
<1>5. Asks(<<"trusted-author", "no-security-failure", "checks-settled",
             "once-per-change">>)
  BY DEF Guards, Refusals
<1>6. Asks(<<"trusted-author", "no-security-failure", "known-command",
             "only-gate-waiting", "up-to-date", "once-per-change">>)
  BY DEF Guards, Refusals
<1> HIDE DEF Asks
<1>7. Asks(GuardsOf(name))
  <2>1. CASE name = Update
    BY <1>2, <2>1 DEF GuardsOf, Update
  <2>2. CASE name = "rerun-failed"
    BY <1>1, <2>2 DEF GuardsOf, Update
  <2>7. CASE name = "circleci-retry"
    BY <1>1, <2>7 DEF GuardsOf, Update
  <2>3. CASE name = "close"
    BY <1>3, <2>3 DEF GuardsOf, Update
  <2>4. CASE name = "dispatch-cve-workflow"
    BY <1>4, <2>4 DEF GuardsOf, Update
  <2>5. CASE name = "fix-protection-context"
    BY <1>5, <2>5 DEF GuardsOf, Update
  <2>6. CASE name = "comment-command"
    BY <1>6, <2>6 DEF GuardsOf, Update
  <2> QED
    BY <2>1, <2>2, <2>3, <2>4, <2>5, <2>6, <2>7 DEF Actions
<1> QED
  BY <1>7 DEF Asks

\* The text that says nothing refused is not the name of a guard.
LEMMA NoGuard == "" \notin Guards
BY DEF Guards, Refusals

\* An action that no guard refuses was not applied, as far as was read.
LEMMA NoneRefused ==
    ASSUME NEW v, NEW name \in Actions, NEW extra \in Seq(Refusals),
           RefusedBy(v, name, extra) \notin Guards
    PROVE  name \notin AppliedTo(v)
<1>0. PICK guards : guards = GuardsOf(name) \o extra
  OBVIOUS
<1> DEFINE refused == {i \in 1..Len(guards) : ~Allows(v, name, guards[i])}
<1>1. guards \in Seq(Guards) /\ Len(guards) \in Nat
  <2>1. extra \in Seq(Guards)
    BY DEF Guards
  <2>2. GuardsOf(name) \in Seq(Guards)
    BY GuardsAsk
  <2> QED
    BY <1>0, <2>1, <2>2
<1>2. PICK i \in 1..Len(guards) : guards[i] = "once-per-change"
  <2>1. PICK i \in 1..Len(GuardsOf(name)) :
           GuardsOf(name)[i] = "once-per-change"
    BY GuardsAsk
  <2>2. GuardsOf(name) \in Seq(Guards) /\ extra \in Seq(Guards)
    BY GuardsAsk DEF Guards
  <2>3. i \in 1..Len(guards) /\ guards[i] = GuardsOf(name)[i]
    BY <1>0, <2>1, <2>2
  <2> QED
    BY <2>1, <2>3
<1>3. refused = {}
  <2> SUFFICES ASSUME refused # {} PROVE FALSE
    OBVIOUS
  <2>1. PICK first : first = Min(refused)
    OBVIOUS
  <2>2. first \in refused
    <3>1. refused \in SUBSET Nat
      BY <1>1
    <3> HIDE DEF refused
    <3>2. \E x \in refused : \A y \in refused : x <= y
      BY <3>1, LeastMember
    <3> QED
      BY <2>1, <3>2 DEF Min
  <2>3. first \in 1..Len(guards) /\ first # 0
    BY <1>1, <2>2
  <2>4. RefusedBy(v, name, extra) = guards[first]
    BY <1>0, <2>1, <2>2, <2>3 DEF RefusedBy, SelectInSeq
  <2>5. guards[first] \in Guards
    BY <1>1, <2>3
  <2> QED
    BY <2>4, <2>5
<1>4. Allows(v, name, "once-per-change")
  BY <1>2, <1>3
<1> QED
  BY <1>4 DEF Allows

\* Whoever reads every marker, the diff and the base he needs sees a record.
LEMMA SeesRecord ==
    ASSUME NEW p, NEW v, NEW name,
           Range(v.markers) = Range(comments[p]),
           v.patch # 0, v.patch = v.change, name = Update => v.base # 0,
           Recorded(KeyOf(p, v, name))
    PROVE  Standing(v, name)
<1>1. PICK m \in Range(comments[p]) :
         /\ m.kind = Evidence /\ m.outcome = name
         /\ m.patch # 0 /\ m.patch = v.change
         /\ name = Update => m.base # 0 /\ m.base = v.base
  BY DEF Recorded, KeyOf
<1>2. Matches(m, v)
  BY <1>1 DEF Matches
<1>3. name = Update => MergedFrom(m, v.base, v.head)
  BY <1>1 DEF MergedFrom
<1> QED
  BY <1>1, <1>2, <1>3 DEF Standing, Stands, MarkStale

\* Where it was not applied, no equivalent marker stands.
LEMMA NotStanding ==
    ASSUME NEW v, NEW name, name \notin AppliedTo(v) PROVE ~Standing(v, name)
BY DEF AppliedTo, Standing

\* What is chosen, the named action or the branch update, was asked for all
\* its guards.
LEMMA ChosenMeans ==
    ASSUME NEW v, v.hit.name \in Actions \union MarkOnly,
           v.hit.refuse \in Seq(Refusals), ~Stopped(v)
    PROVE  /\ Chosen(v) \in Actions \union MarkOnly
           /\ Chosen(v) \notin MarkOnly => ~Standing(v, Chosen(v))
<1>1. Chosen(v) \in Actions \union MarkOnly
  BY DEF Chosen, Actions
<1>2. ASSUME Chosen(v) \notin MarkOnly PROVE ~Standing(v, Chosen(v))
  <2>1. CASE Chosen(v) = v.hit.name
    <3>1. RefusedBy(v, Chosen(v), v.hit.refuse) \notin Guards
      BY <1>2, <2>1, NoGuard DEF Stopped, FirstRefused
    <3> QED
      BY <1>1, <1>2, <3>1, NoneRefused, NotStanding
  <2>2. CASE Chosen(v) # v.hit.name
    <3>1. Chosen(v) = Update /\ RefusedBy(v, Update, <<>>) \notin Guards
      BY <2>2, NoGuard DEF Stopped, Chosen
    <3>2. <<>> \in Seq(Refusals)
      OBVIOUS
    <3> QED
      BY <1>1, <1>2, <3>1, <3>2, NoneRefused, NotStanding
  <2> QED
    BY <2>1, <2>2
<1> QED
  BY <1>1, <1>2

\* What is kept of a look until the marker.
LEMMA KeptIs ==
    ASSUME NEW v
    PROVE  /\ IsFcn(Kept(v)) /\ DOMAIN Kept(v) = ViewFields
           /\ Kept(v).change = v.change /\ Kept(v).patch = v.patch
           /\ Kept(v).base = v.base /\ Kept(v).cut = v.cut
           /\ Kept(v).hit = v.hit /\ Kept(v).name = Chosen(v)
           /\ Kept(v).standing = Standing(v, Chosen(v))
BY DEF Kept, ViewFields, IsFcn

\* What a look saw: of the diff all or nothing, of the comments a prefix.
LEMMA SawIs ==
    ASSUME RemedyShape, NEW p \in PRs, NEW k \in 0..Len(comments[p]),
           NEW read \in BOOLEAN, NEW compared \in BOOLEAN, NEW h,
           NEW v, v = Saw(p, k, read, compared, h)
    PROVE  /\ v.hit = h /\ (v.patch # 0 => v.patch = v.change)
           /\ ~v.cut => v.markers = comments[p]
<1>1. comments[p] \in Seq(Range(comments[p]))
  BY DEF RemedyShape
<1>2. ~v.cut => k = Len(comments[p])
  <2>1. k < Len(comments[p]) => v.cut
    BY DEF Saw
  <2>2. Len(comments[p]) \in Nat
    BY <1>1
  <2> QED
    BY <2>1, <2>2
<1>3. SubSeq(comments[p], 1, Len(comments[p])) = comments[p]
  BY <1>1
<1> QED
  BY <1>2, <1>3 DEF Saw

\* A sweep past the guards saw no marker it would match.
LEMMA LookSees ==
    ASSUME RemedyInv, NEW p \in PRs, Look(p)
    PROVE  \E label, v : /\ Steps(p, label, v) /\ label # "comment"
                         /\ label \in InHand => Looked(p)'
<1>1. UNCHANGED <<hits, comments>>
  BY DEF Look, github
<1>2. PICK k \in 0..Len(comments[p]), read \in BOOLEAN, compared \in BOOLEAN,
           h \in hits[p] :
         LET v == Saw(p, k, read, compared, h)
         IN IF Stopped(v) THEN Leave(p)
            ELSE /\ view' = [view EXCEPT ![p] = Kept(v)]
                 /\ Goes(p, Where(Chosen(v)))
  BY DEF Look
<1>3. /\ h.name \in Actions \union MarkOnly /\ h.refuse \in Seq(Refusals)
      /\ h.commands \in Nat
  BY AskedAssumption DEF RemedyInv, RemedyShape, PRs
<1>4. PICK v : v = Saw(p, k, read, compared, h)
  OBVIOUS
<1>5. /\ v.hit = h /\ (v.patch # 0 => v.patch = v.change)
      /\ ~v.cut => v.markers = comments[p]
  BY <1>4, SawIs DEF RemedyInv
<1>6. CASE Stopped(v)
  <2>1. Leave(p)
    BY <1>2, <1>4, <1>6
  <2>2. Steps(p, "done", <<>>)
    BY <2>1 DEF Leave, Goes, Steps
  <2> QED
    BY <2>2 DEF InHand
<1>7. CASE ~Stopped(v)
  <2>1. Steps(p, Where(Chosen(v)), Kept(v))
    BY <1>2, <1>4, <1>7 DEF Steps, Goes
  <2>2. view'[p] = Kept(v) /\ pc'[p] = Where(Chosen(v))
    BY <1>1, <2>1, StepShape DEF RemedyInv
  <2>3. /\ Chosen(v) \in Actions \union MarkOnly
        /\ Chosen(v) \notin MarkOnly => ~Standing(v, Chosen(v))
    BY <1>3, <1>5, <1>7, ChosenMeans
  <2>4. ASSUME ~Blind(p, Kept(v)), ~Standing(v, Chosen(v))
        PROVE  ~Recorded(KeyOf(p, v, Chosen(v)))
    <3>1. ~v.cut /\ v.patch # 0 /\ (Chosen(v) = Update => v.base # 0)
      BY <2>4, KeptIs DEF Blind
    <3> QED
      BY <1>5, <2>4, <3>1, SeesRecord
  <2>5. Looked(p)'
    <3>1. KeyAt(p)' = KeyOf(p, v, Chosen(v))
      BY <2>2, KeptIs DEF KeyAt, KeyOf
    <3>2. Recorded(KeyAt(p))' <=> Recorded(KeyOf(p, v, Chosen(v)))
      BY <1>1, <3>1 DEF Recorded
    <3>3. Blind(p, view[p])' <=> Blind(p, Kept(v))
      BY <2>2 DEF Blind
    <3>4. /\ view'[p].hit = h /\ view'[p].name = Chosen(v)
          /\ view'[p].standing = Standing(v, Chosen(v))
          /\ IsFcn(view'[p]) /\ DOMAIN view'[p] = ViewFields
      BY <1>5, <2>2, KeptIs
    <3>5. pc'[p] # "mark" => Chosen(v) \notin MarkOnly
      BY <2>2 DEF Where
    <3>6. view'[p].patch # 0 => view'[p].patch = view'[p].change
      BY <1>5, <2>2, KeptIs
    <3> QED
      BY <1>3, <2>3, <2>4, <3>2, <3>3, <3>4, <3>5, <3>6 DEF Looked
  <2>6. Where(Chosen(v)) # "comment"
    BY DEF Where
  <2> QED
    BY <2>1, <2>5, <2>6
<1> QED
  BY <1>6, <1>7

-----------------------------------------------------------------------------
(* The marker: what was done is recorded, or forgotten.                     *)
LEMMA AppendRange ==
    ASSUME NEW s, s \in Seq(Range(s)), NEW m
    PROVE  /\ Append(s, m) \in Seq(Range(Append(s, m)))
           /\ Range(Append(s, m)) = Range(s) \union {m}
<1>1. /\ Len(s) \in Nat /\ DOMAIN s = 1..Len(s)
      /\ DOMAIN Append(s, m) = 1..(Len(s) + 1)
      /\ Append(s, m)[Len(s) + 1] = m
      /\ \A i \in 1..Len(s) : Append(s, m)[i] = s[i]
      /\ \A i \in 1..(Len(s) + 1) : i = Len(s) + 1 \/ i \in 1..Len(s)
  OBVIOUS
<1>2. Range(Append(s, m)) = Range(s) \union {m}
  <2> DEFINE t == Append(s, m)
  <2> HIDE DEF t
  <2>1. /\ DOMAIN t = 1..(Len(s) + 1) /\ t[Len(s) + 1] = m
        /\ \A i \in 1..Len(s) : t[i] = s[i] /\ i \in 1..(Len(s) + 1)
        /\ Len(s) + 1 \in 1..(Len(s) + 1)
    BY <1>1 DEF t
  <2>2. Range(t) = Range(s) \union {m}
    BY <1>1, <2>1 DEF Range
  <2> QED
    BY <2>2 DEF t
<1>3. Append(s, m) \in Seq(Range(s) \union {m})
  OBVIOUS
<1> QED
  BY <1>2, <1>3

Marker(v, b) ==
    [kind |-> Evidence, outcome |-> v.name, head |-> v.head,
     patch |-> v.patch, title |-> v.title,
     base |-> IF v.name = Update THEN b ELSE 0]

\* A marker of a sweep that read all it needs is a record.
LEMMA MarkerRecords ==
    ASSUME NEW p, NEW v, NEW b, Marker(v, b) \in Range(comments'[p]),
           ~Blind(p, v), v.patch # 0 => v.patch = v.change,
           v.base # 0 => b = v.base,
           NEW K, K = KeyOf(p, v, v.name)
    PROVE  Recorded(K)'
<1> DEFINE m == Marker(v, b)
<1>1. /\ v.patch # 0 /\ v.patch = v.change
      /\ v.name = Update => v.base # 0 /\ b = v.base
  BY DEF Blind
<1>2. /\ m.kind = Evidence /\ m.outcome = v.name /\ m.patch = v.patch
      /\ v.name = Update => m.base = b
  BY DEF Marker
<1>3. /\ K[1] = p /\ K[2] = v.name /\ K[3] = v.change
      /\ v.name = Update => K[4] = v.base
  BY DEF KeyOf
<1>4. m \in Range(comments'[K[1]])
  BY <1>3
<1> HIDE DEF m
<1>5. \E x \in Range(comments'[K[1]]) :
         /\ x.kind = Evidence /\ x.outcome = K[2]
         /\ x.patch # 0 /\ x.patch = K[3]
         /\ K[2] = Update => x.base # 0 /\ x.base = K[4]
  BY <1>1, <1>2, <1>3, <1>4
<1> QED
  BY <1>5 DEF Recorded

\* Comments as a step may leave them: one more on a PR, or none.
Commented(p) ==
    \/ UNCHANGED comments
    \/ \E m : comments' = [comments EXCEPT ![p] = Append(@, m)]

\* A comment is added to the PR it is written on.
LEMMA CommentedShape ==
    ASSUME RemedyShape, NEW p \in PRs, Commented(p), UNCHANGED hits
    PROVE  /\ IsFcn(comments') /\ DOMAIN comments' = PRs
           /\ \A q \in PRs : comments'[q] \in Seq(Range(comments'[q]))
           /\ \A q \in PRs \ {p} : comments'[q] = comments[q]
           /\ CommentsGrow
<1>1. CASE UNCHANGED comments
  BY <1>1 DEF RemedyShape, CommentsGrow, IsFcn
<1>2. ASSUME NEW m, comments' = [comments EXCEPT ![p] = Append(@, m)]
      PROVE  /\ IsFcn(comments') /\ DOMAIN comments' = PRs
             /\ \A q \in PRs : comments'[q] \in Seq(Range(comments'[q]))
             /\ \A q \in PRs \ {p} : comments'[q] = comments[q]
             /\ CommentsGrow
  <2>1. /\ IsFcn(comments') /\ DOMAIN comments' = PRs
        /\ \A q \in PRs \ {p} : comments'[q] = comments[q]
        /\ comments'[p] = Append(comments[p], m)
    BY <1>2 DEF RemedyShape, IsFcn
  <2>2. /\ Append(comments[p], m) \in Seq(Range(Append(comments[p], m)))
        /\ Range(Append(comments[p], m)) = Range(comments[p]) \union {m}
    BY AppendRange DEF RemedyShape
  <2>3. \A q \in PRs : comments'[q] \in Seq(Range(comments'[q]))
    BY <2>1, <2>2 DEF RemedyShape
  <2>4. CommentsGrow
    BY <2>1, <2>2 DEF CommentsGrow
  <2> QED
    BY <2>1, <2>3, <2>4
<1> QED
  BY <1>1, <1>2 DEF Commented

\* A marker is posted where an equivalent one does not stand.
LEMMA PostMarkerKeeps ==
    ASSUME RemedyInv, NEW p \in PRs, NEW answer \in Answers,
           PostMarker(p, answer)
    PROVE  /\ RemedyShape' /\ Memories' /\ InHandLooked' /\ Others(p)
           /\ pc'[p] # "comment"
<1>1. PICK v : v = view[p]
  OBVIOUS
<1>2. PICK K : K = KeyAt(p)
  OBVIOUS
<1>3. /\ pc[p] = "mark" /\ Steps(p, "done", <<>>) /\ UNCHANGED hits
      /\ \/ v.standing /\ UNCHANGED <<comments, history>>
         \/ /\ ~v.standing
            /\ IF answer = "error" THEN UNCHANGED comments
               ELSE \E b \in IF v.base # 0 THEN {v.base} ELSE {0, base} :
                       comments' = [comments EXCEPT ![p] =
                                        Append(@, Marker(v, b))]
            /\ IF v.name \in MarkOnly
               THEN IF answer = "error" THEN UNCHANGED history
                    ELSE Does(K, WeighBlind(p))
               ELSE /\ UNCHANGED acted
                    /\ forgotten' = Plus(forgotten, ChangeOf(K),
                                         IF answer = "error" THEN 1 ELSE 0)
  BY <1>1, <1>2 DEF PostMarker, Leave, Goes, Steps, Marker, Does, Act, Forget,
                    KeyAt
<1>4. /\ IsFcn(pc') /\ DOMAIN pc' = PRs /\ IsFcn(view') /\ DOMAIN view' = PRs
      /\ pc'[p] = "done" /\ Others(p)
  BY <1>3, StepShape DEF RemedyInv
<1>5. /\ Looked(p) /\ (v.name \notin MarkOnly => ~v.standing)
      /\ v.patch # 0 => v.patch = v.change
  BY <1>1, <1>3 DEF RemedyInv, InHandLooked, InHand, Looked
<1>6. Commented(p)
  BY <1>3 DEF Commented
<1>7. /\ IsFcn(comments') /\ DOMAIN comments' = PRs
      /\ \A q \in PRs : comments'[q] \in Seq(Range(comments'[q]))
      /\ \A q \in PRs \ {p} : comments'[q] = comments[q]
      /\ CommentsGrow
  BY <1>3, <1>6, CommentedShape DEF RemedyInv
<1>8. Counts(acted) /\ Counts(forgotten)
  BY DEF RemedyInv, RemedyShape
<1>9. WeighBlind(p) \in Nat /\ (WeighBlind(p) = 0 => ~Blind(p, v))
  BY <1>1 DEF WeighBlind
<1>10. ASSUME NEW n \in Nat, forgotten' = Plus(forgotten, ChangeOf(K), n)
       PROVE  Added(forgotten, forgotten', ChangeOf(K), n)
  BY <1>8, <1>10, PlusAdds
<1>11. Counts(acted') /\ Counts(forgotten')
  <2>1. CASE UNCHANGED history
    BY <1>8, <2>1 DEF history
  <2>2. CASE Does(K, WeighBlind(p))
    BY <1>8, <1>9, <2>2, PlusAdds DEF Does, Added
  <2>3. CASE /\ UNCHANGED acted
             /\ forgotten' = Plus(forgotten, ChangeOf(K),
                                  IF answer = "error" THEN 1 ELSE 0)
    BY <1>8, <1>10, <2>3 DEF Added
  <2> QED
    BY <1>3, <2>1, <2>2, <2>3
<1>12. RemedyShape'
  BY <1>3, <1>4, <1>7, <1>11 DEF RemedyInv, RemedyShape, PRs, IsFcn, Counts
<1>13. InHandLooked'
  <2>1. ASSUME NEW q \in PRs, pc'[q] \in InHand PROVE Looked(q)'
    <3>1. q # p
      BY <1>4, <2>1 DEF InHand
    <3>2. pc'[q] = pc[q] /\ view'[q] = view[q] /\ comments'[q] = comments[q]
      BY <1>4, <1>7, <3>1 DEF Others
    <3> QED
      BY <2>1, <3>2, StillLooked
  <2> QED
    BY <1>3, <2>1 DEF InHandLooked, PRs
\* Whoever is about to be recorded elsewhere still is.
<1>14. ASSUME NEW key \in DOMAIN acted, AboutToBe(key), ~AboutToBe(key)'
       PROVE  key = K /\ ~Blind(p, v) /\ v.name \notin MarkOnly
  <2>1. CASE key[1] = p
    BY <1>1, <1>2, <1>14, <2>1 DEF AboutToBe
  <2>2. CASE key[1] # p
    <3>1. key[1] \in PRs \ {p}
      BY <2>2 DEF RemedyInv, Memories
    <3>2. pc'[key[1]] = pc[key[1]] /\ view'[key[1]] = view[key[1]]
      BY <1>4, <3>1 DEF Others
    <3> QED
      BY <1>14, <3>2 DEF AboutToBe, Blind, KeyAt, KeyOf
  <2> QED
    BY <2>1, <2>2
<1>15. ASSUME answer # "error", ~v.standing, ~Blind(p, v) PROVE Recorded(K)'
  <2>1. PICK b \in IF v.base # 0 THEN {v.base} ELSE {0, base} :
           comments' = [comments EXCEPT ![p] = Append(@, Marker(v, b))]
    BY <1>3, <1>15
  <2>2. v.base # 0 => b = v.base
    OBVIOUS
  <2>3. comments'[p] = Append(comments[p], Marker(v, b))
    BY <2>1 DEF RemedyInv, RemedyShape
  <2>4. Marker(v, b) \in Range(comments'[p])
    BY <2>3, AppendRange DEF RemedyInv, RemedyShape
  <2>5. K = KeyOf(p, v, v.name)
    BY <1>1, <1>2 DEF KeyAt
  <2> QED
    BY <1>5, <1>15, <2>2, <2>4, <2>5, MarkerRecords
<1>16. Memories'
  <2>0. \A k : CountOf(forgotten, k) \in Nat
    BY <1>8, CountIsNat
  <2>1. CASE UNCHANGED history /\ (v.standing \/ v.name \in MarkOnly)
    <3>1. \A k : CountOf(forgotten', k) >= CountOf(forgotten, k)
      BY <2>0, <2>1 DEF history
    <3>2. \A key \in DOMAIN acted : AboutToBe(key) => AboutToBe(key)'
      BY <1>5, <1>14, <2>1
    <3> QED
      BY <1>3, <1>7, <1>11, <2>1, <3>1, <3>2, StillAccounted DEF history
  <2>2. CASE ~v.standing /\ v.name \in MarkOnly /\ answer # "error"
    <3>1. Does(K, WeighBlind(p))
      BY <1>3, <2>2
    <3>2. WeighBlind(p) > 0 \/ Recorded(K)' \/ AboutToBe(K)'
      BY <1>9, <1>15, <2>2
    <3>3. pc[p] \in InHand /\ WeighBlind(p) >= WeighBlind(p)
      BY <1>3, <1>9 DEF InHand
    <3> QED
      BY <1>1, <1>2, <1>3, <1>4, <1>7, <1>9, <2>2, <3>1, <3>2, <3>3,
         DoneAccounted
  <2>3. CASE ~v.standing /\ v.name \notin MarkOnly
    <3>1. PICK n \in {0, 1} : /\ n = IF answer = "error" THEN 1 ELSE 0
                              /\ forgotten' = Plus(forgotten, ChangeOf(K), n)
      BY <1>3, <2>3
    <3>2. Added(forgotten, forgotten', ChangeOf(K), n)
      BY <1>10, <3>1
    <3>3. \A k : CountOf(forgotten', k) >= CountOf(forgotten, k)
      BY <2>0, <3>1, <3>2 DEF Added
    <3>4. ASSUME NEW key \in DOMAIN acted, AboutToBe(key), ~AboutToBe(key)'
          PROVE  \/ Recorded(key)'
                 \/ CountOf(forgotten', ChangeOf(key))
                       >= CountOf(forgotten, ChangeOf(key)) + 1
      <4>1. key = K /\ ~Blind(p, v)
        BY <1>14, <3>4
      <4>2. CASE answer = "error"
        BY <2>0, <3>1, <3>2, <4>1, <4>2 DEF Added
      <4>3. CASE answer # "error"
        BY <1>15, <2>3, <4>1, <4>3
      <4> QED
        BY <4>2, <4>3
    <3>5. UNCHANGED acted
      BY <1>3, <2>3
    <3> QED
      BY <1>3, <1>7, <1>11, <3>3, <3>4, <3>5, StillAccounted
  <2> QED
    BY <1>3, <2>1, <2>2, <2>3
<1> QED
  BY <1>4, <1>12, <1>13, <1>16

-----------------------------------------------------------------------------
(* The budget.  A suite is left, or reserved by one comment, or started.    *)
LEMMA ReservedMany ==
    ASSUME NEW p, view[p].hit.commands \in Nat
    PROVE  /\ IsFiniteSet(Reserved(p))
           /\ Cardinality(Reserved(p)) = view[p].hit.commands
<1> DEFINE n == view[p].hit.commands
<1>1. IsFiniteSet({p}) /\ Cardinality({p}) = 1
  BY FS_Singleton
<1>2. IsFiniteSet(1..n) /\ Cardinality(1..n) = n
  <2>1. IsFiniteSet(1..n)
           /\ Cardinality(1..n) = IF 1 > n THEN 0 ELSE n - 1 + 1
    BY FS_Interval
  <2> QED
    BY <2>1
<1>3. /\ IsFiniteSet({p} \X (1..n))
      /\ Cardinality({p} \X (1..n)) = Cardinality({p}) * Cardinality(1..n)
  BY <1>1, <1>2, FS_Product
<1>4. Cardinality({p} \X (1..n)) = n
  BY <1>1, <1>2, <1>3
<1> QED
  BY <1>3, <1>4 DEF Reserved

\* Who moves no suite keeps the budget.
LEMMA BudgetKeeps ==
    ASSUME Budget, UNCHANGED <<left, suites>>, InFlight' = InFlight
    PROVE  Budget'
BY DEF Budget

\* What is taken of the budget is reserved for one comment.
LEMMA TakeKeeps ==
    ASSUME RemedyInv, NEW p \in PRs, Take(p), Others(p), UNCHANGED hits,
           pc'[p] = "comment", view' = view
    PROVE  Budget'
<1>1. PICK n \in Nat : n = view[p].hit.commands
  BY DEF RemedyInv, InHandLooked, Looked, InHand, Take
<1>2. pc[p] = "act" /\ n <= left /\ left' = left - n /\ UNCHANGED suites
  <2>1. pc[p] = "act" /\ UNCHANGED suites
    BY DEF Take
  <2>2. Fits(n) /\ left' = left - n
    <3>1. Leave(p) => pc'[p] = "done"
      BY DEF Leave, Goes, RemedyInv, RemedyShape
    <3> QED
      BY <1>1, <3>1 DEF Take
  <2> QED
    BY <2>1, <2>2 DEF Fits
<1>3. InFlight' = InFlight \union Reserved(p)
  <2>1. \A q \in PRs : pc'[q] = "comment" <=> pc[q] = "comment" \/ q = p
    BY DEF Others
  <2>2. \A q \in PRs : Reserved(q)' = Reserved(q)
    BY DEF Reserved
  <2> QED
    BY <2>1, <2>2 DEF InFlight, PRs
<1>4. InFlight \intersect Reserved(p) = {}
  <2>1. \A x \in InFlight : x[1] # p
    BY <1>2 DEF InFlight, Reserved
  <2>2. \A x \in Reserved(p) : x[1] = p
    BY DEF Reserved
  <2> QED
    BY <2>1, <2>2
<1>5. IsFiniteSet(Reserved(p)) /\ Cardinality(Reserved(p)) = n
  BY <1>1, ReservedMany
<1>6. IsFiniteSet(InFlight) /\ Cardinality(InFlight) \in Nat
  BY FS_CardinalityType DEF RemedyInv, Budget
<1>7. /\ IsFiniteSet(InFlight')
      /\ Cardinality(InFlight') = Cardinality(InFlight) + n
  <2>1. /\ IsFiniteSet(InFlight \union Reserved(p))
        /\ Cardinality(InFlight \union Reserved(p)) =
              Cardinality(InFlight) + Cardinality(Reserved(p))
                 - Cardinality(InFlight \intersect Reserved(p))
    BY <1>5, <1>6, FS_Union
  <2> QED
    BY <1>3, <1>4, <1>5, <1>6, <2>1, FS_EmptySet
<1>8. /\ left \in Nat /\ suites.started \in Nat /\ suites.returned \in Nat
      /\ suites.started + left + Cardinality(InFlight)
            <= SuiteLimit + suites.returned
  BY DEF RemedyInv, Budget
<1>9. Budget' <=>
         /\ left' \in Nat /\ suites'.started \in Nat /\ suites'.returned \in Nat
         /\ IsFiniteSet(InFlight')
         /\ suites'.started + left' + Cardinality(InFlight')
               <= SuiteLimit + suites'.returned
  BY DEF Budget
<1> QED
  BY <1>2, <1>6, <1>7, <1>8, <1>9, SuiteLimitAssumption

\* What was reserved is started, or given back, or both.
LEMMA CommentKeeps ==
    ASSUME RemedyInv, NEW p \in PRs, NEW answer \in Answers,
           CommentCommand(p, answer), Others(p), UNCHANGED hits,
           pc'[p] # "comment"
    PROVE  Budget'
<1>1. PICK n \in Nat : n = view[p].hit.commands
  BY DEF RemedyInv, InHandLooked, Looked, InHand, CommentCommand
<1>2. /\ pc[p] = "comment"
      /\ left' = IF answer = "ok" THEN left ELSE left + n
      /\ suites'.started = suites.started + IF answer = "error" THEN 0 ELSE n
      /\ suites'.returned = suites.returned + IF answer = "lost" THEN n ELSE 0
  BY <1>1 DEF CommentCommand
<1>3. InFlight' = InFlight \ Reserved(p)
  <2>1. \A q \in PRs : pc'[q] = "comment" <=> pc[q] = "comment" /\ q # p
    BY DEF Others
  <2>2. \A q \in PRs \ {p} : Reserved(q)' = Reserved(q)
    BY DEF Reserved, Others
  <2>3. \A q \in PRs \ {p} : Reserved(q) \intersect Reserved(p) = {}
    BY DEF Reserved
  <2> QED
    BY <2>1, <2>2, <2>3 DEF InFlight, PRs
<1>4. Reserved(p) \subseteq InFlight
  BY <1>2 DEF InFlight
<1>5. IsFiniteSet(Reserved(p)) /\ Cardinality(Reserved(p)) = n
  BY <1>1, ReservedMany
<1>6. IsFiniteSet(InFlight) /\ Cardinality(InFlight) \in Nat
  BY FS_CardinalityType DEF RemedyInv, Budget
<1>7. /\ IsFiniteSet(InFlight') /\ Cardinality(InFlight') \in Nat
      /\ Cardinality(InFlight) = Cardinality(InFlight') + n
  <2>1. /\ IsFiniteSet(InFlight \ Reserved(p))
        /\ Cardinality(InFlight \ Reserved(p)) =
              Cardinality(InFlight)
                 - Cardinality(InFlight \intersect Reserved(p))
    BY <1>6, FS_Difference
  <2>2. InFlight \intersect Reserved(p) = Reserved(p)
    BY <1>4
  <2>3. Cardinality(InFlight') \in Nat
    BY <1>3, <2>1, FS_CardinalityType
  <2>4. Cardinality(InFlight') = Cardinality(InFlight) - n
    <3>1. Cardinality(InFlight \intersect Reserved(p)) = n
      BY <1>5, <2>2
    <3> QED
      BY <1>3, <2>1, <3>1
  <2> QED
    BY <1>3, <1>6, <2>1, <2>3, <2>4
<1>8. /\ left \in Nat /\ suites.started \in Nat /\ suites.returned \in Nat
      /\ suites.started + left + Cardinality(InFlight)
            <= SuiteLimit + suites.returned
  BY DEF RemedyInv, Budget
<1>9. Budget' <=>
         /\ left' \in Nat /\ suites'.started \in Nat /\ suites'.returned \in Nat
         /\ IsFiniteSet(InFlight')
         /\ suites'.started + left' + Cardinality(InFlight')
               <= SuiteLimit + suites'.returned
  BY DEF Budget
<1>10. CASE answer = "ok"
  BY <1>2, <1>7, <1>8, <1>9, <1>10, SuiteLimitAssumption
<1>11. CASE answer = "error"
  BY <1>2, <1>7, <1>8, <1>9, <1>11, SuiteLimitAssumption
<1>12. CASE answer = "lost"
  BY <1>2, <1>7, <1>8, <1>9, <1>12, SuiteLimitAssumption
<1> QED
  BY <1>10, <1>11, <1>12 DEF Answers

-----------------------------------------------------------------------------
(* The steps.                                                               *)
LEMMA NextRunKeeps ==
    ASSUME RemedyInv, NextRun PROVE RemedyInv'
<1> DEFINE unmarked ==
               {p \in PRs : pc[p] = "mark" /\ view[p].name \notin MarkOnly}
           lost == {ChangeOf(KeyAt(p)) : p \in unmarked}
<1>1. /\ forgotten' = [k \in DOMAIN forgotten \union lost |->
                          CountOf(forgotten, k) + IF k \in lost THEN 1 ELSE 0]
      /\ UNCHANGED <<hits, comments, acted>> /\ left' = SuiteLimit
      /\ pc' = [p \in PRs |-> "list"] /\ view' = [p \in PRs |-> <<>>]
      /\ suites' = [started |-> 0, returned |-> 0]
  BY DEF NextRun, KeyAt, github
<1>2. \A k : CountOf(forgotten, k) \in Nat
  BY CountIsNat DEF RemedyInv, RemedyShape
<1>3. /\ Counts(forgotten')
      /\ \A k : CountOf(forgotten', k) >= CountOf(forgotten, k)
      /\ \A k \in lost : CountOf(forgotten', k) >= CountOf(forgotten, k) + 1
  <2> HIDE DEF lost
  <2>1. Counts(forgotten')
    BY <1>1, <1>2 DEF Counts
  <2>2. ASSUME NEW k PROVE
           /\ CountOf(forgotten', k) >= CountOf(forgotten, k)
           /\ k \in lost =>
                 CountOf(forgotten', k) >= CountOf(forgotten, k) + 1
    <3>1. CASE k \in DOMAIN forgotten \union lost
      <4>1. CountOf(forgotten', k) =
               CountOf(forgotten, k) + IF k \in lost THEN 1 ELSE 0
        BY <1>1, <3>1 DEF CountOf
      <4>2. CountOf(forgotten, k) \in Nat
        BY <1>2
      <4> QED
        BY <4>1, <4>2
    <3>2. CASE k \notin DOMAIN forgotten \union lost
      BY <1>1, <3>2 DEF CountOf
    <3> QED
      BY <3>1, <3>2
  <2> QED
    BY <2>1, <2>2
<1>4. Memories'
  <2>1. CommentsGrow
    BY <1>1 DEF CommentsGrow
  <2>2. ASSUME NEW key \in DOMAIN acted, AboutToBe(key)
        PROVE  ChangeOf(key) \in lost
    <3>1. key[1] \in unmarked /\ KeyAt(key[1]) = key
      BY <2>2 DEF RemedyInv, Memories, AboutToBe
    <3> QED
      BY <3>1
  <2> HIDE DEF lost
  <2> QED
    BY <1>1, <1>3, <2>1, <2>2, StillAccounted
<1>5. RemedyShape'
  BY <1>1, <1>3 DEF RemedyInv, RemedyShape, PRs, IsFcn, Counts
<1>6. \A q \in PRs : pc'[q] = "list"
  BY <1>1
<1>7. InHandLooked'
  BY <1>1, <1>6 DEF InHandLooked, InHand, PRs
<1>8. InFlight' = {}
  BY <1>1, <1>6 DEF InFlight, PRs
<1>9. Budget'
  <2>1. IsFiniteSet(InFlight') /\ Cardinality(InFlight') = 0
    BY <1>8, FS_EmptySet
  <2> QED
    BY <1>1, <2>1, SuiteLimitAssumption DEF Budget
<1> QED
  BY <1>4, <1>5, <1>7, <1>9 DEF RemedyInv

\* What others do touches no evidence and no sweep.
LEMMA OthersKeep ==
    ASSUME RemedyInv, NEW p \in PRs,
           UNCHANGED <<hits, pc, view, history, left, suites>>,
           \/ UNCHANGED comments
           \/ \E m : /\ comments' = [comments EXCEPT ![p] = Append(@, m)]
                     /\ m.kind # Evidence
    PROVE  RemedyInv'
<1>1. Commented(p)
  BY DEF Commented
<1>2. /\ IsFcn(comments') /\ DOMAIN comments' = PRs
      /\ \A q \in PRs : comments'[q] \in Seq(Range(comments'[q]))
      /\ \A q \in PRs \ {p} : comments'[q] = comments[q]
      /\ CommentsGrow
  BY <1>1, CommentedShape DEF RemedyInv
<1>3. RemedyShape'
  BY <1>2 DEF RemedyInv, RemedyShape, PRs, IsFcn, Counts, history
<1>4. Memories'
  <2>1. /\ UNCHANGED <<acted, forgotten>> /\ Counts(forgotten')
        /\ \A k : CountOf(forgotten, k) \in Nat
    BY CountIsNat DEF RemedyInv, RemedyShape, history
  <2>2. \A key \in DOMAIN acted : AboutToBe(key) => AboutToBe(key)'
    BY DEF AboutToBe, Blind, KeyAt, KeyOf
  <2>3. \A k : CountOf(forgotten', k) >= CountOf(forgotten, k)
    BY <2>1
  <2> QED
    BY <1>2, <2>1, <2>2, <2>3, StillAccounted
<1>5. InHandLooked'
  <2>1. ASSUME NEW q \in PRs, pc'[q] \in InHand PROVE Looked(q)'
    <3>1. \A m \in Range(comments'[q]) :
             m \in Range(comments[q]) \/ m.kind # Evidence
      <4>1. CASE UNCHANGED comments
        BY <4>1
      <4>2. ASSUME NEW m, comments' = [comments EXCEPT ![p] = Append(@, m)],
                   m.kind # Evidence
            PROVE  \A x \in Range(comments'[q]) :
                      x \in Range(comments[q]) \/ x.kind # Evidence
        <5>1. CASE q # p
          BY <1>2, <5>1
        <5>2. CASE q = p
          <6>1. comments'[q] = Append(comments[q], m)
            BY <4>2, <5>2 DEF RemedyInv, RemedyShape
          <6>2. Range(comments'[q]) = Range(comments[q]) \union {m}
            BY <6>1, AppendRange DEF RemedyInv, RemedyShape
          <6> QED
            BY <4>2, <6>2
        <5> QED
          BY <5>1, <5>2
      <4> QED
        BY <4>1, <4>2
    <3>2. pc[q] \in InHand /\ pc'[q] = pc[q] /\ view'[q] = view[q]
      BY <2>1
    <3> QED
      BY <3>1, <3>2, StillLooked
  <2> QED
    BY <2>1 DEF InHandLooked, PRs
<1>6. Budget'
  <2>1. InFlight' = InFlight
    BY DEF InFlight, PRs, Reserved
  <2> QED
    BY <2>1, BudgetKeeps DEF RemedyInv
<1> QED
  BY <1>3, <1>4, <1>5, <1>6 DEF RemedyInv

\* A step of one PR that takes none of its suites.
LEMMA PassesKeep ==
    ASSUME RemedyInv, UNCHANGED <<hits, comments, history, left, suites>>,
           NEW p \in PRs, NEW label, NEW v, Steps(p, label, v),
           pc[p] \notin {"mark", "comment"}, label # "comment",
           label \in InHand => Looked(p)'
    PROVE  RemedyInv'
<1>1. RemedyShape' /\ Memories' /\ InHandLooked' /\ Others(p)
  BY Passes
<1>2. pc'[p] = label
  BY StepShape DEF RemedyInv
<1>3. InFlight' = InFlight
  BY <1>1, <1>2, SameFlight
<1> QED
  BY <1>1, <1>3, BudgetKeeps DEF RemedyInv

\* An action that reached GitHub or CircleCI, or did not.
LEMMA AppliesKeep ==
    ASSUME RemedyInv, UNCHANGED <<hits, comments, left, suites>>,
           NEW p \in PRs, pc[p] = "act", NEW answer \in Answers,
           Applied(p, answer)
    PROVE  RemedyInv'
<1>1. /\ RemedyShape' /\ Memories' /\ InHandLooked' /\ Others(p)
      /\ pc'[p] # "comment"
  BY AppliedKeeps
<1>2. InFlight' = InFlight
  BY <1>1, SameFlight
<1> QED
  BY <1>1, <1>2, BudgetKeeps DEF RemedyInv

\* The reads of a PR, and the reservation of its suites.
LEMMA ReadsKeep ==
    ASSUME RemedyInv, NEW p \in PRs,
           ReadPull(p) \/ Look(p) \/ ReadProtection(p) \/ Take(p)
    PROVE  RemedyInv'
<1>0. /\ UNCHANGED <<hits, comments, history, suites>>
      /\ pc[p] \notin {"mark", "comment"}
  BY DEF ReadPull, Look, ReadProtection, Take, github
<1>1. CASE Leave(p) /\ UNCHANGED left
  <2>1. Steps(p, "done", <<>>)
    BY <1>1 DEF Leave, Goes, Steps
  <2> QED
    BY <1>0, <1>1, <2>1, PassesKeep DEF InHand
<1>2. CASE ReadPull(p) /\ ~Leave(p)
  <2>1. \E v : Steps(p, "read", v)
    BY <1>2 DEF ReadPull, Goes, Steps
  <2>2. UNCHANGED left
    BY <1>2 DEF ReadPull
  <2> QED
    BY <1>0, <2>1, <2>2, PassesKeep DEF InHand
<1>3. CASE Look(p)
  <2>1. UNCHANGED left
    BY <1>3 DEF Look
  <2> QED
    BY <1>0, <1>3, <2>1, LookSees, PassesKeep
<1>4. CASE ReadProtection(p) /\ ~Leave(p)
  <2>1. /\ pc[p] = "protection" /\ UNCHANGED left /\ Goes(p, "act")
        /\ \E kept : view' = [view EXCEPT ![p].left = kept]
    BY <1>4 DEF ReadProtection
  <2>2. PICK kept : view' = [view EXCEPT ![p].left = kept]
    BY <2>1
  <2>3. PICK v : v = [view[p] EXCEPT !.left = kept]
    OBVIOUS
  <2>4. Steps(p, "act", v)
    BY <2>1, <2>2, <2>3 DEF Steps, Goes
  <2>5. pc'[p] = "act" /\ view'[p] = v
    BY <1>0, <2>4, StepShape DEF RemedyInv
  <2>6. Looked(p) /\ view[p].name \notin MarkOnly
    BY <2>1 DEF RemedyInv, InHandLooked, InHand, Looked
  <2>7. /\ IsFcn(v) /\ ViewFields \subseteq DOMAIN v
        /\ \A f \in ViewFields \ {"left"} : v[f] = view[p][f]
    BY <2>3, <2>6 DEF Looked, IsFcn
  <2>8. /\ v.head = view[p].head /\ v.change = view[p].change
        /\ v.patch = view[p].patch /\ v.base = view[p].base
        /\ v.cut = view[p].cut /\ v.hit = view[p].hit
        /\ v.name = view[p].name /\ v.standing = view[p].standing
    BY <2>7 DEF ViewFields
  <2>9. Looked(p)'
    <3>1. KeyAt(p)' = KeyAt(p)
      BY <2>5, <2>8 DEF KeyAt, KeyOf
    <3>2. Recorded(KeyAt(p))' <=> Recorded(KeyAt(p))
      BY <1>0, <3>1 DEF Recorded
    <3>3. Blind(p, view[p])' <=> Blind(p, view[p])
      BY <2>5, <2>8 DEF Blind
    <3> QED
      BY <2>5, <2>6, <2>7, <2>8, <3>2, <3>3 DEF Looked
  <2> QED
    BY <1>0, <2>1, <2>4, <2>9, PassesKeep
<1>5. CASE Take(p) /\ ~(Leave(p) /\ UNCHANGED left)
  <2>1. pc[p] = "act" /\ To(p, "comment")
    BY <1>5 DEF Take
  <2>2. pc' = [pc EXCEPT ![p] = "comment"] /\ view' = view
    BY <2>1 DEF To, Goes
  <2>3. [view EXCEPT ![p] = view[p]] = view
    BY DEF RemedyInv, RemedyShape, IsFcn
  <2>4. PICK v : v = view[p]
    OBVIOUS
  <2>5. Steps(p, "comment", v)
    BY <2>2, <2>3, <2>4 DEF Steps
  <2>6. Looked(p)'
    <3>1. Looked(p) /\ view[p].name \notin MarkOnly
      BY <2>1 DEF RemedyInv, InHandLooked, InHand, Looked
    <3>2. KeyAt(p)' = KeyAt(p) /\ (Blind(p, view[p])' <=> Blind(p, view[p]))
      BY <2>2 DEF KeyAt, KeyOf, Blind
    <3>3. Recorded(KeyAt(p))' <=> Recorded(KeyAt(p))
      BY <1>0, <3>2 DEF Recorded
    <3> QED
      BY <2>2, <3>1, <3>2, <3>3 DEF Looked, IsFcn
  <2>7. RemedyShape' /\ Memories' /\ InHandLooked' /\ Others(p)
    BY <1>0, <2>5, <2>6, Passes
  <2>8. pc'[p] = "comment"
    BY <1>0, <2>5, StepShape DEF RemedyInv
  <2>9. Budget'
    BY <1>0, <1>5, <2>2, <2>7, <2>8, TakeKeeps
  <2> QED
    BY <2>7, <2>9 DEF RemedyInv
<1>6. ReadPull(p) \/ ReadProtection(p) => UNCHANGED left
  BY DEF ReadPull, ReadProtection
<1> QED
  BY <1>1, <1>2, <1>3, <1>4, <1>5, <1>6

\* The actions that take no suites.
LEMMA ActsKeep ==
    ASSUME RemedyInv, NEW p \in PRs, NEW answer \in Answers,
           \/ UpdateBranch(p, answer) \/ RerunBuild(p, answer)
           \/ ClosePR(p, answer) \/ Dispatch(p, answer)
           \/ WriteProtection(p, answer)
    PROVE  RemedyInv'
<1>1. /\ pc[p] = "act" /\ UNCHANGED <<hits, comments, left, suites>>
  BY DEF UpdateBranch, RerunBuild, ClosePR, Dispatch, WriteProtection, github
<1>2. CASE Applied(p, answer)
  BY <1>1, <1>2, AppliesKeep
<1>3. CASE answer = "error" /\ Leave(p) /\ UNCHANGED history
  <2>1. Applied(p, answer)
    BY <1>3 DEF Applied
  <2> QED
    BY <1>1, <2>1, AppliesKeep
<1> QED
  BY <1>2, <1>3
     DEF UpdateBranch, RerunBuild, ClosePR, Dispatch, WriteProtection

\* Every step keeps the invariant.
LEMMA RemedyStep ==
    ASSUME RemedyInv, [RemedyNext]_remedyVars PROVE RemedyInv'
<1>1. ASSUME NEW p \in PRs,
             ReadPull(p) \/ Look(p) \/ ReadProtection(p) \/ Take(p)
      PROVE  RemedyInv'
  BY <1>1, ReadsKeep
<1>2. ASSUME NEW p \in PRs, NEW answer \in Answers,
             \/ UpdateBranch(p, answer) \/ RerunBuild(p, answer)
             \/ ClosePR(p, answer) \/ Dispatch(p, answer)
             \/ WriteProtection(p, answer)
      PROVE  RemedyInv'
  BY <1>2, ActsKeep
<1>3. ASSUME NEW p \in PRs, NEW answer \in Answers, CommentCommand(p, answer)
      PROVE  RemedyInv'
  <2>1. /\ pc[p] = "comment" /\ Applied(p, answer)
        /\ UNCHANGED <<hits, comments>>
    BY <1>3 DEF CommentCommand, github
  <2>2. /\ RemedyShape' /\ Memories' /\ InHandLooked' /\ Others(p)
        /\ pc'[p] # "comment"
    BY <2>1, AppliedKeeps
  <2> QED
    BY <1>3, <2>1, <2>2, CommentKeeps DEF RemedyInv
<1>4. ASSUME NEW p \in PRs, NEW answer \in Answers, PostMarker(p, answer)
      PROVE  RemedyInv'
  <2>1. /\ RemedyShape' /\ Memories' /\ InHandLooked' /\ Others(p)
        /\ pc'[p] # "comment"
    BY <1>4, PostMarkerKeeps
  <2>2. pc[p] = "mark" /\ UNCHANGED <<hits, left, suites>>
    BY <1>4 DEF PostMarker
  <2>3. InFlight' = InFlight
    BY <2>1, <2>2, SameFlight
  <2> QED
    BY <2>1, <2>2, <2>3, BudgetKeeps DEF RemedyInv
<1>5. ASSUME NEW p \in PRs, Push(p) \/ UpdateLands(p) \/ Reopen(p)
      PROVE  RemedyInv'
  <2>1. UNCHANGED <<hits, pc, view, history, left, suites, comments>>
    BY <1>5 DEF Push, UpdateLands, Reopen
  <2> QED
    BY <2>1, OthersKeep
<1>6. ASSUME NEW p \in PRs, AgentMarks(p) PROVE RemedyInv'
  <2>1. UNCHANGED <<hits, pc, view, history, left, suites>>
    BY <1>6 DEF AgentMarks
  <2> DEFINE m == [kind |-> "rescue", outcome |-> "failed",
                   head |-> pulls[p].head, patch |-> pulls[p].change,
                   title |-> TitleOf[pulls[p].change], base |-> 0]
  <2>2. comments' = [comments EXCEPT ![p] = Append(@, m)]
    BY <1>6 DEF AgentMarks
  <2>3. m.kind # Evidence
    BY DEF Evidence
  <2> HIDE DEF m
  <2> QED
    BY <2>1, <2>2, <2>3, OthersKeep
<1>7. CASE NextRun
  BY <1>7, NextRunKeeps
<1>8. CASE BaseMoves \/ AdminEdits \/ Remediation \/ UNCHANGED remedyVars
  <2>1. UNCHANGED <<hits, pc, view, history, left, suites, comments>>
    BY <1>8 DEF BaseMoves, AdminEdits, Remediation, remedyVars, github
  <2>2. CASE PRs # {}
    BY <2>1, <2>2, OthersKeep
  <2>3. CASE PRs = {}
    BY <2>1, <2>3 DEF RemedyInv, RemedyShape, Memories, InHandLooked, Budget,
                      InFlight, PRs, IsFcn, Counts, history
  <2> QED
    BY <2>2, <2>3
<1> QED
  BY <1>1, <1>2, <1>3, <1>4, <1>5, <1>6, <1>7, <1>8 DEF RemedyNext

\* Nothing is done, and nothing forgotten, when a PR is first seen.
LEMMA RemedyStarts == RemedyInit => RemedyInv
<1> SUFFICES ASSUME RemedyInit PROVE RemedyInv
  OBVIOUS
<1>1. RemedyShape
  BY DEF RemedyInit, RemedyShape, IsFcn, Counts, Zero
<1>2. Memories
  BY DEF RemedyInit, Memories, Zero
<1>3. InHandLooked
  BY DEF RemedyInit, InHandLooked, InHand
<1>4. InFlight = {}
  BY DEF RemedyInit, InFlight
<1>5. Budget
  <2>1. IsFiniteSet(InFlight) /\ Cardinality(InFlight) = 0
    BY <1>4, FS_EmptySet
  <2> QED
    BY <2>1, SuiteLimitAssumption DEF RemedyInit, Budget
<1> QED
  BY <1>1, <1>2, <1>3, <1>5 DEF RemedyInv

\* One record stands for one time, and the rest were forgotten.
LEMMA BoundsRepeats == RemedyInv => RepeatsExplained
<1> SUFFICES ASSUME RemedyInv, NEW key \in DOMAIN acted
             PROVE  acted[key] <= 1 + CountOf(forgotten, ChangeOf(key))
  BY DEF RepeatsExplained
<1>1. CountOf(acted, key) = acted[key]
  BY DEF CountOf
<1>2. CountOf(acted, key) \in Nat /\ CountOf(forgotten, ChangeOf(key)) \in Nat
  BY CountIsNat DEF RemedyInv, RemedyShape
<1>3. CountOf(acted, key) <= CountOf(forgotten, ChangeOf(key))
         + IF Recorded(key) \/ AboutToBe(key) THEN 1 ELSE 0
  BY DEF RemedyInv, Memories, Accounted
<1> QED
  BY <1>1, <1>2, <1>3

\* What is left and what is reserved is no less than nothing.
LEMMA BoundsSuites == RemedyInv => SuitesBounded
<1> SUFFICES ASSUME RemedyInv PROVE SuitesBounded
  OBVIOUS
<1>1. Cardinality(InFlight) \in Nat
  BY FS_CardinalityType DEF RemedyInv, Budget
<1> QED
  BY <1>1, SuiteLimitAssumption DEF RemedyInv, Budget, SuitesBounded

-----------------------------------------------------------------------------
(* The theorems.  A behaviour of Upkeep is one of each of its parts.        *)

\* Each part of a sweep goes on as if the others were not there: none reads
\* or writes what another keeps.
THEOREM EachPart == USpec => RemedySpec /\ RerunSpec /\ HandoffSpec
<1>1. UInit => RemedyInit /\ RerunInit /\ HandoffInit
  BY DEF UInit
<1>2. [UNext]_upkeepVars => /\ [RemedyNext]_remedyVars
                            /\ [RerunSteps]_rerunVars
                            /\ [HandoffNext]_handoffVars
  BY DEF UNext, upkeepVars
<1> QED
  BY <1>1, <1>2, PTL DEF USpec, RemedySpec, RerunSpec, HandoffSpec

\* An action is taken again on a change only where its record was lost or
\* could not be read, whatever runs died and whatever answers were lost
\* (OncePerChange).
THEOREM RepeatsAccounted == RemedySpec => []RepeatsExplained
BY RemedyStarts, RemedyStep, BoundsRepeats, PTL DEF RemedySpec

\* A run starts no more suites than its budget and those it gave back for a
\* comment whose answer was lost (SuiteBudget).
THEOREM SuitesWithinBudget == RemedySpec => []SuitesBounded
BY RemedyStarts, RemedyStep, BoundsSuites, PTL DEF RemedySpec

\* What a run hands over and what it counted make up no more than the week
\* allows, whoever merges, closes or marks in the meantime (HandoffBudget).
THEOREM WithinTheWeek == HandoffSpec => []WithinWeek
BY WeekStarts, WeekStep, BoundsWeek, PTL DEF HandoffSpec
=============================================================================
