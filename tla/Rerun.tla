------------------------------- MODULE Rerun --------------------------------
(***************************************************************************)
(* The runs of CircleCI on one head, and the sweep that asks for them      *)
(* again: builds CircleCI cancelled itself (process/cancelled.go), and     *)
(* workflows that ended and posted no status (process/unposted.go).  What  *)
(* CircleCI lists is the only record of a rerun.  A head may have several  *)
(* pipelines: the one its push started, and those somebody starts on it    *)
(* later.  A sweep may end at any point, and the answer of a request may   *)
(* be lost.                                                                *)
(***************************************************************************)
EXTENDS Naturals, Sequences, FiniteSets, SequencesExt, Functions

CONSTANTS
    JobsOf,         \* the jobs of each workflow of a pipeline
    Needs,          \* the jobs each job waits for
    Tokens,         \* whether a CircleCI token may be configured
    MaxPipelines, MaxFlows, MaxSweeps   \* bounds on the pipelines of the head,
                                        \* the workflow runs and the sweeps

\* A pipeline's configuration lists its workflows.
ASSUME WorkflowsAssumption == IsFiniteSet(DOMAIN JobsOf)
\* A push starts a pipeline.
ASSUME PipelinesAssumption == MaxPipelines \in Nat \ {0}

(* A run of a workflow is [pipeline, name, rerun, posts, jobs]: rerun its   *)
(* tag, posts whether its jobs report to GitHub, jobs what each came to:    *)
(* "blocked", "running", "success", "failed", "aborted" (cancelled while it *)
(* ran, which CircleCI records as failed) or "canceled" (before any step).  *)
(* A run is known by its place in the list.                                 *)

VARIABLES
    pipelines,      \* how many pipelines the head has had
    flows,          \* the workflow runs, oldest first
    reported,       \* what GitHub has of each job: "" for nothing
    poster,         \* the run whose job reported it last, 0 for none
    token,
    sweeps, step,   \* the sweep, and where it is
    found,          \* what it is about to run again, in order, each with where
    wanted, restarted,  \* the cancelled builds it found, and those it ran again
    outcome,        \* the row: "" until it is decided
    reruns          \* how often handleUnposted reran a workflow of a pipeline

ci == <<pipelines, flows, reported, poster>>
rerunVars == <<ci, token, sweeps, step, found, wanted, restarted, outcome,
               reruns>>

Workflows == DOMAIN JobsOf
Jobs == UNION Range(JobsOf)
JobState(j) == flows[poster[j]].jobs[j]

-----------------------------------------------------------------------------
(* CircleCI.                                                                *)

Live == {"blocked", "running"}
Fresh(w) == [j \in JobsOf[w] |-> IF Needs[j] = {} THEN "running" ELSE "blocked"]

\* The failed jobs run again, with the jobs behind them; the others keep what
\* they came to.
FromFailed(old) ==
    [j \in DOMAIN old |->
        IF old[j] = "success" THEN "success"
        ELSE IF \A n \in Needs[j] \intersect DOMAIN old : old[n] = "success"
             THEN "running" ELSE "blocked"]

\* Jobs S of run i report a state.
Reports(i, S, state) ==
    /\ reported' = [j \in Jobs |-> IF j \in S THEN state[j] ELSE reported[j]]
    /\ poster' = [j \in Jobs |-> IF j \in S THEN i ELSE poster[j]]

Pending == [j \in Jobs |-> "pending"]
Running(jobs) == {j \in DOMAIN jobs : jobs[j] = "running"}

\* A workflow is run again, in the pipeline it is of: the jobs that run report
\* it, if the run reports at all.
Begins(pipeline, w, jobs, posts) ==
    /\ Len(flows) < MaxFlows
    /\ flows' = Append(flows, [pipeline |-> pipeline, name |-> w,
                               rerun |-> TRUE, posts |-> posts, jobs |-> jobs])
    /\ Reports(Len(flows) + 1, IF posts THEN Running(jobs) ELSE {}, Pending)
    /\ UNCHANGED pipelines

\* The workflows a pipeline runs, its filters and parameters decide which, and
\* whether each reports.
Selections == UNION {[S -> BOOLEAN] : S \in SUBSET Workflows \ {{}}}

\* A pipeline begins with a run of each of its workflows, and GitHub has the
\* jobs that run of those that report.
FirstRuns(pipeline, posts) ==
    [i \in 1..Cardinality(DOMAIN posts) |->
        LET w == SetToSeq(DOMAIN posts)[i]
        IN [pipeline |-> pipeline, name |-> w, rerun |-> FALSE,
            posts |-> posts[w], jobs |-> Fresh(w)]]
FirstReports(posts) ==
    UNION {{j \in JobsOf[w] : posts[w] /\ Needs[j] = {}} : w \in DOMAIN posts}
PlaceOf(j, posts) == CHOOSE i \in 1..Cardinality(DOMAIN posts) :
                        j \in JobsOf[SetToSeq(DOMAIN posts)[i]]

\* Somebody starts another pipeline on the head: from the UI, by the API or on
\* a schedule.
PipelineStarts(posts) ==
    /\ pipelines < MaxPipelines
    /\ Len(flows) + Cardinality(DOMAIN posts) <= MaxFlows
    /\ pipelines' = pipelines + 1
    /\ flows' = flows \o FirstRuns(pipelines + 1, posts)
    /\ reported' = [j \in Jobs |->
            IF j \in FirstReports(posts) THEN "pending" ELSE reported[j]]
    /\ poster' = [j \in Jobs |-> IF j \in FirstReports(posts)
                                 THEN Len(flows) + PlaceOf(j, posts) ELSE poster[j]]
    /\ UNCHANGED <<token, sweeps, step, found, wanted, restarted, outcome,
                   reruns>>

JobEnds(i, j, state) ==
    LET ended == [flows[i].jobs EXCEPT ![j] = state]
        next == [k \in DOMAIN ended |->
                    IF /\ ended[k] = "blocked" /\ j \in Needs[k]
                       /\ \A n \in Needs[k] : ended[n] = "success"
                    THEN "running" ELSE ended[k]]
        said == [Pending EXCEPT ![j] =
                    IF state = "success" THEN "success" ELSE "failure"]
    IN /\ j \in DOMAIN flows[i].jobs /\ flows[i].jobs[j] = "running"
       /\ flows' = [flows EXCEPT ![i].jobs = next]
       /\ Reports(i, IF ~flows[i].posts THEN {}
                     ELSE {k \in DOMAIN next : next[k] # flows[i].jobs[k]}, said)
       /\ UNCHANGED <<pipelines, token, sweeps, step, found, wanted, restarted,
                      outcome, reruns>>

\* Finished: no job of the run has yet to report.
Finished(f) ==
    \A j \in DOMAIN f.jobs :
        /\ f.jobs[j] # "running"
        /\ f.jobs[j] = "blocked" =>
              \E n \in Needs[j] : f.jobs[n] \notin Live \union {"success"}

RerunInit ==
    /\ pipelines = 1
    /\ \E posts \in Selections :
          /\ flows = FirstRuns(1, posts)
          /\ reported = [j \in Jobs |->
                IF j \in FirstReports(posts) THEN "pending" ELSE ""]
          /\ poster = [j \in Jobs |->
                IF j \in FirstReports(posts) THEN PlaceOf(j, posts) ELSE 0]
    /\ token \in Tokens
    /\ sweeps = 1 /\ step = "read" /\ found = <<>>
    /\ wanted = {} /\ restarted = {}
    /\ outcome = ""
    /\ reruns = [r \in (1..MaxPipelines) \X Workflows |-> 0]

-----------------------------------------------------------------------------
(* The sweep.                                                               *)

\* Build.AutoCancelled, of what a job came to.
AutoCancelled(state) == state \in {"aborted", "canceled"}

Decide(o) == outcome' = o /\ step' = "done" /\ found' = <<>>

\* The checks are read; classifyCancelled reads the build behind each red
\* one, in the order of their names, when none of them is another's.
Read(readable) ==
    /\ step = "read"
    /\ LET red == {j \in Jobs : reported[j] = "failure"}
           missing == {j \in Jobs : reported[j] = ""}
           open == \E j \in Jobs : reported[j] = "pending"
       IN IF red # {}
          THEN IF readable /\ \A j \in red : AutoCancelled(JobState(j))
               THEN IF token THEN /\ found' = [i \in 1..Cardinality(red) |->
                                        LET j == SetToSeq(red)[i]
                                        IN [job |-> j, run |-> poster[j]]]
                                  /\ wanted' = red
                                  /\ step' = "cancelled" /\ UNCHANGED outcome
                    ELSE Decide("cancelled") /\ UNCHANGED wanted
               ELSE Decide("failed") /\ UNCHANGED wanted
          ELSE /\ UNCHANGED wanted
               /\ IF missing # {} /\ ~open
                  THEN step' = "unposted" /\ UNCHANGED <<found, outcome>>
                  ELSE Decide(IF missing = {} /\ ~open THEN "passed"
                              ELSE "waiting")
    /\ UNCHANGED <<ci, token, sweeps, restarted, reruns>>

Replies == {"ok", "error", "lost"}

\* handleCancelled, build by build: the workflow from its failed jobs, and
\* once; the single build when the workflow has none to rerun from.  A build
\* retried that way runs on its own.
RerunCancelled(answer) ==
    /\ step = "cancelled"
    /\ IF found = <<>> THEN Decide("retried") /\ UNCHANGED <<ci, restarted>>
       ELSE
       LET j == found[1].job
           i == found[1].run
           old == flows[i].jobs
           again == {k \in DOMAIN old : old[k] \notin {"success"} \union Live}
           failed == \E k \in DOMAIN old : old[k] \in {"failed", "aborted"}
           rest == SelectSeq(Tail(found), LAMBDA b : b.run # i)
       IN /\ IF answer = "error" THEN UNCHANGED ci
             ELSE IF failed
             THEN \E posts \in BOOLEAN :
                    Begins(flows[i].pipeline, flows[i].name, FromFailed(old), posts)
             ELSE /\ flows' = [flows EXCEPT ![i].jobs[j] = "running"]
                  /\ Reports(i, {j}, Pending) /\ UNCHANGED pipelines
          /\ restarted' = restarted \union
                (IF answer = "error" THEN {} ELSE IF failed THEN again ELSE {j})
          /\ IF answer # "ok" THEN Decide("cancelled")
             ELSE found' = rest /\ UNCHANGED <<step, outcome>>
    /\ UNCHANGED <<token, sweeps, wanted, reruns>>

\* What CircleCI lists of a pipeline for a workflow.
RunsOf(pipeline, w) ==
    {i \in DOMAIN flows : flows[i].pipeline = pipeline /\ flows[i].name = w}

\* Whether the record of a pipeline shows a rerun of the workflow, and a slip
\* that asks the first run alone.
FirstIsRerun(pipeline, w) ==                    \* mutant: the order is swapped
    \E i \in RunsOf(pipeline, w) :
        (\A k \in RunsOf(pipeline, w) : i <= k) /\ flows[i].rerun
RerunMade(pipeline, w) == \E i \in RunsOf(pipeline, w) : flows[i].rerun

\* handleUnposted lists the pipelines of the head and reads the newest alone;
\* a read may fail, a pipeline may not exist for the head, and a workflow that
\* runs has yet to report.  The workflows whose jobs carry the missing names
\* are rerun in that pipeline, unless one of them was; where none does, the PR
\* waits.
Unposted(readable, built) ==
    /\ step = "unposted"
    /\ LET missing == {j \in Jobs : reported[j] = ""}
           newest == {f \in Range(flows) : f.pipeline = pipelines}
           lost == {w \in Workflows : /\ RunsOf(pipelines, w) # {}
                                      /\ JobsOf[w] \intersect missing # {}}
       IN IF ~readable THEN Decide("waiting")
          ELSE IF ~built THEN Decide("no-verdict")
          ELSE IF (\E f \in newest : ~Finished(f)) \/ lost = {}
               THEN Decide("waiting")
          ELSE IF (\E w \in lost : RerunMade(pipelines, w)) \/ ~token
               THEN Decide("no-verdict")
               ELSE /\ found' = [i \in 1..Cardinality(lost) |->
                                    <<pipelines, SetToSeq(lost)[i]>>]
                    /\ step' = "rerun" /\ UNCHANGED outcome
    /\ UNCHANGED <<ci, token, sweeps, wanted, restarted, reruns>>

\* rerunOnce, workflow by workflow.  One that fails ends the row, whatever was
\* rerun before it.
RerunNext(answer) ==
    /\ step = "rerun"
    /\ IF found = <<>> THEN Decide("retried") /\ UNCHANGED <<ci, reruns>>
       ELSE /\ IF answer = "error" THEN UNCHANGED <<ci, reruns>>
               ELSE /\ \E posts \in BOOLEAN :
                          Begins(found[1][1], found[1][2], Fresh(found[1][2]), posts)
                    /\ reruns' = [reruns EXCEPT ![found[1]] = @ + 1]
            /\ IF answer = "ok"
               THEN found' = Tail(found) /\ UNCHANGED <<step, outcome>>
               ELSE Decide("no-verdict")
    /\ UNCHANGED <<token, sweeps, wanted, restarted>>

\* The sweep is over, or killed, and another one begins.
NextSweep ==
    /\ sweeps < MaxSweeps
    /\ sweeps' = sweeps + 1 /\ step' = "read" /\ found' = <<>>
    /\ wanted' = {} /\ restarted' = {} /\ outcome' = ""
    /\ UNCHANGED <<ci, token, reruns>>

RerunSteps ==
    \/ \E i \in DOMAIN flows, j \in Jobs,
          state \in {"success", "failed", "aborted", "canceled"} :
          JobEnds(i, j, state)
    \/ \E posts \in Selections : PipelineStarts(posts)
    \/ \E readable \in BOOLEAN : Read(readable)
    \/ \E readable, built \in BOOLEAN : Unposted(readable, built)
    \/ \E answer \in Replies : RerunCancelled(answer) \/ RerunNext(answer)
    \/ NextSweep

RerunSpec == RerunInit /\ [][RerunSteps]_rerunVars

-----------------------------------------------------------------------------
\* A workflow that posted nothing is rerun at most once in a pipeline, by
\* CircleCI's own record, whatever sweep asked for it, was killed after it or
\* lost its answer, and whatever pipelines start meanwhile (rerunOnce).
RerunOnce == \A r \in DOMAIN reruns : reruns[r] <= 1

\* "Each is made at most once per head" (ciRerun).  Does not hold of a head
\* with a second pipeline: the rerun's tag is looked for in the newest alone
\* (unposted.go:116, 151).
OncePerHead ==
    \A r, s \in DOMAIN reruns :
        r[2] = s[2] /\ reruns[r] # 0 /\ reruns[s] # 0 => r = s

\* What handleCancelled says of a retried row: every cancelled build it found
\* runs again, one rerun of a workflow covering all of its jobs.  Does not
\* hold where two jobs of a workflow start together: one without a failed job
\* falls back to a single build, and the other builds are skipped.
RetriedRestarts == outcome = "retried" => wanted \subseteq restarted
=============================================================================
