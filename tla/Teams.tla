------------------------------- MODULE Teams --------------------------------
(***************************************************************************)
(* A run over several teams (cmd/all_teams.go, serve_teams.go): the scopes *)
(* are resolved, teams that own a common repository are put in one group   *)
(* (team_groups.go), the groups are swept at once under a bound (fanout),  *)
(* each team's summary is posted to its channel (internal/notify), and     *)
(* what the teams print is passed on in the order they were named.  The    *)
(* run may be stopped at any point, and the gateway may be away.           *)
(***************************************************************************)
EXTENDS Naturals, Sequences, FiniteSets, SequencesExt, FiniteSetsExt, Functions

CONSTANTS
    Scopes,         \* what the teams may own: sequences of sets, or Unresolved
    Unresolved,     \* a scope whose files do not parse
    Parallels,      \* --parallel
    Default,        \* fanout.Default, which a bound of 0 means
    Channels,       \* what the channel file may say: "id", "none" or "error"
    Attempts        \* the tries of one post

\* A scope that resolved lists its repositories.
ASSUME ScopesAssumption ==
    \A s \in Scopes :
        /\ s \in Seq(Range(s))
        /\ \A i \in DOMAIN s : s[i] = Unresolved \/ IsFiniteSet(s[i])

VARIABLES
    scopes, parallel,
    groups,         \* [team -> the first team of its group]
    stopped,        \* the run's context is cancelled
    started,        \* how many groups have been started
    place,          \* [team -> where its sweep is]
    outcome,        \* [team -> its teamOutcome]
    tries,          \* [team -> the attempts of its post that failed]
    delivered,      \* [team -> whether the channel got its summary]
    written, held, turn, finished   \* orderedOutput: what was passed on, what
                                    \* each team holds, next, and who is done

output == <<written, held, turn, finished>>
given == <<scopes, parallel, groups>>
teamVars == <<given, stopped, started, place, outcome, tries, delivered,
              output>>

Teams == DOMAIN scopes
OwnedBy(i) == IF scopes[i] = Unresolved THEN {} ELSE scopes[i]

-----------------------------------------------------------------------------
(* teamGroups: a union-find over the repositories, whose roots are the      *)
(* lowest teams.                                                            *)

\* Each claim of a team to a repository.  The code takes them team by team, as
\* each lists its repositories; which one is joined first tells no groups
\* apart, so any order stands for that one.
Claims == SetToSeq(UNION {{i} \X OwnedBy(i) : i \in Teams})

FirstOwner(repo) == Min({i \in Teams : repo \in OwnedBy(i)})

RootOf(parent, i) ==
    LET root[k \in DOMAIN parent] ==
            IF parent[k] = k THEN k ELSE root[parent[k]]
    IN root[i]

\* What one claim joins, and a slip that joins the two teams and not their
\* groups.
JoinTeams(parent, a, b) ==                      \* mutant: no root
    IF a = b THEN parent ELSE [parent EXCEPT ![Max({a, b})] = Min({a, b})]
Join(parent, a, b) ==
    LET x == RootOf(parent, a)
        y == RootOf(parent, b)
    IN IF x = y THEN parent ELSE [parent EXCEPT ![Max({x, y})] = Min({x, y})]

\* What the first n claims joined.
Parents[n \in 0..Len(Claims)] ==
    IF n = 0 THEN [i \in Teams |-> i]
    ELSE Join(Parents[n - 1], FirstOwner(Claims[n][2]), Claims[n][1])

TeamGroups == [i \in Teams |-> RootOf(Parents[Len(Claims)], i)]

\* The groups, named by their first team and in its order.
Groups == SetToSortSeq(Range(groups), <)

-----------------------------------------------------------------------------
\* fanout.Each.
Bound == IF parallel = 0 THEN Default ELSE Max({parallel, 1})

Waiting == {i \in Teams : place[i] = "waiting"}
Over == {i \in Teams : place[i] = "over"}
Running(g) == \E i \in Teams : groups[i] = Groups[g] /\ i \notin Over

StartGroup ==
    /\ started < Len(Groups)
    /\ Cardinality({g \in 1..started : Running(g)}) < Bound
    /\ started' = started + 1
    /\ UNCHANGED <<given, stopped, place, outcome, tries, delivered, output>>

\* Whether forEachTeam has come to a team.
Turn(i) ==
    /\ place[i] = "waiting"
    /\ \E g \in 1..started : Groups[g] = groups[i]
    /\ \A j \in 1..(i - 1) : groups[j] = groups[i] => j \in Over

-----------------------------------------------------------------------------
(* orderedOutput.  Its two streams are kept apart and are alike; one is     *)
(* modelled.                                                                *)

Write(i, text) ==
    /\ IF turn = i THEN written' = Append(written, <<i, text>>) /\ UNCHANGED held
       ELSE held' = [held EXCEPT ![i] = Append(@, <<i, text>>)] /\ UNCHANGED written
    /\ UNCHANGED <<turn, finished>>

\* The last team whose held output a turn passes on; and a slip that leaves
\* the team that is not done yet to pass on its own.
FlushedDone(to) == to - 1                       \* mutant: an off-by-one
Flushed(to) == Min({to, Len(scopes)})

Done(i) ==
    /\ place[i] = "ending"
    /\ place' = [place EXCEPT ![i] = "over"]
    /\ finished' = finished \union {i}
    /\ turn' = Min(((turn .. Len(scopes)) \ finished') \union {Len(scopes) + 1})
    /\ LET last == Flushed(turn')
       IN /\ written' = written \o
                FlattenSeq([k \in 1..(last - turn) |-> held[turn + k]])
          /\ held' = [k \in Teams |-> IF k \in (turn + 1)..last THEN <<>>
                                      ELSE held[k]]
    /\ UNCHANGED <<given, stopped, started, outcome, tries, delivered>>

-----------------------------------------------------------------------------
NoOutcome == [said |-> "", channel |-> "none", stopped |-> FALSE,
              err |-> FALSE, posted |-> FALSE, unposted |-> FALSE]

TeamsInit ==
    /\ scopes \in Scopes /\ parallel \in Parallels /\ groups = TeamGroups
    /\ stopped = FALSE /\ started = 0
    /\ place = [i \in Teams |-> "waiting"]
    /\ outcome = [i \in Teams |-> NoOutcome]
    /\ tries = [i \in Teams |-> 0] /\ delivered = [i \in Teams |-> FALSE]
    /\ written = <<>> /\ held = [i \in Teams |-> <<>>]
    /\ turn = 1 /\ finished = {}

Goes(i, where) == place' = [place EXCEPT ![i] = where]
Comes(i, o) == outcome' = [outcome EXCEPT ![i] = o]
Fixed == <<given, stopped, started>>

\* The turn of a team: not reached, not resolved, or swept, with its channel
\* read first (summaryChannel).
Begin(i) ==
    /\ Turn(i)
    /\ IF stopped
       THEN /\ Goes(i, "reporting")
            /\ Comes(i, [NoOutcome EXCEPT !.said = "unreached", !.stopped = TRUE])
       ELSE IF scopes[i] = Unresolved
       THEN /\ Goes(i, "reporting")
            /\ Comes(i, [NoOutcome EXCEPT !.said = "failed", !.err = TRUE])
       ELSE /\ Goes(i, "sweeping")
            /\ \E c \in Channels : Comes(i, [NoOutcome EXCEPT !.channel = c])
    /\ UNCHANGED <<Fixed, tries, delivered, output>>

\* sweepTeam: the sweep fails, or ends having changed something or not.  A
\* stopped team is reported whatever it changed (post).
SweepFails(i) ==
    /\ place[i] = "sweeping"
    /\ Goes(i, "reporting")
    /\ Comes(i, [outcome[i] EXCEPT !.said = "failed", !.stopped = stopped,
                                   !.err = TRUE])
    /\ UNCHANGED <<Fixed, tries, delivered, output>>

SweepEnds(i, changed) ==
    /\ place[i] = "sweeping"
    /\ LET c == outcome[i].channel
       IN /\ Goes(i, IF (changed \/ stopped) /\ c = "id" THEN "sending"
                     ELSE "reporting")
          /\ Comes(i, [outcome[i] EXCEPT !.said = IF changed THEN "changed"
                                                  ELSE "unchanged",
                                         !.stopped = stopped,
                                         !.err = c = "error"])
    /\ Write(i, "results")
    /\ UNCHANGED <<Fixed, tries, delivered>>

\* Client.send, once: "created"; "refused", with a 4xx; "unavailable", with a
\* 5xx or no connection; "lost", taken and not answered in time; or "cut" by
\* the context of the post, which is the run's, or a stop notice's own.
Replies == {"created", "refused", "unavailable", "lost", "cut"}

Send(i, reply) ==
    /\ place[i] = "sending"
    /\ reply = "cut" => stopped
    /\ LET o == outcome[i]
           \* A cancelled context is not the gateway's unavailability; a
           \* deadline is.
           away == reply \in {"unavailable", "lost"} \/ (reply = "cut" /\ o.stopped)
       IN IF reply = "created"
          THEN Goes(i, "reporting") /\ Comes(i, [o EXCEPT !.posted = TRUE])
          ELSE IF away /\ tries[i] + 1 < Attempts
          THEN Goes(i, "pausing") /\ UNCHANGED outcome
          ELSE /\ Goes(i, "reporting")
               /\ Comes(i, [o EXCEPT !.unposted = TRUE, !.err = ~away])
    /\ tries' = [tries EXCEPT ![i] = IF place'[i] = "pausing" THEN @ + 1 ELSE 0]
    /\ delivered' = [delivered EXCEPT
            ![i] = @ \/ reply \in {"created", "lost"}]
    /\ UNCHANGED <<Fixed, output>>

\* The wait before the next attempt, which the context may end.
Pause(i, cut) ==
    /\ place[i] = "pausing"
    /\ cut => stopped
    /\ IF cut THEN /\ Goes(i, "reporting")
                   /\ Comes(i, [outcome[i] EXCEPT !.unposted = TRUE])
       ELSE Goes(i, "sending") /\ UNCHANGED outcome
    /\ tries' = IF cut THEN [tries EXCEPT ![i] = 0] ELSE tries
    /\ UNCHANGED <<Fixed, delivered, output>>

\* report and reportUnposted: the line of the team, with the summary its
\* channel did not get.
Report(i) ==
    /\ place[i] = "reporting"
    /\ Goes(i, "ending")
    /\ Write(i, IF outcome[i].unposted THEN "report and summary" ELSE "report")
    /\ UNCHANGED <<Fixed, outcome, tries, delivered>>

\* SIGTERM, at activeDeadlineSeconds, or the caller of the tool hung up.
Stop ==
    /\ ~stopped /\ stopped' = TRUE
    /\ UNCHANGED <<given, started, place, outcome, tries, delivered, output>>

TeamsOver == Over = Teams /\ UNCHANGED teamVars

TeamsNext ==
    \/ StartGroup \/ Stop \/ TeamsOver
    \/ \E i \in Teams :
          \/ Begin(i) \/ SweepFails(i) \/ Report(i) \/ Done(i)
          \/ \E b \in BOOLEAN : SweepEnds(i, b) \/ Pause(i, b)
          \/ \E reply \in Replies : Send(i, reply)

TeamsSpec == TeamsInit /\ [][TeamsNext]_teamVars

-----------------------------------------------------------------------------
\* Two teams that own a common repository are never swept at once, so two
\* sweeps never write to one PR at the same time (README.md, sweep --team;
\* forEachTeam).
OneWriter ==
    \A i, j \in Teams :
        place[i] = "sweeping" /\ place[j] = "sweeping" /\ i # j
        => OwnedBy(i) \intersect OwnedBy(j) = {}

\* What the teams print comes in the order they were named, each team's
\* results before its report, whatever order they finish in; and a run that
\* is over has passed on all of it, with every summary a channel was due and
\* was not told of (orderedOutput, unpostedSummary).
InOrder ==
    \A k, l \in DOMAIN written :
        k < l => \/ written[k][1] < written[l][1]
                 \/ written[k][1] = written[l][1] /\ written[k][2] = "results"
Swept(i) == outcome[i].said \in {"changed", "unchanged"}
AllSaid(i) ==
    LET of == {w[2] : w \in {v \in Range(written) : v[1] = i}}
        due == Swept(i) /\ outcome[i].channel = "id"
                        /\ (outcome[i].stopped \/ outcome[i].said = "changed")
    IN /\ Swept(i) => "results" \in of
       /\ of \intersect {"report", "report and summary"} # {}
       /\ due => delivered[i] \/ "report and summary" \in of
Reported == InOrder /\ (Over = Teams => \A i \in Teams : AllSaid(i))

\* What all_teams.go says of a team that fails over its summary: the gateway
\* refused it.  Does not hold: a run stopped while it posts fails the team.
RefusalsFail ==
    [][\A i \in Teams :
          place[i] = "sending" /\ outcome'[i].err => ~stopped]_teamVars
=============================================================================
