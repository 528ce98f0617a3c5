---------------------------- MODULE MCDecisions ----------------------------
(* Instances of Decisions for TLC.                                         *)
EXTENDS Decisions

-----------------------------------------------------------------------------
\* The policies and the PRs.
Blank == [types |-> [k \in {} |-> {}], rescue |-> {}, weekly |-> {},
          perTeam |-> {}, perRepo |-> {}, summary |-> {}, sound |-> TRUE]
For1(k, T) == [Blank EXCEPT !.types = [j \in {k} |-> T]]

\* What a company or a team writes: nothing, a wider list, a list for the
\* synced charts, none at all, the rescues, each bound alone, and what is
\* refused.
SomeDocuments ==
    {Blank, For1("renovate", {"major", "patch"}), For1("renovate", {}),
     For1("upstream-sync", {"patch"}),
     [Blank EXCEPT !.rescue = {TRUE}, !.weekly = {2}],
     [Blank EXCEPT !.rescue = {FALSE}, !.summary = {TRUE}],
     [Blank EXCEPT !.perTeam = {20}], [Blank EXCEPT !.perRepo = {5}],
     [Blank EXCEPT !.perTeam = {21}], [Blank EXCEPT !.weekly = {-1}],
     For1("renovate", {Unknown}), For1("npm", {"patch"}),
     [Blank EXCEPT !.sound = FALSE]}

NoException == [enabled |-> {}, types |-> {}, rescue |-> {}]
SomeEntries ==
    {[retired |-> FALSE, exception |-> {}],
     [retired |-> TRUE, exception |-> {NoException}]}
    \union {[retired |-> FALSE, exception |-> {e}] :
        e \in {[NoException EXCEPT !.enabled = {FALSE}],
               [NoException EXCEPT !.rescue = {TRUE}],
               [NoException EXCEPT !.types = {{"major"}}],
               [NoException EXCEPT !.types = {{"patch"}}, !.rescue = {FALSE}],
               [NoException EXCEPT !.types = {{}}],
               [NoException EXCEPT !.types = {{"none"}}],
               [NoException EXCEPT !.types = {{Unknown}}]}}
SomeLists == UNION {[R -> SomeEntries] : R \in SUBSET Repos}

V1 == <<1, 0, 0>>
Patch == <<V1, <<1, 0, 1>>>>
Minor == <<V1, <<1, 1, 0>>>>
Major == <<V1, <<2, 0, 0>>>>
Unread == <<V1, <<>>>>
Hex == <<<<"hex">>, <<"hex">>>>

Says(what) == [says |-> what, from |-> V1, to |-> V1]
Named(pair) == [says |-> "versions", from |-> pair[1], to |-> pair[2]]
Chart(rs, as) == [delivered |-> TRUE, removed |-> rs, added |-> as]
NoCharts == [cut |-> FALSE, files |-> {}]

Plain == [author |-> "renovate", pinned |-> FALSE, synced |-> FALSE,
          branch |-> "renovate/", signed |-> TRUE, title |-> Says("plain"),
          rows |-> {Patch}, charts |-> NoCharts, body |-> <<>>]
Sync == [Plain EXCEPT !.author = "taylorbot", !.pinned = TRUE, !.synced = TRUE]

Authored ==
    {[Plain EXCEPT !.author = a, !.pinned = i, !.synced = l, !.branch = b,
                   !.signed = s] :
        a \in {"renovate", "dependabot", "alignfiles", "heraldbot", "owner",
               "taylorbot", "release-app", "person"},
        i \in BOOLEAN, l \in BOOLEAN, s \in BOOLEAN,
        b \in {"renovate/", "reposetup/"}}
\* Titles that decide, over rows that agree, outgrow them or cannot be read.
Titled == {[Plain EXCEPT !.title = t, !.rows = R] :
    R \in {{Patch}, {Patch, Major}, {Minor, Unread}}, t \in {Says(w) : w \in {"lock file maintenance", "pin dependencies",
                            "all non-major", "major", "minor", "digest"}}
          \union {Named(p) : p \in {Patch, Minor, Major, Unread, Hex}}}
Modules == {[Plain EXCEPT !.title = [says |-> "module", from |-> f, to |-> V1],
                          !.rows = {}] : f \in {V1, <<2, 0, 0>>}}
Grouped(P) == {[Plain EXCEPT !.rows = R] : R \in SUBSET P}
Charts ==
    {[Sync EXCEPT !.charts = [cut |-> c, files |-> F]] : c \in BOOLEAN,
        F \in SUBSET {Chart(<<V1>>, <<Patch[2]>>), Chart(<<V1>>, <<Minor[2]>>),
                      Chart(<<V1>>, <<<<>>>>), Chart(<<V1>>, <<>>),
                      [Chart(<<>>, <<>>) EXCEPT !.delivered = FALSE]}}
Bodies(n) == {[Plain EXCEPT !.body = b] :
                  b \in UNION {[1..m -> Lines] : m \in 0..n}}

SomePulls == Authored \union Titled \union Modules \union Charts
             \union Grouped({Patch, Minor, Major, Hex}) \union Bodies(3)
UnreadPulls == Grouped({Patch, Unread})

\* One document, one list: the policy is not what this instance asks about.
BlankOnly == {Blank}
NoListSaysMore == {[r \in Repos |-> [retired |-> FALSE, exception |-> {}]]}

-----------------------------------------------------------------------------
\* The checks.
CI == <<"ci", "test">>
Lint == <<"lint", "test">>
Test == <<"", "test">>
Scan == <<"", "trivy">>
Check(n, via, says) == [name |-> n, via |-> via, says |-> says, build |-> <<>>]
Runs(n, S) == {Check(n, "run", says) : says \in S}
Built(n, build) == [Check(n, "status", "failure") EXCEPT !.build = build]
SomeChecks ==
    UNION {Runs(n, {"success", "failure", "pending"}) : n \in {CI, Test, Scan}}
    \union Runs(CI, {"budget", "cancelled", "stale", "neutral"})
    \union Runs(Lint, {"success", "failure"})
    \union Runs(Scan, {"cancelled", "setup"})
    \union {Check(Test, "status", says) :
               says \in {"success", "pending", "failure", "setup"}}
    \union {Built(Test, <<"success", "canceled">>),
            Built(Scan, <<"canceled", "success">>), Built(Scan, <<"canceled">>)}
Listed == {{}} \union {{c, d} : c \in SomeChecks, d \in SomeChecks}
Beyond == {{}, {Check(Lint, "status", "failure")}}
\* A second page has a first.
SomeHeads == {h \in [listed : Listed, beyond : Beyond] :
                  h.beyond # {} => Statuses(h.listed) # {}}
SomeFacts == [required : {{}, {Test}, {CI}}, green : {{}, {Test, CI}},
              red : {{}, {CI, Scan}}, behind : BOOLEAN, superseded : {FALSE},
              noop : BOOLEAN]
SomeFailures == {{}} \union
    {{r} : r \in {"checks", "protection", "compare", "base", "annotations",
                  "circle"}}

\* One name reported twice, beside a check that is red on the base too.
TwoTests == {[listed |-> Runs(Test, {"success", "pending"})
                         \union Runs(<<"", "lint">>, {"failure"}), beyond |-> {}]}
LintRed == {[required |-> {Test}, green |-> {}, red |-> {<<"", "lint">>},
             behind |-> FALSE, superseded |-> FALSE, noop |-> FALSE]}
LintBeyond == {[listed |-> {Check(Test, "status", "success")},
                beyond |-> {Check(Lint, "status", "failure")}]}

-----------------------------------------------------------------------------
\* The rules.
Doc(n) == [file |-> <<n, "yaml">>, name |-> n, sound |-> TRUE, states |-> {},
           kinds |-> {}, check |-> {}, log |-> {}, pr |-> {}, missing |-> {},
           refuse |-> {}]
Also(n) == [Doc(n) EXCEPT !.file = <<n, "yml">>]
OnCheck(G) == {[glob |-> G, pending |-> FALSE, output |-> {}]}
OnGate == {[glob |-> {"gate"}, pending |-> TRUE, output |-> {{"/run suite"}}]}
OnLog == {[sources |-> {"actions", "circleci"}, texts |-> {"flake"}]}
OnPR(onBase, T, F) == {[baseHead |-> onBase, titles |-> T, files |-> F]}

SomeRules ==
    {[Doc(0) EXCEPT !.log = OnLog],
     [Doc(1) EXCEPT !.check = OnCheck({"ci"}), !.log = OnLog],
     [Also(1) EXCEPT !.check = OnCheck({"ci"})],
     [Doc(2) EXCEPT !.log = OnLog, !.states = {"failed"}],
     [Doc(3) EXCEPT !.log = OnLog, !.states = {"failed", "stale"}],
     [Doc(4) EXCEPT !.check = OnCheck({"ci", "lint"}),
                    !.pr = OnPR("green", {}, {})],
     [Doc(5) EXCEPT !.pr = OnPR("absent", {{"major"}}, {}),
                    !.kinds = {"renovate"}],
     [Doc(6) EXCEPT !.pr = OnPR("", {}, {{"go.mod"}})],
     [Doc(7) EXCEPT !.missing = {{"old"}}, !.log = OnLog,
                    !.refuse = {"log-matched"}],
     [Doc(8) EXCEPT !.missing = {{"old", "older"}, {"new"}}],
     [Doc(9) EXCEPT !.check = OnGate, !.states = {"waiting-checks"}],
     [Doc(9) EXCEPT !.check = OnGate, !.log = OnLog],
     [Also(9) EXCEPT !.check = OnGate, !.refuse = {"once-per-change"}],
     [Doc(10) EXCEPT !.states = {"merged"}, !.log = OnLog],
     [Doc(11) EXCEPT !.check = OnCheck({"ci"}),
                     !.pr = OnPR("", {{"major"}}, {})]}
SomeDirectories ==
    {{d, e, f} : d \in SomeRules, e \in SomeRules, f \in SomeRules}

Of(S, value) == [x \in S |-> value]
Sees(state) ==
    [state |-> state, kind |-> "renovate", title |-> "major",
     failing |-> <<>>, pending |-> <<>>, base |-> Of({}, ""), missing |-> {},
     files |-> {}, logs |-> Of({}, "")]
Failing ==
    {[Sees(state) EXCEPT !.failing = f, !.base = b, !.logs = l, !.missing = m] :
        state \in {"failed", "stale"}, f \in {<<"ci">>, <<"lint", "ci">>},
        b \in {Of({}, ""), Of({"ci"}, "green"), Of({"ci", "lint"}, "green")},
        l \in {Of({}, ""), Of({<<"actions", "ci">>}, "flake"),
               Of({<<"circleci", "lint">>}, "panic")},
        m \in {{}, {"old", "new"}}}
Waiting ==
    {[Sees("waiting-checks") EXCEPT !.pending = q, !.files = F, !.kind = k] :
        F \in {{}, {"go.mod"}}, k \in {"renovate", "herald"},
        q \in {<<>>, <<[name |-> "gate", output |-> {}]>>,
               <<[name |-> "ci", output |-> {"/run suite"}],
                 [name |-> "gate", output |-> {"/run suite", "/run x"}]>>}}
SomeSubjects == Failing \union Waiting \union {Sees("merged")}

\* A rule whose output pattern nothing reads.
NamesOnly == {{[Doc(1) EXCEPT !.check =
    {[glob |-> {"ci"}, pending |-> FALSE, output |-> {{"/run suite"}}]}]}}

=============================================================================
