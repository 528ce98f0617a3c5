------------------------------ MODULE MCUpkeep ------------------------------
(* An instance of Upkeep for TLC.                                          *)
EXTENDS Upkeep

-----------------------------------------------------------------------------
(* Remedies: every action on one PR, and two PRs that share the suites.     *)

Fine == [trusted |-> TRUE, security |-> FALSE, kind |-> "renovate",
         failing |-> FALSE, failed |-> FALSE, pending |-> {}, missing |-> {},
         silent |-> TRUE, known |-> TRUE, url |-> "none"]
Hit(name, f) == [name |-> name, log |-> TRUE, commands |-> 0, named |-> {},
                 refuse |-> <<>>, facts |-> f]
Gate(n) == [Hit("comment-command", [Fine EXCEPT !.pending = {"gate"}])
            EXCEPT !.commands = n]
Red == [Fine EXCEPT !.failing = TRUE, !.failed = TRUE]
Lost(S) == [Hit("fix-protection-context", [Fine EXCEPT !.missing = {"old"}])
            EXCEPT !.named = S]

One(S) == [p \in {1} |-> S]
SomeAsked ==
    {One({Hit(Update, [Fine EXCEPT !.security = TRUE])}),
     One({Hit("rerun-failed", [Red EXCEPT !.url = "actions"])}),
     One({Hit("circleci-retry", [Red EXCEPT !.url = "circleci"]),
          Hit("rerun-failed", Red)}),
     One({Hit("close", Red), Hit("close", [Red EXCEPT !.kind = "align-files"])}),
     One({[Hit("dispatch-cve-workflow", [Red EXCEPT !.security = TRUE])
              EXCEPT !.refuse = <<"no-generated-edit">>]}),
     One({Hit("mark-wait", Fine), Hit("held", Fine)}),
     One({Hit("unhandled", Red), Hit("mark-wait", [Fine EXCEPT !.trusted = FALSE])}),
     One({Lost({"old"}), Lost({"old", "ci"}),
          [Lost({"old"}) EXCEPT !.refuse = <<"required-checks-green">>]}),
     One({Gate(1), [Gate(1) EXCEPT !.facts.known = FALSE],
          [Gate(1) EXCEPT !.facts.pending = {"gate", "lint"}]}),
     [p \in {2, 3} |-> {Gate(p - 1)}]}
Titles == <<0, 1, 1>>

-----------------------------------------------------------------------------
(* Reruns: pipelines of one or both of two workflows of a job each, and     *)
(* pipelines of one workflow whose second job waits for its first.          *)

TheJobs == [build |-> {"build"}, test |-> {"unit"}]
OneWorkflow == [build |-> {"build", "push"}]
TheNeeds == [build |-> {}, push |-> {"build"}, unit |-> {}]

-----------------------------------------------------------------------------
(* Handoffs: two PRs of one repository, a person's PR on the file of one.   *)

Rescuable == <<[pr |-> 1, repo |-> "a", files |-> {"go.mod"}],
               [pr |-> 2, repo |-> "a", files |-> {"main.go"}]>>
Others == {[repo |-> "a", files |-> {"go.mod"}]}
Broken == [unhandled |-> TRUE, enabled |-> TRUE, trusted |-> TRUE,
           security |-> FALSE, pending |-> FALSE, missing |-> FALSE,
           failed |-> TRUE]
Found == {Broken, [Broken EXCEPT !.missing = TRUE, !.failed = FALSE]}
Said == [r \in {"a"} |-> "go"]
=============================================================================
