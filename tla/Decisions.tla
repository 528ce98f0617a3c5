----------------------------- MODULE Decisions -----------------------------
(***************************************************************************)
(* What a sweep decides about a PR without changing anything: the policy   *)
(* of its repository and whether it is eligible (Eligibility), what its    *)
(* checks say (Verdict), and the rule that names its remedy (Catalogue).   *)
(* ProcessPR asks each on its own and none reads what another keeps, so    *)
(* a behaviour of this module is one of any of the three.                  *)
(***************************************************************************)
EXTENDS Eligibility, Verdict, Catalogue

CONSTANTS Parts     \* which of "policy", "checks" and "rules" are asked

VARIABLES part

decisionVars == <<part, vars, judged, verdictVars, ruleVars>>

\* The parts that are not asked about stay as they begin.
DInit ==
    /\ part \in Parts
    /\ IF part = "checks" THEN VInit
       ELSE /\ facts = CHOOSE f \in Facts : TRUE
            /\ VRest
    /\ IF part = "rules" THEN RInit
       ELSE /\ files = CHOOSE D \in Directories : TRUE
            /\ RRest
    /\ EInit
    /\ part # "policy" => readable /\ scope = CHOOSE s \in Scopes : TRUE

DNext ==
    /\ UNCHANGED part
    /\ \/ part = "policy" /\ ENext /\ UNCHANGED <<verdictVars, ruleVars>>
       \/ part = "checks" /\ VNext /\ UNCHANGED <<vars, judged, ruleVars>>
       \/ part = "rules" /\ RNext /\ UNCHANGED <<vars, judged, verdictVars>>

DSpec == DInit /\ [][DNext]_decisionVars

=============================================================================
