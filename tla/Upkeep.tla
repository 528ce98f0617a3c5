------------------------------- MODULE Upkeep -------------------------------
(***************************************************************************)
(* What a sweep does for a PR it does not merge: the remedy a rule names   *)
(* and its evidence (Remedy), the CircleCI runs it asks for again (Rerun), *)
(* and the rescues it hands over (Handoff).  Each acts on a PR of its own  *)
(* class and none reads what another keeps, so a behaviour of this module  *)
(* is one of any of the three.                                             *)
(***************************************************************************)
EXTENDS Remedy, Rerun, Handoff

CONSTANTS Parts     \* which of "remedy", "rerun" and "handoff" run

VARIABLES part

upkeepVars == <<part, remedyVars, rerunVars, handoffVars>>

\* The parts that are not asked about stay as they begin.
UInit ==
    /\ part \in Parts
    /\ RemedyInit /\ RerunInit /\ HandoffInit
    /\ part # "remedy" => /\ hits = CHOOSE a \in Asked : TRUE
                          /\ \A p \in PRs : pulls[p].change = 1
    /\ part # "rerun" => /\ token /\ Len(flows) = Cardinality(Workflows)
                         /\ \A j \in Jobs : reported[j] = ""
    /\ part # "handoff" => /\ allowed = CHOOSE n \in Weeks : TRUE
                           /\ toolchain = CHOOSE t \in Toolchains : TRUE

UNext ==
    /\ UNCHANGED part
    /\ \/ part = "remedy" /\ RemedyNext /\ UNCHANGED <<rerunVars, handoffVars>>
       \/ part = "rerun" /\ RerunSteps /\ UNCHANGED <<remedyVars, handoffVars>>
       \/ part = "handoff" /\ HandoffNext /\ UNCHANGED <<remedyVars, rerunVars>>

USpec == UInit /\ [][UNext]_upkeepVars

=============================================================================
