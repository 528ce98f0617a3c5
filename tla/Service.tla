------------------------------ MODULE Service -------------------------------
(***************************************************************************)
(* What surrounds the sweeps: a run over several teams (Teams), the server *)
(* whose tools make such runs (Serve), and the tokens their requests carry *)
(* (Tokens).  None reads what another keeps, so a behaviour of this module *)
(* is one of any of the three.                                             *)
(***************************************************************************)
EXTENDS Teams, Serve, Tokens

CONSTANTS Parts     \* which of "teams", "serve" and "tokens" run

VARIABLES part

serviceVars == <<part, teamVars, serveVars, tokenVars>>

\* The parts that are not asked about stay as they begin.
SInit ==
    /\ part \in Parts
    /\ TeamsInit /\ ServeInit /\ TokensInit
    /\ part # "teams" => /\ scopes = CHOOSE s \in Scopes : TRUE
                         /\ parallel = CHOOSE n \in Parallels : TRUE
    /\ part # "serve" => /\ transport = CHOOSE t \in Transports : TRUE
                         /\ watched = CHOOSE w \in Watches : TRUE

SNext ==
    /\ UNCHANGED part
    /\ \/ part = "teams" /\ TeamsNext /\ UNCHANGED <<serveVars, tokenVars>>
       \/ part = "serve" /\ ServeNext /\ UNCHANGED <<teamVars, tokenVars>>
       \/ part = "tokens" /\ TokensNext /\ UNCHANGED <<teamVars, serveVars>>

SSpec == SInit /\ [][SNext]_serviceVars

=============================================================================
