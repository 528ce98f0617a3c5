----------------------------- MODULE MCService ------------------------------
(* An instance of Service for TLC.                                         *)
EXTENDS Service

\* Three teams that own one repository with each other only through a third,
\* two of three that share one, and a team whose files do not parse.
Owned == {<<{"a"}, {"b"}, {"a", "b"}>>, <<{"b"}, {"a"}, {"a"}>>,
          <<{"a"}, Unresolved>>}

\* Two requests of one repository, and one of the whole installation.
OfRepository == [r \in 1..3 |-> IF r < 3 THEN "repository" ELSE "installation"]

=============================================================================
