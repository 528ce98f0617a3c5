----------------------------- MODULE MCRateGate -----------------------------
(* An instance of RateGate for TLC: two writes and a read of a sweep, and a *)
(* read of a served call, all on one bucket.                                *)
EXTENDS RateGate

Four == 1..4
FourRuns == [r \in Four |-> IF r = 4 THEN "call" ELSE "sweep"]
FourBuckets == [r \in Four |-> "app"]

=============================================================================
