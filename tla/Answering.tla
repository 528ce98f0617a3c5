----------------------------- MODULE Answering -----------------------------
(***************************************************************************)
(* What a cache of answers promises the goroutines that ask it for one key *)
(* (internal/process/memo.go): the key gets at most one answer, everybody  *)
(* who is answered is given that one, and a failure is the caller's own    *)
(* and no answer.  Memo.tla implements this module.                        *)
(***************************************************************************)
CONSTANTS
    Calls,      \* the calls of get for one key
    Answers,    \* what a lookup may find
    None, Error

VARIABLES
    answer,     \* the answer of the key, or None
    got         \* got[c]: what call c returned, or None

vars == <<answer, got>>

Init == answer = None /\ got = [c \in Calls |-> None]

\* A lookup finds the answer.
Find ==
    /\ answer = None
    /\ answer' \in Answers
    /\ UNCHANGED got

\* The lookup of a call fails, before any other found the answer.
Fail(c) ==
    /\ got[c] = None /\ answer = None
    /\ got' = [got EXCEPT ![c] = Error]
    /\ UNCHANGED answer

Return(c) ==
    /\ got[c] = None /\ answer # None
    /\ got' = [got EXCEPT ![c] = answer]
    /\ UNCHANGED answer

Next == Find \/ \E c \in Calls : Fail(c) \/ Return(c)

Spec == Init /\ [][Next]_vars

=============================================================================
