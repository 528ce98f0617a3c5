------------------------------ MODULE Landing ------------------------------
(***************************************************************************)
(* What a sweep promises the repository it merges into, with no word about *)
(* threads, lanes, retries, stops or the second pass.                      *)
(*                                                                         *)
(* Heads of a pull request are numbered in the order they are pushed.  The *)
(* sweep may read a head and find it passed, land the current head of a    *)
(* pull request once it has passed, and report a landing it performed.     *)
(* Sweep.tla implements this module: see SweepProofs.tla.                  *)
(***************************************************************************)
EXTENDS Naturals

CONSTANT PRs            \* the pull requests of the repository

VARIABLES
    head,               \* head[p]: the newest commit of p's branch
    passed,             \* passed[p]: the heads of p the sweep read as passed
    landed,             \* landed[p]: the head of p the sweep merged, or 0
    reported            \* the pull requests reported as merged by the sweep

vars == <<head, passed, landed, reported>>

Init ==
    /\ head \in [PRs -> Nat \ {0}]
    /\ passed = [p \in PRs |-> {}]
    /\ landed = [p \in PRs |-> 0]
    /\ reported = {}

\* Somebody -- the bot, a person, the sweep itself -- moves the branch on.
Push(p) ==
    /\ head' = [head EXCEPT ![p] = @ + 1]
    /\ UNCHANGED <<passed, landed, reported>>

\* The sweep reads every check of the current head as passed.
Pass(p) ==
    /\ passed' = [passed EXCEPT ![p] = @ \union {head[p]}]
    /\ UNCHANGED <<head, landed, reported>>

\* The sweep lands the current head, which it has read as passed.
Land(p) ==
    /\ landed[p] = 0
    /\ head[p] \in passed[p]
    /\ landed' = [landed EXCEPT ![p] = head[p]]
    /\ UNCHANGED <<head, passed, reported>>

\* The sweep reports a landing it performed.  No step takes a report back.
Report(p) ==
    /\ landed[p] # 0
    /\ reported' = reported \union {p}
    /\ UNCHANGED <<head, passed, landed>>

Next == \E p \in PRs : Push(p) \/ Pass(p) \/ Land(p) \/ Report(p)

Spec == Init /\ [][Next]_vars

=============================================================================
