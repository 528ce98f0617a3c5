------------------------------ MODULE MCSweep ------------------------------
(* Instances of Sweep for TLC.                                             *)
EXTENDS Sweep

OnePR == {1}
TwoPRs == 1..2
ThreePRs == 1..3
FivePRs == 1..5

\* Every PR an ordinary bot PR.
Plain == [p \in PRs |-> {}]

\* PR 1 ordinary, PR 2 with the trait under study.
Second(trait) == [p \in PRs |-> IF p = 1 THEN {} ELSE {trait}]
SecondRescued == Second("rescued")
SecondNumber409 == Second("number409")

\* One PR of which everything is asked: an entry, a silent context, and a
\* diff that changes nothing once it conflicts.
Laden == [p \in PRs |-> {"entry", "silent", "obsolete"}]

\* Two PRs to merge, of which the sweep's account wrote one that it must not
\* update, beside one it leaves to GitHub.
Kinds == <<{}, {"own", "rescued"}, {"auto"}>>

\* A PR whose bot has let go of it beside one whose number reads as an error.
Lost == <<{"stranded"}, {"number409"}>>

\* All that a dry run decides about: a PR that earns an entry, one that is
\* held, one of a stranger, one of a fork, and one it does not touch.
Readied == <<{"entry"}, {"held"}, {"untrusted"}, {"fork"}, {"untouched"}>>

=============================================================================
