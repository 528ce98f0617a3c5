----------------------------- MODULE Induction -----------------------------
(***************************************************************************)
(* Induction as facts about sets, which the provers can use where the      *)
(* induction rules of the library, stated for any formula, are beyond      *)
(* them: a set of numbers has a least member, so one that holds 0 and with *)
(* every number the next one holds them all, and a step function can be    *)
(* iterated from any start.                                                *)
(***************************************************************************)
EXTENDS Naturals, FiniteSets, FiniteSetTheorems, WellFoundedInduction, TLAPS

-----------------------------------------------------------------------------
\* A set of numbers that is not empty has a least member: the one with the
\* fewest members below it.
LEMMA LeastMember ==
    ASSUME NEW S \in SUBSET Nat, S # {}
    PROVE  \E x \in S : \A y \in S : x <= y
<1> DEFINE Below(x) == {y \in S : y < x}
           B == {Below(x) : x \in S}
<1>1. \A x \in S : IsFiniteSet(Below(x))
  <2> TAKE x \in S
  <2>1. \A y \in Below(x) : y <= x
    OBVIOUS
  <2> QED
    BY <2>1, FS_BoundedSetOfNaturals
<1>2. B \subseteq FiniteSubsetsOf(S)
  BY <1>1 DEF FiniteSubsetsOf
<1>3. PICK x \in S :
         \A y \in S : ~ (<<Below(y), Below(x)>> \in StrictSubsetOrdering(S))
  <2>1. B # {}
    OBVIOUS
  <2>2. IsWellFoundedOn(StrictSubsetOrdering(S), FiniteSubsetsOf(S))
    BY FS_StrictSubsetOrderingWellFounded
  <2>3. PICK b \in B : \A c \in B : ~ (<<c, b>> \in StrictSubsetOrdering(S))
    <3> HIDE DEF B
    <3> QED
      BY <1>2, <2>1, <2>2, WFMin
  <2> QED
    BY <2>3
<1>4. ASSUME NEW y \in S, y < x PROVE FALSE
  <2>1. <<Below(y), Below(x)>> \in (SUBSET S) \X (SUBSET S)
    OBVIOUS
  <2>2. Below(y) \subseteq Below(x)
    <3>1. \A z \in Nat : z < y => z < x
      BY <1>4
    <3> QED
      BY <3>1
  <2>3. Below(y) # Below(x)
    <3>1. y \in Below(x) /\ y \notin Below(y)
      BY <1>4
    <3> QED
      BY <3>1
  <2> QED
    BY <1>3, <2>1, <2>2, <2>3 DEF StrictSubsetOrdering
<1> QED
  BY <1>4

\* What holds of 0, and of the next number with every number below n, holds up
\* to n.
LEMMA UpTo ==
    ASSUME NEW n \in Nat, NEW S, 0 \in S,
           \A i \in 1..n : i - 1 \in S => i \in S
    PROVE  \A i \in 0..n : i \in S
<1> DEFINE bad == {i \in 0..n : i \notin S}
<1> SUFFICES ASSUME bad # {} PROVE FALSE
  OBVIOUS
<1>1. PICK x \in bad : \A y \in bad : x <= y
  <2>1. bad \in SUBSET Nat
    OBVIOUS
  <2> HIDE DEF bad
  <2> QED
    BY <2>1, LeastMember
<1>2. x \in 1..n /\ x - 1 \in 0..n
  BY <1>1
<1>3. x - 1 \in S
  BY <1>1, <1>2
<1> QED
  BY <1>1, <1>2, <1>3

\* A step can be iterated: from base, n times.
Iterations(n, S, base, step) ==
    {f \in [0..n -> S] :
        f[0] = base /\ \A i \in 1..n : f[i] = step[<<f[i - 1], i>>]}

LEMMA Iterates ==
    ASSUME NEW n \in Nat, NEW S, NEW base \in S,
           NEW step \in [S \X (1..n) -> S]
    PROVE  Iterations(n, S, base, step) # {}
<1> DEFINE Path(m, f) == /\ f[0] = base
                         /\ \A i \in 1..m : f[i] = step[<<f[i - 1], i>>]
           T == {m \in 0..n : \E f \in [0..m -> S] : Path(m, f)}
<1>1. ASSUME NEW m \in 0..n, NEW f \in [0..m -> S], Path(m, f) PROVE m \in T
  <2> HIDE DEF Path
  <2> QED
    BY <1>1
<1>2. 0 \in T
  <2> HIDE DEF T
  <2> DEFINE f == [i \in 0..0 |-> base]
  <2>1. 0 \in 0..n /\ f \in [0..0 -> S] /\ f[0] = base
    OBVIOUS
  <2>2. Path(0, f)
    BY <2>1
  <2> QED
    BY <1>1, <2>1, <2>2
<1>3. ASSUME NEW i \in 1..n, i - 1 \in T PROVE i \in T
  <2>1. PICK f \in [0..(i - 1) -> S] : Path(i - 1, f)
    BY <1>3
  <2> HIDE DEF T
  <2> DEFINE next == step[<<f[i - 1], i>>]
             g == [k \in 0..i |-> IF k = i THEN next ELSE f[k]]
  <2>2. f[i - 1] \in S
    OBVIOUS
  <2>3. next \in S
    BY <2>2
  <2>4. /\ i \in Nat /\ i - 1 \in Nat /\ i \in 0..i /\ 0 # i /\ i \in 0..n
        /\ \A k \in 1..i : k - 1 \in 0..i /\ k - 1 # i
        /\ \A k \in 1..i : k = i \/ k \in 1..(i - 1)
        /\ \A k \in 0..i : k = i \/ k \in 0..(i - 1)
    OBVIOUS
  <2>5. g \in [0..i -> S] /\ g[i] = next
        /\ \A k \in 0..(i - 1) : g[k] = f[k]
    <3> HIDE DEF next
    <3> QED
      BY <2>3, <2>4
  <2> HIDE DEF g
  <2>6. ASSUME NEW k \in 1..i PROVE g[k] = step[<<g[k - 1], k>>]
    <3>1. CASE k = i
      BY <2>4, <2>5, <3>1
    <3>2. CASE k # i
      <4>1. k \in 1..(i - 1) /\ k \in 0..(i - 1) /\ k - 1 \in 0..(i - 1)
        BY <3>2
      <4> QED
        BY <2>1, <2>5, <4>1
    <3> QED
      BY <3>1, <3>2
  <2>7. Path(i, g)
    <3>1. g[0] = base
      BY <2>1, <2>4, <2>5
    <3> QED
      BY <2>6, <3>1
  <2> QED
    BY <1>1, <2>4, <2>5, <2>7
<1>4. n \in T
  <2> HIDE DEF T
  <2> QED
    BY <1>2, <1>3, UpTo
<1> QED
  BY <1>4 DEF Iterations
=============================================================================
