---------------------------- MODULE MemoProofs ----------------------------
(***************************************************************************)
(* Proofs about Memo.tla, for any number of calls and answers.             *)
(*                                                                         *)
(*   LookedUpOnce   one lookup at a time, and none after an answer         *)
(*   AnsweredAlike  every call that is answered gets the same answer       *)
(*   FailsAlone     a call fails on its own lookup only                    *)
(*   MemoPromise    the cache implements Answering.tla                     *)
(*                                                                         *)
(* All four follow from MemoInv: the key is held by the one call that      *)
(* looks it up or has its answer.                                          *)
(***************************************************************************)
EXTENDS Memo, TLAPS

LEMMA MemoInit == Init => TypeOK /\ MemoInv
  BY NamesAssumption DEF Init, TypeOK, MemoInv, CallOK

LEMMA MemoTyped == TypeOK /\ MemoInv /\ [Next]_vars => TypeOK'
<1> SUFFICES ASSUME TypeOK, MemoInv, [Next]_vars PROVE TypeOK'
  OBVIOUS
<1>1. ASSUME NEW c \in Calls, Ask(c) PROVE TypeOK'
  BY <1>1 DEF Ask, Free, TypeOK
<1>2. ASSUME NEW c \in Calls, Load(c) PROVE TypeOK'
  BY <1>2 DEF Load, TypeOK
<1>3. ASSUME NEW c \in Calls, Evict(c) \/ Close(c) PROVE TypeOK'
  BY <1>3 DEF Evict, Close, TypeOK
<1>4. ASSUME NEW c \in Calls, Wake(c) PROVE TypeOK'
  <2>1. waits[c] \in Calls
    BY <1>4 DEF Wake, MemoInv, CallOK
  <2> QED
    BY <1>4, <2>1 DEF Wake, TypeOK
<1>5. CASE Over \/ UNCHANGED vars
  BY <1>5 DEF Over, vars, TypeOK
<1> QED
  BY <1>1, <1>2, <1>3, <1>4, <1>5 DEF Next, Get

LEMMA MemoStep == TypeOK /\ MemoInv /\ [Next]_vars => MemoInv'
<1> SUFFICES ASSUME TypeOK, MemoInv, [Next]_vars, NEW d \in Calls
             PROVE  CallOK(d)'
  BY DEF MemoInv
<1> USE NamesAssumption
<1>1. ASSUME NEW c \in Calls, Ask(c) PROVE CallOK(d)'
  BY <1>1 DEF Ask, Free, TypeOK, MemoInv, CallOK
<1>2. ASSUME NEW c \in Calls, Load(c) PROVE CallOK(d)'
  BY <1>2 DEF Load, TypeOK, MemoInv, CallOK
<1>3. ASSUME NEW c \in Calls, Evict(c) PROVE CallOK(d)'
  BY <1>3 DEF Evict, TypeOK, MemoInv, CallOK
<1>4. ASSUME NEW c \in Calls, Close(c) PROVE CallOK(d)'
  BY <1>4 DEF Close, TypeOK, MemoInv, CallOK
<1>5. ASSUME NEW c \in Calls, Wake(c) PROVE CallOK(d)'
  <2>1. waits[c] \in Calls /\ entry[waits[c]] # None
    BY <1>5 DEF Wake, MemoInv, CallOK
  <2>2. entry[waits[c]] # Error => claimed = waits[c]
    BY <2>1 DEF TypeOK, MemoInv, CallOK
  <2> QED
    BY <1>5, <2>1, <2>2 DEF Wake, Found, TypeOK, MemoInv, CallOK
<1>6. CASE Over \/ UNCHANGED vars
  BY <1>6 DEF Over, vars, MemoInv, CallOK
<1> QED
  BY <1>1, <1>2, <1>3, <1>4, <1>5, <1>6 DEF Next, Get

LEMMA MemoCorrect == Spec => [](TypeOK /\ MemoInv)
  BY MemoInit, MemoTyped, MemoStep, PTL DEF Spec

\* One lookup per key at a time, and none once one has found the answer.
THEOREM LookedUpOnce == Spec => []OneLookup
<1>1. TypeOK /\ MemoInv => OneLookup
  BY DEF MemoInv, CallOK, OneLookup
<1> QED
  BY <1>1, MemoCorrect, PTL

\* Whoever is answered is answered alike: two PRs of a repository never hold
\* two different merge lanes.
THEOREM AnsweredAlike == Spec => []SameAnswer
<1>1. TypeOK /\ MemoInv => SameAnswer
  BY NamesAssumption DEF TypeOK, MemoInv, CallOK, SameAnswer
<1> QED
  BY <1>1, MemoCorrect, PTL

\* A call fails on its own lookup and never on the one it waited for.
THEOREM FailsAlone == Spec => []ErrorIsOwn
<1>1. TypeOK /\ MemoInv => ErrorIsOwn
  BY NamesAssumption DEF TypeOK, MemoInv, CallOK, ErrorIsOwn
<1> QED
  BY <1>1, MemoCorrect, PTL

----------------------------------------------------------------------------
(* The cache implements Answering.tla.                                     *)

LEMMA MemoPromiseInit == Init => Promise!Init
  BY NamesAssumption DEF Init, Promise!Init

LEMMA MemoPromiseStep ==
  TypeOK /\ MemoInv /\ [Next]_vars => [Promise!Next]_(Promise!vars)
<1> SUFFICES ASSUME TypeOK, MemoInv, [Next]_vars
             PROVE  Promise!Next \/ UNCHANGED Promise!vars
  OBVIOUS
<1> DEFINE Answer == IF claimed # None /\ entry[claimed] \in Answers
                       THEN entry[claimed] ELSE None
           Got == [c \in Calls |-> IF entry[c] = Error THEN Error ELSE got[c]]
<1> USE NamesAssumption
<1>1. ASSUME NEW c \in Calls, Ask(c) PROVE UNCHANGED Promise!vars
  <2>1. Answer' = Answer
    BY <1>1 DEF Ask, Free, TypeOK, MemoInv, CallOK
  <2> QED
    BY <1>1, <2>1 DEF Ask, Free, Promise!vars
<1>2. ASSUME NEW c \in Calls, Load(c)
      PROVE  Promise!Find \/ Promise!Fail(c)
  <2>1. claimed = c /\ claimed' = c /\ entry[c] = None /\ got[c] = None
    BY <1>2 DEF Load, MemoInv, CallOK
  <2>2. Answer = None /\ Got[c] = None
    BY <2>1
  <2>3. CASE entry'[c] \in Answers
    <3>1. Answer' \in Answers
      BY <2>1, <2>3
    <3>2. Got' = Got
      BY <1>2, <2>1, <2>3 DEF Load, TypeOK
    <3> QED
      BY <2>2, <3>1, <3>2 DEF Promise!Find
  <2>4. CASE entry'[c] = Error
    <3>1. Answer' = None
      BY <2>1, <2>4
    <3>2. Got' = [Got EXCEPT ![c] = Error]
      BY <1>2, <2>1, <2>4 DEF Load, TypeOK
    <3> QED
      BY <2>2, <3>1, <3>2 DEF Promise!Fail
  <2> QED
    BY <1>2, <2>3, <2>4 DEF Load, TypeOK
<1>3. ASSUME NEW c \in Calls, Evict(c) PROVE UNCHANGED Promise!vars
  <2>1. Answer' = Answer
    BY <1>3 DEF Evict, MemoInv, CallOK
  <2> QED
    BY <1>3, <2>1 DEF Evict, Promise!vars
<1>4. ASSUME NEW c \in Calls, Close(c)
      PROVE  Promise!Return(c) \/ UNCHANGED Promise!vars
  <2>1. entry[c] # None /\ got[c] = None /\ UNCHANGED <<claimed, entry>>
    BY <1>4 DEF Close, MemoInv, CallOK
  <2>2. got' = [got EXCEPT ![c] = entry[c]]
    BY <1>4 DEF Close
  <2>3. CASE entry[c] = Error
    <3>1. Got' = Got
      BY <2>1, <2>2, <2>3 DEF TypeOK
    <3> QED
      BY <2>1, <3>1 DEF Promise!vars
  <2>4. CASE entry[c] \in Answers
    <3>1. claimed = c
      BY <2>4 DEF MemoInv, CallOK
    <3>2. Answer = entry[c] /\ Answer' = entry[c] /\ Got[c] = None
      BY <2>1, <2>4, <3>1
    <3>3. Got' = [Got EXCEPT ![c] = entry[c]]
      BY <2>1, <2>2, <2>4 DEF TypeOK
    <3> QED
      BY <2>4, <3>2, <3>3 DEF Promise!Return
  <2> QED
    BY <2>1, <2>3, <2>4 DEF TypeOK
<1>5. ASSUME NEW c \in Calls, Wake(c)
      PROVE  Promise!Return(c) \/ UNCHANGED Promise!vars
  <2>1. /\ waits[c] \in Calls /\ entry[waits[c]] # None
        /\ entry[c] = None /\ got[c] = None
        /\ UNCHANGED <<claimed, entry>>
    BY <1>5 DEF Wake, MemoInv, CallOK
  <2>2. CASE entry[waits[c]] = Error
    BY <1>5, <2>1, <2>2 DEF Wake, Found, Promise!vars
  <2>3. CASE entry[waits[c]] \in Answers
    <3>1. claimed = waits[c] /\ got' = [got EXCEPT ![c] = entry[waits[c]]]
      BY <1>5, <2>1, <2>3 DEF Wake, Found, MemoInv, CallOK
    <3>2. Answer = entry[waits[c]] /\ Answer' = Answer /\ Got[c] = None
      BY <2>1, <2>3, <3>1
    <3>3. Got' = [Got EXCEPT ![c] = Answer]
      BY <2>1, <2>3, <3>1, <3>2 DEF TypeOK
    <3> QED
      BY <2>3, <3>2, <3>3 DEF Promise!Return
  <2> QED
    BY <2>1, <2>2, <2>3 DEF TypeOK
<1>6. CASE Over \/ UNCHANGED vars
  BY <1>6 DEF Over, vars, Promise!vars
<1> QED
  BY <1>1, <1>2, <1>3, <1>4, <1>5, <1>6 DEF Next, Get, Promise!Next

\* The cache keeps its promise: a failed lookup takes effect when it returns,
\* before the key is free for the next one (get deletes before it closes).
THEOREM MemoPromise == Spec => KeepsPromise
  BY MemoPromiseInit, MemoPromiseStep, MemoCorrect, PTL
  DEF Spec, KeepsPromise, Promise!Spec

=============================================================================
