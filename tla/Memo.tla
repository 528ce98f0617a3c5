-------------------------------- MODULE Memo --------------------------------
(***************************************************************************)
(* memo.get (internal/process/memo.go): the cache the PRs of a sweep share *)
(* for what they all ask of GitHub -- branch protection, labels, write     *)
(* access, the base's contexts -- and for the merge lane of a repository.  *)
(*                                                                         *)
(* The keys share nothing but a mutex that no caller blocks under, so one  *)
(* key is modelled.  A call that claims the key makes the entry, so the    *)
(* call names it.  One step is one critical section, or the local work up  *)
(* to the next one.                                                        *)
(***************************************************************************)
EXTENDS FiniteSets, Naturals

CONSTANTS
    Calls,      \* the calls of get for this key
    Answers,    \* what load may return; it may differ from one to the next
    None,       \* no entry, or nothing written yet
    Error       \* load failed

ASSUME NamesAssumption ==
    /\ None \notin Calls \union Answers
    /\ Error \notin Answers \union {None}

VARIABLES
    pc,         \* pc[c]: what call c does next
    claimed,    \* m.entries[key]: the call whose entry it is, or None
    entry,      \* entry[c]: value and err of the entry of c
    done,       \* the calls whose entry's done is closed
    waits,      \* waits[c]: the entry c waits on, or None
    got         \* got[c]: what c returned, or None

vars == <<pc, claimed, entry, done, waits, got>>

\* Nobody holds the key.
Unfinished ==                   \* mutant: a lookup under way does not hold it
    claimed # None => entry[claimed] = None
Free == claimed = None

\* Under the lock: wait on the entry of another call, or claim the key.
Ask(c) ==
    /\ pc[c] = "ask"
    /\ \/ /\ ~Free
          /\ waits' = [waits EXCEPT ![c] = claimed]
          /\ pc' = [pc EXCEPT ![c] = "wait"]
          /\ UNCHANGED claimed
       \/ /\ Free
          /\ claimed' = c
          /\ pc' = [pc EXCEPT ![c] = "load"]
          /\ UNCHANGED waits
    /\ UNCHANGED <<entry, done, got>>

\* load returns, outside the lock; a failure is taken out of the map first.
LoadForgetting(c) ==            \* mutant: so is an answer
    /\ pc[c] = "load"
    /\ \E v \in Answers \union {Error} : entry' = [entry EXCEPT ![c] = v]
    /\ pc' = [pc EXCEPT ![c] = "evict"]
    /\ UNCHANGED <<claimed, done, waits, got>>
Load(c) ==
    /\ pc[c] = "load"
    /\ \/ /\ \E v \in Answers : entry' = [entry EXCEPT ![c] = v]
          /\ pc' = [pc EXCEPT ![c] = "close"]
       \/ /\ entry' = [entry EXCEPT ![c] = Error]
          /\ pc' = [pc EXCEPT ![c] = "evict"]
    /\ UNCHANGED <<claimed, done, waits, got>>

\* delete(m.entries, key), under the lock.
EvictAndReturn(c) ==            \* mutant: the failed entry is never closed
    /\ pc[c] = "evict"
    /\ claimed' = None
    /\ pc' = [pc EXCEPT ![c] = "back"]
    /\ got' = [got EXCEPT ![c] = Error]
    /\ UNCHANGED <<entry, done, waits>>
Evict(c) ==
    /\ pc[c] = "evict"
    /\ claimed' = None
    /\ pc' = [pc EXCEPT ![c] = "close"]
    /\ UNCHANGED <<entry, done, waits, got>>

\* close(entry.done), and the claiming call returns what it loaded.
Close(c) ==
    /\ pc[c] = "close"
    /\ done' = done \union {c}
    /\ got' = [got EXCEPT ![c] = entry[c]]
    /\ pc' = [pc EXCEPT ![c] = "back"]
    /\ UNCHANGED <<claimed, entry, waits>>

\* The lookup c waited for found an answer.
Closed(c) == waits[c] \in done  \* mutant: it is over
Found(c) == entry[waits[c]] # Error

\* <-entry.done: an answer is returned, after a failure the call asks again.
Wake(c) ==
    /\ pc[c] = "wait" /\ waits[c] \in done
    /\ IF Found(c)
         THEN /\ got' = [got EXCEPT ![c] = entry[waits[c]]]
              /\ pc' = [pc EXCEPT ![c] = "back"]
         ELSE /\ pc' = [pc EXCEPT ![c] = "ask"]
              /\ UNCHANGED got
    /\ waits' = [waits EXCEPT ![c] = None]
    /\ UNCHANGED <<claimed, entry, done>>

\* Every call has returned.
Over == (\A c \in Calls : pc[c] = "back") /\ UNCHANGED vars

Init ==
    /\ pc = [c \in Calls |-> "ask"]
    /\ claimed = None
    /\ entry = [c \in Calls |-> None]
    /\ done = {}
    /\ waits = [c \in Calls |-> None]
    /\ got = [c \in Calls |-> None]

Get(c) == Ask(c) \/ Load(c) \/ Evict(c) \/ Close(c) \/ Wake(c)

Next == (\E c \in Calls : Get(c)) \/ Over

Spec == Init /\ [][Next]_vars

\* The scheduler runs every goroutine, and load ends: every request under it
\* has a timeout.
Fairness == \A c \in Calls : WF_vars(Get(c))
FairSpec == Spec /\ Fairness

----------------------------------------------------------------------------
(* Properties.                                                             *)

TypeOK ==
    /\ pc \in [Calls -> {"ask", "load", "evict", "close", "wait", "back"}]
    /\ claimed \in Calls \union {None}
    /\ entry \in [Calls -> Answers \union {None, Error}]
    /\ done \subseteq Calls
    /\ waits \in [Calls -> Calls \union {None}]
    /\ got \in [Calls -> Answers \union {None, Error}]

\* One lookup per key at a time, and none once one has found the answer,
\* however the callers arrive (memo: "one lookup per key however many PRs
\* ask for it at once").
OneLookup ==
    \A c, d \in Calls :
        /\ pc[c] = "load" \/ entry[c] \in Answers
        /\ pc[d] = "load" \/ entry[d] \in Answers
        => c = d

\* Whoever is answered is answered alike, although load may answer
\* differently each time: the PRs of a repository share one merge lane.
SameAnswer ==
    \A c, d \in Calls :
        got[c] \in Answers /\ got[d] \in Answers => got[c] = got[d]

\* A call fails on its own lookup and never on the one it waited for.
ErrorIsOwn == \A c \in Calls : got[c] = Error => entry[c] = Error

\* Every call returns, however many lookups fail before it.
EveryCallReturns == \A c \in Calls : <>(pc[c] = "back")

\* The key is answered when the lookup that holds it succeeded; a call has
\* failed when its lookup has.
Promise == INSTANCE Answering WITH
    answer <- IF claimed # None /\ entry[claimed] \in Answers
                THEN entry[claimed] ELSE None,
    got <- [c \in Calls |-> IF entry[c] = Error THEN Error ELSE got[c]]
KeepsPromise == Promise!Spec

\* The inductive invariant the proofs rest on (MemoProofs.tla): the key is
\* held by the one call that looks it up or has its answer, an entry says how
\* far its call is, and only an entry with a verdict is closed.
CallOK(c) ==
    /\ pc[c] = "load" => claimed = c /\ entry[c] = None
    /\ pc[c] = "evict" => claimed = c /\ entry[c] = Error
    /\ pc[c] = "close" => entry[c] # None /\ got[c] = None
    /\ pc[c] \in {"ask", "wait"} => entry[c] = None
    /\ pc[c] # "back" => got[c] = None
    /\ pc[c] = "back" /\ entry[c] # None => got[c] = entry[c]
    /\ pc[c] = "back" /\ entry[c] = None =>
         /\ claimed # None
         /\ entry[claimed] \in Answers
         /\ got[c] = entry[claimed]
    /\ pc[c] = "wait" => waits[c] \in Calls
    /\ entry[c] \in Answers => claimed = c
    /\ claimed = c => pc[c] \notin {"ask", "wait"}
    /\ claimed = c /\ entry[c] = Error => pc[c] = "evict"
    /\ claimed = c /\ entry[c] = None => pc[c] = "load"
    /\ c \in done => entry[c] # None
MemoInv == \A c \in Calls : CallOK(c)

=============================================================================
