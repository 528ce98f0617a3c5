------------------------------- MODULE Tokens -------------------------------
(***************************************************************************)
(* The installation tokens of the sweep App (internal/github/app.go): one  *)
(* per scope in a map that is read in one critical section and written in  *)
(* another, with the mint in between.  A request that was given its token  *)
(* waits its turn behind the gate of module RateGate before it is sent.    *)
(* Time is counted in units of tokenRenewal.                               *)
(***************************************************************************)
EXTENDS Naturals, FiniteSets

CONSTANTS
    Senders,        \* the requests of the App
    ScopeOf,        \* the repository each names, or the whole installation
    Lifetime,       \* the life of a token, as GitHub gives it
    Renewal,        \* tokenRenewal
    Now             \* a bound on the clock

\* A token outlives the margin: an hour to a minute.
ASSUME LifetimeAssumption ==
    Lifetime \in Nat /\ Renewal \in Nat /\ Lifetime > Renewal

VARIABLES
    clock,
    tokens,         \* [scope -> the expiry of the token held], 0 for none
    phase,          \* [sender -> where it is in RoundTrip]
    minted,         \* [sender -> the expiry of its token]
    granted         \* [sender -> when it was given the token]

tokenVars == <<clock, tokens, phase, minted, granted>>

TokensInit ==
    /\ clock = 1 /\ tokens = [s \in {ScopeOf[r] : r \in Senders} |-> 0]
    /\ phase = [r \in Senders |-> "start"]
    /\ minted = [r \in Senders |-> 0] /\ granted = [r \in Senders |-> 0]

Step(r, from, to) == phase[r] = from /\ phase' = [phase EXCEPT ![r] = to]

\* Whether a held token serves; and a slip that asks whether it is expired.
Unexpired(expires) == expires > clock           \* mutant: no margin
Usable(expires) == expires > clock + Renewal

\* token: what is held, or a mint.
Take(r) ==
    LET held == tokens[ScopeOf[r]]
    IN IF Usable(held)
       THEN /\ Step(r, "start", "waiting")
            /\ minted' = [minted EXCEPT ![r] = held]
            /\ granted' = [granted EXCEPT ![r] = clock]
            /\ UNCHANGED <<clock, tokens>>
       ELSE Step(r, "start", "minting") /\ UNCHANGED <<clock, tokens, minted, granted>>

\* MintToken: GitHub gives a token, which the answer may be slow to bring.
Mint(r) ==
    /\ Step(r, "minting", "minted")
    /\ minted' = [minted EXCEPT ![r] = clock + Lifetime]
    /\ UNCHANGED <<clock, tokens, granted>>

MintFails(r) ==
    /\ Step(r, "minting", "failed")
    /\ UNCHANGED <<clock, tokens, minted, granted>>

\* The token is held for the scope, whatever is by now.
Hold(r) ==
    /\ Step(r, "minted", "waiting")
    /\ tokens' = [tokens EXCEPT ![ScopeOf[r]] = minted[r]]
    /\ granted' = [granted EXCEPT ![r] = clock]
    /\ UNCHANGED <<clock, minted>>

\* The gate lets the request go, and the next one of the sender begins.
SendOff(r) ==
    /\ Step(r, "waiting", "sent")
    /\ UNCHANGED <<clock, tokens, minted, granted>>

Again(r) ==
    /\ phase[r] \in {"sent", "failed"}
    /\ phase' = [phase EXCEPT ![r] = "start"]
    /\ minted' = [minted EXCEPT ![r] = 0] /\ granted' = [granted EXCEPT ![r] = 0]
    /\ UNCHANGED <<clock, tokens>>

\* Time passes.  A mint is answered within the life of its token.
Passes ==
    /\ clock < Now
    /\ \A r \in Senders : /\ phase[r] # "sent"
                          /\ phase[r] = "minted" => minted[r] > clock + 1 + Renewal
    /\ clock' = clock + 1
    /\ UNCHANGED <<tokens, phase, minted, granted>>

TokensNext ==
    \/ \E r \in Senders : \/ Take(r) \/ Mint(r) \/ MintFails(r) \/ Hold(r)
                          \/ SendOff(r) \/ Again(r)
    \/ Passes

TokensSpec == TokensInit /\ [][TokensNext]_tokenVars

-----------------------------------------------------------------------------
\* A request that leaves within the margin of being given its token leaves
\* with one that is alive, whichever of the senders that missed together
\* stored its mint last (tokenRenewal: "a minute of margin covers a request
\* that starts just before the expiry").
MarginCovers ==
    \A r \in Senders :
        phase[r] = "sent" /\ clock <= granted[r] + Renewal => minted[r] > clock

\* What the margin is for: no request leaves with an expired token.  Does not
\* hold: the gate may hold a request for several waits of a minute each.
SentAlive == \A r \in Senders : phase[r] = "sent" => minted[r] > clock
=============================================================================
