------------------------------- MODULE Serve --------------------------------
(***************************************************************************)
(* marge serve (cmd/serve.go, serve_stale.go): the calls of its tools, the *)
(* guard that stops a server whose binary self-update replaced, somebody   *)
(* removed, or cannot be looked at, and the shutdown that gives calls in   *)
(* flight a moment to end.  The host starts the server again.              *)
(***************************************************************************)
EXTENDS Naturals, FiniteSets

CONSTANTS
    Calls,          \* the calls of the tools, of one caller or several
    Transports,     \* "stdio" and "streamable-http"
    Watches,        \* whether watchBinary could identify the executable
    MaxBinaries     \* a bound on the updates of the binary

VARIABLES
    transport, watched,
    binary,         \* the binary the server was started from
    onDisk,         \* the one its path names, 0 for none
    state,          \* the server: "serving", "stopping" or "gone"
    timer,          \* a stop is due after staleExitGrace
    signalled,      \* SIGINT or SIGTERM reached this server
    seen,           \* what its calls found of its binary: "nothing", that it
                    \* was "replaced", or that it was "unread" alone
    calls           \* [call -> where it is]

server == <<transport, watched, binary>>
serveVars == <<server, onDisk, state, timer, signalled, seen, calls>>

InFlight == {c \in Calls : calls[c] \in {"arrived", "running"}}

\* binaryWatch.replaced, if the server knows what it started from: its path
\* names another file or none, or what it names could not be read.
Replaced(unread) == watched /\ (unread \/ onDisk # binary)

ServeInit ==
    /\ transport \in Transports /\ watched \in Watches
    /\ binary = 1 /\ state = "serving" /\ onDisk = 1
    /\ timer = FALSE /\ signalled = FALSE /\ seen = "nothing"
    /\ calls = [c \in Calls |-> "none"]

Becomes(c, s) == calls' = [calls EXCEPT ![c] = s]

Arrive(c) ==
    /\ state = "serving" /\ calls[c] = "none"
    /\ Becomes(c, "arrived")
    /\ UNCHANGED <<server, onDisk, state, timer, signalled, seen>>

\* A call looks at the binary, and remembers what it found.
Looks(unread) ==
    seen' = IF ~Replaced(unread) THEN seen
            ELSE IF onDisk # binary THEN "replaced"
            ELSE IF seen = "nothing" THEN "unread" ELSE seen

\* restartGuard, before the handler: a call that finds the binary replaced is
\* refused, and the server stops after a moment.
Guard(c, unread) ==
    /\ state # "gone" /\ calls[c] = "arrived" /\ Looks(unread)
    /\ Becomes(c, IF Replaced(unread) THEN "refused" ELSE "running")
    /\ timer' = (timer \/ Replaced(unread))
    /\ UNCHANGED <<server, onDisk, state, signalled>>

\* And after it: the call is answered, and the server stops; and a slip that
\* leaves the stop to the calls that come.
AnswerOnly(c, unread) ==                        \* mutant: no stop is due
    /\ state # "gone" /\ calls[c] = "running" /\ Looks(unread)
    /\ Becomes(c, "answered")
    /\ UNCHANGED <<server, onDisk, state, timer, signalled>>
Answer(c, unread) ==
    /\ state # "gone" /\ calls[c] = "running" /\ Looks(unread)
    /\ Becomes(c, "answered")
    /\ timer' = (timer \/ Replaced(unread))
    /\ UNCHANGED <<server, onDisk, state, signalled>>

\* staleExitGrace is over: the context of the server is cancelled.
GraceEnds ==
    /\ timer /\ state = "serving"
    /\ state' = "stopping" /\ timer' = FALSE
    /\ UNCHANGED <<server, onDisk, signalled, seen, calls>>

Signal ==
    /\ state = "serving"
    /\ state' = "stopping" /\ signalled' = TRUE
    /\ UNCHANGED <<server, onDisk, timer, seen, calls>>

\* Over HTTP the server is gone when its calls are over or shutdownGrace is,
\* over stdio at once: Listen returns with the context.
Exit(graceOver) ==
    /\ state = "stopping"
    /\ transport = "streamable-http" => graceOver = (InFlight # {})
    /\ state' = "gone" /\ timer' = FALSE
    /\ calls' = [c \in Calls |-> IF c \in InFlight THEN "cut" ELSE calls[c]]
    /\ UNCHANGED <<server, onDisk, signalled, seen>>

\* marge self-update renames the new binary over the path; the binary of a
\* running server is not used again for another.
Newest == IF onDisk < binary THEN binary ELSE onDisk
SelfUpdate ==
    /\ Newest < MaxBinaries
    /\ onDisk' = Newest + 1
    /\ UNCHANGED <<server, state, timer, signalled, seen, calls>>

\* Somebody removes the binary; another may still be installed.
BinaryGoes ==
    /\ onDisk # 0 /\ Newest < MaxBinaries
    /\ onDisk' = 0
    /\ UNCHANGED <<server, state, timer, signalled, seen, calls>>

\* The host starts the binary that is on disk.
HostRestarts ==
    /\ state = "gone" /\ onDisk # 0
    /\ binary' = onDisk /\ watched' \in Watches
    /\ state' = "serving" /\ signalled' = FALSE /\ seen' = "nothing"
    /\ calls' = [c \in Calls |-> "none"]
    /\ UNCHANGED <<transport, onDisk, timer>>

ServeNext ==
    \/ \E c \in Calls : Arrive(c)
    \/ \E c \in Calls, unread \in BOOLEAN :
          Guard(c, unread) \/ Answer(c, unread)
    \/ GraceEnds \/ Signal \/ SelfUpdate \/ BinaryGoes \/ HostRestarts
    \/ \E graceOver \in BOOLEAN : Exit(graceOver)

ServeSpec == ServeInit /\ [][ServeNext]_serveVars

-----------------------------------------------------------------------------
\* A server that any of its calls found replaced, be it the one it refused or
\* one that had run by then, is on its way to stop, and none else refuses or
\* stops, a signal apart; and it stops for another binary, or for none, unless
\* all its calls met was a path that could not be read.  A server that refused
\* and stayed would refuse every call from then on, and one that answered and
\* stayed would serve code that is no longer on disk (restartGuard).
RefusedRestarts ==
    /\ seen = "nothing" => /\ ~timer /\ (state = "serving" \/ signalled)
                    /\ \A c \in Calls : calls[c] # "refused"
    /\ seen # "nothing" => timer \/ state # "serving"
    /\ seen = "replaced" => onDisk # binary

\* What serve_stale.go says of a call during which the binary was replaced: it
\* is finished and answered.  Does not hold: the guard of another call stops
\* the server a second later, and the shutdown waits ten.
ReplacedAnswered == (\E c \in Calls : calls[c] = "cut") => signalled
=============================================================================
