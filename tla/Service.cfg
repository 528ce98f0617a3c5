\* A run over three teams, a server with two calls and two updates of its
\* binary or its removal, and two requests that share a token.
SPECIFICATION SSpec
CONSTANTS
    Parts = {"teams", "serve", "tokens"}
    Scopes <- Owned
    Unresolved = Unresolved
    Parallels = {0, 1, 2}
    Default = 8
    Channels = {"id", "error"}
    Attempts = 2
    Calls = {1, 2}
    Transports = {"stdio", "streamable-http"}
    Watches = {TRUE, FALSE}
    MaxBinaries = 3
    Senders = {1, 2, 3}
    ScopeOf <- OfRepository
    Lifetime = 4
    Renewal = 1
    Now = 9
INVARIANTS
    OneWriter
    Reported
    RefusedRestarts
    MarginCovers
