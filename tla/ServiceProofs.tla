--------------------------- MODULE ServiceProofs ----------------------------
(***************************************************************************)
(* The parts of Service, each on its own, for any number of calls,         *)
(* senders, updates, ticks, teams and repositories: a server that found    *)
(* its binary replaced is about to stop, and no other refuses a call; the  *)
(* margin of a token covers a request that is sent within it; two teams    *)
(* that own a common repository are never swept at once; and what the      *)
(* teams print is passed on in their order and whole.                      *)
(***************************************************************************)
EXTENDS Service, Induction

-----------------------------------------------------------------------------
(* The server.  No binary is installed twice: what a call found replaced    *)
(* stays so while the server lives; a server that is gone has no stop due.  *)
CallStates == {"none", "arrived", "running", "refused", "answered", "cut"}
SomeRefused == \E c \in Calls : calls[c] = "refused"

ServeInv ==
    /\ binary \in Nat \ {0} /\ onDisk \in Nat
    /\ calls \in [Calls -> CallStates]
    /\ seen \in {"nothing", "replaced", "unread"}
    /\ timer \in BOOLEAN /\ signalled \in BOOLEAN
    /\ state = "gone" => ~timer
    /\ RefusedRestarts

\* What a call that looks at the binary finds, and what it sets off.
LEMMA LooksStop ==
    ASSUME ServeInv, NEW unread \in BOOLEAN, Looks(unread),
           timer' = (timer \/ Replaced(unread)), UNCHANGED <<server, onDisk>>
    PROVE  /\ seen' \in {"nothing", "replaced", "unread"} /\ timer' \in BOOLEAN
           /\ seen # "nothing" => seen' # "nothing"
           /\ seen' = "replaced" => onDisk' # binary'
           /\ IF Replaced(unread) THEN seen' # "nothing" /\ timer' = TRUE
              ELSE UNCHANGED <<seen, timer>>
<1>1. CASE Replaced(unread)
  <2>1. timer' = TRUE
    BY <1>1
  <2>2. /\ seen' \in {"replaced", "unread"}
        /\ seen' = "replaced" => onDisk # binary
    BY <1>1 DEF Looks, ServeInv, RefusedRestarts
  <2> QED
    BY <1>1, <2>1, <2>2 DEF server
<1>2. CASE ~Replaced(unread)
  <2>1. timer' = timer
    BY <1>2 DEF ServeInv
  <2>2. seen' = seen
    BY <1>2 DEF Looks
  <2> QED
    BY <1>2, <2>1, <2>2 DEF ServeInv, RefusedRestarts, server
<1> QED
  BY <1>1, <1>2

\* What is installed next is neither the binary that runs nor none.
LEMMA NextIsOther ==
    ASSUME binary \in Nat \ {0}, onDisk \in Nat
    PROVE  Newest + 1 \in Nat /\ Newest + 1 # binary /\ 0 # binary
BY DEF Newest

\* Each step of the server keeps this.
LEMMA ServeStep == ServeInv /\ [ServeNext]_serveVars => ServeInv'
<1> SUFFICES ASSUME ServeInv, [ServeNext]_serveVars PROVE ServeInv'
  OBVIOUS
<1> USE DEF ServeInv, RefusedRestarts, Becomes, server, CallStates
<1>1. ASSUME NEW c \in Calls, Arrive(c) PROVE ServeInv'
  BY <1>1 DEF Arrive
<1>2. ASSUME NEW c \in Calls, NEW unread \in BOOLEAN,
             Guard(c, unread) \/ Answer(c, unread)
      PROVE  ServeInv'
  <2>1. /\ Looks(unread) /\ timer' = (timer \/ Replaced(unread))
        /\ UNCHANGED <<server, onDisk, state, signalled>> /\ state # "gone"
    BY <1>2 DEF Guard, Answer
  <2>2. /\ seen' \in {"nothing", "replaced", "unread"} /\ timer' \in BOOLEAN
        /\ seen # "nothing" => seen' # "nothing"
        /\ seen' = "replaced" => onDisk' # binary'
        /\ IF Replaced(unread) THEN seen' # "nothing" /\ timer' = TRUE
           ELSE UNCHANGED <<seen, timer>>
    BY <2>1, LooksStop DEF server
  <2>3. PICK s \in CallStates : /\ calls' = [calls EXCEPT ![c] = s]
                                /\ s = "refused" => Replaced(unread)
    BY <1>2 DEF Guard, Answer
  <2>4. /\ calls' \in [Calls -> CallStates]
        /\ SomeRefused' => SomeRefused \/ Replaced(unread)
    BY <2>3 DEF SomeRefused
  <2>5. SomeRefused' => seen' # "nothing"
    BY <2>2, <2>4 DEF SomeRefused
  <2>6. seen' # "nothing" => timer' \/ state' # "serving"
    BY <2>1, <2>2
  <2>7. seen' = "nothing" => ~timer' /\ (state' = "serving" \/ signalled')
    BY <2>1, <2>2
  <2> QED
    BY <2>1, <2>2, <2>4, <2>5, <2>6, <2>7 DEF SomeRefused
<1>3. CASE GraceEnds
  <2>1. timer /\ timer' = FALSE /\ seen # "nothing"
    BY <1>3 DEF GraceEnds
  <2> QED
    BY <1>3, <2>1 DEF GraceEnds
<1>4. CASE Signal
  <2>1. /\ signalled' = TRUE /\ state' = "stopping"
        /\ UNCHANGED <<timer, seen, binary, onDisk, calls>>
    BY <1>4 DEF Signal
  <2>2. signalled' \in BOOLEAN /\ timer' \in BOOLEAN
    BY <2>1
  <2>3. RefusedRestarts'
    BY <2>1
  <2> QED
    BY <2>1, <2>2, <2>3
<1>5. ASSUME NEW graceOver \in BOOLEAN, Exit(graceOver) PROVE ServeInv'
  BY <1>5 DEF Exit, InFlight
<1>6. CASE SelfUpdate \/ BinaryGoes
  <2>1. /\ onDisk' = Newest + 1 \/ onDisk' = 0
        /\ UNCHANGED <<binary, state, timer, signalled, seen, calls>>
    BY <1>6 DEF SelfUpdate, BinaryGoes
  <2>2. Newest + 1 \in Nat /\ Newest + 1 # binary /\ 0 # binary
    BY NextIsOther
  <2>3. onDisk' # binary' /\ onDisk' \in Nat
    BY <2>1, <2>2
  <2>4. timer' \in BOOLEAN /\ signalled' \in BOOLEAN
    BY <2>1
  <2>5. /\ seen' = "nothing" =>
              /\ ~timer' /\ (state' = "serving" \/ signalled')
              /\ \A c \in Calls : calls'[c] # "refused"
        /\ seen' # "nothing" => timer' \/ state' # "serving"
        /\ state' = "gone" => ~timer'
    BY <2>1
  <2> QED
    BY <2>1, <2>3, <2>4, <2>5
<1>7. CASE HostRestarts
  <2>1. /\ seen' = "nothing" /\ state' = "serving" /\ UNCHANGED <<timer, onDisk>>
        /\ ~timer /\ signalled' = FALSE /\ binary' \in Nat \ {0}
        /\ calls' = [c \in Calls |-> "none"]
    BY <1>7 DEF HostRestarts
  <2> QED
    BY <2>1
<1>8. CASE UNCHANGED serveVars
  BY <1>8 DEF serveVars
<1> QED
  BY <1>1, <1>2, <1>3, <1>4, <1>5, <1>6, <1>7, <1>8 DEF ServeNext

\* A server that any call found replaced is on its way to stop, for another
\* binary or none unless the path could not be read, and no other refuses a
\* call or stops without a signal (restartGuard, scheduleStop).
THEOREM StopFollowsRefusal == ServeSpec => []RefusedRestarts
<1>1. ServeInit => ServeInv
  <2> SUFFICES ASSUME ServeInit PROVE ServeInv
    OBVIOUS
  <2>1. timer \in BOOLEAN /\ signalled \in BOOLEAN /\ ~timer
    BY DEF ServeInit
  <2>2. /\ binary = 1 /\ onDisk = 1 /\ state = "serving" /\ seen = "nothing"
        /\ calls = [c \in Calls |-> "none"]
    BY DEF ServeInit
  <2>3. RefusedRestarts
    BY <2>1, <2>2 DEF RefusedRestarts
  <2>4. calls \in [Calls -> CallStates]
    BY <2>2 DEF CallStates
  <2> QED
    BY <2>1, <2>2, <2>3, <2>4 DEF ServeInv
<1>2. ServeInv => RefusedRestarts
  BY DEF ServeInv
<1> QED
  BY <1>1, <1>2, ServeStep, PTL DEF ServeSpec

-----------------------------------------------------------------------------
(* The tokens.  What a request holds outlives the moment it was given by   *)
(* more than the margin, whoever minted it.                                *)
Phases == {"start", "minting", "minted", "waiting", "sent", "failed"}

TokensInv ==
    /\ clock \in Nat
    /\ tokens \in [{ScopeOf[r] : r \in Senders} -> Nat]
    /\ phase \in [Senders -> Phases]
    /\ minted \in [Senders -> Nat] /\ granted \in [Senders -> Nat]
    /\ \A r \in Senders :
          /\ phase[r] = "minted" => minted[r] > clock + Renewal
          /\ phase[r] \in {"waiting", "sent"} =>
                minted[r] > granted[r] + Renewal

\* Each step of a sender, and of the clock, keeps this.
LEMMA TokensStep == TokensInv /\ [TokensNext]_tokenVars => TokensInv'
<1> SUFFICES ASSUME TokensInv, [TokensNext]_tokenVars PROVE TokensInv'
  OBVIOUS
<1> USE LifetimeAssumption DEF TokensInv, Phases
<1>1. ASSUME NEW r \in Senders, Take(r) PROVE TokensInv'
  <2>1. tokens[ScopeOf[r]] \in Nat
    OBVIOUS
  <2> QED
    BY <1>1, <2>1 DEF Take, Step, Usable
<1>2. ASSUME NEW r \in Senders, Mint(r) PROVE TokensInv'
  BY <1>2 DEF Mint, Step
<1>3. ASSUME NEW r \in Senders, MintFails(r) PROVE TokensInv'
  BY <1>3 DEF MintFails, Step
<1>4. ASSUME NEW r \in Senders, Hold(r) PROVE TokensInv'
  BY <1>4 DEF Hold, Step
<1>5. ASSUME NEW r \in Senders, SendOff(r) PROVE TokensInv'
  BY <1>5 DEF SendOff, Step
<1>6. ASSUME NEW r \in Senders, Again(r) PROVE TokensInv'
  BY <1>6 DEF Again
<1>7. CASE Passes
  BY <1>7 DEF Passes
<1>8. CASE UNCHANGED tokenVars
  BY <1>8 DEF tokenVars
<1> QED
  BY <1>1, <1>2, <1>3, <1>4, <1>5, <1>6, <1>7, <1>8 DEF TokensNext

\* A request sent within the margin of being given its token is sent with a
\* live one (tokenRenewal).
THEOREM MarginIsEnough == TokensSpec => []MarginCovers
<1>1. TokensInit => TokensInv
  BY DEF TokensInit, TokensInv, Phases
<1>2. TokensInv => MarginCovers
  BY LifetimeAssumption DEF TokensInv, MarginCovers
<1> QED
  BY <1>1, <1>2, TokensStep, PTL DEF TokensSpec

-----------------------------------------------------------------------------
(* The groups.  The teams are numbered as they were named.                  *)
TeamCount == Len(scopes)
Named == Teams = 1..TeamCount /\ TeamCount \in Nat

\* In a forest no team's parent comes after it.
Forests == {p \in [Teams -> Teams] : \A k \in Teams : p[k] <= k}

\* What a team's root is one step from its parent.
Rooted(p, root) ==
    \A k \in Teams : root[k] = IF p[k] = k THEN k ELSE root[p[k]]

\* A root function exists: it is found team by team.
LEMMA RootsExist ==
    ASSUME Named, NEW p \in Forests
    PROVE  \E root \in [Teams -> Teams] : Rooted(p, root)
<1>0. TeamCount \in Nat /\ Teams = 1..TeamCount
  BY DEF Named
<1> DEFINE n == TeamCount
           S == [Teams -> Teams]
           at(F, k) == IF p[k] = k THEN k ELSE F[p[k]]
           step == [x \in S \X (1..n) |-> [x[1] EXCEPT ![x[2]] = at(x[1], x[2])]]
           base == [k \in Teams |-> k]
<1>1. p \in [Teams -> Teams] /\ \A k \in Teams : p[k] \in Teams /\ p[k] <= k
  BY DEF Forests
<1>2. step \in [S \X (1..n) -> S]
  <2>1. ASSUME NEW F \in S, NEW k \in 1..n
        PROVE  [F EXCEPT ![k] = at(F, k)] \in S
    <3>1. k \in Teams /\ p[k] \in Teams
      BY <1>0, <1>1
    <3>2. at(F, k) \in Teams
      BY <3>1
    <3> HIDE DEF at
    <3> QED
      BY <3>1, <3>2
  <2> HIDE DEF S, at
  <2> QED
    BY <2>1
<1>3. base \in S
  OBVIOUS
<1>4. PICK f : /\ f \in [0..n -> S] /\ f[0] = base
               /\ \A i \in 1..n : f[i] = step[<<f[i - 1], i>>]
  <2> HIDE DEF S, step, base
  <2>1. Iterations(n, S, base, step) # {}
    BY <1>0, <1>2, <1>3, Iterates
  <2> QED
    BY <2>1 DEF Iterations
<1>5. ASSUME NEW i \in 1..n
      PROVE  /\ f[i] = [f[i - 1] EXCEPT ![i] = at(f[i - 1], i)]
             /\ f[i] \in S /\ f[i - 1] \in S
  <2>1. i \in 0..n /\ i - 1 \in 0..n
    BY <1>0
  <2>2. f[i] \in S /\ f[i - 1] \in S
    BY <1>4, <2>1
  <2> HIDE DEF S, at
  <2> QED
    BY <1>4, <2>2
<1> HIDE DEF step
<1> DEFINE Upto(m) == \A k \in Teams : k <= m => f[m][k] = at(f[m], k)
           good == {m \in 0..n : Upto(m)}
<1>6. 0 \in good
  BY <1>0
<1>7. ASSUME NEW i \in 1..n, i - 1 \in good PROVE i \in good
  <2>1. i \in 0..n /\ i \in Teams
    BY <1>0
  <2>2. ASSUME NEW k \in Teams, k <= i PROVE f[i][k] = at(f[i], k)
    <3>0. k \in Nat /\ p[k] \in Teams /\ p[k] <= k /\ p[k] \in Nat
      BY <1>0, <1>1
    <3>a. PICK v : v = at(f[i - 1], i)
      OBVIOUS
    <3>b. PICK F : F = f[i - 1]
      OBVIOUS
    <3>c. f[i] = [F EXCEPT ![i] = v] /\ DOMAIN F = Teams
      <4> HIDE DEF at
      <4> QED
        BY <1>5, <3>a, <3>b
    <3>1. \A j \in Teams : j # i => f[i][j] = f[i - 1][j]
      <4> HIDE DEF at
      <4> QED
        BY <3>b, <3>c
    <3>2. f[i][i] = at(f[i - 1], i)
      <4> HIDE DEF at
      <4> QED
        BY <2>1, <3>a, <3>c
    <3>3. p[k] # k => p[k] # i
      BY <1>0, <2>2, <3>0
    <3>4. CASE k = i
      BY <3>0, <3>1, <3>2, <3>3, <3>4
    <3>5. CASE k # i
      <4>1. k <= i - 1
        BY <1>0, <2>2, <3>0, <3>5
      <4>2. f[i - 1][k] = at(f[i - 1], k)
        BY <1>7, <4>1
      <4> QED
        BY <3>0, <3>1, <3>3, <3>5, <4>2
    <3> QED
      BY <3>4, <3>5
  <2> HIDE DEF at
  <2> QED
    BY <2>1, <2>2
<1>8. n \in good
  <2>1. \A i \in 0..n : i \in good
    <3> HIDE DEF good
    <3> QED
      BY <1>0, <1>6, <1>7, UpTo
  <2> QED
    BY <1>0, <2>1
<1>9. f[n] \in [Teams -> Teams]
  <2>1. n \in 0..n
    BY <1>0
  <2> QED
    BY <1>4, <2>1
<1>10. \A k \in Teams : f[n][k] = at(f[n], k)
  <2>1. \A k \in Teams : k <= n
    BY <1>0
  <2> QED
    BY <1>8, <2>1
<1> QED
  BY <1>9, <1>10 DEF Rooted

\* The roots, and what RootOf says of them: a root is its own parent, and no
\* later than the team.
LEMMA RootIs ==
    ASSUME Named, NEW p \in Forests
    PROVE  \A k \in Teams :
              /\ RootOf(p, k) = IF p[k] = k THEN k ELSE RootOf(p, p[k])
              /\ RootOf(p, k) \in Teams /\ RootOf(p, k) <= k
              /\ p[RootOf(p, k)] = RootOf(p, k)
<1>0. TeamCount \in Nat /\ Teams = 1..TeamCount
  BY DEF Named
<1>1. /\ p \in [Teams -> Teams] /\ DOMAIN p = Teams
      /\ \A k \in Teams : p[k] \in Teams /\ p[k] <= k
  BY DEF Forests
<1> DEFINE Is(r) == r = [k \in Teams |-> IF p[k] = k THEN k ELSE r[p[k]]]
           root == CHOOSE r : Is(r)
<1>2. Is(root)
  <2>1. PICK r \in [Teams -> Teams] : Rooted(p, r)
    BY RootsExist
  <2>2. Is(r)
    BY <2>1 DEF Rooted
  <2> HIDE DEF Is
  <2> QED
    BY <2>2
<1>3. \A k \in Teams : RootOf(p, k) = root[k]
  BY <1>1 DEF RootOf
<1>4. \A k \in Teams : root[k] = IF p[k] = k THEN k ELSE root[p[k]]
  <2> HIDE DEF root
  <2> QED
    BY <1>2
<1> HIDE DEF root, Is
<1> DEFINE Good(k) == root[k] \in Teams /\ root[k] <= k /\ p[root[k]] = root[k]
           bad == {k \in Teams : ~Good(k)}
<1>5. bad = {}
  <2> SUFFICES ASSUME bad # {} PROVE FALSE
    OBVIOUS
  <2>1. bad \in SUBSET Nat
    BY <1>0
  <2>2. PICK k \in bad : \A j \in bad : k <= j
    <3> HIDE DEF bad
    <3> QED
      BY <2>1, LeastMember
  <2>3. k \in Teams /\ k \in Nat /\ p[k] \in Teams /\ p[k] \in Nat /\ p[k] <= k
    BY <1>0, <1>1, <2>2
  <2>4. CASE p[k] = k
    BY <1>4, <2>2, <2>3, <2>4
  <2>5. CASE p[k] # k
    <3>1. p[k] \notin bad
      BY <2>2, <2>3, <2>5
    <3>2. Good(p[k])
      BY <2>3, <3>1
    <3>3. root[k] = root[p[k]]
      BY <1>4, <2>3, <2>5
    <3>4. root[k] \in Nat
      BY <1>0, <3>2, <3>3
    <3> QED
      BY <2>2, <2>3, <3>2, <3>3, <3>4
  <2> QED
    BY <2>4, <2>5
<1>6. \A k \in Teams : Good(k)
  BY <1>5
<1> QED
  BY <1>1, <1>3, <1>4, <1>6

\* The lower of two numbers, and the higher.
LEMMA PairEnds ==
    ASSUME NEW x \in Nat, NEW y \in Nat, x # y
    PROVE  \/ x < y /\ Min({x, y}) = x /\ Max({x, y}) = y
           \/ y < x /\ Min({x, y}) = y /\ Max({x, y}) = x
<1>1. CASE x < y
  <2>1. x = Min({x, y}) /\ y = Max({x, y})
    BY <1>1 DEF Min, Max
  <2> QED
    BY <1>1, <2>1
<1>2. CASE y < x
  <2>1. y = Min({x, y}) /\ x = Max({x, y})
    BY <1>2 DEF Min, Max
  <2> QED
    BY <1>2, <2>1
<1> QED
  BY <1>1, <1>2

\* A claim joins the groups of two teams, and no group comes apart.
Together(p, i, j) == RootOf(p, i) = RootOf(p, j)

\* The join of two teams leaves a forest, in which they are together.
LEMMA JoinsGroups ==
    ASSUME Named, NEW p \in Forests, NEW a \in Teams, NEW b \in Teams
    PROVE  /\ Join(p, a, b) \in Forests
           /\ Together(Join(p, a, b), a, b)
           /\ \A i, j \in Teams :
                 Together(p, i, j) => Together(Join(p, a, b), i, j)
<1> DEFINE q == Join(p, a, b)
<1>1. PICK x, y : x = RootOf(p, a) /\ y = RootOf(p, b)
  OBVIOUS
<1>2. /\ x \in Teams /\ y \in Teams /\ x \in Nat /\ y \in Nat
      /\ p[x] = x /\ p[y] = y
  BY <1>1, RootIs DEF Named
<1>3. CASE x = y
  <2>1. q = p
    BY <1>1, <1>3 DEF Join
  <2> QED
    BY <1>1, <1>3, <2>1 DEF Together
<1>4. CASE x # y
  <2>1. PICK lo, hi : /\ lo = Min({x, y}) /\ hi = Max({x, y})
    OBVIOUS
  <2>2. /\ lo \in Teams /\ hi \in Teams /\ lo < hi /\ p[lo] = lo /\ p[hi] = hi
        /\ {lo, hi} = {x, y}
    BY <1>2, <1>4, <2>1, PairEnds
  <2>3. q = [p EXCEPT ![hi] = lo]
    BY <1>1, <1>4, <2>1 DEF Join
  <2>4. /\ p \in [Teams -> Teams] /\ \A k \in Teams : p[k] <= k
        /\ \A k \in Teams : k \in Nat
    BY DEF Forests, Named
  <2>5. /\ q \in [Teams -> Teams] /\ q[hi] = lo
        /\ \A k \in Teams : k # hi => q[k] = p[k]
    BY <2>2, <2>3, <2>4
  <2> HIDE DEF q
  <2>6. q \in Forests
    BY <2>2, <2>4, <2>5 DEF Forests
  <2> DEFINE New(k) == IF RootOf(p, k) = hi THEN lo ELSE RootOf(p, k)
             bad == {k \in Teams : RootOf(q, k) # New(k)}
  <2>7. bad = {}
    <3> SUFFICES ASSUME bad # {} PROVE FALSE
      OBVIOUS
    <3>1. bad \in SUBSET Nat
      BY <2>4
    <3>2. PICK k \in bad : \A j \in bad : k <= j
      <4> HIDE DEF bad
      <4> QED
        BY <3>1, LeastMember
    <3>3. k \in Teams /\ k \in Nat /\ RootOf(q, k) # New(k)
      BY <2>4, <3>2
    <3>4. /\ RootOf(p, k) = IF p[k] = k THEN k ELSE RootOf(p, p[k])
          /\ RootOf(q, k) = IF q[k] = k THEN k ELSE RootOf(q, q[k])
      BY <2>6, <3>3, RootIs
    <3>5. CASE k = hi
      <4>1. RootOf(p, k) = hi
        BY <2>2, <3>4, <3>5
      <4>2. RootOf(q, lo) = lo
        <5>1. q[lo] = lo
          BY <2>2, <2>4, <2>5
        <5> QED
          BY <2>2, <2>6, <5>1, RootIs
      <4>3. RootOf(q, k) = lo
        BY <2>2, <2>4, <2>5, <3>4, <3>5, <4>2
      <4> QED
        BY <3>3, <4>1, <4>3
    <3>6. CASE k # hi /\ p[k] = k
      <4>1. RootOf(q, k) = k /\ RootOf(p, k) = k
        BY <2>5, <3>3, <3>4, <3>6
      <4> QED
        BY <3>3, <3>6, <4>1
    <3>7. CASE k # hi /\ p[k] # k
      <4>1. q[k] = p[k] /\ p[k] \in Teams /\ p[k] \in Nat /\ p[k] <= k
        BY <2>4, <2>5, <3>3, <3>7
      <4>2. p[k] \notin bad
        BY <3>2, <3>3, <3>7, <4>1
      <4>3. RootOf(q, p[k]) = New(p[k])
        BY <4>1, <4>2
      <4>4. RootOf(p, k) = RootOf(p, p[k]) /\ RootOf(q, k) = RootOf(q, p[k])
        BY <3>4, <3>7, <4>1
      <4> QED
        BY <3>3, <4>3, <4>4
    <3> QED
      BY <3>5, <3>6, <3>7
  <2>8. \A k \in Teams : RootOf(q, k) = New(k)
    BY <2>7
  <2>9. Together(q, a, b)
    BY <1>1, <1>4, <2>2, <2>8 DEF Together
  <2>10. \A i, j \in Teams : Together(p, i, j) => Together(q, i, j)
    BY <2>8 DEF Together
  <2> QED
    BY <2>6, <2>9, <2>10 DEF q
<1> QED
  BY <1>3, <1>4

\* A repository that a team owns has a first owner.
LEMMA OwnerOwns ==
    ASSUME Named, NEW i \in Teams, NEW repo \in OwnedBy(i)
    PROVE  FirstOwner(repo) \in Teams
<1> DEFINE S == {j \in Teams : repo \in OwnedBy(j)}
<1>1. S \in SUBSET Nat /\ S # {}
  BY DEF Named
<1>2. Min(S) \in S
  <2> HIDE DEF S
  <2> QED
    BY <1>1, LeastMember DEF Min
<1> QED
  BY <1>2 DEF FirstOwner

\* A list of a finite set names each of its members.
LEMMA ListsAll ==
    ASSUME NEW S, IsFiniteSet(S)
    PROVE  /\ SetToSeq(S) \in Seq(S)
           /\ \A x \in S : \E n \in 1..Len(SetToSeq(S)) : SetToSeq(S)[n] = x
<1>1. PICK n : n = Cardinality(S)
  OBVIOUS
<1>2. n \in Nat /\ ExistsBijection(1..n, S)
  BY <1>1, FS_CardinalityType
<1>3. PICK f \in [1..n -> S] : IsInjective(f)
  BY <1>2 DEF ExistsBijection, Bijection, Injection
<1>4. /\ SetToSeq(S) \in [1..n -> S]
      /\ IsInjective(SetToSeq(S))
  BY <1>1, <1>3 DEF SetToSeq
<1>5. PICK g : g = SetToSeq(S)
  OBVIOUS
<1>6. g \in Injection(1..n, S)
  BY <1>4, <1>5 DEF Injection, IsInjective
<1>7. Cardinality(1..n) = n
  BY <1>2, FS_Interval
<1>8. g \in Surjection(1..n, S)
  BY <1>1, <1>6, <1>7, FS_Injection
<1>9. g \in Seq(S) /\ Len(g) = n
  BY <1>2, <1>4, <1>5
<1> QED
  BY <1>5, <1>8, <1>9 DEF Surjection

Owned == UNION {{i} \X OwnedBy(i) : i \in Teams}

\* The claims name each repository of each team, and nothing else.
LEMMA ClaimsAll ==
    ASSUME Named, \A i \in Teams : IsFiniteSet(OwnedBy(i))
    PROVE  /\ Len(Claims) \in Nat
           /\ \A n \in 1..Len(Claims) :
                 Claims[n][1] \in Teams /\ Claims[n][2] \in OwnedBy(Claims[n][1])
           /\ \A i \in Teams : \A repo \in OwnedBy(i) :
                 \E n \in 1..Len(Claims) : Claims[n] = <<i, repo>>
<1> DEFINE Of(i) == {i} \X OwnedBy(i)
           All == {Of(i) : i \in Teams}
<1>1. IsFiniteSet(Teams)
  BY FS_Interval DEF Named
<1>2. IsFiniteSet(All)
  <2> DEFINE of == [i \in Teams |-> Of(i)]
  <2>1. of \in Surjection(Teams, All)
    BY DEF Surjection
  <2> HIDE DEF of, All
  <2> QED
    BY <1>1, <2>1, FS_Surjection
<1>3. \A A \in All : IsFiniteSet(A)
  <2>1. ASSUME NEW i \in Teams PROVE IsFiniteSet(Of(i))
    BY FS_Singleton, FS_Product
  <2> QED
    BY <2>1
<1>4. IsFiniteSet(Owned)
  <2> HIDE DEF All
  <2>1. IsFiniteSet(UNION All)
    BY <1>2, <1>3, FS_UNION
  <2> QED
    BY <2>1 DEF Owned, All
<1>5. Claims = SetToSeq(Owned)
  BY DEF Claims, Owned
<1>6. \A c \in Owned : c[1] \in Teams /\ c[2] \in OwnedBy(c[1])
  BY DEF Owned
<1>7. \A i \in Teams : \A repo \in OwnedBy(i) : <<i, repo>> \in Owned
  BY DEF Owned
<1>8. /\ Claims \in Seq(Owned)
      /\ \A c \in Owned : \E n \in 1..Len(Claims) : Claims[n] = c
  <2> HIDE DEF Owned
  <2> QED
    BY <1>4, <1>5, ListsAll
<1>9. Len(Claims) \in Nat /\ \A n \in 1..Len(Claims) : Claims[n] \in Owned
  BY <1>8
<1> QED
  BY <1>6, <1>7, <1>8, <1>9

\* The claims are joined one by one.
LEMMA ParentsAre ==
    ASSUME Named, \A i \in Teams : IsFiniteSet(OwnedBy(i))
    PROVE  /\ Parents[0] = [k \in Teams |-> k]
           /\ \A n \in 1..Len(Claims) :
                 Parents[n] = Join(Parents[n - 1], FirstOwner(Claims[n][2]),
                                   Claims[n][1])
<1> DEFINE N == Len(Claims)
           first(n) == FirstOwner(Claims[n][2])
           team(n) == Claims[n][1]
           base == [k \in Teams |-> k]
           step == [x \in Forests \X (1..N) |->
                       Join(x[1], first(x[2]), team(x[2]))]
<1>1. N \in Nat
  BY ClaimsAll
<1>2. \A n \in 1..N : first(n) \in Teams /\ team(n) \in Teams
  BY ClaimsAll, OwnerOwns
<1>3. base \in Forests
  BY DEF Forests, Named
<1>4. step \in [Forests \X (1..N) -> Forests]
  <2> HIDE DEF N, first, team
  <2> QED
    BY <1>2, JoinsGroups
<1>5. PICK f : /\ f \in [0..N -> Forests] /\ f[0] = base
               /\ \A n \in 1..N : f[n] = step[<<f[n - 1], n>>]
  <2> HIDE DEF N, step, base
  <2>1. Iterations(N, Forests, base, step) # {}
    BY <1>1, <1>3, <1>4, Iterates
  <2> QED
    BY <2>1 DEF Iterations
<1> DEFINE go(n, before) == IF n = 0 THEN base
                            ELSE Join(before, first(n), team(n))
           Is(g) == g = [n \in 0..N |-> go(n, g[n - 1])]
<1>6. Is(f)
  <2>1. ASSUME NEW n \in 0..N PROVE f[n] = go(n, f[n - 1])
    <3>1. CASE n = 0
      BY <1>5, <3>1
    <3>2. CASE n # 0
      <4>1. n \in 1..N /\ n - 1 \in 0..N /\ f[n - 1] \in Forests
        BY <1>1, <1>5, <3>2
      <4> HIDE DEF N, first, team
      <4> QED
        BY <1>5, <3>2, <4>1
    <3> QED
      BY <3>1, <3>2
  <2> HIDE DEF go, N
  <2> QED
    BY <1>5, <2>1
<1>7. Parents = CHOOSE g : Is(g)
  BY DEF Parents
<1>8. Is(Parents)
  <2> HIDE DEF Is
  <2> QED
    BY <1>6, <1>7
<1>9. \A n \in 0..N : Parents[n] = go(n, Parents[n - 1])
  <2> HIDE DEF go, N
  <2> QED
    BY <1>8
<1> QED
  BY <1>1, <1>9

\* Two teams that own a common repository are in one group.
LEMMA SharersTogether ==
    ASSUME Named, \A i \in Teams : IsFiniteSet(OwnedBy(i)),
           NEW i \in Teams, NEW j \in Teams,
           OwnedBy(i) \intersect OwnedBy(j) # {}
    PROVE  TeamGroups[i] = TeamGroups[j]
<1> DEFINE N == Len(Claims)
           first(n) == FirstOwner(Claims[n][2])
           team(n) == Claims[n][1]
           good == {n \in 0..N : /\ Parents[n] \in Forests
                                 /\ \A m \in 1..n :
                                       Together(Parents[n], first(m), team(m))}
<1>1. N \in Nat
  BY ClaimsAll
<1>2. \A n \in 1..N : first(n) \in Teams /\ team(n) \in Teams
  BY ClaimsAll, OwnerOwns
<1>3. 0 \in good
  BY <1>1, ParentsAre DEF Forests, Named
<1>4. ASSUME NEW n \in 1..N, n - 1 \in good PROVE n \in good
  <2>1. PICK p : p = Parents[n - 1]
    OBVIOUS
  <2>2. p \in Forests /\ \A m \in 1..(n - 1) : Together(p, first(m), team(m))
    BY <1>4, <2>1
  <2>3. Parents[n] = Join(p, first(n), team(n))
    BY <2>1, ParentsAre
  <2> HIDE DEF N, first, team
  <2>4. /\ Parents[n] \in Forests
        /\ Together(Parents[n], first(n), team(n))
        /\ \A k, l \in Teams :
              Together(p, k, l) => Together(Parents[n], k, l)
    BY <1>2, <2>2, <2>3, JoinsGroups
  <2>5. ASSUME NEW m \in 1..n PROVE Together(Parents[n], first(m), team(m))
    <3>1. CASE m = n
      BY <2>4, <3>1
    <3>2. CASE m # n
      <4>1. m \in 1..(n - 1) /\ m \in 1..N
        BY <1>1, <3>2
      <4> QED
        BY <1>2, <2>2, <2>4, <4>1
    <3> QED
      BY <3>1, <3>2
  <2>6. n \in 0..N
    BY <1>1
  <2> QED
    BY <2>4, <2>5, <2>6
<1>5. N \in good
  <2>1. \A n \in 0..N : n \in good
    <3> HIDE DEF good, N
    <3> QED
      BY <1>1, <1>3, <1>4, UpTo
  <2> QED
    BY <1>1, <2>1
<1>6. PICK repo : repo \in OwnedBy(i) /\ repo \in OwnedBy(j)
  OBVIOUS
<1>7. ASSUME NEW k \in Teams, repo \in OwnedBy(k)
      PROVE  TeamGroups[k] = RootOf(Parents[N], FirstOwner(repo))
  <2>1. PICK n \in 1..N : Claims[n] = <<k, repo>>
    BY <1>7, ClaimsAll
  <2>2. first(n) = FirstOwner(repo) /\ team(n) = k
    BY <2>1
  <2>3. Together(Parents[N], first(n), team(n))
    BY <1>5
  <2> QED
    BY <2>2, <2>3 DEF Together, TeamGroups
<1> QED
  BY <1>6, <1>7

-----------------------------------------------------------------------------
(* The turns.  A team that was begun comes after the teams of its group.    *)
SharersGrouped ==
    \A i, j \in Teams :
        OwnedBy(i) \intersect OwnedBy(j) # {} => groups[i] = groups[j]

TurnInv ==
    /\ Named /\ SharersGrouped
    /\ DOMAIN place = Teams
    /\ \A i, j \in Teams :
          place[i] # "waiting" /\ j < i /\ groups[j] = groups[i]
          => place[j] = "over"

\* A team that is not over goes on; the others stay where they are.
LEMMA TurnKeeps ==
    ASSUME TurnInv, UNCHANGED given, NEW i \in Teams, NEW where,
           Goes(i, where), place[i] # "over",
           (place[i] # "waiting" /\ where # "waiting") \/ Turn(i)
    PROVE  TurnInv'
<1>1. Teams' = Teams /\ UNCHANGED <<scopes, groups>>
  BY DEF given, Teams
<1>2. Named' /\ SharersGrouped'
  BY <1>1 DEF TurnInv, Named, TeamCount, SharersGrouped, OwnedBy
<1>3. /\ DOMAIN place' = Teams /\ place'[i] = where
      /\ \A j \in Teams : j # i => place'[j] = place[j]
  BY DEF TurnInv, Goes
<1>4. \A j \in Teams : j < i /\ groups[j] = groups[i] => place[j] = "over"
  <2>1. CASE place[i] # "waiting"
    BY <2>1 DEF TurnInv
  <2>2. CASE Turn(i)
    <3>1. \A j \in Teams : j < i => j \in 1..(i - 1)
      BY DEF TurnInv, Named
    <3> QED
      BY <2>2, <3>1 DEF Turn, Over
  <2> QED
    BY <2>1, <2>2
<1>5. ASSUME NEW k \in Teams, NEW j \in Teams, place'[k] # "waiting", j < k,
             groups[j] = groups[k]
      PROVE  place'[j] = "over"
  <2>1. j # k /\ j \in Nat /\ k \in Nat
    BY <1>5 DEF TurnInv, Named
  <2>2. CASE k = i
    BY <1>3, <1>4, <1>5, <2>1, <2>2
  <2>3. CASE k # i
    <3>1. place[j] = "over"
      BY <1>3, <1>5, <2>3 DEF TurnInv
    <3> QED
      BY <1>3, <3>1
  <2> QED
    BY <2>2, <2>3
<1> QED
  BY <1>1, <1>2, <1>3, <1>5 DEF TurnInv

\* Each step keeps the turns.
LEMMA TurnStep == TurnInv /\ [TeamsNext]_teamVars => TurnInv'
<1> SUFFICES ASSUME TurnInv, [TeamsNext]_teamVars PROVE TurnInv'
  OBVIOUS
<1>1. CASE UNCHANGED <<given, place>>
  BY <1>1 DEF TurnInv, Named, TeamCount, Teams, SharersGrouped, OwnedBy, given
<1>2. ASSUME NEW i \in Teams, Begin(i) PROVE TurnInv'
  <2>1. Turn(i) /\ place[i] # "over" /\ UNCHANGED given
    BY <1>2 DEF Begin, Turn, Fixed
  <2>2. \E where : Goes(i, where)
    BY <1>2 DEF Begin
  <2> QED
    BY <2>1, <2>2, TurnKeeps
<1>3. ASSUME NEW i \in Teams, NEW where, Goes(i, where), UNCHANGED given,
             place[i] \notin {"waiting", "over"}, where # "waiting"
      PROVE  TurnInv'
  BY <1>3, TurnKeeps
<1>4. ASSUME NEW i \in Teams,
             SweepFails(i) \/ Report(i) \/ Done(i)
      PROVE  TurnInv'
  <2>1. place[i] \notin {"waiting", "over"} /\ UNCHANGED given
    BY <1>4 DEF SweepFails, Report, Done, Fixed
  <2>2. Goes(i, "reporting") \/ Goes(i, "ending") \/ Goes(i, "over")
    BY <1>4 DEF SweepFails, Report, Done, Goes
  <2> QED
    BY <1>3, <2>1, <2>2
<1>5. ASSUME NEW i \in Teams, NEW b \in BOOLEAN, SweepEnds(i, b) \/ Pause(i, b)
      PROVE  TurnInv'
  <2>1. place[i] \notin {"waiting", "over"} /\ UNCHANGED given
    BY <1>5 DEF SweepEnds, Pause, Fixed
  <2>2. Goes(i, "reporting") \/ Goes(i, "sending")
    BY <1>5 DEF SweepEnds, Pause
  <2> QED
    BY <1>3, <2>1, <2>2
<1>6. ASSUME NEW i \in Teams, NEW reply \in Replies, Send(i, reply)
      PROVE  TurnInv'
  <2>1. place[i] \notin {"waiting", "over"} /\ UNCHANGED given
    BY <1>6 DEF Send, Fixed
  <2>2. Goes(i, "reporting") \/ Goes(i, "pausing")
    BY <1>6 DEF Send
  <2> QED
    BY <1>3, <2>1, <2>2
<1>7. CASE StartGroup \/ Stop \/ TeamsOver \/ UNCHANGED teamVars
  BY <1>1, <1>7 DEF StartGroup, Stop, TeamsOver, teamVars
<1> QED
  BY <1>2, <1>4, <1>5, <1>6, <1>7 DEF TeamsNext

\* The groups hold the teams that own a common repository, and none has begun.
LEMMA TurnStarts == TeamsInit => TurnInv
<1> SUFFICES ASSUME TeamsInit PROVE TurnInv
  OBVIOUS
<1>1. scopes \in Scopes
  BY DEF TeamsInit
<1>2. /\ scopes \in Seq(Range(scopes))
      /\ \A i \in Teams : scopes[i] = Unresolved \/ IsFiniteSet(scopes[i])
  BY <1>1, ScopesAssumption DEF Teams
<1>3. Named
  BY <1>2 DEF Named, TeamCount, Teams
<1>4. \A i \in Teams : IsFiniteSet(OwnedBy(i))
  BY <1>2, FS_EmptySet DEF OwnedBy
<1>5. SharersGrouped
  BY <1>3, <1>4, SharersTogether DEF SharersGrouped, TeamsInit
<1> QED
  BY <1>3, <1>5 DEF TeamsInit, TurnInv

\* Two teams that own a common repository are never swept at once
\* (forEachTeam, teamGroups).
THEOREM OneAtATime == TeamsSpec => []OneWriter
<1>1. TeamsInit => TurnInv
  BY TurnStarts
<1>2. TurnInv => OneWriter
  <2> SUFFICES ASSUME TurnInv, NEW i \in Teams, NEW j \in Teams,
                      place[i] = "sweeping", place[j] = "sweeping", i # j,
                      OwnedBy(i) \intersect OwnedBy(j) # {}
               PROVE  FALSE
    BY DEF OneWriter
  <2>1. groups[i] = groups[j]
    BY DEF TurnInv, SharersGrouped
  <2>2. i < j \/ j < i
    BY DEF TurnInv, Named
  <2> QED
    BY <2>1, <2>2 DEF TurnInv
<1> QED
  BY <1>1, <1>2, TurnStep, PTL DEF TeamsSpec

-----------------------------------------------------------------------------
(* What the teams print.                                                    *)
\* What EXCEPT may be said of.
IsFcn(f) == f = [k \in DOMAIN f |-> f[k]]

Texts == {"results", "report", "report and summary"}
Lines(i) == {i} \X Texts
AllLines == Teams \X Texts

Before(v, w) == v[1] < w[1] \/ (v[1] = w[1] /\ v[2] = "results")
Ordered(s) == \A k, l \in 1..Len(s) : k < l => Before(s[k], s[l])

\* What a team printed, passed on or held.
Prints(i, text) == <<i, text>> \in Range(written) \union Range(held[i])

\* What a team writes before its report is its results.
OnlyResults(i) == \A text \in Texts : Prints(i, text) => text = "results"

OutputInv ==
    /\ written \in Seq(AllLines) /\ Ordered(written)
    /\ IsFcn(held) /\ DOMAIN held = Teams
    /\ \A i \in Teams : held[i] \in Seq(Lines(i)) /\ Ordered(held[i])
    /\ turn \in 1..(TeamCount + 1) /\ finished = Over /\ turn \notin finished
    /\ \A i \in Teams : i < turn => i \in finished
    /\ \A i \in Teams : i <= turn => held[i] = <<>>
    /\ \A w \in Range(written) : w[1] <= turn

Due(i) ==
    /\ Swept(i) /\ outcome[i].channel = "id"
    /\ outcome[i].stopped \/ outcome[i].said = "changed"

Fields == {"said", "channel", "stopped", "err", "posted", "unposted"}
Printed == {"ending", "over"}
Begun == {"sending", "pausing", "reporting", "ending", "over"}

\* What a team printed, by where it is.
SaidOf(i) ==
    /\ IsFcn(outcome[i]) /\ DOMAIN outcome[i] = Fields
    /\ place[i] \in Printed =>
          Prints(i, "report") \/ Prints(i, "report and summary")
    /\ place[i] \notin Printed => OnlyResults(i)
    /\ place[i] \in Begun /\ Swept(i) => Prints(i, "results")
    /\ place[i] = "reporting" /\ Due(i) => delivered[i] \/ outcome[i].unposted
    /\ place[i] \in Printed /\ Due(i) =>
          delivered[i] \/ Prints(i, "report and summary")

SaidInv ==
    /\ IsFcn(outcome) /\ DOMAIN outcome = Teams
    /\ IsFcn(delivered) /\ DOMAIN delivered = Teams
    /\ \A i \in Teams : SaidOf(i)

-----------------------------------------------------------------------------
\* Of two lines in order, one list that ends before another begins.
LEMMA ConcatOrdered ==
    ASSUME NEW T, NEW s \in Seq(T), NEW t \in Seq(T), Ordered(s), Ordered(t),
           \A v \in Range(s), w \in Range(t) : Before(v, w)
    PROVE  Ordered(s \o t)
<1>1. /\ Len(s) \in Nat /\ Len(t) \in Nat /\ Len(s \o t) = Len(s) + Len(t)
      /\ \A k \in 1..Len(s \o t) :
            IF k \in 1..Len(s) THEN (s \o t)[k] = s[k]
            ELSE k - Len(s) \in 1..Len(t) /\ (s \o t)[k] = t[k - Len(s)]
  OBVIOUS
<1>2. /\ \A k \in 1..Len(s) : s[k] \in Range(s)
      /\ \A k \in 1..Len(t) : t[k] \in Range(t)
  BY DEF Range
<1> SUFFICES ASSUME NEW k \in 1..Len(s \o t), NEW l \in 1..Len(s \o t), k < l
             PROVE  Before((s \o t)[k], (s \o t)[l])
  BY DEF Ordered
<1>3. CASE l \in 1..Len(s)
  <2>1. k \in 1..Len(s)
    BY <1>1, <1>3
  <2> QED
    BY <1>1, <1>3, <2>1 DEF Ordered
<1>4. CASE l \notin 1..Len(s) /\ k \in 1..Len(s)
  BY <1>1, <1>2, <1>4
<1>5. CASE l \notin 1..Len(s) /\ k \notin 1..Len(s)
  <2>1. k - Len(s) < l - Len(s)
    BY <1>1
  <2> QED
    BY <1>1, <1>5, <2>1 DEF Ordered
<1> QED
  BY <1>3, <1>4, <1>5

\* Two lists end to end hold what either holds.
LEMMA ConcatRange ==
    ASSUME NEW T, NEW s \in Seq(T), NEW t \in Seq(T)
    PROVE  s \o t \in Seq(T) /\ Range(s \o t) = Range(s) \union Range(t)
<1>1. /\ Len(s) \in Nat /\ Len(t) \in Nat /\ Len(s \o t) = Len(s) + Len(t)
      /\ DOMAIN s = 1..Len(s) /\ DOMAIN t = 1..Len(t)
      /\ DOMAIN (s \o t) = 1..(Len(s) + Len(t)) /\ s \o t \in Seq(T)
      /\ \A k \in 1..Len(s) : (s \o t)[k] = s[k]
      /\ \A k \in 1..Len(t) : (s \o t)[Len(s) + k] = t[k]
      /\ \A k \in 1..(Len(s) + Len(t)) :
            k \in 1..Len(s) \/ \E j \in 1..Len(t) : k = Len(s) + j
  <2>1. \A k \in 1..(Len(s) + Len(t)) : k \notin 1..Len(s) =>
           k - Len(s) \in 1..Len(t) /\ k = Len(s) + (k - Len(s))
    OBVIOUS
  <2> QED
    BY <2>1
<1>2. ASSUME NEW x \in Range(s \o t) PROVE x \in Range(s) \union Range(t)
  <2>1. PICK k \in 1..(Len(s) + Len(t)) : x = (s \o t)[k]
    BY <1>1 DEF Range
  <2>2. CASE k \in 1..Len(s)
    BY <1>1, <2>1, <2>2 DEF Range
  <2>3. ASSUME NEW j \in 1..Len(t), k = Len(s) + j PROVE x \in Range(t)
    <3>1. x = t[j]
      BY <1>1, <2>1, <2>3
    <3> QED
      BY <1>1, <3>1 DEF Range
  <2> QED
    BY <1>1, <2>2, <2>3
<1>3. ASSUME NEW k \in 1..Len(s) PROVE s[k] \in Range(s \o t)
  <2>1. k \in DOMAIN (s \o t)
    BY <1>1
  <2> QED
    BY <1>1, <2>1 DEF Range
<1>4. ASSUME NEW k \in 1..Len(t) PROVE t[k] \in Range(s \o t)
  <2>1. Len(s) + k \in DOMAIN (s \o t)
    BY <1>1
  <2> QED
    BY <1>1, <2>1 DEF Range
<1>5. Range(s) \union Range(t) \subseteq Range(s \o t)
  BY <1>1, <1>3, <1>4 DEF Range
<1> QED
  BY <1>1, <1>2, <1>5

\* One more line is a list of one, put at the end.
LEMMA AppendIsConcat ==
    ASSUME NEW T, NEW s \in Seq(T), NEW x \in T
    PROVE  Append(s, x) = s \o <<x>> /\ <<x>> \in Seq(T)
OBVIOUS

\* A list of one line is in order.
LEMMA OneIs == ASSUME NEW x PROVE Range(<<x>>) = {x} /\ Ordered(<<x>>)
<1>1. Range(<<x>>) = {x}
  BY DEF Range
<1>2. Ordered(<<x>>)
  BY DEF Ordered
<1> QED
  BY <1>1, <1>2

\* One more line, which may come after all there are.
LEMMA AppendOrdered ==
    ASSUME NEW T, NEW s \in Seq(T), NEW x \in T, Ordered(s),
           \A v \in Range(s) : Before(v, x)
    PROVE  /\ Append(s, x) \in Seq(T) /\ Ordered(Append(s, x))
           /\ Range(Append(s, x)) = Range(s) \union {x}
<1>1. PICK t : t = <<x>>
  OBVIOUS
<1>2. Append(s, x) = s \o t /\ t \in Seq(T)
  BY <1>1, AppendIsConcat
<1>3. Range(t) = {x} /\ Ordered(t)
  BY <1>1, OneIs
<1>4. \A v \in Range(s), w \in Range(t) : Before(v, w)
  BY <1>3
<1>5. Ordered(s \o t)
  BY <1>2, <1>3, <1>4, ConcatOrdered, Zenon
<1>6. s \o t \in Seq(T) /\ Range(s \o t) = Range(s) \union Range(t)
  BY <1>2, ConcatRange
<1> QED
  BY <1>2, <1>3, <1>5, <1>6

\* What is put end to end is put there one after the other.
Batches(n, T) == [1..n -> Seq(T)]
EndToEnd(T, n, seqs, all) ==
    \E f \in [0..n -> Seq(T)] :
       /\ f[0] = <<>> /\ f[n] = all
       /\ \A i \in 1..n : f[i] = f[i - 1] \o seqs[i]

\* FlattenSeq puts each list after those before it.
LEMMA Flattens ==
    ASSUME NEW T, NEW n \in Nat, NEW seqs \in Batches(n, T)
    PROVE  EndToEnd(T, n, seqs, FlattenSeq(seqs))
<1> USE DEF Batches
<1> DEFINE step == [x \in Seq(T) \X (1..n) |-> x[1] \o seqs[x[2]]]
<1>1. step \in [Seq(T) \X (1..n) -> Seq(T)]
  <2>1. \A s \in Seq(T) : \A i \in 1..n : s \o seqs[i] \in Seq(T)
    OBVIOUS
  <2> QED
    BY <2>1
<1>2. PICK f \in [0..n -> Seq(T)] :
         f[0] = <<>> /\ \A i \in 1..n : f[i] = step[<<f[i - 1], i>>]
  <2>1. Iterations(n, Seq(T), <<>>, step) # {}
    <3>1. <<>> \in Seq(T)
      OBVIOUS
    <3> HIDE DEF step
    <3> QED
      BY <1>1, <3>1, Iterates
  <2> QED
    BY <2>1 DEF Iterations
<1>3. ASSUME NEW i \in 1..n
      PROVE  f[i] = f[i - 1] \o seqs[i] /\ f[i - 1] \in Seq(T)
  <2>1. i - 1 \in 0..n
    OBVIOUS
  <2> QED
    BY <1>2, <2>1
<1>4. seqs \in Seq(Seq(T)) /\ Len(seqs) = n
  OBVIOUS
<1>6. n # 0 => f[1] = seqs[1]
  <2> SUFFICES ASSUME n # 0 PROVE f[1] = seqs[1]
    OBVIOUS
  <2>1. 1 \in 1..n /\ 1 - 1 = 0
    OBVIOUS
  <2>2. f[1] = f[0] \o seqs[1] /\ seqs[1] \in Seq(T)
    BY <1>3, <2>1
  <2>3. \A s \in Seq(T) : <<>> \o s = s
    OBVIOUS
  <2> QED
    BY <1>2, <2>2, <2>3
<1>5. f[n] = FlattenSeq(seqs)
  <2>1. CASE n = 0
    <3>1. seqs = <<>>
      BY <2>1
    <3> QED
      BY <1>2, <1>4, <2>1, <3>1 DEF FlattenSeq
  <2>2. CASE n # 0
    <3> DEFINE Is(g) == g = [i \in 1..n |-> IF i = 1 THEN seqs[i]
                                            ELSE g[i - 1] \o seqs[i]]
    <3>1. FlattenSeq(seqs) = (CHOOSE g : Is(g))[n]
      BY <1>4, <2>2 DEF FlattenSeq
    <3>2. \E g : Is(g)
      <4> DEFINE g == [i \in 1..n |-> f[i]]
      <4>1. ASSUME NEW i \in 1..n
            PROVE  g[i] = IF i = 1 THEN seqs[i] ELSE g[i - 1] \o seqs[i]
        <5>1. CASE i = 1
          BY <1>6, <2>2, <5>1
        <5>2. CASE i # 1
          <6>1. i - 1 \in 1..n
            BY <5>2
          <6> QED
            BY <1>3, <5>2, <6>1
        <5> QED
          BY <5>1, <5>2
      <4>2. Is(g)
        BY <4>1
      <4> QED
        BY <4>2
    <3> DEFINE c == CHOOSE g : Is(g)
    <3>3. Is(c)
      <4> HIDE DEF Is
      <4> QED
        BY <3>2
    <3>4. \A i \in 1..n : c[i] = IF i = 1 THEN seqs[i]
                                 ELSE c[i - 1] \o seqs[i]
      <4> HIDE DEF c
      <4> QED
        BY <3>3
    <3> HIDE DEF c, Is
    <3> DEFINE good == {i \in 0..n : i > 0 => c[i] = f[i]}
    <3>5. 0 \in good
      OBVIOUS
    <3>6. ASSUME NEW i \in 1..n, i - 1 \in good PROVE i \in good
      <4>1. CASE i = 1
        BY <1>6, <2>2, <3>4, <4>1
      <4>2. CASE i # 1
        <5>1. c[i - 1] = f[i - 1]
          BY <3>6, <4>2
        <5>2. c[i] = f[i]
          BY <1>3, <3>4, <4>2, <5>1
        <5> QED
          BY <5>2
      <4> QED
        BY <4>1, <4>2
    <3>7. n \in good
      <4>1. \A i \in 0..n : i \in good
        <5> HIDE DEF good
        <5> QED
          BY <3>5, <3>6, UpTo
      <4> QED
        BY <4>1
    <3> QED
      BY <2>2, <3>1, <3>7 DEF c
  <2> QED
    BY <2>1, <2>2
<1> QED
  BY <1>2, <1>3, <1>5 DEF EndToEnd

AddsLine(i, text) ==
    \A j \in Teams : \A t :
       Prints(j, t)' <=> Prints(j, t) \/ (j = i /\ t = text)

\* A line that a team prints keeps the order, passed on or held (Write).
LEMMA WriteKeeps ==
    ASSUME Named, OutputInv, UNCHANGED scopes, NEW i \in Teams,
           NEW text \in Texts, Write(i, text), place[i] # "over",
           Over' = Over, OnlyResults(i)
    PROVE  OutputInv' /\ AddsLine(i, text)
<1> DEFINE line == <<i, text>>
<1>1. Teams' = Teams /\ TeamCount' = TeamCount /\ AllLines' = AllLines
  BY DEF Teams, TeamCount, AllLines
<1>2. i \in Nat /\ turn \in Nat /\ turn <= i /\ UNCHANGED <<turn, finished>>
  <2>1. i \notin finished
    BY DEF OutputInv, Over
  <2> QED
    BY <2>1 DEF OutputInv, Named, Write
<1>3. line \in AllLines /\ line \in Lines(i) /\ line[1] = i
  BY DEF AllLines, Lines
<1> HIDE DEF line
<1>4. ASSUME NEW v \in AllLines, v[1] <= i,
             v \in Range(written) \union Range(held[i])
      PROVE  Before(v, line)
  <2>1. v = <<v[1], v[2]>> /\ v[1] \in Nat /\ v[2] \in Texts
    BY DEF AllLines, Named
  <2>2. CASE v[1] = i
    <3>1. Prints(i, v[2])
      BY <1>4, <2>1, <2>2 DEF Prints
    <3> QED
      BY <1>3, <2>1, <2>2, <3>1 DEF OnlyResults, Before
  <2>3. CASE v[1] # i
    BY <1>2, <1>3, <1>4, <2>1, <2>3 DEF Before
  <2> QED
    BY <2>2, <2>3
<1>5. CASE turn = i
  <2>1. written' = Append(written, line) /\ UNCHANGED held
    BY <1>5 DEF Write, line
  <2>2. written \in Seq(AllLines) /\ Ordered(written)
        /\ \A v \in Range(written) : v \in AllLines /\ v[1] <= i
    BY <1>5 DEF OutputInv, Range
  <2>3. \A v \in Range(written) : Before(v, line)
    BY <1>4, <2>2
  <2>4. Ordered(written')
    BY <1>3, <2>1, <2>2, <2>3, AppendOrdered
  <2>5. written' \in Seq(AllLines) /\ Range(written') = Range(written) \union {line}
    BY <1>3, <2>1, <2>2, <2>3, AppendOrdered
  <2>6. AddsLine(i, text)
    BY <2>1, <2>5 DEF AddsLine, Prints, line
  <2>7. \A w \in Range(written') : w[1] <= turn
    BY <1>2, <1>3, <1>5, <2>2, <2>5
  <2> QED
    BY <1>1, <1>2, <2>1, <2>4, <2>5, <2>6, <2>7 DEF OutputInv, Lines, IsFcn
<1>6. CASE turn # i
  <2>1. held' = [held EXCEPT ![i] = Append(@, line)] /\ UNCHANGED written
    BY <1>6 DEF Write, line
  <2>2. /\ IsFcn(held') /\ DOMAIN held' = Teams
        /\ held'[i] = Append(held[i], line)
        /\ \A j \in Teams : j # i => held'[j] = held[j]
    BY <2>1 DEF OutputInv, IsFcn
  <2>3. held[i] \in Seq(Lines(i)) /\ Ordered(held[i])
        /\ \A v \in Range(held[i]) : v \in AllLines /\ v[1] <= i
    <3>1. held[i] \in Seq(Lines(i)) /\ Ordered(held[i])
      BY DEF OutputInv
    <3>2. \A v \in Lines(i) : v \in AllLines /\ v[1] <= i
      BY <1>2 DEF Lines, AllLines
    <3> QED
      BY <3>1, <3>2 DEF Range
  <2>4. \A v \in Range(held[i]) : Before(v, line)
    BY <1>4, <2>3
  <2>5. Ordered(held'[i])
    BY <1>3, <2>2, <2>3, <2>4, AppendOrdered
  <2>6. held'[i] \in Seq(Lines(i)) /\ Range(held'[i]) = Range(held[i]) \union {line}
    BY <1>3, <2>2, <2>3, <2>4, AppendOrdered
  <2>7. AddsLine(i, text)
    BY <2>1, <2>2, <2>6 DEF AddsLine, Prints, line
  <2>8. \A j \in Teams : held'[j] \in Seq(Lines(j)) /\ Ordered(held'[j])
    BY <2>2, <2>5, <2>6 DEF OutputInv
  <2>9. \A j \in Teams : j <= turn => held'[j] = <<>>
    <3>1. \A j \in Teams : j <= turn => j # i
      BY <1>2, <1>6
    <3> QED
      BY <2>2, <3>1 DEF OutputInv
  <2> QED
    BY <1>1, <1>2, <2>1, <2>2, <2>7, <2>8, <2>9 DEF OutputInv, Lines
<1> QED
  BY <1>5, <1>6

SamePrints == \A j \in Teams : \A t : Prints(j, t)' <=> Prints(j, t)

\* The turn passes on to the first team that is not done.
PassesTo(done, from, to) ==
    /\ to \in from..(TeamCount + 1) /\ to \notin done
    /\ \A j \in Teams : j < to => j \in done
    /\ Flushed(to) \in from..TeamCount /\ Flushed(to) <= to
    /\ \A j \in Teams : j <= to => j <= Flushed(to)

FirstOpen(done, from) ==
    Min(((from .. TeamCount) \ done) \union {TeamCount + 1})

\* All before the first team that is not done are done.
LEMMA TurnPasses ==
    ASSUME Named, NEW done \in SUBSET Teams, NEW from \in 1..TeamCount,
           \A j \in Teams : j < from => j \in done
    PROVE  PassesTo(done, from, FirstOpen(done, from))
<1>0. PICK to : to = FirstOpen(done, from)
  OBVIOUS
<1> DEFINE S == ((from .. TeamCount) \ done) \union {TeamCount + 1}
<1>1. TeamCount \in Nat /\ Teams = 1..TeamCount
  BY DEF Named
<1>2. S \in SUBSET Nat /\ S # {}
  BY <1>1
<1>3. to \in S /\ \A x \in S : to <= x
  <2>1. \E x \in S : \A y \in S : x <= y
    <3> HIDE DEF S
    <3> QED
      BY <1>2, LeastMember
  <2>2. to = CHOOSE x \in S : \A y \in S : x <= y
    BY <1>0 DEF Min, FirstOpen
  <2> HIDE DEF S
  <2> QED
    BY <2>1, <2>2
<1>4. to \in from..(TeamCount + 1) /\ to \notin done
  BY <1>1, <1>3
<1>5. ASSUME NEW j \in Teams, j < to PROVE j \in done
  <2>1. j \in Nat /\ to \in Nat
    BY <1>1, <1>4
  <2>2. j \notin S
    <3> HIDE DEF S
    <3> QED
      BY <1>3, <1>5, <2>1
  <2> QED
    BY <1>1, <2>1, <2>2
<1>6. Flushed(to) = IF to <= TeamCount THEN to ELSE TeamCount
  <2> DEFINE P == {to, TeamCount}
  <2>1. to \in Nat
    BY <1>1, <1>4
  <2>2. \E x \in P : \A y \in P : x <= y
    BY <1>1, <2>1
  <2>3. Flushed(to) = CHOOSE x \in P : \A y \in P : x <= y
    BY DEF Flushed, Min, TeamCount
  <2>4. Flushed(to) \in P /\ \A y \in P : Flushed(to) <= y
    <3> HIDE DEF P
    <3> QED
      BY <2>2, <2>3
  <2> QED
    BY <1>1, <2>1, <2>4
<1>7. /\ Flushed(to) \in from..TeamCount /\ Flushed(to) <= to
      /\ \A j \in Teams : j <= to => j <= Flushed(to)
  <2>1. PICK last : last = Flushed(to)
    OBVIOUS
  <2>2. last = IF to <= TeamCount THEN to ELSE TeamCount
    BY <1>6, <2>1
  <2>3. /\ to \in Nat /\ from \in Nat /\ from <= to /\ to <= TeamCount + 1
        /\ from <= TeamCount
    BY <1>1, <1>4
  <2>4. last \in Nat /\ from <= last /\ last <= TeamCount /\ last <= to
    BY <1>1, <2>2, <2>3
  <2>5. \A j \in Teams : j <= to => j <= last
    BY <1>1, <2>2, <2>3
  <2> QED
    BY <1>1, <2>1, <2>3, <2>4, <2>5
<1> QED
  BY <1>0, <1>4, <1>5, <1>7 DEF PassesTo

\* What several teams held, put end to end: their lines, team by team.
LEMMA HeldInOrder ==
    ASSUME Named, OutputInv, NEW n \in Nat, turn + n <= TeamCount,
           NEW flat,
           flat = FlattenSeq([k \in 1..n |-> held[turn + k]])
    PROVE  /\ flat \in Seq(AllLines) /\ Ordered(flat)
           /\ \A w : w \in Range(flat) <=>
                 \E m \in 1..n : w \in Range(held[turn + m])
<1> DEFINE seqs == [k \in 1..n |-> held[turn + k]]
<1>1. /\ turn \in Nat /\ TeamCount \in Nat /\ Teams = 1..TeamCount
  BY DEF Named, OutputInv
<1>2. ASSUME NEW m \in 1..n
      PROVE  /\ turn + m \in Teams /\ seqs[m] = held[turn + m]
             /\ seqs[m] \in Seq(AllLines) /\ Ordered(seqs[m])
             /\ \A w \in Range(seqs[m]) : w[1] = turn + m
  <2>1. turn + m \in Teams
    BY <1>1
  <2>2. held[turn + m] \in Seq(Lines(turn + m)) /\ Ordered(held[turn + m])
    BY <2>1 DEF OutputInv
  <2>3. Lines(turn + m) \subseteq AllLines
    BY <2>1 DEF Lines, AllLines
  <2>4. \A s \in Seq(Lines(turn + m)) : s \in Seq(AllLines)
    BY <2>3
  <2>5. \A w \in Range(held[turn + m]) : w[1] = turn + m
    BY <2>2 DEF Range, Lines
  <2> QED
    BY <2>1, <2>2, <2>4, <2>5
<1>3. seqs \in [1..n -> Seq(AllLines)]
  BY <1>2
<1>4. PICK f \in [0..n -> Seq(AllLines)] :
         /\ f[0] = <<>> /\ f[n] = FlattenSeq(seqs)
         /\ \A i \in 1..n : f[i] = f[i - 1] \o seqs[i]
  <2>1. PICK sq : sq = seqs
    OBVIOUS
  <2>2. PICK T : T = AllLines
    OBVIOUS
  <2>3. sq \in Batches(n, T)
    BY <1>3, <2>1, <2>2 DEF Batches
  <2>4. EndToEnd(T, n, sq, FlattenSeq(sq))
    BY <2>3, Flattens, Zenon
  <2> QED
    BY <2>1, <2>2, <2>4 DEF EndToEnd
<1>5. flat = f[n]
  BY <1>4
<1> HIDE DEF seqs
<1> DEFINE Is(k) == /\ Ordered(f[k])
                    /\ \A w : w \in Range(f[k]) <=>
                          \E m \in 1..k : w \in Range(held[turn + m])
           good == {k \in 0..n : Is(k)}
<1>6. 0 \in good
  BY <1>4 DEF Ordered, Range
<1>7. ASSUME NEW i \in 1..n, i - 1 \in good PROVE i \in good
  <2>1. i \in 0..n /\ i - 1 \in 0..n
    OBVIOUS
  <2>2. PICK s : s = f[i - 1]
    OBVIOUS
  <2>3. PICK t : t = seqs[i]
    OBVIOUS
  <2>4. s \in Seq(AllLines) /\ t \in Seq(AllLines) /\ f[i] = s \o t
    BY <1>2, <1>4, <2>1, <2>2, <2>3
  <2>5. /\ Ordered(s)
        /\ \A w : w \in Range(s) <=>
              \E m \in 1..(i - 1) : w \in Range(held[turn + m])
    BY <1>7, <2>2
  <2>6. Ordered(t) /\ Range(t) = Range(held[turn + i])
        /\ \A w \in Range(t) : w[1] = turn + i
    BY <1>2, <2>3
  <2>7. \A v \in Range(s) : v[1] < turn + i
    <3>1. ASSUME NEW v \in Range(s) PROVE v[1] < turn + i
      <4>1. PICK m \in 1..(i - 1) : v \in Range(held[turn + m])
        BY <2>5
      <4>2. m \in 1..n
        OBVIOUS
      <4>3. v[1] = turn + m
        BY <1>2, <4>1, <4>2
      <4> QED
        BY <1>1, <4>3
    <3> QED
      BY <3>1
  <2>8. \A v \in Range(s), w \in Range(t) : Before(v, w)
    BY <2>6, <2>7 DEF Before
  <2>9. Ordered(s \o t)
    BY <2>4, <2>5, <2>6, <2>8, ConcatOrdered, Zenon
  <2>10. Range(s \o t) = Range(s) \union Range(t)
    BY <2>4, ConcatRange
  <2>11. ASSUME NEW w
         PROVE  w \in Range(f[i]) <=>
                   \E m \in 1..i : w \in Range(held[turn + m])
    <3>1. w \in Range(f[i]) <=> w \in Range(s) \/ w \in Range(held[turn + i])
      BY <2>4, <2>6, <2>10
    <3>2. (\E m \in 1..i : w \in Range(held[turn + m])) <=>
             \/ \E m \in 1..(i - 1) : w \in Range(held[turn + m])
             \/ w \in Range(held[turn + i])
      <4> DEFINE P(m) == w \in Range(held[turn + m])
      <4> HIDE DEF P
      <4>1. (\E m \in 1..i : P(m)) <=> (\E m \in 1..(i - 1) : P(m)) \/ P(i)
        <5>1. \A m \in 1..i : m = i \/ m \in 1..(i - 1)
          OBVIOUS
        <5>2. i \in 1..i /\ \A m \in 1..(i - 1) : m \in 1..i
          OBVIOUS
        <5> QED
          BY <5>1, <5>2, Zenon
      <4> QED
        BY <4>1 DEF P
    <3> QED
      BY <2>5, <3>1, <3>2, Zenon
  <2>12. Ordered(f[i])
    BY <2>4, <2>9
  <2> HIDE DEF Is
  <2>13. Is(i)
    BY <2>11, <2>12 DEF Is
  <2> QED
    BY <2>1, <2>13
<1>8. Is(n)
  <2>1. \A i \in 0..n : i \in good
    <3> HIDE DEF good
    <3> QED
      BY <1>6, <1>7, UpTo
  <2> HIDE DEF Is
  <2> QED
    BY <2>1
<1>9. f[n] \in Seq(AllLines)
  BY <1>4
<1> QED
  BY <1>5, <1>8, <1>9

\* The end of a team passes on what was held, and neither loses nor adds
\* a line (Done).
LEMMA DoneKeeps ==
    ASSUME Named, OutputInv, DOMAIN place = Teams, NEW i \in Teams, Done(i)
    PROVE  OutputInv' /\ SamePrints
<1> DEFINE N == TeamCount
           last == Flushed(turn')
           n == last - turn
           flat == FlattenSeq([k \in 1..n |-> held[turn + k]])
<1>1. UNCHANGED scopes /\ Teams' = Teams /\ TeamCount' = N /\ AllLines' = AllLines
  BY DEF Done, given, Teams, TeamCount, AllLines
<1>2. N \in Nat /\ Teams = 1..N /\ turn \in Nat
  BY DEF Named, OutputInv
<1>3. i \notin finished
  BY DEF OutputInv, Over, Done
<1>4. turn \in 1..N /\ turn <= i
  BY <1>2, <1>3 DEF OutputInv
<1>5. finished' \in SUBSET Teams /\ Over' = finished'
  <2>1. finished' = finished \union {i} /\ finished = Over
    BY DEF Done, OutputInv
  <2>2. \A j \in Teams : place'[j] = IF j = i THEN "over" ELSE place[j]
    BY DEF Done
  <2> QED
    BY <1>1, <2>1, <2>2 DEF Over
<1>6. \A j \in Teams : j < turn => j \in finished'
  BY DEF Done, OutputInv
<1>7. turn' = Min(((turn .. N) \ finished') \union {N + 1})
  BY DEF Done, TeamCount
<1>8. /\ turn' \in turn..(N + 1) /\ turn' \notin finished'
      /\ \A j \in Teams : j < turn' => j \in finished'
      /\ last \in turn..N /\ last <= turn'
      /\ \A j \in Teams : j <= turn' => j <= last
  <2> HIDE DEF N
  <2>1. PICK to : to = turn'
    OBVIOUS
  <2>2. PICK done : done = finished'
    OBVIOUS
  <2>3. done \in SUBSET Teams /\ \A j \in Teams : j < turn => j \in done
    BY <1>5, <1>6, <2>2
  <2>4. PICK from : from = turn
    OBVIOUS
  <2>5. from \in 1..TeamCount /\ \A j \in Teams : j < from => j \in done
    BY <1>4, <2>3, <2>4 DEF N
  <2>6. to = FirstOpen(done, from)
    BY <1>7, <2>1, <2>2, <2>4 DEF N, FirstOpen
  <2>7. PassesTo(done, from, to)
    BY <2>3, <2>5, <2>6, TurnPasses, Zenon
  <2> QED
    BY <2>1, <2>2, <2>4, <2>7 DEF N, PassesTo
<1>9. /\ written' = written \o flat
      /\ held' = [k \in Teams |-> IF k \in (turn + 1)..last THEN <<>>
                                  ELSE held[k]]
  BY DEF Done
<1>10. PICK new : new = flat
  OBVIOUS
<1>11. PICK upto : upto = last
  OBVIOUS
<1>12. n \in Nat /\ turn + n <= TeamCount /\ upto = turn + n
  BY <1>2, <1>8, <1>11
<1>13. /\ new \in Seq(AllLines) /\ Ordered(new)
       /\ \A w : w \in Range(new) <=>
             \E m \in 1..n : w \in Range(held[turn + m])
  <2> HIDE DEF n
  <2> QED
    BY <1>10, <1>12, HeldInOrder
<1>14. \A w : w \in Range(new) <=>
          \E j \in (turn + 1)..upto : w \in Range(held[j])
  <2>1. ASSUME NEW w, w \in Range(new)
        PROVE  \E j \in (turn + 1)..upto : w \in Range(held[j])
    <3>1. PICK m \in 1..n : w \in Range(held[turn + m])
      BY <1>13, <2>1
    <3> HIDE DEF n
    <3>2. turn + m \in (turn + 1)..upto
      BY <1>2, <1>12
    <3> QED
      BY <3>1, <3>2
  <2>2. ASSUME NEW w, NEW j \in (turn + 1)..upto, w \in Range(held[j])
        PROVE  w \in Range(new)
    <3> HIDE DEF n
    <3>1. j - turn \in 1..n /\ turn + (j - turn) = j
      BY <1>2, <1>12
    <3> QED
      BY <1>13, <2>2, <3>1
  <2> QED
    BY <2>1, <2>2
<1> HIDE DEF n, last, flat
<1>15. written \in Seq(AllLines) /\ Ordered(written)
       /\ written' = written \o new
  BY <1>9, <1>10 DEF OutputInv
<1>16. ASSUME NEW j \in Teams PROVE
          \A w \in Range(held[j]) : w[1] = j
  <2>1. held[j] \in Seq(Lines(j))
    BY DEF OutputInv
  <2>2. \A w \in Lines(j) : w[1] = j
    BY DEF Lines
  <2> QED
    BY <2>1, <2>2 DEF Range
<1>17. \A w \in Range(new) : w[1] \in (turn + 1)..upto
  BY <1>2, <1>12, <1>14, <1>16
<1>18. \A v \in Range(written), w \in Range(new) : Before(v, w)
  <2>1. \A v \in Range(written) : v[1] <= turn /\ v[1] \in Nat
    BY <1>2 DEF OutputInv, Range, AllLines
  <2> QED
    BY <1>2, <1>17, <2>1 DEF Before
<1>19. written' \in Seq(AllLines) /\ Ordered(written')
  BY <1>13, <1>15, <1>18, ConcatOrdered, ConcatRange
<1>20. Range(written') = Range(written) \union Range(new)
  BY <1>13, <1>15, ConcatRange
<1>21. /\ IsFcn(held') /\ DOMAIN held' = Teams
       /\ \A j \in Teams : held'[j] = IF j \in (turn + 1)..upto THEN <<>>
                                      ELSE held[j]
  BY <1>9, <1>11 DEF IsFcn
<1>22. ASSUME NEW j \in Teams PROVE held'[j] \in Seq(Lines(j)) /\ Ordered(held'[j])
  <2>1. <<>> \in Seq(Lines(j)) /\ Ordered(<<>>)
    BY DEF Ordered
  <2> QED
    BY <1>21, <2>1 DEF OutputInv
<1>23. ASSUME NEW j \in Teams, j <= turn' PROVE held'[j] = <<>>
  <2>1. j <= upto /\ j \in Nat
    BY <1>2, <1>8, <1>11, <1>23
  <2>2. CASE j \in (turn + 1)..upto
    BY <1>21, <2>2
  <2>3. CASE j \notin (turn + 1)..upto
    <3>1. j <= turn
      BY <1>2, <1>12, <2>1, <2>3
    <3> QED
      BY <1>21, <2>3, <3>1 DEF OutputInv
  <2> QED
    BY <2>2, <2>3
<1>24. \A w \in Range(written') : w[1] <= turn'
  <2>1. \A w \in Range(written) : w[1] <= turn /\ w[1] \in Nat
    BY <1>2 DEF OutputInv, Range, AllLines
  <2> QED
    BY <1>2, <1>8, <1>11, <1>17, <1>20, <2>1
<1>25. OutputInv'
  <2>1. turn' \in 1..(TeamCount' + 1)
    BY <1>1, <1>2, <1>4, <1>8
  <2> QED
    BY <1>1, <1>5, <1>8, <1>19, <1>21, <1>22, <1>23, <1>24, <2>1
    DEF OutputInv, Lines
<1>26. ASSUME NEW j \in Teams, NEW t PROVE Prints(j, t)' <=> Prints(j, t)
  <2>1. PICK w : w = <<j, t>>
    OBVIOUS
  <2>2. w[1] = j
    BY <2>1
  <2>3. Prints(j, t)' <=> \/ w \in Range(written) \/ w \in Range(new)
                          \/ w \in Range(held'[j])
    BY <1>20, <2>1 DEF Prints
  <2>4. Prints(j, t) <=> w \in Range(written) \/ w \in Range(held[j])
    BY <2>1 DEF Prints
  <2>5. CASE j \in (turn + 1)..upto
    <3>1. Range(held'[j]) = {}
      BY <1>21, <2>5 DEF Range
    <3>2. w \in Range(new) <=> w \in Range(held[j])
      <4>1. ASSUME NEW k \in (turn + 1)..upto, w \in Range(held[k]) PROVE k = j
        <5>1. k \in Teams
          BY <1>2, <1>12
        <5> QED
          BY <1>16, <2>2, <4>1, <5>1
      <4> QED
        BY <1>14, <2>5, <4>1
    <3> QED
      BY <2>3, <2>4, <3>1, <3>2
  <2>6. CASE j \notin (turn + 1)..upto
    <3>1. w \notin Range(new)
      BY <1>17, <2>2, <2>6
    <3> QED
      BY <1>21, <2>3, <2>4, <2>6, <3>1
  <2> QED
    BY <2>5, <2>6
<1> QED
  BY <1>25, <1>26 DEF SamePrints

ReportInv == TurnInv /\ OutputInv /\ SaidInv

\* What a step of one team leaves of the others.
LEMMA OthersSaid ==
    ASSUME SaidInv, Teams' = Teams, NEW i \in Teams,
           IsFcn(outcome'), DOMAIN outcome' = Teams,
           IsFcn(delivered'), DOMAIN delivered' = Teams,
           \A j \in Teams : j # i => /\ place'[j] = place[j]
                                     /\ outcome'[j] = outcome[j]
                                     /\ delivered'[j] = delivered[j],
           \A j \in Teams : j # i => \A t : Prints(j, t)' <=> Prints(j, t),
           SaidOf(i)'
    PROVE  SaidInv'
<1>1. ASSUME NEW j \in Teams, j # i PROVE SaidOf(j)'
  <2>1. SaidOf(j)
    BY DEF SaidInv
  <2>2. /\ place'[j] = place[j] /\ outcome'[j] = outcome[j]
        /\ delivered'[j] = delivered[j]
        /\ \A t : Prints(j, t)' <=> Prints(j, t)
    BY <1>1
  <2>3. (Swept(j)' <=> Swept(j)) /\ (Due(j)' <=> Due(j))
        /\ (OnlyResults(j)' <=> OnlyResults(j))
    BY <2>2 DEF Swept, Due, OnlyResults
  <2> QED
    BY <2>1, <2>2, <2>3 DEF SaidOf
<1> QED
  BY <1>1 DEF SaidInv

\* A step that prints nothing leaves the output as it is.
LEMMA QuietKeeps ==
    ASSUME Named, OutputInv, UNCHANGED <<scopes, output>>, Over' = Over
    PROVE  OutputInv' /\ SamePrints
<1>1. Teams' = Teams /\ UNCHANGED <<written, held, turn, finished>>
  BY DEF Teams, output
<1> QED
  BY <1>1 DEF OutputInv, SamePrints, Prints, TeamCount, AllLines, Lines, IsFcn

\* Where one team goes, and what comes of it.
Moves(i, where) ==
    /\ DOMAIN place' = Teams /\ place'[i] = where
    /\ \A j \in Teams : j # i => place'[j] = place[j]
Gives(i, o) ==
    /\ IsFcn(outcome') /\ DOMAIN outcome' = Teams /\ outcome'[i] = o
    /\ \A j \in Teams : j # i => outcome'[j] = outcome[j]

\* A team that goes somewhere is there, and the others stay.
LEMMA GoesMoves ==
    ASSUME TurnInv, NEW i \in Teams, NEW where, Goes(i, where)
    PROVE  Moves(i, where)
BY DEF TurnInv, Goes, Moves

\* A team has the outcome that comes to it, and the others keep theirs.
LEMMA ComesGives ==
    ASSUME SaidInv, NEW i \in Teams, NEW o, Comes(i, o)
    PROVE  Gives(i, o)
BY DEF SaidInv, Comes, Gives, IsFcn

\* A team that goes elsewhere than over adds none to those that are.
LEMMA KeepsOver ==
    ASSUME Teams' = Teams, NEW i \in Teams, NEW where, Moves(i, where),
           where # "over", place[i] # "over"
    PROVE  Over' = Over
BY DEF Moves, Over

\* A step that prints nothing, of one team that is not over.
LEMMA QuietStep ==
    ASSUME ReportInv, UNCHANGED <<scopes, output>>, NEW i \in Teams, NEW where,
           Moves(i, where), where # "over", place[i] # "over",
           \/ UNCHANGED outcome
           \/ \E o : Gives(i, o),
           \/ UNCHANGED delivered
           \/ \E d : delivered' = [delivered EXCEPT ![i] = d],
           Teams' = Teams /\ SamePrints => SaidOf(i)'
    PROVE  OutputInv' /\ SaidInv'
<1>1. Teams' = Teams
  BY DEF Teams
<1>2. OutputInv' /\ SamePrints
  BY <1>1, KeepsOver, QuietKeeps DEF ReportInv, TurnInv
<1>3. /\ IsFcn(outcome') /\ DOMAIN outcome' = Teams
      /\ \A j \in Teams : j # i => outcome'[j] = outcome[j]
  BY DEF ReportInv, SaidInv, Gives
<1>4. /\ IsFcn(delivered') /\ DOMAIN delivered' = Teams
      /\ \A j \in Teams : j # i => delivered'[j] = delivered[j]
  BY DEF ReportInv, SaidInv, IsFcn
<1>5. \A j \in Teams : j # i => \A t : Prints(j, t)' <=> Prints(j, t)
  BY <1>2 DEF SamePrints
<1>6. \A j \in Teams : j # i => /\ place'[j] = place[j]
                                /\ outcome'[j] = outcome[j]
                                /\ delivered'[j] = delivered[j]
  BY <1>3, <1>4 DEF Moves
<1>7. SaidOf(i)'
  BY <1>1, <1>2
<1> QED
  BY <1>1, <1>2, <1>3, <1>4, <1>5, <1>6, <1>7, OthersSaid DEF ReportInv

\* The turn of a team keeps what is said (Begin).
LEMMA BeginSays ==
    ASSUME ReportInv, NEW i \in Teams, Begin(i)
    PROVE  OutputInv' /\ SaidInv'
<1>1. /\ place[i] = "waiting" /\ UNCHANGED <<scopes, output>>
      /\ UNCHANGED delivered
  BY DEF Begin, Turn, Fixed, given
<1>2. PICK where \in {"reporting", "sweeping"} :
         \E o : /\ Goes(i, where) /\ Comes(i, o)
               /\ IsFcn(o) /\ DOMAIN o = Fields
               /\ o["said"] \in {"unreached", "failed", ""}
  <2>1. CASE stopped
    <3> DEFINE o == [NoOutcome EXCEPT !.said = "unreached", !.stopped = TRUE]
    <3>1. Goes(i, "reporting") /\ Comes(i, o)
      BY <2>1 DEF Begin
    <3>2. IsFcn(o) /\ DOMAIN o = Fields /\ o["said"] = "unreached"
      BY DEF NoOutcome, Fields, IsFcn
    <3> QED
      BY <3>1, <3>2
  <2>2. CASE ~stopped /\ scopes[i] = Unresolved
    <3> DEFINE o == [NoOutcome EXCEPT !.said = "failed", !.err = TRUE]
    <3>1. Goes(i, "reporting") /\ Comes(i, o)
      BY <2>2 DEF Begin
    <3>2. IsFcn(o) /\ DOMAIN o = Fields /\ o["said"] = "failed"
      BY DEF NoOutcome, Fields, IsFcn
    <3> QED
      BY <3>1, <3>2
  <2>3. CASE ~stopped /\ scopes[i] # Unresolved
    <3>1. PICK c : Goes(i, "sweeping") /\ Comes(i, [NoOutcome EXCEPT !.channel = c])
      BY <2>3 DEF Begin
    <3> DEFINE o == [NoOutcome EXCEPT !.channel = c]
    <3>2. IsFcn(o) /\ DOMAIN o = Fields /\ o["said"] = ""
      BY DEF NoOutcome, Fields, IsFcn
    <3> QED
      BY <3>1, <3>2
  <2> QED
    BY <2>1, <2>2, <2>3
<1>o. PICK o : /\ Goes(i, where) /\ Comes(i, o)
               /\ IsFcn(o) /\ DOMAIN o = Fields
               /\ o["said"] \in {"unreached", "failed", ""}
  BY <1>2
<1>3. Moves(i, where) /\ Gives(i, o)
  BY <1>o, GoesMoves, ComesGives DEF ReportInv
<1>4. ASSUME SamePrints, Teams' = Teams PROVE SaidOf(i)'
  <2>1. OnlyResults(i)'
    BY <1>1, <1>4 DEF SamePrints, OnlyResults, ReportInv, SaidInv, SaidOf, Printed
  <2>2. outcome'[i] = o /\ place'[i] = where
    BY <1>3 DEF Moves, Gives
  <2>3. ~Swept(i)'
    BY <1>o, <2>2 DEF Swept
  <2> QED
    BY <1>2, <1>o, <2>1, <2>2, <2>3 DEF SaidOf, Due, Printed
<1> QED
  BY <1>1, <1>2, <1>o, <1>3, <1>4, QuietStep

\* So does a sweep that fails (SweepFails),
LEMMA FailureSays ==
    ASSUME ReportInv, NEW i \in Teams, SweepFails(i)
    PROVE  OutputInv' /\ SaidInv'
<1>1. /\ place[i] = "sweeping" /\ UNCHANGED <<scopes, output>>
      /\ UNCHANGED delivered /\ SaidOf(i)
  BY DEF SweepFails, Fixed, given, ReportInv, SaidInv
<1>2. PICK o : /\ Goes(i, "reporting") /\ Comes(i, o)
               /\ IsFcn(o) /\ DOMAIN o = Fields /\ o["said"] = "failed"
  <2> DEFINE o == [outcome[i] EXCEPT !.said = "failed", !.stopped = stopped,
                                     !.err = TRUE]
  <2>1. Goes(i, "reporting") /\ Comes(i, o)
    BY DEF SweepFails
  <2>2. IsFcn(o) /\ DOMAIN o = Fields /\ o["said"] = "failed"
    BY <1>1 DEF SaidOf, Fields, IsFcn
  <2> QED
    BY <2>1, <2>2
<1>3. Moves(i, "reporting") /\ Gives(i, o)
  BY <1>2, GoesMoves, ComesGives DEF ReportInv
<1>4. ASSUME SamePrints, Teams' = Teams PROVE SaidOf(i)'
  <2>1. OnlyResults(i)'
    BY <1>1, <1>4 DEF SamePrints, OnlyResults, SaidOf, Printed
  <2>2. outcome'[i] = o /\ place'[i] = "reporting"
    BY <1>3 DEF Moves, Gives
  <2>3. ~Swept(i)'
    BY <1>2, <2>2 DEF Swept
  <2> QED
    BY <1>2, <2>1, <2>2, <2>3 DEF SaidOf, Due, Printed
<1> QED
  BY <1>1, <1>2, <1>3, <1>4, QuietStep

\* an attempt to post (Send),
LEMMA SendSays ==
    ASSUME ReportInv, NEW i \in Teams, NEW reply \in Replies, Send(i, reply)
    PROVE  OutputInv' /\ SaidInv'
<1>1. /\ place[i] = "sending" /\ UNCHANGED <<scopes, output>> /\ SaidOf(i)
      /\ delivered' = [delivered EXCEPT
            ![i] = @ \/ reply \in {"created", "lost"}]
  BY DEF Send, Fixed, given, ReportInv, SaidInv
<1>2. DOMAIN delivered = Teams
  BY DEF ReportInv, SaidInv
<1>3. PICK where \in {"reporting", "pausing"} :
         /\ Goes(i, where)
         /\ \/ where = "pausing" /\ UNCHANGED outcome
            \/ \E o : /\ Comes(i, o) /\ IsFcn(o) /\ DOMAIN o = Fields
                      /\ \A f \in {"said", "channel", "stopped"} :
                            o[f] = outcome[i][f]
                      /\ o["unposted"] = TRUE \/ reply = "created"
  <2>0. IsFcn(outcome[i]) /\ DOMAIN outcome[i] = Fields
    BY <1>1 DEF SaidOf
  <2> DEFINE away == \/ reply \in {"unavailable", "lost"}
                     \/ reply = "cut" /\ outcome[i].stopped
  <2>1. CASE reply = "created"
    <3> DEFINE o == [outcome[i] EXCEPT !.posted = TRUE]
    <3>1. Goes(i, "reporting") /\ Comes(i, o)
      BY <2>1 DEF Send
    <3>2. /\ IsFcn(o) /\ DOMAIN o = Fields
          /\ \A f \in {"said", "channel", "stopped"} : o[f] = outcome[i][f]
      BY <2>0 DEF Fields, IsFcn
    <3> QED
      BY <2>1, <3>1, <3>2
  <2>2. CASE reply # "created" /\ away /\ tries[i] + 1 < Attempts
    <3>1. Goes(i, "pausing") /\ UNCHANGED outcome
      BY <2>2 DEF Send
    <3> QED
      BY <3>1
  <2>3. CASE reply # "created" /\ ~(away /\ tries[i] + 1 < Attempts)
    <3> DEFINE o == [outcome[i] EXCEPT !.unposted = TRUE, !.err = ~away]
    <3>1. Goes(i, "reporting") /\ Comes(i, o)
      BY <2>3 DEF Send
    <3>2. /\ IsFcn(o) /\ DOMAIN o = Fields /\ o["unposted"] = TRUE
          /\ \A f \in {"said", "channel", "stopped"} : o[f] = outcome[i][f]
      BY <2>0 DEF Fields, IsFcn
    <3> QED
      BY <3>1, <3>2
  <2> QED
    BY <2>1, <2>2, <2>3
<1>4. Moves(i, where)
  BY <1>3, GoesMoves DEF ReportInv
<1>5. \/ where = "pausing" /\ UNCHANGED outcome
      \/ \E o : /\ Gives(i, o) /\ IsFcn(o) /\ DOMAIN o = Fields
                /\ \A f \in {"said", "channel", "stopped"} :
                      o[f] = outcome[i][f]
                /\ o["unposted"] = TRUE \/ reply = "created"
  BY <1>3, ComesGives DEF ReportInv
<1>6. /\ IsFcn(outcome'[i]) /\ DOMAIN outcome'[i] = Fields
      /\ \A f \in {"said", "channel", "stopped"} :
            outcome'[i][f] = outcome[i][f]
      /\ where = "reporting" => delivered'[i] \/ outcome'[i]["unposted"] = TRUE
  BY <1>1, <1>2, <1>5 DEF SaidOf, Gives
<1>7. ASSUME SamePrints, Teams' = Teams PROVE SaidOf(i)'
  <2>1. OnlyResults(i)'
    BY <1>1, <1>7 DEF SamePrints, OnlyResults, SaidOf, Printed
  <2>2. place'[i] = where
    BY <1>4 DEF Moves
  <2>3. Swept(i)' <=> Swept(i)
    BY <1>6 DEF Swept
  <2>4. Swept(i)' => Prints(i, "results")'
    BY <1>1, <1>7, <2>3 DEF SaidOf, Begun, SamePrints
  <2> QED
    BY <1>3, <1>6, <2>1, <2>2, <2>4 DEF SaidOf, Printed
<1>8. UNCHANGED outcome \/ \E o : Gives(i, o)
  BY <1>5
<1>9. \E d : delivered' = [delivered EXCEPT ![i] = d]
  BY <1>1
<1>10. where # "over" /\ place[i] # "over"
  BY <1>1, <1>3
<1> QED
  BY <1>1, <1>4, <1>7, <1>8, <1>9, <1>10, QuietStep

\* the wait before the next (Pause),
LEMMA PauseSays ==
    ASSUME ReportInv, NEW i \in Teams, NEW cut \in BOOLEAN, Pause(i, cut)
    PROVE  OutputInv' /\ SaidInv'
<1>1. /\ place[i] = "pausing" /\ UNCHANGED <<scopes, output>> /\ SaidOf(i)
      /\ UNCHANGED delivered
  BY DEF Pause, Fixed, given, ReportInv, SaidInv
<1>2. PICK where \in {"reporting", "sending"} :
         /\ Goes(i, where)
         /\ \/ where = "sending" /\ UNCHANGED outcome
            \/ \E o : /\ Comes(i, o) /\ IsFcn(o) /\ DOMAIN o = Fields
                      /\ \A f \in {"said", "channel", "stopped"} :
                            o[f] = outcome[i][f]
                      /\ o["unposted"] = TRUE
  <2>1. CASE cut
    <3> DEFINE o == [outcome[i] EXCEPT !.unposted = TRUE]
    <3>1. Goes(i, "reporting") /\ Comes(i, o)
      BY <2>1 DEF Pause
    <3>2. /\ IsFcn(o) /\ DOMAIN o = Fields /\ o["unposted"] = TRUE
          /\ \A f \in {"said", "channel", "stopped"} : o[f] = outcome[i][f]
      BY <1>1 DEF SaidOf, Fields, IsFcn
    <3> QED
      BY <3>1, <3>2
  <2>2. CASE ~cut
    <3>1. Goes(i, "sending") /\ UNCHANGED outcome
      BY <2>2 DEF Pause
    <3> QED
      BY <3>1
  <2> QED
    BY <2>1, <2>2
<1>3. Moves(i, where)
  BY <1>2, GoesMoves DEF ReportInv
<1>4. \/ where = "sending" /\ UNCHANGED outcome
      \/ \E o : /\ Gives(i, o) /\ IsFcn(o) /\ DOMAIN o = Fields
                /\ \A f \in {"said", "channel", "stopped"} :
                      o[f] = outcome[i][f]
                /\ o["unposted"] = TRUE
  BY <1>2, ComesGives DEF ReportInv
<1>5. /\ IsFcn(outcome'[i]) /\ DOMAIN outcome'[i] = Fields
      /\ \A f \in {"said", "channel", "stopped"} :
            outcome'[i][f] = outcome[i][f]
      /\ where = "reporting" => outcome'[i]["unposted"] = TRUE
  BY <1>1, <1>4 DEF SaidOf, Gives
<1>6. ASSUME SamePrints, Teams' = Teams PROVE SaidOf(i)'
  <2>1. OnlyResults(i)'
    BY <1>1, <1>6 DEF SamePrints, OnlyResults, SaidOf, Printed
  <2>2. place'[i] = where
    BY <1>3 DEF Moves
  <2>3. Swept(i)' <=> Swept(i)
    BY <1>5 DEF Swept
  <2>4. Swept(i)' => Prints(i, "results")'
    BY <1>1, <1>6, <2>3 DEF SaidOf, Begun, SamePrints
  <2> QED
    BY <1>2, <1>5, <2>1, <2>2, <2>4 DEF SaidOf, Printed
<1>7. UNCHANGED outcome \/ \E o : Gives(i, o)
  BY <1>4
<1>8. where # "over" /\ place[i] # "over"
  BY <1>1, <1>2
<1> QED
  BY <1>1, <1>3, <1>6, <1>7, <1>8, QuietStep

\* A step of one team that prints a line.
LEMMA LineStep ==
    ASSUME ReportInv, UNCHANGED <<scopes, delivered>>, NEW i \in Teams,
           NEW where, Moves(i, where), where # "over",
           place[i] \notin Printed,
           UNCHANGED outcome \/ \E o : Gives(i, o),
           NEW text \in Texts, Write(i, text),
           Teams' = Teams /\ AddsLine(i, text) => SaidOf(i)'
    PROVE  OutputInv' /\ SaidInv'
<1>1. Teams' = Teams /\ place[i] # "over"
  BY DEF Teams, Printed
<1>2. Over' = Over
  BY <1>1, KeepsOver
<1>3. OnlyResults(i)
  BY DEF ReportInv, SaidInv, SaidOf
<1>4. OutputInv' /\ AddsLine(i, text)
  BY <1>1, <1>2, <1>3, WriteKeeps DEF ReportInv, TurnInv
<1>5. \A j \in Teams : j # i => \A t : Prints(j, t)' <=> Prints(j, t)
  BY <1>4 DEF AddsLine
<1>6. /\ IsFcn(outcome') /\ DOMAIN outcome' = Teams
      /\ IsFcn(delivered') /\ DOMAIN delivered' = Teams
      /\ \A j \in Teams : j # i => /\ place'[j] = place[j]
                                    /\ outcome'[j] = outcome[j]
                                    /\ delivered'[j] = delivered[j]
  BY DEF ReportInv, SaidInv, Gives, Moves
<1>7. SaidOf(i)'
  BY <1>1, <1>4
<1> QED
  BY <1>1, <1>4, <1>5, <1>6, <1>7, OthersSaid DEF ReportInv

\* a sweep that ends, with its results (SweepEnds),
LEMMA EndSays ==
    ASSUME ReportInv, NEW i \in Teams, NEW changed \in BOOLEAN,
           SweepEnds(i, changed)
    PROVE  OutputInv' /\ SaidInv'
<1>1. /\ place[i] = "sweeping" /\ UNCHANGED <<scopes, delivered>> /\ SaidOf(i)
      /\ Write(i, "results")
  BY DEF SweepEnds, Fixed, given, ReportInv, SaidInv
<1> DEFINE c == outcome[i]["channel"]
           due == (changed \/ stopped) /\ c = "id"
           where == IF due THEN "sending" ELSE "reporting"
           o == [outcome[i] EXCEPT !.said = IF changed THEN "changed"
                                            ELSE "unchanged",
                                   !.stopped = stopped,
                                   !.err = c = "error"]
<1>2. Goes(i, where) /\ Comes(i, o)
  BY DEF SweepEnds
<1>3. /\ IsFcn(o) /\ DOMAIN o = Fields
      /\ o["said"] = IF changed THEN "changed" ELSE "unchanged"
      /\ o["stopped"] = stopped /\ o["channel"] = c
  BY <1>1 DEF SaidOf, Fields, IsFcn
<1> HIDE DEF o
<1>4. Moves(i, where) /\ Gives(i, o)
  BY <1>2, GoesMoves, ComesGives DEF ReportInv
<1>5. ASSUME AddsLine(i, "results"), Teams' = Teams PROVE SaidOf(i)'
  <2>1. OnlyResults(i)'
    BY <1>1, <1>5 DEF AddsLine, OnlyResults, SaidOf, Printed
  <2>2. outcome'[i] = o /\ place'[i] = where
    BY <1>4 DEF Moves, Gives
  <2>3. Prints(i, "results")'
    BY <1>5 DEF AddsLine
  <2>4. Due(i)' => due
    BY <1>3, <2>2 DEF Due
  <2> QED
    BY <1>3, <2>1, <2>2, <2>3, <2>4 DEF SaidOf, Printed
<1>6. where # "over" /\ place[i] \notin Printed
  BY <1>1 DEF Printed
<1>7. "results" \in Texts
  BY DEF Texts
<1> HIDE DEF where
<1> QED
  BY <1>1, <1>4, <1>5, <1>6, <1>7, LineStep

\* the line of a team (Report),
LEMMA ReportSays ==
    ASSUME ReportInv, NEW i \in Teams, Report(i)
    PROVE  OutputInv' /\ SaidInv'
<1>0. PICK text : text = IF outcome[i].unposted THEN "report and summary"
                         ELSE "report"
  OBVIOUS
<1>1. /\ place[i] = "reporting" /\ UNCHANGED <<scopes, delivered, outcome>>
      /\ SaidOf(i) /\ Write(i, text) /\ Goes(i, "ending")
  BY <1>0 DEF Report, Fixed, given, ReportInv, SaidInv
<1>2. Moves(i, "ending")
  BY <1>1, GoesMoves DEF ReportInv
<1>3. ASSUME AddsLine(i, text), Teams' = Teams PROVE SaidOf(i)'
  <2>1. place'[i] = "ending" /\ outcome'[i] = outcome[i]
        /\ delivered'[i] = delivered[i]
    BY <1>1, <1>2 DEF Moves
  <2>2. Prints(i, text)' /\ \A t : Prints(i, t) => Prints(i, t)'
    BY <1>3 DEF AddsLine
  <2>3. (Swept(i)' <=> Swept(i)) /\ (Due(i)' <=> Due(i))
    BY <2>1 DEF Swept, Due
  <2>4. Swept(i)' => Prints(i, "results")'
    BY <1>1, <2>2, <2>3 DEF SaidOf, Begun
  <2>5. Prints(i, "report")' \/ Prints(i, "report and summary")'
    BY <1>0, <2>2
  <2>6. Due(i)' => delivered'[i] \/ Prints(i, "report and summary")'
    BY <1>0, <1>1, <2>1, <2>2, <2>3 DEF SaidOf
  <2>7. IsFcn(outcome'[i]) /\ DOMAIN outcome'[i] = Fields
    BY <1>1, <2>1 DEF SaidOf
  <2> QED
    BY <2>1, <2>4, <2>5, <2>6, <2>7 DEF SaidOf, Printed
<1>4. text \in Texts /\ "ending" # "over" /\ place[i] \notin Printed
  BY <1>0, <1>1 DEF Texts, Printed
<1> QED
  BY <1>1, <1>2, <1>3, <1>4, LineStep

\* and its end (Done).
LEMMA DoneSays ==
    ASSUME ReportInv, NEW i \in Teams, Done(i)
    PROVE  OutputInv' /\ SaidInv'
<1>1. /\ place[i] = "ending" /\ UNCHANGED <<scopes, delivered, outcome>>
      /\ SaidOf(i) /\ Goes(i, "over")
  BY DEF Done, given, ReportInv, SaidInv, Goes
<1>2. Moves(i, "over")
  BY <1>1, GoesMoves DEF ReportInv
<1>3. OutputInv' /\ SamePrints
  BY DoneKeeps DEF ReportInv, TurnInv
<1>4. SaidOf(i)'
  <2>1. place'[i] = "over" /\ outcome'[i] = outcome[i]
        /\ delivered'[i] = delivered[i]
    BY <1>1, <1>2 DEF Moves
  <2>2. \A t : Prints(i, t)' <=> Prints(i, t)
    BY <1>3 DEF SamePrints
  <2>3. (Swept(i)' <=> Swept(i)) /\ (Due(i)' <=> Due(i))
    BY <2>1 DEF Swept, Due
  <2> QED
    BY <1>1, <2>1, <2>2, <2>3 DEF SaidOf, Printed, Begun
<1>5. /\ Teams' = Teams
      /\ IsFcn(outcome') /\ DOMAIN outcome' = Teams
      /\ IsFcn(delivered') /\ DOMAIN delivered' = Teams
      /\ \A j \in Teams : j # i => /\ place'[j] = place[j]
                                    /\ outcome'[j] = outcome[j]
                                    /\ delivered'[j] = delivered[j]
  BY <1>1, <1>2 DEF Teams, ReportInv, SaidInv, Moves
<1>6. \A j \in Teams : j # i => \A t : Prints(j, t)' <=> Prints(j, t)
  BY <1>3 DEF SamePrints
<1> QED
  BY <1>3, <1>4, <1>5, <1>6, OthersSaid DEF ReportInv

\* Each step keeps what is printed, and what is said in it.
LEMMA ReportStep == ReportInv /\ [TeamsNext]_teamVars => ReportInv'
<1> SUFFICES ASSUME ReportInv, [TeamsNext]_teamVars PROVE OutputInv' /\ SaidInv'
  BY TurnStep DEF ReportInv
<1>1. ASSUME NEW i \in Teams,
             Begin(i) \/ SweepFails(i) \/ Report(i) \/ Done(i)
      PROVE  OutputInv' /\ SaidInv'
  BY <1>1, BeginSays, FailureSays, ReportSays, DoneSays
<1>2. ASSUME NEW i \in Teams, NEW b \in BOOLEAN, SweepEnds(i, b) \/ Pause(i, b)
      PROVE  OutputInv' /\ SaidInv'
  BY <1>2, EndSays, PauseSays
<1>3. ASSUME NEW i \in Teams, NEW reply \in Replies, Send(i, reply)
      PROVE  OutputInv' /\ SaidInv'
  BY <1>3, SendSays
<1>4. CASE StartGroup \/ Stop \/ TeamsOver \/ UNCHANGED teamVars
  <2>1. UNCHANGED <<scopes, place, outcome, delivered, output>>
    BY <1>4 DEF StartGroup, Stop, TeamsOver, teamVars, given
  <2>2. Teams' = Teams /\ Over' = Over
    BY <2>1 DEF Teams, Over
  <2>3. OutputInv' /\ SamePrints
    BY <2>1, <2>2, QuietKeeps DEF ReportInv, TurnInv
  <2>4. ASSUME NEW j \in Teams PROVE SaidOf(j)'
    <3>1. /\ place'[j] = place[j] /\ outcome'[j] = outcome[j]
          /\ delivered'[j] = delivered[j]
          /\ \A t : Prints(j, t)' <=> Prints(j, t)
      BY <2>1, <2>3 DEF SamePrints
    <3>2. (Swept(j)' <=> Swept(j)) /\ (Due(j)' <=> Due(j))
          /\ (OnlyResults(j)' <=> OnlyResults(j))
      BY <3>1 DEF Swept, Due, OnlyResults
    <3> QED
      BY <3>1, <3>2 DEF SaidOf, ReportInv, SaidInv
  <2> QED
    BY <2>1, <2>2, <2>3, <2>4 DEF SaidInv, ReportInv
<1> QED
  BY <1>1, <1>2, <1>3, <1>4 DEF TeamsNext

\* What the teams print comes in the order they were named, each team's
\* results before its report, and a run that is over has passed on all of it
\* (orderedOutput, report, reportUnposted).
THEOREM AllReported == TeamsSpec => []Reported
<1>1. TeamsInit => ReportInv
  <2> SUFFICES ASSUME TeamsInit PROVE ReportInv
    OBVIOUS
  <2>1. TurnInv
    BY TurnStarts
  <2>2. Over = {} /\ TeamCount \in Nat /\ Teams = 1..TeamCount
    BY <2>1 DEF TeamsInit, Over, TurnInv, Named
  <2>3. \A j \in Teams : \A t : ~Prints(j, t)
    BY DEF TeamsInit, Prints, Range
  <2>4. OutputInv
    <3>1. <<>> \in Seq(AllLines) /\ Ordered(<<>>) /\ Range(<<>>) = {}
      BY DEF Ordered, Range
    <3>2. \A j \in Teams : <<>> \in Seq(Lines(j))
      OBVIOUS
    <3> QED
      BY <2>2, <3>1, <3>2 DEF TeamsInit, OutputInv, IsFcn
  <2>5. \A j \in Teams : SaidOf(j)
    <3>1. IsFcn(NoOutcome) /\ DOMAIN NoOutcome = Fields
      BY DEF NoOutcome, IsFcn, Fields
    <3>2. \A j \in Teams : outcome[j] = NoOutcome /\ place[j] = "waiting"
      BY DEF TeamsInit
    <3> QED
      BY <2>3, <3>1, <3>2 DEF SaidOf, OnlyResults, Printed, Begun
  <2> QED
    BY <2>1, <2>4, <2>5 DEF TeamsInit, ReportInv, SaidInv, IsFcn
<1>2. ReportInv => Reported
  <2> SUFFICES ASSUME ReportInv PROVE Reported
    OBVIOUS
  <2>1. TeamCount \in Nat /\ Teams = 1..TeamCount
    BY DEF ReportInv, TurnInv, Named
  <2>2. InOrder
    <3>1. DOMAIN written = 1..Len(written) /\ Ordered(written)
      BY DEF ReportInv, OutputInv
    <3> QED
      BY <3>1 DEF InOrder, Ordered, Before
  <2>3. ASSUME Over = Teams, NEW i \in Teams PROVE AllSaid(i)
    <3>1. held[i] = <<>>
      <4>1. turn \in Nat /\ turn \notin Teams /\ turn >= 1
        BY <2>1, <2>3 DEF ReportInv, OutputInv
      <4>2. i <= turn
        BY <2>1, <4>1
      <4> QED
        BY <4>2 DEF ReportInv, OutputInv
    <3>2. \A t : Prints(i, t) => <<i, t>> \in Range(written)
      BY <3>1 DEF Prints, Range
    <3> DEFINE of == {w[2] : w \in {v \in Range(written) : v[1] = i}}
    <3>3. \A t : Prints(i, t) => t \in of
      <4>1. ASSUME NEW t, Prints(i, t) PROVE t \in of
        <5>1. PICK w \in Range(written) : w = <<i, t>>
          BY <3>2, <4>1
        <5> QED
          BY <5>1
      <4> QED
        BY <4>1
    <3>4. place[i] = "over" /\ SaidOf(i)
      BY <2>3 DEF Over, ReportInv, SaidInv
    <3>5. Swept(i) => "results" \in of
      BY <3>3, <3>4 DEF SaidOf, Begun
    <3>6. "report" \in of \/ "report and summary" \in of
      BY <3>3, <3>4 DEF SaidOf, Printed
    <3>7. Due(i) => delivered[i] \/ "report and summary" \in of
      BY <3>3, <3>4 DEF SaidOf, Printed
    <3> HIDE DEF of
    <3>8. of \intersect {"report", "report and summary"} # {}
      BY <3>6
    <3> QED
      BY <3>5, <3>7, <3>8 DEF AllSaid, Due, of
  <2> QED
    BY <2>2, <2>3 DEF Reported
<1> QED
  BY <1>1, <1>2, ReportStep, PTL DEF TeamsSpec

-----------------------------------------------------------------------------
(* A behaviour of Service is one of each part, so what is shown of a part   *)
(* is shown of the whole.                                                   *)
LEMMA EachPart == SSpec => TeamsSpec /\ ServeSpec /\ TokensSpec
<1>1. SInit => TeamsInit /\ ServeInit /\ TokensInit
  BY DEF SInit
<1>2. [SNext]_serviceVars =>
         [TeamsNext]_teamVars /\ [ServeNext]_serveVars /\ [TokensNext]_tokenVars
  BY DEF SNext, serviceVars
<1> QED
  BY <1>1, <1>2, PTL DEF SSpec, TeamsSpec, ServeSpec, TokensSpec
=============================================================================
