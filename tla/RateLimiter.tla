----------------------------- MODULE RateLimiter -----------------------------
(***************************************************************************)
(* The token bucket of withAuth (internal/server/server.go): one bucket    *)
(* for each workspace, shared by all the requests made with its keys, and  *)
(* guarded by one mutex.  A request reads the clock BEFORE it takes the    *)
(* mutex, so requests may decide in another order than they read the time. *)
(*                                                                         *)
(* The code counts tokens in float64 and refills rate/60 of them a second. *)
(* Here a token is Minute units and a tick of the clock refills Rate       *)
(* units, so that Minute ticks refill Rate tokens and every count is an    *)
(* integer; the rounding of the floats is not modelled.                    *)
(***************************************************************************)
EXTENDS Integers, Sequences

CONSTANTS
  Workspaces,   \* the workspaces that have an API key
  Callers,      \* the requests that can be in allow() together
  Rate,         \* GTCP_RATE_LIMIT_PER_MINUTE
  Minute,       \* ticks of the clock in a minute
  MaxTime,      \* bound: the clock stops there
  NoBucket      \* the workspace has no bucket yet

Full == Rate * Minute

Bucket == [tokens : 0..Full, last : Nat]

ASSUME RateAssumption ==
  /\ Rate \in Nat \ {0}
  /\ Minute \in Nat \ {0}
  /\ MaxTime \in Nat
  /\ NoBucket \notin Bucket

VARIABLES
  clock,        \* the monotonic clock of the process
  bucket,       \* the map buckets
  asking,       \* asking[c]: what request c is about
  log           \* history, log[w]: bucket time of each admission of w

vars == <<clock, bucket, asking, log>>

NotAsking == [st |-> "idle"]
Asking == {NotAsking} \cup [st : {"locking"}, ws : Workspaces, now : Nat]

Init ==
  /\ clock = 0
  /\ bucket = [w \in Workspaces |-> NoBucket]
  /\ asking = [c \in Callers |-> NotAsking]
  /\ log = [w \in Workspaces |-> <<>>]

Tick ==
  /\ clock < MaxTime
  /\ clock' = clock + 1
  /\ UNCHANGED <<bucket, asking, log>>

\* now := time.Now(), before the mutex is taken.
ReadClock(c, w) ==
  /\ asking[c] = NotAsking
  /\ asking' = [asking EXCEPT ![c] = [st |-> "locking", ws |-> w, now |-> clock]]
  /\ UNCHANGED <<clock, bucket, log>>

\* Mutant of Found: a new bucket has no token.
FoundEmpty(w, now) ==
  IF bucket[w] = NoBucket THEN [tokens |-> 0, last |-> now] ELSE bucket[w]

\* A workspace seen for the first time has all its tokens.
Found(w, now) ==
  IF bucket[w] = NoBucket THEN [tokens |-> Full, last |-> now] ELSE bucket[w]

AtMost(k, n) == IF k > n THEN n ELSE k

\* Mutant of Refill: tokens pile up beyond the rate.
RefillUncapped(b, now) ==
  IF now > b.last
  THEN [tokens |-> b.tokens + (now - b.last) * Rate, last |-> now]
  ELSE b

\* Mutant of Refill: an older reading of the clock sets the bucket back.
RefillBackwards(b, now) ==
  [tokens |-> IF now > b.last
              THEN AtMost(b.tokens + (now - b.last) * Rate, Full)
              ELSE b.tokens,
   last |-> now]

\* Time that has not passed refills nothing.
Refill(b, now) ==
  IF now > b.last
  THEN [tokens |-> AtMost(b.tokens + (now - b.last) * Rate, Full), last |-> now]
  ELSE b

Ready(c) == Refill(Found(asking[c].ws, asking[c].now), asking[c].now)

\* Under the mutex: the request takes a token ...
Admit(c) ==
  LET w == asking[c].ws
      b == Ready(c)
  IN  /\ asking[c] # NotAsking
      /\ b.tokens >= Minute
      /\ bucket' = [bucket EXCEPT ![w] = [b EXCEPT !.tokens = @ - Minute]]
      /\ log' = [log EXCEPT ![w] = Append(@, b.last)]
      /\ asking' = [asking EXCEPT ![c] = NotAsking]
      /\ UNCHANGED clock

\* ... or is refused, with status 429.
Deny(c) ==
  LET w == asking[c].ws
      b == Ready(c)
  IN  /\ asking[c] # NotAsking
      /\ b.tokens < Minute
      /\ bucket' = [bucket EXCEPT ![w] = b]
      /\ asking' = [asking EXCEPT ![c] = NotAsking]
      /\ UNCHANGED <<clock, log>>

Next ==
  \/ Tick
  \/ \E c \in Callers :
       \/ \E w \in Workspaces : ReadClock(c, w)
       \/ Admit(c)
       \/ Deny(c)

Spec == Init /\ [][Next]_vars

------------------------------------------------------------------------------
(***************************************************************************)
(* Properties.                                                             *)
(***************************************************************************)

\* Type invariant.
TypeOK ==
  /\ clock \in Nat
  /\ bucket \in [Workspaces -> Bucket \cup {NoBucket}]
  /\ asking \in [Callers -> Asking]
  /\ log \in [Workspaces -> Seq(Nat)]

\* What n admissions may cost between two bucket times: a full bucket, and
\* what was refilled meanwhile.
Budget(from, to) == Full + (to - from) * Rate

\* However requests interleave between reading the clock and the mutex, the
\* admissions in every window of bucket time stay within the rate: a burst
\* of Rate, and Rate for every minute the window lasts.
WithinBudget ==
  \A w \in Workspaces : \A i, j \in 1..Len(log[w]) :
    i <= j => (j - i + 1) * Minute <= Budget(log[w][i], log[w][j])

\* The bucket never runs ahead of the clock, and so neither does what it
\* admits: the budget holds in the time of the process too, counted from
\* the first admission.
WithinRealTime ==
  \A w \in Workspaces :
    log[w] # <<>> =>
      Len(log[w]) * Minute <= Budget(log[w][1], clock)

\* One more admission at the time of this bucket would exceed the budget of
\* a window.
Spent(w, now) ==
  \E i \in 1..Len(log[w]) :
    (Len(log[w]) - i + 2) * Minute > Budget(log[w][i], now)

\* A request is refused only when the tokens of its workspace are spent:
\* admitting it would have exceeded the rate in some window.
DenyStep(c) == asking[c] # NotAsking /\ asking'[c] = NotAsking /\ UNCHANGED log

DeniedOnlyWhenSpent ==
  [][\A c \in Callers :
       DenyStep(c) => Spent(asking[c].ws, bucket'[asking[c].ws].last)]_vars

==============================================================================
