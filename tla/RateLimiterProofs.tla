-------------------------- MODULE RateLimiterProofs --------------------------
(***************************************************************************)
(* Proofs about RateLimiter.                                               *)
(***************************************************************************)
EXTENDS RateLimiter, TLAPS

------------------------------------------------------------------------------
(***************************************************************************)
(* The bookkeeping of one bucket b against s, the times of what it has     *)
(* admitted.  The tokens left and the admissions since s[i] never exceed   *)
(* the budget since s[i], and when the bucket is not full they use up the  *)
(* budget of some window.                                                  *)
(***************************************************************************)

Since(s, i) == (Len(s) - i + 1) * Minute

Accounted(b, s) ==
  /\ \A i \in 1..Len(s) :
       s[i] <= b.last /\ Since(s, i) + b.tokens <= Budget(s[i], b.last)
  /\ \/ b.tokens = Full
     \/ \E i \in 1..Len(s) : Since(s, i) + b.tokens = Budget(s[i], b.last)

\* The windows of WithinBudget, for one workspace.
Windows(s) ==
  \A i, j \in 1..Len(s) : i <= j => (j - i + 1) * Minute <= Budget(s[i], s[j])

BucketInv(w) ==
  IF bucket[w] = NoBucket
  THEN log[w] = <<>>
  ELSE bucket[w].last <= clock /\ Accounted(bucket[w], log[w])

IInv ==
  /\ TypeOK
  /\ \A c \in Callers : asking[c] # NotAsking => asking[c].now <= clock
  /\ \A w \in Workspaces : BucketInv(w) /\ Windows(log[w])

------------------------------------------------------------------------------
(***************************************************************************)
(* Lemmas about one bucket.                                                *)
(***************************************************************************)

LEMMA FullType == Full \in Nat /\ Minute <= Full
<1>1. Rate \in Nat /\ Minute \in Nat /\ Rate >= 1
  BY RateAssumption
<1>2. \A x, y \in Nat : x * y \in Nat
  OBVIOUS
<1>3. \A x, y \in Nat : x >= 1 => y <= x * y
  OBVIOUS
<1> QED  BY <1>1, <1>2, <1>3 DEF Full

LEMMA BudgetType ==
  ASSUME NEW from \in Nat, NEW to \in Nat
  PROVE  Budget(from, to) \in Int
<1>1. Full \in Int /\ Rate \in Int /\ to - from \in Int
  BY FullType, RateAssumption
<1> QED  BY <1>1 DEF Budget

\* A budget grows with its window, by Rate a tick.
LEMMA BudgetGrows ==
  ASSUME NEW from \in Nat, NEW to \in Nat, NEW later \in Nat, to <= later
  PROVE  /\ Budget(from, to) \in Int
         /\ Budget(from, later) = Budget(from, to) + (later - to) * Rate
         /\ Budget(from, to) <= Budget(from, later)
<1>1. Rate \in Nat /\ Full \in Nat
  BY RateAssumption, FullType
<1>2. \A x, y, z \in Int : (x + y) * z = x * z + y * z
  OBVIOUS
<1>3. (later - from) * Rate = (to - from) * Rate + (later - to) * Rate
  <2>1. later - from = (to - from) + (later - to)
    OBVIOUS
  <2> QED  BY <1>1, <1>2, <2>1
<1>4. \A x, y \in Nat : x * y \in Nat
  OBVIOUS
<1>5. (later - to) * Rate \in Nat
  BY <1>1, <1>4
<1>6. (to - from) * Rate \in Int
  BY <1>1
<1> QED  BY <1>1, <1>3, <1>5, <1>6 DEF Budget

LEMMA RefillFacts ==
  ASSUME NEW b \in Bucket, NEW now \in Nat
  PROVE  LET r == Refill(b, now)
         IN  /\ r \in Bucket
             /\ r.last \in {b.last, now} /\ b.last <= r.last
             /\ r.tokens <= b.tokens + (r.last - b.last) * Rate
             /\ r.tokens = Full \/ r.tokens = b.tokens + (r.last - b.last) * Rate
<1>1. /\ b = [tokens |-> b.tokens, last |-> b.last]
      /\ b.tokens \in Nat /\ b.tokens <= Full /\ b.last \in Nat
      /\ Full \in Nat /\ Rate \in Nat
  BY RateAssumption, FullType DEF Bucket
<1>2. \A x, y \in Nat : x * y \in Nat
  OBVIOUS
<1>3. CASE now > b.last
  <2>1. now - b.last \in Nat
    BY <1>1, <1>3
  <2>2. (now - b.last) * Rate \in Nat
    BY <1>1, <1>2, <2>1
  <2> DEFINE k == b.tokens + (now - b.last) * Rate
  <2>3. Refill(b, now) = [tokens |-> AtMost(k, Full), last |-> now]
    BY <1>3 DEF Refill
  <2>4. k \in Nat
    BY <1>1, <2>2
  <2>5. AtMost(k, Full) \in 0..Full /\ AtMost(k, Full) <= k /\ AtMost(k, Full) \in {k, Full}
    BY <1>1, <2>4 DEF AtMost
  <2> QED  BY <1>1, <1>3, <2>3, <2>5 DEF Bucket
<1>4. CASE ~(now > b.last)
  <2>1. Refill(b, now) = b
    BY <1>4 DEF Refill
  <2>2. (b.last - b.last) * Rate = 0
    BY <1>1
  <2> QED  BY <1>1, <2>1, <2>2
<1> QED  BY <1>3, <1>4

LEMMA FreshAccounted ==
  ASSUME NEW now \in Nat
  PROVE  /\ [tokens |-> Full, last |-> now] \in Bucket
         /\ Accounted([tokens |-> Full, last |-> now], <<>>)
  BY FullType DEF Bucket, Accounted

LEMMA RefillAccounted ==
  ASSUME NEW b \in Bucket, NEW now \in Nat, NEW s \in Seq(Nat), Accounted(b, s)
  PROVE  Accounted(Refill(b, now), s)
<1> DEFINE r == Refill(b, now)
<1> DEFINE d == (r.last - b.last) * Rate
<1>1. /\ b.last \in Nat /\ r.last \in Nat /\ b.last <= r.last
      /\ b.tokens \in Nat /\ r.tokens \in Nat /\ d \in Int
      /\ r.tokens <= b.tokens + d
      /\ r.tokens = Full \/ r.tokens = b.tokens + d
  <2>1. b.last \in Nat /\ b.tokens \in Nat
    BY FullType DEF Bucket
  <2>2. r.last \in Nat /\ r.tokens \in Nat
    <3>1. r \in Bucket
      BY RefillFacts
    <3> HIDE DEF r
    <3> QED  BY <3>1, FullType DEF Bucket
  <2>3. (r.last - b.last) * Rate \in Int
    BY <2>1, <2>2, RateAssumption
  <2> QED  BY <2>1, <2>2, <2>3, RefillFacts
<1>2. \A i \in 1..Len(s) : /\ s[i] \in Nat /\ Since(s, i) \in Int
                           /\ Budget(s[i], b.last) \in Int
                           /\ Budget(s[i], r.last) = Budget(s[i], b.last) + d
  <2> SUFFICES ASSUME NEW i \in 1..Len(s)
               PROVE  /\ s[i] \in Nat /\ Since(s, i) \in Int
                      /\ Budget(s[i], b.last) \in Int
                      /\ Budget(s[i], r.last) = Budget(s[i], b.last) + d
    OBVIOUS
  <2>1. s[i] \in Nat
    OBVIOUS
  <2>2. Since(s, i) \in Int
    <3>1. Len(s) - i + 1 \in Int /\ Minute \in Int
      BY RateAssumption
    <3> QED  BY <3>1 DEF Since
  <2> HIDE DEF r
  <2> QED  BY <1>1, <2>1, <2>2, BudgetGrows
<1>3. ASSUME NEW i \in 1..Len(s)
      PROVE  s[i] <= r.last /\ Since(s, i) + r.tokens <= Budget(s[i], r.last)
  <2>1. s[i] <= b.last /\ Since(s, i) + b.tokens <= Budget(s[i], b.last)
    BY DEF Accounted
  <2>2. /\ s[i] \in Nat /\ Since(s, i) \in Int /\ Budget(s[i], b.last) \in Int
        /\ Budget(s[i], r.last) = Budget(s[i], b.last) + d
    BY <1>2
  <2> HIDE DEF r, d
  <2>3. s[i] <= r.last
    BY <1>1, <2>1, <2>2
  <2>4. Since(s, i) + r.tokens <= Budget(s[i], r.last)
    BY <1>1, <2>1, <2>2
  <2> QED  BY <2>3, <2>4
<1>4. \/ r.tokens = Full
      \/ \E i \in 1..Len(s) : Since(s, i) + r.tokens = Budget(s[i], r.last)
  <2>1. CASE b.tokens = Full
    <3>1. r.tokens <= Full
      BY RefillFacts, FullType DEF Bucket
    <3>2. d \in Nat
      <4>1. \A x, y \in Nat : x * y \in Nat
        OBVIOUS
      <4>2. r.last - b.last \in Nat /\ Rate \in Nat
        BY <1>1, RateAssumption
      <4> QED  BY <4>1, <4>2
    <3> HIDE DEF r, d
    <3> QED  BY <1>1, <2>1, <3>1, <3>2, FullType
  <2>2. CASE \E i \in 1..Len(s) : Since(s, i) + b.tokens = Budget(s[i], b.last)
    <3>1. PICK i \in 1..Len(s) : Since(s, i) + b.tokens = Budget(s[i], b.last)
      BY <2>2
    <3>2. r.tokens = b.tokens + d => Since(s, i) + r.tokens = Budget(s[i], r.last)
      <4> HIDE DEF r, d
      <4> QED  BY <1>1, <1>2, <3>1
    <3> QED  BY <1>1, <3>2
  <2> QED  BY <2>1, <2>2 DEF Accounted
<1> QED  BY <1>3, <1>4 DEF Accounted

\* An admission costs what the bucket loses.
LEMMA AdmitAccounted ==
  ASSUME NEW b \in Bucket, NEW s \in Seq(Nat), b.tokens >= Minute,
         Accounted(b, s), Windows(s)
  PROVE  /\ [b EXCEPT !.tokens = @ - Minute] \in Bucket
         /\ Accounted([b EXCEPT !.tokens = @ - Minute], Append(s, b.last))
         /\ Windows(Append(s, b.last))
<1> DEFINE a == [b EXCEPT !.tokens = @ - Minute]
<1> DEFINE t == Append(s, b.last)
<1> DEFINE n == Len(s)
<1>1. /\ b.last \in Nat /\ b.tokens \in Nat /\ b.tokens <= Full
      /\ Full \in Nat /\ Minute \in Nat /\ Rate \in Nat /\ n \in Nat
  BY RateAssumption, FullType DEF Bucket
<1>2. a.tokens = b.tokens - Minute /\ a.last = b.last /\ a \in Bucket
  <2>1. b.tokens - Minute \in 0..Full
    BY <1>1
  <2> QED  BY <1>1, <2>1 DEF Bucket
<1>3. /\ t \in Seq(Nat) /\ Len(t) = n + 1 /\ t[n + 1] = b.last
      /\ \A i \in 1..n : t[i] = s[i]
  BY <1>1
<1>4. \A i \in 1..(n + 1) : i \in 1..n \/ i = n + 1
  BY <1>1
<1>5. ASSUME NEW i \in 1..n
      PROVE  Since(t, i) = Since(s, i) + Minute /\ Since(s, i) \in Int
  <2>1. \A x \in Int : (x + 1) * Minute = x * Minute + Minute /\ x * Minute \in Int
    BY <1>1
  <2>2. n - i + 1 \in Int /\ (n + 1) - i + 1 = (n - i + 1) + 1
    BY <1>1
  <2> QED  BY <1>3, <2>1, <2>2 DEF Since
<1>6. Since(t, n + 1) = Minute /\ Budget(b.last, b.last) = Full
  <2>1. (n + 1) - (n + 1) + 1 = 1 /\ b.last - b.last = 0
    BY <1>1
  <2>2. 1 * Minute = Minute /\ Full + 0 * Rate = Full
    BY <1>1
  <2> QED  BY <1>3, <2>1, <2>2 DEF Since, Budget
<1>7. ASSUME NEW i \in 1..n
      PROVE  s[i] \in Nat /\ Budget(s[i], b.last) \in Int
  <2>1. s[i] \in Nat
    OBVIOUS
  <2> QED  BY <1>1, <2>1, BudgetType
<1>8. ASSUME NEW i \in 1..(n + 1)
      PROVE  t[i] <= a.last /\ Since(t, i) + a.tokens <= Budget(t[i], a.last)
  <2>1. CASE i \in 1..n
    <3>1. s[i] <= b.last /\ Since(s, i) + b.tokens <= Budget(s[i], b.last)
      BY <2>1 DEF Accounted
    <3>2. /\ t[i] = s[i] /\ Since(t, i) = Since(s, i) + Minute /\ Since(s, i) \in Int
          /\ s[i] \in Nat /\ Budget(s[i], b.last) \in Int
      BY <1>3, <1>5, <1>7, <2>1
    <3> HIDE DEF a, t, n
    <3>3. t[i] <= a.last
      BY <1>2, <3>1, <3>2
    <3>4. Since(t, i) + a.tokens <= Budget(t[i], a.last)
      BY <1>1, <1>2, <3>1, <3>2
    <3> QED  BY <3>3, <3>4
  <2>2. CASE i = n + 1
    <3> HIDE DEF a, t, n
    <3> QED  BY <1>1, <1>2, <1>3, <1>6, <2>2
  <2> QED  BY <1>4, <2>1, <2>2
<1>9. \E i \in 1..(n + 1) : Since(t, i) + a.tokens = Budget(t[i], a.last)
  <2>1. CASE b.tokens = Full
    <3>1. n + 1 \in 1..(n + 1)
      BY <1>1
    <3> HIDE DEF a, t, n
    <3> QED  BY <1>1, <1>2, <1>3, <1>6, <2>1, <3>1
  <2>2. CASE \E i \in 1..n : Since(s, i) + b.tokens = Budget(s[i], b.last)
    <3>1. PICK i \in 1..n : Since(s, i) + b.tokens = Budget(s[i], b.last)
      BY <2>2
    <3>2. i \in 1..(n + 1)
      BY <1>1
    <3>3. /\ t[i] = s[i] /\ Since(t, i) = Since(s, i) + Minute /\ Since(s, i) \in Int
          /\ s[i] \in Nat /\ Budget(s[i], b.last) \in Int
      BY <1>3, <1>5, <1>7
    <3> HIDE DEF a, t, n
    <3>4. Since(t, i) + a.tokens = Budget(t[i], a.last)
      BY <1>1, <1>2, <3>1, <3>3
    <3> QED  BY <3>2, <3>4
  <2> QED  BY <2>1, <2>2 DEF Accounted
<1>10. Accounted(a, t)
  BY <1>3, <1>8, <1>9 DEF Accounted
<1>11. Windows(t)
  <2> SUFFICES ASSUME NEW i \in 1..(n + 1), NEW j \in 1..(n + 1), i <= j
               PROVE  (j - i + 1) * Minute <= Budget(t[i], t[j])
    BY <1>3 DEF Windows
  <2>1. CASE j \in 1..n
    <3>1. i \in 1..n
      BY <1>1, <2>1
    <3> QED  BY <1>3, <2>1, <3>1 DEF Windows
  <2>2. CASE j = n + 1
    <3>1. (j - i + 1) * Minute = Since(t, i) /\ t[j] = a.last
      BY <1>2, <1>3, <2>2 DEF Since
    <3>2. Since(t, i) + a.tokens <= Budget(t[i], a.last) /\ a.tokens \in Nat
      BY <1>1, <1>2, <1>8
    <3>3. Since(t, i) \in Int /\ Budget(t[i], a.last) \in Int
      BY <1>1, <1>2, <1>3, <1>4, <1>5, <1>6, <1>7
    <3> HIDE DEF a, t, n
    <3> QED  BY <3>1, <3>2, <3>3
  <2> QED  BY <1>4, <2>1, <2>2
<1> QED  BY <1>2, <1>10, <1>11

------------------------------------------------------------------------------
(***************************************************************************)
(* The invariant is inductive.                                             *)
(***************************************************************************)

LEMMA InitInv == Init => IInv
  BY DEF Init, IInv, TypeOK, Asking, BucketInv, Windows

\* What a request finds under the mutex: a bucket that accounts for all the
\* admissions so far, refilled up to a time that is not in the future.
LEMMA ReadyFacts ==
  ASSUME IInv, NEW c \in Callers, asking[c] # NotAsking
  PROVE  /\ asking[c].ws \in Workspaces
         /\ Ready(c) \in Bucket
         /\ Ready(c).last <= clock
         /\ Accounted(Ready(c), log[asking[c].ws])
<1> DEFINE w == asking[c].ws
<1> DEFINE now == asking[c].now
<1>1. w \in Workspaces /\ now \in Nat /\ now <= clock /\ clock \in Nat
  BY DEF IInv, TypeOK, Asking
<1>2. log[w] \in Seq(Nat) /\ bucket[w] \in Bucket \cup {NoBucket}
  BY <1>1 DEF IInv, TypeOK
<1>3. BucketInv(w)
  BY <1>1 DEF IInv
<1> DEFINE b == Found(w, now)
<1>4. b \in Bucket /\ b.last <= clock /\ Accounted(b, log[w])
  <2>1. CASE bucket[w] = NoBucket
    <3>1. b = [tokens |-> Full, last |-> now] /\ log[w] = <<>>
      BY <1>3, <2>1 DEF Found, BucketInv
    <3> QED  BY <1>1, <3>1, FreshAccounted
  <2>2. CASE bucket[w] # NoBucket
    <3>1. b = bucket[w]
      BY <2>2 DEF Found
    <3> QED  BY <1>2, <1>3, <2>2, <3>1 DEF BucketInv
  <2> QED  BY <2>1, <2>2
<1>5. Ready(c) = Refill(b, now)
  BY DEF Ready
<1> HIDE DEF b
<1>6. Ready(c) \in Bucket /\ Ready(c).last \in {b.last, now}
  BY <1>1, <1>4, <1>5, RefillFacts
<1>7. Accounted(Ready(c), log[w])
  BY <1>1, <1>2, <1>4, <1>5, RefillAccounted
<1> QED  BY <1>1, <1>4, <1>6, <1>7

LEMMA TickInv ==
  ASSUME IInv, Tick
  PROVE  IInv'
<1>1. clock \in Nat /\ clock' = clock + 1 /\ UNCHANGED <<bucket, asking, log>>
  BY DEF Tick, IInv, TypeOK
<1>2. TypeOK'
  BY <1>1 DEF IInv, TypeOK
<1>3. ASSUME NEW c \in Callers, asking'[c] # NotAsking PROVE asking'[c].now <= clock'
  <2>1. asking[c].now \in Nat /\ asking[c].now <= clock
    BY <1>1, <1>3 DEF IInv, TypeOK, Asking
  <2> QED  BY <1>1, <2>1
<1>4. ASSUME NEW w \in Workspaces PROVE BucketInv(w)' /\ Windows(log'[w])
  <2>1. BucketInv(w) /\ Windows(log[w])
    BY DEF IInv
  <2>2. ASSUME bucket[w] # NoBucket PROVE bucket[w].last <= clock'
    <3>1. bucket[w].last \in Nat /\ bucket[w].last <= clock
      BY <2>1, <2>2 DEF IInv, TypeOK, Bucket, BucketInv
    <3> QED  BY <1>1, <3>1
  <2> QED  BY <1>1, <2>1, <2>2 DEF BucketInv
<1> QED  BY <1>2, <1>3, <1>4 DEF IInv

LEMMA ReadClockInv ==
  ASSUME IInv, NEW c \in Callers, NEW w \in Workspaces, ReadClock(c, w)
  PROVE  IInv'
<1>1. /\ clock \in Nat /\ asking \in [Callers -> Asking]
      /\ asking' = [asking EXCEPT ![c] = [st |-> "locking", ws |-> w, now |-> clock]]
      /\ UNCHANGED <<clock, bucket, log>>
  BY DEF ReadClock, IInv, TypeOK
<1>2. [st |-> "locking", ws |-> w, now |-> clock] \in Asking
  BY <1>1 DEF Asking
<1>3. TypeOK'
  BY <1>1, <1>2 DEF IInv, TypeOK
<1>4. \A d \in Callers : asking'[d] # NotAsking => asking'[d].now <= clock'
  BY <1>1 DEF IInv
<1> QED  BY <1>1, <1>3, <1>4 DEF IInv, BucketInv

\* A step that answers request c about workspace w, leaving it bucket b and
\* admissions s.
LEMMA AnswerKeeps ==
  ASSUME IInv, NEW c \in Callers, NEW w \in Workspaces,
         NEW b \in Bucket, NEW s \in Seq(Nat),
         b.last <= clock, Accounted(b, s), Windows(s),
         bucket' = [bucket EXCEPT ![w] = b],
         log' = [log EXCEPT ![w] = s],
         asking' = [asking EXCEPT ![c] = NotAsking],
         UNCHANGED clock
  PROVE  IInv'
<1>1. /\ bucket \in [Workspaces -> Bucket \cup {NoBucket}]
      /\ log \in [Workspaces -> Seq(Nat)]
      /\ asking \in [Callers -> Asking]
      /\ clock \in Nat
  BY DEF IInv, TypeOK
<1>2. TypeOK'
  <2>1. NotAsking \in Asking
    BY DEF Asking
  <2>2. bucket' \in [Workspaces -> Bucket \cup {NoBucket}]
    BY <1>1
  <2> QED  BY <1>1, <2>1, <2>2 DEF TypeOK
<1>3. \A d \in Callers : asking'[d] # NotAsking => asking'[d].now <= clock'
  BY <1>1 DEF IInv
<1>4. ASSUME NEW v \in Workspaces PROVE BucketInv(v)' /\ Windows(log'[v])
  <2>1. CASE v = w
    <3>1. bucket'[v] = b /\ log'[v] = s
      BY <1>1, <2>1
    <3>2. b # NoBucket
      BY RateAssumption
    <3> QED  BY <3>1, <3>2 DEF BucketInv
  <2>2. CASE v # w
    <3>1. bucket'[v] = bucket[v] /\ log'[v] = log[v]
      BY <1>1, <2>2
    <3> QED  BY <3>1 DEF IInv, BucketInv
  <2> QED  BY <2>1, <2>2
<1> QED  BY <1>2, <1>3, <1>4 DEF IInv

LEMMA AdmitInv ==
  ASSUME IInv, NEW c \in Callers, Admit(c)
  PROVE  IInv'
<1> DEFINE w == asking[c].ws
<1> DEFINE b == [Ready(c) EXCEPT !.tokens = @ - Minute]
<1> DEFINE s == Append(log[w], Ready(c).last)
<1>1. /\ asking[c] # NotAsking /\ Ready(c).tokens >= Minute
      /\ bucket' = [bucket EXCEPT ![w] = b]
      /\ log' = [log EXCEPT ![w] = Append(log[w], Ready(c).last)]
      /\ asking' = [asking EXCEPT ![c] = NotAsking]
      /\ UNCHANGED clock
  BY DEF Admit
<1>2. /\ w \in Workspaces /\ Ready(c) \in Bucket
      /\ Ready(c).last <= clock /\ Accounted(Ready(c), log[w])
  BY <1>1, ReadyFacts
<1>3. log[w] \in Seq(Nat) /\ Windows(log[w])
  BY <1>2 DEF IInv, TypeOK
<1>4. b \in Bucket /\ Accounted(b, s) /\ Windows(s)
  BY <1>1, <1>2, <1>3, AdmitAccounted
<1>5. s \in Seq(Nat) /\ b.last = Ready(c).last
  BY <1>2, <1>3 DEF Bucket
<1> HIDE DEF w, b, s
<1>6. log' = [log EXCEPT ![w] = s]
  BY <1>1 DEF s
<1> QED  BY <1>1, <1>2, <1>4, <1>5, <1>6, AnswerKeeps

LEMMA DenyInv ==
  ASSUME IInv, NEW c \in Callers, Deny(c)
  PROVE  IInv'
<1> DEFINE w == asking[c].ws
<1>1. /\ asking[c] # NotAsking
      /\ bucket' = [bucket EXCEPT ![w] = Ready(c)]
      /\ asking' = [asking EXCEPT ![c] = NotAsking]
      /\ UNCHANGED <<clock, log>>
  BY DEF Deny
<1>2. /\ w \in Workspaces /\ Ready(c) \in Bucket
      /\ Ready(c).last <= clock /\ Accounted(Ready(c), log[w])
  BY <1>1, ReadyFacts
<1>3. log[w] \in Seq(Nat) /\ Windows(log[w]) /\ log' = [log EXCEPT ![w] = log[w]]
  BY <1>1, <1>2 DEF IInv, TypeOK
<1> HIDE DEF w
<1> QED  BY <1>1, <1>2, <1>3, AnswerKeeps

LEMMA StepInv == IInv /\ [Next]_vars => IInv'
<1> SUFFICES ASSUME IInv, [Next]_vars PROVE IInv'
  OBVIOUS
<1>1. CASE UNCHANGED vars
  BY <1>1 DEF vars, IInv, TypeOK, BucketInv
<1> QED  BY <1>1, TickInv, ReadClockInv, AdmitInv, DenyInv DEF Next

LEMMA Invariance == Spec => []IInv
  BY InitInv, StepInv, PTL DEF Spec

------------------------------------------------------------------------------
(***************************************************************************)
(* The properties.                                                         *)
(***************************************************************************)

\* Tokens stay between none and the rate, for any rate and any number of
\* workspaces and requests.
THEOREM TypeCorrect == Spec => []TypeOK
<1>1. IInv => TypeOK
  BY DEF IInv
<1> QED  BY <1>1, Invariance, PTL

\* In no window of time are more requests admitted than the rate allows,
\* however the requests interleave.
THEOREM AdmissionsWithinBudget == Spec => []WithinBudget
<1>1. IInv => WithinBudget
  BY DEF IInv, Windows, WithinBudget
<1> QED  BY <1>1, Invariance, PTL

\* The same from the first admission up to the present time.
THEOREM AdmissionsWithinRealTime == Spec => []WithinRealTime
<1>1. ASSUME IInv, NEW w \in Workspaces, log[w] # <<>>
      PROVE  Len(log[w]) * Minute <= Budget(log[w][1], clock)
  <2> DEFINE s == log[w]
  <2> DEFINE b == bucket[w]
  <2>1. /\ s \in Seq(Nat) /\ s # <<>> /\ clock \in Nat
        /\ b \in Bucket /\ b.last <= clock /\ Accounted(b, s)
    BY <1>1 DEF IInv, TypeOK, BucketInv
  <2>2. 1 \in 1..Len(s) /\ s[1] \in Nat /\ Len(s) \in Nat /\ Since(s, 1) = Len(s) * Minute
    <3>1. 1 \in 1..Len(s) /\ s[1] \in Nat /\ Len(s) \in Nat
      BY <2>1
    <3>2. Len(s) - 1 + 1 = Len(s)
      BY <3>1
    <3> QED  BY <3>1, <3>2 DEF Since
  <2> HIDE DEF s, b
  <2>3. Since(s, 1) + b.tokens <= Budget(s[1], b.last)
    BY <2>1, <2>2 DEF Accounted
  <2>4. b.last \in Nat /\ b.tokens \in Nat
    BY <2>1, FullType DEF Bucket
  <2>5. /\ Budget(s[1], b.last) <= Budget(s[1], clock)
        /\ Budget(s[1], b.last) \in Int /\ Budget(s[1], clock) \in Int
    BY <2>1, <2>2, <2>4, BudgetGrows, BudgetType
  <2>6. Len(s) * Minute \in Int
    BY <2>2, RateAssumption
  <2>7. Len(s) * Minute <= Budget(s[1], clock)
    BY <2>2, <2>3, <2>4, <2>5, <2>6
  <2> QED  BY <2>7 DEF s
<1>2. IInv => WithinRealTime
  BY <1>1 DEF WithinRealTime
<1> QED  BY <1>2, Invariance, PTL

\* A request is refused only when one more would exceed the budget of a
\* window: the limiter never refuses what the rate allows.
THEOREM RefusalsAreDue == Spec => DeniedOnlyWhenSpent
<1>1. ASSUME IInv, Next, NEW c \in Callers, DenyStep(c)
      PROVE  Spent(asking[c].ws, bucket'[asking[c].ws].last)
  <2> DEFINE w == asking[c].ws
  <2> DEFINE b == Ready(c)
  <2> DEFINE s == log[w]
  <2>1. Deny(c)
    <3>1. asking \in [Callers -> Asking] /\ log \in [Workspaces -> Seq(Nat)]
      BY <1>1 DEF IInv, TypeOK
    <3>2. ~Tick
      BY <1>1 DEF DenyStep, Tick
    <3>3. ASSUME NEW d \in Callers, NEW v \in Workspaces PROVE ~ReadClock(d, v)
      BY <1>1, <3>1 DEF DenyStep, ReadClock, NotAsking
    <3>4. ASSUME NEW d \in Callers, Admit(d) PROVE FALSE
      <4>1. asking[d].ws \in Workspaces /\ log[asking[d].ws] \in Seq(Nat)
        BY <1>1, <3>1, <3>4, ReadyFacts DEF Admit
      <4>2. log'[asking[d].ws] = Append(log[asking[d].ws], Ready(d).last)
        BY <3>1, <3>4, <4>1 DEF Admit
      <4>3. Len(log'[asking[d].ws]) = Len(log[asking[d].ws]) + 1
        BY <4>1, <4>2
      <4>4. log' = log
        BY <1>1 DEF DenyStep
      <4>5. Len(log[asking[d].ws]) \in Nat
        BY <4>1
      <4> QED  BY <4>3, <4>4, <4>5
    <3>5. ASSUME NEW d \in Callers, Deny(d) PROVE d = c
      BY <1>1, <3>1, <3>5 DEF DenyStep, Deny
    <3> QED  BY <1>1, <3>2, <3>3, <3>4, <3>5 DEF Next
  <2>2. /\ asking[c] # NotAsking /\ b.tokens < Minute
        /\ bucket' = [bucket EXCEPT ![w] = b]
    BY <2>1 DEF Deny
  <2>3. w \in Workspaces /\ b \in Bucket /\ Accounted(b, s)
    BY <1>1, <2>2, ReadyFacts
  <2>4. bucket'[w] = b /\ s \in Seq(Nat)
    BY <1>1, <2>2, <2>3 DEF IInv, TypeOK
  <2> HIDE DEF w, b, s
  <2>5. /\ b.tokens \in Nat /\ b.last \in Nat /\ Minute \in Nat /\ Full \in Nat
        /\ Minute <= Full
    BY <2>3, FullType, RateAssumption DEF Bucket
  <2>6. PICK i \in 1..Len(s) : Since(s, i) + b.tokens = Budget(s[i], b.last)
    BY <2>2, <2>3, <2>5 DEF Accounted
  <2>7. (Len(s) - i + 2) * Minute = Since(s, i) + Minute /\ Since(s, i) \in Int
    <3>1. Len(s) \in Nat /\ i \in Int
      BY <2>4
    <3>2. \A x \in Int : (x + 1) * Minute = x * Minute + Minute /\ x * Minute \in Int
      BY <2>5
    <3>3. Len(s) - i + 1 \in Int /\ Len(s) - i + 2 = (Len(s) - i + 1) + 1
      BY <3>1
    <3> QED  BY <3>2, <3>3 DEF Since
  <2>8. (Len(s) - i + 2) * Minute > Budget(s[i], b.last)
    BY <2>2, <2>5, <2>6, <2>7
  <2> QED  BY <2>4, <2>8 DEF Spent, w, s
<1>2. IInv /\ [Next]_vars =>
        [\A c \in Callers :
           DenyStep(c) => Spent(asking[c].ws, bucket'[asking[c].ws].last)]_vars
  BY <1>1
<1> QED  BY <1>2, Invariance, PTL DEF Spec, DeniedOnlyWhenSpent

==============================================================================
