--------------------------- MODULE ApiProcessProofs ---------------------------
(***************************************************************************)
(* Proofs about ApiProcess: whenever a process is stopped, killed or cut   *)
(* off, what was accepted is kept, a stop in time harms no request, and    *)
(* the prune loop deletes no row before its time.                          *)
(***************************************************************************)
EXTENDS ApiProcess, SequenceTheorems, TLAPS

(***************************************************************************)
(* The inductive invariant.                                                *)
(***************************************************************************)

\* The items that are in the database, or were.
StoredItems == {w.item : w \in rows} \cup pruned

\* A request has stored the items before its position; it has more to do when
\* it is in a statement, and nothing once it is accepted.
HandlerOk(r) ==
  LET h == handler[r]
  IN  /\ \A i \in DOMAIN Batch[r] : i < h.pos => Batch[r][i] \in StoredItems
      /\ \A p \in Procs : h.at = <<"busy", p>> => h.pos <= Len(Batch[r])
      /\ h.at = <<"accepted">> => h.pos > Len(Batch[r])

HandlersOk == \A r \in Requests : HandlerOk(r)

\* Only a deadline leaves requests in a process whose pool is closed.
ClosingHurts ==
  \A r \in Requests, p \in Procs : Open(r, p) /\ life[p] = "closing" => r \in hurt

\* A prune goes by a time that has been, and has tables to do that have a
\* retention.
PruneOk(p) ==
  LET g == pruning[p]
  IN  /\ g.now <= clock
      /\ g.todo = <<>> => g = NotPruning
      /\ \A i \in DOMAIN g.todo : days[g.todo[i]] > 0

PrunesOk == \A p \in Procs : PruneOk(p)

ApiInv == TypeOK /\ HandlersOk /\ ClosingHurts /\ DrainIsGraceful /\ PrunesOk

------------------------------------------------------------------------------
(***************************************************************************)
(* Lemmas.                                                                 *)
(***************************************************************************)

\* A retention that fits a time.Duration is subtracted as it is.
LEMMA WrapFits ==
  ASSUME NEW d \in Nat, d <= MaxDays
  PROVE  Wrap(-d) = -d
<1>1. MaxDays \in Nat
  BY ApiAssumption
<1>2. 0 <= (-d) + MaxDays /\ (-d) + MaxDays < 2 * MaxDays + 1
  BY <1>1
<1>3. ((-d) + MaxDays) % (2 * MaxDays + 1) = (-d) + MaxDays
  BY <1>1, <1>2
<1> QED  BY <1>1, <1>3 DEF Wrap

LEMMA RetentionIsNat ==
  ASSUME TypeOK, NEW t \in Tables
  PROVE  days[t] \in Nat
  BY ApiAssumption DEF TypeOK

LEMMA OnlyIfFacts ==
  ASSUME NEW t \in Tables, NEW c \in BOOLEAN
  PROVE  /\ OnlyIf(c, t) \in Seq(Tables)
         /\ \A i \in DOMAIN OnlyIf(c, t) : OnlyIf(c, t)[i] = t /\ c
<1>1. CASE c
  BY <1>1 DEF OnlyIf
<1>2. CASE ~c
  BY <1>2 DEF OnlyIf
<1> QED  BY <1>1, <1>2

\* What holds of the elements of two sequences holds of their concatenation.
LEMMA ConcatKeeps ==
  ASSUME NEW S, NEW T, NEW a \in Seq(S), NEW b \in Seq(S),
         \A i \in DOMAIN a : a[i] \in T, \A i \in DOMAIN b : b[i] \in T
  PROVE  a \o b \in Seq(S) /\ \A i \in DOMAIN (a \o b) : (a \o b)[i] \in T
<1>1. /\ a \o b \in Seq(S)
      /\ Len(a \o b) = Len(a) + Len(b)
      /\ \A i \in 1 .. Len(a) + Len(b) :
           (a \o b)[i] = IF i <= Len(a) THEN a[i] ELSE b[i - Len(a)]
  BY ConcatProperties
<1>2. Len(a) \in Nat /\ Len(b) \in Nat /\ DOMAIN a = 1 .. Len(a) /\ DOMAIN b = 1 .. Len(b)
  OBVIOUS
<1>3. DOMAIN (a \o b) = 1 .. Len(a) + Len(b)
  BY <1>1
<1>4. ASSUME NEW i \in 1 .. Len(a) + Len(b)
      PROVE  (a \o b)[i] \in T
  <2>1. CASE i <= Len(a)
    BY <2>1, <1>1, <1>2
  <2>2. CASE i > Len(a)
    <3>1. i - Len(a) \in DOMAIN b
      BY <2>2, <1>2
    <3> QED  BY <3>1, <2>2, <1>1, <1>2
  <2> QED  BY <2>1, <2>2, <1>2
<1> QED  BY <1>1, <1>3, <1>4

\* The tables a tick sets out to prune are those that have a retention.
LEMMA ToPruneFacts ==
  ASSUME TypeOK
  PROVE  /\ ToPrune \in Seq(Tables)
         /\ \A i \in DOMAIN ToPrune : days[ToPrune[i]] > 0
<1> DEFINE Kept == {t \in Tables : days[t] > 0}
           e == OnlyIf(days["events"] > 0, "events")
           s == OnlyIf(days["snapshots"] > 0, "snapshots")
<1>1. "events" \in Tables /\ "snapshots" \in Tables
  BY DEF Tables
<1>2. (days["events"] > 0) \in BOOLEAN /\ (days["snapshots"] > 0) \in BOOLEAN
  BY <1>1, RetentionIsNat
<1>3. e \in Seq(Tables) /\ \A i \in DOMAIN e : e[i] = "events" /\ days["events"] > 0
  BY <1>1, <1>2, OnlyIfFacts
<1>4. s \in Seq(Tables) /\ \A i \in DOMAIN s : s[i] = "snapshots" /\ days["snapshots"] > 0
  BY <1>1, <1>2, OnlyIfFacts
<1>5. ToPrune = e \o s
  BY DEF ToPrune
<1> HIDE DEF e, s
<1>6. /\ \A i \in DOMAIN e : e[i] \in Kept
      /\ \A i \in DOMAIN s : s[i] \in Kept
  BY <1>1, <1>3, <1>4
<1>7. ToPrune \in Seq(Tables) /\ \A i \in DOMAIN ToPrune : ToPrune[i] \in Kept
  BY <1>3, <1>4, <1>5, <1>6, ConcatKeeps
<1> QED  BY <1>7

\* What is left to prune is part of what there was.
LEMMA PruneNextFacts ==
  ASSUME ApiInv, NEW p \in Procs, pruning[p] # NotPruning, PruneNext(p)
  PROVE  /\ pruning' \in [Procs -> [now : Nat, todo : Seq(Tables)]]
         /\ UNCHANGED <<clock, days>> => PrunesOk'
<1> DEFINE g == pruning[p]
<1>1. g.todo # <<>> /\ g.todo \in Seq(Tables) /\ g.now \in Nat /\ g.now <= clock
  BY DEF ApiInv, TypeOK, PrunesOk, PruneOk
<1>2. NotPruning \in [now : Nat, todo : Seq(Tables)]
  BY DEF NotPruning
<1>3. CASE life[p] = "serving" /\ Len(g.todo) > 1
  <2>1. pruning' = [pruning EXCEPT ![p] = [now |-> g.now, todo |-> Tail(g.todo)]]
    BY <1>3 DEF PruneNext
  <2>2. /\ Tail(g.todo) \in Seq(Tables)
        /\ Len(Tail(g.todo)) = Len(g.todo) - 1
        /\ \A i \in 1 .. Len(g.todo) - 1 : Tail(g.todo)[i] = g.todo[i + 1]
    BY <1>1, HeadTailProperties
  <2>3. pruning' \in [Procs -> [now : Nat, todo : Seq(Tables)]]
    BY <2>1, <2>2, <1>1 DEF ApiInv, TypeOK
  <2>4. ASSUME UNCHANGED <<clock, days>>, NEW q \in Procs
        PROVE  PruneOk(q)'
    <3>1. CASE q = p
      <4>1. pruning'[q] = [now |-> g.now, todo |-> Tail(g.todo)]
        BY <2>1, <3>1 DEF ApiInv, TypeOK
      <4>2. Tail(g.todo) # <<>>
        <5>1. Len(Tail(g.todo)) # 0
          <6>1. Len(g.todo) \in Nat /\ Len(g.todo) > 1
            BY <1>1, <1>3
          <6>2. \A n \in Nat : n > 1 => n - 1 # 0
            OBVIOUS
          <6> QED  BY <6>1, <6>2, <2>2
        <5>2. Len(<<>>) = 0
          OBVIOUS
        <5> QED  BY <5>1, <5>2
      <4>3. DOMAIN Tail(g.todo) = 1 .. Len(g.todo) - 1 /\ DOMAIN g.todo = 1 .. Len(g.todo)
        BY <2>2, <1>1
      <4>4. \A i \in DOMAIN Tail(g.todo) : days[Tail(g.todo)[i]] > 0
        BY <4>3, <2>2, <1>1 DEF ApiInv, PrunesOk, PruneOk
      <4> QED  BY <4>1, <4>2, <4>4, <1>1, <2>4 DEF PruneOk
    <3>2. CASE q # p
      BY <2>1, <2>4, <3>2 DEF ApiInv, TypeOK, PrunesOk, PruneOk
    <3> QED  BY <3>1, <3>2
  <2> QED  BY <2>3, <2>4 DEF PrunesOk
<1>4. CASE ~(life[p] = "serving" /\ Len(g.todo) > 1)
  <2>1. pruning' = [pruning EXCEPT ![p] = NotPruning]
    BY <1>4 DEF PruneNext
  <2>2. pruning' \in [Procs -> [now : Nat, todo : Seq(Tables)]]
    BY <2>1, <1>2 DEF ApiInv, TypeOK
  <2>3. ASSUME UNCHANGED <<clock, days>>, NEW q \in Procs
        PROVE  PruneOk(q)'
    <3>1. CASE q = p
      <4>1. pruning'[q] = NotPruning /\ NotPruning.now = 0 /\ NotPruning.todo = <<>>
        BY <2>1, <3>1 DEF ApiInv, TypeOK, NotPruning
      <4>2. clock \in Nat
        BY DEF ApiInv, TypeOK
      <4> QED  BY <4>1, <4>2, <2>3 DEF PruneOk
    <3>2. CASE q # p
      BY <2>1, <2>3, <3>2 DEF ApiInv, TypeOK, PrunesOk, PruneOk
    <3> QED  BY <3>1, <3>2
  <2> QED  BY <2>2, <2>3 DEF PrunesOk
<1> QED  BY <1>3, <1>4

\* What was stored stays stored as long as rows are only deleted by a prune.
LEMMA StoredKept ==
  ASSUME StoredItems \subseteq StoredItems', UNCHANGED handler, HandlersOk
  PROVE  HandlersOk'
<1>1. SUFFICES ASSUME NEW r \in Requests
               PROVE  HandlerOk(r)'
  BY DEF HandlersOk
<1>2. HandlerOk(r)
  BY DEF HandlersOk
<1> QED  BY <1>2 DEF HandlerOk

\* A prune that moves on, or does not, when nobody's requests do.
LEMMA OtherVariables ==
  ASSUME ApiInv, UNCHANGED <<handler, hurt>>,
         \A p \in Procs : life'[p] = "closing" => life[p] = "closing"
  PROVE  ClosingHurts' /\ DrainIsGraceful'
<1>1. ClosingHurts'
  BY DEF ApiInv, ClosingHurts, Open, At
<1>2. DrainIsGraceful'
  BY DEF ApiInv, DrainIsGraceful
<1> QED  BY <1>1, <1>2

\* The batch of a request, and what its handler is.
LEMMA RequestFacts ==
  ASSUME TypeOK, NEW r \in Requests
  PROVE  /\ Batch[r] \in Seq(Items)
         /\ Len(Batch[r]) \in Nat
         /\ DOMAIN Batch[r] = 1 .. Len(Batch[r])
         /\ handler[r].pos \in Nat \ {0}
         /\ handler[r].born \in Nat
<1>1. Batch[r] \in Seq(Items)
  BY ApiAssumption
<1> QED  BY <1>1 DEF TypeOK

\* The row of a statement is of the item its handler has got to.
LEMMA RowFacts ==
  ASSUME ApiInv, NEW r \in Requests, NEW p \in Procs, At(r, p, "busy")
  PROVE  /\ RowOf(r) \in Row
         /\ RowOf(r).item = Batch[r][handler[r].pos]
<1>1. handler[r].pos \in 1 .. Len(Batch[r])
  BY RequestFacts DEF ApiInv, HandlersOk, HandlerOk, At
<1>2. Batch[r][handler[r].pos] \in Items
  BY <1>1, RequestFacts DEF ApiInv
<1> QED  BY <1>2, RequestFacts DEF ApiInv, RowOf, Row

\* The handlers' type.
HandlerStates ==
  [at   : {<<"unsent">>, <<"accepted">>, <<"refused">>, <<"lost">>}
            \cup ({"ready", "busy"} \X Procs),
   pos  : Nat \ {0},
   born : Nat]

LEMMA AtExcept ==
  ASSUME NEW h \in HandlerStates, NEW a
  PROVE  [h EXCEPT !.at = a] = [at |-> a, pos |-> h.pos, born |-> h.born]
  BY DEF HandlerStates

\* A process that ends loses the requests it has open, and no others.
LEMMA LoseFacts ==
  ASSUME ApiInv, NEW p \in Procs, Lose(p), StoredItems \subseteq StoredItems'
  PROVE  /\ handler' \in [Requests -> HandlerStates]
         /\ HandlersOk'
         /\ \A r \in Requests : ~Open(r, p) => handler'[r] = handler[r]
         /\ \A r \in Requests : Open(r, p) => handler'[r].at = <<"lost">>
<1>0. handler \in [Requests -> HandlerStates]
  BY DEF ApiInv, TypeOK, HandlerStates
<1>1. \A r \in Requests : ~Open(r, p) => handler'[r] = handler[r]
  BY DEF Lose
<1>2. \A r \in Requests : Open(r, p) =>
        handler'[r] = [handler[r] EXCEPT !.at = <<"lost">>]
  BY DEF Lose
<1>3. \A r \in Requests : Open(r, p) =>
        handler'[r] = [at |-> <<"lost">>, pos |-> handler[r].pos, born |-> handler[r].born]
  BY <1>2, <1>0, AtExcept
<1>4. ASSUME NEW r \in Requests
      PROVE  HandlerOk(r)'
  <2>0. HandlerOk(r)
    BY DEF ApiInv, HandlersOk
  <2>1. CASE Open(r, p)
    <3>0. handler'[r] = [at |-> <<"lost">>, pos |-> handler[r].pos, born |-> handler[r].born]
      BY <1>3, <2>1
    <3>1. handler'[r].at = <<"lost">> /\ handler'[r].pos = handler[r].pos
      BY <3>0
    <3>2. \A i \in DOMAIN Batch[r] : i < handler'[r].pos => Batch[r][i] \in StoredItems'
      BY <3>1, <2>0 DEF HandlerOk
    <3>3. <<"lost">> # <<"accepted">> /\ \A q : <<"lost">> # <<"busy", q>>
      OBVIOUS
    <3> QED  BY <3>1, <3>2, <3>3 DEF HandlerOk
  <2>2. CASE ~Open(r, p)
    <3>1. handler'[r] = handler[r]
      BY <1>1, <2>2
    <3> QED  BY <3>1, <2>0 DEF HandlerOk
  <2> QED  BY <2>1, <2>2
<1>5. DOMAIN handler' = Requests /\ handler' = [r \in Requests |-> handler'[r]]
  BY DEF Lose
<1>6. ASSUME NEW r \in Requests
      PROVE  handler'[r] \in HandlerStates
  <2>1. handler[r] \in HandlerStates
    BY <1>0
  <2>2. handler[r].pos \in Nat \ {0} /\ handler[r].born \in Nat
    BY <2>1 DEF HandlerStates
  <2>3. CASE Open(r, p)
    <3>1. handler'[r] = [at |-> <<"lost">>, pos |-> handler[r].pos, born |-> handler[r].born]
      BY <1>3, <2>3
    <3> QED  BY <3>1, <2>2 DEF HandlerStates
  <2>4. CASE ~Open(r, p)
    BY <1>1, <2>1, <2>4
  <2> QED  BY <2>3, <2>4
<1> QED  BY <1>1, <1>3, <1>4, <1>5, <1>6 DEF HandlersOk

------------------------------------------------------------------------------
(***************************************************************************)
(* The steps of a request.                                                 *)
(***************************************************************************)

\* What the invariant asks of a step that takes request r to the state h.
LEMMA HandlerStep ==
  ASSUME ApiInv, NEW r \in Requests, NEW h \in HandlerStates,
         handler' = [handler EXCEPT ![r] = h],
         StoredItems \subseteq StoredItems',
         \A i \in DOMAIN Batch[r] : i < h.pos => Batch[r][i] \in StoredItems',
         \A p \in Procs : h.at = <<"busy", p>> => h.pos <= Len(Batch[r]),
         h.at = <<"accepted">> => h.pos > Len(Batch[r]),
         UNCHANGED life,
         hurt \subseteq hurt',
         \A p \in Procs : h.at \in {<<"ready", p>>, <<"busy", p>>} /\ life[p] = "closing"
                            => r \in hurt',
         h.at \in {<<"refused">>, <<"lost">>} => r \in hurt'
  PROVE  /\ handler' \in [Requests -> HandlerStates]
         /\ HandlersOk' /\ ClosingHurts' /\ DrainIsGraceful'
<1>1. handler \in [Requests -> HandlerStates]
  BY DEF ApiInv, TypeOK, HandlerStates
<1>2. handler' \in [Requests -> HandlerStates]
  BY <1>1
<1>3. handler'[r] = h /\ \A s \in Requests \ {r} : handler'[s] = handler[s]
  BY <1>1
<1>4. ASSUME NEW s \in Requests
      PROVE  HandlerOk(s)'
  <2>1. CASE s = r
    BY <1>3, <2>1 DEF HandlerOk
  <2>2. CASE s # r
    <3>1. HandlerOk(s)
      BY DEF ApiInv, HandlersOk
    <3>2. handler'[s] = handler[s]
      BY <1>3, <2>2
    <3> QED  BY <3>1, <3>2 DEF HandlerOk
  <2> QED  BY <2>1, <2>2
<1>5. ASSUME NEW s \in Requests, NEW p \in Procs, Open(s, p)', life'[p] = "closing"
      PROVE  s \in hurt'
  <2>1. CASE s = r
    BY <1>3, <1>5, <2>1 DEF Open, At
  <2>2. CASE s # r
    <3>1. Open(s, p)
      BY <1>3, <1>5, <2>2 DEF Open, At
    <3> QED  BY <3>1, <1>5 DEF ApiInv, ClosingHurts
  <2> QED  BY <2>1, <2>2
<1>6. ASSUME NEW s \in Requests, handler'[s].at \in {<<"refused">>, <<"lost">>}
      PROVE  s \in hurt'
  <2>1. CASE s = r
    BY <1>3, <1>6, <2>1
  <2>2. CASE s # r
    BY <1>3, <1>6, <2>2 DEF ApiInv, DrainIsGraceful
  <2> QED  BY <2>1, <2>2
<1> QED  BY <1>2, <1>4, <1>5, <1>6 DEF HandlersOk, ClosingHurts, DrainIsGraceful

\* Becomes changes nothing of a handler but where it is.
LEMMA BecomesFacts ==
  ASSUME TypeOK, NEW r \in Requests, NEW a, Becomes(r, a)
  PROVE  handler' = [handler EXCEPT ![r] =
                       [at |-> a, pos |-> handler[r].pos, born |-> handler[r].born]]
<1>1. handler \in [Requests -> HandlerStates]
  BY DEF TypeOK, HandlerStates
<1>2. handler' = [handler EXCEPT ![r] = [handler[r] EXCEPT !.at = a]]
  BY DEF Becomes
<1> QED  BY <1>1, <1>2, AtExcept

\* The prunes do not notice the requests.
LEMMA PrunesUntouched ==
  ASSUME PrunesOk, UNCHANGED <<pruning, clock, days>>
  PROVE  PrunesOk'
BY DEF PrunesOk, PruneOk

\* The places a handler may be at differ.
LEMMA Places ==
  ASSUME NEW p, NEW q
  PROVE  /\ <<"ready", p>> # <<"busy", q>>
         /\ <<"ready", p>> = <<"ready", q>> => p = q
         /\ <<"busy", p>> = <<"busy", q>> => p = q
         /\ \A x \in {<<"ready", p>>, <<"busy", p>>} :
              x \notin {<<"unsent">>, <<"accepted">>, <<"refused">>, <<"lost">>}
         /\ <<"accepted">> \notin {<<"refused">>, <<"lost">>}
OBVIOUS

LEMMA ArriveKeeps ==
  ASSUME ApiInv, NEW r \in Requests, NEW p \in Procs, Arrive(r, p)
  PROVE  ApiInv'
<1>1. PICK h \in HandlerStates :
        /\ handler' = [handler EXCEPT ![r] = h]
        /\ h.at = <<"ready", p>> /\ h.pos = handler[r].pos
  <2>1. [at |-> <<"ready", p>>, pos |-> handler[r].pos, born |-> handler[r].born]
          \in HandlerStates
    BY RequestFacts DEF HandlerStates, ApiInv
  <2> QED  BY <2>1, BecomesFacts DEF Arrive, ApiInv
<1>2. StoredItems' = StoredItems
  BY DEF Arrive, StoredItems
<1>3. handler' \in [Requests -> HandlerStates] /\ HandlersOk' /\ ClosingHurts' /\ DrainIsGraceful'
  <2>1. life[p] = "serving" /\ UNCHANGED <<life, hurt>>
    BY DEF Arrive
  <2>2. \A i \in DOMAIN Batch[r] : i < h.pos => Batch[r][i] \in StoredItems'
    BY <1>1, <1>2 DEF ApiInv, HandlersOk, HandlerOk
  <2>3. \A q \in Procs : h.at \in {<<"ready", q>>, <<"busy", q>>} => q = p
    BY <1>1, Places
  <2>4. h.at \notin {<<"refused">>, <<"lost">>, <<"accepted">>} /\ \A q : h.at # <<"busy", q>>
    BY <1>1, Places
  <2> QED  BY <1>1, <1>2, <2>1, <2>2, <2>3, <2>4, HandlerStep
<1>4. PrunesOk'
  BY PrunesUntouched DEF Arrive, ApiInv
<1>5. TypeOK'
  BY <1>3 DEF Arrive, ApiInv, TypeOK, HandlerStates
<1> QED  BY <1>3, <1>4, <1>5 DEF ApiInv

LEMMA BeginInsertKeeps ==
  ASSUME ApiInv, NEW r \in Requests, NEW p \in Procs, BeginInsert(r, p)
  PROVE  ApiInv'
<1>1. PICK h \in HandlerStates :
        /\ handler' = [handler EXCEPT ![r] = h]
        /\ h.at = <<"busy", p>> /\ h.pos = handler[r].pos
  <2>1. handler \in [Requests -> HandlerStates] /\ clock \in Nat
    BY DEF ApiInv, TypeOK, HandlerStates
  <2>2. handler' = [handler EXCEPT ![r] =
                      [at |-> <<"busy", p>>, pos |-> handler[r].pos, born |-> clock]]
    BY DEF BeginInsert
  <2>3. [at |-> <<"busy", p>>, pos |-> handler[r].pos, born |-> clock] \in HandlerStates
    BY <2>1, RequestFacts DEF HandlerStates, ApiInv
  <2> QED  BY <2>2, <2>3
<1>2. StoredItems' = StoredItems
  BY DEF BeginInsert, StoredItems
<1>3. handler' \in [Requests -> HandlerStates] /\ HandlersOk' /\ ClosingHurts' /\ DrainIsGraceful'
  <2>1. life[p] # "closing" /\ UNCHANGED <<life, hurt>> /\ h.pos <= Len(Batch[r])
    BY <1>1 DEF BeginInsert, Left
  <2>2. \A i \in DOMAIN Batch[r] : i < h.pos => Batch[r][i] \in StoredItems'
    BY <1>1, <1>2 DEF ApiInv, HandlersOk, HandlerOk
  <2>3. \A q \in Procs : h.at \in {<<"ready", q>>, <<"busy", q>>} => q = p
    BY <1>1, Places
  <2>4. h.at \notin {<<"refused">>, <<"lost">>, <<"accepted">>}
    BY <1>1, Places
  <2> QED  BY <1>1, <1>2, <2>1, <2>2, <2>3, <2>4, HandlerStep
<1>4. PrunesOk'
  BY PrunesUntouched DEF BeginInsert, ApiInv
<1>5. TypeOK'
  BY <1>3 DEF BeginInsert, ApiInv, TypeOK, HandlerStates
<1> QED  BY <1>3, <1>4, <1>5 DEF ApiInv

LEMMA EndInsertKeeps ==
  ASSUME ApiInv, NEW r \in Requests, NEW p \in Procs, EndInsert(r, p)
  PROVE  ApiInv'
<1>0. At(r, p, "busy") /\ rows' = rows \cup {RowOf(r)} /\ pruned' = pruned
  BY DEF EndInsert
<1>1. PICK h \in HandlerStates :
        /\ handler' = [handler EXCEPT ![r] = h]
        /\ h.at = <<"ready", p>> /\ h.pos = handler[r].pos + 1
  <2>1. handler \in [Requests -> HandlerStates]
    BY DEF ApiInv, TypeOK, HandlerStates
  <2>2. handler' = [handler EXCEPT ![r] =
                      [at |-> <<"ready", p>>, pos |-> handler[r].pos + 1, born |-> 0]]
    BY DEF EndInsert
  <2>3. [at |-> <<"ready", p>>, pos |-> handler[r].pos + 1, born |-> 0] \in HandlerStates
    BY <2>1, RequestFacts DEF HandlerStates, ApiInv
  <2> QED  BY <2>2, <2>3
<1>2. StoredItems' = StoredItems \cup {Batch[r][handler[r].pos]}
  BY <1>0, RowFacts DEF StoredItems
<1>3. handler' \in [Requests -> HandlerStates] /\ HandlersOk' /\ ClosingHurts' /\ DrainIsGraceful'
  <2>1. UNCHANGED <<life, hurt>> /\ (life[p] = "closing" => r \in hurt)
    BY <1>0 DEF EndInsert, ApiInv, ClosingHurts, Open
  <2>2. \A i \in DOMAIN Batch[r] : i < h.pos => Batch[r][i] \in StoredItems'
    <3>1. \A i \in DOMAIN Batch[r] : i < h.pos => i < handler[r].pos \/ i = handler[r].pos
      BY <1>1, RequestFacts DEF ApiInv
    <3> QED  BY <3>1, <1>2 DEF ApiInv, HandlersOk, HandlerOk
  <2>3. \A q \in Procs : h.at \in {<<"ready", q>>, <<"busy", q>>} => q = p
    BY <1>1, Places
  <2>4. h.at \notin {<<"refused">>, <<"lost">>, <<"accepted">>} /\ \A q : h.at # <<"busy", q>>
    BY <1>1, Places
  <2> QED  BY <1>1, <1>2, <2>1, <2>2, <2>3, <2>4, HandlerStep
<1>4. PrunesOk'
  BY PrunesUntouched DEF EndInsert, ApiInv
<1>5. TypeOK'
  <2>1. rows' \subseteq Row
    BY <1>0, RowFacts DEF ApiInv, TypeOK
  <2> QED  BY <1>0, <1>3, <2>1 DEF EndInsert, ApiInv, TypeOK, HandlerStates
<1> QED  BY <1>3, <1>4, <1>5 DEF ApiInv

LEMMA PoolClosedKeeps ==
  ASSUME ApiInv, NEW r \in Requests, NEW p \in Procs, PoolClosed(r, p)
  PROVE  ApiInv'
<1>1. PICK h \in HandlerStates :
        /\ handler' = [handler EXCEPT ![r] = h]
        /\ h.at = <<"refused">> /\ h.pos = handler[r].pos
  <2>1. [at |-> <<"refused">>, pos |-> handler[r].pos, born |-> handler[r].born]
          \in HandlerStates
    BY RequestFacts DEF HandlerStates, ApiInv
  <2> QED  BY <2>1, BecomesFacts DEF PoolClosed, ApiInv
<1>2. StoredItems' = StoredItems
  BY DEF PoolClosed, StoredItems
<1>3. handler' \in [Requests -> HandlerStates] /\ HandlersOk' /\ ClosingHurts' /\ DrainIsGraceful'
  <2>1. r \in hurt /\ UNCHANGED <<life, hurt>>
    BY DEF PoolClosed, ApiInv, ClosingHurts, Open
  <2>2. \A i \in DOMAIN Batch[r] : i < h.pos => Batch[r][i] \in StoredItems'
    BY <1>1, <1>2 DEF ApiInv, HandlersOk, HandlerOk
  <2>3. h.at # <<"accepted">> /\ \A q : h.at # <<"busy", q>>
    BY <1>1, Places
  <2> QED  BY <1>1, <1>2, <2>1, <2>2, <2>3, HandlerStep
<1>4. PrunesOk'
  BY PrunesUntouched DEF PoolClosed, ApiInv
<1>5. TypeOK'
  BY <1>3 DEF PoolClosed, ApiInv, TypeOK, HandlerStates
<1> QED  BY <1>3, <1>4, <1>5 DEF ApiInv

LEMMA AcceptKeeps ==
  ASSUME ApiInv, NEW r \in Requests, NEW p \in Procs, Accept(r, p)
  PROVE  ApiInv'
<1>1. PICK h \in HandlerStates :
        /\ handler' = [handler EXCEPT ![r] = h]
        /\ h.at = <<"accepted">> /\ h.pos = handler[r].pos
  <2>1. [at |-> <<"accepted">>, pos |-> handler[r].pos, born |-> handler[r].born]
          \in HandlerStates
    BY RequestFacts DEF HandlerStates, ApiInv
  <2> QED  BY <2>1, BecomesFacts DEF Accept, ApiInv
<1>2. StoredItems' = StoredItems
  BY DEF Accept, StoredItems
<1>3. handler' \in [Requests -> HandlerStates] /\ HandlersOk' /\ ClosingHurts' /\ DrainIsGraceful'
  <2>1. UNCHANGED <<life, hurt>> /\ h.pos > Len(Batch[r])
    BY <1>1, RequestFacts DEF Accept, Left, ApiInv
  <2>2. \A i \in DOMAIN Batch[r] : i < h.pos => Batch[r][i] \in StoredItems'
    BY <1>1, <1>2 DEF ApiInv, HandlersOk, HandlerOk
  <2>3. \A q : h.at \notin {<<"ready", q>>, <<"busy", q>>}
    BY <1>1, Places
  <2>4. h.at \notin {<<"refused">>, <<"lost">>}
    BY <1>1, Places
  <2> QED  BY <1>1, <1>2, <2>1, <2>2, <2>3, <2>4, HandlerStep
<1>4. PrunesOk'
  BY PrunesUntouched DEF Accept, ApiInv
<1>5. TypeOK'
  BY <1>3 DEF Accept, ApiInv, TypeOK, HandlerStates
<1> QED  BY <1>3, <1>4, <1>5 DEF ApiInv

LEMMA InsertFaultKeeps ==
  ASSUME ApiInv, NEW r \in Requests, NEW p \in Procs, InsertFault(r, p)
  PROVE  ApiInv'
<1>0. /\ At(r, p, "busy")
      /\ rows' = rows \/ rows' = rows \cup {RowOf(r)}
      /\ pruned' = pruned
      /\ hurt' = hurt \cup {r}
  BY DEF InsertFault
<1>1. PICK h \in HandlerStates :
        /\ handler' = [handler EXCEPT ![r] = h]
        /\ h.at = <<"refused">> /\ h.pos = handler[r].pos
  <2>1. [at |-> <<"refused">>, pos |-> handler[r].pos, born |-> handler[r].born]
          \in HandlerStates
    BY RequestFacts DEF HandlerStates, ApiInv
  <2> QED  BY <2>1, BecomesFacts DEF InsertFault, ApiInv
<1>2. StoredItems \subseteq StoredItems'
  BY <1>0 DEF StoredItems
<1>3. handler' \in [Requests -> HandlerStates] /\ HandlersOk' /\ ClosingHurts' /\ DrainIsGraceful'
  <2>1. UNCHANGED life /\ r \in hurt' /\ hurt \subseteq hurt'
    BY <1>0 DEF InsertFault
  <2>2. \A i \in DOMAIN Batch[r] : i < h.pos => Batch[r][i] \in StoredItems'
    BY <1>1, <1>2 DEF ApiInv, HandlersOk, HandlerOk
  <2>3. h.at # <<"accepted">> /\ \A q : h.at # <<"busy", q>>
    BY <1>1, Places
  <2> QED  BY <1>1, <1>2, <2>1, <2>2, <2>3, HandlerStep
<1>4. PrunesOk'
  BY PrunesUntouched DEF InsertFault, ApiInv
<1>5. TypeOK'
  <2>1. rows' \subseteq Row
    BY <1>0, RowFacts DEF ApiInv, TypeOK
  <2> QED  BY <1>0, <1>3, <2>1 DEF InsertFault, ApiInv, TypeOK, HandlerStates
<1> QED  BY <1>3, <1>4, <1>5 DEF ApiInv

------------------------------------------------------------------------------
(***************************************************************************)
(* The steps of the prune loop, and of the process.                        *)
(***************************************************************************)

LEMMA PruneTickKeeps ==
  ASSUME ApiInv, NEW p \in Procs, PruneTick(p)
  PROVE  ApiInv'
<1> DEFINE g == [now |-> clock, todo |-> ToPrune]
<1>0. UNCHANGED <<failing, clock, days, life, handler, rows, pruned, hurt>>
  BY DEF PruneTick
<1>1. pruning' = [pruning EXCEPT ![p] = g] /\ ToPrune # <<>>
  BY DEF PruneTick
<1>2. ToPrune \in Seq(Tables) /\ \A i \in DOMAIN ToPrune : days[ToPrune[i]] > 0
  BY ToPruneFacts DEF ApiInv
<1>3. clock \in Nat /\ g \in [now : Nat, todo : Seq(Tables)]
  BY <1>2 DEF ApiInv, TypeOK
<1>4. ASSUME NEW q \in Procs
      PROVE  PruneOk(q)'
  <2>1. CASE q = p
    <3>1. pruning'[q] = g
      BY <1>1, <2>1 DEF ApiInv, TypeOK
    <3>2. g.now = clock /\ g.todo = ToPrune
      OBVIOUS
    <3> QED  BY <1>0, <1>1, <1>2, <1>3, <3>1, <3>2 DEF PruneOk
  <2>2. CASE q # p
    BY <1>0, <1>1, <2>2 DEF ApiInv, TypeOK, PrunesOk, PruneOk
  <2> QED  BY <2>1, <2>2
<1>5. StoredItems' = StoredItems
  BY <1>0 DEF StoredItems
<1>6. HandlersOk' /\ ClosingHurts' /\ DrainIsGraceful'
  BY <1>0, <1>5, StoredKept, OtherVariables DEF ApiInv
<1>7. TypeOK'
  BY <1>0, <1>1, <1>3 DEF ApiInv, TypeOK
<1> QED  BY <1>4, <1>6, <1>7 DEF ApiInv, PrunesOk

LEMMA PruneTableKeeps ==
  ASSUME ApiInv, NEW p \in Procs, PruneTable(p)
  PROVE  ApiInv'
<1>0. UNCHANGED <<failing, clock, days, life, handler, hurt>>
  BY DEF PruneTable
<1>1. PICK old \in SUBSET rows :
        rows' = rows \ old /\ pruned' = pruned \cup {w.item : w \in old}
  BY DEF PruneTable
<1>2. StoredItems \subseteq StoredItems'
  BY <1>1 DEF StoredItems
<1>3. HandlersOk' /\ ClosingHurts' /\ DrainIsGraceful'
  BY <1>0, <1>2, StoredKept, OtherVariables DEF ApiInv
<1>4. pruning' \in [Procs -> [now : Nat, todo : Seq(Tables)]] /\ PrunesOk'
  BY <1>0, PruneNextFacts DEF PruneTable
<1>5. TypeOK'
  <2>1. rows \subseteq Row /\ pruned \subseteq Items
    BY DEF ApiInv, TypeOK
  <2>2. \A w \in old : w.item \in Items
    BY <2>1 DEF Row
  <2>3. rows' \subseteq Row /\ pruned' \subseteq Items
    BY <1>1, <2>1, <2>2
  <2> QED  BY <1>0, <1>4, <2>3 DEF ApiInv, TypeOK
<1> QED  BY <1>3, <1>4, <1>5 DEF ApiInv

LEMMA PruneFailsKeeps ==
  ASSUME ApiInv, NEW p \in Procs, PruneFails(p)
  PROVE  ApiInv'
<1>0. UNCHANGED <<failing, clock, days, life, handler, rows, pruned, hurt>>
  BY DEF PruneFails
<1>1. StoredItems' = StoredItems
  BY <1>0 DEF StoredItems
<1>2. HandlersOk' /\ ClosingHurts' /\ DrainIsGraceful'
  BY <1>0, <1>1, StoredKept, OtherVariables DEF ApiInv
<1>3. pruning' \in [Procs -> [now : Nat, todo : Seq(Tables)]] /\ PrunesOk'
  BY <1>0, PruneNextFacts DEF PruneFails
<1>4. TypeOK'
  BY <1>0, <1>3 DEF ApiInv, TypeOK
<1> QED  BY <1>2, <1>3, <1>4 DEF ApiInv

\* What a step of the process that only changes its life has to keep.
LEMMA LifeStep ==
  ASSUME ApiInv, NEW p \in Procs, NEW l \in {"serving", "draining", "closing"},
         life' = [life EXCEPT ![p] = l],
         hurt' \in SUBSET Requests, hurt \subseteq hurt',
         l = "closing" => OpenAt(p) \subseteq hurt',
         UNCHANGED <<failing, clock, days, pruning, handler, rows, pruned>>
  PROVE  ApiInv'
<1>1. StoredItems' = StoredItems
  BY DEF StoredItems
<1>2. HandlersOk'
  BY <1>1, StoredKept DEF ApiInv
<1>3. ASSUME NEW r \in Requests, NEW q \in Procs, Open(r, q)', life'[q] = "closing"
      PROVE  r \in hurt'
  <2>1. Open(r, q)
    BY <1>3 DEF Open, At
  <2>2. CASE q = p
    BY <1>3, <2>1, <2>2 DEF OpenAt, ApiInv, TypeOK
  <2>3. CASE q # p
    BY <1>3, <2>1, <2>3 DEF ApiInv, TypeOK, ClosingHurts
  <2> QED  BY <2>2, <2>3
<1>4. DrainIsGraceful'
  BY DEF ApiInv, DrainIsGraceful
<1>5. PrunesOk'
  BY PrunesUntouched DEF ApiInv
<1>6. TypeOK'
  BY DEF ApiInv, TypeOK
<1> QED  BY <1>2, <1>3, <1>4, <1>5, <1>6 DEF ApiInv, ClosingHurts

LEMMA ProcessKeeps ==
  ASSUME ApiInv, NEW p \in Procs,
         Start(p) \/ Terminate(p) \/ Drained(p) \/ Deadline(p)
  PROVE  ApiInv'
<1>0. hurt \subseteq Requests /\ OpenAt(p) \subseteq Requests
  BY DEF ApiInv, TypeOK, OpenAt
<1>1. CASE Start(p)
  BY <1>0, <1>1, LifeStep DEF Start
<1>2. CASE Terminate(p)
  BY <1>0, <1>2, LifeStep DEF Terminate
<1>3. CASE Drained(p)
  <2>1. OpenAt(p) = {}
    BY <1>3 DEF Drained, OpenAt
  <2> QED  BY <1>0, <1>3, <2>1, LifeStep DEF Drained
<1>4. CASE Deadline(p)
  BY <1>0, <1>4, LifeStep DEF Deadline
<1> QED  BY <1>1, <1>2, <1>3, <1>4

\* A process that ends: what it leaves open is lost, and struck.
LEMMA EndStep ==
  ASSUME ApiInv, NEW p \in Procs, Lose(p), StoredItems \subseteq StoredItems',
         life' = [life EXCEPT ![p] = "down"],
         hurt \subseteq hurt', OpenAt(p) \subseteq hurt'
  PROVE  ClosingHurts' /\ DrainIsGraceful'
<1>1. /\ \A r \in Requests : ~Open(r, p) => handler'[r] = handler[r]
      /\ \A r \in Requests : Open(r, p) => handler'[r].at = <<"lost">>
  BY LoseFacts
<1>2. ASSUME NEW r \in Requests, NEW q \in Procs, Open(r, q)', life'[q] = "closing"
      PROVE  r \in hurt'
  <2>1. handler'[r].at # <<"lost">>
    BY <1>2, Places DEF Open, At
  <2>2. handler'[r] = handler[r]
    BY <1>1, <2>1
  <2>3. q # p /\ life[q] = "closing"
    BY <1>2 DEF ApiInv, TypeOK
  <2>4. Open(r, q)
    BY <1>2, <2>2 DEF Open, At
  <2> QED  BY <2>3, <2>4 DEF ApiInv, ClosingHurts
<1>3. ASSUME NEW r \in Requests, handler'[r].at \in {<<"refused">>, <<"lost">>}
      PROVE  r \in hurt'
  <2>1. CASE Open(r, p)
    BY <2>1 DEF OpenAt
  <2>2. CASE ~Open(r, p)
    BY <1>1, <1>3, <2>2 DEF ApiInv, DrainIsGraceful
  <2> QED  BY <2>1, <2>2
<1> QED  BY <1>2, <1>3 DEF ClosingHurts, DrainIsGraceful

LEMMA ExitKeeps ==
  ASSUME ApiInv, NEW p \in Procs, Exit(p)
  PROVE  ApiInv'
<1>0. UNCHANGED <<failing, clock, days, pruning, rows, pruned, hurt>> /\ Lose(p)
  BY DEF Exit
<1>1. StoredItems' = StoredItems
  BY <1>0 DEF StoredItems
<1>2. handler' \in [Requests -> HandlerStates] /\ HandlersOk'
  BY <1>0, <1>1, LoseFacts
<1>3. OpenAt(p) \subseteq hurt'
  BY <1>0 DEF Exit, OpenAt, ApiInv, ClosingHurts
<1>4. ClosingHurts' /\ DrainIsGraceful'
  BY <1>0, <1>1, <1>3, EndStep DEF Exit
<1>5. PrunesOk'
  BY <1>0, PrunesUntouched DEF ApiInv
<1>6. TypeOK'
  BY <1>0, <1>2 DEF Exit, ApiInv, TypeOK, HandlerStates
<1> QED  BY <1>2, <1>4, <1>5, <1>6 DEF ApiInv

LEMMA KillKeeps ==
  ASSUME ApiInv, NEW p \in Procs, Kill(p)
  PROVE  ApiInv'
<1>0. /\ UNCHANGED <<failing, clock, days, pruned>> /\ Lose(p)
      /\ pruning' = [pruning EXCEPT ![p] = NotPruning]
      /\ hurt' = hurt \cup OpenAt(p)
  BY DEF Kill
<1>1. PICK S \in SUBSET {r \in Requests : At(r, p, "busy")} :
        rows' = rows \cup {RowOf(r) : r \in S}
  BY DEF Kill
<1>2. StoredItems \subseteq StoredItems'
  BY <1>0, <1>1 DEF StoredItems
<1>3. handler' \in [Requests -> HandlerStates] /\ HandlersOk'
  BY <1>0, <1>2, LoseFacts
<1>4. ClosingHurts' /\ DrainIsGraceful'
  BY <1>0, <1>2, EndStep DEF Kill
<1>5. PrunesOk'
  <2>1. ASSUME NEW q \in Procs
        PROVE  PruneOk(q)'
    <3>1. CASE q = p
      <4>1. pruning'[q] = NotPruning /\ NotPruning.now = 0 /\ NotPruning.todo = <<>>
        BY <1>0, <3>1 DEF ApiInv, TypeOK, NotPruning
      <4>2. clock' \in Nat
        BY <1>0 DEF ApiInv, TypeOK
      <4> QED  BY <4>1, <4>2 DEF PruneOk
    <3>2. CASE q # p
      BY <1>0, <3>2 DEF ApiInv, TypeOK, PrunesOk, PruneOk
    <3> QED  BY <3>1, <3>2
  <2> QED  BY <2>1 DEF PrunesOk
<1>6. TypeOK'
  <2>1. rows' \subseteq Row
    BY <1>1, RowFacts DEF ApiInv, TypeOK
  <2>2. hurt' \subseteq Requests
    BY <1>0 DEF OpenAt, ApiInv, TypeOK
  <2>3. NotPruning \in [now : Nat, todo : Seq(Tables)]
    BY DEF NotPruning
  <2>4. pruning' \in [Procs -> [now : Nat, todo : Seq(Tables)]]
    BY <1>0, <2>3 DEF ApiInv, TypeOK
  <2>5. life' \in [Procs -> {"down", "serving", "draining", "closing"}]
    BY DEF Kill, ApiInv, TypeOK
  <2> QED  BY <1>0, <1>3, <2>1, <2>2, <2>4, <2>5 DEF ApiInv, TypeOK, HandlerStates
<1> QED  BY <1>3, <1>4, <1>5, <1>6 DEF ApiInv

\* A step that leaves all but the clock and the failures alone.
LEMMA OutsideKeeps ==
  ASSUME ApiInv, CalmDown \/ Tick \/ UNCHANGED vars
  PROVE  ApiInv'
<1>0. UNCHANGED <<days, life, pruning, handler, rows, pruned, hurt>>
  BY DEF CalmDown, Tick, vars
<1>1. /\ failing' \subseteq {"process"} \cup Tables
      /\ clock' \in Nat /\ clock \in Nat /\ clock <= clock'
  <2>1. failing' \subseteq {"process"} \cup Tables
    BY Zenon DEF CalmDown, Tick, vars, ApiInv, TypeOK
  <2>2. clock \in Nat /\ (clock' = clock \/ clock' = clock + 1)
    BY DEF CalmDown, Tick, vars, ApiInv, TypeOK
  <2> QED  BY <2>1, <2>2
<1>2. StoredItems' = StoredItems
  BY <1>0 DEF StoredItems
<1>3. HandlersOk' /\ ClosingHurts' /\ DrainIsGraceful'
  BY <1>0, <1>2, StoredKept, OtherVariables DEF ApiInv
<1>4. ASSUME NEW p \in Procs
      PROVE  PruneOk(p)'
  <2>1. pruning[p].now \in Nat /\ PruneOk(p)
    BY DEF ApiInv, TypeOK, PrunesOk
  <2> QED  BY <1>0, <1>1, <2>1 DEF PruneOk
<1>5. TypeOK'
  BY <1>0, <1>1 DEF ApiInv, TypeOK
<1> QED  BY <1>3, <1>4, <1>5 DEF ApiInv, PrunesOk

------------------------------------------------------------------------------
(***************************************************************************)
(* The invariant is inductive.                                             *)
(***************************************************************************)

LEMMA InitHolds == Init => ApiInv
<1> SUFFICES ASSUME Init
             PROVE  ApiInv
  OBVIOUS
<1>1. \A r \in Requests : handler[r] = [at |-> <<"unsent">>, pos |-> 1, born |-> 0]
  BY DEF Init, Unsent
<1>2. \A p \in Procs : pruning[p] = NotPruning
  BY DEF Init
<1>3. NotPruning \in [now : Nat, todo : Seq(Tables)] /\ NotPruning.now = 0 /\ NotPruning.todo = <<>>
  BY DEF NotPruning
<1>4. [at |-> <<"unsent">>, pos |-> 1, born |-> 0] \in HandlerStates
  BY DEF HandlerStates
<1>5. handler \in [Requests -> HandlerStates]
  BY <1>4 DEF Init, Unsent
<1>6. TypeOK
  BY <1>3, <1>5 DEF Init, TypeOK, HandlerStates
<1>7. ASSUME NEW r \in Requests
      PROVE  HandlerOk(r)
  <2>1. handler[r].pos = 1 /\ handler[r].at = <<"unsent">>
    BY <1>1
  <2>2. <<"unsent">> # <<"accepted">> /\ \A p : <<"unsent">> # <<"busy", p>>
    BY Places
  <2>3. \A i \in DOMAIN Batch[r] : ~(i < 1)
    BY <1>6, RequestFacts
  <2> QED  BY <2>1, <2>2, <2>3 DEF HandlerOk
<1>8. ClosingHurts /\ DrainIsGraceful
  BY <1>1 DEF Init, ClosingHurts, DrainIsGraceful
<1>9. PrunesOk
  BY <1>2, <1>3 DEF Init, PrunesOk, PruneOk
<1> QED  BY <1>6, <1>7, <1>8, <1>9 DEF ApiInv, HandlersOk

LEMMA StepHolds == ApiInv /\ [Next]_vars => ApiInv'
<1> SUFFICES ASSUME ApiInv, [Next]_vars
             PROVE  ApiInv'
  OBVIOUS
<1>1. ASSUME NEW p \in Procs, NEW r \in Requests, Arrive(r, p)
      PROVE  ApiInv'
  BY <1>1, ArriveKeeps
<1>2. ASSUME NEW p \in Procs, NEW r \in Requests, Handle(r, p)
      PROVE  ApiInv'
  BY <1>2, BeginInsertKeeps, EndInsertKeeps, PoolClosedKeeps, AcceptKeeps DEF Handle
<1>3. ASSUME NEW p \in Procs, PruneTick(p) \/ PruneTable(p) \/ PruneFails(p)
      PROVE  ApiInv'
  BY <1>3, PruneTickKeeps, PruneTableKeeps, PruneFailsKeeps
<1>4. ASSUME NEW p \in Procs,
             Start(p) \/ Terminate(p) \/ Drained(p) \/ Deadline(p) \/ Exit(p)
      PROVE  ApiInv'
  BY <1>4, ProcessKeeps, ExitKeeps
<1>5. CASE Fault
  BY <1>5, KillKeeps, InsertFaultKeeps DEF Fault
<1>6. CASE CalmDown \/ Tick \/ UNCHANGED vars
  BY <1>6, OutsideKeeps
<1> QED  BY <1>1, <1>2, <1>3, <1>4, <1>5, <1>6 DEF Next

LEMMA Invariance == Spec => []ApiInv
BY InitHolds, StepHolds, PTL DEF Spec

\* Only a prune deletes, and what it deletes is too old by the present clock,
\* however long ago the prune has read its own.
LEMMA DeletesOnlyTooOld ==
  ASSUME ApiInv, [Next]_vars, NEW w \in rows \ rows'
  PROVE  TooOld(w) \/ Overflows(TableOf[w.item])
<1>1. PICK p \in Procs : PruneTable(p)
  <2>1. \A p \in Procs, r \in Requests : ~Arrive(r, p) /\ ~Handle(r, p) /\ ~InsertFault(r, p)
    BY DEF Arrive, Handle, BeginInsert, EndInsert, PoolClosed, Accept, InsertFault
  <2>2. \A p \in Procs : ~PruneTick(p) /\ ~PruneFails(p)
    BY DEF PruneTick, PruneFails
  <2>3. \A p \in Procs : ~Start(p) /\ ~Terminate(p) /\ ~Drained(p) /\ ~Deadline(p) /\ ~Exit(p)
    BY DEF Start, Terminate, Drained, Deadline, Exit
  <2>4. \A p \in Procs : ~Kill(p)
    BY DEF Kill
  <2>5. ~CalmDown /\ ~Tick /\ ~UNCHANGED vars
    BY DEF CalmDown, Tick, vars
  <2> QED  BY <2>1, <2>2, <2>3, <2>4, <2>5 DEF Next, Fault
<1> DEFINE g == pruning[p]
           t == Head(g.todo)
<1>2. t = TableOf[w.item] /\ w.at < Cutoff(t, g.now)
  BY <1>1 DEF PruneTable
<1>3. /\ g.now \in Nat /\ clock \in Nat /\ g.now <= clock
      /\ g.todo \in Seq(Tables) /\ g.todo # <<>>
      /\ \A i \in DOMAIN g.todo : days[g.todo[i]] > 0
  BY <1>1 DEF PruneTable, ApiInv, TypeOK, PrunesOk, PruneOk
<1>4. 1 \in DOMAIN g.todo /\ t = g.todo[1] /\ t \in Tables
  BY <1>3
<1>5. days[t] > 0 /\ days[t] \in Nat
  BY <1>3, <1>4, RetentionIsNat DEF ApiInv
<1>6. w.at \in Nat
  BY DEF ApiInv, TypeOK, Row
<1>7. CASE days[t] <= MaxDays
  <2>1. w.at < g.now - days[t]
    BY <1>2, <1>5, <1>7, WrapFits DEF Cutoff
  <2>2. clock - w.at > days[t]
    BY <2>1, <1>3, <1>5, <1>6
  <2> QED  BY <2>2, <1>2, <1>5 DEF TooOld
<1>8. CASE days[t] > MaxDays
  BY <1>8, <1>2 DEF Overflows
<1> QED  BY <1>5, <1>7, <1>8, ApiAssumption

------------------------------------------------------------------------------
(***************************************************************************)
(* Theorems.                                                               *)
(***************************************************************************)

\* Every variable of ApiProcess keeps its type, for any number of processes,
\* of requests and of their events.
THEOREM ApiTypeCorrect == Spec => []TypeOK
BY Invariance, PTL DEF ApiInv

\* What was answered with success is in the database, or a prune has deleted
\* it: no kill, no deadline and no closed pool makes handleEvents answer too
\* soon.
THEOREM AcceptedStays == Spec => []AcceptedIsKept
<1>1. ApiInv => AcceptedIsKept
  <2>1. SUFFICES ASSUME ApiInv, NEW r \in Requests, handler[r].at = <<"accepted">>,
                        NEW x \in Range(Batch[r])
                 PROVE  x \in {w.item : w \in rows} \cup pruned
    BY DEF AcceptedIsKept
  <2>2. PICK i \in DOMAIN Batch[r] : x = Batch[r][i]
    BY <2>1 DEF Range
  <2>3. i < handler[r].pos
    BY <2>1, RequestFacts DEF ApiInv, HandlersOk, HandlerOk
  <2> QED  BY <2>1, <2>2, <2>3 DEF ApiInv, HandlersOk, HandlerOk, StoredItems
<1> QED  BY <1>1, Invariance, PTL

\* A stop that drains in time is noticed by no client: only a failure or the
\* deadline of srv.Shutdown refuses or loses a request.
THEOREM DrainsGracefully == Spec => []DrainIsGraceful
BY Invariance, PTL DEF ApiInv

\* runPruneLoop deletes no row before its time, unless the retention is more
\* than a time.Duration holds.
THEOREM RetentionIsKept == Spec => RetentionKept
<1>1. ApiInv /\ [Next]_vars =>
        [\A w \in rows \ rows' : TooOld(w) \/ Overflows(TableOf[w.item])]_vars
  BY DeletesOnlyTooOld
<1> QED  BY <1>1, Invariance, PTL DEF Spec, RetentionKept

==============================================================================
