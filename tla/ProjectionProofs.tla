--------------------------- MODULE ProjectionProofs ---------------------------
(***************************************************************************)
(* Proofs about Projection: what the handlers of events and snapshots,     *)
(* interleaved statement by statement and failing anywhere, leave in the   *)
(* tables that the dashboard and the alerts read.                          *)
(***************************************************************************)
EXTENDS Projection, SequenceTheorems, TLAPS

(***************************************************************************)
(* The inductive invariant.                                                *)
(***************************************************************************)

\* The entity is still to be upserted by one of the statements of todo.
Awaited(k, todo) == \E i \in DOMAIN todo : todo[i] # Store /\ todo[i].key = k

\* A request stores its message first; an entity it names is listed, or its
\* upsert is still to be done, or has failed without an error.
HandlerOk(r) ==
  handler[r] # Idle =>
    /\ Msg(r) \in stored \/ (Todo(r) # <<>> /\ Head(Todo(r)) = Store)
    /\ \A k \in Named(Msg(r)) :
         rows[k] # <<>> \/ Msg(r) \in missed \/ Awaited(k, Todo(r))

HandlersOk == \A r \in Requests : HandlerOk(r)

\* An agent that has reported has a row, and each of its rows shows one of
\* its reports.
ReportsShown ==
  /\ \A p \in reported : p.key.table = "agents" /\ rows[p.key] # <<>>
  /\ \A k \in Key : k.table = "agents" =>
       \A i \in DOMAIN rows[k] :
         [key |-> k, at |-> rows[k][i].seen, by |-> rows[k][i].by] \in reported

ProjectionInv ==
  /\ TypeOK
  /\ HandlersOk
  /\ RowIsBacked
  /\ AcceptedIsListed
  /\ ReportsShown

------------------------------------------------------------------------------
(***************************************************************************)
(* Lemmas about the statements of a message.                               *)
(***************************************************************************)

\* The statements that upsert, of entities in the set K.
UpsertsOf(K) == [op : {"upsert"}, key : K, path : BOOLEAN, seen : Nat \cup {Now}]

LEMMA UpsertType ==
  ASSUME NEW table, NEW name, NEW rig, NEW path \in BOOLEAN, NEW seen \in Nat \cup {Now},
         NEW K, [table |-> table, name |-> name, rig |-> rig] \in K
  PROVE  Upsert(table, name, rig, path, seen) \in UpsertsOf(K)
  BY DEF Upsert, UpsertsOf

LEMMA StoreIsNoUpsert ==
  ASSUME NEW K
  PROVE  Store \notin UpsertsOf(K)
  BY DEF Store, UpsertsOf

\* The keys of the upserts in a sequence, whatever their other fields are.
Keys(s) == {x.key : x \in Range(s) \ {Store}}

\* The statements of a list of upserts, and of one that is put behind it.
LEMMA ConcatFacts ==
  ASSUME NEW S, NEW a \in Seq(S), NEW b \in Seq(S)
  PROVE  a \o b \in Seq(S) /\ Keys(a \o b) = Keys(a) \cup Keys(b)
<1>1. a \o b \in Seq(S)
  BY ConcatProperties
<1>2. Range(a \o b) = Range(a) \cup Range(b)
  BY RangeConcatenation
<1> QED  BY <1>1, <1>2 DEF Keys

LEMMA StoreFacts ==
  ASSUME NEW S, Store \in S
  PROVE  <<Store>> \in Seq(S) /\ Keys(<<Store>>) = {}
<1>1. Range(<<Store>>) = {Store}
  BY DEF Range
<1> QED  BY <1>1 DEF Keys

LEMMA IfNamedFacts ==
  ASSUME NEW K, NEW s \in UpsertsOf(K)
  PROVE  /\ IfNamed(s) \in Seq({Store} \cup UpsertsOf(K))
         /\ Keys(IfNamed(s)) = {k \in {s.key} : k.name # Null}
<1>1. CASE s.key.name # Null
  <2>1. IfNamed(s) = <<s>>
    BY <1>1 DEF IfNamed
  <2>2. Range(<<s>>) = {s} /\ s # Store
    BY StoreIsNoUpsert DEF Range
  <2> QED  BY <1>1, <2>1, <2>2 DEF Keys
<1>2. CASE s.key.name = Null
  <2>1. IfNamed(s) = <<>>
    BY <1>2 DEF IfNamed
  <2>2. Range(<<>>) = {}
    BY DEF Range
  <2> QED  BY <1>2, <2>1, <2>2 DEF Keys
<1> QED  BY <1>1, <1>2

\* A list of statements is a list of the upserts of its own keys.
LEMMA OwnKeys ==
  ASSUME NEW K, NEW s \in Seq({Store} \cup UpsertsOf(K))
  PROVE  s \in Seq({Store} \cup UpsertsOf(Keys(s)))
<1>1. ASSUME NEW i \in 1..Len(s)
      PROVE  s[i] \in {Store} \cup UpsertsOf(Keys(s))
  <2>1. s[i] \in {Store} \cup UpsertsOf(K) /\ s[i] \in Range(s)
    BY RangeEquality
  <2>2. CASE s[i] # Store
    <3>1. s[i].key \in Keys(s)
      BY <2>1, <2>2 DEF Keys
    <3> QED  BY <2>1, <2>2, <3>1 DEF UpsertsOf
  <2> QED  BY <2>2
<1>2. Len(s) \in Nat /\ s = [i \in 1..Len(s) |-> s[i]]
  OBVIOUS
<1> QED  BY <1>1, <1>2, IsASeq

\* The entities that event e names.
EventKeys(e) ==
  {[table |-> "rigs",    name |-> e.rig,    rig |-> Null],
   [table |-> "agents",  name |-> e.agent,  rig |-> e.rig],
   [table |-> "convoys", name |-> e.convoy, rig |-> e.rig],
   [table |-> "hooks",   name |-> e.hook,   rig |-> e.rig]}

LEMMA EventFacts ==
  ASSUME NEW e, NEW at \in Nat
  PROVE  /\ EventStatements(e, at) \in Seq({Store} \cup UpsertsOf(EventKeys(e)))
         /\ Keys(EventStatements(e, at)) = {k \in EventKeys(e) : k.name # Null}
         /\ EventStatements(e, at) # <<>> /\ Head(EventStatements(e, at)) = Store
<1> DEFINE S == {Store} \cup UpsertsOf(EventKeys(e))
           u1 == Upsert("rigs", e.rig, Null, FALSE, Now)
           u2 == Upsert("agents", e.agent, e.rig, FALSE, at)
           u3 == Upsert("convoys", e.convoy, e.rig, FALSE, Now)
           u4 == Upsert("hooks", e.hook, e.rig, FALSE, Now)
<1>1. /\ u1 \in UpsertsOf(EventKeys(e)) /\ u2 \in UpsertsOf(EventKeys(e))
      /\ u3 \in UpsertsOf(EventKeys(e)) /\ u4 \in UpsertsOf(EventKeys(e))
  BY UpsertType DEF EventKeys
<1>2. EventKeys(e) = {u1.key, u2.key, u3.key, u4.key}
  BY DEF EventKeys, Upsert
<1>3. EventStatements(e, at) =
        <<Store>> \o (((IfNamed(u1) \o IfNamed(u2)) \o IfNamed(u3)) \o IfNamed(u4))
  BY DEF EventStatements, EventUpserts
<1> HIDE DEF u1, u2, u3, u4
<1>4. /\ IfNamed(u1) \in Seq(S) /\ Keys(IfNamed(u1)) = {k \in {u1.key} : k.name # Null}
      /\ IfNamed(u2) \in Seq(S) /\ Keys(IfNamed(u2)) = {k \in {u2.key} : k.name # Null}
      /\ IfNamed(u3) \in Seq(S) /\ Keys(IfNamed(u3)) = {k \in {u3.key} : k.name # Null}
      /\ IfNamed(u4) \in Seq(S) /\ Keys(IfNamed(u4)) = {k \in {u4.key} : k.name # Null}
  BY <1>1, IfNamedFacts
<1> HIDE DEF S
<1> DEFINE s2 == IfNamed(u1) \o IfNamed(u2)
           s3 == s2 \o IfNamed(u3)
           s4 == s3 \o IfNamed(u4)
<1>5. s2 \in Seq(S) /\ Keys(s2) = {k \in {u1.key, u2.key} : k.name # Null}
  BY <1>4, ConcatFacts
<1> HIDE DEF s2
<1>6. s3 \in Seq(S) /\ Keys(s3) = {k \in {u1.key, u2.key, u3.key} : k.name # Null}
  BY <1>4, <1>5, ConcatFacts
<1> HIDE DEF s3
<1>7. s4 \in Seq(S) /\ Keys(s4) = {k \in {u1.key, u2.key, u3.key, u4.key} : k.name # Null}
  BY <1>4, <1>6, ConcatFacts
<1>8. EventStatements(e, at) = <<Store>> \o s4
  BY <1>3 DEF s2, s3
<1> HIDE DEF s4
<1> DEFINE s0 == <<Store>>
<1>9. s0 \in Seq(S) /\ Keys(s0) = {}
  BY StoreFacts DEF S
<1>10. Len(s0) = 1 /\ s0[1] = Store
  OBVIOUS
<1> HIDE DEF s0
<1>11. s0 \o s4 \in Seq(S) /\ Keys(s0 \o s4) = Keys(s0) \cup Keys(s4)
  BY <1>7, <1>9, ConcatFacts
<1>12. Len(s0 \o s4) > 0 /\ (s0 \o s4)[1] = Store
  BY <1>7, <1>9, <1>10, ConcatProperties
<1>13. s0 \o s4 # <<>> /\ Head(s0 \o s4) = Store
  BY <1>11, <1>12
<1>14. EventStatements(e, at) = s0 \o s4
  BY <1>8 DEF s0
<1> QED  BY <1>2, <1>7, <1>9, <1>11, <1>13, <1>14 DEF S

\* A list of upserts, one for each index.
LEMMA ListOfUpserts ==
  ASSUME NEW n \in Nat, NEW s, NEW K, s = [i \in 1..n |-> s[i]],
         \A i \in 1..n : s[i] \in UpsertsOf(K)
  PROVE  s \in Seq({Store} \cup UpsertsOf(K))
<1>1. \A i \in 1..n : s[i] \in {Store} \cup UpsertsOf(K)
  OBVIOUS
<1> QED  BY <1>1, IsASeq

\* The entities that a snapshot names.
SnapshotKeys ==
  LET rigs    == Workspace.rigs
      agents  == Workspace.agents
      convoys == Workspace.convoys
      hooks   == Workspace.hooks
  IN  {[table |-> "rigs", name |-> rigs[i], rig |-> Null] : i \in 1..Len(rigs)}
        \cup {[table |-> "agents", name |-> agents[i].name, rig |-> agents[i].rig]
                : i \in 1..Len(agents)}
        \cup {[table |-> "convoys", name |-> convoys[i].name, rig |-> convoys[i].rig]
                : i \in 1..Len(convoys)}
        \cup {[table |-> "hooks", name |-> hooks[i].name, rig |-> hooks[i].rig]
                : i \in 1..Len(hooks)}

LEMMA SnapshotFacts ==
  /\ SnapshotStatements \in Seq({Store} \cup UpsertsOf(Keys(SnapshotStatements)))
  /\ SnapshotStatements # <<>> /\ Head(SnapshotStatements) = Store
<1> DEFINE rigs    == Workspace.rigs
           agents  == Workspace.agents
           convoys == Workspace.convoys
           hooks   == Workspace.hooks
           K       == SnapshotKeys
           S       == {Store} \cup UpsertsOf(K)
<1>1. /\ Len(rigs) \in Nat /\ Len(agents) \in Nat
      /\ Len(convoys) \in Nat /\ Len(hooks) \in Nat
  BY ProjectionAssumption
<1>2. RigUpserts \in Seq(S)
  <2>1. RigUpserts = [i \in 1..Len(rigs) |-> Upsert("rigs", rigs[i], Null, TRUE, Now)]
    BY DEF RigUpserts
  <2>2. \A i \in 1..Len(rigs) : Upsert("rigs", rigs[i], Null, TRUE, Now) \in UpsertsOf(K)
    BY UpsertType DEF SnapshotKeys
  <2> HIDE DEF rigs, K
  <2> QED  BY <1>1, <2>1, <2>2, ListOfUpserts
<1>3. AgentUpserts \in Seq(S)
  <2>1. AgentUpserts = [i \in 1..Len(agents) |->
                          Upsert("agents", agents[i].name, agents[i].rig, FALSE, Now)]
    BY DEF AgentUpserts
  <2>2. \A i \in 1..Len(agents) :
          Upsert("agents", agents[i].name, agents[i].rig, FALSE, Now) \in UpsertsOf(K)
    BY UpsertType DEF SnapshotKeys
  <2> HIDE DEF agents, K
  <2> QED  BY <1>1, <2>1, <2>2, ListOfUpserts
<1>4. ConvoyUpserts \in Seq(S)
  <2>1. ConvoyUpserts = [i \in 1..Len(convoys) |->
                         Upsert("convoys", convoys[i].name, convoys[i].rig, FALSE, Now)]
    BY DEF ConvoyUpserts
  <2>2. \A i \in 1..Len(convoys) :
          Upsert("convoys", convoys[i].name, convoys[i].rig, FALSE, Now) \in UpsertsOf(K)
    BY UpsertType DEF SnapshotKeys
  <2> HIDE DEF convoys, K
  <2> QED  BY <1>1, <2>1, <2>2, ListOfUpserts
<1>5. HookUpserts \in Seq(S)
  <2>1. HookUpserts = [i \in 1..Len(hooks) |->
                         Upsert("hooks", hooks[i].name, hooks[i].rig, FALSE, Now)]
    BY DEF HookUpserts
  <2>2. \A i \in 1..Len(hooks) :
          Upsert("hooks", hooks[i].name, hooks[i].rig, FALSE, Now) \in UpsertsOf(K)
    BY UpsertType DEF SnapshotKeys
  <2> HIDE DEF hooks, K
  <2> QED  BY <1>1, <2>1, <2>2, ListOfUpserts
<1> HIDE DEF K
<1>6. <<Store>> \in Seq(S)
  BY StoreFacts
<1> HIDE DEF S
<1>7. SnapshotStatements =
        (((<<Store>> \o RigUpserts) \o AgentUpserts) \o ConvoyUpserts) \o HookUpserts
  BY DEF SnapshotStatements
<1> DEFINE s2 == <<Store>> \o RigUpserts
           s3 == s2 \o AgentUpserts
           s4 == s3 \o ConvoyUpserts
<1>8. s2 \in Seq(S) /\ Len(s2) > 0 /\ s2[1] = Store
  BY <1>2, <1>6, ConcatProperties
<1> HIDE DEF s2
<1>9. s3 \in Seq(S) /\ Len(s3) > 0 /\ s3[1] = Store
  BY <1>3, <1>8, ConcatProperties
<1> HIDE DEF s3
<1>10. s4 \in Seq(S) /\ Len(s4) > 0 /\ s4[1] = Store
  BY <1>4, <1>9, ConcatProperties
<1> HIDE DEF s4
<1>11. SnapshotStatements = s4 \o HookUpserts
  BY <1>7 DEF s2, s3, s4
<1>12. /\ SnapshotStatements \in Seq(S)
       /\ Len(SnapshotStatements) > 0 /\ SnapshotStatements[1] = Store
  BY <1>5, <1>10, <1>11, ConcatProperties
<1>13. SnapshotStatements # <<>> /\ Head(SnapshotStatements) = Store
  BY <1>12
<1>14. SnapshotStatements \in Seq({Store} \cup UpsertsOf(Keys(SnapshotStatements)))
  BY <1>12, OwnKeys DEF S
<1> QED  BY <1>13, <1>14

\* The statements of a message, whenever its events occurred: the message is
\* stored first, and what is upserted is what the message names.
StatementsOf(m, at) == IF m = Snapshot THEN SnapshotStatements ELSE EventStatements(m, at)

LEMMA NamedFacts ==
  ASSUME NEW m \in Message, NEW at \in Nat
  PROVE  /\ StatementsOf(m, at) \in Seq({Store} \cup UpsertsOf(Named(m)))
         /\ Keys(StatementsOf(m, at)) = Named(m)
         /\ StatementsOf(m, at) # <<>> /\ Head(StatementsOf(m, at)) = Store
<1>1. Named(m) = Keys(StatementsOf(m, 0))
  BY DEF Named, Keys, StatementsOf
<1>2. CASE m = Snapshot
  BY <1>1, <1>2, SnapshotFacts DEF StatementsOf
<1>3. CASE m # Snapshot
  <2>1. StatementsOf(m, at) = EventStatements(m, at) /\ StatementsOf(m, 0) = EventStatements(m, 0)
    BY <1>3 DEF StatementsOf
  <2>2. Keys(StatementsOf(m, at)) = Named(m)
    BY <1>1, <2>1, EventFacts
  <2>3. StatementsOf(m, at) \in Seq({Store} \cup UpsertsOf(Keys(StatementsOf(m, at))))
    BY <2>1, EventFacts, OwnKeys
  <2> QED  BY <2>1, <2>2, <2>3, EventFacts
<1> QED  BY <1>2, <1>3

LEMMA StatementType ==
  ASSUME NEW m \in Message
  PROVE  {Store} \cup UpsertsOf(Named(m)) \subseteq Statement
<1>1. Named(m) \subseteq Key
  BY DEF Key
<1> QED  BY <1>1 DEF UpsertsOf, Statement

------------------------------------------------------------------------------
(***************************************************************************)
(* Lemmas about one step of a request.                                     *)
(***************************************************************************)

Runs == [st : {"running"}, msg : Message, todo : Seq(Statement)]

\* What a request that runs has left to do.
LEMMA RunFacts ==
  ASSUME TypeOK, NEW r \in Requests, handler[r] # Idle
  PROVE  /\ handler[r] \in Runs
         /\ Msg(r) \in Message /\ Todo(r) \in Seq(Statement)
         /\ Todo(r) # <<>> => /\ Head(Todo(r)) \in Statement
                             /\ Tail(Todo(r)) \in Seq(Statement)
<1>1. handler[r] \in Runs
  BY DEF TypeOK, Runs
<1>2. Msg(r) \in Message /\ Todo(r) \in Seq(Statement)
  BY <1>1 DEF Runs, Msg, Todo
<1> QED  BY <1>1, <1>2

LEMMA WithTodo ==
  ASSUME NEW h \in Runs, NEW t
  PROVE  [h EXCEPT !.todo = t] = [st |-> h.st, msg |-> h.msg, todo |-> t]
  BY DEF Runs

\* Advance removes the first statement, and leaves the other requests alone.
LEMMA AdvanceFacts ==
  ASSUME TypeOK, NEW r \in Requests, AtStatement(r), Advance(r)
  PROVE  /\ handler' \in [Requests -> {Idle} \cup Runs]
         /\ handler'[r] # Idle /\ Msg(r)' = Msg(r) /\ Todo(r)' = Tail(Todo(r))
         /\ \A q \in Requests \ {r} : handler'[q] = handler[q]
<1> DEFINE h == handler[r]
           t == Tail(h.todo)
<1>1. handler[r] # Idle /\ Todo(r) # <<>>
  BY DEF AtStatement, Running
<1>2. h \in Runs /\ t \in Seq(Statement)
  BY <1>1, RunFacts DEF Todo
<1>3. handler' = [handler EXCEPT ![r] = [h EXCEPT !.todo = t]]
  BY DEF Advance
<1>4. [h EXCEPT !.todo = t] = [st |-> h.st, msg |-> h.msg, todo |-> t]
  BY <1>2, WithTodo
<1> DEFINE new == [st |-> h.st, msg |-> h.msg, todo |-> t]
<1>5. new \in Runs /\ new # Idle
  BY <1>2 DEF Runs, Idle
<1>6. handler \in [Requests -> {Idle} \cup Runs]
  BY DEF TypeOK, Runs
<1>7. handler' = [handler EXCEPT ![r] = new]
  BY <1>3, <1>4
<1>8. new.msg = Msg(r) /\ new.todo = Tail(Todo(r))
  BY DEF Msg, Todo
<1> HIDE DEF new
<1>9. handler'[r] = new
  BY <1>6, <1>7
<1> QED  BY <1>5, <1>6, <1>7, <1>8, <1>9 DEF Msg, Todo

\* A request that a step leaves alone, and that no row was taken away from,
\* stays as it should be.
LEMMA HandlerKept ==
  ASSUME TypeOK, HandlersOk, NEW r \in Requests, handler'[r] = handler[r],
         stored \subseteq stored', missed \subseteq missed',
         \A k \in Key : rows[k] # <<>> => rows'[k] # <<>>
  PROVE  HandlerOk(r)'
<1>1. CASE handler[r] = Idle
  BY <1>1 DEF HandlerOk
<1>2. CASE handler[r] # Idle
  <2>1. HandlerOk(r) /\ Msg(r) \in Message
    BY <1>2, RunFacts DEF HandlersOk
  <2>2. Msg(r)' = Msg(r) /\ Todo(r)' = Todo(r)
    BY DEF Msg, Todo
  <2>3. Msg(r) \in stored' \/ (Todo(r) # <<>> /\ Head(Todo(r)) = Store)
    BY <1>2, <2>1 DEF HandlerOk
  <2>4. ASSUME NEW k \in Named(Msg(r))
        PROVE  rows'[k] # <<>> \/ Msg(r) \in missed' \/ Awaited(k, Todo(r))
    <3>1. k \in Key
      BY <2>1 DEF Key
    <3> QED  BY <1>2, <2>1, <3>1 DEF HandlerOk
  <2> QED  BY <2>2, <2>3, <2>4 DEF HandlerOk
<1> QED  BY <1>1, <1>2

\* Only the upsert at the head of a list stops being awaited with its tail.
LEMMA AwaitedInTail ==
  ASSUME NEW S, NEW todo \in Seq(S), todo # <<>>, NEW k, Awaited(k, todo)
  PROVE  (Head(todo) # Store /\ Head(todo).key = k) \/ Awaited(k, Tail(todo))
<1>1. PICK i \in DOMAIN todo : todo[i] # Store /\ todo[i].key = k
  BY DEF Awaited
<1>2. i \in 1..Len(todo) /\ Len(todo) \in Nat
  OBVIOUS
<1>3. CASE i = 1
  BY <1>1, <1>3
<1>4. CASE i # 1
  <2>1. i - 1 \in 1..Len(Tail(todo)) /\ Tail(todo)[i - 1] = todo[i]
    BY <1>2, <1>4, HeadTailProperties
  <2>2. DOMAIN Tail(todo) = 1..Len(Tail(todo))
    OBVIOUS
  <2> QED  BY <1>1, <2>1, <2>2 DEF Awaited
<1> QED  BY <1>3, <1>4

\* An upsert leaves a row; each row is the one it wrote, or was there before.
LEMMA UpsertedFacts ==
  ASSUME NEW old \in Seq(Row), NEW s, NEW by, RowOf(s, by) \in Row
  PROVE  /\ Upserted(old, s, by) \in Seq(Row) /\ Upserted(old, s, by) # <<>>
         /\ \A i \in DOMAIN Upserted(old, s, by) :
              \/ Upserted(old, s, by)[i] = RowOf(s, by)
              \/ i \in DOMAIN old /\ Upserted(old, s, by)[i] = old[i]
<1> DEFINE row == RowOf(s, by)
<1>1. CASE Unique(s.key)
  <2>1. Upserted(old, s, by) = <<row>>
    BY <1>1 DEF Upserted
  <2> HIDE DEF row
  <2> QED  BY <2>1 DEF row
<1>2. CASE ~Unique(s.key)
  <2>1. Upserted(old, s, by) = Append(old, row)
    BY <1>2 DEF Upserted
  <2> HIDE DEF row
  <2> QED  BY <2>1 DEF row
<1> QED  BY <1>1, <1>2

------------------------------------------------------------------------------
(***************************************************************************)
(* Each action preserves the invariant.                                    *)
(***************************************************************************)

LEMMA InitOk == Init => ProjectionInv
<1> SUFFICES ASSUME Init PROVE ProjectionInv
  OBVIOUS
<1>1. TypeOK
  <2>1. calm \in BOOLEAN
    BY DEF Init
  <2>2. rows \in [Key -> Seq(Row)]
    BY DEF Init
  <2>3. handler \in [Requests -> {Idle} \cup Runs]
    BY DEF Init
  <2>4. /\ clock \in Nat /\ stored \subseteq Message /\ accepted \subseteq Message
        /\ missed \subseteq Events /\ reported \subseteq [key : Key, at : Nat, by : Message]
    BY DEF Init
  <2> QED  BY <2>1, <2>2, <2>3, <2>4 DEF TypeOK, Runs
<1>2. HandlersOk
  BY DEF Init, HandlersOk, HandlerOk
<1>3. RowIsBacked /\ AcceptedIsListed /\ ReportsShown
  BY DEF Init, RowIsBacked, AcceptedIsListed, ReportsShown
<1> QED  BY <1>1, <1>2, <1>3 DEF ProjectionInv

\* A step that writes no table and no history.
LEMMA NothingWritten ==
  ASSUME ProjectionInv, TypeOK', UNCHANGED <<rows, stored, accepted, missed, reported>>
  PROVE  RowIsBacked' /\ AcceptedIsListed' /\ ReportsShown'
<1>1. RowIsBacked'
  BY DEF ProjectionInv, RowIsBacked
<1>2. AcceptedIsListed'
  BY DEF ProjectionInv, AcceptedIsListed, Listed
<1>3. ReportsShown'
  BY DEF ProjectionInv, ReportsShown
<1> QED  BY <1>1, <1>2, <1>3

LEMMA BeginOk ==
  ASSUME ProjectionInv, NEW r \in Requests, NEW m \in Message, NEW at \in Nat,
         Begin(r, m, StatementsOf(m, at))
  PROVE  ProjectionInv'
<1> DEFINE stmts == StatementsOf(m, at)
           new   == [st |-> "running", msg |-> m, todo |-> stmts]
<1>1. /\ stmts \in Seq({Store} \cup UpsertsOf(Named(m))) /\ Keys(stmts) = Named(m)
      /\ stmts # <<>> /\ Head(stmts) = Store
  BY NamedFacts
<1>2. stmts \in Seq(Statement)
  BY <1>1, StatementType
<1>3. /\ handler' = [handler EXCEPT ![r] = new]
      /\ UNCHANGED <<calm, clock, rows, stored, accepted, missed, reported>>
  BY DEF Begin
<1> HIDE DEF stmts
<1>4. new \in Runs
  BY <1>2 DEF Runs
<1>5. handler \in [Requests -> {Idle} \cup Runs]
  BY DEF ProjectionInv, TypeOK, Runs
<1>6. new.msg = m /\ new.todo = stmts
  OBVIOUS
<1> HIDE DEF new
<1>7. handler' \in [Requests -> {Idle} \cup Runs] /\ handler'[r] = new
  BY <1>3, <1>4, <1>5
<1>8. TypeOK'
  BY <1>3, <1>7 DEF ProjectionInv, TypeOK, Runs
<1>9. HandlerOk(r)'
  <2>1. Msg(r)' = m /\ Todo(r)' = stmts
    BY <1>6, <1>7 DEF Msg, Todo
  <2>2. ASSUME NEW k \in Named(m)
        PROVE  Awaited(k, stmts)
    <3>1. PICK x \in Range(stmts) : x # Store /\ x.key = k
      BY <1>1 DEF Keys
    <3> QED  BY <3>1 DEF Range, Awaited
  <2> QED  BY <1>1, <2>1, <2>2 DEF HandlerOk
<1>10. ASSUME NEW q \in Requests, q # r
       PROVE  HandlerOk(q)'
  <2>1. handler'[q] = handler[q]
    BY <1>3, <1>5, <1>10
  <2> QED  BY <1>3, <2>1, HandlerKept DEF ProjectionInv
<1>11. HandlersOk'
  BY <1>9, <1>10 DEF HandlersOk
<1> QED  BY <1>3, <1>8, <1>11, NothingWritten DEF ProjectionInv

LEMMA PostEventOk ==
  ASSUME ProjectionInv, NEW r \in Requests, NEW e \in Events, PostEvent(r, e)
  PROVE  ProjectionInv'
<1>1. PICK at \in 0..clock : Begin(r, e, EventStatements(e, at))
  BY DEF PostEvent
<1>2. at \in Nat
  BY DEF ProjectionInv, TypeOK
<1>3. e \in Message /\ EventStatements(e, at) = StatementsOf(e, at)
  BY ProjectionAssumption DEF Message, StatementsOf
<1> QED  BY <1>1, <1>2, <1>3, BeginOk

LEMMA PostSnapshotOk ==
  ASSUME ProjectionInv, NEW r \in Requests, PostSnapshot(r)
  PROVE  ProjectionInv'
<1>1. Snapshot \in Message /\ SnapshotStatements = StatementsOf(Snapshot, 0)
  BY DEF Message, StatementsOf
<1> QED  BY <1>1, BeginOk DEF PostSnapshot

LEMMA ExecuteStoreOk ==
  ASSUME ProjectionInv, NEW r \in Requests, ExecuteStore(r)
  PROVE  ProjectionInv'
<1>1. /\ AtStatement(r) /\ Head(Todo(r)) = Store /\ Advance(r)
      /\ stored' = stored \cup {Msg(r)}
      /\ UNCHANGED <<calm, clock, rows, accepted, missed, reported>>
  BY DEF ExecuteStore
<1>2. handler[r] # Idle /\ Todo(r) # <<>>
  BY <1>1 DEF AtStatement, Running
<1>3. Msg(r) \in Message /\ Todo(r) \in Seq(Statement)
  BY <1>2, RunFacts DEF ProjectionInv
<1>4. /\ handler' \in [Requests -> {Idle} \cup Runs]
      /\ Msg(r)' = Msg(r) /\ Todo(r)' = Tail(Todo(r))
      /\ \A q \in Requests \ {r} : handler'[q] = handler[q]
  BY <1>1, AdvanceFacts DEF ProjectionInv
<1>5. TypeOK'
  BY <1>1, <1>3, <1>4 DEF ProjectionInv, TypeOK, Runs
<1>6. HandlerOk(r)'
  <2>1. ASSUME NEW k \in Named(Msg(r))
        PROVE  rows[k] # <<>> \/ Msg(r) \in missed \/ Awaited(k, Tail(Todo(r)))
    <3>1. rows[k] # <<>> \/ Msg(r) \in missed \/ Awaited(k, Todo(r))
      BY <1>2 DEF ProjectionInv, HandlersOk, HandlerOk
    <3> QED  BY <1>1, <1>2, <1>3, <3>1, AwaitedInTail
  <2> QED  BY <1>1, <1>4, <2>1 DEF HandlerOk
<1>7. ASSUME NEW q \in Requests, q # r
      PROVE  HandlerOk(q)'
  BY <1>1, <1>4, <1>7, HandlerKept DEF ProjectionInv
<1>8. HandlersOk'
  BY <1>6, <1>7 DEF HandlersOk
<1>9. RowIsBacked' /\ AcceptedIsListed' /\ ReportsShown'
  BY <1>1 DEF ProjectionInv, RowIsBacked, AcceptedIsListed, Listed, ReportsShown
<1> QED  BY <1>5, <1>8, <1>9 DEF ProjectionInv

\* The report of a statement is the time its row shows.
LEMMA ReportFacts ==
  ASSUME TypeOK, NEW s \in Statement, s # Store, NEW by \in Message
  PROVE  /\ s.key \in Key /\ RowOf(s, by) \in Row
         /\ RowOf(s, by).by = by /\ RowOf(s, by).seen = SeenAt(s)
         /\ Report(s, by) \subseteq [key : Key, at : Nat, by : Message]
         /\ \A p \in Report(s, by) : p.key = s.key /\ s.key.table = "agents"
         /\ s.key.table = "agents" => [key |-> s.key, at |-> SeenAt(s), by |-> by] \in Report(s, by)
<1>1. s.key \in Key /\ s.path \in BOOLEAN /\ s.seen \in Nat \cup {Now}
  BY DEF Statement
<1>2. SeenAt(s) \in Nat
  BY <1>1 DEF TypeOK, SeenAt
<1>3. /\ RowOf(s, by) \in Row
      /\ RowOf(s, by).by = by /\ RowOf(s, by).seen = SeenAt(s)
  BY <1>1, <1>2 DEF RowOf, Row
<1>4. Report(s, by) = IF s.key.table = "agents" THEN {[key |-> s.key, at |-> SeenAt(s), by |-> by]} ELSE {}
  BY DEF Report, SeenAt
<1> HIDE DEF SeenAt
<1> QED  BY <1>1, <1>2, <1>3, <1>4

LEMMA ExecuteUpsertOk ==
  ASSUME ProjectionInv, NEW r \in Requests, ExecuteUpsert(r)
  PROVE  ProjectionInv'
<1> DEFINE s   == Head(Todo(r))
           row == RowOf(s, Msg(r))
           new == Upserted(rows[s.key], s, Msg(r))
<1>1. /\ AtStatement(r) /\ s # Store /\ Advance(r)
      /\ rows' = [rows EXCEPT ![s.key] = new]
      /\ reported' = reported \cup Report(s, Msg(r))
      /\ UNCHANGED <<calm, clock, stored, accepted, missed>>
  BY DEF ExecuteUpsert
<1>2. handler[r] # Idle /\ Todo(r) # <<>>
  BY <1>1 DEF AtStatement, Running
<1>3. Msg(r) \in Message /\ Todo(r) \in Seq(Statement) /\ s \in Statement
  BY <1>2, RunFacts DEF ProjectionInv
<1>4. /\ handler' \in [Requests -> {Idle} \cup Runs]
      /\ Msg(r)' = Msg(r) /\ Todo(r)' = Tail(Todo(r))
      /\ \A q \in Requests \ {r} : handler'[q] = handler[q]
  BY <1>1, AdvanceFacts DEF ProjectionInv
<1>5. /\ s.key \in Key /\ row \in Row /\ row.by = Msg(r) /\ row.seen = SeenAt(s)
      /\ Report(s, Msg(r)) \subseteq [key : Key, at : Nat, by : Message]
      /\ \A p \in Report(s, Msg(r)) : p.key = s.key /\ s.key.table = "agents"
      /\ s.key.table = "agents" =>
           [key |-> s.key, at |-> SeenAt(s), by |-> Msg(r)] \in Report(s, Msg(r))
  BY <1>1, <1>3, ReportFacts DEF ProjectionInv
<1>6. rows \in [Key -> Seq(Row)] /\ rows[s.key] \in Seq(Row)
  BY <1>5 DEF ProjectionInv, TypeOK
<1>7. /\ new \in Seq(Row) /\ new # <<>>
      /\ \A i \in DOMAIN new :
           new[i] = row \/ (i \in DOMAIN rows[s.key] /\ new[i] = rows[s.key][i])
  BY <1>5, <1>6, UpsertedFacts
<1> HIDE DEF s, row, new
<1>8. /\ rows' \in [Key -> Seq(Row)] /\ rows'[s.key] = new
      /\ \A k \in Key \ {s.key} : rows'[k] = rows[k]
  BY <1>1, <1>5, <1>6, <1>7
<1>9. \A k \in Key : rows[k] # <<>> => rows'[k] # <<>>
  BY <1>7, <1>8
<1>10. TypeOK'
  BY <1>1, <1>4, <1>5, <1>8 DEF ProjectionInv, TypeOK, Runs
<1>11. Msg(r) \in stored
  BY <1>1, <1>2 DEF ProjectionInv, HandlersOk, HandlerOk, s
<1>12. HandlerOk(r)'
  <2>1. ASSUME NEW k \in Named(Msg(r))
        PROVE  rows'[k] # <<>> \/ Msg(r) \in missed \/ Awaited(k, Tail(Todo(r)))
    <3>1. k \in Key
      BY <1>3 DEF Key
    <3>2. rows[k] # <<>> \/ Msg(r) \in missed \/ Awaited(k, Todo(r))
      BY <1>2 DEF ProjectionInv, HandlersOk, HandlerOk
    <3>3. Awaited(k, Todo(r)) => s.key = k \/ Awaited(k, Tail(Todo(r)))
      BY <1>2, <1>3, AwaitedInTail DEF s
    <3> QED  BY <1>7, <1>8, <1>9, <3>1, <3>2, <3>3
  <2> QED  BY <1>1, <1>4, <1>11, <2>1 DEF HandlerOk
<1>13. ASSUME NEW q \in Requests, q # r
       PROVE  HandlerOk(q)'
  BY <1>1, <1>4, <1>9, <1>13, HandlerKept DEF ProjectionInv
<1>14. HandlersOk'
  BY <1>12, <1>13 DEF HandlersOk
<1>15. RowIsBacked'
  <2>1. ASSUME NEW k \in Key, NEW i \in DOMAIN rows'[k]
        PROVE  rows'[k][i].by \in stored
    BY <1>5, <1>7, <1>8, <1>11, <2>1 DEF ProjectionInv, RowIsBacked
  <2> QED  BY <1>1, <2>1 DEF RowIsBacked
<1>16. AcceptedIsListed'
  BY <1>1, <1>9 DEF ProjectionInv, AcceptedIsListed, Listed
<1>17. ReportsShown'
  <2>1. ASSUME NEW p \in reported'
        PROVE  p.key.table = "agents" /\ rows'[p.key] # <<>>
    <3>1. CASE p \in reported
      <4>1. p.key \in Key
        BY <3>1 DEF ProjectionInv, TypeOK
      <4> QED  BY <1>9, <3>1, <4>1 DEF ProjectionInv, ReportsShown
    <3>2. CASE p \in Report(s, Msg(r))
      BY <1>5, <1>7, <1>8, <3>2
    <3> QED  BY <1>1, <3>1, <3>2
  <2>2. ASSUME NEW k \in Key, k.table = "agents", NEW i \in DOMAIN rows'[k]
        PROVE  [key |-> k, at |-> rows'[k][i].seen, by |-> rows'[k][i].by] \in reported'
    <3>1. CASE k = s.key /\ rows'[k][i] = row
      BY <1>1, <1>5, <2>2, <3>1
    <3>2. CASE i \in DOMAIN rows[k] /\ rows'[k][i] = rows[k][i]
      BY <1>1, <2>2, <3>2 DEF ProjectionInv, ReportsShown
    <3> QED  BY <1>7, <1>8, <2>2, <3>1, <3>2
  <2> QED  BY <2>1, <2>2 DEF ReportsShown
<1> QED  BY <1>10, <1>14, <1>15, <1>16, <1>17 DEF ProjectionInv

LEMMA AnswerOk ==
  ASSUME ProjectionInv, NEW r \in Requests, Answer(r)
  PROVE  ProjectionInv'
<1>1. /\ handler[r] # Idle /\ Todo(r) = <<>> /\ accepted' = accepted \cup {Msg(r)}
      /\ handler' = [handler EXCEPT ![r] = Idle]
      /\ UNCHANGED <<calm, clock, rows, stored, missed, reported>>
  BY DEF Answer, Running, Finish
<1>2. Msg(r) \in Message
  BY <1>1, RunFacts DEF ProjectionInv
<1>3. handler \in [Requests -> {Idle} \cup Runs]
  BY DEF ProjectionInv, TypeOK, Runs
<1>4. TypeOK'
  <2>1. handler' \in [Requests -> {Idle} \cup Runs]
    BY <1>1, <1>3
  <2> QED  BY <1>1, <1>2, <2>1 DEF ProjectionInv, TypeOK, Runs
<1>5. ASSUME NEW q \in Requests
      PROVE  HandlerOk(q)'
  <2>1. CASE q = r
    BY <1>1, <1>3, <2>1 DEF HandlerOk
  <2>2. CASE q # r
    BY <1>1, <1>3, <2>2, HandlerKept DEF ProjectionInv
  <2> QED  BY <2>1, <2>2
<1>6. RowIsBacked' /\ ReportsShown'
  BY <1>1 DEF ProjectionInv, RowIsBacked, ReportsShown
<1>7. AcceptedIsListed'
  <2>1. Msg(r) \in stored
    BY <1>1 DEF ProjectionInv, HandlersOk, HandlerOk
  <2>2. ASSUME Msg(r) \notin missed
        PROVE  Named(Msg(r)) \subseteq Listed
    <3>1. ASSUME NEW k \in Named(Msg(r))
          PROVE  rows[k] # <<>>
      <4>1. ~Awaited(k, Todo(r))
        BY <1>1 DEF Awaited
      <4> QED  BY <1>1, <2>2, <4>1 DEF ProjectionInv, HandlersOk, HandlerOk
    <3> QED  BY <1>2, <3>1 DEF Listed, Key
  <2>3. missed \subseteq Events
    BY DEF ProjectionInv, TypeOK
  <2> QED  BY <1>1, <2>1, <2>2, <2>3 DEF ProjectionInv, AcceptedIsListed, Listed
<1> QED  BY <1>4, <1>5, <1>6, <1>7 DEF ProjectionInv, HandlersOk

\* A step that ends requests, and writes nothing.
LEMMA EndedOk ==
  ASSUME ProjectionInv, calm' \in BOOLEAN, clock' \in Nat,
         handler' \in [Requests -> {Idle} \cup Runs],
         \A r \in Requests : handler'[r] = handler[r] \/ handler'[r] = Idle,
         UNCHANGED <<rows, stored, accepted, missed, reported>>
  PROVE  ProjectionInv'
<1>1. TypeOK'
  BY DEF ProjectionInv, TypeOK, Runs
<1>2. ASSUME NEW r \in Requests
      PROVE  HandlerOk(r)'
  <2>1. CASE handler'[r] = Idle
    BY <2>1 DEF HandlerOk
  <2>2. CASE handler'[r] = handler[r]
    BY <2>2, HandlerKept DEF ProjectionInv
  <2> QED  BY <2>1, <2>2
<1> QED  BY <1>1, <1>2, NothingWritten DEF ProjectionInv, HandlersOk

LEMMA StatementFaultOk ==
  ASSUME ProjectionInv, NEW r \in Requests, StatementFault(r)
  PROVE  ProjectionInv'
<1>1. /\ handler' = [handler EXCEPT ![r] = Idle]
      /\ UNCHANGED <<calm, clock, rows, stored, accepted, missed, reported>>
  BY DEF StatementFault, Finish
<1>2. handler \in [Requests -> {Idle} \cup Runs] /\ calm \in BOOLEAN /\ clock \in Nat
  BY DEF ProjectionInv, TypeOK, Runs
<1>3. calm' \in BOOLEAN
  BY <1>1, <1>2
<1>4. /\ handler' \in [Requests -> {Idle} \cup Runs]
      /\ \A q \in Requests : handler'[q] = handler[q] \/ handler'[q] = Idle
  BY <1>1, <1>2
<1> QED  BY <1>1, <1>2, <1>3, <1>4, EndedOk

LEMMA ServerCrashOk ==
  ASSUME ProjectionInv, ServerCrash
  PROVE  ProjectionInv'
<1>1. /\ handler' = [r \in Requests |-> Idle]
      /\ UNCHANGED <<calm, clock, rows, stored, accepted, missed, reported>>
  BY DEF ServerCrash
<1>2. calm \in BOOLEAN /\ clock \in Nat
  BY DEF ProjectionInv, TypeOK
<1>3. calm' \in BOOLEAN
  BY <1>1, <1>2
<1> QED  BY <1>1, <1>2, <1>3, EndedOk

LEMMA CalmDownOk ==
  ASSUME ProjectionInv, CalmDown
  PROVE  ProjectionInv'
<1>1. calm' = TRUE /\ UNCHANGED <<clock, rows, handler, stored, accepted, missed, reported>>
  BY DEF CalmDown
<1>2. handler \in [Requests -> {Idle} \cup Runs] /\ clock \in Nat
  BY DEF ProjectionInv, TypeOK, Runs
<1>3. calm' \in BOOLEAN
  BY <1>1
<1> QED  BY <1>1, <1>2, <1>3, EndedOk

LEMMA TickOk ==
  ASSUME ProjectionInv, Tick
  PROVE  ProjectionInv'
<1>1. clock' = clock + 1 /\ UNCHANGED <<calm, rows, handler, stored, accepted, missed, reported>>
  BY DEF Tick
<1>2. handler \in [Requests -> {Idle} \cup Runs] /\ calm \in BOOLEAN /\ clock \in Nat
  BY DEF ProjectionInv, TypeOK, Runs
<1>3. calm' \in BOOLEAN
  BY <1>1, <1>2
<1>4. clock' \in Nat
  BY <1>1, <1>2
<1> QED  BY <1>1, <1>2, <1>3, <1>4, EndedOk

LEMMA StutterOk ==
  ASSUME ProjectionInv, UNCHANGED vars
  PROVE  ProjectionInv'
<1>1. UNCHANGED <<calm, clock, rows, handler, stored, accepted, missed, reported>>
  BY DEF vars
<1>2. handler \in [Requests -> {Idle} \cup Runs] /\ calm \in BOOLEAN /\ clock \in Nat
  BY DEF ProjectionInv, TypeOK, Runs
<1>3. calm' \in BOOLEAN
  BY <1>1, <1>2
<1> QED  BY <1>1, <1>2, <1>3, EndedOk

LEMMA IgnoredFaultOk ==
  ASSUME ProjectionInv, NEW r \in Requests, IgnoredFault(r)
  PROVE  ProjectionInv'
<1>1. /\ AtStatement(r) /\ ~Required(r) /\ Advance(r)
      /\ missed' = missed \cup {Msg(r)}
      /\ UNCHANGED <<calm, clock, rows, stored, accepted, reported>>
  BY DEF IgnoredFault
<1>2. handler[r] # Idle /\ Head(Todo(r)) # Store /\ Msg(r) # Snapshot
  BY <1>1 DEF AtStatement, Running, Required
<1>3. Msg(r) \in Events
  BY <1>2, RunFacts DEF ProjectionInv, Message
<1>4. /\ handler' \in [Requests -> {Idle} \cup Runs]
      /\ Msg(r)' = Msg(r) /\ Todo(r)' = Tail(Todo(r))
      /\ \A q \in Requests \ {r} : handler'[q] = handler[q]
  BY <1>1, AdvanceFacts DEF ProjectionInv
<1>5. TypeOK'
  <2>1. calm' \in BOOLEAN
    BY <1>1 DEF ProjectionInv, TypeOK
  <2> QED  BY <1>1, <1>3, <1>4, <2>1 DEF ProjectionInv, TypeOK, Runs
<1>6. HandlerOk(r)'
  <2>1. Msg(r) \in stored
    BY <1>2 DEF ProjectionInv, HandlersOk, HandlerOk
  <2> QED  BY <1>1, <1>4, <2>1 DEF HandlerOk
<1>7. ASSUME NEW q \in Requests, q # r
      PROVE  HandlerOk(q)'
  BY <1>1, <1>4, <1>7, HandlerKept DEF ProjectionInv
<1>8. HandlersOk'
  BY <1>6, <1>7 DEF HandlersOk
<1>9. RowIsBacked' /\ AcceptedIsListed' /\ ReportsShown'
  BY <1>1 DEF ProjectionInv, RowIsBacked, AcceptedIsListed, Listed, ReportsShown
<1> QED  BY <1>5, <1>8, <1>9 DEF ProjectionInv

------------------------------------------------------------------------------
(***************************************************************************)
(* The theorems.                                                           *)
(***************************************************************************)

LEMMA NextOk == ProjectionInv /\ [Next]_vars => ProjectionInv'
<1> SUFFICES ASSUME ProjectionInv, [Next]_vars PROVE ProjectionInv'
  OBVIOUS
<1>1. CASE UNCHANGED vars
  BY <1>1, StutterOk
<1>2. ASSUME NEW r \in Requests, NEW e \in Events, PostEvent(r, e)
      PROVE  ProjectionInv'
  BY <1>2, PostEventOk
<1>3. ASSUME NEW r \in Requests, PostSnapshot(r)
      PROVE  ProjectionInv'
  BY <1>3, PostSnapshotOk
<1>4. ASSUME NEW r \in Requests, Handler(r)
      PROVE  ProjectionInv'
  BY <1>4, ExecuteStoreOk, ExecuteUpsertOk, AnswerOk DEF Handler
<1>5. CASE Fault
  BY <1>5, StatementFaultOk, IgnoredFaultOk, ServerCrashOk DEF Fault
<1>6. CASE CalmDown \/ Tick
  BY <1>6, CalmDownOk, TickOk
<1> QED  BY <1>1, <1>2, <1>3, <1>4, <1>5, <1>6 DEF Next

\* Whatever requests run together, fail or are cut off: the invariant holds.
THEOREM InvariantHolds == Spec => []ProjectionInv
  BY InitOk, NextOk, PTL DEF Spec

\* Every variable keeps its type; no statement of a handler writes a row of
\* an entity that no message names.
THEOREM TypeCorrect == Spec => []TypeOK
<1>1. ProjectionInv => TypeOK
  BY DEF ProjectionInv
<1> QED  BY <1>1, InvariantHolds, PTL

\* The lists show nothing that was not ingested: InsertEvent and
\* InsertSnapshot store the message before they upsert what it names, so each
\* row was last written for a stored one, wherever a handler fails or ends.
THEOREM RowsAreBacked == Spec => []RowIsBacked
<1>1. ProjectionInv => RowIsBacked
  BY DEF ProjectionInv
<1> QED  BY <1>1, InvariantHolds, PTL

\* What was answered with 202 is stored and listed: all of a snapshot, and
\* all of an event unless an upsert whose error InsertEvent ignores failed.
THEOREM AcceptedAreListed == Spec => []AcceptedIsListed
<1>1. ProjectionInv => AcceptedIsListed
  BY DEF ProjectionInv
<1> QED  BY <1>1, InvariantHolds, PTL

\* The row of an agent shows one of its reports, so the query of the alerts
\* selects the row when all of them are old.
LEMMA ShownReportsRaiseAlerts == TypeOK /\ ReportsShown => NoMissedAlert
<1> SUFFICES ASSUME TypeOK, ReportsShown, NEW p \in reported, Silent(p.key)
             PROVE  p.key \in Stale
  BY DEF NoMissedAlert
<1> DEFINE k == p.key
<1>1. k \in Key /\ k.table = "agents" /\ rows[k] # <<>>
  BY DEF TypeOK, ReportsShown
<1>2. rows[k] \in Seq(Row)
  BY <1>1 DEF TypeOK
<1> HIDE DEF k
<1>3. 1 \in DOMAIN rows[k]
  BY <1>1, <1>2
<1>4. [key |-> k, at |-> rows[k][1].seen, by |-> rows[k][1].by] \in reported
  BY <1>1, <1>3 DEF ReportsShown
<1>5. rows[k][1].seen < clock - StaleAfter
  BY <1>4 DEF Silent, k
<1> QED  BY <1>1, <1>3, <1>5 DEF Stale, k

\* No alert is missed: an agent all of whose reports are older than the stale
\* window has a row that ListAlerts selects, in whatever order its events and
\* snapshots were posted, spooled and processed.
THEOREM AlertsAreNotMissed == Spec => []NoMissedAlert
<1>1. ProjectionInv => NoMissedAlert
  BY ShownReportsRaiseAlerts DEF ProjectionInv
<1> QED  BY <1>1, InvariantHolds, PTL

------------------------------------------------------------------------------
(***************************************************************************)
(* What keeps the alerts from being right: reports that are processed      *)
(* after newer ones (the run projection_false_alert), and snapshots that   *)
(* count as reports of the agents they list.                               *)
(***************************************************************************)

\* A unique constraint without NULLs keeps its table to one row for a key.
UniqueRows == \A k \in Key : Unique(k) => Len(rows[k]) <= 1

LEMMA StepUniqueRows ==
  ASSUME ProjectionInv, UniqueRows, [Next]_vars
  PROVE  UniqueRows'
<1>1. CASE UNCHANGED rows
  BY <1>1 DEF UniqueRows
<1>2. ASSUME NEW r \in Requests, ExecuteUpsert(r)
      PROVE  UniqueRows'
  <2> DEFINE s   == Head(Todo(r))
             new == Upserted(rows[s.key], s, Msg(r))
  <2>1. rows' = [rows EXCEPT ![s.key] = new]
    BY <1>2 DEF ExecuteUpsert
  <2> DEFINE row == RowOf(s, Msg(r))
  <2>2. Unique(s.key) => new = <<row>>
    BY DEF Upserted
  <2>3. Unique(s.key) => Len(new) <= 1
    <3>1. Len(<<row>>) = 1
      <4> HIDE DEF row
      <4> QED  OBVIOUS
    <3> HIDE DEF row, new, s
    <3>2. ASSUME new = <<row>> PROVE Len(new) <= 1
      BY <3>1, <3>2
    <3> QED  BY <2>2, <3>2
  <2> HIDE DEF s
  <2> HIDE DEF new
  <2>4. ASSUME NEW k \in Key, Unique(k)
        PROVE  Len(rows'[k]) <= 1
    <3>1. rows'[k] = IF k = s.key THEN new ELSE rows[k]
      BY <2>1 DEF ProjectionInv, TypeOK
    <3> QED  BY <2>3, <2>4, <3>1 DEF UniqueRows
  <2> QED  BY <2>4 DEF UniqueRows
<1>3. CASE ~(\E r \in Requests : ExecuteUpsert(r)) /\ Next
  <2>1. UNCHANGED rows
    BY <1>3
    DEF Next, PostEvent, PostSnapshot, Begin, Handler, ExecuteStore, Answer, Fault,
        StatementFault, IgnoredFault, ServerCrash, CalmDown, Tick
  <2> QED  BY <1>1, <2>1
<1> QED  BY <1>1, <1>2, <1>3 DEF vars

LEMMA InitUniqueRows == Init => UniqueRows
  BY DEF Init, UniqueRows

LEMMA UniqueRowsHold == Spec => []UniqueRows
  BY InvariantHolds, InitUniqueRows, StepUniqueRows, PTL DEF Spec

\* No step makes the one row of an agent older.
SeenNeverFalls ==
  \A k \in Key :
    k.table = "agents" /\ Unique(k) /\ rows[k] # <<>> =>
      rows'[k][1].seen >= rows[k][1].seen

\* The one row of an agent is as new as each of its reports.
ReportsCovered ==
  \A p \in reported : Unique(p.key) => p.at <= rows[p.key][1].seen

LEMMA StepReportsCovered ==
  ASSUME ProjectionInv, ProjectionInv', UniqueRows', ReportsCovered, SeenNeverFalls,
         [Next]_vars
  PROVE  ReportsCovered'
<1>1. ASSUME NEW p \in reported, Unique(p.key)
      PROVE  p.at <= rows'[p.key][1].seen
  <2>1. p.key \in Key /\ p.key.table = "agents" /\ rows[p.key] # <<>> /\ p.at \in Nat
    BY DEF ProjectionInv, TypeOK, ReportsShown
  <2>2. /\ p.at <= rows[p.key][1].seen
        /\ rows'[p.key][1].seen >= rows[p.key][1].seen
    BY <1>1, <2>1 DEF ReportsCovered, SeenNeverFalls
  <2>3. rows[p.key][1].seen \in Nat
    <3>1. rows[p.key] \in Seq(Row)
      BY <2>1 DEF ProjectionInv, TypeOK
    <3>2. rows[p.key][1] \in Row
      BY <2>1, <3>1
    <3> QED  BY <3>2 DEF Row
  <2>4. rows'[p.key][1].seen \in Nat
    <3>1. rows'[p.key] \in Seq(Row) /\ p \in reported' /\ rows'[p.key] # <<>>
      <4>1. reported \subseteq reported'
        BY DEF Next, vars, PostEvent, PostSnapshot, Begin, Handler, ExecuteStore,
               ExecuteUpsert, Answer, Fault, StatementFault, IgnoredFault, ServerCrash,
               CalmDown, Tick
      <4> QED  BY <2>1, <4>1 DEF ProjectionInv, TypeOK, ReportsShown
    <3>2. rows'[p.key][1] \in Row
      BY <3>1
    <3> QED  BY <3>2 DEF Row
  <2> QED  BY <2>1, <2>2, <2>3, <2>4
<1>2. CASE UNCHANGED reported
  BY <1>1, <1>2 DEF ReportsCovered
<1>3. ASSUME NEW r \in Requests, ExecuteUpsert(r)
      PROVE  ReportsCovered'
  <2> DEFINE s   == Head(Todo(r))
             new == Upserted(rows[s.key], s, Msg(r))
  <2>1. /\ AtStatement(r) /\ s # Store /\ rows' = [rows EXCEPT ![s.key] = new]
        /\ reported' = reported \cup Report(s, Msg(r))
    BY <1>3 DEF ExecuteUpsert
  <2>2. Msg(r) \in Message /\ s \in Statement
    BY <2>1, RunFacts DEF ProjectionInv, AtStatement, Running
  <2>3. /\ s.key \in Key /\ RowOf(s, Msg(r)) \in Row /\ RowOf(s, Msg(r)).seen = SeenAt(s)
        /\ \A p \in Report(s, Msg(r)) : p.key = s.key
    <3> HIDE DEF s
    <3> QED  BY <2>1, <2>2, ReportFacts DEF ProjectionInv
  <2>4. ASSUME NEW p \in Report(s, Msg(r)), Unique(p.key)
        PROVE  p.at <= rows'[p.key][1].seen
    <3>1. p.key = s.key /\ p.at = SeenAt(s)
      BY <2>3, <2>4 DEF Report, SeenAt
    <3>2. new = <<RowOf(s, Msg(r))>>
      BY <2>4, <3>1 DEF Upserted
    <3>3. rows'[s.key] = new
      BY <2>1, <2>3 DEF ProjectionInv, TypeOK
    <3>4. rows'[s.key][1].seen = SeenAt(s)
      BY <2>3, <3>2, <3>3
    <3>5. SeenAt(s) \in Nat
      BY <2>3 DEF Row
    <3> HIDE DEF s, new
    <3> QED  BY <3>1, <3>4, <3>5
  <2> QED  BY <1>1, <2>1, <2>4 DEF ReportsCovered
<1>4. CASE ~(\E r \in Requests : ExecuteUpsert(r)) /\ Next
  <2>1. UNCHANGED reported
    BY <1>4
    DEF Next, PostEvent, PostSnapshot, Begin, Handler, ExecuteStore, Answer, Fault,
        StatementFault, IgnoredFault, ServerCrash, CalmDown, Tick
  <2> QED  BY <1>2, <2>1
<1> QED  BY <1>2, <1>3, <1>4 DEF vars

LEMMA CoveredReportsKeepAlertsTrue ==
  ProjectionInv /\ UniqueRows /\ ReportsCovered => AlertIsTrue
<1> SUFFICES ASSUME ProjectionInv, UniqueRows, ReportsCovered, NEW k \in Alerts,
                    NEW p \in reported, p.key = k
             PROVE  p.at < clock - StaleAfter
  BY DEF AlertIsTrue, Silent
<1>1. k \in Stale /\ k.rig # Null
  BY DEF Alerts, AlertsFail
<1>2. Unique(k)
  BY <1>1 DEF Unique
<1>3. PICK i \in DOMAIN rows[k] : rows[k][i].seen < clock - StaleAfter
  BY <1>1 DEF Stale
<1>4. k \in Key /\ rows[k] \in Seq(Row)
  BY <1>1 DEF Stale, ProjectionInv, TypeOK
<1>5. i = 1 /\ rows[k][1] \in Row
  BY <1>2, <1>3, <1>4 DEF UniqueRows
<1>6. p.at <= rows[k][1].seen
  BY <1>2 DEF ReportsCovered
<1>7. rows[k][1].seen \in Nat /\ p.at \in Nat /\ clock \in Nat /\ StaleAfter \in Nat
  BY <1>5, ProjectionAssumption DEF Row, ProjectionInv, TypeOK
<1> QED  BY <1>3, <1>5, <1>6, <1>7

\* An alert is false only after an older report has overwritten a newer one,
\* as the upsert of an agent lets it: as long as none does, each alert is
\* about an agent that has not reported recently.
THEOREM AlertsAreTrueInOrder == Spec /\ [][SeenNeverFalls]_vars => []AlertIsTrue
<1>1. Init => ReportsCovered
  BY DEF Init, ReportsCovered
<1>2. ASSUME ProjectionInv, ProjectionInv', UniqueRows', ReportsCovered, [Next]_vars,
             [SeenNeverFalls]_vars
      PROVE  ReportsCovered'
  <2>1. CASE SeenNeverFalls
    BY <1>2, <2>1, StepReportsCovered
  <2>2. CASE UNCHANGED vars
    BY <1>2, <2>2 DEF vars, ReportsCovered
  <2> QED  BY <1>2, <2>1, <2>2
<1>3. Spec /\ [][SeenNeverFalls]_vars => []ReportsCovered
  BY <1>1, <1>2, InvariantHolds, UniqueRowsHold, PTL DEF Spec
<1> QED  BY <1>3, InvariantHolds, UniqueRowsHold, CoveredReportsKeepAlertsTrue, PTL

\* What a request has left to do is of its own message, and so is what is
\* reported.
TodoIsNamed ==
  \A r \in Requests :
    Running(r) => Todo(r) \in Seq({Store} \cup UpsertsOf(Named(Msg(r))))

ReportsAreNamed == \A p \in reported : p.key \in Named(p.by)

LEMMA BeginNames ==
  ASSUME ProjectionInv, TodoIsNamed, ReportsAreNamed,
         NEW r \in Requests, NEW m \in Message, NEW at \in Nat, Begin(r, m, StatementsOf(m, at))
  PROVE  TodoIsNamed' /\ ReportsAreNamed'
<1>1. /\ handler' = [handler EXCEPT ![r] =
                       [st |-> "running", msg |-> m, todo |-> StatementsOf(m, at)]]
      /\ reported' = reported
  BY DEF Begin
<1>2. StatementsOf(m, at) \in Seq({Store} \cup UpsertsOf(Named(m)))
  BY NamedFacts
<1>3. ASSUME NEW q \in Requests, Running(q)'
      PROVE  Todo(q)' \in Seq({Store} \cup UpsertsOf(Named(Msg(q)')))
  <2>1. CASE q = r
    <3>1. Todo(q)' = StatementsOf(m, at) /\ Msg(q)' = m
      BY <1>1, <2>1 DEF ProjectionInv, TypeOK, Todo, Msg
    <3> QED  BY <1>2, <3>1
  <2>2. CASE q # r
    <3>1. handler'[q] = handler[q]
      BY <1>1, <2>2 DEF ProjectionInv, TypeOK
    <3> QED  BY <1>3, <3>1 DEF TodoIsNamed, Running, Todo, Msg
  <2> QED  BY <2>1, <2>2
<1>4. TodoIsNamed'
  BY <1>3 DEF TodoIsNamed
<1> QED  BY <1>1, <1>4 DEF ReportsAreNamed

\* Where a statement is done, or passed over.
LEMMA AdvanceNames ==
  ASSUME ProjectionInv, TodoIsNamed, NEW r \in Requests, AtStatement(r), Advance(r)
  PROVE  TodoIsNamed'
<1>1. /\ Msg(r)' = Msg(r) /\ Todo(r)' = Tail(Todo(r))
      /\ \A q \in Requests \ {r} : handler'[q] = handler[q]
  BY AdvanceFacts DEF ProjectionInv
<1>2. Todo(r) # <<>> /\ Todo(r) \in Seq({Store} \cup UpsertsOf(Named(Msg(r))))
  BY DEF AtStatement, TodoIsNamed
<1> DEFINE S == {Store} \cup UpsertsOf(Named(Msg(r)))
<1>3. Tail(Todo(r)) \in Seq(S)
  <2> HIDE DEF S
  <2> SUFFICES ASSUME NEW t \in Seq(S), t # <<>> PROVE Tail(t) \in Seq(S)
    BY <1>2 DEF S
  <2> QED  OBVIOUS
<1>4. ASSUME NEW q \in Requests, Running(q)'
      PROVE  Todo(q)' \in Seq({Store} \cup UpsertsOf(Named(Msg(q)')))
  <2>1. CASE q = r
    BY <1>1, <1>3, <2>1
  <2>2. CASE q # r
    <3>1. handler'[q] = handler[q]
      BY <1>1, <2>2
    <3> QED  BY <1>4, <3>1 DEF TodoIsNamed, Running, Todo, Msg
  <2> QED  BY <2>1, <2>2
<1> QED  BY <1>4 DEF TodoIsNamed

LEMMA StepNames ==
  ASSUME ProjectionInv, TodoIsNamed, ReportsAreNamed, [Next]_vars
  PROVE  TodoIsNamed' /\ ReportsAreNamed'
<1>1. ASSUME NEW r \in Requests, NEW e \in Events, PostEvent(r, e)
      PROVE  TodoIsNamed' /\ ReportsAreNamed'
  <2>1. PICK at \in 0..clock : Begin(r, e, EventStatements(e, at))
    BY <1>1 DEF PostEvent
  <2>2. at \in Nat /\ e \in Message /\ EventStatements(e, at) = StatementsOf(e, at)
    BY ProjectionAssumption DEF ProjectionInv, TypeOK, Message, StatementsOf
  <2>3. Begin(r, e, StatementsOf(e, at))
    BY <2>1, <2>2
  <2> QED  BY <2>2, <2>3, BeginNames
<1>2. ASSUME NEW r \in Requests, PostSnapshot(r)
      PROVE  TodoIsNamed' /\ ReportsAreNamed'
  <2>1. Snapshot \in Message /\ SnapshotStatements = StatementsOf(Snapshot, 0)
    BY DEF Message, StatementsOf
  <2>2. Begin(r, Snapshot, StatementsOf(Snapshot, 0))
    BY <1>2, <2>1 DEF PostSnapshot
  <2> QED  BY <2>1, <2>2, BeginNames
<1>3. ASSUME NEW r \in Requests, ExecuteStore(r) \/ IgnoredFault(r)
      PROVE  TodoIsNamed' /\ ReportsAreNamed'
  <2>1. AtStatement(r) /\ Advance(r) /\ reported' = reported
    BY <1>3 DEF ExecuteStore, IgnoredFault
  <2> QED  BY <2>1, AdvanceNames DEF ReportsAreNamed
<1>4. ASSUME NEW r \in Requests, ExecuteUpsert(r)
      PROVE  TodoIsNamed' /\ ReportsAreNamed'
  <2> DEFINE s == Head(Todo(r))
  <2>1. /\ AtStatement(r) /\ Advance(r) /\ s # Store
        /\ reported' = reported \cup Report(s, Msg(r))
    BY <1>4 DEF ExecuteUpsert
  <2>2. Todo(r) # <<>> /\ Todo(r) \in Seq({Store} \cup UpsertsOf(Named(Msg(r))))
    BY <2>1 DEF AtStatement, TodoIsNamed
  <2>3. s \in UpsertsOf(Named(Msg(r)))
    BY <2>1, <2>2
  <2>4. \A p \in Report(s, Msg(r)) : p.key = s.key /\ p.by = Msg(r)
    BY DEF Report
  <2> HIDE DEF s
  <2>5. s.key \in Named(Msg(r))
    BY <2>3 DEF UpsertsOf
  <2> QED  BY <2>1, <2>4, <2>5, AdvanceNames DEF ReportsAreNamed
<1>5. ASSUME NEW r \in Requests, Answer(r) \/ StatementFault(r)
      PROVE  TodoIsNamed' /\ ReportsAreNamed'
  <2>1. handler' = [handler EXCEPT ![r] = Idle] /\ reported' = reported
    BY <1>5 DEF Answer, StatementFault, Finish
  <2>2. \A q \in Requests : handler'[q] = Idle \/ handler'[q] = handler[q]
    BY <2>1 DEF ProjectionInv, TypeOK
  <2> QED  BY <2>1, <2>2 DEF TodoIsNamed, ReportsAreNamed, Running, Todo, Msg
<1>6. CASE ServerCrash
  <2>1. (\A q \in Requests : handler'[q] = Idle) /\ reported' = reported
    BY <1>6 DEF ServerCrash
  <2> QED  BY <2>1 DEF TodoIsNamed, ReportsAreNamed, Running
<1>7. CASE CalmDown \/ Tick \/ UNCHANGED vars
  <2>1. UNCHANGED <<handler, reported>>
    BY <1>7 DEF CalmDown, Tick, vars
  <2> QED  BY <2>1 DEF TodoIsNamed, ReportsAreNamed, Running, Todo, Msg
<1> QED
  BY <1>1, <1>2, <1>3, <1>4, <1>5, <1>6, <1>7 DEF Next, Handler, Fault

\* An agent that no snapshot lists raises an alert as soon as all its reports
\* are old, in whatever order they were processed: it is the snapshots alone
\* that keep a silent agent from it.
THEOREM UnlistedSilenceIsAlerted ==
  Spec => [](\A k \in Key \ Named(Snapshot) : WhenSilentAlerted(k))
<1> DEFINE StaysNamed == TodoIsNamed /\ ReportsAreNamed
<1>1. Init => StaysNamed
  BY DEF Init, TodoIsNamed, ReportsAreNamed, Running
<1>2. ProjectionInv /\ StaysNamed /\ [Next]_vars => StaysNamed'
  BY StepNames
<1>3. ProjectionInv /\ StaysNamed => \A k \in Key \ Named(Snapshot) : WhenSilentAlerted(k)
  <2> SUFFICES ASSUME ProjectionInv, ReportsAreNamed, NEW k \in Key, k \notin Named(Snapshot),
                      OwnReports(k) # {},
                      \A p \in OwnReports(k) : p.at < clock - StaleAfter
               PROVE  k \in Stale
    BY DEF WhenSilentAlerted
  <2>1. \A p \in reported : p.key = k => p \in OwnReports(k)
    BY DEF ReportsAreNamed, OwnReports
  <2>2. Silent(k)
    BY <2>1 DEF Silent
  <2>3. NoMissedAlert
    BY ShownReportsRaiseAlerts DEF ProjectionInv
  <2> QED  BY <2>2, <2>3 DEF NoMissedAlert, OwnReports
<1> HIDE DEF StaysNamed
<1> QED  BY <1>1, <1>2, <1>3, InvariantHolds, PTL DEF Spec

==============================================================================
