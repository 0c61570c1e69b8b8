----------------------------- MODULE AccessProofs -----------------------------
(***************************************************************************)
(* Proofs about Access: what a printed key, a revoked key and an audit     *)
(* entry stand for, whatever commands and requests run together and        *)
(* wherever they end; and that withAuth uses the limiter as RateLimiter    *)
(* says, so that the limits proved there hold of the requests it lets in.  *)
(***************************************************************************)
EXTENDS Access, RateLimiterProofs

(***************************************************************************)
(* The inductive invariant.                                                *)
(***************************************************************************)

\* What a command that is to insert its key has to do.
KeyTodos == {<<"key", "audit">>, <<"workspace", "key", "audit">>,
             <<"org", "workspace", "key", "audit">>}

Todos == KeyTodos \cup
  {<<>>, <<"org">>, <<"workspace">>, <<"audit">>, <<"revoke">>, <<"revoke", "audit">>}

\* The shape of rows, commands and requests.
RowShape ==
  /\ orgs \subseteq Orgs
  /\ home \in [Workspaces -> Orgs \cup {NoId}]
  /\ keys \in [Keys -> [ws : Workspaces \cup {NoId}, revoked : BOOLEAN]]
  /\ audits \subseteq [ws : Workspaces, does : {"create", "revoke"}, key : Keys \cup {NoId}]
  /\ printed \subseteq Keys

CommandShape ==
  command \in [Admins ->
    [does : {"create", "revoke"}, todo : Todos,
     org : Orgs \cup {NoId}, ws : Workspaces \cup {NoId}, key : Keys \cup {NoId}]]

RequestShape ==
  request \in [Callers ->
    [st : {"none", "sent", "found", "asking"}, key : Keys \cup {NoId}, late : BOOLEAN]]

\* A row refers to rows there are.
RowInv ==
  /\ \A w \in Workspaces : home[w] # NoId => home[w] \in orgs
  /\ \A k \in Keys : keys[k] # NoRow => keys[k].ws \in Workspaces /\ home[keys[k].ws] # NoId

\* What the statements a command has left say of those it has executed: the
\* key it is to insert is its own, the one it is to audit is there.
OrgTodo(m)    == m.todo \in {<<"org">>, <<"org", "workspace", "key", "audit">>}
WsTodo(m)     == m.todo \in {<<"workspace">>, <<"workspace", "key", "audit">>,
                             <<"org", "workspace", "key", "audit">>}
RevokeTodo(m) == m.todo \in {<<"revoke">>, <<"revoke", "audit">>}
AuditTodo(m)  == m.todo \in KeyTodos \cup {<<"audit">>, <<"revoke", "audit">>}

CommandOk(a) ==
  LET m == command[a]
  IN  /\ m.todo \in {<<>>, <<"org">>, <<"workspace">>} => m.key = NoId
      /\ OrgTodo(m) \/ WsTodo(m) => m.org \in Orgs
      /\ WsTodo(m) \/ AuditTodo(m) => m.ws \in Workspaces
      /\ m.todo \in KeyTodos =>
           /\ m.does = "create" /\ m.key \in Keys /\ keys[m.key] = NoRow
           /\ \A b \in Admins : b # a => command[b].key # m.key
      /\ RevokeTodo(m) => m.does = "revoke" /\ (m.key = NoId \/ keys[m.key] # NoRow)
      /\ m.todo = <<"audit">> /\ m.does = "create" =>
           m.key \in Keys /\ keys[m.key] # NoRow /\ keys[m.key].ws = m.ws

CommandInv == \A a \in Admins : CommandOk(a)

\* A request that came too late stays where it came, one that is let in has
\* a key that has a row, and only one that asks the limiter is known to it.
RequestInv ==
  \A c \in Callers : LET q == request[c] IN
    /\ q.st # "none" => q.key \in Keys
    /\ q.late => q.st = "sent" /\ keys[q.key].revoked
    /\ q.st = "found" => keys[q.key] # NoRow
    /\ q.st # "asking" => asking[c] = NotAsking

PrintedInv == \A k \in printed : keys[k] # NoRow

AccessInv ==
  /\ RowShape /\ CommandShape /\ RequestShape
  /\ RowInv
  /\ CommandInv
  /\ RequestInv
  /\ PrintedInv
  /\ CreationsAreTrue

------------------------------------------------------------------------------
(***************************************************************************)
(* Lemmas.                                                                 *)
(***************************************************************************)

LEMMA TodoFacts ==
  ASSUME NEW t \in Todos, t # <<>>
  PROVE  /\ Len(t) > 1 => Tail(t) \in Todos /\ Tail(t) # <<>>
         /\ Head(t) = "org" => t = <<"org">> \/ t = <<"org", "workspace", "key", "audit">>
         /\ Head(t) = "workspace" => t = <<"workspace">> \/ t = <<"workspace", "key", "audit">>
         /\ Head(t) = "key" => t = <<"key", "audit">>
         /\ Head(t) = "audit" => t = <<"audit">>
         /\ Head(t) = "revoke" => t = <<"revoke">> \/ t = <<"revoke", "audit">>
         /\ Len(t) <= 1 => t \in {<<"org">>, <<"workspace">>, <<"audit">>, <<"revoke">>}
         /\ t = <<"org", "workspace", "key", "audit">> =>
              Len(t) > 1 /\ Tail(t) = <<"workspace", "key", "audit">>
         /\ t = <<"workspace", "key", "audit">> => Len(t) > 1 /\ Tail(t) = <<"key", "audit">>
         /\ t = <<"key", "audit">> => Len(t) > 1 /\ Tail(t) = <<"audit">>
         /\ t = <<"revoke", "audit">> => Len(t) > 1 /\ Tail(t) = <<"audit">>
<1>1. CASE t = <<"org">>
  BY <1>1
<1>2. CASE t = <<"workspace">>
  BY <1>2
<1>3. CASE t = <<"audit">>
  BY <1>3
<1>4. CASE t = <<"revoke">>
  BY <1>4
<1>5. CASE t = <<"revoke", "audit">>
  <2>1. Tail(t) = <<"audit">> /\ Len(t) = 2 /\ Head(t) = "revoke"
    BY <1>5
  <2> QED  BY <1>5, <2>1 DEF Todos
<1>6. CASE t = <<"key", "audit">>
  <2>1. Tail(t) = <<"audit">> /\ Len(t) = 2 /\ Head(t) = "key"
    BY <1>6
  <2> QED  BY <1>6, <2>1 DEF Todos
<1>7. CASE t = <<"workspace", "key", "audit">>
  <2>1. Tail(t) = <<"key", "audit">> /\ Len(t) = 3 /\ Head(t) = "workspace"
    BY <1>7
  <2> QED  BY <1>7, <2>1 DEF Todos, KeyTodos
<1>8. CASE t = <<"org", "workspace", "key", "audit">>
  <2>1. Tail(t) = <<"workspace", "key", "audit">> /\ Len(t) = 4 /\ Head(t) = "org"
    BY <1>8
  <2> QED  BY <1>8, <2>1 DEF Todos, KeyTodos
<1> QED
  BY <1>1, <1>2, <1>3, <1>4, <1>5, <1>6, <1>7, <1>8 DEF Todos, KeyTodos

\* How the command of a goes on: with the rest of its statements, or not.
LEMMA AdvanceFacts ==
  ASSUME RowShape, CommandShape, CommandInv,
         NEW a \in Admins, command[a].todo # <<>>, Advance(a)
  PROVE  /\ CommandShape'
         /\ \A b \in Admins : b # a => command'[b] = command[b]
         /\ IF Len(command[a].todo) > 1
            THEN command'[a] = [command[a] EXCEPT !.todo = Tail(command[a].todo)]
            ELSE command'[a] = NoCommand
         /\ \/ printed' = printed
            \/ /\ command[a].todo = <<"audit">> /\ command[a].does = "create"
               /\ printed' = printed \cup {command[a].key}
         /\ printed' \subseteq Keys
<1>t. /\ command[a].todo \in Todos
      /\ command[a] \in [does : {"create", "revoke"}, todo : Todos, org : Orgs \cup {NoId},
                         ws : Workspaces \cup {NoId}, key : Keys \cup {NoId}]
  BY DEF CommandShape
<1>1. CASE Len(command[a].todo) > 1
  <2>1. Tail(command[a].todo) \in Todos
    BY <1>t, <1>1, TodoFacts
  <2>2. command' = [command EXCEPT ![a].todo = Tail(command[a].todo)] /\ printed' = printed
    BY <1>1 DEF Advance
  <2>3. CommandShape' /\ \A b \in Admins : b # a => command'[b] = command[b]
    BY <1>t, <2>1, <2>2 DEF CommandShape
  <2>4. command'[a] = [command[a] EXCEPT !.todo = Tail(command[a].todo)]
    BY <2>2 DEF CommandShape
  <2>5. printed' \subseteq Keys
    BY <2>2 DEF RowShape
  <2> QED  BY <1>1, <2>2, <2>3, <2>4, <2>5
<1>2. CASE ~(Len(command[a].todo) > 1)
  <2>1. command[a].todo \in {<<"org">>, <<"workspace">>, <<"audit">>, <<"revoke">>}
    <3>1. Len(command[a].todo) \in Nat
      BY <1>t DEF Todos, KeyTodos
    <3> QED  BY <1>t, <1>2, <3>1, TodoFacts
  <2>2. /\ command' = [command EXCEPT ![a] = NoCommand]
        /\ printed' = IF command[a].does = "create" /\ command[a].key # NoId
                      THEN printed \cup {command[a].key} ELSE printed
    BY <1>2 DEF Advance
  <2>3. NoCommand \in [does : {"create", "revoke"}, todo : Todos, org : Orgs \cup {NoId},
                       ws : Workspaces \cup {NoId}, key : Keys \cup {NoId}]
    BY DEF NoCommand, Todos
  <2>4. CommandShape' /\ \A b \in Admins : b # a => command'[b] = command[b]
    BY <2>2, <2>3 DEF CommandShape
  <2>5. command'[a] = NoCommand
    BY <2>2 DEF CommandShape
  <2>6. \/ printed' = printed
        \/ /\ command[a].todo = <<"audit">> /\ command[a].does = "create"
           /\ printed' = printed \cup {command[a].key}
    <3>1. CASE command[a].todo = <<"audit">>
      BY <2>2, <3>1
    <3>2. CASE command[a].todo \in {<<"org">>, <<"workspace">>}
      <4>1. command[a].key = NoId
        BY <3>2 DEF CommandInv, CommandOk
      <4> QED  BY <2>2, <4>1
    <3>3. CASE command[a].todo = <<"revoke">>
      <4>1. command[a].does = "revoke"
        BY <3>3 DEF CommandInv, CommandOk, RevokeTodo
      <4> QED  BY <2>2, <4>1
    <3> QED  BY <2>1, <3>1, <3>2, <3>3
  <2>7. printed' \subseteq Keys
    BY <1>t, <2>2 DEF RowShape
  <2> QED  BY <1>2, <2>4, <2>5, <2>6, <2>7
<1> QED  BY <1>1, <1>2

\* Rows of keys are not deleted, not moved, and stay revoked.
RowsStay ==
  \A k \in Keys : keys[k] # NoRow =>
    /\ keys'[k] # NoRow
    /\ keys'[k].ws = keys[k].ws
    /\ keys[k].revoked => keys'[k].revoked

LEMMA RequestsKept ==
  ASSUME RequestShape, RequestInv, RowsStay, UNCHANGED <<request, asking>>
  PROVE  RequestShape' /\ RequestInv'
<1>1. RequestShape'
  BY DEF RequestShape
<1>2. \A k \in Keys : keys[k].revoked => keys[k] # NoRow
  BY DEF NoRow
<1> QED  BY <1>1, <1>2 DEF RequestShape, RequestInv, RowsStay

\* A step of one command leaves what is said of the others.
LEMMA OthersKept ==
  ASSUME CommandShape, CommandInv, RowsStay, NEW a \in Admins, NEW b \in Admins, b # a,
         \A d \in Admins : d # a => command'[d] = command[d],
         \A k \in Keys : keys[k] = NoRow /\ k # command[a].key => keys'[k] = NoRow,
         command'[a].key # command[a].key =>
           \/ command'[a].key = NoId
           \/ command'[a].key \in Keys /\ keys[command'[a].key] # NoRow
           \/ command[b].key # command'[a].key
  PROVE  CommandOk(b)'
<1>1. CommandOk(b) /\ command'[b] = command[b]
  BY DEF CommandInv
<1>2. CASE command[b].todo \notin KeyTodos
  <2>1. \A k \in Keys : keys[k].revoked => keys[k] # NoRow
    BY DEF NoRow
  <2>2. command[b].key \in Keys \cup {NoId}
    BY DEF CommandShape
  <2> QED
    BY <1>1, <1>2, <2>1, <2>2 DEF CommandOk, RowsStay, OrgTodo, WsTodo, AuditTodo, RevokeTodo
<1>3. CASE command[b].todo \in KeyTodos
  <2>1. /\ command[b].key \in Keys /\ keys[command[b].key] = NoRow
        /\ \A d \in Admins : d # b => command[d].key # command[b].key
    BY <1>1, <1>3 DEF CommandOk
  <2>2. keys'[command[b].key] = NoRow
    BY <2>1
  <2>3. command'[a].key # command[b].key
    BY <2>1, AccessAssumption
  <2>4. \A d \in Admins : d # b => command'[d].key # command[b].key
    BY <2>1, <2>3
  <2> QED
    BY <1>1, <1>3, <2>1, <2>2, <2>4
    DEF CommandOk, KeyTodos, OrgTodo, WsTodo, AuditTodo, RevokeTodo
<1> QED  BY <1>2, <1>3

------------------------------------------------------------------------------
(***************************************************************************)
(* Commands preserve the invariant.                                        *)
(***************************************************************************)

\* What is said of a command that has just begun.
LEMMA BegunKeeps ==
  ASSUME AccessInv, NEW a \in Admins, NEW does, NEW t, NEW o, NEW w, NEW k,
         Begin(a, does, t, o, w, k),
         [does |-> does, todo |-> t, org |-> o, ws |-> w, key |-> k] \in
           [does : {"create", "revoke"}, todo : Todos, org : Orgs \cup {NoId},
            ws : Workspaces \cup {NoId}, key : Keys \cup {NoId}],
         \/ k = NoId
         \/ keys[k] # NoRow
         \/ \A b \in Admins : command[b].key # k,
         CommandOk(a)'
  PROVE  AccessInv'
<1>1. /\ command' = [command EXCEPT ![a] =
            [does |-> does, todo |-> t, org |-> o, ws |-> w, key |-> k]]
      /\ command[a] = NoCommand
      /\ UNCHANGED <<vars, orgs, home, keys, audits, request, printed>>
  BY DEF Begin
<1>2. /\ CommandShape'
      /\ command'[a].key = k
      /\ \A d \in Admins : d # a => command'[d] = command[d]
  BY <1>1 DEF AccessInv, CommandShape
<1>3. RowsStay
  BY <1>1 DEF RowsStay
<1>4. \A b \in Admins : b # a => CommandOk(b)'
  <2> SUFFICES ASSUME NEW b \in Admins, b # a PROVE CommandOk(b)'
    OBVIOUS
  <2>1. k \in Keys \cup {NoId}
    OBVIOUS
  <2> QED  BY <1>1, <1>2, <1>3, <2>1, OthersKept DEF AccessInv
<1>5. RequestShape' /\ RequestInv'
  BY <1>1, <1>3, RequestsKept DEF AccessInv, vars
<1>6. RowShape' /\ RowInv' /\ PrintedInv' /\ CreationsAreTrue'
  BY <1>1 DEF AccessInv, RowShape, RowInv, PrintedInv, CreationsAreTrue, HasKey
<1> QED  BY <1>2, <1>4, <1>5, <1>6 DEF AccessInv, CommandInv

LEMMA BeginCreateKeeps ==
  ASSUME AccessInv, NEW a \in Admins, BeginCreate(a)
  PROVE  AccessInv'
<1> USE DEF CommandOk, OrgTodo, WsTodo, AuditTodo, RevokeTodo, KeyTodos
<1>0. command \in [Admins -> [does : {"create", "revoke"}, todo : Todos,
        org : Orgs \cup {NoId}, ws : Workspaces \cup {NoId}, key : Keys \cup {NoId}]]
  BY DEF AccessInv, CommandShape
<1>1. ASSUME NEW o \in Orgs, Begin(a, "create", <<"org">>, o, NoId, NoId)
      PROVE  AccessInv'
  <2>1. command'[a] =
          [does |-> "create", todo |-> <<"org">>, org |-> o, ws |-> NoId, key |-> NoId]
    BY <1>0, <1>1 DEF Begin
  <2>2. CommandOk(a)'
    BY <2>1
  <2> QED  BY <1>1, <2>2, BegunKeeps DEF Todos
<1>2. ASSUME NEW o \in Orgs, NEW w \in Workspaces,
             Begin(a, "create", <<"workspace">>, o, w, NoId)
      PROVE  AccessInv'
  <2>1. command'[a] =
          [does |-> "create", todo |-> <<"workspace">>, org |-> o, ws |-> w, key |-> NoId]
    BY <1>0, <1>2 DEF Begin
  <2>2. CommandOk(a)'
    BY <2>1
  <2> QED  BY <1>2, <2>2, BegunKeeps DEF Todos
<1>3. ASSUME NEW w \in Workspaces, NEW k \in Keys, FreeKey(k),
             Begin(a, "create", CreateKey, NoId, w, k)
      PROVE  AccessInv'
  <2>1. command' = [command EXCEPT ![a] =
          [does |-> "create", todo |-> <<"key", "audit">>, org |-> NoId, ws |-> w, key |-> k]]
    BY <1>0, <1>3 DEF Begin, CreateKey
  <2>2. /\ command'[a].todo = <<"key", "audit">> /\ command'[a].does = "create"
        /\ command'[a].ws = w /\ command'[a].key = k
        /\ \A b \in Admins : b # a => command'[b].key # k
    BY <1>0, <1>3, <2>1 DEF FreeKey
  <2>3. keys'[k] = NoRow
    BY <1>3 DEF FreeKey, Begin
  <2>4. CommandOk(a)'
    BY <2>2, <2>3
  <2> QED  BY <1>3, <2>4, BegunKeeps DEF Todos, CreateKey, FreeKey
<1>4. ASSUME NEW o \in Orgs, NEW w \in Workspaces, NEW k \in Keys, FreeKey(k),
             Begin(a, "create", CreateAll, o, w, k)
      PROVE  AccessInv'
  <2>1. command' = [command EXCEPT ![a] =
          [does |-> "create", todo |-> CreateAll, org |-> o, ws |-> w, key |-> k]]
    BY <1>0, <1>4 DEF Begin
  <2>2. /\ command'[a].todo = CreateAll /\ command'[a].does = "create"
        /\ command'[a].org = o /\ command'[a].ws = w /\ command'[a].key = k
        /\ \A b \in Admins : b # a => command'[b].key # k
    BY <1>0, <1>4, <2>1 DEF FreeKey
  <2>3. keys'[k] = NoRow
    BY <1>4 DEF FreeKey, Begin
  <2>4. CommandOk(a)'
    BY <2>2, <2>3 DEF CreateAll
  <2> QED  BY <1>4, <2>4, BegunKeeps DEF Todos, CreateAll, FreeKey
<1> QED  BY <1>1, <1>2, <1>3, <1>4 DEF BeginCreate

LEMMA BeginRevokeKeeps ==
  ASSUME AccessInv, NEW a \in Admins, BeginRevoke(a)
  PROVE  AccessInv'
<1> USE DEF CommandOk, OrgTodo, WsTodo, AuditTodo, RevokeTodo, KeyTodos
<1>0. command \in [Admins -> [does : {"create", "revoke"}, todo : Todos,
        org : Orgs \cup {NoId}, ws : Workspaces \cup {NoId}, key : Keys \cup {NoId}]]
  BY DEF AccessInv, CommandShape
<1>1. PICK k \in Keys \cup {NoId} :
        /\ k # NoId => keys[k] # NoRow
        /\ \/ Begin(a, "revoke", <<"revoke">>, NoId, NoId, k)
           \/ \E w \in Workspaces : Begin(a, "revoke", <<"revoke", "audit">>, NoId, w, k)
  BY DEF BeginRevoke
<1>2. CASE Begin(a, "revoke", <<"revoke">>, NoId, NoId, k)
  <2>1. command'[a] =
          [does |-> "revoke", todo |-> <<"revoke">>, org |-> NoId, ws |-> NoId, key |-> k]
    BY <1>0, <1>2 DEF Begin
  <2>2. keys' = keys
    BY <1>2 DEF Begin
  <2>3. CommandOk(a)'
    BY <1>1, <2>1, <2>2
  <2> QED  BY <1>1, <1>2, <2>3, BegunKeeps DEF Todos
<1>3. ASSUME NEW w \in Workspaces, Begin(a, "revoke", <<"revoke", "audit">>, NoId, w, k)
      PROVE  AccessInv'
  <2>1. command'[a] =
          [does |-> "revoke", todo |-> <<"revoke", "audit">>, org |-> NoId, ws |-> w, key |-> k]
    BY <1>0, <1>3 DEF Begin
  <2>2. CommandOk(a)'
    BY <1>1, <1>3, <2>1 DEF Begin
  <2> QED  BY <1>1, <1>3, <2>2, BegunKeeps DEF Todos
<1> QED  BY <1>1, <1>2, <1>3

\* What is common to the statements: it remains to look at their own tables,
\* and at what is said of the command that goes on.
LEMMA StatementKeeps ==
  ASSUME AccessInv, NEW a \in Admins, command[a].todo # <<>>, Advance(a), RowsStay,
         \A k \in Keys : keys[k] = NoRow /\ k # command[a].key => keys'[k] = NoRow,
         UNCHANGED <<vars, request>>,
         orgs' \subseteq Orgs, home' \in [Workspaces -> Orgs \cup {NoId}],
         keys' \in [Keys -> [ws : Workspaces \cup {NoId}, revoked : BOOLEAN]],
         audits' \subseteq [ws : Workspaces, does : {"create", "revoke"}, key : Keys \cup {NoId}],
         RowInv', CreationsAreTrue', CommandOk(a)'
  PROVE  AccessInv'
<1>1. /\ CommandShape' /\ printed' \subseteq Keys
      /\ \A b \in Admins : b # a => command'[b] = command[b]
      /\ \/ printed' = printed
         \/ /\ command[a].todo = <<"audit">> /\ command[a].does = "create"
            /\ printed' = printed \cup {command[a].key}
  BY AdvanceFacts DEF AccessInv
<1>2. command'[a].key \in {command[a].key, NoId}
  <2>1. CASE Len(command[a].todo) > 1
    <3>1. command'[a] = [command[a] EXCEPT !.todo = Tail(command[a].todo)]
      BY <2>1, AdvanceFacts DEF AccessInv
    <3> QED  BY <3>1 DEF AccessInv, CommandShape
  <2>2. CASE ~(Len(command[a].todo) > 1)
    <3>1. command'[a] = NoCommand
      BY <2>2, AdvanceFacts DEF AccessInv
    <3> QED  BY <3>1 DEF NoCommand
  <2> QED  BY <2>1, <2>2
<1>3. \A b \in Admins : b # a => CommandOk(b)'
  <2> SUFFICES ASSUME NEW b \in Admins, b # a PROVE CommandOk(b)'
    OBVIOUS
  <2> QED  BY <1>1, <1>2, OthersKept DEF AccessInv
<1>4. RequestShape' /\ RequestInv'
  BY RequestsKept DEF AccessInv, vars
<1>5. PrintedInv'
  <2>1. command[a].todo = <<"audit">> /\ command[a].does = "create" =>
          command[a].key \in Keys /\ keys[command[a].key] # NoRow
    BY DEF AccessInv, CommandInv, CommandOk
  <2> QED  BY <1>1, <2>1 DEF AccessInv, PrintedInv, RowsStay, RowShape
<1>6. RowShape'
  BY <1>1 DEF RowShape
<1> QED  BY <1>1, <1>3, <1>4, <1>5, <1>6 DEF AccessInv, CommandInv

\* Entries stay true of rows that stay.
LEMMA StatementKeepsTruth ==
  ASSUME RowShape, CreationsAreTrue, RowsStay, UNCHANGED audits
  PROVE  CreationsAreTrue'
<1>1. \A e \in audits : e.key \in Keys \cup {NoId}
  BY DEF RowShape
<1>2. \A k \in Keys : keys[k].revoked => keys[k] # NoRow
  BY DEF NoRow
<1> QED  BY <1>1, <1>2 DEF CreationsAreTrue, HasKey, RowsStay

\* What a statement that leaves the keys alone has to show.
LEMMA NoCommandOk == \A a \in Admins : command'[a] = NoCommand => CommandOk(a)'
  BY DEF CommandOk, NoCommand, OrgTodo, WsTodo, AuditTodo, RevokeTodo, KeyTodos

LEMMA InsertOrgKeeps ==
  ASSUME AccessInv, NEW a \in Admins, InsertOrg(a)
  PROVE  AccessInv'
<1>1. /\ command[a].todo # <<>> /\ Head(command[a].todo) = "org" /\ Advance(a)
      /\ orgs' = orgs \cup {command[a].org}
      /\ UNCHANGED <<vars, home, keys, audits, request>>
  BY DEF InsertOrg, AtStep
<1>2. command[a].todo \in Todos
  BY DEF AccessInv, CommandShape
<1>3. OrgTodo(command[a])
  BY <1>1, <1>2, TodoFacts DEF OrgTodo
<1>4. CommandOk(a)'
  <2>1. CASE command[a].todo = <<"org">>
    <3>1. ~(Len(command[a].todo) > 1)
      BY <2>1
    <3> QED  BY <1>1, <3>1, AdvanceFacts, NoCommandOk DEF AccessInv
  <2>2. CASE command[a].todo = <<"org", "workspace", "key", "audit">>
    <3>1. Len(command[a].todo) > 1 /\ Tail(command[a].todo) = <<"workspace", "key", "audit">>
      BY <1>1, <1>2, <2>2, TodoFacts
    <3>2. command'[a] = [command[a] EXCEPT !.todo = <<"workspace", "key", "audit">>]
      BY <1>1, <3>1, AdvanceFacts DEF AccessInv
    <3>3. \A b \in Admins : b # a => command'[b] = command[b]
      BY <1>1, AdvanceFacts DEF AccessInv
    <3>4. CommandOk(a) /\ command[a].todo \in KeyTodos /\ WsTodo(command[a])
      BY <2>2 DEF AccessInv, CommandInv, KeyTodos, WsTodo
    <3>5. /\ command'[a].todo = <<"workspace", "key", "audit">>
          /\ command'[a].does = command[a].does /\ command'[a].org = command[a].org
          /\ command'[a].ws = command[a].ws /\ command'[a].key = command[a].key
      BY <3>2 DEF AccessInv, CommandShape
    <3> QED
      BY <1>1, <3>3, <3>4, <3>5
      DEF CommandOk, OrgTodo, WsTodo, AuditTodo, RevokeTodo, KeyTodos
  <2> QED  BY <1>3, <2>1, <2>2 DEF OrgTodo
<1>5. command[a].org \in Orgs
  BY <1>3 DEF AccessInv, CommandInv, CommandOk
<1>6. RowInv' /\ CreationsAreTrue' /\ RowsStay
  BY <1>1 DEF AccessInv, RowInv, CreationsAreTrue, HasKey, RowsStay
<1> QED
  BY <1>1, <1>4, <1>5, <1>6, StatementKeeps DEF AccessInv, RowShape

LEMMA InsertWorkspaceKeeps ==
  ASSUME AccessInv, NEW a \in Admins, InsertWorkspace(a)
  PROVE  AccessInv'
<1>1. /\ command[a].todo # <<>> /\ Head(command[a].todo) = "workspace" /\ Advance(a)
      /\ command[a].org \in orgs
      /\ home' = [home EXCEPT ![command[a].ws] = command[a].org]
      /\ UNCHANGED <<vars, orgs, keys, audits, request>>
  BY DEF InsertWorkspace, AtStep
<1>2. command[a].todo \in Todos
  BY DEF AccessInv, CommandShape
<1>3. \/ command[a].todo = <<"workspace">>
      \/ command[a].todo = <<"workspace", "key", "audit">>
  BY <1>1, <1>2, TodoFacts
<1>4. CommandOk(a)'
  <2>1. CASE command[a].todo = <<"workspace">>
    <3>1. ~(Len(command[a].todo) > 1)
      BY <2>1
    <3> QED  BY <1>1, <3>1, AdvanceFacts, NoCommandOk DEF AccessInv
  <2>2. CASE command[a].todo = <<"workspace", "key", "audit">>
    <3>1. Len(command[a].todo) > 1 /\ Tail(command[a].todo) = <<"key", "audit">>
      BY <1>1, <1>2, <2>2, TodoFacts
    <3>2. command'[a] = [command[a] EXCEPT !.todo = <<"key", "audit">>]
      BY <1>1, <3>1, AdvanceFacts DEF AccessInv
    <3>3. \A b \in Admins : b # a => command'[b] = command[b]
      BY <1>1, AdvanceFacts DEF AccessInv
    <3>4. CommandOk(a) /\ command[a].todo \in KeyTodos /\ AuditTodo(command[a])
      BY <2>2 DEF AccessInv, CommandInv, KeyTodos, AuditTodo
    <3>5. /\ command'[a].todo = <<"key", "audit">>
          /\ command'[a].does = command[a].does
          /\ command'[a].ws = command[a].ws /\ command'[a].key = command[a].key
      BY <3>2 DEF AccessInv, CommandShape
    <3> QED
      BY <1>1, <3>3, <3>4, <3>5
      DEF CommandOk, OrgTodo, WsTodo, AuditTodo, RevokeTodo, KeyTodos
  <2> QED  BY <1>3, <2>1, <2>2
<1>5. command[a].ws \in Workspaces
  BY <1>3 DEF AccessInv, CommandInv, CommandOk, WsTodo
<1>6. RowInv' /\ home' \in [Workspaces -> Orgs \cup {NoId}]
  <2>1. command[a].org \in Orgs /\ command[a].org # NoId
    BY <1>1, AccessAssumption DEF AccessInv, RowShape
  <2> QED  BY <1>1, <1>5, <2>1 DEF AccessInv, RowShape, RowInv
<1>7. CreationsAreTrue'
  BY <1>1 DEF AccessInv, CreationsAreTrue, HasKey
<1> QED
  BY <1>1, <1>4, <1>6, <1>7, StatementKeeps DEF AccessInv, RowShape, RowsStay

LEMMA InsertKeyKeeps ==
  ASSUME AccessInv, NEW a \in Admins, InsertKey(a)
  PROVE  AccessInv'
<1>1. /\ command[a].todo # <<>> /\ Head(command[a].todo) = "key" /\ Advance(a)
      /\ home[command[a].ws] # NoId
      /\ keys' = [keys EXCEPT ![command[a].key] = [ws |-> command[a].ws, revoked |-> FALSE]]
      /\ UNCHANGED <<vars, orgs, home, audits, request>>
  BY DEF InsertKey, AtStep
<1>2. command[a].todo \in Todos
  BY DEF AccessInv, CommandShape
<1>3. command[a].todo = <<"key", "audit">>
  BY <1>1, <1>2, TodoFacts
<1>4. /\ command[a].key \in Keys /\ keys[command[a].key] = NoRow
      /\ command[a].ws \in Workspaces /\ command[a].does = "create"
  BY <1>3 DEF AccessInv, CommandInv, CommandOk, KeyTodos, AuditTodo
<1>5. /\ keys' \in [Keys -> [ws : Workspaces \cup {NoId}, revoked : BOOLEAN]]
      /\ keys'[command[a].key].ws = command[a].ws
      /\ keys'[command[a].key] # NoRow
      /\ \A k \in Keys : k # command[a].key => keys'[k] = keys[k]
  BY <1>1, <1>4, AccessAssumption DEF AccessInv, RowShape, NoRow
<1>6. RowsStay
  BY <1>4, <1>5 DEF RowsStay
<1>7. CommandOk(a)'
  <2>1. Len(command[a].todo) > 1 /\ Tail(command[a].todo) = <<"audit">>
    BY <1>1, <1>2, <1>3, TodoFacts
  <2>2. command'[a] = [command[a] EXCEPT !.todo = <<"audit">>]
    BY <1>1, <2>1, AdvanceFacts DEF AccessInv
  <2>3. /\ command'[a].todo = <<"audit">> /\ command'[a].does = "create"
        /\ command'[a].ws = command[a].ws /\ command'[a].key = command[a].key
    BY <1>4, <2>2 DEF AccessInv, CommandShape
  <2> QED
    BY <1>4, <1>5, <2>3 DEF CommandOk, OrgTodo, WsTodo, AuditTodo, RevokeTodo, KeyTodos
<1>8. RowInv' /\ CreationsAreTrue'
  <2>1. RowInv'
    BY <1>1, <1>4, <1>5 DEF AccessInv, RowInv
  <2>2. CreationsAreTrue'
    BY <1>1, <1>6, StatementKeepsTruth DEF AccessInv
  <2> QED  BY <2>1, <2>2
<1> QED
  BY <1>1, <1>5, <1>6, <1>7, <1>8, StatementKeeps DEF AccessInv, RowShape

LEMMA RevokeKeyKeeps ==
  ASSUME AccessInv, NEW a \in Admins, RevokeKey(a)
  PROVE  AccessInv'
<1>1. /\ command[a].todo # <<>> /\ Head(command[a].todo) = "revoke" /\ Advance(a)
      /\ keys' = [k \in Keys |->
                   IF k = command[a].key THEN [keys[k] EXCEPT !.revoked = TRUE] ELSE keys[k]]
      /\ UNCHANGED <<vars, orgs, home, audits, request>>
  BY DEF RevokeKey, AtStep
<1>2. command[a].todo \in Todos
  BY DEF AccessInv, CommandShape
<1>3. command[a].todo = <<"revoke">> \/ command[a].todo = <<"revoke", "audit">>
  BY <1>1, <1>2, TodoFacts
<1>4. /\ command[a].key \in Keys \cup {NoId}
      /\ command[a].key # NoId => keys[command[a].key] # NoRow
      /\ command[a].does = "revoke"
  BY <1>3 DEF AccessInv, CommandShape, CommandInv, CommandOk, RevokeTodo
<1>5. /\ keys' \in [Keys -> [ws : Workspaces \cup {NoId}, revoked : BOOLEAN]]
      /\ command[a].key # NoId =>
           keys'[command[a].key].revoked /\ keys'[command[a].key] # NoRow
      /\ \A k \in Keys : keys'[k].ws = keys[k].ws
      /\ \A k \in Keys : k # command[a].key => keys'[k] = keys[k]
  BY <1>1, <1>4 DEF AccessInv, RowShape, NoRow
<1>6. RowsStay
  <2>1. \A k \in Keys : k = command[a].key => k # NoId
    BY AccessAssumption
  <2>2. \A k \in Keys : keys[k].revoked => keys'[k].revoked
    BY <1>5, <2>1
  <2> QED  BY <1>5, <2>1, <2>2 DEF RowsStay
<1>7. CommandOk(a)'
  <2>1. CASE command[a].todo = <<"revoke">>
    <3>1. ~(Len(command[a].todo) > 1)
      BY <2>1
    <3> QED  BY <1>1, <3>1, AdvanceFacts, NoCommandOk DEF AccessInv
  <2>2. CASE command[a].todo = <<"revoke", "audit">>
    <3>1. Len(command[a].todo) > 1 /\ Tail(command[a].todo) = <<"audit">>
      BY <1>1, <1>2, <2>2, TodoFacts
    <3>2. command'[a] = [command[a] EXCEPT !.todo = <<"audit">>]
      BY <1>1, <3>1, AdvanceFacts DEF AccessInv
    <3>3. /\ command'[a].todo = <<"audit">> /\ command'[a].does = "revoke"
          /\ command'[a].ws = command[a].ws /\ command'[a].key = command[a].key
      BY <1>4, <3>2 DEF AccessInv, CommandShape
    <3>4. command[a].ws \in Workspaces
      BY <2>2 DEF AccessInv, CommandInv, CommandOk, AuditTodo
    <3> QED
      BY <1>4, <1>5, <3>3, <3>4
      DEF CommandOk, OrgTodo, WsTodo, AuditTodo, RevokeTodo, KeyTodos
  <2> QED  BY <1>3, <2>1, <2>2
<1>8. RowInv'
  <2>1. \A k \in Keys : keys'[k] # NoRow => keys[k] # NoRow
    BY <1>4, <1>5, AccessAssumption
  <2> QED  BY <1>1, <1>5, <2>1 DEF AccessInv, RowInv
<1>9. CreationsAreTrue'
  BY <1>1, <1>6, StatementKeepsTruth DEF AccessInv
<1> QED
  BY <1>1, <1>4, <1>5, <1>6, <1>7, <1>8, <1>9, StatementKeeps DEF AccessInv, RowShape

LEMMA AuditKeeps ==
  ASSUME AccessInv, NEW a \in Admins, AddAudit(a) \/ AuditFails(a)
  PROVE  AccessInv'
<1>1. /\ command[a].todo # <<>> /\ Head(command[a].todo) = "audit" /\ Advance(a)
      /\ \/ audits' = audits
         \/ audits' = audits \cup
              {[ws |-> command[a].ws, does |-> command[a].does, key |-> command[a].key]}
      /\ UNCHANGED <<vars, orgs, home, keys, request>>
  BY DEF AddAudit, AuditFails, AtStep
<1>2. command[a].todo \in Todos /\ command[a].does \in {"create", "revoke"}
  BY DEF AccessInv, CommandShape
<1>3. command[a].todo = <<"audit">>
  BY <1>1, <1>2, TodoFacts
<1>4. /\ command[a].ws \in Workspaces /\ command[a].key \in Keys \cup {NoId}
      /\ command[a].does = "create" =>
           /\ command[a].key \in Keys /\ keys[command[a].key] # NoRow
           /\ keys[command[a].key].ws = command[a].ws
  BY <1>3 DEF AccessInv, CommandShape, CommandInv, CommandOk, AuditTodo
<1>5. CommandOk(a)'
  <2>1. ~(Len(command[a].todo) > 1)
    BY <1>3
  <2> QED  BY <1>1, <2>1, AdvanceFacts, NoCommandOk DEF AccessInv
<1>6. /\ audits' \subseteq [ws : Workspaces, does : {"create", "revoke"}, key : Keys \cup {NoId}]
      /\ CreationsAreTrue'
  BY <1>1, <1>2, <1>4 DEF AccessInv, RowShape, CreationsAreTrue, HasKey
<1>7. RowInv' /\ RowsStay
  BY <1>1 DEF AccessInv, RowInv, RowsStay
<1> QED
  BY <1>1, <1>5, <1>6, <1>7, StatementKeeps DEF AccessInv, RowShape

LEMMA EndCommandKeeps ==
  ASSUME AccessInv, NEW a \in Admins, EndCommand(a)
  PROVE  AccessInv'
<1>1. /\ command' = [command EXCEPT ![a] = NoCommand]
      /\ UNCHANGED <<vars, orgs, home, keys, audits, request, printed>>
  BY DEF EndCommand
<1>2. CommandShape' /\ command'[a] = NoCommand
      /\ \A b \in Admins : b # a => command'[b] = command[b]
  BY <1>1 DEF AccessInv, CommandShape, NoCommand, Todos
<1>3. RowsStay
  BY <1>1 DEF RowsStay
<1>4. CommandInv'
  <2>1. CommandOk(a)'
    BY <1>2, NoCommandOk
  <2>2. ASSUME NEW b \in Admins, b # a PROVE CommandOk(b)'
    BY <1>1, <1>2, <1>3, <2>2, OthersKept DEF AccessInv, NoCommand
  <2> QED  BY <2>1, <2>2 DEF CommandInv
<1>5. RequestShape' /\ RequestInv'
  BY <1>1, <1>3, RequestsKept DEF AccessInv, vars
<1>6. RowShape' /\ RowInv' /\ PrintedInv' /\ CreationsAreTrue'
  BY <1>1 DEF AccessInv, RowShape, RowInv, PrintedInv, CreationsAreTrue, HasKey
<1> QED  BY <1>2, <1>4, <1>5, <1>6 DEF AccessInv

LEMMA AdminKeeps ==
  ASSUME AccessInv, NEW a \in Admins, Admin(a)
  PROVE  AccessInv'
  BY BeginCreateKeeps, BeginRevokeKeeps, InsertOrgKeeps, InsertWorkspaceKeeps,
     InsertKeyKeeps, RevokeKeyKeeps, AuditKeeps, EndCommandKeeps
  DEF Admin

------------------------------------------------------------------------------
(***************************************************************************)
(* Requests preserve the invariant.                                        *)
(***************************************************************************)

\* A step of request c is about what is said of c alone.
LEMMA RequestStepKeeps ==
  ASSUME AccessInv, NEW c \in Callers, UNCHANGED adminVars,
         RequestShape',
         \A d \in Callers : d # c => request'[d] = request[d] /\ asking'[d] = asking[d],
         request'[c].st # "none" => request'[c].key \in Keys,
         request'[c].late => request'[c].st = "sent" /\ keys[request'[c].key].revoked,
         request'[c].st = "found" => keys[request'[c].key] # NoRow,
         request'[c].st # "asking" => asking'[c] = NotAsking
  PROVE  AccessInv'
<1>1. UNCHANGED <<orgs, home, keys, audits, command, printed>>
  BY DEF adminVars
<1>2. RowShape' /\ CommandShape' /\ RowInv' /\ PrintedInv' /\ CreationsAreTrue'
  BY <1>1 DEF AccessInv, RowShape, CommandShape, RowInv, PrintedInv, CreationsAreTrue, HasKey
<1>3. CommandInv'
  BY <1>1 DEF AccessInv, CommandInv, CommandOk
<1>4. RequestInv'
  <2> SUFFICES ASSUME NEW d \in Callers
               PROVE  /\ request'[d].st # "none" => request'[d].key \in Keys
                      /\ request'[d].late =>
                           request'[d].st = "sent" /\ keys'[request'[d].key].revoked
                      /\ request'[d].st = "found" => keys'[request'[d].key] # NoRow
                      /\ request'[d].st # "asking" => asking'[d] = NotAsking
    BY DEF RequestInv
  <2>1. CASE d = c
    BY <1>1, <2>1
  <2>2. CASE d # c
    BY <1>1, <2>2 DEF AccessInv, RequestInv
  <2> QED  BY <2>1, <2>2
<1> QED  BY <1>2, <1>3, <1>4 DEF AccessInv

LEMMA ServeKeeps ==
  ASSUME TypeOK, AccessInv, NEW c \in Callers, Serve(c)
  PROVE  AccessInv'
<1>t. /\ request \in [Callers ->
             [st : {"none", "sent", "found", "asking"}, key : Keys \cup {NoId}, late : BOOLEAN]]
      /\ keys \in [Keys -> [ws : Workspaces \cup {NoId}, revoked : BOOLEAN]]
  BY DEF AccessInv, RequestShape, RowShape
<1>i. /\ request[c].st # "none" => request[c].key \in Keys
      /\ request[c].late => request[c].st = "sent" /\ keys[request[c].key].revoked
      /\ request[c].st = "found" => keys[request[c].key] # NoRow
      /\ request[c].st # "asking" => asking[c] = NotAsking
  BY DEF AccessInv, RequestInv
<1>1. ASSUME NEW k \in Keys, Arrive(c, k) PROVE AccessInv'
  <2>1. /\ request[c] = NoRequest /\ UNCHANGED <<vars, adminVars>>
        /\ request' = [request EXCEPT ![c] =
                         [st |-> "sent", key |-> k, late |-> keys[k].revoked]]
    BY <1>1 DEF Arrive
  <2>2. request'[c] = [st |-> "sent", key |-> k, late |-> keys[k].revoked] /\ RequestShape'
    BY <1>t, <2>1 DEF RequestShape
  <2>3. asking' = asking /\ asking[c] = NotAsking
    BY <1>i, <2>1 DEF vars, NoRequest
  <2> QED  BY <1>t, <2>1, <2>2, <2>3, RequestStepKeeps
<1>2. CASE LookUp(c)
  <2>1. /\ request[c].st = "sent" /\ keys[request[c].key] # NoRow
        /\ ~keys[request[c].key].revoked
        /\ request' = [request EXCEPT ![c].st = "found"]
        /\ UNCHANGED <<vars, adminVars>>
    BY <1>2 DEF LookUp, Valid, KeyOf, Becomes
  <2>2. /\ RequestShape' /\ request'[c].st = "found"
        /\ request'[c].key = request[c].key /\ request'[c].late = request[c].late
    BY <1>t, <2>1 DEF RequestShape
  <2>3. asking' = asking
    BY <2>1 DEF vars
  <2> QED  BY <1>t, <1>i, <2>1, <2>2, <2>3, RequestStepKeeps
<1>3. CASE Reject(c)
  <2>1. /\ request[c].st = "sent" /\ request' = [request EXCEPT ![c] = NoRequest]
        /\ UNCHANGED <<vars, adminVars>>
    BY <1>3 DEF Reject, Answer
  <2>2. RequestShape' /\ request'[c].st = "none" /\ ~request'[c].late
    BY <1>t, <2>1 DEF RequestShape, NoRequest
  <2>3. asking' = asking
    BY <2>1 DEF vars
  <2> QED  BY <1>t, <1>i, <2>1, <2>2, <2>3, RequestStepKeeps
<1>4. CASE AskLimiter(c)
  <2>1. /\ request[c].st = "found" /\ request' = [request EXCEPT ![c].st = "asking"]
        /\ ReadClock(c, keys[request[c].key].ws) /\ UNCHANGED adminVars
    BY <1>4 DEF AskLimiter, Becomes, KeyOf
  <2>2. /\ RequestShape' /\ request'[c].st = "asking"
        /\ request'[c].key = request[c].key /\ request'[c].late = request[c].late
    BY <1>t, <2>1 DEF RequestShape
  <2>3. \A d \in Callers : d # c => asking'[d] = asking[d]
    BY <2>1 DEF ReadClock
  <2> QED  BY <1>t, <1>i, <2>1, <2>2, <2>3, RequestStepKeeps
<1>5. CASE Decide(c)
  <2>1. /\ request[c].st = "asking" /\ request' = [request EXCEPT ![c] = NoRequest]
        /\ (Admit(c) \/ Deny(c)) /\ UNCHANGED adminVars
    BY <1>5 DEF Decide, Answer
  <2>2. RequestShape' /\ request'[c].st = "none" /\ ~request'[c].late
    BY <1>t, <2>1 DEF RequestShape, NoRequest
  <2>3. /\ asking'[c] = NotAsking
        /\ \A d \in Callers : d # c => asking'[d] = asking[d]
    BY <2>1 DEF Admit, Deny, TypeOK
  <2> QED  BY <1>t, <1>i, <2>1, <2>2, <2>3, RequestStepKeeps
<1> QED  BY <1>1, <1>2, <1>3, <1>4, <1>5 DEF Serve

LEMMA AccessStep == TypeOK /\ AccessInv /\ [AccessNext]_accessVars => AccessInv'
<1> SUFFICES ASSUME TypeOK, AccessInv, [AccessNext]_accessVars PROVE AccessInv'
  OBVIOUS
<1>1. CASE \E a \in Admins : Admin(a)
  BY <1>1, AdminKeeps
<1>2. CASE \E c \in Callers : Serve(c)
  BY <1>2, ServeKeeps
<1>3. CASE UNCHANGED <<adminVars, request, asking>>
  <2>1. UNCHANGED <<orgs, home, keys, audits, command, printed, request, asking>>
    BY <1>3 DEF adminVars
  <2>2. RowShape' /\ CommandShape' /\ RequestShape'
    BY <2>1 DEF AccessInv, RowShape, CommandShape, RequestShape
  <2>3. RowInv' /\ PrintedInv' /\ CreationsAreTrue'
    BY <2>1 DEF AccessInv, RowInv, PrintedInv, CreationsAreTrue, HasKey
  <2>4. CommandInv' /\ RequestInv'
    BY <2>1 DEF AccessInv, CommandInv, CommandOk, RequestInv
  <2> QED  BY <2>2, <2>3, <2>4 DEF AccessInv
<1>4. CASE UNCHANGED accessVars
  BY <1>3, <1>4 DEF accessVars, vars
<1> QED  BY <1>1, <1>2, <1>3, <1>4 DEF AccessNext, Tick

LEMMA AccessStart == AccessInit => AccessInv
<1> SUFFICES ASSUME AccessInit PROVE AccessInv
  OBVIOUS
<1> USE DEF AccessInit
<1>1. RowShape /\ RowInv /\ PrintedInv /\ CreationsAreTrue
  BY DEF RowShape, RowInv, PrintedInv, CreationsAreTrue, HasKey, NoRow
<1>2. CommandShape /\ CommandInv
  BY DEF CommandShape, CommandInv, CommandOk, NoCommand, Todos, KeyTodos,
     OrgTodo, WsTodo, AuditTodo, RevokeTodo
<1>3. RequestShape /\ RequestInv
  BY DEF RequestShape, RequestInv, NoRequest, Init
<1> QED  BY <1>1, <1>2, <1>3 DEF AccessInv

------------------------------------------------------------------------------
(***************************************************************************)
(* Theorems.                                                               *)
(***************************************************************************)

\* withAuth uses the limiter as RateLimiter says: only for a workspace there
\* is, and for one decision of a request after the other.
LEMMA UsesLimiter == AccessInv /\ [AccessNext]_accessVars => [Next]_vars
<1> SUFFICES ASSUME AccessInv, [AccessNext]_accessVars PROVE [Next]_vars
  OBVIOUS
<1>1. ASSUME NEW a \in Admins, Admin(a) PROVE UNCHANGED vars
  BY <1>1
  DEF Admin, BeginCreate, BeginRevoke, Begin, InsertOrg, InsertWorkspace, InsertKey,
      RevokeKey, AddAudit, AuditFails, EndCommand
<1>2. ASSUME NEW c \in Callers, Serve(c) PROVE [Next]_vars
  <2>1. CASE (\E k \in Keys : Arrive(c, k)) \/ LookUp(c) \/ Reject(c)
    BY <2>1 DEF Arrive, LookUp, Reject
  <2>2. CASE AskLimiter(c)
    <3>1. request[c].st = "found" /\ ReadClock(c, keys[request[c].key].ws)
      BY <2>2 DEF AskLimiter, KeyOf
    <3>2. keys[request[c].key].ws \in Workspaces
      BY <3>1 DEF AccessInv, RequestInv, RowInv
    <3> QED  BY <3>1, <3>2 DEF Next
  <2>3. CASE Decide(c)
    BY <2>3 DEF Decide, Next
  <2> QED  BY <1>2, <2>1, <2>2, <2>3 DEF Serve
<1>3. CASE Tick
  BY <1>3 DEF Next
<1>4. CASE UNCHANGED accessVars
  BY <1>4 DEF accessVars
<1> QED  BY <1>1, <1>2, <1>3, <1>4 DEF AccessNext

LEMMA AccessInvariance == AccessSpec => [](IInv /\ AccessInv)
<1>1. AccessInit => IInv /\ AccessInv
  BY AccessStart, InitInv DEF AccessInit
<1>2. IInv /\ AccessInv /\ [AccessNext]_accessVars => IInv' /\ AccessInv'
  BY AccessStep, UsesLimiter, StepInv DEF IInv
<1> QED  BY <1>1, <1>2, PTL DEF AccessSpec

\* The requests that withAuth lets through come under the limiter's promises:
\* what is proved of RateLimiter holds of the server as a whole.
THEOREM AccessIsLimited == AccessSpec => Spec
<1>1. AccessInit => Init
  BY DEF AccessInit
<1> QED  BY <1>1, AccessInvariance, UsesLimiter, PTL DEF AccessSpec, Spec

\* However keys are shared, created and revoked, the requests of a workspace
\* that are let in stay within its budget.
THEOREM LetInWithinBudget == AccessSpec => []WithinBudget
<1> QED  BY AccessIsLimited, AdmissionsWithinBudget, PTL

\* A request with a good key is refused only when admitting it would have
\* exceeded the rate, however many keys and endpoints share the bucket.
THEOREM RefusedOnlyWhenSpent == AccessSpec => DeniedOnlyWhenSpent
<1> QED  BY AccessIsLimited, RefusalsAreDue, PTL

\* The type invariant.
THEOREM AccessTypeCorrect == AccessSpec => []AccessTypeOK
<1>1. Todos \subseteq Seq({"org", "workspace", "key", "revoke", "audit"})
  BY DEF Todos, KeyTodos
<1>2. AccessInv => AccessTypeOK
  BY <1>1 DEF AccessInv, RowShape, CommandShape, RequestShape, AccessTypeOK
<1> QED  BY <1>2, AccessInvariance, PTL

\* A request that arrives after its key was revoked is never let in.
THEOREM RevokedStaysOut == AccessSpec => []RevokedIsShutOut
<1>1. AccessInv => RevokedIsShutOut
  BY DEF AccessInv, RequestInv, RevokedIsShutOut
<1> QED  BY <1>1, AccessInvariance, PTL

\* A printed token has its key, its workspace and its organization.
THEOREM PrintedKeysAreGood == AccessSpec => []PrintedIsGood
<1>1. AccessInv => PrintedIsGood
  BY DEF AccessInv, RowShape, RowInv, PrintedInv, PrintedIsGood
<1> QED  BY <1>1, AccessInvariance, PTL

\* The audit log says that a key was created in a workspace only when that
\* workspace has the key.  (Of revocations it is not so: RevokeKey
\* may change nothing, and AddAudit follows it all the same.)
THEOREM CreationEntriesAreTrue == AccessSpec => []CreationsAreTrue
<1>1. AccessInv => CreationsAreTrue
  BY DEF AccessInv
<1> QED  BY <1>1, AccessInvariance, PTL

==============================================================================
