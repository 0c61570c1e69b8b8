----------------------------- MODULE Projection ------------------------------
(***************************************************************************)
(* What the dashboard lists: the tables rigs, agents, convoys and hooks,   *)
(* which the handlers of events and snapshots (internal/server/server.go)  *)
(* fill with the upserts of internal/store/store.go, and which the list    *)
(* endpoints and the alerts read.                                          *)
(*                                                                         *)
(* No handler uses a transaction.  A request is a list of SQL statements,  *)
(* each committed on its own: the handlers interleave between statements,  *)
(* and each statement can fail.                                            *)
(*                                                                         *)
(* One workspace is modelled: every statement carries the workspace of its *)
(* API key, and every unique constraint includes it.                       *)
(***************************************************************************)
EXTENDS Integers, Sequences, Functions

CONSTANTS
  Events,       \* the events posted; a record of the entities they name
  Workspace,    \* the rigs, agents, convoys and hooks a snapshot holds
  Requests,     \* bound: the requests that can be in progress together
  StaleAfter,   \* the stale window of /v1/alerts, in ticks
  MaxTime,      \* bound: the clock stops there
  MaxRows,      \* bound: the rows of one agent, beyond which none is posted
  Null,         \* an empty string in Go, NULL in the database
  Snapshot,     \* the snapshot of the workspace
  Now           \* a time that is not given

ASSUME ProjectionAssumption ==
  /\ \A list \in {"rigs", "agents", "convoys", "hooks"} : Len(Workspace[list]) \in Nat
  /\ Snapshot \notin Events
  /\ Now \notin Nat
  /\ StaleAfter \in Nat
  /\ MaxTime \in Nat
  /\ MaxRows \in Nat

------------------------------------------------------------------------------
(***************************************************************************)
(* The statements of a request.  A statement that stores the request       *)
(* itself comes first; each of the others upserts one entity.              *)
(***************************************************************************)

Store == [op |-> "store"]

\* Upsert of the entity that name and rig identify in a table; with a path,
\* for rigs, and the time the agent was seen, for agents.
Upsert(table, name, rig, path, seen) ==
  [op |-> "upsert", key |-> [table |-> table, name |-> name, rig |-> rig],
   path |-> path, seen |-> seen]

\* Only what an event names is upserted.
IfNamed(s) == IF s.key.name # Null THEN <<s>> ELSE <<>>

EventUpserts(e, at) ==
  IfNamed(Upsert("rigs", e.rig, Null, FALSE, Now))
    \o IfNamed(Upsert("agents", e.agent, e.rig, FALSE, at))
    \o IfNamed(Upsert("convoys", e.convoy, e.rig, FALSE, Now))
    \o IfNamed(Upsert("hooks", e.hook, e.rig, FALSE, Now))

\* Mutant of EventStatements: the projection is updated before the event is
\* stored.
UpsertsFirst(e, at) == EventUpserts(e, at) \o <<Store>>

\* handleEvents and store.InsertEvent, for one event that occurred at time at.
EventStatements(e, at) == <<Store>> \o EventUpserts(e, at)

RigUpserts ==
  LET rigs == Workspace.rigs
  IN  [i \in 1..Len(rigs) |-> Upsert("rigs", rigs[i], Null, TRUE, Now)]

\* The agents carry no time.
AgentUpserts ==
  LET agents == Workspace.agents
  IN  [i \in 1..Len(agents) |-> Upsert("agents", agents[i].name, agents[i].rig, FALSE, Now)]

ConvoyUpserts ==
  LET convoys == Workspace.convoys
  IN  [i \in 1..Len(convoys) |->
        Upsert("convoys", convoys[i].name, convoys[i].rig, FALSE, Now)]

HookUpserts ==
  LET hooks == Workspace.hooks
  IN  [i \in 1..Len(hooks) |-> Upsert("hooks", hooks[i].name, hooks[i].rig, FALSE, Now)]

\* handleSnapshots: all the rigs, then all the agents, then all the convoys,
\* then all the hooks.
SnapshotStatements ==
  <<Store>> \o RigUpserts \o AgentUpserts \o ConvoyUpserts \o HookUpserts

\* NULLs are distinct from each other in a unique constraint, and of the
\* four constraints that of rigs alone has no column that can be NULL.
Unique(k) == k.table = "rigs" \/ k.rig # Null

Message == Events \cup {Snapshot}

\* The entities of a message.
Named(m) ==
  LET stmts == IF m = Snapshot THEN SnapshotStatements ELSE EventStatements(m, 0)
  IN  {s.key : s \in Range(stmts) \ {Store}}

Key == UNION {Named(m) : m \in Message}

------------------------------------------------------------------------------
VARIABLES
  calm,         \* TRUE: the failures have ceased
  clock,        \* the time of the server and of the clients
  rows,         \* rows[k]: the rows with key k of the table k names
  handler,      \* handler[r]: what request r has left to do
  stored,       \* what table events, or snapshots, holds
  accepted,     \* history: what was answered with 202
  missed,       \* history: events one of whose upserts failed
  reported      \* history: of which agent (key) which message (by) was processed
                \* as a report of which time (at)

vars == <<calm, clock, rows, handler, stored, accepted, missed, reported>>

Idle == [st |-> "idle"]

Init ==
  /\ calm = FALSE
  /\ clock = 0
  /\ rows = [k \in Key |-> <<>>]
  /\ handler = [r \in Requests |-> Idle]
  /\ stored = {}
  /\ accepted = {}
  /\ missed = {}
  /\ reported = {}

------------------------------------------------------------------------------
(***************************************************************************)
(* Requests come in: events from the agent, its spool and emit, and the    *)
(* agent's snapshots.                                                      *)
(***************************************************************************)

Begin(r, msg, stmts) ==
  /\ handler[r] = Idle
  /\ handler' = [handler EXCEPT ![r] = [st |-> "running", msg |-> msg, todo |-> stmts]]
  /\ UNCHANGED <<calm, clock, rows, stored, accepted, missed, reported>>

\* An event posted at once occurred now; one that waited in the spool, before.
PostEvent(r, e) ==
  /\ \A k \in Named(e) : Unique(k) \/ Len(rows[k]) < MaxRows
  /\ \E at \in 0..clock : Begin(r, e, EventStatements(e, at))

\* Mutant of PostSnapshot: one snapshot is enough.
PostSnapshotOnce(r) ==
  /\ Snapshot \notin stored
  /\ Begin(r, Snapshot, SnapshotStatements)

PostSnapshot(r) == Begin(r, Snapshot, SnapshotStatements)

------------------------------------------------------------------------------
(***************************************************************************)
(* The handlers run.                                                       *)
(***************************************************************************)

Msg(r)   == handler[r].msg
Todo(r)  == handler[r].todo
Running(r) == handler[r] # Idle
AtStatement(r) == Running(r) /\ Todo(r) # <<>>

Advance(r) == handler' = [handler EXCEPT ![r].todo = Tail(@)]
Finish(r)  == handler' = [handler EXCEPT ![r] = Idle]

\* Mutant of SeenAt: a time that is not given stays the zero time.
SeenAsGiven(s) == s.seen

\* Mutant of SeenAt: the time of an event is that of its arrival.
SeenOnArrival(s) == clock

\* last_seen_at: the time given, or else that of the statement.
SeenAt(s) == IF s.seen = Now THEN clock ELSE s.seen

RowOf(s, by) == [path |-> s.path, seen |-> SeenAt(s), by |-> by]

\* Mutant of Upserted: on conflict, do nothing.
InsertedOnly(old, s, by) ==
  IF Unique(s.key) /\ old # <<>> THEN old ELSE Append(old, RowOf(s, by))

\* insert ... on conflict do update: the columns of the one row are replaced.
Upserted(old, s, by) ==
  IF Unique(s.key) THEN <<RowOf(s, by)>> ELSE Append(old, RowOf(s, by))

ExecuteStore(r) ==
  /\ AtStatement(r)
  /\ Head(Todo(r)) = Store
  /\ stored' = stored \cup {Msg(r)}
  /\ Advance(r)
  /\ UNCHANGED <<calm, clock, rows, accepted, missed, reported>>

\* When the agent of the statement reported, by the clock of who reported.
Report(s, by) ==
  IF s.key.table = "agents"
  THEN {[key |-> s.key, at |-> IF s.seen = Now THEN clock ELSE s.seen, by |-> by]}
  ELSE {}

ExecuteUpsert(r) ==
  /\ AtStatement(r)
  /\ Head(Todo(r)) # Store
  /\ LET s == Head(Todo(r))
     IN  /\ rows' = [rows EXCEPT ![s.key] = Upserted(@, s, Msg(r))]
         /\ reported' = reported \cup Report(s, Msg(r))
  /\ Advance(r)
  /\ UNCHANGED <<calm, clock, stored, accepted, missed>>

Answer(r) ==
  /\ Running(r)
  /\ Todo(r) = <<>>
  /\ accepted' = accepted \cup {Msg(r)}
  /\ Finish(r)
  /\ UNCHANGED <<calm, clock, rows, stored, missed, reported>>

Handler(r) == ExecuteStore(r) \/ ExecuteUpsert(r) \/ Answer(r)

------------------------------------------------------------------------------
(***************************************************************************)
(* Failures.                                                               *)
(***************************************************************************)

\* Mutant of Required: the errors of the upserts of a snapshot are ignored.
RequiredStore(r) == Head(Todo(r)) = Store

\* The statements whose error ends the request with status 500.  The upserts
\* of an event are not among them: InsertEvent ignores their errors.
Required(r) == Head(Todo(r)) = Store \/ Msg(r) = Snapshot

StatementFault(r) ==
  /\ AtStatement(r)
  /\ Required(r)
  /\ Finish(r)
  /\ UNCHANGED <<calm, clock, rows, stored, accepted, missed, reported>>

IgnoredFault(r) ==
  /\ AtStatement(r)
  /\ ~Required(r)
  /\ missed' = missed \cup {Msg(r)}
  /\ Advance(r)
  /\ UNCHANGED <<calm, clock, rows, stored, accepted, reported>>

\* The API process dies, and is started again.
ServerCrash ==
  /\ \E r \in Requests : Running(r)
  /\ handler' = [r \in Requests |-> Idle]
  /\ UNCHANGED <<calm, clock, rows, stored, accepted, missed, reported>>

Fault ==
  /\ ~calm
  /\ \/ \E r \in Requests : StatementFault(r) \/ IgnoredFault(r)
     \/ ServerCrash

\* The failures cease for good.
CalmDown ==
  /\ ~calm
  /\ calm' = TRUE
  /\ UNCHANGED <<clock, rows, handler, stored, accepted, missed, reported>>

Tick ==
  /\ clock < MaxTime
  /\ clock' = clock + 1
  /\ UNCHANGED <<calm, rows, handler, stored, accepted, missed, reported>>

Next ==
  \/ \E r \in Requests :
       \/ \E e \in Events : PostEvent(r, e)
       \/ PostSnapshot(r)
       \/ Handler(r)
  \/ Fault
  \/ CalmDown
  \/ Tick

(***************************************************************************)
(* The server runs a goroutine for each request, and the agent's snapshot  *)
(* ticker never stops.  Fairness for the ticker is strong because the      *)
(* bound on the requests, which the server does not have, can be used up   *)
(* by events again and again.                                              *)
(***************************************************************************)
Fairness ==
  /\ \A r \in Requests : WF_vars(Handler(r))
  /\ SF_vars(\E r \in Requests : PostSnapshot(r))

Spec == Init /\ [][Next]_vars

FairSpec == Spec /\ Fairness

------------------------------------------------------------------------------
(***************************************************************************)
(* What the endpoints answer.                                              *)
(***************************************************************************)

\* ListRigs, ListAgents, ListConvoys, ListHooks: NULL reads as "".
Listed == {k \in Key : rows[k] # <<>>}

\* The agents the query of the alerts selects a row of.
Stale ==
  {k \in Key : /\ k.table = "agents"
               /\ \E i \in DOMAIN rows[k] : rows[k][i].seen < clock - StaleAfter}

\* ListAlerts scans rig_name into a string, which NULL does not fit in: the
\* request ends with status 500.
AlertsFail == \E k \in Stale : k.rig = Null

Alerts == IF AlertsFail THEN {} ELSE Stale

------------------------------------------------------------------------------
(***************************************************************************)
(* Properties.                                                             *)
(***************************************************************************)

Row == [path : BOOLEAN, seen : Nat, by : Message]

Statement == {Store} \cup
  [op : {"upsert"}, key : Key, path : BOOLEAN, seen : Nat \cup {Now}]

\* Type invariant.
TypeOK ==
  /\ calm \in BOOLEAN
  /\ clock \in Nat
  /\ rows \in [Key -> Seq(Row)]
  /\ handler \in [Requests -> {Idle} \cup
                    [st : {"running"}, msg : Message, todo : Seq(Statement)]]
  /\ stored \subseteq Message
  /\ accepted \subseteq Message
  /\ missed \subseteq Events
  /\ reported \subseteq [key : Key, at : Nat, by : Message]

\* Whatever fails or crashes between two statements, the dashboard shows
\* nothing that was not ingested: each row was last written for an event or
\* a snapshot that is stored.
RowIsBacked ==
  \A k \in Key : \A i \in DOMAIN rows[k] : rows[k][i].by \in stored

\* What was acknowledged is shown: of a snapshot, all; of an event, all
\* unless one of its upserts, whose errors are ignored, has failed.
AcceptedIsListed ==
  \A m \in accepted \ (missed \cap Events) : m \in stored /\ Named(m) \subseteq Listed

Silent(k) == \A p \in reported : p.key = k => p.at < clock - StaleAfter

\* No alert is missed: an agent none of whose reports is recent has a row
\* the alert query selects, in whatever order its reports were processed.
NoMissedAlert == \A p \in reported : Silent(p.key) => p.key \in Stale

\* Once the failures cease, everything in the workspace gets listed, though
\* earlier snapshots may have been stored in part.
EventuallyListed == calm ~> [](Named(Snapshot) \subseteq Listed)

\* An event of a rig erases its path, and a later snapshot restores it.
RigKey(rig) == [table |-> "rigs", name |-> rig, rig |-> Null]

HasPath(k) == rows[k] # <<>> /\ rows[k][1].path

PathIsRestored == \A rig \in Range(Workspace.rigs) : calm ~> HasPath(RigKey(rig))

\* "unique (workspace_id, name, rig_name)" (001_init.sql:46): the table has
\* one row for each agent.
OneRowPerAgent == \A k \in Key : k.table = "agents" => Len(rows[k]) <= 1

\* "Agent has not reported recently" (store.go:381): agent k, whose own
\* reports, the events, are all old, is selected by the alert query.  It is not
\* as long as snapshots list it, each of which sets last_seen_at.
OwnReports(k) == {p \in reported : p.key = k /\ p.by # Snapshot}

WhenSilentAlerted(k) ==
  OwnReports(k) # {} /\ (\A p \in OwnReports(k) : p.at < clock - StaleAfter)
    => k \in Stale

\* "GET /v1/alerts" (README.md:75) has an answer whatever agents reported; the
\* rig of an alert may be missing (internal/model/types.go:64).
AlertsAnswered == ~AlertsFail

\* "Agent has not reported recently" (store.go:381): it is so of the agents
\* in the alerts.
AlertIsTrue == \A k \in Alerts : Silent(k)

==============================================================================
