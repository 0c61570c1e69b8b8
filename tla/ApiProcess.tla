----------------------------- MODULE ApiProcess ------------------------------
(***************************************************************************)
(* The life of an API process (cmd/api/main.go): it starts, serves, prunes *)
(* old rows in a loop of its own, and when it is told to stop it drains    *)
(* its requests for a while, closes the pool of connections and exits.     *)
(*                                                                         *)
(* The handlers of events and snapshots are reduced to what they insert,   *)
(* one statement after another.  A statement holds a connection from its   *)
(* beginning to its end, and a row is as old as the beginning of its       *)
(* statement (default now()).                                              *)
(***************************************************************************)
EXTENDS Integers, Sequences, Functions

CONSTANTS
  Procs,        \* the API processes of one database
  Requests,     \* the requests, each of them sent once
  Items,        \* the rows to be stored
  Batch,        \* Batch[r]: the items of request r, in order
  TableOf,      \* TableOf[i]: the table item i goes to
  Retentions,   \* what the retention variables may be set to, 0 is off
  MaxDays,      \* the most days a time.Duration holds (106751)
  MaxTime       \* bound: the clock, which counts days, stops there

Tables == {"events", "snapshots"}

ASSUME ApiAssumption ==
  /\ Batch \in [Requests -> Seq(Items)]
  /\ TableOf \in [Items -> Tables]
  /\ Retentions \subseteq [Tables -> Nat]
  /\ MaxDays \in Nat
  /\ MaxTime \in Nat

VARIABLES
  failing,      \* what fails now and then: "process", of which any may be
                \* killed and any insert fail, and the tables whose prune may fail
  clock,        \* the time, in days
  days,         \* days[t]: GTCP_EVENT_ and GTCP_SNAPSHOT_RETENTION_DAYS
  life,         \* life[p]: "down", "serving", "draining" or "closing"
  pruning,      \* pruning[p]: when the prune began, and the tables to do
  handler,      \* handler[r]: how far request r has got
  rows,         \* the rows in the database: the item, and created_at
  pruned,       \* history: the items a prune has deleted
  hurt          \* history: requests hit by a failure or a shutdown's deadline

vars == <<failing, clock, days, life, pruning, handler, rows, pruned, hurt>>

NotPruning == [now |-> 0, todo |-> <<>>]

\* Mutant of Unsent: the index of the first event is off by one.
UnsentAtZero == [at |-> <<"unsent">>, pos |-> 0, born |-> 0]

Unsent == [at |-> <<"unsent">>, pos |-> 1, born |-> 0]

Calm == "process" \notin failing

Init ==
  /\ failing = {"process"} \cup Tables
  /\ clock = 0
  /\ days \in Retentions
  /\ life = [p \in Procs |-> "down"]
  /\ pruning = [p \in Procs |-> NotPruning]
  /\ handler = [r \in Requests |-> Unsent]
  /\ rows = {}
  /\ pruned = {}
  /\ hurt = {}

------------------------------------------------------------------------------
(***************************************************************************)
(* Requests.                                                               *)
(***************************************************************************)

\* Request r is being handled by process p: "ready" between two statements,
\* "busy" with a connection.
At(r, p, state) == handler[r].at = <<state, p>>
Open(r, p) == At(r, p, "ready") \/ At(r, p, "busy")

Becomes(r, at) == handler' = [handler EXCEPT ![r].at = at]

Arrive(r, p) ==
  /\ handler[r] = Unsent
  /\ life[p] = "serving"
  /\ Becomes(r, <<"ready", p>>)
  /\ UNCHANGED <<failing, clock, days, life, pruning, rows, pruned, hurt>>

Left(r) == handler[r].pos <= Len(Batch[r])

\* A statement begins: it has got a connection, so the pool is not closed.
BeginInsert(r, p) ==
  /\ At(r, p, "ready")
  /\ Left(r)
  /\ life[p] # "closing"
  /\ handler' = [handler EXCEPT ![r] = [at |-> <<"busy", p>>, pos |-> @.pos, born |-> clock]]
  /\ UNCHANGED <<failing, clock, days, life, pruning, rows, pruned, hurt>>

RowOf(r) == [item |-> Batch[r][handler[r].pos], at |-> handler[r].born]

EndInsert(r, p) ==
  /\ At(r, p, "busy")
  /\ rows' = rows \cup {RowOf(r)}
  /\ handler' = [handler EXCEPT ![r] = [at |-> <<"ready", p>>, pos |-> @.pos + 1, born |-> 0]]
  /\ UNCHANGED <<failing, clock, days, life, pruning, pruned, hurt>>

\* Mutant of PoolClosed: the handler goes on to the next event.
PoolClosedUnseen(r, p) ==
  /\ At(r, p, "ready")
  /\ Left(r)
  /\ life[p] = "closing"
  /\ handler' = [handler EXCEPT ![r].pos = @ + 1]
  /\ UNCHANGED <<failing, clock, days, life, pruning, rows, pruned, hurt>>

\* There is no connection to be had any more: status 500.
PoolClosed(r, p) ==
  /\ At(r, p, "ready")
  /\ Left(r)
  /\ life[p] = "closing"
  /\ Becomes(r, <<"refused">>)
  /\ UNCHANGED <<failing, clock, days, life, pruning, rows, pruned, hurt>>

Accept(r, p) ==
  /\ At(r, p, "ready")
  /\ ~Left(r)
  /\ Becomes(r, <<"accepted">>)
  /\ UNCHANGED <<failing, clock, days, life, pruning, rows, pruned, hurt>>

Handle(r, p) ==
  BeginInsert(r, p) \/ EndInsert(r, p) \/ PoolClosed(r, p) \/ Accept(r, p)

------------------------------------------------------------------------------
(***************************************************************************)
(* runPruneLoop.                                                           *)
(***************************************************************************)

\* An int64 of nanoseconds, in days: it holds -MaxDays to MaxDays, and wraps
\* around (the fraction of a day it holds beyond is left out).
Wrap(d) == ((d + MaxDays) % (2 * MaxDays + 1)) - MaxDays

\* Mutant of Cutoff: it is off by a day.
LateCutoff(t, now) == now + Wrap(-days[t]) + 1

\* now.Add(-time.Duration(days) * 24 * time.Hour)
Cutoff(t, now) == now + Wrap(-days[t])

OnlyIf(condition, t) == IF condition THEN <<t>> ELSE <<>>

\* The tables that have a retention, in the order in which they are pruned.
ToPrune == OnlyIf(days["events"] > 0, "events")
             \o OnlyIf(days["snapshots"] > 0, "snapshots")

\* Mutant of PruneTick: the loop does not watch its context.
PruneTickUnaware(p) ==
  /\ life[p] # "down"
  /\ pruning[p] = NotPruning
  /\ ToPrune # <<>>
  /\ pruning' = [pruning EXCEPT ![p] = [now |-> clock, todo |-> ToPrune]]
  /\ UNCHANGED <<failing, clock, days, life, handler, rows, pruned, hurt>>

\* A tick of the prune loop: the time is read once for both tables.
PruneTick(p) ==
  /\ life[p] = "serving"
  /\ pruning[p] = NotPruning
  /\ ToPrune # <<>>
  /\ pruning' = [pruning EXCEPT ![p] = [now |-> clock, todo |-> ToPrune]]
  /\ UNCHANGED <<failing, clock, days, life, handler, rows, pruned, hurt>>

\* The loop goes on to the next table.  Told to stop, it has no more use: the
\* context of its statements is cancelled.
PruneNext(p) ==
  pruning' = [pruning EXCEPT ![p] =
                IF life[p] = "serving" /\ Len(@.todo) > 1
                THEN [now |-> @.now, todo |-> Tail(@.todo)]
                ELSE NotPruning]

\* PruneEvents and PruneSnapshots.
PruneTable(p) ==
  /\ pruning[p] # NotPruning
  /\ LET t   == Head(pruning[p].todo)
         old == {w \in rows : TableOf[w.item] = t /\ w.at < Cutoff(t, pruning[p].now)}
     IN  /\ rows' = rows \ old
         /\ pruned' = pruned \cup {w.item : w \in old}
  /\ PruneNext(p)
  /\ UNCHANGED <<failing, clock, days, life, handler, hurt>>

\* Mutant of PruneFails: the error of one table ends the prune.
PruneFailsForAll(p) ==
  /\ pruning[p] # NotPruning
  /\ life[p] = "serving" => Head(pruning[p].todo) \in failing
  /\ pruning' = [pruning EXCEPT ![p] = NotPruning]
  /\ UNCHANGED <<failing, clock, days, life, handler, rows, pruned, hurt>>

\* The statement fails, or is cancelled; the error is ignored.
PruneFails(p) ==
  /\ pruning[p] # NotPruning
  /\ life[p] = "serving" => Head(pruning[p].todo) \in failing
  /\ PruneNext(p)
  /\ UNCHANGED <<failing, clock, days, life, handler, rows, pruned, hurt>>

------------------------------------------------------------------------------
(***************************************************************************)
(* The process.                                                            *)
(***************************************************************************)

\* db.Open, db.Migrate if GTCP_AUTO_MIGRATE is set (module Migrate), and
\* ListenAndServe.
Start(p) ==
  /\ life[p] = "down"
  /\ life' = [life EXCEPT ![p] = "serving"]
  /\ UNCHANGED <<failing, clock, days, pruning, handler, rows, pruned, hurt>>

\* Mutant of Terminate: main returns without a Shutdown.
TerminateAtOnce(p) ==
  /\ life[p] = "serving"
  /\ life' = [life EXCEPT ![p] = "closing"]
  /\ UNCHANGED <<failing, clock, days, pruning, handler, rows, pruned, hurt>>

\* SIGTERM: srv.Shutdown takes no new request, and waits for the others.
Terminate(p) ==
  /\ life[p] = "serving"
  /\ life' = [life EXCEPT ![p] = "draining"]
  /\ UNCHANGED <<failing, clock, days, pruning, handler, rows, pruned, hurt>>

\* Shutdown returns, and main goes on to its deferred pool.Close().
Drained(p) ==
  /\ life[p] = "draining"
  /\ \A r \in Requests : ~Open(r, p)
  /\ life' = [life EXCEPT ![p] = "closing"]
  /\ UNCHANGED <<failing, clock, days, pruning, handler, rows, pruned, hurt>>

OpenAt(p) == {r \in Requests : Open(r, p)}

\* The ten seconds are over: Shutdown leaves the handlers that still run.
Deadline(p) ==
  /\ life[p] = "draining"
  /\ OpenAt(p) # {}
  /\ hurt' = hurt \cup OpenAt(p)
  /\ life' = [life EXCEPT ![p] = "closing"]
  /\ UNCHANGED <<failing, clock, days, pruning, handler, rows, pruned>>

\* The connections of requests that were not answered are reset.
Lose(p) ==
  handler' = [r \in Requests |->
                IF Open(r, p) THEN [handler[r] EXCEPT !.at = <<"lost">>]
                              ELSE handler[r]]

\* pool.Close() has waited for the connections in use; main returns.
Exit(p) ==
  /\ life[p] = "closing"
  /\ pruning[p] = NotPruning
  /\ \A r \in Requests : ~At(r, p, "busy")
  /\ life' = [life EXCEPT ![p] = "down"]
  /\ Lose(p)
  /\ UNCHANGED <<failing, clock, days, pruning, rows, pruned, hurt>>

------------------------------------------------------------------------------
(***************************************************************************)
(* Failures.                                                               *)
(***************************************************************************)

\* An insert fails, or only looks like it; the rows before it stay.
InsertFault(r, p) ==
  /\ At(r, p, "busy")
  /\ rows' \in {rows, rows \cup {RowOf(r)}}
  /\ Becomes(r, <<"refused">>)
  /\ hurt' = hurt \cup {r}
  /\ UNCHANGED <<failing, clock, days, life, pruning, pruned>>

\* Process p is killed, or log.Fatalf ends it because it cannot listen.  The
\* statements it had begun are committed or not.
Kill(p) ==
  /\ life[p] # "down"
  /\ life' = [life EXCEPT ![p] = "down"]
  /\ pruning' = [pruning EXCEPT ![p] = NotPruning]
  /\ \E S \in SUBSET {r \in Requests : At(r, p, "busy")} :
       rows' = rows \cup {RowOf(r) : r \in S}
  /\ Lose(p)
  /\ hurt' = hurt \cup OpenAt(p)
  /\ UNCHANGED <<failing, clock, days, pruned>>

Fault ==
  /\ ~Calm
  /\ \E p \in Procs : Kill(p) \/ \E r \in Requests : InsertFault(r, p)

\* Processes and inserts fail no more.  The prune of a table may still, for
\* good: of a table that is locked, or too large for it.
CalmDown ==
  /\ ~Calm
  /\ failing' \in SUBSET Tables
  /\ UNCHANGED <<clock, days, life, pruning, handler, rows, pruned, hurt>>

Tick ==
  /\ clock < MaxTime
  /\ clock' = clock + 1
  /\ UNCHANGED <<failing, days, life, pruning, handler, rows, pruned, hurt>>

------------------------------------------------------------------------------
Next ==
  \/ \E p \in Procs :
       \/ \E r \in Requests : Arrive(r, p) \/ Handle(r, p)
       \/ PruneTick(p) \/ PruneTable(p) \/ PruneFails(p)
       \/ Start(p) \/ Terminate(p) \/ Drained(p) \/ Deadline(p) \/ Exit(p)
  \/ Fault
  \/ CalmDown
  \/ Tick

Spec == Init /\ [][Next]_vars

(***************************************************************************)
(* The goroutines of a process run, its ticker ticks, and the database     *)
(* ends every statement.  Nobody is obliged to start or stop a process.    *)
(***************************************************************************)
Fairness ==
  \A p \in Procs :
    /\ \A r \in Requests : WF_vars(Handle(r, p))
    /\ WF_vars(PruneTick(p))
    /\ WF_vars(PruneTable(p) \/ PruneFails(p))
    /\ WF_vars(Drained(p) \/ Deadline(p))
    /\ WF_vars(Exit(p))

FairSpec == Spec /\ Fairness

------------------------------------------------------------------------------
(***************************************************************************)
(* Properties.                                                             *)
(***************************************************************************)

Row == [item : Items, at : Nat]

\* Type invariant.
TypeOK ==
  /\ failing \subseteq {"process"} \cup Tables
  /\ clock \in Nat
  /\ days \in Retentions
  /\ life \in [Procs -> {"down", "serving", "draining", "closing"}]
  /\ pruning \in [Procs -> [now : Nat, todo : Seq(Tables)]]
  /\ handler \in [Requests ->
       [at   : {<<"unsent">>, <<"accepted">>, <<"refused">>, <<"lost">>}
                 \cup ({"ready", "busy"} \X Procs),
        pos  : Nat \ {0},
        born : Nat]]
  /\ rows \subseteq Row
  /\ pruned \subseteq Items
  /\ hurt \subseteq Requests

\* Whatever is killed, cut off by a deadline or closed under a handler: what
\* was acknowledged is in the database, or was deleted by a prune.
AcceptedIsKept ==
  \A r \in Requests : handler[r].at = <<"accepted">> =>
    Range(Batch[r]) \subseteq {w.item : w \in rows} \cup pruned

\* A stop that drains in time is not noticed by any client: a request that
\* was taken in is answered with success unless a failure or the deadline
\* struck it.
DrainIsGraceful ==
  \A r \in Requests : handler[r].at \in {<<"refused">>, <<"lost">>} => r \in hurt

Overflows(t) == days[t] > MaxDays

TooOld(w) ==
  /\ days[TableOf[w.item]] > 0
  /\ clock - w.at > days[TableOf[w.item]]

\* No row is deleted before its time, however old the reading of the clock is
\* that a prune works with, and however long the row's own statement took;
\* unless the retention is more than a time.Duration can hold.
RetentionKept ==
  [][\A w \in rows \ rows' : TooOld(w) \/ Overflows(TableOf[w.item])]_vars

\* The rows a prune should have deleted: too old, of a table that can be pruned.
Overdue ==
  {w \in rows : LET t == TableOf[w.item]
                IN  TooOld(w) /\ ~Overflows(t) /\ t \notin failing}

\* Rows that are too old do go as long as a process serves, though the errors
\* of a prune are ignored, the other table's prune may fail each time, and rows
\* may be committed behind a prune's back.
EventuallyPruned ==
  \A p \in Procs :
    (Calm /\ life[p] = "serving") ~> (Overdue = {} \/ life[p] # "serving")

\* A process that was told to stop does stop, whatever its handlers, its
\* prune and the pool are doing.
StopsWhenTold ==
  \A p \in Procs : life[p] = "draining" ~> life[p] = "down"

==============================================================================
