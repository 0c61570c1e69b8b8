------------------------------ MODULE AgentLoop ------------------------------
(***************************************************************************)
(* The process of gt-agent (run, cmd/agent/main.go) around sendSpool: one  *)
(* select over the two tickers and the context, whose cases run one after  *)
(* the other.  A signal cancels the context: a request in progress, or one *)
(* begun later, then fails at once.                                        *)
(*                                                                         *)
(* A ticker has one tick of space, and time passes by itself: at every     *)
(* select each tick may have come.  What the server does with heartbeats   *)
(* and snapshots is in Projection; here they only take their time.         *)
(***************************************************************************)
EXTENDS SpoolDelivery, FiniteSets

VARIABLES
  loop,         \* where run is, "down" when no agent runs
  stopping      \* the context is cancelled

loopVars == <<loop, stopping>>
allVars  == <<vars, loopVars>>

LoopInit ==
  /\ Init
  /\ loop = "down"
  /\ stopping = FALSE

------------------------------------------------------------------------------
GoTo(from, to) ==
  /\ loop = from
  /\ loop' = to
  /\ UNCHANGED <<vars, stopping>>

\* The process is started, by an operator or a supervisor: the first snapshot.
Run == GoTo("down", "first")

\* Mutant of FirstSnapshot: a snapshot that fails is fatal.
FirstSnapshotOrExit ==
  /\ loop = "first"
  /\ loop' \in {"select", "down"}
  /\ UNCHANGED <<vars, stopping>>

FirstSnapshot == GoTo("first", "select")

\* Mutant of Heartbeat: a heartbeat that fails ends the branch.
HeartbeatOrContinue ==
  /\ loop = "beat"
  /\ loop' \in {"spool", "select"}
  /\ UNCHANGED <<vars, stopping>>

\* Sent, refused or timed out after ten seconds: the spool comes next.
Heartbeat == GoTo("beat", "spool")

Snapshot == GoTo("snapshot", "select")

\* The cases of the select.
OnHeartbeatTick == GoTo("select", "beat")
OnSnapshotTick  == GoTo("select", "snapshot")

\* Mutant of OnDone: only an empty spool lets the process end.
OnDoneIfEmpty ==
  /\ stopping
  /\ Spooled = {}
  /\ loop = "select"
  /\ loop' = "down"
  /\ stopping' = FALSE
  /\ UNCHANGED vars

OnDone ==
  /\ stopping
  /\ loop = "select"
  /\ loop' = "down"
  /\ stopping' = FALSE
  /\ UNCHANGED vars

\* Mutant of AfterStep: sendSpool has a goroutine of its own.
AfterGo == loop' = "select"

\* sendSpool runs in the branch of the heartbeat, and returns to the select.
AfterStep == loop' = IF pc' = "idle" THEN "select" ELSE "spool"

\* sendSpool makes no request with a cancelled context.
SendSpool ==
  /\ loop = "spool"
  /\ Agent
  /\ stopping => pc' # "waiting" \/ pc = "waiting"
  /\ AfterStep
  /\ UNCHANGED stopping

\* Mutant of Interrupted: a cancelled request is taken for a success.
InterruptedAsDone ==
  /\ loop = "spool"
  /\ stopping
  /\ pc = "waiting"
  /\ Abandon
  /\ pc' = "marking"
  /\ call' = None
  /\ AfterStep
  /\ UNCHANGED <<todo, batch, processed, retried, dirVars, copies, stopping>>

\* The context is cancelled: the request is not made, or not waited for.
Interrupted ==
  /\ loop = "spool"
  /\ stopping
  /\ \/ todo = {} /\ batch # <<>> /\ SendFault
     \/ Timeout
  /\ AfterStep
  /\ UNCHANGED stopping

------------------------------------------------------------------------------
(***************************************************************************)
(* Failures, and the signal.  The system calms down with an agent that     *)
(* runs and that nobody stops.                                             *)
(***************************************************************************)

LoopFault ==
  /\ ~calm
  /\ \/ /\ loop = "spool"
        /\ SendFault \/ Timeout \/ \E n \in Names : RenameFault(n)
        /\ AfterStep
        /\ UNCHANGED stopping
     \/ /\ \E r \in Requests : RefuseRequest(r) \/ StoreFault(r)
        /\ UNCHANGED loopVars
     \/ ServerCrash /\ UNCHANGED loopVars

\* The agent process dies, wherever it is.
AgentDies ==
  /\ ~calm
  /\ loop # "down"
  /\ IF pc = "idle" THEN UNCHANGED vars ELSE AgentCrash
  /\ loop' = "down"
  /\ stopping' = FALSE

Signal ==
  /\ ~calm
  /\ loop # "down"
  /\ stopping' = TRUE
  /\ UNCHANGED <<vars, loop>>

LoopCalmDown ==
  /\ loop # "down"
  /\ ~stopping
  /\ CalmDown
  /\ UNCHANGED loopVars

------------------------------------------------------------------------------
Branches ==
  \/ FirstSnapshot \/ Heartbeat \/ Snapshot
  \/ SendSpool \/ Interrupted

LoopNext ==
  \/ Run
  \/ Branches
  \/ OnHeartbeatTick \/ OnSnapshotTick \/ OnDone
  \/ Program /\ UNCHANGED loopVars
  \/ (\E r \in Requests : Handler(r)) /\ UNCHANGED loopVars
  \/ LoopFault \/ AgentDies \/ Signal \/ LoopCalmDown

(***************************************************************************)
(* Each branch ends: its requests have a timeout of ten seconds.  The      *)
(* tickers tick for ever, and among the cases that are ready select picks  *)
(* at random, so that none is passed over for ever: strong fairness.       *)
(***************************************************************************)
LoopFairness ==
  /\ WF_allVars(Branches)
  /\ SF_allVars(OnHeartbeatTick)
  /\ SF_allVars(OnSnapshotTick)
  /\ SF_allVars(OnDone)
  /\ \A n \in Names : WF_allVars(EndDrop(n) /\ UNCHANGED loopVars)
  /\ \A r \in Requests : WF_allVars(Handler(r) /\ UNCHANGED loopVars)

LoopSpec == LoopInit /\ [][LoopNext]_allVars /\ LoopFairness

------------------------------------------------------------------------------
(***************************************************************************)
(* Properties.                                                             *)
(***************************************************************************)

\* Type invariant.  sendSpool runs in its branch only.
LoopTypeOK ==
  /\ loop \in {"down", "first", "select", "beat", "spool", "snapshot"}
  /\ stopping \in BOOLEAN
  /\ pc # "idle" => loop = "spool"

\* What blocks the spool: a file that does not parse, an event the server
\* refuses, or more events than one request may have.
Stuck ==
  \/ Spooled \cap (Malformed \cup Bad) # {}
  \/ Cardinality(Spooled) > MaxBatch

\* Once the failures cease, every event that was dropped gets stored, but
\* for lines lost between a read and a rename, and unless the spool is stuck.
EventuallyStored ==
  \A e \in Events : (calm /\ e \in emitted) ~> (e \in Delivered \cup raced \/ Stuck)

\* Once the failures cease, the agent retires every file that was dropped,
\* unless the spool is stuck, though snapshots take turns with the spool.
EventuallyRetired == \A n \in Names : calm ~> (spool[n] = <<>> \/ Stuck)

\* An agent that is told to stop does, from wherever it is, though its
\* tickers go on and the server may never answer.
StopsWhenTold == stopping ~> loop = "down"

\* The agent goes on reporting: no case of the select starves another.
GoesOnReporting ==
  /\ calm ~> loop = "beat"
  /\ calm ~> loop = "snapshot"

\* The process drives the spool as SpoolDelivery allows.
DrivesTheSpool == Spec

==============================================================================
