--------------------------- MODULE AgentLoopProofs ---------------------------
(***************************************************************************)
(* Proofs about AgentLoop: the process drives the spool as SpoolDelivery   *)
(* allows, so that what is proved there holds of the whole process.        *)
(***************************************************************************)
EXTENDS AgentLoop, SpoolDeliveryProofs

(***************************************************************************)
(* Type correctness.  Only sendSpool changes pc, and it runs in its        *)
(* branch; a process that dies leaves nothing of it.                       *)
(***************************************************************************)

\* The programs and the server leave the agent as it is.
LEMMA OthersKeepAgent ==
  /\ Program => UNCHANGED agentVars
  /\ \A r \in Requests : Handler(r) => UNCHANGED agentVars
  /\ \A r \in Requests : RefuseRequest(r) \/ StoreFault(r) => UNCHANGED agentVars
  /\ ServerCrash => UNCHANGED agentVars
<1>1. Program => UNCHANGED agentVars
  BY DEF Program, BeginDrop, EndDrop, AppendLine
<1>2. \A r \in Requests : Handler(r) => UNCHANGED agentVars
  BY DEF Handler, RefuseOversize, BeginStore, InsertEvent, RejectEvent, Accept, Cancelled
<1>3. \A r \in Requests : RefuseRequest(r) \/ StoreFault(r) => UNCHANGED agentVars
  BY DEF RefuseRequest, StoreFault
<1>4. ServerCrash => UNCHANGED agentVars
  BY DEF ServerCrash
<1> QED  BY <1>1, <1>2, <1>3, <1>4

LEMMA LoopStepType == LoopTypeOK /\ [LoopNext]_allVars => LoopTypeOK'
<1> SUFFICES ASSUME LoopTypeOK, [LoopNext]_allVars PROVE LoopTypeOK'
  OBVIOUS
<1> USE DEF LoopTypeOK, loopVars
<1>1. CASE \/ Run \/ FirstSnapshot \/ Heartbeat \/ Snapshot
           \/ OnHeartbeatTick \/ OnSnapshotTick \/ OnDone \/ Signal
  BY <1>1
  DEF Run, FirstSnapshot, Heartbeat, Snapshot, OnHeartbeatTick, OnSnapshotTick, OnDone,
      Signal, GoTo, vars, agentVars
<1>2. CASE SendSpool \/ Interrupted
  BY <1>2 DEF SendSpool, Interrupted, AfterStep
<1>3. CASE /\ Program \/ \E r \in Requests : Handler(r)
           /\ UNCHANGED loopVars
  BY <1>3, OthersKeepAgent DEF agentVars
<1>4. CASE LoopFault
  <2>1. CASE AfterStep /\ UNCHANGED stopping
    BY <2>1 DEF AfterStep
  <2>2. CASE UNCHANGED agentVars /\ UNCHANGED loopVars
    BY <2>2 DEF agentVars
  <2> QED  BY <1>4, <2>1, <2>2, OthersKeepAgent DEF LoopFault
<1>5. CASE AgentDies
  BY <1>5 DEF AgentDies, AgentCrash, EndPoll, vars, agentVars
<1>6. CASE LoopCalmDown
  BY <1>6 DEF LoopCalmDown, CalmDown, agentVars
<1>7. CASE UNCHANGED allVars
  BY <1>7 DEF allVars, vars, agentVars
<1> QED
  BY <1>1, <1>2, <1>3, <1>4, <1>5, <1>6, <1>7 DEF LoopNext, Branches

\* sendSpool runs in the branch of the heartbeat only: no two of its runs,
\* and no heartbeat or snapshot beside it, whatever fails or is cancelled.
THEOREM LoopTypeCorrect == LoopSpec => []LoopTypeOK
<1>1. LoopInit => LoopTypeOK
  BY DEF LoopInit, LoopTypeOK, Init
<1> QED  BY <1>1, LoopStepType, PTL DEF LoopSpec

------------------------------------------------------------------------------
(***************************************************************************)
(* Refinement: every step of the process is a step of SpoolDelivery, or    *)
(* leaves its variables alone.                                             *)
(***************************************************************************)

\* Nobody stops the agent once the failures have ceased.
CalmInv == calm => ~stopping

LEMMA CalmStep == CalmInv /\ [LoopNext]_allVars => CalmInv'
<1> SUFFICES ASSUME CalmInv, [LoopNext]_allVars PROVE CalmInv'
  OBVIOUS
<1> USE DEF CalmInv, loopVars, dirVars
<1>1. CASE \/ Run \/ FirstSnapshot \/ Heartbeat \/ Snapshot
           \/ OnHeartbeatTick \/ OnSnapshotTick \/ OnDone \/ Signal
  BY <1>1
  DEF Run, FirstSnapshot, Heartbeat, Snapshot, OnHeartbeatTick, OnSnapshotTick, OnDone,
      Signal, GoTo, vars
<1>2. CASE SendSpool
  BY <1>2
  DEF SendSpool, Agent, ReadDir, ReadFile, SkipEmptyFile, ParseError, NothingToSend, Post,
      ReceiveAccepted, ReceiveRefused, MarkProcessed
<1>3. CASE Interrupted
  BY <1>3 DEF Interrupted, SendFault, Timeout
<1>4. CASE Program /\ UNCHANGED loopVars
  BY <1>4 DEF Program, BeginDrop, EndDrop, AppendLine
<1>5. CASE (\E r \in Requests : Handler(r)) /\ UNCHANGED loopVars
  BY <1>5
  DEF Handler, RefuseOversize, BeginStore, InsertEvent, RejectEvent, Accept, Cancelled
<1>6. CASE LoopFault
  BY <1>6
  DEF LoopFault, SendFault, Timeout, RenameFault, RefuseRequest, StoreFault, ServerCrash
<1>7. CASE AgentDies
  BY <1>7 DEF AgentDies, AgentCrash, vars
<1>8. CASE LoopCalmDown
  BY <1>8 DEF LoopCalmDown
<1>9. CASE UNCHANGED allVars
  BY <1>9 DEF allVars, vars
<1> QED
  BY <1>1, <1>2, <1>3, <1>4, <1>5, <1>6, <1>7, <1>8, <1>9 DEF LoopNext, Branches

LEMMA LoopStepDrives == CalmInv /\ [LoopNext]_allVars => [Next]_vars
<1> SUFFICES ASSUME CalmInv, [LoopNext]_allVars PROVE [Next]_vars
  OBVIOUS
<1>1. CASE \/ Run \/ FirstSnapshot \/ Heartbeat \/ Snapshot
           \/ OnHeartbeatTick \/ OnSnapshotTick \/ OnDone \/ Signal
  BY <1>1
  DEF Run, FirstSnapshot, Heartbeat, Snapshot, OnHeartbeatTick, OnSnapshotTick, OnDone,
      Signal, GoTo
<1>2. CASE SendSpool
  BY <1>2 DEF SendSpool, Next
<1>3. CASE Interrupted
  BY <1>3 DEF Interrupted, CalmInv, Fault, Next
<1>4. CASE Program \/ \E r \in Requests : Handler(r)
  BY <1>4 DEF Next
<1>5. CASE LoopFault
  BY <1>5 DEF LoopFault, Fault, Next
<1>6. CASE AgentDies
  BY <1>6 DEF AgentDies, Fault, Next
<1>7. CASE LoopCalmDown
  BY <1>7 DEF LoopCalmDown, Next
<1>8. CASE UNCHANGED allVars
  BY <1>8 DEF allVars
<1> QED
  BY <1>1, <1>2, <1>3, <1>4, <1>5, <1>6, <1>7, <1>8 DEF LoopNext, Branches

\* The process of the agent implements SpoolDelivery: its select, its other
\* branches and the cancelled context make no step of the spool possible
\* that SpoolDelivery does not have.
THEOREM LoopDrivesTheSpool == LoopSpec => DrivesTheSpool
<1>1. LoopInit => Init /\ CalmInv
  BY DEF LoopInit, CalmInv
<1> QED
  BY <1>1, CalmStep, LoopStepDrives, PTL DEF LoopSpec, DrivesTheSpool, Spec

\* So the process loses no event either, wherever a signal or a crash finds
\* it and whatever the select does next.
THEOREM LoopLosesNothing == LoopSpec => []NothingLost
<1> QED  BY LoopDrivesTheSpool, NothingIsLost, PTL DEF DrivesTheSpool

\* Nor does it duplicate one needlessly, however often the select comes back
\* to the spool and whatever a signal cuts off.
THEOREM LoopDuplicatesNothingNeedlessly == LoopSpec => []NoNeedlessDuplicate
<1> QED  BY LoopDrivesTheSpool, NothingIsDuplicatedNeedlessly, PTL DEF DrivesTheSpool

\* And it keeps the at-least-once promise.
THEOREM LoopKeepsPromise == LoopSpec => ImplementsAtLeastOnce
<1> QED  BY LoopDrivesTheSpool, SpoolKeepsPromise, PTL DEF DrivesTheSpool

==============================================================================
