---------------------------- MODULE MCProjection -----------------------------
(***************************************************************************)
(* Instances of Projection for TLC.                                        *)
(***************************************************************************)
EXTENDS Projection, Scan, TLC

CONSTANTS alpha, mayor, auth, hook1, docs, readme

Event(rig, agent, convoy, hook) ==
  [rig |-> rig, agent |-> agent, convoy |-> convoy, hook |-> hook]

\* sendHeartbeat: an agent, and no rig.
Heartbeat == Event(Null, mayor, Null, Null)

\* The event of the integration test.
RigEvent == Event(alpha, mayor, Null, Null)

\* An event that names everything an event can.
FullEvent == Event(alpha, mayor, auth, hook1)

FullEvents  == {FullEvent}
BeatAndRig  == {Heartbeat, RigEvent}
OnlyBeats   == {Heartbeat}
RigEvents   == {RigEvent}

Dir(name)  == [name |-> name, isDir |-> TRUE]
File(name) == [name |-> name, isDir |-> FALSE]

TopDir(name, crew, hooks) ==
  [name |-> name, isDir |-> TRUE, crew |-> crew, hooks |-> hooks]

\* A rig with one agent and one hook, among what is no rig.
Tree ==
  <<TopDir(alpha, <<Dir(mayor), File(readme)>>, <<Dir(hook1)>>),
    TopDir(docs, NoDir, NoDir),
    File(readme)>>

\* sendSnapshot posts what the scan returns, which holds no convoys.
SnapshotOf(scan, convoys) ==
  [rigs |-> scan.rigs, agents |-> scan.agents, convoys |-> convoys, hooks |-> scan.hooks]

OneRig == SnapshotOf(ScanWorkspace(Tree), <<>>)

\* The snapshot of a scanner extended as README.md proposes in its notes.
OneConvoy == SnapshotOf(ScanWorkspace(Tree), <<[name |-> auth, rig |-> alpha]>>)

Symmetry == Permutations(Requests)

==============================================================================
