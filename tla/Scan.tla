-------------------------------- MODULE Scan ---------------------------------
(***************************************************************************)
(* What agent.ScanWorkspace (internal/agent/scan.go) finds in the          *)
(* directory of a workspace.  A directory is the sequence of its entries,  *)
(* in the order of os.ReadDir; of the entries in a workspace only the      *)
(* directories crew and hooks are looked into.                             *)
(***************************************************************************)
EXTENDS Sequences, SequencesExt

\* A directory that is not there.  One that cannot be read is as an empty one.
CONSTANT NoDir

Directories(entries) == SelectSeq(entries, LAMBDA e : e.isDir)

LooksLikeRig(e) == e.crew # NoDir \/ e.hooks # NoDir

RigsOf(ws) == SelectSeq(Directories(ws), LooksLikeRig)

\* The directories in the directory dir of rig e, each with the rig's name.
Inside(e, dir) ==
  LET found == IF dir = NoDir THEN <<>> ELSE Directories(dir)
  IN  [i \in 1..Len(found) |-> [name |-> found[i].name, rig |-> e.name]]

\* The rigs, the agents and the hooks, each in the order of the walk.
ScanWorkspace(ws) ==
  LET rigs == RigsOf(ws)
      ForEachRig(Find(_)) == FlattenSeq([i \in 1..Len(rigs) |-> Find(rigs[i])])
  IN  [rigs   |-> [i \in 1..Len(rigs) |-> rigs[i].name],
       agents |-> ForEachRig(LAMBDA e : Inside(e, e.crew)),
       hooks  |-> ForEachRig(LAMBDA e : Inside(e, e.hooks))]

==============================================================================
