---------------------------- MODULE SerialUpgrade ----------------------------
(***************************************************************************)
(* What a migration promises: the schema goes through its versions one     *)
(* file at a time, as if a single process upgraded it that nothing can     *)
(* stop, and whoever gets past the migration finds the last version.       *)
(*                                                                         *)
(* This is the abstract side of Migrate, which implements it with          *)
(* processes that migrate side by side, fail and die.                      *)
(***************************************************************************)
EXTENDS Integers

CONSTANTS
  Procs,             \* who waits for the upgrade
  Last               \* the last version

VARIABLES
  applied,           \* the files whose changes are in the schema
  recorded,          \* those the schema is said to contain
  up                 \* the processes past the migration

upgradeVars == <<applied, recorded, up>>

Versions == 1..Last

Init ==
  /\ applied = {}
  /\ recorded = {}
  /\ up = {}

\* Version f comes next.
IsNext(f) == f \notin recorded /\ \A g \in Versions : g < f => g \in recorded

Apply(f) ==
  /\ IsNext(f)
  /\ applied' = applied \cup {f}
  /\ UNCHANGED <<recorded, up>>

Complete == recorded = Versions

\* Who records the last version has finished.
Record(f) ==
  /\ IsNext(f)
  /\ f \in applied
  /\ recorded' = recorded \cup {f}
  /\ up' = up \/ (Complete' /\ \E p \in Procs : up' = up \cup {p})
  /\ UNCHANGED applied

\* Process p finds nothing left to do.
Pass(p) ==
  /\ Complete
  /\ up' = up \cup {p}
  /\ UNCHANGED <<applied, recorded>>

Leave(p) ==
  /\ up' = up \ {p}
  /\ UNCHANGED <<applied, recorded>>

Next ==
  \/ \E f \in Versions : Apply(f) \/ Record(f)
  \/ \E p \in Procs : Pass(p) \/ Leave(p)

Spec == Init /\ [][Next]_upgradeVars

==============================================================================
