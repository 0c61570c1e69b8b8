----------------------------- MODULE AtLeastOnce -----------------------------
(***************************************************************************)
(* What the spool directory promises to a program that drops events in it: *)
(* an event that was submitted stays pending until the control plane holds *)
(* it, and is retired from the spool only after that.  An event may be     *)
(* delivered more than once, never less.                                   *)
(*                                                                         *)
(* This is the abstract side of SpoolDelivery, which implements it.        *)
(***************************************************************************)

CONSTANT Events      \* the events programs submit, each occurrence distinct

VARIABLES
  pending,           \* submitted and not retired yet
  delivered          \* held by the control plane

promiseVars == <<pending, delivered>>

Init ==
  /\ pending = {}
  /\ delivered = {}

\* A program hands over a set of new events: one file of the spool.
Submit(S) ==
  /\ S # {}
  /\ S \cap (pending \cup delivered) = {}
  /\ pending' = pending \cup S
  /\ UNCHANGED delivered

\* The control plane stores one pending event.
Deliver(e) ==
  /\ e \in pending
  /\ delivered' = delivered \cup {e}
  /\ UNCHANGED pending

\* A set of events leaves the spool; all of them have been delivered.
Retire(S) ==
  /\ S \subseteq pending \cap delivered
  /\ pending' = pending \ S
  /\ UNCHANGED delivered

Next ==
  \/ \E S \in SUBSET Events : Submit(S)
  \/ \E e \in Events : Deliver(e)
  \/ \E S \in SUBSET Events : Retire(S)

Spec == Init /\ [][Next]_promiseVars

==============================================================================
