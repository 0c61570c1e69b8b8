--------------------------- MODULE MCSpoolDelivery ---------------------------
(***************************************************************************)
(* Instances of SpoolDelivery for TLC.                                     *)
(***************************************************************************)
EXTENDS SpoolDelivery, SequencesExt, TLC

CONSTANT MaxLines    \* bound: the lines of a dropped file

\* A dropped file has one to MaxLines different events, in any order.
MCContents == {s \in SeqOf(Events, MaxLines) : s # <<>> /\ IsInjective(s)}

\* Requests are interchangeable, and so are the events nothing refuses.
Symmetry ==
  Permutations(Requests) \cup Permutations(Events \ (Bad \cup Malformed))

==============================================================================
