--------------------------- MODULE MCEmulationPool ---------------------------
(* Model values for EmulationPool: three middleboxes, one of which two      *)
(* packets may reach.  Middleboxes, emulations and packets are only         *)
(* compared for equality, so each class of them is symmetric.               *)
EXTENDS EmulationPool, TLC

CONSTANTS m1, m2, m3, e1, e2, e3, p1, p2, p3

MCMiddleboxes == {m1, m2, m3}
MCEmulations == {e1, e2, e3}
MCPackets == {p1, p2, p3}
MCPacketsAt == [m \in MCMiddleboxes |-> IF m = m1 THEN {p1, p2} ELSE {p3}]

Symmetry ==
  Permutations({m2, m3}) \cup Permutations(MCEmulations)
    \cup Permutations({p1, p2})
=============================================================================
