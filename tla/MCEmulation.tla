----------------------------- MODULE MCEmulation -----------------------------
(* Model values for Emulation: two packets may reach the first of three       *)
(* middleboxes, one that makes it open a connection and the answer to that;   *)
(* the others, which are symmetric like the emulations, are servers.  A        *)
(* container does not choose the numbers of the life before again.            *)
EXTENDS Emulation, TLC

CONSTANTS m1, m2, m3, e1, e2, e3, p1, p2, p3

MCMiddleboxes == {m1, m2, m3}
MCEmulations == {e1, e2, e3}
MCPackets == {p1, p2, p3}
MCPacketsAt == [m \in MCMiddleboxes |-> IF m = m1 THEN {p1, p2} ELSE {p3}]
MCKind == [p \in MCPackets |-> CASE p = p1 -> "syn" [] p = p2 -> "synack" [] OTHER -> "other"]
MCIsn == [l \in LifeNumbers |-> [q \in Peers |-> 1000 * (l + IF q = "client" THEN 1 ELSE 5)]]
MCEphemeral == [l \in LifeNumbers |-> DynamicPort + 7 + l]

Symmetry == Permutations({m2, m3}) \cup Permutations(MCEmulations)
=============================================================================
