------------------------------ MODULE MCSendPkt ------------------------------
(* Two tap devices that may send one frame each, retransmitted at will, and *)
(* two packets that may or may not have the same header.                    *)
EXTENDS SendPkt

MCMethods == {"none", "dropmon", "droptrace"}
MCIntfs == {1, 2}
MCOutputs == {"out"}
MCHeaders == {<<"h1", "h1">>, <<"h1", "h2">>}
=============================================================================
