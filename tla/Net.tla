-------------------------------- MODULE Net --------------------------------
(***************************************************************************)
(* What class Net makes of the packets received from a middlebox: it joins *)
(* TCP segments, finds the connection a packet belongs to and its protocol *)
(* state, and checks its sequence numbers.                                 *)
(*                                                                         *)
(* A packet has its protocol, addresses, ports, sequence numbers, the size *)
(* of its payload, the interface it came from, and "flags": the TCP flags  *)
(* or the ICMP type.                                                       *)
(***************************************************************************)
EXTENDS ModelState

\* The flags of the packet that is in each protocol state.
FlagsOf ==
  <<"syn", "synack", "ack", "ack", "ack", "ack", "ack", "fin", "fin", "ack",
    "udp", "udp", "request", "reply">>

\* Instead of a state: an exception or a failed assertion.
Bad == 0

-----------------------------------------------------------------------------
(* reassemble_segments                                                     *)

\* The segment p continues q: no other packet of the interface is in between.
Continues(p, q) ==
  /\ <<p.intf, p.src, p.dst, p.ports>> = <<q.intf, q.src, q.dst, q.ports>>
  /\ {p.flags, q.flags} = {"ack"}
  /\ p.seq = q.seq + q.payload /\ p.ack = q.ack

\* Mutant: segments are not joined.
ReassembleNothing(pkts) == pkts

\* Each segment is joined to the last packet of its interface it continues.
Reassemble(pkts) ==
  LET lastOf(out, p) == {k \in DOMAIN out : out[k].intf = p.intf /\
                           \A l \in DOMAIN out : out[l].intf = p.intf => l <= k}
      joins(out, p) == {k \in lastOf(out, p) : Continues(p, out[k])}
      add(out, p) ==
        IF joins(out, p) = {} THEN Append(out, p)
        ELSE [k \in DOMAIN out |->
                IF k \in joins(out, p)
                THEN [out[k] EXCEPT !.payload = @ + p.payload] ELSE out[k]]
      joined[k \in 0 .. Len(pkts)] ==
        IF k = 0 THEN <<>> ELSE add(joined[k - 1], pkts[k])
  IN joined[Len(pkts)]

-----------------------------------------------------------------------------
(* identify_conn                                                           *)

SameDirection(c, p) ==
  /\ <<p.src, p.dst, p.ports>> = <<c.src, c.dst, c.ports>>
  /\ p.protocol = Protocol(c.proto)

OppositeDirection(c, p) ==
  /\ <<p.dst, p.src, p.ports[2], p.ports[1]>> =
       <<c.src, c.dst, c.ports[1], c.ports[2]>>
  /\ p.protocol = Protocol(c.proto)

Belongs(c, p) == SameDirection(c, p) \/ OppositeDirection(c, p)

\* The current connection if the packet belongs to it, else the first it belongs
\* to, else a new one.
IdentifyConn(s, p) ==
  LET owners == {i \in 1 .. s.numConns : Belongs(s.conns[i], p)}
  IN IF s.conn \in owners THEN s.conn
     ELSE IF owners # {} THEN CHOOSE i \in owners : \A j \in owners : i <= j
     ELSE s.numConns + 1

-----------------------------------------------------------------------------
(* convert_proto_state                                                     *)

\* An ACK, with or without payload, of a connection in state old.
AckState(hasPayload, old, opposite) ==
  CASE old \in {2, 9} /\ opposite                   -> old + 1
    [] old \in {3, 5} /\ ~opposite                  -> IF hasPayload THEN old + 1 ELSE old
    [] old = 4 /\ opposite                          -> IF hasPayload THEN 6 ELSE 5
    [] old = 6 /\ opposite /\ ~hasPayload           -> 7
    [] old \in {4, 6} /\ ~opposite /\ hasPayload    -> old
    [] old \in {7, 10} /\ ~opposite /\ ~hasPayload  -> old
    [] OTHER                                        -> Bad

FinState(old, opposite) ==
  CASE old \in {3, 5, 7}         -> 8
    [] old = 8                   -> IF opposite THEN 9 ELSE 8
    [] old = 9 /\ ~opposite      -> 9
    [] OTHER                     -> Bad

TcpState(p, old, opposite) ==
  CASE p.flags = "syn"     -> 1
    [] p.flags = "synack"  -> 2
    [] p.flags = "ack"     -> AckState(p.payload > 0, old, opposite)
    [] p.flags = "fin"     -> FinState(old, opposite)

\* The state of a packet that starts a connection, and of one that belongs to a
\* connection in state old.
NewState(p) ==
  CASE p.protocol = "udp"                                 -> 11
    [] p.protocol = "tcp" /\ p.flags = "syn"              -> 1
    [] p.protocol = "icmp_echo" /\ p.flags = "request"    -> 13
    [] OTHER                                              -> Bad

KnownState(p, old, opposite) ==
  CASE p.protocol = "tcp"       -> TcpState(p, old, opposite)
    [] p.protocol = "udp"       -> IF ~opposite THEN old
                                   ELSE IF old = 11 THEN 12 ELSE Bad
    [] p.protocol = "icmp_echo" -> IF p.flags = "request" THEN 13 ELSE 14

StateOf(s, p) ==
  LET i == IdentifyConn(s, p)
  IN IF i > s.numConns THEN NewState(p)
     ELSE KnownState(p, s.conns[i].proto, ~SameDirection(s.conns[i], p))

-----------------------------------------------------------------------------
(* check_seq_ack: a new connection starts from 0, the next phase goes on   *)
(* where the packet before it ended, and a packet that is passed on keeps  *)
(* its numbers and its payload.                                            *)

SeqAckRight(s, p) ==
  LET old == s.conns[IdentifyConn(s, p)]
  IN \/ p.protocol # "tcp"
     \/ IF IdentifyConn(s, p) > s.numConns THEN <<p.seq, p.ack>> = <<0, 0>>
        ELSE IF StateOf(s, p) = old.proto
          THEN <<p.seq, p.ack, p.payload>> = <<old.seq, old.ack, old.payload>>
        ELSE <<p.seq, p.ack>> = IF SameDirection(old, p) THEN <<SeqAfter(old), old.ack>>
                                ELSE <<old.ack, SeqAfter(old)>>
=============================================================================
