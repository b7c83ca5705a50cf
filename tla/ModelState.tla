----------------------------- MODULE ModelState -----------------------------
(***************************************************************************)
(* The network state SPIN explores (network.pml), as the class Model gives *)
(* access to it, and what its parts have in common: protocol states, the   *)
(* FIB of a connection, and the initial state of a connection.             *)
(*                                                                         *)
(* The handlers are operators from states to states: each runs within one  *)
(* c_code block of the Promela model, whose steps exec_step composes.      *)
(*                                                                         *)
(* A packet's addresses are their equivalence classes, a next hop is its   *)
(* layer 3 node, a payload its size.                                       *)
(***************************************************************************)
EXTENDS RoutingTable, FiniteSets, SequencesExt

CONSTANTS
  Emulated,      \* the middleboxes among the nodes
  Ecs, NoEc,     \* equivalence classes, by their representative address
  EcOf,          \* the class of the address each node sends from
  IntfNetwork,   \* the network of each layer 3 interface
  StaticRoutes,  \* the routes of each node's configuration, in order
  Updates,       \* OpenFlow updates of each node, in order
  MaxConns       \* MAX_CONNS

ASSUME ModelStateAssumption ==
  /\ Emulated \subseteq Nodes
  /\ Ecs \subseteq Addrs
  /\ NoEc \notin Ecs
  /\ EcOf \in [Nodes -> Ecs]
  /\ IntfNetwork \in [DOMAIN IntfAddr -> Networks]
  /\ StaticRoutes \in [Nodes -> Seq(Routes)]
  /\ \A n \in Nodes :
       /\ Updates[n] \in Seq(OpenFlowUpdates)
       /\ n \in Emulated => Updates[n] = <<>>
  /\ MaxConns \in Nat \ {0}

-----------------------------------------------------------------------------
(* Protocol states                                                         *)

(* 1-3 TCP handshake, 4 request, 5 its ACK, 6 reply, 7 its ACK, 8-10 TCP   *)
(* termination; 11 UDP request, 12 reply; 13 ICMP echo request, 14 reply.  *)

TcpStates == 1 .. 10
ProtoStates == 1 .. 14

IsRequest(p) == p \in {4, 11, 13}
IsReply(p) == p \in {6, 12, 14}
ReqAckOrRep(p) == p = 5 \/ IsReply(p)
IsFirst(p) == p \in {1, 11, 13}
IsLast(p) == p \in {10, 12, 14}

HasSyn(p) == p \in {1, 2}
HasFin(p) == p \in {8, 9}

\* get_payload_from_model: the size of the payload, 0 for none; those of requests
\* and replies differ.
PayloadOf(p) == CASE p = 4 -> 2 [] p = 6 -> 3 [] OTHER -> 0

FirstState == [tcp |-> 1, udp |-> 11, icmp_echo |-> 13]
Protocol(p) ==
  IF p \in TcpStates THEN "tcp" ELSE IF p \in {11, 12} THEN "udp" ELSE "icmp_echo"

-----------------------------------------------------------------------------
(* The state vector                                                        *)

Modes == {"FIRST_COLLECT", "FIRST_FORWARD", "COLLECT_NHOPS", "CHOOSE_INJ_RES",
          "FORWARD_PACKET", "ACCEPTED", "DROPPED"}

Conns == 1 .. MaxConns

\* The state of the current connection, and the state with it replaced.
Cur(s) == s.conns[s.conn]
SetCur(s, c) == [s EXCEPT !.conns[s.conn] = c]

\* The sequence number that follows the connection's packet: a payload counts its
\* bytes, a SYN or a FIN one.
SeqAfter(c) ==
  c.seq + IF c.payload > 0 THEN c.payload
          ELSE IF HasSyn(c.proto) \/ HasFin(c.proto) THEN 1 ELSE 0

\* logger.error throws and a failed assertion aborts: the process ends.
Fail(s) == [s EXCEPT !.failed = TRUE, !.choiceCount = 0]

\* The table of each node: the networks of its interfaces, and its configuration.
Rib ==
  [n \in Nodes |->
     InsertAll({Connected(IntfNetwork[i], i) : i \in {i \in DOMAIN IntfAddr : Owner[i] = n}},
               StaticRoutes[n])]

RibHops == [n \in Nodes |-> [ec \in Ecs |-> GetIpnhs(n, Rib[n], ec)]]

\* A node's table with its first k OpenFlow routes, as far as they concern ec, put in
\* one by one.
TableWith(Put(_, _), n, k, ec) ==
  LET table[i \in 0 .. k] ==
        IF i = 0 THEN Rib[n]
        ELSE IF ec \in NetworkAddrs[Updates[n][i].network]
          THEN Put(table[i - 1], Updates[n][i])
        ELSE table[i - 1]
  IN table[k]

\* get_installed_updates: each route replaces those with its network; and the next hops
\* of each node then.
Replaced(n, k, ec) == TableWith(UpdateRoute, n, k, ec)

InstalledHops ==
  [n \in Nodes |-> [k \in 0 .. Len(Updates[n]) |-> [ec \in Ecs |->
     GetIpnhs(n, Replaced(n, k, ec), ec)]]]

\* The next hops of a node with its first k updates; updates that leave it without
\* any do not show.
HopsWith(n, k, ec) ==
  LET hops == InstalledHops[n][k][ec]
  IN IF Updates[n] # <<>> /\ hops # {} THEN hops ELSE RibHops[n][ec]

\* Mutant: updates show before they are installed.
FibForAll(s, ec) == [n \in Nodes |-> HopsWith(n, Len(Updates[n]), ec)]

\* update_fib: the next hops of every node for ec.
FibFor(s, ec) == [n \in Nodes |-> HopsWith(n, s.installed[n], ec)]

\* The memory of a connection that does not exist yet.
UnusedConn ==
  [executable |-> 0, proto |-> 0, src |-> NoEc, dst |-> NoEc, ports |-> <<0, 0>>,
   seq |-> 0, ack |-> 0, payload |-> 0, srcNode |-> NoNode, txNode |-> NoNode, rxNode |-> NoNode,
   mode |-> "FIRST_COLLECT", loc |-> NoNode, candidates |-> <<>>,
   results |-> <<>>, fib |-> [n \in Nodes |-> {}], choices |-> {},
   visited |-> {}]

\* Connection::init of connection i; its source address is not known before the
\* egress interface is, and what it does not set keeps its value.
InitConn(s, i, spec) ==
  [UnusedConn EXCEPT
     !.executable = 2, !.proto = FirstState[spec.protocol], !.dst = spec.dst,
     !.ports = spec.ports, !.payload = PayloadOf(FirstState[spec.protocol]),
     !.srcNode = spec.src, !.txNode = spec.src, !.loc = spec.src,
     !.fib = FibFor(s, spec.dst), !.visited = s.conns[i].visited]

\* Invariant::init of an invariant that is not correlated.
InitConns(s, specs) ==
  [s EXCEPT
     !.conn = 1, !.numConns = Len(specs),
     !.conns = [i \in Conns |-> IF i <= Len(specs) THEN InitConn(s, i, specs[i]) ELSE @[i]]]
=============================================================================
