---------------------------- MODULE RoutingTable ----------------------------
(***************************************************************************)
(* Routing tables, and the next hops Node::get_ipnhs finds in them.  A     *)
(* route has a network, an administrative distance, and leads to the       *)
(* address of a next hop or, if connected, to an egress interface.         *)
(*                                                                         *)
(* Interfaces with an address are layer 3 interfaces; the others are ports *)
(* of switches, which form layer 2 LANs.                                   *)
(***************************************************************************)
EXTENDS Integers, FiniteSets, Sequences

CONSTANTS
  Nodes, NoNode,  \* the nodes, and the null pointer
  Addrs, NoAddr,  \* addresses; the next hop of a connected route
  Intfs, NoIntf,  \* interfaces; the empty interface of other routes
  Owner,          \* the node of each interface
  IntfAddr,       \* the address of each layer 3 interface
  Links,          \* pairs of interfaces
  Networks,       \* the networks of the routes
  NetworkLen,     \* the prefix length of each
  NetworkAddrs    \* the addresses each contains

\* What a routing table may hold.
Routes ==
  [network : Networks, nextHop : Addrs \cup {NoAddr}, intf : Intfs \cup {NoIntf},
   dist : 0 .. 255]

\* Networks are prefixes: of two with an address in common one is longer.
ASSUME RoutingTableAssumption ==
  /\ IsFiniteSet(Nodes) /\ IsFiniteSet(Addrs)
  /\ NetworkLen \in [Networks -> 0 .. 32]
  /\ \A p, q \in Networks :
       NetworkLen[p] = NetworkLen[q] /\ NetworkAddrs[p] \cap NetworkAddrs[q] # {} => p = q
  /\ NoNode \notin Nodes /\ NoIntf \notin Intfs
  /\ Owner \in [Intfs -> Nodes]
  /\ DOMAIN IntfAddr \subseteq Intfs
  /\ Links \subseteq Intfs \X Intfs
  /\ \A l \in Links : Owner[l[1]] # Owner[l[2]]
  /\ \A l, k \in Links : l # k => {l[1], l[2]} \cap {k[1], k[2]} = {}

HasIp(n, addr) == \E i \in DOMAIN IntfAddr : Owner[i] = n /\ IntfAddr[i] = addr

-----------------------------------------------------------------------------
(* Layer 2                                                                 *)

\* parse_link: a link is the same from both ends.
Linked(i, j) == <<i, j>> \in Links \/ <<j, i>> \in Links

\* add_link: the other end of the interface, if it is connected.
Peers(i) == {j \in Intfs : Linked(i, j)}

L2Intfs == Intfs \ DOMAIN IntfAddr

\* collect_intfs: the ports of the LAN of port i: those of the same switch, and
\* those of the switches linked to one of them.
LanPorts(i) ==
  LET near(k) == {j \in L2Intfs : Owner[j] = Owner[k] \/ Linked(k, j)}
      ports[n \in Nat] == IF n = 0 THEN {i} ELSE UNION {near(k) : k \in ports[n - 1]}
  IN ports[Cardinality(L2Intfs)]

\* find_l3_endpoint on the LAN of port i.
L3Endpoints(i, addr) ==
  {j \in DOMAIN IntfAddr : IntfAddr[j] = addr /\ \E k \in LanPorts(i) : Linked(k, j)}

\* get_ipnh: the node behind an egress interface, on a LAN the one with the
\* address.
GetIpnh ==
  [intf \in Intfs |-> [addr \in Addrs |->
     LET ends == UNION {IF j \in L2Intfs THEN L3Endpoints(j, addr) ELSE {j} :
                        j \in Peers(intf)}
     IN IF ends = {} THEN NoNode ELSE Owner[CHOOSE j \in ends : TRUE]]]

-----------------------------------------------------------------------------
(* Routes                                                                  *)

Static(network, nextHop) ==
  [network |-> network, nextHop |-> nextHop, intf |-> NoIntf, dist |-> 1]

Connected(network, intf) ==
  [network |-> network, nextHop |-> NoAddr, intf |-> intf, dist |-> 0]

\* parse_openflow_update: a route to an interface, with the default distance.
OpenFlowUpdate(network, outport) ==
  [network |-> network, nextHop |-> NoAddr, intf |-> outport, dist |-> 255]

OpenFlowUpdates == {OpenFlowUpdate(p, i) : p \in Networks, i \in Intfs}

SameNetwork(rib, route) == {r \in rib : r.network = route.network}

\* insert: a lower administrative distance replaces, a higher one is ignored,
\* and with an equal one the routes are alternatives.
InsertRoute(rib, route) ==
  IF \E r \in SameNetwork(rib, route) : r.dist < route.dist THEN rib
  ELSE {r \in rib : r.network = route.network => r.dist = route.dist} \cup {route}

\* The routes of a list put in one by one.
InsertAll(rib, routes) ==
  LET table[i \in 0 .. Len(routes)] ==
        IF i = 0 THEN rib ELSE InsertRoute(table[i - 1], routes[i])
  IN table[Len(routes)]

\* update: the route replaces those with the same network.
UpdateRoute(rib, route) == (rib \ SameNetwork(rib, route)) \cup {route}

\* lookup: the routes with the longest matching network.
Lookup(rib, addr) ==
  LET matching == {r \in rib : addr \in NetworkAddrs[r.network]}
  IN {r \in matching :
        \A q \in matching : NetworkLen[q.network] <= NetworkLen[r.network]}

\* looked_up_ips: the destination, the next hops of its routes that are not
\* connected, those of theirs, and so on, each looked up once.
LookedUp(rib, dst) ==
  LET via(a) == {r.nextHop : r \in {r \in Lookup(rib, a) : r.intf = NoIntf}}
      closed[i \in 0 .. Cardinality(Addrs)] ==
        IF i = 0 THEN {dst} ELSE UNION {{a} \cup via(a) : a \in closed[i - 1]}
  IN closed[Cardinality(Addrs)]

\* get_ipnhs: what the connected routes of these addresses lead to, the node
\* itself if the address is its own.
GetIpnhs(n, rib, dst) ==
  Nodes \cap
  UNION {{IF HasIp(n, a) THEN n ELSE GetIpnh[r.intf][a] :
            r \in {r \in Lookup(rib, a) : r.intf # NoIntf}} :
         a \in LookedUp(rib, dst)}
=============================================================================
