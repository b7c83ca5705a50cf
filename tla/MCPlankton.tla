----------------------------- MODULE MCPlankton -----------------------------
(* A client s, a router r and a middlebox m on the LAN of a switch w; r       *)
(* reaches server d1 over router q or over m, and d2 only over m.  m owns a  *)
(* virtual address, for which it answers itself or which it translates to    *)
(* that of a server.  The first of two OpenFlow updates of r takes flows to  *)
(* d1 off the path over m, the second sends those to the virtual address     *)
(* over q and d1.                                                            *)
EXTENDS Plankton

MCNodes == {"s", "r", "q", "m", "w", "d1", "d2"}
MCEmulated == {"m"}

\* Interfaces by owner and peer, those of w without an address.
MCLinks ==
  {<<"s-w", "w-s">>, <<"r-w", "w-r">>, <<"m-w", "w-m">>, <<"r-q", "q-r">>,
   <<"q-d1", "d1-q">>, <<"m-d1", "d1-m">>, <<"m-d2", "d2-m">>}

MCIntfs == {l[1] : l \in MCLinks} \cup {l[2] : l \in MCLinks}
MCOwner == [i \in MCIntfs |->
  CASE i = "s-w" -> "s"                           [] i \in {"r-w", "r-q"} -> "r"
    [] i \in {"q-r", "q-d1"} -> "q"               [] i \in {"m-w", "m-d1", "m-d2"} -> "m"
    [] i \in {"d1-q", "d1-m"} -> "d1"             [] i = "d2-m" -> "d2"
    [] OTHER -> "w"]

\* es, e1, e2: addresses of s, d1, d2; ev: the virtual address of m; ex: one
\* that m sends to on the LAN, where nobody has it.
MCEcs == {"es", "ev", "e1", "e2", "ex"}
MCIntfAddr ==
  [i \in MCIntfs \ {"w-s", "w-r", "w-m"} |->
     CASE i = "s-w" -> "es" [] i = "d1-q" -> "e1" [] i = "d2-m" -> "e2" [] OTHER -> i]
MCAddrs == MCEcs \cup {MCIntfAddr[i] : i \in DOMAIN MCIntfAddr}
MCEcOf == [n \in MCNodes |-> CASE n = "d1" -> "e1" [] n = "d2" -> "e2" [] OTHER -> "es"]

MCNetworkAddrs ==
  [default |-> MCAddrs, ns |-> {"es", "r-w", "m-w"}, nrq |-> {"r-q", "q-r"},
   n1 |-> {"e1", "q-d1"}, nmd |-> {"m-d1", "d1-m"}, n2 |-> {"e2", "m-d2"},
   nv |-> {"ev"}]
MCNetworks == DOMAIN MCNetworkAddrs
MCNetworkLen == [n \in MCNetworks |-> IF n = "default" THEN 0 ELSE 24]
MCIntfNetwork ==
  [i \in DOMAIN MCIntfAddr |->
     CHOOSE n \in MCNetworks \ {"default"} : MCIntfAddr[i] \in MCNetworkAddrs[n]]

MCStaticRoutes ==
  [n \in MCNodes |->
     CASE n = "s"  -> <<Static("default", "r-w")>>
       [] n = "r"  -> <<Static("nv", "m-w"), Static("n2", "m-w"),
                        Static("n1", "q-r"), Static("n1", "m-w")>>
       [] n = "q"  -> <<Static("default", "r-q"), Static("nv", "e1")>>
       [] n = "d1" -> <<Static("default", "m-d1")>>
       [] n = "d2" -> <<Static("default", "m-d2")>>
       [] OTHER    -> <<>>]

MCUpdates ==
  [n \in MCNodes |-> IF n = "r" THEN <<OpenFlowUpdate("n1", "r-q"), OpenFlowUpdate("nv", "r-q")>>
                     ELSE <<>>]

MCMbIntf == [m \in MCEmulated |-> [e \in MCEcs |->
  CASE e = "e1" -> "m-d1" [] e = "e2" -> "m-d2" [] OTHER -> "m-w"]]

\* m forwards the flow of client port 1 as it is, and translates the virtual
\* address in that of port 2; it is itself the server of port 3, and has no next
\* hop for what it makes of port 4.
Rewrite(src, dst, ports, to) == [from |-> <<src, dst, ports>>, to |-> to]

MCRewrites ==
  {Rewrite("es", "ev", <<4, 80>>, <<"es", "ex">>)} \cup
  UNION {{Rewrite("es", d, <<1, 80>>, <<"es", d>>),
          Rewrite(d, "es", <<80, 1>>, <<d, "es">>),
          Rewrite("es", "ev", <<2, 80>>, <<"es", d>>),
          Rewrite(d, "es", <<80, 2>>, <<"ev", "es">>)} : d \in {"e1", "e2"}}

Conn(protocol, dst, port) ==
  [protocol |-> protocol, src |-> "s", dst |-> dst, ports |-> <<port, 80>>]

Inv(kind, targets, expected, conns) ==
  [kind |-> kind, targets |-> targets, expected |-> expected, conns |-> conns]

\* Both ends of a translated TCP connection start its termination, and the packets
\* then forwarded fit no protocol state: not followed to its end.
Translated == <<Conn("tcp", "ev", 2)>>

\* Single connections: all protocols past m, and to m as a server or translator.
SingleConns ==
  {<<Conn(p, "e1", 1)>> : p \in {"tcp", "udp", "icmp_echo"}} \cup
  {<<Conn(p, "ev", port)>> : p \in {"tcp", "udp"}, port \in {2, 3}}

\* A loop invariant where no packet can loop.
MCLoopQueries == {Inv("loop", {}, TRUE, conns) : conns \in SingleConns}

Concurrent ==
  {<<Conn("udp", "e1", 1), Conn("udp", "ev", 2)>>,
   <<Conn("tcp", "ev", 3), Conn("udp", "e2", 1)>>}

\* Parts whose results depend on path choices, updates and what m does, one of
\* which starts a second connection.
Parts ==
  {Inv("reachability", {"d1"}, TRUE, <<Conn("udp", "e1", 1)>>),
   Inv("waypoint", {"m"}, FALSE, <<Conn("udp", "e1", 1)>>),
   Inv("reply_reachability", {"d1", "d2"}, TRUE, <<Conn("udp", "ev", 2)>>)}

MCQueries ==
  {Inv(k, t, e, conns) :
     k \in {"reachability", "reply_reachability"}, t \in {{"d1"}, {"m", "d2"}},
     e \in BOOLEAN, conns \in SingleConns} \cup
  {Inv("waypoint", {n}, TRUE, conns) :
     n \in {"m", "d2"}, conns \in SingleConns \ {Translated}} \cup
  MCLoopQueries \cup
  {Inv(i[1], {"d1", "d2"}, i[2], conns) :
     i \in {<<"one_request", TRUE>>, <<"loadbalance", 1>>}, conns \in Concurrent} \cup
  {[kind |-> kind, parts |-> <<a, b>>] :
     kind \in {"conditional", "consistency"}, a \in Parts, b \in Parts}

\* A middlebox sends on a packet for which it has no next hop.
MCUnroutedQueries == {Inv("reachability", {"d1"}, TRUE, <<Conn("udp", "ev", 4)>>)}

\* The updates of r are such that both ways of building its table agree.
ASSUME MCUpdatesTakeEffect == UpdatesTakeEffect
=============================================================================
