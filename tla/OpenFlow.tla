------------------------------ MODULE OpenFlow ------------------------------
(***************************************************************************)
(* OpenflowProcess: installing the updates of a node while a packet is     *)
(* there.  Each node has its updates in order; the state counts those      *)
(* installed, for all connections, but only the FIB of the current         *)
(* connection is changed at once.                                          *)
(***************************************************************************)
EXTENDS ModelState

HasUpdates(s, n) == s.installed[n] < Len(Updates[n])

\* The table install_update computes the next hops from: the first k updates
\* inserted, the next one put in place of the routes with its prefix.
Inserted(n, k, ec) == TableWith(InsertRoute, n, k, ec)

UpdatedRib(n, k, ec) == UpdateRoute(Inserted(n, k, ec), Updates[n][k + 1])

UpdatedHops ==
  [n \in Nodes |-> [k \in 0 .. Len(Updates[n]) - 1 |-> [ec \in Ecs |->
     GetIpnhs(n, UpdatedRib(n, k, ec), ec)]]]

\* install_update: choice 0 goes on forwarding, choice 1 installs one update.
OpenFlowStep(s, choice) ==
  IF choice = 0 THEN [s EXCEPT !.choiceCount = 1]
  ELSE LET n == Cur(s).loc
           t == [s EXCEPT !.installed[n] = @ + 1]
       IN [t EXCEPT
             !.choiceCount = IF HasUpdates(t, n) THEN 2 ELSE 1,
             !.conns[s.conn].fib[n] = UpdatedHops[n][s.installed[n]][Cur(s).dst]]

Update(n, j) == Updates[n][j]

\* The update is the only route of the node to its network.
Fresh(n, j) ==
  /\ SameNetwork(Rib[n], Update(n, j)) = {}
  /\ \A k \in 1 .. Len(Updates[n]) : Update(n, k).network = Update(n, j).network => k = j

\* What makes the table install_update uses and that of get_installed_updates, which
\* replaces where the former inserts, give the same next hops: each update replaces
\* routes of the configuration that have less distance, or is the only route to its
\* network; it leads to a node; and the configuration has no next hop in its network.
UpdatesTakeEffect ==
  \A n \in Nodes : \A j \in 1 .. Len(Updates[n]) :
    LET u == Update(n, j)
    IN /\ Fresh(n, j) \/ \E r \in SameNetwork(Rib[n], u) : r.dist < u.dist
       /\ \A ec \in Ecs \cap NetworkAddrs[u.network] :
            HasIp(n, ec) \/ GetIpnh[u.intf][ec] # NoNode
       /\ \A r \in Rib[n] : r.intf = NoIntf => r.nextHop \notin NetworkAddrs[u.network]
=============================================================================
