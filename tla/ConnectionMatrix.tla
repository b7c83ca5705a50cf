-------------------------- MODULE ConnectionMatrix --------------------------
(***************************************************************************)
(* The connections an invariant is verified for: ConnSpec turns each       *)
(* specification into a set of connections, ConnectionMatrix goes through  *)
(* the Cartesian product of such sets, and Invariant::set_conns has either *)
(* one matrix of all specifications or, with correlated invariants, one    *)
(* matrix for each of them.  std::set iterates in an order of its own,     *)
(* which is that of SetToSeq here.                                         *)
(***************************************************************************)
EXTENDS EqClassMgr

\* ConnSpec::compute_connections.  ICMP has no ports: port 0.
ComputeConnections(mgr, spec) ==
  LET dst_ports == IF spec.dst_ports # {} THEN spec.dst_ports
                   ELSE IF spec.protocol = "icmp" THEN {0} ELSE mgr.ports
  IN [src : spec.src_nodes, port : dst_ports,
      ec : GetOverlappedEcs(mgr, spec.dst_ip, spec.owned_dst_only)]

\* A matrix: the sets in the order they were added, the iterators, and
\* whether the product was traversed.
Matrix(connSets) ==
  [product |-> [i \in DOMAIN connSets |-> SetToSeq(connSets[i])],
   itrs |-> [i \in DOMAIN connSets |-> 1],
   traversed_all |-> FALSE]

\* ConnectionMatrix::num_conns
NumConns(matrix) ==
  LET num[k \in 0 .. Len(matrix.product)] ==
        IF k = 0 THEN 1 ELSE num[k - 1] * Len(matrix.product[k])
  IN num[Len(matrix.product)]

\* ConnectionMatrix::reset
ResetMatrix(matrix) ==
  [matrix EXCEPT !.itrs = [i \in DOMAIN @ |-> 1], !.traversed_all = FALSE]

\* What get_next_conns returns: nothing once the product was traversed.
NextConns(matrix) ==
  IF matrix.traversed_all THEN <<>>
  ELSE [i \in DOMAIN matrix.itrs |-> matrix.product[i][matrix.itrs[i]]]

\* Mutant: the iterator that is advanced leaves those before it at the end.
AdvancedNoCarry(matrix) ==
  LET n == Len(matrix.product)
      ahead == {i \in 1 .. n : matrix.itrs[i] < Len(matrix.product[i])}
  IN IF ahead = {} THEN [matrix EXCEPT !.traversed_all = TRUE]
     ELSE [matrix EXCEPT !.itrs[Min(ahead)] = @ + 1]

\* Mutant: an iterator may be left at the end of its set.
AdvancedToEnd(matrix) ==
  LET n == Len(matrix.product)
      ahead == {i \in 1 .. n : matrix.itrs[i] <= Len(matrix.product[i])}
  IN IF ahead = {} THEN [matrix EXCEPT !.traversed_all = TRUE]
     ELSE [matrix EXCEPT !.itrs[Min(ahead)] = @ + 1]

\* How get_next_conns advances the iterators, the first one fastest.
Advanced(matrix) ==
  LET n == Len(matrix.product)
      ahead == {i \in 1 .. n : matrix.itrs[i] < Len(matrix.product[i])}
      i0 == IF ahead = {} THEN n + 1 ELSE Min(ahead)
  IN IF matrix.traversed_all THEN matrix
     ELSE [matrix EXCEPT
             !.itrs = [i \in DOMAIN @ |-> IF i < i0 THEN 1
                                          ELSE IF i = i0 THEN @[i] + 1 ELSE @[i]],
             !.traversed_all = i0 = n + 1]

\* Invariant::compute_conn_matrix.  The ranges of all specifications split the
\* classes before any connection is computed.
EcsOf(mgr, inv) ==
  LET ecs[k \in 0 .. Len(inv.specs)] ==
        IF k = 0 THEN mgr ELSE AddEc(ecs[k - 1], inv.specs[k].dst_ip, FALSE)
  IN ecs[Len(inv.specs)]

MatricesOf(mgr, inv) ==
  LET connSets == [i \in DOMAIN inv.specs |-> ComputeConnections(mgr, inv.specs[i])]
  IN IF inv.correlated THEN [i \in DOMAIN connSets |-> Matrix(<<connSets[i]>>)]
     ELSE <<Matrix(connSets)>>

\* Invariant::set_conns on the _conns of each matrix.  Correlated invariants
\* are advanced like an odometer: one whose matrix is exhausted is reset, left
\* without connections, and carries to the next one.
SetConns(correlated, matrices, conns) ==
  LET n == Len(matrices)
      some == {i \in 1 .. n : NextConns(matrices[i]) # <<>>}
      i0 == IF some = {} THEN n + 1 ELSE Min(some)
  IN [found |-> some # {},
      matrices |-> [i \in 1 .. n |->
        IF i < i0 /\ correlated THEN ResetMatrix(matrices[i])
        ELSE IF i = i0 THEN Advanced(matrices[i]) ELSE matrices[i]],
      conns |-> [i \in 1 .. n |->
        IF i < i0 THEN <<>>
        ELSE IF i = i0 THEN NextConns(matrices[i]) ELSE conns[i]]]
=============================================================================
