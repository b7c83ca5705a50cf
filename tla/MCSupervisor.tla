---------------------------- MODULE MCSupervisor ----------------------------
(* Addresses of three bits.  Configurations without invariants add three    *)
(* prefixes or owned addresses, in any order; those with one have two       *)
(* classes to verify, or two combinations of concurrent or correlated       *)
(* connections.                                                             *)
EXTENDS Supervisor

Prefix(lb, n) == [lb |-> lb, ub |-> lb + n - 1]
Adds == {[range |-> r, owned |-> FALSE] :
           r \in {Prefix(0, 8), Prefix(0, 4), Prefix(4, 4), Prefix(2, 2), Prefix(6, 2),
                  Prefix(3, 1)}}
          \union {[range |-> Prefix(a, 1), owned |-> TRUE] : a \in {0, 3, 7}}

NoInvariant == [correlated |-> FALSE, specs |-> <<>>]

\* TCP to the owned addresses of a prefix, at any port, and ICMP to all of it.
Tcp(srcs, dst) == [src_nodes |-> srcs, dst_ip |-> dst, owned_dst_only |-> TRUE,
                   protocol |-> "tcp", dst_ports |-> {}]
Ping(srcs, dst) == [Tcp(srcs, dst) EXCEPT !.protocol = "icmp",
                                          !.owned_dst_only = FALSE]

Network == << [range |-> Prefix(1, 1), owned |-> TRUE],
              [range |-> Prefix(0, 4), owned |-> FALSE],
              [range |-> Prefix(2, 2), owned |-> FALSE] >>

With(correlated, specs, all_ecs, max_jobs) ==
  [adds |-> Network, ports |-> {80, 99},
   inv |-> [correlated |-> correlated, specs |-> specs],
   all_ecs |-> all_ecs, max_jobs |-> max_jobs, invs |-> 0, parallel |-> FALSE]

MCConfigs ==
  {[adds |-> s, ports |-> {}, inv |-> NoInvariant, all_ecs |-> FALSE, max_jobs |-> 1,
    invs |-> 0, parallel |-> FALSE] : s \in [1 .. 3 -> Adds]}
    \union
  {[adds |-> <<>>, ports |-> {}, inv |-> NoInvariant, all_ecs |-> FALSE, max_jobs |-> 2,
    invs |-> 3, parallel |-> parallel] : parallel \in BOOLEAN}
    \union
  {With(FALSE, <<Tcp({"a"}, Prefix(0, 4))>>, all_ecs, n) :
     all_ecs \in BOOLEAN, n \in 1 .. 2}
    \union
  {With(FALSE, <<Ping({"a"}, Prefix(0, 4))>>, FALSE, 2),
   With(FALSE, <<[Ping({"a", "b"}, Prefix(2, 1)) EXCEPT !.protocol = "udp",
                                                       !.dst_ports = {80}],
                 Ping({"a"}, Prefix(0, 2))>>, TRUE, 1),
   With(TRUE, <<Ping({"a", "b"}, Prefix(2, 2)), Ping({"a"}, Prefix(4, 2))>>,
        FALSE, 1)}

MCCorrelatedConfigs == {c \in MCConfigs : c.inv.correlated}
=============================================================================
