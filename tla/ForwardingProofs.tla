--------------------------- MODULE ForwardingProofs -------------------------
(***************************************************************************)
(* Lemmas about the handlers of the state vector: the types of what they   *)
(* read and write, the states a step of a process starts from (Ready) and  *)
(* those it leaves (Stepped), and that each phase of forwarding, each      *)
(* injection and what packet inference makes of its answers lead from the  *)
(* one to the other, for any network, routes and middleboxes; at last what *)
(* OpenFlow updates make of a node's table, and when the next hops they    *)
(* lead to are the same however the table was built.                       *)
(***************************************************************************)
EXTENDS Plankton, Induction, FiniteSetTheorems

-----------------------------------------------------------------------------
(* Types                                                                   *)

Protocols == {"tcp", "udp", "icmp_echo"}
Ports == Nat \X Nat
SeqNums == Nat
Fibs == [Nodes -> SUBSET Nodes]
TcpFlags == {"syn", "synack", "ack", "fin"}

\* The packets a middlebox may send.
PacketRecs ==
  [protocol : Protocols, flags : TcpFlags \cup {"udp", "request", "reply"},
   src : Ecs, dst : Ecs, ports : Ports, seq : SeqNums, ack : SeqNums,
   payload : Nat, intf : Intfs]

Packets ==
  {p \in PacketRecs :
     /\ p.protocol = "tcp" => p.flags \in TcpFlags
     /\ \E m \in Emulated : p.intf = MbIntf[m][p.dst]}

Results == [pkts : Seq(Packets), dropped : BOOLEAN]

AnyEc == Ecs \cup {NoEc}
AnyNode == Nodes \cup {NoNode}

\* The memory of a connection, whether it exists or not.
ConnRecs ==
  [executable : 0 .. 2, proto : 0 .. 14, src : AnyEc, dst : AnyEc, ports : Ports,
   seq : SeqNums, ack : SeqNums, payload : Nat, srcNode : AnyNode, txNode : AnyNode,
   rxNode : AnyNode, mode : Modes, loc : AnyNode, candidates : Seq(Nodes),
   results : Seq(Results), fib : Fibs,
   choices : SUBSET [ec : Ecs, node : Nodes, hop : Nodes],
   visited : SUBSET (AnyEc \X Nat \X AnyNode)]

States ==
  [conns : [Conns -> ConnRecs], conn : Conns, numConns : 0 .. MaxConns,
   process : {"choose_conn", "forwarding", "openflow"}, choiceCount : Nat,
   installed : [Nodes -> Nat], violated : BOOLEAN, idx : Nat,
   reachCounts : [Nodes -> Nat], failed : BOOLEAN]

-----------------------------------------------------------------------------
(* Tables                                                                  *)

LEMMA IpnhType ==
  ASSUME NEW i \in Intfs, NEW a \in Addrs
  PROVE  GetIpnh[i][a] \in AnyNode
<1> DEFINE ends == UNION {IF j \in L2Intfs THEN L3Endpoints(j, a) ELSE {j} : j \in Peers(i)}
<1>1. \A j : L3Endpoints(j, a) \subseteq Intfs
  BY RoutingTableAssumption DEF L3Endpoints
<1>2. Peers(i) \subseteq Intfs
  BY DEF Peers
<1>3. ends \subseteq Intfs
  BY <1>1, <1>2
<1>4. GetIpnh[i][a] = IF ends = {} THEN NoNode ELSE Owner[CHOOSE j \in ends : TRUE]
  <2>1. i \in Intfs /\ a \in Addrs
    OBVIOUS
  <2> QED
    BY <2>1, Zenon DEF GetIpnh
<1> HIDE DEF ends
<1> QED
  BY <1>3, <1>4, RoutingTableAssumption DEF AnyNode

LEMMA HopsType ==
  ASSUME NEW n \in Nodes, NEW k \in 0 .. Len(Updates[n]), NEW ec \in Ecs
  PROVE  HopsWith(n, k, ec) \in SUBSET Nodes
<1>1. \A rib : GetIpnhs(n, rib, ec) \subseteq Nodes
  BY DEF GetIpnhs
<1>2. InstalledHops[n][k][ec] \subseteq Nodes
  BY <1>1 DEF InstalledHops
<1>3. RibHops[n][ec] \subseteq Nodes
  BY <1>1 DEF RibHops
<1> QED
  BY <1>2, <1>3 DEF HopsWith

LEMMA UpdatedHopsType ==
  ASSUME NEW n \in Nodes, NEW k \in 0 .. Len(Updates[n]) - 1, NEW ec \in Ecs
  PROVE  UpdatedHops[n][k][ec] \in SUBSET Nodes
<1>1. \A rib : GetIpnhs(n, rib, ec) \subseteq Nodes
  BY DEF GetIpnhs
<1> QED
  BY <1>1 DEF UpdatedHops

\* What of a state's tables has been installed is a prefix of the updates.
InstalledOK(s) == \A n \in Nodes : s.installed[n] \in 0 .. Len(Updates[n])

LEMMA FibType ==
  ASSUME NEW s, InstalledOK(s), NEW ec \in Ecs
  PROVE  FibFor(s, ec) \in Fibs
BY HopsType DEF InstalledOK, FibFor, Fibs

\* A set as a sequence of all its elements.
LEMMA SetToSeqFacts ==
  ASSUME NEW S, IsFiniteSet(S)
  PROVE  /\ SetToSeq(S) \in Seq(S)
         /\ SetToSeq(S) = <<>> <=> S = {}
<1> DEFINE n == Cardinality(S)
<1>1. n \in Nat /\ \E f \in [1 .. n -> S] : IsInjective(f)
  BY FS_CardinalityType DEF ExistsBijection, Bijection, Injection
<1>2. SetToSeq(S) \in [1 .. n -> S]
  BY <1>1 DEF SetToSeq
<1>3. n = 0 <=> S = {}
  BY FS_EmptySet
<1> HIDE DEF n
<1>4. SetToSeq(S) \in Seq(S) /\ Len(SetToSeq(S)) = n
  BY <1>1, <1>2
<1> QED
  BY <1>1, <1>2, <1>3, <1>4

-----------------------------------------------------------------------------
(* The inductive invariant                                                 *)

\* Every middlebox has a next hop for what it sends.
Routed == \A m \in Emulated, e \in Ecs : GetIpnh[MbIntf[m][e]][e] # NoNode

Outbound(c) == c.mode \in {"FIRST_FORWARD", "FORWARD_PACKET"}

\* A connection that exists: it has no source address only until its first packet
\* has left, packets start outside the middleboxes, and what goes on has a next hop.
Sound(c) ==
  /\ c.proto \in ProtoStates /\ c.dst \in Ecs
  /\ {c.srcNode, c.txNode, c.loc} \subseteq Nodes
  /\ c.src \in Ecs \/ (IsFirst(c.proto) /\ c.mode \in {"FIRST_COLLECT", "FIRST_FORWARD", "DROPPED"})
  /\ c.mode = "FIRST_COLLECT" => c.loc \notin Emulated
  /\ c.executable = 1 => c.mode = "COLLECT_NHOPS"
  /\ c.mode = "CHOOSE_INJ_RES" => c.results # <<>>
  /\ Routed /\ c.executable = 2 /\ Outbound(c) => c.candidates # <<>>

Sane(s) ==
  /\ s \in States
  /\ s.numConns \in Conns /\ s.conn \in 1 .. s.numConns
  /\ InstalledOK(s)
  /\ \A i \in 1 .. s.numConns : Sound(s.conns[i])

\* The packet is before an injection.
AtMb(c) == c.mode = "COLLECT_NHOPS" /\ c.loc \in Emulated

\* A connection that is not in the middle of an injection.
Settled(c) == c.mode # "CHOOSE_INJ_RES" /\ ~(AtMb(c) /\ c.executable = 2)

OthersSettled(s) == \A i \in 1 .. s.numConns : i # s.conn => Settled(s.conns[i])

\* No other connection has a packet on its way outside the middleboxes.
Quiet(s) == \A i \in 1 .. s.numConns : i # s.conn => s.conns[i].executable # 2

\* What the current connection can choose from in forwarding.
Offered(c) ==
  IF Outbound(c) THEN Len(c.candidates)
  ELSE IF c.mode = "CHOOSE_INJ_RES" THEN Len(c.results) ELSE 1

\* A state for the next step: what each process needs of it.
ReadyFor(s) ==
  \/ /\ s.process = "choose_conn"
     /\ Cur(s).executable # 2 /\ Settled(Cur(s))
     /\ s.choiceCount = UpdateChoiceCount(s).choiceCount
  \/ /\ s.process = "openflow"
     /\ Cur(s).executable = 2 /\ Cur(s).mode \in {"FIRST_COLLECT", "COLLECT_NHOPS"}
     /\ Cur(s).loc \notin Emulated
     /\ s.choiceCount = 2 /\ HasUpdates(s, Cur(s).loc)
  \/ /\ s.process = "forwarding"
     /\ Cur(s).executable = 2 \/ Cur(s).mode = "ACCEPTED"
     /\ s.choiceCount = Offered(Cur(s))
     /\ AtMb(Cur(s)) => Quiet(s)

Ready(s) == OthersSettled(s) /\ ReadyFor(s) /\ ~s.failed

\* A state as a process leaves it.
Left(s) ==
  /\ OthersSettled(s) /\ ~s.failed
  /\ Cur(s).executable # 2 => Settled(Cur(s))
  /\ Cur(s).executable = 2 /\ s.process = "choose_conn" =>
       /\ s.choiceCount = Offered(Cur(s))
       /\ Cur(s).mode # "CHOOSE_INJ_RES" /\ (AtMb(Cur(s)) => Quiet(s))
  /\ Cur(s).executable = 2 /\ s.process = "forwarding" =>
       s.choiceCount = Offered(Cur(s)) /\ ~AtMb(Cur(s))
  /\ s.process = "openflow" =>
       /\ Cur(s).executable = 2 /\ Cur(s).mode \in {"FIRST_COLLECT", "COLLECT_NHOPS"}
       /\ Cur(s).loc \notin Emulated
       /\ \/ s.choiceCount = 1
          \/ s.choiceCount = 2 /\ HasUpdates(s, Cur(s).loc)

\* A step leaves alone what is the invariant's.
Keeps(s, t) ==
  /\ t.idx = s.idx /\ t.violated = s.violated /\ t.reachCounts = s.reachCounts
  /\ \A i \in Conns : t.conns[i].visited = s.conns[i].visited

-----------------------------------------------------------------------------
(* States that differ in the current connection                            *)

LEMMA CurType ==
  ASSUME NEW s, Sane(s)
  PROVE  /\ s \in States /\ s.conn \in Conns /\ Cur(s) \in ConnRecs /\ Sound(Cur(s))
         /\ \A i \in 1 .. s.numConns : i \in Conns /\ s.conns[i] \in ConnRecs
<1>1. s \in States /\ s.numConns \in Conns /\ s.conn \in 1 .. s.numConns
  BY DEF Sane
<1>2. \A i \in 1 .. s.numConns : i \in Conns
  BY <1>1, ModelStateAssumption DEF Conns
<1>3. s.conns \in [Conns -> ConnRecs]
  BY <1>1 DEF States
<1> QED
  BY <1>1, <1>2, <1>3 DEF Sane, Cur

\* t is s but for the choices and the current connection, which is c; the hops its
\* packet has visited are the same.
Changed(s, t, c) ==
  /\ t \in States
  /\ t.conn = s.conn /\ t.numConns = s.numConns
  /\ t.process = s.process /\ t.installed = s.installed /\ t.failed = s.failed
  /\ Keeps(s, t)
  /\ Cur(t) = c
  /\ \A i \in 1 .. s.numConns : i # s.conn => t.conns[i] = s.conns[i]

LEMMA SetCurChanged ==
  ASSUME NEW s \in States, NEW c \in ConnRecs, c.visited = Cur(s).visited
  PROVE  Changed(s, SetCur(s, c), c) /\ SetCur(s, c).choiceCount = s.choiceCount
<1> DEFINE t == SetCur(s, c)
<1>1. s.conns \in [Conns -> ConnRecs] /\ s.conn \in Conns
  BY DEF States
<1>2. /\ t \in States
      /\ t.conn = s.conn /\ t.numConns = s.numConns /\ t.process = s.process
      /\ t.installed = s.installed /\ t.failed = s.failed /\ t.idx = s.idx
      /\ t.violated = s.violated /\ t.reachCounts = s.reachCounts
      /\ t.choiceCount = s.choiceCount
  BY <1>1 DEF States, SetCur
<1>3. t.conns = [s.conns EXCEPT ![s.conn] = c]
  BY <1>1 DEF States, SetCur
<1>4. Cur(t) = c
  BY <1>1, <1>2, <1>3 DEF Cur
<1>5. \A i : i # s.conn => t.conns[i] = s.conns[i] \/ i \notin Conns
  BY <1>1, <1>3
<1>6. \A i \in Conns : t.conns[i].visited = s.conns[i].visited
  BY <1>1, <1>3, <1>5 DEF Cur
<1>7. \A i \in 1 .. s.numConns : i # s.conn => t.conns[i] = s.conns[i]
  BY <1>1, <1>3
<1>8. Changed(s, t, c)
  <2> HIDE DEF t
  <2> QED
    BY <1>2, <1>4, <1>6, <1>7 DEF Changed, Keeps
<1> QED
  BY <1>2, <1>8

LEMMA ChoiceChanged ==
  ASSUME NEW s \in States, NEW n \in Nat
  PROVE  /\ Changed(s, [s EXCEPT !.choiceCount = n], Cur(s))
         /\ [s EXCEPT !.choiceCount = n].choiceCount = n
<1> DEFINE t == [s EXCEPT !.choiceCount = n]
<1>1. /\ t \in States
      /\ t.conn = s.conn /\ t.numConns = s.numConns /\ t.process = s.process
      /\ t.installed = s.installed /\ t.failed = s.failed /\ t.idx = s.idx
      /\ t.violated = s.violated /\ t.reachCounts = s.reachCounts
      /\ t.choiceCount = n /\ t.conns = s.conns
  BY DEF States
<1>2. Changed(s, t, Cur(s))
  <2> HIDE DEF t
  <2> QED
    BY <1>1 DEF Changed, Keeps, Cur
<1> QED
  BY <1>1, <1>2

LEMMA ChangedTwice ==
  ASSUME NEW s, NEW t, NEW u, NEW c, NEW d, Changed(s, t, c), Changed(t, u, d)
  PROVE  Changed(s, u, d)
BY DEF Changed, Keeps

\* Both at once, as most handlers do.
LEMMA SetBothChanged ==
  ASSUME NEW s \in States, NEW c \in ConnRecs, c.visited = Cur(s).visited, NEW n \in Nat
  PROVE  /\ Changed(s, [SetCur(s, c) EXCEPT !.choiceCount = n], c)
         /\ [SetCur(s, c) EXCEPT !.choiceCount = n].choiceCount = n
<1>1. Changed(s, SetCur(s, c), c)
  BY SetCurChanged
<1>2. SetCur(s, c) \in States /\ Cur(SetCur(s, c)) = c
  BY <1>1 DEF Changed
<1>3. /\ Changed(SetCur(s, c), [SetCur(s, c) EXCEPT !.choiceCount = n], c)
      /\ [SetCur(s, c) EXCEPT !.choiceCount = n].choiceCount = n
  BY <1>2, ChoiceChanged
<1> QED
  BY <1>1, <1>3, ChangedTwice

LEMMA ChangedSane ==
  ASSUME NEW s, Sane(s), NEW t, NEW c, Changed(s, t, c), Sound(c)
  PROVE  Sane(t)
<1>1. \A i \in 1 .. t.numConns : Sound(t.conns[i])
  BY DEF Changed, Sane, Cur
<1> QED
  BY <1>1 DEF Changed, Sane, InstalledOK

\* What a step of a process promises of the state it makes of s.
Stepped(s, t) ==
  /\ Sane(t) /\ t.process = s.process /\ Keeps(s, t)
  /\ IF t.failed THEN t.choiceCount = 0 ELSE Left(t)

LEMMA ForwardingLeft ==
  ASSUME NEW s, Sane(s), OthersSettled(s), ~s.failed, s.process = "forwarding",
         NEW t, NEW c, Changed(s, t, c), Sound(c),
         c.executable # 2 => Settled(c),
         c.executable = 2 => t.choiceCount = Offered(c) /\ ~AtMb(c)
  PROVE  Stepped(s, t)
<1>1. Sane(t)
  BY ChangedSane
<1>2. t.process = "forwarding"
  BY DEF Changed, Keeps
<1>3. OthersSettled(t)
  BY DEF Changed, OthersSettled
<1>4. Left(t)
  BY <1>2, <1>3 DEF Changed, Left
<1> QED
  BY <1>1, <1>4 DEF Changed, Stepped, Left

LEMMA FailStepped ==
  ASSUME NEW s, Sane(s)
  PROVE  Stepped(s, Fail(s)) /\ Fail(s).failed
<1> DEFINE t == Fail(s)
<1>1. s \in States
  BY DEF Sane
<1>2. /\ t \in States
      /\ t.conn = s.conn /\ t.numConns = s.numConns /\ t.process = s.process
      /\ t.installed = s.installed /\ t.failed = TRUE /\ t.idx = s.idx
      /\ t.violated = s.violated /\ t.reachCounts = s.reachCounts
      /\ t.choiceCount = 0 /\ t.conns = s.conns
  BY <1>1 DEF States, Fail
<1>3. Sane(t) /\ Stepped(s, t)
  <2> HIDE DEF t
  <2>1. Sane(t)
    BY <1>2 DEF Sane, InstalledOK
  <2> QED
    BY <1>2, <2>1 DEF Stepped, Keeps
<1> QED
  BY <1>2, <1>3
-----------------------------------------------------------------------------
(* Forwarding: collecting next hops                                        *)

LEMMA ModesType ==
  /\ "FIRST_COLLECT" \in Modes /\ "FIRST_FORWARD" \in Modes /\ "COLLECT_NHOPS" \in Modes
  /\ "CHOOSE_INJ_RES" \in Modes /\ "FORWARD_PACKET" \in Modes
  /\ "ACCEPTED" \in Modes /\ "DROPPED" \in Modes
BY DEF Modes

\* What a connection keeps when it is dropped, or its packet moves to a next hop.
SameFlow(c, d) ==
  /\ d.proto = c.proto /\ d.dst = c.dst /\ d.src = c.src
  /\ d.srcNode = c.srcNode /\ d.txNode = c.txNode /\ d.visited = c.visited

Stopped(c, m, e) == [c EXCEPT !.mode = m, !.executable = e]
Collected(c, x, m) == [c EXCEPT !.candidates = x, !.mode = m]
InMode(c, m) == [c EXCEPT !.mode = m]

LEMMA StoppedType ==
  ASSUME NEW c \in ConnRecs, NEW m \in Modes, NEW e \in 0 .. 2, NEW d, d = Stopped(c, m, e)
  PROVE  d \in ConnRecs /\ SameFlow(c, d) /\ d.mode = m /\ d.executable = e /\ d.loc = c.loc
<1>1. d \in ConnRecs
  BY DEF ConnRecs, Stopped
<1>2. SameFlow(c, d) /\ d.mode = m /\ d.executable = e /\ d.loc = c.loc
  BY DEF ConnRecs, SameFlow, Stopped
<1> QED
  BY <1>1, <1>2

LEMMA CollectedType ==
  ASSUME NEW c \in ConnRecs, NEW x \in Seq(Nodes), NEW m \in Modes,
         NEW d, d = Collected(c, x, m)
  PROVE  /\ d \in ConnRecs /\ SameFlow(c, d) /\ d.mode = m /\ d.candidates = x
         /\ d.executable = c.executable /\ d.loc = c.loc
<1>1. d \in ConnRecs
  BY DEF ConnRecs, Collected
<1>2. /\ SameFlow(c, d) /\ d.mode = m /\ d.candidates = x
      /\ d.executable = c.executable /\ d.loc = c.loc
  BY DEF ConnRecs, SameFlow, Collected
<1> QED
  BY <1>1, <1>2

LEMMA InModeType ==
  ASSUME NEW c \in ConnRecs, NEW m \in Modes, NEW d, d = InMode(c, m)
  PROVE  /\ d \in ConnRecs /\ SameFlow(c, d) /\ d.mode = m /\ d.candidates = c.candidates
         /\ d.executable = c.executable /\ d.loc = c.loc
<1>1. d \in ConnRecs
  BY DEF ConnRecs, InMode
<1>2. /\ SameFlow(c, d) /\ d.mode = m /\ d.candidates = c.candidates
      /\ d.executable = c.executable /\ d.loc = c.loc
  BY DEF ConnRecs, SameFlow, InMode
<1> QED
  BY <1>1, <1>2

LEMMA CandidatesType ==
  ASSUME NEW c \in ConnRecs, c.loc \in Nodes
  PROVE  CandidatesFor(c) \in Seq(Nodes)
<1> DEFINE hops == c.fib[c.loc]
           past == {h \in hops : \E ch \in PastChoices(c) : ch.hop = h}
           S == IF Cardinality(hops) > 1 /\ past # {} THEN past ELSE hops
<1>1. S \subseteq Nodes
  BY DEF ConnRecs, Fibs
<1>2. SetToSeq(S) \in Seq(S)
  <2> HIDE DEF S
  <2> QED
    BY <1>1, RoutingTableAssumption, FS_Subset, SetToSeqFacts
<1>3. SetToSeq(S) \in Seq(Nodes)
  <2> HIDE DEF S
  <2> QED
    BY <1>1, <1>2
<1> QED
  BY <1>3 DEF CandidatesFor

\* What a step of forwarding finds.
LEMMA ForwardingReady ==
  ASSUME NEW s, Sane(s), Ready(s), s.process = "forwarding"
  PROVE  /\ s \in States /\ Cur(s) \in ConnRecs /\ Sound(Cur(s))
         /\ OthersSettled(s) /\ ~s.failed
         /\ Cur(s).executable = 2 \/ Cur(s).mode = "ACCEPTED"
         /\ s.choiceCount = Offered(Cur(s))
         /\ AtMb(Cur(s)) => Quiet(s)
BY CurType DEF Ready, ReadyFor

LEMMA DropStepped ==
  ASSUME NEW s, Sane(s), OthersSettled(s), ~s.failed, s.process = "forwarding"
  PROVE  Stepped(s, DropCur(s))
<1> DEFINE c == Cur(s)
           d == Stopped(c, "DROPPED", 0)
<1>1. c \in ConnRecs /\ Sound(c) /\ s \in States
  BY CurType
<1>2. /\ d \in ConnRecs /\ SameFlow(c, d) /\ d.executable = 0 /\ d.mode = "DROPPED"
      /\ d.loc = c.loc
  BY <1>1, ModesType, StoppedType
<1>3. Stepped(s, SetCur(s, d))
  <2> HIDE DEF d
  <2>1. Sound(d)
    BY <1>1, <1>2 DEF Sound, SameFlow, Outbound
  <2>2. Changed(s, SetCur(s, d), d)
    BY <1>1, <1>2, SetCurChanged DEF SameFlow
  <2>3. Settled(d)
    BY <1>2 DEF Settled
  <2> QED
    BY <1>2, <2>1, <2>2, <2>3, ForwardingLeft
<1> QED
  BY <1>3 DEF DropCur, Stopped

LEMMA CollectStepped ==
  ASSUME NEW s, Sane(s), Ready(s), s.process = "forwarding",
         Cur(s).mode = "COLLECT_NHOPS", Cur(s).loc \notin Emulated, NEW results
  PROVE  Stepped(s, CollectNextHops(s, results))
<1> DEFINE c == Cur(s)
           cands == CandidatesFor(c)
           d == Collected(c, cands, "FORWARD_PACKET")
           t == [SetCur(s, d) EXCEPT !.choiceCount = Len(cands)]
<1>1. c \in ConnRecs /\ Sound(c) /\ s \in States
  BY ForwardingReady
<1>2. cands \in Seq(Nodes) /\ Len(cands) \in Nat
  BY <1>1, CandidatesType DEF Sound
<1>3. CASE cands = <<>>
  BY <1>3, DropStepped, ForwardingReady DEF CollectNextHops
<1>4. CASE cands # <<>>
  <2> HIDE DEF cands
  <2>1. /\ d \in ConnRecs /\ SameFlow(c, d) /\ d.mode = "FORWARD_PACKET"
        /\ d.candidates = cands /\ d.executable = c.executable /\ d.loc = c.loc
    BY <1>1, <1>2, ModesType, CollectedType
  <2>2. c.mode = "COLLECT_NHOPS" /\ c.executable # 1
    BY ForwardingReady
  <2>3. Stepped(s, t)
    <3> HIDE DEF d, c
    <3>1. Sound(d)
      BY <1>1, <1>4, <2>1, <2>2 DEF Sound, SameFlow
    <3>2. Changed(s, t, d) /\ t.choiceCount = Len(cands)
      BY <1>1, <1>2, <2>1, SetBothChanged DEF SameFlow, c
    <3>3. Settled(d) /\ ~AtMb(d) /\ Offered(d) = Len(cands)
      BY <2>1 DEF Settled, AtMb, Offered, Outbound
    <3> HIDE DEF t
    <3> QED
      BY <3>1, <3>2, <3>3, ForwardingLeft, ForwardingReady
  <2> QED
    BY <1>4, <2>3 DEF CollectNextHops, Collected, cands
<1> QED
  BY <1>3, <1>4

LEMMA FirstCollectStepped ==
  ASSUME NEW s, Sane(s), Ready(s), s.process = "forwarding",
         Cur(s).mode = "FIRST_COLLECT", NEW results
  PROVE  Stepped(s, FirstCollect(s, results))
<1> DEFINE c == Cur(s)
           cands == CandidatesFor(c)
           d == IF cands = <<>> THEN Stopped(c, "DROPPED", 0)
                ELSE Collected(c, cands, "FORWARD_PACKET")
           t == IF cands = <<>> THEN SetCur(s, d)
                ELSE [SetCur(s, d) EXCEPT !.choiceCount = Len(cands)]
           f == InMode(d, "FIRST_FORWARD")
           u == SetCur(t, InMode(Cur(t), "FIRST_FORWARD"))
<1>1. c \in ConnRecs /\ Sound(c) /\ c.loc \notin Emulated /\ s \in States
  BY ForwardingReady DEF Sound
<1>2. cands \in Seq(Nodes) /\ Len(cands) \in Nat
  BY <1>1, CandidatesType DEF Sound
<1>3. FirstCollect(s, results) = u
  <2> HIDE DEF cands
  <2> QED
    BY <1>1 DEF FirstCollect, CollectNextHops, DropCur, Stopped, Collected, InMode, cands
<1>4. /\ d \in ConnRecs /\ SameFlow(c, d) /\ d.loc = c.loc
      /\ IF cands = <<>> THEN d.executable = 0
         ELSE d.executable = c.executable /\ d.candidates = cands
  <2> HIDE DEF cands, c
  <2>1. CASE cands = <<>>
    BY <1>1, <2>1, ModesType, StoppedType
  <2>2. CASE cands # <<>>
    BY <1>1, <1>2, <2>2, ModesType, CollectedType
  <2> QED
    BY <2>1, <2>2
<1> HIDE DEF d, cands
<1>5. /\ Changed(s, t, d) /\ t \in States /\ Cur(t) = d
      /\ cands # <<>> => t.choiceCount = Len(cands)
  <2>1. Changed(s, t, d) /\ (cands # <<>> => t.choiceCount = Len(cands))
    BY <1>1, <1>2, <1>4, SetBothChanged, SetCurChanged DEF SameFlow
  <2> QED
    BY <2>1 DEF Changed
<1> HIDE DEF t
<1>6. /\ f \in ConnRecs /\ SameFlow(d, f) /\ f.loc = d.loc
      /\ f.mode = "FIRST_FORWARD" /\ f.executable = d.executable
      /\ f.candidates = d.candidates
  BY <1>4, ModesType, InModeType
<1>7. Changed(s, u, f) /\ (cands # <<>> => u.choiceCount = Len(cands))
  BY <1>5, <1>6, SetCurChanged, ChangedTwice DEF SameFlow, f
<1> HIDE DEF f
<1>8. Sound(f)
  BY <1>1, <1>4, <1>6, ForwardingReady DEF Sound, SameFlow
<1>9. Settled(f) /\ ~AtMb(f) /\ Offered(f) = Len(f.candidates)
  BY <1>6 DEF Settled, AtMb, Offered, Outbound
<1>10. Stepped(s, u)
  <2> HIDE DEF u
  <2> QED
    BY <1>4, <1>6, <1>7, <1>8, <1>9, ForwardingLeft, ForwardingReady
<1> QED
  BY <1>3, <1>10
-----------------------------------------------------------------------------
(* Forwarding: the packet moves, or is delivered                           *)

LEMMA NextConn ==
  ASSUME NEW s, Sane(s), Ready(s), s.process = "forwarding",
         NEW d \in ConnRecs, d.visited = Cur(s).visited, Sound(d), NEW n \in Nat,
         d.executable # 2 => Settled(d),
         d.executable = 2 => n = Offered(d) /\ ~AtMb(d)
  PROVE  Stepped(s, [SetCur(s, d) EXCEPT !.choiceCount = n])
<1> DEFINE t == [SetCur(s, d) EXCEPT !.choiceCount = n]
<1>1. Changed(s, t, d) /\ t.choiceCount = n
  BY ForwardingReady, SetBothChanged
<1>2. Stepped(s, t)
  <2> HIDE DEF t
  <2> QED
    BY <1>1, ForwardingLeft, ForwardingReady
<1> QED
  BY <1>2

LEMMA NextConnOnly ==
  ASSUME NEW s, Sane(s), Ready(s), s.process = "forwarding",
         NEW d \in ConnRecs, d.visited = Cur(s).visited, Sound(d),
         d.executable # 2 => Settled(d),
         d.executable = 2 => s.choiceCount = Offered(d) /\ ~AtMb(d)
  PROVE  Stepped(s, SetCur(s, d))
<1>1. Changed(s, SetCur(s, d), d) /\ SetCur(s, d).choiceCount = s.choiceCount
  BY ForwardingReady, SetCurChanged
<1> QED
  BY <1>1, ForwardingLeft, ForwardingReady

Remembered(c, x) == [c EXCEPT !.choices = x]
Delivered(c, r) == [c EXCEPT !.mode = "ACCEPTED", !.rxNode = r]
Moved(c, hop, e, r) ==
  [c EXCEPT !.loc = hop, !.mode = "COLLECT_NHOPS", !.executable = e, !.rxNode = r]

LEMMA RememberedType ==
  ASSUME NEW c \in ConnRecs, NEW ch \in [ec : Ecs, node : Nodes, hop : Nodes],
         NEW d, d = Remembered(c, c.choices \cup {ch})
  PROVE  /\ d \in ConnRecs /\ SameFlow(c, d) /\ d.loc = c.loc /\ d.rxNode = c.rxNode
         /\ d.executable = c.executable
<1>1. c.choices \cup {ch} \in SUBSET [ec : Ecs, node : Nodes, hop : Nodes]
  BY DEF ConnRecs
<1>2. d \in ConnRecs
  BY <1>1 DEF ConnRecs, Remembered
<1>3. /\ SameFlow(c, d) /\ d.loc = c.loc /\ d.rxNode = c.rxNode
      /\ d.executable = c.executable
  BY DEF ConnRecs, Remembered, SameFlow
<1> QED
  BY <1>2, <1>3

LEMMA DeliveredType ==
  ASSUME NEW c \in ConnRecs, NEW r \in AnyNode, NEW d, d = Delivered(c, r)
  PROVE  /\ d \in ConnRecs /\ SameFlow(c, d) /\ d.loc = c.loc
         /\ d.executable = c.executable /\ d.mode = "ACCEPTED"
<1>1. d \in ConnRecs
  BY ModesType DEF ConnRecs, Delivered
<1>2. /\ SameFlow(c, d) /\ d.loc = c.loc
      /\ d.executable = c.executable /\ d.mode = "ACCEPTED"
  BY DEF ConnRecs, Delivered, SameFlow
<1> QED
  BY <1>1, <1>2

LEMMA MovedType ==
  ASSUME NEW c \in ConnRecs, NEW hop \in Nodes, NEW e \in 0 .. 2, NEW r \in AnyNode,
         NEW d, d = Moved(c, hop, e, r)
  PROVE  /\ d \in ConnRecs /\ SameFlow(c, d) /\ d.loc = hop
         /\ d.executable = e /\ d.mode = "COLLECT_NHOPS"
<1>1. hop \in AnyNode
  BY DEF AnyNode
<1>2. d \in ConnRecs
  BY <1>1, ModesType DEF ConnRecs, Moved
<1>3. /\ SameFlow(c, d) /\ d.loc = hop
      /\ d.executable = e /\ d.mode = "COLLECT_NHOPS"
  BY DEF ConnRecs, Moved, SameFlow
<1> QED
  BY <1>2, <1>3

LEMMA ForwardStepped ==
  ASSUME NEW s, Sane(s), Ready(s), s.process = "forwarding",
         Outbound(Cur(s)), Cur(s).src \in Ecs,
         NEW choice \in 0 .. s.choiceCount - 1
  PROVE  Stepped(s, ForwardPacket(s, choice))
<1> DEFINE c == Cur(s)
           hop == c.candidates[choice + 1]
           multipath == Len(c.candidates) > 1
           ch == [ec |-> c.dst, node |-> c.loc, hop |-> hop]
           d == IF multipath THEN Remembered(c, c.choices \cup {ch}) ELSE c
           r == IF IsFirst(d.proto) THEN d.loc ELSE d.rxNode
           e == IF hop \in Emulated THEN 1 ELSE d.executable
           q == IF hop \in Emulated /\ IsFirst(d.proto) THEN hop ELSE d.rxNode
           x == Delivered(d, r)
           y == Moved(d, hop, e, q)
<1>1. /\ c \in ConnRecs /\ Sound(c) /\ s \in States /\ c.executable = 2
      /\ s.choiceCount = Len(c.candidates)
  BY ForwardingReady DEF Outbound, Offered
<1>2. hop \in Nodes
  <2>1. c.candidates \in Seq(Nodes)
    BY <1>1 DEF ConnRecs
  <2>2. choice + 1 \in 1 .. Len(c.candidates)
    BY <1>1, <2>1
  <2> QED
    BY <2>1, <2>2
<1>3. ForwardPacket(s, choice) =
        IF multipath /\ PastChoices(c) # {} THEN Fail(s)
        ELSE IF hop = c.loc THEN [SetCur(s, x) EXCEPT !.choiceCount = 1]
        ELSE [SetCur(s, y) EXCEPT !.choiceCount = 1]
  BY DEF ForwardPacket, Deliver, MoveTo, Delivered, Moved, Remembered
<1> HIDE DEF hop, multipath
<1>4. /\ d \in ConnRecs /\ SameFlow(c, d) /\ d.loc = c.loc /\ d.rxNode = c.rxNode
      /\ d.executable = c.executable
  <2>1. CASE multipath
    <3>1. ch \in [ec : Ecs, node : Nodes, hop : Nodes]
      BY <1>1, <1>2 DEF Sound
    <3> HIDE DEF ch, c
    <3> QED
      BY <1>1, <2>1, <3>1, RememberedType
  <2>2. CASE ~multipath
    BY <1>1, <2>2 DEF SameFlow
  <2> QED
    BY <2>1, <2>2
<1> HIDE DEF d, c
<1>5. r \in AnyNode /\ e \in 0 .. 2 /\ q \in AnyNode
  BY <1>2, <1>4 DEF ConnRecs, AnyNode
<1>6. CASE hop = c.loc
  <2>1. /\ x \in ConnRecs /\ SameFlow(d, x) /\ x.loc = d.loc
        /\ x.executable = d.executable /\ x.mode = "ACCEPTED"
    <3> HIDE DEF r
    <3> QED
      BY <1>4, <1>5, DeliveredType
  <2> HIDE DEF x
  <2>2. Sound(x)
    BY <1>1, <1>4, <2>1 DEF Sound, SameFlow, Outbound, c
  <2>3. 1 = Offered(x) /\ ~AtMb(x) /\ x.executable = 2 /\ x.visited = c.visited
    BY <1>1, <1>4, <2>1 DEF Offered, AtMb, Outbound, SameFlow
  <2>4. Stepped(s, [SetCur(s, x) EXCEPT !.choiceCount = 1])
    BY <2>1, <2>2, <2>3, NextConn DEF c
  <2> QED
    BY <1>3, <1>6, <2>4, FailStepped DEF c
<1>7. CASE hop # c.loc
  <2>1. /\ y \in ConnRecs /\ SameFlow(d, y) /\ y.loc = hop
        /\ y.executable = e /\ y.mode = "COLLECT_NHOPS"
    <3> HIDE DEF e, q
    <3> QED
      BY <1>2, <1>4, <1>5, MovedType, SMTT(30)
  <2> HIDE DEF y
  <2>2. Sound(y)
    BY <1>1, <1>2, <1>4, <2>1 DEF Sound, SameFlow, Outbound, c
  <2>3. /\ y.executable = 2 => 1 = Offered(y) /\ ~AtMb(y)
        /\ y.executable # 2 => Settled(y)
        /\ y.visited = c.visited
    BY <1>1, <1>4, <2>1 DEF Offered, AtMb, Outbound, SameFlow, Settled
  <2>4. Stepped(s, [SetCur(s, y) EXCEPT !.choiceCount = 1])
    BY <2>1, <2>2, <2>3, NextConn DEF c
  <2> QED
    BY <1>3, <1>7, <2>4, FailStepped DEF c
<1> QED
  BY <1>6, <1>7

Addressed(c, a) == [c EXCEPT !.src = a]

LEMMA FirstForwardStepped ==
  ASSUME NEW s, Sane(s), Ready(s), s.process = "forwarding",
         Cur(s).mode = "FIRST_FORWARD",
         NEW choice \in 0 .. s.choiceCount - 1
  PROVE  Stepped(s, FirstForward(s, choice))
<1> DEFINE c == Cur(s)
           a == IF IsFirst(c.proto) /\ c.src = NoEc THEN EcOf[c.loc] ELSE c.src
           d == Addressed(c, a)
           t == SetCur(s, d)
<1>1. /\ c \in ConnRecs /\ Sound(c) /\ s \in States /\ c.mode = "FIRST_FORWARD"
      /\ OthersSettled(s) /\ ~s.failed /\ c.executable = 2 /\ s.choiceCount = Offered(c)
  BY ForwardingReady
<1>2. FirstForward(s, choice) = ForwardPacket(t, choice)
  BY DEF FirstForward, Addressed
<1> HIDE DEF c
<1>3. a \in Ecs
  BY <1>1, ModelStateAssumption DEF Sound, ConnRecs, AnyEc
<1>4. d \in ConnRecs
  <2>1. a \in AnyEc
    BY <1>3 DEF AnyEc
  <2> HIDE DEF a
  <2> QED
    BY <1>1, <2>1 DEF ConnRecs, Addressed
<1>5. /\ d.proto = c.proto /\ d.dst = c.dst /\ d.src = a
      /\ d.srcNode = c.srcNode /\ d.txNode = c.txNode /\ d.visited = c.visited
      /\ d.mode = c.mode /\ d.executable = c.executable /\ d.loc = c.loc
      /\ d.candidates = c.candidates
  <2> HIDE DEF a
  <2> QED
    BY <1>1 DEF ConnRecs, Addressed
<1> HIDE DEF a, d
<1>6. Sound(d)
  BY <1>1, <1>3, <1>5 DEF Sound, Outbound
<1>7. Changed(s, t, d) /\ t.choiceCount = s.choiceCount
  BY <1>1, <1>4, <1>5, SetCurChanged DEF c
<1> HIDE DEF t
<1>8. /\ Sane(t) /\ OthersSettled(t) /\ ~t.failed /\ t.process = "forwarding"
      /\ Cur(t) = d
  <2>1. Sane(t)
    BY <1>6, <1>7, ChangedSane
  <2> QED
    BY <1>1, <1>7, <2>1 DEF Changed, OthersSettled
<1>9. Ready(t)
  BY <1>1, <1>5, <1>7, <1>8 DEF Ready, ReadyFor, Offered, Outbound, AtMb
<1>10. Stepped(t, ForwardPacket(t, choice))
  BY <1>1, <1>3, <1>5, <1>7, <1>8, <1>9, ForwardStepped DEF Outbound
<1> QED
  BY <1>2, <1>7, <1>10 DEF Stepped, Keeps, Changed

-----------------------------------------------------------------------------
(* Forwarding: the next phase                                              *)

Frozen(c) == [c EXCEPT !.executable = 0]

LEMMA FrozenType ==
  ASSUME NEW c \in ConnRecs, NEW d, d = Frozen(c)
  PROVE  d \in ConnRecs /\ SameFlow(c, d) /\ d.mode = c.mode /\ d.executable = 0 /\ d.loc = c.loc
<1>1. c.mode \in Modes /\ d = Stopped(c, c.mode, 0)
  BY DEF ConnRecs, Frozen, Stopped
<1> QED
  BY <1>1, StoppedType

LEMMA FrozenStepped ==
  ASSUME NEW s, Sane(s), Ready(s), s.process = "forwarding",
         Cur(s).mode \in {"ACCEPTED", "DROPPED"}
  PROVE  Stepped(s, SetCur(s, Frozen(Cur(s))))
<1> DEFINE c == Cur(s)
           d == Frozen(c)
<1>1. c \in ConnRecs /\ Sound(c) /\ s \in States /\ s.choiceCount \in Nat
  BY ForwardingReady DEF States
<1>2. d \in ConnRecs /\ SameFlow(c, d) /\ d.mode = c.mode /\ d.executable = 0 /\ d.loc = c.loc
  <2> HIDE DEF c
  <2> QED
    BY <1>1, FrozenType
<1> HIDE DEF d
<1>3. Sound(d) /\ Settled(d) /\ d.visited = c.visited
  BY <1>1, <1>2 DEF Sound, SameFlow, Settled, Outbound
<1> QED
  BY <1>2, <1>3, NextConnOnly DEF d

Phase(c, src, dst, srcNode, loc, ports, fib, proto, seq, ack) ==
  [c EXCEPT !.src = src, !.dst = dst, !.srcNode = srcNode, !.loc = loc, !.ports = ports,
            !.fib = fib, !.proto = proto, !.mode = "FIRST_COLLECT", !.seq = seq, !.ack = ack,
            !.payload = PayloadOf(proto), !.candidates = <<>>, !.results = <<>>]

LEMMA PhaseType ==
  ASSUME NEW c \in ConnRecs, NEW src \in Ecs, NEW dst \in Ecs, NEW srcNode \in Nodes,
         NEW loc \in Nodes, NEW ports \in Ports, NEW fib \in Fibs,
         NEW proto \in ProtoStates, NEW seq \in SeqNums, NEW ack \in SeqNums,
         NEW d, d = Phase(c, src, dst, srcNode, loc, ports, fib, proto, seq, ack)
  PROVE  /\ d \in ConnRecs
         /\ d.src = src /\ d.dst = dst /\ d.srcNode = srcNode /\ d.loc = loc
         /\ d.proto = proto /\ d.mode = "FIRST_COLLECT" /\ d.txNode = c.txNode
         /\ d.visited = c.visited /\ d.executable = c.executable
<1>1. /\ src \in AnyEc /\ dst \in AnyEc /\ srcNode \in AnyNode /\ loc \in AnyNode
      /\ proto \in 0 .. 14
  BY DEF AnyEc, AnyNode, ProtoStates
<1>2. PayloadOf(proto) \in Nat
  BY Zenon DEF PayloadOf
<1>3. <<>> \in Seq(Nodes) /\ <<>> \in Seq(Results)
  OBVIOUS
<1>4. d \in ConnRecs
  BY <1>1, <1>2, <1>3, ModesType DEF ConnRecs, Phase
<1>5. /\ d.src = src /\ d.dst = dst /\ d.srcNode = srcNode /\ d.loc = loc
      /\ d.proto = proto /\ d.mode = "FIRST_COLLECT" /\ d.txNode = c.txNode
      /\ d.visited = c.visited /\ d.executable = c.executable
  BY DEF ConnRecs, Phase
<1> QED
  BY <1>4, <1>5

LEMMA PhaseStepped ==
  ASSUME NEW s, Sane(s), Ready(s), s.process = "forwarding", Cur(s).mode = "ACCEPTED",
         NEW next \in ProtoStates, NEW change \in BOOLEAN
  PROVE  Stepped(s, PhaseTransition(s, next, change))
<1> DEFINE c == Cur(s)
           source == IF change THEN c.loc ELSE c.srcNode
           seqs == IF ~(c.proto \in TcpStates) THEN <<c.seq, c.ack>>
                   ELSE IF change THEN <<c.ack, SeqAfter(c)>>
                   ELSE <<SeqAfter(c), c.ack>>
           d == IF change
                THEN Phase(c, c.dst, c.src, c.loc, c.loc, <<c.ports[2], c.ports[1]>>,
                           FibFor(s, c.src), next, seqs[1], seqs[2])
                ELSE Phase(c, c.src, c.dst, c.srcNode, c.srcNode, c.ports, c.fib,
                           next, seqs[1], seqs[2])
<1>1. /\ c \in ConnRecs /\ Sound(c) /\ s \in States /\ s.choiceCount = 1
      /\ c.mode = "ACCEPTED" /\ c.executable # 1 /\ c.src \in Ecs
  BY ForwardingReady DEF Sound, Offered, Outbound
<1>2. PhaseTransition(s, next, change) =
        IF source \in Emulated THEN SetCur(s, Frozen(c)) ELSE SetCur(s, d)
  <2> HIDE DEF c
  <2>1. CASE change
    <3> DEFINE e == [c EXCEPT !.src = c.dst, !.dst = c.src, !.srcNode = c.loc,
                              !.ports = <<c.ports[2], c.ports[1]>>, !.fib = FibFor(s, c.src)]
               f == [e EXCEPT !.proto = next, !.mode = "FIRST_COLLECT",
                              !.seq = seqs[1], !.ack = seqs[2],
                              !.payload = PayloadOf(next), !.candidates = <<>>, !.results = <<>>]
    <3>1. PhaseTransition(s, next, change) =
            IF source \in Emulated THEN SetCur(s, Frozen(c)) ELSE SetCur(s, f)
      BY <2>1 DEF PhaseTransition, Frozen, c
    <3> HIDE DEF seqs
    <3>2. f = d
      BY <1>1, <2>1, ZenonT(60) DEF ConnRecs, Phase
    <3> QED
      BY <3>1, <3>2
  <2>2. CASE ~change
    <3> DEFINE e == [c EXCEPT !.loc = c.srcNode]
               f == [e EXCEPT !.proto = next, !.mode = "FIRST_COLLECT",
                              !.seq = seqs[1], !.ack = seqs[2],
                              !.payload = PayloadOf(next), !.candidates = <<>>, !.results = <<>>]
    <3>1. PhaseTransition(s, next, change) =
            IF source \in Emulated THEN SetCur(s, Frozen(c)) ELSE SetCur(s, f)
      BY <2>2 DEF PhaseTransition, Frozen, c
    <3> HIDE DEF seqs
    <3>2. f = d
      BY <1>1, <2>2, ZenonT(60) DEF ConnRecs, Phase
    <3> QED
      BY <3>1, <3>2
  <2> QED
    BY <2>1, <2>2
<1>3. CASE source \in Emulated
  BY <1>1, <1>2, <1>3, FrozenStepped
<1>4. CASE source \notin Emulated
  <2> HIDE DEF c
  <2>1. seqs[1] \in SeqNums /\ seqs[2] \in SeqNums
    <3>1. c.seq \in SeqNums /\ c.ack \in SeqNums /\ SeqAfter(c) \in SeqNums
      BY <1>1 DEF ConnRecs, SeqAfter, SeqNums
    <3> QED
      BY <3>1
  <2> HIDE DEF seqs
  <2>2. /\ c.ports \in Ports /\ <<c.ports[2], c.ports[1]>> \in Ports
        /\ c.fib \in Fibs
    <3>1. c.ports \in Ports /\ c.fib \in Fibs
      BY <1>1 DEF ConnRecs
    <3> QED
      BY <3>1 DEF Ports
  <2>3. FibFor(s, c.src) \in Fibs
    BY <1>1, FibType DEF Sane
  <2>4. /\ c.dst \in Ecs /\ c.loc \in Nodes /\ c.srcNode \in Nodes /\ c.txNode \in Nodes
    BY <1>1 DEF Sound
  <2>5. /\ d \in ConnRecs
        /\ d.src \in Ecs /\ d.dst \in Ecs /\ d.srcNode \in Nodes /\ d.loc = source
        /\ d.proto = next /\ d.mode = "FIRST_COLLECT" /\ d.txNode = c.txNode
        /\ d.visited = c.visited /\ d.executable = c.executable
    <3> DEFINE ports == <<c.ports[2], c.ports[1]>>
               fib == FibFor(s, c.src)
               n1 == seqs[1]
               n2 == seqs[2]
    <3>1. /\ c \in ConnRecs /\ c.src \in Ecs /\ c.dst \in Ecs /\ c.loc \in Nodes
          /\ c.srcNode \in Nodes /\ c.ports \in Ports /\ c.fib \in Fibs
          /\ ports \in Ports /\ fib \in Fibs /\ n1 \in SeqNums /\ n2 \in SeqNums
      BY <1>1, <2>1, <2>2, <2>3, <2>4
    <3>2. d = IF change THEN Phase(c, c.dst, c.src, c.loc, c.loc, ports, fib, next, n1, n2)
              ELSE Phase(c, c.src, c.dst, c.srcNode, c.srcNode, c.ports, c.fib, next, n1, n2)
      OBVIOUS
    <3> HIDE DEF d, ports, fib, n1, n2
    <3>3. CASE change
      <4>1. d = Phase(c, c.dst, c.src, c.loc, c.loc, ports, fib, next, n1, n2)
        BY <3>2, <3>3
      <4>2. d \in ConnRecs
        BY <3>1, <4>1, PhaseType
      <4>3. /\ d.src = c.dst /\ d.dst = c.src /\ d.srcNode = c.loc /\ d.loc = c.loc
            /\ d.proto = next /\ d.mode = "FIRST_COLLECT" /\ d.txNode = c.txNode
            /\ d.visited = c.visited /\ d.executable = c.executable
        BY <3>1, <4>1, PhaseType, SMTT(30)
      <4> QED
        BY <3>1, <3>3, <4>2, <4>3
    <3>4. CASE ~change
      <4>1. d = Phase(c, c.src, c.dst, c.srcNode, c.srcNode, c.ports, c.fib, next, n1, n2)
        BY <3>2, <3>4
      <4>2. d \in ConnRecs
        BY <3>1, <4>1, PhaseType
      <4>3. /\ d.src = c.src /\ d.dst = c.dst /\ d.srcNode = c.srcNode /\ d.loc = c.srcNode
            /\ d.proto = next /\ d.mode = "FIRST_COLLECT" /\ d.txNode = c.txNode
            /\ d.visited = c.visited /\ d.executable = c.executable
        BY <3>1, <4>1, PhaseType
      <4> QED
        BY <3>1, <3>4, <4>2, <4>3
    <3> QED
      BY <3>3, <3>4
  <2>6. source \in Nodes
    BY <2>4
  <2> HIDE DEF d, source
  <2>7. Sound(d) /\ Settled(d) /\ Offered(d) = 1 /\ ~AtMb(d)
    BY <1>1, <1>4, <2>4, <2>5, <2>6 DEF Sound, Settled, Offered, Outbound, AtMb
  <2>8. Stepped(s, SetCur(s, d))
    BY <1>1, <2>5, <2>7, NextConnOnly DEF c
  <2> QED
    BY <1>2, <1>4, <2>8
<1> QED
  BY <1>3, <1>4

LEMMA AcceptedStepped ==
  ASSUME NEW s, Sane(s), Ready(s), s.process = "forwarding", Cur(s).mode = "ACCEPTED"
  PROVE  Stepped(s, Accepted(s))
<1> DEFINE c == Cur(s)
           same == c.proto \in {3, 5} \/ (c.proto = 7 /\ c.loc \in Emulated)
<1>1. c.proto \in ProtoStates
  BY ForwardingReady DEF Sound
<1>2. CASE IsLast(c.proto)
  BY <1>2, FrozenStepped DEF Accepted, Frozen
<1>3. CASE ~IsLast(c.proto)
  <2>1. c.proto + 1 \in ProtoStates
    BY <1>1, <1>3 DEF ProtoStates, IsLast
  <2>2. (~same) \in BOOLEAN
    OBVIOUS
  <2>3. Accepted(s) = PhaseTransition(s, c.proto + 1, ~same)
    BY <1>3 DEF Accepted
  <2> HIDE DEF same
  <2> QED
    BY <2>1, <2>2, <2>3, PhaseStepped
<1> QED
  BY <1>2, <1>3
-----------------------------------------------------------------------------
(* What a middlebox answers                                                *)

\* What joins two segments of a middlebox is a packet it may send.
LEMMA LongerPacket ==
  ASSUME NEW p \in Packets, NEW n \in Nat
  PROVE  [p EXCEPT !.payload = @ + n] \in Packets
<1> DEFINE q == [p EXCEPT !.payload = @ + n]
<1>1. p \in PacketRecs
  BY DEF Packets
<1>2. q \in PacketRecs
  BY <1>1 DEF PacketRecs
<1>3. q.protocol = p.protocol /\ q.flags = p.flags /\ q.dst = p.dst /\ q.intf = p.intf
  BY <1>1 DEF PacketRecs
<1> HIDE DEF q
<1>4. q \in Packets
  BY <1>2, <1>3 DEF Packets
<1> QED
  BY <1>4 DEF q

LEMMA ReassembleType ==
  ASSUME NEW pkts \in Seq(Packets)
  PROVE  Reassemble(pkts) \in Seq(Packets)
<1> DEFINE n == Len(pkts)
           S == Seq(Packets)
           lastOf(out, p) == {k \in DOMAIN out : out[k].intf = p.intf /\
                                \A l \in DOMAIN out : out[l].intf = p.intf => l <= k}
           joins(out, p) == {k \in lastOf(out, p) : Continues(p, out[k])}
           add(out, p) ==
             IF joins(out, p) = {} THEN Append(out, p)
             ELSE [k \in DOMAIN out |->
                     IF k \in joins(out, p)
                     THEN [out[k] EXCEPT !.payload = @ + p.payload] ELSE out[k]]
           joined[k \in 0 .. n] == IF k = 0 THEN <<>> ELSE add(joined[k - 1], pkts[k])
           D == [x \in S \X (1 .. n) |-> add(x[1], pkts[x[2]])]
<1>1. n \in Nat /\ \A k \in 1 .. n : pkts[k] \in Packets
  OBVIOUS
<1>2. Reassemble(pkts) = joined[n]
  BY DEF Reassemble
<1>3. <<>> \in S
  OBVIOUS
<1>4. ASSUME NEW out \in S, NEW p \in Packets
      PROVE  add(out, p) \in S
  <2> DEFINE J == joins(out, p)
             h == [k \in DOMAIN out |->
                     IF k \in J THEN [out[k] EXCEPT !.payload = @ + p.payload] ELSE out[k]]
  <2>1. add(out, p) = IF J = {} THEN Append(out, p) ELSE h
    OBVIOUS
  <2> HIDE DEF J
  <2>2. p.payload \in Nat
    BY DEF Packets, PacketRecs
  <2>3. Append(out, p) \in S
    OBVIOUS
  <2>4. DOMAIN out = 1 .. Len(out) /\ Len(out) \in Nat /\ \A k \in DOMAIN out : out[k] \in Packets
    OBVIOUS
  <2>5. \A k \in DOMAIN out : h[k] \in Packets
    <3> SUFFICES ASSUME NEW k \in DOMAIN out PROVE h[k] \in Packets
      OBVIOUS
    <3>1. out[k] \in Packets
      BY <2>4
    <3>2. [out[k] EXCEPT !.payload = @ + p.payload] \in Packets
      BY <2>2, <3>1, LongerPacket, Zenon
    <3>3. h[k] = IF k \in J THEN [out[k] EXCEPT !.payload = @ + p.payload] ELSE out[k]
      BY Zenon
    <3> QED
      BY <3>1, <3>2, <3>3, Zenon
  <2>6. DOMAIN h = 1 .. Len(out)
    BY <2>4, Zenon
  <2> HIDE DEF h
  <2>7. h \in [1 .. Len(out) -> Packets]
    <3>1. h = [k \in 1 .. Len(out) |-> h[k]]
      BY <2>6 DEF h
    <3> QED
      BY <2>4, <2>5, <3>1
  <2>8. h \in S
    BY <2>4, <2>7
  <2> QED
    BY <2>1, <2>3, <2>8
<1>5. D \in Bodies(S, n) /\ \A b \in S, k \in 1 .. n : D[<<b, k>>] = add(b, pkts[k])
  <2>1. \A b \in S, k \in 1 .. n : add(b, pkts[k]) \in S
    BY <1>1, <1>4
  <2> HIDE DEF add, S
  <2> QED
    BY <2>1 DEF Bodies
<1> HIDE DEF n, S, add, D
<1>6. PICK g \in [0 .. n -> S] : Iterates(g, <<>>, D, n)
  <2> HIDE DEF joined
  <2>1. n \in Nat /\ <<>> \in S /\ D \in Bodies(S, n)
    BY <1>1, <1>3, <1>5
  <2> QED
    BY <2>1, LoopRuns
<1>7. ASSUME NEW k \in 0 .. n
      PROVE  g[k] = IF k = 0 THEN <<>> ELSE add(g[k - 1], pkts[k])
  <2> HIDE DEF joined
  <2>1. CASE k # 0
    <3>1. k \in 1 .. n /\ k - 1 \in 0 .. n
      BY <1>1, <2>1
    <3> QED
      BY <1>5, <1>6, <2>1, <3>1 DEF Iterates
  <2> QED
    BY <1>6, <2>1 DEF Iterates
<1>8. g = [k \in 0 .. n |-> IF k = 0 THEN <<>> ELSE add(g[k - 1], pkts[k])]
  <2> HIDE DEF joined
  <2> QED
    BY <1>7
<1>9. joined = [k \in 0 .. n |-> IF k = 0 THEN <<>> ELSE add(joined[k - 1], pkts[k])]
  BY <1>8
<1> HIDE DEF joined
<1>10. joined[0] \in S
  BY <1>1, <1>3, <1>9
<1>11. ASSUME NEW k \in 1 .. n, joined[k - 1] \in S
       PROVE  joined[k] \in S
  <2>1. k \in 0 .. n /\ k # 0
    BY <1>1
  <2>2. joined[k] = add(joined[k - 1], pkts[k])
    BY <1>9, <2>1
  <2> QED
    BY <1>1, <1>4, <1>11, <2>2
<1>12. joined[n] \in S
  <2>1. \A k \in 0 .. n : joined[k] \in S
    BY <1>1, <1>10, <1>11, LoopInvariant
  <2> QED
    BY <1>1, <2>1
<1> QED
  BY <1>2, <1>12 DEF S

\* The set of what a function makes of the elements of a finite set.
LEMMA ImageFinite ==
  ASSUME NEW S, IsFiniteSet(S), NEW f, NEW T, T = {f[x] : x \in S}
  PROVE  IsFiniteSet(T)
<1> DEFINE g == [x \in S |-> f[x]]
<1>1. g \in Surjection(S, T)
  BY DEF Surjection
<1> QED
  BY <1>1, FS_Surjection

LEMMA ProtocolType ==
  ASSUME NEW p \in ProtoStates
  PROVE  /\ Protocol(p) \in Protocols
         /\ Protocol(p) = "tcp" <=> p \in TcpStates
         /\ FlagsOf[p] \in TcpFlags \cup {"udp", "request", "reply"}
         /\ p \in TcpStates => FlagsOf[p] \in TcpFlags
<1>1. /\ Protocol(p) \in Protocols
      /\ Protocol(p) = "tcp" <=> p \in TcpStates
  BY DEF Protocol, Protocols
<1>2. p \in {1, 2, 3, 4, 5, 6, 7, 8, 9, 10} => p \in TcpStates /\ FlagsOf[p] \in TcpFlags
  BY DEF TcpStates, FlagsOf, TcpFlags
<1>3. p \in {11, 12, 13, 14} =>
        p \notin TcpStates /\ FlagsOf[p] \in {"udp", "request", "reply"}
  BY DEF TcpStates, FlagsOf
<1>4. p \in {1, 2, 3, 4, 5, 6, 7, 8, 9, 10} \cup {11, 12, 13, 14}
  BY DEF ProtoStates
<1> QED
  BY <1>1, <1>2, <1>3, <1>4

\* A connection whose packet is at a middlebox.
Arrived(c) ==
  /\ c \in ConnRecs
  /\ c.proto \in ProtoStates /\ c.src \in Ecs /\ c.dst \in Ecs /\ c.loc \in Emulated

LEMMA ForwardedType ==
  ASSUME NEW c, Arrived(c)
  PROVE  Forwarded(c) \subseteq Packets /\ IsFiniteSet(Forwarded(c))
<1> DEFINE F(a) == [protocol |-> Protocol(c.proto), flags |-> FlagsOf[c.proto], src |-> a[1],
                    dst |-> a[2], ports |-> c.ports, seq |-> c.seq, ack |-> c.ack,
                    payload |-> c.payload, intf |-> MbIntf[c.loc][a[2]]]
           A == RewrittenAddresses(c)
           R == {r \in Rewrites : r.from = <<c.src, c.dst, c.ports>>}
           f == [a \in A |-> F(a)]
           to == [r \in R |-> r.to]
<1>1. IsFiniteSet(R)
  BY PlanktonAssumption, FS_Subset
<1>2. A = {to[r] : r \in R}
  BY DEF RewrittenAddresses
<1>3. IsFiniteSet(A)
  <2> HIDE DEF A, R, to
  <2> QED
    BY <1>1, <1>2, ImageFinite
<1>4. A \subseteq Ecs \X Ecs
  BY PlanktonAssumption DEF RewrittenAddresses
<1>5. Forwarded(c) = {F(a) : a \in A}
  BY DEF Forwarded
<1> HIDE DEF A
<1>6. Forwarded(c) = {f[a] : a \in A}
  BY <1>5, Zenon
<1>7. IsFiniteSet(Forwarded(c))
  <2> HIDE DEF f
  <2> QED
    BY <1>3, <1>6, ImageFinite
<1>8. ASSUME NEW a \in Ecs \X Ecs
      PROVE  F(a) \in Packets
  <2>1. a[1] \in Ecs /\ a[2] \in Ecs
    OBVIOUS
  <2>2. MbIntf[c.loc][a[2]] \in Intfs
    BY <2>1, PlanktonAssumption DEF Arrived
  <2>3. c.ports \in Ports /\ c.seq \in SeqNums /\ c.ack \in SeqNums /\ c.payload \in Nat
    BY DEF Arrived, ConnRecs
  <2>4. F(a) \in PacketRecs
    <3>1. Protocol(c.proto) \in Protocols
          /\ FlagsOf[c.proto] \in TcpFlags \cup {"udp", "request", "reply"}
      BY ProtocolType DEF Arrived
    <3> DEFINE fl == FlagsOf[c.proto]
               pr == Protocol(c.proto)
               i == MbIntf[c.loc][a[2]]
    <3> HIDE DEF fl, pr, i
    <3> QED
      BY <2>1, <2>2, <2>3, <3>1 DEF PacketRecs, fl, pr, i
  <2>5. F(a).protocol = "tcp" => F(a).flags \in TcpFlags
    BY ProtocolType DEF Arrived
  <2>6. F(a).intf = MbIntf[c.loc][F(a).dst]
    OBVIOUS
  <2> HIDE DEF F
  <2> QED
    BY <2>4, <2>5, <2>6 DEF Packets, Arrived
<1> HIDE DEF F
<1> QED
  BY <1>4, <1>5, <1>7, <1>8

LEMMA SeqAfterType ==
  ASSUME NEW c \in ConnRecs
  PROVE  SeqAfter(c) \in Nat /\ c.ack \in Nat /\ c.seq \in Nat
BY DEF ConnRecs, SeqAfter, SeqNums

LEMMA SegmentsType ==
  ASSUME NEW p
  PROVE  /\ AnswerSegments(p) \in SUBSET Seq(Nat) /\ IsFiniteSet(AnswerSegments(p))
         /\ AnswerSegments(p) # {} => p \in {1, 4, 8, 11, 13}
<1>1. <<0>> \in Seq(Nat) /\ <<0, 3>> \in Seq(Nat) /\ <<1, 2>> \in Seq(Nat)
  OBVIOUS
<1>2. IsFiniteSet({<<0>>}) /\ IsFiniteSet({<<0, 3>>}) /\ IsFiniteSet({<<1, 2>>})
      /\ IsFiniteSet({})
  BY FS_Singleton, FS_EmptySet
<1>3. IsFiniteSet({<<0>>, <<0, 3>>, <<1, 2>>})
  <2>1. IsFiniteSet({<<0>>} \cup {<<0, 3>>})
    BY <1>2, FS_Union
  <2>2. IsFiniteSet(({<<0>>} \cup {<<0, 3>>}) \cup {<<1, 2>>})
    BY <1>2, <2>1, FS_Union
  <2>3. ({<<0>>} \cup {<<0, 3>>}) \cup {<<1, 2>>} = {<<0>>, <<0, 3>>, <<1, 2>>}
    BY Zenon
  <2> QED
    BY <2>2, <2>3
<1>4. CASE p = 4
  <2>0. p \notin {1, 8, 11, 13}
    BY <1>4
  <2>1. AnswerSegments(p) = {<<0>>, <<0, 3>>, <<1, 2>>}
    BY <1>4, <2>0, Zenon DEF AnswerSegments
  <2> QED
    BY <1>1, <1>3, <1>4, <2>1
<1>5. CASE p # 4 /\ p \in {1, 8, 11, 13}
  <2>1. AnswerSegments(p) = {<<0>>}
    BY <1>5, Zenon DEF AnswerSegments
  <2> QED
    BY <1>1, <1>2, <1>5, <2>1
<1>6. CASE p # 4 /\ p \notin {1, 8, 11, 13}
  <2>1. AnswerSegments(p) = {}
    BY <1>6, Zenon DEF AnswerSegments
  <2> QED
    BY <1>2, <2>1
<1> QED
  BY <1>4, <1>5, <1>6

LEMMA AnswerFlags ==
  ASSUME NEW c, c.proto \in {1, 4, 8, 11, 13}, NEW sizes, NEW k
  PROVE  /\ Answer(c, sizes, k).flags \in TcpFlags \cup {"udp", "request", "reply"}
         /\ c.proto \in TcpStates => Answer(c, sizes, k).flags \in TcpFlags
<1> DEFINE fl == CASE c.proto = 1 -> "synack" [] c.proto = 4 -> "ack" [] c.proto = 8 -> "fin"
                   [] c.proto = 11 -> "udp" [] OTHER -> "reply"
<1>1. Answer(c, sizes, k).flags = fl
  BY Zenon DEF Answer
<1>2. CASE c.proto = 1
  <2>0. c.proto # 4 /\ c.proto # 8 /\ c.proto # 11
    BY <1>2
  <2>1. fl = "synack"
    BY <1>2, <2>0, Zenon
  <2> QED
    BY <1>1, <2>1 DEF TcpFlags
<1>3. CASE c.proto = 4
  <2>0. c.proto # 1 /\ c.proto # 8 /\ c.proto # 11
    BY <1>3
  <2>1. fl = "ack"
    BY <1>3, <2>0, Zenon
  <2> QED
    BY <1>1, <2>1 DEF TcpFlags
<1>4. CASE c.proto = 8
  <2>0. c.proto # 1 /\ c.proto # 4 /\ c.proto # 11
    BY <1>4
  <2>1. fl = "fin"
    BY <1>4, <2>0, Zenon
  <2> QED
    BY <1>1, <2>1 DEF TcpFlags
<1>5. CASE c.proto = 11
  <2>0. c.proto # 1 /\ c.proto # 4 /\ c.proto # 8 /\ c.proto \notin TcpStates
    BY <1>5 DEF TcpStates
  <2>1. fl = "udp"
    BY <1>5, <2>0, Zenon
  <2> QED
    BY <1>1, <2>0, <2>1
<1>6. CASE c.proto = 13
  <2>0. c.proto # 1 /\ c.proto # 4 /\ c.proto # 8 /\ c.proto # 11 /\ c.proto \notin TcpStates
    BY <1>6 DEF TcpStates
  <2>1. fl = "reply"
    BY <2>0, Zenon
  <2> QED
    BY <1>1, <2>0, <2>1
<1> QED
  BY <1>2, <1>3, <1>4, <1>5, <1>6

LEMMA AnswerType ==
  ASSUME NEW c, Arrived(c), NEW sizes \in AnswerSegments(c.proto), NEW k \in DOMAIN sizes
  PROVE  Answer(c, sizes, k) \in Packets
<1> DEFINE p == Answer(c, sizes, k)
<1>1. sizes \in Seq(Nat) /\ c.proto \in {1, 4, 8, 11, 13}
  BY SegmentsType
<1>2. sizes[k] \in Nat /\ (k # 1 => sizes[1] \in Nat)
  BY <1>1
<1>3. /\ c \in ConnRecs /\ c.proto \in ProtoStates /\ c.src \in Ecs /\ c.dst \in Ecs
      /\ MbIntf[c.loc][c.src] \in Intfs /\ c.loc \in Emulated
  BY PlanktonAssumption DEF Arrived
<1>4. /\ p.protocol = Protocol(c.proto) /\ p.src = c.dst /\ p.dst = c.src
      /\ p.ports = <<c.ports[2], c.ports[1]>>
      /\ p.seq = IF k = 1 THEN c.ack ELSE c.ack + sizes[1]
      /\ p.ack = SeqAfter(c) /\ p.payload = sizes[k] /\ p.intf = MbIntf[c.loc][c.src]
  BY Zenon DEF Answer
<1>5. p = [protocol |-> p.protocol, flags |-> p.flags, src |-> p.src, dst |-> p.dst,
           ports |-> p.ports, seq |-> p.seq, ack |-> p.ack, payload |-> p.payload,
           intf |-> p.intf]
  <2> DEFINE fl == CASE c.proto = 1 -> "synack" [] c.proto = 4 -> "ack" [] c.proto = 8 -> "fin"
                     [] c.proto = 11 -> "udp" [] OTHER -> "reply"
             sq == IF k = 1 THEN c.ack ELSE c.ack + sizes[1]
  <2>1. p = [protocol |-> Protocol(c.proto), flags |-> fl, src |-> c.dst, dst |-> c.src,
             ports |-> <<c.ports[2], c.ports[1]>>, seq |-> sq, ack |-> SeqAfter(c),
             payload |-> sizes[k], intf |-> MbIntf[c.loc][c.src]]
    BY Zenon DEF Answer
  <2> HIDE DEF p, fl, sq
  <2> QED
    BY <2>1
<1>6. p.ports \in Ports
  <2>1. c.ports \in Ports
    BY <1>3 DEF ConnRecs
  <2> HIDE DEF p
  <2> QED
    BY <1>4, <2>1 DEF Ports
<1>7. p.seq \in SeqNums /\ p.ack \in SeqNums
  <2> HIDE DEF p
  <2> QED
    BY <1>2, <1>3, <1>4, SeqAfterType DEF SeqNums
<1>8. p.flags \in TcpFlags \cup {"udp", "request", "reply"}
      /\ (p.protocol = "tcp" => p.flags \in TcpFlags) /\ p.protocol \in Protocols
  <2>1. /\ p.flags \in TcpFlags \cup {"udp", "request", "reply"}
        /\ c.proto \in TcpStates => p.flags \in TcpFlags
    BY <1>1, AnswerFlags
  <2> HIDE DEF p
  <2> QED
    BY <1>3, <1>4, <2>1, ProtocolType
<1> HIDE DEF p
<1>9. p \in PacketRecs
  BY <1>2, <1>3, <1>4, <1>5, <1>6, <1>7, <1>8 DEF PacketRecs
<1>10. p \in Packets
  BY <1>3, <1>4, <1>8, <1>9 DEF Packets
<1> QED
  BY <1>10 DEF p

LEMMA AnsweredType ==
  ASSUME NEW c, Arrived(c)
  PROVE  Answered(c) \subseteq Seq(Packets) /\ IsFiniteSet(Answered(c))
<1> DEFINE T == AnswerSegments(c.proto)
           A(sizes) == [k \in DOMAIN sizes |-> Answer(c, sizes, k)]
           f == [sizes \in T |-> A(sizes)]
           U == {A(sizes) : sizes \in T}
           V == IF c.proto = 3 THEN {<<Report(c)>>} ELSE {}
<1>1. T \in SUBSET Seq(Nat) /\ IsFiniteSet(T)
  BY SegmentsType
<1>2. U = {f[sizes] : sizes \in T}
  <2> HIDE DEF T
  <2> QED
    BY Zenon
<1>3. IsFiniteSet(U)
  <2> HIDE DEF T, U, f
  <2> QED
    BY <1>1, <1>2, ImageFinite
<1>4. IsFiniteSet(V)
  <2>1. IsFiniteSet({<<Report(c)>>}) /\ IsFiniteSet({})
    BY FS_Singleton, FS_EmptySet
  <2> QED
    BY <2>1
<1>5. IsFiniteSet(U \cup V)
  <2> HIDE DEF U, V
  <2> QED
    BY <1>3, <1>4, FS_Union
<1>6. U \subseteq Seq(Packets)
  <2> SUFFICES ASSUME NEW sizes \in T
               PROVE  A(sizes) \in Seq(Packets)
    BY Zenon
  <2>1. DOMAIN sizes = 1 .. Len(sizes) /\ Len(sizes) \in Nat
    BY <1>1
  <2>2. A(sizes) \in [1 .. Len(sizes) -> Packets]
    <3>1. \A k \in 1 .. Len(sizes) : Answer(c, sizes, k) \in Packets
      BY <2>1, AnswerType
    <3> QED
      BY <2>1, <3>1, Zenon
  <2> HIDE DEF A
  <2> QED
    BY <2>1, <2>2
<1>7. V \subseteq Seq(Packets)
  <2>1. Report(c) \in Packets
    <3> DEFINE p == Report(c)
    <3>1. MbIntf[c.loc][ReportTo] \in Intfs /\ c.loc \in Emulated /\ ReportTo \in Ecs
          /\ c.dst \in Ecs
      BY PlanktonAssumption DEF Arrived
    <3>2. <<1514, 514>> \in Ports /\ 0 \in SeqNums
      BY DEF Ports, SeqNums
    <3>3. p \in PacketRecs
      <4> DEFINE i == MbIntf[c.loc][ReportTo]
                 ports == <<1514, 514>>
      <4>1. p = [protocol |-> "udp", flags |-> "udp", src |-> c.dst, dst |-> ReportTo,
                 ports |-> ports, seq |-> 0, ack |-> 0, payload |-> 0, intf |-> i]
        BY Zenon DEF Report
      <4>2. "udp" \in Protocols
        BY DEF Protocols
      <4> HIDE DEF i, ports, p
      <4> QED
        BY <3>1, <3>2, <4>1, <4>2 DEF PacketRecs, i, ports
    <3>4. p.protocol = "udp" /\ p.intf = MbIntf[c.loc][p.dst]
      BY Zenon DEF Report
    <3>5. p.protocol # "tcp"
      <4> HIDE DEF p
      <4> QED
        BY <3>4
    <3> HIDE DEF p
    <3> QED
      BY <3>1, <3>3, <3>4, <3>5 DEF Packets, p
  <2>2. <<Report(c)>> \in Seq(Packets)
    BY <2>1
  <2> QED
    BY <2>2
<1>8. Answered(c) = IF Forwarded(c) # {} THEN {} ELSE U \cup V
  BY DEF Answered
<1>9. IsFiniteSet({})
  BY FS_EmptySet
<1> HIDE DEF U, V
<1> QED
  BY <1>5, <1>6, <1>7, <1>8, <1>9

LEMMA MbResultsType ==
  ASSUME NEW s, Arrived(Cur(s))
  PROVE  MbResults(s) \subseteq Results /\ IsFiniteSet(MbResults(s))
<1> DEFINE c == Cur(s)
           forwarded == {p \in Forwarded(c) : Allowed(s, p)}
           copies == {P \in SUBSET forwarded :
                        /\ Cardinality(P) <= MaxPkts
                        /\ \A p, q \in P : IdentifyConn(s, p) = IdentifyConn(s, q)
                                             => p = q}
           X == {SetToSeq(P) : P \in copies}
           Y == {Reassemble(a) : a \in Answered(c)}
           result(pkts) == [pkts |-> pkts, dropped |-> FALSE]
           none == [pkts |-> <<>>, dropped |-> TRUE]
           Z == {result(pkts) : pkts \in X \cup Y}
           f == [P \in copies |-> SetToSeq(P)]
           g == [a \in Answered(c) |-> Reassemble(a)]
           h == [pkts \in X \cup Y |-> result(pkts)]
<1>1. MbResults(s) = {none} \cup Z
  BY DEF MbResults
<1>2. /\ Forwarded(c) \subseteq Packets /\ IsFiniteSet(Forwarded(c))
      /\ Answered(c) \subseteq Seq(Packets) /\ IsFiniteSet(Answered(c))
  BY ForwardedType, AnsweredType
<1>3. IsFiniteSet(forwarded) /\ forwarded \subseteq Packets
  BY <1>2, FS_Subset
<1>4. copies \subseteq SUBSET forwarded
  OBVIOUS
<1>5. X = {f[P] : P \in copies}
  BY Zenon
<1>6. Y = {g[a] : a \in Answered(c)}
  BY Zenon
<1> HIDE DEF forwarded, copies
<1>7. IsFiniteSet(copies)
  <2>1. IsFiniteSet(SUBSET forwarded)
    BY <1>3, FS_SUBSET
  <2> QED
    BY <1>4, <2>1, FS_Subset
<1>8. IsFiniteSet(X) /\ IsFiniteSet(Y)
  <2> HIDE DEF f, g, X, Y, c
  <2> QED
    BY <1>2, <1>5, <1>6, <1>7, ImageFinite
<1>9. X \subseteq Seq(Packets)
  <2> SUFFICES ASSUME NEW P \in copies PROVE SetToSeq(P) \in Seq(Packets)
    BY Zenon
  <2>1. P \subseteq Packets /\ IsFiniteSet(P)
    BY <1>3, <1>4, FS_Subset
  <2>2. SetToSeq(P) \in Seq(P)
    BY <2>1, SetToSeqFacts
  <2> QED
    BY <2>1, <2>2
<1>10. Y \subseteq Seq(Packets)
  <2> SUFFICES ASSUME NEW a \in Answered(c) PROVE Reassemble(a) \in Seq(Packets)
    BY Zenon
  <2> HIDE DEF c
  <2> QED
    BY <1>2, ReassembleType
<1>11. Z = {h[pkts] : pkts \in X \cup Y}
  <2> HIDE DEF X, Y
  <2> QED
    BY Zenon
<1> HIDE DEF X, Y, h
<1>12. IsFiniteSet(Z)
  <2>1. IsFiniteSet(X \cup Y)
    BY <1>8, FS_Union
  <2> HIDE DEF Z
  <2> QED
    BY <1>11, <2>1, ImageFinite
<1>13. Z \subseteq Results
  <2> SUFFICES ASSUME NEW pkts \in X \cup Y PROVE result(pkts) \in Results
    BY Zenon
  <2>1. pkts \in Seq(Packets)
    BY <1>9, <1>10
  <2> QED
    BY <2>1 DEF Results
<1>14. none \in Results
  <2>1. <<>> \in Seq(Packets)
    OBVIOUS
  <2> QED
    BY <2>1 DEF Results
<1> HIDE DEF Z, none
<1>15. IsFiniteSet({none} \cup Z)
  BY <1>12, FS_Singleton, FS_Union
<1> QED
  BY <1>1, <1>13, <1>14, <1>15

LEMMA AnswersType ==
  ASSUME NEW s, Arrived(Cur(s)), NEW results \in Answers(s)
  PROVE  results \in Seq(Results) /\ results # <<>>
<1> DEFINE M == MbResults(s)
           U == UNION {kSubset(k, M) : k \in 1 .. MaxResults}
<1>1. PICK R \in U : results = SetToSeq(R)
  BY DEF Answers
<1>2. PICK k \in 1 .. MaxResults : R \in kSubset(k, M)
  OBVIOUS
<1>3. R \subseteq M /\ Cardinality(R) = k
  BY <1>2 DEF kSubset
<1>4. M \subseteq Results /\ IsFiniteSet(M)
  BY MbResultsType
<1> HIDE DEF M, U
<1>5. IsFiniteSet(R) /\ R \subseteq Results
  BY <1>3, <1>4, FS_Subset
<1>6. R # {}
  <2>1. k # 0
    BY PlanktonAssumption
  <2> QED
    BY <1>3, <2>1, FS_EmptySet
<1>7. SetToSeq(R) \in Seq(R) /\ SetToSeq(R) # <<>>
  BY <1>5, <1>6, SetToSeqFacts
<1> QED
  BY <1>1, <1>5, <1>7

-----------------------------------------------------------------------------
(* Forwarding: an injection                                                *)

Injected(c, x, m) == [c EXCEPT !.results = x, !.mode = m]

LEMMA InjectedType ==
  ASSUME NEW c \in ConnRecs, NEW x \in Seq(Results), NEW m \in Modes,
         NEW d, d = Injected(c, x, m)
  PROVE  /\ d \in ConnRecs /\ SameFlow(c, d) /\ d.mode = m /\ d.results = x
         /\ d.executable = c.executable /\ d.loc = c.loc
<1>1. d \in ConnRecs
  BY DEF ConnRecs, Injected
<1>2. /\ SameFlow(c, d) /\ d.mode = m /\ d.results = x
      /\ d.executable = c.executable /\ d.loc = c.loc
  BY DEF ConnRecs, SameFlow, Injected
<1> QED
  BY <1>1, <1>2

LEMMA InjectsFacts ==
  ASSUME NEW s, Sane(s), Ready(s), Injects(s)
  PROVE  /\ s.process = "forwarding" /\ Cur(s).mode = "COLLECT_NHOPS"
         /\ Arrived(Cur(s)) /\ Cur(s).executable = 2
<1>1. s.process = "forwarding" /\ Cur(s).mode \in {"FIRST_COLLECT", "COLLECT_NHOPS"}
      /\ Cur(s).loc \in Emulated
  BY DEF Injects
<1>2. Cur(s).mode = "COLLECT_NHOPS"
  BY <1>1, ForwardingReady DEF Sound
<1> QED
  BY <1>1, <1>2, ForwardingReady DEF Sound, Arrived

LEMMA InjectStepped ==
  ASSUME NEW s, Sane(s), Ready(s), Injects(s), NEW results \in Answers(s)
  PROVE  Stepped(s, CollectNextHops(s, results))
<1> DEFINE c == Cur(s)
           d == Injected(c, results, "CHOOSE_INJ_RES")
<1>1. /\ s.process = "forwarding" /\ c.mode = "COLLECT_NHOPS" /\ Arrived(c)
      /\ c.executable = 2 /\ c \in ConnRecs /\ Sound(c) /\ s \in States
  BY InjectsFacts, ForwardingReady
<1>2. results \in Seq(Results) /\ Len(results) \in Nat /\ results # <<>>
  <2>1. results \in Seq(Results) /\ results # <<>>
    BY <1>1, AnswersType
  <2> QED
    BY <2>1
<1>3. CollectNextHops(s, results) = [SetCur(s, d) EXCEPT !.choiceCount = Len(results)]
  BY <1>1 DEF CollectNextHops, InjectPacket, Injected, Arrived
<1>4. /\ d \in ConnRecs /\ SameFlow(c, d) /\ d.mode = "CHOOSE_INJ_RES" /\ d.results = results
      /\ d.executable = 2 /\ d.loc = c.loc
  <2>1. d = Injected(c, results, "CHOOSE_INJ_RES")
    OBVIOUS
  <2> HIDE DEF c, d
  <2>2. /\ d \in ConnRecs /\ SameFlow(c, d) /\ d.mode = "CHOOSE_INJ_RES" /\ d.results = results
        /\ d.executable = c.executable /\ d.loc = c.loc
    <3>1. c \in ConnRecs /\ results \in Seq(Results) /\ "CHOOSE_INJ_RES" \in Modes
      BY <1>1, <1>2, ModesType
    <3> QED
      BY <2>1, <3>1, InjectedType
  <2> QED
    BY <1>1, <2>2
<1> HIDE DEF d, c
<1>5. Sound(d)
  BY <1>1, <1>2, <1>4 DEF Sound, SameFlow, Outbound, Arrived
<1>6. Offered(d) = Len(results) /\ ~AtMb(d) /\ d.visited = c.visited
  BY <1>4 DEF Offered, AtMb, Outbound, SameFlow
<1>7. Stepped(s, [SetCur(s, d) EXCEPT !.choiceCount = Len(results)])
  BY <1>1, <1>2, <1>4, <1>5, <1>6, NextConn DEF c
<1> QED
  BY <1>3, <1>7
-----------------------------------------------------------------------------
(* Forwarding: the connection and the protocol state of a packet           *)

LEMMA IdentifyType ==
  ASSUME NEW s, s.numConns \in Nat, NEW p
  PROVE  IdentifyConn(s, p) \in 1 .. s.numConns + 1
<1> DEFINE owners == {i \in 1 .. s.numConns : Belongs(s.conns[i], p)}
<1>1. owners \subseteq 1 .. s.numConns
  OBVIOUS
<1>2. IdentifyConn(s, p) =
        IF s.conn \in owners THEN s.conn
        ELSE IF owners # {} THEN CHOOSE i \in owners : \A j \in owners : i <= j
        ELSE s.numConns + 1
  BY DEF IdentifyConn
<1> DEFINE first == CHOOSE i \in owners : \A j \in owners : i <= j
<1> HIDE DEF owners
<1>3. owners # {} => first \in owners
  <2> SUFFICES ASSUME owners # {} PROVE first \in owners
    OBVIOUS
  <2>1. owners \subseteq Nat
    BY <1>1
  <2>2. \E i \in owners : \A j \in owners : i <= j
    BY <2>1, LeastNatural
  <2> QED
    BY <2>2
<1> DEFINE x == IdentifyConn(s, p)
<1>4. x \in owners \/ x = s.numConns + 1
  BY <1>2, <1>3
<1> HIDE DEF x, first
<1>5. CASE x \in owners
  <2>1. x \in 1 .. s.numConns
    BY <1>1, <1>5
  <2> QED
    BY <2>1 DEF x
<1>6. CASE x = s.numConns + 1
  BY <1>6 DEF x
<1> QED
  BY <1>4, <1>5, <1>6

LEMMA AckStateType ==
  ASSUME NEW hasPayload \in BOOLEAN, NEW old \in ProtoStates, NEW opposite \in BOOLEAN
  PROVE  AckState(hasPayload, old, opposite) \in 0 .. 14
<1>1. CASE old = 14
  <2>1. /\ old \notin {2, 9} /\ old \notin {3, 5} /\ old # 4 /\ old # 6
        /\ old \notin {4, 6} /\ old \notin {7, 10}
    BY <1>1
  <2>2. AckState(hasPayload, old, opposite) = Bad
    BY <2>1, Zenon DEF AckState
  <2> QED
    BY <2>2 DEF Bad
<1>2. CASE old # 14
  <2>1. AckState(hasPayload, old, opposite) \in
          {old + 1, IF hasPayload THEN old + 1 ELSE old, IF hasPayload THEN 6 ELSE 5, 7, old, Bad}
    BY Zenon DEF AckState
  <2>2. old + 1 \in 0 .. 14 /\ old \in 0 .. 14
    BY <1>2 DEF ProtoStates
  <2> QED
    BY <2>1, <2>2 DEF Bad
<1> QED
  BY <1>1, <1>2

LEMMA FinStateType ==
  ASSUME NEW old, NEW opposite \in BOOLEAN
  PROVE  FinState(old, opposite) \in 0 .. 14
<1>1. FinState(old, opposite) \in {8, IF opposite THEN 9 ELSE 8, 9, Bad}
  BY Zenon DEF FinState
<1> QED
  BY <1>1 DEF Bad

LEMMA StateOfType ==
  ASSUME NEW s, Sane(s), NEW p \in Packets
  PROVE  StateOf(s, p) = Bad \/ StateOf(s, p) \in ProtoStates
<1> DEFINE i == IdentifyConn(s, p)
           old == s.conns[i].proto
           opposite == ~SameDirection(s.conns[i], p)
<1>1. s.numConns \in Nat /\ i \in 1 .. s.numConns + 1
  <2>1. s.numConns \in Nat
    BY DEF Sane, Conns
  <2> QED
    BY <2>1, IdentifyType
<1>2. CASE i > s.numConns
  <2> DEFINE r == NewState(p)
  <2>1. StateOf(s, p) = r
    BY <1>2, Zenon DEF StateOf
  <2>2. r \in {11, 1, 13, Bad}
    BY Zenon DEF NewState
  <2> HIDE DEF r
  <2> QED
    BY <2>1, <2>2 DEF ProtoStates
<1>3. CASE ~(i > s.numConns)
  <2> DEFINE r == KnownState(p, old, opposite)
             t == TcpState(p, old, opposite)
  <2>1. StateOf(s, p) = r
    BY <1>3, Zenon DEF StateOf
  <2>2. i \in 1 .. s.numConns
    BY <1>1, <1>3
  <2>3. old \in ProtoStates
    BY <2>2 DEF Sane, Sound
  <2>4. opposite \in BOOLEAN
    BY DEF SameDirection
  <2>5. p \in PacketRecs /\ (p.protocol = "tcp" => p.flags \in TcpFlags)
        /\ p.protocol \in Protocols
    BY DEF Packets, PacketRecs
  <2> HIDE DEF i, old, opposite
  <2>6. ASSUME p.flags \in TcpFlags
        PROVE  t \in 0 .. 14
    <3> DEFINE h == p.payload > 0
    <3>1. p.flags = "syn" \/ p.flags = "synack" \/ p.flags = "ack" \/ p.flags = "fin"
      BY <2>6 DEF TcpFlags
    <3>2. \/ t = 1 \/ t = 2 \/ t = AckState(h, old, opposite)
          \/ t = FinState(old, opposite)
      BY <3>1, Zenon DEF TcpState
    <3>3. h \in BOOLEAN
      OBVIOUS
    <3> HIDE DEF h, t
    <3>4. AckState(h, old, opposite) \in 0 .. 14 /\ FinState(old, opposite) \in 0 .. 14
      BY <2>3, <2>4, <3>3, AckStateType, FinStateType
    <3> QED
      BY <3>2, <3>4
  <2>7. \/ p.protocol = "tcp" /\ r = t
        \/ r = old \/ r = 12 \/ r = Bad \/ r = 13 \/ r = 14
    <3>1. p.protocol = "tcp" \/ p.protocol = "udp" \/ p.protocol = "icmp_echo"
      BY <2>5 DEF Protocols
    <3>2. "tcp" # "udp" /\ "tcp" # "icmp_echo" /\ "udp" # "icmp_echo"
      OBVIOUS
    <3> QED
      BY <3>1, <3>2, Zenon DEF KnownState
  <2> HIDE DEF r, t
  <2>8. r \in 0 .. 14
    BY <2>3, <2>5, <2>6, <2>7 DEF Bad, ProtoStates
  <2> QED
    BY <2>1, <2>8 DEF Bad, ProtoStates
<1> QED
  BY <1>2, <1>3
-----------------------------------------------------------------------------
(* Forwarding: what a packet of a middlebox makes of its connection        *)

Labelled(c, st, src, dst, ports, seq, ack, payload, fib, cands) ==
  [c EXCEPT !.executable = 2, !.proto = st, !.src = src, !.dst = dst, !.ports = ports,
            !.seq = seq, !.ack = ack, !.payload = payload, !.fib = fib, !.candidates = cands]

LEMMA LabelledType ==
  ASSUME NEW c \in ConnRecs, NEW st \in ProtoStates, NEW src \in Ecs, NEW dst \in Ecs,
         NEW ports \in Ports, NEW seq \in SeqNums, NEW ack \in SeqNums, NEW payload \in Nat,
         NEW fib \in Fibs, NEW cands \in Seq(Nodes),
         NEW d, d = Labelled(c, st, src, dst, ports, seq, ack, payload, fib, cands)
  PROVE  /\ d \in ConnRecs
         /\ d.executable = 2 /\ d.proto = st /\ d.src = src /\ d.dst = dst
         /\ d.candidates = cands /\ d.srcNode = c.srcNode /\ d.txNode = c.txNode
         /\ d.loc = c.loc /\ d.visited = c.visited
<1>1. src \in AnyEc /\ dst \in AnyEc /\ st \in 0 .. 14 /\ 2 \in 0 .. 2
  BY DEF AnyEc, ProtoStates
<1>2. d \in ConnRecs
  BY <1>1 DEF ConnRecs, Labelled
<1>3. /\ d.executable = 2 /\ d.proto = st /\ d.src = src /\ d.dst = dst
      /\ d.candidates = cands /\ d.srcNode = c.srcNode /\ d.txNode = c.txNode
      /\ d.loc = c.loc /\ d.visited = c.visited
  BY DEF ConnRecs, Labelled
<1> QED
  BY <1>2, <1>3

\* What the connection of a packet from the middlebox mb becomes.
SentFrom(c, d) ==
  /\ d \in ConnRecs
  /\ d.executable = c.executable /\ d.proto = c.proto /\ d.src = c.src /\ d.dst = c.dst
  /\ d.candidates = c.candidates /\ d.visited = c.visited /\ Outbound(d)

LEMMA StartedType ==
  ASSUME NEW c \in ConnRecs, NEW mb \in Nodes, NEW d, d = Started(c, mb)
  PROVE  SentFrom(c, d) /\ d.srcNode = mb /\ d.txNode = mb /\ d.loc = mb
<1>1. mb \in AnyNode /\ NoNode \in AnyNode
  BY DEF AnyNode
<1>2. {} \in SUBSET [ec : Ecs, node : Nodes, hop : Nodes]
  OBVIOUS
<1>3. d \in ConnRecs
  BY <1>1, <1>2, ModesType DEF ConnRecs, Started
<1>4. /\ d.executable = c.executable /\ d.proto = c.proto /\ d.src = c.src /\ d.dst = c.dst
      /\ d.candidates = c.candidates /\ d.visited = c.visited /\ d.mode = "FIRST_FORWARD"
      /\ d.srcNode = mb /\ d.txNode = mb /\ d.loc = mb
  BY DEF ConnRecs, Started
<1> QED
  BY <1>3, <1>4 DEF SentFrom, Outbound

LEMMA ContinuedType ==
  ASSUME NEW old, NEW c \in ConnRecs, NEW p, NEW mb \in Nodes, old.srcNode \in Nodes,
         c.loc \in Nodes, c.srcNode \in Nodes,
         NEW d, d = Continued(old, c, p, mb)
  PROVE  SentFrom(c, d) /\ d.srcNode \in Nodes /\ d.loc \in Nodes /\ d.txNode = c.txNode
<1> DEFINE from == old.srcNode
           x == [c EXCEPT !.mode = "FORWARD_PACKET"]
           y == [c EXCEPT !.mode = "FIRST_FORWARD", !.srcNode = mb]
           z == [c EXCEPT !.mode = "FIRST_FORWARD", !.loc = from]
<1>1. d = x \/ d = y \/ d = z
  BY DEF Continued
<1>2. from \in Nodes /\ from \in AnyNode /\ mb \in AnyNode
  BY DEF AnyNode
<1> HIDE DEF from
<1>3. CASE d = x
  <2>1. d \in ConnRecs
    BY <1>3, ModesType DEF ConnRecs
  <2>2. /\ d.executable = c.executable /\ d.proto = c.proto /\ d.src = c.src /\ d.dst = c.dst
        /\ d.candidates = c.candidates /\ d.visited = c.visited /\ d.mode = "FORWARD_PACKET"
        /\ d.srcNode = c.srcNode /\ d.txNode = c.txNode /\ d.loc = c.loc
    BY <1>3 DEF ConnRecs
  <2> QED
    BY <2>1, <2>2 DEF SentFrom, Outbound
<1>4. CASE d = y
  <2>1. d \in ConnRecs
    BY <1>2, <1>4, ModesType DEF ConnRecs
  <2>2. /\ d.executable = c.executable /\ d.proto = c.proto /\ d.src = c.src /\ d.dst = c.dst
        /\ d.candidates = c.candidates /\ d.visited = c.visited /\ d.mode = "FIRST_FORWARD"
        /\ d.srcNode = mb /\ d.txNode = c.txNode /\ d.loc = c.loc
    BY <1>4 DEF ConnRecs
  <2> QED
    BY <2>1, <2>2 DEF SentFrom, Outbound
<1>5. CASE d = z
  <2>1. d \in ConnRecs
    BY <1>2, <1>5, ModesType DEF ConnRecs
  <2>2. /\ d.executable = c.executable /\ d.proto = c.proto /\ d.src = c.src /\ d.dst = c.dst
        /\ d.candidates = c.candidates /\ d.visited = c.visited /\ d.mode = "FIRST_FORWARD"
        /\ d.srcNode = c.srcNode /\ d.txNode = c.txNode /\ d.loc = from
    BY <1>5 DEF ConnRecs
  <2> QED
    BY <1>2, <2>1, <2>2 DEF SentFrom, Outbound
<1> QED
  BY <1>1, <1>3, <1>4, <1>5

\* A state with one connection replaced, or put after the others.
WithConn(s, n, i, d) == [s EXCEPT !.numConns = n, !.conns[i] = d]

LEMMA WithConnType ==
  ASSUME NEW s \in States, NEW n \in 0 .. MaxConns, NEW i \in Conns, NEW d \in ConnRecs,
         d.visited = s.conns[i].visited, NEW t, t = WithConn(s, n, i, d)
  PROVE  /\ t \in States /\ t.numConns = n /\ t.conns[i] = d
         /\ \A j \in Conns : j # i => t.conns[j] = s.conns[j]
         /\ t.conn = s.conn /\ t.process = s.process /\ t.installed = s.installed
         /\ t.failed = s.failed /\ Keeps(s, t)
<1>1. s.conns \in [Conns -> ConnRecs]
  BY DEF States
<1>2. /\ t \in States /\ t.numConns = n
      /\ t.conn = s.conn /\ t.process = s.process /\ t.installed = s.installed
      /\ t.failed = s.failed /\ t.idx = s.idx /\ t.violated = s.violated
      /\ t.reachCounts = s.reachCounts
  BY <1>1 DEF States, WithConn
<1>3. t.conns = [s.conns EXCEPT ![i] = d]
  BY DEF States, WithConn
<1>4. t.conns[i] = d /\ \A j \in Conns : j # i => t.conns[j] = s.conns[j]
  BY <1>1, <1>3
<1>5. \A j \in Conns : t.conns[j].visited = s.conns[j].visited
  BY <1>4
<1> QED
  BY <1>2, <1>4, <1>5 DEF Keeps

\* A connection after a packet: it goes on, outside the middleboxes.
GoesOn(c) == c.executable = 2 /\ Outbound(c)

\* A packet makes t of the state s, for connection i.
Receives(s, t, i) ==
  /\ Sane(t) /\ ~t.failed /\ t.conn = s.conn /\ t.process = s.process /\ Keeps(s, t)
  /\ t.numConns >= s.numConns /\ i \in 1 .. t.numConns
  /\ GoesOn(t.conns[i])
  /\ \A j \in 1 .. t.numConns : j # i => j <= s.numConns /\ t.conns[j] = s.conns[j]

LEMMA ReceiveFacts ==
  ASSUME NEW s, Sane(s), ~s.failed, NEW mb \in Nodes, NEW p \in Packets,
         NEW t, t = Receive(s, mb, p)
  PROVE  t = Fail(s) \/ Receives(s, t, IdentifyConn(s, p))
<1> DEFINE i == IdentifyConn(s, p)
           st == StateOf(s, p)
           old == s.conns[i]
           hop == GetIpnh[p.intf][p.dst]
           fib == IF old.dst = p.dst THEN old.fib ELSE FibFor(s, p.dst)
           cands == IF hop = NoNode THEN <<>> ELSE <<hop>>
           c == Labelled(old, st, p.src, p.dst, p.ports, p.seq, p.ack, p.payload, fib, cands)
           d == IF i > s.numConns THEN Started(c, mb) ELSE Continued(old, c, p, mb)
           n == IF i > s.numConns THEN i ELSE s.numConns
<1> SUFFICES ASSUME t # Fail(s)
             PROVE  Receives(s, t, i)
  OBVIOUS
<1>1. s \in States /\ s.numConns \in Conns /\ s.conns \in [Conns -> ConnRecs]
  BY DEF Sane, States
<1>2. s.numConns \in 1 .. MaxConns /\ i \in 1 .. s.numConns + 1
  <2>1. s.numConns \in Nat /\ s.numConns \in 1 .. MaxConns
    BY <1>1 DEF Conns
  <2> QED
    BY <2>1, IdentifyType
<1>3. i <= MaxConns /\ st # Bad
  <2>1. ~(i > MaxConns) /\ st # Bad
    BY Zenon DEF Receive
  <2> HIDE DEF i, st
  <2> QED
    BY <1>2, <2>1, ModelStateAssumption
<1>4. t = IF i > s.numConns THEN [s EXCEPT !.numConns = i, !.conns[i] = Started(c, mb)]
          ELSE [s EXCEPT !.conns[i] = Continued(old, c, p, mb)]
  BY <1>3 DEF Receive, Labelled
<1>5. mb \in Nodes
  OBVIOUS
<1>6. /\ p.src \in Ecs /\ p.dst \in Ecs /\ p.ports \in Ports /\ p.seq \in SeqNums
      /\ p.ack \in SeqNums /\ p.payload \in Nat /\ p.intf \in Intfs
  BY DEF Packets, PacketRecs
<1>7. hop \in AnyNode
  BY <1>6, IpnhType, ModelStateAssumption
<1>8. cands \in Seq(Nodes) /\ (Routed => cands # <<>>)
  <2>1. Routed => hop # NoNode
    BY <1>6 DEF Routed, Packets
  <2> HIDE DEF hop
  <2>2. hop # NoNode => hop \in Nodes
    BY <1>7 DEF AnyNode
  <2>3. CASE hop = NoNode
    BY <2>1, <2>3
  <2>4. CASE hop # NoNode
    BY <2>2, <2>4
  <2> QED
    BY <2>3, <2>4
<1>9. i \in Conns /\ old \in ConnRecs /\ st \in ProtoStates
  <2>1. i \in Conns
    BY <1>2, <1>3 DEF Conns
  <2> QED
    BY <1>1, <1>3, <2>1, StateOfType
<1>10. fib \in Fibs
  <2>1. old.fib \in Fibs
    BY <1>9 DEF ConnRecs
  <2>2. FibFor(s, p.dst) \in Fibs
    BY <1>6, FibType DEF Sane
  <2> QED
    BY <2>1, <2>2
<1> DEFINE src == p.src
           dst == p.dst
           ports == p.ports
           seq == p.seq
           ack == p.ack
           payload == p.payload
<1>11. /\ c \in ConnRecs
       /\ c.executable = 2 /\ c.proto = st /\ c.src = p.src /\ c.dst = p.dst
       /\ c.candidates = cands /\ c.srcNode = old.srcNode /\ c.txNode = old.txNode
       /\ c.loc = old.loc /\ c.visited = old.visited
  <2>1. /\ old \in ConnRecs /\ st \in ProtoStates /\ src \in Ecs /\ dst \in Ecs
        /\ ports \in Ports /\ seq \in SeqNums /\ ack \in SeqNums /\ payload \in Nat
        /\ fib \in Fibs /\ cands \in Seq(Nodes)
    BY <1>6, <1>8, <1>9, <1>10
  <2>2. c = Labelled(old, st, src, dst, ports, seq, ack, payload, fib, cands)
    OBVIOUS
  <2> HIDE DEF c, fib, cands, st, old, src, dst, ports, seq, ack, payload
  <2>3. /\ c \in ConnRecs
        /\ c.executable = 2 /\ c.proto = st /\ c.src = src /\ c.dst = dst
        /\ c.candidates = cands /\ c.srcNode = old.srcNode /\ c.txNode = old.txNode
        /\ c.loc = old.loc /\ c.visited = old.visited
    BY <2>1, <2>2, LabelledType
  <2> QED
    BY <2>3 DEF src, dst
<1>12. i <= s.numConns => Sound(old)
  BY <1>2 DEF Sane
<1> HIDE DEF c, fib, cands, st, old, hop, i
<1>13. /\ SentFrom(c, d)
       /\ d.srcNode \in Nodes /\ d.loc \in Nodes /\ d.txNode \in Nodes
  <2>1. CASE i > s.numConns
    BY <1>5, <1>11, <2>1, StartedType
  <2>2. CASE ~(i > s.numConns)
    <3>1. {old.srcNode, old.txNode, old.loc} \subseteq Nodes
      BY <1>2, <1>12, <2>2 DEF Sound
    <3>2. d = Continued(old, c, p, mb) /\ old.srcNode \in Nodes /\ c.loc \in Nodes
          /\ c.srcNode \in Nodes /\ c.txNode \in Nodes
      BY <1>11, <2>2, <3>1
    <3> HIDE DEF d
    <3> QED
      BY <1>5, <1>11, <3>2, ContinuedType
  <2> QED
    BY <2>1, <2>2
<1>14. t = WithConn(s, n, i, d)
  <2>1. CASE i > s.numConns
    BY <1>4, <2>1 DEF WithConn
  <2>2. CASE ~(i > s.numConns)
    <3> DEFINE x == Continued(old, c, p, mb)
    <3>1. t = [s EXCEPT !.conns[i] = x] /\ n = s.numConns /\ d = x
      BY <1>4, <2>2
    <3> HIDE DEF x, n, d
    <3> QED
      BY <1>1, <3>1 DEF WithConn, States
  <2> QED
    BY <2>1, <2>2
<1>15. n \in 0 .. MaxConns /\ n >= s.numConns /\ i \in 1 .. n /\ n \in Conns
  BY <1>2, <1>3 DEF Conns
<1> HIDE DEF d, n
<1>16. /\ Sound(d) /\ GoesOn(d) /\ d.visited = s.conns[i].visited /\ d \in ConnRecs
  <2>1. /\ d.proto \in ProtoStates /\ d.dst \in Ecs /\ d.src \in Ecs /\ d.executable = 2
        /\ Outbound(d) /\ (Routed => d.candidates # <<>>) /\ d.visited = s.conns[i].visited
        /\ d \in ConnRecs
    BY <1>6, <1>8, <1>9, <1>11, <1>13 DEF SentFrom, old
  <2> QED
    BY <1>13, <2>1 DEF Sound, GoesOn, Outbound
<1>17. /\ t \in States /\ t.numConns = n /\ t.conns[i] = d
       /\ \A j \in Conns : j # i => t.conns[j] = s.conns[j]
       /\ t.conn = s.conn /\ t.process = s.process /\ t.installed = s.installed
       /\ t.failed = s.failed /\ Keeps(s, t)
  BY <1>1, <1>9, <1>14, <1>15, <1>16, WithConnType
<1>18. \A j \in 1 .. n : j \in Conns /\ (j # i => j \in 1 .. s.numConns)
  <2>1. n = i \/ n = s.numConns
    BY DEF n
  <2>2. /\ s.numConns \in Nat /\ MaxConns \in Nat /\ i \in Nat /\ n \in Nat
        /\ n <= MaxConns /\ i <= s.numConns + 1 /\ s.numConns <= n
    BY <1>2, <1>15, ModelStateAssumption
  <2>3. ASSUME NEW j \in 1 .. n
        PROVE  j \in 1 .. MaxConns /\ (j # i => j \in 1 .. s.numConns)
    BY <2>1, <2>2
  <2> QED
    BY <2>3 DEF Conns
<1>19. Sane(t)
  <2>1. t.conn \in 1 .. t.numConns
    BY <1>1, <1>2, <1>15, <1>17 DEF Sane
  <2>2. \A j \in 1 .. t.numConns : Sound(t.conns[j])
    BY <1>16, <1>17, <1>18 DEF Sane
  <2> QED
    BY <1>15, <1>17, <2>1, <2>2 DEF Sane, InstalledOK
<1>20. \A j \in 1 .. t.numConns : j # i => j <= s.numConns /\ t.conns[j] = s.conns[j]
  BY <1>2, <1>17, <1>18
<1> QED
  BY <1>15, <1>16, <1>17, <1>19, <1>20 DEF Receives

\* What some of the packets of a result have made of the state s: the connections
\* they update go on, and the others are as they were.
ReceivedFrom(s) ==
  {u \in [state : States, updated : SUBSET Nat] :
     /\ Sane(u.state) /\ u.state.conn = s.conn /\ u.state.process = s.process
     /\ Keeps(s, u.state)
     /\ ~u.state.failed =>
          /\ u.state.numConns >= s.numConns
          /\ u.updated \subseteq 1 .. u.state.numConns
          /\ \A j \in u.updated : GoesOn(u.state.conns[j])
          /\ \A j \in 1 .. u.state.numConns :
               j \notin u.updated => j <= s.numConns /\ u.state.conns[j] = s.conns[j]}

\* The loop body of ReceiveAll.
ReceiveOne(mb, u, p) ==
  IF u.state.failed \/ Stale(u.state, p) THEN u
  ELSE [state |-> Receive(u.state, mb, p),
        updated |-> u.updated \cup {IdentifyConn(u.state, p)}]

LEMMA ReceiveOneType ==
  ASSUME NEW s, Sane(s), NEW mb \in Nodes, NEW u \in ReceivedFrom(s), NEW p \in Packets
  PROVE  ReceiveOne(mb, u, p) \in ReceivedFrom(s)
<1> DEFINE v == u.state
           i == IdentifyConn(v, p)
           t == Receive(v, mb, p)
           w == u.updated \cup {i}
           x == [state |-> t, updated |-> w]
<1> SUFFICES ASSUME ~v.failed
             PROVE  x \in ReceivedFrom(s)
  BY DEF ReceiveOne
<1>1. /\ v \in States /\ u.updated \in SUBSET Nat
      /\ Sane(v) /\ v.conn = s.conn /\ v.process = s.process /\ Keeps(s, v)
      /\ v.numConns >= s.numConns
      /\ u.updated \subseteq 1 .. v.numConns
      /\ \A j \in u.updated : GoesOn(v.conns[j])
      /\ \A j \in 1 .. v.numConns :
           j \notin u.updated => j <= s.numConns /\ v.conns[j] = s.conns[j]
  BY DEF ReceivedFrom
<1>2. s.numConns \in Nat /\ v.numConns \in Nat
  BY <1>1 DEF Sane, Conns
<1>3. i \in 1 .. v.numConns + 1
  BY <1>2, IdentifyType
<1>4. w \in SUBSET Nat
  BY <1>1, <1>2, <1>3
<1>5. x.state = t /\ x.updated = w
  OBVIOUS
<1>6. t = Fail(v) \/ Receives(v, t, i)
  <2> HIDE DEF v
  <2> QED
    BY <1>1, ReceiveFacts
<1> HIDE DEF t, w, i, v
<1>7. CASE t = Fail(v)
  <2>1. /\ Sane(t) /\ t.process = v.process /\ Keeps(v, t) /\ t.failed
    BY <1>1, <1>7, FailStepped DEF Stepped
  <2>2. t.conn = v.conn /\ t \in States
    BY <1>1, <1>7, <2>1 DEF Fail, States, Sane
  <2>3. Keeps(s, t)
    BY <1>1, <2>1 DEF Keeps
  <2>4. x \in [state : States, updated : SUBSET Nat]
    BY <1>4, <2>2
  <2> HIDE DEF x
  <2> QED
    BY <1>1, <1>5, <2>1, <2>2, <2>3, <2>4 DEF ReceivedFrom
<1>8. CASE Receives(v, t, i)
  <2>1. /\ Sane(t) /\ t \in States /\ ~t.failed /\ t.conn = v.conn
        /\ t.process = v.process /\ Keeps(v, t)
        /\ t.numConns >= v.numConns /\ i \in 1 .. t.numConns
        /\ GoesOn(t.conns[i])
        /\ \A j \in 1 .. t.numConns : j # i => j <= v.numConns /\ t.conns[j] = v.conns[j]
    BY <1>8 DEF Receives, Sane
  <2>2. t.numConns \in Nat
    BY <2>1 DEF Sane, Conns
  <2>3. Keeps(s, t)
    BY <1>1, <2>1 DEF Keeps
  <2>4. x \in [state : States, updated : SUBSET Nat]
    BY <1>4, <2>1
  <2>5. \A j \in 1 .. v.numConns : j \in 1 .. t.numConns
    BY <1>2, <2>1, <2>2
  <2>6. w \subseteq 1 .. t.numConns
    BY <1>1, <2>1, <2>5 DEF w
  <2>7. \A j \in w : GoesOn(t.conns[j])
    BY <1>1, <2>1, <2>5 DEF w
  <2>8. \A j \in 1 .. t.numConns : j \notin w => j <= s.numConns /\ t.conns[j] = s.conns[j]
    <3> SUFFICES ASSUME NEW j \in 1 .. t.numConns, j \notin w
                 PROVE  j <= s.numConns /\ t.conns[j] = s.conns[j]
      OBVIOUS
    <3>1. j # i /\ j \notin u.updated
      BY DEF w
    <3>2. j <= v.numConns /\ t.conns[j] = v.conns[j] /\ j \in 1 .. v.numConns
      BY <1>2, <2>1, <2>2, <3>1
    <3> QED
      BY <1>1, <3>1, <3>2
  <2>9. t.numConns >= s.numConns
    BY <1>1, <1>2, <2>1, <2>2
  <2> HIDE DEF x
  <2> QED
    BY <1>1, <1>5, <2>1, <2>3, <2>4, <2>6, <2>7, <2>8, <2>9 DEF ReceivedFrom
<1> QED
  BY <1>6, <1>7, <1>8

\* A set that each packet leaves the loop of ReceiveAll in.
LEMMA ReceiveAllIn ==
  ASSUME NEW s, NEW mb, NEW pkts \in Seq(Packets), NEW S, NEW a \in S,
         a = [state |-> s, updated |-> {}],
         \A u \in S, p \in Packets : ReceiveOne(mb, u, p) \in S
  PROVE  ReceiveAll(s, mb, pkts) \in S
<1> DEFINE n == Len(pkts)
           after[k \in 0 .. n] == IF k = 0 THEN a ELSE ReceiveOne(mb, after[k - 1], pkts[k])
           D == [x \in S \X (1 .. n) |-> ReceiveOne(mb, x[1], pkts[x[2]])]
<1>1. n \in Nat /\ \A k \in 1 .. n : pkts[k] \in Packets
  OBVIOUS
<1>2. ReceiveAll(s, mb, pkts) = after[n]
  BY Zenon DEF ReceiveAll, ReceiveOne
<1>3. \A u \in S, k \in 1 .. n : ReceiveOne(mb, u, pkts[k]) \in S
  BY <1>1
<1>4. D \in Bodies(S, n) /\ \A u \in S, k \in 1 .. n : D[<<u, k>>] = ReceiveOne(mb, u, pkts[k])
  BY <1>3 DEF Bodies
<1> HIDE DEF n, D
<1>5. PICK g \in [0 .. n -> S] : Iterates(g, a, D, n)
  <2> HIDE DEF after
  <2> QED
    BY <1>1, <1>4, LoopRuns
<1>6. ASSUME NEW k \in 0 .. n
      PROVE  g[k] = IF k = 0 THEN a ELSE ReceiveOne(mb, g[k - 1], pkts[k])
  <2> HIDE DEF after
  <2>1. CASE k # 0
    <3>1. k \in 1 .. n /\ k - 1 \in 0 .. n
      BY <1>1, <2>1
    <3> QED
      BY <1>4, <1>5, <2>1, <3>1 DEF Iterates
  <2> QED
    BY <1>5, <2>1 DEF Iterates
<1>7. g = [k \in 0 .. n |-> IF k = 0 THEN a ELSE ReceiveOne(mb, g[k - 1], pkts[k])]
  <2> HIDE DEF after
  <2> QED
    BY <1>6
<1>8. after = [k \in 0 .. n |-> IF k = 0 THEN a ELSE ReceiveOne(mb, after[k - 1], pkts[k])]
  BY <1>7
<1> HIDE DEF after
<1>9. after[0] \in S
  BY <1>1, <1>8
<1>10. ASSUME NEW k \in 1 .. n, after[k - 1] \in S
       PROVE  after[k] \in S
  <2>1. k \in 0 .. n /\ k # 0
    BY <1>1
  <2>2. after[k] = ReceiveOne(mb, after[k - 1], pkts[k])
    BY <1>8, <2>1
  <2> QED
    BY <1>3, <1>10, <2>2
<1>11. \A k \in 0 .. n : after[k] \in S
  BY <1>1, <1>9, <1>10, LoopInvariant
<1> QED
  BY <1>1, <1>2, <1>11

LEMMA ReceiveAllType ==
  ASSUME NEW s, Sane(s), ~s.failed, NEW mb \in Nodes, NEW pkts \in Seq(Packets)
  PROVE  ReceiveAll(s, mb, pkts) \in ReceivedFrom(s)
<1> DEFINE a == [state |-> s, updated |-> {}]
<1>1. a \in ReceivedFrom(s)
  <2>1. s \in States /\ Keeps(s, s) /\ s.numConns \in Nat
    BY DEF Sane, Keeps, Conns
  <2>2. a \in [state : States, updated : SUBSET Nat] /\ a.state = s /\ a.updated = {}
    BY <2>1
  <2> HIDE DEF a
  <2> QED
    BY <2>1, <2>2 DEF ReceivedFrom
<1>2. \A u \in ReceivedFrom(s), p \in Packets : ReceiveOne(mb, u, p) \in ReceivedFrom(s)
  BY ReceiveOneType
<1>3. a = [state |-> s, updated |-> {}]
  OBVIOUS
<1> HIDE DEF a
<1> QED
  BY <1>1, <1>2, <1>3, ReceiveAllIn
-----------------------------------------------------------------------------
(* Forwarding: an injection result                                         *)

Reached(c, e, m, x) == [c EXCEPT !.executable = e, !.mode = m, !.candidates = x]

LEMMA ReachedType ==
  ASSUME NEW c \in ConnRecs, NEW e \in 0 .. 2, NEW m \in Modes, NEW x \in Seq(Nodes),
         NEW d, d = Reached(c, e, m, x)
  PROVE  /\ d \in ConnRecs /\ SameFlow(c, d) /\ d.mode = m
         /\ d.candidates = x /\ d.executable = e /\ d.loc = c.loc
<1>1. d \in ConnRecs
  BY DEF ConnRecs, Reached
<1>2. /\ SameFlow(c, d) /\ d.mode = m
      /\ d.candidates = x /\ d.executable = e /\ d.loc = c.loc
  BY DEF ConnRecs, SameFlow, Reached
<1> QED
  BY <1>1, <1>2

LEMMA ConcludedStepped ==
  ASSUME NEW s, Sane(s), Ready(s), s.process = "forwarding", Cur(s).mode = "CHOOSE_INJ_RES",
         NEW dropped \in BOOLEAN, NEW u \in ReceivedFrom(s), ~u.state.failed
  PROVE  Stepped(s, Concluded(s, dropped, u.state, u.updated))
<1> DEFINE t == u.state
           updated == u.updated
           c == Cur(t)
           d == Reached(c, 2, "FORWARD_PACKET", <<Cur(s).loc>>)
           n == Len(c.candidates)
           v == Concluded(s, dropped, t, updated)
<1>1. /\ t \in States /\ updated \in SUBSET Nat
      /\ Sane(t) /\ t.conn = s.conn /\ t.process = "forwarding" /\ Keeps(s, t)
      /\ ~t.failed /\ t.numConns >= s.numConns
      /\ updated \subseteq 1 .. t.numConns
      /\ \A j \in updated : GoesOn(t.conns[j])
      /\ \A j \in 1 .. t.numConns :
           j \notin updated => j <= s.numConns /\ t.conns[j] = s.conns[j]
  BY DEF ReceivedFrom
<1>2. /\ Cur(s) \in ConnRecs /\ Sound(Cur(s)) /\ OthersSettled(s)
      /\ Cur(s).mode = "CHOOSE_INJ_RES" /\ Cur(s).executable = 2
  BY ForwardingReady
<1>3. v = IF s.conn \in updated
            THEN IF c.candidates = <<>> THEN DropCur(t) ELSE [t EXCEPT !.choiceCount = n]
          ELSE IF ~dropped /\ updated # {} THEN [SetCur(t, d) EXCEPT !.choiceCount = 1]
          ELSE DropCur(t)
  BY DEF Concluded, Reached
<1> HIDE DEF t, updated
<1>4. c \in ConnRecs /\ Sound(c)
  BY <1>1, CurType
<1>5. OthersSettled(t)
  <2> SUFFICES ASSUME NEW i \in 1 .. t.numConns, i # t.conn
               PROVE  Settled(t.conns[i])
    BY DEF OthersSettled
  <2>1. CASE i \in updated
    BY <1>1, <2>1 DEF GoesOn, Outbound, Settled, AtMb
  <2>2. CASE i \notin updated
    <3>1. i <= s.numConns /\ t.conns[i] = s.conns[i]
      BY <1>1, <2>2
    <3>2. s.numConns \in Nat /\ t.numConns \in Nat
      BY <1>1 DEF Sane, Conns
    <3>3. i \in 1 .. s.numConns
      BY <3>1, <3>2
    <3> QED
      BY <1>1, <1>2, <3>1, <3>3 DEF OthersSettled
  <2> QED
    BY <2>1, <2>2
<1>6. Stepped(t, DropCur(t))
  BY <1>1, <1>5, DropStepped
<1>7. Stepped(t, v)
  <2>1. CASE s.conn \in updated /\ c.candidates # <<>>
    <3> DEFINE w == [t EXCEPT !.choiceCount = n]
    <3>1. GoesOn(c)
      BY <1>1, <2>1 DEF Cur
    <3>2. n \in Nat
      <4>1. c.candidates \in Seq(Nodes)
        BY <1>4 DEF ConnRecs
      <4> QED
        BY <4>1
    <3>3. Changed(t, w, c) /\ w.choiceCount = n
      BY <1>1, <3>2, ChoiceChanged
    <3>4. n = Offered(c) /\ ~AtMb(c) /\ c.executable = 2
      BY <3>1 DEF GoesOn, Offered, AtMb, Outbound
    <3> HIDE DEF w, n, c
    <3>5. Stepped(t, w)
      BY <1>1, <1>4, <1>5, <3>3, <3>4, ForwardingLeft
    <3>6. v = w
      BY <1>3, <2>1 DEF w
    <3> QED
      BY <3>5, <3>6
  <2>2. CASE s.conn \notin updated /\ ~dropped /\ updated # {}
    <3> DEFINE w == [SetCur(t, d) EXCEPT !.choiceCount = 1]
               x == <<Cur(s).loc>>
    <3>1. c = Cur(s)
      <4>1. s.conn \in 1 .. t.numConns
        BY <1>1 DEF Sane
      <4> QED
        BY <1>1, <2>2, <4>1 DEF Cur
    <3>2. x \in Seq(Nodes) /\ Len(x) = 1 /\ x # <<>>
      BY <1>2 DEF Sound
    <3>3. /\ d \in ConnRecs /\ SameFlow(c, d) /\ d.mode = "FORWARD_PACKET"
          /\ d.candidates = x /\ d.executable = 2 /\ d.loc = c.loc
      <4>1. d = Reached(c, 2, "FORWARD_PACKET", x)
        OBVIOUS
      <4>2. c \in ConnRecs /\ x \in Seq(Nodes) /\ 2 \in 0 .. 2 /\ "FORWARD_PACKET" \in Modes
        BY <1>4, <3>2, ModesType
      <4> HIDE DEF x, c, d
      <4> QED
        BY <4>1, <4>2, ReachedType
    <3> HIDE DEF x, d, c
    <3>4. Sound(d)
      BY <1>2, <1>4, <3>1, <3>2, <3>3 DEF Sound, SameFlow
    <3>5. Offered(d) = 1 /\ ~AtMb(d) /\ d.visited = c.visited
      BY <3>2, <3>3 DEF Offered, AtMb, Outbound, SameFlow
    <3>6. Changed(t, w, d) /\ w.choiceCount = 1
      BY <1>1, <3>3, <3>5, SetBothChanged DEF c
    <3> HIDE DEF w
    <3>7. Stepped(t, w)
      BY <1>1, <1>5, <3>3, <3>4, <3>5, <3>6, ForwardingLeft
    <3>8. v = w
      BY <1>3, <2>2 DEF w
    <3> QED
      BY <3>7, <3>8
  <2> HIDE DEF v, d, c
  <2> QED
    BY <1>3, <1>6, <2>1, <2>2
<1> HIDE DEF v
<1>8. Stepped(s, v)
  BY <1>1, <1>7 DEF Stepped, Keeps
<1> QED
  BY <1>8 DEF v, t, updated

LEMMA ApplyResultStepped ==
  ASSUME NEW s, Sane(s), Ready(s), s.process = "forwarding", Cur(s).mode = "CHOOSE_INJ_RES",
         NEW choice \in 0 .. s.choiceCount - 1
  PROVE  Stepped(s, ChooseInjectionResults(s, choice))
<1> DEFINE c == Cur(s)
           result == c.results[choice + 1]
           u == ReceiveAll(s, c.loc, result.pkts)
<1>1. /\ c \in ConnRecs /\ Sound(c) /\ ~s.failed /\ s.choiceCount = Len(c.results)
  BY ForwardingReady DEF Offered, Outbound
<1>2. result \in Results
  <2>1. c.results \in Seq(Results)
    BY <1>1 DEF ConnRecs
  <2>2. choice + 1 \in 1 .. Len(c.results)
    BY <1>1, <2>1
  <2> QED
    BY <2>1, <2>2
<1>3. result.pkts \in Seq(Packets) /\ result.dropped \in BOOLEAN
  BY <1>2 DEF Results
<1>4. u \in ReceivedFrom(s)
  BY <1>1, <1>3, ReceiveAllType DEF Sound
<1>5. ChooseInjectionResults(s, choice) =
        IF (result.dropped /\ result.pkts # <<>>) \/ u.state.failed THEN Fail(s)
        ELSE Concluded(s, result.dropped, u.state, u.updated)
  BY DEF ChooseInjectionResults, ApplyResult
<1> HIDE DEF u, result, c
<1>6. ~u.state.failed => Stepped(s, Concluded(s, result.dropped, u.state, u.updated))
  BY <1>3, <1>4, ConcludedStepped
<1> QED
  BY <1>5, <1>6, FailStepped

-----------------------------------------------------------------------------
(* A step of forwarding                                                    *)

LEMMA ModeCases ==
  ASSUME NEW s, Sane(s), NEW choice, NEW results, NEW t, t = ForwardingStep(s, choice, results)
  PROVE  \/ Cur(s).mode = "FIRST_COLLECT" /\ t = FirstCollect(s, results)
         \/ Cur(s).mode = "FIRST_FORWARD" /\ t = FirstForward(s, choice)
         \/ Cur(s).mode = "COLLECT_NHOPS" /\ t = CollectNextHops(s, results)
         \/ Cur(s).mode = "CHOOSE_INJ_RES" /\ t = ChooseInjectionResults(s, choice)
         \/ Cur(s).mode = "FORWARD_PACKET" /\ t = ForwardPacket(s, choice)
         \/ Cur(s).mode = "ACCEPTED" /\ t = Accepted(s)
         \/ Cur(s).mode = "DROPPED" /\ t = SetCur(s, Frozen(Cur(s)))
<1> DEFINE m == Cur(s).mode
<1>1. m \in Modes
  BY CurType DEF ConnRecs
<1>2. \/ m = "FIRST_COLLECT" \/ m = "FIRST_FORWARD" \/ m = "COLLECT_NHOPS"
      \/ m = "CHOOSE_INJ_RES" \/ m = "FORWARD_PACKET" \/ m = "ACCEPTED" \/ m = "DROPPED"
  BY <1>1 DEF Modes
<1>3. t = CASE m = "FIRST_COLLECT"  -> FirstCollect(s, results)
            [] m = "FIRST_FORWARD"  -> FirstForward(s, choice)
            [] m = "COLLECT_NHOPS"  -> CollectNextHops(s, results)
            [] m = "CHOOSE_INJ_RES" -> ChooseInjectionResults(s, choice)
            [] m = "FORWARD_PACKET" -> ForwardPacket(s, choice)
            [] m = "ACCEPTED"       -> Accepted(s)
            [] m = "DROPPED"        -> SetCur(s, Frozen(Cur(s)))
  BY Zenon DEF ForwardingStep, Frozen
<1> HIDE DEF m
<1>4. \/ m = "FIRST_COLLECT" /\ t = FirstCollect(s, results)
      \/ m = "FIRST_FORWARD" /\ t = FirstForward(s, choice)
      \/ m = "COLLECT_NHOPS" /\ t = CollectNextHops(s, results)
      \/ m = "CHOOSE_INJ_RES" /\ t = ChooseInjectionResults(s, choice)
      \/ m = "FORWARD_PACKET" /\ t = ForwardPacket(s, choice)
      \/ m = "ACCEPTED" /\ t = Accepted(s)
      \/ m = "DROPPED" /\ t = SetCur(s, Frozen(Cur(s)))
  BY <1>2, <1>3, Zenon
<1> QED
  BY <1>4 DEF m

LEMMA ForwardingStepped ==
  ASSUME NEW s, Sane(s), Ready(s), s.process = "forwarding", ~Injects(s),
         NEW choice \in 0 .. s.choiceCount - 1
  PROVE  Stepped(s, ForwardingStep(s, choice, <<>>))
<1> DEFINE t == ForwardingStep(s, choice, <<>>)
<1>1. Cur(s).mode = "COLLECT_NHOPS" => Cur(s).loc \notin Emulated
  BY DEF Injects
<1>2. Cur(s).mode = "FORWARD_PACKET" => Outbound(Cur(s)) /\ Cur(s).src \in Ecs
  BY ForwardingReady DEF Outbound, Sound
<1>3. Stepped(s, t)
  <2> DEFINE m == Cur(s).mode
  <2>1. CASE m = "FIRST_COLLECT" /\ t = FirstCollect(s, <<>>)
    BY <2>1, FirstCollectStepped
  <2>2. CASE m = "FIRST_FORWARD" /\ t = FirstForward(s, choice)
    BY <2>2, FirstForwardStepped
  <2>3. CASE m = "COLLECT_NHOPS" /\ t = CollectNextHops(s, <<>>)
    BY <1>1, <2>3, CollectStepped
  <2>4. CASE m = "CHOOSE_INJ_RES" /\ t = ChooseInjectionResults(s, choice)
    BY <2>4, ApplyResultStepped
  <2>5. CASE m = "FORWARD_PACKET" /\ t = ForwardPacket(s, choice)
    BY <1>2, <2>5, ForwardStepped
  <2>6. CASE m = "ACCEPTED" /\ t = Accepted(s)
    BY <2>6, AcceptedStepped
  <2>7. CASE m = "DROPPED" /\ t = SetCur(s, Frozen(Cur(s)))
    BY <2>7, FrozenStepped
  <2> HIDE DEF t
  <2> QED
    BY <2>1, <2>2, <2>3, <2>4, <2>5, <2>6, <2>7, ModeCases DEF t
<1> QED
  BY <1>3

LEMMA InjectionStepped ==
  ASSUME NEW s, Sane(s), Ready(s), Injects(s), NEW results \in Answers(s)
  PROVE  Stepped(s, ForwardingStep(s, 0, results))
<1>1. Cur(s).mode = "COLLECT_NHOPS"
  BY InjectsFacts
<1>2. ForwardingStep(s, 0, results) = CollectNextHops(s, results)
  <2> DEFINE t == ForwardingStep(s, 0, results)
  <2> HIDE DEF t
  <2>1. t = CollectNextHops(s, results)
    BY <1>1, ModeCases DEF t
  <2> QED
    BY <2>1 DEF t
<1> QED
  BY <1>2, InjectStepped
-----------------------------------------------------------------------------
(* Tables: putting routes in                                               *)

LEMMA PutType ==
  ASSUME NEW rib \in SUBSET Routes, NEW r \in Routes
  PROVE  InsertRoute(rib, r) \in SUBSET Routes /\ UpdateRoute(rib, r) \in SUBSET Routes
BY DEF InsertRoute, UpdateRoute

LEMMA InsertAllType ==
  ASSUME NEW rib \in SUBSET Routes, NEW routes \in Seq(Routes)
  PROVE  InsertAll(rib, routes) \in SUBSET Routes
<1> DEFINE n == Len(routes)
           S == SUBSET Routes
           table[i \in 0 .. n] == IF i = 0 THEN rib ELSE InsertRoute(table[i - 1], routes[i])
           D == [x \in S \X (1 .. n) |-> InsertRoute(x[1], routes[x[2]])]
<1>1. n \in Nat /\ \A i \in 1 .. n : routes[i] \in Routes
  OBVIOUS
<1>2. InsertAll(rib, routes) = table[n]
  BY Zenon DEF InsertAll
<1>3. \A x \in S, i \in 1 .. n : InsertRoute(x, routes[i]) \in S
  BY <1>1, PutType
<1>4. D \in Bodies(S, n) /\ \A x \in S, i \in 1 .. n : D[<<x, i>>] = InsertRoute(x, routes[i])
  <2> HIDE DEF S
  <2> QED
    BY <1>3 DEF Bodies
<1>5. rib \in S
  OBVIOUS
<1> HIDE DEF n, S, D
<1>6. PICK g \in [0 .. n -> S] : Iterates(g, rib, D, n)
  <2> HIDE DEF table
  <2> QED
    BY <1>1, <1>4, <1>5, LoopRuns
<1>7. ASSUME NEW i \in 0 .. n
      PROVE  g[i] = IF i = 0 THEN rib ELSE InsertRoute(g[i - 1], routes[i])
  <2> HIDE DEF table
  <2>1. CASE i # 0
    <3>1. i \in 1 .. n /\ i - 1 \in 0 .. n
      BY <1>1, <2>1
    <3> QED
      BY <1>4, <1>6, <2>1, <3>1 DEF Iterates
  <2> QED
    BY <1>6, <2>1 DEF Iterates
<1>8. g = [i \in 0 .. n |-> IF i = 0 THEN rib ELSE InsertRoute(g[i - 1], routes[i])]
  <2> HIDE DEF table
  <2> QED
    BY <1>7
<1>9. table = [i \in 0 .. n |-> IF i = 0 THEN rib ELSE InsertRoute(table[i - 1], routes[i])]
  BY <1>8
<1> HIDE DEF table
<1>10. \A i \in 1 .. n : table[i - 1] \in S => table[i] \in S
  <2> TAKE i \in 1 .. n
  <2>1. i \in 0 .. n /\ i # 0
    BY <1>1
  <2>2. table[i] = InsertRoute(table[i - 1], routes[i])
    BY <1>9, <2>1
  <2> QED
    BY <1>3, <2>2
<1>11. table[0] \in S
  BY <1>1, <1>5, <1>9
<1>12. \A i \in 0 .. n : table[i] \in S
  BY <1>1, <1>10, <1>11, LoopInvariant
<1> QED
  BY <1>1, <1>2, <1>12 DEF S

LEMMA RibType ==
  ASSUME NEW n \in Nodes
  PROVE  Rib[n] \in SUBSET Routes
<1> DEFINE own == {Connected(IntfNetwork[i], i) : i \in {i \in DOMAIN IntfAddr : Owner[i] = n}}
<1>1. own \subseteq Routes
  <2>1. \A i \in DOMAIN IntfAddr : Connected(IntfNetwork[i], i) \in Routes
    BY RoutingTableAssumption, ModelStateAssumption DEF Connected, Routes
  <2> QED
    BY <2>1
<1>2. Rib[n] = InsertAll(own, StaticRoutes[n])
  BY Zenon DEF Rib
<1>3. StaticRoutes[n] \in Seq(Routes)
  BY ModelStateAssumption
<1> HIDE DEF own
<1> QED
  BY <1>1, <1>2, <1>3, InsertAllType

\* An update is a route out of an interface.
LEMMA UpdateType ==
  ASSUME NEW n \in Nodes
  PROVE  /\ Len(Updates[n]) \in Nat
         /\ \A j \in 1 .. Len(Updates[n]) :
              /\ Updates[n][j] \in Routes /\ Updates[n][j].intf \in Intfs
              /\ Updates[n][j].dist = 255
<1>1. Updates[n] \in Seq(OpenFlowUpdates)
  BY ModelStateAssumption
<1>2. \A u \in OpenFlowUpdates : u \in Routes /\ u.intf \in Intfs /\ u.dist = 255
  BY DEF OpenFlowUpdates, OpenFlowUpdate, Routes
<1> QED
  BY <1>1, <1>2

Concerns(n, j, ec) == ec \in NetworkAddrs[Update(n, j).network]

LEMMA InsertTable ==
  ASSUME NEW n \in Nodes, NEW ec
  PROVE  /\ Inserted(n, 0, ec) = Rib[n]
         /\ \A k \in 0 .. Len(Updates[n]) : Inserted(n, k, ec) \in SUBSET Routes
         /\ \A k \in 1 .. Len(Updates[n]) :
              Inserted(n, k, ec) = IF Concerns(n, k, ec)
                               THEN InsertRoute(Inserted(n, k - 1, ec), Update(n, k))
                               ELSE Inserted(n, k - 1, ec)
<1> DEFINE N == Len(Updates[n])
           S == SUBSET Routes
           a == Rib[n]
           put(x, i) == IF ec \in NetworkAddrs[Updates[n][i].network]
                        THEN InsertRoute(x, Updates[n][i]) ELSE x
           D == [x \in S \X (1 .. N) |-> put(x[1], x[2])]
<1>1. N \in Nat /\ a \in S
  BY UpdateType, RibType
<1>2. ASSUME NEW x \in S, NEW i \in 1 .. N
      PROVE  put(x, i) \in S
  <2>1. Updates[n][i] \in Routes
    BY UpdateType
  <2>2. InsertRoute(x, Updates[n][i]) \in S
    BY <2>1, PutType
  <2> QED
    BY <2>2
<1>3. D \in Bodies(S, N) /\ \A x \in S, i \in 1 .. N : D[<<x, i>>] = put(x, i)
  <2> HIDE DEF S, put
  <2> QED
    BY <1>2 DEF Bodies
<1> HIDE DEF N, S, a, D, put
<1>4. PICK g \in [0 .. N -> S] : Iterates(g, a, D, N)
  BY <1>1, <1>3, LoopRuns
<1>5. \A i \in 1 .. N : g[i] = put(g[i - 1], i)
  <2> TAKE i \in 1 .. N
  <2>1. i - 1 \in 0 .. N
    BY <1>1
  <2> QED
    BY <1>3, <1>4, <2>1 DEF Iterates
<1>6. ASSUME NEW k \in 0 .. N
      PROVE  Inserted(n, k, ec) = g[k]
  <2> DEFINE table[i \in 0 .. k] ==
               IF i = 0 THEN a
               ELSE IF ec \in NetworkAddrs[Updates[n][i].network]
                 THEN InsertRoute(table[i - 1], Updates[n][i])
               ELSE table[i - 1]
             h == [i \in 0 .. k |-> g[i]]
  <2>1. Inserted(n, k, ec) = table[k]
    BY Zenon DEF Inserted, TableWith, a
  <2>2. ASSUME NEW i \in 0 .. k
        PROVE  h[i] = IF i = 0 THEN a ELSE put(h[i - 1], i)
    <3> HIDE DEF table
    <3>1. CASE i = 0
      BY <1>4, <3>1 DEF Iterates
    <3>2. CASE i # 0
      <4>1. i \in 1 .. N /\ i - 1 \in 0 .. k
        BY <1>1, <3>2
      <4> QED
        BY <1>5, <3>2, <4>1
    <3> QED
      BY <3>1, <3>2
  <2>3. h = [i \in 0 .. k |-> IF i = 0 THEN a ELSE put(h[i - 1], i)]
    <3> HIDE DEF table
    <3>1. h = [i \in 0 .. k |-> h[i]]
      OBVIOUS
    <3> HIDE DEF h
    <3> QED
      BY <2>2, <3>1
  <2>4. table = [i \in 0 .. k |-> IF i = 0 THEN a ELSE put(table[i - 1], i)]
    <3> HIDE DEF h
    <3> QED
      BY <2>3 DEF put
  <2> HIDE DEF table, h
  <2>5. \A i \in 0 .. k : table[i] = g[i]
    <3> DEFINE T == {m \in Nat : m <= k => table[m] = g[m]}
    <3>1. 0 \in T
      BY <1>1, <1>4, <2>4 DEF Iterates
    <3>2. ASSUME NEW m \in Nat, m \in T
          PROVE  m + 1 \in T
      <4> SUFFICES ASSUME m + 1 <= k
                   PROVE  table[m + 1] = g[m + 1]
        OBVIOUS
      <4>1. /\ table[m] = g[m] /\ m + 1 \in 1 .. N /\ (m + 1) - 1 = m
            /\ m + 1 \in 0 .. k /\ m + 1 # 0
        BY <1>1, <3>2
      <4>2. table[m + 1] = put(table[m], m + 1)
        BY <2>4, <4>1
      <4> QED
        BY <1>5, <4>1, <4>2
    <3>3. Nat \subseteq T
      <4> HIDE DEF T
      <4> QED
        BY <3>1, <3>2, NatSetInduction
    <3> QED
      BY <3>3
  <2> QED
    BY <2>1, <2>5
<1>7. Inserted(n, 0, ec) = Rib[n]
  BY <1>1, <1>4, <1>6 DEF a, Iterates
<1>8. \A k \in 0 .. N : Inserted(n, k, ec) \in SUBSET Routes
  BY <1>4, <1>6 DEF S
<1>9. ASSUME NEW k \in 1 .. N
      PROVE  Inserted(n, k, ec) = IF Concerns(n, k, ec)
                              THEN InsertRoute(Inserted(n, k - 1, ec), Update(n, k))
                              ELSE Inserted(n, k - 1, ec)
  <2>1. k \in 0 .. N /\ k - 1 \in 0 .. N
    BY <1>1
  <2>2. Inserted(n, k, ec) = put(Inserted(n, k - 1, ec), k)
    BY <1>5, <1>6, <2>1
  <2> QED
    BY <2>2, Zenon DEF put, Concerns, Update
<1> QED
  BY <1>7, <1>8, <1>9 DEF N

LEMMA UpdateTable ==
  ASSUME NEW n \in Nodes, NEW ec
  PROVE  /\ Replaced(n, 0, ec) = Rib[n]
         /\ \A k \in 0 .. Len(Updates[n]) : Replaced(n, k, ec) \in SUBSET Routes
         /\ \A k \in 1 .. Len(Updates[n]) :
              Replaced(n, k, ec) = IF Concerns(n, k, ec)
                               THEN UpdateRoute(Replaced(n, k - 1, ec), Update(n, k))
                               ELSE Replaced(n, k - 1, ec)
<1> DEFINE N == Len(Updates[n])
           S == SUBSET Routes
           a == Rib[n]
           put(x, i) == IF ec \in NetworkAddrs[Updates[n][i].network]
                        THEN UpdateRoute(x, Updates[n][i]) ELSE x
           D == [x \in S \X (1 .. N) |-> put(x[1], x[2])]
<1>1. N \in Nat /\ a \in S
  BY UpdateType, RibType
<1>2. ASSUME NEW x \in S, NEW i \in 1 .. N
      PROVE  put(x, i) \in S
  <2>1. Updates[n][i] \in Routes
    BY UpdateType
  <2>2. UpdateRoute(x, Updates[n][i]) \in S
    BY <2>1, PutType
  <2> QED
    BY <2>2
<1>3. D \in Bodies(S, N) /\ \A x \in S, i \in 1 .. N : D[<<x, i>>] = put(x, i)
  <2> HIDE DEF S, put
  <2> QED
    BY <1>2 DEF Bodies
<1> HIDE DEF N, S, a, D, put
<1>4. PICK g \in [0 .. N -> S] : Iterates(g, a, D, N)
  BY <1>1, <1>3, LoopRuns
<1>5. \A i \in 1 .. N : g[i] = put(g[i - 1], i)
  <2> TAKE i \in 1 .. N
  <2>1. i - 1 \in 0 .. N
    BY <1>1
  <2> QED
    BY <1>3, <1>4, <2>1 DEF Iterates
<1>6. ASSUME NEW k \in 0 .. N
      PROVE  Replaced(n, k, ec) = g[k]
  <2> DEFINE table[i \in 0 .. k] ==
               IF i = 0 THEN a
               ELSE IF ec \in NetworkAddrs[Updates[n][i].network]
                 THEN UpdateRoute(table[i - 1], Updates[n][i])
               ELSE table[i - 1]
             h == [i \in 0 .. k |-> g[i]]
  <2>1. Replaced(n, k, ec) = table[k]
    BY Zenon DEF Replaced, TableWith, a
  <2>2. ASSUME NEW i \in 0 .. k
        PROVE  h[i] = IF i = 0 THEN a ELSE put(h[i - 1], i)
    <3> HIDE DEF table
    <3>1. CASE i = 0
      BY <1>4, <3>1 DEF Iterates
    <3>2. CASE i # 0
      <4>1. i \in 1 .. N /\ i - 1 \in 0 .. k
        BY <1>1, <3>2
      <4> QED
        BY <1>5, <3>2, <4>1
    <3> QED
      BY <3>1, <3>2
  <2>3. h = [i \in 0 .. k |-> IF i = 0 THEN a ELSE put(h[i - 1], i)]
    <3> HIDE DEF table
    <3>1. h = [i \in 0 .. k |-> h[i]]
      OBVIOUS
    <3> HIDE DEF h
    <3> QED
      BY <2>2, <3>1
  <2>4. table = [i \in 0 .. k |-> IF i = 0 THEN a ELSE put(table[i - 1], i)]
    <3> HIDE DEF h
    <3> QED
      BY <2>3 DEF put
  <2> HIDE DEF table, h
  <2>5. \A i \in 0 .. k : table[i] = g[i]
    <3> DEFINE T == {m \in Nat : m <= k => table[m] = g[m]}
    <3>1. 0 \in T
      BY <1>1, <1>4, <2>4 DEF Iterates
    <3>2. ASSUME NEW m \in Nat, m \in T
          PROVE  m + 1 \in T
      <4> SUFFICES ASSUME m + 1 <= k
                   PROVE  table[m + 1] = g[m + 1]
        OBVIOUS
      <4>1. /\ table[m] = g[m] /\ m + 1 \in 1 .. N /\ (m + 1) - 1 = m
            /\ m + 1 \in 0 .. k /\ m + 1 # 0
        BY <1>1, <3>2
      <4>2. table[m + 1] = put(table[m], m + 1)
        BY <2>4, <4>1
      <4> QED
        BY <1>5, <4>1, <4>2
    <3>3. Nat \subseteq T
      <4> HIDE DEF T
      <4> QED
        BY <3>1, <3>2, NatSetInduction
    <3> QED
      BY <3>3
  <2> QED
    BY <2>1, <2>5
<1>7. Replaced(n, 0, ec) = Rib[n]
  BY <1>1, <1>4, <1>6 DEF a, Iterates
<1>8. \A k \in 0 .. N : Replaced(n, k, ec) \in SUBSET Routes
  BY <1>4, <1>6 DEF S
<1>9. ASSUME NEW k \in 1 .. N
      PROVE  Replaced(n, k, ec) = IF Concerns(n, k, ec)
                              THEN UpdateRoute(Replaced(n, k - 1, ec), Update(n, k))
                              ELSE Replaced(n, k - 1, ec)
  <2>1. k \in 0 .. N /\ k - 1 \in 0 .. N
    BY <1>1
  <2>2. Replaced(n, k, ec) = put(Replaced(n, k - 1, ec), k)
    BY <1>5, <1>6, <2>1
  <2> QED
    BY <2>2, Zenon DEF put, Concerns, Update
<1> QED
  BY <1>7, <1>8, <1>9 DEF N
-----------------------------------------------------------------------------
(* Lookups                                                                 *)

\* The routes of the longest network are those of one network.
LEMMA LookupIs ==
  ASSUME NEW T \in SUBSET Routes, NEW a, NEW r \in T, a \in NetworkAddrs[r.network],
         \A q \in T : a \in NetworkAddrs[q.network]
                        => NetworkLen[q.network] <= NetworkLen[r.network]
  PROVE  Lookup(T, a) = SameNetwork(T, r)
<1>1. \A q \in T : q.network \in Networks /\ NetworkLen[q.network] \in Nat
  BY RoutingTableAssumption DEF Routes
<1>2. ASSUME NEW q \in T, a \in NetworkAddrs[q.network],
             NetworkLen[r.network] <= NetworkLen[q.network]
      PROVE  q.network = r.network
  <2>1. NetworkLen[q.network] = NetworkLen[r.network]
    BY <1>1, <1>2
  <2>2. NetworkAddrs[q.network] \cap NetworkAddrs[r.network] # {}
    BY <1>2
  <2> QED
    BY <1>1, <2>1, <2>2, RoutingTableAssumption
<1>3. Lookup(T, a) \subseteq SameNetwork(T, r)
  BY <1>2 DEF Lookup, SameNetwork
<1>4. SameNetwork(T, r) \subseteq Lookup(T, a)
  BY <1>1 DEF Lookup, SameNetwork
<1> QED
  BY <1>3, <1>4

\* If a route matches, one of the longest network does.
LEMMA LookupFinds ==
  ASSUME NEW T \in SUBSET Routes, NEW a, NEW s \in T, a \in NetworkAddrs[s.network]
  PROVE  \E r \in T : /\ a \in NetworkAddrs[r.network] /\ r \in Lookup(T, a)
                      /\ \A q \in T : a \in NetworkAddrs[q.network]
                                        => NetworkLen[q.network] <= NetworkLen[r.network]
<1> DEFINE M == {m \in Nat : \E r \in T : a \in NetworkAddrs[r.network]
                                           /\ m = 32 - NetworkLen[r.network]}
<1>1. \A q \in T : NetworkLen[q.network] \in 0 .. 32
  BY RoutingTableAssumption DEF Routes
<1>2. \A q \in T : a \in NetworkAddrs[q.network] => 32 - NetworkLen[q.network] \in M
  BY <1>1
<1>3. M # {} /\ M \subseteq Nat
  BY <1>2
<1> HIDE DEF M
<1>4. PICK m \in M : \A k \in M : m <= k
  BY <1>3, LeastNatural
<1>5. PICK r \in T : a \in NetworkAddrs[r.network] /\ m = 32 - NetworkLen[r.network]
  BY <1>4 DEF M
<1>6. \A q \in T : a \in NetworkAddrs[q.network]
                     => NetworkLen[q.network] <= NetworkLen[r.network]
  BY <1>1, <1>2, <1>4, <1>5
<1>7. r \in Lookup(T, a)
  BY <1>5, <1>6 DEF Lookup
<1> QED
  BY <1>5, <1>6, <1>7
-----------------------------------------------------------------------------
(* Tables with updates                                                     *)

\* What get_installed_updates puts in place: the last update that concerns a class
\* replaces all of its network, and of the routes of the configuration only those of
\* some update's network are replaced.
LEMMA UpdateTableFacts ==
  ASSUME NEW n \in Nodes, NEW ec, NEW k \in 0 .. Len(Updates[n]),
         NEW T, T = Replaced(n, k, ec)
  PROVE  /\ T \in SUBSET Routes
         /\ k = 0 => T = Rib[n]
         /\ \A r \in T : r \in Rib[n] \/ \E j \in 1 .. k : Concerns(n, j, ec) /\ r = Update(n, j)
         /\ \A r \in Rib[n] :
              (\A j \in 1 .. k : Update(n, j).network # r.network) => r \in T
         /\ k # 0 /\ Concerns(n, k, ec) => SameNetwork(T, Update(n, k)) = {Update(n, k)}
<1> DEFINE N == Len(Updates[n])
           Good(t, i) ==
             /\ \A r \in t : r \in Rib[n]
                               \/ \E j \in 1 .. i : Concerns(n, j, ec) /\ r = Update(n, j)
             /\ \A r \in Rib[n] :
                  (\A j \in 1 .. i : Update(n, j).network # r.network) => r \in t
<1>1. /\ Replaced(n, 0, ec) = Rib[n]
      /\ \A m \in 0 .. N : Replaced(n, m, ec) \in SUBSET Routes
      /\ \A m \in 1 .. N :
           Replaced(n, m, ec) = IF Concerns(n, m, ec)
                                THEN UpdateRoute(Replaced(n, m - 1, ec), Update(n, m))
                                ELSE Replaced(n, m - 1, ec)
  BY UpdateTable
<1>3. N \in Nat
  BY UpdateType
<1> DEFINE I == {m \in Nat : m <= N => Good(Replaced(n, m, ec), m)}
<1> HIDE DEF N
<1>4. 0 \in I
  BY <1>1
<1>5. ASSUME NEW m \in Nat, m \in I
      PROVE  m + 1 \in I
  <2> SUFFICES ASSUME m + 1 <= N
               PROVE  Good(Replaced(n, m + 1, ec), m + 1)
    OBVIOUS
  <2>1. Good(Replaced(n, m, ec), m) /\ m + 1 \in 1 .. N /\ (m + 1) - 1 = m
    BY <1>3, <1>5
  <2>2. Replaced(n, m + 1, ec) = IF Concerns(n, m + 1, ec) THEN UpdateRoute(Replaced(n, m, ec), Update(n, m + 1)) ELSE Replaced(n, m, ec)
    BY <1>1, <2>1
  <2>3. \A j : j \in 1 .. m + 1 <=> j \in 1 .. m \/ j = m + 1
    OBVIOUS
  <2>4. ASSUME NEW r \in Replaced(n, m + 1, ec)
        PROVE  r \in Rib[n] \/ \E j \in 1 .. m + 1 : Concerns(n, j, ec) /\ r = Update(n, j)
    <3>1. r \in Replaced(n, m, ec) \/ (Concerns(n, m + 1, ec) /\ r = Update(n, m + 1))
      BY <2>2 DEF UpdateRoute
    <3> QED
      BY <2>1, <2>3, <3>1
  <2>5. ASSUME NEW r \in Rib[n], \A j \in 1 .. m + 1 : Update(n, j).network # r.network
        PROVE  r \in Replaced(n, m + 1, ec)
    <3>1. r \in Replaced(n, m, ec) /\ Update(n, m + 1).network # r.network
      BY <2>1, <2>3, <2>5
    <3> QED
      BY <2>2, <3>1 DEF UpdateRoute, SameNetwork
  <2> QED
    BY <2>4, <2>5
<1>6. Good(Replaced(n, k, ec), k)
  <2> HIDE DEF I, Good
  <2>1. Nat \subseteq I
    BY <1>4, <1>5, NatSetInduction
  <2>2. k \in Nat /\ k <= N
    BY <1>3 DEF N
  <2> QED
    BY <2>1, <2>2 DEF I
<1>7. k # 0 /\ Concerns(n, k, ec) => SameNetwork(Replaced(n, k, ec), Update(n, k)) = {Update(n, k)}
  <2> SUFFICES ASSUME k # 0, Concerns(n, k, ec)
               PROVE  SameNetwork(Replaced(n, k, ec), Update(n, k)) = {Update(n, k)}
    OBVIOUS
  <2>1. k \in 1 .. N
    BY <1>3 DEF N
  <2>2. Replaced(n, k, ec) = UpdateRoute(Replaced(n, k - 1, ec), Update(n, k))
    BY <1>1, <2>1
  <2> QED
    BY <2>2 DEF UpdateRoute, SameNetwork
<1>8. T = Replaced(n, k, ec) /\ Replaced(n, k, ec) \in SUBSET Routes /\ (k = 0 => Replaced(n, k, ec) = Rib[n])
  BY <1>1 DEF N
<1>9. /\ \A r \in Replaced(n, k, ec) : r \in Rib[n]
                          \/ \E j \in 1 .. k : Concerns(n, j, ec) /\ r = Update(n, j)
      /\ \A r \in Rib[n] :
           (\A j \in 1 .. k : Update(n, j).network # r.network) => r \in Replaced(n, k, ec)
  BY <1>6
<1> HIDE DEF Good, I
<1> QED
  BY <1>7, <1>8, <1>9

\* What install_update inserts: nothing for a network that has a route of less distance,
\* and else the one update of the network.
LEMMA InsertTableFacts ==
  ASSUME UpdatesTakeEffect, NEW n \in Nodes, NEW ec, NEW k \in 0 .. Len(Updates[n]), NEW r
  PROVE  r \in Inserted(n, k, ec)
           <=> \/ r \in Rib[n]
               \/ \E j \in 1 .. k : Concerns(n, j, ec) /\ Fresh(n, j) /\ r = Update(n, j)
<1> DEFINE N == Len(Updates[n])
           New(m, x) == \E j \in 1 .. m : Concerns(n, j, ec) /\ Fresh(n, j) /\ x = Update(n, j)
           Good(m) == \A x : x \in Inserted(n, m, ec) <=> x \in Rib[n] \/ New(m, x)
           I == {m \in Nat : m <= N => Good(m)}
<1>1. /\ Inserted(n, 0, ec) = Rib[n]
      /\ \A m \in 1 .. N :
           Inserted(n, m, ec) = IF Concerns(n, m, ec)
                                THEN InsertRoute(Inserted(n, m - 1, ec), Update(n, m))
                                ELSE Inserted(n, m - 1, ec)
  BY InsertTable
<1>2. N \in Nat
  BY UpdateType
<1>3. \A m \in 1 .. N :
        /\ Update(n, m).dist = 255
        /\ Fresh(n, m) \/ \E q \in SameNetwork(Rib[n], Update(n, m)) : q.dist < Update(n, m).dist
  BY UpdateType DEF UpdatesTakeEffect, Update
<1>4. 0 \in I
  BY <1>1
<1>5. ASSUME NEW m \in Nat, m \in I
      PROVE  m + 1 \in I
  <2> SUFFICES ASSUME m + 1 <= N
               PROVE  Good(m + 1)
    OBVIOUS
  <2> DEFINE old == Inserted(n, m, ec)
             new == Inserted(n, m + 1, ec)
             u == Update(n, m + 1)
  <2>1. Good(m) /\ m + 1 \in 1 .. N /\ (m + 1) - 1 = m
    BY <1>2, <1>5
  <2>2. new = IF Concerns(n, m + 1, ec) THEN InsertRoute(old, u) ELSE old
    BY <1>1, <2>1
  <2>3. \A j : j \in 1 .. m + 1 <=> j \in 1 .. m \/ j = m + 1
    OBVIOUS
  <2>4. \A x : New(m + 1, x) <=> \/ New(m, x)
                                 \/ Concerns(n, m + 1, ec) /\ Fresh(n, m + 1) /\ x = u
    BY <2>3
  <2>5. \A x : x \in old <=> x \in Rib[n] \/ New(m, x)
    BY <2>1
  <2> HIDE DEF I, old, new, u, New
  <2>6. CASE ~Concerns(n, m + 1, ec)
    BY <2>2, <2>4, <2>5, <2>6 DEF new
  <2>7. CASE Concerns(n, m + 1, ec) /\ Fresh(n, m + 1)
    <3>1. \A q \in old : q.network # u.network
      <4>1. \A q \in Rib[n] : q.network # u.network
        BY <2>7 DEF Fresh, SameNetwork, u
      <4>2. \A x : New(m, x) => x.network # u.network
        <5> SUFFICES ASSUME NEW j \in 1 .. m
                     PROVE  Update(n, j).network # u.network
          BY DEF New
        <5>1. j \in 1 .. N /\ j # m + 1
          BY <1>2, <2>1
        <5> QED
          BY <2>7, <5>1 DEF Fresh, u, N
      <4> QED
        BY <2>5, <4>1, <4>2
    <3>2. InsertRoute(old, u) = old \cup {u}
      BY <3>1 DEF InsertRoute, SameNetwork
    <3> QED
      BY <2>2, <2>4, <2>5, <2>7, <3>2 DEF new
  <2>8. CASE Concerns(n, m + 1, ec) /\ ~Fresh(n, m + 1)
    <3>1. PICK q \in SameNetwork(Rib[n], u) : q.dist < u.dist
      BY <1>3, <2>1, <2>8 DEF u
    <3>2. q \in SameNetwork(old, u)
      BY <2>5, <3>1 DEF SameNetwork
    <3>3. InsertRoute(old, u) = old
      BY <3>1, <3>2 DEF InsertRoute
    <3> QED
      BY <2>2, <2>4, <2>5, <2>8, <3>3 DEF new
  <2> QED
    BY <2>6, <2>7, <2>8
<1>6. Good(k)
  <2> HIDE DEF I, Good
  <2>1. Nat \subseteq I
    BY <1>4, <1>5, NatSetInduction
  <2>2. k \in Nat /\ k <= N
    BY <1>2 DEF N
  <2> QED
    BY <2>1, <2>2 DEF I
<1> QED
  BY <1>6

\* The table install_update looks the class up in.
LEMMA UpdatedRibFacts ==
  ASSUME UpdatesTakeEffect, NEW n \in Nodes, NEW ec, NEW k \in 0 .. Len(Updates[n]) - 1,
         NEW U, U = UpdatedRib(n, k, ec)
  PROVE  /\ U \in SUBSET Routes
         /\ SameNetwork(U, Update(n, k + 1)) = {Update(n, k + 1)}
         /\ \A r \in Routes :
              r.network # Update(n, k + 1).network =>
                (r \in U <=> \/ r \in Rib[n]
                             \/ \E j \in 1 .. k : /\ Concerns(n, j, ec) /\ Fresh(n, j)
                                                  /\ r = Update(n, j))
<1> DEFINE u == Update(n, k + 1)
           I == Inserted(n, k, ec)
<1>1. k \in 0 .. Len(Updates[n]) /\ k + 1 \in 1 .. Len(Updates[n])
  BY UpdateType
<1>2. U = UpdateRoute(I, u)
  BY Zenon DEF UpdatedRib, Update
<1>3. u \in Routes /\ I \in SUBSET Routes
  <2>1. u \in Routes
    BY <1>1, UpdateType DEF Update
  <2>2. I \in SUBSET Routes
    BY <1>1, InsertTable
  <2> QED
    BY <2>1, <2>2
<1>4. \A r : r \in I <=> \/ r \in Rib[n]
                         \/ \E j \in 1 .. k : Concerns(n, j, ec) /\ Fresh(n, j) /\ r = Update(n, j)
  BY <1>1, InsertTableFacts
<1> HIDE DEF u, I
<1>5. U \in SUBSET Routes
  BY <1>2, <1>3, PutType
<1>6. SameNetwork(U, u) = {u}
  BY <1>2 DEF UpdateRoute, SameNetwork
<1>7. \A r : r.network # u.network => (r \in U <=> r \in I)
  BY <1>2 DEF UpdateRoute, SameNetwork
<1> QED
  BY <1>4, <1>5, <1>6, <1>7 DEF u

\* What some update puts in place for a class has the network of a route that
\* install_update looks the class up among.
LEMMA NetworksKept ==
  ASSUME UpdatesTakeEffect, NEW n \in Nodes, NEW ec, NEW k \in 0 .. Len(Updates[n]) - 1,
         NEW j \in 0 .. k + 1, NEW q \in Replaced(n, j, ec)
  PROVE  \E r \in UpdatedRib(n, k, ec) : r.network = q.network
<1> DEFINE u == Update(n, k + 1)
           U == UpdatedRib(n, k, ec)
           N == Len(Updates[n])
<1>1. N \in Nat
  BY UpdateType
<1>2. /\ j \in 0 .. N
      /\ k + 1 \in 1 .. N
  BY <1>1
<1>3. q \in Rib[n] \/ \E i \in 1 .. j : Concerns(n, i, ec) /\ q = Update(n, i)
  BY <1>2, UpdateTableFacts
<1>4. SameNetwork(U, u) = {u}
  BY UpdatedRibFacts
<1>5. \A r \in Routes :
        r.network # u.network =>
          (r \in U <=> \/ r \in Rib[n]
                       \/ \E i \in 1 .. k : Concerns(n, i, ec) /\ Fresh(n, i) /\ r = Update(n, i))
  BY UpdatedRibFacts
<1>6. Rib[n] \in SUBSET Routes
  BY RibType
<1> HIDE DEF u, U, N
<1>7. CASE q.network = u.network
  <2>1. u \in U
    BY <1>4 DEF SameNetwork
  <2> QED
    BY <1>7, <2>1 DEF U
<1>8. CASE q.network # u.network /\ q \in Rib[n]
  <2>1. q \in U
    BY <1>5, <1>6, <1>8
  <2> QED
    BY <2>1 DEF U
<1>9. ASSUME NEW i \in 1 .. j, Concerns(n, i, ec), q = Update(n, i), q.network # u.network
      PROVE  \E r \in U : r.network = q.network
  <2>1. i # k + 1
    BY <1>9 DEF u
  <2>2. i \in 1 .. k /\ i \in 1 .. N
    BY <1>1, <1>2, <2>1
  <2>3. CASE Fresh(n, i)
    <3>1. q \in Routes
      BY <1>9, <2>2, UpdateType DEF Update, N
    <3> QED
      BY <1>5, <1>9, <2>2, <2>3, <3>1
  <2>4. CASE ~Fresh(n, i)
    <3>1. PICK r \in SameNetwork(Rib[n], q) : TRUE
      BY <1>9, <2>2, <2>4 DEF UpdatesTakeEffect, N
    <3>2. r \in Rib[n] /\ r.network = q.network
      BY <3>1 DEF SameNetwork
    <3> QED
      BY <1>5, <1>6, <1>9, <3>2
  <2> QED
    BY <2>3, <2>4
<1> QED
  BY <1>3, <1>7, <1>8, <1>9 DEF U

\* install_update looks a class up among routes that the configuration and some of the
\* updates put in place: those of the last of them, or of none.
LEMMA LookupFacts ==
  ASSUME UpdatesTakeEffect, NEW n \in Nodes, NEW ec, NEW k \in 0 .. Len(Updates[n]) - 1
  PROVE  \E j \in 0 .. k + 1 :
           /\ Lookup(UpdatedRib(n, k, ec), ec) = Lookup(Replaced(n, j, ec), ec)
           /\ j # 0 => Update(n, j) \in Lookup(Replaced(n, j, ec), ec)
<1> DEFINE u == Update(n, k + 1)
           U == UpdatedRib(n, k, ec)
           N == Len(Updates[n])
           Table(j) == Replaced(n, j, ec)
           Matches(q) == ec \in NetworkAddrs[q.network]
<1>1. N \in Nat
  BY UpdateType
<1>2. /\ 0 .. k + 1 \subseteq 0 .. N
      /\ k + 1 \in 1 .. N
      /\ 0 \in 0 .. k + 1 /\ k + 1 \in 0 .. k + 1
  BY <1>1
<1>3. \A j \in 0 .. k + 1 :
        /\ Table(j) \in SUBSET Routes
        /\ j # 0 /\ Concerns(n, j, ec) => SameNetwork(Table(j), Update(n, j)) = {Update(n, j)}
  BY <1>2, UpdateTableFacts
<1>4. Table(0) = Rib[n]
  BY <1>2, UpdateTableFacts
<1>5. U \in SUBSET Routes /\ SameNetwork(U, u) = {u}
  BY UpdatedRibFacts
<1>6. \A r \in Routes :
        r.network # u.network =>
          (r \in U <=> \/ r \in Rib[n]
                       \/ \E i \in 1 .. k : Concerns(n, i, ec) /\ Fresh(n, i) /\ r = Update(n, i))
  BY UpdatedRibFacts
<1>7. \A j \in 0 .. k + 1 : \A q \in Table(j) : \E r \in U : r.network = q.network
  BY NetworksKept
<1>8. Rib[n] \in SUBSET Routes
  BY RibType
<1> HIDE DEF u, U, Table, N
<1>9. CASE \A r \in U : ~Matches(r)
  <2>1. \A r \in Table(0) : ~Matches(r)
    BY <1>2, <1>7, <1>9
  <2>2. Lookup(U, ec) = {} /\ Lookup(Table(0), ec) = {}
    BY <1>9, <2>1 DEF Lookup
  <2> QED
    BY <1>2, <2>2 DEF U, Table
<1>10. ASSUME NEW s \in U, Matches(s)
       PROVE  \E j \in 0 .. k + 1 :
                /\ Lookup(U, ec) = Lookup(Table(j), ec)
                /\ j # 0 => Update(n, j) \in Lookup(Table(j), ec)
  <2>1. PICK r \in U : /\ Matches(r)
                       /\ \A q \in U : Matches(q) => NetworkLen[q.network] <= NetworkLen[r.network]
    BY <1>5, <1>10, LookupFinds
  <2>2. Lookup(U, ec) = SameNetwork(U, r)
    BY <1>5, <2>1, LookupIs
  <2>3. ASSUME NEW j \in 0 .. k + 1, NEW q \in Table(j), q.network = r.network
        PROVE  Lookup(Table(j), ec) = SameNetwork(Table(j), q)
    <3>1. \A p \in Table(j) : Matches(p) => NetworkLen[p.network] <= NetworkLen[q.network]
      BY <1>7, <2>1, <2>3
    <3>2. Matches(q) /\ Table(j) \in SUBSET Routes
      BY <1>3, <2>1, <2>3
    <3> QED
      BY <3>1, <3>2, LookupIs
  <2>4. ASSUME NEW j \in 1 .. k + 1, Concerns(n, j, ec), Update(n, j).network = r.network,
               SameNetwork(U, r) = {Update(n, j)}
        PROVE  /\ Lookup(U, ec) = Lookup(Table(j), ec)
               /\ Update(n, j) \in Lookup(Table(j), ec)
    <3>1. j \in 0 .. k + 1 /\ j # 0
      OBVIOUS
    <3>2. SameNetwork(Table(j), Update(n, j)) = {Update(n, j)}
      BY <1>3, <2>4, <3>1
    <3>3. Update(n, j) \in Table(j)
      BY <3>2 DEF SameNetwork
    <3>4. Lookup(Table(j), ec) = {Update(n, j)}
      BY <2>3, <2>4, <3>1, <3>2, <3>3
    <3> QED
      BY <2>2, <2>4, <3>4
  <2>5. CASE r.network = u.network
    <3>1. SameNetwork(U, r) = {u}
      BY <1>5, <2>5 DEF SameNetwork
    <3>2. k + 1 \in 1 .. k + 1 /\ Concerns(n, k + 1, ec)
      BY <2>1, <2>5 DEF Concerns, u
    <3>3. /\ Lookup(U, ec) = Lookup(Table(k + 1), ec)
          /\ Update(n, k + 1) \in Lookup(Table(k + 1), ec)
      BY <2>4, <2>5, <3>1, <3>2 DEF u
    <3> QED
      BY <1>2, <3>3
  <2>6. ASSUME r.network # u.network, NEW l \in 1 .. k, Concerns(n, l, ec), Fresh(n, l),
               r = Update(n, l)
        PROVE  \E j \in 0 .. k + 1 :
                 /\ Lookup(U, ec) = Lookup(Table(j), ec)
                 /\ j # 0 => Update(n, j) \in Lookup(Table(j), ec)
    <3>1. l \in 1 .. k + 1 /\ l \in 0 .. k + 1
      OBVIOUS
    <3>2. ASSUME NEW q \in U, q.network = r.network
          PROVE  q = r
      <4>1. q \in Routes /\ q.network # u.network
        BY <1>5, <2>6, <3>2
      <4>2. q \notin Rib[n]
        BY <2>6, <3>2 DEF Fresh, SameNetwork
      <4>3. PICK i \in 1 .. k : q = Update(n, i)
        BY <1>6, <3>2, <4>1, <4>2
      <4>4. i \in 1 .. N
        BY <1>1, <1>2
      <4>5. i = l
        BY <2>6, <3>2, <4>3, <4>4 DEF Fresh, N
      <4> QED
        BY <2>6, <4>3, <4>5
    <3>3. SameNetwork(U, r) = {Update(n, l)}
      BY <2>6, <3>2 DEF SameNetwork
    <3>4. /\ Lookup(U, ec) = Lookup(Table(l), ec)
          /\ Update(n, l) \in Lookup(Table(l), ec)
      BY <2>4, <2>6, <3>1, <3>3
    <3> QED
      BY <3>1, <3>4
  <2>7. CASE r.network # u.network /\ r \in Rib[n]
    <3>1. ASSUME NEW q \in U, q.network = r.network
          PROVE  q \in Rib[n]
      <4>1. q \in Routes /\ q.network # u.network
        BY <1>5, <2>7, <3>1
      <4>2. \A i \in 1 .. k : Fresh(n, i) => q # Update(n, i)
        BY <2>7, <3>1 DEF Fresh, SameNetwork
      <4> QED
        BY <1>6, <3>1, <4>1, <4>2
    <3>2. ASSUME NEW q \in Rib[n], q.network = r.network
          PROVE  q \in U
      BY <1>6, <1>8, <2>7, <3>2
    <3>3. SameNetwork(U, r) = SameNetwork(Rib[n], r)
      BY <3>1, <3>2 DEF SameNetwork
    <3>4. Lookup(Table(0), ec) = SameNetwork(Table(0), r)
      BY <1>2, <1>4, <2>3, <2>7
    <3>5. Lookup(U, ec) = Lookup(Table(0), ec)
      BY <1>4, <2>2, <3>3, <3>4
    <3> QED
      BY <1>2, <3>5
  <2> QED
    BY <1>5, <1>6, <2>1, <2>5, <2>6, <2>7
<1> QED
  BY <1>9, <1>10 DEF U, Table

\* The updates leave the lookups of addresses outside their networks alone.
LEMMA LookupElsewhere ==
  ASSUME UpdatesTakeEffect, NEW n \in Nodes, NEW ec, NEW k \in 0 .. Len(Updates[n]) - 1,
         NEW j \in 0 .. k + 1, NEW a,
         \A i \in 1 .. Len(Updates[n]) : a \notin NetworkAddrs[Update(n, i).network]
  PROVE  /\ Lookup(UpdatedRib(n, k, ec), a) = Lookup(Rib[n], a)
         /\ Lookup(Replaced(n, j, ec), a) = Lookup(Rib[n], a)
<1> DEFINE u == Update(n, k + 1)
           U == UpdatedRib(n, k, ec)
           T == Replaced(n, j, ec)
           N == Len(Updates[n])
           Matching(R) == {r \in R : a \in NetworkAddrs[r.network]}
<1>1. N \in Nat
  BY UpdateType
<1>2. /\ j \in 0 .. N
      /\ k + 1 \in 1 .. N
      /\ 1 .. j \subseteq 1 .. N /\ 1 .. k \subseteq 1 .. N
  BY <1>1
<1>3. /\ \A r \in T : r \in Rib[n] \/ \E i \in 1 .. j : Concerns(n, i, ec) /\ r = Update(n, i)
      /\ \A r \in Rib[n] : (\A i \in 1 .. j : Update(n, i).network # r.network) => r \in T
  BY <1>2, UpdateTableFacts
<1>4. U \in SUBSET Routes
  BY UpdatedRibFacts
<1>5. \A r \in Routes :
        r.network # u.network =>
          (r \in U <=> \/ r \in Rib[n]
                       \/ \E i \in 1 .. k : Concerns(n, i, ec) /\ Fresh(n, i) /\ r = Update(n, i))
  BY UpdatedRibFacts
<1>6. Rib[n] \in SUBSET Routes
  BY RibType
<1>7. \A i \in 1 .. N : a \notin NetworkAddrs[Update(n, i).network]
  OBVIOUS
<1>8. a \notin NetworkAddrs[u.network]
  BY <1>2, <1>7
<1> HIDE DEF u, U, T, N
<1>9. Matching(T) = Matching(Rib[n])
  <2>1. Matching(T) \subseteq Matching(Rib[n])
    BY <1>2, <1>3, <1>7
  <2>2. Matching(Rib[n]) \subseteq Matching(T)
    BY <1>2, <1>3, <1>7
  <2> QED
    BY <2>1, <2>2
<1>10. Matching(U) = Matching(Rib[n])
  <2>1. Matching(U) \subseteq Matching(Rib[n])
    BY <1>2, <1>4, <1>5, <1>7, <1>8
  <2>2. Matching(Rib[n]) \subseteq Matching(U)
    BY <1>5, <1>6, <1>8
  <2> QED
    BY <2>1, <2>2
<1> QED
  BY <1>9, <1>10 DEF Lookup, U, T
-----------------------------------------------------------------------------
(* Next hops                                                               *)

\* The addresses, and the next hops of their routes that are not connected.
Via(rib, addrs) ==
  UNION {{a} \cup {r.nextHop : r \in {r \in Lookup(rib, a) : r.intf = NoIntf}} : a \in addrs}

\* The addresses looked up, as those of a loop.
LEMMA LookedUpIs ==
  ASSUME NEW rib, NEW dst, NEW A, dst \in A, NEW N, N = Cardinality(Addrs), N \in Nat,
         NEW D, \A x \in SUBSET A, i \in 1 .. N : D[<<x, i>>] = Via(rib, x),
         NEW g \in [0 .. N -> SUBSET A], Iterates(g, {dst}, D, N)
  PROVE  LookedUp(rib, dst) = g[N] /\ dst \in g[N]
<1> DEFINE via(a) == {r.nextHop : r \in {r \in Lookup(rib, a) : r.intf = NoIntf}}
           closed[i \in 0 .. N] ==
             IF i = 0 THEN {dst} ELSE UNION {{a} \cup via(a) : a \in closed[i - 1]}
<1>1. LookedUp(rib, dst) = closed[N]
  BY Zenon DEF LookedUp
<1>2. \A i \in 1 .. N : i \in 0 .. N /\ i - 1 \in 0 .. N
  OBVIOUS
<1>3. ASSUME NEW i \in 0 .. N
      PROVE  g[i] = IF i = 0 THEN {dst} ELSE UNION {{a} \cup via(a) : a \in g[i - 1]}
  <2> HIDE DEF closed
  <2>1. CASE i # 0
    <3>1. i \in 1 .. N /\ i - 1 \in 0 .. N
      BY <2>1
    <3>2. g[i] = Via(rib, g[i - 1])
      BY <3>1 DEF Iterates
    <3> QED
      BY <2>1, <3>2 DEF Via
  <2> QED
    BY <2>1 DEF Iterates
<1>4. g = [i \in 0 .. N |-> IF i = 0 THEN {dst} ELSE UNION {{a} \cup via(a) : a \in g[i - 1]}]
  <2> HIDE DEF closed
  <2> QED
    BY <1>3
<1>5. closed = [i \in 0 .. N |->
                  IF i = 0 THEN {dst} ELSE UNION {{a} \cup via(a) : a \in closed[i - 1]}]
  BY <1>4
<1> HIDE DEF closed
<1>6. closed[0] = g[0] /\ dst \in g[0]
  <2>1. 0 \in 0 .. N
    OBVIOUS
  <2>2. closed[0] = {dst}
    BY <1>5, <2>1
  <2>3. g[0] = {dst}
    BY DEF Iterates
  <2> QED
    BY <2>2, <2>3
<1>7. ASSUME NEW i \in 1 .. N, closed[i - 1] = g[i - 1], dst \in g[i - 1]
      PROVE  closed[i] = g[i] /\ dst \in g[i]
  <2>1. i \in 0 .. N /\ i # 0
    OBVIOUS
  <2>2. closed[i] = UNION {{a} \cup via(a) : a \in closed[i - 1]}
    BY <1>5, <2>1
  <2>3. g[i] = UNION {{a} \cup via(a) : a \in g[i - 1]}
    BY <1>3, <2>1
  <2>4. dst \in UNION {{a} \cup via(a) : a \in g[i - 1]}
    BY <1>7
  <2> QED
    BY <1>7, <2>2, <2>3, <2>4
<1> DEFINE same == [i \in 0 .. N |-> closed[i] = g[i] /\ dst \in g[i]]
<1>8. /\ same[0] \in {TRUE}
      /\ \A i \in 1 .. N : same[i - 1] \in {TRUE} => same[i] \in {TRUE}
  <2>1. 0 \in 0 .. N
    OBVIOUS
  <2>2. \A i \in 0 .. N : same[i] = (closed[i] = g[i] /\ dst \in g[i])
    OBVIOUS
  <2>3. same[0] \in {TRUE}
    BY <1>6, <2>1, <2>2
  <2>4. ASSUME NEW i \in 1 .. N, same[i - 1] \in {TRUE}
        PROVE  same[i] \in {TRUE}
    <3> HIDE DEF same
    <3>1. closed[i - 1] = g[i - 1] /\ dst \in g[i - 1]
      BY <1>2, <2>2, <2>4
    <3> QED
      BY <1>2, <1>7, <2>2, <3>1
  <2> QED
    BY <2>3, <2>4
<1>9. \A i \in 0 .. N : same[i] \in {TRUE}
  <2> HIDE DEF same
  <2> QED
    BY <1>8, LoopInvariant
<1>10. N \in 0 .. N
  OBVIOUS
<1> QED
  BY <1>1, <1>9, <1>10

\* Tables that agree on a set of addresses, which the routes do not lead out of, give
\* an address of it the same next hops.
LEMMA SameHops ==
  ASSUME NEW n, NEW R, NEW T, NEW A, NEW dst \in A,
         \A a \in A : Lookup(R, a) = Lookup(T, a),
         \A a \in A : \A r \in Lookup(R, a) : r.intf = NoIntf => r.nextHop \in A
  PROVE  GetIpnhs(n, R, dst) = GetIpnhs(n, T, dst) /\ dst \in LookedUp(R, dst)
<1> DEFINE N == Cardinality(Addrs)
           S == SUBSET A
           D == [x \in S \X (1 .. N) |-> Via(R, x[1])]
<1>1. N \in Nat
  BY RoutingTableAssumption, FS_CardinalityType
<1>2. \A x \in S : Via(R, x) \in S /\ Via(T, x) = Via(R, x)
  BY DEF Via
<1>3. D \in Bodies(S, N) /\ \A x \in S, i \in 1 .. N : D[<<x, i>>] = Via(R, x)
  <2> HIDE DEF S, N
  <2> QED
    BY <1>2 DEF Bodies
<1>4. {dst} \in S
  OBVIOUS
<1>5. /\ \A x \in SUBSET A, i \in 1 .. N : D[<<x, i>>] = Via(R, x)
      /\ \A x \in SUBSET A, i \in 1 .. N : D[<<x, i>>] = Via(T, x)
  BY <1>2, <1>3
<1> HIDE DEF D
<1>6. PICK g \in [0 .. N -> S] : Iterates(g, {dst}, D, N)
  <2> HIDE DEF S, N
  <2> QED
    BY <1>1, <1>3, <1>4, LoopRuns
<1>7. LookedUp(R, dst) = g[N] /\ dst \in g[N]
  <2> HIDE DEF N
  <2>1. N = Cardinality(Addrs)
    BY DEF N
  <2>2. \A x \in SUBSET A, i \in 1 .. N : D[<<x, i>>] = Via(R, x)
    BY <1>5
  <2> QED
    BY <1>1, <1>6, <2>1, <2>2, LookedUpIs
<1>8. LookedUp(T, dst) = g[N]
  <2> HIDE DEF N
  <2>1. N = Cardinality(Addrs)
    BY DEF N
  <2>2. \A x \in SUBSET A, i \in 1 .. N : D[<<x, i>>] = Via(T, x)
    BY <1>5
  <2> QED
    BY <1>1, <1>6, <2>1, <2>2, LookedUpIs
<1>9. g[N] \subseteq A
  <2> HIDE DEF N
  <2>1. N \in 0 .. N
    BY <1>1
  <2> QED
    BY <1>6, <2>1
<1> HIDE DEF N
<1> DEFINE hops(rib, a) == {IF HasIp(n, a) THEN n ELSE GetIpnh[r.intf][a] :
                              r \in {r \in Lookup(rib, a) : r.intf # NoIntf}}
<1>10. \A a \in g[N] : hops(R, a) = hops(T, a)
  BY <1>9
<1>11. /\ GetIpnhs(n, R, dst) = Nodes \cap UNION {hops(R, a) : a \in g[N]}
       /\ GetIpnhs(n, T, dst) = Nodes \cap UNION {hops(T, a) : a \in g[N]}
  BY <1>7, <1>8 DEF GetIpnhs
<1> HIDE DEF hops
<1>12. UNION {hops(R, a) : a \in g[N]} = UNION {hops(T, a) : a \in g[N]}
  BY <1>10
<1> QED
  BY <1>7, <1>11, <1>12

\* The next hops install_update computes are those the node has with some of the updates,
\* as get_installed_updates puts them in place.
LEMMA SnapshotHops ==
  ASSUME UpdatesTakeEffect, NEW n \in Nodes, NEW ec \in Ecs, NEW k \in 0 .. Len(Updates[n]) - 1
  PROVE  \E j \in 0 .. k + 1 : UpdatedHops[n][k][ec] = HopsWith(n, j, ec)
<1> DEFINE N == Len(Updates[n])
           A == {ec} \cup {r.nextHop : r \in {r \in Rib[n] : r.intf = NoIntf}}
           U == UpdatedRib(n, k, ec)
<1>1. N \in Nat /\ 0 .. k + 1 \subseteq 0 .. N /\ 0 \in 0 .. N
  BY UpdateType
<1>2. PICK j \in 0 .. k + 1 : /\ Lookup(U, ec) = Lookup(Replaced(n, j, ec), ec)
                              /\ j # 0 => Update(n, j) \in Lookup(Replaced(n, j, ec), ec)
  BY LookupFacts
<1> DEFINE T == Replaced(n, j, ec)
<1>3. ASSUME NEW a \in A
      PROVE  Lookup(U, a) = Lookup(T, a)
  <2>1. CASE a = ec
    BY <1>2, <2>1
  <2>2. CASE a # ec
    <3>1. PICK r \in Rib[n] : r.intf = NoIntf /\ a = r.nextHop
      BY <1>3, <2>2
    <3>2. \A i \in 1 .. N : a \notin NetworkAddrs[Update(n, i).network]
      BY <3>1 DEF UpdatesTakeEffect
    <3> QED
      BY <3>2, LookupElsewhere
  <2> QED
    BY <2>1, <2>2
<1>4. \A r \in T : r \in Rib[n] \/ \E i \in 1 .. j : r = Update(n, i)
  BY <1>1, UpdateTableFacts
<1>5. \A i \in 1 .. j : Update(n, i).intf # NoIntf
  <2>1. \A i \in 1 .. j : i \in 1 .. N
    BY <1>1
  <2> QED
    BY <2>1, UpdateType, RoutingTableAssumption DEF Update
<1>6. ASSUME NEW a \in A, NEW r \in Lookup(T, a), r.intf = NoIntf
      PROVE  r.nextHop \in A
  <2>1. r \in T
    BY <1>6 DEF Lookup
  <2> QED
    BY <1>4, <1>5, <1>6, <2>1
<1>7. ec \in A
  OBVIOUS
<1>8. HopsWith(n, j, ec) = IF Updates[n] # <<>> /\ GetIpnhs(n, T, ec) # {}
                           THEN GetIpnhs(n, T, ec) ELSE RibHops[n][ec]
  <2>1. j \in 0 .. N
    BY <1>1
  <2>2. InstalledHops[n][j][ec] = GetIpnhs(n, T, ec)
    BY <2>1, Zenon DEF InstalledHops
  <2> QED
    BY <2>2, Zenon DEF HopsWith
<1>9. RibHops[n][ec] = GetIpnhs(n, Rib[n], ec)
  BY DEF RibHops
<1>10. UpdatedHops[n][k][ec] = GetIpnhs(n, U, ec)
  BY DEF UpdatedHops
<1>11. j = 0 => T = Rib[n]
  BY <1>1, UpdateTableFacts
<1> HIDE DEF A, U, T, N
<1>12. GetIpnhs(n, T, ec) = GetIpnhs(n, U, ec) /\ ec \in LookedUp(T, ec)
  BY <1>3, <1>6, <1>7, SameHops
<1>13. CASE j = 0
  BY <1>8, <1>9, <1>10, <1>11, <1>12, <1>13
<1>14. CASE j # 0
  <2> DEFINE u == Update(n, j)
  <2>1. j \in 1 .. N
    BY <1>1, <1>14
  <2>2. u.intf \in Intfs /\ u.intf # NoIntf
    BY <2>1, UpdateType, RoutingTableAssumption DEF Update, N
  <2>3. u \in Lookup(T, ec)
    BY <1>2, <1>14 DEF T
  <2>4. ec \in NetworkAddrs[u.network]
    BY <2>3 DEF Lookup
  <2>5. HasIp(n, ec) \/ GetIpnh[u.intf][ec] \in Nodes
    <3>1. HasIp(n, ec) \/ GetIpnh[u.intf][ec] # NoNode
      BY <2>1, <2>4 DEF UpdatesTakeEffect, N
    <3>2. ec \in Addrs
      BY ModelStateAssumption
    <3> QED
      BY <2>2, <3>1, <3>2, IpnhType DEF AnyNode
  <2> HIDE DEF u
  <2>6. (IF HasIp(n, ec) THEN n ELSE GetIpnh[u.intf][ec]) \in GetIpnhs(n, T, ec)
    BY <1>12, <2>2, <2>3, <2>5 DEF GetIpnhs
  <2>7. Updates[n] # <<>>
    BY <2>1 DEF N
  <2> QED
    BY <1>8, <1>10, <1>12, <2>6, <2>7
<1> QED
  BY <1>13, <1>14
=============================================================================
