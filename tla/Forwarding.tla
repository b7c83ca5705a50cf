----------------------------- MODULE Forwarding -----------------------------
(***************************************************************************)
(* ForwardingProcess: one step of the current connection's packet.  Its    *)
(* next hops come from the FIB, or, at a middlebox, from the injection     *)
(* results, one of which SPIN chooses in the next step.                    *)
(*                                                                         *)
(* An injection result has the packets the middlebox sent and whether a    *)
(* drop was detected.                                                      *)
(***************************************************************************)
EXTENDS Net

DropCur(s) == SetCur(s, [Cur(s) EXCEPT !.mode = "DROPPED", !.executable = 0])

-----------------------------------------------------------------------------
(* Collecting next hops                                                    *)

\* The past choice at this node for this destination, if it was made.
PastChoices(c) == {ch \in c.choices : ch.ec = c.dst /\ ch.node = c.loc}

\* Mutant: the past choice is forgotten.
CandidatesForNoPast(c) == SetToSeq(c.fib[c.loc])

\* The next hops SPIN may choose from: with several, only the past choice if it
\* is still one of them.
CandidatesFor(c) ==
  LET hops == c.fib[c.loc]
      past == {h \in hops : \E ch \in PastChoices(c) : ch.hop = h}
  IN SetToSeq(IF Cardinality(hops) > 1 /\ past # {} THEN past ELSE hops)

\* inject_packet, with the results of sending the packet or of the cache.
InjectPacket(s, results) ==
  [SetCur(s, [Cur(s) EXCEPT !.results = results, !.mode = "CHOOSE_INJ_RES"])
     EXCEPT !.choiceCount = Len(results)]

CollectNextHops(s, results) ==
  LET c == Cur(s)
      candidates == CandidatesFor(c)
  IN IF c.loc \in Emulated THEN InjectPacket(s, results)
     ELSE IF candidates = <<>> THEN DropCur(s)
     ELSE [SetCur(s, [c EXCEPT !.candidates = candidates,
                               !.mode = "FORWARD_PACKET"])
             EXCEPT !.choiceCount = Len(candidates)]

\* The mode is FIRST_FORWARD afterwards even if the packet was dropped.
FirstCollect(s, results) ==
  LET t == CollectNextHops(s, results)
  IN SetCur(t, [Cur(t) EXCEPT !.mode = "FIRST_FORWARD"])

-----------------------------------------------------------------------------
(* Forwarding                                                              *)

\* The packet is delivered: the receiving endpoint is fixed by the first one.
Deliver(s, c) ==
  [SetCur(s, [c EXCEPT !.mode = "ACCEPTED",
                       !.rxNode = IF IsFirst(c.proto) THEN c.loc ELSE @])
     EXCEPT !.choiceCount = 1]

\* Mutant: the packet enters a middlebox without waiting.
MoveToNoWait(s, c, hop) ==
  [SetCur(s, [c EXCEPT !.loc = hop, !.mode = "COLLECT_NHOPS",
                       !.rxNode = IF hop \in Emulated /\ IsFirst(c.proto)
                                  THEN hop ELSE @])
     EXCEPT !.choiceCount = 1]

\* Mutant: the number of choices stays that of the last hop.
MoveToKeepChoice(s, c, hop) ==
  SetCur(s, [c EXCEPT !.loc = hop, !.mode = "COLLECT_NHOPS",
                      !.executable = IF hop \in Emulated THEN 1 ELSE @,
                      !.rxNode = IF hop \in Emulated /\ IsFirst(c.proto)
                                 THEN hop ELSE @])

\* The packet moves to its next hop; it waits before entering a middlebox.
MoveTo(s, c, hop) ==
  [SetCur(s, [c EXCEPT
                !.loc = hop,
                !.mode = "COLLECT_NHOPS",
                !.executable = IF hop \in Emulated THEN 1 ELSE @,
                !.rxNode = IF hop \in Emulated /\ IsFirst(c.proto)
                           THEN hop ELSE @])
     EXCEPT !.choiceCount = 1]

\* A choice among several next hops is remembered; add_choice fails if there
\* already is one for this destination and node.
ForwardPacket(s, choice) ==
  LET c == Cur(s)
      hop == c.candidates[choice + 1]
      multipath == Len(c.candidates) > 1
      d == IF multipath
           THEN [c EXCEPT !.choices =
                   @ \cup {[ec |-> c.dst, node |-> c.loc, hop |-> hop]}]
           ELSE c
  IN IF multipath /\ PastChoices(c) # {} THEN Fail(s)
     ELSE IF hop = c.loc THEN Deliver(s, d)
     ELSE MoveTo(s, d, hop)

\* The source address of a new connection is that of the egress interface: here one
\* class for each node.  A packet for the node itself would have the address of a
\* loopback interface (or end in an error, if that has none), and has that class too.
FirstForward(s, choice) ==
  LET c == Cur(s)
  IN ForwardPacket(
       SetCur(s, [c EXCEPT !.src =
                    IF IsFirst(c.proto) /\ @ = NoEc THEN EcOf[c.loc] ELSE @]),
       choice)

-----------------------------------------------------------------------------
(* Protocol phases                                                         *)

\* phase_transition: the next packet of the connection.  A connection whose
\* next sender is a middlebox is frozen until that sends something.
PhaseTransition(s, next, changeDirection) ==
  LET c == Cur(s)
      source == IF changeDirection THEN c.loc ELSE c.srcNode
      seqs == IF ~(c.proto \in TcpStates) THEN <<c.seq, c.ack>>
              ELSE IF changeDirection THEN <<c.ack, SeqAfter(c)>>
              ELSE <<SeqAfter(c), c.ack>>
      d == IF changeDirection
           THEN [c EXCEPT !.src = c.dst, !.dst = c.src, !.srcNode = c.loc,
                          !.ports = <<@[2], @[1]>>, !.fib = FibFor(s, c.src)]
           ELSE [c EXCEPT !.loc = c.srcNode]
  IN IF source \in Emulated THEN SetCur(s, [c EXCEPT !.executable = 0])
     ELSE SetCur(s, [d EXCEPT !.proto = next, !.mode = "FIRST_COLLECT",
                              !.seq = seqs[1], !.ack = seqs[2],
                              !.payload = PayloadOf(next), !.candidates = <<>>, !.results = <<>>])

\* Mutant: every packet has a next phase.
AcceptedNeverLast(s) == PhaseTransition(s, Cur(s).proto + 1, ~(Cur(s).proto \in {3, 5}))

\* accepted: the sender changes except after the last handshake packet, an ACK
\* of a request, or an ACK of a reply a middlebox accepted.
Accepted(s) ==
  LET c == Cur(s)
      sameSender == c.proto \in {3, 5} \/ (c.proto = 7 /\ c.loc \in Emulated)
  IN IF IsLast(c.proto) THEN SetCur(s, [c EXCEPT !.executable = 0])
     ELSE PhaseTransition(s, c.proto + 1, ~sameSender)

-----------------------------------------------------------------------------
(* Injection results                                                       *)

\* What a packet makes of the connection it starts, or of one that exists: its
\* next phase, sent by the middlebox itself or by the connection's source, or
\* the same phase.
Started(c, mb) ==
  [c EXCEPT !.srcNode = mb, !.txNode = mb, !.rxNode = NoNode, !.loc = mb,
            !.mode = "FIRST_FORWARD", !.choices = {}]

Continued(old, c, p, mb) ==
  IF c.proto = old.proto THEN [c EXCEPT !.mode = "FORWARD_PACKET"]
  ELSE IF ~SameDirection(old, p)
    THEN [c EXCEPT !.mode = "FIRST_FORWARD", !.srcNode = mb]
  ELSE [c EXCEPT !.mode = "FIRST_FORWARD", !.loc = old.srcNode]

\* A packet of an earlier phase of its connection is ignored.
Stale(s, p) ==
  IdentifyConn(s, p) <= s.numConns
    /\ StateOf(s, p) # Bad /\ StateOf(s, p) < s.conns[IdentifyConn(s, p)].proto

Receive(s, mb, p) ==
  LET i == IdentifyConn(s, p)
      isNew == i > s.numConns
      old == s.conns[i]
      hop == GetIpnh[p.intf][p.dst]
      c == [old EXCEPT
              !.executable = 2, !.proto = StateOf(s, p), !.src = p.src,
              !.dst = p.dst, !.ports = p.ports, !.seq = p.seq, !.ack = p.ack,
              !.payload = p.payload,
              !.fib = IF old.dst = p.dst THEN @ ELSE FibFor(s, p.dst),
              !.candidates = IF hop = NoNode THEN <<>> ELSE <<hop>>]
  IN IF i > MaxConns \/ StateOf(s, p) = Bad \/ ~SeqAckRight(s, p) THEN Fail(s)
     ELSE IF isNew THEN [s EXCEPT !.numConns = i, !.conns[i] = Started(c, mb)]
     ELSE [s EXCEPT !.conns[i] = Continued(old, c, p, mb)]

\* All packets of a result in turn, and the connections they update.
ReceiveAll(s, mb, pkts) ==
  LET receive(u, p) ==
        IF u.state.failed \/ Stale(u.state, p) THEN u
        ELSE [state |-> Receive(u.state, mb, p),
              updated |-> u.updated \cup {IdentifyConn(u.state, p)}]
      after[k \in 0 .. Len(pkts)] ==
        IF k = 0 THEN [state |-> s, updated |-> {}] ELSE receive(after[k - 1], pkts[k])
  IN after[Len(pkts)]

\* What becomes of the current connection when the packets have made t of the
\* state.  Without one of its own its packet was dropped, or delivered at the
\* middlebox if another connection goes on.
Concluded(s, dropped, t, updated) ==
  IF s.conn \in updated
    THEN IF Cur(t).candidates = <<>> THEN DropCur(t)
         ELSE [t EXCEPT !.choiceCount = Len(Cur(t).candidates)]
  ELSE IF ~dropped /\ updated # {}
    THEN [SetCur(t, [Cur(t) EXCEPT !.executable = 2, !.mode = "FORWARD_PACKET",
                                   !.candidates = <<Cur(s).loc>>])
            EXCEPT !.choiceCount = 1]
  ELSE DropCur(t)

\* update_model_from_injection_result.
ApplyResult(s, result) ==
  LET received == ReceiveAll(s, Cur(s).loc, result.pkts)
  IN IF (result.dropped /\ result.pkts # <<>>) \/ received.state.failed THEN Fail(s)
     ELSE Concluded(s, result.dropped, received.state, received.updated)

ChooseInjectionResults(s, choice) == ApplyResult(s, Cur(s).results[choice + 1])

-----------------------------------------------------------------------------
(* exec_step: one step of the current connection; "results" is what an     *)
(* injection returns, if the step is one.                                  *)

ForwardingStep(s, choice, results) ==
  CASE Cur(s).mode = "FIRST_COLLECT"  -> FirstCollect(s, results)
    [] Cur(s).mode = "FIRST_FORWARD"  -> FirstForward(s, choice)
    [] Cur(s).mode = "COLLECT_NHOPS"  -> CollectNextHops(s, results)
    [] Cur(s).mode = "CHOOSE_INJ_RES" -> ChooseInjectionResults(s, choice)
    [] Cur(s).mode = "FORWARD_PACKET" -> ForwardPacket(s, choice)
    [] Cur(s).mode = "ACCEPTED"       -> Accepted(s)
    [] Cur(s).mode = "DROPPED"        ->
         SetCur(s, [Cur(s) EXCEPT !.executable = 0])
=============================================================================
