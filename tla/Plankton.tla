------------------------------ MODULE Plankton ------------------------------
(***************************************************************************)
(* One path of SPIN's exploration in a connection-EC process: the Promela  *)
(* loop selects a choice below choice_count and calls Plankton::exec_step, *)
(* which runs a step of the current process (choosing a connection,        *)
(* forwarding, or installing OpenFlow updates), switches processes, and    *)
(* lets the invariant check the new state.  The loop ends when choice_count*)
(* is 0.                                                                   *)
(*                                                                         *)
(* A middlebox is what its answers may be: it forwards packets, possibly   *)
(* rewriting an address, answers as an endpoint, or drops.                 *)
(***************************************************************************)
EXTENDS ChooseConn, Forwarding, OpenFlow, Invariants

CONSTANTS
  Queries,     \* invariants to check, with their initial connections
  Rewrites,    \* addresses of the flows before and after a middlebox
  MbIntf,      \* the interface each middlebox sends to a class on
  ReportTo,    \* the class middleboxes report connections to
  MaxPkts,     \* bound: packets forwarded in one injection result
  MaxResults   \* bound: distinct results of one injection

\* The connections of a specification that starts at hosts, and an invariant that
\* is not correlated.
ConnSpecs ==
  [protocol : DOMAIN FirstState, src : Nodes \ Emulated, dst : Ecs, ports : Nat \X Nat]

Checkable(inv) ==
  /\ inv.kind \in Kinds /\ ~Correlated(inv)
  /\ MultiConn(inv) \/ inv.expected \in BOOLEAN
  /\ inv.conns \in Seq(ConnSpecs)
  /\ Len(inv.conns) \in 1 .. IF MultiConn(inv) THEN MaxConns ELSE 1

ASSUME PlanktonAssumption ==
  /\ \A inv \in Queries :
       IF Correlated(inv)
         THEN /\ Len(inv.parts) \in Nat \ {0}
              /\ DOMAIN inv.parts = 1 .. Len(inv.parts)
              /\ \A i \in DOMAIN inv.parts :
                   Checkable(inv.parts[i]) /\ ~MultiConn(inv.parts[i])
         ELSE Checkable(inv)
  /\ IsFiniteSet(Rewrites)
  /\ \A r \in Rewrites : r.to \in Ecs \X Ecs
  /\ MbIntf \in [Emulated -> [Ecs -> Intfs]]
  /\ ReportTo \in Ecs
  /\ MaxResults \in Nat

VARIABLES
  now,       \* the state vector
  inv,       \* the invariant
  stored,    \* result and unset of a Consistency
  reached,   \* auxiliary: the nodes that accepted a request
  decided,   \* auxiliary: the invariant has ended the exploration
  ended      \* auxiliary: the verdicts of the parts that have ended

vars == <<now, inv, stored, reached, decided, ended>>

-----------------------------------------------------------------------------
(* Middleboxes                                                             *)

\* What a middlebox makes of the addresses of a flow's packets.
RewrittenAddresses(c) ==
  {r.to : r \in {r \in Rewrites : r.from = <<c.src, c.dst, c.ports>>}}

Forwarded(c) ==
  {[protocol |-> Protocol(c.proto), flags |-> FlagsOf[c.proto], src |-> a[1],
    dst |-> a[2], ports |-> c.ports, seq |-> c.seq, ack |-> c.ack,
    payload |-> c.payload, intf |-> MbIntf[c.loc][a[2]]] :
   a \in RewrittenAddresses(c)}

\* The sizes of the segments a middlebox that is the server answers with: the
\* ACK of a request comes alone or before the reply, which may come in two.
AnswerSegments(p) ==
  CASE p = 4                    -> {<<0>>, <<0, 3>>, <<1, 2>>}
    [] p \in {1, 8, 11, 13}     -> {<<0>>}
    [] OTHER                    -> {}

Answer(c, sizes, k) ==
  [protocol |-> Protocol(c.proto),
   flags |-> CASE c.proto = 1 -> "synack" [] c.proto = 4 -> "ack" [] c.proto = 8 -> "fin"
               [] c.proto = 11 -> "udp" [] OTHER -> "reply",
   src |-> c.dst, dst |-> c.src, ports |-> <<c.ports[2], c.ports[1]>>,
   seq |-> IF k = 1 THEN c.ack ELSE c.ack + sizes[1],
   ack |-> SeqAfter(c), payload |-> sizes[k], intf |-> MbIntf[c.loc][c.src]]

\* A server that is connected to may report that to another host.
Report(c) ==
  [protocol |-> "udp", flags |-> "udp", src |-> c.dst, dst |-> ReportTo,
   ports |-> <<1514, 514>>, seq |-> 0, ack |-> 0, payload |-> 0,
   intf |-> MbIntf[c.loc][ReportTo]]

Answered(c) ==
  IF Forwarded(c) # {} THEN {}
  ELSE {[k \in DOMAIN sizes |-> Answer(c, sizes, k)] : sizes \in AnswerSegments(c.proto)}
       \cup IF c.proto = 3 THEN {<<Report(c)>>} ELSE {}

\* A middlebox starts a connection with a first packet only, and none beyond
\* MAX_CONNS: the code throws at other packets, and they are left out.
Allowed(s, p) ==
  \/ IdentifyConn(s, p) <= s.numConns
  \/ NewState(p) # Bad /\ s.numConns < MaxConns

\* A forwarding middlebox sends at most one packet of a connection (two UDP packets
\* from one interface would fail an assertion of reassemble_segments).
MbResults(s) ==
  LET forwarded == {p \in Forwarded(Cur(s)) : Allowed(s, p)}
      copies == {P \in SUBSET forwarded :
                   /\ Cardinality(P) <= MaxPkts
                   /\ \A p, q \in P : IdentifyConn(s, p) = IdentifyConn(s, q)
                                        => p = q}
  IN {[pkts |-> <<>>, dropped |-> TRUE]} \cup
     {[pkts |-> pkts, dropped |-> FALSE] :
        pkts \in {SetToSeq(P) : P \in copies} \cup {Reassemble(a) : a \in Answered(Cur(s))}}

\* The current step is the injection of a packet.
Injects(s) ==
  /\ s.process = "forwarding"
  /\ Cur(s).mode \in {"FIRST_COLLECT", "COLLECT_NHOPS"}
  /\ Cur(s).loc \in Emulated

\* What the injection may return.
Answers(s) ==
  {SetToSeq(R) : R \in UNION {kSubset(k, MbResults(s)) : k \in 1 .. MaxResults}}

-----------------------------------------------------------------------------
(* Plankton::exec_step                                                     *)

\* check_to_switch_process.
CheckToSwitchProcess(s) ==
  IF Cur(s).executable # 2
    THEN UpdateChoiceCount([s EXCEPT !.process = "choose_conn"])
  ELSE IF s.process = "choose_conn" THEN [s EXCEPT !.process = "forwarding"]
  ELSE IF /\ s.process = "forwarding"
          /\ Cur(s).mode \in {"COLLECT_NHOPS", "FIRST_COLLECT"}
          /\ HasUpdates(s, Cur(s).loc)
    THEN [s EXCEPT !.process = "openflow", !.choiceCount = 2]
  ELSE IF s.process = "openflow" /\ s.choiceCount = 1
    THEN [s EXCEPT !.process = "forwarding"]
  ELSE s

\* exec_step, after the current process has made "stepped" of the state.
ExecStep(stepped) ==
  \E s \in {IF stepped.failed THEN stepped ELSE CheckToSwitchProcess(stepped)} :
  \E checked \in {IF s.failed THEN s ELSE CheckOne(s, Part(s, inv))} :
    /\ now' = IF s.failed THEN s ELSE CheckCorrelated(checked, inv, stored)
    /\ stored' = IF inv.kind = "consistency" /\ ~s.failed THEN Store(checked, stored)
                 ELSE stored
    /\ reached' = IF RequestAccepted(Cur(s))
                  THEN reached \cup {Cur(s).loc} ELSE reached
    /\ decided' = (now'.choiceCount = 0 /\ now' # s)
    /\ ended' = IF Correlated(inv) /\ ~s.failed /\ checked.choiceCount = 0
                THEN ended \cup {<<s.idx, checked.violated>>} ELSE ended
    /\ UNCHANGED inv

\* The choices SPIN selects from; the exploration ends when there are none.
Selection == 0 .. now.choiceCount - 1

ChooseConn ==
  /\ now.process = "choose_conn"
  /\ \E choice \in Selection : \E s \in {ChooseConnStep(now, choice)} : ExecStep(s)

Forward ==
  /\ now.process = "forwarding" /\ ~Injects(now)
  /\ \E choice \in Selection : \E s \in {ForwardingStep(now, choice, <<>>)} : ExecStep(s)

Inject ==
  /\ Injects(now) /\ Selection # {}
  /\ \E results \in Answers(now) : \E s \in {ForwardingStep(now, 0, results)} : ExecStep(s)

InstallUpdate ==
  /\ now.process = "openflow"
  /\ \E choice \in Selection : \E s \in {OpenFlowStep(now, choice)} : ExecStep(s)

Step == ChooseConn \/ Forward \/ Inject \/ InstallUpdate

\* The memory of the process, and initialize.
Zeroed ==
  [conns |-> [i \in Conns |-> UnusedConn], conn |-> 1, numConns |-> 0,
   process |-> "forwarding", choiceCount |-> 1, installed |-> [n \in Nodes |-> 0],
   violated |-> FALSE, idx |-> 1, reachCounts |-> [n \in Nodes |-> 0],
   failed |-> FALSE]

Initialized(i) ==
  [InitConns(Zeroed, Part(Zeroed, i).conns) EXCEPT
     !.violated = InitialVerdict(Part(Zeroed, i))]

Init ==
  /\ inv \in Queries
  /\ now = Initialized(inv)
  /\ stored = [unset |-> TRUE, result |-> FALSE]
  /\ reached = {} /\ decided = FALSE /\ ended = {}

\* SPIN goes on with another path unless this one violates the invariant.  The
\* members of the invariant are not part of the state it restores.
NextPath ==
  /\ now.choiceCount = 0 /\ ~now.violated /\ ~now.failed
  /\ now' = Initialized(inv)
  /\ reached' = {} /\ decided' = FALSE
  /\ ended' = IF inv.kind = "consistency" THEN ended ELSE {}
  /\ UNCHANGED <<inv, stored>>

Next == Step \/ NextPath

\* SPIN follows every path until it ends.
Spec == Init /\ [][Next]_vars /\ WF_vars(Step)

-----------------------------------------------------------------------------
(* Properties                                                              *)

Ended == now.choiceCount = 0

\* The current connection exists, and every connection that does has its end
\* points, a destination and a protocol state.
TypeOK ==
  /\ now.conn \in 1 .. now.numConns
  /\ now.numConns \in Conns
  /\ now.process \in {"choose_conn", "forwarding", "openflow"}
  /\ now.idx \in IF Correlated(inv) THEN DOMAIN inv.parts ELSE {1}
  /\ {now.violated, now.failed, decided, stored.unset, stored.result} \subseteq BOOLEAN
  /\ \A n \in Nodes : now.installed[n] \in 0 .. Len(Updates[n])
  /\ reached \subseteq Nodes
  /\ \A i \in 1 .. now.numConns :
       LET c == now.conns[i]
       IN /\ c.executable \in 0 .. 2
          /\ c.proto \in ProtoStates
          /\ c.mode \in Modes
          /\ c.dst \in Ecs /\ c.src \in Ecs \cup {NoEc}
          /\ {c.srcNode, c.txNode, c.loc} \subseteq Nodes
          /\ c.rxNode \in Nodes \cup {NoNode}

\* Whatever process ran and whichever connection was current before, the range
\* of choices is that of what the next step indexes with the choice: the
\* candidates, the injection results, or the connections at a middlebox.
ChoiceInRange ==
  ~Ended =>
    CASE now.process = "choose_conn" ->
           now.choiceCount = UpdateChoiceCount(now).choiceCount
      [] now.process = "openflow" ->
           now.choiceCount <= 2 /\ HasUpdates(now, Cur(now).loc)
      [] now.process = "forwarding" ->
           CASE Cur(now).mode \in {"FIRST_FORWARD", "FORWARD_PACKET"} ->
                  now.choiceCount = Len(Cur(now).candidates)
             [] Cur(now).mode = "CHOOSE_INJ_RES" ->
                  now.choiceCount = Len(Cur(now).results)
             [] OTHER -> now.choiceCount = 1

\* Injections come last: a packet is injected only when no other connection has
\* a packet on its way outside the middleboxes, so the order of injections is
\* all that is left to interleave.
InjectWhenQuiet ==
  Injects(now) /\ ~Ended =>
    \A i \in 1 .. now.numConns : i # now.conn => now.conns[i].executable # 2

\* No step of a path throws or fails an assertion: no duplicate path choice, no
\* connection to choose while one is asked for, no unexpected first packet.
NeverFails == ~now.failed

\* "every connection is dropped": when no choice is left and the invariant has
\* not decided, each connection has ended.
EndsWhenDone ==
  Ended /\ ~decided /\ ~now.failed =>
    \A i \in 1 .. now.numConns : Finished(now.conns[i])

\* "the packets should eventually be accepted by one of target_nodes": when the
\* exploration ends, either a request was accepted there, or no connection has a
\* packet left that could be; the verdict is the one expected of it.
ReachabilityVerdict ==
  Ended /\ inv.kind = "reachability" /\ ~now.failed =>
    IF reached \cap inv.targets # {} THEN now.violated = ~inv.expected
    ELSE /\ now.violated = inv.expected
         /\ \A i \in 1 .. now.numConns : i # now.conn => now.conns[i].executable = 0

\* A flow keeps to its path: where it had to choose among several next hops, its
\* packets leave by the one chosen first for as long as the FIB has that, whatever
\* updates, replies or other connections came in between.
FlowKeepsPath ==
  /\ now.process = "forwarding" /\ ~Ended /\ now'.idx = now.idx
  /\ Cur(now).mode \in {"FIRST_FORWARD", "FORWARD_PACKET"}
  => \A ch \in PastChoices(Cur(now)) :
       ch.hop \in Cur(now).fib[Cur(now).loc] => now'.conns[now.conn].loc = ch.hop

FlowsKeepPath == [][FlowKeepsPath]_vars

\* The FIB of a connection is one its nodes have had for its destination: at each
\* of them that of the configuration and some of the updates installed so far,
\* though other connections installed them, or its packets were rewritten.
FibsAreSnapshots ==
  \A i \in 1 .. now.numConns, n \in Nodes :
    \E k \in 0 .. now.installed[n] : now.conns[i].fib[n] = HopsWith(n, k, now.conns[i].dst)

\* Every path SPIN follows comes to an end.
PathEnds == []<>Ended

Verdicts(i) == {v \in BOOLEAN : <<i, v>> \in ended}

\* "invariant holds if the first sub-inv does not", "invariant violated if any
\* subsequent sub-inv fails to hold", and no part is left out otherwise.
ConditionalVerdict ==
  Ended /\ inv.kind = "conditional" /\ ~now.failed =>
    IF now.violated THEN Verdicts(1) = {FALSE} /\ \E i \in 2 .. now.idx : TRUE \in Verdicts(i)
    ELSE \/ Verdicts(1) = {TRUE}
         \/ \A i \in DOMAIN inv.parts : Verdicts(i) = {FALSE}

\* "true if all sub-invariants have the same result": so far, on this and on the
\* paths before it, unless this path reports a violation; and each has been
\* evaluated when a path ends without one.
ConsistencyVerdict ==
  Ended /\ inv.kind = "consistency" /\ ~now.failed =>
    /\ now.violated = (UNION {Verdicts(i) : i \in DOMAIN inv.parts} = BOOLEAN)
    /\ now.violated \/ \A i \in DOMAIN inv.parts : Verdicts(i) # {}

\* A part starts from the state it would start from alone: no connection, FIB,
\* path choice or OpenFlow update is left from the parts before it.
PartStartsAfresh ==
  now'.idx > now.idx =>
    LET alone == Initialized(inv.parts[now'.idx])
    IN now' = [alone EXCEPT
                 !.idx = now'.idx,
                 !.conns = [i \in Conns |-> IF i <= alone.numConns THEN @[i]
                                            ELSE now'.conns[i]]]

PartsStartAfresh == [][PartStartsAfresh]_vars

\* A forwarding loop exists: a set of nodes that a packet of some connection
\* need never leave.
ForwardsTo(c, n, h) ==
  h # n /\ h \in IF n \in Emulated THEN {GetIpnh[MbIntf[n][c.dst]][c.dst]}
               ELSE c.fib[n]

LoopExists ==
  \E i \in 1 .. now.numConns : \E S \in SUBSET Nodes \ {{}} :
    \A n \in S : \E h \in S : ForwardsTo(now.conns[i], n, h)

\* "loop (there is no forwarding loop)": a reported loop exists.
LoopVerdict == inv.kind = "loop" /\ now.violated => LoopExists
=============================================================================
