----------------------------- MODULE Invariants -----------------------------
(***************************************************************************)
(* check_violation of the invariants a user may specify, run after every   *)
(* step.  An invariant has a kind, its target nodes, what it expects       *)
(* (reachable, pass_through or the maximum dispersion index), and its      *)
(* initial connections; a correlated one consists of others, its parts.    *)
(* The verdict is the variable "violated"; setting choice_count to 0 ends  *)
(* the exploration of a path.                                              *)
(***************************************************************************)
EXTENDS ModelState, FiniteSetsExt

Kinds == {"reachability", "reply_reachability", "waypoint", "loop", "one_request",
          "loadbalance", "conditional", "consistency"}

Correlated(inv) == inv.kind \in {"conditional", "consistency"}

\* The others are about one connection, and those a middlebox starts for it.
MultiConn(inv) == inv.kind \in {"one_request", "loadbalance"}

\* init of each invariant: the verdict if nothing decides.
InitialVerdict(inv) == inv.kind = "one_request"

Decide(s, violated) == [s EXCEPT !.violated = violated, !.choiceCount = 0]

RequestAccepted(c) ==
  \/ c.mode = "ACCEPTED" /\ IsRequest(c.proto)
  \/ c.mode = "FIRST_FORWARD" /\ ReqAckOrRep(c.proto)

\* Mutant: only connections before a middlebox count.
OtherWaiting(s) ==
  \E i \in 1 .. s.numConns : i # s.conn /\ s.conns[i].executable = 1

OtherExecutable(s) ==
  \E i \in 1 .. s.numConns : i # s.conn /\ s.conns[i].executable > 0

\* A request reached a target, or nothing is left that could reach one.
Reachability(s, inv) ==
  LET c == Cur(s)
  IN IF RequestAccepted(c) /\ c.rxNode \in inv.targets
       THEN Decide(s, ~inv.expected)
     ELSE IF (RequestAccepted(c) \/ c.mode = "DROPPED") /\ ~OtherExecutable(s)
       THEN Decide(s, inv.expected)
     ELSE s

BeforeReply(c) == c.proto < 6 \/ c.proto \in {11, 13}

\* The request reached a target and its reply came back to the sender.
ReplyReachability(s, inv) ==
  LET c == Cur(s)
      wrongTarget == RequestAccepted(c) /\ c.rxNode \notin inv.targets
      back == c.mode = "ACCEPTED" /\ c.loc = c.txNode
      astray == c.mode = "ACCEPTED" /\ c.loc # c.txNode
  IN IF BeforeReply(c)
       THEN IF (wrongTarget \/ c.mode = "DROPPED") /\ ~OtherExecutable(s)
            THEN Decide(s, inv.expected) ELSE s
     ELSE IF ~IsReply(c.proto) THEN s
     ELSE IF back THEN Decide(s, ~inv.expected)
     ELSE IF (astray \/ c.mode = "DROPPED") /\ ~OtherExecutable(s)
       THEN Decide(s, inv.expected)
     ELSE s

Waypoint(s, inv) ==
  IF Cur(s).mode = "COLLECT_NHOPS" /\ Cur(s).loc \in inv.targets
  THEN Decide(s, ~inv.expected) ELSE s

\* _hops grows by the current hop; _last_hop, which should tell a packet that
\* stays from one that returns, is never set.
Loop(s, inv) ==
  LET c == Cur(s)
      hop == <<c.dst, c.ports[2], c.loc>>
  IN IF (RequestAccepted(c) \/ c.mode = "DROPPED") /\ ~OtherExecutable(s)
       THEN Decide(s, FALSE)
     ELSE IF hop \in c.visited THEN Decide(s, TRUE)
     ELSE SetCur(s, [c EXCEPT !.visited = @ \cup {hop}])

\* The connection is not to be chosen any more once it is counted.
Count(s) ==
  [SetCur(s, [Cur(s) EXCEPT !.executable = 0])
     EXCEPT !.reachCounts[Cur(s).rxNode] = @ + 1]

OneRequest(s, inv) ==
  LET c == Cur(s)
      t == Count(s)
  IN IF c.mode = "ACCEPTED" /\ IsRequest(c.proto) /\ c.rxNode \in inv.targets
       THEN IF MapThenSumSet(LAMBDA n : t.reachCounts[n], Nodes) > 1
            THEN Decide(t, TRUE) ELSE t
     ELSE s

\* The variance of the targets' counts exceeds the maximum times their mean.
TooDispersed(counts, targets, maximum) ==
  LET n == Cardinality(targets)
      sum == MapThenSumSet(LAMBDA x : counts[x], targets)
      squares == MapThenSumSet(LAMBDA x : counts[x] * counts[x], targets)
  IN n * squares - sum * sum > maximum * n * sum

LoadBalance(s, inv) ==
  LET c == Cur(s)
      t == Count(s)
  IN IF c.mode = "ACCEPTED" /\ IsFirst(c.proto)
       THEN IF /\ c.rxNode \in inv.targets
               /\ TooDispersed(t.reachCounts, inv.targets, inv.expected)
            THEN Decide(t, TRUE) ELSE t
     ELSE s

\* check_violation of an invariant that is not correlated.
CheckOne(s, inv) ==
  CASE inv.kind = "reachability"       -> Reachability(s, inv)
    [] inv.kind = "reply_reachability" -> ReplyReachability(s, inv)
    [] inv.kind = "waypoint"           -> Waypoint(s, inv)
    [] inv.kind = "loop"               -> Loop(s, inv)
    [] inv.kind = "one_request"        -> OneRequest(s, inv)
    [] inv.kind = "loadbalance"        -> LoadBalance(s, inv)

-----------------------------------------------------------------------------
(* Correlated invariants, whose parts are checked one after the other, each *)
(* from the start                                                           *)

Part(s, inv) == IF Correlated(inv) THEN inv.parts[s.idx] ELSE inv

\* Mutant: the updates installed for the last part stay installed.
ReinitKeepUpdates(s, inv) ==
  [InitConns(s, Part(s, inv).conns) EXCEPT
     !.process = "forwarding", !.choiceCount = 1,
     !.violated = InitialVerdict(Part(s, inv))]

\* reinit.
Reinit(s, inv) ==
  [InitConns([s EXCEPT !.installed = [n \in Nodes |-> 0]], Part(s, inv).conns) EXCEPT
     !.process = "forwarding", !.choiceCount = 1,
     !.violated = InitialVerdict(Part(s, inv))]

\* Mutant: the last part is not checked.
NextPartButLast(s, inv) ==
  IF s.idx + 1 < Len(inv.parts) THEN Reinit([s EXCEPT !.idx = @ + 1], inv)
  ELSE [s EXCEPT !.violated = FALSE]

NextPart(s, inv) ==
  IF s.idx < Len(inv.parts) THEN Reinit([s EXCEPT !.idx = @ + 1], inv)
  ELSE [s EXCEPT !.violated = FALSE]

\* The first part is the condition of the others.
Conditional(s, inv) ==
  IF s.choiceCount # 0 THEN s
  ELSE IF s.violated THEN [s EXCEPT !.violated = s.idx > 1]
  ELSE NextPart(s, inv)

\* Mutant: nothing is stored.
StoreNever(s, stored) == stored

\* "unset" and "result" are kept from the first part that ends on any path.
Store(s, stored) ==
  IF s.choiceCount = 0 /\ stored.unset THEN [unset |-> FALSE, result |-> s.violated]
  ELSE stored

\* All parts, on all paths, are to have the stored result.
Consistency(s, inv, stored) ==
  IF s.choiceCount # 0 THEN s
  ELSE IF s.violated # stored.result THEN [s EXCEPT !.violated = TRUE]
  ELSE NextPart(s, inv)

\* After the part of a correlated invariant has checked the state.
CheckCorrelated(s, inv, stored) ==
  CASE inv.kind = "conditional" -> Conditional(s, inv)
    [] inv.kind = "consistency" -> Consistency(s, inv, Store(s, stored))
    [] OTHER                    -> s
=============================================================================
