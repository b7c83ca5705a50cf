--------------------------- MODULE PlanktonProofs ---------------------------
(***************************************************************************)
(* Theorems about the exploration in a connection-EC process, for any      *)
(* network, queries and middleboxes: the processes hand each other states  *)
(* in which the range of choices is that of what is indexed next, packets  *)
(* are injected last, the parts of a correlated invariant are checked one  *)
(* after the other, each from the start, and each FIB is one that the      *)
(* nodes have had.                                                         *)
(*                                                                         *)
(* A step of a process leaves a state (Stepped), from which the switch of  *)
(* processes makes one that the next step can start from (Ready); what the *)
(* invariant does with that keeps it so.                                   *)
(***************************************************************************)
EXTENDS ForwardingProofs

-----------------------------------------------------------------------------
(* The maps of connections                                                 *)

Mapped(s, x) ==
  {i \in 1 .. s.numConns : s.conns[i].executable = x /\ ~Finished(s.conns[i])}

\* g lists the numbers up to n that are in M, in order.
Lists(n, M, g) ==
  /\ g \in [0 .. n -> Seq(Nat)] /\ g[0] = <<>>
  /\ \A i \in 1 .. n : g[i] = IF i \in M THEN Append(g[i - 1], i) ELSE g[i - 1]

LEMMA ListsElements ==
  ASSUME NEW n \in Nat, NEW M \in SUBSET (1 .. n), NEW g, Lists(n, M, g)
  PROVE  g[n] \in Seq(M) /\ (g[n] = <<>> <=> M = {})
<1> DEFINE T == {k \in Nat : k <= n =>
                   g[k] \in Seq(M) /\ (g[k] = <<>> <=> \A j \in M : j > k)}
<1>1. 0 \in T
  BY DEF Lists
<1>2. ASSUME NEW k \in Nat, k \in T
      PROVE  k + 1 \in T
  <2> SUFFICES ASSUME k + 1 <= n
               PROVE  g[k + 1] \in Seq(M) /\ (g[k + 1] = <<>> <=> \A j \in M : j > k + 1)
    OBVIOUS
  <2>1. g[k] \in Seq(M) /\ (g[k] = <<>> <=> \A j \in M : j > k)
    BY <1>2
  <2>2. g[k + 1] = IF k + 1 \in M THEN Append(g[k], k + 1) ELSE g[k]
    <3>1. k + 1 \in 1 .. n /\ (k + 1) - 1 = k
      OBVIOUS
    <3> QED
      BY <3>1 DEF Lists
  <2>3. CASE k + 1 \in M
    <3>1. g[k + 1] = Append(g[k], k + 1)
      BY <2>2, <2>3
    <3>2. Append(g[k], k + 1) \in Seq(M) /\ Append(g[k], k + 1) # <<>>
      BY <2>1, <2>3
    <3>3. ~(\A j \in M : j > k + 1)
      BY <2>3
    <3> QED
      BY <3>1, <3>2, <3>3
  <2>4. CASE k + 1 \notin M
    <3>1. \A j \in M : j > k <=> j > k + 1
      BY <2>4
    <3> QED
      BY <2>1, <2>2, <2>4, <3>1
  <2> QED
    BY <2>3, <2>4
<1>3. n \in T
  <2> HIDE DEF T
  <2> QED
    BY <1>1, <1>2, NatSetInduction
<1>4. g[n] \in Seq(M) /\ (g[n] = <<>> <=> \A j \in M : j > n)
  BY <1>3
<1>5. (\A j \in M : j > n) <=> M = {}
  OBVIOUS
<1> QED
  BY <1>4, <1>5

LEMMA ListsUnique ==
  ASSUME NEW n \in Nat, NEW M, NEW g, NEW h, Lists(n, M, g), Lists(n, M, h)
  PROVE  g[n] = h[n]
<1> DEFINE T == {k \in Nat : k <= n => g[k] = h[k]}
<1>1. 0 \in T
  BY DEF Lists
<1>2. ASSUME NEW k \in Nat, k \in T
      PROVE  k + 1 \in T
  <2> SUFFICES ASSUME k + 1 <= n
               PROVE  g[k + 1] = h[k + 1]
    OBVIOUS
  <2>1. g[k] = h[k]
    BY <1>2
  <2>2. k + 1 \in 1 .. n /\ (k + 1) - 1 = k
    OBVIOUS
  <2> QED
    BY <2>1, <2>2 DEF Lists
<1>3. n \in T
  <2> HIDE DEF T
  <2> QED
    BY <1>1, <1>2, NatSetInduction
<1> QED
  BY <1>3

LEMMA ConnMapLists ==
  ASSUME NEW s, s.numConns \in Nat, NEW x
  PROVE  \E g : Lists(s.numConns, Mapped(s, x), g) /\ ConnMap(s, x) = g[s.numConns]
<1> DEFINE n == s.numConns
           M == Mapped(s, x)
           S == Seq(Nat)
           mapped(i) == s.conns[i].executable = x /\ ~Finished(s.conns[i])
           upTo[i \in 0 .. n] ==
             IF i = 0 THEN <<>>
             ELSE IF mapped(i) THEN Append(upTo[i - 1], i) ELSE upTo[i - 1]
           add(v, i) == IF mapped(i) THEN Append(v, i) ELSE v
           D == [y \in S \X (1 .. n) |-> add(y[1], y[2])]
<1>1. ConnMap(s, x) = upTo[n]
  BY DEF ConnMap
<1>2. n \in Nat /\ <<>> \in S
  OBVIOUS
<1>3. \A v \in S, i \in 1 .. n : add(v, i) \in S
  BY <1>2
<1>4. D \in Bodies(S, n) /\ \A v \in S, i \in 1 .. n : D[<<v, i>>] = add(v, i)
  <2> HIDE DEF add, S
  <2> QED
    BY <1>3 DEF Bodies
<1>5. \A i \in 1 .. n : mapped(i) <=> i \in M
  BY DEF Mapped
<1> HIDE DEF n, S, D, M
<1>6. PICK g \in [0 .. n -> S] : Iterates(g, <<>>, D, n)
  <2> HIDE DEF upTo
  <2> QED
    BY <1>2, <1>4, LoopRuns
<1>7. ASSUME NEW i \in 0 .. n
      PROVE  g[i] = IF i = 0 THEN <<>> ELSE add(g[i - 1], i)
  <2> HIDE DEF upTo, add
  <2>1. CASE i # 0
    <3>1. i \in 1 .. n /\ i - 1 \in 0 .. n
      BY <1>2, <2>1
    <3> QED
      BY <1>4, <1>6, <2>1, <3>1 DEF Iterates
  <2> QED
    BY <1>6, <2>1 DEF Iterates
<1>8. g = [i \in 0 .. n |-> IF i = 0 THEN <<>> ELSE add(g[i - 1], i)]
  <2> HIDE DEF upTo, add
  <2> QED
    BY <1>7
<1>9. upTo = [i \in 0 .. n |-> IF i = 0 THEN <<>> ELSE add(upTo[i - 1], i)]
  BY <1>8
<1> HIDE DEF upTo
<1>10. ASSUME NEW i \in 0 .. n
       PROVE  upTo[i] \in S
  <2>1. upTo[0] \in S
    BY <1>2, <1>9
  <2>2. ASSUME NEW j \in 1 .. n, upTo[j - 1] \in S
        PROVE  upTo[j] \in S
    <3>1. j \in 0 .. n /\ j # 0
      BY <1>2
    <3>2. upTo[j] = add(upTo[j - 1], j)
      BY <1>9, <3>1
    <3> HIDE DEF add
    <3> QED
      BY <1>3, <2>2, <3>2
  <2>3. \A j \in 0 .. n : upTo[j] \in S
    BY <1>2, <2>1, <2>2, LoopInvariant
  <2> QED
    BY <2>3
<1>11. Lists(n, M, upTo)
  <2>1. upTo \in [0 .. n -> Seq(Nat)]
    BY <1>9, <1>10 DEF S
  <2>2. upTo[0] = <<>>
    BY <1>2, <1>9
  <2>3. \A i \in 1 .. n : upTo[i] = IF i \in M THEN Append(upTo[i - 1], i) ELSE upTo[i - 1]
    <3>1. \A i \in 1 .. n : i \in 0 .. n /\ i # 0
      BY <1>2
    <3> QED
      BY <1>5, <1>9, <3>1
  <2> QED
    BY <2>1, <2>2, <2>3 DEF Lists
<1> QED
  BY <1>1, <1>11 DEF n, M

LEMMA ConnMapFacts ==
  ASSUME NEW s, s.numConns \in Nat, NEW x
  PROVE  /\ ConnMap(s, x) \in Seq(Mapped(s, x)) /\ Len(ConnMap(s, x)) \in Nat
         /\ ConnMap(s, x) = <<>> <=> Mapped(s, x) = {}
         /\ \A k \in 1 .. Len(ConnMap(s, x)) : ConnMap(s, x)[k] \in Mapped(s, x)
<1>1. PICK g : Lists(s.numConns, Mapped(s, x), g) /\ ConnMap(s, x) = g[s.numConns]
  BY ConnMapLists
<1>2. Mapped(s, x) \in SUBSET (1 .. s.numConns)
  BY DEF Mapped
<1>3. ConnMap(s, x) \in Seq(Mapped(s, x)) /\ (ConnMap(s, x) = <<>> <=> Mapped(s, x) = {})
  BY <1>1, <1>2, ListsElements
<1> QED
  BY <1>3

LEMMA ConnMapSame ==
  ASSUME NEW s, s.numConns \in Nat, NEW t, t.numConns = s.numConns, NEW x,
         Mapped(s, x) = Mapped(t, x)
  PROVE  ConnMap(s, x) = ConnMap(t, x)
BY ConnMapLists, ListsUnique
-----------------------------------------------------------------------------
(* Choosing a connection                                                   *)

OnConn(s, i) == [s EXCEPT !.conn = i]
PutConn(s, i, d) == [s EXCEPT !.conn = i, !.conns[i] = d]

LEMMA OnConnType ==
  ASSUME NEW s, Sane(s), NEW i \in 1 .. s.numConns, NEW t, t = OnConn(s, i)
  PROVE  /\ Sane(t) /\ t.conn = i /\ t.conns = s.conns /\ t.numConns = s.numConns
         /\ t.process = s.process /\ t.failed = s.failed /\ Keeps(s, t)
         /\ Cur(t) = s.conns[i]
<1>1. s \in States /\ i \in Conns
  BY CurType
<1>2. /\ t \in States /\ t.conn = i /\ t.conns = s.conns /\ t.numConns = s.numConns
      /\ t.process = s.process /\ t.failed = s.failed /\ t.installed = s.installed
      /\ t.idx = s.idx /\ t.violated = s.violated /\ t.reachCounts = s.reachCounts
  BY <1>1 DEF States, OnConn
<1>3. Sane(t)
  BY <1>2 DEF Sane, InstalledOK
<1> QED
  BY <1>2, <1>3 DEF Keeps, Cur

LEMMA PutConnType ==
  ASSUME NEW s, Sane(s), NEW i \in 1 .. s.numConns, NEW d \in ConnRecs, Sound(d),
         d.visited = s.conns[i].visited, NEW t, t = PutConn(s, i, d)
  PROVE  /\ Sane(t) /\ t.conn = i /\ t.numConns = s.numConns
         /\ t.process = s.process /\ t.failed = s.failed /\ Keeps(s, t)
         /\ Cur(t) = d
         /\ \A j \in 1 .. s.numConns : j # i => t.conns[j] = s.conns[j]
<1>1. s \in States /\ i \in Conns /\ s.conns \in [Conns -> ConnRecs]
  BY CurType DEF States
<1>2. /\ t \in States /\ t.conn = i /\ t.numConns = s.numConns
      /\ t.process = s.process /\ t.failed = s.failed /\ t.installed = s.installed
      /\ t.idx = s.idx /\ t.violated = s.violated /\ t.reachCounts = s.reachCounts
  BY <1>1 DEF States, PutConn
<1>3. t.conns = [s.conns EXCEPT ![i] = d]
  BY <1>1 DEF States, PutConn
<1>4. t.conns[i] = d /\ \A j \in Conns : j # i => t.conns[j] = s.conns[j]
  BY <1>1, <1>3
<1>5. \A j \in Conns : t.conns[j].visited = s.conns[j].visited
  BY <1>4
<1>6. \A j \in 1 .. s.numConns : j # i => t.conns[j] = s.conns[j]
  BY <1>4, CurType
<1>7. Sane(t)
  BY <1>2, <1>4, <1>6 DEF Sane, InstalledOK
<1> QED
  BY <1>2, <1>4, <1>5, <1>6, <1>7 DEF Keeps, Cur

\* The connection that is chosen, with the range of choices for its next step.
LEMMA ChosenStepped ==
  ASSUME NEW s, NEW t, Sane(t), t.process = s.process, s.process = "choose_conn",
         Keeps(s, t), ~t.failed, OthersSettled(t), Settled(Cur(t)),
         AtMb(Cur(t)) => Quiet(t), NEW u, NEW n, n = Offered(Cur(t)),
         u = [t EXCEPT !.choiceCount = n]
  PROVE  Stepped(s, u)
<1>1. t \in States /\ Cur(t) \in ConnRecs
  BY CurType
<1>2. n \in Nat
  <2>1. Cur(t).candidates \in Seq(Nodes) /\ Cur(t).results \in Seq(Results)
    BY <1>1 DEF ConnRecs
  <2>2. Len(Cur(t).candidates) \in Nat /\ Len(Cur(t).results) \in Nat
    BY <2>1
  <2> QED
    BY <2>2 DEF Offered
<1>3. Changed(t, u, Cur(t)) /\ u.choiceCount = n
  BY <1>1, <1>2, ChoiceChanged
<1>4. Sane(u)
  BY <1>3, ChangedSane, CurType
<1>5. OthersSettled(u) /\ Cur(u) = Cur(t) /\ ~u.failed /\ u.process = s.process
  BY <1>3 DEF Changed, OthersSettled
<1>6. AtMb(Cur(u)) => Quiet(u)
  BY <1>3, <1>5 DEF Changed, Quiet
<1>7. Left(u)
  BY <1>3, <1>5, <1>6 DEF Left, Settled
<1>8. Keeps(s, u)
  BY <1>3 DEF Changed, Keeps
<1> QED
  BY <1>4, <1>5, <1>7, <1>8 DEF Stepped

LEMMA ChooseConnStepped ==
  ASSUME NEW s, Sane(s), Ready(s), s.process = "choose_conn",
         NEW choice \in 0 .. s.choiceCount - 1
  PROVE  Stepped(s, ChooseConnStep(s, choice))
<1> DEFINE none == \A x \in 0 .. 2 : ConnMap(s, x) = <<>>
           t == Chosen(s, choice)
           n == IF Cur(t).mode \in {"FORWARD_PACKET", "FIRST_FORWARD"}
                THEN Len(Cur(t).candidates) ELSE 1
           u == [t EXCEPT !.choiceCount = n]
<1>1. ChooseConnStep(s, choice) = IF none THEN Fail(s) ELSE u
  BY DEF ChooseConnStep
<1>2. /\ OthersSettled(s) /\ ~s.failed /\ Settled(Cur(s)) /\ s \in States
      /\ s.choiceCount = UpdateChoiceCount(s).choiceCount
  BY CurType DEF Ready, ReadyFor
<1>3. s.numConns \in Nat /\ s.conns \in [Conns -> ConnRecs]
  BY <1>2 DEF Sane, Conns, States
<1>4. \A i \in 1 .. s.numConns : /\ Settled(s.conns[i]) /\ Sound(s.conns[i])
                                 /\ s.conns[i] \in ConnRecs
  BY <1>2, CurType DEF OthersSettled, Cur, Sane
<1>5. \A x, k : k \in 1 .. Len(ConnMap(s, x)) => ConnMap(s, x)[k] \in Mapped(s, x)
  BY <1>3, ConnMapFacts
<1>6. \A x : /\ Mapped(s, x) \subseteq 1 .. s.numConns
             /\ \A i \in Mapped(s, x) : s.conns[i].executable = x
  BY DEF Mapped
<1>7. \A x : Len(ConnMap(s, x)) \in Nat /\ (ConnMap(s, x) # <<>> => 1 \in 1 .. Len(ConnMap(s, x)))
  <2> SUFFICES ASSUME NEW x
               PROVE  /\ Len(ConnMap(s, x)) \in Nat
                      /\ ConnMap(s, x) # <<>> => 1 \in 1 .. Len(ConnMap(s, x))
    OBVIOUS
  <2> DEFINE m == ConnMap(s, x)
  <2>1. m \in Seq(Mapped(s, x))
    BY <1>3, ConnMapFacts
  <2> HIDE DEF m
  <2>2. Len(m) \in Nat /\ (m # <<>> => 1 \in 1 .. Len(m))
    BY <2>1
  <2> QED
    BY <2>2 DEF m
<1>8. t = IF ConnMap(s, 2) # <<>> THEN OnConn(s, ConnMap(s, 2)[1])
          ELSE IF ConnMap(s, 1) # <<>>
            THEN [s EXCEPT !.conn = ConnMap(s, 1)[choice + 1],
                           !.conns[ConnMap(s, 1)[choice + 1]].executable = 2]
          ELSE [s EXCEPT !.conn = ConnMap(s, 0)[1],
                         !.conns[ConnMap(s, 0)[1]].mode = "DROPPED"]
  BY DEF Chosen, OnConn
<1>9. ~none => ConnMap(s, 0) # <<>> \/ ConnMap(s, 1) # <<>> \/ ConnMap(s, 2) # <<>>
  BY DEF none
<1> HIDE DEF t
<1>10. CASE ConnMap(s, 2) # <<>>
  <2> DEFINE i == ConnMap(s, 2)[1]
  <2>1. t = OnConn(s, i) /\ i \in 1 .. s.numConns /\ s.conns[i].executable = 2
    BY <1>5, <1>6, <1>7, <1>8, <1>10
  <2> HIDE DEF i
  <2>2. /\ Sane(t) /\ t.conn = i /\ t.conns = s.conns /\ t.numConns = s.numConns
        /\ t.process = s.process /\ t.failed = s.failed /\ Keeps(s, t)
        /\ Cur(t) = s.conns[i]
    BY <2>1, OnConnType
  <2>3. OthersSettled(t) /\ Settled(Cur(t)) /\ ~AtMb(Cur(t))
    BY <1>4, <2>1, <2>2 DEF OthersSettled, Settled
  <2>4. n = Offered(Cur(t))
    BY <2>3 DEF Offered, Outbound, Settled
  <2> HIDE DEF n
  <2>5. Stepped(s, u)
    BY <1>2, <2>2, <2>3, <2>4, ChosenStepped
  <2> QED
    BY <1>1, <1>10, <2>5
<1>11. CASE ConnMap(s, 2) = <<>> /\ ConnMap(s, 1) # <<>>
  <2> DEFINE i == ConnMap(s, 1)[choice + 1]
             c == s.conns[i]
             d == Stopped(c, c.mode, 2)
  <2>1. s.choiceCount = Len(ConnMap(s, 1))
    BY <1>2, <1>11 DEF UpdateChoiceCount, States
  <2>2. choice + 1 \in 1 .. Len(ConnMap(s, 1))
    BY <1>7, <2>1
  <2>3. i \in 1 .. s.numConns /\ c.executable = 1
    BY <1>5, <1>6, <2>2
  <2>4. c \in ConnRecs /\ Sound(c) /\ Settled(c) /\ i \in Conns
    BY <1>4, <2>3, CurType
  <2>5. t = [s EXCEPT !.conn = i, !.conns[i].executable = 2]
    BY <1>8, <1>11
  <2> HIDE DEF i
  <2>6. t = PutConn(s, i, d)
    <3>1. d = [c EXCEPT !.executable = 2]
      <4>1. d = [c EXCEPT !.mode = c.mode, !.executable = 2]
        BY DEF Stopped
      <4> HIDE DEF d, c
      <4> QED
        BY <2>4, <4>1 DEF ConnRecs
    <3>2. [s EXCEPT !.conn = i, !.conns[i].executable = 2]
            = [s EXCEPT !.conn = i, !.conns[i] = [@ EXCEPT !.executable = 2]]
      BY <1>2, <1>3, <2>4 DEF States
    <3>3. [s EXCEPT !.conn = i, !.conns[i] = [@ EXCEPT !.executable = 2]]
            = [s EXCEPT !.conn = i, !.conns[i] = d]
      BY <1>2, <1>3, <2>4, <3>1 DEF States
    <3> QED
      BY <2>5, <3>2, <3>3 DEF PutConn
  <2>7. d \in ConnRecs /\ SameFlow(c, d) /\ d.mode = c.mode /\ d.executable = 2 /\ d.loc = c.loc
    <3>1. c.mode \in Modes /\ 2 \in 0 .. 2 /\ c \in ConnRecs
      BY <2>4 DEF ConnRecs
    <3> DEFINE m == c.mode
    <3>2. d = Stopped(c, m, 2) /\ c \in ConnRecs /\ m \in Modes /\ 2 \in 0 .. 2
      BY <3>1
    <3> HIDE DEF d, c, m
    <3>3. /\ d \in ConnRecs /\ SameFlow(c, d) /\ d.mode = m /\ d.executable = 2
          /\ d.loc = c.loc
      BY <3>2, StoppedType
    <3> QED
      BY <3>3 DEF m
  <2>8. c.mode = "COLLECT_NHOPS"
    BY <2>3, <2>4 DEF Sound
  <2> HIDE DEF d, c
  <2>9. Sound(d) /\ d.visited = c.visited
    BY <2>4, <2>7, <2>8 DEF Sound, SameFlow, Outbound
  <2>10. /\ Sane(t) /\ t.conn = i /\ t.numConns = s.numConns
         /\ t.process = s.process /\ t.failed = s.failed /\ Keeps(s, t)
         /\ Cur(t) = d
         /\ \A j \in 1 .. s.numConns : j # i => t.conns[j] = s.conns[j]
    BY <2>3, <2>6, <2>7, <2>9, PutConnType DEF c
  <2>11. OthersSettled(t)
    BY <1>4, <2>10 DEF OthersSettled
  <2>12. Quiet(t)
    <3>1. Mapped(s, 2) = {}
      BY <1>3, <1>11, ConnMapFacts
    <3>2. \A j \in 1 .. s.numConns : s.conns[j].executable # 2
      BY <3>1 DEF Mapped, Finished
    <3> QED
      BY <2>10, <3>2 DEF Quiet
  <2>13. n = Offered(d)
    BY <2>7, <2>8, <2>10 DEF Offered, Outbound
  <2> HIDE DEF n
  <2>14. Stepped(s, u)
    <3>1. t \in States /\ n \in Nat
      <4>1. d.candidates \in Seq(Nodes) /\ d.results \in Seq(Results)
        BY <2>7 DEF ConnRecs
      <4>2. Len(d.candidates) \in Nat /\ Len(d.results) \in Nat
        BY <4>1
      <4> QED
        BY <2>10, <2>13, <4>2 DEF Offered, Sane
    <3>2. Changed(t, u, Cur(t)) /\ u.choiceCount = n
      BY <3>1, ChoiceChanged
    <3>3. Sane(u)
      BY <2>9, <2>10, <3>2, ChangedSane
    <3>4. /\ OthersSettled(u) /\ Quiet(u) /\ Cur(u) = d /\ ~u.failed /\ u.process = s.process
          /\ Keeps(s, u)
      BY <1>2, <2>10, <2>11, <2>12, <3>2 DEF Changed, OthersSettled, Quiet, Keeps
    <3>5. Left(u)
      BY <2>7, <2>8, <2>13, <3>2, <3>4 DEF Left
    <3> QED
      BY <3>3, <3>4, <3>5 DEF Stepped
  <2> QED
    BY <1>1, <1>11, <2>14
<1>12. CASE ConnMap(s, 2) = <<>> /\ ConnMap(s, 1) = <<>> /\ ~none
  <2> DEFINE i == ConnMap(s, 0)[1]
             c == s.conns[i]
             d == InMode(c, "DROPPED")
  <2>1. ConnMap(s, 0) # <<>>
    BY <1>9, <1>12
  <2>2. i \in 1 .. s.numConns /\ c.executable = 0
    BY <1>5, <1>6, <1>7, <2>1
  <2>3. c \in ConnRecs /\ Sound(c) /\ i \in Conns
    BY <1>4, <2>2, CurType
  <2>4. t = [s EXCEPT !.conn = i, !.conns[i].mode = "DROPPED"]
    BY <1>8, <1>12
  <2> HIDE DEF i
  <2>5. t = PutConn(s, i, d)
    <3>1. [s EXCEPT !.conn = i, !.conns[i].mode = "DROPPED"]
            = [s EXCEPT !.conn = i, !.conns[i] = [@ EXCEPT !.mode = "DROPPED"]]
      BY <1>2, <1>3, <2>3 DEF States
    <3>2. [s EXCEPT !.conn = i, !.conns[i] = [@ EXCEPT !.mode = "DROPPED"]]
            = [s EXCEPT !.conn = i, !.conns[i] = d]
      BY <1>2, <1>3, <2>3 DEF States, InMode
    <3> QED
      BY <2>4, <3>1, <3>2 DEF PutConn
  <2>6. /\ d \in ConnRecs /\ SameFlow(c, d) /\ d.mode = "DROPPED" /\ d.executable = 0
        /\ d.loc = c.loc
    <3>1. c \in ConnRecs /\ "DROPPED" \in Modes /\ d = InMode(c, "DROPPED")
      BY <2>3, ModesType
    <3> HIDE DEF d, c
    <3>2. /\ d \in ConnRecs /\ SameFlow(c, d) /\ d.mode = "DROPPED"
          /\ d.executable = c.executable /\ d.loc = c.loc
      BY <3>1, InModeType
    <3> QED
      BY <2>2, <3>2 DEF c
  <2> HIDE DEF d, c
  <2>7. Sound(d) /\ d.visited = c.visited
    BY <2>2, <2>3, <2>6 DEF Sound, SameFlow, Outbound
  <2>8. /\ Sane(t) /\ t.conn = i /\ t.numConns = s.numConns
        /\ t.process = s.process /\ t.failed = s.failed /\ Keeps(s, t)
        /\ Cur(t) = d
        /\ \A j \in 1 .. s.numConns : j # i => t.conns[j] = s.conns[j]
    BY <2>2, <2>5, <2>6, <2>7, PutConnType DEF c
  <2>9. OthersSettled(t) /\ Settled(Cur(t)) /\ ~AtMb(Cur(t))
    BY <1>4, <2>6, <2>8 DEF OthersSettled, Settled, AtMb
  <2>10. n = Offered(Cur(t))
    BY <2>6, <2>8 DEF Offered, Outbound
  <2> HIDE DEF n
  <2>11. Stepped(s, u)
    BY <1>2, <2>8, <2>9, <2>10, ChosenStepped
  <2> QED
    BY <1>1, <1>12, <2>11
<1> HIDE DEF n, u
<1> QED
  BY <1>1, <1>10, <1>11, <1>12, FailStepped
-----------------------------------------------------------------------------
(* OpenFlow updates                                                        *)

WithHops(c, f) == [c EXCEPT !.fib = f]
Installed(s, ins, n, cs) == [s EXCEPT !.installed = ins, !.choiceCount = n, !.conns = cs]

LEMMA WithHopsType ==
  ASSUME NEW c \in ConnRecs, NEW f \in Fibs, NEW d, d = WithHops(c, f)
  PROVE  /\ d \in ConnRecs /\ SameFlow(c, d) /\ d.mode = c.mode
         /\ d.executable = c.executable /\ d.loc = c.loc
         /\ d.candidates = c.candidates /\ d.results = c.results
<1>1. d \in ConnRecs
  BY DEF ConnRecs, WithHops
<1>2. /\ SameFlow(c, d) /\ d.mode = c.mode
      /\ d.executable = c.executable /\ d.loc = c.loc
      /\ d.candidates = c.candidates /\ d.results = c.results
  BY DEF ConnRecs, SameFlow, WithHops
<1> QED
  BY <1>1, <1>2

LEMMA OpenFlowStepped ==
  ASSUME NEW s, Sane(s), Ready(s), s.process = "openflow",
         NEW choice \in 0 .. s.choiceCount - 1
  PROVE  Stepped(s, OpenFlowStep(s, choice))
<1> DEFINE c == Cur(s)
           n == c.loc
<1>1. /\ s \in States /\ c \in ConnRecs /\ Sound(c) /\ OthersSettled(s) /\ ~s.failed
      /\ c.executable = 2 /\ c.mode \in {"FIRST_COLLECT", "COLLECT_NHOPS"}
      /\ n \notin Emulated /\ HasUpdates(s, n) /\ n \in Nodes /\ c.dst \in Ecs
  BY CurType DEF Ready, ReadyFor, Sound
<1>2. s.conns \in [Conns -> ConnRecs] /\ s.conn \in Conns /\ s.installed \in [Nodes -> Nat]
      /\ InstalledOK(s)
  BY <1>1 DEF States, Sane
<1>3. CASE choice = 0
  <2> DEFINE t == [s EXCEPT !.choiceCount = 1]
  <2>1. Changed(s, t, c) /\ t.choiceCount = 1
    BY <1>1, ChoiceChanged
  <2>2. Stepped(s, t)
    <3> HIDE DEF t
    <3>1. Sane(t)
      BY <1>1, <2>1, ChangedSane
    <3>2. OthersSettled(t) /\ Cur(t) = c /\ ~t.failed /\ t.process = "openflow" /\ Keeps(s, t)
      BY <1>1, <2>1 DEF Changed, OthersSettled
    <3>3. Left(t)
      BY <1>1, <2>1, <3>2 DEF Left
    <3> QED
      BY <3>1, <3>2, <3>3 DEF Stepped
  <2> QED
    BY <1>3, <2>2 DEF OpenFlowStep
<1>4. CASE choice # 0
  <2> DEFINE k == s.installed[n]
             ins == [s.installed EXCEPT ![n] = @ + 1]
             h == UpdatedHops[n][k][c.dst]
             f == [c.fib EXCEPT ![n] = h]
             d == WithHops(c, f)
             cs == [s.conns EXCEPT ![s.conn] = d]
             t == [s EXCEPT !.installed[n] = @ + 1]
             cc == IF HasUpdates(t, n) THEN 2 ELSE 1
             u == Installed(s, ins, cc, cs)
  <2>1. k \in 0 .. Len(Updates[n]) - 1 /\ k + 1 <= Len(Updates[n])
    BY <1>1, <1>2, ModelStateAssumption DEF InstalledOK, HasUpdates
  <2>2. h \in SUBSET Nodes
    <3> HIDE DEF k, n, c
    <3> QED
      BY <1>1, <2>1, UpdatedHopsType
  <2>3. c.fib \in Fibs /\ f \in Fibs
    <3>1. c.fib \in Fibs
      BY <1>1 DEF ConnRecs
    <3> HIDE DEF h
    <3> QED
      BY <2>2, <3>1 DEF Fibs
  <2>4. /\ d \in ConnRecs /\ SameFlow(c, d) /\ d.mode = c.mode
        /\ d.executable = c.executable /\ d.loc = c.loc
        /\ d.candidates = c.candidates /\ d.results = c.results
    <3> HIDE DEF f, c
    <3> QED
      BY <1>1, <2>3, WithHopsType
  <2>5. OpenFlowStep(s, choice) = u
    <3>1. OpenFlowStep(s, choice) =
            [t EXCEPT !.choiceCount = cc, !.conns[s.conn].fib[n] = h]
      BY <1>4 DEF OpenFlowStep
    <3>2. t = [s EXCEPT !.installed = ins] /\ t.conns = s.conns /\ t \in States
      <4>1. ins \in [Nodes -> Nat]
        BY <1>1, <1>2
      <4>2. t = [s EXCEPT !.installed = ins]
        BY <1>1 DEF States
      <4> HIDE DEF ins, t
      <4> QED
        BY <1>1, <4>1, <4>2 DEF States
    <3> HIDE DEF h, cc, t, ins
    <3>3. [t EXCEPT !.choiceCount = cc, !.conns[s.conn].fib[n] = h]
            = [t EXCEPT !.choiceCount = cc, !.conns = cs]
      BY <1>1, <1>2, <3>2 DEF States, WithHops, Cur
    <3>4. [t EXCEPT !.choiceCount = cc, !.conns = cs] = u
      <4> HIDE DEF cs
      <4> QED
        BY <1>1, <3>2 DEF States, Installed
    <3> QED
      BY <3>1, <3>3, <3>4
  <2>6. ins \in [Nodes -> Nat] /\ \A m \in Nodes : ins[m] \in 0 .. Len(Updates[m])
    <3>1. /\ ins \in [Nodes -> Nat] /\ ins[n] = k + 1
          /\ \A m \in Nodes : m # n => ins[m] = s.installed[m]
      BY <1>1, <1>2
    <3>2. k + 1 \in 0 .. Len(Updates[n])
      BY <1>1, <2>1, ModelStateAssumption
    <3> HIDE DEF ins, k
    <3> QED
      BY <1>2, <3>1, <3>2 DEF InstalledOK
  <2>7. cs \in [Conns -> ConnRecs] /\ cs[s.conn] = d
        /\ \A i \in Conns : i # s.conn => cs[i] = s.conns[i]
    BY <1>2, <2>4
  <2>8. cc \in Nat /\ (cc = 1 \/ (cc = 2 /\ ins[n] < Len(Updates[n])))
    <3>1. t.installed = ins
      BY <1>1 DEF States
    <3> HIDE DEF ins, t
    <3> QED
      BY <3>1 DEF HasUpdates
  <2> HIDE DEF ins, cs, cc, d, t, c
  <2>9. /\ u \in States /\ u.installed = ins /\ u.choiceCount = cc /\ u.conns = cs
        /\ u.conn = s.conn /\ u.numConns = s.numConns /\ u.process = s.process
        /\ u.failed = s.failed /\ u.idx = s.idx /\ u.violated = s.violated
        /\ u.reachCounts = s.reachCounts
    BY <1>1, <2>6, <2>7, <2>8 DEF States, Installed
  <2> HIDE DEF u
  <2>10. Sound(d) /\ Settled(d) /\ d.visited = c.visited
    BY <1>1, <2>4 DEF Sound, SameFlow, Outbound, Settled, AtMb
  <2>11. \A i \in 1 .. s.numConns : i \in Conns
    BY CurType
  <2>12. Sane(u)
    <3>1. \A i \in 1 .. u.numConns : Sound(u.conns[i])
      BY <2>7, <2>9, <2>10, <2>11 DEF Sane
    <3> QED
      BY <2>6, <2>9, <3>1 DEF Sane, InstalledOK
  <2>13. OthersSettled(u)
    BY <1>1, <2>7, <2>9, <2>11 DEF OthersSettled
  <2>14. Cur(u) = d /\ Keeps(s, u)
    BY <2>7, <2>9, <2>10 DEF Cur, Keeps, c
  <2>15. Left(u)
    BY <1>1, <2>4, <2>8, <2>9, <2>13, <2>14 DEF Left, HasUpdates
  <2> QED
    BY <1>1, <2>5, <2>9, <2>12, <2>14, <2>15 DEF Stepped
<1> QED
  BY <1>3, <1>4

-----------------------------------------------------------------------------
(* Switching processes                                                     *)

Switched(s, p, n) == [s EXCEPT !.process = p, !.choiceCount = n]

LEMMA SwitchedType ==
  ASSUME NEW s, Sane(s), NEW p \in {"choose_conn", "forwarding", "openflow"}, NEW n \in Nat,
         NEW t, t = Switched(s, p, n)
  PROVE  /\ Sane(t) /\ t.process = p /\ t.choiceCount = n /\ t.conns = s.conns
         /\ t.conn = s.conn /\ t.numConns = s.numConns /\ t.installed = s.installed
         /\ t.failed = s.failed /\ Cur(t) = Cur(s) /\ Keeps(s, t)
<1>1. s \in States
  BY DEF Sane
<1>2. /\ t \in States /\ t.process = p /\ t.choiceCount = n /\ t.conns = s.conns
      /\ t.conn = s.conn /\ t.numConns = s.numConns /\ t.installed = s.installed
      /\ t.failed = s.failed /\ t.idx = s.idx /\ t.violated = s.violated
      /\ t.reachCounts = s.reachCounts
  BY <1>1 DEF States, Switched
<1>3. Sane(t)
  BY <1>2 DEF Sane, InstalledOK
<1> QED
  BY <1>2, <1>3 DEF Keeps, Cur

LEMMA SwitchReady ==
  ASSUME NEW s, Sane(s), Left(s)
  PROVE  /\ Sane(CheckToSwitchProcess(s)) /\ Ready(CheckToSwitchProcess(s))
         /\ Keeps(s, CheckToSwitchProcess(s)) /\ Cur(CheckToSwitchProcess(s)) = Cur(s)
<1> DEFINE c == Cur(s)
           w == CheckToSwitchProcess(s)
           count(t) == IF ConnMap(t, 2) # <<>> THEN 1
                       ELSE IF ConnMap(t, 1) # <<>> THEN Len(ConnMap(t, 1))
                       ELSE IF ConnMap(t, 0) # <<>> THEN 1 ELSE 0
<1>1. /\ s \in States /\ c \in ConnRecs /\ Sound(c) /\ OthersSettled(s) /\ ~s.failed
      /\ s.numConns \in Nat /\ s.choiceCount \in Nat
      /\ s.process \in {"choose_conn", "forwarding", "openflow"}
  BY CurType DEF Left, Sane, States, Conns
<1>2. CASE c.executable # 2
  <2> DEFINE v == [s EXCEPT !.process = "choose_conn"]
             n == count(v)
             t == Switched(s, "choose_conn", n)
  <2>1. w = [v EXCEPT !.choiceCount = n]
    BY <1>2 DEF CheckToSwitchProcess, UpdateChoiceCount
  <2>2. v.conns = s.conns /\ v.numConns = s.numConns
    BY <1>1 DEF States
  <2>3. n \in Nat
    <3> HIDE DEF v
    <3> QED
      BY <1>1, <2>2, ConnMapFacts
  <2> HIDE DEF n
  <2>4. w = t
    BY <1>1, <2>1 DEF Switched, States
  <2> HIDE DEF v, t
  <2>5. /\ Sane(t) /\ t.process = "choose_conn" /\ t.choiceCount = n /\ t.conns = s.conns
        /\ t.conn = s.conn /\ t.numConns = s.numConns /\ t.installed = s.installed
        /\ t.failed = s.failed /\ Cur(t) = Cur(s) /\ Keeps(s, t)
    BY <2>3, SwitchedType DEF t
  <2>6. count(t) = count(v)
    <3>1. \A x : Mapped(t, x) = Mapped(v, x)
      BY <2>2, <2>5 DEF Mapped
    <3>2. \A x : ConnMap(t, x) = ConnMap(v, x)
      BY <1>1, <2>2, <2>5, <3>1, ConnMapSame
    <3> QED
      BY <3>2
  <2>7. UpdateChoiceCount(t).choiceCount = count(t)
    <3>1. t \in States
      BY <2>5 DEF Sane
    <3>2. UpdateChoiceCount(t) = [t EXCEPT !.choiceCount = count(t)]
      BY DEF UpdateChoiceCount
    <3> HIDE DEF count
    <3> QED
      BY <3>1, <3>2 DEF States
  <2>8. OthersSettled(t)
    BY <1>1, <2>5 DEF OthersSettled
  <2>9. Settled(c)
    BY <1>2 DEF Left
  <2> HIDE DEF count, w
  <2>10. ReadyFor(t)
    BY <1>2, <2>5, <2>6, <2>7, <2>9 DEF ReadyFor, n
  <2>11. Ready(t)
    BY <1>1, <2>5, <2>8, <2>10 DEF Ready
  <2> QED
    BY <2>4, <2>5, <2>11 DEF w
<1>3. CASE c.executable = 2 /\ s.process = "choose_conn"
  <2>1. w = [s EXCEPT !.process = "forwarding"]
    BY <1>3 DEF CheckToSwitchProcess
  <2> DEFINE n == s.choiceCount
  <2>2. w = Switched(s, "forwarding", n) /\ n \in Nat
    BY <1>1, <2>1 DEF Switched, States
  <2> HIDE DEF w, n
  <2>3. /\ Sane(w) /\ w.process = "forwarding" /\ w.choiceCount = n
        /\ w.conns = s.conns
        /\ w.conn = s.conn /\ w.numConns = s.numConns /\ w.installed = s.installed
        /\ w.failed = s.failed /\ Cur(w) = Cur(s) /\ Keeps(s, w)
    BY <2>2, SwitchedType
  <2>4. ReadyFor(w)
    BY <1>3, <2>3 DEF ReadyFor, Left, Quiet, n
  <2>5. Ready(w)
    BY <1>1, <2>3, <2>4 DEF Ready, OthersSettled
  <2> QED
    BY <2>3, <2>5 DEF w
<1>4. CASE /\ c.executable = 2 /\ s.process = "forwarding"
           /\ c.mode \in {"COLLECT_NHOPS", "FIRST_COLLECT"} /\ HasUpdates(s, c.loc)
  <2>1. w = [s EXCEPT !.process = "openflow", !.choiceCount = 2]
    BY <1>4 DEF CheckToSwitchProcess
  <2>2. w = Switched(s, "openflow", 2)
    BY <1>1, <2>1 DEF Switched, States
  <2> HIDE DEF w
  <2>3. /\ Sane(w) /\ w.process = "openflow" /\ w.choiceCount = 2
        /\ w.conns = s.conns
        /\ w.conn = s.conn /\ w.numConns = s.numConns /\ w.installed = s.installed
        /\ w.failed = s.failed /\ Cur(w) = Cur(s) /\ Keeps(s, w)
    BY <2>2, SwitchedType
  <2>4. c.loc \notin Emulated
    BY <1>1, <1>4 DEF Left, AtMb, Sound
  <2>5. ReadyFor(w)
    BY <1>4, <2>3, <2>4 DEF ReadyFor, HasUpdates
  <2>6. Ready(w)
    BY <1>1, <2>3, <2>5 DEF Ready, OthersSettled
  <2> QED
    BY <2>3, <2>6 DEF w
<1>5. CASE c.executable = 2 /\ s.process = "openflow" /\ s.choiceCount = 1
  <2>1. w = [s EXCEPT !.process = "forwarding"]
    BY <1>5 DEF CheckToSwitchProcess
  <2>2. w = Switched(s, "forwarding", 1)
    BY <1>1, <1>5, <2>1 DEF Switched, States
  <2> HIDE DEF w
  <2>3. /\ Sane(w) /\ w.process = "forwarding" /\ w.choiceCount = 1
        /\ w.conns = s.conns
        /\ w.conn = s.conn /\ w.numConns = s.numConns /\ w.installed = s.installed
        /\ w.failed = s.failed /\ Cur(w) = Cur(s) /\ Keeps(s, w)
    BY <2>2, SwitchedType
  <2>4. c.loc \notin Emulated /\ c.mode \in {"FIRST_COLLECT", "COLLECT_NHOPS"}
    BY <1>5 DEF Left
  <2>5. ReadyFor(w)
    BY <1>5, <2>3, <2>4 DEF ReadyFor, Offered, Outbound, AtMb
  <2>6. Ready(w)
    BY <1>1, <2>3, <2>5 DEF Ready, OthersSettled
  <2> QED
    BY <2>3, <2>6 DEF w
<1>6. CASE /\ c.executable = 2 /\ s.process # "choose_conn"
           /\ ~(/\ s.process = "forwarding" /\ c.mode \in {"COLLECT_NHOPS", "FIRST_COLLECT"}
                /\ HasUpdates(s, c.loc))
           /\ ~(s.process = "openflow" /\ s.choiceCount = 1)
  <2>1. w = s
    BY <1>6 DEF CheckToSwitchProcess
  <2>2. ReadyFor(s)
    BY <1>1, <1>6 DEF ReadyFor, Left
  <2>3. Ready(s) /\ Keeps(s, s)
    BY <1>1, <2>2 DEF Ready, Keeps
  <2> QED
    BY <2>1, <2>3
<1> QED
  BY <1>1, <1>2, <1>3, <1>4, <1>5, <1>6
-----------------------------------------------------------------------------
(* No choice is left                                                       *)

LEMMA ChoiceCountFacts ==
  ASSUME NEW s \in States
  PROVE  UpdateChoiceCount(s).choiceCount =
           IF ConnMap(s, 2) # <<>> THEN 1
           ELSE IF ConnMap(s, 1) # <<>> THEN Len(ConnMap(s, 1))
           ELSE IF ConnMap(s, 0) # <<>> THEN 1 ELSE 0
<1> DEFINE n == IF ConnMap(s, 2) # <<>> THEN 1
                ELSE IF ConnMap(s, 1) # <<>> THEN Len(ConnMap(s, 1))
                ELSE IF ConnMap(s, 0) # <<>> THEN 1 ELSE 0
<1>1. UpdateChoiceCount(s) = [s EXCEPT !.choiceCount = n]
  BY DEF UpdateChoiceCount
<1> HIDE DEF n
<1>2. UpdateChoiceCount(s).choiceCount = n
  BY <1>1 DEF States
<1> QED
  BY <1>2 DEF n

\* The choices depend on which connections wait, and which have finished.
LEMMA SameChoices ==
  ASSUME NEW s, Sane(s), NEW t, Sane(t), t.numConns = s.numConns,
         \A i \in 1 .. s.numConns : /\ t.conns[i].executable = s.conns[i].executable
                                    /\ t.conns[i].mode = s.conns[i].mode
                                    /\ t.conns[i].proto = s.conns[i].proto
  PROVE  UpdateChoiceCount(t).choiceCount = UpdateChoiceCount(s).choiceCount
<1>1. \A x : Mapped(s, x) = Mapped(t, x)
  BY DEF Mapped, Finished
<1>2. s.numConns \in Nat /\ s \in States /\ t \in States
  BY DEF Sane, Conns
<1>3. \A x : ConnMap(s, x) = ConnMap(t, x)
  BY <1>1, <1>2, ConnMapSame
<1> QED
  BY <1>2, <1>3, ChoiceCountFacts

LEMMA AllFinished ==
  ASSUME NEW s, Sane(s), UpdateChoiceCount(s).choiceCount = 0
  PROVE  \A i \in 1 .. s.numConns : Finished(s.conns[i])
<1>1. s.numConns \in Nat /\ s \in States
  BY DEF Sane, Conns
<1>2. ConnMap(s, 2) = <<>> /\ ConnMap(s, 0) = <<>>
      /\ (ConnMap(s, 1) # <<>> => Len(ConnMap(s, 1)) = 0)
  BY <1>1, ChoiceCountFacts
<1>3. ConnMap(s, 1) = <<>>
  <2> DEFINE m == ConnMap(s, 1)
  <2>1. m \in Seq(Mapped(s, 1))
    BY <1>1, ConnMapFacts
  <2>2. m # <<>> => Len(m) = 0
    BY <1>2
  <2> HIDE DEF m
  <2>3. m = <<>>
    BY <2>1, <2>2
  <2> QED
    BY <2>3 DEF m
<1>4. Mapped(s, 0) = {} /\ Mapped(s, 1) = {} /\ Mapped(s, 2) = {}
  BY <1>1, <1>2, <1>3, ConnMapFacts
<1>5. ASSUME NEW i \in 1 .. s.numConns
      PROVE  Finished(s.conns[i])
  <2>1. s.conns[i].executable \in 0 .. 2
    BY CurType DEF ConnRecs
  <2> QED
    BY <1>4, <2>1 DEF Mapped
<1> QED
  BY <1>5

LEMMA ReadyEnded ==
  ASSUME Routed, NEW s, Sane(s), Ready(s), s.choiceCount = 0
  PROVE  \A i \in 1 .. s.numConns : Finished(s.conns[i])
<1> DEFINE c == Cur(s)
<1>1. c \in ConnRecs /\ Sound(c) /\ ReadyFor(s)
  BY CurType DEF Ready
<1>2. s.process = "forwarding" => Offered(c) # 0
  <2> SUFFICES ASSUME s.process = "forwarding"
               PROVE  Offered(c) # 0
    OBVIOUS
  <2>1. c.executable = 2 \/ c.mode = "ACCEPTED"
    BY <1>1 DEF ReadyFor
  <2>2. c.candidates \in Seq(Nodes) /\ c.results \in Seq(Results)
    BY <1>1 DEF ConnRecs
  <2>3. Outbound(c) => Len(c.candidates) # 0
    <3>1. Outbound(c) => c.candidates # <<>>
      BY <1>1, <2>1 DEF Sound, Outbound
    <3> QED
      BY <2>2, <3>1
  <2>4. c.mode = "CHOOSE_INJ_RES" => Len(c.results) # 0
    <3>1. c.mode = "CHOOSE_INJ_RES" => c.results # <<>>
      BY <1>1 DEF Sound
    <3> QED
      BY <2>2, <3>1
  <2> QED
    BY <2>3, <2>4 DEF Offered
<1>3. s.process = "choose_conn" /\ UpdateChoiceCount(s).choiceCount = 0
  BY <1>1, <1>2 DEF ReadyFor
<1> QED
  BY <1>3, AllFinished

-----------------------------------------------------------------------------
(* Checking the invariant                                                  *)

\* What checking the invariant p makes of a state: the next step can start from it,
\* and only a loop invariant or one about several connections counts in it.
Judged(s, r, p) ==
  /\ Sane(r) /\ ~r.failed /\ r.idx = s.idx
  /\ r.choiceCount # 0 => Ready(r)
  /\ p.kind # "loop" => \A i \in Conns : r.conns[i].visited = s.conns[i].visited
  /\ ~MultiConn(p) => r.reachCounts = s.reachCounts

LEMMA DecideType ==
  ASSUME NEW s, Sane(s), NEW v \in BOOLEAN, NEW r, r = Decide(s, v)
  PROVE  /\ Sane(r) /\ r.failed = s.failed /\ r.idx = s.idx /\ r.choiceCount = 0
         /\ r.violated = v /\ r.reachCounts = s.reachCounts /\ r.conns = s.conns
<1>1. s \in States
  BY DEF Sane
<1>2. /\ r \in States /\ r.failed = s.failed /\ r.idx = s.idx /\ r.choiceCount = 0
      /\ r.violated = v /\ r.reachCounts = s.reachCounts /\ r.conns = s.conns
      /\ r.conn = s.conn /\ r.numConns = s.numConns /\ r.installed = s.installed
  BY <1>1 DEF States, Decide
<1>3. Sane(r)
  BY <1>2 DEF Sane, InstalledOK
<1> QED
  BY <1>2, <1>3

LEMMA SetCurType ==
  ASSUME NEW s, Sane(s), NEW d \in ConnRecs, Sound(d), NEW t, t = SetCur(s, d)
  PROVE  /\ Sane(t) /\ t.conn = s.conn /\ t.numConns = s.numConns
         /\ t.process = s.process /\ t.installed = s.installed /\ t.failed = s.failed
         /\ t.idx = s.idx /\ t.violated = s.violated /\ t.reachCounts = s.reachCounts
         /\ t.choiceCount = s.choiceCount
         /\ Cur(t) = d
         /\ \A i \in Conns : i # s.conn => t.conns[i] = s.conns[i]
         /\ \A i \in 1 .. s.numConns : i # s.conn => t.conns[i] = s.conns[i]
<1>1. s \in States /\ s.conns \in [Conns -> ConnRecs] /\ s.conn \in Conns
  BY CurType DEF States
<1>2. /\ t \in States /\ t.conn = s.conn /\ t.numConns = s.numConns
      /\ t.process = s.process /\ t.installed = s.installed /\ t.failed = s.failed
      /\ t.idx = s.idx /\ t.violated = s.violated /\ t.reachCounts = s.reachCounts
      /\ t.choiceCount = s.choiceCount
  BY <1>1 DEF States, SetCur
<1>3. t.conns = [s.conns EXCEPT ![s.conn] = d]
  BY <1>1 DEF States, SetCur
<1>4. t.conns[s.conn] = d /\ \A i \in Conns : i # s.conn => t.conns[i] = s.conns[i]
  BY <1>1, <1>3
<1>5. \A i \in 1 .. s.numConns : i # s.conn => t.conns[i] = s.conns[i]
  BY <1>4, CurType
<1>6. Sane(t)
  BY <1>2, <1>4, <1>5 DEF Sane, InstalledOK
<1> QED
  BY <1>2, <1>3, <1>4, <1>5, <1>6 DEF Cur

Visiting(c, v) == [c EXCEPT !.visited = v]

LEMMA VisitingType ==
  ASSUME NEW c \in ConnRecs, NEW v \in SUBSET (AnyEc \X Nat \X AnyNode),
         NEW d, d = Visiting(c, v)
  PROVE  /\ d \in ConnRecs /\ d.proto = c.proto /\ d.dst = c.dst /\ d.src = c.src
         /\ d.srcNode = c.srcNode /\ d.txNode = c.txNode /\ d.mode = c.mode
         /\ d.executable = c.executable /\ d.loc = c.loc
         /\ d.candidates = c.candidates /\ d.results = c.results
<1>1. d \in ConnRecs
  BY DEF ConnRecs, Visiting
<1>2. /\ d.proto = c.proto /\ d.dst = c.dst /\ d.src = c.src
      /\ d.srcNode = c.srcNode /\ d.txNode = c.txNode /\ d.mode = c.mode
      /\ d.executable = c.executable /\ d.loc = c.loc
      /\ d.candidates = c.candidates /\ d.results = c.results
  BY DEF ConnRecs, Visiting
<1> QED
  BY <1>1, <1>2

\* A loop invariant notes the hop.
LEMMA VisitingReady ==
  ASSUME NEW s, Sane(s), Ready(s), NEW v \in SUBSET (AnyEc \X Nat \X AnyNode),
         NEW t, t = SetCur(s, Visiting(Cur(s), v))
  PROVE  /\ Sane(t) /\ Ready(t) /\ t.idx = s.idx /\ t.reachCounts = s.reachCounts
<1> DEFINE c == Cur(s)
           d == Visiting(c, v)
<1>1. c \in ConnRecs /\ Sound(c)
  BY CurType
<1>2. /\ d \in ConnRecs /\ d.proto = c.proto /\ d.dst = c.dst /\ d.src = c.src
      /\ d.srcNode = c.srcNode /\ d.txNode = c.txNode /\ d.mode = c.mode
      /\ d.executable = c.executable /\ d.loc = c.loc
      /\ d.candidates = c.candidates /\ d.results = c.results
  <2> HIDE DEF c
  <2> QED
    BY <1>1, VisitingType
<1>3. t = SetCur(s, d)
  OBVIOUS
<1> HIDE DEF d
<1>4. Sound(d)
  BY <1>1, <1>2 DEF Sound, Outbound
<1>5. /\ Sane(t) /\ t.conn = s.conn /\ t.numConns = s.numConns
      /\ t.process = s.process /\ t.installed = s.installed /\ t.failed = s.failed
      /\ t.idx = s.idx /\ t.reachCounts = s.reachCounts
      /\ t.choiceCount = s.choiceCount /\ Cur(t) = d
      /\ \A i \in 1 .. s.numConns : i # s.conn => t.conns[i] = s.conns[i]
  <2>1. d \in ConnRecs /\ Sound(d) /\ t = SetCur(s, d)
    BY <1>2, <1>3, <1>4
  <2> HIDE DEF c
  <2> QED
    BY <2>1, SetCurType
<1>6. \A i \in 1 .. s.numConns : /\ t.conns[i].executable = s.conns[i].executable
                                 /\ t.conns[i].mode = s.conns[i].mode
                                 /\ t.conns[i].proto = s.conns[i].proto
  BY <1>2, <1>5 DEF Cur
<1>7. UpdateChoiceCount(t).choiceCount = UpdateChoiceCount(s).choiceCount
  BY <1>5, <1>6, SameChoices
<1>8. OthersSettled(t) /\ ~t.failed /\ (Quiet(s) => Quiet(t))
  BY <1>5 DEF Ready, OthersSettled, Quiet
<1>9. (Settled(d) <=> Settled(c)) /\ (AtMb(d) <=> AtMb(c)) /\ Offered(d) = Offered(c)
  BY <1>2 DEF Settled, AtMb, Offered, Outbound
<1>10. ReadyFor(s)
  BY DEF Ready
<1>11. ReadyFor(t)
  <2>1. CASE s.process = "choose_conn"
    BY <1>2, <1>5, <1>7, <1>9, <1>10, <2>1 DEF ReadyFor
  <2>2. CASE s.process = "openflow"
    BY <1>2, <1>5, <1>10, <2>2 DEF ReadyFor, HasUpdates
  <2>3. CASE s.process = "forwarding"
    BY <1>2, <1>5, <1>8, <1>9, <1>10, <2>3 DEF ReadyFor
  <2> QED
    BY <1>10, <2>1, <2>2, <2>3 DEF ReadyFor
<1> QED
  BY <1>5, <1>8, <1>11 DEF Ready

Counted(s, f) == [s EXCEPT !.reachCounts = f]

LEMMA CountedType ==
  ASSUME NEW s, Sane(s), NEW f \in [Nodes -> Nat], NEW t, t = Counted(s, f)
  PROVE  /\ Sane(t) /\ t.conn = s.conn /\ t.numConns = s.numConns /\ t.conns = s.conns
         /\ t.process = s.process /\ t.installed = s.installed /\ t.failed = s.failed
         /\ t.idx = s.idx /\ t.violated = s.violated /\ t.choiceCount = s.choiceCount
<1>1. s \in States
  BY DEF Sane
<1>2. /\ t \in States /\ t.conn = s.conn /\ t.numConns = s.numConns /\ t.conns = s.conns
      /\ t.process = s.process /\ t.installed = s.installed /\ t.failed = s.failed
      /\ t.idx = s.idx /\ t.violated = s.violated /\ t.choiceCount = s.choiceCount
  BY <1>1 DEF States, Counted
<1> QED
  BY <1>2 DEF Sane, InstalledOK

\* A connection is counted once it has delivered its first packet.
LEMMA CountReady ==
  ASSUME NEW s, Sane(s), Ready(s), Cur(s).mode = "ACCEPTED"
  PROVE  /\ Sane(Count(s)) /\ Ready(Count(s)) /\ Count(s).idx = s.idx
         /\ \A i \in Conns : Count(s).conns[i].visited = s.conns[i].visited
<1> DEFINE c == Cur(s)
           d == Frozen(c)
           t == SetCur(s, d)
           f == [t.reachCounts EXCEPT ![c.rxNode] = @ + 1]
           u == Counted(t, f)
<1>1. c \in ConnRecs /\ Sound(c) /\ c.mode = "ACCEPTED" /\ c.executable \in 0 .. 2
  BY CurType DEF ConnRecs
<1>2. d \in ConnRecs /\ SameFlow(c, d) /\ d.mode = c.mode /\ d.executable = 0 /\ d.loc = c.loc
  <2> HIDE DEF c
  <2> QED
    BY <1>1, FrozenType
<1>3. Count(s) = u
  <2>1. Count(s) = [t EXCEPT !.reachCounts[c.rxNode] = @ + 1]
    BY DEF Count, Frozen
  <2>2. [t EXCEPT !.reachCounts[c.rxNode] = @ + 1] = [t EXCEPT !.reachCounts = f]
    <3>1. t \in States
      <4>1. s \in States /\ s.conns \in [Conns -> ConnRecs] /\ s.conn \in Conns
        BY CurType DEF States
      <4> HIDE DEF d
      <4> QED
        BY <1>2, <4>1, SetCurChanged DEF SameFlow, Changed
    <3> HIDE DEF t
    <3> QED
      BY <3>1 DEF States
  <2>3. u = [t EXCEPT !.reachCounts = f]
    BY DEF Counted
  <2> HIDE DEF t, f, u
  <2> QED
    BY <2>1, <2>2, <2>3
<1> HIDE DEF d
<1>4. Sound(d) /\ Settled(d) /\ d.visited = c.visited
  BY <1>1, <1>2 DEF Sound, SameFlow, Outbound, Settled
<1> HIDE DEF c
<1>5. /\ Sane(t) /\ t.conn = s.conn /\ t.numConns = s.numConns
      /\ t.process = s.process /\ t.installed = s.installed /\ t.failed = s.failed
      /\ t.idx = s.idx /\ t.choiceCount = s.choiceCount /\ Cur(t) = d
      /\ \A i \in Conns : i # s.conn => t.conns[i] = s.conns[i]
      /\ \A i \in 1 .. s.numConns : i # s.conn => t.conns[i] = s.conns[i]
  BY <1>2, <1>4, SetCurType
<1> HIDE DEF t
<1>6. f \in [Nodes -> Nat]
  <2> DEFINE g == t.reachCounts
             x == c.rxNode
  <2>1. g \in [Nodes -> Nat]
    BY <1>5 DEF Sane, States
  <2>2. f = [g EXCEPT ![x] = g[x] + 1]
    OBVIOUS
  <2> HIDE DEF g, x, f
  <2>3. f = [n \in Nodes |-> IF n = x THEN g[n] + 1 ELSE g[n]]
    BY <2>1, <2>2
  <2>4. \A n \in Nodes : g[n] \in Nat /\ g[n] + 1 \in Nat
    BY <2>1
  <2> QED
    BY <2>3, <2>4
<1> HIDE DEF f
<1>7. /\ Sane(u) /\ u.conn = t.conn /\ u.numConns = t.numConns /\ u.conns = t.conns
      /\ u.process = t.process /\ u.installed = t.installed /\ u.failed = t.failed
      /\ u.idx = t.idx /\ u.choiceCount = t.choiceCount
  BY <1>5, <1>6, CountedType
<1> HIDE DEF u
<1>8. Cur(u) = d /\ \A i \in 1 .. u.numConns : i # u.conn => u.conns[i] = s.conns[i]
  BY <1>5, <1>7 DEF Cur
<1>9. OthersSettled(u) /\ ~u.failed /\ u.process = s.process
  BY <1>5, <1>7, <1>8 DEF Ready, OthersSettled
<1>10. ReadyFor(s)
  BY DEF Ready
<1>11. ReadyFor(u)
  <2>1. CASE s.process = "choose_conn"
    <3>1. c.executable = 0
      BY <1>1, <1>10, <2>1 DEF ReadyFor, Sound, c
    <3>2. \A i \in 1 .. s.numConns : /\ u.conns[i].executable = s.conns[i].executable
                                     /\ u.conns[i].mode = s.conns[i].mode
                                     /\ u.conns[i].proto = s.conns[i].proto
      BY <1>2, <1>5, <1>7, <1>8, <3>1 DEF Cur, c, SameFlow
    <3>3. UpdateChoiceCount(u).choiceCount = UpdateChoiceCount(s).choiceCount
      BY <1>5, <1>7, <3>2, SameChoices
    <3> QED
      BY <1>2, <1>4, <1>5, <1>7, <1>8, <1>10, <2>1, <3>3 DEF ReadyFor
  <2>2. CASE s.process = "openflow"
    BY <1>1, <1>10, <2>2 DEF ReadyFor, c
  <2>3. CASE s.process = "forwarding"
    <3>1. u.choiceCount = 1
      BY <1>1, <1>5, <1>7, <1>10, <2>3 DEF ReadyFor, Offered, Outbound, c
    <3> QED
      BY <1>1, <1>2, <1>8, <1>9, <2>3, <3>1 DEF ReadyFor, Offered, Outbound, AtMb
  <2> QED
    BY <1>10, <2>1, <2>2, <2>3 DEF ReadyFor
<1>12. \A i \in Conns : u.conns[i].visited = s.conns[i].visited
  <2>1. t.conns[s.conn] = d
    BY <1>5 DEF Cur
  <2> QED
    BY <1>4, <1>5, <1>7, <2>1 DEF c, Cur
<1> QED
  BY <1>3, <1>5, <1>7, <1>9, <1>11, <1>12 DEF Ready

LEMMA CheckReady ==
  ASSUME NEW s, Sane(s), Ready(s), NEW p, Checkable(p), NEW r, r = CheckOne(s, p)
  PROVE  Judged(s, r, p)
<1> DEFINE c == Cur(s)
<1>1. r = s => Judged(s, r, p)
  BY DEF Judged, Ready
<1>2. ASSUME NEW v \in BOOLEAN, r = Decide(s, v)
      PROVE  Judged(s, r, p)
  <2> QED
    BY <1>2, DecideType DEF Judged, Ready
<1>3. p.kind \in {"reachability", "reply_reachability", "waypoint", "loop", "one_request",
                  "loadbalance"}
  BY DEF Checkable, Kinds, Correlated
<1>4. CASE p.kind = "reachability"
  <2> DEFINE e == p.expected
             n == ~p.expected
  <2>1. e \in BOOLEAN /\ n \in BOOLEAN
    BY <1>4 DEF Checkable, MultiConn
  <2>2. r = Reachability(s, p)
    BY <1>4, Zenon DEF CheckOne
  <2>3. r = s \/ r = Decide(s, e) \/ r = Decide(s, n)
    BY <2>2, Zenon DEF Reachability
  <2> HIDE DEF e, n
  <2>4. r = Decide(s, e) => Judged(s, r, p)
    BY <1>2, <2>1
  <2>5. r = Decide(s, n) => Judged(s, r, p)
    BY <1>2, <2>1
  <2> QED
    BY <1>1, <2>3, <2>4, <2>5
<1>5. CASE p.kind = "reply_reachability"
  <2> DEFINE e == p.expected
             n == ~p.expected
  <2>1. e \in BOOLEAN /\ n \in BOOLEAN
    BY <1>5 DEF Checkable, MultiConn
  <2>2. r = ReplyReachability(s, p)
    BY <1>5, Zenon DEF CheckOne
  <2>3. r = s \/ r = Decide(s, e) \/ r = Decide(s, n)
    BY <2>2, Zenon DEF ReplyReachability
  <2> HIDE DEF e, n
  <2>4. r = Decide(s, e) => Judged(s, r, p)
    BY <1>2, <2>1
  <2>5. r = Decide(s, n) => Judged(s, r, p)
    BY <1>2, <2>1
  <2> QED
    BY <1>1, <2>3, <2>4, <2>5
<1>6. CASE p.kind = "waypoint"
  <2> DEFINE e == p.expected
             n == ~p.expected
  <2>1. e \in BOOLEAN /\ n \in BOOLEAN
    BY <1>6 DEF Checkable, MultiConn
  <2>2. r = Waypoint(s, p)
    BY <1>6, Zenon DEF CheckOne
  <2>3. r = s \/ r = Decide(s, e) \/ r = Decide(s, n)
    BY <2>2, Zenon DEF Waypoint
  <2> HIDE DEF e, n
  <2>4. r = Decide(s, e) => Judged(s, r, p)
    BY <1>2, <2>1
  <2>5. r = Decide(s, n) => Judged(s, r, p)
    BY <1>2, <2>1
  <2> QED
    BY <1>1, <2>3, <2>4, <2>5
<1>7. CASE p.kind = "loop"
  <2> DEFINE hop == <<c.dst, c.ports[2], c.loc>>
             v == c.visited \cup {hop}
             t == SetCur(s, Visiting(c, v))
  <2>1. r = Loop(s, p)
    BY <1>7, Zenon DEF CheckOne
  <2>2. r = Decide(s, FALSE) \/ r = Decide(s, TRUE) \/ r = t
    BY <2>1, Zenon DEF Loop, Visiting
  <2>3. v \in SUBSET (AnyEc \X Nat \X AnyNode)
    <3>1. /\ c.dst \in AnyEc /\ c.ports \in Ports /\ c.loc \in AnyNode
          /\ c.visited \in SUBSET (AnyEc \X Nat \X AnyNode)
      BY CurType DEF ConnRecs
    <3>2. c.ports[2] \in Nat
      BY <3>1 DEF Ports
    <3>3. hop \in AnyEc \X Nat \X AnyNode
      BY <3>1, <3>2
    <3> HIDE DEF hop
    <3> QED
      BY <3>1, <3>3
  <2> HIDE DEF v
  <2>4. Sane(t) /\ Ready(t) /\ t.idx = s.idx /\ t.reachCounts = s.reachCounts
    BY <2>3, VisitingReady
  <2>5. r = t => Judged(s, r, p)
    <3> HIDE DEF t
    <3> QED
      BY <1>7, <2>4 DEF Judged, Ready
  <2>6. FALSE \in BOOLEAN /\ TRUE \in BOOLEAN
    OBVIOUS
  <2>7. r = Decide(s, FALSE) => Judged(s, r, p)
    BY <1>2, <2>6
  <2>8. r = Decide(s, TRUE) => Judged(s, r, p)
    BY <1>2, <2>6
  <2> HIDE DEF t
  <2> QED
    BY <2>2, <2>5, <2>7, <2>8
<1>8. CASE p.kind \in {"one_request", "loadbalance"}
  <2> DEFINE t == Count(s)
  <2>1. r = OneRequest(s, p) \/ r = LoadBalance(s, p)
    <3>1. "one_request" # "loadbalance"
      OBVIOUS
    <3>2. p.kind = "one_request" \/ p.kind = "loadbalance"
      BY <1>8
    <3> QED
      BY <3>1, <3>2, Zenon DEF CheckOne
  <2>2. r = s \/ (c.mode = "ACCEPTED" /\ (r = t \/ r = Decide(t, TRUE)))
    <3>1. CASE r = OneRequest(s, p)
      BY <3>1, Zenon DEF OneRequest
    <3>2. CASE r = LoadBalance(s, p)
      BY <3>2, Zenon DEF LoadBalance
    <3> QED
      BY <2>1, <3>1, <3>2
  <2>3. c.mode = "ACCEPTED" =>
          /\ Sane(t) /\ Ready(t) /\ t.idx = s.idx
          /\ \A i \in Conns : t.conns[i].visited = s.conns[i].visited
    BY CountReady
  <2> HIDE DEF t
  <2>4. MultiConn(p)
    BY <1>8 DEF MultiConn
  <2>5. ASSUME c.mode = "ACCEPTED", r = t
        PROVE  Judged(s, r, p)
    BY <2>3, <2>4, <2>5 DEF Judged, Ready
  <2>6. ASSUME c.mode = "ACCEPTED", r = Decide(t, TRUE)
        PROVE  Judged(s, r, p)
    <3>1. Sane(t) /\ TRUE \in BOOLEAN /\ r = Decide(t, TRUE)
      BY <2>3, <2>6
    <3>2. /\ Sane(r) /\ r.failed = t.failed /\ r.idx = t.idx /\ r.choiceCount = 0
          /\ r.conns = t.conns
      BY <3>1, DecideType, ZenonT(60)
    <3> QED
      BY <2>3, <2>4, <2>6, <3>2 DEF Judged, Ready
  <2> QED
    BY <1>1, <2>2, <2>5, <2>6
<1> QED
  BY <1>3, <1>4, <1>5, <1>6, <1>7, <1>8
-----------------------------------------------------------------------------
(* Starting from the initial connections                                   *)

\* A connection of a specification with its parts taken from it.
Begun(proto, payload, dst, ports, src, fib, v) ==
  [UnusedConn EXCEPT
     !.executable = 2, !.proto = proto, !.dst = dst, !.ports = ports,
     !.payload = payload, !.srcNode = src, !.txNode = src, !.loc = src,
     !.fib = fib, !.visited = v]

LEMMA BegunType ==
  ASSUME NEW proto \in {1, 11, 13}, NEW payload \in Nat, NEW dst \in Ecs,
         NEW ports \in Ports, NEW src \in Nodes \ Emulated, NEW fib \in Fibs,
         NEW v \in SUBSET (AnyEc \X Nat \X AnyNode),
         NEW d, d = Begun(proto, payload, dst, ports, src, fib, v)
  PROVE  /\ d \in ConnRecs /\ d.proto = proto /\ d.dst = dst /\ d.executable = 2
         /\ d.srcNode = src /\ d.txNode = src /\ d.loc = src
         /\ d.mode = "FIRST_COLLECT" /\ d.visited = v
<1>1. d = [executable |-> 2, proto |-> proto, src |-> NoEc, dst |-> dst, ports |-> ports,
           seq |-> 0, ack |-> 0, payload |-> payload, srcNode |-> src, txNode |-> src,
           rxNode |-> NoNode, mode |-> "FIRST_COLLECT", loc |-> src, candidates |-> <<>>,
           results |-> <<>>, fib |-> fib, choices |-> {}, visited |-> v]
  BY DEF Begun, UnusedConn
<1>2. dst \in AnyEc /\ src \in AnyNode /\ NoEc \in AnyEc /\ NoNode \in AnyNode
  BY DEF AnyEc, AnyNode
<1>3. 0 \in SeqNums /\ "FIRST_COLLECT" \in Modes
  BY DEF SeqNums, Modes
<1>4. <<>> \in Seq(Nodes) /\ <<>> \in Seq(Results)
  OBVIOUS
<1>5. 2 \in 0 .. 2 /\ proto \in 0 .. 14
  OBVIOUS
<1>6. d \in ConnRecs
  BY <1>1, <1>2, <1>3, <1>4, <1>5 DEF ConnRecs
<1> QED
  BY <1>1, <1>6

LEMMA BegunSound ==
  ASSUME NEW d \in ConnRecs, d.proto \in {1, 11, 13}, d.dst \in Ecs, d.executable = 2,
         NEW src \in Nodes \ Emulated, d.srcNode = src, d.txNode = src, d.loc = src,
         d.mode = "FIRST_COLLECT"
  PROVE  Sound(d) /\ Settled(d)
<1>1. d.proto \in ProtoStates /\ IsFirst(d.proto)
  BY DEF ProtoStates, IsFirst
<1> QED
  BY <1>1 DEF Sound, Outbound, Settled, AtMb

LEMMA SpecType ==
  ASSUME NEW spec \in ConnSpecs
  PROVE  /\ FirstState[spec.protocol] \in {1, 11, 13} /\ spec.dst \in Ecs
         /\ spec.ports \in Ports /\ spec.src \in Nodes \ Emulated
         /\ PayloadOf(FirstState[spec.protocol]) \in Nat
<1>1. spec.protocol \in {"tcp", "udp", "icmp_echo"}
  BY DEF ConnSpecs, FirstState
<1>2. FirstState[spec.protocol] \in {1, 11, 13}
  BY <1>1 DEF FirstState
<1>3. \A p \in {1, 11, 13} : PayloadOf(p) = 0
  BY DEF PayloadOf
<1> QED
  BY <1>2, <1>3 DEF ConnSpecs, Ports

\* The state in which the connections of specs begin, with the tables of the
\* configuration.
ConfiguredFib(ec) == [n \in Nodes |-> HopsWith(n, 0, ec)]

BegunConn(spec, v) ==
  Begun(FirstState[spec.protocol], PayloadOf(FirstState[spec.protocol]), spec.dst,
        spec.ports, spec.src, ConfiguredFib(spec.dst), v)

BegunState(s, specs, verdict, i) ==
  [conns |-> [k \in Conns |-> IF k <= Len(specs)
                              THEN BegunConn(specs[k], s.conns[k].visited) ELSE s.conns[k]],
   conn |-> 1, numConns |-> Len(specs), process |-> "forwarding", choiceCount |-> 1,
   installed |-> [n \in Nodes |-> 0], violated |-> verdict, idx |-> i,
   reachCounts |-> s.reachCounts, failed |-> s.failed]

LEMMA BegunConnType ==
  ASSUME NEW spec \in ConnSpecs, NEW v \in SUBSET (AnyEc \X Nat \X AnyNode),
         NEW d, d = BegunConn(spec, v)
  PROVE  /\ d \in ConnRecs /\ Sound(d) /\ Settled(d) /\ d.visited = v
         /\ d.executable = 2 /\ d.mode = "FIRST_COLLECT" /\ d.loc \notin Emulated
<1> DEFINE proto == FirstState[spec.protocol]
           payload == PayloadOf(proto)
           dst == spec.dst
           ports == spec.ports
           src == spec.src
           fib == ConfiguredFib(dst)
<1>1. /\ proto \in {1, 11, 13} /\ payload \in Nat /\ dst \in Ecs /\ ports \in Ports
      /\ src \in Nodes \ Emulated
  BY SpecType
<1>2. fib \in Fibs
  <2>1. \A n \in Nodes : 0 \in 0 .. Len(Updates[n])
    BY ModelStateAssumption
  <2>2. \A n \in Nodes : HopsWith(n, 0, dst) \in SUBSET Nodes
    BY <1>1, <2>1, HopsType
  <2> QED
    BY <2>2 DEF Fibs, ConfiguredFib
<1>3. d = Begun(proto, payload, dst, ports, src, fib, v)
  BY DEF BegunConn
<1> HIDE DEF proto, payload, dst, ports, src, fib
<1>4. /\ d \in ConnRecs /\ d.proto = proto /\ d.dst = dst /\ d.executable = 2
      /\ d.srcNode = src /\ d.txNode = src /\ d.loc = src
      /\ d.mode = "FIRST_COLLECT" /\ d.visited = v
  BY <1>1, <1>2, <1>3, BegunType
<1>5. Sound(d) /\ Settled(d)
  BY <1>1, <1>4, BegunSound
<1> QED
  BY <1>1, <1>4, <1>5

LEMMA StartedReady ==
  ASSUME NEW s \in States, ~s.failed, NEW specs \in Seq(ConnSpecs),
         Len(specs) \in 1 .. MaxConns, NEW verdict \in BOOLEAN, NEW i \in Nat,
         NEW t, t = BegunState(s, specs, verdict, i)
  PROVE  /\ Sane(t) /\ Ready(t) /\ t.choiceCount = 1 /\ t.idx = i /\ t.violated = verdict
         /\ t.reachCounts = s.reachCounts
         /\ \A k \in Conns : t.conns[k].visited = s.conns[k].visited
<1> DEFINE n == Len(specs)
<1>1. /\ t.conn = 1 /\ t.numConns = n /\ t.process = "forwarding" /\ t.choiceCount = 1
      /\ t.installed = [m \in Nodes |-> 0] /\ t.violated = verdict /\ t.idx = i
      /\ t.reachCounts = s.reachCounts /\ t.failed = s.failed
      /\ t.conns = [k \in Conns |-> IF k <= n
                              THEN BegunConn(specs[k], s.conns[k].visited) ELSE s.conns[k]]
  BY DEF BegunState
<1>2. n \in Conns /\ 1 \in 1 .. n /\ 1 \in Conns /\ 1 .. n \subseteq Conns
  BY ModelStateAssumption DEF Conns
<1>3. \A k \in Conns : s.conns[k] \in ConnRecs
  BY DEF States
<1>4. ASSUME NEW k \in 1 .. n
      PROVE  LET d == t.conns[k]
             IN /\ d \in ConnRecs /\ Sound(d) /\ Settled(d)
                /\ d.visited = s.conns[k].visited
                /\ d.executable = 2 /\ d.mode = "FIRST_COLLECT" /\ d.loc \notin Emulated
  <2> DEFINE spec == specs[k]
             v == s.conns[k].visited
             d == t.conns[k]
  <2>1. k \in Conns /\ k <= n
    BY <1>2
  <2>2. spec \in ConnSpecs
    BY <1>4
  <2>3. v \in SUBSET (AnyEc \X Nat \X AnyNode)
    BY <1>3, <2>1 DEF ConnRecs
  <2>4. d = BegunConn(spec, v)
    BY <1>1, <2>1
  <2> HIDE DEF spec, v, d, n
  <2>5. /\ d \in ConnRecs /\ Sound(d) /\ Settled(d) /\ d.visited = v
        /\ d.executable = 2 /\ d.mode = "FIRST_COLLECT" /\ d.loc \notin Emulated
    BY <2>2, <2>3, <2>4, BegunConnType
  <2> QED
    BY <2>5 DEF d, v
<1>5. \A k \in Conns : k \in 1 .. n \/ (t.conns[k] = s.conns[k] /\ k \notin 1 .. n)
  BY <1>1, <1>2 DEF Conns
<1> HIDE DEF n
<1>6. \A k \in Conns : t.conns[k] \in ConnRecs /\ t.conns[k].visited = s.conns[k].visited
  BY <1>3, <1>4, <1>5
<1>7. t.conns \in [Conns -> ConnRecs]
  BY <1>1, <1>6
<1>8. t \in States
  <2> DEFINE f == t.conns
             r == s.reachCounts
             z == [m \in Nodes |-> 0]
  <2>1. t = [conns |-> f, conn |-> 1, numConns |-> n, process |-> "forwarding",
             choiceCount |-> 1, installed |-> z, violated |-> verdict, idx |-> i,
             reachCounts |-> r, failed |-> s.failed]
    BY DEF BegunState, n
  <2>2. /\ r \in [Nodes -> Nat] /\ z \in [Nodes -> Nat] /\ s.failed \in BOOLEAN
        /\ n \in 0 .. MaxConns
    BY <1>2 DEF States, Conns
  <2>3. f \in [Conns -> ConnRecs]
    BY <1>7
  <2> HIDE DEF f, r, z
  <2> QED
    BY <1>2, <2>1, <2>2, <2>3 DEF States
<1>9. InstalledOK(t)
  <2>1. \A m \in Nodes : t.installed[m] = 0
    BY <1>1
  <2> QED
    BY <2>1, ModelStateAssumption DEF InstalledOK
<1>10. Sane(t)
  BY <1>1, <1>2, <1>4, <1>8, <1>9 DEF Sane
<1>11. OthersSettled(t)
  BY <1>1, <1>4 DEF OthersSettled
<1>12. ReadyFor(t)
  BY <1>1, <1>2, <1>4 DEF ReadyFor, Cur, Offered, Outbound, AtMb
<1> QED
  BY <1>1, <1>6, <1>10, <1>11, <1>12 DEF Ready

LEMMA UnusedType == UnusedConn \in ConnRecs /\ UnusedConn.visited = {}
<1>1. [n \in Nodes |-> {}] \in Fibs
  BY DEF Fibs
<1>2. <<0, 0>> \in Ports /\ 0 \in SeqNums
  BY DEF Ports, SeqNums
<1>3. "FIRST_COLLECT" \in Modes
  BY DEF Modes
<1>4. NoEc \in AnyEc /\ NoNode \in AnyNode
  BY DEF AnyEc, AnyNode
<1>5. <<>> \in Seq(Nodes) /\ <<>> \in Seq(Results)
  OBVIOUS
<1> QED
  BY <1>1, <1>2, <1>3, <1>4, <1>5 DEF UnusedConn, ConnRecs

LEMMA ZeroedType ==
  /\ Zeroed \in States /\ ~Zeroed.failed /\ Zeroed.idx = 1
  /\ Zeroed.process = "forwarding" /\ Zeroed.choiceCount = 1
  /\ Zeroed.installed = [n \in Nodes |-> 0] /\ Zeroed.reachCounts = [n \in Nodes |-> 0]
  /\ \A k \in Conns : Zeroed.conns[k].visited = {}
<1> DEFINE u == UnusedConn
           z == [n \in Nodes |-> 0]
           f == [k \in Conns |-> u]
<1>1. Zeroed = [conns |-> f, conn |-> 1, numConns |-> 0, process |-> "forwarding",
                choiceCount |-> 1, installed |-> z, violated |-> FALSE, idx |-> 1,
                reachCounts |-> z, failed |-> FALSE]
  BY DEF Zeroed
<1>2. u \in ConnRecs /\ u.visited = {}
  BY UnusedType
<1>3. z \in [Nodes -> Nat] /\ 1 \in Conns /\ 0 \in 0 .. MaxConns
  BY ModelStateAssumption DEF Conns
<1> HIDE DEF u
<1>4. f \in [Conns -> ConnRecs] /\ \A k \in Conns : f[k].visited = {}
  BY <1>2
<1> HIDE DEF f
<1> QED
  BY <1>1, <1>3, <1>4 DEF States

\* init of an invariant makes that state.
LEMMA InitConnBegun ==
  ASSUME NEW s, s.installed = [n \in Nodes |-> 0], NEW spec, NEW k
  PROVE  InitConn(s, k, spec) = BegunConn(spec, s.conns[k].visited)
<1>1. FibFor(s, spec.dst) = ConfiguredFib(spec.dst)
  BY DEF FibFor, ConfiguredFib
<1> QED
  BY <1>1, Zenon DEF InitConn, BegunConn, Begun

Verdict(s, v) ==
  [s EXCEPT !.process = "forwarding", !.choiceCount = 1, !.violated = v]

Opinion(s, v) == [s EXCEPT !.violated = v]

LEMMA InitConnsStarted ==
  ASSUME NEW s \in States, s.installed = [n \in Nodes |-> 0], NEW specs, NEW v
  PROVE  /\ Verdict(InitConns(s, specs), v) = BegunState(s, specs, v, s.idx)
         /\ s.process = "forwarding" /\ s.choiceCount = 1 =>
              Opinion(InitConns(s, specs), v) = BegunState(s, specs, v, s.idx)
<1> DEFINE f == [k \in Conns |-> IF k <= Len(specs) THEN InitConn(s, k, specs[k])
                                 ELSE s.conns[k]]
           g == [k \in Conns |-> IF k <= Len(specs)
                                 THEN BegunConn(specs[k], s.conns[k].visited)
                                 ELSE s.conns[k]]
           n == Len(specs)
           t == InitConns(s, specs)
<1>1. f = g
  <2>1. \A k \in Conns : InitConn(s, k, specs[k]) = BegunConn(specs[k], s.conns[k].visited)
    BY InitConnBegun
  <2> QED
    BY <2>1
<1>2. t = [s EXCEPT !.conn = 1, !.numConns = n, !.conns = f]
  BY DEF InitConns
<1>3. BegunState(s, specs, v, s.idx) =
        [conns |-> g, conn |-> 1, numConns |-> n, process |-> "forwarding",
         choiceCount |-> 1, installed |-> s.installed, violated |-> v, idx |-> s.idx,
         reachCounts |-> s.reachCounts, failed |-> s.failed]
  BY DEF BegunState
<1> HIDE DEF f, g, n, t
<1>4. t = [conns |-> f, conn |-> 1, numConns |-> n, process |-> s.process,
           choiceCount |-> s.choiceCount, installed |-> s.installed,
           violated |-> s.violated, idx |-> s.idx,
           reachCounts |-> s.reachCounts, failed |-> s.failed]
  BY <1>2 DEF States
<1>5. Verdict(t, v) = BegunState(s, specs, v, s.idx)
  <2> DEFINE r1 == [conns |-> f, conn |-> 1, numConns |-> n, process |-> "forwarding",
            choiceCount |-> s.choiceCount, installed |-> s.installed,
            violated |-> s.violated, idx |-> s.idx,
            reachCounts |-> s.reachCounts, failed |-> s.failed]
             r2 == [conns |-> f, conn |-> 1, numConns |-> n, process |-> "forwarding",
            choiceCount |-> 1, installed |-> s.installed,
            violated |-> s.violated, idx |-> s.idx,
            reachCounts |-> s.reachCounts, failed |-> s.failed]
             r3 == [conns |-> f, conn |-> 1, numConns |-> n, process |-> "forwarding",
            choiceCount |-> 1, installed |-> s.installed,
            violated |-> v, idx |-> s.idx,
            reachCounts |-> s.reachCounts, failed |-> s.failed]
  <2>1. Verdict(t, v) =
          [[[t EXCEPT !.process = "forwarding"] EXCEPT !.choiceCount = 1] EXCEPT !.violated = v]
    BY DEF Verdict
  <2>2. [t EXCEPT !.process = "forwarding"] = r1
    BY <1>4
  <2>3. [r1 EXCEPT !.choiceCount = 1] = r2
    OBVIOUS
  <2>4. [r2 EXCEPT !.violated = v] = r3
    OBVIOUS
  <2>5. BegunState(s, specs, v, s.idx) = r3
    BY <1>1, <1>3
  <2> HIDE DEF r1, r2, r3
  <2> QED
    BY <2>1, <2>2, <2>3, <2>4, <2>5, Zenon
<1>6. s.process = "forwarding" /\ s.choiceCount = 1 =>
        Opinion(t, v) = BegunState(s, specs, v, s.idx)
  BY <1>1, <1>3, <1>4 DEF Opinion
<1> QED
  BY <1>5, <1>6 DEF t

LEMMA InitializedStarted ==
  ASSUME NEW i
  PROVE  Initialized(i) = BegunState(Zeroed, Part(Zeroed, i).conns,
                                  InitialVerdict(Part(Zeroed, i)), 1)
<1> DEFINE specs == Part(Zeroed, i).conns
           v == InitialVerdict(Part(Zeroed, i))
<1>1. Initialized(i) = Opinion(InitConns(Zeroed, specs), v)
  BY DEF Initialized, Opinion
<1> HIDE DEF specs, v
<1>2. Opinion(InitConns(Zeroed, specs), v) = BegunState(Zeroed, specs, v, 1)
  BY ZeroedType, InitConnsStarted
<1> QED
  BY <1>1, <1>2 DEF specs, v

\* So does reinit, for the part whose turn it is.
Next1(s) == [s EXCEPT !.idx = @ + 1]

Cleared(s) == [s EXCEPT !.installed = [n \in Nodes |-> 0]]

LEMMA ClearedType ==
  ASSUME NEW s \in States, NEW t, t = Cleared(Next1(s))
  PROVE  /\ t \in States /\ t.installed = [n \in Nodes |-> 0] /\ t.idx = s.idx + 1
         /\ t.conns = s.conns /\ t.reachCounts = s.reachCounts /\ t.failed = s.failed
<1>1. /\ Next1(s) \in States /\ Next1(s).idx = s.idx + 1 /\ Next1(s).conns = s.conns
      /\ Next1(s).reachCounts = s.reachCounts /\ Next1(s).failed = s.failed
  <2>1. s.idx \in Nat /\ s.idx + 1 \in Nat
    BY DEF States
  <2> DEFINE n == s.idx + 1
  <2>2. Next1(s) = [s EXCEPT !.idx = n]
    BY DEF Next1
  <2> HIDE DEF n
  <2>3. n \in Nat
    BY <2>1 DEF n
  <2>4. [s EXCEPT !.idx = n] \in States
    BY <2>3 DEF States
  <2> QED
    BY <2>2, <2>3, <2>4 DEF States, n
<1>2. [n \in Nodes |-> 0] \in [Nodes -> Nat]
  OBVIOUS
<1> DEFINE r == Next1(s)
<1> HIDE DEF r
<1>3. r \in States /\ t = Cleared(r)
  BY <1>1 DEF r
<1>4. /\ t \in States /\ t.installed = [n \in Nodes |-> 0] /\ t.idx = r.idx
      /\ t.conns = r.conns /\ t.reachCounts = r.reachCounts /\ t.failed = r.failed
  BY <1>2, <1>3 DEF Cleared, States
<1> QED
  BY <1>1, <1>4 DEF r

LEMMA ReinitStarted ==
  ASSUME NEW s \in States, NEW i, Correlated(i)
  PROVE  Reinit(Next1(s), i) =
           BegunState(Cleared(Next1(s)), i.parts[s.idx + 1].conns,
                   InitialVerdict(i.parts[s.idx + 1]), s.idx + 1)
<1> DEFINE t == Cleared(Next1(s))
           p == Part(Next1(s), i)
           specs == p.conns
           v == InitialVerdict(p)
<1>1. /\ t \in States /\ t.installed = [n \in Nodes |-> 0] /\ t.idx = s.idx + 1
  BY ClearedType
<1>2. p = i.parts[s.idx + 1]
  <2>1. Next1(s).idx = s.idx + 1
    BY DEF Next1, States
  <2> QED
    BY <2>1 DEF Part
<1>3. Reinit(Next1(s), i) = Verdict(InitConns(t, specs), v)
  BY Zenon DEF Reinit, Verdict, Cleared
<1> HIDE DEF t, p, specs, v
<1>4. Verdict(InitConns(t, specs), v) = BegunState(t, specs, v, t.idx)
  BY <1>1, InitConnsStarted
<1> QED
  BY <1>1, <1>2, <1>3, <1>4 DEF t, specs, v
-----------------------------------------------------------------------------
(* The invariants of a query                                               *)

\* The part that is checked exists.
Turn(s, i) == s.idx \in IF Correlated(i) THEN DOMAIN i.parts ELSE {1}

LEMMA PartsFacts ==
  ASSUME NEW i \in Queries, Correlated(i)
  PROVE  /\ Len(i.parts) \in Nat \ {0} /\ DOMAIN i.parts = 1 .. Len(i.parts)
         /\ \A k \in DOMAIN i.parts : Checkable(i.parts[k]) /\ ~MultiConn(i.parts[k])
BY PlanktonAssumption

LEMMA PartCheckable ==
  ASSUME NEW i \in Queries, NEW s, Turn(s, i)
  PROVE  Checkable(Part(s, i)) /\ (Correlated(i) => ~MultiConn(Part(s, i)))
<1>1. CASE Correlated(i)
  BY <1>1, PartsFacts DEF Part, Turn
<1>2. CASE ~Correlated(i)
  BY <1>2, PlanktonAssumption DEF Part
<1> QED
  BY <1>1, <1>2

LEMMA CheckableStarts ==
  ASSUME NEW p, Checkable(p)
  PROVE  /\ p.conns \in Seq(ConnSpecs) /\ Len(p.conns) \in 1 .. MaxConns
         /\ InitialVerdict(p) \in BOOLEAN
<1>1. Len(p.conns) \in 1 .. (IF MultiConn(p) THEN MaxConns ELSE 1)
  BY DEF Checkable
<1>2. Len(p.conns) \in 1 .. MaxConns
  BY <1>1, ModelStateAssumption
<1> QED
  BY <1>2 DEF Checkable, InitialVerdict

LEMMA InitializedReady ==
  ASSUME NEW i \in Queries, NEW t, t = Initialized(i)
  PROVE  /\ Sane(t) /\ Ready(t) /\ t.choiceCount = 1 /\ t.idx = 1 /\ Turn(t, i)
         /\ t.reachCounts = [n \in Nodes |-> 0]
         /\ \A k \in Conns : t.conns[k].visited = {}
<1> DEFINE z == Zeroed
           p == Part(z, i)
           specs == p.conns
           v == InitialVerdict(p)
<1>1. /\ z \in States /\ ~z.failed /\ z.idx = 1 /\ z.reachCounts = [n \in Nodes |-> 0]
      /\ \A k \in Conns : z.conns[k].visited = {}
  BY ZeroedType
<1>2. t = BegunState(z, specs, v, 1)
  BY InitializedStarted
<1>3. Correlated(i) => 1 \in DOMAIN i.parts
  BY PartsFacts
<1> HIDE DEF z
<1>4. Checkable(p)
  BY <1>1, <1>3, PartCheckable DEF Turn
<1> HIDE DEF p
<1>5. specs \in Seq(ConnSpecs) /\ Len(specs) \in 1 .. MaxConns /\ v \in BOOLEAN /\ 1 \in Nat
  BY <1>4, CheckableStarts
<1> HIDE DEF specs, v
<1>6. /\ Sane(t) /\ Ready(t) /\ t.choiceCount = 1 /\ t.idx = 1
      /\ t.reachCounts = z.reachCounts
      /\ \A k \in Conns : t.conns[k].visited = z.conns[k].visited
  BY <1>1, <1>2, <1>5, StartedReady
<1> QED
  BY <1>1, <1>3, <1>6 DEF Turn

LEMMA OpinionType ==
  ASSUME NEW s, Sane(s), ~s.failed, NEW v \in BOOLEAN, NEW t, t = Opinion(s, v)
  PROVE  /\ Sane(t) /\ ~t.failed /\ t.idx = s.idx /\ t.choiceCount = s.choiceCount
         /\ t.violated = v /\ t.reachCounts = s.reachCounts /\ t.conns = s.conns
         /\ t.installed = s.installed
<1>1. s \in States
  BY DEF Sane
<1>2. /\ t \in States /\ ~t.failed /\ t.idx = s.idx /\ t.choiceCount = s.choiceCount
      /\ t.violated = v /\ t.reachCounts = s.reachCounts /\ t.conns = s.conns
      /\ t.conn = s.conn /\ t.numConns = s.numConns /\ t.installed = s.installed
  BY <1>1 DEF States, Opinion
<1>3. Sane(t)
  BY <1>2 DEF Sane, InstalledOK
<1> QED
  BY <1>2, <1>3

\* What follows the end of a part: the next one begins, or this was the last.
Restarted(s, t, i) ==
  /\ s.idx + 1 \in DOMAIN i.parts /\ t.idx = s.idx + 1
  /\ t = BegunState(Cleared(Next1(s)), i.parts[s.idx + 1].conns,
                 InitialVerdict(i.parts[s.idx + 1]), s.idx + 1)
  /\ Ready(t) /\ t.choiceCount = 1

Closed(s, t, v) ==
  /\ t.idx = s.idx /\ t.choiceCount = s.choiceCount /\ t.violated = v
  /\ t.conns = s.conns /\ t.installed = s.installed

LEMMA NextPartFacts ==
  ASSUME NEW i \in Queries, Correlated(i), NEW s, Sane(s), ~s.failed, Turn(s, i),
         NEW t, t = NextPart(s, i)
  PROVE  /\ Sane(t) /\ ~t.failed /\ t.reachCounts = s.reachCounts
         /\ \A k \in Conns : t.conns[k].visited = s.conns[k].visited
         /\ \/ Restarted(s, t, i)
            \/ s.idx = Len(i.parts) /\ Closed(s, t, FALSE)
<1>1. /\ Len(i.parts) \in Nat \ {0} /\ DOMAIN i.parts = 1 .. Len(i.parts)
      /\ s.idx \in DOMAIN i.parts /\ s \in States
  BY PartsFacts DEF Turn, Sane
<1>2. CASE s.idx < Len(i.parts)
  <2> DEFINE j == s.idx + 1
             p == i.parts[j]
             specs == p.conns
             v == InitialVerdict(p)
             z == Cleared(Next1(s))
  <2>1. t = Reinit(Next1(s), i)
    BY <1>2 DEF NextPart, Next1
  <2>2. t = BegunState(z, specs, v, j)
    BY <1>1, <2>1, ReinitStarted
  <2>3. j \in DOMAIN i.parts /\ j \in Nat
    BY <1>1, <1>2
  <2>4. Checkable(p)
    <3> HIDE DEF j
    <3> QED
      BY <2>3, PartsFacts
  <2>5. specs \in Seq(ConnSpecs) /\ Len(specs) \in 1 .. MaxConns /\ v \in BOOLEAN
    <3> HIDE DEF p
    <3> QED
      BY <2>4, CheckableStarts
  <2>6. /\ z \in States /\ ~z.failed /\ z.conns = s.conns /\ z.reachCounts = s.reachCounts
    BY <1>1, ClearedType
  <2>7. j = s.idx + 1
    OBVIOUS
  <2>8. BegunState(z, specs, v, j) = BegunState(Cleared(Next1(s)), i.parts[s.idx + 1].conns,
                                          InitialVerdict(i.parts[s.idx + 1]), s.idx + 1)
    OBVIOUS
  <2> HIDE DEF j, z, p, specs, v
  <2>9. /\ Sane(t) /\ Ready(t) /\ t.choiceCount = 1 /\ t.idx = j
        /\ t.reachCounts = z.reachCounts
        /\ \A k \in Conns : t.conns[k].visited = z.conns[k].visited
    BY <2>2, <2>3, <2>5, <2>6, StartedReady
  <2>10. ~t.failed
    BY <2>9 DEF Ready
  <2>11. Restarted(s, t, i)
    BY <2>2, <2>3, <2>7, <2>8, <2>9 DEF Restarted
  <2> QED
    BY <2>6, <2>9, <2>10, <2>11
<1>3. CASE ~(s.idx < Len(i.parts))
  <2>1. t = Opinion(s, FALSE) /\ FALSE \in BOOLEAN
    BY <1>3 DEF NextPart, Opinion
  <2>2. /\ Sane(t) /\ ~t.failed /\ t.idx = s.idx /\ t.choiceCount = s.choiceCount
        /\ t.violated = FALSE /\ t.reachCounts = s.reachCounts /\ t.conns = s.conns
        /\ t.installed = s.installed
    BY <2>1, OpinionType
  <2>3. s.idx = Len(i.parts)
    BY <1>1, <1>3
  <2> QED
    BY <2>2, <2>3 DEF Closed
<1> QED
  BY <1>2, <1>3

\* What a correlated invariant makes of the state its part has checked.
LEMMA CheckCorrelatedFacts ==
  ASSUME NEW i \in Queries, NEW s, Sane(s), ~s.failed, s.choiceCount # 0 => Ready(s),
         Turn(s, i), NEW w, NEW t, t = CheckCorrelated(s, i, w)
  PROVE  /\ Sane(t) /\ ~t.failed /\ t.reachCounts = s.reachCounts
         /\ \A k \in Conns : t.conns[k].visited = s.conns[k].visited
         /\ \/ t = s /\ (Correlated(i) => s.choiceCount # 0)
            \/ Correlated(i) /\ s.choiceCount = 0 /\ Restarted(s, t, i)
            \/ Correlated(i) /\ s.choiceCount = 0 /\ \E v \in BOOLEAN : Closed(s, t, v)
<1>1. t = s => /\ Sane(t) /\ ~t.failed /\ t.reachCounts = s.reachCounts
               /\ \A k \in Conns : t.conns[k].visited = s.conns[k].visited
  OBVIOUS
<1>2. ASSUME NEW v \in BOOLEAN, t = Opinion(s, v)
      PROVE  /\ Sane(t) /\ ~t.failed /\ t.reachCounts = s.reachCounts
             /\ \A k \in Conns : t.conns[k].visited = s.conns[k].visited
             /\ Closed(s, t, v)
  BY <1>2, OpinionType DEF Closed
<1>3. s.violated \in BOOLEAN
  BY DEF Sane, States
<1>4. CASE i.kind = "conditional"
  <2>1. t = Conditional(s, i)
    BY <1>4, Zenon DEF CheckCorrelated
  <2>2. Correlated(i)
    BY <1>4 DEF Correlated
  <2>3. CASE s.choiceCount # 0
    BY <1>1, <2>1, <2>3 DEF Conditional
  <2>4. CASE s.choiceCount = 0 /\ s.violated
    <3> DEFINE v == s.idx > 1
    <3>1. t = Opinion(s, v)
      BY <2>1, <2>4 DEF Conditional, Opinion
    <3>2. v \in BOOLEAN
      OBVIOUS
    <3> HIDE DEF v
    <3> QED
      BY <1>2, <2>2, <2>4, <3>1, <3>2
  <2>5. CASE s.choiceCount = 0 /\ ~s.violated
    <3>1. t = NextPart(s, i)
      BY <2>1, <2>5 DEF Conditional
    <3> QED
      BY <2>2, <2>5, <3>1, NextPartFacts, ZenonT(60)
  <2> QED
    BY <2>3, <2>4, <2>5
<1>5. CASE i.kind = "consistency"
  <2> DEFINE x == Store(s, w)
  <2>1. t = Consistency(s, i, x)
    BY <1>5, Zenon DEF CheckCorrelated
  <2>2. Correlated(i)
    BY <1>5 DEF Correlated
  <2> HIDE DEF x
  <2>3. CASE s.choiceCount # 0
    BY <1>1, <2>1, <2>3 DEF Consistency
  <2>4. CASE s.choiceCount = 0 /\ s.violated # x.result
    <3>1. t = Opinion(s, TRUE) /\ TRUE \in BOOLEAN
      BY <2>1, <2>4 DEF Consistency, Opinion
    <3> QED
      BY <1>2, <2>2, <2>4, <3>1
  <2>5. CASE s.choiceCount = 0 /\ s.violated = x.result
    <3>1. t = NextPart(s, i)
      BY <2>1, <2>5 DEF Consistency
    <3> QED
      BY <2>2, <2>5, <3>1, NextPartFacts, ZenonT(60)
  <2> QED
    BY <2>3, <2>4, <2>5
<1>6. CASE ~Correlated(i)
  <2>1. i.kind # "conditional" /\ i.kind # "consistency"
    BY <1>6 DEF Correlated
  <2>2. t = s
    BY <2>1, Zenon DEF CheckCorrelated
  <2> QED
    BY <1>1, <1>6, <2>2
<1> QED
  BY <1>4, <1>5, <1>6 DEF Correlated

-----------------------------------------------------------------------------
(* A step of the path                                                      *)

\* The path, its invariant, and the auxiliary variables.
PathInv ==
  /\ inv \in Queries
  /\ Sane(now)
  /\ now.choiceCount # 0 => Ready(now)
  /\ Turn(now, inv)
  /\ stored \in [unset : BOOLEAN, result : BOOLEAN]
  /\ reached \subseteq Nodes /\ decided \in BOOLEAN
  /\ Routed /\ Ended /\ ~decided /\ ~now.failed =>
       \A i \in 1 .. now.numConns : Finished(now.conns[i])

\* The processes end a path or hand the invariant a state they can go on from.
LEMMA StepStepped ==
  ASSUME PathInv, Step
  PROVE  ~Ended /\ Ready(now) /\ \E stepped : Stepped(now, stepped) /\ ExecStep(stepped)
<1>1. Sane(now) /\ now.choiceCount \in Nat /\ (now.choiceCount # 0 => Ready(now))
  BY DEF PathInv, Sane, States
<1>2. Selection # {} => ~Ended
  BY <1>1 DEF Selection, Ended
<1>3. CASE ChooseConn
  <2>1. PICK choice \in Selection : ExecStep(ChooseConnStep(now, choice))
    BY <1>3 DEF ChooseConn
  <2>2. ~Ended /\ Ready(now) /\ now.process = "choose_conn"
    BY <1>1, <1>2, <1>3, <2>1 DEF ChooseConn, Ended
  <2>3. choice \in 0 .. now.choiceCount - 1
    BY DEF Selection
  <2>4. Stepped(now, ChooseConnStep(now, choice))
    BY <1>1, <2>2, <2>3, ChooseConnStepped
  <2> QED
    BY <2>1, <2>2, <2>4
<1>4. CASE Forward
  <2>1. PICK choice \in Selection : ExecStep(ForwardingStep(now, choice, <<>>))
    BY <1>4 DEF Forward
  <2>2. ~Ended /\ Ready(now) /\ now.process = "forwarding" /\ ~Injects(now)
    BY <1>1, <1>2, <1>4, <2>1 DEF Forward, Ended
  <2>3. choice \in 0 .. now.choiceCount - 1
    BY DEF Selection
  <2>4. Stepped(now, ForwardingStep(now, choice, <<>>))
    BY <1>1, <2>2, <2>3, ForwardingStepped
  <2> QED
    BY <2>1, <2>2, <2>4
<1>5. CASE Inject
  <2>1. PICK results \in Answers(now) : ExecStep(ForwardingStep(now, 0, results))
    BY <1>5 DEF Inject
  <2>2. ~Ended /\ Ready(now) /\ Injects(now)
    BY <1>1, <1>2, <1>5 DEF Inject, Ended
  <2>3. Stepped(now, ForwardingStep(now, 0, results))
    BY <1>1, <2>2, InjectionStepped
  <2> QED
    BY <2>1, <2>2, <2>3
<1>6. CASE InstallUpdate
  <2>1. PICK choice \in Selection : ExecStep(OpenFlowStep(now, choice))
    BY <1>6 DEF InstallUpdate
  <2>2. ~Ended /\ Ready(now) /\ now.process = "openflow"
    BY <1>1, <1>2, <1>6, <2>1 DEF InstallUpdate, Ended
  <2>3. choice \in 0 .. now.choiceCount - 1
    BY DEF Selection
  <2>4. Stepped(now, OpenFlowStep(now, choice))
    BY <1>1, <2>2, <2>3, OpenFlowStepped
  <2> QED
    BY <2>1, <2>2, <2>4
<1> QED
  BY <1>3, <1>4, <1>5, <1>6 DEF Step

\* What a step that does not end the process makes of the path: the invariant has
\* checked a state of the same part, and the correlated one has gone on from it.
Checked(s) ==
  /\ Sane(s) /\ ~s.failed /\ (s.choiceCount # 0 => Ready(s)) /\ s.idx = now.idx
  /\ Part(now, inv).kind # "loop" =>
       \A i \in Conns : s.conns[i].visited = now.conns[i].visited
  /\ ~MultiConn(Part(now, inv)) => s.reachCounts = now.reachCounts
  /\ now' = CheckCorrelated(s, inv, stored)
  /\ stored' = IF inv.kind = "consistency" THEN Store(s, stored) ELSE stored
  /\ ended' = IF Correlated(inv) /\ s.choiceCount = 0
              THEN ended \cup {<<now.idx, s.violated>>} ELSE ended

LEMMA ExecStepFacts ==
  ASSUME PathInv, ~Ended, Ready(now), NEW stepped, Stepped(now, stepped), ExecStep(stepped)
  PROVE  /\ inv' = inv /\ reached' \subseteq Nodes /\ decided' \in BOOLEAN
         /\ \/ now'.failed /\ Sane(now)' /\ now'.choiceCount = 0 /\ now'.idx = now.idx
               /\ stored' = stored
            \/ /\ \E s : Checked(s)
               /\ Routed /\ Ended' /\ ~decided' =>
                    \A i \in 1 .. now'.numConns : Finished(now'.conns[i])
<1> DEFINE s == IF stepped.failed THEN stepped ELSE CheckToSwitchProcess(stepped)
           p == Part(s, inv)
           checked == IF s.failed THEN s ELSE CheckOne(s, p)
<1>1. /\ now' = IF s.failed THEN s ELSE CheckCorrelated(checked, inv, stored)
      /\ stored' = IF inv.kind = "consistency" /\ ~s.failed THEN Store(checked, stored)
                   ELSE stored
      /\ reached' = IF RequestAccepted(Cur(s)) THEN reached \cup {Cur(s).loc} ELSE reached
      /\ decided' = (now'.choiceCount = 0 /\ now' # s)
      /\ ended' = IF Correlated(inv) /\ ~s.failed /\ checked.choiceCount = 0
                  THEN ended \cup {<<s.idx, checked.violated>>} ELSE ended
      /\ inv' = inv
  BY DEF ExecStep
<1>2. /\ Sane(s) /\ s.idx = now.idx /\ s.reachCounts = now.reachCounts
      /\ \A i \in Conns : s.conns[i].visited = now.conns[i].visited
      /\ IF s.failed THEN s.choiceCount = 0 ELSE Ready(s)
  <2>1. CASE stepped.failed
    BY <2>1 DEF Stepped, Keeps
  <2>2. CASE ~stepped.failed
    <3>1. s = CheckToSwitchProcess(stepped)
      BY <2>2
    <3>2. Sane(stepped) /\ Left(stepped) /\ Keeps(now, stepped)
      BY <2>2 DEF Stepped
    <3> HIDE DEF s
    <3>3. Sane(s) /\ Ready(s) /\ Keeps(stepped, s)
      BY <3>1, <3>2, SwitchReady
    <3> QED
      BY <3>2, <3>3 DEF Keeps, Ready
  <2> QED
    BY <2>1, <2>2
<1>3. p = Part(now, inv)
  <2> HIDE DEF s
  <2> QED
    BY <1>2 DEF Part
<1>4. s.failed => checked = s
  OBVIOUS
<1>5. ~s.failed => checked = CheckOne(s, p)
  OBVIOUS
<1> HIDE DEF s, p, checked
<1>6. reached' \subseteq Nodes
  <2>1. Cur(s).loc \in Nodes
    <3>1. Sound(Cur(s))
      BY <1>2, CurType
    <3> QED
      BY <3>1 DEF Sound
  <2> QED
    BY <1>1, <2>1 DEF PathInv
<1>7. decided' \in BOOLEAN
  BY <1>1
<1>8. CASE s.failed
  BY <1>1, <1>2, <1>6, <1>7, <1>8
<1>9. CASE ~s.failed
  <2>1. Checkable(p)
    BY <1>3, PartCheckable DEF PathInv
  <2>2. Judged(s, checked, p)
    BY <1>2, <1>5, <1>9, <2>1, CheckReady
  <2>3. Checked(checked)
    <3>1. /\ Sane(checked) /\ ~checked.failed /\ checked.idx = now.idx
          /\ checked.choiceCount # 0 => Ready(checked)
          /\ p.kind # "loop" => \A i \in Conns : checked.conns[i].visited = now.conns[i].visited
          /\ ~MultiConn(p) => checked.reachCounts = now.reachCounts
      BY <1>2, <2>2 DEF Judged
    <3> QED
      BY <1>1, <1>2, <1>3, <1>9, <3>1 DEF Checked
  <2>4. ASSUME Routed, Ended', ~decided'
        PROVE  \A i \in 1 .. now'.numConns : Finished(now'.conns[i])
    <3>1. now' = s /\ s.choiceCount = 0
      BY <1>1, <2>4 DEF Ended
    <3>2. \A i \in 1 .. s.numConns : Finished(s.conns[i])
      BY <1>2, <1>9, <2>4, <3>1, ReadyEnded
    <3> QED
      BY <3>1, <3>2
  <2> QED
    BY <1>1, <1>6, <1>7, <2>3, <2>4
<1> QED
  BY <1>8, <1>9

LEMMA PathInitial ==
  ASSUME Init
  PROVE  PathInv
<1>1. inv \in Queries /\ now = Initialized(inv)
  BY DEF Init
<1>2. Sane(now) /\ Ready(now) /\ now.choiceCount = 1 /\ Turn(now, inv)
  BY <1>1, InitializedReady
<1>3. /\ stored \in [unset : BOOLEAN, result : BOOLEAN]
      /\ reached \subseteq Nodes /\ decided \in BOOLEAN
  BY DEF Init
<1>4. ~Ended
  BY <1>2 DEF Ended
<1> QED
  BY <1>1, <1>2, <1>3, <1>4 DEF PathInv

LEMMA PathStepped ==
  ASSUME PathInv, [Next]_vars
  PROVE  PathInv'
<1>1. CASE Step
  <2>1. PICK stepped : Stepped(now, stepped) /\ ExecStep(stepped)
    BY <1>1, StepStepped
  <2>2. ~Ended /\ Ready(now)
    BY <1>1, StepStepped
  <2>3. /\ inv' = inv /\ reached' \subseteq Nodes /\ decided' \in BOOLEAN
        /\ \/ now'.failed /\ Sane(now)' /\ now'.choiceCount = 0 /\ now'.idx = now.idx
              /\ stored' = stored
           \/ /\ \E s : Checked(s)
              /\ Routed /\ Ended' /\ ~decided' =>
                   \A i \in 1 .. now'.numConns : Finished(now'.conns[i])
    BY <2>1, <2>2, ExecStepFacts
  <2>4. CASE now'.failed /\ Sane(now)' /\ now'.choiceCount = 0 /\ now'.idx = now.idx
             /\ stored' = stored
    BY <2>3, <2>4 DEF PathInv, Turn
  <2>5. CASE /\ \E s : Checked(s)
             /\ Routed /\ Ended' /\ ~decided' =>
                  \A i \in 1 .. now'.numConns : Finished(now'.conns[i])
    <3>1. PICK s : Checked(s)
      BY <2>5
    <3>2. /\ Sane(s) /\ ~s.failed /\ (s.choiceCount # 0 => Ready(s)) /\ s.idx = now.idx
          /\ now' = CheckCorrelated(s, inv, stored)
          /\ stored' = IF inv.kind = "consistency" THEN Store(s, stored) ELSE stored
      BY <3>1 DEF Checked
    <3>3. inv \in Queries /\ Turn(s, inv)
      BY <3>2 DEF PathInv, Turn
    <3>4. /\ Sane(now') /\ ~now'.failed
          /\ \/ now' = s
             \/ Correlated(inv) /\ Restarted(s, now', inv)
             \/ s.choiceCount = 0 /\ \E v \in BOOLEAN : Closed(s, now', v)
      BY <3>2, <3>3, CheckCorrelatedFacts
    <3>5. (now'.choiceCount # 0 => Ready(now')) /\ Turn(now', inv)
      BY <3>2, <3>3, <3>4 DEF Restarted, Closed, Turn
    <3>6. stored' \in [unset : BOOLEAN, result : BOOLEAN]
      <4>1. s.violated \in BOOLEAN
        BY <3>2 DEF Sane, States
      <4>2. [unset |-> FALSE, result |-> s.violated] \in [unset : BOOLEAN, result : BOOLEAN]
        BY <4>1
      <4> QED
        BY <3>2, <4>2 DEF PathInv, Store
    <3> QED
      BY <2>3, <2>5, <3>3, <3>4, <3>5, <3>6 DEF PathInv, Sane, Ready, Turn, InstalledOK
  <2> QED
    BY <2>3, <2>4, <2>5
<1>2. CASE NextPath
  <2>1. /\ inv' = inv /\ now' = Initialized(inv) /\ stored' = stored
        /\ reached' = {} /\ decided' = FALSE
    BY <1>2 DEF NextPath
  <2>2. Sane(now') /\ Ready(now') /\ now'.choiceCount = 1 /\ Turn(now', inv)
    BY <2>1, InitializedReady DEF PathInv
  <2>3. /\ stored' \in [unset : BOOLEAN, result : BOOLEAN]
        /\ reached' \subseteq Nodes /\ decided' \in BOOLEAN /\ inv' \in Queries
    BY <2>1 DEF PathInv
  <2>4. ~Ended'
    BY <2>2 DEF Ended
  <2>5. Sane(now)' /\ Ready(now)' /\ Turn(now, inv)'
    BY <2>1, <2>2 DEF Sane, Ready, Turn, InstalledOK, OthersSettled, ReadyFor
  <2> QED
    BY <2>3, <2>4, <2>5 DEF PathInv
<1>3. CASE UNCHANGED vars
  BY <1>3 DEF vars, PathInv, Ended
<1> QED
  BY <1>1, <1>2, <1>3 DEF Next

LEMMA PathInvariant == Spec => []PathInv
<1>1. Init => PathInv
  BY PathInitial
<1>2. PathInv /\ [Next]_vars => PathInv'
  BY PathStepped
<1> QED
  BY <1>1, <1>2, PTL DEF Spec

\* The current connection exists, and each that does has its end points, a
\* destination and a protocol state, through every process, injection and part.
THEOREM PathTypeOK == Spec => []TypeOK
<1>1. PathInv => TypeOK
  <2> SUFFICES ASSUME PathInv
               PROVE  TypeOK
    OBVIOUS
  <2>1. Sane(now) /\ now \in States
    BY DEF PathInv, Sane
  <2>2. /\ now.conn \in 1 .. now.numConns /\ now.numConns \in Conns
        /\ now.process \in {"choose_conn", "forwarding", "openflow"}
        /\ {now.violated, now.failed} \subseteq BOOLEAN
        /\ \A n \in Nodes : now.installed[n] \in 0 .. Len(Updates[n])
    BY <2>1 DEF Sane, States, InstalledOK
  <2>3. ASSUME NEW i \in 1 .. now.numConns
        PROVE  LET c == now.conns[i]
               IN /\ c.executable \in 0 .. 2
                  /\ c.proto \in ProtoStates
                  /\ c.mode \in Modes
                  /\ c.dst \in Ecs /\ c.src \in Ecs \cup {NoEc}
                  /\ {c.srcNode, c.txNode, c.loc} \subseteq Nodes
                  /\ c.rxNode \in Nodes \cup {NoNode}
    <3>1. now.conns[i] \in ConnRecs /\ Sound(now.conns[i])
      BY <2>1, CurType DEF Sane
    <3> QED
      BY <3>1 DEF ConnRecs, Sound, AnyEc, AnyNode
  <2>4. /\ {decided, stored.unset, stored.result} \subseteq BOOLEAN
        /\ now.idx \in IF Correlated(inv) THEN DOMAIN inv.parts ELSE {1}
        /\ reached \subseteq Nodes
    BY DEF PathInv, Turn
  <2> QED
    BY <2>2, <2>3, <2>4 DEF TypeOK
<1> QED
  BY <1>1, PathInvariant, PTL

\* Whichever process ran last, the range SPIN chooses from is that of the
\* candidates, the injection results, or the connections the next step indexes.
THEOREM ChoiceInRangeHolds == Spec => []ChoiceInRange
<1>1. PathInv => ChoiceInRange
  <2> SUFFICES ASSUME PathInv, ~Ended
               PROVE  ChoiceInRange
    BY DEF ChoiceInRange
  <2>1. ReadyFor(now)
    BY DEF PathInv, Ended, Ready
  <2>2. CASE now.process = "choose_conn"
    BY <2>1, <2>2, Zenon DEF ReadyFor, ChoiceInRange
  <2>3. CASE now.process = "openflow"
    <3>1. now.choiceCount = 2 /\ HasUpdates(now, Cur(now).loc)
      BY <2>1, <2>3 DEF ReadyFor
    <3>2. now.choiceCount <= 2
      BY <3>1
    <3>3. now.process # "choose_conn" /\ now.process # "forwarding"
      BY <2>3
    <3> QED
      BY <2>3, <3>1, <3>2, <3>3, Zenon DEF ChoiceInRange
  <2>4. CASE now.process = "forwarding"
    <3>1. now.choiceCount = Offered(Cur(now))
      BY <2>1, <2>4 DEF ReadyFor
    <3>2. CASE Cur(now).mode \in {"FIRST_FORWARD", "FORWARD_PACKET"}
      <4>1. now.choiceCount = Len(Cur(now).candidates)
        BY <3>1, <3>2 DEF Offered, Outbound
      <4>2. Cur(now).mode # "CHOOSE_INJ_RES"
        BY <3>2
      <4>3. now.process # "choose_conn" /\ now.process # "openflow"
        BY <2>4
      <4> QED
        BY <2>4, <3>2, <4>1, <4>2, <4>3, Zenon DEF ChoiceInRange
    <3>3. CASE Cur(now).mode = "CHOOSE_INJ_RES"
      <4>1. now.choiceCount = Len(Cur(now).results)
        BY <3>1, <3>3 DEF Offered, Outbound
      <4>2. Cur(now).mode \notin {"FIRST_FORWARD", "FORWARD_PACKET"}
        BY <3>3
      <4>3. now.process # "choose_conn" /\ now.process # "openflow"
        BY <2>4
      <4> QED
        BY <2>4, <3>3, <4>1, <4>2, <4>3, Zenon DEF ChoiceInRange
    <3>4. CASE /\ Cur(now).mode \notin {"FIRST_FORWARD", "FORWARD_PACKET"}
               /\ Cur(now).mode # "CHOOSE_INJ_RES"
      <4>1. now.choiceCount = 1
        BY <3>1, <3>4 DEF Offered, Outbound
      <4>3. now.process # "choose_conn" /\ now.process # "openflow"
        BY <2>4
      <4> QED
        BY <2>4, <3>4, <4>1, <4>3, Zenon DEF ChoiceInRange
    <3> QED
      BY <3>2, <3>3, <3>4
  <2> QED
    BY <2>1, <2>2, <2>3, <2>4 DEF ReadyFor
<1> QED
  BY <1>1, PathInvariant, PTL

\* A packet is injected only when no other connection has one on its way, however
\* the processes took turns before.
THEOREM InjectWhenQuietHolds == Spec => []InjectWhenQuiet
<1>1. PathInv => InjectWhenQuiet
  <2> SUFFICES ASSUME PathInv, Injects(now), ~Ended
               PROVE  Quiet(now)
    BY DEF InjectWhenQuiet, Quiet
  <2>1. Sane(now) /\ ReadyFor(now)
    BY DEF PathInv, Ended, Ready
  <2>2. Sound(Cur(now))
    BY <2>1, CurType
  <2>3. AtMb(Cur(now)) /\ now.process = "forwarding"
    BY <2>2 DEF Injects, Sound, AtMb
  <2> QED
    BY <2>1, <2>3 DEF ReadyFor
<1> QED
  BY <1>1, PathInvariant, PTL

\* When no choice is left and the invariant has not decided, every connection has
\* been delivered or dropped, if the middleboxes' packets have a next hop.
THEOREM EndsWhenDoneHolds ==
  ASSUME Routed
  PROVE  Spec => []EndsWhenDone
<1>1. PathInv => EndsWhenDone
  BY DEF PathInv, EndsWhenDone
<1> QED
  BY <1>1, PathInvariant, PTL
-----------------------------------------------------------------------------
(* The parts of a correlated invariant                                     *)

LEMMA StepChecked ==
  ASSUME PathInv, Step
  PROVE  /\ ~Ended /\ ~now.failed /\ inv' = inv
         /\ \/ now'.failed /\ now'.choiceCount = 0 /\ now'.idx = now.idx
            \/ \E s : Checked(s)
<1>1. PICK stepped : Stepped(now, stepped) /\ ExecStep(stepped)
  BY StepStepped
<1>2. ~Ended /\ Ready(now)
  BY StepStepped
<1> QED
  BY <1>1, <1>2, ExecStepFacts DEF Ready

\* The part that was checked has ended with this verdict.
EndedWith(s, v) ==
  s.choiceCount = 0 /\ s.violated = v /\ ended' = ended \cup {<<now.idx, v>>}

\* The next part begins, or this was the last and the path ends.
WentOn ==
  \/ now.idx + 1 \in DOMAIN inv.parts /\ now'.idx = now.idx + 1 /\ now'.choiceCount = 1
  \/ /\ now.idx = Len(inv.parts) /\ now'.idx = now.idx
     /\ now'.choiceCount = 0 /\ now'.violated = FALSE

LEMMA NextPartWentOn ==
  ASSUME PathInv, Correlated(inv), NEW s, Checked(s), s.choiceCount = 0, now' = NextPart(s, inv)
  PROVE  WentOn
<1>1. Sane(s) /\ ~s.failed /\ s.idx = now.idx
  BY DEF Checked
<1>2. inv \in Queries /\ Turn(s, inv)
  BY <1>1 DEF PathInv, Turn
<1>3. Restarted(s, now', inv) \/ (s.idx = Len(inv.parts) /\ Closed(s, now', FALSE))
  BY <1>1, <1>2, NextPartFacts
<1> QED
  BY <1>1, <1>3 DEF Restarted, Closed, WentOn

LEMMA ConditionalSteps ==
  ASSUME PathInv, inv.kind = "conditional", NEW s, Checked(s)
  PROVE  \/ s.choiceCount # 0 /\ now' = s /\ ended' = ended
         \/ /\ EndedWith(s, TRUE) /\ now'.idx = now.idx
            /\ now'.choiceCount = 0 /\ (now'.violated <=> now.idx > 1)
         \/ EndedWith(s, FALSE) /\ WentOn
<1>1. /\ Sane(s) /\ ~s.failed /\ s.idx = now.idx /\ s.violated \in BOOLEAN
      /\ now' = CheckCorrelated(s, inv, stored) /\ Correlated(inv)
      /\ ended' = IF s.choiceCount = 0 THEN ended \cup {<<now.idx, s.violated>>} ELSE ended
  BY DEF Checked, Sane, States, Correlated
<1>2. now' = Conditional(s, inv)
  BY <1>1, Zenon DEF CheckCorrelated
<1>3. CASE s.choiceCount # 0
  BY <1>1, <1>2, <1>3 DEF Conditional
<1>4. CASE s.choiceCount = 0 /\ s.violated
  <2> DEFINE v == s.idx > 1
  <2>1. now' = Opinion(s, v) /\ v \in BOOLEAN
    BY <1>2, <1>4 DEF Conditional, Opinion
  <2>2. v <=> now.idx > 1
    BY <1>1
  <2> HIDE DEF v
  <2>3. now'.idx = s.idx /\ now'.choiceCount = s.choiceCount /\ now'.violated = v
    BY <1>1, <2>1, OpinionType
  <2>4. EndedWith(s, TRUE)
    BY <1>1, <1>4 DEF EndedWith
  <2>5. now'.violated <=> now.idx > 1
    BY <2>2, <2>3
  <2>6. now'.idx = now.idx /\ now'.choiceCount = 0
    BY <1>1, <1>4, <2>3
  <2> QED
    BY <2>4, <2>5, <2>6
<1>5. CASE s.choiceCount = 0 /\ ~s.violated
  <2>1. now' = NextPart(s, inv)
    BY <1>2, <1>5 DEF Conditional
  <2>2. WentOn
    BY <1>1, <1>5, <2>1, NextPartWentOn
  <2>3. EndedWith(s, FALSE)
    BY <1>1, <1>5 DEF EndedWith
  <2> QED
    BY <2>2, <2>3
<1> QED
  BY <1>3, <1>4, <1>5

\* Until the path ends, the parts before the current one did not hold.
ConditionalInv ==
  inv.kind = "conditional" /\ ~now.failed =>
    /\ ~Ended => ended = {<<j, FALSE>> : j \in 1 .. now.idx - 1}
    /\ ConditionalVerdict

LEMMA OnlyVerdict ==
  ASSUME NEW E, NEW i
  PROVE  /\ <<i, FALSE>> \in E /\ <<i, TRUE>> \notin E =>
              {v \in BOOLEAN : <<i, v>> \in E} = {FALSE}
         /\ <<i, TRUE>> \in E /\ <<i, FALSE>> \notin E =>
              {v \in BOOLEAN : <<i, v>> \in E} = {TRUE}
OBVIOUS

LEMMA VerdictIn ==
  ASSUME NEW i, NEW v \in BOOLEAN, <<i, v>> \in ended'
  PROVE  v \in Verdicts(i)'
BY DEF Verdicts

LEMMA ConditionalStepped ==
  ASSUME PathInv, ConditionalInv, [Next]_vars
  PROVE  ConditionalInv'
<1> SUFFICES ASSUME (inv.kind = "conditional")', ~now'.failed
             PROVE  /\ ~Ended' => ended' = {<<j, FALSE>> : j \in 1 .. now'.idx - 1}
                    /\ ConditionalVerdict'
  BY DEF ConditionalInv
<1>1. inv \in Queries /\ Turn(now, inv)
  BY DEF PathInv
<1>2. CASE Step
  <2>1. ~Ended /\ ~now.failed /\ inv' = inv /\ \E s : Checked(s)
    BY <1>2, StepChecked
  <2>2. inv.kind = "conditional" /\ Correlated(inv)
    BY <2>1 DEF Correlated
  <2>3. PICK s : Checked(s)
    BY <2>1
  <2> DEFINE k == now.idx
             n == Len(inv.parts)
  <2>4. n \in Nat \ {0} /\ DOMAIN inv.parts = 1 .. n /\ k \in 1 .. n
    BY <1>1, <2>2, PartsFacts DEF Turn
  <2>5. ended = {<<j, FALSE>> : j \in 1 .. k - 1}
    BY <2>1, <2>2 DEF ConditionalInv
  <2>6. \A x \in Nat : (<<x, FALSE>> \in ended <=> x \in 1 .. k - 1) /\ <<x, TRUE>> \notin ended
    BY <2>5
  <2>7. CASE s.choiceCount # 0 /\ now' = s /\ ended' = ended
    <3>1. ~Ended' /\ now'.idx = k
      BY <2>3, <2>7 DEF Ended, Checked
    <3>2. ended' = {<<j, FALSE>> : j \in 1 .. now'.idx - 1}
      BY <2>5, <2>7, <3>1
    <3> QED
      BY <3>1, <3>2 DEF ConditionalVerdict
  <2>8. CASE /\ EndedWith(s, TRUE) /\ now'.idx = now.idx
             /\ now'.choiceCount = 0 /\ (now'.violated <=> now.idx > 1)
    <3>1. ended' = ended \cup {<<k, TRUE>>} /\ now'.idx = k /\ Ended'
      BY <2>8 DEF EndedWith, Ended
    <3>2. \A x \in Nat : /\ <<x, FALSE>> \in ended' <=> x \in 1 .. k - 1
                         /\ <<x, TRUE>> \in ended' <=> x = k
      BY <2>6, <3>1
    <3>3. CASE k > 1
      <4>1. Verdicts(1)' = {FALSE}
        <5>0. 1 \in Nat /\ 1 \in 1 .. k - 1 /\ 1 # k
          BY <2>4, <3>3
        <5>1. <<1, FALSE>> \in ended' /\ <<1, TRUE>> \notin ended'
          BY <3>2, <5>0, Zenon
        <5> QED
          BY <5>1, OnlyVerdict DEF Verdicts
      <4>2. \E i \in 2 .. now'.idx : <<i, TRUE>> \in ended'
        <5>1. k \in 2 .. now'.idx /\ <<k, TRUE>> \in ended'
          BY <2>4, <3>1, <3>3
        <5> HIDE DEF k
        <5> QED
          BY <5>1
      <4>3. \E i \in 2 .. now'.idx : TRUE \in Verdicts(i)'
        BY <4>2, VerdictIn
      <4>4. now'.violated
        BY <2>8, <3>3
      <4> QED
        BY <3>1, <4>1, <4>3, <4>4 DEF ConditionalVerdict
    <3>4. CASE ~(k > 1)
      <4>1. k = 1
        BY <2>4, <3>4
      <4>2. Verdicts(1)' = {TRUE}
        <5>0. 1 \in Nat /\ 1 \notin 1 .. k - 1 /\ 1 = k
          BY <4>1
        <5>1. <<1, TRUE>> \in ended' /\ <<1, FALSE>> \notin ended'
          BY <3>2, <5>0, Zenon
        <5> QED
          BY <5>1, OnlyVerdict DEF Verdicts
      <4>3. ~now'.violated
        BY <2>8, <3>4
      <4> QED
        BY <3>1, <4>2, <4>3 DEF ConditionalVerdict
    <3> QED
      BY <3>3, <3>4
  <2>9. CASE EndedWith(s, FALSE) /\ WentOn
    <3>1. ended' = ended \cup {<<k, FALSE>>}
      BY <2>9 DEF EndedWith
    <3>2. ended' = {<<j, FALSE>> : j \in 1 .. k}
      <4>1. 1 .. k = (1 .. k - 1) \cup {k}
        BY <2>4
      <4> HIDE DEF k
      <4> QED
        BY <2>5, <3>1, <4>1
    <3>3. CASE now.idx + 1 \in DOMAIN inv.parts /\ now'.idx = now.idx + 1 /\ now'.choiceCount = 1
      <4>1. ~Ended'
        BY <3>3 DEF Ended
      <4>2. now'.idx - 1 = k
        BY <2>4, <3>3
      <4> QED
        BY <3>2, <4>1, <4>2 DEF ConditionalVerdict
    <3>4. CASE /\ now.idx = Len(inv.parts) /\ now'.idx = now.idx
               /\ now'.choiceCount = 0 /\ now'.violated = FALSE
      <4>1. k = n /\ Ended' /\ ~now'.violated
        BY <3>4 DEF Ended
      <4>2. \A i \in DOMAIN inv.parts : Verdicts(i)' = {FALSE}
        BY <2>4, <3>2, <4>1 DEF Verdicts
      <4> QED
        BY <2>1, <4>1, <4>2 DEF ConditionalVerdict
    <3> QED
      BY <2>9, <3>3, <3>4 DEF WentOn
  <2> QED
    BY <2>2, <2>3, <2>7, <2>8, <2>9, ConditionalSteps
<1>3. CASE NextPath
  <2>1. now' = Initialized(inv) /\ inv' = inv
    BY <1>3 DEF NextPath
  <2>2. now'.choiceCount = 1 /\ now'.idx = 1
    BY <1>1, <2>1, InitializedReady
  <2>3. ended' = {}
    BY <1>3, <2>1 DEF NextPath
  <2> QED
    BY <2>2, <2>3 DEF Ended, ConditionalVerdict
<1>4. CASE UNCHANGED vars
  BY <1>4 DEF vars, ConditionalInv, ConditionalVerdict, Ended, Verdicts
<1> QED
  BY <1>2, <1>3, <1>4 DEF Next

\* "invariant holds if the first sub-inv does not", "violated if any subsequent
\* sub-inv fails to hold", and no part is left out: the verdict of a path is that
\* of the verdicts of its parts.
THEOREM ConditionalVerdictHolds == Spec => []ConditionalVerdict
<1>1. Init => ConditionalInv
  <2> SUFFICES ASSUME Init
               PROVE  ConditionalInv
    OBVIOUS
  <2>1. now.choiceCount = 1 /\ now.idx = 1 /\ ended = {}
    BY InitializedReady DEF Init
  <2> QED
    BY <2>1 DEF ConditionalInv, ConditionalVerdict, Ended
<1>2. PathInv /\ ConditionalInv /\ [Next]_vars => ConditionalInv'
  BY ConditionalStepped
<1>3. ConditionalInv => ConditionalVerdict
  BY DEF ConditionalInv, ConditionalVerdict
<1> QED
  BY <1>1, <1>2, <1>3, PathInvariant, PTL DEF Spec

LEMMA ConsistencySteps ==
  ASSUME PathInv, inv.kind = "consistency", NEW s, Checked(s)
  PROVE  /\ s.violated \in BOOLEAN
         /\ \/ s.choiceCount # 0 /\ now' = s /\ ended' = ended /\ stored' = stored
            \/ /\ EndedWith(s, s.violated)
               /\ IF stored.unset THEN ~stored'.unset /\ stored'.result = s.violated
                                  ELSE stored' = stored
               /\ \/ /\ s.violated # stored'.result /\ now'.idx = now.idx
                     /\ now'.choiceCount = 0 /\ now'.violated = TRUE
                  \/ s.violated = stored'.result /\ WentOn
<1>1. /\ Sane(s) /\ ~s.failed /\ s.idx = now.idx /\ s.violated \in BOOLEAN
      /\ now' = CheckCorrelated(s, inv, stored) /\ Correlated(inv)
      /\ ended' = IF s.choiceCount = 0 THEN ended \cup {<<now.idx, s.violated>>} ELSE ended
      /\ stored' = Store(s, stored)
  BY DEF Checked, Sane, States, Correlated
<1>2. now' = Consistency(s, inv, stored')
  BY <1>1, Zenon DEF CheckCorrelated
<1>3. s.violated \in BOOLEAN
  BY <1>1
<1>4. CASE s.choiceCount # 0
  BY <1>1, <1>2, <1>4 DEF Consistency, Store
<1>5. CASE s.choiceCount = 0
  <2>1. EndedWith(s, s.violated)
    BY <1>1, <1>5 DEF EndedWith
  <2>2. IF stored.unset THEN ~stored'.unset /\ stored'.result = s.violated
                        ELSE stored' = stored
    BY <1>1, <1>5 DEF Store
  <2>3. CASE s.violated # stored'.result
    <3>1. now' = Opinion(s, TRUE) /\ TRUE \in BOOLEAN
      BY <1>2, <1>5, <2>3 DEF Consistency, Opinion
    <3>2. Sane(s) /\ ~s.failed /\ s.idx = now.idx
      BY <1>1
    <3>3. now'.idx = s.idx /\ now'.choiceCount = s.choiceCount /\ now'.violated = TRUE
      BY <3>1, <3>2, OpinionType
    <3>4. now'.idx = now.idx /\ now'.choiceCount = 0 /\ now'.violated = TRUE
      BY <1>5, <3>2, <3>3
    <3> QED
      BY <1>3, <2>1, <2>2, <2>3, <3>4
  <2>4. CASE s.violated = stored'.result
    <3>1. now' = NextPart(s, inv)
      BY <1>2, <1>5, <2>4 DEF Consistency
    <3>2. WentOn
      BY <1>1, <1>5, <3>1, NextPartWentOn
    <3> QED
      BY <1>1, <2>1, <2>2, <2>4, <3>2
  <2> QED
    BY <2>3, <2>4
<1> QED
  BY <1>4, <1>5

\* The parts that have ended, on this path and those before, have the stored result.
Agree ==
  /\ stored.result => \A j \in DOMAIN inv.parts : <<j, FALSE>> \notin ended
  /\ ~stored.result => \A j \in DOMAIN inv.parts : <<j, TRUE>> \notin ended

HasVerdict(j) == <<j, TRUE>> \in ended \/ <<j, FALSE>> \in ended

ConsistencyInv ==
  inv.kind = "consistency" /\ ~now.failed =>
    /\ ended \subseteq (DOMAIN inv.parts) \X BOOLEAN
    /\ stored.unset <=> ended = {}
    /\ (Ended /\ now.violated) \/ Agree
    /\ ~Ended => \A j \in 1 .. now.idx - 1 : HasVerdict(j)
    /\ ConsistencyVerdict

LEMMA VerdictsUnion ==
  ASSUME NEW D, NEW E
  PROVE  UNION {{v \in BOOLEAN : <<i, v>> \in E} : i \in D} = BOOLEAN <=>
           (\E i \in D : <<i, TRUE>> \in E) /\ (\E i \in D : <<i, FALSE>> \in E)
<1> DEFINE V(i) == {v \in BOOLEAN : <<i, v>> \in E}
           U == UNION {V(i) : i \in D}
<1>1. TRUE \in BOOLEAN /\ FALSE \in BOOLEAN /\ \A v \in BOOLEAN : v = TRUE \/ v = FALSE
  OBVIOUS
<1>2. \A v : v \in U <=> \E i \in D : v \in V(i)
  OBVIOUS
<1>3. \A i, v : v \in V(i) <=> v \in BOOLEAN /\ <<i, v>> \in E
  BY Zenon
<1> HIDE DEF V, U
<1>4. TRUE \in U <=> \E i \in D : <<i, TRUE>> \in E
  BY <1>1, <1>2, <1>3, Zenon
<1>5. FALSE \in U <=> \E i \in D : <<i, FALSE>> \in E
  BY <1>1, <1>2, <1>3, Zenon
<1>6. U \subseteq BOOLEAN
  BY <1>2, <1>3, Zenon
<1>7. U = BOOLEAN <=> TRUE \in U /\ FALSE \in U
  BY <1>1, <1>6, Zenon
<1> QED
  BY <1>4, <1>5, <1>7 DEF U, V

\* What decides the verdict of a path that has ended.
LEMMA MixedVerdict ==
  ASSUME now'.violated = TRUE,
         \E i \in DOMAIN inv'.parts : <<i, TRUE>> \in ended',
         \E i \in DOMAIN inv'.parts : <<i, FALSE>> \in ended'
  PROVE  ConsistencyVerdict'
<1>1. UNION {{v \in BOOLEAN : <<i, v>> \in ended'} : i \in DOMAIN inv'.parts} = BOOLEAN
  <2> DEFINE D == DOMAIN inv'.parts
             E == ended'
  <2>1. (\E i \in D : <<i, TRUE>> \in E) /\ (\E i \in D : <<i, FALSE>> \in E)
    OBVIOUS
  <2> HIDE DEF D, E
  <2>2. UNION {{v \in BOOLEAN : <<i, v>> \in E} : i \in D} = BOOLEAN <=>
           (\E i \in D : <<i, TRUE>> \in E) /\ (\E i \in D : <<i, FALSE>> \in E)
    BY VerdictsUnion, Zenon
  <2>3. UNION {{v \in BOOLEAN : <<i, v>> \in E} : i \in D} = BOOLEAN
    BY <2>1, <2>2, Zenon
  <2> QED
    BY <2>3 DEF D, E
<1>2. (UNION {Verdicts(i) : i \in DOMAIN inv.parts} = BOOLEAN)'
  BY <1>1 DEF Verdicts
<1>3. (now.violated = (UNION {Verdicts(i) : i \in DOMAIN inv.parts} = BOOLEAN))'
  BY <1>2, Zenon
<1>4. (now.violated)'
  OBVIOUS
<1> QED
  BY <1>3, <1>4, Zenon DEF ConsistencyVerdict

LEMMA SameVerdict ==
  ASSUME now'.violated = FALSE, Agree', stored'.result \in BOOLEAN,
         \A j \in DOMAIN inv'.parts : HasVerdict(j)'
  PROVE  ConsistencyVerdict'
<1>1. UNION {{v \in BOOLEAN : <<i, v>> \in ended'} : i \in DOMAIN inv'.parts} # BOOLEAN
  BY VerdictsUnion DEF Agree
<1>2. (UNION {Verdicts(i) : i \in DOMAIN inv.parts} # BOOLEAN)'
  BY <1>1 DEF Verdicts
<1>3. (\A i \in DOMAIN inv.parts : Verdicts(i) # {})'
  BY VerdictIn DEF HasVerdict
<1> QED
  BY <1>2, <1>3 DEF ConsistencyVerdict

LEMMA ConsistencyStepped ==
  ASSUME PathInv, ConsistencyInv, [Next]_vars
  PROVE  ConsistencyInv'
<1> SUFFICES ASSUME (inv.kind = "consistency")', ~now'.failed
             PROVE  /\ ended' \subseteq (DOMAIN inv'.parts) \X BOOLEAN
                    /\ stored'.unset <=> ended' = {}
                    /\ (Ended' /\ now'.violated) \/ Agree'
                    /\ ~Ended' => \A j \in 1 .. now'.idx - 1 : HasVerdict(j)'
                    /\ ConsistencyVerdict'
  BY DEF ConsistencyInv
<1>1. inv \in Queries /\ Turn(now, inv) /\ stored \in [unset : BOOLEAN, result : BOOLEAN]
  BY DEF PathInv
<1>2. CASE Step
  <2>1. ~Ended /\ ~now.failed /\ inv' = inv /\ \E s : Checked(s)
    BY <1>2, StepChecked DEF Ended
  <2>2. inv.kind = "consistency" /\ Correlated(inv)
    BY <2>1 DEF Correlated
  <2>3. PICK s : Checked(s)
    BY <2>1
  <2> DEFINE k == now.idx
             n == Len(inv.parts)
             D == DOMAIN inv.parts
  <2>4. n \in Nat \ {0} /\ D = 1 .. n /\ k \in 1 .. n
    BY <1>1, <2>2, PartsFacts DEF Turn
  <2>5. /\ ended \subseteq D \X BOOLEAN
        /\ stored.unset <=> ended = {}
        /\ Agree
        /\ \A j \in 1 .. k - 1 : HasVerdict(j)
    BY <2>1, <2>2 DEF ConsistencyInv
  <2>6. CASE s.choiceCount # 0 /\ now' = s /\ ended' = ended /\ stored' = stored
    <3>1. ~Ended' /\ now'.idx = k
      BY <2>3, <2>6 DEF Ended, Checked
    <3>2. Agree' /\ \A j \in 1 .. now'.idx - 1 : HasVerdict(j)'
      BY <2>1, <2>5, <2>6, <3>1 DEF Agree, HasVerdict
    <3> QED
      BY <2>1, <2>5, <2>6, <3>1, <3>2 DEF ConsistencyVerdict
  <2>7. CASE /\ EndedWith(s, s.violated)
             /\ IF stored.unset THEN ~stored'.unset /\ stored'.result = s.violated
                                ELSE stored' = stored
             /\ \/ /\ s.violated # stored'.result /\ now'.idx = now.idx
                   /\ now'.choiceCount = 0 /\ now'.violated = TRUE
                \/ s.violated = stored'.result /\ WentOn
    <3> DEFINE v == s.violated
    <3>1. ended' = ended \cup {<<k, v>>} /\ v \in BOOLEAN /\ <<k, v>> \in ended'
      BY <2>2, <2>3, <2>7, ConsistencySteps DEF EndedWith
    <3>2. ended' \subseteq D \X BOOLEAN /\ ended' # {} /\ ~stored'.unset
      <4>1. k \in D
        BY <2>4
      <4>2. <<k, v>> \in D \X BOOLEAN
        BY <3>1, <4>1
      <4>3. ended' \subseteq D \X BOOLEAN /\ ended' # {}
        BY <2>5, <3>1, <4>2
      <4>4. ~stored'.unset
        BY <2>7
      <4> QED
        BY <4>3, <4>4
    <3>3. stored'.result \in BOOLEAN
      BY <1>1, <2>7, <3>1
    <3>4. CASE /\ v # stored'.result /\ now'.idx = now.idx
               /\ now'.choiceCount = 0 /\ now'.violated = TRUE
      <4>1. stored' = stored /\ ended # {}
        BY <2>5, <2>7, <3>4
      <4>2. PICK j \in D, w \in BOOLEAN : <<j, w>> \in ended
        BY <2>5, <4>1
      <4>3. w = stored.result
        <5>1. stored.result \in BOOLEAN /\ Agree
          BY <1>1, <2>5
        <5>2. CASE w = TRUE
          <6>1. <<j, TRUE>> \in ended
            BY <4>2, <5>2
          <6>2. stored.result
            BY <5>1, <6>1 DEF Agree
          <6> QED
            BY <5>1, <5>2, <6>2
        <5>3. CASE w = FALSE
          <6>1. <<j, FALSE>> \in ended
            BY <4>2, <5>3
          <6>2. ~stored.result
            BY <5>1, <6>1 DEF Agree
          <6> QED
            BY <5>1, <5>3, <6>2
        <5> QED
          BY <4>2, <5>2, <5>3
      <4>4. w # v /\ w \in BOOLEAN /\ <<j, w>> \in ended'
        BY <3>1, <3>4, <4>1, <4>2, <4>3
      <4>5. /\ \E i \in D : <<i, TRUE>> \in ended'
            /\ \E i \in D : <<i, FALSE>> \in ended'
        <5>1. k \in D
          BY <2>4
        <5>2. CASE v = TRUE
          <6>1. <<k, TRUE>> \in ended'
            BY <3>1, <5>2
          <6>2. w = FALSE
            BY <4>4, <5>2
          <6>3. <<j, FALSE>> \in ended'
            BY <4>4, <6>2
          <6> QED
            BY <4>2, <5>1, <6>1, <6>3
        <5>3. CASE v = FALSE
          <6>1. <<k, FALSE>> \in ended'
            BY <3>1, <5>3
          <6>2. w = TRUE
            BY <4>4, <5>3
          <6>3. <<j, TRUE>> \in ended'
            BY <4>4, <6>2
          <6> QED
            BY <4>2, <5>1, <6>1, <6>3
        <5> QED
          BY <3>1, <5>2, <5>3
      <4>6. ConsistencyVerdict'
        BY <2>1, <3>4, <4>5, MixedVerdict
      <4>7. Ended' /\ now'.violated
        BY <3>4 DEF Ended
      <4> QED
        BY <2>1, <3>2, <4>6, <4>7
    <3>5. CASE v = stored'.result /\ WentOn
      <4>1. stored.unset => \A e \in ended : FALSE
        BY <2>5
      <4>2. \A j \in D : <<j, v>> \in ended' \/ TRUE
        OBVIOUS
      <4>3. Agree'
        <5>1. CASE v = TRUE
          <6>1. \A j \in D : <<j, FALSE>> \notin ended
            BY <2>5, <2>7, <3>5, <5>1 DEF Agree
          <6>2. \A j \in D : <<j, FALSE>> \notin ended'
            BY <3>1, <5>1, <6>1
          <6> QED
            BY <2>1, <3>5, <5>1, <6>2 DEF Agree
        <5>2. CASE v = FALSE
          <6>1. \A j \in D : <<j, TRUE>> \notin ended
            BY <2>5, <2>7, <3>5, <5>2 DEF Agree
          <6>2. \A j \in D : <<j, TRUE>> \notin ended'
            BY <3>1, <5>2, <6>1
          <6> QED
            BY <2>1, <3>5, <5>2, <6>2 DEF Agree
        <5> QED
          BY <3>1, <5>1, <5>2
      <4>4. ASSUME NEW j \in 1 .. k
            PROVE  HasVerdict(j)'
        <5>1. CASE j = k
          <6>1. <<j, v>> \in ended'
            BY <3>1, <5>1
          <6>2. v = TRUE \/ v = FALSE
            BY <3>1
          <6> QED
            BY <6>1, <6>2 DEF HasVerdict
        <5>2. CASE j # k
          <6>1. j \in 1 .. k - 1
            BY <2>4, <5>2
          <6> QED
            BY <2>5, <3>1, <6>1 DEF HasVerdict
        <5> QED
          BY <5>1, <5>2
      <4>5. CASE now.idx + 1 \in DOMAIN inv.parts /\ now'.idx = now.idx + 1 /\ now'.choiceCount = 1
        <5>1. ~Ended' /\ now'.idx - 1 = k
          BY <2>4, <4>5 DEF Ended
        <5> QED
          BY <2>1, <3>2, <4>3, <4>4, <5>1 DEF ConsistencyVerdict
      <4>6. CASE /\ now.idx = Len(inv.parts) /\ now'.idx = now.idx
                 /\ now'.choiceCount = 0 /\ now'.violated = FALSE
        <5>1. k = n /\ Ended'
          BY <4>6 DEF Ended
        <5>2. \A j \in DOMAIN inv'.parts : HasVerdict(j)'
          BY <2>1, <2>4, <4>4, <5>1
        <5>3. ConsistencyVerdict'
          BY <3>3, <4>3, <4>6, <5>2, SameVerdict
        <5> QED
          BY <2>1, <3>2, <4>3, <5>1, <5>3
      <4> QED
        BY <3>5, <4>5, <4>6 DEF WentOn
    <3> QED
      BY <2>7, <3>4, <3>5
  <2> QED
    BY <2>2, <2>3, <2>6, <2>7, ConsistencySteps
<1>3. CASE NextPath
  <2>1. /\ now' = Initialized(inv) /\ inv' = inv /\ stored' = stored
        /\ now.choiceCount = 0 /\ ~now.violated /\ ~now.failed
    BY <1>3 DEF NextPath
  <2>2. now'.choiceCount = 1 /\ now'.idx = 1
    BY <1>1, <2>1, InitializedReady
  <2>3. inv.kind = "consistency" /\ ended' = ended
    BY <1>3, <2>1 DEF NextPath
  <2>4. /\ ended \subseteq (DOMAIN inv.parts) \X BOOLEAN
        /\ stored.unset <=> ended = {}
        /\ Agree
    BY <2>1, <2>3 DEF ConsistencyInv
  <2>5. Agree'
    BY <2>1, <2>3, <2>4 DEF Agree
  <2> QED
    BY <2>1, <2>2, <2>3, <2>4, <2>5 DEF Ended, ConsistencyVerdict
<1>4. CASE UNCHANGED vars
  <2>1. now' = now /\ inv' = inv /\ stored' = stored /\ ended' = ended
    BY <1>4 DEF vars
  <2>2. /\ ended \subseteq (DOMAIN inv.parts) \X BOOLEAN
        /\ stored.unset <=> ended = {}
        /\ (Ended /\ now.violated) \/ Agree
        /\ ~Ended => \A j \in 1 .. now.idx - 1 : HasVerdict(j)
        /\ ConsistencyVerdict
    BY <2>1 DEF ConsistencyInv
  <2>3. Ended' <=> Ended
    BY <2>1 DEF Ended
  <2>4. Agree' <=> Agree
    BY <2>1 DEF Agree
  <2>5. \A j : HasVerdict(j)' <=> HasVerdict(j)
    BY <2>1 DEF HasVerdict
  <2>6. \A j : Verdicts(j)' = Verdicts(j)
    BY <2>1 DEF Verdicts
  <2>7. ConsistencyVerdict'
    BY <2>1, <2>2, <2>3, <2>6 DEF ConsistencyVerdict
  <2> QED
    BY <2>1, <2>2, <2>3, <2>4, <2>5, <2>7
<1> QED
  BY <1>2, <1>3, <1>4 DEF Next

\* "true if all sub-invariants have the same result", on this path and on those
\* before it: a violation is reported exactly when two verdicts differ, and no part
\* is left out of a path that ends without one.
THEOREM ConsistencyVerdictHolds == Spec => []ConsistencyVerdict
<1>1. Init => ConsistencyInv
  <2> SUFFICES ASSUME Init
               PROVE  ConsistencyInv
    OBVIOUS
  <2>1. now.choiceCount = 1 /\ now.idx = 1 /\ ended = {} /\ stored.unset
    BY InitializedReady DEF Init
  <2> QED
    BY <2>1 DEF ConsistencyInv, ConsistencyVerdict, Ended, Agree
<1>2. PathInv /\ ConsistencyInv /\ [Next]_vars => ConsistencyInv'
  BY ConsistencyStepped
<1>3. ConsistencyInv => ConsistencyVerdict
  BY DEF ConsistencyInv, ConsistencyVerdict
<1> QED
  BY <1>1, <1>2, <1>3, PathInvariant, PTL DEF Spec
-----------------------------------------------------------------------------
(* A part starts from the state it would start from alone                  *)

\* Connection::init leaves the hops a loop invariant has noted, so that one that is
\* not the first part does not start as it would alone.
NoLoopParts ==
  \A i \in Queries : Correlated(i) => \A k \in DOMAIN i.parts : i.parts[k].kind # "loop"

\* The parts of a correlated invariant leave nothing behind that is not initialized.
PartsInv ==
  Correlated(inv) => /\ now.reachCounts = [n \in Nodes |-> 0]
                     /\ \A i \in Conns : now.conns[i].visited = {}

LEMMA PartNotLoop ==
  ASSUME NoLoopParts, PathInv, Correlated(inv)
  PROVE  Part(now, inv).kind # "loop" /\ ~MultiConn(Part(now, inv))
<1>1. inv \in Queries /\ now.idx \in DOMAIN inv.parts
  BY DEF PathInv, Turn
<1> QED
  BY <1>1, PartsFacts DEF NoLoopParts, Part

LEMMA PartsStepped ==
  ASSUME NoLoopParts, PathInv, PartsInv, [Next]_vars, ~now'.failed
  PROVE  PartsInv'
<1> SUFFICES ASSUME Correlated(inv)'
             PROVE  /\ now'.reachCounts = [n \in Nodes |-> 0]
                    /\ \A i \in Conns : now'.conns[i].visited = {}
  BY DEF PartsInv
<1>1. CASE Step
  <2>1. inv' = inv /\ \E s : Checked(s)
    BY <1>1, StepChecked
  <2>2. Correlated(inv) /\ inv \in Queries
    BY <2>1 DEF Correlated, PathInv
  <2>3. PICK s : Checked(s)
    BY <2>1
  <2>4. /\ Sane(s) /\ ~s.failed /\ (s.choiceCount # 0 => Ready(s)) /\ s.idx = now.idx
        /\ s.reachCounts = now.reachCounts
        /\ \A i \in Conns : s.conns[i].visited = now.conns[i].visited
        /\ now' = CheckCorrelated(s, inv, stored)
    BY <2>2, <2>3, PartNotLoop DEF Checked
  <2>5. Turn(s, inv)
    BY <2>4 DEF PathInv, Turn
  <2>6. /\ now'.reachCounts = s.reachCounts
        /\ \A i \in Conns : now'.conns[i].visited = s.conns[i].visited
    BY <2>2, <2>4, <2>5, CheckCorrelatedFacts
  <2> QED
    BY <2>2, <2>4, <2>6 DEF PartsInv
<1>2. CASE NextPath
  <2>1. now' = Initialized(inv) /\ inv \in Queries
    BY <1>2 DEF NextPath, PathInv
  <2> QED
    BY <2>1, InitializedReady
<1>3. CASE UNCHANGED vars
  <2>1. now' = now /\ inv' = inv
    BY <1>3 DEF vars
  <2> QED
    BY <2>1 DEF PartsInv, Correlated
<1> QED
  BY <1>1, <1>2, <1>3 DEF Next

FromAlone(a, j, t) ==
  [a EXCEPT !.idx = j,
            !.conns = [i \in Conns |-> IF i <= a.numConns THEN @[i] ELSE t.conns[i]]]

Blank(z) ==
  /\ z.reachCounts = [n \in Nodes |-> 0] /\ z.failed = FALSE
  /\ \A k \in Conns : z.conns[k].visited = {}

LEMMA StartedAfresh ==
  ASSUME NEW z, Blank(z),
         NEW specs, NEW v, NEW j \in Nat,
         NEW t, t = BegunState(z, specs, v, j), NEW a, a = BegunState(Zeroed, specs, v, 1)
  PROVE  t = FromAlone(a, j, t)
<1> DEFINE n == Len(specs)
           zero == [m \in Nodes |-> 0]
           f == [k \in Conns |-> IF k <= n THEN BegunConn(specs[k], z.conns[k].visited)
                                 ELSE z.conns[k]]
           g == [k \in Conns |-> IF k <= n
                                 THEN BegunConn(specs[k], Zeroed.conns[k].visited)
                                 ELSE Zeroed.conns[k]]
           p == "forwarding"
           b == FALSE
           one == 1
           h == [i \in Conns |-> IF i <= a.numConns THEN a.conns[i] ELSE t.conns[i]]
<1>1. t = [conns |-> f, conn |-> one, numConns |-> n, process |-> p,
           choiceCount |-> one, installed |-> zero, violated |-> v, idx |-> j,
           reachCounts |-> zero, failed |-> b]
  BY DEF BegunState, Blank
<1>2. a = [conns |-> g, conn |-> one, numConns |-> n, process |-> p,
           choiceCount |-> one, installed |-> zero, violated |-> v, idx |-> one,
           reachCounts |-> zero, failed |-> b]
  <2>1. Zeroed.failed = FALSE
    BY DEF Zeroed
  <2> QED
    BY <2>1, ZeroedType DEF BegunState
<1>3. h = f
  <2>1. a.conns = g /\ t.conns = f /\ a.numConns = n
    BY <1>1, <1>2
  <2>2. \A k \in Conns : z.conns[k].visited = Zeroed.conns[k].visited
    BY ZeroedType DEF Blank
  <2>3. \A k \in Conns : k <= n => g[k] = f[k]
    BY <2>2
  <2>4. h = [i \in Conns |-> IF i <= n THEN g[i] ELSE f[i]]
    BY <2>1
  <2> HIDE DEF h, g
  <2>5. h = [i \in Conns |-> f[i]]
    BY <2>3, <2>4
  <2> QED
    BY <2>5
<1>4. FromAlone(a, j, t) = [[a EXCEPT !.idx = j] EXCEPT !.conns = h]
  BY DEF FromAlone
<1> HIDE DEF f, g, h, n, zero, p, b, one
<1>5. [a EXCEPT !.idx = j] =
        [conns |-> g, conn |-> one, numConns |-> n, process |-> p,
         choiceCount |-> one, installed |-> zero, violated |-> v, idx |-> j,
         reachCounts |-> zero, failed |-> b]
  BY <1>2
<1>6. [[conns |-> g, conn |-> one, numConns |-> n, process |-> p,
        choiceCount |-> one, installed |-> zero, violated |-> v, idx |-> j,
        reachCounts |-> zero, failed |-> b] EXCEPT !.conns = h] =
        [conns |-> h, conn |-> one, numConns |-> n, process |-> p,
         choiceCount |-> one, installed |-> zero, violated |-> v, idx |-> j,
         reachCounts |-> zero, failed |-> b]
  OBVIOUS
<1> QED
  BY <1>1, <1>3, <1>4, <1>5, <1>6

LEMMA FailedStops ==
  ASSUME PathInv, now.failed, [Next]_vars
  PROVE  UNCHANGED vars
<1>1. ~Step
  BY StepChecked
<1>2. ~NextPath
  BY DEF NextPath
<1> QED
  BY <1>1, <1>2 DEF Next

LEMMA PartAfresh ==
  ASSUME PathInv, PartsInv, NoLoopParts, [Next]_vars
  PROVE  PartStartsAfresh
<1> SUFFICES ASSUME now'.idx > now.idx
             PROVE  LET alone == Initialized(inv.parts[now'.idx])
                    IN now' = [alone EXCEPT
                                 !.idx = now'.idx,
                                 !.conns = [i \in Conns |-> IF i <= alone.numConns THEN @[i]
                                                            ELSE now'.conns[i]]]
  BY DEF PartStartsAfresh
<1>1. now.idx \in Nat \ {0} /\ inv \in Queries /\ Turn(now, inv)
  <2>1. inv \in Queries /\ Turn(now, inv)
    BY DEF PathInv
  <2>2. CASE Correlated(inv)
    <3>1. now.idx \in 1 .. Len(inv.parts) /\ Len(inv.parts) \in Nat
      BY <2>1, <2>2, PartsFacts DEF Turn
    <3> QED
      BY <2>1, <3>1
  <2>3. CASE ~Correlated(inv)
    BY <2>1, <2>3 DEF Turn
  <2> QED
    BY <2>2, <2>3
<1>2. Step
  <2>1. ~NextPath
    <3>1. NextPath => now'.idx = 1
      BY <1>1, InitializedReady DEF NextPath
    <3> QED
      BY <1>1, <3>1
  <2>2. ~UNCHANGED vars
    BY <1>1 DEF vars
  <2> QED
    BY <2>1, <2>2 DEF Next
<1>3. inv' = inv /\ (now'.idx = now.idx \/ \E s : Checked(s))
  BY <1>2, StepChecked
<1>4. PICK s : Checked(s)
  BY <1>1, <1>3
<1>5. /\ Sane(s) /\ s \in States /\ ~s.failed /\ (s.choiceCount # 0 => Ready(s))
      /\ s.idx = now.idx /\ Turn(s, inv) /\ now' = CheckCorrelated(s, inv, stored)
  BY <1>1, <1>4 DEF Checked, Turn, Sane
<1>6. Correlated(inv) /\ Restarted(s, now', inv)
  <2>1. \/ now' = s
        \/ Correlated(inv) /\ Restarted(s, now', inv)
        \/ \E v \in BOOLEAN : Closed(s, now', v)
    BY <1>1, <1>5, CheckCorrelatedFacts
  <2> QED
    BY <1>1, <1>5, <2>1 DEF Closed
<1> DEFINE z == Cleared(Next1(s))
           j == s.idx + 1
           p == inv.parts[j]
           a == Initialized(p)
           specs == p.conns
           v == InitialVerdict(p)
<1>7. /\ j \in DOMAIN inv.parts /\ j \in Nat /\ now'.idx = j
      /\ now' = BegunState(z, specs, v, j)
  BY <1>1, <1>5, <1>6 DEF Restarted
<1>8. ~Correlated(p)
  BY <1>1, <1>6, <1>7, PartsFacts DEF Checkable
<1>9. a = BegunState(Zeroed, specs, v, 1)
  <2>1. Part(Zeroed, p) = p
    BY <1>8 DEF Part
  <2> HIDE DEF p
  <2> QED
    BY <2>1, InitializedStarted
<1>10. Blank(z)
  <2>1. /\ s.reachCounts = now.reachCounts
        /\ \A i \in Conns : s.conns[i].visited = now.conns[i].visited
    BY <1>4, <1>6, PartNotLoop DEF Checked
  <2>2. z.conns = s.conns /\ z.reachCounts = s.reachCounts /\ z.failed = s.failed
    BY <1>5, ClearedType
  <2>3. s.failed = FALSE
    BY <1>5 DEF States
  <2> QED
    BY <1>6, <2>1, <2>2, <2>3 DEF PartsInv, Blank
<1>11. now'.idx = j /\ a = Initialized(inv.parts[now'.idx])
  BY <1>7
<1> DEFINE t == now'
<1>12. t = BegunState(z, specs, v, j)
  BY <1>7
<1> HIDE DEF z, j, p, a, specs, v, t
<1>13. j \in Nat
  BY <1>7
<1>14. t = FromAlone(a, j, t)
  BY <1>9, <1>10, <1>12, <1>13, StartedAfresh
<1> QED
  BY <1>11, <1>14, Zenon DEF t, FromAlone

\* A part of a correlated invariant starts from the state it would start from alone:
\* nothing of the parts before it is left, if no part is a loop invariant.
THEOREM PartsStartAfreshHolds ==
  ASSUME NoLoopParts
  PROVE  Spec => PartsStartAfresh
<1> DEFINE Kept == ~now.failed => PartsInv
<1>1. Init => Kept
  BY InitializedReady DEF Init, PartsInv
<1>2. PathInv /\ Kept /\ [Next]_vars => Kept'
  <2> SUFFICES ASSUME PathInv, Kept, [Next]_vars, ~now'.failed
               PROVE  PartsInv'
    OBVIOUS
  <2>1. CASE now.failed
    <3>1. UNCHANGED vars
      BY <2>1, FailedStops
    <3> QED
      BY <2>1, <3>1 DEF vars
  <2>2. CASE ~now.failed
    BY <2>2, PartsStepped
  <2> QED
    BY <2>1, <2>2
<1>3. PathInv /\ Kept /\ [Next]_vars => [PartStartsAfresh]_vars
  BY FailedStops, PartAfresh
<1> QED
  BY <1>1, <1>2, <1>3, PathInvariant, PTL DEF Spec, PartsStartAfresh
-----------------------------------------------------------------------------
(* Steps that keep the FIBs                                                *)

\* A connection whose FIB, if it has a destination, is one its nodes have had for it; and
\* a state of such connections.
Snapshot(s, c) ==
  c.dst \in Ecs =>
    \A n \in Nodes : \E k \in 0 .. s.installed[n] : c.fib[n] = HopsWith(n, k, c.dst)

Snapshots(s) == \A i \in Conns : Snapshot(s, s.conns[i])

SameFib(c, d) == d.dst = c.dst /\ d.fib = c.fib

LEMMA SnapshotNow ==
  ASSUME NEW s \in States, NEW c, c.fib = FibFor(s, c.dst)
  PROVE  Snapshot(s, c)
<1> SUFFICES ASSUME NEW n \in Nodes
             PROVE  \E k \in 0 .. s.installed[n] : c.fib[n] = HopsWith(n, k, c.dst)
  BY DEF Snapshot
<1>1. s.installed[n] \in Nat
  BY DEF States
<1>2. s.installed[n] \in 0 .. s.installed[n]
  BY <1>1
<1>3. c.fib[n] = HopsWith(n, s.installed[n], c.dst)
  BY DEF FibFor
<1> QED
  BY <1>2, <1>3

LEMMA SnapshotKept ==
  ASSUME NEW s, NEW t, NEW c, NEW d, Snapshot(s, c), SameFib(c, d), t.installed = s.installed
  PROVE  Snapshot(t, d)
BY DEF Snapshot, SameFib

LEMMA SnapshotsKept ==
  ASSUME NEW s, NEW t, Snapshots(s), t.installed = s.installed, t.conns = s.conns
  PROVE  Snapshots(t)
BY DEF Snapshots, Snapshot

\* One connection changes.
LEMMA SnapshotsPut ==
  ASSUME NEW s, s.conns \in [Conns -> ConnRecs], Snapshots(s), NEW i \in Conns, NEW d,
         SameFib(s.conns[i], d) \/ Snapshot(s, d),
         NEW t, t.installed = s.installed, t.conns = [s.conns EXCEPT ![i] = d]
  PROVE  Snapshots(t)
<1> SUFFICES ASSUME NEW j \in Conns
             PROVE  Snapshot(t, t.conns[j])
  BY DEF Snapshots
<1>1. Snapshot(s, s.conns[j])
  BY DEF Snapshots
<1>2. CASE j # i
  <2>1. t.conns[j] = s.conns[j]
    BY <1>2
  <2> QED
    BY <1>1, <2>1 DEF Snapshot
<1>3. CASE j = i
  <2>1. t.conns[j] = d
    BY <1>3
  <2>2. Snapshot(s, d)
    BY <1>1, <1>3, SnapshotKept
  <2> QED
    BY <2>1, <2>2 DEF Snapshot
<1> QED
  BY <1>2, <1>3

LEMMA SetCurSnapshots ==
  ASSUME NEW s \in States, Snapshots(s), NEW d, SameFib(Cur(s), d) \/ Snapshot(s, d), NEW n
  PROVE  Snapshots(SetCur(s, d)) /\ Snapshots([SetCur(s, d) EXCEPT !.choiceCount = n])
<1> DEFINE t == SetCur(s, d)
           u == [t EXCEPT !.choiceCount = n]
<1>1. s.conns \in [Conns -> ConnRecs] /\ s.conn \in Conns
  BY DEF States
<1>2. /\ t.installed = s.installed /\ t.conns = [s.conns EXCEPT ![s.conn] = d]
      /\ u.installed = s.installed /\ u.conns = [s.conns EXCEPT ![s.conn] = d]
  BY DEF States, SetCur
<1> HIDE DEF t, u
<1>3. Snapshots(t) /\ Snapshots(u)
  BY <1>1, <1>2, SnapshotsPut DEF Cur
<1> QED
  BY <1>3 DEF t, u

LEMMA FailSnapshots ==
  ASSUME NEW s \in States, Snapshots(s)
  PROVE  Snapshots(Fail(s))
<1>1. Fail(s).installed = s.installed /\ Fail(s).conns = s.conns
  BY DEF States, Fail
<1> QED
  BY <1>1, SnapshotsKept

LEMMA SameFibs ==
  ASSUME NEW c \in ConnRecs
  PROVE  /\ SameFib(c, c)
         /\ \A m, e : SameFib(c, Stopped(c, m, e))
         /\ \A x, m : SameFib(c, Collected(c, x, m)) /\ SameFib(c, Injected(c, x, m))
         /\ \A m : SameFib(c, InMode(c, m))
         /\ \A x : SameFib(c, Remembered(c, x)) /\ SameFib(c, Addressed(c, x))
         /\ \A e, m, x : SameFib(c, Reached(c, e, m, x))
         /\ SameFib(c, Frozen(c))
<1>1. /\ SameFib(c, c)
      /\ \A m, e : SameFib(c, Stopped(c, m, e))
      /\ \A x, m : SameFib(c, Collected(c, x, m))
  BY DEF ConnRecs, SameFib, Stopped, Collected
<1>2. /\ \A x, m : SameFib(c, Injected(c, x, m))
      /\ \A m : SameFib(c, InMode(c, m))
      /\ \A x : SameFib(c, Remembered(c, x))
  BY DEF ConnRecs, SameFib, Injected, InMode, Remembered
<1>3. /\ \A x : SameFib(c, Addressed(c, x))
      /\ \A e, m, x : SameFib(c, Reached(c, e, m, x))
      /\ SameFib(c, Frozen(c))
  BY DEF ConnRecs, SameFib, Addressed, Reached, Frozen
<1> QED
  BY <1>1, <1>2, <1>3

LEMMA DeliveredFib ==
  ASSUME NEW c \in ConnRecs, NEW r, NEW hop, NEW e
  PROVE  SameFib(c, Delivered(c, r)) /\ SameFib(c, Moved(c, hop, e, r))
BY DEF ConnRecs, SameFib, Delivered, Moved
-----------------------------------------------------------------------------
(* FIBs: choosing a connection, and forwarding                             *)

LEMMA ChosenSnapshots ==
  ASSUME NEW s \in States, Snapshots(s), NEW i \in Conns, NEW t, NEW n,
         \/ t = [s EXCEPT !.conn = i]
         \/ t = [s EXCEPT !.conn = i, !.conns[i].executable = 2]
         \/ t = [s EXCEPT !.conn = i, !.conns[i].mode = "DROPPED"]
  PROVE  Snapshots([t EXCEPT !.choiceCount = n])
<1> DEFINE x == [s.conns[i] EXCEPT !.executable = 2]
           y == [s.conns[i] EXCEPT !.mode = "DROPPED"]
           u == [t EXCEPT !.choiceCount = n]
<1>1. s.conns \in [Conns -> ConnRecs] /\ s.conns[i] \in ConnRecs
  BY DEF States
<1>2. SameFib(s.conns[i], s.conns[i]) /\ SameFib(s.conns[i], x) /\ SameFib(s.conns[i], y)
  BY <1>1 DEF ConnRecs, SameFib
<1>3. u.installed = s.installed
  BY DEF States
<1>4. \/ u.conns = s.conns
      \/ u.conns = [s.conns EXCEPT ![i] = x]
      \/ u.conns = [s.conns EXCEPT ![i] = y]
  BY DEF States
<1> HIDE DEF x, y, u
<1>5. u.conns = s.conns => Snapshots(u)
  BY <1>3, SnapshotsKept
<1>6. u.conns = [s.conns EXCEPT ![i] = x] => Snapshots(u)
  BY <1>1, <1>2, <1>3, SnapshotsPut
<1>7. u.conns = [s.conns EXCEPT ![i] = y] => Snapshots(u)
  BY <1>1, <1>2, <1>3, SnapshotsPut
<1> QED
  BY <1>4, <1>5, <1>6, <1>7 DEF u

LEMMA CollectSnapshots ==
  ASSUME NEW s \in States, Snapshots(s), NEW results
  PROVE  Snapshots(CollectNextHops(s, results))
<1> DEFINE c == Cur(s)
           cands == CandidatesFor(c)
<1>1. c \in ConnRecs
  BY DEF States, Cur
<1>2. \/ CollectNextHops(s, results) =
           [SetCur(s, Injected(c, results, "CHOOSE_INJ_RES"))
              EXCEPT !.choiceCount = Len(results)]
      \/ CollectNextHops(s, results) = SetCur(s, Stopped(c, "DROPPED", 0))
      \/ CollectNextHops(s, results) =
           [SetCur(s, Collected(c, cands, "FORWARD_PACKET")) EXCEPT !.choiceCount = Len(cands)]
  BY Zenon DEF CollectNextHops, InjectPacket, DropCur, Injected, Stopped, Collected
<1>3. /\ SameFib(c, Injected(c, results, "CHOOSE_INJ_RES"))
      /\ SameFib(c, Stopped(c, "DROPPED", 0))
      /\ SameFib(c, Collected(c, cands, "FORWARD_PACKET"))
  BY <1>1, SameFibs
<1> DEFINE x == Injected(c, results, "CHOOSE_INJ_RES")
           y == Stopped(c, "DROPPED", 0)
           z == Collected(c, cands, "FORWARD_PACKET")
<1>4. SameFib(c, x) /\ SameFib(c, y) /\ SameFib(c, z)
  BY <1>3
<1>5. \/ CollectNextHops(s, results) = [SetCur(s, x) EXCEPT !.choiceCount = Len(results)]
      \/ CollectNextHops(s, results) = SetCur(s, y)
      \/ CollectNextHops(s, results) = [SetCur(s, z) EXCEPT !.choiceCount = Len(cands)]
  BY <1>2
<1> HIDE DEF cands, x, y, z
<1>6. Snapshots([SetCur(s, x) EXCEPT !.choiceCount = Len(results)])
  BY <1>4, SetCurSnapshots
<1>7. Snapshots(SetCur(s, y))
  BY <1>4, SetCurSnapshots
<1>8. Snapshots([SetCur(s, z) EXCEPT !.choiceCount = Len(cands)])
  BY <1>4, SetCurSnapshots
<1> QED
  BY <1>5, <1>6, <1>7, <1>8

LEMMA FirstCollectSnapshots ==
  ASSUME NEW s, Sane(s), Ready(s), s.process = "forwarding",
         Cur(s).mode = "FIRST_COLLECT", NEW results, Snapshots(s)
  PROVE  Snapshots(FirstCollect(s, results))
<1> DEFINE c == Cur(s)
           cands == CandidatesFor(c)
           d == IF cands = <<>> THEN Stopped(c, "DROPPED", 0)
                ELSE Collected(c, cands, "FORWARD_PACKET")
           t == IF cands = <<>> THEN SetCur(s, d)
                ELSE [SetCur(s, d) EXCEPT !.choiceCount = Len(cands)]
           f == InMode(Cur(t), "FIRST_FORWARD")
<1>1. c \in ConnRecs /\ Sound(c) /\ c.loc \notin Emulated /\ s \in States
  BY ForwardingReady DEF Sound
<1>2. cands \in Seq(Nodes) /\ Len(cands) \in Nat
  BY <1>1, CandidatesType DEF Sound
<1>3. FirstCollect(s, results) = SetCur(t, f) /\ t = CollectNextHops(s, results)
  <2> HIDE DEF cands
  <2> QED
    BY <1>1 DEF FirstCollect, CollectNextHops, DropCur, Stopped, Collected, InMode, cands
<1>4. d \in ConnRecs /\ d.visited = c.visited
  <2> HIDE DEF cands, c
  <2>1. CASE cands = <<>>
    BY <1>1, <2>1, ModesType, StoppedType DEF SameFlow
  <2>2. CASE cands # <<>>
    BY <1>1, <1>2, <2>2, ModesType, CollectedType DEF SameFlow
  <2> QED
    BY <2>1, <2>2
<1> HIDE DEF d, cands
<1>5. t \in States /\ Cur(t) \in ConnRecs
  <2>1. Changed(s, t, d)
    BY <1>1, <1>2, <1>4, SetBothChanged, SetCurChanged
  <2> QED
    BY <1>4, <2>1 DEF Changed
<1>6. Snapshots(t)
  BY <1>1, <1>3, CollectSnapshots
<1> HIDE DEF t
<1>7. SameFib(Cur(t), f)
  BY <1>5, SameFibs
<1> HIDE DEF f
<1> QED
  BY <1>3, <1>5, <1>6, <1>7, SetCurSnapshots

LEMMA ForwardSnapshots ==
  ASSUME NEW s \in States, Snapshots(s), Cur(s).dst \in Ecs, Cur(s).loc \in Nodes,
         NEW choice \in 0 .. Len(Cur(s).candidates) - 1
  PROVE  Snapshots(ForwardPacket(s, choice))
<1> DEFINE c == Cur(s)
           hop == c.candidates[choice + 1]
           multipath == Len(c.candidates) > 1
           ch == [ec |-> c.dst, node |-> c.loc, hop |-> hop]
           d == IF multipath THEN Remembered(c, c.choices \cup {ch}) ELSE c
           r == IF IsFirst(d.proto) THEN d.loc ELSE d.rxNode
           e == IF hop \in Emulated THEN 1 ELSE d.executable
           q == IF hop \in Emulated /\ IsFirst(d.proto) THEN hop ELSE d.rxNode
           x == Delivered(d, r)
           y == Moved(d, hop, e, q)
<1>1. c \in ConnRecs
  BY DEF States, Cur
<1>2. ForwardPacket(s, choice) =
        IF multipath /\ PastChoices(c) # {} THEN Fail(s)
        ELSE IF hop = c.loc THEN [SetCur(s, x) EXCEPT !.choiceCount = 1]
        ELSE [SetCur(s, y) EXCEPT !.choiceCount = 1]
  BY DEF ForwardPacket, Deliver, MoveTo, Delivered, Moved, Remembered
<1>3. hop \in Nodes
  <2>1. c.candidates \in Seq(Nodes)
    BY <1>1 DEF ConnRecs
  <2>2. choice + 1 \in 1 .. Len(c.candidates)
    BY <2>1
  <2> QED
    BY <2>1, <2>2
<1> HIDE DEF hop, multipath
<1>4. d \in ConnRecs /\ SameFib(c, d)
  <2>1. CASE multipath
    <3>1. ch \in [ec : Ecs, node : Nodes, hop : Nodes]
      BY <1>3
    <3> HIDE DEF ch, c
    <3> QED
      BY <1>1, <2>1, <3>1, RememberedType, SameFibs
  <2>2. CASE ~multipath
    BY <1>1, <2>2, SameFibs
  <2> QED
    BY <2>1, <2>2
<1> HIDE DEF d
<1>5. SameFib(d, x) /\ SameFib(d, y)
  <2> HIDE DEF r, e, q
  <2> QED
    BY <1>4, DeliveredFib
<1> HIDE DEF x, y
<1>6. SameFib(c, x) /\ SameFib(c, y)
  BY <1>4, <1>5 DEF SameFib
<1>7. Snapshots([SetCur(s, x) EXCEPT !.choiceCount = 1])
  BY <1>6, SetCurSnapshots
<1>8. Snapshots([SetCur(s, y) EXCEPT !.choiceCount = 1])
  BY <1>6, SetCurSnapshots
<1> HIDE DEF c
<1> QED
  BY <1>2, <1>7, <1>8, FailSnapshots

LEMMA FirstForwardSnapshots ==
  ASSUME NEW s, Sane(s), Ready(s), s.process = "forwarding", Snapshots(s),
         Cur(s).mode = "FIRST_FORWARD", NEW choice \in 0 .. s.choiceCount - 1
  PROVE  Snapshots(FirstForward(s, choice))
<1> DEFINE c == Cur(s)
           a == IF IsFirst(c.proto) /\ c.src = NoEc THEN EcOf[c.loc] ELSE c.src
           d == Addressed(c, a)
           t == SetCur(s, d)
<1>1. /\ c \in ConnRecs /\ Sound(c) /\ s \in States /\ s.choiceCount = Len(c.candidates)
  BY ForwardingReady DEF Offered, Outbound
<1>2. FirstForward(s, choice) = ForwardPacket(t, choice)
  BY DEF FirstForward, Addressed
<1> HIDE DEF c
<1>3. a \in AnyEc
  BY <1>1, ModelStateAssumption DEF Sound, ConnRecs, AnyEc
<1> HIDE DEF a
<1>4. d \in ConnRecs
  BY <1>1, <1>3 DEF ConnRecs, Addressed
<1>5. /\ d.dst = c.dst /\ d.loc = c.loc /\ d.visited = c.visited
      /\ d.candidates = c.candidates /\ SameFib(c, d)
  BY <1>1 DEF ConnRecs, Addressed, SameFib
<1> HIDE DEF d
<1>6. t \in States /\ Cur(t) = d
  <2>1. Changed(s, t, d)
    BY <1>1, <1>4, <1>5, SetCurChanged DEF c
  <2> QED
    BY <2>1 DEF Changed
<1>7. Snapshots(t)
  BY <1>1, <1>5, SetCurSnapshots DEF c
<1>8. Cur(t).dst \in Ecs /\ Cur(t).loc \in Nodes /\ choice \in 0 .. Len(Cur(t).candidates) - 1
  BY <1>1, <1>5, <1>6 DEF Sound
<1> HIDE DEF t
<1>9. Snapshots(ForwardPacket(t, choice))
  BY <1>6, <1>7, <1>8, ForwardSnapshots
<1> QED
  BY <1>2, <1>9 DEF t

LEMMA PhaseSnapshots ==
  ASSUME NEW s \in States, Snapshots(s), NEW next, NEW change \in BOOLEAN
  PROVE  Snapshots(PhaseTransition(s, next, change))
<1> DEFINE c == Cur(s)
           t == PhaseTransition(s, next, change)
           source == IF change THEN c.loc ELSE c.srcNode
           seqs == IF ~(c.proto \in TcpStates) THEN <<c.seq, c.ack>>
                   ELSE IF change THEN <<c.ack, SeqAfter(c)>>
                   ELSE <<SeqAfter(c), c.ack>>
           new(x) == [x EXCEPT !.proto = next, !.mode = "FIRST_COLLECT",
                               !.seq = seqs[1], !.ack = seqs[2], !.payload = PayloadOf(next),
                               !.candidates = <<>>, !.results = <<>>]
           x == [c EXCEPT !.src = c.dst, !.dst = c.src, !.srcNode = c.loc,
                          !.ports = <<c.ports[2], c.ports[1]>>, !.fib = FibFor(s, c.src)]
           y == [c EXCEPT !.loc = c.srcNode]
<1>1. c \in ConnRecs
  BY DEF States, Cur
<1>2. t = IF source \in Emulated THEN SetCur(s, Frozen(c))
          ELSE SetCur(s, new(IF change THEN x ELSE y))
  <2> HIDE DEF c
  <2> QED
    BY DEF PhaseTransition, Frozen, c
<1> HIDE DEF seqs, t, source
<1>3. SameFib(c, Frozen(c))
  BY <1>1, SameFibs
<1>4. Snapshot(s, new(x))
  <2> DEFINE z == new(x)
  <2>1. z.dst = c.src /\ z.fib = FibFor(s, c.src)
    BY <1>1 DEF ConnRecs
  <2> HIDE DEF z, new
  <2>2. Snapshot(s, z)
    BY <2>1, SnapshotNow
  <2> QED
    BY <2>2 DEF z
<1>5. SameFib(c, new(y))
  BY <1>1 DEF ConnRecs, SameFib
<1> HIDE DEF new, x, y
<1>6. Snapshots(SetCur(s, Frozen(c)))
  BY <1>3, SetCurSnapshots
<1>7. Snapshots(SetCur(s, new(x)))
  BY <1>4, SetCurSnapshots
<1>8. Snapshots(SetCur(s, new(y)))
  BY <1>5, SetCurSnapshots
<1> HIDE DEF c
<1>9. Snapshots(t)
  BY <1>2, <1>6, <1>7, <1>8
<1> QED
  BY <1>9 DEF t

LEMMA AcceptedSnapshots ==
  ASSUME NEW s \in States, Snapshots(s)
  PROVE  Snapshots(Accepted(s))
<1> DEFINE c == Cur(s)
           same == c.proto \in {3, 5} \/ (c.proto = 7 /\ c.loc \in Emulated)
<1>1. c \in ConnRecs
  BY DEF States, Cur
<1>2. CASE IsLast(c.proto)
  <2>1. Accepted(s) = SetCur(s, Frozen(c))
    BY <1>2 DEF Accepted, Frozen
  <2>2. SameFib(c, Frozen(c))
    BY <1>1, SameFibs
  <2> QED
    BY <2>1, <2>2, SetCurSnapshots
<1>3. CASE ~IsLast(c.proto)
  <2>1. (~same) \in BOOLEAN
    OBVIOUS
  <2>2. Accepted(s) = PhaseTransition(s, c.proto + 1, ~same)
    BY <1>3 DEF Accepted
  <2> HIDE DEF same
  <2> QED
    BY <2>1, <2>2, PhaseSnapshots
<1> QED
  BY <1>2, <1>3
-----------------------------------------------------------------------------
(* FIBs: an injection result                                               *)

LEMMA ReceiveSnapshots ==
  ASSUME NEW s, Sane(s), Snapshots(s), NEW mb, NEW p \in Packets
  PROVE  Snapshots(Receive(s, mb, p))
<1> DEFINE t == Receive(s, mb, p)
           i == IdentifyConn(s, p)
           st == StateOf(s, p)
           old == s.conns[i]
           hop == GetIpnh[p.intf][p.dst]
           fib == IF old.dst = p.dst THEN old.fib ELSE FibFor(s, p.dst)
           cands == IF hop = NoNode THEN <<>> ELSE <<hop>>
           c == Labelled(old, st, p.src, p.dst, p.ports, p.seq, p.ack, p.payload, fib, cands)
           d == IF i > s.numConns THEN Started(c, mb) ELSE Continued(old, c, p, mb)
<1>1. s \in States /\ s.numConns \in Conns /\ s.conns \in [Conns -> ConnRecs]
  BY DEF Sane, States
<1>2. CASE t = Fail(s)
  BY <1>1, <1>2, FailSnapshots
<1>3. CASE t # Fail(s)
  <2>1. i <= MaxConns /\ st # Bad
    <3>1. ~(i > MaxConns) /\ st # Bad
      BY <1>3, Zenon DEF Receive
    <3>2. i \in 1 .. s.numConns + 1 /\ s.numConns \in Nat
      <4>1. s.numConns \in Nat
        BY <1>1 DEF Conns
      <4> QED
        BY <1>1, <4>1, IdentifyType
    <3> HIDE DEF i, st
    <3> QED
      BY <3>1, <3>2, ModelStateAssumption
  <2>2. i \in Conns
    <3>1. s.numConns \in Nat
      BY <1>1 DEF Conns
    <3>2. i \in 1 .. s.numConns + 1
      BY <1>1, <3>1, IdentifyType
    <3> HIDE DEF i
    <3> QED
      BY <2>1, <3>1, <3>2, ModelStateAssumption DEF Conns
  <2>3. t = IF i > s.numConns THEN [s EXCEPT !.numConns = i, !.conns[i] = Started(c, mb)]
            ELSE [s EXCEPT !.conns[i] = Continued(old, c, p, mb)]
    BY <1>3, <2>1 DEF Receive, Labelled
  <2>4. old \in ConnRecs
    BY <1>1, <2>2
  <2> HIDE DEF t, i, st, hop, cands, fib
  <2>5. t.installed = s.installed /\ t.conns = [s.conns EXCEPT ![i] = d]
    <3>1. CASE i > s.numConns
      <4> DEFINE x == Started(c, mb)
      <4>1. t = [s EXCEPT !.numConns = i, !.conns[i] = x] /\ d = x
        BY <2>3, <3>1
      <4> HIDE DEF x, d
      <4> QED
        BY <1>1, <4>1 DEF States
    <3>2. CASE ~(i > s.numConns)
      <4> DEFINE x == Continued(old, c, p, mb)
      <4>1. t = [s EXCEPT !.conns[i] = x] /\ d = x
        BY <2>3, <3>2
      <4> HIDE DEF x, d
      <4> QED
        BY <1>1, <4>1 DEF States
    <3> QED
      BY <3>1, <3>2
  <2>6. c.dst = p.dst /\ c.fib = fib /\ DOMAIN c = DOMAIN old
    <3> HIDE DEF old
    <3> QED
      BY <2>4 DEF ConnRecs, Labelled
  <2>7. SameFib(c, d)
    <3>1. {"dst", "fib"} \subseteq DOMAIN c
      <4> HIDE DEF old, c
      <4> QED
        BY <2>4, <2>6 DEF ConnRecs
    <3> HIDE DEF c, old
    <3>2. SameFib(c, Started(c, mb))
      BY <3>1 DEF Started, SameFib
    <3>3. SameFib(c, Continued(old, c, p, mb))
      BY <3>1 DEF Continued, SameFib
    <3> QED
      BY <3>2, <3>3
  <2> HIDE DEF c, d
  <2>8. SameFib(old, d) \/ Snapshot(s, d)
    <3>1. CASE old.dst = p.dst
      BY <2>6, <2>7, <3>1 DEF SameFib, fib
    <3>2. CASE old.dst # p.dst
      <4>1. d.fib = FibFor(s, d.dst)
        BY <2>6, <2>7, <3>2 DEF SameFib, fib
      <4> QED
        BY <1>1, <4>1, SnapshotNow
    <3> QED
      BY <3>1, <3>2
  <2>9. Snapshots(t)
    BY <1>1, <2>2, <2>5, <2>8, SnapshotsPut DEF old
  <2> QED
    BY <2>9 DEF t
<1> QED
  BY <1>2, <1>3

\* What some of the packets of a result have made of the state s, with FIBs the nodes
\* have had.
ReceivedSnapshots(s) == {u \in ReceivedFrom(s) : Snapshots(u.state)}

LEMMA ReceiveOneSnapshots ==
  ASSUME NEW s, Sane(s), NEW mb \in Nodes, NEW u \in ReceivedSnapshots(s), NEW p \in Packets
  PROVE  ReceiveOne(mb, u, p) \in ReceivedSnapshots(s)
<1> DEFINE x == ReceiveOne(mb, u, p)
           t == Receive(u.state, mb, p)
<1>1. u \in ReceivedFrom(s) /\ Snapshots(u.state) /\ Sane(u.state)
  BY DEF ReceivedSnapshots, ReceivedFrom
<1>2. x \in ReceivedFrom(s)
  BY <1>1, ReceiveOneType
<1>3. x = u \/ x.state = t
  BY DEF ReceiveOne
<1>4. Snapshots(t)
  BY <1>1, ReceiveSnapshots
<1> HIDE DEF x, t
<1>5. x \in ReceivedSnapshots(s)
  BY <1>1, <1>2, <1>3, <1>4 DEF ReceivedSnapshots
<1> QED
  BY <1>5 DEF x

LEMMA ConcludedSnapshots ==
  ASSUME NEW s, NEW t \in States, Snapshots(t), NEW dropped, NEW updated
  PROVE  Snapshots(Concluded(s, dropped, t, updated))
<1> DEFINE c == Cur(t)
           x == Stopped(c, "DROPPED", 0)
           y == Reached(c, 2, "FORWARD_PACKET", <<Cur(s).loc>>)
           n == Len(c.candidates)
           v == Concluded(s, dropped, t, updated)
           w == [t EXCEPT !.choiceCount = n]
<1>1. c \in ConnRecs
  BY DEF States, Cur
<1>2. v = w \/ v = SetCur(t, x) \/ v = [SetCur(t, y) EXCEPT !.choiceCount = 1]
  BY Zenon DEF Concluded, DropCur, Stopped, Reached
<1>3. SameFib(c, x) /\ SameFib(c, y)
  BY <1>1, SameFibs
<1>4. w.conns = t.conns /\ w.installed = t.installed
  BY DEF States
<1> HIDE DEF v, w, x, y
<1>5. Snapshots(w)
  BY <1>4, SnapshotsKept
<1>6. Snapshots(SetCur(t, x))
  BY <1>3, SetCurSnapshots
<1>7. Snapshots([SetCur(t, y) EXCEPT !.choiceCount = 1])
  BY <1>3, SetCurSnapshots
<1> QED
  BY <1>2, <1>5, <1>6, <1>7 DEF v

LEMMA ApplyResultSnapshots ==
  ASSUME NEW s, Sane(s), Ready(s), s.process = "forwarding", Cur(s).mode = "CHOOSE_INJ_RES",
         NEW choice \in 0 .. s.choiceCount - 1, Snapshots(s)
  PROVE  Snapshots(ChooseInjectionResults(s, choice))
<1> DEFINE c == Cur(s)
           mb == c.loc
           result == c.results[choice + 1]
           pkts == result.pkts
           S == ReceivedSnapshots(s)
           a == [state |-> s, updated |-> {}]
           u == ReceiveAll(s, mb, pkts)
<1>1. /\ c \in ConnRecs /\ Sound(c) /\ ~s.failed /\ s.choiceCount = Len(c.results)
      /\ s \in States
  BY ForwardingReady DEF Offered, Outbound
<1>2. pkts \in Seq(Packets)
  <2>1. c.results \in Seq(Results)
    BY <1>1 DEF ConnRecs
  <2>2. choice + 1 \in 1 .. Len(c.results)
    BY <1>1, <2>1
  <2>3. result \in Results
    BY <2>1, <2>2
  <2> HIDE DEF result
  <2> QED
    BY <2>3 DEF Results
<1>3. mb \in Nodes
  BY <1>1 DEF Sound
<1>4. ChooseInjectionResults(s, choice) =
        IF (result.dropped /\ pkts # <<>>) \/ u.state.failed THEN Fail(s)
        ELSE Concluded(s, result.dropped, u.state, u.updated)
  BY DEF ChooseInjectionResults, ApplyResult
<1>5. a \in S
  <2>1. s \in States /\ Keeps(s, s) /\ s.numConns \in Nat
    BY DEF Sane, Keeps, Conns
  <2>2. a \in [state : States, updated : SUBSET Nat] /\ a.state = s /\ a.updated = {}
    BY <2>1
  <2> HIDE DEF a
  <2> QED
    BY <2>1, <2>2 DEF ReceivedSnapshots, ReceivedFrom
<1> HIDE DEF mb, result, pkts, c
<1>6. \A v \in S, p \in Packets : ReceiveOne(mb, v, p) \in S
  BY <1>3, ReceiveOneSnapshots
<1>7. u \in S
  <2>1. a = [state |-> s, updated |-> {}]
    OBVIOUS
  <2> HIDE DEF a, S
  <2> QED
    BY <1>2, <1>5, <1>6, <2>1, ReceiveAllIn
<1>8. u.state \in States /\ Snapshots(u.state)
  <2> HIDE DEF u
  <2> QED
    BY <1>7 DEF ReceivedSnapshots, ReceivedFrom
<1> HIDE DEF u
<1>9. Snapshots(Concluded(s, result.dropped, u.state, u.updated))
  BY <1>8, ConcludedSnapshots
<1> QED
  BY <1>1, <1>4, <1>9, FailSnapshots

LEMMA ForwardingSnapshots ==
  ASSUME NEW s, Sane(s), Ready(s), s.process = "forwarding", Snapshots(s),
         NEW choice \in 0 .. s.choiceCount - 1, NEW results
  PROVE  Snapshots(ForwardingStep(s, choice, results))
<1> DEFINE t == ForwardingStep(s, choice, results)
           c == Cur(s)
<1>1. s \in States /\ c \in ConnRecs /\ Sound(c) /\ s.choiceCount = Offered(c)
  BY ForwardingReady
<1>2. CASE c.mode = "FIRST_COLLECT" /\ t = FirstCollect(s, results)
  BY <1>2, FirstCollectSnapshots
<1>3. CASE c.mode = "FIRST_FORWARD" /\ t = FirstForward(s, choice)
  BY <1>3, FirstForwardSnapshots
<1>4. CASE c.mode = "COLLECT_NHOPS" /\ t = CollectNextHops(s, results)
  BY <1>1, <1>4, CollectSnapshots
<1>5. CASE c.mode = "CHOOSE_INJ_RES" /\ t = ChooseInjectionResults(s, choice)
  BY <1>5, ApplyResultSnapshots
<1>6. CASE c.mode = "FORWARD_PACKET" /\ t = ForwardPacket(s, choice)
  <2>1. choice \in 0 .. Len(c.candidates) - 1 /\ c.dst \in Ecs /\ c.loc \in Nodes
    BY <1>1, <1>6 DEF Offered, Outbound, Sound
  <2> QED
    BY <1>1, <1>6, <2>1, ForwardSnapshots
<1>7. CASE c.mode = "ACCEPTED" /\ t = Accepted(s)
  BY <1>1, <1>7, AcceptedSnapshots
<1>8. CASE c.mode = "DROPPED" /\ t = SetCur(s, Frozen(c))
  <2>1. SameFib(c, Frozen(c))
    BY <1>1, SameFibs
  <2> QED
    BY <1>1, <1>8, <2>1, SetCurSnapshots
<1> HIDE DEF t
<1> QED
  BY <1>2, <1>3, <1>4, <1>5, <1>6, <1>7, <1>8, ModeCases DEF t
-----------------------------------------------------------------------------
(* FIBs: a step of the path                                                *)

LEMMA ChooseConnSnapshots ==
  ASSUME NEW s, Sane(s), Ready(s), s.process = "choose_conn", Snapshots(s),
         NEW choice \in 0 .. s.choiceCount - 1
  PROVE  Snapshots(ChooseConnStep(s, choice))
<1> DEFINE m(x) == ConnMap(s, x)
           t == Chosen(s, choice)
           n == IF Cur(t).mode \in {"FORWARD_PACKET", "FIRST_FORWARD"}
                THEN Len(Cur(t).candidates) ELSE 1
           v == ChooseConnStep(s, choice)
<1>1. s \in States /\ s.numConns \in Nat /\ s.conns \in [Conns -> ConnRecs]
      /\ s.choiceCount = UpdateChoiceCount(s).choiceCount
  BY CurType DEF Sane, Conns, States, Ready, ReadyFor
<1>2. ASSUME NEW x, NEW k \in 1 .. Len(m(x))
      PROVE  m(x)[k] \in Conns
  <2>1. m(x)[k] \in 1 .. s.numConns
    BY <1>1, ConnMapFacts DEF Mapped
  <2> QED
    BY <2>1, CurType
<1>3. \A x : Len(m(x)) \in Nat /\ (m(x) # <<>> => 1 \in 1 .. Len(m(x)))
  <2> SUFFICES ASSUME NEW x
               PROVE  Len(m(x)) \in Nat /\ (m(x) # <<>> => 1 \in 1 .. Len(m(x)))
    OBVIOUS
  <2> DEFINE l == m(x)
  <2>1. l \in Seq(Mapped(s, x))
    BY <1>1, ConnMapFacts
  <2> HIDE DEF l
  <2>2. Len(l) \in Nat /\ (l # <<>> => 1 \in 1 .. Len(l))
    BY <2>1
  <2> QED
    BY <2>2 DEF l
<1>4. v = IF \A x \in 0 .. 2 : m(x) = <<>> THEN Fail(s) ELSE [t EXCEPT !.choiceCount = n]
  BY DEF ChooseConnStep
<1>5. t = IF m(2) # <<>> THEN [s EXCEPT !.conn = m(2)[1]]
          ELSE IF m(1) # <<>>
            THEN [s EXCEPT !.conn = m(1)[choice + 1], !.conns[m(1)[choice + 1]].executable = 2]
          ELSE [s EXCEPT !.conn = m(0)[1], !.conns[m(0)[1]].mode = "DROPPED"]
  BY DEF Chosen
<1>6. m(2) = <<>> /\ m(1) # <<>> => s.choiceCount = Len(m(1))
  BY <1>1 DEF UpdateChoiceCount, States
<1>7. m(2) = <<>> /\ m(1) # <<>> => choice + 1 \in 1 .. Len(m(1))
  BY <1>3, <1>6
<1>8. \A x \in 0 .. 2 : x = 0 \/ x = 1 \/ x = 2
  OBVIOUS
<1> HIDE DEF m, t, n, v
<1>9. CASE \A x \in 0 .. 2 : m(x) = <<>>
  <2>1. v = Fail(s)
    BY <1>4, <1>9
  <2> QED
    BY <1>1, <2>1, FailSnapshots DEF v
<1>10. CASE ~\A x \in 0 .. 2 : m(x) = <<>>
  <2>1. v = [t EXCEPT !.choiceCount = n]
    BY <1>4, <1>10
  <2>2. CASE m(2) # <<>>
    <3> DEFINE i == m(2)[1]
    <3>1. t = [s EXCEPT !.conn = i] /\ i \in Conns
      BY <1>2, <1>3, <1>5, <2>2
    <3> HIDE DEF i
    <3>2. Snapshots([t EXCEPT !.choiceCount = n])
      BY <1>1, <3>1, ChosenSnapshots
    <3> QED
      BY <2>1, <3>2 DEF v
  <2>3. CASE m(2) = <<>> /\ m(1) # <<>>
    <3> DEFINE i == m(1)[choice + 1]
    <3>1. t = [s EXCEPT !.conn = i, !.conns[i].executable = 2] /\ i \in Conns
      BY <1>2, <1>5, <1>7, <2>3
    <3> HIDE DEF i
    <3>2. Snapshots([t EXCEPT !.choiceCount = n])
      BY <1>1, <3>1, ChosenSnapshots
    <3> QED
      BY <2>1, <3>2 DEF v
  <2>4. CASE m(2) = <<>> /\ m(1) = <<>>
    <3> DEFINE i == m(0)[1]
    <3>1. m(0) # <<>>
      BY <1>8, <1>10, <2>4
    <3>2. t = [s EXCEPT !.conn = i, !.conns[i].mode = "DROPPED"] /\ i \in Conns
      BY <1>2, <1>3, <1>5, <2>4, <3>1
    <3> HIDE DEF i
    <3>3. Snapshots([t EXCEPT !.choiceCount = n])
      BY <1>1, <3>2, ChosenSnapshots
    <3> QED
      BY <2>1, <3>3 DEF v
  <2> QED
    BY <2>2, <2>3, <2>4
<1> QED
  BY <1>9, <1>10

\* The one step that replaces a FIB: what install_update computes is what some of the
\* updates make of the node's table.
LEMMA OpenFlowSnapshots ==
  ASSUME UpdatesTakeEffect, NEW s, Sane(s), Ready(s), s.process = "openflow", Snapshots(s),
         NEW choice
  PROVE  Snapshots(OpenFlowStep(s, choice))
<1> DEFINE c == Cur(s)
           n == c.loc
           v == OpenFlowStep(s, choice)
<1>1. /\ s \in States /\ c \in ConnRecs /\ HasUpdates(s, n) /\ n \in Nodes /\ c.dst \in Ecs
  BY CurType DEF Ready, ReadyFor, Sound
<1>2. /\ s.conns \in [Conns -> ConnRecs] /\ s.conn \in Conns /\ s.installed \in [Nodes -> Nat]
      /\ InstalledOK(s)
  BY <1>1 DEF States, Sane
<1>3. CASE choice = 0
  <2>1. v.conns = s.conns /\ v.installed = s.installed
    BY <1>1, <1>3 DEF OpenFlowStep, States
  <2> HIDE DEF v
  <2>2. Snapshots(v)
    BY <2>1, SnapshotsKept
  <2> QED
    BY <2>2 DEF v
<1>4. CASE choice # 0
  <2> DEFINE k == s.installed[n]
             h == UpdatedHops[n][k][c.dst]
             d == [c EXCEPT !.fib[n] = h]
  <2>1. v.installed = [s.installed EXCEPT ![n] = k + 1]
    BY <1>1, <1>4 DEF OpenFlowStep, States
  <2>2. v.conns = [s.conns EXCEPT ![s.conn] = d]
    <3>1. v.conns = [s.conns EXCEPT ![s.conn].fib[n] = h]
      BY <1>1, <1>4 DEF OpenFlowStep, States
    <3> HIDE DEF v, h
    <3> QED
      BY <1>2, <3>1 DEF Cur
  <2>3. k \in 0 .. Len(Updates[n]) - 1
    BY <1>1, <1>2, ModelStateAssumption DEF InstalledOK, HasUpdates
  <2>4. PICK j \in 0 .. k + 1 : h = HopsWith(n, j, c.dst)
    <3> HIDE DEF k, n, c
    <3> QED
      BY <1>1, <2>3, SnapshotHops
  <2>5. d.dst = c.dst /\ d.fib = [c.fib EXCEPT ![n] = h] /\ c.fib \in [Nodes -> SUBSET Nodes]
    <3> HIDE DEF n, h, c
    <3> QED
      BY <1>1 DEF ConnRecs, Fibs
  <2>6. \A m \in Nodes : /\ s.installed[m] \in Nat
                         /\ v.installed[m] = IF m = n THEN k + 1 ELSE s.installed[m]
    <3> HIDE DEF v, n, k
    <3> QED
      BY <1>1, <1>2, <2>1
  <2>7. \A i \in Conns : Snapshot(s, s.conns[i])
    BY DEF Snapshots
  <2>8. Snapshot(s, c)
    BY <1>2, <2>7 DEF Cur
  <2> HIDE DEF v, d, h
  <2>9. Snapshot(v, d)
    <3> SUFFICES ASSUME NEW m \in Nodes
                 PROVE  \E i \in 0 .. v.installed[m] : d.fib[m] = HopsWith(m, i, d.dst)
      BY DEF Snapshot
    <3>1. CASE m = n
      <4>1. d.fib[m] = h /\ v.installed[m] = k + 1
        BY <1>1, <2>5, <2>6, <3>1
      <4> QED
        BY <2>4, <2>5, <3>1, <4>1
    <3>2. CASE m # n
      <4>1. d.fib[m] = c.fib[m] /\ v.installed[m] = s.installed[m]
        BY <2>5, <2>6, <3>2
      <4>2. PICK i \in 0 .. s.installed[m] : c.fib[m] = HopsWith(m, i, c.dst)
        BY <1>1, <2>8 DEF Snapshot
      <4> QED
        BY <2>5, <4>1, <4>2
    <3> QED
      BY <3>1, <3>2
  <2>10. ASSUME NEW i \in Conns
         PROVE  Snapshot(v, v.conns[i])
    <3>1. CASE i = s.conn
      <4>1. v.conns[i] = d
        BY <1>2, <2>2, <3>1
      <4> QED
        BY <2>9, <4>1
    <3>2. CASE i # s.conn
      <4> DEFINE e == s.conns[i]
      <4>1. v.conns[i] = e /\ Snapshot(s, e)
        BY <1>2, <2>2, <2>7, <3>2
      <4> HIDE DEF e
      <4>2. ASSUME NEW m \in Nodes, NEW l \in 0 .. s.installed[m]
            PROVE  l \in 0 .. v.installed[m]
        BY <2>3, <2>6, <4>2
      <4>3. Snapshot(v, e)
        BY <4>1, <4>2 DEF Snapshot
      <4> QED
        BY <4>1, <4>3
    <3> QED
      BY <3>1, <3>2
  <2> QED
    BY <2>10 DEF Snapshots, v
<1> QED
  BY <1>3, <1>4

\* The processes hand the invariant a state that keeps its FIBs.
LEMMA StepSnapshots ==
  ASSUME UpdatesTakeEffect, PathInv, Step, Snapshots(now)
  PROVE  \E stepped : Stepped(now, stepped) /\ ExecStep(stepped) /\ Snapshots(stepped)
<1>1. Sane(now) /\ now.choiceCount \in Nat /\ (now.choiceCount # 0 => Ready(now))
  BY DEF PathInv, Sane, States
<1>2. Selection # {} => now.choiceCount # 0 /\ 0 \in 0 .. now.choiceCount - 1
  BY <1>1 DEF Selection
<1>3. CASE ChooseConn
  <2>1. PICK choice \in Selection : ExecStep(ChooseConnStep(now, choice))
    BY <1>3 DEF ChooseConn
  <2>2. Ready(now) /\ now.process = "choose_conn"
    BY <1>1, <1>2, <1>3, <2>1 DEF ChooseConn
  <2>3. choice \in 0 .. now.choiceCount - 1
    BY DEF Selection
  <2>4. Stepped(now, ChooseConnStep(now, choice))
    BY <1>1, <2>2, <2>3, ChooseConnStepped
  <2>5. Snapshots(ChooseConnStep(now, choice))
    BY <1>1, <2>2, <2>3, ChooseConnSnapshots
  <2> QED
    BY <2>1, <2>4, <2>5
<1>4. CASE Forward
  <2>1. PICK choice \in Selection : ExecStep(ForwardingStep(now, choice, <<>>))
    BY <1>4 DEF Forward
  <2>2. Ready(now) /\ now.process = "forwarding" /\ ~Injects(now)
    BY <1>1, <1>2, <1>4, <2>1 DEF Forward
  <2>3. choice \in 0 .. now.choiceCount - 1
    BY DEF Selection
  <2>4. Stepped(now, ForwardingStep(now, choice, <<>>))
    BY <1>1, <2>2, <2>3, ForwardingStepped
  <2>5. Snapshots(ForwardingStep(now, choice, <<>>))
    BY <1>1, <2>2, <2>3, ForwardingSnapshots
  <2> QED
    BY <2>1, <2>4, <2>5
<1>5. CASE Inject
  <2>1. PICK results \in Answers(now) : ExecStep(ForwardingStep(now, 0, results))
    BY <1>5 DEF Inject
  <2>2. Ready(now) /\ Injects(now) /\ 0 \in 0 .. now.choiceCount - 1
    BY <1>1, <1>2, <1>5 DEF Inject
  <2>3. Stepped(now, ForwardingStep(now, 0, results))
    BY <1>1, <2>2, InjectionStepped
  <2>4. now.process = "forwarding"
    BY <2>2 DEF Injects
  <2>5. Snapshots(ForwardingStep(now, 0, results))
    BY <1>1, <2>2, <2>4, ForwardingSnapshots
  <2> QED
    BY <2>1, <2>3, <2>5
<1>6. CASE InstallUpdate
  <2>1. PICK choice \in Selection : ExecStep(OpenFlowStep(now, choice))
    BY <1>6 DEF InstallUpdate
  <2>2. Ready(now) /\ now.process = "openflow"
    BY <1>1, <1>2, <1>6, <2>1 DEF InstallUpdate
  <2>3. choice \in 0 .. now.choiceCount - 1
    BY DEF Selection
  <2>4. Stepped(now, OpenFlowStep(now, choice))
    BY <1>1, <2>2, <2>3, OpenFlowStepped
  <2>5. Snapshots(OpenFlowStep(now, choice))
    BY <1>1, <2>2, OpenFlowSnapshots
  <2> QED
    BY <2>1, <2>4, <2>5
<1> QED
  BY <1>3, <1>4, <1>5, <1>6 DEF Step

\* Switching processes changes no FIB.
LEMMA SwitchSnapshots ==
  ASSUME NEW s \in States, Snapshots(s)
  PROVE  Snapshots(CheckToSwitchProcess(s))
<1> DEFINE t == CheckToSwitchProcess(s)
           u == [s EXCEPT !.process = "choose_conn"]
           count == IF ConnMap(u, 2) # <<>> THEN 1
                    ELSE IF ConnMap(u, 1) # <<>> THEN Len(ConnMap(u, 1))
                    ELSE IF ConnMap(u, 0) # <<>> THEN 1 ELSE 0
<1>1. \/ t = [u EXCEPT !.choiceCount = count]
      \/ t = [s EXCEPT !.process = "forwarding"]
      \/ t = [s EXCEPT !.process = "openflow", !.choiceCount = 2]
      \/ t = s
  BY DEF CheckToSwitchProcess, UpdateChoiceCount
<1> HIDE DEF count, t
<1>2. t.conns = s.conns /\ t.installed = s.installed
  BY <1>1 DEF States
<1> QED
  BY <1>2, SnapshotsKept DEF t

\* The invariants change no FIB.
LEMMA DecideSnapshots ==
  ASSUME NEW s \in States, Snapshots(s), NEW v
  PROVE  Snapshots(Decide(s, v))
<1>1. Decide(s, v).installed = s.installed /\ Decide(s, v).conns = s.conns
  BY DEF States, Decide
<1> QED
  BY <1>1, SnapshotsKept

LEMMA VisitingSnapshots ==
  ASSUME NEW s \in States, Snapshots(s), NEW v
  PROVE  Snapshots(SetCur(s, Visiting(Cur(s), v)))
<1>1. SameFib(Cur(s), Visiting(Cur(s), v))
  BY CurType DEF ConnRecs, SameFib, Visiting
<1> QED
  BY <1>1, SetCurSnapshots

LEMMA CountSnapshots ==
  ASSUME NEW s \in States, Snapshots(s)
  PROVE  /\ Snapshots(Count(s))
         /\ \A v : Snapshots(Decide(Count(s), v))
<1> DEFINE d == [Cur(s) EXCEPT !.executable = 0]
           t == Count(s)
<1>1. s.conns \in [Conns -> ConnRecs] /\ s.conn \in Conns
  BY DEF States
<1>2. SameFib(s.conns[s.conn], d)
  BY <1>1 DEF Cur, ConnRecs, SameFib
<1>3. t.installed = s.installed /\ t.conns = [s.conns EXCEPT ![s.conn] = d]
  BY DEF States, Count, SetCur
<1>4. \A v : Decide(t, v).installed = s.installed /\ Decide(t, v).conns = t.conns
  BY DEF States, Count, SetCur, Decide
<1> HIDE DEF t, d
<1>5. Snapshots(t)
  BY <1>1, <1>2, <1>3, SnapshotsPut
<1>6. ASSUME NEW v
      PROVE  Snapshots(Decide(t, v))
  BY <1>3, <1>4, <1>5, SnapshotsKept
<1> QED
  BY <1>5, <1>6 DEF t

LEMMA CheckSnapshots ==
  ASSUME NEW s \in States, Snapshots(s), NEW p, Checkable(p)
  PROVE  Snapshots(CheckOne(s, p))
<1> DEFINE c == Cur(s)
           r == CheckOne(s, p)
<1>1. p.kind \in {"reachability", "reply_reachability", "waypoint", "loop", "one_request",
                  "loadbalance"}
  BY DEF Checkable, Kinds, Correlated
<1>2. r = s => Snapshots(r)
  OBVIOUS
<1>3. ASSUME NEW v, r = Decide(s, v)
      PROVE  Snapshots(r)
  BY <1>3, DecideSnapshots
<1>4. CASE p.kind \in {"reachability", "reply_reachability", "waypoint"}
  <2>1. r = s \/ r = Decide(s, p.expected) \/ r = Decide(s, ~p.expected)
    <3>1. CASE p.kind = "reachability"
      <4>1. r = Reachability(s, p)
        BY <3>1, Zenon DEF CheckOne
      <4> QED
        BY <4>1, Zenon DEF Reachability
    <3>2. CASE p.kind = "reply_reachability"
      <4>1. r = ReplyReachability(s, p)
        BY <3>2, Zenon DEF CheckOne
      <4> QED
        BY <4>1, Zenon DEF ReplyReachability
    <3>3. CASE p.kind = "waypoint"
      <4>1. r = Waypoint(s, p)
        BY <3>3, Zenon DEF CheckOne
      <4> QED
        BY <4>1, Zenon DEF Waypoint
    <3> QED
      BY <1>4, <3>1, <3>2, <3>3
  <2> HIDE DEF r
  <2>2. Snapshots(r)
    BY <1>2, <1>3, <2>1, Zenon
  <2> QED
    BY <2>2 DEF r
<1>5. CASE p.kind = "loop"
  <2> DEFINE v == c.visited \cup {<<c.dst, c.ports[2], c.loc>>}
  <2>1. r = Loop(s, p)
    BY <1>5, Zenon DEF CheckOne
  <2>2. r = Decide(s, FALSE) \/ r = Decide(s, TRUE) \/ r = SetCur(s, Visiting(c, v))
    BY <2>1, Zenon DEF Loop, Visiting
  <2> HIDE DEF r, v
  <2>3. r = SetCur(s, Visiting(c, v)) => Snapshots(r)
    BY VisitingSnapshots
  <2>4. Snapshots(r)
    BY <1>2, <1>3, <2>2, <2>3, Zenon
  <2> QED
    BY <2>4 DEF r
<1>6. CASE p.kind \in {"one_request", "loadbalance"}
  <2> DEFINE t == Count(s)
  <2>1. r = OneRequest(s, p) \/ r = LoadBalance(s, p)
    <3>1. "one_request" # "loadbalance"
      OBVIOUS
    <3>2. p.kind = "one_request" \/ p.kind = "loadbalance"
      BY <1>6
    <3> QED
      BY <3>1, <3>2, Zenon DEF CheckOne
  <2>2. r = s \/ r = t \/ r = Decide(t, TRUE)
    <3>1. CASE r = OneRequest(s, p)
      BY <3>1, Zenon DEF OneRequest
    <3>2. CASE r = LoadBalance(s, p)
      BY <3>2, Zenon DEF LoadBalance
    <3> QED
      BY <2>1, <3>1, <3>2
  <2>3. Snapshots(t) /\ Snapshots(Decide(t, TRUE))
    BY CountSnapshots
  <2> HIDE DEF r, t
  <2>4. Snapshots(r)
    BY <1>2, <1>3, <2>2, <2>3, Zenon
  <2> QED
    BY <2>4 DEF r
<1> HIDE DEF r
<1> QED
  BY <1>1, <1>4, <1>5, <1>6 DEF r

\* A path begins with the FIBs the nodes' tables give, before any update.
LEMMA InitialSnapshots ==
  ASSUME NEW i \in Queries
  PROVE  Snapshots(Initialized(i))
<1> DEFINE z == Zeroed
           t == Initialized(i)
           specs == Part(z, i).conns
<1>1. z \in States /\ z.conns = [k \in Conns |-> UnusedConn]
  BY ZeroedType DEF Zeroed
<1>2. t.installed = z.installed
  BY DEF Initialized, InitConns, Zeroed
<1>3. t.conns = [k \in Conns |-> IF k <= Len(specs) THEN InitConn(z, k, specs[k])
                                 ELSE z.conns[k]]
  BY DEF Initialized, InitConns, Zeroed
<1> HIDE DEF z, t, specs
<1>4. ASSUME NEW k \in Conns
      PROVE  Snapshot(t, t.conns[k])
  <2>1. CASE k <= Len(specs)
    <3> DEFINE c == InitConn(z, k, specs[k])
    <3>1. c.fib = FibFor(z, c.dst)
      BY DEF InitConn, UnusedConn
    <3>2. t.conns[k] = c
      BY <1>3, <2>1
    <3> HIDE DEF c
    <3>3. Snapshot(z, c)
      BY <1>1, <3>1, SnapshotNow
    <3> QED
      BY <1>2, <3>2, <3>3 DEF Snapshot
  <2>2. CASE ~(k <= Len(specs))
    <3>1. t.conns[k] = UnusedConn
      BY <1>1, <1>3, <2>2
    <3>2. UnusedConn.dst = NoEc
      BY DEF UnusedConn
    <3>3. NoEc \notin Ecs
      BY ModelStateAssumption
    <3> QED
      BY <3>1, <3>2, <3>3 DEF Snapshot
  <2> QED
    BY <2>1, <2>2
<1> QED
  BY <1>4 DEF Snapshots, t

\* What a step of the first part makes of the FIBs, if the part goes on.
LEMMA ExecStepSnapshots ==
  ASSUME PathInv, NEW stepped, Stepped(now, stepped), ExecStep(stepped), Snapshots(stepped)
  PROVE  now'.idx = 1 => Snapshots(now)'
<1> DEFINE s == IF stepped.failed THEN stepped ELSE CheckToSwitchProcess(stepped)
           p == Part(s, inv)
           checked == IF s.failed THEN s ELSE CheckOne(s, p)
<1>1. now' = IF s.failed THEN s ELSE CheckCorrelated(checked, inv, stored)
  BY DEF ExecStep
<1>2. /\ Sane(s) /\ s.idx = now.idx /\ Snapshots(s)
      /\ IF s.failed THEN s.choiceCount = 0 ELSE Ready(s)
  <2>1. CASE stepped.failed
    BY <2>1 DEF Stepped, Keeps
  <2>2. CASE ~stepped.failed
    <3>1. s = CheckToSwitchProcess(stepped)
      BY <2>2
    <3>2. Sane(stepped) /\ Left(stepped) /\ Keeps(now, stepped) /\ stepped \in States
      BY <2>2 DEF Stepped, Sane
    <3> HIDE DEF s
    <3>3. Sane(s) /\ Ready(s) /\ Keeps(stepped, s) /\ Snapshots(s)
      BY <3>1, <3>2, SwitchReady, SwitchSnapshots
    <3> QED
      BY <3>2, <3>3 DEF Keeps, Ready
  <2> QED
    BY <2>1, <2>2
<1>3. p = Part(now, inv)
  <2> HIDE DEF s
  <2> QED
    BY <1>2 DEF Part
<1>4. ~s.failed => checked = CheckOne(s, p)
  OBVIOUS
<1> HIDE DEF s, p, checked
<1>5. Snapshots(now)' <=> Snapshots(now')
  BY DEF Snapshots, Snapshot
<1>6. CASE s.failed
  BY <1>1, <1>2, <1>5, <1>6
<1>7. CASE ~s.failed
  <2>1. Checkable(p) /\ inv \in Queries
    BY <1>3, PartCheckable DEF PathInv
  <2>2. Judged(s, checked, p) /\ Snapshots(checked)
    BY <1>2, <1>4, <1>7, <2>1, CheckReady, CheckSnapshots DEF Sane
  <2>3. /\ Sane(checked) /\ ~checked.failed /\ checked.idx = now.idx
        /\ checked.choiceCount # 0 => Ready(checked)
    BY <1>2, <2>2 DEF Judged
  <2>4. Turn(checked, inv)
    BY <2>3 DEF PathInv, Turn
  <2>5. now' = CheckCorrelated(checked, inv, stored)
    BY <1>1, <1>7
  <2>6. \/ now' = checked
        \/ Correlated(inv) /\ Restarted(checked, now', inv)
        \/ \E v \in BOOLEAN : Closed(checked, now', v)
    BY <2>1, <2>3, <2>4, <2>5, CheckCorrelatedFacts
  <2>7. CASE Correlated(inv) /\ Restarted(checked, now', inv)
    <3>1. checked.idx \in Nat \ {0}
      BY <2>1, <2>4, <2>7, PartsFacts DEF Turn
    <3>2. now'.idx # 1
      BY <2>7, <3>1 DEF Restarted
    <3> QED
      BY <3>2
  <2>8. CASE \E v \in BOOLEAN : Closed(checked, now', v)
    <3>1. now'.conns = checked.conns /\ now'.installed = checked.installed
      BY <2>8 DEF Closed
    <3> QED
      BY <1>5, <2>2, <3>1, SnapshotsKept
  <2> QED
    BY <1>5, <2>2, <2>6, <2>7, <2>8
<1> QED
  BY <1>6, <1>7

\* A later part never goes back to the first.
LEMMA FirstPartKept ==
  ASSUME PathInv, Step, now.idx # 1
  PROVE  now'.idx # 1
<1>1. PICK stepped : Stepped(now, stepped) /\ ExecStep(stepped)
  BY StepStepped
<1>2. ~Ended /\ Ready(now)
  BY StepStepped
<1>3. now'.idx = now.idx \/ \E s : Checked(s)
  BY <1>1, <1>2, ExecStepFacts
<1>4. ASSUME NEW s, Checked(s)
      PROVE  now'.idx # 1
  <2>1. /\ Sane(s) /\ ~s.failed /\ (s.choiceCount # 0 => Ready(s)) /\ s.idx = now.idx
        /\ now' = CheckCorrelated(s, inv, stored)
    BY <1>4 DEF Checked
  <2>2. inv \in Queries /\ Turn(s, inv)
    BY <2>1 DEF PathInv, Turn
  <2>3. \/ now' = s
        \/ Correlated(inv) /\ Restarted(s, now', inv)
        \/ \E v \in BOOLEAN : Closed(s, now', v)
    BY <2>1, <2>2, CheckCorrelatedFacts
  <2>4. Correlated(inv) => s.idx \in Nat \ {0}
    BY <2>2, PartsFacts DEF Turn
  <2> QED
    BY <2>1, <2>3, <2>4 DEF Restarted, Closed
<1> QED
  BY <1>3, <1>4

\* The FIBs of all connections are snapshots, in the first part.
SnapInv == PathInv /\ (now.idx = 1 => Snapshots(now))

LEMMA SnapStepped ==
  ASSUME UpdatesTakeEffect, SnapInv, [Next]_vars
  PROVE  SnapInv'
<1>1. PathInv /\ PathInv'
  BY PathStepped DEF SnapInv
<1>2. Snapshots(now)' <=> Snapshots(now')
  BY DEF Snapshots, Snapshot
<1>3. CASE Step
  <2>1. CASE now.idx = 1
    <3>1. Snapshots(now)
      BY <2>1 DEF SnapInv
    <3>2. PICK stepped : Stepped(now, stepped) /\ ExecStep(stepped) /\ Snapshots(stepped)
      BY <1>1, <1>3, <3>1, StepSnapshots
    <3>3. now'.idx = 1 => Snapshots(now)'
      BY <1>1, <3>2, ExecStepSnapshots
    <3> QED
      BY <1>1, <3>3 DEF SnapInv
  <2>2. CASE now.idx # 1
    BY <1>1, <1>3, <2>2, FirstPartKept DEF SnapInv
  <2> QED
    BY <2>1, <2>2
<1>4. CASE NextPath
  <2>1. now' = Initialized(inv) /\ inv \in Queries
    BY <1>1, <1>4 DEF NextPath, PathInv
  <2>2. Snapshots(now')
    BY <2>1, InitialSnapshots
  <2> QED
    BY <1>1, <1>2, <2>2 DEF SnapInv
<1>5. CASE UNCHANGED vars
  BY <1>1, <1>2, <1>5 DEF SnapInv, vars
<1> QED
  BY <1>3, <1>4, <1>5 DEF Next

\* Where update_fib and install_update agree on what updates make of a table: in the
\* first or only part, whatever order updates and packets of middleboxes come in, each
\* FIB has at each node next hops the node has had for the connection's destination.
\* In a later part a connection may keep the FIB, with updates, of the part before.
THEOREM FibsAreSnapshotsHolds ==
  ASSUME UpdatesTakeEffect
  PROVE  Spec => [](now.idx = 1 => FibsAreSnapshots)
<1>1. Init => SnapInv
  BY PathInitial, InitialSnapshots DEF Init, SnapInv
<1>2. SnapInv /\ [Next]_vars => SnapInv'
  BY SnapStepped
<1>3. SnapInv => (now.idx = 1 => FibsAreSnapshots)
  <2> SUFFICES ASSUME SnapInv, now.idx = 1, NEW i \in 1 .. now.numConns, NEW n \in Nodes
               PROVE  \E k \in 0 .. now.installed[n] :
                        now.conns[i].fib[n] = HopsWith(n, k, now.conns[i].dst)
    BY DEF FibsAreSnapshots
  <2>1. Sane(now) /\ Snapshots(now)
    BY DEF SnapInv, PathInv
  <2>2. i \in Conns /\ Sound(now.conns[i])
    <3>1. now \in States /\ now.numConns \in Conns
      BY <2>1 DEF Sane, States
    <3>2. i \in Conns
      BY <3>1, ModelStateAssumption DEF Conns
    <3> QED
      BY <2>1, <3>2 DEF Sane
  <2>3. now.conns[i].dst \in Ecs
    BY <2>2 DEF Sound
  <2> QED
    BY <2>1, <2>2, <2>3 DEF Snapshots, Snapshot
<1> QED
  BY <1>1, <1>2, <1>3, PTL DEF Spec
=============================================================================
