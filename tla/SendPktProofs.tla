---------------------------- MODULE SendPktProofs ----------------------------
(***************************************************************************)
(* Theorems about the threads of Emulation::send_pkt, for any tap devices, *)
(* packets, headers and number of injections: they are joined whatever the *)
(* interleaving, a drop that DropMon records is one of the injected        *)
(* packet, the buffer of packets and that of their hashes agree, and no    *)
(* injection is timed twice.                                               *)
(***************************************************************************)
EXTENDS SendPkt, Induction, FiniteSetTheorems, SequenceTheorems

-----------------------------------------------------------------------------
(* Threads                                                                 *)

\* Which threads and flags there are at each step of the caller.  The drop thread
\* exists with detection only, and DropMon's with that method only; a flag is up
\* while the caller joins the thread it stops.
Joining ==
  /\ stopRecv => main = "join_recv"
  /\ stopDrop => main = "join_drop"
  /\ stopDm => main = "join_dm"
  /\ main \in {"stop_drop", "join_drop", "stop_listening"} => method # "none"
  /\ main = "join_dm" => method = "dropmon"
  /\ main \in {"idle", "stop_drop", "join_drop", "stop_listening", "join_dm", "collect"}
       => recv = "exit"
  /\ \/ main \in {"idle", "stop_listening", "join_dm", "collect"}
     \/ method = "none"
     => drop = "exit"
  /\ main \in {"idle", "collect"} \/ method # "dropmon" => dm = "exit"

LEMMA JoiningInit == Init => Joining
BY DEF Init, Joining

LEMMA JoiningNext == Joining /\ [Next]_vars => Joining'
<1> SUFFICES ASSUME Joining, [Next]_vars PROVE Joining'
  OBVIOUS
<1> USE DEF Joining, detection, buffers, stats, flags, threads, kernel
<1>1. CASE StartInjection
  BY <1>1 DEF StartInjection
<1>2. CASE Main
  <2>1. CASE WakeReceived
    BY <2>1 DEF WakeReceived, StopTiming
  <2>2. CASE WakeLeave
    BY <2>2 DEF WakeLeave, StopTiming
  <2>3. CASE StopRecv
    BY <2>3 DEF StopRecv, Interrupted
  <2>4. CASE JoinRecv
    BY <2>4 DEF JoinRecv
  <2>5. CASE StopDrop
    BY <2>5 DEF StopDrop, Interrupted
  <2>6. CASE JoinDrop
    BY <2>6 DEF JoinDrop
  <2>7. CASE StopListening
    BY <2>7 DEF StopListening
  <2>8. CASE JoinDm
    BY <2>8 DEF JoinDm
  <2>9. CASE Collect
    BY <2>9 DEF Collect
  <2> QED
    BY <1>2, <2>1, <2>2, <2>3, <2>4, <2>5, <2>6, <2>7, <2>8, <2>9 DEF Main
<1>3. CASE Recv
  <2>1. CASE RecvLoop
    BY <2>1 DEF RecvLoop
  <2>2. CASE ReadPackets
    BY <2>2 DEF ReadPackets
  <2>3. CASE StorePackets
    BY <2>3 DEF StorePackets
  <2> QED
    BY <1>3, <2>1, <2>2, <2>3 DEF Recv
<1>4. CASE Drop
  <2>1. CASE DropLoop
    BY <2>1 DEF DropLoop
  <2>2. CASE PollEvents
    BY <2>2 DEF PollEvents
  <2>3. CASE RecordDrop
    BY <2>3 DEF RecordDrop
  <2> QED
    BY <1>4, <2>1, <2>2, <2>3 DEF Drop
<1>5. CASE Dm
  <2>1. CASE DmLoop
    BY <2>1 DEF DmLoop
  <2>2. CASE RecvMsg
    BY <2>2 DEF RecvMsg, Interrupted
  <2> QED
    BY <1>5, <2>1, <2>2 DEF Dm
<1>6. CASE Environment
  BY <1>6 DEF Environment, Emit, KernelDrop, DeliverAlert
<1>7. CASE UNCHANGED vars
  BY <1>7 DEF vars
<1> QED
  BY <1>1, <1>2, <1>3, <1>4, <1>5, <1>6, <1>7 DEF Next

\* Whatever is lost, late or repeated: when send_pkt has returned, none of its
\* threads is left and every flag is down.
THEOREM ThreadsJoinedHolds == Spec => []ThreadsJoined
<1>1. Joining => ThreadsJoined
  BY DEF Joining, ThreadsJoined
<1> QED
  BY JoiningInit, JoiningNext, <1>1, PTL DEF Spec

-----------------------------------------------------------------------------
(* Drops                                                                   *)

\* With DropMon, a timestamp is of a drop of the injected packet's header wherever
\* it has got to on its way from the alert to the caller.
TargetOnly ==
  method = "dropmon" =>
    \A t \in {detTs, ts, dropTs} : t # 0 => header[t] = header[inj]

LEMMA TargetOnlyInit == Init => TargetOnly
BY DEF Init, TargetOnly

LEMMA TargetOnlyNext == TargetOnly /\ [Next]_vars => TargetOnly'
<1> SUFFICES ASSUME TargetOnly, [Next]_vars PROVE TargetOnly'
  OBVIOUS
<1> USE DEF TargetOnly, detection, buffers, stats, flags, threads, kernel
<1>1. CASE StartInjection
  BY <1>1 DEF StartInjection
<1>2. CASE Main
  <2>1. CASE WakeReceived \/ WakeLeave
    BY <2>1 DEF WakeReceived, WakeLeave, StopTiming
  <2>2. CASE StopRecv \/ JoinRecv
    BY <2>2 DEF StopRecv, JoinRecv
  <2>3. CASE StopDrop \/ JoinDrop
    BY <2>3 DEF StopDrop, JoinDrop
  <2>4. CASE StopListening \/ JoinDm
    BY <2>4 DEF StopListening, JoinDm
  <2>5. CASE Collect
    BY <2>5 DEF Collect
  <2> QED
    BY <1>2, <2>1, <2>2, <2>3, <2>4, <2>5 DEF Main
<1>3. CASE Recv
  BY <1>3 DEF Recv, RecvLoop, ReadPackets, StorePackets
<1>4. CASE Drop
  <2>1. CASE DropLoop
    BY <2>1 DEF DropLoop
  <2>2. CASE PollEvents
    BY <2>2 DEF PollEvents
  <2>3. CASE RecordDrop
    BY <2>3 DEF RecordDrop
  <2> QED
    BY <1>4, <2>1, <2>2, <2>3 DEF Drop
<1>5. CASE Dm
  <2>1. CASE DmLoop
    BY <2>1 DEF DmLoop
  <2>2. CASE RecvMsg
    BY <2>2 DEF RecvMsg, SameHeader
  <2> QED
    BY <1>5, <2>1, <2>2 DEF Dm
<1>6. CASE Environment
  BY <1>6 DEF Environment, Emit, KernelDrop, DeliverAlert
<1>7. CASE UNCHANGED vars
  BY <1>7 DEF vars
<1> QED
  BY <1>1, <1>2, <1>3, <1>4, <1>5, <1>6, <1>7 DEF Next

\* However late the kernel delivers alerts, the drop that send_pkt returns is not
\* one of an earlier packet with another header.
THEOREM DropMatchesTargetHolds == Spec => []DropMatchesTarget
<1>1. TargetOnly => DropMatchesTarget
  BY DEF TargetOnly, DropMatchesTarget
<1> QED
  BY TargetOnlyInit, TargetOnlyNext, <1>1, PTL DEF Spec

-----------------------------------------------------------------------------
(* Buffers                                                                 *)

\* What _recv_pkts and _pkts_hash may hold.
Buffers == [pkts : Seq(Frames), hashes : SUBSET Frames]

Matching(b) == IsInjective(b.pkts) /\ b.hashes = ToSet(b.pkts)

LEMMA EmptyMatches == Matching([pkts |-> <<>>, hashes |-> {}])
BY DEF Matching, IsInjective, ToSet

\* A packet whose hash is not known yet may join.
LEMMA AppendMatches ==
  ASSUME NEW b \in Buffers, Matching(b), NEW p \in Frames, p \notin b.hashes
  PROVE  LET c == [pkts |-> Append(b.pkts, p), hashes |-> b.hashes \cup {p}]
         IN c \in Buffers /\ Matching(c) /\ Len(c.pkts) = Len(b.pkts) + 1
<1> DEFINE s == b.pkts
           t == Append(s, p)
<1>1. s \in Seq(Frames) /\ b.hashes \in SUBSET Frames
  BY DEF Buffers
<1>2. /\ t \in Seq(Frames)
      /\ Len(s) \in Nat
      /\ Len(t) = Len(s) + 1
      /\ DOMAIN s = 1 .. Len(s)
      /\ DOMAIN t = DOMAIN s \cup {Len(t)}
      /\ t[Len(t)] = p
      /\ \A i \in DOMAIN s : t[i] = s[i] /\ i # Len(t)
  BY <1>1
<1>3. b.hashes = {s[i] : i \in DOMAIN s} /\ \A i, j \in DOMAIN s : s[i] = s[j] => i = j
  BY DEF Matching, ToSet, IsInjective
<1> HIDE DEF s, t
<1>4. \A i \in DOMAIN s : s[i] # p
  BY <1>3
<1>5. IsInjective(t)
  <2> SUFFICES ASSUME NEW i \in DOMAIN t, NEW j \in DOMAIN t, t[i] = t[j]
               PROVE  i = j
    BY DEF IsInjective
  <2> QED
    BY <1>2, <1>3, <1>4
<1>6. ToSet(t) = b.hashes \cup {p}
  BY <1>2, <1>3 DEF ToSet
<1> QED
  BY <1>1, <1>2, <1>5, <1>6 DEF Buffers, Matching, s, t

\* listen_packets keeps a packet of each hash, in any list of packets, and none of
\* what was received goes.
LEMMA NewPacketsFacts ==
  ASSUME recvPkts \in Seq(Frames), pktsHash \in SUBSET Frames, HashesMatchPackets,
         NEW pkts \in Seq(Frames)
  PROVE  LET b == NewPackets(pkts)
         IN b \in Buffers /\ Matching(b) /\ Len(b.pkts) >= Len(recvPkts)
<1> DEFINE n == Len(pkts)
           a == [pkts |-> recvPkts, hashes |-> pktsHash]
           Step(b, p) == IF p \in b.hashes THEN b
                         ELSE [pkts |-> Append(b.pkts, p), hashes |-> b.hashes \cup {p}]
           after[k \in 0 .. n] == IF k = 0 THEN a ELSE Step(after[k - 1], pkts[k])
           D == [x \in Buffers \X (1 .. n) |-> Step(x[1], pkts[x[2]])]
           I == {b \in Buffers : Matching(b) /\ Len(b.pkts) >= Len(recvPkts)}
<1>1. n \in Nat /\ \A k \in 1 .. n : pkts[k] \in Frames
  OBVIOUS
<1>2. NewPackets(pkts) = after[n]
  BY DEF NewPackets
<1> HIDE DEF n
<1>3. a \in Buffers /\ a \in I
  BY DEF Buffers, Matching, HashesMatchPackets
<1>4. \A b \in Buffers, p \in Frames : Step(b, p) \in Buffers
  BY DEF Buffers
<1>5. \A b \in I, p \in Frames : Step(b, p) \in I
  <2> SUFFICES ASSUME NEW b \in I, NEW p \in Frames, p \notin b.hashes
               PROVE  Step(b, p) \in I
    OBVIOUS
  <2>1. b \in Buffers /\ Matching(b) /\ b.pkts \in Seq(Frames)
    BY DEF Buffers
  <2>2. Len(b.pkts) \in Nat /\ Len(recvPkts) \in Nat /\ Len(b.pkts) >= Len(recvPkts)
    BY <2>1
  <2>3. /\ Step(b, p) \in Buffers /\ Matching(Step(b, p))
        /\ Len(Step(b, p).pkts) = Len(b.pkts) + 1
    BY <2>1, AppendMatches
  <2> HIDE DEF Step
  <2> QED
    BY <2>2, <2>3
<1>6. D \in Bodies(Buffers, n) /\ \A b \in Buffers, k \in 1 .. n : D[<<b, k>>] = Step(b, pkts[k])
  <2>1. \A b \in Buffers, k \in 1 .. n : Step(b, pkts[k]) \in Buffers
    BY <1>1, <1>4
  <2> HIDE DEF Step
  <2> QED
    BY <2>1 DEF Bodies
<1> HIDE DEF a, Step, D, I
<1>7. PICK g \in [0 .. n -> Buffers] : Iterates(g, a, D, n)
  <2> HIDE DEF after
  <2>1. n \in Nat /\ a \in Buffers /\ D \in Bodies(Buffers, n)
    BY <1>1, <1>3, <1>6
  <2> QED
    BY <2>1, LoopRuns
<1>8. ASSUME NEW k \in 0 .. n
      PROVE  g[k] = IF k = 0 THEN a ELSE Step(g[k - 1], pkts[k])
  <2> HIDE DEF after
  <2>1. CASE k # 0
    <3>1. k \in 1 .. n /\ k - 1 \in 0 .. n
      BY <1>1, <2>1
    <3> QED
      BY <1>6, <1>7, <2>1, <3>1 DEF Iterates
  <2> QED
    BY <1>7, <2>1 DEF Iterates
<1>9. g = [k \in 0 .. n |-> IF k = 0 THEN a ELSE Step(g[k - 1], pkts[k])]
  <2> HIDE DEF after
  <2> QED
    BY <1>8
<1>10. after = [k \in 0 .. n |-> IF k = 0 THEN a ELSE Step(after[k - 1], pkts[k])]
  BY <1>9
<1> HIDE DEF after
<1>11. after[0] \in I
  BY <1>1, <1>3, <1>10
<1>12. ASSUME NEW k \in 1 .. n, after[k - 1] \in I
       PROVE  after[k] \in I
  <2>1. k \in 0 .. n /\ k # 0
    BY <1>1
  <2>2. after[k] = Step(after[k - 1], pkts[k])
    BY <1>10, <2>1
  <2> QED
    BY <1>1, <1>5, <1>12, <2>2
<1>13. after[n] \in I
  <2>1. \A k \in 0 .. n : after[k] \in I
    BY <1>1, <1>11, <1>12, LoopInvariant
  <2> QED
    BY <1>1, <2>1
<1> QED
  BY <1>2, <1>13 DEF I

-----------------------------------------------------------------------------
(* An injection                                                            *)

\* epoll_wait reports devices that have a frame.
LEMMA ReadyFacts ==
  /\ Ready \in Seq(Intfs)
  /\ \A k \in DOMAIN Ready : tap[Ready[k]] # <<>>
<1> DEFINE S == {i \in Intfs : tap[i] # <<>>}
           n == Cardinality(S)
<1>1. IsFiniteSet(S)
  BY SendPktAssumption, FS_Subset
<1>2. n \in Nat /\ \E f \in [1 .. n -> S] : IsInjective(f)
  BY <1>1, FS_CardinalityType DEF ExistsBijection, Bijection, Injection
<1>3. Ready \in [1 .. n -> S]
  BY <1>2 DEF Ready, SetToSeq
<1> HIDE DEF n
<1> QED
  BY <1>2, <1>3

\* A list without repetitions is no longer than there are things to list.
LEMMA DistinctPackets ==
  ASSUME NEW s \in Seq(Frames), IsInjective(s)
  PROVE  Len(s) <= Cardinality(Frames) /\ Cardinality(Frames) \in Nat
<1>1. IsFiniteSet(Frames)
  BY SendPktAssumption, FS_Product DEF Frames
<1>2. Len(s) \in Nat /\ s \in Injection(1 .. Len(s), Frames)
  BY DEF Injection
<1>3. Cardinality(1 .. Len(s)) = Len(s)
  <2>1. 1 \in Int /\ Len(s) \in Int /\ Len(s) - 1 + 1 = Len(s) /\ (1 > Len(s) <=> Len(s) = 0)
    BY <1>2
  <2> QED
    BY <2>1, FS_Interval
<1> QED
  BY <1>1, <1>2, <1>3, FS_Injection, FS_CardinalityType

\* What is measured at each step of the caller: both latencies from the injection to
\* the first response, drop or timeout, and nothing otherwise.  Unless there was a
\* drop, the caller has counted no more packets than are left.
Measuring ==
  /\ IF main = "waiting" /\ numPkts = 0
     THEN timing = Measured /\ timed + 1 = inj
     ELSE timing = {} /\ timed = inj
  /\ main = "waiting" => dropTs # 0 \/ numPkts <= Len(recvPkts)
  /\ main = "failed" => dropTs # 0 /\ numPkts > 0
  /\ main # "idle" => inj # 0

SendInv == TypeOK /\ HashesMatchPackets /\ Measuring

LEMMA SendInvInit == Init => SendInv
<1> SUFFICES ASSUME Init PROVE SendInv
  OBVIOUS
<1>1. IsInjective(<<>>) /\ ToSet(<<>>) = {}
  BY EmptyMatches DEF Matching
<1>2. Cardinality(Frames) \in Nat
  BY SendPktAssumption, FS_Product, FS_CardinalityType DEF Frames
<1>3. TypeOK
  <2>1. recvPkts \in Seq(Frames) /\ batch \in Seq(Frames) /\ alerts \in Seq(0 .. MaxInj)
    BY DEF Init
  <2>2. tap \in [Intfs -> Seq(Frames)]
    BY DEF Init
  <2>3. {stopRecv, stopDrop, stopDm, paused, lost} \subseteq BOOLEAN
    BY DEF Init
  <2>4. {ts, dropTs, detTs, inj} \subseteq 0 .. MaxInj /\ numPkts \in 0 .. Cardinality(Frames)
        /\ timed \in 0 .. inj
    BY <1>2, SendPktAssumption DEF Init
  <2> QED
    BY <2>1, <2>2, <2>3, <2>4 DEF Init, TypeOK
<1> QED
  BY <1>1, <1>3 DEF Init, SendInv, HashesMatchPackets, Measuring

LEMMA MainKeepsSendInv == SendInv /\ (StartInjection \/ Main) => SendInv'
<1> SUFFICES ASSUME SendInv, StartInjection \/ Main PROVE SendInv'
  OBVIOUS
<1> USE SendPktAssumption DEF SendInv, detection, buffers, stats, flags, threads, kernel
<1>1. IsInjective(<<>>) /\ ToSet(<<>>) = {}
  BY EmptyMatches DEF Matching
<1>2. Len(recvPkts) \in Nat /\ Len(recvPkts) <= Cardinality(Frames) /\ Cardinality(Frames) \in Nat
  BY DistinctPackets DEF TypeOK, HashesMatchPackets
<1>3. recvPkts = <<>> <=> Len(recvPkts) = 0
  BY DEF TypeOK
<1>11. timing \ Measured = {} /\ {"pkt", "drop"} = Measured
  BY DEF TypeOK, Measured
<1>4. CASE StartInjection
  <2>1. TypeOK'
    <3>1. inj' \in 0 .. MaxInj /\ timed' \in 0 .. inj' /\ numPkts' \in 0 .. Cardinality(Frames)
      BY <1>2, <1>4 DEF StartInjection, TypeOK, Measuring
    <3>2. alerts' \in Seq(0 .. MaxInj) /\ recvPkts' \in Seq(Frames) /\ batch' \in Seq(Frames)
      <4>1. <<>> \in Seq(0 .. MaxInj) /\ <<>> \in Seq(Frames)
        OBVIOUS
      <4>2. alerts' \in {<<>>, alerts} /\ recvPkts' = <<>> /\ batch' = <<>>
        BY <1>4 DEF StartInjection
      <4>3. alerts \in Seq(0 .. MaxInj)
        BY DEF TypeOK
      <4> QED
        BY <4>1, <4>2, <4>3
    <3>3. {ts', dropTs', detTs'} \subseteq 0 .. MaxInj
      BY <1>4 DEF StartInjection, TypeOK
    <3>4. {stopRecv', stopDrop', stopDm', paused', lost'} \subseteq BOOLEAN
      <4>1. paused' = FALSE /\ UNCHANGED <<stopRecv, stopDrop, stopDm, lost>>
        BY <1>4 DEF StartInjection
      <4>2. paused' \in BOOLEAN
        BY <4>1
      <4>3. {stopRecv, stopDrop, stopDm, lost} \subseteq BOOLEAN
        BY DEF TypeOK
      <4> QED
        BY <4>1, <4>2, <4>3
    <3>5. main' \in {"waiting", "failed"} /\ timing' = Measured
      BY <1>4 DEF StartInjection
    <3>6. method' \in Methods /\ header' \in Headers
      BY <1>4 DEF StartInjection, TypeOK
    <3>7. recv' = "check" /\ drop' \in {"exit", "check"} /\ dm' \in {"exit", "check"}
      BY <1>4 DEF StartInjection, TypeOK
    <3>8. pktsHash' \subseteq Frames /\ pending' \subseteq Injections /\ dropped' \subseteq Injections
      BY <1>4 DEF StartInjection, TypeOK, Injections
    <3>9. tap' \in [Intfs -> Seq(Frames)]
      BY <1>4 DEF StartInjection, TypeOK
    <3> QED
      BY  <3>1, <3>2, <3>3, <3>4,<3>5, <3>6, <3>7, <3>8, <3>9  DEF TypeOK, Injections, Frames
  <2>2. HashesMatchPackets'
    BY <1>1, <1>4 DEF StartInjection, HashesMatchPackets
  <2>3. Measuring'
    BY <1>4 DEF StartInjection, TypeOK, Measuring
  <2> QED
    BY <2>1, <2>2, <2>3
<1>5. CASE WakeReceived
  <2>1. TypeOK'
    <3>1. timed' \in 0 .. inj'
      BY <1>2, <1>5 DEF WakeReceived, StopTiming, Stopped, TypeOK, Measuring, Measured
    <3>2. numPkts' \in 0 .. Cardinality(Frames)
      BY <1>2, <1>5 DEF WakeReceived, TypeOK
    <3>3. timing' \subseteq Measured
      BY <1>5 DEF WakeReceived, StopTiming, Stopped, TypeOK
    <3>4. main' \in {"waiting", "failed"}
      BY <1>5 DEF WakeReceived, StopTiming, Stopped, TypeOK
    <3> QED
      BY <1>5, <3>1, <3>2, <3>3, <3>4 DEF WakeReceived, TypeOK
  <2>2. HashesMatchPackets'
    BY <1>5 DEF WakeReceived, HashesMatchPackets
  <2>3. Measuring'
    <3>1. main = "waiting" /\ dropTs = 0 /\ numPkts' = Len(recvPkts) /\ Len(recvPkts) > numPkts /\ UNCHANGED <<inj, dropTs, recvPkts>>
      BY <1>5 DEF WakeReceived, More
    <3>2. numPkts \in Nat /\ inj \in Nat /\ timed \in Nat
      BY DEF TypeOK
    <3>3. main' = "waiting" /\ timing' = {} /\ timed' = inj
      <4>1. CASE numPkts = 0
        BY <1>5, <1>11, <3>1, <3>2, <4>1 DEF WakeReceived, StopTiming, Stopped, Measuring
      <4>2. CASE numPkts # 0
        BY <1>5, <3>1, <3>2, <4>2 DEF WakeReceived, Measuring
      <4> QED
        BY <4>1, <4>2
    <3> QED
      BY <1>2, <3>1, <3>2, <3>3 DEF Measuring
  <2> QED
    BY <2>1, <2>2, <2>3
<1>6. CASE WakeLeave
  <2>4. /\ main = "waiting" /\ (dropTs = 0 => Len(recvPkts) <= numPkts)
        /\ UNCHANGED <<inj, dropTs, recvPkts>>
    BY <1>2, <1>6 DEF WakeLeave, More, TypeOK
  <2>5. numPkts \in Nat /\ inj \in Nat /\ timed \in Nat
    BY DEF TypeOK
  <2>6. timing' = {} /\ timed' = inj
    <3>1. CASE dropTs # 0
      <4>1. CASE numPkts = 0
        BY <1>6, <1>11, <2>4, <2>5, <3>1, <4>1 DEF WakeLeave, StopTiming, Stopped, Measuring
      <4>2. CASE numPkts # 0
        BY <1>6, <1>11, <2>4, <2>5, <3>1, <4>2 DEF WakeLeave, StopTiming, Stopped, Measuring
      <4> QED
        BY <4>1, <4>2
    <3>2. CASE dropTs = 0
      BY <1>2, <1>3, <1>6, <1>11, <2>4, <2>5, <3>2 DEF WakeLeave, StopTiming, Stopped, Measuring
    <3> QED
      BY <3>1, <3>2
  <2>7. main' \in {"stop_recv", "failed"} /\ (main' = "failed" => dropTs # 0 /\ numPkts > 0)
    BY <1>2, <1>3, <1>6, <1>11, <2>4, <2>5 DEF WakeLeave, StopTiming, Measuring
  <2>1. TypeOK'
    <3>1. timed' \in 0 .. inj' /\ timing' \subseteq Measured
      BY <2>4, <2>5, <2>6
    <3>2. numPkts' \in 0 .. Cardinality(Frames)
      BY <1>2, <1>6 DEF WakeLeave, TypeOK
    <3>3. paused' \in BOOLEAN
      BY <1>6 DEF WakeLeave
    <3> QED
      BY <1>6, <2>7, <3>1, <3>2, <3>3 DEF WakeLeave, TypeOK
  <2>2. HashesMatchPackets'
    BY <1>6 DEF WakeLeave, HashesMatchPackets
  <2>3. Measuring'
    BY <1>6, <2>4, <2>5, <2>6, <2>7 DEF WakeLeave, Measuring
  <2> QED
    BY <2>1, <2>2, <2>3
<1>7. CASE StopRecv \/ JoinRecv
  <2>1. TypeOK'
    BY <1>7 DEF StopRecv, JoinRecv, Interrupted, TypeOK
  <2>2. HashesMatchPackets' /\ Measuring'
    BY <1>7 DEF StopRecv, JoinRecv, HashesMatchPackets, Measuring
  <2> QED
    BY <2>1, <2>2
<1>8. CASE StopDrop \/ JoinDrop
  <2>1. TypeOK'
    BY <1>8 DEF StopDrop, JoinDrop, Interrupted, TypeOK
  <2>2. HashesMatchPackets' /\ Measuring'
    BY <1>8 DEF StopDrop, JoinDrop, HashesMatchPackets, Measuring
  <2> QED
    BY <2>1, <2>2
<1>9. CASE StopListening \/ JoinDm
  <2>1. TypeOK'
    <3>1. alerts' \in Seq(0 .. MaxInj)
      <4>1. alerts \in Seq(0 .. MaxInj) /\ 0 \in 0 .. MaxInj
        BY DEF TypeOK
      <4>2. <<>> \in Seq(0 .. MaxInj) /\ Append(alerts, 0) \in Seq(0 .. MaxInj)
        BY <4>1
      <4>3. alerts' \in {<<>>, alerts, Append(alerts, 0)}
        BY <1>9 DEF StopListening, JoinDm
      <4> QED
        BY <4>1, <4>2, <4>3
    <3>2. detTs' \in 0 .. MaxInj
      BY <1>9 DEF StopListening, JoinDm, TypeOK
    <3>4. stopDm' \in BOOLEAN
      BY <1>9 DEF StopListening, JoinDm, TypeOK
    <3>3. main' \in {"join_dm", "collect"}
      BY <1>9 DEF StopListening, JoinDm
    <3> QED
      BY <1>9, <3>1, <3>2, <3>3, <3>4 DEF StopListening, JoinDm, TypeOK
  <2>2. HashesMatchPackets' /\ Measuring'
    BY <1>9 DEF StopListening, JoinDm, HashesMatchPackets, Measuring
  <2> QED
    BY <2>1, <2>2
<1>10. CASE Collect
  <2>1. TypeOK'
    BY <1>10 DEF Collect, TypeOK
  <2>2. HashesMatchPackets' /\ Measuring'
    BY <1>1, <1>10 DEF Collect, HashesMatchPackets, Measuring
  <2> QED
    BY <2>1, <2>2
<1> QED
  BY <1>4, <1>5, <1>6, <1>7, <1>8, <1>9, <1>10 DEF Main

LEMMA RecvKeepsSendInv == SendInv /\ Recv => SendInv'
<1> SUFFICES ASSUME SendInv, Recv PROVE SendInv'
  OBVIOUS
<1> USE SendPktAssumption DEF SendInv, detection, buffers, stats, flags, threads, kernel
<1>1. CASE RecvLoop
  <2>1. TypeOK'
    BY <1>1 DEF RecvLoop, TypeOK
  <2> QED
    BY <1>1, <2>1 DEF RecvLoop, HashesMatchPackets, Measuring
<1>2. CASE ReadPackets
  <2>1. tap \in [Intfs -> Seq(Frames)] /\ Ready \in Seq(Intfs)
    BY ReadyFacts DEF TypeOK
  <2>2. batch' \in Seq(Frames)
    <3>1. \A k \in DOMAIN Ready : Head(tap[Ready[k]]) \in Frames
      BY <2>1, ReadyFacts
    <3>2. DOMAIN Ready = 1 .. Len(Ready) /\ Len(Ready) \in Nat
      BY <2>1
    <3> QED
      BY <1>2, <3>1, <3>2 DEF ReadPackets
  <2>3. tap' \in [Intfs -> Seq(Frames)]
    <3>1. \A i \in Intfs : (IF tap[i] = <<>> THEN <<>> ELSE Tail(tap[i])) \in Seq(Frames)
      BY <2>1
    <3> QED
      BY <1>2, <3>1 DEF ReadPackets
  <2>4. TypeOK'
    BY <1>2, <2>2, <2>3 DEF ReadPackets, TypeOK
  <2> QED
    BY <1>2, <2>4 DEF ReadPackets, HashesMatchPackets, Measuring
<1>3. CASE StorePackets
  <2> DEFINE b == NewPackets(batch)
  <2>1. b \in Buffers /\ Matching(b) /\ Len(b.pkts) >= Len(recvPkts)
    BY NewPacketsFacts DEF TypeOK
  <2>2. recvPkts' = b.pkts /\ pktsHash' = b.hashes
    BY <1>3 DEF StorePackets
  <2> HIDE DEF b
  <2>3. recvPkts' \in Seq(Frames) /\ pktsHash' \subseteq Frames /\ HashesMatchPackets'
    BY <2>1, <2>2 DEF Buffers, Matching, HashesMatchPackets
  <2>4. TypeOK'
    <3>1. batch' \in Seq(Frames)
      BY <1>3 DEF StorePackets
    <3> QED
      BY <1>3, <2>3, <3>1 DEF StorePackets, TypeOK
  <2>5. Measuring'
    <3>1. Len(recvPkts') >= Len(recvPkts) /\ Len(recvPkts') \in Nat /\ Len(recvPkts) \in Nat
      BY <2>1, <2>2, <2>3 DEF TypeOK
    <3> QED
      BY <1>3, <3>1 DEF StorePackets, Measuring, TypeOK
  <2> QED
    BY <2>3, <2>4, <2>5
<1> QED
  BY <1>1, <1>2, <1>3 DEF Recv

LEMMA DropKeepsSendInv == SendInv /\ Drop => SendInv'
<1> SUFFICES ASSUME SendInv, Drop PROVE SendInv'
  OBVIOUS
<1> USE SendPktAssumption DEF SendInv, detection, buffers, stats, flags, threads, kernel
<1>1. CASE DropLoop
  <2>1. TypeOK'
    BY <1>1 DEF DropLoop, TypeOK
  <2> QED
    BY <1>1, <2>1 DEF DropLoop, HashesMatchPackets, Measuring
<1>2. CASE PollEvents
  <2>1. alerts \in Seq(0 .. MaxInj) /\ alerts # <<>>
    BY <1>2 DEF PollEvents, TypeOK
  <2>2. Last(alerts) \in 0 .. MaxInj /\ <<>> \in Seq(0 .. MaxInj)
    BY <2>1 DEF Last
  <2>3. TypeOK'
    BY <1>2, <2>2 DEF PollEvents, TypeOK
  <2> QED
    BY <1>2, <2>3 DEF PollEvents, HashesMatchPackets, Measuring
<1>3. CASE RecordDrop
  <2>1. main # "failed" /\ UNCHANGED <<main, numPkts, timing, timed, inj>>
    BY <1>3 DEF Drop, RecordDrop
  <2>2. CASE ts = 0
    <3>1. TypeOK'
      BY <1>3, <2>2 DEF RecordDrop, TypeOK
    <3> QED
      BY <1>3, <2>2, <3>1 DEF RecordDrop, HashesMatchPackets, Measuring
  <2>3. CASE ts # 0
    <3>1. recvPkts' = <<>> /\ pktsHash' = {} /\ dropTs' # 0
      BY <1>3, <2>3 DEF RecordDrop
    <3>2. HashesMatchPackets'
      BY <3>1, EmptyMatches DEF HashesMatchPackets, Matching
    <3>3. recvPkts' \in Seq(Frames)
      BY <3>1
    <3>4. TypeOK'
      BY <1>3, <2>3, <3>1, <3>3 DEF RecordDrop, TypeOK
    <3> QED
      BY <2>1, <3>1, <3>2, <3>4 DEF Measuring
  <2> QED
    BY <2>2, <2>3
<1> QED
  BY <1>1, <1>2, <1>3 DEF Drop

LEMMA DmKeepsSendInv == SendInv /\ Dm => SendInv'
<1> SUFFICES ASSUME SendInv, Dm PROVE SendInv'
  OBVIOUS
<1> USE SendPktAssumption DEF SendInv, detection, buffers, stats, flags, threads, kernel
<1>1. CASE DmLoop
  <2>1. TypeOK'
    BY <1>1 DEF DmLoop, TypeOK
  <2> QED
    BY <1>1, <2>1 DEF DmLoop, HashesMatchPackets, Measuring
<1>2. CASE RecvMsg
  <2>1. alerts \in Seq(0 .. MaxInj) /\ alerts # <<>>
    BY <1>2 DEF RecvMsg, TypeOK
  <2>2. Head(alerts) \in 0 .. MaxInj /\ Tail(alerts) \in Seq(0 .. MaxInj)
    BY <2>1
  <2>3. TypeOK'
    BY <1>2, <2>2 DEF RecvMsg, Interrupted, TypeOK
  <2> QED
    BY <1>2, <2>3 DEF RecvMsg, HashesMatchPackets, Measuring
<1> QED
  BY <1>1, <1>2 DEF Dm

LEMMA EnvironmentKeepsSendInv == SendInv /\ Environment => SendInv'
<1> SUFFICES ASSUME SendInv, Environment PROVE SendInv'
  OBVIOUS
<1> USE SendPktAssumption DEF SendInv, detection, buffers, stats, flags, threads, kernel
<1>1. ASSUME NEW i \in Intfs, NEW o \in Outputs, Emit(i, o)
      PROVE  SendInv'
  <2>1. tap' \in [Intfs -> Seq(Frames)]
    <3>1. <<i, o>> \in Frames /\ tap \in [Intfs -> Seq(Frames)]
      BY DEF Frames, TypeOK
    <3>2. Append(tap[i], <<i, o>>) \in Seq(Frames)
      BY <3>1
    <3> QED
      BY <1>1, <3>1, <3>2 DEF Emit
  <2>2. TypeOK'
    BY <1>1, <2>1 DEF Emit, TypeOK
  <2> QED
    BY <1>1, <2>2 DEF Emit, HashesMatchPackets, Measuring
<1>2. CASE KernelDrop
  <2>1. inj \in 1 .. MaxInj /\ inj \in 0 .. MaxInj
    BY <1>2 DEF KernelDrop, Measuring, TypeOK
  <2>2. alerts' \in Seq(0 .. MaxInj)
    <3>1. alerts \in Seq(0 .. MaxInj)
      BY DEF TypeOK
    <3>2. Append(alerts, inj) \in Seq(0 .. MaxInj)
      BY <2>1, <3>1
    <3> QED
      BY <1>2, <3>1, <3>2 DEF KernelDrop
  <2>3. TypeOK'
    BY <1>2, <2>1, <2>2 DEF KernelDrop, TypeOK, Injections
  <2> QED
    BY <1>2, <2>3 DEF KernelDrop, HashesMatchPackets, Measuring
<1>3. ASSUME NEW k \in Injections, DeliverAlert(k)
      PROVE  SendInv'
  <2>1. k \in 0 .. MaxInj
    BY DEF Injections
  <2>2. alerts' \in Seq(0 .. MaxInj)
    <3>1. alerts \in Seq(0 .. MaxInj)
      BY DEF TypeOK
    <3>2. Append(alerts, k) \in Seq(0 .. MaxInj)
      BY <2>1, <3>1
    <3> QED
      BY <1>3, <3>1, <3>2 DEF DeliverAlert
  <2>3. TypeOK'
    BY <1>3, <2>2 DEF DeliverAlert, TypeOK
  <2> QED
    BY <1>3, <2>3 DEF DeliverAlert, HashesMatchPackets, Measuring
<1> QED
  BY <1>1, <1>2, <1>3 DEF Environment

LEMMA SendInvariant == Spec => []SendInv
<1>1. SendInv /\ [Next]_vars => SendInv'
  <2> SUFFICES ASSUME SendInv, [Next]_vars PROVE SendInv'
    OBVIOUS
  <2>1. CASE UNCHANGED vars
    BY <2>1 DEF SendInv, TypeOK, HashesMatchPackets, Measuring, vars,
                detection, buffers, stats, flags, threads, kernel
  <2> QED
    BY <2>1, MainKeepsSendInv, RecvKeepsSendInv, DropKeepsSendInv, DmKeepsSendInv,
       EnvironmentKeepsSendInv DEF Next
<1> QED
  BY SendInvInit, <1>1, PTL DEF Spec

\* The variables keep their types; in particular the caller never counts more
\* packets than there are different ones, however often they are retransmitted, so
\* its loop cannot go on for ever.
THEOREM SendTypeOK == Spec => []TypeOK
<1>1. SendInv => TypeOK
  BY DEF SendInv
<1> QED
  BY SendInvariant, <1>1, PTL

\* Whatever reads, drops and retransmissions come in whatever order, _pkts_hash holds
\* the hashes of the packets in _recv_pkts, each of them once.
THEOREM HashesMatchPacketsHolds == Spec => []HashesMatchPackets
<1>1. SendInv => HashesMatchPackets
  BY DEF SendInv
<1> QED
  BY SendInvariant, <1>1, PTL

\* Every injection that returns has measured one latency of each kind, and Stats only
\* throws when a drop is recorded after a response was counted.
THEOREM TimedOnceHolds == Spec => []TimedOnce
<1>1. SendInv => TimedOnce
  BY DEF SendInv, Measuring, TimedOnce
<1> QED
  BY SendInvariant, <1>1, PTL
=============================================================================
