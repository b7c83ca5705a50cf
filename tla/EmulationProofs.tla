--------------------------- MODULE EmulationProofs ---------------------------
(***************************************************************************)
(* Proofs about Emulation: what its emulations do to their containers does *)
(* not take part in the decisions of the pool, so what is proved of the    *)
(* pool holds of it with its containers.  Beyond that, for any middleboxes *)
(* and frames: there is one container for each emulation in use, and its   *)
(* driver is in its namespaces; frames left in a tap device are answers to *)
(* the claimed history; and numbers are translated between a container's   *)
(* connections and the state vector's.                                     *)
(***************************************************************************)
EXTENDS Emulation, EmulationPoolProofs, Induction

\* The actions of Emulation are those of the pool, each with what it does to drivers
\* and containers: what is proved of the pool holds of Emulation.
LEMMA EmulationImplementsPool == EmuSpec => Spec
<1>1. EmuInit => Init
  BY DEF EmuInit
<1>2. [EmuNext]_<<vars, emuVars>> => [Next]_vars
  <2> SUFFICES ASSUME [EmuNext]_<<vars, emuVars>>
               PROVE  [Next]_vars
    OBVIOUS
  <2>1. ASSUME NEW m \in Middleboxes, NEW p \in PacketsAt[m], EmuInject(m, p)
        PROVE  InjectPacket(m, p)
    BY <2>1 DEF EmuInject, InjectFrame, InjectPacket
  <2>2. CASE EmuReinit
    BY <2>2 DEF EmuReinit, Next
  <2>3. CASE EmuBacktrack
    BY <2>3 DEF EmuBacktrack, Next
  <2>4. CASE UNCHANGED <<vars, emuVars>>
    BY <2>4
  <2>5. QED
    BY <2>1, <2>2, <2>3, <2>4 DEF EmuNext, Next
<1>3. QED
  BY <1>1, <1>2, PTL DEF EmuSpec, Spec

\* Whatever its containers answer, and however late, the index of EmulationMgr and
\* the limits of the pool hold.
THEOREM EmulationPoolInv == EmuSpec => [](PoolIndexed /\ PoolWithinLimits)
BY EmulationImplementsPool, PoolIndexedHolds, PoolWithinLimitsHolds, PTL

\* The pool with its containers implements the forgetful middleboxes, too.
COROLLARY EmulationImplementsForgetful ==
  ASSUME PktsPerInjection = 1
  PROVE  EmuSpec => ImplementsForgetful
BY EmulationImplementsPool, PoolImplementsForgetful

-----------------------------------------------------------------------------
(* Drivers, containers and frames                                          *)

Frames == [of : Packets, own : BOOLEAN, peer : Peers,
           flags : {"syn", "synack", "ack", "udp"}, seq : Int, port : Int]

Drivers == [ns : Nat, frames : Seq(Frames),
            seqOffsets : [Peers -> Int], portOffsets : [Peers -> Int],
            disordered : BOOLEAN, wrong : BOOLEAN]

Containers == [state : ContainerStates, dialed : BOOLEAN, life : LifeNumbers]

Pairs == [d : Drivers, k : Containers]

\* The numbers of a container in the life it has.
LEMMA NumbersOf ==
  ASSUME NEW k \in Containers
  PROVE  /\ Isn[k.life]["client"] \in Nat /\ Isn[k.life]["server"] \in Nat
         /\ Ephemeral[k.life] \in Nat /\ Ephemeral[k.life] >= 1024
<1> DEFINE l == k.life
<1>1. l \in LifeNumbers
  BY DEF Containers
<1> HIDE DEF l
<1>2. Isn[l]["client"] \in Nat /\ Isn[l]["server"] \in Nat
  BY <1>1, NumbersAssumption, Zenon DEF Peers
<1>3. Ephemeral[l] \in EphemeralPorts
  BY <1>1, NumbersAssumption
<1>4. \A n \in EphemeralPorts : n \in Nat /\ n >= 1024
  BY DEF EphemeralPorts
<1> QED
  BY <1>2, <1>3, <1>4 DEF l

\* What starting and removing a container leave.
LEMMA LifeFacts ==
  ASSUME NEW k \in Containers
  PROVE  /\ Removed(k) \in Containers /\ Removed(k).state = "absent" /\ ~Removed(k).dialed
         /\ Started(k) \in Containers /\ Started(k).state = "running" /\ ~Started(k).dialed
<1> DEFINE l == IF k.dialed THEN (k.life + 1) % Lives ELSE k.life
<1>1. l \in LifeNumbers
  BY LivesAssumption DEF Containers, LifeNumbers
<1>2. Removed(k) = [state |-> "absent", dialed |-> FALSE, life |-> l]
  BY DEF Removed
<1> HIDE DEF l
<1>3. Started(k) = [state |-> "running", dialed |-> FALSE, life |-> l]
  <2> DEFINE r == Removed(k)
  <2>1. r = [state |-> "absent", dialed |-> FALSE, life |-> l]
    BY <1>2
  <2>2. Started(k) = [r EXCEPT !.state = "running"]
    BY DEF Started
  <2> HIDE DEF r
  <2> QED
    BY <2>1, <2>2
<1> QED
  BY <1>1, <1>2, <1>3 DEF Containers, ContainerStates

\* The number of frames that update_offsets looks at.
OwnFrames(frames) ==
  LET foreign == {i \in DOMAIN frames : ~frames[i].own}
  IN IF foreign = {} THEN Len(frames)
     ELSE (CHOOSE i \in foreign : \A j \in foreign : i <= j) - 1

LEMMA OwnFramesType ==
  ASSUME NEW frames \in Seq(Frames)
  PROVE  OwnFrames(frames) \in 0 .. Len(frames)
<1> DEFINE foreign == {i \in DOMAIN frames : ~frames[i].own}
<1>1. Len(frames) \in Nat /\ foreign \in SUBSET (1 .. Len(frames))
  OBVIOUS
<1>2. CASE foreign = {}
  BY <1>1, <1>2 DEF OwnFrames
<1>3. CASE foreign # {}
  <2> DEFINE first == CHOOSE i \in foreign : \A j \in foreign : i <= j
  <2>1. \E i \in foreign : \A j \in foreign : i <= j
    <3>1. foreign \in SUBSET Nat
      BY <1>1
    <3> HIDE DEF foreign
    <3> QED
      BY <1>3, <3>1, LeastNatural
  <2>2. first \in foreign
    BY <2>1
  <2>3. OwnFrames(frames) = first - 1
    BY <1>3, Zenon DEF OwnFrames
  <2> HIDE DEF first, foreign
  <2> QED
    BY <1>1, <2>2, <2>3
<1> QED
  BY <1>2, <1>3

\* update_offsets for one frame: only the offsets towards its peer change.
LEMMA UpdateOffsetFacts ==
  ASSUME NEW d \in Drivers, NEW f \in Frames
  PROVE  /\ UpdateOffset(d, f) \in Drivers
         /\ UpdateOffset(d, f).ns = d.ns
         /\ UpdateOffset(d, f).frames = d.frames
         /\ UpdateOffset(d, f).disordered = d.disordered
         /\ UpdateOffset(d, f).wrong = d.wrong
         /\ UpdateOffset(d, f).seqOffsets[f.peer] =
              IF HasIsn(f) THEN f.seq ELSE d.seqOffsets[f.peer]
         /\ UpdateOffset(d, f).portOffsets[f.peer] =
              IF f.flags = "syn" /\ f.port >= 1024 THEN f.port - DynamicPort
              ELSE d.portOffsets[f.peer]
         /\ \A q \in Peers \ {f.peer} :
              /\ UpdateOffset(d, f).seqOffsets[q] = d.seqOffsets[q]
              /\ UpdateOffset(d, f).portOffsets[q] = d.portOffsets[q]
<1> DEFINE S == IF HasIsn(f) THEN f.seq ELSE d.seqOffsets[f.peer]
           P == IF f.flags = "syn" /\ f.port >= 1024 THEN f.port - DynamicPort
                ELSE d.portOffsets[f.peer]
           u == [d EXCEPT !.seqOffsets = [d.seqOffsets EXCEPT ![f.peer] = S],
                          !.portOffsets = [d.portOffsets EXCEPT ![f.peer] = P]]
<1>1. UpdateOffset(d, f) = u
  BY DEF UpdateOffset
<1>2. S \in Int /\ P \in Int
  BY DEF Drivers, Frames, DynamicPort
<1>3. /\ [d.seqOffsets EXCEPT ![f.peer] = S] \in [Peers -> Int]
      /\ [d.portOffsets EXCEPT ![f.peer] = P] \in [Peers -> Int]
  <2> HIDE DEF S, P
  <2> QED
    BY <1>2 DEF Drivers
<1>3a. /\ f.peer \in Peers /\ d.seqOffsets \in [Peers -> Int]
       /\ d.portOffsets \in [Peers -> Int]
  BY DEF Drivers, Frames
<1> HIDE DEF S, P
<1>4. u \in Drivers /\ u.ns = d.ns /\ u.frames = d.frames
      /\ u.disordered = d.disordered /\ u.wrong = d.wrong
      /\ u.seqOffsets = [d.seqOffsets EXCEPT ![f.peer] = S]
      /\ u.portOffsets = [d.portOffsets EXCEPT ![f.peer] = P]
  BY <1>3 DEF Drivers
<1>5. /\ u.seqOffsets[f.peer] = S /\ u.portOffsets[f.peer] = P
      /\ \A q \in Peers \ {f.peer} : /\ u.seqOffsets[q] = d.seqOffsets[q]
                                     /\ u.portOffsets[q] = d.portOffsets[q]
  <2> HIDE DEF u
  <2> QED
    BY <1>3a, <1>4
<1> HIDE DEF u
<1> QED
  BY <1>1, <1>4, <1>5 DEF S, P

LEMMA UpdateOffsetType ==
  ASSUME NEW d \in Drivers, NEW f \in Frames
  PROVE  /\ UpdateOffset(d, f) \in Drivers
         /\ UpdateOffset(d, f).ns = d.ns
         /\ UpdateOffset(d, f).frames = d.frames
         /\ UpdateOffset(d, f).disordered = d.disordered
         /\ UpdateOffset(d, f).wrong = d.wrong
BY UpdateOffsetFacts

\* update_offsets, the loop unfolded: g has the driver after each frame.
LEMMA UpdateOffsetsLoop ==
  ASSUME NEW d \in Drivers, NEW frames \in Seq(Frames)
  PROVE  LET n == OwnFrames(frames)
             raw == \E i \in n + 1 .. Len(frames) : frames[i].own
         IN \E g \in [0 .. n -> Drivers] :
              /\ g[0] = d
              /\ \A i \in 1 .. n : g[i] = UpdateOffset(g[i - 1], frames[i])
              /\ UpdateOffsets(d, frames) =
                   [g[n] EXCEPT
                      !.disordered = @ \/ raw,
                      !.wrong = \/ @
                                \/ raw
                                \/ \E i \in 1 .. n : Normalized(g[i], frames[i])
                                                       # Relative(frames[i])]
<1> DEFINE n == OwnFrames(frames)
           raw == \E i \in n + 1 .. Len(frames) : frames[i].own
           after[i \in 0 .. n] ==
             IF i = 0 THEN d ELSE UpdateOffset(after[i - 1], frames[i])
           D == [x \in Drivers \X (1 .. n) |-> UpdateOffset(x[1], frames[x[2]])]
<1>1. n \in Nat /\ n \in 0 .. Len(frames)
  BY OwnFramesType
<1>2. UpdateOffsets(d, frames) =
        [after[n] EXCEPT
           !.disordered = @ \/ raw,
           !.wrong = \/ @
                     \/ raw
                     \/ \E i \in 1 .. n : Normalized(after[i], frames[i])
                                            # Relative(frames[i])]
  BY DEF UpdateOffsets, OwnFrames
<1> HIDE DEF n
<1>3. D \in [Drivers \X (1 .. n) -> Drivers]
  <2>1. \A i \in 1 .. n : frames[i] \in Frames
    BY <1>1
  <2> QED
    BY <2>1, UpdateOffsetType
<1>4. \A v \in Drivers : \A i \in 1 .. n : D[<<v, i>>] = UpdateOffset(v, frames[i])
  OBVIOUS
<1> HIDE DEF D
<1>5. PICK g \in [0 .. n -> Drivers] : Iterates(g, d, D, n)
  <2> HIDE DEF after
  <2>1. D \in Bodies(Drivers, n)
    BY <1>3 DEF Bodies
  <2> QED
    BY <1>1, <2>1, LoopRuns
<1>6. ASSUME NEW i \in 0 .. n
      PROVE  g[i] = IF i = 0 THEN d ELSE UpdateOffset(g[i - 1], frames[i])
  <2> HIDE DEF after
  <2>1. CASE i # 0
    <3>1. i \in 1 .. n /\ i - 1 \in 0 .. n
      BY <1>1, <2>1
    <3> QED
      BY <1>4, <1>5, <2>1, <3>1 DEF Iterates
  <2> QED
    BY <1>5, <2>1 DEF Iterates
<1>7. g = [i \in 0 .. n |-> IF i = 0 THEN d ELSE UpdateOffset(g[i - 1], frames[i])]
  <2> HIDE DEF after
  <2> QED
    BY <1>6
<1>8. after = [i \in 0 .. n |-> IF i = 0 THEN d ELSE UpdateOffset(after[i - 1], frames[i])]
  BY <1>7
<1> HIDE DEF after
<1>9. after \in [0 .. n -> Drivers]
  <2>1. after[0] \in Drivers
    BY <1>1, <1>8
  <2>2. \A i \in 1 .. n : after[i - 1] \in Drivers => after[i] \in Drivers
    <3> SUFFICES ASSUME NEW i \in 1 .. n, after[i - 1] \in Drivers
                 PROVE  after[i] \in Drivers
      OBVIOUS
    <3>1. frames[i] \in Frames /\ i \in 0 .. n /\ i # 0
      BY <1>1
    <3>2. after[i] = UpdateOffset(after[i - 1], frames[i])
      BY <1>8, <3>1
    <3> QED
      BY <3>1, <3>2, UpdateOffsetType
  <2>3. \A i \in 0 .. n : after[i] \in Drivers
    BY <1>1, <2>1, <2>2, LoopInvariant
  <2> QED
    BY <1>8, <2>3
<1>10. after[0] = d /\ \A i \in 1 .. n : after[i] = UpdateOffset(after[i - 1], frames[i])
  BY <1>1, <1>8
<1> QED
  BY <1>2, <1>9, <1>10 DEF n

\* update_offsets neither reads nor writes the taps, and knows of a frame it did not
\* expect where it was.
LEMMA UpdateOffsetsType ==
  ASSUME NEW d \in Drivers, NEW frames \in Seq(Frames)
  PROVE  /\ UpdateOffsets(d, frames) \in Drivers
         /\ UpdateOffsets(d, frames).ns = d.ns
         /\ UpdateOffsets(d, frames).frames = d.frames
         /\ d.disordered => UpdateOffsets(d, frames).disordered
<1> DEFINE n == OwnFrames(frames)
           raw == \E i \in n + 1 .. Len(frames) : frames[i].own
           I == {v \in Drivers : /\ v.ns = d.ns /\ v.frames = d.frames
                                 /\ v.disordered = d.disordered}
<1>1. n \in 0 .. Len(frames) /\ n \in Nat
  BY OwnFramesType
<1>2. PICK g \in [0 .. n -> Drivers] :
        /\ g[0] = d
        /\ \A i \in 1 .. n : g[i] = UpdateOffset(g[i - 1], frames[i])
        /\ UpdateOffsets(d, frames) =
             [g[n] EXCEPT
                !.disordered = @ \/ raw,
                !.wrong = \/ @
                          \/ raw
                          \/ \E i \in 1 .. n : Normalized(g[i], frames[i])
                                                 # Relative(frames[i])]
  BY UpdateOffsetsLoop
<1> HIDE DEF n
<1>3. ASSUME NEW i \in 1 .. n, g[i - 1] \in I
      PROVE  g[i] \in I
  <2>1. frames[i] \in Frames /\ g[i] = UpdateOffset(g[i - 1], frames[i])
    BY <1>1, <1>2
  <2> QED
    BY <1>3, <2>1, UpdateOffsetType, SMTT(30)
<1>4. g[n] \in I
  <2>1. g[0] \in I
    BY <1>2
  <2> HIDE DEF I
  <2>2. \A i \in 0 .. n : g[i] \in I
    BY <1>1, <1>3, <2>1, LoopInvariant
  <2> QED
    BY <1>1, <2>2
<1>5. PICK a \in BOOLEAN, b \in BOOLEAN :
        UpdateOffsets(d, frames) = [g[n] EXCEPT !.disordered = @ \/ a, !.wrong = @ \/ b]
  <2> DEFINE b == raw \/ \E i \in 1 .. n : Normalized(g[i], frames[i]) # Relative(frames[i])
  <2>1. UpdateOffsets(d, frames) = [g[n] EXCEPT !.disordered = @ \/ raw, !.wrong = @ \/ b]
    BY <1>2
  <2>2. raw \in BOOLEAN /\ b \in BOOLEAN
    OBVIOUS
  <2> HIDE DEF raw, b
  <2> QED
    BY <2>1, <2>2
<1> QED
  BY <1>4, <1>5 DEF Drivers

LEMMA AnswersType ==
  ASSUME NEW p \in Packets, NEW k \in Containers, NEW a \in Answers(k, p)
  PROVE  /\ a \in Seq(Frames)
         /\ \A i \in DOMAIN a : a[i].of = p
<1> DEFINE isn == Isn[k.life]
           port == Ephemeral[k.life]
           synack == Frame(p, TRUE, "client", "synack", isn["client"], ServerPort)
           syn == Frame(p, TRUE, "server", "syn", isn["server"], port)
           ack == Frame(p, TRUE, "server", "ack", isn["server"] + 1, port)
           report == Frame(p, FALSE, "server", "udp", 0, 0)
<1>1. a \in {<<synack, syn>>, <<synack, report, syn>>, <<ack>>, <<>>}
  BY KindAssumption, Zenon DEF Answers, Kinds
<1>2. /\ synack \in Frames /\ syn \in Frames /\ ack \in Frames /\ report \in Frames
      /\ synack.of = p /\ syn.of = p /\ ack.of = p /\ report.of = p
  <2>1. isn["client"] \in Int /\ isn["server"] \in Int /\ port \in Int
    BY NumbersOf
  <2> HIDE DEF isn, port
  <2> QED
    BY <2>1 DEF Frame, Frames, Peers, ServerPort
<1> HIDE DEF synack, syn, ack, report
<1>3. CASE a = <<synack, syn>>
  BY <1>2, <1>3
<1>4. CASE a = <<synack, report, syn>>
  BY <1>2, <1>4
<1>5. CASE a = <<ack>>
  BY <1>2, <1>5
<1>6. CASE a = <<>>
  BY <1>6
<1> QED
  BY <1>1, <1>3, <1>4, <1>5, <1>6

\* What a packet leaves as it is: the life of the container, and the frames that are
\* still in its taps, with which its answers are.
LEMMA SendFacts ==
  ASSUME NEW w \in Pairs, NEW p \in Packets, NEW u \in Send(w, p)
  PROVE  /\ u \in Pairs
         /\ u.d.ns = w.d.ns
         /\ u.k.state = w.k.state
         /\ w.d.disordered => u.d.disordered
         /\ \A i \in DOMAIN u.d.frames :
              \/ u.d.frames[i].of = p
              \/ \E j \in DOMAIN w.d.frames : u.d.frames[i] = w.d.frames[j]
<1>1. PICK v \in Written(w, p) : \E n \in Reads(v.d.frames) :
        u = [v EXCEPT !.d = Received(v, n)]
  BY DEF Send
<1>1a. PICK n \in Reads(v.d.frames) : u = [v EXCEPT !.d = Received(v, n)]
  BY <1>1
<1>2. PICK a : /\ a \in Seq(Frames)
               /\ \A i \in DOMAIN a : a[i].of = p
               /\ \E x \in BOOLEAN, y \in BOOLEAN :
                    /\ v.d = [w.d EXCEPT !.frames = @ \o a, !.wrong = x]
                    /\ v.k = [w.k EXCEPT !.dialed = y]
                    /\ v = [w EXCEPT !.d = v.d, !.k = v.k]
  <2> DEFINE pkt == ApplyOffsets(w.d, ModelPacket(p))
             wrong == <<pkt.ack, pkt.port>> \notin Expected(w.k, p)
             silent == wrong /\ Kind[p] = "synack"
             x == w.d.wrong \/ wrong
             y == w.k.dialed \/ Kind[p] = "syn"
  <2>1. PICK a \in IF silent THEN {<<>>} ELSE Answers(w.k, p) :
          v = [w EXCEPT !.d.frames = @ \o a, !.d.wrong = x, !.k.dialed = y]
    BY DEF Written
  <2>2. x \in BOOLEAN /\ y \in BOOLEAN
    OBVIOUS
  <2> HIDE DEF wrong, silent
  <2>3. a \in Seq(Frames) /\ \A i \in DOMAIN a : a[i].of = p
    <3>1. CASE silent
      BY <3>1
    <3>2. CASE ~silent
      <4>1. a \in Answers(w.k, p) /\ w.k \in Containers
        BY <3>2 DEF Pairs
      <4> QED
        BY <4>1, AnswersType
    <3> QED
      BY <3>1, <3>2
  <2> HIDE DEF x, y
  <2>4. /\ v.d = [w.d EXCEPT !.frames = @ \o a, !.wrong = x]
        /\ v.k = [w.k EXCEPT !.dialed = y]
        /\ v = [w EXCEPT !.d = v.d, !.k = v.k]
    <3>1. w = [d |-> w.d, k |-> w.k]
      BY DEF Pairs
    <3> QED
      BY <2>1, <3>1
  <2> QED
    BY <2>2, <2>3, <2>4
<1>3. /\ v \in Pairs /\ v.d.ns = w.d.ns /\ v.k.state = w.k.state
      /\ v.d.frames = w.d.frames \o a
      /\ v.d.disordered = w.d.disordered
  <2>1. PICK x \in BOOLEAN, y \in BOOLEAN :
          /\ v.d = [w.d EXCEPT !.frames = @ \o a, !.wrong = x]
          /\ v.k = [w.k EXCEPT !.dialed = y]
          /\ v = [w EXCEPT !.d = v.d, !.k = v.k]
    BY <1>2
  <2>2. w.d \in Drivers /\ w.k \in Containers
    BY DEF Pairs
  <2>3. /\ v.d.ns = w.d.ns /\ v.k.state = w.k.state
        /\ v.d.frames = w.d.frames \o a
        /\ v.d.disordered = w.d.disordered
    BY <2>1, <2>2 DEF Drivers, Containers
  <2>4. w.d.frames \o a \in Seq(Frames)
    BY <1>2, <2>2 DEF Drivers
  <2>5. v.d \in Drivers /\ v.k \in Containers
    BY <2>1, <2>2, <2>4 DEF Drivers, Containers
  <2> QED
    BY <2>1, <2>3, <2>5 DEF Pairs
<1>4. v.d.frames \in Seq(Frames) /\ n \in 0 .. Len(v.d.frames)
  BY <1>3 DEF Reads, Pairs, Drivers
<1>5. /\ LeftInTaps(v, n) \in Seq(Frames) /\ ReadPackets(v, n) \in Seq(Frames)
      /\ \A i \in DOMAIN LeftInTaps(v, n) :
           \E j \in DOMAIN v.d.frames : LeftInTaps(v, n)[i] = v.d.frames[j]
  BY <1>4 DEF LeftInTaps, ReadPackets
<1> DEFINE left == [v.d EXCEPT !.frames = LeftInTaps(v, n),
                               !.disordered = @ \/ LeftInTaps(v, n) # <<>>]
<1>6. /\ left \in Drivers /\ left.ns = v.d.ns /\ left.frames = LeftInTaps(v, n)
      /\ v.d.disordered => left.disordered
  BY <1>3, <1>5 DEF Pairs, Drivers
<1>7. u.d = UpdateOffsets(left, ReadPackets(v, n)) /\ u.k = v.k
  BY <1>1a, <1>3 DEF Received, Pairs
<1> HIDE DEF left
<1>8. /\ u.d \in Drivers /\ u.d.ns = v.d.ns /\ u.d.frames = LeftInTaps(v, n)
      /\ v.d.disordered => u.d.disordered
  BY <1>5, <1>6, <1>7, UpdateOffsetsType
<1>9. u \in Pairs
  BY <1>1a, <1>3, <1>7, <1>8 DEF Pairs
<1>10. ASSUME NEW j \in DOMAIN v.d.frames
       PROVE  \/ v.d.frames[j].of = p
              \/ \E l \in DOMAIN w.d.frames : v.d.frames[j] = w.d.frames[l]
  <2>1. w.d.frames \in Seq(Frames)
    BY DEF Pairs, Drivers
  <2>2. CASE j <= Len(w.d.frames)
    BY <1>2, <1>3, <2>1, <2>2
  <2>3. CASE j > Len(w.d.frames)
    <3> DEFINE old == w.d.frames
    <3>1. old \in Seq(Frames) /\ a \in Seq(Frames) /\ j \in DOMAIN (old \o a) /\ j > Len(old)
      BY <1>2, <1>3, <2>1, <2>3
    <3> HIDE DEF old
    <3>2. j - Len(old) \in DOMAIN a /\ (old \o a)[j] = a[j - Len(old)]
      BY <3>1
    <3> QED
      BY <1>2, <1>3, <3>2 DEF old
  <2> QED
    BY <1>2, <1>3, <2>1, <2>2, <2>3
<1> QED
  BY <1>3, <1>5, <1>7, <1>8, <1>9, <1>10, SMTT(30)

\* What holds of a driver and its container before the packets of a sequence are
\* sent, and after one if it held before that, holds when all have been sent.
LEMMA SendAllInduction ==
  ASSUME NEW w \in Pairs, NEW pkts \in Seq(Packets), NEW I \in SUBSET Pairs,
         w \in I,
         \A v \in I : \A i \in DOMAIN pkts : Send(v, pkts[i]) \subseteq I
  PROVE  SendAll(w, pkts) \subseteq I
<1> DEFINE n == Len(pkts)
           Sets == SUBSET Pairs
           Step(S, i) == UNION {Send(v, pkts[i]) : v \in S}
           sent[i \in 0 .. n] == IF i = 0 THEN {w} ELSE Step(sent[i - 1], i)
           D == [x \in Sets \X (1 .. n) |-> Step(x[1], x[2])]
<1>1. n \in Nat /\ \A i \in 1 .. n : i \in DOMAIN pkts /\ pkts[i] \in Packets
  OBVIOUS
<1>2. SendAll(w, pkts) = sent[n]
  BY DEF SendAll
<1> HIDE DEF n
<1>3. D \in Bodies(Sets, n)
  <2>1. \A S \in Sets : \A i \in 1 .. n : Step(S, i) \in Sets
    BY <1>1, SendFacts
  <2> HIDE DEF Step
  <2> QED
    BY <2>1 DEF Bodies
<1>4. \A S \in Sets : \A i \in 1 .. n : D[<<S, i>>] = Step(S, i)
  <2> HIDE DEF Step
  <2> QED
    OBVIOUS
<1>5. \A i \in 1 .. n : \A S \in SUBSET I : Step(S, i) \in SUBSET I
  BY <1>1
<1> HIDE DEF D, Step
<1>6. PICK g \in [0 .. n -> Sets] : Iterates(g, {w}, D, n)
  <2> HIDE DEF sent
  <2>1. {w} \in Sets
    OBVIOUS
  <2> HIDE DEF Sets
  <2> QED
    BY <1>1, <1>3, <2>1, LoopRuns
<1>7. ASSUME NEW i \in 0 .. n
      PROVE  g[i] = IF i = 0 THEN {w} ELSE Step(g[i - 1], i)
  <2> HIDE DEF sent
  <2>1. CASE i # 0
    <3>1. i \in 1 .. n /\ i - 1 \in 0 .. n
      BY <1>1, <2>1
    <3> QED
      BY <1>4, <1>6, <2>1, <3>1 DEF Iterates
  <2> QED
    BY <1>6, <2>1 DEF Iterates
<1>8. g = [i \in 0 .. n |-> IF i = 0 THEN {w} ELSE Step(g[i - 1], i)]
  <2> HIDE DEF sent
  <2> QED
    BY <1>7
<1>9. sent = [i \in 0 .. n |-> IF i = 0 THEN {w} ELSE Step(sent[i - 1], i)]
  BY <1>8
<1> HIDE DEF sent
<1>10. sent[0] \in SUBSET I
  BY <1>1, <1>9
<1>11. ASSUME NEW i \in 1 .. n, sent[i - 1] \in SUBSET I
       PROVE  sent[i] \in SUBSET I
  <2>1. i \in 0 .. n /\ i # 0
    BY <1>1
  <2>2. sent[i] = Step(sent[i - 1], i)
    BY <1>9, <2>1
  <2> QED
    BY <1>5, <1>11, <2>2
<1>12. \A i \in 0 .. n : sent[i] \in SUBSET I
  BY <1>1, <1>10, <1>11, LoopInvariant
<1> QED
  BY <1>1, <1>2, <1>12

-----------------------------------------------------------------------------
(* An injection                                                            *)

EmuTypeOK ==
  /\ driver \in [Emulations -> Drivers]
  /\ containers \in [Middleboxes -> Containers]

\* The emulation e serves m and has a container of that life.
Serves(w) == w.k.state = "running" /\ w.d.ns = ThisLife

\* A driver that has seen nothing since the container was started.
Clean(d) ==
  /\ \A q \in Peers : d.seqOffsets[q] = 0 /\ d.portOffsets[q] = 0
  /\ ~d.disordered
  /\ ~d.wrong

LEMMA NoDriverClean == NoDriver \in Drivers /\ Clean(NoDriver)
<1>1. NoDriver \in Drivers
  BY DEF NoDriver, Drivers, NoLife, Peers
<1>2. Clean(NoDriver)
  BY DEF NoDriver, Clean, Peers
<1> QED
  BY <1>1, <1>2

LEMMA ResetOffsets ==
  ASSUME NEW ns \in Nat, NEW frames \in Seq(Frames)
  PROVE  LET d == [NoDriver EXCEPT !.ns = ns, !.frames = frames]
         IN d \in Drivers /\ Clean(d)
BY NoDriverClean DEF Drivers, Clean

LEMMA CloseFacts ==
  ASSUME NEW w \in Pairs, Clean(w.d)
  PROVE  LET u == CloseDevices(w)
         IN u \in Pairs /\ Clean(u.d) /\ u.d.ns = NoLife /\ u.d.frames = <<>> /\ u.k = w.k
<1>1. w = [d |-> w.d, k |-> w.k] /\ w.d \in Drivers
  BY DEF Pairs
<1>2. /\ CloseDevices(w).d = [w.d EXCEPT !.ns = NoLife, !.frames = <<>>]
      /\ CloseDevices(w) = [w EXCEPT !.d = CloseDevices(w).d]
  BY <1>1 DEF CloseDevices
<1>3. NoLife \in Nat /\ <<>> \in Seq(Frames)
  BY DEF NoLife
<1>4. /\ CloseDevices(w).d \in Drivers /\ Clean(CloseDevices(w).d)
      /\ CloseDevices(w).d.ns = NoLife /\ CloseDevices(w).d.frames = <<>>
  BY <1>1, <1>2, <1>3 DEF Drivers, Clean
<1> QED
  BY <1>2, <1>4 DEF Pairs

LEMMA OpenFacts ==
  ASSUME NEW w \in Pairs, Clean(w.d)
  PROVE  LET u == OpenDevices(w)
         IN /\ u \in Pairs /\ Clean(u.d) /\ u.d.ns = ThisLife
            /\ u.d.frames = w.d.frames /\ u.k = w.k
<1>1. w = [d |-> w.d, k |-> w.k] /\ w.d \in Drivers
  BY DEF Pairs
<1>2. /\ OpenDevices(w).d = [w.d EXCEPT !.ns = ThisLife]
      /\ OpenDevices(w) = [w EXCEPT !.d = OpenDevices(w).d]
  BY <1>1 DEF OpenDevices
<1>3. /\ OpenDevices(w).d \in Drivers /\ Clean(OpenDevices(w).d)
      /\ OpenDevices(w).d.ns = ThisLife /\ OpenDevices(w).d.frames = w.d.frames
  <2>1. ThisLife \in Nat
    BY DEF ThisLife
  <2> QED
    BY <1>1, <1>2, <2>1 DEF Drivers, Clean
<1> QED
  BY <1>2, <1>3 DEF Pairs

\* What Emulation::init and rewind leave behind.
Afresh(w) == /\ w \in Pairs /\ Clean(w.d) /\ w.d.frames = <<>> /\ w.d.ns = ThisLife
             /\ w.k.state = "running" /\ ~w.k.dialed

LEMMA LaunchFacts ==
  ASSUME NEW w \in Pairs
  PROVE  Afresh(Launch(w))
<1> DEFINE v == [w EXCEPT !.d = NoDriver]
           t == CloseDevices(v)
           u == [TeardownDocker(v) EXCEPT !.k = RunCntr(@)]
<1>1. NoDriver \in Drivers /\ Clean(NoDriver)
  BY NoDriverClean
<1>2. v \in Pairs /\ v.d = NoDriver
  BY <1>1 DEF Pairs
<1> HIDE DEF v
<1>3. t \in Pairs /\ Clean(t.d) /\ t.d.frames = <<>>
  BY <1>1, <1>2, CloseFacts
<1>4. u = [[t EXCEPT !.k = Removed(@)] EXCEPT !.k = RunCntr(@)]
  BY DEF TeardownDocker
<1> HIDE DEF t, u
<1>5. t = [d |-> t.d, k |-> t.k] /\ RunCntr(Removed(t.k)) = Started(Removed(t.k))
  BY <1>3, LifeFacts DEF Pairs, RunCntr
<1>6. u.d = t.d /\ u.k.state = "running" /\ ~u.k.dialed /\ u \in Pairs
  <2>1. u = [d |-> t.d, k |-> Started(Removed(t.k))]
    BY <1>4, <1>5
  <2>2. Removed(t.k) \in Containers
    BY <1>3, LifeFacts DEF Pairs
  <2> QED
    BY <1>3, <2>1, <2>2, LifeFacts DEF Pairs
<1>7. Launch(w) = OpenDevices(u)
  BY DEF Launch, InitDocker, u, v
<1> QED
  BY <1>3, <1>6, <1>7, OpenFacts DEF Afresh

LEMMA ResetFacts ==
  ASSUME NEW w \in Pairs, w.k.state = "running"
  PROVE  Afresh(ResetEmulation(w))
<1> DEFINE d == [NoDriver EXCEPT !.ns = w.d.ns, !.frames = w.d.frames]
           v == [w EXCEPT !.d = d]
           t == CloseDevices(v)
           u == RestartCntr(t)
<1>1. d \in Drivers /\ Clean(d)
  <2>1. w.d.ns \in Nat /\ w.d.frames \in Seq(Frames)
    BY DEF Pairs, Drivers
  <2> QED
    BY <2>1, ResetOffsets
<1>2. v \in Pairs /\ v.d = d /\ v.k = w.k
  <2> HIDE DEF d
  <2> QED
    BY <1>1 DEF Pairs
<1>3. ResetEmulation(w) = OpenDevices(u)
  BY DEF ResetEmulation, ResetDocker
<1> HIDE DEF v, d
<1>4. t \in Pairs /\ Clean(t.d) /\ t.d.frames = <<>> /\ t.d.ns = NoLife /\ t.k = w.k
  BY <1>1, <1>2, CloseFacts
<1> HIDE DEF t
<1>5. u.k = Started(t.k) /\ u.d = [t.d EXCEPT !.ns = NoLife] /\ u = [d |-> u.d, k |-> u.k]
  <2>1. t = [d |-> t.d, k |-> t.k]
    BY <1>4 DEF Pairs
  <2>2. u = [t EXCEPT !.d.ns = NoLife, !.k = Started(@)]
    BY <1>4 DEF RestartCntr
  <2> QED
    BY <2>1, <2>2
<1> HIDE DEF u
<1>6. u.d \in Drivers /\ Clean(u.d) /\ u.d.frames = <<>>
  BY <1>4, <1>5 DEF Pairs, Drivers, Clean, NoLife
<1>7. u \in Pairs /\ u.k.state = "running" /\ ~u.k.dialed
  <2>1. t.k \in Containers
    BY <1>4 DEF Pairs
  <2> QED
    BY <1>5, <1>6, <2>1, LifeFacts DEF Pairs
<1> QED
  BY <1>3, <1>5, <1>6, <1>7, OpenFacts DEF Afresh

\* What get_emulation and rewind leave to send to.
LEMMA ReadyFacts ==
  ASSUME TypeOK, PoolInv, EmuTypeOK, ContainersOfPool,
         NEW m \in Middleboxes, NEW e \in GetEmulation(m, PktHist[m])
  PROVE  LET r == Ready(m, e)
         IN /\ r \in Pairs /\ Serves(r)
            /\ \/ Afresh(r)
               \/ /\ e \in emus /\ mb[e] = m /\ Entries(m) # {}
                  /\ ~NeedsReset(nph[e], PktHist[m])
                  /\ r = [d |-> driver[e], k |-> containers[m]]
<1> DEFINE w == [d |-> driver[e], k |-> containers[m]]
<1>1. e \in Emulations /\ (Entries(m) # {} => e \in emus /\ mb[e] = m)
  BY GetEmulationReturns DEF PoolInv
<1>2. w \in Pairs
  BY <1>1 DEF EmuTypeOK, Pairs, Containers
<1>3. Entries(m) # {} => Serves(w)
  BY <1>1 DEF ContainersOfPool, Serves
<1>4. Ready(m, e) = IF Entries(m) = {} THEN Launch(w)
                    ELSE IF NeedsReset(nph[e], PktHist[m]) THEN ResetEmulation(w)
                    ELSE w
  BY DEF Ready
<1> HIDE DEF w
<1>5. CASE Entries(m) = {}
  BY <1>2, <1>4, <1>5, LaunchFacts DEF Afresh, Serves
<1>6. CASE Entries(m) # {} /\ NeedsReset(nph[e], PktHist[m])
  <2>1. w.k.state = "running"
    BY <1>3, <1>6 DEF Serves
  <2> QED
    BY <1>2, <1>4, <1>6, <2>1, ResetFacts DEF Afresh, Serves
<1>7. CASE Entries(m) # {} /\ ~NeedsReset(nph[e], PktHist[m])
  BY <1>1, <1>2, <1>3, <1>4, <1>7 DEF w
<1> QED
  BY <1>5, <1>6, <1>7

\* What is sent are packets of the history, the injected one included.
LEMMA SentFacts ==
  ASSUME TypeOK, NEW m \in Middleboxes, NEW p \in Packets, NEW e \in Emulations
  PROVE  /\ Sent(m, p, e) \in Seq(Packets)
         /\ \A i \in DOMAIN Sent(m, p, e) :
              \E j \in DOMAIN Append(PktHist[m], p) :
                Sent(m, p, e)[i] = Append(PktHist[m], p)[j]
<1> DEFINE h == PktHist[m]
           old == IF Entries(m) = {} THEN <<>> ELSE nph[e]
           a == GetPacketsSince(h, old)
           b == IF Lookup(m, Append(h, p)) THEN <<>> ELSE Copies(p)
<1>1. h \in Seq(Packets) /\ old \in Seq(Packets)
  BY PktHistType DEF TypeOK, Histories
<1>2. Sent(m, p, e) = a \o b
  BY DEF Sent
<1> HIDE DEF h, old
<1>3. a \in Seq(Packets) /\ \A i \in DOMAIN a : \E j \in DOMAIN h : a[i] = h[j]
  BY <1>1 DEF GetPacketsSince, Contains
<1>4. b \in Seq(Packets) /\ \A i \in DOMAIN b : b[i] = p
  <2>1. \A i \in DOMAIN Copies(p) : Copies(p)[i] = p
    BY DEF Copies
  <2>2. Copies(p) \in Seq(Packets)
    BY CopiesType DEF Histories
  <2>3. b = <<>> \/ b = Copies(p)
    OBVIOUS
  <2> HIDE DEF b
  <2>4. CASE b = <<>>
    BY <2>4
  <2>5. CASE b = Copies(p)
    BY <2>1, <2>2, <2>5
  <2> QED
    BY <2>3, <2>4, <2>5
<1>5. /\ DOMAIN Append(h, p) = 1 .. Len(h) + 1
      /\ \A j \in DOMAIN h : j \in DOMAIN Append(h, p) /\ Append(h, p)[j] = h[j]
      /\ Append(h, p)[Len(h) + 1] = p /\ Len(h) + 1 \in DOMAIN Append(h, p)
  BY <1>1
<1> HIDE DEF a, b
<1>6. ASSUME NEW i \in DOMAIN (a \o b)
      PROVE  \E j \in DOMAIN Append(h, p) : (a \o b)[i] = Append(h, p)[j]
  <2>1. CASE i <= Len(a)
    <3>1. i \in DOMAIN a /\ (a \o b)[i] = a[i]
      BY <1>3, <1>4, <2>1
    <3> QED
      BY <1>3, <1>5, <3>1
  <2>2. CASE i > Len(a)
    <3>1. i - Len(a) \in DOMAIN b /\ (a \o b)[i] = b[i - Len(a)]
      BY <1>3, <1>4, <2>2
    <3> QED
      BY <1>4, <1>5, <3>1
  <2> QED
    BY <1>3, <1>4, <2>1, <2>2
<1>7. a \o b \in Seq(Packets)
  BY <1>3, <1>4
<1> QED
  BY <1>2, <1>6, <1>7 DEF h

\* An injection: the drivers of the other emulations and the containers of the other
\* middleboxes stay, but for that of a middlebox that loses its emulation.
LEMMA InjectFrameFacts ==
  ASSUME TypeOK, PoolInv, EmuTypeOK, ContainersOfPool,
         NEW m \in Middleboxes, NEW p \in Packets,
         NEW e \in GetEmulation(m, PktHist[m]), InjectFrame(m, p, e)
  PROVE  /\ emus' = emus \cup {e} /\ e \in Emulations
         /\ mb' = [mb EXCEPT ![e] = m]
         /\ nph' = [nph EXCEPT ![e] = Append(PktHist[m], p)]
         /\ \E w \in SendAll(Ready(m, e), Sent(m, p, e)) :
              /\ w \in Pairs /\ Serves(w)
              /\ driver' = [driver EXCEPT ![e] = w.d]
              /\ containers'[m] = w.k
         /\ \A n \in Middleboxes \ {m} :
              IF \E f \in emus' : mb'[f] = n THEN containers'[n] = containers[n]
              ELSE containers'[n].state = "absent"
         /\ containers' \in [Middleboxes -> Containers]
<1>1. /\ e \in Emulations
      /\ Entries(m) # {} => e \in emus /\ mb[e] = m
      /\ Entries(m) = {} => \A f \in emus : mb[f] # m
  BY GetEmulationReturns DEF PoolInv
<1>2. /\ emus' = emus \cup {e}
      /\ mb' = [mb EXCEPT ![e] = m]
      /\ nph' = [nph EXCEPT ![e] = Append(PktHist[m], p)]
  BY DEF InjectFrame, InjectInto
<1>3. PICK w \in SendAll(Ready(m, e), Sent(m, p, e)) :
        /\ driver' = [driver EXCEPT ![e] = w.d]
        /\ containers' = [Taken(m, e) EXCEPT ![m] = w.k]
  BY DEF InjectFrame
<1>4. w \in Pairs /\ Serves(w)
  <2> DEFINE I == {u \in Pairs : Serves(u)}
             r == Ready(m, e)
             pkts == Sent(m, p, e)
  <2>1. r \in I /\ pkts \in Seq(Packets)
    BY <1>1, ReadyFacts, SentFacts
  <2>2. \A v \in I : \A i \in DOMAIN pkts : Send(v, pkts[i]) \subseteq I
    <3> SUFFICES ASSUME NEW v \in I, NEW i \in DOMAIN pkts, NEW u \in Send(v, pkts[i])
                 PROVE  u \in I
      OBVIOUS
    <3>1. pkts[i] \in Packets
      BY <2>1
    <3> QED
      BY <3>1, SendFacts DEF Serves
  <2>3. I \in SUBSET Pairs /\ r \in Pairs
    BY <2>1
  <2> HIDE DEF I, r, pkts
  <2>4. SendAll(r, pkts) \subseteq I
    BY <2>1, <2>2, <2>3, SendAllInduction
  <2> QED
    BY <1>3, <2>4 DEF I, r, pkts
<1>5. containers' \in [Middleboxes -> Containers] /\ containers'[m] = w.k
  <2>1. \A n \in Middleboxes : Removed(containers[n]) \in Containers
    BY LifeFacts DEF EmuTypeOK
  <2>2. Taken(m, e) \in [Middleboxes -> Containers]
    BY <2>1 DEF Taken, EmuTypeOK
  <2>3. w.k \in Containers
    BY <1>4 DEF Pairs, Containers
  <2> QED
    BY <1>3, <2>2, <2>3
<1>6. ASSUME NEW n \in Middleboxes \ {m}
      PROVE  IF \E f \in emus' : mb'[f] = n THEN containers'[n] = containers[n]
             ELSE containers'[n].state = "absent"
  <2>1. containers'[n] = IF Entries(m) = {} /\ e \in emus /\ n = mb[e]
                         THEN Removed(containers[n]) ELSE containers[n]
    BY <1>3 DEF Taken
  <2>2. (\E f \in emus' : mb'[f] = n) <=> (\E f \in emus \ {e} : mb[f] = n)
    BY <1>1, <1>2 DEF TypeOK
  <2>3. CASE Entries(m) = {} /\ e \in emus /\ n = mb[e]
    <3>1. ~\E f \in emus \ {e} : mb[f] = n
      BY <2>3 DEF PoolInv, PoolWithinLimits
    <3>2. Removed(containers[n]).state = "absent"
      BY LifeFacts DEF EmuTypeOK
    <3> QED
      BY <2>1, <2>2, <2>3, <3>1, <3>2
  <2>4. CASE ~(Entries(m) = {} /\ e \in emus /\ n = mb[e])
    <3>1. (\E f \in emus : mb[f] = n) => \E f \in emus \ {e} : mb[f] = n
      BY <1>1, <2>4
    <3>2. (~\E f \in emus : mb[f] = n) => containers[n].state = "absent"
      BY DEF ContainersOfPool
    <3> QED
      BY <2>1, <2>2, <2>4, <3>1, <3>2
  <2> QED
    BY <2>3, <2>4
<1> QED
  BY <1>1, <1>2, <1>3, <1>4, <1>5, <1>6

\* Type correctness of the drivers and the containers.  It needs the containers of
\* the pool, since what a reset leaves depends on whether there is one.
EmuInv == EmuTypeOK /\ ContainersOfPool

LEMMA InjectEmuInv ==
  ASSUME TypeOK, PoolInv, EmuInv, PoolInv',
         NEW m \in Middleboxes, NEW p \in Packets,
         NEW e \in GetEmulation(m, PktHist[m]), InjectFrame(m, p, e)
  PROVE  EmuInv'
<1>1. /\ emus' = emus \cup {e} /\ e \in Emulations
      /\ mb' = [mb EXCEPT ![e] = m]
      /\ \A n \in Middleboxes \ {m} :
           IF \E f \in emus' : mb'[f] = n THEN containers'[n] = containers[n]
           ELSE containers'[n].state = "absent"
      /\ containers' \in [Middleboxes -> Containers]
  BY InjectFrameFacts DEF EmuInv
<1>2. PICK w \in Pairs : /\ Serves(w)
                         /\ driver' = [driver EXCEPT ![e] = w.d]
                         /\ containers'[m] = w.k
  BY InjectFrameFacts DEF EmuInv
<1>3. driver' \in [Emulations -> Drivers]
  BY <1>2 DEF EmuInv, EmuTypeOK, Pairs
<1>4. ASSUME NEW n \in Middleboxes,
             NEW owners, owners = {f \in emus' : mb'[f] = n}
      PROVE  IF owners = {} THEN containers'[n].state = "absent"
             ELSE /\ containers'[n].state = "running"
                  /\ \A f \in owners : driver'[f].ns = ThisLife
  <2>1. mb'[e] = m /\ \A f \in emus \ {e} : f \in Emulations /\ mb'[f] = mb[f]
    BY <1>1 DEF TypeOK
  <2>2. driver'[e] = w.d /\ \A f \in emus \ {e} : driver'[f] = driver[f]
    BY <1>1, <1>2 DEF EmuInv, EmuTypeOK, TypeOK
  <2>3. CASE n = m
    <3>1. owners = {e}
      BY <1>1, <1>4, <2>1, <2>3 DEF PoolInv, PoolWithinLimits
    <3> QED
      BY <1>2, <2>2, <2>3, <3>1 DEF Serves
  <2>4. CASE n # m /\ owners = {}
    BY <1>1, <1>4, <2>4
  <2>5. CASE n # m /\ owners # {}
    <3>1. owners \subseteq {f \in emus : mb[f] = n} /\ e \notin owners
      BY <1>1, <1>4, <2>1, <2>5
    <3>2. containers'[n] = containers[n]
      BY <1>1, <1>4, <2>5
    <3>3. containers[n].state = "running" /\ \A f \in owners : driver[f].ns = ThisLife
      BY <2>5, <3>1 DEF EmuInv, ContainersOfPool
    <3> QED
      BY <2>2, <2>5, <3>1, <3>2, <3>3
  <2> QED
    BY <2>3, <2>4, <2>5
<1>5. ContainersOfPool'
  BY <1>4 DEF ContainersOfPool
<1> QED
  BY <1>1, <1>3, <1>5 DEF EmuInv, EmuTypeOK

LEMMA EmuInvariant == EmuSpec => []EmuInv
<1>1. EmuInit => EmuInv
  <2>1. EmuInit => EmuTypeOK
    <3>1. Absent \in Containers
      BY LivesAssumption DEF Containers, LifeNumbers, Absent, ContainerStates
    <3> QED
      BY <3>1, NoDriverClean DEF EmuInit, EmuTypeOK
  <2>2. EmuInit => ContainersOfPool
    BY DEF EmuInit, Init, ContainersOfPool, Absent
  <2> QED
    BY <2>1, <2>2 DEF EmuInv
<1>2. TypeOK /\ PoolInv /\ PoolInv' /\ EmuInv /\ [EmuNext]_<<vars, emuVars>> => EmuInv'
  <2> SUFFICES ASSUME TypeOK, PoolInv, PoolInv', EmuInv, [EmuNext]_<<vars, emuVars>>
               PROVE  EmuInv'
    OBVIOUS
  <2>1. ASSUME NEW m \in Middleboxes, NEW p \in PacketsAt[m], EmuInject(m, p)
        PROVE  EmuInv'
    <3>1. p \in Packets
      BY PoolAssumption
    <3>2. PICK e \in GetEmulation(m, PktHist[m]) : InjectFrame(m, p, e)
      BY <2>1 DEF EmuInject
    <3> QED
      BY <3>1, <3>2, InjectEmuInv
  <2>2. CASE EmuReinit \/ EmuBacktrack \/ UNCHANGED <<vars, emuVars>>
    BY <2>2 DEF EmuReinit, EmuBacktrack, Reinit, Backtrack, vars, emuVars, EmuInv, EmuTypeOK,
                ContainersOfPool
  <2> QED
    BY <2>1, <2>2 DEF EmuNext
<1> QED
  BY <1>1, <1>2, EmulationImplementsPool, PoolTypeOK, PoolInvariant, PTL DEF EmuSpec

\* Whatever launches, resets and takeovers there were, the containers are those of
\* the pool, and the descriptors of each driver are of the life its container has.
THEOREM ContainersOfPoolHolds == EmuSpec => []ContainersOfPool
BY EmuInvariant, PTL DEF EmuInv

-----------------------------------------------------------------------------
(* The frames in the taps                                                  *)

\* The frames of e are answers to packets of the history it claims after an
\* injection, if they were before.
LEMMA InjectFrames ==
  ASSUME TypeOK, PoolInv, EmuInv, FramesWithinHistory,
         NEW m \in Middleboxes, NEW p \in Packets,
         NEW e \in GetEmulation(m, PktHist[m]), InjectFrame(m, p, e)
  PROVE  FramesWithinHistory'
<1> DEFINE h == PktHist[m]
           new == Append(h, p)
           r == Ready(m, e)
           pkts == Sent(m, p, e)
           Of(f) == \E j \in DOMAIN new : f.of = new[j]
           I == {w \in Pairs : \A i \in DOMAIN w.d.frames : Of(w.d.frames[i])}
<1>1. /\ emus' = emus \cup {e} /\ e \in Emulations
      /\ nph' = [nph EXCEPT ![e] = new]
      /\ \E w \in SendAll(r, pkts) : driver' = [driver EXCEPT ![e] = w.d]
  BY InjectFrameFacts DEF EmuInv
<1>2. pkts \in Seq(Packets) /\ \A i \in DOMAIN pkts : \E j \in DOMAIN new : pkts[i] = new[j]
  BY <1>1, SentFacts
<1>3. r \in I
  <2>1. r \in Pairs
    BY ReadyFacts DEF EmuInv
  <2>2. CASE Afresh(r)
    BY <2>1, <2>2 DEF Afresh
  <2>3. CASE /\ e \in emus /\ ~NeedsReset(nph[e], h)
             /\ r = [d |-> driver[e], k |-> containers[m]]
    <3>1. h \in Seq(Packets) /\ nph[e] \in Seq(Packets)
      BY <1>1, PktHistType DEF TypeOK, Histories
    <3>2. nph[e] = h \/ (Len(nph[e]) <= Len(h) /\ SubSeq(h, 1, Len(nph[e])) = nph[e])
      BY <2>3 DEF NeedsReset, Contains
    <3> HIDE DEF h
    <3>3. \A j \in DOMAIN nph[e] : j \in DOMAIN new /\ nph[e][j] = new[j]
      <4>1. \A j \in DOMAIN nph[e] : j \in DOMAIN h /\ nph[e][j] = h[j]
        <5>1. CASE nph[e] = h
          BY <5>1
        <5>2. CASE Len(nph[e]) <= Len(h) /\ SubSeq(h, 1, Len(nph[e])) = nph[e]
          <6>1. \A j \in 1 .. Len(nph[e]) : SubSeq(h, 1, Len(nph[e]))[j] = h[j]
            BY <3>1, <5>2
          <6> QED
            BY <3>1, <5>2, <6>1
        <5> QED
          BY <3>2, <5>1, <5>2
      <4> QED
        BY <3>1, <4>1
    <3>4. \A i \in DOMAIN driver[e].frames : \E j \in DOMAIN nph[e] :
            driver[e].frames[i].of = nph[e][j]
      BY <2>3 DEF FramesWithinHistory
    <3>5. \A i \in DOMAIN driver[e].frames : Of(driver[e].frames[i])
      BY <3>3, <3>4
    <3> HIDE DEF Of
    <3> QED
      BY <2>1, <2>3, <3>5
  <2> QED
    BY <2>2, <2>3, ReadyFacts DEF EmuInv
<1>4. ASSUME NEW v \in I, NEW i \in DOMAIN pkts, NEW u \in Send(v, pkts[i])
      PROVE  u \in I
  <2>1. pkts[i] \in Packets
    BY <1>2
  <2>2. u \in Pairs /\ \A x \in DOMAIN u.d.frames :
                         \/ u.d.frames[x].of = pkts[i]
                         \/ \E j \in DOMAIN v.d.frames : u.d.frames[x] = v.d.frames[j]
    BY <2>1, SendFacts
  <2>3. ASSUME NEW x \in DOMAIN u.d.frames
        PROVE  Of(u.d.frames[x])
    <3>1. CASE u.d.frames[x].of = pkts[i]
      BY <1>2, <3>1
    <3>2. CASE \E j \in DOMAIN v.d.frames : u.d.frames[x] = v.d.frames[j]
      <4>1. \A j \in DOMAIN v.d.frames : Of(v.d.frames[j])
        OBVIOUS
      <4> HIDE DEF Of
      <4> QED
        BY <3>2, <4>1
    <3> QED
      BY <2>2, <3>1, <3>2
  <2> HIDE DEF Of
  <2> QED
    BY <2>2, <2>3
<1>5. I \in SUBSET Pairs /\ r \in Pairs
  BY <1>3
<1> HIDE DEF r, pkts, new, I
<1>6. SendAll(r, pkts) \subseteq I
  BY <1>2, <1>3, <1>4, <1>5, SendAllInduction
<1>7. PICK w \in I : driver' = [driver EXCEPT ![e] = w.d]
  BY <1>1, <1>6
<1>8. ASSUME NEW f \in emus', NEW i \in DOMAIN driver'[f].frames
      PROVE  \E j \in DOMAIN nph'[f] : driver'[f].frames[i].of = nph'[f][j]
  <2>1. CASE f = e
    <3>1. driver'[e] = w.d /\ nph'[e] = new
      BY <1>1, <1>7 DEF EmuInv, EmuTypeOK, TypeOK
    <3>2. \A x \in DOMAIN w.d.frames : \E j \in DOMAIN new : w.d.frames[x].of = new[j]
      BY DEF I
    <3> QED
      BY <1>8, <2>1, <3>1, <3>2
  <2>2. CASE f # e
    <3>1. f \in emus /\ driver'[f] = driver[f] /\ nph'[f] = nph[f]
      BY <1>1, <1>7, <2>2 DEF EmuInv, EmuTypeOK, TypeOK
    <3> QED
      BY <1>8, <3>1 DEF FramesWithinHistory
  <2> QED
    BY <2>1, <2>2
<1> QED
  BY <1>8 DEF FramesWithinHistory

\* A frame that is left in the taps, and that a later injection takes for an answer
\* to its packet, never comes from an abandoned branch of the search or from another
\* middlebox: a reset and a takeover always empty the taps.
THEOREM FramesWithinHistoryHolds == EmuSpec => []FramesWithinHistory
<1>1. EmuInit => FramesWithinHistory
  BY DEF EmuInit, Init, FramesWithinHistory
<1>2. TypeOK /\ PoolInv /\ EmuInv /\ FramesWithinHistory /\ [EmuNext]_<<vars, emuVars>>
        => FramesWithinHistory'
  <2> SUFFICES ASSUME TypeOK, PoolInv, EmuInv, FramesWithinHistory,
                      [EmuNext]_<<vars, emuVars>>
               PROVE  FramesWithinHistory'
    OBVIOUS
  <2>1. ASSUME NEW m \in Middleboxes, NEW p \in PacketsAt[m], EmuInject(m, p)
        PROVE  FramesWithinHistory'
    <3>1. p \in Packets
      BY PoolAssumption
    <3>2. PICK e \in GetEmulation(m, PktHist[m]) : InjectFrame(m, p, e)
      BY <2>1 DEF EmuInject
    <3> QED
      BY <3>1, <3>2, InjectFrames
  <2>2. CASE EmuReinit \/ EmuBacktrack \/ UNCHANGED <<vars, emuVars>>
    BY <2>2 DEF EmuReinit, EmuBacktrack, Reinit, Backtrack, vars, emuVars, FramesWithinHistory
  <2> QED
    BY <2>1, <2>2 DEF EmuNext
<1> QED
  BY <1>1, <1>2, EmulationImplementsPool, PoolTypeOK, PoolInvariant, EmuInvariant, PTL DEF EmuSpec

-----------------------------------------------------------------------------
(* The numbers of the connections                                          *)

\* The offsets towards the server are those of the connection that the container has
\* opened in this life, and none before.
OfItsConnection(d, k) ==
  /\ d.seqOffsets["server"] = IF k.dialed THEN Isn[k.life]["server"] ELSE 0
  /\ d.portOffsets["server"] = IF k.dialed THEN Ephemeral[k.life] - DynamicPort ELSE 0

\* Those towards the client are none, or the sequence number of this life.
OfItsAnswer(d, k) ==
  /\ d.seqOffsets["client"] \in {0, Isn[k.life]["client"]}
  /\ d.portOffsets["client"] = 0

\* As long as no frame was left or came behind one of another flow, the taps are
\* empty and the offsets are those of the life the container has.
Numbered(w) ==
  ~w.d.disordered =>
    /\ ~w.d.wrong
    /\ w.d.frames = <<>>
    /\ OfItsAnswer(w.d, w.k)
    /\ OfItsConnection(w.d, w.k)

\* update_offsets for frames of the middlebox alone.
LEMMA UpdateOffsetsOwn ==
  ASSUME NEW d \in Drivers, NEW a \in Seq(Frames), \A i \in DOMAIN a : a[i].own
  PROVE  \E g \in [0 .. Len(a) -> Drivers], b \in BOOLEAN :
           /\ g[0] = d
           /\ \A i \in 1 .. Len(a) : g[i] = UpdateOffset(g[i - 1], a[i])
           /\ UpdateOffsets(d, a) = [g[Len(a)] EXCEPT !.wrong = b]
           /\ b <=> \/ g[Len(a)].wrong
                    \/ \E i \in 1 .. Len(a) : Normalized(g[i], a[i]) # Relative(a[i])
<1> DEFINE n == OwnFrames(a)
           raw == \E i \in n + 1 .. Len(a) : a[i].own
<1>1. n = Len(a) /\ n \in Nat
  <2>1. {i \in DOMAIN a : ~a[i].own} = {}
    OBVIOUS
  <2> QED
    BY <2>1 DEF OwnFrames
<1>2. PICK g \in [0 .. n -> Drivers] :
        /\ g[0] = d
        /\ \A i \in 1 .. n : g[i] = UpdateOffset(g[i - 1], a[i])
        /\ UpdateOffsets(d, a) =
             [g[n] EXCEPT
                !.disordered = @ \/ raw,
                !.wrong = \/ @
                          \/ raw
                          \/ \E i \in 1 .. n : Normalized(g[i], a[i]) # Relative(a[i])]
  BY UpdateOffsetsLoop
<1> DEFINE odd == \E i \in 1 .. n : Normalized(g[i], a[i]) # Relative(a[i])
           b == g[n].wrong \/ raw \/ odd
<1>3. raw = FALSE
  <2> HIDE DEF n
  <2> QED
    BY <1>1
<1>4. b \in BOOLEAN /\ (b <=> g[n].wrong \/ odd)
  BY <1>3
<1>5. UpdateOffsets(d, a) = [g[n] EXCEPT !.disordered = @ \/ raw, !.wrong = b]
  BY <1>2
<1> HIDE DEF n, raw, b
<1>6. g[n] \in Drivers
  BY <1>1
<1>7. UpdateOffsets(d, a) = [g[n] EXCEPT !.wrong = b]
  <2>1. [g[n] EXCEPT !.disordered = @ \/ FALSE] = g[n]
    BY <1>6 DEF Drivers
  <2>2. [g[n] EXCEPT !.disordered = @ \/ FALSE, !.wrong = b] = [g[n] EXCEPT !.wrong = b]
    BY <1>4, <1>6 DEF Drivers
  <2> QED
    BY <1>3, <1>5, <2>2
<1> QED
  BY <1>1, <1>2, <1>4, <1>7

\* The frames a container answers with set the offsets that the network state's
\* numbers are relative to: its answer to a SYN ...
LEMMA SynackOffsets ==
  ASSUME NEW k \in Containers, NEW d \in Drivers, OfItsAnswer(d, k),
         NEW f \in Frames, f.peer = "client", f.flags = "synack",
         f.seq = Isn[k.life]["client"], f.port = ServerPort
  PROVE  /\ OfItsAnswer(UpdateOffset(d, f), k)
         /\ Normalized(UpdateOffset(d, f), f) = Relative(f)
<1>1. Isn[k.life]["client"] \in Nat /\ ServerPort = 80
  BY NumbersOf DEF ServerPort
<1>2. HasIsn(f)
  BY DEF HasIsn
<1>3. /\ UpdateOffset(d, f).portOffsets["client"] = 0
      /\ UpdateOffset(d, f).seqOffsets["client"] = f.seq
  BY <1>1, <1>2, UpdateOffsetFacts DEF OfItsAnswer
<1> QED
  BY <1>1, <1>2, <1>3 DEF Normalized, Relative, OfItsAnswer

\* ... the SYN of the connection it opens ...
LEMMA SynOffsets ==
  ASSUME NEW k \in Containers, NEW d \in Drivers, OfItsAnswer(d, k),
         NEW f \in Frames, f.peer = "server", f.flags = "syn",
         f.seq = Isn[k.life]["server"], f.port = Ephemeral[k.life]
  PROVE  /\ OfItsAnswer(UpdateOffset(d, f), k)
         /\ OfItsConnection(UpdateOffset(d, f), [k EXCEPT !.dialed = TRUE])
         /\ Normalized(UpdateOffset(d, f), f) = Relative(f)
<1> DEFINE u == UpdateOffset(d, f)
<1>1. f.seq \in Nat /\ f.port \in Nat /\ f.port >= 1024 /\ DynamicPort = 49152
  BY NumbersOf DEF DynamicPort
<1>2. HasIsn(f) /\ "client" \in Peers \ {f.peer}
  BY DEF HasIsn, Peers
<1>3. /\ u.seqOffsets["client"] = d.seqOffsets["client"]
      /\ u.portOffsets["client"] = d.portOffsets["client"]
      /\ u.portOffsets["server"] = f.port - DynamicPort
      /\ u.seqOffsets["server"] = f.seq
  BY <1>1, <1>2, UpdateOffsetFacts
<1> HIDE DEF u
<1>4. /\ [k EXCEPT !.dialed = TRUE].dialed
      /\ [k EXCEPT !.dialed = TRUE].life = k.life
  BY DEF Containers
<1>5. OfItsAnswer(u, k) /\ OfItsConnection(u, [k EXCEPT !.dialed = TRUE])
  BY <1>3, <1>4 DEF OfItsAnswer, OfItsConnection
<1>6. Normalized(u, f) = Relative(f)
  BY <1>1, <1>2, <1>3 DEF Normalized, Relative
<1> QED
  BY <1>5, <1>6 DEF u

\* ... and what it sends on that connection after.
LEMMA AckOffsets ==
  ASSUME NEW k \in Containers, k.dialed,
         NEW d \in Drivers, OfItsAnswer(d, k), OfItsConnection(d, k),
         NEW f \in Frames, f.peer = "server", f.flags = "ack",
         f.seq = Isn[k.life]["server"] + 1, f.port = Ephemeral[k.life]
  PROVE  /\ OfItsAnswer(UpdateOffset(d, f), k)
         /\ OfItsConnection(UpdateOffset(d, f), k)
         /\ Normalized(UpdateOffset(d, f), f) = Relative(f)
<1> DEFINE u == UpdateOffset(d, f)
<1>1. Isn[k.life]["server"] \in Nat /\ f.port \in Nat /\ DynamicPort = 49152
  BY NumbersOf DEF DynamicPort
<1>2. ~HasIsn(f) /\ "client" \in Peers \ {f.peer}
  BY DEF HasIsn, Peers
<1>3. /\ u.seqOffsets["client"] = d.seqOffsets["client"]
      /\ u.portOffsets["client"] = d.portOffsets["client"]
      /\ u.seqOffsets["server"] = d.seqOffsets["server"]
      /\ u.portOffsets["server"] = d.portOffsets["server"]
  BY <1>2, UpdateOffsetFacts
<1> HIDE DEF u
<1>4. OfItsAnswer(u, k) /\ OfItsConnection(u, k)
  BY <1>3 DEF OfItsAnswer, OfItsConnection
<1>5. Normalized(u, f) = Relative(f)
  BY <1>1, <1>2, <1>3 DEF Normalized, Relative, OfItsConnection
<1> QED
  BY <1>4, <1>5 DEF u

\* update_offsets when a frame of the middlebox comes behind another's, and when
\* there is none.
LEMMA UpdateOffsetsRest ==
  ASSUME NEW d \in Drivers, NEW a \in Seq(Frames)
  PROVE  /\ (\E i \in DOMAIN a : i > OwnFrames(a) /\ a[i].own) => UpdateOffsets(d, a).disordered
         /\ a = <<>> => /\ UpdateOffsets(d, a).wrong = d.wrong
                        /\ UpdateOffsets(d, a).seqOffsets = d.seqOffsets
                        /\ UpdateOffsets(d, a).portOffsets = d.portOffsets
<1> DEFINE n == OwnFrames(a)
           raw == \E i \in n + 1 .. Len(a) : a[i].own
<1>1. PICK g \in [0 .. n -> Drivers] :
        /\ g[0] = d
        /\ \A i \in 1 .. n : g[i] = UpdateOffset(g[i - 1], a[i])
        /\ UpdateOffsets(d, a) =
             [g[n] EXCEPT
                !.disordered = @ \/ raw,
                !.wrong = \/ @
                          \/ raw
                          \/ \E i \in 1 .. n : Normalized(g[i], a[i]) # Relative(a[i])]
  BY UpdateOffsetsLoop
<1>2. n \in 0 .. Len(a) /\ n \in Nat /\ g[n] \in Drivers
  BY OwnFramesType
<1>3. ASSUME \E i \in DOMAIN a : i > n /\ a[i].own
      PROVE  UpdateOffsets(d, a).disordered
  <2>1. raw
    BY <1>2, <1>3
  <2> HIDE DEF raw, n
  <2> QED
    BY <1>1, <1>2, <2>1 DEF Drivers
<1>4. ASSUME a = <<>>
      PROVE  /\ UpdateOffsets(d, a).wrong = d.wrong
             /\ UpdateOffsets(d, a).seqOffsets = d.seqOffsets
             /\ UpdateOffsets(d, a).portOffsets = d.portOffsets
  <2>1. n = 0 /\ ~raw /\ ~\E i \in 1 .. n : Normalized(g[i], a[i]) # Relative(a[i])
    BY <1>2, <1>4
  <2> DEFINE odd == \E i \in 1 .. n : Normalized(g[i], a[i]) # Relative(a[i])
             x == g[n].disordered \/ raw
             y == g[n].wrong \/ raw \/ odd
  <2>2. UpdateOffsets(d, a) = [g[n] EXCEPT !.disordered = x, !.wrong = y]
    BY <1>1
  <2>3. y = g[n].wrong
    BY <1>2, <2>1 DEF Drivers
  <2>4. g[n] = d
    BY <1>1, <2>1
  <2> HIDE DEF x, y, n
  <2> QED
    BY <2>2, <2>3, <2>4 DEF Drivers
<1> QED
  BY <1>3, <1>4

\* Two frames of the middlebox, or one.
LEMMA TwoOwnFrames ==
  ASSUME NEW d \in Drivers, ~d.wrong, NEW e \in Frames, e.own, NEW f \in Frames, f.own,
         NEW u \in Drivers, u = UpdateOffset(d, e), Normalized(u, e) = Relative(e),
         NEW v \in Drivers, v = UpdateOffset(u, f), Normalized(v, f) = Relative(f)
  PROVE  LET w == UpdateOffsets(d, <<e, f>>)
         IN ~w.wrong /\ w.seqOffsets = v.seqOffsets /\ w.portOffsets = v.portOffsets
<1> DEFINE a == <<e, f>>
<1>1. /\ a \in Seq(Frames) /\ Len(a) = 2 /\ a[1] = e /\ a[2] = f
      /\ \A i \in DOMAIN a : a[i].own
  OBVIOUS
<1> HIDE DEF a
<1>2. PICK g \in [0 .. Len(a) -> Drivers], b \in BOOLEAN :
        /\ g[0] = d
        /\ \A i \in 1 .. Len(a) : g[i] = UpdateOffset(g[i - 1], a[i])
        /\ UpdateOffsets(d, a) = [g[Len(a)] EXCEPT !.wrong = b]
        /\ b <=> \/ g[Len(a)].wrong
                 \/ \E i \in 1 .. Len(a) : Normalized(g[i], a[i]) # Relative(a[i])
  BY <1>1, UpdateOffsetsOwn
<1>3. g[1] = u /\ g[2] = v
  BY <1>1, <1>2
<1>4. ~v.wrong
  BY UpdateOffsetFacts
<1>5. ~\E i \in 1 .. 2 : Normalized(g[i], a[i]) # Relative(a[i])
  <2>1. \A i \in 1 .. 2 : i = 1 \/ i = 2
    OBVIOUS
  <2> QED
    BY <1>1, <1>3, <2>1, Zenon
<1>6. UpdateOffsets(d, a) = [v EXCEPT !.wrong = b] /\ ~b
  BY <1>1, <1>2, <1>3, <1>4, <1>5
<1> QED
  BY <1>6 DEF a, Drivers

LEMMA OneOwnFrame ==
  ASSUME NEW d \in Drivers, ~d.wrong, NEW f \in Frames, f.own,
         NEW v \in Drivers, v = UpdateOffset(d, f), Normalized(v, f) = Relative(f)
  PROVE  LET w == UpdateOffsets(d, <<f>>)
         IN ~w.wrong /\ w.seqOffsets = v.seqOffsets /\ w.portOffsets = v.portOffsets
<1> DEFINE a == <<f>>
<1>1. /\ a \in Seq(Frames) /\ Len(a) = 1 /\ a[1] = f
      /\ \A i \in DOMAIN a : a[i].own
  OBVIOUS
<1> HIDE DEF a
<1>2. PICK g \in [0 .. Len(a) -> Drivers], b \in BOOLEAN :
        /\ g[0] = d
        /\ \A i \in 1 .. Len(a) : g[i] = UpdateOffset(g[i - 1], a[i])
        /\ UpdateOffsets(d, a) = [g[Len(a)] EXCEPT !.wrong = b]
        /\ b <=> \/ g[Len(a)].wrong
                 \/ \E i \in 1 .. Len(a) : Normalized(g[i], a[i]) # Relative(a[i])
  BY <1>1, UpdateOffsetsOwn
<1>3. g[1] = v
  BY <1>1, <1>2
<1>4. ~v.wrong
  BY UpdateOffsetFacts
<1>5. ~\E i \in 1 .. 1 : Normalized(g[i], a[i]) # Relative(a[i])
  <2>1. \A i \in 1 .. 1 : i = 1
    OBVIOUS
  <2> QED
    BY <1>1, <1>3, <2>1, Zenon
<1>6. UpdateOffsets(d, a) = [v EXCEPT !.wrong = b] /\ ~b
  BY <1>1, <1>2, <1>3, <1>4, <1>5
<1> QED
  BY <1>6 DEF a, Drivers

\* The answers of a container whose driver is Numbered, when they are all read and
\* none comes behind one of another flow.
LEMMA AnswersNumbered ==
  ASSUME NEW k \in Containers, NEW d \in Drivers, ~d.disordered, ~d.wrong,
         OfItsAnswer(d, k), OfItsConnection(d, k),
         NEW p \in Packets, NEW a \in Answers(k, p),
         ~UpdateOffsets(d, a).disordered
  PROVE  LET u == UpdateOffsets(d, a)
         IN /\ ~u.wrong
            /\ OfItsAnswer(u, k)
            /\ OfItsConnection(u, [k EXCEPT !.dialed = @ \/ Kind[p] = "syn"])
<1> DEFINE isn == Isn[k.life]
           port == Ephemeral[k.life]
           synack == Frame(p, TRUE, "client", "synack", isn["client"], ServerPort)
           syn == Frame(p, TRUE, "server", "syn", isn["server"], port)
           ack == Frame(p, TRUE, "server", "ack", isn["server"] + 1, port)
           report == Frame(p, FALSE, "server", "udp", 0, 0)
           after == [k EXCEPT !.dialed = @ \/ Kind[p] = "syn"]
<1>1. /\ Kind[p] = "syn" => a \in {<<synack, syn>>, <<synack, report, syn>>}
      /\ Kind[p] # "syn" => \/ a = <<>>
                            \/ a = <<ack>> /\ k.dialed
  BY KindAssumption, Zenon DEF Answers, Kinds
<1>2. /\ synack \in Frames /\ syn \in Frames /\ ack \in Frames /\ report \in Frames
  <2>1. isn["client"] \in Int /\ isn["server"] \in Int /\ port \in Int
    BY NumbersOf
  <2> HIDE DEF isn, port
  <2> QED
    BY <2>1 DEF Frame, Frames, Peers, ServerPort
<1>3. /\ synack.own /\ synack.peer = "client" /\ synack.flags = "synack"
      /\ synack.seq = Isn[k.life]["client"] /\ synack.port = ServerPort
      /\ syn.own /\ syn.peer = "server" /\ syn.flags = "syn"
      /\ syn.seq = Isn[k.life]["server"] /\ syn.port = Ephemeral[k.life]
      /\ ack.own /\ ack.peer = "server" /\ ack.flags = "ack"
      /\ ack.seq = Isn[k.life]["server"] + 1 /\ ack.port = Ephemeral[k.life]
      /\ ~report.own
  BY DEF Frame
<1>4. /\ Kind[p] = "syn" => after = [k EXCEPT !.dialed = TRUE]
      /\ Kind[p] # "syn" => after = k
  BY DEF Containers
<1> HIDE DEF isn, port, synack, syn, ack, report, after
<1> SUFFICES LET u == UpdateOffsets(d, a)
             IN ~u.wrong /\ OfItsAnswer(u, k) /\ OfItsConnection(u, after)
  BY DEF after
<1>5. CASE Kind[p] = "syn" /\ a = <<synack, syn>>
  <2> DEFINE u == UpdateOffset(d, synack)
             v == UpdateOffset(u, syn)
  <2>1. u \in Drivers /\ v \in Drivers
    BY <1>2, UpdateOffsetType
  <2>2. OfItsAnswer(u, k) /\ Normalized(u, synack) = Relative(synack)
    BY <1>2, <1>3, SynackOffsets
  <2> HIDE DEF u
  <2>3. /\ OfItsAnswer(v, k)
        /\ OfItsConnection(v, after)
        /\ Normalized(v, syn) = Relative(syn)
    BY <1>2, <1>3, <1>4, <1>5, <2>1, <2>2, SynOffsets
  <2>4. u = UpdateOffset(d, synack)
    BY DEF u
  <2> DEFINE w == UpdateOffsets(d, a)
  <2>5. ~w.wrong /\ w.seqOffsets = v.seqOffsets /\ w.portOffsets = v.portOffsets
    BY <1>2, <1>3, <1>5, <2>1, <2>2, <2>3, <2>4, TwoOwnFrames
  <2> HIDE DEF v, w
  <2> QED
    BY <2>3, <2>5 DEF w, OfItsAnswer, OfItsConnection
<1>6. CASE a = <<synack, report, syn>>
  <2>1. a \in Seq(Frames)
    BY <1>2, <1>6
  <2>2. OwnFrames(a) = 1
    <3> DEFINE foreign == {i \in DOMAIN a : ~a[i].own}
    <3>1. \A i \in DOMAIN a : a[i].own \/ i = 2
      BY <1>3, <1>6
    <3>2. foreign = {2}
      BY <1>3, <1>6, <3>1
    <3>3. OwnFrames(a) = IF foreign = {} THEN Len(a)
                         ELSE (CHOOSE i \in foreign : \A j \in foreign : i <= j) - 1
      BY DEF OwnFrames
    <3> HIDE DEF foreign
    <3>4. (CHOOSE i \in foreign : \A j \in foreign : i <= j) = 2
      BY <3>2
    <3> QED
      BY <3>2, <3>3, <3>4
  <2>3. 3 \in DOMAIN a /\ 3 > OwnFrames(a) /\ a[3].own
    BY <1>3, <1>6, <2>2
  <2> QED
    BY <2>1, <2>3, UpdateOffsetsRest
<1>7. CASE Kind[p] # "syn" /\ a = <<ack>> /\ k.dialed
  <2> DEFINE v == UpdateOffset(d, ack)
  <2>1. v \in Drivers
    BY <1>2, UpdateOffsetType
  <2>2. /\ OfItsAnswer(v, k)
        /\ OfItsConnection(v, k)
        /\ Normalized(v, ack) = Relative(ack)
    BY <1>2, <1>3, <1>7, AckOffsets
  <2> DEFINE w == UpdateOffsets(d, a)
  <2>3. ~w.wrong /\ w.seqOffsets = v.seqOffsets /\ w.portOffsets = v.portOffsets
    BY <1>2, <1>3, <1>7, <2>1, <2>2, OneOwnFrame
  <2> HIDE DEF v, w
  <2> QED
    BY <1>4, <1>7, <2>2, <2>3 DEF w, OfItsAnswer, OfItsConnection
<1>8. CASE Kind[p] # "syn" /\ a = <<>>
  <2>1. a \in Seq(Frames)
    BY <1>8
  <2>2. /\ UpdateOffsets(d, a).wrong = d.wrong
        /\ UpdateOffsets(d, a).seqOffsets = d.seqOffsets
        /\ UpdateOffsets(d, a).portOffsets = d.portOffsets
    BY <1>8, <2>1, UpdateOffsetsRest
  <2> QED
    BY <1>4, <1>8, <2>2 DEF OfItsAnswer, OfItsConnection
<1> QED
  BY <1>1, <1>5, <1>6, <1>7, <1>8

\* A packet reaches the container with the numbers it expects.
LEMMA AsExpected ==
  ASSUME NEW w \in Pairs, NEW p \in Packets,
         OfItsAnswer(w.d, w.k), OfItsConnection(w.d, w.k)
  PROVE  LET pkt == ApplyOffsets(w.d, ModelPacket(p))
         IN <<pkt.ack, pkt.port>> \in Expected(w.k, p)
<1> DEFINE mp == ModelPacket(p)
           pkt == ApplyOffsets(w.d, mp)
           isn == Isn[w.k.life]
<1>1. /\ isn["client"] \in Nat /\ isn["server"] \in Nat /\ Ephemeral[w.k.life] \in Nat
      /\ w.k.dialed \in BOOLEAN
  <2>1. w.k \in Containers
    BY DEF Pairs
  <2> QED
    BY <2>1, NumbersOf DEF Containers
<1>2. CASE Kind[p] = "synack"
  <2>1. mp = [kind |-> "synack", own |-> TRUE, peer |-> "server", ack |-> 1,
              port |-> DynamicPort]
    BY <1>2 DEF ModelPacket
  <2> HIDE DEF mp
  <2>2. pkt = [mp EXCEPT !.ack = @ + w.d.seqOffsets["server"],
                         !.port = @ + w.d.portOffsets["server"]]
    BY <2>1 DEF ApplyOffsets
  <2> HIDE DEF pkt
  <2>3. /\ pkt.ack = 1 + w.d.seqOffsets["server"]
        /\ pkt.port = DynamicPort + w.d.portOffsets["server"]
    BY <2>1, <2>2
  <2>4. /\ pkt.ack = IF w.k.dialed THEN isn["server"] + 1 ELSE 1
        /\ pkt.port = IF w.k.dialed THEN Ephemeral[w.k.life] ELSE DynamicPort
    BY <1>1, <2>3 DEF OfItsConnection, DynamicPort
  <2>5. Expected(w.k, p) = IF w.k.dialed THEN {<<isn["server"] + 1, Ephemeral[w.k.life]>>}
                           ELSE {<<1, DynamicPort>>}
    BY <1>2 DEF Expected
  <2> HIDE DEF isn
  <2>6. <<pkt.ack, pkt.port>> \in Expected(w.k, p)
    BY <1>1, <2>4, <2>5
  <2> QED
    BY <2>6 DEF pkt, mp
<1>3. CASE Kind[p] = "syn"
  <2>1. mp = [kind |-> "syn", own |-> TRUE, peer |-> "client", ack |-> 0,
              port |-> ServerPort]
    BY <1>3 DEF ModelPacket
  <2> HIDE DEF mp
  <2>2. pkt = [mp EXCEPT !.ack = @ + w.d.seqOffsets["client"],
                         !.port = @ + w.d.portOffsets["client"]]
    BY <2>1 DEF ApplyOffsets
  <2> HIDE DEF pkt
  <2>3. pkt.ack = w.d.seqOffsets["client"] /\ pkt.port = ServerPort
    BY <1>1, <2>1, <2>2 DEF OfItsAnswer, ServerPort
  <2>4. Expected(w.k, p) = {0, isn["client"]} \X {ServerPort}
    BY <1>3 DEF Expected
  <2>5. pkt.ack \in {0, isn["client"]}
    BY <2>3 DEF OfItsAnswer
  <2> HIDE DEF isn
  <2>6. <<pkt.ack, pkt.port>> \in Expected(w.k, p)
    BY <2>3, <2>4, <2>5
  <2> QED
    BY <2>6 DEF pkt, mp
<1>4. CASE Kind[p] \notin {"syn", "synack"}
  <2>1. Kind[p] = "other"
    BY <1>4, KindAssumption DEF Kinds
  <2>2. pkt = mp /\ mp.ack = 0 /\ mp.port = ServerPort
    BY <2>1 DEF ApplyOffsets, ModelPacket
  <2>3. Expected(w.k, p) = {<<0, ServerPort>>}
    BY <2>1 DEF Expected
  <2> QED
    BY <2>2, <2>3
<1> QED
  BY <1>2, <1>3, <1>4

LEMMA SendNumbered ==
  ASSUME NEW w \in Pairs, Numbered(w), NEW p \in Packets, NEW u \in Send(w, p)
  PROVE  Numbered(u)
<1> SUFFICES ASSUME ~u.d.disordered
             PROVE  /\ ~u.d.wrong
                    /\ u.d.frames = <<>>
                    /\ OfItsAnswer(u.d, u.k)
                    /\ OfItsConnection(u.d, u.k)
  BY DEF Numbered
<1>1. /\ ~w.d.disordered /\ ~w.d.wrong /\ w.d.frames = <<>>
      /\ OfItsAnswer(w.d, w.k) /\ OfItsConnection(w.d, w.k)
  BY SendFacts DEF Numbered
<1> DEFINE pkt == ApplyOffsets(w.d, ModelPacket(p))
           wrong == <<pkt.ack, pkt.port>> \notin Expected(w.k, p)
           silent == wrong /\ Kind[p] = "synack"
<1>2. wrong = FALSE /\ silent = FALSE
  BY <1>1, AsExpected
<1>3. PICK v \in Written(w, p) : \E n \in Reads(v.d.frames) :
        u = [v EXCEPT !.d = Received(v, n)]
  BY DEF Send
<1>4. PICK n \in Reads(v.d.frames) : u = [v EXCEPT !.d = Received(v, n)]
  BY <1>3
<1>5. PICK a \in Answers(w.k, p) :
        v = [w EXCEPT !.d.frames = @ \o a, !.d.wrong = @ \/ FALSE,
                      !.k.dialed = @ \/ Kind[p] = "syn"]
  <2>1. v \in {[w EXCEPT !.d.frames = @ \o a, !.d.wrong = @ \/ wrong,
                         !.k.dialed = @ \/ Kind[p] = "syn"] :
                 a \in IF silent THEN {<<>>} ELSE Answers(w.k, p)}
    BY DEF Written
  <2> HIDE DEF wrong, silent
  <2> QED
    BY <1>2, <2>1
<1> HIDE DEF wrong, silent
<1>6. a \in Seq(Frames) /\ w.k \in Containers
  <2>1. w.k \in Containers
    BY DEF Pairs
  <2> QED
    BY <2>1, AnswersType
<1>7. /\ v \in Pairs /\ v.d.frames = a
      /\ ~v.d.disordered /\ ~v.d.wrong
      /\ v.d.seqOffsets = w.d.seqOffsets /\ v.d.portOffsets = w.d.portOffsets
      /\ v.k = [w.k EXCEPT !.dialed = @ \/ Kind[p] = "syn"]
  <2> DEFINE y == w.k.dialed \/ Kind[p] = "syn"
  <2>1. w = [d |-> w.d, k |-> w.k] /\ w.d \in Drivers /\ w.k \in Containers
    BY DEF Pairs, Containers
  <2>2. v = [w EXCEPT !.d.frames = @ \o a, !.d.wrong = @ \/ FALSE, !.k.dialed = y]
    BY <1>5
  <2>3. y \in BOOLEAN
    OBVIOUS
  <2> HIDE DEF y
  <2>4. /\ v.d = [w.d EXCEPT !.frames = @ \o a, !.wrong = @ \/ FALSE]
        /\ v.k = [w.k EXCEPT !.dialed = y]
        /\ v = [d |-> v.d, k |-> v.k]
    BY <2>1, <2>2
  <2>5. w.d.frames \o a = a
    BY <1>1, <1>6
  <2>6. /\ v.d \in Drivers /\ v.d.frames = a /\ ~v.d.disordered /\ ~v.d.wrong
        /\ v.d.seqOffsets = w.d.seqOffsets /\ v.d.portOffsets = w.d.portOffsets
    BY <1>1, <1>6, <2>1, <2>4, <2>5, ZenonT(60) DEF Drivers
  <2>7. v.k \in Containers
    BY <2>1, <2>3, <2>4 DEF Containers
  <2>8. v \in Pairs
    BY <2>4, <2>6, <2>7 DEF Pairs, Containers
  <2> QED
    BY <2>4, <2>6, <2>8 DEF y
<1> DEFINE left == [v.d EXCEPT !.frames = LeftInTaps(v, n),
                               !.disordered = @ \/ LeftInTaps(v, n) # <<>>]
<1>8. n \in 0 .. Len(a) /\ LeftInTaps(v, n) = SubSeq(a, n + 1, Len(a))
      /\ ReadPackets(v, n) = SubSeq(a, 1, n)
  BY <1>4, <1>7 DEF Reads, LeftInTaps, ReadPackets
<1>9. LeftInTaps(v, n) \in Seq(Frames) /\ ReadPackets(v, n) \in Seq(Frames)
  BY <1>6, <1>8
<1>10. left \in Drivers /\ (LeftInTaps(v, n) # <<>> => left.disordered)
  BY <1>7, <1>9 DEF Pairs, Drivers
<1>11. u.d = UpdateOffsets(left, ReadPackets(v, n)) /\ u.k = v.k
  BY <1>4, <1>7 DEF Received, Pairs
<1>12. LeftInTaps(v, n) = <<>>
  <2> HIDE DEF left
  <2> QED
    BY <1>9, <1>10, <1>11, UpdateOffsetsType
<1>13. ReadPackets(v, n) = a
  <2>1. SubSeq(a, n + 1, Len(a)) = <<>> /\ n \in 0 .. Len(a) /\ Len(a) \in Nat
    BY <1>6, <1>8, <1>12
  <2>2. Len(SubSeq(a, n + 1, Len(a))) = Len(a) - n
    BY <1>6, <2>1
  <2>3. Len(a) - n = 0
    BY <2>1, <2>2
  <2>4. n = Len(a)
    BY <2>1, <2>3
  <2>5. SubSeq(a, 1, Len(a)) = a
    BY <1>6
  <2> QED
    BY <1>8, <2>4, <2>5
<1>14. /\ ~left.disordered /\ ~left.wrong /\ left.frames = <<>>
       /\ left.seqOffsets = w.d.seqOffsets /\ left.portOffsets = w.d.portOffsets
  BY <1>7, <1>12 DEF Pairs, Drivers
<1> HIDE DEF left
<1>15. u.d = UpdateOffsets(left, a)
  BY <1>11, <1>13
<1>16. u.d.frames = <<>>
  BY <1>6, <1>10, <1>14, <1>15, UpdateOffsetsType
<1>17. /\ ~u.d.wrong
       /\ OfItsAnswer(u.d, w.k)
       /\ OfItsConnection(u.d, [w.k EXCEPT !.dialed = @ \/ Kind[p] = "syn"])
  <2> DEFINE k == w.k
  <2>1. k \in Containers /\ a \in Answers(k, p)
    BY <1>6
  <2>2. ~UpdateOffsets(left, a).disordered
    BY <1>15
  <2>3. OfItsAnswer(left, k) /\ OfItsConnection(left, k)
    BY <1>1, <1>14 DEF OfItsAnswer, OfItsConnection
  <2> HIDE DEF k
  <2>4. LET x == UpdateOffsets(left, a)
        IN /\ ~x.wrong
           /\ OfItsAnswer(x, k)
           /\ OfItsConnection(x, [k EXCEPT !.dialed = @ \/ Kind[p] = "syn"])
    BY <1>10, <1>14, <2>1, <2>2, <2>3, AnswersNumbered
  <2> QED
    BY <1>15, <2>4 DEF k
<1>18. OfItsAnswer(u.d, u.k)
  <2>1. u.k.life = w.k.life
    BY <1>6, <1>7, <1>11 DEF Containers
  <2> QED
    BY <1>17, <2>1 DEF OfItsAnswer
<1> QED
  BY <1>7, <1>11, <1>16, <1>17, <1>18

\* The driver and the container of e after an injection.
LEMMA InjectNumbered ==
  ASSUME TypeOK, PoolInv, PoolInv', EmuInv,
         \A f \in emus : Numbered([d |-> driver[f], k |-> containers[mb[f]]]),
         NEW m \in Middleboxes, NEW p \in Packets,
         NEW e \in GetEmulation(m, PktHist[m]), InjectFrame(m, p, e)
  PROVE  \A f \in emus' : Numbered([d |-> driver'[f], k |-> containers'[mb'[f]]])
<1> DEFINE r == Ready(m, e)
           pkts == Sent(m, p, e)
           I == {w \in Pairs : Numbered(w)}
<1>1. /\ emus' = emus \cup {e} /\ e \in Emulations
      /\ mb' = [mb EXCEPT ![e] = m]
      /\ \E w \in SendAll(r, pkts) :
           driver' = [driver EXCEPT ![e] = w.d] /\ containers'[m] = w.k
      /\ \A n \in Middleboxes \ {m} :
           (\E f \in emus' : mb'[f] = n) => containers'[n] = containers[n]
  BY InjectFrameFacts DEF EmuInv
<1>2. pkts \in Seq(Packets)
  BY <1>1, SentFacts
<1>3. r \in I
  <2>1. r \in Pairs
    BY ReadyFacts DEF EmuInv
  <2>2. CASE Afresh(r)
    <3>1. ~r.k.dialed /\ Clean(r.d) /\ r.d.frames = <<>>
      BY <2>2 DEF Afresh, Started
    <3> HIDE DEF r
    <3> QED
      BY <2>1, <3>1 DEF Numbered, Clean, OfItsAnswer, OfItsConnection, Peers
  <2>3. CASE e \in emus /\ mb[e] = m /\ r = [d |-> driver[e], k |-> containers[m]]
    <3> HIDE DEF r
    <3> QED
      BY <2>1, <2>3
  <2> QED
    BY <2>2, <2>3, ReadyFacts DEF EmuInv
<1>4. ASSUME NEW v \in I, NEW i \in DOMAIN pkts
      PROVE  Send(v, pkts[i]) \subseteq I
  <2>1. pkts[i] \in Packets
    BY <1>2
  <2> QED
    BY <2>1, SendFacts, SendNumbered
<1>5. I \in SUBSET Pairs /\ r \in Pairs
  BY <1>3
<1> HIDE DEF r, pkts, I
<1>6. SendAll(r, pkts) \subseteq I
  BY <1>2, <1>3, <1>4, <1>5, SendAllInduction
<1>7. PICK w \in I : driver' = [driver EXCEPT ![e] = w.d] /\ containers'[m] = w.k
  BY <1>1, <1>6
<1>8. ASSUME NEW f \in emus'
      PROVE  Numbered([d |-> driver'[f], k |-> containers'[mb'[f]]])
  <2>1. CASE f = e
    <3>1. driver'[e] = w.d /\ mb'[e] = m
      BY <1>1, <1>7 DEF EmuInv, EmuTypeOK, TypeOK
    <3>2. w = [d |-> w.d, k |-> w.k] /\ Numbered(w)
      BY DEF I, Pairs
    <3> QED
      BY <1>7, <2>1, <3>1, <3>2
  <2>2. CASE f # e
    <3>1. f \in emus /\ driver'[f] = driver[f] /\ mb'[f] = mb[f] /\ mb'[e] = m
      BY <1>1, <1>7, <2>2 DEF EmuInv, EmuTypeOK, TypeOK
    <3>2. mb'[f] \in Middleboxes \ {m}
      BY <1>1, <2>2, <3>1 DEF PoolInv, PoolWithinLimits
    <3>3. containers'[mb'[f]] = containers[mb[f]]
      BY <1>1, <3>1, <3>2
    <3> QED
      BY <3>1, <3>3
  <2> QED
    BY <2>1, <2>2
<1> QED
  BY <1>8

\* Whatever is replayed, reset and taken over: as long as no frame was left in the
\* taps for later or came behind one of another flow, a container is sent the numbers
\* of its own connections, and the network state gets those relative to their start.
THEOREM NumbersTranslatedHolds == EmuSpec => []NumbersTranslated
<1> DEFINE AllNumbered == \A e \in emus : Numbered([d |-> driver[e], k |-> containers[mb[e]]])
<1>1. EmuInit => AllNumbered
  BY DEF EmuInit, Init
<1>2. TypeOK /\ PoolInv /\ PoolInv' /\ EmuInv /\ AllNumbered /\ [EmuNext]_<<vars, emuVars>>
        => AllNumbered'
  <2> SUFFICES ASSUME TypeOK, PoolInv, PoolInv', EmuInv, AllNumbered,
                      [EmuNext]_<<vars, emuVars>>
               PROVE  AllNumbered'
    OBVIOUS
  <2>1. ASSUME NEW m \in Middleboxes, NEW p \in PacketsAt[m], EmuInject(m, p)
        PROVE  AllNumbered'
    <3>1. p \in Packets
      BY PoolAssumption
    <3>2. PICK e \in GetEmulation(m, PktHist[m]) : InjectFrame(m, p, e)
      BY <2>1 DEF EmuInject
    <3>3. \A f \in emus' : Numbered([d |-> driver'[f], k |-> containers'[mb'[f]]])
      BY <3>1, <3>2, InjectNumbered
    <3> QED
      BY <3>3 DEF Numbered, OfItsAnswer, OfItsConnection
  <2>2. CASE EmuReinit \/ EmuBacktrack \/ UNCHANGED <<vars, emuVars>>
    BY <2>2 DEF EmuReinit, EmuBacktrack, Reinit, Backtrack, vars, emuVars, Numbered,
                OfItsAnswer, OfItsConnection
  <2> QED
    BY <2>1, <2>2 DEF EmuNext
<1>3. AllNumbered => NumbersTranslated
  BY DEF Numbered, NumbersTranslated
<1> QED
  BY <1>1, <1>2, <1>3, EmulationImplementsPool, PoolTypeOK, PoolInvariant, EmuInvariant, PTL
     DEF EmuSpec
=============================================================================
