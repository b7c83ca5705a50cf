------------------------------ MODULE Emulation ------------------------------
(***************************************************************************)
(* The emulation pool with what its emulations do to their containers:     *)
(* launching, resetting, sending the packets of a replay and of the        *)
(* injection, and translating the sequence numbers and ports of the        *)
(* connections a middlebox is an endpoint of, which differ from one life   *)
(* of its container to the next, to those of the network state.            *)
(*                                                                         *)
(* A packet of the network state is "other" (of a flow the middlebox is    *)
(* not an endpoint of), "syn" (a connection to the middlebox, which is a   *)
(* proxy and opens one to the server behind it), or "synack" (the server's *)
(* answer to that).                                                        *)
(***************************************************************************)
EXTENDS EmulationPool, Docker

CONSTANTS
  Kind,      \* of each packet
  Isn,       \* the initial sequence number a container chooses towards each peer,
             \* and ...
  Ephemeral, \* ... the port of the connection it opens, in each of its lives
  MaxLeft    \* bound: frames left in the taps of a container

VARIABLES
  driver,        \* Emulation: _driver, _seq_offsets and _port_offsets
  containers     \* those the Docker daemon has, by middlebox

emuVars == <<driver, containers>>

Kinds == {"other", "syn", "synack"}

ASSUME KindAssumption == Kind \in [Packets -> Kinds]

Peers == {"client", "server"}

\* The ports update_offsets takes for ephemeral ones.
EphemeralPorts == {n \in Nat : n >= 1024}

ASSUME NumbersAssumption ==
  /\ Isn \in [LifeNumbers -> [Peers -> Nat]]
  /\ Ephemeral \in [LifeNumbers -> EphemeralPorts]

\* What an Emulation object starts with.  Auxiliary, since the container was
\* started: "disordered", a frame was left in the taps or came behind one of
\* another flow; "wrong", a packet reached the container, or the network state,
\* with other numbers than those of its connection.
NoDriver ==
  [ns |-> NoLife, frames |-> <<>>,
   seqOffsets |-> [p \in Peers |-> 0], portOffsets |-> [p \in Peers |-> 0],
   disordered |-> FALSE, wrong |-> FALSE]

-----------------------------------------------------------------------------
(* Packets and numbers                                                     *)

DynamicPort == 49152
ServerPort == 80

\* The packet of the network state, the mirror of what it makes of the answers.
ModelPacket(p) ==
  [kind |-> Kind[p], own |-> Kind[p] # "other",
   peer |-> IF Kind[p] = "synack" THEN "server" ELSE "client",
   ack |-> IF Kind[p] = "synack" THEN 1 ELSE 0,
   port |-> IF Kind[p] = "synack" THEN DynamicPort ELSE ServerPort]

\* apply_offsets: only the packets to an address of the middlebox are changed.
ApplyOffsets(d, pkt) ==
  IF ~pkt.own THEN pkt
  ELSE [pkt EXCEPT !.ack = @ + d.seqOffsets[pkt.peer],
                   !.port = @ + d.portOffsets[pkt.peer]]

\* The frame has the initial sequence number of its sender.
HasIsn(f) == f.flags \in {"syn", "synack"}

\* update_offsets for one frame of the middlebox.
UpdateOffset(d, f) ==
  [d EXCEPT
     !.seqOffsets[f.peer] = IF HasIsn(f) THEN f.seq ELSE @,
     !.portOffsets[f.peer] = IF f.flags = "syn" /\ f.port >= 1024
                             THEN f.port - DynamicPort ELSE @]

\* The numbers the network state gets.
Normalized(d, f) == <<f.seq - d.seqOffsets[f.peer], f.port - d.portOffsets[f.peer]>>

\* What they should be.
Relative(f) ==
  <<IF HasIsn(f) THEN 0 ELSE 1, IF f.flags = "synack" THEN ServerPort ELSE DynamicPort>>

\* update_offsets: it returns at the first frame of another flow, and the frames
\* after that keep their numbers.
UpdateOffsets(d, frames) ==
  LET foreign == {i \in DOMAIN frames : ~frames[i].own}
      n == IF foreign = {} THEN Len(frames)
           ELSE (CHOOSE i \in foreign : \A j \in foreign : i <= j) - 1
      raw == \E i \in n + 1 .. Len(frames) : frames[i].own
      after[i \in 0 .. n] == IF i = 0 THEN d ELSE UpdateOffset(after[i - 1], frames[i])
  IN [after[n] EXCEPT
        !.disordered = @ \/ raw,
        !.wrong = \/ @
                  \/ raw
                  \/ \E i \in 1 .. n : Normalized(after[i], frames[i]) # Relative(frames[i])]

-----------------------------------------------------------------------------
(* A container                                                             *)

Frame(p, own, peer, flags, seq, port) ==
  [of |-> p, own |-> own, peer |-> peer, flags |-> flags, seq |-> seq, port |-> port]

\* The frames a container answers with: it may report a connection to it to some
\* other host before it goes on with it.
Answers(k, p) ==
  LET isn == Isn[k.life]
      port == Ephemeral[k.life]
      synack == Frame(p, TRUE, "client", "synack", isn["client"], ServerPort)
      syn == Frame(p, TRUE, "server", "syn", isn["server"], port)
      ack == Frame(p, TRUE, "server", "ack", isn["server"] + 1, port)
      report == Frame(p, FALSE, "server", "udp", 0, 0)
  IN CASE Kind[p] = "syn" -> {<<synack, syn>>, <<synack, report, syn>>}
       [] Kind[p] = "synack" /\ k.dialed -> {<<ack>>}
       [] OTHER -> {<<>>}

\* The numbers p may have when it reaches the container: those of the network state,
\* as long as the container has no connection it belongs to in this life, and then
\* the container's own.
Expected(k, p) ==
  CASE Kind[p] = "syn" -> {0, Isn[k.life]["client"]} \X {ServerPort}
    [] Kind[p] = "synack" ->
         IF k.dialed THEN {<<Isn[k.life]["server"] + 1, Ephemeral[k.life]>>}
         ELSE {<<1, DynamicPort>>}
    [] OTHER -> {<<0, ServerPort>>}

-----------------------------------------------------------------------------
(* Emulation                                                               *)

\* Emulation::init, the old driver and its container removed first.
Launch(w) == InitDocker([w EXCEPT !.d = NoDriver])

\* Mutant: the offsets of the life before stay.
ResetEmulationKeepOffsets(w) ==
  ResetDocker([w EXCEPT !.d.disordered = FALSE, !.d.wrong = FALSE])

\* rewind: reset_offsets, then the driver.
ResetEmulation(w) ==
  ResetDocker([w EXCEPT !.d = [NoDriver EXCEPT !.ns = w.d.ns, !.frames = w.d.frames]])

\* How many of the frames are read in time.
Reads(frames) == {n \in 0 .. Len(frames) : Len(frames) - n <= MaxLeft}

\* The container is given p, and answers with what it makes of it: nothing to the
\* answer to its connection when that has other numbers than it expects.
Written(w, p) ==
  LET pkt == ApplyOffsets(w.d, ModelPacket(p))
      wrong == <<pkt.ack, pkt.port>> \notin Expected(w.k, p)
  IN {[w EXCEPT !.d.frames = @ \o a, !.d.wrong = @ \/ wrong,
                !.k.dialed = @ \/ Kind[p] = "syn"] :
      a \in IF wrong /\ Kind[p] = "synack" THEN {<<>>} ELSE Answers(w.k, p)}

\* The driver has read n frames.
Received(w, n) ==
  UpdateOffsets([w.d EXCEPT !.frames = LeftInTaps(w, n),
                            !.disordered = @ \/ LeftInTaps(w, n) # <<>>],
                ReadPackets(w, n))

\* send_pkt
Send(w, p) ==
  UNION {{[v EXCEPT !.d = Received(v, n)] : n \in Reads(v.d.frames)} : v \in Written(w, p)}

\* The packets of a sequence, one after the other.
SendAll(w, pkts) ==
  LET sent[i \in 0 .. Len(pkts)] ==
        IF i = 0 THEN {w} ELSE UNION {Send(v, pkts[i]) : v \in sent[i - 1]}
  IN sent[Len(pkts)]

-----------------------------------------------------------------------------
(* inject_packet: EmulationPool's step and what it sends to the container. *)

Sent(m, p, e) ==
  LET h == PktHist[m]
      old == IF Entries(m) = {} THEN <<>> ELSE nph[e]
  IN GetPacketsSince(h, old) \o IF Lookup(m, Append(h, p)) THEN <<>> ELSE Copies(p)

\* The pair that get_emulation and rewind leave to send to.
Ready(m, e) ==
  LET w == [d |-> driver[e], k |-> containers[m]]
  IN IF Entries(m) = {} THEN Launch(w)
     ELSE IF NeedsReset(nph[e], PktHist[m]) THEN ResetEmulation(w)
     ELSE w

\* Mutant: that container stays.
TakenKept(m, e) == containers

\* An emulation taken from another middlebox removes that one's container.
Taken(m, e) ==
  [n \in Middleboxes |->
     IF Entries(m) = {} /\ e \in emus /\ n = mb[e] THEN Removed(containers[n])
     ELSE containers[n]]

InjectFrame(m, p, e) ==
  /\ InjectInto(m, p, e)
  /\ \E w \in SendAll(Ready(m, e), Sent(m, p, e)) :
       /\ driver' = [driver EXCEPT ![e] = w.d]
       /\ containers' = [Taken(m, e) EXCEPT ![m] = w.k]

EmuInject(m, p) ==
  /\ Len(PktHist[m]) < MaxHist
  /\ \E e \in GetEmulation(m, PktHist[m]) : InjectFrame(m, p, e)

EmuReinit == Reinit /\ UNCHANGED emuVars
EmuBacktrack == Backtrack /\ UNCHANGED emuVars

EmuInit ==
  /\ Init
  /\ driver = [e \in Emulations |-> NoDriver]
  /\ containers = [m \in Middleboxes |-> Absent]

EmuNext ==
  \/ \E m \in Middleboxes : \E p \in PacketsAt[m] : EmuInject(m, p)
  \/ EmuReinit
  \/ EmuBacktrack

EmuSpec == EmuInit /\ [][EmuNext]_<<vars, emuVars>>

-----------------------------------------------------------------------------
(* Properties                                                              *)

\* The containers are those of the pool: each middlebox that has an emulation has
\* one, no other is left behind by an emulation that was taken over, none is
\* created under a name in use, and the descriptors of each driver belong to the
\* life its container has, whatever launches, resets and takeovers there were.
ContainersOfPool ==
  \A m \in Middleboxes :
    LET owners == {e \in emus : mb[e] = m}
    IN IF owners = {} THEN containers[m].state = "absent"
       ELSE /\ containers[m].state = "running"
            /\ \A e \in owners : driver[e].ns = ThisLife

\* A frame that waits in the taps, which a later injection will take for an answer
\* to its packet, answers an earlier packet of the history that the emulation
\* claims: never one of an abandoned branch or of another middlebox.
FramesWithinHistory ==
  \A e \in emus : \A i \in DOMAIN driver[e].frames :
    \E j \in DOMAIN nph[e] : driver[e].frames[i].of = nph[e][j]

\* Replayed or not, the container is sent the numbers of the connections it has in
\* this life, never an offset of an earlier life or of the middlebox the emulation
\* had before, and the network state gets those relative to their start, unless a
\* frame was left in the taps for later or came behind one of another flow.
NumbersTranslated == \A e \in emus : driver[e].wrong => driver[e].disordered
=============================================================================
