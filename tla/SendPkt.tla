------------------------------ MODULE SendPkt ------------------------------
(***************************************************************************)
(* The threads of Emulation::send_pkt.  The caller injects a packet and    *)
(* waits on a condition variable while a receive thread reads the          *)
(* container's tap devices and, if drop detection is on, a drop thread asks*)
(* DropMon or DropTrace for the timestamp of a kernel drop of that packet; *)
(* DropMon has one more thread that reads the kernel's alerts.  Afterwards *)
(* the caller stops and joins them all, once per injection.                *)
(*                                                                         *)
(* The caller holds _mtx from the beginning of send_pkt until it waits, and*)
(* again until the container is paused.  What it does meanwhile commutes   *)
(* with what the others can do without _mtx, so it is one step; so is each *)
(* critical section of the other threads.  Packets are modelled by their   *)
(* hash: the interface and an output.  A timestamp is the number of the    *)
(* injection whose packet the kernel dropped; 0 is no timestamp.           *)
(***************************************************************************)
EXTENDS Naturals, Sequences, FiniteSets, SequencesExt

CONSTANTS
  Methods,   \* drop detection: subset of {"none", "dropmon", "droptrace"}
  Intfs,     \* the tap devices of the container
  Outputs,   \* packets the container may send, apart from the interface
  Headers,   \* what same_header compares: assignments to the injections
  MaxInj,    \* bound: number of consecutive injections
  MaxTap     \* bound: frames queued at one tap device

ASSUME SendPktAssumption ==
  /\ IsFiniteSet(Intfs)
  /\ IsFiniteSet(Outputs)
  /\ Methods \subseteq {"none", "dropmon", "droptrace"}
  /\ MaxInj \in Nat \ {0}
  /\ MaxTap \in Nat \ {0}

VARIABLES
  method,    \* the global "drop"
  header,    \* the header of the packet of each injection
  inj,       \* the current injection
  main,      \* control of the caller of send_pkt
  numPkts,   \* its num_pkts
  recv,      \* control of the receive thread
  batch,     \* its pkts
  drop,      \* control of the drop thread
  ts,        \* its ts
  dm,        \* control of DropMon's thread
  stopRecv, stopDrop, stopDm,    \* the loop control flags
  recvPkts, pktsHash, dropTs,    \* _recv_pkts, _pkts_hash, _drop_ts
  detTs,     \* _drop_ts of DropMon or DropTrace
  alerts,    \* DropMon's socket, or the events map of the BPF program
  pending,   \* drops whose alert the kernel has not delivered yet
  dropped,   \* injections whose packet the kernel dropped
  tap,       \* frames queued at the tap devices
  paused,    \* the container is paused
  timing,    \* Stats::_start_ts, of PKT_LAT and DROP_LAT
  timed,     \* how many of each, and of TIMEOUT, Stats::_latencies has
  lost       \* auxiliary: a wakeup reached a thread that was not waiting yet

detection == <<method, header>>
buffers == <<recvPkts, pktsHash, dropTs>>
stats == <<timing, timed>>
flags == <<stopRecv, stopDrop, stopDm>>
threads == <<recv, batch, drop, ts, dm>>
kernel == <<alerts, pending, dropped, tap>>
vars == <<detection, stats, inj, main, numPkts, threads, flags, buffers, detTs, kernel,
          paused, lost>>

Injections == 1 .. MaxInj
Frames == Intfs \X Outputs
Measured == {"pkt", "drop"}

\* Types; the locals and buffers stay within what one injection can collect, in
\* particular num_pkts never exceeds the number of different packets.
TypeOK ==
  /\ method \in Methods
  /\ header \in Headers
  /\ inj \in 0 .. MaxInj
  /\ main \in {"idle", "waiting", "stop_recv", "join_recv", "stop_drop",
               "join_drop", "stop_listening", "join_dm", "collect", "failed"}
  /\ timing \subseteq Measured
  /\ timed \in 0 .. inj
  /\ numPkts \in 0 .. Cardinality(Frames)
  /\ recv \in {"exit", "check", "enter", "blocked", "got"}
  /\ batch \in Seq(Frames)
  /\ drop \in {"exit", "check", "enter", "blocked", "got"}
  /\ dm \in {"exit", "check", "recv"}
  /\ {ts, dropTs, detTs} \subseteq 0 .. MaxInj
  /\ {stopRecv, stopDrop, stopDm, paused, lost} \subseteq BOOLEAN
  /\ recvPkts \in Seq(Frames)
  /\ pktsHash \subseteq Frames
  /\ alerts \in Seq(0 .. MaxInj)
  /\ pending \subseteq Injections
  /\ dropped \subseteq Injections
  /\ tap \in [Intfs -> Seq(Frames)]

-----------------------------------------------------------------------------
(* The caller: Emulation::send_pkt                                         *)

\* Mutant: only the latency that was stopped is no longer measured.
StoppedOnly(op) == timing \ {op}

\* Stats::stop for PKT_LAT or DROP_LAT records zero for the other.
Stopped(op) == timing \ Measured

\* Stats::stop throws if the latency is not measured, which aborts the process.
StopTiming(op, then) ==
  /\ main' = IF op \in timing THEN then ELSE "failed"
  /\ timed' = IF op \in timing THEN timed + 1 ELSE timed
  /\ timing' = Stopped(op)

\* Resets the buffers, starts the threads and the listening, unpauses the
\* container, starts to measure, injects, and waits.  DropMon opens a new socket;
\* DropTrace opens the same events map again, with whatever is still in it.
\* Stats::start throws if a latency is measured already.
StartInjection ==
  /\ main = "idle"
  /\ inj < MaxInj
  /\ inj' = inj + 1
  /\ main' = IF timing = {} THEN "waiting" ELSE "failed"
  /\ timing' = Measured
  /\ numPkts' = 0
  /\ recvPkts' = <<>> /\ pktsHash' = {} /\ dropTs' = 0
  /\ recv' = "check" /\ batch' = <<>>
  /\ drop' = (IF method = "none" THEN "exit" ELSE "check") /\ ts' = 0
  /\ dm' = IF method = "dropmon" THEN "check" ELSE "exit"
  /\ detTs' = 0
  /\ alerts' = IF method = "dropmon" THEN <<>> ELSE alerts
  /\ paused' = FALSE
  /\ UNCHANGED <<detection, timed, flags, pending, dropped, tap, lost>>

\* Mutant: the loop goes on when no packet was received.
SameOrMore == dropTs = 0 /\ Len(recvPkts) >= numPkts

\* New packets arrived and no drop was seen.
More == dropTs = 0 /\ Len(recvPkts) > numPkts

\* wait_for returns, notified or timed out, and the loop goes on.  The first
\* packets stop the measurement of the packet latency.
WakeReceived ==
  /\ main = "waiting" /\ More
  /\ IF numPkts = 0 THEN StopTiming("pkt", "waiting") ELSE UNCHANGED <<main, stats>>
  /\ numPkts' = Len(recvPkts)
  /\ UNCHANGED <<detection, inj, threads, flags, buffers, detTs, kernel, paused, lost>>

\* The loop is left, which stops the measurement that still goes on and pauses the
\* container.  num_pkts, like the other locals, is 0 while it is not in use.
WakeLeave ==
  /\ main = "waiting" /\ ~More
  /\ IF dropTs # 0 THEN StopTiming("drop", "stop_recv")
     ELSE IF recvPkts = <<>>
     THEN StopTiming(IF method = "none" THEN "drop" ELSE "pkt", "stop_recv")
     ELSE main' = "stop_recv" /\ UNCHANGED stats
  /\ paused' = (main' # "failed")
  /\ numPkts' = IF main' = "failed" THEN numPkts ELSE 0
  /\ UNCHANGED <<detection, inj, threads, flags, buffers, detTs, kernel, lost>>

\* A blocked thread is interrupted; one on its way to block never notices.
Interrupted(pc) == IF pc = "blocked" THEN "got" ELSE pc

\* Mutant: the receive thread is interrupted but not told to stop.
StopRecvNoFlag ==
  /\ main = "stop_recv"
  /\ recv' = Interrupted(recv)
  /\ lost' = (lost \/ recv = "enter")
  /\ main' = "join_recv"
  /\ UNCHANGED <<detection, stats, inj, numPkts, batch, drop, ts, dm, flags, buffers,
                 detTs, kernel, paused>>

\* stop_recv_thread raises the flag and signals the thread: epoll_wait returns
\* EINTR and read_packets nothing.
StopRecv ==
  /\ main = "stop_recv"
  /\ stopRecv' = TRUE
  /\ recv' = Interrupted(recv)
  /\ lost' = (lost \/ recv = "enter")
  /\ main' = "join_recv"
  /\ UNCHANGED <<detection, stats, inj, numPkts, batch, drop, ts, dm, stopDrop, stopDm,
                 buffers, detTs, kernel, paused>>

JoinRecv ==
  /\ main = "join_recv"
  /\ recv = "exit"
  /\ stopRecv' = FALSE
  /\ main' = IF method = "none" THEN "collect" ELSE "stop_drop"
  /\ UNCHANGED <<detection, stats, inj, numPkts, threads, stopDrop, stopDm, buffers,
                 detTs, kernel, paused, lost>>

\* stop_drop_thread raises the flag and unblocks get_drop_ts: a notification
\* for DropMon, a signal for DropTrace.  Either way the call returns _drop_ts.
StopDrop ==
  /\ main = "stop_drop"
  /\ stopDrop' = TRUE
  /\ drop' = Interrupted(drop)
  /\ ts' = IF drop = "blocked" THEN detTs ELSE ts
  /\ lost' = (lost \/ drop = "enter")
  /\ main' = "join_drop"
  /\ UNCHANGED <<detection, stats, inj, numPkts, recv, batch, dm, stopRecv, stopDm,
                 buffers, detTs, kernel, paused>>

JoinDrop ==
  /\ main = "join_drop"
  /\ drop = "exit"
  /\ stopDrop' = FALSE
  /\ main' = "stop_listening"
  /\ UNCHANGED <<detection, stats, inj, numPkts, threads, stopRecv, stopDm, buffers,
                 detTs, kernel, paused, lost>>

\* DropMon's stop_listening asks the kernel for statistics, whose answer gets
\* its thread out of nl_recv; DropTrace's frees the ring buffer and detaches.
StopListening ==
  /\ main = "stop_listening"
  /\ IF method = "dropmon"
       THEN /\ stopDm' = TRUE
            /\ alerts' = Append(alerts, 0)
            /\ main' = "join_dm"
            /\ UNCHANGED detTs
       ELSE /\ detTs' = 0
            /\ main' = "collect"
            /\ UNCHANGED <<stopDm, alerts>>
  /\ UNCHANGED <<detection, stats, inj, numPkts, threads, stopRecv, stopDrop, buffers,
                 pending, dropped, tap, paused, lost>>

\* Mutant: DropMon's thread is not joined.
JoinDmNoJoin ==
  /\ main = "join_dm"
  /\ stopDm' = FALSE
  /\ detTs' = 0
  /\ alerts' = <<>>
  /\ main' = "collect"
  /\ UNCHANGED <<detection, stats, inj, numPkts, threads, stopRecv, stopDrop, buffers,
                 pending, dropped, tap, paused, lost>>

JoinDm ==
  /\ main = "join_dm"
  /\ dm = "exit"
  /\ stopDm' = FALSE
  /\ detTs' = 0
  /\ alerts' = <<>>
  /\ main' = "collect"
  /\ UNCHANGED <<detection, stats, inj, numPkts, threads, stopRecv, stopDrop, buffers,
                 pending, dropped, tap, paused, lost>>

\* Returns the InjectionResult of recvPkts and dropTs # 0.
Collect ==
  /\ main = "collect"
  /\ recvPkts' = <<>>
  /\ pktsHash' = {}
  /\ main' = "idle"
  /\ UNCHANGED <<detection, stats, inj, numPkts, threads, flags, dropTs, detTs, kernel,
                 paused, lost>>

-----------------------------------------------------------------------------
(* The receive thread: Emulation::listen_packets                           *)

RecvLoop ==
  /\ \/ recv = "check" /\ recv' = IF stopRecv THEN "exit" ELSE "enter"
     \/ recv = "enter" /\ recv' = "blocked"
  /\ UNCHANGED <<detection, stats, inj, main, numPkts, batch, drop, ts, dm, flags,
                 buffers, detTs, kernel, paused, lost>>

\* The devices that epoll_wait reports.
Ready == SetToSeq({i \in Intfs : tap[i] # <<>>})

\* read_packets: epoll_wait returns and one frame is read from each tap device
\* that has any.
ReadPackets ==
  /\ recv = "blocked"
  /\ Ready # <<>>
  /\ batch' = [k \in DOMAIN Ready |-> Head(tap[Ready[k]])]
  /\ tap' = [i \in Intfs |-> IF tap[i] = <<>> THEN <<>> ELSE Tail(tap[i])]
  /\ recv' = "got"
  /\ UNCHANGED <<detection, stats, inj, main, numPkts, drop, ts, dm, flags, buffers,
                 detTs, alerts, pending, dropped, paused, lost>>

\* Mutant: retransmitted packets are kept.
AllPackets(pkts) ==
  [pkts |-> recvPkts \o pkts, hashes |-> pktsHash \cup ToSet(pkts)]

\* Goes through pkts and removes the retransmitted packets; the rest is spliced to
\* _recv_pkts, and its hashes join _pkts_hash.
NewPackets(pkts) ==
  LET after[k \in 0 .. Len(pkts)] ==
        IF k = 0 THEN [pkts |-> recvPkts, hashes |-> pktsHash]
        ELSE IF pkts[k] \in after[k - 1].hashes THEN after[k - 1]
        ELSE [pkts |-> Append(after[k - 1].pkts, pkts[k]),
              hashes |-> after[k - 1].hashes \cup {pkts[k]}]
  IN  after[Len(pkts)]

StorePackets ==
  /\ recv = "got"
  /\ recvPkts' = NewPackets(batch).pkts
  /\ pktsHash' = NewPackets(batch).hashes
  /\ batch' = <<>>
  /\ recv' = "check"
  /\ UNCHANGED <<detection, stats, inj, main, numPkts, drop, ts, dm, flags, dropTs,
                 detTs, kernel, paused, lost>>

-----------------------------------------------------------------------------
(* The drop thread: Emulation::listen_drops                                *)

\* Enters get_drop_ts.  DropMon's returns at once when it has a timestamp.
DropLoop ==
  /\ \/ /\ drop = "check"
        /\ drop' = IF stopDrop THEN "exit" ELSE "enter"
        /\ UNCHANGED ts
     \/ /\ drop = "enter"
        /\ IF method = "dropmon" /\ detTs # 0
             THEN drop' = "got" /\ ts' = detTs
             ELSE drop' = "blocked" /\ UNCHANGED ts
  /\ UNCHANGED <<detection, stats, inj, main, numPkts, recv, batch, dm, flags, buffers,
                 detTs, kernel, paused, lost>>

\* DropTrace: ring_buffer__poll hands every queued event to ringbuf_handler,
\* which keeps the timestamp of the last.
PollEvents ==
  /\ method = "droptrace"
  /\ drop = "blocked"
  /\ alerts # <<>>
  /\ detTs' = Last(alerts)
  /\ ts' = Last(alerts)
  /\ alerts' = <<>>
  /\ drop' = "got"
  /\ UNCHANGED <<detection, stats, inj, main, numPkts, recv, batch, dm, flags, buffers,
                 pending, dropped, tap, paused, lost>>

\* Mutant: the hashes of the discarded packets are kept.
RecordDropKeepHashes ==
  /\ drop = "got"
  /\ IF ts # 0
       THEN recvPkts' = <<>> /\ dropTs' = ts /\ UNCHANGED pktsHash
       ELSE UNCHANGED buffers
  /\ drop' = "check"
  /\ ts' = 0
  /\ UNCHANGED <<detection, stats, inj, main, numPkts, recv, batch, dm, flags, detTs,
                 kernel, paused, lost>>

\* A timestamp discards what was received so far.
RecordDrop ==
  /\ drop = "got"
  /\ IF ts # 0
       THEN recvPkts' = <<>> /\ pktsHash' = {} /\ dropTs' = ts
       ELSE UNCHANGED buffers
  /\ drop' = "check"
  /\ ts' = 0
  /\ UNCHANGED <<detection, stats, inj, main, numPkts, recv, batch, dm, flags, detTs,
                 kernel, paused, lost>>

-----------------------------------------------------------------------------
(* DropMon's thread: listen_msgs                                           *)

\* Mutant: every alert is taken for one about the target packet.
AnyHeader(k) == k # 0

SameHeader(k) == k # 0 /\ header[k] = header[inj]

DmLoop ==
  /\ dm = "check"
  /\ dm' = IF stopDm THEN "exit" ELSE "recv"
  /\ UNCHANGED <<detection, stats, inj, main, numPkts, recv, batch, drop, ts, flags,
                 buffers, detTs, kernel, paused, lost>>

\* One message; an alert for the target packet sets _drop_ts and notifies the
\* thread that waits in get_drop_ts.
RecvMsg ==
  /\ dm = "recv"
  /\ alerts # <<>>
  /\ alerts' = Tail(alerts)
  /\ IF SameHeader(Head(alerts))
       THEN /\ detTs' = Head(alerts)
            /\ drop' = Interrupted(drop)
            /\ ts' = IF drop = "blocked" THEN Head(alerts) ELSE ts
       ELSE UNCHANGED <<detTs, drop, ts>>
  /\ dm' = "check"
  /\ UNCHANGED <<detection, stats, inj, main, numPkts, recv, batch, flags, buffers,
                 pending, dropped, tap, paused, lost>>

-----------------------------------------------------------------------------
(* The container and the kernel                                            *)

\* The running container sends a frame, possibly one it sent before.
Emit(i, o) ==
  /\ ~paused
  /\ Len(tap[i]) < MaxTap
  /\ tap' = [tap EXCEPT ![i] = Append(@, <<i, o>>)]
  /\ UNCHANGED <<detection, stats, inj, main, numPkts, threads, flags, buffers, detTs,
                 alerts, pending, dropped, paused, lost>>

\* The kernel drops the injected packet.  The BPF program writes the event at
\* once; drop_monitor queues an alert.
KernelDrop ==
  /\ method # "none"
  /\ main \in {"waiting", "stop_recv", "join_recv", "stop_drop", "join_drop",
               "stop_listening"}
  /\ inj \notin dropped
  /\ dropped' = dropped \cup {inj}
  /\ IF method = "dropmon"
       THEN pending' = pending \cup {inj} /\ UNCHANGED alerts
       ELSE alerts' = Append(alerts, inj) /\ UNCHANGED pending
  /\ UNCHANGED <<detection, stats, inj, main, numPkts, threads, flags, buffers, detTs,
                 tap, paused, lost>>

\* drop_monitor delivers an alert to the socket that is open by then, if any.
DeliverAlert(k) ==
  /\ k \in pending
  /\ pending' = pending \ {k}
  /\ alerts' = IF main \in {"idle", "collect"} THEN alerts ELSE Append(alerts, k)
  /\ UNCHANGED <<detection, stats, inj, main, numPkts, threads, flags, buffers, detTs,
                 dropped, tap, paused, lost>>

-----------------------------------------------------------------------------
Init ==
  /\ method \in Methods
  /\ header \in Headers
  /\ inj = 0
  /\ main = "idle"
  /\ numPkts = 0
  /\ recv = "exit" /\ batch = <<>>
  /\ drop = "exit" /\ ts = 0
  /\ dm = "exit"
  /\ stopRecv = FALSE /\ stopDrop = FALSE /\ stopDm = FALSE
  /\ recvPkts = <<>> /\ pktsHash = {} /\ dropTs = 0
  /\ detTs = 0
  /\ alerts = <<>> /\ pending = {} /\ dropped = {}
  /\ tap = [i \in Intfs |-> <<>>]
  /\ paused = TRUE
  /\ timing = {} /\ timed = 0
  /\ lost = FALSE

\* send_pkt once it has injected.
Main ==
  \/ WakeReceived \/ WakeLeave \/ StopRecv \/ JoinRecv \/ StopDrop \/ JoinDrop
  \/ StopListening \/ JoinDm \/ Collect

\* Until the process aborts.
Recv == main # "failed" /\ (RecvLoop \/ ReadPackets \/ StorePackets)
Drop == main # "failed" /\ (DropLoop \/ PollEvents \/ RecordDrop)
Dm == main # "failed" /\ (DmLoop \/ RecvMsg)

Environment ==
  /\ main # "failed"
  /\ \/ \E i \in Intfs, o \in Outputs : Emit(i, o)
     \/ KernelDrop
     \/ \E k \in Injections : DeliverAlert(k)

Next == StartInjection \/ Main \/ Recv \/ Drop \/ Dm \/ Environment

\* The scheduler runs every thread that can take a step; wait_for times out.
\* Nothing is assumed of the container and the kernel.
Fairness ==
  /\ WF_vars(Main)
  /\ WF_vars(Recv)
  /\ WF_vars(Drop)
  /\ WF_vars(Dm)

Spec == Init /\ [][Next]_vars /\ Fairness

-----------------------------------------------------------------------------
(* Properties                                                              *)

\* _pkts_hash holds the hashes of _recv_pkts, no packet twice: a packet is
\* neither reported twice nor mistaken for a retransmission of one that a drop
\* has discarded.
HashesMatchPackets ==
  /\ IsInjective(recvPkts)
  /\ pktsHash = ToSet(recvPkts)

\* No thread outlives its injection and every loop control flag is lowered
\* again, so that the next injection cannot lose its threads to an old flag.
ThreadsJoined ==
  main = "idle" =>
    /\ recv = "exit" /\ drop = "exit" /\ dm = "exit"
    /\ ~stopRecv /\ ~stopDrop /\ ~stopDm

\* With DropMon a drop is recorded only for an alert with the header of the
\* packet that was injected last, however late the kernel delivers alerts.
DropMatchesTarget ==
  method = "dropmon" /\ dropTs # 0 => header[dropTs] = header[inj]

\* The receive loop ends although the container may retransmit for ever: a
\* round is repeated only for a packet that was not received before.
ReceiveLoopEnds == (main = "waiting") ~> (main # "waiting")

\* Every injection that send_pkt returned from has one latency of each kind, which
\* set_rewind_injection_count relies on when it removes those of a replay; and
\* Stats never throws unless a drop is reported after a response.
TimedOnce ==
  /\ main = "idle" => timed = inj /\ timing = {}
  /\ main = "failed" => dropTs # 0 /\ numPkts > 0

\* send_pkt returns, unless a thread was told to stop between its test of the
\* flag and the call it blocks in, or Stats aborts the process.
CompletesUnlessLost == (main # "idle") ~> (main \in {"idle", "failed"} \/ lost)

\* SIGUSR1 (docker.cpp "stop thread") and unblock ("Unblock the thread calling
\* get_drop_ts() immediately") stop the threads: send_pkt always returns or throws.
Completes == (main # "idle") ~> (main \in {"idle", "failed"})

\* The assertion of the receive loop: when a drop was detected there are no
\* received packets.
DropLeavesNoPackets == main = "waiting" /\ dropTs # 0 => recvPkts = <<>>

\* "When _drop_ts != 0, the packet was certainly dropped."
DropCertain == main = "collect" /\ dropTs # 0 => inj \in dropped
=============================================================================
