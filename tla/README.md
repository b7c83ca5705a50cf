# TLA+ models of Neo

Neo verifies network configurations. It forks a process per invariant and per
combination of connections, lets SPIN explore the network's behaviours, and,
when a packet reaches a middlebox, injects a concrete packet into an emulation
of that middlebox (a Docker container) and continues with whatever comes out.
This directory holds TLA+ specifications of that machinery, TLC configurations
that model-check them, and TLAPS proofs about all four systems they are built of. Every
definition is translated from the code; `PROJECT.json` maps each one to its
lines.

## The system

| Component | State | Operations | Interacts with |
|---|---|---|---|
| Supervision (`plankton.cpp`: `run`, `verify_invariant`, `inv_sig_handler`, `kill_all_tasks`) | `_tasks`, `_violated`, `_terminate` | fork a task, wait for one, halt all | its child processes, by SIGCHLD, SIGUSR1, SIGTERM |
| Equivalence classes (`eqclassmgr.cpp`) | `_allranges`, `_all_ecs`, `_owned_ecs` | `add_ec`, `get_overlapped_ecs` | configuration at start, `ConnSpec` per invariant |
| Connection matrix (`connmatrix.cpp`, `connspec.cpp`, `invariant.cpp`) | iterators over sets of connections | `compute_conn_matrix`, `set_conns` | the fork loop of the supervision |
| SPIN loop (`network.pml`, `Plankton::exec_step`) | the SPIN state vector | one step of a process, process switch, invariant check | all of the below, called within one C block |
| Choosing connections (`choose_conn.cpp`) | none of its own | `update_choice_count`, `exec_step` | `executable` and forwarding mode of every connection |
| Forwarding (`forwarding.cpp`) | per connection: mode, location, candidates, FIB, injection results | `first_collect` ... `accepted`, `inject_packet`, `process_recv_pkts` | emulations, packet inference, connections |
| Packet inference (`lib/net.cpp`) | none | `reassemble_segments`, `identify_conn`, `process_proto_state`, `check_seq_ack` | connections in the state vector |
| OpenFlow (`openflow.cpp`) | number of installed updates per node | install one or go on | FIB of the current connection |
| Routing (`routingtable.cpp`, `node.cpp`) | routes per node | insert, update, longest-prefix lookup, recursive next hops | FIBs |
| L2 topology (`network.cpp`, `l2-lan.cpp`) | links, LANs and who has which address on them | `add_link`, `find_l3_endpoint` | next hops of routes and of middleboxes |
| Invariants (`src/invariant`) | verdict, visited hops, reach counts | `check_violation` after each step | `choice_count`: a verdict ends the path |
| Correlated invariants (`conditional.cpp`, `consistency.cpp`) | index of the current sub-invariant; `result` and `unset`, outside SPIN's state | `check_violation`, `reinit` | start another exploration within the path |
| Emulation pool (`emulationmgr.cpp`) | emulations, index by middlebox and history | `get_emulation`, `update_node_pkt_hist` | `Middlebox`, and one emulation per middlebox |
| Rewinding (`emulation.cpp`, `middlebox.cpp`) | history an emulation claims, offsets of sequence numbers and ports | `init`, `rewind`, `set_node_pkt_hist`, repeated injection, `apply_offsets`, `update_offsets` | driver |
| Docker driver (`docker.cpp`, `dockerapi.cpp`) | descriptors of the container's namespaces and tap devices | `init`, `reset`, `teardown`, `read_packets` | the container, through the Docker daemon |
| Injection cache (`injection-cache.cpp`) | results by middlebox and history | `get`, `insert` | `inject_packet` |
| Packet injection (`Emulation::send_pkt`) | received packets and hashes, drop timestamp, stop flags | caller, receive thread, drop thread | tap devices, drop detection |
| Drop detection (`dropmon.cpp`, `droptrace.cpp`) | target packet, timestamp, thread | `start_listening_for`, `get_drop_ts`, `unblock`, `stop_listening` | kernel alerts |

The rest (parser, payloads, storage, statistics) is listed in `PROJECT.json` with
the reason why it is partly modelled or not.

### What is hard about it

* **State outside SPIN's state.** SPIN backtracks; containers, the pool and the
  cache do not. `rewind` must bring a container to any earlier history, and a
  restarted container has other namespaces, sequence numbers and ports. Neither
  does it restore the members of a consistency invariant, which compares paths.
* **Threads.** Three or four threads cooperate on one injection, woken by
  signals and condition variables, with frames retransmitted and drop alerts
  delivered late.
* **Interleaving of connections.** Connections are interleaved only at
  middleboxes, which saves states only if no behaviour is lost by it.
* **Signals.** A handler that erases, kills and waits runs between any two steps
  of the loop that forks, inserts and sleeps. Every exit runs a destructor that
  kills and waits as well, in a search with what it inherited of `_tasks`.
* **Long protocol sequences.** Every packet a middlebox sends must be placed in
  a connection and a protocol state.

### What makes each part correct

* *Supervision*: every combination of connections gets one search, no more than
  the allowed number at a time; a violation or failure is noticed, no search is
  killed by the end of another process, and the process ends.
* *Equivalence classes*: the coarsest partition that tells apart all configured
  prefixes, in whatever order they are added.
* *Exploration*: the range of choices always fits the next step, paths end, no
  connection is forgotten, and no step throws.
* *Invariants*: the verdict is that of the explored path; a conditional or
  consistency invariant combines the verdicts of its parts as documented, each
  part starting as it would alone.
* *Pool*: index and emulations agree, limits hold, each container is in the
  state its emulation claims, and the search sees what it would of middleboxes
  that can be put into any earlier state at will.
* *Containers*: there is one for each middlebox with an emulation, its driver's
  descriptors are of its present life, no frame of an abandoned branch is read,
  and numbers are translated between the container's connections and the state
  vector's.
* *Injection*: threads are joined, buffers agree, a drop belongs to the injected
  packet, an injection is timed once, and `send_pkt` returns.

## Modules

Each module's header comment says what it abstracts. A definition whose comment
begins with "Mutant" is a plausible bug: the definition right after it is
replaced by it to see that a property notices.

| Module | Models | Composed with |
|---|---|---|
| `EmulationPool` | `EmulationMgr`, `rewind`, the injection cache, packet histories, and the part of `inject_packet` that uses them, under any backtracking | stands alone |
| `ForgetfulMiddlebox` | the abstract specification: one middlebox of each, that is asked every question once and may forget packets only after a repeated one | implemented by `EmulationPool` |
| `Docker` | the Docker driver and a container's life, as operators on pairs of both | below |
| `Emulation` | `Emulation` with its driver, container and offsets: `init`, `rewind`, and what `send_pkt` writes, reads and translates | `EmulationPool`, `Docker` |
| `EmulationPoolProofs`, `EmulationProofs` | their theorems | `EmulationPool`, `Emulation`, `TLAPS` |
| `SendPkt` | the threads of `Emulation::send_pkt`, DropMon, DropTrace, and the two measurements of `Stats` | stands alone |
| `RoutingTable`, `ModelState` | links, LANs, routes and next hops; the state vector, access to it, FIBs | below |
| `ChooseConn`, `Net`, `Forwarding`, `OpenFlow`, `Invariants` | the handlers and all invariants, each an operator from states to states | `ModelState` |
| `Plankton` | `initialize`, `exec_step`, `check_to_switch_process` and the SPIN loop | all five |
| `EqClassMgr`, `ConnectionMatrix` | classes and the enumeration of connections, as operators on records | below |
| `Supervisor` | `compute_initial_ecs`, `verify_invariant`, `run` and their signal handler, tasks | both |
| `SendPktProofs` | its theorems | `SendPkt`, `Induction` |
| `EqClassProofs` | lemmas about what `add_ec` and `compute_conn_matrix` make of the classes | `ConnectionMatrix`, `Induction` |
| `SupervisorProofs` | the theorems about `Supervisor` | `Supervisor`, `EqClassProofs` |
| `ForwardingProofs` | lemmas about forwarding, injections and packet inference | `Plankton`, `Induction` |
| `PlanktonProofs` | the theorems about `Plankton` | `ForwardingProofs` |
| `Induction` | induction over numbers and recursive functions over intervals, with sets for predicates | the proof modules |
| `MC*` | constants for TLC | the module they name |

### How the modules correspond to the code

**EmulationPool.** One action of `Next` per call of `inject_packet` on a
middlebox, plus `Backtrack` and `Reinit` (correlated invariants start over with empty
histories). `stack` is
SPIN's search stack of packet histories; `emus`, `mb`, `nph` and `mbEmuMap` are
the pool and its index; `processed` is what the container behind an emulation
has processed since it was last launched or reset, which stands for its state;
`cache` the injection cache with the state each result was observed in. A
history is interned in the code, so it is a sequence of packets here.
`get_emulation` chooses by `lower_bound` over addresses of histories: any choice
an order of addresses permits is allowed. `Forgetful` instantiates
`ForgetfulMiddlebox` with the search stack as it is, every result of the cache, and
as forgetful the middleboxes whose emulation claims a packet that was not sent.

**Emulation.** Each action is one of `EmulationPool` together with what it does
to the container. `Ready` is the pair of driver and container `get_emulation` and
`rewind` leave to send to (launched, reset, or as it was), `SendAll` sends the
packets of the replay and of the injection one after the other. `Send` is
`send_pkt` without its threads, which `SendPkt` has: `apply_offsets`, the frames
the container answers with, those of them that are read in time, and
`update_offsets`. A container that is started again counts as another life, and
its driver's `ns` says of which life the descriptors are; `Isn` and `Ephemeral`
are the sequence numbers and the port it chooses in each life. `Expected` are the
numbers its TCP expects of a packet. `wrong` and `disordered` are auxiliary.

**SendPkt.** `main`, `recv`, `drop` and `dm` are the control states of the
caller, the receive thread, the drop thread and DropMon's thread. Each critical
section of `_mtx`, each test of a flag and each blocking call is an action of
its own. `enter` is the place between the test of a flag and the call that
blocks, where a signal or notification is lost. The container may send and
retransmit frames at any time it is not paused, the kernel drops any packet and
delivers alerts late or not at all. `timing` has the measurements `Stats` has
started; to stop one that is not among them throws, which is `main = "failed"`.

**Plankton.** `now` is SPIN's state vector, with `conns` the array of
connections. `ChooseConn`, `Forward`, `Inject` and `InstallUpdate` each stand
for one turn of the Promela loop: `select(choice)`, then `exec_step` with the
handler of the current process, `check_to_switch_process` and `check_violation`.
They differ only in the process that runs. `NextPath` is SPIN going on to another
path after one without a violation: the state vector starts anew, `stored`
(`result` and `unset` of a `Consistency`) does not. Only the paths' order and
number is abstracted: any sequence of paths, with repetitions, is allowed.
`failed` is set where the code throws or an assertion fails. `Inject` chooses
what the middlebox answers: for each of its ways to work (pass on, translate,
answer itself, in one or two segments, report to another host, drop) the results
the code could have received. Packets have sequence numbers relative to the
start of their connection, as the state vector has, and the size of a payload.
`reached`, `decided` and `ended` (the verdicts of the parts of a correlated
invariant) are auxiliary.

**RoutingTable.** `Links`, `Owner`, `IntfAddr` are the parsed topology; an
interface without an address is a switch port. `LanPorts` is `collect_intfs`,
`GetIpnh` the node behind an interface or, on a LAN, the one with the address
looked up. `GetIpnhs` has the queue of `get_ipnhs` as the closure of the
addresses it looks up. `InsertRoute` and `UpdateRoute` are the two ways of putting a
route in, of which `install_update` uses both and `get_installed_updates` the second
(`Inserted`, `Replaced`). `ModelState` builds each node's table as the parser does,
interfaces first, and from it the FIB of a connection.

**Supervisor.** A behaviour is that of one process that forks: of an invariant,
or the main one (`IsMain`), whose children are the invariant processes. `pc` is
where `verify_invariant` or `run` is, `handler` where
`inv_sig_handler` is; the program moves only while the handler does not run.
`fork`, `insert`, the tests of `_tasks` and `pause()` are separate actions, as
are `waitpid` calls, which children race with. A pending signal is a member of
`pending`, so two of a kind coalesce; SIGUSR1 (10) is delivered before SIGCHLD
(17), as Linux does. Tasks report, end with status 0, with another one, or by a
signal. Signals sent to tasks need no state as a task may end at any time. A process
that is done goes through `~Plankton` (`Destroy`, `Exit`): the flags are reset, and it
kills what is in `_tasks` and waits for all children, still handling signals. A search
that ends by `exit` does the same with the `_tasks` it `inherited` when it was forked;
those of them that still run are then in `killed`, and end as any killed process.

Two definitions leave something out within their function. `FirstForward` gives a
connection the class of its node as source, where the code takes the address of the
interface it leaves through; so does it for a connection to the node itself, where the
code takes a loopback interface, and ends with an error if that has no address
(`forwarding.cpp:80-93`).
`Allowed` of `Plankton` lets a middlebox answer only what the code can take: within
`MAX_CONNS`, starting new connections with their first packet, and without two UDP
packets from one interface (see Findings).

## Runs

| Run | Expected | Shows |
|---|---|---|
| `emulation_pool` | pass | Index, limits and cache stay consistent; containers are in the state their emulation claims unless a cache hit skipped a packet; containers and drivers belong together, frames left over belong to the claimed history, and numbers are translated to those of the present life unless a frame came out of order; the pool implements `ForgetfulMiddlebox`. |
| `emulation_pool_cache_hit` | violation of `CachedResultsFaithful` | A cached result observed in the wrong state, after a cache hit. |
| `emulation_pool_replay` | violation of `ReplayReproducesState` | A replay sends each packet once, an injection several times. |
| `send_pkt` | pass | Buffers, flags, threads and drops agree; no injection is timed twice; the receive loop ends, and so does `send_pkt` unless a wakeup is lost. |
| `send_pkt_stop` | violation of `Completes` | The lost wakeup. |
| `send_pkt_assert` | violation of `DropLeavesNoPackets` | A packet stored after a drop was recorded. |
| `send_pkt_certain` | violation of `DropCertain` | A drop of an earlier injection taken for this one's. |
| `plankton` | pass | Choices in range, injections last, paths end, nobody forgotten, no failures, the verdicts of reachability, conditional and consistency; parts start afresh, flows keep their path, and FIBs are ones their nodes have had. |
| `plankton_loop` | violation of `LoopVerdict` | A packet that stays reported as a loop. |
| `plankton_unrouted` | violation of `ReachabilityVerdict` | An exploration that ends undecided. |
| `supervisor` | pass | The partition into classes; every combination, and every invariant, forked once; limits, halting, nothing left to kill at the exit, and with one job no search killed by another; the end of the process. |
| `supervisor_correlated` | violation of `CorrelatedHaveConns` | Tasks in which a sub-invariant has no connection. |

`CHECK_DEADLOCK FALSE` is said everywhere because all four systems stop: the search
stack of `EmulationPool` and `Emulation` ends at its bounds, `SendPkt` is idle after
its last injection (and its threads may really block for ever), a path of `Plankton`
is over when `choice_count` is 0, and a supervisor exits.

### Bounds

* `Emulation` and `EmulationPool`: three middleboxes, three addresses for
  emulations, at most two emulations, so that one must be taken over, and the one
  that loses it takes another one in turn. Histories of two packets give proper
  prefixes, equal and diverging histories; three stacked states (four in the
  violation runs) suffice to inject, backtrack, and inject along another branch.
  One middlebox is a proxy with two packets, so that what the second does depends
  on the numbers of the first; a frame may stay in its taps (`MaxLeft` = 1), to be
  read in the next injection, the next replay, or after a reset. A container has
  two sets of numbers, which alternate from life to life (`Lives` = 2): an offset
  is kept for a life at a time, so it is the one of the life just before that could
  be taken for the present one's. Servers and
  addresses are symmetric; in the violation runs, which have no containers, so are
  the packets.
* `SendPkt`: two injections, the least with leftovers of an earlier one; two tap
  devices with a queue of one frame each; all three detection methods; packets
  with equal and with different headers.
* `Plankton`: seven nodes, with a client, a router and a middlebox on the LAN of
  a switch, a router with two equal routes to one destination, found through the
  addresses of next hops, and two updates, the first of which replaces them, one
  middlebox that
  forwards, translates or serves depending on the port; single connections of
  TCP, UDP and ICMP and concurrent ones; three connections (`MAX_CONNS`), one
  packet forwarded per result, two results per injection. Connections a middlebox starts
  are among the three. Correlated invariants have two parts out of three whose
  results depend on path choices, the update and the middlebox; of them every
  pair, in either order. A TCP connection the middlebox translates is followed
  up to its request and reply only (see the findings).
* `Supervisor`: addresses of three bits; all sequences of three out of nine
  prefixes and interface addresses; invariants with two to five tasks, of one
  specification, of two concurrent ones, and of two correlated invariants; one or
  two jobs, with and without `--all`; a main process with three invariants, two at
  a time or one after the other. One termination from outside.

### Fairness

* `SendPkt`: weak fairness of each thread. The operating system runs threads
  that can run, and `wait_for` times out. Nothing is assumed of the container or
  the kernel: frames and alerts may never come or never end.
* `Plankton`: weak fairness of the steps of a path, not of `NextPath`: SPIN
  follows each path until it ends, and every path ends (`PathEnds`).
* `Supervisor`: weak fairness of the process, of its handler, and of the end of
  tasks: a search is finite, and terminated tasks end at their next step. That an
  injection inside a task returns is what `SendPkt` is about.
* `Emulation` has safety properties only.

## Findings

The violation runs are disagreements between the code and what its comments or
assertions say; `PROJECT.json` quotes the lines.

1. *Cache hit.* `inject_packet` advances the history an emulation claims, then
   finds the result in the cache and sends nothing (`forwarding.cpp:342`). The
   container lacks the packet, `rewind` does not notice, and later results are
   filed under a history the container never had.
2. *Replay.* `rewind` sends each packet once, `Middlebox::send_pkt` had sent it
   `_packets_per_injection` times.
3. *Lost wakeup.* Threads are stopped by a flag and one signal or notification,
   which is lost on a thread between its test of the flag and its blocking call.
4. *Assertion.* `assert(_recv_pkts.empty())` fails when the receive thread stores
   a packet between the drop thread's clearing and the caller's return.
5. *Stale drops.* Drop events of an earlier injection (in DropTrace's ring buffer,
   or late alerts with an equal header in DropMon) are taken for this one's.
6. *Loop invariant.* `VisitedHops::add` never sets `_last_hop`, so a packet that
   takes two steps at one node is a loop.
7. *No next hop.* A packet of a middlebox without a next hop is logged only; its
   connection stays executable without candidates and the exploration ends with
   no verdict.
8. *Correlated connections.* `set_conns` advances the connections of correlated
   invariants like an odometer, but at first only the first "digit" is set, and a
   digit that wraps is left empty: in some tasks a sub-invariant has no
   connection and is judged on what the one before it left behind. All full
   combinations are forked as well (`EveryCombinationForked`).

Met while modelling, and not the subject of a run:

* A verification process that is signalled between the test of `_tasks` and
  `pause()`, or whose task ends before its pid is inserted, waits for ever. The run
  `supervisor` shows that these are the only ways (`EndsUnlessRaced` names them in
  `raced`). One that is terminated between the loop's condition and `fork()` forks
  a search all the same; it is inserted, and killed and waited for by the destructor.
* A search that exits runs `~Plankton` too, with the `_tasks` it inherited
  (`verify_conn` does not clear them): with more than one job it kills those of the
  searches forked before it that still run. The handler takes SIGKILL for a normal
  end, so a verification may end with no violation although searches were cut short.
  `NoneKilledByAnother` says that this cannot happen with one job or to the process
  of an invariant; it fails for two jobs. "Forked" in `EveryCombinationForked` is
  therefore no more than that.
* The destructor of the main process kills with SIGKILL, which an invariant process
  cannot handle: its own searches, if any, are left running. `Supervisor` has one
  level of processes and cannot show it.
* The handler erases from `_tasks`, an `unordered_set`, wherever the program is, and
  so also in the middle of an insertion, which is undefined; the model takes both
  for atomic.
* A drop may be recorded after the first response has been timed
  (`emulation.cpp:375`): stopping the measurement of the response erased that of
  the drop as well, and `Stats::stop` throws at line 388. `TimedOnce`
  shows that nothing else makes it throw; `CompletesUnlessLost` counts such an
  injection as one that ended.
* A middlebox that is the endpoint of a TCP connection and accepts the last packet
  of the handshake without sending anything has "dropped" it
  (`forwarding.cpp:497`), unless it sends a packet of another connection. The
  comment at line 475 says that such packets are assumed to be accepted even when
  there is no response. Requests to a server that is an ordinary middlebox are
  therefore never explored; in `MCPlankton` the server reports its connections to
  another host.
* Two UDP packets that come from one interface in one injection fail the assertion
  of `is_tcp_ack_or_psh_ack` in `reassemble_segments`; the middlebox of `Plankton`
  does not send them.
* A task ended by an uncaught exception (`Logger::error` throws) or a failed
  assertion is ended by SIGABRT, which the handler does not take for an abnormal
  end: the connections count as verified.
* An EC task's failure terminates its invariant process, which then exits with
  status 0, so that the main process goes on with the other invariants.
* *Translated TCP.* Both ends of a translated TCP connection start the
  termination (`accepted` lets the client do so at the middlebox, and the server
  at its own end), and the FIN or ACK the middlebox then forwards fits no protocol
  state: `convert_proto_state` throws or an assertion fails. `MCPlankton`
  therefore does not follow a translated TCP connection to its end; `NeverFails`
  is violated if the waypoint queries include it.
* `reinit` leaves the memory of connections beyond the initial ones. A connection
  that a middlebox starts afterwards keeps what is found there, and its FIB is
  computed anew only if its destination class differs: one with the same class
  keeps the FIB, with updates, of the part before. `PartsStartAfresh` is about
  the connections that exist when a part starts.
* `Connection::init` does not reset the visited hops, so a loop invariant that is
  not the first part starts with those of the part before.
* `Consistency` compares every path's result with that of the first path, so
  sub-invariants whose result depends on SPIN's choices are reported although
  they agree on each path. "the same result" in the documentation may mean either.
* An earlier update is inserted by `install_update` with the default distance of
  255, and so is ignored when the table has a route to its network, which
  `get_installed_updates` would replace. The connection that installs a second
  update has the node's FIB of before the first one then (`FibsAreSnapshots` allows
  any number of the installed updates for that reason).
* A middlebox that sends on a packet through a gateway on a LAN gets no next hop:
  `get_ipnh` looks the packet's destination up on the LAN, not the gateway.
* `add_non_overlapped_ec` wraps behind 255.255.255.255 and creates a class for
  all addresses, which no range leads to but `Initial ECs` counts.
* A specification without connections makes `get_next_conns` dereference the end
  of a set.
* `OneRequest` starts as violated and nothing clears it; `Waypoint` with
  `pass_through` starts as not violated and nothing sets it.
* An OpenFlow update that removes the hop a flow had chosen and leaves several
  others (several routes per update are needed for that) lets the flow choose
  again, and `Choices::add_choice` then finds its key taken.
* A server that acknowledges a FIN before sending its own gets "Invalid TCP
  flags".
* A packet of another connection replaces one that is still on its way.
* The receive loop of `send_pkt` ends at the first notification that brought only
  duplicates.
* `update_offsets` returns, rather than continues, at a packet that is not TCP or
  not the middlebox's own; later packets of the list reach the state vector with
  the container's numbers. `NumbersTranslated` names this case (`disordered`).

## Proofs

The theorems hold for all values of the constants that satisfy the assumptions named
in the modules: any sets of middleboxes, addresses, packets and taps, any network,
routes and updates, any invariants with any number of parts, any configurations of a
supervisor, and any bounds.

The assumptions that are more than types: an initial connection starts at a host
(`ConnSpecs` in `Plankton`; the parser does not forbid a middlebox, for which
`first_collect` would inject the initial packet, and go on to forward it); the address
of an interface is added to the classes as a range of one address (`Supervisor`).
Beside the three with one packet per injection, five theorems have a hypothesis of
their own: `Routed` (`EndsWhenDoneHolds`), every middlebox has a next hop for what it
sends, which is what the run `plankton_unrouted` lacks; `NoLoopParts`
(`PartsStartAfreshHolds`), no part of a correlated invariant is a loop invariant, as
those start with the visited hops of the part before (see Findings);
`UpdatesTakeEffect` (`FibsAreSnapshotsHolds`), a condition on the routes of each node
under which `install_update`, which inserts the earlier updates, and
`get_installed_updates`, which puts them in place of the routes with their network,
find the same next hops (see Findings): an update replaces configured routes of less
distance, or is the only route to its network, it leads to a node, and no configured
next hop lies in its network (`MCPlankton` assumes it too, so that TLC evaluates it on
the network of the runs); and
`HasConnections` (`SupervisorTypeOK`, `EveryCombinationForkedHolds`), each
specification has a source, a port and, where only owned destinations are asked for, an
owned address in its prefix, which the code does not check (see Findings).

| Theorem | Statement |
|---|---|
| `PoolTypeOK` | the types of all variables |
| `PoolIndexedHolds` | the index holds each emulation once, under the middlebox and history it records: the assertions on `erase` hold |
| `PoolWithinLimitsHolds` | one emulation per middlebox, at most `_max_emu` |
| `CacheFunctionalHolds` | one cached result per middlebox and history |
| `HistoriesCachedHolds` | every history on the search stack or claimed by an emulation has its result in the cache |
| `FaithfulUnlessSkippedHolds` | with one packet per injection, a container is in the state its emulation claims unless a cache hit skipped a packet since its last reset |
| `PoolImplementsForgetful` | with one packet per injection, the search stack and all results the search uses behave as those of `ForgetfulMiddlebox` |
| `ProcessedWithinClaimedHolds` | what a container has processed is, in order, part of the history its emulation claims |
| `EmulationPoolInv` | `Emulation` keeps the pool's invariant |
| `ContainersOfPoolHolds` | each emulation in use has the one container of its middlebox, its driver the descriptors of that container's present life, and no container is left over |
| `FramesWithinHistoryHolds` | frames left in a tap device answer packets of the claimed history |
| `NumbersTranslatedHolds` | whatever numbers a container chooses in each of any number of lives, none of its numbers reach the search, nor those of another life a container, unless frames came out of order |
| `SendTypeOK` | the types of all variables of `SendPkt` |
| `HashesMatchPacketsHolds` | the received packets and their hashes agree, none twice |
| `TimedOnceHolds` | each injection has one latency, and `Stats::stop` throws only for a drop that came after a response |
| `ThreadsJoinedHolds` | between injections no thread of `send_pkt` is left and no flag that stops one is up |
| `DropMatchesTargetHolds` | a drop that DropMon reports is of a packet with the injected one's header |
| `PathTypeOK` | the types of the state vector and of what is kept beside it |
| `ChoiceInRangeHolds` | the range of choices is that of what the next step indexes |
| `InjectWhenQuietHolds` | packets are injected when every other connection waits at a middlebox or has finished |
| `EndsWhenDoneHolds` | where every class has a route (`Routed`), a path that ends without a verdict has finished all connections |
| `ConditionalVerdictHolds`, `ConsistencyVerdictHolds` | the verdicts of correlated invariants are those documented, along every sequence of paths |
| `FibsAreSnapshotsHolds` | in the first or only part, where both ways to install updates agree (`UpdatesTakeEffect`), a connection's FIB has at each node the next hops of some number of the updates installed there so far |
| `PartsStartAfreshHolds` | a part that is not about loops (`NoLoopParts`) starts from the state it would start from alone |
| `NothingLeftToKillHolds` | a process that was not terminated exits with every process it forked ended and reaped |
| `NoneKilledByAnotherHolds` | with one job, and in the main process, no process is killed by the exit of another |
| `ViolationNoticedHolds` | a process that ends by itself knows of every violation reported to it |
| `FailureHaltsHolds` | a failed task halts the verification |
| `JobsBoundedHolds` | at most `_max_jobs` searches, or one invariant, at a time |
| `CoarsestEcsHolds` | the classes are the coarsest partition of the covered addresses into sets on which all added ranges agree, in whatever order these are added |
| `SupervisorTypeOK` | where specifications have connections (`HasConnections`), the iterators of the matrices are in their sets; and the types of all other variables |
| `OwnedEcsAreAddressesHolds` | the owned classes are those of the interfaces' addresses, each alone in its class |
| `EveryCombinationForkedHolds` | a process that went through its combinations without being terminated or told of a violation has given every combination of the specifications' connections to exactly one task, with these tasks and no others |

The inductive invariant `PoolInv` is `TypeOK /\ PoolIndexed /\ PoolWithinLimits`.
None of the last two is inductive alone: what `get_emulation` finds through the
index is an emulation of the middlebox asked for only if the index is right, the
index stays right only if no second emulation of a middlebox exists, and a new
emulation is within the limit only if the index, whose size is tested, holds all
of them. `GetEmulationReturns` says what each branch returns, `InjectIndexed` and
`InjectWithinLimits` that an injection keeps the two conjuncts. `HistoriesCached`
then follows from `PoolInv`: the history an emulation claims is that of the
search state it was advanced with, whose result was inserted in the same step.
`FaithfulUnlessSkipped` rests on `SinceCompletes` (a history is one of its
prefixes and what `get_packets_since` returns) and `RewindFaithful` (`rewind`
replays exactly what is missing, or everything after a reset).

The refinement maps every cached result to an answer with the state it was observed
in, and the emulations that `skipped` a packet to forgetful middleboxes, so that the
results behind the run `emulation_pool_cache_hit` are among the answers. A hit is a
`Repeat`; a miss is a `MeetFaithful` in a container that was launched, reset, or
skipped nothing, by `FaithfulUnlessSkipped`, and a `MeetForgetful` otherwise: by
`Within` what such a container has processed is an ordered part of the claimed
history, and by `Lacking` a proper one. `PoolIndexed` and `PoolWithinLimits` give that
no other middlebox becomes forgetful, also in a take-over (`ForgettingAfter`). The
assumption of one packet per injection is needed, as the run `emulation_pool_replay`
shows. `Emulation` only constrains what `EmulationPool` leaves open, so that its steps
are the pool's by definition (the lemma `EmulationImplementsPool`), and what is proved
of the pool carries over.

In `SendPkt`, `Joining` says which threads exist at each step of the caller: each
stop flag is up only while the caller joins its thread, and a thread that the
method does not need is never started. `TargetOnly` follows the timestamp of a
drop from the alert through `detTs` and `ts` to the caller.

For a supervisor, `TrackInv` says where a process that has not been reaped is known:
in `_tasks`, as the newest one before its insertion (`Tracked`), or to
`kill_all_tasks`, which waits for all. A violation that is not recorded has its
SIGUSR1 pending, and the program cannot run before that is handled while its task is
already reaped (`Pending`): this is where it matters that SIGUSR1 is delivered before
SIGCHLD. A failure has not been reaped or is acted upon (`Failing`). Only a process
that was terminated or has an empty `_tasks` leaves the second loop, which gives the
three properties of its end. `Room` counts the processes not reaped: a test of
`_tasks` bounds them by `Tracked`, and nothing but a fork adds one.

*Loops.* What the code does in a loop over a list is a recursive function over an
interval. The library's induction theorems have a predicate as a parameter, of which
the provers find no instance; `Induction` proves the same facts of sets
(`NatSetInduction`, `LoopInvariant`), and that such a function exists (`LoopRuns`).
The lemmas about replays, the packets of an injection, received packets,
installed updates, results of middleboxes and the splitting of classes are instances.

*Containers.* `ProcessedWithinClaimed` follows from `Within`, which is kept by the
witness of an embedding: where in the history each processed packet lies. `ContainersOfPool` needs that drivers and
containers change only where the pool's step changes the emulation
(`Ready` leaves a container that is dialed in its present life). For the frames, each
one carries the packet it answers, and a frame is only left over by the packets sent
since the taps were last opened, which are within the claimed history. The numbers
follow from the lives: an offset is zero or that of the container's present life, unless
`disordered`, because what starts another life (`Launch`, `ResetEmulation`) clears it.

*Measurements.* `SendInv` joins the control states of the threads to what `timing`
and the buffers hold: a measurement that the caller is going to stop was started in
this injection and is stopped by nobody else. Its hashes are those of its packets,
because both are changed in the same critical sections.

*Paths.* `PathInv` of `PlanktonProofs` joins three predicates of the state vector.
`Sane` is the types, and which of a connection's fields are set in which mode. `Ready`
is what the next process needs: `choice_count` is the number of what it will index, no
other connection is in the middle of an injection, and none has a packet on its way
while one is before a middlebox, which is `InjectWhenQuiet`. `Turn` says that the
current part exists. Within a step, `Stepped` with `Left` is what a process hands to
the checks that follow it, and what makes `Ready` true again after
`check_to_switch_process`. The lemmas of `ForwardingProofs` show it for each handler
of forwarding. `ConditionalInv`, `ConsistencyInv` and `PartsInv` add what `ended` says
of the parts before the current one; the second goes across paths, since `stored`
does.

*FIBs.* `Snapshots` says of every connection that has a destination what
`FibsAreSnapshots` says of the begun ones. Every handler either keeps the FIB with the
destination (`SameFib`) or computes it anew from the tables as they are
(`SnapshotNow`), and the number of installed updates never shrinks, so that only
`install_update` is left. It changes one node of the current connection's FIB, from a
table that `get_installed_updates` never builds. `SnapshotHops` shows that its next
hops are nevertheless those of some number of updates, by what the two tables are made
of (`InsertTableFacts`, `UpdateTableFacts`): the lookup of the destination finds what
it finds with the updates up to the last one found, or with none (`LookupFacts`);
every other address looked up is a configured next hop, which no update concerns
(`LookupElsewhere`); and tables that agree on all addresses looked up give the same
next hops (`SameHops`). That updates lead to a node is needed because a FIB takes the
configured hops when there are no others.

*Classes.* `Proper` says that the ranges do not overlap and belong to classes that were
created. `AddEcFacts` describes `add_ec` by addresses: an address in the range leaves
the class it was in if that is cut, and two such addresses are in one class afterwards
if they were before, or if both were in none; nothing else moves. It rests on
`SplitProper` (one split), `SplitAllFacts` (the loop over the cut classes, where no
split touches another cut class), and `GapFacts` (what `add_non_overlapped_ec` inserts
is exactly the rest of the range, also where its lower bound wraps behind the highest
address). `Coarse` and `Owned` are then kept by each addition, and `CoarsestEcs` and
`OwnedEcsAreAddresses` state them by sets of addresses. They also give that the prefix
of a specification has a class, and an owned one if it has an owned address
(`ConnectionsExist`), so that no set of a matrix is empty; `InRange` is then kept by
`Advanced`, which moves only an iterator that is not at the end, and by a reset.

*Combinations.* `EveryCombinationForked` relates the tasks to a product of sets of
connections, which the code never builds: it advances one iterator per field of each
specification, and one per specification, as the digits of a number. `Before` orders
the positions of such iterators and `Follows` is the next one; `AdvancedFollows`
(the carry of `get_next_conns` and of the correlated loop), `NextOfProduct` and
`NextOfDigits` show that a step goes to it, skipping none, and reports the end only at
the last one. The inductive invariant `ComboInv` then says that the positions before
the present one are those of the tasks so far, by a bijection (`Told`). Every step but
the two forks leaves both alone (`Undisturbed`); a fork adds one position to both
(`ToldMore`); and the program leaves the loop early only if terminated or told of a
violation. `CombinationVector` and `SinglesFlatten` turn positions into the
combinations of the property (`CombinationOnce`), `VectorsCount` and `NumConnsFacts`
their number into what the folds count (`CombinationCount`).

Only model-checked:

* *Liveness* (`PathEnds`, `ReceiveLoopEnds`, `CompletesUnlessLost`,
  `EndsUnlessRaced`), which these provers do not reach.
* `ReachabilityVerdict`, `FlowsKeepPath` and `NeverFails` of
  `Plankton`. They hold in the networks that are checked, but not for all values of
  the constants: with addresses that several nodes have, or an update between the
  first packet and the request, the node that accepts is not the one the connection is
  recorded to reach; a packet that a middlebox sends of a connection that is elsewhere
  takes the middlebox's next hop; and a middlebox may send what the code throws at.
  `FibsAreSnapshots` in the later parts of a correlated invariant.

## Not modelled

* Reading configurations, interning and printed statistics: no control flow that
  the properties depend on. Parsed configurations are constants.
* Layer 2 next hops, which FIBs record next to the layer 3 ones that forwarding
  uses.
* Payload contents and packet (de)serialisation; 32-bit wrap-around of sequence
  numbers, which are small here and relative to the start of a connection.
* In the Docker driver, the steps of setting up devices, routes and ARP entries,
  which are taken to work (each failure throws), `exec`, and the HTTP requests.
  Pausing appears in `SendPkt` only: `Emulation` injects atomically.
* Drop timeout estimates: a timeout may happen at any moment.
* Failures of `fork()`, and the composition of the main process with the processes
  of its invariants, which only share the end of the latter.

## Plan

1. *Done*: `EmulationPool` with proofs; `SendPkt`; `Plankton` and its handlers;
   correlated invariants; `EqClassMgr`, `ConnectionMatrix`, `Supervisor`.
2. *Done*: `Emulation` and `Docker` below the pool, `ForgetfulMiddlebox` above it with the
   refinement checked and proved; sequence numbers, segments and two updates in
   `Plankton`; the main process in `Supervisor`; measurements in `SendPkt`.
3. *Exploration*: the abstract specification in which connections interleave freely,
   and `Plankton` as its refinement; updates with several routes; the visited hops of
   a second loop part.
4. *Done*: proofs of the safety properties of all four systems, but for those listed
   as only model-checked.
5. *Done*: the proof that the tasks of a `Supervisor` are the combinations of its
   connections; the conditions on a network under which FIBs are snapshots.
6. *Proofs*: the same for `ReachabilityVerdict`, `FlowsKeepPath` and `NeverFails`.
