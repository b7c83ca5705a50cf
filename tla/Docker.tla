------------------------------- MODULE Docker -------------------------------
(***************************************************************************)
(* The Docker driver of one emulation and the container it works with, as  *)
(* far as they decide what a packet sent to the container meets and what   *)
(* is read from it.                                                        *)
(*                                                                         *)
(* A container has another life, with other namespaces and other numbers   *)
(* for its connections, each time it is started.  The driver's record has  *)
(* "ns", the life its namespace and tap descriptors belong to, and         *)
(* "frames", those the container wrote to its taps and nobody has read.  A *)
(* pair w has driver and container, as "d" and "k".                        *)
(***************************************************************************)
EXTENDS Naturals, Sequences

CONSTANT Lives    \* bound: the lives of a container that have numbers of their own

ASSUME LivesAssumption == Lives \in Nat \ {0}

LifeNumbers == 0 .. Lives - 1

\* The life that descriptors belong to, counted back from the one the container has
\* now; those before it are not told apart.
NoLife == 0
OldLife == 1
ThisLife == 2

-----------------------------------------------------------------------------
(* DockerAPI and the daemon.  The result of creating a container is tested,*)
(* those of restarting and removing one are not.  Between injections a     *)
(* container is paused, which loses nothing and is not modelled.           *)

ContainerStates == {"absent", "running", "conflict"}

Absent == [state |-> "absent", dialed |-> FALSE, life |-> 0]

\* "life" counts the lives in which the container chose numbers for a connection:
\* a life without tells nobody apart from the next.
Removed(k) ==
  [state |-> "absent", dialed |-> FALSE,
   life |-> IF k.dialed THEN (k.life + 1) % Lives ELSE k.life]

Started(k) == [Removed(k) EXCEPT !.state = "running"]

\* run: create and start; a container of that name is a conflict.
RunCntr(k) == IF k.state = "absent" THEN Started(k) ELSE [k EXCEPT !.state = "conflict"]

\* restart_cntr: whatever the container had in memory is gone, and descriptors
\* that are still open are those of the life before.
RestartCntr(w) ==
  IF w.k.state = "absent" THEN w
  ELSE [w EXCEPT !.d.ns = IF @ = NoLife THEN @ ELSE OldLife, !.k = Started(@)]

-----------------------------------------------------------------------------
(* The driver                                                              *)

\* Closing the tap descriptors deletes the devices, with the frames in them.
CloseDevices(w) == [w EXCEPT !.d.ns = NoLife, !.d.frames = <<>>]

\* fetchns, set_interfaces and set_epoll_events, within the namespace of the
\* process that inspect_cntr reports.
OpenDevices(w) == [w EXCEPT !.d.ns = ThisLife]

\* teardown: the container is removed by force.
TeardownDocker(w) == [CloseDevices(w) EXCEPT !.k = Removed(@)]

InitDocker(w) == OpenDevices([TeardownDocker(w) EXCEPT !.k = RunCntr(@)])

\* Mutant: the descriptors stay open.
ResetDockerKeepTaps(w) == OpenDevices(RestartCntr(w))

ResetDocker(w) == OpenDevices(RestartCntr(CloseDevices(w)))

\* read_packets during an injection: the frames that were waiting come first, and
\* those that come late, or that the thread is stopped before, stay.
ReadPackets(w, n) == SubSeq(w.d.frames, 1, n)
LeftInTaps(w, n) == SubSeq(w.d.frames, n + 1, Len(w.d.frames))
=============================================================================
