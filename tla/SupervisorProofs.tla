-------------------------- MODULE SupervisorProofs --------------------------
(***************************************************************************)
(* Theorems about a process that forks searches or invariant processes, for*)
(* any configuration, number of tasks and order of signals: it ends with   *)
(* all of them reaped, knowing every violation and failure, unless it was  *)
(* terminated.  About the classes it has computed from the addresses of the*)
(* configuration.  And about the combinations of connections: each is given*)
(* to one task, unless the process stopped early.                          *)
(***************************************************************************)
EXTENDS Supervisor, EqClassProofs, SequenceTheorems, TLAPS

-----------------------------------------------------------------------------
(* The inductive invariant                                                 *)

States == {"running", "reported", "gone"} \union Ends
Unreaped == {p \in Forked : child[p] # "gone"}

\* The newest process is not in _tasks yet.
Newest == IF pc = "insert" THEN {Len(child)} ELSE {}

Typed ==
  /\ config \in Configs
  /\ child \in Seq(States)
  /\ IsFiniteSet(tasks)
  /\ handler \in {"none", "reap", "wait", "wait_terminate", "again"}
  /\ pc \in {"init", "loop", "fork", "insert", "test", "enter", "paused",
             "return", "reset", "exit"}

\* ~Plankton has reset the flags.
Over == pc \in {"reset", "exit"}

\* Nothing has happened before the first fork loop, and the main process leaves
\* its first step there with a fork.
Quiet ==
  /\ pc = "init" =>
       /\ pending = {} /\ handler = "none" /\ child = <<>>
       /\ ~terminate /\ ~reports /\ ~failures
  /\ IsMain /\ pc \in {"insert", "test", "enter", "paused"} => child # <<>>

\* While kill_all_tasks does not wait for all of them, processes that have not
\* been reaped are in _tasks, or about to be inserted.
Tracked == handler \notin {"wait", "wait_terminate"} => Unreaped \subseteq tasks \union Newest

\* kill_all_tasks waits for a violation only if that stops the search.
Stopping == handler = "wait" /\ ~Over => violated /\ ~config.all_ecs

\* A violation that is not recorded is still pending, from a task that the
\* interrupted program has not seen end.
Pending ==
  reports /\ ~violated /\ ~terminate /\ ~Over =>
    /\ "USR1" \in pending
    /\ (handler = "none" => Unreaped # {})

\* A failure is still to be reaped, or is being acted upon.
Failing ==
  failures /\ ~Over =>
    \/ terminate \/ handler = "wait_terminate" \/ (violated /\ ~config.all_ecs)
    \/ \E p \in Forked : child[p] = "failure"

\* A process that leaves its loops by itself has reaped all of its children, and
\* acted upon what they told it.
Drained ==
  pc = "return" /\ ~terminate =>
    /\ Unreaped = {}
    /\ reports => violated
    /\ failures => violated /\ ~config.all_ecs

TrackInv == Typed /\ Quiet /\ Tracked /\ Stopping /\ Pending /\ Failing /\ Drained

-----------------------------------------------------------------------------
(* Helpers                                                                 *)

\* The child states after a fork, after one process changed, and after all were
\* reaped are sequences of states again.
LEMMA ChildStates ==
  ASSUME child \in Seq(States)
  PROVE  /\ Len(child) \in Nat /\ Forked = 1 .. Len(child)
         /\ Append(child, "running") \in Seq(States)
         /\ \A p \in Forked, s \in States : [child EXCEPT ![p] = s] \in Seq(States)
         /\ [p \in Forked |-> "gone"] \in Seq(States)
<1>1. Len(child) \in Nat /\ Forked = 1 .. Len(child)
  BY DEF Forked
<1>2. "running" \in States /\ "gone" \in States
  BY DEF States
<1>3. Append(child, "running") \in Seq(States)
  BY <1>2
<1>4. \A p \in Forked, s \in States : [child EXCEPT ![p] = s] \in Seq(States)
  BY <1>1, ExceptSeq
<1>5. [p \in Forked |-> "gone"] \in Seq(States)
  BY <1>1, <1>2, IsASeq
<1> QED
  BY <1>1, <1>3, <1>4, <1>5

-----------------------------------------------------------------------------
(* TrackInv holds initially and is preserved                               *)

LEMMA TrackInit == Init => TrackInv
<1> SUFFICES ASSUME Init PROVE TrackInv
  OBVIOUS
<1>1. Typed
  BY FS_EmptySet DEF Init, Typed
<1> QED
  BY <1>1 DEF Init, TrackInv, Quiet, Tracked, Over, Stopping, Pending, Failing, Drained,
              Unreaped, Forked, Alive, Newest

\* The steps of the process itself that fork nothing.
LEMMA TrackMain ==
  ASSUME TrackInv,
         AddInitialEc \/ ComputeConnMatrix \/ StartMain \/ NextCombination
           \/ NextInvariant \/ Insert \/ Pause
  PROVE  TrackInv'
<1> USE DEF TrackInv, Typed, Quiet, Tracked, Over, Stopping, Pending, Failing, Drained,
            Unreaped, Forked, Alive, Newest, IsMain, signals, flags, processes
<1>1. CASE AddInitialEc
  BY <1>1 DEF AddInitialEc
<1>2. CASE ComputeConnMatrix
  BY <1>2 DEF ComputeConnMatrix
<1>3. CASE StartMain
  BY <1>3 DEF StartMain
<1>4. CASE NextCombination
  BY <1>4 DEF NextCombination
<1>5. CASE NextInvariant
  <2>1. Len(child) = config.invs => child # <<>>
    BY <1>5 DEF NextInvariant
  <2>2. pc' = "test" => child # <<>>
    BY <1>5, <2>1 DEF NextInvariant
  <2> QED
    BY <1>5, <2>2 DEF NextInvariant
<1>6. CASE Insert
  BY <1>6, FS_AddElement DEF Insert
<1>7. CASE Pause
  BY <1>7 DEF Pause
<1> QED
  BY <1>1, <1>2, <1>3, <1>4, <1>5, <1>6, <1>7

\* fork() adds a process that is not in _tasks yet.
LEMMA TrackFork == ASSUME TrackInv, Fork PROVE TrackInv'
<1> USE DEF TrackInv, Typed, Fork, signals, flags
<1>1. /\ Len(child) \in Nat /\ Forked = 1 .. Len(child)
      /\ child' \in Seq(States) /\ child' # <<>>
      /\ Len(child') = Len(child) + 1 /\ Forked' = 1 .. Len(child')
      /\ \A p \in Forked : child'[p] = child[p]
      /\ child'[Len(child')] = "running"
  BY ChildStates DEF Forked
<1>2. Unreaped' = Unreaped \union {Len(child')}
  BY <1>1 DEF Unreaped
<1>3. Tracked'
  BY <1>2 DEF Tracked, Newest
<1>4. Failing'
  BY <1>1 DEF Failing, Over
<1>5. Quiet' /\ Stopping' /\ Drained'
  BY <1>1 DEF Quiet, Stopping, Drained, Over
<1>6. Pending'
  BY <1>2 DEF Pending, Over
<1> QED
  BY <1>1, <1>3, <1>4, <1>5, <1>6

\* The process leaves its second loop only with no task left, or terminated.
LEMMA TrackTest == ASSUME TrackInv, TestTasks PROVE TrackInv'
<1> USE DEF TrackInv, Typed, TestTasks, signals, flags, processes, IsMain, Over
<1>1. Typed' /\ Quiet' /\ Stopping'
  BY DEF Quiet, Stopping
<1>2. Tracked' /\ Pending' /\ Failing'
  BY DEF Tracked, Pending, Failing, Unreaped, Forked, Newest
<1>3. ASSUME pc' = "return", ~terminate
      PROVE  /\ Unreaped = {} /\ (reports => violated)
             /\ (failures => violated /\ ~config.all_ecs)
  <2>1. Unreaped = {}
    BY <1>3 DEF MustWait, Tracked, Newest
  <2>2. \A p \in Forked : child[p] # "failure"
    BY <2>1 DEF Unreaped
  <2> QED
    BY <1>3, <2>1, <2>2 DEF Pending, Failing
<1>4. Drained'
  BY <1>3 DEF Drained, Unreaped, Forked
<1> QED
  BY <1>1, <1>2, <1>4

\* The exit: after the flags are reset only the children matter.
LEMMA TrackExit == ASSUME TrackInv, Destroy \/ Exit PROVE TrackInv'
<1> USE DEF TrackInv, Typed, signals, flags, processes, IsMain, Over, Quiet, Tracked,
            Stopping, Pending, Failing, Drained, Unreaped, Newest
<1>1. CASE Destroy
  BY <1>1 DEF Destroy, Forked
<1>2. CASE Exit
  <2>1. /\ child' \in Seq(States) /\ Len(child') = Len(child)
        /\ \A q \in Forked' : child'[q] = "gone"
    BY <1>2, ChildStates, LenProperties DEF Exit, Forked
  <2> QED
    BY <1>2, <2>1, FS_EmptySet DEF Exit
<1> QED
  BY <1>1, <1>2

\* The deliveries of signals, and the return of the handler.
LEMMA TrackSignals ==
  ASSUME TrackInv, HandleUsr1 \/ HandleTerm \/ HandleChld \/ ReapNone
  PROVE  TrackInv'
<1> USE DEF TrackInv, Typed, Quiet, Tracked, Over, Stopping, Pending, Failing, Drained,
            Unreaped, Forked, Alive, Newest, IsMain, signals, flags, processes,
            Deliver, Return, KillAllTasks, AllEcs
<1>1. CASE HandleUsr1
  BY <1>1, FS_RemoveElement DEF HandleUsr1
<1>2. CASE HandleTerm
  BY <1>2 DEF HandleTerm
<1>3. CASE HandleChld
  BY <1>3 DEF HandleChld
<1>4. CASE ReapNone
  BY <1>4 DEF ReapNone
<1> QED
  BY <1>1, <1>2, <1>3, <1>4

\* A process that ended is reaped, and leaves _tasks at the same time.
LEMMA TrackReap == ASSUME TrackInv, NEW p \in Forked, Reap(p) PROVE TrackInv'
<1> USE DEF TrackInv, Typed, Reap, signals, flags
<1>1. /\ p \in Zombies /\ Forked' = Forked
      /\ child' \in Seq(States) /\ Len(child') = Len(child)
      /\ \A q \in Forked : child'[q] = IF q = p THEN "gone" ELSE child[q]
  BY ChildStates, ExceptSeq DEF Forked, States
<1>2. Unreaped' = Unreaped \ {p} /\ Alive' = Alive
  BY <1>1 DEF Unreaped, Alive, Zombies, Ends
<1>3. Typed' /\ Quiet' /\ Tracked'
  BY <1>1, <1>2, FS_RemoveElement DEF Quiet, Tracked, Newest, IsMain
<1>4. Stopping' /\ Drained'
  BY <1>2 DEF Stopping, Drained, Over
<1>5. Pending' /\ Failing'
  BY <1>1 DEF Pending, Failing, Over
<1> QED
  BY <1>3, <1>4, <1>5

\* All processes ended and are reaped at once.
LEMMA TrackWaited == ASSUME TrackInv, Waited PROVE TrackInv'
<1> USE DEF TrackInv, Typed, Waited, signals
<1>1. /\ Forked' = Forked
      /\ child' \in Seq(States) /\ Len(child') = Len(child)
      /\ \A q \in Forked : child'[q] = "gone"
  BY ChildStates, LenProperties DEF Forked
<1>2. Unreaped' = {}
  BY <1>1 DEF Unreaped
<1>3. Typed' /\ Quiet' /\ Tracked'
  BY <1>1, <1>2, FS_EmptySet DEF Quiet, Tracked, IsMain, Return
<1>4. Stopping' /\ Drained' /\ Pending' /\ Failing'
  BY <1>2 DEF Stopping, Drained, Pending, Failing, Return, Over
<1> QED
  BY <1>3, <1>4

\* A task that reports or ends is not reaped yet, and signals.
LEMMA TrackTask ==
  ASSUME TrackInv, NEW p \in Forked, Task(p)
  PROVE  TrackInv'
<1> USE DEF TrackInv, Typed, Report, End, Signal, flags
<1>1. PICK s \in {"reported"} \union Ends :
        /\ p \in Alive /\ child' = [child EXCEPT ![p] = s]
        /\ \/ Report(p) /\ s = "reported"
           \/ s \in Ends /\ End(p, s)
  BY DEF Task, Alive
<1>2. /\ Forked' = Forked
      /\ child' \in Seq(States) /\ Len(child') = Len(child)
      /\ \A q \in Forked : child'[q] = IF q = p THEN s ELSE child[q]
  BY <1>1, ChildStates, ExceptSeq DEF Forked, States
<1>3. Unreaped' = Unreaped /\ p \in Unreaped /\ Alive' \subseteq Alive
  BY <1>1, <1>2 DEF Unreaped, Alive, Ends
<1>4. child # <<>> => child' # <<>>
  BY <1>2
<1>5. Typed' /\ Quiet' /\ Tracked'
  BY <1>1, <1>2, <1>3, <1>4 DEF Quiet, Tracked, Newest, IsMain
<1>6. Stopping' /\ Drained'
  BY <1>1, <1>3 DEF Stopping, Drained, Over
<1>7. Pending'
  <2>1. CASE Report(p)
    BY <1>3, <2>1 DEF Pending, Over
  <2>2. CASE End(p, s)
    BY <1>3, <2>2 DEF Pending, Over
  <2> QED
    BY <1>1, <2>1, <2>2
<1>8. Failing'
  <2>1. failures' => failures \/ s = "failure"
    BY <1>1
  <2>2. CASE failures
    <3>1. child[p] # "failure"
      BY <1>1 DEF Alive
    <3>2. (\E q \in Forked : child[q] = "failure") => \E q \in Forked' : child'[q] = "failure"
      BY <1>2, <3>1
    <3>3. UNCHANGED <<config, handler, pc, terminate, violated>>
      BY <1>1
    <3> QED
      BY <2>2, <3>2, <3>3 DEF Failing, Over
  <2> QED
    BY <1>1, <1>2, <2>1, <2>2 DEF Failing
<1> QED
  BY <1>5, <1>6, <1>7, <1>8

LEMMA TrackNext == TrackInv /\ [Next]_vars => TrackInv'
<1> SUFFICES ASSUME TrackInv, [Next]_vars PROVE TrackInv'
  OBVIOUS
<1>1. CASE Main
  BY <1>1, TrackMain, TrackFork, TrackTest, TrackExit DEF Main
<1>2. CASE Handle
  BY <1>2, TrackSignals, TrackReap, TrackWaited DEF Handle
<1>3. CASE Interrupt \/ UNCHANGED vars
  BY <1>3 DEF Interrupt, Signal, vars, signals, flags, processes, TrackInv, Typed, Quiet,
              Tracked, Over, Stopping, Pending, Failing, Drained, Unreaped, Forked,
              Alive, Newest, IsMain
<1>4. CASE \E p \in Forked : Task(p)
  BY <1>4, TrackTask
<1> QED
  BY <1>1, <1>2, <1>3, <1>4 DEF Next

LEMMA TrackHolds == Spec => []TrackInv
BY TrackInit, TrackNext, PTL DEF Spec

-----------------------------------------------------------------------------
(* The end of the process                                                  *)

\* Whatever the order of forks, ends and signals, a process that was not terminated
\* has reaped all it forked when it leaves its loops: exit has nothing to kill.
THEOREM NothingLeftToKillHolds == Spec => []NothingLeftToKill
<1>1. TrackInv => NothingLeftToKill
  BY DEF TrackInv, Drained, NothingLeftToKill, Unreaped, Alive, Zombies, Ends
<1> QED
  BY <1>1, TrackHolds, PTL

\* SIGUSR1 is not lost with the task that sent it: the process cannot end by
\* itself before it has recorded the violation.
THEOREM ViolationNoticedHolds == Spec => []ViolationNoticed
<1>1. TrackInv => ViolationNoticed
  BY DEF TrackInv, Drained, ViolationNoticed
<1> QED
  BY <1>1, TrackHolds, PTL

\* A failed task cannot be reaped without the verification being halted.
THEOREM FailureHaltsHolds == Spec => []FailureHalts
<1>1. TrackInv => FailureHalts
  BY DEF TrackInv, Drained, FailureHalts
<1> QED
  BY <1>1, TrackHolds, PTL

-----------------------------------------------------------------------------
(* The number of processes                                                 *)

MaxTasks == IF IsMain /\ ~config.parallel THEN 1 ELSE config.max_jobs

\* There is room for another process wherever one may be forked.
Room ==
  /\ Cardinality(Unreaped) <= MaxTasks
  /\ pc = "fork" \/ (pc = "loop" /\ ~terminate) => Cardinality(Unreaped) < MaxTasks

\* The processes are finitely many, and none before the first fork.
LEMMA Processes ==
  ASSUME TrackInv
  PROVE  /\ IsFiniteSet(Unreaped) /\ Cardinality(Unreaped) \in Nat
         /\ MaxTasks \in Nat \ {0}
         /\ child = <<>> => Unreaped = {} /\ Cardinality(Unreaped) = 0
<1> USE DEF TrackInv, Typed
<1>1. IsFiniteSet(Forked) /\ Unreaped \subseteq Forked
  BY ChildStates, FS_Interval DEF Unreaped
<1>2. IsFiniteSet(Unreaped) /\ Cardinality(Unreaped) \in Nat
  BY <1>1, FS_Subset, FS_CardinalityType
<1>3. MaxTasks \in Nat \ {0}
  <2>1. config \in Configs
    OBVIOUS
  <2>2. config.max_jobs \in Nat \ {0}
    BY <2>1, SupervisorAssumption, Zenon
  <2> QED
    BY <2>2 DEF MaxTasks
<1>4. child = <<>> => Unreaped = {}
  BY DEF Unreaped, Forked
<1> QED
  BY <1>2, <1>3, <1>4, FS_EmptySet

LEMMA RoomInit == Init => Room
<1> SUFFICES ASSUME Init PROVE Room
  OBVIOUS
<1>1. TrackInv /\ child = <<>>
  BY TrackInit DEF Init
<1>2. Cardinality(Unreaped) = 0 /\ MaxTasks \in Nat \ {0}
  BY <1>1, Processes
<1> QED
  BY <1>2 DEF Room

\* Between two forks the process finds _tasks small enough.
LEMMA RoomTest == ASSUME TrackInv, Room, TestTasks PROVE Room'
<1> USE DEF TrackInv, Typed, TestTasks
<1>1. Unreaped' = Unreaped /\ MaxTasks' = MaxTasks /\ (terminate' <=> terminate)
  BY DEF Unreaped, Forked, MaxTasks, IsMain, processes, flags
<1>2. ASSUME pc' = "loop", ~terminate PROVE Cardinality(Unreaped) < MaxTasks
  <2>1. Cardinality(Unreaped) <= Cardinality(tasks) /\ Cardinality(tasks) \in Nat
    BY FS_Subset, FS_CardinalityType DEF Tracked, Newest
  <2>2. ~MustWait(tasks, terminate) /\ ~draining
    BY <1>2
  <2>3. Cardinality(tasks) < MaxTasks
    BY <1>2, <2>1, <2>2, Processes, FS_EmptySet DEF MustWait, MaxTasks
  <2> QED
    BY <2>1, <2>3, Processes
<1>3. pc' # "fork"
  OBVIOUS
<1> QED
  BY <1>1, <1>2, <1>3 DEF Room

\* Only a fork adds a process.
LEMMA RoomNext == TrackInv /\ Room /\ [Next]_vars => Room'
<1> SUFFICES ASSUME TrackInv, Room, [Next]_vars PROVE Room'
  OBVIOUS
<1>1. TrackInv' /\ MaxTasks' = MaxTasks
  <2>1. config' = config
    BY DEF Next, vars, Main, AddInitialEc, ComputeConnMatrix, StartMain, NextCombination,
           NextInvariant, Fork, Insert, TestTasks, Pause, Destroy, Exit, Handle,
           HandleUsr1, HandleTerm, HandleChld, Reap, ReapNone, Waited, Interrupt, Task, Report, End
  <2> QED
    BY <2>1, TrackNext DEF MaxTasks, IsMain
<1>2. CASE Fork
  <2>1. /\ Forked' = Forked \union {Len(child) + 1}
        /\ child' = Append(child, "running") /\ Len(child) + 1 \notin Forked
    BY <1>1, <1>2, ChildStates DEF Fork, TrackInv, Typed, Forked
  <2>2. \A p \in Forked : child'[p] = child[p]
    BY <2>1, ChildStates DEF TrackInv, Typed
  <2>3. Unreaped' \subseteq Unreaped \union {Len(child) + 1}
    BY <2>1, <2>2 DEF Unreaped
  <2>4. Cardinality(Unreaped') <= Cardinality(Unreaped) + 1 /\ Cardinality(Unreaped') \in Nat
    <3> DEFINE N == Unreaped \union {Len(child) + 1}
    <3>1. IsFiniteSet(N) /\ Cardinality(N) <= Cardinality(Unreaped) + 1
      BY Processes, FS_AddElement
    <3> HIDE DEF N
    <3>2. Unreaped' \in SUBSET N
      BY <2>3 DEF N
    <3>3. Cardinality(Unreaped') <= Cardinality(N) /\ Cardinality(N) \in Nat
      BY <3>1, <3>2, FS_Subset, FS_CardinalityType
    <3>4. Cardinality(Unreaped') \in Nat
      BY <3>1, <3>2, FS_Subset, FS_CardinalityType
    <3> QED
      BY <3>1, <3>3, <3>4, Processes
  <2>5. pc' = "insert"
    BY <1>2 DEF Fork
  <2>6. Cardinality(Unreaped) < MaxTasks
    BY <1>2 DEF Fork, Room
  <2> QED
    BY <1>1, <2>4, <2>5, <2>6, Processes DEF Room
<1>3. CASE TestTasks
  BY <1>3, RoomTest
<1>4. CASE ComputeConnMatrix \/ StartMain \/ NextCombination \/ NextInvariant
  <2>1. Unreaped' = Unreaped
    BY <1>4 DEF ComputeConnMatrix, StartMain, NextCombination, NextInvariant, Unreaped,
                Forked, processes
  <2>2. CASE ComputeConnMatrix \/ StartMain
    BY <1>1, <2>1, <2>2, Processes DEF ComputeConnMatrix, StartMain, Room, TrackInv, Quiet
  <2>3. CASE NextCombination
    BY <1>1, <2>1, <2>3 DEF NextCombination, Room
  <2>4. CASE NextInvariant
    <3>1. pc' = "fork" => child = <<>> \/ ~terminate
      BY <2>4 DEF NextInvariant
    <3>2. pc' = "fork" => Cardinality(Unreaped) < MaxTasks
      BY <2>4, <3>1, Processes DEF NextInvariant, Room
    <3>3. pc' \in {"fork", "test"}
      BY <2>4 DEF NextInvariant
    <3> QED
      BY <1>1, <2>1, <3>2, <3>3 DEF Room
  <2> QED
    BY <1>4, <2>2, <2>3, <2>4
<1>5. CASE AddInitialEc \/ Insert \/ Pause \/ Destroy \/ Exit \/ Handle \/ Interrupt
             \/ (\E p \in Forked : Task(p)) \/ UNCHANGED vars
  <2>1. Unreaped' \subseteq Unreaped
    BY <1>5 DEF AddInitialEc, Insert, Pause, Destroy, Exit, Handle, HandleUsr1, HandleTerm, HandleChld,
                Reap, ReapNone, Waited, Interrupt, Task, Report, End, vars, Unreaped,
                Forked, Alive, Ends, processes, TrackInv, Typed
  <2>2. Cardinality(Unreaped') <= Cardinality(Unreaped) /\ Cardinality(Unreaped') \in Nat
    BY <2>1, Processes, FS_Subset, FS_CardinalityType
  <2>3. pc' \in {"fork", "loop"} => pc' = pc
    BY <1>5 DEF AddInitialEc, Insert, Pause, Destroy, Exit, Handle, HandleUsr1, HandleTerm, HandleChld,
                Reap, ReapNone, Waited, Interrupt, Task, Report, End, vars, Return,
                KillAllTasks
  <2>4. pc \in {"fork", "loop"} /\ terminate => terminate'
    BY <1>5 DEF AddInitialEc, Insert, Pause, Destroy, Exit, Handle, HandleUsr1, HandleTerm, HandleChld,
                Reap, ReapNone, Waited, Interrupt, Task, Report, End, vars, flags
  <2> QED
    BY <1>1, <2>2, <2>3, <2>4, Processes DEF Room
<1> QED
  BY <1>2, <1>3, <1>4, <1>5 DEF Next, Main

\* Never more searches than -j allows, nor two invariants at once without the
\* option, wherever a signal interrupts the process.
THEOREM JobsBoundedHolds == Spec => []JobsBounded
<1>1. TrackInv /\ Room => JobsBounded
  <2> SUFFICES ASSUME TrackInv, Room PROVE JobsBounded
    OBVIOUS
  <2>1. Alive \in SUBSET Unreaped
    BY DEF Alive, Unreaped
  <2>2. Cardinality(Alive) <= Cardinality(Unreaped) /\ Cardinality(Alive) \in Nat
    BY <2>1, Processes, FS_Subset, FS_CardinalityType
  <2> QED
    <3>1. Cardinality(Unreaped) <= MaxTasks /\ Cardinality(Unreaped) \in Nat
      BY Processes DEF Room
    <3>2. MaxTasks \in Nat
      BY Processes
    <3>3. Cardinality(Alive) <= MaxTasks
      BY <2>2, <3>1, <3>2
    <3> QED
      BY <3>3 DEF MaxTasks, JobsBounded
<1>2. Spec => []Room
  BY TrackInit, TrackNext, RoomInit, RoomNext, PTL DEF Spec
<1> QED
  BY <1>1, <1>2, TrackHolds, PTL

\* A search that is forked beside none inherits none: where another may be forked
\* _tasks is empty, and the handler only takes pids out of it.
Alone == IsMain \/ config.max_jobs = 1 =>
  /\ Len(inherited) = Len(child) /\ inherited \in Seq({{}})
  /\ killed = {}
  /\ ~IsMain /\ (pc \in {"init", "fork"} \/ (pc = "loop" /\ ~terminate)) => tasks = {}

LEMMA AloneInit == Init => Alone
BY DEF Init, Alone

\* Where a process may be forked next.
LEMMA AloneRoom ==
  ASSUME TrackInv, Alone, [Next]_vars, ~Fork, ~IsMain, config.max_jobs = 1,
         pc' \in {"init", "fork"} \/ (pc' = "loop" /\ ~terminate')
  PROVE  tasks' = {}
<1>1. CASE TestTasks
  <2>1. ~MustWait(tasks, terminate) /\ ~draining /\ ~terminate /\ tasks' = tasks
    BY <1>1 DEF TestTasks, flags
  <2>2. IsFiniteSet(tasks) /\ ~(Cardinality(tasks) >= 1)
    BY <2>1 DEF MustWait, TrackInv, Typed
  <2>3. Cardinality(tasks) = 0
    BY <2>2, FS_CardinalityType
  <2> QED
    BY <2>1, <2>2, <2>3, FS_EmptySet
<1>2. CASE AddInitialEc \/ ComputeConnMatrix \/ StartMain \/ NextCombination \/ NextInvariant
  <2>1. tasks' = tasks
    BY <1>2 DEF AddInitialEc, ComputeConnMatrix, StartMain, NextCombination, NextInvariant
  <2>2. pc = "init" \/ (pc = "loop" /\ (pc' = "fork" => ~terminate))
    BY <1>2 DEF AddInitialEc, ComputeConnMatrix, StartMain, NextCombination, NextInvariant
  <2>3. pc = "loop" => pc' \in {"fork", "test"}
    BY <1>2 DEF AddInitialEc, ComputeConnMatrix, StartMain, NextCombination, NextInvariant
  <2> QED
    BY <2>1, <2>2, <2>3 DEF Alone
<1>3. CASE Handle \/ Interrupt \/ (\E p \in Forked : Task(p)) \/ UNCHANGED vars
  <2>1. tasks' \subseteq tasks
    BY <1>3 DEF Handle, HandleUsr1, HandleTerm, HandleChld, Reap, ReapNone, Waited,
                KillAllTasks, Interrupt, Task, Report, End, vars
  <2>2. pc' \in {"init", "fork", "loop"} => pc' = pc
    BY <1>3 DEF Handle, HandleUsr1, HandleTerm, HandleChld, Reap, ReapNone, Waited, Return,
                KillAllTasks, Interrupt, Task, Report, End, vars
  <2>3. terminate => terminate'
    BY <1>3 DEF Handle, HandleUsr1, HandleTerm, HandleChld, Reap, ReapNone, Waited,
                Interrupt, Task, Report, End, vars, flags
  <2> QED
    BY <2>1, <2>2, <2>3 DEF Alone
<1>4. ~(Insert \/ Pause \/ Destroy \/ Exit)
  BY DEF Insert, Pause, Destroy, Exit
<1> QED
  BY <1>1, <1>2, <1>3, <1>4 DEF Next, Main

LEMMA AloneNext == TrackInv /\ Alone /\ [Next]_vars => Alone'
<1> SUFFICES ASSUME TrackInv, Alone, [Next]_vars, (IsMain \/ config.max_jobs = 1)'
             PROVE  Alone'
  BY DEF Alone
<1>1. config' = config /\ (IsMain' <=> IsMain)
  <2>1. config' = config
    BY DEF Next, vars, Main, AddInitialEc, ComputeConnMatrix, StartMain, NextCombination,
           NextInvariant, Fork, Insert, TestTasks, Pause, Destroy, Exit, Handle,
           HandleUsr1, HandleTerm, HandleChld, Reap, ReapNone, Waited, Interrupt, Task,
           Report, End
  <2> QED
    BY <2>1 DEF IsMain
<1>2. /\ Len(inherited) = Len(child) /\ inherited \in Seq({{}}) /\ killed = {}
      /\ child \in Seq(States) /\ Forked = 1 .. Len(child) /\ Len(child) \in Nat
  BY <1>1, ChildStates DEF Alone, TrackInv, Typed
<1>3. CASE Fork
  <2>1. child' = Append(child, "running") /\ killed' = {} /\ pc' = "insert"
    BY <1>2, <1>3 DEF Fork
  <2>2. inherited' = Append(inherited, {})
    BY <1>1, <1>3 DEF Fork, Alone
  <2>3. /\ Len(inherited') = Len(inherited) + 1 /\ inherited' \in Seq({{}})
        /\ Len(child') = Len(child) + 1
    BY <1>2, <2>1, <2>2
  <2> QED
    BY <1>2, <2>1, <2>3 DEF Alone
<1>4. CASE ~Fork
  <2>1. inherited' = inherited
    BY <1>4 DEF Next, vars, Main, AddInitialEc, ComputeConnMatrix, StartMain, NextCombination,
           NextInvariant, Insert, TestTasks, Pause, Destroy, Exit, Handle, HandleUsr1,
           HandleTerm, HandleChld, Reap, ReapNone, Waited, Interrupt, Task, Report, End,
           processes
  <2>2. Len(child') = Len(child)
    <3>1. CASE Waited \/ Exit
      BY <1>2, <3>1 DEF Waited, Exit
    <3>2. CASE \E p \in Forked : Reap(p)
      BY <1>2, <3>2, ExceptSeq DEF Reap, States
    <3>3. CASE \E p \in Forked : Task(p)
      BY <1>2, <3>3, ExceptSeq DEF Task, Report, End, States, Ends
    <3>4. CASE ~Waited /\ ~Exit /\ ~(\E p \in Forked : Reap(p) \/ Task(p))
      BY <1>4, <3>4 DEF Next, vars, Main, AddInitialEc, ComputeConnMatrix, StartMain,
             NextCombination, NextInvariant, Insert, TestTasks, Pause, Destroy, Handle,
             HandleUsr1, HandleTerm, HandleChld, ReapNone, Interrupt, processes
    <3> QED
      BY <3>1, <3>2, <3>3, <3>4
  <2>3. killed' = {}
    <3>1. ASSUME NEW p \in Forked, NEW how \in Ends, End(p, how) PROVE killed' = {}
      <4>1. inherited[p] = {}
        BY <1>2
      <4> QED
        BY <1>2, <3>1, <4>1 DEF End
    <3>2. CASE ~(\E p \in Forked, how \in Ends : End(p, how))
      <4>1. killed' = killed
        BY <1>4, <3>2 DEF Next, vars, Main, AddInitialEc, ComputeConnMatrix, StartMain,
               NextCombination, NextInvariant, Insert, TestTasks, Pause, Destroy, Exit,
               Handle, HandleUsr1, HandleTerm, HandleChld, Reap, ReapNone, Waited,
               Interrupt, Task, Report, processes
      <4> QED
        BY <1>2, <4>1
    <3> QED
      BY <3>1, <3>2
  <2>4. ~IsMain' /\ (pc' \in {"init", "fork"} \/ (pc' = "loop" /\ ~terminate')) => tasks' = {}
    BY <1>1, <1>4, AloneRoom
  <2> QED
    BY <1>2, <2>1, <2>2, <2>3, <2>4 DEF Alone
<1> QED
  BY <1>3, <1>4

\* With one job at a time, or for the main process, no exit of a search kills
\* another: the pids a search inherits are those of searches that were over.
THEOREM NoneKilledByAnotherHolds == Spec => []NoneKilledByAnother
<1>1. Alone => NoneKilledByAnother
  BY DEF Alone, NoneKilledByAnother
<1> QED
  BY <1>1, TrackInit, TrackNext, AloneInit, AloneNext, PTL DEF Spec

-----------------------------------------------------------------------------
(* The equivalence classes                                                 *)

OwnedAddresses == {config.adds[i].range.lb : i \in {j \in 1 .. toAdd : config.adds[j].owned}}

\* What was added so far is what the classes tell apart.
ClassInv ==
  /\ config \in Configs
  /\ toAdd \in 0 .. Len(config.adds)
  /\ Proper(mgr) /\ Coarse(mgr, AddedRanges) /\ Owned(mgr, OwnedAddresses)

\* What is added are ranges of addresses.
LEMMA ConfigFacts ==
  ASSUME config \in Configs
  PROVE  /\ Len(config.adds) \in Nat
         /\ \A i \in 1 .. Len(config.adds) :
              /\ config.adds[i].range \in Ranges /\ config.adds[i].owned \in BOOLEAN
              /\ config.adds[i].owned => config.adds[i].range.lb = config.adds[i].range.ub
              /\ config.adds[i].range.lb \in Addresses
         /\ config.ports \subseteq Nat
         /\ Len(config.inv.specs) \in Nat
         /\ config.inv.specs = [i \in 1 .. Len(config.inv.specs) |-> config.inv.specs[i]]
         /\ DOMAIN config.inv.specs = 1 .. Len(config.inv.specs)
         /\ \A i \in 1 .. Len(config.inv.specs) : config.inv.specs[i].dst_ip \in Ranges
         /\ config.inv.correlated \in BOOLEAN
         /\ IsMain => config.inv.specs = <<>>
<1>1. config.adds \in Seq(Additions)
  BY SupervisorAssumption
<1>2. /\ Len(config.adds) \in Nat
      /\ \A i \in 1 .. Len(config.adds) : config.adds[i] \in Additions
  BY <1>1
<1>3. \A a \in Additions : /\ a.range \in Ranges /\ a.owned \in BOOLEAN
                           /\ a.owned => a.range.lb = a.range.ub
                           /\ a.range.lb \in Addresses
  BY DEF Additions, Ranges
<1>4. /\ Len(config.inv.specs) \in Nat
      /\ config.inv.specs = [i \in 1 .. Len(config.inv.specs) |-> config.inv.specs[i]]
  BY SupervisorAssumption
<1>5. DOMAIN config.inv.specs = 1 .. Len(config.inv.specs)
  <2> DEFINE q == config.inv.specs
             n == Len(q)
  <2>1. q = [i \in 1 .. n |-> q[i]]
    BY <1>4
  <2> HIDE DEF q, n
  <2>2. DOMAIN q = 1 .. n
    BY <2>1
  <2> QED
    BY <2>2 DEF q, n
<1>6. /\ config.ports \subseteq Nat /\ config.inv.correlated \in BOOLEAN
      /\ \A i \in 1 .. Len(config.inv.specs) : config.inv.specs[i].dst_ip \in Ranges
      /\ IsMain => config.inv.specs = <<>>
  BY SupervisorAssumption DEF IsMain
<1> QED
  BY <1>2, <1>3, <1>4, <1>5, <1>6

LEMMA ClassInit == Init => ClassInv
<1> SUFFICES ASSUME Init PROVE ClassInv
  OBVIOUS
<1>1. config \in Configs /\ toAdd = 0 /\ Len(config.adds) \in Nat /\ pc = "init"
  BY ConfigFacts DEF Init
<1>2. /\ mgr.all_ecs = 0 /\ mgr.allranges = {} /\ mgr.owned_ecs = {}
      /\ mgr \in Mgrs
  BY DEF Init, NoEcs, Mgrs
<1>3. Proper(mgr)
  BY <1>2 DEF Proper
<1>4. \A a, e : ~In(mgr, a, e)
  BY <1>2 DEF In
<1>5. AddedRanges = {} /\ OwnedAddresses = {}
  BY <1>1 DEF AddedRanges, OwnedAddresses
<1> QED
  BY <1>1, <1>2, <1>3, <1>4, <1>5 DEF ClassInv, Coarse, Owned, InNone

LEMMA ClassAdd == ASSUME ClassInv, AddInitialEc PROVE ClassInv'
<1> DEFINE j == toAdd + 1
           a == config.adds[j]
<1>1. /\ config' = config /\ toAdd' = j /\ toAdd < Len(config.adds) /\ toAdd \in Nat
      /\ pc = "init" /\ pc' = pc
      /\ mgr' = AddEc(mgr, a.range, a.owned)
  BY ConfigFacts DEF AddInitialEc, ClassInv
<1>2. /\ j \in 1 .. Len(config.adds) /\ a.range \in Ranges /\ a.owned \in BOOLEAN
      /\ a.owned => a.range.lb = a.range.ub
  BY <1>1, ConfigFacts DEF ClassInv
<1>3. 1 .. j = (1 .. toAdd) \cup {j}
  BY <1>1
<1> HIDE DEF j
<1>4. AddedRanges' = AddedRanges \cup {a.range}
  BY <1>1, <1>3 DEF AddedRanges
<1>5. OwnedAddresses' = OwnedAddresses \cup (IF a.owned THEN {a.range.lb} ELSE {})
  <2>1. OwnedAddresses' = {config.adds[i].range.lb : i \in {k \in 1 .. j : config.adds[k].owned}}
    BY <1>1 DEF OwnedAddresses
  <2> QED
    BY <1>3, <2>1 DEF OwnedAddresses
<1>6. OwnedAddresses \in SUBSET Addresses
  BY <1>1, ConfigFacts DEF OwnedAddresses, ClassInv
<1> DEFINE r == a.range
           o == a.owned
<1> HIDE DEF a, r, o
<1>7. /\ r \in Ranges /\ o \in BOOLEAN /\ (o => r.lb = r.ub) /\ mgr' = AddEc(mgr, r, o)
      /\ AddedRanges' = AddedRanges \cup {r}
      /\ OwnedAddresses' = OwnedAddresses \cup (IF o THEN {r.lb} ELSE {})
  BY <1>1, <1>2, <1>4, <1>5 DEF r, o
<1>8. Proper(mgr') /\ Coarse(mgr', AddedRanges \cup {r})
  BY <1>7, AddEcCoarse DEF ClassInv
<1>9. Owned(mgr', OwnedAddresses \cup (IF o THEN {r.lb} ELSE {}))
  BY <1>6, <1>7, AddEcOwned DEF ClassInv
<1>10. config' \in Configs /\ toAdd' \in 0 .. Len(config'.adds)
  BY <1>1, <1>2, ConfigFacts DEF ClassInv
<1>11. Coarse(mgr', AddedRanges') /\ Owned(mgr', OwnedAddresses')
  BY <1>7, <1>8, <1>9
<1> QED
  BY <1>8, <1>10, <1>11 DEF ClassInv

\* The ports are those of the configuration, and no class is added for them.
LEMMA ClassMatrix ==
  ASSUME ClassInv, ComputeConnMatrix
  PROVE  ClassInv' /\ mgr'.ports = config.ports
<1> DEFINE L == Len(config.inv.specs)
           k == [mgr EXCEPT !.ports = config.ports]
           ips == {config.inv.specs[i].dst_ip : i \in 1 .. L}
<1>1. /\ config' = config /\ toAdd' = toAdd /\ pc = "init" /\ pc' = "loop"
      /\ mgr' = EcsOf(k, config.inv)
  BY DEF ComputeConnMatrix
<1>2. /\ config \in Configs /\ L \in Nat /\ DOMAIN config.inv.specs = 1 .. L
      /\ \A i \in 1 .. L : config.inv.specs[i].dst_ip \in Ranges
      /\ config.ports \in SUBSET Nat
  BY ConfigFacts DEF ClassInv
<1>3. /\ Proper(k) /\ Coarse(k, AddedRanges) /\ Owned(k, OwnedAddresses)
      /\ k.ports = config.ports
  <2>1. /\ k \in Mgrs /\ k.all_ecs = mgr.all_ecs /\ k.allranges = mgr.allranges
        /\ k.owned_ecs = mgr.owned_ecs /\ k.ports = config.ports
    BY <1>2 DEF ClassInv, Proper, Mgrs
  <2> HIDE DEF k
  <2>2. Proper(k)
    BY <2>1 DEF ClassInv, Proper
  <2>3. \A a, e : In(k, a, e) <=> In(mgr, a, e)
    BY <2>1 DEF In
  <2>4. \A a : InNone(k, a) <=> InNone(mgr, a)
    BY <2>3 DEF InNone
  <2>5. Coarse(k, AddedRanges)
    BY <2>3, <2>4 DEF ClassInv, Coarse
  <2>6. Owned(k, OwnedAddresses)
    BY <2>1, <2>3 DEF ClassInv, Owned
  <2> QED
    BY <2>1, <2>2, <2>5, <2>6
<1>4. OwnedAddresses \in SUBSET Addresses
  BY ConfigFacts DEF OwnedAddresses, ClassInv
<1> HIDE DEF k, L
<1>5. /\ Proper(mgr') /\ Coarse(mgr', AddedRanges \cup ips) /\ Owned(mgr', OwnedAddresses)
      /\ mgr'.ports = k.ports
  <2> DEFINE inv == config.inv
             before == AddedRanges
             A == OwnedAddresses
  <2>1. /\ Len(inv.specs) \in Nat
        /\ \A i \in 1 .. Len(inv.specs) : inv.specs[i].dst_ip \in Ranges
        /\ mgr' = EcsOf(k, inv) /\ A \in SUBSET Addresses
        /\ Proper(k) /\ Coarse(k, before) /\ Owned(k, A)
    BY <1>1, <1>2, <1>3, <1>4 DEF L
  <2>2. ips = DstIps(inv)
    BY DEF L, DstIps
  <2> HIDE DEF inv, before, A, ips
  <2>3. Proper(mgr') /\ Coarse(mgr', before \cup ips) /\ Owned(mgr', A) /\ mgr'.ports = k.ports
    BY <2>1, <2>2, EcsOfFacts
  <2> QED
    BY <2>3 DEF before, A
<1>6. AddedRanges' = AddedRanges \cup ips /\ OwnedAddresses' = OwnedAddresses
  BY <1>1, <1>2 DEF AddedRanges, OwnedAddresses
<1>7. Coarse(mgr', AddedRanges') /\ Owned(mgr', OwnedAddresses')
  BY <1>5, <1>6
<1> QED
  BY <1>1, <1>3, <1>5, <1>7 DEF ClassInv

\* No other step changes the classes or what they were made of.
LEMMA ClassNext == ClassInv /\ [Next]_vars => ClassInv'
<1> SUFFICES ASSUME ClassInv, [Next]_vars PROVE ClassInv'
  OBVIOUS
<1>1. CASE AddInitialEc
  BY <1>1, ClassAdd
<1>2. CASE ComputeConnMatrix
  BY <1>2, ClassMatrix
<1>3. ASSUME UNCHANGED <<config, startup>>, AddedRanges' = AddedRanges
      PROVE  ClassInv'
  <2>1. config' = config /\ mgr' = mgr /\ toAdd' = toAdd
    BY <1>3 DEF startup
  <2>2. OwnedAddresses' = OwnedAddresses
    BY <2>1 DEF OwnedAddresses
  <2> QED
    BY <1>3, <2>1, <2>2 DEF ClassInv
<1>4. CASE StartMain
  <2>1. UNCHANGED <<config, startup>> /\ pc = "init" /\ pc' = "loop"
    BY <1>4 DEF StartMain
  <2>2. config.inv.specs = <<>>
    BY <1>4, ConfigFacts DEF StartMain, ClassInv
  <2>3. AddedRanges' = AddedRanges
    BY <2>1, <2>2 DEF AddedRanges, startup
  <2> QED
    BY <1>3, <2>1, <2>3
<1>5. ASSUME UNCHANGED <<config, startup>>, pc' = "init" <=> pc = "init"
      PROVE  ClassInv'
  <2>1. AddedRanges' = AddedRanges
    BY <1>5 DEF AddedRanges, startup
  <2> QED
    BY <1>3, <1>5, <2>1
<1>6. CASE NextCombination \/ NextInvariant \/ Fork \/ Insert \/ TestTasks \/ Pause
             \/ Destroy \/ Exit
  BY <1>5, <1>6 DEF NextCombination, NextInvariant, Fork, Insert, TestTasks, Pause,
                    Destroy, Exit
<1>7. CASE Handle
  <2>1. UNCHANGED <<config, startup>>
    BY <1>7 DEF Handle, HandleUsr1, HandleTerm, HandleChld, Reap, ReapNone, Waited
  <2>2. pc' = "init" <=> pc = "init"
    BY <1>7 DEF Handle, HandleUsr1, HandleTerm, HandleChld, Reap, ReapNone, Waited,
                Return, KillAllTasks
  <2> QED
    BY <1>5, <2>1, <2>2
<1>8. CASE Interrupt \/ (\E p \in Forked : Task(p)) \/ UNCHANGED vars
  BY <1>5, <1>8 DEF Interrupt, Task, Report, End, vars
<1> QED
  BY <1>1, <1>2, <1>4, <1>6, <1>7, <1>8 DEF Next, Main

LEMMA ClassHolds == Spec => []ClassInv
BY ClassInit, ClassNext, PTL DEF Spec

\* The addresses of a class, and the ranges that cover an address.
LEMMA ClassAddresses ==
  ASSUME ClassInv
  PROVE  /\ \A ec : AddressesOf(ec) = {a \in Addresses : In(mgr, a, ec)}
         /\ \A ec : ec \in IndexedEcs <=> \E a \in Addresses : In(mgr, a, ec)
         /\ AddedRanges \subseteq Ranges
         /\ \A a \in Addresses : Covering(a) = {r \in AddedRanges : Has(r, a)}
<1>1. \A r \in mgr.allranges :
        /\ r.lb \in Addresses /\ r.ub \in Addresses /\ r.lb \in Nat /\ r.ub \in Nat
        /\ r.lb <= r.ub
  BY Apart DEF ClassInv, EcRanges
<1>2. AddedRanges \subseteq Ranges
  BY ConfigFacts DEF AddedRanges, ClassInv
<1>3. \A r : r.lb \in Addresses /\ r.ub \in Addresses =>
        \A a : a \in r.lb .. r.ub <=> a \in Addresses /\ Has(r, a)
  BY AddressFacts DEF Has
<1>4. \A a \in Addresses : Covering(a) = {r \in AddedRanges : Has(r, a)}
  BY <1>2, <1>3 DEF Covering, Ranges
<1>5. ASSUME NEW ec
      PROVE  AddressesOf(ec) = {a \in Addresses : In(mgr, a, ec)}
  BY <1>1, <1>3 DEF AddressesOf, RangesOf, In
<1>6. ASSUME NEW ec
      PROVE  ec \in IndexedEcs <=> \E a \in Addresses : In(mgr, a, ec)
  <2>1. \A r \in mgr.allranges : Has(r, r.lb)
    BY <1>1 DEF Has
  <2> QED
    BY <1>1, <2>1 DEF IndexedEcs, In
<1> QED
  BY <1>2, <1>4, <1>5, <1>6
\* Whatever is added in whatever order, the classes are the coarsest partition that
\* tells every two addresses apart which some added range does.
THEOREM CoarsestEcsHolds == Spec => []CoarsestEcs
<1>1. ASSUME ClassInv PROVE CoarsestEcs
  <2> DEFINE covered == {a \in Addresses : Covering(a) # {}}
             same(a) == {b \in Addresses : Covering(b) = Covering(a)}
  <2>1. \A r, s \in mgr.allranges : r # s => ~Overlaps(r, s)
    BY <1>1, Apart DEF ClassInv, Overlaps
  <2>2. \A a \in Addresses : a \in covered <=> \E ec \in Nat : In(mgr, a, ec)
    <3> SUFFICES ASSUME NEW a \in Addresses
                 PROVE  a \in covered <=> \E ec \in Nat : In(mgr, a, ec)
      OBVIOUS
    <3>1. a \in covered <=> ~InNone(mgr, a)
      BY <1>1, ClassAddresses DEF ClassInv, Coarse
    <3> QED
      BY <1>1, <3>1, OneClass DEF ClassInv
  <2>3. \A a, b \in Addresses : b \in same(a) <=> Agree(AddedRanges, a, b)
    BY <1>1, ClassAddresses DEF Agree
  <2> HIDE DEF covered, same
  <2>4. ASSUME NEW a \in Addresses, NEW ec \in Nat, In(mgr, a, ec)
        PROVE  AddressesOf(ec) = same(a)
    <3>1. \A b \in Addresses : In(mgr, b, ec) <=> Agree(AddedRanges, a, b)
      BY <1>1, <2>4 DEF ClassInv, Coarse
    <3>2. AddressesOf(ec) \subseteq Addresses /\ same(a) \subseteq Addresses
      BY <1>1, ClassAddresses DEF same
    <3>3. \A b \in Addresses : b \in AddressesOf(ec) <=> b \in same(a)
      BY <1>1, <2>3, <3>1, ClassAddresses
    <3> QED
      BY <3>2, <3>3
  <2>5. {AddressesOf(ec) : ec \in IndexedEcs} = {same(a) : a \in covered}
    <3>1. ASSUME NEW ec \in IndexedEcs
          PROVE  \E a \in covered : AddressesOf(ec) = same(a)
      <4>1. PICK a \in Addresses : In(mgr, a, ec)
        BY <1>1, ClassAddresses
      <4>2. ec \in Nat
        BY <1>1, <4>1, OneClass DEF ClassInv
      <4> QED
        BY <2>2, <2>4, <4>1, <4>2
    <3>2. ASSUME NEW a \in covered
          PROVE  \E ec \in IndexedEcs : AddressesOf(ec) = same(a)
      <4>1. a \in Addresses
        BY DEF covered
      <4>2. PICK ec \in Nat : In(mgr, a, ec)
        BY <2>2, <4>1
      <4>3. ec \in IndexedEcs
        BY <1>1, <4>1, <4>2, ClassAddresses
      <4> QED
        BY <2>4, <4>1, <4>2, <4>3
    <3> QED
      BY <3>1, <3>2
  <2> QED
    BY <2>1, <2>5 DEF CoarsestEcs, same, covered
<1> QED
  BY <1>1, ClassHolds, PTL

\* No prefix that is added later adds an address to the class of an interface's one
\* or makes another class owned, and none that was added before keeps it from being
\* alone.
THEOREM OwnedEcsAreAddressesHolds == Spec => []OwnedEcsAreAddresses
<1>1. ASSUME ClassInv PROVE OwnedEcsAreAddresses
  <2> DEFINE added == {config.adds[i] : i \in 1 .. toAdd}
             single == {{a.range.lb} : a \in {b \in added : b.owned}}
             one(a) == {a}
  <2>1. single = {one(a) : a \in OwnedAddresses}
    BY DEF OwnedAddresses
  <2>2. OwnedAddresses \subseteq Addresses
    BY <1>1, ConfigFacts DEF OwnedAddresses, ClassInv
  <2>3. ASSUME NEW ec \in mgr.owned_ecs, NEW a \in Addresses, In(mgr, a, ec)
        PROVE  AddressesOf(ec) = one(a) /\ a \in OwnedAddresses
    <3>1. a \in OwnedAddresses /\ \A b \in Addresses : In(mgr, b, ec) => b = a
      BY <1>1, <2>3 DEF ClassInv, Owned
    <3>2. \A b : b \in AddressesOf(ec) <=> b \in Addresses /\ In(mgr, b, ec)
      BY <1>1, ClassAddresses
    <3>3. \A b : b \in AddressesOf(ec) <=> b = a
      BY <2>3, <3>1, <3>2
    <3> QED
      BY <3>1, <3>3
  <2> HIDE DEF one
  <2>4. {AddressesOf(ec) : ec \in mgr.owned_ecs \cap IndexedEcs} = {one(a) : a \in OwnedAddresses}
    <3>1. ASSUME NEW ec \in mgr.owned_ecs \cap IndexedEcs
          PROVE  \E a \in OwnedAddresses : AddressesOf(ec) = one(a)
      <4>1. PICK a \in Addresses : In(mgr, a, ec)
        BY <1>1, ClassAddresses
      <4> QED
        BY <2>3, <4>1
    <3>2. ASSUME NEW a \in OwnedAddresses
          PROVE  \E ec \in mgr.owned_ecs \cap IndexedEcs : AddressesOf(ec) = one(a)
      <4>1. PICK ec \in mgr.owned_ecs : In(mgr, a, ec)
        BY <1>1 DEF ClassInv, Owned
      <4>2. ec \in IndexedEcs
        BY <1>1, <2>2, <4>1, ClassAddresses
      <4> QED
        BY <2>2, <2>3, <4>1, <4>2
    <3> QED
      BY <3>1, <3>2
  <2> QED
    BY <2>1, <2>4 DEF OwnedEcsAreAddresses
<1> QED
  BY <1>1, ClassHolds, PTL
-----------------------------------------------------------------------------
(* Types, where every specification has a connection                       *)

\* Each specification has a source and a port to go to, and an owned address in its
\* prefix if only those are asked for.  The code does not check this.
HasConnections ==
  \A c \in Configs :
    /\ IsFiniteSet(c.ports)
    /\ \A i \in 1 .. Len(c.inv.specs) :
         LET spec == c.inv.specs[i] IN
         /\ IsFiniteSet(spec.src_nodes) /\ spec.src_nodes # {}
         /\ IsFiniteSet(spec.dst_ports)
         /\ spec.dst_ports # {} \/ spec.protocol = "icmp" \/ c.ports # {}
         /\ spec.owned_dst_only =>
              \E j \in 1 .. Len(c.adds) :
                c.adds[j].owned /\ Has(spec.dst_ip, c.adds[j].range.lb)

Worked == Len(work) = Len(child) /\ \E X : work \in Seq(X)

Inherits == /\ Len(inherited) = Len(child) /\ inherited \in Seq(SUBSET Nat)
            /\ killed \subseteq Forked

StateInv ==
  /\ AllInRange(matrices)
  /\ draining \in BOOLEAN
  /\ pending \subseteq Signals
  /\ sender \in 0 .. Len(child)
  /\ tasks \subseteq Forked
  /\ pc = "insert" => child # <<>>
  /\ {violated, terminate, reports, failures} \subseteq BOOLEAN
  /\ Worked
  /\ Inherits
  /\ raced \subseteq {"insert", "enter"}

LEMMA StateInit == Init => StateInv
<1> SUFFICES ASSUME Init PROVE StateInv
  OBVIOUS
<1>1. AllInRange(matrices)
  BY DEF Init, AllInRange
<1>2. Worked
  BY DEF Init, Worked
<1>3. /\ Inherits
      /\ sender \in 0 .. Len(child) /\ tasks \subseteq Forked
      /\ pending \subseteq Signals /\ raced \subseteq {"insert", "enter"}
  BY DEF Init, Inherits
<1>4. draining \in BOOLEAN /\ {violated, terminate, reports, failures} \subseteq BOOLEAN
  BY DEF Init
<1> QED
  BY <1>1, <1>2, <1>3, <1>4 DEF Init, StateInv

\* The connections of all specifications, in the classes their ranges made.
LEMMA SpecConnections ==
  ASSUME HasConnections, ClassInv, ClassInv', ComputeConnMatrix
  PROVE  \A i \in 1 .. Len(config.inv.specs) :
           /\ IsFiniteSet(ComputeConnections(mgr', config.inv.specs[i]))
           /\ ComputeConnections(mgr', config.inv.specs[i]) # {}
<1> DEFINE inv == config.inv
           N == Len(inv.specs)
           k == [mgr EXCEPT !.ports = config.ports]
<1>1. /\ config' = config /\ toAdd' = toAdd /\ toAdd = Len(config.adds)
      /\ pc' = "loop" /\ matrices' = MatricesOf(mgr', inv)
      /\ mgr' = EcsOf(k, inv)
  BY DEF ComputeConnMatrix
<1>2. /\ config \in Configs /\ N \in Nat /\ DOMAIN inv.specs = 1 .. N
      /\ \A i \in 1 .. N : inv.specs[i].dst_ip \in Ranges
  BY ConfigFacts DEF ClassInv
<1>3. /\ Proper(mgr') /\ Coarse(mgr', AddedRanges') /\ Owned(mgr', OwnedAddresses')
      /\ OwnedAddresses' \in SUBSET Addresses
      /\ mgr'.ports = config.ports
  <2>1. OwnedAddresses' = OwnedAddresses
    BY <1>1 DEF OwnedAddresses
  <2>2. OwnedAddresses \in SUBSET Addresses
    BY ConfigFacts DEF OwnedAddresses, ClassInv
  <2>3. mgr'.ports = config.ports
    BY ClassMatrix
  <2> QED
    BY <2>1, <2>2, <2>3 DEF ClassInv
<1>4. ASSUME NEW i \in 1 .. N
      PROVE  /\ IsFiniteSet(ComputeConnections(mgr', inv.specs[i]))
             /\ ComputeConnections(mgr', inv.specs[i]) # {}
  <2> DEFINE spec == inv.specs[i]
             m == mgr'
             ranges == AddedRanges'
             A == OwnedAddresses'
  <2>1. spec.dst_ip \in ranges /\ spec.dst_ip \in Ranges
    BY <1>1, <1>2 DEF AddedRanges
  <2>2. /\ IsFiniteSet(m.ports)
        /\ IsFiniteSet(spec.src_nodes) /\ spec.src_nodes # {} /\ IsFiniteSet(spec.dst_ports)
        /\ spec.dst_ports # {} \/ spec.protocol = "icmp" \/ m.ports # {}
    BY <1>2, <1>3 DEF HasConnections
  <2>3. spec.owned_dst_only => \E a \in A : Has(spec.dst_ip, a)
    <3> SUFFICES ASSUME spec.owned_dst_only PROVE \E a \in A : Has(spec.dst_ip, a)
      OBVIOUS
    <3>1. PICK j \in 1 .. Len(config.adds) :
            config.adds[j].owned /\ Has(spec.dst_ip, config.adds[j].range.lb)
      BY <1>2 DEF HasConnections
    <3>2. config.adds[j].range.lb \in A
      BY <1>1, <3>1 DEF OwnedAddresses
    <3> QED
      BY <3>1, <3>2
  <2>4. Proper(m) /\ Coarse(m, ranges) /\ Owned(m, A) /\ A \in SUBSET Addresses
    BY <1>3
  <2> HIDE DEF spec, m, ranges, A
  <2>5. IsFiniteSet(ComputeConnections(m, spec)) /\ ComputeConnections(m, spec) # {}
    BY <2>1, <2>2, <2>3, <2>4, ConnectionsExist
  <2> QED
    BY <2>5 DEF m, spec
<1> QED
  BY <1>4

LEMMA StateMatrix ==
  ASSUME HasConnections, ClassInv, ClassInv', StateInv, ComputeConnMatrix
  PROVE  StateInv'
<1> DEFINE inv == config.inv
           N == Len(inv.specs)
<1>1. /\ config' = config /\ toAdd' = toAdd /\ pc' = "loop" /\ matrices' = MatricesOf(mgr', inv)
  BY DEF ComputeConnMatrix
<1>2. config \in Configs /\ N \in Nat /\ DOMAIN inv.specs = 1 .. N
  BY ConfigFacts DEF ClassInv
<1>3. \A i \in 1 .. N : /\ IsFiniteSet(ComputeConnections(mgr', inv.specs[i]))
                        /\ ComputeConnections(mgr', inv.specs[i]) # {}
  BY SpecConnections
<1> DEFINE m == mgr'
           q == inv
<1>4. AllInRange(matrices')
  <2>1. /\ Len(q.specs) \in Nat /\ DOMAIN q.specs = 1 .. Len(q.specs)
        /\ \A i \in 1 .. Len(q.specs) :
             /\ IsFiniteSet(ComputeConnections(m, q.specs[i]))
             /\ ComputeConnections(m, q.specs[i]) # {}
    BY <1>2, <1>3
  <2> HIDE DEF q, m
  <2>2. AllInRange(MatricesOf(m, q))
    BY <2>1, MatricesInRange
  <2> QED
    BY <1>1, <2>2 DEF q, m
<1> QED
  BY <1>1, <1>4 DEF ComputeConnMatrix, StateInv, Worked, Inherits, Forked, signals, flags,
                      processes

LEMMA StateFork == ASSUME TrackInv, StateInv, Fork PROVE StateInv'
<1>1. /\ child' = Append(child, "running") /\ work' = Append(work, conns) /\ pc' = "insert"
      /\ UNCHANGED <<matrices, draining, pending, sender, tasks, flags, reports, failures, raced>>
  BY DEF Fork, matrix, signals
<1>2. child \in Seq(States) /\ Len(child) \in Nat
  BY ChildStates DEF TrackInv, Typed
<1>3. Len(child') = Len(child) + 1 /\ DOMAIN child' = 1 .. Len(child')
  <2>1. child' \in Seq(States) /\ Len(child') = Len(child) + 1
    BY <1>1, <1>2 DEF States
  <2> QED
    BY <2>1
<1>4. Worked'
  <2>1. PICK X : work \in Seq(X)
    BY DEF StateInv, Worked
  <2> DEFINE Y == X \union {conns}
  <2>2. work \in Seq(Y) /\ conns \in Y
    BY <2>1
  <2> HIDE DEF Y
  <2>3. work' \in Seq(Y) /\ Len(work') = Len(work) + 1
    BY <1>1, <2>2
  <2> QED
    BY <1>3, <2>3 DEF Worked, StateInv
<1>5. sender' \in 0 .. Len(child') /\ tasks' \subseteq Forked' /\ child' # <<>>
  BY <1>1, <1>2, <1>3 DEF StateInv, Forked
<1>6. Inherits'
  <2>1. {} \in SUBSET Nat /\ tasks \in SUBSET Nat
    BY <1>2, <1>5 DEF StateInv, Forked
  <2>2. inherited' \in Seq(SUBSET Nat) /\ Len(inherited') = Len(inherited) + 1
    <3>1. PICK t : t = IF IsMain THEN {} ELSE tasks
      OBVIOUS
    <3>2. inherited' = Append(inherited, t)
      BY <3>1 DEF Fork
    <3>3. inherited \in Seq(SUBSET Nat) /\ t \in SUBSET Nat
      BY <2>1, <3>1 DEF StateInv, Inherits
    <3> QED
      BY <3>2, <3>3
  <2>3. killed' \subseteq Forked'
    BY <1>2, <1>3 DEF Fork, StateInv, Inherits, Forked
  <2> QED
    BY <1>3, <2>2, <2>3 DEF StateInv, Inherits
<1> QED
  BY <1>1, <1>4, <1>5, <1>6 DEF StateInv, flags

\* What changes the states of processes keeps their number.
LEMMA StateProcesses ==
  ASSUME TrackInv, StateInv,
         (\E p \in Forked : Reap(p) \/ Task(p)) \/ Waited \/ Exit
  PROVE  StateInv'
<1>1. Forked = 1 .. Len(child) /\ Len(child) \in Nat /\ child \in Seq(States)
  BY ChildStates DEF TrackInv, Typed
<1>2. Len(child') = Len(child) /\ Forked' = Forked
  <2>1. CASE Waited \/ Exit
    BY <1>1, <2>1 DEF Waited, Exit, Forked
  <2>2. CASE \E p \in Forked : Reap(p)
    BY <1>1, <2>2, ExceptSeq DEF Reap, Forked, States
  <2>3. CASE \E p \in Forked : Task(p)
    BY <1>1, <2>3, ExceptSeq DEF Task, Report, End, Forked, States, Ends
  <2> QED
    BY <2>1, <2>2, <2>3
<1>3. Worked' /\ AllInRange(matrices') /\ draining' \in BOOLEAN /\ tasks' \subseteq Forked'
  BY <1>2 DEF StateInv, Worked, Waited, Exit, Reap, Task, Report, End, matrix
<1>4. pending' \subseteq Signals /\ sender' \in 0 .. Len(child')
  <2>1. CASE Waited \/ Exit \/ \E p \in Forked : Reap(p)
    BY <1>2, <2>1 DEF StateInv, Waited, Exit, Reap, signals
  <2>2. ASSUME NEW p \in Forked, Report(p)
        PROVE  pending' \subseteq Signals /\ sender' \in 0 .. Len(child')
    <3>1. p \in 0 .. Len(child') /\ sender \in 0 .. Len(child') /\ pending \subseteq Signals
      BY <1>1, <1>2 DEF StateInv
    <3>2. pending' \in {pending, pending \union {"USR1"}} /\ sender' \in {sender, p}
      BY <2>2 DEF Report, Signal
    <3> QED
      BY <3>1, <3>2 DEF Signals
  <2>3. ASSUME NEW p \in Forked, NEW how \in Ends, End(p, how)
        PROVE  pending' \subseteq Signals /\ sender' \in 0 .. Len(child')
    <3>1. sender \in 0 .. Len(child') /\ pending \subseteq Signals
      BY <1>2 DEF StateInv
    <3>2. pending' \in {pending, pending \union {"CHLD"}} /\ sender' = sender
      BY <2>3 DEF End, Signal
    <3> QED
      BY <3>1, <3>2 DEF Signals
  <2> QED
    BY <2>1, <2>2, <2>3 DEF Task
<1>5. {violated', terminate', reports', failures'} \subseteq BOOLEAN
  BY DEF StateInv, Waited, Exit, Reap, Task, Report, End, flags
<1>6. raced' \subseteq {"insert", "enter"}
  BY DEF StateInv, Waited, Exit, Reap, Task, Report, End, RacedWith
<1>7. pc' = "insert" => child' # <<>>
  <2>1. pc' = "insert" => pc = "insert"
    BY DEF Waited, Exit, Reap, Task, Report, End, Return
  <2>2. child = <<>> <=> Len(child) = 0
    BY <1>1
  <2>3. child' = <<>> => Len(child') = 0
    OBVIOUS
  <2> QED
    BY <1>2, <2>1, <2>2, <2>3 DEF StateInv
<1>8. Inherits'
  <2>1. inherited' = inherited /\ killed' \subseteq Forked
    BY DEF StateInv, Inherits, Waited, Exit, Reap, Task, Report, End, Alive
  <2> QED
    BY <1>2, <2>1 DEF StateInv, Inherits
<1> QED
  BY <1>3, <1>4, <1>5, <1>6, <1>7, <1>8 DEF StateInv

LEMMA StateNext ==
  ASSUME HasConnections, TrackInv, ClassInv, ClassInv', StateInv, [Next]_vars
  PROVE  StateInv'
<1>1. Forked = 1 .. Len(child) /\ Len(child) \in Nat
  BY ChildStates DEF TrackInv, Typed
<1>2. CASE NextCombination
  <2>1. AllInRange(matrices')
    <3>1. AllInRange(matrices)
      BY DEF StateInv
    <3>2. \/ matrices' = matrices
          \/ matrices' = SetConns(config.inv.correlated, matrices, conns).matrices
      BY <1>2 DEF NextCombination, matrix
    <3> QED
      BY <3>1, <3>2, SetConnsInRange
  <2>2. draining' \in BOOLEAN
    BY <1>2 DEF NextCombination, SetConns
  <2> QED
    BY <1>2, <2>1, <2>2 DEF NextCombination, StateInv, Worked, Inherits, Forked, signals, flags,
                        processes
<1>3. CASE AddInitialEc \/ StartMain \/ NextInvariant \/ TestTasks \/ Pause \/ Destroy
             \/ UNCHANGED vars
  BY <1>3 DEF AddInitialEc, StartMain, NextInvariant, TestTasks, Pause, Destroy, vars,
              StateInv, Worked, Inherits, Forked, matrix, signals, flags, processes
<1>4. CASE Insert
  <2>1. Len(child) \in Forked
    <3>1. child # <<>> /\ child \in Seq(States)
      BY <1>4 DEF Insert, StateInv, TrackInv, Typed
    <3> QED
      BY <1>1, <3>1
  <2> QED
    BY <1>4, <2>1 DEF Insert, StateInv, Worked, Inherits, Forked, matrix, signals, flags,
                        processes
<1>5. CASE HandleUsr1 \/ HandleTerm \/ HandleChld \/ ReapNone
  <2>1. /\ UNCHANGED <<matrices, draining, terminate, processes, raced>>
        /\ pending' \subseteq pending /\ tasks' \subseteq tasks
        /\ sender' \in {0, sender} /\ violated' \in {violated, TRUE}
    BY <1>5 DEF HandleUsr1, HandleTerm, HandleChld, ReapNone, Deliver, Return, KillAllTasks,
                matrix, signals, flags
  <2>2. pc' = "insert" => pc = "insert"
    BY <1>5 DEF HandleUsr1, HandleTerm, HandleChld, ReapNone, Return, KillAllTasks
  <2>3. sender' \in 0 .. Len(child') /\ tasks' \subseteq Forked' /\ violated' \in BOOLEAN
    <3>1. sender \in 0 .. Len(child) /\ tasks \subseteq Forked /\ violated \in BOOLEAN
      BY DEF StateInv
    <3>2. child' = child /\ Forked' = Forked
      BY <2>1 DEF Forked, processes
    <3>3. sender' \in 0 .. Len(child')
      BY <1>1, <2>1, <3>1, <3>2
    <3> QED
      BY <2>1, <3>1, <3>2, <3>3
  <2> QED
    BY <2>1, <2>2, <2>3 DEF StateInv, Worked, Inherits, Forked, processes
<1>6. CASE Interrupt
  BY <1>6 DEF Interrupt, Signal, Signals,
              StateInv, Worked, Inherits, Forked, matrix, signals, flags, processes
<1> QED
  BY <1>2, <1>3, <1>4, <1>5, <1>6, StateMatrix, StateFork, StateProcesses
  DEF Next, Main, Handle

\* Where every specification has a connection, the iterators of the matrices stay
\* in their sets, with the types of all other variables.
THEOREM SupervisorTypeOK ==
  ASSUME HasConnections
  PROVE  Spec => []TypeOK
<1>1. Init => StateInv
  BY StateInit
<1>2. TrackInv /\ ClassInv /\ ClassInv' /\ StateInv /\ [Next]_vars => StateInv'
  BY StateNext
<1>3. ASSUME TrackInv, ClassInv, StateInv PROVE TypeOK
  <2>1. \A i \in DOMAIN matrices : \A k \in DOMAIN matrices[i].itrs :
          matrices[i].itrs[k] \in DOMAIN matrices[i].product[k]
    <3> SUFFICES ASSUME NEW i \in DOMAIN matrices, NEW k \in DOMAIN matrices[i].itrs
                 PROVE  matrices[i].itrs[k] \in DOMAIN matrices[i].product[k]
      OBVIOUS
    <3> DEFINE x == matrices[i]
    <3>1. InRange(x)
      BY <1>3 DEF StateInv, AllInRange
    <3> HIDE DEF x
    <3>2. DOMAIN x.itrs = 1 .. Len(x.product)
      BY <3>1 DEF InRange
    <3>3. k \in 1 .. Len(x.product)
      BY <3>2 DEF x
    <3> QED
      BY <3>1, <3>3 DEF InRange, x
  <2>2. /\ mgr.all_ecs \in Nat /\ mgr.owned_ecs \subseteq 1 .. mgr.all_ecs
        /\ \A r \in mgr.allranges :
             [lb |-> r.lb, ub |-> r.ub] \in Ranges /\ r.ec \in 1 .. mgr.all_ecs
    BY <1>3 DEF ClassInv, Proper, Mgrs, EcRanges, Ranges
  <2>3. /\ child \in Seq(States) /\ Forked = 1 .. Len(child)
        /\ \A p \in Forked : child[p] \in {"running", "reported", "gone"} \union Ends
    BY <1>3, ChildStates DEF TrackInv, Typed, Forked, States
  <2>4. DOMAIN work = Forked /\ DOMAIN inherited = Forked /\ killed \subseteq Forked
    BY <1>3, <2>3 DEF StateInv, Worked, Inherits
  <2> QED
    BY <1>3, <2>1, <2>2, <2>3, <2>4 DEF StateInv, ClassInv, TrackInv, Typed, TypeOK
<1> QED
  BY <1>1, <1>2, <1>3, TrackHolds, ClassHolds, PTL DEF Spec
-----------------------------------------------------------------------------
(* The combinations of connections                                         *)

Count == Len(config.inv.specs)
Sets == [i \in 1 .. Count |-> ComputeConnections(mgr, config.inv.specs[i])]
Seqs == [i \in 1 .. Count |-> SetToSeq(Sets[i])]
Sizes == [i \in 1 .. Count |-> Len(Seqs[i])]

\* What set_conns gives at a vector of positions in these sequences, 0 where a
\* specification is left without a connection, and the positions it goes through.
Shown(v) == IF config.inv.correlated THEN Singles(Seqs, Count, v)
                                     ELSE <<Vector(Seqs, Count, v)>>

Positions == IF config.inv.correlated
             THEN Vectors(Count, 0, Sizes) \ {[i \in 1 .. Count |-> 0]}
             ELSE Vectors(Count, 1, Sizes)

\* It was given for processes that were forked, or is for the one to be.
Emitted == IF pc = "fork" THEN Append(work, conns) ELSE work

\* Set S of positions was given, each of them once.
Told(S) == \E f \in Bijection(1 .. Len(Emitted), S) :
             \A p \in 1 .. Len(Emitted) : Emitted[p] = Shown(f[p])

\* The iterators are where all positions before were given.
AtProduct == \E v \in Vectors(Count, 1, Sizes), done \in BOOLEAN :
  /\ matrices = <<At(Seqs, v, done)>>
  /\ Told({u \in Positions : done \/ Before(Count, u, v)})

AtDigits == \E d \in Vectors(Count, 0, Sizes) :
  /\ matrices = Digits(Seqs, Count, d) /\ conns = Singles(Seqs, Count, d)
  /\ Told({u \in Positions : Before(Count, u, d) \/ u = d})

\* Nothing stops the process before it is done.
Undisturbed == ~Over /\ ~terminate /\ (violated => config.all_ecs)

Traversing ==
  /\ Count # 0 /\ Listed(Count, Sets, Seqs, Sizes)
  /\ ~config.inv.correlated => matrices[1].product = Seqs
  /\ IF draining THEN Undisturbed => Told(Positions)
     ELSE IF config.inv.correlated THEN AtDigits ELSE AtProduct

\* The second loop is that of run or verify_invariant.
TwoLoops ==
  /\ draining => pc \notin {"init", "loop", "fork", "insert"}
  /\ pc = "return" \/ Over => draining
  /\ IsMain /\ draining /\ ~terminate /\ ~Over => Len(child) = config.invs

ComboInv == TwoLoops /\ (~IsMain /\ pc # "init" => Traversing)

\* One more position.
LEMMA ToldMore ==
  ASSUME NEW S, Told(S), NEW d, d \notin S, StateInv,
         pc = "loop", pc' = "fork", UNCHANGED <<config, mgr, work>>, conns' = Shown(d)
  PROVE  Told(S \cup {d})'
<1> DEFINE N == Len(work)
           M == N + 1
<1>1. PICK X : work \in Seq(X)
  BY DEF StateInv, Worked
<1>2. N \in Nat /\ Emitted = work
  BY <1>1 DEF Emitted
<1>3. Emitted' = Append(work, conns') /\ \A v : Shown(v)' = Shown(v)
  BY DEF Emitted, Shown, Seqs, Sets, Count
<1>4. /\ Len(Emitted') = M /\ Emitted'[M] = conns'
      /\ \A p \in 1 .. N : Emitted'[p] = work[p]
  <2> DEFINE Y == X \cup {conns'}
  <2>1. work \in Seq(Y) /\ conns' \in Y
    BY <1>1
  <2> HIDE DEF Y
  <2> QED
    BY <1>3, <2>1
<1>5. PICK f \in Bijection(1 .. N, S) : \A p \in 1 .. N : work[p] = Shown(f[p])
  BY <1>2 DEF Told
<1> DEFINE g == [p \in 1 .. N + 1 |-> IF p = N + 1 THEN d ELSE f[p]]
<1> HIDE DEF N
<1>6. g \in Bijection(1 .. M, S \cup {d})
  BY <1>2, <1>5, BijectionMore
<1>7. \A p \in 1 .. M : Emitted'[p] = Shown(g[p])
  BY <1>2, <1>4, <1>5
<1> HIDE DEF g
<1> QED
  BY <1>3, <1>4, <1>6, <1>7 DEF Told

\* Nothing was given before the first process.
LEMMA ToldNone ==
  ASSUME work' = <<>>, pc' # "fork"
  PROVE  Told({})'
<1>1. Emitted' = <<>> /\ Len(Emitted') = 0
  BY DEF Emitted
<1>2. \A p : p \notin 1 .. 0
  OBVIOUS
<1> DEFINE none == 1 .. 0
           f == [p \in none |-> 0]
<1>3. f \in Bijection(none, {})
  BY <1>2 DEF Bijection, Injection, Surjection, IsInjective
<1> HIDE DEF f
<1> QED
  BY <1>1, <1>2, <1>3 DEF Told
LEMMA ComboMatrix ==
  ASSUME HasConnections, TrackInv, ClassInv, ClassInv', StateInv, ComboInv, ComputeConnMatrix
  PROVE  ComboInv'
<1> DEFINE n == Count
           sets == Sets'
           seqs == Seqs'
           hi == Sizes'
           zero == [i \in 1 .. n |-> 0]
           one == [i \in 1 .. n |-> 1]
<1>1. /\ config' = config /\ pc = "init" /\ pc' = "loop" /\ child' = child /\ work' = work
      /\ draining' = draining /\ config.inv.specs # <<>>
      /\ matrices' = MatricesOf(mgr', config.inv)
      /\ conns' = [i \in DOMAIN matrices' |-> <<>>]
  BY DEF ComputeConnMatrix, processes
<1>2. ~draining /\ work' = <<>>
  <2>1. child = <<>> /\ ~draining
    BY <1>1 DEF TrackInv, Quiet, ComboInv, TwoLoops
  <2>2. PICK X : work \in Seq(X) /\ Len(work) = 0
    BY <2>1 DEF StateInv, Worked
  <2> QED
    BY <1>1, <2>1, <2>2
<1>3. /\ config \in Configs /\ n \in Nat /\ DOMAIN config.inv.specs = 1 .. n
      /\ config.inv.specs = [i \in 1 .. n |-> config.inv.specs[i]]
      /\ config.inv.correlated \in BOOLEAN /\ ~IsMain
  BY <1>1, ConfigFacts DEF ClassInv, Count
<1>4. n # 0
  <2> DEFINE q == config.inv.specs
  <2>1. q = [i \in 1 .. n |-> q[i]]
    BY <1>3
  <2>2. ASSUME n = 0 PROVE q = <<>>
    <3>1. q = [i \in 1 .. 0 |-> q[i]]
      BY <2>1, <2>2
    <3> HIDE DEF q
    <3>2. 1 .. 0 = {}
      OBVIOUS
    <3> QED
      BY <3>1, <3>2
  <2> QED
    BY <1>1, <2>2
<1>5. /\ Count' = n /\ sets = [i \in 1 .. n |-> ComputeConnections(mgr', config.inv.specs[i])]
      /\ seqs = [i \in 1 .. n |-> SetToSeq(sets[i])] /\ hi = [i \in 1 .. n |-> Len(seqs[i])]
  BY <1>1 DEF Count, Sets, Seqs, Sizes
<1>6. Listed(n, sets, seqs, hi)
  <2>1. \A i \in 1 .. n : sets[i] = ComputeConnections(mgr', config.inv.specs[i])
    BY <1>5
  <2>2. \A i \in 1 .. n : IsFiniteSet(sets[i]) /\ sets[i] # {}
    BY <2>1, SpecConnections DEF Count
  <2> QED
    BY <1>3, <1>5, <2>2 DEF Listed
<1>7. Sized(n, seqs, hi)
  BY <1>6, ListedFacts
<1>8. /\ hi \in [1 .. n -> Nat] /\ \A k \in 1 .. n : 1 <= hi[k]
      /\ Bounds(n, 1, hi) /\ Bounds(n, 0, hi)
  BY <1>3, <1>7 DEF Sized, Bounds
<1>9. zero \in Vectors(n, 0, hi) /\ one \in Vectors(n, 1, hi)
  <2>1. zero \in [1 .. n -> Nat] /\ one \in [1 .. n -> Nat]
    OBVIOUS
  <2> QED
    BY <1>8, <2>1 DEF Vectors
<1>10. /\ Matrix(sets) = At(seqs, one, FALSE)
       /\ [i \in DOMAIN sets |-> Matrix(<<sets[i]>>)] = Digits(seqs, n, zero)
  <2>1. sets = [i \in 1 .. n |-> sets[i]]
    BY <1>5
  <2> HIDE DEF n, sets, seqs, hi
  <2> QED
    BY <1>6, <2>1, FirstMatrices
<1>11. matrices' = IF config.inv.correlated THEN Digits(seqs, n, zero)
                                            ELSE <<At(seqs, one, FALSE)>>
  <2>1. sets = [i \in DOMAIN config.inv.specs |-> ComputeConnections(mgr', config.inv.specs[i])]
    BY <1>3, <1>5
  <2>2. MatricesOf(mgr', config.inv) =
          IF config.inv.correlated THEN [i \in DOMAIN sets |-> Matrix(<<sets[i]>>)]
                                   ELSE <<Matrix(sets)>>
    BY <2>1 DEF MatricesOf
  <2> HIDE DEF n, sets, seqs, hi, zero, one
  <2> QED
    BY <1>1, <1>10, <2>2
<1>12. Told({})'
  BY <1>1, <1>2, ToldNone
<1>13. CASE config.inv.correlated
  <2>1. Positions' = Vectors(n, 0, hi) \ {zero}
    BY <1>1, <1>5, <1>13 DEF Positions
  <2>2. PICK d : d = zero
    OBVIOUS
  <2>3. /\ \A k \in 1 .. n : d[k] = 0
        /\ d \in Vectors(n, 0, hi) /\ Positions' = Vectors(n, 0, hi) \ {d}
        /\ matrices' = Digits(seqs, n, d)
    BY <1>9, <1>11, <1>13, <2>1, <2>2
  <2> HIDE DEF n, sets, seqs, hi, zero
  <2>4. {u \in Positions' : Before(n, u, d) \/ u = d} = {}
    BY <1>8, <2>3, BeforeFacts
  <2>5. conns' = Singles(seqs, n, d)
    BY <1>1, <2>3 DEF Digits, Singles
  <2>6. Told({u \in Positions : Before(Count, u, d) \/ u = d})'
    BY <1>5, <1>12, <2>4 DEF Told
  <2>7. AtDigits'
    BY <1>5, <2>3, <2>5, <2>6 DEF AtDigits, seqs, hi
  <2> QED
    BY <1>1, <1>2, <1>3, <1>4, <1>5, <1>6, <1>13, <2>7
    DEF ComboInv, TwoLoops, Traversing, n, sets, seqs, hi, IsMain, Over
<1>14. CASE ~config.inv.correlated
  <2>1. Positions' = Vectors(n, 1, hi)
    BY <1>1, <1>5, <1>14 DEF Positions
  <2>2. PICK v : v = one
    OBVIOUS
  <2>3. /\ \A k \in 1 .. n : v[k] = 1
        /\ v \in Vectors(n, 1, hi) /\ Positions' = Vectors(n, 1, hi)
        /\ matrices' = <<At(seqs, v, FALSE)>>
    BY <1>9, <1>11, <1>14, <2>1, <2>2
  <2> HIDE DEF n, sets, seqs, hi, one
  <2>4. {u \in Positions' : FALSE \/ Before(n, u, v)} = {}
    BY <1>8, <2>3, BeforeFacts
  <2>5. matrices'[1].product = seqs
    BY <2>3 DEF At
  <2>6. Told({u \in Positions : FALSE \/ Before(Count, u, v)})'
    BY <1>5, <1>12, <2>4 DEF Told
  <2>7. AtProduct'
    BY <1>5, <2>3, <2>6 DEF AtProduct, seqs, hi
  <2> QED
    BY <1>1, <1>2, <1>3, <1>4, <1>5, <1>6, <1>14, <2>5, <2>7
    DEF ComboInv, TwoLoops, Traversing, n, sets, seqs, hi, IsMain, Over
<1> QED
  BY <1>13, <1>14
\* What depends on the configuration and its classes only.
LEMMA ComboSame ==
  ASSUME UNCHANGED <<config, mgr>>
  PROVE  /\ Count' = Count /\ Sets' = Sets /\ Seqs' = Seqs /\ Sizes' = Sizes
         /\ Positions' = Positions /\ IsMain' = IsMain
         /\ \A v : Shown(v)' = Shown(v)
BY DEF Count, Sets, Seqs, Sizes, Positions, Shown, IsMain

\* And what was given, as long as no process is forked.
LEMMA ToldSame ==
  ASSUME UNCHANGED <<config, mgr>>, Emitted' = Emitted, NEW S, Told(S)
  PROVE  Told(S)'
BY ComboSame DEF Told

\* set_conns gives the next position, or none after all of them.
LEMMA NextCorrelated ==
  ASSUME StateInv, ClassInv, Traversing, ~draining, config.inv.correlated,
         UNCHANGED <<config, mgr, work>>, pc = "loop",
         NEW r, r = SetConns(config.inv.correlated, matrices, conns),
         matrices' = r.matrices, conns' = r.conns,
         pc' = IF r.found THEN "fork" ELSE "test"
  PROVE  IF r.found THEN AtDigits' ELSE Told(Positions)'
<1> DEFINE n == Count
           seqs == Seqs
           hi == Sizes
           zero == [i \in 1 .. n |-> 0]
<1>1. /\ n # 0 /\ Listed(n, Sets, seqs, hi) /\ Sized(n, seqs, hi) /\ AtDigits
      /\ config.inv.correlated = TRUE
  BY ListedFacts, ConfigFacts DEF Traversing, ClassInv
<1>2. PICK d \in Vectors(n, 0, hi) :
        /\ matrices = Digits(seqs, n, d) /\ conns = Singles(seqs, n, d)
        /\ Told({u \in Positions : Before(n, u, d) \/ u = d})
  BY <1>1 DEF AtDigits
<1> PICK S : S = {u \in Positions : Before(n, u, d) \/ u = d}
  OBVIOUS
<1>3. Positions = Vectors(n, 0, hi) \ {zero}
  BY <1>1 DEF Positions
<1>4. r = SetConns(TRUE, Digits(seqs, n, d), Singles(seqs, n, d))
  BY <1>1, <1>2
<1>5. Bounds(n, 0, hi) /\ zero \in Vectors(n, 0, hi) /\ \A k \in 1 .. n : zero[k] = 0
  <2>1. n \in Nat /\ hi \in [1 .. n -> Nat]
    BY <1>1 DEF Sized, Bounds
  <2> HIDE DEF n, hi
  <2> QED
    BY <2>1 DEF Bounds, Vectors
<1> HIDE DEF n, seqs, hi, zero
<1>6. AfterDigits(n, seqs, hi, d, r)
  BY <1>1, <1>4, NextOfDigits
<1>7. CASE r.found
  <2>1. d # hi
    BY <1>6, <1>7 DEF AfterDigits
  <2>2. PICK w \in Vectors(n, 0, hi) :
          /\ r.matrices = Digits(seqs, n, w) /\ r.conns = Singles(seqs, n, w)
          /\ \A u \in Vectors(n, 0, hi) : Before(n, u, w) <=> Before(n, u, d) \/ u = d
    BY <1>6, <2>1 DEF AfterDigits
  <2>3. ~Before(n, w, w) /\ w # zero
    BY <1>2, <1>5, <2>2, BeforeFacts
  <2>4. w \notin S /\ S \cup {w} = {u \in Positions : Before(n, u, w) \/ u = w}
    BY <1>3, <2>2, <2>3
  <2>5. conns' = Shown(w)
    BY <1>1, <2>2 DEF Shown, seqs, n
  <2>6. Told(S \cup {w})'
    BY <1>2, <1>7, <2>4, <2>5, ToldMore
  <2>7. Told({u \in Positions : Before(Count, u, w) \/ u = w})'
    BY <2>4, <2>6, ComboSame DEF Told, n
  <2>8. AtDigits'
    BY <2>2, <2>7, ComboSame DEF AtDigits, n, seqs, hi
  <2> QED
    BY <1>7, <2>8
<1>8. CASE ~r.found
  <2>1. d = hi
    BY <1>6, <1>8 DEF AfterDigits
  <2>2. S = Positions
    BY <1>3, <1>5, <2>1, BeforeFacts
  <2>3. Emitted' = Emitted
    BY <1>8 DEF Emitted
  <2>4. Told(S)'
    BY <1>2, <2>3, ToldSame
  <2> QED
    BY <1>8, <2>2, <2>4, ComboSame DEF Told
<1> QED
  BY <1>7, <1>8

LEMMA NextUncorrelated ==
  ASSUME StateInv, ClassInv, Traversing, ~draining, ~config.inv.correlated,
         UNCHANGED <<config, mgr, work>>, pc = "loop",
         NEW r, r = SetConns(config.inv.correlated, matrices, conns),
         matrices' = r.matrices, r.found => conns' = r.conns,
         pc' = IF r.found THEN "fork" ELSE "test"
  PROVE  /\ matrices'[1].product = Seqs
         /\ IF r.found THEN AtProduct' ELSE Told(Positions)'
<1> DEFINE n == Count
           seqs == Seqs
           hi == Sizes
<1>1. /\ n # 0 /\ Listed(n, Sets, seqs, hi) /\ Sized(n, seqs, hi) /\ AtProduct
      /\ config.inv.correlated = FALSE
  BY ListedFacts, ConfigFacts DEF Traversing, ClassInv
<1>2. PICK v \in Vectors(n, 1, hi), done \in BOOLEAN :
        /\ matrices = <<At(seqs, v, done)>>
        /\ Told({u \in Positions : done \/ Before(n, u, v)})
  BY <1>1 DEF AtProduct
<1> PICK S : S = {u \in Positions : done \/ Before(n, u, v)}
  OBVIOUS
<1>3. Positions = Vectors(n, 1, hi)
  BY <1>1 DEF Positions
<1>4. r = SetConns(FALSE, <<At(seqs, v, done)>>, conns)
  BY <1>1, <1>2
<1>5. Bounds(n, 1, hi)
  BY <1>1 DEF Sized
<1> HIDE DEF n, seqs, hi
<1>6. AfterProduct(n, seqs, hi, v, done, r)
  BY <1>1, <1>4, NextOfProduct
<1>7. CASE r.found
  <2>1. ~done
    BY <1>6, <1>7 DEF AfterProduct
  <2>2. r.conns = <<Vector(seqs, n, v)>>
    BY <1>6, <2>1 DEF AfterProduct
  <2>3. PICK w \in Vectors(n, 1, hi), e \in BOOLEAN :
          /\ r.matrices = <<At(seqs, w, e)>>
          /\ \A u \in Vectors(n, 1, hi) : e \/ Before(n, u, w) <=> Before(n, u, v) \/ u = v
    BY <1>6, <2>1 DEF AfterProduct
  <2>4. ~Before(n, v, v)
    BY <1>5, BeforeFacts
  <2>5. v \notin S /\ S \cup {v} = {u \in Positions : e \/ Before(n, u, w)}
    BY <1>3, <2>1, <2>3, <2>4
  <2>6. conns' = Shown(v)
    BY <1>1, <1>7, <2>2 DEF Shown, seqs, n
  <2>7. Told(S \cup {v})'
    BY <1>2, <1>7, <2>5, <2>6, ToldMore
  <2>8. Told({u \in Positions : e \/ Before(Count, u, w)})'
    BY <2>5, <2>7, ComboSame DEF Told, n
  <2>9. AtProduct'
    BY <2>3, <2>8, ComboSame DEF AtProduct, n, seqs, hi
  <2>10. matrices'[1].product = Seqs
    BY <2>3 DEF At, seqs
  <2> QED
    BY <1>7, <2>9, <2>10
<1>8. CASE ~r.found
  <2>1. done /\ r.matrices = <<At(seqs, v, done)>>
    BY <1>6, <1>8 DEF AfterProduct
  <2>2. S = Positions
    BY <2>1
  <2>3. Emitted' = Emitted
    BY <1>8 DEF Emitted
  <2>4. Told(S)'
    BY <1>2, <2>3, ToldSame
  <2>5. matrices'[1].product = Seqs
    BY <2>1 DEF At, seqs
  <2> QED
    BY <1>8, <2>2, <2>4, <2>5, ComboSame DEF Told
<1> QED
  BY <1>7, <1>8
LEMMA ComboCombination ==
  ASSUME TrackInv, StateInv, ClassInv, ComboInv, NextCombination
  PROVE  ComboInv'
<1> DEFINE r == SetConns(config.inv.correlated, matrices, conns)
           going == (~violated \/ config.all_ecs) /\ ~terminate
<1>1. /\ pc = "loop" /\ ~IsMain /\ ~draining /\ Traversing
      /\ UNCHANGED <<config, mgr, work, violated, terminate>>
  BY DEF NextCombination, ComboInv, TwoLoops, startup, flags, processes
<1>2. /\ Count' = Count /\ Sets' = Sets /\ Seqs' = Seqs /\ Sizes' = Sizes
      /\ Positions' = Positions /\ IsMain' = IsMain
  BY <1>1, ComboSame
<1>3. CASE ~going
  <2>1. pc' = "test" /\ draining' = TRUE /\ matrices' = matrices /\ ~Undisturbed'
    BY <1>1, <1>3 DEF NextCombination, matrix, Undisturbed
  <2> QED
    BY <1>1, <1>2, <2>1 DEF ComboInv, TwoLoops, Traversing, Over
<1>4. CASE going
  <2>1. /\ matrices' = r.matrices /\ conns' = r.conns
        /\ pc' = (IF r.found THEN "fork" ELSE "test") /\ draining' = ~r.found
    BY <1>4 DEF NextCombination
  <2>2. r.found \in BOOLEAN
    BY DEF SetConns
  <2>3. PICK q : q = r
    OBVIOUS
  <2>4. /\ q = SetConns(config.inv.correlated, matrices, conns) /\ q.found \in BOOLEAN
        /\ matrices' = q.matrices /\ conns' = q.conns
        /\ pc' = (IF q.found THEN "fork" ELSE "test") /\ draining' = ~q.found
    BY <2>1, <2>2, <2>3
  <2> HIDE DEF r
  <2>5. ~config.inv.correlated => matrices'[1].product = Seqs
    BY <1>1, <2>4, NextUncorrelated
  <2>6. IF q.found THEN (IF config.inv.correlated THEN AtDigits' ELSE AtProduct')
                   ELSE Told(Positions)'
    BY <1>1, <2>4, NextCorrelated, NextUncorrelated
  <2> QED
    BY <1>1, <1>2, <2>4, <2>5, <2>6 DEF ComboInv, TwoLoops, Traversing, Over
<1> QED
  BY <1>3, <1>4

\* What was given stays given while the iterators rest.
LEMMA ComboKept ==
  ASSUME ComboInv, pc # "init", UNCHANGED <<config, mgr, matrices, conns, draining>>,
         Emitted' = Emitted, Undisturbed' => Undisturbed, TwoLoops'
  PROVE  ComboInv'
<1>1. UNCHANGED <<config, mgr, matrices, conns, draining>> /\ Emitted' = Emitted
  OBVIOUS
<1>2. /\ Count' = Count /\ Sets' = Sets /\ Seqs' = Seqs /\ Sizes' = Sizes
      /\ Positions' = Positions /\ IsMain' = IsMain
  BY <1>1, ComboSame
<1>3. \A S : Told(S) => Told(S)'
  BY <1>1, ToldSame
<1>4. AtDigits => AtDigits'
  <2> SUFFICES ASSUME AtDigits PROVE AtDigits'
    OBVIOUS
  <2>1. PICK d \in Vectors(Count, 0, Sizes) :
          /\ matrices = Digits(Seqs, Count, d) /\ conns = Singles(Seqs, Count, d)
          /\ Told({u \in Positions : Before(Count, u, d) \/ u = d})
    BY DEF AtDigits
  <2>2. PICK S : S = {u \in Positions : Before(Count, u, d) \/ u = d}
    OBVIOUS
  <2>3. Told(S)'
    BY <1>3, <2>1, <2>2
  <2>4. Told({u \in Positions : Before(Count, u, d) \/ u = d})'
    BY <1>2, <2>2, <2>3 DEF Told
  <2> QED
    BY <1>1, <1>2, <2>1, <2>4 DEF AtDigits
<1>5. AtProduct => AtProduct'
  <2> SUFFICES ASSUME AtProduct PROVE AtProduct'
    OBVIOUS
  <2>1. PICK v \in Vectors(Count, 1, Sizes), done \in BOOLEAN :
          /\ matrices = <<At(Seqs, v, done)>>
          /\ Told({u \in Positions : done \/ Before(Count, u, v)})
    BY DEF AtProduct
  <2>2. PICK S : S = {u \in Positions : done \/ Before(Count, u, v)}
    OBVIOUS
  <2>3. Told(S)'
    BY <1>3, <2>1, <2>2
  <2>4. Told({u \in Positions : done \/ Before(Count, u, v)})'
    BY <1>2, <2>2, <2>3 DEF Told
  <2> QED
    BY <1>1, <1>2, <2>1, <2>4 DEF AtProduct
<1>6. Told(Positions) => Told(Positions)'
  <2>1. PICK S : S = Positions
    OBVIOUS
  <2>2. Told(S) => Told(S)'
    BY <1>3
  <2> QED
    BY <1>2, <2>1, <2>2 DEF Told
<1>7. Traversing => Traversing'
  BY <1>1, <1>2, <1>4, <1>5, <1>6 DEF Traversing
<1> QED
  BY <1>2, <1>7 DEF ComboInv

\* The steps that neither start the iterators nor advance them.
LEMMA ComboOthers ==
  ASSUME TrackInv, StateInv, ComboInv,
         Fork \/ Insert \/ TestTasks \/ Pause \/ Destroy \/ Exit \/ Handle \/ Interrupt
           \/ (\E p \in Forked : Task(p)) \/ UNCHANGED vars
  PROVE  ComboInv'
<1>1. UNCHANGED <<config, mgr, matrices, conns, draining>>
  BY DEF Fork, Insert, TestTasks, Pause, Destroy, Exit, Handle, HandleUsr1, HandleTerm,
         HandleChld, Reap, ReapNone, Waited, Interrupt, Task, Report, End, vars, startup, matrix
<1>2. (Over => Over') /\ (terminate => terminate' \/ Over')
  <2> USE DEF Over
  <2>1. CASE Fork \/ Insert \/ TestTasks \/ Pause \/ Destroy \/ Exit
    BY <2>1 DEF Fork, Insert, TestTasks, Pause, Destroy, Exit, flags
  <2>2. CASE Handle
    <3>1. CASE HandleUsr1 \/ HandleTerm \/ HandleChld
      <4>1. terminate' = terminate
        BY <3>1 DEF HandleUsr1, HandleTerm, HandleChld, flags
      <4>2. pc = "reset" => pc' = pc
        BY <3>1 DEF HandleUsr1, HandleTerm, HandleChld, Return, KillAllTasks
      <4>3. pc # "exit"
        BY <3>1 DEF HandleUsr1, HandleTerm, HandleChld, Deliver
      <4> QED
        BY <4>1, <4>2, <4>3
    <3>2. CASE ReapNone \/ Waited \/ \E p \in Forked : Reap(p)
      <4>1. terminate => terminate'
        BY <3>2 DEF Reap, ReapNone, Waited, flags
      <4>2. pc' \in {pc, "test"} /\ (pc' # pc => pc = "paused")
        BY <3>2 DEF Reap, ReapNone, Waited, Return
      <4> QED
        BY <4>1, <4>2
    <3> QED
      BY <2>2, <3>1, <3>2 DEF Handle
  <2>3. CASE Interrupt \/ (\E p \in Forked : Task(p)) \/ UNCHANGED vars
    BY <2>3 DEF Interrupt, Task, Report, End, vars, flags
  <2> QED
    BY <2>1, <2>2, <2>3
<1>3. violated => violated' \/ Over'
  BY DEF Over, Fork, Insert, TestTasks, Pause, Destroy, Exit, Handle, HandleUsr1, HandleTerm,
         HandleChld, Reap, ReapNone, Waited, Interrupt, Task, Report, End, vars, flags
<1>4. Undisturbed' => Undisturbed
  BY <1>1, <1>2, <1>3 DEF Undisturbed
<1>5. Emitted' = Emitted
  <2>1. CASE Fork
    BY <1>1, <2>1 DEF Fork, Emitted
  <2>2. CASE ~Fork
    <3>1. work' = work /\ (pc' = "fork" <=> pc = "fork")
      BY <2>2 DEF Insert, TestTasks, Pause, Destroy, Exit, Handle, HandleUsr1, HandleTerm,
         HandleChld, Reap,
             ReapNone, Waited, Return, KillAllTasks, Interrupt, Task, Report, End, vars,
             processes
    <3> QED
      BY <1>1, <3>1 DEF Emitted
  <2> QED
    BY <2>1, <2>2
<1>6. ~Fork => Len(child') = Len(child)
  <2>1. child \in Seq(States) /\ Forked = 1 .. Len(child) /\ Len(child) \in Nat
    BY ChildStates DEF TrackInv, Typed
  <2>2. CASE Waited \/ Exit
    BY <2>1, <2>2 DEF Waited, Exit, Forked
  <2>3. CASE \E p \in Forked : Reap(p)
    BY <2>1, <2>3, ExceptSeq DEF Reap, Forked, States
  <2>4. CASE \E p \in Forked : Task(p)
    BY <2>1, <2>4, ExceptSeq DEF Task, Report, End, Forked, States, Ends
  <2>5. CASE Insert \/ TestTasks \/ Pause \/ Destroy \/ HandleUsr1 \/ HandleTerm \/ HandleChld
               \/ ReapNone \/ Interrupt \/ UNCHANGED vars
    BY <2>5 DEF Insert, TestTasks, Pause, Destroy, HandleUsr1, HandleTerm, HandleChld,
           ReapNone, Interrupt, vars, processes
  <2> QED
    BY <2>2, <2>3, <2>4, <2>5 DEF Handle
<1>7. /\ draining => pc' \notin {"init", "loop", "fork", "insert"}
      /\ pc' = "return" \/ Over' => draining
      /\ Fork => ~draining
  BY DEF ComboInv, TwoLoops, Over, Fork, Insert, TestTasks, Pause, Destroy, Exit, Handle, HandleUsr1, HandleTerm,
         HandleChld, Reap, ReapNone, Waited, Return, KillAllTasks, Interrupt, Task, Report,
         End, vars
<1>8. TwoLoops'
  BY <1>1, <1>2, <1>6, <1>7 DEF ComboInv, TwoLoops, IsMain
<1>9. CASE pc = "init"
  <2>1. pc' = "init"
    BY <1>9 DEF Fork, Insert, TestTasks, Pause, Destroy, Exit, Handle, HandleUsr1, HandleTerm, HandleChld,
           Reap, ReapNone, Waited, Return, KillAllTasks, Interrupt, Task, Report, End, vars
  <2> QED
    BY <1>8, <2>1 DEF ComboInv
<1> QED
  BY <1>1, <1>4, <1>5, <1>8, <1>9, ComboKept

LEMMA ComboInit == Init => ComboInv
BY DEF Init, ComboInv, TwoLoops, Over

LEMMA ComboNext ==
  ASSUME HasConnections, TrackInv, ClassInv, ClassInv', StateInv, ComboInv, [Next]_vars
  PROVE  ComboInv'
<1>1. CASE AddInitialEc
  BY <1>1 DEF AddInitialEc, ComboInv, TwoLoops, Over
<1>2. CASE StartMain
  BY <1>2 DEF StartMain, ComboInv, TwoLoops, Over, IsMain
<1>3. CASE NextInvariant
  BY <1>3 DEF NextInvariant, ComboInv, TwoLoops, Over, IsMain, processes, flags
<1> QED
  BY <1>1, <1>2, <1>3, ComboMatrix, ComboCombination, ComboOthers DEF Next, Main
\* When all positions were given, each combination was, in one of the processes.
LEMMA CombinationOnce ==
  ASSUME TrackInv, StateInv, ClassInv, Traversing, pc = "return", Told(Positions),
         NEW c \in Combinations
  PROVE  Cardinality({p \in Forked : FlattenSeq(work[p]) = c}) = 1
<1> DEFINE n == Count
           sets == Sets
           seqs == Seqs
           hi == Sizes
           zero == [i \in 1 .. n |-> 0]
           N == Len(work)
<1>1. Emitted = work /\ Forked = 1 .. N
  BY ChildStates DEF Emitted, StateInv, Worked, TrackInv, Typed
<1>2. PICK f \in Bijection(1 .. N, Positions) : \A p \in 1 .. N : work[p] = Shown(f[p])
  BY <1>1 DEF Told
<1>3. /\ \A p \in 1 .. N : f[p] \in Positions
      /\ \A p, q \in 1 .. N : f[p] = f[q] => p = q
      /\ \A u \in Positions : \E p \in 1 .. N : f[p] = u
  BY DEF Bijection, Injection, Surjection, IsInjective
<1>4. /\ n # 0 /\ Listed(n, sets, seqs, hi) /\ n \in Nat
      /\ DOMAIN config.inv.specs = 1 .. n /\ config.inv.correlated \in BOOLEAN
  BY ConfigFacts DEF Traversing, ClassInv, Count
<1>5. c = [i \in 1 .. n |-> c[i]] /\ \A i \in 1 .. n : c[i] \in sets[i]
  <2>1. sets = [i \in DOMAIN config.inv.specs |-> ComputeConnections(mgr, config.inv.specs[i])]
    BY <1>4 DEF Sets
  <2>2. DOMAIN sets = 1 .. n
    BY DEF Sets
  <2>3. c \in [DOMAIN sets -> UNION {sets[i] : i \in DOMAIN sets}]
        /\ \A i \in DOMAIN sets : c[i] \in sets[i]
    BY <2>1 DEF Combinations
  <2> HIDE DEF sets, n
  <2> QED
    BY <2>2, <2>3
<1> HIDE DEF n, sets, seqs, hi, zero, N
<1>6. PICK v \in Vectors(n, 1, hi) :
        /\ c = Vector(seqs, n, v)
        /\ \A u \in Vectors(n, 1, hi) : Vector(seqs, n, u) = c => u = v
  BY <1>4, <1>5, CombinationVector
<1>7. v \in Positions /\ \A u \in Positions : FlattenSeq(Shown(u)) = c <=> u = v
  <2>1. CASE config.inv.correlated
    <3>1. Positions = Vectors(n, 0, hi) \ {zero} /\ \A u : Shown(u) = Singles(seqs, n, u)
      BY <2>1 DEF Positions, Shown, n, hi, seqs, zero
    <3>2. \A u : u \in Vectors(n, 1, hi) => u \in Vectors(n, 0, hi) /\ u # zero
      <4>1. 1 \in 1 .. n
        BY <1>4
      <4>2. zero[1] = 0
        BY <4>1 DEF zero
      <4>3. zero \notin Vectors(n, 1, hi)
        BY <4>1, <4>2 DEF Vectors
      <4>4. ASSUME NEW u \in Vectors(n, 1, hi)
            PROVE  u \in Vectors(n, 0, hi)
        <5>1. u \in [1 .. n -> Nat] /\ \A k \in 1 .. n : 1 <= u[k] /\ u[k] <= hi[k]
          BY DEF Vectors
        <5>2. \A k \in 1 .. n : 0 <= u[k] /\ u[k] <= hi[k]
          BY <5>1
        <5> QED
          BY <5>1, <5>2 DEF Vectors
      <4> QED
        BY <4>3, <4>4
    <3>3. Len(c) = n
      BY <1>4, <1>5
    <3>4. ASSUME NEW u \in Vectors(n, 0, hi)
          PROVE  FlattenSeq(Singles(seqs, n, u)) = c <=> u = v
      <4>1. /\ u \in Vectors(n, 1, hi) => FlattenSeq(Singles(seqs, n, u)) = Vector(seqs, n, u)
            /\ u \notin Vectors(n, 1, hi) => Len(FlattenSeq(Singles(seqs, n, u))) # n
        BY <1>4, SinglesFlatten
      <4> QED
        BY <1>6, <3>3, <4>1
    <3> QED
      BY <3>1, <3>2, <3>4
  <2>2. CASE ~config.inv.correlated
    <3>1. Positions = Vectors(n, 1, hi) /\ \A u : Shown(u) = <<Vector(seqs, n, u)>>
      BY <2>2 DEF Positions, Shown, n, hi, seqs
    <3>2. \A u : FlattenSeq(Shown(u)) = Vector(seqs, n, u)
      BY <3>1, FlattenOne
    <3> QED
      BY <1>6, <3>1, <3>2
  <2> QED
    BY <2>1, <2>2
<1>8. PICK q \in 1 .. N : f[q] = v
  BY <1>3, <1>7
<1>9. {p \in Forked : FlattenSeq(work[p]) = c} = {q}
  BY <1>1, <1>2, <1>3, <1>7, <1>8
<1> QED
  BY <1>9, FS_Singleton

\* And there are as many processes as num_conns says.
LEMMA CombinationCount ==
  ASSUME TrackInv, StateInv, Traversing, pc = "return", Told(Positions),
         ~config.inv.correlated
  PROVE  Len(child) = NumConns(matrices[1])
<1> DEFINE n == Count
           seqs == Seqs
           hi == Sizes
           x == matrices[1]
           N == Len(child)
<1>1. Emitted = work /\ Len(work) = N /\ N \in Nat
  BY ChildStates DEF Emitted, StateInv, Worked, TrackInv, Typed
<1>2. Positions = Vectors(n, 1, hi) /\ x.product = seqs
  BY DEF Positions, Traversing
<1>3. Sized(n, seqs, hi)
  BY ListedFacts DEF Traversing
<1>4. ExistsBijection(1 .. N, Vectors(n, 1, hi))
  BY <1>1, <1>2 DEF Told, ExistsBijection
<1>5. Cardinality(Vectors(n, 1, hi)) = N
  BY <1>1, <1>4, FS_CountingElements
<1>6. /\ n \in Nat /\ hi \in [1 .. n -> Nat] /\ Len(x.product) = n
      /\ \A k \in 1 .. n : Len(x.product[k]) = hi[k]
  BY <1>2, <1>3 DEF Sized, Bounds
<1> HIDE DEF n, hi, x, N
<1>7. NumConns(x) = Cardinality(Vectors(n, 1, hi))
  BY <1>6, NumConnsFacts
<1> QED
  BY <1>5, <1>7 DEF x, N

\* Where every specification has a connection: whatever signals interrupt the loop,
\* a verification that ends by itself forked a search for each combination of
\* connections, and only one, and, for uncorrelated invariants, as many as num_conns.
THEOREM EveryCombinationForkedHolds ==
  ASSUME HasConnections
  PROVE  Spec => []EveryCombinationForked
<1>1. Init => StateInv /\ ComboInv
  BY StateInit, ComboInit
<1>2. TrackInv /\ ClassInv /\ ClassInv' /\ StateInv /\ ComboInv /\ [Next]_vars
        => StateInv' /\ ComboInv'
  BY StateNext, ComboNext
<1>3. TrackInv /\ ClassInv /\ StateInv /\ ComboInv => EveryCombinationForked
  <2> SUFFICES ASSUME TrackInv, ClassInv, StateInv, ComboInv, pc = "return", Undisturbed
               PROVE  IF IsMain THEN Len(child) = config.invs ELSE
                      /\ \A c \in Combinations :
                           Cardinality({p \in Forked : FlattenSeq(work[p]) = c}) = 1
                      /\ ~config.inv.correlated => Len(child) = NumConns(matrices[1])
    BY DEF EveryCombinationForked, Undisturbed, Over
  <2>1. CASE IsMain
    BY <2>1 DEF ComboInv, TwoLoops, Undisturbed, Over
  <2>2. CASE ~IsMain
    <3>1. Traversing /\ Told(Positions)
      BY <2>2 DEF ComboInv, TwoLoops, Traversing
    <3> QED
      BY <2>2, <3>1, CombinationOnce, CombinationCount
  <2> QED
    BY <2>1, <2>2
<1> QED
  BY <1>1, <1>2, <1>3, TrackHolds, ClassHolds, PTL DEF Spec
=============================================================================
