----------------------------- MODULE Supervisor -----------------------------
(***************************************************************************)
(* A process that forks others and waits for them: the main process, which *)
(* forks one for each invariant (run), or the process that verifies an     *)
(* invariant.  They share nothing once forked, so a behaviour has one.     *)
(*                                                                         *)
(* For the process of an invariant, Plankton::init computes the            *)
(* equivalence classes of the configuration; verify_invariant refines them *)
(* for the invariant, forks a process (task) for each combination of       *)
(* concurrent connections, at most _max_jobs at a time, and sleeps in      *)
(* pause() until a signal.  Its handler runs between any two of its steps: *)
(* SIGCHLD when a task ended, SIGUSR1 when one found a violation, SIGTERM  *)
(* and the like from outside.  A task is a process that runs the search of *)
(* module Plankton; here it reports or not, and ends in some way.          *)
(*                                                                         *)
(* All handled signals are blocked while the handler runs.  A signal is    *)
(* pending at most once; SIGUSR1 is delivered before SIGCHLD, and what is  *)
(* pending when the handler returns is delivered before the program goes   *)
(* on.  An invariant process never signals the main one, and ends with     *)
(* status 0 even if a failed task made it stop.                            *)
(*                                                                         *)
(* Every exit runs ~Plankton, which kills the processes in _tasks and waits*)
(* for all children.  A search exits as well, with the _tasks it had when  *)
(* it was forked: those searches are its siblings.                         *)
(***************************************************************************)
EXTENDS ConnectionMatrix

CONSTANT Configs   \* [adds, ports, inv, all_ecs, max_jobs, invs, parallel]: what
                   \* is added to the ECs, in order, the ports of the middleboxes
                   \* and the "other" port, the invariant, _all_ecs and _max_jobs;
                   \* for the main process, the number of _invs and _parallel_invs

\* What is added to the classes: the address of an interface, which its node owns,
\* or any prefix or address.
Additions == {a \in [range : Ranges, owned : BOOLEAN] : a.owned => a.range.lb = a.range.ub}

ASSUME SupervisorAssumption ==
  \A c \in Configs : /\ c.adds \in Seq(Additions) /\ c.ports \subseteq Nat
                     /\ Len(c.inv.specs) \in Nat
                     /\ c.inv.specs = [i \in 1 .. Len(c.inv.specs) |-> c.inv.specs[i]]
                     /\ \A i \in 1 .. Len(c.inv.specs) : c.inv.specs[i].dst_ip \in Ranges
                     /\ {c.all_ecs, c.parallel, c.inv.correlated} \subseteq BOOLEAN
                     /\ c.max_jobs \in Nat \ {0}
                     /\ c.invs \in Nat
                     /\ c.invs > 0 => c.inv.specs = <<>>

VARIABLES
  config,
  mgr,         \* the EqClassMgr
  toAdd,       \* how many of config.adds were added
  matrices, conns,       \* the connection matrices, _conns
  pc,          \* control of the process
  draining,    \* it is in the second loop: every combination was forked
  handler,     \* control of the signal handler
  pending,     \* signals that are pending
  sender,      \* si_pid of the pending SIGUSR1
  tasks,       \* _tasks
  violated, terminate,   \* _violated, _terminate
  child,       \* the state of each process forked so far: "running",
               \* "reported" once it sent SIGUSR1, how it ended, or "gone"
  work,        \* the connections each of them verifies
  inherited,   \* the _tasks each of them had when it was forked
  reports, failures,     \* auxiliary: whether a task reported or failed
  killed,      \* auxiliary: searches that another one killed
  raced        \* auxiliary: where a signal came too early or too late

startup == <<mgr, toAdd>>
matrix == <<matrices, conns>>
flags == <<violated, terminate>>
processes == <<child, work, inherited, reports, failures, killed>>
signals == <<pending, sender>>
vars == <<config, startup, matrix, pc, draining, handler, signals, tasks, flags,
          processes, raced>>

IsMain == config.invs > 0

Forked == DOMAIN child
Alive == {p \in Forked : child[p] \in {"running", "reported"}}

\* A process ends with status 0, with another one, or by a signal: an uncaught
\* exception (Logger::error) and a failed assertion abort it.
Ends == {"exit", "failure", "abort"}
Zombies == {p \in Forked : child[p] \in Ends}
Signals == {"CHLD", "USR1", "TERM"}

TypeOK ==
  /\ config \in Configs
  /\ mgr.all_ecs \in Nat
  /\ mgr.owned_ecs \subseteq 1 .. mgr.all_ecs
  /\ \A r \in mgr.allranges :
       [lb |-> r.lb, ub |-> r.ub] \in Ranges /\ r.ec \in 1 .. mgr.all_ecs
  /\ toAdd \in 0 .. Len(config.adds)
  /\ \A i \in DOMAIN matrices : \A k \in DOMAIN matrices[i].itrs :
       matrices[i].itrs[k] \in DOMAIN matrices[i].product[k]
  /\ pc \in {"init", "loop", "fork", "insert", "test", "enter", "paused",
             "return", "reset", "exit"}
  /\ draining \in BOOLEAN
  /\ handler \in {"none", "reap", "wait", "wait_terminate", "again"}
  /\ pending \subseteq Signals
  /\ sender \in 0 .. Len(child)
  /\ tasks \subseteq Forked
  /\ {violated, terminate, reports, failures} \subseteq BOOLEAN
  /\ \A p \in Forked : child[p] \in {"running", "reported", "gone"} \union Ends
  /\ DOMAIN work = Forked /\ DOMAIN inherited = Forked
  /\ killed \subseteq Forked
  /\ raced \subseteq {"insert", "enter"}

-----------------------------------------------------------------------------
(* Start: compute_initial_ecs, then compute_conn_matrix                    *)

\* One address or prefix of the configuration: the add_ec calls of
\* compute_initial_ecs.
AddInitialEc ==
  /\ pc = "init" /\ toAdd < Len(config.adds)
  /\ LET a == config.adds[toAdd + 1] IN mgr' = AddEc(mgr, a.range, a.owned)
  /\ toAdd' = toAdd + 1
  /\ UNCHANGED <<config, matrix, pc, draining, handler, signals, tasks, flags,
                 processes, raced>>

\* The ports are added last; then verify_invariant computes the matrix.  A
\* configuration may have no invariant: there is nothing to fork then.
ComputeConnMatrix ==
  /\ pc = "init" /\ toAdd = Len(config.adds)
  /\ config.inv.specs # <<>>
  /\ mgr' = EcsOf([mgr EXCEPT !.ports = config.ports], config.inv)
  /\ matrices' = MatricesOf(mgr', config.inv)
  /\ conns' = [i \in DOMAIN matrices' |-> <<>>]
  /\ pc' = "loop"
  /\ UNCHANGED <<config, toAdd, draining, handler, signals, tasks, flags,
                 processes, raced>>

-----------------------------------------------------------------------------
(* verify_invariant and run.  They only run while the handler does not.    *)

StartMain ==
  /\ pc = "init" /\ IsMain
  /\ pc' = "loop"
  /\ UNCHANGED <<config, startup, matrix, draining, handler, signals, tasks, flags,
                 processes, raced>>

\* The loop of run: _terminate is only tested after a process was forked.
NextInvariant ==
  /\ pc = "loop" /\ handler = "none" /\ IsMain
  /\ draining' = (Len(child) = config.invs \/ (terminate /\ child # <<>>))
  /\ pc' = IF draining' THEN "test" ELSE "fork"
  /\ UNCHANGED <<config, startup, matrix, handler, signals, tasks, flags, processes,
                 raced>>

\* The condition of the fork loop, whose last conjunct sets the connections.
NextCombination ==
  /\ pc = "loop" /\ handler = "none" /\ ~IsMain
  /\ LET going == (~violated \/ config.all_ecs) /\ ~terminate
         next == SetConns(config.inv.correlated, matrices, conns)
     IN IF ~going THEN /\ pc' = "test" /\ draining' = TRUE
                       /\ UNCHANGED matrix
        ELSE /\ matrices' = next.matrices /\ conns' = next.conns
             /\ pc' = IF next.found THEN "fork" ELSE "test"
             /\ draining' = ~next.found
  /\ UNCHANGED <<config, startup, handler, signals, tasks, flags, processes, raced>>

\* The process of an invariant clears the _tasks it inherited.
Fork ==
  /\ pc = "fork" /\ handler = "none"
  /\ child' = Append(child, "running")
  /\ work' = Append(work, conns)
  /\ inherited' = Append(inherited, IF IsMain THEN {} ELSE tasks)
  /\ pc' = "insert"
  /\ UNCHANGED <<config, startup, matrix, draining, handler, signals, tasks, flags,
                 reports, failures, killed, raced>>

Insert ==
  /\ pc = "insert" /\ handler = "none"
  /\ tasks' = tasks \union {Len(child)}
  /\ pc' = "test"
  /\ UNCHANGED <<config, startup, matrix, draining, handler, signals, flags,
                 processes, raced>>

\* Mutant: one more task than allowed.
MustWaitOneMore(t, term) ==
  /\ ~term
  /\ IF draining \/ (IsMain /\ ~config.parallel) THEN t # {}
     ELSE Cardinality(t) > config.max_jobs

\* The conditions of the two loops around pause().
MustWait(t, term) ==
  /\ ~term
  /\ IF draining \/ (IsMain /\ ~config.parallel) THEN t # {}
     ELSE Cardinality(t) >= config.max_jobs

TestTasks ==
  /\ pc = "test" /\ handler = "none"
  /\ pc' = IF MustWait(tasks, terminate) THEN "enter"
           ELSE IF draining THEN "return" ELSE "loop"
  /\ UNCHANGED <<config, startup, matrix, draining, handler, signals, tasks, flags,
                 processes, raced>>

\* The call of pause(), which nothing but a signal ends.
Pause ==
  /\ pc = "enter" /\ handler = "none"
  /\ pc' = "paused"
  /\ UNCHANGED <<config, startup, matrix, draining, handler, signals, tasks, flags,
                 processes, raced>>

\* exit: ~Plankton resets the flags and sends SIGKILL to the tasks.  Signals are
\* still handled.
Destroy ==
  /\ pc = "return" /\ handler = "none"
  /\ violated' = FALSE /\ terminate' = FALSE
  /\ pc' = "reset"
  /\ UNCHANGED <<config, startup, matrix, draining, handler, signals, tasks,
                 processes, raced>>

\* Then it waits until no child is left.
Exit ==
  /\ pc = "reset" /\ handler = "none"
  /\ Alive = {}
  /\ child' = [p \in Forked |-> "gone"]
  /\ tasks' = {}
  /\ pc' = "exit"
  /\ UNCHANGED <<config, startup, matrix, draining, handler, signals, flags, work,
                 inherited, reports, failures, killed, raced>>

-----------------------------------------------------------------------------
(* inv_sig_handler and kill_all_tasks                                      *)

\* The handler returns: a pending signal is delivered at once, and pause()
\* returns if the process was in it.
Return(signalsLeft) ==
  /\ handler' = IF signalsLeft = {} THEN "none" ELSE "again"
  /\ pc' = IF pc = "paused" THEN "test" ELSE pc

\* Where the program was if what the handler does comes at the wrong time:
\* between the test and pause(), or between fork() and insert.
RacedWith(t, term, reaped) ==
  raced \union {where \in {"enter", "insert"} :
    \/ where = "enter" /\ pc = "enter" /\ ~MustWait(t, term)
    \/ where = "insert" /\ pc = "insert" /\ Len(child) \in reaped}

\* kill_all_tasks sends a signal to the tasks and waits for all children.  A
\* task ends at any time anyway, so the signals need no state.
KillAllTasks(t, then) ==
  /\ tasks' = t
  /\ handler' = then
  /\ pc' = pc

Deliver(sig) ==
  /\ handler \in {"none", "again"}
  /\ sig \in pending
  /\ sig = "CHLD" => "USR1" \notin pending
  /\ pc # "exit"
  /\ pending' = pending \ {sig}

\* _all_ecs, which ~Plankton resets.
AllEcs == config.all_ecs /\ pc # "reset"

\* Mutant: the violation is not recorded if it does not stop the tasks.
HandleUsr1AllEcs ==
  /\ Deliver("USR1")
  /\ IF AllEcs THEN Return(pending') /\ UNCHANGED <<tasks, violated>>
     ELSE KillAllTasks(tasks \ {sender}, "wait") /\ violated' = TRUE
  /\ sender' = 0
  /\ UNCHANGED <<config, startup, matrix, draining, terminate, processes, raced>>

\* SIGUSR1: a task found a violation.
HandleUsr1 ==
  /\ Deliver("USR1")
  /\ violated' = TRUE
  /\ IF AllEcs THEN Return(pending') /\ tasks' = tasks
     ELSE KillAllTasks(tasks \ {sender}, "wait")
  /\ sender' = 0
  /\ UNCHANGED <<config, startup, matrix, draining, terminate, processes, raced>>

\* SIGHUP, SIGINT, SIGQUIT, SIGTERM
HandleTerm ==
  /\ Deliver("TERM")
  /\ KillAllTasks(tasks, "wait_terminate")
  /\ UNCHANGED <<config, startup, matrix, draining, sender, flags, processes, raced>>

HandleChld ==
  /\ Deliver("CHLD")
  /\ handler' = "reap"
  /\ UNCHANGED <<config, startup, matrix, pc, draining, sender, tasks, flags,
                 processes, raced>>

\* Mutant: a failed task is reaped like any other.
ReapAnyStatus(p) ==
  /\ handler = "reap" /\ p \in Zombies
  /\ child' = [child EXCEPT ![p] = "gone"]
  /\ tasks' = tasks \ {p}
  /\ raced' = RacedWith(tasks', terminate, {p})
  /\ UNCHANGED <<config, startup, matrix, pc, draining, handler, signals, flags,
                 work,
                 inherited, reports, failures, killed>>

\* Mutant: one waitpid for each signal.
ReapOne(p) ==
  /\ handler = "reap" /\ p \in Zombies
  /\ child' = [child EXCEPT ![p] = "gone"]
  /\ tasks' = tasks \ {p}
  /\ raced' = RacedWith(tasks', terminate, {p})
  /\ IF child[p] = "failure" THEN KillAllTasks(tasks \ {p}, "wait_terminate")
                             ELSE Return(pending)
  /\ UNCHANGED <<config, startup, matrix, draining, signals, flags,
                 work,
                 inherited, reports, failures, killed>>

\* waitpid(-1, &status, WNOHANG) returned p.
Reap(p) ==
  /\ handler = "reap" /\ p \in Zombies
  /\ child' = [child EXCEPT ![p] = "gone"]
  /\ tasks' = tasks \ {p}
  /\ handler' = IF child[p] = "failure" THEN "wait_terminate" ELSE "reap"
  /\ raced' = RacedWith(tasks', terminate, {p})
  /\ UNCHANGED <<config, startup, matrix, pc, draining, signals, flags,
                 work,
                 inherited, reports, failures, killed>>

\* It returned 0 or -1.
ReapNone ==
  /\ handler = "reap" /\ Zombies = {}
  /\ Return(pending)
  /\ UNCHANGED <<config, startup, matrix, draining, signals, tasks, flags,
                 processes, raced>>

\* Mutant: only the tasks are waited for.
WaitedTasks ==
  /\ handler \in {"wait", "wait_terminate"}
  /\ Alive \cap tasks = {}
  /\ child' = [p \in Forked |-> IF p \in Zombies THEN "gone" ELSE child[p]]
  /\ tasks' = {}
  /\ terminate' = (terminate \/ handler = "wait_terminate")
  /\ raced' = RacedWith({}, terminate', Forked)
  /\ Return(pending)
  /\ UNCHANGED <<config, startup, matrix, draining, signals, violated, work,
                 inherited, reports, failures, killed>>

\* wait(nullptr) fails with ECHILD: every child ended and was reaped.
Waited ==
  /\ handler \in {"wait", "wait_terminate"}
  /\ Alive = {}
  /\ child' = [p \in Forked |-> "gone"]
  /\ tasks' = {}
  /\ terminate' = (terminate \/ handler = "wait_terminate")
  /\ raced' = RacedWith({}, terminate', Forked)
  /\ Return(pending)
  /\ UNCHANGED <<config, startup, matrix, draining, signals, violated, work,
                 inherited, reports, failures, killed>>

-----------------------------------------------------------------------------
(* The tasks and the rest of the system                                    *)

Signal(sig) == pending' = IF pc = "exit" THEN pending ELSE pending \union {sig}

\* Invariant::report.  If a SIGUSR1 is pending this one is dropped.
Report(p) ==
  /\ child[p] = "running" /\ ~IsMain
  /\ child' = [child EXCEPT ![p] = "reported"]
  /\ reports' = TRUE
  /\ Signal("USR1")
  /\ sender' = IF "USR1" \in pending \/ pc = "exit" THEN sender ELSE p
  /\ UNCHANGED <<config, startup, matrix, pc, draining, handler, tasks, flags, work,
                 inherited, failures, killed, raced>>

\* A search that exits kills those in the _tasks it inherited; an abort runs no
\* destructor.  A killed search ends by "abort", which is taken for a normal end,
\* unless it reports or exits before the signal reaches it.
End(p, how) ==
  /\ p \in Alive /\ (IsMain => how # "failure")
  /\ child' = [child EXCEPT ![p] = how]
  /\ failures' = (failures \/ how = "failure")
  /\ killed' = IF how = "abort" THEN killed
               ELSE killed \union (inherited[p] \cap (Alive \ {p}))
  /\ Signal("CHLD")
  /\ UNCHANGED <<config, startup, matrix, pc, draining, handler, sender, tasks, flags,
                 work, inherited, reports, raced>>

\* The user, or the main process, terminates the verification (bound: until the
\* signal is handled).
Interrupt ==
  /\ pc \notin {"init", "exit"} /\ ~terminate /\ handler # "wait_terminate"
  /\ "TERM" \notin pending
  /\ Signal("TERM")
  /\ UNCHANGED <<config, startup, matrix, pc, draining, handler, sender, tasks, flags,
                 processes, raced>>

-----------------------------------------------------------------------------
Init ==
  /\ config \in Configs
  /\ mgr = NoEcs /\ toAdd = 0
  /\ matrices = <<>> /\ conns = <<>>
  /\ pc = "init" /\ draining = FALSE
  /\ handler = "none" /\ pending = {} /\ sender = 0
  /\ tasks = {} /\ violated = FALSE /\ terminate = FALSE
  /\ child = <<>> /\ work = <<>> /\ inherited = <<>>
  /\ reports = FALSE /\ failures = FALSE /\ killed = {} /\ raced = {}

Main == AddInitialEc \/ ComputeConnMatrix \/ NextCombination
          \/ StartMain \/ NextInvariant \/ Fork \/ Insert \/ TestTasks \/ Pause
          \/ Destroy \/ Exit

Handle == HandleUsr1 \/ HandleTerm \/ HandleChld \/ (\E p \in Forked : Reap(p))
            \/ ReapNone \/ Waited

Task(p) == Report(p) \/ \E how \in Ends : End(p, how)

Next == Main \/ Handle \/ Interrupt \/ \E p \in Forked : Task(p)

\* The process and its handler run when they can, and a search ends: SPIN's
\* state space is finite, and SIGTERM ends it earlier.
Spec == Init /\ [][Next]_vars /\ WF_vars(Main) /\ WF_vars(Handle)
          /\ WF_vars(\E p \in Forked, how \in Ends : End(p, how))

-----------------------------------------------------------------------------
AddressesOf(ec) == UNION {r.lb .. r.ub : r \in RangesOf(mgr, ec)}
IndexedEcs == {r.ec : r \in mgr.allranges}

AddedRanges == {config.adds[i].range : i \in 1 .. toAdd}
                 \union (IF pc = "init" THEN {}
                         ELSE {config.inv.specs[i].dst_ip : i \in DOMAIN config.inv.specs})
Covering(a) == {r \in AddedRanges : a \in r.lb .. r.ub}

\* The classes are the coarsest partition of the addresses that some added range
\* covers into sets on which all added ranges agree: whatever order they are
\* added in, add_ec neither loses, duplicates nor needlessly separates any.
CoarsestEcs == child = <<>> =>
  /\ \A r, s \in mgr.allranges : r # s => ~Overlaps(r, s)
  /\ {AddressesOf(ec) : ec \in IndexedEcs} =
       {{b \in Addresses : Covering(b) = Covering(a)} :
          a \in {a \in Addresses : Covering(a) # {}}}

\* The owned classes, the only destinations of specifications with
\* owned_dst_only, are those of the interfaces' addresses, each alone in its
\* class however prefixes around it were added.
OwnedEcsAreAddresses ==
  LET added == {config.adds[i] : i \in 1 .. toAdd}
  IN child = <<>> =>
     {AddressesOf(ec) : ec \in mgr.owned_ecs \cap IndexedEcs} =
       {{a.range.lb} : a \in {b \in added : b.owned}}

\* The combinations of connections of the invariant.
Combinations ==
  LET sets == [i \in DOMAIN config.inv.specs |->
                 ComputeConnections(mgr, config.inv.specs[i])]
  IN {c \in [DOMAIN sets -> UNION {sets[i] : i \in DOMAIN sets}] :
        \A i \in DOMAIN sets : c[i] \in sets[i]}

\* A verification that ends by itself forked one search for each combination of
\* connections, and, unless invariants are correlated, no other; the main process
\* forked one process for each invariant, however those before ended.
EveryCombinationForked ==
  pc = "return" /\ ~terminate /\ (violated => config.all_ecs) =>
    IF IsMain THEN Len(child) = config.invs ELSE
    /\ \A c \in Combinations :
         Cardinality({p \in Forked : FlattenSeq(work[p]) = c}) = 1
    /\ ~config.inv.correlated => Len(child) = NumConns(matrices[1])

\* Where searches run one at a time, none is killed by the exit of another, so a
\* combination is left without a verdict only if its own search failed.  (With
\* more jobs, a search that exits kills the older ones it was forked beside.)
NoneKilledByAnother == IsMain \/ config.max_jobs = 1 => killed = {}

\* "each sub-invariant is executed sequentially", with a single connection: in
\* every task set_conns has given each of them one (assert(_conns.size() == 1)).
CorrelatedHaveConns ==
  config.inv.correlated =>
    \A p \in Forked : \A i \in DOMAIN work[p] : Len(work[p][i]) = 1

\* At most _max_jobs searches run at the same time, and invariants one after the
\* other unless they may run in parallel, whenever signals arrive.
JobsBounded ==
  Cardinality(Alive) <= IF IsMain /\ ~config.parallel THEN 1 ELSE config.max_jobs

\* The SIGKILL of the exit cuts nothing short: a verification that was not
\* terminated leaves its loops with every process it forked ended and reaped,
\* although pids are inserted late and the reporter is taken out of _tasks early.
NothingLeftToKill == pc = "return" /\ ~terminate => Alive = {} /\ Zombies = {}

\* A violation a task reported is known when the verification ends by itself,
\* although SIGUSR1 may be dropped and the task reaped before it is handled.
ViolationNoticed == pc = "return" /\ ~terminate => (reports => violated)

\* A task that ends with a nonzero status halts the verification, unless it was
\* being stopped anyway because of a violation.
FailureHalts ==
  pc = "return" /\ failures => terminate \/ (violated /\ ~config.all_ecs)

\* The verification ends unless a signal fell between the test of _tasks and
\* pause(), or between fork() and the insertion of the pid, where it is lost.
EndsUnlessRaced ==
  IsMain \/ config.inv.specs # <<>> ~> (pc = "exit" \/ raced # {})
=============================================================================
