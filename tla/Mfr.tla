-------------------------------- MODULE Mfr ---------------------------------
(***************************************************************************)
(* The master process of kopano-mfr and its workers                        *)
(* (grapi/mfr/__init__.py): Server.serve starts the workers, sleeps until a*)
(* signal, tells the workers to exit through the shared exit queue, kills  *)
(* the ones that do not, and removes the sockets. In a worker, Runner.run  *)
(* waits on the queue while a daemon thread serves requests.               *)
(*                                                                         *)
(* A Python signal handler runs between two steps of the master, and not   *)
(* while it is in the pause system call; a signal that comes in pause ends *)
(* it. A worker that exits after SIGCHLD is ignored leaves no exit status, *)
(* and Process.is_alive keeps saying that it is alive.                     *)
(*                                                                         *)
(* The exit queue is a multiprocessing.JoinableQueue, whose condition is a *)
(* lock and a count of sleepers in shared memory. The last task_done wakes *)
(* every sleeper of join and, with the lock held, waits without a timeout  *)
(* until all of them have woken, the ones that cannot any more included.   *)
(* The lock of a process that ends is not released.                        *)
(***************************************************************************)
EXTENDS Naturals, FiniteSets

CONSTANTS
    Workers,       \* the rest, notify and metrics processes
    Metrics,       \* the metrics process, which has no unix socket
    MayHang,       \* external: those that a native call may block for ever
    None           \* no worker

ASSUME WorkersAssumption == IsFiniteSet(Workers) /\ None \notin Workers
ASSUME MetricsAssumption == Metrics \subseteq Workers
ASSUME MayHangAssumption == MayHang \subseteq Workers

VARIABLES
    pc,                  \* where Server.serve is
    running,             \* Server.running
    abnormal_shutdown,   \* Server.abnormal_shutdown
    handlers,            \* signals for which the master has a handler
    pending,             \* signals whose Python handler has not run yet
    kill,                \* the local kill: not all workers were done in time
    left,                \* workers the last loop has still to kill and join
    joining,             \* the worker it is waiting for
    worker,              \* worker -> its process
    thread,              \* worker -> its serving thread
    hung,                \* workers that run no Python code any more
    unreported,          \* exited workers that left no exit status
    unfinished,          \* tasks of the exit queue that are not done
    cond,                \* the worker that holds the queue's lock
    sleeping,            \* workers counted as asleep in queue.join
    sockets              \* workers whose unix socket is in the file system

masterVars == <<pc, running, abnormal_shutdown, handlers, kill, left, joining>>
workerVars == <<worker, thread, hung, unreported, sockets>>
queueVars == <<unfinished, cond, sleeping>>
vars == <<masterVars, pending, workerVars, queueVars>>

Signals == {"SIGCHLD", "SIGTERM"}
InLoop == {"check", "checked", "pause"}
Ends == {"done", "aborted", "killed"}
Exited == {w \in Workers : worker[w] = "exited"}
Alive == {w \in Workers : worker[w] \in {"running", "asleep", "woken"}}
Broken == {w \in Workers : thread[w] # "serves"}
Ignoring == pc \in {"flush", "notify", "wait", "kill", "join"} \cup Ends

\* Nobody holds the queue's lock; the master holds it while it notifies.
Free == cond = None /\ pc # "notify"

Init ==
    /\ pc = "start"
    /\ running = TRUE
    /\ abnormal_shutdown = FALSE
    /\ handlers = {}
    /\ pending = {}
    /\ kill = FALSE
    /\ left = {}
    /\ joining = None
    /\ worker = [w \in Workers |-> "new"]
    /\ thread = [w \in Workers |-> "serves"]
    /\ hung = {}
    /\ unreported = {}
    /\ unfinished = 1
    /\ cond = None
    /\ sleeping = {}
    /\ sockets = {}

-----------------------------------------------------------------------------
(* Server.serve                                                            *)

GoTo(l) == pc' = l

Start(w) ==
    /\ pc = "start"
    /\ worker[w] = "new"
    /\ worker' = [worker EXCEPT ![w] = "running"]
    /\ UNCHANGED <<masterVars, pending, thread, hung, unreported, sockets,
                   queueVars>>

\* The metrics configuration is found right, or running is set to False.
Started ==
    /\ pc = "start"
    /\ \A w \in Workers : worker[w] # "new"
    /\ GoTo("chld")
    /\ running' \in BOOLEAN
    /\ UNCHANGED <<abnormal_shutdown, handlers, kill, left, joining, pending,
                   workerVars, queueVars>>

InstallSigchld ==
    /\ pc = "chld"
    /\ handlers' = handlers \cup {"SIGCHLD"}
    /\ GoTo("term")
    /\ UNCHANGED <<running, abnormal_shutdown, kill, left, joining, pending,
                   workerVars, queueVars>>

InstallSigterm ==
    /\ pc = "term"
    /\ handlers' = handlers \cup {"SIGTERM"}
    /\ GoTo("check")
    /\ UNCHANGED <<running, abnormal_shutdown, kill, left, joining, pending,
                   workerVars, queueVars>>

\* while self.running: handlers whose signal has come run before.
Check ==
    /\ pc = "check"
    /\ pending = {}
    /\ GoTo(IF running THEN "checked" ELSE "shutdown")
    /\ UNCHANGED <<running, abnormal_shutdown, handlers, kill, left, joining,
                   pending, workerVars, queueVars>>

\* The call of signal.pause.
Pause ==
    /\ pc = "checked"
    /\ GoTo("pause")
    /\ UNCHANGED <<running, abnormal_shutdown, handlers, kill, left, joining,
                   pending, workerVars, queueVars>>

\* A SIGINT raises KeyboardInterrupt, which only the loop catches: anywhere
\* else it leaves serve, and with it the lock of the queue.
Interrupt ==
    /\ pc \notin Ends
    /\ IF pc \in InLoop THEN running' = FALSE /\ GoTo("shutdown")
       ELSE UNCHANGED running /\ GoTo("aborted")
    /\ UNCHANGED <<abnormal_shutdown, handlers, kill, left, joining, pending,
                   workerVars, queueVars>>

\* From here on SIGCHLD is ignored; an abnormal shutdown does not tell the
\* workers to exit.
Shutdown ==
    /\ pc = "shutdown"
    /\ GoTo(IF abnormal_shutdown THEN "wait" ELSE "flush")
    /\ handlers' = handlers \ {"SIGCHLD"}
    /\ pending' = pending \ {"SIGCHLD"}
    /\ UNCHANGED <<running, abnormal_shutdown, kill, left, joining,
                   workerVars, queueVars>>

TaskDoneSlip == unfinished

TaskDoneUncheckedSlip == unfinished + 1

\* What task_done leaves to do, a ValueError when all tasks are done.
TaskDone == IF unfinished > 0 THEN unfinished - 1 ELSE unfinished

FlushSlip ==
    /\ pc = "flush"
    /\ GoTo("wait")
    /\ UNCHANGED <<running, abnormal_shutdown, handlers, kill, left, joining,
                   pending, workerVars, queueVars>>

\* queue.get() and queue.task_done(), whose ValueError is ignored.
Flush ==
    /\ pc = "flush"
    /\ Free
    /\ unfinished' = TaskDone
    /\ GoTo(IF unfinished > 0 THEN "notify" ELSE "wait")
    /\ UNCHANGED <<running, abnormal_shutdown, handlers, kill, left, joining,
                   pending, workerVars, cond, sleeping>>

\* Every sleeper has woken, and task_done returns.
Flushed ==
    /\ pc = "notify"
    /\ sleeping = {}
    /\ GoTo("wait")
    /\ UNCHANGED <<running, abnormal_shutdown, handlers, kill, left, joining,
                   pending, workerVars, queueVars>>

\* All sentinels are ready, or the deadline passes first.
Wait ==
    /\ pc = "wait"
    /\ \/ Exited = Workers /\ kill' = FALSE
       \/ kill' = TRUE
    /\ left' = Workers
    /\ GoTo("kill")
    /\ UNCHANGED <<running, abnormal_shutdown, handlers, joining, pending,
                   workerVars, queueVars>>

\* worker.is_alive(): waitpid has nothing to say of an unreported worker.
IsAlive(w) == w \notin Exited \/ w \in unreported

\* A process that is stopped in a section of queue.join or task_done that holds
\* the lock keeps it; the last task_done is stopped with it in any case.
StopsWithLock(w) ==
    \/ cond' = cond
    \/ /\ Free
       /\ worker[w] \in {"running", "woken"} \/ thread[w] = "fails"
       /\ cond' = w

KillSlip(w) ==
    /\ pc = "kill"
    /\ w \in left
    /\ joining' = w
    /\ GoTo("join")
    /\ UNCHANGED <<running, abnormal_shutdown, handlers, kill, left, pending,
                   workerVars, queueVars>>

\* An abnormal shutdown sends SIGKILL, a ProcessLookupError when there is no
\* such process. A normal one sends SIGTERM, which every worker ignores.
Kill(w) ==
    /\ pc = "kill"
    /\ w \in left
    /\ IF kill /\ IsAlive(w) /\ abnormal_shutdown
       THEN IF w \in Exited
            THEN /\ GoTo("aborted")
                 /\ UNCHANGED <<joining, worker, unreported, cond>>
            ELSE /\ worker' = [worker EXCEPT ![w] = "exited"]
                 /\ unreported' = unreported \cup {w}
                 /\ StopsWithLock(w)
                 /\ joining' = w
                 /\ GoTo("join")
       ELSE /\ joining' = w
            /\ GoTo("join")
            /\ UNCHANGED <<worker, unreported, cond>>
    /\ UNCHANGED <<running, abnormal_shutdown, handlers, kill, left, pending,
                   thread, hung, unfinished, sleeping, sockets>>

JoinSlip ==
    /\ pc = "join"
    /\ left' = left \ {joining}
    /\ joining' = None
    /\ GoTo("kill")
    /\ UNCHANGED <<running, abnormal_shutdown, handlers, kill, pending,
                   workerVars, queueVars>>

\* worker.join()
Join ==
    /\ pc = "join"
    /\ joining \in Exited
    /\ left' = left \ {joining}
    /\ joining' = None
    /\ GoTo("kill")
    /\ UNCHANGED <<running, abnormal_shutdown, handlers, kill, pending,
                   workerVars, queueVars>>

\* os.unlink of every socket, then 'shutdown complete'.
Unlink ==
    /\ pc = "kill"
    /\ left = {}
    /\ sockets' = {}
    /\ GoTo("done")
    /\ UNCHANGED <<running, abnormal_shutdown, handlers, kill, left, joining,
                   pending, worker, thread, hung, unreported, queueVars>>

-----------------------------------------------------------------------------
(* Signals of the master                                                   *)

\* A signal that has a handler is noted, and ends pause.
Notify(sig) ==
    /\ pending' = IF sig \in handlers THEN pending \cup {sig} ELSE pending
    /\ GoTo(IF pc = "pause" /\ sig \in handlers THEN "check" ELSE pc)

\* Without a handler SIGTERM ends the master.
Sigterm ==
    /\ pc \notin Ends
    /\ "SIGTERM" \notin pending
    /\ IF "SIGTERM" \in handlers THEN Notify("SIGTERM")
       ELSE GoTo("killed") /\ UNCHANGED pending
    /\ UNCHANGED <<running, abnormal_shutdown, handlers, kill, left, joining,
                   workerVars, queueVars>>

HandleSigterm ==
    /\ "SIGTERM" \in pending
    /\ pc \notin {"pause"} \cup Ends
    /\ pending' = pending \ {"SIGTERM"}
    /\ running' = FALSE
    /\ UNCHANGED <<pc, abnormal_shutdown, handlers, kill, left, joining,
                   workerVars, queueVars>>

HandleSigchldSlip ==
    /\ "SIGCHLD" \in pending
    /\ pc \notin {"pause"} \cup Ends
    /\ pending' = pending \ {"SIGCHLD"}
    /\ running' = FALSE
    /\ abnormal_shutdown' = TRUE
    /\ UNCHANGED <<pc, handlers, kill, left, joining, workerVars, queueVars>>

HandleSigchld ==
    /\ "SIGCHLD" \in pending
    /\ pc \notin {"pause"} \cup Ends
    /\ pending' = pending \ {"SIGCHLD"}
    /\ running' = FALSE
    /\ abnormal_shutdown' = (abnormal_shutdown \/ running)
    /\ UNCHANGED <<pc, handlers, kill, left, joining, workerVars, queueVars>>

-----------------------------------------------------------------------------
(* Runner, in a worker                                                     *)

\* create_socket_and_listen; then bjoern.server_run blocks.
Bind(w) ==
    /\ w \in Alive \ (hung \cup sockets \cup Metrics)
    /\ thread[w] = "serves"
    /\ sockets' = sockets \cup {w}
    /\ UNCHANGED <<masterVars, pending, worker, thread, hung, unreported,
                   queueVars>>

\* The main thread comes to queue.join() before the task is done, and sleeps.
JoinQueue(w) ==
    /\ worker[w] = "running"
    /\ w \notin hung
    /\ Free
    /\ unfinished > 0
    /\ worker' = [worker EXCEPT ![w] = "asleep"]
    /\ sleeping' = sleeping \cup {w}
    /\ UNCHANGED <<masterVars, pending, thread, hung, unreported, sockets,
                   unfinished, cond>>

\* The serving thread ends with an exception.
Break(w) ==
    /\ w \in Alive \ hung
    /\ thread[w] = "serves"
    /\ thread' = [thread EXCEPT ![w] = "fails"]
    /\ UNCHANGED <<masterVars, pending, worker, hung, unreported, sockets,
                   queueVars>>

\* queue.task_done() in the thread that failed. The last one notifies.
ThreadDone(w) ==
    /\ w \in Alive \ hung
    /\ thread[w] = "fails"
    /\ Free
    /\ unfinished' = TaskDone
    /\ IF unfinished > 0
       THEN thread' = [thread EXCEPT ![w] = "notifies"] /\ cond' = w
       ELSE thread' = [thread EXCEPT ![w] = "over"] /\ UNCHANGED cond
    /\ UNCHANGED <<masterVars, pending, worker, hung, unreported, sockets,
                   sleeping>>

\* Every sleeper has woken, and task_done returns.
ThreadNotified(w) ==
    /\ w \in Alive \ hung
    /\ thread[w] = "notifies"
    /\ sleeping = {}
    /\ thread' = [thread EXCEPT ![w] = "over"]
    /\ cond' = None
    /\ UNCHANGED <<masterVars, pending, worker, hung, unreported, sockets,
                   unfinished, sleeping>>

\* A sleeper wakes and says so; it still has to take the lock again.
Wake(w) ==
    /\ worker[w] = "asleep"
    /\ w \notin hung
    /\ unfinished = 0
    /\ worker' = [worker EXCEPT ![w] = "woken"]
    /\ sleeping' = sleeping \ {w}
    /\ UNCHANGED <<masterVars, pending, thread, hung, unreported, sockets,
                   unfinished, cond>>

\* A native call that does not return blocks all threads of the worker.
Hang(w) ==
    /\ w \in MayHang \cap Alive
    /\ w \notin hung
    /\ hung' = hung \cup {w}
    /\ StopsWithLock(w)
    /\ UNCHANGED <<masterVars, pending, worker, thread, unreported, sockets,
                   unfinished, sleeping>>

\* The process ends; the kernel tells the master, or forgets it.
Ended(w) ==
    /\ worker' = [worker EXCEPT ![w] = "exited"]
    /\ unreported' = IF Ignoring THEN unreported \cup {w} ELSE unreported
    /\ Notify("SIGCHLD")
    /\ UNCHANGED <<running, abnormal_shutdown, handlers, kill, left, joining,
                   thread, hung, sockets, unfinished, sleeping>>

\* queue.join() returns, self.stop(), and the process exits, wherever its
\* serving thread is.
Exit(w) ==
    /\ worker[w] \in {"running", "woken"}
    /\ w \notin hung
    /\ unfinished = 0
    /\ Free
    /\ cond' = None \/ (thread[w] = "fails" /\ cond' = w)
    /\ Ended(w)

\* The process is killed from outside or crashes.
Die(w) ==
    /\ w \in Alive
    /\ StopsWithLock(w)
    /\ Ended(w)

-----------------------------------------------------------------------------
Master ==
    \/ (\E w \in Workers : Start(w) \/ Kill(w))
    \/ Started \/ InstallSigchld \/ InstallSigterm \/ Check \/ Pause
    \/ Shutdown \/ Flush \/ Flushed \/ Wait \/ Join \/ Unlink

Handle == HandleSigterm \/ HandleSigchld

Environment ==
    \/ Sigterm \/ Interrupt
    \/ \E w \in Workers : Break(w) \/ Hang(w) \/ Die(w)

\* What the threads of a worker do by themselves.
Runs(w) ==
    JoinQueue(w) \/ ThreadDone(w) \/ ThreadNotified(w) \/ Wake(w) \/ Exit(w)

Next ==
    \/ Master \/ Handle
    \/ \E w \in Workers : Bind(w) \/ Runs(w)
    \/ Environment

Spec == Init /\ [][Next]_vars

\* The master, its handlers and the workers run, however many signals come;
\* signals, failures and hangs need not come. The lock of the queue is taken
\* and released a bounded number of times, so that whoever wants it gets it
\* once it stays free.
Fairness ==
    /\ SF_vars(Master)
    /\ WF_vars(HandleSigterm)
    /\ WF_vars(HandleSigchld)
    /\ \A w \in Workers : WF_vars(Runs(w))
FairSpec == Spec /\ Fairness

-----------------------------------------------------------------------------
(* Properties                                                              *)

TypeOK ==
    /\ pc \in {"start", "chld", "term", "shutdown", "flush", "notify",
               "wait", "kill", "join"} \cup InLoop \cup Ends
    /\ running \in BOOLEAN
    /\ abnormal_shutdown \in BOOLEAN
    /\ handlers \subseteq Signals
    /\ pending \subseteq handlers
    /\ kill \in BOOLEAN
    /\ left \subseteq Workers
    /\ joining \in left \cup {None}
    /\ pc = "join" => joining # None
    /\ worker \in [Workers -> {"new", "running", "asleep", "woken", "exited"}]
    /\ thread \in [Workers -> {"serves", "fails", "notifies", "over"}]
    /\ hung \subseteq Workers
    /\ unreported \subseteq Exited
    /\ unfinished \in 0 .. 1
    /\ cond \in Workers \cup {None}
    /\ sleeping \subseteq Workers
    /\ sockets \subseteq Workers \ Metrics

\* When the master reports that the shutdown is complete no worker is left,
\* nor a socket of one.
NobodyIsLeftBehind == pc = "done" => Exited = Workers /\ sockets = {}

\* The exit queue wakes nobody any more: the lock is a stopped worker's, or one
\* stopped asleep in queue.join, where the last task_done waits for it.
Stopped == Exited \cup hung
Stuck == cond \in Stopped \/ sleeping \cap Stopped # {}

\* A worker whose serving thread has failed does not stay behind as a process
\* that serves nothing (232), unless it can run no more itself, another worker
\* was stopped in the exit queue, or an exception has thrown the master out of
\* serve, possibly out of notifying.
BrokenWorkersExit ==
    \A w \in Workers : w \in Broken ~> w \in Stopped \/ Stuck \/ pc = "aborted"

\* A normal shutdown completes, also when workers fail or end meanwhile, or is
\* broken off by a SIGINT. Only a worker that hangs can stop it, which ignores
\* the SIGTERM while join waits for it, or one stopped in the exit queue.
NormalShutdownCompletes ==
    pc = "shutdown" /\ ~abnormal_shutdown
        ~> pc \in {"done", "aborted"} \/ hung # {} \/ Stuck

\* An abnormal shutdown does not wait for ever for workers nobody told to exit,
\* nor for hung ones, nor for the lock of a dead one.
AbnormalShutdownEnds ==
    pc = "shutdown" /\ abnormal_shutdown ~> pc \in {"done", "aborted"}

\* Every shutdown that begins ends, with the exceptions above, and workers that
\* exit in whatever order with SIGTERM do not make a normal one abnormal, which
\* would not wait for them.
EveryShutdownEnds == NormalShutdownCompletes /\ AbnormalShutdownEnds

(* What a log message promises and the code does not keep                  *)

\* "child was terminated unexpectedly, initiating abnormal shutdown": after
\* that the loop ends.
AbnormalShutdownIsInitiated == abnormal_shutdown ~> pc \notin InLoop

=============================================================================
