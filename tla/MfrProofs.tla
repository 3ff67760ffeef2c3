----------------------------- MODULE MfrProofs ------------------------------
(***************************************************************************)
(* Proofs about Mfr, for every set of workers, whichever of them may hang: *)
(* the types, and that a shutdown that is complete leaves nobody behind.   *)
(***************************************************************************)
EXTENDS Mfr, TLAPS

\* The master has a handler for SIGTERM from the loop on, so that the signal
\* cannot end it in the middle of a shutdown.
SigtermIsHandled ==
    pc \notin {"start", "chld", "term", "aborted", "killed"}
        => "SIGTERM" \in handlers

\* While the master goes through the workers, those it has waited for are gone.
OnlyLeftMayRun ==
    pc \in {"kill", "join"} => Workers \ left \subseteq Exited

MfrInv ==
    /\ TypeOK
    /\ SigtermIsHandled
    /\ OnlyLeftMayRun
    /\ NobodyIsLeftBehind

-----------------------------------------------------------------------------
(* A process that has ended does not start again.                          *)

LEMMA MfrInit == Init => MfrInv
<1> SUFFICES ASSUME Init PROVE MfrInv
    OBVIOUS
<1>1. /\ worker \in [Workers -> {"new", "running", "asleep", "woken", "exited"}]
      /\ thread \in [Workers -> {"serves", "fails", "notifies", "over"}]
    BY DEF Init
<1>2. running \in BOOLEAN /\ abnormal_shutdown \in BOOLEAN /\ kill \in BOOLEAN
    BY Zenon DEF Init
<1>3. unfinished \in 0 .. 1
    BY DEF Init
<1>4. TypeOK
    BY <1>1, <1>2, <1>3 DEF Init, TypeOK
<1> QED
    BY <1>4 DEF Init, MfrInv, SigtermIsHandled, OnlyLeftMayRun, NobodyIsLeftBehind

LEMMA ExitedStays ==
    ASSUME TypeOK, [Next]_vars
    PROVE  Exited \subseteq Exited'
<1> SUFFICES ASSUME NEW v \in Workers, worker[v] = "exited"
             PROVE  worker'[v] = "exited"
    BY DEF Exited
<1> USE DEF TypeOK
<1>1. ASSUME NEW w \in Workers, Start(w) PROVE worker'[v] = "exited"
    BY <1>1 DEF Start
<1>2. ASSUME NEW w \in Workers, Kill(w) PROVE worker'[v] = "exited"
    BY <1>2 DEF Kill
<1>3. ASSUME NEW w \in Workers, JoinQueue(w) \/ Wake(w)
      PROVE  worker'[v] = "exited"
    BY <1>3 DEF JoinQueue, Wake
<1>4. ASSUME NEW w \in Workers, Exit(w) \/ Die(w) PROVE worker'[v] = "exited"
    BY <1>4 DEF Exit, Die, Ended
<1>5. ASSUME UNCHANGED worker PROVE worker'[v] = "exited"
    BY <1>5
<1> QED
    BY <1>1, <1>2, <1>3, <1>4, <1>5
       DEF Next, Master, Handle, Environment, vars, workerVars, Started,
           InstallSigchld, InstallSigterm, Check, Pause, Shutdown, Flush,
           Flushed, Wait, Join, Unlink, HandleSigterm, HandleSigchld, Sigterm,
           Interrupt, Runs, Bind, ThreadDone, ThreadNotified, Break, Hang

\* Only the master goes back and forth in its loop, and it goes only forward
\* out of it.
LEMMA SigtermStaysHandled ==
    ASSUME MfrInv, [Next]_vars
    PROVE  SigtermIsHandled'
<1> USE DEF MfrInv, SigtermIsHandled
<1>1. CASE Master
    BY <1>1 DEF Master, Start, Kill, Started, InstallSigchld, InstallSigterm, Check,
           Pause, Shutdown, Flush, Flushed, Wait, Join, Unlink, GoTo, masterVars
<1>2. CASE Handle
    BY <1>2 DEF Handle, HandleSigterm, HandleSigchld
<1>3. ASSUME NEW w \in Workers, Bind(w) \/ Runs(w) PROVE SigtermIsHandled'
    BY <1>3 DEF Bind, Runs, JoinQueue, ThreadDone, ThreadNotified, Wake, Exit,
           Ended, Notify, GoTo, masterVars
<1>4. CASE Environment
    <2>1. CASE Sigterm
        BY <2>1 DEF Sigterm, Notify, GoTo
    <2>2. CASE Interrupt
        BY <2>2 DEF Interrupt, GoTo, InLoop, Ends
    <2>3. ASSUME NEW w \in Workers, Break(w) \/ Hang(w) \/ Die(w)
          PROVE  SigtermIsHandled'
        BY <2>3 DEF Break, Hang, Die, Ended, Notify, GoTo, masterVars
    <2> QED BY <1>4, <2>1, <2>2, <2>3 DEF Environment
<1>5. CASE UNCHANGED vars
    BY <1>5 DEF vars, masterVars
<1> QED BY <1>1, <1>2, <1>3, <1>4, <1>5 DEF Next

-----------------------------------------------------------------------------
(* Type correctness                                                        *)

LEMMA TypeMaster == MfrInv /\ Master => TypeOK'
<1> SUFFICES ASSUME MfrInv, Master PROVE TypeOK'
    OBVIOUS
<1> USE DEF MfrInv, TypeOK, GoTo, masterVars, workerVars, queueVars
<1>1. ASSUME NEW w \in Workers, Start(w) PROVE TypeOK'
    BY <1>1 DEF Start, Exited
<1>2. ASSUME NEW w \in Workers, Kill(w) PROVE TypeOK'
    <2>1. w # None
        BY WorkersAssumption
    <2>2. cond' \in Workers \cup {None}
        BY <1>2 DEF Kill, StopsWithLock
    <2>3. unreported' \subseteq Exited'
        BY <1>2 DEF Kill, Exited
    <2>4. worker' \in [Workers -> {"new", "running", "asleep", "woken", "exited"}]
        BY <1>2 DEF Kill
    <2> QED BY <1>2, <2>1, <2>2, <2>3, <2>4 DEF Kill, Ends
<1>3. CASE Started
    BY <1>3 DEF Started, Exited
<1>4. CASE InstallSigchld
    BY <1>4 DEF InstallSigchld, Exited, Signals
<1>5. CASE InstallSigterm
    BY <1>5 DEF InstallSigterm, Exited, Signals, InLoop
<1>6. CASE Check
    BY <1>6 DEF Check, Exited, InLoop
<1>7. CASE Pause
    BY <1>7 DEF Pause, Exited, InLoop
<1>8. CASE Shutdown
    BY <1>8 DEF Shutdown, Exited
<1>9. CASE Flush \/ Flushed
    BY <1>9 DEF Flush, Flushed, TaskDone, Exited
<1>10. CASE Wait
    BY <1>10 DEF Wait, Exited
<1>11. CASE Join
    BY <1>11, WorkersAssumption DEF Join, Exited
<1>12. CASE Unlink
    BY <1>12 DEF Unlink, Exited, Ends
<1> QED
    BY <1>1, <1>2, <1>3, <1>4, <1>5, <1>6, <1>7, <1>8, <1>9, <1>10, <1>11, <1>12
       DEF Master

\* What the steps of a worker have in common: they leave the master alone.
LEMMA TypeWorker ==
    ASSUME MfrInv, UNCHANGED <<masterVars, pending, unreported>>,
           worker' \in [Workers -> {"new", "running", "asleep", "woken", "exited"}],
           Exited \subseteq Exited',
           thread' \in [Workers -> {"serves", "fails", "notifies", "over"}],
           hung' \subseteq Workers, unfinished' \in 0 .. 1,
           cond' \in Workers \cup {None}, sleeping' \subseteq Workers,
           sockets' \subseteq Workers \ Metrics
    PROVE  TypeOK'
BY DEF MfrInv, TypeOK, masterVars

LEMMA TypeEnded ==
    ASSUME MfrInv, NEW w \in Workers, Ended(w), cond' \in Workers \cup {None}
    PROVE  TypeOK'
<1> USE DEF MfrInv, TypeOK
<1>1. pending' \subseteq handlers' /\ handlers' \subseteq Signals
    BY DEF Ended, Notify
<1>2. pc' = pc \/ (pc = "pause" /\ pc' = "check")
    BY DEF Ended, Notify, GoTo
<1>3. unreported' \subseteq Exited'
    BY DEF Ended, Exited
<1> QED
    BY <1>1, <1>2, <1>3 DEF Ended, InLoop

LEMMA TypeNext == MfrInv /\ [Next]_vars => TypeOK'
<1> SUFFICES ASSUME MfrInv, [Next]_vars PROVE TypeOK'
    OBVIOUS
<1> USE DEF MfrInv, TypeOK
<1>0. Exited \subseteq Exited'
    BY ExitedStays
<1>1. CASE Master
    BY <1>1, TypeMaster
<1>2. CASE Handle
    BY <1>2 DEF Handle, HandleSigterm, HandleSigchld, workerVars, queueVars, Exited
<1>3. ASSUME NEW w \in Workers, Bind(w) PROVE TypeOK'
    BY <1>0, <1>3, TypeWorker DEF Bind, queueVars
<1>4. ASSUME NEW w \in Workers, Runs(w) PROVE TypeOK'
    <2>1. CASE JoinQueue(w) \/ Wake(w)
        BY <1>0, <2>1, TypeWorker DEF JoinQueue, Wake
    <2>2. CASE ThreadDone(w) \/ ThreadNotified(w)
        BY <1>0, <2>2, TypeWorker DEF ThreadDone, ThreadNotified, TaskDone
    <2>3. CASE Exit(w)
        BY <2>3, TypeEnded DEF Exit
    <2> QED BY <1>4, <2>1, <2>2, <2>3 DEF Runs
<1>5. ASSUME NEW w \in Workers, Break(w) \/ Hang(w) PROVE TypeOK'
    BY <1>0, <1>5, TypeWorker DEF Break, Hang, StopsWithLock, queueVars
<1>6. ASSUME NEW w \in Workers, Die(w) PROVE TypeOK'
    BY <1>6, TypeEnded DEF Die, StopsWithLock
<1>7. CASE Sigterm
    <2>1. CASE Notify("SIGTERM") /\ "SIGTERM" \in handlers
        BY <1>7, <2>1 DEF Sigterm, Notify, GoTo, Exited, InLoop,
               workerVars, queueVars
    <2>2. CASE "SIGTERM" \notin handlers
        BY <1>7, <2>2 DEF Sigterm, GoTo, Exited, SigtermIsHandled, Ends,
               workerVars, queueVars
    <2> QED BY <1>7, <2>1, <2>2 DEF Sigterm
<1>8. CASE Interrupt
    BY <1>8 DEF Interrupt, GoTo, Exited, InLoop, Ends, workerVars, queueVars
<1>9. CASE UNCHANGED vars
    BY <1>9 DEF vars, masterVars, workerVars, queueVars, Exited
<1> QED
    BY <1>1, <1>2, <1>3, <1>4, <1>5, <1>6, <1>7, <1>8, <1>9 DEF Next, Environment

-----------------------------------------------------------------------------
(* Nobody is left behind                                                   *)

LEMMA OnlyLeftNext == MfrInv /\ [Next]_vars => OnlyLeftMayRun'
<1> SUFFICES ASSUME MfrInv, [Next]_vars PROVE OnlyLeftMayRun'
    OBVIOUS
<1> USE DEF MfrInv, OnlyLeftMayRun
<1>1. Exited \subseteq Exited'
    BY ExitedStays
<1>2. Exited' \subseteq Workers
    BY DEF Exited
<1>3. CASE Wait
    BY <1>3 DEF Wait, GoTo
<1>4. CASE Join
    BY <1>1, <1>4 DEF Join, GoTo
<1>5. CASE ~Wait /\ ~Join
    <2>1. left' = left
        BY <1>5 DEF Next, Master, Handle, Environment, vars, masterVars, Start,
               Kill, Started, InstallSigchld, InstallSigterm, Check, Pause,
               Shutdown, Flush, Flushed, Unlink, HandleSigterm, HandleSigchld, Sigterm,
               Interrupt, Bind, Runs, JoinQueue, ThreadDone, ThreadNotified,
               Wake, Exit, Break, Hang, Die, Ended
    <2>2. pc' \in {"kill", "join"} => pc \in {"kill", "join"}
        BY <1>5 DEF Next, Master, Handle, Environment, vars, masterVars, Start,
               Kill, Started, InstallSigchld, InstallSigterm, Check, Pause,
               Shutdown, Flush, Flushed, Unlink, HandleSigterm, HandleSigchld, Sigterm,
               Interrupt, Bind, Runs, JoinQueue, ThreadDone, ThreadNotified,
               Wake, Exit, Break, Hang, Die, Ended, Notify, GoTo
    <2> QED BY <1>1, <2>1, <2>2
<1> QED BY <1>3, <1>4, <1>5

LEMMA LeftBehindNext == MfrInv /\ [Next]_vars => NobodyIsLeftBehind'
<1> SUFFICES ASSUME MfrInv, [Next]_vars, pc' = "done"
             PROVE  Exited' = Workers /\ sockets' = {}
    BY DEF NobodyIsLeftBehind
<1> USE DEF MfrInv
<1>1. Exited \subseteq Exited' /\ Exited' \subseteq Workers
    BY ExitedStays DEF Exited
<1>2. CASE Unlink
    BY <1>1, <1>2 DEF Unlink, OnlyLeftMayRun
<1>3. CASE ~Unlink
    <2>1. pc = "done"
        BY <1>3 DEF Next, Master, Handle, Environment, vars, masterVars, Start,
               Kill, Started, InstallSigchld, InstallSigterm, Check, Pause,
               Shutdown, Flush, Flushed, Wait, Join, HandleSigterm, HandleSigchld, Sigterm,
               Interrupt, Bind, Runs, JoinQueue, ThreadDone, ThreadNotified,
               Wake, Exit, Break, Hang, Die, Ended, Notify, GoTo
    <2>2. Exited = Workers /\ sockets = {}
        BY <2>1 DEF NobodyIsLeftBehind
    <2>3. ~ \E w \in Workers : Bind(w)
        BY <2>2 DEF Bind, Alive, Exited
    <2>4. sockets' = sockets
        BY <1>3, <2>3
           DEF Next, Master, Handle, Environment, vars, workerVars, Start,
               Kill, Started, InstallSigchld, InstallSigterm, Check, Pause,
               Shutdown, Flush, Flushed, Wait, Join, HandleSigterm, HandleSigchld, Sigterm,
               Interrupt, Runs, JoinQueue, ThreadDone, ThreadNotified, Wake,
               Exit, Break, Hang, Die, Ended
    <2> QED BY <1>1, <2>2, <2>4
<1> QED BY <1>2, <1>3

-----------------------------------------------------------------------------
(* Theorems                                                                *)

LEMMA MfrInvariant == Spec => []MfrInv
<1>1. MfrInv /\ [Next]_vars => MfrInv'
    BY TypeNext, SigtermStaysHandled, OnlyLeftNext, LeftBehindNext DEF MfrInv
<1> QED BY <1>1, MfrInit, PTL DEF Spec

\* Every variable of the master and its workers keeps its type: the exit queue
\* never has more tasks than one, and no handler runs for a signal it is not
\* installed for, whenever signals come (Server.serve).
THEOREM TypeCorrect == Spec => []TypeOK
<1>1. MfrInv => TypeOK
    BY DEF MfrInv
<1> QED BY <1>1, MfrInvariant, PTL

\* However many workers there are, and whatever fails, hangs or is signalled
\* when, 'shutdown complete' is logged with no worker and no socket left
\* (Server.serve).
THEOREM NobodyLeftBehind == Spec => []NobodyIsLeftBehind
<1>1. MfrInv => NobodyIsLeftBehind
    BY DEF MfrInv
<1> QED BY <1>1, MfrInvariant, PTL

=============================================================================
