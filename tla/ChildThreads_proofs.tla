------------------------ MODULE ChildThreads_proofs ------------------------
(***************************************************************************)
(* Proofs about the child threads, for any number of threads and cards.    *)
(***************************************************************************)
EXTENDS ChildThreads, TLAPS

(* The mutex variable says who is between taking and releasing it.         *)
LockInv == \A t \in Threads : pc[t] \in Holding <=> owner = t

(* During a join every thread that is not on the list has ended: none is   *)
(* started then, and one leaves the list only when it has been waited for. *)
JoinInv ==
    mainPc # "loop" =>
        /\ \A t \in Threads \ todo : ~Alive(t)
        /\ mainPc # "next" => current \in Threads

Inv == TypeOK /\ LockInv /\ JoinInv

LEMMA KindsAreThreads ==
    /\ Waiters \subseteq Threads
    /\ Monitors \subseteq Threads
    /\ Runners \subseteq Threads
    /\ NoThread \notin Threads
BY DistinctKinds DEF Threads

LEMMA InitInv == Init => Inv
BY KindsAreThreads
   DEF Init, Inv, TypeOK, LockInv, JoinInv, Points, Holding, Blocked, Stopped, Signals, Alive

(* A step of a thread: type correctness is kept.                           *)
LEMMA ThreadStepTypeOK ==
    ASSUME TypeOK, NEW t \in Threads,
           Start(t) \/ Lock(t) \/ Timeout(t) \/ ThreadStep(t)
    PROVE  TypeOK'
<1> USE DEF TypeOK, Points, Holding, Blocked, Stopped, Signals, Goto, Return, Emit,
            mainVars, workVars
<1>1. CASE Start(t)
  BY <1>1 DEF Start
<1>2. CASE Lock(t)
  BY <1>2 DEF Lock
<1>3. CASE Timeout(t)
  BY <1>3 DEF Timeout
<1>4. CASE Wait(t)
  BY <1>4 DEF Wait
<1>5. CASE t \in Waiters /\ WaiterStep(t)
  BY <1>5 DEF WaiterStep, AttemptCardSelection, WaiterCheck
<1>6. CASE t \in Monitors /\ (BaselineCheck(t) \/ BaselineScan(t))
  BY <1>6 DEF BaselineCheck, BaselineScan
<1>7. CASE t \in Monitors /\ (MonitorCheck(t) \/ MonitorScan(t))
  BY <1>7 DEF MonitorCheck, MonitorScan
<1>8. CASE t \in Monitors /\ (MonitorRecheck(t) \/ MonitorCompare(t))
  BY <1>8 DEF MonitorRecheck, MonitorCompare
<1>9. CASE t \in Runners /\ Run(t)
  BY <1>9 DEF Run
<1> QED
  BY <1>1, <1>2, <1>3, <1>4, <1>5, <1>6, <1>7, <1>8, <1>9 DEF ThreadStep, MonitorStep

(* A step of the main thread or of the user: type correctness is kept.     *)
LEMMA MainStepTypeOK ==
    ASSUME TypeOK, JoinInv,
           StopCardEventMonitorThread \/ BeginJoin \/ JoinStep \/ ChangeCards \/ UNCHANGED vars
    PROVE  TypeOK'
<1> USE DEF TypeOK, Points, Holding, Blocked, Stopped, Signals, Alive, mainVars, workVars
<1>1. CASE StopCardEventMonitorThread
  BY <1>1, KindsAreThreads DEF StopCardEventMonitorThread
<1>2. CASE BeginJoin
  BY <1>2 DEF BeginJoin
<1>3. CASE \E t \in Threads : Disconnect(t)
  BY <1>3 DEF Disconnect
<1>4. CASE RequestInterruption
  <2>1. current \in Threads
    BY <1>4 DEF RequestInterruption, JoinInv
  <2> QED
    BY <1>4, <2>1 DEF RequestInterruption
<1>5. CASE WakeAll
  BY <1>5 DEF WakeAll
<1>6. CASE ThreadWait
  BY <1>6 DEF ThreadWait
<1>7. CASE EndJoin
  BY <1>7 DEF EndJoin
<1>8. CASE ChangeCards
  BY <1>8 DEF ChangeCards
<1>9. CASE UNCHANGED vars
  BY <1>9 DEF vars
<1> QED
  BY <1>1, <1>2, <1>3, <1>4, <1>5, <1>6, <1>7, <1>8, <1>9 DEF JoinStep

(* What a thread's step may do to the program points and the mutex: only   *)
(* its own point moves, the mutex is taken when free and given up by its   *)
(* holder, and only the main thread's loop brings a thread to life.        *)
LEMMA ThreadStepShape ==
    ASSUME TypeOK, LockInv, NEW t \in Threads,
           Start(t) \/ Lock(t) \/ Timeout(t) \/ ThreadStep(t)
    PROVE  /\ \A u \in Threads \ {t} : pc'[u] = pc[u]
           /\ pc'[t] \in Holding <=> owner' = t
           /\ \A u \in Threads \ {t} : owner' = u <=> owner = u
           /\ mainPc' = mainPc /\ todo' = todo /\ current' = current
           /\ mainPc = "loop" \/ Alive(t)
<1> USE KindsAreThreads
    DEF TypeOK, LockInv, Alive, Points, Holding, Blocked, Stopped, Goto, Return,
        mainVars, workVars
<1>1. CASE Start(t)
  BY <1>1 DEF Start
<1>2. CASE Lock(t)
  BY <1>2 DEF Lock
<1>3. CASE Timeout(t)
  BY <1>3 DEF Timeout
<1>4. CASE Wait(t)
  BY <1>4 DEF Wait
<1>5. CASE t \in Waiters /\ WaiterStep(t)
  BY <1>5 DEF WaiterStep, AttemptCardSelection, WaiterCheck
<1>6. CASE t \in Monitors /\ (BaselineCheck(t) \/ BaselineScan(t))
  BY <1>6 DEF BaselineCheck, BaselineScan
<1>7. CASE t \in Monitors /\ (MonitorCheck(t) \/ MonitorScan(t))
  BY <1>7 DEF MonitorCheck, MonitorScan
<1>8. CASE t \in Monitors /\ (MonitorRecheck(t) \/ MonitorCompare(t))
  BY <1>8 DEF MonitorRecheck, MonitorCompare
<1>9. CASE t \in Runners /\ Run(t)
  BY <1>9 DEF Run
<1> QED
  BY <1>1, <1>2, <1>3, <1>4, <1>5, <1>6, <1>7, <1>8, <1>9 DEF ThreadStep, MonitorStep

(* The main thread and the user leave the mutex and who holds it alone.    *)
LEMMA MainStepLock ==
    ASSUME TypeOK, LockInv,
           StopCardEventMonitorThread \/ BeginJoin \/ JoinStep \/ ChangeCards \/ UNCHANGED vars
    PROVE  LockInv'
<1>1. CASE WakeAll
  BY <1>1 DEF WakeAll, TypeOK, LockInv, Holding
<1>2. CASE UNCHANGED <<pc, owner>>
  BY <1>2 DEF LockInv
<1>3. WakeAll \/ UNCHANGED <<pc, owner>>
  BY DEF StopCardEventMonitorThread, BeginJoin, JoinStep, Disconnect, RequestInterruption,
         ThreadWait, EndJoin, ChangeCards, mainVars, vars
<1> QED
  BY <1>1, <1>2, <1>3

LEMMA MainStepJoin ==
    ASSUME TypeOK, JoinInv,
           StopCardEventMonitorThread \/ BeginJoin \/ JoinStep \/ ChangeCards \/ UNCHANGED vars
    PROVE  JoinInv'
<1> USE DEF JoinInv, Alive, Stopped
<1>1. CASE StopCardEventMonitorThread
  BY <1>1 DEF StopCardEventMonitorThread
<1>2. CASE BeginJoin
  BY <1>2 DEF BeginJoin
<1>3. CASE \E t \in Threads : Disconnect(t)
  BY <1>3 DEF Disconnect
<1>4. CASE RequestInterruption
  BY <1>4 DEF RequestInterruption
<1>5. CASE WakeAll
  BY <1>5 DEF WakeAll, TypeOK
<1>6. CASE ThreadWait
  BY <1>6 DEF ThreadWait
<1>7. CASE EndJoin
  BY <1>7 DEF EndJoin
<1>8. CASE ChangeCards
  BY <1>8 DEF ChangeCards, mainVars
<1>9. CASE UNCHANGED vars
  BY <1>9 DEF vars
<1> QED
  BY <1>1, <1>2, <1>3, <1>4, <1>5, <1>6, <1>7, <1>8, <1>9 DEF JoinStep

LEMMA StepInv == Inv /\ [Next]_vars => Inv'
<1> SUFFICES ASSUME Inv, [Next]_vars
             PROVE  Inv'
  OBVIOUS
<1> USE DEF Inv
<1>1. ASSUME NEW t \in Threads, Start(t) \/ Lock(t) \/ Timeout(t) \/ ThreadStep(t)
      PROVE  Inv'
  <2>1. TypeOK'
    BY <1>1, ThreadStepTypeOK
  <2>2. LockInv'
    BY <1>1, ThreadStepShape DEF LockInv
  <2>3. JoinInv'
    BY <1>1, ThreadStepShape DEF JoinInv, Alive
  <2> QED
    BY <2>1, <2>2, <2>3
<1>2. CASE StopCardEventMonitorThread \/ BeginJoin \/ JoinStep \/ ChangeCards \/ UNCHANGED vars
  BY <1>2, MainStepTypeOK, MainStepLock, MainStepJoin
<1> QED
  BY <1>1, <1>2 DEF Next

THEOREM Invariance == Spec => []Inv
<1>1. Init => Inv
  BY InitInv
<1>2. Inv /\ [Next]_vars => Inv'
  BY StepInv
<1> QED
  BY <1>1, <1>2, PTL DEF Spec

(* Type correctness of the child threads.                                  *)
THEOREM TypeCorrect == Spec => []TypeOK
<1>1. Inv => TypeOK
  BY DEF Inv
<1> QED
  BY <1>1, Invariance, PTL

(* For any number of threads, one at most is between taking and releasing  *)
(* controllerChildThreadMutex: smart card calls are never made by two.     *)
THEOREM MutualExclusion == Spec => []OneThreadUsesTheReaders
<1>1. Inv => OneThreadUsesTheReaders
  BY DEF Inv, LockInv, OneThreadUsesTheReaders
<1> QED
  BY <1>1, Invariance, PTL

(* The threads that a step leaves running, one thread's step at a time.    *)
LEMMA ThreadStepRunning ==
    ASSUME Inv, NEW t \in Threads,
           Start(t) \/ Lock(t) \/ Timeout(t) \/ ThreadStep(t)
    PROVE  [Barrier!Next]_(Barrier!vars)
<1> DEFINE running == {u \in Threads : Alive(u)}
<1>1. mainPc' = mainPc /\ (mainPc = "loop" \/ Alive(t))
  BY ThreadStepShape DEF Inv
<1>2. \A u \in Threads \ {t} : Alive(u)' <=> Alive(u)
  BY ThreadStepShape DEF Inv, Alive
<1>3. CASE Alive(t)' <=> Alive(t)
  <2>1. running' = running
    BY <1>2, <1>3
  <2> QED
    BY <2>1, <1>1 DEF Barrier!vars
<1>4. CASE Alive(t)' /\ ~Alive(t)
  <2>1. running' = running \cup {t} /\ t \notin running
    BY <1>2, <1>4
  <2>2. Barrier!Start(t)
    BY <2>1, <1>1, <1>4 DEF Barrier!Start
  <2> QED
    BY <2>2 DEF Barrier!Next
<1>5. CASE ~Alive(t)' /\ Alive(t)
  <2>1. running' = running \ {t} /\ t \in running
    BY <1>2, <1>5
  <2>2. Barrier!End(t)
    BY <2>1, <1>1 DEF Barrier!End
  <2> QED
    BY <2>2 DEF Barrier!Next
<1> QED
  BY <1>3, <1>4, <1>5

(* The step that ends a join finds no thread running; every other step of  *)
(* the main thread leaves the running threads as they are.                 *)
LEMMA MainStepRunning ==
    ASSUME Inv,
           StopCardEventMonitorThread \/ BeginJoin \/ JoinStep \/ ChangeCards \/ UNCHANGED vars
    PROVE  [Barrier!Next]_(Barrier!vars)
<1> DEFINE running == {u \in Threads : Alive(u)}
<1>1. running' = running
  <2>1. CASE WakeAll
    <3>1. \A t \in Threads : Alive(t)' <=> Alive(t)
      BY <2>1 DEF WakeAll, Alive, Stopped
    <3> QED
      BY <3>1
  <2>2. CASE pc' = pc
    BY <2>2 DEF Alive
  <2>3. WakeAll \/ pc' = pc
    BY DEF StopCardEventMonitorThread, BeginJoin, JoinStep, Disconnect, RequestInterruption,
           ThreadWait, EndJoin, ChangeCards, vars
  <2> QED
    BY <2>1, <2>2, <2>3
<1>2. CASE BeginJoin
  <2>1. Barrier!BeginJoin
    BY <1>1, <1>2 DEF BeginJoin, Barrier!BeginJoin
  <2> QED
    BY <2>1 DEF Barrier!Next
<1>3. CASE EndJoin
  <2>1. running = {}
    BY <1>3 DEF EndJoin, Inv, JoinInv
  <2>2. Barrier!EndJoin
    BY <1>1, <1>3, <2>1 DEF EndJoin, Barrier!EndJoin
  <2> QED
    BY <2>2 DEF Barrier!Next
<1>4. CASE (mainPc # "loop")' <=> (mainPc # "loop")
  BY <1>1, <1>4 DEF Barrier!vars
<1>5. BeginJoin \/ EndJoin \/ ((mainPc # "loop")' <=> (mainPc # "loop"))
  BY DEF StopCardEventMonitorThread, JoinStep, Disconnect, RequestInterruption, WakeAll,
         ThreadWait, ChangeCards, mainVars, vars
<1> QED
  BY <1>2, <1>3, <1>4, <1>5

(* The child threads and the way they are stopped implement the barrier    *)
(* the controller relies on.                                               *)
THEOREM ImplementsBarrier == Spec => BarrierSafety
<1>1. Init => Barrier!Init
  BY DEF Init, Barrier!Init, Alive, Stopped
<1>2. Inv /\ [Next]_vars => [Barrier!Next]_(Barrier!vars)
  BY ThreadStepRunning, MainStepRunning DEF Next
<1> QED
  BY <1>1, <1>2, Invariance, PTL DEF Spec, BarrierSafety, Barrier!Safety
=============================================================================
