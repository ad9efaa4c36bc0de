---------------------------- MODULE ChildThreads ----------------------------
(***************************************************************************)
(* The worker threads of the controller (src/src/controller/threads) and   *)
(* the protocol the main thread uses to stop them.                         *)
(*                                                                         *)
(* Every ControllerChildThread holds the static controllerChildThreadMutex *)
(* for the whole of its run(); the two polling threads give it up only     *)
(* inside waitForControllerNotify.wait(&mutex, 1s).  The main thread never *)
(* takes the mutex: it sets interruption flags and calls wakeAll() without *)
(* it, so a wake-up may come between a thread's test of its flag and its   *)
(* wait; the one second timeout is what makes the thread look again.       *)
(***************************************************************************)
EXTENDS Naturals, FiniteSets

CONSTANTS Waiters,    \* WaitForCardThread objects
          Monitors,   \* CardEventMonitorThread objects
          Runners,    \* CommandHandlerRunThread and ...ConfirmThread objects
          Cards,      \* the cards that may be put into the readers
          NoThread    \* the mutex is free, no thread is being stopped

Threads == Waiters \cup Monitors \cup Runners

ASSUME DistinctKinds ==
    /\ Waiters \cap Monitors = {}
    /\ Waiters \cap Runners = {}
    /\ Monitors \cap Runners = {}
    /\ NoThread \notin Threads

VARIABLES
    pc,           \* where each thread is in its run()
    owner,        \* holder of controllerChildThreadMutex
    interrupted,  \* threads whose interruption flag is set
    connected,    \* threads whose signals are still connected
    watching,     \* monitors that have read their initialCards
    base,         \* initialCards of each monitor
    seen,         \* updatedCards of each monitor
    cards,        \* the cards in the readers now
    signal,       \* the last signal of each thread that reached the event queue
    mainPc,       \* where the main thread is
    todo,         \* children that waitForChildThreads has still to stop
    current       \* the child it is stopping

workVars == <<watching, base, seen, signal>>
mainVars == <<mainPc, todo, current, connected, interrupted>>
vars == <<pc, owner, interrupted, connected, watching, base, seen, cards,
          signal, mainPc, todo, current>>

(* Program points of a thread: "lock" wants the mutex at the start of      *)
(* run(); "scan" is about to ask for the cards, or to run the command      *)
(* handler; "check" is at the loop condition; "recheck" and "compare" are  *)
(* the monitor's two tests after its wait; "enter" is about to wait;       *)
(* "sleep" waits without the mutex; "relock" has to take it back.          *)
Holding == {"scan", "check", "recheck", "compare", "enter"}
Blocked == {"lock", "relock"}
Stopped == {"new", "finished"}
Points == Holding \cup Blocked \cup Stopped \cup {"sleep"}

Signals == {"none", "cardsAvailable", "statusUpdate", "cardEvent", "failure", "outcome"}

Alive(t) == pc[t] \notin Stopped

-----------------------------------------------------------------------------
Init ==
    /\ pc = [t \in Threads |-> "new"]
    /\ owner = NoThread
    /\ interrupted = {}
    /\ connected = {}
    /\ watching = {}
    /\ base = [m \in Monitors |-> {}]
    /\ seen = [m \in Monitors |-> {}]
    /\ cards \in SUBSET Cards
    /\ signal = [t \in Threads |-> "none"]
    /\ mainPc = "loop"
    /\ todo = {}
    /\ current = NoThread

-----------------------------------------------------------------------------
(* Steps of a child thread.                                                *)

Goto(t, from, to) == pc[t] = from /\ pc' = [pc EXCEPT ![t] = to]

(* run() returns: the QMutexLocker releases the mutex.                     *)
Return(t, from) == Goto(t, from, "finished") /\ owner' = NoThread

(* A signal is queued for the main thread only while it is connected.      *)
Emit(t, s) ==
    signal' = IF t \in connected THEN [signal EXCEPT ![t] = s] ELSE signal

(* Plausible bug: an overridden run() that forgets the QMutexLocker.       *)
Lock_NotTaken(t) ==
    /\ pc[t] \in Blocked
    /\ pc' = [pc EXCEPT ![t] = "scan"]
    /\ owner' = t
    /\ UNCHANGED <<workVars, mainVars, cards>>

(* QMutexLocker at the start of run(), and the relock at the end of a wait.*)
Lock(t) ==
    /\ owner = NoThread
    /\ \/ /\ pc[t] = "lock"
          /\ pc' = [pc EXCEPT ![t] = IF t \in Monitors THEN "check" ELSE "scan"]
       \/ /\ pc[t] = "relock"
          /\ pc' = [pc EXCEPT ![t] = IF t \in Monitors \ watching THEN "check" ELSE "scan"]
    /\ owner' = t
    /\ UNCHANGED <<workVars, mainVars, cards>>

(* waitForControllerNotify.wait: releases the mutex and waits, one step.   *)
Wait(t) ==
    /\ Goto(t, "enter", "sleep")
    /\ owner' = NoThread
    /\ UNCHANGED <<workVars, mainVars, cards>>

(* Plausible bug: wait(&mutex) without the one second.                     *)
Timeout_Never(t) == FALSE /\ UNCHANGED vars

(* The one second of the wait has passed.                                  *)
Timeout(t) ==
    /\ Goto(t, "sleep", "relock")
    /\ UNCHANGED <<owner, workVars, mainVars, cards>>

(* WaitForCardThread::attemptCardSelection: cards are there, the selection *)
(* failed in a way that is only reported, or it failed for good.           *)
AttemptCardSelection(w) ==
    \/ /\ cards # {}
       /\ Return(w, "scan")
       /\ Emit(w, "cardsAvailable")
       /\ UNCHANGED <<watching, base, seen, mainVars, cards>>
    \/ /\ Goto(w, "scan", "check")
       /\ Emit(w, "statusUpdate")
       /\ UNCHANGED <<owner, watching, base, seen, mainVars, cards>>
    \/ /\ Return(w, "scan")
       /\ Emit(w, "failure")
       /\ UNCHANGED <<watching, base, seen, mainVars, cards>>

(* The loop condition of WaitForCardThread::doRun.                         *)
WaiterCheck(w) ==
    /\ \/ w \in interrupted /\ Return(w, "check")
       \/ w \notin interrupted /\ Goto(w, "check", "enter") /\ UNCHANGED owner
    /\ UNCHANGED <<workVars, mainVars, cards>>

(* getSupportedCardsIgnoringExceptions: one turn of its loop.  When it is  *)
(* interrupted the initial list is empty.                                  *)
BaselineCheck(m) ==
    /\ m \notin watching
    /\ \/ /\ m \in interrupted
          /\ pc[m] = "check"
          /\ watching' = watching \cup {m}
          /\ base' = [base EXCEPT ![m] = {}]
          /\ UNCHANGED pc
       \/ /\ m \notin interrupted
          /\ Goto(m, "check", "scan")
          /\ UNCHANGED <<watching, base>>
    /\ UNCHANGED <<owner, seen, signal, mainVars, cards>>

BaselineScan(m) ==
    /\ m \notin watching
    /\ \/ /\ cards # {}
          /\ Goto(m, "scan", "check")
          /\ watching' = watching \cup {m}
          /\ base' = [base EXCEPT ![m] = cards]
       \/ /\ Goto(m, "scan", "enter")
          /\ UNCHANGED <<watching, base>>
    /\ UNCHANGED <<owner, seen, signal, mainVars, cards>>

(* The loop of CardEventMonitorThread::run.                                *)
MonitorCheck(m) ==
    /\ m \in watching
    /\ \/ m \in interrupted /\ Return(m, "check")
       \/ m \notin interrupted /\ Goto(m, "check", "enter") /\ UNCHANGED owner
    /\ UNCHANGED <<workVars, mainVars, cards>>

(* An error of the smart card layer leaves updatedCards empty.             *)
MonitorScan(m) ==
    /\ m \in watching
    /\ Goto(m, "scan", "recheck")
    /\ \E found \in {cards, {}} : seen' = [seen EXCEPT ![m] = found]
    /\ UNCHANGED <<owner, watching, base, signal, mainVars, cards>>

(* Plausible bug: no second look at the interruption flag.                 *)
MonitorRecheck_Blind(m) ==
    /\ Goto(m, "recheck", "compare")
    /\ UNCHANGED <<owner, workVars, mainVars, cards>>

MonitorRecheck(m) ==
    /\ \/ m \in interrupted /\ Return(m, "recheck")
       \/ m \notin interrupted /\ Goto(m, "recheck", "compare") /\ UNCHANGED owner
    /\ UNCHANGED <<workVars, mainVars, cards>>

(* Plausible bug: the monitor looks once and returns.                      *)
MonitorCompare_Once(m) ==
    /\ Return(m, "compare")
    /\ IF base[m] # seen[m] THEN Emit(m, "cardEvent") ELSE UNCHANGED signal
    /\ UNCHANGED <<watching, base, seen, mainVars, cards>>

MonitorCompare(m) ==
    \/ /\ base[m] # seen[m]
       /\ Return(m, "compare")
       /\ Emit(m, "cardEvent")
       /\ UNCHANGED <<watching, base, seen, mainVars, cards>>
    \/ /\ base[m] = seen[m]
       /\ Goto(m, "compare", "check")
       /\ UNCHANGED <<owner, workVars, mainVars, cards>>

(* doRun of the two command handler threads: they never look at the        *)
(* interruption flag, but a card operation always comes back.              *)
Run(r) ==
    /\ Return(r, "scan")
    /\ Emit(r, "outcome")
    /\ UNCHANGED <<watching, base, seen, mainVars, cards>>

WaiterStep(w) == AttemptCardSelection(w) \/ WaiterCheck(w)

MonitorStep(m) ==
    \/ BaselineCheck(m) \/ BaselineScan(m)
    \/ MonitorCheck(m) \/ MonitorScan(m) \/ MonitorRecheck(m) \/ MonitorCompare(m)

ThreadStep(t) ==
    \/ Wait(t)
    \/ t \in Waiters /\ WaiterStep(t)
    \/ t \in Monitors /\ MonitorStep(t)
    \/ t \in Runners /\ Run(t)

-----------------------------------------------------------------------------
(* Steps of the main thread and of the environment.                        *)

Start(t) ==
    /\ mainPc = "loop"
    /\ Goto(t, "new", "lock")
    /\ connected' = connected \cup {t}
    /\ UNCHANGED <<owner, interrupted, workVars, mainPc, todo, current, cards>>

(* emit stopCardEventMonitorThread: requestInterruption on both polling    *)
(* kinds, without a wake-up.  The flag of a thread that does not run stays.*)
StopCardEventMonitorThread ==
    /\ mainPc = "loop"
    /\ interrupted' = interrupted \cup {t \in Waiters \cup Monitors : Alive(t)}
    /\ UNCHANGED <<pc, owner, workVars, connected, mainPc, todo, current, cards>>

(* waitForChildThreads: for each child, in the order of findChildren (any  *)
(* order here), disconnect, requestInterruption, wakeAll and wait.         *)
BeginJoin ==
    /\ mainPc = "loop"
    /\ mainPc' = "next"
    /\ todo' = {t \in Threads : pc[t] # "new"}
    /\ UNCHANGED <<pc, owner, interrupted, connected, workVars, current, cards>>

Disconnect(t) ==
    /\ mainPc = "next"
    /\ t \in todo
    /\ current' = t
    /\ connected' = connected \ {t}
    /\ mainPc' = "interrupt"
    /\ UNCHANGED <<pc, owner, interrupted, workVars, todo, cards>>

RequestInterruption ==
    /\ mainPc = "interrupt"
    /\ interrupted' = IF Alive(current) THEN interrupted \cup {current} ELSE interrupted
    /\ mainPc' = "wake"
    /\ UNCHANGED <<pc, owner, connected, workVars, todo, current, cards>>

WakeAll ==
    /\ mainPc = "wake"
    /\ pc' = [t \in Threads |-> IF pc[t] = "sleep" THEN "relock" ELSE pc[t]]
    /\ mainPc' = "wait"
    /\ UNCHANGED <<owner, interrupted, connected, workVars, todo, current, cards>>

ThreadWait ==
    /\ mainPc = "wait"
    /\ pc[current] = "finished"
    /\ mainPc' = "next"
    /\ todo' = todo \ {current}
    /\ current' = NoThread
    /\ UNCHANGED <<pc, owner, interrupted, connected, workVars, cards>>

EndJoin ==
    /\ mainPc = "next"
    /\ todo = {}
    /\ mainPc' = "loop"
    /\ UNCHANGED <<pc, owner, interrupted, connected, workVars, todo, current, cards>>

(* The user puts a card into a reader or takes one out.                    *)
ChangeCards ==
    /\ cards' \in SUBSET Cards
    /\ UNCHANGED <<pc, owner, workVars, mainVars>>

JoinStep ==
    \/ \E t \in Threads : Disconnect(t)
    \/ RequestInterruption \/ WakeAll \/ ThreadWait \/ EndJoin

Next ==
    \/ \E t \in Threads : Start(t) \/ Lock(t) \/ Timeout(t) \/ ThreadStep(t)
    \/ StopCardEventMonitorThread
    \/ BeginJoin
    \/ JoinStep
    \/ ChangeCards

Spec == Init /\ [][Next]_vars

(* The operating system runs every thread that can run, the timed wait     *)
(* times out, and the mutex is not withheld for ever from a thread while   *)
(* others, which wait a second each turn, take and release it.             *)
Fairness ==
    /\ WF_vars(JoinStep)
    /\ \A t \in Threads :
         WF_vars(ThreadStep(t)) /\ WF_vars(Timeout(t)) /\ SF_vars(Lock(t))

FairSpec == Spec /\ Fairness

-----------------------------------------------------------------------------
TypeOK ==
    /\ pc \in [Threads -> Points]
    /\ owner \in Threads \cup {NoThread}
    /\ interrupted \in SUBSET Threads
    /\ connected \in SUBSET Threads
    /\ watching \in SUBSET Monitors
    /\ base \in [Monitors -> SUBSET Cards]
    /\ seen \in [Monitors -> SUBSET Cards]
    /\ cards \in SUBSET Cards
    /\ signal \in [Threads -> Signals]
    /\ mainPc \in {"loop", "next", "interrupt", "wake", "wait"}
    /\ todo \in SUBSET Threads
    /\ current \in Threads \cup {NoThread}

(* Two threads never use the readers at the same time: the code between    *)
(* taking and releasing controllerChildThreadMutex, in which all smart     *)
(* card calls are made, belongs to one thread (controllerchildthread.hpp). *)
OneThreadUsesTheReaders ==
    \A s, t \in Threads : pc[s] \in Holding /\ pc[t] \in Holding => s = t

(* A monitor that is told to stop while it waits never reports a card      *)
(* event (cardeventmonitorthread.hpp:46 "If interruption was requested     *)
(* during wait, exit without emitting").                                   *)
StoppedWhileWaitingIsSilent ==
    \A m \in Monitors :
        [](pc[m] = "sleep" /\ m \in interrupted => [](signal[m] = "none"))

(* A card that was there when monitoring began and is gone, or replaced,   *)
(* for good is reported, unless the monitor is told to stop: the monitor   *)
(* polls every second, and an error of the card layer counts as "no card". *)
LostCardNoticed ==
    \A m \in Monitors :
        m \in watching /\ base[m] # {} /\ cards # base[m]
            ~> signal[m] = "cardEvent" \/ m \in interrupted
               \/ m \notin connected \/ cards = base[m]

(* The join protocol is a barrier: it returns, and only when all threads   *)
(* have ended (Controller::waitForChildThreads).                           *)
Barrier == INSTANCE JoinBarrier
    WITH running <- {t \in Threads : Alive(t)}, joining <- mainPc # "loop"

BarrierSafety == Barrier!Safety
BarrierSpec == Barrier!Spec
=============================================================================
