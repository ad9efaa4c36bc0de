----------------------------- MODULE Controller -----------------------------
(***************************************************************************)
(* Controller (src/src/controller/controller.cpp) and what it coordinates: *)
(* the queue of signals that the child threads post to the main thread,    *)
(* the child threads with the command handler they run, the dialog, and    *)
(* the responses that are written to standard output.                      *)
(*                                                                         *)
(* Signals of child threads are queued to the main thread and delivered in *)
(* order, also after thread->disconnect(); a signal whose receiver has     *)
(* been deleted is dropped.  Signals of the dialog are direct calls.  The  *)
(* fatal error dialog is a nested event loop inside onCriticalFailure:     *)
(* "depth" handlers are suspended in one, and the loop below goes on       *)
(* delivering signals.                                                     *)
(*                                                                         *)
(* The mutex and the stop protocol of the threads are in ChildThreads.     *)
(* Here what a thread does between taking and releasing the mutex is one   *)
(* step, at the moment its signals are posted: no other thread can act in  *)
(* between.  Only a card operation, which takes long, has a beginning and  *)
(* an end, and a join waits for one child after the other.                 *)
(*                                                                         *)
(* Objects live in slots that are used again when an object is deleted, so *)
(* the bounds limit what exists at one time, not how often it is created.  *)
(***************************************************************************)
EXTENDS Naturals, FiniteSets, Sequences, SequencesExt

CONSTANTS
    Commands,      \* commands the browser may send in this instance
    PinModes,      \* how the PIN may be entered: keyboard, pinpad, external
    RunOutcomes,   \* what reading the certificates may end in
    CardOutcomes,  \* what the authenticate or sign card operation may end in
    PinFailures,   \* with what status and count of retries a PIN may be refused
    UserActs,      \* what the user may do
    Safari,        \* TRUE: the macOS Safari extension's containing app
    MaxCardMoves,  \* bound: times the card is put in, taken out or not seen
    MaxThreads,    \* bound: thread objects that exist at one time
    MaxWindows,    \* bound: dialogs that exist at one time
    MaxQueue,      \* bound: signals waiting in the event queue
    MaxDepth,      \* bound: fatal error dialogs open inside one another
    MaxResponses   \* bound: responses that are told apart

ASSUME Bounds ==
    /\ MaxThreads \in Nat \ {0} /\ MaxWindows \in Nat \ {0} /\ MaxQueue \in Nat
    /\ MaxDepth \in Nat /\ MaxResponses \in Nat \ {0} /\ MaxCardMoves \in Nat
ASSUME Switches == Safari \in BOOLEAN
ASSUME Inputs ==
    /\ Commands \subseteq {"get-signing-certificate", "authenticate", "sign",
                    "quit", "about", "invalid"}
    /\ PinModes \subseteq {"keyboard", "pinpad", "external"}
    /\ RunOutcomes \subseteq
         {"single", "multiple", "unusable", "none", "mismatch", "retriable", "fatal"}
    /\ CardOutcomes \subseteq {"success", "retriable", "fatal"}
    /\ PinFailures \subseteq
         {"wrong", "blocked", "length", "cancelled", "disabled", "unknown"}
             \X {"left", "none", "unknown"}
    /\ UserActs \subseteq {"ok", "cancel", "again", "reselect", "close", "hasty"}

Threads == 1 .. MaxThreads
Windows == 1 .. MaxWindows
None == 0       \* no thread, no window

VARIABLES
    \* the command and its environment
    cmd,         \* the command that was read
    mode,        \* how this reader and card take the PIN
    card,        \* TRUE while a supported card is in a reader
    moves,       \* how often it has been put in, taken out or not seen
    \* the main thread
    pc,          \* start, loop, join, unwind or exited
    cont,        \* what follows the join: restart or exit
    depth,       \* onCriticalFailure handlers suspended in the fatal error dialog
    quitting,    \* QCoreApplication::quit() has been called
    queue,       \* posted signals
    todo,        \* child threads that waitForChildThreads has still to stop
    current,     \* the one it is waiting for
    children,    \* the thread objects, in the order they were created
    responses,   \* what has been written to standard output
    \* the child threads
    kind, st, interrupted, connected,
    dialog,      \* the window pointer a confirm thread was given
    \* the dialogs
    window,      \* Controller::window
    live,        \* dialogs that have not been deleted
    page,        \* what each dialog shows
    right,       \* its currentCommand is the command, not INSERT_CARD
    choice,      \* it has certificates to choose from
    pin,         \* TRUE while a dialog caches a PIN for getPin()
    \* connections of the command handler's signals
    toWindow,    \* certificate and PIN signals, one entry for each connect()
    toController,
    toThreads    \* CommandHandler::retry, to the run threads

envVars == <<cmd, mode, card, moves>>
joinVars == <<todo, current>>
threadVars == <<kind, st, children, interrupted, connected, dialog>>
windowVars == <<window, live, page, right, choice, pin>>
handlerVars == <<toWindow, toController, toThreads>>
mainVars == <<pc, cont, depth, quitting, todo, current, responses>>
vars == <<envVars, mainVars, queue, threadVars, windowVars, handlerVars>>

(* A signal in the queue: its name, its receiver or None for Controller,   *)
(* what it carries, and the event loop level a deferred delete waits for.  *)
Sig(k, o) == [k |-> k, o |-> o, d |-> "", l |-> 0]
SigWith(k, o, d) == [k |-> k, o |-> o, d |-> d, l |-> 0]
DeleteLater(k, o, level) == [k |-> k, o |-> o, d |-> "", l |-> level]

(* The elements of s at the positions in keep, in their order.             *)
Nth(keep, n) == CHOOSE i \in keep : Cardinality({j \in keep : j <= i}) = n
Part(s, keep) == [n \in 1 .. Cardinality(keep) |-> s[Nth(keep, n)]]

Pollers == {"waitForCard", "monitor"}
CommandThreads == {"run", "confirm"}
Running(t) == st[t] \notin {"free", "done"}
FreeThreads == {t \in Threads : st[t] = "free"}
FreeWindows == Windows \ live

-----------------------------------------------------------------------------
Init ==
    /\ cmd \in Commands /\ mode \in PinModes /\ card \in BOOLEAN /\ moves = 0
    /\ pc = "start" /\ cont = "" /\ depth = 0 /\ quitting = FALSE
    /\ queue = <<>> /\ todo = <<>> /\ children = <<>> /\ current = None /\ responses = <<>>
    /\ kind = [t \in Threads |-> ""] /\ st = [t \in Threads |-> "free"]
    /\ interrupted = {} /\ connected = {}
    /\ dialog = [t \in Threads |-> None]
    /\ window = None /\ live = {}
    /\ page = [w \in Windows |-> ""] /\ right = [w \in Windows |-> TRUE]
    /\ choice = [w \in Windows |-> FALSE] /\ pin = [w \in Windows |-> FALSE]
    /\ toWindow = <<>> /\ toController = FALSE /\ toThreads = {}

-----------------------------------------------------------------------------
(* Pieces of the main thread's handlers.  "q" is the queue they find.      *)

Write(r) ==
    responses' = IF Len(responses) < MaxResponses THEN Append(responses, r) ELSE responses

(* new thread, its connections, start().                                   *)
StartThread(k, w) ==
    LET t == Min(FreeThreads) IN
    /\ FreeThreads # {}
    /\ kind' = [kind EXCEPT ![t] = k]
    /\ st' = [st EXCEPT ![t] = "ready"]
    /\ children' = Append(children, t)
    /\ connected' = connected \cup {t}
    /\ dialog' = [dialog EXCEPT ![t] = w]

(* emit stopCardEventMonitorThread(): only a running thread takes notice.  *)
StoppedPollers ==
    interrupted \cup {t \in Threads : kind[t] \in Pollers /\ Running(t)}

(* disposeUI: the dialog's signals are disconnected, it is closed, and it  *)
(* is deleted once control is back in this event loop level.               *)
DisposedQueue(q, level) ==
    IF window = None THEN q ELSE Append(q, DeleteLater("deleteWindow", window, level))

DisposeUI(q) ==
    /\ queue' = DisposedQueue(q, depth)
    /\ window' = None
    /\ UNCHANGED <<live, page, right, choice, pin>>

(* Plausible bug: the children are not waited for.                         *)
BeginJoin_Nobody(next) ==
    /\ pc' = "join"
    /\ cont' = next
    /\ todo' = <<>>
    /\ UNCHANGED <<current, depth, quitting>>

(* waitForChildThreads begins, with the list of findChildren.              *)
BeginJoin(next) ==
    /\ pc' = "join"
    /\ cont' = next
    /\ todo' = children
    /\ UNCHANGED <<current, depth, quitting>>

(* finish(), after a response has been written.                            *)
Finish(q) ==
    /\ DisposeUI(q)
    /\ BeginJoin("exit")
    /\ UNCHANGED <<threadVars, handlerVars, envVars>>

(* onDialogCancel.                                                         *)
OnDialogCancel(q) == Write("cancelled") /\ Finish(q)

(* onCommandHandlerConfirmCompleted.                                       *)
OnCommandHandlerConfirmCompleted(q) == Write("success") /\ Finish(q)

(* onCriticalFailure up to showFatalError(), whose exec() is a new event   *)
(* loop; the rest is CloseFatalError and Unwind.                           *)
OnCriticalFailure(q) ==
    /\ depth < MaxDepth
    /\ interrupted' = StoppedPollers
    /\ DisposeUI(q)
    /\ IF Safari THEN Write("fatal") ELSE UNCHANGED responses
    /\ depth' = depth + 1
    /\ pc' = "loop"
    /\ UNCHANGED <<cont, quitting, joinVars, kind, st, children, connected, dialog,
                   handlerVars, envVars>>

(* Plausible bug: the command handler's signals stay connected.            *)
OnRetry_StillConnected(q) ==
    /\ DisposeUI(q)
    /\ BeginJoin("restart")
    /\ UNCHANGED <<responses, threadVars, handlerVars, envVars>>

(* onRetry up to the join; StartCommandExecution follows it.               *)
OnRetry(q) ==
    /\ DisposeUI(q)
    /\ toWindow' = <<>> /\ toController' = FALSE /\ toThreads' = {}
    /\ BeginJoin("restart")
    /\ UNCHANGED <<responses, threadVars, envVars>>

(* startCommandExecution: the thread that waits for a card, the handler's  *)
(* connections to Controller, and createWindow.                            *)
StartCommandExecution ==
    /\ FreeWindows # {}
    /\ LET w == Min(FreeWindows) IN
         /\ window' = w
         /\ live' = live \cup {w}
         /\ page' = [page EXCEPT ![w] = "wait"]
         /\ right' = [right EXCEPT ![w] = TRUE]
         /\ choice' = [choice EXCEPT ![w] = FALSE]
         /\ pin' = [pin EXCEPT ![w] = FALSE]
    /\ StartThread("waitForCard", None)
    /\ toController' = TRUE
    /\ UNCHANGED <<interrupted, toWindow, toThreads>>

(* onCardsAvailable: without a window it throws and is a critical failure. *)
OnCardsAvailable(q) ==
    \/ /\ window = None
       /\ OnCriticalFailure(q)
    \/ /\ window # None
       /\ StartThread("run", None)
       /\ page' = [page EXCEPT ![window] = "wait"]
       /\ right' = [right EXCEPT ![window] = TRUE]
       /\ toWindow' = Append(toWindow, window)
       /\ toThreads' = toThreads \cup {Min(FreeThreads)}
       /\ queue' = q
       /\ UNCHANGED <<interrupted, window, live, choice, pin, toController, mainVars, envVars>>

(* onCertificatesLoaded: a monitor for the time the user takes.            *)
OnCertificatesLoaded(q) ==
    /\ StartThread("monitor", None)
    /\ queue' = q
    /\ UNCHANGED <<interrupted, windowVars, handlerVars, mainVars, envVars>>

(* onConfirmCommandHandler, from onDialogOK or the pin pad prompt.         *)
OnConfirmCommandHandler(q) ==
    /\ interrupted' = StoppedPollers
    /\ StartThread("confirm", window)
    /\ queue' = q
    /\ UNCHANGED <<handlerVars, mainVars, envVars>>

-----------------------------------------------------------------------------
(* The dialog, as far as the controller can tell (the whole of it is in    *)
(* Dialog).  Pages: wait and alert have no OK button, select asks for a    *)
(* certificate, pin for the PIN, pinpad shows the PIN pad progress bar and *)
(* ignores reject(), busy is pin or select after OK, retry has a "Try      *)
(* again" button, blocked can only be cancelled.                           *)

ShowPage(w, p) == page' = [page EXCEPT ![w] = p]

(* A slot of the dialog that changes its page and nothing else.            *)
PageOnly(w, p, q) ==
    /\ ShowPage(w, p)
    /\ queue' = q
    /\ UNCHANGED <<window, live, right, choice, pin, threadVars, handlerVars, mainVars, envVars>>

Ignored(q) ==
    queue' = q /\ UNCHANGED <<windowVars, threadVars, handlerVars, mainVars, envVars>>

(* onSingleCertificateReady for a certificate that can be used: with a PIN *)
(* pad the confirm thread starts at once.                                  *)
PromptForPin(w, q) ==
    IF mode = "pinpad"
    THEN /\ ShowPage(w, "pinpad")
         /\ OnConfirmCommandHandler(q)
         /\ UNCHANGED <<window, live, right, choice, pin>>
    ELSE PageOnly(w, "pin", q)

OnSingleCertificateReady(w, d, q) ==
    \/ ~right[w] /\ OnCriticalFailure(q)
    \/ right[w] /\ d = "unusable" /\ PageOnly(w, "blocked", q)
    \/ /\ right[w] /\ d = "single"
       /\ IF cmd = "get-signing-certificate" THEN PageOnly(w, "select", q) ELSE PromptForPin(w, q)

OnMultipleCertificatesReady(w, q) ==
    \/ ~right[w] /\ OnCriticalFailure(q)
    \/ /\ right[w]
       /\ ShowPage(w, "select")
       /\ choice' = [choice EXCEPT ![w] = TRUE]
       /\ queue' = q
       /\ UNCHANGED <<window, live, right, pin, threadVars, handlerVars, mainVars, envVars>>

OnSmartCardStatusUpdate(q) ==
    IF window = None THEN Ignored(q)
    ELSE /\ ShowPage(window, "alert")
         /\ right' = [right EXCEPT ![window] = FALSE]
         /\ queue' = q
         /\ UNCHANGED <<window, live, choice, pin, threadVars, handlerVars, mainVars, envVars>>

(* Plausible bug: the progress bar stays after a failure on the PIN pad.   *)
PageAfterPinFailure_PinPadStays(p, d) == IF d = "fatal" THEN "blocked" ELSE p

(* Plausible bug: the PIN input is shown again whatever asked for the PIN. *)
PageAfterPinFailure_Keyboard(p, d) ==
    IF d = "fatal" THEN "blocked" ELSE IF p \in {"select", "blocked"} THEN p ELSE "pin"

(* onVerifyPinFailed: with the progress bar on show only a new attempt     *)
(* from the start is offered, else the PIN may be typed again.  No other   *)
(* page is left: OK is disabled there or hidden, which leaves a choice of  *)
(* certificates or "Try again" with nothing but Cancel, unless a           *)
(* certificate may be clicked on again.                                    *)
PageAfterPinFailure(p, d) ==
    CASE d = "fatal" /\ p \in {"pin", "pinpad", "busy", "blocked"} -> "blocked"
      [] d # "fatal" /\ p = "pinpad" -> "retry"
      [] d # "fatal" /\ p \in {"busy", "pin"} -> "pin"
      [] d # "fatal" /\ p \in {"select", "blocked"} -> p
      [] p \in {"wait", "alert"} -> p
      [] OTHER -> "alert"

OnVerifyPinFailed(w, d, q) == PageOnly(w, PageAfterPinFailure(page[w], d), q)

-----------------------------------------------------------------------------
(* The event loop.                                                         *)

(* A deferred delete waits until control is back in the loop it was asked  *)
(* for in, or in an outer one; other signals are delivered in order.       *)
Deliverable(e) == e.k \in {"deleteWindow", "deleteThread"} => depth <= e.l

Idle == \A i \in 1 .. Len(queue) : ~Deliverable(queue[i])

NextSignal ==
    Min({i \in 1 .. Len(queue) : Deliverable(queue[i])})

Refers(e, k, o) == e.o = o /\ e.k \in k
WindowSignals == {"certificateReady", "mismatch", "verifyPinFailed", "deleteWindow"}
ThreadSignals == {"retryHandler", "finished", "deleteThread"}
Without(q, k, o) == Part(q, {i \in 1 .. Len(q) : ~Refers(q[i], k, o)})

(* The dialog is deleted: what is posted to it is dropped, and so are the  *)
(* handler's connections to it.                                            *)
DeleteWindow(w, q) ==
    /\ live' = live \ {w}
    /\ page' = [page EXCEPT ![w] = ""]
    /\ right' = [right EXCEPT ![w] = TRUE]
    /\ choice' = [choice EXCEPT ![w] = FALSE]
    /\ pin' = [pin EXCEPT ![w] = FALSE]
    /\ toWindow' = Part(toWindow, {i \in 1 .. Len(toWindow) : toWindow[i] # w})
    /\ queue' = Without(q, WindowSignals, w)
    /\ UNCHANGED <<window, toController, toThreads, threadVars, mainVars, envVars>>

(* Plausible bug: a deleted thread stays in the list of children.          *)
FreeThread_StaysChild(t) ==
    /\ kind' = [kind EXCEPT ![t] = ""]
    /\ st' = [st EXCEPT ![t] = "free"]
    /\ interrupted' = interrupted \ {t}
    /\ connected' = connected \ {t}
    /\ dialog' = [dialog EXCEPT ![t] = None]
    /\ toThreads' = toThreads \ {t}
    /\ UNCHANGED <<children, toWindow, toController>>

(* The thread object is gone and its slot free.                            *)
FreeThread(t) ==
    /\ kind' = [kind EXCEPT ![t] = ""]
    /\ st' = [st EXCEPT ![t] = "free"]
    /\ interrupted' = interrupted \ {t}
    /\ connected' = connected \ {t}
    /\ dialog' = [dialog EXCEPT ![t] = None]
    /\ children' = Part(children, {i \in 1 .. Len(children) : children[i] # t})
    /\ toThreads' = toThreads \ {t}
    /\ UNCHANGED <<toWindow, toController>>

DeleteThread(t, q) ==
    /\ FreeThread(t)
    /\ queue' = Without(q, ThreadSignals, t)
    /\ UNCHANGED <<windowVars, mainVars, envVars>>

(* The slot of the dialog, if it has not been disposed of: a dialog that   *)
(* waits for its deletion is closed and its signals are disconnected.      *)
DeliverToWindow(e, q) ==
    LET w == e.o IN
    \/ w # window /\ Ignored(q)
    \/ w = window /\ e.k = "certificateReady" /\ e.d = "multiple"
       /\ OnMultipleCertificatesReady(w, q)
    \/ w = window /\ e.k = "certificateReady" /\ e.d # "multiple"
       /\ OnSingleCertificateReady(w, e.d, q)
    \/ w = window /\ e.k = "mismatch" /\ PageOnly(w, "retry", q)
    \/ w = window /\ e.k = "verifyPinFailed" /\ OnVerifyPinFailed(w, e.d, q)

(* Controller::retry, which the dialog's onRetry is connected to.          *)
OnRetrySignal(q) == IF window = None THEN Ignored(q) ELSE PageOnly(window, "retry", q)

DeliverToController(e, q) ==
    \/ e.k = "cardsAvailable" /\ OnCardsAvailable(q)
    \/ e.k = "statusUpdate" /\ OnSmartCardStatusUpdate(q)
    \/ e.k = "certificatesLoaded" /\ OnCertificatesLoaded(q)
    \/ e.k = "cardEvent" /\ OnRetry(q)
    \/ e.k = "retry" /\ OnRetrySignal(q)
    \/ e.k = "completed" /\ OnCommandHandlerConfirmCompleted(q)
    \/ e.k = "cancel" /\ OnDialogCancel(q)
    \/ e.k = "failure" /\ OnCriticalFailure(q)
    \/ e.k = "quit" /\ quitting' = TRUE /\ pc' = "unwind" /\ queue' = q
       /\ UNCHANGED <<cont, depth, joinVars, responses, windowVars, threadVars, handlerVars,
                      envVars>>

(* The finished() lambda and CommandHandler::retry reach the thread object;*)
(* the latter goes on to Controller::retry if the thread is still wired.   *)
DeliverToThread(e, q) ==
    \/ e.k = "finished" /\ Ignored(Append(q, DeleteLater("deleteThread", e.o, depth)))
    \/ e.k = "retryHandler" /\ e.o \in connected /\ OnRetrySignal(q)
    \/ e.k = "retryHandler" /\ e.o \notin connected /\ Ignored(q)

Deliver ==
    /\ pc = "loop"
    /\ ~Idle
    /\ LET e == queue[NextSignal]
           q == RemoveAt(queue, NextSignal)
       IN  \/ e.k = "deleteWindow" /\ DeleteWindow(e.o, q)
           \/ e.k = "deleteThread" /\ DeleteThread(e.o, q)
           \/ e.k \in WindowSignals \ {"deleteWindow"} /\ DeliverToWindow(e, q)
           \/ e.k \in ThreadSignals \ {"deleteThread"} /\ DeliverToThread(e, q)
           \/ e.o = None /\ DeliverToController(e, q)

-----------------------------------------------------------------------------
(* The main thread apart from its event loop.                              *)

(* Controller::run: the command has been read from standard input.         *)
Run ==
    /\ pc = "start"
    /\ \/ /\ cmd = "quit"
          /\ Write("quit")
          /\ Finish(queue)
       \/ /\ cmd = "invalid"
          /\ OnCriticalFailure(queue)
       \/ /\ cmd = "about"
          /\ pc' = "loop"
          /\ UNCHANGED <<envVars, cont, depth, quitting, joinVars, responses, queue,
                         threadVars, windowVars, handlerVars>>
       \/ /\ cmd \notin {"quit", "invalid", "about"}
          /\ StartCommandExecution
          /\ pc' = "loop"
          /\ UNCHANGED <<cont, depth, quitting, joinVars, responses, queue, envVars>>

(* waitForChildThreads: disconnect and interrupt one child, then wait for  *)
(* it.  Without its connections the object of a thread that has ended is   *)
(* inert, so its slot is free although it lives as long as the controller. *)
StopChild ==
    /\ pc = "join" /\ current = None /\ todo # <<>>
    /\ LET t == Head(todo) IN
         /\ current' = t
         /\ connected' = connected \ {t}
         /\ interrupted' = IF Running(t) THEN interrupted \cup {t} ELSE interrupted
    /\ todo' = Tail(todo)
    /\ UNCHANGED <<envVars, pc, cont, depth, quitting, responses, queue,
                   kind, st, children, dialog, windowVars, handlerVars>>

WaitForChild ==
    /\ pc = "join" /\ current # None
    /\ ~Running(current)
    /\ FreeThread(current)
    /\ queue' = Without(queue, ThreadSignals, current)
    /\ current' = None
    /\ UNCHANGED <<envVars, pc, cont, depth, quitting, todo, responses, windowVars>>

JoinIsOver == pc = "join" /\ current = None /\ todo = <<>>

(* The rest of onRetry.                                                    *)
Restart ==
    /\ JoinIsOver /\ cont = "restart"
    /\ StartCommandExecution
    /\ pc' = "loop" /\ cont' = ""
    /\ UNCHANGED <<envVars, depth, quitting, joinVars, responses, queue>>

(* Plausible bug: finished() is not emitted.                               *)
EmitFinished_Forgotten ==
    /\ JoinIsOver /\ cont = "exit"
    /\ pc' = IF quitting THEN "unwind" ELSE "loop"
    /\ cont' = ""
    /\ UNCHANGED <<envVars, depth, quitting, joinVars, responses, queue,
                   threadVars, windowVars, handlerVars>>

(* The rest of finish(): finished() makes Application::requestQuit post    *)
(* the call of quit() behind everything posted before.  The Safari app     *)
(* runs the controller in a loop of its own (mac/main.mm), which           *)
(* finished() ends at once unless a fatal error dialog is still open in it.*)
EmitFinished ==
    /\ JoinIsOver /\ cont = "exit"
    /\ queue' = IF Safari \/ quitting THEN queue ELSE Append(queue, Sig("quit", None))
    /\ quitting' = (quitting \/ Safari)
    /\ pc' = IF quitting' /\ (Safari => depth = 0) THEN "unwind" ELSE "loop"
    /\ cont' = ""
    /\ UNCHANGED <<envVars, depth, joinVars, responses, threadVars, windowVars, handlerVars>>

(* Plausible bug: the error is shown to the user but not written.          *)
ReportFatalError_Silent ==
    /\ depth' = depth - 1
    /\ queue' = DisposedQueue(queue, depth - 1)
    /\ window' = None
    /\ pc' = "join" /\ cont' = "exit"
    /\ todo' = children
    /\ UNCHANGED <<envVars, quitting, current, responses, threadVars, live, page, right, choice,
                   pin, handlerVars>>

(* The rest of onCriticalFailure, when the innermost showFatalError()      *)
(* comes back.                                                             *)
ReportFatalError ==
    /\ depth' = depth - 1
    /\ IF Safari THEN UNCHANGED responses ELSE Write("fatal")
    /\ queue' = DisposedQueue(queue, depth - 1)
    /\ window' = None
    /\ pc' = "join" /\ cont' = "exit"
    /\ todo' = children
    /\ UNCHANGED <<envVars, quitting, current, threadVars, live, page, right, choice, pin, handlerVars>>

(* quit() ends all event loops, and with them the suspended handlers.      *)
Unwind ==
    /\ pc = "unwind"
    /\ \/ depth > 0 /\ ReportFatalError
       \/ /\ depth = 0
          /\ pc' = "exited"
          /\ UNCHANGED <<envVars, cont, depth, quitting, joinVars, responses, queue,
                         threadVars, windowVars, handlerVars>>

MainStep == Run \/ Deliver \/ StopChild \/ WaitForChild \/ Restart \/ EmitFinished \/ Unwind

-----------------------------------------------------------------------------
(* The child threads.  Signals are emitted while the mutex is held.        *)

Room(n) == Len(queue) + n <= MaxQueue

(* Signals of the thread object itself, and of the command handler.        *)
Own(t, k) == IF t \in connected THEN <<Sig(k, None)>> ELSE <<>>
HandlerToController(k) == IF toController THEN <<Sig(k, None)>> ELSE <<>>
HandlerToWindows(k, d) == [i \in 1 .. Len(toWindow) |-> SigWith(k, toWindow[i], d)]
CertificatesReady(d) ==
    HandlerToController("certificatesLoaded") \o HandlerToWindows("certificateReady", d)
(* Plausible bug: Controller is not told when the PIN is asked for again.  *)
VerifyPinFailed_Unmonitored(d) == HandlerToWindows("verifyPinFailed", d)

VerifyPinFailed(d) ==
    HandlerToController("certificatesLoaded") \o HandlerToWindows("verifyPinFailed", d)
HandlerRetry == SetToSeq({Sig("retryHandler", t) : t \in toThreads})

Post(s) == Room(Len(s)) /\ queue' = queue \o s

Goto(t, from, to) == st[t] = from /\ st' = [st EXCEPT ![t] = to]

ChildOnly == UNCHANGED <<envVars, mainVars, windowVars>>
SameThread == UNCHANGED <<kind, children, interrupted, connected, dialog>>

(* controllerChildThreadMutex is free: no card operation is going on.      *)
MutexFree == \A t \in Threads : st[t] # "card"

(* run() returns.  Its finished() signal deletes the object later; that    *)
(* matters only for the run thread, which relays the handler's retry.      *)
End(t, s) == Post(s) /\ FreeThread(t)

Ended(t) == IF t \in connected THEN <<Sig("finished", t)>> ELSE <<>>

(* WaitForCardThread: report the cards, or that there are none and wait a  *)
(* second.  The same status posted again before it was delivered would     *)
(* only be shown twice, so it is posted once.                              *)
StatusPending == \E i \in 1 .. Len(queue) : queue[i].k = "statusUpdate"
NoCardStatus(t) == IF StatusPending THEN <<>> ELSE Own(t, "statusUpdate")

(* An error of the smart card layer looks like a reader without a card.    *)
NoCardFound ==
    \/ ~card /\ UNCHANGED moves
    \/ card /\ moves < MaxCardMoves /\ moves' = moves + 1

WaitForCard(t) ==
    /\ kind[t] = "waitForCard" /\ MutexFree
    /\ \/ card /\ End(t, Own(t, "cardsAvailable")) /\ UNCHANGED moves
       \/ t \in interrupted /\ NoCardFound /\ End(t, NoCardStatus(t))
       \/ /\ t \notin interrupted /\ NoCardFound
          /\ Post(NoCardStatus(t))
          /\ st' = [st EXCEPT ![t] = "waiting"]
          /\ UNCHANGED handlerVars /\ SameThread
       \/ "fatal" \in RunOutcomes /\ End(t, Own(t, "failure")) /\ UNCHANGED moves
    /\ UNCHANGED <<cmd, mode, card, mainVars, windowVars>>

(* Plausible bug: a monitor that waits does not look at the flag again.    *)
MonitorCards_Deaf(t) ==
    /\ kind[t] = "monitor" /\ MutexFree
    /\ \/ /\ card /\ t \notin interrupted
          /\ Goto(t, "ready", "waiting")
          /\ UNCHANGED <<moves, queue, handlerVars>> /\ SameThread
       \/ st[t] = "ready" /\ t \in interrupted /\ End(t, <<>>) /\ UNCHANGED moves
       \/ st[t] = "waiting" /\ NoCardFound /\ End(t, Own(t, "cardEvent"))
    /\ UNCHANGED <<cmd, mode, card, mainVars, windowVars>>

(* CardEventMonitorThread: the list of cards at the start, for which there *)
(* must be a card, then one look a second; the flag is tested after the    *)
(* look and before the signal.                                             *)
MonitorCards(t) ==
    /\ kind[t] = "monitor" /\ MutexFree
    /\ \/ /\ card /\ t \notin interrupted
          /\ Goto(t, "ready", "waiting")
          /\ UNCHANGED <<moves, queue, handlerVars>> /\ SameThread
       \/ t \in interrupted /\ End(t, <<>>) /\ UNCHANGED moves
       \/ /\ st[t] = "waiting" /\ t \notin interrupted
          /\ NoCardFound
          /\ End(t, Own(t, "cardEvent"))
    /\ UNCHANGED <<cmd, mode, card, mainVars, windowVars>>

(* What CertificateReader::run (Sign: emitCertificatesReady) emits, and    *)
(* what ControllerChildThread::run makes of what it throws.                *)
RunSignals(t, o) ==
    CASE o \in {"single", "multiple", "unusable"} -> CertificatesReady(o)
      [] o = "none" -> HandlerRetry
      [] o = "mismatch" -> HandlerToWindows("mismatch", "")
      [] o = "retriable" -> Own(t, "retry")
      [] o = "fatal" -> Own(t, "failure")

RunPossible(o) ==
    /\ o \in RunOutcomes
    /\ o = "mismatch" => cmd = "sign"
    /\ o = "multiple" => cmd # "sign"
    /\ card \/ o = "retriable"

RunCommand(t) ==
    /\ kind[t] = "run" /\ MutexFree
    /\ Goto(t, "ready", "done")
    /\ \E o \in RunOutcomes : RunPossible(o) /\ Post(RunSignals(t, o) \o Ended(t))
    /\ UNCHANGED handlerVars /\ SameThread /\ ChildOnly

(* readerHasPinPad() and providesExternalPinDialog() in getPin().          *)
NeedsPin == cmd # "get-signing-certificate" /\ mode = "keyboard"

(* Plausible bug: the PIN is read but not taken from the dialog.           *)
GetPin_Kept(t) ==
    /\ kind[t] = "confirm" /\ MutexFree
    /\ Goto(t, "ready", "card")
    /\ UNCHANGED <<envVars, mainVars, queue, windowVars, handlerVars>> /\ SameThread

(* getPin: the dialog's cached PIN is taken, once.                         *)
GetPin(t) ==
    /\ kind[t] = "confirm" /\ MutexFree /\ st[t] = "ready"
    /\ \/ /\ ~NeedsPin
          /\ Goto(t, "ready", "card")
          /\ UNCHANGED <<pin, queue, handlerVars>> /\ SameThread
       \/ /\ NeedsPin /\ pin[dialog[t]]
          /\ Goto(t, "ready", "card")
          /\ pin' = [pin EXCEPT ![dialog[t]] = FALSE]
          /\ UNCHANGED <<queue, handlerVars>> /\ SameThread
       \/ /\ NeedsPin /\ ~pin[dialog[t]]
          /\ End(t, Own(t, "failure"))
          /\ UNCHANGED pin
    /\ UNCHANGED <<envVars, mainVars, window, live, page, right, choice>>

(* What onConfirm of the handlers emits for a PIN that was refused; an     *)
(* entry that timed out is treated like one that was cancelled.            *)
HandlerSignals(status) ==
    CASE status = "cancelled" -> <<>>
      [] status = "disabled" -> HandlerRetry
      [] status \in {"wrong", "length"} -> VerifyPinFailed("again")
      [] status \in {"blocked", "unknown"} -> VerifyPinFailed("fatal")

(* onConfirm rethrows the failure if no retry is left.  Authenticate takes *)
(* an unknown number of retries (-1) for none, Sign does not.              *)
Rethrown(retries) == retries \in IF cmd = "authenticate" THEN {"none", "unknown"} ELSE {"none"}

(* What ControllerChildThread::run makes of a failure that gets there.     *)
CaughtSignals(t, status) ==
    CASE status = "cancelled" -> Own(t, "cancel")
      [] status \in {"blocked", "length"} -> <<>>
      [] status \in {"wrong", "disabled", "unknown"} -> Own(t, "failure")

PinFailureSignals(t, status, retries) ==
    HandlerSignals(status) \o IF Rethrown(retries) THEN CaughtSignals(t, status) ELSE <<>>

CardSignals(t, o) ==
    CASE o = "success" -> Own(t, "completed")
      [] o = "retriable" -> Own(t, "retry")
      [] o = "fatal" -> Own(t, "failure")

(* The card operation has ended; without a card it fails.                  *)
Confirm(t) ==
    /\ kind[t] = "confirm"
    /\ st[t] = "card"
    /\ \/ \E o \in CardOutcomes : (card \/ o = "retriable") /\ End(t, CardSignals(t, o))
       \/ /\ card /\ cmd # "get-signing-certificate"
          /\ \E f \in PinFailures : End(t, PinFailureSignals(t, f[1], f[2]))
    /\ ChildOnly

ThreadStep(t) ==
    WaitForCard(t) \/ MonitorCards(t) \/ RunCommand(t) \/ GetPin(t) \/ Confirm(t)

-----------------------------------------------------------------------------
(* The user.  Without "hasty" the user is slower than the event queue.     *)

UserMay(act) ==
    /\ act \in UserActs
    /\ pc = "loop"
    /\ "hasty" \notin UserActs => Idle

(* The fatal error dialog is modal: only it can be used while it is open.  *)
UserMayOnPage(act, pages) ==
    UserMay(act) /\ depth = 0 /\ window # None /\ page[window] \in pages

(* OK: confirm the certificate or the PIN, which is cached for getPin();   *)
(* authenticate goes from the choice of a certificate to its PIN.          *)
ClickOK ==
    \/ /\ UserMayOnPage("ok", {"pin"})
       /\ ShowPage(window, "busy")
       /\ pin' = [pin EXCEPT ![window] = (mode = "keyboard")]
       /\ OnConfirmCommandHandler(queue)
       /\ UNCHANGED <<window, live, right, choice>>
    \/ /\ UserMayOnPage("ok", {"select"})
       /\ cmd = "get-signing-certificate"
       /\ ShowPage(window, "busy")
       /\ OnConfirmCommandHandler(queue)
       /\ UNCHANGED <<window, live, right, choice, pin>>
    \/ /\ UserMayOnPage("ok", {"select"})
       /\ cmd # "get-signing-certificate"
       /\ \E d \in {"single", "unusable"} : OnSingleCertificateReady(window, d, queue)

(* reject(): the Cancel button, Escape or the window's close button.       *)
ClickCancel ==
    /\ UserMayOnPage("cancel", {"wait", "alert", "select", "pin", "busy", "retry", "blocked"})
    /\ OnDialogCancel(queue)

TryAgain ==
    /\ UserMayOnPage("again", {"retry"})
    /\ OnRetry(queue)

(* While the confirm thread is at work a click on a certificate enables OK *)
(* again, and "select another certificate" stays on the PIN page.          *)
SelectAnother ==
    /\ \/ UserMayOnPage("reselect", {"busy"}) /\ cmd = "get-signing-certificate"
       \/ UserMayOnPage("reselect", {"pin", "busy", "blocked"}) /\ choice[window]
          /\ cmd = "authenticate"
    /\ PageOnly(window, "select", queue)

CloseFatalError ==
    /\ UserMay("close")
    /\ depth > 0
    /\ ReportFatalError

(* The about page, for which no command was sent: its finished() signal is *)
(* connected to Application::requestQuit.                                  *)
CloseAboutPage ==
    /\ UserMay("close")
    /\ cmd = "about" /\ queue = <<>>
    /\ queue' = <<Sig("quit", None)>>
    /\ UNCHANGED <<envVars, mainVars, threadVars, windowVars, handlerVars>>

ChangeCard ==
    /\ pc # "exited"
    /\ moves < MaxCardMoves
    /\ moves' = moves + 1
    /\ card' = ~card
    /\ UNCHANGED <<cmd, mode, mainVars, queue, threadVars, windowVars, handlerVars>>

UserStep == ClickOK \/ ClickCancel \/ TryAgain \/ SelectAnother \/ CloseFatalError \/ CloseAboutPage

Next ==
    \/ MainStep
    \/ pc # "exited" /\ \E t \in Threads : ThreadStep(t)
    \/ UserStep
    \/ ChangeCard

Spec == Init /\ [][Next]_vars

(* The main loop and the threads run; the mutex is not withheld for ever   *)
(* from a thread by polling threads that wait a second each turn; a card   *)
(* operation ends.  Nothing is assumed of the user or the card.            *)
FairSpec ==
    /\ Spec
    /\ WF_vars(MainStep)
    /\ \A t \in Threads : SF_vars(ThreadStep(t))

-----------------------------------------------------------------------------
Pages == {"", "wait", "alert", "select", "pin", "pinpad", "busy", "retry", "blocked"}

SignalKinds ==
    WindowSignals \cup ThreadSignals \cup
        {"cardsAvailable", "statusUpdate", "certificatesLoaded", "cardEvent", "retry",
         "completed", "cancel", "failure", "quit"}
Signals ==
    [k : SignalKinds, o : {None} \cup Threads \cup Windows,
     d : {"", "single", "multiple", "unusable", "again", "fatal"}, l : 0 .. MaxDepth]

EnvTypes == cmd \in Commands /\ mode \in PinModes /\ card \in BOOLEAN /\ moves \in 0 .. MaxCardMoves

MainTypes ==
    /\ pc \in {"start", "loop", "join", "unwind", "exited"}
    /\ cont \in {"", "restart", "exit"}
    /\ depth \in 0 .. MaxDepth
    /\ quitting \in BOOLEAN
    /\ queue \in Seq(Signals)
    /\ todo \in Seq(Threads)
    /\ current \in Threads \cup {None}
    /\ responses \in BoundedSeq({"success", "cancelled", "fatal", "quit"}, MaxResponses)

ThreadTypes ==
    /\ kind \in [Threads -> {""} \cup Pollers \cup CommandThreads]
    /\ st \in [Threads -> {"free", "ready", "card", "waiting", "done"}]
    /\ children \in Seq(Threads) /\ IsInjective(children)
    /\ Range(children) = {t \in Threads : st[t] # "free"}
    /\ interrupted \subseteq Threads
    /\ connected \subseteq Threads
    /\ dialog \in [Threads -> Windows \cup {None}]

DialogTypes ==
    /\ window \in Windows \cup {None}
    /\ live \subseteq Windows
    /\ page \in [Windows -> Pages]
    /\ right \in [Windows -> BOOLEAN]
    /\ choice \in [Windows -> BOOLEAN]
    /\ pin \in [Windows -> BOOLEAN]
    /\ toWindow \in Seq(Windows)
    /\ toController \in BOOLEAN
    /\ toThreads \subseteq Threads

TypeOK == EnvTypes /\ MainTypes /\ ThreadTypes /\ DialogTypes

(* A confirm thread has the dialog as a raw pointer and calls getPin() on  *)
(* it: the dialog exists until it has done so (disposeUI uses deleteLater, *)
(* and the handlers join the threads before they return to the event loop).*)
WindowOutlivesConfirm ==
    \A t \in Threads :
        kind[t] = "confirm" /\ st[t] = "ready" => dialog[t] \in live

(* A PIN is cached in a dialog only as long as a confirm thread is on its  *)
(* way to take it: it never stays in memory (webeiddialog.cpp:231 getPin). *)
NoStalePin ==
    \A w \in live :
        pin[w] => \E t \in Threads :
                      kind[t] = "confirm" /\ dialog[t] = w /\ st[t] = "ready"

(* Every confirm thread that will ask for the cached PIN finds one: the    *)
(* other outcome is signauthutils.cpp:70 THROW(ProgrammingError, "Empty    *)
(* PIN").                                                                  *)
PinForEveryConfirm ==
    \A t \in Threads :
        kind[t] = "confirm" /\ st[t] = "ready" /\ NeedsPin => pin[dialog[t]]

(* The command starts again without anything left of the last attempt: no  *)
(* thread, no connection of the command handler (controller.cpp:211-214    *)
(* "Before restarting, wait until child threads finish").                  *)
RestartIsClean ==
    [][cont = "restart" /\ cont' = "" =>
          /\ \A t \in Threads : ~Running(t)
          /\ toWindow = <<>> /\ ~toController /\ toThreads = {}]_vars

(* The user is never left with a page on which nothing can be done and     *)
(* nothing will happen: as long as the dialog waits for the card or the    *)
(* PIN pad, a thread is at work or a signal is on its way.                 *)
NoDeadEnd ==
    pc = "loop" /\ depth = 0 /\ window # None /\ page[window] \in {"wait", "busy", "pinpad"}
        => ~Idle \/ \E t \in Threads : Running(t) /\ kind[t] # "monitor"

(* README.md:238 "supports unexpected events like card or reader removal   *)
(* or insertion during all operations": while the user is asked for a      *)
(* certificate or a PIN, the cards are monitored.                          *)
PromptIsMonitored ==
    pc = "loop" /\ Idle /\ window # None /\ page[window] \in {"select", "pin"}
        => \E t \in Threads : kind[t] = "monitor" /\ Running(t) /\ t \notin interrupted

(* Nothing is written after the response that was sent (README.md:183      *)
(* "The application exits after writing the result to the standard         *)
(* output").                                                               *)
SingleResponse == Len(responses) <= 1

(* When the event loop is left for good no child thread is running: the    *)
(* thread objects are destroyed with Controller, and a QThread that is     *)
(* destroyed while it runs takes the program down.                         *)
ExitsClean == pc = "exited" => \A t \in Threads : ~Running(t)

(* What the code foresees, a wrong PIN or an error that can be tried again *)
(* (commandhandler.hpp:45 "expected invalid PIN entry errors",                *)
(* retriableerror.hpp), does not end in the fatal error dialog.            *)
Foreseen ==
    /\ cmd # "invalid"
    /\ RunOutcomes \cap {"fatal"} = {}
    /\ CardOutcomes \cap {"fatal"} = {}
    /\ \A f \in PinFailures : f[1] = "wrong" /\ f[2] # "none"
ForeseenIsNotFatal == Foreseen => depth = 0

(* Once a response has been written the program ends, whatever else is     *)
(* still on its way: no thread or signal can hold it up.                   *)
AnswerLeadsToExit == responses # <<>> ~> pc = "exited"

(* A new attempt begins once the old one is being wound up: the wait for   *)
(* the child threads comes back (controller.cpp:214-217).                  *)
RestartComesBack == cont = "restart" ~> pc = "loop" /\ window # None

(* The user does not wait for ever: a page without a choice gives way to   *)
(* another one, or the dialog to the next.                                 *)
NoChoice == window # None /\ page[window] \in {"wait", "busy", "pinpad"}
WaitingEnds == NoChoice ~> ~NoChoice

(* Each dialog shows its pages in the order that the widgets know (Dialog  *)
(* implements the same pages): no status of the readers comes up behind a  *)
(* prompt (webeiddialog.cpp:243 onSmartCardStatusUpdate), no prompt where  *)
(* the card is still looked for, no retry behind a PIN that is verified.   *)
Shown(w) == INSTANCE DialogPages WITH
    command <- cmd, page <- page[w], several <- choice[w]

EveryDialogShowsPages ==
    [][\A w \in Windows : [Shown(w)!Next]_(Shown(w)!vars)]_vars

(* The certificates come to a dialog that knows which command it is for:   *)
(* no status of the readers has made it wait for a card again meanwhile    *)
(* (webeiddialog.cpp:245, 305, 361).                                       *)
CertificatesAreExpected ==
    pc = "loop" /\ ~Idle =>
        LET e == queue[NextSignal] IN
        e.k = "certificateReady" /\ e.o = window => right[window]

(* One run of the program is a session as the browser expects it.          *)
Browser == INSTANCE Session WITH
    Responses <- {"success", "cancelled", "fatal", "quit"},
    output <- responses,
    exited <- pc = "exited"

OneAnswerSession == Browser!Spec

(* Without what fairness adds: one response, and no exit before it.        *)
OneAnswerOnly == Browser!Safety
=============================================================================
