------------------------- MODULE Controller_proofs --------------------------
(***************************************************************************)
(* Proofs about the controller, its child threads and its dialogs, for any *)
(* number of threads, dialogs, signals and fatal error dialogs, any        *)
(* outcome of the card and any user: the types, that the dialog a confirm  *)
(* thread was given outlives its call, that a cached PIN is on its way to  *)
(* a confirm thread, and that a new attempt begins with nothing left of    *)
(* the last.                                                               *)
(*                                                                         *)
(* The invariant says whom each signal in the queue is addressed to and    *)
(* that its receiver is there, which threads the join still has to wait    *)
(* for, and what the deferred delete of a dialog has to wait for. The      *)
(* lemmas say first what the pieces of the handlers do, then that each     *)
(* handler of the main thread, each step of a thread and each act of the   *)
(* user preserves the invariant.                                           *)
(*                                                                         *)
(* The second part proves that the user is never left waiting for nothing: *)
(* while the page of the dialog offers no choice, a thread is at work that *)
(* will say something to the dialog, or a signal is in the queue that will *)
(* change the page. That needs the order of the queue only for             *)
(* CommandHandler::retry, which is sent to the run thread's object and is  *)
(* lost if that object is deleted first. So the proof says of every        *)
(* handler what it leaves of the queue, and of every thread which signals  *)
(* it leaves behind.                                                       *)
(***************************************************************************)
EXTENDS ControllerSequences_proofs

-----------------------------------------------------------------------------
(* The invariant.                                                          *)

(* The signals in the queue.                                               *)
Posted == Range(queue)

(* The receiver of a signal is there: the dialog has not been deleted, the *)
(* thread object is that of a command (only those relay the handler and    *)
(* are deleted by their finished() signal), and a deferred delete is for a *)
(* dialog that has been disposed of or a thread that has ended.            *)
Addressed(e) ==
    /\ e.k \in WindowSignals => e.o \in live
    /\ e.k = "deleteWindow" => e.o # window
    /\ e.k \in ThreadSignals => e.o \in Threads /\ kind[e.o] = "run"
    /\ e.k \in {"finished", "deleteThread"} => st[e.o] = "done"
    /\ e.k \notin WindowSignals \cup ThreadSignals => e.o = None
    /\ e.k = "verifyPinFailed" => cmd # "get-signing-certificate"

SignalsAreAddressed == \A e \in Posted : Addressed(e)

(* Threads keep their object as long as they run, and their connections as *)
(* long as nobody waits for them (waitForChildThreads disconnects).        *)
ThreadsAreKept ==
    /\ \A t \in Threads : kind[t] # "" => st[t] # "free"
    /\ \A t \in toThreads : kind[t] = "run"
    /\ pc # "join" => \A t \in Threads : st[t] # "free" => t \in connected

(* The dialog and the connections to dialogs are those of dialogs that     *)
(* exist.                                                                  *)
WindowsAreLive ==
    /\ window \in live \cup {None}
    /\ Range(toWindow) \subseteq live

(* Nothing has been done before Controller::run.                           *)
StartIsFresh ==
    pc = "start" => 
       /\ queue = <<>> /\ window = None /\ depth = 0
       /\ \A t \in Threads : st[t] = "free"

(* While the children are waited for there is no dialog, and each child    *)
(* that is left is on the list or being waited for.                        *)
JoinWaitsForAll ==
    /\ pc = "join" => window = None /\ \A t \in Threads : st[t] # "free" => t \in Range(todo) \cup {current}

(* The dialog that a confirm thread will call getPin() on exists; its      *)
(* deferred delete, if there is one, waits for an event loop that is       *)
(* suspended: the children are waited for before control comes back to it. *)
ConfirmHasDialog ==
    \A t \in Threads : kind[t] = "confirm" /\ st[t] = "ready" =>
        /\ dialog[t] \in live
        /\ pc # "join" => \A e \in Posted : e.k = "deleteWindow" /\ e.o = dialog[t] => e.l < depth

(* onRetry has cut the connections of the command handler before it waits  *)
(* for the children.                                                       *)
RestartIsDue ==
    cont = "restart" => pc = "join" /\ toWindow = <<>> /\ ~toController /\ toThreads = {}

(* A PIN is cached only where getPin() asks for one, and a confirm thread  *)
(* will; the PIN page belongs to the commands that have a PIN.             *)
PinIsWanted ==
    /\ \A w \in live : pin[w] =>
          NeedsPin /\ \E t \in Threads : kind[t] = "confirm" /\ dialog[t] = w /\ st[t] = "ready"
    /\ \A w \in Windows : page[w] = "pin" => cmd # "get-signing-certificate"

(* The command handler's signals are connected to the dialog before a page *)
(* comes up from which the user or the PIN pad starts the confirm thread,  *)
(* and before a run thread has something to say.                           *)
WindowIsConnected ==
    window # None =>
        /\ \A e \in Posted : e.o = window /\ e.k \in WindowSignals => window \in Range(toWindow)
        /\ \A t \in Threads : kind[t] = "run" => window \in Range(toWindow) /\ t \in toThreads
        /\ page[window] \in {"select", "pin", "pinpad", "busy", "blocked"} => window \in Range(toWindow)

(* The inductive invariant.                                                *)
Inv ==
    /\ TypeOK
    /\ SignalsAreAddressed
    /\ ThreadsAreKept
    /\ WindowsAreLive
    /\ StartIsFresh
    /\ JoinWaitsForAll
    /\ ConfirmHasDialog
    /\ RestartIsDue
    /\ PinIsWanted
    /\ WindowIsConnected

-----------------------------------------------------------------------------
(* What the pieces of the handlers do.                                     *)

(* What the program may write to standard output.                          *)
Answers == {"success", "cancelled", "fatal", "quit"}

LEMMA WriteType ==
    ASSUME responses \in BoundedSeq(Answers, MaxResponses), NEW r \in Answers, Write(r)
    PROVE  responses' \in BoundedSeq(Answers, MaxResponses)
<1>1. MaxResponses \in Nat
  BY Bounds
<1>2. responses \in Seq(Answers) /\ Len(responses) <= MaxResponses
  BY <1>1, BoundedSequences
<1>3. responses' \in Seq(Answers) /\ Len(responses') <= MaxResponses
  BY <1>1, <1>2 DEF Write
<1> QED
  BY <1>1, <1>3, BoundedSequences

(* A new thread gets a slot that is free ...                               *)
LEMMA FreshThread ==
    ASSUME FreeThreads # {}
    PROVE  Min(FreeThreads) \in Threads /\ st[Min(FreeThreads)] = "free"
<1>1. FreeThreads \subseteq Nat
  BY Bounds DEF FreeThreads, Threads
<1>2. Min(FreeThreads) \in FreeThreads
  BY <1>1, MinIsMember
<1> QED
  BY <1>2 DEF FreeThreads

(* ... and so does a new dialog.                                           *)
LEMMA FreshWindow ==
    ASSUME FreeWindows # {}
    PROVE  Min(FreeWindows) \in Windows /\ Min(FreeWindows) \notin live /\ Min(FreeWindows) # None
<1>1. FreeWindows \subseteq Nat
  BY Bounds DEF FreeWindows, Windows
<1>2. Min(FreeWindows) \in FreeWindows
  BY <1>1, MinIsMember
<1> QED
  BY <1>2, Bounds DEF FreeWindows, Windows, None

(* new thread: one slot is taken, and the list of children has it.         *)
LEMMA StartThreadEffect ==
    ASSUME ThreadTypes, NEW k \in Pollers \cup CommandThreads, NEW w \in Windows \cup {None},
           StartThread(k, w), interrupted' \subseteq Threads
    PROVE  /\ Min(FreeThreads) \in Threads /\ st[Min(FreeThreads)] = "free"
           /\ kind' = [kind EXCEPT ![Min(FreeThreads)] = k]
           /\ st' = [st EXCEPT ![Min(FreeThreads)] = "ready"]
           /\ connected' = connected \cup {Min(FreeThreads)}
           /\ dialog' = [dialog EXCEPT ![Min(FreeThreads)] = w]
           /\ ThreadTypes'
<1> DEFINE t == Min(FreeThreads)
<1>1. /\ FreeThreads # {}
      /\ kind' = [kind EXCEPT ![t] = k]
      /\ st' = [st EXCEPT ![t] = "ready"]
      /\ children' = Append(children, t)
      /\ connected' = connected \cup {t}
      /\ dialog' = [dialog EXCEPT ![t] = w]
  BY DEF StartThread
<1>2. t \in Threads /\ st[t] = "free"
  BY <1>1, FreshThread
<1> HIDE DEF t
<1>0. /\ children \in Seq(Threads) /\ IsInjective(children)
      /\ Range(children) = {u \in Threads : st[u] # "free"}
  BY DEF ThreadTypes
<1>3. children' \in Seq(Threads) /\ Range(children') = Range(children) \cup {t}
  BY <1>0, <1>1, <1>2, RangeOfAppend
<1>4. Range(children') = {u \in Threads : st'[u] # "free"}
  BY <1>1, <1>2, <1>3 DEF ThreadTypes
<1>5. IsInjective(children')
  <2>1. /\ DOMAIN children = 1 .. Len(children) /\ DOMAIN children' = 1 .. (Len(children) + 1)
        /\ \A i \in 1 .. Len(children) : children'[i] = children[i]
        /\ children'[Len(children) + 1] = t /\ Len(children) \in Nat
    BY <1>0, <1>1, <1>2, AppendProperties
  <2>2. \A i \in 1 .. Len(children) : children[i] # t
    <3>1. t \notin Range(children)
      BY <1>2 DEF ThreadTypes
    <3> QED
      BY <3>1, <2>1 DEF Range
  <2> SUFFICES ASSUME NEW a \in 1 .. (Len(children) + 1), NEW b \in 1 .. (Len(children) + 1),
                      children'[a] = children'[b]
               PROVE  a = b
    BY <2>1 DEF IsInjective
  <2>3. CASE a \in 1 .. Len(children) /\ b \in 1 .. Len(children)
    BY <2>1, <2>3 DEF IsInjective, ThreadTypes
  <2>4. CASE a = Len(children) + 1 \/ b = Len(children) + 1
    BY <2>1, <2>2, <2>4
  <2> QED
    BY <2>1, <2>3, <2>4
<1>6. /\ kind' \in [Threads -> {""} \cup Pollers \cup CommandThreads]
      /\ st' \in [Threads -> {"free", "ready", "card", "waiting", "done"}]
      /\ connected' \subseteq Threads
      /\ dialog' \in [Threads -> Windows \cup {None}]
  BY <1>1, <1>2 DEF ThreadTypes
<1>7. ThreadTypes'
  BY <1>3, <1>4, <1>5, <1>6 DEF ThreadTypes
<1> QED
  BY <1>1, <1>2, <1>7 DEF t

(* A thread object is deleted: its slot is free and no list has it.        *)
LEMMA FreeThreadEffect ==
    ASSUME ThreadTypes, NEW t \in Threads, FreeThread(t)
    PROVE  /\ kind' = [kind EXCEPT ![t] = ""]
           /\ st' = [st EXCEPT ![t] = "free"]
           /\ interrupted' = interrupted \ {t}
           /\ connected' = connected \ {t}
           /\ dialog' = [dialog EXCEPT ![t] = None]
           /\ toThreads' = toThreads \ {t}
           /\ UNCHANGED <<toWindow, toController>>
           /\ ThreadTypes'
<1> DEFINE keep == {i \in 1 .. Len(children) : children[i] # t}
<1>1. /\ kind' = [kind EXCEPT ![t] = ""]
      /\ st' = [st EXCEPT ![t] = "free"]
      /\ interrupted' = interrupted \ {t}
      /\ connected' = connected \ {t}
      /\ dialog' = [dialog EXCEPT ![t] = None]
      /\ children' = Part(children, keep)
      /\ toThreads' = toThreads \ {t}
      /\ UNCHANGED <<toWindow, toController>>
  BY DEF FreeThread
<1>0. children \in Seq(Threads) /\ IsInjective(children)
  BY DEF ThreadTypes
<1>2. keep \subseteq 1 .. Len(children)
  OBVIOUS
<1>3. {children[i] : i \in keep} = Range(children) \ {t}
  <2>1. DOMAIN children = 1 .. Len(children)
    BY <1>0
  <2> QED
    BY <2>1 DEF Range
<1> HIDE DEF keep
<1>4. /\ children' \in Seq(Threads) /\ IsInjective(children')
      /\ Range(children') = Range(children) \ {t}
  BY <1>0, <1>1, <1>2, <1>3, RangeOfPart
<1>5. Range(children') = {u \in Threads : st'[u] # "free"}
  BY <1>1, <1>4 DEF ThreadTypes
<1>6. /\ kind' \in [Threads -> {""} \cup Pollers \cup CommandThreads]
      /\ st' \in [Threads -> {"free", "ready", "card", "waiting", "done"}]
      /\ connected' \subseteq Threads
      /\ dialog' \in [Threads -> Windows \cup {None}]
  BY <1>1 DEF ThreadTypes
<1>7. interrupted' \subseteq Threads
  BY <1>1 DEF ThreadTypes
<1>8. ThreadTypes'
  BY <1>4, <1>5, <1>6, <1>7 DEF ThreadTypes
<1> QED
  BY <1>1, <1>8

(* The signals for a deleted object are dropped, and no others.            *)
LEMMA WithoutRange ==
    ASSUME NEW q \in Seq(Signals), NEW k, NEW o
    PROVE  /\ Without(q, k, o) \in Seq(Signals)
           /\ Range(Without(q, k, o)) = {e \in Range(q) : ~Refers(e, k, o)}
<1> DEFINE keep == {i \in 1 .. Len(q) : ~Refers(q[i], k, o)}
<1>1. keep \subseteq 1 .. Len(q)
  OBVIOUS
<1>2. {q[i] : i \in keep} = {e \in Range(q) : ~Refers(e, k, o)}
  <2>1. DOMAIN q = 1 .. Len(q)
    OBVIOUS
  <2> QED
    BY <2>1 DEF Range
<1>3. Without(q, k, o) = Part(q, keep)
  BY DEF Without
<1> HIDE DEF keep
<1> QED
  BY <1>1, <1>2, <1>3, RangeOfPart

(* A queue of signals that were all posted before.                         *)
From(q) == q \in Seq(Signals) /\ Range(q) \subseteq Posted

(* The queue after disposeUI.                                              *)
Disposed(q) ==
    /\ queue' \in Seq(Signals)
    /\ \A e \in Posted' :
          e \in Posted \/ (window # None /\ e.k = "deleteWindow" /\ e.o = window /\ e.l = depth)

LEMMA DisposedEffect ==
    ASSUME NEW q, From(q), NEW level \in 0 .. MaxDepth, DialogTypes,
           queue' = DisposedQueue(q, level)
    PROVE  /\ queue' \in Seq(Signals)
           /\ \A e \in Posted' :
                 e \in Posted \/ (window # None /\ e.k = "deleteWindow" /\ e.o = window /\ e.l = level)
<1>1. CASE window = None
  BY <1>1 DEF DisposedQueue, From, Posted
<1>2. CASE window # None
  <2> DEFINE e == DeleteLater("deleteWindow", window, level)
  <2>1. e \in Signals
    BY <1>2 DEF DeleteLater, Signals, SignalKinds, WindowSignals, DialogTypes
  <2>2. e.k = "deleteWindow" /\ e.o = window /\ e.l = level
    BY DEF DeleteLater
  <2>3. queue' = Append(q, e)
    BY <1>2 DEF DisposedQueue
  <2> HIDE DEF e
  <2>4. queue' \in Seq(Signals) /\ Posted' = Range(q) \cup {e}
    BY <2>1, <2>3, RangeOfAppend DEF From, Posted
  <2> QED
    BY <1>2, <2>2, <2>4 DEF From
<1> QED
  BY <1>1, <1>2

LEMMA PostedTypes ==
    ASSUME queue \in Seq(Signals)
    PROVE  Posted \subseteq Signals /\ \A e \in Posted : e.l \in Nat
<1>1. Posted \subseteq Signals
  BY RangeOfSeq DEF Posted
<1>2. \A e \in Signals : e.l \in 0 .. MaxDepth
  BY DEF Signals
<1> QED
  BY <1>1, <1>2, Bounds

LEMMA DepthType ==
    ASSUME MainTypes
    PROVE  depth \in Nat /\ depth <= MaxDepth /\ MaxDepth \in Nat
<1>1. depth \in 0 .. MaxDepth
  BY DEF MainTypes
<1> QED
  BY <1>1, Bounds

LEMMA NoneIsNoObject ==
    ASSUME DialogTypes
    PROVE  None \notin live /\ None \notin Windows /\ None \notin Threads
<1>1. None \notin Windows /\ None \notin Threads
  BY Bounds DEF Windows, Threads, None
<1> QED
  BY <1>1 DEF DialogTypes

(* The connections to a deleted dialog are cut, and no others.             *)
LEMMA WithoutWindow ==
    ASSUME NEW w, toWindow \in Seq(Windows)
    PROVE  LET s == Part(toWindow, {i \in 1 .. Len(toWindow) : toWindow[i] # w}) IN
           s \in Seq(Windows) /\ Range(s) = Range(toWindow) \ {w}
<1> DEFINE keep == {i \in 1 .. Len(toWindow) : toWindow[i] # w}
<1>1. keep \subseteq 1 .. Len(toWindow)
  OBVIOUS
<1>2. {toWindow[i] : i \in keep} = Range(toWindow) \ {w}
  <2>1. DOMAIN toWindow = 1 .. Len(toWindow)
    OBVIOUS
  <2> QED
    BY <2>1 DEF Range
<1> HIDE DEF keep
<1>3. Part(toWindow, keep) \in Seq(Windows) /\ Range(Part(toWindow, keep)) = Range(toWindow) \ {w}
  BY <1>1, <1>2, RangeOfPart
<1> QED
  BY <1>3 DEF keep

-----------------------------------------------------------------------------
(* The steps of the main thread.                                           *)

(* A slot that changes the page of the dialog and nothing else.            *)
LEMMA PageKeeps ==
    ASSUME Inv, NEW q, From(q), pc = "loop", window # None, NEW p \in Pages,
           p = "pin" => cmd # "get-signing-certificate",
           p \in {"select", "pin", "pinpad", "busy", "blocked"} => window \in Range(toWindow),
           page' = [page EXCEPT ![window] = p], right' \in [Windows -> BOOLEAN],
           choice' \in [Windows -> BOOLEAN], queue' = q,
           UNCHANGED <<window, live, pin, threadVars, handlerVars, mainVars, envVars>>
    PROVE  Inv'
<1>1. /\ EnvTypes
      /\ MainTypes
      /\ ThreadTypes
      /\ DialogTypes
      /\ SignalsAreAddressed
      /\ ThreadsAreKept
      /\ WindowsAreLive
      /\ StartIsFresh
      /\ JoinWaitsForAll
      /\ ConfirmHasDialog
      /\ RestartIsDue
      /\ PinIsWanted
      /\ WindowIsConnected
  BY DEF Inv, TypeOK
<1>2. /\ queue' \in Seq(Signals)
      /\ Posted' \subseteq Posted
      /\ UNCHANGED <<cmd, mode, card, moves>>
      /\ UNCHANGED <<pc, cont, depth, quitting, todo, current, responses>>
      /\ UNCHANGED <<kind, st, children, interrupted, connected, dialog>>
      /\ UNCHANGED <<window, live, pin>>
      /\ UNCHANGED <<toWindow, toController, toThreads>>
  BY DEF From, Posted, windowVars, threadVars, handlerVars, mainVars, joinVars, envVars
<1>11. EnvTypes'
  BY <1>1, <1>2 DEF EnvTypes
<1>12. MainTypes'
  BY <1>1, <1>2 DEF MainTypes
<1>13. ThreadTypes'
  BY <1>1, <1>2 DEF ThreadTypes
<1>14. DialogTypes'
  BY <1>1, <1>2 DEF DialogTypes
<1>15. SignalsAreAddressed'
  BY <1>1, <1>2 DEF SignalsAreAddressed, Addressed
<1>16. ThreadsAreKept'
  BY <1>1, <1>2 DEF ThreadsAreKept
<1>17. WindowsAreLive'
  BY <1>1, <1>2 DEF WindowsAreLive
<1>18. StartIsFresh'
  BY <1>1, <1>2 DEF StartIsFresh
<1>19. JoinWaitsForAll'
  BY <1>1, <1>2 DEF JoinWaitsForAll
<1>20. ConfirmHasDialog'
  BY <1>1, <1>2 DEF ConfirmHasDialog
<1>21. RestartIsDue'
  BY <1>1, <1>2 DEF RestartIsDue
<1>22. PinIsWanted'
  BY <1>1, <1>2 DEF PinIsWanted, NeedsPin
<1>23. WindowIsConnected'
  BY <1>1, <1>2 DEF WindowIsConnected
<1> QED
  BY <1>11, <1>12, <1>13, <1>14, <1>15, <1>16, <1>17, <1>18, <1>19, <1>20, <1>21, <1>22, <1>23 DEF Inv, TypeOK

(* Only the queue changes, or the card.                                    *)
LEMMA QueueKeeps ==
    ASSUME Inv, pc # "start", card' \in BOOLEAN, moves' \in 0 .. MaxCardMoves,
           queue' \in Seq(Signals), NEW new, Posted' \subseteq Posted \cup new,
           \A e \in new : e.k \notin WindowSignals /\ Addressed(e),
           UNCHANGED <<cmd, mode, windowVars, threadVars, handlerVars, mainVars>>
    PROVE  Inv'
<1>1. /\ EnvTypes
      /\ MainTypes
      /\ ThreadTypes
      /\ DialogTypes
      /\ SignalsAreAddressed
      /\ ThreadsAreKept
      /\ WindowsAreLive
      /\ StartIsFresh
      /\ JoinWaitsForAll
      /\ ConfirmHasDialog
      /\ RestartIsDue
      /\ PinIsWanted
      /\ WindowIsConnected
  BY DEF Inv, TypeOK
<1>2. /\ UNCHANGED <<cmd, mode>>
      /\ UNCHANGED <<pc, cont, depth, quitting, todo, current, responses>>
      /\ UNCHANGED <<kind, st, children, interrupted, connected, dialog>>
      /\ UNCHANGED window
      /\ UNCHANGED <<live, page, right, choice, pin>>
      /\ UNCHANGED <<toWindow, toController, toThreads>>
  BY DEF windowVars, threadVars, handlerVars, mainVars, joinVars, envVars
<1>11. EnvTypes'
  BY <1>1, <1>2 DEF EnvTypes
<1>12. MainTypes'
  BY <1>1, <1>2 DEF MainTypes
<1>13. ThreadTypes'
  BY <1>1, <1>2 DEF ThreadTypes
<1>14. DialogTypes'
  BY <1>1, <1>2 DEF DialogTypes
<1>15. SignalsAreAddressed'
  BY <1>1, <1>2 DEF SignalsAreAddressed, Addressed
<1>16. ThreadsAreKept'
  BY <1>1, <1>2 DEF ThreadsAreKept
<1>17. WindowsAreLive'
  BY <1>1, <1>2 DEF WindowsAreLive
<1>18. StartIsFresh'
  BY <1>1, <1>2 DEF StartIsFresh
<1>19. JoinWaitsForAll'
  BY <1>1, <1>2 DEF JoinWaitsForAll
<1>20. ConfirmHasDialog'
  BY <1>1, <1>2 DEF ConfirmHasDialog, WindowSignals
<1>21. RestartIsDue'
  BY <1>1, <1>2 DEF RestartIsDue
<1>22. PinIsWanted'
  BY <1>1, <1>2 DEF PinIsWanted, NeedsPin
<1>23. WindowIsConnected'
  BY <1>1, <1>2 DEF WindowIsConnected
<1> QED
  BY <1>11, <1>12, <1>13, <1>14, <1>15, <1>16, <1>17, <1>18, <1>19, <1>20, <1>21, <1>22, <1>23 DEF Inv, TypeOK

(* finish().                                                               *)
LEMMA FinishKeeps ==
    ASSUME Inv, NEW q, From(q), pc \in {"start", "loop"}, NEW r \in Answers, Write(r), Finish(q)
    PROVE  Inv'
<1>1. /\ EnvTypes
      /\ MainTypes
      /\ ThreadTypes
      /\ DialogTypes
      /\ SignalsAreAddressed
      /\ ThreadsAreKept
      /\ WindowsAreLive
      /\ StartIsFresh
      /\ JoinWaitsForAll
      /\ ConfirmHasDialog
      /\ RestartIsDue
      /\ PinIsWanted
      /\ WindowIsConnected
  BY DEF Inv, TypeOK
<1>2. /\ Disposed(q)
      /\ window' = None
      /\ pc' = "join" /\ cont' = "exit" /\ todo' = children
      /\ UNCHANGED <<depth, quitting, current>>
      /\ UNCHANGED <<cmd, mode, card, moves>>
      /\ UNCHANGED <<kind, st, children, interrupted, connected, dialog>>
      /\ UNCHANGED <<live, page, right, choice, pin>>
      /\ UNCHANGED <<toWindow, toController, toThreads>>
      /\ responses' \in BoundedSeq(Answers, MaxResponses)
  <2>1. responses' \in BoundedSeq(Answers, MaxResponses)
    BY <1>1, WriteType DEF MainTypes, Answers
  <2>2. queue' = DisposedQueue(q, depth)
    BY DEF Finish, DisposeUI
  <2>3. Disposed(q)
    BY <1>1, <2>2, DisposedEffect DEF MainTypes, Disposed
  <2> QED
    BY <2>1, <2>3 DEF Finish, DisposeUI, BeginJoin, windowVars, threadVars, handlerVars, mainVars, joinVars, envVars
<1>11. EnvTypes'
  BY <1>1, <1>2 DEF EnvTypes
<1>12. MainTypes'
  BY <1>1, <1>2 DEF MainTypes, ThreadTypes, Answers, Disposed
<1>13. ThreadTypes'
  BY <1>1, <1>2 DEF ThreadTypes
<1>14. DialogTypes'
  BY <1>1, <1>2 DEF DialogTypes
<1>15. SignalsAreAddressed'
  BY <1>1, <1>2, NoneIsNoObject DEF SignalsAreAddressed, Addressed, Disposed, WindowSignals, ThreadSignals, WindowsAreLive
<1>16. ThreadsAreKept'
  BY <1>1, <1>2 DEF ThreadsAreKept
<1>17. WindowsAreLive'
  BY <1>1, <1>2 DEF WindowsAreLive
<1>18. StartIsFresh'
  BY <1>1, <1>2 DEF StartIsFresh
<1>19. JoinWaitsForAll'
  BY <1>1, <1>2 DEF JoinWaitsForAll, ThreadTypes
<1>20. ConfirmHasDialog'
  BY <1>1, <1>2 DEF ConfirmHasDialog
<1>21. RestartIsDue'
  BY <1>1, <1>2 DEF RestartIsDue
<1>22. PinIsWanted'
  BY <1>1, <1>2 DEF PinIsWanted, NeedsPin
<1>23. WindowIsConnected'
  BY <1>1, <1>2 DEF WindowIsConnected
<1> QED
  BY <1>11, <1>12, <1>13, <1>14, <1>15, <1>16, <1>17, <1>18, <1>19, <1>20, <1>21, <1>22, <1>23 DEF Inv, TypeOK

(* onRetry.                                                                *)
LEMMA RetryKeeps ==
    ASSUME Inv, NEW q, From(q), pc = "loop", OnRetry(q)
    PROVE  Inv'
<1>1. /\ EnvTypes
      /\ MainTypes
      /\ ThreadTypes
      /\ DialogTypes
      /\ SignalsAreAddressed
      /\ ThreadsAreKept
      /\ WindowsAreLive
      /\ StartIsFresh
      /\ JoinWaitsForAll
      /\ ConfirmHasDialog
      /\ RestartIsDue
      /\ PinIsWanted
      /\ WindowIsConnected
  BY DEF Inv, TypeOK
<1>2. /\ Disposed(q)
      /\ window' = None
      /\ pc' = "join" /\ cont' = "restart" /\ todo' = children
      /\ UNCHANGED <<depth, quitting, current, responses>>
      /\ UNCHANGED <<cmd, mode, card, moves>>
      /\ UNCHANGED <<kind, st, children, interrupted, connected, dialog>>
      /\ UNCHANGED <<live, page, right, choice, pin>>
      /\ toWindow' = <<>> /\ toController' = FALSE /\ toThreads' = {}
  <2>2. queue' = DisposedQueue(q, depth)
    BY DEF OnRetry, DisposeUI
  <2>3. Disposed(q)
    BY <1>1, <2>2, DisposedEffect DEF MainTypes, Disposed
  <2> QED
    BY <2>3 DEF OnRetry, DisposeUI, BeginJoin, windowVars, threadVars, handlerVars, mainVars, joinVars, envVars
<1>3. Range(toWindow') = {} /\ toWindow' \in Seq(Windows)
  BY <1>2, EmptyRange
<1>11. EnvTypes'
  BY <1>1, <1>2 DEF EnvTypes
<1>12. MainTypes'
  BY <1>1, <1>2 DEF MainTypes, ThreadTypes, Answers, Disposed
<1>13. ThreadTypes'
  BY <1>1, <1>2 DEF ThreadTypes
<1>14. DialogTypes'
  BY <1>1, <1>2, <1>3 DEF DialogTypes
<1>15. SignalsAreAddressed'
  BY <1>1, <1>2, NoneIsNoObject DEF SignalsAreAddressed, Addressed, Disposed, WindowSignals, ThreadSignals, WindowsAreLive
<1>16. ThreadsAreKept'
  BY <1>1, <1>2 DEF ThreadsAreKept
<1>17. WindowsAreLive'
  BY <1>1, <1>2, <1>3 DEF WindowsAreLive
<1>18. StartIsFresh'
  BY <1>1, <1>2 DEF StartIsFresh
<1>19. JoinWaitsForAll'
  BY <1>1, <1>2 DEF JoinWaitsForAll, ThreadTypes
<1>20. ConfirmHasDialog'
  BY <1>1, <1>2 DEF ConfirmHasDialog
<1>21. RestartIsDue'
  BY <1>1, <1>2 DEF RestartIsDue
<1>22. PinIsWanted'
  BY <1>1, <1>2 DEF PinIsWanted, NeedsPin
<1>23. WindowIsConnected'
  BY <1>1, <1>2 DEF WindowIsConnected
<1> QED
  BY <1>11, <1>12, <1>13, <1>14, <1>15, <1>16, <1>17, <1>18, <1>19, <1>20, <1>21, <1>22, <1>23 DEF Inv, TypeOK

(* onCriticalFailure up to the dialog it shows.                            *)
LEMMA CriticalFailureKeeps ==
    ASSUME Inv, NEW q, From(q), pc \in {"start", "loop"}, OnCriticalFailure(q)
    PROVE  Inv'
<1>1. /\ EnvTypes
      /\ MainTypes
      /\ ThreadTypes
      /\ DialogTypes
      /\ SignalsAreAddressed
      /\ ThreadsAreKept
      /\ WindowsAreLive
      /\ StartIsFresh
      /\ JoinWaitsForAll
      /\ ConfirmHasDialog
      /\ RestartIsDue
      /\ PinIsWanted
      /\ WindowIsConnected
  BY DEF Inv, TypeOK
<1>2. /\ Disposed(q)
      /\ window' = None
      /\ pc' = "loop" /\ depth' = depth + 1 /\ depth < MaxDepth
      /\ interrupted' = StoppedPollers
      /\ UNCHANGED <<cont, quitting, todo, current>>
      /\ UNCHANGED <<cmd, mode, card, moves>>
      /\ UNCHANGED <<kind, st, children, connected, dialog>>
      /\ UNCHANGED <<live, page, right, choice, pin>>
      /\ UNCHANGED <<toWindow, toController, toThreads>>
      /\ responses' \in BoundedSeq(Answers, MaxResponses)
  <2>1. responses' \in BoundedSeq(Answers, MaxResponses)
    BY <1>1, WriteType DEF MainTypes, Answers, OnCriticalFailure
  <2>2. queue' = DisposedQueue(q, depth)
    BY DEF OnCriticalFailure, DisposeUI
  <2>3. Disposed(q)
    BY <1>1, <2>2, DisposedEffect DEF MainTypes, Disposed
  <2> QED
    BY <2>1, <2>3 DEF OnCriticalFailure, DisposeUI, windowVars, threadVars, handlerVars, mainVars, joinVars, envVars
<1>3. depth \in Nat /\ \A f \in Posted : f.l \in Nat
  BY <1>1, DepthType, PostedTypes DEF MainTypes
<1>11. EnvTypes'
  BY <1>1, <1>2 DEF EnvTypes
<1>12. MainTypes'
  <2>1. depth + 1 \in 0 .. MaxDepth
    BY <1>1, <1>2, DepthType
  <2> QED
    BY <1>1, <1>2, <2>1 DEF MainTypes, Answers, Disposed
<1>13. ThreadTypes'
  BY <1>1, <1>2 DEF ThreadTypes, StoppedPollers
<1>14. DialogTypes'
  BY <1>1, <1>2 DEF DialogTypes
<1>15. SignalsAreAddressed'
  BY <1>1, <1>2, NoneIsNoObject DEF SignalsAreAddressed, Addressed, Disposed, WindowSignals, ThreadSignals, WindowsAreLive
<1>16. ThreadsAreKept'
  BY <1>1, <1>2 DEF ThreadsAreKept
<1>17. WindowsAreLive'
  BY <1>1, <1>2 DEF WindowsAreLive
<1>18. StartIsFresh'
  BY <1>1, <1>2 DEF StartIsFresh
<1>19. JoinWaitsForAll'
  BY <1>1, <1>2 DEF JoinWaitsForAll
<1>20. ConfirmHasDialog'
  BY <1>1, <1>2, <1>3 DEF ConfirmHasDialog, Disposed
<1>21. RestartIsDue'
  BY <1>1, <1>2 DEF RestartIsDue
<1>22. PinIsWanted'
  BY <1>1, <1>2 DEF PinIsWanted, NeedsPin
<1>23. WindowIsConnected'
  BY <1>1, <1>2 DEF WindowIsConnected
<1> QED
  BY <1>11, <1>12, <1>13, <1>14, <1>15, <1>16, <1>17, <1>18, <1>19, <1>20, <1>21, <1>22, <1>23 DEF Inv, TypeOK

(* The rest of onCriticalFailure.                                          *)
LEMMA FatalErrorKeeps ==
    ASSUME Inv, pc \in {"loop", "unwind"}, depth > 0, ReportFatalError
    PROVE  Inv'
<1>1. /\ EnvTypes
      /\ MainTypes
      /\ ThreadTypes
      /\ DialogTypes
      /\ SignalsAreAddressed
      /\ ThreadsAreKept
      /\ WindowsAreLive
      /\ StartIsFresh
      /\ JoinWaitsForAll
      /\ ConfirmHasDialog
      /\ RestartIsDue
      /\ PinIsWanted
      /\ WindowIsConnected
  BY DEF Inv, TypeOK
<1>2. /\ queue' \in Seq(Signals)
      /\ \A e \in Posted' : e \in Posted \/ (window # None /\ e.k = "deleteWindow" /\ e.o = window)
      /\ window' = None
      /\ pc' = "join" /\ cont' = "exit" /\ todo' = children /\ depth' = depth - 1
      /\ UNCHANGED <<quitting, current>>
      /\ UNCHANGED <<cmd, mode, card, moves>>
      /\ UNCHANGED <<kind, st, children, interrupted, connected, dialog>>
      /\ UNCHANGED <<live, page, right, choice, pin>>
      /\ UNCHANGED <<toWindow, toController, toThreads>>
      /\ responses' \in BoundedSeq(Answers, MaxResponses)
  <2>1. responses' \in BoundedSeq(Answers, MaxResponses)
    BY <1>1, WriteType DEF MainTypes, Answers, ReportFatalError
  <2>2. queue' = DisposedQueue(queue, depth - 1)
    BY DEF ReportFatalError
  <2>3. From(queue)
    BY <1>1 DEF MainTypes, From, Posted
  <2>5. depth - 1 \in 0 .. MaxDepth
    BY <1>1, DepthType
  <2>4. /\ queue' \in Seq(Signals)
        /\ \A e \in Posted' : e \in Posted \/ (window # None /\ e.k = "deleteWindow" /\ e.o = window)
    BY <1>1, <2>2, <2>3, <2>5, DisposedEffect
  <2> QED
    BY <2>1, <2>4 DEF ReportFatalError, windowVars, threadVars, handlerVars, mainVars, joinVars, envVars
<1>11. EnvTypes'
  BY <1>1, <1>2 DEF EnvTypes
<1>12. MainTypes'
  <2>1. depth - 1 \in 0 .. MaxDepth
    BY <1>1, DepthType
  <2> QED
    BY <1>1, <1>2, <2>1 DEF MainTypes, ThreadTypes, Answers
<1>13. ThreadTypes'
  BY <1>1, <1>2 DEF ThreadTypes
<1>14. DialogTypes'
  BY <1>1, <1>2 DEF DialogTypes
<1>15. SignalsAreAddressed'
  BY <1>1, <1>2, NoneIsNoObject DEF SignalsAreAddressed, Addressed, WindowSignals, ThreadSignals, WindowsAreLive
<1>16. ThreadsAreKept'
  BY <1>1, <1>2 DEF ThreadsAreKept
<1>17. WindowsAreLive'
  BY <1>1, <1>2 DEF WindowsAreLive
<1>18. StartIsFresh'
  BY <1>1, <1>2 DEF StartIsFresh
<1>19. JoinWaitsForAll'
  BY <1>1, <1>2 DEF JoinWaitsForAll, ThreadTypes
<1>20. ConfirmHasDialog'
  BY <1>1, <1>2 DEF ConfirmHasDialog
<1>21. RestartIsDue'
  BY <1>1, <1>2 DEF RestartIsDue
<1>22. PinIsWanted'
  BY <1>1, <1>2 DEF PinIsWanted, NeedsPin
<1>23. WindowIsConnected'
  BY <1>1, <1>2 DEF WindowIsConnected
<1> QED
  BY <1>11, <1>12, <1>13, <1>14, <1>15, <1>16, <1>17, <1>18, <1>19, <1>20, <1>21, <1>22, <1>23 DEF Inv, TypeOK

(* The deferred delete of a dialog.                                        *)
LEMMA DeleteWindowKeeps ==
    ASSUME Inv, NEW q, From(q), pc = "loop", NEW e \in Posted, e.k = "deleteWindow", depth <= e.l, DeleteWindow(e.o, q)
    PROVE  Inv'
<1>1. /\ EnvTypes
      /\ MainTypes
      /\ ThreadTypes
      /\ DialogTypes
      /\ SignalsAreAddressed
      /\ ThreadsAreKept
      /\ WindowsAreLive
      /\ StartIsFresh
      /\ JoinWaitsForAll
      /\ ConfirmHasDialog
      /\ RestartIsDue
      /\ PinIsWanted
      /\ WindowIsConnected
  BY DEF Inv, TypeOK
<1>2. /\ queue' \in Seq(Signals)
      /\ Posted' \subseteq {f \in Posted : f.o = e.o => f.k \notin WindowSignals}
      /\ e.o \in live /\ e.o # window /\ live' = live \ {e.o}
      /\ page' = [page EXCEPT ![e.o] = ""] /\ pin' = [pin EXCEPT ![e.o] = FALSE]
      /\ right' = [right EXCEPT ![e.o] = TRUE] /\ choice' = [choice EXCEPT ![e.o] = FALSE]
      /\ toWindow' \in Seq(Windows) /\ Range(toWindow') = Range(toWindow) \ {e.o}
      /\ UNCHANGED <<pc, cont, depth, quitting, todo, current, responses>>
      /\ UNCHANGED <<cmd, mode, card, moves>>
      /\ UNCHANGED <<kind, st, children, interrupted, connected, dialog>>
      /\ UNCHANGED <<window, toController, toThreads>>
  <2>1. e.o \in live /\ e.o # window
    BY <1>1 DEF SignalsAreAddressed, Addressed, WindowSignals
  <2>2. queue' = Without(q, WindowSignals, e.o)
    BY DEF DeleteWindow
  <2>3. queue' \in Seq(Signals) /\ Posted' = {f \in Range(q) : ~Refers(f, WindowSignals, e.o)}
    BY <2>2, WithoutRange DEF From, Posted
  <2>4. Posted' \subseteq {f \in Posted : f.o = e.o => f.k \notin WindowSignals}
    BY <2>3 DEF From, Refers
  <2>5. toWindow' \in Seq(Windows) /\ Range(toWindow') = Range(toWindow) \ {e.o}
    BY <1>1, WithoutWindow DEF DeleteWindow, DialogTypes
  <2> QED
    BY <2>1, <2>3, <2>4, <2>5 DEF DeleteWindow, windowVars, threadVars, handlerVars, mainVars, joinVars, envVars
<1>3. depth \in Nat /\ \A f \in Posted : f.l \in Nat
  BY <1>1, DepthType, PostedTypes DEF MainTypes
<1>11. EnvTypes'
  BY <1>1, <1>2 DEF EnvTypes
<1>12. MainTypes'
  BY <1>1, <1>2 DEF MainTypes
<1>13. ThreadTypes'
  BY <1>1, <1>2 DEF ThreadTypes
<1>14. DialogTypes'
  BY <1>1, <1>2 DEF DialogTypes, Pages
<1>15. SignalsAreAddressed'
  BY <1>1, <1>2 DEF SignalsAreAddressed, Addressed
<1>16. ThreadsAreKept'
  BY <1>1, <1>2 DEF ThreadsAreKept
<1>17. WindowsAreLive'
  BY <1>1, <1>2 DEF WindowsAreLive
<1>18. StartIsFresh'
  BY <1>1, <1>2 DEF StartIsFresh
<1>19. JoinWaitsForAll'
  BY <1>1, <1>2 DEF JoinWaitsForAll
<1>20. ConfirmHasDialog'
  <2> SUFFICES ASSUME NEW t \in Threads, kind[t] = "confirm", st[t] = "ready"
               PROVE  /\ dialog[t] \in live'
                      /\ pc # "join" => \A f \in Posted' :
                            f.k = "deleteWindow" /\ f.o = dialog[t] => f.l < depth
    BY <1>2 DEF ConfirmHasDialog
  <2>1. /\ dialog[t] \in live
        /\ \A f \in Posted : f.k = "deleteWindow" /\ f.o = dialog[t] => f.l < depth
    BY <1>1 DEF ConfirmHasDialog
  <2>2. e.o # dialog[t]
    BY <2>1, <1>3
  <2> QED
    BY <1>2, <2>1, <2>2
<1>21. RestartIsDue'
  BY <1>1, <1>2 DEF RestartIsDue
<1>22. PinIsWanted'
  BY <1>1, <1>2 DEF PinIsWanted, NeedsPin, DialogTypes
<1>23. WindowIsConnected'
  BY <1>1, <1>2 DEF WindowIsConnected, DialogTypes
<1> QED
  BY <1>11, <1>12, <1>13, <1>14, <1>15, <1>16, <1>17, <1>18, <1>19, <1>20, <1>21, <1>22, <1>23 DEF Inv, TypeOK

(* The deferred delete of a run thread.                                    *)
LEMMA DeleteThreadKeeps ==
    ASSUME Inv, NEW q, From(q), pc = "loop", NEW e \in Posted, e.k = "deleteThread", DeleteThread(e.o, q)
    PROVE  Inv'
<1>1. /\ EnvTypes
      /\ MainTypes
      /\ ThreadTypes
      /\ DialogTypes
      /\ SignalsAreAddressed
      /\ ThreadsAreKept
      /\ WindowsAreLive
      /\ StartIsFresh
      /\ JoinWaitsForAll
      /\ ConfirmHasDialog
      /\ RestartIsDue
      /\ PinIsWanted
      /\ WindowIsConnected
  BY DEF Inv, TypeOK
<1>2. /\ queue' \in Seq(Signals)
      /\ Posted' \subseteq {f \in Posted : f.o = e.o => f.k \notin ThreadSignals}
      /\ e.o \in Threads /\ kind[e.o] = "run" /\ st[e.o] = "done"
      /\ kind' = [kind EXCEPT ![e.o] = ""] /\ st' = [st EXCEPT ![e.o] = "free"]
      /\ connected' = connected \ {e.o} /\ dialog' = [dialog EXCEPT ![e.o] = None]
      /\ ThreadTypes' /\ toThreads' = toThreads \ {e.o}
      /\ UNCHANGED <<pc, cont, depth, quitting, todo, current, responses>>
      /\ UNCHANGED <<cmd, mode, card, moves>>
      /\ UNCHANGED <<window, toController, toWindow>>
      /\ UNCHANGED <<live, page, right, choice, pin>>
  <2>1. e.o \in Threads /\ kind[e.o] = "run" /\ st[e.o] = "done"
    BY <1>1 DEF SignalsAreAddressed, Addressed, ThreadSignals
  <2>2. queue' = Without(q, ThreadSignals, e.o)
    BY DEF DeleteThread
  <2>3. queue' \in Seq(Signals) /\ Posted' = {f \in Range(q) : ~Refers(f, ThreadSignals, e.o)}
    BY <2>2, WithoutRange DEF From, Posted
  <2>4. Posted' \subseteq {f \in Posted : f.o = e.o => f.k \notin ThreadSignals}
    BY <2>3 DEF From, Refers
  <2>5. FreeThread(e.o)
    BY DEF DeleteThread
  <2>6. /\ kind' = [kind EXCEPT ![e.o] = ""] /\ st' = [st EXCEPT ![e.o] = "free"]
        /\ connected' = connected \ {e.o} /\ dialog' = [dialog EXCEPT ![e.o] = None]
        /\ toThreads' = toThreads \ {e.o} /\ UNCHANGED <<toWindow, toController>>
        /\ ThreadTypes'
    BY <1>1, <2>1, <2>5, FreeThreadEffect
  <2> QED
    BY <2>1, <2>3, <2>4, <2>6 DEF DeleteThread, windowVars, threadVars, handlerVars, mainVars, joinVars, envVars
<1>3. DOMAIN kind = Threads /\ DOMAIN st = Threads /\ DOMAIN dialog = Threads
  BY <1>1 DEF ThreadTypes
<1>11. EnvTypes'
  BY <1>1, <1>2 DEF EnvTypes
<1>12. MainTypes'
  BY <1>1, <1>2 DEF MainTypes
<1>13. ThreadTypes'
  BY <1>2
<1>14. DialogTypes'
  BY <1>1, <1>2 DEF DialogTypes
<1>15. SignalsAreAddressed'
  BY <1>1, <1>2 DEF SignalsAreAddressed, Addressed, ThreadTypes, ThreadSignals
<1>16. ThreadsAreKept'
  BY <1>1, <1>2, <1>3 DEF ThreadsAreKept, DialogTypes
<1>17. WindowsAreLive'
  BY <1>1, <1>2 DEF WindowsAreLive
<1>18. StartIsFresh'
  BY <1>1, <1>2 DEF StartIsFresh
<1>19. JoinWaitsForAll'
  BY <1>1, <1>2 DEF JoinWaitsForAll, ThreadTypes
<1>20. ConfirmHasDialog'
  BY <1>1, <1>2, <1>3 DEF ConfirmHasDialog
<1>21. RestartIsDue'
  BY <1>1, <1>2 DEF RestartIsDue
<1>22. PinIsWanted'
  BY <1>1, <1>2 DEF PinIsWanted, NeedsPin, ThreadTypes
<1>23. WindowIsConnected'
  BY <1>1, <1>2 DEF WindowIsConnected, ThreadTypes
<1> QED
  BY <1>11, <1>12, <1>13, <1>14, <1>15, <1>16, <1>17, <1>18, <1>19, <1>20, <1>21, <1>22, <1>23 DEF Inv, TypeOK

(* onCertificatesLoaded.                                                   *)
LEMMA CertificatesLoadedKeeps ==
    ASSUME Inv, NEW q, From(q), pc = "loop", OnCertificatesLoaded(q)
    PROVE  Inv'
<1>1. /\ EnvTypes
      /\ MainTypes
      /\ ThreadTypes
      /\ DialogTypes
      /\ SignalsAreAddressed
      /\ ThreadsAreKept
      /\ WindowsAreLive
      /\ StartIsFresh
      /\ JoinWaitsForAll
      /\ ConfirmHasDialog
      /\ RestartIsDue
      /\ PinIsWanted
      /\ WindowIsConnected
  BY DEF Inv, TypeOK
<1> DEFINE t == Min(FreeThreads)
<1>2. /\ t \in Threads /\ st[t] = "free"
      /\ kind' = [kind EXCEPT ![t] = "monitor"]
      /\ st' = [st EXCEPT ![t] = "ready"]
      /\ connected' = connected \cup {t}
      /\ dialog' = [dialog EXCEPT ![t] = None]
      /\ ThreadTypes'
      /\ queue' \in Seq(Signals)
      /\ Posted' \subseteq Posted
      /\ UNCHANGED <<pc, cont, depth, quitting, todo, current, responses>>
      /\ UNCHANGED <<cmd, mode, card, moves>>
      /\ UNCHANGED window
      /\ UNCHANGED <<live, page, right, choice, pin>>
      /\ UNCHANGED <<toWindow, toController, toThreads>>
  <2>1. StartThread("monitor", None) /\ interrupted' \subseteq Threads
    BY <1>1 DEF OnCertificatesLoaded, ThreadTypes, StoppedPollers
  <2>2. "monitor" \in Pollers \cup CommandThreads /\ None \in Windows \cup {None}
    BY <1>1 DEF Pollers, CommandThreads, DialogTypes
  <2>3. /\ t \in Threads /\ st[t] = "free"
        /\ kind' = [kind EXCEPT ![t] = "monitor"] /\ st' = [st EXCEPT ![t] = "ready"]
        /\ connected' = connected \cup {t} /\ dialog' = [dialog EXCEPT ![t] = None]
        /\ ThreadTypes'
    BY <1>1, <2>1, <2>2, StartThreadEffect
  <2> QED
    BY <2>3 DEF OnCertificatesLoaded, From, Posted, windowVars, threadVars, handlerVars, mainVars, joinVars, envVars
<1> HIDE DEF t
<1>3. /\ DOMAIN kind = Threads /\ DOMAIN st = Threads /\ DOMAIN dialog = Threads
      /\ kind[t] = "" /\ toThreads \subseteq Threads
  BY <1>1, <1>2 DEF ThreadTypes, ThreadsAreKept, DialogTypes
<1>11. EnvTypes'
  BY <1>1, <1>2 DEF EnvTypes
<1>12. MainTypes'
  BY <1>1, <1>2 DEF MainTypes
<1>13. ThreadTypes'
  BY <1>2
<1>14. DialogTypes'
  BY <1>1, <1>2 DEF DialogTypes
<1>15. SignalsAreAddressed'
  BY <1>1, <1>2, <1>3 DEF SignalsAreAddressed, Addressed, ThreadSignals
<1>16. ThreadsAreKept'
  BY <1>1, <1>2, <1>3 DEF ThreadsAreKept
<1>17. WindowsAreLive'
  BY <1>1, <1>2 DEF WindowsAreLive
<1>18. StartIsFresh'
  BY <1>1, <1>2 DEF StartIsFresh
<1>19. JoinWaitsForAll'
  BY <1>1, <1>2 DEF JoinWaitsForAll
<1>20. ConfirmHasDialog'
  BY <1>1, <1>2, <1>3 DEF ConfirmHasDialog
<1>21. RestartIsDue'
  BY <1>1, <1>2 DEF RestartIsDue
<1>22. PinIsWanted'
  BY <1>1, <1>2, <1>3 DEF PinIsWanted, NeedsPin
<1>23. WindowIsConnected'
  BY <1>1, <1>2, <1>3 DEF WindowIsConnected
<1> QED
  BY <1>11, <1>12, <1>13, <1>14, <1>15, <1>16, <1>17, <1>18, <1>19, <1>20, <1>21, <1>22, <1>23 DEF Inv, TypeOK

(* onCardsAvailable, with a dialog.                                        *)
LEMMA CardsAvailableKeeps ==
    ASSUME Inv, NEW q, From(q), pc = "loop", window # None, OnCardsAvailable(q)
    PROVE  Inv'
<1>1. /\ EnvTypes
      /\ MainTypes
      /\ ThreadTypes
      /\ DialogTypes
      /\ SignalsAreAddressed
      /\ ThreadsAreKept
      /\ WindowsAreLive
      /\ StartIsFresh
      /\ JoinWaitsForAll
      /\ ConfirmHasDialog
      /\ RestartIsDue
      /\ PinIsWanted
      /\ WindowIsConnected
  BY DEF Inv, TypeOK
<1> DEFINE t == Min(FreeThreads)
<1>2. /\ t \in Threads /\ st[t] = "free"
      /\ kind' = [kind EXCEPT ![t] = "run"]
      /\ st' = [st EXCEPT ![t] = "ready"]
      /\ connected' = connected \cup {t}
      /\ dialog' = [dialog EXCEPT ![t] = None]
      /\ ThreadTypes'
      /\ queue' \in Seq(Signals)
      /\ Posted' \subseteq Posted
      /\ UNCHANGED <<pc, cont, depth, quitting, todo, current, responses>>
      /\ UNCHANGED <<cmd, mode, card, moves>>
      /\ UNCHANGED <<window, live, choice, pin, toController>>
      /\ page' = [page EXCEPT ![window] = "wait"]
      /\ right' = [right EXCEPT ![window] = TRUE]
      /\ toWindow' \in Seq(Windows) /\ Range(toWindow') = Range(toWindow) \cup {window}
      /\ toThreads' = toThreads \cup {t}
  <2>1. StartThread("run", None) /\ interrupted' \subseteq Threads
    BY <1>1 DEF OnCardsAvailable, ThreadTypes, StoppedPollers
  <2>2. "run" \in Pollers \cup CommandThreads /\ None \in Windows \cup {None}
    BY <1>1 DEF Pollers, CommandThreads, DialogTypes
  <2>3. /\ t \in Threads /\ st[t] = "free"
        /\ kind' = [kind EXCEPT ![t] = "run"] /\ st' = [st EXCEPT ![t] = "ready"]
        /\ connected' = connected \cup {t} /\ dialog' = [dialog EXCEPT ![t] = None]
        /\ ThreadTypes'
    BY <1>1, <2>1, <2>2, StartThreadEffect
  <2>5. toWindow' = Append(toWindow, window)
    BY DEF OnCardsAvailable
  <2>6. window \in Windows /\ toWindow \in Seq(Windows)
    BY <1>1 DEF DialogTypes
  <2>4. toWindow' \in Seq(Windows) /\ Range(toWindow') = Range(toWindow) \cup {window}
    BY <2>5, <2>6, RangeOfAppend
  <2> QED
    BY <2>3, <2>4 DEF OnCardsAvailable, From, Posted, windowVars, threadVars, handlerVars, mainVars, joinVars, envVars
<1> HIDE DEF t
<1>3. /\ DOMAIN kind = Threads /\ DOMAIN st = Threads /\ DOMAIN dialog = Threads
      /\ kind[t] = "" /\ toThreads \subseteq Threads
  BY <1>1, <1>2 DEF ThreadTypes, ThreadsAreKept, DialogTypes
<1>11. EnvTypes'
  BY <1>1, <1>2 DEF EnvTypes
<1>12. MainTypes'
  BY <1>1, <1>2 DEF MainTypes
<1>13. ThreadTypes'
  BY <1>2
<1>14. DialogTypes'
  BY <1>1, <1>2 DEF DialogTypes, Pages
<1>15. SignalsAreAddressed'
  BY <1>1, <1>2, <1>3 DEF SignalsAreAddressed, Addressed, ThreadSignals
<1>16. ThreadsAreKept'
  BY <1>1, <1>2, <1>3 DEF ThreadsAreKept
<1>17. WindowsAreLive'
  BY <1>1, <1>2 DEF WindowsAreLive, DialogTypes
<1>18. StartIsFresh'
  BY <1>1, <1>2 DEF StartIsFresh
<1>19. JoinWaitsForAll'
  BY <1>1, <1>2 DEF JoinWaitsForAll
<1>20. ConfirmHasDialog'
  BY <1>1, <1>2, <1>3 DEF ConfirmHasDialog
<1>21. RestartIsDue'
  BY <1>1, <1>2 DEF RestartIsDue
<1>22. PinIsWanted'
  BY <1>1, <1>2, <1>3 DEF PinIsWanted, NeedsPin, DialogTypes
<1>23. WindowIsConnected'
  BY <1>1, <1>2, <1>3 DEF WindowIsConnected, DialogTypes
<1> QED
  BY <1>11, <1>12, <1>13, <1>14, <1>15, <1>16, <1>17, <1>18, <1>19, <1>20, <1>21, <1>22, <1>23 DEF Inv, TypeOK

(* onConfirmCommandHandler, with what the dialog does before.              *)
LEMMA ConfirmHandlerKeeps ==
    ASSUME Inv, NEW q, From(q), pc = "loop", window # None, OnConfirmCommandHandler(q), window \in Range(toWindow),
           NEW p \in {"busy", "pinpad"}, page' = [page EXCEPT ![window] = p],
           \/ UNCHANGED pin
           \/ cmd # "get-signing-certificate" /\ pin' = [pin EXCEPT ![window] = (mode = "keyboard")],
           UNCHANGED <<window, live, right, choice>>
    PROVE  Inv'
<1>1. /\ EnvTypes
      /\ MainTypes
      /\ ThreadTypes
      /\ DialogTypes
      /\ SignalsAreAddressed
      /\ ThreadsAreKept
      /\ WindowsAreLive
      /\ StartIsFresh
      /\ JoinWaitsForAll
      /\ ConfirmHasDialog
      /\ RestartIsDue
      /\ PinIsWanted
      /\ WindowIsConnected
  BY DEF Inv, TypeOK
<1> DEFINE t == Min(FreeThreads)
<1>2. /\ t \in Threads /\ st[t] = "free"
      /\ kind' = [kind EXCEPT ![t] = "confirm"]
      /\ st' = [st EXCEPT ![t] = "ready"]
      /\ connected' = connected \cup {t}
      /\ dialog' = [dialog EXCEPT ![t] = window]
      /\ ThreadTypes'
      /\ queue' \in Seq(Signals)
      /\ Posted' \subseteq Posted
      /\ UNCHANGED <<pc, cont, depth, quitting, todo, current, responses>>
      /\ UNCHANGED <<cmd, mode, card, moves>>
      /\ UNCHANGED <<toWindow, toController, toThreads>>
  <2>1. StartThread("confirm", window) /\ interrupted' \subseteq Threads
    BY <1>1 DEF OnConfirmCommandHandler, ThreadTypes, StoppedPollers
  <2>2. "confirm" \in Pollers \cup CommandThreads /\ window \in Windows \cup {None}
    BY <1>1 DEF Pollers, CommandThreads, DialogTypes
  <2>3. /\ t \in Threads /\ st[t] = "free"
        /\ kind' = [kind EXCEPT ![t] = "confirm"] /\ st' = [st EXCEPT ![t] = "ready"]
        /\ connected' = connected \cup {t} /\ dialog' = [dialog EXCEPT ![t] = window]
        /\ ThreadTypes'
    BY <1>1, <2>1, <2>2, StartThreadEffect
  <2> QED
    BY <2>3 DEF OnConfirmCommandHandler, From, Posted, windowVars, threadVars, handlerVars, mainVars, joinVars, envVars
<1> HIDE DEF t
<1>3. /\ DOMAIN kind = Threads /\ DOMAIN st = Threads /\ DOMAIN dialog = Threads
      /\ kind[t] = "" /\ toThreads \subseteq Threads
  BY <1>1, <1>2 DEF ThreadTypes, ThreadsAreKept, DialogTypes
<1>11. EnvTypes'
  BY <1>1, <1>2 DEF EnvTypes
<1>12. MainTypes'
  BY <1>1, <1>2 DEF MainTypes
<1>13. ThreadTypes'
  BY <1>2
<1>14. DialogTypes'
  BY <1>1, <1>2 DEF DialogTypes, Pages
<1>15. SignalsAreAddressed'
  BY <1>1, <1>2, <1>3 DEF SignalsAreAddressed, Addressed, ThreadSignals
<1>16. ThreadsAreKept'
  BY <1>1, <1>2, <1>3 DEF ThreadsAreKept
<1>17. WindowsAreLive'
  BY <1>1, <1>2 DEF WindowsAreLive
<1>18. StartIsFresh'
  BY <1>1, <1>2 DEF StartIsFresh
<1>19. JoinWaitsForAll'
  BY <1>1, <1>2 DEF JoinWaitsForAll
<1>20. ConfirmHasDialog'
  BY <1>1, <1>2, <1>3 DEF ConfirmHasDialog, WindowsAreLive, SignalsAreAddressed, Addressed
<1>21. RestartIsDue'
  BY <1>1, <1>2 DEF RestartIsDue
<1>22. PinIsWanted'
  <2>1. /\ window \in Windows /\ pin \in [Windows -> BOOLEAN] /\ page \in [Windows -> Pages]
        /\ live \subseteq Windows
    BY <1>1 DEF DialogTypes
  <2>2. ASSUME NEW w \in live, pin'[w]
        PROVE  NeedsPin /\ \E u \in Threads : kind'[u] = "confirm" /\ dialog'[u] = w /\ st'[u] = "ready"
    <3>1. CASE w = window /\ ~pin[w]
      BY <1>2, <1>3, <2>1, <2>2, <3>1 DEF NeedsPin
    <3>2. CASE pin[w]
      <4>1. NeedsPin
        BY <1>1, <3>2 DEF PinIsWanted
      <4>2. PICK u \in Threads : kind[u] = "confirm" /\ dialog[u] = w /\ st[u] = "ready"
        BY <1>1, <3>2 DEF PinIsWanted
      <4>3. u # t
        BY <1>3, <4>2
      <4> QED
        BY <1>2, <1>3, <4>1, <4>2, <4>3
    <3> QED
      BY <2>1, <2>2, <3>1, <3>2
  <2>3. \A w \in Windows : page'[w] = "pin" => page[w] = "pin"
    BY <2>1
  <2> QED
    BY <1>1, <1>2, <2>2, <2>3 DEF PinIsWanted, NeedsPin
<1>23. WindowIsConnected'
  BY <1>1, <1>2, <1>3 DEF WindowIsConnected, DialogTypes
<1> QED
  BY <1>11, <1>12, <1>13, <1>14, <1>15, <1>16, <1>17, <1>18, <1>19, <1>20, <1>21, <1>22, <1>23 DEF Inv, TypeOK

(* startCommandExecution, when there is no child thread.                   *)
LEMMA StartKeeps ==
    ASSUME Inv, \A u \in Threads : st[u] = "free", StartCommandExecution, pc' = "loop",
           cont' \in {"", "exit"}, UNCHANGED <<depth, quitting, joinVars, responses, queue, envVars>>
    PROVE  Inv'
<1>1. /\ EnvTypes
      /\ MainTypes
      /\ ThreadTypes
      /\ DialogTypes
      /\ SignalsAreAddressed
      /\ ThreadsAreKept
      /\ WindowsAreLive
      /\ StartIsFresh
      /\ JoinWaitsForAll
      /\ ConfirmHasDialog
      /\ RestartIsDue
      /\ PinIsWanted
      /\ WindowIsConnected
  BY DEF Inv, TypeOK
<1> DEFINE t == Min(FreeThreads)
<1> DEFINE w == Min(FreeWindows)
<1>2. /\ t \in Threads /\ st[t] = "free"
      /\ kind' = [kind EXCEPT ![t] = "waitForCard"]
      /\ st' = [st EXCEPT ![t] = "ready"]
      /\ connected' = connected \cup {t}
      /\ dialog' = [dialog EXCEPT ![t] = None]
      /\ ThreadTypes'
      /\ Posted' = Posted
      /\ w \in Windows /\ w \notin live /\ w # None
      /\ window' = w /\ live' = live \cup {w}
      /\ page' = [page EXCEPT ![w] = "wait"] /\ pin' = [pin EXCEPT ![w] = FALSE]
      /\ right' = [right EXCEPT ![w] = TRUE] /\ choice' = [choice EXCEPT ![w] = FALSE]
      /\ toController' = TRUE /\ UNCHANGED <<toWindow, toThreads, interrupted>>
      /\ UNCHANGED <<depth, quitting, todo, current, responses, queue>>
      /\ UNCHANGED <<cmd, mode, card, moves>>
  <2>1. StartThread("waitForCard", None) /\ interrupted' \subseteq Threads
    BY <1>1 DEF StartCommandExecution, ThreadTypes, StoppedPollers
  <2>2. "waitForCard" \in Pollers \cup CommandThreads /\ None \in Windows \cup {None}
    BY <1>1 DEF Pollers, CommandThreads, DialogTypes
  <2>3. /\ t \in Threads /\ st[t] = "free"
        /\ kind' = [kind EXCEPT ![t] = "waitForCard"] /\ st' = [st EXCEPT ![t] = "ready"]
        /\ connected' = connected \cup {t} /\ dialog' = [dialog EXCEPT ![t] = None]
        /\ ThreadTypes'
    BY <1>1, <2>1, <2>2, StartThreadEffect
  <2>4. w \in Windows /\ w \notin live /\ w # None
    BY FreshWindow DEF StartCommandExecution
  <2> QED
    BY <2>3, <2>4 DEF StartCommandExecution, From, Posted, windowVars, threadVars, handlerVars, mainVars, joinVars, envVars
<1> HIDE DEF t
<1> HIDE DEF w
<1>3. /\ DOMAIN kind = Threads /\ DOMAIN st = Threads /\ DOMAIN dialog = Threads
      /\ kind[t] = "" /\ toThreads \subseteq Threads
  BY <1>1, <1>2 DEF ThreadTypes, ThreadsAreKept, DialogTypes
<1>11. EnvTypes'
  BY <1>1, <1>2 DEF EnvTypes
<1>12. MainTypes'
  BY <1>1, <1>2 DEF MainTypes
<1>13. ThreadTypes'
  BY <1>2
<1>14. DialogTypes'
  BY <1>1, <1>2 DEF DialogTypes, Pages
<1>15. SignalsAreAddressed'
  BY <1>1, <1>2, <1>3 DEF SignalsAreAddressed, Addressed, ThreadSignals
<1>16. ThreadsAreKept'
  BY <1>1, <1>2, <1>3 DEF ThreadsAreKept, DialogTypes
<1>17. WindowsAreLive'
  BY <1>1, <1>2 DEF WindowsAreLive
<1>18. StartIsFresh'
  BY <1>1, <1>2 DEF StartIsFresh
<1>19. JoinWaitsForAll'
  BY <1>1, <1>2 DEF JoinWaitsForAll
<1>20. ConfirmHasDialog'
  BY <1>1, <1>2, <1>3 DEF ConfirmHasDialog
<1>21. RestartIsDue'
  BY <1>1, <1>2 DEF RestartIsDue
<1>22. PinIsWanted'
  BY <1>1, <1>2, <1>3 DEF PinIsWanted, NeedsPin, DialogTypes
<1>23. WindowIsConnected'
  <2>1. \A e \in Posted : e.k \in WindowSignals => e.o # w
    BY <1>1, <1>2 DEF SignalsAreAddressed, Addressed
  <2>2. \A u \in Threads : kind[u] = ""
    BY <1>1 DEF ThreadsAreKept
  <2>3. \A u \in Threads : kind'[u] # "run"
    BY <1>2, <1>3, <2>2
  <2>4. page'[w] = "wait"
    BY <1>1, <1>2 DEF DialogTypes
  <2> QED
    BY <1>2, <2>1, <2>3, <2>4 DEF WindowIsConnected
<1> QED
  BY <1>11, <1>12, <1>13, <1>14, <1>15, <1>16, <1>17, <1>18, <1>19, <1>20, <1>21, <1>22, <1>23 DEF Inv, TypeOK

(* The main thread goes on without a change of the children or the dialog. *)
LEMMA MainKeeps ==
    ASSUME Inv, pc \in {"start", "loop", "unwind"}, pc' \in {"loop", "unwind", "exited"},
           queue' \in Seq(Signals), Posted' \subseteq Posted, quitting' \in BOOLEAN,
           UNCHANGED <<cont, depth, joinVars, responses, windowVars, threadVars, handlerVars, envVars>>
    PROVE  Inv'
<1>1. /\ EnvTypes
      /\ MainTypes
      /\ ThreadTypes
      /\ DialogTypes
      /\ SignalsAreAddressed
      /\ ThreadsAreKept
      /\ WindowsAreLive
      /\ StartIsFresh
      /\ JoinWaitsForAll
      /\ ConfirmHasDialog
      /\ RestartIsDue
      /\ PinIsWanted
      /\ WindowIsConnected
  BY DEF Inv, TypeOK
<1>2. /\ UNCHANGED <<cont, depth, todo, current, responses>>
      /\ UNCHANGED <<cmd, mode, card, moves>>
      /\ UNCHANGED <<kind, st, children, interrupted, connected, dialog>>
      /\ UNCHANGED window
      /\ UNCHANGED <<live, page, right, choice, pin>>
      /\ UNCHANGED <<toWindow, toController, toThreads>>
  BY DEF windowVars, threadVars, handlerVars, mainVars, joinVars, envVars
<1>11. EnvTypes'
  BY <1>1, <1>2 DEF EnvTypes
<1>12. MainTypes'
  BY <1>1, <1>2 DEF MainTypes
<1>13. ThreadTypes'
  BY <1>1, <1>2 DEF ThreadTypes
<1>14. DialogTypes'
  BY <1>1, <1>2 DEF DialogTypes
<1>15. SignalsAreAddressed'
  BY <1>1, <1>2 DEF SignalsAreAddressed, Addressed
<1>16. ThreadsAreKept'
  BY <1>1, <1>2 DEF ThreadsAreKept
<1>17. WindowsAreLive'
  BY <1>1, <1>2 DEF WindowsAreLive
<1>18. StartIsFresh'
  BY <1>1, <1>2 DEF StartIsFresh
<1>19. JoinWaitsForAll'
  BY <1>1, <1>2 DEF JoinWaitsForAll
<1>20. ConfirmHasDialog'
  BY <1>1, <1>2 DEF ConfirmHasDialog
<1>21. RestartIsDue'
  BY <1>1, <1>2 DEF RestartIsDue
<1>22. PinIsWanted'
  BY <1>1, <1>2 DEF PinIsWanted, NeedsPin
<1>23. WindowIsConnected'
  BY <1>1, <1>2 DEF WindowIsConnected
<1> QED
  BY <1>11, <1>12, <1>13, <1>14, <1>15, <1>16, <1>17, <1>18, <1>19, <1>20, <1>21, <1>22, <1>23 DEF Inv, TypeOK

(* The rest of finish(): all children have been waited for.                *)
LEMMA EmitFinishedKeeps ==
    ASSUME Inv, EmitFinished
    PROVE  Inv'
<1>1. /\ EnvTypes
      /\ MainTypes
      /\ ThreadTypes
      /\ DialogTypes
      /\ SignalsAreAddressed
      /\ ThreadsAreKept
      /\ WindowsAreLive
      /\ StartIsFresh
      /\ JoinWaitsForAll
      /\ ConfirmHasDialog
      /\ RestartIsDue
      /\ PinIsWanted
      /\ WindowIsConnected
  BY DEF Inv, TypeOK
<1>2. /\ queue' \in Seq(Signals)
      /\ Posted' \subseteq Posted \cup {Sig("quit", None)}
      /\ pc = "join" /\ pc' \in {"loop", "unwind"} /\ cont' = ""
      /\ todo = <<>> /\ current = None
      /\ quitting' \in BOOLEAN
      /\ UNCHANGED <<depth, todo, current, responses>>
      /\ UNCHANGED <<cmd, mode, card, moves>>
      /\ UNCHANGED <<kind, st, children, interrupted, connected, dialog>>
      /\ UNCHANGED window
      /\ UNCHANGED <<live, page, right, choice, pin>>
      /\ UNCHANGED <<toWindow, toController, toThreads>>
  <2>1. Sig("quit", None) \in Signals
    BY Bounds DEF Sig, Signals, SignalKinds
  <2>2. queue' = queue \/ queue' = Append(queue, Sig("quit", None))
    BY DEF EmitFinished
  <2>3. queue' \in Seq(Signals) /\ Posted' \subseteq Posted \cup {Sig("quit", None)}
    <3>1. queue \in Seq(Signals)
      BY <1>1 DEF MainTypes
    <3>2. CASE queue' = queue
      BY <3>1, <3>2 DEF Posted
    <3>3. CASE queue' = Append(queue, Sig("quit", None))
      BY <3>1, <3>3, <2>1, RangeOfAppend DEF Posted
    <3> QED
      BY <2>2, <3>2, <3>3
  <2>4. quitting' \in BOOLEAN
    BY <1>1, Switches DEF EmitFinished, MainTypes
  <2> QED
    BY <2>3, <2>4 DEF EmitFinished, JoinIsOver, windowVars, threadVars, handlerVars, mainVars, joinVars, envVars
<1>3. /\ Sig("quit", None).k = "quit" /\ Sig("quit", None).o = None
      /\ \A u \in Threads : st[u] = "free"
  <2>1. None \notin Threads /\ Range(<<>>) = {}
    BY <1>1, NoneIsNoObject, EmptyRange
  <2> QED
    BY <1>1, <1>2, <2>1 DEF JoinWaitsForAll, Sig
<1>11. EnvTypes'
  BY <1>1, <1>2 DEF EnvTypes
<1>12. MainTypes'
  BY <1>1, <1>2 DEF MainTypes
<1>13. ThreadTypes'
  BY <1>1, <1>2 DEF ThreadTypes
<1>14. DialogTypes'
  BY <1>1, <1>2 DEF DialogTypes
<1>15. SignalsAreAddressed'
  BY <1>1, <1>2, <1>3 DEF SignalsAreAddressed, Addressed, WindowSignals, ThreadSignals
<1>16. ThreadsAreKept'
  BY <1>1, <1>2, <1>3 DEF ThreadsAreKept
<1>17. WindowsAreLive'
  BY <1>1, <1>2 DEF WindowsAreLive
<1>18. StartIsFresh'
  BY <1>1, <1>2 DEF StartIsFresh
<1>19. JoinWaitsForAll'
  BY <1>1, <1>2 DEF JoinWaitsForAll
<1>20. ConfirmHasDialog'
  BY <1>1, <1>2, <1>3 DEF ConfirmHasDialog
<1>21. RestartIsDue'
  BY <1>1, <1>2 DEF RestartIsDue
<1>22. PinIsWanted'
  BY <1>1, <1>2 DEF PinIsWanted, NeedsPin
<1>23. WindowIsConnected'
  BY <1>1, <1>2, <1>3 DEF WindowIsConnected, JoinWaitsForAll
<1> QED
  BY <1>11, <1>12, <1>13, <1>14, <1>15, <1>16, <1>17, <1>18, <1>19, <1>20, <1>21, <1>22, <1>23 DEF Inv, TypeOK

(* waitForChildThreads, for one child: it is told to stop...               *)
LEMMA StopChildKeeps ==
    ASSUME Inv, StopChild
    PROVE  Inv'
<1>1. /\ EnvTypes
      /\ MainTypes
      /\ ThreadTypes
      /\ DialogTypes
      /\ SignalsAreAddressed
      /\ ThreadsAreKept
      /\ WindowsAreLive
      /\ StartIsFresh
      /\ JoinWaitsForAll
      /\ ConfirmHasDialog
      /\ RestartIsDue
      /\ PinIsWanted
      /\ WindowIsConnected
  BY DEF Inv, TypeOK
<1>2. /\ pc = "join" /\ pc' = "join" /\ todo # <<>>
      /\ current' = Head(todo) /\ todo' = Tail(todo)
      /\ connected' \subseteq connected
      /\ interrupted' \subseteq interrupted \cup {Head(todo)}
      /\ UNCHANGED <<cont, depth, quitting, responses, queue>>
      /\ UNCHANGED <<cmd, mode, card, moves>>
      /\ UNCHANGED <<kind, st, children, dialog>>
      /\ UNCHANGED window
      /\ UNCHANGED <<live, page, right, choice, pin>>
      /\ UNCHANGED <<toWindow, toController, toThreads>>
      /\ Posted' = Posted
  BY DEF StopChild, Posted, windowVars, threadVars, handlerVars, mainVars, joinVars, envVars
<1>3. /\ Head(todo) \in Threads /\ Tail(todo) \in Seq(Threads)
      /\ Range(todo) = Range(Tail(todo)) \cup {Head(todo)}
  BY <1>1, <1>2, RangeOfTail DEF MainTypes
<1>11. EnvTypes'
  BY <1>1, <1>2 DEF EnvTypes
<1>12. MainTypes'
  BY <1>1, <1>2, <1>3 DEF MainTypes
<1>13. ThreadTypes'
  BY <1>1, <1>2, <1>3 DEF ThreadTypes
<1>14. DialogTypes'
  BY <1>1, <1>2 DEF DialogTypes
<1>15. SignalsAreAddressed'
  BY <1>1, <1>2 DEF SignalsAreAddressed, Addressed
<1>16. ThreadsAreKept'
  BY <1>1, <1>2 DEF ThreadsAreKept
<1>17. WindowsAreLive'
  BY <1>1, <1>2 DEF WindowsAreLive
<1>18. StartIsFresh'
  BY <1>1, <1>2 DEF StartIsFresh
<1>19. JoinWaitsForAll'
  <2>1. current = None /\ None \notin Threads
    BY <1>1, NoneIsNoObject DEF StopChild
  <2> QED
    BY <1>1, <1>2, <1>3, <2>1 DEF JoinWaitsForAll
<1>20. ConfirmHasDialog'
  BY <1>1, <1>2 DEF ConfirmHasDialog
<1>21. RestartIsDue'
  BY <1>1, <1>2 DEF RestartIsDue
<1>22. PinIsWanted'
  BY <1>1, <1>2 DEF PinIsWanted, NeedsPin
<1>23. WindowIsConnected'
  BY <1>1, <1>2 DEF WindowIsConnected
<1> QED
  BY <1>11, <1>12, <1>13, <1>14, <1>15, <1>16, <1>17, <1>18, <1>19, <1>20, <1>21, <1>22, <1>23 DEF Inv, TypeOK

(* ... and has stopped.                                                    *)
LEMMA WaitForChildKeeps ==
    ASSUME Inv, WaitForChild
    PROVE  Inv'
<1>1. /\ EnvTypes
      /\ MainTypes
      /\ ThreadTypes
      /\ DialogTypes
      /\ SignalsAreAddressed
      /\ ThreadsAreKept
      /\ WindowsAreLive
      /\ StartIsFresh
      /\ JoinWaitsForAll
      /\ ConfirmHasDialog
      /\ RestartIsDue
      /\ PinIsWanted
      /\ WindowIsConnected
  BY DEF Inv, TypeOK
<1> DEFINE t == current
<1>2. /\ pc = "join" /\ pc' = "join" /\ current' = None
      /\ t \in Threads /\ st[t] \in {"free", "done"}
      /\ kind' = [kind EXCEPT ![t] = ""]
      /\ st' = [st EXCEPT ![t] = "free"]
      /\ connected' = connected \ {t}
      /\ dialog' = [dialog EXCEPT ![t] = None]
      /\ toThreads' = toThreads \ {t}
      /\ ThreadTypes'
      /\ queue' \in Seq(Signals)
      /\ Posted' \subseteq {f \in Posted : f.o = t => f.k \notin ThreadSignals}
      /\ UNCHANGED <<cont, depth, quitting, todo, responses>>
      /\ UNCHANGED <<cmd, mode, card, moves>>
      /\ UNCHANGED <<window, toWindow, toController>>
      /\ UNCHANGED <<live, page, right, choice, pin>>
  <2>1. t \in Threads /\ st[t] \in {"free", "done"}
    BY <1>1 DEF WaitForChild, MainTypes, Running
  <2>2. queue' = Without(queue, ThreadSignals, t)
    BY DEF WaitForChild
  <2>3. queue' \in Seq(Signals) /\ Posted' = {f \in Posted : ~Refers(f, ThreadSignals, t)}
    BY <1>1, <2>2, WithoutRange DEF MainTypes, Posted
  <2>4. Posted' \subseteq {f \in Posted : f.o = t => f.k \notin ThreadSignals}
    BY <2>3 DEF Refers
  <2>5. FreeThread(t)
    BY DEF WaitForChild
  <2>6. /\ kind' = [kind EXCEPT ![t] = ""] /\ st' = [st EXCEPT ![t] = "free"]
        /\ connected' = connected \ {t} /\ dialog' = [dialog EXCEPT ![t] = None]
        /\ toThreads' = toThreads \ {t} /\ UNCHANGED <<toWindow, toController>>
        /\ ThreadTypes'
    BY <1>1, <2>1, <2>5, FreeThreadEffect
  <2> QED
    BY <2>1, <2>3, <2>4, <2>6 DEF WaitForChild, windowVars, threadVars, handlerVars, mainVars, joinVars, envVars
<1>3. DOMAIN kind = Threads /\ DOMAIN st = Threads /\ DOMAIN dialog = Threads
  BY <1>1 DEF ThreadTypes
<1>11. EnvTypes'
  BY <1>1, <1>2 DEF EnvTypes
<1>12. MainTypes'
  BY <1>1, <1>2 DEF MainTypes
<1>13. ThreadTypes'
  BY <1>2
<1>14. DialogTypes'
  BY <1>1, <1>2 DEF DialogTypes
<1>15. SignalsAreAddressed'
  BY <1>1, <1>2, <1>3 DEF SignalsAreAddressed, Addressed, ThreadSignals
<1>16. ThreadsAreKept'
  BY <1>1, <1>2, <1>3 DEF ThreadsAreKept, DialogTypes
<1>17. WindowsAreLive'
  BY <1>1, <1>2 DEF WindowsAreLive
<1>18. StartIsFresh'
  BY <1>1, <1>2 DEF StartIsFresh
<1>19. JoinWaitsForAll'
  BY <1>1, <1>2, <1>3 DEF JoinWaitsForAll
<1>20. ConfirmHasDialog'
  BY <1>1, <1>2, <1>3 DEF ConfirmHasDialog
<1>21. RestartIsDue'
  BY <1>1, <1>2 DEF RestartIsDue
<1>22. PinIsWanted'
  BY <1>1, <1>2, <1>3 DEF PinIsWanted, NeedsPin
<1>23. WindowIsConnected'
  BY <1>1, <1>2, <1>3 DEF WindowIsConnected, JoinWaitsForAll
<1> QED
  BY <1>11, <1>12, <1>13, <1>14, <1>15, <1>16, <1>17, <1>18, <1>19, <1>20, <1>21, <1>22, <1>23 DEF Inv, TypeOK

(* A child thread goes on, and posts signals.                              *)
LEMMA ThreadMovesKeeps ==
    ASSUME Inv, NEW t \in Threads, st[t] # "free", st[t] = "done" => kind[t] # "run", NEW s \in {"card", "waiting", "done"},
           st' = [st EXCEPT ![t] = s],
           queue' \in Seq(Signals), NEW new, Posted' \subseteq Posted \cup new,
           \A e \in new : /\ Addressed(e)' /\ e.k # "deleteWindow"
              /\ (e.o = window /\ e.k \in WindowSignals => window \in Range(toWindow)),
           pin' = pin \/ pin' = [pin EXCEPT ![dialog[t]] = FALSE],
           kind[t] = "confirm" /\ st[t] = "ready" => ~pin'[dialog[t]],
           moves' \in 0 .. MaxCardMoves, UNCHANGED <<cmd, mode, card, mainVars, window, live, page, right, choice, handlerVars>>,
           UNCHANGED <<kind, children, interrupted, connected, dialog>>
    PROVE  Inv'
<1>1. /\ EnvTypes
      /\ MainTypes
      /\ ThreadTypes
      /\ DialogTypes
      /\ SignalsAreAddressed
      /\ ThreadsAreKept
      /\ WindowsAreLive
      /\ StartIsFresh
      /\ JoinWaitsForAll
      /\ ConfirmHasDialog
      /\ RestartIsDue
      /\ PinIsWanted
      /\ WindowIsConnected
  BY DEF Inv, TypeOK
<1>2. /\ UNCHANGED <<cmd, mode, card>>
      /\ UNCHANGED <<pc, cont, depth, quitting, todo, current, responses>>
      /\ UNCHANGED <<toWindow, toController, toThreads>>
      /\ st[t] # "free"
  BY DEF windowVars, threadVars, handlerVars, mainVars, joinVars, envVars
<1>3. DOMAIN kind = Threads /\ DOMAIN st = Threads /\ DOMAIN dialog = Threads
  BY <1>1 DEF ThreadTypes
<1>11. EnvTypes'
  BY <1>1, <1>2 DEF EnvTypes
<1>12. MainTypes'
  BY <1>1, <1>2 DEF MainTypes
<1>13. ThreadTypes'
  BY <1>1, <1>2 DEF ThreadTypes
<1>14. DialogTypes'
  BY <1>1, <1>2 DEF DialogTypes
<1>15. SignalsAreAddressed'
  BY <1>1, <1>2, <1>3 DEF SignalsAreAddressed, Addressed, ThreadSignals
<1>16. ThreadsAreKept'
  BY <1>1, <1>2, <1>3 DEF ThreadsAreKept
<1>17. WindowsAreLive'
  BY <1>1, <1>2 DEF WindowsAreLive
<1>18. StartIsFresh'
  BY <1>1, <1>2 DEF StartIsFresh, DialogTypes
<1>19. JoinWaitsForAll'
  BY <1>1, <1>2, <1>3 DEF JoinWaitsForAll
<1>20. ConfirmHasDialog'
  BY <1>1, <1>2, <1>3 DEF ConfirmHasDialog
<1>21. RestartIsDue'
  BY <1>1, <1>2 DEF RestartIsDue
<1>22. PinIsWanted'
  BY <1>1, <1>2, <1>3 DEF PinIsWanted, NeedsPin, DialogTypes
<1>23. WindowIsConnected'
  BY <1>1, <1>2, <1>3 DEF WindowIsConnected
<1> QED
  BY <1>11, <1>12, <1>13, <1>14, <1>15, <1>16, <1>17, <1>18, <1>19, <1>20, <1>21, <1>22, <1>23 DEF Inv, TypeOK

(* A child thread ends, and posts signals.                                 *)
LEMMA ThreadEndsKeeps ==
    ASSUME Inv, NEW t \in Threads, st[t] # "free", kind[t] # "run", FreeThread(t),
           queue' \in Seq(Signals), NEW new, Posted' \subseteq Posted \cup new,
           \A e \in new : /\ Addressed(e)' /\ e.k # "deleteWindow"
              /\ (e.o = window /\ e.k \in WindowSignals => window \in Range(toWindow)),
           kind[t] = "confirm" /\ st[t] = "ready" => ~pin[dialog[t]],
           moves' \in 0 .. MaxCardMoves, UNCHANGED <<cmd, mode, card, mainVars, windowVars>>
    PROVE  Inv'
<1>1. /\ EnvTypes
      /\ MainTypes
      /\ ThreadTypes
      /\ DialogTypes
      /\ SignalsAreAddressed
      /\ ThreadsAreKept
      /\ WindowsAreLive
      /\ StartIsFresh
      /\ JoinWaitsForAll
      /\ ConfirmHasDialog
      /\ RestartIsDue
      /\ PinIsWanted
      /\ WindowIsConnected
  BY DEF Inv, TypeOK
<1>2. /\ UNCHANGED <<cmd, mode, card>>
      /\ UNCHANGED <<pc, cont, depth, quitting, todo, current, responses>>
      /\ UNCHANGED window
      /\ UNCHANGED <<live, page, right, choice, pin>>
      /\ st[t] # "free"
      /\ kind' = [kind EXCEPT ![t] = ""]
      /\ st' = [st EXCEPT ![t] = "free"]
      /\ connected' = connected \ {t}
      /\ dialog' = [dialog EXCEPT ![t] = None]
      /\ toThreads' = toThreads \ {t}
      /\ ThreadTypes'
      /\ UNCHANGED <<toWindow, toController>>
  BY <1>1, FreeThreadEffect DEF windowVars, threadVars, handlerVars, mainVars, joinVars, envVars
<1>3. DOMAIN kind = Threads /\ DOMAIN st = Threads /\ DOMAIN dialog = Threads
  BY <1>1 DEF ThreadTypes
<1>11. EnvTypes'
  BY <1>1, <1>2 DEF EnvTypes
<1>12. MainTypes'
  BY <1>1, <1>2 DEF MainTypes
<1>13. ThreadTypes'
  BY <1>2
<1>14. DialogTypes'
  BY <1>1, <1>2 DEF DialogTypes
<1>15. SignalsAreAddressed'
  BY <1>1, <1>2, <1>3 DEF SignalsAreAddressed, Addressed, ThreadSignals
<1>16. ThreadsAreKept'
  BY <1>1, <1>2, <1>3 DEF ThreadsAreKept, DialogTypes
<1>17. WindowsAreLive'
  BY <1>1, <1>2 DEF WindowsAreLive
<1>18. StartIsFresh'
  BY <1>1, <1>2 DEF StartIsFresh, DialogTypes
<1>19. JoinWaitsForAll'
  BY <1>1, <1>2, <1>3 DEF JoinWaitsForAll
<1>20. ConfirmHasDialog'
  BY <1>1, <1>2, <1>3 DEF ConfirmHasDialog
<1>21. RestartIsDue'
  BY <1>1, <1>2 DEF RestartIsDue
<1>22. PinIsWanted'
  <2>1. ASSUME NEW w \in live, pin[w]
        PROVE  NeedsPin /\ \E u \in Threads : kind'[u] = "confirm" /\ dialog'[u] = w /\ st'[u] = "ready"
    <3>1. NeedsPin
      BY <1>1, <2>1 DEF PinIsWanted
    <3>2. PICK u \in Threads : kind[u] = "confirm" /\ dialog[u] = w /\ st[u] = "ready"
      BY <1>1, <2>1 DEF PinIsWanted
    <3>3. u # t
      BY <2>1, <3>2
    <3> QED
      BY <1>2, <1>3, <3>1, <3>2, <3>3
  <2> QED
    BY <1>1, <1>2, <2>1 DEF PinIsWanted, NeedsPin
<1>23. WindowIsConnected'
  BY <1>1, <1>2, <1>3 DEF WindowIsConnected, ThreadsAreKept
<1> QED
  BY <1>11, <1>12, <1>13, <1>14, <1>15, <1>16, <1>17, <1>18, <1>19, <1>20, <1>21, <1>22, <1>23 DEF Inv, TypeOK

-----------------------------------------------------------------------------
(* What the threads post.                                                  *)

(* What a child thread may post: signals for Controller, for the dialogs   *)
(* and for the run threads.                                                *)
Emitted(e) ==
    /\ e.k \notin {"deleteWindow", "finished", "deleteThread"}
    /\ e.k \in WindowSignals => e.o \in Range(toWindow)
    /\ e.k \in ThreadSignals => e.o \in toThreads
    /\ e.k \notin WindowSignals \cup ThreadSignals => e.o = None
    /\ e.k = "verifyPinFailed" => cmd # "get-signing-certificate"

Emission(s) == s \in Seq(Signals) /\ \A e \in Range(s) : Emitted(e)

LEMMA EmptyEmission == Emission(<<>>)
BY EmptyRange DEF Emission

LEMMA ConcatEmission ==
    ASSUME NEW s, NEW u, Emission(s), Emission(u)
    PROVE  Emission(s \o u) /\ Range(s \o u) = Range(s) \cup Range(u)
BY RangeOfConcat DEF Emission

(* The signals of the thread objects and of the command handler that       *)
(* Controller is connected to.                                             *)
OwnKinds ==
    {"cardsAvailable", "statusUpdate", "certificatesLoaded", "cardEvent", "retry",
     "completed", "cancel", "failure", "quit"}

LEMMA ControllerSignal ==
    ASSUME NEW k \in OwnKinds
    PROVE  /\ Sig(k, None) \in Signals /\ Emitted(Sig(k, None))
           /\ Emission(<<Sig(k, None)>>) /\ Range(<<Sig(k, None)>>) = {Sig(k, None)}
           /\ Sig(k, None).k = k /\ Sig(k, None).o = None
<1>1. Sig(k, None) \in Signals
  <2>1. k \in SignalKinds
    BY DEF OwnKinds, SignalKinds
  <2>2. 0 \in 0 .. MaxDepth
    BY Bounds
  <2> QED
    BY <2>1, <2>2 DEF Sig, Signals
<1>2. Sig(k, None).k = k /\ Sig(k, None).o = None
  BY DEF Sig
<1>3. Emitted(Sig(k, None))
  BY <1>2 DEF Emitted, OwnKinds, WindowSignals, ThreadSignals
<1> HIDE DEF Sig
<1>4. <<Sig(k, None)>> \in Seq(Signals) /\ Range(<<Sig(k, None)>>) = {Sig(k, None)}
  BY <1>1, SingletonRange
<1> QED
  BY <1>1, <1>2, <1>3, <1>4 DEF Emission

LEMMA OwnEmission ==
    ASSUME NEW k \in OwnKinds, NEW t
    PROVE  Emission(Own(t, k)) /\ (t \in connected => Range(Own(t, k)) = {Sig(k, None)})
BY ControllerSignal, EmptyEmission DEF Own

LEMMA ToControllerEmission ==
    Emission(HandlerToController("certificatesLoaded"))
BY ControllerSignal, EmptyEmission DEF HandlerToController, OwnKinds

LEMMA ZeroLevel == 0 \in 0 .. MaxDepth
BY Bounds

(* The command handler's signals for the dialogs: one for each connection. *)
LEMMA ToWindowsEmission ==
    ASSUME DialogTypes, NEW k \in {"certificateReady", "mismatch", "verifyPinFailed"},
           NEW d \in {"", "single", "multiple", "unusable", "again", "fatal"},
           k = "verifyPinFailed" => cmd # "get-signing-certificate"
    PROVE  /\ Emission(HandlerToWindows(k, d))
           /\ Range(HandlerToWindows(k, d)) = {SigWith(k, w, d) : w \in Range(toWindow)}
           /\ \A w : SigWith(k, w, d).k = k /\ SigWith(k, w, d).o = w
<1> DEFINE s == HandlerToWindows(k, d)
<1>1. toWindow \in Seq(Windows)
  BY DEF DialogTypes
<1>2. \A w \in Windows : SigWith(k, w, d) \in Signals
  <2>1. k \in SignalKinds
    BY DEF SignalKinds, WindowSignals
  <2> QED
    BY <2>1, ZeroLevel DEF SigWith, Signals
<1>3. \A w : SigWith(k, w, d).k = k /\ SigWith(k, w, d).o = w
  BY DEF SigWith
<1> HIDE DEF SigWith
<1>4. s = [i \in 1 .. Len(toWindow) |-> SigWith(k, toWindow[i], d)]
  BY DEF HandlerToWindows
<1>5. \A i \in 1 .. Len(toWindow) : SigWith(k, toWindow[i], d) \in Signals
  BY <1>1, <1>2, SeqShape
<1>6. Len(toWindow) \in Nat /\ DOMAIN toWindow = 1 .. Len(toWindow)
  BY <1>1, SeqShape
<1> HIDE DEF s
<1>7. s \in [1 .. Len(toWindow) -> Signals]
  BY <1>4, <1>5
<1>8. s \in Seq(Signals) /\ DOMAIN s = 1 .. Len(toWindow)
  BY <1>6, <1>7, SeqFromFunction
<1>9. Range(s) = {SigWith(k, w, d) : w \in Range(toWindow)}
  <2>1. Range(s) = {s[i] : i \in 1 .. Len(toWindow)}
    BY <1>8 DEF Range
  <2>2. Range(s) = {SigWith(k, toWindow[i], d) : i \in 1 .. Len(toWindow)}
    BY <2>1, <1>4
  <2>3. Range(toWindow) = {toWindow[i] : i \in 1 .. Len(toWindow)}
    BY <1>6 DEF Range
  <2> QED
    BY <2>2, <2>3
<1>10. \A e \in Range(s) : Emitted(e)
  BY <1>3, <1>9 DEF Emitted, WindowSignals, ThreadSignals
<1> QED
  BY <1>3, <1>8, <1>9, <1>10 DEF Emission, s

(* CommandHandler::retry: one for each run thread.                         *)
LEMMA RetryEmission ==
    ASSUME DialogTypes
    PROVE  /\ Emission(HandlerRetry)
           /\ Range(HandlerRetry) = {Sig("retryHandler", t) : t \in toThreads}
           /\ \A t : Sig("retryHandler", t).k = "retryHandler" /\ Sig("retryHandler", t).o = t
<1> DEFINE S == {Sig("retryHandler", t) : t \in toThreads}
           f == [t \in toThreads |-> Sig("retryHandler", t)]
<1>1. toThreads \in SUBSET Threads
  BY DEF DialogTypes
<1>2. IsFiniteSet(toThreads)
  <2>1. IsFiniteSet(Threads)
    BY Bounds, FS_Interval DEF Threads
  <2> QED
    BY <1>1, <2>1, FS_Subset
<1>3. \A t : Sig("retryHandler", t).k = "retryHandler" /\ Sig("retryHandler", t).o = t
  BY DEF Sig
<1>4. \A t \in Threads : Sig("retryHandler", t) \in Signals
  <2>1. 0 \in 0 .. MaxDepth
    BY Bounds
  <2> QED
    BY <2>1 DEF Sig, Signals, SignalKinds, ThreadSignals
<1> HIDE DEF Sig
<1>5. f \in Surjection(toThreads, S)
  BY DEF Surjection
<1>6. IsFiniteSet(S)
  BY <1>2, <1>5, FS_Surjection
<1>7. S \subseteq Signals
  BY <1>1, <1>4
<1>8. HandlerRetry = SetToSeq(S)
  BY DEF HandlerRetry
<1>9. SetToSeq(S) \in Seq(S) /\ Range(SetToSeq(S)) = S
  BY <1>6, SetToSeqOfFinite
<1>10. \A e \in S : Emitted(e)
  BY <1>3 DEF Emitted, WindowSignals, ThreadSignals
<1> HIDE DEF S
<1>11. HandlerRetry \in Seq(Signals)
  BY <1>7, <1>8, <1>9, SeqMonotonic
<1> QED
  BY <1>3, <1>8, <1>9, <1>10, <1>11 DEF Emission, S

LEMMA CertificatesEmission ==
    ASSUME DialogTypes, NEW d \in {"single", "multiple", "unusable"}
    PROVE  Emission(CertificatesReady(d))
BY ToControllerEmission, ToWindowsEmission, ConcatEmission DEF CertificatesReady

LEMMA PinFailedEmission ==
    ASSUME DialogTypes, NEW d \in {"again", "fatal"}, cmd # "get-signing-certificate"
    PROVE  Emission(VerifyPinFailed(d))
BY ToControllerEmission, ToWindowsEmission, ConcatEmission DEF VerifyPinFailed

(* What a run thread posts ...                                             *)
LEMMA RunEmission ==
    ASSUME DialogTypes, NEW t, NEW o \in RunOutcomes
    PROVE  Emission(RunSignals(t, o))
<1>1. o \in {"single", "multiple", "unusable", "none", "mismatch", "retriable", "fatal"}
  BY Inputs
<1>2. CASE o \in {"single", "multiple", "unusable"}
  <2>1. RunSignals(t, o) = CertificatesReady(o)
    BY <1>2 DEF RunSignals
  <2> QED
    BY <1>2, <2>1, CertificatesEmission
<1>3. CASE o = "none"
  <2>1. RunSignals(t, o) = HandlerRetry
    BY <1>3 DEF RunSignals
  <2> QED
    BY <2>1, RetryEmission
<1>4. CASE o = "mismatch"
  <2>1. RunSignals(t, o) = HandlerToWindows("mismatch", "")
    BY <1>4 DEF RunSignals
  <2>2. "mismatch" \in {"certificateReady", "mismatch", "verifyPinFailed"} /\ "mismatch" # "verifyPinFailed"
    OBVIOUS
  <2>3. "" \in {"", "single", "multiple", "unusable", "again", "fatal"}
    OBVIOUS
  <2>4. Emission(HandlerToWindows("mismatch", ""))
    BY <2>2, <2>3, ToWindowsEmission
  <2> QED
    BY <2>1, <2>4
<1>5. CASE o = "retriable"
  <2>1. RunSignals(t, o) = Own(t, "retry")
    BY <1>5 DEF RunSignals
  <2> QED
    BY <2>1, OwnEmission DEF OwnKinds
<1>6. CASE o = "fatal"
  <2>1. RunSignals(t, o) = Own(t, "failure")
    BY <1>6 DEF RunSignals
  <2> QED
    BY <2>1, OwnEmission DEF OwnKinds
<1> QED
  BY <1>1, <1>2, <1>3, <1>4, <1>5, <1>6

(* ... and what a confirm thread posts when the card has answered.         *)
Outcome(t, s) ==
    \/ \E o \in CardOutcomes : s = CardSignals(t, o)
    \/ /\ cmd # "get-signing-certificate"
       /\ \E f \in PinFailures : s = PinFailureSignals(t, f[1], f[2])

(* A PIN that is refused with this status and count says nothing, or only  *)
(* something that the run thread may be there to hear.                     *)
Silent(f) == f[1] \in {"cancelled", "disabled"} /\ f[2] # "none"

(* The dialog is told of the failure and Controller of a critical one.     *)
Twofold(f) == f[1] \in {"wrong", "unknown"} /\ f[2] # "left"

LEMMA ConfirmOutcome ==
    ASSUME NEW t, Confirm(t)
    PROVE  \E s : Outcome(t, s) /\ End(t, s)
BY DEF Confirm, Outcome

LEMMA NothingAdded ==
    ASSUME NEW s, Emission(s)
    PROVE  <<>> \o s = s /\ s \o <<>> = s
BY ConcatEmptySeq DEF Emission

LEMMA OutcomeShape ==
    ASSUME DialogTypes, NEW t, NEW s, Outcome(t, s)
    PROVE  \/ \E k \in {"completed", "retry", "failure"} : s = Own(t, k)
           \/ /\ cmd # "get-signing-certificate"
              /\ \E f \in PinFailures :
                    \/ Silent(f) /\ s \in {<<>>, HandlerRetry}
                    \/ s = Own(t, "cancel")
                    \/ s = HandlerRetry \o Own(t, "failure")
                    \/ \E d \in {"again", "fatal"} : s = VerifyPinFailed(d)
                    \/ /\ Twofold(f)
                       /\ \E d \in {"again", "fatal"} : s = VerifyPinFailed(d) \o Own(t, "failure")
<1>1. CASE \E o \in CardOutcomes : s = CardSignals(t, o)
  <2>1. PICK o \in CardOutcomes : s = CardSignals(t, o)
    BY <1>1
  <2>2. o \in {"success", "retriable", "fatal"}
    BY Inputs
  <2> QED
    BY <2>1, <2>2 DEF CardSignals
<1>2. CASE /\ cmd # "get-signing-certificate"
           /\ \E f \in PinFailures : s = PinFailureSignals(t, f[1], f[2])
  <2>1. PICK f \in PinFailures : s = PinFailureSignals(t, f[1], f[2])
    BY <1>2
  <2>2. /\ f[1] \in {"wrong", "blocked", "length", "cancelled", "disabled", "unknown"}
        /\ f[2] \in {"left", "none", "unknown"}
    BY Inputs
  <2>3. /\ Emission(HandlerRetry) /\ Emission(VerifyPinFailed("again"))
        /\ Emission(VerifyPinFailed("fatal")) /\ Emission(<<>>)
    BY <1>2, RetryEmission, PinFailedEmission, EmptyEmission
  <2>4. Emission(Own(t, "cancel"))
    BY OwnEmission DEF OwnKinds
  <2>5. CASE ~Rethrown(f[2])
    <3>1. f[2] # "none" /\ s = HandlerSignals(f[1]) \o <<>>
      BY <2>1, <2>5 DEF PinFailureSignals, Rethrown
    <3>2. CASE f[1] = "cancelled"
      BY <1>2, <2>3, <3>1, <3>2, NothingAdded DEF HandlerSignals, Silent
    <3>3. CASE f[1] = "disabled"
      BY <1>2, <2>3, <3>1, <3>3, NothingAdded DEF HandlerSignals, Silent
    <3>4. CASE f[1] \in {"wrong", "length"}
      BY <1>2, <2>3, <3>1, <3>4, NothingAdded DEF HandlerSignals
    <3>5. CASE f[1] \in {"blocked", "unknown"}
      BY <1>2, <2>3, <3>1, <3>5, NothingAdded DEF HandlerSignals
    <3> QED
      BY <2>2, <3>2, <3>3, <3>4, <3>5
  <2>6. CASE Rethrown(f[2])
    <3>1. f[2] # "left" /\ s = HandlerSignals(f[1]) \o CaughtSignals(t, f[1])
      BY <2>1, <2>6 DEF PinFailureSignals, Rethrown
    <3>2. CASE f[1] = "cancelled"
      <4>1. s = <<>> \o Own(t, "cancel")
        BY <3>1, <3>2 DEF HandlerSignals, CaughtSignals
      <4> QED
        BY <1>2, <2>4, <4>1, NothingAdded
    <3>3. CASE f[1] = "disabled"
      BY <1>2, <3>1, <3>3 DEF HandlerSignals, CaughtSignals
    <3>4. CASE f[1] = "wrong"
      BY <1>2, <3>1, <3>4 DEF HandlerSignals, CaughtSignals, Twofold
    <3>5. CASE f[1] = "unknown"
      BY <1>2, <3>1, <3>5 DEF HandlerSignals, CaughtSignals, Twofold
    <3>6. CASE f[1] = "length"
      <4>1. s = VerifyPinFailed("again") \o <<>>
        BY <3>1, <3>6 DEF HandlerSignals, CaughtSignals
      <4> QED
        BY <1>2, <2>3, <4>1, NothingAdded
    <3>7. CASE f[1] = "blocked"
      <4>1. s = VerifyPinFailed("fatal") \o <<>>
        BY <3>1, <3>7 DEF HandlerSignals, CaughtSignals
      <4> QED
        BY <1>2, <2>3, <4>1, NothingAdded
    <3> QED
      BY <2>2, <3>2, <3>3, <3>4, <3>5, <3>6, <3>7
  <2> QED
    BY <2>5, <2>6
<1> QED
  BY <1>1, <1>2 DEF Outcome

LEMMA ConfirmEmission ==
    ASSUME DialogTypes, NEW t, NEW s, Outcome(t, s)
    PROVE  Emission(s)
<1>1. \A k \in {"completed", "retry", "failure", "cancel"} : Emission(Own(t, k))
  BY OwnEmission DEF OwnKinds
<1>2. Emission(HandlerRetry) /\ Emission(<<>>)
  BY RetryEmission, EmptyEmission
<1>3. cmd # "get-signing-certificate" => \A d \in {"again", "fatal"} : Emission(VerifyPinFailed(d))
  BY PinFailedEmission
<1>4. CASE \E k \in {"completed", "retry", "failure"} : s = Own(t, k)
  BY <1>1, <1>4
<1>5. CASE s \in {<<>>, HandlerRetry, Own(t, "cancel")}
  BY <1>1, <1>2, <1>5
<1>6. CASE s = HandlerRetry \o Own(t, "failure")
  BY <1>1, <1>2, <1>6, ConcatEmission
<1>7. ASSUME cmd # "get-signing-certificate", NEW d \in {"again", "fatal"},
             s = VerifyPinFailed(d) \/ s = VerifyPinFailed(d) \o Own(t, "failure")
      PROVE  Emission(s)
  BY <1>1, <1>3, <1>7, ConcatEmission
<1> QED
  BY <1>4, <1>5, <1>6, <1>7, OutcomeShape

-----------------------------------------------------------------------------
(* The steps of the threads.                                               *)

LEMMA PostEffect ==
    ASSUME MainTypes, NEW s \in Seq(Signals), Post(s)
    PROVE  queue' \in Seq(Signals) /\ Posted' = Posted \cup Range(s)
<1>1. queue \in Seq(Signals)
  BY DEF MainTypes
<1> QED
  BY <1>1, RangeOfConcat DEF Post, Posted

(* What a thread posts has a receiver.                                     *)
LEMMA EmittedIsAddressed ==
    ASSUME Inv, NEW t \in Threads,
           kind' = kind \/ (kind[t] # "run" /\ kind' = [kind EXCEPT ![t] = ""]),
           UNCHANGED <<cmd, live, window>>, NEW e, Emitted(e)
    PROVE  /\ Addressed(e)' /\ e.k # "deleteWindow"
           /\ e.o = window /\ e.k \in WindowSignals => window \in Range(toWindow)
<1>1. /\ Range(toWindow) \subseteq live /\ \A u \in toThreads : u \in Threads /\ kind[u] = "run"
      /\ kind \in [Threads -> {""} \cup Pollers \cup CommandThreads]
  BY DEF Inv, TypeOK, WindowsAreLive, ThreadsAreKept, DialogTypes, ThreadTypes
<1>2. \A u \in toThreads : kind'[u] = "run"
  BY <1>1
<1> QED
  BY <1>1, <1>2 DEF Emitted, Addressed, ThreadSignals

(* A thread ends, and posts signals; ...                                   *)
LEMMA EndKeeps ==
    ASSUME Inv, NEW t \in Threads, st[t] # "free", kind[t] # "run",
           NEW s, Emission(s), End(t, s),
           kind[t] = "confirm" /\ st[t] = "ready" => ~pin[dialog[t]],
           moves' \in 0 .. MaxCardMoves, UNCHANGED <<cmd, mode, card, mainVars, windowVars>>
    PROVE  Inv'
<1>1. Post(s) /\ FreeThread(t)
  BY DEF End
<1>2. queue' \in Seq(Signals) /\ Posted' \subseteq Posted \cup Range(s)
  BY <1>1, PostEffect DEF Inv, TypeOK, Emission
<1>3. kind' = [kind EXCEPT ![t] = ""]
  BY <1>1 DEF FreeThread
<1>4. UNCHANGED <<cmd, live, window>>
  BY DEF windowVars
<1>5. \A e \in Range(s) : Addressed(e)' /\ e.k # "deleteWindow"
              /\ (e.o = window /\ e.k \in WindowSignals => window \in Range(toWindow))
  BY <1>3, <1>4, EmittedIsAddressed DEF Emission
<1> HIDE DEF Inv
<1> QED
  BY <1>1, <1>2, <1>5, ThreadEndsKeeps

(* ... or goes on.                                                         *)
LEMMA MoveKeeps ==
    ASSUME Inv, NEW t \in Threads, st[t] # "free", kind[t] # "run",
           NEW s, Emission(s), Post(s), NEW to \in {"card", "waiting"},
           st' = [st EXCEPT ![t] = to],
           pin' = pin \/ pin' = [pin EXCEPT ![dialog[t]] = FALSE],
           kind[t] = "confirm" /\ st[t] = "ready" => ~pin'[dialog[t]],
           moves' \in 0 .. MaxCardMoves, UNCHANGED <<cmd, mode, card, mainVars, window, live, page, right, choice, handlerVars>>,
           SameThread
    PROVE  Inv'
<1>2. queue' \in Seq(Signals) /\ Posted' \subseteq Posted \cup Range(s)
  BY PostEffect DEF Inv, TypeOK, Emission
<1>3. UNCHANGED <<kind, children, interrupted, connected, dialog>>
  BY DEF SameThread
<1>5. \A e \in Range(s) : Addressed(e)' /\ e.k # "deleteWindow"
              /\ (e.o = window /\ e.k \in WindowSignals => window \in Range(toWindow))
  BY <1>3, EmittedIsAddressed DEF Emission
<1> HIDE DEF Inv
<1> QED
  BY <1>2, <1>3, <1>5, ThreadMovesKeeps

LEMMA MovesType ==
    ASSUME EnvTypes, NoCardFound \/ UNCHANGED moves
    PROVE  moves' \in 0 .. MaxCardMoves
<1>1. moves \in 0 .. MaxCardMoves
  BY DEF EnvTypes
<1>2. MaxCardMoves \in Nat
  BY Bounds
<1> QED
  BY <1>1, <1>2 DEF NoCardFound

LEMMA AliveHasKind ==
    ASSUME Inv, NEW t \in Threads, kind[t] # ""
    PROVE  st[t] # "free"
BY DEF Inv, ThreadsAreKept

(* WaitForCardThread.                                                      *)
LEMMA WaitForCardKeeps ==
    ASSUME Inv, NEW t \in Threads, WaitForCard(t)
    PROVE  Inv'
<1>1. kind[t] = "waitForCard" /\ st[t] # "free" /\ UNCHANGED <<cmd, mode, card, mainVars, windowVars>>
  BY AliveHasKind DEF WaitForCard
<1>2. EnvTypes
  BY DEF Inv, TypeOK
<1>3. Emission(NoCardStatus(t)) /\ Emission(Own(t, "cardsAvailable")) /\ Emission(Own(t, "failure"))
  BY OwnEmission, EmptyEmission DEF NoCardStatus, OwnKinds
<1>4. CASE card /\ End(t, Own(t, "cardsAvailable")) /\ UNCHANGED moves
  BY <1>1, <1>2, <1>3, <1>4, MovesType, EndKeeps
<1>5. CASE t \in interrupted /\ NoCardFound /\ End(t, NoCardStatus(t))
  BY <1>1, <1>2, <1>3, <1>5, MovesType, EndKeeps
<1>6. CASE /\ t \notin interrupted /\ NoCardFound
           /\ Post(NoCardStatus(t))
           /\ st' = [st EXCEPT ![t] = "waiting"]
           /\ UNCHANGED handlerVars /\ SameThread
  <2>1. moves' \in 0 .. MaxCardMoves
    BY <1>2, <1>6, MovesType
  <2>2. UNCHANGED pin /\ UNCHANGED <<cmd, mode, card, mainVars, window, live, page, right, choice, handlerVars>>
    BY <1>1, <1>6 DEF windowVars
  <2> QED
    BY <1>1, <1>3, <1>6, <2>1, <2>2, MoveKeeps
<1>7. CASE "fatal" \in RunOutcomes /\ End(t, Own(t, "failure")) /\ UNCHANGED moves
  BY <1>1, <1>2, <1>3, <1>7, MovesType, EndKeeps
<1> QED
  BY <1>4, <1>5, <1>6, <1>7 DEF WaitForCard

(* CardEventMonitorThread.                                                 *)
LEMMA MonitorCardsKeeps ==
    ASSUME Inv, NEW t \in Threads, MonitorCards(t)
    PROVE  Inv'
<1>1. kind[t] = "monitor" /\ st[t] # "free" /\ UNCHANGED <<cmd, mode, card, mainVars, windowVars>>
  BY AliveHasKind DEF MonitorCards
<1>2. EnvTypes /\ queue \in Seq(Signals)
  BY DEF Inv, TypeOK, MainTypes
<1>3. Emission(<<>>) /\ Emission(Own(t, "cardEvent"))
  BY OwnEmission, EmptyEmission DEF OwnKinds
<1>4. CASE /\ card /\ t \notin interrupted
           /\ Goto(t, "ready", "waiting")
           /\ UNCHANGED <<moves, queue, handlerVars>> /\ SameThread
  <2>1. moves' \in 0 .. MaxCardMoves
    BY <1>2, <1>4, MovesType
  <2>2. UNCHANGED pin /\ UNCHANGED <<cmd, mode, card, mainVars, window, live, page, right, choice, handlerVars>>
    BY <1>1, <1>4 DEF windowVars
  <2> DEFINE none == {}
  <2>3. queue' \in Seq(Signals) /\ Posted' \subseteq Posted \cup none
    BY <1>2, <1>4 DEF Posted
  <2>4. /\ st' = [st EXCEPT ![t] = "waiting"] /\ st[t] = "ready"
        /\ UNCHANGED <<kind, children, interrupted, connected, dialog>>
    BY <1>4 DEF Goto, SameThread
  <2>5. \A e \in none : /\ Addressed(e)' /\ e.k # "deleteWindow"
              /\ (e.o = window /\ e.k \in WindowSignals => window \in Range(toWindow))
    OBVIOUS
  <2>6. (kind[t] = "confirm" /\ st[t] = "ready" => ~pin'[dialog[t]]) /\ (st[t] = "done" => kind[t] # "run")
    BY <1>1
  <2>7. pin' = pin \/ pin' = [pin EXCEPT ![dialog[t]] = FALSE]
    BY <2>2
  <2>8. UNCHANGED <<cmd, mode, card, mainVars, window, live, page, right, choice, handlerVars>>
    BY <2>2
  <2>9. "waiting" \in {"card", "waiting", "done"}
    OBVIOUS
  <2> HIDE DEF Inv, none
  <2> QED
    BY <1>1, <2>1, <2>9, <2>3, <2>4, <2>5, <2>6, <2>7, <2>8, ThreadMovesKeeps
<1>5. CASE t \in interrupted /\ End(t, <<>>) /\ UNCHANGED moves
  BY <1>1, <1>2, <1>3, <1>5, MovesType, EndKeeps
<1>6. CASE /\ st[t] = "waiting" /\ t \notin interrupted
           /\ NoCardFound
           /\ End(t, Own(t, "cardEvent"))
  BY <1>1, <1>2, <1>3, <1>6, MovesType, EndKeeps
<1> QED
  BY <1>4, <1>5, <1>6 DEF MonitorCards

(* CommandHandlerRunThread.                                                *)
LEMMA RunCommandKeeps ==
    ASSUME Inv, NEW t \in Threads, RunCommand(t)
    PROVE  Inv'
<1>1. /\ kind[t] = "run" /\ st[t] = "ready" /\ st' = [st EXCEPT ![t] = "done"]
      /\ UNCHANGED <<kind, children, interrupted, connected, dialog, pin>>
      /\ UNCHANGED <<cmd, mode, card, mainVars, window, live, page, right, choice, handlerVars>>
  BY DEF RunCommand, Goto, SameThread, ChildOnly, envVars, windowVars
<1>2. moves' \in 0 .. MaxCardMoves
  BY DEF RunCommand, ChildOnly, envVars, Inv, TypeOK, EnvTypes
<1>3. DialogTypes /\ st \in [Threads -> {"free", "ready", "card", "waiting", "done"}]
  BY DEF Inv, TypeOK, ThreadTypes
<1>4. PICK o \in RunOutcomes : Post(RunSignals(t, o) \o Ended(t))
  BY DEF RunCommand
<1>5. Emission(RunSignals(t, o))
  BY <1>3, RunEmission
<1> DEFINE done == Sig("finished", t)
<1>6. done \in Signals /\ done.k = "finished" /\ done.o = t
  BY ZeroLevel DEF Sig, Signals, SignalKinds, ThreadSignals
<1>7. Ended(t) \in Seq(Signals) /\ Range(Ended(t)) \subseteq {done}
  BY <1>6, EmptyRange, SingletonRange DEF Ended
<1> HIDE DEF done
<1>8. RunSignals(t, o) \o Ended(t) \in Seq(Signals)
      /\ Range(RunSignals(t, o) \o Ended(t)) = Range(RunSignals(t, o)) \cup Range(Ended(t))
  BY <1>5, <1>7, RangeOfConcat DEF Emission
<1> DEFINE new == Range(RunSignals(t, o)) \cup {done}
<1>9. queue' \in Seq(Signals) /\ Posted' \subseteq Posted \cup new
  <2>1. MainTypes
    BY DEF Inv, TypeOK
  <2>2. queue' \in Seq(Signals)
        /\ Posted' = Posted \cup Range(RunSignals(t, o) \o Ended(t))
    BY <2>1, <1>4, <1>8, PostEffect
  <2> QED
    BY <2>2, <1>7, <1>8
<1>10. \A e \in new : /\ Addressed(e)' /\ e.k # "deleteWindow"
              /\ (e.o = window /\ e.k \in WindowSignals => window \in Range(toWindow))
  <2>1. ASSUME NEW e \in Range(RunSignals(t, o))
        PROVE  /\ Addressed(e)' /\ e.k # "deleteWindow"
               /\ (e.o = window /\ e.k \in WindowSignals => window \in Range(toWindow))
    <3>1. Emitted(e)
      BY <1>5 DEF Emission
    <3>2. kind' = kind /\ UNCHANGED <<cmd, live, window>>
      BY <1>1
    <3> QED
      BY <3>1, <3>2, EmittedIsAddressed
  <2>2. /\ Addressed(done)' /\ done.k # "deleteWindow"
        /\ (done.o = window /\ done.k \in WindowSignals => window \in Range(toWindow))
    <3>1. st'[t] = "done" /\ kind'[t] = "run"
      BY <1>1, <1>3
    <3> QED
      BY <3>1, <1>6 DEF Addressed, WindowSignals, ThreadSignals
  <2> QED
    BY <2>1, <2>2
<1>11. st[t] # "free" /\ (st[t] = "done" => kind[t] # "run")
       /\ "done" \in {"card", "waiting", "done"} /\ pin' = pin /\ kind[t] # "confirm"
  BY <1>1
<1> HIDE DEF Inv, new
<1> QED
  BY <1>1, <1>2, <1>9, <1>10, <1>11, ThreadMovesKeeps

(* getPin() in a confirm thread ...                                        *)
LEMMA GetPinKeeps ==
    ASSUME Inv, NEW t \in Threads, GetPin(t)
    PROVE  Inv'
<1>1. /\ kind[t] = "confirm" /\ st[t] = "ready"
      /\ UNCHANGED <<cmd, mode, card, mainVars, window, live, page, right, choice>>
  BY DEF GetPin, envVars
<1>2. moves' \in 0 .. MaxCardMoves
  BY DEF GetPin, envVars, Inv, TypeOK, EnvTypes
<1>3. queue \in Seq(Signals) /\ dialog[t] \in live /\ live \subseteq Windows /\ pin \in [Windows -> BOOLEAN]
  BY <1>1 DEF Inv, TypeOK, MainTypes, ConfirmHasDialog, DialogTypes
<1>4. ASSUME Goto(t, "ready", "card"), UNCHANGED <<queue, handlerVars>>, SameThread,
             pin' = pin \/ pin' = [pin EXCEPT ![dialog[t]] = FALSE], ~pin'[dialog[t]]
      PROVE  Inv'
  <2> DEFINE none == {}
  <2>1. queue' \in Seq(Signals) /\ Posted' \subseteq Posted \cup none
    BY <1>3, <1>4 DEF Posted
  <2>2. \A e \in none : /\ Addressed(e)' /\ e.k # "deleteWindow"
              /\ (e.o = window /\ e.k \in WindowSignals => window \in Range(toWindow))
    OBVIOUS
  <2>3. /\ st' = [st EXCEPT ![t] = "card"] /\ "card" \in {"card", "waiting", "done"}
        /\ UNCHANGED <<kind, children, interrupted, connected, dialog>>
    BY <1>4 DEF Goto, SameThread
  <2>4. (kind[t] = "confirm" /\ st[t] = "ready" => ~pin'[dialog[t]]) /\ (st[t] = "done" => kind[t] # "run")
        /\ st[t] # "free"
    BY <1>1, <1>4
  <2>5. UNCHANGED <<cmd, mode, card, mainVars, window, live, page, right, choice, handlerVars>>
    BY <1>1, <1>4
  <2>6. pin' = pin \/ pin' = [pin EXCEPT ![dialog[t]] = FALSE]
    BY <1>4
  <2> HIDE DEF Inv, none
  <2> QED
    BY <2>1, <2>2, <2>3, <2>4, <2>5, <2>6, <1>2, ThreadMovesKeeps
<1>5. CASE /\ ~NeedsPin
           /\ Goto(t, "ready", "card")
           /\ UNCHANGED <<pin, queue, handlerVars>> /\ SameThread
  <2>1. ~pin[dialog[t]]
    BY <1>3, <1>5 DEF Inv, PinIsWanted
  <2> QED
    BY <2>1, <1>4, <1>5
<1>6. CASE /\ NeedsPin /\ pin[dialog[t]]
           /\ Goto(t, "ready", "card")
           /\ pin' = [pin EXCEPT ![dialog[t]] = FALSE]
           /\ UNCHANGED <<queue, handlerVars>> /\ SameThread
  <2>1. ~pin'[dialog[t]]
    BY <1>3, <1>6
  <2> QED
    BY <2>1, <1>4, <1>6
<1>7. CASE /\ NeedsPin /\ ~pin[dialog[t]]
           /\ End(t, Own(t, "failure"))
           /\ UNCHANGED pin
  <2>1. Emission(Own(t, "failure"))
    BY OwnEmission DEF OwnKinds
  <2>2. UNCHANGED <<cmd, mode, card, mainVars, windowVars>>
    BY <1>1, <1>7 DEF windowVars
  <2>3. st[t] # "free" /\ kind[t] # "run" /\ (kind[t] = "confirm" /\ st[t] = "ready" => ~pin[dialog[t]])
    BY <1>1, <1>7
  <2>4. End(t, Own(t, "failure"))
    BY <1>7
  <2> HIDE DEF Inv
  <2> QED
    BY <2>1, <2>2, <2>3, <2>4, <1>2, EndKeeps
<1> QED
  BY <1>5, <1>6, <1>7 DEF GetPin

(* ... and its card operation.                                             *)
LEMMA ConfirmKeeps ==
    ASSUME Inv, NEW t \in Threads, Confirm(t)
    PROVE  Inv'
<1>1. kind[t] = "confirm" /\ st[t] = "card" /\ UNCHANGED <<cmd, mode, card, mainVars, windowVars>>
  BY DEF Confirm, ChildOnly, envVars
<1>2. moves' \in 0 .. MaxCardMoves /\ DialogTypes
  BY DEF Confirm, ChildOnly, envVars, Inv, TypeOK, EnvTypes
<1>3. PICK s : Outcome(t, s) /\ End(t, s)
  BY ConfirmOutcome
<1>4. Emission(s)
  BY <1>2, <1>3, ConfirmEmission
<1>5. st[t] # "free" /\ kind[t] # "run" /\ (kind[t] = "confirm" /\ st[t] = "ready" => ~pin[dialog[t]])
  BY <1>1
<1> HIDE DEF Inv
<1> QED
  BY <1>1, <1>2, <1>3, <1>4, <1>5, EndKeeps

LEMMA ThreadStepKeeps ==
    ASSUME Inv, NEW t \in Threads, ThreadStep(t)
    PROVE  Inv'
BY WaitForCardKeeps, MonitorCardsKeeps, RunCommandKeeps, GetPinKeeps, ConfirmKeeps DEF ThreadStep

-----------------------------------------------------------------------------
(* The delivery of a signal.                                               *)

(* A signal that nobody takes.                                             *)
LEMMA IgnoredKeeps ==
    ASSUME Inv, NEW q, From(q), pc = "loop", Ignored(q)
    PROVE  Inv'
<1>1. /\ pc # "start" /\ UNCHANGED <<cmd, mode, windowVars, threadVars, handlerVars, mainVars>>
      /\ queue' \in Seq(Signals) /\ Posted' \subseteq Posted \cup {}
  BY DEF Ignored, envVars, From, Posted
<1>2. card' \in BOOLEAN /\ moves' \in 0 .. MaxCardMoves
  BY DEF Ignored, envVars, Inv, TypeOK, EnvTypes
<1> DEFINE none == {}
<1>3. (\A e \in none : e.k \notin WindowSignals /\ Addressed(e)) /\ Posted' \subseteq Posted \cup none
  BY <1>1
<1> HIDE DEF Inv, none
<1> QED
  BY <1>1, <1>2, <1>3, QueueKeeps

LEMMA PageOnlyKeeps ==
    ASSUME Inv, NEW q, From(q), pc = "loop", window # None, NEW p \in Pages,
           p = "pin" => cmd # "get-signing-certificate",
           p \in {"select", "pin", "pinpad", "busy", "blocked"} => window \in Range(toWindow),
           PageOnly(window, p, q)
    PROVE  Inv'
<1>1. page' = [page EXCEPT ![window] = p] /\ queue' = q
      /\ UNCHANGED <<window, live, pin, threadVars, handlerVars, mainVars, envVars>>
  BY DEF PageOnly, ShowPage
<1>2. right' \in [Windows -> BOOLEAN] /\ choice' \in [Windows -> BOOLEAN]
  BY DEF PageOnly, Inv, TypeOK, DialogTypes
<1> HIDE DEF Inv
<1> QED
  BY <1>1, <1>2, PageKeeps

(* The PIN page, or the PIN pad.                                           *)
LEMMA PromptForPinKeeps ==
    ASSUME Inv, NEW q, From(q), pc = "loop", window # None, window \in Range(toWindow),
           cmd # "get-signing-certificate", PromptForPin(window, q)
    PROVE  Inv'
<1> HIDE DEF Inv
<1>1. CASE mode = "pinpad"
  <2>1. /\ page' = [page EXCEPT ![window] = "pinpad"] /\ OnConfirmCommandHandler(q)
        /\ UNCHANGED pin /\ UNCHANGED <<window, live, right, choice>>
    BY <1>1 DEF PromptForPin, ShowPage
  <2> QED
    BY <2>1, ConfirmHandlerKeeps
<1>2. CASE mode # "pinpad"
  <2>1. PageOnly(window, "pin", q) /\ "pin" \in Pages
    BY <1>2 DEF PromptForPin, Pages
  <2> QED
    BY <2>1, PageOnlyKeeps
<1> QED
  BY <1>1, <1>2

(* onSingleCertificateReady.                                               *)
LEMMA SingleCertificateKeeps ==
    ASSUME Inv, NEW q, From(q), pc = "loop", window # None, window \in Range(toWindow),
           NEW d, OnSingleCertificateReady(window, d, q)
    PROVE  Inv'
<1> HIDE DEF Inv
<1>1. CASE OnCriticalFailure(q)
  BY <1>1, CriticalFailureKeeps
<1>2. CASE PageOnly(window, "blocked", q)
  <2>1. "blocked" \in Pages /\ "blocked" # "pin"
    BY DEF Pages
  <2> QED
    BY <1>2, <2>1, PageOnlyKeeps
<1>3. CASE cmd = "get-signing-certificate" /\ PageOnly(window, "select", q)
  <2>1. "select" \in Pages /\ "select" # "pin"
    BY DEF Pages
  <2> QED
    BY <1>3, <2>1, PageOnlyKeeps
<1>4. CASE cmd # "get-signing-certificate" /\ PromptForPin(window, q)
  BY <1>4, PromptForPinKeeps
<1> QED
  BY <1>1, <1>2, <1>3, <1>4 DEF OnSingleCertificateReady

(* onMultipleCertificatesReady.                                            *)
LEMMA MultipleCertificatesKeeps ==
    ASSUME Inv, NEW q, From(q), pc = "loop", window # None, window \in Range(toWindow),
           OnMultipleCertificatesReady(window, q)
    PROVE  Inv'
<1>1. CASE OnCriticalFailure(q)
  <2> HIDE DEF Inv
  <2> QED
    BY <1>1, CriticalFailureKeeps
<1>2. CASE /\ ShowPage(window, "select")
           /\ choice' = [choice EXCEPT ![window] = TRUE]
           /\ queue' = q
           /\ UNCHANGED <<window, live, right, pin, threadVars, handlerVars, mainVars, envVars>>
  <2>1. right' \in [Windows -> BOOLEAN] /\ choice' \in [Windows -> BOOLEAN]
    BY <1>2 DEF Inv, TypeOK, DialogTypes
  <2>2. page' = [page EXCEPT ![window] = "select"] /\ "select" \in Pages /\ "select" # "pin"
    BY <1>2 DEF ShowPage, Pages
  <2>3. UNCHANGED <<window, live, pin, threadVars, handlerVars, mainVars, envVars>>
    BY <1>2
  <2> HIDE DEF Inv
  <2> QED
    BY <1>2, <2>1, <2>2, <2>3, PageKeeps
<1> QED
  BY <1>1, <1>2 DEF OnMultipleCertificatesReady

(* onSmartCardStatusUpdate.                                                *)
LEMMA StatusUpdateKeeps ==
    ASSUME Inv, NEW q, From(q), pc = "loop", OnSmartCardStatusUpdate(q)
    PROVE  Inv'
<1>1. CASE window = None
  BY <1>1, IgnoredKeeps DEF OnSmartCardStatusUpdate
<1>2. CASE window # None
  <2>1. right' \in [Windows -> BOOLEAN] /\ choice' \in [Windows -> BOOLEAN]
    BY <1>2 DEF OnSmartCardStatusUpdate, Inv, TypeOK, DialogTypes
  <2>2. /\ page' = [page EXCEPT ![window] = "alert"] /\ queue' = q
        /\ UNCHANGED <<window, live, pin, threadVars, handlerVars, mainVars, envVars>>
    BY <1>2 DEF OnSmartCardStatusUpdate, ShowPage
  <2>3. "alert" \in Pages /\ "alert" \notin {"select", "pin", "pinpad", "busy", "blocked"} /\ "alert" # "pin"
    BY DEF Pages
  <2> HIDE DEF Inv
  <2> QED
    BY <1>2, <2>1, <2>2, <2>3, PageKeeps
<1> QED
  BY <1>1, <1>2

LEMMA RetryPageKeeps ==
    ASSUME Inv, NEW q, From(q), pc = "loop", window # None, PageOnly(window, "retry", q)
    PROVE  Inv'
<1>1. "retry" \in Pages /\ "retry" \notin {"select", "pin", "pinpad", "busy", "blocked"} /\ "retry" # "pin"
  BY DEF Pages
<1> HIDE DEF Inv
<1> QED
  BY <1>1, PageOnlyKeeps

(* Controller::retry.                                                      *)
LEMMA RetrySignalKeeps ==
    ASSUME Inv, NEW q, From(q), pc = "loop", OnRetrySignal(q)
    PROVE  Inv'
BY IgnoredKeeps, RetryPageKeeps DEF OnRetrySignal

(* onVerifyPinFailed shows one of the pages.                               *)
LEMMA PinFailurePage ==
    ASSUME NEW p \in Pages, NEW d
    PROVE  PageAfterPinFailure(p, d) \in Pages
<1>1. PageAfterPinFailure(p, d) \in {"blocked", "retry", "pin", "alert", p}
  BY DEF PageAfterPinFailure
<1> QED
  BY <1>1 DEF Pages

LEMMA PinFailedKeeps ==
    ASSUME Inv, NEW q, From(q), pc = "loop", window # None, window \in Range(toWindow),
           cmd # "get-signing-certificate", NEW d, OnVerifyPinFailed(window, d, q)
    PROVE  Inv'
<1>1. page[window] \in Pages
  BY DEF Inv, TypeOK, DialogTypes
<1>2. PageAfterPinFailure(page[window], d) \in Pages
  BY <1>1, PinFailurePage
<1>3. PageOnly(window, PageAfterPinFailure(page[window], d), q)
  BY DEF OnVerifyPinFailed
<1> HIDE DEF Inv
<1> QED
  BY <1>2, <1>3, PageOnlyKeeps

(* A signal for a dialog.                                                  *)
LEMMA DeliverToWindowKeeps ==
    ASSUME Inv, NEW q, From(q), pc = "loop", NEW e \in Posted,
           e.k \in WindowSignals \ {"deleteWindow"}, DeliverToWindow(e, q)
    PROVE  Inv'
<1>1. (e.k \in WindowSignals => e.o \in live) /\ (e.k = "verifyPinFailed" => cmd # "get-signing-certificate")
  BY DEF Inv, SignalsAreAddressed, Addressed
<1>2. e.o # None
  BY <1>1, NoneIsNoObject DEF Inv, TypeOK
<1>3. e.o = window => window # None /\ window \in Range(toWindow)
  BY <1>2 DEF Inv, WindowIsConnected
<1> HIDE DEF Inv
<1>4. CASE Ignored(q)
  BY <1>4, IgnoredKeeps
<1>5. CASE e.o = window /\ OnMultipleCertificatesReady(window, q)
  BY <1>3, <1>5, MultipleCertificatesKeeps
<1>6. CASE e.o = window /\ OnSingleCertificateReady(window, e.d, q)
  BY <1>3, <1>6, SingleCertificateKeeps
<1>7. CASE e.o = window /\ PageOnly(window, "retry", q)
  BY <1>3, <1>7, RetryPageKeeps
<1>8. CASE e.o = window /\ e.k = "verifyPinFailed" /\ OnVerifyPinFailed(window, e.d, q)
  BY <1>1, <1>3, <1>8, PinFailedKeeps
<1> QED
  BY <1>4, <1>5, <1>6, <1>7, <1>8 DEF DeliverToWindow

(* A signal for Controller.                                                *)
LEMMA DeliverToControllerKeeps ==
    ASSUME Inv, NEW q, From(q), pc = "loop", NEW e, DeliverToController(e, q)
    PROVE  Inv'
<1> HIDE DEF Inv
<1>1. CASE OnCardsAvailable(q)
  <2>1. CASE window = None
    BY <1>1, <2>1, CriticalFailureKeeps DEF OnCardsAvailable
  <2> QED
    BY <1>1, <2>1, CardsAvailableKeeps
<1>2. CASE OnSmartCardStatusUpdate(q)
  BY <1>2, StatusUpdateKeeps
<1>3. CASE OnCertificatesLoaded(q)
  BY <1>3, CertificatesLoadedKeeps
<1>4. CASE OnRetry(q)
  BY <1>4, RetryKeeps
<1>5. CASE OnRetrySignal(q)
  BY <1>5, RetrySignalKeeps
<1>6. CASE OnCommandHandlerConfirmCompleted(q)
  <2>1. "success" \in Answers /\ Write("success") /\ Finish(q)
    BY <1>6 DEF OnCommandHandlerConfirmCompleted, Answers
  <2> QED
    BY <2>1, FinishKeeps
<1>7. CASE OnDialogCancel(q)
  <2>1. "cancelled" \in Answers /\ Write("cancelled") /\ Finish(q)
    BY <1>7 DEF OnDialogCancel, Answers
  <2> QED
    BY <2>1, FinishKeeps
<1>8. CASE OnCriticalFailure(q)
  BY <1>8, CriticalFailureKeeps
<1>9. CASE /\ quitting' = TRUE /\ pc' = "unwind" /\ queue' = q
           /\ UNCHANGED <<cont, depth, joinVars, responses, windowVars, threadVars, handlerVars,
                          envVars>>
  <2>1. queue' \in Seq(Signals) /\ Posted' \subseteq Posted /\ quitting' \in BOOLEAN
    BY <1>9 DEF From, Posted
  <2>2. pc \in {"start", "loop", "unwind"} /\ pc' \in {"loop", "unwind", "exited"}
    BY <1>9
  <2> QED
    BY <1>9, <2>1, <2>2, MainKeeps
<1> QED
  BY <1>1, <1>2, <1>3, <1>4, <1>5, <1>6, <1>7, <1>8, <1>9 DEF DeliverToController

(* finished() of a run thread: its object is deleted later.                *)
LEMMA FinishedKeeps ==
    ASSUME Inv, NEW q, From(q), pc = "loop", NEW e \in Posted, e.k = "finished",
           Ignored(Append(q, DeleteLater("deleteThread", e.o, depth)))
    PROVE  Inv'
<1> DEFINE later == DeleteLater("deleteThread", e.o, depth)
<1>1. e.o \in Threads /\ kind[e.o] = "run" /\ st[e.o] = "done"
  BY DEF Inv, SignalsAreAddressed, Addressed, ThreadSignals
<1>2. later.k = "deleteThread" /\ later.o = e.o
  BY DEF DeleteLater
<1>3. depth \in 0 .. MaxDepth
  BY DEF Inv, TypeOK, MainTypes
<1>4. later \in Signals
  BY <1>1, <1>3 DEF DeleteLater, Signals, SignalKinds, ThreadSignals
<1>5. later.k \notin WindowSignals /\ Addressed(later)
  BY <1>1, <1>2 DEF Addressed, WindowSignals, ThreadSignals
<1> HIDE DEF later
<1>6. queue' = Append(q, later)
  BY DEF Ignored, later
<1>7. queue' \in Seq(Signals) /\ Posted' = Range(q) \cup {later}
  BY <1>4, <1>6, RangeOfAppend DEF From, Posted
<1> DEFINE new == {later}
<1>8. (\A x \in new : x.k \notin WindowSignals /\ Addressed(x)) /\ Posted' \subseteq Posted \cup new
  BY <1>5, <1>7 DEF From
<1>9. pc # "start" /\ UNCHANGED <<cmd, mode, windowVars, threadVars, handlerVars, mainVars>>
  BY DEF Ignored, envVars
<1>10. card' \in BOOLEAN /\ moves' \in 0 .. MaxCardMoves
  BY DEF Ignored, envVars, Inv, TypeOK, EnvTypes
<1> HIDE DEF Inv, new
<1> QED
  BY <1>7, <1>8, <1>9, <1>10, QueueKeeps

LEMMA DeliverToThreadKeeps ==
    ASSUME Inv, NEW q, From(q), pc = "loop", NEW e \in Posted, DeliverToThread(e, q)
    PROVE  Inv'
BY FinishedKeeps, RetrySignalKeeps, IgnoredKeeps DEF DeliverToThread

(* The signal that is delivered is in the queue and may be delivered, and  *)
(* what is left was in the queue before.                                   *)
LEMMA Delivery ==
    ASSUME queue \in Seq(Signals), ~Idle
    PROVE  /\ NextSignal \in 1 .. Len(queue) /\ Deliverable(queue[NextSignal])
           /\ queue[NextSignal] \in Posted /\ From(RemoveAt(queue, NextSignal))
           /\ \A i \in 1 .. Len(queue) : Deliverable(queue[i]) => NextSignal <= i
<1> DEFINE ready == {i \in 1 .. Len(queue) : Deliverable(queue[i])}
<1>1. ready \subseteq Nat /\ ready # {}
  BY DEF Idle
<1>2. Min(ready) \in ready /\ \A i \in ready : Min(ready) <= i
  <2> HIDE DEF ready
  <2> QED
    BY <1>1, MinIsMember
<1>3. NextSignal = Min(ready)
  BY DEF NextSignal
<1>4. NextSignal \in 1 .. Len(queue) /\ Deliverable(queue[NextSignal])
      /\ \A i \in 1 .. Len(queue) : Deliverable(queue[i]) => NextSignal <= i
  BY <1>2, <1>3
<1> HIDE DEF ready
<1> QED
  BY <1>4, RangeMember, RangeOfRemoveAt DEF From, Posted

LEMMA DeliverKeeps ==
    ASSUME Inv, Deliver
    PROVE  Inv'
<1> DEFINE e == queue[NextSignal]
           q == RemoveAt(queue, NextSignal)
<1>1. pc = "loop" /\ ~Idle /\ queue \in Seq(Signals)
  BY DEF Deliver, Inv, TypeOK, MainTypes
<1>2. Deliverable(e) /\ e \in Posted /\ From(q)
  BY <1>1, Delivery
<1>3. \/ e.k = "deleteWindow" /\ DeleteWindow(e.o, q)
      \/ e.k = "deleteThread" /\ DeleteThread(e.o, q)
      \/ e.k \in WindowSignals \ {"deleteWindow"} /\ DeliverToWindow(e, q)
      \/ DeliverToThread(e, q)
      \/ DeliverToController(e, q)
  BY DEF Deliver
<1> HIDE DEF Inv, e, q
<1>4. CASE e.k = "deleteWindow" /\ DeleteWindow(e.o, q)
  <2>1. depth <= e.l
    BY <1>2, <1>4 DEF Deliverable
  <2> QED
    BY <1>1, <1>2, <1>4, <2>1, DeleteWindowKeeps
<1>5. CASE e.k = "deleteThread" /\ DeleteThread(e.o, q)
  BY <1>1, <1>2, <1>5, DeleteThreadKeeps
<1>6. CASE e.k \in WindowSignals \ {"deleteWindow"} /\ DeliverToWindow(e, q)
  BY <1>1, <1>2, <1>6, DeliverToWindowKeeps
<1>7. CASE DeliverToThread(e, q)
  BY <1>1, <1>2, <1>7, DeliverToThreadKeeps
<1>8. CASE DeliverToController(e, q)
  BY <1>1, <1>2, <1>8, DeliverToControllerKeeps
<1> QED
  BY <1>3, <1>4, <1>5, <1>6, <1>7, <1>8

-----------------------------------------------------------------------------
(* The other steps of the main thread, and the user.                       *)

(* The queue as the user and the start find it.                            *)
LEMMA QueueAsItIs ==
    ASSUME Inv
    PROVE  From(queue) /\ \A s : From(s) => s \in Seq(Signals)
BY DEF Inv, TypeOK, MainTypes, From, Posted

LEMMA CancelKeeps ==
    ASSUME Inv, NEW q, From(q), pc = "loop", OnDialogCancel(q)
    PROVE  Inv'
<1>1. "cancelled" \in Answers /\ Write("cancelled") /\ Finish(q)
  BY DEF OnDialogCancel, Answers
<1> HIDE DEF Inv
<1> QED
  BY <1>1, FinishKeeps

LEMMA RunKeeps ==
    ASSUME Inv, Run
    PROVE  Inv'
<1>1. pc = "start" /\ From(queue)
  BY QueueAsItIs DEF Run
<1>2. CASE Write("quit") /\ Finish(queue)
  <2>1. "quit" \in Answers
    BY DEF Answers
  <2> HIDE DEF Inv
  <2> QED
    BY <1>1, <1>2, <2>1, FinishKeeps
<1>3. CASE OnCriticalFailure(queue)
  <2> HIDE DEF Inv
  <2> QED
    BY <1>1, <1>3, CriticalFailureKeeps
<1>4. CASE /\ pc' = "loop"
           /\ UNCHANGED <<envVars, cont, depth, quitting, joinVars, responses, queue,
                          threadVars, windowVars, handlerVars>>
  <2>1. queue' \in Seq(Signals) /\ Posted' \subseteq Posted /\ quitting' \in BOOLEAN
    BY <1>4 DEF Inv, TypeOK, MainTypes, Posted
  <2>2. pc \in {"start", "loop", "unwind"} /\ pc' \in {"loop", "unwind", "exited"}
        /\ UNCHANGED <<cont, depth, joinVars, responses, windowVars, threadVars, handlerVars, envVars>>
    BY <1>1, <1>4
  <2> HIDE DEF Inv
  <2> QED
    BY <2>1, <2>2, MainKeeps
<1>5. CASE /\ StartCommandExecution
           /\ pc' = "loop"
           /\ UNCHANGED <<cont, depth, quitting, joinVars, responses, queue, envVars>>
  <2>1. \A u \in Threads : st[u] = "free"
    BY <1>1 DEF Inv, StartIsFresh
  <2>2. cont' \in {"", "exit"}
    BY <1>1, <1>5 DEF Inv, TypeOK, MainTypes, RestartIsDue
  <2> HIDE DEF Inv
  <2> QED
    BY <1>5, <2>1, <2>2, StartKeeps
<1> QED
  BY <1>2, <1>3, <1>4, <1>5 DEF Run

(* Where the join is over every thread object is gone.                     *)
LEMMA NobodyIsLeft ==
    ASSUME Inv, JoinIsOver
    PROVE  \A u \in Threads : st[u] = "free"
<1>1. todo = <<>> /\ current = None /\ None \notin Threads
  BY NoneIsNoObject DEF JoinIsOver, Inv, TypeOK
<1>2. Range(todo) = {}
  BY <1>1, EmptyRange
<1>3. \A u \in Threads : st[u] # "free" => u \in Range(todo) \cup {current}
  BY DEF JoinIsOver, Inv, JoinWaitsForAll
<1> QED
  BY <1>1, <1>2, <1>3

LEMMA RestartKeeps ==
    ASSUME Inv, Restart
    PROVE  Inv'
<1>1. /\ StartCommandExecution /\ pc' = "loop" /\ cont' \in {"", "exit"}
      /\ UNCHANGED <<depth, quitting, joinVars, responses, queue, envVars>>
  BY DEF Restart
<1>2. \A u \in Threads : st[u] = "free"
  BY NobodyIsLeft DEF Restart
<1> HIDE DEF Inv
<1> QED
  BY <1>1, <1>2, StartKeeps

LEMMA UnwindKeeps ==
    ASSUME Inv, Unwind
    PROVE  Inv'
<1>1. CASE depth > 0 /\ ReportFatalError
  <2>1. pc \in {"loop", "unwind"}
    BY DEF Unwind
  <2> HIDE DEF Inv
  <2> QED
    BY <1>1, <2>1, FatalErrorKeeps
<1>2. CASE /\ pc' = "exited"
           /\ UNCHANGED <<envVars, cont, depth, quitting, joinVars, responses, queue,
                          threadVars, windowVars, handlerVars>>
  <2>1. queue' \in Seq(Signals) /\ Posted' \subseteq Posted /\ quitting' \in BOOLEAN
    BY <1>2 DEF Inv, TypeOK, MainTypes, Posted
  <2>2. pc \in {"start", "loop", "unwind"} /\ pc' \in {"loop", "unwind", "exited"}
        /\ UNCHANGED <<cont, depth, joinVars, responses, windowVars, threadVars, handlerVars, envVars>>
    BY <1>2 DEF Unwind
  <2> HIDE DEF Inv
  <2> QED
    BY <2>1, <2>2, MainKeeps
<1> QED
  BY <1>1, <1>2 DEF Unwind

LEMMA MainStepKeeps ==
    ASSUME Inv, MainStep
    PROVE  Inv'
BY RunKeeps, DeliverKeeps, StopChildKeeps, WaitForChildKeeps, RestartKeeps, EmitFinishedKeeps,
   UnwindKeeps DEF MainStep

LEMMA ClickOKKeeps ==
    ASSUME Inv, ClickOK
    PROVE  Inv'
<1>1. /\ pc = "loop" /\ window # None /\ page[window] \in {"pin", "select"}
      /\ page[window] = "pin" => cmd # "get-signing-certificate"
      /\ From(queue) /\ window \in Range(toWindow)
  <2>1. pc = "loop" /\ window # None /\ page[window] \in {"pin", "select"}
    BY DEF ClickOK, UserMayOnPage, UserMay
  <2>2. window \in Windows
    BY <2>1 DEF Inv, TypeOK, DialogTypes
  <2> QED
    BY <2>1, <2>2, QueueAsItIs DEF Inv, PinIsWanted, WindowIsConnected
<1> HIDE DEF Inv
<1>2. CASE /\ page[window] = "pin"
           /\ ShowPage(window, "busy")
           /\ pin' = [pin EXCEPT ![window] = (mode = "keyboard")]
           /\ OnConfirmCommandHandler(queue)
           /\ UNCHANGED <<window, live, right, choice>>
  BY <1>1, <1>2, ConfirmHandlerKeeps DEF ShowPage
<1>3. CASE /\ ShowPage(window, "busy")
           /\ OnConfirmCommandHandler(queue)
           /\ UNCHANGED <<window, live, right, choice, pin>>
  BY <1>1, <1>3, ConfirmHandlerKeeps DEF ShowPage
<1>4. CASE \E d \in {"single", "unusable"} : OnSingleCertificateReady(window, d, queue)
  BY <1>1, <1>4, SingleCertificateKeeps
<1> QED
  BY <1>2, <1>3, <1>4 DEF ClickOK, UserMayOnPage

LEMMA SelectAnotherKeeps ==
    ASSUME Inv, SelectAnother
    PROVE  Inv'
<1>1. pc = "loop" /\ window # None /\ page[window] \in {"pin", "busy", "blocked"}
  BY DEF SelectAnother, UserMayOnPage, UserMay
<1>2. window \in Range(toWindow) /\ From(queue)
  BY <1>1, QueueAsItIs DEF Inv, WindowIsConnected
<1>3. PageOnly(window, "select", queue) /\ "select" \in Pages /\ "select" # "pin"
  BY DEF SelectAnother, Pages
<1> HIDE DEF Inv
<1> QED
  BY <1>1, <1>2, <1>3, PageOnlyKeeps

LEMMA CloseAboutPageKeeps ==
    ASSUME Inv, CloseAboutPage
    PROVE  Inv'
<1> DEFINE quit == Sig("quit", None)
<1>1. quit \in Signals /\ quit.k = "quit" /\ quit.o = None
  BY ZeroLevel DEF Sig, Signals, SignalKinds
<1> HIDE DEF quit
<1>2. queue' = <<quit>>
  BY DEF CloseAboutPage, quit
<1> DEFINE new == {quit}
<1>3. queue' \in Seq(Signals) /\ Posted' \subseteq Posted \cup new
  BY <1>1, <1>2, SingletonRange DEF Posted
<1>4. \A e \in new : e.k \notin WindowSignals /\ Addressed(e)
  BY <1>1 DEF Addressed, WindowSignals, ThreadSignals
<1>5. pc # "start" /\ UNCHANGED <<cmd, mode, windowVars, threadVars, handlerVars, mainVars>>
  BY DEF CloseAboutPage, UserMay, envVars
<1>6. card' \in BOOLEAN /\ moves' \in 0 .. MaxCardMoves
  BY DEF CloseAboutPage, envVars, Inv, TypeOK, EnvTypes
<1> HIDE DEF Inv, new
<1> QED
  BY <1>3, <1>4, <1>5, <1>6, QueueKeeps

LEMMA UserStepKeeps ==
    ASSUME Inv, UserStep
    PROVE  Inv'
<1>1. From(queue)
  BY QueueAsItIs
<1> HIDE DEF Inv
<1>2. CASE ClickCancel
  BY <1>1, <1>2, CancelKeeps DEF ClickCancel, UserMayOnPage, UserMay
<1>3. CASE TryAgain
  BY <1>1, <1>3, RetryKeeps DEF TryAgain, UserMayOnPage, UserMay
<1>4. CASE CloseFatalError
  BY <1>4, FatalErrorKeeps DEF CloseFatalError, UserMay
<1> QED
  BY <1>2, <1>3, <1>4, ClickOKKeeps, SelectAnotherKeeps, CloseAboutPageKeeps DEF UserStep

(* Only the card changes.                                                  *)
LEMMA SameButCard ==
    ASSUME Inv, card' \in BOOLEAN, moves' \in 0 .. MaxCardMoves,
           UNCHANGED <<cmd, mode, mainVars, queue, threadVars, windowVars, handlerVars>>
    PROVE  Inv'
<1>1. /\ UNCHANGED <<cmd, mode, pc, cont, depth, quitting, todo, current, responses, queue>>
      /\ UNCHANGED <<kind, st, children, interrupted, connected, dialog>>
      /\ UNCHANGED <<window, live, page, right, choice, pin, toWindow, toController, toThreads>>
  BY DEF mainVars, threadVars, windowVars, handlerVars
<1>2. TypeOK'
  BY <1>1 DEF Inv, TypeOK, EnvTypes, MainTypes, ThreadTypes, DialogTypes
<1>3. Posted' = Posted
  BY <1>1 DEF Posted
<1>4. SignalsAreAddressed' /\ ThreadsAreKept' /\ WindowsAreLive'
  BY <1>1, <1>3 DEF Inv, SignalsAreAddressed, Addressed, ThreadsAreKept, WindowsAreLive
<1>5. StartIsFresh' /\ JoinWaitsForAll' /\ ConfirmHasDialog' /\ RestartIsDue'
  BY <1>1, <1>3 DEF Inv, StartIsFresh, JoinWaitsForAll, ConfirmHasDialog, RestartIsDue
<1>6. PinIsWanted' /\ WindowIsConnected'
  BY <1>1, <1>3 DEF Inv, PinIsWanted, NeedsPin, WindowIsConnected
<1> QED
  BY <1>2, <1>4, <1>5, <1>6 DEF Inv

LEMMA ChangeCardKeeps ==
    ASSUME Inv, ChangeCard
    PROVE  Inv'
<1>1. moves \in 0 .. MaxCardMoves /\ card \in BOOLEAN /\ MaxCardMoves \in Nat
  BY Bounds DEF Inv, TypeOK, EnvTypes
<1>2. moves' \in 0 .. MaxCardMoves /\ card' \in BOOLEAN
  BY <1>1 DEF ChangeCard
<1> HIDE DEF Inv
<1> QED
  BY <1>2, SameButCard DEF ChangeCard

LEMMA StutterKeeps ==
    ASSUME Inv, UNCHANGED vars
    PROVE  Inv'
<1>1. UNCHANGED <<cmd, mode, card, moves, mainVars, queue, threadVars, windowVars, handlerVars>>
  BY DEF vars, envVars
<1>2. card' \in BOOLEAN /\ moves' \in 0 .. MaxCardMoves
  BY <1>1 DEF Inv, TypeOK, EnvTypes
<1> HIDE DEF Inv
<1> QED
  BY <1>1, <1>2, SameButCard

-----------------------------------------------------------------------------
(* The invariant holds, and with it the properties of the runs.            *)

LEMMA InitialInv ==
    ASSUME Init
    PROVE  Inv
<1>1. 0 \in 0 .. MaxDepth /\ 0 \in 0 .. MaxCardMoves /\ MaxResponses \in Nat /\ 0 <= MaxResponses
  BY Bounds
<1>2. /\ <<>> \in Seq(Signals) /\ <<>> \in Seq(Threads) /\ <<>> \in Seq(Windows)
      /\ Range(<<>>) = {} /\ Len(<<>>) = 0 /\ <<>> \in Seq(Answers)
  BY EmptyRange
<1>3. Posted = {}
  BY <1>2 DEF Init, Posted
<1>4. EnvTypes
  BY <1>1, Inputs DEF Init, EnvTypes
<1>5. responses \in BoundedSeq(Answers, MaxResponses)
  BY <1>1, <1>2, BoundedSequences DEF Init
<1>6. MainTypes
  BY <1>1, <1>2, <1>5 DEF Init, MainTypes, Answers
<1>7. IsInjective(<<>>)
  BY DEF IsInjective
<1>8. ThreadTypes
  <2>1. children = <<>> /\ \A t \in Threads : st[t] = "free"
    BY DEF Init
  <2>2. Range(children) = {t \in Threads : st[t] # "free"}
    BY <1>2, <2>1
  <2> QED
    BY <1>2, <1>7, <2>1, <2>2 DEF Init, ThreadTypes
<1>9. DialogTypes
  BY <1>2 DEF Init, DialogTypes, Pages
<1>10. SignalsAreAddressed /\ ThreadsAreKept /\ WindowsAreLive
  BY <1>2, <1>3 DEF Init, SignalsAreAddressed, ThreadsAreKept, WindowsAreLive
<1>11. StartIsFresh /\ JoinWaitsForAll /\ RestartIsDue
  BY DEF Init, StartIsFresh, JoinWaitsForAll, RestartIsDue
<1>12. ConfirmHasDialog /\ PinIsWanted /\ WindowIsConnected
  BY <1>3 DEF Init, ConfirmHasDialog, PinIsWanted, WindowIsConnected
<1> QED
  BY <1>4, <1>6, <1>8, <1>9, <1>10, <1>11, <1>12 DEF Inv, TypeOK

LEMMA NextKeeps ==
    ASSUME Inv, [Next]_vars
    PROVE  Inv'
BY MainStepKeeps, ThreadStepKeeps, UserStepKeeps, ChangeCardKeeps, StutterKeeps DEF Next

(* The invariant holds in every state the program can reach.               *)
THEOREM Invariance == Spec => []Inv
<1>1. Init => Inv
  BY InitialInv
<1>2. Inv /\ [Next]_vars => Inv'
  BY NextKeeps
<1> QED
  BY <1>1, <1>2, PTL DEF Spec

(* Every variable has its type in every reachable state; with it the list  *)
(* of children (QObject::children) is exactly the thread objects that      *)
(* exist, each once.                                                       *)
THEOREM TypeCorrect == Spec => []TypeOK
<1>1. Inv => TypeOK
  BY DEF Inv
<1> QED
  BY <1>1, Invariance, PTL

(* The dialog whose pointer a confirm thread was given exists until the    *)
(* thread has called getPin() on it (WindowOutlivesConfirm).               *)
THEOREM DialogOutlivesConfirm == Spec => []WindowOutlivesConfirm
<1>1. Inv => WindowOutlivesConfirm
  BY DEF Inv, ConfirmHasDialog, WindowOutlivesConfirm
<1> QED
  BY <1>1, Invariance, PTL

(* As long as a dialog caches a PIN a confirm thread is on its way to take *)
(* it (NoStalePin).                                                        *)
THEOREM PinIsTaken == Spec => []NoStalePin
<1>1. Inv => NoStalePin
  BY DEF Inv, PinIsWanted, NoStalePin
<1> QED
  BY <1>1, Invariance, PTL

(* A new attempt begins when no thread of the last one runs and no         *)
(* connection of its command handler is left (RestartIsClean).             *)
THEOREM CleanRestart == Spec => RestartIsClean
<1>1. Inv /\ [Next]_vars =>
        [cont = "restart" /\ cont' = "" =>
          /\ \A t \in Threads : ~Running(t)
          /\ toWindow = <<>> /\ ~toController /\ toThreads = {}]_vars
  <2> SUFFICES ASSUME Inv, Next, cont = "restart", cont' = ""
               PROVE  /\ \A t \in Threads : ~Running(t)
                      /\ toWindow = <<>> /\ ~toController /\ toThreads = {}
    OBVIOUS
  <2>1. pc = "join" /\ toWindow = <<>> /\ ~toController /\ toThreads = {}
    BY DEF Inv, RestartIsDue
  <2>2. ~Run /\ ~Deliver /\ ~StopChild /\ ~WaitForChild /\ ~EmitFinished /\ ~Unwind
    BY <2>1 DEF Run, Deliver, StopChild, WaitForChild, EmitFinished, Unwind
  <2>3. ~UserStep
    BY <2>1 DEF UserStep, ClickOK, ClickCancel, TryAgain, SelectAnother, CloseFatalError, CloseAboutPage,
                UserMayOnPage, UserMay
  <2>4. ~ChangeCard
    BY DEF ChangeCard, mainVars
  <2>5. \A t \in Threads : ~ThreadStep(t)
    BY DEF ThreadStep, WaitForCard, MonitorCards, RunCommand, GetPin, Confirm, ChildOnly, mainVars
  <2>6. Restart
    BY <2>2, <2>3, <2>4, <2>5 DEF Next, MainStep
  <2> QED
    BY <2>1, <2>6, NobodyIsLeft DEF Restart, Running
<1> QED
  BY <1>1, Invariance, PTL DEF Spec, RestartIsClean

-----------------------------------------------------------------------------
(* Why a wait ends.                                                        *)

(* The signals for Controller that change the page, or end the dialog.     *)
Effective == {"cardsAvailable", "statusUpdate", "cardEvent", "retry", "completed", "cancel", "failure"}

(* A retry of the command handler that comes before the end of the run     *)
(* thread's object it is sent to.                                          *)
FirstRetry(s, i) ==
    /\ s[i].k = "retryHandler"
    /\ \A j \in 1 .. i : s[j].o = s[i].o => s[j].k \notin {"finished", "deleteThread"}

RetryIsDue == \E i \in 1 .. Len(queue) : FirstRetry(queue, i)

(* A signal that changes the page of the dialog, or ends it: a PIN that    *)
(* was refused does not end the wait for a card.                           *)
Telling(e) ==
    \/ e.k \in Effective
    \/ /\ e.k \in WindowSignals /\ e.o = window
       /\ e.k = "verifyPinFailed" => page[window] # "wait"

(* A thread that will say something to the dialog when it ends; a confirm  *)
(* thread does so through the connections of the command handler.          *)
AtWork(t) ==
    /\ Running(t)
    /\ kind[t] \in {"waitForCard", "run", "confirm"}
    /\ kind[t] = "confirm" => window \in Range(toWindow) /\ page[window] # "wait"

(* Something will happen to the page.                                      *)
SomethingDue == (\E t \in Threads : AtWork(t)) \/ (\E e \in Posted : Telling(e)) \/ RetryIsDue

Due == pc = "loop" /\ depth = 0 /\ NoChoice

(* The inductive invariant: something will happen to a page that offers no *)
(* choice.                                                                 *)
WaitIsDue == Due => SomethingDue

(* What is due stays due if nothing of it is taken away.                   *)
LEMMA DueStays ==
    ASSUME SomethingDue, window' = window, page'[window] = page[window],
           window \in Range(toWindow) => window \in Range(toWindow'),
           \A t \in Threads : kind[t] # "monitor" /\ Running(t) => kind'[t] = kind[t] /\ Running(t)',
           \A e \in Posted : Telling(e) => e \in Posted',
           RetryIsDue => RetryIsDue'
    PROVE  SomethingDue'
<1>1. ASSUME NEW t \in Threads, AtWork(t) PROVE AtWork(t)'
  BY <1>1 DEF AtWork
<1>2. ASSUME NEW e, Telling(e) PROVE Telling(e)'
  BY <1>2 DEF Telling
<1> QED
  BY <1>1, <1>2 DEF SomethingDue

(* The order of the queue stays when signals are posted, ...               *)
LEMMA RetryStaysInConcat ==
    ASSUME NEW S, NEW s \in Seq(S), NEW u \in Seq(S), NEW i \in 1 .. Len(s), FirstRetry(s, i)
    PROVE  i \in 1 .. Len(s \o u) /\ FirstRetry(s \o u, i)
<1>1. /\ Len(s \o u) = Len(s) + Len(u) /\ Len(s) \in Nat /\ Len(u) \in Nat
      /\ \A j \in 1 .. Len(s) : (s \o u)[j] = s[j]
  BY ConcatProperties
<1>2. i \in 1 .. Len(s \o u) /\ \A j \in 1 .. i : j \in 1 .. Len(s)
  BY <1>1
<1> QED
  BY <1>1, <1>2 DEF FirstRetry

(* ... when the first one is taken ...                                     *)
LEMMA RetryStaysInTail ==
    ASSUME NEW S, NEW s \in Seq(S), NEW i \in 1 .. Len(s), FirstRetry(s, i), s[1].k # "retryHandler",
           NEW q, q = RemoveAt(s, 1)
    PROVE  i - 1 \in 1 .. Len(q) /\ FirstRetry(q, i - 1)
<1>1. s # <<>> /\ i # 1 /\ i \in Nat /\ Len(s) \in Nat
  BY DEF FirstRetry
<1>2. /\ q \in Seq(S) /\ Len(q) = Len(s) - 1 /\ Len(s) \in Nat
      /\ \A j \in 1 .. (Len(s) - 1) : q[j] = s[j + 1]
      /\ Range(s) = Range(q) \cup {s[1]}
  BY <1>1, FirstRemoved
<1>3. i - 1 \in 1 .. (Len(s) - 1) /\ (i - 1) + 1 = i
  BY <1>1
<1>4. q[i - 1] = s[i]
  BY <1>2, <1>3
<1>5. ASSUME NEW j \in 1 .. (i - 1)
      PROVE  q[j] = s[j + 1] /\ j + 1 \in 1 .. i
  <2>1. j \in 1 .. (Len(s) - 1) /\ j + 1 \in 1 .. i
    BY <1>1
  <2> QED
    BY <2>1, <1>2
<1> QED
  BY <1>2, <1>3, <1>4, <1>5 DEF FirstRetry

(* ... and when those of a deleted object are dropped.                     *)
LEMMA RetryStaysInPart ==
    ASSUME NEW S, NEW s \in Seq(S), NEW keep, keep \subseteq 1 .. Len(s), NEW i \in keep, FirstRetry(s, i)
    PROVE  \E n \in 1 .. Len(Part(s, keep)) : FirstRetry(Part(s, keep), n)
<1>1. /\ Part(s, keep) \in Seq(S)
      /\ \A n \in 1 .. Len(Part(s, keep)) :
            Nth(keep, n) \in keep /\ Part(s, keep)[n] = s[Nth(keep, n)]
      /\ \A k \in keep : \E n \in 1 .. Len(Part(s, keep)) : Nth(keep, n) = k
      /\ \A a, b \in 1 .. Len(Part(s, keep)) : a < b => Nth(keep, a) < Nth(keep, b)
  BY PartOfSeq
<1>2. PICK n \in 1 .. Len(Part(s, keep)) : Nth(keep, n) = i
  BY <1>1
<1>3. Len(Part(s, keep)) \in Nat
  BY <1>1
<1>4. ASSUME NEW a \in 1 .. n
      PROVE  Part(s, keep)[a] = s[Nth(keep, a)] /\ Nth(keep, a) \in 1 .. i
  <2>1. a \in 1 .. Len(Part(s, keep)) /\ a \in Nat /\ n \in Nat /\ (a = n \/ a < n)
    BY <1>3
  <2>2. Nth(keep, a) \in keep /\ Part(s, keep)[a] = s[Nth(keep, a)]
    BY <1>1, <2>1
  <2>3. Nth(keep, a) \in 1 .. Len(s) /\ i \in 1 .. Len(s)
    BY <2>2
  <2>4. Nth(keep, a) = i \/ Nth(keep, a) < i
    BY <1>1, <1>2, <2>1
  <2> QED
    BY <2>2, <2>3, <2>4
<1>5. Part(s, keep)[n] = s[i]
  BY <1>1, <1>2
<1> QED
  BY <1>4, <1>5 DEF FirstRetry

-----------------------------------------------------------------------------
(* What the threads leave behind.                                          *)

(* A thread that has been started is at work.                              *)
LEMMA StartedIsDue ==
    ASSUME ThreadTypes, NEW k \in {"waitForCard", "run", "confirm"}, NEW w \in Windows \cup {None},
           StartThread(k, w), interrupted' \subseteq Threads,
           k = "confirm" => window' \in Range(toWindow') /\ page'[window'] # "wait"
    PROVE  SomethingDue'
<1> DEFINE t == Min(FreeThreads)
<1>1. k \in Pollers \cup CommandThreads
  BY DEF Pollers, CommandThreads
<1>2. /\ t \in Threads
      /\ kind' = [kind EXCEPT ![t] = k]
      /\ st' = [st EXCEPT ![t] = "ready"]
  BY <1>1, StartThreadEffect
<1> HIDE DEF t
<1>3. kind'[t] = k /\ st'[t] = "ready"
  BY <1>2 DEF ThreadTypes
<1>4. PICK u \in Threads : kind'[u] = k /\ st'[u] = "ready"
  BY <1>2, <1>3
<1>5. AtWork(u)'
  BY <1>4 DEF AtWork, Running
<1> QED
  BY <1>4, <1>5 DEF SomethingDue

LEMMA QueueGrows ==
    ASSUME queue \in Seq(Signals), NEW s \in Seq(Signals), queue' = queue \o s
    PROVE  /\ Posted' = Posted \cup Range(s)
           /\ RetryIsDue => RetryIsDue'
<1>1. Posted' = Posted \cup Range(s)
  BY RangeOfConcat DEF Posted
<1>2. ASSUME NEW i \in 1 .. Len(queue), FirstRetry(queue, i) PROVE RetryIsDue'
  <2>1. i \in 1 .. Len(queue') /\ FirstRetry(queue', i)
    BY <1>2, RetryStaysInConcat
  <2>2. FirstRetry(queue', i) => FirstRetry(queue, i)'
    BY DEF FirstRetry
  <2> QED
    BY <2>1, <2>2 DEF RetryIsDue
<1> QED
  BY <1>1, <1>2 DEF RetryIsDue

(* A thread that was at work still is, or leaves a signal behind.          *)
LEMMA ThreadPosts ==
    ASSUME Inv, NEW t \in Threads, SomethingDue, NEW s \in Seq(Signals), Post(s),
           UNCHANGED <<window, page, toWindow>>,
           \A u \in Threads : u # t => kind'[u] = kind[u] /\ st'[u] = st[u],
           AtWork(t) => AtWork(t)' \/ (\E e \in Posted' : Telling(e)) \/ RetryIsDue'
    PROVE  SomethingDue'
<1>1. queue \in Seq(Signals) /\ queue' = queue \o s
  BY DEF Inv, TypeOK, MainTypes, Post
<1>2. Posted' = Posted \cup Range(s) /\ (RetryIsDue => RetryIsDue')
  BY <1>1, QueueGrows
<1>3. \A e : Telling(e)' <=> Telling(e)
  BY DEF Telling
<1>4. \A u \in Threads : u # t => (AtWork(u)' <=> AtWork(u))
  BY DEF AtWork, Running
<1>5. CASE \E u \in Threads : AtWork(u)
  <2>1. PICK u \in Threads : AtWork(u)
    BY <1>5
  <2>2. CASE u # t
    BY <2>1, <2>2, <1>4 DEF SomethingDue
  <2>3. CASE u = t
    BY <2>1, <2>3, <1>3 DEF SomethingDue
  <2> QED
    BY <2>2, <2>3
<1>6. CASE \E e \in Posted : Telling(e)
  BY <1>2, <1>3, <1>6 DEF SomethingDue
<1>7. CASE RetryIsDue
  BY <1>2, <1>7 DEF SomethingDue
<1> QED
  BY <1>5, <1>6, <1>7 DEF SomethingDue

LEMMA OwnTells ==
    ASSUME Inv, pc = "loop", NEW t \in Threads, st[t] # "free", NEW k \in OwnKinds, k \in Effective
    PROVE  \E e \in Range(Own(t, k)) : Telling(e)
<1>1. t \in connected
  BY DEF Inv, ThreadsAreKept
<1>2. Range(Own(t, k)) = {Sig(k, None)} /\ Sig(k, None).k = k
  BY <1>1, OwnEmission, ControllerSignal
<1> QED
  BY <1>2 DEF Telling

LEMMA ToWindowTells ==
    ASSUME DialogTypes, NEW k \in {"certificateReady", "mismatch", "verifyPinFailed"},
           NEW d \in {"", "single", "multiple", "unusable", "again", "fatal"},
           k = "verifyPinFailed" => cmd # "get-signing-certificate" /\ page[window] # "wait",
           window \in Range(toWindow)
    PROVE  \E e \in Range(HandlerToWindows(k, d)) : Telling(e)
<1>1. DOMAIN toWindow = 1 .. Len(toWindow)
  <2>1. toWindow \in Seq(Windows)
    BY DEF DialogTypes
  <2> QED
    BY <2>1, SeqShape
<1>2. PICK i \in 1 .. Len(toWindow) : toWindow[i] = window
  BY <1>1 DEF Range
<1>3. HandlerToWindows(k, d)[i] = SigWith(k, window, d)
      /\ i \in DOMAIN HandlerToWindows(k, d)
  BY <1>2 DEF HandlerToWindows
<1>4. SigWith(k, window, d) \in Range(HandlerToWindows(k, d))
  BY <1>3 DEF Range
<1>5. Telling(SigWith(k, window, d))
  BY DEF Telling, WindowSignals, SigWith
<1> QED
  BY <1>4, <1>5

LEMMA CertificatesTell ==
    ASSUME DialogTypes, NEW d \in {"single", "multiple", "unusable"}, window \in Range(toWindow)
    PROVE  \E e \in Range(CertificatesReady(d)) : Telling(e)
<1>1. "certificateReady" \in {"certificateReady", "mismatch", "verifyPinFailed"}
      /\ "certificateReady" # "verifyPinFailed"
  OBVIOUS
<1>2. d \in {"", "single", "multiple", "unusable", "again", "fatal"}
  OBVIOUS
<1>3. \E e \in Range(HandlerToWindows("certificateReady", d)) : Telling(e)
  BY <1>1, <1>2, ToWindowTells
<1>4. Emission(HandlerToWindows("certificateReady", d))
  BY <1>1, <1>2, ToWindowsEmission
<1>5. Range(HandlerToWindows("certificateReady", d)) \subseteq Range(CertificatesReady(d))
  BY <1>4, ToControllerEmission, ConcatEmission DEF CertificatesReady
<1> QED
  BY <1>3, <1>5

LEMMA PinFailedTells ==
    ASSUME DialogTypes, NEW d \in {"again", "fatal"}, cmd # "get-signing-certificate",
           window \in Range(toWindow), page[window] # "wait"
    PROVE  \E e \in Range(VerifyPinFailed(d)) : Telling(e)
<1>1. "verifyPinFailed" \in {"certificateReady", "mismatch", "verifyPinFailed"}
  OBVIOUS
<1>2. d \in {"", "single", "multiple", "unusable", "again", "fatal"}
  OBVIOUS
<1>3. \E e \in Range(HandlerToWindows("verifyPinFailed", d)) : Telling(e)
  BY <1>1, <1>2, ToWindowTells
<1>4. Emission(HandlerToWindows("verifyPinFailed", d))
  BY <1>1, <1>2, ToWindowsEmission
<1>5. Range(HandlerToWindows("verifyPinFailed", d)) \subseteq Range(VerifyPinFailed(d))
  BY <1>4, ToControllerEmission, ConcatEmission DEF VerifyPinFailed
<1> QED
  BY <1>3, <1>5

(* Whatever comes of reading the certificates, the dialog is told: by the  *)
(* certificates, by an error, or by the retry of the command handler.      *)
LEMMA RunTells ==
    ASSUME Inv, pc = "loop", window # None, NEW t \in Threads, kind[t] = "run", st[t] = "ready",
           NEW o \in RunOutcomes
    PROVE  \/ \E e \in Range(RunSignals(t, o)) : Telling(e)
           \/ RunSignals(t, o) = HandlerRetry /\ t \in toThreads
<1>1. DialogTypes /\ window \in Range(toWindow) /\ t \in toThreads
  BY DEF Inv, TypeOK, WindowIsConnected
<1>2. o \in {"single", "multiple", "unusable", "none", "mismatch", "retriable", "fatal"}
  BY Inputs
<1>3. CASE o \in {"single", "multiple", "unusable"}
  <2>1. RunSignals(t, o) = CertificatesReady(o)
    BY <1>3 DEF RunSignals
  <2> QED
    BY <1>1, <1>3, <2>1, CertificatesTell
<1>4. CASE o = "none"
  BY <1>1, <1>4 DEF RunSignals
<1>5. CASE o = "mismatch"
  <2>1. RunSignals(t, o) = HandlerToWindows("mismatch", "")
    BY <1>5 DEF RunSignals
  <2>2. "mismatch" \in {"certificateReady", "mismatch", "verifyPinFailed"} /\ "mismatch" # "verifyPinFailed"
    OBVIOUS
  <2>3. "" \in {"", "single", "multiple", "unusable", "again", "fatal"}
    OBVIOUS
  <2>4. \E e \in Range(HandlerToWindows("mismatch", "")) : Telling(e)
    BY <1>1, <2>2, <2>3, ToWindowTells
  <2> QED
    BY <2>1, <2>4
<1>6. CASE o = "retriable"
  <2>1. RunSignals(t, o) = Own(t, "retry")
    BY <1>6 DEF RunSignals
  <2>2. "retry" \in OwnKinds /\ "retry" \in Effective /\ st[t] # "free"
    BY DEF OwnKinds, Effective
  <2> HIDE DEF Inv
  <2> QED
    BY <2>1, <2>2, OwnTells
<1>7. CASE o = "fatal"
  <2>1. RunSignals(t, o) = Own(t, "failure")
    BY <1>7 DEF RunSignals
  <2>2. "failure" \in OwnKinds /\ "failure" \in Effective /\ st[t] # "free"
    BY DEF OwnKinds, Effective
  <2> HIDE DEF Inv
  <2> QED
    BY <2>1, <2>2, OwnTells
<1> QED
  BY <1>2, <1>3, <1>4, <1>5, <1>6, <1>7

(* A refused PIN of which the dialog is told in any case.                  *)
EveryRefusalIsTold == \A f \in PinFailures : ~Silent(f)

(* Then, whatever comes of the card operation, the dialog is told.         *)
LEMMA ConfirmTells ==
    ASSUME EveryRefusalIsTold, Inv, pc = "loop", window \in Range(toWindow), page[window] # "wait",
           NEW t \in Threads, st[t] = "card", NEW s, Outcome(t, s)
    PROVE  \E e \in Range(s) : Telling(e)
<1>1. DialogTypes
  BY DEF Inv, TypeOK
<1>2. \A k \in {"completed", "cancel", "failure", "retry"} :
         Emission(Own(t, k)) /\ \E e \in Range(Own(t, k)) : Telling(e)
  <2>1. \A k \in {"completed", "cancel", "failure", "retry"} : k \in OwnKinds /\ k \in Effective
    BY DEF OwnKinds, Effective
  <2> HIDE DEF Inv
  <2> QED
    BY <2>1, OwnTells, OwnEmission
<1> HIDE DEF Inv
<1>3. CASE \E k \in {"completed", "retry", "failure", "cancel"} : s = Own(t, k)
  BY <1>2, <1>3
<1>4. CASE s = HandlerRetry \o Own(t, "failure")
  <2>1. Emission(HandlerRetry) /\ Emission(Own(t, "failure"))
    BY <1>1, <1>2, RetryEmission
  <2>2. Range(Own(t, "failure")) \subseteq Range(s)
    BY <1>4, <2>1, ConcatEmission
  <2> QED
    BY <1>2, <2>2
<1>5. ASSUME cmd # "get-signing-certificate", NEW d \in {"again", "fatal"},
             s = VerifyPinFailed(d) \/ s = VerifyPinFailed(d) \o Own(t, "failure")
      PROVE  \E e \in Range(s) : Telling(e)
  <2>1. Emission(VerifyPinFailed(d)) /\ \E e \in Range(VerifyPinFailed(d)) : Telling(e)
    BY <1>1, <1>5, PinFailedEmission, PinFailedTells
  <2>2. Emission(Own(t, "failure"))
    BY <1>2
  <2>3. CASE s = VerifyPinFailed(d)
    BY <2>1, <2>3
  <2>4. CASE s = VerifyPinFailed(d) \o Own(t, "failure")
    <3>1. Range(VerifyPinFailed(d)) \subseteq Range(s)
      BY <2>1, <2>2, <2>4, ConcatEmission
    <3> QED
      BY <2>1, <3>1
  <2> QED
    BY <1>5, <2>3, <2>4
<1> QED
  BY <1>1, <1>3, <1>4, <1>5, OutcomeShape DEF EveryRefusalIsTold

LEMMA WaitForCardDue ==
    ASSUME Inv, pc = "loop", SomethingDue, NEW t \in Threads, WaitForCard(t)
    PROVE  SomethingDue'
<1>1. /\ kind[t] = "waitForCard" /\ st[t] # "free"
      /\ UNCHANGED <<window, page>>
      /\ queue \in Seq(Signals) /\ st \in [Threads -> {"free", "ready", "card", "waiting", "done"}]
  BY AliveHasKind DEF WaitForCard, windowVars, Inv, TypeOK, MainTypes, ThreadTypes
<1>2. \A k \in {"cardsAvailable", "statusUpdate", "failure"} :
         Emission(Own(t, k)) /\ \E e \in Range(Own(t, k)) : Telling(e)
  <2>1. \A k \in {"cardsAvailable", "statusUpdate", "failure"} : k \in OwnKinds /\ k \in Effective
    BY DEF OwnKinds, Effective
  <2> HIDE DEF Inv
  <2> QED
    BY <1>1, <2>1, OwnTells, OwnEmission
<1>3. ASSUME NEW s \in Seq(Signals), End(t, s), \E e \in Posted \cup Range(s) : Telling(e)
      PROVE  SomethingDue'
  <2>1. Post(s) /\ FreeThread(t)
    BY <1>3 DEF End
  <2>2. Posted' = Posted \cup Range(s)
    BY <1>1, <2>1, QueueGrows DEF Post
  <2>3. UNCHANGED <<window, page, toWindow>> /\ \A u \in Threads : u # t => kind'[u] = kind[u] /\ st'[u] = st[u]
    BY <1>1, <2>1 DEF FreeThread, Inv, TypeOK, ThreadTypes
  <2>4. \E e \in Posted' : Telling(e)
    BY <1>3, <2>2
  <2> HIDE DEF Inv
  <2> QED
    BY <2>1, <2>3, <2>4, ThreadPosts
<1>4. /\ Emission(NoCardStatus(t)) /\ \E e \in Posted \cup Range(NoCardStatus(t)) : Telling(e)
  <2>1. CASE StatusPending
    <3>1. PICK i \in 1 .. Len(queue) : queue[i].k = "statusUpdate"
      BY <2>1 DEF StatusPending
    <3>2. queue[i] \in Posted
      BY <1>1, RangeMember DEF Posted
    <3>3. Telling(queue[i])
      BY <3>1 DEF Telling, Effective
    <3>4. Emission(NoCardStatus(t))
      BY <2>1, EmptyEmission DEF NoCardStatus
    <3> QED
      BY <3>2, <3>3, <3>4
  <2>2. CASE ~StatusPending
    BY <1>2, <2>2 DEF NoCardStatus
  <2> QED
    BY <2>1, <2>2
<1>5. CASE End(t, Own(t, "cardsAvailable"))
  BY <1>2, <1>3, <1>5 DEF Emission
<1>6. CASE End(t, NoCardStatus(t))
  BY <1>3, <1>4, <1>6 DEF Emission
<1>7. CASE /\ Post(NoCardStatus(t))
           /\ st' = [st EXCEPT ![t] = "waiting"]
           /\ UNCHANGED handlerVars /\ SameThread
  <2>1. UNCHANGED <<window, page, toWindow>> /\ \A u \in Threads : u # t => kind'[u] = kind[u] /\ st'[u] = st[u]
    BY <1>1, <1>7 DEF SameThread, handlerVars
  <2>2. kind'[t] = "waitForCard" /\ st'[t] = "waiting"
    BY <1>1, <1>7 DEF SameThread
  <2>3. AtWork(t)'
    BY <2>2 DEF AtWork, Running
  <2>4. NoCardStatus(t) \in Seq(Signals)
    BY <1>4 DEF Emission
  <2> HIDE DEF Inv
  <2> QED
    BY <1>7, <2>1, <2>3, <2>4, ThreadPosts
<1>8. CASE End(t, Own(t, "failure"))
  BY <1>2, <1>3, <1>8 DEF Emission
<1> QED
  BY <1>5, <1>6, <1>7, <1>8 DEF WaitForCard

LEMMA MonitorCardsDue ==
    ASSUME Inv, pc = "loop", SomethingDue, NEW t \in Threads, MonitorCards(t)
    PROVE  SomethingDue'
<1>1. /\ kind[t] = "monitor" /\ ~AtWork(t) /\ UNCHANGED <<window, page>>
      /\ queue \in Seq(Signals) /\ st \in [Threads -> {"free", "ready", "card", "waiting", "done"}]
  BY DEF MonitorCards, windowVars, Inv, TypeOK, MainTypes, ThreadTypes, AtWork
<1>2. Emission(<<>>) /\ Emission(Own(t, "cardEvent"))
  BY OwnEmission, EmptyEmission DEF OwnKinds
<1>3. CASE /\ Goto(t, "ready", "waiting")
           /\ UNCHANGED <<moves, queue, handlerVars>> /\ SameThread
  <2>1. UNCHANGED <<window, page, toWindow, queue>>
    BY <1>1, <1>3 DEF handlerVars
  <2>2. \A u \in Threads : kind[u] # "monitor" /\ Running(u) => kind'[u] = kind[u] /\ Running(u)'
    BY <1>1, <1>3 DEF Goto, SameThread, Running
  <2>3. Posted' = Posted /\ (RetryIsDue => RetryIsDue')
    BY <2>1 DEF Posted, RetryIsDue, FirstRetry
  <2> HIDE DEF Inv
  <2> QED
    BY <2>1, <2>2, <2>3, DueStays
<1>4. ASSUME NEW s \in Seq(Signals), End(t, s)
      PROVE  SomethingDue'
  <2>1. Post(s) /\ FreeThread(t)
    BY <1>4 DEF End
  <2>2. UNCHANGED <<window, page, toWindow>> /\ \A u \in Threads : u # t => kind'[u] = kind[u] /\ st'[u] = st[u]
    BY <1>1, <2>1 DEF FreeThread, Inv, TypeOK, ThreadTypes
  <2> HIDE DEF Inv
  <2> QED
    BY <1>1, <2>1, <2>2, ThreadPosts
<1> QED
  BY <1>2, <1>3, <1>4 DEF MonitorCards, Emission

(* A run thread's retry is posted before its own finished() signal.        *)
LEMMA RetryPosted ==
    ASSUME Inv, NEW t \in toThreads, st[t] # "done", NEW u \in Seq(Signals),
           queue' = queue \o (HandlerRetry \o u)
    PROVE  RetryIsDue'
<1>1. queue \in Seq(Signals) /\ DialogTypes /\ SignalsAreAddressed
  BY DEF Inv, TypeOK, MainTypes
<1>2. /\ Emission(HandlerRetry)
      /\ Range(HandlerRetry) = {Sig("retryHandler", x) : x \in toThreads}
      /\ \A x : Sig("retryHandler", x).k = "retryHandler" /\ Sig("retryHandler", x).o = x
  BY <1>1, RetryEmission
<1> DEFINE r == HandlerRetry
           n == Len(queue)
<1> HIDE DEF r, n
<1>3. r \in Seq(Signals) /\ DOMAIN r = 1 .. Len(r) /\ Len(r) \in Nat /\ n \in Nat /\ Len(u) \in Nat
  BY <1>1, <1>2, SeqShape DEF Emission, r, n
<1>4. \E k \in 1 .. Len(r) : r[k] = Sig("retryHandler", t)
  BY <1>2, <1>3 DEF Range, r
<1>5. PICK k \in 1 .. Len(r) : r[k] = Sig("retryHandler", t)
  BY <1>4
<1>6. /\ \A j \in 1 .. n : queue'[j] = queue[j]
      /\ \A j \in 1 .. Len(r) : queue'[n + j] = r[j]
      /\ Len(queue') = n + Len(r) + Len(u)
  <2>1. /\ r \o u \in Seq(Signals) /\ Len(r \o u) = Len(r) + Len(u)
        /\ \A j \in 1 .. Len(r) : (r \o u)[j] = r[j]
    BY <1>3, ConcatProperties
  <2>2. queue' = queue \o (r \o u)
    BY DEF r
  <2> HIDE DEF Inv
  <2>3. /\ Len(queue') = n + Len(r \o u)
        /\ \A j \in 1 .. n : queue'[j] = queue[j]
        /\ \A j \in 1 .. Len(r \o u) : queue'[n + j] = (r \o u)[j]
    BY <1>1, <2>1, <2>2, ConcatProperties DEF n
  <2>4. \A j \in 1 .. Len(r) : j \in 1 .. Len(r \o u)
    BY <1>3, <2>1
  <2>5. Len(queue') = n + Len(r) + Len(u)
    BY <1>3, <2>1, <2>3
  <2> QED
    BY <2>1, <2>3, <2>4, <2>5
<1>7. queue'[n + k] = r[k] /\ queue'[n + k].k = "retryHandler" /\ queue'[n + k].o = t
  BY <1>2, <1>5, <1>6
<1>8. n + k \in 1 .. Len(queue')
  BY <1>3, <1>6
<1>9. ASSUME NEW j \in 1 .. (n + k), queue'[j].o = t PROVE queue'[j].k \notin {"finished", "deleteThread"}
  <2>1. CASE j \in 1 .. n
    <3>1. queue'[j] = queue[j] /\ queue[j] \in Posted
      BY <1>1, <1>6, <2>1, RangeMember DEF Posted, n
    <3>2. Addressed(queue[j])
      BY <1>1, <3>1 DEF SignalsAreAddressed
    <3> QED
      BY <1>9, <3>1, <3>2 DEF Addressed
  <2>2. CASE j \notin 1 .. n
    <3>1. j - n \in 1 .. Len(r) /\ n + (j - n) = j
      BY <1>3, <2>2
    <3>2. queue'[j] = r[j - n] /\ r[j - n] \in Range(r)
      BY <1>3, <1>6, <3>1 DEF Range
    <3>3. queue'[j].k = "retryHandler"
      BY <1>2, <3>2 DEF r
    <3> QED
      BY <3>3
  <2> QED
    BY <2>1, <2>2
<1>10. FirstRetry(queue', n + k)
  BY <1>7, <1>9 DEF FirstRetry
<1> QED
  BY <1>8, <1>10 DEF RetryIsDue, FirstRetry

LEMMA RunCommandDue ==
    ASSUME Inv, pc = "loop", window # None, SomethingDue, NEW t \in Threads, RunCommand(t)
    PROVE  SomethingDue'
<1>1. /\ kind[t] = "run" /\ st[t] = "ready" /\ UNCHANGED <<window, page, toWindow>>
      /\ queue \in Seq(Signals) /\ DialogTypes
      /\ \A u \in Threads : u # t => kind'[u] = kind[u] /\ st'[u] = st[u]
  BY DEF RunCommand, Goto, SameThread, ChildOnly, windowVars, handlerVars, Inv, TypeOK, MainTypes,
         ThreadTypes
<1>2. PICK o \in RunOutcomes : Post(RunSignals(t, o) \o Ended(t))
  BY DEF RunCommand
<1>3. Emission(RunSignals(t, o))
  BY <1>1, RunEmission
<1>4. Ended(t) \in Seq(Signals)
  <2>1. Sig("finished", t) \in Signals
    BY ZeroLevel DEF Sig, Signals, SignalKinds, ThreadSignals
  <2> QED
    BY <2>1, EmptyRange, SingletonRange DEF Ended
<1>5. RunSignals(t, o) \o Ended(t) \in Seq(Signals)
      /\ Range(RunSignals(t, o)) \subseteq Range(RunSignals(t, o) \o Ended(t))
  BY <1>3, <1>4, RangeOfConcat DEF Emission
<1>6. Posted' = Posted \cup Range(RunSignals(t, o) \o Ended(t))
  BY <1>1, <1>2, <1>5, QueueGrows DEF Post
<1>7. (\E e \in Posted' : Telling(e)) \/ RetryIsDue'
  <2>1. CASE \E e \in Range(RunSignals(t, o)) : Telling(e)
    BY <1>5, <1>6, <2>1
  <2>2. CASE RunSignals(t, o) = HandlerRetry /\ t \in toThreads
    <3>1. queue' = queue \o (HandlerRetry \o Ended(t)) /\ st[t] # "done"
      BY <1>1, <1>2, <2>2 DEF Post
    <3> HIDE DEF Inv
    <3> QED
      BY <1>4, <2>2, <3>1, RetryPosted
  <2> HIDE DEF Inv
  <2> QED
    BY <1>1, <2>1, <2>2, RunTells
<1> HIDE DEF Inv
<1> QED
  BY <1>1, <1>2, <1>5, <1>7, ThreadPosts

LEMMA GetPinDue ==
    ASSUME Inv, pc = "loop", SomethingDue, NEW t \in Threads, GetPin(t)
    PROVE  SomethingDue'
<1>1. /\ kind[t] = "confirm" /\ st[t] = "ready" /\ UNCHANGED <<window, page>>
      /\ queue \in Seq(Signals) /\ st \in [Threads -> {"free", "ready", "card", "waiting", "done"}]
  BY DEF GetPin, Inv, TypeOK, MainTypes, ThreadTypes
<1>2. CASE Goto(t, "ready", "card") /\ UNCHANGED <<queue, handlerVars>> /\ SameThread
  <2>1. UNCHANGED <<window, page, toWindow, queue>>
    BY <1>1, <1>2 DEF handlerVars
  <2>2. \A u \in Threads : kind[u] # "monitor" /\ Running(u) => kind'[u] = kind[u] /\ Running(u)'
    BY <1>1, <1>2 DEF Goto, SameThread, Running
  <2>3. Posted' = Posted /\ (RetryIsDue => RetryIsDue')
    BY <2>1 DEF Posted, RetryIsDue, FirstRetry
  <2> HIDE DEF Inv
  <2> QED
    BY <2>1, <2>2, <2>3, DueStays
<1>3. CASE End(t, Own(t, "failure"))
  <2>1. Post(Own(t, "failure")) /\ FreeThread(t)
    BY <1>3 DEF End
  <2>2. UNCHANGED <<window, page, toWindow>> /\ \A u \in Threads : u # t => kind'[u] = kind[u] /\ st'[u] = st[u]
    BY <1>1, <2>1 DEF FreeThread, Inv, TypeOK, ThreadTypes
  <2>3. "failure" \in OwnKinds /\ "failure" \in Effective /\ st[t] # "free"
    BY <1>1 DEF OwnKinds, Effective
  <2> HIDE DEF Inv
  <2>4. Emission(Own(t, "failure")) /\ \E e \in Range(Own(t, "failure")) : Telling(e)
    BY <2>3, OwnTells, OwnEmission
  <2>5. Own(t, "failure") \in Seq(Signals)
    BY <2>4 DEF Emission
  <2>6. Posted' = Posted \cup Range(Own(t, "failure"))
    BY <1>1, <2>1, <2>5, QueueGrows DEF Post
  <2> QED
    BY <2>1, <2>2, <2>4, <2>5, <2>6, ThreadPosts
<1> QED
  BY <1>2, <1>3 DEF GetPin

LEMMA ConfirmDue ==
    ASSUME EveryRefusalIsTold, Inv, pc = "loop", SomethingDue, NEW t \in Threads, Confirm(t)
    PROVE  SomethingDue'
<1>1. /\ kind[t] = "confirm" /\ st[t] = "card" /\ UNCHANGED <<window, page>>
      /\ queue \in Seq(Signals) /\ st \in [Threads -> {"free", "ready", "card", "waiting", "done"}]
      /\ DialogTypes
  BY DEF Confirm, ChildOnly, windowVars, Inv, TypeOK, MainTypes, ThreadTypes
<1>2. PICK s : Outcome(t, s) /\ End(t, s)
  BY ConfirmOutcome
<1>3. Post(s) /\ FreeThread(t)
  BY <1>2 DEF End
<1>4. UNCHANGED <<window, page, toWindow>> /\ \A u \in Threads : u # t => kind'[u] = kind[u] /\ st'[u] = st[u]
  BY <1>1, <1>3 DEF FreeThread, Inv, TypeOK, ThreadTypes
<1>5. s \in Seq(Signals)
  BY <1>1, <1>2, ConfirmEmission DEF Emission
<1>6. Posted' = Posted \cup Range(s)
  BY <1>1, <1>3, <1>5, QueueGrows DEF Post
<1> HIDE DEF Inv
<1>7. AtWork(t) => \E e \in Posted' : Telling(e)
  <2>1. AtWork(t) => window \in Range(toWindow) /\ page[window] # "wait"
    BY <1>1 DEF AtWork
  <2> QED
    BY <1>1, <1>2, <1>6, <2>1, ConfirmTells
<1> QED
  BY <1>3, <1>4, <1>5, <1>7, ThreadPosts

LEMMA ThreadStepDue ==
    ASSUME EveryRefusalIsTold, Inv, pc = "loop", window # None, SomethingDue, NEW t \in Threads, ThreadStep(t)
    PROVE  SomethingDue'
BY WaitForCardDue, MonitorCardsDue, RunCommandDue, GetPinDue, ConfirmDue DEF ThreadStep

-----------------------------------------------------------------------------
(* The delivery of a signal.                                               *)

(* What is left of the queue when the first signal has been taken.         *)
Rest(q) == queue # <<>> /\ q = RemoveAt(queue, 1)

(* A signal that says nothing to the dialog is delivered.                  *)
LEMMA QuietDelivery ==
    ASSUME queue \in Seq(Signals), SomethingDue, NEW q, Rest(q), ~Telling(queue[1]),
           queue[1].k # "retryHandler", window' = window,
           page'[window] = page[window],
           window \in Range(toWindow) => window \in Range(toWindow'),
           \A t \in Threads : kind[t] # "monitor" /\ Running(t) => kind'[t] = kind[t] /\ Running(t)',
           \A e \in Range(q) : Telling(e) => e \in Posted',
           \A i \in 1 .. Len(q) :
              FirstRetry(q, i) /\ (queue[1].k \in {"finished", "deleteThread"} => q[i].o # queue[1].o)
                 => RetryIsDue'
    PROVE  SomethingDue'
<1>1. /\ q \in Seq(Signals) /\ Len(q) = Len(queue) - 1 /\ Len(queue) \in Nat
      /\ \A i \in 1 .. (Len(queue) - 1) : q[i] = queue[i + 1]
      /\ Range(queue) = Range(q) \cup {queue[1]}
  BY FirstRemoved DEF Rest
<1>2. \A e \in Posted : Telling(e) => e \in Posted'
  BY <1>1 DEF Posted
<1>3. ASSUME NEW i \in 1 .. Len(queue), FirstRetry(queue, i)
      PROVE  RetryIsDue'
  <2>1. i - 1 \in 1 .. Len(q) /\ FirstRetry(q, i - 1)
    BY <1>3, RetryStaysInTail DEF Rest
  <2>2. i \in Nat /\ 1 \in 1 .. i /\ (i - 1) + 1 = i
    BY <1>1
  <2>3. q[i - 1] = queue[i]
    BY <1>1, <2>1, <2>2
  <2>4. queue[1].k \in {"finished", "deleteThread"} => queue[i].o # queue[1].o
    BY <1>3, <2>2 DEF FirstRetry
  <2> QED
    BY <2>1, <2>3, <2>4
<1>4. RetryIsDue => RetryIsDue'
  BY <1>3 DEF RetryIsDue
<1> QED
  BY <1>2, <1>4, DueStays

(* A page with a choice ends the wait.                                     *)
LEMMA OtherPage ==
    ASSUME DialogTypes, window' = window, NEW p, p \notin {"wait", "busy", "pinpad"},
           page' = [page EXCEPT ![window] = p]
    PROVE  ~NoChoice'
BY DEF NoChoice, DialogTypes

LEMMA RetrySignalEndsWait ==
    ASSUME DialogTypes, NEW q, OnRetrySignal(q)
    PROVE  ~NoChoice'
<1>1. CASE window = None
  BY <1>1 DEF OnRetrySignal, Ignored, windowVars, NoChoice
<1>2. CASE window # None
  <2>1. window' = window /\ page' = [page EXCEPT ![window] = "retry"]
    BY <1>2 DEF OnRetrySignal, PageOnly, ShowPage
  <2> QED
    BY <2>1, OtherPage
<1> QED
  BY <1>1, <1>2

(* onSingleCertificateReady: a page with a choice, the fatal error dialog, *)
(* or the confirm thread for the PIN pad.                                  *)
LEMMA PromptDue ==
    ASSUME Inv, NEW q, window # None, window \in Range(toWindow), NoChoice', depth' = 0,
           NEW d, OnSingleCertificateReady(window, d, q)
    PROVE  SomethingDue'
<1>1. DialogTypes /\ ThreadTypes /\ depth \in Nat
  BY DepthType DEF Inv, TypeOK
<1>2. CASE OnCriticalFailure(q)
  BY <1>1, <1>2 DEF OnCriticalFailure
<1>3. CASE \E p \in {"blocked", "select", "pin"} : PageOnly(window, p, q)
  <2>1. PICK p \in {"blocked", "select", "pin"} : PageOnly(window, p, q)
    BY <1>3
  <2>2. window' = window /\ page' = [page EXCEPT ![window] = p]
    BY <2>1 DEF PageOnly, ShowPage
  <2> QED
    BY <1>1, <2>2, OtherPage
<1>4. CASE /\ ShowPage(window, "pinpad")
           /\ OnConfirmCommandHandler(q) /\ UNCHANGED <<window, live, right, choice, pin>>
  <2>1. StartThread("confirm", window) /\ interrupted' \subseteq Threads /\ window' \in Range(toWindow')
        /\ page'[window'] # "wait"
    BY <1>1, <1>4 DEF OnConfirmCommandHandler, StoppedPollers, handlerVars, ThreadTypes, DialogTypes, ShowPage
  <2>2. window \in Windows \cup {None} /\ "confirm" \in {"waitForCard", "run", "confirm"}
    BY <1>1 DEF DialogTypes
  <2> QED
    BY <1>1, <2>1, <2>2, StartedIsDue
<1> QED
  BY <1>2, <1>3, <1>4 DEF OnSingleCertificateReady, PromptForPin

LEMMA DeliverToWindowDue ==
    ASSUME Inv, pc = "loop", depth = 0, WaitIsDue, NEW q, Rest(q),
           queue[1].k \in WindowSignals \ {"deleteWindow"}, DeliverToWindow(queue[1], q),
           depth' = 0, NoChoice'
    PROVE  SomethingDue'
<1>1. queue \in Seq(Signals) /\ DialogTypes /\ depth \in Nat
  BY DepthType DEF Inv, TypeOK, MainTypes
<1>2. queue[1] \in Posted
  <2>1. 1 \in 1 .. Len(queue)
    BY <1>1 DEF Rest
  <2> QED
    BY <1>1, <2>1, RangeMember DEF Posted
<1>3. queue[1].o = window => window # None /\ window \in Range(toWindow)
  <2>1. queue[1].o \in live /\ None \notin live
    BY <1>1, <1>2, NoneIsNoObject DEF Inv, SignalsAreAddressed, Addressed
  <2> QED
    BY <1>2, <2>1 DEF Inv, WindowIsConnected
<1>4. CASE queue[1].o # window /\ Ignored(q)
  <2>1. /\ ~Telling(queue[1]) /\ queue[1].k # "retryHandler"
        /\ queue[1].k \notin {"finished", "deleteThread"}
    BY <1>4 DEF Telling, Effective, WindowSignals
  <2>2. UNCHANGED <<window, page, toWindow>> /\ queue' = q
        /\ \A t \in Threads : kind[t] # "monitor" /\ Running(t) => kind'[t] = kind[t] /\ Running(t)'
    BY <1>4 DEF Ignored, windowVars, handlerVars, threadVars, Running
  <2>3. SomethingDue
    BY <2>2 DEF WaitIsDue, Due, NoChoice
  <2>4. Posted' = Range(q) /\ \A i \in 1 .. Len(q) : FirstRetry(q, i) => RetryIsDue'
    BY <2>2 DEF Posted, RetryIsDue, FirstRetry
  <2> HIDE DEF Inv
  <2> QED
    BY <1>1, <2>1, <2>2, <2>3, <2>4, QuietDelivery
<1>5. CASE queue[1].o = window /\ OnMultipleCertificatesReady(window, q)
  <2>1. window' = window /\ page' = [page EXCEPT ![window] = "select"]
    BY <1>1, <1>5 DEF OnMultipleCertificatesReady, OnCriticalFailure, ShowPage
  <2> QED
    BY <1>1, <2>1, OtherPage
<1>6. CASE queue[1].o = window /\ OnSingleCertificateReady(window, queue[1].d, q)
  <2> HIDE DEF Inv
  <2> QED
    BY <1>3, <1>6, PromptDue
<1>7. CASE queue[1].o = window /\ PageOnly(window, "retry", q)
  <2>1. window' = window /\ page' = [page EXCEPT ![window] = "retry"]
    BY <1>7 DEF PageOnly, ShowPage
  <2> QED
    BY <1>1, <2>1, OtherPage
<1>8. CASE queue[1].o = window /\ queue[1].k = "verifyPinFailed"
           /\ OnVerifyPinFailed(window, queue[1].d, q)
  <2> DEFINE p == PageAfterPinFailure(page[window], queue[1].d)
  <2>1. p \notin {"wait", "busy", "pinpad"} \/ (p = "wait" /\ page[window] = "wait")
    <3>1. page[window] \in Pages
      BY <1>1, <1>3, <1>8 DEF DialogTypes
    <3> QED
      BY <3>1 DEF PageAfterPinFailure, Pages
  <2>2. window' = window /\ page' = [page EXCEPT ![window] = p]
    BY <1>8 DEF OnVerifyPinFailed, PageOnly, ShowPage
  <2>3. CASE p \notin {"wait", "busy", "pinpad"}
    <3> HIDE DEF p
    <3> QED
      BY <1>1, <2>2, <2>3, OtherPage
  <2>4. CASE p = "wait" /\ page[window] = "wait"
    <3>1. page'[window] = page[window]
      BY <1>1, <1>3, <1>8, <2>2, <2>4 DEF DialogTypes
    <3>2. /\ ~Telling(queue[1]) /\ queue[1].k # "retryHandler"
          /\ queue[1].k \notin {"finished", "deleteThread"}
      BY <1>8, <2>4 DEF Telling, Effective
    <3>3. UNCHANGED <<window, toWindow>> /\ queue' = q
          /\ \A t \in Threads : kind[t] # "monitor" /\ Running(t) => kind'[t] = kind[t] /\ Running(t)'
      BY <1>8 DEF OnVerifyPinFailed, PageOnly, handlerVars, threadVars, Running
    <3>4. SomethingDue
      BY <1>3, <1>8, <2>4 DEF WaitIsDue, Due, NoChoice
    <3>5. Posted' = Range(q) /\ \A i \in 1 .. Len(q) : FirstRetry(q, i) => RetryIsDue'
      BY <3>3 DEF Posted, RetryIsDue, FirstRetry
    <3> HIDE DEF Inv, p
    <3> QED
      BY <1>1, <3>1, <3>2, <3>3, <3>4, <3>5, QuietDelivery
  <2> QED
    BY <2>1, <2>3, <2>4
<1> QED
  BY <1>4, <1>5, <1>6, <1>7, <1>8 DEF DeliverToWindow

LEMMA DeliverToThreadDue ==
    ASSUME Inv, pc = "loop", depth = 0, WaitIsDue, NEW q, Rest(q), queue[1].k \in ThreadSignals,
           DeliverToThread(queue[1], q), NoChoice'
    PROVE  SomethingDue'
<1>1. queue \in Seq(Signals) /\ DialogTypes /\ depth \in 0 .. MaxDepth
  BY DEF Inv, TypeOK, MainTypes
<1>2. queue[1] \in Posted
  <2>1. 1 \in 1 .. Len(queue)
    BY <1>1 DEF Rest
  <2> QED
    BY <1>1, <2>1, RangeMember DEF Posted
<1>3. queue[1].o \in Threads /\ kind[queue[1].o] = "run"
  BY <1>2 DEF Inv, SignalsAreAddressed, Addressed
<1>4. queue[1].o \in connected
  BY <1>3 DEF Inv, ThreadsAreKept
<1>5. CASE queue[1].k = "finished" /\ Ignored(Append(q, DeleteLater("deleteThread", queue[1].o, depth)))
  <2> DEFINE later == DeleteLater("deleteThread", queue[1].o, depth)
  <2>1. later \in Signals
    BY <1>1, <1>3 DEF DeleteLater, Signals, SignalKinds, ThreadSignals
  <2>2. UNCHANGED <<window, page, toWindow>> /\ queue' = Append(q, later)
        /\ \A t \in Threads : kind[t] # "monitor" /\ Running(t) => kind'[t] = kind[t] /\ Running(t)'
    BY <1>5 DEF Ignored, windowVars, handlerVars, threadVars, Running
  <2> HIDE DEF later
  <2>3. ~Telling(queue[1]) /\ queue[1].k # "retryHandler"
    BY <1>5 DEF Telling, Effective, WindowSignals
  <2>4. q \in Seq(Signals)
    BY <1>1, FirstRemoved DEF Rest
  <2>5. <<later>> \in Seq(Signals) /\ queue' = q \o <<later>>
    BY <2>1, <2>2, <2>4, SingletonRange, AppendIsConcat
  <2>6. \A i \in 1 .. Len(q) : FirstRetry(q, i) => RetryIsDue'
    <3> SUFFICES ASSUME NEW i \in 1 .. Len(q), FirstRetry(q, i) PROVE RetryIsDue'
      OBVIOUS
    <3>1. i \in 1 .. Len(queue') /\ FirstRetry(queue', i)
      BY <2>4, <2>5, RetryStaysInConcat
    <3> QED
      BY <3>1 DEF RetryIsDue, FirstRetry
  <2>7. Range(q) \subseteq Posted'
    <3>1. Range(q \o <<later>>) = Range(q) \cup Range(<<later>>)
      BY <2>4, <2>5, RangeOfConcat
    <3>2. Posted' = Range(q \o <<later>>)
      BY <2>5 DEF Posted
    <3> QED
      BY <3>1, <3>2
  <2>8. SomethingDue
    BY <2>2 DEF WaitIsDue, Due, NoChoice
  <2> HIDE DEF Inv
  <2> QED
    BY <1>1, <2>2, <2>3, <2>6, <2>7, <2>8, QuietDelivery
<1>6. CASE OnRetrySignal(q)
  BY <1>1, <1>6, RetrySignalEndsWait
<1> QED
  BY <1>4, <1>5, <1>6 DEF DeliverToThread

LEMMA DeliverToControllerDue ==
    ASSUME Inv, pc = "loop", depth = 0, WaitIsDue, NEW q, Rest(q),
           DeliverToController(queue[1], q), pc' = "loop", depth' = 0, NoChoice'
    PROVE  SomethingDue'
<1>1. queue \in Seq(Signals) /\ DialogTypes /\ ThreadTypes
  BY DEF Inv, TypeOK, MainTypes
<1>2. CASE OnCriticalFailure(q)
  BY <1>2 DEF OnCriticalFailure
<1>3. CASE OnCardsAvailable(q)
  <2>1. CASE OnCriticalFailure(q)
    BY <1>2, <2>1
  <2>2. CASE StartThread("run", None) /\ UNCHANGED interrupted
    <3>1. interrupted' \subseteq Threads
      BY <1>1, <2>2 DEF ThreadTypes
    <3>2. "run" \in {"waitForCard", "run", "confirm"} /\ None \in Windows \cup {None} /\ "run" # "confirm"
      OBVIOUS
    <3> HIDE DEF Inv
    <3> QED
      BY <1>1, <2>2, <3>1, <3>2, StartedIsDue
  <2> QED
    BY <1>3, <2>1, <2>2 DEF OnCardsAvailable
<1>4. CASE OnSmartCardStatusUpdate(q)
  <2>1. CASE window = None
    BY <1>4, <2>1 DEF OnSmartCardStatusUpdate, Ignored, windowVars, NoChoice
  <2>2. CASE window # None
    <3>1. window' = window /\ page' = [page EXCEPT ![window] = "alert"]
      BY <1>4, <2>2 DEF OnSmartCardStatusUpdate, ShowPage
    <3> QED
      BY <1>1, <3>1, OtherPage
  <2> QED
    BY <2>1, <2>2
<1>5. CASE queue[1].k = "certificatesLoaded" /\ OnCertificatesLoaded(q)
  <2> DEFINE t == Min(FreeThreads)
  <2>1. UNCHANGED <<window, page, toWindow, interrupted>> /\ queue' = q /\ StartThread("monitor", None)
    BY <1>5 DEF OnCertificatesLoaded, windowVars, handlerVars
  <2>2. "monitor" \in Pollers \cup CommandThreads /\ None \in Windows \cup {None}
        /\ interrupted' \subseteq Threads
    BY <1>1, <2>1 DEF Pollers, ThreadTypes
  <2>3. /\ t \in Threads /\ st[t] = "free"
        /\ kind' = [kind EXCEPT ![t] = "monitor"]
        /\ st' = [st EXCEPT ![t] = "ready"]
    BY <1>1, <2>1, <2>2, StartThreadEffect
  <2> HIDE DEF t
  <2>4. \A u \in Threads : kind[u] # "monitor" /\ Running(u) => kind'[u] = kind[u] /\ Running(u)'
    BY <1>1, <2>3 DEF ThreadTypes, Running
  <2>5. /\ ~Telling(queue[1]) /\ queue[1].k # "retryHandler"
        /\ queue[1].k \notin {"finished", "deleteThread"}
    BY <1>5 DEF Telling, Effective, WindowSignals
  <2>6. Posted' = Range(q) /\ \A i \in 1 .. Len(q) : FirstRetry(q, i) => RetryIsDue'
    BY <2>1 DEF Posted, RetryIsDue, FirstRetry
  <2>7. SomethingDue
    BY <2>1 DEF WaitIsDue, Due, NoChoice
  <2> HIDE DEF Inv
  <2> QED
    BY <1>1, <2>1, <2>4, <2>5, <2>6, <2>7, QuietDelivery
<1>6. CASE OnRetry(q)
  BY <1>6 DEF OnRetry, BeginJoin
<1>7. CASE OnRetrySignal(q)
  BY <1>1, <1>7, RetrySignalEndsWait
<1>8. CASE OnCommandHandlerConfirmCompleted(q)
  BY <1>8 DEF OnCommandHandlerConfirmCompleted, Finish, BeginJoin
<1>9. CASE OnDialogCancel(q)
  BY <1>9 DEF OnDialogCancel, Finish, BeginJoin
<1>10. CASE pc' = "unwind"
  BY <1>10
<1> QED
  BY <1>2, <1>3, <1>4, <1>5, <1>6, <1>7, <1>8, <1>9, <1>10 DEF DeliverToController

LEMMA DeleteWindowDue ==
    ASSUME Inv, pc = "loop", depth = 0, WaitIsDue, NEW q, Rest(q), queue[1].k = "deleteWindow",
           DeleteWindow(queue[1].o, q), NoChoice'
    PROVE  SomethingDue'
<1>1. queue \in Seq(Signals) /\ DialogTypes
  BY DEF Inv, TypeOK, MainTypes
<1> DEFINE w == queue[1].o
<1>2. w # window /\ UNCHANGED window /\ page'[window] = page[window]
  <2>1. 1 \in 1 .. Len(queue)
    BY <1>1 DEF Rest
  <2>2. queue[1] \in Posted
    BY <1>1, <2>1, RangeMember DEF Posted
  <2>3. w # window
    BY <2>2 DEF Inv, SignalsAreAddressed, Addressed
  <2>4. window \in Windows
    BY <1>1 DEF DeleteWindow, NoChoice, DialogTypes
  <2> QED
    BY <1>1, <2>3, <2>4 DEF DeleteWindow, DialogTypes
<1>3. SomethingDue
  BY <1>2 DEF WaitIsDue, Due, NoChoice
<1>4. window \in Range(toWindow) => window \in Range(toWindow')
  <2>1. toWindow \in Seq(Windows)
    BY <1>1 DEF DialogTypes
  <2>2. Range(toWindow') = Range(toWindow) \ {w}
    BY <2>1, WithoutWindow DEF DeleteWindow
  <2> QED
    BY <1>2, <2>2
<1>5. /\ ~Telling(queue[1]) /\ queue[1].k # "retryHandler"
      /\ queue[1].k \notin {"finished", "deleteThread"}
  BY <1>2 DEF Telling, Effective, WindowSignals
<1>6. \A t \in Threads : kind[t] # "monitor" /\ Running(t) => kind'[t] = kind[t] /\ Running(t)'
  BY DEF DeleteWindow, threadVars, Running
<1>7. q \in Seq(Signals) /\ queue' = Without(q, WindowSignals, w)
  BY <1>1, FirstRemoved DEF Rest, DeleteWindow
<1>8. \A e \in Range(q) : Telling(e) => e \in Posted'
  <2>1. Posted' = {e \in Range(q) : ~Refers(e, WindowSignals, w)}
    BY <1>7, WithoutRange DEF Posted
  <2> QED
    BY <1>2, <2>1 DEF Refers, Telling, Effective, WindowSignals
<1>9. ASSUME NEW i \in 1 .. Len(q), FirstRetry(q, i) PROVE RetryIsDue'
  <2> DEFINE keep == {j \in 1 .. Len(q) : ~Refers(q[j], WindowSignals, w)}
  <2>1. i \in keep /\ keep \subseteq 1 .. Len(q)
    BY <1>9 DEF FirstRetry, Refers, WindowSignals
  <2>2. queue' = Part(q, keep)
    BY <1>7 DEF Without
  <2> HIDE DEF keep
  <2>3. \E n \in 1 .. Len(queue') : FirstRetry(queue', n)
    BY <1>7, <1>9, <2>1, <2>2, RetryStaysInPart
  <2> QED
    BY <2>3 DEF RetryIsDue, FirstRetry
<1> HIDE DEF Inv, w
<1> QED
  BY <1>1, <1>2, <1>3, <1>4, <1>5, <1>6, <1>8, <1>9, QuietDelivery

LEMMA DeleteThreadDue ==
    ASSUME Inv, pc = "loop", depth = 0, WaitIsDue, NEW q, Rest(q), queue[1].k = "deleteThread",
           DeleteThread(queue[1].o, q), NoChoice'
    PROVE  SomethingDue'
<1>1. queue \in Seq(Signals) /\ DialogTypes /\ ThreadTypes
  BY DEF Inv, TypeOK, MainTypes
<1> DEFINE t == queue[1].o
<1>2. t \in Threads /\ st[t] = "done"
  <2>1. 1 \in 1 .. Len(queue)
    BY <1>1 DEF Rest
  <2>2. queue[1] \in Posted
    BY <1>1, <2>1, RangeMember DEF Posted
  <2> QED
    BY <2>2 DEF Inv, SignalsAreAddressed, Addressed, ThreadSignals
<1>3. UNCHANGED <<window, page, toWindow>> /\ kind' = [kind EXCEPT ![t] = ""]
      /\ st' = [st EXCEPT ![t] = "free"]
  BY DEF DeleteThread, FreeThread, windowVars
<1>4. SomethingDue
  BY <1>3 DEF WaitIsDue, Due, NoChoice
<1>5. ~Telling(queue[1]) /\ queue[1].k # "retryHandler"
  BY DEF Telling, Effective, WindowSignals
<1>6. \A u \in Threads : kind[u] # "monitor" /\ Running(u) => kind'[u] = kind[u] /\ Running(u)'
  BY <1>1, <1>2, <1>3 DEF ThreadTypes, Running
<1>7. q \in Seq(Signals) /\ queue' = Without(q, ThreadSignals, t)
  BY <1>1, FirstRemoved DEF Rest, DeleteThread
<1>8. \A e \in Range(q) : Telling(e) => e \in Posted'
  <2>1. Posted' = {e \in Range(q) : ~Refers(e, ThreadSignals, t)}
    BY <1>7, WithoutRange DEF Posted
  <2> QED
    BY <2>1 DEF Refers, Telling, Effective, WindowSignals, ThreadSignals
<1>9. ASSUME NEW i \in 1 .. Len(q), FirstRetry(q, i), q[i].o # t PROVE RetryIsDue'
  <2> DEFINE keep == {j \in 1 .. Len(q) : ~Refers(q[j], ThreadSignals, t)}
  <2>1. i \in keep /\ keep \subseteq 1 .. Len(q)
    BY <1>9 DEF Refers
  <2>2. queue' = Part(q, keep)
    BY <1>7 DEF Without
  <2> HIDE DEF keep
  <2>3. \E n \in 1 .. Len(queue') : FirstRetry(queue', n)
    BY <1>7, <1>9, <2>1, <2>2, RetryStaysInPart
  <2> QED
    BY <2>3 DEF RetryIsDue, FirstRetry
<1>10. \A i \in 1 .. Len(q) :
          FirstRetry(q, i) /\ (queue[1].k \in {"finished", "deleteThread"} => q[i].o # queue[1].o)
             => RetryIsDue'
  BY <1>9
<1> HIDE DEF Inv
<1> QED
  BY <1>1, <1>3, <1>4, <1>5, <1>6, <1>8, <1>10, QuietDelivery

(* Outside the fatal error dialog the first signal is always the next.     *)
LEMMA DeliverDue ==
    ASSUME Inv, WaitIsDue, Deliver, pc' = "loop", depth' = 0, NoChoice'
    PROVE  SomethingDue'
<1>1. pc = "loop" /\ ~Idle /\ queue \in Seq(Signals) /\ depth \in Nat
  BY DepthType DEF Deliver, Inv, TypeOK, MainTypes
<1> DEFINE e == queue[NextSignal]
           q == RemoveAt(queue, NextSignal)
<1>2. \/ e.k = "deleteWindow" /\ DeleteWindow(e.o, q)
      \/ e.k = "deleteThread" /\ DeleteThread(e.o, q)
      \/ e.k \in WindowSignals \ {"deleteWindow"} /\ DeliverToWindow(e, q)
      \/ e.k \in ThreadSignals \ {"deleteThread"} /\ DeliverToThread(e, q)
      \/ DeliverToController(e, q)
  BY DEF Deliver
<1>3. depth = 0
  <2>1. depth' = depth \/ depth' = depth + 1 \/ pc' # "loop"
    BY <1>2 DEF DeleteWindow, DeleteThread, DeliverToWindow, DeliverToThread, DeliverToController,
       OnMultipleCertificatesReady, OnSingleCertificateReady, PromptForPin, OnConfirmCommandHandler,
       PageOnly, OnVerifyPinFailed, Ignored, OnRetrySignal, OnCardsAvailable, OnSmartCardStatusUpdate,
       OnCertificatesLoaded, OnRetry, OnCommandHandlerConfirmCompleted, OnDialogCancel, Finish,
       BeginJoin, OnCriticalFailure, mainVars
  <2> QED
    BY <1>1, <2>1
<1>4. NextSignal = 1 /\ queue # <<>>
  <2>1. NextSignal \in 1 .. Len(queue) /\ \A i \in 1 .. Len(queue) : Deliverable(queue[i]) => NextSignal <= i
    BY <1>1, Delivery
  <2>2. Len(queue) \in Nat /\ 1 \in 1 .. Len(queue)
    BY <1>1, <2>1
  <2>3. queue[1] \in Posted
    BY <1>1, <2>2, RangeMember DEF Posted
  <2>4. Deliverable(queue[1])
    BY <1>1, <1>3, <2>3, PostedTypes DEF Deliverable
  <2> QED
    BY <2>1, <2>2, <2>4
<1>5. e = queue[1] /\ Rest(q)
  BY <1>4 DEF Rest
<1> HIDE DEF Inv, e, q
<1> QED
  BY <1>1, <1>2, <1>3, <1>5, DeleteWindowDue, DeleteThreadDue, DeliverToWindowDue, DeliverToThreadDue,
     DeliverToControllerDue

-----------------------------------------------------------------------------
(* The other steps.                                                        *)

LEMMA ClickOKDue ==
    ASSUME Inv, ClickOK, depth' = 0, NoChoice'
    PROVE  SomethingDue'
<1>1. ThreadTypes /\ DialogTypes /\ window # None /\ page[window] \in {"pin", "select"}
  BY DEF ClickOK, UserMayOnPage, Inv, TypeOK
<1>2. window \in Windows /\ window \in Range(toWindow)
  BY <1>1 DEF DialogTypes, Inv, WindowIsConnected
<1>3. CASE ShowPage(window, "busy") /\ OnConfirmCommandHandler(queue) /\ UNCHANGED window
  <2>1. StartThread("confirm", window) /\ interrupted' \subseteq Threads /\ window' \in Range(toWindow')
        /\ page'[window'] # "wait"
    BY <1>1, <1>2, <1>3 DEF OnConfirmCommandHandler, StoppedPollers, handlerVars, ThreadTypes, DialogTypes,
       ShowPage
  <2>2. window \in Windows \cup {None} /\ "confirm" \in {"waitForCard", "run", "confirm"}
    BY <1>2
  <2> QED
    BY <1>1, <2>1, <2>2, StartedIsDue
<1>4. CASE \E d \in {"single", "unusable"} : OnSingleCertificateReady(window, d, queue)
  <2> HIDE DEF Inv
  <2> QED
    BY <1>1, <1>2, <1>4, PromptDue
<1> QED
  BY <1>3, <1>4 DEF ClickOK

LEMMA StartCommandDue ==
    ASSUME Inv, StartCommandExecution
    PROVE  SomethingDue'
<1>1. ThreadTypes /\ interrupted' \subseteq Threads /\ StartThread("waitForCard", None)
  BY DEF StartCommandExecution, Inv, TypeOK, ThreadTypes
<1>2. "waitForCard" \in {"waitForCard", "run", "confirm"} /\ None \in Windows \cup {None}
      /\ "waitForCard" # "confirm"
  OBVIOUS
<1> HIDE DEF Inv
<1> QED
  BY <1>1, <1>2, StartedIsDue

(* The card changes, or the about page is closed.                          *)
LEMMA CalmDue ==
    ASSUME SomethingDue, UNCHANGED <<window, page, toWindow, kind, st>>,
           queue' = queue \/ queue = <<>>
    PROVE  SomethingDue'
<1>1. Posted \subseteq Posted'
  BY EmptyRange DEF Posted
<1>2. RetryIsDue => RetryIsDue'
  <2>1. CASE queue' = queue
    BY <2>1 DEF RetryIsDue, FirstRetry
  <2>2. CASE queue = <<>>
    BY <2>2 DEF RetryIsDue
  <2> QED
    BY <2>1, <2>2
<1> QED
  BY <1>1, <1>2, DueStays DEF Running

LEMMA WaitIsDueNext ==
    ASSUME EveryRefusalIsTold, Inv, WaitIsDue, [Next]_vars
    PROVE  WaitIsDue'
<1> SUFFICES ASSUME pc' = "loop", depth' = 0, NoChoice' PROVE SomethingDue'
  BY DEF WaitIsDue, Due
<1>1. DialogTypes
  BY DEF Inv, TypeOK
<1>2. ASSUME UNCHANGED <<pc, depth, window, page, toWindow, kind, st>>,
             queue' = queue \/ queue = <<>>
      PROVE  SomethingDue'
  <2>1. SomethingDue
    BY <1>2 DEF WaitIsDue, Due, NoChoice
  <2> QED
    BY <1>2, <2>1, CalmDue
<1>3. CASE Run
  <2>1. CASE pc' = "loop" /\ UNCHANGED windowVars
    <3>1. window' = None
      BY <1>3, <2>1 DEF Run, windowVars, Inv, StartIsFresh
    <3> QED
      BY <3>1 DEF NoChoice
  <2>2. CASE StartCommandExecution
    <3> HIDE DEF Inv
    <3> QED
      BY <2>2, StartCommandDue
  <2>3. CASE OnCriticalFailure(queue)
    BY <2>3, DepthType DEF OnCriticalFailure, Inv, TypeOK
  <2> QED
    BY <1>3, <2>1, <2>2, <2>3 DEF Run, Finish, BeginJoin
<1>4. CASE Deliver
  <2> HIDE DEF Inv
  <2> QED
    BY <1>4, DeliverDue
<1>5. CASE StopChild \/ WaitForChild \/ Unwind
  BY <1>5 DEF StopChild, WaitForChild, Unwind, ReportFatalError
<1>6. CASE Restart
  <2> HIDE DEF Inv
  <2> QED
    BY <1>6, StartCommandDue DEF Restart
<1>7. CASE EmitFinished
  <2>1. window' = None
    BY <1>7 DEF EmitFinished, JoinIsOver, windowVars, Inv, JoinWaitsForAll
  <2> QED
    BY <2>1 DEF NoChoice
<1>8. ASSUME NEW t \in Threads, ThreadStep(t) PROVE SomethingDue'
  <2>1. UNCHANGED <<pc, depth, window>> /\ page' = page
    BY <1>8 DEF ThreadStep, WaitForCard, MonitorCards, RunCommand, GetPin, Confirm, ChildOnly,
       mainVars, windowVars
  <2>2. SomethingDue /\ pc = "loop" /\ window # None
    BY <2>1 DEF WaitIsDue, Due, NoChoice
  <2> HIDE DEF Inv
  <2> QED
    BY <1>8, <2>2, ThreadStepDue
<1>9. CASE ClickOK
  <2> HIDE DEF Inv
  <2> QED
    BY <1>9, ClickOKDue
<1>10. CASE ClickCancel \/ TryAgain \/ CloseFatalError
  BY <1>10 DEF ClickCancel, TryAgain, CloseFatalError, OnDialogCancel, OnRetry, Finish, BeginJoin,
     ReportFatalError
<1>11. CASE SelectAnother
  <2>1. window' = window /\ page' = [page EXCEPT ![window] = "select"]
    BY <1>11 DEF SelectAnother, PageOnly, ShowPage
  <2> QED
    BY <1>1, <2>1, OtherPage
<1>12. CASE CloseAboutPage \/ ChangeCard \/ UNCHANGED vars
  <2>1. UNCHANGED <<pc, depth, window, page, toWindow, kind, st>> /\ (queue' = queue \/ queue = <<>>)
    BY <1>12 DEF CloseAboutPage, ChangeCard, vars, mainVars, windowVars, handlerVars, threadVars
  <2> QED
    BY <1>2, <2>1
<1> QED
  BY <1>3, <1>4, <1>5, <1>6, <1>7, <1>8, <1>9, <1>10, <1>11, <1>12 DEF Next, MainStep, UserStep

(* The user is never left with a page on which nothing can be done and     *)
(* nothing will happen (NoDeadEnd), as long as no PIN entry is cancelled   *)
(* or disabled with retries left, of which onConfirm tells nobody.         *)
THEOREM NobodyWaitsForNothing == EveryRefusalIsTold /\ Spec => []NoDeadEnd
<1> SUFFICES ASSUME EveryRefusalIsTold PROVE Spec => []NoDeadEnd
  OBVIOUS
<1>1. Init => WaitIsDue
  BY DEF Init, WaitIsDue, Due
<1>2. Inv /\ WaitIsDue /\ [Next]_vars => WaitIsDue'
  BY WaitIsDueNext
<1>3. Inv /\ WaitIsDue => NoDeadEnd
  <2> SUFFICES ASSUME Inv, SomethingDue, depth = 0, Idle
               PROVE  \E t \in Threads : Running(t) /\ kind[t] # "monitor"
    BY DEF NoDeadEnd, WaitIsDue, Due, NoChoice
  <2>1. queue \in Seq(Signals) /\ Len(queue) \in Nat
    <3>1. queue \in Seq(Signals)
      BY DEF Inv, TypeOK, MainTypes
    <3> QED
      BY <3>1, SeqShape
  <2>2. \A i \in 1 .. Len(queue) : Deliverable(queue[i])
    <3> SUFFICES ASSUME NEW i \in 1 .. Len(queue) PROVE Deliverable(queue[i])
      OBVIOUS
    <3>1. queue[i] \in Posted
      BY <2>1, RangeMember DEF Posted
    <3> QED
      BY <2>1, <3>1, PostedTypes DEF Deliverable
  <2>3. queue = <<>>
    BY <2>1, <2>2 DEF Idle
  <2>4. Posted = {} /\ ~RetryIsDue
    BY <2>3, EmptyRange DEF Posted, RetryIsDue
  <2> QED
    BY <2>4 DEF SomethingDue, AtWork
<1> QED
  BY <1>1, <1>2, <1>3, Invariance, PTL DEF Spec
=============================================================================
