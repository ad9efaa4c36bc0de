----------------------- MODULE ControllerTurns_proofs -----------------------
(***************************************************************************)
(* Proofs about who has the turn in the execution of a command: one thread *)
(* of the command, or one signal that will act, or the user, and while the *)
(* user is asked for an answer the cards are being monitored. From this    *)
(* follow that the PIN is there when it is used, that every prompt is      *)
(* monitored and that no certificate reaches a dialog that does not expect *)
(* it.                                                                     *)
(*                                                                         *)
(* They hold in a calm environment, where the user does not go back to the *)
(* choice of a certificate and, if the cards move at all, is not in a      *)
(* hurry: answers a page only after the signals before it have arrived,    *)
(* and uses the keyboard. Outside it the code does not have these          *)
(* properties: the runs empty_pin and unmonitored_pin show two of the ways *)
(* to lose them, and with a PIN pad reader, where no click comes between   *)
(* the prompt and the confirm thread, that thread may be started with the  *)
(* monitor's card event still in the queue.                                *)
(*                                                                         *)
(* Most steps are quiet: they give nobody the turn, and nothing needs to   *)
(* be said of them but that. The others take the turn from a signal, a     *)
(* thread or the user and give it to another.                              *)
(***************************************************************************)
EXTENDS Controller_proofs

-----------------------------------------------------------------------------
(* The environments the theorems are about.                                *)

(* The user acts only when the event loop has nothing left to deliver, and *)
(* types the PIN on the keyboard.                                          *)
Unhurried == "hasty" \notin UserActs /\ "pinpad" \notin PinModes

(* The user does not go back to the choice of a certificate, and either    *)
(* leaves the cards where they are or is not in a hurry.                   *)
Calm == "reselect" \notin UserActs /\ (MaxCardMoves = 0 \/ Unhurried)

-----------------------------------------------------------------------------
(* Whose turn it is.                                                       *)

(* The threads that work for the command, as opposed to the monitor.       *)
Works(t) == kind[t] \in {"waitForCard", "run", "confirm"} /\ Running(t)

(* The signals that will ask the user for an answer, ...                   *)
Prompting(e) == window # None /\ e.o = window /\ e.k \in {"certificateReady", "verifyPinFailed"}

(* ... those that will begin another attempt or offer one, ...             *)
Trying(e) ==
    \/ e.k \in {"cardsAvailable", "retry", "retryHandler"}
    \/ window # None /\ e.o = window /\ e.k = "mismatch"

(* ... and the two together.                                               *)
Acts(e) == Prompting(e) \/ Trying(e)

(* All that act, as a set of signals.                                      *)
Acting == {e \in Signals : Acts(e)}

(* The user has been asked for an answer, or offered another attempt.      *)
Asked == window # None /\ page[window] \in {"select", "pin"}

(* The user has been offered another attempt.                              *)
Offered == window # None /\ page[window] = "retry"

(* The turn is a thread's, ...                                             *)
ThreadTurn == \E t \in Threads : Works(t)

(* ... a signal's ...                                                      *)
SignalTurn == \E e \in Posted : Acts(e)

(* ... or the user's.                                                      *)
UserTurn == Asked \/ Offered

(* A command is with one thread, or with one signal, or with the user, and *)
(* with none of them while the controller is about to start again.         *)
OneTurn ==
    /\ \A t, u \in Threads : Works(t) /\ Works(u) => t = u
    /\ OneIn(queue, Acting)
    /\ ~(ThreadTurn /\ SignalTurn) /\ ~(ThreadTurn /\ UserTurn) /\ ~(SignalTurn /\ UserTurn)
    /\ cont = "restart" => ~ThreadTurn /\ ~SignalTurn

-----------------------------------------------------------------------------
(* What the turns rest on.                                                 *)

(* The thread that waits for a card, ...                                   *)
Waits(t) == kind[t] = "waitForCard" /\ Running(t)

(* ... and the signal that it has found some.                              *)
CardSignal == \E e \in Posted : e.k = "cardsAvailable"

(* A signal has one receiver: one command handler is connected to the      *)
(* dialog and one thread to the handler, neither of them from the attempt  *)
(* before; a thread interrupted or ended is one that was started.          *)
Wiring ==
    /\ Len(toWindow) <= 1
    /\ \A t, u \in toThreads : t = u
    /\ (\E t \in Threads : Waits(t)) \/ CardSignal \/ pc = "start" => toWindow = <<>> /\ toThreads = {}
    /\ window # None => toController
    /\ \A t \in interrupted : st[t] # "free"
    /\ \A t \in Threads : st[t] = "done" => kind[t] = "run"

(* A monitor that will go on, and the signals that were sent for one that  *)
(* is to be started or by one that saw a card.                             *)
Watching(t) == kind[t] = "monitor" /\ Running(t) /\ t \notin interrupted

(* The signal that starts a monitor, and what a monitor says.              *)
Watch(e) == e.k \in {"certificatesLoaded", "cardEvent"}

(* Both of these, as a set of signals.                                     *)
Watches == {e \in Signals : Watch(e)}

(* The cards are watched by a thread, ...                                  *)
WatchThread == \E t \in Threads : Watching(t)

(* ... or about to be, or have been.                                       *)
WatchSignal == \E e \in Posted : Watch(e)

(* While the cards stay where they are no monitor has anything to say.     *)
SteadyCard ==
    MaxCardMoves = 0 =>
        /\ \A e \in Posted : e.k # "cardEvent"
        /\ \A t \in Threads : kind[t] = "monitor" /\ st[t] = "waiting" => card

(* When they move there is one watch at a time, a thread or a signal, and  *)
(* none while another attempt is under way or on offer.                    *)
OneWatch ==
    MaxCardMoves # 0 =>
        /\ \A w \in Windows : page[w] # "pinpad"
        /\ \A t, u \in Threads : Watching(t) /\ Watching(u) => t = u
        /\ OneIn(queue, Watches)
        /\ ~(WatchThread /\ WatchSignal)
        /\ ThreadTurn \/ (\E e \in Posted : Trying(e)) \/ Offered \/ cont = "restart"
              => ~WatchThread /\ ~WatchSignal

(* Whoever is asked, or about to be asked, has the cards watched meanwhile. *)
Monitored ==
    Asked \/ (\E e \in Posted : Prompting(e)) => WatchThread \/ WatchSignal

(* The thread that reads the certificates.                                 *)
Reads(t) == kind[t] = "run" /\ Running(t)

(* What is said of the readers while there is no card, ...                 *)
Statuses == {e \in Signals : e.k = "statusUpdate"}

(* ... and that there are cards.                                           *)
Cards == {e \in Signals : e.k = "cardsAvailable"}

(* No word of the wait for a card is left when the certificates are being  *)
(* read: it was delivered before the card that ended the wait, and the     *)
(* dialog shows a page that expects certificates.                          *)
StatusIsOver ==
    /\ (\E t \in Threads : Reads(t)) \/ (\E e \in Posted : e.k = "certificateReady" /\ e.o = window) =>
          /\ \A e \in Posted : e.k # "statusUpdate"
          /\ window # None => right[window]
    /\ Before(queue, Statuses, Cards)

(* The invariant.                                                          *)
Turns ==
    /\ OneTurn
    /\ Wiring
    /\ SteadyCard
    /\ OneWatch
    /\ Monitored
    /\ StatusIsOver
    /\ PinForEveryConfirm

-----------------------------------------------------------------------------

(* The signals the turns depend on.                                        *)
LoudKinds ==
    {"certificateReady", "mismatch", "verifyPinFailed", "retryHandler", "cardsAvailable",
     "statusUpdate", "certificatesLoaded", "cardEvent", "retry"}

(* They, as a set of signals.                                              *)
Loud == {e \in Signals : e.k \in LoudKinds}

(* q has no loud signal that s has not, in no other order.                 *)
Calmer(q, s) ==
    /\ q \in Seq(Signals)
    /\ \A e \in Range(q) : e.k \in LoudKinds => e \in Range(s)
    /\ \A S : S \subseteq Loud /\ OneIn(s, S) => OneIn(q, S)
    /\ Before(s, Statuses, Cards) => Before(q, Statuses, Cards)

(* A queue is as calm as itself, ...                                       *)
LEMMA CalmerSelf ==
    ASSUME NEW s \in Seq(Signals)
    PROVE  Calmer(s, s)
BY DEF Calmer

(* ... calmer than what a less calm one is calmer than, ...                *)
LEMMA CalmerTwice ==
    ASSUME NEW p, NEW q, NEW s, Calmer(q, s), Calmer(p, q)
    PROVE  Calmer(p, s)
BY DEF Calmer

(* ... calmer when some signals are gone, ...                              *)
LEMMA LeftIsCalmer ==
    ASSUME NEW s \in Seq(Signals), NEW q \in Seq(Signals), LeftOf(q, s)
    PROVE  Calmer(q, s)
<1>1. Range(q) \subseteq Range(s)
  BY LeftOfKeeps
<1>2. \A S : OneIn(s, S) => OneIn(q, S)
  BY LeftOfKeeps
<1>3. Before(s, Statuses, Cards) => Before(q, Statuses, Cards)
  BY LeftOfKeeps
<1> QED
  BY <1>1, <1>2, <1>3 DEF Calmer

(* ... as calm with a signal that is not loud, ...                         *)
LEMMA AppendIsCalmer ==
    ASSUME NEW s \in Seq(Signals), NEW e \in Signals, e.k \notin LoudKinds
    PROVE  Calmer(Append(s, e), s)
<1>1. /\ Append(s, e) \in Seq(Signals) /\ Len(Append(s, e)) = Len(s) + 1 /\ Len(s) \in Nat
      /\ \A i \in 1 .. Len(s) : Append(s, e)[i] = s[i]
      /\ Append(s, e)[Len(s) + 1] = e
  OBVIOUS
<1>2. \A i \in 1 .. (Len(s) + 1) : i \in 1 .. Len(s) \/ i = Len(s) + 1
  BY <1>1
<1>3. Range(Append(s, e)) = Range(s) \cup {e}
  BY RangeOfAppend
<1>4. ASSUME NEW S, S \subseteq Loud, OneIn(s, S) PROVE OneIn(Append(s, e), S)
  <2>1. e \notin S
    BY <1>4 DEF Loud
  <2>2. \A i \in 1 .. (Len(s) + 1) : Append(s, e)[i] \in S => i \in 1 .. Len(s) /\ s[i] \in S
    BY <1>1, <1>2, <2>1
  <2> QED
    BY <1>1, <1>4, <2>2 DEF OneIn
<1>5. ASSUME Before(s, Statuses, Cards) PROVE Before(Append(s, e), Statuses, Cards)
  <2>1. e \notin Statuses /\ e \notin Cards
    BY DEF Statuses, Cards, LoudKinds
  <2>2. \A i \in 1 .. (Len(s) + 1) :
          Append(s, e)[i] \in Statuses \cup Cards => i \in 1 .. Len(s) /\ Append(s, e)[i] = s[i]
    BY <1>1, <1>2, <2>1
  <2> QED
    BY <1>1, <1>5, <2>2 DEF Before
<1> QED
  BY <1>1, <1>3, <1>4, <1>5 DEF Calmer

(* ... calmer without what was meant for a deleted object, ...             *)
LEMMA WithoutIsCalmer ==
    ASSUME NEW s \in Seq(Signals), NEW k, NEW o
    PROVE  Calmer(Without(s, k, o), s)
<1>1. {i \in 1 .. Len(s) : ~Refers(s[i], k, o)} \subseteq 1 .. Len(s)
  OBVIOUS
<1> QED
  BY <1>1, PartIsLeft, LeftIsCalmer DEF Without

(* ... without the signal that is delivered, ...                           *)
LEMMA RemovedIsCalmer ==
    ASSUME NEW s \in Seq(Signals), NEW n \in 1 .. Len(s)
    PROVE  Calmer(RemoveAt(s, n), s)
BY RemovedAt, LeftIsCalmer

(* ... and as calm with the deferred deletes of disposed dialogs.          *)
LEMMA DisposedIsCalmer ==
    ASSUME NEW q \in Seq(Signals), NEW level \in 0 .. MaxDepth, DialogTypes
    PROVE  Calmer(DisposedQueue(q, level), q)
<1>1. CASE window = None
  BY <1>1, CalmerSelf DEF DisposedQueue
<1>2. CASE window # None
  <2> DEFINE e == DeleteLater("deleteWindow", window, level)
  <2>1. e \in Signals
    BY <1>2 DEF DeleteLater, Signals, SignalKinds, WindowSignals, DialogTypes
  <2>2. e.k \notin LoudKinds
    BY DEF DeleteLater, LoudKinds
  <2>3. DisposedQueue(q, level) = Append(q, e)
    BY <1>2 DEF DisposedQueue
  <2> HIDE DEF e
  <2> QED
    BY <2>1, <2>2, <2>3, AppendIsCalmer
<1> QED
  BY <1>1, <1>2

(* What the loud signals in a calmer queue are.                            *)
LEMMA CalmerQueue ==
    ASSUME Inv, Inv', Calmer(queue', queue), Turns
    PROVE  /\ \A e \in Posted' : e.k \in LoudKinds => e \in Posted
           /\ Before(queue', Statuses, Cards)
           /\ OneIn(queue', Acting)
           /\ MaxCardMoves # 0 => OneIn(queue', Watches)
<1>1. Acting \subseteq Loud /\ Watches \subseteq Loud
  BY DEF Acting, Acts, Prompting, Trying, Watches, Watch, Loud, LoudKinds
<1> QED
  BY <1>1 DEF Calmer, Posted, Turns, OneTurn, OneWatch, StatusIsOver

-----------------------------------------------------------------------------
(* A step that gives nobody the turn.                                      *)
QuietThreads ==
    /\ \A t \in Threads : Running(t)' => Running(t) /\ kind'[t] = kind[t]
    /\ \A t \in Threads : Running(t)' /\ t \in interrupted => t \in interrupted'
    /\ \A t \in Threads : kind'[t] = "confirm" /\ st'[t] = "ready" =>
          kind[t] = "confirm" /\ st[t] = "ready" /\ dialog'[t] = dialog[t]
    /\ \A t \in Threads : kind'[t] = "monitor" /\ st'[t] = "waiting" =>
          card \/ (kind[t] = "monitor" /\ st[t] = "waiting")
    /\ \A t \in interrupted' : st'[t] # "free"
    /\ \A t \in Threads : st'[t] = "done" => st[t] = "done" /\ kind'[t] = kind[t]

(* No dialog is shown in place of another, asks for something it did not   *)
(* ask for, or forgets a PIN that is on its way; nothing is connected.     *)
QuietDialogs ==
    /\ window' = window \/ window' = None
    /\ window' # None =>
          /\ page'[window] = page[window] \/ page'[window] \in {"wait", "alert", "blocked"}
          /\ right[window] => right'[window] \/ \E e \in Posted : e.k = "statusUpdate"
          /\ toController' = toController
    /\ \A w \in Windows : page'[w] = "pinpad" => page[w] = "pinpad"
    /\ \A w \in live' : pin'[w] = pin[w]
    /\ Len(toWindow') <= Len(toWindow)
    /\ toWindow = <<>> => toWindow' = <<>>
    /\ toThreads' \subseteq toThreads

(* The command and its mode stay, and the card where the cards do not      *)
(* move.                                                                   *)
QuietMain ==
    /\ pc' = "start" => pc = "start"
    /\ cmd' = cmd /\ mode' = mode
    /\ MaxCardMoves = 0 => card' = card

(* A watch stays, if the dialog stays that it is for.                      *)
StillWatched ==
    window' # None => (WatchThread \/ WatchSignal => WatchThread' \/ WatchSignal')

(* All of these.                                                           *)
Quiet ==
    /\ Calmer(queue', queue)
    /\ QuietThreads
    /\ QuietDialogs
    /\ QuietMain
    /\ StillWatched

(* Nobody has the turn, and no monitor is left, when Controller is about   *)
(* to start again.                                                         *)
NobodyIsNext ==
    /\ ~ThreadTurn /\ ~SignalTurn'
    /\ MaxCardMoves # 0 => ~WatchThread /\ ~WatchSignal'

(* A quiet step keeps the turns.                                           *)
LEMMA QuietTurns ==
    ASSUME Inv, Inv', Turns, Quiet, cont' = "restart" => cont = "restart" \/ NobodyIsNext
    PROVE  Turns'
<1>1. /\ Calmer(queue', queue) /\ QuietThreads /\ QuietDialogs /\ QuietMain /\ StillWatched
      /\ OneTurn /\ Wiring /\ SteadyCard /\ OneWatch /\ Monitored /\ StatusIsOver
      /\ PinForEveryConfirm
  BY DEF Quiet, Turns
<1>2. /\ \A e \in Posted' : e.k \in LoudKinds => e \in Posted
      /\ Before(queue', Statuses, Cards)
      /\ OneIn(queue', Acting)
      /\ MaxCardMoves # 0 => OneIn(queue', Watches)
  BY <1>1, CalmerQueue
<1>3. /\ queue' \in Seq(Signals) /\ window \in Windows \cup {None} /\ None \notin Windows
  <2>1. DialogTypes
    BY DEF Inv, TypeOK
  <2>2. None \notin Windows
    BY <2>1, NoneIsNoObject
  <2> QED
    BY <2>1, <2>2 DEF Inv, TypeOK, MainTypes, DialogTypes
<1>4. \A e \in Posted' : (Acts(e)' => e \in Posted /\ Acts(e)) /\ (Prompting(e)' => Prompting(e) /\ e \in Posted)
                        /\ (Trying(e)' => Trying(e) /\ e \in Posted)
  BY <1>1, <1>2 DEF Acts, Prompting, Trying, QuietDialogs, LoudKinds
<1>5. \A t \in Threads : (Works(t)' => Works(t)) /\ (Watching(t)' => Watching(t)) /\ (Waits(t)' => Waits(t))
                        /\ (Reads(t)' => Reads(t))
  BY <1>1 DEF QuietThreads, Works, Watching, Waits, Reads
<1>6. (Asked' => Asked) /\ (Offered' => Offered)
  BY <1>1, <1>3 DEF QuietDialogs, Asked, Offered
<1>7. (ThreadTurn' => ThreadTurn) /\ (SignalTurn' => SignalTurn) /\ (UserTurn' => UserTurn)
  BY <1>4, <1>5, <1>6 DEF ThreadTurn, SignalTurn, UserTurn
<1>8. OneTurn'
  <2>1. OneIn(queue', Acting')
    <3>1. \A i \in 1 .. Len(queue') : queue'[i] \in Posted'
      BY <1>3, RangeMember DEF Posted
    <3>2. \A i \in 1 .. Len(queue') : queue'[i] \in Acting' => queue'[i] \in Acting
      BY <1>4, <3>1 DEF Acting
    <3> QED
      BY <1>2, <3>2 DEF OneIn
  <2>2. \A t, u \in Threads : Works(t)' /\ Works(u)' => t = u
    BY <1>1, <1>5 DEF OneTurn
  <2>3. cont' = "restart" => ~ThreadTurn' /\ ~SignalTurn'
    BY <1>1, <1>7 DEF OneTurn, NobodyIsNext
  <2> QED
    BY <1>1, <1>7, <2>1, <2>2, <2>3 DEF OneTurn
<1>9. Wiring'
  <2>1. CardSignal' => CardSignal
    BY <1>2 DEF CardSignal, LoudKinds
  <2>2. Len(toWindow') <= 1
    <3>1. toWindow \in Seq(Windows) /\ toWindow' \in Seq(Windows)
      BY DEF Inv, TypeOK, DialogTypes
    <3> QED
      BY <1>1, <3>1 DEF QuietDialogs, Wiring
  <2>3. \A t, u \in toThreads' : t = u
    BY <1>1 DEF QuietDialogs, Wiring
  <2>4. (\E t \in Threads : Waits(t)') \/ CardSignal' \/ pc' = "start" => toWindow' = <<>> /\ toThreads' = {}
    BY <1>1, <1>5, <2>1 DEF QuietDialogs, QuietMain, Wiring
  <2>5. window' # None => toController'
    BY <1>1 DEF QuietDialogs, Wiring
  <2> QED
    BY <1>1, <2>2, <2>3, <2>4, <2>5 DEF Wiring, QuietThreads
<1>10. SteadyCard'
  <2> SUFFICES ASSUME MaxCardMoves = 0
               PROVE  /\ \A e \in Posted' : e.k # "cardEvent"
                      /\ \A t \in Threads : kind'[t] = "monitor" /\ st'[t] = "waiting" => card'
    BY DEF SteadyCard
  <2>1. \A e \in Posted' : e.k # "cardEvent"
    BY <1>1, <1>2 DEF SteadyCard, LoudKinds
  <2>2. \A t \in Threads : kind'[t] = "monitor" /\ st'[t] = "waiting" => card'
    BY <1>1 DEF SteadyCard, QuietThreads, QuietMain
  <2> QED
    BY <2>1, <2>2
<1>11. OneWatch'
  <2> SUFFICES ASSUME MaxCardMoves # 0
               PROVE  /\ \A w \in Windows : page'[w] # "pinpad"
                      /\ \A t, u \in Threads : Watching(t)' /\ Watching(u)' => t = u
                      /\ OneIn(queue', Watches')
                      /\ ~(WatchThread' /\ WatchSignal')
                      /\ ThreadTurn' \/ (\E e \in Posted' : Trying(e)') \/ Offered' \/ cont' = "restart"
                            => ~WatchThread' /\ ~WatchSignal'
    BY DEF OneWatch
  <2>1. (WatchThread' => WatchThread) /\ (WatchSignal' => WatchSignal)
    BY <1>2, <1>5 DEF WatchThread, WatchSignal, Watch, LoudKinds
  <2>2. OneIn(queue', Watches')
    BY <1>2 DEF Watches, Watch
  <2>3. \A w \in Windows : page'[w] # "pinpad"
    BY <1>1 DEF OneWatch, QuietDialogs
  <2>4. (\E e \in Posted' : Trying(e)') => \E e \in Posted : Trying(e)
    BY <1>4
  <2>5. cont' = "restart" => ~WatchThread' /\ ~WatchSignal'
    BY <1>1, <2>1 DEF OneWatch, NobodyIsNext
  <2> QED
    BY <1>1, <1>5, <1>6, <1>7, <2>1, <2>2, <2>3, <2>4, <2>5 DEF OneWatch
<1>12. Monitored'
  <2>1. Asked' \/ (\E e \in Posted' : Prompting(e)') => window' # None
    BY DEF Asked, Prompting
  <2> QED
    BY <1>1, <1>4, <1>6, <2>1 DEF Monitored, StillWatched
<1>13. StatusIsOver'
  <2> SUFFICES ASSUME (\E t \in Threads : Reads(t)') \/ (\E e \in Posted' : e.k = "certificateReady" /\ e.o = window')
               PROVE  /\ \A e \in Posted' : e.k # "statusUpdate"
                      /\ window' # None => right'[window']
    BY <1>2 DEF StatusIsOver, Statuses, Cards
  <2>1. window' = None => \A e \in Posted' : e.k = "certificateReady" => e.o # window'
    <3>1. \A e \in Posted' : e.k = "certificateReady" => e.o \in live'
      BY DEF Inv, SignalsAreAddressed, Addressed, WindowSignals
    <3>2. None \notin live'
      <4>1. live' \subseteq Windows
        BY DEF Inv, TypeOK, DialogTypes
      <4> QED
        BY <1>3, <4>1
    <3> QED
      BY <3>1, <3>2
  <2>2. (\E t \in Threads : Reads(t)) \/ (\E e \in Posted : e.k = "certificateReady" /\ e.o = window)
    BY <1>1, <1>2, <1>5, <2>1 DEF QuietDialogs, LoudKinds
  <2>3. /\ \A e \in Posted : e.k # "statusUpdate"
        /\ window # None => right[window]
    BY <1>1, <2>2 DEF StatusIsOver
  <2> QED
    BY <1>1, <1>2, <2>3 DEF QuietDialogs, LoudKinds
<1>14. PinForEveryConfirm'
  <2> SUFFICES ASSUME NEW t \in Threads, kind'[t] = "confirm", st'[t] = "ready", NeedsPin'
               PROVE  pin'[dialog'[t]]
    BY DEF PinForEveryConfirm
  <2>1. kind[t] = "confirm" /\ st[t] = "ready" /\ dialog'[t] = dialog[t] /\ NeedsPin
    BY <1>1 DEF QuietThreads, QuietMain, NeedsPin
  <2>2. dialog'[t] \in live'
    BY DEF Inv, ConfirmHasDialog
  <2> QED
    BY <1>1, <2>1, <2>2 DEF PinForEveryConfirm, QuietDialogs
<1> QED
  BY <1>8, <1>9, <1>10, <1>11, <1>12, <1>13, <1>14 DEF Turns

-----------------------------------------------------------------------------
(* The threads are left as they are, but for those that are interrupted.   *)
LEMMA SameThreadsQuiet ==
    ASSUME Inv, Turns, UNCHANGED <<kind, st, dialog>>, interrupted \subseteq interrupted',
           \A t \in interrupted' \ interrupted : st[t] # "free"
    PROVE  QuietThreads
BY DEF QuietThreads, Running, Turns, Wiring

(* emit stopCardEventMonitorThread.                                        *)
LEMMA StoppedQuiet ==
    ASSUME Inv, Turns, UNCHANGED <<kind, st, dialog>>, interrupted' = StoppedPollers
    PROVE  QuietThreads
<1>1. interrupted \subseteq interrupted' /\ \A t \in interrupted' \ interrupted : st[t] # "free"
  BY DEF StoppedPollers, Running
<1> QED
  BY <1>1, SameThreadsQuiet

(* A step that only forgets the dialog is quiet for the dialogs.           *)
LEMMA SameDialogsQuiet ==
    ASSUME Inv, Turns, window' = window \/ window' = None,
           UNCHANGED <<live, page, right, choice, pin, toWindow, toController, toThreads>>
    PROVE  QuietDialogs
<1>1. toWindow \in Seq(Windows)
  BY DEF Inv, TypeOK, DialogTypes
<1>2. Len(toWindow) \in Nat
  BY <1>1
<1>3. Len(toWindow') <= Len(toWindow)
  BY <1>2
<1> QED
  BY <1>3 DEF QuietDialogs

(* Disposing of dialogs posts nothing loud.                                *)
LEMMA DisposeCalms ==
    ASSUME Inv, NEW q, Calmer(q, queue), NEW level \in 0 .. MaxDepth
    PROVE  Calmer(DisposedQueue(q, level), queue)
<1>1. DialogTypes /\ q \in Seq(Signals)
  BY DEF Inv, TypeOK, Calmer
<1>2. Calmer(DisposedQueue(q, level), q)
  BY <1>1, DisposedIsCalmer
<1> QED
  BY <1>2, CalmerTwice

(* Controller::exit gives nobody the turn.                                 *)
LEMMA FinishQuiet ==
    ASSUME Inv, Turns, NEW q, Calmer(q, queue), Finish(q)
    PROVE  Quiet /\ cont' # "restart"
<1>1. /\ queue' = DisposedQueue(q, depth) /\ window' = None /\ pc' = "join" /\ cont' = "exit"
      /\ UNCHANGED <<live, page, right, choice, pin, toWindow, toController, toThreads>>
      /\ UNCHANGED <<kind, st, dialog, interrupted, cmd, mode, card>>
  BY DEF Finish, DisposeUI, BeginJoin, threadVars, handlerVars, envVars
<1>2. depth \in 0 .. MaxDepth
  BY DEF Inv, TypeOK, MainTypes
<1>3. Calmer(queue', queue)
  BY <1>1, <1>2, DisposeCalms
<1>4. QuietThreads /\ QuietDialogs
  BY <1>1, SameThreadsQuiet, SameDialogsQuiet
<1> QED
  BY <1>1, <1>3, <1>4 DEF Quiet, QuietMain, StillWatched

(* Controller::onCriticalFailure gives nobody the turn.                    *)
LEMMA CriticalFailureQuiet ==
    ASSUME Inv, Turns, NEW q, Calmer(q, queue), OnCriticalFailure(q)
    PROVE  Quiet /\ cont' = cont
<1>1. /\ queue' = DisposedQueue(q, depth) /\ window' = None /\ pc' = "loop" /\ cont' = cont
      /\ UNCHANGED <<live, page, right, choice, pin, toWindow, toController, toThreads>>
      /\ UNCHANGED <<kind, st, dialog, cmd, mode, card>> /\ interrupted' = StoppedPollers
  BY DEF OnCriticalFailure, DisposeUI, handlerVars, envVars
<1>2. depth \in 0 .. MaxDepth
  BY DEF Inv, TypeOK, MainTypes
<1>3. Calmer(queue', queue)
  BY <1>1, <1>2, DisposeCalms
<1>4. QuietThreads /\ QuietDialogs
  BY <1>1, StoppedQuiet, SameDialogsQuiet
<1> QED
  BY <1>1, <1>3, <1>4 DEF Quiet, QuietMain, StillWatched

(* A fatal error that is reported gives nobody the turn.                   *)
LEMMA FatalErrorQuiet ==
    ASSUME Inv, Turns, depth > 0, ReportFatalError
    PROVE  Quiet /\ cont' # "restart"
<1>1. /\ queue' = DisposedQueue(queue, depth - 1) /\ window' = None /\ pc' = "join" /\ cont' = "exit"
      /\ UNCHANGED <<live, page, right, choice, pin, toWindow, toController, toThreads>>
      /\ UNCHANGED <<kind, st, dialog, interrupted, cmd, mode, card>>
  BY DEF ReportFatalError, handlerVars, envVars, threadVars
<1>2. depth - 1 \in 0 .. MaxDepth /\ queue \in Seq(Signals)
  <2>1. MainTypes
    BY DEF Inv, TypeOK
  <2>2. depth \in Nat /\ depth <= MaxDepth /\ MaxDepth \in Nat
    BY <2>1, DepthType
  <2>3. depth - 1 \in 0 .. MaxDepth
    BY <2>2
  <2> QED
    BY <2>1, <2>3 DEF MainTypes
<1>3. Calmer(queue', queue)
  BY <1>1, <1>2, DisposeCalms, CalmerSelf
<1>4. QuietThreads /\ QuietDialogs
  BY <1>1, SameThreadsQuiet, SameDialogsQuiet
<1> QED
  BY <1>1, <1>3, <1>4 DEF Quiet, QuietMain, StillWatched

(* The signals that the cards are monitored for are still there.           *)
WatchLeft(q) == \A e \in Posted : Watch(e) => e \in Range(q)

(* The watch stays when its threads and signals do.                        *)
LEMMA SameWatch ==
    ASSUME UNCHANGED <<kind, st, interrupted>>, WatchLeft(queue')
    PROVE  StillWatched
<1>1. WatchThread => WatchThread'
  BY DEF WatchThread, Watching, Running
<1>2. WatchSignal => WatchSignal'
  BY DEF WatchSignal, WatchLeft, Watch, Posted
<1> QED
  BY <1>1, <1>2 DEF StillWatched

(* A signal without a receiver gives nobody the turn.                      *)
LEMMA IgnoredQuiet ==
    ASSUME Inv, Turns, NEW q, Calmer(q, queue), WatchLeft(q), Ignored(q)
    PROVE  Quiet /\ cont' = cont
<1>1. /\ queue' = q /\ pc' = pc /\ cont' = cont /\ window' = window
      /\ UNCHANGED <<live, page, right, choice, pin, toWindow, toController, toThreads>>
      /\ UNCHANGED <<kind, st, dialog, interrupted, cmd, mode, card>>
  BY DEF Ignored, handlerVars, envVars, threadVars, windowVars, mainVars
<1>2. QuietThreads /\ QuietDialogs
  BY <1>1, SameThreadsQuiet, SameDialogsQuiet
<1>3. StillWatched
  BY <1>1, SameWatch
<1> QED
  BY <1>1, <1>2, <1>3 DEF Quiet, QuietMain

(* Only the main thread's own state and the queue.                         *)
LEMMA MainQuiet ==
    ASSUME Inv, Turns, Calmer(queue', queue), WatchLeft(queue'), pc' # "start",
           UNCHANGED <<windowVars, threadVars, handlerVars, envVars>>
    PROVE  Quiet
<1>1. /\ window' = window
      /\ UNCHANGED <<live, page, right, choice, pin, toWindow, toController, toThreads>>
      /\ UNCHANGED <<kind, st, dialog, interrupted, cmd, mode, card>>
  BY DEF handlerVars, envVars, threadVars, windowVars
<1>2. QuietThreads /\ QuietDialogs
  BY <1>1, SameThreadsQuiet, SameDialogsQuiet
<1>3. StillWatched
  BY <1>1, SameWatch
<1> QED
  BY <1>1, <1>2, <1>3 DEF Quiet, QuietMain

(* What is taken out of the queue for a deleted object.                    *)
LEMMA WithoutCalms ==
    ASSUME NEW q, Calmer(q, queue), NEW k, NEW o
    PROVE  Calmer(Without(q, k, o), queue)
BY WithoutIsCalmer, CalmerTwice DEF Calmer

(* The signals of a deleted dialog or thread are not for the watch.        *)
LEMMA WithoutWatch ==
    ASSUME NEW q \in Seq(Signals), NEW o, WatchLeft(q)
    PROVE  WatchLeft(Without(q, WindowSignals, o)) /\ WatchLeft(Without(q, ThreadSignals, o))
<1>1. \A k : Range(Without(q, k, o)) = {e \in Range(q) : ~Refers(e, k, o)}
  BY WithoutRange
<1> QED
  BY <1>1 DEF WatchLeft, Watch, Refers, WindowSignals, ThreadSignals

(* The deferred delete of a dialog gives nobody the turn.                  *)
LEMMA DeleteWindowQuiet ==
    ASSUME Inv, Inv', Turns, NEW q, Calmer(q, queue), WatchLeft(q), NEW w \in live, w # window,
           DeleteWindow(w, q), pc # "start"
    PROVE  Quiet /\ cont' = cont
<1>1. /\ queue' = Without(q, WindowSignals, w) /\ pc' = pc /\ cont' = cont
      /\ page' = [page EXCEPT ![w] = ""] /\ right' = [right EXCEPT ![w] = TRUE]
      /\ pin' = [pin EXCEPT ![w] = FALSE] /\ live' = live \ {w}
      /\ UNCHANGED <<kind, st, dialog, interrupted, cmd, mode, card, window, toController, toThreads>>
  BY DEF DeleteWindow, envVars, threadVars, mainVars
<1>2. DialogTypes /\ w \in Windows /\ toWindow \in Seq(Windows)
  BY DEF Inv, TypeOK, DialogTypes
<1>3. Calmer(queue', queue) /\ WatchLeft(queue')
  BY <1>1, WithoutCalms, WithoutWatch DEF Calmer
<1>4. Len(toWindow') <= Len(toWindow)
  <2>1. {i \in 1 .. Len(toWindow) : toWindow[i] # w} \subseteq 1 .. Len(toWindow)
    OBVIOUS
  <2>2. toWindow' = Part(toWindow, {i \in 1 .. Len(toWindow) : toWindow[i] # w})
    BY DEF DeleteWindow
  <2> QED
    BY <1>2, <2>1, <2>2, PartIsShorter
<1>5. toWindow = <<>> => toWindow' = <<>>
  <2>1. toWindow' \in Seq(Windows) /\ Len(toWindow') \in Nat
    BY DEF Inv, TypeOK, DialogTypes
  <2> QED
    BY <1>4, <2>1
<1>6. QuietDialogs
  BY <1>1, <1>2, <1>4, <1>5 DEF QuietDialogs, DialogTypes
<1>7. QuietThreads /\ StillWatched
  BY <1>1, <1>3, SameThreadsQuiet, SameWatch
<1> QED
  BY <1>1, <1>3, <1>6, <1>7 DEF Quiet, QuietMain

(* A thread object is gone.                                                *)
LEMMA FreeThreadQuiet ==
    ASSUME Inv, Inv', Turns, NEW t \in Threads, FreeThread(t)
    PROVE  QuietThreads
<1>1. /\ kind' = [kind EXCEPT ![t] = ""] /\ st' = [st EXCEPT ![t] = "free"]
      /\ interrupted' = interrupted \ {t} /\ dialog' = [dialog EXCEPT ![t] = None]
  BY DEF FreeThread
<1>2. ThreadTypes
  BY DEF Inv, TypeOK
<1>3. kind'[t] = "" /\ st'[t] = "free" /\ ~Running(t)'
  BY <1>1, <1>2 DEF ThreadTypes, Running
<1>4. \A u \in Threads \ {t} : kind'[u] = kind[u] /\ st'[u] = st[u] /\ dialog'[u] = dialog[u]
                               /\ (Running(u)' <=> Running(u))
  BY <1>1, <1>2 DEF ThreadTypes, Running
<1>5. \A u \in interrupted' : u # t /\ u \in interrupted /\ u \in Threads
  BY <1>1, <1>2 DEF ThreadTypes
<1> QED
  BY <1>1, <1>3, <1>4, <1>5 DEF QuietThreads, Turns, Wiring

(* The end of a thread changes nothing for the dialogs.                    *)
LEMMA FreeThreadDialogsQuiet ==
    ASSUME Inv, Turns, NEW t \in Threads, FreeThread(t), UNCHANGED windowVars
    PROVE  QuietDialogs
<1>1. toThreads' \subseteq toThreads
  BY DEF FreeThread
<1>2. toWindow \in Seq(Windows)
  BY DEF Inv, TypeOK, DialogTypes
<1>3. Len(toWindow) \in Nat
  BY <1>2
<1>4. UNCHANGED <<window, page, right, pin, live, toWindow, toController>>
  BY DEF FreeThread, windowVars
<1>5. Len(toWindow') <= Len(toWindow)
  BY <1>3, <1>4
<1> QED
  BY <1>1, <1>4, <1>5 DEF QuietDialogs

(* The deferred delete of a thread gives nobody the turn.                  *)
LEMMA DeleteThreadQuiet ==
    ASSUME Inv, Inv', Turns, NEW q, Calmer(q, queue), WatchLeft(q), NEW t \in Threads,
           kind[t] = "run", DeleteThread(t, q), pc # "start"
    PROVE  Quiet /\ cont' = cont
<1>1. /\ queue' = Without(q, ThreadSignals, t) /\ FreeThread(t) /\ pc' = pc /\ cont' = cont
      /\ UNCHANGED <<windowVars, cmd, mode, card>>
  BY DEF DeleteThread, envVars, mainVars
<1>2. Calmer(queue', queue) /\ WatchLeft(queue')
  BY <1>1, WithoutCalms, WithoutWatch DEF Calmer
<1>3. QuietThreads /\ QuietDialogs
  BY <1>1, FreeThreadQuiet, FreeThreadDialogsQuiet
<1>4. WatchThread => WatchThread'
  <2>1. ThreadTypes
    BY DEF Inv, TypeOK
  <2>2. \A u \in Threads \ {t} : Watching(u) => Watching(u)'
    BY <1>1, <2>1 DEF FreeThread, ThreadTypes, Watching, Running
  <2>3. ~Watching(t)
    BY DEF Watching
  <2> QED
    BY <2>2, <2>3 DEF WatchThread
<1>5. WatchSignal => WatchSignal'
  BY <1>2 DEF WatchSignal, WatchLeft, Watch, Posted
<1> QED
  BY <1>1, <1>2, <1>3, <1>4, <1>5 DEF Quiet, QuietMain, StillWatched

-----------------------------------------------------------------------------

(* A queue nobody has touched is as calm as it was.                        *)
LEMMA QueueIsCalm ==
    ASSUME Inv
    PROVE  Calmer(queue, queue) /\ WatchLeft(queue)
BY CalmerSelf DEF Inv, TypeOK, MainTypes, WatchLeft, Posted

(* An interruption by waitForChildThreads gives nobody the turn.           *)
LEMMA StopChildQuiet ==
    ASSUME Inv, Inv', Turns, StopChild
    PROVE  Quiet /\ cont' = cont
<1>1. /\ queue' = queue /\ pc = "join" /\ pc' = "join" /\ cont' = cont /\ window' = window
      /\ UNCHANGED <<live, page, right, choice, pin, toWindow, toController, toThreads>>
      /\ UNCHANGED <<kind, st, dialog, cmd, mode, card>>
      /\ interrupted' = IF Running(Head(todo)) THEN interrupted \cup {Head(todo)} ELSE interrupted
  BY DEF StopChild, handlerVars, envVars, windowVars
<1>2. interrupted \subseteq interrupted' /\ \A t \in interrupted' \ interrupted : st[t] # "free"
  BY <1>1 DEF Running
<1>3. QuietThreads /\ QuietDialogs
  BY <1>1, <1>2, SameThreadsQuiet, SameDialogsQuiet
<1>4. window = None
  BY <1>1 DEF Inv, JoinWaitsForAll
<1> QED
  BY <1>1, <1>3, <1>4, QueueIsCalm DEF Quiet, QuietMain, StillWatched

(* The wait for a thread in waitForChildThreads gives nobody the turn.     *)
LEMMA WaitForChildQuiet ==
    ASSUME Inv, Inv', Turns, WaitForChild
    PROVE  Quiet /\ cont' = cont
<1>1. /\ queue' = Without(queue, ThreadSignals, current) /\ pc = "join" /\ pc' = "join" /\ cont' = cont
      /\ FreeThread(current) /\ UNCHANGED <<windowVars, cmd, mode, card>> /\ current # None
  BY DEF WaitForChild, envVars
<1>2. current \in Threads
  BY <1>1 DEF Inv, TypeOK, MainTypes
<1>3. QuietThreads /\ QuietDialogs
  BY <1>1, <1>2, FreeThreadQuiet, FreeThreadDialogsQuiet
<1>4. Calmer(queue', queue)
  BY <1>1, QueueIsCalm, WithoutCalms
<1>5. window' = None
  BY <1>1 DEF Inv, JoinWaitsForAll, windowVars
<1> QED
  BY <1>1, <1>3, <1>4, <1>5 DEF Quiet, QuietMain, StillWatched

(* A signal that is not loud leaves the queue calm.                        *)
LEMMA AppendCalms ==
    ASSUME Inv, NEW q, Calmer(q, queue), WatchLeft(q), NEW e \in Signals, e.k \notin LoudKinds
    PROVE  Calmer(Append(q, e), queue) /\ WatchLeft(Append(q, e))
<1>1. q \in Seq(Signals)
  BY DEF Calmer
<1>2. Calmer(Append(q, e), q)
  BY <1>1, AppendIsCalmer
<1>3. Range(Append(q, e)) = Range(q) \cup {e}
  BY <1>1, RangeOfAppend
<1> QED
  BY <1>2, <1>3, CalmerTwice DEF WatchLeft

(* quit is not loud.                                                       *)
LEMMA QuitSignal == Sig("quit", None) \in Signals /\ Sig("quit", None).k \notin LoudKinds
<1>1. 0 \in 0 .. MaxDepth
  BY Bounds
<1> QED
  BY <1>1 DEF Sig, Signals, SignalKinds, LoudKinds

(* The request to quit the event loop gives nobody the turn.               *)
LEMMA EmitFinishedQuiet ==
    ASSUME Inv, Inv', Turns, EmitFinished
    PROVE  Quiet /\ cont' # "restart"
<1>1. /\ queue' = queue \/ queue' = Append(queue, Sig("quit", None))
      /\ pc' # "start" /\ cont' = ""
      /\ UNCHANGED <<windowVars, threadVars, handlerVars, envVars>>
  BY DEF EmitFinished
<1>2. Calmer(queue', queue) /\ WatchLeft(queue')
  BY <1>1, QueueIsCalm, QuitSignal, AppendCalms
<1> QED
  BY <1>1, <1>2, MainQuiet

(* The return from a nested event loop gives nobody the turn.              *)
LEMMA UnwindQuiet ==
    ASSUME Inv, Inv', Turns, Unwind
    PROVE  Quiet /\ (cont' = cont \/ cont' # "restart")
<1>1. CASE depth > 0 /\ ReportFatalError
  BY <1>1, FatalErrorQuiet
<1>2. CASE /\ pc' = "exited"
           /\ UNCHANGED <<envVars, cont, depth, quitting, joinVars, responses, queue,
                          threadVars, windowVars, handlerVars>>
  <2>1. Calmer(queue', queue) /\ WatchLeft(queue')
    BY <1>2, QueueIsCalm
  <2> QED
    BY <1>2, <2>1, MainQuiet
<1> QED
  BY <1>1, <1>2 DEF Unwind

(* Closing the about page gives nobody the turn.                           *)
LEMMA CloseAboutPageQuiet ==
    ASSUME Inv, Inv', Turns, CloseAboutPage
    PROVE  Quiet /\ cont' = cont
<1>1. /\ queue = <<>> /\ queue' = <<Sig("quit", None)>> /\ pc = "loop"
      /\ UNCHANGED <<envVars, mainVars, threadVars, windowVars, handlerVars>>
  BY DEF CloseAboutPage, UserMay
<1>2. queue' = Append(queue, Sig("quit", None))
  BY <1>1
<1>3. Calmer(queue', queue) /\ WatchLeft(queue')
  BY <1>2, QueueIsCalm, QuitSignal, AppendCalms
<1>4. pc' # "start" /\ cont' = cont
  BY <1>1 DEF mainVars
<1> QED
  BY <1>1, <1>3, <1>4, MainQuiet

(* The card moves, or nothing happens.                                     *)
LEMMA SameQuiet ==
    ASSUME Inv, Inv', Turns, MaxCardMoves = 0 => card' = card,
           UNCHANGED <<cmd, mode, mainVars, queue, threadVars, windowVars, handlerVars>>
    PROVE  Quiet /\ cont' = cont
<1>1. /\ queue' = queue /\ window' = window
      /\ UNCHANGED <<live, page, right, choice, pin, toWindow, toController, toThreads>>
      /\ UNCHANGED <<kind, st, dialog, interrupted, cmd, mode, pc, cont>>
  BY DEF handlerVars, threadVars, windowVars, mainVars
<1>2. QuietThreads /\ QuietDialogs
  BY <1>1, SameThreadsQuiet, SameDialogsQuiet
<1>3. Calmer(queue', queue) /\ WatchLeft(queue')
  BY <1>1, QueueIsCalm
<1>4. StillWatched
  BY <1>1, <1>3, SameWatch
<1> QED
  BY <1>1, <1>2, <1>3, <1>4 DEF Quiet, QuietMain

(* A card that moves gives nobody the turn.                                *)
LEMMA ChangeCardQuiet ==
    ASSUME Inv, Inv', Turns, ChangeCard
    PROVE  Quiet /\ cont' = cont
<1>1. moves \in 0 .. MaxCardMoves /\ moves < MaxCardMoves
  BY DEF Inv, TypeOK, EnvTypes, ChangeCard
<1>2. MaxCardMoves # 0
  BY <1>1
<1> QED
  BY <1>2, SameQuiet DEF ChangeCard

(* A step in which nothing happens gives nobody the turn.                  *)
LEMMA StutterQuiet ==
    ASSUME Inv, Inv', Turns, UNCHANGED vars
    PROVE  Quiet /\ cont' = cont
<1>1. UNCHANGED <<cmd, mode, card, mainVars, queue, threadVars, windowVars, handlerVars>>
  BY DEF vars, envVars
<1> QED
  BY <1>1, SameQuiet

(* A page on which the user has nothing to choose.                         *)
LEMMA DullPageQuiet ==
    ASSUME Inv, Inv', Turns, NEW q, Calmer(q, queue), WatchLeft(q), NEW w, w = window, w # None,
           NEW p \in {"wait", "alert", "blocked"}, page' = [page EXCEPT ![w] = p],
           queue' = q, pc # "start",
           right' = right \/ (right' = [right EXCEPT ![w] = FALSE] /\ \E e \in Posted : e.k = "statusUpdate"),
           UNCHANGED <<window, live, choice, pin, threadVars, handlerVars, mainVars, envVars>>
    PROVE  Quiet /\ cont' = cont
<1>1. /\ UNCHANGED <<window, live, pin, toWindow, toController, toThreads>>
      /\ UNCHANGED <<kind, st, dialog, interrupted, cmd, mode, card, pc, cont>>
  BY DEF handlerVars, threadVars, mainVars, envVars
<1>2. page \in [Windows -> Pages] /\ right \in [Windows -> BOOLEAN] /\ window \in Windows
      /\ toWindow \in Seq(Windows)
  BY DEF Inv, TypeOK, DialogTypes
<1>3. Len(toWindow) \in Nat
  BY <1>2
<1>4. Len(toWindow') <= Len(toWindow)
  BY <1>1, <1>3
<1>5. /\ page'[window] = p /\ \A v \in Windows : page'[v] = "pinpad" => page[v] = "pinpad"
  BY <1>2
<1>6. QuietDialogs
  BY <1>1, <1>2, <1>4, <1>5 DEF QuietDialogs
<1>7. QuietThreads /\ StillWatched
  BY <1>1, SameThreadsQuiet, SameWatch
<1> QED
  BY <1>1, <1>6, <1>7 DEF Quiet, QuietMain

(* WebEidUI::onSmartCardStatusUpdate gives nobody the turn.                *)
LEMMA StatusUpdateQuiet ==
    ASSUME Inv, Inv', Turns, NEW q, Calmer(q, queue), WatchLeft(q), pc # "start",
           \E e \in Posted : e.k = "statusUpdate", OnSmartCardStatusUpdate(q)
    PROVE  Quiet /\ cont' = cont
<1>1. CASE window = None /\ Ignored(q)
  BY <1>1, IgnoredQuiet
<1>2. CASE /\ window # None
           /\ ShowPage(window, "alert")
           /\ right' = [right EXCEPT ![window] = FALSE]
           /\ queue' = q
           /\ UNCHANGED <<window, live, choice, pin, threadVars, handlerVars, mainVars, envVars>>
  BY <1>2, DullPageQuiet DEF ShowPage
<1> QED
  BY <1>1, <1>2 DEF OnSmartCardStatusUpdate

(* Controller::onRetry keeps the turns: the next attempt is nobody's       *)
(* before startCommandExecution.                                           *)
LEMMA RetryTurns ==
    ASSUME Inv, Inv', Turns, NEW q, Calmer(q, queue), OnRetry(q), ~ThreadTurn,
           \A e \in Range(q) : ~Trying(e),
           MaxCardMoves # 0 => ~WatchThread /\ \A e \in Range(q) : ~Watch(e)
    PROVE  Turns'
<1>1. /\ queue' = DisposedQueue(q, depth) /\ window' = None /\ pc' = "join" /\ cont' = "restart"
      /\ toWindow' = <<>> /\ toController' = FALSE /\ toThreads' = {}
      /\ UNCHANGED <<live, page, right, choice, pin>>
      /\ UNCHANGED <<kind, st, dialog, interrupted, cmd, mode, card>>
  BY DEF OnRetry, DisposeUI, BeginJoin, threadVars, envVars
<1>2. depth \in 0 .. MaxDepth /\ DialogTypes /\ q \in Seq(Signals)
  BY DEF Inv, TypeOK, MainTypes, Calmer
<1>3. Calmer(queue', queue)
  BY <1>1, <1>2, DisposeCalms
<1>4. QuietThreads
  BY <1>1, SameThreadsQuiet
<1>5. QuietDialogs
  <2>1. toWindow \in Seq(Windows)
    BY DEF Inv, TypeOK, DialogTypes
  <2>2. Len(toWindow') <= Len(toWindow)
    BY <1>1, <2>1
  <2> QED
    BY <1>1, <2>2 DEF QuietDialogs
<1>6. Calmer(queue', q)
  BY <1>1, <1>2, DisposedIsCalmer
<1>7. \A e \in Posted' : e.k \in LoudKinds => e \in Range(q)
  BY <1>6 DEF Calmer, Posted
<1>8. ~SignalTurn'
  BY <1>1, <1>7 DEF SignalTurn, Acts, Prompting, Trying, LoudKinds
<1>9. MaxCardMoves # 0 => ~WatchThread /\ ~WatchSignal'
  BY <1>7 DEF WatchSignal, Watch, LoudKinds
<1>10. Quiet
  BY <1>1, <1>3, <1>4, <1>5 DEF Quiet, QuietMain, StillWatched
<1> QED
  BY <1>8, <1>9, <1>10, QuietTurns DEF NobodyIsNext

-----------------------------------------------------------------------------
(* The signal that is delivered was the only one of its kind, and all that *)
(* the waiting thread has said of the readers comes before the cards.      *)
Taken(e, q) ==
    /\ e \in Posted /\ Calmer(q, queue) /\ Posted = Range(q) \cup {e}
    /\ Acts(e) => \A x \in Range(q) : ~Acts(x)
    /\ MaxCardMoves # 0 /\ Watch(e) => \A x \in Range(q) : ~Watch(x)
    /\ e.k = "cardsAvailable" => \A x \in Range(q) : x.k # "statusUpdate"

(* The event loop takes such a signal.                                     *)
LEMMA TakenSignal ==
    ASSUME Inv, Turns, ~Idle
    PROVE  Taken(queue[NextSignal], RemoveAt(queue, NextSignal))
<1> DEFINE n == NextSignal
<1>1. queue \in Seq(Signals)
  BY DEF Inv, TypeOK, MainTypes
<1>2. /\ n \in 1 .. Len(queue) /\ queue[n] \in Posted
      /\ \A i \in 1 .. Len(queue) : Deliverable(queue[i]) => n <= i
  BY <1>1, Delivery
<1> HIDE DEF n
<1>3. /\ Posted = Range(RemoveAt(queue, n)) \cup {queue[n]}
      /\ \A e \in Range(RemoveAt(queue, n)) : \E i \in 1 .. Len(queue) : i # n /\ queue[i] = e
      /\ Calmer(RemoveAt(queue, n), queue)
  BY <1>1, <1>2, RemovedAt, RemovedIsCalmer DEF Posted
<1>4. \A i \in 1 .. Len(queue) : queue[i] \in Signals
  BY <1>1
<1>5. ASSUME Acts(queue[n]), NEW x \in Range(RemoveAt(queue, n)) PROVE ~Acts(x)
  <2>1. PICK i \in 1 .. Len(queue) : i # n /\ queue[i] = x
    BY <1>3
  <2> QED
    BY <1>2, <1>4, <1>5, <2>1 DEF Turns, OneTurn, OneIn, Acting
<1>6. ASSUME MaxCardMoves # 0, Watch(queue[n]), NEW x \in Range(RemoveAt(queue, n)) PROVE ~Watch(x)
  <2>1. PICK i \in 1 .. Len(queue) : i # n /\ queue[i] = x
    BY <1>3
  <2> QED
    BY <1>2, <1>4, <1>6, <2>1 DEF Turns, OneWatch, OneIn, Watches
<1>7. ASSUME queue[n].k = "cardsAvailable", NEW x \in Range(RemoveAt(queue, n)), x.k = "statusUpdate"
      PROVE  FALSE
  <2>1. PICK i \in 1 .. Len(queue) : i # n /\ queue[i] = x
    BY <1>3
  <2>2. i < n
    BY <1>2, <1>4, <1>7, <2>1 DEF Turns, StatusIsOver, Before, Statuses, Cards
  <2>3. n <= i
    BY <1>2, <1>7, <2>1 DEF Deliverable
  <2>4. n \in Nat /\ i \in Nat
    BY <1>2
  <2> QED
    BY <2>2, <2>3, <2>4
<1> QED
  BY <1>2, <1>3, <1>5, <1>6, <1>7 DEF Taken, n

(* The signals that are left: nobody else's turn.                          *)
LEMMA NothingActsIn ==
    ASSUME Inv, Turns, NEW q, Calmer(q, queue), \A x \in Range(q) : ~Acts(x), queue' = q,
           window' = window \/ window' = None
    PROVE  /\ ~SignalTurn' /\ OneIn(queue', Acting') /\ ~CardSignal'
           /\ \A e \in Posted' : ~Acts(e)' /\ ~Prompting(e)' /\ ~Trying(e)'
           /\ Before(queue', Statuses, Cards)
           /\ MaxCardMoves # 0 => OneIn(queue', Watches)
           /\ \A e \in Posted' : e.k \in LoudKinds => e \in Posted
<1>1. \A e \in Posted' : ~Acts(e)' /\ ~Prompting(e)' /\ ~Trying(e)'
  BY DEF Posted, Acts, Prompting, Trying
<1>2. ~SignalTurn' /\ ~CardSignal'
  BY <1>1 DEF SignalTurn, CardSignal, Trying
<1>3. queue' \in Seq(Signals)
  BY DEF Calmer
<1>4. \A i \in 1 .. Len(queue') : queue'[i] \notin Acting'
  BY <1>1, <1>3, RangeMember DEF Acting, Posted
<1>5. OneIn(queue', Acting')
  BY <1>4 DEF OneIn
<1>6. Before(queue', Statuses, Cards)
  BY DEF Calmer, Turns, StatusIsOver
<1>7. Watches \subseteq Loud
  BY DEF Watches, Watch, Loud, LoudKinds
<1>8. MaxCardMoves # 0 => OneIn(queue', Watches)
  BY <1>7 DEF Calmer, Turns, OneWatch
<1>9. \A e \in Posted' : e.k \in LoudKinds => e \in Posted
  BY DEF Calmer, Posted
<1> QED
  BY <1>1, <1>2, <1>5, <1>6, <1>8, <1>9

(* The dialog shows another page, which may ask the user for something.    *)
LEMMA PageTurns ==
    ASSUME Inv, Inv', Turns, NEW q, Calmer(q, queue), queue' = q,
           ~ThreadTurn, \A x \in Range(q) : ~Acts(x), window # None, pc # "start",
           NEW p \in {"select", "pin", "retry", "blocked", "alert"}, page' = [page EXCEPT ![window] = p],
           p \in {"select", "pin"} => WatchThread \/ \E x \in Range(q) : Watch(x),
           p = "retry" /\ MaxCardMoves # 0 => ~WatchThread /\ \A x \in Range(q) : ~Watch(x),
           UNCHANGED <<window, live, right, pin, threadVars, handlerVars, mainVars, envVars>>
    PROVE  Turns'
<1>1. /\ UNCHANGED <<window, live, right, pin, toWindow, toController, toThreads>>
      /\ UNCHANGED <<kind, st, dialog, interrupted, cmd, mode, card, pc, cont>>
  BY DEF handlerVars, threadVars, mainVars, envVars
<1>2. /\ OneTurn /\ Wiring /\ SteadyCard /\ OneWatch /\ Monitored /\ StatusIsOver
      /\ PinForEveryConfirm
  BY DEF Turns
<1>3. page \in [Windows -> Pages] /\ window \in Windows
  BY DEF Inv, TypeOK, DialogTypes
<1>4. /\ ~SignalTurn' /\ OneIn(queue', Acting') /\ ~CardSignal'
      /\ \A e \in Posted' : ~Acts(e)' /\ ~Prompting(e)' /\ ~Trying(e)'
      /\ Before(queue', Statuses, Cards)
      /\ MaxCardMoves # 0 => OneIn(queue', Watches)
      /\ \A e \in Posted' : e.k \in LoudKinds => e \in Posted
  BY <1>1, NothingActsIn
<1>5. page'[window] = p /\ \A w \in Windows \ {window} : page'[w] = page[w]
  BY <1>3
<1>6. \A t \in Threads : /\ Works(t)' <=> Works(t)
                         /\ Watching(t)' <=> Watching(t)
                         /\ Waits(t)' <=> Waits(t)
                         /\ Reads(t)' <=> Reads(t)
  BY <1>1 DEF Works, Watching, Waits, Reads, Running
<1>7. ~ThreadTurn' /\ (WatchThread' <=> WatchThread)
  BY <1>6 DEF ThreadTurn, WatchThread
<1>8. OneTurn'
  BY <1>1, <1>2, <1>4, <1>6, <1>7 DEF OneTurn
<1>9. Wiring'
  BY <1>1, <1>2, <1>4, <1>6 DEF Wiring
<1>10. SteadyCard'
  BY <1>1, <1>2, <1>4 DEF SteadyCard, LoudKinds
<1>11. WatchSignal' <=> \E x \in Range(q) : Watch(x)
  BY DEF WatchSignal, Posted, Watch
<1>12. OneWatch'
  <2> SUFFICES ASSUME MaxCardMoves # 0
               PROVE  /\ \A w \in Windows : page'[w] # "pinpad"
                      /\ \A t, u \in Threads : Watching(t)' /\ Watching(u)' => t = u
                      /\ OneIn(queue', Watches')
                      /\ ~(WatchThread' /\ WatchSignal')
                      /\ ThreadTurn' \/ (\E e \in Posted' : Trying(e)') \/ Offered' \/ cont' = "restart"
                            => ~WatchThread' /\ ~WatchSignal'
    BY DEF OneWatch
  <2>1. \A w \in Windows : page'[w] # "pinpad"
    BY <1>2, <1>5 DEF OneWatch
  <2>2. OneIn(queue', Watches')
    BY <1>4 DEF Watches, Watch
  <2>3. WatchSignal' => WatchSignal
    BY <1>4 DEF WatchSignal, Watch, LoudKinds
  <2>4. Offered' => p = "retry"
    BY <1>1, <1>5 DEF Offered
  <2> QED
    BY <1>1, <1>2, <1>4, <1>6, <1>7, <1>11, <2>1, <2>2, <2>3, <2>4 DEF OneWatch
<1>13. Monitored'
  <2>1. Asked' => p \in {"select", "pin"}
    BY <1>1, <1>5 DEF Asked
  <2> QED
    BY <1>4, <1>7, <1>11, <2>1 DEF Monitored
<1>14. StatusIsOver'
  BY <1>1, <1>2, <1>4, <1>6 DEF StatusIsOver, Statuses, Cards, LoudKinds
<1>15. PinForEveryConfirm'
  BY <1>1, <1>2 DEF PinForEveryConfirm, NeedsPin
<1> QED
  BY <1>8, <1>9, <1>10, <1>12, <1>13, <1>14, <1>15 DEF Turns

-----------------------------------------------------------------------------
(* A new thread.                                                           *)
Started(t, k, w) ==
    /\ t \in Threads /\ t = Min(FreeThreads) /\ st[t] = "free" /\ ~Running(t)
    /\ kind'[t] = k /\ st'[t] = "ready" /\ Running(t)' /\ dialog'[t] = w /\ t \notin interrupted'
    /\ \A u \in Threads \ {t} : kind'[u] = kind[u] /\ st'[u] = st[u] /\ dialog'[u] = dialog[u]
                                /\ (Running(u)' <=> Running(u))
    /\ interrupted \subseteq interrupted'
    /\ \A u \in interrupted' : st'[u] # "free"

(* QThread::start makes one thread new and leaves the others.              *)
LEMMA NewThread ==
    ASSUME Inv, Turns, NEW k \in Pollers \cup CommandThreads, NEW w \in Windows \cup {None},
           StartThread(k, w), interrupted' = interrupted \/ interrupted' = StoppedPollers
    PROVE  \E t \in Threads : Started(t, k, w)
<1>1. ThreadTypes
  BY DEF Inv, TypeOK
<1>2. interrupted' \subseteq Threads
  BY <1>1 DEF ThreadTypes, StoppedPollers
<1>0. /\ Min(FreeThreads) \in Threads /\ st[Min(FreeThreads)] = "free"
      /\ kind' = [kind EXCEPT ![Min(FreeThreads)] = k]
      /\ st' = [st EXCEPT ![Min(FreeThreads)] = "ready"]
      /\ dialog' = [dialog EXCEPT ![Min(FreeThreads)] = w]
  BY <1>1, <1>2, StartThreadEffect
<1>3. PICK t \in Threads : /\ t = Min(FreeThreads) /\ st[t] = "free"
                           /\ kind' = [kind EXCEPT ![t] = k]
                           /\ st' = [st EXCEPT ![t] = "ready"]
                           /\ dialog' = [dialog EXCEPT ![t] = w]
  BY <1>0
<1>4. kind'[t] = k /\ st'[t] = "ready" /\ Running(t)' /\ dialog'[t] = w /\ ~Running(t)
  <2>1. t \in DOMAIN kind /\ t \in DOMAIN st /\ t \in DOMAIN dialog
    BY <1>1, <1>3 DEF ThreadTypes
  <2>2. kind'[t] = k /\ st'[t] = "ready" /\ dialog'[t] = w
    BY <1>3, <2>1
  <2>3. Running(t)'
    BY <2>2 DEF Running
  <2>4. ~Running(t)
    BY <1>3 DEF Running
  <2> QED
    BY <2>2, <2>3, <2>4
<1>5. \A u \in Threads \ {t} : kind'[u] = kind[u] /\ st'[u] = st[u] /\ dialog'[u] = dialog[u]
                                /\ (Running(u)' <=> Running(u))
  BY <1>1, <1>3 DEF ThreadTypes, Running
<1>6. interrupted \subseteq interrupted' /\ \A u \in interrupted' : st[u] # "free" /\ u \in Threads
  BY <1>2 DEF StoppedPollers, Running, Turns, Wiring
<1>7. t \notin interrupted' /\ \A u \in interrupted' : st'[u] # "free"
  BY <1>3, <1>5, <1>6
<1>8. Started(t, k, w)
  BY <1>3, <1>4, <1>5, <1>6, <1>7 DEF Started
<1> QED
  BY <1>8

-----------------------------------------------------------------------------
(* onConfirmCommandHandler: the turn goes to a confirm thread.             *)
LEMMA ConfirmTurns ==
    ASSUME Inv, Inv', Turns, NEW q, Calmer(q, queue), OnConfirmCommandHandler(q),
           ~ThreadTurn, \A x \in Range(q) : ~Acts(x), window # None, pc # "start",
           NEW p \in {"busy", "pinpad"}, page' = [page EXCEPT ![window] = p],
           MaxCardMoves # 0 => p # "pinpad" /\ \A x \in Range(q) : ~Watch(x),
           UNCHANGED pin \/ pin' = [pin EXCEPT ![window] = (mode = "keyboard")],
           NeedsPin => pin'[window],
           UNCHANGED <<window, live, right, choice>>
    PROVE  Turns'
<1>1. /\ UNCHANGED <<window, live, right, toWindow, toController, toThreads>>
      /\ UNCHANGED <<cmd, mode, card, pc, cont>> /\ queue' = q
      /\ StartThread("confirm", window) /\ interrupted' = StoppedPollers
  BY DEF OnConfirmCommandHandler, handlerVars, mainVars, envVars
<1>2. /\ OneTurn /\ Wiring /\ SteadyCard /\ OneWatch /\ Monitored /\ StatusIsOver
      /\ PinForEveryConfirm
  BY DEF Turns
<1>3. page \in [Windows -> Pages] /\ window \in Windows /\ pin \in [Windows -> BOOLEAN]
      /\ "confirm" \in Pollers \cup CommandThreads
  BY DEF Inv, TypeOK, DialogTypes, CommandThreads
<1>4. PICK t \in Threads : Started(t, "confirm", window)
  BY <1>1, <1>3, NewThread
<1>5. /\ ~SignalTurn' /\ OneIn(queue', Acting') /\ ~CardSignal'
      /\ \A e \in Posted' : ~Acts(e)' /\ ~Prompting(e)' /\ ~Trying(e)'
      /\ Before(queue', Statuses, Cards)
      /\ MaxCardMoves # 0 => OneIn(queue', Watches)
      /\ \A e \in Posted' : e.k \in LoudKinds => e \in Posted
  BY <1>1, NothingActsIn
<1>6. page'[window] = p /\ \A w \in Windows \ {window} : page'[w] = page[w]
  BY <1>3
<1>7. \A u \in Threads \ {t} : /\ ~Works(u)'
                               /\ ~Watching(u)'
                               /\ ~Waits(u)'
                               /\ ~Reads(u)'
  BY <1>1, <1>4 DEF Started, ThreadTurn, Works, Watching, Waits, Reads, StoppedPollers, Pollers
<1>8. ~Watching(t)' /\ ~Waits(t)' /\ ~Reads(t)'
  BY <1>4 DEF Started, Watching, Waits, Reads
<1>9. ~WatchThread' /\ ~(Asked' \/ Offered')
  BY <1>1, <1>6, <1>7, <1>8 DEF WatchThread, Asked, Offered
<1>10. cont' # "restart"
  BY <1>1 DEF Inv, RestartIsDue, JoinWaitsForAll
<1>11. OneTurn'
  BY <1>1, <1>5, <1>7, <1>9, <1>10 DEF OneTurn, UserTurn
<1>12. Wiring'
  BY <1>1, <1>2, <1>4, <1>5, <1>7, <1>8 DEF Wiring, Started
<1>13. SteadyCard'
  BY <1>1, <1>2, <1>4, <1>5 DEF SteadyCard, LoudKinds, Started
<1>14. WatchSignal' => \E x \in Range(q) : Watch(x)
  BY <1>1 DEF WatchSignal, Posted, Watch
<1>15. OneWatch'
  <2>1. \A w \in Windows : MaxCardMoves # 0 => page'[w] # "pinpad"
    BY <1>2, <1>6 DEF OneWatch
  <2>2. MaxCardMoves # 0 => OneIn(queue', Watches')
    BY <1>5 DEF Watches, Watch
  <2>3. \A u \in Threads : ~Watching(u)'
    BY <1>7, <1>8
  <2> QED
    BY <1>9, <1>14, <2>1, <2>2, <2>3 DEF OneWatch
<1>16. Monitored'
  BY <1>5, <1>9 DEF Monitored
<1>17. StatusIsOver'
  BY <1>1, <1>2, <1>5, <1>7, <1>8 DEF StatusIsOver, Statuses, Cards, LoudKinds
<1>18. PinForEveryConfirm'
  <2> SUFFICES ASSUME NEW u \in Threads, kind'[u] = "confirm", st'[u] = "ready", NeedsPin'
               PROVE  pin'[dialog'[u]]
    BY DEF PinForEveryConfirm
  <2>1. u = t
    BY <1>7 DEF Works, Running
  <2> QED
    BY <1>1, <1>4, <2>1 DEF Started, NeedsPin
<1> QED
  BY <1>11, <1>12, <1>13, <1>15, <1>16, <1>17, <1>18 DEF Turns

(* onCardsAvailable with a window: the turn goes to a run thread.          *)
LEMMA CardsAvailableTurns ==
    ASSUME Inv, Inv', Turns, NEW e, NEW q, Taken(e, q), e.k = "cardsAvailable", pc # "start",
           window # None,
           StartThread("run", None),
           page' = [page EXCEPT ![window] = "wait"],
           right' = [right EXCEPT ![window] = TRUE],
           toWindow' = Append(toWindow, window),
           toThreads' = toThreads \cup {Min(FreeThreads)},
           queue' = q,
           UNCHANGED <<interrupted, window, live, choice, pin, toController, mainVars, envVars>>
    PROVE  Turns'
<1>1. /\ UNCHANGED <<window, live, pin, toController, interrupted>>
      /\ UNCHANGED <<cmd, mode, card, pc, cont>>
  BY DEF handlerVars, mainVars, envVars
<1>2. /\ OneTurn /\ Wiring /\ SteadyCard /\ OneWatch /\ Monitored /\ StatusIsOver
      /\ PinForEveryConfirm
  BY DEF Turns
<1>3. page \in [Windows -> Pages] /\ window \in Windows /\ right \in [Windows -> BOOLEAN]
      /\ "run" \in Pollers \cup CommandThreads
  BY DEF Inv, TypeOK, DialogTypes, CommandThreads
<1>0. Trying(e) /\ Acts(e) /\ CardSignal /\ SignalTurn /\ Calmer(q, queue)
      /\ \A x \in Range(q) : ~Acts(x) /\ x.k # "statusUpdate"
  BY DEF Taken, Trying, Acts, CardSignal, SignalTurn
<1>4. PICK t \in Threads : Started(t, "run", None)
  BY <1>3, NewThread
<1>5. /\ ~SignalTurn' /\ OneIn(queue', Acting') /\ ~CardSignal'
      /\ \A x \in Posted' : ~Acts(x)' /\ ~Prompting(x)' /\ ~Trying(x)'
      /\ Before(queue', Statuses, Cards)
      /\ MaxCardMoves # 0 => OneIn(queue', Watches)
      /\ \A x \in Posted' : x.k \in LoudKinds => x \in Posted
  BY <1>0, <1>1, NothingActsIn
<1>6. page'[window] = "wait" /\ right'[window] /\ \A w \in Windows \ {window} : page'[w] = page[w]
  BY <1>3
<1>7. ~ThreadTurn
  BY <1>0, <1>2 DEF OneTurn
<1>8. \A u \in Threads \ {t} : /\ ~Works(u)'
                               /\ Watching(u)' <=> Watching(u)
                               /\ ~Waits(u)'
                               /\ ~Reads(u)'
  BY <1>1, <1>4, <1>7 DEF Started, ThreadTurn, Works, Watching, Waits, Reads
<1>9. ~Watching(t)' /\ ~Waits(t)' /\ ~Watching(t)
  BY <1>4 DEF Started, Watching, Waits
<1>10. ~(Asked' \/ Offered')
  BY <1>1, <1>6 DEF Asked, Offered
<1>11. cont' # "restart"
  BY <1>1 DEF Inv, RestartIsDue, JoinWaitsForAll
<1>12. OneTurn'
  BY <1>5, <1>8, <1>10, <1>11 DEF OneTurn, UserTurn
<1>13. Wiring'
  <2>1. toWindow = <<>> /\ toThreads = {}
    BY <1>0, <1>2 DEF Wiring
  <2>2. Len(toWindow') = 1
    BY <2>1
  <2>3. Len(toWindow') <= 1
    BY <2>2
  <2>4. \A u, v \in toThreads' : u = v
    BY <2>1
  <2>5. ~(\E u \in Threads : Waits(u)')
    BY <1>8, <1>9
  <2> QED
    BY <1>1, <1>2, <1>4, <1>5, <2>3, <2>4, <2>5 DEF Wiring, Started
<1>14. SteadyCard'
  BY <1>1, <1>2, <1>4, <1>5 DEF SteadyCard, LoudKinds, Started
<1>15. (WatchSignal' => WatchSignal) /\ (WatchThread' => WatchThread)
  BY <1>5, <1>8, <1>9 DEF WatchSignal, WatchThread, Watch, LoudKinds
<1>16. OneWatch'
  <2> SUFFICES ASSUME MaxCardMoves # 0
               PROVE  /\ \A w \in Windows : page'[w] # "pinpad"
                      /\ \A u \in Threads : ~Watching(u)'
                      /\ OneIn(queue', Watches')
                      /\ ~WatchThread' /\ ~WatchSignal'
    BY DEF OneWatch
  <2>1. ~WatchThread /\ ~WatchSignal
    BY <1>0, <1>2 DEF OneWatch, Taken
  <2>2. OneIn(queue', Watches')
    BY <1>5 DEF Watches, Watch
  <2>3. \A w \in Windows : page'[w] # "pinpad"
    BY <1>2, <1>6 DEF OneWatch
  <2>4. \A u \in Threads : ~Watching(u)'
    BY <1>15, <2>1 DEF WatchThread
  <2> QED
    BY <1>15, <2>1, <2>2, <2>3, <2>4
<1>17. Monitored'
  BY <1>5, <1>10 DEF Monitored
<1>18. StatusIsOver'
  <2>1. \A x \in Posted' : x.k # "statusUpdate"
    BY <1>0 DEF Posted
  <2> QED
    BY <1>1, <1>5, <1>6, <2>1 DEF StatusIsOver, Statuses, Cards
<1>19. PinForEveryConfirm'
  BY <1>1, <1>2, <1>4 DEF PinForEveryConfirm, NeedsPin, Started
<1> QED
  BY <1>12, <1>13, <1>14, <1>16, <1>17, <1>18, <1>19 DEF Turns

(* onCertificatesLoaded: the cards are monitored.                          *)
LEMMA CertificatesLoadedTurns ==
    ASSUME Inv, Inv', Turns, NEW e, NEW q, Taken(e, q), e.k = "certificatesLoaded", pc # "start",
           OnCertificatesLoaded(q)
    PROVE  Turns'
<1>1. /\ UNCHANGED <<window, live, page, right, pin, toWindow, toController, toThreads, interrupted>>
      /\ UNCHANGED <<cmd, mode, card, pc, cont>> /\ queue' = q /\ StartThread("monitor", None)
  BY DEF OnCertificatesLoaded, handlerVars, mainVars, envVars, windowVars
<1>2. /\ OneTurn /\ Wiring /\ SteadyCard /\ OneWatch /\ Monitored /\ StatusIsOver
      /\ PinForEveryConfirm
  BY DEF Turns
<1>3. "monitor" \in Pollers \cup CommandThreads /\ Calmer(queue', queue)
  BY <1>1 DEF Pollers, Taken
<1>4. PICK t \in Threads : Started(t, "monitor", None)
  BY <1>1, <1>3, NewThread
<1>5. /\ \A x \in Posted' : x.k \in LoudKinds => x \in Posted
      /\ Before(queue', Statuses, Cards)
      /\ OneIn(queue', Acting)
      /\ MaxCardMoves # 0 => OneIn(queue', Watches)
  BY <1>3, CalmerQueue
<1>6. /\ OneIn(queue', Acting')
      /\ \A x \in Posted' : (Acts(x)' => x \in Posted /\ Acts(x)) /\ (Trying(x)' => x \in Posted /\ Trying(x))
  BY <1>1, <1>5 DEF Acting, Acts, Prompting, Trying, LoudKinds
<1>7. \A u \in Threads \ {t} : /\ Works(u)' <=> Works(u)
                               /\ Watching(u)' <=> Watching(u)
                               /\ Waits(u)' <=> Waits(u)
                               /\ Reads(u)' <=> Reads(u)
  BY <1>1, <1>4 DEF Started, ThreadTurn, Works, Watching, Waits, Reads
<1>8. Watching(t)' /\ ~Waits(t)' /\ ~Watching(t) /\ ~Works(t)' /\ ~Reads(t)'
  BY <1>4 DEF Started, Watching, Waits, Works, Reads
<1>9. (Asked' <=> Asked) /\ (Offered' <=> Offered) /\ WatchThread'
  BY <1>1, <1>8 DEF Asked, Offered, WatchThread
<1>10. (ThreadTurn' => ThreadTurn) /\ (SignalTurn' => SignalTurn) /\ (CardSignal' => CardSignal)
  BY <1>5, <1>6, <1>7, <1>8 DEF ThreadTurn, SignalTurn, CardSignal, LoudKinds
<1>11. OneTurn'
  BY <1>1, <1>2, <1>6, <1>7, <1>8, <1>9, <1>10 DEF OneTurn, UserTurn
<1>12. Wiring'
  BY <1>1, <1>2, <1>4, <1>7, <1>8, <1>10 DEF Wiring, Started
<1>13. SteadyCard'
  BY <1>1, <1>2, <1>4, <1>5 DEF SteadyCard, LoudKinds, Started
<1>14. OneWatch'
  <2> SUFFICES ASSUME MaxCardMoves # 0
               PROVE  /\ \A w \in Windows : page'[w] # "pinpad"
                      /\ \A u \in Threads \ {t} : ~Watching(u)'
                      /\ OneIn(queue', Watches')
                      /\ ~WatchSignal'
                      /\ ~(ThreadTurn' \/ (\E x \in Posted' : Trying(x)') \/ Offered' \/ cont' = "restart")
    BY DEF OneWatch
  <2>1. WatchSignal
    BY DEF WatchSignal, Watch, Taken
  <2>2. ~WatchSignal'
    BY <1>1 DEF WatchSignal, Watch, Taken, Posted
  <2>3. OneIn(queue', Watches')
    BY <1>5 DEF Watches, Watch
  <2>4. ~WatchThread /\ ~(ThreadTurn \/ (\E x \in Posted : Trying(x)) \/ Offered \/ cont = "restart")
    BY <1>2, <2>1 DEF OneWatch
  <2>5. \A u \in Threads \ {t} : ~Watching(u)'
    BY <1>7, <2>4 DEF WatchThread
  <2> QED
    BY <1>1, <1>2, <1>6, <1>9, <1>10, <2>2, <2>3, <2>4, <2>5 DEF OneWatch
<1>15. Monitored'
  BY <1>9 DEF Monitored
<1>16. StatusIsOver'
  BY <1>1, <1>2, <1>5, <1>7, <1>8 DEF StatusIsOver, Statuses, Cards, LoudKinds
<1>17. PinForEveryConfirm'
  BY <1>1, <1>2, <1>4 DEF PinForEveryConfirm, NeedsPin, Started
<1> QED
  BY <1>11, <1>12, <1>13, <1>14, <1>15, <1>16, <1>17 DEF Turns

(* startCommandExecution: the turn goes to the thread that waits.          *)
LEMMA StartTurns ==
    ASSUME Inv, Inv', Turns, \A u \in Threads : st[u] = "free", StartCommandExecution,
           pc = "start" \/ cont = "restart", pc' = "loop", cont' # "restart",
           UNCHANGED <<queue, envVars>>
    PROVE  Turns'
<1>1. /\ UNCHANGED <<toWindow, toThreads, interrupted>>
      /\ UNCHANGED <<cmd, mode, card>> /\ StartThread("waitForCard", None) /\ toController'
      /\ FreeWindows # {}
      /\ window' = Min(FreeWindows)
      /\ page' = [page EXCEPT ![Min(FreeWindows)] = "wait"]
  BY DEF StartCommandExecution, envVars
<1>2. /\ OneTurn /\ Wiring /\ SteadyCard /\ OneWatch /\ Monitored /\ StatusIsOver
      /\ PinForEveryConfirm
  BY DEF Turns
<1>3. /\ "waitForCard" \in Pollers \cup CommandThreads /\ queue' \in Seq(Signals)
      /\ page \in [Windows -> Pages] /\ page' \in [Windows -> Pages]
  BY DEF Pollers, Inv, TypeOK, MainTypes, DialogTypes
<1>4. PICK t \in Threads : Started(t, "waitForCard", None)
  BY <1>1, <1>3, NewThread
<1>5. PICK w \in Windows : w = window' /\ w # None /\ w \notin live /\ page'[w] = "wait"
                           /\ \A v \in Windows \ {w} : page'[v] = page[v]
  <2>1. Min(FreeWindows) \in Windows /\ Min(FreeWindows) \notin live /\ Min(FreeWindows) # None
    BY <1>1, FreshWindow
  <2> QED
    BY <1>1, <1>3, <2>1
<1>6. Posted' = Posted /\ \A x \in Posted : x.k \in WindowSignals => x.o # w
  BY <1>5 DEF Posted, Inv, SignalsAreAddressed, Addressed
<1>7. ~ThreadTurn /\ ~SignalTurn
  <2>1. ~ThreadTurn
    BY DEF ThreadTurn, Works, Running
  <2>2. CASE pc = "start"
    <3>1. queue = <<>>
      BY <2>2 DEF Inv, StartIsFresh
    <3>2. Posted = {}
      BY <3>1, EmptyRange DEF Posted
    <3> QED
      BY <2>1, <3>2 DEF SignalTurn
  <2> QED
    BY <1>2, <2>1, <2>2 DEF OneTurn
<1>8. \A x \in Posted' : ~Acts(x)' /\ ~Prompting(x)' /\ ~Trying(x)'
  BY <1>5, <1>6, <1>7 DEF SignalTurn, Acts, Prompting, Trying, WindowSignals
<1>9. \A u \in Threads \ {t} : ~Works(u)' /\ ~Watching(u)' /\ ~Waits(u)' /\ ~Reads(u)'
  BY <1>4 DEF Started, Works, Watching, Waits, Reads, Running
<1>10. ~Watching(t)' /\ ~Reads(t)' /\ ~WatchThread
  BY <1>4 DEF Started, Watching, Reads, WatchThread, Running
<1>11. ~(Asked' \/ Offered')
  BY <1>5 DEF Asked, Offered
<1>12. ~SignalTurn' /\ OneIn(queue', Acting') /\ ~WatchThread'
  <2>1. \A i \in 1 .. Len(queue') : queue'[i] \notin Acting'
    BY <1>3, <1>8, RangeMember DEF Acting, Posted
  <2> QED
    BY <1>8, <1>9, <1>10, <2>1 DEF SignalTurn, OneIn, WatchThread
<1>13. OneTurn'
  BY <1>9, <1>11, <1>12 DEF OneTurn, UserTurn
<1>14. Wiring'
  <2>1. toWindow = <<>> /\ toThreads = {}
    BY <1>2 DEF Wiring, Inv, RestartIsDue
  <2>2. Len(toWindow') = 0
    BY <1>1, <2>1
  <2>3. Len(toWindow') <= 1
    BY <2>2
  <2> QED
    BY <1>1, <1>4, <2>1, <2>3 DEF Wiring, Started
<1>15. SteadyCard'
  BY <1>1, <1>2, <1>4, <1>6 DEF SteadyCard, Started
<1>16. OneWatch'
  <2> SUFFICES ASSUME MaxCardMoves # 0
               PROVE  /\ \A v \in Windows : page'[v] # "pinpad"
                      /\ \A u \in Threads : ~Watching(u)'
                      /\ OneIn(queue', Watches')
                      /\ ~WatchSignal'
    BY <1>12 DEF OneWatch
  <2>1. ~WatchSignal
    <3>1. CASE pc = "start"
      <4>1. queue = <<>>
        BY <3>1 DEF Inv, StartIsFresh
      <4>2. Posted = {}
        BY <4>1, EmptyRange DEF Posted
      <4> QED
        BY <4>2 DEF WatchSignal
    <3> QED
      BY <1>2, <3>1 DEF OneWatch
  <2>2. OneIn(queue', Watches')
    BY <1>2 DEF Watches, Watch, OneWatch
  <2>3. \A v \in Windows : page'[v] # "pinpad"
    BY <1>2, <1>5 DEF OneWatch
  <2> QED
    BY <1>6, <1>9, <1>10, <2>1, <2>2, <2>3 DEF WatchSignal, Watch
<1>17. Monitored'
  BY <1>8, <1>11 DEF Monitored
<1>18. StatusIsOver'
  <2>1. \A x \in Posted' : x.k = "certificateReady" => x.o # window'
    BY <1>5, <1>6 DEF WindowSignals
  <2>2. Before(queue', Statuses', Cards')
    BY <1>2 DEF StatusIsOver, Statuses, Cards
  <2> QED
    BY <1>9, <1>10, <2>1, <2>2 DEF StatusIsOver
<1>19. PinForEveryConfirm'
  BY <1>4 DEF PinForEveryConfirm, Started
<1> QED
  BY <1>13, <1>14, <1>15, <1>16, <1>17, <1>18, <1>19 DEF Turns

-----------------------------------------------------------------------------
(* What a thread says when its work is done, or while it waits.            *)
Says(t, s) ==
    /\ s \in Seq(Signals)
    /\ OneIn(s, Acting) /\ OneIn(s, Watches)
    /\ (\E e \in Range(s) : Prompting(e)) => \E e \in Range(s) : Watch(e)
    /\ (\E e \in Range(s) : Trying(e)) => \A e \in Range(s) : ~Watch(e)
    /\ \A e \in Range(s) : e.k # "cardEvent"
    /\ \A e \in Range(s) : e.k \in {"statusUpdate", "cardsAvailable"} => kind[t] = "waitForCard"
    /\ (\A e \in Range(s) : e.k # "statusUpdate") \/ (\A e \in Range(s) : e.k # "cardsAvailable")
    /\ \A e \in Range(s) : e.k = "certificateReady" => kind[t] = "run"

(* The other threads go on as before; t may end, and its object with it.   *)
OthersGoOn(t) ==
    /\ \A u \in Threads \ {t} : kind'[u] = kind[u] /\ st'[u] = st[u] /\ dialog'[u] = dialog[u]
    /\ interrupted' \subseteq interrupted /\ interrupted \ {t} \subseteq interrupted'
    /\ \A u \in interrupted' : st'[u] # "free"
    /\ kind'[t] \in {"", kind[t]}
    /\ st'[t] = "done" => kind'[t] = "run"
    /\ toThreads' \subseteq toThreads

(* A thread that says so when its work is done gives the turn to what it   *)
(* has said, or keeps it.                                                  *)
LEMMA WorkerTurns ==
    ASSUME Inv, Inv', Turns, NEW t \in Threads, Works(t), NEW s, Says(t, s), queue' = queue \o s,
           OthersGoOn(t), ~(kind'[t] = "confirm" /\ st'[t] = "ready"),
           Works(t)' => kind'[t] = kind[t] /\ \A e \in Range(s) : e.k = "statusUpdate",
           UNCHANGED <<cmd, mode, card, pc, cont, window, live, page, right, toWindow, toController>>
    PROVE  Turns'
<1>1. /\ OneTurn /\ Wiring /\ SteadyCard /\ OneWatch /\ Monitored /\ StatusIsOver
      /\ PinForEveryConfirm
  BY DEF Turns
<1>2. /\ s \in Seq(Signals)
      /\ OneIn(s, Acting) /\ OneIn(s, Watches)
      /\ (\E e \in Range(s) : Prompting(e)) => \E e \in Range(s) : Watch(e)
      /\ (\E e \in Range(s) : Trying(e)) => \A e \in Range(s) : ~Watch(e)
      /\ \A e \in Range(s) : e.k # "cardEvent"
      /\ \A e \in Range(s) : e.k \in {"statusUpdate", "cardsAvailable"} => kind[t] = "waitForCard"
      /\ (\A e \in Range(s) : e.k # "statusUpdate") \/ (\A e \in Range(s) : e.k # "cardsAvailable")
      /\ \A e \in Range(s) : e.k = "certificateReady" => kind[t] = "run"
  BY DEF Says
<1>3. queue \in Seq(Signals) /\ queue' \in Seq(Signals)
  BY DEF Inv, TypeOK, MainTypes
<1>4. Posted' = Posted \cup Range(s)
  BY <1>2, <1>3, RangeOfConcat DEF Posted
<1>5. /\ ThreadTurn /\ ~SignalTurn /\ ~UserTurn /\ cont' # "restart"
      /\ \A u \in Threads \ {t} : ~Works(u)
      /\ \A e \in Posted : ~Acts(e) /\ ~Prompting(e) /\ ~Trying(e)
  <2>1. ThreadTurn
    BY DEF ThreadTurn
  <2>2. ~SignalTurn /\ ~UserTurn /\ cont # "restart"
    BY <1>1, <2>1 DEF OneTurn
  <2>3. \A u \in Threads \ {t} : ~Works(u)
    BY <1>1 DEF OneTurn
  <2> QED
    BY <2>1, <2>2, <2>3 DEF SignalTurn, Acts
<1>6. /\ kind[t] \in {"waitForCard", "run", "confirm"} /\ kind'[t] \in {"", kind[t]}
      /\ \A u \in Threads \ {t} : kind'[u] = kind[u] /\ st'[u] = st[u] /\ dialog'[u] = dialog[u]
      /\ \A u \in Threads \ {t} : u \in interrupted => u \in interrupted'
      /\ \A u \in interrupted' : st'[u] # "free"
      /\ toThreads' \subseteq toThreads
      /\ st'[t] = "done" => kind'[t] = "run"
  BY DEF Works, OthersGoOn
<1>7. \A u \in Threads \ {t} : /\ ~Works(u)' /\ ~Waits(u)' /\ ~Reads(u)'
                               /\ Watching(u)' => Watching(u)
  BY <1>5, <1>6 DEF Works, Waits, Reads, Watching, Running
<1>8. /\ ~Watching(t)' /\ (Waits(t)' => Works(t)' /\ Waits(t)) /\ (Reads(t)' => Works(t)' /\ Reads(t))
      /\ (Works(t)' => kind'[t] = kind[t])
  BY <1>6 DEF Works, Waits, Reads, Watching
<1>9. \A e \in Posted' : /\ Acts(e)' <=> Acts(e)
                         /\ Prompting(e)' <=> Prompting(e)
                         /\ Trying(e)' <=> Trying(e)
  BY DEF Acts, Prompting, Trying
<1>10. (Asked' <=> Asked) /\ (Offered' <=> Offered) /\ (UserTurn' <=> UserTurn)
  BY DEF Asked, Offered, UserTurn
<1>11. Works(t)' => \A e \in Posted' : ~Acts(e)' /\ ~Trying(e)' /\ (Watch(e) => e \in Posted)
  BY <1>4, <1>5, <1>9 DEF Acts, Prompting, Trying, Watch
<1>12. ThreadTurn' <=> Works(t)'
  BY <1>7 DEF ThreadTurn
<1>13. OneIn(queue', Acting')
  <2>1. \A e \in Range(queue) : e \notin Acting
    BY <1>5 DEF Acting, Posted
  <2>2. OneIn(queue, Acting)
    BY <1>1 DEF OneTurn
  <2>3. OneIn(queue \o s, Acting)
    BY <1>2, <1>3, <2>1, <2>2, OneInConcat
  <2>4. Acting' = Acting
    BY DEF Acting, Acts, Prompting, Trying
  <2> QED
    BY <2>3, <2>4
<1>14. OneTurn'
  <2>1. ~(ThreadTurn' /\ SignalTurn')
    BY <1>11, <1>12 DEF SignalTurn
  <2>2. ~UserTurn'
    BY <1>5, <1>10
  <2>3. \A u, v \in Threads : Works(u)' /\ Works(v)' => u = v
    BY <1>7
  <2> QED
    BY <1>5, <1>13, <2>1, <2>2, <2>3 DEF OneTurn
<1>15. Wiring'
  <2>1. Waits(t) => toWindow = <<>> /\ toThreads = {}
    BY <1>1 DEF Wiring
  <2>2. pc = "start" => toWindow = <<>> /\ toThreads = {}
    BY <1>1 DEF Wiring
  <2>3. CardSignal' => Waits(t)
    BY <1>2, <1>4, <1>5 DEF CardSignal, Trying, Waits, Works
  <2>4. (\E u \in Threads : Waits(u)') => Waits(t)
    BY <1>7, <1>8
  <2>5. \A u, v \in toThreads' : u = v
    BY <1>1, <1>6 DEF Wiring
  <2>6. \A u \in Threads : st'[u] = "done" => kind'[u] = "run"
    BY <1>1, <1>6 DEF Wiring
  <2>7. Len(toWindow') <= 1 /\ (window' # None => toController')
    BY <1>1 DEF Wiring
  <2>8. (\E u \in Threads : Waits(u)') \/ CardSignal' \/ pc' = "start" => toWindow' = <<>> /\ toThreads' = {}
    BY <1>6, <2>1, <2>2, <2>3, <2>4
  <2> QED
    BY <1>6, <2>5, <2>6, <2>7, <2>8 DEF Wiring
<1>16. SteadyCard'
  BY <1>1, <1>2, <1>4, <1>6 DEF SteadyCard
<1>17. OneWatch'
  <2> SUFFICES ASSUME MaxCardMoves # 0
               PROVE  /\ \A w \in Windows : page'[w] # "pinpad"
                      /\ \A u \in Threads : ~Watching(u)'
                      /\ OneIn(queue', Watches')
                      /\ ~WatchThread'
                      /\ ThreadTurn' \/ (\E e \in Posted' : Trying(e)') \/ Offered' \/ cont' = "restart"
                            => ~WatchSignal'
    BY DEF OneWatch
  <2>1. ~WatchThread /\ ~WatchSignal
    BY <1>1, <1>5 DEF OneWatch
  <2>2. \A u \in Threads : ~Watching(u)'
    BY <1>7, <1>8, <2>1 DEF WatchThread
  <2>3. OneIn(queue', Watches')
    <3>1. \A e \in Range(queue) : e \notin Watches
      BY <2>1 DEF WatchSignal, Watches, Posted
    <3>2. OneIn(queue, Watches)
      BY <1>1 DEF OneWatch
    <3>3. OneIn(queue \o s, Watches)
      BY <1>2, <1>3, <3>1, <3>2, OneInConcat
    <3>4. Watches' = Watches
      BY DEF Watches, Watch
    <3> QED
      BY <3>3, <3>4
  <2>4. WatchSignal' => \E e \in Range(s) : Watch(e)
    BY <1>4, <2>1 DEF WatchSignal, Watch
  <2>5. ThreadTurn' => ~WatchSignal'
    BY <1>4, <1>12, <2>1, <2>4 DEF Watch
  <2>6. (\E e \in Posted' : Trying(e)') => ~WatchSignal'
    BY <1>2, <1>4, <1>5, <1>9, <2>4
  <2>7. ~Offered'
    BY <1>5, <1>10 DEF UserTurn
  <2> QED
    BY <1>1, <1>5, <2>2, <2>3, <2>5, <2>6, <2>7 DEF OneWatch, WatchThread
<1>18. Monitored'
  <2>1. ~Asked'
    BY <1>5, <1>10 DEF UserTurn
  <2>2. (\E e \in Posted' : Prompting(e)') => \E e \in Range(s) : Watch(e)
    BY <1>2, <1>4, <1>5, <1>9
  <2>3. (\E e \in Range(s) : Watch(e)) => WatchSignal'
    BY <1>4 DEF WatchSignal, Watch
  <2> QED
    BY <2>1, <2>2, <2>3 DEF Monitored
<1>19. StatusIsOver'
  <2>1. Before(queue', Statuses', Cards')
    <3>1. Before(queue, Statuses, Cards)
      BY <1>1 DEF StatusIsOver
    <3>2. \A e \in Range(queue) : e \notin Cards
      BY <1>5 DEF Posted, Cards, Trying
    <3>3. (\A e \in Range(s) : e \notin Statuses) \/ (\A e \in Range(s) : e \notin Cards)
      BY <1>2 DEF Statuses, Cards
    <3>4. Before(s, Statuses, Cards)
      BY <1>2, <3>3, NoneIn
    <3>5. Before(queue \o s, Statuses, Cards)
      BY <1>2, <1>3, <3>1, <3>2, <3>4, BeforeInConcat
    <3>6. Statuses' = Statuses /\ Cards' = Cards
      BY DEF Statuses, Cards
    <3> QED
      BY <3>5, <3>6
  <2>2. ASSUME NEW e \in Posted', e.k = "certificateReady", e.o = window PROVE Reads(t)
    <3>1. window # None
      <4>1. window \in live' /\ live' \subseteq Windows
        BY <2>2 DEF Inv, SignalsAreAddressed, Addressed, WindowSignals, TypeOK, DialogTypes
      <4>2. None \notin Windows
        BY NoneIsNoObject DEF Inv, TypeOK
      <4> QED
        BY <4>1, <4>2
    <3>2. Prompting(e)
      BY <2>2, <3>1 DEF Prompting
    <3>3. e \in Range(s)
      BY <1>4, <1>5, <3>2
    <3> QED
      BY <1>2, <2>2, <3>3 DEF Reads, Works
  <2>3. (\E u \in Threads : Reads(u)') \/ (\E e \in Posted' : e.k = "certificateReady" /\ e.o = window') => Reads(t)
    BY <1>7, <1>8, <2>2
  <2>4. Reads(t) => (\A e \in Posted' : e.k # "statusUpdate") /\ (window' # None => right'[window'])
    <3>1. Reads(t) => (\A e \in Posted : e.k # "statusUpdate") /\ (window # None => right[window])
      BY <1>1 DEF StatusIsOver
    <3>2. Reads(t) => \A e \in Range(s) : e.k # "statusUpdate"
      BY <1>2 DEF Reads
    <3> QED
      BY <1>4, <3>1, <3>2
  <2> QED
    BY <2>1, <2>3, <2>4 DEF StatusIsOver
<1>20. PinForEveryConfirm'
  <2> SUFFICES ASSUME NEW u \in Threads, kind'[u] = "confirm", st'[u] = "ready", NeedsPin'
               PROVE  pin'[dialog'[u]]
    BY DEF PinForEveryConfirm
  <2>1. u # t
    OBVIOUS
  <2>2. Works(u)'
    BY DEF Works, Running
  <2> QED
    BY <1>7, <2>1, <2>2
<1> QED
  BY <1>14, <1>15, <1>16, <1>17, <1>18, <1>19, <1>20 DEF Turns

-----------------------------------------------------------------------------

(* Words of which the turns do not depend, ...                             *)
Dull(s) == s \in Seq(Signals) /\ \A e \in Range(s) : e.k \notin LoudKinds

(* ... because they do not act and are not for the watch, ...              *)
LEMMA DullIsNothing ==
    ASSUME NEW e, e.k \notin LoudKinds
    PROVE  /\ ~Acts(e) /\ ~Prompting(e) /\ ~Trying(e) /\ ~Watch(e)
           /\ e.k \notin {"cardEvent", "statusUpdate", "cardsAvailable", "certificateReady"}
BY DEF Acts, Prompting, Trying, Watch, LoudKinds

(* ... so that any thread may say them, ...                                *)
LEMMA DullSays ==
    ASSUME NEW s, Dull(s), NEW t
    PROVE  Says(t, s)
<1>1. \A e \in Range(s) : e \notin Acting /\ e \notin Watches
  BY DullIsNothing DEF Dull, Acting, Watches
<1>2. OneIn(s, Acting) /\ OneIn(s, Watches)
  BY <1>1, NoneIn DEF Dull
<1>3. \A e \in Range(s) : /\ ~Acts(e) /\ ~Prompting(e) /\ ~Trying(e) /\ ~Watch(e)
           /\ e.k \notin {"cardEvent", "statusUpdate", "cardsAvailable", "certificateReady"}
  BY DullIsNothing DEF Dull
<1> QED
  BY <1>2, <1>3 DEF Says, Dull

(* ... also after something else.                                          *)
LEMMA DullAfter ==
    ASSUME NEW s, NEW t, Says(t, s), NEW u, Dull(u)
    PROVE  Says(t, s \o u)
<1>1. s \in Seq(Signals) /\ u \in Seq(Signals)
  BY DEF Says, Dull
<1>2. s \o u \in Seq(Signals) /\ Range(s \o u) = Range(s) \cup Range(u)
  BY <1>1, RangeOfConcat
<1>3. \A e \in Range(u) : e \notin Acting /\ e \notin Watches
  BY DullIsNothing DEF Dull, Acting, Watches
<1>4. OneIn(u, Acting) /\ OneIn(u, Watches)
  BY <1>1, <1>3, NoneIn
<1>5. OneIn(s \o u, Acting)
  BY <1>1, <1>3, <1>4, OneInConcat DEF Says
<1>6. OneIn(s \o u, Watches)
  BY <1>1, <1>3, <1>4, OneInConcat DEF Says
<1>7. \A e \in Range(u) : /\ ~Acts(e) /\ ~Prompting(e) /\ ~Trying(e) /\ ~Watch(e)
           /\ e.k \notin {"cardEvent", "statusUpdate", "cardsAvailable", "certificateReady"}
  BY DullIsNothing DEF Dull
<1> QED
  BY <1>2, <1>5, <1>6, <1>7 DEF Says

(* The empty sequence of signals, ...                                      *)
LEMMA NothingSaid == <<>> \in Seq(Signals) /\ Range(<<>>) = {} /\ \A S : OneIn(<<>>, S)
<1>1. Len(<<>>) = 0 /\ <<>> \in Seq(Signals) /\ Range(<<>>) = {}
  BY EmptyRange
<1> QED
  BY <1>1 DEF OneIn

(* ... which any thread may say.                                           *)
LEMMA EmptySays == \A t : Says(t, <<>>)
<1>1. Dull(<<>>)
  BY EmptyRange DEF Dull
<1> QED
  BY <1>1, DullSays

(* The length of one signal.                                               *)
LEMMA SingleLength ==
    ASSUME NEW e
    PROVE  Len(<<e>>) <= 1
OBVIOUS

(* One signal for Controller.                                              *)
LEMMA OwnSays ==
    ASSUME NEW t, NEW k \in OwnKinds, k \notin {"certificatesLoaded", "cardEvent"},
           k \in {"statusUpdate", "cardsAvailable"} => kind[t] = "waitForCard"
    PROVE  Says(t, Own(t, k)) /\ \A e \in Range(Own(t, k)) : e.k = k
<1> DEFINE e == Sig(k, None)
<1>1. e \in Signals /\ <<e>> \in Seq(Signals) /\ Range(<<e>>) = {e} /\ e.k = k /\ e.o = None
  BY ControllerSignal DEF Emission
<1>2. Len(<<e>>) <= 1
  BY SingleLength
<1> HIDE DEF e
<1>3. OneIn(<<e>>, Acting) /\ OneIn(<<e>>, Watches)
  BY <1>1, <1>2, SingleIn
<1>4. k # "certificateReady" /\ ~Prompting(e) /\ ~Watch(e)
  BY <1>1 DEF OwnKinds, Prompting, Watch
<1>5. Says(t, <<e>>) /\ \A x \in Range(<<e>>) : x.k = k
  BY <1>1, <1>3, <1>4 DEF Says
<1>6. CASE t \in connected
  BY <1>5, <1>6 DEF Own, e
<1>7. CASE t \notin connected
  BY <1>7, EmptySays, EmptyRange DEF Own
<1> QED
  BY <1>6, <1>7

(* The end of the command, a cancellation and a failure give nobody the    *)
(* turn.                                                                   *)
LEMMA OwnIsDull ==
    ASSUME NEW t, NEW k \in {"completed", "cancel", "failure"}
    PROVE  Dull(Own(t, k))
<1>1. k \in OwnKinds
  BY DEF OwnKinds
<1>2. Sig(k, None).k \notin LoudKinds /\ <<Sig(k, None)>> \in Seq(Signals) /\ Range(<<Sig(k, None)>>) = {Sig(k, None)}
  BY <1>1, ControllerSignal DEF Emission, LoudKinds
<1> QED
  BY <1>2, EmptyRange DEF Own, Dull

(* CommandHandler::retry.                                                  *)
LEMMA RetrySays ==
    ASSUME Inv, Turns, NEW t
    PROVE  Says(t, HandlerRetry)
<1>1. DialogTypes /\ \A u, v \in toThreads : u = v
  BY DEF Inv, TypeOK, Turns, Wiring
<1>2. /\ HandlerRetry \in Seq(Signals)
      /\ Range(HandlerRetry) = {Sig("retryHandler", u) : u \in toThreads}
      /\ \A u : Sig("retryHandler", u).k = "retryHandler" /\ Sig("retryHandler", u).o = u
  BY <1>1, RetryEmission DEF Emission
<1> DEFINE s == HandlerRetry
<1>3. IsInjective(s)
  <2> DEFINE S == {Sig("retryHandler", u) : u \in toThreads}
  <2>1. IsFiniteSet(S)
    <3>1. CASE toThreads = {}
      <4>1. S = {}
        BY <3>1
      <4> QED
        BY <4>1, FS_EmptySet
    <3>2. CASE toThreads # {}
      <4>1. PICK u \in toThreads : toThreads = {u}
        BY <1>1, <3>2
      <4>2. S = {Sig("retryHandler", u)}
        BY <4>1
      <4> HIDE DEF S
      <4> QED
        BY <4>2, FS_Singleton
    <3> QED
      BY <3>1, <3>2
  <2>2. HandlerRetry = SetToSeq(S)
    BY DEF HandlerRetry
  <2> HIDE DEF S
  <2> QED
    BY <2>1, <2>2, SetToSeqIsInjective
<1> HIDE DEF s
<1>4. \A x, y \in Range(s) : x = y
  BY <1>1, <1>2 DEF s
<1>5. DOMAIN s = 1 .. Len(s) /\ \A i \in 1 .. Len(s) : s[i] \in Range(s)
  BY <1>2, SeqShape, RangeMember DEF s
<1>6. \A i, j \in 1 .. Len(s) : i = j
  BY <1>3, <1>4, <1>5 DEF IsInjective
<1>7. \A S : OneIn(s, S)
  BY <1>6 DEF OneIn
<1>8. \A e \in Range(s) : e.k = "retryHandler"
  BY <1>2 DEF s
<1> QED
  BY <1>2, <1>7, <1>8 DEF Says, s, Prompting, Watch

(* The command handler's signals for the dialog.                           *)
LEMMA WindowsSays ==
    ASSUME Inv, Turns, NEW k \in {"certificateReady", "mismatch", "verifyPinFailed"},
           NEW d \in {"", "single", "multiple", "unusable", "again", "fatal"},
           k = "verifyPinFailed" => cmd # "get-signing-certificate"
    PROVE  /\ HandlerToWindows(k, d) \in Seq(Signals)
           /\ \A e \in Range(HandlerToWindows(k, d)) : e.k = k
           /\ \A S : OneIn(HandlerToWindows(k, d), S)
<1>1. DialogTypes /\ Len(toWindow) <= 1
  BY DEF Inv, TypeOK, Turns, Wiring
<1> HIDE DEF Inv
<1>2. Emission(HandlerToWindows(k, d))
  BY <1>1, ToWindowsEmission
<1>3. \A e \in Range(HandlerToWindows(k, d)) : e.k = k
  <2> DEFINE b == HandlerToWindows(k, d)
  <2>1. \A w : SigWith(k, w, d).k = k
    BY DEF SigWith
  <2>2. b = [i \in 1 .. Len(toWindow) |-> SigWith(k, toWindow[i], d)]
    BY DEF HandlerToWindows
  <2> HIDE DEF b
  <2>3. DOMAIN b = 1 .. Len(toWindow) /\ \A i \in DOMAIN b : b[i] = SigWith(k, toWindow[i], d)
    BY <2>2
  <2>4. \A i \in DOMAIN b : b[i].k = k
    BY <2>1, <2>3
  <2>5. \A e \in Range(b) : e.k = k
    BY <2>4 DEF Range
  <2> QED
    BY <2>5 DEF b
<1>4. toWindow \in Seq(Windows)
  BY <1>1 DEF DialogTypes
<1>5. Len(toWindow) \in Nat
  BY <1>4, SeqShape
<1>6. Len(HandlerToWindows(k, d)) = Len(toWindow)
  <2>1. DOMAIN HandlerToWindows(k, d) = 1 .. Len(toWindow)
    BY DEF HandlerToWindows
  <2> QED
    BY <1>2, <1>5, <2>1, LengthFromDomain DEF Emission
<1>7. Len(HandlerToWindows(k, d)) <= 1
  BY <1>1, <1>6
<1> QED
  BY <1>2, <1>3, <1>7, SingleIn DEF Emission

(* The certificate does not fit.                                           *)
LEMMA MismatchSays ==
    ASSUME Inv, Turns, NEW t
    PROVE  Says(t, HandlerToWindows("mismatch", ""))
<1>1. "mismatch" \in {"certificateReady", "mismatch", "verifyPinFailed"} /\ "mismatch" # "verifyPinFailed"
      /\ "" \in {"", "single", "multiple", "unusable", "again", "fatal"}
  OBVIOUS
<1>2. /\ HandlerToWindows("mismatch", "") \in Seq(Signals)
      /\ \A e \in Range(HandlerToWindows("mismatch", "")) : e.k = "mismatch"
      /\ \A S : OneIn(HandlerToWindows("mismatch", ""), S)
  BY <1>1, WindowsSays
<1> QED
  BY <1>2 DEF Says, Prompting, Watch

(* The prompt for a certificate or a PIN comes after the call for a        *)
(* monitor.                                                                *)
LEMMA PromptSays ==
    ASSUME Inv, Turns, NEW t, NEW k \in {"certificateReady", "verifyPinFailed"},
           NEW d \in {"", "single", "multiple", "unusable", "again", "fatal"},
           k = "verifyPinFailed" => cmd # "get-signing-certificate",
           k = "certificateReady" => kind[t] = "run"
    PROVE  Says(t, HandlerToController("certificatesLoaded") \o HandlerToWindows(k, d))
<1> DEFINE a == HandlerToController("certificatesLoaded")
           b == HandlerToWindows(k, d)
           x == Sig("certificatesLoaded", None)
<1>1. /\ b \in Seq(Signals)
      /\ \A e \in Range(b) : e.k = k
      /\ \A S : OneIn(b, S)
  <2>1. k \in {"certificateReady", "mismatch", "verifyPinFailed"}
    OBVIOUS
  <2>2. HandlerToWindows(k, d) \in Seq(Signals)
    BY <2>1, WindowsSays
  <2>3. \A e \in Range(HandlerToWindows(k, d)) : e.k = k
    BY <2>1, WindowsSays
  <2>4. \A S : OneIn(HandlerToWindows(k, d), S)
    BY <2>1, WindowsSays
  <2> QED
    BY <2>2, <2>3, <2>4
<1>2. x \in Signals /\ <<x>> \in Seq(Signals) /\ Range(<<x>>) = {x} /\ x.k = "certificatesLoaded"
  <2>1. "certificatesLoaded" \in OwnKinds
    BY DEF OwnKinds
  <2> QED
    BY <2>1, ControllerSignal DEF Emission
<1>3. Len(<<x>>) <= 1
  BY SingleLength
<1> HIDE DEF x
<1>4. a \in Seq(Signals) /\ (\A e \in Range(a) : e.k = "certificatesLoaded") /\ (\A S : OneIn(a, S))
      /\ (toController => x \in Range(a))
  <2>1. CASE toController
    <3>1. a = <<x>>
      BY <2>1 DEF HandlerToController, x
    <3> QED
      BY <1>2, <1>3, <3>1, SingleIn
  <2>2. CASE ~toController
    <3>1. a = <<>> /\ Range(<<>>) = {}
      BY <2>2, NothingSaid DEF HandlerToController
    <3> QED
      BY <2>2, <3>1, NothingSaid
  <2> QED
    BY <2>1, <2>2
<1> HIDE DEF a, b
<1>5. a \o b \in Seq(Signals) /\ Range(a \o b) = Range(a) \cup Range(b)
  BY <1>1, <1>4, RangeOfConcat
<1>6. OneIn(a \o b, Acting)
  <2>1. \A e \in Range(a) : e \notin Acting
    BY <1>4 DEF Acting, Acts, Prompting, Trying
  <2> QED
    BY <1>1, <1>4, <2>1, OneInConcat
<1>7. OneIn(a \o b, Watches)
  <2>1. \A e \in Range(b) : e \notin Watches
    BY <1>1 DEF Watches, Watch
  <2> QED
    BY <1>1, <1>4, <2>1, OneInConcat
<1>8. ASSUME NEW e \in Range(a \o b), Prompting(e) PROVE \E y \in Range(a \o b) : Watch(y)
  <2>1. toController
    BY <1>8 DEF Prompting, Turns, Wiring
  <2> QED
    BY <1>2, <1>4, <1>5, <2>1 DEF Watch
<1>9. \A e \in Range(a \o b) : /\ ~Trying(e)
                               /\ e.k \notin {"cardEvent", "statusUpdate", "cardsAvailable"}
                               /\ e.k = "certificateReady" => kind[t] = "run"
  BY <1>1, <1>4, <1>5 DEF Trying
<1>10. Says(t, a \o b)
  BY <1>5, <1>6, <1>7, <1>8, <1>9 DEF Says
<1> QED
  BY <1>10 DEF a, b

-----------------------------------------------------------------------------
(* A thread ends; ...                                                      *)
LEMMA EndOthers ==
    ASSUME Inv, Turns, NEW t \in Threads, FreeThread(t)
    PROVE  /\ OthersGoOn(t) /\ kind'[t] = "" /\ ~Works(t)'
           /\ UNCHANGED <<toWindow, toController>>
<1>1. /\ kind' = [kind EXCEPT ![t] = ""] /\ st' = [st EXCEPT ![t] = "free"]
      /\ interrupted' = interrupted \ {t} /\ dialog' = [dialog EXCEPT ![t] = None]
      /\ toThreads' = toThreads \ {t} /\ UNCHANGED <<toWindow, toController>>
  BY DEF FreeThread
<1>2. ThreadTypes
  BY DEF Inv, TypeOK
<1>3. kind'[t] = "" /\ st'[t] = "free" /\ ~Works(t)'
  BY <1>1, <1>2 DEF ThreadTypes, Works
<1>4. \A u \in Threads \ {t} : kind'[u] = kind[u] /\ st'[u] = st[u] /\ dialog'[u] = dialog[u]
  BY <1>1, <1>2 DEF ThreadTypes
<1>5. \A u \in interrupted' : st'[u] # "free"
  <2>1. \A u \in interrupted' : u # t /\ u \in interrupted /\ u \in Threads
    BY <1>1, <1>2 DEF ThreadTypes
  <2> QED
    BY <1>4, <2>1 DEF Turns, Wiring
<1> QED
  BY <1>1, <1>3, <1>4, <1>5 DEF OthersGoOn

(* ... or goes on.                                                         *)
LEMMA MoveOthers ==
    ASSUME Inv, Turns, NEW t \in Threads, NEW x \in {"card", "waiting", "done"},
           x = "done" => kind[t] = "run", st' = [st EXCEPT ![t] = x], SameThread,
           UNCHANGED handlerVars
    PROVE  /\ OthersGoOn(t) /\ kind'[t] = kind[t] /\ st'[t] = x
           /\ UNCHANGED <<toWindow, toController>>
<1>1. UNCHANGED <<kind, interrupted, dialog>> /\ UNCHANGED <<toWindow, toController, toThreads>>
  BY DEF SameThread, handlerVars
<1>2. ThreadTypes
  BY DEF Inv, TypeOK
<1>3. st'[t] = x /\ \A u \in Threads \ {t} : st'[u] = st[u]
  BY <1>2 DEF ThreadTypes
<1>4. \A u \in interrupted' : st'[u] # "free"
  <2>1. \A u \in interrupted : u \in Threads /\ st[u] # "free"
    BY <1>2 DEF ThreadTypes, Turns, Wiring
  <2> QED
    BY <1>1, <1>3, <2>1
<1> QED
  BY <1>1, <1>3, <1>4 DEF OthersGoOn

(* WaitForCardThread.                                                      *)
LEMMA WaitForCardTurns ==
    ASSUME Inv, Inv', Turns, NEW t \in Threads, WaitForCard(t)
    PROVE  Turns'
<1>1. /\ kind[t] = "waitForCard"
      /\ UNCHANGED <<cmd, mode, card, pc, cont, window, live, page, right>>
  BY DEF WaitForCard, mainVars, windowVars
<1>2. Works(t)
  BY <1>1, AliveHasKind DEF Works, Running, Turns, Wiring
<1>3. /\ Says(t, Own(t, "cardsAvailable")) /\ Says(t, Own(t, "failure"))
      /\ Says(t, NoCardStatus(t)) /\ \A e \in Range(NoCardStatus(t)) : e.k = "statusUpdate"
  <2>1. Says(t, Own(t, "cardsAvailable")) /\ Says(t, Own(t, "failure"))
    BY <1>1, OwnSays DEF OwnKinds
  <2>2. Says(t, Own(t, "statusUpdate")) /\ \A e \in Range(Own(t, "statusUpdate")) : e.k = "statusUpdate"
    BY <1>1, OwnSays DEF OwnKinds
  <2>3. Says(t, <<>>) /\ \A e \in Range(<<>>) : e.k = "statusUpdate"
    BY EmptySays, NothingSaid
  <2> QED
    BY <2>1, <2>2, <2>3 DEF NoCardStatus
<1>4. ASSUME NEW s, Says(t, s), End(t, s) PROVE Turns'
  <2>1. queue' = queue \o s /\ FreeThread(t)
    BY <1>4 DEF End, Post
  <2>2. OthersGoOn(t) /\ kind'[t] = "" /\ ~Works(t)' /\ UNCHANGED <<toWindow, toController>>
    BY <2>1, EndOthers
  <2> QED
    BY <1>1, <1>2, <1>4, <2>1, <2>2, WorkerTurns
<1>5. CASE /\ t \notin interrupted /\ NoCardFound
           /\ Post(NoCardStatus(t))
           /\ st' = [st EXCEPT ![t] = "waiting"]
           /\ UNCHANGED handlerVars /\ SameThread
  <2>1. OthersGoOn(t) /\ kind'[t] = kind[t] /\ st'[t] = "waiting" /\ UNCHANGED <<toWindow, toController>>
    BY <1>5, MoveOthers
  <2>2. queue' = queue \o NoCardStatus(t)
    BY <1>5 DEF Post
  <2> QED
    BY <1>1, <1>2, <1>3, <2>1, <2>2, WorkerTurns
<1> QED
  BY <1>3, <1>4, <1>5 DEF WaitForCard

(* What a run thread says, ...                                             *)
LEMMA RunSays ==
    ASSUME Inv, Turns, NEW t \in Threads, kind[t] = "run", NEW o \in RunOutcomes
    PROVE  Says(t, RunSignals(t, o))
<1>1. o \in {"single", "multiple", "unusable", "none", "mismatch", "retriable", "fatal"}
  BY Inputs
<1>2. CASE o \in {"single", "multiple", "unusable"}
  <2>1. RunSignals(t, o) = CertificatesReady(o)
    BY <1>2 DEF RunSignals
  <2>2. "certificateReady" # "verifyPinFailed" /\ o \in {"", "single", "multiple", "unusable", "again", "fatal"}
        /\ "certificateReady" \in {"certificateReady", "verifyPinFailed"}
    BY <1>2
  <2>3. Says(t, CertificatesReady(o))
    BY <2>2, PromptSays DEF CertificatesReady
  <2> QED
    BY <2>1, <2>3
<1>3. CASE o = "none"
  <2>1. RunSignals(t, o) = HandlerRetry
    BY <1>3 DEF RunSignals
  <2> QED
    BY <2>1, RetrySays
<1>4. CASE o = "mismatch"
  <2>1. RunSignals(t, o) = HandlerToWindows("mismatch", "")
    BY <1>4 DEF RunSignals
  <2> QED
    BY <2>1, MismatchSays
<1>5. CASE o = "retriable"
  <2>1. RunSignals(t, o) = Own(t, "retry")
    BY <1>5 DEF RunSignals
  <2> QED
    BY <2>1, OwnSays DEF OwnKinds
<1>6. CASE o = "fatal"
  <2>1. RunSignals(t, o) = Own(t, "failure")
    BY <1>6 DEF RunSignals
  <2> QED
    BY <2>1, OwnSays DEF OwnKinds
<1> QED
  BY <1>1, <1>2, <1>3, <1>4, <1>5, <1>6

(* finished() gives nobody the turn.                                       *)
LEMMA EndedIsDull ==
    ASSUME NEW t \in Threads
    PROVE  Dull(Ended(t))
<1> DEFINE e == Sig("finished", t)
<1>1. e \in Signals /\ e.k \notin LoudKinds
  BY ZeroLevel DEF Sig, Signals, SignalKinds, ThreadSignals, LoudKinds
<1> HIDE DEF e
<1>2. Dull(<<e>>)
  BY <1>1, SingletonRange DEF Dull
<1>3. Dull(<<>>)
  BY NothingSaid DEF Dull
<1> QED
  BY <1>2, <1>3 DEF Ended, e

(* CommandHandlerRunThread keeps the turns.                                *)
LEMMA RunCommandTurns ==
    ASSUME Inv, Inv', Turns, NEW t \in Threads, RunCommand(t)
    PROVE  Turns'
<1>1. /\ kind[t] = "run" /\ st[t] = "ready" /\ st' = [st EXCEPT ![t] = "done"]
      /\ SameThread /\ UNCHANGED handlerVars
      /\ UNCHANGED <<cmd, mode, card, pc, cont, window, live, page, right>>
  BY DEF RunCommand, Goto, ChildOnly, mainVars, windowVars, envVars
<1>2. Works(t)
  BY <1>1 DEF Works, Running
<1>3. PICK o \in RunOutcomes : Post(RunSignals(t, o) \o Ended(t))
  BY DEF RunCommand
<1> DEFINE s == RunSignals(t, o) \o Ended(t)
<1>4. Says(t, s)
  BY <1>1, RunSays, EndedIsDull, DullAfter
<1>5. queue' = queue \o s
  BY <1>3 DEF Post
<1>6. OthersGoOn(t) /\ kind'[t] = kind[t] /\ st'[t] = "done" /\ UNCHANGED <<toWindow, toController>>
  BY <1>1, MoveOthers
<1>7. ~Works(t)'
  BY <1>6 DEF Works, Running
<1> HIDE DEF s
<1> QED
  BY <1>1, <1>2, <1>4, <1>5, <1>6, <1>7, WorkerTurns

(* getPin().                                                               *)
LEMMA GetPinTurns ==
    ASSUME Inv, Inv', Turns, NEW t \in Threads, GetPin(t)
    PROVE  Turns'
<1>1. /\ kind[t] = "confirm" /\ st[t] = "ready"
      /\ UNCHANGED <<cmd, mode, card, pc, cont, window, live, page, right>>
  BY DEF GetPin, envVars, mainVars
<1>2. Works(t)
  BY <1>1 DEF Works, Running
<1>3. ASSUME Goto(t, "ready", "card"), UNCHANGED <<queue, handlerVars>>, SameThread PROVE Turns'
  <2>1. st' = [st EXCEPT ![t] = "card"] /\ UNCHANGED handlerVars
    BY <1>3 DEF Goto
  <2>2. OthersGoOn(t) /\ kind'[t] = kind[t] /\ st'[t] = "card" /\ UNCHANGED <<toWindow, toController>>
    BY <1>3, <2>1, MoveOthers
  <2>3. queue' = queue \o <<>>
    <3>1. queue \in Seq(Signals)
      BY DEF Inv, TypeOK, MainTypes
    <3> QED
      BY <1>3, <3>1
  <2>4. Says(t, <<>>) /\ \A e \in Range(<<>>) : e.k = "statusUpdate"
    BY EmptySays, NothingSaid
  <2> QED
    BY <1>1, <1>2, <2>2, <2>3, <2>4, WorkerTurns
<1>4. ASSUME End(t, Own(t, "failure")) PROVE Turns'
  <2>1. queue' = queue \o Own(t, "failure") /\ FreeThread(t)
    BY <1>4 DEF End, Post
  <2>2. OthersGoOn(t) /\ kind'[t] = "" /\ ~Works(t)' /\ UNCHANGED <<toWindow, toController>>
    BY <2>1, EndOthers
  <2>3. Says(t, Own(t, "failure"))
    BY OwnSays DEF OwnKinds
  <2> QED
    BY <1>1, <1>2, <2>1, <2>2, <2>3, WorkerTurns
<1> QED
  BY <1>3, <1>4 DEF GetPin

(* ... and what a confirm thread says.                                     *)
LEMMA PinFailedSays ==
    ASSUME Inv, Turns, NEW t \in Threads, cmd # "get-signing-certificate", NEW d \in {"again", "fatal"}
    PROVE  Says(t, VerifyPinFailed(d))
<1>1. "verifyPinFailed" \in {"certificateReady", "verifyPinFailed"} /\ "verifyPinFailed" # "certificateReady"
      /\ d \in {"", "single", "multiple", "unusable", "again", "fatal"}
  OBVIOUS
<1> QED
  BY <1>1, PromptSays DEF VerifyPinFailed

(* Whatever the outcome of the card.                                       *)
LEMMA ConfirmSays ==
    ASSUME Inv, Turns, NEW t \in Threads, NEW s, Outcome(t, s)
    PROVE  Says(t, s)
<1>1. DialogTypes
  BY DEF Inv, TypeOK
<1>2. /\ Says(t, Own(t, "completed")) /\ Says(t, Own(t, "cancel")) /\ Says(t, Own(t, "failure"))
      /\ Says(t, Own(t, "retry")) /\ Dull(Own(t, "failure"))
  <2>1. Says(t, Own(t, "completed")) /\ Says(t, Own(t, "cancel")) /\ Says(t, Own(t, "failure"))
        /\ Says(t, Own(t, "retry"))
    BY OwnSays DEF OwnKinds
  <2> QED
    BY <2>1, OwnIsDull
<1>3. Says(t, <<>>) /\ Says(t, HandlerRetry)
  BY EmptySays, RetrySays
<1>4. CASE s = HandlerRetry \o Own(t, "failure")
  BY <1>2, <1>3, <1>4, DullAfter
<1>5. ASSUME cmd # "get-signing-certificate", NEW d \in {"again", "fatal"},
             s = VerifyPinFailed(d) \/ s = VerifyPinFailed(d) \o Own(t, "failure")
      PROVE  Says(t, s)
  <2>1. Says(t, VerifyPinFailed(d))
    BY <1>5, PinFailedSays
  <2>2. Says(t, VerifyPinFailed(d) \o Own(t, "failure"))
    BY <1>2, <2>1, DullAfter
  <2> QED
    BY <1>5, <2>1, <2>2
<1> QED
  BY <1>1, <1>2, <1>3, <1>4, <1>5, OutcomeShape

(* CommandHandlerConfirmThread keeps the turns.                            *)
LEMMA ConfirmEndsTurns ==
    ASSUME Inv, Inv', Turns, NEW t \in Threads, Confirm(t)
    PROVE  Turns'
<1>1. /\ kind[t] = "confirm" /\ st[t] = "card"
      /\ UNCHANGED <<cmd, mode, card, pc, cont, window, live, page, right>>
  BY DEF Confirm, ChildOnly, envVars, mainVars, windowVars
<1>2. Works(t)
  BY <1>1 DEF Works, Running
<1>3. PICK s : Outcome(t, s) /\ End(t, s)
  BY ConfirmOutcome
<1>4. queue' = queue \o s /\ FreeThread(t)
  BY <1>3 DEF End, Post
<1>5. OthersGoOn(t) /\ kind'[t] = "" /\ ~Works(t)' /\ UNCHANGED <<toWindow, toController>>
  BY <1>4, EndOthers
<1>6. Says(t, s)
  BY <1>3, ConfirmSays
<1> QED
  BY <1>1, <1>2, <1>4, <1>5, <1>6, WorkerTurns

-----------------------------------------------------------------------------
(* A monitor ends and says nothing: nobody wanted it any more.             *)
LEMMA MonitorEndsTurns ==
    ASSUME Inv, Inv', Turns, NEW t \in Threads, FreeThread(t), queue' = queue,
           ~Watching(t) \/ window = None,
           UNCHANGED <<cmd, mode, card, pc, cont, windowVars>>
    PROVE  Turns'
<1>1. QuietThreads /\ QuietDialogs
  BY FreeThreadQuiet, FreeThreadDialogsQuiet
<1>2. window' = window
  BY DEF windowVars
<1>3. window # None => (WatchThread => WatchThread')
  <2>1. ThreadTypes
    BY DEF Inv, TypeOK
  <2>2. \A u \in Threads \ {t} : Watching(u) => Watching(u)'
    BY <2>1 DEF FreeThread, ThreadTypes, Watching, Running
  <2> QED
    BY <2>2 DEF WatchThread
<1>4. WatchSignal => WatchSignal'
  BY DEF WatchSignal, Watch, Posted
<1>5. Calmer(queue', queue)
  BY QueueIsCalm
<1>6. Quiet
  BY <1>1, <1>2, <1>3, <1>4, <1>5 DEF Quiet, QuietMain, StillWatched
<1> QED
  BY <1>6, QuietTurns

(* The card has gone: the turn is Controller's, to start again.            *)
LEMMA CardEventTurns ==
    ASSUME Inv, Inv', Turns, NEW t \in Threads, FreeThread(t), Watching(t), MaxCardMoves # 0,
           queue' = queue \o <<Sig("cardEvent", None)>>,
           UNCHANGED <<cmd, mode, card, pc, cont, window, live, page, right, choice, pin>>
    PROVE  Turns'
<1> DEFINE x == Sig("cardEvent", None)
           s == <<x>>
<1>1. /\ OneTurn /\ Wiring /\ OneWatch /\ StatusIsOver
  BY DEF Turns
<1>2. /\ ~WatchSignal /\ ~ThreadTurn /\ ~Offered /\ cont # "restart"
      /\ \A e \in Posted : ~Trying(e)
      /\ \A u \in Threads \ {t} : ~Watching(u)
  BY <1>1 DEF OneWatch, WatchThread
<1>3. x \in Signals /\ s \in Seq(Signals) /\ Range(s) = {x} /\ x.k = "cardEvent"
  <2>1. "cardEvent" \in OwnKinds
    BY DEF OwnKinds
  <2> QED
    BY <2>1, ControllerSignal DEF Emission
<1>4. Len(s) <= 1
  BY SingleLength
<1>5. queue' = queue \o s
  OBVIOUS
<1> HIDE DEF x, s
<1>6. queue \in Seq(Signals)
  BY DEF Inv, TypeOK, MainTypes
<1>7. Posted' = Posted \cup {x}
  BY <1>3, <1>5, <1>6, RangeOfConcat DEF Posted
<1>8. ~Acts(x) /\ ~Prompting(x) /\ ~Trying(x) /\ Watch(x)
  BY <1>3 DEF Acts, Prompting, Trying, Watch
<1>9. OthersGoOn(t) /\ kind'[t] = "" /\ ~Works(t)' /\ UNCHANGED <<toWindow, toController>>
  BY EndOthers
<1>10. \A u \in Threads : /\ ~Works(u)' /\ ~Waits(u)' /\ ~Reads(u)' /\ ~Watching(u)'
  <2>1. \A u \in Threads \ {t} : ~Works(u) /\ ~Watching(u)
    BY <1>2 DEF ThreadTurn
  <2>2. \A u \in Threads \ {t} : kind'[u] = kind[u] /\ st'[u] = st[u] /\ (u \in interrupted => u \in interrupted')
    BY <1>9 DEF OthersGoOn
  <2> QED
    BY <1>9, <2>1, <2>2 DEF Works, Waits, Reads, Watching, Running
<1>11. \A e \in Posted' : /\ Acts(e)' <=> Acts(e)
                          /\ Prompting(e)' <=> Prompting(e)
                          /\ Trying(e)' <=> Trying(e)
  BY DEF Acts, Prompting, Trying
<1>12. (Offered' <=> Offered) /\ (UserTurn' <=> UserTurn)
  BY DEF Asked, Offered, UserTurn
<1>13. (SignalTurn' <=> SignalTurn) /\ ~ThreadTurn' /\ ~WatchThread' /\ WatchSignal'
  BY <1>7, <1>8, <1>10, <1>11 DEF SignalTurn, ThreadTurn, WatchThread, WatchSignal, Watch
<1>14. OneIn(queue', Acting')
  <2>1. \A e \in Range(s) : e \notin Acting
    BY <1>3, <1>8 DEF Acting
  <2>2. OneIn(queue, Acting) /\ OneIn(s, Acting)
    BY <1>1, <1>3, <1>4, SingleIn DEF OneTurn
  <2>3. OneIn(queue \o s, Acting)
    BY <1>3, <1>6, <2>1, <2>2, OneInConcat
  <2>4. Acting' = Acting
    BY DEF Acting, Acts, Prompting, Trying
  <2> QED
    BY <1>5, <2>3, <2>4
<1>15. OneTurn'
  BY <1>1, <1>2, <1>10, <1>12, <1>13, <1>14 DEF OneTurn
<1>16. Wiring'
  <2>1. CardSignal' <=> CardSignal
    BY <1>3, <1>7 DEF CardSignal
  <2>2. /\ toThreads' \subseteq toThreads
        /\ \A u \in interrupted' : st'[u] # "free"
        /\ \A u \in Threads : st'[u] = "done" => kind'[u] = "run"
    BY <1>1, <1>9 DEF OthersGoOn, Wiring
  <2>3. (\E u \in Threads : Waits(u)') \/ CardSignal' \/ pc' = "start" => toWindow' = <<>> /\ toThreads' = {}
    BY <1>1, <1>9, <1>10, <2>1, <2>2 DEF Wiring
  <2> QED
    BY <1>1, <1>9, <2>2, <2>3 DEF Wiring
<1>17. SteadyCard'
  BY DEF SteadyCard
<1>18. OneWatch'
  <2>1. OneIn(queue', Watches')
    <3>1. \A e \in Range(queue) : e \notin Watches
      BY <1>2 DEF WatchSignal, Watches, Posted
    <3>2. OneIn(queue, Watches) /\ OneIn(s, Watches)
      BY <1>1, <1>3, <1>4, SingleIn DEF OneWatch
    <3>3. OneIn(queue \o s, Watches)
      BY <1>3, <1>6, <3>1, <3>2, OneInConcat
    <3>4. Watches' = Watches
      BY DEF Watches, Watch
    <3> QED
      BY <1>5, <3>3, <3>4
  <2>2. \A w \in Windows : page'[w] # "pinpad"
    BY <1>1 DEF OneWatch
  <2>3. ~((\E e \in Posted' : Trying(e)') \/ Offered' \/ cont' = "restart")
    BY <1>2, <1>7, <1>8, <1>11, <1>12
  <2> QED
    BY <1>10, <1>13, <2>1, <2>2, <2>3 DEF OneWatch
<1>19. Monitored'
  BY <1>13 DEF Monitored
<1>20. StatusIsOver'
  <2>1. Before(queue', Statuses', Cards')
    <3>1. Before(queue, Statuses, Cards)
      BY <1>1 DEF StatusIsOver
    <3>2. \A e \in Range(s) : e \notin Statuses
      BY <1>3 DEF Statuses
    <3>3. Before(s, Statuses, Cards)
      BY <1>3, <3>2, NoneIn
    <3>4. Before(queue \o s, Statuses, Cards)
      BY <1>3, <1>6, <3>1, <3>2, <3>3, BeforeInConcat
    <3>5. Statuses' = Statuses /\ Cards' = Cards
      BY DEF Statuses, Cards
    <3> QED
      BY <1>5, <3>4, <3>5
  <2>2. (\E e \in Posted' : e.k = "certificateReady" /\ e.o = window') =>
            \E e \in Posted : e.k = "certificateReady" /\ e.o = window
    BY <1>3, <1>7
  <2>3. (\E e \in Posted : e.k = "certificateReady" /\ e.o = window) =>
           (\A e \in Posted' : e.k # "statusUpdate") /\ (window' # None => right'[window'])
    BY <1>1, <1>3, <1>7 DEF StatusIsOver
  <2> QED
    BY <1>10, <2>1, <2>2, <2>3 DEF StatusIsOver
<1>21. PinForEveryConfirm'
  BY <1>10 DEF PinForEveryConfirm, Works, Running
<1> QED
  BY <1>15, <1>16, <1>17, <1>18, <1>19, <1>20, <1>21 DEF Turns

(* CardEventMonitorThread.                                                 *)
LEMMA MonitorCardsTurns ==
    ASSUME Inv, Inv', Turns, NEW t \in Threads, MonitorCards(t)
    PROVE  Turns'
<1>1. /\ kind[t] = "monitor"
      /\ UNCHANGED <<cmd, mode, card, pc, cont, windowVars>>
      /\ UNCHANGED <<window, live, page, right, choice, pin>>
  BY DEF MonitorCards, mainVars, windowVars
<1>2. queue \in Seq(Signals) /\ ThreadTypes /\ moves \in 0 .. MaxCardMoves
  BY DEF Inv, TypeOK, MainTypes, EnvTypes
<1>3. CASE /\ card /\ t \notin interrupted /\ Goto(t, "ready", "waiting")
           /\ UNCHANGED <<moves, queue, handlerVars>> /\ SameThread
  <2>1. /\ st[t] = "ready" /\ st'[t] = "waiting" /\ \A u \in Threads \ {t} : st'[u] = st[u]
        /\ UNCHANGED <<kind, interrupted, dialog, toWindow, toController, toThreads>>
    BY <1>2, <1>3 DEF ThreadTypes, Goto, SameThread, handlerVars
  <2>2. QuietThreads
    BY <1>1, <1>2, <1>3, <2>1 DEF QuietThreads, Running, ThreadTypes, Turns, Wiring
  <2>3. QuietDialogs
    BY <1>1, <2>1, SameDialogsQuiet
  <2>4. WatchThread => WatchThread'
    BY <2>1 DEF WatchThread, Watching, Running
  <2>5. WatchSignal => WatchSignal'
    BY <1>3 DEF WatchSignal, Watch, Posted
  <2>6. Calmer(queue', queue)
    BY <1>3, QueueIsCalm
  <2>7. Quiet
    BY <1>1, <2>2, <2>3, <2>4, <2>5, <2>6 DEF Quiet, QuietMain, StillWatched
  <2> QED
    BY <1>1, <2>7, QuietTurns
<1>4. CASE t \in interrupted /\ End(t, <<>>) /\ UNCHANGED moves
  <2>1. queue' = queue /\ FreeThread(t)
    BY <1>2, <1>4 DEF End, Post
  <2> QED
    BY <1>1, <1>4, <2>1, MonitorEndsTurns DEF Watching
<1>5. CASE st[t] = "waiting" /\ t \notin interrupted /\ NoCardFound /\ End(t, Own(t, "cardEvent"))
  <2>1. queue' = queue \o Own(t, "cardEvent") /\ FreeThread(t) /\ Watching(t)
    BY <1>1, <1>5 DEF End, Post, Watching, Running
  <2>2. CASE t \in connected
    <3>1. queue' = queue \o <<Sig("cardEvent", None)>>
      BY <2>1, <2>2 DEF Own
    <3>2. MaxCardMoves # 0
      <4>1. MaxCardMoves = 0 => card
        BY <1>1, <1>5 DEF Turns, SteadyCard
      <4>2. card => moves < MaxCardMoves
        BY <1>5 DEF NoCardFound
      <4> QED
        BY <1>2, <4>1, <4>2
    <3> QED
      BY <1>1, <2>1, <3>1, <3>2, CardEventTurns
  <2>3. CASE t \notin connected
    <3>1. pc = "join"
      BY <1>5, <2>3 DEF Inv, ThreadsAreKept
    <3>2. window = None
      BY <3>1 DEF Inv, JoinWaitsForAll
    <3>3. queue' = queue
      BY <1>2, <2>1, <2>3 DEF Own
    <3> QED
      BY <1>1, <2>1, <3>2, <3>3, MonitorEndsTurns
  <2> QED
    BY <2>2, <2>3
<1> QED
  BY <1>3, <1>4, <1>5 DEF MonitorCards

(* Every step of a thread keeps the turns.                                 *)
LEMMA ThreadStepTurns ==
    ASSUME Inv, Inv', Turns, NEW t \in Threads, ThreadStep(t)
    PROVE  Turns'
BY WaitForCardTurns, MonitorCardsTurns, RunCommandTurns, GetPinTurns, ConfirmEndsTurns DEF ThreadStep

-----------------------------------------------------------------------------
(* A slot that is quiet, ...                                               *)
LEMMA QuietSlot ==
    ASSUME Inv, Inv', Turns, Quiet, cont' = cont \/ cont' # "restart"
    PROVE  Turns'
<1>1. cont' = "restart" => cont = "restart" \/ NobodyIsNext
  OBVIOUS
<1> QED
  BY <1>1, QuietTurns

(* ... and what is left to be delivered with it.                           *)
LEMMA TakenLeaves ==
    ASSUME NEW e, NEW q, Taken(e, q), ~Watch(e)
    PROVE  Calmer(q, queue) /\ WatchLeft(q)
BY DEF Taken, WatchLeft

(* A signal that gives the turn to its receiver.                           *)
LEMMA TurnOfSignal ==
    ASSUME Inv, Turns, NEW e, NEW q, Taken(e, q), Acts(e)
    PROVE  /\ ~ThreadTurn /\ ~UserTurn /\ Calmer(q, queue)
           /\ \A x \in Range(q) : ~Acts(x) /\ ~Trying(x)
           /\ Prompting(e) => WatchThread \/ \E x \in Range(q) : Watch(x)
           /\ Trying(e) /\ MaxCardMoves # 0 => ~WatchThread /\ \A x \in Range(q) : ~Watch(x)
<1>1. e \in Posted /\ Calmer(q, queue) /\ Posted = Range(q) \cup {e} /\ \A x \in Range(q) : ~Acts(x)
  BY DEF Taken
<1>2. SignalTurn
  BY <1>1 DEF SignalTurn
<1>3. ~ThreadTurn /\ ~UserTurn
  BY <1>2 DEF Turns, OneTurn
<1>4. Prompting(e) => WatchThread \/ \E x \in Range(q) : Watch(x)
  <2>1. Prompting(e) => ~Watch(e)
    BY DEF Prompting, Watch
  <2>2. Prompting(e) => WatchThread \/ WatchSignal
    BY <1>1 DEF Turns, Monitored
  <2> QED
    BY <1>1, <2>1, <2>2 DEF WatchSignal
<1>5. Trying(e) /\ MaxCardMoves # 0 => ~WatchThread /\ \A x \in Range(q) : ~Watch(x)
  BY <1>1 DEF Turns, OneWatch, WatchSignal
<1> QED
  BY <1>1, <1>3, <1>4, <1>5 DEF Acts

(* The page after a failed PIN: the user is asked again, has nothing left  *)
(* to choose or, with a PIN pad, is offered to try again.                  *)
LEMMA AfterPinFailure ==
    ASSUME NEW p \in Pages, NEW d
    PROVE  /\ \/ PageAfterPinFailure(p, d) \in {"select", "pin", "retry", "blocked", "alert"}
              \/ PageAfterPinFailure(p, d) = "wait" /\ p = "wait"
           /\ PageAfterPinFailure(p, d) = "retry" => p = "pinpad"
<1>1. CASE d = "fatal" /\ p \in {"pin", "pinpad", "busy", "blocked"}
  BY <1>1 DEF PageAfterPinFailure
<1>2. CASE d # "fatal" /\ p = "pinpad"
  BY <1>2 DEF PageAfterPinFailure
<1>3. CASE d # "fatal" /\ p \in {"busy", "pin"}
  BY <1>3 DEF PageAfterPinFailure
<1>4. CASE d # "fatal" /\ p \in {"select", "blocked"}
  BY <1>4 DEF PageAfterPinFailure
<1>5. CASE p \in {"wait", "alert"}
  <2>1. PageAfterPinFailure(p, d) = p
    BY <1>5 DEF PageAfterPinFailure
  <2> QED
    BY <1>5, <2>1
<1>6. CASE /\ ~(d = "fatal" /\ p \in {"pin", "pinpad", "busy", "blocked"})
           /\ ~(d # "fatal" /\ p \in {"pinpad", "busy", "pin", "select", "blocked"})
           /\ p \notin {"wait", "alert"}
  <2>1. PageAfterPinFailure(p, d) = "alert"
    BY <1>6 DEF PageAfterPinFailure
  <2> QED
    BY <2>1
<1> QED
  BY <1>1, <1>2, <1>3, <1>4, <1>5, <1>6

(* A page that the user has something to do on.                            *)
LEMMA PageOnlyTurns ==
    ASSUME Inv, Inv', Turns, NEW q, Calmer(q, queue), ~ThreadTurn, \A x \in Range(q) : ~Acts(x),
           window # None, pc = "loop",
           NEW p \in {"select", "pin", "retry", "blocked", "alert"}, PageOnly(window, p, q),
           p \in {"select", "pin"} => WatchThread \/ \E x \in Range(q) : Watch(x),
           p = "retry" /\ MaxCardMoves # 0 => ~WatchThread /\ \A x \in Range(q) : ~Watch(x)
    PROVE  Turns'
<1>1. /\ page' = [page EXCEPT ![window] = p] /\ queue' = q /\ pc # "start"
      /\ UNCHANGED <<window, live, right, pin, threadVars, handlerVars, mainVars, envVars>>
  BY DEF PageOnly, ShowPage
<1> QED
  BY <1>1, PageTurns

(* The dialog is told of a certificate, by the run thread or by the user.  *)
LEMMA SingleCertificateTurns ==
    ASSUME Inv, Inv', Turns, Calm, NEW q, Calmer(q, queue), ~ThreadTurn, \A x \in Range(q) : ~Acts(x),
           WatchThread \/ \E x \in Range(q) : Watch(x), window # None, pc = "loop",
           NEW d, OnSingleCertificateReady(window, d, q)
    PROVE  Turns'
<1>1. CASE OnCriticalFailure(q)
  BY <1>1, CriticalFailureQuiet, QuietSlot
<1>2. CASE PageOnly(window, "blocked", q)
  BY <1>2, PageOnlyTurns
<1>3. CASE PageOnly(window, "select", q)
  BY <1>3, PageOnlyTurns
<1>4. CASE PageOnly(window, "pin", q)
  BY <1>4, PageOnlyTurns
<1>5. CASE /\ mode = "pinpad" /\ ShowPage(window, "pinpad") /\ OnConfirmCommandHandler(q)
           /\ UNCHANGED <<window, live, right, choice, pin>>
  <2>1. MaxCardMoves = 0
    BY <1>5 DEF Calm, Unhurried, Inv, TypeOK, EnvTypes
  <2>2. ~NeedsPin
    BY <1>5 DEF NeedsPin
  <2>3. page' = [page EXCEPT ![window] = "pinpad"] /\ pc # "start"
    BY <1>5 DEF ShowPage
  <2>4. UNCHANGED <<window, live, right, choice>> /\ UNCHANGED pin /\ OnConfirmCommandHandler(q)
    BY <1>5
  <2> QED
    BY <2>1, <2>2, <2>3, <2>4, ConfirmTurns
<1> QED
  BY <1>1, <1>2, <1>3, <1>4, <1>5 DEF OnSingleCertificateReady, PromptForPin

(* Several certificates: the user is asked for one.                        *)
LEMMA MultipleCertificatesTurns ==
    ASSUME Inv, Inv', Turns, NEW q, Calmer(q, queue), ~ThreadTurn, \A x \in Range(q) : ~Acts(x),
           WatchThread \/ \E x \in Range(q) : Watch(x), window # None, pc = "loop",
           OnMultipleCertificatesReady(window, q)
    PROVE  Turns'
<1>1. CASE OnCriticalFailure(q)
  BY <1>1, CriticalFailureQuiet, QuietSlot
<1>2. CASE /\ ShowPage(window, "select") /\ queue' = q
           /\ UNCHANGED <<window, live, right, pin, threadVars, handlerVars, mainVars, envVars>>
  <2>1. page' = [page EXCEPT ![window] = "select"] /\ pc # "start"
    BY <1>2 DEF ShowPage
  <2> QED
    BY <1>2, <2>1, PageTurns
<1> QED
  BY <1>1, <1>2 DEF OnMultipleCertificatesReady

(* onVerifyPinFailed: the user is asked again.                             *)
LEMMA PinFailedTurns ==
    ASSUME Inv, Inv', Turns, NEW q, Calmer(q, queue), ~ThreadTurn, \A x \in Range(q) : ~Acts(x),
           WatchThread \/ \E x \in Range(q) : Watch(x), WatchLeft(q), window # None, pc = "loop",
           NEW d, OnVerifyPinFailed(window, d, q)
    PROVE  Turns'
<1> DEFINE p == PageAfterPinFailure(page[window], d)
<1>1. window \in Windows /\ page[window] \in Pages
  BY DEF Inv, TypeOK, DialogTypes
<1>2. /\ p \in {"select", "pin", "retry", "blocked", "alert"} \/ (p = "wait" /\ page[window] = "wait")
      /\ p = "retry" => page[window] = "pinpad"
  BY <1>1, AfterPinFailure
<1>3. PageOnly(window, p, q)
  BY DEF OnVerifyPinFailed
<1>4. p = "retry" => MaxCardMoves = 0
  BY <1>1, <1>2 DEF Turns, OneWatch
<1> HIDE DEF p
<1>5. CASE p \in {"select", "pin", "retry", "blocked", "alert"}
  BY <1>3, <1>4, <1>5, PageOnlyTurns
<1>6. CASE p = "wait"
  <2>1. /\ page' = [page EXCEPT ![window] = "wait"] /\ queue' = q /\ pc # "start" /\ right' = right
        /\ UNCHANGED <<window, live, choice, pin, threadVars, handlerVars, mainVars, envVars>>
    BY <1>3, <1>6 DEF PageOnly, ShowPage
  <2>2. Quiet /\ cont' = cont
    BY <2>1, DullPageQuiet
  <2> QED
    BY <2>2, QuietSlot
<1> QED
  BY <1>2, <1>5, <1>6

(* The slots of the dialog.                                                *)
LEMMA DeliverToWindowTurns ==
    ASSUME Inv, Inv', Turns, Calm, NEW e, NEW q, Taken(e, q), Addressed(e), pc = "loop",
           e.k \in WindowSignals \ {"deleteWindow"}, DeliverToWindow(e, q)
    PROVE  Turns'
<1>1. CASE e.o # window /\ Ignored(q)
  <2>1. ~Watch(e)
    BY DEF Watch, WindowSignals
  <2> QED
    BY <1>1, <2>1, TakenLeaves, IgnoredQuiet, QuietSlot
<1>2. CASE e.o = window
  <2>1. window # None
    <3>1. window \in live /\ live \subseteq Windows
      BY <1>2 DEF Addressed, Inv, TypeOK, DialogTypes
    <3>2. None \notin Windows
      BY NoneIsNoObject DEF Inv, TypeOK
    <3> QED
      BY <3>1, <3>2
  <2>2. /\ e.k \in {"certificateReady", "verifyPinFailed"} => Prompting(e)
        /\ e.k = "mismatch" => Trying(e)
        /\ Acts(e)
    BY <1>2, <2>1 DEF Acts, Prompting, Trying, WindowSignals
  <2>3. /\ ~ThreadTurn /\ Calmer(q, queue)
        /\ \A x \in Range(q) : ~Acts(x)
        /\ Prompting(e) => WatchThread \/ \E x \in Range(q) : Watch(x)
        /\ Trying(e) /\ MaxCardMoves # 0 => ~WatchThread /\ \A x \in Range(q) : ~Watch(x)
    BY <2>2, TurnOfSignal
  <2>4. CASE e.k = "certificateReady" /\ e.d = "multiple" /\ OnMultipleCertificatesReady(window, q)
    BY <2>1, <2>2, <2>3, <2>4, MultipleCertificatesTurns
  <2>5. CASE e.k = "certificateReady" /\ e.d # "multiple" /\ OnSingleCertificateReady(window, e.d, q)
    BY <2>1, <2>2, <2>3, <2>5, SingleCertificateTurns
  <2>6. CASE e.k = "mismatch" /\ PageOnly(window, "retry", q)
    BY <2>1, <2>2, <2>3, <2>6, PageOnlyTurns
  <2>7. CASE e.k = "verifyPinFailed" /\ OnVerifyPinFailed(window, e.d, q)
    <3>1. WatchLeft(q)
      BY <2>7, TakenLeaves DEF Watch, WindowSignals
    <3> QED
      BY <2>1, <2>2, <2>3, <2>7, <3>1, PinFailedTurns
  <2> QED
    BY <1>2, <2>4, <2>5, <2>6, <2>7 DEF DeliverToWindow
<1> QED
  BY <1>1, <1>2 DEF DeliverToWindow

(* Controller::retry.                                                      *)
LEMMA RetrySignalTurns ==
    ASSUME Inv, Inv', Turns, NEW e, NEW q, Taken(e, q), Trying(e), pc = "loop", OnRetrySignal(q)
    PROVE  Turns'
<1>1. ~Watch(e)
  BY DEF Trying, Watch
<1>2. CASE window = None /\ Ignored(q)
  BY <1>1, <1>2, TakenLeaves, IgnoredQuiet, QuietSlot
<1>3. CASE window # None /\ PageOnly(window, "retry", q)
  <2>1. /\ ~ThreadTurn /\ Calmer(q, queue)
        /\ \A x \in Range(q) : ~Acts(x)
        /\ MaxCardMoves # 0 => ~WatchThread /\ \A x \in Range(q) : ~Watch(x)
    BY TurnOfSignal DEF Acts
  <2> QED
    BY <1>3, <2>1, PageOnlyTurns
<1> QED
  BY <1>2, <1>3 DEF OnRetrySignal

(* The card has gone: startCommandExecution over again.                    *)
LEMMA CardEventSlotTurns ==
    ASSUME Inv, Inv', Turns, NEW e, NEW q, Taken(e, q), e.k = "cardEvent", OnRetry(q)
    PROVE  Turns'
<1>1. e \in Posted /\ Calmer(q, queue) /\ Posted = Range(q) \cup {e} /\ Watch(e)
  BY DEF Taken, Watch
<1>2. MaxCardMoves # 0 /\ WatchSignal
  BY <1>1 DEF Turns, SteadyCard, WatchSignal
<1>3. ~WatchThread /\ ~ThreadTurn /\ \A x \in Range(q) : ~Trying(x) /\ ~Watch(x)
  BY <1>1, <1>2 DEF Turns, OneWatch, Taken
<1> QED
  BY <1>1, <1>3, RetryTurns

(* The slots of Controller.                                                *)
LEMMA DeliverToControllerTurns ==
    ASSUME Inv, Inv', Turns, NEW e, NEW q, Taken(e, q), pc = "loop", DeliverToController(e, q)
    PROVE  Turns'
<1>1. pc # "start" /\ Calmer(q, queue) /\ e \in Posted
  BY DEF Taken
<1>2. CASE e.k = "cardsAvailable" /\ OnCardsAvailable(q)
  <2>1. CASE OnCriticalFailure(q)
    BY <1>1, <2>1, CriticalFailureQuiet, QuietSlot
  <2>2. CASE /\ window # None /\ StartThread("run", None)
             /\ page' = [page EXCEPT ![window] = "wait"]
             /\ right' = [right EXCEPT ![window] = TRUE]
             /\ toWindow' = Append(toWindow, window)
             /\ toThreads' = toThreads \cup {Min(FreeThreads)}
             /\ queue' = q
             /\ UNCHANGED <<interrupted, window, live, choice, pin, toController, mainVars, envVars>>
    BY <1>1, <1>2, <2>2, CardsAvailableTurns
  <2> QED
    BY <1>2, <2>1, <2>2 DEF OnCardsAvailable
<1>3. CASE e.k = "statusUpdate" /\ OnSmartCardStatusUpdate(q)
  <2>1. ~Watch(e)
    BY <1>3 DEF Watch
  <2> QED
    BY <1>1, <1>3, <2>1, TakenLeaves, StatusUpdateQuiet, QuietSlot
<1>4. CASE e.k = "certificatesLoaded" /\ OnCertificatesLoaded(q)
  BY <1>1, <1>4, CertificatesLoadedTurns
<1>5. CASE e.k = "cardEvent" /\ OnRetry(q)
  BY <1>5, CardEventSlotTurns
<1>6. CASE e.k = "retry" /\ OnRetrySignal(q)
  BY <1>6, RetrySignalTurns DEF Trying
<1>7. CASE OnCommandHandlerConfirmCompleted(q) \/ OnDialogCancel(q)
  <2>1. Finish(q)
    BY <1>7 DEF OnCommandHandlerConfirmCompleted, OnDialogCancel
  <2> QED
    BY <1>1, <2>1, FinishQuiet, QuietSlot
<1>8. CASE OnCriticalFailure(q)
  BY <1>1, <1>8, CriticalFailureQuiet, QuietSlot
<1>9. CASE /\ e.k = "quit" /\ quitting' = TRUE /\ pc' = "unwind" /\ queue' = q
           /\ UNCHANGED <<cont, depth, joinVars, responses, windowVars, threadVars, handlerVars, envVars>>
  <2>1. ~Watch(e)
    BY <1>9 DEF Watch
  <2>2. Calmer(queue', queue) /\ WatchLeft(queue')
    BY <1>9, <2>1, TakenLeaves
  <2>3. Quiet
    BY <1>9, <2>2, MainQuiet
  <2> QED
    BY <1>9, <2>3, QuietSlot
<1> QED
  BY <1>2, <1>3, <1>4, <1>5, <1>6, <1>7, <1>8, <1>9 DEF DeliverToController

(* The slots of a thread object.                                           *)
LEMMA DeliverToThreadTurns ==
    ASSUME Inv, Inv', Turns, NEW e, NEW q, Taken(e, q), Addressed(e), pc = "loop",
           e.k \in ThreadSignals \ {"deleteThread"}, DeliverToThread(e, q)
    PROVE  Turns'
<1>1. ~Watch(e)
  BY DEF Watch, ThreadSignals
<1>2. Calmer(q, queue) /\ WatchLeft(q)
  BY <1>1, TakenLeaves
<1>3. CASE Ignored(Append(q, DeleteLater("deleteThread", e.o, depth)))
  <2> DEFINE x == DeleteLater("deleteThread", e.o, depth)
  <2>1. x \in Signals /\ x.k \notin LoudKinds
    <3>1. depth \in 0 .. MaxDepth
      BY DEF Inv, TypeOK, MainTypes
    <3>2. e.o \in Threads
      BY DEF Addressed
    <3> QED
      BY <3>1, <3>2 DEF DeleteLater, Signals, SignalKinds, ThreadSignals, LoudKinds
  <2> HIDE DEF x
  <2>2. Calmer(Append(q, x), queue) /\ WatchLeft(Append(q, x))
    BY <1>2, <2>1, AppendCalms
  <2>3. Ignored(Append(q, x))
    BY <1>3 DEF x
  <2>4. Quiet /\ cont' = cont
    BY <2>2, <2>3, IgnoredQuiet
  <2> QED
    BY <2>4, QuietSlot
<1>4. CASE e.k = "retryHandler" /\ OnRetrySignal(q)
  BY <1>4, RetrySignalTurns DEF Trying
<1>5. CASE Ignored(q)
  BY <1>2, <1>5, IgnoredQuiet, QuietSlot
<1> QED
  BY <1>3, <1>4, <1>5 DEF DeliverToThread

(* A signal that is delivered keeps the turns.                             *)
LEMMA DeliverTurns ==
    ASSUME Inv, Inv', Turns, Calm, Deliver
    PROVE  Turns'
<1> DEFINE e == queue[NextSignal]
           q == RemoveAt(queue, NextSignal)
<1>1. Taken(e, q) /\ pc = "loop" /\ pc # "start"
  BY TakenSignal DEF Deliver
<1>2. Addressed(e) /\ Calmer(q, queue)
  BY <1>1 DEF Taken, Inv, SignalsAreAddressed
<1>3. \/ e.k = "deleteWindow" /\ DeleteWindow(e.o, q)
      \/ e.k = "deleteThread" /\ DeleteThread(e.o, q)
      \/ e.k \in WindowSignals \ {"deleteWindow"} /\ DeliverToWindow(e, q)
      \/ e.k \in ThreadSignals \ {"deleteThread"} /\ DeliverToThread(e, q)
      \/ e.o = None /\ DeliverToController(e, q)
  BY DEF Deliver
<1> HIDE DEF e, q
<1>4. CASE e.k = "deleteWindow" /\ DeleteWindow(e.o, q)
  <2>1. e.o \in live /\ e.o # window /\ ~Watch(e)
    BY <1>2, <1>4 DEF Addressed, WindowSignals, Watch
  <2>2. WatchLeft(q)
    BY <1>1, <2>1, TakenLeaves
  <2>3. PICK w \in live : w = e.o
    BY <2>1
  <2>4. w # window /\ DeleteWindow(w, q)
    BY <1>4, <2>1, <2>3
  <2> QED
    BY <1>1, <1>2, <2>2, <2>4, DeleteWindowQuiet, QuietSlot
<1>5. CASE e.k = "deleteThread" /\ DeleteThread(e.o, q)
  <2>1. e.o \in Threads /\ kind[e.o] = "run" /\ ~Watch(e)
    BY <1>2, <1>5 DEF Addressed, ThreadSignals, Watch
  <2>2. WatchLeft(q)
    BY <1>1, <2>1, TakenLeaves
  <2>3. PICK t \in Threads : t = e.o
    BY <2>1
  <2>4. kind[t] = "run" /\ DeleteThread(t, q)
    BY <1>5, <2>1, <2>3
  <2> QED
    BY <1>1, <1>2, <2>2, <2>4, DeleteThreadQuiet, QuietSlot
<1>6. CASE e.k \in WindowSignals \ {"deleteWindow"} /\ DeliverToWindow(e, q)
  BY <1>1, <1>2, <1>6, DeliverToWindowTurns
<1>7. CASE e.k \in ThreadSignals \ {"deleteThread"} /\ DeliverToThread(e, q)
  BY <1>1, <1>2, <1>7, DeliverToThreadTurns
<1>8. CASE e.o = None /\ DeliverToController(e, q)
  BY <1>1, <1>8, DeliverToControllerTurns
<1> QED
  BY <1>3, <1>4, <1>5, <1>6, <1>7, <1>8

-----------------------------------------------------------------------------
(* Controller::run and the rest of onRetry.                                *)
LEMMA RunTurns ==
    ASSUME Inv, Inv', Turns, Run
    PROVE  Turns'
<1>1. pc = "start" /\ cont # "restart" /\ \A u \in Threads : st[u] = "free"
  BY DEF Run, Inv, StartIsFresh, RestartIsDue
<1>2. Calmer(queue, queue) /\ WatchLeft(queue)
  BY QueueIsCalm
<1>3. CASE Finish(queue)
  BY <1>2, <1>3, FinishQuiet, QuietSlot
<1>4. CASE OnCriticalFailure(queue)
  BY <1>2, <1>4, CriticalFailureQuiet, QuietSlot
<1>5. CASE /\ pc' = "loop"
           /\ UNCHANGED <<envVars, cont, depth, quitting, joinVars, responses, queue,
                         threadVars, windowVars, handlerVars>>
  <2>1. Calmer(queue', queue) /\ WatchLeft(queue')
    BY <1>2, <1>5
  <2>2. Quiet
    BY <1>5, <2>1, MainQuiet
  <2> QED
    BY <1>5, <2>2, QuietSlot
<1>6. CASE /\ StartCommandExecution /\ pc' = "loop"
           /\ UNCHANGED <<cont, depth, quitting, joinVars, responses, queue, envVars>>
  BY <1>1, <1>6, StartTurns
<1> QED
  BY <1>3, <1>4, <1>5, <1>6 DEF Run

(* startCommandExecution, called by onRetry when its threads have been     *)
(* joined.                                                                 *)
LEMMA RestartTurns ==
    ASSUME Inv, Inv', Turns, Restart
    PROVE  Turns'
<1>1. \A u \in Threads : st[u] = "free"
  BY NobodyIsLeft DEF Restart
<1> QED
  BY <1>1, StartTurns DEF Restart

(* Every step of the main thread keeps the turns.                          *)
LEMMA MainStepTurns ==
    ASSUME Inv, Inv', Turns, Calm, MainStep
    PROVE  Turns'
<1>1. CASE Run
  BY <1>1, RunTurns
<1>2. CASE Deliver
  BY <1>2, DeliverTurns
<1>3. CASE StopChild
  BY <1>3, StopChildQuiet, QuietSlot
<1>4. CASE WaitForChild
  BY <1>4, WaitForChildQuiet, QuietSlot
<1>5. CASE Restart
  BY <1>5, RestartTurns
<1>6. CASE EmitFinished
  BY <1>6, EmitFinishedQuiet, QuietSlot
<1>7. CASE Unwind
  BY <1>7, UnwindQuiet, QuietSlot
<1> QED
  BY <1>1, <1>2, <1>3, <1>4, <1>5, <1>6, <1>7 DEF MainStep

-----------------------------------------------------------------------------
(* What the event loop has not yet delivered when it is idle.              *)
LEMMA IdleIsSilent ==
    ASSUME Inv, Idle
    PROVE  \A e \in Posted : e.k \in {"deleteWindow", "deleteThread"} /\ ~Acts(e) /\ ~Watch(e)
<1>1. queue \in Seq(Signals)
  BY DEF Inv, TypeOK, MainTypes
<1>2. \A e \in Posted : \E i \in 1 .. Len(queue) : queue[i] = e
  <2>1. DOMAIN queue = 1 .. Len(queue)
    BY <1>1, SeqShape
  <2> QED
    BY <2>1 DEF Posted, Range
<1>3. \A e \in Posted : e.k \in {"deleteWindow", "deleteThread"}
  BY <1>2 DEF Idle, Deliverable
<1> QED
  BY <1>3 DEF Acts, Prompting, Trying, Watch

(* A user who is asked has the turn.                                       *)
LEMMA TurnOfUser ==
    ASSUME Inv, Turns, Calm, UserTurn, "hasty" \notin UserActs => Idle
    PROVE  /\ ~ThreadTurn /\ Calmer(queue, queue) /\ window # None
           /\ \A x \in Range(queue) : ~Acts(x) /\ ~Trying(x)
           /\ Asked => WatchThread \/ \E x \in Range(queue) : Watch(x)
           /\ MaxCardMoves # 0 => \A x \in Range(queue) : ~Watch(x)
           /\ Offered /\ MaxCardMoves # 0 => ~WatchThread
<1>1. ~ThreadTurn /\ ~SignalTurn
  BY DEF Turns, OneTurn
<1>2. \A x \in Range(queue) : ~Acts(x) /\ ~Trying(x)
  BY <1>1 DEF SignalTurn, Acts, Posted
<1>3. Asked => WatchThread \/ \E x \in Range(queue) : Watch(x)
  BY DEF Turns, Monitored, WatchSignal, Posted
<1>4. MaxCardMoves # 0 => \A x \in Range(queue) : ~Watch(x)
  BY IdleIsSilent DEF Calm, Unhurried, Posted
<1>5. Offered /\ MaxCardMoves # 0 => ~WatchThread
  BY DEF Turns, OneWatch
<1>6. window # None
  BY DEF UserTurn, Asked, Offered
<1> QED
  BY <1>1, <1>2, <1>3, <1>4, <1>5, <1>6, QueueIsCalm

(* OK: the turn goes to a confirm thread, or to the next page.             *)
LEMMA ClickOKTurns ==
    ASSUME Inv, Inv', Turns, Calm, ClickOK
    PROVE  Turns'
<1>1. /\ pc = "loop" /\ pc # "start" /\ window # None /\ page[window] \in {"select", "pin"}
      /\ "hasty" \notin UserActs => Idle
  BY DEF ClickOK, UserMayOnPage, UserMay
<1>2. Asked /\ UserTurn
  BY <1>1 DEF Asked, UserTurn
<1>3. /\ ~ThreadTurn /\ Calmer(queue, queue)
      /\ \A x \in Range(queue) : ~Acts(x)
      /\ WatchThread \/ \E x \in Range(queue) : Watch(x)
      /\ MaxCardMoves # 0 => \A x \in Range(queue) : ~Watch(x)
  BY <1>1, <1>2, TurnOfUser
<1>4. window \in Windows /\ pin \in [Windows -> BOOLEAN]
  BY <1>1 DEF Inv, TypeOK, DialogTypes
<1>5. CASE /\ ShowPage(window, "busy")
           /\ pin' = [pin EXCEPT ![window] = (mode = "keyboard")]
           /\ OnConfirmCommandHandler(queue)
           /\ UNCHANGED <<window, live, right, choice>>
  <2>1. NeedsPin => pin'[window]
    BY <1>4, <1>5 DEF NeedsPin
  <2>2. page' = [page EXCEPT ![window] = "busy"]
    BY <1>5 DEF ShowPage
  <2> QED
    BY <1>1, <1>3, <1>5, <2>1, <2>2, ConfirmTurns
<1>6. CASE /\ cmd = "get-signing-certificate"
           /\ ShowPage(window, "busy")
           /\ OnConfirmCommandHandler(queue)
           /\ UNCHANGED <<window, live, right, choice, pin>>
  <2>1. ~NeedsPin
    BY <1>6 DEF NeedsPin
  <2>2. page' = [page EXCEPT ![window] = "busy"] /\ UNCHANGED pin /\ UNCHANGED <<window, live, right, choice>>
    BY <1>6 DEF ShowPage
  <2> QED
    BY <1>1, <1>3, <1>6, <2>1, <2>2, ConfirmTurns
<1>7. CASE \E d \in {"single", "unusable"} : OnSingleCertificateReady(window, d, queue)
  <2>1. PICK d : OnSingleCertificateReady(window, d, queue)
    BY <1>7
  <2> QED
    BY <1>1, <1>3, <2>1, SingleCertificateTurns
<1> QED
  BY <1>5, <1>6, <1>7 DEF ClickOK

(* Whatever the calm user does keeps the turns.                            *)
LEMMA UserStepTurns ==
    ASSUME Inv, Inv', Turns, Calm, UserStep
    PROVE  Turns'
<1>1. CASE ClickOK
  BY <1>1, ClickOKTurns
<1>2. CASE ClickCancel
  <2>1. Finish(queue)
    BY <1>2 DEF ClickCancel, OnDialogCancel
  <2> QED
    BY <2>1, QueueIsCalm, FinishQuiet, QuietSlot
<1>3. CASE TryAgain
  <2>1. Offered /\ UserTurn /\ OnRetry(queue) /\ ("hasty" \notin UserActs => Idle)
    BY <1>3 DEF TryAgain, UserMayOnPage, UserMay, Offered, UserTurn
  <2>2. /\ ~ThreadTurn /\ Calmer(queue, queue)
        /\ \A x \in Range(queue) : ~Trying(x)
        /\ MaxCardMoves # 0 => ~WatchThread /\ \A x \in Range(queue) : ~Watch(x)
    BY <2>1, TurnOfUser
  <2> QED
    BY <2>1, <2>2, RetryTurns
<1>4. CASE SelectAnother
  BY <1>4 DEF SelectAnother, UserMayOnPage, UserMay, Calm
<1>5. CASE CloseFatalError
  BY <1>5, FatalErrorQuiet, QuietSlot DEF CloseFatalError
<1>6. CASE CloseAboutPage
  BY <1>6, CloseAboutPageQuiet, QuietSlot
<1> QED
  BY <1>1, <1>2, <1>3, <1>4, <1>5, <1>6 DEF UserStep

(* Before Controller::run nobody has the turn.                             *)
LEMMA InitialTurns ==
    ASSUME Init
    PROVE  Turns
<1>1. /\ queue = <<>> /\ toWindow = <<>> /\ toThreads = {} /\ window = None /\ interrupted = {}
      /\ cont = "" /\ \A t \in Threads : kind[t] = "" /\ st[t] = "free"
      /\ \A w \in Windows : page[w] = ""
  BY DEF Init
<1>2. Len(queue) = 0 /\ Posted = {} /\ Len(toWindow) = 0 /\ queue \in Seq(Signals)
  BY <1>1, NothingSaid DEF Posted
<1>3. OneIn(queue, Acting) /\ OneIn(queue, Watches) /\ Before(queue, Statuses, Cards)
  BY <1>2, NoneIn DEF Posted
<1>4. \A t \in Threads : ~Works(t) /\ ~Waits(t) /\ ~Watching(t) /\ ~Reads(t)
  BY <1>1 DEF Works, Waits, Watching, Reads
<1>5. ~Asked /\ ~Offered /\ ~UserTurn
  BY <1>1 DEF Asked, Offered, UserTurn
<1>6. ~ThreadTurn /\ ~SignalTurn /\ ~WatchThread /\ ~WatchSignal
  BY <1>2, <1>4 DEF ThreadTurn, SignalTurn, WatchThread, WatchSignal
<1>7. OneTurn
  BY <1>3, <1>4, <1>5, <1>6 DEF OneTurn
<1>8. Wiring
  <2>1. Len(toWindow) <= 1
    BY <1>2
  <2> QED
    BY <1>1, <2>1 DEF Wiring
<1>9. SteadyCard
  BY <1>1, <1>2 DEF SteadyCard
<1>10. OneWatch
  BY <1>1, <1>3, <1>4, <1>6 DEF OneWatch
<1>11. Monitored /\ StatusIsOver /\ PinForEveryConfirm
  BY <1>1, <1>2, <1>3, <1>4, <1>5 DEF Monitored, StatusIsOver, PinForEveryConfirm
<1> QED
  BY <1>7, <1>8, <1>9, <1>10, <1>11 DEF Turns

(* Every step keeps the turns.                                             *)
LEMMA NextTurns ==
    ASSUME Calm, Inv, Inv', Turns, [Next]_vars
    PROVE  Turns'
<1>1. CASE MainStep
  BY <1>1, MainStepTurns
<1>2. CASE \E t \in Threads : ThreadStep(t)
  BY <1>2, ThreadStepTurns
<1>3. CASE UserStep
  BY <1>3, UserStepTurns
<1>4. CASE ChangeCard
  BY <1>4, ChangeCardQuiet, QuietSlot
<1>5. CASE UNCHANGED vars
  BY <1>5, StutterQuiet, QuietSlot
<1> QED
  BY <1>1, <1>2, <1>3, <1>4, <1>5 DEF Next

(* In a calm environment a command is with one thread, one signal or the   *)
(* user at a time, and whoever is asked has the cards monitored meanwhile. *)
THEOREM TakingTurns == Calm /\ Spec => []Turns
<1> SUFFICES ASSUME Calm PROVE Spec => []Turns
  OBVIOUS
<1>1. Init => Turns
  BY InitialTurns
<1>2. Inv /\ Inv' /\ Turns /\ [Next]_vars => Turns'
  BY NextTurns
<1>3. Spec => []Inv
  BY Invariance
<1> QED
  BY <1>1, <1>2, <1>3, PTL DEF Spec

(* In a calm environment a confirm thread that needs the PIN of the dialog *)
(* finds it there: getPin() never returns an empty PIN to the card.        *)
THEOREM EveryConfirmHasItsPin == Calm /\ Spec => []PinForEveryConfirm
<1>1. Turns => PinForEveryConfirm
  BY DEF Turns
<1> QED
  BY <1>1, TakingTurns, PTL

(* In a calm environment, whenever the event loop has nothing left to      *)
(* deliver and the user is asked for a certificate or a PIN, a monitor of  *)
(* the cards is running.                                                   *)
THEOREM EveryPromptIsMonitored == Calm /\ Spec => []PromptIsMonitored
<1>1. ASSUME Inv, Turns PROVE PromptIsMonitored
  <2> SUFFICES ASSUME Idle, window # None, page[window] \in {"select", "pin"}
               PROVE  \E t \in Threads : kind[t] = "monitor" /\ Running(t) /\ t \notin interrupted
    BY DEF PromptIsMonitored
  <2>1. Asked
    BY DEF Asked
  <2>2. WatchThread \/ WatchSignal
    BY <1>1, <2>1 DEF Turns, Monitored
  <2>3. ~WatchSignal
    BY <1>1, IdleIsSilent DEF WatchSignal
  <2> QED
    BY <2>2, <2>3 DEF WatchThread, Watching
<1>2. Inv /\ Turns => PromptIsMonitored
  BY <1>1
<1> QED
  BY <1>2, Invariance, TakingTurns, PTL

(* In a calm environment certificates reach the dialog only when it shows  *)
(* a page that expects them.                                               *)
THEOREM EveryCertificateIsExpected == Calm /\ Spec => []CertificatesAreExpected
<1>1. ASSUME Inv, Turns PROVE CertificatesAreExpected
  <2> DEFINE e == queue[NextSignal]
  <2> SUFFICES ASSUME ~Idle, e.k = "certificateReady", e.o = window
               PROVE  right[window]
    BY DEF CertificatesAreExpected
  <2>1. e \in Posted
    BY <1>1, Delivery DEF Inv, TypeOK, MainTypes
  <2>2. window # None
    <3>1. window \in live /\ live \subseteq Windows
      BY <1>1, <2>1 DEF Inv, SignalsAreAddressed, Addressed, WindowSignals, TypeOK, DialogTypes
    <3>2. None \notin Windows
      BY <1>1, NoneIsNoObject DEF Inv, TypeOK
    <3> QED
      BY <3>1, <3>2
  <2> QED
    BY <1>1, <2>1, <2>2 DEF Turns, StatusIsOver
<1>2. Inv /\ Turns => CertificatesAreExpected
  BY <1>1
<1> QED
  BY <1>2, Invariance, TakingTurns, PTL
=============================================================================
