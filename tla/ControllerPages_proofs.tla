----------------------- MODULE ControllerPages_proofs -----------------------
(***************************************************************************)
(* Proof that every dialog shows the pages of DialogPages, in a calm       *)
(* environment: the order in which the signals, the user and the threads   *)
(* reach the dialog that Controller has shown is one that the dialog alone *)
(* is specified for. Dialog_proofs proves that the widgets of the dialog   *)
(* show those pages, so both halves of the program agree on what the user  *)
(* sees.                                                                   *)
(*                                                                         *)
(* The invariant ties the page to the turns of ControllerTurns_proofs:     *)
(* which pages can be up while cards are looked for, while certificates    *)
(* are read and while an answer is being used.                             *)
(*                                                                         *)
(* The second part proves how the program ends in an environment that is   *)
(* also orderly: with one response on standard output, before it exits,    *)
(* and with no thread left when the threads are destroyed.                 *)
(***************************************************************************)
EXTENDS ControllerTurns_proofs

-----------------------------------------------------------------------------
(* The invariant: what the page of the dialog has to do with the turns.    *)

(* Before a command is read, and when it is to quit, there is no dialog,   *)
(* no thread and nothing in the queue but quit.                            *)
NoCommand ==
    cmd \notin {"get-signing-certificate", "authenticate", "sign"} =>
        /\ window = None /\ live = {} /\ cont # "restart"
        /\ \A t \in Threads : kind[t] = ""
        /\ \A e \in Posted : e.k = "quit"

(* A page is a page of a dialog that is there; only a page after the       *)
(* choice of a certificate has one to go back to.                          *)
PagesOfDialogs ==
    \A w \in Windows :
        /\ w \notin live => page[w] = "" /\ ~choice[w]
        /\ w \in live => page[w] # ""
        /\ page[w] \in {"wait", "alert"} => ~choice[w]
        /\ page[w] = "select" => cmd # "sign" /\ (cmd = "authenticate" => choice[w])

(* Cards are being looked for, certificates are being read, or an answer   *)
(* of the user is being used.                                              *)
Looking == (\E t \in Threads : Waits(t)) \/ (\E e \in Posted : e.k \in {"cardsAvailable", "statusUpdate"})

(* Certificates are being read, ...                                        *)
Reading ==
    \/ \E t \in Threads : Reads(t)
    \/ \E e \in Posted : e.o = window /\ e.k \in {"certificateReady", "mismatch"}

(* The thread that uses an answer.                                         *)
Confirms(t) == kind[t] = "confirm" /\ Running(t)

(* ... an answer of the user is being used.                                *)
Confirming ==
    \/ \E t \in Threads : Confirms(t)
    \/ \E e \in Posted : e.o = window /\ e.k = "verifyPinFailed"

(* The page that goes with each.                                           *)
PageOfTurn ==
    window # None =>
        /\ Looking => page[window] \in {"wait", "alert"}
        /\ Reading => page[window] = "wait"
        /\ Confirming => page[window] \in {"busy", "pinpad"}

(* No word of the wait for a card is left after it, so that the alert page *)
(* never comes over a later one.                                           *)
NoStatus == \A e \in Posted : e.k # "statusUpdate"

(* Nothing is said of the readers once there is a card.                    *)
StatusComesFirst ==
    (\E t \in Threads : Reads(t) \/ Confirms(t)) \/ (\E e \in Posted : Acts(e) /\ e.k # "cardsAvailable")
        => NoStatus

(* Several certificates are never offered for a signature: the run thread  *)
(* of sign ends with one or with a mismatch.                               *)
CertificatesFit ==
    \A e \in Posted : e.k = "certificateReady" =>
        e.d \in {"single", "multiple", "unusable"} /\ (e.d = "multiple" => cmd # "sign")

(* The invariant.                                                          *)
Paged ==
    /\ NoCommand
    /\ PagesOfDialogs
    /\ PageOfTurn
    /\ StatusComesFirst
    /\ CertificatesFit

(* Every dialog takes a step of DialogPages, or none.                      *)
DialogsStep == \A w \in Windows : [Shown(w)!Next]_(Shown(w)!vars)

-----------------------------------------------------------------------------
(* Steps that leave the pages alone.                                       *)
LEMMA SamePages ==
    ASSUME UNCHANGED <<cmd, page, choice>>
    PROVE  DialogsStep
BY DEF DialogsStep, Shown!vars

(* The same of what is said about the pages.                               *)
LEMMA SamePagesKept ==
    ASSUME PagesOfDialogs, UNCHANGED <<cmd, page, choice, live>>
    PROVE  PagesOfDialogs'
BY DEF PagesOfDialogs

(* A quiet step that keeps the page of the dialog keeps what it has to do  *)
(* with the turns.                                                         *)
LEMMA QuietSignals ==
    ASSUME Inv, Inv', Turns, Quiet, Paged
    PROVE  /\ StatusComesFirst' /\ CertificatesFit'
           /\ (window' # None /\ page'[window] = page[window]) => PageOfTurn'
<1>1. /\ Calmer(queue', queue) /\ QuietThreads /\ QuietDialogs /\ QuietMain
      /\ PageOfTurn /\ StatusComesFirst /\ CertificatesFit
  BY DEF Quiet, Paged
<1>2. \A e \in Posted' : e.k \in LoudKinds => e \in Posted
  BY <1>1 DEF Calmer, Posted
<1>3. \A e \in Posted' : Acts(e)' => e \in Posted /\ Acts(e)
  BY <1>1, <1>2 DEF Acts, Prompting, Trying, QuietDialogs, LoudKinds
<1>4. \A t \in Threads : (Waits(t)' => Waits(t)) /\ (Reads(t)' => Reads(t)) /\ (Confirms(t)' => Confirms(t))
  BY <1>1 DEF QuietThreads, Waits, Reads, Confirms
<1>5. StatusComesFirst'
  BY <1>1, <1>2, <1>3, <1>4 DEF StatusComesFirst, NoStatus, LoudKinds
<1>6. CertificatesFit'
  BY <1>1, <1>2 DEF CertificatesFit, QuietMain, LoudKinds
<1>7. ASSUME window' # None, page'[window] = page[window] PROVE PageOfTurn'
  <2>1. window' = window
    BY <1>1, <1>7 DEF QuietDialogs
  <2>2. (Looking' => Looking) /\ (Reading' => Reading) /\ (Confirming' => Confirming)
    BY <1>2, <1>4, <2>1 DEF Looking, Reading, Confirming, LoudKinds
  <2> QED
    BY <1>1, <1>7, <2>1, <2>2 DEF PageOfTurn
<1> QED
  BY <1>5, <1>6, <1>7

(* A quiet step that leaves the pages alone.                               *)
LEMMA QuietPaged ==
    ASSUME Inv, Inv', Turns, Quiet, Paged, NoCommand', UNCHANGED <<page, choice, live>>
    PROVE  Paged' /\ DialogsStep
<1>1. /\ StatusComesFirst' /\ CertificatesFit'
      /\ (window' # None /\ page'[window] = page[window]) => PageOfTurn'
  BY QuietSignals
<1>2. cmd' = cmd
  BY DEF Quiet, QuietMain
<1>3. PagesOfDialogs' /\ DialogsStep
  BY <1>2, SamePages, SamePagesKept DEF Paged
<1>4. window' = None => PageOfTurn'
  BY DEF PageOfTurn
<1> QED
  BY <1>1, <1>3, <1>4 DEF Paged

(* A step after which the user has the turn, or nobody.                    *)
LEMMA UsersTurnPaged ==
    ASSUME ~ThreadTurn', ~SignalTurn', NoStatus', NoCommand', PagesOfDialogs', CertificatesFit', DialogsStep,
           window' \in live', Inv'
    PROVE  Paged' /\ DialogsStep
<1>1. \A t \in Threads : ~Waits(t)' /\ ~Reads(t)' /\ ~Confirms(t)'
  BY DEF ThreadTurn, Works, Waits, Reads, Confirms
<1>2. \A e \in Posted' : ~Acts(e)'
  BY DEF SignalTurn
<1>3. window' # None
  <2>1. DialogTypes' /\ None \notin Windows
    BY Bounds DEF Inv, TypeOK, None, Windows
  <2> QED
    BY <2>1 DEF DialogTypes
<1>4. StatusComesFirst'
  BY DEF StatusComesFirst
<1>5. PageOfTurn'
  <2>1. ~Looking' /\ ~Reading' /\ ~Confirming'
    BY <1>1, <1>2, <1>3 DEF Looking, Reading, Confirming, Acts, Prompting, Trying, NoStatus
  <2> QED
    BY <2>1 DEF PageOfTurn
<1> QED
  BY <1>4, <1>5 DEF Paged

-----------------------------------------------------------------------------
(* What a thread may say.                                                  *)
Fits(k, e) ==
    /\ k = "waitForCard" => e.k \in {"cardsAvailable", "statusUpdate", "failure"}
    /\ k = "run" => e.k \in {"certificatesLoaded", "certificateReady", "retryHandler", "mismatch",
                             "retry", "failure", "finished"}
    /\ k = "confirm" => e.k \in {"certificatesLoaded", "verifyPinFailed", "retryHandler", "retry",
                                 "completed", "cancel", "failure"}
    /\ k = "monitor" => e.k = "cardEvent"
    /\ e.k = "certificateReady" =>
          e.d \in {"single", "multiple", "unusable"} /\ (e.d = "multiple" => cmd # "sign")

(* A thread that says what fits its kind keeps the invariant.              *)
LEMMA ThreadPaged ==
    ASSUME Inv, Inv', Turns, Paged, NoCommand', NEW t \in Threads, NEW s \in Seq(Signals),
           kind[t] \in Pollers \cup CommandThreads, Running(t),
           \A e \in Range(s) : Fits(kind[t], e), queue' = queue \o s, OthersGoOn(t),
           UNCHANGED <<cmd, window, live, page, choice>>
    PROVE  Paged' /\ DialogsStep
<1>1. OneTurn /\ PageOfTurn /\ StatusComesFirst /\ CertificatesFit
  BY DEF Turns, Paged
<1>2. queue \in Seq(Signals)
  BY DEF Inv, TypeOK, MainTypes
<1>3. Posted' = Posted \cup Range(s)
  BY <1>2, RangeOfConcat DEF Posted
<1>4. \A u \in Threads : (Waits(u)' => Waits(u)) /\ (Reads(u)' => Reads(u)) /\ (Confirms(u)' => Confirms(u))
  <2>1. \A u \in Threads \ {t} : kind'[u] = kind[u] /\ (Running(u)' <=> Running(u))
    BY DEF OthersGoOn, Running
  <2>2. kind'[t] \in {"", kind[t]} /\ Running(t)
    BY DEF OthersGoOn
  <2>3. \A u \in Threads : kind'[u] # "" => kind'[u] = kind[u] /\ (Running(u)' => Running(u))
    BY <2>1, <2>2
  <2> QED
    BY <2>3 DEF Waits, Reads, Confirms
<1>5. /\ \A e \in Range(s) : e.k \in {"cardsAvailable", "statusUpdate"} => Waits(t)
      /\ \A e \in Range(s) : e.k \in {"certificateReady", "mismatch"} => Reads(t)
      /\ \A e \in Range(s) : e.k = "verifyPinFailed" => Confirms(t)
      /\ \A e \in Range(s) : e.k \in {"retry", "retryHandler"} => Reads(t) \/ Confirms(t)
  BY DEF Fits, Waits, Reads, Confirms, Pollers, CommandThreads
<1>6. PageOfTurn'
  <2>1. (Looking' => Looking) /\ (Reading' => Reading) /\ (Confirming' => Confirming)
    BY <1>3, <1>4, <1>5 DEF Looking, Reading, Confirming
  <2> QED
    BY <1>1, <2>1 DEF PageOfTurn
<1>7. CertificatesFit'
  BY <1>1, <1>3 DEF CertificatesFit, Fits
<1>8. StatusComesFirst'
  <2>1. \A e : Acts(e)' <=> Acts(e)
    BY DEF Acts, Prompting, Trying
  <2>2. \A e \in Range(s) : Acts(e) /\ e.k # "cardsAvailable" => Reads(t) \/ Confirms(t)
    BY <1>5 DEF Acts, Prompting, Trying
  <2>3. \A u \in Threads : Reads(u) \/ Confirms(u) => Works(u) /\ ~Waits(u)
    BY DEF Reads, Confirms, Waits, Works
  <2>4. Waits(t) => /\ \A u \in Threads : ~Reads(u) /\ ~Confirms(u)
                    /\ \A e \in Posted : ~Acts(e)
    <3>1. Waits(t) => Works(t) /\ ThreadTurn
      BY DEF Waits, Works, ThreadTurn
    <3> QED
      BY <1>1, <2>3, <3>1 DEF OneTurn, SignalTurn
  <2>5. (\E u \in Threads : Reads(u)' \/ Confirms(u)') \/ (\E e \in Posted' : Acts(e)' /\ e.k # "cardsAvailable")
          => (\E u \in Threads : Reads(u) \/ Confirms(u)) \/ (\E e \in Posted : Acts(e) /\ e.k # "cardsAvailable")
    BY <1>3, <1>4, <2>1, <2>2
  <2>6. (\E u \in Threads : Reads(u) \/ Confirms(u)) \/ (\E e \in Posted : Acts(e) /\ e.k # "cardsAvailable")
          => ~Waits(t) /\ \A e \in Posted : e.k # "statusUpdate"
    BY <1>1, <2>4 DEF StatusComesFirst, NoStatus
  <2>7. ~Waits(t) => \A e \in Range(s) : e.k # "statusUpdate"
    BY <1>5
  <2> QED
    BY <1>3, <2>5, <2>6, <2>7 DEF StatusComesFirst, NoStatus
<1>9. PagesOfDialogs' /\ DialogsStep
  BY SamePages, SamePagesKept DEF Paged
<1> QED
  BY <1>6, <1>7, <1>8, <1>9 DEF Paged

-----------------------------------------------------------------------------

(* All that is said fits, ...                                              *)
AllFit(k, s) == s \in Seq(Signals) /\ \A e \in Range(s) : Fits(k, e)

(* ... and so do two sequences that fit, ...                               *)
LEMMA FitTogether ==
    ASSUME NEW k, NEW s, NEW u, AllFit(k, s), AllFit(k, u)
    PROVE  AllFit(k, s \o u)
BY RangeOfConcat DEF AllFit

(* ... and nothing.                                                        *)
LEMMA NothingFits == \A k : AllFit(k, <<>>)
BY NothingSaid DEF AllFit

(* Signals of one kind that need not be looked into.                       *)
LEMMA KindFits ==
    ASSUME NEW s \in Seq(Signals), NEW k, NEW x, \A e \in Range(s) : e.k = x,
           \/ k = "waitForCard" /\ x \in {"cardsAvailable", "statusUpdate", "failure"}
           \/ k = "run" /\ x \in {"certificatesLoaded", "retryHandler", "mismatch", "retry", "failure", "finished"}
           \/ k = "confirm" /\ x \in {"certificatesLoaded", "verifyPinFailed", "retryHandler", "retry",
                                      "completed", "cancel", "failure"}
           \/ k = "monitor" /\ x = "cardEvent"
    PROVE  AllFit(k, s)
BY DEF AllFit, Fits

(* A thread's own signal is of one kind, ...                               *)
LEMMA OwnKindOnly ==
    ASSUME NEW t, NEW k \in OwnKinds
    PROVE  Own(t, k) \in Seq(Signals) /\ \A e \in Range(Own(t, k)) : e.k = k
<1>1. <<Sig(k, None)>> \in Seq(Signals) /\ Range(<<Sig(k, None)>>) = {Sig(k, None)} /\ Sig(k, None).k = k
  BY ControllerSignal DEF Emission
<1>2. <<>> \in Seq(Signals) /\ Range(<<>>) = {}
  BY NothingSaid
<1> QED
  BY <1>1, <1>2 DEF Own

(* ... and so is the handler's call for a monitor, ...                     *)
LEMMA ToControllerKindOnly ==
    LET s == HandlerToController("certificatesLoaded") IN
    s \in Seq(Signals) /\ \A e \in Range(s) : e.k = "certificatesLoaded"
<1> DEFINE k == "certificatesLoaded"
<1>1. k \in OwnKinds
  BY DEF OwnKinds
<1> HIDE DEF k
<1>2. <<Sig(k, None)>> \in Seq(Signals) /\ Range(<<Sig(k, None)>>) = {Sig(k, None)} /\ Sig(k, None).k = k
  BY <1>1, ControllerSignal DEF Emission
<1>3. <<>> \in Seq(Signals) /\ Range(<<>>) = {}
  BY NothingSaid
<1>4. HandlerToController(k) \in Seq(Signals) /\ \A e \in Range(HandlerToController(k)) : e.k = k
  BY <1>2, <1>3 DEF HandlerToController
<1> QED
  BY <1>4 DEF k

(* ... and the handler's signals for the dialog, which carry what the      *)
(* handler says ...                                                        *)
LEMMA WindowsCarry ==
    ASSUME NEW k, NEW d
    PROVE  \A e \in Range(HandlerToWindows(k, d)) : e.k = k /\ e.d = d
<1> DEFINE s == HandlerToWindows(k, d)
<1>2. \A w : SigWith(k, w, d).k = k /\ SigWith(k, w, d).d = d
  BY DEF SigWith
<1> HIDE DEF SigWith
<1>3. s = [i \in 1 .. Len(toWindow) |-> SigWith(k, toWindow[i], d)]
  BY DEF HandlerToWindows
<1>4. \A e \in Range(s) : \E i \in 1 .. Len(toWindow) : e = SigWith(k, toWindow[i], d)
  BY <1>3 DEF Range
<1> HIDE DEF s
<1>5. \A e \in Range(s) : e.k = k /\ e.d = d
  BY <1>2, <1>4
<1> QED
  BY <1>5 DEF s

(* ... and are signals.                                                    *)
LEMMA ToWindowsCarries ==
    ASSUME Inv, Turns, NEW k \in {"certificateReady", "mismatch", "verifyPinFailed"},
           NEW d \in {"", "single", "multiple", "unusable", "again", "fatal"},
           k = "verifyPinFailed" => cmd # "get-signing-certificate"
    PROVE  HandlerToWindows(k, d) \in Seq(Signals)
BY WindowsSays

(* CommandHandler::retry.                                                  *)
LEMMA RetryFits ==
    ASSUME Inv, Turns, NEW k \in {"run", "confirm"}
    PROVE  AllFit(k, HandlerRetry)
<1>1. Emission(HandlerRetry) /\ Range(HandlerRetry) = {Sig("retryHandler", u) : u \in toThreads}
      /\ \A u : Sig("retryHandler", u).k = "retryHandler" /\ Sig("retryHandler", u).o = u
  <2>1. DialogTypes
    BY DEF Inv, TypeOK
  <2> QED
    BY <2>1, RetryEmission
<1>2. HandlerRetry \in Seq(Signals)
  BY <1>1 DEF Emission
<1>3. \A e \in Range(HandlerRetry) : e.k = "retryHandler"
  BY <1>1
<1> QED
  BY <1>2, <1>3, KindFits

(* finished().                                                             *)
LEMMA EndedFits ==
    ASSUME NEW t \in Threads
    PROVE  AllFit("run", Ended(t))
<1> DEFINE e == Sig("finished", t)
<1>1. e \in Signals /\ e.k = "finished"
  BY ZeroLevel DEF Sig, Signals, SignalKinds, ThreadSignals
<1> HIDE DEF e
<1>2. <<e>> \in Seq(Signals) /\ Range(<<e>>) = {e}
  BY <1>1, SingletonRange
<1>3. AllFit("run", <<e>>)
  BY <1>1, <1>2, KindFits
<1> QED
  BY <1>3, NothingFits DEF Ended, e

(* Whatever the certificates, a run thread says what fits: sign never      *)
(* offers several.                                                         *)
LEMMA RunFits ==
    ASSUME Inv, Turns, NEW t, NEW o \in RunOutcomes, RunPossible(o)
    PROVE  AllFit("run", RunSignals(t, o))
<1>1. o \in {"single", "multiple", "unusable", "none", "mismatch", "retriable", "fatal"}
  BY Inputs
<1>2. CASE o \in {"single", "multiple", "unusable"}
  <2> DEFINE a == HandlerToController("certificatesLoaded")
             b == HandlerToWindows("certificateReady", o)
  <2>1. RunSignals(t, o) = a \o b
    BY <1>2 DEF RunSignals, CertificatesReady
  <2>2. AllFit("run", a)
    BY ToControllerKindOnly, KindFits
  <2>3. o \in {"", "single", "multiple", "unusable", "again", "fatal"} /\ (o = "multiple" => cmd # "sign")
    BY <1>2 DEF RunPossible
  <2>4. /\ HandlerToWindows("certificateReady", o) \in Seq(Signals)
        /\ \A e \in Range(HandlerToWindows("certificateReady", o)) : e.k = "certificateReady" /\ e.d = o
    <3>1. "certificateReady" \in {"certificateReady", "mismatch", "verifyPinFailed"} /\ "certificateReady" # "verifyPinFailed"
      OBVIOUS
    <3>0. ASSUME NEW d \in {"single", "multiple", "unusable"}
          PROVE  /\ HandlerToWindows("certificateReady", d) \in Seq(Signals)
                 /\ \A e \in Range(HandlerToWindows("certificateReady", d)) : e.k = "certificateReady" /\ e.d = d
      <4>1. d \in {"", "single", "multiple", "unusable", "again", "fatal"}
        OBVIOUS
      <4>2. HandlerToWindows("certificateReady", d) \in Seq(Signals)
        BY <3>1, <4>1, ToWindowsCarries
      <4>3. \A e \in Range(HandlerToWindows("certificateReady", d)) : e.k = "certificateReady" /\ e.d = d
        BY WindowsCarry
      <4> QED
        BY <4>2, <4>3
    <3>2. HandlerToWindows("certificateReady", o) \in Seq(Signals)
      BY <1>2, <3>0
    <3>3. \A e \in Range(HandlerToWindows("certificateReady", o)) : e.k = "certificateReady" /\ e.d = o
      BY <1>2, <3>0
    <3> QED
      BY <3>2, <3>3
  <2>5. AllFit("run", b)
    BY <1>2, <2>3, <2>4 DEF AllFit, Fits
  <2> QED
    BY <2>1, <2>2, <2>5, FitTogether
<1>3. CASE o = "none"
  <2>1. RunSignals(t, o) = HandlerRetry
    BY <1>3 DEF RunSignals
  <2> QED
    BY <2>1, RetryFits
<1>4. CASE o = "mismatch"
  <2>1. RunSignals(t, o) = HandlerToWindows("mismatch", "")
    BY <1>4 DEF RunSignals
  <2>2. /\ HandlerToWindows("mismatch", "") \in Seq(Signals)
        /\ \A e \in Range(HandlerToWindows("mismatch", "")) : e.k = "mismatch" /\ e.d = ""
    BY ToWindowsCarries, WindowsCarry
  <2> QED
    BY <2>1, <2>2, KindFits
<1>5. CASE o = "retriable"
  <2>1. RunSignals(t, o) = Own(t, "retry") /\ "retry" \in OwnKinds
    BY <1>5 DEF RunSignals, OwnKinds
  <2> QED
    BY <2>1, OwnKindOnly, KindFits
<1>6. CASE o = "fatal"
  <2>1. RunSignals(t, o) = Own(t, "failure") /\ "failure" \in OwnKinds
    BY <1>6 DEF RunSignals, OwnKinds
  <2>2. Own(t, "failure") \in Seq(Signals) /\ \A e \in Range(Own(t, "failure")) : e.k = "failure"
    BY <2>1, OwnKindOnly
  <2> QED
    BY <2>1, <2>2, KindFits
<1> QED
  BY <1>1, <1>2, <1>3, <1>4, <1>5, <1>6

(* A PIN that failed.                                                      *)
LEMMA PinFailedFits ==
    ASSUME Inv, Turns, cmd # "get-signing-certificate", NEW d \in {"again", "fatal"}
    PROVE  AllFit("confirm", VerifyPinFailed(d))
<1> DEFINE a == HandlerToController("certificatesLoaded")
           b == HandlerToWindows("verifyPinFailed", d)
<1>1. VerifyPinFailed(d) = a \o b
  BY DEF VerifyPinFailed
<1>2. AllFit("confirm", a)
  BY ToControllerKindOnly, KindFits
<1>3. d \in {"", "single", "multiple", "unusable", "again", "fatal"}
  OBVIOUS
<1>4. /\ HandlerToWindows("verifyPinFailed", d) \in Seq(Signals)
      /\ \A e \in Range(HandlerToWindows("verifyPinFailed", d)) : e.k = "verifyPinFailed" /\ e.d = d
  <2>1. "verifyPinFailed" \in {"certificateReady", "mismatch", "verifyPinFailed"}
    OBVIOUS
  <2>2. HandlerToWindows("verifyPinFailed", d) \in Seq(Signals)
    BY <1>3, <2>1, ToWindowsCarries
  <2>3. \A e \in Range(HandlerToWindows("verifyPinFailed", d)) : e.k = "verifyPinFailed" /\ e.d = d
    BY WindowsCarry
  <2> QED
    BY <2>2, <2>3
<1>5. AllFit("confirm", b)
  BY <1>4, KindFits
<1> QED
  BY <1>1, <1>2, <1>5, FitTogether

(* Whatever the outcome of the card, a confirm thread says what fits.      *)
LEMMA ConfirmFits ==
    ASSUME Inv, Turns, NEW t, NEW s, Outcome(t, s)
    PROVE  AllFit("confirm", s)
<1>1. DialogTypes
  BY DEF Inv, TypeOK
<1>2. /\ AllFit("confirm", Own(t, "completed")) /\ AllFit("confirm", Own(t, "cancel"))
      /\ AllFit("confirm", Own(t, "failure")) /\ AllFit("confirm", Own(t, "retry"))
  <2>1. ASSUME NEW x \in {"completed", "cancel", "failure", "retry"} PROVE AllFit("confirm", Own(t, x))
    <3>1. x \in OwnKinds
      BY DEF OwnKinds
    <3> QED
      BY <3>1, OwnKindOnly, KindFits
  <2> QED
    BY <2>1
<1>3. AllFit("confirm", <<>>) /\ AllFit("confirm", HandlerRetry)
  BY NothingFits, RetryFits
<1>4. CASE s = HandlerRetry \o Own(t, "failure")
  BY <1>2, <1>3, <1>4, FitTogether
<1>5. ASSUME cmd # "get-signing-certificate", NEW d \in {"again", "fatal"},
             s = VerifyPinFailed(d) \/ s = VerifyPinFailed(d) \o Own(t, "failure")
      PROVE  AllFit("confirm", s)
  <2>1. AllFit("confirm", VerifyPinFailed(d))
    BY <1>5, PinFailedFits
  <2>2. AllFit("confirm", VerifyPinFailed(d) \o Own(t, "failure"))
    BY <1>2, <2>1, FitTogether
  <2> QED
    BY <1>5, <2>1, <2>2
<1> QED
  BY <1>1, <1>2, <1>3, <1>4, <1>5, OutcomeShape

-----------------------------------------------------------------------------
(* The steps of the threads.                                               *)
LEMMA ThreadEndsPaged ==
    ASSUME Inv, Inv', Turns, Paged, NoCommand', NEW t \in Threads, NEW s, End(t, s), AllFit(kind[t], s),
           kind[t] \in Pollers \cup CommandThreads, Running(t),
           UNCHANGED <<cmd, window, live, page, choice>>
    PROVE  Paged' /\ DialogsStep
<1>1. queue' = queue \o s /\ FreeThread(t)
  BY DEF End, Post
<1>2. OthersGoOn(t)
  BY <1>1, EndOthers
<1>3. s \in Seq(Signals) /\ \A e \in Range(s) : Fits(kind[t], e)
  BY DEF AllFit
<1> QED
  BY <1>1, <1>2, <1>3, ThreadPaged

(* A thread that goes on keeps the pages, ...                              *)
LEMMA ThreadMovesPaged ==
    ASSUME Inv, Inv', Turns, Paged, NoCommand', NEW t \in Threads, NEW x \in {"card", "waiting", "done"},
           x = "done" => kind[t] = "run", st' = [st EXCEPT ![t] = x], SameThread, UNCHANGED handlerVars,
           NEW s, AllFit(kind[t], s), queue' = queue \o s,
           kind[t] \in Pollers \cup CommandThreads, Running(t),
           UNCHANGED <<cmd, window, live, page, choice>>
    PROVE  Paged' /\ DialogsStep
<1>1. OthersGoOn(t)
  BY MoveOthers
<1>2. s \in Seq(Signals) /\ \A e \in Range(s) : Fits(kind[t], e)
  BY DEF AllFit
<1> QED
  BY <1>1, <1>2, ThreadPaged

(* ... and so does every step of a thread.                                 *)
LEMMA ThreadStepPaged ==
    ASSUME Inv, Inv', Turns, Paged, NoCommand', NEW t \in Threads, ThreadStep(t)
    PROVE  Paged' /\ DialogsStep
<1>1. UNCHANGED <<cmd, window, live, page, choice>> /\ kind[t] \in Pollers \cup CommandThreads
  BY DEF ThreadStep, WaitForCard, MonitorCards, RunCommand, GetPin, Confirm, ChildOnly, envVars, mainVars,
         windowVars, Pollers, CommandThreads
<1>2. Running(t)
  <2>1. st[t] # "free"
    BY <1>1 DEF Inv, ThreadsAreKept, Pollers, CommandThreads
  <2>2. st[t] = "done" => kind[t] = "run" /\ ~RunCommand(t)
    BY DEF Turns, Wiring, RunCommand, Goto
  <2>3. kind[t] = "run" => RunCommand(t)
    BY DEF ThreadStep, WaitForCard, MonitorCards, GetPin, Confirm
  <2> QED
    BY <2>1, <2>2, <2>3 DEF Running
<1>3. queue \in Seq(Signals) /\ queue \o <<>> = queue
  <2>1. queue \in Seq(Signals)
    BY DEF Inv, TypeOK, MainTypes
  <2> QED
    BY <2>1
<1>4. CASE WaitForCard(t)
  <2>1. kind[t] = "waitForCard"
    BY <1>4 DEF WaitForCard
  <2>2. ASSUME NEW x \in {"cardsAvailable", "statusUpdate", "failure"} PROVE AllFit(kind[t], Own(t, x))
    <3>1. x \in OwnKinds
      BY DEF OwnKinds
    <3> QED
      BY <2>1, <3>1, OwnKindOnly, KindFits
  <2>3. AllFit(kind[t], NoCardStatus(t))
    BY <2>2, NothingFits DEF NoCardStatus
  <2>4. CASE \E s : AllFit(kind[t], s) /\ End(t, s)
    BY <1>1, <1>2, <2>4, ThreadEndsPaged
  <2>5. CASE /\ Post(NoCardStatus(t)) /\ st' = [st EXCEPT ![t] = "waiting"]
             /\ UNCHANGED handlerVars /\ SameThread
    <3>1. queue' = queue \o NoCardStatus(t)
      BY <2>5 DEF Post
    <3> QED
      BY <1>1, <1>2, <2>3, <2>5, <3>1, ThreadMovesPaged
  <2> QED
    BY <1>4, <2>2, <2>3, <2>4, <2>5 DEF WaitForCard
<1>5. CASE MonitorCards(t)
  <2>1. kind[t] = "monitor"
    BY <1>5 DEF MonitorCards
  <2>2. AllFit(kind[t], <<>>) /\ AllFit(kind[t], Own(t, "cardEvent"))
    <3>1. "cardEvent" \in OwnKinds
      BY DEF OwnKinds
    <3> QED
      BY <2>1, <3>1, NothingFits, OwnKindOnly, KindFits
  <2>3. CASE End(t, <<>>) \/ End(t, Own(t, "cardEvent"))
    BY <1>1, <1>2, <2>2, <2>3, ThreadEndsPaged
  <2>4. CASE Goto(t, "ready", "waiting") /\ UNCHANGED <<moves, queue, handlerVars>> /\ SameThread
    <3>1. st' = [st EXCEPT ![t] = "waiting"] /\ UNCHANGED handlerVars /\ queue' = queue \o <<>>
      BY <1>3, <2>4 DEF Goto
    <3> QED
      BY <1>1, <1>2, <2>2, <2>4, <3>1, ThreadMovesPaged
  <2> QED
    BY <1>5, <2>3, <2>4 DEF MonitorCards
<1>6. CASE RunCommand(t)
  <2>1. kind[t] = "run" /\ SameThread /\ UNCHANGED handlerVars /\ st' = [st EXCEPT ![t] = "done"]
    BY <1>6 DEF RunCommand, Goto
  <2>2. PICK o \in RunOutcomes : RunPossible(o) /\ Post(RunSignals(t, o) \o Ended(t))
    BY <1>6 DEF RunCommand
  <2> DEFINE s == RunSignals(t, o) \o Ended(t)
  <2>3. AllFit(kind[t], s)
    BY <2>1, <2>2, RunFits, EndedFits, FitTogether
  <2>4. queue' = queue \o s
    BY <2>2 DEF Post
  <2> HIDE DEF s
  <2> QED
    BY <1>1, <1>2, <2>1, <2>3, <2>4, ThreadMovesPaged
<1>7. CASE GetPin(t)
  <2>1. kind[t] = "confirm"
    BY <1>7 DEF GetPin
  <2>2. AllFit(kind[t], <<>>) /\ AllFit(kind[t], Own(t, "failure"))
    <3>1. "failure" \in OwnKinds
      BY DEF OwnKinds
    <3> QED
      BY <2>1, <3>1, NothingFits, OwnKindOnly, KindFits
  <2>3. CASE End(t, Own(t, "failure"))
    BY <1>1, <1>2, <2>2, <2>3, ThreadEndsPaged
  <2>4. CASE Goto(t, "ready", "card") /\ UNCHANGED <<queue, handlerVars>> /\ SameThread
    <3>1. st' = [st EXCEPT ![t] = "card"] /\ UNCHANGED handlerVars /\ queue' = queue \o <<>>
      BY <1>3, <2>4 DEF Goto
    <3> QED
      BY <1>1, <1>2, <2>1, <2>2, <2>4, <3>1, ThreadMovesPaged
  <2> QED
    BY <1>7, <2>3, <2>4 DEF GetPin
<1>8. CASE Confirm(t)
  <2>1. kind[t] = "confirm"
    BY <1>8 DEF Confirm
  <2>2. PICK s : Outcome(t, s) /\ End(t, s)
    BY <1>8, ConfirmOutcome
  <2>3. AllFit(kind[t], s)
    BY <2>1, <2>2, ConfirmFits
  <2> QED
    BY <1>1, <1>2, <2>2, <2>3, ThreadEndsPaged
<1> QED
  BY <1>4, <1>5, <1>6, <1>7, <1>8 DEF ThreadStep

-----------------------------------------------------------------------------
(* The state without a command is left only by quit.                       *)
LEMMA StillNoCommand ==
    ASSUME NoCommand, cmd' = cmd, window' = window \/ window' = None, live' \subseteq live,
           cont' = cont \/ cont' # "restart",
           \A t \in Threads : kind'[t] = kind[t] \/ kind'[t] = "",
           \A e \in Posted' : e \in Posted \/ e.k = "quit"
    PROVE  NoCommand'
<1> SUFFICES ASSUME cmd \notin {"get-signing-certificate", "authenticate", "sign"}
             PROVE  NoCommand'
  BY DEF NoCommand
<1>1. /\ window = None /\ live = {} /\ cont # "restart"
      /\ \A t \in Threads : kind[t] = ""
      /\ \A e \in Posted : e.k = "quit"
  BY DEF NoCommand
<1> QED
  BY <1>1 DEF NoCommand

(* One dialog shows another page.                                          *)
OnePage(w, p) ==
    /\ page' = [page EXCEPT ![w] = p]
    /\ \A v \in Windows \ {w} : choice'[v] = choice[v]
    /\ UNCHANGED cmd

(* If that is a step of DialogPages, it is a step of every dialog.         *)
LEMMA OnePageShown ==
    ASSUME Inv, NEW w \in Windows, NEW p, OnePage(w, p),
           Shown(w)!Next \/ (page'[w] = page[w] /\ choice'[w] = choice[w])
    PROVE  DialogsStep
<1>1. page \in [Windows -> Pages]
  BY DEF Inv, TypeOK, DialogTypes
<1>2. \A v \in Windows \ {w} : page'[v] = page[v] /\ choice'[v] = choice[v]
  BY <1>1 DEF OnePage
<1>3. ASSUME NEW v \in Windows PROVE [Shown(v)!Next]_(Shown(v)!vars)
  <2>1. CASE v # w
    BY <1>2, <2>1 DEF OnePage, Shown!vars
  <2>2. CASE v = w /\ Shown(w)!Next
    BY <2>2
  <2>3. CASE v = w /\ page'[w] = page[w] /\ choice'[w] = choice[w]
    BY <2>3 DEF OnePage, Shown!vars
  <2> QED
    BY <2>1, <2>2, <2>3
<1> QED
  BY <1>3 DEF DialogsStep

(* And it keeps what is said of the pages.                                 *)
LEMMA OnePageKept ==
    ASSUME Inv, PagesOfDialogs, NEW w \in live, NEW p, OnePage(w, p), p # "", live' = live,
           p \in {"wait", "alert"} => ~choice'[w],
           p = "select" => cmd # "sign" /\ (cmd = "authenticate" => choice'[w])
    PROVE  PagesOfDialogs'
<1>1. page \in [Windows -> Pages] /\ w \in Windows
  BY DEF Inv, TypeOK, DialogTypes
<1>2. page'[w] = p /\ cmd' = cmd /\ \A v \in Windows \ {w} : page'[v] = page[v] /\ choice'[v] = choice[v]
  BY <1>1 DEF OnePage
<1>3. ASSUME NEW v \in Windows
      PROVE  /\ v \notin live' => page'[v] = "" /\ ~choice'[v]
             /\ v \in live' => page'[v] # ""
             /\ page'[v] \in {"wait", "alert"} => ~choice'[v]
             /\ page'[v] = "select" => cmd' # "sign" /\ (cmd' = "authenticate" => choice'[v])
  <2>1. CASE v = w
    BY <1>2, <2>1
  <2>2. CASE v # w
    BY <1>2, <2>2 DEF PagesOfDialogs
  <2> QED
    BY <2>1, <2>2
<1> QED
  BY <1>3 DEF PagesOfDialogs

(* A dialog that is shown, and its command.                                *)
LEMMA ShownDialog ==
    ASSUME Inv, Paged, window # None
    PROVE  /\ window \in live /\ window \in Windows /\ page[window] # "" /\ page[window] \in Pages
           /\ cmd \in {"get-signing-certificate", "authenticate", "sign"}
           /\ page[window] \in {"wait", "alert"} => ~choice[window]
           /\ page[window] = "select" => cmd # "sign" /\ (cmd = "authenticate" => choice[window])
           /\ page[window] = "pin" => cmd # "get-signing-certificate"
<1>1. window \in live /\ window \in Windows /\ page[window] \in Pages
  BY DEF Inv, TypeOK, DialogTypes, WindowsAreLive
<1> QED
  BY <1>1 DEF Paged, NoCommand, PagesOfDialogs, Inv, PinIsWanted

-----------------------------------------------------------------------------
(* No thread takes up what it was not at, and no signal is posted that     *)
(* acts.                                                                   *)
LEMMA SofterPaged ==
    ASSUME Paged, NoCommand', window' = window \/ window' = None, None \notin Windows,
           \A t \in Threads : (Waits(t)' => Waits(t)) /\ (Reads(t)' => Reads(t)) /\ (Confirms(t)' => Confirms(t)),
           \A e \in Posted' : e.k \in LoudKinds => e \in Posted,
           UNCHANGED <<cmd, page, choice, live>>
    PROVE  Paged' /\ DialogsStep
<1>1. PagesOfDialogs' /\ DialogsStep
  BY SamePages, SamePagesKept DEF Paged
<1>2. \A e \in Posted' : Acts(e)' => e \in Posted /\ Acts(e)
  BY DEF Acts, Prompting, Trying, LoudKinds
<1>3. StatusComesFirst'
  BY <1>2 DEF Paged, StatusComesFirst, NoStatus, LoudKinds
<1>4. CertificatesFit'
  BY DEF Paged, CertificatesFit, LoudKinds
<1>5. ASSUME window' # None PROVE PageOfTurn'
  <2>1. window' = window
    BY <1>5
  <2>2. (Looking' => Looking) /\ (Reading' => Reading) /\ (Confirming' => Confirming)
    BY <2>1 DEF Looking, Reading, Confirming, LoudKinds
  <2> QED
    BY <1>5, <2>1, <2>2 DEF Paged, PageOfTurn
<1>6. PageOfTurn'
  BY <1>5 DEF PageOfTurn
<1> QED
  BY <1>1, <1>3, <1>4, <1>6 DEF Paged

(* Controller::onRetry leaves the pages alone.                             *)
LEMMA RetryPaged ==
    ASSUME Inv, Turns, Paged, NoCommand', NEW q, Calmer(q, queue), OnRetry(q)
    PROVE  Paged' /\ DialogsStep
<1>1. /\ queue' = DisposedQueue(q, depth) /\ window' = None
      /\ UNCHANGED <<live, page, choice>> /\ UNCHANGED <<kind, st, cmd>>
  BY DEF OnRetry, DisposeUI, threadVars, envVars
<1>2. depth \in 0 .. MaxDepth /\ None \notin Windows
  <2>1. None \notin Windows
    BY Bounds DEF None, Windows
  <2> QED
    BY <2>1 DEF Inv, TypeOK, MainTypes
<1>3. Calmer(queue', queue)
  BY <1>1, <1>2, DisposeCalms
<1>4. \A e \in Posted' : e.k \in LoudKinds => e \in Posted
  BY <1>3 DEF Calmer, Posted
<1>5. \A t \in Threads : (Waits(t)' => Waits(t)) /\ (Reads(t)' => Reads(t)) /\ (Confirms(t)' => Confirms(t))
  BY <1>1 DEF Waits, Reads, Confirms, Running
<1> QED
  BY <1>1, <1>2, <1>4, <1>5, SofterPaged

(* onCertificatesLoaded leaves the pages alone.                            *)
LEMMA CertificatesLoadedPaged ==
    ASSUME Inv, Turns, Paged, NoCommand', NEW q, Calmer(q, queue), OnCertificatesLoaded(q)
    PROVE  Paged' /\ DialogsStep
<1>1. /\ queue' = q /\ UNCHANGED <<window, live, page, choice>> /\ UNCHANGED <<interrupted, cmd>>
      /\ StartThread("monitor", None) /\ "monitor" \in Pollers \cup CommandThreads
  BY DEF OnCertificatesLoaded, windowVars, envVars, Pollers
<1>2. PICK t \in Threads : Started(t, "monitor", None)
  BY <1>1, NewThread
<1>3. \A e \in Posted' : e.k \in LoudKinds => e \in Posted
  BY <1>1 DEF Calmer, Posted
<1>4. \A u \in Threads : (Waits(u)' => Waits(u)) /\ (Reads(u)' => Reads(u)) /\ (Confirms(u)' => Confirms(u))
  BY <1>2 DEF Started, Waits, Reads, Confirms
<1>5. None \notin Windows
  BY Bounds DEF None, Windows
<1> QED
  BY <1>1, <1>3, <1>4, <1>5, SofterPaged

(* The deferred delete of a dialog: it shows nothing any more.             *)
LEMMA DeleteWindowPaged ==
    ASSUME Inv, Inv', Turns, Paged, NoCommand', Quiet, NEW q, NEW w \in live, w # window, DeleteWindow(w, q)
    PROVE  Paged' /\ DialogsStep
<1>1. /\ live' = live \ {w} /\ page' = [page EXCEPT ![w] = ""] /\ choice' = [choice EXCEPT ![w] = FALSE]
      /\ UNCHANGED <<window, cmd>>
      /\ page \in [Windows -> Pages] /\ choice \in [Windows -> BOOLEAN] /\ w \in Windows
  BY DEF DeleteWindow, envVars, Inv, TypeOK, DialogTypes
<1>2. \A v \in Windows \ {w} : page'[v] = page[v] /\ choice'[v] = choice[v]
  BY <1>1
<1>3. page'[w] = "" /\ ~choice'[w] /\ choice'[w] = FALSE
  BY <1>1
<1>4. DialogsStep
  <2>1. OnePage(w, "")
    BY <1>1, <1>2 DEF OnePage
  <2>2. page[w] # ""
    BY <1>1 DEF Paged, PagesOfDialogs
  <2>3. Shown(w)!Next
    BY <1>1, <1>3, <2>2 DEF Shown!Next, Shown!Close
  <2> QED
    BY <1>1, <2>1, <2>3, OnePageShown
<1>5. PagesOfDialogs'
  BY <1>1, <1>2, <1>3 DEF Paged, PagesOfDialogs
<1>6. window # None => window \in Windows \ {w}
  BY DEF Inv, TypeOK, DialogTypes
<1>7. window' # None => page'[window] = page[window]
  BY <1>1, <1>2, <1>6
<1>8. StatusComesFirst' /\ CertificatesFit' /\ (window' # None => PageOfTurn')
  BY <1>7, QuietSignals
<1>9. PageOfTurn'
  BY <1>8 DEF PageOfTurn
<1> QED
  BY <1>4, <1>5, <1>8, <1>9 DEF Paged

(* onSmartCardStatusUpdate shows the alert page, from a page that waits.   *)
LEMMA StatusUpdatePaged ==
    ASSUME Inv, Inv', Turns, Paged, NoCommand', Quiet, NEW q, \E e \in Posted : e.k = "statusUpdate",
           window # None, ShowPage(window, "alert"), UNCHANGED <<window, live, choice>>
    PROVE  Paged' /\ DialogsStep
<1>1. PICK w \in Windows : w = window /\ w \in live /\ (page[w] \in {"wait", "alert"} => ~choice[w])
  BY ShownDialog
<1>2. Looking /\ page[w] \in {"wait", "alert"}
  BY <1>1 DEF Looking, Paged, PageOfTurn
<1>3. cmd' = cmd /\ page' = [page EXCEPT ![w] = "alert"] /\ page \in [Windows -> Pages]
  BY <1>1 DEF Quiet, QuietMain, ShowPage, Inv, TypeOK, DialogTypes
<1>4. OnePage(w, "alert") /\ page'[w] = "alert"
  BY <1>1, <1>3 DEF OnePage
<1>5. DialogsStep
  <2>1. Shown(w)!Next
    BY <1>1, <1>2, <1>3, <1>4 DEF Shown!Next, Shown!CardStatus, Shown!Goto
  <2> QED
    BY <1>1, <1>4, <2>1, OnePageShown
<1>6. PagesOfDialogs'
  <2>1. ~choice'[w] /\ "alert" # "" /\ "alert" # "select" /\ PagesOfDialogs
    BY <1>1, <1>2 DEF Paged
  <2> QED
    BY <1>1, <1>4, <2>1, OnePageKept
<1>7. StatusComesFirst' /\ CertificatesFit'
  BY QuietSignals
<1>8. ~Reading /\ ~Confirming
  <2>1. ~NoStatus
    BY DEF NoStatus
  <2>2. /\ \A t \in Threads : ~Reads(t) /\ ~Confirms(t)
        /\ \A e \in Posted : Acts(e) => e.k = "cardsAvailable"
    BY <2>1 DEF Paged, StatusComesFirst
  <2>3. \A e \in Posted : ~(e.o = window /\ e.k \in {"certificateReady", "mismatch", "verifyPinFailed"})
    BY <2>2 DEF Acts, Prompting, Trying
  <2> QED
    BY <2>2, <2>3 DEF Reading, Confirming
<1>9. ~Reading' /\ ~Confirming'
  <2>1. \A e \in Posted' : e.k \in LoudKinds => e \in Posted
    BY DEF Quiet, Calmer, Posted
  <2>2. \A t \in Threads : (Reads(t)' => Reads(t)) /\ (Confirms(t)' => Confirms(t))
    BY DEF Quiet, QuietThreads, Reads, Confirms
  <2> QED
    BY <1>8, <2>1, <2>2 DEF Reading, Confirming, LoudKinds
<1>10. PageOfTurn'
  BY <1>1, <1>4, <1>9 DEF PageOfTurn
<1> QED
  BY <1>5, <1>6, <1>7, <1>10 DEF Paged

-----------------------------------------------------------------------------
(* The turn goes to one new thread.                                        *)
LEMMA OnlyThread ==
    ASSUME Inv', Turns', NEW t \in Threads, Works(t)'
    PROVE  /\ \A u \in Threads \ {t} : ~Waits(u)' /\ ~Reads(u)' /\ ~Confirms(u)'
           /\ \A e \in Posted' : ~Acts(e)'
           /\ \A e \in Posted' : e.k # "cardsAvailable"
           /\ window' # None => \A e \in Posted' : e.o = window' =>
                 e.k \notin {"certificateReady", "mismatch", "verifyPinFailed"}
<1>1. /\ \A u \in Threads : Works(u)' => u = t
      /\ ~SignalTurn'
  BY DEF Turns, OneTurn, ThreadTurn
<1>2. \A u \in Threads : Waits(u)' \/ Reads(u)' \/ Confirms(u)' => Works(u)'
  BY DEF Works, Waits, Reads, Confirms
<1>3. \A e \in Posted' : ~Acts(e)'
  BY <1>1 DEF SignalTurn
<1> QED
  BY <1>1, <1>2, <1>3 DEF Acts, Prompting, Trying

(* onCardsAvailable with a dialog: it waits for the certificates.          *)
LEMMA CardsAvailablePaged ==
    ASSUME Inv, Inv', Turns, Turns', Paged, NoCommand', NEW q, Calmer(q, queue),
           \E e \in Posted : e.k = "cardsAvailable", window # None,
           StartThread("run", None), UNCHANGED interrupted, page' = [page EXCEPT ![window] = "wait"],
           queue' = q, UNCHANGED <<window, live, choice>>, UNCHANGED cmd
    PROVE  Paged' /\ DialogsStep
<1>1. PICK w \in Windows : w = window /\ w \in live /\ (page[w] \in {"wait", "alert"} => ~choice[w])
  BY ShownDialog
<1>2. Looking /\ page[w] \in {"wait", "alert"}
  BY <1>1 DEF Looking, Paged, PageOfTurn
<1>3. page' = [page EXCEPT ![w] = "wait"] /\ page \in [Windows -> Pages]
  BY <1>1 DEF Inv, TypeOK, DialogTypes
<1>4. OnePage(w, "wait") /\ page'[w] = "wait"
  BY <1>1, <1>3 DEF OnePage
<1>5. DialogsStep
  <2>1. page[w] = "alert" => Shown(w)!Next
    BY <1>1, <1>2, <1>4 DEF Shown!Next, Shown!CardFound, Shown!Goto
  <2>2. page[w] = "wait" => page'[w] = page[w] /\ choice'[w] = choice[w]
    BY <1>4
  <2> QED
    BY <1>1, <1>2, <1>4, <2>1, <2>2, OnePageShown
<1>6. PagesOfDialogs'
  <2>1. ~choice'[w] /\ "wait" # "" /\ "wait" # "select" /\ PagesOfDialogs
    BY <1>1, <1>2 DEF Paged
  <2> QED
    BY <1>1, <1>4, <2>1, OnePageKept
<1>7. PICK t \in Threads : Started(t, "run", None)
  <2>1. "run" \in Pollers \cup CommandThreads
    BY DEF CommandThreads
  <2> QED
    BY <2>1, NewThread
<1>8. Works(t)' /\ Reads(t)' /\ ~Confirms(t)'
  BY <1>7 DEF Started, Works, Reads, Confirms
<1>9. /\ \A u \in Threads \ {t} : ~Waits(u)' /\ ~Reads(u)' /\ ~Confirms(u)'
      /\ window' # None => \A e \in Posted' : e.o = window' =>
            e.k \notin {"certificateReady", "mismatch", "verifyPinFailed"}
  BY <1>8, OnlyThread
<1>10. ~Confirming'
  BY <1>8, <1>9 DEF Confirming
<1>11. PageOfTurn'
  BY <1>1, <1>4, <1>10 DEF PageOfTurn
<1>12. StatusComesFirst'
  BY <1>8 DEF Turns, StatusIsOver, StatusComesFirst, NoStatus
<1>13. CertificatesFit'
  BY DEF Paged, CertificatesFit, Calmer, LoudKinds, Posted
<1> QED
  BY <1>5, <1>6, <1>11, <1>12, <1>13 DEF Paged

(* startCommandExecution: no page changes.                                 *)
LEMMA StartPaged ==
    ASSUME Inv, Inv', Turns, Turns', Paged, NoCommand', StartCommandExecution,
           UNCHANGED <<queue, envVars>>
    PROVE  Paged' /\ DialogsStep
<1>1. /\ UNCHANGED interrupted /\ UNCHANGED cmd /\ StartThread("waitForCard", None)
      /\ FreeWindows # {}
      /\ window' = Min(FreeWindows)
      /\ live' = live \cup {Min(FreeWindows)}
      /\ page' = [page EXCEPT ![Min(FreeWindows)] = "wait"]
      /\ choice' = [choice EXCEPT ![Min(FreeWindows)] = FALSE]
  BY DEF StartCommandExecution, envVars
<1>2. PICK w \in Windows : /\ w = Min(FreeWindows) /\ w \notin live /\ w = window' /\ live' = live \cup {w}
                           /\ page' = [page EXCEPT ![w] = "wait"] /\ choice' = [choice EXCEPT ![w] = FALSE]
  BY <1>1, FreshWindow
<1>3. page \in [Windows -> Pages] /\ choice \in [Windows -> BOOLEAN]
  BY DEF Inv, TypeOK, DialogTypes
<1>4. page'[w] = "wait" /\ choice'[w] = FALSE /\ \A v \in Windows \ {w} : page'[v] = page[v] /\ choice'[v] = choice[v]
  BY <1>2, <1>3
<1>5. page[w] = "" /\ choice[w] = FALSE
  BY <1>2, <1>3 DEF Paged, PagesOfDialogs
<1>6. DialogsStep
  <2>1. OnePage(w, "wait")
    BY <1>1, <1>2, <1>4 DEF OnePage
  <2>2. Shown(w)!Next
    BY <1>1, <1>4, <1>5 DEF Shown!Next, Shown!Open, Shown!Goto
  <2> QED
    BY <2>1, <2>2, OnePageShown
<1>7. PagesOfDialogs'
  BY <1>1, <1>2, <1>4 DEF Paged, PagesOfDialogs
<1>8. PICK t \in Threads : Started(t, "waitForCard", None)
  <2>1. "waitForCard" \in Pollers \cup CommandThreads
    BY DEF Pollers
  <2> QED
    BY <1>1, <2>1, NewThread
<1>9. Works(t)' /\ ~Reads(t)' /\ ~Confirms(t)'
  BY <1>8 DEF Started, Works, Reads, Confirms
<1>10. /\ \A u \in Threads \ {t} : ~Waits(u)' /\ ~Reads(u)' /\ ~Confirms(u)'
       /\ \A e \in Posted' : ~Acts(e)'
       /\ window' # None => \A e \in Posted' : e.o = window' =>
             e.k \notin {"certificateReady", "mismatch", "verifyPinFailed"}
  BY <1>9, OnlyThread
<1>11. window' # None
  BY <1>2, Bounds DEF None, Windows
<1>12. ~Reading' /\ ~Confirming'
  BY <1>9, <1>10, <1>11 DEF Reading, Confirming
<1>13. PageOfTurn'
  BY <1>2, <1>4, <1>12 DEF PageOfTurn
<1>14. StatusComesFirst'
  BY <1>9, <1>10 DEF StatusComesFirst
<1>15. CertificatesFit'
  BY <1>1 DEF Paged, CertificatesFit, Posted
<1> QED
  BY <1>6, <1>7, <1>13, <1>14, <1>15 DEF Paged

(* onConfirmCommandHandler, from a page whose answer is used.              *)
LEMMA ConfirmPaged ==
    ASSUME Inv, Inv', Turns, Turns', Paged, NoCommand', NEW q, Calmer(q, queue), OnConfirmCommandHandler(q),
           NoStatus, NEW w \in Windows, w = window, w # None,
           NEW p \in {"busy", "pinpad"}, page' = [page EXCEPT ![w] = p],
           UNCHANGED <<window, live, choice>>, Shown(w)!Next
    PROVE  Paged' /\ DialogsStep
<1>1. /\ UNCHANGED cmd /\ queue' = q
      /\ StartThread("confirm", window) /\ interrupted' = StoppedPollers
  BY DEF OnConfirmCommandHandler, envVars
<1>2. page \in [Windows -> Pages] /\ w \in live
  BY ShownDialog DEF Inv, TypeOK, DialogTypes
<1>3. OnePage(w, p) /\ page'[w] = p
  BY <1>1, <1>2 DEF OnePage
<1>4. DialogsStep
  BY <1>3, OnePageShown
<1>5. PagesOfDialogs'
  <2>1. p # "" /\ p \notin {"wait", "alert"} /\ p # "select" /\ PagesOfDialogs
    BY DEF Paged
  <2> QED
    BY <1>2, <1>3, <2>1, OnePageKept
<1>6. PICK t \in Threads : Started(t, "confirm", window)
  <2>1. "confirm" \in Pollers \cup CommandThreads /\ window \in Windows \cup {None}
    BY DEF CommandThreads
  <2> QED
    BY <1>1, <2>1, NewThread
<1>7. Works(t)' /\ ~Reads(t)' /\ ~Waits(t)'
  BY <1>6 DEF Started, Works, Reads, Waits
<1>8. /\ \A u \in Threads \ {t} : ~Waits(u)' /\ ~Reads(u)' /\ ~Confirms(u)'
      /\ \A e \in Posted' : ~Acts(e)'
      /\ \A e \in Posted' : e.k # "cardsAvailable"
      /\ window' # None => \A e \in Posted' : e.o = window' =>
            e.k \notin {"certificateReady", "mismatch", "verifyPinFailed"}
  BY <1>7, OnlyThread
<1>9. \A e \in Posted' : e.k \in LoudKinds => e \in Posted
  BY <1>1 DEF Calmer, Posted
<1>10. NoStatus'
  BY <1>9 DEF NoStatus, LoudKinds
<1>11. ~Looking' /\ ~Reading'
  BY <1>7, <1>8, <1>10 DEF Looking, Reading, NoStatus
<1>12. PageOfTurn'
  BY <1>3, <1>11 DEF PageOfTurn
<1>13. StatusComesFirst' /\ CertificatesFit'
  BY <1>1, <1>9, <1>10 DEF Paged, StatusComesFirst, CertificatesFit, LoudKinds
<1> QED
  BY <1>4, <1>5, <1>12, <1>13 DEF Paged

(* A page is shown from which the user goes on.                            *)
LEMMA PagePaged ==
    ASSUME Inv, Inv', Turns, Paged, NoCommand', NEW q, Calmer(q, queue), queue' = q,
           ~ThreadTurn, \A x \in Range(q) : ~Acts(x), NoStatus,
           NEW w \in Windows, w = window, w # None,
           NEW p \in {"select", "pin", "retry", "blocked"}, page' = [page EXCEPT ![w] = p],
           \A v \in Windows \ {w} : choice'[v] = choice[v],
           p = "select" => cmd # "sign" /\ (cmd = "authenticate" => choice'[w]),
           Shown(w)!Next \/ (page'[w] = page[w] /\ choice'[w] = choice[w]),
           UNCHANGED <<window, live>>, UNCHANGED <<kind, st, cmd>>
    PROVE  Paged' /\ DialogsStep
<1>1. page \in [Windows -> Pages] /\ w \in live
  BY ShownDialog DEF Inv, TypeOK, DialogTypes
<1>2. OnePage(w, p) /\ page'[w] = p
  BY <1>1 DEF OnePage
<1>3. DialogsStep
  BY <1>2, OnePageShown
<1>4. PagesOfDialogs'
  <2>1. p # "" /\ p \notin {"wait", "alert"} /\ PagesOfDialogs
    BY DEF Paged
  <2> QED
    BY <1>1, <1>2, <2>1, OnePageKept
<1>5. \A e \in Posted' : e.k \in LoudKinds => e \in Posted
  BY DEF Calmer, Posted
<1>6. NoStatus' /\ CertificatesFit'
  BY <1>5 DEF NoStatus, Paged, CertificatesFit, LoudKinds
<1>7. ~ThreadTurn' /\ ~SignalTurn' /\ window' \in live'
  BY <1>1 DEF ThreadTurn, Works, Running, SignalTurn, Acts, Prompting, Trying, Posted
<1> QED
  BY <1>3, <1>4, <1>6, <1>7, UsersTurnPaged

-----------------------------------------------------------------------------
(* Controller::run reads the command, and nothing changes it.              *)
LEMMA CommandStays ==
    ASSUME [Next]_vars
    PROVE  cmd' = cmd
<1>1. CASE Run
  BY <1>1 DEF Run, Finish, OnCriticalFailure, envVars
<1>2. CASE Deliver
  <2> DEFINE e == queue[NextSignal]
             q == RemoveAt(queue, NextSignal)
  <2>1. ASSUME NEW s, NEW d, OnSingleCertificateReady(window, d, s) \/ OnMultipleCertificatesReady(window, s)
                             \/ OnVerifyPinFailed(window, d, s) \/ PageOnly(window, d, s) \/ Ignored(s)
        PROVE  cmd' = cmd
    BY <2>1 DEF OnSingleCertificateReady, PromptForPin, OnMultipleCertificatesReady, OnVerifyPinFailed, PageOnly,
                Ignored, OnCriticalFailure, OnConfirmCommandHandler, envVars
  <2>2. CASE DeliverToWindow(e, q)
    BY <2>1, <2>2 DEF DeliverToWindow
  <2>3. CASE DeliverToThread(e, q)
    BY <2>1, <2>3 DEF DeliverToThread, OnRetrySignal
  <2>4. CASE DeliverToController(e, q)
    BY <2>1, <2>4 DEF DeliverToController, OnCardsAvailable, OnSmartCardStatusUpdate, OnCertificatesLoaded, OnRetry,
                      OnRetrySignal, OnCommandHandlerConfirmCompleted, OnDialogCancel, OnCriticalFailure, Finish, envVars
  <2>5. CASE DeleteWindow(e.o, q) \/ DeleteThread(e.o, q)
    BY <2>5 DEF DeleteWindow, DeleteThread, envVars
  <2> QED
    BY <1>2, <2>2, <2>3, <2>4, <2>5 DEF Deliver
<1>3. CASE StopChild \/ WaitForChild \/ Restart \/ EmitFinished \/ Unwind
  BY <1>3 DEF StopChild, WaitForChild, Restart, EmitFinished, Unwind, ReportFatalError, envVars
<1>4. CASE \E t \in Threads : ThreadStep(t)
  BY <1>4 DEF ThreadStep, WaitForCard, MonitorCards, RunCommand, GetPin, Confirm, ChildOnly, envVars
<1>5. CASE ClickOK
  BY <1>5 DEF ClickOK, OnSingleCertificateReady, PromptForPin, PageOnly, OnCriticalFailure, OnConfirmCommandHandler, envVars
<1>6. CASE ClickCancel \/ TryAgain \/ SelectAnother \/ CloseFatalError \/ CloseAboutPage
  BY <1>6 DEF ClickCancel, OnDialogCancel, Finish, TryAgain, OnRetry, SelectAnother, PageOnly, CloseFatalError,
              ReportFatalError, CloseAboutPage, envVars
<1>7. CASE ChangeCard \/ UNCHANGED vars
  BY <1>7 DEF ChangeCard, vars, envVars
<1> QED
  BY <1>1, <1>2, <1>3, <1>4, <1>5, <1>6, <1>7 DEF Next, MainStep, UserStep

(* Every step keeps what holds without a command.                          *)
LEMMA NextNoCommand ==
    ASSUME Inv, NoCommand, [Next]_vars
    PROVE  NoCommand'
<1>1. cmd' = cmd
  BY CommandStays
<1> SUFFICES ASSUME cmd \notin {"get-signing-certificate", "authenticate", "sign"}
             PROVE  NoCommand'
  BY <1>1 DEF NoCommand
<1>2. /\ window = None /\ live = {} /\ cont # "restart"
      /\ \A t \in Threads : kind[t] = ""
      /\ \A e \in Posted : e.k = "quit"
  BY DEF NoCommand
<1>3. queue \in Seq(Signals) /\ \A level : DisposedQueue(queue, level) = queue
  BY <1>2 DEF Inv, TypeOK, MainTypes, DisposedQueue
<1>4. CASE Run
  <2>1. cmd \in {"quit", "invalid", "about"}
    BY Inputs DEF Inv, TypeOK, EnvTypes
  <2>2. CASE Finish(queue)
    <3>1. queue' = queue /\ window' = None /\ live' = live /\ cont' # "restart" /\ kind' = kind
      BY <1>3, <2>2 DEF Finish, DisposeUI, BeginJoin, threadVars
    <3> QED
      BY <1>1, <3>1, StillNoCommand DEF Posted
  <2>3. CASE OnCriticalFailure(queue)
    <3>1. queue' = queue /\ window' = None /\ live' = live /\ cont' = cont /\ kind' = kind
      BY <1>3, <2>3 DEF OnCriticalFailure, DisposeUI
    <3> QED
      BY <1>1, <3>1, StillNoCommand DEF Posted
  <2>4. CASE UNCHANGED <<cont, queue, threadVars, windowVars>>
    <3>1. queue' = queue /\ window' = window /\ live' = live /\ cont' = cont /\ kind' = kind
      BY <2>4 DEF threadVars, windowVars
    <3> QED
      BY <1>1, <3>1, StillNoCommand DEF Posted
  <2> QED
    BY <1>4, <2>1, <2>2, <2>3, <2>4 DEF Run
<1>5. CASE Deliver
  <2> DEFINE e == queue[NextSignal]
             q == RemoveAt(queue, NextSignal)
  <2>1. e \in Posted /\ From(q)
    BY <1>3, <1>5, Delivery DEF Deliver
  <2>2. e.k = "quit"
    BY <1>2, <2>1
  <2>3. DeliverToController(e, q)
    BY <1>5, <2>2 DEF Deliver, WindowSignals, ThreadSignals
  <2>4. queue' = q /\ UNCHANGED <<cont, windowVars, threadVars>>
    BY <2>2, <2>3 DEF DeliverToController
  <2>5. window' = window /\ live' = live /\ cont' = cont /\ kind' = kind /\ Posted' \subseteq Posted
    BY <2>1, <2>4 DEF windowVars, threadVars, From, Posted
  <2> QED
    BY <1>1, <2>5, StillNoCommand
<1>6. CASE StopChild
  <2>1. queue' = queue /\ window' = window /\ live' = live /\ cont' = cont /\ kind' = kind
    BY <1>6 DEF StopChild, windowVars
  <2> QED
    BY <1>1, <2>1, StillNoCommand DEF Posted
<1>7. CASE WaitForChild
  <2>1. window' = window /\ live' = live /\ cont' = cont
    BY <1>7 DEF WaitForChild, windowVars
  <2>2. \A t \in Threads : kind'[t] = kind[t] \/ kind'[t] = ""
    BY <1>7 DEF WaitForChild, FreeThread, Inv, TypeOK, ThreadTypes
  <2>3. Posted' \subseteq Posted
    BY <1>3, <1>7, WithoutRange DEF WaitForChild, Posted
  <2> QED
    BY <1>1, <2>1, <2>2, <2>3, StillNoCommand
<1>8. CASE EmitFinished
  <2>1. window' = window /\ live' = live /\ cont' # "restart" /\ kind' = kind
    BY <1>8 DEF EmitFinished, windowVars, threadVars
  <2>2. Posted' \subseteq Posted \cup {Sig("quit", None)}
    BY <1>3, <1>8, RangeOfAppend, QuitSignal DEF EmitFinished, Posted
  <2>3. Sig("quit", None).k = "quit"
    BY DEF Sig
  <2> QED
    BY <1>1, <2>1, <2>2, <2>3, StillNoCommand
<1>9. CASE ReportFatalError
  <2>1. queue' = queue /\ window' = None /\ live' = live /\ cont' # "restart" /\ kind' = kind
    BY <1>3, <1>9 DEF ReportFatalError, threadVars
  <2> QED
    BY <1>1, <2>1, StillNoCommand DEF Posted
<1>10. CASE Unwind
  <2>1. CASE UNCHANGED <<cont, queue, threadVars, windowVars>>
    <3>1. queue' = queue /\ window' = window /\ live' = live /\ cont' = cont /\ kind' = kind
      BY <2>1 DEF threadVars, windowVars
    <3> QED
      BY <1>1, <3>1, StillNoCommand DEF Posted
  <2> QED
    BY <1>9, <1>10, <2>1 DEF Unwind
<1>11. CASE CloseAboutPage
  <2>1. window' = window /\ live' = live /\ cont' = cont /\ kind' = kind
    BY <1>11 DEF CloseAboutPage, windowVars, mainVars, threadVars
  <2>2. Posted' = {Sig("quit", None)} /\ Sig("quit", None).k = "quit"
    BY <1>11, SingletonRange, QuitSignal DEF CloseAboutPage, Posted, Sig
  <2> QED
    BY <1>1, <2>1, <2>2, StillNoCommand
<1>12. CASE ChangeCard \/ UNCHANGED vars
  <2>1. queue' = queue /\ window' = window /\ live' = live /\ cont' = cont /\ kind' = kind
    BY <1>12 DEF ChangeCard, vars, mainVars, threadVars, windowVars
  <2> QED
    BY <1>1, <2>1, StillNoCommand DEF Posted
<1>13. ~Restart /\ ~ClickOK /\ ~ClickCancel /\ ~TryAgain /\ ~SelectAnother
  BY <1>2 DEF Restart, ClickOK, ClickCancel, TryAgain, SelectAnother, UserMayOnPage
<1>14. \A t \in Threads : ~ThreadStep(t)
  BY <1>2 DEF ThreadStep, WaitForCard, MonitorCards, RunCommand, GetPin, Confirm
<1> QED
  BY <1>4, <1>5, <1>6, <1>7, <1>8, <1>9, <1>10, <1>11, <1>12, <1>13, <1>14
     DEF Next, MainStep, UserStep, CloseFatalError

-----------------------------------------------------------------------------

(* Controller::onCriticalFailure leaves the pages alone.                   *)
LEMMA CriticalFailurePaged ==
    ASSUME Inv, Inv', Turns, Paged, NoCommand', NEW q, Calmer(q, queue), OnCriticalFailure(q)
    PROVE  Paged' /\ DialogsStep
<1>1. Quiet
  BY CriticalFailureQuiet
<1>2. UNCHANGED <<page, choice, live>>
  BY DEF OnCriticalFailure, DisposeUI
<1> QED
  BY <1>1, <1>2, QuietPaged

(* A slot that only shows a page.                                          *)
LEMMA PageOnlyPaged ==
    ASSUME Inv, Inv', Turns, Paged, NoCommand', NEW q, Calmer(q, queue),
           ~ThreadTurn, \A x \in Range(q) : ~Acts(x), NoStatus,
           NEW w \in Windows, w = window, w # None,
           NEW p \in {"select", "pin", "retry", "blocked"}, PageOnly(w, p, q),
           p = "select" => cmd # "sign" /\ (cmd = "authenticate" => choice[w]),
           page'[w] = p /\ choice'[w] = choice[w] /\ cmd' = cmd => Shown(w)!Next \/ page[w] = p
    PROVE  Paged' /\ DialogsStep
<1>1. /\ page' = [page EXCEPT ![w] = p] /\ queue' = q /\ UNCHANGED <<window, live, choice>> /\ UNCHANGED <<kind, st, cmd>>
  BY DEF PageOnly, ShowPage, threadVars, envVars
<1>2. page'[w] = p
  BY <1>1 DEF Inv, TypeOK, DialogTypes
<1>3. Shown(w)!Next \/ (page'[w] = page[w] /\ choice'[w] = choice[w])
  BY <1>1, <1>2
<1> QED
  BY <1>1, <1>3, PagePaged

(* onSingleCertificateReady, after the certificates have been read or when *)
(* the user has chosen one.                                                *)
LEMMA SingleCertificatePaged ==
    ASSUME Inv, Inv', Turns, Turns', Paged, NoCommand', NEW q, Calmer(q, queue),
           ~ThreadTurn, \A x \in Range(q) : ~Acts(x), NoStatus,
           NEW w \in Windows, w = window, w # None, NEW d \in {"single", "unusable"},
           page[w] = "wait" \/ (page[w] = "select" /\ cmd # "get-signing-certificate"),
           OnSingleCertificateReady(w, d, q)
    PROVE  Paged' /\ DialogsStep
<1>1. /\ cmd \in {"get-signing-certificate", "authenticate", "sign"} /\ choice[w] \in BOOLEAN
      /\ page[w] = "wait" => ~choice[w]
      /\ page[w] = "select" => cmd = "authenticate" /\ choice[w]
  BY ShownDialog DEF Inv, TypeOK, DialogTypes
<1>2. ASSUME NEW p \in {"pin", "pinpad", "blocked"}, p # "blocked" => cmd # "get-signing-certificate",
             page'[w] = p, choice'[w] = choice[w], cmd' = cmd
      PROVE  Shown(w)!Next
  <2>1. CASE page[w] = "wait"
    BY <1>1, <1>2, <2>1 DEF Shown!Next, Shown!Ready
  <2>2. CASE page[w] = "select"
    BY <1>1, <1>2, <2>2 DEF Shown!Next, Shown!Choose, Shown!Goto
  <2> QED
    BY <2>1, <2>2
<1>3. CASE OnCriticalFailure(q)
  BY <1>3, CriticalFailurePaged
<1>4. CASE PageOnly(w, "blocked", q)
  <2>1. page'[w] = "blocked" /\ choice'[w] = choice[w] /\ cmd' = cmd => Shown(w)!Next \/ page[w] = "blocked"
    BY <1>2
  <2> QED
    BY <1>4, <2>1, PageOnlyPaged
<1>5. CASE cmd = "get-signing-certificate" /\ PageOnly(w, "select", q)
  <2>1. page'[w] = "select" /\ choice'[w] = choice[w] /\ cmd' = cmd => Shown(w)!Next \/ page[w] = "select"
    BY <1>1, <1>5 DEF Shown!Next, Shown!Ready
  <2> QED
    BY <1>5, <2>1, PageOnlyPaged
<1>6. CASE cmd # "get-signing-certificate" /\ PageOnly(w, "pin", q)
  <2>1. page'[w] = "pin" /\ choice'[w] = choice[w] /\ cmd' = cmd => Shown(w)!Next \/ page[w] = "pin"
    BY <1>2, <1>6
  <2> QED
    BY <1>6, <2>1, PageOnlyPaged
<1>7. CASE /\ cmd # "get-signing-certificate" /\ ShowPage(w, "pinpad") /\ OnConfirmCommandHandler(q)
           /\ UNCHANGED <<window, live, right, choice, pin>>
  <2>1. page' = [page EXCEPT ![w] = "pinpad"] /\ page'[w] = "pinpad" /\ UNCHANGED <<window, live, choice>> /\ cmd' = cmd
    BY <1>7 DEF ShowPage, Inv, TypeOK, DialogTypes, OnConfirmCommandHandler, envVars
  <2>2. Shown(w)!Next
    BY <1>2, <1>7, <2>1
  <2> QED
    BY <1>7, <2>1, <2>2, ConfirmPaged
<1> QED
  BY <1>3, <1>4, <1>5, <1>6, <1>7 DEF OnSingleCertificateReady, PromptForPin

(* onMultipleCertificatesReady, after the certificates have been read.     *)
LEMMA MultipleCertificatesPaged ==
    ASSUME Inv, Inv', Turns, Paged, NoCommand', NEW q, Calmer(q, queue),
           ~ThreadTurn, \A x \in Range(q) : ~Acts(x), NoStatus,
           NEW w \in Windows, w = window, w # None, page[w] = "wait", cmd # "sign",
           OnMultipleCertificatesReady(w, q)
    PROVE  Paged' /\ DialogsStep
<1>1. cmd \in {"get-signing-certificate", "authenticate", "sign"}
  BY ShownDialog
<1>2. CASE OnCriticalFailure(q)
  BY <1>2, CriticalFailurePaged
<1>3. CASE /\ ShowPage(w, "select") /\ choice' = [choice EXCEPT ![w] = TRUE] /\ queue' = q
           /\ UNCHANGED <<window, live, right, pin, threadVars, handlerVars, mainVars, envVars>>
  <2>1. /\ page' = [page EXCEPT ![w] = "select"] /\ UNCHANGED <<window, live>> /\ UNCHANGED <<kind, st, cmd>>
        /\ page'[w] = "select" /\ choice'[w] = TRUE /\ \A v \in Windows \ {w} : choice'[v] = choice[v]
    BY <1>3 DEF ShowPage, threadVars, envVars, Inv, TypeOK, DialogTypes
  <2>2. Shown(w)!Next
    <3>1. choice'[w] \in BOOLEAN /\ page[w] = "wait" /\ cmd # "sign" /\ page'[w] = "select" /\ cmd' = cmd
      BY <2>1
    <3>2. Shown(w)!Ready
      BY <1>1, <3>1 DEF Shown!Ready
    <3> QED
      BY <3>2 DEF Shown!Next
  <2> QED
    BY <1>3, <2>1, <2>2, PagePaged
<1> QED
  BY <1>2, <1>3 DEF OnMultipleCertificatesReady

(* onVerifyPinFailed, after a PIN was used.                                *)
LEMMA PinFailedPaged ==
    ASSUME Inv, Inv', Turns, Paged, NoCommand', NEW q, Calmer(q, queue),
           ~ThreadTurn, \A x \in Range(q) : ~Acts(x), NoStatus,
           NEW w \in Windows, w = window, w # None, page[w] \in {"busy", "pinpad"},
           cmd # "get-signing-certificate", NEW d, OnVerifyPinFailed(w, d, q)
    PROVE  Paged' /\ DialogsStep
<1>1. PageOnly(w, PageAfterPinFailure(page[w], d), q)
  BY DEF OnVerifyPinFailed
<1>2. CASE d = "fatal"
  <2>1. PageAfterPinFailure(page[w], d) = "blocked"
    BY <1>2 DEF PageAfterPinFailure
  <2>2. page'[w] = "blocked" /\ choice'[w] = choice[w] /\ cmd' = cmd => Shown(w)!Next \/ page[w] = "blocked"
    BY DEF Shown!Next, Shown!PinFailed, Shown!Goto
  <2> QED
    BY <1>1, <2>1, <2>2, PageOnlyPaged
<1>3. CASE d # "fatal" /\ page[w] = "pinpad"
  <2>1. PageAfterPinFailure(page[w], d) = "retry"
    BY <1>3 DEF PageAfterPinFailure
  <2>2. page'[w] = "retry" /\ choice'[w] = choice[w] /\ cmd' = cmd => Shown(w)!Next \/ page[w] = "retry"
    BY <1>3 DEF Shown!Next, Shown!PinFailed, Shown!Goto
  <2> QED
    BY <1>1, <2>1, <2>2, PageOnlyPaged
<1>4. CASE d # "fatal" /\ page[w] = "busy"
  <2>1. PageAfterPinFailure(page[w], d) = "pin"
    BY <1>4 DEF PageAfterPinFailure
  <2>2. page'[w] = "pin" /\ choice'[w] = choice[w] /\ cmd' = cmd => Shown(w)!Next \/ page[w] = "pin"
    BY <1>4 DEF Shown!Next, Shown!PinFailed, Shown!Goto
  <2> QED
    BY <1>1, <2>1, <2>2, PageOnlyPaged
<1> QED
  BY <1>2, <1>3, <1>4

(* The page that offers to try again.                                      *)
LEMMA TryAgainPaged ==
    ASSUME Inv, Inv', Turns, Paged, NoCommand', NEW q, Calmer(q, queue),
           ~ThreadTurn, \A x \in Range(q) : ~Acts(x), NoStatus,
           NEW w \in Windows, w = window, w # None, PageOnly(w, "retry", q)
    PROVE  Paged' /\ DialogsStep
<1>1. page[w] \in Pages /\ page[w] # ""
  BY ShownDialog
<1>2. page'[w] = "retry" /\ choice'[w] = choice[w] /\ cmd' = cmd => Shown(w)!Next \/ page[w] = "retry"
  BY <1>1 DEF Shown!Next, Shown!Retry, Shown!Goto, Pages
<1> QED
  BY <1>2, PageOnlyPaged

-----------------------------------------------------------------------------
(* A signal for the dialog, after which nobody acts.                       *)
LEMMA SignalIsAlone ==
    ASSUME Inv, Turns, Paged, NEW e, NEW q, Taken(e, q), Acts(e), e.k # "cardsAvailable"
    PROVE  ~ThreadTurn /\ Calmer(q, queue) /\ (\A x \in Range(q) : ~Acts(x)) /\ NoStatus
<1>1. ~ThreadTurn /\ Calmer(q, queue) /\ (\A x \in Range(q) : ~Acts(x))
  BY TurnOfSignal
<1>2. e \in Posted
  BY DEF Taken
<1>3. NoStatus
  BY <1>2 DEF Paged, StatusComesFirst
<1> QED
  BY <1>1, <1>3

(* The slots of the dialog show pages that follow the one before.          *)
LEMMA DeliverToWindowPaged ==
    ASSUME Inv, Inv', Turns, Turns', Paged, NoCommand', NEW e, NEW q, Taken(e, q), Addressed(e),
           e.k \in WindowSignals \ {"deleteWindow"}, DeliverToWindow(e, q)
    PROVE  Paged' /\ DialogsStep
<1>1. CASE e.o # window /\ Ignored(q)
  <2>1. ~Watch(e)
    BY DEF Watch, WindowSignals
  <2>2. Quiet
    BY <1>1, <2>1, TakenLeaves, IgnoredQuiet
  <2>3. UNCHANGED <<page, choice, live>>
    BY <1>1 DEF Ignored, windowVars
  <2> QED
    BY <2>2, <2>3, QuietPaged
<1>2. CASE e.o = window
  <2>1. window \in live /\ live \subseteq Windows /\ None \notin Windows /\ e \in Posted
    BY <1>2, NoneIsNoObject DEF Addressed, Inv, TypeOK, DialogTypes, Taken
  <2>2. PICK w \in Windows : w = window /\ w # None /\ w = e.o
    BY <1>2, <2>1
  <2>3. Acts(e) /\ e.k # "cardsAvailable"
    BY <1>2, <2>2 DEF Acts, Prompting, Trying, WindowSignals
  <2>4. ~ThreadTurn /\ Calmer(q, queue) /\ (\A x \in Range(q) : ~Acts(x)) /\ NoStatus
    BY <2>3, SignalIsAlone
  <2>5. /\ e.k \in {"certificateReady", "mismatch"} => page[w] = "wait"
        /\ e.k = "verifyPinFailed" => page[w] \in {"busy", "pinpad"}
    BY <2>1, <2>2 DEF Paged, PageOfTurn, Reading, Confirming
  <2>6. e.k = "certificateReady" =>
          e.d \in {"single", "multiple", "unusable"} /\ (e.d = "multiple" => cmd # "sign")
    BY <2>1 DEF Paged, CertificatesFit
  <2>7. CASE e.k = "certificateReady" /\ e.d = "multiple" /\ OnMultipleCertificatesReady(w, q)
    BY <2>2, <2>4, <2>5, <2>6, <2>7, MultipleCertificatesPaged
  <2>8. CASE e.k = "certificateReady" /\ e.d # "multiple" /\ OnSingleCertificateReady(w, e.d, q)
    BY <2>2, <2>4, <2>5, <2>6, <2>8, SingleCertificatePaged
  <2>9. CASE e.k = "mismatch" /\ PageOnly(w, "retry", q)
    BY <2>2, <2>4, <2>9, TryAgainPaged
  <2>10. CASE e.k = "verifyPinFailed" /\ OnVerifyPinFailed(w, e.d, q)
    <3>1. cmd # "get-signing-certificate"
      BY <2>10 DEF Addressed
    <3> QED
      BY <2>2, <2>4, <2>5, <2>10, <3>1, PinFailedPaged
  <2> QED
    BY <1>2, <2>2, <2>7, <2>8, <2>9, <2>10 DEF DeliverToWindow
<1> QED
  BY <1>1, <1>2 DEF DeliverToWindow

(* Controller::retry shows the page that offers to try again, or starts    *)
(* again.                                                                  *)
LEMMA RetrySignalPaged ==
    ASSUME Inv, Inv', Turns, Paged, NoCommand', NEW e, NEW q, Taken(e, q), Trying(e), e.k # "cardsAvailable",
           OnRetrySignal(q)
    PROVE  Paged' /\ DialogsStep
<1>1. CASE window = None /\ Ignored(q)
  <2>1. ~Watch(e)
    BY DEF Trying, Watch
  <2>2. Quiet
    BY <1>1, <2>1, TakenLeaves, IgnoredQuiet
  <2>3. UNCHANGED <<page, choice, live>>
    BY <1>1 DEF Ignored, windowVars
  <2> QED
    BY <2>2, <2>3, QuietPaged
<1>2. CASE window # None /\ PageOnly(window, "retry", q)
  <2>1. ~ThreadTurn /\ Calmer(q, queue) /\ (\A x \in Range(q) : ~Acts(x)) /\ NoStatus
    BY SignalIsAlone DEF Acts
  <2>2. PICK w \in Windows : w = window
    BY <1>2, ShownDialog
  <2>3. w # None /\ PageOnly(w, "retry", q)
    BY <1>2, <2>2
  <2> QED
    BY <2>1, <2>2, <2>3, TryAgainPaged
<1> QED
  BY <1>1, <1>2 DEF OnRetrySignal

(* The slots of Controller.                                                *)
LEMMA DeliverToControllerPaged ==
    ASSUME Inv, Inv', Turns, Turns', Paged, NoCommand', NEW e, NEW q, Taken(e, q), pc = "loop",
           DeliverToController(e, q)
    PROVE  Paged' /\ DialogsStep
<1>1. Calmer(q, queue) /\ e \in Posted /\ pc # "start"
  BY DEF Taken
<1>2. CASE e.k = "cardsAvailable" /\ OnCardsAvailable(q)
  <2>1. CASE OnCriticalFailure(q)
    BY <1>1, <2>1, CriticalFailurePaged
  <2>2. CASE /\ window # None /\ StartThread("run", None)
             /\ page' = [page EXCEPT ![window] = "wait"]
             /\ queue' = q
             /\ UNCHANGED <<interrupted, window, live, choice, envVars>>
    <3>1. /\ UNCHANGED interrupted /\ UNCHANGED cmd /\ UNCHANGED <<window, live, choice>>
          /\ \E x \in Posted : x.k = "cardsAvailable"
      BY <1>1, <1>2, <2>2 DEF envVars
    <3> QED
      BY <1>1, <2>2, <3>1, CardsAvailablePaged
  <2> QED
    BY <1>2, <2>1, <2>2 DEF OnCardsAvailable
<1>3. CASE e.k = "statusUpdate" /\ OnSmartCardStatusUpdate(q)
  <2>1. ~Watch(e)
    BY <1>3 DEF Watch
  <2>2. Quiet /\ \E x \in Posted : x.k = "statusUpdate"
    BY <1>1, <1>3, <2>1, TakenLeaves, StatusUpdateQuiet
  <2>3. CASE window = None /\ Ignored(q)
    <3>1. UNCHANGED <<page, choice, live>>
      BY <2>3 DEF Ignored, windowVars
    <3> QED
      BY <2>2, <3>1, QuietPaged
  <2>4. CASE window # None /\ ShowPage(window, "alert") /\ UNCHANGED <<window, live, choice>>
    BY <2>2, <2>4, StatusUpdatePaged
  <2> QED
    BY <1>3, <2>3, <2>4 DEF OnSmartCardStatusUpdate
<1>4. CASE e.k = "certificatesLoaded" /\ OnCertificatesLoaded(q)
  BY <1>1, <1>4, CertificatesLoadedPaged
<1>5. CASE e.k = "cardEvent" /\ OnRetry(q)
  BY <1>1, <1>5, RetryPaged
<1>6. CASE e.k = "retry" /\ OnRetrySignal(q)
  BY <1>6, RetrySignalPaged DEF Trying
<1>7. CASE OnCommandHandlerConfirmCompleted(q) \/ OnDialogCancel(q)
  <2>1. Finish(q)
    BY <1>7 DEF OnCommandHandlerConfirmCompleted, OnDialogCancel
  <2>2. Quiet
    BY <1>1, <2>1, FinishQuiet
  <2>3. UNCHANGED <<page, choice, live>>
    BY <2>1 DEF Finish, DisposeUI
  <2> QED
    BY <2>2, <2>3, QuietPaged
<1>8. CASE OnCriticalFailure(q)
  BY <1>1, <1>8, CriticalFailurePaged
<1>9. CASE /\ e.k = "quit" /\ pc' = "unwind" /\ queue' = q
           /\ UNCHANGED <<windowVars, threadVars, handlerVars, envVars>>
  <2>1. ~Watch(e)
    BY <1>9 DEF Watch
  <2>2. Calmer(queue', queue) /\ WatchLeft(queue')
    BY <1>9, <2>1, TakenLeaves
  <2>3. Quiet
    BY <1>9, <2>2, MainQuiet
  <2>4. UNCHANGED <<page, choice, live>>
    BY <1>9 DEF windowVars
  <2> QED
    BY <2>3, <2>4, QuietPaged
<1> QED
  BY <1>2, <1>3, <1>4, <1>5, <1>6, <1>7, <1>8, <1>9 DEF DeliverToController

(* The slots of a thread object.                                           *)
LEMMA DeliverToThreadPaged ==
    ASSUME Inv, Inv', Turns, Paged, NoCommand', NEW e, NEW q, Taken(e, q), Addressed(e),
           e.k \in ThreadSignals \ {"deleteThread"}, DeliverToThread(e, q)
    PROVE  Paged' /\ DialogsStep
<1>1. ~Watch(e)
  BY DEF Watch, ThreadSignals
<1>2. Calmer(q, queue) /\ WatchLeft(q)
  BY <1>1, TakenLeaves
<1>3. ASSUME NEW s, Calmer(s, queue), WatchLeft(s), Ignored(s) PROVE Paged' /\ DialogsStep
  <2>1. Quiet
    BY <1>3, IgnoredQuiet
  <2>2. UNCHANGED <<page, choice, live>>
    BY <1>3 DEF Ignored, windowVars
  <2> QED
    BY <2>1, <2>2, QuietPaged
<1>4. CASE Ignored(Append(q, DeleteLater("deleteThread", e.o, depth)))
  <2> DEFINE x == DeleteLater("deleteThread", e.o, depth)
  <2>1. x \in Signals /\ x.k \notin LoudKinds
    <3>1. depth \in 0 .. MaxDepth
      BY DEF Inv, TypeOK, MainTypes
    <3>2. e.o \in Threads
      BY DEF Addressed
    <3> QED
      BY <3>1, <3>2 DEF DeleteLater, Signals, SignalKinds, ThreadSignals, LoudKinds
  <2> HIDE DEF x
  <2>2. Calmer(Append(q, x), queue) /\ WatchLeft(Append(q, x))
    BY <1>2, <2>1, AppendCalms
  <2>3. Ignored(Append(q, x))
    BY <1>4 DEF x
  <2> QED
    BY <1>3, <2>2, <2>3
<1>5. CASE e.k = "retryHandler" /\ OnRetrySignal(q)
  BY <1>5, RetrySignalPaged DEF Trying
<1>6. CASE Ignored(q)
  BY <1>2, <1>3, <1>6
<1> QED
  BY <1>4, <1>5, <1>6 DEF DeliverToThread

(* A signal that is delivered keeps the pages.                             *)
LEMMA DeliverPaged ==
    ASSUME Inv, Inv', Turns, Turns', Paged, NoCommand', Deliver
    PROVE  Paged' /\ DialogsStep
<1> DEFINE e == queue[NextSignal]
           q == RemoveAt(queue, NextSignal)
<1>1. Taken(e, q) /\ pc = "loop" /\ pc # "start"
  BY TakenSignal DEF Deliver
<1>2. Addressed(e) /\ Calmer(q, queue)
  BY <1>1 DEF Taken, Inv, SignalsAreAddressed
<1>3. \/ e.k = "deleteWindow" /\ DeleteWindow(e.o, q)
      \/ e.k = "deleteThread" /\ DeleteThread(e.o, q)
      \/ e.k \in WindowSignals \ {"deleteWindow"} /\ DeliverToWindow(e, q)
      \/ e.k \in ThreadSignals \ {"deleteThread"} /\ DeliverToThread(e, q)
      \/ e.o = None /\ DeliverToController(e, q)
  BY DEF Deliver
<1> HIDE DEF e, q
<1>4. CASE e.k = "deleteWindow" /\ DeleteWindow(e.o, q)
  <2>1. e.o \in live /\ e.o # window /\ ~Watch(e)
    BY <1>2, <1>4 DEF Addressed, WindowSignals, Watch
  <2>2. WatchLeft(q)
    BY <1>1, <2>1, TakenLeaves
  <2>3. PICK w \in live : w = e.o
    BY <2>1
  <2>4. w # window /\ DeleteWindow(w, q)
    BY <1>4, <2>1, <2>3
  <2>5. Quiet
    BY <1>1, <1>2, <2>2, <2>4, DeleteWindowQuiet
  <2> QED
    BY <2>4, <2>5, DeleteWindowPaged
<1>5. CASE e.k = "deleteThread" /\ DeleteThread(e.o, q)
  <2>1. e.o \in Threads /\ kind[e.o] = "run" /\ ~Watch(e)
    BY <1>2, <1>5 DEF Addressed, ThreadSignals, Watch
  <2>2. WatchLeft(q)
    BY <1>1, <2>1, TakenLeaves
  <2>3. PICK t \in Threads : t = e.o
    BY <2>1
  <2>4. kind[t] = "run" /\ DeleteThread(t, q)
    BY <1>5, <2>1, <2>3
  <2>5. Quiet
    BY <1>1, <1>2, <2>2, <2>4, DeleteThreadQuiet
  <2>6. UNCHANGED <<page, choice, live>>
    BY <2>4 DEF DeleteThread, windowVars
  <2> QED
    BY <2>5, <2>6, QuietPaged
<1>6. CASE e.k \in WindowSignals \ {"deleteWindow"} /\ DeliverToWindow(e, q)
  BY <1>1, <1>2, <1>6, DeliverToWindowPaged
<1>7. CASE e.k \in ThreadSignals \ {"deleteThread"} /\ DeliverToThread(e, q)
  BY <1>1, <1>2, <1>7, DeliverToThreadPaged
<1>8. CASE e.o = None /\ DeliverToController(e, q)
  BY <1>1, <1>8, DeliverToControllerPaged
<1> QED
  BY <1>3, <1>4, <1>5, <1>6, <1>7, <1>8

-----------------------------------------------------------------------------

(* Every step of the main thread keeps the pages.                          *)
LEMMA MainStepPaged ==
    ASSUME Inv, Inv', Turns, Turns', Paged, NoCommand', MainStep
    PROVE  Paged' /\ DialogsStep
<1>1. Calmer(queue, queue) /\ WatchLeft(queue)
  BY QueueIsCalm
<1>2. CASE Run
  <2>1. CASE Finish(queue)
    <3>1. Quiet
      BY <1>1, <2>1, FinishQuiet
    <3>2. UNCHANGED <<page, choice, live>>
      BY <2>1 DEF Finish, DisposeUI
    <3> QED
      BY <3>1, <3>2, QuietPaged
  <2>2. CASE OnCriticalFailure(queue)
    BY <1>1, <2>2, CriticalFailurePaged
  <2>3. CASE pc' = "loop" /\ UNCHANGED <<envVars, queue, threadVars, windowVars, handlerVars>>
    <3>1. Calmer(queue', queue) /\ WatchLeft(queue')
      BY <1>1, <2>3
    <3>2. Quiet
      BY <2>3, <3>1, MainQuiet
    <3>3. UNCHANGED <<page, choice, live>>
      BY <2>3 DEF windowVars
    <3> QED
      BY <3>2, <3>3, QuietPaged
  <2>4. CASE StartCommandExecution /\ UNCHANGED <<queue, envVars>>
    BY <2>4, StartPaged
  <2> QED
    BY <1>2, <2>1, <2>2, <2>3, <2>4 DEF Run
<1>3. CASE Deliver
  BY <1>3, DeliverPaged
<1>4. CASE StopChild \/ WaitForChild \/ EmitFinished \/ Unwind
  <2>1. Quiet
    BY <1>4, StopChildQuiet, WaitForChildQuiet, EmitFinishedQuiet, UnwindQuiet
  <2>2. UNCHANGED <<page, choice, live>>
    BY <1>4 DEF StopChild, WaitForChild, EmitFinished, Unwind, ReportFatalError, windowVars
  <2> QED
    BY <2>1, <2>2, QuietPaged
<1>5. CASE Restart
  BY <1>5, StartPaged DEF Restart
<1> QED
  BY <1>2, <1>3, <1>4, <1>5 DEF MainStep

(* OK shows a page that follows the one on which it was clicked.           *)
LEMMA ClickOKPaged ==
    ASSUME Inv, Inv', Turns, Turns', Paged, Calm, NoCommand', ClickOK
    PROVE  Paged' /\ DialogsStep
<1>1. /\ pc = "loop" /\ window # None /\ page[window] \in {"select", "pin"}
      /\ "hasty" \notin UserActs => Idle
  BY DEF ClickOK, UserMayOnPage, UserMay
<1>2. Asked /\ UserTurn
  BY <1>1 DEF Asked, UserTurn
<1>3. ~ThreadTurn /\ Calmer(queue, queue) /\ \A x \in Range(queue) : ~Acts(x)
  BY <1>1, <1>2, TurnOfUser
<1>4. NoStatus
  <2>1. ~Looking
    BY <1>1 DEF Paged, PageOfTurn
  <2> QED
    BY <2>1 DEF Looking, NoStatus
<1>5. PICK w \in Windows : w = window /\ w # None /\ page[w] \in {"select", "pin"}
                           /\ (page[w] = "pin" => cmd # "get-signing-certificate")
  BY <1>1, ShownDialog
<1>6. CASE /\ page[w] = "pin" \/ cmd = "get-signing-certificate"
           /\ ShowPage(w, "busy") /\ OnConfirmCommandHandler(queue)
           /\ UNCHANGED <<window, live, right, choice>>
  <2>1. /\ page' = [page EXCEPT ![w] = "busy"] /\ page'[w] = "busy" /\ UNCHANGED <<window, live, choice>>
        /\ choice'[w] = choice[w] /\ cmd' = cmd
    BY <1>6 DEF ShowPage, Inv, TypeOK, DialogTypes, OnConfirmCommandHandler, envVars
  <2>2. page[w] = (IF cmd = "get-signing-certificate" THEN "select" ELSE "pin")
    BY <1>5, <1>6
  <2>3. Shown(w)!Next
    BY <2>1, <2>2 DEF Shown!Next, Shown!Confirm, Shown!Goto
  <2>4. OnConfirmCommandHandler(queue)
    BY <1>6
  <2> QED
    BY <1>3, <1>4, <1>5, <2>1, <2>3, <2>4, ConfirmPaged
<1>7. CASE /\ page[w] = "select" /\ cmd # "get-signing-certificate"
           /\ \E d \in {"single", "unusable"} : OnSingleCertificateReady(w, d, queue)
  <2>1. PICK d \in {"single", "unusable"} : OnSingleCertificateReady(w, d, queue)
    BY <1>7
  <2> QED
    BY <1>3, <1>4, <1>5, <1>7, <2>1, SingleCertificatePaged
<1> QED
  BY <1>5, <1>6, <1>7 DEF ClickOK, UserMayOnPage

(* Whatever the calm user does shows a page that follows.                  *)
LEMMA UserStepPaged ==
    ASSUME Inv, Inv', Turns, Turns', Paged, Calm, NoCommand', UserStep
    PROVE  Paged' /\ DialogsStep
<1>1. CASE ClickOK
  BY <1>1, ClickOKPaged
<1>2. CASE ClickCancel \/ CloseFatalError \/ CloseAboutPage
  <2>1. Quiet
    <3>1. ClickCancel => Finish(queue)
      BY DEF ClickCancel, OnDialogCancel
    <3>2. CloseFatalError => depth > 0 /\ ReportFatalError
      BY DEF CloseFatalError
    <3> QED
      BY <1>2, <3>1, <3>2, QueueIsCalm, FinishQuiet, FatalErrorQuiet, CloseAboutPageQuiet
  <2>2. UNCHANGED <<page, choice, live>>
    BY <1>2 DEF ClickCancel, OnDialogCancel, Finish, DisposeUI, CloseFatalError, ReportFatalError,
                CloseAboutPage, windowVars
  <2> QED
    BY <2>1, <2>2, QuietPaged
<1>3. CASE TryAgain
  <2>1. OnRetry(queue)
    BY <1>3 DEF TryAgain
  <2> QED
    BY <2>1, QueueIsCalm, RetryPaged
<1>4. CASE SelectAnother
  BY <1>4 DEF SelectAnother, UserMayOnPage, UserMay, Calm
<1> QED
  BY <1>1, <1>2, <1>3, <1>4 DEF UserStep

(* Every step keeps the invariant and is a step of every dialog.           *)
LEMMA NextPaged ==
    ASSUME Calm, Inv, Inv', Turns, Turns', Paged, [Next]_vars
    PROVE  Paged' /\ DialogsStep
<1>1. NoCommand'
  BY NextNoCommand DEF Paged
<1>2. CASE MainStep
  BY <1>1, <1>2, MainStepPaged
<1>3. CASE \E t \in Threads : ThreadStep(t)
  BY <1>1, <1>3, ThreadStepPaged
<1>4. CASE UserStep
  BY <1>1, <1>4, UserStepPaged
<1>5. CASE ChangeCard \/ UNCHANGED vars
  <2>1. Quiet
    BY <1>5, ChangeCardQuiet, StutterQuiet
  <2>2. UNCHANGED <<page, choice, live>>
    BY <1>5 DEF ChangeCard, vars, windowVars
  <2> QED
    BY <1>1, <2>1, <2>2, QuietPaged
<1> QED
  BY <1>2, <1>3, <1>4, <1>5 DEF Next

(* There is no dialog to begin with.                                       *)
LEMMA InitialPaged ==
    ASSUME Init
    PROVE  Paged
<1>1. /\ queue = <<>> /\ window = None /\ live = {} /\ cont = ""
      /\ \A t \in Threads : kind[t] = ""
      /\ \A w \in Windows : page[w] = "" /\ choice[w] = FALSE
  BY DEF Init
<1>2. Posted = {}
  BY <1>1, EmptyRange DEF Posted
<1> QED
  BY <1>1, <1>2 DEF Paged, NoCommand, PagesOfDialogs, PageOfTurn, StatusComesFirst, CertificatesFit, NoStatus

(* In a calm environment each dialog that Controller shows goes through    *)
(* pages of DialogPages only: no signal, click or thread ever shows a page *)
(* that cannot follow the one before, such as a prompt for a PIN after the *)
(* dialog has been told to try again.                                      *)
THEOREM DialogsShowTheirPages == Calm /\ Spec => EveryDialogShowsPages
<1> SUFFICES ASSUME Calm PROVE Spec => EveryDialogShowsPages
  OBVIOUS
<1>1. Init => Paged
  BY InitialPaged
<1>2. Inv /\ Inv' /\ Turns /\ Turns' /\ Paged /\ [Next]_vars => Paged'
  BY NextPaged
<1>3. Inv /\ Inv' /\ Turns /\ Turns' /\ Paged /\ [Next]_vars => DialogsStep
  BY NextPaged
<1>4. Spec => []Inv
  BY Invariance
<1>5. Spec => []Turns
  BY TakingTurns
<1>6. Spec => []Paged
  BY <1>1, <1>2, <1>4, <1>5, PTL DEF Spec
<1>7. Spec => [][DialogsStep]_vars
  BY <1>3, <1>4, <1>5, <1>6, PTL DEF Spec
<1> QED
  BY <1>7 DEF EveryDialogShowsPages, DialogsStep

-----------------------------------------------------------------------------
(* How the program ends.                                                   *)

(* The environments in which the program ends well: the user waits for the *)
(* event loop and goes neither away nor back; if the cards move, PINs are  *)
(* typed on the keyboard and no error follows a PIN that is asked for again*)
(* (the monitor started for it could restart the command behind the fatal  *)
(* error dialog).                                                          *)
Orderly ==
    /\ UserActs \cap {"hasty", "cancel", "reselect"} = {}
    /\ \/ MaxCardMoves = 0
       \/ /\ "pinpad" \notin PinModes
          /\ \A f \in PinFailures : ~Twofold(f)

(* The signals after which the command is over, ...                        *)
EndKinds == {"completed", "cancel", "failure"}

(* ... as a set of signals.                                                *)
Endings == {e \in Signals : e.k \in EndKinds}

(* The calls for a monitor.                                                *)
Loads == {e \in Signals : e.k = "certificatesLoaded"}

(* The command is about to be over.                                        *)
Ending == \E e \in Posted : e.k \in EndKinds

(* There is no dialog and will be none.                                    *)
Over == window = None /\ pc # "start" /\ cont # "restart"

(* The event loops are being left, or will be.                             *)
Finished == quitting \/ pc \in {"unwind", "exited"} \/ \E e \in Posted : e.k = "quit"

(* Nobody has the turn any more, and no card event will give it back.      *)
NobodyGoesOn ==
    Ending \/ Over =>
        /\ ~ThreadTurn
        /\ cont # "restart"
        /\ \A e \in Posted : e.k \notin {"cardsAvailable", "cardEvent"}
        /\ MaxCardMoves # 0 => ~WatchThread /\ ~WatchSignal

(* There is one ending, before anything has been written.                  *)
OneEnding ==
    /\ OneIn(queue, Endings)
    /\ Ending =>
          /\ responses = <<>> /\ depth = 0
          /\ \A e \in Posted : ~(e.k = "certificateReady" /\ e.o = window)

(* The monitor is started before the command is over, never after.         *)
NoLateMonitor ==
    /\ Before(queue, Loads, Endings)
    /\ Over => \A e \in Posted : e.k # "certificatesLoaded"

(* Controller::exit has waited for all threads, and there is a response.   *)
FinishedIsDone ==
    /\ Finished =>
          /\ Over /\ depth = 0
          /\ \A t \in Threads : ~Running(t)
          /\ cmd # "about" => responses # <<>>
    /\ cont = "exit" => responses # <<>> /\ depth = 0

(* One response, and one fatal error dialog at most.                       *)
OneAnswer ==
    /\ responses # <<>> => Over /\ Len(responses) = 1
    /\ depth > 0 => depth = 1 /\ Over /\ (responses # <<>> <=> Safari)
    /\ cmd = "about" => depth = 0

(* The invariant.                                                          *)
Ends ==
    /\ NobodyGoesOn
    /\ OneEnding
    /\ NoLateMonitor
    /\ FinishedIsDone
    /\ OneAnswer

-----------------------------------------------------------------------------
(* The signals that matter here.                                           *)
NewsKinds == EndKinds \cup {"certificatesLoaded", "cardEvent", "cardsAvailable", "certificateReady", "quit"}
(* The queue q has nothing new of them compared with s.                    *)
Less(q, s) ==
    /\ q \in Seq(Signals)
    /\ \A e \in Range(q) : e.k \in NewsKinds => e \in Range(s)
    /\ OneIn(s, Endings) => OneIn(q, Endings)
    /\ Before(s, Loads, Endings) => Before(q, Loads, Endings)

(* A queue has nothing new compared with itself, ...                       *)
LEMMA LessSelf ==
    ASSUME NEW s \in Seq(Signals)
    PROVE  Less(s, s)
BY DEF Less

(* ... nor with what it was two steps before, ...                          *)
LEMMA LessTwice ==
    ASSUME NEW p, NEW q, NEW s, Less(q, s), Less(p, q)
    PROVE  Less(p, s)
BY DEF Less

(* ... nor has a part of it in the same order, ...                         *)
LEMMA LeftIsLess ==
    ASSUME NEW s \in Seq(Signals), NEW q \in Seq(Signals), LeftOf(q, s)
    PROVE  Less(q, s)
<1>1. Range(q) \subseteq Range(s)
  BY LeftOfKeeps
<1>2. OneIn(s, Endings) => OneIn(q, Endings)
  BY LeftOfKeeps
<1>3. Before(s, Loads, Endings) => Before(q, Loads, Endings)
  BY LeftOfKeeps
<1> QED
  BY <1>1, <1>2, <1>3 DEF Less

(* ... such as what is left without a deleted object, ...                  *)
LEMMA WithoutIsLess ==
    ASSUME NEW s \in Seq(Signals), NEW k, NEW o
    PROVE  Less(Without(s, k, o), s)
<1> DEFINE keep == {i \in 1 .. Len(s) : ~Refers(s[i], k, o)}
<1>1. Part(s, keep) \in Seq(Signals) /\ LeftOf(Part(s, keep), s)
  BY PartIsLeft
<1> QED
  BY <1>1, LeftIsLess DEF Without

(* ... or without the signal that is delivered.                            *)
LEMMA RemovedIsLess ==
    ASSUME NEW s \in Seq(Signals), NEW n \in 1 .. Len(s)
    PROVE  Less(RemoveAt(s, n), s)
<1>1. RemoveAt(s, n) \in Seq(Signals) /\ LeftOf(RemoveAt(s, n), s)
  BY RemovedAt
<1> QED
  BY <1>1, LeftIsLess

(* A signal that does not matter here is nothing new, ...                  *)
LEMMA AppendIsLess ==
    ASSUME NEW s \in Seq(Signals), NEW e \in Signals, e.k \notin NewsKinds
    PROVE  Less(Append(s, e), s)
<1>1. <<e>> \in Seq(Signals) /\ Range(<<e>>) = {e} /\ Append(s, e) = s \o <<e>>
  <2>1. Append(s, e) = s \o <<e>> /\ <<e>> \in Seq(Signals)
    OBVIOUS
  <2> QED
    BY <2>1, SingletonRange
<1>2. Range(s \o <<e>>) = Range(s) \cup {e}
  <2>1. Range(s \o <<e>>) = Range(s) \cup Range(<<e>>)
    BY <1>1, RangeOfConcat
  <2> QED
    BY <1>1, <2>1
<1>3. (\A x \in Range(<<e>>) : x \notin Endings) /\ (\A x \in Range(<<e>>) : x \notin Loads)
  BY <1>1 DEF Endings, Loads, NewsKinds
<1>4. OneIn(<<e>>, Endings) /\ Before(<<e>>, Loads, Endings)
  <2>1. OneIn(<<e>>, Endings)
    BY <1>1, <1>3, NoneIn
  <2>2. Before(<<e>>, Loads, Endings)
    BY <1>1, <1>3, NoneIn
  <2> QED
    BY <2>1, <2>2
<1>5. OneIn(s, Endings) => OneIn(s \o <<e>>, Endings)
  BY <1>1, <1>3, <1>4, OneInConcat
<1>6. Before(s, Loads, Endings) => Before(s \o <<e>>, Loads, Endings)
  BY <1>1, <1>3, <1>4, BeforeInConcat
<1> QED
  BY <1>1, <1>2, <1>5, <1>6 DEF Less

(* ... nor is the deferred delete of a disposed dialog.                    *)
LEMMA DisposedIsLess ==
    ASSUME NEW q \in Seq(Signals), NEW level \in 0 .. MaxDepth, DialogTypes
    PROVE  Less(DisposedQueue(q, level), q)
<1>1. CASE window = None
  BY <1>1, LessSelf DEF DisposedQueue
<1>2. CASE window # None
  <2>1. DeleteLater("deleteWindow", window, level) \in Signals
    BY <1>2 DEF DialogTypes, DeleteLater, Signals, SignalKinds, WindowSignals
  <2>2. DeleteLater("deleteWindow", window, level).k \notin NewsKinds
    BY DEF DeleteLater, NewsKinds, EndKinds
  <2> QED
    BY <1>2, <2>1, <2>2, AppendIsLess DEF DisposedQueue
<1> QED
  BY <1>1, <1>2

(* What is known of such a queue.                                          *)
LEMMA NothingNew ==
    ASSUME Less(queue', queue), Ends
    PROVE  /\ \A e \in Posted' : e.k \in NewsKinds => e \in Posted
           /\ OneIn(queue', Endings)
           /\ Before(queue', Loads, Endings)
           /\ Ending' => Ending
BY DEF Less, Posted, Ending, Ends, OneEnding, NoLateMonitor, NewsKinds

(* In a quiet step no thread takes up anything.                            *)
LEMMA QuietThreadsEnd ==
    ASSUME QuietThreads
    PROVE  /\ ThreadTurn' => ThreadTurn
           /\ WatchThread' => WatchThread
           /\ \A t \in Threads : Running(t)' => Running(t)
<1>1. \A t \in Threads : Works(t)' => Works(t)
  BY DEF QuietThreads, Works
<1>2. \A t \in Threads : Watching(t)' => Watching(t)
  BY DEF QuietThreads, Watching
<1> QED
  BY <1>1, <1>2 DEF ThreadTurn, WatchThread, QuietThreads

(* A step that starts no thread, posts nothing new and changes nothing     *)
(* that matters about the event loop.                                      *)
LEMMA MainEnds ==
    ASSUME Ends, Less(queue', queue), QuietThreads, window' = window,
           Over' <=> Over, Finished' => Finished, UNCHANGED <<cmd, cont, depth, responses>>
    PROVE  Ends'
<1>1. /\ \A e \in Posted' : e.k \in NewsKinds => e \in Posted
      /\ OneIn(queue', Endings) /\ Before(queue', Loads, Endings)
      /\ Ending' => Ending
  BY NothingNew
<1>2. (ThreadTurn' => ThreadTurn) /\ (WatchThread' => WatchThread) /\ \A t \in Threads : Running(t)' => Running(t)
  BY QuietThreadsEnd
<1>3. WatchSignal' => WatchSignal
  BY <1>1 DEF WatchSignal, Watch, NewsKinds
<1>4. NobodyGoesOn'
  BY <1>1, <1>2, <1>3 DEF Ends, NobodyGoesOn, NewsKinds
<1>5. OneEnding'
  BY <1>1, <1>2, <1>3 DEF Ends, OneEnding, NewsKinds
<1>6. NoLateMonitor'
  BY <1>1, <1>2, <1>3 DEF Ends, NoLateMonitor, NewsKinds
<1>7. FinishedIsDone'
  BY <1>1, <1>2, <1>3 DEF Ends, FinishedIsDone
<1>8. OneAnswer'
  BY <1>1, <1>2, <1>3 DEF Ends, OneAnswer
<1> QED
  BY <1>4, <1>5, <1>6, <1>7, <1>8 DEF Ends

(* The same, if nothing at all changes about the event loop.               *)
LEMMA StillEnds ==
    ASSUME Ends, Less(queue', queue), QuietThreads, window' = window,
           UNCHANGED <<cmd, pc, cont, depth, quitting, responses>>
    PROVE  Ends'
<1>1. \A e \in Posted' : e.k \in NewsKinds => e \in Posted
  BY NothingNew
<1>2. (Over' <=> Over) /\ (Finished' => Finished)
  BY <1>1 DEF Over, Finished, NewsKinds
<1> QED
  BY <1>2, MainEnds

(* What is not yet so while a command goes on.                             *)
LEMMA WhileItGoesOn ==
    ASSUME Inv, Ends, ~Over
    PROVE  ~Finished /\ responses = <<>> /\ depth = 0 /\ cont # "exit"
<1>1. ~Finished /\ responses = <<>> /\ cont # "exit"
  BY DEF Ends, FinishedIsDone, OneAnswer
<1>2. ~(depth > 0)
  BY DEF Ends, OneAnswer
<1>3. depth \in 0 .. MaxDepth /\ MaxDepth \in Nat
  BY Bounds DEF Inv, TypeOK, MainTypes
<1> QED
  BY <1>1, <1>2, <1>3

(* A step after which the command goes on, with its dialog or another.     *)
LEMMA GoesOn ==
    ASSUME Inv, Ends, ~Ending, ~Over, Less(queue', queue), window' # None \/ cont' = "restart",
           pc' \notin {"unwind", "exited"}, cont' # "exit", UNCHANGED <<cmd, depth, quitting, responses>>
    PROVE  Ends'
<1>1. /\ \A e \in Posted' : e.k \in NewsKinds => e \in Posted
      /\ OneIn(queue', Endings) /\ Before(queue', Loads, Endings)
      /\ ~Ending'
  BY NothingNew
<1>2. ~Finished /\ responses = <<>> /\ depth = 0
  BY WhileItGoesOn
<1>3. ~Over' /\ ~Finished'
  BY <1>1, <1>2 DEF Over, Finished, NewsKinds
<1> QED
  BY <1>1, <1>2, <1>3 DEF Ends, NobodyGoesOn, OneEnding, NoLateMonitor, FinishedIsDone, OneAnswer

(* The first response.                                                     *)
LEMMA FirstAnswer ==
    ASSUME responses = <<>>, NEW r, Write(r)
    PROVE  responses' = <<r>> /\ responses' # <<>> /\ Len(responses') = 1
<1>1. MaxResponses \in Nat \ {0}
  BY Bounds
<1>2. Len(<<>>) < MaxResponses
  BY <1>1
<1> QED
  BY <1>2 DEF Write

(* Controller::onCriticalFailure.                                          *)
LEMMA FailureEnds ==
    ASSUME Inv, Ends, NEW q, Less(q, queue), OnCriticalFailure(q), ~ThreadTurn, ~Finished, cont # "restart",
           responses = <<>>, depth = 0, cmd # "about",
           \A e \in Range(q) : e.k \notin {"cardsAvailable", "cardEvent", "certificatesLoaded"} \cup EndKinds
    PROVE  Ends'
<1>0. q \in Seq(Signals)
  BY DEF Less
<1>1. /\ interrupted' = StoppedPollers /\ queue' = DisposedQueue(q, depth) /\ window' = None
      /\ IF Safari THEN Write("fatal") ELSE UNCHANGED responses
      /\ depth' = depth + 1 /\ pc' = "loop" /\ UNCHANGED <<cont, quitting, kind, st, cmd>>
  BY DEF OnCriticalFailure, DisposeUI, envVars
<1>2. Less(queue', q)
  <2>1. DialogTypes /\ depth \in 0 .. MaxDepth
    BY DEF Inv, TypeOK, MainTypes
  <2> QED
    BY <1>0, <1>1, <2>1, DisposedIsLess
<1>3. Less(queue', queue)
  BY <1>2, LessTwice
<1>4. /\ \A e \in Posted' : e.k \in NewsKinds => e \in Posted
      /\ OneIn(queue', Endings) /\ Before(queue', Loads, Endings)
  BY <1>3, NothingNew
<1>5. \A e \in Posted' : e.k \notin {"cardsAvailable", "cardEvent", "certificatesLoaded"} \cup EndKinds
  BY <1>2 DEF Less, Posted, NewsKinds
<1>6. ~Ending' /\ ~WatchSignal' /\ ~Finished' /\ Over'
  BY <1>1, <1>4, <1>5 DEF Ending, WatchSignal, Watch, Finished, NewsKinds, Over
<1>7. ~ThreadTurn' /\ ~WatchThread'
  BY <1>1 DEF ThreadTurn, Works, Running, WatchThread, Watching, StoppedPollers, Pollers
<1>8. depth' = 1 /\ cont' # "exit"
  BY <1>1 DEF Ends, FinishedIsDone
<1>9. (responses' # <<>> => Len(responses') = 1) /\ (responses' # <<>> <=> Safari)
  BY <1>1, FirstAnswer
<1> QED
  BY <1>1, <1>4, <1>5, <1>6, <1>7, <1>8, <1>9
  DEF Ends, NobodyGoesOn, OneEnding, NoLateMonitor, FinishedIsDone, OneAnswer

(* Controller::exit after the response.                                    *)
LEMMA FinishEnds ==
    ASSUME Inv, Ends, NEW q, Less(q, queue), NEW r, Write(r), Finish(q), ~ThreadTurn, ~Finished,
           responses = <<>>, depth = 0, MaxCardMoves # 0 => ~WatchThread,
           \A e \in Range(q) : e.k \notin {"cardsAvailable", "cardEvent", "certificatesLoaded"} \cup EndKinds
    PROVE  Ends'
<1>0. q \in Seq(Signals)
  BY DEF Less
<1>1. /\ queue' = DisposedQueue(q, depth) /\ window' = None /\ pc' = "join" /\ cont' = "exit"
      /\ UNCHANGED <<depth, quitting, kind, st, interrupted, cmd>>
  BY DEF Finish, DisposeUI, BeginJoin, envVars, threadVars
<1>2. Less(queue', q)
  <2>1. DialogTypes /\ depth \in 0 .. MaxDepth
    BY DEF Inv, TypeOK, MainTypes
  <2> QED
    BY <1>0, <1>1, <2>1, DisposedIsLess
<1>3. Less(queue', queue)
  BY <1>2, LessTwice
<1>4. /\ \A e \in Posted' : e.k \in NewsKinds => e \in Posted
      /\ OneIn(queue', Endings) /\ Before(queue', Loads, Endings)
  BY <1>3, NothingNew
<1>5. \A e \in Posted' : e.k \notin {"cardsAvailable", "cardEvent", "certificatesLoaded"} \cup EndKinds
  BY <1>2 DEF Less, Posted, NewsKinds
<1>6. ~Ending' /\ ~WatchSignal' /\ ~Finished' /\ Over'
  BY <1>1, <1>4, <1>5 DEF Ending, WatchSignal, Watch, Finished, NewsKinds, Over
<1>7. ~ThreadTurn' /\ (MaxCardMoves # 0 => ~WatchThread')
  BY <1>1 DEF ThreadTurn, Works, Running, WatchThread, Watching
<1>8. responses' # <<>> /\ Len(responses') = 1 /\ depth' = 0
  BY <1>1, FirstAnswer
<1> QED
  BY <1>1, <1>4, <1>5, <1>6, <1>7, <1>8
  DEF Ends, NobodyGoesOn, OneEnding, NoLateMonitor, FinishedIsDone, OneAnswer

(* Signals that say nothing of an end.                                     *)
Plain(s) == s \in Seq(Signals) /\ \A e \in Range(s) : e.k \notin EndKinds \cup {"quit"}

(* What a thread says last, when the command is over: one ending, nothing  *)
(* that goes on, and no call for a monitor that cards could end.           *)
Concludes(s) ==
    /\ s \in Seq(Signals)
    /\ OneIn(s, Endings) /\ Before(s, Loads, Endings)
    /\ \A e \in Range(s) :
          /\ e.k \notin {"cardEvent", "quit", "certificateReady", "cardsAvailable"}
          /\ MaxCardMoves # 0 => e.k # "certificatesLoaded"

(* Something is said while a command goes on.                              *)
LEMMA SaidOnTheWay ==
    ASSUME Inv, Ends, ~Ending, ~Over, NEW s, Plain(s), queue' = queue \o s,
           UNCHANGED <<window, cmd, pc, cont, depth, quitting, responses>>
    PROVE  Ends'
<1>0. s \in Seq(Signals) /\ queue \in Seq(Signals)
  BY DEF Plain, Inv, TypeOK, MainTypes
<1>1. Posted' = Posted \cup Range(s)
  BY <1>0, RangeOfConcat DEF Posted
<1>2. ~Finished /\ responses = <<>> /\ depth = 0 /\ cont # "exit"
  BY WhileItGoesOn
<1>3. ~Ending' /\ ~Over' /\ ~Finished'
  BY <1>1, <1>2 DEF Plain, Ending, Over, Finished
<1>4. queue' \in Seq(Signals) /\ \A e \in Range(queue') : e \notin Endings
  <2>1. queue' \in Seq(Signals)
    BY <1>0, RangeOfConcat
  <2> QED
    BY <1>3, <2>1 DEF Ending, Endings, Posted
<1>5. OneIn(queue', Endings) /\ Before(queue', Loads, Endings)
  <2>1. OneIn(queue', Endings)
    BY <1>4, NoneIn
  <2>2. Before(queue', Loads, Endings)
    BY <1>4, NoneIn
  <2> QED
    BY <2>1, <2>2
<1> QED
  BY <1>2, <1>3, <1>5 DEF Ends, NobodyGoesOn, OneEnding, NoLateMonitor, FinishedIsDone, OneAnswer

(* Whoever works, the command is not over.                                 *)
LEMMA WorkGoesOn ==
    ASSUME Inv, Turns, Ends, NEW t \in Threads, Works(t)
    PROVE  /\ ~Ending /\ ~Over /\ window # None /\ cont # "restart"
           /\ \A u \in Threads \ {t} : ~Works(u)
           /\ \A e \in Posted : ~Acts(e) /\ e.k # "cardEvent"
           /\ MaxCardMoves # 0 => ~WatchThread /\ ~WatchSignal
<1>1. ThreadTurn
  BY DEF ThreadTurn
<1>2. ~Ending /\ ~Over
  BY <1>1 DEF Ends, NobodyGoesOn
<1>3. cont # "restart" /\ ~SignalTurn /\ \A u \in Threads \ {t} : ~Works(u)
  BY <1>1 DEF Turns, OneTurn
<1>4. pc # "start"
  BY DEF Inv, StartIsFresh, Works, Running
<1>5. window # None
  BY <1>2, <1>3, <1>4 DEF Over
<1>6. MaxCardMoves # 0 => ~WatchThread /\ ~WatchSignal
  BY <1>1 DEF Turns, OneWatch
<1>7. \A e \in Posted : e.k # "cardEvent"
  BY <1>6 DEF Turns, SteadyCard, WatchSignal, Watch
<1> QED
  BY <1>2, <1>3, <1>5, <1>6, <1>7 DEF SignalTurn

(* A thread ends and says that the command is over.                        *)
LEMMA WorkEnds ==
    ASSUME Inv, Turns, Ends, NEW t \in Threads, Works(t), NEW s, Concludes(s), queue' = queue \o s,
           OthersGoOn(t), ~Works(t)',
           UNCHANGED <<window, cmd, pc, cont, depth, quitting, responses>>
    PROVE  Ends'
<1>0. s \in Seq(Signals) /\ queue \in Seq(Signals)
  BY DEF Concludes, Inv, TypeOK, MainTypes
<1>1. Posted' = Posted \cup Range(s)
  BY <1>0, RangeOfConcat DEF Posted
<1>2. /\ ~Ending /\ ~Over /\ window # None /\ cont # "restart"
      /\ \A u \in Threads \ {t} : ~Works(u)
      /\ \A e \in Posted : ~Acts(e) /\ e.k # "cardEvent"
      /\ MaxCardMoves # 0 => ~WatchThread /\ ~WatchSignal
  BY WorkGoesOn
<1>3. ~Finished /\ responses = <<>> /\ depth = 0 /\ cont # "exit"
  BY <1>2, WhileItGoesOn
<1>4. ~Over' /\ ~Finished'
  BY <1>1, <1>2, <1>3 DEF Concludes, Over, Finished
<1>5. \A u \in Threads \ {t} : kind'[u] = kind[u] /\ st'[u] = st[u] /\ (u \in interrupted => u \in interrupted')
  BY DEF OthersGoOn
<1>6. ~ThreadTurn'
  BY <1>2, <1>5 DEF ThreadTurn, Works, Running
<1>7. MaxCardMoves # 0 => ~WatchThread' /\ ~WatchSignal'
  <2>1. ~Watching(t)'
    BY DEF OthersGoOn, Works, Watching
  <2>2. MaxCardMoves # 0 => ~WatchThread'
    BY <1>2, <1>5, <2>1 DEF WatchThread, Watching, Running
  <2>3. MaxCardMoves # 0 => ~WatchSignal'
    BY <1>1, <1>2 DEF WatchSignal, Watch, Concludes
  <2> QED
    BY <2>2, <2>3
<1>8. \A e \in Posted' : e.k \notin {"cardsAvailable", "cardEvent"} /\ ~(e.k = "certificateReady" /\ e.o = window')
  BY <1>1, <1>2 DEF Concludes, Acts, Prompting, Trying
<1>9. \A e \in Range(queue) : e \notin Endings
  BY <1>2 DEF Ending, Endings, Posted
<1>10. OneIn(queue', Endings)
  <2>1. OneIn(queue, Endings) /\ OneIn(s, Endings)
    BY DEF Ends, OneEnding, Concludes
  <2> QED
    BY <1>0, <1>9, <2>1, OneInConcat
<1>11. Before(queue', Loads, Endings)
  <2>1. Before(queue, Loads, Endings) /\ Before(s, Loads, Endings)
    BY DEF Ends, NoLateMonitor, Concludes
  <2> QED
    BY <1>0, <1>9, <2>1, BeforeInConcat
<1>12. NobodyGoesOn'
  BY <1>2, <1>6, <1>7, <1>8 DEF NobodyGoesOn
<1>13. OneEnding'
  BY <1>3, <1>8, <1>10 DEF OneEnding
<1> QED
  BY <1>3, <1>4, <1>11, <1>12, <1>13 DEF Ends, NoLateMonitor, FinishedIsDone, OneAnswer

(* Either of them.                                                         *)
LEMMA WorkerEnds ==
    ASSUME Inv, Turns, Ends, NEW t \in Threads, Works(t), NEW s, Plain(s) \/ (Concludes(s) /\ ~Works(t)'),
           queue' = queue \o s, OthersGoOn(t),
           UNCHANGED <<window, cmd, pc, cont, depth, quitting, responses>>
    PROVE  Ends'
<1>1. CASE Plain(s)
  <2>1. ~Ending /\ ~Over
    BY WorkGoesOn
  <2> QED
    BY <1>1, <2>1, SaidOnTheWay
<1>2. CASE Concludes(s) /\ ~Works(t)'
  BY <1>2, WorkEnds
<1> QED
  BY <1>1, <1>2

-----------------------------------------------------------------------------
(* What the threads say.                                                   *)

(* Two plain sequences make a plain one, ...                               *)
LEMMA PlainTogether ==
    ASSUME NEW s, NEW u, Plain(s), Plain(u)
    PROVE  Plain(s \o u)
BY RangeOfConcat DEF Plain

(* ... nothing is plain, ...                                               *)
LEMMA NothingIsPlain == Plain(<<>>)
BY NothingSaid DEF Plain

(* ... and so are signals of one plain kind, ...                           *)
LEMMA KindIsPlain ==
    ASSUME NEW s \in Seq(Signals), NEW x, \A e \in Range(s) : e.k = x, x \notin EndKinds \cup {"quit"}
    PROVE  Plain(s)
BY DEF Plain

(* ... such as those of a thread to Controller that are no endings.        *)
LEMMA OwnIsPlain ==
    ASSUME NEW t, NEW k \in {"cardsAvailable", "statusUpdate", "cardEvent", "retry"}
    PROVE  Plain(Own(t, k))
<1>1. k \in OwnKinds
  BY DEF OwnKinds
<1>2. Own(t, k) \in Seq(Signals) /\ \A e \in Range(Own(t, k)) : e.k = k
  BY <1>1, OwnKindOnly
<1> QED
  BY <1>2, KindIsPlain DEF EndKinds

(* One ending.                                                             *)
LEMMA OwnConcludes ==
    ASSUME NEW t, NEW k \in EndKinds
    PROVE  Concludes(Own(t, k))
<1>1. k \in OwnKinds
  BY DEF OwnKinds, EndKinds
<1>2. Own(t, k) \in Seq(Signals) /\ \A e \in Range(Own(t, k)) : e.k = k
  BY <1>1, OwnKindOnly
<1>3. Len(Own(t, k)) <= 1
  BY SingleLength DEF Own
<1>4. OneIn(Own(t, k), Endings)
  BY <1>2, <1>3, SingleIn
<1>5. \A e \in Range(Own(t, k)) : e \notin Loads
  BY <1>2 DEF Loads, EndKinds
<1>6. Before(Own(t, k), Loads, Endings)
  BY <1>2, <1>5, NoneIn
<1> QED
  BY <1>2, <1>4, <1>6 DEF Concludes, EndKinds

(* Something harmless before it, ...                                       *)
LEMMA ConcludesAfter ==
    ASSUME NEW s, NEW u, Plain(s), Concludes(u), \A e \in Range(u) : e \notin Loads,
           \A e \in Range(s) : e.k \notin {"cardEvent", "certificateReady", "cardsAvailable"}
                               /\ (MaxCardMoves # 0 => e.k # "certificatesLoaded")
    PROVE  Concludes(s \o u)
<1>1. s \in Seq(Signals) /\ u \in Seq(Signals)
  BY DEF Plain, Concludes
<1>2. s \o u \in Seq(Signals) /\ Range(s \o u) = Range(s) \cup Range(u)
  BY <1>1, RangeOfConcat
<1>3. \A e \in Range(s) : e \notin Endings
  BY DEF Plain, Endings
<1>4. OneIn(s, Endings) /\ Before(s, Loads, Endings)
  <2>1. OneIn(s, Endings)
    BY <1>1, <1>3, NoneIn
  <2>2. Before(s, Loads, Endings)
    BY <1>1, <1>3, NoneIn
  <2> QED
    BY <2>1, <2>2
<1>5. OneIn(u, Endings) /\ Before(u, Loads, Endings)
  BY DEF Concludes
<1>6. OneIn(s \o u, Endings)
  BY <1>1, <1>3, <1>4, <1>5, OneInConcat
<1>7. Before(s \o u, Loads, Endings)
  BY <1>1, <1>3, <1>4, <1>5, BeforeInConcat
<1> QED
  BY <1>2, <1>6, <1>7 DEF Plain, Concludes

(* ... and after it.                                                       *)
LEMMA EndedConcludes ==
    ASSUME NEW s, NEW t \in Threads, Concludes(s)
    PROVE  Concludes(s \o Ended(t))
<1>1. s \in Seq(Signals) /\ Ended(t) \in Seq(Signals) /\ \A e \in Range(Ended(t)) : e.k = "finished"
  <2>1. Sig("finished", t) \in Signals
    BY ZeroLevel DEF Sig, Signals, SignalKinds, WindowSignals, ThreadSignals
  <2>2. Ended(t) \in Seq(Signals) /\ \A e \in Range(Ended(t)) : e = Sig("finished", t)
    BY <2>1, SingletonRange, NothingSaid DEF Ended
  <2>3. Sig("finished", t).k = "finished"
    BY DEF Sig
  <2>4. \A e \in Range(Ended(t)) : e.k = "finished"
    BY <2>2, <2>3
  <2> QED
    BY <2>2, <2>4 DEF Concludes
<1>2. s \o Ended(t) \in Seq(Signals) /\ Range(s \o Ended(t)) = Range(s) \cup Range(Ended(t))
  BY <1>1, RangeOfConcat
<1>3. (\A e \in Range(Ended(t)) : e \notin Endings) /\ (\A e \in Range(Ended(t)) : e \notin Loads)
  BY <1>1 DEF Endings, EndKinds, Loads
<1>4. OneIn(Ended(t), Endings) /\ Before(Ended(t), Loads, Endings)
  <2>1. OneIn(Ended(t), Endings)
    BY <1>1, <1>3, NoneIn
  <2>2. Before(Ended(t), Loads, Endings)
    BY <1>1, <1>3, NoneIn
  <2> QED
    BY <2>1, <2>2
<1>5. OneIn(s, Endings) /\ Before(s, Loads, Endings)
  BY DEF Concludes
<1>6. OneIn(s \o Ended(t), Endings)
  BY <1>1, <1>3, <1>4, <1>5, OneInConcat
<1>7. Before(s \o Ended(t), Loads, Endings)
  BY <1>1, <1>3, <1>4, <1>5, BeforeInConcat
<1> QED
  BY <1>1, <1>2, <1>6, <1>7 DEF Concludes

(* finished() is plain, ...                                                *)
LEMMA EndedIsPlain ==
    ASSUME NEW t \in Threads
    PROVE  Plain(Ended(t))
<1>1. Sig("finished", t) \in Signals
  BY ZeroLevel DEF Sig, Signals, SignalKinds, WindowSignals, ThreadSignals
<1>2. Ended(t) \in Seq(Signals) /\ \A e \in Range(Ended(t)) : e = Sig("finished", t)
  BY <1>1, SingletonRange, NothingSaid DEF Ended
<1>3. Sig("finished", t).k = "finished"
  BY DEF Sig
<1>4. \A e \in Range(Ended(t)) : e.k = "finished"
  BY <1>2, <1>3
<1> QED
  BY <1>2, <1>4 DEF Plain, EndKinds

(* ... and so is the call for a monitor, ...                               *)
LEMMA ToControllerIsPlain == Plain(HandlerToController("certificatesLoaded"))
<1>1. "certificatesLoaded" \notin EndKinds \cup {"quit"}
  BY DEF EndKinds
<1> QED
  BY <1>1, ToControllerKindOnly, KindIsPlain

(* ... what the dialog is told, ...                                        *)
LEMMA ToWindowsIsPlain ==
    ASSUME Inv, Turns, NEW k \in {"certificateReady", "mismatch", "verifyPinFailed"},
           NEW d \in {"", "single", "multiple", "unusable", "again", "fatal"},
           k = "verifyPinFailed" => cmd # "get-signing-certificate"
    PROVE  Plain(HandlerToWindows(k, d)) /\ \A e \in Range(HandlerToWindows(k, d)) : e.k = k
<1>1. HandlerToWindows(k, d) \in Seq(Signals)
  BY ToWindowsCarries
<1>2. \A e \in Range(HandlerToWindows(k, d)) : e.k = k
  BY WindowsCarry
<1>3. k \notin EndKinds \cup {"quit"}
  BY DEF EndKinds
<1> QED
  BY <1>1, <1>2, <1>3, KindIsPlain

(* ... and CommandHandler::retry.                                          *)
LEMMA RetryIsPlain ==
    ASSUME Inv
    PROVE  Plain(HandlerRetry) /\ \A e \in Range(HandlerRetry) : e.k = "retryHandler"
<1>1. DialogTypes
  BY DEF Inv, TypeOK
<1>2. /\ Emission(HandlerRetry)
      /\ Range(HandlerRetry) = {Sig("retryHandler", t) : t \in toThreads}
      /\ \A t : Sig("retryHandler", t).k = "retryHandler" /\ Sig("retryHandler", t).o = t
  BY <1>1, RetryEmission
<1>3. \A e \in Range(HandlerRetry) : e.k = "retryHandler"
  BY <1>2
<1>4. HandlerRetry \in Seq(Signals)
  BY <1>2 DEF Emission
<1> QED
  BY <1>3, <1>4, KindIsPlain DEF EndKinds

(* Whatever the certificates, a run thread says at most one ending.        *)
LEMMA RunConcludes ==
    ASSUME Inv, Turns, NEW t, NEW o \in RunOutcomes
    PROVE  Plain(RunSignals(t, o)) \/ Concludes(RunSignals(t, o))
<1>1. o \in {"single", "multiple", "unusable", "none", "mismatch", "retriable", "fatal"}
  BY Inputs
<1>2. CASE o \in {"single", "multiple", "unusable"}
  <2>1. ASSUME NEW d \in {"single", "multiple", "unusable"} PROVE Plain(HandlerToWindows("certificateReady", d))
    BY ToWindowsIsPlain
  <2>2. Plain(HandlerToWindows("certificateReady", o))
    BY <1>2, <2>1
  <2>3. RunSignals(t, o) = HandlerToController("certificatesLoaded") \o HandlerToWindows("certificateReady", o)
    BY <1>2 DEF RunSignals, CertificatesReady
  <2> QED
    BY <2>2, <2>3, ToControllerIsPlain, PlainTogether
<1>3. CASE o = "none"
  BY <1>3, RetryIsPlain DEF RunSignals
<1>4. CASE o = "mismatch"
  <2>1. Plain(HandlerToWindows("mismatch", ""))
    BY ToWindowsIsPlain
  <2> QED
    BY <1>4, <2>1 DEF RunSignals
<1>5. CASE o = "retriable"
  BY <1>5, OwnIsPlain DEF RunSignals
<1>6. CASE o = "fatal"
  BY <1>6, OwnConcludes DEF RunSignals, EndKinds
<1> QED
  BY <1>1, <1>2, <1>3, <1>4, <1>5, <1>6

(* A PIN that failed.                                                      *)
LEMMA PinFailedIsPlain ==
    ASSUME Inv, Turns, cmd # "get-signing-certificate", NEW d \in {"again", "fatal"}
    PROVE  /\ Plain(VerifyPinFailed(d))
           /\ \A e \in Range(VerifyPinFailed(d)) : e.k \in {"certificatesLoaded", "verifyPinFailed"}
<1>1. /\ Plain(HandlerToWindows("verifyPinFailed", d))
      /\ \A e \in Range(HandlerToWindows("verifyPinFailed", d)) : e.k = "verifyPinFailed"
  BY ToWindowsIsPlain
<1>2. Plain(HandlerToController("certificatesLoaded"))
  BY ToControllerIsPlain
<1>3. \A e \in Range(HandlerToController("certificatesLoaded")) : e.k = "certificatesLoaded"
  BY ToControllerKindOnly
<1>4. Range(VerifyPinFailed(d)) = Range(HandlerToController("certificatesLoaded")) \cup Range(HandlerToWindows("verifyPinFailed", d))
  BY <1>1, <1>2, RangeOfConcat DEF VerifyPinFailed, Plain
<1>5. Plain(VerifyPinFailed(d))
  BY <1>1, <1>2, PlainTogether DEF VerifyPinFailed
<1> QED
  BY <1>1, <1>3, <1>4, <1>5

(* The command ends with it, where no monitor could be started after it.   *)
LEMMA PinFailedConcludes ==
    ASSUME Inv, Turns, cmd # "get-signing-certificate", NEW d \in {"again", "fatal"}, NEW t, MaxCardMoves = 0
    PROVE  Concludes(VerifyPinFailed(d) \o Own(t, "failure"))
<1>1. /\ Plain(VerifyPinFailed(d))
      /\ \A e \in Range(VerifyPinFailed(d)) : e.k \in {"certificatesLoaded", "verifyPinFailed"}
  BY PinFailedIsPlain
<1>2. Concludes(Own(t, "failure")) /\ \A e \in Range(Own(t, "failure")) : e.k = "failure"
  BY OwnConcludes, OwnKindOnly DEF EndKinds, OwnKinds
<1>3. \A e \in Range(Own(t, "failure")) : e \notin Loads
  BY <1>2 DEF Loads
<1> QED
  BY <1>1, <1>2, <1>3, ConcludesAfter

(* Nor does a confirm thread say more, whatever the card answers.          *)
LEMMA ConfirmConcludes ==
    ASSUME Inv, Turns, Orderly, NEW t, NEW s, Outcome(t, s)
    PROVE  Plain(s) \/ Concludes(s)
<1>1. DialogTypes
  BY DEF Inv, TypeOK
<1>2. /\ Concludes(Own(t, "completed")) /\ Concludes(Own(t, "cancel")) /\ Concludes(Own(t, "failure"))
      /\ Plain(Own(t, "retry"))
  BY OwnConcludes, OwnIsPlain DEF EndKinds
<1>3. Plain(<<>>) /\ Plain(HandlerRetry)
  BY NothingIsPlain, RetryIsPlain
<1>4. CASE s = HandlerRetry \o Own(t, "failure")
  <2>1. \A e \in Range(HandlerRetry) : e.k = "retryHandler"
    BY RetryIsPlain
  <2>2. \A e \in Range(Own(t, "failure")) : e.k = "failure"
    BY OwnKindOnly DEF OwnKinds
  <2>3. \A e \in Range(Own(t, "failure")) : e \notin Loads
    BY <2>2 DEF Loads
  <2> QED
    BY <1>2, <1>3, <1>4, <2>1, <2>3, ConcludesAfter
<1>5. ASSUME cmd # "get-signing-certificate", NEW d \in {"again", "fatal"}, s = VerifyPinFailed(d)
      PROVE  Plain(s)
  BY <1>5, PinFailedIsPlain
<1>6. ASSUME cmd # "get-signing-certificate", NEW f \in PinFailures, Twofold(f), NEW d \in {"again", "fatal"},
             s = VerifyPinFailed(d) \o Own(t, "failure")
      PROVE  Concludes(s)
  <2>1. MaxCardMoves = 0
    BY <1>6 DEF Orderly
  <2> QED
    BY <1>6, <2>1, PinFailedConcludes
<1> QED
  BY <1>1, <1>2, <1>3, <1>4, <1>5, <1>6, OutcomeShape

(* A thread ends.                                                          *)
LEMMA LastWords ==
    ASSUME Inv, Turns, Ends, NEW t \in Threads, Works(t), NEW s, Plain(s) \/ Concludes(s), End(t, s),
           UNCHANGED <<window, cmd, pc, cont, depth, quitting, responses>>
    PROVE  Ends'
<1>1. queue' = queue \o s /\ FreeThread(t)
  BY DEF End, Post
<1>2. OthersGoOn(t) /\ ~Works(t)'
  BY <1>1, EndOthers
<1> QED
  BY <1>1, <1>2, WorkerEnds

(* A thread goes on.                                                       *)
LEMMA MiddleWords ==
    ASSUME Inv, Turns, Ends, NEW t \in Threads, Works(t), NEW s, Plain(s), queue' = queue \o s,
           NEW x \in {"card", "waiting", "done"}, x = "done" => kind[t] = "run",
           st' = [st EXCEPT ![t] = x], SameThread, UNCHANGED handlerVars,
           UNCHANGED <<window, cmd, pc, cont, depth, quitting, responses>>
    PROVE  Ends'
<1>1. OthersGoOn(t)
  BY MoveOthers
<1> QED
  BY <1>1, WorkerEnds

(* WaitForCardThread.                                                      *)
LEMMA WaitForCardEnds ==
    ASSUME Inv, Turns, Ends, NEW t \in Threads, WaitForCard(t)
    PROVE  Ends'
<1>1. kind[t] = "waitForCard" /\ UNCHANGED <<window, cmd, pc, cont, depth, quitting, responses>>
  BY DEF WaitForCard, mainVars, windowVars
<1>2. Works(t)
  <2>1. st[t] # "free"
    BY <1>1, AliveHasKind
  <2>2. st[t] # "done"
    BY <1>1 DEF Turns, Wiring
  <2> QED
    BY <1>1, <2>1, <2>2 DEF Works, Running
<1>3. Plain(NoCardStatus(t)) /\ Plain(Own(t, "cardsAvailable")) /\ Concludes(Own(t, "failure"))
  BY NothingIsPlain, OwnIsPlain, OwnConcludes DEF NoCardStatus, EndKinds
<1>4. CASE \E s : (Plain(s) \/ Concludes(s)) /\ End(t, s)
  BY <1>1, <1>2, <1>4, LastWords
<1>5. CASE /\ Post(NoCardStatus(t)) /\ st' = [st EXCEPT ![t] = "waiting"]
           /\ UNCHANGED handlerVars /\ SameThread
  <2>1. queue' = queue \o NoCardStatus(t)
    BY <1>5 DEF Post
  <2> QED
    BY <1>1, <1>2, <1>3, <1>5, <2>1, MiddleWords
<1> QED
  BY <1>3, <1>4, <1>5 DEF WaitForCard

(* CommandHandlerRunThread.                                                *)
LEMMA RunCommandEnds ==
    ASSUME Inv, Turns, Ends, NEW t \in Threads, RunCommand(t)
    PROVE  Ends'
<1>1. /\ kind[t] = "run" /\ SameThread /\ UNCHANGED handlerVars /\ st[t] = "ready"
      /\ st' = [st EXCEPT ![t] = "done"]
      /\ UNCHANGED <<window, cmd, pc, cont, depth, quitting, responses>>
  BY DEF RunCommand, Goto, ChildOnly, mainVars, windowVars, envVars
<1>2. Works(t)
  BY <1>1 DEF Works, Running
<1>3. OthersGoOn(t) /\ st'[t] = "done"
  BY <1>1, MoveOthers
<1>4. ~Works(t)'
  BY <1>3 DEF Works, Running
<1>5. PICK o \in RunOutcomes : Post(RunSignals(t, o) \o Ended(t))
  BY DEF RunCommand
<1> DEFINE s == RunSignals(t, o) \o Ended(t)
<1>6. Plain(s) \/ Concludes(s)
  BY RunConcludes, EndedIsPlain, PlainTogether, EndedConcludes
<1>7. queue' = queue \o s
  BY <1>5 DEF Post
<1> HIDE DEF s
<1> QED
  BY <1>1, <1>2, <1>3, <1>4, <1>6, <1>7, WorkerEnds

(* getPin().                                                               *)
LEMMA GetPinEnds ==
    ASSUME Inv, Turns, Ends, NEW t \in Threads, GetPin(t)
    PROVE  Ends'
<1>1. /\ kind[t] = "confirm" /\ st[t] = "ready"
      /\ UNCHANGED <<window, cmd, pc, cont, depth, quitting, responses>>
  BY DEF GetPin, envVars, mainVars
<1>2. Works(t)
  BY <1>1 DEF Works, Running
<1>3. ASSUME Goto(t, "ready", "card"), UNCHANGED <<queue, handlerVars>>, SameThread PROVE Ends'
  <2>1. st' = [st EXCEPT ![t] = "card"] /\ UNCHANGED handlerVars
    BY <1>3 DEF Goto
  <2>2. queue' = queue \o <<>>
    <3>1. queue \in Seq(Signals)
      BY DEF Inv, TypeOK, MainTypes
    <3> QED
      BY <1>3, <3>1
  <2> QED
    BY <1>1, <1>2, <1>3, <2>1, <2>2, NothingIsPlain, MiddleWords
<1>4. ASSUME End(t, Own(t, "failure")) PROVE Ends'
  <2>1. Concludes(Own(t, "failure"))
    BY OwnConcludes DEF EndKinds
  <2> QED
    BY <1>1, <1>2, <1>4, <2>1, LastWords
<1> QED
  BY <1>3, <1>4 DEF GetPin

(* CommandHandlerConfirmThread.                                            *)
LEMMA ConfirmEnds ==
    ASSUME Inv, Turns, Ends, Orderly, NEW t \in Threads, Confirm(t)
    PROVE  Ends'
<1>1. /\ kind[t] = "confirm" /\ st[t] = "card"
      /\ UNCHANGED <<window, cmd, pc, cont, depth, quitting, responses>>
  BY DEF Confirm, ChildOnly, envVars, mainVars, windowVars
<1>2. Works(t)
  BY <1>1 DEF Works, Running
<1>3. PICK s : Outcome(t, s) /\ End(t, s)
  BY ConfirmOutcome
<1>4. Plain(s) \/ Concludes(s)
  BY <1>3, ConfirmConcludes
<1> QED
  BY <1>1, <1>2, <1>3, <1>4, LastWords

(* CardEventMonitorThread.                                                 *)
LEMMA MonitorCardsEnds ==
    ASSUME Inv, Inv', Turns, Ends, NEW t \in Threads, MonitorCards(t)
    PROVE  Ends'
<1>1. kind[t] = "monitor" /\ UNCHANGED <<window, cmd, pc, cont, depth, quitting, responses>>
  BY DEF MonitorCards, mainVars, windowVars
<1>2. queue \in Seq(Signals) /\ ThreadTypes /\ moves \in 0 .. MaxCardMoves /\ Less(queue, queue)
  <2>1. queue \in Seq(Signals) /\ ThreadTypes /\ moves \in 0 .. MaxCardMoves
    BY DEF Inv, TypeOK, MainTypes, EnvTypes
  <2> QED
    BY <2>1, LessSelf
<1>3. CASE /\ card /\ t \notin interrupted /\ Goto(t, "ready", "waiting")
           /\ UNCHANGED <<moves, queue, handlerVars>> /\ SameThread
  <2>1. /\ st[t] = "ready" /\ st'[t] = "waiting" /\ \A u \in Threads \ {t} : st'[u] = st[u]
        /\ UNCHANGED <<kind, interrupted, dialog, toWindow, toController, toThreads>>
    BY <1>2, <1>3 DEF ThreadTypes, Goto, SameThread, handlerVars
  <2>2. QuietThreads
    BY <1>1, <1>2, <1>3, <2>1 DEF QuietThreads, Running, ThreadTypes, Turns, Wiring
  <2> QED
    BY <1>1, <1>2, <1>3, <2>2, StillEnds
<1>4. ASSUME FreeThread(t), queue' = queue PROVE Ends'
  <2>1. QuietThreads
    BY <1>4, FreeThreadQuiet
  <2> QED
    BY <1>1, <1>2, <1>4, <2>1, StillEnds
<1>5. CASE t \in interrupted /\ End(t, <<>>) /\ UNCHANGED moves
  <2>1. queue' = queue /\ FreeThread(t)
    BY <1>2, <1>5 DEF End, Post
  <2> QED
    BY <1>4, <2>1
<1>6. CASE st[t] = "waiting" /\ t \notin interrupted /\ NoCardFound /\ End(t, Own(t, "cardEvent"))
  <2>1. queue' = queue \o Own(t, "cardEvent") /\ FreeThread(t) /\ Watching(t)
    BY <1>1, <1>6 DEF End, Post, Watching, Running
  <2>2. CASE Ending \/ Over
    <3>1. MaxCardMoves = 0
      BY <2>1, <2>2 DEF Ends, NobodyGoesOn, WatchThread
    <3>2. card
      BY <1>1, <1>6, <3>1 DEF Turns, SteadyCard
    <3>3. moves < MaxCardMoves
      BY <1>6, <3>2 DEF NoCardFound
    <3> QED
      BY <1>2, <3>1, <3>3
  <2>3. CASE ~Ending /\ ~Over
    <3>1. Plain(Own(t, "cardEvent"))
      BY OwnIsPlain
    <3> QED
      BY <1>1, <2>1, <2>3, <3>1, SaidOnTheWay
  <2> QED
    BY <2>2, <2>3
<1> QED
  BY <1>3, <1>5, <1>6 DEF MonitorCards

(* Every step of a thread keeps what is said of the end.                   *)
LEMMA ThreadStepEnds ==
    ASSUME Inv, Inv', Turns, Ends, Orderly, NEW t \in Threads, ThreadStep(t)
    PROVE  Ends'
BY WaitForCardEnds, MonitorCardsEnds, RunCommandEnds, GetPinEnds, ConfirmEnds DEF ThreadStep

-----------------------------------------------------------------------------
(* The steps of the main thread and the user.                              *)

(* A slot that leaves the threads alone.                                   *)
LEMMA SlotEnds ==
    ASSUME Inv, Turns, Ends, Less(queue', queue), UNCHANGED <<kind, st, dialog, interrupted>>,
           UNCHANGED <<window, cmd, pc, cont, depth, quitting, responses>>
    PROVE  Ends'
<1>1. QuietThreads
  BY SameThreadsQuiet
<1> QED
  BY <1>1, StillEnds

(* There is a command as long as there is a dialog, or anything else than  *)
(* quit to be delivered.                                                   *)
LEMMA CommandIsThere ==
    ASSUME NoCommand, window # None \/ \E e \in Posted : e.k # "quit"
    PROVE  cmd \notin {"quit", "about", "invalid"}
  BY DEF NoCommand

(* The signal that is delivered: if it ends the command it was the only    *)
(* one to do so, and what was posted before it has been delivered.         *)
Received(e, q) ==
    /\ e \in Posted /\ Less(q, queue) /\ Posted = Range(q) \cup {e}
    /\ e.k \in EndKinds => \A x \in Range(q) : x.k \notin EndKinds \cup {"certificatesLoaded"}

(* The event loop takes such a signal.                                     *)
LEMMA ReceivedSignal ==
    ASSUME Inv, Ends, ~Idle
    PROVE  Received(queue[NextSignal], RemoveAt(queue, NextSignal))
<1> DEFINE n == NextSignal
<1>1. queue \in Seq(Signals)
  BY DEF Inv, TypeOK, MainTypes
<1>2. /\ n \in 1 .. Len(queue) /\ queue[n] \in Posted
      /\ \A i \in 1 .. Len(queue) : Deliverable(queue[i]) => n <= i
  BY <1>1, Delivery
<1> HIDE DEF n
<1>3. /\ Posted = Range(RemoveAt(queue, n)) \cup {queue[n]}
      /\ \A e \in Range(RemoveAt(queue, n)) : \E i \in 1 .. Len(queue) : i # n /\ queue[i] = e
      /\ Less(RemoveAt(queue, n), queue)
  BY <1>1, <1>2, RemovedAt, RemovedIsLess DEF Posted
<1>4. \A i \in 1 .. Len(queue) : queue[i] \in Signals
  BY <1>1
<1>5. ASSUME queue[n].k \in EndKinds, NEW x \in Range(RemoveAt(queue, n)), x.k \in EndKinds PROVE FALSE
  <2>1. PICK i \in 1 .. Len(queue) : i # n /\ queue[i] = x
    BY <1>3
  <2> QED
    BY <1>2, <1>4, <1>5, <2>1 DEF Ends, OneEnding, OneIn, Endings
<1>6. ASSUME queue[n].k \in EndKinds, NEW x \in Range(RemoveAt(queue, n)), x.k = "certificatesLoaded"
      PROVE  FALSE
  <2>1. PICK i \in 1 .. Len(queue) : i # n /\ queue[i] = x
    BY <1>3
  <2>2. i < n
    BY <1>2, <1>4, <1>6, <2>1 DEF Ends, NoLateMonitor, Before, Endings, Loads
  <2>3. n <= i
    BY <1>2, <1>6, <2>1 DEF Deliverable
  <2>4. n \in Nat /\ i \in Nat
    BY <1>2
  <2> QED
    BY <2>2, <2>3, <2>4
<1> QED
  BY <1>2, <1>3, <1>5, <1>6 DEF Received, n

(* onConfirmCommandHandler.                                                *)
LEMMA ConfirmHandlerGoesOn ==
    ASSUME Inv, Ends, ~Ending, window # None, pc = "loop", NEW q, Less(q, queue),
           OnConfirmCommandHandler(q), UNCHANGED window
    PROVE  Ends'
<1>1. ~Over
  BY DEF Over
<1>2. cont # "exit"
  BY <1>1, WhileItGoesOn
<1>3. queue' = q /\ UNCHANGED <<pc, cont, depth, quitting, responses, cmd>>
  BY DEF OnConfirmCommandHandler, mainVars, envVars
<1> QED
  BY <1>1, <1>2, <1>3, GoesOn

(* onSingleCertificateReady, where it is expected.                         *)
LEMMA SingleCertificateEnds ==
    ASSUME Inv, Ends, ~Ending, window # None, pc = "loop", right[window], NEW q, Less(q, queue), NEW d,
           OnSingleCertificateReady(window, d, q)
    PROVE  Ends'
<1>1. ~Over
  BY DEF Over
<1>2. cont # "exit"
  BY <1>1, WhileItGoesOn
<1>3. CASE \E p : PageOnly(window, p, q)
  <2>1. queue' = q /\ UNCHANGED <<window, pc, cont, depth, quitting, responses, cmd>>
    BY <1>3 DEF PageOnly, mainVars, envVars
  <2> QED
    BY <1>1, <1>2, <2>1, GoesOn
<1>4. CASE OnConfirmCommandHandler(q) /\ UNCHANGED window
  BY <1>4, ConfirmHandlerGoesOn
<1> QED
  BY <1>3, <1>4 DEF OnSingleCertificateReady, PromptForPin

(* The slots of the dialog.                                                *)
LEMMA DeliverToWindowEnds ==
    ASSUME Inv, Turns, Ends, NEW e, NEW q, Received(e, q), Addressed(e), pc = "loop",
           e.k \in WindowSignals \ {"deleteWindow"}, DeliverToWindow(e, q)
    PROVE  Ends'
<1>1. Less(q, queue) /\ e \in Posted
  BY DEF Received
<1>2. CASE Ignored(q) \/ \E p : PageOnly(window, p, q)
  <2>1. queue' = q /\ UNCHANGED <<kind, st, dialog, interrupted>>
        /\ UNCHANGED <<window, cmd, pc, cont, depth, quitting, responses>>
    BY <1>2 DEF Ignored, PageOnly, windowVars, threadVars, mainVars, envVars
  <2> QED
    BY <1>1, <2>1, SlotEnds
<1>3. ASSUME e.o = window, e.k = "certificateReady" PROVE Ends'
  <2>1. window # None
    BY <1>3, NoneIsNoObject DEF Addressed, WindowSignals, Inv, TypeOK
  <2>2. ~Ending
    BY <1>1, <1>3 DEF Ends, OneEnding
  <2>3. right[window]
    BY <1>1, <1>3, <2>1 DEF Turns, StatusIsOver
  <2>4. ~Over
    BY <2>1 DEF Over
  <2>5. cont # "exit"
    BY <2>4, WhileItGoesOn
  <2>6. CASE OnMultipleCertificatesReady(window, q)
    <3>1. queue' = q /\ UNCHANGED <<window, pc, cont, depth, quitting, responses, cmd>>
      BY <2>3, <2>6 DEF OnMultipleCertificatesReady, mainVars, envVars
    <3> QED
      BY <1>1, <2>1, <2>2, <2>4, <2>5, <3>1, GoesOn
  <2>7. CASE OnSingleCertificateReady(window, e.d, q)
    BY <1>1, <2>1, <2>2, <2>3, <2>7, SingleCertificateEnds
  <2> QED
    BY <1>2, <1>3, <2>6, <2>7 DEF DeliverToWindow
<1> QED
  BY <1>2, <1>3 DEF DeliverToWindow, OnVerifyPinFailed

(* Controller::retry.                                                      *)
LEMMA RetrySignalEnds ==
    ASSUME Inv, Turns, Ends, NEW q, Less(q, queue), OnRetrySignal(q)
    PROVE  Ends'
<1>1. queue' = q /\ UNCHANGED <<kind, st, dialog, interrupted>>
      /\ UNCHANGED <<window, cmd, pc, cont, depth, quitting, responses>>
  BY DEF OnRetrySignal, Ignored, PageOnly, windowVars, threadVars, mainVars, envVars
<1> QED
  BY <1>1, SlotEnds

(* Controller::onRetry, before the command is over.                        *)
LEMMA RetryGoesOn ==
    ASSUME Inv, Ends, ~Ending, ~Over, NEW q, Less(q, queue), OnRetry(q)
    PROVE  Ends'
<1>1. /\ cont' = "restart" /\ pc' = "join" /\ UNCHANGED <<cmd, depth, quitting, responses>>
      /\ queue' = DisposedQueue(q, depth)
  BY DEF OnRetry, BeginJoin, DisposeUI, envVars
<1>2. q \in Seq(Signals) /\ DialogTypes /\ depth \in 0 .. MaxDepth
  BY DEF Less, Inv, TypeOK, MainTypes
<1>3. Less(DisposedQueue(q, depth), q)
  BY <1>2, DisposedIsLess
<1>4. Less(queue', queue)
  BY <1>1, <1>3, LessTwice
<1> QED
  BY <1>1, <1>4, GoesOn

(* onCertificatesLoaded: a monitor is started, before the command is over  *)
(* or where the cards do not move.                                         *)
LEMMA CertificatesLoadedEnds ==
    ASSUME Inv, Turns, Ends, NEW e, NEW q, Received(e, q), pc = "loop", e.k = "certificatesLoaded",
           OnCertificatesLoaded(q)
    PROVE  Ends'
<1>1. Less(q, queue) /\ e \in Posted
  BY DEF Received
<1>2. ~Over
  BY <1>1 DEF Ends, NoLateMonitor
<1>3. window # None
  BY <1>2 DEF Over, Inv, RestartIsDue
<1>4. cont # "exit" /\ ~Finished /\ responses = <<>> /\ depth = 0
  BY <1>2, WhileItGoesOn
<1>5. /\ queue' = q /\ UNCHANGED <<pc, cont, depth, quitting, responses, cmd, window, interrupted>>
      /\ StartThread("monitor", None)
  BY DEF OnCertificatesLoaded, mainVars, envVars, windowVars
<1>6. CASE ~Ending
  BY <1>1, <1>2, <1>3, <1>4, <1>5, <1>6, GoesOn
<1>7. CASE Ending
  <2>1. MaxCardMoves = 0
    BY <1>1, <1>7 DEF Ends, NobodyGoesOn, WatchSignal, Watch
  <2>2. ~ThreadTurn /\ cont # "restart"
    BY <1>7 DEF Ends, NobodyGoesOn
  <2>3. PICK t \in Threads : Started(t, "monitor", None)
    BY <1>5, NewThread DEF Pollers
  <2>4. ~ThreadTurn'
    BY <2>2, <2>3 DEF ThreadTurn, Works, Started
  <2>5. /\ \A x \in Posted' : x.k \in NewsKinds => x \in Posted
        /\ OneIn(queue', Endings) /\ Before(queue', Loads, Endings)
    BY <1>1, <1>5, NothingNew
  <2>6. ~Over' /\ ~Finished'
    BY <1>2, <1>4, <1>5, <2>5 DEF Over, Finished, NewsKinds
  <2>7. NobodyGoesOn'
    BY <1>5, <1>7, <2>1, <2>2, <2>4, <2>5 DEF Ends, NobodyGoesOn, NewsKinds
  <2>8. OneEnding'
    BY <1>4, <1>5, <1>7, <2>5 DEF Ends, OneEnding, NewsKinds
  <2> QED
    BY <1>4, <1>5, <2>5, <2>6, <2>7, <2>8 DEF Ends, NoLateMonitor, FinishedIsDone, OneAnswer
<1> QED
  BY <1>6, <1>7

(* What is so when a signal arrives that ends the command.                 *)
LEMMA EndingArrives ==
    ASSUME Inv, NoCommand, Ends, NEW e, NEW q, Received(e, q), e.k \in EndKinds
    PROVE  /\ ~ThreadTurn /\ ~Finished /\ cont # "restart" /\ responses = <<>> /\ depth = 0
           /\ cmd # "about" /\ (MaxCardMoves # 0 => ~WatchThread)
           /\ \A x \in Range(q) : x.k \notin {"cardsAvailable", "cardEvent", "certificatesLoaded"} \cup EndKinds
<1>1. e \in Posted /\ Range(q) \subseteq Posted
  BY DEF Received
<1>2. Ending
  BY <1>1 DEF Ending
<1>3. e.k # "quit"
  BY DEF EndKinds
<1>4. cmd # "about"
  BY <1>1, <1>3, CommandIsThere
<1>5. responses = <<>> /\ depth = 0
  BY <1>2 DEF Ends, OneEnding
<1>6. ~Finished
  BY <1>4, <1>5 DEF Ends, FinishedIsDone
<1>7. /\ ~ThreadTurn /\ cont # "restart" /\ (MaxCardMoves # 0 => ~WatchThread)
      /\ \A x \in Posted : x.k \notin {"cardsAvailable", "cardEvent"}
  BY <1>2 DEF Ends, NobodyGoesOn
<1>8. \A x \in Range(q) : x.k \notin EndKinds \cup {"certificatesLoaded"}
  BY DEF Received
<1> QED
  BY <1>1, <1>4, <1>5, <1>6, <1>7, <1>8

(* The slots of Controller.                                                *)
LEMMA DeliverToControllerEnds ==
    ASSUME Inv, Turns, NoCommand, Ends, NEW e, NEW q, Received(e, q), pc = "loop", DeliverToController(e, q)
    PROVE  Ends'
<1>1. Less(q, queue) /\ e \in Posted
  BY DEF Received
<1>2. CASE e.k = "cardsAvailable" /\ OnCardsAvailable(q)
  <2>1. ~Ending /\ ~Over
    BY <1>1, <1>2 DEF Ends, NobodyGoesOn
  <2>2. window # None
    BY <2>1 DEF Over, Inv, RestartIsDue
  <2>3. cont # "exit"
    BY <2>1, WhileItGoesOn
  <2>4. queue' = q /\ UNCHANGED <<window, pc, cont, depth, quitting, responses, cmd>>
    BY <1>2, <2>2 DEF OnCardsAvailable, mainVars, envVars
  <2> QED
    BY <1>1, <2>1, <2>2, <2>3, <2>4, GoesOn
<1>3. CASE e.k = "statusUpdate" /\ OnSmartCardStatusUpdate(q)
  <2>1. queue' = q /\ UNCHANGED <<kind, st, dialog, interrupted>>
        /\ UNCHANGED <<window, cmd, pc, cont, depth, quitting, responses>>
    BY <1>3 DEF OnSmartCardStatusUpdate, Ignored, windowVars, threadVars, mainVars, envVars
  <2> QED
    BY <1>1, <2>1, SlotEnds
<1>4. CASE e.k = "certificatesLoaded" /\ OnCertificatesLoaded(q)
  BY <1>4, CertificatesLoadedEnds
<1>5. CASE e.k = "cardEvent" /\ OnRetry(q)
  <2>1. ~Ending /\ ~Over
    BY <1>1, <1>5 DEF Ends, NobodyGoesOn
  <2> QED
    BY <1>1, <1>5, <2>1, RetryGoesOn
<1>6. CASE e.k = "retry" /\ OnRetrySignal(q)
  BY <1>1, <1>6, RetrySignalEnds
<1>7. CASE e.k \in EndKinds /\ (OnCommandHandlerConfirmCompleted(q) \/ OnDialogCancel(q))
  <2>1. Finish(q) /\ \E r : Write(r)
    BY <1>7 DEF OnCommandHandlerConfirmCompleted, OnDialogCancel
  <2> QED
    BY <1>1, <1>7, <2>1, EndingArrives, FinishEnds
<1>8. CASE e.k \in EndKinds /\ OnCriticalFailure(q)
  BY <1>1, <1>8, EndingArrives, FailureEnds
<1>9. CASE /\ e.k = "quit" /\ quitting' = TRUE /\ pc' = "unwind" /\ queue' = q
           /\ UNCHANGED <<cont, depth, joinVars, responses, windowVars, threadVars, handlerVars, envVars>>
  <2>1. Finished
    BY <1>1, <1>9 DEF Finished
  <2>2. /\ queue' = q /\ UNCHANGED <<kind, st, dialog, interrupted>>
        /\ UNCHANGED <<window, cmd, cont, depth, responses>>
    BY <1>9 DEF windowVars, threadVars, envVars
  <2>3. QuietThreads
    BY <2>2, SameThreadsQuiet
  <2>4. Over' <=> Over
    BY <1>9, <2>2 DEF Over
  <2> QED
    BY <1>1, <2>1, <2>2, <2>3, <2>4, MainEnds
<1> QED
  BY <1>2, <1>3, <1>4, <1>5, <1>6, <1>7, <1>8, <1>9 DEF DeliverToController, EndKinds

(* The slots of a thread object.                                           *)
LEMMA DeliverToThreadEnds ==
    ASSUME Inv, Turns, Ends, NEW e, NEW q, Received(e, q), Addressed(e),
           e.k \in ThreadSignals \ {"deleteThread"}, DeliverToThread(e, q)
    PROVE  Ends'
<1>1. Less(q, queue) /\ q \in Seq(Signals)
  BY DEF Received, Less
<1>2. ASSUME NEW p, Less(p, queue), Ignored(p) PROVE Ends'
  <2>1. queue' = p /\ UNCHANGED <<kind, st, dialog, interrupted>>
        /\ UNCHANGED <<window, cmd, pc, cont, depth, quitting, responses>>
    BY <1>2 DEF Ignored, windowVars, threadVars, mainVars, envVars
  <2> QED
    BY <1>2, <2>1, SlotEnds
<1>3. CASE Ignored(Append(q, DeleteLater("deleteThread", e.o, depth)))
  <2> DEFINE x == DeleteLater("deleteThread", e.o, depth)
  <2>1. x \in Signals /\ x.k \notin NewsKinds
    <3>1. depth \in 0 .. MaxDepth
      BY DEF Inv, TypeOK, MainTypes
    <3>2. e.o \in Threads
      BY DEF Addressed
    <3> QED
      BY <3>1, <3>2 DEF DeleteLater, Signals, SignalKinds, ThreadSignals, NewsKinds, EndKinds
  <2>2. Ignored(Append(q, x))
    BY <1>3
  <2> HIDE DEF x
  <2>3. Less(Append(q, x), q)
    BY <1>1, <2>1, AppendIsLess
  <2>4. Less(Append(q, x), queue)
    BY <1>1, <2>3, LessTwice
  <2> QED
    BY <1>2, <2>2, <2>4
<1>4. CASE OnRetrySignal(q)
  BY <1>1, <1>4, RetrySignalEnds
<1>5. CASE Ignored(q)
  BY <1>1, <1>2, <1>5
<1> QED
  BY <1>3, <1>4, <1>5 DEF DeliverToThread

(* A signal that is delivered keeps what is said of the end.               *)
LEMMA DeliverEnds ==
    ASSUME Inv, Inv', Turns, NoCommand, Ends, Deliver
    PROVE  Ends'
<1> DEFINE e == queue[NextSignal]
           q == RemoveAt(queue, NextSignal)
<1>1. Received(e, q) /\ Taken(e, q) /\ pc = "loop" /\ pc # "start"
  BY ReceivedSignal, TakenSignal DEF Deliver
<1>2. Addressed(e) /\ Calmer(q, queue) /\ Less(q, queue) /\ q \in Seq(Signals)
  BY <1>1 DEF Received, Taken, Less, Inv, SignalsAreAddressed
<1>3. \/ e.k = "deleteWindow" /\ DeleteWindow(e.o, q)
      \/ e.k = "deleteThread" /\ DeleteThread(e.o, q)
      \/ e.k \in WindowSignals \ {"deleteWindow"} /\ DeliverToWindow(e, q)
      \/ e.k \in ThreadSignals \ {"deleteThread"} /\ DeliverToThread(e, q)
      \/ e.o = None /\ DeliverToController(e, q)
  BY DEF Deliver
<1> HIDE DEF e, q
<1>4. CASE e.k = "deleteWindow" /\ DeleteWindow(e.o, q)
  <2>1. e.o \in live /\ e.o # window /\ ~Watch(e)
    BY <1>2, <1>4 DEF Addressed, WindowSignals, Watch
  <2>2. WatchLeft(q)
    BY <1>1, <2>1, TakenLeaves
  <2>3. PICK w \in live : w = e.o
    BY <2>1
  <2>4. w # window /\ DeleteWindow(w, q)
    BY <1>4, <2>1, <2>3
  <2>5. QuietThreads
    BY <1>1, <1>2, <2>2, <2>4, DeleteWindowQuiet DEF Quiet
  <2>6. queue' = Without(q, WindowSignals, w) /\ UNCHANGED <<window, cmd, pc, cont, depth, quitting, responses>>
    BY <2>4 DEF DeleteWindow, mainVars, envVars
  <2>7. Less(Without(q, WindowSignals, w), q)
    BY <1>2, WithoutIsLess
  <2> QED
    BY <1>2, <2>5, <2>6, <2>7, LessTwice, StillEnds
<1>5. CASE e.k = "deleteThread" /\ DeleteThread(e.o, q)
  <2>1. e.o \in Threads /\ kind[e.o] = "run" /\ ~Watch(e)
    BY <1>2, <1>5 DEF Addressed, ThreadSignals, Watch
  <2>2. WatchLeft(q)
    BY <1>1, <2>1, TakenLeaves
  <2>3. PICK t \in Threads : t = e.o
    BY <2>1
  <2>4. kind[t] = "run" /\ DeleteThread(t, q)
    BY <1>5, <2>1, <2>3
  <2>5. QuietThreads
    BY <1>1, <1>2, <2>2, <2>4, DeleteThreadQuiet DEF Quiet
  <2>6. queue' = Without(q, ThreadSignals, t) /\ UNCHANGED <<window, cmd, pc, cont, depth, quitting, responses>>
    BY <2>4 DEF DeleteThread, mainVars, envVars, windowVars
  <2>7. Less(Without(q, ThreadSignals, t), q)
    BY <1>2, WithoutIsLess
  <2> QED
    BY <1>2, <2>5, <2>6, <2>7, LessTwice, StillEnds
<1>6. CASE e.k \in WindowSignals \ {"deleteWindow"} /\ DeliverToWindow(e, q)
  BY <1>1, <1>2, <1>6, DeliverToWindowEnds
<1>7. CASE e.k \in ThreadSignals \ {"deleteThread"} /\ DeliverToThread(e, q)
  BY <1>1, <1>2, <1>7, DeliverToThreadEnds
<1>8. CASE e.o = None /\ DeliverToController(e, q)
  BY <1>1, <1>8, DeliverToControllerEnds
<1> QED
  BY <1>3, <1>4, <1>5, <1>6, <1>7, <1>8

(* startCommandExecution: the command goes on.                             *)
LEMMA StartGoesOn ==
    ASSUME Inv, Ends, ~Ending, ~Over, StartCommandExecution, pc' = "loop", cont' \in {"", cont},
           UNCHANGED <<cmd, depth, quitting, responses, queue>>
    PROVE  Ends'
<1>1. window' # None
  BY FreshWindow DEF StartCommandExecution
<1>2. cont' # "exit"
  BY WhileItGoesOn
<1>3. Less(queue', queue)
  BY LessSelf DEF Inv, TypeOK, MainTypes
<1> QED
  BY <1>1, <1>2, <1>3, GoesOn

(* Controller::run.                                                        *)
LEMMA RunEnds ==
    ASSUME Inv, Ends, Run
    PROVE  Ends'
<1>1. pc = "start" /\ queue = <<>> /\ window = None /\ depth = 0 /\ \A t \in Threads : st[t] = "free"
  BY DEF Run, Inv, StartIsFresh
<1>2. cont # "restart"
  BY <1>1 DEF Inv, RestartIsDue
<1>3. ~Over /\ Posted = {}
  BY <1>1, EmptyRange DEF Over, Posted
<1>4. ~Finished /\ responses = <<>> /\ cont # "exit"
  BY <1>3, WhileItGoesOn
<1>5. ~Ending
  BY <1>3 DEF Ending
<1>6. ~ThreadTurn /\ ~WatchThread /\ \A t \in Threads : ~Running(t)
  BY <1>1 DEF ThreadTurn, Works, WatchThread, Watching, Running
<1>7. Less(queue, queue)
  BY LessSelf DEF Inv, TypeOK, MainTypes
<1>8. \A e \in Range(queue) : e.k \notin {"cardsAvailable", "cardEvent", "certificatesLoaded"} \cup EndKinds
  BY <1>3 DEF Posted
<1>9. CASE Write("quit") /\ Finish(queue)
  BY <1>1, <1>4, <1>6, <1>7, <1>8, <1>9, FinishEnds
<1>10. CASE cmd = "invalid" /\ OnCriticalFailure(queue)
  BY <1>1, <1>2, <1>4, <1>6, <1>7, <1>8, <1>10, FailureEnds
<1>11. CASE /\ cmd = "about" /\ pc' = "loop"
            /\ UNCHANGED <<envVars, cont, depth, quitting, joinVars, responses, queue,
                           threadVars, windowVars, handlerVars>>
  <2>1. /\ UNCHANGED <<cmd, cont, depth, quitting, responses, queue, kind, st, interrupted, window>>
        /\ pc' = "loop"
    BY <1>11 DEF envVars, threadVars, windowVars
  <2>2. Posted' = {} /\ ~Ending' /\ ~Finished' /\ ~WatchSignal'
    BY <1>3, <1>4, <2>1 DEF Posted, Ending, Finished, WatchSignal
  <2>3. ~ThreadTurn' /\ ~WatchThread'
    BY <1>6, <2>1 DEF ThreadTurn, Works, WatchThread, Watching, Running
  <2>4. OneIn(queue', Endings) /\ Before(queue', Loads, Endings)
    BY <2>1 DEF Ends, OneEnding, NoLateMonitor
  <2> QED
    BY <1>1, <1>2, <1>4, <2>1, <2>2, <2>3, <2>4
    DEF Ends, NobodyGoesOn, OneEnding, NoLateMonitor, FinishedIsDone, OneAnswer
<1>12. CASE /\ StartCommandExecution /\ pc' = "loop"
            /\ UNCHANGED <<cont, depth, quitting, joinVars, responses, queue, envVars>>
  <2>1. UNCHANGED <<cmd, cont, depth, quitting, responses, queue>>
    BY <1>12 DEF envVars
  <2> QED
    BY <1>3, <1>5, <1>12, <2>1, StartGoesOn
<1> QED
  BY <1>9, <1>10, <1>11, <1>12 DEF Run

(* The rest of onRetry.                                                    *)
LEMMA RestartEnds ==
    ASSUME Inv, Ends, Restart
    PROVE  Ends'
<1>1. ~Ending /\ ~Over
  BY DEF Restart, Ends, NobodyGoesOn
<1>2. StartCommandExecution /\ pc' = "loop" /\ cont' = "" /\ UNCHANGED <<cmd, depth, quitting, responses, queue>>
  BY DEF Restart, envVars
<1> QED
  BY <1>1, <1>2, StartGoesOn

(* The rest of Controller::exit: all threads have been waited for.         *)
LEMMA EmitFinishedEnds ==
    ASSUME Inv, Ends, EmitFinished
    PROVE  Ends'
<1>1. cont = "exit" /\ JoinIsOver
  BY DEF EmitFinished
<1>2. responses # <<>> /\ depth = 0
  BY <1>1 DEF Ends, FinishedIsDone
<1>3. Over /\ Len(responses) = 1 /\ ~Ending
  BY <1>2 DEF Ends, OneAnswer, OneEnding
<1>4. /\ \A e \in Posted : e.k \notin {"cardsAvailable", "cardEvent", "certificatesLoaded"}
      /\ MaxCardMoves # 0 => ~WatchSignal
  BY <1>3 DEF Ends, NobodyGoesOn, NoLateMonitor
<1>5. \A t \in Threads : st[t] = "free"
  BY <1>1, NobodyIsLeft
<1>6. /\ cont' = "" /\ UNCHANGED <<cmd, depth, responses, window, st, kind, interrupted>>
      /\ pc' \in {"unwind", "loop"}
  BY DEF EmitFinished, envVars, threadVars, windowVars
<1>7. queue \in Seq(Signals) /\ Sig("quit", None) \in Signals /\ Sig("quit", None).k = "quit"
  BY QuitSignal DEF Inv, TypeOK, MainTypes, Sig
<1>8. queue' \in Seq(Signals) /\ \A e \in Posted' : e \in Posted \/ e.k = "quit"
  <2> DEFINE x == Sig("quit", None)
  <2>1. queue' = queue \/ queue' = Append(queue, x)
    BY DEF EmitFinished
  <2>2. x \in Signals /\ x.k = "quit"
    BY <1>7
  <2> HIDE DEF x
  <2>3. Append(queue, x) \in Seq(Signals) /\ Range(Append(queue, x)) = Range(queue) \cup {x}
    BY <1>7, <2>2, RangeOfAppend
  <2> QED
    BY <1>7, <2>1, <2>2, <2>3 DEF Posted
<1>9. ~Ending' /\ (\A e \in Posted' : e.k \notin {"cardsAvailable", "cardEvent", "certificatesLoaded"})
      /\ \A e \in Range(queue') : e \notin Endings
  BY <1>3, <1>4, <1>8 DEF Ending, EndKinds, Posted, Endings
<1>10. OneIn(queue', Endings) /\ Before(queue', Loads, Endings)
  BY <1>8, <1>9, NoneIn
<1>11. ~ThreadTurn' /\ ~WatchThread' /\ ~WatchSignal' /\ \A t \in Threads : ~Running(t)'
  BY <1>5, <1>6, <1>9 DEF ThreadTurn, Works, WatchThread, Watching, Running, WatchSignal, Watch
<1>12. Over'
  BY <1>3, <1>6 DEF Over
<1> QED
  BY <1>2, <1>3, <1>6, <1>9, <1>10, <1>11, <1>12
  DEF Ends, NobodyGoesOn, OneEnding, NoLateMonitor, FinishedIsDone, OneAnswer

(* All event loops have been left.                                         *)
LEMMA UnwindEnds ==
    ASSUME Inv, Inv', Turns, Ends, Unwind
    PROVE  Ends'
<1>1. Finished /\ pc = "unwind"
  BY DEF Unwind, Finished
<1>2. depth = 0
  BY <1>1 DEF Ends, FinishedIsDone
<1>3. /\ pc' = "exited"
      /\ UNCHANGED <<envVars, cont, depth, quitting, joinVars, responses, queue,
                     threadVars, windowVars, handlerVars>>
  BY <1>2 DEF Unwind
<1>4. UNCHANGED <<cmd, cont, depth, responses, queue, kind, st, dialog, interrupted, window>>
  BY <1>3 DEF envVars, threadVars, windowVars
<1>5. QuietThreads
  BY <1>4, SameThreadsQuiet
<1>6. Less(queue', queue)
  BY <1>4, LessSelf DEF Inv, TypeOK, MainTypes
<1>7. Over' <=> Over
  BY <1>1, <1>3, <1>4 DEF Over
<1> QED
  BY <1>1, <1>4, <1>5, <1>6, <1>7, MainEnds

(* Every step of the main thread keeps what is said of the end.            *)
LEMMA MainStepEnds ==
    ASSUME Inv, Inv', Turns, NoCommand, Ends, MainStep
    PROVE  Ends'
<1>1. CASE Run
  BY <1>1, RunEnds
<1>2. CASE Deliver
  BY <1>2, DeliverEnds
<1>3. queue \in Seq(Signals)
  BY DEF Inv, TypeOK, MainTypes
<1>4. CASE StopChild
  <2>1. QuietThreads
    BY <1>4, StopChildQuiet DEF Quiet
  <2>2. UNCHANGED <<queue, window, cmd, pc, cont, depth, quitting, responses>>
    BY <1>4 DEF StopChild, windowVars, envVars
  <2> QED
    BY <1>3, <2>1, <2>2, LessSelf, StillEnds
<1>5. CASE WaitForChild
  <2>1. QuietThreads
    BY <1>5, WaitForChildQuiet DEF Quiet
  <2>2. queue' = Without(queue, ThreadSignals, current) /\ UNCHANGED <<window, cmd, pc, cont, depth, quitting, responses>>
    BY <1>5 DEF WaitForChild, windowVars, envVars
  <2>3. Less(Without(queue, ThreadSignals, current), queue)
    BY <1>3, WithoutIsLess
  <2> QED
    BY <2>1, <2>2, <2>3, StillEnds
<1>6. CASE Restart
  BY <1>6, RestartEnds
<1>7. CASE EmitFinished
  BY <1>7, EmitFinishedEnds
<1>8. CASE Unwind
  BY <1>8, UnwindEnds
<1> QED
  BY <1>1, <1>2, <1>4, <1>5, <1>6, <1>7, <1>8 DEF MainStep

(* While the user has something to do the command is not over.             *)
LEMMA UserGoesOn ==
    ASSUME Inv, NoCommand, Ends, Idle, window # None
    PROVE  /\ ~Ending /\ ~Over /\ ~Finished /\ responses = <<>> /\ depth = 0 /\ cont # "exit" /\ cmd # "about"
           /\ Less(queue, queue)
           /\ \A e \in Range(queue) : e.k \notin {"cardsAvailable", "cardEvent", "certificatesLoaded"} \cup EndKinds
<1>1. \A e \in Posted : e.k \in {"deleteWindow", "deleteThread"}
  BY IdleIsSilent
<1>2. ~Ending /\ ~Over
  BY <1>1 DEF Ending, EndKinds, Over
<1>3. \A e \in Range(queue) : e.k \notin {"cardsAvailable", "cardEvent", "certificatesLoaded"} \cup EndKinds
  BY <1>1 DEF Posted, EndKinds
<1>4. Less(queue, queue)
  BY LessSelf DEF Inv, TypeOK, MainTypes
<1>5. cmd # "about"
  BY CommandIsThere
<1> QED
  BY <1>2, <1>3, <1>4, <1>5, WhileItGoesOn

(* OK.                                                                     *)
LEMMA ClickOKEnds ==
    ASSUME Inv, Turns, NoCommand, Ends, Calm, "hasty" \notin UserActs, ClickOK
    PROVE  Ends'
<1>1. pc = "loop" /\ window # None /\ page[window] \in {"select", "pin"} /\ Idle
  BY DEF ClickOK, UserMayOnPage, UserMay
<1>2. UserTurn
  BY <1>1 DEF UserTurn, Asked
<1>3. ~ThreadTurn
  BY <1>1, <1>2, TurnOfUser
<1>4. cont # "restart"
  BY <1>1 DEF Inv, RestartIsDue
<1>5. CASE OnConfirmCommandHandler(queue) /\ UNCHANGED window
  BY <1>1, <1>5, UserGoesOn, ConfirmHandlerGoesOn
<1>6. CASE \E d \in {"single", "unusable"} : OnSingleCertificateReady(window, d, queue)
  <2>1. PICK d : OnSingleCertificateReady(window, d, queue)
    BY <1>6
  <2>2. CASE right[window]
    BY <1>1, <2>1, <2>2, UserGoesOn, SingleCertificateEnds
  <2>3. CASE ~right[window]
    <3>1. OnCriticalFailure(queue)
      BY <2>1, <2>3 DEF OnSingleCertificateReady
    <3> QED
      BY <1>1, <1>3, <1>4, <3>1, UserGoesOn, FailureEnds
  <2> QED
    BY <2>2, <2>3
<1> QED
  BY <1>5, <1>6 DEF ClickOK

(* The fatal error dialog is closed: Controller reports the error, where   *)
(* the Safari app has not done so, and exits.                              *)
LEMMA CloseFatalErrorEnds ==
    ASSUME Inv, Ends, CloseFatalError
    PROVE  Ends'
<1>1. depth > 0 /\ ReportFatalError /\ depth \in 0 .. MaxDepth /\ MaxDepth \in Nat
  BY Bounds DEF CloseFatalError, Inv, TypeOK, MainTypes
<1>2. depth = 1 /\ Over /\ (responses # <<>> <=> Safari)
  BY <1>1 DEF Ends, OneAnswer
<1>3. ~Ending /\ ~Finished /\ window = None
  BY <1>2 DEF Ends, OneEnding, FinishedIsDone, Over
<1>4. /\ depth' = 0 /\ queue' = queue /\ window' = None /\ pc' = "join" /\ cont' = "exit"
      /\ UNCHANGED <<quitting, cmd, kind, st, interrupted>>
      /\ IF Safari THEN UNCHANGED responses ELSE Write("fatal")
  BY <1>1, <1>2, <1>3 DEF ReportFatalError, DisposedQueue, envVars, threadVars
<1>5. responses' # <<>> /\ Len(responses') = 1
  BY <1>2, <1>4, FirstAnswer DEF Ends, OneAnswer
<1>6. Posted' = Posted /\ ~Ending' /\ ~Finished' /\ Over'
  BY <1>3, <1>4 DEF Posted, Ending, Finished, Over
<1>7. (ThreadTurn' <=> ThreadTurn) /\ (WatchThread' <=> WatchThread) /\ (WatchSignal' <=> WatchSignal)
  BY <1>4, <1>6 DEF ThreadTurn, Works, Running, WatchThread, Watching, WatchSignal
<1>8. NobodyGoesOn'
  BY <1>2, <1>4, <1>6, <1>7 DEF Ends, NobodyGoesOn
<1>9. OneEnding'
  BY <1>4, <1>6 DEF Ends, OneEnding
<1>10. NoLateMonitor'
  BY <1>2, <1>4, <1>6 DEF Ends, NoLateMonitor
<1> QED
  BY <1>4, <1>5, <1>6, <1>8, <1>9, <1>10 DEF Ends, FinishedIsDone, OneAnswer

(* The about page is shown without threads.                                *)
AboutIsQuiet == cmd = "about" => \A t \in Threads : ~Running(t)

(* The about page is closed.                                               *)
LEMMA CloseAboutPageEnds ==
    ASSUME Inv, NoCommand, AboutIsQuiet, Ends, CloseAboutPage
    PROVE  Ends'
<1>1. /\ cmd = "about" /\ queue = <<>> /\ queue' = <<Sig("quit", None)>> /\ pc = "loop"
      /\ UNCHANGED <<cmd, pc, cont, depth, quitting, responses, kind, st, interrupted, window>>
  BY DEF CloseAboutPage, UserMay, envVars, mainVars, threadVars, windowVars
<1>2. window = None /\ cont # "restart" /\ \A t \in Threads : ~Running(t)
  BY <1>1 DEF NoCommand, AboutIsQuiet
<1>3. Over /\ depth = 0
  BY <1>1, <1>2 DEF Over, Ends, OneAnswer
<1>4. Sig("quit", None).k = "quit" /\ queue' \in Seq(Signals) /\ Range(queue') = {Sig("quit", None)}
  BY <1>1, QuitSignal, SingletonRange DEF Sig
<1>5. \A e \in Posted' : e.k = "quit" /\ e \notin Endings
  BY <1>4 DEF Posted, Endings, EndKinds
<1>6. OneIn(queue', Endings) /\ Before(queue', Loads, Endings)
  BY <1>4, <1>5, NoneIn DEF Posted
<1>7. ~Ending' /\ Over' /\ ~WatchSignal'
  BY <1>1, <1>3, <1>5 DEF Ending, EndKinds, Over, WatchSignal, Watch
<1>8. ~ThreadTurn' /\ ~WatchThread' /\ \A t \in Threads : ~Running(t)'
  BY <1>1, <1>2 DEF ThreadTurn, Works, Running, WatchThread, Watching
<1> QED
  BY <1>1, <1>2, <1>3, <1>5, <1>6, <1>7, <1>8
  DEF Ends, NobodyGoesOn, OneEnding, NoLateMonitor, FinishedIsDone, OneAnswer

(* An orderly user is a calm one.                                          *)
LEMMA OrderlyIsCalm ==
    ASSUME Orderly
    PROVE  Calm /\ "hasty" \notin UserActs
  BY DEF Orderly, Calm, Unhurried

(* Whatever an orderly user does keeps what is said of the end.            *)
LEMMA UserStepEnds ==
    ASSUME Orderly, Inv, Turns, NoCommand, AboutIsQuiet, Ends, UserStep
    PROVE  Ends'
<1>1. "hasty" \notin UserActs /\ "cancel" \notin UserActs /\ "reselect" \notin UserActs /\ Calm
  BY OrderlyIsCalm DEF Orderly
<1>2. CASE ClickOK
  BY <1>1, <1>2, ClickOKEnds
<1>3. CASE TryAgain
  <2>1. Idle /\ window # None /\ OnRetry(queue)
    BY <1>1, <1>3 DEF TryAgain, UserMayOnPage, UserMay
  <2> QED
    BY <2>1, UserGoesOn, RetryGoesOn
<1>4. CASE CloseFatalError
  BY <1>4, CloseFatalErrorEnds
<1>5. CASE CloseAboutPage
  BY <1>5, CloseAboutPageEnds
<1>6. ~ClickCancel /\ ~SelectAnother
  BY <1>1 DEF ClickCancel, SelectAnother, UserMayOnPage, UserMay
<1> QED
  BY <1>2, <1>3, <1>4, <1>5, <1>6 DEF UserStep

(* No step starts a thread while the about page is shown.                  *)
LEMMA NextAboutIsQuiet ==
    ASSUME Inv, NoCommand, AboutIsQuiet, [Next]_vars
    PROVE  AboutIsQuiet'
<1>1. cmd' = cmd
  BY CommandStays
<1> SUFFICES ASSUME cmd = "about"
             PROVE  \A t \in Threads : ~Running(t)'
  BY <1>1 DEF AboutIsQuiet
<1>2. /\ window = None /\ cont # "restart"
      /\ \A t \in Threads : kind[t] = "" /\ ~Running(t)
      /\ \A e \in Posted : e.k = "quit"
  BY DEF NoCommand, AboutIsQuiet
<1>3. CASE st' = st
  BY <1>2, <1>3 DEF Running
<1>4. CASE Run
  <2>1. st' = st
    BY <1>4 DEF Run, threadVars
  <2> QED
    BY <1>3, <2>1
<1>5. CASE Deliver
  <2> DEFINE e == queue[NextSignal]
             q == RemoveAt(queue, NextSignal)
  <2>1. e \in Posted
    BY <1>5, Delivery DEF Deliver, Inv, TypeOK, MainTypes
  <2>2. e.k = "quit"
    BY <1>2, <2>1
  <2>3. DeliverToController(e, q)
    BY <1>5, <2>2 DEF Deliver, WindowSignals, ThreadSignals
  <2>4. st' = st
    BY <2>2, <2>3 DEF DeliverToController, threadVars
  <2> QED
    BY <1>3, <2>4
<1>6. CASE StopChild
  BY <1>3, <1>6 DEF StopChild
<1>7. CASE WaitForChild
  <2>1. st' = [st EXCEPT ![current] = "free"] /\ current \in Threads /\ st \in [Threads -> {"free", "ready", "card", "waiting", "done"}]
    BY <1>7 DEF WaitForChild, FreeThread, Inv, TypeOK, MainTypes, ThreadTypes
  <2> QED
    BY <1>2, <2>1 DEF Running
<1>8. CASE EmitFinished \/ Unwind \/ CloseFatalError
  <2>1. st' = st
    BY <1>8 DEF EmitFinished, Unwind, CloseFatalError, ReportFatalError, threadVars
  <2> QED
    BY <1>3, <2>1
<1>9. CASE \E t \in Threads : ThreadStep(t)
  BY <1>2, <1>9 DEF ThreadStep, WaitForCard, MonitorCards, RunCommand, GetPin, Confirm
<1>10. CASE CloseAboutPage \/ ChangeCard \/ UNCHANGED vars
  <2>1. st' = st
    BY <1>10 DEF CloseAboutPage, ChangeCard, vars, threadVars
  <2> QED
    BY <1>3, <2>1
<1>11. ~Restart /\ ~ClickOK /\ ~ClickCancel /\ ~TryAgain /\ ~SelectAnother
  BY <1>2 DEF Restart, ClickOK, ClickCancel, TryAgain, SelectAnother, UserMayOnPage
<1> QED
  BY <1>4, <1>5, <1>6, <1>7, <1>8, <1>9, <1>10, <1>11 DEF Next, MainStep, UserStep

(* Every step keeps what is said of the end.                               *)
LEMMA NextEnds ==
    ASSUME Orderly, Inv, Inv', Turns, NoCommand, AboutIsQuiet, Ends, [Next]_vars
    PROVE  Ends'
<1>1. CASE MainStep
  BY <1>1, MainStepEnds
<1>2. CASE \E t \in Threads : ThreadStep(t)
  BY <1>2, ThreadStepEnds
<1>3. CASE UserStep
  BY <1>3, UserStepEnds
<1>4. CASE ChangeCard \/ UNCHANGED vars
  <2>1. UNCHANGED <<queue, kind, st, dialog, interrupted>> /\ UNCHANGED <<window, cmd, pc, cont, depth, quitting, responses>>
    BY <1>4 DEF ChangeCard, vars, envVars, mainVars, threadVars, windowVars
  <2>2. Less(queue', queue)
    BY <2>1, LessSelf DEF Inv, TypeOK, MainTypes
  <2> QED
    BY <2>1, <2>2, SlotEnds
<1> QED
  BY <1>1, <1>2, <1>3, <1>4 DEF Next

(* Nothing has ended before it has begun.                                  *)
LEMMA InitialEnds ==
    ASSUME Init
    PROVE  NoCommand /\ AboutIsQuiet /\ Ends
<1>1. /\ queue = <<>> /\ window = None /\ pc = "start" /\ cont = "" /\ depth = 0 /\ quitting = FALSE
      /\ responses = <<>> /\ st = [t \in Threads |-> "free"]
  BY DEF Init
<1>2. Posted = {} /\ queue \in Seq(Signals) /\ \A e \in Range(queue) : e \notin Endings
  BY <1>1, EmptyRange DEF Posted
<1>3. OneIn(queue, Endings) /\ Before(queue, Loads, Endings)
  BY <1>2, NoneIn
<1>4. ~Ending /\ ~Over /\ ~Finished
  BY <1>1, <1>2 DEF Ending, Over, Finished
<1>5. AboutIsQuiet
  BY <1>1 DEF AboutIsQuiet, Running
<1>6. Ends
  <2>1. NobodyGoesOn
    BY <1>4 DEF NobodyGoesOn
  <2>2. OneEnding /\ NoLateMonitor
    BY <1>3, <1>4 DEF OneEnding, NoLateMonitor
  <2>3. FinishedIsDone
    BY <1>1, <1>4 DEF FinishedIsDone
  <2>4. OneAnswer
    <3>1. ~(depth > 0)
      <4>1. depth = 0
        BY <1>1
      <4> QED
        BY <4>1, SMT
    <3>2. ~(responses # <<>>)
      BY <1>1
    <3> QED
      BY <1>1, <3>1, <3>2 DEF OneAnswer
  <2> QED
    BY <2>1, <2>2, <2>3, <2>4 DEF Ends
<1> QED
  BY <1>5, <1>6, InitialPaged DEF Paged

(* What is said of the end is so throughout an orderly session.            *)
THEOREM EndsWell == Orderly /\ Spec => []Ends
<1> SUFFICES ASSUME Orderly PROVE Spec => []Ends
  OBVIOUS
<1>1. Calm
  BY OrderlyIsCalm
<1>2. Spec => []Inv
  BY Invariance
<1>3. Spec => []Turns
  BY <1>1, TakingTurns
<1>4. Init => NoCommand /\ AboutIsQuiet /\ Ends
  BY InitialEnds
<1>5. Inv /\ Inv' /\ Turns /\ NoCommand /\ AboutIsQuiet /\ Ends /\ [Next]_vars => NoCommand' /\ AboutIsQuiet' /\ Ends'
  BY NextNoCommand, NextAboutIsQuiet, NextEnds
<1> QED
  BY <1>2, <1>3, <1>4, <1>5, PTL DEF Spec

(* In an orderly session no thread is running when the program exits:      *)
(* Controller::exit has waited for all of them, and nothing that was       *)
(* posted before has started one since.                                    *)
THEOREM NoThreadSurvives == Orderly /\ Spec => []ExitsClean
<1>1. Ends => ExitsClean
  BY DEF Ends, FinishedIsDone, Finished, ExitsClean
<1> QED
  BY <1>1, EndsWell, PTL

-----------------------------------------------------------------------------
(* What is written.                                                        *)

(* A step writes one response, or none.                                    *)
Writes == responses' = responses \/ \E r : Write(r)

(* A slot, or a click, writes one response or none and does not exit.      *)
LEMMA SlotWrites ==
    ASSUME NEW q, pc # "exited",
           \/ Ignored(q) \/ OnCriticalFailure(q) \/ OnRetry(q) \/ OnCardsAvailable(q)
           \/ OnCertificatesLoaded(q) \/ OnConfirmCommandHandler(q) \/ OnCommandHandlerConfirmCompleted(q)
           \/ OnDialogCancel(q) \/ OnSmartCardStatusUpdate(q) \/ OnRetrySignal(q)
           \/ OnMultipleCertificatesReady(window, q)
           \/ \E d : PageOnly(window, d, q) \/ OnSingleCertificateReady(window, d, q) \/ OnVerifyPinFailed(window, d, q)
    PROVE  Writes /\ pc' # "exited"
<1>1. ASSUME OnCriticalFailure(q) PROVE Writes /\ pc' # "exited"
  BY <1>1 DEF OnCriticalFailure, Writes
<1>2. ASSUME OnRetry(q) PROVE Writes /\ pc' # "exited"
  BY <1>2 DEF OnRetry, BeginJoin, Writes
<1>3. ASSUME UNCHANGED mainVars PROVE Writes /\ pc' # "exited"
  BY <1>3 DEF mainVars, Writes
<1>4. ASSUME Finish(q), \E r : Write(r) PROVE Writes /\ pc' # "exited"
  BY <1>4 DEF Finish, BeginJoin, Writes
<1>5. ASSUME OnCardsAvailable(q) PROVE Writes /\ pc' # "exited"
  BY <1>1, <1>3, <1>5 DEF OnCardsAvailable
<1>6. ASSUME Ignored(q) \/ OnCertificatesLoaded(q) \/ OnConfirmCommandHandler(q) \/ \E d : PageOnly(window, d, q)
      PROVE  Writes /\ pc' # "exited"
  BY <1>3, <1>6 DEF Ignored, OnCertificatesLoaded, OnConfirmCommandHandler, PageOnly
<1>7. ASSUME OnCommandHandlerConfirmCompleted(q) \/ OnDialogCancel(q) PROVE Writes /\ pc' # "exited"
  BY <1>4, <1>7 DEF OnCommandHandlerConfirmCompleted, OnDialogCancel
<1>8. ASSUME OnSmartCardStatusUpdate(q) \/ OnRetrySignal(q) PROVE Writes /\ pc' # "exited"
  BY <1>3, <1>6, <1>8 DEF OnSmartCardStatusUpdate, OnRetrySignal
<1>9. ASSUME OnMultipleCertificatesReady(window, q) PROVE Writes /\ pc' # "exited"
  BY <1>1, <1>3, <1>9 DEF OnMultipleCertificatesReady
<1>10. ASSUME NEW d, OnSingleCertificateReady(window, d, q) PROVE Writes /\ pc' # "exited"
  BY <1>1, <1>6, <1>10 DEF OnSingleCertificateReady, PromptForPin
<1>11. ASSUME NEW d, OnVerifyPinFailed(window, d, q) PROVE Writes /\ pc' # "exited"
  BY <1>6, <1>11 DEF OnVerifyPinFailed
<1> QED
  BY <1>1, <1>2, <1>5, <1>6, <1>7, <1>8, <1>9, <1>10, <1>11

(* So does every step, but the last.                                       *)
LEMMA NextWrites ==
    ASSUME Next
    PROVE  pc # "exited" /\ Writes /\ (pc' = "exited" => responses' = responses)
<1>1. CASE Run
  <2>1. CASE Write("quit") /\ Finish(queue)
    BY <1>1, <2>1 DEF Run, Writes, Finish, BeginJoin
  <2>2. CASE OnCriticalFailure(queue)
    BY <1>1, <2>2, SlotWrites DEF Run
  <2>3. CASE pc' = "loop" /\ UNCHANGED responses
    BY <1>1, <2>3 DEF Run, Writes
  <2> QED
    BY <1>1, <2>1, <2>2, <2>3 DEF Run
<1>2. CASE Deliver
  <2> DEFINE e == queue[NextSignal]
             q == RemoveAt(queue, NextSignal)
  <2>1. pc = "loop" /\ pc # "exited"
    BY <1>2 DEF Deliver
  <2>2. \/ DeleteWindow(e.o, q) \/ DeleteThread(e.o, q)
        \/ DeliverToWindow(e, q) \/ DeliverToThread(e, q) \/ DeliverToController(e, q)
    BY <1>2 DEF Deliver
  <2> HIDE DEF e, q
  <2>3. CASE DeleteWindow(e.o, q) \/ DeleteThread(e.o, q)
    BY <2>1, <2>3 DEF DeleteWindow, DeleteThread, mainVars, Writes
  <2>4. CASE DeliverToWindow(e, q)
    <3>1. \/ Ignored(q) \/ OnMultipleCertificatesReady(window, q)
          \/ \E d : PageOnly(window, d, q) \/ OnSingleCertificateReady(window, d, q) \/ OnVerifyPinFailed(window, d, q)
      BY <2>4 DEF DeliverToWindow
    <3> QED
      BY <2>1, <3>1, SlotWrites
  <2>5. CASE DeliverToThread(e, q)
    <3>1. \E p : Ignored(p) \/ OnRetrySignal(p)
      BY <2>5 DEF DeliverToThread
    <3> QED
      BY <2>1, <3>1, SlotWrites
  <2>6. CASE DeliverToController(e, q)
    <3>1. CASE pc' = "unwind" /\ UNCHANGED responses
      BY <2>1, <3>1 DEF Writes
    <3>2. CASE OnCardsAvailable(q) \/ OnSmartCardStatusUpdate(q) \/ OnCertificatesLoaded(q) \/ OnRetry(q)
               \/ OnRetrySignal(q) \/ OnCommandHandlerConfirmCompleted(q) \/ OnDialogCancel(q) \/ OnCriticalFailure(q)
      BY <2>1, <3>2, SlotWrites
    <3> QED
      BY <2>6, <3>1, <3>2 DEF DeliverToController
  <2> QED
    BY <2>2, <2>3, <2>4, <2>5, <2>6
<1>3. CASE StopChild \/ WaitForChild \/ Restart \/ EmitFinished
  BY <1>3 DEF StopChild, WaitForChild, Restart, EmitFinished, JoinIsOver, Writes
<1>4. CASE Unwind
  BY <1>4 DEF Unwind, ReportFatalError, Writes
<1>5. CASE pc # "exited" /\ \E t \in Threads : ThreadStep(t)
  <2>1. UNCHANGED mainVars
    BY <1>5 DEF ThreadStep, WaitForCard, MonitorCards, RunCommand, GetPin, Confirm, ChildOnly
  <2> QED
    BY <1>5, <2>1 DEF mainVars, Writes
<1>6. CASE UserStep
  <2>1. pc = "loop" /\ pc # "exited"
    BY <1>6 DEF UserStep, ClickOK, ClickCancel, TryAgain, SelectAnother, CloseFatalError, CloseAboutPage, UserMayOnPage, UserMay
  <2>2. CASE \/ OnConfirmCommandHandler(queue) \/ OnDialogCancel(queue) \/ OnRetry(queue)
             \/ \E d : PageOnly(window, d, queue) \/ OnSingleCertificateReady(window, d, queue)
    BY <2>1, <2>2, SlotWrites
  <2>3. CASE ReportFatalError
    BY <2>1, <2>3 DEF ReportFatalError, Writes
  <2>4. CASE UNCHANGED mainVars
    BY <2>1, <2>4 DEF mainVars, Writes
  <2> QED
    BY <1>6, <2>2, <2>3, <2>4 DEF UserStep, ClickOK, ClickCancel, TryAgain, SelectAnother, CloseFatalError, CloseAboutPage
<1>7. CASE ChangeCard
  BY <1>7 DEF ChangeCard, mainVars, Writes
<1> QED
  BY <1>1, <1>2, <1>3, <1>4, <1>5, <1>6, <1>7 DEF Next, MainStep

(* One step of the program is a step of the session.                       *)
SessionStep == Browser!Respond \/ Browser!Exit \/ UNCHANGED Browser!vars

(* Every step of an orderly session is such a step.                        *)
LEMMA NextIsSession ==
    ASSUME Inv, Inv', Ends, Ends', cmd # "about", cmd' # "about", [Next]_vars
    PROVE  SessionStep
<1>1. CASE UNCHANGED vars
  BY <1>1 DEF SessionStep, Browser!vars, vars, mainVars
<1>2. ASSUME Next PROVE SessionStep
  <2>1. pc # "exited" /\ Writes /\ (pc' = "exited" => responses' = responses)
    BY <1>2, NextWrites
  <2>2. CASE responses' = responses /\ pc' # "exited"
    BY <2>1, <2>2 DEF SessionStep, Browser!vars
  <2>3. CASE responses' = responses /\ pc' = "exited"
    <3>1. responses' # <<>>
      BY <2>3 DEF Ends, FinishedIsDone, Finished
    <3> QED
      BY <2>1, <2>3, <3>1 DEF SessionStep, Browser!Exit
  <2>4. CASE responses' # responses
    <3>1. PICK r : Write(r)
      BY <2>1, <2>4 DEF Writes
    <3>2. responses \in Seq(Answers) /\ responses' \in Seq(Answers) /\ MaxResponses \in Nat
      BY Bounds, BoundedSequences DEF Inv, TypeOK, MainTypes, Answers
    <3>3. responses' = Append(responses, r)
      BY <2>4, <3>1 DEF Write
    <3>4. responses' # <<>>
      BY <3>2, <3>3
    <3>5. Len(responses') = 1
      BY <3>4 DEF Ends, OneAnswer
    <3>6. responses = <<>>
      BY <3>2, <3>3, <3>5
    <3>7. responses' = <<r>> /\ r \in Answers
      BY <3>2, <3>3, <3>6
    <3> QED
      BY <2>1, <2>4, <3>6, <3>7 DEF SessionStep, Browser!Respond, Answers
  <2> QED
    BY <2>1, <2>2, <2>3, <2>4
<1> QED
  BY <1>1, <1>2

(* In an orderly session for which the browser has sent a command, one     *)
(* response is written and the program does not exit before it: Controller *)
(* is the session that Session promises, but for what fairness adds.       *)
THEOREM OneAnswerIsWritten == Orderly /\ "about" \notin Commands /\ Spec => OneAnswerOnly
<1> SUFFICES ASSUME Orderly, "about" \notin Commands PROVE Spec => OneAnswerOnly
  OBVIOUS
<1>1. Spec => []Inv
  BY Invariance
<1>2. Spec => []Ends
  BY EndsWell
<1>3. Inv => cmd # "about"
  BY DEF Inv, TypeOK, EnvTypes
<1>4. Init => Browser!Init
  BY DEF Init, Browser!Init
<1>5. Inv /\ Inv' /\ Ends /\ Ends' /\ [Next]_vars => [Browser!Respond \/ Browser!Exit]_(Browser!vars)
  <2>1. (Inv => cmd # "about")'
    BY DEF Inv, TypeOK, EnvTypes
  <2> QED
    BY <1>3, <2>1, NextIsSession DEF SessionStep
<1> QED
  BY <1>1, <1>2, <1>4, <1>5, PTL DEF Spec, OneAnswerOnly, Browser!Safety
=============================================================================
