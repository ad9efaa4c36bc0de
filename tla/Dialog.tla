------------------------------- MODULE Dialog -------------------------------
(***************************************************************************)
(* The widgets of WebEidDialog (src/src/ui/webeiddialog.cpp) for one       *)
(* command, from the moment the dialog waits for a card: which of them are *)
(* visible and enabled, what the OK button is connected to, the PIN that   *)
(* is typed and the rule it is validated by.  Slots are functions from one *)
(* state of the widgets to the next, in the order in which the code sets   *)
(* them; signals of the widgets are direct calls.                          *)
(*                                                                         *)
(* Controller and the threads are the environment: "working" are the       *)
(* certificates for which a confirm thread has been started by accepted()  *)
(* or waitingForPinPad() and has not come to its end.  The slots run       *)
(* whenever a signal arrives, on whatever page.  "turn" follows how the    *)
(* signals of one attempt should come: first WaitForCardThread looks for   *)
(* a card, then the certificates are read once, then the user is asked.    *)
(* Signals that were left over from before a restart come out of turn      *)
(* (Controller shows how); they are the strays.                            *)
(***************************************************************************)
EXTENDS Naturals, FiniteSets, Sequences, SequencesExt

CONSTANTS
    Commands,      \* commands of this instance
    Certificates,  \* certificates the cards in the readers may hold
    MaxWorking,    \* bound: confirm threads at one time
    MaxStrays      \* bound: signals that come out of turn

NoRule == "no rule"  \* a validator without a pattern accepts everything

(* How the PIN is entered, whether the certificate is valid and its PIN    *)
(* not blocked, which PINs of the card are active, the rule for its PIN.   *)
(* Only PINs of cards that the program itself talks to can be inactive     *)
(* (certificatereader.cpp:53).                                             *)
ASSUME CertificatesOK ==
    \A c \in Certificates :
        /\ c.mode \in {"keyboard", "pinpad", "external"}
        /\ c.state \in {"valid", "expired", "blocked"}
        /\ c.active \in {"both", "pin1", "none"}
        /\ c.mode = "external" => c.active = "both"
        /\ c.rule # NoRule
ASSUME BoundsOK == MaxWorking \in Nat /\ MaxStrays \in Nat
ASSUME CommandsOK ==
    Commands \subseteq {"get-signing-certificate", "authenticate", "sign"}

NoCertificate == [mode |-> "none", state |-> "expired", active |-> "none", rule |-> "none"]

VARIABLES
    open,     \* the dialog has not been closed
    command,  \* the command that is served
    ui,       \* the widgets
    pin,      \* the PIN that is cached for getPin()
    working,  \* certificates that are being used by a confirm thread
    \* history
    offered,  \* the certificates that were read, in their turn
    turn,     \* what the signals in their turn have come to: look, read, ask
    strays    \* how many have come out of turn

history == <<offered, turn, strays>>
vars == <<open, command, ui, pin, working, offered, turn, strays>>

Rules == {c.rule : c \in Certificates}

(* The constructor, and then showWaitingForCardPage.                       *)
NewWidgets ==
    [current |-> command,   \* currentCommand
     stack |-> "waiting",   \* the page on top
     ok |-> [visible |-> FALSE, enabled |-> TRUE, does |-> "nothing",
             certificate |-> NoCertificate],
     cancel |-> [visible |-> TRUE, enabled |-> TRUE],
     input |-> [visible |-> FALSE, text |-> ""],
     validator |-> NoRule,
     bar |-> FALSE,         \* the progress bar is not hidden on the PIN page
     another |-> FALSE,     \* "select another certificate" is not hidden there
     others |-> {},         \* the certificates it goes back to
     buttons |-> {},        \* the certificates on the selection page
     checked |-> NoCertificate,
     displayed |-> NoCertificate]

Init ==
    /\ open = FALSE /\ command \in Commands
    /\ ui = NewWidgets
    /\ pin = "" /\ working = <<>> /\ offered = {} /\ turn = "look" /\ strays = 0

-----------------------------------------------------------------------------
(* Pieces of the slots, on the widgets "u" they find.                      *)

(* QWidget::isVisible: not hidden, on the page on top.                     *)
BarVisible(u) == u.bar /\ u.stack = "pin"
InputVisible(u) == u.input.visible /\ u.stack = "pin"

(* isCardActive.                                                           *)
IsCardActive(u, c) == c.active = "both" \/ (c.active = "pin1" /\ u.current = "authenticate")

(* Plausible bug: the rule has no lower bound.                             *)
Acceptable_Empty(u, t) == u.validator = NoRule \/ t \in {"", u.validator}

(* hasAcceptableInput.                                                     *)
Acceptable(u, t) == u.validator = NoRule \/ t = u.validator

(* pinInput->setText, whose textChanged enables OK or disables it.         *)
SetText(u, t) ==
    IF t = u.input.text THEN u
    ELSE [u EXCEPT !.input.text = t, !.ok.enabled = Acceptable(u, t)]

(* setupOK.                                                                *)
SetupOK(u, does, c, enabled) ==
    [u EXCEPT !.ok = [visible |-> TRUE, enabled |-> enabled, does |-> does, certificate |-> c],
              !.cancel = [visible |-> TRUE, enabled |-> TRUE]]

(* setupCertificateAndPinInfo: new buttons, none of them checked.          *)
SetupCertificates(u, list) == [u EXCEPT !.buttons = list, !.checked = NoCertificate]

(* Plausible bug: certificates that cannot be used are not disabled.       *)
Click_AnyButton(u, c) ==
    [u EXCEPT !.checked = c, !.ok.enabled = IsCardActive(u, c)]

(* click() on a certificate, which does nothing if it is disabled          *)
(* (setCertificateInfo), and the selection group's buttonClicked.          *)
Click(u, c) ==
    IF c.state # "valid" THEN u
    ELSE [u EXCEPT !.checked = c, !.ok.enabled = IsCardActive(u, c)]

(* setupPinPrompt.                                                         *)
SetupPinPrompt(u, c) ==
    LET pad == c.mode = "pinpad"
        active == IsCardActive(u, c)
    IN [u EXCEPT !.ok.visible = ~pad /\ active,
                 !.cancel.visible = ~(pad /\ active),
                 !.input.visible = ~pad /\ active,
                 !.bar = pad /\ active]

(* Plausible bug: "select another certificate" stays.                      *)
SetupPinPad_AnotherStays(u, c) == SetupPinPrompt(u, c)

(* setupPinPadProgressBarAndEmitWait.                                      *)
SetupPinPad(u, c) ==
    [SetupPinPrompt(u, c) EXCEPT !.another = @ /\ ~IsCardActive(u, c)]

(* Plausible bug: the validator is set up once.                            *)
SetupPinInput_OldRule(u, c) ==
    SetupOK([SetupPinPrompt(u, c) EXCEPT !.validator = IF @ = NoRule THEN c.rule ELSE @],
            "acceptPin", c, FALSE)

(* setupPinInput, up to connectOkToCachePinAndEmitSelectedCertificate.     *)
SetupPinInput(u, c) ==
    SetupOK([SetupPinPrompt(u, c) EXCEPT !.validator = c.rule], "acceptPin", c, FALSE)

(* Plausible bug: the progress bar is not hidden.                          *)
DisplayFatalError_BarStays(u) ==
    [u EXCEPT !.input.visible = FALSE, !.ok.visible = FALSE,
              !.cancel = [visible |-> TRUE, enabled |-> TRUE]]

(* displayFatalError.                                                      *)
DisplayFatalError(u) ==
    [u EXCEPT !.input.visible = FALSE, !.bar = FALSE, !.ok.visible = FALSE,
              !.cancel = [visible |-> TRUE, enabled |-> TRUE]]

(* onRetryImpl.                                                            *)
OnRetryImpl(u) == [SetupOK(u, "retry", NoCertificate, TRUE) EXCEPT !.stack = "alert"]

-----------------------------------------------------------------------------
(* The slots.                                                              *)

(* onMultipleCertificatesReady.                                            *)
OnMultipleCertificatesReady(u, list) ==
    LET v == SetupCertificates(u, list) IN
    IF u.current = "authenticate"
    THEN [SetupOK([v EXCEPT !.another = Cardinality(list) > 1, !.others = list],
                  "choose", NoCertificate, FALSE)
            EXCEPT !.stack = "select"]
    ELSE [SetupOK(v, "acceptChecked", NoCertificate, FALSE) EXCEPT !.stack = "select"]

(* onSingleCertificateReady.                                               *)
ShowCertificate(u, c) ==
    LET v == [u EXCEPT !.displayed = c] IN
    CASE c.state = "blocked" -> DisplayFatalError(v)
      [] c.state = "expired" -> v
      [] c.state = "valid" /\ c.mode = "external" -> SetupOK(v, "acceptPin", c, TRUE)
      [] c.state = "valid" /\ c.mode = "pinpad" -> SetupPinPad(v, c)
      [] c.state = "valid" /\ c.mode = "keyboard" -> SetupPinInput(v, c)

OnSingleCertificateReady(u, c) ==
    IF u.current = "get-signing-certificate"
    THEN [Click(SetupOK(SetupCertificates(u, {c}), "accept", c, FALSE), c)
            EXCEPT !.stack = "select"]
    ELSE [ShowCertificate(u, c) EXCEPT !.stack = "pin"]

Room == Len(working) < MaxWorking

(* waitingForPinPad() is emitted from within.                              *)
WaitsForPinPad(u, c) ==
    /\ u.current # "get-signing-certificate"
    /\ c.state = "valid" /\ c.mode = "pinpad" /\ IsCardActive(u, c)

Prompt(u, c) ==
    /\ WaitsForPinPad(u, c) => Room
    /\ ui' = OnSingleCertificateReady(u, c)
    /\ working' = IF WaitsForPinPad(u, c) THEN Append(working, c) ELSE working

-----------------------------------------------------------------------------
(* The dialog is disposed of: the command is done, has failed, or starts   *)
(* again.                                                                  *)
Close ==
    /\ open' = FALSE /\ ui' = NewWidgets /\ pin' = "" /\ working' = <<>>
    /\ offered' = {} /\ turn' = "look" /\ strays' = 0
    /\ UNCHANGED command

-----------------------------------------------------------------------------
(* What Controller and the threads do to the dialog.                       *)

Slot(new) == open /\ ui' = new /\ UNCHANGED <<open, command, pin>>

(* A signal that belongs to the turn "from", and after which it is "to".   *)
Turn(from, to) ==
    \/ turn = from /\ turn' = to /\ UNCHANGED strays
    \/ turn # from /\ strays < MaxStrays /\ strays' = strays + 1 /\ UNCHANGED turn

(* Controller::startCommandExecution: createWindow.                        *)
Open == ~open /\ open' = TRUE /\ UNCHANGED <<command, ui, pin, working, history>>

(* onSmartCardStatusUpdate.                                                *)
StatusUpdate ==
    /\ Slot([ui EXCEPT !.current = "insert-card", !.cancel.visible = TRUE,
                       !.ok.visible = FALSE, !.stack = "alert"])
    /\ Turn("look", "look")
    /\ UNCHANGED <<working, offered>>

(* showWaitingForCardPage.                                                 *)
CardsAvailable ==
    /\ Slot([ui EXCEPT !.current = command, !.ok.visible = FALSE, !.stack = "waiting"])
    /\ Turn("look", "read")
    /\ UNCHANGED <<working, offered>>

(* The certificates of the cards; sign looks for the one it was given.  A  *)
(* dialog that waits for a card does not expect them: failure().           *)
CertificatesReady(list) ==
    /\ open
    /\ command = "sign" => Cardinality(list) = 1
    /\ \/ ui.current = "insert-card" /\ Close
       \/ /\ ui.current # "insert-card"
          /\ IF Cardinality(list) = 1
             THEN \E c \in list : Prompt(ui, c)
             ELSE ui' = OnMultipleCertificatesReady(ui, list) /\ UNCHANGED working
          /\ Turn("read", "ask")
          /\ offered' = IF turn = "read" THEN list ELSE offered
          /\ UNCHANGED <<open, command, pin>>

(* onRetry and onSigningCertificateMismatch: reading the certificates has  *)
(* failed in a way that may be tried again.                                *)
ReadingFailed ==
    /\ Slot(OnRetryImpl(ui))
    /\ Turn("read", "ask")
    /\ UNCHANGED <<working, offered>>

(* getPin(), from the confirm thread that has the card.                    *)
GetPin ==
    /\ open /\ working # <<>> /\ Head(working).mode = "keyboard" /\ pin # ""
    /\ pin' = ""
    /\ UNCHANGED <<open, command, ui, working, history>>

(* A confirm thread is over, with its PIN taken.                           *)
ConfirmEnds ==
    /\ working # <<>>
    /\ command # "get-signing-certificate" /\ Head(working).mode = "keyboard" => pin = ""
    /\ working' = Tail(working)
    /\ UNCHANGED history

(* onVerifyPinFailed; fatal if the PIN is blocked or the error unknown.    *)
OnVerifyPinFailed(u, fatal) ==
    IF fatal THEN DisplayFatalError(u)
    ELSE IF BarVisible(u) THEN OnRetryImpl(u)
    ELSE [u EXCEPT !.input.visible = TRUE, !.ok.enabled = FALSE, !.cancel.enabled = TRUE]

PinFailed(fatal) ==
    /\ ConfirmEnds /\ command # "get-signing-certificate"
    /\ Slot(OnVerifyPinFailed(ui, fatal))

(* onRetry, from a confirm thread.                                         *)
ConfirmFailed == ConfirmEnds /\ Slot(OnRetryImpl(ui))

Dispose == open /\ Close

-----------------------------------------------------------------------------
(* The user.                                                               *)

Accepted(u, c) == ui' = u /\ working' = Append(working, c)

(* The lambdas that OK is connected to.                                    *)
AcceptCertificate ==
    /\ ui.ok.does \in {"accept", "acceptChecked"}
    /\ LET c == IF ui.ok.does = "accept" THEN ui.ok.certificate ELSE ui.checked
       IN c # NoCertificate /\ Accepted([ui EXCEPT !.ok.enabled = FALSE], c)
    /\ UNCHANGED <<open, command, pin, history>>

ChooseCertificate ==
    /\ ui.ok.does = "choose" /\ ui.checked # NoCertificate
    /\ Prompt([ui EXCEPT !.ok.enabled = FALSE], ui.checked)
    /\ UNCHANGED <<open, command, pin, history>>

AcceptPin ==
    /\ ui.ok.does = "acceptPin"
    /\ pin' = ui.input.text
    /\ Accepted(SetText([ui EXCEPT !.input.visible = FALSE, !.ok.enabled = FALSE,
                                   !.cancel.enabled = FALSE], ""),
                ui.ok.certificate)
    /\ UNCHANGED <<open, command, history>>

(* "CertificateButton not found": failure() ends the command.              *)
CertificateNotFound ==
    /\ ui.ok.does \in {"acceptChecked", "choose"} /\ ui.checked = NoCertificate
    /\ Close

OkCanBeClicked == ui.ok.visible /\ ui.ok.enabled

ClickOK ==
    /\ open /\ Room /\ OkCanBeClicked
    /\ \/ AcceptCertificate \/ ChooseCertificate \/ AcceptPin \/ CertificateNotFound
       \/ ui.ok.does = "retry" /\ Close

(* What the validator lets through: a beginning, or a PIN that fits.       *)
TypePin ==
    /\ open /\ InputVisible(ui)
    /\ \E t \in {"", "beginning"} \cup (IF ui.validator = NoRule THEN {} ELSE {ui.validator}) :
         ui' = SetText(ui, t)
    /\ UNCHANGED <<open, command, pin, working, history>>

ClickCertificate ==
    /\ open /\ ui.stack = "select"
    /\ \E c \in ui.buttons : ui' = Click(ui, c)
    /\ UNCHANGED <<open, command, pin, working, history>>

(* Plausible bug: the text is cleared after the list has been set up.      *)
SelectAnother_TextLast ==
    /\ open /\ ui.another /\ ui.stack = "pin"
    /\ ui' = SetText(OnMultipleCertificatesReady(ui, ui.others), "")
    /\ UNCHANGED <<open, command, pin, working, history>>

SelectAnother ==
    /\ open /\ ui.another /\ ui.stack = "pin"
    /\ ui' = OnMultipleCertificatesReady(SetText(ui, ""), ui.others)
    /\ UNCHANGED <<open, command, pin, working, history>>

(* reject(): the Cancel button, Escape, or the window's close button.      *)
Reject == open /\ ~BarVisible(ui) /\ Close

Next ==
    \/ Open \/ StatusUpdate \/ CardsAvailable
    \/ \E list \in {l \in SUBSET Certificates : Cardinality(l) \in 1 .. 2} : CertificatesReady(list)
    \/ ReadingFailed \/ GetPin \/ (\E fatal \in BOOLEAN : PinFailed(fatal))
    \/ ConfirmFailed \/ Dispose
    \/ ClickOK \/ TypePin \/ ClickCertificate \/ SelectAnother \/ Reject

Spec == Init /\ [][Next]_vars

-----------------------------------------------------------------------------
TypeOK ==
    /\ open \in BOOLEAN /\ command \in Commands
    /\ ui.current \in Commands \cup {"insert-card"}
    /\ ui.stack \in {"waiting", "alert", "select", "pin"}
    /\ ui.ok.does \in {"nothing", "accept", "acceptChecked", "choose", "acceptPin", "retry"}
    /\ {ui.ok.certificate, ui.checked, ui.displayed} \subseteq Certificates \cup {NoCertificate}
    /\ {ui.ok.visible, ui.ok.enabled, ui.cancel.visible, ui.cancel.enabled,
        ui.input.visible, ui.bar, ui.another} \subseteq BOOLEAN
    /\ ui.validator \in Rules \cup {NoRule}
    /\ {ui.input.text, pin} \subseteq Rules \cup {"", "beginning"}
    /\ ui.buttons \subseteq Certificates /\ ui.others \subseteq Certificates
    /\ offered \subseteq Certificates /\ turn \in {"look", "read", "ask"}
    /\ strays \in 0 .. MaxStrays
    /\ working \in Seq(Certificates)

Starts == Len(working') > Len(working)

(* A confirm thread is started only with a certificate that can be used,   *)
(* and with the one the user sees: the one on the PIN page, or the one     *)
(* that is checked.  The closure behind OK has captured it some pages      *)
(* before (webeiddialog.cpp:276, 329, 516).  A stray certificate may be    *)
(* shown without a new closure, or with one that an answer to the card     *)
(* before enables, so the signals have to come in their turn.              *)
ConfirmsWhatIsShown ==
    [][Starts /\ strays' = 0 =>
         LET c == Last(working') IN
           /\ c.state = "valid" /\ IsCardActive(ui, c)
           /\ c = IF command = "get-signing-certificate" THEN ui'.checked
                  ELSE ui'.displayed]_vars

(* The PIN that is handed on fits the rule of the certificate it is for,   *)
(* after any number of changes between certificates with other rules: a    *)
(* PIN that does not would cost one of the card's attempts                 *)
(* (webeiddialog.cpp:598 setupPinInput).                                   *)
PinFitsCertificate ==
    [][Starts /\ Last(working').mode = "keyboard" /\ command # "get-signing-certificate"
         => pin' = Last(working').rule]_vars

(* OK on the selection page always has a certificate to go with:           *)
(* "CertificateButton not found" (webeiddialog.cpp:278, 299) is not        *)
(* reached.                                                                *)
OkHasCertificate ==
    ui.stack = "select" /\ OkCanBeClicked => ui.ok.does = "accept" \/ ui.checked # NoCertificate

(* When nothing is at work the user can leave: Cancel is there, and        *)
(* reject() does not ignore it.  A stray that takes the PIN pad's page     *)
(* away leaves Cancel hidden.                                              *)
UserCanLeave ==
    open /\ working = <<>> /\ strays = 0 => ui.cancel.visible /\ ui.cancel.enabled /\ ~BarVisible(ui)

(* One PIN is used at a time: with a single certificate whose PIN is typed *)
(* in the dialog, OK cannot be clicked again until the card has answered,  *)
(* as long as the signals come in their turn.  When the certificate comes  *)
(* a second time, the field is shown again while the first PIN is used.    *)
OnePinAtATime ==
    strays = 0 /\ command # "get-signing-certificate"
    /\ (\E c \in Certificates : offered = {c} /\ c.mode = "keyboard")
        => Len(working) <= 1 /\ (working # <<>> => ~OkCanBeClicked)

(* What Controller may take the dialog for.                                *)
OkCanBecomeClickable == ui.ok.visible /\ (ui.ok.enabled \/ InputVisible(ui))

PinPage ==
    CASE BarVisible(ui) -> "pinpad"
      [] ~BarVisible(ui) /\ OkCanBecomeClickable -> "pin"
      [] ~BarVisible(ui) /\ ~OkCanBecomeClickable ->
           IF ui.ok.visible /\ working # <<>> THEN "busy" ELSE "blocked"

SelectPage ==
    CASE ~ui.ok.visible -> "alert"
      [] ui.ok.visible /\ ~ui.ok.enabled /\ working # <<>> /\ ui.ok.does # "choose" -> "busy"
      [] ui.ok.visible /\ (ui.ok.enabled \/ working = <<>> \/ ui.ok.does = "choose") -> "select"

Page ==
    CASE ~open -> ""
      [] open /\ ui.stack = "waiting" -> "wait"
      [] open /\ ui.stack = "alert" -> IF OkCanBeClicked THEN "retry" ELSE "alert"
      [] open /\ ui.stack = "select" -> SelectPage
      [] open /\ ui.stack = "pin" -> PinPage

(* The widgets behave as the pages do that Controller knows, as long as    *)
(* the signals come in their turn.                                         *)
Shows == INSTANCE DialogPages WITH
    page <- Page, several <- Cardinality(offered) > 1

ShowsPages == Shows!Init /\ [][strays' = 0 => Shows!Next]_(Shows!vars)
=============================================================================
