------------------------------ MODULE Language ------------------------------
(***************************************************************************)
(* The language of the user interface: the language that is stored in the  *)
(* settings, Application::loadTranslations, the dialog to select a         *)
(* language (src/src/ui/languageselect.cpp) and the texts of WebEidDialog  *)
(* that change with it: of the dialog of a command, the about page and the *)
(* fatal error page.                                                       *)
(*                                                                         *)
(* Loading a catalogue changes what tr() returns at once, but the texts on *)
(* the screen only when LanguageChange has been handled: it is posted to   *)
(* the application, which posts it to the dialog.  The dialog's slots may  *)
(* run in between, in any order, on any page.  Then retranslateUi gives    *)
(* every text of the .ui file back, and languageChange() the texts that    *)
(* have been set since.                                                    *)
(*                                                                         *)
(* Which of its labels a page shows is Dialog's matter; here each label    *)
(* has to be right, shown or not.                                          *)
(***************************************************************************)
EXTENDS Translations

CONSTANTS
    SystemLanguage,  \* the language of the system's locale
    Requested,       \* what a web site may pass as "lang"
    Offered,         \* languages the user of this instance may click on
    Commands,        \* the commands of this instance
    Attempts,        \* numbers of PIN attempts that may be left, 0 for an unknown one
    CardErrors,      \* the RetriableErrors of this instance
    PinErrors,       \* the VerifyPinFailed statuses of this instance
    Prompts,         \* the ways to ask for a PIN in this instance
    Inactive,        \* which PIN of a card is not active in this instance, or "none"
    MaxSlots         \* bound: slots of one dialog that set texts

(* The error's text and its title.                                         *)
Retriable ==
    [SMART_CARD_SERVICE_IS_NOT_RUNNING |->
         <<"The smart card service is not running", "Launch the Smart Card service">>,
     NO_SMART_CARD_READERS_FOUND |-> <<"Card reader not connected", "Connect the card reader">>,
     NO_SMART_CARDS_FOUND |-> <<"ID-card not found", "Insert the ID-card">>,
     SMART_CARD_WAS_REMOVED |-> <<"The ID-card was removed", "Insert the ID-card">>,
     SMART_CARD_TRANSACTION_FAILED |->
         <<"Operation failed. Make sure", "Check the ID-card and the reader connection">>,
     FAILED_TO_COMMUNICATE_WITH_CARD_OR_READER |->
         <<"Connection failed", "Check the ID-card and the reader connection">>,
     SMART_CARD_CHANGE_REQUIRED |->
         <<"The desired operation cannot be performed", "Operation not supported">>,
     SMART_CARD_COMMAND_ERROR |-> <<"Error communicating with the card", "Operation failed">>,
     PKCS11_ERROR |-> <<"Card driver error. Please try again", "Card driver error">>,
     SCARD_ERROR |-> <<"An error occurred in the Smart Card service", "Operation failed">>,
     UNSUPPORTED_CARD |-> <<"The card is not supported", "Operation not supported">>,
     NO_VALID_CERTIFICATE_AVAILABLE |->
         <<"No certificate for the operation", "Operation not supported">>,
     PIN_VERIFY_DISABLED |-> <<"Operation failed. Make sure of the driver", "Card driver error">>,
     UNKNOWN_ERROR |-> <<"Unknown error", "Unknown error">>]

(* onVerifyPinFailed's messages, but for the number of attempts.           *)
PinFailure ==
    [RETRY_ALLOWED |-> "Incorrect PIN.",
     PIN_BLOCKED |-> "PIN is locked. Unblock and try again.",
     INVALID_PIN_LENGTH |-> "Invalid PIN length",
     PIN_ENTRY_TIMEOUT |-> "PinPad timed out",
     PIN_ENTRY_CANCEL |-> "PIN entry cancelled.",
     PIN_ENTRY_DISABLED |-> "PIN entry disabled",
     UNKNOWN_ERROR |-> "Technical error"]

ASSUME Choices ==
    /\ Offered \subseteq Supported /\ Attempts \subseteq Nat
    /\ Commands \subseteq {"get-signing-certificate", "authenticate", "sign"}
    /\ CardErrors \subseteq DOMAIN Retriable /\ PinErrors \subseteq DOMAIN PinFailure
    /\ Prompts \subseteq {"keyboard", "pinpad", "external", "expired", "blocked"}
    /\ Inactive \subseteq {"none", "pin1", "pin2"} /\ MaxSlots \in Nat

NoSetting == "none"  \* no stored language, no "lang" argument, an empty string
Source == "source"   \* the texts in the program itself

VARIABLES
    setting,    \* QSettings "lang"
    asked,      \* the command's "lang" argument
    loaded,     \* the translator's catalogue
    change,     \* where LanguageChange has been posted to and not been handled
    shown,      \* the dialog: of a command, about, fatal or none
    command,    \* the command it is for
    action,     \* what the OK button does
    slots,      \* slots that have set texts in this dialog, for the bound
    text,       \* what each label displays
    says,       \* what each label is given again on languageChange()
    chooser,    \* the open LanguageSelect: "current" and the language of its texts
    \* history
    chosen,     \* the last language that was clicked on and not cancelled
    cancelled   \* TRUE when the selection has been cancelled since the start

catalogueVars == <<setting, asked, loaded, change>>
dialogVars == <<shown, command, action, slots, text, says>>
chooserVars == <<chooser, chosen, cancelled>>
languageVars == <<catalogueVars, dialogVars, chooserVars>>

(* The labels that are translated; cancelButton also stands for those that *)
(* only the .ui file sets.  pinTimeRemaining is left out: the next frame   *)
(* of the progress bar sets it in the language that is loaded then.        *)
Labels ==
    {"okButton", "cancelButton", "langButton", "messagePageTitleLabel", "connectCardLabel",
     "certificateButtons", "pinInputPageTitleLabel", "pinInputDescriptionLabel",
     "pinInputCertificateInfo", "pinTitleLabel", "pinErrorLabel", "lockedWarning",
     "aboutVersion"}

(* A message, with the number it is about.                                 *)
Msg(m) == [m |-> m, n |-> 0]
Counted(m, k) == [m |-> m, n |-> k]
Nothing == Msg("")

(* tr(): the translation in catalogue "l", or the source text.             *)
Tr(l, msg) ==
    IF l = Source \/ Catalogues[l].translations[msg.m] = 0
    THEN [msg |-> msg, in |-> Source, form |-> 1]
    ELSE [msg |-> msg, in |-> l,
          form |-> IF msg.m \in CountTexts THEN PluralForm(Catalogues[l].rule, msg.n) ELSE 1]

(* A label that has not been given a text to translate.                    *)
NoText == [msg |-> Nothing, in |-> Source, form |-> 1]

Closed == [open |-> FALSE, current |-> NoSetting, in |-> Source]

(* The texts of the .ui file that are translated; langButton is set beside *)
(* them in the constructor and in event().                                 *)
UiTexts == [okButton |-> "Confirm", cancelButton |-> "Cancel", langButton |-> "EN"]

(* What a new dialog is told, beside its .ui file: the version by the      *)
(* constructor, what else by showAboutPage and showFatalErrorPage.         *)
Told(kind) ==
    [b \in Labels |->
        CASE b = "aboutVersion" -> Msg("Version: %1")
          [] b = "okButton" /\ kind = "safari" -> Msg("Open Safari settings...")
          [] b = "messagePageTitleLabel" /\ kind = "fatal" -> Msg("Operation failed")
          [] OTHER -> Nothing]

(* What a label displays in the end, if it is told these things.           *)
Said(b, told) ==
    IF told[b] # Nothing THEN told[b]
    ELSE IF b \in DOMAIN UiTexts THEN Msg(UiTexts[b]) ELSE Nothing

In(l, told) == [b \in Labels |-> IF Said(b, told) = Nothing THEN NoText ELSE Tr(l, Said(b, told))]

-----------------------------------------------------------------------------
(* Plausible bug: the site's language goes before the user's.              *)
Best_SiteFirst(stored, lang) ==
    LET wanted == IF lang = NoSetting THEN stored ELSE lang IN
    IF wanted \in Supported THEN wanted
    ELSE IF SystemLanguage \in Supported THEN SystemLanguage ELSE Source

(* What loadTranslations(lang) finds: the stored language, or else "lang", *)
(* and the system's language if that is not supported.                     *)
Best(stored, lang) ==
    LET wanted == IF stored = NoSetting THEN lang ELSE stored IN
    IF wanted \in Supported THEN wanted
    ELSE IF SystemLanguage \in Supported THEN SystemLanguage ELSE Source

(* The translator drops its catalogue, which posts LanguageChange, and     *)
(* reads another one.                                                      *)
LoadTranslations(stored, lang) ==
    /\ loaded' = Best(stored, lang)
    /\ change' = change \cup {"application"}

LanguageInit ==
    /\ setting \in Offered \cup {NoSetting} /\ chosen = setting
    /\ asked = NoSetting /\ loaded = Source /\ change = {}
    /\ shown = "none" /\ command = "none" /\ action = "none" /\ slots = 0
    /\ text = [b \in Labels |-> NoText] /\ says = [b \in Labels |-> Nothing]
    /\ chooser = Closed /\ cancelled = FALSE

(* A new WebEidDialog, and what its OK button does.                        *)
NewDialog(kind, l) ==
    /\ shown' = IF kind = "safari" THEN "about" ELSE kind
    /\ action' = IF kind = "safari" THEN "settings" ELSE "none"
    /\ slots' = 0
    /\ text' = In(l, Told(kind)) /\ says' = Told(kind)

(* Application::Application.                                               *)
StartApplication ==
    /\ LoadTranslations(setting, NoSetting)
    /\ asked' = NoSetting /\ cancelled' = FALSE
    /\ UNCHANGED <<setting, dialogVars, chooser, chosen>>

(* CertificateReader::CertificateReader, and then createWindow.            *)
AskFor(lang, c) ==
    /\ asked' = lang
    /\ LoadTranslations(setting, lang)
    /\ NewDialog("command", loaded') /\ command' = c
    /\ UNCHANGED <<setting, chooserVars>>

(* The handler's constructor loads the language and then throws.           *)
AskInVain(lang) ==
    /\ asked' = lang
    /\ LoadTranslations(setting, lang)
    /\ NewDialog("fatal", loaded')
    /\ UNCHANGED <<setting, command, chooserVars>>

(* The dialog is deleted, and the selection of a language with it, which   *)
(* is not cancelled by that: the language that was clicked on stays.       *)
LeaveChooser ==
    /\ chooser' = Closed
    /\ chosen' = setting
    /\ UNCHANGED cancelled

NoDialog ==
    /\ shown' = "none" /\ command' = "none" /\ action' = "none" /\ slots' = 0
    /\ text' = [b \in Labels |-> NoText] /\ says' = [b \in Labels |-> Nothing]

(* Controller::disposeUI, when the command is over.                        *)
EndDialog ==
    /\ NoDialog /\ LeaveChooser
    /\ change' = change \ {"dialog"}
    /\ UNCHANGED <<setting, asked, loaded>>

(* A dialog in place of the last one, if there was one: the fatal error    *)
(* page, the about page, or the same command's for another attempt.        *)
AnotherDialog(kind) ==
    /\ NewDialog(kind, loaded) /\ LeaveChooser
    /\ change' = change \ {"dialog"}
    /\ UNCHANGED <<setting, asked, loaded, command>>

(* The process ends; only the settings remain.                             *)
EndApplication ==
    /\ NoDialog /\ LeaveChooser
    /\ asked' = NoSetting /\ loaded' = Source /\ change' = {}
    /\ UNCHANGED setting

-----------------------------------------------------------------------------
(* The slots of the dialog of a command, as far as they set texts.         *)

(* setTrText for each label that has a message in "new": the text now, and *)
(* again on each languageChange().                                         *)
SetTrText(new) ==
    LET told == {b \in DOMAIN new : new[b] # Nothing} IN
    /\ text' = [b \in Labels |-> IF b \in told THEN Tr(loaded, new[b]) ELSE text[b]]
    /\ says' = [b \in Labels |-> IF b \in told THEN new[b] ELSE says[b]]

Slot ==
    /\ shown = "command"
    /\ slots < MaxSlots /\ slots' = slots + 1
    /\ UNCHANGED <<catalogueVars, chooserVars, shown, command>>

(* onSmartCardStatusUpdate.                                                *)
StatusUpdate(e) ==
    /\ Slot
    /\ SetTrText([connectCardLabel |-> Msg(Retriable[e][1]),
                  messagePageTitleLabel |-> Msg(Retriable[e][2])])
    /\ UNCHANGED action

(* setupOK.                                                                *)
OkTexts == [confirm |-> "Confirm", retry |-> "Try again", settings |-> "Open Safari settings..."]

(* onRetryImpl: onRetry, onSigningCertificateMismatch, and a PIN pad that  *)
(* has failed.                                                             *)
RetryTexts(msg) ==
    [connectCardLabel |-> msg, messagePageTitleLabel |-> Msg("Operation failed"),
     okButton |-> Msg(OkTexts.retry)]

ReadingFailed(e) ==
    Slot /\ SetTrText(RetryTexts(Msg(Retriable[e][1]))) /\ action' = "retry"

CertificateMismatch ==
    Slot /\ SetTrText(RetryTexts(Msg("The certificate does not match"))) /\ action' = "retry"

(* setupWarning: the PIN of the card that has not been activated.          *)
Warning(inactive) ==
    CASE inactive = "pin1" -> Msg("Authentication and signing isn't possible yet")
      [] inactive = "pin2" -> Msg("Signing isn't possible yet")
      [] inactive = "none" -> Nothing

Active(inactive) == inactive = "none" \/ (inactive = "pin2" /\ command = "authenticate")

(* The certificates to choose from, or the only one to get, which is       *)
(* clicked on at once.                                                     *)
CertificatesReady(inactive) ==
    /\ Slot /\ command # "sign"
    /\ inactive # "none" => command = "get-signing-certificate"
    /\ SetTrText([certificateButtons |-> Msg("Valid until: %1%2"),
                  okButton |-> Msg(OkTexts.confirm), lockedWarning |-> Warning(inactive)])
    /\ action' = "confirm"

(* One of them is clicked on.                                              *)
ClickCertificate(inactive) ==
    /\ Slot /\ says["certificateButtons"] # Nothing
    /\ SetTrText([lockedWarning |-> Warning(inactive)])
    /\ UNCHANGED action

(* setupPinPrompt: the error of a PIN that was wrong before.               *)
WrongBefore(left) ==
    IF left = 0 THEN Nothing
    ELSE Counted("The PIN has been entered incorrectly at least once. %n attempts left.", left)

(* onSingleCertificateReady: what the PIN is asked for, and by which means *)
(* it is entered.                                                          *)
PinPage(prompt) ==
    LET Auth(a, b) == Msg(IF command = "authenticate" THEN a ELSE b) IN
    [pinInputCertificateInfo |->
         Msg(IF prompt = "blocked" THEN "Pin locked" ELSE "Valid until: %1%2"),
     pinInputPageTitleLabel |-> Auth("Authenticate", "Signing"),
     pinInputDescriptionLabel |-> Auth("By authenticating, I agree", "By signing, I agree"),
     pinTitleLabel |->
         IF prompt = "external"
         THEN Auth("Please enter PIN for authentication in the window that opens",
                   "Please enter PIN for signing in the window that opens")
         ELSE Auth("Enter PIN1 for authentication", "Enter PIN2 for signing"),
     okButton |->
         IF prompt \in {"keyboard", "external"} THEN Msg(OkTexts.confirm) ELSE Nothing]

PinPrompt(prompt, inactive, left) ==
    LET page == PinPage(prompt)
        asks == prompt \in {"keyboard", "pinpad"} IN
    [b \in DOMAIN page \cup {"lockedWarning", "pinErrorLabel"} |->
        CASE b = "lockedWarning" -> IF asks THEN Warning(inactive) ELSE Nothing
          [] b = "pinErrorLabel" ->
               IF prompt = "blocked" THEN Msg(PinFailure.PIN_BLOCKED)
               ELSE IF asks THEN WrongBefore(left) ELSE Nothing
          [] b = "pinTitleLabel" /\ prompt = "pinpad" /\ Active(inactive) ->
               Msg("Please enter %1 in PinPad reader")
          [] OTHER -> page[b]]

AskForPin(prompt, inactive, left) ==
    /\ Slot /\ command # "get-signing-certificate"
    /\ SetTrText(PinPrompt(prompt, inactive, left))
    /\ action' = IF prompt \in {"keyboard", "external"} THEN "confirm" ELSE action

(* onVerifyPinFailed; with the progress bar on show it goes on to          *)
(* onRetryImpl, unless the error is a fatal one.                           *)
FailureText(e, left) ==
    IF e = "RETRY_ALLOWED" /\ left # 0 THEN Counted("Incorrect PIN, %n attempts left.", left)
    ELSE Msg(PinFailure[e])

VerifyPinFailed(e, left) ==
    /\ Slot
    /\ SetTrText([pinErrorLabel |-> FailureText(e, left)])
    /\ UNCHANGED action

PinPadFailed(e, left) ==
    /\ Slot /\ e \notin {"PIN_BLOCKED", "UNKNOWN_ERROR"}
    /\ LET retry == RetryTexts(FailureText(e, left)) IN
       SetTrText([b \in DOMAIN retry \cup {"pinErrorLabel"} |->
                     IF b = "pinErrorLabel" THEN FailureText(e, left) ELSE retry[b]])
    /\ action' = "retry"

(* A new attempt, with a new dialog: Try again, or a card event while the  *)
(* selection of a language is open.                                        *)
NewAttempt == shown = "command" /\ AnotherDialog("command")

DialogStep ==
    \/ \E e \in CardErrors : StatusUpdate(e) \/ ReadingFailed(e)
    \/ CertificateMismatch \/ NewAttempt
    \/ \E inactive \in Inactive \cup {"none"} : CertificatesReady(inactive)
    \/ \E inactive \in Inactive :
           \/ ClickCertificate(inactive)
           \/ \E prompt \in Prompts, left \in Attempts : AskForPin(prompt, inactive, left)
    \/ \E e \in PinErrors, left \in Attempts :
           VerifyPinFailed(e, left) \/ PinPadFailed(e, left)

-----------------------------------------------------------------------------
(* LanguageChange.                                                         *)

(* QApplication posts it on to each window.                                *)
ChangeApplication ==
    /\ "application" \in change
    /\ change' = (change \ {"application"}) \cup (IF shown = "none" THEN {} ELSE {"dialog"})
    /\ UNCHANGED <<setting, asked, loaded, dialogVars, chooserVars>>

(* Plausible bug: languageChange() is emitted before retranslateUi().      *)
ChangeDialog_UiLast ==
    /\ "dialog" \in change
    /\ change' = change \ {"dialog"}
    /\ text' = [b \in Labels |->
                  IF b \in DOMAIN UiTexts THEN Tr(loaded, Msg(UiTexts[b])) ELSE In(loaded, says)[b]]
    /\ UNCHANGED <<setting, asked, loaded, shown, command, action, slots, says, chooserVars>>

(* WebEidDialog::event: retranslateUi(), then languageChange().            *)
ChangeDialog ==
    /\ "dialog" \in change
    /\ change' = change \ {"dialog"}
    /\ text' = In(loaded, says)
    /\ UNCHANGED <<setting, asked, loaded, shown, command, action, slots, says, chooserVars>>

ChangeStep == ChangeApplication \/ ChangeDialog

-----------------------------------------------------------------------------
(* LanguageSelect.                                                         *)

OpenChooser ==
    /\ shown # "none" /\ ~chooser.open
    /\ chooser' = [open |-> TRUE, current |-> setting, in |-> loaded]
    /\ UNCHANGED <<catalogueVars, dialogVars, chosen, cancelled>>

(* The language is stored, loaded and shown at once.                       *)
ClickLanguage(l) ==
    /\ chooser.open
    /\ setting' = l
    /\ LoadTranslations(l, NoSetting)
    /\ chooser' = [chooser EXCEPT !.in = loaded']
    /\ UNCHANGED <<asked, dialogVars, chosen, cancelled>>

(* Select, or Escape and the window's close button.                        *)
CloseChooser ==
    /\ chooser.open
    /\ LeaveChooser
    /\ UNCHANGED <<catalogueVars, dialogVars>>

(* Plausible bug: without a stored language there is nothing to restore.   *)
CancelChooser_KeepsFirst ==
    /\ chooser.open
    /\ setting' = IF chooser.current = NoSetting THEN setting ELSE chooser.current
    /\ LoadTranslations(setting', NoSetting)
    /\ chooser' = Closed /\ cancelled' = TRUE
    /\ UNCHANGED <<asked, dialogVars, chosen>>

(* Cancel: what was stored is stored again, or removed, and loaded.        *)
CancelChooser ==
    /\ chooser.open
    /\ setting' = chooser.current
    /\ LoadTranslations(setting', NoSetting)
    /\ chooser' = Closed /\ cancelled' = TRUE
    /\ UNCHANGED <<asked, dialogVars, chosen>>

ChooserStep ==
    OpenChooser \/ CloseChooser \/ CancelChooser \/ \E l \in Offered : ClickLanguage(l)

LanguageStep == DialogStep \/ ChangeStep \/ ChooserStep

-----------------------------------------------------------------------------
LanguageTypeOK ==
    /\ setting \in Supported \cup {NoSetting}
    /\ asked \in Requested \cup {NoSetting}
    /\ loaded \in Supported \cup {Source}
    /\ change \subseteq {"application", "dialog"}
    /\ shown \in {"none", "command", "about", "fatal"}
    /\ command \in Commands \cup {"none"}
    /\ action \in {"none", "confirm", "retry", "settings"}
    /\ slots \in 0 .. MaxSlots
    /\ DOMAIN text = Labels /\ DOMAIN says = Labels
    /\ \A b \in Labels : text[b].in \in Supported \cup {Source}
    /\ chooser.open \in BOOLEAN
    /\ chooser.current \in Supported \cup {NoSetting}
    /\ chosen \in Supported \cup {NoSetting}
    /\ cancelled \in BOOLEAN

(* Once LanguageChange has been handled every label is in the language     *)
(* that is loaded and still says what it said before, with its number, and *)
(* the OK button is named for what it does (webeiddialog.cpp:450 event,    *)
(* 485 setTrText).  The selection of a language does not wait for the      *)
(* event (languageselect.cpp:34).                                          *)
ScreenIsTranslated ==
    /\ shown # "none" /\ change = {} =>
         /\ text = In(loaded, says)
         /\ action # "none" => text["okButton"] = Tr(loaded, Msg(OkTexts[action]))
    /\ chooser.open => chooser.in = loaded

(* The dialog is in the language that the user has stored, through every   *)
(* click in the selection and whatever the web site asks for.  Without a   *)
(* stored one README.md:152 holds, "If translations exist for the given    *)
(* language, then the user interface will be displayed in this language",  *)
(* unless the selection has been cancelled, which loads the system's       *)
(* language whatever was asked for.                                        *)
RightLanguageIsShown ==
    shown # "none" =>
        /\ setting # NoSetting => loaded = setting
        /\ setting = NoSetting /\ asked \in Supported /\ ~cancelled => loaded = asked

(* Cancelling leaves the stored language as it was before the selection    *)
(* was opened, after any number of clicks; any other way to end it keeps   *)
(* the language that was clicked on, for the next start too.               *)
ChoiceIsKept == ~chooser.open => setting = chosen
=============================================================================
