---------------------------- MODULE Translations ----------------------------
(***************************************************************************)
(* The translation catalogues (src/src/ui/translations), one definition    *)
(* for each file: how many translations it has for each message of the     *)
(* dialog, the certificate widgets and the selection of a language.  It is *)
(* none for an unfinished message, for which tr() returns the English      *)
(* source text, one as a rule, and one for each plural form of a message   *)
(* with a number.  Messages are named by the beginning of their source     *)
(* text; the wording of translations is left out.                          *)
(***************************************************************************)
EXTENDS Naturals

(* Application::loadTranslations, SUPPORTED_LANGS.                         *)
Supported == {"en", "et", "fi", "hr", "ru", "de", "fr", "nl", "cs", "sk"}

(* What retriableErrorToTextTitleAndIcon() finds for an error.             *)
StatusTexts ==
    {"The smart card service is not running", "Card reader not connected",
     "ID-card not found", "The ID-card was removed", "Operation failed. Make sure",
     "Connection failed", "The desired operation cannot be performed",
     "Error communicating with the card", "Card driver error. Please try again",
     "An error occurred in the Smart Card service", "The card is not supported",
     "No certificate for the operation", "Operation failed. Make sure of the driver",
     "Unknown error"}
StatusTitles ==
    {"Launch the Smart Card service", "Connect the card reader", "Insert the ID-card",
     "Check the ID-card and the reader connection", "Operation not supported",
     "Operation failed", "Card driver error", "Unknown error"}

(* The prompt for a PIN, and what may be wrong with it.                    *)
PromptTexts ==
    {"Authenticate", "Signing", "By authenticating, I agree", "By signing, I agree",
     "Enter PIN1 for authentication", "Enter PIN2 for signing",
     "Please enter PIN for authentication in the window that opens",
     "Please enter PIN for signing in the window that opens",
     "Please enter %1 in PinPad reader", "PIN1 for authentication", "PIN2 for signing",
     "Time remaining: %1"}
CountTexts ==
    {"Incorrect PIN, %n attempts left.",
     "The PIN has been entered incorrectly at least once. %n attempts left."}
PinTexts ==
    {"Incorrect PIN.", "PIN is locked. Unblock and try again.", "Invalid PIN length",
     "PinPad timed out", "PIN entry cancelled.", "PIN entry disabled", "Technical error",
     "The certificate does not match"} \cup CountTexts

(* The warning about a card that has not been activated.                   *)
LockedTexts == {"Authentication and signing isn't possible yet", "Signing isn't possible yet"}

(* The rest of the dialog: buttons, titles, the about page, the fatal      *)
(* error page.                                                             *)
FrameTexts ==
    {"Waiting for card", "Select a certificate", "By choosing the certificate, I agree",
     "Select another certificate", "Confirm", "Cancel", "Try again", "Help", "How to check",
     "Operation failed. More detailed information", "Get help here", "Version: %1",
     "Web eID extension is disabled", "This is a companion application", "About Web eID",
     "Open Safari settings...", "EN", "English"}

DialogTexts == StatusTexts \cup StatusTitles \cup PromptTexts \cup PinTexts \cup LockedTexts \cup FrameTexts
CertificateTexts ==
    {" (Not effective)", " (Expired)", "Issuer: %1", "Valid until: %1%2", "Pin locked"}
SelectTexts == {"Select language", "Select", "Cancel"}

Texts == DialogTexts \cup CertificateTexts \cup SelectTexts

(* The plural rules by which QTranslator picks the form for n.             *)
PluralForm(rule, n) ==
    CASE rule = "one" -> IF n = 1 THEN 1 ELSE 2
      [] rule = "french" -> IF n <= 1 THEN 1 ELSE 2
      [] rule = "czech" -> IF n = 1 THEN 1 ELSE IF n \in 2 .. 4 THEN 2 ELSE 3
      [] rule = "russian" ->
           IF n % 10 = 1 /\ n % 100 # 11 THEN 1
           ELSE IF n % 10 \in 2 .. 4 /\ n % 100 \notin 12 .. 14 THEN 2 ELSE 3

(* "forms" translations of each message with a number, and one of the      *)
(* others, but for the unfinished ones.                                    *)
Translated(forms, unfinished) ==
    [m \in Texts |-> IF m \in unfinished THEN 0 ELSE IF m \in CountTexts THEN forms ELSE 1]

cs == [rule |-> "czech", translations |-> Translated(3, LockedTexts)]
de == [rule |-> "one", translations |-> Translated(2, LockedTexts)]
en == [rule |-> "one", translations |-> Translated(2, {})]
et == [rule |-> "one", translations |-> Translated(2, {})]
fi == [rule |-> "one", translations |-> Translated(2, LockedTexts)]
fr == [rule |-> "french", translations |-> Translated(2, LockedTexts)]
hr == [rule |-> "russian", translations |-> Translated(3, LockedTexts)]
nl == [rule |-> "one", translations |-> Translated(2, LockedTexts)]
ru == [rule |-> "russian", translations |-> Translated(3, {})]
sk == [rule |-> "czech", translations |-> Translated(3, LockedTexts)]

(* The catalogue that is found for a language.                             *)
Catalogues == [cs |-> cs, de |-> de, en |-> en, et |-> et, fi |-> fi,
               fr |-> fr, hr |-> hr, nl |-> nl, ru |-> ru, sk |-> sk]
=============================================================================
