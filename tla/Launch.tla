------------------------------- MODULE Launch -------------------------------
(***************************************************************************)
(* Runs of the program one after the other: NativeMessaging and Language   *)
(* composed.  They share the start of the process, the request whose       *)
(* "lang" argument the command handler loads before its other arguments    *)
(* are checked, the dialog of the command, the about page and the fatal    *)
(* error page, and the end of the process, which only the stored language  *)
(* survives.                                                               *)
(***************************************************************************)
EXTENDS Language, NativeMessaging

vars == <<languageVars, channelVars>>

Langs == Requested \cup {NoSetting}

Init == LanguageInit /\ ChannelInit

StartUp == \E s \in Starts : StartProcess(s) /\ StartApplication

(* A step after which the process may be gone.                             *)
Unless(other) == IF process' = "off" THEN EndApplication ELSE other

(* ParseArgs, which may end the process or open the about page.            *)
Main ==
    /\ ParseArgs
    /\ Unless(IF process' = "about" THEN AnotherDialog("about") \/ AnotherDialog("safari")
              ELSE UNCHANGED languageVars)

Browser ==
    /\ BrowserCloses \/ \E m \in Messages : BrowserWrites(m)
    /\ UNCHANGED languageVars

(* The handler's constructor: an origin that is not accepted comes before  *)
(* the language, the other arguments after it.                             *)
Read ==
    \/ ReadQuit /\ Unless(UNCHANGED languageVars)
    \/ ReadFails /\ AnotherDialog("fatal")
    \/ (ReadCommand("wrongOrigin") \/ LineCommand("wrongOrigin")) /\ AnotherDialog("fatal")
    \/ /\ ReadCommand("wrongOther") \/ LineCommand("wrongOther")
       /\ \E lang \in Langs : AskInVain(lang)
    \/ /\ ReadCommand("valid") \/ LineCommand("valid")
       /\ \E lang \in Langs, c \in Commands : AskFor(lang, c)

(* The response; the dialog goes before it is written, or with the process.*)
Answer ==
    \/ (\E r \in {"success", "cancelled"} : Respond(r)) /\ Unless(EndDialog)
    \/ Fail /\ AnotherDialog("fatal")
    \/ CloseFatal /\ Unless(EndDialog)

(* What comes behind it.  The dialog of another attempt that a card event  *)
(* starts there is left out, and so is a second fatal error dialog over    *)
(* the first one.                                                          *)
Late ==
    \/ (\E r \in {"success", "cancelled"} : LateResponse(r)) /\ Unless(UNCHANGED languageVars)
    \/ LateFailure /\ AnotherDialog("fatal")
    \/ LateFailureOverFatal /\ Unless(UNCHANGED languageVars)

Help == ClickHelp /\ UNCHANGED languageVars
CloseAboutPage == CloseAbout /\ EndDialog
Quit == Leave /\ EndApplication

(* The dialog and the events it waits for, while there is one.             *)
Show == DialogStep /\ UNCHANGED channelVars
Choose == ChooserStep /\ UNCHANGED channelVars
ChangeApplicationEvent ==
    ChangeApplication /\ process \in {"serving", "fatal", "about"} /\ UNCHANGED channelVars
ChangeDialogEvent == ChangeDialog /\ UNCHANGED channelVars

Next ==
    \/ StartUp \/ Main \/ Browser \/ Read \/ Answer \/ Late
    \/ Help \/ CloseAboutPage \/ Quit
    \/ Show \/ Choose \/ ChangeApplicationEvent \/ ChangeDialogEvent

Spec == Init /\ [][Next]_vars

(* The program goes on by itself and a browser that writes nothing closes  *)
(* its end; the command comes to an end, whatever the user does in         *)
(* between, and what is left on the screen is closed.                      *)
Proceed ==
    \/ Main \/ Read \/ CloseAboutPage \/ Quit
    \/ BrowserCloses /\ UNCHANGED languageVars

FairSpec ==
    /\ Spec
    /\ WF_channelVars(Proceed) /\ SF_process(Answer)

TypeOK == LanguageTypeOK /\ ChannelTypeOK
=============================================================================
