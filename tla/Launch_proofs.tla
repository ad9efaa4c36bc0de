--------------------------- MODULE Launch_proofs ---------------------------
(***************************************************************************)
(* Proofs about runs of the program, for any languages, requests, ways to  *)
(* start it, failures of the help button and signals behind the response:  *)
(* the user's choice of a language is kept and shown, every text on the    *)
(* screen follows it, the browser reads nothing but frames, and a run does *)
(* not end without an answer while somebody reads it.                      *)
(***************************************************************************)
EXTENDS Launch, TLAPS

(* The plural rules name a form that the catalogue has, for every number   *)
(* (translations, numerusform).                                            *)
THEOREM EveryNumberHasItsForm ==
    \A l \in Supported, m \in CountTexts, n \in Nat :
        PluralForm(Catalogues[l].rule, n) \in 1 .. Catalogues[l].translations[m]
<1> SUFFICES ASSUME NEW l \in Supported, NEW m \in CountTexts, NEW n \in Nat
             PROVE  PluralForm(Catalogues[l].rule, n) \in 1 .. Catalogues[l].translations[m]
  OBVIOUS
<1>1. \A r \in {"one", "french"} : PluralForm(r, n) \in 1 .. 2
  BY DEF PluralForm
<1>2. \A r \in {"czech", "russian"} : PluralForm(r, n) \in 1 .. 3
  BY DEF PluralForm
<1>3. m \in Texts /\ m \notin LockedTexts
  BY DEF Texts, DialogTexts, PinTexts, CountTexts, LockedTexts
<1>4. /\ \A forms : Translated(forms, {})[m] = forms
      /\ \A forms : Translated(forms, LockedTexts)[m] = forms
  BY <1>3 DEF Translated
<1>5. CASE l \in {"de", "en", "et", "fi", "fr", "nl"}
  <2>1. /\ Catalogues[l].rule \in {"one", "french"}
        /\ \/ Catalogues[l].translations = Translated(2, {})
           \/ Catalogues[l].translations = Translated(2, LockedTexts)
    BY <1>5 DEF Catalogues, de, en, et, fi, fr, nl
  <2> QED
    BY <1>1, <1>4, <2>1
<1>6. CASE l \in {"cs", "sk", "hr", "ru"}
  <2>1. /\ Catalogues[l].rule \in {"czech", "russian"}
        /\ \/ Catalogues[l].translations = Translated(3, {})
           \/ Catalogues[l].translations = Translated(3, LockedTexts)
    BY <1>6 DEF Catalogues, cs, sk, hr, ru
  <2> QED
    BY <1>2, <1>4, <2>1
<1> QED
  BY <1>5, <1>6 DEF Supported

-----------------------------------------------------------------------------
(* The stored language: it is a supported one, it or else the requested    *)
(* one is loaded while the program runs, with a dialog or without, and an  *)
(* open selection is in that language and remembers what was chosen        *)
(* before.  Before a request has been read there is only the about page,   *)
(* and without a dialog there is no selection.                             *)
RightLoaded ==
    /\ setting # NoSetting => loaded = setting
    /\ setting = NoSetting /\ asked \in Supported /\ ~cancelled => loaded = asked

Opened ==
    /\ process \in {"off", "main", "reading"} => shown = "none"
    /\ shown = "none" => ~chooser.open

ChooserFollows == chooser.open => chooser.in = loaded /\ chooser.current = chosen

LanguageInv ==
    /\ setting \in Supported \cup {NoSetting}
    /\ chooser.current \in Supported \cup {NoSetting}
    /\ chooser = [open |-> chooser.open, current |-> chooser.current, in |-> chooser.in]
    /\ process # "off" => RightLoaded
    /\ Opened
    /\ ChooserFollows
    /\ ChoiceIsKept

LEMMA StoredIsBest ==
    ASSUME NEW stored \in Supported, NEW lang
    PROVE  Best(stored, lang) = stored
BY DEF Best, NoSetting, Supported

LEMMA RequestedIsBest ==
    ASSUME NEW lang \in Supported
    PROVE  Best(NoSetting, lang) = lang
BY DEF Best, NoSetting, Supported

LEMMA LanguageInitInv == Init => LanguageInv
BY Choices DEF Init, LanguageInit, ChannelInit, LanguageInv, Closed, Opened, ChooserFollows,
   ChoiceIsKept

(* A catalogue is loaded, and the setting is what "stored" says.           *)
LEMMA LoadInv ==
    ASSUME LanguageInv, NEW stored \in Supported \cup {NoSetting}, NEW lang,
           LoadTranslations(stored, lang), setting' = stored
    PROVE  setting' # NoSetting => loaded' = setting'
BY StoredIsBest DEF LoadTranslations

(* The selection of a language goes with the dialog.                       *)
LEMMA LeaveChooserInv ==
    ASSUME LanguageInv, LeaveChooser, UNCHANGED setting, Opened',
           process' = "off" \/ (process # "off" /\ UNCHANGED <<loaded, asked>>)
    PROVE  LanguageInv'
<1>1. chooser' = Closed /\ chosen' = setting /\ cancelled' = cancelled
  BY DEF LeaveChooser
<1>2. process' # "off" => RightLoaded'
  BY <1>1 DEF LanguageInv, RightLoaded
<1> QED
  BY <1>1, <1>2 DEF LanguageInv, Closed, ChooserFollows, ChoiceIsKept

LEMMA EndApplicationInv ==
    ASSUME LanguageInv, EndApplication, process' = "off"
    PROVE  LanguageInv'
<1>1. LeaveChooser /\ UNCHANGED setting /\ shown' = "none" /\ ~chooser'.open
  BY DEF EndApplication, NoDialog, LeaveChooser, Closed
<1>2. Opened'
  BY <1>1 DEF Opened
<1> QED
  BY <1>1, <1>2, LeaveChooserInv

LEMMA EndDialogInv ==
    ASSUME LanguageInv, EndDialog, process # "off"
    PROVE  LanguageInv'
<1>1. /\ LeaveChooser /\ UNCHANGED <<setting, loaded, asked>>
      /\ shown' = "none" /\ ~chooser'.open
  BY DEF EndDialog, NoDialog, LeaveChooser, Closed
<1>2. Opened'
  BY <1>1 DEF Opened
<1> QED
  BY <1>1, <1>2, LeaveChooserInv

LEMMA AnotherDialogInv ==
    ASSUME LanguageInv, NEW kind \in {"command", "fatal", "about", "safari"}, AnotherDialog(kind),
           process # "off", process' \in {"serving", "fatal", "about", "leaving"}
    PROVE  LanguageInv'
<1>1. /\ LeaveChooser /\ UNCHANGED <<setting, loaded, asked>> /\ ~chooser'.open
  BY DEF AnotherDialog, LeaveChooser, Closed
<1>2. Opened'
  BY <1>1 DEF Opened
<1> QED
  BY <1>1, <1>2, LeaveChooserInv

(* The language is loaded when the application starts and when a command's *)
(* arguments are read.                                                     *)
LEMMA LoadedInv ==
    ASSUME LanguageInv, NEW lang, LoadTranslations(setting, lang), asked' = lang,
           UNCHANGED <<setting, chooser, chosen>>, ~chooser.open, Opened'
    PROVE  LanguageInv'
<1>1. setting' # NoSetting => loaded' = setting'
  BY LoadInv DEF LanguageInv
<1>2. setting' = NoSetting /\ lang \in Supported => loaded' = lang
  BY RequestedIsBest DEF LoadTranslations
<1>3. RightLoaded'
  BY <1>1, <1>2 DEF RightLoaded
<1> QED
  BY <1>3 DEF LanguageInv, ChooserFollows, ChoiceIsKept

LEMMA SameLanguageInv ==
    ASSUME LanguageInv, UNCHANGED <<setting, loaded, asked, shown, chooserVars>>,
           process' # "off" => process # "off",
           process' \in {"off", "main", "reading"} =>
               process \in {"off", "main", "reading"} \/ shown = "none"
    PROVE  LanguageInv'
<1> USE DEF chooserVars
<1>1. process' # "off" => RightLoaded'
  BY DEF LanguageInv, RightLoaded
<1>2. Opened'
  BY DEF LanguageInv, Opened
<1> QED
  BY <1>1, <1>2 DEF LanguageInv, ChooserFollows, ChoiceIsKept

(* Every slot but NewAttempt leaves the language alone.                    *)
LEMMA SlotStep ==
    ASSUME DialogStep, ~NewAttempt
    PROVE  Slot
BY DEF DialogStep, StatusUpdate, ReadingFailed, CertificateMismatch, CertificatesReady,
   ClickCertificate, AskForPin, VerifyPinFailed, PinPadFailed

LEMMA DialogInv ==
    ASSUME LanguageInv, DialogStep, UNCHANGED process
    PROVE  LanguageInv'
<1>1. CASE NewAttempt
  <2>1. AnotherDialog("command") /\ process \notin {"off", "main", "reading"}
    BY <1>1 DEF NewAttempt, LanguageInv, Opened
  <2>2. LeaveChooser /\ UNCHANGED <<setting, loaded, asked>> /\ ~chooser'.open
    BY <2>1 DEF AnotherDialog, LeaveChooser, Closed
  <2>3. Opened'
    BY <2>1, <2>2 DEF Opened
  <2> QED
    BY <2>1, <2>2, <2>3, LeaveChooserInv
<1>2. CASE ~NewAttempt
  <2>1. UNCHANGED <<setting, loaded, asked, shown, chooserVars>>
    BY <1>2, SlotStep DEF Slot, catalogueVars
  <2> QED
    BY <2>1, SameLanguageInv
<1> QED
  BY <1>1, <1>2

LEMMA ChooserInv ==
    ASSUME LanguageInv, ChooserStep, UNCHANGED process
    PROVE  LanguageInv'
<1>0. shown # "none" /\ process # "off" /\ UNCHANGED shown
  <2>1. shown # "none"
    BY DEF LanguageInv, Opened, ChooserStep, OpenChooser, CloseChooser, CancelChooser,
       ClickLanguage
  <2> QED
    BY <2>1 DEF LanguageInv, Opened, ChooserStep, OpenChooser, CloseChooser, CancelChooser,
       ClickLanguage, dialogVars
<1>o. Opened'
  BY <1>0 DEF LanguageInv, Opened
<1>1. CASE OpenChooser
  <2>1. /\ ~chooser.open /\ chooser' = [open |-> TRUE, current |-> setting, in |-> loaded]
        /\ UNCHANGED <<setting, loaded, asked, chosen, cancelled>>
    BY <1>1 DEF OpenChooser, catalogueVars
  <2> QED
    BY <1>0, <1>o, <2>1 DEF LanguageInv, RightLoaded, ChooserFollows, ChoiceIsKept
<1>2. CASE CloseChooser
  <2>1. LeaveChooser /\ UNCHANGED <<setting, loaded, asked>>
    BY <1>2 DEF CloseChooser, catalogueVars
  <2> QED
    BY <1>0, <1>o, <2>1, LeaveChooserInv
<1>3. CASE CancelChooser
  <2>1. /\ chooser.open /\ setting' = chooser.current /\ LoadTranslations(setting', NoSetting)
        /\ chooser' = Closed /\ cancelled' = TRUE /\ UNCHANGED chosen
    BY <1>3 DEF CancelChooser
  <2>2. setting' \in Supported \cup {NoSetting} /\ setting' = chosen
    BY <2>1 DEF LanguageInv, ChooserFollows
  <2>3. setting' # NoSetting => loaded' = setting'
    BY <2>1, <2>2, LoadInv
  <2> QED
    BY <1>o, <2>1, <2>2, <2>3 DEF LanguageInv, Closed, RightLoaded, ChooserFollows, ChoiceIsKept
<1>4. CASE \E l \in Offered : ClickLanguage(l)
  <2>1. PICK l \in Offered : ClickLanguage(l)
    BY <1>4
  <2>2. /\ chooser.open /\ setting' = l /\ LoadTranslations(l, NoSetting)
        /\ chooser' = [chooser EXCEPT !.in = loaded'] /\ UNCHANGED chosen
    BY <2>1 DEF ClickLanguage
  <2>3. l \in Supported
    BY Choices
  <2>4. setting' # NoSetting => loaded' = setting'
    BY <2>2, <2>3, LoadInv
  <2>5. /\ chooser'.open = chooser.open /\ chooser'.current = chooser.current
        /\ chooser'.in = loaded'
        /\ chooser' = [open |-> chooser'.open, current |-> chooser'.current, in |-> chooser'.in]
    BY <2>2 DEF LanguageInv
  <2>6. setting' # NoSetting
    BY <2>2, <2>3 DEF Supported, NoSetting
  <2>7. RightLoaded' /\ ChooserFollows' /\ ChoiceIsKept'
    BY <2>2, <2>4, <2>5, <2>6 DEF LanguageInv, RightLoaded, ChooserFollows, ChoiceIsKept
  <2> QED
    BY <1>o, <2>2, <2>3, <2>5, <2>7 DEF LanguageInv
<1> QED
  BY <1>1, <1>2, <1>3, <1>4 DEF ChooserStep

(* Where the process goes.                                                 *)
LEMMA WhereMainGoes ==
    ParseArgs => process = "main" /\ process' \in {"off", "about", "reading"}
BY DEF ParseArgs, Write

LEMMA WhereReadGoes ==
    /\ ReadQuit => process = "reading" /\ process' \in {"off", "leaving"}
    /\ ReadFails => process = "reading" /\ process' = "fatal"
    /\ \A a : ReadCommand(a) \/ LineCommand(a) =>
         process = "reading" /\ process' = (IF a = "valid" THEN "serving" ELSE "fatal")
BY DEF ReadQuit, ReadFails, ReadCommand, LineCommand, MessageRead, Write

LEMMA WhereAnswerGoes ==
    /\ \A r : Respond(r) => process = "serving" /\ process' \in {"off", "leaving"}
    /\ Fail => process = "serving" /\ process' = "fatal"
    /\ CloseFatal => process = "fatal" /\ process' \in {"off", "leaving"}
    /\ \A r : LateResponse(r) =>
         process \in {"fatal", "leaving"} /\ process' \in {"off", process}
    /\ LateFailure => process = "leaving" /\ process' = "fatal"
    /\ LateFailureOverFatal => process = "fatal" /\ process' \in {"off", "fatal"}
BY DEF Respond, Fail, CloseFatal, LateResponse, LateFailure, LateFailureOverFatal, Write

LEMMA ReadLanguageInv ==
    ASSUME LanguageInv, Read
    PROVE  LanguageInv'
<1>0. process = "reading" /\ shown = "none" /\ ~chooser.open
  BY WhereReadGoes DEF Read, LanguageInv, Opened
<1>1. CASE ReadQuit /\ Unless(UNCHANGED languageVars)
  <2>1. CASE process' = "off"
    BY <1>1, <2>1, EndApplicationInv DEF Unless
  <2>2. CASE process' # "off"
    <3>1. process' = "leaving" /\ UNCHANGED languageVars
      BY <1>1, <2>2, WhereReadGoes DEF Unless
    <3> QED
      BY <1>0, <3>1, SameLanguageInv DEF languageVars, catalogueVars, dialogVars
  <2> QED
    BY <2>1, <2>2
<1>2. CASE process' = "fatal" /\ AnotherDialog("fatal")
  BY <1>0, <1>2, AnotherDialogInv
<1>3. ASSUME NEW lang, AskInVain(lang), process' = "fatal" PROVE LanguageInv'
  <2>1. /\ LoadTranslations(setting, lang) /\ asked' = lang /\ UNCHANGED <<setting, chooserVars>>
    BY <1>3 DEF AskInVain
  <2>2. Opened'
    BY <1>0, <1>3, <2>1 DEF Opened, chooserVars
  <2> QED
    BY <1>0, <2>1, <2>2, LoadedInv DEF chooserVars
<1>4. ASSUME NEW lang, NEW c, AskFor(lang, c), process' = "serving" PROVE LanguageInv'
  <2>1. /\ LoadTranslations(setting, lang) /\ asked' = lang /\ UNCHANGED <<setting, chooserVars>>
    BY <1>4 DEF AskFor
  <2>2. Opened'
    BY <1>0, <1>4, <2>1 DEF Opened, chooserVars
  <2> QED
    BY <1>0, <2>1, <2>2, LoadedInv DEF chooserVars
<1> QED
  BY <1>1, <1>2, <1>3, <1>4, WhereReadGoes DEF Read

LEMMA AnswerLanguageInv ==
    ASSUME LanguageInv, Answer \/ Late
    PROVE  LanguageInv'
<1>1. CASE process' = "off"
  <2>1. EndApplication
    BY <1>1, WhereAnswerGoes DEF Answer, Late, Unless
  <2> QED
    BY <1>1, <2>1, EndApplicationInv
<1>2. CASE process' # "off"
  <2>1. /\ process \notin {"off", "main", "reading"} /\ process' \in {"fatal", "leaving"}
        /\ AnotherDialog("fatal") \/ EndDialog \/ UNCHANGED languageVars
    BY <1>2, WhereAnswerGoes DEF Answer, Late, Unless
  <2> QED
    BY <2>1, AnotherDialogInv, EndDialogInv, SameLanguageInv
       DEF languageVars, catalogueVars, dialogVars
<1> QED
  BY <1>1, <1>2

LEMMA LanguageStepInv == LanguageInv /\ [Next]_vars => LanguageInv'
<1> SUFFICES ASSUME LanguageInv, [Next]_vars PROVE LanguageInv'
  OBVIOUS
<1>s. ASSUME UNCHANGED languageVars,
             process' # "off" => process # "off",
             process' \in {"off", "main", "reading"} => process \in {"off", "main", "reading"}
      PROVE  LanguageInv'
  BY <1>s, SameLanguageInv DEF languageVars, catalogueVars, dialogVars
<1>1. CASE StartUp
  <2>1. /\ process = "off" /\ process' = "main"
        /\ LoadTranslations(setting, NoSetting) /\ asked' = NoSetting
        /\ UNCHANGED <<setting, dialogVars, chooser, chosen>>
    BY <1>1 DEF StartUp, StartProcess, StartApplication
  <2>2. ~chooser.open /\ Opened'
    BY <2>1 DEF LanguageInv, Opened, dialogVars
  <2> QED
    BY <2>1, <2>2, LoadedInv
<1>2. CASE Main
  <2>0. process = "main" /\ process' \in {"off", "about", "reading"}
    BY <1>2, WhereMainGoes DEF Main
  <2>1. CASE process' = "off"
    BY <1>2, <2>1, EndApplicationInv DEF Main, Unless
  <2>2. CASE process' = "about"
    BY <1>2, <2>0, <2>2, AnotherDialogInv DEF Main, Unless
  <2>3. CASE process' = "reading"
    BY <1>2, <1>s, <2>0, <2>3 DEF Main, Unless
  <2> QED
    BY <2>0, <2>1, <2>2, <2>3
<1>3. CASE Read
  BY <1>3, ReadLanguageInv
<1>4. CASE Answer \/ Late
  BY <1>4, AnswerLanguageInv
<1>5. CASE CloseAboutPage
  BY <1>5, EndDialogInv DEF CloseAboutPage, CloseAbout
<1>6. CASE Quit
  BY <1>6, EndApplicationInv DEF Quit, Leave
<1>7. CASE Show
  BY <1>7, DialogInv DEF Show, channelVars
<1>8. CASE Choose
  BY <1>8, ChooserInv DEF Choose, channelVars
<1>9. CASE ChangeApplicationEvent \/ ChangeDialogEvent
  <2>1. UNCHANGED <<setting, loaded, asked, shown, chooserVars, process>>
    BY <1>9 DEF ChangeApplicationEvent, ChangeDialogEvent, ChangeApplication, ChangeDialog,
       dialogVars, channelVars
  <2> QED
    BY <2>1, SameLanguageInv
<1>10. CASE Browser
  BY <1>s, <1>10 DEF Browser, BrowserCloses, BrowserWrites
<1>11. CASE Help
  BY <1>s, <1>11 DEF Help, ClickHelp
<1>12. CASE UNCHANGED vars
  BY <1>s, <1>12 DEF vars, channelVars
<1> QED
  BY <1>1, <1>2, <1>3, <1>4, <1>5, <1>6, <1>7, <1>8, <1>9, <1>10, <1>11, <1>12 DEF Next

LEMMA LanguageInvariance == Spec => []LanguageInv
BY LanguageInitInv, LanguageStepInv, PTL DEF Spec

(* The language the user has stored is shown, whatever web sites ask for,  *)
(* through every selection, cancellation and restart, and without one the  *)
(* language that is asked for (application.cpp:98 loadTranslations).       *)
THEOREM RightLanguageIsAlwaysShown == Spec => []RightLanguageIsShown
<1>1. LanguageInv => RightLanguageIsShown
  BY DEF LanguageInv, Opened, RightLoaded, RightLanguageIsShown
<1> QED
  BY <1>1, LanguageInvariance, PTL

(* The choice of the user is what is stored once the selection is closed,  *)
(* and Cancel undoes any number of clicks (languageselect.cpp:37).         *)
THEOREM ChoiceIsAlwaysKept == Spec => []ChoiceIsKept
<1>1. LanguageInv => ChoiceIsKept
  BY DEF LanguageInv
<1> QED
  BY <1>1, LanguageInvariance, PTL

-----------------------------------------------------------------------------
(* The channel.                                                            *)

LEMMA FrameIsAnItem ==
    ASSUME NEW w \in Answers \cup {"version"}
    PROVE  Frame(w) \in Items /\ Frame(w).what = w /\ Frame(w).framed = (start = "stdin")
BY DEF Frame, Items, Answers

LEMMA WordsAreAnswers == {"success", "cancelled", "fatal", "quit"} \subseteq Answers
BY DEF Answers

LEMMA WriteType ==
    ASSUME ChannelTypeOK, NEW w \in Answers \cup {"version"}, NEW next, Write(<<Frame(w)>>, next)
    PROVE  /\ process' \in {"off", next}
           /\ output' \in Seq(Items)
           /\ exit' \in {"none", "0", "-1", "killed"}
<1>1. Frame(w) \in Items
  BY FrameIsAnItem
<1>2. output \o <<Frame(w)>> \in Seq(Items)
  BY <1>1 DEF ChannelTypeOK
<1> QED
  BY <1>2 DEF Write, ChannelTypeOK

LEMMA ChannelStepType == ChannelTypeOK /\ [Next]_vars => ChannelTypeOK'
<1> SUFFICES ASSUME ChannelTypeOK, [Next]_vars PROVE ChannelTypeOK'
  OBVIOUS
<1>i. NoInput \in [closed : BOOLEAN, message : Messages \cup {NoMessage}, written : BOOLEAN]
  BY DEF NoInput
<1>l. late \in 0 .. MaxLate /\ MaxLate \in Nat
  BY ChannelInputs DEF ChannelTypeOK
<1>d. late > 0 => late - 1 \in 0 .. MaxLate
  BY <1>l
<1>1. CASE UNCHANGED channelVars
  BY <1>1 DEF channelVars, ChannelTypeOK
<1>2. CASE StartUp
  <2>1. PICK s \in Starts : StartProcess(s)
    BY <1>2 DEF StartUp
  <2>2. process' = "main" /\ exit' = "none" /\ stdout' = "browser" /\ spoilt' = FALSE
    BY <2>1 DEF StartProcess
  <2>3. output' \in Seq(Items) /\ late' \in 0 .. MaxLate
    BY <1>l, <2>1 DEF StartProcess
  <2>4. /\ input' \in [closed : BOOLEAN, message : Messages \cup {NoMessage}, written : BOOLEAN]
        /\ start' \in Starts
    BY <1>i, <2>1 DEF StartProcess
  <2> QED
    BY <2>2, <2>3, <2>4 DEF ChannelTypeOK
<1>3. CASE Main
  <2>1. ParseArgs
    BY <1>3 DEF Main
  <2>2. CASE Write(<<Frame("version")>>, "reading")
    BY <2>1, <2>2, WriteType DEF ParseArgs, ChannelTypeOK
  <2>3. CASE ~Write(<<Frame("version")>>, "reading")
    BY <2>1, <2>3 DEF ParseArgs, ChannelTypeOK
  <2> QED
    BY <2>2, <2>3
<1>4. CASE Browser
  <2>1. CASE BrowserCloses
    BY <2>1 DEF BrowserCloses, ChannelTypeOK
  <2>2. ASSUME NEW m \in Messages, BrowserWrites(m) PROVE ChannelTypeOK'
    BY <2>2 DEF BrowserWrites, ChannelTypeOK
  <2> QED
    BY <1>4, <2>1, <2>2 DEF Browser
<1>5. CASE Read
  <2>1. CASE ReadQuit
    <3>1. /\ process' \in {"off", "leaving"} /\ output' \in Seq(Items)
          /\ exit' \in {"none", "0", "-1", "killed"}
      BY <2>1, WordsAreAnswers, WriteType DEF ReadQuit
    <3> QED
      BY <2>1, <3>1 DEF ReadQuit, MessageRead, ChannelTypeOK
  <2>2. CASE ReadFails
    BY <2>2 DEF ReadFails, MessageRead, ChannelTypeOK
  <2>3. ASSUME NEW a, ReadCommand(a) PROVE ChannelTypeOK'
    BY <2>3 DEF ReadCommand, MessageRead, ChannelTypeOK
  <2>4. ASSUME NEW a, LineCommand(a) PROVE ChannelTypeOK'
    BY <2>4 DEF LineCommand, ChannelTypeOK
  <2> QED
    BY <1>5, <2>1, <2>2, <2>3, <2>4 DEF Read
<1>6. CASE Answer
  <2>1. ASSUME NEW r \in {"success", "cancelled"}, Respond(r) PROVE ChannelTypeOK'
    <3>1. /\ process' \in {"off", "leaving"} /\ output' \in Seq(Items)
          /\ exit' \in {"none", "0", "-1", "killed"}
      BY <2>1, WordsAreAnswers, WriteType DEF Respond
    <3> QED
      BY <2>1, <3>1 DEF Respond, ChannelTypeOK
  <2>2. CASE Fail
    BY <2>2 DEF Fail, ChannelTypeOK
  <2>3. CASE CloseFatal
    <3>1. /\ process' \in {"off", "leaving"} /\ output' \in Seq(Items)
          /\ exit' \in {"none", "0", "-1", "killed"}
      BY <2>3, WordsAreAnswers, WriteType DEF CloseFatal
    <3> QED
      BY <2>3, <3>1 DEF CloseFatal, ChannelTypeOK
  <2> QED
    BY <1>6, <2>1, <2>2, <2>3 DEF Answer
<1>7. CASE Late
  <2>1. ASSUME NEW r \in {"success", "cancelled"}, LateResponse(r) PROVE ChannelTypeOK'
    <3>1. CASE Write(<<Frame(r)>>, process)
      <4>1. /\ process' \in {"off", process} /\ output' \in Seq(Items)
            /\ exit' \in {"none", "0", "-1", "killed"}
        BY <2>1, <3>1, WordsAreAnswers, WriteType
      <4> QED
        BY <1>d, <2>1, <4>1 DEF LateResponse, ChannelTypeOK
    <3>2. CASE UNCHANGED <<process, output, exit>>
      BY <1>d, <2>1, <3>2 DEF LateResponse, ChannelTypeOK
    <3> QED
      BY <2>1, <3>1, <3>2 DEF LateResponse
  <2>2. CASE LateFailure
    BY <1>d, <2>2 DEF LateFailure, ChannelTypeOK
  <2>3. CASE LateFailureOverFatal
    <3>1. /\ process' \in {"off", "fatal"} /\ output' \in Seq(Items)
          /\ exit' \in {"none", "0", "-1", "killed"}
      BY <2>3, WordsAreAnswers, WriteType DEF LateFailureOverFatal
    <3> QED
      BY <1>d, <2>3, <3>1 DEF LateFailureOverFatal, ChannelTypeOK
  <2> QED
    BY <1>7, <2>1, <2>2, <2>3 DEF Late
<1>8. CASE Help
  <2>1. Noise \in Items
    BY DEF Noise, Items
  <2> QED
    BY <1>8, <2>1 DEF Help, ClickHelp, ChannelTypeOK
<1>9. CASE CloseAboutPage \/ Quit
  BY <1>9 DEF CloseAboutPage, CloseAbout, Quit, Leave, ChannelTypeOK
<1>10. CASE Show \/ Choose \/ ChangeApplicationEvent \/ ChangeDialogEvent \/ UNCHANGED vars
  BY <1>1, <1>10 DEF Show, Choose, ChangeApplicationEvent, ChangeDialogEvent, vars
<1> QED
  BY <1>2, <1>3, <1>4, <1>5, <1>6, <1>7, <1>8, <1>9, <1>10 DEF Next

LEMMA ChannelTypeInvariance == Spec => []ChannelTypeOK
<1>1. Init => ChannelTypeOK
  <2> SUFFICES ASSUME ChannelInit PROVE ChannelTypeOK
    BY DEF Init
  <2>1. /\ process = "off" /\ exit = "none" /\ start = "none" /\ stdout = "browser"
        /\ spoilt = FALSE
    BY DEF ChannelInit
  <2>2. output \in Seq(Items) /\ late \in 0 .. MaxLate
    BY ChannelInputs DEF ChannelInit
  <2>3. input \in [closed : BOOLEAN, message : Messages \cup {NoMessage}, written : BOOLEAN]
    BY DEF ChannelInit, NoInput
  <2> QED
    BY <2>1, <2>2, <2>3 DEF ChannelTypeOK
<1> QED
  BY <1>1, ChannelStepType, PTL DEF Spec

(* What has been written is clean, the version first, unless nobody was    *)
(* there to read it.  Standard output is lost only with the browser, or to *)
(* the help button.                                                        *)
Clean ==
    \A i \in 1 .. Len(output) :
        /\ output[i].framed = (start = "stdin")
        /\ IF start = "stdin" /\ i = 1 THEN output[i].what = "version"
           ELSE output[i].what \in Answers

Greeted == start = "stdin" /\ stdout = "browser" => Len(output) > 0

ChannelInv ==
    /\ ~spoilt => Clean
    /\ process \in {"reading", "serving", "fatal", "leaving"} => Greeted
    /\ stdout = "broken" => spoilt
    /\ stdout = "gone" => input.closed
    /\ process \in {"main", "about"} => output = <<>> /\ ~spoilt
    /\ process = "about" => start = "about"
    /\ process = "leaving" => start = "about" \/ Answered \/ input.closed
    /\ process # "off" => exit = "none"
    /\ ExitMeansAnswered

LEMMA ChannelInitInv == ChannelInit => ChannelInv
BY DEF ChannelInit, ChannelInv, Clean, Answered, ExitMeansAnswered

(* A step that writes nothing and does not end the run.                    *)
LEMMA MoveInv ==
    ASSUME ChannelInv, UNCHANGED <<start, output, stdout, spoilt, exit>>,
           input'.closed = input.closed,
           process \in {"reading", "serving", "fatal", "leaving"},
           process' \in {process, "serving", "fatal"}
    PROVE  ChannelInv'
<1>1. (Clean' <=> Clean) /\ (Answered' <=> Answered) /\ (Greeted' <=> Greeted)
  BY DEF Clean, Answered, Greeted
<1>2. ExitMeansAnswered'
  BY <1>1 DEF ChannelInv, ExitMeansAnswered
<1> QED
  BY <1>1, <1>2 DEF ChannelInv

(* An answer is written behind the greeting, or finds no reader.           *)
LEMMA AnswerInv ==
    ASSUME ChannelTypeOK, ChannelInv, process \in {"reading", "serving", "fatal", "leaving"},
           NEW r \in Answers, NEW next \in {"fatal", "leaving"}, Write(<<Frame(r)>>, next),
           UNCHANGED <<start, stdout, spoilt>>, input'.closed = input.closed
    PROVE  ChannelInv'
<1> DEFINE out == output \o <<Frame(r)>>
<1>1. Frame(r) \in Items /\ Frame(r).what = r /\ Frame(r).framed = (start = "stdin")
  BY FrameIsAnItem
<1>2. output \in Seq(Items) /\ stdout \in {"browser", "gone", "broken"}
  BY DEF ChannelTypeOK
<1>3. /\ Len(out) = Len(output) + 1 /\ Len(output) \in Nat
      /\ out[Len(output) + 1] = Frame(r)
      /\ \A i \in 1 .. Len(output) : out[i] = output[i]
  BY <1>1, <1>2
<1> HIDE DEF out
<1>4. exit = "none"
  BY DEF ChannelInv
<1>5. CASE stdout = "browser" /\ output' = out /\ process' = next /\ UNCHANGED exit
  <2>1. Answered'
    BY <1>1, <1>3, <1>5 DEF Answered
  <2>2. Greeted'
    BY <1>3, <1>5 DEF Greeted
  <2>3. start = "stdin" => Len(output) > 0
    BY <1>5 DEF ChannelInv, Greeted
  <2>4. ASSUME ~spoilt PROVE Clean'
    <3>1. Clean
      BY <2>4 DEF ChannelInv
    <3> SUFFICES ASSUME NEW i \in 1 .. Len(out)
                 PROVE  /\ out[i].framed = (start = "stdin")
                        /\ IF start = "stdin" /\ i = 1 THEN out[i].what = "version"
                           ELSE out[i].what \in Answers
      BY <1>5 DEF Clean
    <3>2. CASE i \in 1 .. Len(output)
      BY <1>3, <3>1, <3>2 DEF Clean
    <3>3. CASE i = Len(output) + 1
      BY <1>1, <1>3, <2>3, <3>3
    <3> QED
      BY <1>3, <3>2, <3>3
  <2> QED
    BY <1>4, <1>5, <2>1, <2>2, <2>4 DEF ChannelInv, ExitMeansAnswered
<1>6. CASE stdout # "browser" /\ process' = "off" /\ exit' = "killed" /\ UNCHANGED output
  <2>1. Clean' <=> Clean
    BY <1>6 DEF Clean
  <2>2. spoilt \/ input.closed
    BY <1>2, <1>6 DEF ChannelInv
  <2> QED
    BY <1>6, <2>1, <2>2 DEF ChannelInv, ExitMeansAnswered
<1>7. CASE stdout = "gone" /\ process' = next /\ UNCHANGED <<output, exit>>
  <2>1. (Clean' <=> Clean) /\ (Answered' <=> Answered) /\ (Greeted' <=> Greeted)
    BY <1>7 DEF Clean, Answered, Greeted
  <2>2. input.closed
    BY <1>7 DEF ChannelInv
  <2> QED
    BY <1>4, <1>7, <2>1, <2>2 DEF ChannelInv, ExitMeansAnswered
<1> QED
  BY <1>5, <1>6, <1>7 DEF Write, out

LEMMA StartInv ==
    ASSUME NEW s \in Starts, StartProcess(s)
    PROVE  ChannelInv'
<1>1. /\ process' = "main" /\ start' = s /\ exit' = "none"
      /\ output' = <<>> /\ stdout' = "browser" /\ spoilt' = FALSE
  BY DEF StartProcess
<1> QED
  BY <1>1 DEF ChannelInv, ExitMeansAnswered, Clean

LEMMA ParseArgsInv == ChannelTypeOK /\ ChannelInv /\ ParseArgs => ChannelInv'
<1> SUFFICES ASSUME ChannelTypeOK, ChannelInv, ParseArgs PROVE ChannelInv'
  OBVIOUS
<1>1. /\ process = "main" /\ output = <<>> /\ exit = "none" /\ ~spoilt
      /\ stdout \in {"browser", "gone"}
      /\ UNCHANGED <<start, input, stdout, spoilt>>
  BY DEF ParseArgs, ChannelInv, ChannelTypeOK
<1>2. CASE start = "stdin" /\ Write(<<Frame("version")>>, "reading")
  <2>1. CASE stdout = "browser"
    <3>1. output' = output \o <<Frame("version")>> /\ process' = "reading" /\ exit' = "none"
      BY <1>1, <1>2, <2>1 DEF Write
    <3>2. output' = <<Frame("version")>>
      BY <1>1, <3>1
    <3>3. Frame("version").what = "version" /\ Frame("version").framed = (start = "stdin")
      BY FrameIsAnItem
    <3>4. Len(output') = 1 /\ output'[1] = Frame("version")
      BY <3>2
    <3>5. Clean'
      BY <1>1, <1>2, <3>3, <3>4 DEF Clean
    <3>6. Greeted'
      BY <3>4 DEF Greeted
    <3> QED
      BY <1>1, <2>1, <3>1, <3>5, <3>6 DEF ChannelInv, ExitMeansAnswered
  <2>2. CASE stdout = "gone"
    <3>1. /\ UNCHANGED output /\ input.closed
          /\ \/ process' = "off" /\ exit' = "killed"
             \/ process' = "reading" /\ exit' = "none"
      BY <1>1, <1>2, <2>2 DEF Write, ChannelInv
    <3>2. Clean' <=> Clean
      BY <1>1, <3>1 DEF Clean
    <3>3. Greeted'
      BY <1>1, <2>2 DEF Greeted
    <3> QED
      BY <1>1, <2>2, <3>1, <3>2, <3>3 DEF ChannelInv, ExitMeansAnswered
  <2> QED
    BY <1>1, <2>1, <2>2
<1>3. CASE start # "stdin" /\ process' \in {"reading", "about"} /\ UNCHANGED <<output, exit>>
  <2>1. (Clean' <=> Clean) /\ Greeted' /\ (process' = "about" => start = "about")
    BY <1>1, <1>3 DEF Clean, Greeted, ParseArgs, Write
  <2> QED
    BY <1>1, <1>3, <2>1 DEF ChannelInv, ExitMeansAnswered
<1>4. CASE start = "wrongArguments" /\ process' = "off" /\ exit' = "-1" /\ UNCHANGED output
  <2>1. ~Answered' /\ (Clean' <=> Clean)
    BY <1>1, <1>4 DEF Answered, Clean
  <2> QED
    BY <1>1, <1>4, <2>1 DEF ChannelInv, ExitMeansAnswered
<1> QED
  BY <1>2, <1>3, <1>4 DEF ParseArgs

LEMMA ReadInv == ChannelTypeOK /\ ChannelInv /\ Read => ChannelInv'
<1> SUFFICES ASSUME ChannelTypeOK, ChannelInv, Read PROVE ChannelInv'
  OBVIOUS
<1>1. MessageRead => /\ process = "reading" /\ UNCHANGED <<start, stdout, spoilt>>
                     /\ input'.closed = input.closed
  BY DEF MessageRead, ChannelTypeOK
<1>2. CASE ReadQuit
  BY <1>1, <1>2, AnswerInv, WordsAreAnswers DEF ReadQuit
<1>3. CASE ReadFails
  BY <1>1, <1>3, MoveInv DEF ReadFails
<1>4. ASSUME NEW a, ReadCommand(a) PROVE ChannelInv'
  <2>1. process' \in {"serving", "fatal"} /\ UNCHANGED <<output, exit>> /\ MessageRead
    BY <1>4 DEF ReadCommand
  <2> QED
    BY <1>1, <2>1, MoveInv
<1>5. ASSUME NEW a, LineCommand(a) PROVE ChannelInv'
  <2>1. /\ process = "reading" /\ process' \in {"serving", "fatal"}
        /\ UNCHANGED <<start, input, output, stdout, exit, spoilt>>
    BY <1>5 DEF LineCommand
  <2> QED
    BY <2>1, MoveInv
<1> QED
  BY <1>2, <1>3, <1>4, <1>5 DEF Read

LEMMA AnsweringInv == ChannelTypeOK /\ ChannelInv /\ Answer => ChannelInv'
<1> SUFFICES ASSUME ChannelTypeOK, ChannelInv, Answer PROVE ChannelInv'
  OBVIOUS
<1>1. ASSUME NEW r \in {"success", "cancelled"}, Respond(r) PROVE ChannelInv'
  BY <1>1, AnswerInv, WordsAreAnswers DEF Respond
<1>2. CASE Fail
  BY <1>2, MoveInv DEF Fail
<1>3. CASE CloseFatal
  BY <1>3, AnswerInv, WordsAreAnswers DEF CloseFatal
<1> QED
  BY <1>1, <1>2, <1>3 DEF Answer

LEMMA LateInv == ChannelTypeOK /\ ChannelInv /\ Late => ChannelInv'
<1> SUFFICES ASSUME ChannelTypeOK, ChannelInv, Late PROVE ChannelInv'
  OBVIOUS
<1>1. ASSUME NEW r \in {"success", "cancelled"}, LateResponse(r) PROVE ChannelInv'
  <2>1. process \in {"fatal", "leaving"} /\ UNCHANGED <<start, input, stdout, spoilt>>
    BY <1>1 DEF LateResponse
  <2>2. CASE Write(<<Frame(r)>>, process)
    BY <1>1, <2>1, <2>2, AnswerInv, WordsAreAnswers
  <2>3. CASE UNCHANGED <<process, output, exit>>
    BY <2>1, <2>3, MoveInv
  <2> QED
    BY <1>1, <2>2, <2>3 DEF LateResponse
<1>2. CASE LateFailure
  BY <1>2, MoveInv DEF LateFailure
<1>3. CASE LateFailureOverFatal
  BY <1>3, AnswerInv, WordsAreAnswers DEF LateFailureOverFatal
<1> QED
  BY <1>1, <1>2, <1>3 DEF Late

LEMMA BrowserInv == ChannelTypeOK /\ ChannelInv /\ Browser => ChannelInv'
<1> SUFFICES ASSUME ChannelTypeOK, ChannelInv, Browser PROVE ChannelInv'
  OBVIOUS
<1>1. /\ UNCHANGED <<process, start, output, exit, spoilt>> /\ process # "off"
      /\ input.closed => input'.closed
      /\ stdout' = stdout \/ (stdout = "browser" /\ stdout' = "gone" /\ input'.closed)
  BY DEF Browser, BrowserCloses, BrowserWrites, ChannelTypeOK
<1>2. (Clean' <=> Clean) /\ (Answered' <=> Answered) /\ (Greeted => Greeted')
  BY <1>1 DEF Clean, Answered, Greeted
<1>3. exit' = "none"
  BY <1>1 DEF ChannelInv
<1> QED
  BY <1>1, <1>2, <1>3 DEF ChannelInv, ExitMeansAnswered

LEMMA HelpInv == ChannelTypeOK /\ ChannelInv /\ ClickHelp => ChannelInv'
<1> SUFFICES ASSUME ChannelTypeOK, ChannelInv, ClickHelp PROVE ChannelInv'
  OBVIOUS
<1>1. /\ process \in {"serving", "fatal"} /\ ~spoilt
      /\ UNCHANGED <<process, start, input, exit>>
  BY DEF ClickHelp
<1>2. PICK d \in Descriptors :
        /\ spoilt' = (d # "free")
        /\ output' = IF d = "none" /\ stdout = "browser" THEN Append(output, Noise) ELSE output
        /\ stdout' = IF d = "two" THEN "broken" ELSE stdout
  BY DEF ClickHelp
<1>3. CASE d = "free"
  <2>1. UNCHANGED <<output, stdout>> /\ (spoilt' <=> spoilt)
    BY <1>1, <1>2, <1>3
  <2>2. (Clean' <=> Clean) /\ (Greeted' <=> Greeted)
    BY <1>1, <2>1 DEF Clean, Greeted
  <2> QED
    BY <1>1, <2>1, <2>2 DEF ChannelInv, ExitMeansAnswered
<1>4. CASE d # "free"
  <2>1. spoilt'
    BY <1>2, <1>4
  <2>2. Greeted'
    <3>1. output \in Seq(Items) /\ Noise \in Items
      BY DEF ChannelTypeOK, Noise, Items
    <3>2. Len(output') >= Len(output) /\ Len(output) \in Nat /\ Len(output') \in Nat
      BY <1>2, <3>1
    <3>3. Greeted
      BY <1>1 DEF ChannelInv
    <3> QED
      BY <1>1, <1>2, <3>2, <3>3 DEF Greeted
  <2> QED
    BY <1>1, <1>2, <2>1, <2>2 DEF ChannelInv, ExitMeansAnswered
<1> QED
  BY <1>3, <1>4

LEMMA AboutInv == ChannelInv /\ CloseAbout => ChannelInv'
<1> SUFFICES ASSUME ChannelInv, CloseAbout PROVE ChannelInv'
  OBVIOUS
<1>1. /\ process = "about" /\ process' = "leaving" /\ start = "about"
      /\ UNCHANGED <<start, input, output, stdout, exit, spoilt>>
  BY DEF CloseAbout, ChannelInv
<1>2. (Clean' <=> Clean) /\ Greeted'
  BY <1>1 DEF Clean, Greeted
<1> QED
  BY <1>1, <1>2 DEF ChannelInv, ExitMeansAnswered

LEMMA LeaveInv == ChannelInv /\ Leave => ChannelInv'
<1> SUFFICES ASSUME ChannelInv, Leave PROVE ChannelInv'
  OBVIOUS
<1>1. /\ process = "leaving" /\ process' = "off" /\ exit' = "0"
      /\ UNCHANGED <<start, input, output, stdout, spoilt>>
  BY DEF Leave
<1>2. (Clean' <=> Clean) /\ (Answered' <=> Answered)
  BY <1>1 DEF Clean, Answered
<1> QED
  BY <1>1, <1>2 DEF ChannelInv, ExitMeansAnswered

LEMMA SameChannelInv ==
    ASSUME ChannelInv, UNCHANGED channelVars
    PROVE  ChannelInv'
<1>1. (Clean' <=> Clean) /\ (Answered' <=> Answered) /\ (Greeted' <=> Greeted)
  BY DEF channelVars, Clean, Answered, Greeted
<1> QED
  BY <1>1 DEF channelVars, ChannelInv, ExitMeansAnswered

LEMMA ChannelStepInv == ChannelTypeOK /\ ChannelInv /\ [Next]_vars => ChannelInv'
<1> SUFFICES ASSUME ChannelTypeOK, ChannelInv, [Next]_vars PROVE ChannelInv'
  OBVIOUS
<1>1. CASE StartUp
  BY <1>1, StartInv DEF StartUp
<1>2. CASE Main
  BY <1>2, ParseArgsInv DEF Main
<1>3. CASE Browser
  BY <1>3, BrowserInv
<1>4. CASE Read
  BY <1>4, ReadInv
<1>5. CASE Answer
  BY <1>5, AnsweringInv
<1>6. CASE Late
  BY <1>6, LateInv
<1>7. CASE Help
  BY <1>7, HelpInv DEF Help
<1>8. CASE CloseAboutPage
  BY <1>8, AboutInv DEF CloseAboutPage
<1>9. CASE Quit
  BY <1>9, LeaveInv DEF Quit
<1>10. CASE Show \/ Choose \/ ChangeApplicationEvent \/ ChangeDialogEvent \/ UNCHANGED vars
  BY <1>10, SameChannelInv DEF Show, Choose, ChangeApplicationEvent, ChangeDialogEvent, vars
<1> QED
  BY <1>1, <1>2, <1>3, <1>4, <1>5, <1>6, <1>7, <1>8, <1>9, <1>10 DEF Next

LEMMA ChannelInvariance == Spec => []ChannelInv
<1>1. Init => ChannelInv
  BY ChannelInitInv DEF Init
<1> QED
  BY <1>1, ChannelStepInv, ChannelTypeInvariance, PTL DEF Spec

(* No run ends by itself without having answered, as long as somebody is   *)
(* there to read the answer.                                               *)
THEOREM ExitAlwaysMeansAnswered == Spec => []ExitMeansAnswered
<1>1. ChannelInv => ExitMeansAnswered
  BY DEF ChannelInv
<1> QED
  BY <1>1, ChannelInvariance, PTL

(* The browser reads the version, then answers, and nothing else, also     *)
(* through signals that are delivered behind the response, as long as the  *)
(* help button finds its descriptors.                                      *)
THEOREM ChannelIsAlwaysClean == Spec => []ChannelIsClean
<1>1. ChannelInv => ChannelIsClean
  BY DEF ChannelInv, ChannelIsClean, Clean
<1> QED
  BY <1>1, ChannelInvariance, PTL

-----------------------------------------------------------------------------
(* Types of the language and the texts.                                    *)

Catalogued == Supported \cup {Source}

LEMMA LoadedType ==
    ASSUME LanguageTypeOK, NEW stored, NEW lang, LoadTranslations(stored, lang)
    PROVE  loaded' \in Catalogued /\ change' \subseteq {"application", "dialog"}
<1>1. Best(stored, lang) \in Catalogued
  BY DEF Best, Catalogued
<1> QED
  BY <1>1 DEF LoadTranslations, LanguageTypeOK

(* Each label displays a text, in one of the languages.                    *)
TextsOK(t) == DOMAIN t = Labels /\ \A b \in Labels : t[b].in \in Catalogued

LEMMA TextType ==
    ASSUME NEW l \in Catalogued
    PROVE  (\A msg : Tr(l, msg).in \in Catalogued) /\ NoText.in \in Catalogued
BY DEF Tr, NoText, Catalogued

LEMMA InType ==
    ASSUME NEW l \in Catalogued, NEW told
    PROVE  TextsOK(In(l, told))
BY TextType DEF TextsOK, In

LEMMA SetTextType ==
    ASSUME loaded \in Catalogued, TextsOK(text), NEW new, SetTrText(new)
    PROVE  TextsOK(text') /\ DOMAIN says' = Labels
BY TextType DEF TextsOK, SetTrText

DialogTypeOK ==
    /\ shown \in {"none", "command", "about", "fatal"}
    /\ command \in Commands \cup {"none"}
    /\ action \in {"none", "confirm", "retry", "settings"}
    /\ slots \in 0 .. MaxSlots
    /\ TextsOK(text) /\ DOMAIN says = Labels

CatalogueTypeOK ==
    /\ setting \in Supported \cup {NoSetting}
    /\ asked \in Requested \cup {NoSetting}
    /\ loaded \in Catalogued
    /\ change \subseteq {"application", "dialog"}

ChooserTypeOK ==
    /\ chooser.open \in BOOLEAN
    /\ chooser.current \in Supported \cup {NoSetting}
    /\ chosen \in Supported \cup {NoSetting}
    /\ cancelled \in BOOLEAN

LEMMA LanguageTypes ==
    /\ LanguageTypeOK <=> DialogTypeOK /\ CatalogueTypeOK /\ ChooserTypeOK
    /\ LanguageTypeOK' <=> DialogTypeOK' /\ CatalogueTypeOK' /\ ChooserTypeOK'
BY DEF LanguageTypeOK, DialogTypeOK, CatalogueTypeOK, ChooserTypeOK, TextsOK, Catalogued

LEMMA NewDialogType ==
    ASSUME NEW l \in Catalogued, NEW kind \in {"command", "fatal", "about", "safari"},
           NewDialog(kind, l), command' \in Commands \cup {"none"}
    PROVE  DialogTypeOK'
<1>1. TextsOK(text') /\ DOMAIN says' = Labels
  BY InType DEF NewDialog, Told
<1>2. slots' \in 0 .. MaxSlots
  BY Choices DEF NewDialog
<1>3. /\ shown' \in {"none", "command", "about", "fatal"}
      /\ action' \in {"none", "confirm", "retry", "settings"}
  BY DEF NewDialog
<1> QED
  BY <1>1, <1>2, <1>3 DEF DialogTypeOK, TextsOK

LEMMA NoDialogType == NoDialog => DialogTypeOK'
<1> SUFFICES ASSUME NoDialog PROVE DialogTypeOK'
  OBVIOUS
<1>1. TextsOK(text') /\ DOMAIN says' = Labels
  BY DEF NoDialog, TextsOK, NoText, Catalogued
<1>2. slots' \in 0 .. MaxSlots
  BY Choices DEF NoDialog
<1> QED
  BY <1>1, <1>2 DEF NoDialog, DialogTypeOK, TextsOK

LEMMA LeaveChooserType ==
    ASSUME CatalogueTypeOK, ChooserTypeOK, LeaveChooser
    PROVE  ChooserTypeOK'
BY DEF LeaveChooser, Closed, CatalogueTypeOK, ChooserTypeOK

LEMMA AnotherDialogType ==
    ASSUME LanguageTypeOK, NEW kind \in {"command", "fatal", "about", "safari"},
           AnotherDialog(kind)
    PROVE  LanguageTypeOK'
<1>1. DialogTypeOK /\ CatalogueTypeOK /\ ChooserTypeOK
  BY LanguageTypes
<1>2. DialogTypeOK'
  BY <1>1, NewDialogType DEF AnotherDialog, CatalogueTypeOK, DialogTypeOK
<1>3. ChooserTypeOK'
  BY <1>1, LeaveChooserType DEF AnotherDialog
<1>4. CatalogueTypeOK'
  BY <1>1 DEF AnotherDialog, CatalogueTypeOK
<1> QED
  BY <1>2, <1>3, <1>4, LanguageTypes

LEMMA EndType ==
    ASSUME LanguageTypeOK, EndApplication \/ EndDialog
    PROVE  LanguageTypeOK'
<1>1. DialogTypeOK /\ CatalogueTypeOK /\ ChooserTypeOK
  BY LanguageTypes
<1>2. DialogTypeOK'
  BY NoDialogType DEF EndApplication, EndDialog
<1>3. ChooserTypeOK'
  BY <1>1, LeaveChooserType DEF EndApplication, EndDialog
<1>4. CatalogueTypeOK'
  BY <1>1 DEF EndApplication, EndDialog, CatalogueTypeOK, Catalogued
<1> QED
  BY <1>2, <1>3, <1>4, LanguageTypes

LEMMA AskType ==
    ASSUME LanguageTypeOK, NEW lang \in Langs,
           AskInVain(lang) \/ \E c \in Commands : AskFor(lang, c)
    PROVE  LanguageTypeOK'
<1>1. DialogTypeOK /\ CatalogueTypeOK /\ ChooserTypeOK
  BY LanguageTypes
<1>2. loaded' \in Catalogued /\ change' \subseteq {"application", "dialog"}
  BY LoadedType DEF AskFor, AskInVain
<1>3. CatalogueTypeOK' /\ ChooserTypeOK'
  BY <1>1, <1>2 DEF AskFor, AskInVain, Langs, chooserVars, CatalogueTypeOK, ChooserTypeOK
<1>4. DialogTypeOK'
  <2>1. CASE AskInVain(lang)
    BY <1>1, <1>2, <2>1, NewDialogType DEF AskInVain, DialogTypeOK
  <2>2. ASSUME NEW c \in Commands, AskFor(lang, c) PROVE DialogTypeOK'
    BY <1>2, <2>2, NewDialogType DEF AskFor
  <2> QED
    BY <2>1, <2>2
<1> QED
  BY <1>3, <1>4, LanguageTypes

(* What a slot of the dialog does: it sets texts, the OK button's among    *)
(* them if it sets up that button anew.                                    *)
OkFits(new) ==
    IF "okButton" \in DOMAIN new /\ new["okButton"] # Nothing
    THEN action' \in {"confirm", "retry"} /\ new["okButton"] = Msg(OkTexts[action'])
    ELSE action' = action

LEMMA OkWords ==
    /\ OkTexts["confirm"] = "Confirm" /\ OkTexts["retry"] = "Try again"
    /\ OkTexts["settings"] = "Open Safari settings..."
    /\ \A m : m # "" => Msg(m) # Nothing
    /\ \A a \in {"confirm", "retry", "settings"} : Msg(OkTexts[a]) # Nothing
<1>1. \A m : Msg(m).m = m
  BY DEF Msg
<1>2. Nothing.m = ""
  BY <1>1 DEF Nothing
<1>3. \A m : m # "" => Msg(m) # Nothing
  BY <1>1, <1>2
<1>4. /\ OkTexts["confirm"] = "Confirm" /\ OkTexts["retry"] = "Try again"
      /\ OkTexts["settings"] = "Open Safari settings..."
  BY DEF OkTexts
<1>5. Msg("Confirm") # Nothing /\ Msg("Try again") # Nothing
      /\ Msg("Open Safari settings...") # Nothing
  BY <1>3
<1>6. ASSUME NEW a \in {"confirm", "retry", "settings"} PROVE Msg(OkTexts[a]) # Nothing
  BY <1>4, <1>5
<1> QED
  BY <1>3, <1>4, <1>6

LEMMA RetryFits ==
    ASSUME NEW msg, action' = "retry"
    PROVE  OkFits(RetryTexts(msg))
<1> DEFINE new == RetryTexts(msg)
<1>1. "okButton" \in DOMAIN new /\ new["okButton"] = Msg(OkTexts["retry"])
  BY DEF RetryTexts
<1> HIDE DEF new
<1>2. OkFits(new)
  BY <1>1, OkWords DEF OkFits
<1> QED
  BY <1>2 DEF new

LEMMA SlotTexts ==
    ASSUME DialogStep, ~NewAttempt
    PROVE  \E new : SetTrText(new) /\ OkFits(new)
<1>1. ASSUME NEW e, StatusUpdate(e) PROVE \E new : SetTrText(new) /\ OkFits(new)
  <2> DEFINE new == [connectCardLabel |-> Msg(Retriable[e][1]),
                     messagePageTitleLabel |-> Msg(Retriable[e][2])]
  <2>1. "okButton" \notin DOMAIN new /\ SetTrText(new)
    BY <1>1 DEF StatusUpdate
  <2> HIDE DEF new
  <2>2. action' = action
    BY <1>1 DEF StatusUpdate
  <2> QED
    BY <2>1, <2>2 DEF OkFits
<1>2. ASSUME NEW e, ReadingFailed(e) PROVE \E new : SetTrText(new) /\ OkFits(new)
  BY <1>2, RetryFits DEF ReadingFailed
<1>3. CASE CertificateMismatch
  BY <1>3, RetryFits DEF CertificateMismatch
<1>4. ASSUME NEW inactive, CertificatesReady(inactive)
      PROVE  \E new : SetTrText(new) /\ OkFits(new)
  <2> DEFINE new == [certificateButtons |-> Msg("Valid until: %1%2"),
                     okButton |-> Msg(OkTexts.confirm), lockedWarning |-> Warning(inactive)]
  <2>1. /\ "okButton" \in DOMAIN new /\ new["okButton"] = Msg(OkTexts["confirm"])
        /\ SetTrText(new) /\ action' = "confirm"
    BY <1>4 DEF CertificatesReady
  <2> HIDE DEF new
  <2> QED
    BY <2>1, OkWords DEF OkFits
<1>5. ASSUME NEW inactive, ClickCertificate(inactive)
      PROVE  \E new : SetTrText(new) /\ OkFits(new)
  <2> DEFINE new == [lockedWarning |-> Warning(inactive)]
  <2>1. "okButton" \notin DOMAIN new /\ SetTrText(new) /\ action' = action
    BY <1>5 DEF ClickCertificate
  <2> HIDE DEF new
  <2> QED
    BY <2>1 DEF OkFits
<1>6. ASSUME NEW prompt, NEW inactive, NEW left, AskForPin(prompt, inactive, left)
      PROVE  \E new : SetTrText(new) /\ OkFits(new)
  <2> DEFINE page == PinPage(prompt)
             new == PinPrompt(prompt, inactive, left)
  <2>1. /\ "okButton" \in DOMAIN page
        /\ page["okButton"] = IF prompt \in {"keyboard", "external"} THEN Msg(OkTexts["confirm"])
                              ELSE Nothing
    BY DEF PinPage
  <2>2. "okButton" \in DOMAIN new /\ new["okButton"] = page["okButton"]
    <3> HIDE DEF page
    <3>1. "okButton" \in DOMAIN page
      BY <2>1
    <3> QED
      BY <3>1 DEF PinPrompt, page
  <2>3. /\ SetTrText(new)
        /\ action' = IF prompt \in {"keyboard", "external"} THEN "confirm" ELSE action
    BY <1>6 DEF AskForPin
  <2> HIDE DEF new, page
  <2> QED
    BY <2>1, <2>2, <2>3, OkWords DEF OkFits
<1>7. ASSUME NEW e, NEW left, VerifyPinFailed(e, left)
      PROVE  \E new : SetTrText(new) /\ OkFits(new)
  <2> DEFINE new == [pinErrorLabel |-> FailureText(e, left)]
  <2>1. "okButton" \notin DOMAIN new /\ SetTrText(new) /\ action' = action
    BY <1>7 DEF VerifyPinFailed
  <2> HIDE DEF new
  <2> QED
    BY <2>1 DEF OkFits
<1>8. ASSUME NEW e, NEW left, PinPadFailed(e, left)
      PROVE  \E new : SetTrText(new) /\ OkFits(new)
  <2> DEFINE retry == RetryTexts(FailureText(e, left))
             new == [b \in DOMAIN retry \cup {"pinErrorLabel"} |->
                       IF b = "pinErrorLabel" THEN FailureText(e, left) ELSE retry[b]]
  <2>1. "okButton" \in DOMAIN retry /\ retry["okButton"] = Msg(OkTexts["retry"])
    BY DEF RetryTexts
  <2>2. SetTrText(new) /\ action' = "retry"
    BY <1>8 DEF PinPadFailed
  <2> HIDE DEF retry
  <2>3. "okButton" \in DOMAIN new /\ new["okButton"] = Msg(OkTexts["retry"])
    BY <2>1
  <2> HIDE DEF new
  <2> QED
    BY <2>2, <2>3, OkWords DEF OkFits
<1> QED
  BY <1>1, <1>2, <1>3, <1>4, <1>5, <1>6, <1>7, <1>8 DEF DialogStep

LEMMA DialogStepType ==
    ASSUME LanguageTypeOK, DialogStep
    PROVE  LanguageTypeOK'
<1>1. DialogTypeOK /\ CatalogueTypeOK /\ ChooserTypeOK
  BY LanguageTypes
<1>2. CASE NewAttempt
  BY <1>2, AnotherDialogType DEF NewAttempt
<1>3. CASE ~NewAttempt
  <2>1. UNCHANGED <<catalogueVars, chooserVars, shown, command>> /\ slots' \in 0 .. MaxSlots
    BY <1>1, <1>3, SlotStep, Choices DEF Slot, DialogTypeOK
  <2>2. PICK new : SetTrText(new) /\ OkFits(new)
    BY <1>3, SlotTexts
  <2>3. action' \in {"none", "confirm", "retry", "settings"}
    BY <1>1, <2>2 DEF OkFits, DialogTypeOK
  <2>4. TextsOK(text') /\ DOMAIN says' = Labels
    BY <1>1, <2>2, SetTextType DEF DialogTypeOK, CatalogueTypeOK
  <2>5. CatalogueTypeOK' /\ ChooserTypeOK'
    BY <1>1, <2>1 DEF catalogueVars, chooserVars, CatalogueTypeOK, ChooserTypeOK
  <2>6. DialogTypeOK'
    BY <1>1, <2>1, <2>3, <2>4 DEF DialogTypeOK, TextsOK
  <2> QED
    BY <2>5, <2>6, LanguageTypes
<1> QED
  BY <1>2, <1>3

LEMMA ChooserStepType ==
    ASSUME LanguageTypeOK, LanguageInv, ChooserStep
    PROVE  LanguageTypeOK'
<1>1. DialogTypeOK /\ CatalogueTypeOK /\ ChooserTypeOK
  BY LanguageTypes
<1>2. DialogTypeOK'
  <2>1. UNCHANGED dialogVars
    BY DEF ChooserStep, OpenChooser, CloseChooser, CancelChooser, ClickLanguage
  <2> QED
    BY <1>1, <2>1 DEF dialogVars, DialogTypeOK, TextsOK
<1>3. CatalogueTypeOK' /\ ChooserTypeOK'
  <2>1. CASE OpenChooser
    BY <1>1, <2>1 DEF OpenChooser, catalogueVars, CatalogueTypeOK, ChooserTypeOK
  <2>2. CASE CloseChooser
    <3>1. ChooserTypeOK'
      BY <1>1, <2>2, LeaveChooserType DEF CloseChooser
    <3>2. CatalogueTypeOK'
      BY <1>1, <2>2 DEF CloseChooser, catalogueVars, CatalogueTypeOK
    <3> QED
      BY <3>1, <3>2
  <2>3. CASE CancelChooser
    <3>1. loaded' \in Catalogued /\ change' \subseteq {"application", "dialog"}
      BY <2>3, LoadedType DEF CancelChooser
    <3> QED
      BY <1>1, <2>3, <3>1 DEF CancelChooser, Closed, CatalogueTypeOK, ChooserTypeOK
  <2>4. CASE \E l \in Offered : ClickLanguage(l)
    <3>1. PICK l \in Offered : ClickLanguage(l)
      BY <2>4
    <3>2. loaded' \in Catalogued /\ change' \subseteq {"application", "dialog"}
      BY <3>1, LoadedType DEF ClickLanguage
    <3>3. chooser'.open = chooser.open /\ chooser'.current = chooser.current
      BY <3>1 DEF ClickLanguage, LanguageInv
    <3> QED
      BY <1>1, <3>1, <3>2, <3>3, Choices DEF ClickLanguage, CatalogueTypeOK, ChooserTypeOK
  <2> QED
    BY <2>1, <2>2, <2>3, <2>4 DEF ChooserStep
<1> QED
  BY <1>2, <1>3, LanguageTypes

LEMMA ChangeStepType ==
    ASSUME LanguageTypeOK, ChangeStep
    PROVE  LanguageTypeOK'
<1>1. DialogTypeOK /\ CatalogueTypeOK /\ ChooserTypeOK
  BY LanguageTypes
<1>2. CatalogueTypeOK' /\ ChooserTypeOK'
  BY <1>1 DEF ChangeStep, ChangeApplication, ChangeDialog, chooserVars, CatalogueTypeOK,
     ChooserTypeOK
<1>3. DialogTypeOK'
  <2>1. CASE ChangeApplication
    BY <1>1, <2>1 DEF ChangeApplication, dialogVars, DialogTypeOK, TextsOK
  <2>2. CASE ChangeDialog
    <3>1. TextsOK(text')
      BY <1>1, <2>2, InType DEF ChangeDialog, CatalogueTypeOK
    <3> QED
      BY <1>1, <2>2, <3>1 DEF ChangeDialog, DialogTypeOK, TextsOK
  <2> QED
    BY <2>1, <2>2 DEF ChangeStep
<1> QED
  BY <1>2, <1>3, LanguageTypes

LEMMA StartApplicationType ==
    ASSUME LanguageTypeOK, StartApplication
    PROVE  LanguageTypeOK'
<1>1. loaded' \in Catalogued /\ change' \subseteq {"application", "dialog"}
  BY LoadedType DEF StartApplication
<1> QED
  BY <1>1 DEF StartApplication, dialogVars, LanguageTypeOK, Catalogued

LEMMA LanguageTypeInvariance == Spec => []LanguageTypeOK
<1>1. Init => LanguageTypeOK
  <2> SUFFICES ASSUME LanguageInit PROVE LanguageTypeOK
    BY DEF Init
  <2>1. TextsOK(text) /\ DOMAIN says = Labels
    BY DEF LanguageInit, TextsOK, NoText, Catalogued
  <2>2. DialogTypeOK
    BY <2>1, Choices DEF LanguageInit, DialogTypeOK
  <2>3. CatalogueTypeOK /\ ChooserTypeOK
    BY Choices DEF LanguageInit, CatalogueTypeOK, ChooserTypeOK, Closed, Catalogued
  <2> QED
    BY <2>2, <2>3, LanguageTypes
<1>2. LanguageTypeOK /\ LanguageInv /\ [Next]_vars => LanguageTypeOK'
  <2> SUFFICES ASSUME LanguageTypeOK, LanguageInv, [Next]_vars PROVE LanguageTypeOK'
    OBVIOUS
  <2>1. CASE UNCHANGED languageVars
    BY <2>1 DEF languageVars, catalogueVars, dialogVars, chooserVars, LanguageTypeOK
  <2>2. CASE StartUp
    BY <2>2, StartApplicationType DEF StartUp
  <2>3. CASE Main \/ Answer \/ Late \/ Quit \/ CloseAboutPage
    BY <2>1, <2>3, EndType, AnotherDialogType
       DEF Main, Answer, Late, Quit, CloseAboutPage, Unless
  <2>4. CASE Read
    <3>1. EndApplication \/ AnotherDialog("fatal") \/ UNCHANGED languageVars
            \/ \E lang \in Langs : AskInVain(lang) \/ \E c \in Commands : AskFor(lang, c)
      BY <2>4 DEF Read, Unless
    <3> QED
      BY <2>1, <3>1, EndType, AnotherDialogType, AskType
  <2>5. CASE Show
    BY <2>5, DialogStepType DEF Show
  <2>6. CASE Choose
    BY <2>6, ChooserStepType DEF Choose
  <2>7. CASE ChangeApplicationEvent \/ ChangeDialogEvent
    BY <2>7, ChangeStepType DEF ChangeApplicationEvent, ChangeDialogEvent, ChangeStep
  <2>8. CASE Browser \/ Help \/ UNCHANGED vars
    BY <2>1, <2>8 DEF Browser, Help, vars
  <2> QED
    BY <2>2, <2>3, <2>4, <2>5, <2>6, <2>7, <2>8 DEF Next
<1> QED
  BY <1>1, <1>2, LanguageInvariance, PTL DEF Spec

(* The state of a run and of the language stays of its type, for any       *)
(* messages, languages and ways to start (inputoutputmode.cpp).            *)
THEOREM TypeCorrect == Spec => []TypeOK
BY LanguageTypeInvariance, ChannelTypeInvariance, PTL DEF TypeOK

-----------------------------------------------------------------------------
(* The texts on the screen.  Without a LanguageChange that is still to     *)
(* come, each label displays what it is told, in the language that is      *)
(* loaded; and the OK button is told what it does.                         *)
TextsFollow == shown # "none" /\ change = {} => text = In(loaded, says)

OkIsNamed ==
    action # "none" => Said("okButton", says) = Msg(OkTexts[action]) /\ Msg(OkTexts[action]) # Nothing

ScreenInv == TextsFollow /\ OkIsNamed

LEMMA NewDialogScreen ==
    ASSUME NEW kind, NewDialog(kind, loaded')
    PROVE  ScreenInv'
<1>1. text' = In(loaded', says') /\ says' = Told(kind)
  BY DEF NewDialog
<1>2. action' # "none" => kind = "safari" /\ action' = "settings"
  BY DEF NewDialog
<1>3. kind = "safari" => says'["okButton"] = Msg("Open Safari settings...")
  BY <1>1 DEF Told, Labels
<1>4. OkIsNamed'
  BY <1>2, <1>3, OkWords DEF OkIsNamed, Said
<1> QED
  BY <1>1, <1>4 DEF ScreenInv, TextsFollow

LEMMA NoDialogScreen == NoDialog => ScreenInv'
BY DEF NoDialog, ScreenInv, TextsFollow, OkIsNamed

(* A slot sets texts in the language that is loaded.                       *)
LEMMA SlotScreen ==
    ASSUME ScreenInv, shown # "none", UNCHANGED <<change, loaded, shown>>,
           action \in {"none", "confirm", "retry", "settings"},
           NEW new, SetTrText(new), OkFits(new)
    PROVE  ScreenInv'
<1> DEFINE told == {b \in DOMAIN new : new[b] # Nothing}
<1>1. /\ text' = [b \in Labels |-> IF b \in told THEN Tr(loaded, new[b]) ELSE text[b]]
      /\ says' = [b \in Labels |-> IF b \in told THEN new[b] ELSE says[b]]
  BY DEF SetTrText
<1>2. \A b \in Labels : Said(b, says') = IF b \in told THEN new[b] ELSE Said(b, says)
  BY <1>1 DEF Said
<1>3. TextsFollow'
  <2> SUFFICES ASSUME change = {} PROVE text' = In(loaded, says')
    BY DEF TextsFollow
  <2>1. text = In(loaded, says)
    BY DEF ScreenInv, TextsFollow
  <2>2. \A b \in Labels : text[b] = IF Said(b, says) = Nothing THEN NoText
                                    ELSE Tr(loaded, Said(b, says))
    BY <2>1 DEF In
  <2>3. In(loaded, says') = [b \in Labels |-> IF Said(b, says') = Nothing THEN NoText
                                              ELSE Tr(loaded, Said(b, says'))]
    BY DEF In
  <2>4. ASSUME NEW b \in Labels
        PROVE  (IF b \in told THEN Tr(loaded, new[b]) ELSE text[b])
                 = IF Said(b, says') = Nothing THEN NoText ELSE Tr(loaded, Said(b, says'))
    <3>1. CASE b \in told
      BY <1>2, <3>1
    <3>2. CASE b \notin told
      BY <1>2, <2>2, <3>2
    <3> QED
      BY <3>1, <3>2
  <2> HIDE DEF told
  <2> QED
    BY <1>1, <2>3, <2>4
<1>4. OkIsNamed'
  <2>1. "okButton" \in Labels
    BY DEF Labels
  <2>2. Said("okButton", says') = IF "okButton" \in told THEN new["okButton"]
                                  ELSE Said("okButton", says)
    BY <1>2, <2>1
  <2>3. CASE "okButton" \in told
    BY <2>2, <2>3, OkWords DEF OkFits, OkIsNamed
  <2>4. CASE "okButton" \notin told
    <3>1. action' = action
      BY <2>4 DEF OkFits
    <3>2. Said("okButton", says') = Said("okButton", says)
      BY <2>2, <2>4
    <3> QED
      BY <3>1, <3>2 DEF ScreenInv, OkIsNamed
  <2> QED
    BY <2>3, <2>4
<1> QED
  BY <1>3, <1>4 DEF ScreenInv

LEMMA SameScreen ==
    ASSUME ScreenInv, UNCHANGED <<text, says, action, shown>>,
           UNCHANGED <<loaded, change>> \/ (shown # "none" => change' # {})
    PROVE  ScreenInv'
BY DEF ScreenInv, TextsFollow, OkIsNamed

LEMMA ScreenStep ==
    ASSUME ScreenInv, LanguageTypeOK, [Next]_vars
    PROVE  ScreenInv'
<1>s. CASE UNCHANGED languageVars
  BY <1>s, SameScreen DEF languageVars, catalogueVars, dialogVars
<1>d. CASE EndApplication \/ EndDialog
  BY <1>d, NoDialogScreen DEF EndApplication, EndDialog
<1>a. ASSUME NEW kind, AnotherDialog(kind) PROVE ScreenInv'
  <2>1. loaded' = loaded /\ NewDialog(kind, loaded)
    BY <1>a DEF AnotherDialog
  <2> QED
    BY <2>1, NewDialogScreen
<1>1. CASE StartUp
  <2>1. UNCHANGED dialogVars /\ change' # {}
    BY <1>1 DEF StartUp, StartApplication, LoadTranslations
  <2> QED
    BY <2>1, SameScreen DEF dialogVars
<1>2. CASE Main \/ Answer \/ Late \/ Quit \/ CloseAboutPage
  BY <1>2, <1>s, <1>d, <1>a DEF Main, Answer, Late, Quit, CloseAboutPage, Unless
<1>3. CASE Read
  <2>1. ASSUME NEW lang, AskInVain(lang) PROVE ScreenInv'
    BY <2>1, NewDialogScreen DEF AskInVain
  <2>2. ASSUME NEW lang, NEW c, AskFor(lang, c) PROVE ScreenInv'
    BY <2>2, NewDialogScreen DEF AskFor
  <2> QED
    BY <1>3, <1>s, <1>d, <1>a, <2>1, <2>2 DEF Read, Unless
<1>4. CASE Show
  <2>1. CASE NewAttempt
    BY <1>a, <2>1 DEF NewAttempt
  <2>2. CASE ~NewAttempt
    <3>1. DialogStep
      BY <1>4 DEF Show
    <3>2. shown # "none" /\ UNCHANGED <<change, loaded, shown>>
      BY <2>2, <3>1, SlotStep DEF Slot, catalogueVars
    <3>3. PICK new : SetTrText(new) /\ OkFits(new)
      BY <2>2, <3>1, SlotTexts
    <3> QED
      BY <3>2, <3>3, SlotScreen DEF LanguageTypeOK
  <2> QED
    BY <2>1, <2>2
<1>5. CASE Choose
  <2>1. UNCHANGED dialogVars /\ (UNCHANGED <<loaded, change>> \/ change' # {})
    BY <1>5 DEF Choose, ChooserStep, OpenChooser, CloseChooser, CancelChooser, ClickLanguage,
       catalogueVars, LoadTranslations
  <2> QED
    BY <2>1, SameScreen DEF dialogVars
<1>6. CASE ChangeApplicationEvent
  <2>1. UNCHANGED dialogVars /\ (shown # "none" => change' # {})
    BY <1>6 DEF ChangeApplicationEvent, ChangeApplication
  <2> QED
    BY <2>1, SameScreen DEF dialogVars
<1>7. CASE ChangeDialogEvent
  BY <1>7 DEF ChangeDialogEvent, ChangeDialog, ScreenInv, TextsFollow, OkIsNamed
<1>8. CASE Browser \/ Help \/ UNCHANGED vars
  BY <1>8, <1>s DEF Browser, Help, vars
<1> QED
  BY <1>1, <1>2, <1>3, <1>4, <1>5, <1>6, <1>7, <1>8 DEF Next

LEMMA ScreenInvariance == Spec => []ScreenInv
<1>1. Init => ScreenInv
  BY DEF Init, LanguageInit, ScreenInv, TextsFollow, OkIsNamed
<1>2. ScreenInv /\ LanguageTypeOK /\ [Next]_vars => ScreenInv'
  BY ScreenStep
<1> QED
  BY <1>1, <1>2, LanguageTypeInvariance, PTL DEF Spec

(* Once LanguageChange has been handled, every label says what it has been *)
(* told in the language that is loaded, whatever slots ran between the     *)
(* click and the event (webeiddialog.cpp:450 event), the OK button is      *)
(* named for what it does, and the selection is in that language at once   *)
(* (languageselect.cpp:34).                                                *)
THEOREM ScreenIsAlwaysTranslated == Spec => []ScreenIsTranslated
<1>1. ScreenInv /\ LanguageInv => ScreenIsTranslated
  <2> SUFFICES ASSUME ScreenInv, LanguageInv PROVE ScreenIsTranslated
    OBVIOUS
  <2>1. chooser.open => chooser.in = loaded
    BY DEF LanguageInv, ChooserFollows
  <2>2. ASSUME shown # "none", change = {} PROVE text = In(loaded, says)
    BY <2>2 DEF ScreenInv, TextsFollow
  <2>3. ASSUME shown # "none", change = {}, action # "none"
        PROVE  text["okButton"] = Tr(loaded, Msg(OkTexts[action]))
    <3>1. "okButton" \in Labels
      BY DEF Labels
    <3> QED
      BY <2>2, <2>3, <3>1 DEF ScreenInv, OkIsNamed, In
  <2> QED
    BY <2>1, <2>2, <2>3 DEF ScreenIsTranslated
<1> QED
  BY <1>1, ScreenInvariance, LanguageInvariance, PTL
=============================================================================
