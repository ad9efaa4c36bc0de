--------------------------- MODULE Dialog_proofs ---------------------------
(***************************************************************************)
(* Proofs about the widgets of the dialog, for any commands, certificates  *)
(* and number of confirm threads: OK stands for the certificate the user   *)
(* sees, a PIN fits the certificate it is for, OK on the selection page    *)
(* has a certificate, and the user can leave when nothing is at work.      *)
(*                                                                         *)
(* The lemmas say first what each function does to the widgets, then that  *)
(* each action preserves the invariant; the invariant says what the        *)
(* closure behind OK has captured and what may have changed since.         *)
(*                                                                         *)
(* Sure is what holds in any order of the signals; Inv holds as long as    *)
(* each has come in its turn, and again for every new dialog.              *)
(*                                                                         *)
(* The second part proves that the widgets implement the pages of          *)
(* DialogPages, which Controller reasons about, and that one PIN is used   *)
(* at a time. For each action the page before and the page after are read  *)
(* off the widgets; the step from one to the other is one of DialogPages,  *)
(* or the user sees no change.                                             *)
(***************************************************************************)
EXTENDS Dialog, FiniteSetTheorems, TLAPS

MaybeCertificates == Certificates \cup {NoCertificate}
Texts == Rules \cup {"", "beginning"}
Actions == {"nothing", "accept", "acceptChecked", "choose", "acceptPin", "retry"}
Button == [visible : BOOLEAN, enabled : BOOLEAN]
Widgets ==
    [current : Commands \cup {"insert-card"},
     stack : {"waiting", "alert", "select", "pin"},
     ok : [visible : BOOLEAN, enabled : BOOLEAN, does : Actions, certificate : MaybeCertificates],
     cancel : Button,
     input : [visible : BOOLEAN, text : Texts],
     validator : Rules \cup {NoRule},
     bar : BOOLEAN, another : BOOLEAN,
     others : SUBSET Certificates,
     buttons : SUBSET Certificates,
     checked : MaybeCertificates, displayed : MaybeCertificates]

Typed ==
    /\ open \in BOOLEAN /\ command \in Commands /\ ui \in Widgets
    /\ working \in Seq(Certificates) /\ offered \subseteq Certificates
    /\ pin \in Texts /\ turn \in {"look", "read", "ask"} /\ strays \in Nat /\ strays <= MaxStrays

(* Whatever the order of the signals: a dialog that has been told that no  *)
(* card is there shows it, OK is connected to an action that belongs to    *)
(* the command and the page, and when a PIN is handed on the validator has *)
(* the rule of the certificate that goes with it.                          *)
SureInv ==
    /\ ui.current # command =>
         /\ ui.current = "insert-card" /\ ui.stack = "alert"
         /\ ui.ok.visible => ui.ok.does = "retry"
    /\ ui.another => command = "authenticate"
    /\ ui.ok.does \in {"accept", "acceptChecked"} => command = "get-signing-certificate"
    /\ ui.ok.does = "choose" => command = "authenticate"
    /\ ui.stack = "select" =>
         /\ ui.ok.does \in {"accept", "acceptChecked", "choose"}
         /\ ui.ok.enabled => ui.ok.does = "accept" \/ ui.checked # NoCertificate
    /\ ui.ok.does = "acceptPin" =>
         /\ command # "get-signing-certificate" /\ ui.ok.certificate \in Certificates
         /\ ui.ok.certificate.mode = "keyboard" =>
              /\ ui.validator = ui.ok.certificate.rule
              /\ ui.ok.enabled => ui.input.text = ui.ok.certificate.rule

(* The rest holds as long as each signal comes in its turn.                *)
(* Until the user is asked nothing has been offered, and OK does nothing.  *)
TurnInv ==
    /\ strays = 0
    /\ turn # "ask" =>
         ui.stack \in {"waiting", "alert"} /\ ui.ok.does = "nothing" /\ ~ui.another /\ offered = {}
    /\ turn = "read" => ui.stack = "waiting"
    /\ ui.another => ui.others = offered

(* Which action OK may have on which page.                                 *)
PageInv ==
    /\ ui.current # command => ui.stack = "alert"
    /\ ui.stack = "waiting" => ui.ok.does = "nothing"
    /\ ui.stack = "select" => ui.ok.does \in {"accept", "acceptChecked", "choose"}
    /\ ui.ok.does \in {"accept", "acceptChecked"} =>
         command = "get-signing-certificate" /\ ui.stack = "select"
    /\ ui.ok.does = "choose" =>
         /\ command = "authenticate" /\ ui.stack \in {"select", "pin"}
         /\ ui.stack = "pin" => ~ui.ok.visible
    /\ ui.another => command = "authenticate"
    /\ ui.stack \in {"select", "pin"} \/ working # <<>> => offered # {}

(* A button that is checked stands for a certificate that can be used once *)
(* OK is enabled on the selection page.                                    *)
CheckedInv ==
    /\ ui.checked # NoCertificate => ui.checked.state = "valid"
    /\ ui.stack = "select" /\ ui.ok.enabled =>
         ui.checked # NoCertificate /\ IsCardActive(ui, ui.checked)
    /\ ui.ok.does = "accept" =>
         /\ ui.ok.certificate \in Certificates
         /\ ui.buttons = {ui.ok.certificate}
         /\ ui.ok.enabled => ui.checked = ui.ok.certificate

(* The PIN page as the closure behind OK found it: the certificate is the  *)
(* one on the page, the validator has its rule, and OK is enabled by a PIN *)
(* of that rule only.  A card that is not active never has OK enabled,     *)
(* because no confirm thread is there to bring the input back.             *)
PinInv ==
    ui.ok.does = "acceptPin" =>
        /\ ui.stack = "pin" /\ command # "get-signing-certificate"
        /\ ui.ok.certificate \in Certificates /\ ui.ok.certificate = ui.displayed
        /\ ui.ok.certificate.state = "valid"
        /\ ui.ok.certificate.mode \in {"keyboard", "external"}
        /\ ui.ok.certificate.mode = "keyboard" =>
             /\ ui.validator = ui.ok.certificate.rule
             /\ ui.ok.enabled => ui.input.text = ui.ok.certificate.rule
        /\ ~IsCardActive(ui, ui.ok.certificate) =>
             working = <<>> /\ ~ui.ok.enabled /\ ~ui.input.visible

(* Cancel is disabled or hidden, and the progress bar shown, only while a  *)
(* confirm thread is there to change that.                                 *)
LeaveInv ==
    /\ working = <<>> => ui.cancel.enabled
    /\ ~ui.cancel.visible => ui.bar /\ ui.stack = "pin"
    /\ ui.bar => \/ ui.stack = "pin" /\ working # <<>> /\ ~ui.another /\ ~ui.ok.visible
                 \/ ui.stack = "alert" /\ ui.ok.does = "retry"

Inv == Typed /\ TurnInv /\ PageInv /\ CheckedInv /\ PinInv /\ LeaveInv

-----------------------------------------------------------------------------
(* What the functions do to the widgets.                                   *)

(* Everything but the OK and Cancel buttons, the input, the bar and the    *)
(* page is as it was.                                                      *)
Keeps(u, v) ==
    /\ v \in Widgets
    /\ v.current = u.current /\ v.validator = u.validator /\ v.another = u.another
    /\ v.others = u.others /\ v.buttons = u.buttons /\ v.checked = u.checked /\ v.displayed = u.displayed

(* The input, the bar and the page are.                                    *)
KeepsPage(u, v) == v.stack = u.stack /\ v.bar = u.bar /\ v.input = u.input

LEMMA NoCertificateIsNone == NoCertificate \notin Certificates
BY CertificatesOK DEF NoCertificate

LEMMA SetTextEffect ==
    ASSUME NEW u \in Widgets, NEW t \in Texts
    PROVE  LET v == SetText(u, t) IN
           /\ Keeps(u, v) /\ v.stack = u.stack /\ v.bar = u.bar /\ v.cancel = u.cancel
           /\ v.ok.visible = u.ok.visible /\ v.ok.does = u.ok.does
           /\ v.ok.certificate = u.ok.certificate /\ v.input.visible = u.input.visible
           /\ v.input.text = t
           /\ t = u.input.text => v = u
           /\ t # u.input.text => v.ok.enabled = Acceptable(u, t)
<1> DEFINE e == Acceptable(u, t)
           w == [u EXCEPT !.input.text = t, !.ok.enabled = e]
<1>1. e \in BOOLEAN
  BY DEF Acceptable
<1>2. w \in Widgets
  <2> HIDE DEF e
  <2> QED
    BY <1>1 DEF Widgets
<1>3. CASE t = u.input.text
  BY <1>3 DEF SetText, Keeps
<1>4. CASE t # u.input.text
  <2>1. SetText(u, t) = w
    BY <1>4 DEF SetText
  <2> HIDE DEF e
  <2> QED
    BY <1>1, <1>2, <1>4, <2>1 DEF Keeps, Widgets, e
<1> QED
  BY <1>3, <1>4

LEMMA SetupOKEffect ==
    ASSUME NEW u \in Widgets, NEW does \in Actions, NEW c \in MaybeCertificates, NEW e \in BOOLEAN
    PROVE  LET v == SetupOK(u, does, c, e) IN
           /\ Keeps(u, v) /\ KeepsPage(u, v)
           /\ v.ok = [visible |-> TRUE, enabled |-> e, does |-> does, certificate |-> c]
           /\ v.cancel = [visible |-> TRUE, enabled |-> TRUE]
BY DEF SetupOK, Keeps, KeepsPage, Widgets, Button

LEMMA DisplayFatalErrorEffect ==
    ASSUME NEW u \in Widgets
    PROVE  LET v == DisplayFatalError(u) IN
           /\ Keeps(u, v) /\ v.stack = u.stack /\ v.bar = FALSE
           /\ v.ok.visible = FALSE /\ v.ok.enabled = u.ok.enabled
           /\ v.ok.does = u.ok.does /\ v.ok.certificate = u.ok.certificate
           /\ v.input.visible = FALSE /\ v.input.text = u.input.text
           /\ v.cancel = [visible |-> TRUE, enabled |-> TRUE]
BY DEF DisplayFatalError, Keeps, Widgets, Button

LEMMA OnRetryImplEffect ==
    ASSUME NEW u \in Widgets
    PROVE  LET v == OnRetryImpl(u) IN
           /\ Keeps(u, v) /\ v.stack = "alert" /\ v.ok.does = "retry"
           /\ v.ok.visible = TRUE /\ v.ok.enabled = TRUE
           /\ v.cancel = [visible |-> TRUE, enabled |-> TRUE]
BY DEF OnRetryImpl, SetupOK, Keeps, Widgets, Button, Actions, MaybeCertificates

LEMMA SetupPinPromptEffect ==
    ASSUME NEW u \in Widgets, NEW c \in Certificates
    PROVE  LET v == SetupPinPrompt(u, c)
               pad == c.mode = "pinpad"
               active == IsCardActive(u, c)
           IN /\ Keeps(u, v) /\ v.stack = u.stack
              /\ v.ok.visible = (~pad /\ active) /\ v.ok.enabled = u.ok.enabled
              /\ v.ok.does = u.ok.does /\ v.ok.certificate = u.ok.certificate
              /\ v.input.visible = (~pad /\ active) /\ v.input.text = u.input.text
              /\ v.bar = (pad /\ active)
              /\ v.cancel.visible = ~(pad /\ active) /\ v.cancel.enabled = u.cancel.enabled
<1>1. IsCardActive(u, c) \in BOOLEAN
  BY DEF IsCardActive
<1> QED
  BY <1>1 DEF SetupPinPrompt, Keeps, Widgets, Button

LEMMA ActionsAndCertificates ==
    /\ {"nothing", "accept", "acceptChecked", "choose", "acceptPin", "retry"} \subseteq Actions
    /\ Certificates \subseteq MaybeCertificates /\ NoCertificate \in MaybeCertificates
    /\ TRUE \in BOOLEAN /\ FALSE \in BOOLEAN
BY DEF Actions, MaybeCertificates

LEMMA OnMultipleEffect ==
    ASSUME NEW u \in Widgets, NEW list, list \subseteq Certificates
    PROVE  LET v == OnMultipleCertificatesReady(u, list) IN
           /\ v \in Widgets /\ v.current = u.current /\ v.stack = "select"
           /\ v.ok.visible = TRUE /\ v.ok.enabled = FALSE
           /\ u.current = "authenticate" => v.ok.does = "choose"
           /\ u.current # "authenticate" => v.ok.does = "acceptChecked"
           /\ v.cancel = [visible |-> TRUE, enabled |-> TRUE]
           /\ v.bar = u.bar /\ v.checked = NoCertificate
           /\ u.current = "authenticate" => v.another = (Cardinality(list) > 1)
           /\ u.current # "authenticate" => v.another = u.another
<1> DEFINE w == SetupCertificates(u, list)
           many == Cardinality(list) > 1
           a == [w EXCEPT !.another = many, !.others = list]
<1>1. w \in Widgets /\ w.current = u.current /\ w.bar = u.bar /\ w.checked = NoCertificate
      /\ w.another = u.another /\ w.others = u.others
  BY DEF SetupCertificates, Widgets, MaybeCertificates
<1>2. many \in BOOLEAN
  OBVIOUS
<1> HIDE DEF w, many
<1>3. a \in Widgets /\ a.current = u.current /\ a.bar = u.bar /\ a.checked = NoCertificate
      /\ a.another = many /\ a.others = list
  BY <1>1, <1>2 DEF Widgets
<1> HIDE DEF a
<1>4. CASE u.current = "authenticate"
  <2> DEFINE b == SetupOK(a, "choose", NoCertificate, FALSE)
  <2>1. /\ Keeps(a, b) /\ KeepsPage(a, b)
        /\ b.ok = [visible |-> TRUE, enabled |-> FALSE, does |-> "choose",
                   certificate |-> NoCertificate]
        /\ b.cancel = [visible |-> TRUE, enabled |-> TRUE]
    BY <1>3, SetupOKEffect, ActionsAndCertificates
  <2>2. OnMultipleCertificatesReady(u, list) = [b EXCEPT !.stack = "select"]
    BY <1>4 DEF OnMultipleCertificatesReady, a, w, many
  <2> HIDE DEF b
  <2> QED
    BY <1>3, <1>4, <2>1, <2>2 DEF Keeps, KeepsPage, Widgets, many
<1>5. CASE u.current # "authenticate"
  <2> DEFINE b == SetupOK(w, "acceptChecked", NoCertificate, FALSE)
  <2>1. /\ Keeps(w, b) /\ KeepsPage(w, b)
        /\ b.ok = [visible |-> TRUE, enabled |-> FALSE, does |-> "acceptChecked",
                   certificate |-> NoCertificate]
        /\ b.cancel = [visible |-> TRUE, enabled |-> TRUE]
    BY <1>1, SetupOKEffect, ActionsAndCertificates
  <2>2. OnMultipleCertificatesReady(u, list) = [b EXCEPT !.stack = "select"]
    BY <1>5 DEF OnMultipleCertificatesReady, w
  <2> HIDE DEF b
  <2> QED
    BY <1>1, <1>5, <2>1, <2>2 DEF Keeps, KeepsPage, Widgets
<1> QED
  BY <1>4, <1>5

LEMMA OnMultipleOthers ==
    ASSUME NEW u \in Widgets, NEW list, list \subseteq Certificates, u.current = "authenticate"
    PROVE  OnMultipleCertificatesReady(u, list).others = list
BY DEF OnMultipleCertificatesReady, SetupOK, SetupCertificates, Widgets

LEMMA ClickEffect ==
    ASSUME NEW u \in Widgets, NEW c \in Certificates
    PROVE  LET v == Click(u, c) IN
           /\ v \in Widgets /\ KeepsPage(u, v) /\ v.current = u.current
           /\ v.cancel = u.cancel /\ v.buttons = u.buttons /\ v.another = u.another
           /\ v.others = u.others
           /\ v.validator = u.validator /\ v.displayed = u.displayed
           /\ v.ok.visible = u.ok.visible /\ v.ok.does = u.ok.does
           /\ v.ok.certificate = u.ok.certificate
           /\ c.state # "valid" => v = u
           /\ c.state = "valid" => v.checked = c /\ v.ok.enabled = IsCardActive(u, c)
<1> DEFINE e == IsCardActive(u, c)
<1>1. e \in BOOLEAN
  BY DEF IsCardActive
<1>2. CASE c.state # "valid"
  BY <1>2 DEF Click, KeepsPage
<1>3. CASE c.state = "valid"
  <2> DEFINE w == [u EXCEPT !.checked = c]
             v == [w EXCEPT !.ok.enabled = e]
  <2>1. Click(u, c) = v
    BY <1>3 DEF Click
  <2> HIDE DEF e
  <2>2. /\ w \in Widgets /\ KeepsPage(u, w) /\ w.current = u.current /\ w.ok = u.ok
        /\ w.cancel = u.cancel /\ w.buttons = u.buttons /\ w.another = u.another
        /\ w.others = u.others
        /\ w.validator = u.validator /\ w.displayed = u.displayed /\ w.checked = c
    BY DEF KeepsPage, Widgets, MaybeCertificates
  <2> HIDE DEF w
  <2>3. v \in Widgets
    BY <1>1, <2>2 DEF Widgets
  <2>4. /\ KeepsPage(w, v) /\ v.current = w.current
        /\ v.cancel = w.cancel /\ v.buttons = w.buttons /\ v.another = w.another
        /\ v.others = w.others
        /\ v.validator = w.validator /\ v.displayed = w.displayed /\ v.checked = w.checked
        /\ v.ok.visible = w.ok.visible /\ v.ok.does = w.ok.does
        /\ v.ok.certificate = w.ok.certificate /\ v.ok.enabled = e
    BY <1>1, <2>2 DEF KeepsPage, Widgets
  <2> HIDE DEF v
  <2> QED
    BY <1>3, <2>1, <2>2, <2>3, <2>4 DEF KeepsPage, e
<1> QED
  BY <1>2, <1>3

(* With one certificate to confirm: get-signing-certificate.               *)
LEMMA OnSingleToSelect ==
    ASSUME NEW u \in Widgets, NEW c \in Certificates, u.current = "get-signing-certificate"
    PROVE  LET v == OnSingleCertificateReady(u, c) IN
           /\ v \in Widgets /\ v.current = u.current /\ v.stack = "select"
           /\ v.bar = u.bar /\ v.cancel = [visible |-> TRUE, enabled |-> TRUE]
           /\ v.another = u.another /\ v.buttons = {c}
           /\ v.ok.visible = TRUE /\ v.ok.does = "accept" /\ v.ok.certificate = c
           /\ c.state # "valid" => v.checked = NoCertificate /\ v.ok.enabled = FALSE
           /\ c.state = "valid" => v.checked = c /\ v.ok.enabled = IsCardActive(u, c)
<1> DEFINE w == SetupCertificates(u, {c})
           a == SetupOK(w, "accept", c, FALSE)
           b == Click(a, c)
<1>1. w \in Widgets /\ w.current = u.current /\ w.bar = u.bar /\ w.checked = NoCertificate
      /\ w.another = u.another /\ w.others = u.others /\ w.buttons = {c}
  BY DEF SetupCertificates, Widgets, MaybeCertificates
<1> HIDE DEF w
<1>2. /\ Keeps(w, a) /\ KeepsPage(w, a)
      /\ a.ok = [visible |-> TRUE, enabled |-> FALSE, does |-> "accept", certificate |-> c]
      /\ a.cancel = [visible |-> TRUE, enabled |-> TRUE]
  BY <1>1, SetupOKEffect, ActionsAndCertificates
<1> HIDE DEF a
<1>3. IsCardActive(a, c) = IsCardActive(u, c)
  BY <1>1, <1>2 DEF Keeps, IsCardActive
<1>4. /\ b \in Widgets /\ b.current = u.current /\ b.bar = u.bar
      /\ b.cancel = [visible |-> TRUE, enabled |-> TRUE]
      /\ b.another = u.another /\ b.others = u.others /\ b.buttons = {c}
      /\ b.ok.visible = TRUE /\ b.ok.does = "accept" /\ b.ok.certificate = c
      /\ c.state # "valid" => b.checked = NoCertificate /\ b.ok.enabled = FALSE
      /\ c.state = "valid" => b.checked = c /\ b.ok.enabled = IsCardActive(u, c)
  BY <1>1, <1>2, <1>3, ClickEffect DEF Keeps, KeepsPage
<1>5. OnSingleCertificateReady(u, c) = [b EXCEPT !.stack = "select"]
  BY DEF OnSingleCertificateReady, a, w
<1> HIDE DEF b
<1> QED
  BY <1>4, <1>5 DEF Widgets

(* The PIN page, by what the certificate needs.                            *)
OnPinPage(u, c, v) ==
    /\ v \in Widgets /\ v.current = u.current /\ v.stack = "pin"
    /\ v.displayed = c /\ v.checked = u.checked
    /\ v.others = u.others
    /\ v.another => u.another

LEMMA OnSingleToPin ==
    ASSUME NEW u \in Widgets, NEW c \in Certificates, u.current # "get-signing-certificate"
    PROVE  LET v == OnSingleCertificateReady(u, c) IN
           /\ OnPinPage(u, c, v)
           /\ c.state # "valid" \/ c.mode = "pinpad" =>
                /\ v.ok.does = u.ok.does /\ v.ok.certificate = u.ok.certificate
                /\ v.ok.enabled = u.ok.enabled
                /\ v.validator = u.validator /\ v.input.text = u.input.text
           /\ c.state = "expired" =>
                /\ v.ok = u.ok /\ v.bar = u.bar /\ v.cancel = u.cancel
           /\ c.state = "blocked" \/ (c.state = "valid" /\ c.mode = "pinpad") =>
                v.ok.does = u.ok.does /\ v.ok.visible = FALSE
           /\ c.state = "blocked" =>
                /\ v.bar = FALSE /\ v.cancel = [visible |-> TRUE, enabled |-> TRUE]
           /\ c.state = "valid" /\ c.mode = "pinpad" =>
                /\ v.bar = IsCardActive(u, c) /\ v.cancel.visible = ~IsCardActive(u, c)
                /\ v.cancel.enabled = u.cancel.enabled
                /\ v.bar => ~v.another
           /\ c.state = "valid" /\ c.mode # "pinpad" =>
                /\ v.ok = [visible |-> TRUE, enabled |-> (c.mode = "external"),
                           does |-> "acceptPin", certificate |-> c]
                /\ v.cancel = [visible |-> TRUE, enabled |-> TRUE]
                /\ c.mode = "external" => v.bar = u.bar
                /\ c.mode = "keyboard" =>
                     /\ v.bar = FALSE /\ v.validator = c.rule
                     /\ v.input.visible = IsCardActive(u, c)
<1> DEFINE w == [u EXCEPT !.displayed = c]
           s == ShowCertificate(u, c)
           v == OnSingleCertificateReady(u, c)
<1>w. /\ w \in Widgets /\ w.current = u.current /\ w.stack = u.stack /\ w.displayed = c
      /\ w.ok = u.ok /\ w.cancel = u.cancel /\ w.input = u.input /\ w.bar = u.bar
      /\ w.validator = u.validator /\ w.another = u.another /\ w.checked = u.checked
      /\ w.others = u.others
  BY DEF Widgets, MaybeCertificates
<1>v. v = [s EXCEPT !.stack = "pin"]
  BY DEF OnSingleCertificateReady
<1>a. IsCardActive(w, c) = IsCardActive(u, c) /\ IsCardActive(u, c) \in BOOLEAN
  BY <1>w DEF IsCardActive
<1> HIDE DEF v
<1>1. CASE c.state = "expired"
  <2>1. s = w
    BY <1>1 DEF ShowCertificate
  <2> HIDE DEF w, s
  <2> QED
    BY <1>w, <1>v, <1>1, <2>1 DEF OnPinPage, Widgets, v
<1>2. CASE c.state = "blocked"
  <2>1. s = DisplayFatalError(w)
    BY <1>2 DEF ShowCertificate
  <2> HIDE DEF w, s
  <2>2. /\ s \in Widgets /\ s.current = u.current /\ s.displayed = c /\ s.checked = u.checked
        /\ s.others = u.others
        /\ s.another = u.another /\ s.ok.does = u.ok.does /\ s.ok.visible = FALSE
        /\ s.bar = FALSE /\ s.cancel = [visible |-> TRUE, enabled |-> TRUE]
        /\ s.ok.certificate = u.ok.certificate /\ s.ok.enabled = u.ok.enabled
        /\ s.validator = u.validator /\ s.input.text = u.input.text
    <3>1. /\ Keeps(w, s) /\ s.ok.does = w.ok.does /\ s.ok.visible = FALSE
          /\ s.ok.certificate = w.ok.certificate /\ s.ok.enabled = w.ok.enabled
          /\ s.input.text = w.input.text
          /\ s.bar = FALSE /\ s.cancel = [visible |-> TRUE, enabled |-> TRUE]
      BY <1>w, <2>1, DisplayFatalErrorEffect
    <3> QED
      BY <1>w, <3>1 DEF Keeps
  <2> QED
    BY <1>v, <1>2, <2>2 DEF OnPinPage, Widgets, v
<1>3. CASE c.state = "valid" /\ c.mode = "external"
  <2>1. s = SetupOK(w, "acceptPin", c, TRUE)
    BY <1>3 DEF ShowCertificate
  <2> HIDE DEF w, s
  <2>2. /\ s \in Widgets /\ s.current = u.current /\ s.displayed = c /\ s.checked = u.checked
        /\ s.others = u.others
        /\ s.another = u.another /\ s.bar = u.bar
        /\ s.ok = [visible |-> TRUE, enabled |-> TRUE, does |-> "acceptPin", certificate |-> c]
        /\ s.cancel = [visible |-> TRUE, enabled |-> TRUE]
    <3>1. /\ Keeps(w, s) /\ KeepsPage(w, s)
          /\ s.ok = [visible |-> TRUE, enabled |-> TRUE, does |-> "acceptPin", certificate |-> c]
          /\ s.cancel = [visible |-> TRUE, enabled |-> TRUE]
      BY <1>w, <2>1, SetupOKEffect, ActionsAndCertificates
    <3> QED
      BY <1>w, <3>1 DEF Keeps, KeepsPage
  <2> QED
    BY <1>v, <1>3, <2>2 DEF OnPinPage, Widgets, v
<1>4. CASE c.state = "valid" /\ c.mode = "pinpad"
  <2> DEFINE p == SetupPinPrompt(w, c)
             active == IsCardActive(u, c)
  <2>1. s = [p EXCEPT !.another = @ /\ ~active]
    BY <1>4, <1>a DEF ShowCertificate, SetupPinPad
  <2>2. /\ Keeps(w, p)
        /\ p.ok.visible = FALSE /\ p.ok.does = w.ok.does
        /\ p.ok.certificate = w.ok.certificate /\ p.ok.enabled = w.ok.enabled
        /\ p.input.text = w.input.text
        /\ p.bar = active /\ p.cancel.visible = ~active /\ p.cancel.enabled = w.cancel.enabled
    BY <1>4, <1>w, <1>a, SetupPinPromptEffect
  <2> HIDE DEF w, s, p, active
  <2>3. /\ s \in Widgets /\ s.current = u.current /\ s.displayed = c /\ s.checked = u.checked
        /\ s.others = u.others
        /\ s.another = (u.another /\ ~active)
        /\ s.ok.visible = FALSE /\ s.ok.does = u.ok.does
        /\ s.ok.certificate = u.ok.certificate /\ s.ok.enabled = u.ok.enabled
        /\ s.validator = u.validator /\ s.input.text = u.input.text
        /\ s.bar = active /\ s.cancel.visible = ~active /\ s.cancel.enabled = u.cancel.enabled
    BY <1>w, <2>1, <2>2 DEF Keeps, Widgets
  <2> QED
    BY <1>v, <1>4, <2>3 DEF OnPinPage, Widgets, v, active
<1>5. CASE c.state = "valid" /\ c.mode = "keyboard"
  <2> DEFINE p == SetupPinPrompt(w, c)
             r == [p EXCEPT !.validator = c.rule]
             active == IsCardActive(u, c)
  <2>1. s = SetupOK(r, "acceptPin", c, FALSE)
    BY <1>5 DEF ShowCertificate, SetupPinInput
  <2>2. Keeps(w, p) /\ p.bar = FALSE /\ p.input.visible = active
    BY <1>5, <1>w, <1>a, SetupPinPromptEffect
  <2>3. /\ r \in Widgets /\ r.current = u.current /\ r.displayed = c /\ r.checked = u.checked
        /\ r.others = u.others
        /\ r.another = u.another /\ r.validator = c.rule /\ r.bar = FALSE
        /\ r.input.visible = active
    <3> HIDE DEF w, p, active
    <3> QED
      BY <1>w, <2>2 DEF Keeps, Widgets, Rules
  <2> HIDE DEF w, s, p, r, active
  <2>4. /\ s \in Widgets /\ s.current = u.current /\ s.displayed = c /\ s.checked = u.checked
        /\ s.others = u.others
        /\ s.another = u.another /\ s.validator = c.rule /\ s.bar = FALSE
        /\ s.input.visible = active
        /\ s.ok = [visible |-> TRUE, enabled |-> FALSE, does |-> "acceptPin", certificate |-> c]
        /\ s.cancel = [visible |-> TRUE, enabled |-> TRUE]
    <3>1. /\ Keeps(r, s) /\ KeepsPage(r, s)
          /\ s.ok = [visible |-> TRUE, enabled |-> FALSE, does |-> "acceptPin", certificate |-> c]
          /\ s.cancel = [visible |-> TRUE, enabled |-> TRUE]
      BY <2>1, <2>3, SetupOKEffect, ActionsAndCertificates
    <3> QED
      BY <2>3, <3>1 DEF Keeps, KeepsPage
  <2> QED
    BY <1>v, <1>5, <2>4 DEF OnPinPage, Widgets, v, active
<1> QED
  BY <1>1, <1>2, <1>3, <1>4, <1>5, CertificatesOK DEF v

-----------------------------------------------------------------------------
(* Facts about certificates and threads.                                   *)

LEMMA RuleIsAPattern ==
    ASSUME NEW c \in Certificates
    PROVE  /\ c.rule \in Rules /\ c.rule # NoRule /\ NoRule \notin Rules
           /\ c.mode \in {"keyboard", "pinpad", "external"}
           /\ c.state \in {"valid", "expired", "blocked"}
           /\ c.mode = "external" => c.active = "both"
BY CertificatesOK DEF Rules

LEMMA SameCommandSameActive ==
    ASSUME NEW u, NEW v, NEW c, u.current = v.current
    PROVE  IsCardActive(u, c) = IsCardActive(v, c) /\ IsCardActive(u, c) \in BOOLEAN
BY DEF IsCardActive

LEMMA AppendEffect ==
    ASSUME NEW s \in Seq(Certificates), NEW c \in Certificates
    PROVE  /\ Append(s, c) \in Seq(Certificates) /\ Append(s, c) # <<>>
           /\ Last(Append(s, c)) = c /\ Len(Append(s, c)) > Len(s)
BY DEF Last

LEMMA EmptySequence ==
    /\ <<>> \in Seq(Certificates)
    /\ \A s \in Seq(Certificates) : ~(Len(<<>>) > Len(s))
OBVIOUS

LEMMA TailEffect ==
    ASSUME NEW s \in Seq(Certificates), s # <<>>
    PROVE  Tail(s) \in Seq(Certificates) /\ ~(Len(Tail(s)) > Len(s))
OBVIOUS

-----------------------------------------------------------------------------
(* A thread that is started has a certificate the user sees, and its PIN.  *)
StartOK ==
    Starts => LET c == Last(working') IN
                /\ c.state = "valid" /\ IsCardActive(ui, c)
                /\ c = IF command = "get-signing-certificate" THEN ui'.checked
                       ELSE ui'.displayed
                /\ c.mode = "keyboard" /\ command # "get-signing-certificate"
                     => pin' = c.rule

LEMMA NewWidgetsEffect ==
    ASSUME command \in Commands
    PROVE  /\ NewWidgets \in Widgets /\ NewWidgets.stack = "waiting"
           /\ NewWidgets.ok.does = "nothing" /\ NewWidgets.current = command
           /\ NewWidgets.checked = NoCertificate /\ NewWidgets.another = FALSE
           /\ NewWidgets.ok.visible = FALSE
           /\ NewWidgets.bar = FALSE /\ NewWidgets.cancel = [visible |-> TRUE, enabled |-> TRUE]
BY ActionsAndCertificates DEF NewWidgets, Widgets, Button, Texts

LEMMA ZeroStrays == 0 \in Nat /\ 0 <= MaxStrays
BY BoundsOK

LEMMA InitInv == Init => Inv
<1> SUFFICES ASSUME Init PROVE Inv
  OBVIOUS
<1>0. /\ open = FALSE /\ command \in Commands /\ ui = NewWidgets
      /\ pin = "" /\ working = <<>> /\ offered = {} /\ turn = "look" /\ strays = 0
  BY DEF Init
<1>1. /\ ui \in Widgets /\ ui.stack = "waiting" /\ ui.ok.does = "nothing"
      /\ ui.current = command /\ ui.checked = NoCertificate /\ ui.another = FALSE
      /\ ui.bar = FALSE /\ ui.cancel = [visible |-> TRUE, enabled |-> TRUE]
  BY <1>0, NewWidgetsEffect
<1>2. Typed /\ TurnInv
  <2>1. strays \in Nat /\ strays <= MaxStrays
    BY <1>0, ZeroStrays
  <2> QED
    BY <1>0, <1>1, <2>1, EmptySequence DEF Typed, Texts, TurnInv
<1>3. PageInv /\ CheckedInv
  BY <1>0, <1>1 DEF PageInv, CheckedInv
<1>4. PinInv /\ LeaveInv
  BY <1>1 DEF PinInv, LeaveInv
<1> QED
  BY <1>2, <1>3, <1>4 DEF Inv

LEMMA CloseInv == Typed /\ Close => Inv' /\ StartOK
<1> SUFFICES ASSUME Typed, Close PROVE Inv' /\ StartOK
  OBVIOUS
<1>0. /\ open' = FALSE /\ ui' = NewWidgets /\ pin' = "" /\ working' = <<>> /\ offered' = {}
      /\ turn' = "look" /\ strays' = 0
      /\ command' = command /\ command \in Commands /\ working \in Seq(Certificates)
  BY DEF Close, Typed
<1>1. /\ ui' \in Widgets /\ ui'.stack = "waiting" /\ ui'.ok.does = "nothing"
      /\ ui'.current = command' /\ ui'.checked = NoCertificate /\ ui'.another = FALSE
      /\ ui'.bar = FALSE /\ ui'.cancel = [visible |-> TRUE, enabled |-> TRUE]
  BY <1>0, NewWidgetsEffect
<1>2. Typed' /\ TurnInv'
  <2>1. strays' \in Nat /\ strays' <= MaxStrays
    BY <1>0, ZeroStrays
  <2> QED
    BY <1>0, <1>1, <2>1, EmptySequence DEF Typed, Texts, TurnInv
<1>3. PageInv' /\ CheckedInv'
  BY <1>0, <1>1 DEF PageInv, CheckedInv
<1>4. PinInv' /\ LeaveInv'
  BY <1>1 DEF PinInv, LeaveInv
<1>5. ~Starts
  BY <1>0, EmptySequence DEF Starts
<1> QED
  BY <1>2, <1>3, <1>4, <1>5 DEF Inv, StartOK

LEMMA SameInv ==
    ASSUME Inv, UNCHANGED <<ui, command, working, offered, turn, strays>>, open' \in BOOLEAN, pin' \in Texts
    PROVE  Inv' /\ StartOK
<1>1. Typed' /\ ~Starts
  BY DEF Inv, Typed, Starts
<1>2. TurnInv' /\ PageInv' /\ CheckedInv' /\ PinInv' /\ LeaveInv'
  BY DEF Inv, TurnInv, PageInv, CheckedInv, PinInv, LeaveInv, IsCardActive
<1> QED
  BY <1>1, <1>2 DEF Inv, StartOK

(* Once the user is asked, the turn is over, and what is offered is known. *)
LEMMA AskedTurn ==
    ASSUME Inv, ui.stack \in {"select", "pin"} \/ ui.ok.does # "nothing" \/ working # <<>>,
           UNCHANGED <<offered, turn, strays>>,
           ui'.another => (ui.another /\ ui'.others = ui.others) \/ ui'.others = offered
    PROVE  TurnInv'
BY DEF Inv, Typed, TurnInv, PageInv

LEMMA StatusUpdateInv == Inv /\ StatusUpdate /\ strays' = 0 => Inv' /\ StartOK
<1> SUFFICES ASSUME Inv, StatusUpdate, strays' = 0 PROVE Inv' /\ StartOK
  OBVIOUS
<1> DEFINE v == [ui EXCEPT !.current = "insert-card", !.cancel.visible = TRUE,
                           !.ok.visible = FALSE, !.stack = "alert"]
<1>1. /\ turn = "look" /\ ui.stack \in {"waiting", "alert"} /\ ui.ok.does = "nothing" /\ ui' = v
      /\ UNCHANGED <<open, command, pin, offered, turn, strays, working>>
  BY DEF StatusUpdate, Slot, Turn, Inv, TurnInv
<1>2. ui \in Widgets
  BY DEF Inv, Typed
<1>t. v \in Widgets
  BY <1>2 DEF Widgets, Button
<1>3. /\ v.stack = "alert" /\ v.ok.does = "nothing" /\ v.others = ui.others
      /\ v.checked = ui.checked /\ v.another = ui.another /\ v.bar = ui.bar
      /\ v.cancel.visible = TRUE /\ v.cancel.enabled = ui.cancel.enabled
  BY <1>1, <1>2 DEF Widgets, Button
<1> HIDE DEF v
<1>4. Typed' /\ TurnInv' /\ ~Starts
  BY <1>1, <1>t, <1>3 DEF Inv, Typed, TurnInv, Starts
<1>5. PageInv' /\ CheckedInv'
  BY <1>1, <1>3 DEF Inv, PageInv, CheckedInv
<1>6. PinInv' /\ LeaveInv'
  BY <1>1, <1>3 DEF Inv, PinInv, LeaveInv
<1> QED
  BY <1>4, <1>5, <1>6 DEF Inv, StartOK

LEMMA CardsAvailableInv == Inv /\ CardsAvailable /\ strays' = 0 => Inv' /\ StartOK
<1> SUFFICES ASSUME Inv, CardsAvailable, strays' = 0 PROVE Inv' /\ StartOK
  OBVIOUS
<1> DEFINE v == [ui EXCEPT !.current = command, !.ok.visible = FALSE, !.stack = "waiting"]
<1>1. /\ turn = "look" /\ turn' = "read" /\ ui.stack \in {"waiting", "alert"}
      /\ ui.ok.does = "nothing" /\ ui' = v
      /\ UNCHANGED <<open, command, pin, offered, strays, working>>
  BY DEF CardsAvailable, Slot, Turn, Inv, TurnInv
<1>2. ui \in Widgets /\ command \in Commands
  BY DEF Inv, Typed
<1>t. v \in Widgets
  BY <1>2 DEF Widgets, Button
<1>3. /\ v.stack = "waiting" /\ v.ok.does = "nothing" /\ v.current = command
      /\ v.others = ui.others
      /\ v.checked = ui.checked /\ v.another = ui.another /\ v.bar = ui.bar
      /\ v.cancel = ui.cancel
  BY <1>1, <1>2 DEF Widgets, Button
<1> HIDE DEF v
<1>4. Typed' /\ TurnInv' /\ ~Starts
  BY <1>1, <1>t, <1>3 DEF Inv, Typed, TurnInv, Starts
<1>5. PageInv' /\ CheckedInv'
  BY <1>1, <1>3 DEF Inv, PageInv, CheckedInv
<1>6. PinInv' /\ LeaveInv'
  BY <1>1, <1>3 DEF Inv, PinInv, LeaveInv
<1> QED
  BY <1>4, <1>5, <1>6 DEF Inv, StartOK

(* A "Try again" page can follow everything.                               *)
LEMMA RetryPageInv ==
    ASSUME Inv, ui' = OnRetryImpl(ui), UNCHANGED <<open, command, pin, offered, strays>>, turn' = "ask",
           working' = working \/ (working # <<>> /\ working' = Tail(working))
    PROVE  Inv' /\ StartOK
<1>1. ui \in Widgets /\ working \in Seq(Certificates)
  BY DEF Inv, Typed
<1>2. /\ Keeps(ui, ui') /\ ui'.stack = "alert" /\ ui'.ok.does = "retry"
      /\ ui'.cancel = [visible |-> TRUE, enabled |-> TRUE]
  BY <1>1, OnRetryImplEffect
<1>3. working' \in Seq(Certificates) /\ ~Starts /\ (working = <<>> => working' = <<>>)
  BY <1>1, TailEffect DEF Starts
<1>4. Typed' /\ TurnInv'
  BY <1>2, <1>3 DEF Inv, Typed, TurnInv, Keeps
<1>5. PageInv' /\ CheckedInv'
  BY <1>2, <1>3 DEF Inv, PageInv, CheckedInv, Keeps
<1>6. PinInv' /\ LeaveInv'
  BY <1>2 DEF PinInv, LeaveInv
<1> QED
  BY <1>3, <1>4, <1>5, <1>6 DEF Inv, StartOK

LEMMA WorkingIsAsked == Inv /\ working # <<>> => turn = "ask"
BY DEF Inv, TurnInv, PageInv

LEMMA ReadingFailedInv == Inv /\ ReadingFailed /\ strays' = 0 => Inv' /\ StartOK
<1> SUFFICES ASSUME Inv, ReadingFailed, strays' = 0 PROVE Inv' /\ StartOK
  OBVIOUS
<1>1. /\ ui' = OnRetryImpl(ui) /\ turn' = "ask" /\ working' = working
      /\ UNCHANGED <<open, command, pin, offered, strays>>
  BY DEF ReadingFailed, Slot, Turn, Inv, TurnInv
<1> QED
  BY <1>1, RetryPageInv

LEMMA ConfirmFailedInv == Inv /\ ConfirmFailed => Inv' /\ StartOK
<1> SUFFICES ASSUME Inv, ConfirmFailed PROVE Inv' /\ StartOK
  OBVIOUS
<1>1. /\ ui' = OnRetryImpl(ui) /\ working # <<>> /\ working' = Tail(working)
      /\ UNCHANGED <<open, command, pin, offered, turn, strays>>
  BY DEF ConfirmFailed, ConfirmEnds, Slot, history
<1>2. turn' = "ask"
  BY <1>1, WorkingIsAsked
<1> QED
  BY <1>1, <1>2, RetryPageInv

LEMMA PinFailedInv ==
    ASSUME Inv, NEW fatal \in BOOLEAN, PinFailed(fatal)
    PROVE  Inv' /\ StartOK
<1>1. /\ working # <<>> /\ working' = Tail(working) /\ command # "get-signing-certificate"
      /\ ui' = OnVerifyPinFailed(ui, fatal) /\ UNCHANGED <<open, command, pin, offered, turn, strays>>
      /\ turn = "ask"
  BY WorkingIsAsked DEF PinFailed, ConfirmEnds, Slot, history
<1>2. ui \in Widgets /\ working \in Seq(Certificates)
  BY DEF Inv, Typed
<1>3. working' \in Seq(Certificates) /\ ~Starts
  BY <1>1, <1>2, TailEffect DEF Starts
<1>4. CASE fatal
  <2>1. /\ Keeps(ui, ui') /\ ui'.stack = ui.stack /\ ui'.bar = FALSE
        /\ ui'.ok.visible = FALSE /\ ui'.ok.enabled = ui.ok.enabled
        /\ ui'.ok.does = ui.ok.does /\ ui'.ok.certificate = ui.ok.certificate
        /\ ui'.input.visible = FALSE /\ ui'.input.text = ui.input.text
        /\ ui'.cancel = [visible |-> TRUE, enabled |-> TRUE]
    BY <1>1, <1>2, <1>4, DisplayFatalErrorEffect DEF OnVerifyPinFailed
  <2>2. Typed' /\ TurnInv'
    BY <1>1, <1>3, <2>1 DEF Inv, Typed, TurnInv, Keeps
  <2>3. PageInv'
    BY <1>1, <2>1 DEF Inv, PageInv, Keeps
  <2>4. CheckedInv'
    BY <1>1, <2>1 DEF Inv, CheckedInv, PageInv, Keeps, IsCardActive
  <2>5. PinInv'
    BY <1>1, <2>1 DEF Inv, PinInv, Keeps, IsCardActive
  <2>6. LeaveInv'
    BY <2>1 DEF LeaveInv
  <2> QED
    BY <1>3, <2>2, <2>3, <2>4, <2>5, <2>6 DEF Inv, StartOK
<1>5. CASE ~fatal /\ BarVisible(ui)
  BY <1>1, <1>5, RetryPageInv DEF OnVerifyPinFailed
<1>6. CASE ~fatal /\ ~BarVisible(ui)
  <2>1. ui' = [ui EXCEPT !.input.visible = TRUE, !.ok.enabled = FALSE, !.cancel.enabled = TRUE]
    BY <1>1, <1>6 DEF OnVerifyPinFailed
  <2>2. /\ Keeps(ui, ui') /\ ui'.stack = ui.stack /\ ui'.bar = ui.bar
        /\ ui'.ok.visible = ui.ok.visible /\ ui'.ok.enabled = FALSE
        /\ ui'.ok.does = ui.ok.does /\ ui'.ok.certificate = ui.ok.certificate
        /\ ui'.cancel.visible = ui.cancel.visible /\ ui'.cancel.enabled = TRUE
    BY <1>2, <2>1 DEF Keeps, Widgets, Button
  <2>3. Typed' /\ TurnInv'
    BY <1>1, <1>3, <2>2 DEF Inv, Typed, TurnInv, Keeps
  <2>4. PageInv'
    BY <1>1, <2>2 DEF Inv, PageInv, Keeps
  <2>5. CheckedInv'
    BY <1>1, <2>2 DEF Inv, CheckedInv, PageInv, Keeps
  <2>6. PinInv'
    BY <1>1, <2>2 DEF Inv, PinInv, Keeps, IsCardActive
  <2>7. LeaveInv'
    BY <1>6, <2>2 DEF Inv, LeaveInv, BarVisible
  <2> QED
    BY <1>3, <2>3, <2>4, <2>5, <2>6, <2>7 DEF Inv, StartOK
<1> QED
  BY <1>4, <1>5, <1>6

LEMMA TypePinInv == Inv /\ TypePin => Inv' /\ StartOK
<1> SUFFICES ASSUME Inv, TypePin PROVE Inv' /\ StartOK
  OBVIOUS
<1>1. ui \in Widgets
  BY DEF Inv, Typed
<1>2. ui.validator \in Rules \cup {NoRule}
  BY <1>1 DEF Widgets
<1>4. PICK t \in Texts : ui' = SetText(ui, t)
  BY <1>2 DEF TypePin, Texts
<1>3. ui.input.visible /\ ui.stack = "pin" /\ UNCHANGED <<open, command, pin, working, offered, turn, strays>>
  BY DEF TypePin, InputVisible, history
<1>6. /\ Keeps(ui, ui') /\ ui'.stack = ui.stack /\ ui'.bar = ui.bar /\ ui'.cancel = ui.cancel
      /\ ui'.ok.visible = ui.ok.visible /\ ui'.ok.does = ui.ok.does
      /\ ui'.ok.certificate = ui.ok.certificate /\ ui'.input.visible = ui.input.visible
      /\ ui'.input.text = t
      /\ t = ui.input.text => ui' = ui
      /\ t # ui.input.text => ui'.ok.enabled = Acceptable(ui, t)
  BY <1>1, <1>4, SetTextEffect
<1>7. Typed' /\ TurnInv' /\ ~Starts
  <2>1. ui' \in Widgets /\ ui'.another = ui.another /\ ui'.others = ui.others
    BY <1>6 DEF Keeps
  <2>2. TurnInv'
    BY <1>3, <2>1, AskedTurn
  <2> QED
    BY <1>3, <2>1, <2>2 DEF Inv, Typed, Starts
<1>8. PageInv'
  BY <1>3, <1>6 DEF Inv, PageInv, Keeps
<1>9. CheckedInv'
  BY <1>3, <1>6 DEF Inv, PageInv, CheckedInv, Keeps
<1>10. PinInv'
  <2> SUFFICES ASSUME ui'.ok.does = "acceptPin" PROVE PinInv'
    BY DEF PinInv
  <2> DEFINE c == ui.ok.certificate
  <2>1. /\ c \in Certificates /\ c = ui.displayed /\ c.state = "valid"
        /\ c.mode \in {"keyboard", "external"} /\ command # "get-signing-certificate"
        /\ c.mode = "keyboard" =>
             /\ ui.validator = c.rule
             /\ ui.ok.enabled => ui.input.text = c.rule
        /\ IsCardActive(ui, c)
    BY <1>3, <1>6 DEF Inv, PinInv
  <2>2. IsCardActive(ui', c)
    BY <1>6, <2>1, SameCommandSameActive DEF Keeps
  <2>3. c.mode = "keyboard" /\ ui'.ok.enabled => ui'.input.text = c.rule
    <3> SUFFICES ASSUME c.mode = "keyboard", ui'.ok.enabled PROVE t = c.rule
      BY <1>6
    <3>1. ui.validator = c.rule /\ c.rule # NoRule
      BY <2>1, RuleIsAPattern
    <3>2. CASE t = ui.input.text
      BY <1>6, <2>1, <3>2
    <3>3. CASE t # ui.input.text
      BY <1>6, <3>1, <3>3 DEF Acceptable
    <3> QED
      BY <3>2, <3>3
  <2> QED
    BY <1>3, <1>6, <2>1, <2>2, <2>3 DEF PinInv, Keeps
<1>11. LeaveInv'
  BY <1>3, <1>6 DEF Inv, LeaveInv, Keeps
<1> QED
  BY <1>7, <1>8, <1>9, <1>10, <1>11 DEF Inv, StartOK

LEMMA ClickCertificateInv == Inv /\ ClickCertificate => Inv' /\ StartOK
<1> SUFFICES ASSUME Inv, ClickCertificate PROVE Inv' /\ StartOK
  OBVIOUS
<1>1. ui \in Widgets
  BY DEF Inv, Typed
<1>2. PICK c \in ui.buttons : ui' = Click(ui, c)
  BY DEF ClickCertificate
<1>3. ui.stack = "select" /\ UNCHANGED <<open, command, pin, working, offered, turn, strays>>
  BY DEF ClickCertificate, history
<1>4. c \in Certificates
  BY <1>1 DEF Widgets
<1>5. /\ ui' \in Widgets /\ KeepsPage(ui, ui') /\ ui'.current = ui.current
      /\ ui'.cancel = ui.cancel /\ ui'.buttons = ui.buttons /\ ui'.another = ui.another
      /\ ui'.others = ui.others
      /\ ui'.ok.visible = ui.ok.visible /\ ui'.ok.does = ui.ok.does
      /\ ui'.ok.certificate = ui.ok.certificate
      /\ c.state # "valid" => ui' = ui
      /\ c.state = "valid" => ui'.checked = c /\ ui'.ok.enabled = IsCardActive(ui, c)
  BY <1>1, <1>2, <1>4, ClickEffect
<1>6. Typed' /\ TurnInv' /\ ~Starts
  BY <1>3, <1>5, AskedTurn DEF Inv, Typed, Starts
<1>7. PageInv'
  BY <1>3, <1>5 DEF Inv, PageInv, KeepsPage
<1>8. CheckedInv'
  <2>1. IsCardActive(ui', c) = IsCardActive(ui, c)
    BY <1>5, SameCommandSameActive
  <2>2. c # NoCertificate
    BY <1>4, NoCertificateIsNone
  <2>3. CASE c.state # "valid"
    BY <1>5, <2>3 DEF Inv, CheckedInv, IsCardActive
  <2>4. CASE c.state = "valid"
    BY <1>2, <1>3, <1>5, <2>1, <2>2, <2>4 DEF Inv, CheckedInv
  <2> QED
    BY <2>3, <2>4
<1>9. PinInv' /\ LeaveInv'
  BY <1>3, <1>5 DEF Inv, PinInv, PageInv, LeaveInv, KeepsPage
<1> QED
  BY <1>6, <1>7, <1>8, <1>9 DEF Inv, StartOK

LEMMA SelectAnotherInv == Inv /\ SelectAnother => Inv' /\ StartOK
<1> SUFFICES ASSUME Inv, SelectAnother PROVE Inv' /\ StartOK
  OBVIOUS
<1> DEFINE cleared == SetText(ui, "")
<1>1. ui \in Widgets /\ offered \subseteq Certificates
  BY DEF Inv, Typed
<1>2. /\ ui.another /\ ui.stack = "pin" /\ UNCHANGED <<open, command, pin, working, offered, turn, strays>>
      /\ ui' = OnMultipleCertificatesReady(cleared, offered)
  BY DEF SelectAnother, history, Inv, TurnInv
<1>3. "" \in Texts
  BY DEF Texts
<1>4. /\ cleared \in Widgets /\ cleared.current = ui.current
      /\ cleared.another = ui.another /\ cleared.bar = ui.bar
  BY <1>1, <1>3, SetTextEffect DEF Keeps
<1>5. ui.current = command /\ command = "authenticate" /\ ui.bar = FALSE
  BY <1>1, <1>2 DEF Inv, PageInv, LeaveInv, Widgets
<1> HIDE DEF cleared
<1>6. /\ ui' \in Widgets /\ ui'.current = cleared.current /\ ui'.stack = "select"
      /\ ui'.ok.enabled = FALSE /\ ui'.ok.does = "choose"
      /\ ui'.cancel = [visible |-> TRUE, enabled |-> TRUE]
      /\ ui'.bar = cleared.bar /\ ui'.checked = NoCertificate /\ ui'.others = offered
  <2>1. cleared.current = "authenticate"
    BY <1>4, <1>5
  <2> DEFINE many == OnMultipleCertificatesReady(cleared, offered)
  <2>2. /\ many \in Widgets /\ many.current = cleared.current /\ many.stack = "select"
        /\ many.ok.enabled = FALSE
        /\ cleared.current = "authenticate" => many.ok.does = "choose"
        /\ many.cancel = [visible |-> TRUE, enabled |-> TRUE]
        /\ many.bar = cleared.bar /\ many.checked = NoCertificate
    BY <1>1, <1>4, OnMultipleEffect
  <2>3. many.others = offered
    BY <1>1, <1>4, <2>1, OnMultipleOthers
  <2> HIDE DEF many
  <2> QED
    BY <1>2, <2>1, <2>2, <2>3 DEF many
<1>7. Typed' /\ TurnInv' /\ ~Starts
  BY <1>2, <1>6, AskedTurn DEF Inv, Typed, Starts
<1>8. PageInv'
  BY <1>2, <1>4, <1>5, <1>6 DEF Inv, PageInv
<1>9. CheckedInv' /\ PinInv'
  BY <1>6 DEF CheckedInv, PinInv
<1>10. LeaveInv'
  BY <1>4, <1>5, <1>6 DEF LeaveInv
<1> QED
  BY <1>7, <1>8, <1>9, <1>10 DEF Inv, StartOK

(* A certificate is put on the PIN page, with its thread when it waits for *)
(* the PIN pad.                                                            *)
LEMMA PinPageInv ==
    ASSUME Inv, NEW u \in Widgets, NEW c \in Certificates, Prompt(u, c),
           u.current = command, u.current = ui.current, command # "get-signing-certificate",
           u.bar = FALSE, u.cancel.visible = TRUE, u.cancel.enabled = ui.cancel.enabled,
           u.checked = ui.checked, u.another = ui.another,
           u.ok.does \in {"nothing", "choose"},
           u.ok.does = "choose" => command = "authenticate" /\ c.state = "valid",
           working = <<>> \/ IsCardActive(u, c),
           offered' \subseteq Certificates, offered' # {}, UNCHANGED <<open, command, pin, strays>>,
           turn' = "ask", ui.another => ui.others = offered', u.others = ui.others
    PROVE  Inv' /\ StartOK
<1> DEFINE active == IsCardActive(u, c)
<1>1. /\ ui' = OnSingleCertificateReady(u, c)
      /\ working' = IF WaitsForPinPad(u, c) THEN Append(working, c) ELSE working
      /\ working \in Seq(Certificates)
  BY DEF Prompt, Inv, Typed
<1>2. /\ OnPinPage(u, c, ui')
      /\ c.state = "expired" =>
           /\ ui'.ok = u.ok /\ ui'.bar = u.bar /\ ui'.cancel = u.cancel
      /\ c.state = "blocked" \/ (c.state = "valid" /\ c.mode = "pinpad") =>
           ui'.ok.does = u.ok.does /\ ui'.ok.visible = FALSE
      /\ c.state = "blocked" =>
           /\ ui'.bar = FALSE /\ ui'.cancel = [visible |-> TRUE, enabled |-> TRUE]
      /\ c.state = "valid" /\ c.mode = "pinpad" =>
           /\ ui'.bar = active /\ ui'.cancel.visible = ~active
           /\ ui'.cancel.enabled = u.cancel.enabled
           /\ ui'.bar => ~ui'.another
      /\ c.state = "valid" /\ c.mode # "pinpad" =>
           /\ ui'.ok = [visible |-> TRUE, enabled |-> (c.mode = "external"),
                        does |-> "acceptPin", certificate |-> c]
           /\ ui'.cancel = [visible |-> TRUE, enabled |-> TRUE]
           /\ c.mode = "external" => ui'.bar = u.bar
           /\ c.mode = "keyboard" =>
                /\ ui'.bar = FALSE /\ ui'.validator = c.rule
                /\ ui'.input.visible = active
  BY <1>1, OnSingleToPin
<1>3. /\ active \in BOOLEAN /\ IsCardActive(ui', c) = active /\ IsCardActive(ui, c) = active
  BY <1>2, SameCommandSameActive DEF OnPinPage
<1>4. /\ c.mode \in {"keyboard", "pinpad", "external"}
      /\ c.state \in {"valid", "expired", "blocked"}
      /\ c.mode = "external" => active
  BY RuleIsAPattern DEF IsCardActive
<1>5. WaitsForPinPad(u, c) <=> c.state = "valid" /\ c.mode = "pinpad" /\ active
  BY DEF WaitsForPinPad
<1> HIDE DEF active
<1>6. /\ working' \in Seq(Certificates)
      /\ WaitsForPinPad(u, c) => working' # <<>> /\ Last(working') = c
      /\ ~WaitsForPinPad(u, c) => working' = working /\ ~Starts
      /\ working' = <<>> => working = <<>>
  <2>1. CASE WaitsForPinPad(u, c)
    BY <1>1, <2>1, AppendEffect
  <2>2. CASE ~WaitsForPinPad(u, c)
    BY <1>1, <2>2 DEF Starts
  <2> QED
    BY <2>1, <2>2
<1>7. Typed' /\ TurnInv'
  BY <1>2, <1>6 DEF Inv, Typed, TurnInv, OnPinPage
<1>p. /\ ui'.stack = "pin" /\ ui'.current = command' /\ ui'.displayed = c
      /\ ui'.another => command' = "authenticate"
      /\ command' = command
  BY <1>2 DEF Inv, PageInv, OnPinPage
<1>q. \/ ui'.ok.does \in {"nothing", "acceptPin"}
      \/ ui'.ok.does = "choose" /\ command' = "authenticate" /\ ~ui'.ok.visible
  <2>1. CASE c.state = "expired"
    BY <1>2, <2>1
  <2>2. CASE c.state = "blocked" \/ (c.state = "valid" /\ c.mode = "pinpad")
    BY <1>2, <2>2
  <2>3. CASE c.state = "valid" /\ c.mode # "pinpad"
    BY <1>2, <2>3
  <2> QED
    BY <1>4, <2>1, <2>2, <2>3
<1>8. PageInv'
  BY <1>p, <1>q DEF PageInv
<1>9. CheckedInv'
  BY <1>2, <1>p, <1>q DEF Inv, CheckedInv, OnPinPage
<1>10. PinInv'
  <2> SUFFICES ASSUME ui'.ok.does = "acceptPin" PROVE PinInv'
    BY DEF PinInv
  <2>1. c.state = "valid" /\ c.mode \in {"external", "keyboard"}
    BY <1>2, <1>4, <1>q
  <2>2. ui'.ok.certificate = c /\ ui'.ok.enabled = (c.mode = "external")
    BY <1>2, <2>1
  <2>3. c.mode = "keyboard" => ui'.validator = c.rule
    BY <1>2, <2>1
  <2>4. ~active => working' = <<>> /\ ~ui'.ok.enabled /\ ~ui'.input.visible
    BY <1>2, <1>4, <1>5, <1>6, <2>1, <2>2 DEF active
  <2> QED
    BY <1>3, <1>p, <2>1, <2>2, <2>3, <2>4 DEF PinInv
<1>11. LeaveInv'
  <2>1. ui.cancel.enabled \in BOOLEAN /\ (working = <<>> => ui.cancel.enabled)
    BY DEF Inv, Typed, Widgets, Button, LeaveInv
  <2>2. CASE c.state = "expired"
    BY <1>2, <1>6, <2>1, <2>2 DEF LeaveInv
  <2>3. CASE c.state = "blocked"
    BY <1>2, <2>3 DEF LeaveInv
  <2>4. CASE c.state = "valid" /\ c.mode = "pinpad"
    <3>1. CASE active
      BY <1>2, <1>5, <1>6, <1>p, <2>4, <3>1 DEF LeaveInv
    <3>2. CASE ~active
      BY <1>2, <1>6, <2>1, <2>4, <3>2 DEF LeaveInv
    <3> QED
      BY <3>1, <3>2
  <2>5. CASE c.state = "valid" /\ c.mode # "pinpad"
    <3>1. ui'.bar = FALSE /\ ui'.cancel = [visible |-> TRUE, enabled |-> TRUE]
      BY <1>2, <1>4, <2>5
    <3> QED
      BY <3>1 DEF LeaveInv
  <2> QED
    BY <1>4, <2>2, <2>3, <2>4, <2>5
<1>12. StartOK
  BY <1>2, <1>3, <1>5, <1>6 DEF StartOK, OnPinPage
<1> QED
  BY <1>7, <1>8, <1>9, <1>10, <1>11, <1>12 DEF Inv

(* The selection page with its one certificate.                            *)
LEMMA OneToConfirmInv ==
    ASSUME Inv, NEW c \in Certificates, Prompt(ui, c), ui.stack = "waiting",
           command = "get-signing-certificate",
           offered' \subseteq Certificates, offered' # {}, UNCHANGED <<open, command, pin, strays>>,
           turn' = "ask"
    PROVE  Inv' /\ StartOK
<1>1. ui \in Widgets /\ ui.current = "get-signing-certificate"
  BY DEF Inv, Typed, PageInv
<1>2. ui' = OnSingleCertificateReady(ui, c) /\ working' = working
  BY <1>1 DEF Prompt, WaitsForPinPad
<1>3. /\ ui' \in Widgets /\ ui'.current = ui.current /\ ui'.stack = "select"
      /\ ui'.bar = ui.bar /\ ui'.cancel = [visible |-> TRUE, enabled |-> TRUE]
      /\ ui'.another = ui.another /\ ui'.buttons = {c}
      /\ ui'.ok.does = "accept" /\ ui'.ok.certificate = c
      /\ c.state # "valid" => ui'.checked = NoCertificate /\ ui'.ok.enabled = FALSE
      /\ c.state = "valid" => ui'.checked = c /\ ui'.ok.enabled = IsCardActive(ui, c)
  BY <1>1, <1>2, OnSingleToSelect
<1>4. IsCardActive(ui', c) = IsCardActive(ui, c) /\ c # NoCertificate
  BY <1>3, SameCommandSameActive, NoCertificateIsNone
<1>5. Typed' /\ TurnInv' /\ ~Starts
  <2>1. ~ui'.another
    BY <1>1, <1>3 DEF Inv, PageInv, Widgets
  <2> QED
    BY <1>2, <1>3, <2>1 DEF Inv, Typed, TurnInv, Starts
<1>6. PageInv'
  BY <1>1, <1>2, <1>3 DEF Inv, PageInv
<1>7. CheckedInv'
  <2>1. CASE c.state = "valid"
    BY <1>3, <1>4, <2>1 DEF CheckedInv
  <2>2. CASE c.state # "valid"
    BY <1>3, <2>2 DEF CheckedInv
  <2> QED
    BY <2>1, <2>2
<1>8. PinInv'
  BY <1>3 DEF PinInv
<1>9. LeaveInv'
  BY <1>3 DEF Inv, LeaveInv
<1> QED
  BY <1>5, <1>6, <1>7, <1>8, <1>9 DEF Inv, StartOK

LEMMA TurnIsRead ==
    ASSUME Inv, NEW list, CertificatesReady(list), ~Close, strays' = 0
    PROVE  turn = "read" /\ turn' = "ask" /\ strays' = strays
<1>1. Turn("read", "ask") /\ strays = 0
  BY DEF CertificatesReady, Inv, TurnInv
<1> QED
  BY <1>1 DEF Turn

LEMMA CertificatesReadyInv ==
    ASSUME Inv, NEW list \in SUBSET Certificates, Cardinality(list) \in 1 .. 2,
           CertificatesReady(list), ~Close, strays' = 0
    PROVE  Inv' /\ StartOK
<1>1. /\ ui.stack = "waiting" /\ offered = {} /\ offered' = list
      /\ turn = "read" /\ turn' = "ask" /\ UNCHANGED <<open, command, pin, strays>>
      /\ IF Cardinality(list) = 1
         THEN \E c \in list : Prompt(ui, c)
         ELSE command # "sign" /\ ui' = OnMultipleCertificatesReady(ui, list) /\ working' = working
  <2>1. turn = "read" /\ turn' = "ask" /\ strays' = strays
    BY TurnIsRead
  <2> QED
    BY <2>1 DEF CertificatesReady, Inv, TurnInv
<1>2. list \subseteq Certificates /\ list # {}
  BY FS_EmptySet
<1>3. /\ ui \in Widgets /\ ui.current = command /\ ui.ok.does = "nothing" /\ working = <<>>
      /\ command \in {"get-signing-certificate", "authenticate", "sign"}
  BY <1>1, CommandsOK DEF Inv, Typed, PageInv
<1>4. ui.bar = FALSE /\ ui.cancel.visible = TRUE /\ ~ui.another
  BY <1>1, <1>3 DEF Inv, TurnInv, LeaveInv, Widgets, Button
<1>5. CASE Cardinality(list) = 1
  <2>1. PICK c \in list : Prompt(ui, c)
    BY <1>1, <1>5
  <2>2. c \in Certificates /\ offered' \subseteq Certificates /\ offered' # {}
    BY <1>1, <1>2
  <2>3. CASE command = "get-signing-certificate"
    BY <1>1, <2>1, <2>2, <2>3, OneToConfirmInv
  <2>4. CASE command # "get-signing-certificate"
    BY <1>1, <1>3, <1>4, <2>1, <2>2, <2>4, PinPageInv
  <2> QED
    BY <2>3, <2>4
<1>6. CASE Cardinality(list) # 1
  <2>1. /\ command # "sign" /\ ui' = OnMultipleCertificatesReady(ui, list)
        /\ working' = working
    BY <1>1, <1>6
  <2> DEFINE v == OnMultipleCertificatesReady(ui, list)
  <2>2. /\ v \in Widgets /\ v.current = ui.current /\ v.stack = "select"
        /\ v.ok.visible = TRUE /\ v.ok.enabled = FALSE
        /\ ui.current = "authenticate" => v.ok.does = "choose"
        /\ ui.current # "authenticate" => v.ok.does = "acceptChecked"
        /\ v.cancel = [visible |-> TRUE, enabled |-> TRUE]
        /\ v.bar = ui.bar /\ v.checked = NoCertificate
        /\ ui.current = "authenticate" => v.another = (Cardinality(list) > 1)
        /\ ui.current # "authenticate" => v.another = ui.another
    BY <1>2, <1>3, OnMultipleEffect
  <2>o. ui.current = "authenticate" => v.others = list
    BY <1>2, <1>3, OnMultipleOthers
  <2> HIDE DEF v
  <2>3. Typed' /\ TurnInv' /\ ~Starts
    BY <1>1, <1>2, <1>3, <1>4, <2>o, <2>1, <2>2 DEF Inv, Typed, TurnInv, Starts, v
  <2>4. PageInv'
    BY <1>1, <1>2, <1>3, <2>1, <2>2 DEF Inv, PageInv, v
  <2>5. CheckedInv' /\ PinInv'
    BY <2>1, <2>2 DEF CheckedInv, PinInv, v
  <2>6. LeaveInv'
    BY <1>4, <2>1, <2>2 DEF LeaveInv, v
  <2> QED
    BY <2>3, <2>4, <2>5, <2>6 DEF Inv, StartOK
<1> QED
  BY <1>5, <1>6

LEMMA AcceptCertificateInv == Inv /\ OkCanBeClicked /\ AcceptCertificate => Inv' /\ StartOK
<1> SUFFICES ASSUME Inv, OkCanBeClicked, AcceptCertificate PROVE Inv' /\ StartOK
  OBVIOUS
<1> DEFINE c == IF ui.ok.does = "accept" THEN ui.ok.certificate ELSE ui.checked
           v == [ui EXCEPT !.ok.enabled = FALSE]
<1>1. /\ ui.ok.does \in {"accept", "acceptChecked"} /\ c # NoCertificate
      /\ ui' = v /\ working' = Append(working, c) /\ UNCHANGED <<open, command, pin, offered, turn, strays>>
  BY DEF AcceptCertificate, Accepted, history
<1>2. ui \in Widgets /\ ui.ok.enabled /\ working \in Seq(Certificates)
  BY DEF OkCanBeClicked, Inv, Typed
<1>3. command = "get-signing-certificate" /\ ui.stack = "select"
  BY <1>1 DEF Inv, PageInv
<1>4. c = ui.checked /\ c.state = "valid" /\ IsCardActive(ui, c)
  BY <1>1, <1>2, <1>3, NoCertificateIsNone DEF Inv, CheckedInv
<1>5. c \in Certificates
  BY <1>1, <1>2, <1>4 DEF Widgets, MaybeCertificates
<1>6. /\ v \in Widgets /\ KeepsPage(ui, v) /\ v.current = ui.current /\ v.checked = ui.checked
      /\ v.another = ui.another /\ v.others = ui.others
      /\ v.buttons = ui.buttons /\ v.cancel = ui.cancel
      /\ v.ok.does = ui.ok.does /\ v.ok.certificate = ui.ok.certificate /\ v.ok.enabled = FALSE
  BY <1>2 DEF Widgets, KeepsPage
<1> HIDE DEF c, v
<1>7. working' \in Seq(Certificates) /\ working' # <<>> /\ Last(working') = c
  BY <1>1, <1>2, <1>5, AppendEffect
<1>8. Typed' /\ TurnInv'
  BY <1>1, <1>3, <1>6, <1>7, AskedTurn DEF Inv, Typed
<1>9. PageInv'
  BY <1>1, <1>3, <1>6 DEF Inv, PageInv, KeepsPage
<1>10. CheckedInv'
  BY <1>1, <1>6 DEF Inv, CheckedInv
<1>11. PinInv'
  BY <1>1, <1>6 DEF PinInv
<1>12. LeaveInv'
  BY <1>1, <1>3, <1>6, <1>7 DEF Inv, LeaveInv, KeepsPage
<1>13. StartOK
  BY <1>1, <1>3, <1>4, <1>6, <1>7 DEF StartOK
<1> QED
  BY <1>8, <1>9, <1>10, <1>11, <1>12, <1>13 DEF Inv

LEMMA ChooseCertificateInv == Inv /\ OkCanBeClicked /\ ChooseCertificate => Inv' /\ StartOK
<1> SUFFICES ASSUME Inv, OkCanBeClicked, ChooseCertificate PROVE Inv' /\ StartOK
  OBVIOUS
<1> DEFINE v == [ui EXCEPT !.ok.enabled = FALSE]
<1>1. /\ ui.ok.does = "choose" /\ ui.checked # NoCertificate /\ Prompt(v, ui.checked)
      /\ UNCHANGED <<open, command, pin, offered, turn, strays>>
  BY DEF ChooseCertificate, history
<1>2. ui \in Widgets /\ ui.ok.visible /\ ui.ok.enabled /\ offered \subseteq Certificates
  BY DEF OkCanBeClicked, Inv, Typed
<1>3. ui.stack = "select" /\ command = "authenticate" /\ ui.current = command /\ offered # {}
  BY <1>1, <1>2 DEF Inv, PageInv
<1>4. ui.checked \in Certificates /\ ui.checked.state = "valid" /\ IsCardActive(ui, ui.checked)
  BY <1>1, <1>2, <1>3 DEF Inv, CheckedInv, Widgets, MaybeCertificates
<1>5. ui.bar = FALSE /\ ui.cancel.visible = TRUE
  BY <1>2, <1>3 DEF Inv, LeaveInv, Widgets, Button
<1>6. /\ v \in Widgets /\ KeepsPage(ui, v) /\ v.current = ui.current /\ v.checked = ui.checked
      /\ v.another = ui.another /\ v.cancel = ui.cancel /\ v.ok.does = ui.ok.does
      /\ v.others = ui.others
  BY <1>2 DEF Widgets, KeepsPage
<1> HIDE DEF v
<1>7. /\ v.current = command /\ v.current = ui.current /\ command # "get-signing-certificate"
      /\ v.bar = FALSE /\ v.cancel.visible = TRUE /\ v.cancel.enabled = ui.cancel.enabled
      /\ v.ok.does \in {"nothing", "choose"}
      /\ v.ok.does = "choose" => command = "authenticate" /\ ui.checked.state = "valid"
  BY <1>1, <1>3, <1>4, <1>5, <1>6 DEF KeepsPage
<1>8. IsCardActive(v, ui.checked)
  BY <1>4, <1>6, SameCommandSameActive
<1>9. /\ offered' \subseteq Certificates /\ offered' # {} /\ turn' = "ask"
      /\ ui.another => ui.others = offered'
  BY <1>1, <1>2, <1>3 DEF Inv, TurnInv
<1> QED
  BY <1>1, <1>4, <1>6, <1>7, <1>8, <1>9, PinPageInv

LEMMA AcceptPinInv == Inv /\ OkCanBeClicked /\ AcceptPin => Inv' /\ StartOK
<1> SUFFICES ASSUME Inv, OkCanBeClicked, AcceptPin PROVE Inv' /\ StartOK
  OBVIOUS
<1> DEFINE c == ui.ok.certificate
           w == [ui EXCEPT !.input.visible = FALSE, !.ok.enabled = FALSE, !.cancel.enabled = FALSE]
           v == SetText(w, "")
<1>1. /\ ui.ok.does = "acceptPin" /\ pin' = ui.input.text /\ ui' = v
      /\ working' = Append(working, c) /\ UNCHANGED <<open, command, offered, turn, strays>>
  BY DEF AcceptPin, Accepted, history
<1>2. ui \in Widgets /\ ui.ok.visible /\ ui.ok.enabled /\ working \in Seq(Certificates)
  BY DEF OkCanBeClicked, Inv, Typed
<1>3. /\ ui.stack = "pin" /\ command # "get-signing-certificate"
      /\ c \in Certificates /\ c = ui.displayed /\ c.state = "valid"
      /\ c.mode \in {"keyboard", "external"}
      /\ c.mode = "keyboard" => ui.validator = c.rule /\ ui.input.text = c.rule
      /\ IsCardActive(ui, c)
  BY <1>1, <1>2 DEF Inv, PinInv
<1>4. ui.bar = FALSE /\ ui.cancel.visible = TRUE
  BY <1>2, <1>3 DEF Inv, LeaveInv, Widgets, Button
<1>5. /\ w \in Widgets /\ w.current = ui.current /\ w.checked = ui.checked
      /\ w.another = ui.another /\ w.displayed = ui.displayed /\ w.validator = ui.validator
      /\ w.stack = ui.stack /\ w.bar = ui.bar /\ w.others = ui.others
  <2>1. w \in Widgets
    BY <1>2 DEF Widgets, Button
  <2> QED
    BY <1>2, <2>1 DEF Widgets
<1>6. /\ w.input.visible = FALSE /\ w.ok.enabled = FALSE /\ w.ok.visible = ui.ok.visible
      /\ w.ok.does = ui.ok.does /\ w.ok.certificate = ui.ok.certificate
      /\ w.cancel.visible = ui.cancel.visible
  BY <1>2 DEF Widgets, Button
<1>7. "" \in Texts /\ ui.input.text \in Texts
  BY <1>2 DEF Texts, Widgets
<1> HIDE DEF w
<1>8. /\ Keeps(w, v) /\ v.stack = w.stack /\ v.bar = w.bar /\ v.cancel = w.cancel
      /\ v.ok.visible = w.ok.visible /\ v.ok.does = w.ok.does
      /\ v.ok.certificate = w.ok.certificate /\ v.input.text = ""
      /\ "" = w.input.text => v = w
      /\ "" # w.input.text => v.ok.enabled = Acceptable(w, "")
  BY <1>5, <1>7, SetTextEffect
<1> HIDE DEF c, v
<1>9. /\ v \in Widgets /\ v.current = ui.current /\ v.checked = ui.checked
      /\ v.another = ui.another /\ v.displayed = ui.displayed /\ v.validator = ui.validator
      /\ v.stack = "pin" /\ v.bar = FALSE /\ v.cancel.visible = TRUE /\ v.others = ui.others
      /\ v.ok.does = "acceptPin" /\ v.ok.certificate = c
  BY <1>1, <1>3, <1>4, <1>5, <1>6, <1>8 DEF Keeps, c
<1>10. c.mode = "keyboard" /\ v.ok.enabled => v.input.text = c.rule
  <2> SUFFICES ASSUME c.mode = "keyboard", v.ok.enabled PROVE "" = c.rule
    BY <1>8
  <2>1. w.validator = c.rule /\ c.rule # NoRule
    BY <1>3, <1>5, RuleIsAPattern
  <2>2. "" # w.input.text
    BY <1>6, <1>8
  <2> QED
    BY <1>8, <2>1, <2>2 DEF Acceptable
<1>11. working' \in Seq(Certificates) /\ working' # <<>> /\ Last(working') = c
  BY <1>1, <1>2, <1>3, AppendEffect
<1>12. IsCardActive(v, c)
  BY <1>3, <1>9, SameCommandSameActive
<1>13. Typed' /\ TurnInv'
  BY <1>1, <1>3, <1>7, <1>9, <1>11, AskedTurn DEF Inv, Typed
<1>14. PageInv'
  BY <1>1, <1>3, <1>9 DEF Inv, PageInv
<1>15. CheckedInv'
  BY <1>1, <1>9 DEF Inv, CheckedInv
<1>16. PinInv'
  BY <1>1, <1>3, <1>9, <1>10, <1>12 DEF PinInv
<1>17. LeaveInv'
  BY <1>1, <1>9, <1>11 DEF LeaveInv
<1>18. StartOK
  BY <1>1, <1>3, <1>9, <1>11 DEF StartOK
<1> QED
  BY <1>13, <1>14, <1>15, <1>16, <1>17, <1>18 DEF Inv

LEMMA ClickOKInv == Inv /\ ClickOK => Inv' /\ StartOK
BY AcceptCertificateInv, ChooseCertificateInv, AcceptPinInv, CloseInv
   DEF ClickOK, CertificateNotFound, Inv

LEMMA OpenInv == Inv /\ Open => Inv' /\ StartOK
<1> SUFFICES ASSUME Inv, Open PROVE Inv' /\ StartOK
  OBVIOUS
<1>1. open' \in BOOLEAN /\ pin' \in Texts /\ UNCHANGED <<ui, command, working, offered, turn, strays>>
  BY DEF Open, Inv, Typed, history
<1> QED
  BY <1>1, SameInv

LEMMA GetPinInv == Inv /\ GetPin => Inv' /\ StartOK
<1> SUFFICES ASSUME Inv, GetPin PROVE Inv' /\ StartOK
  OBVIOUS
<1>1. open' \in BOOLEAN /\ pin' \in Texts /\ UNCHANGED <<ui, command, working, offered, turn, strays>>
  BY DEF GetPin, Inv, Typed, Texts, history
<1> QED
  BY <1>1, SameInv

-----------------------------------------------------------------------------
(* When the signals have come in their turn, each action preserves the     *)
(* invariant, and starts a thread only as StartOK says.                    *)
LEMMA StepInv == Inv /\ [Next]_vars /\ strays' = 0 => Inv' /\ StartOK
<1> SUFFICES ASSUME Inv, [Next]_vars, strays' = 0 PROVE Inv' /\ StartOK
  OBVIOUS
<1>0. CASE Close
  BY <1>0, CloseInv DEF Inv
<1>1. CASE Open
  BY <1>1, OpenInv
<1>2. CASE StatusUpdate
  BY <1>2, StatusUpdateInv
<1>3. CASE CardsAvailable
  BY <1>3, CardsAvailableInv
<1>4. CASE \E list \in {l \in SUBSET Certificates : Cardinality(l) \in 1 .. 2} :
              CertificatesReady(list)
  <2>1. PICK list \in SUBSET Certificates :
                Cardinality(list) \in 1 .. 2 /\ CertificatesReady(list)
    BY <1>4
  <2> QED
    BY <1>0, <2>1, CertificatesReadyInv
<1>5. CASE GetPin
  BY <1>5, GetPinInv
<1>6. CASE \E fatal \in BOOLEAN : PinFailed(fatal)
  BY <1>6, PinFailedInv
<1>7. CASE ReadingFailed \/ ConfirmFailed
  BY <1>7, ReadingFailedInv, ConfirmFailedInv
<1>8. CASE Dispose \/ Reject
  BY <1>0, <1>8 DEF Dispose, Reject
<1>9. CASE ClickOK
  BY <1>9, ClickOKInv
<1>10. CASE TypePin
  BY <1>10, TypePinInv
<1>11. CASE ClickCertificate
  BY <1>11, ClickCertificateInv
<1>12. CASE SelectAnother
  BY <1>12, SelectAnotherInv
<1>13. CASE UNCHANGED vars
  <2>1. open' \in BOOLEAN /\ pin' \in Texts /\ UNCHANGED <<ui, command, working, offered, turn, strays>>
    BY <1>13 DEF vars, Inv, Typed
  <2> QED
    BY <2>1, SameInv
<1> QED
  BY <1>1, <1>2, <1>3, <1>4, <1>5, <1>6, <1>7, <1>8, <1>9, <1>10, <1>11, <1>12, <1>13 DEF Next

-----------------------------------------------------------------------------
(* What holds in any order of the signals.                                 *)

Sure == Typed /\ SureInv

(* The PIN that is handed on.                                              *)
PinOK ==
    Starts /\ Last(working').mode = "keyboard" /\ command # "get-signing-certificate"
      => pin' = Last(working').rule

LEMMA WidgetsTyped ==
    ASSUME Typed, open' \in BOOLEAN, command' = command, ui' \in Widgets,
           working' \in Seq(Certificates), offered' \subseteq Certificates, pin' \in Texts,
           turn' \in {"look", "read", "ask"}, strays' \in Nat, strays' <= MaxStrays
    PROVE  Typed'
BY DEF Typed

LEMMA TurnTyped ==
    ASSUME Typed, NEW from, NEW to \in {"look", "read", "ask"}, Turn(from, to)
    PROVE  turn' \in {"look", "read", "ask"} /\ strays' \in Nat /\ strays' <= MaxStrays
BY BoundsOK DEF Turn, Typed

LEMMA InitSure == Init => Sure
<1> SUFFICES ASSUME Init PROVE Sure
  OBVIOUS
<1>1. Typed /\ ui = NewWidgets /\ command \in Commands
  BY InitInv DEF Inv, Init
<1> QED
  BY <1>1, NewWidgetsEffect DEF Sure, SureInv

LEMMA CloseSure == Typed /\ Close => Sure' /\ PinOK
<1> SUFFICES ASSUME Typed, Close PROVE Sure' /\ PinOK
  OBVIOUS
<1>1. /\ Typed' /\ ui' = NewWidgets /\ working' = <<>> /\ command' = command
      /\ command \in Commands /\ working \in Seq(Certificates)
  BY CloseInv DEF Inv, Close, Typed
<1>2. SureInv'
  BY <1>1, NewWidgetsEffect DEF SureInv
<1>3. ~Starts
  BY <1>1, EmptySequence DEF Starts
<1> QED
  BY <1>1, <1>2, <1>3 DEF Sure, PinOK

LEMMA SameSure ==
    ASSUME Sure, UNCHANGED <<ui, command, working, offered, turn, strays>>,
           open' \in BOOLEAN, pin' \in Texts
    PROVE  Sure' /\ PinOK
BY DEF Sure, Typed, SureInv, PinOK, Starts

LEMMA StatusUpdateSure == Sure /\ StatusUpdate => Sure' /\ PinOK
<1> SUFFICES ASSUME Sure, StatusUpdate PROVE Sure' /\ PinOK
  OBVIOUS
<1>1. /\ ui' = [ui EXCEPT !.current = "insert-card", !.cancel.visible = TRUE,
                          !.ok.visible = FALSE, !.stack = "alert"]
      /\ UNCHANGED <<open, command, pin, working, offered>> /\ Turn("look", "look") /\ Typed
  BY DEF StatusUpdate, Slot, Sure
<1>2. ui \in Widgets
  BY <1>1 DEF Typed
<1>3. ui' \in Widgets
  BY <1>1, <1>2 DEF Widgets, Button
<1>4. /\ ui'.stack = "alert" /\ ui'.ok.visible = FALSE /\ ui'.ok.does = ui.ok.does
      /\ ui'.ok.certificate = ui.ok.certificate /\ ui'.ok.enabled = ui.ok.enabled
      /\ ui'.another = ui.another /\ ui'.validator = ui.validator /\ ui'.input = ui.input
  BY <1>1, <1>2 DEF Widgets
<1>5. Typed' /\ ~Starts
  BY <1>1, <1>3, TurnTyped DEF Typed, Starts
<1>6. SureInv'
  BY <1>1, <1>4 DEF Sure, SureInv
<1> QED
  BY <1>5, <1>6 DEF Sure, PinOK

LEMMA CardsAvailableSure == Sure /\ CardsAvailable => Sure' /\ PinOK
<1> SUFFICES ASSUME Sure, CardsAvailable PROVE Sure' /\ PinOK
  OBVIOUS
<1>1. /\ ui' = [ui EXCEPT !.current = command, !.ok.visible = FALSE, !.stack = "waiting"]
      /\ UNCHANGED <<open, command, pin, working, offered>> /\ Turn("look", "read") /\ Typed
  BY DEF CardsAvailable, Slot, Sure
<1>2. ui \in Widgets /\ command \in Commands
  BY <1>1 DEF Typed
<1>3. ui' \in Widgets
  BY <1>1, <1>2 DEF Widgets, Button
<1>4. /\ ui'.stack = "waiting" /\ ui'.current = command /\ ui'.ok.does = ui.ok.does
      /\ ui'.ok.certificate = ui.ok.certificate /\ ui'.ok.enabled = ui.ok.enabled
      /\ ui'.another = ui.another /\ ui'.validator = ui.validator /\ ui'.input = ui.input
  BY <1>1, <1>2 DEF Widgets
<1>5. Typed' /\ ~Starts
  BY <1>1, <1>3, TurnTyped DEF Typed, Starts
<1>6. SureInv'
  BY <1>1, <1>4 DEF Sure, SureInv
<1> QED
  BY <1>5, <1>6 DEF Sure, PinOK

LEMMA RetryPageSure ==
    ASSUME Sure, ui' = OnRetryImpl(ui), command' = command
    PROVE  ui' \in Widgets /\ SureInv'
<1>1. /\ Keeps(ui, ui') /\ ui'.stack = "alert" /\ ui'.ok.does = "retry"
  BY OnRetryImplEffect DEF Sure, Typed
<1> QED
  BY <1>1 DEF Sure, SureInv, Keeps

LEMMA ReadingFailedSure == Sure /\ ReadingFailed => Sure' /\ PinOK
<1> SUFFICES ASSUME Sure, ReadingFailed PROVE Sure' /\ PinOK
  OBVIOUS
<1>1. /\ ui' = OnRetryImpl(ui) /\ UNCHANGED <<open, command, pin, working, offered>>
      /\ Turn("read", "ask") /\ Typed
  BY DEF ReadingFailed, Slot, Sure
<1>2. ui' \in Widgets /\ SureInv'
  BY <1>1, RetryPageSure
<1>3. Typed' /\ ~Starts
  BY <1>1, <1>2, TurnTyped DEF Typed, Starts
<1> QED
  BY <1>2, <1>3 DEF Sure, PinOK

LEMMA ConfirmEndsTyped ==
    ASSUME Typed, ConfirmEnds, UNCHANGED <<open, command, pin>>, ui' \in Widgets
    PROVE  Typed' /\ ~Starts
<1>1. working' \in Seq(Certificates) /\ ~Starts
  BY TailEffect DEF ConfirmEnds, Typed, Starts
<1>2. UNCHANGED <<offered, turn, strays>>
  BY DEF ConfirmEnds, history
<1> QED
  BY <1>1, <1>2 DEF Typed

LEMMA ConfirmFailedSure == Sure /\ ConfirmFailed => Sure' /\ PinOK
<1> SUFFICES ASSUME Sure, ConfirmFailed PROVE Sure' /\ PinOK
  OBVIOUS
<1>1. /\ ui' = OnRetryImpl(ui) /\ UNCHANGED <<open, command, pin>> /\ ConfirmEnds /\ Typed
  BY DEF ConfirmFailed, Slot, Sure
<1>2. ui' \in Widgets /\ SureInv'
  BY <1>1, RetryPageSure
<1>3. Typed' /\ ~Starts
  BY <1>1, <1>2, ConfirmEndsTyped
<1> QED
  BY <1>2, <1>3 DEF Sure, PinOK

LEMMA PinFailedSure ==
    ASSUME Sure, NEW fatal \in BOOLEAN, PinFailed(fatal)
    PROVE  Sure' /\ PinOK
<1>1. /\ ui' = OnVerifyPinFailed(ui, fatal) /\ UNCHANGED <<open, command, pin>> /\ ConfirmEnds
      /\ Typed /\ ui \in Widgets
  BY DEF PinFailed, Slot, Sure, Typed
<1>2. ui' \in Widgets /\ SureInv'
  <2>1. CASE fatal
    <3>1. /\ Keeps(ui, ui') /\ ui'.stack = ui.stack
          /\ ui'.ok.visible = FALSE /\ ui'.ok.enabled = ui.ok.enabled
          /\ ui'.ok.does = ui.ok.does /\ ui'.ok.certificate = ui.ok.certificate
          /\ ui'.input.text = ui.input.text
      BY <1>1, <2>1, DisplayFatalErrorEffect DEF OnVerifyPinFailed
    <3> QED
      BY <1>1, <3>1 DEF Sure, SureInv, Keeps
  <2>2. CASE ~fatal /\ BarVisible(ui)
    BY <1>1, <2>2, RetryPageSure DEF OnVerifyPinFailed
  <2>3. CASE ~fatal /\ ~BarVisible(ui)
    <3>1. ui' = [ui EXCEPT !.input.visible = TRUE, !.ok.enabled = FALSE, !.cancel.enabled = TRUE]
      BY <1>1, <2>3 DEF OnVerifyPinFailed
    <3>2. /\ Keeps(ui, ui') /\ ui'.stack = ui.stack /\ ui'.ok.visible = ui.ok.visible
          /\ ui'.ok.enabled = FALSE /\ ui'.ok.does = ui.ok.does
          /\ ui'.ok.certificate = ui.ok.certificate
      <4>1. ui' \in Widgets
        <5> DEFINE a == [ui EXCEPT !.input.visible = TRUE]
                   b == [a EXCEPT !.ok.enabled = FALSE]
        <5>1. a \in Widgets
          BY <1>1 DEF Widgets
        <5> HIDE DEF a
        <5>2. b \in Widgets
          BY <5>1 DEF Widgets
        <5> HIDE DEF b
        <5>3. [b EXCEPT !.cancel.enabled = TRUE] \in Widgets
          BY <5>2 DEF Widgets, Button
        <5> QED
          BY <3>1, <5>3 DEF a, b
      <4> QED
        BY <1>1, <3>1, <4>1 DEF Keeps, Widgets
    <3> QED
      BY <1>1, <3>2 DEF Sure, SureInv, Keeps
  <2> QED
    BY <2>1, <2>2, <2>3
<1>3. Typed' /\ ~Starts
  BY <1>1, <1>2, ConfirmEndsTyped
<1> QED
  BY <1>2, <1>3 DEF Sure, PinOK

LEMMA TypePinSure == Sure /\ TypePin => Sure' /\ PinOK
<1> SUFFICES ASSUME Sure, TypePin PROVE Sure' /\ PinOK
  OBVIOUS
<1>1. ui \in Widgets /\ ui.validator \in Rules \cup {NoRule} /\ ui.input.text \in Texts
  BY DEF Sure, Typed, Widgets
<1>2. PICK t \in Texts : ui' = SetText(ui, t)
  BY <1>1 DEF TypePin, Texts
<1>3. ui.stack = "pin" /\ UNCHANGED <<open, command, pin, working, offered, turn, strays>>
  BY DEF TypePin, InputVisible, history
<1>4. /\ Keeps(ui, ui') /\ ui'.stack = ui.stack /\ ui'.ok.visible = ui.ok.visible
      /\ ui'.ok.does = ui.ok.does /\ ui'.ok.certificate = ui.ok.certificate
      /\ ui'.input.text = t
      /\ t = ui.input.text => ui' = ui
      /\ t # ui.input.text => ui'.ok.enabled = Acceptable(ui, t)
  BY <1>1, <1>2, SetTextEffect
<1>5. ui'.ok.does = "acceptPin" /\ ui'.ok.certificate.mode = "keyboard" /\ ui'.ok.enabled
        => t = ui'.ok.certificate.rule
  <2> SUFFICES ASSUME ui'.ok.does = "acceptPin", ui'.ok.certificate.mode = "keyboard",
                      ui'.ok.enabled
               PROVE  t = ui'.ok.certificate.rule
    OBVIOUS
  <2>1. /\ ui.ok.certificate \in Certificates /\ ui.validator = ui.ok.certificate.rule
        /\ ui.ok.enabled => ui.input.text = ui.ok.certificate.rule
        /\ ui.validator # NoRule
    BY <1>4, RuleIsAPattern DEF Sure, SureInv
  <2> QED
    BY <1>4, <2>1 DEF Acceptable
<1>6. SureInv'
  BY <1>3, <1>4, <1>5 DEF Sure, SureInv, Keeps
<1>7. Typed' /\ ~Starts
  BY <1>3, <1>4 DEF Sure, Typed, Starts, Keeps
<1> QED
  BY <1>6, <1>7 DEF Sure, PinOK

LEMMA ClickCertificateSure == Sure /\ ClickCertificate => Sure' /\ PinOK
<1> SUFFICES ASSUME Sure, ClickCertificate PROVE Sure' /\ PinOK
  OBVIOUS
<1>1. ui \in Widgets
  BY DEF Sure, Typed
<1>2. PICK c \in ui.buttons : ui' = Click(ui, c)
  BY DEF ClickCertificate
<1>3. /\ ui.stack = "select" /\ UNCHANGED <<open, command, pin, working, offered, turn, strays>>
      /\ c \in Certificates /\ c # NoCertificate
  BY <1>1, NoCertificateIsNone DEF ClickCertificate, Widgets, history
<1>4. /\ ui' \in Widgets /\ KeepsPage(ui, ui') /\ ui'.current = ui.current
      /\ ui'.another = ui.another /\ ui'.validator = ui.validator
      /\ ui'.ok.visible = ui.ok.visible /\ ui'.ok.does = ui.ok.does
      /\ ui'.ok.certificate = ui.ok.certificate
      /\ c.state # "valid" => ui' = ui
      /\ c.state = "valid" => ui'.checked = c /\ ui'.ok.enabled = IsCardActive(ui, c)
  BY <1>1, <1>2, <1>3, ClickEffect
<1>5. ui'.ok.does # "acceptPin" /\ ui'.stack = "select"
  BY <1>3, <1>4 DEF Sure, SureInv, KeepsPage
<1>6. SureInv'
  BY <1>3, <1>4, <1>5 DEF Sure, SureInv, KeepsPage
<1>7. Typed' /\ ~Starts
  BY <1>3, <1>4 DEF Sure, Typed, Starts
<1> QED
  BY <1>6, <1>7 DEF Sure, PinOK

(* What the effects say of the pages.                                      *)
LEMMA SelectPage1 ==
    ASSUME NEW u \in Widgets, NEW list \in SUBSET Certificates
    PROVE  LET v == OnMultipleCertificatesReady(u, list) IN
           /\ v \in Widgets /\ v.current = u.current /\ v.stack = "select"
           /\ v.ok.enabled = FALSE
           /\ u.current = "authenticate" => v.ok.does = "choose"
           /\ u.current # "authenticate" => v.ok.does = "acceptChecked"
           /\ u.current # "authenticate" => v.another = u.another
<1> DEFINE v == OnMultipleCertificatesReady(u, list)
<1>1. list \subseteq Certificates
  OBVIOUS
<1>2. /\ v \in Widgets /\ v.current = u.current /\ v.stack = "select"
      /\ v.ok.visible = TRUE /\ v.ok.enabled = FALSE
      /\ u.current = "authenticate" => v.ok.does = "choose"
      /\ u.current # "authenticate" => v.ok.does = "acceptChecked"
      /\ v.cancel = [visible |-> TRUE, enabled |-> TRUE]
      /\ v.bar = u.bar /\ v.checked = NoCertificate
      /\ u.current = "authenticate" => v.another = (Cardinality(list) > 1)
      /\ u.current # "authenticate" => v.another = u.another
  BY <1>1, OnMultipleEffect
<1> HIDE DEF v
<1> QED
  BY <1>2 DEF v

LEMMA ConfirmPage1 ==
    ASSUME NEW u \in Widgets, NEW c \in Certificates, u.current = "get-signing-certificate"
    PROVE  LET v == OnSingleCertificateReady(u, c) IN
           /\ v \in Widgets /\ v.current = u.current /\ v.stack = "select"
           /\ v.another = u.another /\ v.ok.does = "accept"
BY OnSingleToSelect

(* The choice of a certificate.                                            *)
LEMMA SelectPageSure ==
    ASSUME Sure, NEW u \in Widgets, NEW list \in SUBSET Certificates,
           u.current = command, command \in {"authenticate", "get-signing-certificate"},
           command # "authenticate" => ~u.another,
           ui' = OnMultipleCertificatesReady(u, list), command' = command
    PROVE  ui' \in Widgets /\ SureInv'
<1>1. /\ ui' \in Widgets /\ ui'.current = u.current /\ ui'.stack = "select"
      /\ ui'.ok.enabled = FALSE
      /\ u.current = "authenticate" => ui'.ok.does = "choose"
      /\ u.current # "authenticate" => ui'.ok.does = "acceptChecked"
      /\ u.current # "authenticate" => ui'.another = u.another
  <2> DEFINE v == OnMultipleCertificatesReady(u, list)
  <2>1. /\ v \in Widgets /\ v.current = u.current /\ v.stack = "select"
        /\ v.ok.enabled = FALSE
        /\ u.current = "authenticate" => v.ok.does = "choose"
        /\ u.current # "authenticate" => v.ok.does = "acceptChecked"
        /\ u.current # "authenticate" => v.another = u.another
    BY SelectPage1
  <2> HIDE DEF v
  <2> QED
    BY <2>1 DEF v
<1> QED
  BY <1>1 DEF SureInv

LEMMA SelectAnotherSure == Sure /\ SelectAnother => Sure' /\ PinOK
<1> SUFFICES ASSUME Sure, SelectAnother PROVE Sure' /\ PinOK
  OBVIOUS
<1> DEFINE cleared == SetText(ui, "")
<1>1. /\ ui \in Widgets /\ ui.another /\ ui.stack = "pin" /\ ui.others \in SUBSET Certificates
      /\ UNCHANGED <<open, command, pin, working, offered, turn, strays>>
      /\ ui' = OnMultipleCertificatesReady(cleared, ui.others)
  BY DEF SelectAnother, history, Sure, Typed, Widgets
<1>2. "" \in Texts
  BY DEF Texts
<1>3. cleared \in Widgets /\ cleared.current = ui.current
  BY <1>1, <1>2, SetTextEffect DEF Keeps
<1>4. ui.current = command /\ command = "authenticate"
  BY <1>1 DEF Sure, SureInv
<1> HIDE DEF cleared
<1>5. ui' \in Widgets /\ SureInv'
  BY <1>1, <1>3, <1>4, SelectPageSure
<1>6. Typed' /\ ~Starts
  BY <1>1, <1>5 DEF Sure, Typed, Starts
<1> QED
  BY <1>5, <1>6 DEF Sure, PinOK

(* A certificate is put on the PIN page, or to be confirmed.               *)
LEMMA PromptSure ==
    ASSUME Sure, NEW u \in Widgets, NEW c \in Certificates, Prompt(u, c),
           u.current = command, u.another = ui.another, u.ok.does = ui.ok.does,
           u.ok.certificate = ui.ok.certificate, u.ok.enabled => ui.ok.enabled,
           u.validator = ui.validator, u.input = ui.input, command' = command
    PROVE  /\ ui' \in Widgets /\ working' \in Seq(Certificates)
           /\ SureInv' /\ PinOK
<1>1. /\ ui' = OnSingleCertificateReady(u, c)
      /\ working' = IF WaitsForPinPad(u, c) THEN Append(working, c) ELSE working
      /\ working \in Seq(Certificates)
  BY DEF Prompt, Sure, Typed
<1>2. /\ working' \in Seq(Certificates)
      /\ Starts => Last(working') = c /\ c.mode = "pinpad"
  <2>1. CASE WaitsForPinPad(u, c)
    BY <1>1, <2>1, AppendEffect DEF WaitsForPinPad
  <2>2. CASE ~WaitsForPinPad(u, c)
    BY <1>1, <2>2 DEF Starts
  <2> QED
    BY <2>1, <2>2
<1>3. CASE command = "get-signing-certificate"
  <2>1. /\ ui' \in Widgets /\ ui'.current = u.current /\ ui'.stack = "select"
        /\ ui'.another = u.another /\ ui'.ok.does = "accept"
    <3> DEFINE v == OnSingleCertificateReady(u, c)
    <3>1. /\ v \in Widgets /\ v.current = u.current /\ v.stack = "select"
          /\ v.another = u.another /\ v.ok.does = "accept"
      BY <1>3, ConfirmPage1
    <3> HIDE DEF v
    <3> QED
      BY <1>1, <3>1 DEF v
  <2>2. SureInv'
    BY <1>3, <2>1 DEF Sure, SureInv
  <2> QED
    BY <1>2, <2>1, <2>2 DEF PinOK
<1>4. CASE command # "get-signing-certificate"
  <2>1. /\ OnPinPage(u, c, ui')
        /\ c.state # "valid" \/ c.mode = "pinpad" =>
             /\ ui'.ok.does = u.ok.does /\ ui'.ok.certificate = u.ok.certificate
             /\ ui'.ok.enabled = u.ok.enabled
             /\ ui'.validator = u.validator /\ ui'.input.text = u.input.text
        /\ c.state = "valid" /\ c.mode # "pinpad" =>
             /\ ui'.ok = [visible |-> TRUE, enabled |-> (c.mode = "external"),
                          does |-> "acceptPin", certificate |-> c]
             /\ c.mode = "keyboard" => ui'.validator = c.rule
    BY <1>1, <1>4, OnSingleToPin
  <2>2. /\ ui'.stack = "pin" /\ ui'.current = command' /\ (ui'.another => ui.another)
    BY <2>1 DEF OnPinPage
  <2>3. CASE c.state # "valid" \/ c.mode = "pinpad"
    <3>1. SureInv'
      BY <1>4, <2>1, <2>2, <2>3 DEF Sure, SureInv
    <3> QED
      BY <1>2, <2>1, <3>1 DEF PinOK, OnPinPage
  <2>4. CASE c.state = "valid" /\ c.mode # "pinpad"
    <3>1. /\ ui'.ok.does = "acceptPin" /\ ui'.ok.certificate = c
          /\ ui'.ok.enabled = (c.mode = "external")
          /\ c.mode = "keyboard" => ui'.validator = c.rule
      BY <2>1, <2>4
    <3>2. SureInv'
      BY <1>4, <2>2, <3>1 DEF Sure, SureInv
    <3> QED
      BY <1>2, <2>1, <3>2 DEF PinOK, OnPinPage
  <2> QED
    BY <2>3, <2>4
<1> QED
  BY <1>3, <1>4

LEMMA CertificatesReadySure ==
    ASSUME Sure, NEW list \in SUBSET Certificates, CertificatesReady(list)
    PROVE  Sure' /\ PinOK
<1>1. CASE Close
  BY <1>1, CloseSure DEF Sure
<1>2. CASE ~Close
  <2>1. /\ ui.current # "insert-card" /\ UNCHANGED <<open, command, pin>>
        /\ command = "sign" => Cardinality(list) = 1
        /\ offered' = list \/ offered' = offered
        /\ Turn("read", "ask") /\ ui \in Widgets /\ Typed
        /\ IF Cardinality(list) = 1
           THEN \E c \in list : Prompt(ui, c)
           ELSE ui' = OnMultipleCertificatesReady(ui, list) /\ working' = working
    BY <1>2 DEF CertificatesReady, Sure, Typed
  <2>2. command \in {"get-signing-certificate", "authenticate", "sign"}
    BY <2>1, CommandsOK DEF Typed
  <2>3. ui.current = command
    BY <2>1 DEF Sure, SureInv
  <2>4. ui' \in Widgets /\ working' \in Seq(Certificates) /\ SureInv' /\ PinOK
    <3>1. CASE Cardinality(list) = 1
      BY <2>1, <2>3, <3>1, PromptSure
    <3>2. CASE Cardinality(list) # 1
      <4>1. ui' \in Widgets /\ SureInv'
        BY <2>1, <2>2, <2>3, <3>2, SelectPageSure DEF Sure, SureInv
      <4>2. working' \in Seq(Certificates) /\ ~Starts
        BY <2>1, <3>2 DEF Typed, Starts
      <4> QED
        BY <4>1, <4>2 DEF PinOK
    <3> QED
      BY <3>1, <3>2
  <2>5. Typed'
    <3>1. /\ turn' \in {"look", "read", "ask"} /\ strays' \in Nat /\ strays' <= MaxStrays
      BY <2>1, TurnTyped
    <3> QED
      BY <2>1, <2>4, <3>1, WidgetsTyped DEF Typed
  <2> QED
    BY <2>4, <2>5 DEF Sure
<1> QED
  BY <1>1, <1>2

LEMMA AcceptCertificateSure == Sure /\ AcceptCertificate => Sure' /\ PinOK
<1> SUFFICES ASSUME Sure, AcceptCertificate PROVE Sure' /\ PinOK
  OBVIOUS
<1> DEFINE c == IF ui.ok.does = "accept" THEN ui.ok.certificate ELSE ui.checked
           v == [ui EXCEPT !.ok.enabled = FALSE]
<1>1. /\ ui.ok.does \in {"accept", "acceptChecked"} /\ c # NoCertificate
      /\ ui' = v /\ working' = Append(working, c)
      /\ UNCHANGED <<open, command, pin, offered, turn, strays>>
  BY DEF AcceptCertificate, Accepted, history
<1>2. ui \in Widgets /\ working \in Seq(Certificates)
  BY DEF Sure, Typed
<1>3. c \in Certificates
  BY <1>1, <1>2 DEF Widgets, MaybeCertificates
<1>4. /\ v \in Widgets /\ v.stack = ui.stack /\ v.current = ui.current
      /\ v.another = ui.another /\ v.ok.visible = ui.ok.visible
      /\ v.ok.does = ui.ok.does /\ v.ok.enabled = FALSE
  BY <1>2 DEF Widgets
<1> HIDE DEF c, v
<1>5. Typed' /\ command = "get-signing-certificate"
  BY <1>1, <1>2, <1>3, <1>4, AppendEffect DEF Sure, Typed, SureInv
<1>6. SureInv'
  BY <1>1, <1>4 DEF Sure, SureInv
<1> QED
  BY <1>5, <1>6 DEF Sure, PinOK

LEMMA ChooseCertificateSure ==
    Sure /\ OkCanBeClicked /\ ChooseCertificate => Sure' /\ PinOK
<1> SUFFICES ASSUME Sure, OkCanBeClicked, ChooseCertificate PROVE Sure' /\ PinOK
  OBVIOUS
<1> DEFINE v == [ui EXCEPT !.ok.enabled = FALSE]
<1>1. /\ ui.ok.does = "choose" /\ ui.checked # NoCertificate /\ Prompt(v, ui.checked)
      /\ UNCHANGED <<open, command, pin, offered, turn, strays>> /\ ui.ok.visible
  BY DEF ChooseCertificate, OkCanBeClicked, history
<1>2. ui \in Widgets /\ ui.current = command
  BY <1>1 DEF Sure, Typed, SureInv
<1>3. ui.checked \in Certificates
  BY <1>1, <1>2 DEF Widgets, MaybeCertificates
<1>4. /\ v \in Widgets /\ v.current = ui.current /\ v.another = ui.another
      /\ v.ok.does = ui.ok.does /\ v.ok.certificate = ui.ok.certificate
      /\ v.ok.enabled = FALSE /\ v.validator = ui.validator /\ v.input = ui.input
  BY <1>2 DEF Widgets
<1> HIDE DEF v
<1>5. ui' \in Widgets /\ working' \in Seq(Certificates) /\ SureInv' /\ PinOK
  BY <1>1, <1>2, <1>3, <1>4, PromptSure
<1>6. Typed'
  BY <1>1, <1>5 DEF Sure, Typed
<1> QED
  BY <1>5, <1>6 DEF Sure

LEMMA AcceptPinSure == Sure /\ OkCanBeClicked /\ AcceptPin => Sure' /\ PinOK
<1> SUFFICES ASSUME Sure, OkCanBeClicked, AcceptPin PROVE Sure' /\ PinOK
  OBVIOUS
<1> DEFINE c == ui.ok.certificate
           w == [ui EXCEPT !.input.visible = FALSE, !.ok.enabled = FALSE, !.cancel.enabled = FALSE]
           v == SetText(w, "")
<1>1. /\ ui.ok.does = "acceptPin" /\ pin' = ui.input.text /\ ui' = v
      /\ working' = Append(working, c) /\ UNCHANGED <<open, command, offered, turn, strays>>
      /\ ui.ok.enabled /\ ui \in Widgets /\ working \in Seq(Certificates)
  BY DEF AcceptPin, Accepted, OkCanBeClicked, history, Sure, Typed
<1>2. /\ command # "get-signing-certificate" /\ c \in Certificates /\ ui.stack # "select"
      /\ c.mode = "keyboard" =>
           ui.validator = c.rule /\ ui.input.text = c.rule /\ c.rule # NoRule
  BY <1>1, RuleIsAPattern DEF Sure, SureInv
<1>3. w \in Widgets
  BY <1>1 DEF Widgets, Button
<1>4. /\ w.current = ui.current /\ w.another = ui.another /\ w.validator = ui.validator
      /\ w.stack = ui.stack /\ w.ok.visible = ui.ok.visible /\ w.ok.does = "acceptPin"
      /\ w.ok.certificate = c /\ w.ok.enabled = FALSE
  BY <1>1 DEF Widgets
<1>5. "" \in Texts /\ ui.input.text \in Texts
  BY <1>1 DEF Texts, Widgets
<1> HIDE DEF w
<1>6. /\ Keeps(w, v) /\ v.stack = w.stack
      /\ v.ok.visible = w.ok.visible /\ v.ok.does = w.ok.does
      /\ v.ok.certificate = w.ok.certificate /\ v.input.text = ""
      /\ "" = w.input.text => v = w
      /\ "" # w.input.text => v.ok.enabled = Acceptable(w, "")
  BY <1>3, <1>5, SetTextEffect
<1> HIDE DEF c, v
<1>7. c.mode = "keyboard" /\ v.ok.enabled => v.input.text = c.rule
  BY <1>2, <1>4, <1>6 DEF Acceptable
<1>8. /\ working' \in Seq(Certificates) /\ Last(working') = c
  BY <1>1, <1>2, AppendEffect
<1>9. Typed'
  BY <1>1, <1>5, <1>6, <1>8 DEF Sure, Typed, Keeps
<1>s. /\ ui'.current = ui.current /\ ui'.another = ui.another /\ ui'.stack = ui.stack
      /\ ui'.validator = ui.validator /\ ui'.ok.visible = ui.ok.visible
      /\ ui'.ok.does = "acceptPin" /\ ui'.ok.certificate = c /\ command' = command
      /\ c.mode = "keyboard" /\ ui'.ok.enabled => ui'.input.text = c.rule
  BY <1>1, <1>4, <1>6, <1>7 DEF Keeps
<1>10. SureInv'
  BY <1>1, <1>2, <1>s DEF Sure, SureInv
<1> QED
  BY <1>1, <1>2, <1>8, <1>9, <1>10 DEF Sure, PinOK

LEMMA StepSure == Sure /\ [Next]_vars => Sure' /\ PinOK
<1> SUFFICES ASSUME Sure, [Next]_vars PROVE Sure' /\ PinOK
  OBVIOUS
<1>0. CASE Close
  BY <1>0, CloseSure DEF Sure
<1>1. CASE Open \/ GetPin \/ UNCHANGED vars
  <2>1. open' \in BOOLEAN /\ pin' \in Texts /\ UNCHANGED <<ui, command, working, offered, turn, strays>>
    BY <1>1 DEF Open, GetPin, vars, history, Sure, Typed, Texts
  <2> QED
    BY <2>1, SameSure
<1>2. CASE StatusUpdate \/ CardsAvailable
  BY <1>2, StatusUpdateSure, CardsAvailableSure
<1>3. CASE \E list \in {l \in SUBSET Certificates : Cardinality(l) \in 1 .. 2} :
              CertificatesReady(list)
  BY <1>3, CertificatesReadySure
<1>4. CASE \E fatal \in BOOLEAN : PinFailed(fatal)
  BY <1>4, PinFailedSure
<1>5. CASE ReadingFailed \/ ConfirmFailed
  BY <1>5, ReadingFailedSure, ConfirmFailedSure
<1>6. CASE Dispose \/ Reject
  BY <1>0, <1>6 DEF Dispose, Reject
<1>7. CASE ClickOK
  BY <1>0, <1>7, AcceptCertificateSure, ChooseCertificateSure, AcceptPinSure
     DEF ClickOK, CertificateNotFound
<1>8. CASE TypePin \/ ClickCertificate \/ SelectAnother
  BY <1>8, TypePinSure, ClickCertificateSure, SelectAnotherSure
<1> QED
  BY <1>1, <1>2, <1>3, <1>4, <1>5, <1>6, <1>7, <1>8 DEF Next

-----------------------------------------------------------------------------
(* Strays are forgotten only when the dialog is closed.                    *)
LEMMA StraysStay == Typed /\ [Next]_vars /\ strays' = 0 => strays = 0 \/ (open /\ Close)
<1> SUFFICES ASSUME Typed, [Next]_vars, strays' = 0, ~(open /\ Close) PROVE strays = 0
  OBVIOUS
<1>1. \A from, to : Turn(from, to) => strays = 0
  BY DEF Turn, Typed
<1>2. CASE UNCHANGED history \/ UNCHANGED vars
  BY <1>2 DEF history, vars
<1>3. CASE StatusUpdate \/ CardsAvailable \/ ReadingFailed
  BY <1>1, <1>3 DEF StatusUpdate, CardsAvailable, ReadingFailed
<1>4. CASE \E list \in {l \in SUBSET Certificates : Cardinality(l) \in 1 .. 2} :
              CertificatesReady(list)
  BY <1>1, <1>4 DEF CertificatesReady
<1> QED
  BY <1>2, <1>3, <1>4
     DEF Next, Open, GetPin, PinFailed, ConfirmFailed, ConfirmEnds, Dispose, ClickOK,
         AcceptCertificate, ChooseCertificate, AcceptPin, CertificateNotFound, TypePin,
         ClickCertificate, SelectAnother, Reject

IInv == Sure /\ (strays = 0 => Inv)

LEMMA StepIInv == IInv /\ [Next]_vars => IInv' /\ PinOK /\ (strays' = 0 => Inv' /\ StartOK)
<1> SUFFICES ASSUME IInv, [Next]_vars PROVE IInv' /\ PinOK /\ (strays' = 0 => Inv' /\ StartOK)
  OBVIOUS
<1>1. Sure' /\ PinOK
  BY StepSure DEF IInv
<1>2. ASSUME strays' = 0 PROVE Inv' /\ StartOK
  <2>1. CASE strays = 0
    BY <1>2, <2>1, StepInv DEF IInv
  <2>2. CASE open /\ Close
    BY <2>2, CloseInv DEF IInv, Sure
  <2> QED
    BY <1>2, <2>1, <2>2, StraysStay DEF IInv, Sure
<1> QED
  BY <1>1, <1>2 DEF IInv

LEMMA Invariance == Spec => []IInv
<1>1. Init => IInv
  BY InitInv, InitSure DEF IInv
<1>2. IInv /\ [Next]_vars => IInv'
  BY StepIInv
<1> QED
  BY <1>1, <1>2, PTL DEF Spec

(* OK on the selection page always has a certificate to go with, for any   *)
(* certificates on the cards and in any order of the signals: "Certificate-*)
(* Button not found" is not reached (webeiddialog.cpp:280, 306).           *)
THEOREM OkAlwaysHasCertificate == Spec => []OkHasCertificate
<1>1. IInv => OkHasCertificate
  BY DEF IInv, Sure, SureInv, OkHasCertificate, OkCanBeClicked
<1> QED
  BY <1>1, Invariance, PTL

(* As long as the signals come in their turn: when nothing is at work the  *)
(* user can leave, whatever pages, failures and retries came before        *)
(* (webeiddialog.cpp:443 reject).                                          *)
THEOREM UserCanAlwaysLeave == Spec => []UserCanLeave
<1>1. IInv => UserCanLeave
  BY DEF IInv, Inv, Typed, Widgets, Button, LeaveInv, UserCanLeave, BarVisible
<1> QED
  BY <1>1, Invariance, PTL

(* As long as the signals come in their turn: a confirm thread is started  *)
(* only with the certificate the user sees, valid and with an active PIN;  *)
(* the closure behind OK has not become stale, however many pages ago it   *)
(* was made.                                                               *)
THEOREM OnlyShownIsConfirmed == Spec => ConfirmsWhatIsShown
<1>1. IInv /\ [Next]_vars => [Starts /\ strays' = 0 => LET c == Last(working') IN
                                /\ c.state = "valid" /\ IsCardActive(ui, c)
                                /\ c = IF command = "get-signing-certificate" THEN ui'.checked
                                       ELSE ui'.displayed]_vars
  BY StepIInv DEF StartOK
<1> QED
  BY <1>1, Invariance, PTL DEF Spec, ConfirmsWhatIsShown

(* The PIN handed on fits the rule of the certificate it is for, for any   *)
(* certificates and rules and in any order of the signals: no attempt of   *)
(* the card is lost to a PIN typed for another one.                        *)
THEOREM OnlyFittingPinIsUsed == Spec => PinFitsCertificate
<1>1. IInv /\ [Next]_vars =>
        [Starts /\ Last(working').mode = "keyboard" /\ command # "get-signing-certificate"
           => pin' = Last(working').rule]_vars
  BY StepIInv DEF PinOK
<1> QED
  BY <1>1, Invariance, PTL DEF Spec, PinFitsCertificate

(* The widgets, the cached PIN and the certificates in use stay of their   *)
(* type, whatever slots and clicks follow each other.                      *)
THEOREM TypeCorrect == Spec => []TypeOK
<1>1. IInv => TypeOK
  <2> SUFFICES ASSUME Typed PROVE TypeOK
    BY DEF IInv, Sure
  <2>1. strays \in 0 .. MaxStrays
    BY BoundsOK DEF Typed
  <2> QED
    BY <2>1 DEF Typed, Widgets, Button, Texts, Actions, MaybeCertificates, TypeOK
<1> QED
  BY <1>1, Invariance, PTL

-----------------------------------------------------------------------------
(* A closed dialog has the widgets of a new one, OK is not visible before  *)
(* it is connected to something, and the way back to the choice of a       *)
(* certificate is there only if there are several.                         *)
SeveralInv ==
    /\ ~open => ui.stack = "waiting"
    /\ ui.ok.does = "nothing" => ~ui.ok.visible
    /\ ui.another \/ ui.ok.does = "choose" => Cardinality(offered) > 1

(* With a single certificate whose PIN is typed there is nothing to choose *)
(* from, and while its confirm thread is at work OK is disabled and has no *)
(* input that could enable it.                                             *)
SingleInv ==
    command # "get-signing-certificate" =>
        \A c \in Certificates : offered = {c} /\ c.mode = "keyboard" =>
            /\ ui.stack # "select"
            /\ ui.stack = "pin" => ui.displayed = c
            /\ Len(working) <= 1
            /\ working # <<>> =>
                 /\ ui.stack = "pin" /\ ui.ok.does = "acceptPin"
                 /\ ~ui.ok.enabled /\ ~ui.input.visible

-----------------------------------------------------------------------------
(* The page, as it can be read off the widgets.                            *)

PageRead ==
    /\ ~open => Page = ""
    /\ open /\ ui.stack = "waiting" => Page = "wait"
    /\ open /\ ui.stack = "alert" =>
         Page = IF ui.ok.visible /\ ui.ok.enabled THEN "retry" ELSE "alert"
    /\ open /\ ui.stack = "select" =>
         /\ ~ui.ok.visible => Page = "alert"
         /\ ui.ok.visible =>
              Page = IF ~ui.ok.enabled /\ working # <<>> /\ ui.ok.does # "choose" THEN "busy" ELSE "select"
    /\ open /\ ui.stack = "pin" =>
         /\ ui.bar => Page = "pinpad"
         /\ ~ui.bar /\ ~ui.ok.visible => Page = "blocked"
         /\ ~ui.bar /\ ui.ok.visible =>
              Page = IF ui.ok.enabled \/ ui.input.visible THEN "pin"
                     ELSE IF working # <<>> THEN "busy" ELSE "blocked"

LEMMA PageIsRead == Typed => PageRead
<1> SUFFICES ASSUME Typed PROVE PageRead
  OBVIOUS
<1>1. /\ ui.stack \in {"waiting", "alert", "select", "pin"}
      /\ ui.ok.visible \in BOOLEAN /\ ui.ok.enabled \in BOOLEAN
      /\ ui.input.visible \in BOOLEAN /\ ui.bar \in BOOLEAN /\ open \in BOOLEAN
  BY DEF Typed, Widgets
<1> QED
  BY <1>1 DEF PageRead, Page, SelectPage, PinPage, OkCanBecomeClickable, OkCanBeClicked,
              BarVisible, InputVisible

LEMMA NextPageIsRead == Typed' => PageRead'
BY PageIsRead, PTL

LEMMA WidgetTypes ==
    ASSUME NEW u \in Widgets
    PROVE  /\ u.stack \in {"waiting", "alert", "select", "pin"}
           /\ u.ok.visible \in BOOLEAN /\ u.ok.enabled \in BOOLEAN
           /\ u.input.visible \in BOOLEAN /\ u.bar \in BOOLEAN /\ u.another \in BOOLEAN
           /\ u.ok.does \in Actions
BY DEF Widgets

(* A step of the pages, or none that the user sees.                        *)
PageStep == [Shows!Next]_Shows!vars

LEMMA SamePage ==
    ASSUME Page' = Page, UNCHANGED <<command, offered>>
    PROVE  PageStep
BY DEF PageStep, Shows!vars

LEMMA PagesOfTheDialog ==
    ASSUME Typed, open
    PROVE  Page \in {"wait", "alert", "select", "pin", "pinpad", "busy", "retry", "blocked"}
BY PageIsRead, WidgetTypes DEF Typed, PageRead

-----------------------------------------------------------------------------
(* Each action is a step of the pages.                                     *)

LEMMA OpenStep == Inv /\ Inv' /\ SeveralInv /\ Open => SeveralInv' /\ PageStep
<1> SUFFICES ASSUME Inv, Inv', SeveralInv, Open PROVE SeveralInv' /\ PageStep
  OBVIOUS
<1>1. ~open /\ open' = TRUE /\ UNCHANGED <<command, ui, working, offered, turn, strays>> /\ ui.stack = "waiting"
  BY DEF Open, SeveralInv, history
<1>2. Page = "" /\ Page' = "wait"
  BY <1>1, PageIsRead, NextPageIsRead DEF Inv, PageRead
<1> QED
  BY <1>1, <1>2 DEF SeveralInv, PageStep, Shows!Next, Shows!Open, Shows!Goto

LEMMA StatusUpdateStep == Inv /\ Inv' /\ SeveralInv /\ StatusUpdate => SeveralInv' /\ PageStep
<1> SUFFICES ASSUME Inv, Inv', SeveralInv, StatusUpdate PROVE SeveralInv' /\ PageStep
  OBVIOUS
<1>1. /\ open /\ open' /\ ui.stack \in {"waiting", "alert"} /\ ui.ok.does = "nothing"
      /\ UNCHANGED <<command, offered>>
      /\ ui' = [ui EXCEPT !.current = "insert-card", !.cancel.visible = TRUE,
                          !.ok.visible = FALSE, !.stack = "alert"]
  BY DEF StatusUpdate, Slot, Turn, Inv, TurnInv
<1>2. ui'.stack = "alert" /\ ui'.ok.visible = FALSE /\ ui'.another = ui.another
      /\ ui'.ok.does = "nothing"
  BY <1>1 DEF Inv, Typed, Widgets
<1>3. Page \in {"wait", "alert"} /\ Page' = "alert"
  BY <1>1, <1>2, PageIsRead, NextPageIsRead DEF Inv, SeveralInv, PageRead
<1>4. SeveralInv'
  BY <1>1, <1>2 DEF SeveralInv
<1> QED
  BY <1>1, <1>3, <1>4 DEF PageStep, Shows!Next, Shows!CardStatus, Shows!Goto

LEMMA CardsAvailableStep == Inv /\ Inv' /\ SeveralInv /\ CardsAvailable => SeveralInv' /\ PageStep
<1> SUFFICES ASSUME Inv, Inv', SeveralInv, CardsAvailable PROVE SeveralInv' /\ PageStep
  OBVIOUS
<1>1. /\ open /\ open' /\ ui.stack \in {"waiting", "alert"} /\ ui.ok.does = "nothing"
      /\ UNCHANGED <<command, offered>>
      /\ ui' = [ui EXCEPT !.current = command, !.ok.visible = FALSE, !.stack = "waiting"]
  BY DEF CardsAvailable, Slot, Turn, Inv, TurnInv
<1>2. ui'.stack = "waiting" /\ ui'.ok.visible = FALSE /\ ui'.another = ui.another
      /\ ui'.ok.does = "nothing"
  BY <1>1 DEF Inv, Typed, Widgets
<1>3. Page \in {"wait", "alert"} /\ Page' = "wait"
  BY <1>1, <1>2, PageIsRead, NextPageIsRead DEF Inv, SeveralInv, PageRead
<1>4. SeveralInv'
  BY <1>1, <1>2 DEF SeveralInv
<1> QED
  BY <1>1, <1>3, <1>4, SamePage DEF PageStep, Shows!Next, Shows!CardFound, Shows!Goto

LEMMA GetPinStep == Inv /\ Inv' /\ SeveralInv /\ GetPin => SeveralInv' /\ PageStep
<1> SUFFICES ASSUME Inv, Inv', SeveralInv, GetPin PROVE SeveralInv' /\ PageStep
  OBVIOUS
<1>1. UNCHANGED <<open, command, ui, working, offered, turn, strays>>
  BY DEF GetPin, history
<1>2. Page' = Page
  BY <1>1 DEF Page, SelectPage, PinPage, OkCanBecomeClickable, OkCanBeClicked, BarVisible, InputVisible
<1> QED
  BY <1>1, <1>2, SamePage DEF SeveralInv

(* The dialog goes away.                                                   *)
LEMMA CloseStep == Typed /\ Typed' /\ open /\ Close => SeveralInv' /\ PageStep
<1> SUFFICES ASSUME Typed, Typed', open, Close PROVE SeveralInv' /\ PageStep
  OBVIOUS
<1>1. ~open' /\ ui' = NewWidgets /\ offered' = {} /\ command' = command
  BY DEF Close
<1>2. (Cardinality(offered') > 1) = FALSE
  BY <1>1, FS_EmptySet
<1>3. Page # "" /\ Page' = ""
  BY <1>1, PagesOfTheDialog, NextPageIsRead DEF PageRead
<1>4. SeveralInv'
  BY <1>1 DEF SeveralInv, NewWidgets
<1>5. Shows!Close
  BY <1>1, <1>2, <1>3 DEF Shows!Close
<1> QED
  BY <1>4, <1>5 DEF PageStep, Shows!Next

(* "Try again" comes up.                                                   *)
LEMMA RetryStep ==
    ASSUME Inv, Inv', SeveralInv, open, ui' = OnRetryImpl(ui), UNCHANGED <<open, command, offered>>
    PROVE  SeveralInv' /\ Page' = "retry" /\ PageStep
<1>1. /\ Keeps(ui, ui') /\ ui'.stack = "alert" /\ ui'.ok.does = "retry"
      /\ ui'.ok.visible = TRUE /\ ui'.ok.enabled = TRUE
  BY OnRetryImplEffect DEF Inv, Typed
<1>2. Page' = "retry"
  BY <1>1, NextPageIsRead DEF Inv, PageRead
<1>3. SeveralInv'
  BY <1>1 DEF SeveralInv, Keeps
<1>4. PageStep
  BY <1>2, PagesOfTheDialog, SamePage DEF Inv, PageStep, Shows!Next, Shows!Retry, Shows!Goto
<1> QED
  BY <1>2, <1>3, <1>4

LEMMA FailedStep ==
    Inv /\ Inv' /\ SeveralInv /\ (ReadingFailed \/ ConfirmFailed) => SeveralInv' /\ PageStep
BY RetryStep DEF ReadingFailed, ConfirmFailed, ConfirmEnds, Slot, history

(* onVerifyPinFailed: it depends on the page on top what the user sees of  *)
(* the failure.                                                            *)
LEMMA PinFailedStep ==
    ASSUME Inv, Inv', SeveralInv, NEW fatal \in BOOLEAN, PinFailed(fatal)
    PROVE  SeveralInv' /\ PageStep
<1>1. /\ working # <<>> /\ command # "get-signing-certificate" /\ open /\ open'
      /\ ui' = OnVerifyPinFailed(ui, fatal) /\ UNCHANGED <<open, command, offered, turn, strays>>
  BY DEF PinFailed, ConfirmEnds, Slot, history
<1>2. /\ ui.stack \in {"waiting", "alert", "select", "pin"}
      /\ ui.ok.visible \in BOOLEAN /\ ui.ok.enabled \in BOOLEAN
      /\ ui.input.visible \in BOOLEAN /\ ui.bar \in BOOLEAN
  BY WidgetTypes DEF Inv, Typed
<1>3. ui.stack = "select" => ui.ok.does = "choose"
  BY <1>1 DEF Inv, PageInv
<1>4. PageRead /\ PageRead'
  BY PageIsRead, NextPageIsRead DEF Inv
<1>5. CASE fatal
  <2>1. /\ Keeps(ui, ui') /\ ui'.stack = ui.stack /\ ui'.bar = FALSE
        /\ ui'.ok.visible = FALSE /\ ui'.ok.does = ui.ok.does
    BY <1>1, <1>5, DisplayFatalErrorEffect DEF OnVerifyPinFailed, Inv, Typed
  <2>2. \/ Page' = Page
        \/ Page \in {"busy", "pin", "pinpad"} /\ Page' = "blocked"
        \/ Page \in {"select", "retry"} /\ Page' = "alert"
    BY <1>1, <1>2, <1>3, <1>4, <2>1 DEF PageRead
  <2>3. SeveralInv'
    BY <1>1, <2>1 DEF SeveralInv, Keeps
  <2> QED
    BY <1>1, <2>2, <2>3, SamePage DEF PageStep, Shows!Next, Shows!PinFailed, Shows!Goto
<1>6. CASE ~fatal /\ BarVisible(ui)
  <2>1. SeveralInv' /\ Page' = "retry"
    BY <1>1, <1>6, RetryStep DEF OnVerifyPinFailed
  <2>2. Page = "pinpad"
    BY <1>1, <1>4, <1>6 DEF PageRead, BarVisible
  <2> QED
    BY <1>1, <2>1, <2>2 DEF PageStep, Shows!Next, Shows!PinFailed, Shows!Goto
<1>7. CASE ~fatal /\ ~BarVisible(ui)
  <2>1. ui' = [ui EXCEPT !.input.visible = TRUE, !.ok.enabled = FALSE, !.cancel.enabled = TRUE]
    BY <1>1, <1>7 DEF OnVerifyPinFailed
  <2>2. /\ ui'.stack = ui.stack /\ ui'.bar = ui.bar /\ ui'.input.visible = TRUE
        /\ ui'.ok.visible = ui.ok.visible /\ ui'.ok.enabled = FALSE
        /\ ui'.ok.does = ui.ok.does /\ ui'.another = ui.another
    BY <2>1 DEF Inv, Typed, Widgets, Button
  <2>3. \/ Page' = Page
        \/ Page = "busy" /\ Page' = "pin"
        \/ Page = "retry" /\ Page' = "alert"
    BY <1>1, <1>2, <1>3, <1>4, <1>7, <2>2 DEF PageRead, BarVisible
  <2>4. SeveralInv'
    BY <1>1, <2>2 DEF SeveralInv
  <2> QED
    BY <1>1, <2>3, <2>4, SamePage DEF PageStep, Shows!Next, Shows!PinFailed, Shows!Goto
<1> QED
  BY <1>5, <1>6, <1>7

LEMMA TypePinStep == Inv /\ Inv' /\ SeveralInv /\ TypePin => SeveralInv' /\ PageStep
<1> SUFFICES ASSUME Inv, Inv', SeveralInv, TypePin PROVE SeveralInv' /\ PageStep
  OBVIOUS
<1>1. ui \in Widgets /\ ui.validator \in Rules \cup {NoRule}
  BY DEF Inv, Typed, Widgets
<1>2. PICK t \in Texts : ui' = SetText(ui, t)
  BY <1>1 DEF TypePin, Texts
<1>3. /\ ui.input.visible /\ ui.stack = "pin" /\ open /\ open'
      /\ UNCHANGED <<open, command, working, offered, turn, strays>>
  BY DEF TypePin, InputVisible, history
<1>4. /\ Keeps(ui, ui') /\ ui'.stack = ui.stack /\ ui'.bar = ui.bar
      /\ ui'.ok.visible = ui.ok.visible /\ ui'.ok.does = ui.ok.does
      /\ ui'.input.visible = ui.input.visible
  BY <1>1, <1>2, SetTextEffect
<1>5. Page' = Page
  BY <1>1, <1>3, <1>4, PageIsRead, NextPageIsRead, WidgetTypes DEF Inv, PageRead
<1>6. SeveralInv'
  BY <1>3, <1>4 DEF SeveralInv, Keeps
<1> QED
  BY <1>3, <1>5, <1>6, SamePage

(* A certificate that can be used enables OK, another one disables it.     *)
LEMMA ClickCertificateStep == Inv /\ Inv' /\ SeveralInv /\ ClickCertificate => SeveralInv' /\ PageStep
<1> SUFFICES ASSUME Inv, Inv', SeveralInv, ClickCertificate PROVE SeveralInv' /\ PageStep
  OBVIOUS
<1>1. ui \in Widgets
  BY DEF Inv, Typed
<1>2. PICK c \in ui.buttons : ui' = Click(ui, c)
  BY DEF ClickCertificate
<1>3. /\ ui.stack = "select" /\ open /\ open' /\ UNCHANGED <<open, command, working, offered, turn, strays>>
      /\ c \in Certificates
  BY <1>1 DEF ClickCertificate, Widgets, history
<1>4. /\ ui' \in Widgets /\ KeepsPage(ui, ui') /\ ui'.another = ui.another
      /\ ui'.ok.visible = ui.ok.visible /\ ui'.ok.does = ui.ok.does
  BY <1>1, <1>2, <1>3, ClickEffect
<1>5. ui.ok.does # "choose" => command = "get-signing-certificate"
  BY <1>3 DEF Inv, PageInv
<1>6. \/ Page' = Page
      \/ command = "get-signing-certificate" /\ Page = "busy" /\ Page' = "select"
      \/ command = "get-signing-certificate" /\ Page = "select" /\ Page' = "busy"
  <2>1. PageRead /\ PageRead'
    BY PageIsRead, NextPageIsRead DEF Inv
  <2> QED
    BY <1>1, <1>3, <1>4, <1>5, <2>1, WidgetTypes DEF PageRead, KeepsPage
<1>7. SeveralInv'
  BY <1>3, <1>4 DEF SeveralInv, KeepsPage
<1> QED
  BY <1>3, <1>6, <1>7, SamePage
     DEF PageStep, Shows!Next, Shows!SelectAnother, Shows!Confirm, Shows!Goto

(* Going back to the choice of a certificate.                              *)
LEMMA SelectAnotherStep == Inv /\ Inv' /\ SeveralInv /\ SelectAnother => SeveralInv' /\ PageStep
<1> SUFFICES ASSUME Inv, Inv', SeveralInv, SelectAnother PROVE SeveralInv' /\ PageStep
  OBVIOUS
<1> DEFINE cleared == SetText(ui, "")
           v == OnMultipleCertificatesReady(cleared, offered)
<1>1. /\ ui.another /\ ui.stack = "pin" /\ open /\ open' /\ UNCHANGED <<open, command, working, offered, turn, strays>>
      /\ ui' = v /\ ui \in Widgets /\ offered \subseteq Certificates
  BY DEF SelectAnother, history, Inv, Typed, TurnInv
<1>2. ui.current = command /\ command = "authenticate" /\ ui.bar = FALSE /\ Cardinality(offered) > 1
  BY <1>1 DEF Inv, PageInv, LeaveInv, Widgets, SeveralInv
<1>3. cleared \in Widgets /\ cleared.current = "authenticate"
  <2>1. "" \in Texts
    BY DEF Texts
  <2> QED
    BY <1>1, <1>2, <2>1, SetTextEffect DEF Keeps
<1> HIDE DEF cleared
<1>4. v.stack = "select" /\ v.ok.visible = TRUE /\ v.ok.does = "choose"
  BY <1>1, <1>3, OnMultipleEffect
<1> HIDE DEF v
<1>5. Page \in {"pin", "busy", "blocked"}
  BY <1>1, <1>2, PageIsRead, WidgetTypes DEF Inv, PageRead
<1>6. Page' = "select"
  BY <1>1, <1>4, NextPageIsRead DEF Inv, PageRead
<1>7. SeveralInv'
  BY <1>1, <1>2, <1>4 DEF SeveralInv
<1> QED
  BY <1>1, <1>2, <1>5, <1>6, <1>7 DEF PageStep, Shows!Next, Shows!SelectAnother, Shows!Goto

(* A certificate comes to the PIN page.                                    *)
LEMMA PromptStep ==
    ASSUME Inv, Inv', NEW u \in Widgets, NEW c \in Certificates, Prompt(u, c), open',
           u.current # "get-signing-certificate", u.bar = FALSE,
           c.state = "expired" \/ u.ok.does = "nothing" => ~u.ok.visible,
           u.another \/ u.ok.does = "choose" => Cardinality(offered') > 1,
           working = <<>> \/ IsCardActive(u, c)
    PROVE  SeveralInv' /\ Page' \in {"pin", "pinpad", "blocked"}
<1> DEFINE active == IsCardActive(u, c)
<1>1. /\ ui' = OnSingleCertificateReady(u, c)
      /\ working' = IF WaitsForPinPad(u, c) THEN Append(working, c) ELSE working
  BY DEF Prompt
<1>2. /\ OnPinPage(u, c, ui')
      /\ c.state = "expired" =>
           /\ ui'.ok = u.ok /\ ui'.bar = u.bar /\ ui'.cancel = u.cancel
      /\ c.state = "blocked" \/ (c.state = "valid" /\ c.mode = "pinpad") =>
           ui'.ok.does = u.ok.does /\ ui'.ok.visible = FALSE
      /\ c.state = "blocked" =>
           /\ ui'.bar = FALSE /\ ui'.cancel = [visible |-> TRUE, enabled |-> TRUE]
      /\ c.state = "valid" /\ c.mode = "pinpad" =>
           /\ ui'.bar = active /\ ui'.cancel.visible = ~active
           /\ ui'.cancel.enabled = u.cancel.enabled
           /\ ui'.bar => ~ui'.another
      /\ c.state = "valid" /\ c.mode # "pinpad" =>
           /\ ui'.ok = [visible |-> TRUE, enabled |-> (c.mode = "external"),
                        does |-> "acceptPin", certificate |-> c]
           /\ ui'.cancel = [visible |-> TRUE, enabled |-> TRUE]
           /\ c.mode = "external" => ui'.bar = u.bar
           /\ c.mode = "keyboard" =>
                /\ ui'.bar = FALSE /\ ui'.validator = c.rule
                /\ ui'.input.visible = active
  BY <1>1, OnSingleToPin
<1>3. /\ c.mode \in {"keyboard", "pinpad", "external"}
      /\ c.state \in {"valid", "expired", "blocked"}
      /\ active \in BOOLEAN
  BY RuleIsAPattern, SameCommandSameActive
<1>4. c.mode # "pinpad" => working' = working
  BY <1>1 DEF WaitsForPinPad
<1> HIDE DEF active
<1>5. ui'.stack = "pin" /\ PageRead' /\ (ui'.another => u.another)
  BY <1>2, NextPageIsRead DEF Inv, OnPinPage
<1>6. CASE c.state = "expired"
  BY <1>2, <1>5, <1>6 DEF PageRead, SeveralInv
<1>7. CASE c.state = "blocked"
  BY <1>2, <1>5, <1>7 DEF PageRead, SeveralInv
<1>8. CASE c.state = "valid" /\ c.mode = "pinpad"
  BY <1>2, <1>3, <1>5, <1>8 DEF PageRead, SeveralInv
<1>9. CASE c.state = "valid" /\ c.mode # "pinpad"
  <2>1. /\ ui'.ok.visible = TRUE /\ ui'.ok.enabled = (c.mode = "external")
        /\ ui'.ok.does = "acceptPin" /\ ui'.bar = FALSE
        /\ c.mode = "keyboard" => ui'.input.visible = active
    BY <1>2, <1>3, <1>9
  <2>2. c.mode = "keyboard" => active \/ working' = <<>>
    BY <1>4, <1>9 DEF active
  <2>3. SeveralInv'
    BY <1>5, <2>1 DEF SeveralInv
  <2>4. CASE c.mode = "external"
    BY <1>5, <2>1, <2>3, <2>4 DEF PageRead
  <2>5. CASE c.mode = "keyboard"
    BY <1>3, <1>5, <2>1, <2>2, <2>3, <2>5 DEF PageRead
  <2> QED
    BY <1>3, <1>9, <2>4, <2>5
<1> QED
  BY <1>3, <1>6, <1>7, <1>8, <1>9

LEMMA CertificatesReadyStep ==
    ASSUME Inv, Inv', SeveralInv, NEW list \in SUBSET Certificates, Cardinality(list) \in 1 .. 2,
           CertificatesReady(list), ~Close, strays' = 0
    PROVE  SeveralInv' /\ PageStep
<1>1. /\ ui.stack = "waiting" /\ open /\ open' /\ offered' = list /\ command' = command
      /\ ui \in Widgets /\ list \subseteq Certificates /\ turn = "read"
      /\ IF Cardinality(list) = 1
         THEN \E c \in list : Prompt(ui, c)
         ELSE command # "sign" /\ ui' = OnMultipleCertificatesReady(ui, list) /\ working' = working
  <2>1. turn = "read"
    BY TurnIsRead
  <2> QED
    BY <2>1 DEF CertificatesReady, Inv, Typed, TurnInv
<1>2. /\ ui.current = command /\ ui.ok.does = "nothing" /\ working = <<>> /\ ui.ok.visible = FALSE
      /\ ui.bar = FALSE /\ ui.another = FALSE
      /\ command \in {"get-signing-certificate", "authenticate", "sign"}
  <2>1. /\ offered = {} /\ command \in {"get-signing-certificate", "authenticate", "sign"}
    BY <1>1, CommandsOK DEF Inv, Typed, TurnInv
  <2>2. ~(Cardinality(offered) > 1)
    BY <2>1, FS_EmptySet
  <2> QED
    BY <1>1, <2>1, <2>2, WidgetTypes DEF Inv, PageInv, LeaveInv, SeveralInv
<1>3. PageRead /\ PageRead' /\ Page = "wait"
  BY <1>1, PageIsRead, NextPageIsRead DEF Inv, PageRead
<1>4. CASE Cardinality(list) = 1
  <2>1. PICK c \in list : Prompt(ui, c)
    BY <1>1, <1>4
  <2>2. c \in Certificates /\ (Cardinality(offered') > 1) = FALSE
    BY <1>1, <1>4
  <2>3. CASE command = "get-signing-certificate"
    <3>1. ui' = OnSingleCertificateReady(ui, c) /\ working' = working
      BY <1>2, <2>1, <2>3 DEF Prompt, WaitsForPinPad
    <3>2. /\ ui'.stack = "select" /\ ui'.ok.visible = TRUE /\ ui'.ok.does = "accept"
          /\ ui'.another = ui.another
      BY <1>1, <1>2, <2>2, <2>3, <3>1, OnSingleToSelect
    <3>3. SeveralInv' /\ Page' = "select"
      BY <1>1, <1>2, <1>3, <3>1, <3>2 DEF SeveralInv, PageRead
    <3>4. Shows!Ready
      BY <1>1, <1>3, <2>2, <2>3, <3>3 DEF Shows!Ready
    <3> QED
      BY <3>3, <3>4 DEF PageStep, Shows!Next
  <2>4. CASE command # "get-signing-certificate"
    <3>1. SeveralInv' /\ Page' \in {"pin", "pinpad", "blocked"}
      BY <1>1, <1>2, <2>1, <2>2, <2>4, PromptStep
    <3>2. Shows!Ready
      BY <1>1, <1>2, <1>3, <2>2, <2>4, <3>1 DEF Shows!Ready
    <3> QED
      BY <3>1, <3>2 DEF PageStep, Shows!Next
  <2> QED
    BY <2>3, <2>4
<1>5. CASE Cardinality(list) # 1
  <2> DEFINE v == OnMultipleCertificatesReady(ui, list)
  <2>1. command # "sign" /\ ui' = v /\ working' = working
    BY <1>1, <1>5
  <2>2. Cardinality(offered') > 1
    BY <1>1, <1>5
  <2>3. v.stack = "select" /\ v.ok.visible = TRUE /\ v.ok.does \in {"choose", "acceptChecked"}
    BY <1>1, OnMultipleEffect
  <2> HIDE DEF v
  <2>4. SeveralInv' /\ Page' = "select"
    BY <1>1, <1>2, <1>3, <2>1, <2>2, <2>3 DEF SeveralInv, PageRead
  <2>5. (Cardinality(offered') > 1) = TRUE
    BY <2>2
  <2>6. Shows!Ready
    BY <1>1, <1>2, <1>3, <2>1, <2>4, <2>5 DEF Shows!Ready
  <2> QED
    BY <2>4, <2>6 DEF PageStep, Shows!Next
<1> QED
  BY <1>4, <1>5

LEMMA AcceptCertificateStep ==
    Inv /\ Inv' /\ SeveralInv /\ open /\ OkCanBeClicked /\ AcceptCertificate => SeveralInv' /\ PageStep
<1> SUFFICES ASSUME Inv, Inv', SeveralInv, open, OkCanBeClicked, AcceptCertificate
             PROVE  SeveralInv' /\ PageStep
  OBVIOUS
<1> DEFINE c == IF ui.ok.does = "accept" THEN ui.ok.certificate ELSE ui.checked
<1>1. /\ ui.ok.does \in {"accept", "acceptChecked"} /\ working' = Append(working, c)
      /\ ui' = [ui EXCEPT !.ok.enabled = FALSE] /\ UNCHANGED <<open, command, offered, turn, strays>>
      /\ ui.ok.visible /\ ui.ok.enabled
  BY DEF AcceptCertificate, Accepted, OkCanBeClicked, history
<1> HIDE DEF c
<1>2. command = "get-signing-certificate" /\ ui.stack = "select"
  BY <1>1 DEF Inv, PageInv
<1>3. /\ ui'.stack = "select" /\ ui'.ok.visible /\ ui'.ok.enabled = FALSE /\ ui'.ok.does = ui.ok.does
      /\ ui'.another = ui.another
  BY <1>1, <1>2 DEF Inv, Typed, Widgets
<1>4. working' # <<>>
  BY <1>1 DEF Inv, Typed
<1>5. Page = "select" /\ Page' = "busy"
  BY <1>1, <1>2, <1>3, <1>4, PageIsRead, NextPageIsRead DEF Inv, PageRead
<1>6. SeveralInv'
  BY <1>1, <1>3 DEF SeveralInv
<1> QED
  BY <1>1, <1>2, <1>5, <1>6 DEF PageStep, Shows!Next, Shows!Confirm, Shows!Goto

LEMMA ChooseCertificateStep ==
    Inv /\ Inv' /\ SeveralInv /\ open /\ OkCanBeClicked /\ ChooseCertificate => SeveralInv' /\ PageStep
<1> SUFFICES ASSUME Inv, Inv', SeveralInv, open, OkCanBeClicked, ChooseCertificate
             PROVE  SeveralInv' /\ PageStep
  OBVIOUS
<1> DEFINE v == [ui EXCEPT !.ok.enabled = FALSE]
<1>1. /\ ui.ok.does = "choose" /\ ui.checked # NoCertificate /\ Prompt(v, ui.checked)
      /\ UNCHANGED <<open, command, pin, offered, turn, strays>> /\ ui.ok.visible /\ ui.ok.enabled
      /\ ui \in Widgets
  BY DEF ChooseCertificate, OkCanBeClicked, history, Inv, Typed
<1>2. ui.stack = "select" /\ command = "authenticate" /\ ui.current = command
  BY <1>1 DEF Inv, PageInv
<1>3. ui.checked \in Certificates /\ ui.checked.state = "valid" /\ IsCardActive(ui, ui.checked)
  BY <1>1, <1>2 DEF Inv, CheckedInv, Widgets, MaybeCertificates
<1>4. ui.bar = FALSE /\ Cardinality(offered) > 1
  BY <1>1, <1>2 DEF Inv, LeaveInv, Widgets, SeveralInv
<1>5. /\ v \in Widgets /\ KeepsPage(ui, v) /\ v.current = ui.current /\ v.another = ui.another
      /\ v.ok.does = ui.ok.does
  BY <1>1 DEF Widgets, KeepsPage
<1> HIDE DEF v
<1>6. IsCardActive(v, ui.checked)
  BY <1>3, <1>5, SameCommandSameActive
<1>7. SeveralInv' /\ Page' \in {"pin", "pinpad", "blocked"}
  <2>1. v.current # "get-signing-certificate" /\ v.bar = FALSE
    BY <1>2, <1>4, <1>5 DEF KeepsPage
  <2>2. /\ ui.checked.state = "expired" \/ v.ok.does = "nothing" => ~v.ok.visible
        /\ Cardinality(offered') > 1 /\ open'
    BY <1>1, <1>3, <1>4, <1>5
  <2> QED
    BY <1>1, <1>3, <1>5, <1>6, <2>1, <2>2, PromptStep
<1>8. Page = "select"
  BY <1>1, <1>2, PageIsRead DEF Inv, PageRead
<1> QED
  BY <1>1, <1>2, <1>4, <1>7, <1>8 DEF PageStep, Shows!Next, Shows!Choose, Shows!Goto

LEMMA AcceptPinStep ==
    Inv /\ Inv' /\ SeveralInv /\ open /\ OkCanBeClicked /\ AcceptPin => SeveralInv' /\ PageStep
<1> SUFFICES ASSUME Inv, Inv', SeveralInv, open, OkCanBeClicked, AcceptPin
             PROVE  SeveralInv' /\ PageStep
  OBVIOUS
<1> DEFINE w == [ui EXCEPT !.input.visible = FALSE, !.ok.enabled = FALSE, !.cancel.enabled = FALSE]
           v == SetText(w, "")
<1>1. /\ ui.ok.does = "acceptPin" /\ ui' = v /\ working' = Append(working, ui.ok.certificate)
      /\ UNCHANGED <<open, command, offered, turn, strays>> /\ ui.ok.visible /\ ui.ok.enabled /\ ui \in Widgets
  BY DEF AcceptPin, Accepted, OkCanBeClicked, history, Inv, Typed
<1>2. ui.stack = "pin" /\ command # "get-signing-certificate" /\ ui.bar = FALSE
  BY <1>1, WidgetTypes DEF Inv, PinInv, LeaveInv
<1>3. w \in Widgets
  BY <1>1 DEF Widgets, Button
<1>4. w.stack = "pin" /\ w.bar = FALSE /\ w.ok.visible /\ w.ok.does = "acceptPin" /\ w.another = ui.another
  BY <1>1, <1>2 DEF Widgets, Button
<1>5. "" \in Texts
  BY DEF Texts
<1> HIDE DEF w
<1>6. /\ Keeps(w, v) /\ v.stack = w.stack /\ v.bar = w.bar
      /\ v.ok.visible = w.ok.visible /\ v.ok.does = w.ok.does
  BY <1>3, <1>5, SetTextEffect
<1> HIDE DEF v
<1>7. working' # <<>>
  BY <1>1 DEF Inv, Typed
<1>8. Page = "pin" /\ Page' \in {"pin", "busy"}
  BY <1>1, <1>2, <1>4, <1>6, <1>7, PageIsRead, NextPageIsRead DEF Inv, PageRead
<1>9. SeveralInv'
  BY <1>1, <1>4, <1>6 DEF SeveralInv, Keeps
<1> QED
  BY <1>1, <1>2, <1>8, <1>9, SamePage DEF PageStep, Shows!Next, Shows!Confirm, Shows!Goto

LEMMA ClickOKStep == Inv /\ Inv' /\ SeveralInv /\ ClickOK => SeveralInv' /\ PageStep
BY AcceptCertificateStep, ChooseCertificateStep, AcceptPinStep, CloseStep
   DEF ClickOK, CertificateNotFound, Inv

LEMMA InitPages == Init => SeveralInv /\ SingleInv /\ Shows!Init
<1> SUFFICES ASSUME Init PROVE SeveralInv /\ SingleInv /\ Shows!Init
  OBVIOUS
<1>0. ~open /\ ui = NewWidgets /\ offered = {}
  BY DEF Init
<1>1. ~open /\ ui = NewWidgets /\ offered = {} /\ (Cardinality(offered) > 1) = FALSE
  BY <1>0, FS_EmptySet
<1>2. SeveralInv
  BY <1>1 DEF SeveralInv, NewWidgets
<1>3. SingleInv
  BY <1>1 DEF SingleInv
<1>4. Page = ""
  BY <1>1, InitInv, PageIsRead DEF Inv, PageRead
<1> QED
  BY <1>1, <1>2, <1>3, <1>4 DEF Shows!Init

LEMMA StepOfThePages ==
    ASSUME Inv, Inv', SeveralInv, [Next]_vars, strays' = 0
    PROVE  SeveralInv' /\ PageStep
<1>0. CASE open /\ Close
  BY <1>0, CloseStep DEF Inv
<1>1. CASE Open
  BY <1>1, OpenStep
<1>2. CASE StatusUpdate
  BY <1>2, StatusUpdateStep
<1>3. CASE CardsAvailable
  BY <1>3, CardsAvailableStep
<1>4. CASE \E list \in {l \in SUBSET Certificates : Cardinality(l) \in 1 .. 2} :
              CertificatesReady(list)
  <2>1. PICK list \in SUBSET Certificates :
                Cardinality(list) \in 1 .. 2 /\ CertificatesReady(list)
    BY <1>4
  <2> QED
    BY <1>0, <2>1, CertificatesReadyStep DEF CertificatesReady
<1>5. CASE GetPin
  BY <1>5, GetPinStep
<1>6. CASE \E fatal \in BOOLEAN : PinFailed(fatal)
  BY <1>6, PinFailedStep
<1>7. CASE ReadingFailed \/ ConfirmFailed
  BY <1>7, FailedStep
<1>8. CASE Dispose \/ Reject
  BY <1>0, <1>8 DEF Dispose, Reject
<1>9. CASE ClickOK
  BY <1>9, ClickOKStep
<1>10. CASE TypePin
  BY <1>10, TypePinStep
<1>11. CASE ClickCertificate
  BY <1>11, ClickCertificateStep
<1>12. CASE SelectAnother
  BY <1>12, SelectAnotherStep
<1>13. CASE UNCHANGED vars
  <2>1. Page' = Page /\ UNCHANGED <<open, command, ui, working, offered, turn, strays>>
    BY <1>13 DEF vars, Page, SelectPage, PinPage, OkCanBecomeClickable, OkCanBeClicked,
                 BarVisible, InputVisible
  <2> QED
    BY <2>1, SamePage DEF SeveralInv
<1> QED
  BY <1>1, <1>2, <1>3, <1>4, <1>5, <1>6, <1>7, <1>8, <1>9, <1>10, <1>11, <1>12, <1>13 DEF Next

-----------------------------------------------------------------------------
(* One PIN at a time.                                                      *)

(* A single certificate is one ...                                         *)
LEMMA OneIsNotSeveral == ASSUME NEW c PROVE ~(Cardinality({c}) > 1)
<1>1. Cardinality({c}) = 1
  BY FS_Singleton
<1> QED
  BY <1>1

(* ... and a single thread is none when it has ended.                      *)
LEMMA TailOfOne ==
    ASSUME NEW s \in Seq(Certificates), Len(s) <= 1, s # <<>>
    PROVE  Tail(s) = <<>>
OBVIOUS

(* What SingleInv says of one certificate.                                 *)
Alone(c) ==
    /\ ui.stack # "select"
    /\ ui.stack = "pin" => ui.displayed = c
    /\ Len(working) <= 1
    /\ working # <<>> =>
         /\ ui.stack = "pin" /\ ui.ok.does = "acceptPin"
         /\ ~ui.ok.enabled /\ ~ui.input.visible

(* OK has handed the PIN on; it is disabled, and the text that is cleared  *)
(* does not enable it again.                                               *)
LEMMA AcceptPinAlone ==
    ASSUME Inv, NEW c \in Certificates, Alone(c), c.mode = "keyboard", OkCanBeClicked, AcceptPin
    PROVE  Alone(c)'
<1> DEFINE w == [ui EXCEPT !.input.visible = FALSE, !.ok.enabled = FALSE, !.cancel.enabled = FALSE]
           v == SetText(w, "")
<1>1. /\ ui.ok.does = "acceptPin" /\ ui' = v /\ working' = Append(working, ui.ok.certificate)
      /\ ui.ok.visible /\ ui.ok.enabled /\ ui \in Widgets
  BY DEF AcceptPin, Accepted, OkCanBeClicked, Inv, Typed
<1>2. /\ ui.stack = "pin" /\ ui.ok.certificate = c /\ ui.displayed = c /\ working = <<>>
      /\ ui.validator = c.rule /\ ui.input.text = c.rule /\ c.rule # NoRule
  BY <1>1, RuleIsAPattern DEF Alone, Inv, PinInv
<1>3. w \in Widgets
  BY <1>1 DEF Widgets, Button
<1>4. /\ w.stack = "pin" /\ w.displayed = c /\ w.ok.does = "acceptPin" /\ w.ok.enabled = FALSE
      /\ w.input.visible = FALSE /\ w.input.text = c.rule /\ w.validator = c.rule
  BY <1>1, <1>2 DEF Widgets, Button
<1>5. "" \in Texts
  BY DEF Texts
<1> HIDE DEF w
<1>6. /\ Keeps(w, v) /\ v.stack = w.stack /\ v.ok.does = w.ok.does /\ v.input.visible = w.input.visible
      /\ "" = w.input.text => v = w
      /\ "" # w.input.text => v.ok.enabled = Acceptable(w, "")
  BY <1>3, <1>5, SetTextEffect
<1> HIDE DEF v
<1>7. ~v.ok.enabled
  BY <1>2, <1>4, <1>6 DEF Acceptable
<1>8. Len(working') = 1
  BY <1>1, <1>2 DEF Inv, PinInv
<1>9. /\ ui'.stack = "pin" /\ ui'.displayed = c /\ ui'.ok.does = "acceptPin"
      /\ ~ui'.ok.enabled /\ ~ui'.input.visible
  BY <1>1, <1>4, <1>6, <1>7 DEF Keeps
<1> QED
  BY <1>8, <1>9 DEF Alone

LEMMA ConfirmEndsAlone ==
    ASSUME Inv, NEW c \in Certificates, Alone(c), ConfirmEnds,
           ui'.stack = ui.stack \/ ui'.stack = "alert", ui'.displayed = ui.displayed
    PROVE  Alone(c)'
<1>1. working' = <<>>
  BY TailOfOne DEF ConfirmEnds, Alone, Inv, Typed
<1> QED
  BY <1>1 DEF Alone

LEMMA PinFailedAlone ==
    ASSUME Inv, NEW c \in Certificates, Alone(c), NEW fatal \in BOOLEAN, PinFailed(fatal)
    PROVE  Alone(c)'
<1>1. ConfirmEnds /\ ui' = OnVerifyPinFailed(ui, fatal) /\ ui \in Widgets
  BY DEF PinFailed, Slot, Inv, Typed
<1>2. (ui'.stack = ui.stack \/ ui'.stack = "alert") /\ ui'.displayed = ui.displayed
  <2>1. CASE fatal
    BY <1>1, <2>1, DisplayFatalErrorEffect DEF OnVerifyPinFailed, Keeps
  <2>2. CASE ~fatal /\ BarVisible(ui)
    BY <1>1, <2>2, OnRetryImplEffect DEF OnVerifyPinFailed, Keeps
  <2>3. CASE ~fatal /\ ~BarVisible(ui)
    BY <1>1, <2>3 DEF OnVerifyPinFailed, Widgets
  <2> QED
    BY <2>1, <2>2, <2>3
<1> QED
  BY <1>1, <1>2, ConfirmEndsAlone

LEMMA ConfirmFailedAlone ==
    ASSUME Inv, NEW c \in Certificates, Alone(c), ConfirmFailed
    PROVE  Alone(c)'
<1>1. ConfirmEnds /\ ui' = OnRetryImpl(ui) /\ ui \in Widgets
  BY DEF ConfirmFailed, Slot, Inv, Typed
<1>2. ui'.stack = "alert" /\ ui'.displayed = ui.displayed
  BY <1>1, OnRetryImplEffect DEF Keeps
<1> QED
  BY <1>1, <1>2, ConfirmEndsAlone

LEMMA TypePinAlone ==
    ASSUME Inv, NEW c \in Certificates, Alone(c), TypePin
    PROVE  Alone(c)'
<1>1. ui \in Widgets /\ ui.validator \in Rules \cup {NoRule}
  BY DEF Inv, Typed, Widgets
<1>2. PICK t \in Texts : ui' = SetText(ui, t)
  BY <1>1 DEF TypePin, Texts
<1>3. working' = <<>> /\ working = <<>>
  BY DEF TypePin, InputVisible, Alone
<1>4. Keeps(ui, ui') /\ ui'.stack = ui.stack
  BY <1>1, <1>2, SetTextEffect
<1> QED
  BY <1>3, <1>4 DEF Alone, Keeps

(* The certificate has been read.                                          *)
LEMMA CertificatesReadyAlone ==
    ASSUME Inv, NEW list \in SUBSET Certificates, CertificatesReady(list), ~Close, strays' = 0,
           NEW c \in Certificates, list = {c}, c.mode = "keyboard", command # "get-signing-certificate"
    PROVE  Alone(c)'
<1>1. Prompt(ui, c)
  <2>1. Cardinality(list) = 1
    BY FS_Singleton
  <2> QED
    BY <2>1 DEF CertificatesReady
<1>2. ui \in Widgets /\ ui.current # "get-signing-certificate" /\ working = <<>>
  <2>1. turn = "read"
    BY TurnIsRead
  <2> QED
    BY <2>1 DEF Inv, Typed, TurnInv, PageInv
<1>3. working' = <<>> /\ ui' = OnSingleCertificateReady(ui, c)
  BY <1>1, <1>2 DEF Prompt, WaitsForPinPad
<1>4. OnPinPage(ui, c, ui')
  BY <1>2, <1>3, OnSingleToPin
<1> QED
  BY <1>3, <1>4 DEF Alone, OnPinPage

LEMMA SingleStep ==
    ASSUME Inv, SeveralInv, SingleInv, [Next]_vars, strays' = 0
    PROVE  SingleInv'
<1> SUFFICES ASSUME command' # "get-signing-certificate", NEW c \in Certificates,
                    offered' = {c}, c.mode = "keyboard"
             PROVE  Alone(c)'
  BY DEF SingleInv, Alone
<1>a. command' = command
  BY DEF Next, vars, Open, StatusUpdate, CardsAvailable, CertificatesReady, GetPin, PinFailed,
         ReadingFailed, ConfirmFailed, Dispose, ClickOK, AcceptCertificate, ChooseCertificate, AcceptPin, CertificateNotFound, TypePin,
         ClickCertificate, SelectAnother, Reject, Slot, Close
<1>b. offered = {c} => Alone(c)
  BY <1>a DEF SingleInv, Alone
<1>c. ~Close
  BY DEF Close
<1>d. turn # "ask" => offered = {} /\ strays = 0
  BY DEF Inv, TurnInv
<1>1. CASE Open \/ GetPin \/ UNCHANGED vars
  <2>1. UNCHANGED <<ui, working, offered, turn, strays>>
    BY <1>1 DEF Open, GetPin, vars, history
  <2> QED
    BY <1>b, <2>1 DEF Alone
<1>2. CASE StatusUpdate \/ CardsAvailable \/ ReadingFailed
  <2>1. turn # "ask" /\ offered' = offered
    BY <1>2 DEF StatusUpdate, CardsAvailable, ReadingFailed, Turn, Inv, TurnInv
  <2> QED
    BY <1>d, <2>1
<1>4. CASE \E list \in {l \in SUBSET Certificates : Cardinality(l) \in 1 .. 2} :
              CertificatesReady(list)
  <2>1. PICK list \in SUBSET Certificates : CertificatesReady(list)
    BY <1>4
  <2>2. list = {c}
    <3>1. turn = "read"
      BY <1>c, <2>1, TurnIsRead
    <3> QED
      BY <1>c, <2>1, <3>1 DEF CertificatesReady
  <2> QED
    BY <1>a, <1>c, <2>1, <2>2, CertificatesReadyAlone
<1>6. CASE \E fatal \in BOOLEAN : PinFailed(fatal)
  BY <1>b, <1>6, PinFailedAlone DEF PinFailed, ConfirmEnds, history
<1>7. CASE ConfirmFailed
  BY <1>b, <1>7, ConfirmFailedAlone DEF ConfirmFailed, ConfirmEnds, history
<1>8. CASE Dispose \/ Reject
  BY <1>c, <1>8 DEF Dispose, Reject
<1>9. CASE ClickOK
  <2>1. CASE AcceptCertificate \/ ChooseCertificate
    <3>1. ui.stack = "select" /\ offered = {c}
      BY <1>9, <2>1 DEF AcceptCertificate, ChooseCertificate, history, Inv, PageInv, ClickOK,
                        OkCanBeClicked
    <3> QED
      BY <1>b, <3>1 DEF Alone
  <2>2. CASE AcceptPin
    BY <1>b, <1>9, <2>2, AcceptPinAlone DEF AcceptPin, ClickOK, history
  <2> QED
    BY <1>c, <1>9, <2>1, <2>2 DEF ClickOK, CertificateNotFound
<1>10. CASE TypePin
  BY <1>b, <1>10, TypePinAlone DEF TypePin, history
<1>11. CASE ClickCertificate
  BY <1>b, <1>11 DEF ClickCertificate, Alone, history
<1>12. CASE SelectAnother
  BY <1>12, OneIsNotSeveral DEF SelectAnother, SeveralInv, history
<1> QED
  BY <1>1, <1>2, <1>4, <1>6, <1>7, <1>8, <1>9, <1>10, <1>11, <1>12 DEF Next

LEMMA CloseSingle == Close => SingleInv'
BY DEF Close, SingleInv

PagesInv == strays = 0 => SeveralInv /\ SingleInv

LEMMA StepPagesInv ==
    ASSUME IInv, IInv', PagesInv, [Next]_vars, strays' = 0
    PROVE  SeveralInv' /\ SingleInv' /\ PageStep
<1>1. CASE strays = 0
  BY <1>1, StepOfThePages, SingleStep DEF IInv, PagesInv
<1>2. CASE open /\ Close
  BY <1>2, CloseStep, CloseSingle DEF IInv, Sure
<1> QED
  BY <1>1, <1>2, StraysStay DEF IInv, Sure

LEMMA PagesInvariance == Spec => []PagesInv
<1>1. Init => PagesInv
  BY InitPages DEF PagesInv
<1>2. IInv /\ IInv' /\ PagesInv /\ [Next]_vars => PagesInv'
  BY StepPagesInv DEF PagesInv
<1> QED
  BY <1>1, <1>2, Invariance, PTL DEF Spec

(* With a single certificate whose PIN is typed in the dialog, and as long *)
(* as the signals come in their turn, OK cannot be clicked until the card  *)
(* has answered, so that one PIN is used at a time (OnePinAtATime).        *)
THEOREM OnePinIsUsedInTurn == Spec => []OnePinAtATime
<1>1. PagesInv => OnePinAtATime
  <2> SUFFICES ASSUME SingleInv, command # "get-signing-certificate",
                      NEW c \in Certificates, offered = {c}, c.mode = "keyboard"
               PROVE  Len(working) <= 1 /\ (working # <<>> => ~OkCanBeClicked)
    BY DEF OnePinAtATime, PagesInv
  <2> QED
    BY DEF SingleInv, OkCanBeClicked
<1> QED
  BY <1>1, PagesInvariance, PTL

(* As long as the signals come in their turn, the widgets behave as the    *)
(* pages of DialogPages, those that Controller relies on: each change of   *)
(* the page on top, of its buttons, of the input or of the progress bar is *)
(* a step from page to page that is foreseen there (ShowsPages).           *)
THEOREM WidgetsShowThePages == Spec => ShowsPages
<1>1. IInv /\ IInv' /\ PagesInv /\ [Next]_vars => [strays' = 0 => Shows!Next]_(Shows!vars)
  BY StepPagesInv DEF PageStep
<1>2. Init => Shows!Init
  BY InitPages
<1> QED
  BY <1>1, <1>2, Invariance, PagesInvariance, PTL DEF Spec, ShowsPages
=============================================================================
