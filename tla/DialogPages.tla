----------------------------- MODULE DialogPages -----------------------------
(***************************************************************************)
(* What one dialog shows to the user, from its creation to its end: the    *)
(* pages, and which may follow which.  Controller sees a dialog like this; *)
(* Dialog implements it with the widgets of WebEidDialog.                  *)
(*                                                                         *)
(* Pages: wait and alert have no OK button, select asks for a certificate, *)
(* pin for the PIN, pinpad waits for the PIN pad, busy is pin or select    *)
(* after OK, retry has a "Try again" button, blocked can only be left; ""  *)
(* is no dialog.                                                           *)
(***************************************************************************)
EXTENDS Naturals

VARIABLES
    command,  \* the command that is served
    page,     \* what the user sees
    several   \* TRUE once there have been several certificates to choose from

vars == <<command, page, several>>

Init == page = "" /\ several = FALSE

Goto(from, to) == page \in from /\ page' = to /\ UNCHANGED <<command, several>>

Open == Goto({""}, "wait")

(* The readers are looked at until there is a card.                        *)
CardStatus == Goto({"wait", "alert"}, "alert")
CardFound == Goto({"alert"}, "wait")

(* The certificates have been read.                                        *)
Ready ==
    /\ page = "wait"
    /\ page' \in CASE command = "get-signing-certificate" -> {"select", "blocked"}
                   [] command = "authenticate" -> {"select", "pin", "pinpad", "blocked"}
                   [] command = "sign" -> {"pin", "pinpad", "blocked"}
                   [] OTHER -> {}
    /\ several' \in BOOLEAN
    /\ several' => command # "sign" /\ page' \in {"select", "blocked"}
    /\ UNCHANGED command

(* Authenticate goes from the choice of a certificate to its PIN, and back *)
(* if there is another one.                                                *)
Choose ==
    /\ command = "authenticate" /\ several
    /\ \E to \in {"pin", "pinpad", "blocked"} : Goto({"select"}, to)

SelectAnother ==
    /\ command = "authenticate" => several
    /\ command # "sign"
    /\ Goto(IF command = "authenticate" THEN {"pin", "busy", "blocked"} ELSE {"busy"}, "select")

(* OK.                                                                     *)
Confirm ==
    Goto(IF command = "get-signing-certificate" THEN {"select"} ELSE {"pin"}, "busy")

(* The PIN was not accepted.  A choice of certificates the user has gone   *)
(* back to meanwhile loses its OK button if there is no attempt left.      *)
PinFailed ==
    /\ command # "get-signing-certificate"
    /\ \/ Goto({"busy"}, "pin")
       \/ Goto({"pinpad"}, "retry")
       \/ Goto({"busy", "pin", "pinpad"}, "blocked")
       \/ Goto({"select", "retry"}, "alert")

Retry == Goto({"wait", "alert", "select", "pin", "pinpad", "busy", "blocked"}, "retry")

Close == page # "" /\ page' = "" /\ several' = FALSE /\ UNCHANGED command

Next ==
    \/ Open \/ CardStatus \/ CardFound \/ Ready \/ Choose \/ SelectAnother
    \/ Confirm \/ PinFailed \/ Retry \/ Close

Spec == Init /\ [][Next]_vars
=============================================================================
