------------------------------ MODULE Session ------------------------------
(***************************************************************************)
(* What the browser extension may expect of one run of the application     *)
(* (src/README.md, "Input-output mode"): it writes one response to         *)
(* standard output and "exits after writing the result".                   *)
(***************************************************************************)
EXTENDS Sequences

CONSTANT Responses

VARIABLES output, exited

vars == <<output, exited>>

Init == output = <<>> /\ exited = FALSE

Respond == output = <<>> /\ ~exited /\ (\E r \in Responses : output' = <<r>>) /\ UNCHANGED exited

Exit == output # <<>> /\ ~exited /\ exited' = TRUE /\ UNCHANGED output

Safety == Init /\ [][Respond \/ Exit]_vars

Spec == Safety /\ WF_vars(Exit)
=============================================================================
