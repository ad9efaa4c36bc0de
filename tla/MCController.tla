---------------------------- MODULE MCController ----------------------------
(***************************************************************************)
(* Instances of Controller for TLC: the ways a PIN may be refused.         *)
(***************************************************************************)
EXTENDS Controller

NoPinFailure == {}
WrongPin == {<<"wrong", "left">>}
UncountedPin == {<<"wrong", "unknown">>}

(* One refusal of each kind that the dialog is told of, and the count that *)
(* the two commands take in different ways.                                *)
EveryRefusal ==
    {<<"wrong", "left">>, <<"wrong", "unknown">>, <<"length", "none">>, <<"blocked", "none">>,
     <<"cancelled", "none">>, <<"disabled", "none">>, <<"unknown", "left">>}
=============================================================================
