------------------------------ MODULE MCDialog ------------------------------
(***************************************************************************)
(* Dialog with eight certificates: three ways to enter the PIN, two rules  *)
(* for it, and everything that keeps a certificate from being used.        *)
(***************************************************************************)
EXTENDS Dialog

Certificate(m, s, a, r) == [mode |-> m, state |-> s, active |-> a, rule |-> r]

MCCertificates ==
    {Certificate("keyboard", "valid", "both", "digits"),
     Certificate("keyboard", "valid", "both", "letters"),
     Certificate("keyboard", "valid", "pin1", "digits"),
     Certificate("keyboard", "expired", "both", "digits"),
     Certificate("keyboard", "blocked", "both", "digits"),
     Certificate("pinpad", "valid", "both", "digits"),
     Certificate("pinpad", "valid", "none", "digits"),
     Certificate("external", "valid", "both", "digits")}
=============================================================================
