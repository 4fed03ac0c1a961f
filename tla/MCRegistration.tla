--------------------------- MODULE MCRegistration ---------------------------
(* Instances of Registration for TLC: a publishing and a subscribing process,*)
(* or two that do both.                                                      *)
EXTENDS Registration
=============================================================================
