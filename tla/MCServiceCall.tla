---------------------------- MODULE MCServiceCall ----------------------------
(* Instances of ServiceCall for TLC.                                          *)
EXTENDS ServiceCall

CONSTANTS r1, r2, s1, s2, K1, K2

\* Everybody uses the same types, ...
MCSameKind == [x \in Req \cup Server |-> K1]

\* ... or the first server has other ones.
MCOtherKind == [x \in Req \cup Server |-> IF x = s1 THEN K2 ELSE K1]
=============================================================================
