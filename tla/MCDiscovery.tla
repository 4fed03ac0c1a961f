---------------------------- MODULE MCDiscovery ----------------------------
(* Instances of Discovery for TLC: two or three processes on two machines.  *)
EXTENDS Discovery

CONSTANTS a, b, c, h1, h2

\* a and b share a machine, c has its own.
MCHostOf == [p \in Proc |-> IF p = c THEN h2 ELSE h1]

\* a and c are on different machines, b is not there.
MCApart == [p \in Proc |-> IF p = a THEN h1 ELSE h2]

\* One multicast group.  Own datagrams, which are dropped, do not loop back.
MCOthers == [p \in Proc |-> Proc \ {p}]

\* Two networks: a alone, and the rest.
MCSplit == [p \in Proc |-> IF p = a THEN {a} ELSE Proc \ {a}]

MCUnicastTo == [h \in Host |-> IF h = h1 THEN a ELSE CHOOSE p \in Proc : p # a]

MCNoRelays == [p \in Proc |-> {}]

\* a relays to the machine of the others.
MCRelays == [p \in Proc |-> IF p = a THEN {h2} ELSE {}]
=============================================================================
