----------------------------- MODULE MCPubQueue -----------------------------
(* An instance of PubQueue for TLC: two handlers of one node, a publisher of*)
(* the same node, and one of another process whose messages have a type only*)
(* x takes.                                                                 *)
EXTENDS PubQueue

CONSTANTS x, y, t1, t2, n1

MCNodeOf == [h \in Handler |-> n1]

MCPubNode == [t \in Thread |-> n1]

MCSuits == [t \in Thread |-> IF t = t1 THEN Handler ELSE {x}]

MCQuota == [t \in Thread |-> IF t = t1 THEN 2 ELSE 1]
=============================================================================
