----------------------------- MODULE MCRecorder -----------------------------
(* Instances of Recorder for TLC.                                            *)
EXTENDS Recorder

CONSTANTS c1, c2

\* Messages of one byte, and some that are larger than the buffer.
MCLenOf == [c \in Source |-> IF c = c1 THEN 1 ELSE 3]

MCQuota == [c \in Source |-> IF c = c1 THEN 2 ELSE 1]
=============================================================================
