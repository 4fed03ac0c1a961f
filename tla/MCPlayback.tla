----------------------------- MODULE MCPlayback -----------------------------
(* Instances of Playback for TLC.                                            *)
EXTENDS Playback

\* Two topics, one of them with two types.
MCKeys == {[topic |-> "a", type |-> "t", id |-> 1],
           [topic |-> "b", type |-> "t", id |-> 2],
           [topic |-> "b", type |-> "u", id |-> 3]}

\* Three messages, two of them at one time, written out of order.
MCRows == <<[topic |-> "a", type |-> "t", time |-> 1],
            [topic |-> "b", type |-> "u", time |-> 3],
            [topic |-> "b", type |-> "t", time |-> 1]>>

MCPatterns == {{"b"}}
=============================================================================
