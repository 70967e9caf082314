------------------------------ MODULE MCRing ------------------------------
(* Instances of RingBuffer for TLC: the threads that push.                 *)
EXTENDS RingBuffer

CONSTANTS l1, l2      \* the level 1 and the level 2 receiver thread

OneProducer  == {l2}
TwoProducers == {l1, l2}
=============================================================================
