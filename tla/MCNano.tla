------------------------------ MODULE MCNano ------------------------------
(* Instances of NanoLifecycle for TLC: which receivers.                    *)
EXTENDS NanoLifecycle
BothVariants == {TRUE, FALSE}
=============================================================================
