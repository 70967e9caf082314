----------------------------- MODULE MCNanoDce -----------------------------
(* Instances of NanoDceFilter for TLC.                                     *)
EXTENDS NanoDceFilter
CONSTANTS i1, b1, b2
OneInst  == {i1}
TwoBooks == {b1, b2}
Rising   == [v \in 1 .. 2 |-> v]
=============================================================================
