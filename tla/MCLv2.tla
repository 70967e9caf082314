------------------------------- MODULE MCLv2 -------------------------------
(* Instances of Lv2Reassembly for TLC.                                     *)
EXTENDS Lv2Reassembly
Stream == <<16, 6, 10, 16>>
Any    == 1 .. 25
Inside == {8, 25, 40}
=============================================================================
