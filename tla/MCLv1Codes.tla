---------------------------- MODULE MCLv1Codes ----------------------------
(* Instance of Lv1CodeMap for TLC: two configured instruments, one whose   *)
(* key comes before theirs, and a file that disputes one index.            *)
EXTENDS Lv1CodeMap, TLC
MCExchange == (11 :> 2) @@ (13 :> 1)
MCFile == <<[code |-> 2, idx |-> 11], [code |-> 3, idx |-> 13]>>
=============================================================================
