------------------------------ MODULE MCMerge ------------------------------
(* Instances of QuotaMerge for TLC.                                        *)
EXTENDS QuotaMerge
CONSTANTS lc, b1, empty, nan
OneInst   == {lc}
AllBooks  == {b1, empty, nan}
BothFeeds == {1, 5}
=============================================================================
