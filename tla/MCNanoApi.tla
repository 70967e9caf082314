----------------------------- MODULE MCNanoApi -----------------------------
(* Both libraries, and quotes in order, back in time or volume, without a  *)
(* price, with the lowest and with the highest price.                      *)
EXTENDS NanoApi
BothVariants == {"gfex", "shfe"}
MCQuotes == {[time |-> 0, volume |-> 0, last |-> NaN], [time |-> 0, volume |-> 1, last |-> 2],
             [time |-> 1, volume |-> 0, last |-> 0],   [time |-> 1, volume |-> 1, last |-> 1]}
=============================================================================
