---------------------------- MODULE MCLv1Stream ----------------------------
(* Instance of Lv1Stream for TLC.                                          *)
EXTENDS Lv1Stream
MCStreams == {<<"index", "mapping", "mapping", "quota">>, <<"quota", "time", "static", "quota">>,
              <<"index", "mapping", "index", "quota">>, <<"quota", "arbitrage", "quota">>,
              <<"quota", "other", "quota", "quota">>, <<"index", "index", "index", "quota">>}
MCLenOf == [index |-> 3, mapping |-> 5, time |-> 4, static |-> 5, quota |-> 5, arbitrage |-> 5, other |-> 4]
=============================================================================
