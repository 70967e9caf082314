-------------------------------- MODULE MCZt --------------------------------
(* Instance of ZtSession for TLC.                                          *)
EXTENDS ZtSession
=============================================================================
