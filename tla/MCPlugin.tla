------------------------------ MODULE MCPlugin ------------------------------
(* Instance of PluginLifecycle for TLC: every plugin of the repository.    *)
EXTENDS PluginLifecycle
=============================================================================
