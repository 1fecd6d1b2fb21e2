----------------------------- MODULE MCLifecycle -----------------------------
(* Both drivers, each loaded and unloaded any number of times.              *)
EXTENDS Lifecycle
=============================================================================
