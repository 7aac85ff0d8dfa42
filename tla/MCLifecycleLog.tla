---------------------------- MODULE MCLifecycleLog ----------------------------
(* One action of one Root in two tabs; other actions use the AdminCap.     *)
EXTENDS LifecycleLog

CONSTANTS pause, t1, t2
=============================================================================
