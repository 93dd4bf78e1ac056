---------------------------- MODULE MCCheckQueue ----------------------------
(* CheckQueue on a small instance: two masters compete for ControlMutex.    *)
EXTENDS CheckQueue
=============================================================================
