---------------------------- MODULE MCDelayQueue ----------------------------
(***************************************************************************)
(* DelayQueue for TLC: three items, two callers besides the worker and a   *)
(* clock of three ticks are enough for two callers to race for the flag    *)
(* while a third item expires.                                             *)
(***************************************************************************)
EXTENDS DelayQueue
=============================================================================
