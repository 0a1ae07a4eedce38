------------------------------- MODULE MCSignal --------------------------------
(* Four slots, groups of two connections, emissions two deep.             *)
EXTENDS Signal
===============================================================================
