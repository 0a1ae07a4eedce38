----------------------------- MODULE MCLinearPool -----------------------------
(* Two threads, nodes of two slots, and two nodes to add to the first.     *)
EXTENDS LinearPool
===============================================================================
