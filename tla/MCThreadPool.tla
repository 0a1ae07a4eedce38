----------------------------- MODULE MCThreadPool ------------------------------
(* Two threads that push; the pool is started, stopped and started again.  *)
(* The second worker may have a target of its own.                         *)
EXTENDS ThreadPool

SecondAndDefault == {1, Default}
===============================================================================
