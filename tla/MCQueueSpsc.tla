------------------------------ MODULE MCQueueSpsc ------------------------------
(* One producer and one consumer that call without end.                    *)
EXTENDS FixSizeQueue
===============================================================================
