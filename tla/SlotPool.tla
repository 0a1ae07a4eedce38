------------------------------- MODULE SlotPool -------------------------------
(***************************************************************************)
(* What an object pool promises: a slot has at most one owner at a time,   *)
(* from the acquire that takes it to the release that gives it back.       *)
(*                                                                         *)
(* A slot is named by the node it lies in and its place in that node. Its  *)
(* owner is the call that works on it or, in between, the client.          *)
(***************************************************************************)
CONSTANTS Places,    \* all the slots the pool may ever hand out
          Owners

VARIABLE owners      \* owners[p]: who has slot p

Init == owners = [p \in Places |-> {}]

Acquire(p, o) == /\ owners[p] = {}
                 /\ owners' = [owners EXCEPT ![p] = {o}]

(* An owner hands the slot over to another one.                            *)
Pass(p, o) == /\ owners[p] # {}
              /\ owners' = [owners EXCEPT ![p] = {o}]

Release(p) == /\ owners[p] # {}
              /\ owners' = [owners EXCEPT ![p] = {}]

Next == \E p \in Places : \/ Release(p)
                          \/ \E o \in Owners : Acquire(p, o) \/ Pass(p, o)

Spec == Init /\ [][Next]_owners
===============================================================================
