--------------------------------- MODULE Lifo ---------------------------------
(***************************************************************************)
(* What lockfree::stack promises: a push puts its item on top, a pop takes *)
(* the item on top, and no item is taken by two pops.                      *)
(***************************************************************************)
EXTENDS Sequences

CONSTANTS Threads, Values, Nothing

VARIABLES items,     \* the stack, top first
          got        \* got[t]: what the last pop of t took, until it returns

Init == items = <<>> /\ got = [t \in Threads |-> Nothing]

Push(v) == items' = <<v>> \o items /\ UNCHANGED got

Pop(t) == /\ items # <<>>
          /\ got[t] = Nothing
          /\ got' = [got EXCEPT ![t] = Head(items)]
          /\ items' = Tail(items)

Deliver(t) == /\ got[t] # Nothing
              /\ got' = [got EXCEPT ![t] = Nothing]
              /\ UNCHANGED items

Next == \/ \E v \in Values : Push(v)
        \/ \E t \in Threads : Pop(t) \/ Deliver(t)

Spec == Init /\ [][Next]_<<items, got>>
===============================================================================
