------------------------------ MODULE TicketFifo ------------------------------
(***************************************************************************)
(* What lockfree::fix_size_queue promises its callers, without its ring.   *)
(*                                                                         *)
(* A bounded FIFO whose items pass through four stages:                    *)
(*                                                                         *)
(*   accepted  a push has been given its place in the order, but the item  *)
(*             cannot be popped yet: an earlier push is still being done;  *)
(*   visible   the item may be popped, in the order of acceptance;         *)
(*   hand      the item has been handed to one pop, and to no other;       *)
(*   drained   the item has left, its cell is not yet free for a push.     *)
(*                                                                         *)
(* Capacity counts all four: a push is accepted only when a cell is free.  *)
(***************************************************************************)
EXTENDS Naturals, Sequences

CONSTANTS Consumers,   \* the threads that pop
          Values,      \* the items
          Capacity,    \* the number of cells
          Nothing      \* what a consumer holds between two pops

VARIABLES accepted,    \* items in order of acceptance, not yet visible
          visible,     \* items that may be popped, oldest first
          hand,        \* hand[c]: the item the pop of c has been given
          drained      \* cells emptied or being emptied, not yet reusable

vars == <<accepted, visible, hand, drained>>

Init == /\ accepted = <<>>
        /\ visible = <<>>
        /\ hand = [c \in Consumers |-> Nothing]
        /\ drained = 0

(* A push obtains its place in the order, if a cell is free.               *)
Accept(v) ==
  /\ Len(accepted) + Len(visible) + drained < Capacity
  /\ accepted' = Append(accepted, v)
  /\ UNCHANGED <<visible, hand, drained>>

(* The oldest accepted item becomes visible.                               *)
Publish ==
  /\ accepted # <<>>
  /\ visible' = Append(visible, Head(accepted))
  /\ accepted' = Tail(accepted)
  /\ UNCHANGED <<hand, drained>>

(* A pop is given the oldest visible item.                                 *)
Take(c) ==
  /\ visible # <<>>
  /\ hand[c] = Nothing
  /\ hand' = [hand EXCEPT ![c] = Head(visible)]
  /\ visible' = Tail(visible)
  /\ drained' = drained + 1
  /\ UNCHANGED accepted

(* The pop returns its item to the caller.                                 *)
Deliver(c) ==
  /\ hand[c] # Nothing
  /\ hand' = [hand EXCEPT ![c] = Nothing]
  /\ UNCHANGED <<accepted, visible, drained>>

(* A drained cell becomes free for a push.                                 *)
Recycle ==
  /\ drained > 0
  /\ drained' = drained - 1
  /\ UNCHANGED <<accepted, visible, hand>>

Next == \/ \E v \in Values : Accept(v)
        \/ Publish
        \/ \E c \in Consumers : Take(c) \/ Deliver(c)
        \/ Recycle

Spec == Init /\ [][Next]_vars
===============================================================================
