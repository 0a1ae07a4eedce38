------------------------------ MODULE MCQueueMpmc ------------------------------
(***************************************************************************)
(* Several producers and consumers. Each thread t makes Calls[t] calls of  *)
(* push or pop.                                                            *)
(***************************************************************************)
EXTENDS FixSizeQueue, TLC

CONSTANT Calls           \* bound: Calls[t] is the number of calls of thread t

VARIABLE left            \* left[t]: the calls t has still to make

MCInit == Init /\ left = Calls

MCCall(t) == /\ left[t] > 0
             /\ left' = [left EXCEPT ![t] = @ - 1]
             /\ \/ t \in Producers /\ PushLoad(t, <<t, left[t]>>)
                \/ t \in Consumers /\ PopLoad(t)

MCNext == \/ \E t \in Threads : MCCall(t)
          \/ \E t \in Producers : PushStep(t) /\ UNCHANGED left
          \/ \E t \in Consumers : PopStep(t) /\ UNCHANGED left

MCSpec == MCInit /\ [][MCNext]_<<vars, left>> /\ Fairness

(* Every call pushes an item of its own.                                   *)
MCValues == Producers \X (1 .. 16)

P1 == "p1"
P2 == "p2"
C1 == "c1"
C2 == "c2"

(* 4 + 1 pushes into 4 cells and one pop each: the ring fills, one push    *)
(* gives up or waits for the cell of a pop, and p1 may take all four cells *)
(* while p2 is in the middle of its push.                                  *)
CallsFill == P1 :> 4 @@ P2 :> 1 @@ C1 :> 1 @@ C2 :> 1

(* p1 stalls in its only push while p2 goes once round the ring.           *)
CallsMany == P1 :> 1 @@ P2 :> 10 @@ C1 :> 3

MCProducers == {P1, P2}
OneConsumer  == {C1}
TwoConsumers == {C1, C2}

(***************************************************************************)
(* Once the threads have made their calls, every item that was accepted    *)
(* has become visible and every cell that was emptied is free: no call     *)
(* leaves the publication of its ticket to a call that has already gone,   *)
(* and none needs another call to come.                                    *)
(***************************************************************************)
EventuallySettled ==
  []<>(tail_read = tail_write /\ head_write = head_read)
===============================================================================
