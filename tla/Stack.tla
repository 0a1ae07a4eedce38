-------------------------------- MODULE Stack ---------------------------------
(***************************************************************************)
(* include/toolsbox/lockfree/stack.hpp: a linked stack whose head is a     *)
(* pointer with a tag, exchanged by one double-width compare_exchange.     *)
(*                                                                         *)
(* Every push draws a fresh tag from counter_ and stores it in the pointer *)
(* to its node, so that a node that was freed and allocated again at the   *)
(* same address is told from the old one. pop reads old_head->next without *)
(* any protection: the node may have been popped and deleted meanwhile, or *)
(* even allocated again by a push that is writing it. What pop reads then  *)
(* is arbitrary, any tagged pointer at all, and must not get into head_.   *)
(*                                                                         *)
(* One step of a thread is one access to shared memory.                    *)
(***************************************************************************)
EXTENDS Naturals, Sequences, FiniteSets

CONSTANTS Threads,
          Values,
          Addresses,   \* where operator new may put a node
          Null,        \* nullptr, and the absence of an item
          MaxPushes    \* bound: the pushes that are called

ASSUME StackAssumption ==
  /\ Null \notin Addresses \cup Values
  /\ MaxPushes \in Nat \ {0} /\ IsFiniteSet(Threads)

Tags    == 0 .. MaxPushes - 1
Tagged  == [data : Addresses \cup {Null}, counter : Tags]
NullPtr == [data |-> Null, counter |-> 0]

VARIABLES
  head,      \* head_
  counter,   \* counter_: the next tag
  heap,      \* the addresses operator new may return
  next,      \* next[a]: the field next of the node at a
  value,     \* value[a]: its field value
  pc,        \* pc[t]: where thread t is
  old,       \* old[t]: local old_head
  new,       \* new[t]: local new_head
  got,       \* got[t]: the item pop is about to return
  list       \* history: the nodes that the exchanges have linked, top first

nodes  == <<heap, next, value>>
locals == <<old, new, got>>
vars   == <<head, counter, nodes, pc, locals, list>>

-------------------------------------------------------------------------------
Goto(t, label) == pc' = [pc EXCEPT ![t] = label]

(* The call returns; its locals are gone.                                  *)
Return(t) == /\ Goto(t, "idle")
             /\ old' = [old EXCEPT ![t] = NullPtr]
             /\ new' = [new EXCEPT ![t] = NullPtr]
             /\ got' = [got EXCEPT ![t] = Null]

(* The tag that counter_++ returns.                                        *)
DrawTag == counter

Init ==
  /\ head = NullPtr
  /\ counter = 0
  /\ heap  = Addresses
  /\ next  = [a \in Addresses |-> NullPtr]
  /\ value = [a \in Addresses |-> Null]
  /\ pc    = [t \in Threads |-> "idle"]
  /\ old   = [t \in Threads |-> NullPtr]
  /\ new   = [t \in Threads |-> NullPtr]
  /\ got   = [t \in Threads |-> Null]
  /\ list  = <<>>

-------------------------------------------------------------------------------
(* Faults, not used by the specification.                                  *)

(* The tag is not compared: the ABA of a bare pointer.                     *)
PopTakeBare(t) ==
  /\ pc[t] = "pop_cas"
  /\ head.data = old[t].data
  /\ head' = new[t]
  /\ list' = Tail(list)
  /\ Goto(t, "pop_free")
  /\ UNCHANGED <<counter, nodes, locals>>

(* The node is deleted before the exchange has given it to this call.      *)
PopReadDeletes(t) ==
  /\ pc[t] = "pop_read"
  /\ old[t].data # Null
  /\ new'  = [new EXCEPT ![t] = next[old[t].data]]
  /\ heap' = heap \cup {old[t].data}
  /\ Goto(t, "pop_cas")
  /\ UNCHANGED <<head, counter, next, value, old, got, list>>

(* next is not set again after a CAS that failed.                          *)
PushRetryStale(t) ==
  /\ pc[t] = "push_cas"
  /\ old' = [old EXCEPT ![t] = head]
  /\ UNCHANGED <<head, counter, nodes, pc, new, got, list>>

-------------------------------------------------------------------------------
(* push                                                                    *)

(* old_head = head_.load() *)
PushLoad(t) ==
  /\ pc[t] = "idle"
  /\ counter + Cardinality({u \in Threads : pc[u] = "push_new"}) < MaxPushes
  /\ old' = [old EXCEPT ![t] = head]
  /\ Goto(t, "push_new")
  /\ UNCHANGED <<head, counter, nodes, new, got, list>>

(* new node, its value, and the tag counter_++ *)
PushNew(t) ==
  /\ pc[t] = "push_new"
  /\ \E a \in heap, v \in Values :
       /\ heap'  = heap \ {a}
       /\ value' = [value EXCEPT ![a] = v]
       /\ new'   = [new EXCEPT ![t] = [data |-> a, counter |-> DrawTag]]
  /\ counter' = counter + 1
  /\ Goto(t, "push_link")
  /\ UNCHANGED <<head, next, old, got, list>>

(* new_head->next = old_head *)
PushLink(t) ==
  /\ pc[t] = "push_link"
  /\ next' = [next EXCEPT ![new[t].data] = old[t]]
  /\ Goto(t, "push_cas")
  /\ UNCHANGED <<head, counter, heap, value, locals, list>>

(* head_.compare_exchange_weak(old_head, new_head) succeeds *)
PushDone(t) ==
  /\ pc[t] = "push_cas"
  /\ head = old[t]
  /\ head' = new[t]
  /\ list' = <<new[t].data>> \o list
  /\ Return(t)
  /\ UNCHANGED <<counter, nodes>>

(* It fails, head_ having changed or spuriously.                           *)
PushRetry(t) ==
  /\ pc[t] = "push_cas"
  /\ old' = [old EXCEPT ![t] = head]
  /\ Goto(t, "push_link")
  /\ UNCHANGED <<head, counter, nodes, new, got, list>>

-------------------------------------------------------------------------------
(* pop                                                                     *)

(* old_head = head_.load() *)
PopLoad(t) ==
  /\ pc[t] = "idle"
  /\ old' = [old EXCEPT ![t] = head]
  /\ Goto(t, "pop_read")
  /\ UNCHANGED <<head, counter, nodes, new, got, list>>

(* !old_head: break, return false *)
PopEmpty(t) ==
  /\ pc[t] = "pop_read"
  /\ old[t].data = Null
  /\ Return(t)
  /\ UNCHANGED <<head, counter, nodes, list>>

(* The nodes whose field next may read as anything: they are deleted, or a *)
(* push is about to write the field, which is two words wide.              *)
Unstable == heap \cup {new[t].data : t \in {u \in Threads : pc[u] = "push_link"}}

(* new_head = old_head->next, which may be the memory of a deleted node *)
PopRead(t) ==
  /\ pc[t] = "pop_read"
  /\ old[t].data # Null
  /\ \E n \in IF old[t].data \in Unstable THEN Tagged ELSE {next[old[t].data]} :
       new' = [new EXCEPT ![t] = n]
  /\ Goto(t, "pop_cas")
  /\ UNCHANGED <<head, counter, nodes, old, got, list>>

(* head_.compare_exchange_weak(old_head, new_head) succeeds *)
PopTake(t) ==
  /\ pc[t] = "pop_cas"
  /\ head = old[t]
  /\ head' = new[t]
  /\ list' = Tail(list)
  /\ Goto(t, "pop_free")
  /\ UNCHANGED <<counter, nodes, locals>>

(* It fails.                                                               *)
PopRetry(t) ==
  /\ pc[t] = "pop_cas"
  /\ old' = [old EXCEPT ![t] = head]
  /\ Goto(t, "pop_read")
  /\ UNCHANGED <<head, counter, nodes, new, got, list>>

(* value = std::move(old_head->value); delete old_head.data *)
PopFree(t) ==
  /\ pc[t] = "pop_free"
  /\ got'  = [got EXCEPT ![t] = value[old[t].data]]
  /\ heap' = heap \cup {old[t].data}
  /\ Goto(t, "pop_ret")
  /\ UNCHANGED <<head, counter, next, value, old, new, list>>

(* return true *)
PopReturn(t) ==
  /\ pc[t] = "pop_ret"
  /\ Return(t)
  /\ UNCHANGED <<head, counter, nodes, list>>

-------------------------------------------------------------------------------
CallStep(t) ==
  \/ PushNew(t) \/ PushLink(t) \/ PushDone(t) \/ PushRetry(t)
  \/ PopEmpty(t) \/ PopRead(t) \/ PopTake(t) \/ PopRetry(t)
  \/ PopFree(t) \/ PopReturn(t)

Next == \E t \in Threads : PushLoad(t) \/ PopLoad(t) \/ CallStep(t)

Spec == Init /\ [][Next]_vars

-------------------------------------------------------------------------------
PushPcs == {"push_new", "push_link", "push_cas"}
PopPcs  == {"pop_read", "pop_cas", "pop_free", "pop_ret"}

(* Tags stay below the number of pushes, locals and nodes keep their types.*)
TypeOK ==
  /\ head \in Tagged
  /\ counter \in 0 .. MaxPushes
  /\ heap \subseteq Addresses
  /\ next \in [Addresses -> Tagged]
  /\ value \in [Addresses -> Values \cup {Null}]
  /\ pc \in [Threads -> {"idle"} \cup PushPcs \cup PopPcs]
  /\ old \in [Threads -> Tagged]
  /\ new \in [Threads -> Tagged]
  /\ got \in [Threads -> Values \cup {Null}]
  /\ list \in Seq(Addresses)

(* The pointers of the list: head_, then next of each node.                *)
Link(i) == IF i = 0 THEN head ELSE next[list[i]]
Listed  == {list[i] : i \in DOMAIN list}

(* The node a call has for itself: it is not yet, or no longer, listed.    *)
Private(t) == IF pc[t] \in {"push_link", "push_cas"} THEN {new[t].data}
              ELSE IF pc[t] = "pop_free" THEN {old[t].data} ELSE {}

(***************************************************************************)
(* From head_ on the pointers lead through the nodes that were pushed and  *)
(* not popped, the last one first, and end there. Every node is free, in   *)
(* this list once, or in the hands of one call: none is leaked, deleted    *)
(* twice, or linked again after it was deleted.                            *)
(***************************************************************************)
NodesAccounted ==
  /\ \A i \in 0 .. Len(list) :
       Link(i).data = IF i < Len(list) THEN list[i + 1] ELSE Null
  /\ \A i, j \in DOMAIN list : list[i] = list[j] => i = j
  /\ Addresses = heap \cup Listed \cup UNION {Private(t) : t \in Threads}
  /\ heap \cap Listed = {}
  /\ \A t \in Threads :
       /\ Private(t) \cap (heap \cup Listed) = {}
       /\ \A u \in Threads \ {t} : Private(t) \cap Private(u) = {}

(***************************************************************************)
(* What pop puts into head_ is what follows the head now, and not what its *)
(* unprotected read found in a node that has changed hands since.          *)
(***************************************************************************)
PopPutsNext ==
  [][\A t \in Threads :
       pc[t] = "pop_cas" /\ pc'[t] = "pop_free" => head' = next[head.data]]_vars

-------------------------------------------------------------------------------
TheItems == [i \in DOMAIN list |-> value[list[i]]]

Taken(t) == IF pc[t] = "pop_free" THEN value[old[t].data] ELSE got[t]

Abstract == INSTANCE Lifo WITH items   <- TheItems,
                               got     <- [t \in Threads |-> Taken(t)],
                               Nothing <- Null

(***************************************************************************)
(* The CAS of a push puts its item on top of the stack and the CAS of a    *)
(* pop takes the item on top: nothing is lost, returned twice or returned  *)
(* out of order, although the nodes' addresses are used again and again.   *)
(***************************************************************************)
ImplementsLifo == Abstract!Spec
===============================================================================
