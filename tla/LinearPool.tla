------------------------------ MODULE LinearPool ------------------------------
(***************************************************************************)
(* linear_object_pool: basic_object_pool_impl over a chain of linear_node, *)
(* each with a segment of NbElement slots.                                 *)
(*                                                                         *)
(* A segment keeps its free slots in one atomic bit mask, modelled as the  *)
(* set of the raised bits. acquire walks the chain from the root: it takes *)
(* the lowest free slot of the first segment it does not find empty, and   *)
(* hangs a new node behind the last one when it finds them all empty. The  *)
(* object is built after its slot was taken; the deleter of the pointer    *)
(* destroys the object and then raises the slot's bit.                     *)
(*                                                                         *)
(* One step of a thread is one access to shared memory. The pointers that  *)
(* acquire returned may be moved between threads: any thread may let any   *)
(* of them go.                                                             *)
(***************************************************************************)
EXTENDS Naturals, FiniteSets

CONSTANTS Threads,
          Addresses,   \* where operator new may put a node
          Root,        \* the node inside the pool object
          Null,        \* nullptr
          NbElement,   \* segment_info<T>::size
          MaxObjects,  \* bound: the objects the clients keep at a time
          MaxThrows    \* bound: the constructors that throw

ASSUME PoolAssumption ==
  /\ Root \notin Addresses
  /\ Null \notin Addresses \cup {Root}
  /\ NbElement \in Nat \ {0}
  /\ MaxObjects \in Nat
  /\ MaxThrows \in Nat

Nodes  == Addresses \cup {Root}
Slots  == 0 .. NbElement - 1
Places == Nodes \X Slots

VARIABLES
  flag,     \* flag[n]: segment_.flag_ of node n, the free slots
  next,     \* next[n]: next_ of node n
  heap,     \* the addresses that operator new may return
  owned,    \* the places of the objects the clients hold
  built,    \* the places where an object lives
  throws,   \* the constructors that have thrown
  lost,     \* the places whose constructor threw
  pc,       \* pc[t]: where thread t is
  node,     \* node[t]: the node the call of t is in
  mask,     \* mask[t]: local flag of segment::acquire or release
  slot,     \* slot[t]: the slot of the call, once it is known
  child     \* child[t]: new_child of get_or_create_node_

pool   == <<flag, next, heap>>
client == <<owned, built, throws, lost>>
locals == <<node, mask, slot, child>>
vars   == <<pool, client, pc, locals>>

-------------------------------------------------------------------------------
(* get_bit: the lowest raised bit, which find_first_bit turns into an index. *)
LowestBit(m) == CHOOSE s \in m : \A r \in m : s <= r

Goto(t, label) == pc' = [pc EXCEPT ![t] = label]

(* The places that acquires under way and releases under way deal with.    *)
Holders  == {t \in Threads :
               pc[t] \in {"construct", "destroy", "rel_load", "rel_cas"}}
Place(t) == <<node[t], slot[t]>>
Taken    == owned \cup {Place(t) : t \in Holders} \cup lost

(* The nodes of the chain: the root and whatever a next_ points to.        *)
Linked == {Root} \cup ({next[n] : n \in Nodes} \ {Null})

(* Pointers the clients hold or are about to get.                          *)
Demand == Cardinality(owned)
          + Cardinality({t \in Threads : pc[t] # "idle"})

-------------------------------------------------------------------------------
Init ==
  /\ flag  = [n \in Nodes |-> Slots]
  /\ next  = [n \in Nodes |-> Null]
  /\ heap  = Addresses
  /\ owned = {} /\ built = {} /\ throws = 0 /\ lost = {}
  /\ pc    = [t \in Threads |-> "idle"]
  /\ node  = [t \in Threads |-> Root]
  /\ mask  = [t \in Threads |-> {}]
  /\ slot  = [t \in Threads |-> 0]
  /\ child = [t \in Threads |-> Null]

-------------------------------------------------------------------------------
(* Faults, not used by the specification.                                  *)

(* flag_ is stored, not compared and exchanged.                            *)
AcqTakeBlind(t) ==
  /\ pc[t] = "acq_cas"
  /\ mask[t] # {}
  /\ slot' = [slot EXCEPT ![t] = LowestBit(mask[t])]
  /\ flag' = [flag EXCEPT ![node[t]] = mask[t] \ {LowestBit(mask[t])}]
  /\ Goto(t, "construct")
  /\ UNCHANGED <<next, heap, client, node, mask, child>>

(* A CAS that fails is taken for an empty segment.                         *)
AcqRetryMovesOn(t) ==
  /\ pc[t] = "acq_cas"
  /\ mask[t] # {}
  /\ Goto(t, "next_load")
  /\ UNCHANGED <<pool, client, locals>>

(* new_child.get() without new_child.release(): the node in use is deleted. *)
NextLinkDeletes(t) ==
  /\ pc[t] = "link"
  /\ next[node[t]] = Null
  /\ next'  = [next EXCEPT ![node[t]] = child[t]]
  /\ node'  = [node EXCEPT ![t] = child[t]]
  /\ heap'  = heap \cup {child[t]}
  /\ child' = [child EXCEPT ![t] = Null]
  /\ Goto(t, "acq_load")
  /\ UNCHANGED <<flag, client, mask, slot>>

(* The deleter does not run the destructor.                                *)
DestroySkipped(t) ==
  /\ pc[t] = "destroy"
  /\ Goto(t, "rel_load")
  /\ UNCHANGED <<pool, client, locals>>

(* flag_ is stored, not compared and exchanged.                            *)
RelPutBlind(t) ==
  /\ pc[t] = "rel_cas"
  /\ flag' = [flag EXCEPT ![node[t]] = mask[t] \cup {slot[t]}]
  /\ Goto(t, "idle")
  /\ UNCHANGED <<next, heap, client, locals>>

(* The CAS is repeated with the old value.                                 *)
RelRetryStale(t) ==
  /\ pc[t] = "rel_cas"
  /\ UNCHANGED vars

-------------------------------------------------------------------------------
(* acquire                                                                 *)

(* basic_object_pool_impl::acquire, linear_node::acquire: from the root    *)
Acquire(t) ==
  /\ pc[t] = "idle"
  /\ Demand < MaxObjects
  /\ node' = [node EXCEPT ![t] = Root]
  /\ Goto(t, "acq_load")
  /\ UNCHANGED <<pool, client, mask, slot, child>>

(* segment::acquire: flag = flag_.load() *)
AcqLoad(t) ==
  /\ pc[t] = "acq_load"
  /\ mask' = [mask EXCEPT ![t] = flag[node[t]]]
  /\ Goto(t, "acq_cas")
  /\ UNCHANGED <<pool, client, node, slot, child>>

(* flag == 0: break, and linear_node::acquire_ turns to the next node *)
AcqEmpty(t) ==
  /\ pc[t] = "acq_cas"
  /\ mask[t] = {}
  /\ Goto(t, "next_load")
  /\ UNCHANGED <<pool, client, locals>>

(* flag_.compare_exchange_weak(flag, flag & ~get_bit(flag)) succeeds *)
AcqTake(t) ==
  /\ pc[t] = "acq_cas"
  /\ mask[t] # {}
  /\ flag[node[t]] = mask[t]
  /\ slot' = [slot EXCEPT ![t] = LowestBit(mask[t])]
  /\ flag' = [flag EXCEPT ![node[t]] = mask[t] \ {LowestBit(mask[t])}]
  /\ Goto(t, "construct")
  /\ UNCHANGED <<next, heap, client, node, mask, child>>

(* It fails, another thread having changed flag_ or spuriously.            *)
AcqRetry(t) ==
  /\ pc[t] = "acq_cas"
  /\ mask[t] # {}
  /\ mask' = [mask EXCEPT ![t] = flag[node[t]]]
  /\ UNCHANGED <<pool, client, pc, node, slot, child>>

(* get_or_create_node_: next = next_.load() *)
NextLoad(t) ==
  /\ pc[t] = "next_load"
  /\ IF next[node[t]] = Null
     THEN Goto(t, "create") /\ UNCHANGED node
     ELSE /\ node' = [node EXCEPT ![t] = next[node[t]]]
          /\ Goto(t, "acq_load")
  /\ UNCHANGED <<pool, client, mask, slot, child>>

(* new_child.reset(new self_type()) *)
NextCreate(t) ==
  /\ pc[t] = "create"
  /\ \E a \in heap :
       /\ heap'  = heap \ {a}
       /\ flag'  = [flag EXCEPT ![a] = Slots]
       /\ next'  = [next EXCEPT ![a] = Null]
       /\ child' = [child EXCEPT ![t] = a]
  /\ Goto(t, "link")
  /\ UNCHANGED <<client, node, mask, slot>>

(* next_.compare_exchange_weak(nullptr, new_child.get()) succeeds *)
NextLink(t) ==
  /\ pc[t] = "link"
  /\ next[node[t]] = Null
  /\ next'  = [next EXCEPT ![node[t]] = child[t]]
  /\ node'  = [node EXCEPT ![t] = child[t]]
  /\ child' = [child EXCEPT ![t] = Null]
  /\ Goto(t, "acq_load")
  /\ UNCHANGED <<flag, heap, client, mask, slot>>

(***************************************************************************)
(* Another thread was first: follow its node, and ~unique_ptr deletes      *)
(* ours. (A spurious failure leaves next null and repeats the CAS: it      *)
(* changes nothing.)                                                       *)
(***************************************************************************)
NextLost(t) ==
  /\ pc[t] = "link"
  /\ next[node[t]] # Null
  /\ node'  = [node EXCEPT ![t] = next[node[t]]]
  /\ heap'  = heap \cup {child[t]}
  /\ child' = [child EXCEPT ![t] = Null]
  /\ Goto(t, "acq_load")
  /\ UNCHANGED <<flag, next, client, mask, slot>>

(* ptr.reset(new(data) type(...)), and the pointer is the client's *)
Construct(t) ==
  /\ pc[t] = "construct"
  /\ built' = built \cup {Place(t)}
  /\ owned' = owned \cup {Place(t)}
  /\ Goto(t, "idle")
  /\ UNCHANGED <<pool, throws, lost, locals>>

(***************************************************************************)
(* The constructor throws: ptr still holds nullptr, so ~unique_ptr does    *)
(* not call the deleter and nothing gives the slot back.                   *)
(***************************************************************************)
ConstructThrows(t) ==
  /\ pc[t] = "construct"
  /\ throws < MaxThrows
  /\ throws' = throws + 1
  /\ lost' = lost \cup {Place(t)}
  /\ Goto(t, "idle")
  /\ UNCHANGED <<pool, owned, built, locals>>

-------------------------------------------------------------------------------
(* ~unique_ptr: the deleter                                                *)

(* A client lets go of a pointer: owner_ and id_ name its place.           *)
Drop(t) ==
  /\ pc[t] = "idle"
  /\ \E p \in owned :
       /\ owned' = owned \ {p}
       /\ node'  = [node EXCEPT ![t] = p[1]]
       /\ slot'  = [slot EXCEPT ![t] = p[2]]
  /\ Goto(t, "destroy")
  /\ UNCHANGED <<pool, built, throws, lost, mask, child>>

(* t->~T() *)
Destroy(t) ==
  /\ pc[t] = "destroy"
  /\ built' = built \ {Place(t)}
  /\ Goto(t, "rel_load")
  /\ UNCHANGED <<pool, owned, throws, lost, locals>>

(* segment::release: flag = flag_.load() *)
RelLoad(t) ==
  /\ pc[t] = "rel_load"
  /\ mask' = [mask EXCEPT ![t] = flag[node[t]]]
  /\ Goto(t, "rel_cas")
  /\ UNCHANGED <<pool, client, node, slot, child>>

(* flag_.compare_exchange_weak(flag, flag | id) succeeds *)
RelPut(t) ==
  /\ pc[t] = "rel_cas"
  /\ flag[node[t]] = mask[t]
  /\ flag' = [flag EXCEPT ![node[t]] = mask[t] \cup {slot[t]}]
  /\ Goto(t, "idle")
  /\ UNCHANGED <<next, heap, client, locals>>

(* It fails.                                                               *)
RelRetry(t) ==
  /\ pc[t] = "rel_cas"
  /\ mask' = [mask EXCEPT ![t] = flag[node[t]]]
  /\ UNCHANGED <<pool, client, pc, node, slot, child>>

-------------------------------------------------------------------------------
AcquireStep(t) ==
  \/ AcqLoad(t) \/ AcqEmpty(t) \/ AcqTake(t) \/ AcqRetry(t)
  \/ NextLoad(t) \/ NextCreate(t) \/ NextLink(t) \/ NextLost(t)
  \/ Construct(t) \/ ConstructThrows(t)

ReleaseStep(t) == Destroy(t) \/ RelLoad(t) \/ RelPut(t) \/ RelRetry(t)

Next == \E t \in Threads : Acquire(t) \/ AcquireStep(t)
                           \/ Drop(t) \/ ReleaseStep(t)

Spec == Init /\ [][Next]_vars

(***************************************************************************)
(* A thread inside a call keeps running, and a compare_exchange that is    *)
(* tried again and again succeeds at last.                                 *)
(***************************************************************************)
Fairness == \A t \in Threads : /\ WF_vars(AcquireStep(t) \/ ReleaseStep(t))
                               /\ SF_vars(AcqTake(t))
                               /\ SF_vars(RelPut(t))

FairSpec == Spec /\ Fairness

-------------------------------------------------------------------------------
AcquirePcs == {"acq_load", "acq_cas", "next_load", "create", "link", "construct"}
ReleasePcs == {"destroy", "rel_load", "rel_cas"}

(* Masks, slots and the pointers between nodes keep to their types.        *)
TypeOK ==
  /\ flag \in [Nodes -> SUBSET Slots]
  /\ next \in [Nodes -> Addresses \cup {Null}]
  /\ heap \subseteq Addresses
  /\ owned \subseteq Places
  /\ built \subseteq Places
  /\ throws \in 0 .. MaxThrows
  /\ lost \subseteq Places
  /\ pc \in [Threads -> {"idle"} \cup AcquirePcs \cup ReleasePcs]
  /\ node \in [Threads -> Nodes]
  /\ mask \in [Threads -> SUBSET Slots]
  /\ slot \in [Threads -> Slots]
  /\ child \in [Threads -> Addresses \cup {Null}]

(***************************************************************************)
(* A slot is dealt with by one pointer or one call at a time: two acquires *)
(* never return the same storage, nor storage a release still works on.    *)
(***************************************************************************)
SlotExclusive ==
  \A t \in Holders :
    /\ Place(t) \notin owned \cup lost
    /\ \A u \in Holders \ {t} : Place(t) # Place(u)

(***************************************************************************)
(* In every node of the chain a slot is free exactly when nobody holds it: *)
(* no release is lost, whatever CAS it races with, and none is done twice. *)
(***************************************************************************)
SlotsAccounted ==
  \A n \in Linked : flag[n] = {s \in Slots : <<n, s>> \notin Taken}

(***************************************************************************)
(* An object lives in a place from its construction until its pointer is   *)
(* let go and the deleter has destroyed it, before the slot is free again. *)
(***************************************************************************)
ObjectLifetime ==
  built = owned \cup {Place(t) : t \in {u \in Threads : pc[u] = "destroy"}}

(* The nodes that new_child holds.                                         *)
Hanging == {child[t] : t \in Threads} \ {Null}

(***************************************************************************)
(* Every node is in the chain, in the hands of the one thread that wants   *)
(* to hang it there, or freed: a thread that loses the race for next_      *)
(* neither leaks its node nor frees one that is in use.                    *)
(***************************************************************************)
NodesAccounted ==
  /\ Addresses = heap \cup Hanging \cup (Linked \ {Root})
  /\ heap \cap (Hanging \cup Linked) = {}
  /\ Hanging \cap Linked = {}
  /\ \A t, u \in Threads : t # u /\ child[t] # Null => child[t] # child[u]

(* A node that is in the chain stays there, with the nodes behind it.      *)
ChainOnlyGrows == [][Linked \subseteq Linked']_vars

(***************************************************************************)
(* The pool never grows beyond what its clients need: with one segment     *)
(* fewer it could not hold the most they ever kept and asked for. Threads  *)
(* go past a segment on the word of a flag that may have changed since.    *)
(***************************************************************************)
GrowthBounded ==
  Cardinality(Linked) > 1 =>
    (Cardinality(Linked) - 1) * NbElement < MaxObjects + MaxThrows

(* Every call returns: no thread walks the chain for ever.                 *)
CallsReturn == \A t \in Threads : (pc[t] # "idle") ~> (pc[t] = "idle")

-------------------------------------------------------------------------------
OwnersOf(p) == {t \in Holders : Place(t) = p}
               \cup {o \in {"client"} : p \in owned}
               \cup {o \in {"nobody"} : p \in lost}

Promise == INSTANCE SlotPool WITH
             Owners <- Threads \cup {"client", "nobody"},
             owners <- [p \in Places |-> OwnersOf(p)]

(***************************************************************************)
(* A slot has at most one owner at a time: the CAS of an acquire is        *)
(* Acquire, the CAS of a release is Release, and in between the slot is    *)
(* passed from the acquire to the client and on to the release. A slot     *)
(* whose constructor threw is passed to nobody, and stays there.           *)
(***************************************************************************)
ImplementsSlotPool == Promise!Spec
===============================================================================
