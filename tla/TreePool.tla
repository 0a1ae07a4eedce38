------------------------------- MODULE TreePool -------------------------------
(***************************************************************************)
(* tree_object_pool: basic_object_pool_impl over a tree of tree_node, each *)
(* with a segment of NbElement slots and NbChild children.                 *)
(*                                                                         *)
(* A node keeps, for each child, the number size_ of tokens for the free   *)
(* slots below that child. An acquire that finds a node's segment empty    *)
(* must take a token of one of its children before it goes down to it, so  *)
(* that it never goes where all the slots are spoken for. A release raises *)
(* the slot's bit and then adds a token in every node above, bottom up; so *)
(* does a new node for all its slots. An acquire that finds no token at    *)
(* all looks for a place for a new node.                                   *)
(*                                                                         *)
(* A node is named by its path from the root. The load of an atomic, the   *)
(* test of what it gave and the compare_exchange loop that follows are one *)
(* step: what they decide is decided by the access that ends the loop.     *)
(* childs_index_, where the search for a token begins, is a plain field    *)
(* that threads write and read without order: it may hold anything.        *)
(***************************************************************************)
EXTENDS Naturals, Sequences, FiniteSets

CONSTANTS Threads,
          NbElement,   \* segment_info<T>::size
          NbChild,     \* N, a power of two
          MaxDepth,    \* bound: the levels of the tree below the root
          MaxObjects   \* bound: the objects the clients keep and ask for

ASSUME TreeAssumption ==
  /\ {NbElement, NbChild, MaxDepth} \subseteq Nat \ {0}
  /\ MaxObjects \in Nat
  /\ IsFiniteSet(Threads)

Slots    == 0 .. NbElement - 1
Children == 0 .. NbChild - 1
Root     == <<>>
Nodes    == UNION {[1 .. d -> Children] : d \in 0 .. MaxDepth}
Places   == Nodes \X Slots

Parent(n)   == SubSeq(n, 1, Len(n) - 1)
IdOf(n)     == n[Len(n)]
Under(c, n) == Len(c) <= Len(n) /\ SubSeq(n, 1, Len(c)) = c

VARIABLES
  exists,    \* the nodes of the tree
  flag,      \* flag[n]: segment_.flag_, the free slots
  size,      \* size[n][i]: size_[i], the tokens of child i
  capacity,  \* capacity[n][i]: capacity_[i]
  owned,     \* the places of the objects the clients hold
  pc,        \* pc[t]: where thread t is
  node,      \* node[t]: the node its acquire_ or release is in
  cur,       \* cur[t]: the node its create_node_ is in
  id,        \* id[t]: the slot it releases, or the child it looks at
  count,     \* count[t]: the children it has looked at
  best,      \* best[t]: min_cap and id_min_cap of create_node_
  up         \* up[t]: the node whose size_ or capacity_ it has passed on

tree   == <<exists, flag, size, capacity>>
locals == <<node, cur, id, count, best, up>>
vars   == <<tree, owned, pc, locals>>

-------------------------------------------------------------------------------
Goto(t, label) == pc' = [pc EXCEPT ![t] = label]

LowestBit(m) == CHOOSE s \in m : \A r \in m : s <= r

(* inc_size_(id, val) and inc_cap_(id, val), as seen from the child n      *)
IncSize(n, val) == size' = [size EXCEPT ![Parent(n)][IdOf(n)] = @ + val]
IncCap(n, val)  == capacity' = [capacity EXCEPT ![Parent(n)][IdOf(n)] = @ + val]

(* min_cap = -1: above every capacity *)
NoBest == [cap |-> NbElement * Cardinality(Nodes) + 1, id |-> 0]

Init ==
  /\ exists   = {Root}
  /\ flag     = [n \in Nodes |-> Slots]
  /\ size     = [n \in Nodes |-> [i \in Children |-> 0]]
  /\ capacity = [n \in Nodes |-> [i \in Children |-> 0]]
  /\ owned = {}
  /\ pc    = [t \in Threads |-> "idle"]
  /\ node  = [t \in Threads |-> Root]
  /\ cur   = [t \in Threads |-> Root]
  /\ id    = [t \in Threads |-> 0]
  /\ count = [t \in Threads |-> 0]
  /\ best  = [t \in Threads |-> NoBest]
  /\ up    = [t \in Threads |-> Root]

(* The call returns; its locals are gone.                                  *)
Return(t) == /\ Goto(t, "idle")
             /\ node'  = [node EXCEPT ![t] = Root]
             /\ cur'   = [cur EXCEPT ![t] = Root]
             /\ id'    = [id EXCEPT ![t] = 0]
             /\ count' = [count EXCEPT ![t] = 0]
             /\ best'  = [best EXCEPT ![t] = NoBest]
             /\ up'    = [up EXCEPT ![t] = Root]

-------------------------------------------------------------------------------
(* Slips in the code that the properties must catch.                       *)

(* segment::acquire without its compare_exchange: the slot's bit stays *)
AcqTakeBlind(t) ==
  /\ pc[t] = "segment"
  /\ flag[node[t]] # {}
  /\ owned' = owned \cup {<<node[t], LowestBit(flag[node[t]])>>}
  /\ Return(t)
  /\ UNCHANGED tree

(* get_free_slot_ with a load and a store: a token may serve two calls *)
TakeTokenBlind(t) ==
  /\ pc[t] = "token"
  /\ size[node[t]][id[t]] > 0
  /\ Goto(t, "child")
  /\ UNCHANGED <<tree, owned, locals>>

(* create_node_ without its first test: each new node gets a child *)
CheckFullSkipped(t) ==
  /\ pc[t] = "full"
  /\ Goto(t, "scan_cap")
  /\ id'   = [id EXCEPT ![t] = 0]
  /\ best' = [best EXCEPT ![t] = NoBest]
  /\ UNCHANGED <<tree, owned, node, cur, count, up>>

(* inc_size_(1) top down: the token comes before the ones below it *)
ReleaseTopDown(t) ==
  /\ pc[t] = "rel_up"
  /\ LET n == SubSeq(node[t], 1, 1 + Len(node[t]) - Len(up[t]))
     IN  IncSize(n, 1)
  /\ IF Parent(up[t]) = Root
     THEN Return(t)
     ELSE /\ up' = [up EXCEPT ![t] = Parent(@)]
          /\ UNCHANGED <<pc, node, cur, id, count, best>>
  /\ UNCHANGED <<exists, flag, capacity, owned>>

(* inc_cap_ in the node above only *)
InitCapOnce(t) ==
  /\ pc[t] = "init_cap"
  /\ IncCap(up[t], NbElement)
  /\ up' = [up EXCEPT ![t] = Root]
  /\ Goto(t, "full")
  /\ UNCHANGED <<exists, flag, size, owned, node, cur, id, count, best>>

(* init_child_ without inc_size_: nobody learns of the new node *)
MakeNodeUnsized(t) ==
  /\ pc[t] = "make"
  /\ LET n == Append(cur[t], best[t].id)
     IN  /\ n \in Nodes \ exists
         /\ exists' = exists \cup {n}
         /\ cur' = [cur EXCEPT ![t] = n]
         /\ up'  = [up EXCEPT ![t] = n]
  /\ Goto(t, "init_cap")
  /\ UNCHANGED <<flag, size, capacity, owned, node, id, count, best>>

-------------------------------------------------------------------------------
(* acquire_                                                                *)

Acquire(t) ==
  /\ pc[t] = "idle"
  /\ Cardinality(owned) + Cardinality({u \in Threads : pc[u] # "idle"})
       < MaxObjects
  /\ Goto(t, "segment")
  /\ UNCHANGED <<tree, owned, locals>>

(* segment_.acquire(data, id) finds a slot: the object is the client's *)
AcqTake(t) ==
  /\ pc[t] = "segment"
  /\ flag[node[t]] # {}
  /\ LET s == LowestBit(flag[node[t]])
     IN  /\ flag'  = [flag EXCEPT ![node[t]] = @ \ {s}]
         /\ owned' = owned \cup {<<node[t], s>>}
  /\ Return(t)
  /\ UNCHANGED <<exists, size, capacity>>

(* It finds none: get_or_create_node_(), find_child_id_ *)
AcqEmpty(t) ==
  /\ pc[t] = "segment"
  /\ flag[node[t]] = {}
  /\ Goto(t, "index")
  /\ UNCHANGED <<tree, owned, locals>>

(* get_free_slot_: index = childs_index_ *)
ReadIndex(t) ==
  /\ pc[t] = "index"
  /\ \E i \in Children : id' = [id EXCEPT ![t] = i]
  /\ count' = [count EXCEPT ![t] = 0]
  /\ Goto(t, "token")
  /\ UNCHANGED <<tree, owned, node, cur, best, up>>

(* size_[id] > 0 and its compare_exchange takes a token *)
TakeToken(t) ==
  /\ pc[t] = "token"
  /\ size[node[t]][id[t]] > 0
  /\ size' = [size EXCEPT ![node[t]][id[t]] = @ - 1]
  /\ Goto(t, "child")
  /\ UNCHANGED <<exists, flag, capacity, owned, locals>>

(* size_[id] = 0: the next child, or create_node_ when there is none *)
NoToken(t) ==
  /\ pc[t] = "token"
  /\ size[node[t]][id[t]] = 0
  /\ IF count[t] + 1 < NbChild
     THEN /\ id'    = [id EXCEPT ![t] = (@ + 1) % NbChild]
          /\ count' = [count EXCEPT ![t] = @ + 1]
          /\ UNCHANGED <<pc, cur>>
     ELSE /\ cur' = [cur EXCEPT ![t] = node[t]]
          /\ Goto(t, "full")
          /\ UNCHANGED <<id, count>>
  /\ UNCHANGED <<tree, owned, node, best, up>>

(***************************************************************************)
(* get_or_create_node_(id).acquire_(...): a child there is a token for     *)
(* exists (TokenHasChild), so that nothing is created here.                *)
(***************************************************************************)
GoDown(t) ==
  /\ pc[t] = "child"
  /\ node' = [node EXCEPT ![t] = Append(@, id[t])]
  /\ Goto(t, "segment")
  /\ UNCHANGED <<tree, owned, cur, id, count, best, up>>

-------------------------------------------------------------------------------
(* create_node_                                                            *)

(* owner_ != nullptr && !segment_.full(): return to find_child_id_ *)
CheckFull(t) ==
  /\ pc[t] = "full"
  /\ Goto(t, IF cur[t] # Root /\ flag[cur[t]] # {} THEN "index" ELSE "scan_cap")
  /\ id'    = [id EXCEPT ![t] = 0]
  /\ best'  = [best EXCEPT ![t] = NoBest]
  /\ UNCHANGED <<tree, owned, node, cur, count, up>>

(* tmp_cap = capacity_[i], and the minimum so far *)
ScanCap(t) ==
  /\ pc[t] = "scan_cap"
  /\ best' = [best EXCEPT ![t] =
                LET c == capacity[cur[t]][id[t]]
                IN  IF c < @.cap THEN [cap |-> c, id |-> id[t]] ELSE @]
  /\ Goto(t, "scan_size")
  /\ UNCHANGED <<tree, owned, node, cur, id, count, up>>

(* size_[i] > 0: return to find_child_id_ *)
ScanSize(t) ==
  /\ pc[t] = "scan_size"
  /\ IF size[cur[t]][id[t]] > 0
     THEN Goto(t, "index") /\ UNCHANGED id
     ELSE IF id[t] + 1 < NbChild
     THEN Goto(t, "scan_cap") /\ id' = [id EXCEPT ![t] = @ + 1]
     ELSE Goto(t, "make") /\ UNCHANGED id
  /\ UNCHANGED <<tree, owned, node, cur, count, best, up>>

(* get_or_create_node_(id_min_cap) finds a node: self.create_node_() *)
MakeFound(t) ==
  /\ pc[t] = "make"
  /\ LET n == Append(cur[t], best[t].id)
     IN  n \in exists /\ cur' = [cur EXCEPT ![t] = n]
  /\ Goto(t, "full")
  /\ UNCHANGED <<tree, owned, node, id, count, best, up>>

(* It hangs a new node there, with all slots free.                         *)
MakeNode(t) ==
  /\ pc[t] = "make"
  /\ LET n == Append(cur[t], best[t].id)
     IN  /\ n \in Nodes \ exists
         /\ exists' = exists \cup {n}
         /\ cur' = [cur EXCEPT ![t] = n]
         /\ up'  = [up EXCEPT ![t] = n]
  /\ Goto(t, "init_size")
  /\ UNCHANGED <<flag, size, capacity, owned, node, id, count, best>>

(* init_child_: inc_size_(segment_.capacity()), one node above at a time *)
InitSize(t) ==
  /\ pc[t] = "init_size"
  /\ IncSize(up[t], NbElement)
  /\ IF Parent(up[t]) = Root
     THEN up' = [up EXCEPT ![t] = cur[t]] /\ Goto(t, "init_cap")
     ELSE up' = [up EXCEPT ![t] = Parent(@)] /\ UNCHANGED pc
  /\ UNCHANGED <<exists, flag, capacity, owned, node, cur, id, count, best>>

(* inc_cap_(segment_.capacity()), then self.create_node_() *)
InitCap(t) ==
  /\ pc[t] = "init_cap"
  /\ IncCap(up[t], NbElement)
  /\ up' = [up EXCEPT ![t] = Parent(@)]
  /\ IF Parent(up[t]) = Root THEN Goto(t, "full") ELSE UNCHANGED pc
  /\ UNCHANGED <<exists, flag, size, owned, node, cur, id, count, best>>

-------------------------------------------------------------------------------
(* release, called by the deleter once it has destroyed the object         *)

Drop(t) ==
  /\ pc[t] = "idle"
  /\ \E p \in owned :
       /\ owned' = owned \ {p}
       /\ node'  = [node EXCEPT ![t] = p[1]]
       /\ id'    = [id EXCEPT ![t] = p[2]]
  /\ Goto(t, "release")
  /\ UNCHANGED <<tree, cur, count, best, up>>

(* segment_.release(id) *)
Release(t) ==
  /\ pc[t] = "release"
  /\ flag' = [flag EXCEPT ![node[t]] = @ \cup {id[t]}]
  /\ IF node[t] = Root
     THEN Return(t)
     ELSE /\ up' = [up EXCEPT ![t] = node[t]]
          /\ Goto(t, "rel_up")
          /\ UNCHANGED <<node, cur, id, count, best>>
  /\ UNCHANGED <<exists, size, capacity, owned>>

(* inc_size_(1), one node above at a time *)
ReleaseUp(t) ==
  /\ pc[t] = "rel_up"
  /\ IncSize(up[t], 1)
  /\ IF Parent(up[t]) = Root
     THEN Return(t)
     ELSE /\ up' = [up EXCEPT ![t] = Parent(@)]
          /\ UNCHANGED <<pc, node, cur, id, count, best>>
  /\ UNCHANGED <<exists, flag, capacity, owned>>

-------------------------------------------------------------------------------
CallStep(t) ==
  \/ AcqTake(t) \/ AcqEmpty(t) \/ ReadIndex(t) \/ TakeToken(t) \/ NoToken(t)
  \/ GoDown(t) \/ CheckFull(t) \/ ScanCap(t) \/ ScanSize(t)
  \/ MakeFound(t) \/ MakeNode(t) \/ InitSize(t) \/ InitCap(t)
  \/ Release(t) \/ ReleaseUp(t)

Next == \E t \in Threads : Acquire(t) \/ Drop(t) \/ CallStep(t)

Spec == Init /\ [][Next]_vars

(* A thread inside a call keeps running.                                   *)
Fairness == \A t \in Threads : WF_vars(CallStep(t))
FairSpec == Spec /\ Fairness

-------------------------------------------------------------------------------
Below     == {"index", "token", "full", "scan_cap", "scan_size", "make",
              "init_size", "init_cap"}
Acquiring == Below \cup {"segment", "child"}

(* The fields of the nodes and the locals of the calls keep to their types.*)
TypeOK ==
  /\ Root \in exists /\ exists \subseteq Nodes
  /\ \A n \in exists \ {Root} : Parent(n) \in exists
  /\ flag \in [Nodes -> SUBSET Slots]
  /\ size \in [Nodes -> [Children -> Nat]]
  /\ capacity \in [Nodes -> [Children -> Nat]]
  /\ owned \subseteq exists \X Slots
  /\ pc \in [Threads -> {"idle", "release", "rel_up"} \cup Acquiring]
  /\ node \in [Threads -> exists] /\ cur \in [Threads -> exists]
  /\ up \in [Threads -> exists]
  /\ id \in [Threads -> Slots \cup Children]
  /\ count \in [Threads -> Children]

(* The slots that are taken: by an object, or by a release under way.      *)
Releasing == {t \in Threads : pc[t] = "release"}
Taken(n)  == {s \in Slots : \/ <<n, s>> \in owned
                            \/ \E t \in Releasing : <<node[t], id[t]>> = <<n, s>>}

(***************************************************************************)
(* No slot is lost or has two owners: in every node the slots that are not *)
(* free are those of one object or one release each (segment::acquire and  *)
(* release under any interleaving of the calls).                           *)
(***************************************************************************)
SlotsAccounted ==
  /\ \A n \in Nodes : Taken(n) = Slots \ flag[n]
  /\ \A t \in Releasing :
       /\ <<node[t], id[t]>> \notin owned
       /\ \A u \in Releasing \ {t} : <<node[t], id[t]>> # <<node[u], id[u]>>

(* The calls that hold a token for the tree below c, and the tokens that   *)
(* are still on their way up to the parent of c.                           *)
Target(t)   == IF pc[t] = "child" THEN Append(node[t], id[t]) ELSE node[t]
Holders(c)  == {t \in Threads : pc[t] \in Acquiring /\ Under(c, Target(t))}
OnTheWay(c) == Cardinality({t \in Threads : pc[t] = "rel_up" /\ Under(c, up[t])})
  + NbElement * Cardinality({t \in Threads : pc[t] = "init_size" /\ Under(c, up[t])})

NodesUnder(c) == {n \in exists : Under(c, n)}
FreeUnder(c)  == {p \in NodesUnder(c) \X Slots : p[2] \in flag[p[1]]}

(***************************************************************************)
(* The tokens of a child are as many as the free slots below it, but for   *)
(* those that calls hold and those not yet passed up (get_free_slot_,      *)
(* inc_size_): the tree never promises a slot that is not there, a child   *)
(* there is a token for exists, and no free slot is forgotten.             *)
(***************************************************************************)
TokensMatchFree ==
  \A c \in Nodes \ {Root} :
    size[Parent(c)][IdOf(c)] + Cardinality(Holders(c)) + OnTheWay(c)
      = Cardinality(FreeUnder(c))

(* The tokens a node has for its children, each with its child.            *)
Tokens(c) == UNION {{i} \X (1 .. size[c][i]) : i \in Children}

(***************************************************************************)
(* A call that went down to a node on a token and found its segment empty  *)
(* finds a token there for each call like it: as tokens are passed bottom  *)
(* up, find_child_id_ below the root always has a slot to look for.        *)
(***************************************************************************)
SearchFinds ==
  \A c \in exists \ {Root} :
    Cardinality({t \in Threads : pc[t] \in Below /\ node[t] = c})
      <= Cardinality(Tokens(c))

(***************************************************************************)
(* capacity_ counts the slots of the nodes below a child, but for the nodes*)
(* whose creator has not passed them up yet (inc_cap_): what create_node_  *)
(* balances the tree by.                                                   *)
(***************************************************************************)
Unannounced(c) == Cardinality({t \in Threads :
  \/ pc[t] = "init_size" /\ Under(c, cur[t])
  \/ pc[t] = "init_cap" /\ Under(c, up[t])})

CapacityMatches ==
  \A c \in Nodes \ {Root} :
    capacity[Parent(c)][IdOf(c)] + NbElement * Unannounced(c)
      = NbElement * Cardinality(NodesUnder(c))

(***************************************************************************)
(* The objects the clients keep and ask for never need more than MaxDepth  *)
(* levels: create_node_ goes past a node only when its segment_ is full(), *)
(* and acquire when it finds no slot, so that every level of the tree took *)
(* a full segment, although calls that miss each other's tokens create     *)
(* more nodes than there are objects.                                      *)
(***************************************************************************)
DepthBounded ==
  \A t \in Threads : pc[t] = "make" => Append(cur[t], best[t].id) \in Nodes

(***************************************************************************)
(* Every call returns (find_child_id_ loops until it finds a token). Calls *)
(* that come without end may take every token another call looks for: the  *)
(* search is lock-free and not wait-free, so the calls must be finite.     *)
(***************************************************************************)
CallsReturn == \A t \in Threads : (pc[t] # "idle") ~> (pc[t] = "idle")

-------------------------------------------------------------------------------
OwnersOf(p) == {t \in Releasing : <<node[t], id[t]>> = p}
               \cup {o \in {"client"} : p \in owned}

Promise == INSTANCE SlotPool WITH
             Owners <- Threads \cup {"client"},
             owners <- [p \in Places |-> OwnersOf(p)]

(***************************************************************************)
(* The tree keeps the same promise as the chain: segment::acquire gives a  *)
(* slot to one client, the deleter passes it to the release, and only that *)
(* frees it, wherever in the tree the calls go for it.                     *)
(***************************************************************************)
ImplementsSlotPool == Promise!Spec
===============================================================================
