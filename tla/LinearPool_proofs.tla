--------------------------- MODULE LinearPool_proofs ---------------------------
(***************************************************************************)
(* What LinearPool guarantees for any number of threads, nodes and slots.  *)
(***************************************************************************)
EXTENDS LinearPool, WellFoundedInduction, FiniteSetTheorems, TLAPS

(* get_bit finds a raised bit in a mask that has one.                      *)
LEMMA LowestBitIsRaised ==
  ASSUME NEW m \in SUBSET Slots, m # {}
  PROVE  LowestBit(m) \in m
PROOF
  <1>1. m \subseteq Nat
    BY PoolAssumption DEF Slots
  <1> DEFINE Less == OpToRel(<, Nat)
  <1>2. IsWellFoundedOn(Less, Nat)
    BY NatLessThanWellFounded
  <1>3. ASSUME NEW r \in Nat, NEW s \in Nat, ~ (<<r, s>> \in Less)
        PROVE  s <= r
    <2>1. ~ (r < s)
      BY <1>3 DEF OpToRel
    <2> QED
      BY <2>1
  <1> HIDE DEF Less
  <1>4. \E s \in m : \A r \in m : ~ (<<r, s>> \in Less)
    BY <1>1, <1>2, WFMin
  <1>5. \E s \in m : \A r \in m : s <= r
    BY <1>1, <1>3, <1>4
  <1> QED
    BY <1>5 DEF LowestBit

-------------------------------------------------------------------------------
(* The inductive invariant, in three layers.                               *)

(* A thread has a node of its own exactly while it tries to hang it.       *)
HasChild == \A t \in Threads : child[t] # Null <=> pc[t] = "link"

TypeInv == TypeOK /\ HasChild

(* Such a node has all its slots free and nothing behind it.               *)
ChildFresh == \A t \in Threads :
  child[t] # Null => flag[child[t]] = Slots /\ next[child[t]] = Null

(* Nothing hangs behind a node that is not in the chain.                   *)
Unhung == \A n \in Nodes \ Linked : next[n] = Null

(* Calls and pointers deal with nodes of the chain only.                   *)
InChain == /\ \A t \in Threads : node[t] \in Linked
           /\ owned \cup lost \subseteq Linked \X Slots

ChainInv == NodesAccounted /\ ChildFresh /\ Unhung /\ InChain

(* What a constructor lost was never handed out.                           *)
OwnedNotLost == owned \cap lost = {}

SlotInv == OwnedNotLost /\ SlotExclusive /\ SlotsAccounted /\ ObjectLifetime

-------------------------------------------------------------------------------
(* The types.                                                              *)

LEMMA TypeInvInit == Init => TypeInv
PROOF
  BY PoolAssumption
  DEF Init, TypeInv, TypeOK, HasChild, Nodes, Slots, Places

LEMMA TypeInvStep == TypeInv /\ [Next]_vars => TypeInv'
PROOF
  <1> SUFFICES ASSUME TypeInv, [Next]_vars PROVE TypeInv'
    OBVIOUS
  <1> USE PoolAssumption
          DEF TypeInv, TypeOK, HasChild, AcquirePcs, ReleasePcs, Goto,
              pool, client, locals
  <1>1. ASSUME NEW t \in Threads, Acquire(t) PROVE TypeInv'
    BY <1>1 DEF Acquire, Nodes
  <1>2. ASSUME NEW t \in Threads, AcqLoad(t) PROVE TypeInv'
    BY <1>2 DEF AcqLoad
  <1>3. ASSUME NEW t \in Threads, AcqEmpty(t) PROVE TypeInv'
    BY <1>3 DEF AcqEmpty
  <1>4. ASSUME NEW t \in Threads, AcqTake(t) PROVE TypeInv'
    BY <1>4, LowestBitIsRaised DEF AcqTake
  <1>5. ASSUME NEW t \in Threads, AcqRetry(t) PROVE TypeInv'
    BY <1>5 DEF AcqRetry
  <1>6. ASSUME NEW t \in Threads, NextLoad(t) PROVE TypeInv'
    BY <1>6 DEF NextLoad, Nodes
  <1>7. ASSUME NEW t \in Threads, NextCreate(t) PROVE TypeInv'
    BY <1>7 DEF NextCreate, Nodes
  <1>8. ASSUME NEW t \in Threads, NextLink(t) PROVE TypeInv'
    BY <1>8, PoolAssumption DEF NextLink, Nodes
  <1>9. ASSUME NEW t \in Threads, NextLost(t) PROVE TypeInv'
    BY <1>9 DEF NextLost, Nodes
  <1>10. ASSUME NEW t \in Threads, Construct(t) PROVE TypeInv'
    BY <1>10 DEF Construct, Place, Places
  <1>11. ASSUME NEW t \in Threads, ConstructThrows(t) PROVE TypeInv'
    BY <1>11, PoolAssumption DEF ConstructThrows, Place, Places
  <1>12. ASSUME NEW t \in Threads, Drop(t) PROVE TypeInv'
    BY <1>12 DEF Drop, Places
  <1>13. ASSUME NEW t \in Threads, Destroy(t) PROVE TypeInv'
    BY <1>13 DEF Destroy
  <1>14. ASSUME NEW t \in Threads, RelLoad(t) PROVE TypeInv'
    BY <1>14 DEF RelLoad
  <1>15. ASSUME NEW t \in Threads, RelPut(t) PROVE TypeInv'
    BY <1>15 DEF RelPut
  <1>16. ASSUME NEW t \in Threads, RelRetry(t) PROVE TypeInv'
    BY <1>16 DEF RelRetry
  <1>17. CASE UNCHANGED vars
    BY <1>17 DEF vars
  <1> QED
    BY <1>1, <1>2, <1>3, <1>4, <1>5, <1>6, <1>7, <1>8, <1>9, <1>10, <1>11,
       <1>12, <1>13, <1>14, <1>15, <1>16, <1>17
    DEF Next, AcquireStep, ReleaseStep

(* Every variable keeps its type, in every step of every thread.           *)
THEOREM Typing == Spec => []TypeOK
PROOF
  <1>1. TypeInv => TypeOK
    BY DEF TypeInv
  <1> QED
    BY <1>1, TypeInvInit, TypeInvStep, PTL DEF Spec

-------------------------------------------------------------------------------
(* The chain.                                                              *)

LEMMA ChainInvInit == Init => ChainInv
PROOF
  <1> SUFFICES ASSUME Init PROVE ChainInv
    OBVIOUS
  <1>1. Linked = {Root} /\ Hanging = {}
    BY DEF Init, Linked, Hanging
  <1> QED
    BY <1>1, PoolAssumption
    DEF Init, ChainInv, NodesAccounted, ChildFresh, Unhung, InChain, Nodes

(* What becomes of the chain and of the nodes that hang nowhere.           *)
LEMMA LinkedSame == UNCHANGED next => Linked' = Linked
PROOF
  BY DEF Linked

LEMMA HangingSame == UNCHANGED child => Hanging' = Hanging
PROOF
  BY DEF Hanging

(* A step that touches no node of the heap and no next_ keeps the chain.   *)
LEMMA ChainKept ==
  ASSUME TypeInv, ChainInv, UNCHANGED <<next, heap, child>>,
         \A n \in Addresses \ Linked : flag'[n] = flag[n],
         InChain'
  PROVE  ChainInv'
PROOF
  <1>1. Linked' = Linked /\ Hanging' = Hanging
    BY LinkedSame, HangingSame
  <1>2. NodesAccounted'
    BY <1>1 DEF ChainInv, NodesAccounted
  <1>3. Unhung'
    BY <1>1 DEF ChainInv, Unhung
  <1>4. ChildFresh'
    <2> SUFFICES ASSUME NEW t \in Threads, child[t] # Null
                 PROVE  flag'[child[t]] = Slots /\ next[child[t]] = Null
      BY DEF ChildFresh
    <2>1. child[t] \in Addresses \ Linked
      BY DEF ChainInv, NodesAccounted, Hanging, TypeInv, TypeOK
    <2> QED
      BY <2>1 DEF ChainInv, ChildFresh
  <1> QED
    BY <1>2, <1>3, <1>4 DEF ChainInv

LEMMA NextCreateChain ==
  ASSUME TypeInv, ChainInv, NEW t \in Threads, NextCreate(t)
  PROVE  ChainInv' /\ Linked' = Linked
PROOF
  <1>1. PICK a \in heap :
          /\ heap'  = heap \ {a}
          /\ flag'  = [flag EXCEPT ![a] = Slots]
          /\ next'  = [next EXCEPT ![a] = Null]
          /\ child' = [child EXCEPT ![t] = a]
    BY DEF NextCreate
  <1>2. a \in Addresses /\ a # Null /\ a \notin Linked /\ a \notin Hanging
    BY PoolAssumption DEF ChainInv, NodesAccounted, TypeInv, TypeOK
  <1>3. next' = next
    BY <1>1, <1>2 DEF ChainInv, Unhung, TypeInv, TypeOK, Nodes
  <1>4. child[t] = Null
    BY DEF NextCreate, TypeInv, HasChild
  <1>5. Linked' = Linked
    BY <1>3 DEF Linked
  <1>6. Hanging' = Hanging \cup {a}
    BY <1>1, <1>2, <1>4 DEF Hanging, TypeInv, TypeOK
  <1>7. NodesAccounted'
    <2>1. \A u \in Threads : child[u] # a
      BY <1>2 DEF Hanging
    <2>2. \A u, v \in Threads :
             u # v /\ child'[u] # Null => child'[u] # child'[v]
      BY <1>1, <1>4, <2>1 DEF ChainInv, NodesAccounted, TypeInv, TypeOK
    <2> QED
      BY <1>1, <1>2, <1>5, <1>6, <2>2 DEF ChainInv, NodesAccounted
  <1>8. ChildFresh'
    <2> SUFFICES ASSUME NEW u \in Threads, child'[u] # Null
                 PROVE  flag'[child'[u]] = Slots /\ next'[child'[u]] = Null
      BY DEF ChildFresh
    <2>1. CASE u = t
      BY <1>1, <1>2, <2>1 DEF TypeInv, TypeOK, Nodes
    <2>2. CASE u # t
      <3>1. child'[u] = child[u] /\ child[u] # a
        BY <1>1, <1>2, <2>2 DEF Hanging, TypeInv, TypeOK
      <3> QED
        BY <1>1, <1>3, <3>1 DEF ChainInv, ChildFresh, TypeInv, TypeOK, Nodes
    <2> QED
      BY <2>1, <2>2
  <1>9. Unhung' /\ InChain'
    BY <1>3, <1>5 DEF NextCreate, client, ChainInv, Unhung, InChain
  <1> QED
    BY <1>5, <1>7, <1>8, <1>9 DEF ChainInv

LEMMA NextLinkChain ==
  ASSUME TypeInv, ChainInv, NEW t \in Threads, NextLink(t)
  PROVE  ChainInv' /\ Linked' = Linked \cup {child[t]}
PROOF
  <1>1. child[t] \in Addresses /\ child[t] # Null /\ child[t] \in Hanging
    BY PoolAssumption DEF NextLink, TypeInv, TypeOK, HasChild, Hanging
  <1>2. child[t] \notin Linked /\ node[t] \in Linked /\ node[t] \in Nodes
    BY <1>1 DEF ChainInv, NodesAccounted, InChain, TypeInv, TypeOK
  <1>3. next' = [next EXCEPT ![node[t]] = child[t]] /\ next[node[t]] = Null
    BY DEF NextLink
  <1>4. Linked' = Linked \cup {child[t]}
    BY <1>1, <1>2, <1>3 DEF Linked, TypeInv, TypeOK
  <1>5. Hanging' = Hanging \ {child[t]}
    BY <1>1 DEF NextLink, Hanging, ChainInv, NodesAccounted, TypeInv, TypeOK
  <1>6. NodesAccounted'
    <2>1. heap' = heap
      BY DEF NextLink
    <2>2. \A u, v \in Threads :
             u # v /\ child'[u] # Null => child'[u] # child'[v]
      BY DEF NextLink, ChainInv, NodesAccounted, TypeInv, TypeOK
    <2>3. child[t] # Root
      BY <1>1, PoolAssumption
    <2> QED
      BY <1>1, <1>2, <1>4, <1>5, <2>1, <2>2, <2>3
      DEF ChainInv, NodesAccounted
  <1>7. ChildFresh'
    <2> SUFFICES ASSUME NEW u \in Threads, child'[u] # Null
                 PROVE  flag'[child'[u]] = Slots /\ next'[child'[u]] = Null
      BY DEF ChildFresh
    <2>1. u # t /\ child'[u] = child[u] /\ child[u] # Null
      BY DEF NextLink, TypeInv, TypeOK
    <2>2. child[u] \notin Linked
      BY <2>1 DEF ChainInv, NodesAccounted, Hanging
    <2>3. child[u] \in Nodes /\ child[u] # node[t]
      BY <1>2, <2>1, <2>2 DEF TypeInv, TypeOK, Nodes
    <2> QED
      BY <1>3, <2>1, <2>3
      DEF NextLink, ChainInv, ChildFresh, TypeInv, TypeOK
  <1>8. Unhung'
    BY <1>2, <1>3, <1>4 DEF ChainInv, Unhung, TypeInv, TypeOK
  <1>9. InChain'
    BY <1>4 DEF NextLink, client, ChainInv, InChain, TypeInv, TypeOK
  <1> QED
    BY <1>4, <1>6, <1>7, <1>8, <1>9 DEF ChainInv

LEMMA NextLostChain ==
  ASSUME TypeInv, ChainInv, NEW t \in Threads, NextLost(t)
  PROVE  ChainInv' /\ Linked' = Linked
PROOF
  <1>1. child[t] \in Addresses /\ child[t] # Null /\ child[t] \in Hanging
    BY PoolAssumption DEF NextLost, TypeInv, TypeOK, HasChild, Hanging
  <1>2. Linked' = Linked
    BY LinkedSame DEF NextLost
  <1>3. Hanging' = Hanging \ {child[t]}
    BY <1>1 DEF NextLost, Hanging, ChainInv, NodesAccounted, TypeInv, TypeOK
  <1>4. NodesAccounted'
    <2>1. heap' = heap \cup {child[t]}
      BY DEF NextLost
    <2>2. \A u, v \in Threads :
             u # v /\ child'[u] # Null => child'[u] # child'[v]
      BY DEF NextLost, ChainInv, NodesAccounted, TypeInv, TypeOK
    <2> QED
      BY <1>1, <1>2, <1>3, <2>1, <2>2 DEF ChainInv, NodesAccounted
  <1>5. ChildFresh'
    BY DEF NextLost, ChainInv, ChildFresh, TypeInv, TypeOK
  <1>6. Unhung'
    BY <1>2 DEF NextLost, ChainInv, Unhung
  <1>7. next[node[t]] \in Linked
    BY DEF NextLost, Linked, TypeInv, TypeOK
  <1>8. InChain'
    BY <1>2, <1>7 DEF NextLost, client, ChainInv, InChain, TypeInv, TypeOK
  <1> QED
    BY <1>2, <1>4, <1>5, <1>6, <1>8 DEF ChainInv

LEMMA ChainInvStep == TypeInv /\ ChainInv /\ [Next]_vars => ChainInv'
PROOF
  <1> SUFFICES ASSUME TypeInv, ChainInv, [Next]_vars PROVE ChainInv'
    OBVIOUS
  <1>r. Root \in Linked
    BY DEF Linked
  <1>i. /\ \A u \in Threads : node[u] \in Linked
        /\ owned \cup lost \subseteq Linked \X Slots
    BY DEF ChainInv, InChain
  <1> USE DEF TypeInv, TypeOK, pool, client, locals
  <1>1. ASSUME NEW t \in Threads, Acquire(t) PROVE ChainInv'
    <2>1. UNCHANGED <<next, heap, child>> /\ Linked' = Linked
      BY <1>1, LinkedSame DEF Acquire
    <2>2. \A n \in Addresses \ Linked : flag'[n] = flag[n]
      BY <1>1, <1>i DEF Acquire, Nodes
    <2>3. InChain'
      BY <1>1, <1>r, <1>i, <2>1 DEF Acquire, InChain, Place, Linked
    <2> QED
      BY <2>1, <2>2, <2>3, ChainKept
  <1>2. ASSUME NEW t \in Threads, AcqLoad(t) PROVE ChainInv'
    <2>1. UNCHANGED <<next, heap, child>> /\ Linked' = Linked
      BY <1>2, LinkedSame DEF AcqLoad
    <2>2. \A n \in Addresses \ Linked : flag'[n] = flag[n]
      BY <1>2, <1>i DEF AcqLoad, Nodes
    <2>3. InChain'
      BY <1>2, <1>r, <1>i, <2>1 DEF AcqLoad, InChain, Place, Linked
    <2> QED
      BY <2>1, <2>2, <2>3, ChainKept
  <1>3. ASSUME NEW t \in Threads, AcqEmpty(t) PROVE ChainInv'
    <2>1. UNCHANGED <<next, heap, child>> /\ Linked' = Linked
      BY <1>3, LinkedSame DEF AcqEmpty
    <2>2. \A n \in Addresses \ Linked : flag'[n] = flag[n]
      BY <1>3, <1>i DEF AcqEmpty, Nodes
    <2>3. InChain'
      BY <1>3, <1>r, <1>i, <2>1 DEF AcqEmpty, InChain, Place, Linked
    <2> QED
      BY <2>1, <2>2, <2>3, ChainKept
  <1>4. ASSUME NEW t \in Threads, AcqTake(t) PROVE ChainInv'
    <2>1. UNCHANGED <<next, heap, child>> /\ Linked' = Linked
      BY <1>4, LinkedSame DEF AcqTake
    <2>2. \A n \in Addresses \ Linked : flag'[n] = flag[n]
      BY <1>4, <1>i DEF AcqTake, Nodes
    <2>3. InChain'
      BY <1>4, <1>r, <1>i, <2>1 DEF AcqTake, InChain, Place, Linked
    <2> QED
      BY <2>1, <2>2, <2>3, ChainKept
  <1>5. ASSUME NEW t \in Threads, AcqRetry(t) PROVE ChainInv'
    <2>1. UNCHANGED <<next, heap, child>> /\ Linked' = Linked
      BY <1>5, LinkedSame DEF AcqRetry
    <2>2. \A n \in Addresses \ Linked : flag'[n] = flag[n]
      BY <1>5, <1>i DEF AcqRetry, Nodes
    <2>3. InChain'
      BY <1>5, <1>r, <1>i, <2>1 DEF AcqRetry, InChain, Place, Linked
    <2> QED
      BY <2>1, <2>2, <2>3, ChainKept
  <1>6. ASSUME NEW t \in Threads, NextLoad(t) PROVE ChainInv'
    <2>1. UNCHANGED <<next, heap, child>> /\ Linked' = Linked
      BY <1>6, LinkedSame DEF NextLoad
    <2>2. \A n \in Addresses \ Linked : flag'[n] = flag[n]
      BY <1>6, <1>i DEF NextLoad, Nodes
    <2>3. InChain'
      BY <1>6, <1>r, <1>i, <2>1 DEF NextLoad, InChain, Place, Linked
    <2> QED
      BY <2>1, <2>2, <2>3, ChainKept
  <1>7. ASSUME NEW t \in Threads, NextCreate(t) PROVE ChainInv'
    BY <1>7, NextCreateChain
  <1>8. ASSUME NEW t \in Threads, NextLink(t) PROVE ChainInv'
    BY <1>8, NextLinkChain
  <1>9. ASSUME NEW t \in Threads, NextLost(t) PROVE ChainInv'
    BY <1>9, NextLostChain
  <1>10. ASSUME NEW t \in Threads, Construct(t) PROVE ChainInv'
    <2>1. UNCHANGED <<next, heap, child>> /\ Linked' = Linked
      BY <1>10, LinkedSame DEF Construct
    <2>2. \A n \in Addresses \ Linked : flag'[n] = flag[n]
      BY <1>10, <1>i DEF Construct, Nodes
    <2>3. InChain'
      BY <1>10, <1>r, <1>i, <2>1 DEF Construct, InChain, Place, Linked
    <2> QED
      BY <2>1, <2>2, <2>3, ChainKept
  <1>11. ASSUME NEW t \in Threads, ConstructThrows(t) PROVE ChainInv'
    <2>1. UNCHANGED <<next, heap, child>> /\ Linked' = Linked
      BY <1>11, LinkedSame DEF ConstructThrows
    <2>2. \A n \in Addresses \ Linked : flag'[n] = flag[n]
      BY <1>11, <1>i DEF ConstructThrows, Nodes
    <2>3. InChain'
      BY <1>11, <1>r, <1>i, <2>1 DEF ConstructThrows, InChain, Place, Linked
    <2> QED
      BY <2>1, <2>2, <2>3, ChainKept
  <1>12. ASSUME NEW t \in Threads, Drop(t) PROVE ChainInv'
    <2>1. UNCHANGED <<next, heap, child>> /\ Linked' = Linked
      BY <1>12, LinkedSame DEF Drop
    <2>2. \A n \in Addresses \ Linked : flag'[n] = flag[n]
      BY <1>12, <1>i DEF Drop, Nodes
    <2>3. InChain'
      BY <1>12, <1>r, <1>i, <2>1 DEF Drop, InChain, Place, Linked
    <2> QED
      BY <2>1, <2>2, <2>3, ChainKept
  <1>13. ASSUME NEW t \in Threads, Destroy(t) PROVE ChainInv'
    <2>1. UNCHANGED <<next, heap, child>> /\ Linked' = Linked
      BY <1>13, LinkedSame DEF Destroy
    <2>2. \A n \in Addresses \ Linked : flag'[n] = flag[n]
      BY <1>13, <1>i DEF Destroy, Nodes
    <2>3. InChain'
      BY <1>13, <1>r, <1>i, <2>1 DEF Destroy, InChain, Place, Linked
    <2> QED
      BY <2>1, <2>2, <2>3, ChainKept
  <1>14. ASSUME NEW t \in Threads, RelLoad(t) PROVE ChainInv'
    <2>1. UNCHANGED <<next, heap, child>> /\ Linked' = Linked
      BY <1>14, LinkedSame DEF RelLoad
    <2>2. \A n \in Addresses \ Linked : flag'[n] = flag[n]
      BY <1>14, <1>i DEF RelLoad, Nodes
    <2>3. InChain'
      BY <1>14, <1>r, <1>i, <2>1 DEF RelLoad, InChain, Place, Linked
    <2> QED
      BY <2>1, <2>2, <2>3, ChainKept
  <1>15. ASSUME NEW t \in Threads, RelPut(t) PROVE ChainInv'
    <2>1. UNCHANGED <<next, heap, child>> /\ Linked' = Linked
      BY <1>15, LinkedSame DEF RelPut
    <2>2. \A n \in Addresses \ Linked : flag'[n] = flag[n]
      BY <1>15, <1>i DEF RelPut, Nodes
    <2>3. InChain'
      BY <1>15, <1>r, <1>i, <2>1 DEF RelPut, InChain, Place, Linked
    <2> QED
      BY <2>1, <2>2, <2>3, ChainKept
  <1>16. ASSUME NEW t \in Threads, RelRetry(t) PROVE ChainInv'
    <2>1. UNCHANGED <<next, heap, child>> /\ Linked' = Linked
      BY <1>16, LinkedSame DEF RelRetry
    <2>2. \A n \in Addresses \ Linked : flag'[n] = flag[n]
      BY <1>16, <1>i DEF RelRetry, Nodes
    <2>3. InChain'
      BY <1>16, <1>r, <1>i, <2>1 DEF RelRetry, InChain, Place, Linked
    <2> QED
      BY <2>1, <2>2, <2>3, ChainKept
  <1>17. CASE UNCHANGED vars
    BY <1>17, ChainKept, LinkedSame DEF vars, InChain, ChainInv
  <1> QED
    BY <1>1, <1>2, <1>3, <1>4, <1>5, <1>6, <1>7, <1>8, <1>9, <1>10, <1>11, <1>12, <1>13, <1>14, <1>15, <1>16, <1>17
    DEF Next, AcquireStep, ReleaseStep

LEMMA ChainInvAlways == Spec => [](TypeInv /\ ChainInv)
PROOF
  BY TypeInvInit, TypeInvStep, ChainInvInit, ChainInvStep, PTL DEF Spec

(* No node is leaked, hung twice, or freed while a thread can reach it.    *)
THEOREM NodesKept == Spec => []NodesAccounted
PROOF
  <1>1. ChainInv => NodesAccounted
    BY DEF ChainInv
  <1> QED
    BY <1>1, ChainInvAlways, PTL

(* A node that joined the chain never leaves it.                           *)
THEOREM ChainGrows == Spec => ChainOnlyGrows
PROOF
  <1>1. ASSUME TypeInv, ChainInv, [Next]_vars PROVE [Linked \subseteq Linked']_vars
    <2>1. ASSUME UNCHANGED next PROVE Linked \subseteq Linked'
      BY <2>1, LinkedSame
    <2> QED
      BY <1>1, <2>1, NextCreateChain, NextLinkChain
      DEF Next, AcquireStep, ReleaseStep, vars, pool, Acquire, AcqLoad,
          AcqEmpty, AcqTake, AcqRetry, NextLoad, NextLost, Construct,
          ConstructThrows, Drop, Destroy, RelLoad, RelPut, RelRetry
  <1> QED
    BY <1>1, ChainInvAlways, PTL DEF Spec, ChainOnlyGrows

-------------------------------------------------------------------------------
(* The slots.                                                              *)

LEMMA SlotInvInit == Init => SlotInv
PROOF
  BY DEF Init, SlotInv, OwnedNotLost, SlotExclusive, SlotsAccounted,
         ObjectLifetime, Holders, Taken, Linked, Nodes

Destroyers == {t \in Threads : pc[t] = "destroy"}

(* The part of the invariant a step keeps that deals with no slot.         *)
SlotsUntouched ==
  /\ Holders' = Holders
  /\ Destroyers' = Destroyers
  /\ \A u \in Holders : Place(u)' = Place(u)
  /\ UNCHANGED <<owned, built, lost>>

LEMMA TakenKept == SlotsUntouched => Taken' = Taken
PROOF
  BY DEF SlotsUntouched, Taken

LEMMA SlotsKept ==
  ASSUME SlotInv, SlotsUntouched, Linked' = Linked,
         \A n \in Linked : flag'[n] = flag[n]
  PROVE  SlotInv'
PROOF
  <1>1. OwnedNotLost' /\ SlotExclusive'
    BY DEF SlotInv, OwnedNotLost, SlotExclusive, SlotsUntouched
  <1>2. SlotsAccounted'
    BY TakenKept DEF SlotInv, SlotsAccounted
  <1>3. Destroyers \subseteq Holders
    BY DEF Destroyers, Holders
  <1>4. ObjectLifetime'
    BY <1>3 DEF SlotInv, ObjectLifetime, SlotsUntouched, Destroyers
  <1> QED
    BY <1>1, <1>2, <1>4 DEF SlotInv

(* The places of calls lie in the chain.                                   *)
LEMMA TakenInChain ==
  TypeInv /\ ChainInv => Taken \subseteq Linked \X Slots
PROOF
  BY DEF TypeInv, TypeOK, ChainInv, InChain, Taken, Place, Holders

LEMMA AcqTakeSlots ==
  ASSUME TypeInv, ChainInv, SlotInv, NEW t \in Threads, AcqTake(t)
  PROVE  /\ SlotInv'
         /\ Place(t)' = <<node[t], LowestBit(mask[t])>>
         /\ <<node[t], LowestBit(mask[t])>> \in Places \ Taken
PROOF
  <1> DEFINE p == <<node[t], LowestBit(mask[t])>>
  <1>1. LowestBit(mask[t]) \in mask[t] /\ LowestBit(mask[t]) \in Slots
    BY LowestBitIsRaised DEF AcqTake, TypeInv, TypeOK
  <1>2. node[t] \in Linked /\ node[t] \in Nodes
    BY DEF ChainInv, InChain, TypeInv, TypeOK
  <1>3. p \notin Taken /\ p \in Places
    BY <1>1, <1>2 DEF AcqTake, SlotInv, SlotsAccounted, Places
  <1>4. t \notin Holders /\ Holders' = Holders \cup {t}
    BY DEF AcqTake, Holders, Goto, TypeInv, TypeOK
  <1>5. Place(t)' = p /\ \A u \in Holders : Place(u)' = Place(u)
    BY <1>4 DEF AcqTake, Place, Holders, TypeInv, TypeOK
  <1>6. UNCHANGED <<owned, built, lost>> /\ Linked' = Linked
    BY LinkedSame DEF AcqTake, client
  <1>7. Taken' = Taken \cup {p}
    BY <1>4, <1>5, <1>6 DEF Taken
  <1>8. SlotExclusive'
    BY <1>3, <1>4, <1>5, <1>6 DEF SlotInv, SlotExclusive, Taken
  <1>9. SlotsAccounted'
    <2> SUFFICES ASSUME NEW n \in Linked
                 PROVE  flag'[n] = {s \in Slots : <<n, s>> \notin Taken'}
      BY <1>6 DEF SlotsAccounted
    <2>1. flag[n] = {s \in Slots : <<n, s>> \notin Taken}
      BY DEF SlotInv, SlotsAccounted
    <2>2. CASE n = node[t]
      <3>1. flag'[n] = flag[n] \ {LowestBit(mask[t])}
        BY <1>2, <2>2 DEF AcqTake, TypeInv, TypeOK
      <3> QED
        BY <1>7, <2>1, <2>2, <3>1
    <2>3. CASE n # node[t]
      <3>1. flag'[n] = flag[n]
        BY <2>3 DEF AcqTake, TypeInv, TypeOK
      <3> QED
        BY <1>7, <2>1, <2>3, <3>1
    <2> QED
      BY <2>2, <2>3
  <1>10. ObjectLifetime'
    <2>1. Destroyers' = Destroyers /\ Destroyers \subseteq Holders
      BY DEF AcqTake, Goto, Destroyers, Holders, TypeInv, TypeOK
    <2> QED
      BY <1>5, <1>6, <2>1 DEF SlotInv, ObjectLifetime, Destroyers
  <1> QED
    BY <1>3, <1>5, <1>6, <1>8, <1>9, <1>10 DEF SlotInv, OwnedNotLost

LEMMA NextLinkSlots ==
  ASSUME TypeInv, ChainInv, SlotInv, NEW t \in Threads, NextLink(t)
  PROVE  SlotInv' /\ SlotsUntouched
PROOF
  <1>1. Linked' = Linked \cup {child[t]} /\ child[t] \notin Linked
    <2>1. child[t] # Null
      BY DEF NextLink, TypeInv, HasChild
    <2> QED
      BY <2>1, NextLinkChain DEF ChainInv, NodesAccounted, Hanging
  <1>2. SlotsUntouched
    BY DEF NextLink, Goto, client, SlotsUntouched, Holders, Destroyers,
           Place, TypeInv, TypeOK
  <1>3. Taken' = Taken
    BY <1>2, TakenKept
  <1>4. flag[child[t]] = Slots
    BY DEF NextLink, ChainInv, ChildFresh, TypeInv, HasChild
  <1>5. \A s \in Slots : <<child[t], s>> \notin Taken
    BY <1>1, TakenInChain
  <1>6. SlotsAccounted'
    BY <1>1, <1>3, <1>4, <1>5 DEF NextLink, SlotInv, SlotsAccounted
  <1>7. OwnedNotLost' /\ SlotExclusive'
    BY <1>2 DEF SlotInv, OwnedNotLost, SlotExclusive, SlotsUntouched
  <1>8. ObjectLifetime'
    <2>1. Destroyers \subseteq Holders
      BY DEF Destroyers, Holders
    <2> QED
      BY <1>2, <2>1 DEF SlotInv, ObjectLifetime, SlotsUntouched, Destroyers
  <1> QED
    BY <1>2, <1>6, <1>7, <1>8 DEF SlotInv

(* Steps that pass a slot on: from call to client, and from client to call. *)
LEMMA ConstructSlots ==
  ASSUME TypeInv, ChainInv, SlotInv, NEW t \in Threads,
         Construct(t) \/ ConstructThrows(t)
  PROVE  SlotInv'
PROOF
  <1>1. t \in Holders /\ Place(t) \notin owned \cup lost
    BY DEF Construct, ConstructThrows, Holders, SlotInv, SlotExclusive
  <1>2. Holders' = Holders \ {t} /\ \A u \in Holders : Place(u)' = Place(u)
    BY DEF Construct, ConstructThrows, Goto, locals, Holders, Place,
           TypeInv, TypeOK
  <1>3. Linked' = Linked /\ flag' = flag
    BY LinkedSame DEF Construct, ConstructThrows, pool
  <1>4. \/ owned' = owned \cup {Place(t)} /\ lost' = lost
        \/ owned' = owned /\ lost' = lost \cup {Place(t)}
    BY DEF Construct, ConstructThrows
  <1>5. Taken' = Taken
    BY <1>1, <1>2, <1>4 DEF Taken
  <1>6. OwnedNotLost'
    BY <1>1, <1>4 DEF SlotInv, OwnedNotLost
  <1>7. SlotExclusive'
    BY <1>1, <1>2, <1>4 DEF SlotInv, SlotExclusive
  <1>8. SlotsAccounted'
    BY <1>3, <1>5 DEF SlotInv, SlotsAccounted
  <1>9. ObjectLifetime'
    <2>1. Destroyers' = Destroyers /\ t \notin Destroyers
      BY DEF Construct, ConstructThrows, Goto, Destroyers, TypeInv, TypeOK
    <2>2. Destroyers \subseteq Holders
      BY DEF Destroyers, Holders
    <2>3. built' \ built = owned' \ owned /\ built \subseteq built'
      BY <1>1, <2>1, <2>2
      DEF Construct, ConstructThrows, SlotInv, SlotExclusive, ObjectLifetime,
          Destroyers
    <2> QED
      BY <1>2, <1>4, <2>1, <2>2, <2>3
      DEF SlotInv, ObjectLifetime, Destroyers
  <1> QED
    BY <1>6, <1>7, <1>8, <1>9 DEF SlotInv

LEMMA DropSlots ==
  ASSUME TypeInv, ChainInv, SlotInv, NEW t \in Threads, Drop(t)
  PROVE  SlotInv'
PROOF
  <1>1. PICK p \in owned : /\ owned' = owned \ {p}
                           /\ node'  = [node EXCEPT ![t] = p[1]]
                           /\ slot'  = [slot EXCEPT ![t] = p[2]]
    BY DEF Drop
  <1>2. p \in Places /\ p \notin lost
    BY DEF TypeInv, TypeOK, SlotInv, OwnedNotLost
  <1>3. t \notin Holders /\ Holders' = Holders \cup {t}
    BY DEF Drop, Holders, Goto, TypeInv, TypeOK
  <1>4. Place(t)' = p
    BY <1>1, <1>2 DEF Place, Places, TypeInv, TypeOK
  <1>5. \A u \in Holders : Place(u)' = Place(u) /\ Place(u) # p
    BY <1>1, <1>3
    DEF Place, Holders, TypeInv, TypeOK, SlotInv, SlotExclusive
  <1>6. Linked' = Linked /\ UNCHANGED <<flag, built, lost>>
    BY LinkedSame DEF Drop, pool
  <1>7. Taken' = Taken
    BY <1>1, <1>3, <1>4, <1>5, <1>6 DEF Taken
  <1>8. SlotExclusive'
    BY <1>1, <1>2, <1>3, <1>4, <1>5, <1>6 DEF SlotInv, SlotExclusive
  <1>9. SlotsAccounted'
    BY <1>6, <1>7 DEF SlotInv, SlotsAccounted
  <1>10. ObjectLifetime'
    <2>1. Destroyers' = Destroyers \cup {t} /\ t \notin Destroyers
      BY DEF Drop, Goto, Destroyers, TypeInv, TypeOK
    <2>2. Destroyers \subseteq Holders
      BY DEF Destroyers, Holders
    <2> QED
      BY <1>1, <1>4, <1>5, <1>6, <2>1, <2>2
      DEF SlotInv, ObjectLifetime, Destroyers
  <1>11. OwnedNotLost'
    BY <1>1, <1>6 DEF SlotInv, OwnedNotLost
  <1> QED
    BY <1>8, <1>9, <1>10, <1>11 DEF SlotInv

LEMMA DestroySlots ==
  ASSUME TypeInv, ChainInv, SlotInv, NEW t \in Threads, Destroy(t)
  PROVE  SlotInv'
PROOF
  <1>1. Holders' = Holders /\ \A u \in Holders : Place(u)' = Place(u)
    BY DEF Destroy, Holders, Place, Goto, locals, TypeInv, TypeOK
  <1>2. UNCHANGED <<owned, lost, flag>> /\ Linked' = Linked
    BY LinkedSame DEF Destroy, pool
  <1>3. Taken' = Taken
    BY <1>1, <1>2 DEF Taken
  <1>4. OwnedNotLost' /\ SlotExclusive' /\ SlotsAccounted'
    BY <1>1, <1>2, <1>3
    DEF SlotInv, OwnedNotLost, SlotExclusive, SlotsAccounted
  <1>5. ObjectLifetime'
    <2>1. Destroyers' = Destroyers \ {t} /\ t \in Destroyers
      BY DEF Destroy, Goto, Destroyers, TypeInv, TypeOK
    <2>2. Destroyers \subseteq Holders
      BY DEF Destroyers, Holders
    <2>3. \A u \in Destroyers' : Place(u) # Place(t)
      BY <2>1, <2>2 DEF SlotInv, SlotExclusive
    <2>4. Place(t) \notin owned
      BY <2>1, <2>2 DEF SlotInv, SlotExclusive
    <2>5. built = owned \cup {Place(u) : u \in Destroyers}
      BY DEF SlotInv, ObjectLifetime, Destroyers
    <2>6. built' = owned \cup {Place(u) : u \in Destroyers \ {t}}
      BY <2>1, <2>3, <2>4, <2>5 DEF Destroy
    <2> QED
      BY <1>1, <1>2, <2>1, <2>2, <2>6 DEF ObjectLifetime, Destroyers
  <1> QED
    BY <1>4, <1>5 DEF SlotInv

LEMMA RelPutSlots ==
  ASSUME TypeInv, ChainInv, SlotInv, NEW t \in Threads, RelPut(t)
  PROVE  SlotInv'
PROOF
  <1>1. t \in Holders /\ Holders' = Holders \ {t}
    BY DEF RelPut, Holders, Goto, TypeInv, TypeOK
  <1>2. \A u \in Holders : Place(u)' = Place(u)
    BY DEF RelPut, Place, locals
  <1>3. UNCHANGED <<owned, built, lost>> /\ Linked' = Linked
    BY LinkedSame DEF RelPut, client
  <1>4. /\ Place(t) \notin owned \cup lost
        /\ \A u \in Holders \ {t} : Place(u) # Place(t)
    BY <1>1 DEF SlotInv, SlotExclusive
  <1>5. Taken' = Taken \ {Place(t)} /\ Place(t) \in Taken
    BY <1>1, <1>2, <1>3, <1>4 DEF Taken
  <1>6. OwnedNotLost' /\ SlotExclusive'
    BY <1>1, <1>2, <1>3 DEF SlotInv, OwnedNotLost, SlotExclusive
  <1>7. SlotsAccounted'
    <2> SUFFICES ASSUME NEW n \in Linked
                 PROVE  flag'[n] = {s \in Slots : <<n, s>> \notin Taken'}
      BY <1>3 DEF SlotsAccounted
    <2>1. flag[n] = {s \in Slots : <<n, s>> \notin Taken}
      BY DEF SlotInv, SlotsAccounted
    <2>2. slot[t] \in Slots /\ node[t] \in Nodes
      BY DEF TypeInv, TypeOK
    <2>3. CASE n = node[t]
      <3>1. flag'[n] = flag[n] \cup {slot[t]}
        BY <2>2, <2>3 DEF RelPut, TypeInv, TypeOK
      <3> QED
        BY <1>5, <2>1, <2>2, <2>3, <3>1 DEF Place
    <2>4. CASE n # node[t]
      <3>1. flag'[n] = flag[n]
        BY <2>4 DEF RelPut, TypeInv, TypeOK
      <3> QED
        BY <1>5, <2>1, <2>4, <3>1 DEF Place
    <2> QED
      BY <2>3, <2>4
  <1>8. ObjectLifetime'
    <2>1. Destroyers' = Destroyers
      BY DEF RelPut, Goto, Destroyers, TypeInv, TypeOK
    <2>2. Destroyers \subseteq Holders
      BY DEF Destroyers, Holders
    <2> QED
      BY <1>2, <1>3, <2>1, <2>2 DEF SlotInv, ObjectLifetime, Destroyers
  <1> QED
    BY <1>6, <1>7, <1>8 DEF SlotInv

(* The steps that deal with no slot.                                       *)
QuietStep(t) == \/ Acquire(t) \/ AcqLoad(t) \/ AcqEmpty(t) \/ AcqRetry(t)
                \/ NextLoad(t) \/ NextCreate(t) \/ NextLost(t)
                \/ RelLoad(t) \/ RelRetry(t)

LEMMA QuietStepSlots ==
  ASSUME TypeInv, ChainInv, SlotInv, NEW t \in Threads, QuietStep(t)
  PROVE  SlotInv' /\ SlotsUntouched
PROOF
  <1> USE DEF SlotsUntouched, Holders, Destroyers, Place, Goto,
              pool, client, locals, TypeInv, TypeOK
  <1>1. ASSUME Acquire(t) PROVE SlotsUntouched
    BY <1>1 DEF Acquire
  <1>2. ASSUME AcqLoad(t) PROVE SlotsUntouched
    BY <1>2 DEF AcqLoad
  <1>3. ASSUME AcqEmpty(t) PROVE SlotsUntouched
    BY <1>3 DEF AcqEmpty
  <1>4. ASSUME AcqRetry(t) PROVE SlotsUntouched
    BY <1>4 DEF AcqRetry
  <1>5. ASSUME NextLoad(t) PROVE SlotsUntouched
    BY <1>5 DEF NextLoad
  <1>6. ASSUME NextCreate(t) PROVE SlotsUntouched
    BY <1>6 DEF NextCreate
  <1>7. ASSUME NextLost(t) PROVE SlotsUntouched
    BY <1>7 DEF NextLost
  <1>8. ASSUME RelLoad(t) PROVE SlotsUntouched
    BY <1>8 DEF RelLoad
  <1>9. ASSUME RelRetry(t) PROVE SlotsUntouched
    BY <1>9 DEF RelRetry
  <1>10. SlotsUntouched
    BY <1>1, <1>2, <1>3, <1>4, <1>5, <1>6, <1>7, <1>8, <1>9 DEF QuietStep
  <1>11. Linked' = Linked
    <2>1. next' = next => Linked' = Linked
      BY LinkedSame
    <2> QED
      BY <2>1, NextCreateChain
      DEF QuietStep, Acquire, AcqLoad, AcqEmpty, AcqRetry, NextLoad,
          NextLost, RelLoad, RelRetry
  <1>12. \A n \in Linked : flag'[n] = flag[n]
    <2>1. Linked \cap heap = {}
      BY DEF ChainInv, NodesAccounted
    <2>2. ASSUME NextCreate(t) PROVE \A n \in Nodes \ heap : flag'[n] = flag[n]
      BY <2>2 DEF NextCreate
    <2>3. Linked \subseteq Nodes
      BY DEF Linked, Nodes
    <2> QED
      BY <2>1, <2>2, <2>3
      DEF QuietStep, Acquire, AcqLoad, AcqEmpty, AcqRetry, NextLoad,
          NextLost, RelLoad, RelRetry
  <1> HIDE DEF SlotsUntouched
  <1> QED
    BY <1>10, <1>11, <1>12, SlotsKept

LEMMA SlotInvStep == TypeInv /\ ChainInv /\ SlotInv /\ [Next]_vars => SlotInv'
PROOF
  <1> SUFFICES ASSUME TypeInv, ChainInv, SlotInv, [Next]_vars PROVE SlotInv'
    OBVIOUS
  <1>1. CASE UNCHANGED vars
    <2>1. SlotsUntouched /\ Linked' = Linked /\ flag' = flag
      BY <1>1, LinkedSame
      DEF vars, pool, client, locals, SlotsUntouched, Holders, Destroyers, Place
    <2> QED
      BY <2>1, SlotsKept
  <1> QED
    BY <1>1, QuietStepSlots, AcqTakeSlots, NextLinkSlots, ConstructSlots,
       DropSlots, DestroySlots, RelPutSlots
    DEF Next, AcquireStep, ReleaseStep, QuietStep

LEMMA SlotInvAlways == Spec => [](TypeInv /\ ChainInv /\ SlotInv)
PROOF
  BY ChainInvAlways, SlotInvInit, SlotInvStep, PTL DEF Spec

(* No two pointers or calls ever have the same slot.                       *)
THEOREM SlotsExclusive == Spec => []SlotExclusive
PROOF
  <1>1. SlotInv => SlotExclusive
    BY DEF SlotInv
  <1> QED
    BY <1>1, SlotInvAlways, PTL

(* In every node of the chain the free slots are those that nobody has.    *)
THEOREM SlotsConserved == Spec => []SlotsAccounted
PROOF
  <1>1. SlotInv => SlotsAccounted
    BY DEF SlotInv
  <1> QED
    BY <1>1, SlotInvAlways, PTL

(* Objects live exactly where a pointer, or a deleter about to destroy     *)
(* them, points.                                                           *)
THEOREM ObjectsLive == Spec => []ObjectLifetime
PROOF
  <1>1. SlotInv => ObjectLifetime
    BY DEF SlotInv
  <1> QED
    BY <1>1, SlotInvAlways, PTL

-------------------------------------------------------------------------------
(* The refinement.                                                         *)

Owned == [p \in Places |-> OwnersOf(p)]

LEMMA OwnersInit == Init => Promise!Init
PROOF
  <1> SUFFICES ASSUME Init PROVE Promise!Init
    OBVIOUS
  <1>1. Holders = {} /\ owned = {} /\ lost = {}
    BY DEF Init, Holders
  <1>2. \A p \in Places : OwnersOf(p) = {}
    BY <1>1 DEF OwnersOf
  <1> QED
    BY <1>2 DEF Promise!Init

(* A step that gives one slot to another owner is a step of the promise.   *)
LEMMA OneSlotMoves ==
  ASSUME NEW p \in Places, NEW o \in Threads \cup {"client", "nobody"},
         OwnersOf(p)' = {o} \/ (OwnersOf(p) # {} /\ OwnersOf(p)' = {}),
         \A q \in Places \ {p} : OwnersOf(q)' = OwnersOf(q)
  PROVE  Promise!Next
PROOF
  <1>1. Owned' = [Owned EXCEPT ![p] = OwnersOf(p)']
    BY DEF Owned
  <1>2. Owned[p] = OwnersOf(p)
    BY DEF Owned
  <1>3. CASE OwnersOf(p)' = {o}
    BY <1>1, <1>2, <1>3
    DEF Owned, Promise!Next, Promise!Acquire, Promise!Pass
  <1>4. CASE OwnersOf(p) # {} /\ OwnersOf(p)' = {}
    BY <1>1, <1>2, <1>4 DEF Owned, Promise!Next, Promise!Release
  <1> QED
    BY <1>3, <1>4

LEMMA OwnersKept ==
  ASSUME Holders' = Holders, \A u \in Holders : Place(u)' = Place(u),
         UNCHANGED <<owned, lost>>
  PROVE  UNCHANGED Owned
PROOF
  BY DEF Owned, OwnersOf

LEMMA OwnersStep ==
  TypeInv /\ ChainInv /\ SlotInv /\ [Next]_vars => [Promise!Next]_Owned
PROOF
  <1> SUFFICES ASSUME TypeInv, ChainInv, SlotInv, [Next]_vars
               PROVE  [Promise!Next]_Owned
    OBVIOUS
  <1> USE DEF TypeInv, TypeOK
  <1>1. ASSUME NEW t \in Threads, QuietStep(t) \/ NextLink(t)
        PROVE  UNCHANGED Owned
    BY <1>1, QuietStepSlots, NextLinkSlots, OwnersKept DEF SlotsUntouched
  <1>2. ASSUME NEW t \in Threads, AcqTake(t) PROVE Promise!Next
    <2>1. PICK p \in Places : Place(t)' = p /\ p \notin Taken
      BY <1>2, AcqTakeSlots
    <2>2. t \notin Holders /\ Holders' = Holders \cup {t}
      BY <1>2 DEF AcqTake, Holders, Goto
    <2>3. \A u \in Holders : Place(u)' = Place(u)
      BY <1>2, <2>2 DEF AcqTake, Place, Holders
    <2>4. UNCHANGED <<owned, lost>>
      BY <1>2 DEF AcqTake, client
    <2>5. OwnersOf(p)' = {t}
      BY <2>1, <2>2, <2>3, <2>4 DEF OwnersOf, Taken
    <2>6. \A q \in Places \ {p} : OwnersOf(q)' = OwnersOf(q)
      BY <2>1, <2>2, <2>3, <2>4 DEF OwnersOf
    <2> QED
      BY <2>1, <2>5, <2>6, OneSlotMoves
  <1>3. ASSUME NEW t \in Threads, Construct(t) \/ ConstructThrows(t)
        PROVE  Promise!Next
    <2>1. PICK p \in Places : p = Place(t)
      BY DEF Place, Places
    <2>2. t \in Holders /\ Holders' = Holders \ {t}
      BY <1>3 DEF Construct, ConstructThrows, Holders, Goto
    <2>3. \A u \in Holders : Place(u)' = Place(u)
      BY <1>3 DEF Construct, ConstructThrows, Place, locals
    <2>4. /\ Place(t) \notin owned \cup lost
          /\ \A u \in Holders \ {t} : Place(u) # Place(t)
      BY <2>2 DEF SlotInv, SlotExclusive
    <2>5. CASE Construct(t)
      <3>1. owned' = owned \cup {Place(t)} /\ lost' = lost
        BY <2>5 DEF Construct
      <3>2. OwnersOf(p)' = {"client"}
        BY <2>1, <2>2, <2>3, <2>4, <3>1 DEF OwnersOf
      <3>3. \A q \in Places \ {p} : OwnersOf(q)' = OwnersOf(q)
        BY <2>1, <2>2, <2>3, <3>1 DEF OwnersOf
      <3> QED
        BY <2>1, <3>2, <3>3, OneSlotMoves
    <2>6. CASE ConstructThrows(t)
      <3>1. owned' = owned /\ lost' = lost \cup {Place(t)}
        BY <2>6 DEF ConstructThrows
      <3>2. OwnersOf(p)' = {"nobody"}
        BY <2>1, <2>2, <2>3, <2>4, <3>1 DEF OwnersOf
      <3>3. \A q \in Places \ {p} : OwnersOf(q)' = OwnersOf(q)
        BY <2>1, <2>2, <2>3, <3>1 DEF OwnersOf
      <3> QED
        BY <2>1, <3>2, <3>3, OneSlotMoves
    <2> QED
      BY <1>3, <2>5, <2>6
  <1>4. ASSUME NEW t \in Threads, Drop(t) PROVE Promise!Next
    <2>1. PICK p \in owned : /\ owned' = owned \ {p}
                             /\ node'  = [node EXCEPT ![t] = p[1]]
                             /\ slot'  = [slot EXCEPT ![t] = p[2]]
      BY <1>4 DEF Drop
    <2>2. p \in Places /\ p \notin lost /\ lost' = lost
      BY <1>4 DEF Drop, SlotInv, OwnedNotLost
    <2>3. t \notin Holders /\ Holders' = Holders \cup {t}
      BY <1>4 DEF Drop, Holders, Goto
    <2>4. Place(t)' = p
      BY <2>1, <2>2 DEF Place, Places
    <2>5. \A u \in Holders : Place(u)' = Place(u) /\ Place(u) # p
      BY <2>1, <2>3 DEF Place, Holders, SlotInv, SlotExclusive
    <2>6. OwnersOf(p)' = {t}
      BY <2>1, <2>2, <2>3, <2>4, <2>5 DEF OwnersOf
    <2>7. \A q \in Places \ {p} : OwnersOf(q)' = OwnersOf(q)
      BY <2>1, <2>2, <2>3, <2>4, <2>5 DEF OwnersOf
    <2> QED
      BY <2>2, <2>6, <2>7, OneSlotMoves
  <1>5. ASSUME NEW t \in Threads, Destroy(t) PROVE UNCHANGED Owned
    <2>1. Holders' = Holders /\ \A u \in Holders : Place(u)' = Place(u)
      BY <1>5 DEF Destroy, Holders, Place, Goto, locals
    <2> QED
      BY <1>5, <2>1, OwnersKept DEF Destroy
  <1>6. ASSUME NEW t \in Threads, RelPut(t) PROVE Promise!Next
    <2>1. PICK p \in Places : p = Place(t)
      BY DEF Place, Places
    <2>2. t \in Holders /\ Holders' = Holders \ {t}
      BY <1>6 DEF RelPut, Holders, Goto
    <2>3. \A u \in Holders : Place(u)' = Place(u)
      BY <1>6 DEF RelPut, Place, locals
    <2>4. UNCHANGED <<owned, lost>>
      BY <1>6 DEF RelPut, client
    <2>5. /\ Place(t) \notin owned \cup lost
          /\ \A u \in Holders \ {t} : Place(u) # Place(t)
      BY <2>2 DEF SlotInv, SlotExclusive
    <2>6. OwnersOf(p) # {} /\ OwnersOf(p)' = {}
      BY <2>1, <2>2, <2>3, <2>4, <2>5 DEF OwnersOf
    <2>7. \A q \in Places \ {p} : OwnersOf(q)' = OwnersOf(q)
      BY <2>1, <2>2, <2>3, <2>4 DEF OwnersOf
    <2> QED
      BY <2>1, <2>6, <2>7, OneSlotMoves
  <1>7. CASE UNCHANGED vars
    BY <1>7, OwnersKept DEF vars, client, locals, Holders, Place
  <1> QED
    BY <1>1, <1>2, <1>3, <1>4, <1>5, <1>6, <1>7
    DEF Next, AcquireStep, ReleaseStep, QuietStep

(* The chain of segments implements the promise of a pool: at any time a   *)
(* slot has at most one owner, whatever the threads and their interleaving. *)
THEOREM PoolImplementsSlotPool == Spec => ImplementsSlotPool
PROOF
  <1>1. TypeInv /\ ChainInv /\ SlotInv /\ [Next]_vars => [Promise!Next]_Owned
    BY OwnersStep
  <1> QED
    BY <1>1, OwnersInit, SlotInvAlways, PTL
    DEF Spec, ImplementsSlotPool, Promise!Spec, Owned

-------------------------------------------------------------------------------
(* The growth of the chain. Objects and calls behind the k-th node came by *)
(* k full segments, each of which still held its objects when they came.   *)

Busy == {t \in Threads : pc[t] # "idle"}

(* The clients and their calls have no more than MaxObjects places.        *)
DemandInv ==
  /\ IsFiniteSet(owned) /\ IsFiniteSet(Busy) /\ IsFiniteSet(lost)
  /\ Demand <= MaxObjects
  /\ Cardinality(lost) <= throws

(* d numbers the nodes of the chain, from the root on.                     *)
Numbers(d) ==
  /\ d[Root] = 1
  /\ \A m, n \in Linked : d[m] = d[n] => m = n
  /\ \A n \in Linked : IF next[n] = Null THEN d[n] = Cardinality(Linked)
                                         ELSE d[next[n]] = d[n] + 1

(* A thread that has found its segment empty.                              *)
Leaving(t) == \/ pc[t] \in {"next_load", "create", "link"}
              \/ pc[t] = "acq_cas" /\ mask[t] = {}

(* The places in use and the calls behind the k-th node, those that are    *)
(* about to leave it included.                                             *)
PlacesBeyond(d, k) == {p \in owned \cup lost : d[p[1]] > k}

ThreadsBeyond(d, k) ==
  {t \in Busy : d[node[t]] > k \/ (d[node[t]] = k /\ Leaving(t))}

Beyond(d, k) == (PlacesBeyond(d, k) \X {"place"}) \cup (ThreadsBeyond(d, k) \X {"thread"})

(* With what fills the k nodes before them they are not too many.          *)
Fits(d, k) ==
  Beyond(d, k) # {} =>
    Cardinality(Beyond(d, k)) + k * NbElement <= MaxObjects + MaxThrows

GrowthInv ==
  /\ DemandInv
  /\ IsFiniteSet(Linked)
  /\ GrowthBounded
  /\ \E d \in [Linked -> 1 .. Cardinality(Linked)] :
       Numbers(d) /\ \A k \in 0 .. Cardinality(Linked) : Fits(d, k)

LEMMA Tagged ==
  ASSUME NEW A, IsFiniteSet(A), NEW x
  PROVE  IsFiniteSet(A \X {x}) /\ Cardinality(A \X {x}) = Cardinality(A)
PROOF
  <1> DEFINE B == {x}
  <1>1. IsFiniteSet(B) /\ Cardinality(B) = 1
    BY FS_Singleton
  <1>2. Cardinality(A) \in Nat
    BY FS_CardinalityType
  <1> HIDE DEF B
  <1>3. IsFiniteSet(A \X B) /\ Cardinality(A \X B) = Cardinality(A) * Cardinality(B)
    BY <1>1, FS_Product
  <1>4. Cardinality(A \X B) = Cardinality(A)
    BY <1>1, <1>2, <1>3
  <1> QED
    BY <1>3, <1>4 DEF B

LEMMA DemandInvInit == Init => DemandInv
PROOF
  <1> SUFFICES ASSUME Init PROVE DemandInv
    OBVIOUS
  <1>1. owned = {} /\ lost = {} /\ throws = 0 /\ Busy = {}
    BY DEF Init, Busy
  <1>2. Demand = 0
    BY <1>1, FS_EmptySet DEF Demand, Busy
  <1> QED
    BY <1>1, <1>2, FS_EmptySet, PoolAssumption DEF DemandInv

LEMMA DemandInvStep == TypeInv /\ DemandInv /\ [Next]_vars => DemandInv'
PROOF
  <1> SUFFICES ASSUME TypeInv, DemandInv, [Next]_vars PROVE DemandInv'
    OBVIOUS
  <1>1. /\ IsFiniteSet(owned) /\ IsFiniteSet(Busy) /\ IsFiniteSet(lost)
        /\ Cardinality(owned) \in Nat /\ Cardinality(Busy) \in Nat /\ Cardinality(lost) \in Nat
        /\ Demand = Cardinality(owned) + Cardinality(Busy)
        /\ Demand <= MaxObjects /\ Cardinality(lost) <= throws
        /\ throws \in Nat /\ MaxObjects \in Nat
    BY FS_CardinalityType, PoolAssumption DEF DemandInv, Demand, Busy, TypeInv, TypeOK
  <1>2. Demand' = Cardinality(owned') + Cardinality(Busy')
    BY DEF Demand, Busy
  <1>3. pc \in [Threads -> {"idle"} \cup AcquirePcs \cup ReleasePcs]
    BY DEF TypeInv, TypeOK
  <1>4. ASSUME Busy' = Busy, UNCHANGED <<owned, lost, throws>> PROVE DemandInv'
    BY <1>1, <1>2, <1>4 DEF DemandInv
  <1> USE <1>1, <1>3 DEF AcquirePcs, ReleasePcs, Goto, pool, client, locals
  <1>5. ASSUME NEW t \in Threads, Acquire(t) PROVE DemandInv'
    <2>1. Busy' = Busy \cup {t} /\ t \notin Busy /\ UNCHANGED <<owned, lost, throws>>
      BY <1>5 DEF Acquire, Busy
    <2>2. IsFiniteSet(Busy') /\ Cardinality(Busy') = Cardinality(Busy) + 1
      BY <2>1, FS_AddElement
    <2> QED
      BY <1>2, <1>5, <2>1, <2>2 DEF Acquire, DemandInv
  <1>6. ASSUME NEW t \in Threads, Construct(t) PROVE DemandInv'
    <2>1. /\ Busy' = Busy \ {t} /\ t \in Busy /\ owned' = owned \cup {Place(t)}
          /\ UNCHANGED <<lost, throws>>
      BY <1>6 DEF Construct, Busy
    <2>2. IsFiniteSet(Busy') /\ Cardinality(Busy') = Cardinality(Busy) - 1
      BY <2>1, FS_RemoveElement
    <2> DEFINE x == Place(t)
    <2> HIDE DEF x
    <2>3. /\ IsFiniteSet(owned \cup {x})
          /\ Cardinality(owned \cup {x})
               = IF x \in owned THEN Cardinality(owned) ELSE Cardinality(owned) + 1
      BY FS_AddElement
    <2>4. owned' = owned \cup {x}
      BY <2>1 DEF x
    <2>5. /\ IsFiniteSet(owned') /\ Cardinality(owned') \in Nat
          /\ Cardinality(owned') <= Cardinality(owned) + 1
      BY <2>3, <2>4
    <2> QED
      BY <1>2, <2>1, <2>2, <2>5 DEF DemandInv
  <1>7. ASSUME NEW t \in Threads, ConstructThrows(t) PROVE DemandInv'
    <2>1. /\ Busy' = Busy \ {t} /\ t \in Busy /\ lost' = lost \cup {Place(t)}
          /\ owned' = owned /\ throws' = throws + 1
      BY <1>7 DEF ConstructThrows, Busy
    <2>2. IsFiniteSet(Busy') /\ Cardinality(Busy') = Cardinality(Busy) - 1
      BY <2>1, FS_RemoveElement
    <2> DEFINE x == Place(t)
    <2> HIDE DEF x
    <2>3. /\ IsFiniteSet(lost \cup {x})
          /\ Cardinality(lost \cup {x})
               = IF x \in lost THEN Cardinality(lost) ELSE Cardinality(lost) + 1
      BY FS_AddElement
    <2>4. lost' = lost \cup {x}
      BY <2>1 DEF x
    <2>5. /\ IsFiniteSet(lost') /\ Cardinality(lost') \in Nat
          /\ Cardinality(lost') <= Cardinality(lost) + 1
      BY <2>3, <2>4
    <2> QED
      BY <1>2, <2>1, <2>2, <2>5 DEF DemandInv
  <1>8. ASSUME NEW t \in Threads, Drop(t) PROVE DemandInv'
    <2>1. PICK p \in owned : owned' = owned \ {p}
      BY <1>8 DEF Drop
    <2>2. Busy' = Busy \cup {t} /\ t \notin Busy /\ UNCHANGED <<lost, throws>>
      BY <1>8 DEF Drop, Busy
    <2>3. IsFiniteSet(Busy') /\ Cardinality(Busy') = Cardinality(Busy) + 1
      BY <2>2, FS_AddElement
    <2>4. IsFiniteSet(owned') /\ Cardinality(owned') = Cardinality(owned) - 1
      BY <2>1, FS_RemoveElement
    <2> QED
      BY <1>2, <2>2, <2>3, <2>4 DEF DemandInv
  <1>9. ASSUME NEW t \in Threads, RelPut(t) PROVE DemandInv'
    <2>1. Busy' = Busy \ {t} /\ t \in Busy /\ UNCHANGED <<owned, lost, throws>>
      BY <1>9 DEF RelPut, Busy
    <2>2. IsFiniteSet(Busy') /\ Cardinality(Busy') = Cardinality(Busy) - 1
      BY <2>1, FS_RemoveElement
    <2> QED
      BY <1>2, <2>1, <2>2 DEF DemandInv
  <1>10. ASSUME NEW t \in Threads,
                \/ AcqLoad(t) \/ AcqEmpty(t) \/ AcqTake(t) \/ AcqRetry(t) \/ NextLoad(t)
                \/ NextCreate(t) \/ NextLink(t) \/ NextLost(t)
                \/ Destroy(t) \/ RelLoad(t) \/ RelRetry(t)
         PROVE  DemandInv'
    <2>1. Busy' = Busy /\ UNCHANGED <<owned, lost, throws>>
      BY <1>10
      DEF AcqLoad, AcqEmpty, AcqTake, AcqRetry, NextLoad, NextCreate, NextLink, NextLost,
          Destroy, RelLoad, RelRetry, Busy
    <2> QED
      BY <1>4, <2>1
  <1>11. CASE UNCHANGED vars
    BY <1>4, <1>11 DEF vars, Busy
  <1> QED
    BY <1>5, <1>6, <1>7, <1>8, <1>9, <1>10, <1>11 DEF Next, AcquireStep, ReleaseStep

(* What is behind the k-th node is finite, and less than everything.       *)
LEMMA BeyondFinite ==
  ASSUME DemandInv, NEW d, NEW k
  PROVE  /\ IsFiniteSet(Beyond(d, k)) /\ Cardinality(Beyond(d, k)) \in Nat
         /\ Cardinality(Beyond(d, k))
              <= Cardinality(owned) + Cardinality(lost) + Cardinality(Busy)
PROOF
  <1> DEFINE P == PlacesBeyond(d, k)
             T == ThreadsBeyond(d, k)
             PP == P \X {"place"}
             TT == T \X {"thread"}
  <1>1. /\ IsFiniteSet(owned) /\ IsFiniteSet(lost) /\ IsFiniteSet(Busy)
        /\ Cardinality(owned) \in Nat /\ Cardinality(lost) \in Nat /\ Cardinality(Busy) \in Nat
    BY FS_CardinalityType DEF DemandInv
  <1>2. /\ IsFiniteSet(owned \cup lost)
        /\ Cardinality(owned \cup lost) <= Cardinality(owned) + Cardinality(lost)
        /\ Cardinality(owned \cup lost) \in Nat
    <2>1. /\ IsFiniteSet(owned \cap lost) /\ Cardinality(owned \cap lost) \in Nat
      BY <1>1, FS_Intersection, FS_CardinalityType
    <2>2. /\ IsFiniteSet(owned \cup lost)
          /\ Cardinality(owned \cup lost)
               = Cardinality(owned) + Cardinality(lost) - Cardinality(owned \cap lost)
      BY <1>1, FS_Union
    <2> QED
      BY <1>1, <2>1, <2>2, FS_CardinalityType
  <1>3. P \in SUBSET (owned \cup lost) /\ T \in SUBSET Busy
    BY DEF PlacesBeyond, ThreadsBeyond
  <1> HIDE DEF P, T
  <1>4. /\ IsFiniteSet(P) /\ Cardinality(P) <= Cardinality(owned) + Cardinality(lost)
        /\ IsFiniteSet(T) /\ Cardinality(T) <= Cardinality(Busy)
        /\ Cardinality(P) \in Nat /\ Cardinality(T) \in Nat
    <2>1. IsFiniteSet(P) /\ Cardinality(P) <= Cardinality(owned \cup lost)
      BY <1>2, <1>3, FS_Subset
    <2>2. IsFiniteSet(T) /\ Cardinality(T) <= Cardinality(Busy)
      BY <1>1, <1>3, FS_Subset
    <2>3. Cardinality(P) \in Nat /\ Cardinality(T) \in Nat
      BY <2>1, <2>2, FS_CardinalityType
    <2> QED
      BY <1>1, <1>2, <2>1, <2>2, <2>3
  <1>5. /\ IsFiniteSet(PP) /\ Cardinality(PP) = Cardinality(P)
        /\ IsFiniteSet(TT) /\ Cardinality(TT) = Cardinality(T)
    BY <1>4, Tagged
  <1>6. Beyond(d, k) = PP \cup TT
    BY DEF Beyond, P, T
  <1> HIDE DEF PP, TT
  <1>7. /\ IsFiniteSet(PP \cup TT)
        /\ Cardinality(PP \cup TT) = Cardinality(PP) + Cardinality(TT) - Cardinality(PP \cap TT)
    BY <1>5, FS_Union
  <1>8. IsFiniteSet(PP \cap TT) /\ Cardinality(PP \cap TT) \in Nat
    BY <1>5, FS_Intersection, FS_CardinalityType
  <1>9. Cardinality(PP \cup TT) \in Nat
    BY <1>7, FS_CardinalityType
  <1> QED
    BY <1>1, <1>4, <1>5, <1>6, <1>7, <1>8, <1>9

(* Before the first node is all that the clients ask for and throws lost.  *)
LEMMA FirstFits ==
  ASSUME TypeInv, DemandInv, NEW d
  PROVE  Fits(d, 0)
PROOF
  <1>1. /\ Cardinality(owned) \in Nat /\ Cardinality(lost) \in Nat /\ Cardinality(Busy) \in Nat
        /\ Demand = Cardinality(owned) + Cardinality(Busy)
        /\ Demand <= MaxObjects /\ Cardinality(lost) <= throws
        /\ throws <= MaxThrows /\ throws \in Nat
    BY FS_CardinalityType, PoolAssumption DEF DemandInv, Demand, Busy, TypeInv, TypeOK
  <1>2. /\ Cardinality(Beyond(d, 0)) \in Nat
        /\ Cardinality(Beyond(d, 0))
             <= Cardinality(owned) + Cardinality(lost) + Cardinality(Busy)
    BY BeyondFinite
  <1>3. 0 * NbElement = 0
    BY PoolAssumption
  <1> QED
    BY <1>1, <1>2, <1>3, PoolAssumption DEF Fits

(* Whoever finds the k-th segment empty leaves its objects behind.         *)
LEMMA PassBy ==
  ASSUME TypeInv, ChainInv, SlotInv, DemandInv,
         NEW d \in [Linked -> Nat \ {0}], NEW t \in Busy, ~Leaving(t), t \notin Holders,
         flag[node[t]] = {}
  PROVE  LET k == d[node[t]]
         IN  Cardinality(Beyond(d, k)) + NbElement + 1 <= Cardinality(Beyond(d, k - 1))
PROOF
  <1> DEFINE n  == node[t]
             k  == d[n]
             B0 == Beyond(d, k)
             B1 == Beyond(d, k - 1)
             x  == <<t, "thread">>
             Who(s)  == CHOOSE u \in Holders : Place(u) = <<n, s>>
             Unit(s) == IF <<n, s>> \in owned \cup lost THEN <<<<n, s>>, "place">>
                        ELSE <<Who(s), "thread">>
             f  == [s \in Slots |-> Unit(s)]
             R  == B1 \ (B0 \cup {x})
  <1>1. t \in Threads /\ n \in Linked /\ k \in Nat /\ k > 0 /\ k - 1 \in Nat
    BY DEF Busy, ChainInv, InChain
  <1>2. \A p \in owned \cup lost : p = <<p[1], p[2]>> /\ p[1] \in Linked /\ d[p[1]] \in Nat
    BY DEF ChainInv, InChain
  <1>3. \A u \in Threads : node[u] \in Linked /\ d[node[u]] \in Nat
    BY DEF ChainInv, InChain
  <1>4. B0 \subseteq B1
    <2> HIDE DEF k
    <2>1. PlacesBeyond(d, k) \subseteq PlacesBeyond(d, k - 1)
      BY <1>1, <1>2 DEF PlacesBeyond
    <2>2. ThreadsBeyond(d, k) \subseteq ThreadsBeyond(d, k - 1)
      BY <1>1, <1>3 DEF ThreadsBeyond, Busy
    <2> QED
      BY <2>1, <2>2 DEF Beyond
  <1>5. x \in B1 /\ x \notin B0
    <2>1. t \in ThreadsBeyond(d, k - 1) /\ t \notin ThreadsBeyond(d, k)
      BY <1>1 DEF ThreadsBeyond
    <2> QED
      BY <2>1 DEF Beyond
  <1>6. ASSUME NEW s \in Slots
        PROVE  Unit(s) \in R
    <2>1. CASE <<n, s>> \in owned \cup lost
      <3>1. <<n, s>> \in PlacesBeyond(d, k - 1) /\ <<n, s>> \notin PlacesBeyond(d, k)
        BY <1>1, <2>1 DEF PlacesBeyond
      <3>2. "place" # "thread"
        OBVIOUS
      <3> QED
        BY <2>1, <3>1, <3>2 DEF Beyond
    <2>2. CASE <<n, s>> \notin owned \cup lost
      <3> DEFINE u == Who(s)
      <3>1. <<n, s>> \in Taken
        BY <1>1 DEF SlotInv, SlotsAccounted
      <3>2. u \in Holders /\ Place(u) = <<n, s>>
        BY <2>2, <3>1 DEF Taken
      <3>3. Unit(s) = <<u, "thread">>
        BY <2>2
      <3> HIDE DEF u
      <3>4. u \in Busy /\ node[u] = n /\ ~Leaving(u) /\ u # t
        BY <3>2 DEF Holders, Busy, Place, Leaving
      <3>5. u \in ThreadsBeyond(d, k - 1) /\ u \notin ThreadsBeyond(d, k)
        BY <1>1, <3>4 DEF ThreadsBeyond
      <3>6. <<u, "thread">> \in B1 /\ <<u, "thread">> \notin B0 \cup {x}
        BY <3>4, <3>5 DEF Beyond
      <3> QED
        BY <3>3, <3>6
    <2> QED
      BY <2>1, <2>2
  <1>7. ASSUME NEW r \in Slots, NEW s \in Slots, Unit(r) = Unit(s)
        PROVE  r = s
    <2>1. \A w \in Slots : <<n, w>> \in Taken
      BY <1>1 DEF SlotInv, SlotsAccounted
    <2>2. ASSUME NEW w \in Slots, <<n, w>> \notin owned \cup lost
          PROVE  Place(Who(w)) = <<n, w>>
      BY <2>1, <2>2 DEF Taken
    <2>3. CASE <<n, r>> \in owned \cup lost /\ <<n, s>> \in owned \cup lost
      BY <1>7, <2>3
    <2>4. CASE <<n, r>> \in owned \cup lost /\ <<n, s>> \notin owned \cup lost
      BY <1>7, <2>4
    <2>5. CASE <<n, r>> \notin owned \cup lost /\ <<n, s>> \in owned \cup lost
      BY <1>7, <2>5
    <2>6. CASE <<n, r>> \notin owned \cup lost /\ <<n, s>> \notin owned \cup lost
      <3>1. Unit(r)[1] = Who(r) /\ Unit(s)[1] = Who(s)
        BY <2>6
      <3>2. Place(Who(r)) = <<n, r>> /\ Place(Who(s)) = <<n, s>>
        BY <2>2, <2>6
      <3> HIDE DEF Who, Unit
      <3>3. Who(r) = Who(s)
        BY <1>7, <3>1
      <3> QED
        BY <3>2, <3>3
    <2> QED
      BY <2>3, <2>4, <2>5, <2>6
  <1>8. /\ IsFiniteSet(B0) /\ Cardinality(B0) \in Nat
        /\ IsFiniteSet(B1) /\ Cardinality(B1) \in Nat
    BY BeyondFinite
  <1> HIDE DEF Unit
  <1>9. f \in [Slots -> R] /\ \A r, s \in Slots : f[r] = f[s] => r = s
    BY <1>6, <1>7
  <1> HIDE DEF f, B0, B1, x
  <1>10. f \in Injection(Slots, R)
    BY <1>9 DEF Injection, IsInjective
  <1>11. /\ IsFiniteSet(B0 \cup {x}) /\ Cardinality(B0 \cup {x}) = Cardinality(B0) + 1
         /\ B0 \cup {x} \subseteq B1
    BY <1>4, <1>5, <1>8, FS_AddElement
  <1>12. IsFiniteSet(R) /\ Cardinality(R) = Cardinality(B1) - (Cardinality(B0) + 1)
    <2> DEFINE M == B0 \cup {x}
    <2>1. B1 \cap M = M /\ Cardinality(M) = Cardinality(B0) + 1
      BY <1>11
    <2> HIDE DEF M
    <2>2. IsFiniteSet(B1 \ M) /\ Cardinality(B1 \ M) = Cardinality(B1) - Cardinality(B1 \cap M)
      BY <1>8, FS_Difference
    <2> QED
      BY <2>1, <2>2 DEF M
  <1>13. Cardinality(Slots) = NbElement
    BY PoolAssumption, FS_Interval DEF Slots
  <1> HIDE DEF R
  <1>14. Cardinality(Slots) <= Cardinality(R)
    BY <1>10, <1>12, FS_Injection
  <1>15. Cardinality(B0) + NbElement + 1 <= Cardinality(B1)
    BY <1>8, <1>12, <1>13, <1>14, PoolAssumption
  <1> QED
    BY <1>15 DEF B0, B1

(* Fewer units, or another one instead of the one that leaves.             *)
LEMMA FewerFit ==
  ASSUME DemandInv, NEW d, NEW k \in Nat, Fits(d, k),
         NEW e, Beyond(e, k)' \subseteq Beyond(d, k)
  PROVE  Fits(e, k)'
PROOF
  <1> DEFINE B == Beyond(d, k)
             C == Beyond(e, k)'
  <1>1. IsFiniteSet(B) /\ Cardinality(B) \in Nat
    BY BeyondFinite
  <1>2. (C # {} => B # {}) /\ C \in SUBSET B
    OBVIOUS
  <1>3. (C # {} => Cardinality(C) + k * NbElement <= MaxObjects + MaxThrows) => Fits(e, k)'
    BY DEF Fits
  <1>4. B # {} => Cardinality(B) + k * NbElement <= MaxObjects + MaxThrows
    BY DEF Fits
  <1> HIDE DEF B, C
  <1>5. Cardinality(C) \in Nat /\ Cardinality(C) <= Cardinality(B)
    BY <1>1, <1>2, FS_Subset, FS_CardinalityType
  <1> DEFINE q == k * NbElement
  <1>6. q \in Nat /\ MaxObjects + MaxThrows \in Nat
    BY PoolAssumption
  <1> HIDE DEF q
  <1>7. C # {} => Cardinality(C) + q <= MaxObjects + MaxThrows
    BY <1>1, <1>2, <1>4, <1>5, <1>6 DEF q
  <1> QED
    BY <1>3, <1>7 DEF q

LEMMA SwappedFit ==
  ASSUME DemandInv, NEW d, NEW k \in Nat, Fits(d, k), NEW x, NEW y,
         x \in Beyond(d, k) \/ Beyond(d, k)' \subseteq Beyond(d, k),
         Beyond(d, k)' \subseteq (Beyond(d, k) \ {x}) \cup {y}
  PROVE  Fits(d, k)'
PROOF
  <1> DEFINE B == Beyond(d, k)
             C == Beyond(d, k)'
  <1>1. IsFiniteSet(B) /\ Cardinality(B) \in Nat
    BY BeyondFinite
  <1>2. CASE C \subseteq B
    BY <1>2, FewerFit
  <1>3. CASE x \in B
    <2>1. Cardinality(C) + k * NbElement <= MaxObjects + MaxThrows => Fits(d, k)'
      BY DEF Fits
    <2>2. Cardinality(B) + k * NbElement <= MaxObjects + MaxThrows
      BY <1>3 DEF Fits
    <2>3. C \in SUBSET ((B \ {x}) \cup {y})
      OBVIOUS
    <2> HIDE DEF B, C
    <2>4. IsFiniteSet(B \ {x}) /\ Cardinality(B \ {x}) = Cardinality(B) - 1
      BY <1>1, <1>3, FS_RemoveElement
    <2>5. /\ IsFiniteSet((B \ {x}) \cup {y})
          /\ Cardinality((B \ {x}) \cup {y}) <= Cardinality(B)
      <3> DEFINE W == B \ {x}
      <3>1. IsFiniteSet(W) /\ Cardinality(W) = Cardinality(B) - 1
        BY <2>4
      <3> HIDE DEF W
      <3>2. /\ IsFiniteSet(W \cup {y})
            /\ Cardinality(W \cup {y}) = IF y \in W THEN Cardinality(W) ELSE Cardinality(W) + 1
        BY <3>1, FS_AddElement
      <3>3. Cardinality(W \cup {y}) <= Cardinality(B)
        BY <1>1, <3>1, <3>2
      <3> QED
        BY <3>2, <3>3 DEF W
    <2>6. Cardinality(C) <= Cardinality((B \ {x}) \cup {y}) /\ Cardinality(C) \in Nat
      BY <2>3, <2>5, FS_Subset, FS_CardinalityType
    <2>7. Cardinality((B \ {x}) \cup {y}) \in Nat
      BY <2>5, FS_CardinalityType
    <2> DEFINE q == k * NbElement
    <2>8. q \in Nat /\ MaxObjects + MaxThrows \in Nat
      BY PoolAssumption
    <2> HIDE DEF q
    <2>9. Cardinality(C) + q <= MaxObjects + MaxThrows
      BY <1>1, <2>2, <2>5, <2>6, <2>7, <2>8 DEF q
    <2> QED
      BY <2>1, <2>9 DEF q
  <1> QED
    BY <1>2, <1>3

LEMMA FirstFitsAfter ==
  ASSUME NEW d PROVE TypeInv' /\ DemandInv' => Fits(d, 0)'
PROOF
  <1>1. TypeInv /\ DemandInv => Fits(d, 0)
    BY FirstFits
  <1> QED
    BY <1>1, PTL

LEMMA OthersStay ==
  ASSUME TypeInv, NEW t \in Threads,
         Acquire(t) \/ AcquireStep(t) \/ Drop(t) \/ ReleaseStep(t)
  PROVE  \A u \in Threads \ {t} : /\ pc'[u] = pc[u] /\ node'[u] = node[u]
                                  /\ mask'[u] = mask[u]
PROOF
  BY DEF TypeInv, TypeOK, AcquireStep, ReleaseStep, Acquire, AcqLoad, AcqEmpty, AcqTake,
         AcqRetry, NextLoad, NextCreate, NextLink, NextLost, Construct, ConstructThrows, Drop,
         Destroy, RelLoad, RelPut, RelRetry, Goto, pool, client, locals

(* Of one thread's step no other unit takes notice.                        *)
LEMMA BeyondOfStep ==
  ASSUME TypeInv, NEW t \in Threads, NEW d, NEW e, NEW k, NEW X,
         \A u \in Threads \ {t} : /\ pc'[u] = pc[u] /\ node'[u] = node[u]
                                  /\ mask'[u] = mask[u] /\ e[node[u]] = d[node[u]],
         \A p \in (owned \cup lost)' :
            e[p[1]] > k => <<p, "place">> \in X \/ (p \in owned \cup lost /\ e[p[1]] = d[p[1]]),
         t \in ThreadsBeyond(e, k)' => <<t, "thread">> \in X \/ t \in ThreadsBeyond(d, k)
  PROVE  Beyond(e, k)' \subseteq Beyond(d, k) \cup X
PROOF
  <1>1. ASSUME NEW p \in PlacesBeyond(e, k)'
        PROVE  <<p, "place">> \in Beyond(d, k) \cup X
    BY <1>1 DEF PlacesBeyond, Beyond
  <1>2. ASSUME NEW u \in ThreadsBeyond(e, k)'
        PROVE  <<u, "thread">> \in Beyond(d, k) \cup X
    <2>1. CASE u = t
      BY <1>2, <2>1 DEF Beyond
    <2>2. CASE u # t
      <3>1. u \in Threads
        BY <1>2 DEF ThreadsBeyond, Busy
      <3>2. pc'[u] = pc[u] /\ node'[u] = node[u] /\ mask'[u] = mask[u] /\ e[node[u]] = d[node[u]]
        BY <2>2, <3>1
      <3>3. u \in ThreadsBeyond(d, k)
        BY <1>2, <3>1, <3>2 DEF ThreadsBeyond, Busy, Leaving
      <3> QED
        BY <3>3 DEF Beyond
    <2> QED
      BY <2>1, <2>2
  <1>3. Beyond(e, k)' = (PlacesBeyond(e, k)' \X {"place"}) \cup (ThreadsBeyond(e, k)' \X {"thread"})
    BY DEF Beyond
  <1> QED
    BY <1>1, <1>2, <1>3

(* A step that keeps the chain keeps the numbers of its nodes.             *)
LEMMA GrowthKept ==
  ASSUME TypeInv', DemandInv', GrowthInv, Linked' = Linked,
         \A n \in Linked : next'[n] = next[n],
         \A d \in [Linked -> 1 .. Cardinality(Linked)] :
           Numbers(d) /\ (\A k \in 0 .. Cardinality(Linked) : Fits(d, k)) =>
             \A k \in 1 .. Cardinality(Linked) : Fits(d, k)'
  PROVE  GrowthInv'
PROOF
  <1>1. PICK d \in [Linked -> 1 .. Cardinality(Linked)] :
          Numbers(d) /\ \A k \in 0 .. Cardinality(Linked) : Fits(d, k)
    BY DEF GrowthInv
  <1>2. Numbers(d)'
    BY <1>1 DEF Numbers
  <1>3. Fits(d, 0)'
    BY FirstFitsAfter
  <1>4. Cardinality(Linked) \in Nat
    BY FS_CardinalityType DEF GrowthInv
  <1>5. \A k \in 0 .. Cardinality(Linked) : Fits(d, k)'
    <2>1. \A k \in 1 .. Cardinality(Linked) : Fits(d, k)'
      BY <1>1
    <2>2. \A k \in 0 .. Cardinality(Linked) : k = 0 \/ k \in 1 .. Cardinality(Linked)
      BY <1>4
    <2> QED
      BY <1>3, <2>1, <2>2
  <1>6. GrowthBounded'
    BY DEF GrowthInv, GrowthBounded
  <1>7. IsFiniteSet(Linked')
    BY DEF GrowthInv
  <1>8. \A k \in 0 .. Cardinality(Linked') : Fits(d, k)'
    BY <1>5
  <1>9. d \in [Linked' -> 1 .. Cardinality(Linked')]
    BY <1>1
  <1> QED
    BY <1>2, <1>6, <1>7, <1>8, <1>9 DEF GrowthInv

(* A step that takes nobody behind a node that was not there before.       *)
LEMMA QuietGrowth ==
  ASSUME TypeInv, TypeInv', DemandInv', GrowthInv, ChainInv, Linked' = Linked,
         \A n \in Linked : next'[n] = next[n],
         NEW t \in Threads, Acquire(t) \/ AcquireStep(t) \/ Drop(t) \/ ReleaseStep(t),
         (owned \cup lost)' \subseteq owned \cup lost,
         \A d \in [Linked -> Nat \ {0}], k \in Nat \ {0} :
           Numbers(d) /\ t \in ThreadsBeyond(d, k)' => t \in ThreadsBeyond(d, k)
  PROVE  GrowthInv'
PROOF
  <1> SUFFICES ASSUME NEW d \in [Linked -> 1 .. Cardinality(Linked)], Numbers(d),
                      \A k \in 0 .. Cardinality(Linked) : Fits(d, k),
                      NEW k \in 1 .. Cardinality(Linked)
               PROVE  Fits(d, k)'
    BY GrowthKept
  <1>1. DemandInv /\ Cardinality(Linked) \in Nat
    BY FS_CardinalityType DEF GrowthInv
  <1>2. k \in Nat \ {0} /\ Fits(d, k) /\ d \in [Linked -> Nat \ {0}]
    BY <1>1
  <1>3. t \in ThreadsBeyond(d, k)' => t \in ThreadsBeyond(d, k)
    BY <1>2
  <1>4. \A u \in Threads \ {t} : /\ pc'[u] = pc[u] /\ node'[u] = node[u]
                                 /\ mask'[u] = mask[u]
    BY OthersStay
  <1>5. Beyond(d, k)' \subseteq Beyond(d, k) \cup {}
    BY <1>3, <1>4, BeyondOfStep
  <1> QED
    BY <1>1, <1>2, <1>5, FewerFit

(* The load of a flag may take its thread behind a node: a full one.       *)
LEMMA LoadGrowth ==
  ASSUME TypeInv, TypeInv', DemandInv', GrowthInv, ChainInv, SlotInv,
         NEW t \in Threads, AcqLoad(t) \/ AcqRetry(t)
  PROVE  GrowthInv'
PROOF
  <1>1. /\ UNCHANGED <<next, owned, lost, node>> /\ Linked' = Linked
        /\ pc[t] \in {"acq_load", "acq_cas"} /\ pc'[t] = "acq_cas"
        /\ mask'[t] = flag[node[t]]
        /\ ~Leaving(t) /\ t \in Busy /\ t \notin Holders
    BY LinkedSame
    DEF AcqLoad, AcqRetry, pool, client, Goto, TypeInv, TypeOK, Leaving, Busy, Holders
  <1>2. node[t] \in Linked
    BY DEF ChainInv, InChain
  <1>3. \A u \in Threads \ {t} : /\ pc'[u] = pc[u] /\ node'[u] = node[u]
                                 /\ mask'[u] = mask[u]
    BY OthersStay DEF AcquireStep
  <1> SUFFICES ASSUME NEW d \in [Linked -> 1 .. Cardinality(Linked)], Numbers(d),
                      \A k \in 0 .. Cardinality(Linked) : Fits(d, k),
                      NEW k \in 1 .. Cardinality(Linked)
               PROVE  Fits(d, k)'
    BY <1>1, GrowthKept
  <1>4. DemandInv /\ Cardinality(Linked) \in Nat
    BY FS_CardinalityType DEF GrowthInv
  <1>5. /\ k \in Nat /\ k > 0 /\ Fits(d, k) /\ Fits(d, k - 1) /\ d \in [Linked -> Nat \ {0}]
        /\ d[node[t]] \in Nat
    BY <1>2, <1>4
  <1>6. CASE d[node[t]] = k /\ flag[node[t]] = {}
    <2> DEFINE B0 == Beyond(d, k)
               B1 == Beyond(d, k - 1)
               x  == <<t, "thread">>
               C  == Beyond(d, k)'
    <2>1. Cardinality(B0) + NbElement + 1 <= Cardinality(B1)
      BY <1>1, <1>4, <1>5, <1>6, PassBy
    <2>2. /\ IsFiniteSet(B0) /\ Cardinality(B0) \in Nat
          /\ IsFiniteSet(B1) /\ Cardinality(B1) \in Nat
      BY <1>4, BeyondFinite
    <2>3. B1 # {}
      BY <2>1, <2>2, FS_EmptySet, PoolAssumption
    <2>4. Cardinality(B1) + (k - 1) * NbElement <= MaxObjects + MaxThrows
      BY <1>5, <2>3 DEF Fits
    <2>5. C \subseteq B0 \cup {x}
      BY <1>1, <1>3, BeyondOfStep
    <2>6. Cardinality(C) + k * NbElement <= MaxObjects + MaxThrows => Fits(d, k)'
      BY DEF Fits
    <2> HIDE DEF B0, B1, x, C
    <2>7. IsFiniteSet(B0 \cup {x}) /\ Cardinality(B0 \cup {x}) <= Cardinality(B0) + 1
      <3>1. /\ IsFiniteSet(B0 \cup {x})
            /\ Cardinality(B0 \cup {x}) = IF x \in B0 THEN Cardinality(B0) ELSE Cardinality(B0) + 1
        BY <2>2, FS_AddElement
      <3> QED
        BY <2>2, <3>1
    <2>8. Cardinality(C) <= Cardinality(B0 \cup {x}) /\ Cardinality(C) \in Nat
      BY <2>5, <2>7, FS_Subset, FS_CardinalityType
    <2>9. Cardinality(B0 \cup {x}) \in Nat
      BY <2>7, FS_CardinalityType
    <2> DEFINE q == (k - 1) * NbElement
    <2>10. k * NbElement = q + NbElement /\ q \in Nat
      BY <1>5, PoolAssumption
    <2> HIDE DEF q
    <2>11. Cardinality(B1) + q <= MaxObjects + MaxThrows
      BY <2>4 DEF q
    <2>12. Cardinality(C) + (q + NbElement) <= MaxObjects + MaxThrows
      BY <2>1, <2>2, <2>7, <2>8, <2>9, <2>10, <2>11, PoolAssumption
    <2> QED
      BY <2>6, <2>10, <2>12
  <1>7. CASE ~ (d[node[t]] = k /\ flag[node[t]] = {})
    <2>1. t \in ThreadsBeyond(d, k)' => t \in ThreadsBeyond(d, k)
      BY <1>1, <1>7 DEF ThreadsBeyond, Leaving
    <2>2. Beyond(d, k)' \subseteq Beyond(d, k) \cup {}
      BY <1>1, <1>3, <2>1, BeyondOfStep
    <2> QED
      BY <1>4, <1>5, <2>2, FewerFit
  <1> QED
    BY <1>6, <1>7

(* A call hands its place over to a client or the other way round.         *)
LEMMA HandGrowth ==
  ASSUME TypeInv, TypeInv', DemandInv', GrowthInv, ChainInv, SlotInv,
         NEW t \in Threads, Construct(t) \/ ConstructThrows(t) \/ Drop(t)
  PROVE  GrowthInv'
PROOF
  <1>1. next' = next /\ Linked' = Linked
    BY LinkedSame DEF Construct, ConstructThrows, Drop, pool
  <1>2. /\ \A u \in Threads \ {t} : /\ pc'[u] = pc[u] /\ node'[u] = node[u]
                                    /\ mask'[u] = mask[u]
        /\ node[t] \in Linked
    BY OthersStay DEF AcquireStep, ChainInv, InChain
  <1> SUFFICES ASSUME NEW d \in [Linked -> 1 .. Cardinality(Linked)], Numbers(d),
                      \A k \in 0 .. Cardinality(Linked) : Fits(d, k),
                      NEW k \in 1 .. Cardinality(Linked)
               PROVE  Fits(d, k)'
    BY <1>1, GrowthKept
  <1>3. DemandInv /\ Cardinality(Linked) \in Nat
    BY FS_CardinalityType DEF GrowthInv
  <1>4. k \in Nat /\ k > 0 /\ Fits(d, k)
    BY <1>3
  <1>5. CASE Construct(t) \/ ConstructThrows(t)
    <2> DEFINE x == <<t, "thread">>
               y == <<Place(t), "place">>
    <2>1. /\ pc[t] = "construct" /\ pc'[t] = "idle" /\ t \in Busy /\ t \notin Busy'
          /\ (owned \cup lost)' = owned \cup lost \cup {Place(t)}
          /\ ~Leaving(t)
      BY <1>5 DEF Construct, ConstructThrows, Goto, TypeInv, TypeOK, Busy, Leaving
    <2>2. t \notin ThreadsBeyond(d, k)'
      BY <2>1 DEF ThreadsBeyond
    <2>3. Beyond(d, k)' \subseteq Beyond(d, k) \cup {y}
      <3>1. \A p \in (owned \cup lost)' : <<p, "place">> \in {y} \/ p \in owned \cup lost
        BY <2>1
      <3> HIDE DEF y
      <3> QED
        BY <1>2, <2>2, <3>1, BeyondOfStep
    <2>4. x \notin Beyond(d, k)'
      BY <2>2 DEF Beyond
    <2>5. CASE d[node[t]] > k
      <3>1. x \in Beyond(d, k)
        BY <2>1, <2>5 DEF ThreadsBeyond, Beyond
      <3>2. Beyond(d, k)' \subseteq (Beyond(d, k) \ {x}) \cup {y}
        BY <2>3, <2>4
      <3> QED
        BY <1>3, <1>4, <3>1, <3>2, SwappedFit
    <2>6. CASE ~ (d[node[t]] > k)
      <3>1. Place(t)[1] = node[t]
        BY DEF Place
      <3>2. y \notin Beyond(d, k)'
        BY <2>6, <3>1 DEF Beyond, PlacesBeyond
      <3>3. Beyond(d, k)' \subseteq Beyond(d, k)
        BY <2>3, <3>2
      <3> QED
        BY <1>3, <1>4, <3>3, FewerFit
    <2> QED
      BY <2>5, <2>6
  <1>6. CASE Drop(t)
    <2>1. PICK p \in owned : owned' = owned \ {p} /\ node' = [node EXCEPT ![t] = p[1]]
      BY <1>6 DEF Drop
    <2> DEFINE x == <<p, "place">>
               y == <<t, "thread">>
    <2>2. /\ lost' = lost /\ pc'[t] = "destroy" /\ node'[t] = p[1]
          /\ (owned \cup lost)' \subseteq owned \cup lost
      BY <1>6, <2>1 DEF Drop, Goto, TypeInv, TypeOK
    <2>3. Beyond(d, k)' \subseteq Beyond(d, k) \cup {y}
      BY <1>2, <2>2, BeyondOfStep
    <2>4. CASE d[p[1]] > k
      <3>1. x \in Beyond(d, k)
        BY <2>4 DEF PlacesBeyond, Beyond
      <3>2. p \notin (owned \cup lost)'
        BY <2>1, <2>2 DEF SlotInv, OwnedNotLost
      <3>3. x \notin Beyond(d, k)'
        BY <3>2 DEF PlacesBeyond, Beyond
      <3>4. Beyond(d, k)' \subseteq (Beyond(d, k) \ {x}) \cup {y}
        BY <2>3, <3>3
      <3> QED
        BY <1>3, <1>4, <3>1, <3>4, SwappedFit
    <2>5. CASE ~ (d[p[1]] > k)
      <3>1. t \notin ThreadsBeyond(d, k)'
        BY <2>2, <2>5 DEF ThreadsBeyond, Leaving
      <3>2. y \notin Beyond(d, k)'
        BY <3>1 DEF Beyond
      <3>3. Beyond(d, k)' \subseteq Beyond(d, k)
        BY <2>3, <3>2
      <3> QED
        BY <1>3, <1>4, <3>3, FewerFit
    <2> QED
      BY <2>4, <2>5
  <1> QED
    BY <1>5, <1>6

(* A node is hung behind a chain that cannot hold what is asked for.       *)
LEMMA LinkGrowth ==
  ASSUME TypeInv, TypeInv', DemandInv', GrowthInv, ChainInv,
         NEW t \in Threads, NextLink(t)
  PROVE  GrowthInv'
PROOF
  <1> DEFINE n == node[t]
             a == child[t]
             L == Cardinality(Linked)
  <1>1. /\ next[n] = Null /\ next' = [next EXCEPT ![n] = a] /\ node' = [node EXCEPT ![t] = a]
        /\ pc[t] = "link" /\ pc'[t] = "acq_load" /\ UNCHANGED <<owned, lost>>
        /\ n \in Linked /\ n \in Nodes /\ next \in [Nodes -> Addresses \cup {Null}]
        /\ node'[t] = a
    BY DEF NextLink, client, Goto, TypeInv, TypeOK, ChainInv, InChain
  <1>2. /\ a \in Addresses /\ a # Null /\ a \notin Linked /\ next[a] = Null /\ a \in Nodes
        /\ a # Root
    BY <1>1, PoolAssumption
    DEF TypeInv, TypeOK, HasChild, ChainInv, ChildFresh, NodesAccounted, Hanging, Nodes
  <1>3. Linked' = Linked \cup {a}
    BY NextLinkChain
  <1>4. DemandInv /\ IsFiniteSet(Linked) /\ L \in Nat
    BY FS_CardinalityType DEF GrowthInv
  <1>5. IsFiniteSet(Linked') /\ Cardinality(Linked') = L + 1
    BY <1>2, <1>3, <1>4, FS_AddElement
  <1>6. PICK d \in [Linked -> 1 .. L] : Numbers(d) /\ \A k \in 0 .. L : Fits(d, k)
    BY DEF GrowthInv
  <1> HIDE DEF L
  <1>7. PICK e \in [Linked' -> 1 .. L + 1] :
          e[a] = L + 1 /\ \A m \in Linked : e[m] = d[m] /\ m # a /\ d[m] \in 1 .. L
    <2> DEFINE f == [m \in Linked' |-> IF m = a THEN L + 1 ELSE d[m]]
    <2>1. /\ f \in [Linked' -> 1 .. L + 1]
          /\ f[a] = L + 1 /\ \A m \in Linked : f[m] = d[m] /\ m # a /\ d[m] \in 1 .. L
      BY <1>2, <1>3, <1>4, <1>6
    <2> HIDE DEF f
    <2> QED
      BY <2>1
  <1>8. Root \in Linked /\ d[n] = L
    BY <1>1, <1>6 DEF Linked, Numbers, L
  <1>9. Numbers(e)'
    <2>1. e[Root] = 1
      BY <1>6, <1>7, <1>8 DEF Numbers
    <2>2. \A l, m \in Linked' : e[l] = e[m] => l = m
      BY <1>3, <1>4, <1>6, <1>7 DEF Numbers
    <2>3. ASSUME NEW m \in Linked'
          PROVE  /\ next'[m] = Null => e[m] = L + 1
                 /\ next'[m] # Null => e[next'[m]] = e[m] + 1
      <3>1. CASE m = a
        BY <1>1, <1>2, <1>7, <3>1
      <3>2. CASE m = n
        BY <1>1, <1>2, <1>7, <1>8, <3>2
      <3>3. CASE m # a /\ m # n
        <4>1. m \in Linked /\ next'[m] = next[m]
          BY <1>1, <1>3, <3>3
        <4>2. next[m] # Null
          BY <1>1, <1>6, <1>8, <3>3, <4>1 DEF Numbers, L
        <4>3. next[m] \in Linked /\ d[next[m]] = d[m] + 1
          <5>1. m \in Nodes
            BY <4>1 DEF Linked, TypeInv, TypeOK, Nodes
          <5>2. next[m] \in Linked
            BY <4>2, <5>1 DEF Linked
          <5> QED
            BY <1>6, <4>1, <4>2, <5>2 DEF Numbers
        <4> QED
          BY <1>7, <4>1, <4>2, <4>3
      <3> QED
        BY <3>1, <3>2, <3>3
    <2> QED
      BY <1>5, <2>1, <2>2, <2>3 DEF Numbers
  <1>10. \A u \in Threads \ {t} : /\ pc'[u] = pc[u] /\ node'[u] = node[u]
                                  /\ mask'[u] = mask[u] /\ e[node[u]] = d[node[u]]
    BY <1>7, OthersStay DEF AcquireStep, ChainInv, InChain
  <1>11. \A p \in (owned \cup lost)' : p \in owned \cup lost /\ e[p[1]] = d[p[1]] /\ d[p[1]] \in 1 .. L
    BY <1>1, <1>7 DEF ChainInv, InChain
  <1>12. t \in Busy /\ Leaving(t) /\ ~Leaving(t)'
    BY <1>1 DEF Busy, Leaving
  <1>13. ASSUME NEW k \in 0 .. L + 1
         PROVE  Fits(e, k)'
    <2>1. CASE k = 0
      BY <2>1, FirstFitsAfter
    <2>2. CASE k \in 1 .. L
      <3>1. k \in Nat /\ Fits(d, k)
        BY <1>4, <1>6, <2>2
      <3>2. t \in ThreadsBeyond(d, k)
        BY <1>4, <1>8, <1>12, <2>2 DEF ThreadsBeyond, Leaving
      <3>3. Beyond(e, k)' \subseteq Beyond(d, k) \cup {}
        BY <1>10, <1>11, <3>2, BeyondOfStep
      <3> QED
        BY <1>4, <3>1, <3>3, FewerFit
    <2>3. CASE k = L + 1
      <3>1. ThreadsBeyond(e, k)' = {}
        <4> SUFFICES ASSUME NEW u \in ThreadsBeyond(e, k)' PROVE FALSE
          OBVIOUS
        <4>1. u \in Threads /\ (e[node'[u]] > k \/ (e[node'[u]] = k /\ Leaving(u)'))
          BY DEF ThreadsBeyond, Busy, Leaving
        <4>2. CASE u = t
          BY <1>1, <1>4, <1>7, <1>12, <2>3, <4>1, <4>2
        <4>3. CASE u # t
          <5>1. e[node'[u]] \in 1 .. L
            BY <1>7, <1>10, <4>1, <4>3 DEF ChainInv, InChain
          <5> QED
            BY <1>4, <2>3, <4>1, <5>1
        <4> QED
          BY <4>2, <4>3
      <3>2. PlacesBeyond(e, k)' = {}
        <4>1. \A p \in (owned \cup lost)' : ~ (e[p[1]] > k)
          BY <1>4, <1>11, <2>3
        <4> QED
          BY <4>1 DEF PlacesBeyond
      <3>3. Beyond(e, k)' = {}
        BY <3>1, <3>2 DEF Beyond
      <3> QED
        BY <3>3 DEF Fits
    <2> QED
      BY <1>4, <2>1, <2>2, <2>3
  <1>14. L * NbElement < MaxObjects + MaxThrows
    <2> DEFINE B == Beyond(d, L)
               q == L * NbElement
    <2>1. IsFiniteSet(B) /\ Cardinality(B) \in Nat
      BY <1>4, BeyondFinite
    <2>2. t \in ThreadsBeyond(d, L)
      BY <1>8, <1>12 DEF ThreadsBeyond
    <2>3. B # {}
      <3>1. <<t, "thread">> \in B
        BY <2>2 DEF Beyond
      <3> QED
        BY <3>1
    <2>4. Cardinality(B) + q <= MaxObjects + MaxThrows
      BY <1>4, <1>6, <2>3 DEF Fits
    <2>5. q \in Nat
      BY <1>4, PoolAssumption
    <2> HIDE DEF B, q
    <2>6. Cardinality(B) > 0
      BY <2>1, <2>3, FS_EmptySet
    <2>7. q < MaxObjects + MaxThrows
      BY <2>1, <2>4, <2>5, <2>6, PoolAssumption
    <2> QED
      BY <2>7 DEF q
  <1>15. GrowthBounded'
    <2>1. Cardinality(Linked') - 1 = L
      BY <1>4, <1>5
    <2> QED
      BY <1>14, <2>1 DEF GrowthBounded
  <1> QED
    <2>1. e \in [Linked' -> 1 .. Cardinality(Linked')]
      BY <1>5, <1>7
    <2>2. \A k \in 0 .. Cardinality(Linked') : Fits(e, k)'
      BY <1>5, <1>13
    <2> QED
      BY <1>1, <1>5, <1>9, <1>15, <2>1, <2>2 DEF GrowthInv

LEMMA GrowthInvInit == Init => GrowthInv
PROOF
  <1> SUFFICES ASSUME Init PROVE GrowthInv
    OBVIOUS
  <1> DEFINE d == [n \in Linked |-> 1]
  <1>1. TypeInv /\ DemandInv
    BY TypeInvInit, DemandInvInit
  <1>2. Linked = {Root} /\ owned = {} /\ lost = {} /\ Busy = {} /\ next[Root] = Null
    BY DEF Init, Linked, Nodes, Busy
  <1>3. IsFiniteSet(Linked) /\ Cardinality(Linked) = 1
    BY <1>2, FS_Singleton
  <1>4. d \in [Linked -> 1 .. 1] /\ d[Root] = 1
    BY <1>2
  <1> HIDE DEF d
  <1>5. Numbers(d)
    BY <1>2, <1>3, <1>4 DEF Numbers
  <1>6. \A k \in 0 .. 1 : Fits(d, k)
    <2>1. \A k \in 0 .. 1 : Beyond(d, k) = {}
      BY <1>2 DEF Beyond, PlacesBeyond, ThreadsBeyond
    <2> QED
      BY <2>1 DEF Fits
  <1>7. GrowthBounded
    BY <1>3 DEF GrowthBounded
  <1> QED
    BY <1>1, <1>3, <1>4, <1>5, <1>6, <1>7 DEF GrowthInv

LEMMA GrowthInvStep ==
  TypeInv /\ ChainInv /\ SlotInv /\ GrowthInv /\ [Next]_vars => GrowthInv'
PROOF
  <1> SUFFICES ASSUME TypeInv, ChainInv, SlotInv, GrowthInv, [Next]_vars
               PROVE  GrowthInv'
    OBVIOUS
  <1>1. TypeInv' /\ DemandInv'
    BY TypeInvStep, DemandInvStep DEF GrowthInv
  <1>2. ASSUME NEW t \in Threads,
               \/ Acquire(t) \/ AcqEmpty(t) \/ AcqTake(t) \/ NextLoad(t) \/ NextLost(t)
               \/ Destroy(t) \/ RelLoad(t) \/ RelPut(t) \/ RelRetry(t) \/ NextCreate(t)
        PROVE  GrowthInv'
    <2>1. Acquire(t) \/ AcquireStep(t) \/ ReleaseStep(t)
      BY <1>2 DEF AcquireStep, ReleaseStep
    <2>2. UNCHANGED <<owned, lost>>
      BY <1>2 DEF Acquire, AcqEmpty, AcqTake, NextLoad, NextLost, Destroy, RelLoad, RelPut,
                  RelRetry, NextCreate, client
    <2>3. Linked' = Linked /\ \A n \in Linked : next'[n] = next[n]
      <3>1. CASE NextCreate(t)
        <4>1. Linked' = Linked
          BY <3>1, NextCreateChain
        <4>2. PICK b \in heap : next' = [next EXCEPT ![b] = Null]
          BY <3>1 DEF NextCreate
        <4>3. b \notin Linked
          BY DEF ChainInv, NodesAccounted
        <4>4. Linked \subseteq Nodes /\ next \in [Nodes -> Addresses \cup {Null}]
          BY DEF Linked, TypeInv, TypeOK, Nodes
        <4>5. \A n \in Linked : next'[n] = next[n]
          BY <4>2, <4>3, <4>4
        <4> QED
          BY <4>1, <4>5
      <3>2. CASE ~NextCreate(t)
        <4>1. next' = next
          BY <1>2, <3>2 DEF Acquire, AcqEmpty, AcqTake, NextLoad, NextLost, Destroy, RelLoad,
                            RelPut, RelRetry, pool
        <4> QED
          BY <4>1, LinkedSame
      <3> QED
        BY <3>1, <3>2
    <2>4. ASSUME NEW d \in [Linked -> Nat \ {0}], NEW k \in Nat \ {0}, Numbers(d),
                 t \in ThreadsBeyond(d, k)'
          PROVE  t \in ThreadsBeyond(d, k)
      <3>1. /\ node[t] \in Linked /\ d[node[t]] \in Nat /\ Root \in Linked /\ d[Root] = 1
            /\ pc \in [Threads -> {"idle"} \cup AcquirePcs \cup ReleasePcs]
            /\ node \in [Threads -> Nodes] /\ mask \in [Threads -> SUBSET Slots]
            /\ next \in [Nodes -> Addresses \cup {Null}]
        BY <2>4 DEF ChainInv, InChain, Linked, Numbers, TypeInv, TypeOK
      <3>2. pc'[t] # "idle" /\ (d[node'[t]] > k \/ (d[node'[t]] = k /\ Leaving(t)'))
        BY <2>4 DEF ThreadsBeyond, Busy, Leaving
      <3>3. CASE Acquire(t)
        BY <3>1, <3>2, <3>3 DEF Acquire, Leaving, Goto
      <3>4. CASE NextLoad(t) \/ NextLost(t)
        <4>1. pc[t] \in {"next_load", "link"} /\ t \in Busy /\ Leaving(t)
          BY <3>4 DEF NextLoad, NextLost, Busy, Leaving
        <4>2. CASE next[node[t]] = Null
          <5>1. node'[t] = node[t]
            BY <3>4, <4>2 DEF NextLoad, NextLost
          <5> QED
            BY <3>1, <3>2, <4>1, <5>1 DEF ThreadsBeyond
        <4>3. CASE next[node[t]] # Null
          <5>1. node'[t] = next[node[t]] /\ ~Leaving(t)'
            BY <3>1, <3>4, <4>3 DEF NextLoad, NextLost, Leaving, Goto
          <5>2. d[next[node[t]]] = d[node[t]] + 1
            BY <2>4, <3>1, <4>3 DEF Numbers
          <5> QED
            BY <3>1, <3>2, <4>1, <5>1, <5>2 DEF ThreadsBeyond
        <4> QED
          BY <4>2, <4>3
      <3>5. CASE \/ AcqEmpty(t) \/ AcqTake(t) \/ Destroy(t) \/ RelLoad(t) \/ RelPut(t)
                 \/ RelRetry(t) \/ NextCreate(t)
        <4>1. /\ node' = node /\ pc[t] # "idle" /\ (Leaving(t)' => Leaving(t))
          BY <3>1, <3>5 DEF AcqEmpty, AcqTake, Destroy, RelLoad, RelPut, RelRetry, NextCreate,
                            Leaving, Goto, locals
        <4> QED
          BY <3>2, <4>1 DEF ThreadsBeyond, Busy
      <3> QED
        BY <1>2, <3>3, <3>4, <3>5
    <2> QED
      BY <1>1, <2>1, <2>2, <2>3, <2>4, QuietGrowth
  <1>3. CASE UNCHANGED vars
    <2>1. UNCHANGED <<next, owned, lost, pc, node, mask>> /\ Linked' = Linked
      BY <1>3, LinkedSame DEF vars, pool, client, locals
    <2>2. ASSUME NEW d, NEW k PROVE Fits(d, k)' = Fits(d, k)
      <3>1. Beyond(d, k)' = Beyond(d, k)
        BY <2>1 DEF Beyond, PlacesBeyond, ThreadsBeyond, Busy, Leaving
      <3> QED
        BY <3>1 DEF Fits
    <2> QED
      BY <1>1, <2>1, <2>2, GrowthKept
  <1> QED
    BY <1>1, <1>2, <1>3, LoadGrowth, HandGrowth, LinkGrowth DEF Next, AcquireStep, ReleaseStep

(* With one segment fewer the pool could not hold the most that its        *)
(* clients ever kept and asked for, however the calls race.                *)
THEOREM PoolGrowthBounded == Spec => []GrowthBounded
PROOF
  <1>1. GrowthInv => GrowthBounded
    BY DEF GrowthInv
  <1> QED
    BY <1>1, SlotInvAlways, GrowthInvInit, GrowthInvStep, PTL DEF Spec

===============================================================================
