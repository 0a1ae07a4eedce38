----------------------------- MODULE Stack_proofs -----------------------------
(***************************************************************************)
(* What Stack guarantees for any number of threads, addresses and pushes:  *)
(* the tags keep the value of an unprotected read out of head_, and the    *)
(* list is a stack.                                                        *)
(***************************************************************************)
EXTENDS Stack, FiniteSetTheorems, SequenceTheorems, TLAPS

-------------------------------------------------------------------------------
(* The inductive invariant, in three layers.                               *)

(* The pushes that have still to draw their tag: MaxPushes counts them too.*)
Drawing == {t \in Threads : pc[t] = "push_new"}
Pushing == {t \in Threads : pc[t] \in {"push_link", "push_cas"}}

TypeInv == TypeOK /\ counter + Cardinality(Drawing) <= MaxPushes

(* What the locals of a call are, where they are used.                     *)
LocalsInv == \A t \in Threads :
  /\ t \in Pushing => new[t].data \in Addresses /\ value[new[t].data] \in Values
  /\ pc[t] = "push_cas" => next[new[t].data] = old[t]
  /\ pc[t] \in {"pop_cas", "pop_free"} => old[t].data # Null
  /\ pc[t] = "pop_free" => value[old[t].data] \in Values
  /\ got[t] # Null <=> pc[t] = "pop_ret"

(* NodesAccounted speaks of the order of the list and of who has a node.   *)
Chain ==
  /\ \A i \in 0 .. Len(list) :
       Link(i).data = IF i < Len(list) THEN list[i + 1] ELSE Null
  /\ \A i, j \in DOMAIN list : list[i] = list[j] => i = j

Apart ==
  /\ Addresses = heap \cup Listed \cup UNION {Private(t) : t \in Threads}
  /\ heap \cap Listed = {}
  /\ \A t \in Threads :
       /\ Private(t) \cap (heap \cup Listed) = {}
       /\ \A u \in Threads \ {t} : Private(t) \cap Private(u) = {}

Links == {Link(i) : i \in 0 .. Len(list)}

(* A pointer that is or was in the list has a tag that was drawn, and the  *)
(* pointer that a push is about to put there has never been in the list.   *)
TagsInv ==
  /\ \A p \in Links \cup {old[t] : t \in Threads} : p.data # Null => p.counter < counter
  /\ \A t \in Pushing : /\ new[t].counter < counter
                        /\ \A u \in Threads : old[u] # new[t]

(* Hence a pop whose old_head is a pointer of the list has read its next.  *)
ReadsNext == \A t \in Threads :
  pc[t] = "pop_cas" /\ old[t] \in Links => new[t] = next[old[t].data]

ItemsKept == \A a \in Listed : value[a] \in Values

ListInv == LocalsInv /\ Chain /\ Apart /\ TagsInv /\ ReadsNext /\ ItemsKept

-------------------------------------------------------------------------------
(* The types.                                                              *)

(* The pushes that are going to draw a tag have one left for each of them. *)
LEMMA TagLeft ==
  ASSUME TypeInv
  PROVE  /\ Cardinality(Drawing) \in Nat
         /\ \A t \in Drawing : counter < MaxPushes
PROOF
  <1>1. IsFiniteSet(Drawing)
    BY StackAssumption, FS_Subset DEF Drawing
  <1>2. Cardinality(Drawing) \in Nat
    BY <1>1, FS_CardinalityType
  <1>3. Drawing # {} => Cardinality(Drawing) # 0
    BY <1>1, FS_EmptySet
  <1> QED
    BY <1>2, <1>3, StackAssumption DEF TypeInv, TypeOK

LEMMA TypeInvInit == Init => TypeInv
PROOF
  <1> SUFFICES ASSUME Init PROVE TypeInv
    OBVIOUS
  <1>1. TypeOK
    BY StackAssumption
    DEF Init, TypeOK, NullPtr, Tagged, Tags
  <1>2. Drawing = {}
    BY DEF Init, Drawing
  <1> QED
    BY <1>1, <1>2, FS_EmptySet, StackAssumption DEF TypeInv, Init

(* A pop that is given the head finds a list with this node on top.        *)
LEMMA TopOfList ==
  ASSUME TypeOK, Chain
  PROVE  /\ list # <<>> <=> head.data # Null
         /\ list # <<>> => head.data = list[1]
PROOF
  <1>1. Link(0).data = IF 0 < Len(list) THEN list[1] ELSE Null
    BY DEF Chain, TypeOK
  <1>2. Link(0) = head
    BY DEF Link
  <1>3. list # <<>> <=> Len(list) > 0
    BY DEF TypeOK
  <1>4. list # <<>> => list[1] \in Addresses
    BY <1>3 DEF TypeOK
  <1> QED
    BY <1>1, <1>2, <1>3, <1>4, StackAssumption

LEMMA TypeOKStep == TypeInv /\ LocalsInv /\ Chain /\ [Next]_vars => TypeOK'
PROOF
  <1> SUFFICES ASSUME TypeInv, LocalsInv, Chain, [Next]_vars PROVE TypeOK'
    OBVIOUS
  <1> USE StackAssumption
      DEF TypeInv, TypeOK, PushPcs, PopPcs, Goto, Return, nodes, locals
  <1>0. NullPtr \in Tagged
    BY DEF NullPtr, Tagged, Tags
  <1>1. ASSUME NEW t \in Threads, PushLoad(t) PROVE TypeOK'
    BY <1>1 DEF PushLoad
  <1>2. ASSUME NEW t \in Threads, PushNew(t) PROVE TypeOK'
    <2>1. counter < MaxPushes
      BY <1>2, TagLeft DEF PushNew, Drawing
    <2> QED
      BY <1>2, <2>1 DEF PushNew, DrawTag, Tagged, Tags
  <1>3. ASSUME NEW t \in Threads, PushLink(t) PROVE TypeOK'
    BY <1>3 DEF PushLink
  <1>4. ASSUME NEW t \in Threads, PushDone(t) PROVE TypeOK'
    <2>1. <<new[t].data>> \in Seq(Addresses)
      BY <1>4 DEF PushDone, LocalsInv, Pushing
    <2>2. list' \in Seq(Addresses)
      BY <1>4, <2>1, ConcatProperties DEF PushDone
    <2> QED
      BY <1>0, <1>4, <2>2 DEF PushDone
  <1>5. ASSUME NEW t \in Threads, PushRetry(t) PROVE TypeOK'
    BY <1>5 DEF PushRetry
  <1>6. ASSUME NEW t \in Threads, PopLoad(t) PROVE TypeOK'
    BY <1>6 DEF PopLoad
  <1>7. ASSUME NEW t \in Threads, PopEmpty(t) PROVE TypeOK'
    BY <1>0, <1>7 DEF PopEmpty
  <1>8. ASSUME NEW t \in Threads, PopRead(t) PROVE TypeOK'
    <2>1. old[t].data \in Addresses
      BY <1>8 DEF PopRead, Tagged
    <2> QED
      BY <1>8, <2>1 DEF PopRead
  <1>9. ASSUME NEW t \in Threads, PopTake(t) PROVE TypeOK'
    <2>1. list # <<>>
      BY <1>9, TopOfList DEF PopTake, LocalsInv
    <2>2. Tail(list) \in Seq(Addresses)
      BY <2>1, HeadTailProperties
    <2> QED
      BY <1>9, <2>2 DEF PopTake
  <1>10. ASSUME NEW t \in Threads, PopRetry(t) PROVE TypeOK'
    BY <1>10 DEF PopRetry
  <1>11. ASSUME NEW t \in Threads, PopFree(t) PROVE TypeOK'
    <2>1. old[t].data \in Addresses
      BY <1>11 DEF PopFree, LocalsInv, Tagged
    <2> QED
      BY <1>11, <2>1 DEF PopFree
  <1>12. ASSUME NEW t \in Threads, PopReturn(t) PROVE TypeOK'
    BY <1>0, <1>12 DEF PopReturn
  <1>13. CASE UNCHANGED vars
    BY <1>13 DEF vars
  <1> QED
    BY <1>1, <1>2, <1>3, <1>4, <1>5, <1>6, <1>7, <1>8, <1>9, <1>10, <1>11,
       <1>12, <1>13
    DEF Next, CallStep

LEMMA TypeInvStep == TypeInv /\ LocalsInv /\ Chain /\ [Next]_vars => TypeInv'
PROOF
  <1> SUFFICES ASSUME TypeInv, LocalsInv, Chain, [Next]_vars PROVE TypeInv'
    OBVIOUS
  <1>1. TypeOK'
    BY TypeOKStep
  <1>2. IsFiniteSet(Drawing) /\ Cardinality(Drawing) \in Nat
    BY StackAssumption, TagLeft, FS_Subset DEF Drawing
  <1>3. counter \in Nat /\ MaxPushes \in Nat
    BY StackAssumption DEF TypeInv, TypeOK
  <1>4. ASSUME NEW t \in Threads, PushLoad(t) PROVE TypeInv'
    <2>1. Drawing' = Drawing \cup {t} /\ t \notin Drawing
      BY <1>4 DEF PushLoad, Drawing, Goto, TypeInv, TypeOK
    <2>2. Cardinality(Drawing') = Cardinality(Drawing) + 1
      BY <1>2, <2>1, FS_AddElement
    <2>3. counter + Cardinality(Drawing) < MaxPushes /\ counter' = counter
      BY <1>4 DEF PushLoad, Drawing
    <2> QED
      BY <1>1, <1>2, <1>3, <2>2, <2>3 DEF TypeInv
  <1>5. ASSUME NEW t \in Threads, PushNew(t) PROVE TypeInv'
    <2>1. Drawing' = Drawing \ {t} /\ t \in Drawing
      BY <1>5 DEF PushNew, Drawing, Goto, TypeInv, TypeOK
    <2>2. Cardinality(Drawing') = Cardinality(Drawing) - 1
      BY <1>2, <2>1, FS_RemoveElement
    <2>3. counter' = counter + 1
      BY <1>5 DEF PushNew
    <2> QED
      BY <1>1, <1>2, <1>3, <2>2, <2>3 DEF TypeInv
  <1>6. ASSUME Drawing' = Drawing, counter' = counter PROVE TypeInv'
    BY <1>1, <1>6 DEF TypeInv
  <1>7. ASSUME NEW t \in Threads,
               \/ PushLink(t) \/ PushDone(t) \/ PushRetry(t) \/ PopLoad(t)
               \/ PopEmpty(t) \/ PopRead(t) \/ PopTake(t) \/ PopRetry(t)
               \/ PopFree(t) \/ PopReturn(t)
        PROVE  TypeInv'
    <2>1. Drawing' = Drawing /\ counter' = counter
      BY <1>7
      DEF PushLink, PushDone, PushRetry, PopLoad, PopEmpty, PopRead, PopTake,
          PopRetry, PopFree, PopReturn, Return, Goto, Drawing, TypeInv, TypeOK
    <2> QED
      BY <1>6, <2>1
  <1>8. CASE UNCHANGED vars
    BY <1>6, <1>8 DEF vars, Drawing
  <1> QED
    BY <1>4, <1>5, <1>7, <1>8 DEF Next, CallStep

-------------------------------------------------------------------------------
(* The list.                                                               *)

(* In a list a pointer leads to a node of it or nowhere.                   *)
LEMMA LinksLead ==
  ASSUME TypeOK, Chain
  PROVE  /\ head \in Links
         /\ \A a \in Listed : next[a] \in Links
         /\ \A p \in Links : p.data = Null \/ p.data \in Listed
         /\ Listed \subseteq Addresses
PROOF
  <1>1. head = Link(0) /\ 0 \in 0 .. Len(list)
    BY DEF Link, TypeOK
  <1>2. \A i \in DOMAIN list : i \in 0 .. Len(list) /\ next[list[i]] = Link(i)
    BY DEF Link, TypeOK
  <1>3. \A i \in 0 .. Len(list) : i < Len(list) => i + 1 \in DOMAIN list
    BY DEF TypeOK
  <1>4. Listed \subseteq Addresses
    BY DEF Listed, TypeOK
  <1> QED
    BY <1>1, <1>2, <1>3, <1>4 DEF Links, Listed, Chain

(* Only an exchange of head_ changes the list.                             *)
LEMMA ListKept ==
  ASSUME TypeOK, Chain, UNCHANGED <<head, list>>,
         \A a \in Listed : next'[a] = next[a]
  PROVE  Chain' /\ Listed' = Listed /\ Links' = Links
PROOF
  <1>1. Listed' = Listed
    BY DEF Listed
  <1>2. \A i \in DOMAIN list : next'[list[i]] = next[list[i]]
    BY DEF Listed
  <1>3. \A i \in 0 .. Len(list) : i # 0 => i \in DOMAIN list
    BY DEF TypeOK
  <1>4. \A i \in 0 .. Len(list) : Link(i)' = Link(i)
    BY <1>2, <1>3 DEF Link
  <1>5. Links' = Links
    BY <1>4 DEF Links
  <1>6. Chain'
    BY <1>4 DEF Chain
  <1> QED
    BY <1>1, <1>5, <1>6

LEMMA ListPush ==
  ASSUME TypeOK, TypeOK', LocalsInv, Chain, Apart, NEW t \in Threads, PushDone(t)
  PROVE  /\ Chain'
         /\ Listed' = Listed \cup {new[t].data}
         /\ Links' = Links \cup {new[t]}
PROOF
  <1> DEFINE a == new[t].data
  <1>1. a \in Addresses /\ a \notin Listed /\ next[a] = head
    BY DEF PushDone, LocalsInv, Pushing, Apart, Private
  <1>2. /\ list' = <<a>> \o list /\ head' = new[t] /\ next' = next
    BY DEF PushDone, nodes
  <1>3. /\ Len(list') = Len(list) + 1 /\ Len(list) \in Nat
        /\ list'[1] = a
        /\ \A i \in 1 .. Len(list) : list'[i + 1] = list[i]
        /\ DOMAIN list' = 1 .. Len(list) + 1 /\ DOMAIN list = 1 .. Len(list)
    <2>1. <<a>> \in Seq(Addresses) /\ Len(<<a>>) = 1 /\ <<a>>[1] = a
      BY <1>1
    <2>2. /\ Len(list') = Len(list) + 1
          /\ \A i \in 1 .. Len(list) + 1 : list'[i] = IF i <= 1 THEN <<a>>[i] ELSE list[i - 1]
      BY <1>2, <2>1, ConcatProperties DEF TypeOK
    <2>3. Len(list) \in Nat /\ DOMAIN list = 1 .. Len(list) /\ DOMAIN list' = 1 .. Len(list')
      BY DEF TypeOK
    <2> QED
      BY <2>1, <2>2, <2>3
  <1> HIDE DEF a
  <1>4. /\ Link(0)' = new[t]
        /\ \A i \in 0 .. Len(list) : Link(i + 1)' = Link(i)
    <2>1. Link(0)' = new[t]
      BY <1>2 DEF Link
    <2>2. Link(1)' = Link(0)
      BY <1>1, <1>2, <1>3 DEF Link
    <2>3. ASSUME NEW i \in 1 .. Len(list) PROVE Link(i + 1)' = Link(i)
      BY <1>2, <1>3, <2>3 DEF Link
    <2> QED
      BY <1>3, <2>1, <2>2, <2>3
  <1>5. Links' = Links \cup {new[t]}
    <2>1. \A i \in 0 .. Len(list) + 1 : i = 0 \/ (i - 1 \in 0 .. Len(list) /\ i = (i - 1) + 1)
      BY <1>3
    <2>2. \A i \in 0 .. Len(list) : i + 1 \in 0 .. Len(list) + 1
      BY <1>3
    <2>3. Links' = {Link(i)' : i \in 0 .. Len(list) + 1}
      BY <1>3 DEF Links
    <2>4. 0 \in 0 .. Len(list) + 1
      BY <1>3
    <2>5. ASSUME NEW p \in Links' PROVE p \in Links \cup {new[t]}
      <3>1. PICK i \in 0 .. Len(list) + 1 : p = Link(i)'
        BY <2>3, <2>5
      <3>2. CASE i = 0
        BY <1>4, <3>1, <3>2
      <3>3. CASE i # 0
        <4>1. PICK j \in 0 .. Len(list) : i = j + 1
          BY <2>1, <3>3
        <4> QED
          BY <1>4, <3>1, <4>1 DEF Links
      <3> QED
        BY <3>2, <3>3
    <2>6. ASSUME NEW p \in Links PROVE p \in Links'
      BY <1>4, <2>2, <2>3, <2>6 DEF Links
    <2>7. new[t] \in Links'
      BY <1>4, <2>3, <2>4
    <2> QED
      BY <2>5, <2>6, <2>7
  <1>6. Listed' = Listed \cup {a}
    <2>1. ASSUME NEW i \in DOMAIN list' PROVE list'[i] \in Listed \cup {a}
      <3>1. i = 1 \/ (i - 1 \in 1 .. Len(list) /\ i = (i - 1) + 1)
        BY <1>3
      <3> QED
        BY <1>3, <3>1 DEF Listed
    <2>2. ASSUME NEW i \in DOMAIN list PROVE list[i] \in Listed'
      <3>1. i + 1 \in DOMAIN list' /\ list'[i + 1] = list[i]
        BY <1>3
      <3> QED
        BY <3>1 DEF Listed
    <2>3. a \in Listed'
      <3>1. 1 \in DOMAIN list' /\ list'[1] = a
        BY <1>3
      <3> QED
        BY <3>1 DEF Listed
    <2>4. ASSUME NEW x \in Listed' PROVE x \in Listed \cup {a}
      BY <2>1, <2>4 DEF Listed
    <2>5. ASSUME NEW x \in Listed PROVE x \in Listed'
      BY <2>2, <2>5 DEF Listed
    <2> QED
      BY <2>3, <2>4, <2>5
  <1>7. Chain'
    <2>1. ASSUME NEW i \in DOMAIN list', NEW j \in DOMAIN list', list'[i] = list'[j]
          PROVE  i = j
      <3>1. \A k \in DOMAIN list' :
              \/ k = 1 /\ list'[k] = a
              \/ /\ k # 1 /\ k - 1 \in DOMAIN list
                 /\ list'[k] = list[k - 1] /\ list'[k] # a
        <4>1. \A k \in DOMAIN list' : k = 1 \/ (k - 1 \in 1 .. Len(list) /\ k = (k - 1) + 1)
          BY <1>3
        <4> QED
          BY <1>1, <1>3, <4>1 DEF Listed
      <3>2. CASE i = 1 \/ j = 1
        BY <2>1, <3>1, <3>2
      <3>3. CASE i # 1 /\ j # 1
        <4>1. i - 1 = j - 1
          BY <2>1, <3>1, <3>3 DEF Chain
        <4> QED
          BY <1>3, <4>1
      <3> QED
        BY <3>2, <3>3
    <2>2. Link(0)'.data = list'[1] /\ 0 < Len(list')
      BY <1>3, <1>4 DEF a
    <2>3. ASSUME NEW i \in 0 .. Len(list)
          PROVE  Link(i + 1)'.data = IF i + 1 < Len(list') THEN list'[(i + 1) + 1] ELSE Null
      BY <1>3, <1>4 DEF Chain
    <2>4. \A i \in 0 .. Len(list') : i = 0 \/ \E j \in 0 .. Len(list) : i = j + 1
      <3>1. \A i \in 0 .. Len(list') : i = 0 \/ (i - 1 \in 0 .. Len(list) /\ i = (i - 1) + 1)
        BY <1>3
      <3> QED
        BY <3>1
    <2>5. \A i \in 0 .. Len(list') :
             Link(i)'.data = IF i < Len(list') THEN list'[i + 1] ELSE Null
      BY <2>2, <2>3, <2>4
    <2> QED
      BY <2>1, <2>5 DEF Chain
  <1> QED
    BY <1>5, <1>6, <1>7 DEF a

LEMMA ListPop ==
  ASSUME TypeOK, LocalsInv, Chain, ReadsNext, NEW t \in Threads, PopTake(t)
  PROVE  /\ Chain'
         /\ new[t] = next[head.data]
         /\ old[t].data \in Listed
         /\ Listed' = Listed \ {old[t].data}
         /\ Links' \subseteq Links
PROOF
  <1>1. head = old[t] /\ old[t].data # Null
    BY DEF PopTake, LocalsInv
  <1>2. list # <<>> /\ head.data = list[1]
    BY <1>1, TopOfList
  <1>3. new[t] = next[head.data]
    BY <1>1, LinksLead DEF ReadsNext, PopTake
  <1>4. list' = Tail(list) /\ head' = new[t] /\ next' = next
    BY DEF PopTake, nodes
  <1>5. /\ Len(list) \in Nat /\ Len(list) > 0 /\ Len(list') = Len(list) - 1
        /\ \A i \in 1 .. Len(list) - 1 : list'[i] = list[i + 1]
        /\ DOMAIN list = 1 .. Len(list) /\ DOMAIN list' = 1 .. Len(list) - 1
    <2>1. /\ Len(Tail(list)) = Len(list) - 1
          /\ \A i \in 1 .. Len(Tail(list)) : Tail(list)[i] = list[i + 1]
          /\ Tail(list) \in Seq(Addresses)
      BY <1>2, HeadTailProperties DEF TypeOK
    <2>2. Len(list) \in Nat /\ Len(list) > 0 /\ DOMAIN list = 1 .. Len(list)
      BY <1>2 DEF TypeOK
    <2> QED
      BY <1>4, <2>1, <2>2
  <1>6. \A i \in 0 .. Len(list) - 1 : Link(i)' = Link(i + 1)
    <2>1. Link(0)' = Link(1)
      BY <1>2, <1>3, <1>4 DEF Link
    <2>2. ASSUME NEW i \in 1 .. Len(list) - 1 PROVE Link(i)' = Link(i + 1)
      BY <1>4, <1>5, <2>2 DEF Link
    <2> QED
      BY <1>5, <2>1, <2>2
  <1>7. Links' \subseteq Links
    <2>1. \A i \in 0 .. Len(list) - 1 : i + 1 \in 0 .. Len(list)
      BY <1>5
    <2>2. Links' = {Link(i)' : i \in 0 .. Len(list) - 1}
      BY <1>5 DEF Links
    <2> QED
      BY <1>6, <2>1, <2>2 DEF Links
  <1>8. Listed' = Listed \ {list[1]} /\ list[1] \in Listed
    <2>1. \A i \in DOMAIN list : i = 1 \/ (i - 1 \in DOMAIN list' /\ list'[i - 1] = list[i])
      BY <1>5
    <2>2. \A i \in DOMAIN list' : i + 1 \in DOMAIN list /\ i + 1 # 1 /\ list'[i] = list[i + 1]
      BY <1>5
    <2>3. 1 \in DOMAIN list
      BY <1>5
    <2> QED
      BY <2>1, <2>2, <2>3 DEF Listed, Chain
  <1>9. Chain'
    <2>1. ASSUME NEW i \in DOMAIN list', NEW j \in DOMAIN list', list'[i] = list'[j]
          PROVE  i = j
      <3>1. /\ i + 1 \in DOMAIN list /\ list'[i] = list[i + 1]
            /\ j + 1 \in DOMAIN list /\ list'[j] = list[j + 1]
        BY <1>5
      <3>2. i + 1 = j + 1
        BY <2>1, <3>1 DEF Chain
      <3> QED
        BY <1>5, <3>2
    <2>2. \A i \in 0 .. Len(list') :
             Link(i)'.data = IF i < Len(list') THEN list'[i + 1] ELSE Null
      BY <1>5, <1>6 DEF Chain
    <2> QED
      BY <2>1, <2>2 DEF Chain
  <1> QED
    BY <1>1, <1>2, <1>3, <1>7, <1>8, <1>9

(* The steps that neither link nor unlink a node leave the list alone.     *)
Quiet(t) ==
  \/ PushLoad(t) \/ PushNew(t) \/ PushLink(t) \/ PushRetry(t) \/ PopLoad(t)
  \/ PopEmpty(t) \/ PopRead(t) \/ PopRetry(t) \/ PopFree(t) \/ PopReturn(t)

LEMMA ListQuiet ==
  ASSUME TypeOK, Chain, Apart, NEW t \in Threads, Quiet(t)
  PROVE  Chain' /\ Listed' = Listed /\ Links' = Links
PROOF
  <1>1. UNCHANGED <<head, list>>
    BY DEF Quiet, PushLoad, PushNew, PushLink, PushRetry, PopLoad, PopEmpty,
           PopRead, PopRetry, PopFree, PopReturn
  <1>2. ASSUME PushLink(t) PROVE \A a \in Listed : next'[a] = next[a]
    <2>1. new[t].data \notin Listed
      BY <1>2 DEF PushLink, Apart, Private
    <2> QED
      BY <1>2, <2>1, LinksLead DEF PushLink, TypeOK
  <1>3. PushLink(t) \/ next' = next
    BY DEF Quiet, PushLoad, PushNew, PushRetry, PopLoad, PopEmpty, PopRead,
           PopRetry, PopFree, PopReturn, nodes
  <1> QED
    BY <1>1, <1>2, <1>3, ListKept

(* The node of a push, and the one a pop has taken, are neither free nor   *)
(* listed nor another call's; the pointer of the push is no link.          *)
LEMMA PrivateNodes ==
  ASSUME TypeOK, LocalsInv, Chain, Apart
  PROVE  \A t \in Threads :
           /\ t \in Pushing =>
                /\ new[t].data \in Addresses /\ new[t].data \notin heap \cup Listed
                /\ new[t] \notin Links
                /\ \A u \in Threads \ {t} : u \in Pushing => new[u].data # new[t].data
                /\ \A u \in Threads : pc[u] = "pop_free" => old[u].data # new[t].data
           /\ pc[t] = "pop_free" =>
                /\ old[t].data \in Addresses /\ old[t].data \notin heap \cup Listed
PROOF
  <1> SUFFICES ASSUME NEW t \in Threads
               PROVE  /\ t \in Pushing =>
                           /\ new[t].data \in Addresses
                           /\ new[t].data \notin heap \cup Listed
                           /\ new[t] \notin Links
                           /\ \A u \in Threads \ {t} : u \in Pushing => new[u].data # new[t].data
                           /\ \A u \in Threads : pc[u] = "pop_free" => old[u].data # new[t].data
                      /\ pc[t] = "pop_free" =>
                           /\ old[t].data \in Addresses
                           /\ old[t].data \notin heap \cup Listed
    OBVIOUS
  <1>1. \A u \in Threads : u \in Pushing => Private(u) = {new[u].data}
    BY DEF Pushing, Private
  <1>2. \A u \in Threads : pc[u] = "pop_free" => u \notin Pushing /\ Private(u) = {old[u].data}
    BY DEF Pushing, Private
  <1>3. ASSUME t \in Pushing
        PROVE  /\ new[t].data \in Addresses /\ new[t].data \notin heap \cup Listed
               /\ \A u \in Threads \ {t} : u \in Pushing => new[u].data # new[t].data
               /\ \A u \in Threads : pc[u] = "pop_free" => old[u].data # new[t].data
    BY <1>1, <1>2, <1>3 DEF Apart, LocalsInv
  <1>4. ASSUME t \in Pushing PROVE new[t] \notin Links
    BY <1>3, <1>4, LinksLead, StackAssumption
  <1>5. ASSUME pc[t] = "pop_free"
        PROVE  old[t].data \in Addresses /\ old[t].data \notin heap \cup Listed
    <2>1. old[t].data # Null /\ old[t].data \in Addresses \cup {Null}
      BY <1>5 DEF LocalsInv, TypeOK, Tagged
    <2> QED
      BY <1>2, <1>5, <2>1 DEF Apart
  <1> QED
    BY <1>3, <1>4, <1>5

LEMMA LocalsStep ==
  ASSUME TypeOK, ListInv, [Next]_vars
  PROVE  LocalsInv'
PROOF
  <1> USE DEF ListInv
  <1>1. ASSUME NEW t \in Threads, PushNew(t) PROVE LocalsInv'
    <2>1. PICK a \in heap, v \in Values :
            /\ value' = [value EXCEPT ![a] = v]
            /\ new' = [new EXCEPT ![t] = [data |-> a, counter |-> DrawTag]]
      BY <1>1 DEF PushNew
    <2>2. a \in Addresses /\ value'[a] = v /\ \A b \in Addresses : b # a => value'[b] = value[b]
      BY <2>1 DEF TypeOK
    <2>3. /\ pc' = [pc EXCEPT ![t] = "push_link"] /\ pc[t] = "push_new"
          /\ UNCHANGED <<next, old, got>>
      BY <1>1 DEF PushNew, Goto
    <2>4. ASSUME NEW u \in Threads, u # t
          PROVE  /\ pc'[u] = pc[u] /\ new'[u] = new[u]
                 /\ u \in Pushing => value'[new[u].data] = value[new[u].data]
                 /\ pc[u] = "pop_free" => value'[old[u].data] = value[old[u].data]
      BY <2>1, <2>2, <2>3, <2>4, PrivateNodes DEF TypeOK
    <2>5. pc'[t] = "push_link" /\ new'[t].data = a
      BY <2>1, <2>3 DEF TypeOK
    <2> QED
      BY <2>2, <2>3, <2>4, <2>5 DEF LocalsInv, Pushing
  <1>2. ASSUME NEW t \in Threads, PushLink(t) PROVE LocalsInv'
    <2>1. /\ pc[t] = "push_link" /\ pc' = [pc EXCEPT ![t] = "push_cas"]
          /\ next' = [next EXCEPT ![new[t].data] = old[t]]
          /\ UNCHANGED <<value, old, new, got>>
      BY <1>2 DEF PushLink, Goto, locals
    <2>2. \A u \in Threads \ {t} : u \in Pushing => next'[new[u].data] = next[new[u].data]
      BY <2>1, PrivateNodes DEF TypeOK, Pushing
    <2>3. next'[new[t].data] = old[t]
      BY <2>1, PrivateNodes DEF TypeOK, Pushing
    <2> QED
      BY <2>1, <2>2, <2>3 DEF LocalsInv, Pushing, TypeOK
  <1>3. ASSUME NEW t \in Threads, PopTake(t) PROVE LocalsInv'
    <2>1. value[old[t].data] \in Values
      BY <1>3, ListPop DEF ItemsKept
    <2> QED
      BY <1>3, <2>1 DEF LocalsInv, Pushing, PopTake, Goto, nodes, locals, TypeOK
  <1>4. ASSUME NEW t \in Threads, PopFree(t) PROVE LocalsInv'
    BY <1>4, StackAssumption DEF LocalsInv, Pushing, PopFree, Goto, TypeOK
  <1>5. ASSUME NEW t \in Threads, PushDone(t) \/ PopEmpty(t) \/ PopReturn(t)
        PROVE  LocalsInv'
    BY <1>5 DEF LocalsInv, Pushing, PushDone, PopEmpty, PopReturn, Return, Goto,
                nodes, TypeOK
  <1>6. ASSUME NEW t \in Threads, PushLoad(t) \/ PushRetry(t) \/ PopLoad(t) \/ PopRetry(t)
        PROVE  LocalsInv'
    BY <1>6 DEF LocalsInv, Pushing, PushLoad, PushRetry, PopLoad, PopRetry, Goto,
                nodes, TypeOK
  <1>7. ASSUME NEW t \in Threads, PopRead(t) PROVE LocalsInv'
    BY <1>7 DEF LocalsInv, Pushing, PopRead, Goto, nodes, TypeOK
  <1>8. CASE UNCHANGED vars
    BY <1>8 DEF vars, nodes, locals, LocalsInv, Pushing
  <1> QED
    BY <1>1, <1>2, <1>3, <1>4, <1>5, <1>6, <1>7, <1>8 DEF Next, CallStep

(* A node goes from one of the three places to another: Apart is kept.     *)
LEMMA ApartKept ==
  ASSUME TypeOK, Apart, NEW t \in Threads, NEW x \in Addresses,
         \A u \in Threads \ {t} : Private(u)' = Private(u),
         \/ /\ heap' = heap /\ Listed' = Listed
            /\ Private(t)' = Private(t)
         \/ /\ x \in heap /\ heap' = heap \ {x} /\ Listed' = Listed
            /\ Private(t) = {} /\ Private(t)' = {x}
         \/ /\ heap' = heap /\ Listed' = Listed \cup {x}
            /\ Private(t) = {x} /\ Private(t)' = {}
         \/ /\ heap' = heap /\ x \in Listed /\ Listed' = Listed \ {x}
            /\ Private(t) = {} /\ Private(t)' = {x}
         \/ /\ heap' = heap \cup {x} /\ Listed' = Listed
            /\ Private(t) = {x} /\ Private(t)' = {}
  PROVE  Apart'
PROOF
  <1>1. \A a \in Addresses : a \in heap' \cup Listed' \/ \E u \in Threads : a \in Private(u)'
    <2>1. TAKE a \in Addresses
    <2>2. CASE a \in heap \cup Listed
      BY <2>2
    <2>3. CASE \E u \in Threads : a \in Private(u)
      BY <2>3
    <2> QED
      BY <2>2, <2>3 DEF Apart
  <1>2. heap' \subseteq Addresses /\ Listed' \subseteq Addresses
    BY DEF Apart
  <1>3. \A u \in Threads : Private(u)' \subseteq Addresses
    BY DEF Apart
  <1>4. heap' \cap Listed' = {}
    BY DEF Apart
  <1>5. \A u \in Threads : Private(u)' \cap (heap' \cup Listed') = {}
    BY DEF Apart
  <1>6. \A u, v \in Threads : u # v => Private(u)' \cap Private(v)' = {}
    BY DEF Apart
  <1>7. Addresses = heap' \cup Listed' \cup UNION {Private(u)' : u \in Threads}
    BY <1>1, <1>2, <1>3
  <1> QED
    BY <1>4, <1>5, <1>6, <1>7 DEF Apart

LEMMA ApartStep ==
  ASSUME TypeOK, TypeOK', ListInv, [Next]_vars
  PROVE  Apart'
PROOF
  <1> USE DEF ListInv
  <1>1. ASSUME NEW t \in Threads, PushNew(t) PROVE Apart'
    <2>1. PICK a \in heap :
            heap' = heap \ {a} /\ \E n : n.data = a /\ new' = [new EXCEPT ![t] = n]
      BY <1>1 DEF PushNew
    <2>2. Private(t) = {} /\ Private(t)' = {a}
      BY <1>1, <2>1 DEF PushNew, Goto, Private, TypeOK
    <2>3. \A u \in Threads \ {t} : Private(u)' = Private(u)
      BY <1>1, <2>1 DEF PushNew, Goto, Private, TypeOK
    <2> QED
      BY <1>1, <2>1, <2>2, <2>3, ListQuiet, ApartKept DEF Quiet, TypeOK
  <1>2. ASSUME NEW t \in Threads, PushDone(t) PROVE Apart'
    <2>1. heap' = heap /\ Private(t) = {new[t].data} /\ Private(t)' = {}
      BY <1>2 DEF PushDone, Return, Goto, Private, nodes, TypeOK
    <2>2. \A u \in Threads \ {t} : Private(u)' = Private(u)
      BY <1>2 DEF PushDone, Return, Goto, Private, TypeOK
    <2>3. new[t].data \in Addresses
      BY <1>2 DEF PushDone, LocalsInv, Pushing
    <2> QED
      BY <1>2, <2>1, <2>2, <2>3, ListPush, ApartKept
  <1>3. ASSUME NEW t \in Threads, PopTake(t) PROVE Apart'
    <2>1. heap' = heap /\ Private(t) = {} /\ Private(t)' = {old[t].data}
      BY <1>3 DEF PopTake, Goto, Private, nodes, locals, TypeOK
    <2>2. \A u \in Threads \ {t} : Private(u)' = Private(u)
      BY <1>3 DEF PopTake, Goto, Private, locals, TypeOK
    <2>3. old[t].data \in Listed /\ Listed' = Listed \ {old[t].data}
      BY <1>3, ListPop
    <2>4. old[t].data \in Addresses
      BY <2>3, LinksLead
    <2> QED
      BY <2>1, <2>2, <2>3, <2>4, ApartKept
  <1>4. ASSUME NEW t \in Threads, PopFree(t) PROVE Apart'
    <2>1. /\ heap' = heap \cup {old[t].data}
          /\ Private(t) = {old[t].data} /\ Private(t)' = {}
      BY <1>4 DEF PopFree, Goto, Private, TypeOK
    <2>2. \A u \in Threads \ {t} : Private(u)' = Private(u)
      BY <1>4 DEF PopFree, Goto, Private, TypeOK
    <2>3. old[t].data \in Addresses
      BY <1>4, PrivateNodes DEF PopFree
    <2> QED
      BY <1>4, <2>1, <2>2, <2>3, ListQuiet, ApartKept DEF Quiet
  <1>5. ASSUME \A u \in Threads : Private(u)' = Private(u), heap' = heap, Listed' = Listed
        PROVE  Apart'
    BY <1>5 DEF Apart
  <1>6. ASSUME NEW t \in Threads,
               \/ PushLoad(t) \/ PushLink(t) \/ PushRetry(t) \/ PopLoad(t)
               \/ PopEmpty(t) \/ PopRead(t) \/ PopRetry(t) \/ PopReturn(t)
        PROVE  Apart'
    <2>1. heap' = heap /\ \A u \in Threads : Private(u)' = Private(u)
      BY <1>6
      DEF PushLoad, PushLink, PushRetry, PopLoad, PopEmpty, PopRead, PopRetry,
          PopReturn, Return, Goto, Private, nodes, locals, TypeOK
    <2> QED
      BY <1>5, <1>6, <2>1, ListQuiet DEF Quiet
  <1>7. CASE UNCHANGED vars
    BY <1>5, <1>7 DEF vars, nodes, locals, Private, Listed
  <1> QED
    BY <1>1, <1>2, <1>3, <1>4, <1>6, <1>7 DEF Next, CallStep

(* The tags: an old_head comes from the list, and the pointer of a push is *)
(* made of a tag that no pointer had.                                      *)
LEMMA TagsStep ==
  ASSUME TypeOK, TypeOK', ListInv, [Next]_vars
  PROVE  TagsInv'
PROOF
  <1> USE DEF ListInv
  <1>0. /\ NullPtr.data = Null /\ counter \in Nat
        /\ \A t \in Pushing : new[t].data # Null /\ new[t].counter \in Nat
    BY StackAssumption, PrivateNodes DEF NullPtr, TypeOK, Pushing, Tagged, Tags
  <1>1. ASSUME NEW t \in Threads, PushNew(t) PROVE TagsInv'
    <2>1. PICK a \in heap : new' = [new EXCEPT ![t] = [data |-> a, counter |-> counter]]
      BY <1>1 DEF PushNew, DrawTag
    <2>2. Pushing' = Pushing \cup {t} /\ old' = old /\ counter' = counter + 1
      BY <1>1 DEF PushNew, Goto, Pushing, TypeOK
    <2>3. new'[t].data = a /\ new'[t].counter = counter /\ a # Null
      BY <2>1, StackAssumption DEF TypeOK
    <2>4. \A u \in Threads : u # t => new'[u] = new[u]
      BY <2>1 DEF TypeOK
    <2>5. \A u \in Threads : old[u].data # Null => old[u].counter < counter
      BY DEF TagsInv
    <2>6. \A u \in Threads : old[u] # new'[t]
      BY <1>0, <2>3, <2>5
    <2>7. Links' = Links
      BY <1>1, ListQuiet DEF Quiet
    <2>8. \A p \in Links \cup {old[u] : u \in Threads} : p.data # Null =>
             p.counter < counter + 1
      <3>1. \A p \in Links \cup {old[u] : u \in Threads} : p \in Tagged
        BY DEF Links, Link, TypeOK
      <3> QED
        BY <1>0, <3>1 DEF TagsInv, Tagged, Tags
    <2>9. ASSUME NEW u \in Pushing'
          PROVE  new'[u].counter < counter + 1 /\ \A v \in Threads : old[v] # new'[u]
      <3>1. CASE u = t
        BY <1>0, <2>3, <2>6, <3>1
      <3>2. CASE u # t
        <4>1. u \in Pushing /\ u \in Threads /\ new'[u] = new[u]
          BY <2>2, <2>4, <2>9, <3>2 DEF Pushing
        <4> QED
          BY <1>0, <4>1 DEF TagsInv
      <3> QED
        BY <3>1, <3>2
    <2> QED
      BY <2>2, <2>7, <2>8, <2>9 DEF TagsInv
  <1>2. ASSUME NEW t \in Threads, PushDone(t) PROVE TagsInv'
    <2>1. /\ t \in Pushing /\ Pushing' = Pushing \ {t} /\ counter' = counter
          /\ old' = [old EXCEPT ![t] = NullPtr]
          /\ \A u \in Threads : u # t => new'[u] = new[u]
      BY <1>2 DEF PushDone, Return, Goto, Pushing, TypeOK
    <2>2. Links' = Links \cup {new[t]}
      BY <1>2, ListPush
    <2>3. \A u \in Threads : old'[u] = old[u] \/ old'[u] = NullPtr
      BY <2>1 DEF TypeOK
    <2>4. \A p \in Links' \cup {old'[u] : u \in Threads} : p.data # Null => p.counter < counter
      BY <1>0, <2>1, <2>2, <2>3 DEF TagsInv
    <2>5. \A u \in Pushing' : /\ new'[u].counter < counter
                              /\ \A v \in Threads : old'[v] # new'[u]
      BY <1>0, <2>1, <2>3 DEF TagsInv, Pushing
    <2> QED
      BY <2>1, <2>4, <2>5 DEF TagsInv
  <1>3. ASSUME Pushing' \subseteq Pushing, counter' = counter, Links' \subseteq Links,
               \A u \in Pushing' : new'[u] = new[u],
               \A u \in Threads : old'[u] \in {old[u], NullPtr, head}
        PROVE  TagsInv'
    <2>1. \A p \in Links' \cup {old'[u] : u \in Threads} : p.data # Null => p.counter < counter
      BY <1>0, <1>3, LinksLead DEF TagsInv
    <2>2. \A u \in Pushing : head # new[u] /\ NullPtr # new[u]
      BY <1>0, LinksLead, PrivateNodes DEF Pushing
    <2>3. \A u \in Pushing' : /\ new'[u].counter < counter
                              /\ \A v \in Threads : old'[v] # new'[u]
      BY <1>3, <2>2 DEF TagsInv
    <2> QED
      BY <1>3, <2>1, <2>3 DEF TagsInv
  <1>4. ASSUME NEW t \in Threads, PopTake(t) PROVE TagsInv'
    <2>1. Links' \subseteq Links
      BY <1>4, ListPop
    <2>2. /\ Pushing' \subseteq Pushing /\ counter' = counter
          /\ new' = new /\ old' = old
      BY <1>4 DEF PopTake, Goto, Pushing, locals, TypeOK
    <2> QED
      BY <1>3, <2>1, <2>2
  <1>5. ASSUME NEW t \in Threads, Quiet(t), ~ PushNew(t) PROVE TagsInv'
    <2>1. Links' = Links
      BY <1>5, ListQuiet
    <2>2. /\ Pushing' \subseteq Pushing /\ counter' = counter
          /\ \A u \in Pushing' : new'[u] = new[u]
      BY <1>5
      DEF Quiet, PushLoad, PushLink, PushRetry, PopLoad, PopEmpty, PopRead,
          PopRetry, PopFree, PopReturn, Return, Goto, Pushing, locals, TypeOK
    <2>3. \A u \in Threads : old'[u] \in {old[u], NullPtr, head}
      BY <1>5
      DEF Quiet, PushLoad, PushLink, PushRetry, PopLoad, PopEmpty, PopRead,
          PopRetry, PopFree, PopReturn, Return, locals, TypeOK
    <2> QED
      BY <1>3, <2>1, <2>2, <2>3
  <1>6. CASE UNCHANGED vars
    <2>1. Links' = Links /\ Pushing' = Pushing
      BY <1>6 DEF vars, nodes, Links, Link, Pushing
    <2> QED
      BY <1>3, <1>6, <2>1 DEF vars, locals
  <1> QED
    BY <1>1, <1>2, <1>4, <1>5, <1>6 DEF Next, CallStep, Quiet

LEMMA ReadsStep ==
  ASSUME TypeOK, TypeOK', ListInv, [Next]_vars
  PROVE  ReadsNext'
PROOF
  <1> USE DEF ListInv
  <1>1. ASSUME \A u \in Threads : /\ pc'[u] = "pop_cas" => /\ pc[u] = "pop_cas"
                                                           /\ old'[u] = old[u]
                                                           /\ new'[u] = new[u]
                                  /\ pc[u] = "pop_cas" /\ old[u] \in Links' => old[u] \in Links,
               \A a \in Listed : next'[a] = next[a]
        PROVE  ReadsNext'
    <2>1. \A u \in Threads : pc[u] = "pop_cas" /\ old[u] \in Links =>
             old[u].data \in Listed
      BY LinksLead DEF LocalsInv
    <2> QED
      BY <1>1, <2>1 DEF ReadsNext
  <1>2. ASSUME NEW t \in Threads, PopRead(t) PROVE ReadsNext'
    <2>1. Links' = Links /\ next' = next /\ old' = old
      BY <1>2, ListQuiet DEF Quiet, PopRead, nodes
    <2>2. ASSUME old[t] \in Links PROVE new'[t] = next[old[t].data]
      <3>1. old[t].data \in Listed
        BY <1>2, <2>2, LinksLead DEF PopRead
      <3>2. old[t].data \notin Unstable
        BY <3>1, PrivateNodes DEF Unstable, Apart, Pushing
      <3> QED
        BY <1>2, <3>2 DEF PopRead, TypeOK
    <2>3. \A u \in Threads \ {t} : pc'[u] = pc[u] /\ new'[u] = new[u]
      BY <1>2 DEF PopRead, Goto, TypeOK
    <2> QED
      BY <2>1, <2>2, <2>3 DEF ReadsNext
  <1>3. ASSUME NEW t \in Threads, PushDone(t) PROVE ReadsNext'
    <2>1. Links' = Links \cup {new[t]} /\ next' = next
      BY <1>3, ListPush DEF PushDone, nodes
    <2>2. \A u \in Threads : old[u] # new[t]
      BY <1>3 DEF PushDone, TagsInv, Pushing
    <2> QED
      BY <1>1, <1>3, <2>1, <2>2 DEF PushDone, Return, Goto, TypeOK
  <1>4. ASSUME NEW t \in Threads, PopTake(t) PROVE ReadsNext'
    <2>1. Links' \subseteq Links /\ next' = next
      BY <1>4, ListPop DEF PopTake, nodes
    <2> QED
      BY <1>1, <1>4, <2>1 DEF PopTake, Goto, locals, TypeOK
  <1>5. ASSUME NEW t \in Threads, Quiet(t), ~ PopRead(t) PROVE ReadsNext'
    <2>1. Links' = Links
      BY <1>5, ListQuiet
    <2>2. \A a \in Listed : next'[a] = next[a]
      <3>1. CASE PushLink(t)
        BY <3>1, LinksLead, PrivateNodes DEF PushLink, Pushing, TypeOK
      <3>2. CASE ~ PushLink(t)
        BY <1>5, <3>2
        DEF Quiet, PushLoad, PushNew, PushRetry, PopLoad, PopEmpty, PopRetry,
            PopFree, PopReturn, nodes
      <3> QED
        BY <3>1, <3>2
    <2>3. \A u \in Threads : pc'[u] = "pop_cas" =>
             pc[u] = "pop_cas" /\ old'[u] = old[u] /\ new'[u] = new[u]
      BY <1>5
      DEF Quiet, PushLoad, PushNew, PushLink, PushRetry, PopLoad, PopEmpty,
          PopRetry, PopFree, PopReturn, Return, Goto, locals, TypeOK
    <2> QED
      BY <1>1, <2>1, <2>2, <2>3
  <1>6. CASE UNCHANGED vars
    <2>1. Links' = Links
      BY <1>6 DEF vars, nodes, Links, Link
    <2> QED
      BY <1>1, <1>6, <2>1 DEF vars, nodes, locals
  <1> QED
    BY <1>2, <1>3, <1>4, <1>5, <1>6 DEF Next, CallStep, Quiet

LEMMA ItemsStep ==
  ASSUME TypeOK, TypeOK', ListInv, [Next]_vars
  PROVE  ItemsKept'
PROOF
  <1> USE DEF ListInv
  <1>1. ASSUME NEW t \in Threads, PushNew(t) PROVE ItemsKept'
    <2>1. Listed' = Listed
      BY <1>1, ListQuiet DEF Quiet
    <2>2. \A a \in Listed : value'[a] = value[a]
      BY <1>1, LinksLead DEF PushNew, Apart, TypeOK
    <2> QED
      BY <2>1, <2>2 DEF ItemsKept
  <1>2. ASSUME NEW t \in Threads, PushDone(t) PROVE ItemsKept'
    <2>1. Listed' = Listed \cup {new[t].data} /\ value' = value
      BY <1>2, ListPush DEF PushDone, nodes
    <2> QED
      BY <1>2, <2>1 DEF ItemsKept, LocalsInv, Pushing, PushDone
  <1>3. ASSUME NEW t \in Threads, PopTake(t) PROVE ItemsKept'
    BY <1>3, ListPop DEF ItemsKept, PopTake, nodes
  <1>4. ASSUME NEW t \in Threads, Quiet(t), ~ PushNew(t) PROVE ItemsKept'
    <2>1. value' = value
      BY <1>4
      DEF Quiet, PushLoad, PushLink, PushRetry, PopLoad, PopEmpty, PopRead,
          PopRetry, PopFree, PopReturn, nodes
    <2> QED
      BY <1>4, <2>1, ListQuiet DEF ItemsKept
  <1>5. CASE UNCHANGED vars
    BY <1>5 DEF vars, nodes, ItemsKept, Listed
  <1> QED
    BY <1>1, <1>2, <1>3, <1>4, <1>5 DEF Next, CallStep, Quiet

LEMMA ChainStep ==
  ASSUME TypeOK, TypeOK', ListInv, [Next]_vars
  PROVE  Chain'
PROOF
  <1> USE DEF ListInv
  <1>1. ASSUME NEW t \in Threads, PushDone(t) PROVE Chain'
    BY <1>1, ListPush
  <1>2. ASSUME NEW t \in Threads, PopTake(t) PROVE Chain'
    BY <1>2, ListPop
  <1>3. ASSUME NEW t \in Threads, Quiet(t) PROVE Chain'
    BY <1>3, ListQuiet
  <1>4. CASE UNCHANGED vars
    BY <1>4, ListKept DEF vars, nodes
  <1> QED
    BY <1>1, <1>2, <1>3, <1>4 DEF Next, CallStep, Quiet

LEMMA ListInvInit == Init => ListInv
PROOF
  <1> SUFFICES ASSUME Init PROVE ListInv
    OBVIOUS
  <1> USE StackAssumption DEF Init
  <1>1. /\ Len(list) = 0 /\ DOMAIN list = {} /\ 0 .. Len(list) = {0}
        /\ Link(0) = NullPtr
    BY DEF Link
  <1>2. Listed = {} /\ Links = {NullPtr} /\ Pushing = {} /\ \A t \in Threads : Private(t) = {}
    BY <1>1 DEF Listed, Links, Pushing, Private
  <1>3. LocalsInv
    BY <1>2 DEF LocalsInv
  <1>4. Chain
    BY <1>1 DEF Chain, NullPtr
  <1>5. Apart
    BY <1>2 DEF Apart
  <1>6. TagsInv
    BY <1>2 DEF TagsInv, NullPtr
  <1>7. ReadsNext /\ ItemsKept
    BY <1>2 DEF ReadsNext, ItemsKept
  <1> QED
    BY <1>3, <1>4, <1>5, <1>6, <1>7 DEF ListInv

LEMMA ListInvStep == TypeInv /\ ListInv /\ [Next]_vars => TypeInv' /\ ListInv'
PROOF
  <1> SUFFICES ASSUME TypeInv, ListInv, [Next]_vars PROVE TypeInv' /\ ListInv'
    OBVIOUS
  <1>1. TypeInv' /\ TypeOK /\ TypeOK'
    BY TypeInvStep DEF ListInv, TypeInv
  <1>2. LocalsInv' /\ Chain' /\ Apart' /\ TagsInv' /\ ReadsNext' /\ ItemsKept'
    BY <1>1, LocalsStep, ChainStep, ApartStep, TagsStep, ReadsStep, ItemsStep
  <1> QED
    BY <1>1, <1>2 DEF ListInv

LEMMA ListInvAlways == Spec => [](TypeInv /\ ListInv)
PROOF
  BY TypeInvInit, ListInvInit, ListInvStep, PTL DEF Spec

-------------------------------------------------------------------------------
(* What holds of every behaviour.                                          *)

(* The tags that the pushes draw stay below the number of pushes called.   *)
THEOREM StackTyping == Spec => []TypeOK
PROOF
  <1>1. TypeInv => TypeOK
    BY DEF TypeInv
  <1> QED
    BY <1>1, ListInvAlways, PTL

(* No node of the stack is leaked, deleted twice or linked after it was    *)
(* deleted, and the pointers from head_ on are exactly the nodes pushed    *)
(* and not popped, the last one first.                                     *)
THEOREM StackKeepsNodes == Spec => []NodesAccounted
PROOF
  <1>1. ListInv => NodesAccounted
    BY DEF ListInv, Chain, Apart, NodesAccounted
  <1> QED
    BY <1>1, ListInvAlways, PTL

(* No unprotected read of a node that changed hands gets into head_: the   *)
(* tag makes the exchange of such a pop fail.                              *)
THEOREM StackPopPutsNext == Spec => PopPutsNext
PROOF
  <1> DEFINE Puts == \A t \in Threads :
               pc[t] = "pop_cas" /\ pc'[t] = "pop_free" => head' = next[head.data]
  <1>1. ASSUME TypeOK, ListInv, [Next]_vars PROVE Puts
    <2> SUFFICES ASSUME NEW t \in Threads, pc[t] = "pop_cas", pc'[t] = "pop_free"
                 PROVE  head' = next[head.data]
      OBVIOUS
    <2>1. ASSUME NEW u \in Threads, PopTake(u) PROVE head' = next[head.data]
      BY <1>1, <2>1, ListPop DEF PopTake, ListInv
    <2>2. ASSUME NEW u \in Threads, PushDone(u) PROVE FALSE
      BY <1>1, <2>2 DEF PushDone, Return, Goto, TypeOK
    <2>3. ASSUME NEW u \in Threads, Quiet(u) PROVE FALSE
      BY <1>1, <2>3
      DEF Quiet, PushLoad, PushNew, PushLink, PushRetry, PopLoad, PopEmpty,
          PopRead, PopRetry, PopFree, PopReturn, Return, Goto, TypeOK
    <2>4. ~ UNCHANGED vars
      BY DEF vars
    <2> QED
      BY <1>1, <2>1, <2>2, <2>3, <2>4 DEF Next, CallStep, Quiet
  <1>2. TypeInv /\ ListInv /\ [Next]_vars => [Puts]_vars
    BY <1>1 DEF TypeInv
  <1> QED
    BY <1>2, ListInvAlways, PTL DEF Spec, PopPutsNext

-------------------------------------------------------------------------------
(* The refinement.                                                         *)

TakenBy == [t \in Threads |-> Taken(t)]

LEMMA LifoInit == Init => Abstract!Init
PROOF
  <1> SUFFICES ASSUME Init PROVE Abstract!Init
    OBVIOUS
  <1>1. TheItems = <<>>
    BY DEF Init, TheItems
  <1>2. \A t \in Threads : Taken(t) = Null
    BY DEF Init, Taken
  <1> QED
    BY <1>1, <1>2 DEF Abstract!Init

LEMMA ItemsAreASequence ==
  ASSUME NEW l \in Seq(Addresses), NEW val, \A i \in DOMAIN l : val[l[i]] \in Values,
         NEW its, its = [i \in DOMAIN l |-> val[l[i]]]
  PROVE  /\ its \in Seq(Values) /\ Len(its) = Len(l)
         /\ \A i \in 1 .. Len(l) : its[i] = val[l[i]]
PROOF
  <1>1. Len(l) \in Nat /\ DOMAIN l = 1 .. Len(l)
    OBVIOUS
  <1>2. its \in [1 .. Len(l) -> Values]
    BY <1>1
  <1>3. its \in Seq(Values)
    BY <1>1, <1>2, SeqDef
  <1>4. DOMAIN its = 1 .. Len(l) /\ DOMAIN its = 1 .. Len(its) /\ Len(its) \in Nat
    BY <1>1, <1>2, <1>3, LenProperties
  <1>5. Len(its) = Len(l)
    BY <1>1, <1>4
  <1> QED
    BY <1>1, <1>3, <1>5

(* The items of the list change when it does, not when a node is written   *)
(* that is not in it; what a call has taken changes for that call only.    *)
LEMMA ItemsStay ==
  ASSUME list' = list, \A a \in Listed : value'[a] = value[a]
  PROVE  TheItems' = TheItems
PROOF
  BY DEF TheItems, Listed

LEMMA PushIsPush ==
  ASSUME TypeOK, TypeOK', ListInv, ItemsKept', NEW t \in Threads, PushDone(t)
  PROVE  \E v \in Values : Abstract!Push(v)
PROOF
  <1> DEFINE a == new[t].data
             v == value[a]
  <1>1. a \in Addresses /\ v \in Values /\ value' = value /\ list' = <<a>> \o list
    BY DEF PushDone, nodes, ListInv, LocalsInv, Pushing
  <1>2. <<a>> \in Seq(Addresses) /\ Len(<<a>>) = 1 /\ <<a>>[1] = a
    BY <1>1
  <1>3. Len(list) \in Nat
    BY DEF TypeOK
  <1>4. /\ Len(list') = Len(list) + 1
        /\ \A i \in 1 .. Len(list) + 1 : list'[i] = IF i <= 1 THEN <<a>>[i] ELSE list[i - 1]
    BY <1>1, <1>2, ConcatProperties DEF TypeOK
  <1>5. /\ TheItems \in Seq(Values) /\ Len(TheItems) = Len(list)
        /\ \A i \in 1 .. Len(list) : TheItems[i] = value[list[i]]
    <2>1. list \in Seq(Addresses) /\ \A i \in DOMAIN list : value[list[i]] \in Values
      BY DEF ListInv, ItemsKept, Listed, TypeOK
    <2>2. TheItems = [i \in DOMAIN list |-> value[list[i]]]
      BY DEF TheItems
    <2> QED
      BY <2>1, <2>2, ItemsAreASequence
  <1>6. /\ TheItems' \in Seq(Values) /\ Len(TheItems') = Len(list')
        /\ \A i \in 1 .. Len(list') : TheItems'[i] = value'[list'[i]]
    <2>1. list' \in Seq(Addresses) /\ \A i \in DOMAIN list' : value'[list'[i]] \in Values
      BY DEF ItemsKept, Listed, TypeOK
    <2>2. TheItems' = [i \in DOMAIN list' |-> value'[list'[i]]]
      BY DEF TheItems
    <2> QED
      BY <2>1, <2>2, ItemsAreASequence
  <1>7. <<v>> \in Seq(Values) /\ Len(<<v>>) = 1 /\ <<v>>[1] = v
    BY <1>1
  <1> HIDE DEF a, v
  <1>8. /\ <<v>> \o TheItems \in Seq(Values)
        /\ Len(<<v>> \o TheItems) = Len(list) + 1
        /\ \A i \in 1 .. Len(list) + 1 :
             (<<v>> \o TheItems)[i] = IF i <= 1 THEN <<v>>[i] ELSE TheItems[i - 1]
    BY <1>5, <1>7, ConcatProperties
  <1>9. \A i \in 1 .. Len(list) + 1 : TheItems'[i] = (<<v>> \o TheItems)[i]
    <2>1. TAKE i \in 1 .. Len(list) + 1
    <2>2. CASE i = 1
      BY <1>1, <1>2, <1>3, <1>4, <1>6, <1>7, <1>8, <2>2 DEF v
    <2>3. CASE i # 1
      <3>1. i - 1 \in 1 .. Len(list) /\ ~ i <= 1 /\ i \in 1 .. Len(list')
        BY <1>3, <1>4, <2>3
      <3>2. list'[i] = list[i - 1] /\ TheItems'[i] = value[list[i - 1]]
        BY <1>1, <1>4, <1>6, <3>1
      <3>3. (<<v>> \o TheItems)[i] = TheItems[i - 1]
        BY <1>8, <3>1
      <3> QED
        BY <1>5, <3>1, <3>2, <3>3
    <2> QED
      BY <2>2, <2>3
  <1>10. TheItems' = <<v>> \o TheItems
    BY <1>4, <1>6, <1>8, <1>9, SeqEqual
  <1>11. \A u \in Threads : Taken(u)' = Taken(u)
    BY <1>1 DEF PushDone, Return, Goto, Taken, ListInv, LocalsInv, TypeOK
  <1> QED
    BY <1>1, <1>10, <1>11 DEF Abstract!Push, v

LEMMA TakeIsPop ==
  ASSUME TypeOK, ListInv, ItemsKept', TypeOK', NEW t \in Threads, PopTake(t)
  PROVE  Abstract!Pop(t)
PROOF
  <1>1. list # <<>> /\ old[t].data = list[1]
    BY TopOfList DEF PopTake, ListInv, LocalsInv
  <1>2. list' = Tail(list) /\ value' = value
    BY DEF PopTake, nodes
  <1>3. Len(list) \in Nat /\ Len(list) > 0
    BY <1>1 DEF TypeOK
  <1>4. /\ TheItems \in Seq(Values) /\ Len(TheItems) = Len(list)
        /\ \A i \in 1 .. Len(list) : TheItems[i] = value[list[i]]
    <2>1. list \in Seq(Addresses) /\ \A i \in DOMAIN list : value[list[i]] \in Values
      BY DEF ListInv, ItemsKept, Listed, TypeOK
    <2>2. TheItems = [i \in DOMAIN list |-> value[list[i]]]
      BY DEF TheItems
    <2> QED
      BY <2>1, <2>2, ItemsAreASequence
  <1>5. /\ TheItems' \in Seq(Values) /\ Len(TheItems') = Len(list')
        /\ \A i \in 1 .. Len(list') : TheItems'[i] = value'[list'[i]]
    <2>1. list' \in Seq(Addresses) /\ \A i \in DOMAIN list' : value'[list'[i]] \in Values
      BY DEF ItemsKept, Listed, TypeOK
    <2>2. TheItems' = [i \in DOMAIN list' |-> value'[list'[i]]]
      BY DEF TheItems
    <2> QED
      BY <2>1, <2>2, ItemsAreASequence
  <1>6. /\ Len(list') = Len(list) - 1
        /\ \A i \in 1 .. Len(list') : list'[i] = list[i + 1]
    BY <1>1, <1>2, HeadTailProperties DEF TypeOK
  <1>7. TheItems # <<>>
    BY <1>3, <1>4
  <1>8. /\ Tail(TheItems) \in Seq(Values) /\ Len(Tail(TheItems)) = Len(list) - 1
        /\ \A i \in 1 .. Len(list) - 1 : Tail(TheItems)[i] = TheItems[i + 1]
    BY <1>4, <1>7, HeadTailProperties
  <1>9. \A i \in 1 .. Len(list) - 1 : TheItems'[i] = Tail(TheItems)[i]
    BY <1>2, <1>3, <1>4, <1>5, <1>6, <1>8
  <1>10. TheItems' = Tail(TheItems)
    BY <1>5, <1>6, <1>8, <1>9, SeqEqual
  <1>11. Head(TheItems) = value[old[t].data]
    BY <1>1, <1>3, <1>4
  <1>12. /\ Taken(t) = Null /\ Taken(t)' = value[old[t].data]
         /\ \A u \in Threads : u # t => Taken(u)' = Taken(u)
    BY <1>2 DEF PopTake, Goto, Taken, locals, ListInv, LocalsInv, TypeOK
  <1>13. TakenBy' = [TakenBy EXCEPT ![t] = Head(TheItems)]
    BY <1>11, <1>12 DEF TakenBy
  <1>14. TakenBy[t] = Null
    BY <1>12 DEF TakenBy
  <1> QED
    BY <1>7, <1>10, <1>13, <1>14 DEF Abstract!Pop, TakenBy

LEMMA LifoStep ==
  TypeInv /\ ListInv /\ [Next]_vars => [Abstract!Next]_<<TheItems, TakenBy>>
PROOF
  <1> SUFFICES ASSUME TypeInv, ListInv, [Next]_vars
               PROVE  [Abstract!Next]_<<TheItems, TakenBy>>
    OBVIOUS
  <1>0. TypeOK /\ TypeOK' /\ ListInv'
    BY ListInvStep DEF TypeInv
  <1>1. ASSUME NEW t \in Threads, PushDone(t) PROVE Abstract!Next
    BY <1>0, <1>1, PushIsPush DEF Abstract!Next, ListInv
  <1>2. ASSUME NEW t \in Threads, PopTake(t) PROVE Abstract!Next
    BY <1>0, <1>2, TakeIsPop DEF Abstract!Next, ListInv
  <1>3. ASSUME NEW t \in Threads, PopReturn(t) PROVE Abstract!Next
    <2>1. TheItems' = TheItems
      BY <1>3 DEF PopReturn, nodes, TheItems
    <2>2. /\ Taken(t) # Null /\ Taken(t)' = Null
          /\ \A u \in Threads : u # t => Taken(u)' = Taken(u)
      BY <1>0, <1>3 DEF PopReturn, Return, Goto, Taken, nodes, ListInv, LocalsInv, TypeOK
    <2>3. TakenBy' = [TakenBy EXCEPT ![t] = Null] /\ TakenBy[t] # Null
      BY <2>2 DEF TakenBy
    <2> QED
      BY <2>1, <2>3 DEF Abstract!Next, Abstract!Deliver, TakenBy
  <1>4. ASSUME NEW t \in Threads, PushNew(t) PROVE UNCHANGED <<TheItems, TakenBy>>
    <2>1. PICK a \in heap, v \in Values : value' = [value EXCEPT ![a] = v]
      BY <1>4 DEF PushNew
    <2>2. list' = list /\ \A b \in Listed : value'[b] = value[b]
      BY <1>0, <1>4, <2>1, LinksLead DEF PushNew, ListInv, Apart, TypeOK
    <2>3. \A u \in Threads : pc[u] = "pop_free" => value'[old[u].data] = value[old[u].data]
      BY <1>0, <2>1, PrivateNodes DEF ListInv, TypeOK
    <2>4. \A u \in Threads : Taken(u)' = Taken(u)
      BY <1>0, <1>4, <2>3 DEF PushNew, Goto, Taken, TypeOK
    <2> QED
      BY <2>2, <2>4, ItemsStay DEF TakenBy
  <1>5. ASSUME NEW t \in Threads, PopFree(t) PROVE UNCHANGED <<TheItems, TakenBy>>
    <2>1. TheItems' = TheItems
      BY <1>5 DEF PopFree, TheItems
    <2>2. \A u \in Threads : Taken(u)' = Taken(u)
      BY <1>0, <1>5 DEF PopFree, Goto, Taken, TypeOK
    <2> QED
      BY <2>1, <2>2 DEF TakenBy
  <1>6. ASSUME NEW t \in Threads,
               \/ PushLoad(t) \/ PushLink(t) \/ PushRetry(t) \/ PopLoad(t)
               \/ PopEmpty(t) \/ PopRead(t) \/ PopRetry(t)
        PROVE  UNCHANGED <<TheItems, TakenBy>>
    <2>1. TheItems' = TheItems
      BY <1>6
      DEF PushLoad, PushLink, PushRetry, PopLoad, PopEmpty, PopRead, PopRetry,
          nodes, TheItems
    <2>2. \A u \in Threads : Taken(u)' = Taken(u)
      BY <1>0, <1>6
      DEF PushLoad, PushLink, PushRetry, PopLoad, PopEmpty, PopRead, PopRetry,
          Return, Goto, nodes, locals, Taken, ListInv, LocalsInv, TypeOK
    <2> QED
      BY <2>1, <2>2 DEF TakenBy
  <1>7. CASE UNCHANGED vars
    BY <1>7 DEF vars, nodes, locals, TheItems, TakenBy, Taken
  <1> QED
    BY <1>1, <1>2, <1>3, <1>4, <1>5, <1>6, <1>7 DEF Next, CallStep

(* The lock-free stack is a stack: a push puts its item on top, a pop that *)
(* succeeds takes the item on top and returns it once, for any number of   *)
(* threads, however often the addresses of its nodes are used again.       *)
THEOREM StackImplementsLifo == Spec => ImplementsLifo
PROOF
  BY LifoInit, LifoStep, ListInvAlways, PTL
  DEF Spec, ImplementsLifo, Abstract!Spec, TakenBy
===============================================================================
