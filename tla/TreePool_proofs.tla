---------------------------- MODULE TreePool_proofs ----------------------------
(***************************************************************************)
(* What TreePool guarantees for any number of threads, slots, children and *)
(* levels.                                                                 *)
(***************************************************************************)
EXTENDS TreePool, WellFoundedInduction, FiniteSetTheorems, SequenceTheorems, TLAPS

(* get_bit finds a raised bit in a mask that has one.                      *)
LEMMA LowestBitIsRaised ==
  ASSUME NEW m \in SUBSET Slots, m # {}
  PROVE  LowestBit(m) \in m
PROOF
  <1>1. m \subseteq Nat
    BY TreeAssumption DEF Slots
  <1> DEFINE Less == OpToRel(<, Nat)
  <1>2. IsWellFoundedOn(Less, Nat)
    BY NatLessThanWellFounded
  <1>3. \A r, s \in Nat : <<r, s>> \notin Less => s <= r
    BY DEF OpToRel
  <1> HIDE DEF Less
  <1>4. \E s \in m : \A r \in m : <<r, s>> \notin Less
    BY <1>1, <1>2, WFMin
  <1>5. \E s \in m : \A r \in m : s <= r
    BY <1>1, <1>3, <1>4
  <1> QED
    BY <1>5 DEF LowestBit

-------------------------------------------------------------------------------
(* Nodes as paths from the root.                                           *)

LEMMA NodeIsPath ==
  \A n : n \in Nodes <=> n \in Seq(Children) /\ Len(n) <= MaxDepth
PROOF
  <1> USE TreeAssumption
  <1>1. ASSUME NEW n \in Nodes PROVE n \in Seq(Children) /\ Len(n) <= MaxDepth
    <2>1. PICK d \in 0 .. MaxDepth : n \in [1 .. d -> Children]
      BY DEF Nodes
    <2>2. n \in Seq(Children) /\ Len(n) = d
      BY <2>1
    <2> QED
      BY <2>2
  <1>2. ASSUME NEW n \in Seq(Children), Len(n) <= MaxDepth PROVE n \in Nodes
    <2>1. Len(n) \in 0 .. MaxDepth /\ n \in [1 .. Len(n) -> Children]
      BY <1>2
    <2> QED
      BY <2>1 DEF Nodes
  <1> QED
    BY <1>1, <1>2

(* A child of a node, and the parent of a child.                           *)
LEMMA ChildOf ==
  ASSUME NEW n \in Nodes, NEW i \in Children
  PROVE  /\ Append(n, i) # Root
         /\ Parent(Append(n, i)) = n
         /\ IdOf(Append(n, i)) = i
PROOF
  <1> USE NodeIsPath
  <1>1. /\ Append(n, i) \in Seq(Children) /\ Len(Append(n, i)) = Len(n) + 1
        /\ Append(n, i)[Len(n) + 1] = i
        /\ \A k \in 1 .. Len(n) : Append(n, i)[k] = n[k]
    BY AppendProperties
  <1>2. Parent(Append(n, i)) = n
    <2>1. Parent(Append(n, i)) = SubSeq(Append(n, i), 1, Len(n))
      BY <1>1 DEF Parent
    <2> QED
      BY <1>1, <2>1
  <1> QED
    BY <1>1, <1>2 DEF IdOf, Root

LEMMA ParentOf ==
  ASSUME NEW n \in Nodes \ {Root}
  PROVE  /\ Parent(n) \in Nodes /\ IdOf(n) \in Children
         /\ Append(Parent(n), IdOf(n)) = n
PROOF
  <1> USE NodeIsPath
  <1>1. n \in Seq(Children) /\ Len(n) \in Nat /\ Len(n) >= 1 /\ Len(n) <= MaxDepth
    BY EmptySeq DEF Root
  <1>2. /\ Parent(n) \in Seq(Children) /\ Len(Parent(n)) = Len(n) - 1
        /\ \A k \in 1 .. Len(n) - 1 : Parent(n)[k] = n[k]
    <2> DEFINE m == Len(n) - 1
    <2>1. m \in Nat /\ \A k \in 1 .. m : n[k] \in Children
      BY <1>1
    <2>2. Parent(n) = SubSeq(n, 1, m)
      BY DEF Parent
    <2> HIDE NodeIsPath DEF m
    <2>3. m \in Nat
      BY <2>1
    <2>4. /\ m - 1 + 1 = m /\ (1 <= m \/ m = 0) /\ m \in Int /\ 1 \in Int
          /\ \A k \in 1 .. m : 1 + k - 1 = k
      BY <2>3
    <2>5. /\ SubSeq(n, 1, m) \in Seq(Children)
          /\ Len(SubSeq(n, 1, m)) = IF 1 <= m THEN m - 1 + 1 ELSE 0
          /\ \A k \in 1 .. m - 1 + 1 : SubSeq(n, 1, m)[k] = n[1 + k - 1]
      BY <2>1, <2>4, SubSeqProperties
    <2>6. /\ Parent(n) \in Seq(Children) /\ Len(Parent(n)) = m
          /\ \A k \in 1 .. m : Parent(n)[k] = n[k]
      BY <2>2, <2>4, <2>5
    <2> QED
      BY <2>6 DEF m
  <1>3. IdOf(n) \in Children
    BY <1>1 DEF IdOf
  <1>4. Append(Parent(n), IdOf(n)) = n
    BY <1>1, <1>2, <1>3, AppendProperties DEF IdOf
  <1> QED
    BY <1>1, <1>2, <1>3, <1>4, TreeAssumption

LEMMA UnderRoot == \A c \in Nodes : Under(c, Root) => c = Root
PROOF
  BY NodeIsPath DEF Under, Root

LEMMA UnderItself == \A n \in Nodes : Under(n, n)
PROOF
  BY NodeIsPath DEF Under

LEMMA UnderChild ==
  ASSUME NEW c \in Nodes, NEW n \in Nodes, NEW i \in Children
  PROVE  Under(c, Append(n, i)) <=> c = Append(n, i) \/ Under(c, n)
PROOF
  <1> USE NodeIsPath
  <1> DEFINE m == Append(n, i)
  <1>1. /\ m \in Seq(Children) /\ Len(m) = Len(n) + 1
        /\ \A k \in 1 .. Len(n) : m[k] = n[k]
    BY AppendProperties
  <1>2. Len(c) \in Nat /\ Len(n) \in Nat /\ c \in Seq(Children) /\ n \in Seq(Children)
    OBVIOUS
  <1> HIDE DEF m
  <1>3. CASE Len(c) <= Len(n)
    <2>1. SubSeq(m, 1, Len(c)) = SubSeq(n, 1, Len(c))
      BY <1>1, <1>2, <1>3
    <2> QED
      BY <1>1, <1>2, <1>3, <2>1 DEF Under, m
  <1>4. CASE Len(c) = Len(n) + 1
    <2>1. SubSeq(m, 1, Len(c)) = m
      BY <1>1, <1>2, <1>4
    <2>2. Under(c, m) <=> m = c
      BY <1>1, <1>4, <2>1 DEF Under
    <2>3. ~Under(c, n)
      BY <1>2, <1>4 DEF Under
    <2> QED
      BY <2>2, <2>3 DEF m
  <1>5. CASE Len(c) > Len(n) + 1
    BY <1>1, <1>2, <1>5 DEF Under, m
  <1> QED
    BY <1>2, <1>3, <1>4, <1>5

(* What is at or below a node other than the root.                         *)
LEMMA UnderParent ==
  ASSUME NEW c \in Nodes, NEW n \in Nodes \ {Root}
  PROVE  /\ Under(c, n) <=> c = n \/ Under(c, Parent(n))
         /\ ~Under(n, Parent(n))
PROOF
  <1>1. Parent(n) \in Nodes /\ IdOf(n) \in Children /\ Append(Parent(n), IdOf(n)) = n
    BY ParentOf
  <1>2. Under(c, n) <=> c = n \/ Under(c, Parent(n))
    BY <1>1, UnderChild
  <1>3. Len(n) = Len(Parent(n)) + 1
    BY <1>1, NodeIsPath, AppendProperties
  <1>4. ~Under(n, Parent(n))
    BY <1>1, <1>3, NodeIsPath DEF Under
  <1> QED
    BY <1>2, <1>4

-------------------------------------------------------------------------------
(* The types, and what the tree and the locals of the calls look like.     *)

(* The tree is finite and closed upwards; a token is for a child that      *)
(* exists; a node that has still to be made has all its slots free.        *)
ShapeInv ==
  /\ IsFiniteSet(exists)
  /\ \A n \in exists : \A c \in Nodes : Under(c, n) => c \in exists
  /\ \A n \in Nodes, i \in Children : size[n][i] > 0 => Append(n, i) \in exists
  /\ \A n \in Nodes \ exists : flag[n] = Slots

LocalsInv ==
  /\ best = [t \in Threads |-> best[t]]
  /\ \A t \in Threads :
       /\ best[t].id \in Children
       /\ pc[t] \in {"token", "child", "scan_cap", "scan_size"} => id[t] \in Children
       /\ pc[t] = "child" => Append(node[t], id[t]) \in exists
       /\ pc[t] = "idle" => node[t] = Root
       /\ pc[t] = "release" => id[t] \in Slots
       /\ pc[t] \in {"rel_up", "init_size", "init_cap"} => up[t] # Root
       /\ pc[t] = "init_size" => cur[t] # Root

TypeInv == TypeOK /\ ShapeInv /\ LocalsInv

LEMMA Numerals ==
  /\ NbElement \in Nat /\ NbElement >= 1 /\ NbChild \in Nat /\ NbChild >= 1
  /\ 0 \in Children /\ 0 \in Slots
  /\ \A i \in Children : (i + 1) % NbChild \in Children
  /\ \A i \in Children : i + 1 < NbChild => i + 1 \in Children
PROOF
  BY TreeAssumption DEF Children, Slots

LEMMA RootIsNode == Root \in Nodes
PROOF
  <1>1. Root \in Seq(Children) /\ Len(Root) = 0 /\ 0 <= MaxDepth
    BY EmptySeq, TreeAssumption DEF Root
  <1> QED
    BY <1>1, NodeIsPath

LEMMA TypeInvInit == Init => TypeInv
PROOF
  <1> SUFFICES ASSUME Init PROVE TypeInv
    OBVIOUS
  <1> USE Numerals, RootIsNode DEF Init, NoBest
  <1>1. TypeOK
    BY DEF TypeOK, Acquiring, Below
  <1>2. ShapeInv
    <2>1. IsFiniteSet({Root})
      BY FS_Singleton
    <2>2. \A n \in Nodes, i \in Children : size[n][i] = 0
      OBVIOUS
    <2> QED
      BY <2>1, <2>2, UnderRoot DEF ShapeInv
  <1>3. LocalsInv
    BY DEF LocalsInv
  <1> QED
    BY <1>1, <1>2, <1>3 DEF TypeInv

(* What a step by t leaves of the types when it leaves the tree alone.     *)
LEMMA ShapeKept == ShapeInv /\ UNCHANGED tree => ShapeInv'
PROOF
  BY DEF ShapeInv, tree

LEMMA AcquireTypes ==
  ASSUME TypeInv, NEW t \in Threads,
         \/ Acquire(t) \/ AcqEmpty(t) \/ ReadIndex(t) \/ NoToken(t) \/ GoDown(t)
  PROVE  TypeInv'
PROOF
  <1> USE Numerals DEF TypeInv, TypeOK, LocalsInv, Acquiring, Below, Goto, tree, locals
  <1>1. ShapeInv'
    BY ShapeKept DEF Acquire, AcqEmpty, ReadIndex, NoToken, GoDown
  <1>2. CASE Acquire(t)
    BY <1>1, <1>2 DEF Acquire
  <1>3. CASE AcqEmpty(t)
    BY <1>1, <1>3 DEF AcqEmpty
  <1>4. CASE ReadIndex(t)
    BY <1>1, <1>4 DEF ReadIndex
  <1>5. CASE NoToken(t)
    <2>1. CASE count[t] + 1 < NbChild
      <3> DEFINE i == (id[t] + 1) % NbChild
                 k == count[t] + 1
      <3>1. i \in Children /\ k \in Children
        BY <1>5, <2>1 DEF NoToken
      <3>2. /\ pc[t] = "token"
            /\ id' = [id EXCEPT ![t] = i] /\ count' = [count EXCEPT ![t] = k]
            /\ UNCHANGED <<tree, owned, pc, node, cur, best, up>>
        BY <1>5, <2>1 DEF NoToken
      <3> HIDE Numerals DEF i, k
      <3>3. TypeOK'
        BY <3>1, <3>2
      <3>4. LocalsInv'
        BY <3>1, <3>2
      <3> QED
        BY <1>1, <3>3, <3>4
    <2>2. CASE ~(count[t] + 1 < NbChild)
      <3>1. TypeOK'
        BY <1>5, <2>2 DEF NoToken
      <3>2. LocalsInv'
        BY <1>5, <2>2 DEF NoToken
      <3> QED
        BY <1>1, <3>1, <3>2
    <2> QED
      BY <2>1, <2>2
  <1>6. CASE GoDown(t)
    <2> DEFINE n == Append(node[t], id[t])
    <2>1. n \in exists
      BY <1>6 DEF GoDown
    <2>2. node' = [node EXCEPT ![t] = n]
      BY <1>6 DEF GoDown
    <2> HIDE DEF n
    <2>3. TypeOK'
      BY <1>6, <2>1, <2>2 DEF GoDown
    <2>4. LocalsInv'
      BY <1>6, <2>2 DEF GoDown
    <2> QED
      BY <1>1, <2>3, <2>4
  <1> QED
    BY <1>2, <1>3, <1>4, <1>5, <1>6

LEMMA SearchTypes ==
  ASSUME TypeInv, NEW t \in Threads,
         CheckFull(t) \/ ScanCap(t) \/ ScanSize(t) \/ MakeFound(t) \/ Drop(t)
  PROVE  TypeInv'
PROOF
  <1> USE Numerals DEF TypeInv, TypeOK, LocalsInv, Acquiring, Below, Goto, tree, locals
  <1>1. ShapeInv'
    BY ShapeKept DEF CheckFull, ScanCap, ScanSize, MakeFound, Drop
  <1>2. CASE CheckFull(t)
    BY <1>1, <1>2 DEF CheckFull, NoBest
  <1>3. CASE ScanCap(t)
    BY <1>1, <1>3 DEF ScanCap
  <1>4. CASE ScanSize(t)
    <2>1. TypeOK'
      <3> DEFINE i == id[t] + 1
      <3>1. /\ id' = id \/ (i \in Children /\ id' = [id EXCEPT ![t] = i])
            /\ \E label \in {"index", "scan_cap", "make"} : Goto(t, label)
            /\ UNCHANGED <<tree, owned, node, cur, count, best, up>>
        BY <1>4 DEF ScanSize
      <3> HIDE Numerals DEF i
      <3>2. id' \in [Threads -> Slots \cup Children]
        BY <3>1
      <3>3. pc' \in [Threads -> {"idle", "release", "rel_up"} \cup Acquiring]
        BY <3>1
      <3> QED
        BY <3>1, <3>2, <3>3
    <2>2. LocalsInv'
      BY <1>4 DEF ScanSize
    <2> QED
      BY <1>1, <2>1, <2>2
  <1>5. CASE MakeFound(t)
    <2> DEFINE n == Append(cur[t], best[t].id)
    <2>1. n \in exists /\ cur' = [cur EXCEPT ![t] = n]
      BY <1>5 DEF MakeFound
    <2> HIDE DEF n
    <2>2. TypeOK'
      BY <1>5, <2>1 DEF MakeFound
    <2>3. LocalsInv'
      BY <1>5, <2>1 DEF MakeFound
    <2> QED
      BY <1>1, <2>2, <2>3
  <1>6. CASE Drop(t)
    BY <1>1, <1>6 DEF Drop
  <1> QED
    BY <1>2, <1>3, <1>4, <1>5, <1>6

(* The parent of a node of the tree is one, and takes its tokens.          *)
LEMMA ParentExists ==
  ASSUME TypeInv, NEW n \in exists \ {Root}
  PROVE  /\ n \in Nodes /\ Parent(n) \in exists /\ Parent(n) \in Nodes
         /\ IdOf(n) \in Children /\ Append(Parent(n), IdOf(n)) = n
PROOF
  <1>1. n \in Nodes \ {Root}
    BY DEF TypeInv, TypeOK
  <1>2. Parent(n) \in Nodes /\ IdOf(n) \in Children /\ Append(Parent(n), IdOf(n)) = n
    BY <1>1, ParentOf
  <1>3. Under(Parent(n), n)
    BY <1>1, <1>2, UnderItself, UnderParent
  <1>4. Parent(n) \in exists
    BY <1>2, <1>3 DEF TypeInv, ShapeInv
  <1> QED
    BY <1>1, <1>2, <1>4

(* A call ends.                                                            *)
LEMMA ReturnTypes ==
  ASSUME TypeOK, LocalsInv, NEW t \in Threads, Return(t),
         exists' = exists,
         flag' \in [Nodes -> SUBSET Slots],
         size' \in [Nodes -> [Children -> Nat]],
         capacity' \in [Nodes -> [Children -> Nat]],
         owned' \subseteq exists \X Slots
  PROVE  TypeOK' /\ LocalsInv'
PROOF
  <1> USE Numerals DEF TypeOK, Acquiring, Below, Goto, Return
  <1>1. TypeOK'
    OBVIOUS
  <1>2. LocalsInv'
    BY DEF LocalsInv, NoBest
  <1> QED
    BY <1>1, <1>2

LEMMA AcqTakeTypes ==
  ASSUME TypeInv, NEW t \in Threads, AcqTake(t)
  PROVE  TypeInv'
PROOF
  <1> DEFINE n == node[t]
             s == LowestBit(flag[n])
  <1>1. n \in exists /\ n \in Nodes
    BY DEF TypeInv, TypeOK
  <1>2. flag[n] \in SUBSET Slots /\ flag[n] # {}
    BY <1>1 DEF AcqTake, TypeInv, TypeOK
  <1>3. s \in flag[n] /\ s \in Slots
    BY <1>2, LowestBitIsRaised
  <1>4. /\ flag' = [flag EXCEPT ![n] = @ \ {s}]
        /\ owned' = owned \cup {<<n, s>>}
        /\ Return(t) /\ UNCHANGED <<exists, size, capacity>>
    BY DEF AcqTake
  <1> HIDE DEF n, s
  <1>5. ShapeInv'
    BY <1>1, <1>4 DEF TypeInv, TypeOK, ShapeInv
  <1>6. flag' \in [Nodes -> SUBSET Slots] /\ owned' \subseteq exists \X Slots
    BY <1>1, <1>3, <1>4 DEF TypeInv, TypeOK
  <1>7. size' \in [Nodes -> [Children -> Nat]] /\ capacity' \in [Nodes -> [Children -> Nat]]
    BY <1>4 DEF TypeInv, TypeOK
  <1>8. TypeOK' /\ LocalsInv'
    BY <1>4, <1>6, <1>7, ReturnTypes DEF TypeInv
  <1> QED
    BY <1>5, <1>8 DEF TypeInv

LEMMA TakeTokenTypes ==
  ASSUME TypeInv, NEW t \in Threads, TakeToken(t)
  PROVE  TypeInv'
PROOF
  <1> DEFINE n == node[t]
             i == id[t]
  <1>1. n \in exists /\ n \in Nodes /\ i \in Children
    BY DEF TypeInv, TypeOK, LocalsInv, TakeToken
  <1>2. size[n][i] > 0 /\ size[n][i] \in Nat
    BY <1>1 DEF TypeInv, TypeOK, TakeToken
  <1>3. Append(n, i) \in exists
    BY <1>1, <1>2 DEF TypeInv, ShapeInv
  <1>4. /\ size' = [size EXCEPT ![n][i] = @ - 1]
        /\ UNCHANGED <<exists, flag, capacity, owned, locals>>
        /\ pc' = [pc EXCEPT ![t] = "child"]
    BY DEF TakeToken, Goto
  <1>5. LocalsInv'
    BY <1>1, <1>3, <1>4 DEF TypeInv, TypeOK, LocalsInv, locals
  <1> HIDE DEF n, i
  <1>6. /\ size' \in [Nodes -> [Children -> Nat]]
        /\ \A m \in Nodes, j \in Children : size'[m][j] > 0 => size[m][j] > 0
    BY <1>1, <1>2, <1>4 DEF TypeInv, TypeOK
  <1>7. ShapeInv'
    BY <1>4, <1>6 DEF TypeInv, TypeOK, ShapeInv
  <1>8. TypeOK'
    BY <1>4, <1>6 DEF TypeInv, TypeOK, Acquiring, Below, locals
  <1> QED
    BY <1>5, <1>7, <1>8 DEF TypeInv

LEMMA MakeNodeTypes ==
  ASSUME TypeInv, NEW t \in Threads, MakeNode(t)
  PROVE  TypeInv'
PROOF
  <1> DEFINE n == Append(cur[t], best[t].id)
  <1>1. cur[t] \in exists /\ cur[t] \in Nodes /\ best[t].id \in Children
    BY DEF TypeInv, TypeOK, LocalsInv
  <1>2. n # Root
    BY <1>1, ChildOf
  <1>3. \A c \in Nodes : Under(c, n) => c = n \/ c \in exists
    BY <1>1, UnderChild DEF TypeInv, ShapeInv
  <1>4. /\ n \in Nodes \ exists /\ exists' = exists \cup {n}
        /\ cur' = [cur EXCEPT ![t] = n] /\ up' = [up EXCEPT ![t] = n]
        /\ pc' = [pc EXCEPT ![t] = "init_size"]
        /\ UNCHANGED <<flag, size, capacity, owned, node, id, count, best>>
    BY DEF MakeNode, Goto
  <1> HIDE DEF n
  <1>5. LocalsInv'
    BY <1>2, <1>4 DEF TypeInv, TypeOK, LocalsInv
  <1>6. ShapeInv'
    <2>1. IsFiniteSet(exists')
      BY <1>4, FS_AddElement DEF TypeInv, ShapeInv
    <2> QED
      BY <1>3, <1>4, <2>1 DEF TypeInv, TypeOK, ShapeInv
  <1>7. TypeOK'
    <2>1. /\ node' \in [Threads -> exists'] /\ cur' \in [Threads -> exists']
          /\ up' \in [Threads -> exists'] /\ owned' \subseteq exists' \X Slots
      BY <1>4 DEF TypeInv, TypeOK
    <2>2. pc' \in [Threads -> {"idle", "release", "rel_up"} \cup Acquiring]
      BY <1>4 DEF TypeInv, TypeOK, Acquiring, Below
    <2>3. Root \in exists' /\ exists' \subseteq Nodes
      BY <1>4 DEF TypeInv, TypeOK
    <2>4. \A m \in exists' \ {Root} : Parent(m) \in exists'
      <3>1. Parent(n) = cur[t]
        BY <1>1, ChildOf DEF n
      <3>2. \A m \in exists \ {Root} : Parent(m) \in exists
        BY DEF TypeInv, TypeOK
      <3> QED
        BY <1>1, <1>4, <3>1, <3>2
    <2> QED
      BY <1>4, <2>1, <2>2, <2>3, <2>4 DEF TypeInv, TypeOK
  <1> QED
    BY <1>5, <1>6, <1>7 DEF TypeInv

(* Tokens passed on to the parent of up[t].                                *)
LEMMA IncSizeTypes ==
  ASSUME TypeInv, NEW n \in exists \ {Root}, NEW v \in Nat, IncSize(n, v),
         UNCHANGED <<exists, flag>>
  PROVE  size' \in [Nodes -> [Children -> Nat]] /\ ShapeInv'
PROOF
  <1>1. /\ Parent(n) \in Nodes /\ IdOf(n) \in Children
        /\ Append(Parent(n), IdOf(n)) = n
    BY ParentExists
  <1>2. size \in [Nodes -> [Children -> Nat]]
    BY DEF TypeInv, TypeOK
  <1>3. size' = [size EXCEPT ![Parent(n)][IdOf(n)] = @ + v]
    BY DEF IncSize
  <1>4. size' \in [Nodes -> [Children -> Nat]]
    BY <1>1, <1>2, <1>3
  <1>5. \A m \in Nodes, i \in Children :
          size'[m][i] > 0 => size[m][i] > 0 \/ (m = Parent(n) /\ i = IdOf(n))
    BY <1>1, <1>2, <1>3
  <1>6. ShapeInv'
    BY <1>1, <1>5 DEF TypeInv, ShapeInv
  <1> QED
    BY <1>4, <1>6

LEMMA InitTypes ==
  ASSUME TypeInv, NEW t \in Threads, InitSize(t) \/ InitCap(t)
  PROVE  TypeInv'
PROOF
  <1> USE Numerals DEF Goto
  <1>1. up[t] \in exists \ {Root} /\ Parent(up[t]) \in exists
    <2>1. up[t] \in exists \ {Root}
      BY DEF TypeInv, TypeOK, LocalsInv, InitSize, InitCap
    <2> QED
      BY <2>1, ParentExists
  <1>2. CASE InitSize(t)
    <2>1. size' \in [Nodes -> [Children -> Nat]] /\ ShapeInv'
      BY <1>1, <1>2, IncSizeTypes DEF InitSize
    <2>2. TypeOK' /\ LocalsInv'
      <3>1. CASE Parent(up[t]) = Root
        BY <1>2, <2>1, <3>1 DEF InitSize, TypeInv, TypeOK, LocalsInv, Acquiring, Below
      <3>2. CASE Parent(up[t]) # Root
        BY <1>1, <1>2, <2>1, <3>2 DEF InitSize, TypeInv, TypeOK, LocalsInv, Acquiring, Below
      <3> QED
        BY <3>1, <3>2
    <2> QED
      BY <2>1, <2>2 DEF TypeInv
  <1>3. CASE InitCap(t)
    <2>1. capacity' \in [Nodes -> [Children -> Nat]]
      <3>1. Parent(up[t]) \in Nodes /\ IdOf(up[t]) \in Children
        BY <1>1, ParentExists
      <3> QED
        BY <1>3, <3>1 DEF InitCap, IncCap, TypeInv, TypeOK
    <2>2. ShapeInv'
      BY <1>3 DEF InitCap, TypeInv, ShapeInv
    <2>3. TypeOK' /\ LocalsInv'
      <3>1. CASE Parent(up[t]) = Root
        BY <1>1, <1>3, <2>1, <3>1 DEF InitCap, TypeInv, TypeOK, LocalsInv, Acquiring, Below
      <3>2. CASE Parent(up[t]) # Root
        BY <1>1, <1>3, <2>1, <3>2 DEF InitCap, TypeInv, TypeOK, LocalsInv, Acquiring, Below
      <3> QED
        BY <3>1, <3>2
    <2> QED
      BY <2>2, <2>3 DEF TypeInv
  <1> QED
    BY <1>2, <1>3

LEMMA ReleaseTypes ==
  ASSUME TypeInv, NEW t \in Threads, Release(t) \/ ReleaseUp(t)
  PROVE  TypeInv'
PROOF
  <1> USE Numerals DEF Goto
  <1>1. CASE Release(t)
    <2>1. node[t] \in exists /\ node[t] \in Nodes /\ id[t] \in Slots
      BY <1>1 DEF Release, TypeInv, TypeOK, LocalsInv
    <2>2. /\ flag' = [flag EXCEPT ![node[t]] = @ \cup {id[t]}]
          /\ UNCHANGED <<exists, size, capacity, owned>>
      BY <1>1 DEF Release
    <2>3. flag' \in [Nodes -> SUBSET Slots] /\ ShapeInv'
      BY <2>1, <2>2 DEF TypeInv, TypeOK, ShapeInv
    <2>4. /\ size' \in [Nodes -> [Children -> Nat]] /\ capacity' \in [Nodes -> [Children -> Nat]]
          /\ owned' \subseteq exists \X Slots
      BY <2>2 DEF TypeInv, TypeOK
    <2>5. CASE node[t] = Root
      BY <1>1, <2>2, <2>3, <2>4, <2>5, ReturnTypes DEF Release, TypeInv
    <2>6. CASE node[t] # Root
      <3>1. /\ up' = [up EXCEPT ![t] = node[t]] /\ pc' = [pc EXCEPT ![t] = "rel_up"]
            /\ UNCHANGED <<node, cur, id, count, best>>
        BY <1>1, <2>6 DEF Release
      <3>2. TypeOK'
        BY <2>1, <2>2, <2>3, <2>4, <3>1 DEF TypeInv, TypeOK
      <3>3. /\ \A u \in Threads \ {t} : pc'[u] = pc[u] /\ up'[u] = up[u]
            /\ pc'[t] = "rel_up" /\ up'[t] # Root
        BY <2>6, <3>1 DEF TypeInv, TypeOK
      <3>4. LocalsInv'
        BY <2>2, <3>1, <3>3 DEF TypeInv, LocalsInv
      <3> QED
        BY <2>3, <3>2, <3>4 DEF TypeInv
    <2> QED
      BY <2>5, <2>6
  <1>2. CASE ReleaseUp(t)
    <2>1. up[t] \in exists \ {Root} /\ Parent(up[t]) \in exists
      <3>1. up[t] \in exists \ {Root}
        BY <1>2 DEF ReleaseUp, TypeInv, TypeOK, LocalsInv
      <3> QED
        BY <3>1, ParentExists
    <2>2. UNCHANGED <<exists, flag, capacity, owned>>
      BY <1>2 DEF ReleaseUp
    <2>3. size' \in [Nodes -> [Children -> Nat]] /\ ShapeInv'
      BY <1>2, <2>1, IncSizeTypes DEF ReleaseUp
    <2>4. /\ flag' \in [Nodes -> SUBSET Slots] /\ capacity' \in [Nodes -> [Children -> Nat]]
          /\ owned' \subseteq exists \X Slots
      BY <2>2 DEF TypeInv, TypeOK
    <2>5. CASE Parent(up[t]) = Root
      BY <1>2, <2>2, <2>3, <2>4, <2>5, ReturnTypes DEF ReleaseUp, TypeInv
    <2>6. CASE Parent(up[t]) # Root
      BY <1>2, <2>1, <2>2, <2>3, <2>6
      DEF ReleaseUp, TypeInv, TypeOK, LocalsInv, Acquiring, Below
    <2> QED
      BY <2>5, <2>6
  <1> QED
    BY <1>1, <1>2

LEMMA TypeInvStep == TypeInv /\ [Next]_vars => TypeInv'
PROOF
  <1> SUFFICES ASSUME TypeInv, [Next]_vars PROVE TypeInv'
    OBVIOUS
  <1>1. CASE UNCHANGED vars
    BY <1>1 DEF vars, tree, locals, TypeInv, TypeOK, ShapeInv, LocalsInv
  <1>2. ASSUME NEW t \in Threads, Acquire(t) \/ Drop(t) \/ CallStep(t) PROVE TypeInv'
    BY <1>2, AcquireTypes, SearchTypes, AcqTakeTypes, TakeTokenTypes, MakeNodeTypes,
       InitTypes, ReleaseTypes
    DEF CallStep
  <1> QED
    BY <1>1, <1>2 DEF Next

(* The tree and the calls keep to their types, and every node below the    *)
(* root hangs at one of the tree.                                          *)
THEOREM Typing == Spec => []TypeOK
PROOF
  <1>1. TypeInv => TypeOK
    BY DEF TypeInv
  <1> QED
    BY <1>1, TypeInvInit, TypeInvStep, PTL DEF Spec

LEMMA TypeInvAlways == Spec => []TypeInv
PROOF
  BY TypeInvInit, TypeInvStep, PTL DEF Spec

-------------------------------------------------------------------------------
(* Every slot that is not free is that of one object or one release.       *)

(* A thread changes no locals but its own.                                 *)
OthersSame(t) == \A u \in Threads \ {t} :
  /\ pc'[u] = pc[u] /\ node'[u] = node[u] /\ id'[u] = id[u]
  /\ cur'[u] = cur[u] /\ up'[u] = up[u]

LEMMA OthersStay ==
  ASSUME TypeInv, NEW t \in Threads, Acquire(t) \/ Drop(t) \/ CallStep(t)
  PROVE  OthersSame(t)
PROOF
  <1> USE DEF TypeInv, TypeOK, Goto, locals, OthersSame
  <1>1. CASE Acquire(t) \/ AcqEmpty(t) \/ ReadIndex(t) \/ TakeToken(t) \/ GoDown(t)
    BY <1>1 DEF Acquire, AcqEmpty, ReadIndex, TakeToken, GoDown
  <1>2. CASE NoToken(t) \/ CheckFull(t) \/ ScanCap(t) \/ ScanSize(t)
    BY <1>2 DEF NoToken, CheckFull, ScanCap, ScanSize
  <1>3. CASE MakeFound(t) \/ MakeNode(t) \/ InitSize(t) \/ InitCap(t)
    BY <1>3 DEF MakeFound, MakeNode, InitSize, InitCap
  <1>4. CASE AcqTake(t) \/ Drop(t) \/ Release(t) \/ ReleaseUp(t)
    BY <1>4 DEF AcqTake, Drop, Release, ReleaseUp, Return
  <1> QED
    BY <1>1, <1>2, <1>3, <1>4 DEF CallStep

Quiet(t) == \/ Acquire(t) \/ AcqEmpty(t) \/ ReadIndex(t) \/ TakeToken(t) \/ NoToken(t)
            \/ GoDown(t) \/ CheckFull(t) \/ ScanCap(t) \/ ScanSize(t)
            \/ MakeFound(t) \/ MakeNode(t) \/ InitSize(t) \/ InitCap(t)
            \/ ReleaseUp(t)

LEMMA QuietSlots ==
  ASSUME TypeInv, NEW t \in Threads, Quiet(t)
  PROVE  /\ UNCHANGED <<flag, owned, Releasing>>
         /\ t \notin Releasing
PROOF
  <1>1. OthersSame(t)
    BY OthersStay DEF Quiet, CallStep
  <1>2. UNCHANGED <<flag, owned>>
    BY DEF Quiet, Acquire, AcqEmpty, ReadIndex, TakeToken, NoToken, GoDown, CheckFull,
           ScanCap, ScanSize, MakeFound, MakeNode, InitSize, InitCap, ReleaseUp, tree
  <1>3. pc[t] # "release" /\ pc'[t] # "release"
    <2> USE DEF TypeInv, TypeOK, Goto
    <2>1. CASE Acquire(t) \/ AcqEmpty(t) \/ ReadIndex(t) \/ TakeToken(t) \/ GoDown(t)
      BY <2>1 DEF Acquire, AcqEmpty, ReadIndex, TakeToken, GoDown
    <2>2. CASE NoToken(t) \/ CheckFull(t) \/ ScanCap(t) \/ ScanSize(t)
      BY <2>2 DEF NoToken, CheckFull, ScanCap, ScanSize
    <2>3. CASE MakeFound(t) \/ MakeNode(t) \/ InitSize(t) \/ InitCap(t) \/ ReleaseUp(t)
      BY <2>3 DEF MakeFound, MakeNode, InitSize, InitCap, ReleaseUp, Return
    <2> QED
      BY <2>1, <2>2, <2>3 DEF Quiet
  <1> QED
    BY <1>1, <1>2, <1>3 DEF Releasing, OthersSame

LEMMA SlotsInit == Init => SlotsAccounted
PROOF
  BY DEF Init, SlotsAccounted, Taken, Releasing

LEMMA SlotsKept ==
  ASSUME SlotsAccounted, UNCHANGED <<flag, owned, Releasing>>,
         \A u \in Releasing : node'[u] = node[u] /\ id'[u] = id[u]
  PROVE  SlotsAccounted'
PROOF
  <1>1. \A n \in Nodes : Taken(n)' = Taken(n)
    BY DEF Taken
  <1> QED
    BY <1>1 DEF SlotsAccounted

LEMMA AcqTakeSlots ==
  ASSUME TypeInv, SlotsAccounted, NEW t \in Threads, AcqTake(t)
  PROVE  SlotsAccounted'
PROOF
  <1>1. PICK n \in Nodes, s \in Slots :
          /\ s \in flag[n]
          /\ flag' = [flag EXCEPT ![n] = @ \ {s}]
          /\ owned' = owned \cup {<<n, s>>}
    <2>1. node[t] \in Nodes /\ flag[node[t]] \in SUBSET Slots /\ flag[node[t]] # {}
      BY DEF TypeInv, TypeOK, AcqTake
    <2>2. LowestBit(flag[node[t]]) \in flag[node[t]] /\ LowestBit(flag[node[t]]) \in Slots
      BY <2>1, LowestBitIsRaised
    <2> QED
      BY <2>1, <2>2 DEF AcqTake
  <1>2. s \in Slots /\ flag'[n] = flag[n] \ {s} /\ \A m \in Nodes \ {n} : flag'[m] = flag[m]
    BY <1>1 DEF TypeInv, TypeOK
  <1>3. OthersSame(t) /\ pc[t] = "segment" /\ pc'[t] = "idle"
    BY OthersStay DEF CallStep, AcqTake, Return, Goto, TypeInv, TypeOK
  <1>4. /\ Releasing' = Releasing /\ t \notin Releasing
        /\ \A u \in Releasing : node'[u] = node[u] /\ id'[u] = id[u]
    BY <1>3 DEF Releasing, OthersSame
  <1>5. s \notin Taken(n)
    BY <1>1, <1>2 DEF SlotsAccounted
  <1>6. Taken(n)' = Taken(n) \cup {s} /\ \A m \in Nodes \ {n} : Taken(m)' = Taken(m)
    BY <1>1, <1>2, <1>4 DEF Taken
  <1>7. \A m \in Nodes : Taken(m)' = Slots \ flag'[m]
    <2>1. Taken(n)' = Slots \ flag'[n]
      BY <1>1, <1>2, <1>6 DEF SlotsAccounted
    <2> QED
      BY <1>2, <1>6, <2>1 DEF SlotsAccounted
  <1>8. \A u \in Releasing : <<node[u], id[u]>> # <<n, s>>
    BY <1>2, <1>5 DEF Taken
  <1> QED
    BY <1>1, <1>4, <1>7, <1>8 DEF SlotsAccounted

LEMMA DropSlots ==
  ASSUME TypeInv, SlotsAccounted, NEW t \in Threads, Drop(t)
  PROVE  SlotsAccounted'
PROOF
  <1>1. PICK p \in owned : /\ owned' = owned \ {p}
                           /\ node' = [node EXCEPT ![t] = p[1]]
                           /\ id'   = [id EXCEPT ![t] = p[2]]
    BY DEF Drop
  <1>2. pc[t] = "idle" /\ pc'[t] = "release" /\ flag' = flag
    BY DEF Drop, Goto, tree, TypeInv, TypeOK
  <1>3. p = <<p[1], p[2]>> /\ p[1] \in Nodes /\ p[2] \in Slots
    BY DEF TypeInv, TypeOK
  <1>4. node'[t] = p[1] /\ id'[t] = p[2]
    BY <1>1 DEF TypeInv, TypeOK
  <1>5. OthersSame(t)
    BY OthersStay
  <1>6. /\ Releasing' = Releasing \cup {t} /\ t \notin Releasing
        /\ \A u \in Releasing : node'[u] = node[u] /\ id'[u] = id[u]
    BY <1>2, <1>5 DEF Releasing, OthersSame
  <1>7. \A m \in Nodes : Taken(m)' = Taken(m)
    BY <1>1, <1>3, <1>4, <1>6 DEF Taken
  <1>8. \A u \in Releasing : <<node[u], id[u]>> # p
    BY <1>1 DEF SlotsAccounted
  <1> QED
    BY <1>1, <1>2, <1>3, <1>4, <1>6, <1>7, <1>8 DEF SlotsAccounted

LEMMA ReleaseSlots ==
  ASSUME TypeInv, SlotsAccounted, NEW t \in Threads, Release(t)
  PROVE  SlotsAccounted'
PROOF
  <1>1. PICK n \in Nodes, s \in Slots : n = node[t] /\ s = id[t]
    BY DEF TypeInv, TypeOK, LocalsInv, Release
  <1>2. /\ flag'[n] = flag[n] \cup {s} /\ \A m \in Nodes \ {n} : flag'[m] = flag[m]
        /\ owned' = owned
    BY <1>1 DEF Release, TypeInv, TypeOK
  <1>3. OthersSame(t) /\ pc[t] = "release" /\ pc'[t] \in {"idle", "rel_up"}
    BY OthersStay DEF CallStep, Release, Return, Goto, TypeInv, TypeOK
  <1>4. /\ t \in Releasing /\ Releasing' = Releasing \ {t}
        /\ \A u \in Releasing \ {t} : node'[u] = node[u] /\ id'[u] = id[u]
    BY <1>3 DEF Releasing, OthersSame
  <1>5. /\ <<n, s>> \notin owned
        /\ \A u \in Releasing \ {t} : <<n, s>> # <<node[u], id[u]>>
    BY <1>1, <1>4 DEF SlotsAccounted
  <1>6. Taken(n)' = Taken(n) \ {s} /\ \A m \in Nodes \ {n} : Taken(m)' = Taken(m)
    BY <1>1, <1>2, <1>4, <1>5 DEF Taken
  <1>7. \A m \in Nodes : Taken(m)' = Slots \ flag'[m]
    <2>1. Taken(n)' = Slots \ flag'[n]
      BY <1>2, <1>6 DEF SlotsAccounted
    <2> QED
      BY <1>2, <1>6, <2>1 DEF SlotsAccounted
  <1> QED
    BY <1>2, <1>4, <1>7 DEF SlotsAccounted

LEMMA SlotsStep == TypeInv /\ SlotsAccounted /\ [Next]_vars => SlotsAccounted'
PROOF
  <1> SUFFICES ASSUME TypeInv, SlotsAccounted, [Next]_vars PROVE SlotsAccounted'
    OBVIOUS
  <1>1. CASE UNCHANGED vars
    BY <1>1, SlotsKept DEF vars, tree, locals, Releasing
  <1>2. ASSUME NEW t \in Threads, Quiet(t) PROVE SlotsAccounted'
    <2>1. UNCHANGED <<flag, owned, Releasing>> /\ t \notin Releasing
      BY <1>2, QuietSlots
    <2>2. OthersSame(t)
      BY <1>2, OthersStay DEF Quiet, CallStep
    <2>3. \A u \in Releasing : node'[u] = node[u] /\ id'[u] = id[u]
      BY <2>1, <2>2 DEF Releasing, OthersSame
    <2> QED
      BY <2>1, <2>3, SlotsKept
  <1> QED
    BY <1>1, <1>2, AcqTakeSlots, DropSlots, ReleaseSlots DEF Next, CallStep, Quiet

(* No slot of the tree is lost, and none has two owners.                   *)
THEOREM TreeSlotsAccounted == Spec => []SlotsAccounted
PROOF
  BY SlotsInit, SlotsStep, TypeInvAlways, PTL DEF Spec

-------------------------------------------------------------------------------
(* The refinement of the promise of a pool.                                *)

Owned == [p \in Places |-> OwnersOf(p)]

LEMMA OwnersInit == Init => Promise!Init
PROOF
  BY DEF Init, Promise!Init, OwnersOf, Releasing

(* A step that gives one slot to another owner is a step of the promise.   *)
LEMMA OneSlotMoves ==
  ASSUME NEW p \in Places, NEW o \in Threads \cup {"client"},
         OwnersOf(p)' = {o} \/ (OwnersOf(p) # {} /\ OwnersOf(p)' = {}),
         \A q \in Places \ {p} : OwnersOf(q)' = OwnersOf(q)
  PROVE  Promise!Next
PROOF
  <1>1. Owned' = [Owned EXCEPT ![p] = OwnersOf(p)'] /\ Owned[p] = OwnersOf(p)
    BY DEF Owned
  <1>2. CASE OwnersOf(p)' = {o}
    BY <1>1, <1>2 DEF Owned, Promise!Next, Promise!Acquire, Promise!Pass
  <1>3. CASE OwnersOf(p) # {} /\ OwnersOf(p)' = {}
    BY <1>1, <1>3 DEF Owned, Promise!Next, Promise!Release
  <1> QED
    BY <1>2, <1>3

LEMMA OwnersKept ==
  ASSUME UNCHANGED <<owned, Releasing>>,
         \A u \in Releasing : node'[u] = node[u] /\ id'[u] = id[u]
  PROVE  UNCHANGED Owned
PROOF
  BY DEF Owned, OwnersOf

LEMMA OwnersStep ==
  TypeInv /\ SlotsAccounted /\ [Next]_vars => [Promise!Next]_Owned
PROOF
  <1> SUFFICES ASSUME TypeInv, SlotsAccounted, [Next]_vars PROVE [Promise!Next]_Owned
    OBVIOUS
  <1>1. CASE UNCHANGED vars
    BY <1>1, OwnersKept DEF vars, locals, Releasing
  <1>2. ASSUME NEW t \in Threads, Quiet(t) PROVE UNCHANGED Owned
    <2>1. UNCHANGED <<owned, Releasing>> /\ t \notin Releasing /\ OthersSame(t)
      BY <1>2, QuietSlots, OthersStay DEF Quiet, CallStep
    <2> QED
      BY <2>1, OwnersKept DEF Releasing, OthersSame
  <1>3. ASSUME NEW t \in Threads, AcqTake(t) PROVE Promise!Next
    <2>1. PICK n \in Nodes, s \in Slots : s \in flag[n] /\ owned' = owned \cup {<<n, s>>}
      <3>1. node[t] \in Nodes /\ flag[node[t]] \in SUBSET Slots /\ flag[node[t]] # {}
        BY <1>3 DEF TypeInv, TypeOK, AcqTake
      <3> QED
        BY <1>3, <3>1, LowestBitIsRaised DEF AcqTake
    <2>2. /\ Releasing' = Releasing
          /\ \A u \in Releasing : node'[u] = node[u] /\ id'[u] = id[u]
      <3>1. OthersSame(t) /\ pc[t] = "segment" /\ pc'[t] = "idle"
        BY <1>3, OthersStay DEF CallStep, AcqTake, Return, Goto, TypeInv, TypeOK
      <3> QED
        BY <3>1 DEF Releasing, OthersSame
    <2>3. \A u \in Releasing : <<node[u], id[u]>> # <<n, s>>
      <3>1. s \notin Taken(n)
        BY <2>1 DEF SlotsAccounted
      <3> QED
        BY <3>1 DEF Taken
    <2>4. <<n, s>> \in Places /\ OwnersOf(<<n, s>>)' = {"client"}
      BY <2>1, <2>2, <2>3 DEF OwnersOf, Places
    <2>5. \A q \in Places \ {<<n, s>>} : OwnersOf(q)' = OwnersOf(q)
      BY <2>1, <2>2 DEF OwnersOf
    <2> QED
      BY <2>4, <2>5, OneSlotMoves
  <1>4. ASSUME NEW t \in Threads, Drop(t) PROVE Promise!Next
    <2>1. PICK p \in owned : /\ owned' = owned \ {p}
                             /\ node' = [node EXCEPT ![t] = p[1]]
                             /\ id'   = [id EXCEPT ![t] = p[2]]
      BY <1>4 DEF Drop
    <2>2. p \in Places /\ <<node'[t], id'[t]>> = p
      BY <2>1 DEF TypeInv, TypeOK, Places
    <2>3. /\ Releasing' = Releasing \cup {t}
          /\ \A u \in Releasing : node'[u] = node[u] /\ id'[u] = id[u]
      <3>1. OthersSame(t) /\ pc[t] = "idle" /\ pc'[t] = "release"
        BY <1>4, OthersStay DEF Drop, Goto, TypeInv, TypeOK
      <3> QED
        BY <3>1 DEF Releasing, OthersSame
    <2>4. \A u \in Releasing : <<node[u], id[u]>> # p
      BY <2>1 DEF SlotsAccounted
    <2>5. OwnersOf(p)' = {t}
      BY <2>1, <2>2, <2>3, <2>4 DEF OwnersOf
    <2>6. \A q \in Places \ {p} : OwnersOf(q)' = OwnersOf(q)
      BY <2>1, <2>2, <2>3 DEF OwnersOf
    <2> QED
      BY <2>2, <2>5, <2>6, OneSlotMoves
  <1>5. ASSUME NEW t \in Threads, Release(t) PROVE Promise!Next
    <2>1. PICK p \in Places : p = <<node[t], id[t]>>
      BY <1>5 DEF TypeInv, TypeOK, LocalsInv, Release, Places
    <2>2. /\ t \in Releasing /\ Releasing' = Releasing \ {t} /\ owned' = owned
          /\ \A u \in Releasing \ {t} : node'[u] = node[u] /\ id'[u] = id[u]
      <3>1. OthersSame(t) /\ pc[t] = "release" /\ pc'[t] \in {"idle", "rel_up"}
        BY <1>5, OthersStay DEF CallStep, Release, Return, Goto, TypeInv, TypeOK
      <3> QED
        BY <1>5, <3>1 DEF Releasing, OthersSame, Release
    <2>3. p \notin owned /\ \A u \in Releasing \ {t} : <<node[u], id[u]>> # p
      BY <2>1, <2>2 DEF SlotsAccounted
    <2>4. OwnersOf(p) # {} /\ OwnersOf(p)' = {}
      BY <2>1, <2>2, <2>3 DEF OwnersOf
    <2>5. \A q \in Places \ {p} : OwnersOf(q)' = OwnersOf(q)
      BY <2>1, <2>2 DEF OwnersOf
    <2> QED
      BY <2>4, <2>5, OneSlotMoves
  <1> QED
    BY <1>1, <1>2, <1>3, <1>4, <1>5 DEF Next, CallStep, Quiet

(* The tree implements the promise of a pool: at any time a slot has at    *)
(* most one owner, whatever tokens the calls followed to it.               *)
THEOREM TreeImplementsSlotPool == Spec => ImplementsSlotPool
PROOF
  <1>1. TypeInv /\ SlotsAccounted /\ [Next]_vars => [Promise!Next]_Owned
    BY OwnersStep
  <1> QED
    BY <1>1, OwnersInit, TreeSlotsAccounted, TypeInvAlways, PTL
    DEF Spec, ImplementsSlotPool, Promise!Spec, Owned

-------------------------------------------------------------------------------
(* The tokens of a child are as many as the free slots below it.           *)

SizeAt(c) == size[Parent(c)][IdOf(c)]
Rising(c) == {t \in Threads : pc[t] = "rel_up" /\ Under(c, up[t])}
Adding(c) == {t \in Threads : pc[t] = "init_size" /\ Under(c, up[t])}

(* S becomes T, for the thread t only.                                     *)
Moves(t, S, T) ==
  /\ Cardinality(S) \in Nat /\ Cardinality(T) \in Nat
  /\ Cardinality(T) + (IF t \in S THEN 1 ELSE 0)
       = Cardinality(S) + (IF t \in T THEN 1 ELSE 0)

LEMMA OneMoves ==
  ASSUME NEW S \in SUBSET Threads, NEW T \in SUBSET Threads, NEW t \in Threads,
         S \ {t} = T \ {t}
  PROVE  Moves(t, S, T)
PROOF
  <1>1. IsFiniteSet(S) /\ IsFiniteSet(T)
    BY FS_Subset, TreeAssumption
  <1>2. Cardinality(S) \in Nat /\ Cardinality(T) \in Nat
    BY <1>1, FS_CardinalityType
  <1>3. Cardinality(S \ {t}) = IF t \in S THEN Cardinality(S) - 1 ELSE Cardinality(S)
    BY <1>1, FS_RemoveElement
  <1>4. Cardinality(T \ {t}) = IF t \in T THEN Cardinality(T) - 1 ELSE Cardinality(T)
    BY <1>1, FS_RemoveElement
  <1> QED
    BY <1>2, <1>3, <1>4 DEF Moves

LEMMA CallsMove ==
  ASSUME NEW t \in Threads, OthersSame(t), NEW c \in Nodes
  PROVE  /\ Moves(t, Holders(c), Holders(c)')
         /\ Moves(t, Rising(c), Rising(c)')
         /\ Moves(t, Adding(c), Adding(c)')
PROOF
  <1>1. \A u \in Threads \ {t} : Target(u)' = Target(u)
    BY DEF OthersSame, Target
  <1>2. Holders(c) \ {t} = Holders(c)' \ {t}
    BY <1>1 DEF OthersSame, Holders
  <1>3. Rising(c) \ {t} = Rising(c)' \ {t} /\ Adding(c) \ {t} = Adding(c)' \ {t}
    BY DEF OthersSame, Rising, Adding
  <1>4. /\ Holders(c) \in SUBSET Threads /\ Holders(c)' \in SUBSET Threads
        /\ Rising(c) \in SUBSET Threads /\ Rising(c)' \in SUBSET Threads
        /\ Adding(c) \in SUBSET Threads /\ Adding(c)' \in SUBSET Threads
    BY DEF Holders, Rising, Adding
  <1> QED
    BY <1>2, <1>3, <1>4, OneMoves

LEMMA SizeIsNat ==
  ASSUME TypeInv, NEW c \in Nodes \ {Root}
  PROVE  SizeAt(c) \in Nat
PROOF
  BY ParentOf DEF SizeAt, TypeInv, TypeOK

LEMMA IncSizeAt ==
  ASSUME TypeInv, NEW n \in Nodes \ {Root}, NEW v \in Nat, IncSize(n, v),
         NEW c \in Nodes \ {Root}
  PROVE  SizeAt(c)' = IF c = n THEN SizeAt(c) + v ELSE SizeAt(c)
PROOF
  <1>1. /\ Parent(n) \in Nodes /\ IdOf(n) \in Children
        /\ Append(Parent(n), IdOf(n)) = n
    BY ParentOf
  <1>2. /\ Parent(c) \in Nodes /\ IdOf(c) \in Children
        /\ Append(Parent(c), IdOf(c)) = c
    BY ParentOf
  <1>3. size' = [size EXCEPT ![Parent(n)][IdOf(n)] = @ + v]
    BY DEF IncSize
  <1>4. size \in [Nodes -> [Children -> Nat]]
    BY DEF TypeInv, TypeOK
  <1>5. CASE c = n
    BY <1>1, <1>3, <1>4, <1>5 DEF SizeAt
  <1>6. CASE c # n
    <2>1. Parent(c) # Parent(n) \/ IdOf(c) # IdOf(n)
      BY <1>1, <1>2, <1>6
    <2> QED
      BY <1>1, <1>2, <1>3, <1>4, <1>6, <2>1 DEF SizeAt
  <1> QED
    BY <1>5, <1>6

LEMMA FreeIsFinite ==
  ASSUME TypeInv, NEW c \in Nodes
  PROVE  IsFiniteSet(FreeUnder(c)) /\ Cardinality(FreeUnder(c)) \in Nat
PROOF
  <1>1. IsFiniteSet(NodesUnder(c))
    BY FS_Subset DEF NodesUnder, TypeInv, ShapeInv
  <1>2. IsFiniteSet(Slots)
    BY FS_Interval, Numerals DEF Slots
  <1>3. IsFiniteSet(NodesUnder(c) \X Slots)
    BY <1>1, <1>2, FS_Product
  <1>4. FreeUnder(c) \in SUBSET (NodesUnder(c) \X Slots)
    BY DEF FreeUnder
  <1>5. IsFiniteSet(FreeUnder(c))
    BY <1>3, <1>4, FS_Subset
  <1> QED
    BY <1>5, FS_CardinalityType

LEMMA FreeKept ==
  ASSUME UNCHANGED <<exists, flag>>, NEW c \in Nodes
  PROVE  FreeUnder(c)' = FreeUnder(c)
PROOF
  BY DEF FreeUnder, NodesUnder

TokensFor(c) ==
  SizeAt(c) + Cardinality(Holders(c))
    + (Cardinality(Rising(c)) + NbElement * Cardinality(Adding(c)))
  = Cardinality(FreeUnder(c))

LEMMA TokensForEach == TokensMatchFree <=> \A c \in Nodes \ {Root} : TokensFor(c)
PROOF
  BY DEF TokensMatchFree, TokensFor, OnTheWay, SizeAt, Rising, Adding

(* Steps that move no token.                                               *)
Idling(t) == \/ Acquire(t) \/ AcqEmpty(t) \/ ReadIndex(t) \/ NoToken(t) \/ GoDown(t)
             \/ CheckFull(t) \/ ScanCap(t) \/ ScanSize(t) \/ MakeFound(t)
             \/ InitCap(t) \/ Drop(t)

LEMMA IdlingCalls ==
  ASSUME TypeInv, NEW t \in Threads, Idling(t), NEW c \in Nodes \ {Root}
  PROVE  /\ t \in Holders(c) <=> t \in Holders(c)'
         /\ t \notin Rising(c) /\ t \notin Rising(c)'
         /\ t \notin Adding(c) /\ t \notin Adding(c)'
PROOF
  <1> USE DEF TypeInv, TypeOK, Goto, locals, Holders, Rising, Adding, Target,
              Acquiring, Below
  <1>1. CASE Acquire(t)
    <2>1. node[t] = Root /\ ~Under(c, Root)
      BY <1>1, UnderRoot DEF Acquire, LocalsInv
    <2> QED
      BY <1>1, <2>1 DEF Acquire
  <1>2. CASE AcqEmpty(t) \/ ReadIndex(t) \/ NoToken(t)
    BY <1>2 DEF AcqEmpty, ReadIndex, NoToken
  <1>3. CASE GoDown(t)
    BY <1>3 DEF GoDown
  <1>4. CASE CheckFull(t) \/ ScanCap(t) \/ ScanSize(t)
    BY <1>4 DEF CheckFull, ScanCap, ScanSize
  <1>5. CASE MakeFound(t) \/ InitCap(t) \/ Drop(t)
    BY <1>5 DEF MakeFound, InitCap, Drop
  <1> QED
    BY <1>1, <1>2, <1>3, <1>4, <1>5 DEF Idling

LEMMA IdlingTokens ==
  ASSUME TypeInv, NEW t \in Threads, Idling(t) , NEW c \in Nodes \ {Root}, TokensFor(c)
  PROVE  TokensFor(c)'
PROOF
  <1>1. OthersSame(t)
    BY OthersStay DEF Idling, CallStep
  <1>2. UNCHANGED <<exists, flag, size>>
    BY DEF Idling, Acquire, AcqEmpty, ReadIndex, NoToken, GoDown, CheckFull, ScanCap,
           ScanSize, MakeFound, InitCap, Drop, tree
  <1>3. SizeAt(c)' = SizeAt(c) /\ FreeUnder(c)' = FreeUnder(c)
    BY <1>2, FreeKept DEF SizeAt
  <1>4. /\ Cardinality(Holders(c)') = Cardinality(Holders(c))
        /\ Cardinality(Rising(c)') = Cardinality(Rising(c))
        /\ Cardinality(Adding(c)') = Cardinality(Adding(c))
    BY <1>1, CallsMove, IdlingCalls DEF Moves
  <1> QED
    BY <1>3, <1>4 DEF TokensFor

LEMMA TakeTokenTokens ==
  ASSUME TypeInv, NEW t \in Threads, TakeToken(t), NEW c \in Nodes \ {Root}, TokensFor(c)
  PROVE  TokensFor(c)'
PROOF
  <1>1. OthersSame(t)
    BY OthersStay DEF CallStep
  <1>2. PICK n \in Nodes, i \in Children : n = node[t] /\ i = id[t]
    BY DEF TypeInv, TypeOK, LocalsInv, TakeToken
  <1>3. /\ size[n][i] > 0 /\ size' = [size EXCEPT ![n][i] = @ - 1]
        /\ Append(n, i) \in exists /\ UNCHANGED <<exists, flag>>
    BY <1>2 DEF TakeToken, TypeInv, ShapeInv
  <1>4. PICK d \in Nodes \ {Root} : d = Append(n, i) /\ Parent(d) = n /\ IdOf(d) = i
    BY <1>3, ChildOf DEF TypeInv, TypeOK
  <1>5. pc[t] = "token" /\ pc'[t] = "child" /\ node'[t] = n /\ id'[t] = i
    BY <1>2 DEF TakeToken, Goto, TypeInv, TypeOK, locals
  <1>6. /\ t \in Holders(c) <=> Under(c, n)
        /\ t \in Holders(c)' <=> Under(c, d)
        /\ t \notin Rising(c) /\ t \notin Rising(c)'
        /\ t \notin Adding(c) /\ t \notin Adding(c)'
    BY <1>2, <1>4, <1>5 DEF Holders, Rising, Adding, Target, Acquiring, Below
  <1>7. (Under(c, d) <=> c = d \/ Under(c, n)) /\ ~Under(d, n)
    <2>1. (Under(c, d) <=> c = d \/ Under(c, Parent(d))) /\ ~Under(d, Parent(d))
      BY UnderParent
    <2> QED
      BY <1>4, <2>1
  <1>8. SizeAt(c) = SizeAt(c)' + (IF c = d THEN 1 ELSE 0) /\ SizeAt(c)' \in Nat
    <2>1. size \in [Nodes -> [Children -> Nat]]
      BY DEF TypeInv, TypeOK
    <2>2. /\ Parent(c) \in Nodes /\ IdOf(c) \in Children
          /\ Append(Parent(c), IdOf(c)) = c
      BY ParentOf
    <2>3. CASE c = d
      BY <1>3, <1>4, <2>1, <2>3 DEF SizeAt
    <2>4. CASE c # d
      <3>1. Parent(c) # n \/ IdOf(c) # i
        BY <1>4, <2>2, <2>4
      <3> QED
        BY <1>3, <2>1, <2>2, <2>4, <3>1 DEF SizeAt
    <2> QED
      BY <2>3, <2>4
  <1>9. FreeUnder(c)' = FreeUnder(c)
    BY <1>3, FreeKept
  <1>10. /\ Cardinality(Holders(c)') \in Nat /\ Cardinality(Holders(c)) \in Nat
         /\ Cardinality(Holders(c)') = Cardinality(Holders(c)) + (IF c = d THEN 1 ELSE 0)
         /\ Cardinality(Rising(c)') = Cardinality(Rising(c))
         /\ Cardinality(Adding(c)') = Cardinality(Adding(c))
    BY <1>1, <1>6, <1>7, CallsMove DEF Moves
  <1>11. SizeAt(c)' + Cardinality(Holders(c)') = SizeAt(c) + Cardinality(Holders(c))
    BY <1>8, <1>10
  <1> QED
    BY <1>9, <1>10, <1>11 DEF TokensFor

(* A thread that passes tokens on to the node above.                       *)
LEMMA PassedUp ==
  ASSUME NEW n \in Nodes \ {Root}, NEW c \in Nodes \ {Root}
  PROVE  /\ Under(c, n) <=> c = n \/ Under(c, Parent(n))
         /\ ~Under(n, Parent(n))
         /\ Parent(n) = Root => ~Under(c, Parent(n))
PROOF
  BY UnderParent, UnderRoot

LEMMA InitSizeTokens ==
  ASSUME TypeInv, NEW t \in Threads, InitSize(t), NEW c \in Nodes \ {Root}, TokensFor(c)
  PROVE  TokensFor(c)'
PROOF
  <1>1. OthersSame(t)
    BY OthersStay DEF CallStep
  <1>2. PICK n \in Nodes \ {Root} : n = up[t]
    BY DEF TypeInv, TypeOK, LocalsInv, InitSize
  <1>3. IncSize(n, NbElement) /\ UNCHANGED <<exists, flag>>
    BY <1>2 DEF InitSize
  <1>4. SizeAt(c)' = IF c = n THEN SizeAt(c) + NbElement ELSE SizeAt(c)
    BY <1>3, Numerals, IncSizeAt
  <1>5. /\ pc[t] = "init_size" /\ node'[t] = node[t]
        /\ IF Parent(n) = Root THEN pc'[t] = "init_cap"
                               ELSE pc'[t] = "init_size" /\ up'[t] = Parent(n)
    BY <1>2 DEF InitSize, Goto, TypeInv, TypeOK
  <1>6. /\ t \in Holders(c) <=> t \in Holders(c)'
        /\ t \notin Rising(c) /\ t \notin Rising(c)'
        /\ t \in Adding(c) <=> Under(c, n)
        /\ t \in Adding(c)' <=> Under(c, Parent(n))
    BY <1>2, <1>5, PassedUp DEF Holders, Rising, Adding, Target, Acquiring, Below
  <1>7. FreeUnder(c)' = FreeUnder(c)
    BY <1>3, FreeKept
  <1>8. /\ Cardinality(Holders(c)') = Cardinality(Holders(c))
        /\ Cardinality(Rising(c)') = Cardinality(Rising(c))
        /\ Cardinality(Adding(c)') \in Nat /\ Cardinality(Adding(c)) \in Nat
        /\ Cardinality(Adding(c))
             = IF c = n THEN Cardinality(Adding(c)') + 1 ELSE Cardinality(Adding(c)')
    BY <1>1, <1>6, PassedUp, CallsMove DEF Moves
  <1>9. NbElement * Cardinality(Adding(c))
          = IF c = n THEN NbElement * Cardinality(Adding(c)') + NbElement
                     ELSE NbElement * Cardinality(Adding(c)')
    <2> DEFINE a == Cardinality(Adding(c))
               b == Cardinality(Adding(c)')
    <2>1. a \in Nat /\ b \in Nat /\ a = (IF c = n THEN b + 1 ELSE b) /\ NbElement \in Nat
      BY <1>8, Numerals
    <2> HIDE DEF a, b
    <2>2. NbElement * (b + 1) = NbElement * b + NbElement
      BY <2>1
    <2>3. NbElement * a = IF c = n THEN NbElement * b + NbElement ELSE NbElement * b
      BY <2>1, <2>2
    <2> QED
      BY <2>3 DEF a, b
  <1>10. /\ SizeAt(c) \in Nat /\ Cardinality(Holders(c)) \in Nat
         /\ Cardinality(Rising(c)) \in Nat /\ NbElement \in Nat
         /\ NbElement * Cardinality(Adding(c)') \in Nat
    <2>1. Cardinality(Holders(c)) \in Nat /\ Cardinality(Rising(c)) \in Nat
      BY <1>1, CallsMove DEF Moves
    <2>2. NbElement * Cardinality(Adding(c)') \in Nat
      BY <1>8, Numerals
    <2> QED
      BY <2>1, <2>2, Numerals, SizeIsNat
  <1> QED
    BY <1>4, <1>7, <1>8, <1>9, <1>10 DEF TokensFor

LEMMA ReleaseUpTokens ==
  ASSUME TypeInv, NEW t \in Threads, ReleaseUp(t), NEW c \in Nodes \ {Root}, TokensFor(c)
  PROVE  TokensFor(c)'
PROOF
  <1>1. OthersSame(t)
    BY OthersStay DEF CallStep
  <1>2. PICK n \in Nodes \ {Root} : n = up[t]
    BY DEF TypeInv, TypeOK, LocalsInv, ReleaseUp
  <1>3. IncSize(n, 1) /\ UNCHANGED <<exists, flag>>
    BY <1>2 DEF ReleaseUp
  <1>4. SizeAt(c)' = (IF c = n THEN SizeAt(c) + 1 ELSE SizeAt(c)) /\ SizeAt(c) \in Nat
    BY <1>3, IncSizeAt, SizeIsNat
  <1>5. /\ pc[t] = "rel_up"
        /\ IF Parent(n) = Root THEN pc'[t] = "idle"
                               ELSE pc'[t] = "rel_up" /\ up'[t] = Parent(n)
    BY <1>2 DEF ReleaseUp, Return, Goto, TypeInv, TypeOK
  <1>6. /\ t \notin Holders(c) /\ t \notin Holders(c)'
        /\ t \notin Adding(c) /\ t \notin Adding(c)'
        /\ t \in Rising(c) <=> Under(c, n)
        /\ t \in Rising(c)' <=> Under(c, Parent(n))
    BY <1>2, <1>5, PassedUp DEF Holders, Rising, Adding, Target, Acquiring, Below
  <1>7. FreeUnder(c)' = FreeUnder(c)
    BY <1>3, FreeKept
  <1>8. /\ Cardinality(Holders(c)') = Cardinality(Holders(c))
        /\ Cardinality(Adding(c)') = Cardinality(Adding(c))
        /\ Cardinality(Rising(c)') \in Nat /\ Cardinality(Rising(c)) \in Nat
        /\ Cardinality(Rising(c))
             = IF c = n THEN Cardinality(Rising(c)') + 1 ELSE Cardinality(Rising(c)')
        /\ Cardinality(Holders(c)) \in Nat /\ Cardinality(Adding(c)) \in Nat
    BY <1>1, <1>6, PassedUp, CallsMove DEF Moves
  <1>9. NbElement * Cardinality(Adding(c)) \in Nat
    BY <1>8, Numerals
  <1> QED
    BY <1>4, <1>7, <1>8, <1>9 DEF TokensFor

LEMMA AcqTakeTokens ==
  ASSUME TypeInv, NEW t \in Threads, AcqTake(t), NEW c \in Nodes \ {Root}, TokensFor(c)
  PROVE  TokensFor(c)'
PROOF
  <1>1. OthersSame(t)
    BY OthersStay DEF CallStep
  <1>2. PICK n \in exists, s \in Slots :
          /\ n = node[t] /\ n \in Nodes
          /\ s \in flag[n] /\ flag'[n] = flag[n] \ {s}
          /\ \A m \in Nodes \ {n} : flag'[m] = flag[m]
    <2>1. /\ node[t] \in exists /\ node[t] \in Nodes
          /\ flag[node[t]] \in SUBSET Slots /\ flag[node[t]] # {}
      BY DEF TypeInv, TypeOK, AcqTake
    <2>2. LowestBit(flag[node[t]]) \in flag[node[t]]
      BY <2>1, LowestBitIsRaised
    <2> QED
      BY <2>1, <2>2 DEF AcqTake, TypeInv, TypeOK
  <1>3. pc[t] = "segment" /\ pc'[t] = "idle" /\ UNCHANGED <<exists, size>>
    BY DEF AcqTake, Return, Goto, TypeInv, TypeOK
  <1>4. /\ t \in Holders(c) <=> Under(c, n)
        /\ t \notin Holders(c)'
        /\ t \notin Rising(c) /\ t \notin Rising(c)'
        /\ t \notin Adding(c) /\ t \notin Adding(c)'
    BY <1>2, <1>3 DEF Holders, Rising, Adding, Target, Acquiring, Below
  <1>5. SizeAt(c)' = SizeAt(c) /\ SizeAt(c) \in Nat
    BY <1>3, SizeIsNat DEF SizeAt
  <1>6. /\ Cardinality(FreeUnder(c)) \in Nat
        /\ Cardinality(FreeUnder(c)')
             = IF Under(c, n) THEN Cardinality(FreeUnder(c)) - 1
                              ELSE Cardinality(FreeUnder(c))
    <2>1. FreeUnder(c)' = FreeUnder(c) \ {<<n, s>>}
      BY <1>2, <1>3 DEF FreeUnder, NodesUnder, TypeInv, TypeOK
    <2>2. <<n, s>> \in FreeUnder(c) <=> Under(c, n)
      BY <1>2 DEF FreeUnder, NodesUnder
    <2> QED
      BY <2>1, <2>2, FreeIsFinite, FS_RemoveElement
  <1>7. /\ Cardinality(Holders(c)) \in Nat /\ Cardinality(Holders(c)') \in Nat
        /\ Cardinality(Holders(c))
             = IF Under(c, n) THEN Cardinality(Holders(c)') + 1
                              ELSE Cardinality(Holders(c)')
        /\ Cardinality(Rising(c)') = Cardinality(Rising(c))
        /\ Cardinality(Adding(c)') = Cardinality(Adding(c))
        /\ Cardinality(Rising(c)) \in Nat /\ Cardinality(Adding(c)) \in Nat
    BY <1>1, <1>4, CallsMove DEF Moves
  <1>8. NbElement * Cardinality(Adding(c)) \in Nat
    BY <1>7, Numerals
  <1> QED
    BY <1>5, <1>6, <1>7, <1>8 DEF TokensFor

LEMMA ReleaseTokens ==
  ASSUME TypeInv, SlotsAccounted, NEW t \in Threads, Release(t),
         NEW c \in Nodes \ {Root}, TokensFor(c)
  PROVE  TokensFor(c)'
PROOF
  <1>1. OthersSame(t)
    BY OthersStay DEF CallStep
  <1>2. PICK n \in exists, s \in Slots :
          /\ n = node[t] /\ s = id[t] /\ n \in Nodes
          /\ flag'[n] = flag[n] \cup {s}
          /\ \A m \in Nodes \ {n} : flag'[m] = flag[m]
    BY DEF TypeInv, TypeOK, LocalsInv, Release
  <1>3. s \notin flag[n]
    BY <1>2 DEF SlotsAccounted, Taken, Releasing, Release
  <1>4. /\ pc[t] = "release" /\ UNCHANGED <<exists, size>>
        /\ IF n = Root THEN pc'[t] = "idle" ELSE pc'[t] = "rel_up" /\ up'[t] = n
    BY <1>2 DEF Release, Return, Goto, TypeInv, TypeOK
  <1>5. /\ t \notin Holders(c) /\ t \notin Holders(c)'
        /\ t \notin Adding(c) /\ t \notin Adding(c)'
        /\ t \notin Rising(c) /\ (t \in Rising(c)' <=> Under(c, n))
    BY <1>2, <1>4, UnderRoot DEF Holders, Rising, Adding, Target, Acquiring, Below
  <1>6. SizeAt(c)' = SizeAt(c) /\ SizeAt(c) \in Nat
    BY <1>4, SizeIsNat DEF SizeAt
  <1>7. /\ Cardinality(FreeUnder(c)) \in Nat
        /\ Cardinality(FreeUnder(c)')
             = IF Under(c, n) THEN Cardinality(FreeUnder(c)) + 1
                              ELSE Cardinality(FreeUnder(c))
    <2>1. CASE Under(c, n)
      <3>1. FreeUnder(c)' = FreeUnder(c) \cup {<<n, s>>}
        BY <1>2, <1>4, <2>1 DEF FreeUnder, NodesUnder, TypeInv, TypeOK
      <3>2. <<n, s>> \notin FreeUnder(c)
        BY <1>3 DEF FreeUnder
      <3> QED
        BY <2>1, <3>1, <3>2, FreeIsFinite, FS_AddElement
    <2>2. CASE ~Under(c, n)
      <3>1. FreeUnder(c)' = FreeUnder(c)
        BY <1>2, <1>4, <2>2 DEF FreeUnder, NodesUnder, TypeInv, TypeOK
      <3> QED
        BY <2>2, <3>1, FreeIsFinite
    <2> QED
      BY <2>1, <2>2
  <1>8. /\ Cardinality(Rising(c)) \in Nat /\ Cardinality(Rising(c)') \in Nat
        /\ Cardinality(Rising(c)')
             = IF Under(c, n) THEN Cardinality(Rising(c)) + 1
                              ELSE Cardinality(Rising(c))
        /\ Cardinality(Holders(c)') = Cardinality(Holders(c))
        /\ Cardinality(Adding(c)') = Cardinality(Adding(c))
        /\ Cardinality(Holders(c)) \in Nat /\ Cardinality(Adding(c)) \in Nat
    BY <1>1, <1>5, CallsMove DEF Moves
  <1>9. NbElement * Cardinality(Adding(c)) \in Nat
    BY <1>8, Numerals
  <1> QED
    BY <1>6, <1>7, <1>8, <1>9 DEF TokensFor

LEMMA MakeNodeTokens ==
  ASSUME TypeInv, NEW t \in Threads, MakeNode(t), NEW c \in Nodes \ {Root}, TokensFor(c)
  PROVE  TokensFor(c)'
PROOF
  <1>1. OthersSame(t)
    BY OthersStay DEF CallStep
  <1>2. PICK n \in Nodes \ exists : n = Append(cur[t], best[t].id) /\ exists' = exists \cup {n}
    BY DEF MakeNode
  <1>3. /\ pc[t] = "make" /\ pc'[t] = "init_size" /\ up'[t] = n /\ node'[t] = node[t]
        /\ UNCHANGED <<flag, size>>
    BY <1>2 DEF MakeNode, Goto, TypeInv, TypeOK
  <1>4. flag[n] = Slots
    BY DEF TypeInv, ShapeInv
  <1>5. /\ t \in Holders(c) <=> t \in Holders(c)'
        /\ t \notin Rising(c) /\ t \notin Rising(c)'
        /\ t \notin Adding(c) /\ (t \in Adding(c)' <=> Under(c, n))
    BY <1>3 DEF Holders, Rising, Adding, Target, Acquiring, Below
  <1>6. SizeAt(c)' = SizeAt(c) /\ SizeAt(c) \in Nat
    BY <1>3, SizeIsNat DEF SizeAt
  <1>7. /\ Cardinality(FreeUnder(c)) \in Nat
        /\ Cardinality(FreeUnder(c)')
             = IF Under(c, n) THEN Cardinality(FreeUnder(c)) + NbElement
                              ELSE Cardinality(FreeUnder(c))
    <2>1. CASE Under(c, n)
      <3> DEFINE new == {n} \X Slots
      <3>1. FreeUnder(c)' = FreeUnder(c) \cup new
        BY <1>2, <1>3, <1>4, <2>1 DEF FreeUnder, NodesUnder, TypeInv, TypeOK
      <3>2. FreeUnder(c) \cap new = {}
        BY DEF FreeUnder, NodesUnder
      <3>3. IsFiniteSet(new) /\ Cardinality(new) = NbElement
        <4>1. IsFiniteSet(Slots) /\ Cardinality(Slots) = NbElement
          BY Numerals, FS_Interval DEF Slots
        <4>2. IsFiniteSet({n}) /\ Cardinality({n}) = 1
          BY FS_Singleton
        <4>3. IsFiniteSet(new) /\ Cardinality(new) = Cardinality({n}) * Cardinality(Slots)
          BY <4>1, <4>2, FS_Product
        <4> QED
          BY <4>1, <4>2, <4>3, Numerals
      <3> HIDE DEF new
      <3>4. Cardinality(FreeUnder(c) \cup new)
              = Cardinality(FreeUnder(c)) + Cardinality(new) - Cardinality(FreeUnder(c) \cap new)
        BY <3>3, FreeIsFinite, FS_Union
      <3>5. Cardinality(FreeUnder(c) \cap new) = 0
        BY <3>2, FS_EmptySet
      <3> QED
        BY <2>1, <3>1, <3>3, <3>4, <3>5, Numerals, FreeIsFinite
    <2>2. CASE ~Under(c, n)
      <3>1. FreeUnder(c)' = FreeUnder(c)
        BY <1>2, <1>3, <2>2 DEF FreeUnder, NodesUnder
      <3> QED
        BY <2>2, <3>1, FreeIsFinite
    <2> QED
      BY <2>1, <2>2
  <1>8. /\ Cardinality(Adding(c)) \in Nat /\ Cardinality(Adding(c)') \in Nat
        /\ Cardinality(Adding(c)')
             = IF Under(c, n) THEN Cardinality(Adding(c)) + 1
                              ELSE Cardinality(Adding(c))
        /\ Cardinality(Holders(c)') = Cardinality(Holders(c))
        /\ Cardinality(Rising(c)') = Cardinality(Rising(c))
        /\ Cardinality(Holders(c)) \in Nat /\ Cardinality(Rising(c)) \in Nat
    BY <1>1, <1>5, CallsMove DEF Moves
  <1>9. /\ NbElement * Cardinality(Adding(c)) \in Nat
        /\ NbElement * Cardinality(Adding(c)')
             = IF Under(c, n) THEN NbElement * Cardinality(Adding(c)) + NbElement
                              ELSE NbElement * Cardinality(Adding(c))
    BY <1>8, Numerals
  <1> QED
    BY <1>6, <1>7, <1>8, <1>9, Numerals DEF TokensFor

LEMMA TokensInit == Init => TokensMatchFree
PROOF
  <1> SUFFICES ASSUME Init, NEW c \in Nodes \ {Root} PROVE TokensFor(c)
    BY TokensForEach
  <1>1. Holders(c) = {} /\ Rising(c) = {} /\ Adding(c) = {}
    BY DEF Init, Holders, Rising, Adding, Acquiring, Below
  <1>2. FreeUnder(c) = {}
    BY UnderRoot DEF Init, FreeUnder, NodesUnder
  <1>3. SizeAt(c) = 0
    BY ParentOf DEF Init, SizeAt
  <1> QED
    BY <1>1, <1>2, <1>3, FS_EmptySet, Numerals DEF TokensFor

LEMMA TokensStep ==
  TypeInv /\ SlotsAccounted /\ TokensMatchFree /\ [Next]_vars => TokensMatchFree'
PROOF
  <1> SUFFICES ASSUME TypeInv, SlotsAccounted, TokensMatchFree, [Next]_vars,
                      NEW c \in Nodes \ {Root}
               PROVE  TokensFor(c)'
    BY DEF TokensMatchFree, TokensFor, OnTheWay, SizeAt, Rising, Adding
  <1>1. TokensFor(c)
    BY TokensForEach
  <1>2. CASE UNCHANGED vars
    <2>1. UNCHANGED <<Holders(c), Rising(c), Adding(c), SizeAt(c)>>
      BY <1>2 DEF vars, tree, locals, Holders, Target, Rising, Adding, SizeAt
    <2>2. FreeUnder(c)' = FreeUnder(c)
      BY <1>2, FreeKept DEF vars, tree
    <2> QED
      BY <1>1, <2>1, <2>2 DEF TokensFor
  <1>3. ASSUME NEW t \in Threads, Acquire(t) \/ Drop(t) \/ CallStep(t) PROVE TokensFor(c)'
    BY <1>1, <1>3, IdlingTokens, TakeTokenTokens, InitSizeTokens, ReleaseUpTokens,
       AcqTakeTokens, ReleaseTokens, MakeNodeTokens
    DEF CallStep, Idling
  <1> QED
    BY <1>2, <1>3 DEF Next

(* The tokens of every child agree with the free slots below it, for any   *)
(* interleaving of calls that take tokens, pass them up and make nodes.    *)
THEOREM TreeTokensMatchFree == Spec => []TokensMatchFree
PROOF
  <1>1. Init => SlotsAccounted /\ TokensMatchFree
    BY SlotsInit, TokensInit
  <1>2. TypeInv /\ SlotsAccounted /\ TokensMatchFree /\ [Next]_vars
          => SlotsAccounted' /\ TokensMatchFree'
    BY SlotsStep, TokensStep
  <1> QED
    BY <1>1, <1>2, TypeInvAlways, PTL DEF Spec

-------------------------------------------------------------------------------
(* capacity_ counts the slots below a child.                               *)

CapacityAt(c) == capacity[Parent(c)][IdOf(c)]
Announcing(c) == {t \in Threads : \/ pc[t] = "init_size" /\ Under(c, cur[t])
                                  \/ pc[t] = "init_cap" /\ Under(c, up[t])}

CapacityFor(c) == CapacityAt(c) + NbElement * Cardinality(Announcing(c))
                    = NbElement * Cardinality(NodesUnder(c))

LEMMA CapacityForEach == CapacityMatches <=> \A c \in Nodes \ {Root} : CapacityFor(c)
PROOF
  BY DEF CapacityMatches, CapacityFor, CapacityAt, Announcing, Unannounced

LEMMA CapacityInit == Init => CapacityMatches
PROOF
  <1> SUFFICES ASSUME Init, NEW c \in Nodes \ {Root} PROVE CapacityFor(c)
    BY CapacityForEach
  <1>1. Announcing(c) = {}
    BY DEF Init, Announcing
  <1>2. NodesUnder(c) = {}
    BY UnderRoot DEF Init, NodesUnder
  <1>3. CapacityAt(c) = 0
    BY ParentOf DEF Init, CapacityAt
  <1> QED
    BY <1>1, <1>2, <1>3, FS_EmptySet, Numerals DEF CapacityFor

LEMMA AnnouncingMoves ==
  ASSUME NEW t \in Threads, OthersSame(t), NEW c \in Nodes
  PROVE  Moves(t, Announcing(c), Announcing(c)')
PROOF
  <1>1. Announcing(c) \ {t} = Announcing(c)' \ {t}
    BY DEF OthersSame, Announcing
  <1>2. Announcing(c) \in SUBSET Threads /\ Announcing(c)' \in SUBSET Threads
    BY DEF Announcing
  <1> QED
    BY <1>1, <1>2, OneMoves

(* NbElement more for one more.                                            *)
LEMMA OneSegment ==
  ASSUME NEW a \in Nat, NEW b \in Nat
  PROVE  /\ NbElement * a \in Nat
         /\ a = b + 1 => NbElement * a = NbElement * b + NbElement
PROOF
  <1>1. NbElement \in Nat
    BY Numerals
  <1>2. NbElement * (b + 1) = NbElement * b + NbElement
    BY <1>1
  <1> QED
    BY <1>1, <1>2

LEMMA InitCapCapacity ==
  ASSUME TypeInv, NEW t \in Threads, InitCap(t), NEW c \in Nodes \ {Root}, CapacityFor(c)
  PROVE  CapacityFor(c)'
PROOF
  <1>1. OthersSame(t)
    BY OthersStay DEF CallStep
  <1>2. PICK n \in Nodes \ {Root} : n = up[t]
    BY DEF TypeInv, TypeOK, LocalsInv, InitCap
  <1>3. /\ capacity' = [capacity EXCEPT ![Parent(n)][IdOf(n)] = @ + NbElement]
        /\ exists' = exists
    BY <1>2 DEF InitCap, IncCap
  <1>4. CapacityAt(c) \in Nat /\ CapacityAt(c)'
          = IF c = n THEN CapacityAt(c) + NbElement ELSE CapacityAt(c)
    <2>1. /\ Parent(n) \in Nodes /\ IdOf(n) \in Children
          /\ Append(Parent(n), IdOf(n)) = n
      BY ParentOf
    <2>2. /\ Parent(c) \in Nodes /\ IdOf(c) \in Children
          /\ Append(Parent(c), IdOf(c)) = c
      BY ParentOf
    <2>3. capacity \in [Nodes -> [Children -> Nat]]
      BY DEF TypeInv, TypeOK
    <2>4. CASE c = n
      BY <1>3, <2>1, <2>3, <2>4 DEF CapacityAt
    <2>5. CASE c # n
      <3>1. Parent(c) # Parent(n) \/ IdOf(c) # IdOf(n)
        BY <2>1, <2>2, <2>5
      <3> QED
        BY <1>3, <2>1, <2>2, <2>3, <2>5, <3>1 DEF CapacityAt
    <2> QED
      BY <2>4, <2>5
  <1>5. /\ pc[t] = "init_cap"
        /\ IF Parent(n) = Root THEN pc'[t] = "full"
                               ELSE pc'[t] = "init_cap" /\ up'[t] = Parent(n)
    BY <1>2 DEF InitCap, Goto, TypeInv, TypeOK
  <1>6. /\ t \in Announcing(c) <=> Under(c, n)
        /\ t \in Announcing(c)' <=> Under(c, Parent(n))
    BY <1>2, <1>5, PassedUp DEF Announcing
  <1>7. /\ Cardinality(Announcing(c)) \in Nat /\ Cardinality(Announcing(c)') \in Nat
        /\ Cardinality(Announcing(c))
             = IF c = n THEN Cardinality(Announcing(c)') + 1
                        ELSE Cardinality(Announcing(c)')
    BY <1>1, <1>6, PassedUp, AnnouncingMoves DEF Moves
  <1>8. /\ NbElement * Cardinality(Announcing(c)') \in Nat /\ NbElement \in Nat
        /\ NbElement * Cardinality(Announcing(c))
             = IF c = n THEN NbElement * Cardinality(Announcing(c)') + NbElement
                        ELSE NbElement * Cardinality(Announcing(c)')
    BY <1>7, OneSegment, Numerals
  <1>9. NodesUnder(c)' = NodesUnder(c)
    BY <1>3 DEF NodesUnder
  <1> QED
    BY <1>4, <1>8, <1>9 DEF CapacityFor

LEMMA MakeNodeCapacity ==
  ASSUME TypeInv, NEW t \in Threads, MakeNode(t), NEW c \in Nodes \ {Root}, CapacityFor(c)
  PROVE  CapacityFor(c)'
PROOF
  <1>1. OthersSame(t)
    BY OthersStay DEF CallStep
  <1>2. PICK n \in Nodes \ exists : n = Append(cur[t], best[t].id) /\ exists' = exists \cup {n}
    BY DEF MakeNode
  <1>3. /\ pc[t] = "make" /\ pc'[t] = "init_size" /\ cur'[t] = n
        /\ capacity' = capacity
    BY <1>2 DEF MakeNode, Goto, TypeInv, TypeOK
  <1>4. CapacityAt(c)' = CapacityAt(c) /\ CapacityAt(c) \in Nat
    BY <1>3, ParentOf DEF CapacityAt, TypeInv, TypeOK
  <1>5. t \notin Announcing(c) /\ (t \in Announcing(c)' <=> Under(c, n))
    BY <1>3 DEF Announcing
  <1>6. /\ Cardinality(Announcing(c)) \in Nat /\ Cardinality(Announcing(c)') \in Nat
        /\ Cardinality(Announcing(c)')
             = IF Under(c, n) THEN Cardinality(Announcing(c)) + 1
                              ELSE Cardinality(Announcing(c))
    BY <1>1, <1>5, AnnouncingMoves DEF Moves
  <1>7. /\ Cardinality(NodesUnder(c)) \in Nat /\ Cardinality(NodesUnder(c)') \in Nat
        /\ Cardinality(NodesUnder(c)')
             = IF Under(c, n) THEN Cardinality(NodesUnder(c)) + 1
                              ELSE Cardinality(NodesUnder(c))
    <2>1. IsFiniteSet(NodesUnder(c)) /\ Cardinality(NodesUnder(c)) \in Nat
      <3>1. IsFiniteSet(NodesUnder(c))
        BY FS_Subset DEF NodesUnder, TypeInv, ShapeInv
      <3> QED
        BY <3>1, FS_CardinalityType
    <2>2. n \notin NodesUnder(c)
      BY DEF NodesUnder
    <2>3. CASE Under(c, n)
      <3>1. NodesUnder(c)' = NodesUnder(c) \cup {n}
        BY <1>2, <2>3 DEF NodesUnder
      <3>2. Cardinality(NodesUnder(c) \cup {n}) = Cardinality(NodesUnder(c)) + 1
        BY <2>1, <2>2, FS_AddElement
      <3> QED
        BY <2>1, <2>3, <3>1, <3>2
    <2>4. CASE ~Under(c, n)
      <3>1. NodesUnder(c)' = NodesUnder(c)
        BY <1>2, <2>4 DEF NodesUnder
      <3> QED
        BY <2>1, <2>4, <3>1
    <2> QED
      BY <2>3, <2>4
  <1>8. /\ NbElement \in Nat /\ NbElement * Cardinality(Announcing(c)) \in Nat
        /\ NbElement * Cardinality(NodesUnder(c)) \in Nat
        /\ NbElement * Cardinality(Announcing(c)')
             = IF Under(c, n) THEN NbElement * Cardinality(Announcing(c)) + NbElement
                              ELSE NbElement * Cardinality(Announcing(c))
        /\ NbElement * Cardinality(NodesUnder(c)')
             = IF Under(c, n) THEN NbElement * Cardinality(NodesUnder(c)) + NbElement
                              ELSE NbElement * Cardinality(NodesUnder(c))
    BY <1>6, <1>7, OneSegment, Numerals
  <1> QED
    BY <1>4, <1>8 DEF CapacityFor

(* Steps that change no capacity: of a thread that is to announce a node   *)
(* or of one that is not.                                                  *)
LEMMA OtherCapacity ==
  ASSUME TypeInv, NEW t \in Threads, Acquire(t) \/ Drop(t) \/ CallStep(t),
         ~InitCap(t), ~MakeNode(t), NEW c \in Nodes \ {Root}, CapacityFor(c)
  PROVE  CapacityFor(c)'
PROOF
  <1>1. OthersSame(t)
    BY OthersStay
  <1>2. UNCHANGED <<exists, capacity>>
    BY DEF CallStep, Acquire, Drop, AcqTake, AcqEmpty, ReadIndex, TakeToken, NoToken,
           GoDown, CheckFull, ScanCap, ScanSize, MakeFound, InitSize, Release,
           ReleaseUp, tree
  <1>3. t \in Announcing(c) <=> t \in Announcing(c)'
    <2> USE DEF TypeInv, TypeOK, Goto, locals, Announcing
    <2>1. CASE InitSize(t)
      BY <2>1 DEF InitSize
    <2>2. CASE Acquire(t) \/ AcqEmpty(t) \/ ReadIndex(t) \/ TakeToken(t) \/ GoDown(t)
      BY <2>2 DEF Acquire, AcqEmpty, ReadIndex, TakeToken, GoDown
    <2>3. CASE NoToken(t) \/ CheckFull(t) \/ ScanCap(t) \/ ScanSize(t) \/ MakeFound(t)
      BY <2>3 DEF NoToken, CheckFull, ScanCap, ScanSize, MakeFound
    <2>4. CASE AcqTake(t) \/ Drop(t) \/ Release(t) \/ ReleaseUp(t)
      BY <2>4 DEF AcqTake, Drop, Release, ReleaseUp, Return
    <2> QED
      BY <2>1, <2>2, <2>3, <2>4 DEF CallStep
  <1>4. Cardinality(Announcing(c)') = Cardinality(Announcing(c))
    BY <1>1, <1>3, AnnouncingMoves DEF Moves
  <1>5. NodesUnder(c)' = NodesUnder(c) /\ CapacityAt(c)' = CapacityAt(c)
    BY <1>2 DEF NodesUnder, CapacityAt
  <1> QED
    BY <1>4, <1>5 DEF CapacityFor

LEMMA CapacityStep == TypeInv /\ CapacityMatches /\ [Next]_vars => CapacityMatches'
PROOF
  <1> SUFFICES ASSUME TypeInv, CapacityMatches, [Next]_vars, NEW c \in Nodes \ {Root}
               PROVE  CapacityFor(c)'
    BY DEF CapacityMatches, CapacityFor, CapacityAt, Announcing, Unannounced
  <1>1. CapacityFor(c)
    BY CapacityForEach
  <1>2. CASE UNCHANGED vars
    BY <1>1, <1>2
    DEF vars, tree, locals, CapacityFor, CapacityAt, Announcing, NodesUnder
  <1>3. ASSUME NEW t \in Threads, Acquire(t) \/ Drop(t) \/ CallStep(t)
        PROVE  CapacityFor(c)'
    BY <1>1, <1>3, InitCapCapacity, MakeNodeCapacity, OtherCapacity
  <1> QED
    BY <1>2, <1>3 DEF Next

(* What create_node_ balances the tree by is right but for the nodes whose *)
(* creators are still on their way.                                        *)
THEOREM TreeCapacityMatches == Spec => []CapacityMatches
PROOF
  BY CapacityInit, CapacityStep, TypeInvAlways, PTL DEF Spec

-------------------------------------------------------------------------------
(* The tokens that a node has for the tree below it. What came to the node *)
(* - tokens it can be reached by, calls that reached it, and what is still *)
(* to be passed up from it - is in its own free slots, or below it; and    *)
(* its free slots are all spoken for by those who will look at them first. *)

Coming(c)    == {t \in Threads : pc[t] \in {"segment", "child"} /\ Target(t) = c}
Searching(c) == {t \in Threads : pc[t] \in Below /\ node[t] = c}
RisingAt(c)  == {t \in Threads : pc[t] = "rel_up" /\ up[t] = c}
AddingAt(c)  == {t \in Threads : pc[t] = "init_size" /\ up[t] = c}

Claims(c) == SizeAt(c) + Cardinality(Coming(c))
               + Cardinality(RisingAt(c)) + NbElement * Cardinality(AddingAt(c))

BalanceFor(c) ==
  /\ Cardinality(Tokens(c)) + Cardinality(flag[c]) = Claims(c) + Cardinality(Searching(c))
  /\ Cardinality(flag[c]) <= Claims(c)

BalanceInv == \A c \in exists \ {Root} : BalanceFor(c)

(* The number of tokens follows the counters.                              *)
TokensIn(f) == UNION {{i} \X (1 .. f[i]) : i \in Children}

LEMMA TokensFinite ==
  ASSUME NEW f \in [Children -> Nat]
  PROVE  IsFiniteSet(TokensIn(f))
PROOF
  <1> DEFINE h == [i \in Children |-> {i} \X (1 .. f[i])]
             S == {{i} \X (1 .. f[i]) : i \in Children}
  <1>1. IsFiniteSet(Children)
    BY FS_Interval, Numerals DEF Children
  <1>2. h \in Surjection(Children, S)
    BY DEF Surjection
  <1>3. ASSUME NEW i \in Children PROVE IsFiniteSet({i} \X (1 .. f[i]))
    <2>1. IsFiniteSet({i})
      BY FS_Singleton
    <2>2. IsFiniteSet(1 .. f[i])
      BY FS_Interval
    <2> QED
      BY <2>1, <2>2, FS_Product
  <1>4. \A T \in S : IsFiniteSet(T)
    BY <1>3
  <1> HIDE DEF h, S
  <1>5. IsFiniteSet(S)
    BY <1>1, <1>2, FS_Surjection
  <1>6. IsFiniteSet(UNION S)
    BY <1>4, <1>5, FS_UNION
  <1> QED
    BY <1>6 DEF TokensIn, S

LEMMA UpTo ==
  ASSUME NEW k \in Nat
  PROVE  IsFiniteSet(1 .. k) /\ Cardinality(1 .. k) = k
PROOF
  <1>1. 1 \in Int /\ k \in Int
    OBVIOUS
  <1>2. /\ IsFiniteSet(1 .. k)
        /\ Cardinality(1 .. k) = IF 1 > k THEN 0 ELSE k - 1 + 1
    BY <1>1, FS_Interval
  <1> QED
    BY <1>2

LEMMA TokensCount ==
  ASSUME NEW f \in [Children -> Nat], NEW g \in [Children -> Nat], NEW i \in Children,
         \A j \in Children \ {i} : g[j] = f[j]
  PROVE  /\ Cardinality(TokensIn(f)) \in Nat /\ Cardinality(TokensIn(g)) \in Nat
         /\ Cardinality(TokensIn(g)) + f[i] = Cardinality(TokensIn(f)) + g[i]
PROOF
  <1> DEFINE rest == UNION {{j} \X (1 .. f[j]) : j \in Children \ {i}}
             old  == {i} \X (1 .. f[i])
             new  == {i} \X (1 .. g[i])
  <1>1. TokensIn(f) = rest \cup old
    BY DEF TokensIn
  <1>2. TokensIn(g) = rest \cup new
    BY DEF TokensIn
  <1>3. rest \cap old = {} /\ rest \cap new = {}
    OBVIOUS
  <1>4. IsFiniteSet(rest)
    <2>1. rest \in SUBSET TokensIn(f)
      BY <1>1
    <2> QED
      BY <2>1, TokensFinite, FS_Subset
  <1>5. ASSUME NEW k \in Nat
        PROVE  IsFiniteSet({i} \X (1 .. k)) /\ Cardinality({i} \X (1 .. k)) = k
    <2>1. IsFiniteSet({i}) /\ Cardinality({i}) = 1
      BY FS_Singleton
    <2>2. IsFiniteSet(1 .. k) /\ Cardinality(1 .. k) = k
      BY UpTo
    <2>3. /\ IsFiniteSet({i} \X (1 .. k))
          /\ Cardinality({i} \X (1 .. k)) = Cardinality({i}) * Cardinality(1 .. k)
      BY <2>1, <2>2, FS_Product
    <2> QED
      BY <2>1, <2>2, <2>3
  <1>6. /\ IsFiniteSet(old) /\ Cardinality(old) = f[i]
        /\ IsFiniteSet(new) /\ Cardinality(new) = g[i]
    BY <1>5
  <1> HIDE DEF rest, old, new
  <1>7. Cardinality(rest) \in Nat
    BY <1>4, FS_CardinalityType
  <1>8. Cardinality(rest \cup old) = Cardinality(rest) + f[i]
    <2>1. Cardinality(rest \cup old)
            = Cardinality(rest) + Cardinality(old) - Cardinality(rest \cap old)
      BY <1>4, <1>6, FS_Union
    <2>2. Cardinality(rest \cap old) = 0
      BY <1>3, FS_EmptySet
    <2>3. Cardinality(old) = f[i] /\ f[i] \in Nat
      BY <1>6
    <2> QED
      BY <1>7, <2>1, <2>2, <2>3
  <1>9. Cardinality(rest \cup new) = Cardinality(rest) + g[i]
    <2>1. Cardinality(rest \cup new)
            = Cardinality(rest) + Cardinality(new) - Cardinality(rest \cap new)
      BY <1>4, <1>6, FS_Union
    <2>2. Cardinality(rest \cap new) = 0
      BY <1>3, FS_EmptySet
    <2>3. Cardinality(new) = g[i] /\ g[i] \in Nat
      BY <1>6
    <2> QED
      BY <1>7, <2>1, <2>2, <2>3
  <1>10. f[i] \in Nat /\ g[i] \in Nat
    OBVIOUS
  <1>11. /\ Cardinality(TokensIn(f)) = Cardinality(rest) + f[i]
         /\ Cardinality(TokensIn(g)) = Cardinality(rest) + g[i]
    BY <1>1, <1>2, <1>8, <1>9
  <1> QED
    BY <1>7, <1>10, <1>11

LEMMA TokensAreIn == \A c : Tokens(c) = TokensIn(size[c])
PROOF
  BY DEF Tokens, TokensIn

LEMMA TokensIsNat ==
  ASSUME TypeInv, NEW c \in Nodes
  PROVE  Cardinality(Tokens(c)) \in Nat
PROOF
  <1>1. size[c] \in [Children -> Nat]
    BY DEF TypeInv, TypeOK
  <1>2. IsFiniteSet(TokensIn(size[c]))
    BY <1>1, TokensFinite
  <1> QED
    BY <1>2, TokensAreIn, FS_CardinalityType

LEMMA FlagIsFinite ==
  ASSUME TypeInv, NEW c \in Nodes
  PROVE  IsFiniteSet(flag[c]) /\ Cardinality(flag[c]) \in Nat
PROOF
  <1>1. IsFiniteSet(Slots)
    BY FS_Interval, Numerals DEF Slots
  <1>2. flag[c] \in SUBSET Slots
    BY DEF TypeInv, TypeOK
  <1>3. IsFiniteSet(flag[c])
    BY <1>1, <1>2, FS_Subset
  <1> QED
    BY <1>3, FS_CardinalityType

(* The tokens that arrive at the parent of n.                              *)
LEMMA IncSizeTokens ==
  ASSUME TypeInv, NEW n \in Nodes \ {Root}, NEW v \in Nat, IncSize(n, v),
         NEW c \in Nodes
  PROVE  Cardinality(Tokens(c)') = IF c = Parent(n) THEN Cardinality(Tokens(c)) + v
                                                    ELSE Cardinality(Tokens(c))
PROOF
  <1>1. PICK i \in Children : i = IdOf(n)
    BY ParentOf
  <1>2. Parent(n) \in Nodes
    BY ParentOf
  <1>3. /\ size' = [size EXCEPT ![Parent(n)][i] = @ + v]
        /\ size \in [Nodes -> [Children -> Nat]]
    BY <1>1 DEF IncSize, TypeInv, TypeOK
  <1>4. Tokens(c)' = TokensIn(size'[c]) /\ Tokens(c) = TokensIn(size[c])
    BY DEF Tokens, TokensIn
  <1>5. CASE c = Parent(n)
    <2>1. /\ size[c] \in [Children -> Nat] /\ size'[c] \in [Children -> Nat]
          /\ size'[c][i] = size[c][i] + v /\ size[c][i] \in Nat
          /\ \A j \in Children \ {i} : size'[c][j] = size[c][j]
      BY <1>2, <1>3, <1>5
    <2>2. /\ Cardinality(TokensIn(size[c])) \in Nat /\ Cardinality(TokensIn(size'[c])) \in Nat
          /\ Cardinality(TokensIn(size'[c])) + size[c][i]
               = Cardinality(TokensIn(size[c])) + size'[c][i]
      BY <2>1, TokensCount
    <2> QED
      BY <1>4, <1>5, <2>1, <2>2
  <1>6. CASE c # Parent(n)
    <2>1. size'[c] = size[c]
      BY <1>2, <1>3, <1>6
    <2> QED
      BY <1>4, <1>6, <2>1
  <1> QED
    BY <1>5, <1>6

LEMMA NodeCallsMove ==
  ASSUME NEW t \in Threads, OthersSame(t), NEW c \in Nodes
  PROVE  /\ Moves(t, Coming(c), Coming(c)') /\ Moves(t, Searching(c), Searching(c)')
         /\ Moves(t, RisingAt(c), RisingAt(c)') /\ Moves(t, AddingAt(c), AddingAt(c)')
PROOF
  <1>1. \A u \in Threads \ {t} : Target(u)' = Target(u)
    BY DEF OthersSame, Target
  <1>2. Coming(c) \ {t} = Coming(c)' \ {t} /\ Searching(c) \ {t} = Searching(c)' \ {t}
    BY <1>1 DEF OthersSame, Coming, Searching
  <1>3. RisingAt(c) \ {t} = RisingAt(c)' \ {t} /\ AddingAt(c) \ {t} = AddingAt(c)' \ {t}
    BY DEF OthersSame, RisingAt, AddingAt
  <1>4. /\ Coming(c) \in SUBSET Threads /\ Coming(c)' \in SUBSET Threads
        /\ Searching(c) \in SUBSET Threads /\ Searching(c)' \in SUBSET Threads
        /\ RisingAt(c) \in SUBSET Threads /\ RisingAt(c)' \in SUBSET Threads
        /\ AddingAt(c) \in SUBSET Threads /\ AddingAt(c)' \in SUBSET Threads
    BY DEF Coming, Searching, RisingAt, AddingAt
  <1> QED
    BY <1>2, <1>3, <1>4, OneMoves

LEMMA BalanceTypes ==
  ASSUME TypeInv, NEW c \in Nodes \ {Root}
  PROVE  /\ Cardinality(Tokens(c)) \in Nat /\ Cardinality(flag[c]) \in Nat
         /\ SizeAt(c) \in Nat /\ Cardinality(Coming(c)) \in Nat
         /\ Cardinality(Searching(c)) \in Nat /\ Cardinality(RisingAt(c)) \in Nat
         /\ Cardinality(AddingAt(c)) \in Nat /\ NbElement * Cardinality(AddingAt(c)) \in Nat
         /\ Claims(c) \in Nat
PROOF
  <1>1. \A S \in SUBSET Threads : Cardinality(S) \in Nat
    BY FS_Subset, FS_CardinalityType, TreeAssumption
  <1>2. /\ Coming(c) \in SUBSET Threads /\ Searching(c) \in SUBSET Threads
        /\ RisingAt(c) \in SUBSET Threads /\ AddingAt(c) \in SUBSET Threads
    BY DEF Coming, Searching, RisingAt, AddingAt
  <1>3. /\ Cardinality(Coming(c)) \in Nat /\ Cardinality(Searching(c)) \in Nat
        /\ Cardinality(RisingAt(c)) \in Nat /\ Cardinality(AddingAt(c)) \in Nat
    BY <1>1, <1>2
  <1>4. NbElement * Cardinality(AddingAt(c)) \in Nat
    BY <1>3, OneSegment
  <1>5. SizeAt(c) \in Nat
    BY SizeIsNat
  <1>6. Claims(c) \in Nat
    BY <1>3, <1>4, <1>5 DEF Claims
  <1> QED
    BY <1>3, <1>4, <1>5, <1>6, TokensIsNat, FlagIsFinite

(* A step that changes neither side.                                       *)
LEMMA BalanceKept ==
  ASSUME NEW t \in Threads, OthersSame(t), NEW c \in Nodes, BalanceFor(c),
         UNCHANGED <<size, flag[c]>>,
         t \in Coming(c) <=> t \in Coming(c)',
         t \in Searching(c) <=> t \in Searching(c)',
         t \in RisingAt(c) <=> t \in RisingAt(c)',
         t \in AddingAt(c) <=> t \in AddingAt(c)'
  PROVE  BalanceFor(c)'
PROOF
  <1>1. /\ Cardinality(Coming(c)') = Cardinality(Coming(c))
        /\ Cardinality(Searching(c)') = Cardinality(Searching(c))
        /\ Cardinality(RisingAt(c)') = Cardinality(RisingAt(c))
        /\ Cardinality(AddingAt(c)') = Cardinality(AddingAt(c))
    BY NodeCallsMove DEF Moves
  <1>2. SizeAt(c)' = SizeAt(c) /\ Tokens(c)' = Tokens(c)
    BY DEF SizeAt, Tokens
  <1> QED
    BY <1>1, <1>2 DEF BalanceFor, Claims

(* Steps that change no counter and no segment, but for AcqEmpty.          *)
LEMMA IdlingBalance ==
  ASSUME TypeInv, NEW t \in Threads, Idling(t), ~AcqEmpty(t),
         NEW c \in Nodes \ {Root}, BalanceFor(c)
  PROVE  BalanceFor(c)'
PROOF
  <1>1. OthersSame(t)
    BY OthersStay DEF Idling, CallStep
  <1>2. UNCHANGED <<flag, size>>
    BY DEF Idling, Acquire, ReadIndex, NoToken, GoDown, CheckFull, ScanCap,
           ScanSize, MakeFound, InitCap, Drop, tree
  <1> USE DEF TypeInv, TypeOK, Goto, locals, Coming, Searching, RisingAt, AddingAt,
              Target, Below
  <1>3. /\ t \notin RisingAt(c) /\ t \notin RisingAt(c)'
        /\ t \notin AddingAt(c) /\ t \notin AddingAt(c)'
    <2>1. CASE Acquire(t) \/ ReadIndex(t) \/ NoToken(t) \/ GoDown(t)
      BY <2>1 DEF Acquire, ReadIndex, NoToken, GoDown
    <2>2. CASE CheckFull(t) \/ ScanCap(t) \/ ScanSize(t)
      BY <2>2 DEF CheckFull, ScanCap, ScanSize
    <2>3. CASE MakeFound(t) \/ InitCap(t) \/ Drop(t)
      BY <2>3 DEF MakeFound, InitCap, Drop
    <2> QED
      BY <2>1, <2>2, <2>3 DEF Idling
  <1>4. (t \in Coming(c) <=> t \in Coming(c)') /\ (t \in Searching(c) <=> t \in Searching(c)')
    <2>1. CASE Acquire(t)
      BY <2>1 DEF Acquire, LocalsInv
    <2>2. CASE ReadIndex(t) \/ NoToken(t)
      BY <2>2 DEF ReadIndex, NoToken
    <2>3. CASE GoDown(t)
      BY <2>3 DEF GoDown
    <2>4. CASE CheckFull(t) \/ ScanCap(t) \/ ScanSize(t)
      BY <2>4 DEF CheckFull, ScanCap, ScanSize
    <2>5. CASE MakeFound(t) \/ InitCap(t) \/ Drop(t)
      BY <2>5 DEF MakeFound, InitCap, Drop
    <2> QED
      BY <2>1, <2>2, <2>3, <2>4, <2>5 DEF Idling
  <1> QED
    BY <1>1, <1>2, <1>3, <1>4, BalanceKept

LEMMA AcqEmptyBalance ==
  ASSUME TypeInv, NEW t \in Threads, AcqEmpty(t), NEW c \in Nodes \ {Root}, BalanceFor(c)
  PROVE  BalanceFor(c)'
PROOF
  <1>1. OthersSame(t)
    BY OthersStay DEF CallStep
  <1>2. /\ pc[t] = "segment" /\ pc'[t] = "index" /\ node'[t] = node[t]
        /\ flag[node[t]] = {} /\ UNCHANGED <<flag, size>>
    BY DEF AcqEmpty, Goto, tree, locals, TypeInv, TypeOK
  <1>3. /\ t \in Coming(c) <=> c = node[t]
        /\ t \notin Coming(c)' /\ t \notin Searching(c)
        /\ t \in Searching(c)' <=> c = node[t]
        /\ t \notin RisingAt(c) /\ t \notin RisingAt(c)'
        /\ t \notin AddingAt(c) /\ t \notin AddingAt(c)'
    BY <1>2 DEF Coming, Searching, RisingAt, AddingAt, Target, Below
  <1>4. CASE c # node[t]
    BY <1>1, <1>2, <1>3, <1>4, BalanceKept
  <1>5. CASE c = node[t]
    <2>1. /\ Cardinality(Coming(c)) = Cardinality(Coming(c)') + 1
          /\ Cardinality(Searching(c)') = Cardinality(Searching(c)) + 1
          /\ Cardinality(RisingAt(c)') = Cardinality(RisingAt(c))
          /\ Cardinality(AddingAt(c)') = Cardinality(AddingAt(c))
          /\ Cardinality(Coming(c)') \in Nat /\ Cardinality(Coming(c)) \in Nat
      BY <1>1, <1>3, <1>5, NodeCallsMove DEF Moves
    <2>2. SizeAt(c)' = SizeAt(c) /\ Tokens(c)' = Tokens(c)
      BY <1>2 DEF SizeAt, Tokens
    <2>3. Cardinality(flag[c]) = 0 /\ flag'[c] = flag[c]
      BY <1>2, <1>5, FS_EmptySet
    <2>4. Claims(c) = Claims(c)' + 1 /\ Claims(c)' \in Nat
      BY <2>1, <2>2, BalanceTypes DEF Claims
    <2> QED
      BY <2>1, <2>2, <2>3, <2>4, BalanceTypes DEF BalanceFor
  <1> QED
    BY <1>4, <1>5

LEMMA AcqTakeBalance ==
  ASSUME TypeInv, NEW t \in Threads, AcqTake(t), NEW c \in Nodes \ {Root}, BalanceFor(c)
  PROVE  BalanceFor(c)'
PROOF
  <1>1. OthersSame(t)
    BY OthersStay DEF CallStep
  <1>2. PICK n \in Nodes, s \in Slots :
          /\ n = node[t]
          /\ s \in flag[n] /\ flag'[n] = flag[n] \ {s}
          /\ \A m \in Nodes \ {n} : flag'[m] = flag[m]
    <2>1. node[t] \in Nodes /\ flag[node[t]] \in SUBSET Slots /\ flag[node[t]] # {}
      BY DEF TypeInv, TypeOK, AcqTake
    <2>2. LowestBit(flag[node[t]]) \in flag[node[t]]
      BY <2>1, LowestBitIsRaised
    <2> QED
      BY <2>1, <2>2 DEF AcqTake, TypeInv, TypeOK
  <1>3. pc[t] = "segment" /\ pc'[t] = "idle" /\ UNCHANGED size
    BY DEF AcqTake, Return, Goto, TypeInv, TypeOK
  <1>4. /\ t \in Coming(c) <=> c = n
        /\ t \notin Coming(c)' /\ t \notin Searching(c) /\ t \notin Searching(c)'
        /\ t \notin RisingAt(c) /\ t \notin RisingAt(c)'
        /\ t \notin AddingAt(c) /\ t \notin AddingAt(c)'
    BY <1>2, <1>3 DEF Coming, Searching, RisingAt, AddingAt, Target, Below
  <1>5. CASE c # n
    BY <1>1, <1>2, <1>3, <1>4, <1>5, BalanceKept
  <1>6. CASE c = n
    <2>1. /\ Cardinality(Coming(c)) = Cardinality(Coming(c)') + 1
          /\ Cardinality(Searching(c)') = Cardinality(Searching(c))
          /\ Cardinality(RisingAt(c)') = Cardinality(RisingAt(c))
          /\ Cardinality(AddingAt(c)') = Cardinality(AddingAt(c))
          /\ Cardinality(Coming(c)') \in Nat
      BY <1>1, <1>4, <1>6, NodeCallsMove DEF Moves
    <2>2. SizeAt(c)' = SizeAt(c) /\ Tokens(c)' = Tokens(c)
      BY <1>3 DEF SizeAt, Tokens
    <2>3. Cardinality(flag'[c]) = Cardinality(flag[c]) - 1
      BY <1>2, <1>6, FlagIsFinite, FS_RemoveElement
    <2>4. Claims(c) = Claims(c)' + 1 /\ Claims(c)' \in Nat
      BY <2>1, <2>2, BalanceTypes DEF Claims
    <2> QED
      BY <2>1, <2>2, <2>3, <2>4, BalanceTypes DEF BalanceFor
  <1> QED
    BY <1>5, <1>6

LEMMA TakeTokenBalance ==
  ASSUME TypeInv, NEW t \in Threads, TakeToken(t), NEW c \in Nodes \ {Root}, BalanceFor(c)
  PROVE  BalanceFor(c)'
PROOF
  <1>1. OthersSame(t)
    BY OthersStay DEF CallStep
  <1>2. PICK n \in Nodes, i \in Children : n = node[t] /\ i = id[t]
    BY DEF TypeInv, TypeOK, LocalsInv, TakeToken
  <1>3. /\ size[n][i] > 0 /\ size' = [size EXCEPT ![n][i] = @ - 1]
        /\ Append(n, i) \in exists /\ UNCHANGED flag
        /\ size \in [Nodes -> [Children -> Nat]]
    BY <1>2 DEF TakeToken, TypeInv, TypeOK, ShapeInv
  <1>4. PICK d \in Nodes \ {Root} : d = Append(n, i) /\ Parent(d) = n /\ IdOf(d) = i
    BY <1>3, ChildOf DEF TypeInv, TypeOK
  <1>5. pc[t] = "token" /\ pc'[t] = "child" /\ node'[t] = n /\ id'[t] = i
    BY <1>2 DEF TakeToken, Goto, TypeInv, TypeOK, locals
  <1>6. n # d
    BY <1>4, UnderParent, UnderItself
  <1>7. /\ t \in Searching(c) <=> c = n
        /\ t \notin Searching(c)' /\ t \notin Coming(c)
        /\ t \in Coming(c)' <=> c = d
        /\ t \notin RisingAt(c) /\ t \notin RisingAt(c)'
        /\ t \notin AddingAt(c) /\ t \notin AddingAt(c)'
    BY <1>2, <1>4, <1>5 DEF Coming, Searching, RisingAt, AddingAt, Target, Below
  <1>8. SizeAt(c) = (IF c = d THEN SizeAt(c)' + 1 ELSE SizeAt(c)') /\ SizeAt(c)' \in Nat
    <2>1. /\ Parent(c) \in Nodes /\ IdOf(c) \in Children
          /\ Append(Parent(c), IdOf(c)) = c
      BY ParentOf
    <2>2. CASE c = d
      BY <1>3, <1>4, <2>2 DEF SizeAt
    <2>3. CASE c # d
      <3>1. Parent(c) # n \/ IdOf(c) # i
        BY <1>4, <2>1, <2>3
      <3> QED
        BY <1>3, <2>1, <2>3, <3>1 DEF SizeAt
    <2> QED
      BY <2>2, <2>3
  <1>9. /\ Cardinality(Tokens(c)')
             = IF c = n THEN Cardinality(Tokens(c)) - 1 ELSE Cardinality(Tokens(c))
        /\ Cardinality(Tokens(c)') \in Nat
    <2>1. Tokens(c)' = TokensIn(size'[c]) /\ Tokens(c) = TokensIn(size[c])
      BY DEF Tokens, TokensIn
    <2>2. CASE c = n
      <3>1. /\ size[c] \in [Children -> Nat] /\ size'[c] \in [Children -> Nat]
            /\ size[c][i] = size'[c][i] + 1 /\ size'[c][i] \in Nat
            /\ \A j \in Children \ {i} : size'[c][j] = size[c][j]
        BY <1>3, <2>2
      <3>2. /\ Cardinality(TokensIn(size[c])) \in Nat /\ Cardinality(TokensIn(size'[c])) \in Nat
            /\ Cardinality(TokensIn(size'[c])) + size[c][i]
                 = Cardinality(TokensIn(size[c])) + size'[c][i]
        BY <3>1, TokensCount
      <3> QED
        BY <2>1, <2>2, <3>1, <3>2
    <2>3. CASE c # n
      <3>1. size'[c] = size[c]
        BY <1>3, <2>3
      <3> QED
        BY <2>1, <2>3, <3>1, TokensIsNat
    <2> QED
      BY <2>2, <2>3
  <1>10. /\ Cardinality(Searching(c))
              = IF c = n THEN Cardinality(Searching(c)') + 1 ELSE Cardinality(Searching(c)')
         /\ Cardinality(Coming(c)')
              = IF c = d THEN Cardinality(Coming(c)) + 1 ELSE Cardinality(Coming(c))
         /\ Cardinality(RisingAt(c)') = Cardinality(RisingAt(c))
         /\ Cardinality(AddingAt(c)') = Cardinality(AddingAt(c))
         /\ Cardinality(Searching(c)') \in Nat
    BY <1>1, <1>7, NodeCallsMove DEF Moves
  <1>11. Claims(c)' = Claims(c)
    <2>1. SizeAt(c)' + Cardinality(Coming(c)') = SizeAt(c) + Cardinality(Coming(c))
      BY <1>8, <1>10, BalanceTypes
    <2> QED
      BY <1>10, <2>1 DEF Claims
  <1>12. flag'[c] = flag[c]
    BY <1>3
  <1> QED
    BY <1>9, <1>10, <1>11, <1>12, BalanceTypes DEF BalanceFor

(* Tokens passed up move from the claims on a node to those on its parent. *)
LEMMA PassUpBalance ==
  ASSUME TypeInv, NEW n \in Nodes \ {Root}, NEW v \in Nat, IncSize(n, v), UNCHANGED flag,
         NEW c \in Nodes \ {Root}, BalanceFor(c),
         Cardinality(Coming(c)') = Cardinality(Coming(c)),
         Cardinality(Searching(c)') = Cardinality(Searching(c)),
         NEW p \in Nat, NEW q \in Nat,
         p = Cardinality(RisingAt(c)) + NbElement * Cardinality(AddingAt(c)),
         q = Cardinality(RisingAt(c)') + NbElement * Cardinality(AddingAt(c)'),
         q + (IF c = n THEN v ELSE 0) = p + (IF c = Parent(n) THEN v ELSE 0)
  PROVE  BalanceFor(c)'
PROOF
  <1>1. SizeAt(c)' = IF c = n THEN SizeAt(c) + v ELSE SizeAt(c)
    BY IncSizeAt
  <1>2. Cardinality(Tokens(c)')
          = IF c = Parent(n) THEN Cardinality(Tokens(c)) + v ELSE Cardinality(Tokens(c))
    BY IncSizeTokens
  <1>3. Parent(n) # n
    BY ParentOf, UnderParent, UnderItself
  <1>4. Claims(c) = SizeAt(c) + Cardinality(Coming(c)) + p
    BY BalanceTypes DEF Claims
  <1>5. Claims(c)' = SizeAt(c)' + Cardinality(Coming(c)) + q
    <2>1. Claims(c)' = SizeAt(c)' + Cardinality(Coming(c)')
              + Cardinality(RisingAt(c)') + NbElement * Cardinality(AddingAt(c)')
      BY DEF Claims
    <2>2. SizeAt(c)' \in Nat /\ Cardinality(Coming(c)') \in Nat
      BY <1>1, BalanceTypes
    <2> DEFINE x == Cardinality(RisingAt(c)')
               y == NbElement * Cardinality(AddingAt(c)')
    <2>3. x \in Nat /\ y \in Nat
      <3>1. \A S \in SUBSET Threads : Cardinality(S) \in Nat
        BY FS_Subset, FS_CardinalityType, TreeAssumption
      <3>2. RisingAt(c)' \in SUBSET Threads /\ AddingAt(c)' \in SUBSET Threads
        BY DEF RisingAt, AddingAt
      <3> QED
        BY <3>1, <3>2, OneSegment
    <2>4. Claims(c)' = SizeAt(c)' + Cardinality(Coming(c)') + x + y /\ q = x + y
      BY <2>1
    <2> HIDE DEF x, y
    <2> QED
      BY <2>2, <2>3, <2>4
  <1>6. Claims(c)' = IF c = Parent(n) THEN Claims(c) + v ELSE Claims(c)
    BY <1>1, <1>3, <1>4, <1>5, BalanceTypes
  <1> QED
    BY <1>2, <1>6, BalanceTypes DEF BalanceFor

LEMMA InitSizeBalance ==
  ASSUME TypeInv, NEW t \in Threads, InitSize(t), NEW c \in Nodes \ {Root}, BalanceFor(c)
  PROVE  BalanceFor(c)'
PROOF
  <1>1. OthersSame(t)
    BY OthersStay DEF CallStep
  <1>2. PICK n \in Nodes \ {Root} : n = up[t]
    BY DEF TypeInv, TypeOK, LocalsInv, InitSize
  <1>3. IncSize(n, NbElement) /\ UNCHANGED flag
    BY <1>2 DEF InitSize
  <1>4. /\ pc[t] = "init_size" /\ node'[t] = node[t]
        /\ IF Parent(n) = Root THEN pc'[t] = "init_cap"
                               ELSE pc'[t] = "init_size" /\ up'[t] = Parent(n)
    BY <1>2 DEF InitSize, Goto, TypeInv, TypeOK
  <1>5. Parent(n) # n
    BY ParentOf, UnderParent, UnderItself
  <1>6. /\ t \notin Coming(c) /\ t \notin Coming(c)'
        /\ t \in Searching(c) <=> t \in Searching(c)'
        /\ t \notin RisingAt(c) /\ t \notin RisingAt(c)'
        /\ t \in AddingAt(c) <=> c = n
        /\ t \in AddingAt(c)' <=> c = Parent(n)
    BY <1>2, <1>4 DEF Coming, Searching, RisingAt, AddingAt, Target, Below
  <1> DEFINE r == Cardinality(RisingAt(c))
             a == Cardinality(AddingAt(c))
             b == Cardinality(AddingAt(c)')
             p == r + NbElement * a
             q == r + NbElement * b
  <1>7. /\ Cardinality(Coming(c)') = Cardinality(Coming(c))
        /\ Cardinality(Searching(c)') = Cardinality(Searching(c))
        /\ Cardinality(RisingAt(c)') = r /\ r \in Nat
        /\ a \in Nat /\ b \in Nat
        /\ b + (IF c = n THEN 1 ELSE 0) = a + (IF c = Parent(n) THEN 1 ELSE 0)
    BY <1>1, <1>6, NodeCallsMove DEF Moves
  <1>8. p = r + NbElement * a /\ q = Cardinality(RisingAt(c)') + NbElement * b
    BY <1>7
  <1> HIDE DEF r, a, b
  <1>9. NbElement * a \in Nat /\ NbElement * b \in Nat /\ NbElement \in Nat
    BY <1>7, OneSegment, Numerals
  <1>10. /\ p \in Nat /\ q \in Nat
         /\ q + (IF c = n THEN NbElement ELSE 0) = p + (IF c = Parent(n) THEN NbElement ELSE 0)
    <2>1. CASE c = n
      <3>1. a = b + 1
        BY <1>5, <1>7, <2>1
      <3> QED
        BY <1>5, <1>7, <1>9, <2>1, <3>1, OneSegment
    <2>2. CASE c = Parent(n)
      <3>1. b = a + 1
        BY <1>5, <1>7, <2>2
      <3> QED
        BY <1>5, <1>7, <1>9, <2>2, <3>1, OneSegment
    <2>3. CASE c # n /\ c # Parent(n)
      <3>1. b = a
        BY <1>7, <2>3
      <3> QED
        BY <1>7, <1>9, <2>3, <3>1
    <2> QED
      BY <2>1, <2>2, <2>3
  <1> HIDE DEF p, q
  <1> QED
    BY <1>3, <1>7, <1>8, <1>9, <1>10, PassUpBalance DEF r, a, b

LEMMA ReleaseUpBalance ==
  ASSUME TypeInv, NEW t \in Threads, ReleaseUp(t), NEW c \in Nodes \ {Root}, BalanceFor(c)
  PROVE  BalanceFor(c)'
PROOF
  <1>1. OthersSame(t)
    BY OthersStay DEF CallStep
  <1>2. PICK n \in Nodes \ {Root} : n = up[t]
    BY DEF TypeInv, TypeOK, LocalsInv, ReleaseUp
  <1>3. IncSize(n, 1) /\ UNCHANGED flag
    BY <1>2 DEF ReleaseUp
  <1>4. /\ pc[t] = "rel_up"
        /\ IF Parent(n) = Root THEN pc'[t] = "idle"
                               ELSE pc'[t] = "rel_up" /\ up'[t] = Parent(n)
    BY <1>2 DEF ReleaseUp, Return, Goto, TypeInv, TypeOK
  <1>5. /\ t \notin Coming(c) /\ t \notin Coming(c)'
        /\ t \notin Searching(c) /\ t \notin Searching(c)'
        /\ t \notin AddingAt(c) /\ t \notin AddingAt(c)'
        /\ t \in RisingAt(c) <=> c = n
        /\ t \in RisingAt(c)' <=> c = Parent(n)
    BY <1>2, <1>4 DEF Coming, Searching, RisingAt, AddingAt, Target, Below
  <1> DEFINE r == Cardinality(RisingAt(c))
             u == Cardinality(RisingAt(c)')
             a == NbElement * Cardinality(AddingAt(c))
             p == r + a
             q == u + a
  <1>6. /\ Cardinality(Coming(c)') = Cardinality(Coming(c))
        /\ Cardinality(Searching(c)') = Cardinality(Searching(c))
        /\ Cardinality(AddingAt(c)') = Cardinality(AddingAt(c))
        /\ r \in Nat /\ u \in Nat
        /\ u + (IF c = n THEN 1 ELSE 0) = r + (IF c = Parent(n) THEN 1 ELSE 0)
    BY <1>1, <1>5, NodeCallsMove DEF Moves
  <1>7. a \in Nat /\ a = NbElement * Cardinality(AddingAt(c)')
    BY <1>6, BalanceTypes
  <1>8. p = r + a /\ q = u + a
    OBVIOUS
  <1> HIDE DEF r, u, a, p, q
  <1>9. /\ p \in Nat /\ q \in Nat
        /\ q + (IF c = n THEN 1 ELSE 0) = p + (IF c = Parent(n) THEN 1 ELSE 0)
    BY <1>6, <1>7, <1>8
  <1>10. /\ p = Cardinality(RisingAt(c)) + NbElement * Cardinality(AddingAt(c))
         /\ q = Cardinality(RisingAt(c)') + NbElement * Cardinality(AddingAt(c)')
    BY <1>7, <1>8 DEF r, u, a
  <1> QED
    BY <1>3, <1>6, <1>9, <1>10, PassUpBalance

LEMMA ReleaseBalance ==
  ASSUME TypeInv, SlotsAccounted, NEW t \in Threads, Release(t),
         NEW c \in Nodes \ {Root}, BalanceFor(c)
  PROVE  BalanceFor(c)'
PROOF
  <1>1. OthersSame(t)
    BY OthersStay DEF CallStep
  <1>2. PICK n \in Nodes, s \in Slots :
          /\ n = node[t] /\ s = id[t]
          /\ flag'[n] = flag[n] \cup {s}
          /\ \A m \in Nodes \ {n} : flag'[m] = flag[m]
    BY DEF TypeInv, TypeOK, LocalsInv, Release
  <1>3. s \notin flag[n]
    BY <1>2 DEF SlotsAccounted, Taken, Releasing, Release
  <1>4. /\ pc[t] = "release" /\ UNCHANGED size
        /\ IF n = Root THEN pc'[t] = "idle" ELSE pc'[t] = "rel_up" /\ up'[t] = n
    BY <1>2 DEF Release, Return, Goto, TypeInv, TypeOK
  <1>5. /\ t \notin Coming(c) /\ t \notin Coming(c)'
        /\ t \notin Searching(c) /\ t \notin Searching(c)'
        /\ t \notin AddingAt(c) /\ t \notin AddingAt(c)'
        /\ t \notin RisingAt(c) /\ (t \in RisingAt(c)' <=> c = n)
    BY <1>2, <1>4 DEF Coming, Searching, RisingAt, AddingAt, Target, Below
  <1>6. CASE c # n
    BY <1>1, <1>2, <1>4, <1>5, <1>6, BalanceKept
  <1>7. CASE c = n
    <2>1. /\ Cardinality(Coming(c)') = Cardinality(Coming(c))
          /\ Cardinality(Searching(c)') = Cardinality(Searching(c))
          /\ Cardinality(AddingAt(c)') = Cardinality(AddingAt(c))
          /\ Cardinality(RisingAt(c)') = Cardinality(RisingAt(c)) + 1
      BY <1>1, <1>5, <1>7, NodeCallsMove DEF Moves
    <2>2. SizeAt(c)' = SizeAt(c) /\ Tokens(c)' = Tokens(c)
      BY <1>4 DEF SizeAt, Tokens
    <2>3. Cardinality(flag'[c]) = Cardinality(flag[c]) + 1
      <3>1. IsFiniteSet(flag[n])
        BY FlagIsFinite
      <3>2. Cardinality(flag[n] \cup {s}) = Cardinality(flag[n]) + 1
        BY <1>3, <3>1, FS_AddElement
      <3> QED
        BY <1>2, <1>7, <3>2
    <2>4. Claims(c)' = Claims(c) + 1
      BY <2>1, <2>2, BalanceTypes DEF Claims
    <2> QED
      BY <2>1, <2>2, <2>3, <2>4, BalanceTypes DEF BalanceFor
  <1> QED
    BY <1>6, <1>7

(* A new node: its free slots are claimed by its creator, who has yet to   *)
(* pass them up.                                                           *)
LEMMA MakeNodeBalance ==
  ASSUME TypeInv, NEW t \in Threads, MakeNode(t), BalanceInv
  PROVE  BalanceInv'
PROOF
  <1>1. OthersSame(t)
    BY OthersStay DEF CallStep
  <1>2. PICK n \in Nodes \ exists : n = Append(cur[t], best[t].id) /\ exists' = exists \cup {n}
    BY DEF MakeNode
  <1>3. /\ pc[t] = "make" /\ pc'[t] = "init_size" /\ up'[t] = n /\ node'[t] = node[t]
        /\ UNCHANGED <<flag, size>>
    BY <1>2 DEF MakeNode, Goto, TypeInv, TypeOK
  <1>4. n # Root
    BY DEF TypeInv, TypeOK
  <1>5. ASSUME NEW c \in exists \ {Root} PROVE BalanceFor(c)'
    <2>1. c \in Nodes \ {Root} /\ c # n /\ BalanceFor(c)
      BY DEF BalanceInv, TypeInv, TypeOK
    <2>2. /\ t \notin Coming(c) /\ t \notin Coming(c)'
          /\ t \in Searching(c) <=> t \in Searching(c)'
          /\ t \notin RisingAt(c) /\ t \notin RisingAt(c)'
          /\ t \notin AddingAt(c) /\ t \notin AddingAt(c)'
      BY <1>3, <2>1 DEF Coming, Searching, RisingAt, AddingAt, Target, Below
    <2> QED
      BY <1>1, <1>3, <2>1, <2>2, BalanceKept
  <1>6. BalanceFor(n)'
    <2>1. \A u \in Threads : node[u] \in exists /\ up[u] \in exists
      BY DEF TypeInv, TypeOK
    <2>2. \A u \in Threads : pc[u] \in {"segment", "child"} => Target(u) \in exists
      BY <2>1 DEF Target, TypeInv, LocalsInv
    <2>3. \A u \in Threads \ {t} : Target(u)' = Target(u)
      BY <1>1 DEF OthersSame, Target
    <2>4. Coming(n)' = {} /\ Searching(n)' = {} /\ RisingAt(n)' = {} /\ AddingAt(n)' = {t}
      BY <1>1, <1>2, <1>3, <2>1, <2>2, <2>3
      DEF OthersSame, Coming, Searching, RisingAt, AddingAt
    <2>5. /\ Cardinality(Coming(n)') = 0 /\ Cardinality(Searching(n)') = 0
          /\ Cardinality(RisingAt(n)') = 0 /\ Cardinality(AddingAt(n)') = 1
      BY <2>4, FS_EmptySet, FS_Singleton
    <2>6. SizeAt(n)' = 0
      <3>1. /\ Parent(n) \in Nodes /\ IdOf(n) \in Children
            /\ Append(Parent(n), IdOf(n)) = n
        BY <1>4, ParentOf
      <3>2. ~(size[Parent(n)][IdOf(n)] > 0)
        BY <3>1 DEF TypeInv, ShapeInv
      <3> QED
        BY <1>3, <3>1, <3>2 DEF SizeAt, TypeInv, TypeOK
    <2>7. Tokens(n)' = {}
      <3>1. ASSUME NEW i \in Children PROVE ~(size[n][i] > 0)
        <4>1. SUFFICES ASSUME Append(n, i) \in exists PROVE FALSE
          BY DEF TypeInv, ShapeInv
        <4>2. Under(n, Append(n, i))
          BY UnderChild, UnderItself
        <4> QED
          BY <4>1, <4>2 DEF TypeInv, ShapeInv
      <3>2. \A i \in Children : size[n][i] = 0
        BY <3>1 DEF TypeInv, TypeOK
      <3> QED
        BY <1>3, <3>2 DEF Tokens
    <2>8. Cardinality(flag'[n]) = NbElement
      <3>1. flag'[n] = Slots
        BY <1>3 DEF TypeInv, ShapeInv
      <3> QED
        BY <3>1, Numerals, FS_Interval DEF Slots
    <2>9. Claims(n)' = NbElement
      BY <2>5, <2>6, Numerals DEF Claims
    <2> QED
      BY <2>5, <2>7, <2>8, <2>9, FS_EmptySet, Numerals DEF BalanceFor
  <1> QED
    BY <1>2, <1>5, <1>6 DEF BalanceInv

LEMMA BalanceStep == TypeInv /\ SlotsAccounted /\ BalanceInv /\ [Next]_vars => BalanceInv'
PROOF
  <1> SUFFICES ASSUME TypeInv, SlotsAccounted, BalanceInv, [Next]_vars PROVE BalanceInv'
    OBVIOUS
  <1>1. \A c \in exists \ {Root} : c \in Nodes \ {Root} /\ BalanceFor(c)
    BY DEF BalanceInv, TypeInv, TypeOK
  <1>2. CASE UNCHANGED vars
    <2>1. ASSUME NEW c \in exists \ {Root} PROVE BalanceFor(c)'
      <3>1. UNCHANGED <<flag, size, pc, node, id, up>>
        BY <1>2 DEF vars, tree, locals
      <3>2. /\ Coming(c)' = Coming(c) /\ Searching(c)' = Searching(c)
            /\ RisingAt(c)' = RisingAt(c) /\ AddingAt(c)' = AddingAt(c)
        BY <3>1 DEF Coming, Searching, RisingAt, AddingAt, Target
      <3>3. SizeAt(c)' = SizeAt(c) /\ Tokens(c)' = Tokens(c)
        BY <3>1 DEF SizeAt, Tokens
      <3> QED
        BY <1>1, <3>1, <3>2, <3>3 DEF BalanceFor, Claims
    <2> QED
      BY <1>2, <2>1 DEF BalanceInv, vars, tree
  <1>3. ASSUME NEW t \in Threads, Acquire(t) \/ Drop(t) \/ CallStep(t), ~MakeNode(t)
        PROVE  BalanceInv'
    <2>1. exists' = exists
      BY <1>3 DEF CallStep, Acquire, Drop, AcqTake, AcqEmpty, ReadIndex, TakeToken,
             NoToken, GoDown, CheckFull, ScanCap, ScanSize, MakeFound, InitSize,
             InitCap, Release, ReleaseUp, tree
    <2>2. ASSUME NEW c \in Nodes \ {Root}, BalanceFor(c) PROVE BalanceFor(c)'
      BY <1>3, <2>2, IdlingBalance, AcqEmptyBalance, AcqTakeBalance, TakeTokenBalance,
         InitSizeBalance, ReleaseUpBalance, ReleaseBalance
      DEF CallStep, Idling
    <2> QED
      BY <1>1, <2>1, <2>2 DEF BalanceInv
  <1> QED
    BY <1>2, <1>3, MakeNodeBalance DEF Next

(* A call that found its node's segment empty finds a token there for each *)
(* call like it: the search below the root always has a slot to find.      *)
THEOREM TreeSearchFinds == Spec => []SearchFinds
PROOF
  <1>1. Init => SlotsAccounted /\ BalanceInv
    BY SlotsInit DEF Init, BalanceInv
  <1>2. TypeInv /\ SlotsAccounted /\ BalanceInv /\ [Next]_vars
          => SlotsAccounted' /\ BalanceInv'
    BY SlotsStep, BalanceStep
  <1>3. TypeInv /\ BalanceInv => SearchFinds
    <2> SUFFICES ASSUME TypeInv, BalanceInv, NEW c \in exists \ {Root}
                 PROVE  Cardinality(Searching(c)) <= Cardinality(Tokens(c))
      BY DEF SearchFinds, Searching
    <2>1. c \in Nodes \ {Root} /\ BalanceFor(c)
      BY DEF BalanceInv, TypeInv, TypeOK
    <2> QED
      BY <2>1, BalanceTypes DEF BalanceFor
  <1> QED
    BY <1>1, <1>2, <1>3, TypeInvAlways, PTL DEF Spec

(* A call that has taken a token goes down to a child that is there:       *)
(* get_or_create_node_ creates nothing outside of create_node_.            *)
THEOREM TokenHasChild ==
  Spec => [](\A t \in Threads : pc[t] = "child" => Append(node[t], id[t]) \in exists)
PROOF
  <1>1. TypeInv => \A t \in Threads : pc[t] = "child" => Append(node[t], id[t]) \in exists
    BY DEF TypeInv, LocalsInv
  <1> QED
    BY <1>1, TypeInvAlways, PTL

-------------------------------------------------------------------------------
(* A call is past a node once it has found the node's segment empty. The   *)
(* slots of that segment were taken then by objects and calls that are not *)
(* past the node; they may go, but nobody who is not past it gets past it  *)
(* before they are replaced. So what is past a node of depth d, and        *)
(* (d + 1) * NbElement more, fit into the objects and calls there are.     *)

Past(p, n) == Under(p, n) /\ p # n

Creating == {"full", "scan_cap", "scan_size", "make", "init_size", "init_cap"}

ObjectsPast(p) == {o \in owned : Past(p, o[1])}

CallsPast(p) == {t \in Threads :
  \/ pc[t] \in {"segment", "release"} /\ Past(p, node[t])
  \/ pc[t] \in Below \cup {"child"} /\ Under(p, node[t])
  \/ pc[t] \in Creating /\ Past(p, cur[t])
  \/ pc[t] \in {"scan_cap", "scan_size", "make"} /\ Under(p, cur[t])}

Units(objects, calls) == (objects \X {"object"}) \cup (calls \X {"call"})

Beyond(p) == Units(ObjectsPast(p), CallsPast(p))

Fits(p) ==
  Beyond(p) # {} => Cardinality(Beyond(p)) + (Len(p) + 1) * NbElement <= MaxObjects

Active == {t \in Threads : pc[t] # "idle"}

Everybody == Units(owned, Active)

DemandInv == IsFiniteSet(owned) /\ Cardinality(Everybody) <= MaxObjects

DepthInv ==
  /\ DemandInv
  /\ \A p \in Nodes : Fits(p)
  /\ \A n \in exists \ {Root} : Len(n) * NbElement < MaxObjects

LEMMA UnderIs ==
  \A c, n \in Nodes : Under(c, n) <=> /\ Len(c) <= Len(n)
                                      /\ \A k \in 1 .. Len(c) : n[k] = c[k]
PROOF
  <1> SUFFICES ASSUME NEW c \in Nodes, NEW n \in Nodes, Len(c) <= Len(n)
               PROVE  SubSeq(n, 1, Len(c)) = c <=> \A k \in 1 .. Len(c) : n[k] = c[k]
    BY DEF Under
  <1>1. /\ c \in Seq(Children) /\ n \in Seq(Children)
        /\ Len(c) \in Nat /\ Len(n) \in Nat
    BY NodeIsPath
  <1>2. /\ SubSeq(n, 1, Len(c)) \in Seq(Children) /\ Len(SubSeq(n, 1, Len(c))) = Len(c)
        /\ \A k \in 1 .. Len(c) : SubSeq(n, 1, Len(c))[k] = n[k]
    BY <1>1, SubSeqProperties
  <1> QED
    BY <1>1, <1>2, SeqEqual

LEMMA RootUnder == \A n \in Nodes : Under(Root, n)
PROOF
  BY UnderIs, RootIsNode, NodeIsPath, EmptySeq DEF Root

(* Whatever is at or below a node is past the node above it.               *)
LEMMA PastParent ==
  ASSUME NEW p \in Nodes \ {Root}, NEW n \in Nodes, Under(p, n)
  PROVE  Past(Parent(p), n)
PROOF
  <1>1. Parent(p) \in Nodes /\ IdOf(p) \in Children /\ Append(Parent(p), IdOf(p)) = p
    BY ParentOf
  <1>2. /\ Len(p) = Len(Parent(p)) + 1 /\ Len(Parent(p)) \in Nat
        /\ \A k \in 1 .. Len(Parent(p)) : p[k] = Parent(p)[k]
    BY <1>1, NodeIsPath, AppendProperties
  <1>3. Len(p) <= Len(n) /\ Len(n) \in Nat /\ \A k \in 1 .. Len(p) : n[k] = p[k]
    BY UnderIs, NodeIsPath
  <1>4. Under(Parent(p), n)
    BY <1>1, <1>2, <1>3, UnderIs
  <1> QED
    BY <1>2, <1>3, <1>4 DEF Past

(* What is past a node is below it, and below the nodes above it.          *)
LEMMA PastChild ==
  ASSUME NEW p \in Nodes, NEW n \in Nodes, NEW i \in Children
  PROVE  Past(p, Append(n, i)) => Under(p, n)
PROOF
  BY UnderChild DEF Past

-------------------------------------------------------------------------------
(* Counting.                                                               *)
LEMMA Tagged ==
  ASSUME NEW A, IsFiniteSet(A), NEW x
  PROVE  IsFiniteSet(A \X {x}) /\ Cardinality(A \X {x}) = Cardinality(A)
PROOF
  <1> DEFINE B == {x}
  <1>1. IsFiniteSet(B) /\ Cardinality(B) = 1
    BY FS_Singleton
  <1> HIDE DEF B
  <1>2. IsFiniteSet(A \X B) /\ Cardinality(A \X B) = Cardinality(A) * Cardinality(B)
    BY <1>1, FS_Product
  <1>3. Cardinality(A) \in Nat
    BY FS_CardinalityType
  <1> QED
    BY <1>1, <1>2, <1>3 DEF B

LEMMA UnitsCount ==
  ASSUME NEW A, NEW B, IsFiniteSet(A), IsFiniteSet(B)
  PROVE  /\ IsFiniteSet(Units(A, B))
         /\ Cardinality(Units(A, B)) \in Nat
         /\ Cardinality(Units(A, B)) = Cardinality(A) + Cardinality(B)
PROOF
  <1> DEFINE S == A \X {"object"}
             T == B \X {"call"}
  <1>1. /\ IsFiniteSet(S) /\ Cardinality(S) = Cardinality(A)
        /\ IsFiniteSet(T) /\ Cardinality(T) = Cardinality(B)
    BY Tagged
  <1>2. S \cap T = {}
    OBVIOUS
  <1>3. Units(A, B) = S \cup T
    BY DEF Units
  <1> HIDE DEF S, T
  <1>4. IsFiniteSet(S \cup T) /\ Cardinality(S \cup T) = Cardinality(S) + Cardinality(T)
    <2>1. /\ IsFiniteSet(S \cup T)
          /\ Cardinality(S \cup T) = Cardinality(S) + Cardinality(T) - Cardinality(S \cap T)
      BY <1>1, FS_Union
    <2>2. Cardinality(S \cap T) = 0
      BY <1>2, FS_EmptySet
    <2>3. Cardinality(S) \in Nat /\ Cardinality(T) \in Nat
      BY <1>1, FS_CardinalityType
    <2> QED
      BY <2>1, <2>2, <2>3
  <1> QED
    BY <1>1, <1>3, <1>4, FS_CardinalityType

LEMMA UnitsAre ==
  ASSUME NEW A, NEW B, NEW x
  PROVE  /\ <<x, "object">> \in Units(A, B) <=> x \in A
         /\ <<x, "call">> \in Units(A, B) <=> x \in B
PROOF
  BY DEF Units

(* Something less, or something else instead.                              *)
LEMMA NoMore ==
  ASSUME NEW B, IsFiniteSet(B), NEW x, NEW y, NEW C,
         C \subseteq B \/ (x \in B /\ C \subseteq (B \ {x}) \cup {y})
  PROVE  /\ IsFiniteSet(C) /\ Cardinality(C) \in Nat /\ Cardinality(B) \in Nat
         /\ Cardinality(C) <= Cardinality(B)
PROOF
  <1>1. CASE C \subseteq B
    BY <1>1, FS_Subset, FS_CardinalityType
  <1>2. CASE x \in B /\ C \subseteq (B \ {x}) \cup {y}
    <2> DEFINE W == B \ {x}
    <2>1. IsFiniteSet(W) /\ Cardinality(W) = Cardinality(B) - 1
      BY <1>2, FS_RemoveElement
    <2>2. C \subseteq W \cup {y}
      BY <1>2
    <2> HIDE DEF W
    <2>3. /\ IsFiniteSet(W \cup {y})
          /\ Cardinality(W \cup {y}) = IF y \in W THEN Cardinality(W) ELSE Cardinality(W) + 1
      BY <2>1, FS_AddElement
    <2>4. Cardinality(B) \in Nat /\ Cardinality(W) \in Nat /\ Cardinality(W \cup {y}) \in Nat
      BY <2>1, <2>3, FS_CardinalityType
    <2>5. /\ IsFiniteSet(C) /\ Cardinality(C) <= Cardinality(W \cup {y})
          /\ Cardinality(C) \in Nat
      BY <2>2, <2>3, FS_Subset, FS_CardinalityType
    <2> QED
      BY <2>1, <2>3, <2>4, <2>5
  <1> QED
    BY <1>1, <1>2

-------------------------------------------------------------------------------
LEMMA BeyondFinite ==
  ASSUME IsFiniteSet(owned), NEW p
  PROVE  /\ IsFiniteSet(Beyond(p)) /\ Cardinality(Beyond(p)) \in Nat
PROOF
  <1>1. ObjectsPast(p) \in SUBSET owned /\ CallsPast(p) \in SUBSET Threads
    BY DEF ObjectsPast, CallsPast
  <1>2. IsFiniteSet(ObjectsPast(p)) /\ IsFiniteSet(CallsPast(p))
    BY <1>1, FS_Subset, TreeAssumption
  <1> QED
    BY <1>2, UnitsCount DEF Beyond

LEMMA EverybodyFinite ==
  ASSUME IsFiniteSet(owned)
  PROVE  /\ IsFiniteSet(Everybody) /\ Cardinality(Everybody) \in Nat
         /\ Cardinality(Everybody)
              = Cardinality(owned) + Cardinality({u \in Threads : pc[u] # "idle"})
PROOF
  <1>1. Active \in SUBSET Threads
    BY DEF Active
  <1>2. IsFiniteSet(Active)
    BY <1>1, FS_Subset, TreeAssumption
  <1>3. /\ IsFiniteSet(Everybody) /\ Cardinality(Everybody) \in Nat
        /\ Cardinality(Everybody) = Cardinality(owned) + Cardinality(Active)
    BY <1>2, UnitsCount DEF Everybody
  <1> QED
    BY <1>3 DEF Active

(* No step but Acquire makes them more.                                    *)
LEMMA DemandStep ==
  ASSUME TypeInv, DemandInv, NEW t \in Threads, Acquire(t) \/ Drop(t) \/ CallStep(t)
  PROVE  DemandInv'
PROOF
  <1>1. OthersSame(t)
    BY OthersStay
  <1>2. Active' \ {t} = Active \ {t}
    BY <1>1 DEF Active, OthersSame
  <1>3. pc \in [Threads -> {"idle", "release", "rel_up"} \cup Acquiring]
    BY DEF TypeInv, TypeOK
  <1> DEFINE c == <<t, "call">>
  <1>4. IsFiniteSet(owned) /\ IsFiniteSet(Everybody) /\ Cardinality(Everybody) \in Nat
    BY EverybodyFinite DEF DemandInv
  <1>5. CASE Acquire(t)
    <2>1. owned' = owned /\ t \notin Active /\ Active' \subseteq Active \cup {t}
      BY <1>2, <1>5 DEF Acquire, Active
    <2>2. Everybody' \subseteq Everybody \cup {c}
      BY <2>1 DEF Everybody, Units
    <2>3. Cardinality(Everybody) < MaxObjects
      BY <1>4, <1>5, EverybodyFinite DEF Acquire
    <2> DEFINE E == Everybody
               F == Everybody'
    <2> HIDE DEF E, F, c
    <2>4. /\ IsFiniteSet(E \cup {c})
          /\ Cardinality(E \cup {c}) = IF c \in E THEN Cardinality(E) ELSE Cardinality(E) + 1
      BY <1>4, FS_AddElement DEF E
    <2>5. F \subseteq E \cup {c} /\ Cardinality(E) \in Nat /\ Cardinality(E) < MaxObjects
      BY <1>4, <2>2, <2>3 DEF E, F
    <2>6. /\ IsFiniteSet(F) /\ Cardinality(F) \in Nat /\ Cardinality(E \cup {c}) \in Nat
          /\ Cardinality(F) <= Cardinality(E \cup {c})
      BY <2>4, <2>5, FS_Subset, FS_CardinalityType
    <2>7. Cardinality(F) <= MaxObjects
      BY <2>4, <2>5, <2>6, TreeAssumption
    <2> QED
      BY <1>4, <2>1, <2>7 DEF DemandInv, F
  <1>6. CASE AcqTake(t)
    <2> DEFINE o == <<node[t], LowestBit(flag[node[t]])>>
    <2>1. owned' = owned \cup {o} /\ t \in Active /\ t \notin Active'
      BY <1>3, <1>6 DEF AcqTake, Active, Return, Goto
    <2> HIDE DEF o
    <2>2. c \in Everybody /\ Everybody' \subseteq (Everybody \ {c}) \cup {<<o, "object">>}
      BY <1>2, <2>1 DEF Everybody, Units
    <2>3. Cardinality(Everybody') <= Cardinality(Everybody) /\ Cardinality(Everybody') \in Nat
      BY <1>4, <2>2, NoMore
    <2>4. IsFiniteSet(owned')
      BY <1>4, <2>1, FS_AddElement
    <2> QED
      BY <1>4, <2>3, <2>4, TreeAssumption DEF DemandInv
  <1>7. CASE Drop(t)
    <2>1. PICK o \in owned : owned' = owned \ {o}
      BY <1>7 DEF Drop
    <2>2. /\ <<o, "object">> \in Everybody
          /\ Everybody' \subseteq (Everybody \ {<<o, "object">>}) \cup {c}
      BY <1>2, <2>1 DEF Everybody, Units
    <2>3. Cardinality(Everybody') <= Cardinality(Everybody) /\ Cardinality(Everybody') \in Nat
      BY <1>4, <2>2, NoMore
    <2>4. IsFiniteSet(owned')
      BY <1>4, <2>1, FS_RemoveElement
    <2> QED
      BY <1>4, <2>3, <2>4, TreeAssumption DEF DemandInv
  <1>8. ASSUME CallStep(t), ~AcqTake(t) PROVE DemandInv'
    <2>1. owned' = owned
      BY <1>8 DEF CallStep, AcqEmpty, ReadIndex, TakeToken, NoToken, GoDown, CheckFull,
           ScanCap, ScanSize, MakeFound, MakeNode, InitSize, InitCap, Release, ReleaseUp, tree
    <2>2. t \in Active
      BY <1>8 DEF Active, CallStep, AcqEmpty, ReadIndex, TakeToken, NoToken, GoDown, CheckFull,
           ScanCap, ScanSize, MakeFound, MakeNode, InitSize, InitCap, Release, ReleaseUp
    <2>3. Everybody' \subseteq Everybody
      BY <1>2, <2>1, <2>2 DEF Everybody, Units
    <2>4. Cardinality(Everybody') <= Cardinality(Everybody) /\ Cardinality(Everybody') \in Nat
      BY <1>4, <2>3, NoMore
    <2> QED
      BY <1>4, <2>1, <2>4, TreeAssumption DEF DemandInv
  <1> QED
    BY <1>5, <1>6, <1>7, <1>8

-------------------------------------------------------------------------------
(* What is past the node above p, or anything at all when p is the root.   *)
Upper(p) == IF p = Root THEN Everybody ELSE Beyond(Parent(p))

LEMMA UpperFits ==
  ASSUME TypeInv, DemandInv, \A q \in Nodes : Fits(q), NEW p \in Nodes, Upper(p) # {}
  PROVE  /\ IsFiniteSet(Upper(p)) /\ Cardinality(Upper(p)) \in Nat
         /\ Cardinality(Upper(p)) + Len(p) * NbElement <= MaxObjects
PROOF
  <1>1. IsFiniteSet(Upper(p)) /\ Cardinality(Upper(p)) \in Nat
    BY BeyondFinite, EverybodyFinite DEF Upper, DemandInv
  <1>2. CASE p = Root
    <2>1. Len(p) * NbElement = 0
      BY <1>2, TreeAssumption, EmptySeq DEF Root
    <2> QED
      BY <1>1, <1>2, <2>1, TreeAssumption DEF Upper, DemandInv
  <1>3. CASE p # Root
    <2>1. /\ Parent(p) \in Nodes /\ IdOf(p) \in Children /\ Append(Parent(p), IdOf(p)) = p
      BY <1>3, ParentOf
    <2>2. Len(p) = Len(Parent(p)) + 1
      BY <2>1, NodeIsPath, AppendProperties
    <2> QED
      BY <1>1, <1>3, <2>1, <2>2 DEF Upper, Fits
  <1> QED
    BY <1>1, <1>2, <1>3

(* An object or a call at a node, or past it, counts there.                *)
LEMMA InUpper ==
  ASSUME TypeInv, NEW p \in Nodes
  PROVE  /\ \A o \in owned : Under(p, o[1]) => <<o, "object">> \in Upper(p)
         /\ \A u \in Threads :
              \/ pc[u] \in {"segment", "release"} \cup Below \cup {"child"} /\ Under(p, node[u])
              \/ pc[u] \in Creating /\ Under(p, cur[u])
              => <<u, "call">> \in Upper(p)
PROOF
  <1>1. /\ \A o \in owned : o[1] \in Nodes
        /\ \A u \in Threads : node[u] \in Nodes /\ cur[u] \in Nodes
    BY DEF TypeInv, TypeOK
  <1>2. CASE p = Root
    BY <1>2, UnitsAre DEF Upper, Everybody, Active, Below, Creating
  <1>3. CASE p # Root
    <2>1. \A n \in Nodes : Under(p, n) => Past(Parent(p), n) /\ Under(Parent(p), n)
      BY <1>3, PastParent DEF Past
    <2>2. ASSUME NEW o \in owned, Under(p, o[1]) PROVE <<o, "object">> \in Upper(p)
      BY <1>1, <1>3, <2>1, <2>2, UnitsAre DEF Upper, Beyond, ObjectsPast
    <2>3. ASSUME NEW u \in Threads,
                 \/ pc[u] \in {"segment", "release"} \cup Below \cup {"child"}
                      /\ Under(p, node[u])
                 \/ pc[u] \in Creating /\ Under(p, cur[u])
          PROVE  <<u, "call">> \in Upper(p)
      <3>1. u \in CallsPast(Parent(p))
        BY <1>1, <2>1, <2>3 DEF CallsPast
      <3> QED
        BY <1>3, <3>1, UnitsAre DEF Upper, Beyond
    <2> QED
      BY <2>2, <2>3
  <1> QED
    BY <1>2, <1>3

LEMMA BeyondInUpper ==
  ASSUME TypeInv, NEW p \in Nodes PROVE Beyond(p) \subseteq Upper(p)
PROOF
  <1>1. ASSUME NEW o \in ObjectsPast(p) PROVE <<o, "object">> \in Upper(p)
    BY <1>1, InUpper DEF ObjectsPast, Past
  <1>2. ASSUME NEW u \in CallsPast(p) PROVE <<u, "call">> \in Upper(p)
    BY <1>2, InUpper DEF CallsPast, Past, Creating
  <1> QED
    BY <1>1, <1>2 DEF Beyond, Units

(* Whoever finds the segment of p empty leaves its objects behind.         *)
LEMMA PassBy ==
  ASSUME TypeInv, SlotsAccounted, DemandInv, NEW p \in Nodes, flag[p] = {},
         NEW t \in Threads, t \notin CallsPast(p), <<t, "call">> \in Upper(p),
         t \notin Releasing
  PROVE  Cardinality(Beyond(p)) + NbElement + 1 <= Cardinality(Upper(p))
PROOF
  <1> DEFINE B0 == Beyond(p)
             B1 == Upper(p)
             x  == <<t, "call">>
             Who(s)  == CHOOSE u \in Releasing : <<node[u], id[u]>> = <<p, s>>
             Unit(s) == IF <<p, s>> \in owned THEN <<<<p, s>>, "object">>
                        ELSE <<Who(s), "call">>
             f  == [s \in Slots |-> Unit(s)]
             R  == B1 \ (B0 \cup {x})
  <1>1. ~Past(p, p) /\ Under(p, p)
    BY UnderItself DEF Past
  <1>2. B0 \subseteq B1 /\ x \in B1 /\ x \notin B0
    BY BeyondInUpper, UnitsAre DEF Beyond
  <1>3. ASSUME NEW s \in Slots, <<p, s>> \notin owned
        PROVE  Who(s) \in Releasing /\ node[Who(s)] = p /\ id[Who(s)] = s
    <2>1. s \in Taken(p)
      BY DEF SlotsAccounted
    <2>2. \E u \in Releasing : <<node[u], id[u]>> = <<p, s>>
      BY <1>3, <2>1 DEF Taken
    <2> QED
      BY <2>2
  <1>4. ASSUME NEW s \in Slots PROVE Unit(s) \in R
    <2>1. CASE <<p, s>> \in owned
      <3>1. <<p, s>> \notin ObjectsPast(p)
        BY <1>1 DEF ObjectsPast
      <3>2. <<<<p, s>>, "object">> \in B1
        BY <1>1, <2>1, InUpper
      <3>3. <<<<p, s>>, "object">> \notin B0
        BY <3>1, UnitsAre DEF Beyond
      <3> QED
        BY <2>1, <3>2, <3>3
    <2>2. CASE <<p, s>> \notin owned
      <3> DEFINE u == Who(s)
      <3>1. u \in Releasing /\ node[u] = p /\ Unit(s) = <<u, "call">>
        BY <1>3, <2>2
      <3> HIDE DEF u
      <3>2. u \in Threads /\ pc[u] = "release" /\ u # t
        BY <3>1 DEF Releasing
      <3>3. u \notin CallsPast(p)
        BY <1>1, <3>1, <3>2 DEF CallsPast, Below, Creating
      <3>4. <<u, "call">> \in B1 /\ <<u, "call">> \notin B0
        BY <1>1, <3>1, <3>2, <3>3, InUpper, UnitsAre DEF Beyond
      <3> QED
        BY <3>1, <3>2, <3>4
    <2> QED
      BY <2>1, <2>2
  <1>5. ASSUME NEW r \in Slots, NEW s \in Slots, Unit(r) = Unit(s) PROVE r = s
    <2>1. CASE <<p, r>> \in owned /\ <<p, s>> \in owned
      BY <1>5, <2>1
    <2>2. CASE <<p, r>> \in owned /\ <<p, s>> \notin owned
      BY <1>5, <2>2
    <2>3. CASE <<p, r>> \notin owned /\ <<p, s>> \in owned
      BY <1>5, <2>3
    <2>4. CASE <<p, r>> \notin owned /\ <<p, s>> \notin owned
      <3>1. Unit(r)[1] = Who(r) /\ Unit(s)[1] = Who(s)
        BY <2>4
      <3>2. id[Who(r)] = r /\ id[Who(s)] = s
        BY <1>3, <2>4
      <3> HIDE DEF Who, Unit
      <3> QED
        BY <1>5, <3>1, <3>2
    <2> QED
      BY <2>1, <2>2, <2>3, <2>4
  <1>6. /\ IsFiniteSet(B0) /\ Cardinality(B0) \in Nat
        /\ IsFiniteSet(B1) /\ Cardinality(B1) \in Nat
    BY BeyondFinite, EverybodyFinite DEF Upper, DemandInv
  <1> HIDE DEF Unit
  <1>7. f \in [Slots -> R] /\ \A r, s \in Slots : f[r] = f[s] => r = s
    BY <1>4, <1>5
  <1> HIDE DEF f, B0, B1, x
  <1>8. f \in Injection(Slots, R)
    BY <1>7 DEF Injection, IsInjective
  <1>9. /\ IsFiniteSet(B0 \cup {x}) /\ Cardinality(B0 \cup {x}) = Cardinality(B0) + 1
        /\ B0 \cup {x} \subseteq B1
    BY <1>2, <1>6, FS_AddElement
  <1>10. IsFiniteSet(R) /\ Cardinality(R) = Cardinality(B1) - (Cardinality(B0) + 1)
    <2> DEFINE M == B0 \cup {x}
    <2>1. B1 \cap M = M /\ Cardinality(M) = Cardinality(B0) + 1
      BY <1>9
    <2> HIDE DEF M
    <2>2. IsFiniteSet(B1 \ M) /\ Cardinality(B1 \ M) = Cardinality(B1) - Cardinality(B1 \cap M)
      BY <1>6, FS_Difference
    <2> QED
      BY <2>1, <2>2 DEF M
  <1>11. Cardinality(Slots) = NbElement
    BY TreeAssumption, FS_Interval DEF Slots
  <1> HIDE DEF R
  <1>12. Cardinality(Slots) <= Cardinality(R)
    BY <1>8, <1>10, FS_Injection
  <1>13. Cardinality(B0) + NbElement + 1 <= Cardinality(B1)
    BY <1>6, <1>10, <1>11, <1>12, TreeAssumption
  <1> QED
    BY <1>13 DEF B0, B1

-------------------------------------------------------------------------------
(* A step of t moves no other call past a node, nor back.                  *)
LEMMA OthersPast ==
  ASSUME NEW t \in Threads, OthersSame(t), NEW p
  PROVE  CallsPast(p)' \ {t} = CallsPast(p) \ {t}
PROOF
  BY DEF OthersSame, CallsPast

(* A call gets past a node only when it finds the node's segment empty.    *)
LEMMA Passes ==
  ASSUME TypeInv, NEW t \in Threads, Quiet(t), NEW p \in Nodes,
         t \notin CallsPast(p), t \in CallsPast(p)'
  PROVE  flag[p] = {} /\ \/ pc[t] = "segment" /\ node[t] = p
                         \/ pc[t] = "full" /\ cur[t] = p
PROOF
  <1> USE DEF TypeInv, TypeOK, Goto, locals, Below, Creating, CallsPast
  <1>1. node[t] \in Nodes /\ cur[t] \in Nodes
    OBVIOUS
  <1>2. CASE Acquire(t)
    <2>1. pc'[t] = "segment" /\ node'[t] = Root
      BY <1>2 DEF Acquire, LocalsInv
    <2>2. ~Past(p, Root)
      BY UnderRoot DEF Past
    <2> QED
      BY <2>1, <2>2
  <1>3. CASE AcqEmpty(t)
    BY <1>3 DEF AcqEmpty, Past
  <1>4. CASE ReadIndex(t) \/ TakeToken(t) \/ InitSize(t) \/ InitCap(t) \/ ReleaseUp(t)
    BY <1>4 DEF ReadIndex, TakeToken, InitSize, InitCap, ReleaseUp, Return
  <1>5. CASE NoToken(t)
    BY <1>5 DEF NoToken, Past
  <1>6. CASE GoDown(t)
    <2>1. id[t] \in Children /\ pc[t] = "child" /\ pc'[t] = "segment"
          /\ node'[t] = Append(node[t], id[t])
      BY <1>6 DEF GoDown, LocalsInv
    <2>2. Past(p, node'[t]) => Under(p, node[t])
      BY <1>1, <2>1, PastChild
    <2> QED
      BY <2>1, <2>2
  <1>7. CASE CheckFull(t)
    <2>1. pc[t] = "full" /\ node'[t] = node[t] /\ cur'[t] = cur[t]
          /\ pc'[t] = IF cur[t] # Root /\ flag[cur[t]] # {} THEN "index" ELSE "scan_cap"
      BY <1>7 DEF CheckFull
    <2>2. ~Under(p, node[t]) /\ ~Past(p, cur[t])
      BY <2>1
    <2>3. pc'[t] = "scan_cap" /\ Under(p, cur[t])
      BY <2>1, <2>2
    <2>4. cur[t] = p
      BY <2>2, <2>3 DEF Past
    <2>5. p # Root
      BY <1>1, <2>2, RootUnder
    <2> QED
      BY <2>1, <2>3, <2>4, <2>5
  <1>8. CASE ScanCap(t) \/ ScanSize(t)
    BY <1>8 DEF ScanCap, ScanSize
  <1>9. CASE MakeFound(t) \/ MakeNode(t)
    <2>1. pc[t] = "make" /\ node'[t] = node[t] /\ pc'[t] \in {"full", "init_size"}
          /\ cur'[t] = Append(cur[t], best[t].id) /\ best[t].id \in Children
      BY <1>9 DEF MakeFound, MakeNode, LocalsInv
    <2>2. Past(p, cur'[t]) => Under(p, cur[t])
      BY <1>1, <2>1, PastChild
    <2> QED
      BY <2>1, <2>2
  <1> QED
    BY <1>2, <1>3, <1>4, <1>5, <1>6, <1>7, <1>8, <1>9 DEF Quiet

(* Nothing changes for p, or something leaves first.                       *)
LEMMA FitsStill ==
  ASSUME DemandInv, NEW p \in Nodes, Fits(p), NEW x, NEW y,
         \/ Beyond(p)' \subseteq Beyond(p)
         \/ x \in Beyond(p) /\ Beyond(p)' \subseteq (Beyond(p) \ {x}) \cup {y}
  PROVE  Fits(p)'
PROOF
  <1> DEFINE B == Beyond(p)
             C == Beyond(p)'
             q == (Len(p) + 1) * NbElement
  <1>1. IsFiniteSet(B)
    BY BeyondFinite DEF DemandInv
  <1>2. C # {} => B # {}
    OBVIOUS
  <1>3. (C # {} => Cardinality(C) + q <= MaxObjects) => Fits(p)'
    BY DEF Fits
  <1>4. B # {} => Cardinality(B) + q <= MaxObjects
    BY DEF Fits
  <1>5. C \subseteq B \/ (x \in B /\ C \subseteq (B \ {x}) \cup {y})
    OBVIOUS
  <1> HIDE DEF B, C
  <1>6. Cardinality(C) \in Nat /\ Cardinality(B) \in Nat /\ Cardinality(C) <= Cardinality(B)
    BY <1>1, <1>5, NoMore
  <1>7. q \in Nat /\ MaxObjects \in Nat
    BY TreeAssumption, NodeIsPath
  <1> HIDE DEF q
  <1> QED
    BY <1>2, <1>3, <1>4, <1>6, <1>7

(* The steps that take no slot and give none back.                         *)
LEMMA QuietFits ==
  ASSUME TypeInv, SlotsAccounted, DemandInv, \A q \in Nodes : Fits(q),
         NEW t \in Threads, Quiet(t), NEW p \in Nodes
  PROVE  Fits(p)'
PROOF
  <1>1. OthersSame(t)
    BY OthersStay DEF Quiet, CallStep
  <1>2. owned' = owned /\ t \notin Releasing
    BY QuietSlots
  <1>3. CallsPast(p)' \ {t} = CallsPast(p) \ {t}
    BY <1>1, OthersPast
  <1>4. ObjectsPast(p)' = ObjectsPast(p)
    BY <1>2 DEF ObjectsPast
  <1>5. CASE t \in CallsPast(p) \/ t \notin CallsPast(p)'
    <2>1. CallsPast(p)' \subseteq CallsPast(p)
      BY <1>3, <1>5
    <2>2. Beyond(p)' \subseteq Beyond(p)
      BY <1>4, <2>1 DEF Beyond, Units
    <2> QED
      BY <2>2, FitsStill
  <1>6. CASE t \notin CallsPast(p) /\ t \in CallsPast(p)'
    <2>1. flag[p] = {} /\ \/ pc[t] = "segment" /\ node[t] = p
                          \/ pc[t] = "full" /\ cur[t] = p
      BY <1>6, Passes
    <2>2. <<t, "call">> \in Upper(p)
      BY <2>1, InUpper, UnderItself DEF Creating
    <2> DEFINE B == Beyond(p)
               C == Beyond(p)'
               U == Upper(p)
               x == <<t, "call">>
    <2>3. Cardinality(B) + NbElement + 1 <= Cardinality(U)
      BY <1>2, <1>6, <2>1, <2>2, PassBy
    <2>4. Cardinality(U) \in Nat /\ Cardinality(U) + Len(p) * NbElement <= MaxObjects
      BY <2>2, UpperFits
    <2>5. C \subseteq B \cup {x}
      BY <1>3, <1>4 DEF Beyond, Units
    <2>6. IsFiniteSet(B)
      BY BeyondFinite DEF DemandInv
    <2>7. Cardinality(C) + (Len(p) + 1) * NbElement <= MaxObjects => Fits(p)'
      BY DEF Fits
    <2> HIDE DEF B, C, U, x
    <2>8. /\ Cardinality(C) \in Nat /\ Cardinality(B) \in Nat
          /\ Cardinality(C) <= Cardinality(B) + 1
      <3>1. /\ IsFiniteSet(B \cup {x})
            /\ Cardinality(B \cup {x}) = IF x \in B THEN Cardinality(B) ELSE Cardinality(B) + 1
        BY <2>6, FS_AddElement
      <3>2. Cardinality(C) \in Nat /\ Cardinality(C) <= Cardinality(B \cup {x})
        BY <2>5, <3>1, FS_Subset, FS_CardinalityType
      <3>3. Cardinality(B) \in Nat
        BY <2>6, FS_CardinalityType
      <3> QED
        BY <3>1, <3>2, <3>3
    <2> DEFINE q == Len(p) * NbElement
    <2>9. q \in Nat /\ NbElement \in Nat /\ MaxObjects \in Nat
      BY TreeAssumption, NodeIsPath
    <2>10. Cardinality(U) + q <= MaxObjects
      BY <2>4
    <2>11. (Len(p) + 1) * NbElement = q + NbElement
      BY TreeAssumption, NodeIsPath
    <2> HIDE DEF q
    <2>12. Cardinality(C) + (q + NbElement) <= MaxObjects
      BY <2>3, <2>4, <2>8, <2>9, <2>10
    <2> QED
      BY <2>7, <2>11, <2>12
  <1> QED
    BY <1>5, <1>6

(* An object takes the place of the call that got it.                      *)
LEMMA AcqTakeFits ==
  ASSUME TypeInv, DemandInv, NEW t \in Threads, AcqTake(t), NEW p \in Nodes, Fits(p)
  PROVE  Fits(p)'
PROOF
  <1> DEFINE o == <<node[t], LowestBit(flag[node[t]])>>
             x == <<t, "call">>
             y == <<o, "object">>
  <1>1. CallsPast(p)' \ {t} = CallsPast(p) \ {t}
    BY OthersStay, OthersPast DEF CallStep
  <1>2. pc[t] = "segment" /\ pc'[t] = "idle" /\ owned' = owned \cup {o}
    BY DEF AcqTake, Return, Goto, TypeInv, TypeOK
  <1>3. t \notin CallsPast(p)'
    BY <1>2 DEF CallsPast, Below, Creating
  <1>4. CASE Past(p, node[t])
    <2>1. t \in CallsPast(p)
      BY <1>2, <1>4 DEF CallsPast
    <2>2. ObjectsPast(p)' \subseteq ObjectsPast(p) \cup {o}
      BY <1>2 DEF ObjectsPast
    <2>3. x \in Beyond(p) /\ Beyond(p)' \subseteq (Beyond(p) \ {x}) \cup {y}
      BY <1>1, <1>3, <2>1, <2>2 DEF Beyond, Units
    <2> QED
      BY <2>3, FitsStill
  <1>5. CASE ~Past(p, node[t])
    <2>1. ObjectsPast(p)' = ObjectsPast(p)
      BY <1>2, <1>5 DEF ObjectsPast
    <2>2. Beyond(p)' \subseteq Beyond(p)
      BY <1>1, <1>3, <2>1 DEF Beyond, Units
    <2> QED
      BY <2>2, FitsStill
  <1> QED
    BY <1>4, <1>5

(* And the other way round when it is released.                            *)
LEMMA DropFits ==
  ASSUME TypeInv, DemandInv, NEW t \in Threads, Drop(t), NEW p \in Nodes, Fits(p)
  PROVE  Fits(p)'
PROOF
  <1> DEFINE x == <<t, "call">>
  <1>1. CallsPast(p)' \ {t} = CallsPast(p) \ {t}
    BY OthersStay, OthersPast
  <1>2. PICK o \in owned : owned' = owned \ {o} /\ node' = [node EXCEPT ![t] = o[1]]
    BY DEF Drop
  <1>3. pc'[t] = "release" /\ node'[t] = o[1]
    BY <1>2 DEF Drop, Goto, TypeInv, TypeOK
  <1>4. CASE Past(p, o[1])
    <2>1. o \in ObjectsPast(p) /\ ObjectsPast(p)' = ObjectsPast(p) \ {o}
      BY <1>2, <1>4 DEF ObjectsPast
    <2>2. /\ <<o, "object">> \in Beyond(p)
          /\ Beyond(p)' \subseteq (Beyond(p) \ {<<o, "object">>}) \cup {x}
      BY <1>1, <2>1 DEF Beyond, Units
    <2> QED
      BY <2>2, FitsStill
  <1>5. CASE ~Past(p, o[1])
    <2>1. ObjectsPast(p)' = ObjectsPast(p)
      BY <1>2, <1>5 DEF ObjectsPast
    <2>2. t \notin CallsPast(p)'
      BY <1>3, <1>5 DEF CallsPast, Below, Creating
    <2>3. Beyond(p)' \subseteq Beyond(p)
      BY <1>1, <2>1, <2>2 DEF Beyond, Units
    <2> QED
      BY <2>3, FitsStill
  <1> QED
    BY <1>4, <1>5

LEMMA ReleaseFits ==
  ASSUME TypeInv, DemandInv, NEW t \in Threads, Release(t), NEW p \in Nodes, Fits(p)
  PROVE  Fits(p)'
PROOF
  <1>1. CallsPast(p)' \ {t} = CallsPast(p) \ {t}
    BY OthersStay, OthersPast DEF CallStep
  <1>2. owned' = owned /\ pc'[t] \in {"idle", "rel_up"}
    BY DEF Release, Return, Goto, TypeInv, TypeOK
  <1>3. t \notin CallsPast(p)'
    BY <1>2 DEF CallsPast, Below, Creating
  <1>4. ObjectsPast(p)' = ObjectsPast(p)
    BY <1>2 DEF ObjectsPast
  <1>5. Beyond(p)' \subseteq Beyond(p)
    BY <1>1, <1>3, <1>4 DEF Beyond, Units
  <1> QED
    BY <1>5, FitsStill

(* A node is made by a call that is past the one above it.                 *)
LEMMA MakerFits ==
  ASSUME TypeInv, DemandInv, NEW t \in Threads, pc[t] = "make", Fits(cur[t])
  PROVE  /\ Append(cur[t], best[t].id) \in Seq(Children)
         /\ Len(Append(cur[t], best[t].id)) = Len(cur[t]) + 1
         /\ (Len(cur[t]) + 1) * NbElement < MaxObjects
PROOF
  <1> DEFINE p == cur[t]
  <1>1. p \in Nodes /\ best[t].id \in Children
    BY DEF TypeInv, TypeOK, LocalsInv
  <1>2. <<t, "call">> \in Beyond(p)
    BY <1>1, UnderItself, UnitsAre DEF CallsPast, Beyond
  <1>3. IsFiniteSet(Beyond(p)) /\ Cardinality(Beyond(p)) \in Nat
    BY BeyondFinite DEF DemandInv
  <1>4. Cardinality(Beyond(p)) # 0
    BY <1>2, <1>3, FS_EmptySet
  <1>5. Cardinality(Beyond(p)) + (Len(p) + 1) * NbElement <= MaxObjects
    BY <1>2 DEF Fits
  <1>6. p \in Seq(Children) /\ Len(p) \in Nat
    BY <1>1, NodeIsPath
  <1> HIDE DEF p
  <1>7. (Len(p) + 1) * NbElement \in Nat
    BY <1>6, TreeAssumption
  <1>8. (Len(p) + 1) * NbElement < MaxObjects
    BY <1>3, <1>4, <1>5, <1>7, TreeAssumption
  <1>9. Append(p, best[t].id) \in Seq(Children) /\ Len(Append(p, best[t].id)) = Len(p) + 1
    BY <1>1, <1>6, AppendProperties
  <1> QED
    BY <1>8, <1>9 DEF p

LEMMA DepthInit == Init => DepthInv
PROOF
  <1> SUFFICES ASSUME Init PROVE DepthInv
    OBVIOUS
  <1>1. owned = {} /\ Active = {} /\ Cardinality({}) = 0 /\ IsFiniteSet({})
    BY FS_EmptySet DEF Init, Active
  <1>2. Everybody = {}
    BY <1>1 DEF Everybody, Units
  <1>3. \A p : Beyond(p) = {}
    BY <1>1 DEF Init, Beyond, Units, ObjectsPast, CallsPast, Below, Creating
  <1> QED
    BY <1>1, <1>2, <1>3, TreeAssumption DEF DepthInv, DemandInv, Fits, Init

LEMMA DepthStep == TypeInv /\ SlotsAccounted /\ DepthInv /\ [Next]_vars => DepthInv'
PROOF
  <1> SUFFICES ASSUME TypeInv, SlotsAccounted, DepthInv, [Next]_vars PROVE DepthInv'
    OBVIOUS
  <1>1. DemandInv /\ \A p \in Nodes : Fits(p)
    BY DEF DepthInv
  <1>2. CASE UNCHANGED vars
    BY <1>2 DEF vars, tree, locals, DepthInv, DemandInv, Everybody, Active, Fits, Beyond,
                ObjectsPast, CallsPast
  <1>3. ASSUME NEW t \in Threads, Acquire(t) \/ Drop(t) \/ CallStep(t) PROVE DepthInv'
    <2>1. DemandInv'
      BY <1>1, <1>3, DemandStep
    <2>2. ASSUME NEW p \in Nodes PROVE Fits(p)'
      BY <1>1, <1>3, QuietFits, AcqTakeFits, DropFits, ReleaseFits DEF CallStep, Quiet
    <2>3. ASSUME NEW n \in exists' \ {Root} PROVE Len(n) * NbElement < MaxObjects
      <3>1. CASE n \in exists
        BY <3>1 DEF DepthInv
      <3>2. CASE n \notin exists
        <4>1. MakeNode(t)
          BY <1>3, <3>2 DEF CallStep, Acquire, Drop, AcqTake, AcqEmpty, ReadIndex, TakeToken,
             NoToken, GoDown, CheckFull, ScanCap, ScanSize, MakeFound, InitSize, InitCap,
             Release, ReleaseUp, tree
        <4>2. pc[t] = "make" /\ n = Append(cur[t], best[t].id)
          BY <3>2, <4>1 DEF MakeNode
        <4>3. cur[t] \in Nodes
          BY DEF TypeInv, TypeOK
        <4> QED
          BY <1>1, <4>2, <4>3, MakerFits
      <3> QED
        BY <3>1, <3>2
    <2> QED
      BY <2>1, <2>2, <2>3 DEF DepthInv
  <1> QED
    BY <1>2, <1>3 DEF Next

LEMMA DepthInvAlways == Spec => [](TypeInv /\ DepthInv)
PROOF
  <1>1. Init => TypeInv /\ SlotsAccounted /\ DepthInv
    BY TypeInvInit, SlotsInit, DepthInit
  <1>2. TypeInv /\ SlotsAccounted /\ DepthInv /\ [Next]_vars
          => TypeInv' /\ SlotsAccounted' /\ DepthInv'
    BY TypeInvStep, SlotsStep, DepthStep
  <1> QED
    BY <1>1, <1>2, PTL DEF Spec

(* The tree stays flat under any interleaving: while the clients keep and  *)
(* ask for at most MaxObjects objects at a time, a node d levels below the *)
(* root is there only if d full segments do not hold them all.             *)
THEOREM TreeStaysFlat ==
  Spec => [](\A n \in exists \ {Root} : Len(n) * NbElement < MaxObjects)
PROOF
  <1>1. DepthInv => \A n \in exists \ {Root} : Len(n) * NbElement < MaxObjects
    BY DEF DepthInv
  <1> QED
    BY <1>1, DepthInvAlways, PTL

(* So when the levels are enough for the objects create_node_ never asks   *)
(* for one more.                                                           *)
THEOREM TreeDepthBounded ==
  ASSUME MaxObjects <= (MaxDepth + 1) * NbElement
  PROVE  Spec => []DepthBounded
PROOF
  <1>1. TypeInv /\ DepthInv => DepthBounded
    <2> SUFFICES ASSUME TypeInv, DepthInv, NEW t \in Threads, pc[t] = "make"
                 PROVE  Append(cur[t], best[t].id) \in Nodes
      BY DEF DepthBounded
    <2>1. cur[t] \in Nodes /\ Len(cur[t]) \in Nat
      BY NodeIsPath DEF TypeInv, TypeOK
    <2>2. /\ Append(cur[t], best[t].id) \in Seq(Children)
          /\ Len(Append(cur[t], best[t].id)) = Len(cur[t]) + 1
          /\ (Len(cur[t]) + 1) * NbElement < MaxObjects
      BY <2>1, MakerFits DEF DepthInv
    <2>3. Len(cur[t]) + 1 <= MaxDepth
      <3> DEFINE k == Len(cur[t]) + 1
      <3>1. k \in Nat /\ k * NbElement < MaxObjects
        BY <2>1, <2>2
      <3> HIDE DEF k
      <3>2. k * NbElement < (MaxDepth + 1) * NbElement
        BY <3>1, TreeAssumption
      <3>3. k < MaxDepth + 1
        BY <3>1, <3>2, TreeAssumption
      <3> QED
        BY <3>1, <3>3, TreeAssumption DEF k
    <2> QED
      BY <2>2, <2>3, NodeIsPath
  <1> QED
    BY <1>1, DepthInvAlways, PTL
===============================================================================
