---------------------------- MODULE SignalZip_proofs ----------------------------
(***************************************************************************)
(* Proofs about two single-threaded parts of the library that share no     *)
(* state: the signal, for any number of slots, groups and emissions inside *)
(* emissions, and the zip, for any number of ranges of any lengths.        *)
(***************************************************************************)
EXTENDS Signal, Zip, SequenceTheorems, WellFoundedInduction, TLAPS

-------------------------------------------------------------------------------
(* Lists.                                                                  *)

LEMMA MinOfNats ==
  ASSUME NEW S \in SUBSET Nat, S # {}
  PROVE  Min(S) \in S /\ \A k \in S : Min(S) <= k
PROOF
  <1> DEFINE Less == OpToRel(<, Nat)
  <1>1. IsWellFoundedOn(Less, Nat)
    BY NatLessThanWellFounded
  <1>2. ASSUME NEW k \in Nat, NEW n \in Nat, ~ (<<k, n>> \in Less)
        PROVE  n <= k
    <2>1. ~ (k < n)
      BY <1>2 DEF OpToRel
    <2> QED
      BY <2>1
  <1> HIDE DEF Less
  <1>3. \E n \in S : \A k \in S : ~ (<<k, n>> \in Less)
    BY <1>1, WFMin
  <1>4. \E n \in S : \A k \in S : n <= k
    BY <1>2, <1>3
  <1> QED
    BY <1>4 DEF Min

LEMMA ListOfNone == ToSet(<<>>) = {} /\ Ascending(<<>>) /\ IsInjective(<<>>)
PROOF
  BY DEF ToSet, Ascending, IsInjective

LEMMA Listed ==
  ASSUME NEW S, NEW s \in Seq(S)
  PROVE  /\ ToSet(s) \subseteq S
         /\ \A k : Contains(s, k) <=> k \in ToSet(s)
         /\ \A k : k \in ToSet(s) <=> \E i \in 1 .. Len(s) : s[i] = k
         /\ s # <<>> => Len(s) \in Nat \ {0}
PROOF
  BY DEF ToSet, Contains

LEMMA AppendList ==
  ASSUME NEW s \in Seq(Ids), NEW e \in Ids
  PROVE  /\ Append(s, e) \in Seq(Ids)
         /\ ToSet(Append(s, e)) = ToSet(s) \cup {e}
         /\ Ascending(s) /\ (\A k \in ToSet(s) : k < e) => Ascending(Append(s, e))
         /\ IsInjective(s) /\ e \notin ToSet(s) => IsInjective(Append(s, e))
PROOF
  <1> DEFINE r == Append(s, e)
  <1>1. /\ r \in Seq(Ids) /\ Len(s) \in Nat /\ Len(r) = Len(s) + 1
        /\ \A i \in 1 .. Len(s) : r[i] = s[i]
        /\ r[Len(s) + 1] = e
        /\ DOMAIN s = 1 .. Len(s) /\ DOMAIN r = 1 .. Len(s) + 1
    BY AppendProperties
  <1>2. \A i \in DOMAIN r : i \in DOMAIN s \/ i = Len(s) + 1
    BY <1>1
  <1>3. \A i \in DOMAIN s : i \in DOMAIN r /\ i < Len(s) + 1
    BY <1>1
  <1>4. ToSet(r) = ToSet(s) \cup {e}
    BY <1>1, <1>2, <1>3 DEF ToSet
  <1>5. ASSUME Ascending(s), \A k \in ToSet(s) : k < e
        PROVE  Ascending(r)
    <2> SUFFICES ASSUME NEW i \in DOMAIN r, NEW j \in DOMAIN r, i < j
                 PROVE  r[i] < r[j]
      BY DEF Ascending
    <2>1. i \in DOMAIN s
      BY <1>1
    <2>2. s[i] \in ToSet(s)
      BY <2>1 DEF ToSet
    <2>3. CASE j \in DOMAIN s
      BY <1>1, <1>5, <2>1, <2>3 DEF Ascending
    <2>4. CASE j = Len(s) + 1
      BY <1>1, <1>5, <2>1, <2>2, <2>4
    <2> QED
      BY <1>2, <2>3, <2>4
  <1>6. ASSUME IsInjective(s), e \notin ToSet(s)
        PROVE  IsInjective(r)
    <2>1. \A i \in DOMAIN s : r[i] = s[i] /\ s[i] # e
      BY <1>1, <1>6 DEF ToSet
    <2> QED
      BY <1>1, <1>2, <1>6, <2>1 DEF IsInjective
  <1> QED
    BY <1>1, <1>4, <1>5, <1>6

LEMMA JoinLists ==
  ASSUME NEW s \in Seq(Ids), NEW t \in Seq(Ids)
  PROVE  /\ s \o t \in Seq(Ids)
         /\ ToSet(s \o t) = ToSet(s) \cup ToSet(t)
         /\ Ascending(s) /\ Ascending(t) /\ (\A k \in ToSet(s), l \in ToSet(t) : k < l)
              => Ascending(s \o t)
PROOF
  <1> DEFINE r == s \o t
  <1>1. /\ r \in Seq(Ids) /\ Len(s) \in Nat /\ Len(t) \in Nat
        /\ DOMAIN s = 1 .. Len(s) /\ DOMAIN t = 1 .. Len(t)
        /\ DOMAIN r = 1 .. Len(s) + Len(t)
        /\ \A i \in DOMAIN r : r[i] = IF i <= Len(s) THEN s[i] ELSE t[i - Len(s)]
    BY ConcatProperties
  <1> HIDE DEF r
  <1>2. \A i \in DOMAIN r : \/ i \in DOMAIN s /\ r[i] = s[i]
                            \/ i - Len(s) \in DOMAIN t /\ i > Len(s) /\ r[i] = t[i - Len(s)]
    BY <1>1
  <1>3. \A i \in DOMAIN s : i \in DOMAIN r /\ r[i] = s[i]
    BY <1>1
  <1>4. \A i \in DOMAIN t : i + Len(s) \in DOMAIN r /\ r[i + Len(s)] = t[i]
    BY <1>1
  <1>5. ToSet(r) = ToSet(s) \cup ToSet(t)
    BY <1>2, <1>3, <1>4 DEF ToSet
  <1>6. ASSUME Ascending(s), Ascending(t), \A k \in ToSet(s), l \in ToSet(t) : k < l,
               NEW i \in DOMAIN r, NEW j \in DOMAIN r, i < j
        PROVE  r[i] < r[j]
    <2>1. CASE i \in DOMAIN s /\ r[i] = s[i] /\ j \in DOMAIN s /\ r[j] = s[j]
      BY <1>6, <2>1 DEF Ascending
    <2>2. CASE i \in DOMAIN s /\ r[i] = s[i] /\ j - Len(s) \in DOMAIN t /\ r[j] = t[j - Len(s)]
      BY <1>6, <2>2 DEF ToSet
    <2>3. CASE i > Len(s) /\ i - Len(s) \in DOMAIN t /\ r[i] = t[i - Len(s)]
      <3>1. j - Len(s) \in DOMAIN t /\ r[j] = t[j - Len(s)]
        BY <1>1, <1>2, <1>6, <2>3
      <3>2. i - Len(s) < j - Len(s)
        BY <1>1, <1>6
      <3> QED
        BY <1>6, <2>3, <3>1, <3>2 DEF Ascending
    <2> QED
      BY <1>2, <2>1, <2>2, <2>3
  <1> QED
    BY <1>1, <1>5, <1>6 DEF r, Ascending

LEMMA FirstOfList ==
  ASSUME NEW s \in Seq(Ids), s # <<>>
  PROVE  /\ Head(s) \in ToSet(s) /\ Tail(s) \in Seq(Ids)
         /\ ToSet(Tail(s)) \subseteq ToSet(s)
         /\ ToSet(s) = {Head(s)} \cup ToSet(Tail(s))
         /\ IsInjective(s) => IsInjective(Tail(s)) /\ Head(s) \notin ToSet(Tail(s))
PROOF
  <1> DEFINE r == Tail(s)
  <1>1. /\ r \in Seq(Ids) /\ Len(s) \in Nat \ {0} /\ Head(s) = s[1]
        /\ DOMAIN s = 1 .. Len(s) /\ DOMAIN r = 1 .. Len(s) - 1
        /\ \A i \in DOMAIN r : r[i] = s[i + 1]
    BY HeadTailProperties
  <1> HIDE DEF r
  <1>2. \A i \in DOMAIN r : i + 1 \in DOMAIN s /\ i + 1 # 1
    BY <1>1
  <1>3. \A i \in DOMAIN s : i = 1 \/ (i - 1 \in DOMAIN r /\ r[i - 1] = s[i])
    BY <1>1
  <1>4. 1 \in DOMAIN s
    BY <1>1
  <1>5. ToSet(s) = {Head(s)} \cup ToSet(r)
    BY <1>1, <1>2, <1>3, <1>4 DEF ToSet
  <1>6. ASSUME IsInjective(s)
        PROVE  IsInjective(r) /\ Head(s) \notin ToSet(r)
    <2>1. \A a, b \in DOMAIN r : r[a] = r[b] => a + 1 = b + 1
      BY <1>1, <1>2, <1>6 DEF IsInjective
    <2>2. \A a, b \in DOMAIN r : r[a] = r[b] => a = b
      BY <1>1, <2>1
    <2>3. \A a \in DOMAIN r : r[a] # Head(s)
      BY <1>1, <1>2, <1>4, <1>6 DEF IsInjective
    <2> QED
      BY <2>2, <2>3 DEF IsInjective, ToSet
  <1> QED
    BY <1>1, <1>5, <1>6 DEF r

(* erase through the iterator of a slot takes that slot out of its list    *)
(* and leaves the others as they are.                                      *)
LEMMA EraseFromList ==
  ASSUME NEW s \in Seq(Ids), Ascending(s), NEW k \in ToSet(s)
  PROVE  LET r == RemoveAt(s, Iterator(s, k))
         IN  r \in Seq(Ids) /\ Ascending(r) /\ ToSet(r) = ToSet(s) \ {k}
PROOF
  <1> DEFINE I == {i \in 1 .. Len(s) : s[i] = k}
             p == Iterator(s, k)
             a == SubSeq(s, 1, p - 1)
             b == SubSeq(s, p + 1, Len(s))
             r == a \o b
  <1>1. I # {} /\ I \subseteq Nat
    BY Listed
  <1>2. p = Min(I)
    BY <1>1 DEF Iterator, SelectInSeq
  <1>3. p \in 1 .. Len(s) /\ s[p] = k
    BY <1>1, <1>2, MinOfNats
  <1>4. Len(s) \in Nat /\ DOMAIN s = 1 .. Len(s) /\ \A i \in 1 .. Len(s) : s[i] \in Ids
    BY LenProperties, ElementOfSeq
  <1> HIDE DEF p, I, a, b
  <1>5. /\ a \in Seq(Ids) /\ Len(a) = p - 1
        /\ \A i \in 1 .. p - 1 : a[i] = s[i]
    <2>1. p - 1 \in Int /\ 1 \in Int /\ \A i \in 1 .. p - 1 : s[i] \in Ids
      BY <1>3, <1>4
    <2>2. /\ a \in Seq(Ids) /\ Len(a) = IF 1 <= p - 1 THEN (p - 1) - 1 + 1 ELSE 0
          /\ \A i \in 1 .. (p - 1) - 1 + 1 : a[i] = s[1 + i - 1]
      BY <2>1, SubSeqProperties DEF a
    <2> QED
      BY <1>3, <2>2
  <1>6. /\ b \in Seq(Ids) /\ Len(b) = Len(s) - p
        /\ \A i \in 1 .. Len(s) - p : b[i] = s[p + i]
    <2>1. p + 1 \in Int /\ Len(s) \in Int /\ \A i \in p + 1 .. Len(s) : s[i] \in Ids
      BY <1>3, <1>4
    <2>2. /\ b \in Seq(Ids) /\ Len(b) = IF p + 1 <= Len(s) THEN Len(s) - (p + 1) + 1 ELSE 0
          /\ \A i \in 1 .. Len(s) - (p + 1) + 1 : b[i] = s[(p + 1) + i - 1]
      BY <2>1, SubSeqProperties DEF b
    <2>3. Len(b) = Len(s) - p
      <3>1. Len(s) \in Nat /\ p \in Nat /\ p <= Len(s)
        BY <1>3, <1>4
      <3>2. Len(b) = IF p + 1 <= Len(s) THEN Len(s) - (p + 1) + 1 ELSE 0
        BY <2>2
      <3> QED
        BY <3>1, <3>2
    <2>4. \A i \in 1 .. Len(s) - p : i \in 1 .. Len(s) - (p + 1) + 1 /\ (p + 1) + i - 1 = p + i
      BY <1>3, <1>4
    <2> QED
      BY <2>2, <2>3, <2>4
  <1>7. ToSet(a) = {s[i] : i \in 1 .. p - 1}
    <2>1. DOMAIN a = 1 .. p - 1
      BY <1>5
    <2> QED
      BY <1>5, <2>1 DEF ToSet
  <1>8. ToSet(b) = {s[i] : i \in p + 1 .. Len(s)}
    <2>1. DOMAIN b = 1 .. Len(s) - p
      BY <1>6
    <2>2. \A i \in DOMAIN b : p + i \in p + 1 .. Len(s) /\ b[i] = s[p + i]
      BY <1>3, <1>4, <1>6, <2>1
    <2>3. \A i \in p + 1 .. Len(s) : i - p \in DOMAIN b /\ b[i - p] = s[i]
      BY <1>3, <1>4, <1>6, <2>1
    <2> QED
      BY <2>2, <2>3 DEF ToSet
  <1>9. Ascending(a)
    <2>1. DOMAIN a = 1 .. p - 1
      BY <1>5
    <2> QED
      BY <1>3, <1>4, <1>5, <2>1 DEF Ascending
  <1>10. Ascending(b)
    <2>1. DOMAIN b = 1 .. Len(s) - p
      BY <1>6
    <2>2. \A i \in DOMAIN b : b[i] = s[p + i] /\ p + i \in DOMAIN s
      BY <1>3, <1>4, <1>6, <2>1
    <2>3. \A i, j \in DOMAIN b : i < j => p + i < p + j
      BY <1>3, <2>1
    <2> QED
      BY <2>2, <2>3 DEF Ascending
  <1>11. \A i \in DOMAIN s : (i < p => s[i] < k) /\ (p < i => k < s[i])
    BY <1>3, <1>4 DEF Ascending
  <1>12. /\ \A i \in 1 .. p - 1 : i \in DOMAIN s /\ i < p
         /\ \A i \in p + 1 .. Len(s) : i \in DOMAIN s /\ p < i
         /\ \A i \in DOMAIN s : i \in 1 .. p - 1 \/ i = p \/ i \in p + 1 .. Len(s)
    BY <1>3, <1>4
  <1>13. \A l \in ToSet(a) : l \in Ids /\ l < k
    BY <1>4, <1>7, <1>11, <1>12
  <1>14. \A l \in ToSet(b) : l \in Ids /\ k < l
    BY <1>4, <1>8, <1>11, <1>12
  <1>15. ToSet(s) = {s[i] : i \in DOMAIN s}
    BY DEF ToSet
  <1>16. ToSet(a) \cup ToSet(b) = ToSet(s) \ {k}
    <2>1. k \in Nat
      BY <1>3, <1>4 DEF Ids
    <2>2. ToSet(s) = ToSet(a) \cup {k} \cup ToSet(b)
      BY <1>3, <1>7, <1>8, <1>12, <1>15
    <2>3. k \notin ToSet(a) /\ k \notin ToSet(b)
      BY <1>13, <1>14, <2>1
    <2> QED
      BY <2>2, <2>3
  <1>17. \A l \in ToSet(a), m \in ToSet(b) : l < m
    <2>1. k \in Nat
      BY <1>3, <1>4 DEF Ids
    <2> QED
      BY <1>13, <1>14, <2>1 DEF Ids
  <1>18. r \in Seq(Ids) /\ Ascending(r) /\ ToSet(r) = ToSet(a) \cup ToSet(b)
    BY <1>5, <1>6, <1>9, <1>10, <1>17, JoinLists
  <1>19. RemoveAt(s, Iterator(s, k)) = r
    BY DEF RemoveAt, r, a, b, p
  <1> QED
    BY <1>16, <1>18, <1>19

-------------------------------------------------------------------------------
(* The signal.                                                             *)

ValidIds == {k \in Ids : Valid(k)}

TypeInv ==
  /\ slots \in Seq(Ids) /\ to_add \in Seq(Ids) /\ to_delete \in Seq(Ids) /\ todo \in Seq(Ids)
  /\ guard \in BOOLEAN /\ alive \in BOOLEAN /\ flush \in {"no", "delete", "add"}
  /\ made \in 0 .. MaxSlots /\ already \subseteq 1 .. made
  /\ ToSet(slots) \cup ToSet(to_add) \cup ToSet(todo) \subseteq 1 .. made
  /\ owns \in [Ids -> Seq(Ids)] /\ \A k \in Ids : ToSet(owns[k]) \subseteq 1 .. k - 1
  /\ frames \in Seq([cursor : Ids, outer : BOOLEAN, live : SUBSET Ids])

(* What is valid is listed or pending, and so is what has been disconnected*)
(* but not erased yet. What is pending was connected last.                 *)
ListsInv ==
  /\ Ascending(slots) /\ Ascending(to_add) /\ IsInjective(to_delete)
  /\ \A k \in ToSet(slots), l \in ToSet(to_add) : k < l
  /\ ToSet(to_delete) \subseteq ToSet(slots) \cap already
  /\ ToSet(slots) \cup ToSet(to_add) = ValidIds \cup ToSet(to_delete)

(* What can be under way when. While nothing is deferred, what destructors *)
(* have still to disconnect was connected before what is pending, so that  *)
(* it is erased from slots_ rightly.                                       *)
PhaseInv ==
  /\ guard = (frames # <<>>)
  /\ flush # "no" => frames = <<>>
  /\ flush # "delete" /\ ~guard => to_delete = <<>>
  /\ flush = "no" /\ ~guard => to_add = <<>>
  /\ flush = "add" => todo = <<>>
  /\ ~guard => \A k \in ToSet(todo), l \in ToSet(to_add) : k < l
  /\ ~alive => flush = "no" /\ frames = <<>> /\ todo = <<>>

(* slots_ stays as it is from the beginning of an emission to its end.     *)
FramesInv ==
  /\ wild = FALSE
  /\ \A i \in DOMAIN frames : /\ frames[i].cursor \in ToSet(slots)
                              /\ frames[i].outer <=> i = 1
  /\ frames # <<>> => ToSet(slots) \subseteq frames[1].live

SignalInv == TypeInv /\ ListsInv /\ PhaseInv /\ FramesInv

LEMMA SignalInit == Init => SignalInv
PROOF
  <1> SUFFICES ASSUME Init PROVE SignalInv
    OBVIOUS
  <1>1. MaxSlots \in Nat \ {0}
    BY SignalAssumption
  <1>2. \A S : <<>> \in Seq(S)
    BY EmptySeq
  <1>3. TypeInv
    <2>1. \A k \in Ids : owns[k] = <<>>
      BY DEF Init
    <2>2. owns \in [Ids -> Seq(Ids)] /\ \A k \in Ids : ToSet(owns[k]) \subseteq 1 .. k - 1
      BY <1>2, <2>1, ListOfNone DEF Init
    <2>3. made \in 0 .. MaxSlots
      BY <1>1 DEF Init
    <2> QED
      BY <1>2, <2>2, <2>3, ListOfNone DEF Init, TypeInv
  <1>4. ListsInv
    BY ListOfNone DEF Init, ListsInv, ValidIds, Valid, Ids
  <1>5. PhaseInv /\ FramesInv
    <2>1. DOMAIN frames = {}
      BY EmptySeq DEF Init
    <2> QED
      BY <2>1, ListOfNone DEF Init, PhaseInv, FramesInv
  <1> QED
    BY <1>3, <1>4, <1>5 DEF SignalInv

(* An emission leaves the lists alone.                                     *)
LEMMA FramesSame ==
  ASSUME FramesInv, UNCHANGED <<frames, wild>>, ToSet(slots') = ToSet(slots) \/ frames = <<>>
  PROVE  FramesInv'
PROOF
  BY DEF FramesInv

(* disconnect, whoever calls it. The destructors that go on after it have  *)
(* no more to do than before, but for what the erased slot owned.          *)
LEMMA DisconnectKeeps ==
  ASSUME SignalInv, NEW k \in Ids, NEW rest \in Seq(Ids),
         ToSet(rest) \subseteq ToSet(todo),
         ~guard => \A l \in ToSet(to_add) : k < l,
         flush # "add",
         DoDisconnect(k, rest), UNCHANGED <<guard, conns, frames, flush>>
  PROVE  SignalInv'
PROOF
  <1> DEFINE erased == RemoveAt(slots, Iterator(slots, k))
             dropped == RemoveAt(to_add, Iterator(to_add, k))
             opened == owns[k] \o rest
  <1>1. /\ TypeInv /\ ListsInv /\ PhaseInv /\ FramesInv
        /\ Ids \subseteq Nat
    BY DEF SignalInv, Ids
  <1>2. alive /\ k <= made /\ k \notin already /\ k \in 1 .. made /\ k \in ValidIds
    BY <1>1 DEF DoDisconnect, Valid, ValidIds, TypeInv, Ids
  <1>3. already' = already \cup {k} /\ already' \subseteq 1 .. made
    BY <1>1, <1>2 DEF DoDisconnect, TypeInv
  <1>4. ValidIds' = ValidIds \ {k}
    BY <1>3 DEF ValidIds, Valid, conns
  <1>5. /\ opened \in Seq(Ids)
        /\ ToSet(opened) = ToSet(owns[k]) \cup ToSet(rest)
        /\ \A j \in ToSet(owns[k]) : j \in 1 .. k - 1 /\ j \in 1 .. made
    <2>1. owns[k] \in Seq(Ids) /\ ToSet(owns[k]) \subseteq 1 .. k - 1
      BY <1>1 DEF TypeInv
    <2>2. made \in Nat /\ k \in Nat
      BY <1>1 DEF TypeInv, Ids
    <2> QED
      BY <1>2, <2>1, <2>2, JoinLists
  <1>6. k \in ToSet(slots) \/ k \in ToSet(to_add)
    BY <1>1, <1>2 DEF ListsInv
  <1>7. k \notin ToSet(to_delete) /\ ~ (k \in ToSet(slots) /\ k \in ToSet(to_add))
    BY <1>1, <1>2 DEF ListsInv
  <1>8. k \in ToSet(slots) => erased \in Seq(Ids) /\ Ascending(erased) /\ ToSet(erased) = ToSet(slots) \ {k}
    BY <1>1, EraseFromList DEF TypeInv, ListsInv
  <1>9. k \in ToSet(to_add) => dropped \in Seq(Ids) /\ Ascending(dropped) /\ ToSet(dropped) = ToSet(to_add) \ {k}
    BY <1>1, EraseFromList DEF TypeInv, ListsInv
  <1>10. \A j : (Contains(slots, j) <=> j \in ToSet(slots)) /\ (Contains(to_add, j) <=> j \in ToSet(to_add))
    BY <1>1, Listed DEF TypeInv
  <1> HIDE DEF erased, dropped, opened
  <1>11. CASE guard /\ k \in ToSet(to_add)
    <2>1. /\ to_add' = dropped /\ todo' = opened
          /\ UNCHANGED <<to_delete, slots, wild>>
      <3>1. DisconnectLater(k, rest)
        BY <1>11 DEF DoDisconnect, DisconnectNow
      <3> QED
        BY <1>10, <1>11, <3>1 DEF DisconnectLater, Destroy, dropped, opened
    <2>2. TypeInv'
      BY <1>1, <1>3, <1>5, <1>9, <1>11, <2>1 DEF TypeInv, conns
    <2>3. ListsInv'
      BY <1>1, <1>3, <1>4, <1>7, <1>9, <1>11, <2>1 DEF ListsInv
    <2>4. PhaseInv'
      BY <1>1, <1>2, <1>11, <2>1 DEF PhaseInv, conns
    <2>5. FramesInv'
      BY <1>1, <2>1, FramesSame
    <2> QED
      BY <2>2, <2>3, <2>4, <2>5 DEF SignalInv
  <1>12. CASE guard /\ k \notin ToSet(to_add)
    <2>1. /\ to_delete' = Append(to_delete, k) /\ todo' = rest
          /\ UNCHANGED <<to_add, slots, wild>>
      <3>1. DisconnectLater(k, rest)
        BY <1>12 DEF DoDisconnect, DisconnectNow
      <3> QED
        BY <1>10, <1>12, <3>1 DEF DisconnectLater
    <2>2. /\ to_delete' \in Seq(Ids) /\ IsInjective(to_delete')
          /\ ToSet(to_delete') = ToSet(to_delete) \cup {k}
      BY <1>1, <1>7, <2>1, AppendList DEF TypeInv, ListsInv
    <2>3. TypeInv'
      BY <1>1, <1>3, <1>12, <2>1, <2>2 DEF TypeInv, conns
    <2>4. ListsInv'
      BY <1>1, <1>2, <1>3, <1>4, <1>6, <1>12, <2>1, <2>2 DEF ListsInv
    <2>5. PhaseInv'
      BY <1>1, <1>2, <1>12, <2>1 DEF PhaseInv, conns
    <2>6. FramesInv'
      BY <1>1, <2>1, FramesSame
    <2> QED
      BY <2>3, <2>4, <2>5, <2>6 DEF SignalInv
  <1>13. CASE ~guard
    <2>1. k \in ToSet(slots) /\ frames = <<>>
      <3>1. k \notin ToSet(to_add)
        BY <1>1, <1>13
      <3> QED
        BY <1>1, <1>6, <1>13, <3>1 DEF PhaseInv
    <2>2. /\ slots' = erased /\ todo' = opened /\ wild' = FALSE
          /\ UNCHANGED <<to_add, to_delete>>
      <3>1. DisconnectNow(k, rest)
        BY <1>13 DEF DoDisconnect, DisconnectLater
      <3> QED
        BY <1>1, <1>10, <2>1, <3>1 DEF DisconnectNow, Erase, Destroy, FramesInv, erased, opened
    <2>3. TypeInv'
      BY <1>1, <1>3, <1>5, <1>8, <1>13, <2>1, <2>2 DEF TypeInv, conns
    <2>4. ListsInv'
      BY <1>1, <1>3, <1>4, <1>7, <1>8, <2>1, <2>2 DEF ListsInv
    <2>5. PhaseInv'
      <3>1. \A j \in ToSet(opened), l \in ToSet(to_add) : j < l
        <4>1. ASSUME NEW j \in ToSet(owns[k]), NEW l \in ToSet(to_add)
              PROVE  j < l
          <5>1. j \in Nat /\ k \in Nat /\ l \in Nat /\ j < k /\ k < l
            BY <1>1, <1>5, <1>13, Listed, <4>1 DEF TypeInv
          <5> QED
            BY <5>1
        <4>2. \A j \in ToSet(rest), l \in ToSet(to_add) : j < l
          BY <1>1, <1>13 DEF PhaseInv
        <4> QED
          BY <1>5, <4>1, <4>2
      <3> QED
        BY <1>1, <1>2, <2>1, <2>2, <3>1 DEF PhaseInv, conns
    <2>6. FramesInv'
      BY <1>1, <2>1, <2>2 DEF FramesInv
    <2> QED
      BY <2>3, <2>4, <2>5, <2>6 DEF SignalInv
  <1>14. guard \in BOOLEAN
    BY <1>1 DEF TypeInv
  <1> QED
    BY <1>11, <1>12, <1>13, <1>14

LEMMA ConnectKeeps == SignalInv /\ Connect => SignalInv'
PROOF
  <1> SUFFICES ASSUME SignalInv, Connect PROVE SignalInv'
    OBVIOUS
  <1> DEFINE e == made + 1
  <1>1. /\ TypeInv /\ ListsInv /\ PhaseInv /\ FramesInv
        /\ flush = "no" /\ todo = <<>> /\ alive
        /\ made' = e /\ already' = already /\ alive' = alive
    BY DEF SignalInv, Connect, CodeRuns
  <1>2. e \in Ids /\ e \in Nat /\ made \in Nat /\ e \in 0 .. MaxSlots
    BY <1>1, SignalAssumption DEF Connect, TypeInv, Ids
  <1>3. ToSet(slots) \cup ToSet(to_add) \subseteq 1 .. made
    BY <1>1 DEF TypeInv
  <1>4. ValidIds' = ValidIds \cup {e}
    <2>1. e \notin already
      BY <1>1, <1>2 DEF TypeInv
    <2> QED
      BY <1>1, <1>2, <2>1 DEF ValidIds, Valid, Ids
  <1>5. /\ owns' \in [Ids -> Seq(Ids)]
        /\ \A k \in Ids : ToSet(owns'[k]) \subseteq 1 .. k - 1
    <2>1. PICK g \in Groups : owns' = [owns EXCEPT ![e] = g]
      BY <1>1 DEF Connect
    <2>2. PICK n \in 0 .. MaxOwned : g \in [1 .. n -> {i \in 1 .. made : Valid(i)}]
      BY DEF Groups
    <2>3. g \in [1 .. n -> 1 .. made] /\ n \in Nat
      BY <2>2, SignalAssumption
    <2>4. ToSet(g) \subseteq 1 .. e - 1
      BY <1>2, <2>3 DEF ToSet
    <2>5. 1 .. made \subseteq Ids
      BY <1>1, <1>2, SignalAssumption DEF TypeInv, Ids
    <2>6. g \in Seq(Ids)
      BY <2>3, <2>5, SeqDef
    <2> QED
      BY <1>1, <1>2, <2>1, <2>4, <2>6 DEF TypeInv
  <1>6. already' \subseteq 1 .. made' /\ ToSet(todo) \subseteq 1 .. made' /\ 1 .. made \subseteq 1 .. made'
    BY <1>1, <1>2 DEF TypeInv
  <1>7. UNCHANGED <<to_delete, guard, frames, flush, todo, wild>>
    BY DEF Connect
  <1>8. (\A k \in ToSet(slots) : k < e) /\ (\A k \in ToSet(to_add) : k < e)
    BY <1>2, <1>3
  <1>9. CASE guard
    <2>1. to_add' = Append(to_add, e) /\ slots' = slots
      BY <1>1, <1>9 DEF Connect
    <2>2. /\ to_add' \in Seq(Ids) /\ Ascending(to_add')
          /\ ToSet(to_add') = ToSet(to_add) \cup {e}
      BY <1>1, <1>2, <1>8, <2>1, AppendList DEF TypeInv, ListsInv
    <2>3. e \in 1 .. made'
      BY <1>1, <1>2
    <2>4. TypeInv'
      BY <1>1, <1>2, <1>3, <1>5, <1>6, <1>7, <2>1, <2>2, <2>3 DEF TypeInv
    <2>5. ListsInv'
      BY <1>1, <1>4, <1>7, <1>8, <2>1, <2>2 DEF ListsInv
    <2>6. PhaseInv'
      BY <1>1, <1>7, <1>9 DEF PhaseInv
    <2>7. FramesInv'
      BY <1>1, <1>7, <2>1, FramesSame
    <2> QED
      BY <2>4, <2>5, <2>6, <2>7 DEF SignalInv
  <1>10. CASE ~guard
    <2>1. slots' = Append(slots, e) /\ to_add' = to_add
      BY <1>1, <1>10 DEF Connect
    <2>2. to_add = <<>> /\ frames = <<>> /\ ToSet(to_add) = {}
      BY <1>1, <1>10, ListOfNone DEF PhaseInv
    <2>3. /\ slots' \in Seq(Ids) /\ Ascending(slots')
          /\ ToSet(slots') = ToSet(slots) \cup {e}
      BY <1>1, <1>2, <1>8, <2>1, AppendList DEF TypeInv, ListsInv
    <2>4. e \in 1 .. made'
      BY <1>1, <1>2
    <2>5. TypeInv'
      BY <1>1, <1>2, <1>3, <1>5, <1>6, <1>7, <2>1, <2>3, <2>4 DEF TypeInv
    <2>6. ListsInv'
      BY <1>1, <1>4, <1>7, <2>1, <2>2, <2>3 DEF ListsInv
    <2>7. PhaseInv'
      BY <1>1, <1>7, <1>10, <2>1, <2>2 DEF PhaseInv
    <2>8. FramesInv'
      BY <1>1, <1>7, <2>2, FramesSame
    <2> QED
      BY <2>5, <2>6, <2>7, <2>8 DEF SignalInv
  <1>11. guard \in BOOLEAN
    BY <1>1 DEF TypeInv
  <1> QED
    BY <1>9, <1>10, <1>11

LEMMA DisconnectsKeep == SignalInv /\ (Disconnect \/ Destroyed) => SignalInv'
PROOF
  <1> SUFFICES ASSUME SignalInv, Disconnect \/ Destroyed PROVE SignalInv'
    OBVIOUS
  <1>1. TypeInv /\ ListsInv /\ PhaseInv /\ FramesInv
    BY DEF SignalInv
  <1>2. CASE Disconnect
    <2>1. PICK k \in Ids : DoDisconnect(k, <<>>)
      BY <1>2 DEF Disconnect
    <2>2. flush = "no" /\ UNCHANGED <<guard, conns, frames, flush>>
      BY <1>2 DEF Disconnect, CodeRuns
    <2>3. ~guard => \A l \in ToSet(to_add) : k < l
      BY <1>1, <2>2, ListOfNone DEF PhaseInv
    <2>4. <<>> \in Seq(Ids) /\ ToSet(<<>>) \subseteq ToSet(todo)
      BY EmptySeq, ListOfNone
    <2> QED
      BY <2>1, <2>2, <2>3, <2>4, DisconnectKeeps
  <1>3. CASE Destroyed
    <2> DEFINE k == Head(todo)
    <2>1. /\ todo # <<>> /\ todo \in Seq(Ids)
          /\ UNCHANGED <<guard, conns, frames, flush>>
      BY <1>1, <1>3 DEF Destroyed, TypeInv
    <2>2. /\ k \in ToSet(todo) /\ k \in Ids /\ Tail(todo) \in Seq(Ids)
          /\ ToSet(Tail(todo)) \subseteq ToSet(todo)
      BY <2>1, FirstOfList, Listed
    <2>3. CASE Valid(k)
      <3>1. DoDisconnect(k, Tail(todo))
        BY <1>3, <2>3 DEF Destroyed
      <3>2. (~guard => \A l \in ToSet(to_add) : k < l) /\ flush # "add"
        BY <1>1, <2>1, <2>2 DEF PhaseInv
      <3> QED
        BY <2>1, <2>2, <3>1, <3>2, DisconnectKeeps
    <2>4. CASE ~Valid(k)
      <3>1. todo' = Tail(todo) /\ UNCHANGED <<slots, to_add, to_delete, already, wild>>
        BY <1>3, <2>4 DEF Destroyed
      <3>2. TypeInv'
        BY <1>1, <2>1, <2>2, <3>1 DEF TypeInv, conns
      <3>3. ListsInv'
        BY <1>1, <2>1, <3>1 DEF ListsInv, ValidIds, Valid, conns
      <3>4. PhaseInv'
        BY <1>1, <2>1, <2>2, <3>1 DEF PhaseInv, conns
      <3>5. FramesInv'
        BY <1>1, <2>1, <3>1, FramesSame
      <3> QED
        BY <3>2, <3>3, <3>4, <3>5 DEF SignalInv
    <2> QED
      BY <2>3, <2>4
  <1> QED
    BY <1>2, <1>3

LEMMA DestroySignalKeeps == SignalInv /\ DestroySignal => SignalInv'
PROOF
  <1> SUFFICES ASSUME SignalInv, DestroySignal PROVE SignalInv'
    OBVIOUS
  <1>1. /\ TypeInv /\ ListsInv /\ PhaseInv /\ FramesInv
        /\ flush = "no" /\ todo = <<>> /\ frames = <<>>
        /\ alive' = FALSE /\ slots' = <<>>
        /\ UNCHANGED <<to_add, to_delete, guard, made, already, owns, frames, flush, todo, wild>>
    BY DEF SignalInv, DestroySignal, CodeRuns
  <1>2. to_add = <<>> /\ to_delete = <<>>
    BY <1>1 DEF PhaseInv
  <1>3. ValidIds' = {}
    BY <1>1 DEF ValidIds, Valid
  <1>4. TypeInv'
    BY <1>1, EmptySeq, ListOfNone DEF TypeInv
  <1>5. ListsInv'
    BY <1>1, <1>2, <1>3, ListOfNone DEF ListsInv
  <1>6. PhaseInv'
    BY <1>1 DEF PhaseInv
  <1>7. FramesInv'
    BY <1>1, FramesSame
  <1> QED
    BY <1>4, <1>5, <1>6, <1>7 DEF SignalInv

(* The slot that a cursor in the list is at is at the iterator's place.    *)
LEMMA IteratorAt ==
  ASSUME NEW s \in Seq(Ids), NEW k \in ToSet(s)
  PROVE  Iterator(s, k) \in 1 .. Len(s) /\ s[Iterator(s, k)] = k
PROOF
  <1> DEFINE I == {i \in 1 .. Len(s) : s[i] = k}
  <1>1. I # {} /\ I \subseteq Nat
    BY Listed
  <1>2. Iterator(s, k) = Min(I)
    BY <1>1 DEF Iterator, SelectInSeq
  <1> QED
    BY <1>1, <1>2, MinOfNats

(* Outside emissions and flushes what is listed is what is valid.          *)
LEMMA SettledLists ==
  ASSUME SignalInv, CodeRuns, frames = <<>>
  PROVE  to_add = <<>> /\ to_delete = <<>> /\ ToSet(slots) = ValidIds
PROOF
  <1>1. /\ ListsInv /\ PhaseInv /\ flush = "no"
    BY DEF SignalInv, CodeRuns
  <1>2. to_add = <<>> /\ to_delete = <<>>
    BY <1>1 DEF PhaseInv
  <1> QED
    BY <1>1, <1>2, ListOfNone DEF ListsInv

LEMMA EmitKeeps == SignalInv /\ Emit => SignalInv'
PROOF
  <1> SUFFICES ASSUME SignalInv, Emit PROVE SignalInv'
    OBVIOUS
  <1> DEFINE f == [cursor |-> Head(slots), outer |-> ~guard, live |-> {k \in Ids : Valid(k)}]
             F == [cursor : Ids, outer : BOOLEAN, live : SUBSET Ids]
  <1>1. /\ TypeInv /\ ListsInv /\ PhaseInv /\ FramesInv
        /\ flush = "no" /\ todo = <<>> /\ alive /\ slots # <<>>
        /\ frames' = Append(frames, f) /\ guard' = TRUE
        /\ UNCHANGED <<slots, to_add, to_delete, conns, already, flush, todo, wild>>
    BY DEF SignalInv, Emit, CodeRuns
  <1>2. Head(slots) \in ToSet(slots) /\ Head(slots) \in Ids
    BY <1>1, FirstOfList, Listed DEF TypeInv
  <1>3. f \in F /\ f.cursor = Head(slots) /\ f.outer = ~guard /\ f.live = ValidIds
    BY <1>2 DEF ValidIds
  <1>4. frames \in Seq(F) /\ guard = (frames # <<>>)
    BY <1>1 DEF TypeInv, PhaseInv
  <1> HIDE DEF f, F
  <1>5. /\ frames' \in Seq(F) /\ frames' # <<>>
        /\ Len(frames) \in Nat /\ Len(frames') = Len(frames) + 1
        /\ \A i \in 1 .. Len(frames) : frames'[i] = frames[i]
        /\ frames'[Len(frames) + 1] = f
        /\ DOMAIN frames = 1 .. Len(frames) /\ DOMAIN frames' = 1 .. Len(frames) + 1
    BY <1>1, <1>3, <1>4, AppendProperties
  <1>6. TypeInv'
    BY <1>1, <1>5 DEF TypeInv, conns, F
  <1>7. ListsInv'
    BY <1>1 DEF ListsInv, ValidIds, Valid, conns
  <1>8. PhaseInv'
    BY <1>1, <1>5 DEF PhaseInv, conns
  <1>9. ASSUME NEW i \in DOMAIN frames'
        PROVE  frames'[i].cursor \in ToSet(slots) /\ (frames'[i].outer <=> i = 1)
    <2>1. CASE i \in DOMAIN frames
      BY <1>1, <1>5, <2>1 DEF FramesInv
    <2>2. CASE i = Len(frames) + 1
      <3>1. frames = <<>> <=> Len(frames) = 0
        <4>1. frames = <<>> => Len(frames) = 0
          BY EmptySeq
        <4>2. frames # <<>> => Len(frames) # 0
          BY <1>4, EmptySeq
        <4> QED
          BY <4>1, <4>2
      <3>2. i = 1 <=> frames = <<>>
        BY <1>5, <2>2, <3>1
      <3>3. f.outer <=> frames = <<>>
        BY <1>3, <1>4
      <3> QED
        BY <1>2, <1>3, <1>5, <2>2, <3>2, <3>3
    <2> QED
      BY <1>5, <2>1, <2>2
  <1>10. ToSet(slots) \subseteq frames'[1].live
    <2>1. CASE frames = <<>>
      <3>1. ToSet(slots) = ValidIds
        BY <1>1, <2>1, SettledLists DEF CodeRuns
      <3>2. Len(frames) = 0
        BY <2>1, EmptySeq
      <3> QED
        BY <1>3, <1>5, <3>1, <3>2
    <2>2. CASE frames # <<>>
      <3>1. 1 \in 1 .. Len(frames)
        BY <1>4, <1>5, <2>2, EmptySeq
      <3> QED
        BY <1>1, <1>5, <2>2, <3>1 DEF FramesInv
    <2> QED
      BY <2>1, <2>2
  <1>11. FramesInv'
    BY <1>1, <1>9, <1>10 DEF FramesInv
  <1> QED
    BY <1>6, <1>7, <1>8, <1>11 DEF SignalInv

LEMMA NextSlotKeeps == SignalInv /\ NextSlot => SignalInv'
PROOF
  <1> SUFFICES ASSUME SignalInv, NextSlot PROVE SignalInv'
    OBVIOUS
  <1> DEFINE n == Len(frames)
             next == slots[Following(Top.cursor)]
             F == [cursor : Ids, outer : BOOLEAN, live : SUBSET Ids]
  <1>1. /\ TypeInv /\ ListsInv /\ PhaseInv /\ FramesInv
        /\ frames # <<>> /\ Following(Top.cursor) <= Len(slots)
        /\ frames' = [frames EXCEPT ![n].cursor = next]
        /\ UNCHANGED <<slots, to_add, to_delete, guard, conns, already, flush, todo, wild>>
    BY DEF SignalInv, NextSlot
  <1>2. /\ frames \in Seq(F) /\ n \in Nat \ {0} /\ n \in 1 .. n
        /\ DOMAIN frames = 1 .. n /\ frames \in [1 .. n -> F]
    <2>1. frames \in Seq(F)
      BY <1>1 DEF TypeInv
    <2> HIDE DEF F
    <2>2. n \in Nat \ {0}
      BY <1>1, <2>1, EmptySeq
    <2> QED
      BY <2>1, <2>2, LenProperties
  <1>3. next \in ToSet(slots) /\ next \in Ids
    <2>1. Top.cursor \in ToSet(slots) /\ slots \in Seq(Ids)
      BY <1>1, <1>2 DEF Top, FramesInv, TypeInv
    <2>2. Following(Top.cursor) \in 1 .. Len(slots)
      BY <1>1, <2>1, IteratorAt DEF Following
    <2> QED
      BY <2>1, <2>2, Listed
  <1> HIDE DEF next, n
  <1>4. /\ frames' \in [1 .. n -> F]
        /\ \A i \in 1 .. n : /\ frames'[i].cursor = IF i = n THEN next ELSE frames[i].cursor
                             /\ frames'[i].outer = frames[i].outer
                             /\ frames'[i].live = frames[i].live
    BY <1>1, <1>2, <1>3
  <1>5. frames' \in Seq(F) /\ frames' # <<>> /\ DOMAIN frames' = 1 .. n
    <2>1. frames' \in Seq(F)
      BY <1>2, <1>4, SeqDef
    <2>2. DOMAIN frames' = 1 .. n
      BY <1>4
    <2> QED
      BY <1>2, <2>1, <2>2, EmptySeq, LenProperties
  <1>6. TypeInv'
    BY <1>1, <1>5 DEF TypeInv, conns
  <1>7. ListsInv'
    BY <1>1 DEF ListsInv, ValidIds, Valid, conns
  <1>8. PhaseInv'
    BY <1>1, <1>5 DEF PhaseInv, conns
  <1>9. FramesInv'
    BY <1>1, <1>2, <1>3, <1>4, <1>5 DEF FramesInv
  <1> QED
    BY <1>6, <1>7, <1>8, <1>9 DEF SignalInv

LEMMA EndEmissionKeeps == SignalInv /\ EndEmission => SignalInv'
PROOF
  <1> SUFFICES ASSUME SignalInv, EndEmission PROVE SignalInv'
    OBVIOUS
  <1> DEFINE n == Len(frames)
             F == [cursor : Ids, outer : BOOLEAN, live : SUBSET Ids]
  <1>1. /\ TypeInv /\ ListsInv /\ PhaseInv /\ FramesInv
        /\ flush = "no" /\ todo = <<>> /\ frames # <<>> /\ alive
        /\ frames' = Front(frames)
        /\ UNCHANGED <<slots, to_add, to_delete, conns, already, todo, wild>>
    BY DEF SignalInv, EndEmission, CodeRuns, PhaseInv
  <1>2. /\ frames \in Seq(F) /\ n \in Nat \ {0} /\ DOMAIN frames = 1 .. n
        /\ \A i \in 1 .. n : frames[i] \in F
    BY <1>1, EmptySeq, LenProperties, ElementOfSeq DEF TypeInv
  <1>3. /\ frames' \in Seq(F) /\ Len(frames') = n - 1
        /\ \A i \in 1 .. n - 1 : frames'[i] = frames[i]
    <2>1. 1 \in Int /\ n - 1 \in Int /\ \A i \in 1 .. n - 1 : frames[i] \in F
      BY <1>2
    <2>2. frames' = SubSeq(frames, 1, n - 1)
      BY <1>1 DEF Front
    <2> HIDE DEF n, F
    <2>3. /\ frames' \in Seq(F) /\ Len(frames') = IF 1 <= n - 1 THEN (n - 1) - 1 + 1 ELSE 0
          /\ \A i \in 1 .. (n - 1) - 1 + 1 : frames'[i] = frames[1 + i - 1]
      BY <2>1, <2>2, SubSeqProperties
    <2> QED
      BY <1>2, <2>3
  <1>4. DOMAIN frames' = 1 .. n - 1 /\ (frames' = <<>> <=> n = 1)
    BY <1>2, <1>3, EmptySeq, LenProperties
  <1>5. Top.outer <=> n = 1
    BY <1>1, <1>2 DEF Top, FramesInv
  <1>6. /\ guard' = (frames' # <<>>) /\ guard' \in BOOLEAN
        /\ n = 1 => flush' = "delete"
        /\ n # 1 => flush' = "no"
    <2>1. guard = TRUE
      BY <1>1 DEF PhaseInv
    <2>2. CASE n = 1
      BY <1>4, <1>5, <2>2 DEF EndEmission
    <2>3. CASE n # 1
      BY <1>1, <1>4, <1>5, <2>1, <2>3 DEF EndEmission
    <2> QED
      BY <2>2, <2>3
  <1> HIDE DEF n
  <1>7. TypeInv'
    BY <1>1, <1>3, <1>6 DEF TypeInv, conns
  <1>8. ListsInv'
    BY <1>1 DEF ListsInv, ValidIds, Valid, conns
  <1>9. PhaseInv'
    BY <1>1, <1>4, <1>6, ListOfNone DEF PhaseInv, conns
  <1>10. FramesInv'
    <2>1. \A i \in DOMAIN frames' : i \in DOMAIN frames /\ frames'[i] = frames[i]
      BY <1>2, <1>3, <1>4
    <2>2. frames' # <<>> => frames'[1] = frames[1]
      BY <1>2, <1>3, <1>4
    <2> QED
      BY <1>1, <2>1, <2>2 DEF FramesInv
  <1> QED
    BY <1>7, <1>8, <1>9, <1>10 DEF SignalInv

LEMMA DeletingKeeps == SignalInv /\ FlushDelete => SignalInv'
PROOF
  <1> SUFFICES ASSUME SignalInv, FlushDelete PROVE SignalInv'
    OBVIOUS
  <1>1. /\ TypeInv /\ ListsInv /\ PhaseInv /\ FramesInv
        /\ flush = "delete" /\ todo = <<>>
        /\ UNCHANGED <<to_add, guard, conns, already, frames>>
    BY DEF SignalInv, FlushDelete
  <1>2. frames = <<>> /\ guard = FALSE /\ alive
    BY <1>1 DEF PhaseInv, TypeInv
  <1>3. ValidIds' = ValidIds
    BY <1>1 DEF ValidIds, Valid, conns
  <1>4. CASE to_delete = <<>>
    <2>1. flush' = "add" /\ UNCHANGED <<slots, to_delete, todo, wild>>
      BY <1>4 DEF FlushDelete
    <2>2. TypeInv'
      BY <1>1, <2>1 DEF TypeInv, conns
    <2>3. ListsInv'
      BY <1>1, <1>3, <2>1 DEF ListsInv
    <2>4. PhaseInv'
      BY <1>1, <1>2, <1>4, <2>1 DEF PhaseInv, conns
    <2>5. FramesInv'
      BY <1>1, <2>1, FramesSame
    <2> QED
      BY <2>2, <2>3, <2>4, <2>5 DEF SignalInv
  <1>5. CASE to_delete # <<>>
    <2> DEFINE k == Head(to_delete)
               erased == RemoveAt(slots, Iterator(slots, k))
    <2>1. /\ k \in ToSet(to_delete) /\ k \notin ToSet(Tail(to_delete))
          /\ Tail(to_delete) \in Seq(Ids) /\ IsInjective(Tail(to_delete))
          /\ ToSet(to_delete) = {k} \cup ToSet(Tail(to_delete))
      BY <1>1, <1>5, FirstOfList DEF TypeInv, ListsInv
    <2>2. /\ k \in ToSet(slots) /\ k \in already /\ k \in Ids
          /\ Contains(slots, k)
      BY <1>1, <2>1, Listed DEF ListsInv, TypeInv
    <2>3. erased \in Seq(Ids) /\ Ascending(erased) /\ ToSet(erased) = ToSet(slots) \ {k}
      BY <1>1, <2>2, EraseFromList DEF TypeInv, ListsInv
    <2>4. /\ slots' = erased /\ wild' = FALSE /\ flush' = flush
          /\ todo' = owns[k] \o <<>> /\ to_delete' = Tail(to_delete)
      BY <1>1, <1>5, <2>2 DEF FlushDelete, Erase, Destroy, FramesInv
    <2> HIDE DEF erased
    <2>5. /\ todo' \in Seq(Ids)
          /\ \A j \in ToSet(todo') : j \in Nat /\ j < k /\ j \in 1 .. made
      <3>1. owns[k] \in Seq(Ids) /\ ToSet(owns[k]) \subseteq 1 .. k - 1
        BY <1>1, <2>2 DEF TypeInv
      <3>2. todo' = owns[k]
        BY <2>4, <3>1, ConcatEmptySeq
      <3>3. made \in Nat /\ k \in Nat /\ k <= made
        BY <1>1, <2>2 DEF TypeInv, Ids
      <3> QED
        BY <3>1, <3>2, <3>3
    <2>6. k \notin ToSet(to_add) /\ k \notin ValidIds
      <3>1. k \in Nat
        BY <2>2 DEF Ids
      <3> QED
        BY <1>1, <2>2, <3>1 DEF ListsInv, ValidIds, Valid
    <2>7. TypeInv'
      BY <1>1, <2>1, <2>3, <2>4, <2>5 DEF TypeInv, conns
    <2>8. ListsInv'
      BY <1>1, <1>3, <2>1, <2>3, <2>4, <2>6 DEF ListsInv
    <2>9. PhaseInv'
      <3>1. ASSUME NEW j \in ToSet(todo'), NEW l \in ToSet(to_add)
            PROVE  j < l
        <4>1. k < l /\ l \in Nat /\ k \in Nat
          BY <1>1, <2>2, Listed DEF ListsInv, TypeInv, Ids
        <4> QED
          BY <2>5, <4>1
      <3> QED
        BY <1>1, <1>2, <2>4, <3>1 DEF PhaseInv, conns
    <2>10. FramesInv'
      <3>1. DOMAIN frames' = {}
        BY <1>1, <1>2, EmptySeq
      <3> QED
        BY <1>1, <1>2, <2>4, <3>1 DEF FramesInv
    <2> QED
      BY <2>7, <2>8, <2>9, <2>10 DEF SignalInv
  <1> QED
    BY <1>4, <1>5

LEMMA AddingKeeps == SignalInv /\ FlushAdd => SignalInv'
PROOF
  <1> SUFFICES ASSUME SignalInv, FlushAdd PROVE SignalInv'
    OBVIOUS
  <1>1. /\ TypeInv /\ ListsInv /\ PhaseInv /\ FramesInv
        /\ flush = "add" /\ slots' = slots \o to_add /\ to_add' = <<>> /\ flush' = "no"
        /\ UNCHANGED <<to_delete, guard, conns, already, frames, todo, wild>>
    BY DEF SignalInv, FlushAdd
  <1>2. frames = <<>> /\ guard = FALSE /\ alive /\ todo = <<>> /\ to_delete = <<>>
    BY <1>1 DEF PhaseInv, TypeInv
  <1>3. ValidIds' = ValidIds
    BY <1>1 DEF ValidIds, Valid, conns
  <1>4. /\ slots' \in Seq(Ids) /\ Ascending(slots')
        /\ ToSet(slots') = ToSet(slots) \cup ToSet(to_add)
    BY <1>1, JoinLists DEF TypeInv, ListsInv
  <1>5. TypeInv'
    BY <1>1, <1>4, EmptySeq, ListOfNone DEF TypeInv, conns
  <1>6. ListsInv'
    BY <1>1, <1>2, <1>3, <1>4, ListOfNone DEF ListsInv
  <1>7. PhaseInv'
    BY <1>1, <1>2, ListOfNone DEF PhaseInv, conns
  <1>8. FramesInv'
    BY <1>1, <1>2, FramesSame
  <1> QED
    BY <1>5, <1>6, <1>7, <1>8 DEF SignalInv

LEMMA SignalStep == SignalInv /\ [Next]_vars => SignalInv'
PROOF
  <1> SUFFICES ASSUME SignalInv, [Next]_vars PROVE SignalInv'
    OBVIOUS
  <1>1. CASE UNCHANGED vars
    <2>1. TypeInv' /\ ListsInv' /\ PhaseInv' /\ FramesInv'
      BY <1>1 DEF vars, conns, SignalInv, TypeInv, ListsInv, ValidIds, Valid, PhaseInv, FramesInv
    <2> QED
      BY <2>1 DEF SignalInv
  <1>2. CASE Next
    BY <1>2, ConnectKeeps, DisconnectsKeep, DestroySignalKeeps, EmitKeeps, NextSlotKeeps,
       EndEmissionKeeps, DeletingKeeps, AddingKeeps DEF Next
  <1> QED
    BY <1>1, <1>2

LEMMA SignalAlways == Spec => []SignalInv
PROOF
  BY SignalInit, SignalStep, PTL DEF Spec

(* The lists of the signal hold slots that were connected, each once and   *)
(* in the order of their connects, whatever slots and destructors do.      *)
THEOREM SignalTyping == Spec => []TypeOK
PROOF
  <1>1. SignalInv => TypeOK
    <2> SUFFICES ASSUME SignalInv PROVE TypeOK
      OBVIOUS
    <2>1. TypeInv /\ ListsInv /\ PhaseInv /\ FramesInv
      BY DEF SignalInv
    <2>2. /\ slots \o to_add \in Seq(Ids) /\ Ascending(slots \o to_add)
          /\ ToSet(slots \o to_add) = ToSet(slots) \cup ToSet(to_add)
      BY <2>1, JoinLists DEF TypeInv, ListsInv
    <2>3. ToSet(slots \o to_add \o to_delete) = ToSet(slots) \cup ToSet(to_add) \cup ToSet(to_delete)
      BY <2>1, <2>2, JoinLists DEF TypeInv
    <2>4. ToSet(slots \o to_add \o to_delete) \cup already \subseteq 1 .. made
      BY <2>1, <2>3 DEF TypeInv, ListsInv
    <2>5. /\ \A k \in Ids : ToSet(owns[k]) \subseteq 1 .. k - 1
          /\ ToSet(todo) \subseteq 1 .. made /\ flush \in {"no", "delete", "add"}
          /\ made \in 0 .. MaxSlots /\ alive \in BOOLEAN
      BY <2>1 DEF TypeInv
    <2>6. guard = (frames # <<>>) /\ \A i \in DOMAIN frames : frames[i].outer <=> i = 1
      BY <2>1 DEF PhaseInv, FramesInv
    <2> QED
      BY <2>2, <2>4, <2>5, <2>6 DEF TypeOK
  <1> QED
    BY <1>1, SignalAlways, PTL

(* Nothing is erased that is not in its list, and no emission stands on a  *)
(* slot that was erased, for any number of slots, of connections in a      *)
(* group and of emissions inside emissions.                                *)
THEOREM SignalIteratorsHold == Spec => []IteratorsHold
PROOF
  <1>1. SignalInv => IteratorsHold
    <2> SUFFICES ASSUME SignalInv PROVE IteratorsHold
      OBVIOUS
    <2>1. FramesInv /\ slots \in Seq(Ids)
      BY DEF SignalInv, TypeInv
    <2> QED
      BY <2>1, Listed DEF FramesInv, IteratorsHold
  <1> QED
    BY <1>1, SignalAlways, PTL

(* Between emissions every deferred connect and disconnect has been        *)
(* carried out, and no more than those.                                    *)
THEOREM SignalSettled == Spec => []Settled
PROOF
  <1>1. SignalInv => Settled
    BY SettledLists DEF Settled, SignalInv, ListsInv, ValidIds
  <1> QED
    BY <1>1, SignalAlways, PTL

(* An emission calls only slots that were connected when the outermost     *)
(* emission began.                                                         *)
THEOREM SignalCallsConnected == Spec => []CallsConnected
PROOF
  <1>1. SignalInv => CallsConnected
    <2> SUFFICES ASSUME SignalInv, NEW i \in DOMAIN frames
                 PROVE  frames[i].cursor \in frames[1].live
      BY DEF CallsConnected
    <2>1. FramesInv /\ frames # <<>>
      BY EmptySeq DEF SignalInv
    <2> QED
      BY <2>1 DEF FramesInv
  <1> QED
    BY <1>1, SignalAlways, PTL

-------------------------------------------------------------------------------
(* The zip.                                                                *)

AllOrNone == \A l \in Shapes : (\A r \in Ranges : l[r] = 0) \/ (\A r \in Ranges : l[r] > 0)

(* An inner iterator is between the begin and the end of its range, and an *)
(* iterator that has one inner iterator at the end has them all there.     *)
InRange == /\ lengths \in Shapes
           /\ pos \in [Iterators -> [Ranges -> Nat]]
           /\ StopsAtShortest

(* secure_next_ keeps to the ranges: it goes to an element of all of them, *)
(* or to the end of all.                                                   *)
LEMMA SecureNext ==
  ASSUME lengths \in [Ranges -> Nat], NEW p \in [Ranges -> Nat],
         \A r \in Ranges : p[r] < lengths[r]
  PROVE  /\ secure_next_(p) \in [Ranges -> Nat]
         /\ \/ secure_next_(p) = lengths
            \/ \A r \in Ranges : secure_next_(p)[r] < lengths[r]
<1>1. CASE end_detected(make_zip_tuple(next_iterator(p), end_iterator))
  BY <1>1 DEF secure_next_, end_iterator
<1>2. CASE ~end_detected(make_zip_tuple(next_iterator(p), end_iterator))
  <2>1. secure_next_(p) = [r \in Ranges |-> p[r] + 1]
    BY <1>2 DEF secure_next_, next_iterator
  <2>2. \A r \in Ranges : p[r] + 1 # lengths[r]
    BY <1>2 DEF end_detected, make_zip_tuple, next_iterator, end_iterator
  <2>3. \A r \in Ranges : p[r] + 1 \in Nat /\ p[r] + 1 < lengths[r]
    BY <2>2
  <2>4. QED BY <2>1, <2>3
<1>3. QED BY <1>1, <1>2

(* The inductive invariant, under the condition that begin() needs.        *)
THEOREM ZipInRange == ASSUME AllOrNone PROVE ZipSpec => []InRange
<1>1. ZipInit => InRange
  BY ZipAssumption DEF ZipInit, InRange, StopsAtShortest, end_iterator
<1>2. InRange /\ [ZipNext]_zip_vars => InRange'
  <2> SUFFICES ASSUME InRange, [ZipNext]_zip_vars PROVE InRange'
    OBVIOUS
  <2>1. lengths \in [Ranges -> Nat] /\ \A i \in Iterators : pos[i] \in [Ranges -> Nat]
    BY ZipAssumption DEF InRange
  <2> DEFINE Inside(p) == /\ p \in [Ranges -> Nat]
                          /\ p = lengths \/ \A r \in Ranges : p[r] < lengths[r]
  <2>2. \A i \in Iterators : Inside(pos[i])
    BY <2>1 DEF InRange, StopsAtShortest, Readable, end_iterator
  <2>3. SUFFICES /\ UNCHANGED lengths
                 /\ pos' \in [Iterators -> [Ranges -> Nat]]
                 /\ \A i \in Iterators : Inside(pos'[i])
    BY DEF InRange, StopsAtShortest, Readable, end_iterator
  <2>4. Inside(begin_iterator)
    <3>1. CASE \A r \in Ranges : lengths[r] = 0
      BY <2>1, <3>1 DEF begin_iterator
    <3>2. CASE \A r \in Ranges : lengths[r] > 0
      BY <3>2 DEF begin_iterator
    <3>3. QED BY <3>1, <3>2, AllOrNone DEF AllOrNone, InRange
  <2>5. Inside(end_iterator)
    BY <2>1 DEF end_iterator
  <2>6. \A i \in Iterators : pos[i] # end_iterator => Inside(secure_next_(pos[i]))
    BY <2>1, <2>2, SecureNext DEF end_iterator
  <2>7. ASSUME NEW i \in Iterators, \A r \in Ranges : pos[i][r] > 0
        PROVE  Inside(prev_iterator(pos[i]))
    <3>1. \A r \in Ranges : pos[i][r] - 1 \in Nat /\ pos[i][r] - 1 < lengths[r]
      BY <2>1, <2>2, <2>7
    <3>2. QED BY <3>1 DEF prev_iterator
  <2>8. CASE UNCHANGED zip_vars
    BY <2>2, <2>8 DEF zip_vars, InRange
  <2>9. ASSUME NEW i \in Iterators, begin(i) PROVE <2>3!1
    BY <2>2, <2>4, <2>9 DEF begin, InRange
  <2>10. ASSUME NEW i \in Iterators, end(i) PROVE <2>3!1
    BY <2>2, <2>5, <2>10 DEF end, InRange
  <2>11. ASSUME NEW i \in Iterators, Increment(i) PROVE <2>3!1
    BY <2>2, <2>6, <2>11 DEF Increment, InRange
  <2>12. ASSUME NEW i \in Iterators, Decrement(i) PROVE <2>3!1
    BY <2>2, <2>7, <2>12 DEF Decrement, InRange
  <2>13. ASSUME NEW i \in Iterators, NEW j \in Iterators, PostIncrement(i, j) PROVE <2>3!1
    BY <2>2, <2>6, <2>13 DEF PostIncrement, InRange
  <2>14. ASSUME NEW i \in Iterators, NEW j \in Iterators, PostDecrement(i, j) PROVE <2>3!1
    BY <2>2, <2>7, <2>14 DEF PostDecrement, InRange
  <2>15. QED BY <2>8, <2>9, <2>10, <2>11, <2>12, <2>13, <2>14 DEF ZipNext
<1>3. QED BY <1>1, <1>2, PTL DEF ZipSpec

(* The zip stops at the shortest range, if it is not one that is alone in  *)
(* being empty: begin() would not be end() then.                           *)
THEOREM ZipStopsAtShortest == ASSUME AllOrNone PROVE ZipSpec => []StopsAtShortest
<1>1. InRange => StopsAtShortest
  BY DEF InRange
<1>2. QED BY <1>1, ZipInRange, PTL

-------------------------------------------------------------------------------
(* Which elements are paired.                                              *)

(* The shortest length is one of the lengths, and none is below it.        *)
LEMMA ShortestIsALength ==
  ASSUME lengths \in [Ranges -> Nat]
  PROVE  /\ Shortest \in Nat
         /\ \E r \in Ranges : lengths[r] = Shortest
         /\ \A r \in Ranges : Shortest <= lengths[r]
<1> DEFINE All == {lengths[r] : r \in Ranges}
<1>1. All \in SUBSET Nat /\ All # {}
  BY ZipAssumption
<1> HIDE DEF All
<1>2. Min(All) \in All /\ \A k \in All : Min(All) <= k
  BY <1>1, MinOfNats
<1>3. Shortest \in All /\ \A k \in All : Shortest <= k
  BY <1>2 DEF Shortest, All
<1>4. QED BY <1>1, <1>3 DEF All

(* An iterator whose place is known is at that element of every range, or  *)
(* at the end of all when its place is behind the last pair.               *)
InStep(p, n) ==
  /\ n \in Int
  /\ n # Unknown => /\ 0 <= n /\ n <= Shortest
                    /\ p = IF n = Shortest THEN lengths ELSE [r \in Ranges |-> n]

StepInv == /\ InRange
           /\ nth \in [Iterators -> Int]
           /\ \A i \in Iterators : InStep(pos[i], nth[i])

LEMMA ForthInStep ==
  ASSUME StepInv, NEW i \in Iterators, pos[i] # end_iterator
  PROVE  InStep(secure_next_(pos[i]), Forth(i))
<1>1. /\ lengths \in [Ranges -> Nat] /\ pos[i] \in [Ranges -> Nat]
      /\ InStep(pos[i], nth[i]) /\ nth[i] \in Int
  BY ZipAssumption DEF StepInv, InRange
<1>2. /\ Shortest \in Nat
      /\ \E r \in Ranges : lengths[r] = Shortest
      /\ \A r \in Ranges : Shortest <= lengths[r]
  BY <1>1, ShortestIsALength
<1>3. CASE nth[i] = Unknown
  BY <1>3 DEF Forth, InStep, Unknown
<1>4. CASE nth[i] # Unknown
  <2>1. /\ nth[i] \in Nat /\ nth[i] < Shortest
        /\ pos[i] = [r \in Ranges |-> nth[i]]
    BY <1>1, <1>2, <1>4 DEF InStep, end_iterator
  <2>2. next_iterator(pos[i]) = [r \in Ranges |-> nth[i] + 1]
    BY <2>1 DEF next_iterator
  <2>3. end_detected(make_zip_tuple(next_iterator(pos[i]), end_iterator))
          <=> \E r \in Ranges : nth[i] + 1 = lengths[r]
    BY <2>2 DEF end_detected, make_zip_tuple, end_iterator
  <2>4. (\E r \in Ranges : nth[i] + 1 = lengths[r]) <=> nth[i] + 1 = Shortest
    <3>1. ASSUME NEW r \in Ranges, nth[i] + 1 = lengths[r] PROVE nth[i] + 1 = Shortest
      BY <1>1, <1>2, <2>1, <3>1
    <3>2. QED BY <1>2, <3>1
  <2>5. secure_next_(pos[i]) = IF nth[i] + 1 = Shortest THEN lengths
                               ELSE [r \in Ranges |-> nth[i] + 1]
    BY <2>2, <2>3, <2>4 DEF secure_next_, end_iterator
  <2>6. Forth(i) = nth[i] + 1
    BY <1>4 DEF Forth
  <2>7. nth[i] + 1 \in Int /\ 0 <= nth[i] + 1 /\ nth[i] + 1 <= Shortest
    BY <1>2, <2>1
  <2>8. QED BY <2>5, <2>6, <2>7 DEF InStep
<1>5. QED BY <1>3, <1>4

LEMMA BackInStep ==
  ASSUME StepInv, NEW i \in Iterators, \A r \in Ranges : pos[i][r] > 0
  PROVE  InStep(prev_iterator(pos[i]), Back(i))
<1>1. /\ lengths \in [Ranges -> Nat] /\ pos[i] \in [Ranges -> Nat]
      /\ InStep(pos[i], nth[i]) /\ nth[i] \in Int
  BY ZipAssumption DEF StepInv, InRange
<1>2. /\ Shortest \in Nat
      /\ \E r \in Ranges : lengths[r] = Shortest
      /\ \A r \in Ranges : Shortest <= lengths[r]
  BY <1>1, ShortestIsALength
<1>3. CASE Back(i) = Unknown
  BY <1>3 DEF InStep, Unknown
<1>4. CASE Back(i) # Unknown
  <2>1. /\ nth[i] # Unknown /\ Back(i) = nth[i] - 1
        /\ pos[i] = lengths => \A r \in Ranges : lengths[r] = Shortest
    BY <1>4 DEF Back, end_iterator
  <2>2. pos[i] = [r \in Ranges |-> nth[i]]
    <3>1. CASE nth[i] # Shortest
      BY <1>1, <2>1, <3>1 DEF InStep
    <3>2. CASE nth[i] = Shortest
      <4>1. pos[i] = lengths
        BY <1>1, <2>1, <3>2 DEF InStep
      <4>2. QED BY <1>1, <2>1, <3>2, <4>1
    <3>3. QED BY <3>1, <3>2
  <2>3. nth[i] > 0 /\ nth[i] <= Shortest
    <3>1. nth[i] <= Shortest
      BY <1>1, <2>1 DEF InStep
    <3>2. PICK r \in Ranges : TRUE
      BY ZipAssumption
    <3>3. QED BY <2>2, <3>1, <3>2
  <2>4. prev_iterator(pos[i]) = [r \in Ranges |-> nth[i] - 1]
    BY <2>2 DEF prev_iterator
  <2>5. QED BY <1>1, <1>2, <2>1, <2>3, <2>4 DEF InStep
<1>5. QED BY <1>3, <1>4

(* The inductive invariant. AllOrNone is what makes begin() the end() of a *)
(* zip with nothing to pair.                                               *)
THEOREM ZipInStep == ASSUME AllOrNone PROVE ZipSpec => []StepInv
<1>1. ZipInit /\ InRange => StepInv
  <2> SUFFICES ASSUME ZipInit, InRange PROVE StepInv
    OBVIOUS
  <2>1. lengths \in [Ranges -> Nat]
    BY ZipAssumption DEF InRange
  <2>2. Shortest \in Nat
    BY <2>1, ShortestIsALength
  <2>3. QED BY <2>2 DEF ZipInit, StepInv, InStep, end_iterator
<1>2. StepInv /\ InRange' /\ [ZipNext]_zip_vars => StepInv'
  <2> SUFFICES ASSUME StepInv, InRange', [ZipNext]_zip_vars PROVE StepInv'
    OBVIOUS
  <2>1. /\ lengths \in Shapes /\ lengths \in [Ranges -> Nat]
        /\ pos \in [Iterators -> [Ranges -> Nat]] /\ nth \in [Iterators -> Int]
        /\ \A i \in Iterators : InStep(pos[i], nth[i])
    BY ZipAssumption DEF StepInv, InRange
  <2>2. /\ Shortest \in Nat
        /\ \E r \in Ranges : lengths[r] = Shortest
        /\ \A r \in Ranges : Shortest <= lengths[r]
    BY <2>1, ShortestIsALength
  <2>3. SUFFICES /\ UNCHANGED lengths
                 /\ nth' \in [Iterators -> Int]
                 /\ \A i \in Iterators : InStep(pos'[i], nth'[i])
    BY DEF StepInv, InStep, Shortest
  <2>4. InStep(begin_iterator, 0)
    <3>1. CASE \A r \in Ranges : lengths[r] = 0
      BY <2>1, <2>2, <3>1 DEF InStep, begin_iterator
    <3>2. CASE \A r \in Ranges : lengths[r] > 0
      BY <2>2, <3>2 DEF InStep, begin_iterator
    <3>3. QED BY <2>1, <3>1, <3>2, AllOrNone DEF AllOrNone
  <2>5. InStep(end_iterator, Shortest)
    BY <2>2 DEF InStep, end_iterator
  <2>6. \A i \in Iterators : pos[i] # end_iterator => InStep(secure_next_(pos[i]), Forth(i))
    BY ForthInStep
  <2>7. \A i \in Iterators : (\A r \in Ranges : pos[i][r] > 0)
                             => InStep(prev_iterator(pos[i]), Back(i))
    BY BackInStep
  <2>8. \A p, n : InStep(p, n) => n \in Int
    BY DEF InStep
  <2> HIDE DEF InStep
  <2>9. CASE UNCHANGED zip_vars
    BY <2>1, <2>9 DEF zip_vars
  <2>10. ASSUME NEW i \in Iterators, begin(i) PROVE <2>3!1
    BY <2>1, <2>4, <2>8, <2>10 DEF begin
  <2>11. ASSUME NEW i \in Iterators, end(i) PROVE <2>3!1
    BY <2>1, <2>5, <2>8, <2>11 DEF end
  <2>12. ASSUME NEW i \in Iterators, Increment(i) PROVE <2>3!1
    BY <2>1, <2>6, <2>8, <2>12 DEF Increment
  <2>13. ASSUME NEW i \in Iterators, Decrement(i) PROVE <2>3!1
    BY <2>1, <2>7, <2>8, <2>13 DEF Decrement
  <2>14. ASSUME NEW i \in Iterators, NEW j \in Iterators, PostIncrement(i, j) PROVE <2>3!1
    BY <2>1, <2>6, <2>8, <2>14 DEF PostIncrement
  <2>15. ASSUME NEW i \in Iterators, NEW j \in Iterators, PostDecrement(i, j) PROVE <2>3!1
    BY <2>1, <2>7, <2>8, <2>15 DEF PostDecrement
  <2>16. QED BY <2>9, <2>10, <2>11, <2>12, <2>13, <2>14, <2>15 DEF ZipNext
<1>3. QED BY <1>1, <1>2, ZipInRange, PTL DEF ZipSpec

(* The loop from begin() pairs the n-th elements of all ranges for every n *)
(* below the length of the shortest, and is at end() then and not before   *)
(* (secure_next_); only from the end of unequal ranges does -- leave step. *)
THEOREM ZipPairsInStep == ASSUME AllOrNone PROVE ZipSpec => []PairsInStep
<1>1. StepInv => PairsInStep
  BY DEF StepInv, InStep, PairsInStep, end_iterator
<1>2. QED BY <1>1, ZipInStep, PTL
===============================================================================
