------------------------------- MODULE Any_proofs -------------------------------
(***************************************************************************)
(* What any and type_uid guarantee for any number of threads, types, anys  *)
(* and holders.                                                            *)
(***************************************************************************)
EXTENDS Any, FiniteSetTheorems, SequenceTheorems, TLAPS

-------------------------------------------------------------------------------
(* The inductive invariant.                                                *)

(* type_uid: the static of a type is initialised by one thread.            *)
UidTypes ==
  /\ counter \in Nat
  /\ guard \in [Types -> {"untouched", "running", "done"}]
  /\ id \in [Types -> Nat]
  /\ want \in [Threads -> Types \cup {NoType}]
  /\ upc \in [Threads -> {"idle", "guard", "load", "store", "init"}]
  /\ loaded \in [Threads -> Nat]
  /\ raced \in BOOLEAN
  /\ \A t \in Threads : upc[t] # "idle" => want[t] \in Types

Initialises(t) == upc[t] \in {"load", "store", "init"}

GuardInv ==
  /\ \A t \in Threads : Initialises(t) => guard[want[t]] = "running"
  /\ \A t, u \in Threads : Initialises(t) /\ Initialises(u) /\ want[t] = want[u] => t = u

(* The types that counter++ has given a number.                            *)
Numbered == {T \in Types : \/ guard[T] = "done"
                           \/ \E t \in Threads : upc[t] = "init" /\ want[t] = T}

(* While no two counter++ have met, the counter is how many of them there  *)
(* were, and the numbers they gave are distinct.                           *)
IdsInv == ~raced =>
  /\ \A t, u \in Threads : upc[t] = "store" /\ upc[u] = "store" => t = u
  /\ Numbered # Types => counter = Cardinality(Numbered)
  /\ \A t \in Threads : upc[t] = "store" => loaded[t] = counter
  /\ \A t \in Threads : upc[t] = "init" => loaded[t] < Cardinality(Numbered)
  /\ \A T \in Types : guard[T] = "done" => id[T] < Cardinality(Numbered)
  /\ \A T, U \in Types : guard[T] = "done" /\ guard[U] = "done" /\ id[T] = id[U] => T = U
  /\ \A T \in Types, t \in Threads : guard[T] = "done" /\ upc[t] = "init" => id[T] # loaded[t]
  /\ \A t, u \in Threads : upc[t] = "init" /\ upc[u] = "init" /\ loaded[t] = loaded[u] => t = u

UidInv == UidTypes /\ GuardInv /\ IdsInv

(* any: where a holder may be.                                             *)
HolderTypes ==
  /\ value \in [Anys -> Holders \cup {Null}]
  /\ object \in [Holders -> Types \cup {Free}]
  /\ made \in [Threads -> Holders \cup {Null}]
  /\ dying \in [Threads -> Seq(Holders)]

InAny(h)       == \E a \in Anys : value[a] = h
InHand(h)      == \E t \in Threads : made[t] = h
InDeletion(h)  == \E t \in Threads : \E i \in 1 .. Len(dying[t]) : dying[t][i] = h

OnePlace ==
  /\ \A a, b \in Anys : value[a] # Null /\ value[a] = value[b] => a = b
  /\ \A t, u \in Threads : made[t] # Null /\ made[t] = made[u] => t = u
  /\ \A t, u \in Threads : \A i \in 1 .. Len(dying[t]), j \in 1 .. Len(dying[u]) :
       dying[t][i] = dying[u][j] => t = u /\ i = j
  /\ \A h \in Holders : /\ ~ (InAny(h) /\ InHand(h))
                        /\ ~ (InAny(h) /\ InDeletion(h))
                        /\ ~ (InHand(h) /\ InDeletion(h))

Live == \A h \in Holders : object[h] # Free <=> InAny(h) \/ InHand(h) \/ InDeletion(h)

PlacesInv == HolderTypes /\ OnePlace /\ Live

(* The call of a thread: of its own anys, with no destructor under way;    *)
(* the holder it has made is of the type that it is to put or to copy.     *)
CallOK(t) ==
  /\ call[t] # NoCall =>
       /\ dying[t] = <<>> /\ query[t] = NoCall
       /\ Owner[call[t].to] = t
       /\ call[t].op # "put" => Owner[call[t].from] = t
  /\ made[t] # Null =>
       \/ call[t].op = "put" /\ object[made[t]] = call[t].what
       \/ /\ call[t].op = "copy" /\ call[t].from # call[t].to
          /\ value[call[t].from] # Null
          /\ object[made[t]] = object[value[call[t].from]]

CallInv == /\ call \in [Threads -> {NoCall} \cup Puts \cup Passes]
           /\ \A t \in Threads : CallOK(t)

Queries == [op : {"is"}, any : Anys, type : Types, ask : Types \X Types, ids : Seq(Nat)]

(* The is<T>() of a thread: the ids it has got are still those of the two  *)
(* types, and the any still holds the one that it compares T with.         *)
QueryOK(t) ==
  /\ query[t] = NoCall => upc[t] = "idle"
  /\ query[t] # NoCall =>
       /\ dying[t] = <<>> /\ call[t] = NoCall
       /\ Owner[query[t].any] = t /\ value[query[t].any] # Null
       /\ \/ query[t].ask = <<object[value[query[t].any]], query[t].type>>
          \/ query[t].ask = <<query[t].type, object[value[query[t].any]]>>
       /\ Len(query[t].ids) <= 2
       /\ \A n \in 1 .. Len(query[t].ids) : /\ guard[query[t].ask[n]] = "done"
                                            /\ id[query[t].ask[n]] = query[t].ids[n]
       /\ upc[t] # "idle" => /\ Len(query[t].ids) < 2
                             /\ want[t] = query[t].ask[Len(query[t].ids) + 1]

QueryInv == /\ query \in [Threads -> {NoCall} \cup Queries]
            /\ \A t \in Threads : QueryOK(t)

AnyInv == UidInv /\ PlacesInv /\ CallInv /\ QueryInv

-------------------------------------------------------------------------------
(* type_uid                                                                *)

LEMMA UidInvInit == UidInit => UidInv
PROOF
  <1> SUFFICES ASSUME UidInit PROVE UidInv
    OBVIOUS
  <1>1. UidTypes
    BY DEF UidInit, UidTypes
  <1>2. GuardInv
    BY DEF UidInit, GuardInv, Initialises
  <1>3. IdsInv
    <2>1. Numbered = {}
      BY DEF UidInit, Numbered
    <2>2. Cardinality(Numbered) = 0
      BY <2>1, FS_EmptySet
    <2> QED
      BY <2>1, <2>2 DEF UidInit, IdsInv
  <1> QED
    BY <1>1, <1>2, <1>3 DEF UidInv

LEMMA NumberedFinite ==
  /\ IsFiniteSet(Numbered) /\ Cardinality(Numbered) \in Nat
  /\ Cardinality(Numbered) <= IdMod
  /\ Numbered # Types => Cardinality(Numbered) < IdMod
PROOF
  <1>1. Numbered \in SUBSET Types
    BY DEF Numbered
  <1>2. /\ IsFiniteSet(Numbered)
        /\ Cardinality(Numbered) <= Cardinality(Types)
        /\ Cardinality(Types) = Cardinality(Numbered) => Types = Numbered
    BY <1>1, FS_Subset, TypeUidAssumption, Zenon
  <1>3. Cardinality(Numbered) \in Nat /\ Cardinality(Types) \in Nat
    BY <1>2, FS_CardinalityType, TypeUidAssumption
  <1> QED
    BY <1>2, <1>3, TypeUidAssumption

LEMMA UidStepTypes ==
  ASSUME UidTypes, GuardInv, NEW t \in Threads,
         (\E T \in Types : Get(t, T)) \/ Return(t) \/ Initialise(t)
  PROVE  UidTypes' /\ GuardInv'
PROOF
  <1> USE DEF UidTypes, GuardInv, Initialises, At, Goto
  <1>1. CASE \E T \in Types : Get(t, T)
    BY <1>1 DEF Get
  <1>2. CASE Return(t)
    BY <1>2 DEF Return
  <1>3. CASE GuardTake(t)
    BY <1>3 DEF GuardTake
  <1>4. CASE Load(t)
    BY <1>4 DEF Load
  <1>5. CASE Store(t)
    <2>1. (loaded[t] + 1) % IdMod \in Nat
      <3>1. IdMod > 0
        <4>1. Types # {}
          BY <1>5 DEF Store
        <4>2. Cardinality(Types) \in Nat /\ Cardinality(Types) # 0
          BY <4>1, FS_EmptySet, FS_CardinalityType, TypeUidAssumption
        <4> QED
          BY <4>2, TypeUidAssumption
      <3> QED
        BY <3>1, TypeUidAssumption
    <2> QED
      BY <1>5, <2>1 DEF Store
  <1>6. CASE GuardDone(t)
    BY <1>6 DEF GuardDone
  <1> QED
    BY <1>1, <1>2, <1>3, <1>4, <1>5, <1>6 DEF Initialise

(* A step that leaves the numbers alone.                                   *)
LEMMA UidStepIds ==
  ASSUME UidInv, NEW t \in Threads,
         (\E T \in Types : Get(t, T)) \/ Return(t) \/ Initialise(t)
  PROVE  IdsInv'
PROOF
  <1> USE DEF UidInv, UidTypes, GuardInv, Initialises, At, Goto
  <1> SUFFICES ASSUME ~raced' PROVE IdsInv'
    BY DEF IdsInv
  <1>0. ~raced
    BY DEF Get, Return, Initialise, GuardTake, Load, Store, GuardDone
  <1>1. CASE \E T \in Types : Get(t, T)
    <2>1. Numbered' = Numbered
      BY <1>1 DEF Get, Numbered
    <2> QED
      BY <1>0, <1>1, <2>1 DEF Get, IdsInv
  <1>2. CASE Return(t)
    <2>1. Numbered' = Numbered
      BY <1>2 DEF Return, Numbered
    <2> QED
      BY <1>0, <1>2, <2>1 DEF Return, IdsInv
  <1>3. CASE GuardTake(t)
    <2>1. Numbered' = Numbered
      BY <1>3 DEF GuardTake, Numbered
    <2> QED
      BY <1>0, <1>3, <2>1 DEF GuardTake, IdsInv
  <1>4. CASE Load(t)
    <2>1. Numbered' = Numbered
      BY <1>4 DEF Load, Numbered
    <2>2. \A u \in Threads : upc[u] # "store"
      BY <1>4 DEF Load
    <2> QED
      BY <1>0, <1>4, <2>1, <2>2 DEF Load, IdsInv
  <1>5. CASE Store(t)
    <2> DEFINE T == want[t]
    <2>1. T \in Types /\ guard[T] = "running" /\ T \notin Numbered
      BY <1>5 DEF Store, Numbered
    <2>2. Numbered' = Numbered \cup {T}
      BY <1>5, <2>1 DEF Store, Numbered
    <2>3. Cardinality(Numbered') = Cardinality(Numbered) + 1
      BY <2>1, <2>2, NumberedFinite, FS_AddElement
    <2>4. loaded[t] = Cardinality(Numbered)
      BY <1>0, <1>5, <2>1 DEF Store, IdsInv
    <2>5. Numbered' # Types => Cardinality(Numbered') < IdMod
      <3>1. Numbered' \in SUBSET Types
        BY <2>1, <2>2 DEF Numbered
      <3>2. IsFiniteSet(Types) /\ Cardinality(Types) \in Nat
        BY FS_CardinalityType, TypeUidAssumption
      <3>3. /\ Cardinality(Numbered') <= Cardinality(Types)
            /\ Cardinality(Types) = Cardinality(Numbered') => Types = Numbered'
        BY <3>1, <3>2, FS_Subset, Zenon
      <3> QED
        BY <3>2, <3>3, <2>3, NumberedFinite, TypeUidAssumption
    <2>6. Numbered' # Types => counter' = Cardinality(Numbered')
      <3>1. counter' = (loaded[t] + 1) % IdMod
        BY <1>5 DEF Store
      <3> QED
        BY <3>1, <2>3, <2>4, <2>5, NumberedFinite, TypeUidAssumption
    <2>7. Cardinality(Numbered) \in Nat
      BY NumberedFinite
    <2>8. \A u \in Threads : upc'[u] # "store"
      BY <1>0, <1>5 DEF Store, IdsInv
    <2>9. \A u \in Threads : upc'[u] = "init" => u = t \/ upc[u] = "init"
      BY <1>5 DEF Store
    <2> HIDE DEF T
    <2>10. /\ UNCHANGED <<guard, id, loaded>>
           /\ \A u \in Threads : u # t => upc'[u] = upc[u]
      BY <1>5 DEF Store
    <2>11. \A u \in Threads : upc'[u] = "init" => loaded'[u] < Cardinality(Numbered')
      BY <1>0, <2>3, <2>4, <2>7, <2>9, <2>10 DEF IdsInv
    <2>12. \A U \in Types : guard'[U] = "done" => id'[U] < Cardinality(Numbered')
      BY <1>0, <2>3, <2>7, <2>10 DEF IdsInv
    <2>13. \A U \in Types, u \in Threads :
             guard'[U] = "done" /\ upc'[u] = "init" => id'[U] # loaded'[u]
      BY <1>0, <2>4, <2>7, <2>9, <2>10 DEF IdsInv
    <2>14. \A v, u \in Threads :
             upc'[v] = "init" /\ upc'[u] = "init" /\ loaded'[v] = loaded'[u] => v = u
      BY <1>0, <2>4, <2>7, <2>9, <2>10 DEF IdsInv
    <2>15. \A U, V \in Types :
             guard'[U] = "done" /\ guard'[V] = "done" /\ id'[U] = id'[V] => U = V
      BY <1>0, <2>10 DEF IdsInv
    <2> QED
      BY <2>6, <2>8, <2>11, <2>12, <2>13, <2>14, <2>15 DEF IdsInv
  <1>6. CASE GuardDone(t)
    <2>1. Numbered' = Numbered
      BY <1>6 DEF GuardDone, Numbered
    <2>2. want[t] \in Types /\ guard[want[t]] = "running"
      BY <1>6 DEF GuardDone
    <2>3. \A u \in Threads : upc'[u] = "init" => u # t /\ upc[u] = "init"
                                                 /\ loaded'[u] = loaded[u]
      BY <1>6 DEF GuardDone
    <2>4. \A U \in Types : guard'[U] = "done" =>
            IF U = want[t] THEN id'[U] = loaded[t]
                           ELSE guard[U] = "done" /\ id'[U] = id[U]
      BY <1>6, <2>2 DEF GuardDone
    <2>5. upc[t] = "init" /\ counter' = counter
      BY <1>6 DEF GuardDone
    <2>6. \A u \in Threads : upc'[u] = "store" => upc[u] = "store" /\ u # t
                                                  /\ loaded'[u] = loaded[u]
      BY <1>6 DEF GuardDone
    <2> QED
      BY <1>0, <2>1, <2>2, <2>3, <2>4, <2>5, <2>6, NumberedFinite DEF IdsInv
  <1> QED
    BY <1>1, <1>2, <1>3, <1>4, <1>5, <1>6 DEF Initialise

LEMMA UidStep ==
  ASSUME UidInv, NEW t \in Threads,
         (\E T \in Types : Get(t, T)) \/ Return(t) \/ Initialise(t)
  PROVE  UidInv'
PROOF
  BY UidStepTypes, UidStepIds DEF UidInv

LEMMA UidStutter == ASSUME UidInv, UNCHANGED uidVars PROVE UidInv'
PROOF
  BY DEF uidVars, UidInv, UidTypes, GuardInv, Initialises, IdsInv, Numbered

-------------------------------------------------------------------------------
(* any: every holder has one place.                                        *)

LEMMA FrontProperties ==
  ASSUME NEW S, NEW seq \in Seq(S), seq # <<>>
  PROVE  /\ Len(seq) \in Nat \ {0}
         /\ Last(seq) = seq[Len(seq)] /\ Last(seq) \in S
         /\ Front(seq) \in Seq(S) /\ Len(Front(seq)) = Len(seq) - 1
         /\ \A i \in 1 .. Len(seq) - 1 : Front(seq)[i] = seq[i]
PROOF
  <1>1. Len(seq) \in Nat /\ Len(seq) # 0
    BY EmptySeq
  <1>2. \A i \in 1 .. Len(seq) : seq[i] \in S
    BY ElementOfSeq
  <1>3. Last(seq) = seq[Len(seq)] /\ Last(seq) \in S
    BY <1>1, <1>2 DEF Last
  <1>4. Front(seq) = [i \in 1 .. Len(seq) - 1 |-> seq[i]]
    BY <1>1 DEF Front
  <1>5. Front(seq) \in [1 .. Len(seq) - 1 -> S]
    BY <1>1, <1>2, <1>4
  <1>6. Front(seq) \in Seq(S) /\ Len(Front(seq)) = Len(seq) - 1
    BY <1>1, <1>5, <1>4
  <1> QED
    BY <1>1, <1>3, <1>4, <1>6

LEMMA PlacesInvInit == Init => PlacesInv
PROOF
  <1> SUFFICES ASSUME Init PROVE PlacesInv
    OBVIOUS
  <1>1. HolderTypes
    BY DEF Init, HolderTypes
  <1>2. \A t \in Threads : dying[t] = <<>> /\ Len(dying[t]) = 0
    BY DEF Init
  <1>3. \A h \in Holders : ~InAny(h) /\ ~InHand(h) /\ ~InDeletion(h)
    BY <1>2, AnyAssumption DEF Init, InAny, InHand, InDeletion
  <1>4. OnePlace
    BY <1>2, <1>3 DEF Init, OnePlace
  <1>5. Live
    BY <1>3 DEF Init, Live
  <1> QED
    BY <1>1, <1>4, <1>5 DEF PlacesInv

(* What unique_ptr::reset does to the list of deletions.                   *)
LEMMA ReplaceDying ==
  ASSUME PlacesInv, NEW t \in Threads, NEW a \in Anys, NEW f, Replace(t, f, a)
  PROVE  /\ dying' \in [Threads -> Seq(Holders)]
         /\ \A u \in Threads : u # t \/ value[a] = Null => dying'[u] = dying[u]
         /\ value[a] # Null =>
              /\ Len(dying'[t]) = Len(dying[t]) + 1
              /\ \A i \in 1 .. Len(dying[t]) : dying'[t][i] = dying[t][i]
              /\ dying'[t][Len(dying[t]) + 1] = value[a]
PROOF
  <1> USE DEF PlacesInv, HolderTypes
  <1>1. CASE value[a] = Null
    BY <1>1 DEF Replace, empty
  <1>2. CASE value[a] # Null
    <2>1. dying' = [dying EXCEPT ![t] = Append(dying[t], value[a])]
      BY <1>2 DEF Replace, empty
    <2>2. value[a] \in Holders /\ dying[t] \in Seq(Holders)
      BY <1>2
    <2>3. /\ Append(dying[t], value[a]) \in Seq(Holders)
          /\ Len(Append(dying[t], value[a])) = Len(dying[t]) + 1
          /\ \A i \in 1 .. Len(dying[t]) : Append(dying[t], value[a])[i] = dying[t][i]
          /\ Append(dying[t], value[a])[Len(dying[t]) + 1] = value[a]
      BY <2>2, AppendProperties
    <2>4. dying' \in [Threads -> Seq(Holders)]
      BY <2>1, <2>3
    <2>5. dying'[t] = Append(dying[t], value[a])
      BY <2>1
    <2> HIDE DEF PlacesInv, HolderTypes
    <2>6. /\ Len(dying'[t]) = Len(dying[t]) + 1
          /\ \A i \in 1 .. Len(dying[t]) : dying'[t][i] = dying[t][i]
          /\ dying'[t][Len(dying[t]) + 1] = value[a]
      BY <2>3, <2>5
    <2>7. \A u \in Threads : u # t => dying'[u] = dying[u]
      BY <2>1 DEF PlacesInv, HolderTypes
    <2> QED
      BY <1>2, <2>4, <2>6, <2>7
  <1> QED
    BY <1>1, <1>2

(* reset puts the holder that the any had among the deletions, and takes   *)
(* it out of the anys; whatever else f does stays to be said.              *)
LEMMA ReplacePlaces ==
  ASSUME PlacesInv, NEW t \in Threads, NEW a \in Anys, NEW f, Replace(t, f, a)
  PROVE  /\ \A h \in Holders : InDeletion(h)' <=> InDeletion(h) \/ h = value[a]
         /\ \A u, v \in Threads : \A i \in 1 .. Len(dying'[u]), j \in 1 .. Len(dying'[v]) :
              dying'[u][i] = dying'[v][j] => u = v /\ i = j
PROOF
  <1> DEFINE n == Len(dying[t])
  <1>0. Null \notin Holders
    BY AnyAssumption
  <1>1. /\ \A u \in Threads : u # t \/ value[a] = Null => dying'[u] = dying[u]
        /\ value[a] # Null =>
              /\ Len(dying'[t]) = n + 1
              /\ \A i \in 1 .. n : dying'[t][i] = dying[t][i]
              /\ dying'[t][n + 1] = value[a]
    BY ReplaceDying
  <1>2. n \in Nat
    BY DEF PlacesInv, HolderTypes
  <1>3. value[a] # Null => value[a] \in Holders /\ InAny(value[a]) /\ ~InDeletion(value[a])
    BY DEF PlacesInv, HolderTypes, OnePlace, InAny
  <1>4. value[a] # Null => \A u \in Threads : \A i \in 1 .. Len(dying[u]) : dying[u][i] # value[a]
    BY <1>3 DEF InDeletion
  <1>5. \A u, v \in Threads : \A i \in 1 .. Len(dying[u]), j \in 1 .. Len(dying[v]) :
              dying[u][i] = dying[v][j] => u = v /\ i = j
    BY DEF PlacesInv, OnePlace
  <1> HIDE DEF n
  <1>6. CASE value[a] = Null
    BY <1>0, <1>1, <1>5, <1>6 DEF InDeletion
  <1>7. CASE value[a] # Null
    <2>1. Len(dying[t]) = n
      BY DEF n
    <2>2. \A i \in 1 .. n + 1 : i = n + 1 \/ i \in 1 .. n
      BY <1>2
    <2>3. n + 1 \in 1 .. n + 1 /\ \A i \in 1 .. n : i \in 1 .. n + 1
      BY <1>2
    <2>4. \A u \in Threads : \A i \in 1 .. Len(dying'[u]) :
            \/ u = t /\ i = n + 1 /\ dying'[u][i] = value[a]
            \/ i \in 1 .. Len(dying[u]) /\ dying'[u][i] = dying[u][i]
      BY <1>1, <1>7, <2>1, <2>2
    <2>5. \A u \in Threads : \A i \in 1 .. Len(dying[u]) :
            i \in 1 .. Len(dying'[u]) /\ dying'[u][i] = dying[u][i]
      BY <1>1, <1>7, <2>1, <2>3
    <2>6. \A h \in Holders : InDeletion(h)' <=> InDeletion(h) \/ h = value[a]
      <3> SUFFICES ASSUME NEW h \in Holders
                   PROVE  InDeletion(h)' <=> InDeletion(h) \/ h = value[a]
        OBVIOUS
      <3>1. InDeletion(h)' => InDeletion(h) \/ h = value[a]
        BY <2>4, Zenon DEF InDeletion
      <3>2. InDeletion(h) => InDeletion(h)'
        BY <2>5, Zenon DEF InDeletion
      <3>3. h = value[a] => InDeletion(h)'
        BY <1>1, <1>7, <2>3 DEF InDeletion
      <3> QED
        BY <3>1, <3>2, <3>3
    <2>7. \A u, v \in Threads : \A i \in 1 .. Len(dying'[u]), j \in 1 .. Len(dying'[v]) :
              dying'[u][i] = dying'[v][j] => u = v /\ i = j
      BY <1>4, <1>5, <1>7, <2>4
    <2> QED
      BY <2>6, <2>7
  <1> QED
    BY <1>6, <1>7

(* An any gives up its holder.                                             *)
LEMMA ResetPlaces ==
  ASSUME PlacesInv, NEW t \in Threads, NEW a \in Anys,
         Replace(t, [value EXCEPT ![a] = Null], a), UNCHANGED <<object, made>>
  PROVE  PlacesInv'
PROOF
  <1>1. value' = [value EXCEPT ![a] = Null]
    BY DEF Replace
  <1>2. HolderTypes'
    BY <1>1, ReplaceDying DEF PlacesInv, HolderTypes
  <1>3. \A h \in Holders : /\ InHand(h)' <=> InHand(h)
                           /\ InAny(h)' <=> InAny(h) /\ h # value[a]
    BY <1>1, AnyAssumption DEF InAny, InHand, PlacesInv, HolderTypes, OnePlace
  <1>4. \A h \in Holders : InDeletion(h)' <=> InDeletion(h) \/ h = value[a]
    BY ReplacePlaces
  <1>5. \A h \in Holders : h = value[a] => InAny(h)
    BY DEF InAny
  <1>6. OnePlace'
    <2>1. \A c, b \in Anys : value'[c] # Null /\ value'[c] = value'[b] => c = b
      BY <1>1 DEF PlacesInv, HolderTypes, OnePlace
    <2>2. \A u, v \in Threads : made'[u] # Null /\ made'[u] = made'[v] => u = v
      BY DEF PlacesInv, OnePlace
    <2> QED
      BY <2>1, <2>2, <1>3, <1>4, <1>5, ReplacePlaces DEF PlacesInv, OnePlace
  <1>7. Live'
    BY <1>3, <1>4, <1>5 DEF PlacesInv, Live
  <1> QED
    BY <1>2, <1>6, <1>7 DEF PlacesInv

(* A destructor returns: its holder is free.                               *)
LEMMA DestructorPlaces ==
  ASSUME PlacesInv, NEW t \in Threads, DestructorEnds(t)
  PROVE  PlacesInv'
PROOF
  <1> DEFINE n == Len(dying[t])
             g == Last(dying[t])
  <1>1. /\ dying[t] \in Seq(Holders) /\ dying[t] # <<>>
        /\ dying' = [dying EXCEPT ![t] = Front(dying[t])]
        /\ object' = [object EXCEPT ![g] = Free]
        /\ UNCHANGED <<value, made>>
    BY DEF PlacesInv, HolderTypes, DestructorEnds
  <1>2. /\ n \in Nat \ {0} /\ g = dying[t][n] /\ g \in Holders
        /\ Front(dying[t]) \in Seq(Holders) /\ Len(Front(dying[t])) = n - 1
        /\ \A i \in 1 .. n - 1 : Front(dying[t])[i] = dying[t][i]
    BY <1>1, FrontProperties
  <1>3. HolderTypes'
    BY <1>1, <1>2 DEF PlacesInv, HolderTypes
  <1>4. Len(dying[t]) = n
    OBVIOUS
  <1> HIDE DEF n, g
  <1>5. dying'[t] = Front(dying[t]) /\ \A u \in Threads : u # t => dying'[u] = dying[u]
    BY <1>1 DEF PlacesInv, HolderTypes
  <1>6. \A u \in Threads : \A i \in 1 .. Len(dying'[u]) :
          /\ i \in 1 .. Len(dying[u]) /\ dying'[u][i] = dying[u][i]
          /\ u # t \/ i # n
    <2>1. \A i \in 1 .. n - 1 : i \in 1 .. n /\ i # n
      BY <1>2
    <2>2. Len(dying'[t]) = n - 1 /\ \A i \in 1 .. n - 1 : dying'[t][i] = dying[t][i]
      BY <1>2, <1>5
    <2> QED
      BY <1>4, <1>5, <2>1, <2>2
  <1>7. \A u \in Threads : \A i \in 1 .. Len(dying[u]) :
          \/ u = t /\ i = n
          \/ i \in 1 .. Len(dying'[u]) /\ dying'[u][i] = dying[u][i]
    <2>1. \A i \in 1 .. n : i = n \/ i \in 1 .. n - 1
      BY <1>2
    <2>2. Len(dying'[t]) = n - 1 /\ \A i \in 1 .. n - 1 : dying'[t][i] = dying[t][i]
      BY <1>2, <1>5
    <2> QED
      BY <1>4, <1>5, <2>1, <2>2
  <1>8. n \in 1 .. Len(dying[t]) /\ InDeletion(g)
    BY <1>2, <1>4 DEF InDeletion
  <1>9. \A h \in Holders : InDeletion(h)' <=> InDeletion(h) /\ h # g
    <2> SUFFICES ASSUME NEW h \in Holders
                 PROVE  InDeletion(h)' <=> InDeletion(h) /\ h # g
      OBVIOUS
    <2>1. InDeletion(h)' => InDeletion(h)
      BY <1>6 DEF InDeletion
    <2>2. InDeletion(h)' => h # g
      BY <1>2, <1>6, <1>8 DEF InDeletion, PlacesInv, OnePlace
    <2>3. InDeletion(h) /\ h # g => InDeletion(h)'
      BY <1>2, <1>7 DEF InDeletion
    <2> QED
      BY <2>1, <2>2, <2>3
  <1>10. \A h \in Holders : (InAny(h)' <=> InAny(h)) /\ (InHand(h)' <=> InHand(h))
    BY <1>1 DEF InAny, InHand
  <1>11. OnePlace'
    <2>1. \A u, v \in Threads : \A i \in 1 .. Len(dying'[u]), j \in 1 .. Len(dying'[v]) :
              dying'[u][i] = dying'[v][j] => u = v /\ i = j
      BY <1>6 DEF PlacesInv, OnePlace
    <2> QED
      BY <1>1, <1>9, <1>10, <2>1 DEF PlacesInv, OnePlace
  <1>12. Live'
    <2>1. \A h \in Holders : object'[h] # Free <=> object[h] # Free /\ h # g
      BY <1>1, <1>2 DEF PlacesInv, HolderTypes
    <2>2. ~InAny(g) /\ ~InHand(g)
      BY <1>2, <1>8 DEF PlacesInv, OnePlace
    <2> QED
      BY <1>2, <1>9, <1>10, <2>1, <2>2 DEF PlacesInv, Live
  <1> QED
    BY <1>3, <1>11, <1>12 DEF PlacesInv

(* The calls of a thread are about its own anys.                           *)
LEMMA CallShape ==
  ASSUME CallInv, NEW t \in Threads
  PROVE  /\ call[t].op \in {"put", "copy", "move"} <=> call[t] # NoCall
         /\ call[t] # NoCall => call[t].to \in Anys /\ Owner[call[t].to] = t
         /\ call[t].op = "put" => call[t] \in Puts /\ call[t].what \in Types
         /\ call[t].op \in {"copy", "move"} =>
              /\ call[t] \in Passes
              /\ call[t].from \in Anys /\ Owner[call[t].from] = t
         /\ made[t] # Null => call[t] # NoCall
PROOF
  <1>1. call[t] = NoCall => call[t].op = "none"
    BY DEF NoCall
  <1>2. call[t] \in Puts => call[t].op = "put" /\ call[t].to \in Anys /\ call[t].what \in Types
    BY DEF Puts
  <1>3. call[t] \in Passes => /\ call[t].op \in {"copy", "move"}
                              /\ call[t].to \in Anys /\ call[t].from \in Anys
    BY DEF Passes
  <1> QED
    BY <1>1, <1>2, <1>3 DEF CallInv, CallOK

LEMMA HeldTypes ==
  ASSUME PlacesInv
  PROVE  /\ \A a \in Anys : value[a] # Null => value[a] \in Holders /\ object[value[a]] \in Types
         /\ \A t \in Threads : made[t] # Null => made[t] \in Holders /\ object[made[t]] \in Types
PROOF
  <1>1. \A h \in Holders : InAny(h) \/ InHand(h) => object[h] \in Types
    BY DEF PlacesInv, Live, HolderTypes
  <1>2. \A a \in Anys : value[a] # Null => value[a] \in Holders /\ InAny(value[a])
    BY DEF PlacesInv, HolderTypes, InAny
  <1>3. \A t \in Threads : made[t] # Null => made[t] \in Holders /\ InHand(made[t])
    BY DEF PlacesInv, HolderTypes, InHand
  <1> QED
    BY <1>1, <1>2, <1>3

(* The type of the holder that a call makes.                               *)
MadeType(t) == IF call[t].op = "put" THEN call[t].what ELSE object[value[call[t].from]]

LEMMA MakeEffect ==
  ASSUME PlacesInv, CallInv, NEW t \in Threads, Make(t)
  PROVE  /\ MadeType(t) \in Types
         /\ \E h \in Holders : /\ object[h] = Free
                               /\ object' = [object EXCEPT ![h] = MadeType(t)]
                               /\ made' = [made EXCEPT ![t] = h]
         /\ made[t] = Null
         /\ UNCHANGED <<value, dying, call, query>>
PROOF
  <1>1. MadeType(t) \in Types
    <2>1. CASE call[t].op = "put"
      BY <2>1, CallShape DEF MadeType
    <2>2. CASE call[t].op # "put"
      <3>1. call[t].op = "copy" /\ value[call[t].from] # Null
        BY <2>2 DEF Make, Makes, empty
      <3> QED
        BY <3>1, CallShape, HeldTypes DEF MadeType
    <2> QED
      BY <2>1, <2>2
  <1>2. \E h \in Holders : /\ object[h] = Free
                           /\ object' = [object EXCEPT ![h] = MadeType(t)]
                           /\ made' = [made EXCEPT ![t] = h]
    BY DEF Make, MadeType
  <1> QED
    BY <1>1, <1>2 DEF Make, Makes

(* A new holder is one that was free.                                      *)
LEMMA MakePlaces ==
  ASSUME PlacesInv, CallInv, NEW t \in Threads, Make(t)
  PROVE  PlacesInv'
PROOF
  <1>1. PICK g \in Holders : /\ object[g] = Free
                             /\ object' = [object EXCEPT ![g] = MadeType(t)]
                             /\ made' = [made EXCEPT ![t] = g]
    BY MakeEffect
  <1>2. UNCHANGED <<value, dying>> /\ made[t] = Null /\ MadeType(t) \in Types
    BY MakeEffect
  <1>3. HolderTypes'
    BY <1>1, <1>2 DEF PlacesInv, HolderTypes
  <1>4. ~InAny(g) /\ ~InHand(g) /\ ~InDeletion(g)
    BY <1>1 DEF PlacesInv, Live
  <1>5. \A h \in Holders : /\ InAny(h)' <=> InAny(h)
                           /\ InDeletion(h)' <=> InDeletion(h)
    BY <1>2 DEF InAny, InDeletion
  <1>6. \A h \in Holders : InHand(h)' <=> InHand(h) \/ h = g
    BY <1>1, <1>2, AnyAssumption DEF InHand, PlacesInv, HolderTypes
  <1>7. OnePlace'
    <2>1. \A u, v \in Threads : made'[u] # Null /\ made'[u] = made'[v] => u = v
      BY <1>1, <1>4 DEF PlacesInv, OnePlace, HolderTypes, InHand
    <2> QED
      BY <1>2, <1>4, <1>5, <1>6, <2>1 DEF PlacesInv, OnePlace
  <1>8. Live'
    <2>1. \A h \in Holders : object'[h] # Free <=> object[h] # Free \/ h = g
      BY <1>1, <1>2, AnyAssumption DEF PlacesInv, HolderTypes
    <2> QED
      BY <1>4, <1>5, <1>6, <2>1 DEF PlacesInv, Live
  <1> QED
    BY <1>3, <1>7, <1>8 DEF PlacesInv

(* The new holder takes the place of the old one, which is to be deleted.  *)
LEMMA InstallPlaces ==
  ASSUME PlacesInv, CallInv, NEW t \in Threads, Install(t)
  PROVE  PlacesInv'
PROOF
  <1> DEFINE a == call[t].to
             f == [value EXCEPT ![a] = made[t]]
  <1>1. a \in Anys /\ made[t] \in Holders /\ made[t] # Null
    BY CallShape DEF Install, PlacesInv, HolderTypes
  <1>2. Replace(t, f, a) /\ value' = f
    BY DEF Install, Replace
  <1>3. made' = [made EXCEPT ![t] = Null] /\ object' = object
    BY DEF Install
  <1>4. HolderTypes'
    BY <1>1, <1>2, <1>3, ReplaceDying DEF PlacesInv, HolderTypes
  <1>5. /\ \A h \in Holders : InDeletion(h)' <=> InDeletion(h) \/ h = value[a]
        /\ \A u, v \in Threads : \A i \in 1 .. Len(dying'[u]), j \in 1 .. Len(dying'[v]) :
             dying'[u][i] = dying'[v][j] => u = v /\ i = j
    BY <1>1, <1>2, ReplacePlaces
  <1>6. /\ value'[a] = made[t]
        /\ \A b \in Anys : b # a => value'[b] = value[b]
        /\ made'[t] = Null
        /\ \A u \in Threads : u # t => made'[u] = made[u]
    BY <1>1, <1>2, <1>3 DEF PlacesInv, HolderTypes
  <1> HIDE DEF a, f
  <1>7. InHand(made[t]) /\ ~InAny(made[t]) /\ ~InDeletion(made[t])
    BY <1>1 DEF PlacesInv, OnePlace, InHand
  <1>8. \A h \in Holders : h = value[a] => InAny(h) /\ h # made[t]
    BY <1>1, <1>7 DEF InAny
  <1>9. \A h \in Holders : InAny(h)' <=> (InAny(h) /\ h # value[a]) \/ h = made[t]
    BY <1>1, <1>6, AnyAssumption DEF InAny, PlacesInv, OnePlace
  <1>10. \A h \in Holders : InHand(h)' <=> InHand(h) /\ h # made[t]
    BY <1>1, <1>6, AnyAssumption DEF InHand, PlacesInv, OnePlace
  <1>11. OnePlace'
    <2>1. \A c, b \in Anys : value'[c] # Null /\ value'[c] = value'[b] => c = b
      BY <1>1, <1>6, <1>7 DEF PlacesInv, OnePlace, InAny
    <2>2. \A u, v \in Threads : made'[u] # Null /\ made'[u] = made'[v] => u = v
      BY <1>6 DEF PlacesInv, OnePlace
    <2> QED
      BY <1>5, <1>7, <1>8, <1>9, <1>10, <2>1, <2>2 DEF PlacesInv, OnePlace
  <1>12. Live'
    BY <1>3, <1>5, <1>7, <1>8, <1>9, <1>10 DEF PlacesInv, Live
  <1> QED
    BY <1>4, <1>11, <1>12 DEF PlacesInv

(* A move: the holder of one any becomes the other's.                      *)
LEMMA MovePlaces ==
  ASSUME PlacesInv, CallInv, NEW t \in Threads, Move(t)
  PROVE  PlacesInv'
PROOF
  <1> DEFINE a == call[t].to
             b == call[t].from
             f == [value EXCEPT ![b] = Null, ![a] = value[b]]
  <1>1. a \in Anys /\ b \in Anys /\ a # b
    BY CallShape DEF Move
  <1>2. Replace(t, f, a) /\ value' = f
    BY DEF Move, Replace
  <1>3. made' = made /\ object' = object
    BY DEF Move
  <1>4. HolderTypes'
    BY <1>1, <1>2, <1>3, ReplaceDying DEF PlacesInv, HolderTypes
  <1>5. /\ \A h \in Holders : InDeletion(h)' <=> InDeletion(h) \/ h = value[a]
        /\ \A u, v \in Threads : \A i \in 1 .. Len(dying'[u]), j \in 1 .. Len(dying'[v]) :
             dying'[u][i] = dying'[v][j] => u = v /\ i = j
    BY <1>1, <1>2, ReplacePlaces
  <1>6. /\ value'[a] = value[b] /\ value'[b] = Null
        /\ \A c \in Anys : c # a /\ c # b => value'[c] = value[c]
    BY <1>1, <1>2 DEF PlacesInv, HolderTypes
  <1> HIDE DEF a, b, f
  <1>7. \A h \in Holders : h = value[a] => InAny(h)
    BY <1>1 DEF InAny
  <1>8. \A h \in Holders : InAny(h)' <=> InAny(h) /\ h # value[a]
    <2> SUFFICES ASSUME NEW h \in Holders
                 PROVE  InAny(h)' <=> InAny(h) /\ h # value[a]
      OBVIOUS
    <2>0. h # Null
      BY AnyAssumption
    <2>1. ASSUME NEW c \in Anys, value'[c] = h PROVE InAny(h) /\ h # value[a]
      <3>1. CASE c = a
        BY <3>1, <2>0, <2>1, <1>1, <1>6 DEF PlacesInv, OnePlace, InAny
      <3>2. CASE c # a
        BY <3>2, <2>0, <2>1, <1>1, <1>6 DEF PlacesInv, OnePlace, InAny
      <3> QED
        BY <3>1, <3>2
    <2>2. ASSUME NEW c \in Anys, value[c] = h, h # value[a] PROVE InAny(h)'
      <3>1. CASE c = b
        BY <3>1, <2>2, <1>1, <1>6 DEF InAny
      <3>2. CASE c # b
        BY <3>2, <2>2, <1>1, <1>6 DEF InAny
      <3> QED
        BY <3>1, <3>2
    <2> QED
      BY <2>1, <2>2 DEF InAny
  <1>9. \A h \in Holders : InHand(h)' <=> InHand(h)
    BY <1>3 DEF InHand
  <1>10. OnePlace'
    <2>1. \A c, d \in Anys : value'[c] # Null /\ value'[c] = value'[d] => c = d
      BY <1>1, <1>6 DEF PlacesInv, OnePlace
    <2>2. \A u, v \in Threads : made'[u] # Null /\ made'[u] = made'[v] => u = v
      BY <1>3 DEF PlacesInv, OnePlace
    <2> QED
      BY <1>5, <1>7, <1>8, <1>9, <2>1, <2>2 DEF PlacesInv, OnePlace
  <1>11. Live'
    BY <1>3, <1>5, <1>7, <1>8, <1>9 DEF PlacesInv, Live
  <1> QED
    BY <1>4, <1>10, <1>11 DEF PlacesInv

(* Every step of any keeps every holder in one place.                      *)
LEMMA PlacesStep ==
  ASSUME AnyInv, NEW t \in Threads, Step(t)
  PROVE  PlacesInv'
PROOF
  <1> USE DEF AnyInv
  <1>1. CASE ResetCall(t) \/ DestructorResets(t)
    <2>1. PICK a \in Anys : Replace(t, [value EXCEPT ![a] = Null], a)
      BY <1>1 DEF ResetCall, DestructorResets
    <2> QED
      BY <1>1, <2>1, ResetPlaces DEF ResetCall, DestructorResets
  <1>2. CASE CopyEmpty(t)
    <2>1. call[t].to \in Anys
      BY <1>2, CallShape DEF CopyEmpty
    <2> QED
      BY <1>2, <2>1, ResetPlaces DEF CopyEmpty
  <1>3. CASE DestructorEnds(t)
    BY <1>3, DestructorPlaces
  <1>4. CASE Make(t)
    BY <1>4, MakePlaces
  <1>5. CASE Install(t)
    BY <1>5, InstallPlaces
  <1>6. CASE Move(t)
    BY <1>6, MovePlaces
  <1>7. CASE UNCHANGED <<value, object, made, dying>>
    <2>1. HolderTypes'
      BY <1>7 DEF PlacesInv, HolderTypes
    <2>2. \A h \in Holders : /\ InAny(h)' <=> InAny(h)
                             /\ InHand(h)' <=> InHand(h)
                             /\ InDeletion(h)' <=> InDeletion(h)
      BY <1>7 DEF InAny, InHand, InDeletion
    <2>3. OnePlace'
      BY <1>7, <2>2 DEF PlacesInv, OnePlace
    <2>4. Live'
      BY <1>7, <2>2 DEF PlacesInv, Live
    <2> QED
      BY <2>1, <2>3, <2>4 DEF PlacesInv
  <1> QED
    BY <1>1, <1>2, <1>3, <1>4, <1>5, <1>6, <1>7
    DEF Step, Assignment, Is, MakeThrows, SelfAssignment, Ask, Answered, IsReturns, anyVars

-------------------------------------------------------------------------------
(* any: what the calls and questions of a thread rely on.                  *)

(* The value in a holder stays while an any or a call has the holder.      *)
LEMMA ObjectStays ==
  ASSUME AnyInv, NEW t \in Threads, Step(t)
  PROVE  \A h \in Holders : InAny(h) \/ InHand(h) => object'[h] = object[h]
PROOF
  <1> USE DEF AnyInv
  <1>1. CASE DestructorEnds(t)
    <2>1. /\ dying[t] \in Seq(Holders) /\ dying[t] # <<>>
          /\ object' = [object EXCEPT ![Last(dying[t])] = Free]
      BY <1>1 DEF PlacesInv, HolderTypes, DestructorEnds
    <2>2. Last(dying[t]) \in Holders /\ InDeletion(Last(dying[t]))
      <3>1. Len(dying[t]) \in 1 .. Len(dying[t])
        BY <2>1, FrontProperties
      <3> QED
        BY <2>1, <3>1, FrontProperties DEF InDeletion
    <2> QED
      BY <2>1, <2>2 DEF PlacesInv, HolderTypes, OnePlace
  <1>2. CASE Make(t)
    <2>1. PICK g \in Holders : /\ object[g] = Free
                               /\ object' = [object EXCEPT ![g] = MadeType(t)]
      BY <1>2, MakeEffect
    <2> QED
      BY <2>1 DEF PlacesInv, HolderTypes, Live
  <1>3. CASE UNCHANGED object
    BY <1>3
  <1> QED
    BY <1>1, <1>2, <1>3
    DEF Step, ResetCall, Assignment, Is, DestructorResets, MakeThrows, Install, CopyEmpty,
        Move, SelfAssignment, Ask, Answered, IsReturns, anyVars

(* A thread writes to its own anys only.                                   *)
LEMMA ValueStays ==
  ASSUME AnyInv, NEW t \in Threads, Step(t)
  PROVE  \A a \in Anys : Owner[a] # t => value'[a] = value[a]
PROOF
  <1> USE DEF AnyInv, PlacesInv, HolderTypes
  <1>1. CASE ResetCall(t) \/ DestructorResets(t)
    BY <1>1 DEF ResetCall, DestructorResets, Replace
  <1>2. CASE CopyEmpty(t)
    BY <1>2, CallShape DEF CopyEmpty, Replace
  <1>3. CASE Install(t)
    BY <1>3, CallShape DEF Install, Replace
  <1>4. CASE Move(t)
    BY <1>4, CallShape DEF Move, Replace
  <1>5. CASE UNCHANGED value
    BY <1>5
  <1> QED
    BY <1>1, <1>2, <1>3, <1>4, <1>5
    DEF Step, Assignment, Is, DestructorEnds, Make, MakeThrows,
        SelfAssignment, Ask, Answered, IsReturns, anyVars

(* What a thread has at hand is its own.                                   *)
LEMMA LocalsStay ==
  ASSUME AnyInv, NEW t \in Threads, Step(t), NEW u \in Threads, u # t
  PROVE  /\ call'[u] = call[u] /\ made'[u] = made[u] /\ dying'[u] = dying[u]
         /\ query'[u] = query[u] /\ upc'[u] = upc[u] /\ want'[u] = want[u]
PROOF
  <1>1. upc'[u] = upc[u] /\ want'[u] = want[u]
    BY DEF Step, ResetCall, Assignment, Is, DestructorResets, DestructorEnds, Make,
           MakeThrows, Install, CopyEmpty, Move, SelfAssignment, Ask, Answered, IsReturns,
           Initialise, Get, Return, GuardTake, Load, Store, GuardDone, Goto, uidVars,
           AnyInv, UidInv, UidTypes
  <1>2. call'[u] = call[u]
    BY DEF Step, ResetCall, Assignment, Is, DestructorResets, DestructorEnds, Make,
           MakeThrows, Install, CopyEmpty, Move, SelfAssignment, Ask, Answered, IsReturns,
           EndCall, anyVars, AnyInv, CallInv
  <1>3. made'[u] = made[u]
    BY DEF Step, ResetCall, Assignment, Is, DestructorResets, DestructorEnds, Make,
           MakeThrows, Install, CopyEmpty, Move, SelfAssignment, Ask, Answered, IsReturns,
           anyVars, AnyInv, PlacesInv, HolderTypes
  <1>4. query'[u] = query[u]
    BY DEF Step, ResetCall, Assignment, Is, DestructorResets, DestructorEnds, Make,
           MakeThrows, Install, CopyEmpty, Move, SelfAssignment, Ask, Answered, IsReturns,
           anyVars, AnyInv, QueryInv
  <1>5. dying'[u] = dying[u]
    BY DEF Step, ResetCall, Assignment, Is, DestructorResets, DestructorEnds, Make,
           MakeThrows, Install, CopyEmpty, Move, SelfAssignment, Ask, Answered, IsReturns,
           Replace, anyVars, AnyInv, PlacesInv, HolderTypes
  <1> QED
    BY <1>1, <1>2, <1>3, <1>4, <1>5

(* A static that is initialised keeps its id.                              *)
LEMMA IdStays ==
  ASSUME UidInv, NEW t \in Threads,
         \/ UNCHANGED uidVars
         \/ (\E T \in Types : Get(t, T)) \/ Return(t) \/ Initialise(t)
  PROVE  \A T \in Types : guard[T] = "done" => guard'[T] = "done" /\ id'[T] = id[T]
PROOF
  <1> USE DEF UidInv, UidTypes, GuardInv, Initialises, At
  <1>1. CASE UNCHANGED <<guard, id>>
    BY <1>1
  <1>2. CASE GuardTake(t)
    BY <1>2 DEF GuardTake
  <1>3. CASE GuardDone(t)
    BY <1>3 DEF GuardDone
  <1> QED
    BY <1>1, <1>2, <1>3 DEF uidVars, Get, Return, Initialise, Load, Store

(* What a step of any is for type_uid.                                     *)
LEMMA StepOfUid ==
  ASSUME AnyInv, NEW t \in Threads, Step(t)
  PROVE  \/ UNCHANGED uidVars
         \/ (\E T \in Types : Get(t, T)) \/ Return(t) \/ Initialise(t)
PROOF
  <1>1. ASSUME Ask(t) PROVE \E T \in Types : Get(t, T)
    <2>1. PICK n \in {Len(query[t].ids) + 1} : n <= 2 /\ Get(t, query[t].ask[n])
      BY <1>1 DEF Ask
    <2>2. query[t] \in Queries
      BY <1>1 DEF Ask, AnyInv, QueryInv
    <2>3. n \in 1 .. 2 /\ query[t].ask \in Types \X Types
      BY <2>1, <2>2 DEF Queries
    <2>4. query[t].ask[n] \in Types
      BY <2>3
    <2> QED
      BY <2>1, <2>4
  <1> QED
    BY <1>1 DEF Step, ResetCall, Assignment, Is, DestructorResets, DestructorEnds, Make,
        MakeThrows, Install, CopyEmpty, Move, SelfAssignment, Answered, IsReturns

LEMMA CallStep ==
  ASSUME AnyInv, NEW t \in Threads, Step(t)
  PROVE  CallInv'
PROOF
  <1> USE DEF AnyInv
  <1>1. call' \in [Threads -> {NoCall} \cup Puts \cup Passes]
    <2>1. CASE Assignment(t)
      BY <2>1 DEF Assignment, CallsOf, CallInv
    <2>2. CASE EndCall(t)
      BY <2>2 DEF EndCall, CallInv
    <2>3. CASE UNCHANGED call
      BY <2>3 DEF CallInv
    <2> QED
      BY <2>1, <2>2, <2>3
      DEF Step, ResetCall, Is, DestructorResets, DestructorEnds, Make, MakeThrows, Install,
          CopyEmpty, Move, SelfAssignment, Ask, Answered, IsReturns, anyVars
  <1>2. ASSUME NEW u \in Threads, u # t PROVE CallOK(u)'
    <2>1. /\ call'[u] = call[u] /\ made'[u] = made[u] /\ dying'[u] = dying[u]
          /\ query'[u] = query[u]
      BY <1>2, LocalsStay
    <2>2. made[u] # Null => object'[made[u]] = object[made[u]]
      BY ObjectStays DEF InHand, PlacesInv, HolderTypes
    <2>3. call[u].op = "copy" =>
            /\ value'[call[u].from] = value[call[u].from]
            /\ value[call[u].from] # Null =>
                 object'[value[call[u].from]] = object[value[call[u].from]]
      BY <1>2, CallShape, ValueStays, ObjectStays DEF InAny, PlacesInv, HolderTypes
    <2>4. CallOK(u)
      BY DEF CallInv
    <2> QED
      BY <2>1, <2>2, <2>3, <2>4 DEF CallOK
  <1>3. CallOK(t)'
    <2>0. CallOK(t) /\ call \in [Threads -> {NoCall} \cup Puts \cup Passes]
      BY DEF CallInv
    <2>1. CASE made'[t] = Null /\ call'[t] = NoCall
      BY <2>1 DEF CallOK
    <2>2. CASE ResetCall(t) \/ DestructorResets(t) \/ DestructorEnds(t)
      <3>1. call[t] = NoCall
        BY <2>0, <2>2 DEF CallOK, ResetCall, Ready, DestructorResets, DestructorEnds
      <3>2. made[t] = Null
        BY <3>1, CallShape
      <3> QED
        BY <2>1, <2>2, <3>1, <3>2 DEF ResetCall, DestructorResets, DestructorEnds
    <2>3. CASE Assignment(t)
      <3>1. PICK c \in CallsOf(t) : call' = [call EXCEPT ![t] = c]
        BY <2>3 DEF Assignment
      <3>2. made[t] = Null /\ dying[t] = <<>> /\ query[t] = NoCall
        BY <2>3, CallShape DEF Assignment, Ready
      <3> QED
        BY <2>0, <2>3, <3>1, <3>2 DEF CallOK, Assignment, CallsOf
    <2>4. CASE Make(t)
      <3>1. PICK g \in Holders : /\ object[g] = Free
                                 /\ object' = [object EXCEPT ![g] = MadeType(t)]
                                 /\ made' = [made EXCEPT ![t] = g]
        BY <2>4, MakeEffect
      <3>2. made'[t] = g /\ object'[g] = MadeType(t)
        BY <3>1 DEF PlacesInv, HolderTypes
      <3>3. UNCHANGED <<value, dying, call, query>>
        BY <2>4, MakeEffect
      <3>4. CASE call[t].op = "put"
        BY <2>0, <3>2, <3>3, <3>4 DEF CallOK, MadeType
      <3>5. CASE call[t].op # "put"
        <4>1. /\ call[t].op = "copy" /\ call[t].from # call[t].to
              /\ value[call[t].from] # Null
          BY <2>4, <3>5 DEF Make, Makes, empty
        <4>2. object'[value[call[t].from]] = object[value[call[t].from]]
          BY <4>1, CallShape, ObjectStays DEF InAny, PlacesInv, HolderTypes
        <4> QED
          BY <2>0, <3>2, <3>3, <3>5, <4>1, <4>2 DEF CallOK, MadeType
      <3> QED
        BY <3>4, <3>5
    <2>5. CASE MakeThrows(t)
      BY <2>0, <2>1, <2>5 DEF MakeThrows, Makes, EndCall
    <2>6. CASE Install(t)
      BY <2>0, <2>1, <2>6 DEF Install, EndCall, PlacesInv, HolderTypes
    <2>7. CASE CopyEmpty(t) \/ Move(t) \/ SelfAssignment(t)
      <3>1. made[t] = Null
        BY <2>0, <2>7 DEF CallOK, CopyEmpty, Move, SelfAssignment, empty
      <3> QED
        BY <2>0, <2>1, <2>7, <3>1 DEF CopyEmpty, Move, SelfAssignment, EndCall
    <2>8. CASE Is(t)
      <3>1. call[t] = NoCall /\ made[t] = Null
        BY <2>8, CallShape DEF Is, Ready
      <3> QED
        BY <2>1, <2>8, <3>1 DEF Is
    <2>9. CASE Answered(t) \/ IsReturns(t)
      <3>1. query[t] # NoCall
        BY <2>9 DEF Answered, Return, At, IsReturns, QueryInv, QueryOK
      <3>2. call[t] = NoCall /\ made[t] = Null
        BY <3>1, <2>0, CallShape DEF CallOK
      <3> QED
        BY <2>1, <2>9, <3>2 DEF Answered, IsReturns
    <2>10. CASE Ask(t) \/ (Initialise(t) /\ UNCHANGED anyVars)
      BY <2>0, <2>10 DEF Ask, anyVars, CallOK
    <2> QED
      BY <2>2, <2>3, <2>4, <2>5, <2>6, <2>7, <2>8, <2>9, <2>10 DEF Step
  <1> QED
    BY <1>1, <1>2, <1>3 DEF CallInv

(* What a question asks are types, and so far it has got ids of them.      *)
LEMMA QueryShape ==
  ASSUME AnyInv, NEW t \in Threads, query[t] # NoCall
  PROVE  /\ query[t] \in Queries
         /\ query[t].any \in Anys /\ query[t].type \in Types
         /\ query[t].ask[1] \in Types /\ query[t].ask[2] \in Types
         /\ query[t].ids \in Seq(Nat) /\ Len(query[t].ids) \in 0 .. 2
         /\ \A n \in 1 .. Len(query[t].ids) : query[t].ask[n] \in Types
         /\ value[query[t].any] \in Holders
         /\ object[value[query[t].any]] \in Types
PROOF
  <1>1. query[t] \in Queries /\ QueryOK(t)
    BY DEF AnyInv, QueryInv
  <1>2. /\ query[t].any \in Anys /\ query[t].type \in Types
        /\ query[t].ask \in Types \X Types /\ query[t].ids \in Seq(Nat)
    BY <1>1 DEF Queries
  <1>3. query[t].ask[1] \in Types /\ query[t].ask[2] \in Types
    BY <1>2
  <1>4. Len(query[t].ids) \in 0 .. 2
    <2>0. QueryOK(t)
      BY <1>1
    <2>1. Len(query[t].ids) <= 2
      BY <2>0 DEF QueryOK
    <2>2. Len(query[t].ids) \in Nat
      BY <1>2
    <2>3. \A k \in Nat : k <= 2 => k \in 0 .. 2
      OBVIOUS
    <2> QED
      BY <2>1, <2>2, <2>3
  <1>5. value[query[t].any] # Null
    BY <1>1 DEF QueryOK
  <1>6. \A n \in 1 .. Len(query[t].ids) : query[t].ask[n] \in Types
    <2>1. \A k \in 0 .. 2 : \A n \in 1 .. k : n = 1 \/ n = 2
      OBVIOUS
    <2>2. \A n \in 1 .. Len(query[t].ids) : n = 1 \/ n = 2
      BY <1>4, <2>1
    <2> QED
      BY <1>3, <2>2
  <1> QED
    BY <1>1, <1>2, <1>3, <1>4, <1>5, <1>6, HeldTypes DEF AnyInv

(* What the other threads do does not touch the question of a thread.      *)
LEMMA QueryOthers ==
  ASSUME AnyInv, NEW t \in Threads, Step(t), NEW u \in Threads, u # t
  PROVE  QueryOK(u)'
PROOF
  <1>1. /\ call'[u] = call[u] /\ dying'[u] = dying[u] /\ query'[u] = query[u]
        /\ upc'[u] = upc[u] /\ want'[u] = want[u]
    BY LocalsStay
  <1>2. QueryOK(u)
    BY DEF AnyInv, QueryInv
  <1>3. CASE query[u] = NoCall
    BY <1>1, <1>2, <1>3 DEF QueryOK
  <1>4. CASE query[u] # NoCall
    <2>1. value[query[u].any] # Null /\ Owner[query[u].any] = u
      BY <1>2, <1>4 DEF QueryOK
    <2>2. value'[query[u].any] = value[query[u].any]
      BY <1>4, <2>1, QueryShape, ValueStays
    <2>3. object'[value[query[u].any]] = object[value[query[u].any]]
      BY <1>4, QueryShape, ObjectStays DEF InAny
    <2>4. \A n \in 1 .. Len(query[u].ids) : query[u].ask[n] \in Types
      BY <1>4, QueryShape
    <2>5. \A T \in Types : guard[T] = "done" => guard'[T] = "done" /\ id'[T] = id[T]
      BY IdStays, StepOfUid DEF AnyInv
    <2> QED
      BY <1>1, <1>2, <1>4, <2>1, <2>2, <2>3, <2>4, <2>5 DEF QueryOK
  <1> QED
    BY <1>3, <1>4

(* Get returns the id of one of the two types.                             *)
LEMMA QueryAnswered ==
  ASSUME AnyInv, NEW t \in Threads, Answered(t)
  PROVE  /\ query' \in [Threads -> {NoCall} \cup Queries]
         /\ QueryOK(t)'
PROOF
  <1> DEFINE q   == query[t]
             ids == Append(q.ids, id[want[t]])
  <1>1. /\ upc[t] = "guard" /\ guard[want[t]] = "done"
        /\ upc' = [upc EXCEPT ![t] = "idle"]
        /\ UNCHANGED <<guard, id, value, object, call, dying>>
        /\ query' = [query EXCEPT ![t] = [q EXCEPT !.ids = ids]]
    BY DEF Answered, Return, At, Goto
  <1>2. QueryOK(t) /\ query \in [Threads -> {NoCall} \cup Queries]
    BY DEF AnyInv, QueryInv
  <1>3. q # NoCall
    BY <1>1, <1>2 DEF QueryOK
  <1>4. /\ q \in Queries /\ q.ids \in Seq(Nat) /\ Len(q.ids) \in 0 .. 2
        /\ q.ask[1] \in Types /\ q.ask[2] \in Types
    BY <1>3, QueryShape
  <1>5. Len(q.ids) < 2 /\ want[t] = q.ask[Len(q.ids) + 1]
    BY <1>1, <1>2, <1>3 DEF QueryOK
  <1>6. id[want[t]] \in Nat
    <2>1. want[t] \in Types
      BY <1>1 DEF AnyInv, UidInv, UidTypes
    <2> QED
      BY <2>1 DEF AnyInv, UidInv, UidTypes
  <1>7. /\ ids \in Seq(Nat) /\ Len(ids) = Len(q.ids) + 1
        /\ \A n \in 1 .. Len(q.ids) : ids[n] = q.ids[n]
        /\ ids[Len(q.ids) + 1] = id[want[t]]
    BY <1>4, <1>6, AppendProperties
  <1> DEFINE r == [op |-> q.op, any |-> q.any, type |-> q.type, ask |-> q.ask, ids |-> ids]
  <1>8. [q EXCEPT !.ids = ids] = r
    <2> HIDE DEF ids, q
    <2> QED
      BY <1>4 DEF Queries
  <1>9. r \in Queries
    <2> HIDE DEF ids, q
    <2> QED
      BY <1>4, <1>7 DEF Queries
  <1>10. query' = [query EXCEPT ![t] = r]
    BY <1>1, <1>8
  <1>11. query' \in [Threads -> {NoCall} \cup Queries] /\ query'[t] = r
    BY <1>2, <1>9, <1>10
  <1>12. r # NoCall
    BY DEF NoCall
  <1>13. /\ r.any = q.any /\ r.type = q.type /\ r.ask = q.ask /\ r.ids = ids
    OBVIOUS
  <1>14. upc'[t] = "idle"
    BY <1>1 DEF AnyInv, UidInv, UidTypes
  <1>15. \A n \in 1 .. Len(ids) : /\ guard[q.ask[n]] = "done"
                                  /\ id[q.ask[n]] = ids[n]
    <2>1. \A n \in 1 .. Len(q.ids) : guard[q.ask[n]] = "done" /\ id[q.ask[n]] = q.ids[n]
      BY <1>2, <1>3 DEF QueryOK
    <2>2. \A n \in 1 .. Len(q.ids) + 1 : n \in 1 .. Len(q.ids) \/ n = Len(q.ids) + 1
      BY <1>4
    <2> HIDE DEF ids, q
    <2> QED
      BY <1>1, <1>5, <1>7, <2>1, <2>2
  <1>16. Len(ids) <= 2
    BY <1>4, <1>5, <1>7
  <1>17. /\ dying[t] = <<>> /\ call[t] = NoCall
         /\ Owner[q.any] = t /\ value[q.any] # Null
         /\ \/ q.ask = <<object[value[q.any]], q.type>>
            \/ q.ask = <<q.type, object[value[q.any]]>>
    BY <1>2, <1>3 DEF QueryOK
  <1> HIDE DEF r, ids, q
  <1>18. QueryOK(t)'
    BY <1>1, <1>11, <1>12, <1>13, <1>14, <1>15, <1>16, <1>17 DEF QueryOK
  <1> QED
    BY <1>11, <1>18

LEMMA QueryStep ==
  ASSUME AnyInv, NEW t \in Threads, Step(t)
  PROVE  QueryInv'
PROOF
  <1>0. /\ QueryOK(t) /\ CallOK(t) /\ query \in [Threads -> {NoCall} \cup Queries]
        /\ upc \in [Threads -> {"idle", "guard", "load", "store", "init"}]
        /\ want \in [Threads -> Types \cup {NoType}]
    BY DEF AnyInv, QueryInv, CallInv, UidInv, UidTypes
  <1>1. \A T \in Types : guard[T] = "done" => guard'[T] = "done" /\ id'[T] = id[T]
    BY IdStays, StepOfUid DEF AnyInv
  <1>2. query' \in [Threads -> {NoCall} \cup Queries] /\ QueryOK(t)'
    <2>1. CASE /\ query'[t] = NoCall /\ query[t] = NoCall
               /\ query' = query /\ UNCHANGED uidVars
      BY <1>0, <2>1 DEF QueryOK, uidVars
    <2>2. CASE ResetCall(t) \/ Assignment(t)
      BY <1>0, <2>1, <2>2 DEF ResetCall, Assignment, Ready
    <2>3. CASE DestructorResets(t) \/ DestructorEnds(t)
      BY <1>0, <2>1, <2>3 DEF QueryOK, DestructorResets, DestructorEnds
    <2>4. CASE \/ Make(t) \/ MakeThrows(t) \/ Install(t)
               \/ CopyEmpty(t) \/ Move(t) \/ SelfAssignment(t)
      <3>1. call[t] # NoCall
        BY <2>4, CallShape
        DEF AnyInv, Make, MakeThrows, Makes, Install, CopyEmpty, Move, SelfAssignment
      <3>2. query[t] = NoCall
        BY <1>0, <3>1 DEF CallOK
      <3> QED
        BY <1>0, <2>1, <2>4, <3>2
        DEF Make, MakeThrows, Install, CopyEmpty, Move, SelfAssignment
    <2>5. CASE Is(t)
      <3>1. PICK a \in Anys, T \in Types :
              /\ Owner[a] = t /\ ~empty(a)
              /\ \E ask \in {<<object[value[a]], T>>, <<T, object[value[a]]>>} :
                   query' = [query EXCEPT ![t] = [op |-> "is", any |-> a, type |-> T,
                                                  ask |-> ask, ids |-> <<>>]]
        BY <2>5 DEF Is
      <3>2. PICK ask \in {<<object[value[a]], T>>, <<T, object[value[a]]>>} :
              query' = [query EXCEPT ![t] = [op |-> "is", any |-> a, type |-> T,
                                             ask |-> ask, ids |-> <<>>]]
        BY <3>1
      <3> DEFINE r == [op |-> "is", any |-> a, type |-> T, ask |-> ask, ids |-> <<>>]
      <3>3. value[a] # Null /\ object[value[a]] \in Types
        BY <3>1, HeldTypes DEF AnyInv, empty
      <3>4. r \in Queries
        BY <3>3, EmptySeq DEF Queries
      <3>5. query' \in [Threads -> {NoCall} \cup Queries] /\ query'[t] = r
        BY <1>0, <3>2, <3>4
      <3>6. /\ r # NoCall /\ r.any = a /\ r.type = T /\ r.ask = ask /\ Len(r.ids) = 0
        BY EmptySeq DEF NoCall
      <3>7. /\ call[t] = NoCall /\ dying[t] = <<>> /\ upc[t] = "idle"
            /\ UNCHANGED <<value, object, call, dying, uidVars>>
        BY <1>0, <2>5 DEF Is, Ready, QueryOK
      <3>8. \/ r.ask = <<object[value[r.any]], r.type>>
            \/ r.ask = <<r.type, object[value[r.any]]>>
        BY <3>6
      <3> HIDE DEF r
      <3>9. 1 .. Len(r.ids) = {}
        BY <3>6
      <3> QED
        BY <3>1, <3>3, <3>5, <3>6, <3>7, <3>8, <3>9 DEF QueryOK, uidVars
    <2>6. CASE Ask(t)
      <3>1. PICK n \in {Len(query[t].ids) + 1} : n <= 2 /\ Get(t, query[t].ask[n])
        BY <2>6 DEF Ask
      <3>2. query[t] # NoCall /\ query' = query
        BY <2>6 DEF Ask, anyVars
      <3>3. Len(query[t].ids) < 2
        BY <3>1, <3>2, QueryShape
      <3>4. want'[t] = query[t].ask[Len(query[t].ids) + 1]
        BY <1>0, <3>1 DEF Get
      <3>5. UNCHANGED <<guard, id>>
        BY <3>1 DEF Get
      <3> QED
        BY <1>0, <2>6, <3>2, <3>3, <3>4, <3>5 DEF QueryOK, Ask, anyVars
    <2>7. CASE Answered(t)
      BY <2>7, QueryAnswered
    <2>8. CASE IsReturns(t)
      <3>1. upc[t] = "idle"
        BY <1>0, <2>8, QueryShape DEF QueryOK, IsReturns
      <3> QED
        BY <1>0, <2>8, <3>1 DEF QueryOK, IsReturns, uidVars
    <2>9. CASE Initialise(t) /\ UNCHANGED anyVars
      <3>1. query' = query /\ UNCHANGED <<value, object, call, dying>>
        BY <2>9 DEF anyVars
      <3>2. upc[t] # "idle" /\ want' = want
        BY <2>9 DEF Initialise, GuardTake, Load, Store, GuardDone, At
      <3>3. query[t] # NoCall
        BY <1>0, <3>2 DEF QueryOK
      <3>4. \A n \in 1 .. Len(query[t].ids) : query[t].ask[n] \in Types
        BY <3>3, QueryShape
      <3> QED
        BY <1>0, <1>1, <3>1, <3>2, <3>3, <3>4 DEF QueryOK
    <2> QED
      BY <2>2, <2>3, <2>4, <2>5, <2>6, <2>7, <2>8, <2>9 DEF Step
  <1> QED
    BY <1>2, QueryOthers DEF QueryInv

LEMMA AnyInvInit == Init => AnyInv
PROOF
  <1> SUFFICES ASSUME Init PROVE AnyInv
    OBVIOUS
  <1>1. UidInv
    BY UidInvInit DEF Init
  <1>2. CallInv
    BY DEF Init, CallInv, CallOK
  <1>3. QueryInv
    BY DEF Init, UidInit, QueryInv, QueryOK
  <1> QED
    BY <1>1, <1>2, <1>3, PlacesInvInit DEF AnyInv

LEMMA AnyInvStep == AnyInv /\ [Next]_vars => AnyInv'
PROOF
  <1> SUFFICES ASSUME AnyInv, [Next]_vars PROVE AnyInv'
    OBVIOUS
  <1>1. ASSUME NEW t \in Threads, Step(t) PROVE AnyInv'
    <2>1. UidInv'
      BY <1>1, StepOfUid, UidStep, UidStutter DEF AnyInv
    <2> QED
      BY <1>1, <2>1, PlacesStep, CallStep, QueryStep DEF AnyInv
  <1>2. CASE UNCHANGED vars
    <2> USE <1>2 DEF vars, anyVars, uidVars
    <2>1. UidInv'
      BY UidStutter DEF AnyInv
    <2>2. PlacesInv'
      <3>1. \A h \in Holders : /\ InAny(h)' <=> InAny(h)
                               /\ InHand(h)' <=> InHand(h)
                               /\ InDeletion(h)' <=> InDeletion(h)
        BY DEF InAny, InHand, InDeletion
      <3> QED
        BY <3>1 DEF AnyInv, PlacesInv, HolderTypes, OnePlace, Live
    <2>3. CallInv'
      BY DEF AnyInv, CallInv, CallOK
    <2>4. QueryInv'
      BY DEF AnyInv, QueryInv, QueryOK
    <2> QED
      BY <2>1, <2>2, <2>3, <2>4 DEF AnyInv
  <1> QED
    BY <1>1, <1>2 DEF Next

(* The invariant holds in every reachable state.                           *)
THEOREM AnyInvAlways == Spec => []AnyInv
PROOF
  BY AnyInvInit, AnyInvStep, PTL DEF Spec

-------------------------------------------------------------------------------
(* The properties.                                                         *)

(* is<T>() is TRUE for the type the any holds, and FALSE for every other   *)
(* one as long as no two counter++ have met (type_uid::get).               *)
THEOREM AnyTellsTheType == Spec => []IsTellsTheType
PROOF
  <1>1. AnyInv => IsTellsTheType
    <2> SUFFICES ASSUME AnyInv, NEW t \in Threads,
                        query[t] # NoCall, Len(query[t].ids) = 2
                 PROVE  LET is   == query[t].ids[1] = query[t].ids[2]
                            same == object[value[query[t].any]] = query[t].type
                        IN  (same => is) /\ (is => same \/ raced)
      BY DEF IsTellsTheType
    <2> DEFINE T == query[t].ask[1]
               U == query[t].ask[2]
    <2>1. QueryOK(t) /\ T \in Types /\ U \in Types
      BY QueryShape DEF AnyInv, QueryInv
    <2>2. /\ guard[T] = "done" /\ id[T] = query[t].ids[1]
          /\ guard[U] = "done" /\ id[U] = query[t].ids[2]
      <3>1. 1 \in 1 .. Len(query[t].ids) /\ 2 \in 1 .. Len(query[t].ids)
        OBVIOUS
      <3> QED
        BY <2>1, <3>1 DEF QueryOK
    <2>3. \/ T = object[value[query[t].any]] /\ U = query[t].type
          \/ U = object[value[query[t].any]] /\ T = query[t].type
      BY <2>1 DEF QueryOK
    <2>4. raced \/ (id[T] = id[U] => T = U)
      BY <2>1, <2>2 DEF AnyInv, UidInv, UidTypes, IdsInv
    <2> HIDE DEF T, U
    <2> QED
      BY <2>2, <2>3, <2>4
  <1> QED
    BY <1>1, AnyInvAlways, PTL

(* A value is destroyed once and never lost: its holder is in one any, in  *)
(* the hands of one call, or in one deletion (unique_ptr in any).          *)
THEOREM AnyOneOwner == Spec => []OneOwner
PROOF
  <1>1. AnyInv => OneOwner
    <2> DEFINE anys(h)  == {a \in Anys : value[a] = h}
               hands(h) == {t \in Threads : made[t] = h}
               dels(h)  == UNION {{<<t, i>> : i \in {j \in DOMAIN dying[t] : dying[t][j] = h}} :
                                    t \in Threads}
               owners(h) == anys(h) \cup hands(h) \cup dels(h)
    <2> SUFFICES ASSUME AnyInv, NEW h \in Holders
                 PROVE  Cardinality(owners(h)) = IF object[h] = Free THEN 0 ELSE 1
      BY DEF OneOwner
    <2> USE DEF AnyInv, PlacesInv
    <2>0. h # Null
      BY AnyAssumption
    <2>1. \A t \in Threads : DOMAIN dying[t] = 1 .. Len(dying[t])
      BY DEF HolderTypes
    <2>2. InAny(h) <=> anys(h) # {}
      BY DEF InAny
    <2>3. InHand(h) <=> hands(h) # {}
      BY DEF InHand
    <2>4. InDeletion(h) <=> dels(h) # {}
      <3>1. ASSUME NEW t \in Threads, NEW i \in 1 .. Len(dying[t]), dying[t][i] = h
            PROVE  <<t, i>> \in dels(h)
        BY <2>1, <3>1
      <3>2. ASSUME NEW x \in dels(h)
            PROVE  \E t \in Threads : \E i \in 1 .. Len(dying[t]) : dying[t][i] = h
        BY <2>1, <3>2
      <3> HIDE DEF dels
      <3> QED
        BY <3>1, <3>2 DEF InDeletion
    <2>5. \A x, y \in anys(h) : x = y
      BY <2>0 DEF OnePlace
    <2>6. \A x, y \in hands(h) : x = y
      BY <2>0 DEF OnePlace
    <2>7. \A x, y \in dels(h) : x = y
      <3> SUFFICES ASSUME NEW x \in dels(h), NEW y \in dels(h) PROVE x = y
        OBVIOUS
      <3>1. PICK t \in Threads :
              \E i \in 1 .. Len(dying[t]) : x = <<t, i>> /\ dying[t][i] = h
        BY <2>1
      <3>2. PICK i \in 1 .. Len(dying[t]) : x = <<t, i>> /\ dying[t][i] = h
        BY <3>1
      <3>3. PICK u \in Threads :
              \E j \in 1 .. Len(dying[u]) : y = <<u, j>> /\ dying[u][j] = h
        BY <2>1
      <3>4. PICK j \in 1 .. Len(dying[u]) : y = <<u, j>> /\ dying[u][j] = h
        BY <3>3
      <3>5. t = u /\ i = j
        BY <3>2, <3>4 DEF OnePlace
      <3> QED
        BY <3>2, <3>4, <3>5
    <2> HIDE DEF anys, hands, dels
    <2>8. CASE object[h] = Free
      <3>1. owners(h) = {}
        BY <2>2, <2>3, <2>4, <2>8 DEF Live
      <3> QED
        BY <2>8, <3>1, FS_EmptySet
    <2>9. CASE object[h] # Free
      <3>1. PICK w : w \in owners(h)
        BY <2>2, <2>3, <2>4, <2>9 DEF Live
      <3>2. owners(h) = {w}
        BY <2>2, <2>3, <2>4, <2>5, <2>6, <2>7, <3>1 DEF OnePlace
      <3>3. Cardinality({w}) = 1
        BY FS_Singleton
      <3> QED
        BY <2>9, <3>2, <3>3
    <2> QED
      BY <2>8, <2>9
  <1> QED
    BY <1>1, AnyInvAlways, PTL

-------------------------------------------------------------------------------
(* The refinement of Holder.                                               *)

ContentOf == [a \in Anys |-> IF empty(a) THEN Empty ELSE object[value[a]]]

(* What an any holds changes with its pointer only.                        *)
LEMMA ContentStays ==
  ASSUME AnyInv, NEW t \in Threads, Step(t), NEW a \in Anys, value'[a] = value[a]
  PROVE  ContentOf'[a] = ContentOf[a]
PROOF
  <1>1. value[a] # Null => object'[value[a]] = object[value[a]]
    BY ObjectStays DEF InAny, AnyInv, PlacesInv, HolderTypes
  <1> QED
    BY <1>1 DEF ContentOf, empty

(* A reset, asked for or by a destructor, is Clear.                        *)
LEMMA ResetIsClear ==
  ASSUME AnyInv, NEW t \in Threads, Step(t), NEW a \in Anys,
         value' = [value EXCEPT ![a] = Null]
  PROVE  ContentOf' = [ContentOf EXCEPT ![a] = Empty]
PROOF
  <1>1. value'[a] = Null /\ \A b \in Anys : b # a => value'[b] = value[b]
    BY DEF AnyInv, PlacesInv, HolderTypes
  <1>2. ContentOf'[a] = Empty
    BY <1>1 DEF ContentOf, empty
  <1>3. \A b \in Anys : b # a => ContentOf'[b] = ContentOf[b]
    BY <1>1, ContentStays
  <1> QED
    BY <1>2, <1>3 DEF ContentOf

(* The anys of a thread that has no call under way are in no call.         *)
LEMMA NotInUse ==
  ASSUME AnyInv, NEW a \in Anys, call[Owner[a]] = NoCall
  PROVE  a \notin Abstract!InUse
PROOF
  <1>1. ASSUME NEW u \in Threads, call[u] # NoCall
        PROVE  /\ call[u].to # a
               /\ call[u].op # "put" => call[u].from # a
    <2>1. Owner[call[u].to] = u /\ (call[u].op # "put" => Owner[call[u].from] = u)
      BY <1>1 DEF AnyInv, CallInv, CallOK
    <2> QED
      BY <1>1, <2>1
  <1>2. \A u \in Threads : call[u].op \in {"copy", "move"} =>
          call[u] # NoCall /\ call[u].op # "put"
    BY DEF NoCall
  <1> QED
    BY <1>1, <1>2 DEF Abstract!InUse, Abstract!NoCall, NoCall

LEMMA RefinementStep ==
  ASSUME AnyInv, NEW t \in Threads, Step(t)
  PROVE  \/ UNCHANGED <<ContentOf, call, throws>>
         \/ Abstract!Next
PROOF
  <1> USE DEF AnyInv
  <1>0. call \in [Threads -> {NoCall} \cup Puts \cup Passes] /\ CallOK(t)
    BY DEF CallInv
  <1>1. value' = value => ContentOf' = ContentOf
    <2> SUFFICES ASSUME value' = value PROVE ContentOf' = ContentOf
      OBVIOUS
    <2>1. \A a \in Anys : ContentOf'[a] = ContentOf[a]
      BY ContentStays
    <2> QED
      BY <2>1 DEF ContentOf
  <1>2. CASE ResetCall(t) \/ DestructorResets(t)
    <2>1. PICK a \in Anys : Owner[a] = t /\ value' = [value EXCEPT ![a] = Null]
      BY <1>2 DEF ResetCall, DestructorResets, Replace
    <2>2. ContentOf' = [ContentOf EXCEPT ![a] = Empty]
      BY <2>1, ResetIsClear
    <2>3. UNCHANGED <<call, throws>>
      BY <1>2 DEF ResetCall, DestructorResets
    <2>4. call[t] = NoCall
      BY <1>0, <1>2 DEF ResetCall, DestructorResets, Ready, CallOK
    <2>5. a \notin Abstract!InUse
      BY <2>1, <2>4, NotInUse
    <2>6. Abstract!Clear
      BY <2>1, <2>2, <2>3, <2>5 DEF Abstract!Clear, ContentOf
    <2> QED
      BY <2>6 DEF Abstract!Next
  <1>3. CASE Assignment(t)
    <2>1. PICK c \in CallsOf(t) : call' = [call EXCEPT ![t] = c]
      BY <1>3 DEF Assignment
    <2>2. call[t] = NoCall /\ UNCHANGED <<value, throws>>
      BY <1>3 DEF Assignment, Ready
    <2>3. c \in Puts \cup Passes /\ ContentOf' = ContentOf
      BY <1>1, <2>1, <2>2 DEF CallsOf
    <2>4. Abstract!Begin(t)
      BY <2>1, <2>2, <2>3
      DEF Abstract!Begin, Abstract!NoCall, Abstract!Puts, Abstract!Passes,
          NoCall, Puts, Passes, ContentOf
    <2> QED
      BY <2>4 DEF Abstract!Next
  <1>4. CASE MakeThrows(t)
    <2>1. call[t] # NoCall /\ call' = [call EXCEPT ![t] = NoCall] /\ throws' = throws + 1
      BY <1>4 DEF MakeThrows, Makes, EndCall
    <2>2. ContentOf' = ContentOf
      BY <1>1, <1>4 DEF MakeThrows
    <2>3. Abstract!Fail(t)
      BY <2>1, <2>2 DEF Abstract!Fail, Abstract!NoCall, NoCall, ContentOf
    <2> QED
      BY <2>3 DEF Abstract!Next
  <1>5. CASE Install(t)
    <2> DEFINE a == call[t].to
    <2>1. /\ made[t] # Null /\ call[t] # NoCall /\ a \in Anys
          /\ call' = [call EXCEPT ![t] = NoCall] /\ throws' = throws
          /\ value' = [value EXCEPT ![a] = made[t]]
      BY <1>5, CallShape DEF Install, EndCall, Replace
    <2>2. value'[a] = made[t] /\ \A b \in Anys : b # a => value'[b] = value[b]
      BY <2>1 DEF PlacesInv, HolderTypes
    <2>3. object' = object
      BY <1>5 DEF Install
    <2>4. ContentOf'[a] = object[made[t]]
      BY <2>1, <2>2, <2>3 DEF ContentOf, empty
    <2>5. \A b \in Anys : b # a => ContentOf'[b] = ContentOf[b]
      BY <2>2, ContentStays
    <2>6. ContentOf' = [ContentOf EXCEPT ![a] = object[made[t]]]
      BY <2>4, <2>5 DEF ContentOf
    <2>7. CASE call[t].op = "put"
      <3>1. call[t] \in Puts /\ object[made[t]] = call[t].what
        BY <1>0, <2>1, <2>7, CallShape DEF CallOK
      <3>2. Abstract!Put(call[t])
        BY <2>6, <3>1 DEF Abstract!Put, Abstract!Puts, Puts, ContentOf
      <3>3. Abstract!Succeed(t)
        BY <2>1, <3>2 DEF Abstract!Succeed, Abstract!NoCall, NoCall
      <3> QED
        BY <3>3 DEF Abstract!Next
    <2>8. CASE call[t].op # "put"
      <3>1. /\ call[t] \in Passes /\ call[t].op = "copy"
            /\ call[t].from \in Anys
            /\ object[made[t]] = ContentOf[call[t].from]
        BY <1>0, <2>1, <2>8, CallShape DEF CallOK, ContentOf, empty
      <3>2. Abstract!Copy(call[t])
        BY <2>6, <3>1 DEF Abstract!Copy, Abstract!Passes, Passes, ContentOf
      <3>3. Abstract!Succeed(t)
        BY <2>1, <3>2 DEF Abstract!Succeed, Abstract!NoCall, NoCall
      <3> QED
        BY <3>3 DEF Abstract!Next
    <2> QED
      BY <2>7, <2>8
  <1>6. CASE CopyEmpty(t)
    <2> DEFINE a == call[t].to
    <2>1. /\ call[t] # NoCall /\ a \in Anys /\ call[t].from \in Anys
          /\ call[t].op = "copy" /\ call[t] \in Passes /\ empty(call[t].from)
          /\ call' = [call EXCEPT ![t] = NoCall] /\ throws' = throws
          /\ value' = [value EXCEPT ![a] = Null]
      BY <1>6, CallShape DEF CopyEmpty, EndCall, Replace
    <2>2. ContentOf[call[t].from] = Empty
      BY <2>1 DEF ContentOf
    <2>3. ContentOf' = [ContentOf EXCEPT ![a] = ContentOf[call[t].from]]
      BY <2>1, <2>2, ResetIsClear
    <2>4. Abstract!Copy(call[t])
      BY <2>1, <2>3 DEF Abstract!Copy, Abstract!Passes, Passes, ContentOf
    <2>5. Abstract!Succeed(t)
      BY <2>1, <2>4 DEF Abstract!Succeed, Abstract!NoCall, NoCall
    <2> QED
      BY <2>5 DEF Abstract!Next
  <1>7. CASE Move(t)
    <2> DEFINE a == call[t].to
               b == call[t].from
    <2>1. /\ call[t] # NoCall /\ a \in Anys /\ b \in Anys /\ a # b
          /\ call[t].op = "move" /\ call[t] \in Passes
          /\ call' = [call EXCEPT ![t] = NoCall] /\ throws' = throws
          /\ value' = [value EXCEPT ![b] = Null, ![a] = value[b]]
          /\ object' = object
      BY <1>7, CallShape DEF Move, EndCall, Replace
    <2> HIDE DEF a, b
    <2>2. /\ value'[a] = value[b] /\ value'[b] = Null
          /\ \A c \in Anys : c # a /\ c # b => value'[c] = value[c]
      BY <2>1 DEF PlacesInv, HolderTypes
    <2>3. ContentOf'[a] = ContentOf[b] /\ ContentOf'[b] = Empty
      BY <2>1, <2>2 DEF ContentOf, empty
    <2>4. \A c \in Anys : c # a /\ c # b => ContentOf'[c] = ContentOf[c]
      BY <2>2, ContentStays
    <2>5. ContentOf' = [ContentOf EXCEPT ![a] = ContentOf[b], ![b] = Empty]
      <3>1. a \in Anys /\ b \in Anys /\ a # b
        BY <2>1
      <3>2. /\ ContentOf = [c \in Anys |-> ContentOf[c]]
            /\ ContentOf' = [c \in Anys |-> ContentOf'[c]]
        BY DEF ContentOf
      <3> QED
        BY <2>3, <2>4, <3>1, <3>2
    <2>6. Abstract!Move(call[t])
      BY <2>1, <2>5 DEF Abstract!Move, Abstract!Passes, Passes, ContentOf, a, b
    <2>7. Abstract!Succeed(t)
      BY <2>1, <2>6 DEF Abstract!Succeed, Abstract!NoCall, NoCall
    <2> QED
      BY <2>7 DEF Abstract!Next
  <1>8. CASE SelfAssignment(t)
    <2>1. /\ call[t] # NoCall /\ call[t].from \in Anys /\ call[t].from = call[t].to
          /\ call[t].op \in {"copy", "move"} /\ call[t] \in Passes
          /\ call' = [call EXCEPT ![t] = NoCall] /\ throws' = throws
      BY <1>8, CallShape DEF SelfAssignment, EndCall
    <2>2. ContentOf' = ContentOf
      BY <1>1, <1>8 DEF SelfAssignment
    <2>3. ContentOf' = [ContentOf EXCEPT ![call[t].to] = ContentOf[call[t].from]]
      BY <2>1, <2>2 DEF ContentOf
    <2>4. Abstract!Copy(call[t]) \/ Abstract!Move(call[t])
      BY <2>1, <2>2, <2>3
      DEF Abstract!Copy, Abstract!Move, Abstract!Passes, Passes, ContentOf
    <2>5. Abstract!Succeed(t)
      BY <2>1, <2>4 DEF Abstract!Succeed, Abstract!NoCall, NoCall
    <2> QED
      BY <2>5 DEF Abstract!Next
  <1>9. CASE Make(t)
    BY <1>1, <1>9 DEF Make
  <1>10. CASE DestructorEnds(t)
    BY <1>1, <1>10 DEF DestructorEnds
  <1>11. CASE Is(t) \/ Ask(t) \/ Answered(t) \/ IsReturns(t)
              \/ (Initialise(t) /\ UNCHANGED anyVars)
    BY <1>1, <1>11 DEF Is, Ask, Answered, IsReturns, anyVars
  <1> QED
    BY <1>2, <1>3, <1>4, <1>5, <1>6, <1>7, <1>8, <1>9, <1>10, <1>11 DEF Step

(* A call of any puts, copies or moves one value in one step: it gives up  *)
(* the old value for the new one, never before, and one that throws has    *)
(* changed nothing. Only between the calls of a thread are its anys        *)
(* emptied, by reset and by destructors (any::operator=, any::reset).      *)
THEOREM AnyImplementsHolder == Spec => ImplementsHolder
PROOF
  <1>1. Init => Abstract!Init
    BY DEF Init, Abstract!Init, Abstract!NoCall, NoCall, empty
  <1>2. AnyInv /\ [Next]_vars => [Abstract!Next]_<<ContentOf, call, throws>>
    <2> SUFFICES ASSUME AnyInv, [Next]_vars
                 PROVE  Abstract!Next \/ UNCHANGED <<ContentOf, call, throws>>
      OBVIOUS
    <2>1. ASSUME NEW t \in Threads, Step(t)
          PROVE  Abstract!Next \/ UNCHANGED <<ContentOf, call, throws>>
      BY <2>1, RefinementStep
    <2>2. CASE UNCHANGED vars
      BY <2>2 DEF vars, anyVars, ContentOf, empty
    <2> QED
      BY <2>1, <2>2 DEF Next
  <1> QED
    BY <1>1, <1>2, AnyInvAlways, PTL
    DEF Spec, ImplementsHolder, Abstract!Spec, ContentOf
===============================================================================
