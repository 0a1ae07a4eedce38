------------------------------ MODULE Variant_proofs ----------------------------
(***************************************************************************)
(* What a variant guarantees for any number of variants and types, listed  *)
(* once or more often, and any values.                                     *)
(***************************************************************************)
EXTENDS Variant, SequenceTheorems, WellFoundedInduction, TLAPS

-------------------------------------------------------------------------------
(* The inductive invariant.                                                *)

(* The values of index_: a type that is listed twice has one of them.      *)
Indices == {invalid_index} \cup {select_type(T) : T \in Range(Types)}

StateTypes ==
  /\ alive \subseteq Variants
  /\ index \in [Variants -> Indices]
  /\ storage \in [Variants -> Objects \cup {Raw}]
  /\ call \in {NoCall} \cup Puts \cup Passes
  /\ pc \in {"idle", "assign", "construct"}
  /\ dying \in Seq(Variants)
  /\ throws \in Nat
  /\ broken \subseteq Variants /\ dropped \subseteq Variants
  /\ wild \in BOOLEAN

(* What is in storage_ goes with index_, also while the destructor of the  *)
(* object runs. A variant is broken until somebody touches what it names.  *)
VariantOK(v) ==
  /\ Contains(dying, v) \/ v \notin alive => index[v] = invalid_index
  /\ index[v] # invalid_index /\ v \notin broken => Holds(v) /\ storage[v].val \in Values
  /\ index[v] = invalid_index /\ ~Contains(dying, v) /\ v \notin dropped
       => storage[v] = Raw \/ storage[v].val = Moved
  /\ v \in broken /\ ~wild => /\ v \in alive /\ index[v] # invalid_index
                              /\ storage[v] = Raw

(* The call under way: its source exists, though it may have been emptied; *)
(* an object is assigned to one of its type, and a new one constructed     *)
(* only in a variant that is empty, and not the source.                    *)
CallOK ==
  /\ call = NoCall <=> pc = "idle"
  /\ pc # "idle" /\ call.op # "put" => call.from \in alive
  /\ pc = "assign" => /\ dying = <<>> /\ call.to \in alive
                      /\ index[call.to] = SourceIndex(call)
  /\ pc = "construct" => /\ index[call.to] = invalid_index
                         /\ call.op # "put" => call.from # call.to

VariantInv ==
  /\ StateTypes
  /\ \A v \in Variants : VariantOK(v)
  /\ CallOK
  /\ ~lost
  /\ wild => broken # {}

-------------------------------------------------------------------------------
(* Lemmas.                                                                 *)

(* A set of numbers that has a bound has a greatest element.               *)
LEMMA GreatestOf ==
  ASSUME NEW n \in Nat, NEW S \in SUBSET (0 .. n), S # {}
  PROVE  Max(S) \in S /\ \A i \in S : i <= Max(S)
PROOF
  <1> DEFINE Gaps == {n - i : i \in S}
             Less == OpToRel(<, Nat)
  <1>1. Gaps \subseteq Nat /\ Gaps # {}
    <2>1. \A i \in S : i \in 0 .. n
      OBVIOUS
    <2>2. \A i \in S : n - i \in Nat
      BY <2>1
    <2> QED
      BY <2>2
  <1>2. IsWellFoundedOn(Less, Nat)
    BY NatLessThanWellFounded
  <1>3. ASSUME NEW k \in Nat, NEW m \in Nat, ~ (<<k, m>> \in Less)
        PROVE  m <= k
    <2>1. ~ (k < m)
      BY <1>3 DEF OpToRel
    <2> QED
      BY <2>1
  <1> HIDE DEF Less
  <1>4. \E m \in Gaps : \A k \in Gaps : m <= k
    <2> HIDE DEF Gaps
    <2>1. \E m \in Gaps : \A k \in Gaps : ~ (<<k, m>> \in Less)
      BY <1>1, <1>2, WFMin
    <2> QED
      BY <1>1, <1>3, <2>1
  <1>5. PICK i \in S : \A j \in S : n - i <= n - j
    BY <1>4
  <1>6. \A j \in S : j <= i
    BY <1>5
  <1>7. \E x \in S : \A y \in S : x >= y
    BY <1>6
  <1> QED
    BY <1>7 DEF Max

(* select_type finds each of the types, and none of two at one place.      *)
LEMMA SelectType ==
  ASSUME NEW T \in Range(Types)
  PROVE  select_type(T) \in 1 .. Len(Types) /\ Types[select_type(T)] = T
PROOF
  <1> DEFINE Places == {invalid_index} \cup {i \in DOMAIN Types : Types[i] = T}
  <1>1. Len(Types) \in Nat /\ DOMAIN Types = 1 .. Len(Types)
    BY VariantAssumption
  <1>2. Places \subseteq 0 .. Len(Types) /\ Places # {}
    BY <1>1 DEF invalid_index
  <1>3. PICK j \in Places : j > 0
    BY <1>1 DEF Range
  <1>4. select_type(T) = Max(Places)
    BY DEF select_type
  <1>5. Max(Places) \in Places /\ \A i \in Places : i <= Max(Places)
    <2> HIDE DEF Places
    <2> QED
      BY <1>1, <1>2, GreatestOf
  <1>6. Max(Places) \in Places /\ Max(Places) > 0
    <2> HIDE DEF Places
    <2>1. \A i \in Places : i \in 0 .. Len(Types)
      BY <1>2
    <2> QED
      BY <1>1, <1>3, <1>5, <2>1
  <1> QED
    BY <1>1, <1>4, <1>6 DEF invalid_index

(* index_ and the type it stands for tell each other.                      *)
LEMMA IndexOfType ==
  ASSUME NEW i \in Indices
  PROVE  /\ i \in 0 .. Len(Types)
         /\ i # invalid_index => /\ apply_visitor(i) \in Range(Types)
                                 /\ select_type(apply_visitor(i)) = i
PROOF
  <1>1. CASE i = invalid_index
    BY <1>1, VariantAssumption DEF invalid_index
  <1>2. CASE i # invalid_index
    BY <1>2, SelectType, VariantAssumption DEF Indices, invalid_index, apply_visitor
  <1> QED
    BY <1>1, <1>2

LEMMA NoneContained == \A x : ~ Contains(<<>>, x)
PROOF
  BY DEF Contains

LEMMA AppendContains ==
  ASSUME NEW S, NEW seq \in Seq(S), NEW e \in S
  PROVE  /\ Append(seq, e) \in Seq(S) /\ Append(seq, e) # <<>>
         /\ \A x : Contains(Append(seq, e), x) <=> (Contains(seq, x) \/ x = e)
PROOF
  <1>1. /\ Append(seq, e) \in Seq(S)
        /\ Len(Append(seq, e)) = Len(seq) + 1
        /\ \A i \in 1 .. Len(seq) : Append(seq, e)[i] = seq[i]
        /\ Append(seq, e)[Len(seq) + 1] = e
    BY AppendProperties
  <1>2. Len(seq) \in Nat
    OBVIOUS
  <1> QED
    BY <1>1, <1>2, EmptySeq DEF Contains

LEMMA FrontContains ==
  ASSUME NEW S, NEW seq \in Seq(S), seq # <<>>
  PROVE  /\ Front(seq) \in Seq(S) /\ Last(seq) \in S
         /\ \A x : Contains(seq, x) <=> (Contains(Front(seq), x) \/ x = Last(seq))
PROOF
  <1>1. Len(seq) \in Nat /\ Len(seq) # 0
    BY EmptySeq
  <1>2. \A i \in 1 .. Len(seq) : seq[i] \in S
    BY ElementOfSeq
  <1>3. Last(seq) = seq[Len(seq)] /\ Last(seq) \in S
    BY <1>1, <1>2 DEF Last
  <1>4. Front(seq) = [i \in 1 .. Len(seq) - 1 |-> seq[i]]
    BY <1>1 DEF Front
  <1>5. Front(seq) \in [1 .. Len(seq) - 1 -> S]
    BY <1>1, <1>2, <1>4
  <1>6. Front(seq) \in Seq(S) /\ Len(Front(seq)) = Len(seq) - 1
    BY <1>1, <1>4, <1>5
  <1>7. \A i \in 1 .. Len(seq) - 1 : Front(seq)[i] = seq[i]
    BY <1>1, <1>4
  <1>8. \A x : Contains(seq, x) <=> (Contains(Front(seq), x) \/ x = Last(seq))
    BY <1>1, <1>3, <1>6, <1>7 DEF Contains
  <1> QED
    BY <1>3, <1>6, <1>8

(* What a call names.                                                      *)
LEMMA CallShape ==
  ASSUME NEW c \in Puts \cup Passes
  PROVE  /\ c # NoCall /\ c.to \in Variants
         /\ c.op = "put" => /\ c \in Puts /\ c.what \in Contents
                            /\ c.what[1] \in Range(Types) /\ c.what[2] \in Values
         /\ c.op # "put" => /\ c \in Passes /\ c.op \in {"copy", "move"}
                            /\ c.from \in Variants
PROOF
  <1>1. c # NoCall
    BY DEF Puts, Passes, NoCall
  <1> QED
    BY <1>1 DEF Puts, Passes, Contents

LEMMA SourceIsIndex ==
  ASSUME StateTypes, NEW c \in Puts \cup Passes
  PROVE  /\ SourceIndex(c) \in Indices
         /\ c.op = "put" => SourceIndex(c) # invalid_index
PROOF
  <1>1. CASE c.op = "put"
    BY <1>1, CallShape, SelectType DEF SourceIndex, Indices, invalid_index
  <1>2. CASE c.op # "put"
    BY <1>2, CallShape DEF SourceIndex, StateTypes
  <1> QED
    BY <1>1, <1>2

-------------------------------------------------------------------------------
(* The invariant is kept: resets and destructors.                          *)

LEMMA VariantInvInit == Init => VariantInv
PROOF
  <1> SUFFICES ASSUME Init PROVE VariantInv
    OBVIOUS
  <1> USE DEF Init
  <1>1. StateTypes
    <2>1. dying \in Seq(Variants)
      BY EmptySeq
    <2> QED
      BY <2>1 DEF StateTypes, Indices
  <1>2. \A v \in Variants : VariantOK(v)
    BY DEF VariantOK
  <1>3. CallOK
    BY DEF CallOK
  <1> QED
    BY <1>1, <1>2, <1>3 DEF VariantInv

(* reset empties one variant, whose object is then in its destructor; it   *)
(* finds no object exactly in a broken one.                                *)
LEMMA ResetFacts ==
  ASSUME VariantInv, ~wild, NEW v \in Variants, Reset(v)
  PROVE  /\ index' \in [Variants -> Indices] /\ dying' \in Seq(Variants) /\ wild' \in BOOLEAN
         /\ index'[v] = invalid_index
         /\ \A w \in Variants : w # v => index'[w] = index[w]
         /\ \A w \in Variants : Contains(dying', w)
                           <=> (Contains(dying, w) \/ (w = v /\ index[v] # invalid_index))
         /\ wild' <=> v \in broken
PROOF
  <1>0. VariantOK(v) /\ StateTypes
    BY DEF VariantInv
  <1>1. CASE index[v] = invalid_index
    BY <1>0, <1>1 DEF Reset, StateTypes, VariantOK
  <1>2. CASE index[v] # invalid_index
    <2>1. /\ wild' = ~Holds(v)
          /\ index' = [index EXCEPT ![v] = invalid_index]
          /\ dying' = Append(dying, v)
      BY <1>2 DEF Reset
    <2>2. /\ dying' \in Seq(Variants)
          /\ \A w : Contains(dying', w) <=> (Contains(dying, w) \/ w = v)
      BY <1>0, <2>1, AppendContains DEF StateTypes
    <2>3. Holds(v) <=> v \notin broken
      BY <1>0, <1>2 DEF VariantOK, Holds
    <2>4. /\ index' \in [Variants -> Indices] /\ index'[v] = invalid_index
          /\ \A w \in Variants : w # v => index'[w] = index[w]
      BY <1>0, <2>1 DEF StateTypes, Indices
    <2> QED
      BY <1>2, <2>1, <2>2, <2>3, <2>4
  <1> QED
    BY <1>1, <1>2

LEMMA ResetKeepsVariants ==
  ASSUME VariantInv, ~wild, NEW v \in Variants, Reset(v), UNCHANGED broken,
         \A w \in Variants \ {v} : /\ w \in alive' <=> w \in alive
                                   /\ w \in dropped' <=> w \in dropped
                                   /\ storage'[w] = storage[w],
         storage'[v] = Raw \/ (storage'[v] = storage[v] /\ (v \in dropped' <=> v \in dropped))
                           \/ index[v] # invalid_index
  PROVE  \A w \in Variants : VariantOK(w)'
PROOF
  <1>1. /\ index'[v] = invalid_index
        /\ \A w \in Variants : w # v => index'[w] = index[w]
        /\ \A w \in Variants : Contains(dying', w)
                          <=> (Contains(dying, w) \/ (w = v /\ index[v] # invalid_index))
        /\ wild' <=> v \in broken
    BY ResetFacts
  <1>2. \A w \in Variants : VariantOK(w)
    BY DEF VariantInv
  <1>3. VariantOK(v)'
    BY <1>1, <1>2 DEF VariantOK
  <1>4. ASSUME NEW w \in Variants, w # v PROVE VariantOK(w)'
    BY <1>1, <1>2, <1>4 DEF VariantOK, Holds
  <1> QED
    BY <1>3, <1>4

LEMMA ResetCallKeeps ==
  ASSUME VariantInv, NEW v \in Variants, ResetCall(v)
  PROVE  VariantInv'
PROOF
  <1>1. /\ ~wild /\ pc = "idle" /\ v \in alive /\ Reset(v)
        /\ UNCHANGED <<alive, storage, call, pc, throws, broken, dropped, lost>>
    BY DEF ResetCall, Ready, ghosts
  <1>2. StateTypes'
    BY <1>1, ResetFacts DEF VariantInv, StateTypes
  <1>3. \A w \in Variants : VariantOK(w)'
    BY <1>1, ResetKeepsVariants
  <1>4. CallOK'
    BY <1>1 DEF VariantInv, CallOK
  <1> QED
    BY <1>1, <1>2, <1>3, <1>4, ResetFacts DEF VariantInv

LEMMA DestructorKeeps ==
  ASSUME VariantInv, NEW v \in Variants, Destructor(v)
  PROVE  VariantInv'
PROOF
  <1>1. /\ ~wild /\ pc = "idle" /\ v \in alive /\ Reset(v)
        /\ UNCHANGED <<call, pc, throws, broken, lost>>
        /\ alive' = alive \ {v} /\ dropped' = dropped \ {v}
        /\ storage' = IF index[v] = invalid_index THEN [storage EXCEPT ![v] = Raw] ELSE storage
    BY DEF Destructor, Ready
  <1>2. StateTypes'
    BY <1>1, ResetFacts DEF VariantInv, StateTypes
  <1>3. /\ \A w \in Variants \ {v} : storage'[w] = storage[w]
        /\ storage'[v] = Raw \/ index[v] # invalid_index
    BY <1>1 DEF VariantInv, StateTypes
  <1>4. \A w \in Variants : VariantOK(w)'
    BY <1>1, <1>3, ResetKeepsVariants
  <1>5. CallOK'
    BY <1>1 DEF VariantInv, CallOK
  <1> QED
    BY <1>1, <1>2, <1>4, <1>5, ResetFacts DEF VariantInv

LEMMA DestructorResetsKeeps ==
  ASSUME VariantInv, DestructorResets
  PROVE  VariantInv'
PROOF
  <1>1. PICK v \in alive : Reset(v)
    BY DEF DestructorResets
  <1>2. /\ ~wild /\ dying # <<>> /\ v \in Variants
        /\ UNCHANGED <<alive, storage, call, pc, throws, broken, dropped, lost>>
    BY DEF DestructorResets, ghosts, VariantInv, StateTypes
  <1>3. StateTypes'
    BY <1>1, <1>2, ResetFacts DEF VariantInv, StateTypes
  <1>4. \A w \in Variants : VariantOK(w)'
    BY <1>1, <1>2, ResetKeepsVariants
  <1>5. CallOK'
    <2>1. pc # "assign" /\ CallOK
      BY <1>2 DEF VariantInv, CallOK
    <2>2. pc # "idle" => call.to \in Variants
      BY <2>1, CallShape DEF VariantInv, StateTypes, CallOK
    <2>3. \A w \in Variants : index[w] = invalid_index => index'[w] = invalid_index
      BY <1>1, <1>2, ResetFacts
    <2> QED
      BY <1>2, <2>1, <2>2, <2>3 DEF CallOK
  <1> QED
    BY <1>1, <1>2, <1>3, <1>4, <1>5, ResetFacts DEF VariantInv

LEMMA DestructorEndsKeeps ==
  ASSUME VariantInv, DestructorEnds
  PROVE  VariantInv'
PROOF
  <1>0. PICK v : v = Last(dying)
    OBVIOUS
  <1>1. /\ ~wild /\ dying # <<>> /\ StateTypes
        /\ storage' = [storage EXCEPT ![v] = Raw] /\ dying' = Front(dying)
        /\ UNCHANGED <<alive, index, call, pc, wild, throws, broken, dropped, lost>>
    BY <1>0 DEF DestructorEnds, ghosts, VariantInv
  <1>2. /\ dying' \in Seq(Variants) /\ v \in Variants
        /\ \A w : Contains(dying, w) <=> (Contains(dying', w) \/ w = v)
    BY <1>0, <1>1, FrontContains DEF StateTypes
  <1>3. /\ storage' \in [Variants -> Objects \cup {Raw}] /\ storage'[v] = Raw
        /\ \A w \in Variants : w # v => storage'[w] = storage[w]
    BY <1>1, <1>2 DEF StateTypes
  <1>4. StateTypes'
    BY <1>1, <1>2, <1>3 DEF StateTypes
  <1>5. \A w \in Variants : VariantOK(w)'
    <2>1. \A w \in Variants : VariantOK(w)
      BY DEF VariantInv
    <2>2. VariantOK(v)'
      BY <1>1, <1>2, <1>3, <2>1 DEF VariantOK
    <2>3. ASSUME NEW w \in Variants, w # v PROVE VariantOK(w)'
      BY <1>1, <1>2, <1>3, <2>1, <2>3 DEF VariantOK, Holds
    <2> QED
      BY <2>2, <2>3
  <1>6. CallOK'
    BY <1>1 DEF VariantInv, CallOK
  <1> QED
    BY <1>1, <1>4, <1>5, <1>6 DEF VariantInv

-------------------------------------------------------------------------------
(* The calls.                                                              *)

LEMMA DefaultKeeps ==
  ASSUME VariantInv, NEW v \in Variants, Default(v)
  PROVE  VariantInv'
PROOF
  <1>1. /\ pc = "idle" /\ alive' = alive \cup {v}
        /\ UNCHANGED <<index, storage, call, pc, dying, wild, throws, broken, dropped, lost>>
    BY DEF Default, Ready, ghosts
  <1>2. StateTypes'
    BY <1>1 DEF VariantInv, StateTypes
  <1>3. ASSUME NEW w \in Variants PROVE VariantOK(w)'
    BY <1>1 DEF VariantInv, VariantOK, Holds
  <1>4. CallOK'
    BY <1>1 DEF VariantInv, CallOK
  <1> QED
    BY <1>1, <1>2, <1>3, <1>4 DEF VariantInv

LEMMA ConstructorKeeps ==
  ASSUME VariantInv, NEW c \in Puts \cup Passes, Constructor(c)
  PROVE  VariantInv'
PROOF
  <1>1. /\ c.to \notin alive /\ (c.op # "put" => c.from \in alive)
        /\ call' = c /\ pc' = "construct"
        /\ UNCHANGED <<alive, index, storage, dying, wild, throws, broken, dropped, lost>>
    BY DEF Constructor, ghosts
  <1>2. c # NoCall /\ c.to \in Variants
    BY CallShape
  <1>3. StateTypes'
    BY <1>1 DEF VariantInv, StateTypes
  <1>4. ASSUME NEW w \in Variants PROVE VariantOK(w)'
    BY <1>1 DEF VariantInv, VariantOK, Holds
  <1>5. CallOK'
    BY <1>1, <1>2 DEF VariantInv, VariantOK, CallOK
  <1> QED
    BY <1>1, <1>3, <1>4, <1>5 DEF VariantInv

(* An assignment or emplace that makes place first.                        *)
LEMMA ResetFirst ==
  ASSUME VariantInv, NEW c \in Puts \cup Passes, Ready,
         c.to \in alive, c.op # "put" => c.from \in alive /\ c.from # c.to,
         call' = c, pc' = "construct", Reset(c.to), UNCHANGED <<alive, storage, ghosts>>
  PROVE  VariantInv'
PROOF
  <1>1. /\ ~wild /\ c # NoCall /\ c.to \in Variants
        /\ UNCHANGED <<throws, broken, dropped, lost>>
    BY CallShape DEF Ready, ghosts
  <1>2. StateTypes'
    BY <1>1, ResetFacts DEF VariantInv, StateTypes
  <1>3. \A w \in Variants : VariantOK(w)'
    BY <1>1, ResetKeepsVariants
  <1>4. index'[c.to] = invalid_index /\ (wild' <=> c.to \in broken)
    BY <1>1, ResetFacts
  <1>5. CallOK'
    BY <1>1, <1>4 DEF CallOK
  <1> QED
    BY <1>1, <1>2, <1>3, <1>4, <1>5 DEF VariantInv

LEMMA AssignmentKeeps ==
  ASSUME VariantInv, NEW c \in Puts \cup Passes, Assignment(c)
  PROVE  VariantInv'
PROOF
  <1>1. /\ Ready /\ c.to \in alive /\ (c.op # "put" => c.from \in alive)
        /\ call' = c /\ UNCHANGED <<alive, storage, ghosts>>
    BY DEF Assignment
  <1>2. CASE index[c.to] = SourceIndex(c) /\ pc' = "assign" /\ UNCHANGED <<index, dying, wild>>
    <2> USE <1>1, <1>2 DEF ghosts
    <2>1. c # NoCall
      BY CallShape
    <2>2. StateTypes'
      BY DEF VariantInv, StateTypes
    <2>3. ASSUME NEW w \in Variants PROVE VariantOK(w)'
      BY DEF VariantInv, VariantOK, Holds
    <2>4. SourceIndex(c)' = SourceIndex(c)
      BY DEF SourceIndex
    <2>5. SourceIndex(call)' = SourceIndex(c)
      BY DEF SourceIndex
    <2>6. CallOK'
      BY <2>1, <2>5 DEF CallOK, Ready
    <2> QED
      BY <2>2, <2>3, <2>6 DEF VariantInv
  <1>3. CASE index[c.to] # SourceIndex(c) /\ pc' = "construct" /\ Reset(c.to)
    <2>1. c.op # "put" => c.from # c.to
      BY <1>3 DEF SourceIndex
    <2> QED
      BY <1>1, <1>3, <2>1, ResetFirst
  <1> QED
    BY <1>2, <1>3 DEF Assignment

LEMMA EmplaceKeeps ==
  ASSUME VariantInv, NEW c \in Puts \cup Passes, Emplace(c)
  PROVE  VariantInv'
PROOF
  BY ResetFirst DEF Emplace

-------------------------------------------------------------------------------
(* How the calls go on.                                                    *)

(* A call that is under way and that no destructor holds up.               *)
LEMMA UnderWay ==
  ASSUME VariantInv, pc # "idle"
  PROVE  /\ call \in Puts \cup Passes /\ call # NoCall
         /\ SourceIndex(call) \in Indices
         /\ call.op # "put" => /\ SourceIndex(call) = index[call.from]
                               /\ call.from \in alive
PROOF
  <1>1. call # NoCall /\ call \in Puts \cup Passes
    BY DEF VariantInv, CallOK, StateTypes
  <1> QED
    BY <1>1, SourceIsIndex DEF VariantInv, CallOK, SourceIndex

(* The visitor finds its source whole, and what it assigns to.             *)
LEMMA VisitFacts ==
  ASSUME VariantInv, NEW step \in {"assign", "construct"}, Visit(step)
  PROVE  /\ pc = step /\ ~wild /\ dying = <<>> /\ call' = NoCall /\ pc' = "idle"
         /\ UNCHANGED <<dying, wild>>
         /\ SourceIndex(call) \in Indices /\ SourceIndex(call) # invalid_index
         /\ SourceVal \in Values
         /\ Leftover \in Objects
         /\ call.to \notin broken
         /\ call.op = "put" => Leftover.type = call.what[1] /\ SourceVal = call.what[2]
         /\ call.op # "put" => /\ call.from \notin broken
                               /\ storage[call.from] = [type |-> Leftover.type, val |-> SourceVal]
         /\ step = "assign" => /\ index[call.to] = SourceIndex(call)
                               /\ storage[call.to] \in Objects
                               /\ storage[call.to].type = Leftover.type
PROOF
  <1>1. /\ pc = step /\ ~wild /\ dying = <<>> /\ call' = NoCall /\ pc' = "idle"
        /\ UNCHANGED <<dying, wild>>
        /\ SourceIndex(call) # invalid_index /\ SourceHolds
        /\ step = "assign" => Holds(call.to)
    BY DEF Visit, Return
  <1>2. /\ call \in Puts \cup Passes /\ SourceIndex(call) \in Indices
        /\ call.op # "put" => SourceIndex(call) = index[call.from] /\ call.from \in alive
    BY <1>1, UnderWay
  <1>3. call.to \in Variants /\ (call.op # "put" => call.from \in Variants)
    BY <1>2, CallShape
  <1>4. /\ apply_visitor(SourceIndex(call)) \in Range(Types)
        /\ Leftover.type = apply_visitor(SourceIndex(call)) /\ Leftover \in Objects
    BY <1>1, <1>2, IndexOfType DEF Leftover, Objects
  <1>5. call.op = "put" => /\ Leftover.type = call.what[1]
                           /\ SourceVal = call.what[2] /\ SourceVal \in Values
    <2> SUFFICES ASSUME call.op = "put"
                 PROVE  /\ Leftover.type = call.what[1]
                        /\ SourceVal = call.what[2] /\ SourceVal \in Values
      OBVIOUS
    <2>1. call.what[1] \in Range(Types) /\ call.what[2] \in Values
      BY <1>2, CallShape
    <2> QED
      BY <1>4, <2>1, SelectType DEF SourceIndex, SourceVal, apply_visitor
  <1>6. call.op # "put" => /\ call.from \notin broken /\ SourceVal \in Values
                           /\ storage[call.from] = [type |-> Leftover.type, val |-> SourceVal]
    <2> SUFFICES ASSUME call.op # "put"
                 PROVE  /\ call.from \notin broken /\ SourceVal \in Values
                        /\ storage[call.from] = [type |-> Leftover.type, val |-> SourceVal]
      OBVIOUS
    <2>1. storage[call.from] # Raw /\ storage[call.from].type = Leftover.type
      BY <1>1, <1>2, <1>4 DEF SourceHolds, Holds
    <2>2. storage[call.from] \in Objects /\ SourceVal = storage[call.from].val
      BY <1>3, <2>1 DEF VariantInv, StateTypes, SourceVal
    <2>3. call.from \notin broken
      BY <1>1, <1>3, <2>1 DEF VariantInv, VariantOK
    <2>4. SourceVal \in Values
      BY <1>1, <1>2, <1>3, <2>2, <2>3 DEF VariantInv, VariantOK
    <2> QED
      BY <2>1, <2>2, <2>3, <2>4 DEF Objects
  <1>7. call.to \notin broken
    BY <1>1, <1>3 DEF VariantInv, VariantOK, CallOK, Holds
  <1>8. step = "assign" => /\ index[call.to] = SourceIndex(call)
                           /\ storage[call.to] \in Objects
                           /\ storage[call.to].type = Leftover.type
    BY <1>1, <1>3, <1>4 DEF VariantInv, CallOK, StateTypes, Holds
  <1> QED
    BY <1>1, <1>2, <1>4, <1>5, <1>6, <1>7, <1>8

LEMMA NoSourceKeeps ==
  ASSUME VariantInv, NoSource
  PROVE  VariantInv'
PROOF
  <1>1. /\ pc # "idle" /\ SourceIndex(call) = invalid_index
        /\ call' = NoCall /\ pc' = "idle" /\ alive' = alive \cup {call.to}
        /\ UNCHANGED <<index, storage, dying, wild, throws, broken, dropped, lost>>
    BY DEF NoSource, Return, ghosts
  <1>2. call.to \in Variants
    BY <1>1, UnderWay, CallShape
  <1>3. StateTypes'
    BY <1>1, <1>2 DEF VariantInv, StateTypes
  <1>4. ASSUME NEW w \in Variants PROVE VariantOK(w)'
    BY <1>1 DEF VariantInv, VariantOK, Holds
  <1>5. CallOK'
    BY <1>1 DEF CallOK
  <1> QED
    BY <1>1, <1>3, <1>4, <1>5 DEF VariantInv

LEMMA VisitWildKeeps ==
  ASSUME VariantInv, VisitWild
  PROVE  VariantInv'
PROOF
  <1>1. /\ pc # "idle" /\ dying = <<>> /\ SourceIndex(call) # invalid_index
        /\ ~SourceHolds \/ (pc = "assign" /\ ~Holds(call.to))
        /\ wild' = TRUE
        /\ UNCHANGED <<alive, index, storage, call, pc, dying, throws, broken, dropped, lost>>
    BY DEF VisitWild, ghosts
  <1>2. StateTypes'
    BY <1>1 DEF VariantInv, StateTypes, VisitWild
  <1>3. ASSUME NEW w \in Variants PROVE VariantOK(w)'
    BY <1>1 DEF VariantInv, VariantOK, Holds, VisitWild
  <1>4. CallOK'
    BY <1>1 DEF VariantInv, CallOK, SourceIndex
  <1>5. broken # {}
    <2>1. /\ call.to \in Variants
          /\ call.op # "put" => call.from \in Variants /\ SourceIndex(call) = index[call.from]
      BY <1>1, UnderWay, CallShape
    <2>2. \E v \in Variants : index[v] # invalid_index /\ ~Holds(v)
      BY <1>1, <2>1 DEF VariantInv, CallOK, SourceHolds, VisitWild
    <2> QED
      BY <2>2 DEF VariantInv, VariantOK
  <1> QED
    BY <1>1, <1>2, <1>3, <1>4, <1>5 DEF VariantInv

(* What an assignment leaves: the value in the target, and a moved-from    *)
(* object in the source of a move, which may be the target itself.         *)
LEMMA AssignFacts ==
  ASSUME VariantInv, Assign
  PROVE  /\ Visit("assign") /\ UNCHANGED <<alive, throws, broken, dropped, lost>>
         /\ call.to \in alive /\ (call.op = "move" => call.from \in Variants)
         /\ index' \in [Variants -> Indices]
         /\ storage' \in [Variants -> Objects \cup {Raw}]
         /\ \A w \in Variants :
              IF call.op = "move" /\ w = call.from
              THEN index'[w] = invalid_index /\ storage'[w] = Leftover
              ELSE /\ index'[w] = index[w]
                   /\ storage'[w] = IF w = call.to
                                    THEN [type |-> Leftover.type, val |-> SourceVal]
                                    ELSE storage[w]
PROOF
  <1>0. Visit("assign") /\ UNCHANGED <<alive, throws, broken, dropped, lost>>
    BY DEF Assign, ghosts
  <1>1. /\ pc = "assign" /\ SourceVal \in Values /\ Leftover \in Objects
        /\ storage[call.to] \in Objects /\ storage[call.to].type = Leftover.type
    BY <1>0, VisitFacts
  <1>2. /\ call.to \in alive /\ call.to \in Variants
        /\ call.op = "move" => call.from \in Variants
    BY <1>1, UnderWay, CallShape DEF VariantInv, CallOK
  <1> DEFINE stored == [storage EXCEPT ![call.to].val = SourceVal]
             object == [type |-> Leftover.type, val |-> SourceVal]
  <1>3. object \in Objects /\ object = [storage[call.to] EXCEPT !.val = SourceVal]
    BY <1>1 DEF Objects
  <1>4. /\ stored \in [Variants -> Objects \cup {Raw}]
        /\ \A w \in Variants : stored[w] = IF w = call.to THEN object ELSE storage[w]
    BY <1>2, <1>3 DEF VariantInv, StateTypes
  <1>5. index' = Emptied(index) /\ storage' = MovedOut(stored)
    BY DEF Assign
  <1> HIDE DEF stored, object
  <1>6. /\ index' \in [Variants -> Indices]
        /\ \A w \in Variants : index'[w] = IF call.op = "move" /\ w = call.from
                                           THEN invalid_index ELSE index[w]
    <2>1. index \in [Variants -> Indices] /\ invalid_index \in Indices
      BY DEF VariantInv, StateTypes, Indices
    <2> QED
      BY <1>2, <1>5, <2>1 DEF Emptied
  <1>7. /\ storage' \in [Variants -> Objects \cup {Raw}]
        /\ \A w \in Variants : storage'[w] = IF call.op = "move" /\ w = call.from
                                             THEN Leftover ELSE stored[w]
    <2>1. stored \in [Variants -> Objects \cup {Raw}] /\ Leftover \in Objects
      BY <1>1, <1>4
    <2> QED
      BY <1>2, <1>5, <2>1 DEF MovedOut
  <1> QED
    BY <1>0, <1>2, <1>4, <1>6, <1>7 DEF object

LEMMA AssignKeeps ==
  ASSUME VariantInv, Assign
  PROVE  VariantInv'
PROOF
  <1>0. /\ Visit("assign") /\ UNCHANGED <<alive, throws, broken, dropped, lost>>
        /\ index' \in [Variants -> Indices]
        /\ storage' \in [Variants -> Objects \cup {Raw}]
    BY AssignFacts
  <1>1. /\ ~wild /\ dying = <<>> /\ call' = NoCall /\ pc' = "idle"
        /\ UNCHANGED <<dying, wild>>
        /\ SourceIndex(call) # invalid_index
        /\ SourceVal \in Values /\ Leftover \in Objects
        /\ call.to \notin broken /\ index[call.to] = SourceIndex(call)
    BY <1>0, VisitFacts
  <1>2. StateTypes'
    BY <1>0, <1>1 DEF VariantInv, StateTypes
  <1>3. ASSUME NEW w \in Variants PROVE VariantOK(w)'
    <2>0. VariantOK(w) /\ ~Contains(dying, w)
      BY <1>1, NoneContained DEF VariantInv
    <2>1. CASE call.op = "move" /\ w = call.from
      <3>1. index'[w] = invalid_index /\ storage'[w] = Leftover
        BY <2>1, AssignFacts
      <3>2. w \notin broken /\ Leftover.val = Moved
        BY <1>0, <2>1, VisitFacts DEF Leftover
      <3> QED
        BY <1>0, <1>1, <3>1, <3>2 DEF VariantOK
    <2>2. CASE ~(call.op = "move" /\ w = call.from) /\ w = call.to
      <3>1. /\ index'[w] = index[w] /\ index[w] = SourceIndex(call)
            /\ storage'[w] = [type |-> Leftover.type, val |-> SourceVal]
        BY <1>1, <2>2, AssignFacts
      <3>2. storage'[w] \in Objects /\ storage'[w].type = apply_visitor(index'[w])
        BY <1>1, <3>1 DEF Leftover, Objects
      <3>3. storage'[w] # Raw
        BY <3>2, VariantAssumption DEF Objects
      <3> QED
        BY <1>0, <1>1, <2>0, <2>2, <3>1, <3>2, <3>3 DEF VariantOK, Holds
    <2>3. CASE ~(call.op = "move" /\ w = call.from) /\ w # call.to
      <3>1. index'[w] = index[w] /\ storage'[w] = storage[w]
        BY <2>3, AssignFacts
      <3> QED
        BY <1>0, <1>1, <2>0, <3>1 DEF VariantOK, Holds
    <2> QED
      BY <2>1, <2>2, <2>3
  <1>4. CallOK'
    BY <1>1 DEF CallOK
  <1> QED
    BY <1>0, <1>1, <1>2, <1>3, <1>4 DEF VariantInv

LEMMA AssignThrowsKeeps ==
  ASSUME VariantInv, AssignThrows
  PROVE  VariantInv'
PROOF
  <1>0. Visit("assign") /\ UNCHANGED <<alive, storage, broken, lost>>
    BY DEF AssignThrows
  <1>1. /\ pc = "assign" /\ ~wild /\ dying = <<>> /\ call' = NoCall /\ pc' = "idle"
        /\ UNCHANGED <<dying, wild>>
    BY <1>0, VisitFacts
  <1>2. call.to \in Variants /\ (call.op = "move" => call.from \in Variants)
    BY <1>1, UnderWay, CallShape
  <1>3. /\ index' \in [Variants -> Indices]
        /\ \A w \in Variants : index'[w] = IF call.op = "move" /\ w = call.from
                                           THEN invalid_index ELSE index[w]
    <2>1. index \in [Variants -> Indices] /\ invalid_index \in Indices
      BY DEF VariantInv, StateTypes, Indices
    <2>2. index' = Emptied(index)
      BY DEF AssignThrows
    <2> QED
      BY <1>2, <2>1, <2>2 DEF Emptied
  <1>4. /\ throws' = throws + 1
        /\ dropped' = IF call.op = "move" THEN dropped \cup {call.from} ELSE dropped
    BY DEF AssignThrows
  <1>5. StateTypes'
    BY <1>0, <1>1, <1>2, <1>3, <1>4 DEF VariantInv, StateTypes
  <1>6. ASSUME NEW w \in Variants PROVE VariantOK(w)'
    <2>1. VariantOK(w)
      BY DEF VariantInv
    <2>2. CASE call.op = "move" /\ w = call.from
      <3>1. index'[w] = invalid_index /\ w \in dropped' /\ w \notin broken
        BY <1>0, <1>3, <1>4, <2>2, VisitFacts
      <3> QED
        BY <1>0, <1>1, <3>1 DEF VariantOK
    <2>3. CASE ~(call.op = "move" /\ w = call.from)
      <3>1. index'[w] = index[w] /\ (w \in dropped' <=> w \in dropped)
        BY <1>3, <1>4, <2>3
      <3> QED
        BY <1>0, <1>1, <2>1, <3>1 DEF VariantOK, Holds
    <2> QED
      BY <2>2, <2>3
  <1>7. CallOK'
    BY <1>1 DEF CallOK
  <1> QED
    BY <1>0, <1>1, <1>5, <1>6, <1>7 DEF VariantInv

(* What a construction leaves, in a variant that was empty and is not the  *)
(* source.                                                                 *)
LEMMA ConstructFacts ==
  ASSUME VariantInv, Construct
  PROVE  /\ Visit("construct") /\ UNCHANGED <<throws, broken>>
         /\ alive' = alive \cup {call.to} /\ dropped' = dropped \ {call.to} /\ ~lost'
         /\ call.to \in Variants /\ index[call.to] = invalid_index
         /\ call.op = "move" => call.from \in Variants /\ call.from # call.to
         /\ index' \in [Variants -> Indices]
         /\ storage' \in [Variants -> Objects \cup {Raw}]
         /\ index'[call.to] = SourceIndex(call)
         /\ storage'[call.to] = [type |-> Leftover.type, val |-> SourceVal]
         /\ call.op = "move" => /\ index'[call.from] = invalid_index
                                /\ storage'[call.from] = Leftover
         /\ \A w \in Variants : w # call.to /\ ~(call.op = "move" /\ w = call.from) =>
              index'[w] = index[w] /\ storage'[w] = storage[w]
PROOF
  <1>0. /\ Visit("construct") /\ UNCHANGED <<throws, broken>>
        /\ alive' = alive \cup {call.to} /\ dropped' = dropped \ {call.to}
    BY DEF Construct
  <1>1. /\ pc = "construct" /\ dying = <<>>
        /\ SourceIndex(call) \in Indices /\ SourceVal \in Values /\ Leftover \in Objects
    BY <1>0, VisitFacts
  <1>2. /\ call.to \in Variants /\ index[call.to] = invalid_index
        /\ call.op = "move" => call.from \in Variants /\ call.from # call.to
    BY <1>1, UnderWay, CallShape DEF VariantInv, CallOK
  <1> DEFINE object == [type |-> Leftover.type, val |-> SourceVal]
             indexed == [index EXCEPT ![call.to] = SourceIndex(call)]
             stored == [storage EXCEPT ![call.to] = object]
  <1>3. object \in Objects /\ object = [Leftover EXCEPT !.val = SourceVal]
    BY <1>1 DEF Objects
  <1>4. /\ stored \in [Variants -> Objects \cup {Raw}]
        /\ \A w \in Variants : stored[w] = IF w = call.to THEN object ELSE storage[w]
    BY <1>2, <1>3 DEF VariantInv, StateTypes
  <1>5. /\ indexed \in [Variants -> Indices]
        /\ \A w \in Variants : indexed[w] = IF w = call.to THEN SourceIndex(call) ELSE index[w]
    BY <1>1, <1>2 DEF VariantInv, StateTypes
  <1>6. index' = Emptied(indexed) /\ storage' = MovedOut(stored)
    BY <1>3 DEF Construct
  <1> HIDE DEF object, indexed, stored
  <1>7. /\ index' \in [Variants -> Indices]
        /\ \A w \in Variants : index'[w] = IF call.op = "move" /\ w = call.from
                                           THEN invalid_index ELSE indexed[w]
    <2>1. invalid_index \in Indices
      BY DEF Indices
    <2> QED
      BY <1>2, <1>5, <1>6, <2>1 DEF Emptied
  <1>8. /\ storage' \in [Variants -> Objects \cup {Raw}]
        /\ \A w \in Variants : storage'[w] = IF call.op = "move" /\ w = call.from
                                             THEN Leftover ELSE stored[w]
    BY <1>1, <1>2, <1>4, <1>6 DEF MovedOut
  <1>9. ~lost'
    <2>1. storage[call.to] = Raw \/ storage[call.to].val = Moved \/ call.to \in dropped
      BY <1>1, <1>2, NoneContained DEF VariantInv, VariantOK
    <2> QED
      BY <2>1 DEF Construct, VariantInv
  <1> QED
    BY <1>0, <1>2, <1>4, <1>5, <1>7, <1>8, <1>9 DEF object

LEMMA ConstructKeeps ==
  ASSUME VariantInv, Construct
  PROVE  VariantInv'
PROOF
  <1>0. /\ Visit("construct") /\ UNCHANGED <<throws, broken>>
        /\ alive' = alive \cup {call.to} /\ dropped' = dropped \ {call.to} /\ ~lost'
        /\ call.to \in Variants
        /\ index' \in [Variants -> Indices]
        /\ storage' \in [Variants -> Objects \cup {Raw}]
    BY ConstructFacts
  <1>1. /\ ~wild /\ dying = <<>> /\ call' = NoCall /\ pc' = "idle"
        /\ UNCHANGED <<dying, wild>>
        /\ SourceVal \in Values /\ Leftover \in Objects
        /\ call.to \notin broken
    BY <1>0, VisitFacts
  <1>2. StateTypes'
    BY <1>0, <1>1 DEF VariantInv, StateTypes
  <1>3. ASSUME NEW w \in Variants PROVE VariantOK(w)'
    <2>0. VariantOK(w) /\ ~Contains(dying, w)
      BY <1>1, NoneContained DEF VariantInv
    <2>1. CASE call.op = "move" /\ w = call.from
      <3>1. index'[w] = invalid_index /\ storage'[w] = Leftover
        BY <2>1, ConstructFacts
      <3>2. w \notin broken /\ Leftover.val = Moved
        BY <1>0, <2>1, VisitFacts DEF Leftover
      <3> QED
        BY <1>0, <1>1, <3>1, <3>2 DEF VariantOK
    <2>2. CASE w = call.to
      <3>1. /\ index'[w] = SourceIndex(call)
            /\ storage'[w] = [type |-> Leftover.type, val |-> SourceVal]
        BY <2>2, ConstructFacts
      <3>2. storage'[w] \in Objects /\ storage'[w].type = apply_visitor(index'[w])
        BY <1>1, <3>1 DEF Leftover, Objects
      <3>3. storage'[w] # Raw
        BY <3>2, VariantAssumption DEF Objects
      <3>4. index'[w] # invalid_index
        BY <1>0, <3>1, VisitFacts
      <3> QED
        BY <1>0, <1>1, <2>0, <2>2, <3>1, <3>2, <3>3, <3>4 DEF VariantOK, Holds
    <2>3. CASE ~(call.op = "move" /\ w = call.from) /\ w # call.to
      <3>1. index'[w] = index[w] /\ storage'[w] = storage[w]
        BY <2>3, ConstructFacts
      <3> QED
        BY <1>0, <1>1, <2>0, <2>3, <3>1 DEF VariantOK, Holds
    <2> QED
      BY <2>1, <2>2, <2>3
  <1>4. CallOK'
    BY <1>1 DEF CallOK
  <1> QED
    BY <1>0, <1>1, <1>2, <1>3, <1>4 DEF VariantInv

(* What is left when a constructor throws: a variant that was there is     *)
(* broken, one that was to be constructed is not there; what was to be     *)
(* moved is given up.                                                      *)
LEMMA ConstructThrowsFacts ==
  ASSUME VariantInv, ConstructThrows
  PROVE  /\ Visit("construct") /\ UNCHANGED <<alive, lost>> /\ throws' = throws + 1
         /\ call.to \in Variants /\ index[call.to] = invalid_index
         /\ call.op = "move" => call.from \in Variants /\ call.from # call.to
         /\ dropped' = (dropped \ {call.to})
                          \cup IF call.op = "move" THEN {call.from} ELSE {}
         /\ index' \in [Variants -> Indices]
         /\ storage' \in [Variants -> Objects \cup {Raw}]
         /\ storage'[call.to] = Raw
         /\ IF call.to \in alive
            THEN broken' = broken \cup {call.to} /\ index'[call.to] = SourceIndex(call)
            ELSE broken' = broken /\ index'[call.to] = invalid_index
         /\ call.op = "move" => index'[call.from] = invalid_index
         /\ \A w \in Variants : w # call.to /\ ~(call.op = "move" /\ w = call.from) =>
              index'[w] = index[w]
         /\ \A w \in Variants : w # call.to => storage'[w] = storage[w]
PROOF
  <1>0. /\ Visit("construct") /\ UNCHANGED <<alive, lost>> /\ throws' = throws + 1
        /\ dropped' = (dropped \ {call.to})
                         \cup IF call.op = "move" THEN {call.from} ELSE {}
        /\ storage' = [storage EXCEPT ![call.to] = Raw]
    BY DEF ConstructThrows
  <1>1. pc = "construct" /\ SourceIndex(call) \in Indices /\ invalid_index \in Indices
    BY <1>0, VisitFacts DEF Indices
  <1>2. /\ call.to \in Variants /\ index[call.to] = invalid_index
        /\ call.op = "move" => call.from \in Variants /\ call.from # call.to
    BY <1>1, UnderWay, CallShape DEF VariantInv, CallOK
  <1>3. /\ storage' \in [Variants -> Objects \cup {Raw}] /\ storage'[call.to] = Raw
        /\ \A w \in Variants : w # call.to => storage'[w] = storage[w]
    BY <1>0, <1>2 DEF VariantInv, StateTypes
  <1>4. index \in [Variants -> Indices]
    BY DEF VariantInv, StateTypes
  <1>5. CASE call.to \in alive
    <2> DEFINE indexed == [index EXCEPT ![call.to] = SourceIndex(call)]
    <2>1. index' = Emptied(indexed) /\ broken' = broken \cup {call.to}
      BY <1>5 DEF ConstructThrows
    <2>2. /\ indexed \in [Variants -> Indices]
          /\ \A w \in Variants : indexed[w] = IF w = call.to THEN SourceIndex(call) ELSE index[w]
      BY <1>1, <1>2, <1>4
    <2> HIDE DEF indexed
    <2>3. /\ index' \in [Variants -> Indices]
          /\ \A w \in Variants : index'[w] = IF call.op = "move" /\ w = call.from
                                             THEN invalid_index ELSE indexed[w]
      BY <1>1, <1>2, <2>1, <2>2 DEF Emptied
    <2> QED
      BY <1>0, <1>2, <1>3, <1>5, <2>1, <2>2, <2>3
  <1>6. CASE call.to \notin alive
    <2>1. index' = Emptied(index) /\ broken' = broken
      BY <1>6 DEF ConstructThrows
    <2>2. /\ index' \in [Variants -> Indices]
          /\ \A w \in Variants : index'[w] = IF call.op = "move" /\ w = call.from
                                             THEN invalid_index ELSE index[w]
      BY <1>1, <1>2, <1>4, <2>1 DEF Emptied
    <2> QED
      BY <1>0, <1>2, <1>3, <1>6, <2>1, <2>2
  <1> QED
    BY <1>5, <1>6

LEMMA ConstructThrowsKeeps ==
  ASSUME VariantInv, ConstructThrows
  PROVE  VariantInv'
PROOF
  <1>0. /\ Visit("construct") /\ UNCHANGED <<alive, lost>> /\ throws' = throws + 1
        /\ call.to \in Variants /\ (call.op = "move" => call.from \in Variants)
        /\ dropped' = (dropped \ {call.to})
                         \cup IF call.op = "move" THEN {call.from} ELSE {}
        /\ index' \in [Variants -> Indices]
        /\ storage' \in [Variants -> Objects \cup {Raw}]
        /\ broken' = IF call.to \in alive THEN broken \cup {call.to} ELSE broken
    BY ConstructThrowsFacts
  <1>1. /\ ~wild /\ dying = <<>> /\ call' = NoCall /\ pc' = "idle"
        /\ UNCHANGED <<dying, wild>> /\ SourceIndex(call) # invalid_index
        /\ call.to \notin broken
    BY <1>0, VisitFacts
  <1>2. StateTypes'
    BY <1>0, <1>1 DEF VariantInv, StateTypes
  <1>3. ASSUME NEW w \in Variants PROVE VariantOK(w)'
    <2>0. VariantOK(w) /\ ~Contains(dying, w)
      BY <1>1, NoneContained DEF VariantInv
    <2>1. CASE call.op = "move" /\ w = call.from
      <3>1. /\ index'[w] = invalid_index /\ w \in dropped' /\ w # call.to
        BY <1>0, <2>1, ConstructThrowsFacts
      <3>2. w \notin broken
        BY <1>0, <2>1, VisitFacts
      <3> QED
        BY <1>0, <1>1, <3>1, <3>2 DEF VariantOK
    <2>2. CASE w = call.to
      <3>1. /\ storage'[w] = Raw
            /\ IF w \in alive
               THEN broken' = broken \cup {w} /\ index'[w] = SourceIndex(call)
               ELSE broken' = broken /\ index'[w] = invalid_index
        BY <2>2, ConstructThrowsFacts
      <3> QED
        BY <1>0, <1>1, <2>0, <2>2, <3>1 DEF VariantOK
    <2>3. CASE ~(call.op = "move" /\ w = call.from) /\ w # call.to
      <3>1. index'[w] = index[w] /\ storage'[w] = storage[w]
        BY <2>3, ConstructThrowsFacts
      <3>2. (w \in dropped' <=> w \in dropped) /\ (w \in broken' <=> w \in broken)
        BY <1>0, <2>3
      <3> QED
        BY <1>0, <1>1, <2>0, <3>1, <3>2 DEF VariantOK, Holds
    <2> QED
      BY <2>1, <2>2, <2>3
  <1>4. CallOK'
    BY <1>1 DEF CallOK
  <1> QED
    BY <1>0, <1>1, <1>2, <1>3, <1>4 DEF VariantInv

LEMMA VariantInvStep == VariantInv /\ [Next]_vars => VariantInv'
PROOF
  <1> SUFFICES ASSUME VariantInv, [Next]_vars PROVE VariantInv'
    OBVIOUS
  <1>1. ASSUME NEW v \in Variants, Default(v) \/ ResetCall(v) \/ Destructor(v)
        PROVE  VariantInv'
    BY <1>1, DefaultKeeps, ResetCallKeeps, DestructorKeeps
  <1>2. ASSUME NEW c \in Puts \cup Passes, Constructor(c) \/ Assignment(c) \/ Emplace(c)
        PROVE  VariantInv'
    BY <1>2, ConstructorKeeps, AssignmentKeeps, EmplaceKeeps
  <1>3. CASE NoSource \/ VisitWild
    BY <1>3, NoSourceKeeps, VisitWildKeeps
  <1>4. CASE Assign \/ AssignThrows \/ Construct \/ ConstructThrows
    BY <1>4, AssignKeeps, AssignThrowsKeeps, ConstructKeeps, ConstructThrowsKeeps
  <1>5. CASE DestructorResets \/ DestructorEnds
    BY <1>5, DestructorResetsKeeps, DestructorEndsKeeps
  <1>6. CASE UNCHANGED vars
    <2> USE <1>6 DEF vars, ghosts
    <2>1. StateTypes'
      BY DEF VariantInv, StateTypes
    <2>2. ASSUME NEW w \in Variants PROVE VariantOK(w)'
      BY DEF VariantInv, VariantOK, Holds
    <2>3. CallOK'
      BY DEF VariantInv, CallOK, SourceIndex
    <2> QED
      BY <2>1, <2>2, <2>3 DEF VariantInv
  <1> QED
    BY <1>1, <1>2, <1>3, <1>4, <1>5, <1>6 DEF Next

(* The invariant holds in every reachable state.                           *)
THEOREM VariantInvAlways == Spec => []VariantInv
PROOF
  BY VariantInvInit, VariantInvStep, PTL DEF Spec

-------------------------------------------------------------------------------
(* The properties.                                                         *)

(* An object is constructed before it is used, destroyed once and never    *)
(* overwritten while it has a value; get<T>() finds exactly the objects of *)
(* type T; only a constructor that has thrown leads to undefined behaviour *)
(* (copy_, move_, emplace, reset and ~variant).                            *)
THEOREM VariantObjectLifetime == Spec => []ObjectLifetime
PROOF
  <1>1. VariantInv => ObjectLifetime
    <2> SUFFICES ASSUME VariantInv PROVE ObjectLifetime
      OBVIOUS
    <2>1. /\ StateTypes /\ ~lost /\ (wild => broken # {})
          /\ \A v \in Variants : VariantOK(v)
      BY DEF VariantInv
    <2>2. ASSUME NEW v \in alive \ broken, index[v] # invalid_index
          PROVE  Holds(v) /\ storage[v].val # Moved /\ ~Contains(dying, v)
      BY <2>1, <2>2, VariantAssumption DEF StateTypes, VariantOK
    <2>3. ASSUME NEW v \in alive \ broken, NEW T \in Range(Types)
          PROVE  get(v, T) # nullptr <=> index[v] # invalid_index /\ storage[v].type = T
      <3>1. select_type(T) # invalid_index /\ apply_visitor(select_type(T)) = T
        BY SelectType, VariantAssumption DEF invalid_index, apply_visitor
      <3>2. index[v] # invalid_index => /\ storage[v] # Raw
                                        /\ storage[v].type = apply_visitor(index[v])
                                        /\ select_type(apply_visitor(index[v])) = index[v]
        BY <2>1, <2>2, IndexOfType DEF StateTypes, Holds
      <3> QED
        BY <3>1, <3>2 DEF get, is, nullptr
    <2>4. \A v \in Variants \ dropped : (index[v] = invalid_index /\ ~Contains(dying, v)) =>
            storage[v] = Raw \/ storage[v].val = Moved
      BY <2>1 DEF VariantOK
    <2> QED
      BY <2>1, <2>2, <2>3, <2>4 DEF ObjectLifetime
  <1> QED
    BY <1>1, VariantInvAlways, PTL

(* The relations of variants, and of a variant with a value on either      *)
(* side, order what they hold: nothing first, then by type, then by value  *)
(* (cmp_ and the operators).                                               *)
THEOREM VariantComparesByContent == Spec => []ComparesByContent
PROOF
  <1>1. VariantInv => ComparesByContent
    <2> DEFINE Of(v)   == [index |-> index[v], val |-> IF index[v] = invalid_index THEN 0
                                                       ELSE storage[v].val]
               Rank(x) == IF x.index = invalid_index THEN <<0, 0>>
                          ELSE <<select_type(Types[x.index]), x.val>>
               Before(x, y) == LET a == Rank(x) b == Rank(y)
                               IN  a[1] < b[1] \/ (a[1] = b[1] /\ a[2] < b[2])
               held    == {Of(v) : v \in alive \ broken}
               values  == {[index |-> select_type(c[1]), val |-> c[2]] : c \in Contents}
               Valid(x) == /\ x.index \in Nat /\ x.val \in Int
                           /\ x.index = 0 => x.val = 0
                           /\ Rank(x) = <<x.index, x.val>>
    <2>1. ASSUME VariantInv, NEW x \in held PROVE Valid(x)
      <3>1. PICK v \in alive \ broken : x = Of(v)
        OBVIOUS
      <3>2. index[v] \in Indices /\ VariantOK(v)
        BY <2>1 DEF VariantInv, StateTypes
      <3>3. index[v] # invalid_index => storage[v].val \in Int
        BY <3>2, VariantAssumption DEF VariantOK
      <3>4. index[v] \in Nat
        BY <3>2, IndexOfType, VariantAssumption
      <3>5. index[v] # invalid_index => select_type(Types[index[v]]) = index[v]
        BY <3>2, IndexOfType DEF apply_visitor
      <3> QED
        BY <3>1, <3>3, <3>4, <3>5 DEF invalid_index
    <2>2. ASSUME NEW y \in values PROVE Valid(y)
      <3>1. PICK c \in Contents : y = [index |-> select_type(c[1]), val |-> c[2]]
        OBVIOUS
      <3>2. c[1] \in Range(Types) /\ c[2] \in Int
        BY VariantAssumption DEF Contents
      <3>3. /\ select_type(c[1]) \in Nat /\ select_type(c[1]) # 0
            /\ Types[select_type(c[1])] = c[1]
        BY <3>2, SelectType, VariantAssumption
      <3> QED
        BY <3>1, <3>2, <3>3 DEF invalid_index
    <2>3. ASSUME NEW x, NEW y, Valid(x), Valid(y)
          PROVE  /\ less(x, y) = Before(x, y) /\ greater(x, y) = Before(y, x)
                 /\ equal_to(x, y) = (Rank(x) = Rank(y))
                 /\ not_equal_to(x, y) = (Rank(x) # Rank(y))
                 /\ less_equal(x, y) = ~Before(y, x) /\ greater_equal(x, y) = ~Before(x, y)
                 /\ value_equal_to(y, x) = equal_to(y, x)
                 /\ value_not_equal_to(y, x) = not_equal_to(y, x)
                 /\ value_less(y, x) = Before(y, x) /\ value_greater(y, x) = Before(x, y)
                 /\ value_less_equal(y, x) = ~Before(x, y)
                 /\ value_greater_equal(y, x) = ~Before(y, x)
      <3>1. PICK i, j, a, b : /\ i = x.index /\ j = y.index
                              /\ a = x.val /\ b = y.val
        OBVIOUS
      <3>2. /\ i \in Nat /\ j \in Nat /\ a \in Int /\ b \in Int
            /\ i = 0 => a = 0
            /\ j = 0 => b = 0
            /\ Rank(x) = <<i, a>> /\ Rank(y) = <<j, b>>
        BY <2>3, <3>1
      <3>3. /\ Before(x, y) <=> (i < j \/ (i = j /\ a < b))
            /\ Before(y, x) <=> (j < i \/ (j = i /\ b < a))
            /\ (Rank(x) = Rank(y)) <=> (i = j /\ a = b)
        BY <3>2
      <3>4. /\ cmp_(x, y) = IF i = j /\ i # 0 THEN <<a, b>> ELSE <<i, j>>
            /\ cmp_(y, x) = IF i = j /\ j # 0 THEN <<b, a>> ELSE <<j, i>>
        BY <3>1 DEF cmp_, SameType, visitor_cmp, invalid_index
      <3> HIDE DEF Before, Rank, Valid
      <3>5. /\ less(x, y) <=> Before(x, y)
            /\ greater(x, y) <=> Before(y, x)
            /\ less_equal(x, y) <=> ~Before(y, x)
            /\ greater_equal(x, y) <=> ~Before(x, y)
        BY <3>2, <3>3, <3>4 DEF less, greater, less_equal, greater_equal
      <3>6. /\ equal_to(x, y) <=> Rank(x) = Rank(y)
            /\ not_equal_to(x, y) <=> Rank(x) # Rank(y)
            /\ equal_to(y, x) <=> Rank(x) = Rank(y)
            /\ not_equal_to(y, x) <=> Rank(x) # Rank(y)
        BY <3>2, <3>3, <3>4 DEF equal_to, not_equal_to
      <3> QED
        BY <3>5, <3>6
        DEF Before, less, greater, less_equal, greater_equal, equal_to, not_equal_to,
            value_equal_to, value_not_equal_to, value_less, value_greater,
            value_less_equal, value_greater_equal
    <2> HIDE DEF Valid
    <2> QED
      BY <2>1, <2>2, <2>3 DEF ComparesByContent
  <1> QED
    BY <1>1, VariantInvAlways, PTL

-------------------------------------------------------------------------------
(* The refinement of Holder.                                               *)

ContentOf == [v \in Variants |-> Content(v)]
CallOf    == [p \in {Main} |-> call]

(* A variant that is reset loses its content, and no other does.           *)
LEMMA ResetIsClear ==
  ASSUME VariantInv, ~wild, NEW v \in Variants, Reset(v), UNCHANGED broken,
         \A w \in Variants \ {v} : (w \in alive' <=> w \in alive) /\ storage'[w] = storage[w]
  PROVE  ContentOf' = [ContentOf EXCEPT ![v] = Empty]
PROOF
  <1>1. /\ index'[v] = invalid_index
        /\ \A w \in Variants : w # v => index'[w] = index[w]
    BY ResetFacts
  <1>2. Content(v)' = Empty
    BY <1>1 DEF Content
  <1>3. ASSUME NEW w \in Variants, w # v PROVE Content(w)' = Content(w)
    BY <1>1, <1>3 DEF Content
  <1>4. \A w \in Variants : ContentOf'[w] = IF w = v THEN Empty ELSE ContentOf[w]
    BY <1>2, <1>3 DEF ContentOf
  <1> QED
    BY <1>4 DEF ContentOf

LEMMA ContentStays ==
  ASSUME \A w \in Variants : Content(w)' = Content(w)
  PROVE  ContentOf' = ContentOf
PROOF
  BY DEF ContentOf

(* The three ways for a variant to have no content, or to have what is in  *)
(* storage_.                                                               *)
LEMMA ContentIs ==
  ASSUME NEW v \in Variants
  PROVE  /\ index[v] = invalid_index \/ v \in broken \/ v \notin alive => ContentOf[v] = Empty
         /\ index[v] # invalid_index /\ v \notin broken /\ v \in alive
              => ContentOf[v] = <<storage[v].type, storage[v].val>>
PROOF
  BY DEF ContentOf, Content

(* A call begins.                                                          *)
LEMMA BeginRefines ==
  ASSUME VariantInv, NEW c \in Puts \cup Passes, Constructor(c) \/ Assignment(c) \/ Emplace(c)
  PROVE  Abstract!Begin(Main)
PROOF
  <1>1. /\ Ready /\ call' = c /\ UNCHANGED <<alive, storage, throws, broken>>
        /\ c.to \in Variants
    BY CallShape DEF Constructor, Assignment, Emplace, ghosts
  <1>2. CallOf[Main] = NoCall /\ CallOf' = [CallOf EXCEPT ![Main] = c]
    BY <1>1 DEF CallOf, Ready, VariantInv, CallOK
  <1>3. \/ UNCHANGED ContentOf
        \/ /\ c \in Puts \/ c.from # c.to
           /\ ContentOf' = [ContentOf EXCEPT ![c.to] = Empty]
    <2>1. CASE UNCHANGED index
      <3>1. \A w \in Variants : Content(w)' = Content(w)
        BY <1>1, <2>1 DEF Content
      <3> QED
        BY <3>1, ContentStays
    <2>2. CASE Reset(c.to) /\ (c \in Puts \/ c.from # c.to)
      BY <1>1, <2>2, ResetIsClear DEF Ready
    <2>3. CASE Constructor(c)
      BY <2>1, <2>3 DEF Constructor
    <2>4. CASE Assignment(c)
      <3>1. CASE index[c.to] = SourceIndex(c) /\ UNCHANGED index
        BY <2>1, <3>1
      <3>2. CASE index[c.to] # SourceIndex(c) /\ Reset(c.to)
        <4>1. c \in Puts \/ c.from # c.to
          BY <3>2, CallShape DEF SourceIndex
        <4> QED
          BY <2>2, <3>2, <4>1
      <3> QED
        BY <2>4, <3>1, <3>2 DEF Assignment
    <2>5. CASE Emplace(c)
      BY <2>2, <2>5, CallShape DEF Emplace
    <2> QED
      BY <2>3, <2>4, <2>5
  <1>4. c \in Abstract!Puts \cup Abstract!Passes /\ (c \in Puts <=> c \in Abstract!Puts)
    BY DEF Puts, Passes, Abstract!Puts, Abstract!Passes
  <1>5. throws' = throws
    BY <1>1
  <1> QED
    BY <1>2, <1>3, <1>4, <1>5
    DEF Abstract!Begin, Abstract!NoCall, NoCall, ContentOf, CallOf

(* A call ends, and its effect is there.                                   *)
LEMMA SucceedRefines ==
  ASSUME call \in Puts \cup Passes, call' = NoCall, throws' = throws,
         \/ /\ call.op = "put"
            /\ ContentOf' = [ContentOf EXCEPT ![call.to] = call.what]
         \/ /\ call.op = "copy"
            /\ ContentOf' = [ContentOf EXCEPT ![call.to] = ContentOf[call.from]]
         \/ /\ call.op = "move"
            /\ ContentOf' = [ContentOf EXCEPT ![call.to] = ContentOf[call.from],
                                              ![call.from] = Empty]
  PROVE  Abstract!Succeed(Main)
PROOF
  <1>1. /\ call # NoCall
        /\ call.op = "put" => call \in Abstract!Puts
        /\ call.op # "put" => call \in Abstract!Passes
    BY CallShape DEF Puts, Passes, Abstract!Puts, Abstract!Passes
  <1>2. CallOf[Main] = call /\ CallOf' = [CallOf EXCEPT ![Main] = NoCall]
    BY DEF CallOf
  <1>3. Abstract!Put(call) \/ Abstract!Copy(call) \/ Abstract!Move(call)
    BY <1>1 DEF Abstract!Put, Abstract!Copy, Abstract!Move, ContentOf
  <1> QED
    BY <1>1, <1>2, <1>3 DEF Abstract!Succeed, Abstract!NoCall, NoCall, CallOf

(* A call throws, and loses at most what it was to move.                   *)
LEMMA FailRefines ==
  ASSUME call \in Puts \cup Passes, call' = NoCall, throws' = throws + 1,
         \/ call.op # "move" /\ UNCHANGED ContentOf
         \/ /\ call.op = "move"
            /\ ContentOf' = [ContentOf EXCEPT ![call.from] = Empty]
  PROVE  Abstract!Fail(Main)
PROOF
  <1>1. call # NoCall /\ (call.op # "put" => call \in Abstract!Passes)
    BY CallShape DEF Passes, Abstract!Passes
  <1>2. CallOf[Main] = call /\ CallOf' = [CallOf EXCEPT ![Main] = NoCall]
    BY DEF CallOf
  <1> QED
    BY <1>1, <1>2 DEF Abstract!Fail, Abstract!NoCall, NoCall, CallOf, ContentOf

LEMMA NoSourceRefines ==
  ASSUME VariantInv, NoSource
  PROVE  Abstract!Succeed(Main)
PROOF
  <1>1. /\ pc # "idle" /\ SourceIndex(call) = invalid_index
        /\ call' = NoCall /\ alive' = alive \cup {call.to}
        /\ UNCHANGED <<index, storage, throws, broken>>
    BY DEF NoSource, Return, ghosts
  <1>2. /\ call \in Puts \cup Passes /\ call.to \in Variants
        /\ call.op \in {"copy", "move"} /\ call.from \in Variants
        /\ index[call.from] = invalid_index
    BY <1>1, UnderWay, CallShape, SourceIsIndex DEF VariantInv
  <1>3. index[call.to] = invalid_index
    BY <1>1 DEF VariantInv, CallOK, StateTypes
  <1>4. \A w \in Variants : Content(w)' = Content(w)
    BY <1>1, <1>3 DEF Content
  <1>5. ContentOf' = ContentOf
    BY <1>4, ContentStays
  <1>6. ContentOf[call.to] = Empty /\ ContentOf[call.from] = Empty
    BY <1>2, <1>3, ContentIs
  <1>7. /\ ContentOf' = [ContentOf EXCEPT ![call.to] = ContentOf[call.from]]
        /\ ContentOf' = [ContentOf EXCEPT ![call.to] = ContentOf[call.from],
                                          ![call.from] = Empty]
    BY <1>5, <1>6 DEF ContentOf
  <1> QED
    BY <1>1, <1>2, <1>7, SucceedRefines

LEMMA AssignRefines ==
  ASSUME VariantInv, Assign
  PROVE  Abstract!Succeed(Main)
PROOF
  <1>1. /\ Visit("assign") /\ UNCHANGED <<alive, throws, broken>> /\ call.to \in alive
    BY AssignFacts
  <1>2. /\ pc # "idle" /\ call' = NoCall /\ call.to \notin broken
        /\ SourceIndex(call) # invalid_index /\ index[call.to] = SourceIndex(call)
        /\ call.op = "put" => Leftover.type = call.what[1] /\ SourceVal = call.what[2]
        /\ call.op # "put" => /\ call.from \notin broken
                              /\ storage[call.from] = [type |-> Leftover.type, val |-> SourceVal]
    BY <1>1, VisitFacts
  <1>3. /\ call \in Puts \cup Passes /\ call.to \in Variants
        /\ call.op \in {"put", "copy", "move"}
        /\ call.op = "put" => call.what \in Contents
        /\ call.op # "put" => /\ call.from \in Variants /\ call.from \in alive
                              /\ index[call.from] = SourceIndex(call)
    BY <1>2, UnderWay, CallShape
  <1> DEFINE held == <<Leftover.type, SourceVal>>
  <1>4. /\ call.op = "put" => call.what = held
        /\ call.op # "put" => ContentOf[call.from] = held
    BY <1>2, <1>3, ContentIs DEF Contents
  <1>5. ASSUME NEW w \in Variants
        PROVE  ContentOf'[w] = IF call.op = "move" /\ w = call.from THEN Empty
                               ELSE IF w = call.to THEN held ELSE ContentOf[w]
    <2>1. CASE call.op = "move" /\ w = call.from
      BY <2>1, AssignFacts DEF ContentOf, Content
    <2>2. CASE ~(call.op = "move" /\ w = call.from) /\ w = call.to
      <3>1. /\ index'[w] # invalid_index /\ w \in alive' /\ w \notin broken'
            /\ storage'[w] = [type |-> Leftover.type, val |-> SourceVal]
        BY <1>1, <1>2, <2>2, AssignFacts
      <3> QED
        BY <2>2, <3>1 DEF ContentOf, Content
    <2>3. CASE ~(call.op = "move" /\ w = call.from) /\ w # call.to
      <3>1. index'[w] = index[w] /\ storage'[w] = storage[w]
        BY <2>3, AssignFacts
      <3> QED
        BY <1>1, <2>3, <3>1 DEF ContentOf, Content
    <2> QED
      BY <2>1, <2>2, <2>3
  <1>6. /\ ContentOf = [w \in Variants |-> ContentOf[w]]
        /\ ContentOf' = [w \in Variants |-> ContentOf'[w]]
    BY DEF ContentOf
  <1> HIDE DEF held
  <1>7. \/ /\ call.op = "put"
           /\ ContentOf' = [ContentOf EXCEPT ![call.to] = call.what]
        \/ /\ call.op = "copy"
           /\ ContentOf' = [ContentOf EXCEPT ![call.to] = ContentOf[call.from]]
        \/ /\ call.op = "move"
           /\ ContentOf' = [ContentOf EXCEPT ![call.to] = ContentOf[call.from],
                                             ![call.from] = Empty]
    BY <1>3, <1>4, <1>5, <1>6
  <1> QED
    BY <1>1, <1>2, <1>3, <1>7, SucceedRefines

LEMMA ConstructRefines ==
  ASSUME VariantInv, Construct
  PROVE  Abstract!Succeed(Main)
PROOF
  <1>1. /\ Visit("construct") /\ UNCHANGED <<throws, broken>>
        /\ alive' = alive \cup {call.to} /\ index'[call.to] = SourceIndex(call)
        /\ storage'[call.to] = [type |-> Leftover.type, val |-> SourceVal]
        /\ call.op = "move" => /\ index'[call.from] = invalid_index
                               /\ call.from # call.to
    BY ConstructFacts
  <1>2. /\ pc # "idle" /\ call' = NoCall /\ call.to \notin broken
        /\ SourceIndex(call) # invalid_index
        /\ call.op = "put" => Leftover.type = call.what[1] /\ SourceVal = call.what[2]
        /\ call.op # "put" => /\ call.from \notin broken
                              /\ storage[call.from] = [type |-> Leftover.type, val |-> SourceVal]
    BY <1>1, VisitFacts
  <1>3. /\ call \in Puts \cup Passes /\ call.to \in Variants
        /\ call.op \in {"put", "copy", "move"}
        /\ call.op = "put" => call.what \in Contents
        /\ call.op # "put" => /\ call.from \in Variants /\ call.from \in alive
                              /\ index[call.from] = SourceIndex(call)
    BY <1>2, UnderWay, CallShape
  <1> DEFINE held == <<Leftover.type, SourceVal>>
  <1>4. /\ call.op = "put" => call.what = held
        /\ call.op # "put" => ContentOf[call.from] = held
    BY <1>2, <1>3, ContentIs DEF Contents
  <1>5. ASSUME NEW w \in Variants
        PROVE  ContentOf'[w] = IF call.op = "move" /\ w = call.from THEN Empty
                               ELSE IF w = call.to THEN held ELSE ContentOf[w]
    <2>1. CASE call.op = "move" /\ w = call.from
      BY <1>1, <2>1 DEF ContentOf, Content
    <2>2. CASE ~(call.op = "move" /\ w = call.from) /\ w = call.to
      <3>1. /\ index'[w] # invalid_index /\ w \in alive' /\ w \notin broken'
            /\ storage'[w] = [type |-> Leftover.type, val |-> SourceVal]
        BY <1>1, <1>2, <2>2
      <3> QED
        BY <2>2, <3>1 DEF ContentOf, Content
    <2>3. CASE ~(call.op = "move" /\ w = call.from) /\ w # call.to
      <3>1. index'[w] = index[w] /\ storage'[w] = storage[w]
        BY <2>3, ConstructFacts
      <3> QED
        BY <1>1, <2>3, <3>1 DEF ContentOf, Content
    <2> QED
      BY <2>1, <2>2, <2>3
  <1>6. /\ ContentOf = [w \in Variants |-> ContentOf[w]]
        /\ ContentOf' = [w \in Variants |-> ContentOf'[w]]
    BY DEF ContentOf
  <1> HIDE DEF held
  <1>7. \/ /\ call.op = "put"
           /\ ContentOf' = [ContentOf EXCEPT ![call.to] = call.what]
        \/ /\ call.op = "copy"
           /\ ContentOf' = [ContentOf EXCEPT ![call.to] = ContentOf[call.from]]
        \/ /\ call.op = "move"
           /\ ContentOf' = [ContentOf EXCEPT ![call.to] = ContentOf[call.from],
                                             ![call.from] = Empty]
    BY <1>3, <1>4, <1>5, <1>6
  <1> QED
    BY <1>1, <1>2, <1>3, <1>7, SucceedRefines

(* A constructor or an assignment that throws changes the contents only by *)
(* emptying the source of a move: a target that is broken has none, and    *)
(* had none before.                                                        *)
LEMMA ThrowRefines ==
  ASSUME VariantInv, AssignThrows \/ ConstructThrows
  PROVE  Abstract!Fail(Main)
PROOF
  <1>1. PICK step \in {"assign", "construct"} : Visit(step)
    BY DEF AssignThrows, ConstructThrows
  <1>2. pc # "idle" /\ call' = NoCall
    BY <1>1, VisitFacts
  <1>3. /\ call \in Puts \cup Passes /\ call.to \in Variants
        /\ call.op = "move" => call.from \in Variants
    BY <1>2, UnderWay, CallShape
  <1>4. throws' = throws + 1
    BY DEF AssignThrows, ConstructThrows
  <1>5. ASSUME NEW w \in Variants
        PROVE  ContentOf'[w] = IF call.op = "move" /\ w = call.from THEN Empty
                               ELSE ContentOf[w]
    <2>1. CASE AssignThrows
      <3>1. index'[w] = IF call.op = "move" /\ w = call.from THEN invalid_index ELSE index[w]
        <4>1. index' = Emptied(index) /\ index \in [Variants -> Indices]
          BY <2>1 DEF AssignThrows, VariantInv, StateTypes
        <4> QED
          BY <1>3, <4>1 DEF Emptied
      <3>2. UNCHANGED <<alive, storage, broken>>
        BY <2>1 DEF AssignThrows
      <3> QED
        BY <3>1, <3>2 DEF ContentOf, Content
    <2>2. CASE ConstructThrows
      <3>1. /\ UNCHANGED alive /\ index[call.to] = invalid_index
            /\ call.op = "move" => /\ call.from # call.to
                                   /\ index'[call.from] = invalid_index
            /\ IF call.to \in alive
               THEN broken' = broken \cup {call.to}
               ELSE broken' = broken /\ index'[call.to] = invalid_index
        BY <2>2, ConstructThrowsFacts
      <3>2. CASE call.op = "move" /\ w = call.from
        BY <3>1, <3>2 DEF ContentOf, Content
      <3>3. CASE w = call.to
        BY <3>1, <3>3 DEF ContentOf, Content
      <3>4. CASE ~(call.op = "move" /\ w = call.from) /\ w # call.to
        <4>1. index'[w] = index[w] /\ storage'[w] = storage[w]
          BY <2>2, <3>4, ConstructThrowsFacts
        <4>2. w \in broken' <=> w \in broken
          BY <3>1, <3>4
        <4> QED
          BY <3>1, <3>4, <4>1, <4>2 DEF ContentOf, Content
      <3> QED
        BY <3>2, <3>3, <3>4
    <2> QED
      BY <2>1, <2>2
  <1>6. /\ ContentOf = [w \in Variants |-> ContentOf[w]]
        /\ ContentOf' = [w \in Variants |-> ContentOf'[w]]
    BY DEF ContentOf
  <1>7. \/ call.op # "move" /\ UNCHANGED ContentOf
        \/ /\ call.op = "move"
           /\ ContentOf' = [ContentOf EXCEPT ![call.from] = Empty]
    BY <1>3, <1>5, <1>6
  <1> QED
    BY <1>2, <1>3, <1>4, <1>7, FailRefines

(* A reset, asked for or by a destructor, and the end of a variant.        *)
LEMMA ResetRefines ==
  ASSUME VariantInv, DestructorResets \/ \E v \in Variants : ResetCall(v) \/ Destructor(v)
  PROVE  Abstract!Clear
PROOF
  <1> DEFINE Others(v) == \A w \in Variants \ {v} :
                            (w \in alive' <=> w \in alive) /\ storage'[w] = storage[w]
  <1>1. \E v \in Variants : Reset(v) /\ Others(v)
    <2>1. CASE DestructorResets
      BY <2>1 DEF DestructorResets, VariantInv, StateTypes
    <2>2. ASSUME NEW v \in Variants, ResetCall(v) PROVE Reset(v) /\ Others(v)
      BY <2>2 DEF ResetCall
    <2>3. ASSUME NEW v \in Variants, Destructor(v) PROVE Reset(v) /\ Others(v)
      BY <2>3 DEF Destructor, VariantInv, StateTypes
    <2> HIDE DEF Others
    <2> QED
      BY <2>1, <2>2, <2>3
  <1>2. ~wild /\ UNCHANGED <<call, throws, broken>>
    BY DEF DestructorResets, ResetCall, Destructor, Ready, ghosts
  <1>3. PICK v \in Variants : Reset(v) /\ Others(v)
    BY <1>1
  <1>4. ContentOf' = [ContentOf EXCEPT ![v] = Empty]
    BY <1>2, <1>3, ResetIsClear
  <1>5. UNCHANGED CallOf
    BY <1>2 DEF CallOf
  <1> QED
    BY <1>2, <1>4, <1>5 DEF Abstract!Clear, ContentOf, CallOf

(* What changes no content: a variant that is created empty, the end of a  *)
(* destructor, and the access that is undefined.                           *)
LEMMA QuietRefines ==
  ASSUME VariantInv, VisitWild \/ DestructorEnds \/ \E v \in Variants : Default(v)
  PROVE  UNCHANGED <<ContentOf, CallOf, throws>>
PROOF
  <1>1. UNCHANGED <<index, call, throws, broken>>
    BY DEF VisitWild, DestructorEnds, Default, ghosts
  <1>2. UNCHANGED CallOf
    BY <1>1 DEF CallOf
  <1>3. ASSUME NEW w \in Variants PROVE Content(w)' = Content(w)
    <2>1. CASE VisitWild
      BY <1>1, <2>1 DEF VisitWild, Content
    <2>2. ASSUME NEW v \in Variants, Default(v) PROVE Content(w)' = Content(w)
      <3>1. v \notin alive /\ alive' = alive \cup {v} /\ storage' = storage
        BY <2>2 DEF Default
      <3>2. index[v] = invalid_index
        BY <3>1 DEF VariantInv, VariantOK
      <3> QED
        BY <1>1, <3>1, <3>2 DEF Content
    <2>3. CASE DestructorEnds
      <3>1. PICK v : v = Last(dying)
        OBVIOUS
      <3>2. /\ alive' = alive /\ storage' = [storage EXCEPT ![v] = Raw]
            /\ v \in Variants /\ Contains(dying, v)
        BY <2>3, <3>1, FrontContains DEF DestructorEnds, VariantInv, StateTypes
      <3>3. index[v] = invalid_index
        BY <3>2 DEF VariantInv, VariantOK
      <3>4. w # v => storage'[w] = storage[w]
        BY <3>2 DEF VariantInv, StateTypes
      <3> QED
        BY <1>1, <3>2, <3>3, <3>4 DEF Content
    <2> QED
      BY <2>1, <2>2, <2>3
  <1> QED
    BY <1>1, <1>2, <1>3, ContentStays

(* For its user a call of variant puts, copies or moves one value in one   *)
(* step, or throws and loses at most what it was to move and the old value *)
(* of its target; destructors empty variants at any time before.           *)
THEOREM VariantImplementsHolder == Spec => ImplementsHolder
PROOF
  <1>1. Init => Abstract!Init
    BY DEF Init, Abstract!Init, Abstract!NoCall, NoCall, Content
  <1>2. VariantInv /\ [Next]_vars => [Abstract!Next]_<<ContentOf, CallOf, throws>>
    <2> SUFFICES ASSUME VariantInv, [Next]_vars
                 PROVE  Abstract!Next \/ UNCHANGED <<ContentOf, CallOf, throws>>
      OBVIOUS
    <2>0. Main \in {Main}
      OBVIOUS
    <2>1. ASSUME NEW c \in Puts \cup Passes, Constructor(c) \/ Assignment(c) \/ Emplace(c)
          PROVE  Abstract!Next
      <3>1. Abstract!Begin(Main)
        BY <2>1, BeginRefines
      <3> QED
        BY <2>0, <3>1 DEF Abstract!Next
    <2>2. CASE NoSource \/ Assign \/ Construct
      <3>1. Abstract!Succeed(Main)
        BY <2>2, NoSourceRefines, AssignRefines, ConstructRefines
      <3> QED
        BY <2>0, <3>1 DEF Abstract!Next
    <2>3. CASE AssignThrows \/ ConstructThrows
      <3>1. Abstract!Fail(Main)
        BY <2>3, ThrowRefines
      <3> QED
        BY <2>0, <3>1 DEF Abstract!Next
    <2>4. CASE DestructorResets \/ \E v \in Variants : ResetCall(v) \/ Destructor(v)
      <3>1. Abstract!Clear
        BY <2>4, ResetRefines
      <3> QED
        BY <3>1 DEF Abstract!Next
    <2>5. CASE VisitWild \/ DestructorEnds \/ \E v \in Variants : Default(v)
      BY <2>5, QuietRefines
    <2>6. CASE UNCHANGED vars
      BY <2>6 DEF vars, ghosts, ContentOf, CallOf, Content
    <2> QED
      BY <2>1, <2>2, <2>3, <2>4, <2>5, <2>6 DEF Next
  <1> QED
    BY <1>1, <1>2, VariantInvAlways, PTL
    DEF Spec, ImplementsHolder, Abstract!Spec, ContentOf, CallOf
===============================================================================
