-------------------------------- MODULE Variant --------------------------------
(***************************************************************************)
(* variant: the life of the one object in storage_, and index_, which says *)
(* of what type it is.                                                     *)
(*                                                                         *)
(* One thread; but the destructor of the object that a variant gives up    *)
(* may reset variants, this one included, and every constructor and        *)
(* assignment of an object may throw.                                      *)
(*                                                                         *)
(* index_ is set before the constructor runs. When that one throws the     *)
(* variant names an object that is not there (broken), and the next call   *)
(* that touches it is undefined (wild): the model ends there.              *)
(***************************************************************************)
EXTENDS Integers, Sequences, SequencesExt

CONSTANTS Variants,
          Types,       \* the types a variant can hold, a sequence
          Values,      \* what an object's value may be: numbers, to compare them
          Moved,       \* the value of an object that was moved from
          Raw,         \* storage_ with no object in it
          Empty,       \* the content of an empty variant
          Main,        \* the thread
          MaxThrows    \* bound: constructors and assignments that throw

ASSUME VariantAssumption ==
  /\ Types \in Seq(Range(Types)) /\ Types # <<>>
  /\ Values \subseteq Int /\ Moved \notin Values
  /\ Raw \notin [type : Range(Types), val : Values \cup {Moved}]
  /\ Empty \notin Range(Types) \X Values
  /\ MaxThrows \in Nat

invalid_index == 0
nullptr       == Raw
Objects       == [type : Range(Types), val : Values \cup {Moved}]
Contents      == Range(Types) \X Values

VARIABLES
  alive,     \* the variants that exist
  index,     \* index_
  storage,   \* storage_
  call,      \* the call under way: what goes where, or NoCall
  pc,        \* "idle", "assign" or "construct"
  dying,     \* the variants whose object's destructor runs, the innermost last
  throws,    \* how often something has thrown
  broken,    \* the variants whose object's constructor threw
  dropped,   \* the variants whose object was given up by a move that threw
  lost,      \* an object was overwritten that was neither destroyed nor moved from
  wild       \* something that is no object was destroyed, read or assigned to

ghosts == <<throws, broken, dropped, lost>>
vars   == <<alive, index, storage, call, pc, dying, wild, ghosts>>

-------------------------------------------------------------------------------
NoCall == [op |-> "none"]
Puts   == [op : {"put"}, to : Variants, what : Contents]
Passes == [op : {"copy", "move"}, to : Variants, from : Variants]

(* A type that is listed twice is found at its last place.                 *)
select_type(T) == Max({invalid_index} \cup {i \in DOMAIN Types : Types[i] = T})

(* The type of object that the visitor is given.                           *)
apply_visitor(i) == Types[i]

(* v.index_, of the variant that is copied or moved, or of a wrapper.      *)
SourceIndex(c) == IF c.op = "put" THEN select_type(c.what[1]) ELSE index[c.from]
SourceVal      == IF call.op = "put" THEN call.what[2] ELSE storage[call.from].val

is(v, T)  == select_type(T) = index[v]
get(v, T) == IF is(v, T) THEN storage[v] ELSE nullptr

(* v's storage_ holds an object of the type that index_ names.             *)
Holds(v) == storage[v] # Raw /\ storage[v].type = apply_visitor(index[v])
SourceHolds == call.op # "put" => Holds(call.from)

(* A fault, not used by the specification: the moved variant keeps index_. *)
EmptiedNot(f) == f

(* visitor_move: mv_.index_ = invalid_index, before the object is moved;   *)
Emptied(f) == IF call.op = "move" THEN [f EXCEPT ![call.from] = invalid_index] ELSE f

(* that one stays in storage_.                                             *)
Leftover    == [type |-> apply_visitor(SourceIndex(call)), val |-> Moved]
MovedOut(f) == IF call.op = "move" THEN [f EXCEPT ![call.from] = Leftover] ELSE f

Ready == pc = "idle" /\ dying = <<>> /\ ~wild

Init ==
  /\ alive = {} /\ index = [v \in Variants |-> invalid_index]
  /\ storage = [v \in Variants |-> Raw]
  /\ call = NoCall /\ pc = "idle" /\ dying = <<>>
  /\ throws = 0 /\ broken = {} /\ dropped = {} /\ lost = FALSE /\ wild = FALSE

-------------------------------------------------------------------------------
(* reset, visitor_delete: first index_ is reset, then the object destroyed *)
Reset(v) ==
  IF index[v] = invalid_index
  THEN UNCHANGED <<index, dying, wild>>
  ELSE /\ wild' = ~Holds(v)
       /\ index' = [index EXCEPT ![v] = invalid_index]
       /\ dying' = Append(dying, v)

(* The object's destructor may reset a variant, *)
DestructorResets ==
  /\ dying # <<>> /\ ~wild
  /\ \E v \in alive : Reset(v)
  /\ UNCHANGED <<alive, storage, call, pc, ghosts>>

(* and returns. *)
DestructorEnds ==
  /\ dying # <<>> /\ ~wild
  /\ storage' = [storage EXCEPT ![Last(dying)] = Raw]
  /\ dying' = Front(dying)
  /\ UNCHANGED <<alive, index, call, pc, wild, ghosts>>

-------------------------------------------------------------------------------
(* The calls                                                               *)

(* variant() *)
Default(v) ==
  /\ Ready /\ v \notin alive
  /\ alive' = alive \cup {v}
  /\ UNCHANGED <<index, storage, call, pc, dying, wild, ghosts>>

(* variant(const variant&), variant(variant&&), variant(T) *)
Constructor(c) ==
  /\ Ready
  /\ c.to \notin alive /\ (c.op # "put" => c.from \in alive)
  /\ call' = c
  /\ pc' = "construct"
  /\ UNCHANGED <<alive, index, storage, dying, wild, ghosts>>

(* operator=, copy_ and move_: objects of one type are assigned, otherwise *)
(* the old object makes place for a new one.                               *)
Assignment(c) ==
  /\ Ready
  /\ c.to \in alive /\ (c.op # "put" => c.from \in alive)
  /\ call' = c
  /\ \/ /\ index[c.to] = SourceIndex(c)
        /\ pc' = "assign" /\ UNCHANGED <<index, dying, wild>>
     \/ /\ index[c.to] # SourceIndex(c)
        /\ pc' = "construct" /\ Reset(c.to)
  /\ UNCHANGED <<alive, storage, ghosts>>

(* A fault, not used by the specification: no reset.                       *)
EmplaceOver(c) ==
  /\ Ready
  /\ c.to \in alive /\ c.op = "put"
  /\ call' = c
  /\ pc' = "construct"
  /\ UNCHANGED <<alive, index, storage, dying, wild, ghosts>>

(* emplace *)
Emplace(c) ==
  /\ Ready
  /\ c.to \in alive /\ c.op = "put"
  /\ call' = c
  /\ pc' = "construct"
  /\ Reset(c.to)
  /\ UNCHANGED <<alive, storage, ghosts>>

ResetCall(v) ==
  /\ Ready /\ v \in alive
  /\ Reset(v)
  /\ UNCHANGED <<alive, storage, call, pc, ghosts>>

(* ~variant. Whatever an empty variant has in storage_ goes with it.       *)
Destructor(v) ==
  /\ Ready /\ v \in alive
  /\ Reset(v)
  /\ alive' = alive \ {v}
  /\ storage' = IF index[v] = invalid_index THEN [storage EXCEPT ![v] = Raw] ELSE storage
  /\ dropped' = dropped \ {v}
  /\ UNCHANGED <<call, pc, throws, broken, lost>>

-------------------------------------------------------------------------------
(* How they go on                                                          *)

Return == call' = NoCall /\ pc' = "idle"

(* The source is empty: nothing more to do.                                *)
NoSource ==
  /\ pc \in {"assign", "construct"} /\ dying = <<>> /\ ~wild
  /\ SourceIndex(call) = invalid_index
  /\ alive' = alive \cup {call.to}
  /\ Return
  /\ UNCHANGED <<index, storage, dying, wild, ghosts>>

(* visitor_copy and visitor_move, with an object that is there and one to  *)
(* be constructed or assigned                                              *)
Visit(step) ==
  /\ pc = step /\ dying = <<>> /\ ~wild
  /\ SourceIndex(call) # invalid_index
  /\ SourceHolds /\ (step = "assign" => Holds(call.to))
  /\ Return
  /\ UNCHANGED <<dying, wild>>

(* One of the two is no object.                                            *)
VisitWild ==
  /\ pc \in {"assign", "construct"} /\ dying = <<>> /\ ~wild
  /\ SourceIndex(call) # invalid_index
  /\ ~SourceHolds \/ (pc = "assign" /\ ~Holds(call.to))
  /\ wild' = TRUE
  /\ UNCHANGED <<alive, index, storage, call, pc, dying, ghosts>>

(* data = ... *)
Assign ==
  /\ Visit("assign")
  /\ index' = Emptied(index)
  /\ storage' = MovedOut([storage EXCEPT ![call.to].val = SourceVal])
  /\ UNCHANGED <<alive, ghosts>>

(* The assignment throws, and leaves both objects as they were.            *)
AssignThrows ==
  /\ Visit("assign")
  /\ throws < MaxThrows
  /\ throws' = throws + 1
  /\ index' = Emptied(index)
  /\ dropped' = IF call.op = "move" THEN dropped \cup {call.from} ELSE dropped
  /\ UNCHANGED <<alive, storage, broken, lost>>

(* index_ = ..., and new (&data) T(...)                                    *)
Construct ==
  /\ Visit("construct")
  /\ alive' = alive \cup {call.to}
  /\ index' = Emptied([index EXCEPT ![call.to] = SourceIndex(call)])
  /\ storage' = MovedOut([storage EXCEPT ![call.to] = [Leftover EXCEPT !.val = SourceVal]])
  /\ lost' = (lost \/ /\ storage[call.to] # Raw
                      /\ storage[call.to].val # Moved
                      /\ call.to \notin dropped)
  /\ dropped' = dropped \ {call.to}
  /\ UNCHANGED <<throws, broken>>

(* The constructor throws: a constructor of variant throws with it, any    *)
(* other call leaves index_ as it is.                                      *)
ConstructThrows ==
  /\ Visit("construct")
  /\ throws < MaxThrows
  /\ throws' = throws + 1
  /\ \/ /\ call.to \in alive
        /\ index' = Emptied([index EXCEPT ![call.to] = SourceIndex(call)])
        /\ broken' = broken \cup {call.to}
     \/ /\ call.to \notin alive
        /\ index' = Emptied(index)
        /\ UNCHANGED broken
  /\ storage' = [storage EXCEPT ![call.to] = Raw]
  /\ dropped' = (dropped \ {call.to}) \cup IF call.op = "move" THEN {call.from} ELSE {}
  /\ UNCHANGED <<alive, lost>>

Next ==
  \/ \E v \in Variants : Default(v) \/ ResetCall(v) \/ Destructor(v)
  \/ \E c \in Puts \cup Passes : Constructor(c) \/ Assignment(c) \/ Emplace(c)
  \/ NoSource \/ Assign \/ AssignThrows \/ Construct \/ ConstructThrows \/ VisitWild
  \/ DestructorResets \/ DestructorEnds

Spec == Init /\ [][Next]_vars

-------------------------------------------------------------------------------
(* Comparisons, of a variant with a variant or with a value: [index, val]  *)

(* A fault, not used by the specification: only empty variants are told    *)
(* apart by index_.                                                        *)
SameTypeBlind(x, y) == x.index # invalid_index /\ y.index # invalid_index

SameType(x, y) == x.index = y.index /\ x.index # invalid_index

(* What Comp is applied to: the objects, or the indices.                   *)
visitor_cmp(x, y) == <<x.val, y.val>>

cmp_(x, y) == IF SameType(x, y) THEN visitor_cmp(x, y) ELSE <<x.index, y.index>>

equal_to(x, y)      == LET c == cmp_(x, y) IN c[1] = c[2]
not_equal_to(x, y)  == LET c == cmp_(x, y) IN c[1] # c[2]
less(x, y)          == LET c == cmp_(x, y) IN c[1] < c[2]
less_equal(x, y)    == LET c == cmp_(x, y) IN c[1] <= c[2]
greater(x, y)       == LET c == cmp_(x, y) IN c[1] > c[2]
greater_equal(x, y) == LET c == cmp_(x, y) IN c[1] >= c[2]

(* A value on the left hand side: the operators that are not members.      *)
value_equal_to(x, v)      == equal_to(v, x)
value_not_equal_to(x, v)  == not_equal_to(v, x)
value_less(x, v)          == greater(v, x)
value_less_equal(x, v)    == greater_equal(v, x)
value_greater(x, v)       == less(v, x)
value_greater_equal(x, v) == less_equal(v, x)

-------------------------------------------------------------------------------
(* Properties                                                              *)

(* An object is constructed before it is used and destroyed once.          *)
(*  - A variant names the object it holds, which is whole: not moved from, *)
(*    not being destroyed, and of the type that index_ says.               *)
(*  - get<T>() gives the object exactly when it is one of type T, even if  *)
(*    the variant lists T twice.                                           *)
(*  - No object is overwritten that should have been destroyed, and in an  *)
(*    empty variant there is none.                                         *)
(*  - Nothing else is ever touched, unless a constructor has thrown.       *)
ObjectLifetime ==
  /\ \A v \in alive \ broken : index[v] # invalid_index =>
       Holds(v) /\ storage[v].val # Moved /\ ~Contains(dying, v)
  /\ \A v \in alive \ broken, T \in Range(Types) :
       get(v, T) # nullptr <=> index[v] # invalid_index /\ storage[v].type = T
  /\ ~lost
  /\ \A v \in Variants \ dropped : (index[v] = invalid_index /\ ~Contains(dying, v)) =>
       storage[v] = Raw \/ storage[v].val = Moved
  /\ wild => broken # {}

(* What a variant holds, for its user.                                     *)
Content(v) == IF index[v] = invalid_index \/ v \in broken \/ v \notin alive THEN Empty
              ELSE <<storage[v].type, storage[v].val>>

(* For the user a call puts, copies or moves one value, whatever the types *)
(* of the old and the new object, the order in which they are destroyed,   *)
(* constructed and assigned, and what their destructors do.                *)
Abstract == INSTANCE Holder WITH Clients <- {Main}, Cells <- Variants,
              Strong <- FALSE,
              content <- [v \in Variants |-> Content(v)],
              call <- [p \in {Main} |-> call]

ImplementsHolder == Abstract!Spec

(* The relations order what the variants hold: nothing before something,   *)
(* then by type, then by value; a value compares like a variant of it.     *)
ComparesByContent ==
  LET Of(v)    == [index |-> index[v], val |-> IF index[v] = invalid_index THEN 0
                                               ELSE storage[v].val]
      Rank(x)  == IF x.index = invalid_index THEN <<0, 0>>
                  ELSE <<select_type(Types[x.index]), x.val>>
      Before(x, y) == LET a == Rank(x) b == Rank(y)
                      IN  a[1] < b[1] \/ (a[1] = b[1] /\ a[2] < b[2])
      held     == {Of(v) : v \in alive \ broken}
      values   == {[index |-> select_type(c[1]), val |-> c[2]] : c \in Contents}
  IN \A x \in held, y \in held \cup values :
       /\ less(x, y) = Before(x, y) /\ greater(x, y) = Before(y, x)
       /\ equal_to(x, y) = (Rank(x) = Rank(y)) /\ not_equal_to(x, y) = (Rank(x) # Rank(y))
       /\ less_equal(x, y) = ~Before(y, x) /\ greater_equal(x, y) = ~Before(x, y)
       /\ value_equal_to(y, x) = equal_to(y, x)
       /\ value_not_equal_to(y, x) = not_equal_to(y, x)
       /\ value_less(y, x) = Before(y, x) /\ value_greater(y, x) = Before(x, y)
       /\ value_less_equal(y, x) = ~Before(x, y)
       /\ value_greater_equal(y, x) = ~Before(y, x)
===============================================================================
