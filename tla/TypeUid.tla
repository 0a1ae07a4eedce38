-------------------------------- MODULE TypeUid --------------------------------
(***************************************************************************)
(* type_uid: get<T>() gives type T an id, the first time it is asked, from *)
(* a counter that all types share.                                         *)
(*                                                                         *)
(* The id of T is a local static: the language lets one thread initialise  *)
(* it while the others wait. The counter is a plain integer: the statics   *)
(* of two types may be initialised at once, and the two counter++ then mix *)
(* as loads and stores.                                                    *)
(***************************************************************************)
EXTENDS Naturals, FiniteSets

CONSTANTS Threads, Types,
          NoType,      \* what a thread asks the id of that is not in get
          IdMod        \* 2 ^ 32, the ids of id_type

ASSUME TypeUidAssumption == IdMod \in Nat /\ IsFiniteSet(Types) /\ Cardinality(Types) <= IdMod

VARIABLES
  counter,   \* counter
  guard,     \* guard[T]: the static of get<T> is "untouched", "running" or "done"
  id,        \* id[T]: the static of get<T>
  want,      \* want[t]: the type thread t asks the id of
  upc,       \* upc[t]: where thread t is in get
  loaded,    \* loaded[t]: what thread t has read of counter
  raced      \* two threads have been in counter++ at the same time

uidVars == <<counter, guard, id, want, upc, loaded, raced>>

UidInit ==
  /\ counter = 0 /\ raced = FALSE
  /\ guard = [T \in Types |-> "untouched"] /\ id = [T \in Types |-> 0]
  /\ want = [t \in Threads |-> NoType]
  /\ upc = [t \in Threads |-> "idle"] /\ loaded = [t \in Threads |-> 0]

At(t, step) == upc[t] = step
Goto(t, step) == upc' = [upc EXCEPT ![t] = step]

(* get<T>() *)
Get(t, T) ==
  /\ At(t, "idle") /\ Goto(t, "guard")
  /\ want' = [want EXCEPT ![t] = T]
  /\ UNCHANGED <<counter, guard, id, loaded, raced>>

(* A fault, not used by the specification: the static has no guard, as     *)
(* with -fno-threadsafe-statics.                                           *)
GuardTakeAny(t) ==
  /\ At(t, "guard") /\ guard[want[t]] # "done"
  /\ Goto(t, "load")
  /\ guard' = [guard EXCEPT ![want[t]] = "running"]
  /\ UNCHANGED <<counter, id, want, loaded, raced>>

(* The first to come initialises the static.                               *)
GuardTake(t) ==
  /\ At(t, "guard") /\ guard[want[t]] = "untouched"
  /\ Goto(t, "load")
  /\ guard' = [guard EXCEPT ![want[t]] = "running"]
  /\ UNCHANGED <<counter, id, want, loaded, raced>>

(* counter++ *)
Load(t) ==
  /\ At(t, "load") /\ Goto(t, "store")
  /\ loaded' = [loaded EXCEPT ![t] = counter]
  /\ raced' = (raced \/ \E u \in Threads : At(u, "store"))
  /\ UNCHANGED <<counter, guard, id, want>>

Store(t) ==
  /\ At(t, "store") /\ Goto(t, "init")
  /\ counter' = (loaded[t] + 1) % IdMod
  /\ UNCHANGED <<guard, id, want, loaded, raced>>

GuardDone(t) ==
  /\ At(t, "init") /\ Goto(t, "guard")
  /\ id' = [id EXCEPT ![want[t]] = loaded[t]]
  /\ guard' = [guard EXCEPT ![want[t]] = "done"]
  /\ loaded' = [loaded EXCEPT ![t] = 0]
  /\ UNCHANGED <<counter, want, raced>>

(* return id *)
Return(t) ==
  /\ At(t, "guard") /\ guard[want[t]] = "done"
  /\ Goto(t, "idle")
  /\ want' = [want EXCEPT ![t] = NoType]
  /\ UNCHANGED <<counter, guard, id, loaded, raced>>

Initialise(t) == GuardTake(t) \/ Load(t) \/ Store(t) \/ GuardDone(t)
===============================================================================
