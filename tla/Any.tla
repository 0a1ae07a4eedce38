---------------------------------- MODULE Any ----------------------------------
(***************************************************************************)
(* any: a unique_ptr to a holder of a value of any type. An assignment has *)
(* the new holder made first, then installs it, then deletes the old one.  *)
(*                                                                         *)
(* Each thread has anys of its own; what threads share are the type ids,   *)
(* from TypeUid. The destructor of a value may reset anys of its thread,   *)
(* and making a holder may throw. A value is abstracted to its type. An    *)
(* any that was destroyed and one that was constructed with no value are   *)
(* empty: the constructors are an assignment to an empty any.              *)
(***************************************************************************)
EXTENDS TypeUid, Sequences, SequencesExt

CONSTANTS Anys,
          Owner,       \* Owner[a]: the thread that uses any a
          Holders,     \* the addresses of the allocator
          Null, Empty, Free,
          MaxThrows    \* bound: holders that are not made

ASSUME AnyAssumption ==
  /\ Owner \in [Anys -> Threads]
  /\ Null \notin Holders
  /\ {Empty, Free} \cap Types = {}
  /\ MaxThrows \in Nat

VARIABLES
  value,     \* value[a]: value_, a holder or Null
  object,    \* object[h]: the type of the value in holder h, or Free
  call,      \* call[t]: the assignment thread t makes, or NoCall
  made,      \* made[t]: the holder it has made for it, or Null
  dying,     \* dying[t]: the holders whose destructor it runs, the innermost last
  query,     \* query[t]: the is<T>() that thread t makes, or NoCall
  throws

anyVars == <<value, object, call, made, dying, query, throws>>
vars    == <<anyVars, uidVars>>

-------------------------------------------------------------------------------
NoCall == [op |-> "none"]
Puts   == [op : {"put"}, to : Anys, what : Types]
Passes == [op : {"copy", "move"}, to : Anys, from : Anys]

(* The anys of one call are of one thread.                                 *)
CallsOf(t) == {c \in Puts \cup Passes :
                 Owner[c.to] = t /\ (c.op # "put" => Owner[c.from] = t)}

empty(a) == value[a] = Null

Ready(t) == call[t] = NoCall /\ query[t] = NoCall /\ dying[t] = <<>>

Init ==
  /\ UidInit
  /\ value = [a \in Anys |-> Null] /\ object = [h \in Holders |-> Free]
  /\ call = [t \in Threads |-> NoCall] /\ made = [t \in Threads |-> Null]
  /\ dying = [t \in Threads |-> <<>>] /\ query = [t \in Threads |-> NoCall]
  /\ throws = 0

-------------------------------------------------------------------------------
(* unique_ptr::reset of any a: the pointer first, then the holder it had   *)
Replace(t, f, a) ==
  /\ value' = f
  /\ dying' = IF empty(a) THEN dying ELSE [dying EXCEPT ![t] = Append(@, value[a])]

(* reset, and the destructor of an any                                     *)
ResetCall(t) ==
  /\ Ready(t)
  /\ \E a \in Anys : Owner[a] = t /\ Replace(t, [value EXCEPT ![a] = Null], a)
  /\ UNCHANGED <<object, call, made, query, throws, uidVars>>

(* The destructor of a value may reset an any, *)
DestructorResets(t) ==
  /\ dying[t] # <<>>
  /\ \E a \in Anys : Owner[a] = t /\ Replace(t, [value EXCEPT ![a] = Null], a)
  /\ UNCHANGED <<object, call, made, query, throws, uidVars>>

(* and returns. *)
DestructorEnds(t) ==
  /\ dying[t] # <<>>
  /\ object' = [object EXCEPT ![Last(dying[t])] = Free]
  /\ dying' = [dying EXCEPT ![t] = Front(@)]
  /\ UNCHANGED <<value, call, made, query, throws, uidVars>>

-------------------------------------------------------------------------------
(* A fault, not used by the specification: reset() before the new value.   *)
AssignmentResets(t) ==
  /\ Ready(t)
  /\ \E c \in CallsOf(t) :
       /\ call' = [call EXCEPT ![t] = c]
       /\ IF c.op = "move" \/ (c.op = "copy" /\ c.from = c.to)
          THEN UNCHANGED <<value, object>>
          ELSE /\ value' = [value EXCEPT ![c.to] = Null]
               /\ object' = IF empty(c.to) THEN object
                             ELSE [object EXCEPT ![value[c.to]] = Free]
  /\ UNCHANGED <<made, dying, query, throws, uidVars>>

(* operator=, and with it the constructors                                 *)
Assignment(t) ==
  /\ Ready(t)
  /\ \E c \in CallsOf(t) : call' = [call EXCEPT ![t] = c]
  /\ UNCHANGED <<value, object, made, dying, query, throws, uidVars>>

EndCall(t) == call' = [call EXCEPT ![t] = NoCall]

(* A call that takes a new holder: of a value, or of a copy of another's.  *)
Makes(t) == /\ call[t] # NoCall /\ made[t] = Null
            /\ \/ call[t].op = "put"
               \/ /\ call[t].op = "copy"
                  /\ ~empty(call[t].from) /\ call[t].from # call[t].to

(* new any_value_impl(...), and copy()                                     *)
Make(t) ==
  /\ Makes(t)
  /\ LET spare == {h \in Holders : object[h] = Free}
         type  == IF call[t].op = "put" THEN call[t].what ELSE object[value[call[t].from]]
     IN  \E h \in spare : /\ object' = [object EXCEPT ![h] = type]
                            /\ made' = [made EXCEPT ![t] = h]
  /\ UNCHANGED <<value, call, dying, query, throws, uidVars>>

MakeThrows(t) ==
  /\ Makes(t)
  /\ throws < MaxThrows
  /\ throws' = throws + 1
  /\ EndCall(t)
  /\ UNCHANGED <<value, object, made, dying, query, uidVars>>

(* A fault, not used by the specification: the old holder is released.     *)
InstallReleases(t) ==
  /\ made[t] # Null
  /\ value' = [value EXCEPT ![call[t].to] = made[t]]
  /\ made' = [made EXCEPT ![t] = Null]
  /\ EndCall(t)
  /\ UNCHANGED <<object, dying, query, throws, uidVars>>

(* value_.reset(new ...), value_ = ...                                     *)
Install(t) ==
  /\ made[t] # Null
  /\ Replace(t, [value EXCEPT ![call[t].to] = made[t]], call[t].to)
  /\ made' = [made EXCEPT ![t] = Null]
  /\ EndCall(t)
  /\ UNCHANGED <<object, query, throws, uidVars>>

(* operator=(const any&) with an empty any: reset                          *)
CopyEmpty(t) ==
  /\ call[t].op = "copy" /\ empty(call[t].from)
  /\ Replace(t, [value EXCEPT ![call[t].to] = Null], call[t].to)
  /\ EndCall(t)
  /\ UNCHANGED <<object, made, query, throws, uidVars>>

(* operator=(any&&)                                                        *)
Move(t) ==
  /\ call[t].op = "move" /\ call[t].from # call[t].to
  /\ Replace(t, [value EXCEPT ![call[t].from] = Null,
                              ![call[t].to] = value[call[t].from]], call[t].to)
  /\ EndCall(t)
  /\ UNCHANGED <<object, made, query, throws, uidVars>>

(* An any that is assigned to itself stays as it is.                       *)
SelfAssignment(t) ==
  /\ call[t].op = "move" \/ (call[t].op = "copy" /\ ~empty(call[t].to))
  /\ call[t].from = call[t].to
  /\ EndCall(t)
  /\ UNCHANGED <<value, object, made, dying, query, throws, uidVars>>

-------------------------------------------------------------------------------
(* value_->get_id() == type_uid::get<T>(), asked in one order or the other *)
Is(t) ==
  /\ Ready(t)
  /\ \E a \in Anys, T \in Types :
       /\ Owner[a] = t /\ ~empty(a)
       /\ \E ask \in {<<object[value[a]], T>>, <<T, object[value[a]]>>} :
            query' = [query EXCEPT ![t] = [op |-> "is", any |-> a, type |-> T,
                                           ask |-> ask, ids |-> <<>>]]
  /\ UNCHANGED <<value, object, call, made, dying, throws, uidVars>>

Ask(t) ==
  /\ query[t] # NoCall
  /\ \E n \in {Len(query[t].ids) + 1} : n <= 2 /\ Get(t, query[t].ask[n])
  /\ UNCHANGED anyVars

Answered(t) ==
  /\ Return(t)
  /\ query' = [query EXCEPT ![t].ids = Append(@, id[want[t]])]
  /\ UNCHANGED <<value, object, call, made, dying, throws>>

(* is<T>() returns: TRUE when the two ids are the same.                    *)
IsReturns(t) ==
  /\ query[t] # NoCall /\ Len(query[t].ids) = 2
  /\ query' = [query EXCEPT ![t] = NoCall]
  /\ UNCHANGED <<value, object, call, made, dying, throws, uidVars>>

Step(t) ==
  \/ ResetCall(t) \/ Assignment(t) \/ Is(t)
  \/ DestructorResets(t) \/ DestructorEnds(t)
  \/ Make(t) \/ MakeThrows(t) \/ Install(t)
  \/ CopyEmpty(t) \/ Move(t) \/ SelfAssignment(t)
  \/ Ask(t) \/ Answered(t) \/ IsReturns(t)
  \/ Initialise(t) /\ UNCHANGED anyVars

Next == \E t \in Threads : Step(t)

Spec == Init /\ [][Next]_vars

-------------------------------------------------------------------------------
(* Properties                                                              *)

(* is<T>() is TRUE for the type the any holds, whoever gave it its id, and *)
(* FALSE for every other one, as long as no two threads were in counter++  *)
(* at the same time. (Once they were, even types of later get<T>() may     *)
(* share an id: the counter has gone back.)                                *)
IsTellsTheType ==
  \A t \in Threads : (query[t] # NoCall /\ Len(query[t].ids) = 2) =>
    LET is   == query[t].ids[1] = query[t].ids[2]
        same == object[value[query[t].any]] = query[t].type
    IN  (same => is) /\ (is => same \/ raced)

(* Each value has one owner, so that it is destroyed once and never lost:  *)
(* an any, a call that is about to install it, or the destructor it is in. *)
OneOwner ==
  \A h \in Holders :
    LET owners == {a \in Anys : value[a] = h}
                    \cup {t \in Threads : made[t] = h}
                    \cup UNION {{<<t, i>> : i \in {j \in DOMAIN dying[t] : dying[t][j] = h}} :
                                  t \in Threads}
    IN  Cardinality(owners) = IF object[h] = Free THEN 0 ELSE 1

(* A call puts, copies or moves one value, in one step, and one that       *)
(* throws has changed nothing: the old value stays in the any until the    *)
(* new one takes its place, so that it is not given up for a copy that is  *)
(* never made (operator=). Only between its calls does a thread empty its  *)
(* anys, by reset, and by the destructors of values, which run at the end. *)
Abstract == INSTANCE Holder WITH Clients <- Threads, Cells <- Anys, Contents <- Types,
              Strong <- TRUE,
              content <- [a \in Anys |-> IF empty(a) THEN Empty ELSE object[value[a]]]

ImplementsHolder == Abstract!Spec
===============================================================================
