-------------------------------- MODULE Signal ---------------------------------
(***************************************************************************)
(* sig::signal with its connections: one thread, but the slots that an     *)
(* emission calls may connect, disconnect and emit themselves, and the     *)
(* destructor of a slot may disconnect others.                             *)
(*                                                                         *)
(* Slots are numbered in the order of their connect. While an emission is  *)
(* under way (process_guard_), connect puts the slot into to_add_slots_    *)
(* and disconnect notes it in to_delete_slots_; the slot_guard of the      *)
(* outermost emission carries both out, and the order matters.             *)
(*                                                                         *)
(* A slot may own a connection, or a group_connection of several, to slots *)
(* that were connected before it, with auto_disconnect set and behind a    *)
(* shared pointer, so that copies of the slot do not disconnect:           *)
(* destroying the slot disconnects those, one after the other. (A slot     *)
(* that owns a connection made after it, or its own, can bring the code to *)
(* erase what is not in the list.) A slot may throw.                       *)
(***************************************************************************)
EXTENDS Naturals, Sequences, SequencesExt

CONSTANTS MaxSlots,    \* bound: the calls of connect
          MaxOwned,    \* bound: the connections in the group a slot owns
          MaxDepth     \* bound: emissions inside emissions

ASSUME SignalAssumption == {MaxSlots, MaxOwned, MaxDepth} \subseteq Nat \ {0}

Ids == 1 .. MaxSlots

VARIABLES
  slots,        \* slots_
  to_add,       \* to_add_slots_
  to_delete,    \* to_delete_slots_
  guard,        \* process_guard_
  alive,        \* *valid_: the signal exists
  made,         \* the number of connects so far
  already,      \* the slots whose already_disconnect_ is set
  owns,         \* owns[k]: the slots whose connections slot k owns, in order
  frames,       \* the emissions under way, the outermost first
  flush,        \* where ~slot_guard is: "no", "delete" or "add"
  todo,         \* what the destructors under way have still to disconnect
  wild          \* an iterator that is not in its list was erased

conns == <<alive, made, owns>>
vars  == <<slots, to_add, to_delete, guard, alive, made, already, owns,
           frames, flush, todo, wild>>

-------------------------------------------------------------------------------
(* sig_connection::valid *)
Valid(k) == alive /\ k <= made /\ k \notin already

(* Code of the client, or of the slot that was called last, is running.    *)
CodeRuns == flush = "no" /\ todo = <<>>

(* ~group_connection, ~connection: a slot is destroyed; the destructors    *)
(* that were under way go on with rest after that.                         *)
Destroy(k, rest) == todo' = owns[k] \o rest

(* Where the iterator of slot k points to in its list.                     *)
Iterator(list, k) == SelectInSeq(list, LAMBDA s : s = k)

(* slots_.erase(id): the node leaves the list, then the slot is destroyed. *)
Erase(k, rest) == /\ wild' = (wild \/ ~Contains(slots, k))
                  /\ slots' = RemoveAt(slots, Iterator(slots, k))
                  /\ Destroy(k, rest)

Init ==
  /\ slots = <<>> /\ to_add = <<>> /\ to_delete = <<>>
  /\ guard = FALSE /\ alive = TRUE
  /\ made = 0 /\ already = {} /\ owns = [k \in Ids |-> <<>>]
  /\ frames = <<>> /\ flush = "no" /\ todo = <<>> /\ wild = FALSE

-------------------------------------------------------------------------------
(* Faults, not used by the specification.                                  *)

(* connect inserts into slots_ during an emission too.                     *)
ConnectNow ==
  /\ CodeRuns /\ alive
  /\ made < MaxSlots
  /\ made' = made + 1
  /\ slots' = Append(slots, made')
  /\ UNCHANGED <<to_add, to_delete, guard, alive, already, owns, frames,
                 flush, todo, wild>>

(* Each ~slot_guard carries out what was deferred.                         *)
EndEmissionFlushes ==
  /\ CodeRuns /\ frames # <<>>
  /\ frames' = Front(frames)
  /\ guard' = (Len(frames) > 1)
  /\ flush' = "delete"
  /\ UNCHANGED <<slots, to_add, to_delete, conns, already, todo, wild>>

(* to_delete_slots_ is cleared, but nothing is erased.                     *)
FlushDeleteSkips ==
  /\ flush = "delete" /\ todo = <<>>
  /\ flush' = "add"
  /\ to_delete' = <<>>
  /\ UNCHANGED <<slots, to_add, guard, conns, already, frames, todo, wild>>

(* to_add_slots_.clear() is missing.                                       *)
FlushAddKeeps ==
  /\ flush = "add"
  /\ slots' = slots \o to_add
  /\ flush' = "no"
  /\ UNCHANGED <<to_add, to_delete, guard, conns, already, frames, todo, wild>>

-------------------------------------------------------------------------------
(* sig_connection::disconnect of a connection that is valid, disconnect_   *)

(* During an emission: a listed slot is noted, a pending one is erased.    *)
DisconnectLater(k, rest) ==
  /\ guard
  /\ IF Contains(to_add, k)
     THEN to_add' = RemoveAt(to_add, Iterator(to_add, k)) /\ Destroy(k, rest) /\ UNCHANGED to_delete
     ELSE to_delete' = Append(to_delete, k) /\ todo' = rest /\ UNCHANGED to_add
  /\ UNCHANGED <<slots, wild>>

DisconnectNow(k, rest) ==
  /\ ~guard
  /\ Erase(k, rest)
  /\ UNCHANGED <<to_add, to_delete>>

(* already_disconnect_ is set when disconnect_ has returned; what it runs  *)
(* meanwhile only looks at slots connected before k.                       *)
DoDisconnect(k, rest) ==
  /\ Valid(k)
  /\ DisconnectLater(k, rest) \/ DisconnectNow(k, rest)
  /\ already' = already \cup {k}

-------------------------------------------------------------------------------
(* The groups that a new slot may own: + and += have put them together.    *)
Groups == {g \in UNION {[1 .. n -> {i \in 1 .. made : Valid(i)}] : n \in 0 .. MaxOwned} :
             IsInjective(g)}

(* connect, in or outside an emission *)
Connect ==
  /\ CodeRuns /\ alive
  /\ made < MaxSlots
  /\ made' = made + 1
  /\ \E g \in Groups : owns' = [owns EXCEPT ![made'] = g]
  /\ IF guard
     THEN to_add' = Append(to_add, made') /\ UNCHANGED slots
     ELSE slots' = Append(slots, made') /\ UNCHANGED to_add
  /\ UNCHANGED <<to_delete, guard, alive, already, frames, flush, todo, wild>>

(* disconnect, of a connection or for each one of a group *)
Disconnect ==
  /\ CodeRuns
  /\ \E k \in Ids : DoDisconnect(k, <<>>)
  /\ UNCHANGED <<guard, conns, frames, flush>>

(* The destructors come to the next connection: one that is not valid is   *)
(* skipped.                                                                *)
Destroyed ==
  /\ todo # <<>>
  /\ IF Valid(Head(todo))
     THEN DoDisconnect(Head(todo), Tail(todo))
     ELSE todo' = Tail(todo) /\ UNCHANGED <<slots, to_add, to_delete, already, wild>>
  /\ UNCHANGED <<guard, conns, frames, flush>>

(* ~signal, outside any emission; the slots' destructors find it gone *)
DestroySignal ==
  /\ CodeRuns /\ frames = <<>> /\ alive
  /\ alive' = FALSE
  /\ slots' = <<>>
  /\ UNCHANGED <<to_add, to_delete, guard, made, already, owns, frames, flush, todo, wild>>

-------------------------------------------------------------------------------
(* operator()                                                              *)

(* slot_guard, and the call of the first slot *)
Emit ==
  /\ CodeRuns /\ alive
  /\ slots # <<>>
  /\ Len(frames) < MaxDepth
  /\ frames' = Append(frames, [cursor |-> Head(slots), outer |-> ~guard,
                               live |-> {k \in Ids : Valid(k)}])
  /\ guard' = TRUE
  /\ UNCHANGED <<slots, to_add, to_delete, conns, already, flush, todo, wild>>

(* The slot that the cursor of f is at, and the one behind it.             *)
Top == frames[Len(frames)]
Following(k) == Iterator(slots, k) + 1

(* The slot returns: the next one is called. *)
NextSlot ==
  /\ CodeRuns /\ frames # <<>>
  /\ Following(Top.cursor) <= Len(slots)
  /\ frames' = [frames EXCEPT ![Len(frames)].cursor = slots[Following(Top.cursor)]]
  /\ UNCHANGED <<slots, to_add, to_delete, guard, conns, already, flush, todo, wild>>

(* The last slot has returned, or this one throws: ~slot_guard *)
EndEmission ==
  /\ CodeRuns /\ frames # <<>>
  /\ frames' = Front(frames)
  /\ IF Top.outer
     THEN guard' = FALSE /\ flush' = "delete"
     ELSE UNCHANGED <<guard, flush>>
  /\ UNCHANGED <<slots, to_add, to_delete, conns, already, todo, wild>>

(* owner_.slots_.erase(id) for each of to_delete_slots_ *)
FlushDelete ==
  /\ flush = "delete" /\ todo = <<>>
  /\ IF to_delete # <<>>
     THEN Erase(Head(to_delete), <<>>) /\ to_delete' = Tail(to_delete) /\ UNCHANGED flush
     ELSE flush' = "add" /\ UNCHANGED <<slots, to_delete, todo, wild>>
  /\ UNCHANGED <<to_add, guard, conns, already, frames>>

(* slots_.insert and set_id for each of to_add_slots_ *)
FlushAdd ==
  /\ flush = "add"
  /\ slots' = slots \o to_add
  /\ to_add' = <<>>
  /\ flush' = "no"
  /\ UNCHANGED <<to_delete, guard, conns, already, frames, todo, wild>>

Next == \/ Connect \/ Disconnect \/ Destroyed \/ DestroySignal
        \/ Emit \/ NextSlot \/ EndEmission \/ FlushDelete \/ FlushAdd

Spec == Init /\ [][Next]_vars

-------------------------------------------------------------------------------
(* Lists hold each slot once at most, in the order of their connects.      *)
Ascending(s) == \A i, j \in DOMAIN s : i < j => s[i] < s[j]

(* What the signal, its lists and the emissions under way may hold.        *)
TypeOK ==
  /\ made \in 0 .. MaxSlots
  /\ Ascending(slots \o to_add)
  /\ ToSet(slots \o to_add \o to_delete) \cup already \subseteq 1 .. made
  /\ guard = (frames # <<>>) /\ alive \in BOOLEAN
  /\ \A k \in Ids : ToSet(owns[k]) \subseteq 1 .. k - 1
  /\ \A i \in DOMAIN frames : frames[i].outer <=> i = 1
  /\ flush \in {"no", "delete", "add"} /\ ToSet(todo) \subseteq 1 .. made

(***************************************************************************)
(* Nothing is erased that is not in the list, neither a slot twice nor one *)
(* that is still to be added, and no emission stands on an erased slot:    *)
(* whatever slots and their destructors disconnect, and in which order.    *)
(***************************************************************************)
IteratorsHold ==
  /\ ~wild
  /\ \A i \in DOMAIN frames : Contains(slots, frames[i].cursor)

(***************************************************************************)
(* Between emissions the list holds exactly the slots that were connected  *)
(* and not disconnected, in the order of their connects: every deferred    *)
(* connect and disconnect has been carried out, and no more than those.    *)
(***************************************************************************)
Settled ==
  CodeRuns /\ frames = <<>> =>
    /\ to_add = <<>> /\ to_delete = <<>>
    /\ Ascending(slots) /\ ToSet(slots) = {k \in Ids : Valid(k)}

(***************************************************************************)
(* An emission, and each one inside it, calls only slots that were         *)
(* connected when the outermost began: a slot connected meanwhile has to   *)
(* wait, and one that was disconnected before is never called again.       *)
(***************************************************************************)
CallsConnected ==
  \A i \in DOMAIN frames : frames[i].cursor \in frames[1].live
===============================================================================
