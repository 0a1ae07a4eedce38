----------------------------- MODULE FixSizeQueue -----------------------------
(***************************************************************************)
(* include/toolsbox/lockfree/fix_size_queue.hpp: a ring of Size cells      *)
(* shared by any number of pushing and popping threads without a lock.     *)
(*                                                                         *)
(* Four free-running counters delimit the ring:                            *)
(*                                                                         *)
(*   head_write <= head_read <= tail_read <= tail_write                    *)
(*                                                                         *)
(*   [tail_read , tail_write)  tickets being pushed, invisible to pop      *)
(*   [head_read , tail_read )  items that may be popped                    *)
(*   [head_write, head_read )  tickets being popped, cells not reusable    *)
(*                                                                         *)
(* A push takes a ticket (CAS on tail_write), fills its cell, raises the   *)
(* cell's check_write flag, and then, as long as the next ticket to make   *)
(* visible is the one it looks at, lowers that ticket's flag and advances  *)
(* tail_read. A pop does the same with head_read, check_read, head_write.  *)
(*                                                                         *)
(* One step of a thread is one atomic access to shared memory. The cells   *)
(* of data_ are not atomic: CellExclusive says that no two threads are     *)
(* ever inside accesses to one cell, which is what makes one step per      *)
(* access faithful.                                                        *)
(***************************************************************************)
EXTENDS Naturals, Sequences

CONSTANTS Producers,   \* the threads that call push
          Consumers,   \* the threads that call pop
          Values,      \* the items
          Size,        \* S, the number of cells
          IndexMod,    \* the counters are size_t: they wrap at IndexMod
          None         \* a cell or a local that holds no item

(* S is a power of two (array_idx_ masks with S - 1) and a multiple of 8   *)
(* (the static_assert), so it divides 2^64 and is far below it.            *)
ASSUME QueueAssumption ==
  /\ Size \in Nat \ {0}
  /\ IndexMod \in Nat
  /\ IndexMod > Size + 1
  /\ IndexMod % Size = 0
  /\ None \notin Values

Threads == Producers \cup Consumers
Cells   == 0 .. Size - 1
Indices == 0 .. IndexMod - 1

VARIABLES
  data,         \* data_
  head_read,    \* head_read_ : the next ticket a pop will take
  head_write,   \* head_write_: the first ticket whose cell is not reusable
  tail_read,    \* tail_read_ : the first ticket that is not visible
  tail_write,   \* tail_write_: the next ticket a push will take
  check_read,   \* check_read_ : the cell has been emptied
  check_write,  \* check_write_: the cell has been filled
  pc,           \* pc[t] : where thread t is
  idx,          \* idx[t]: local idx of the call of t
  val           \* val[t]: the item t pushes, or the one it popped

tail   == <<tail_read, tail_write, check_write>>
head   == <<head_read, head_write, check_read>>
vars   == <<data, head_read, head_write, tail_read, tail_write,
            check_read, check_write, pc, idx, val>>

-------------------------------------------------------------------------------
(* size_t arithmetic and the static helpers of the class.                  *)

(* idx & (max_size - 1), max_size a power of two *)
ArrayIdx(i) == i % Size

(* A fault, not used by the specification: no branch for wrapped counters. *)
SizeOfUnmasked(h, t) == IF t >= h THEN t - h ELSE 0

Inc(i) == (i + 1) % IndexMod

SizeOf(h, t) == IF t >= h THEN t - h ELSE t + Size - ArrayIdx(h)

(* A fault, not used by the specification: the last cell is never given.   *)
IsFullEarly(h, t) == SizeOf(h, t) >= Size - 1

IsFull(h, t) == SizeOf(h, t) = Size

IsEmpty(h, t) == h = t

(* The number of tickets in [h, t), for counters that wrap.                *)
Dist(h, t) == IF t >= h THEN t - h ELSE t + IndexMod - h

Goto(t, label) == pc' = [pc EXCEPT ![t] = label]

Return(t) == /\ Goto(t, "idle")
             /\ val' = [val EXCEPT ![t] = None]

-------------------------------------------------------------------------------
Init ==
  /\ data = [c \in Cells |-> None]
  /\ head_read = 0 /\ head_write = 0
  /\ tail_read = 0 /\ tail_write = 0
  /\ check_read  = [c \in Cells |-> FALSE]
  /\ check_write = [c \in Cells |-> FALSE]
  /\ pc  = [t \in Threads |-> "idle"]
  /\ idx = [t \in Threads |-> 0]
  /\ val = [t \in Threads |-> None]

-------------------------------------------------------------------------------
(* Faults of push and pop, not used by the specification: what a slip in   *)
(* the code would make of a step. The properties tell them apart from it.  *)

(* The item is stored, the flag is not raised.                             *)
PushStoreNoFlag(t) ==
  /\ pc[t] = "push_store"
  /\ data' = [data EXCEPT ![ArrayIdx(idx[t])] = val[t]]
  /\ Goto(t, "push_turn")
  /\ UNCHANGED <<head, tail, idx, val>>

(* push publishes its own ticket and does not look at the next one.        *)
PushPublishOnce(t) ==
  /\ pc[t] = "push_publish"
  /\ tail_read' = Inc(tail_read)
  /\ Return(t)
  /\ UNCHANGED <<data, head, tail_write, check_write, idx>>

(* A ticket is taken without comparing it with the counter.                *)
PopReserveBlind(t) ==
  /\ pc[t] = "pop_reserve"
  /\ head_read' = Inc(idx[t])
  /\ Goto(t, "pop_take")
  /\ UNCHANGED <<data, tail, head_write, check_read, idx, val>>

(* The item is taken, the flag is not raised.                              *)
PopTakeNoFlag(t) ==
  /\ pc[t] = "pop_take"
  /\ val'  = [val  EXCEPT ![t] = data[ArrayIdx(idx[t])]]
  /\ data' = [data EXCEPT ![ArrayIdx(idx[t])] = None]
  /\ Goto(t, "pop_turn")
  /\ UNCHANGED <<head, tail, idx>>

-------------------------------------------------------------------------------
(* push                                                                    *)

(* size_t idx = tail_write_ *)
PushLoad(t, v) ==
  /\ pc[t] = "idle"
  /\ idx' = [idx EXCEPT ![t] = tail_write]
  /\ val' = [val EXCEPT ![t] = v]
  /\ Goto(t, "push_check")
  /\ UNCHANGED <<data, head, tail>>

(* while(!is_full_(head_write_, idx)) ... return false *)
PushCheck(t) ==
  /\ pc[t] = "push_check"
  /\ IF IsFull(head_write, idx[t])
     THEN Return(t)
     ELSE Goto(t, "push_reserve") /\ UNCHANGED val
  /\ UNCHANGED <<data, head, tail, idx>>

(* tail_write_.compare_exchange_weak(idx, idx + 1) succeeds *)
PushReserve(t) ==
  /\ pc[t] = "push_reserve"
  /\ tail_write = idx[t]
  /\ tail_write' = Inc(idx[t])
  /\ Goto(t, "push_store")
  /\ UNCHANGED <<data, head, tail_read, check_write, idx, val>>

(* It fails, because the counter has moved or spuriously: idx is reloaded. *)
PushRetry(t) ==
  /\ pc[t] = "push_reserve"
  /\ idx' = [idx EXCEPT ![t] = tail_write]
  /\ Goto(t, "push_check")
  /\ UNCHANGED <<data, head, tail, val>>

(* data_[array_idx] = std::move(value) *)
PushStore(t) ==
  /\ pc[t] = "push_store"
  /\ data' = [data EXCEPT ![ArrayIdx(idx[t])] = val[t]]
  /\ Goto(t, "push_flag")
  /\ UNCHANGED <<head, tail, idx, val>>

(* check_write_[array_idx] = true *)
PushFlag(t) ==
  /\ pc[t] = "push_flag"
  /\ check_write' = [check_write EXCEPT ![ArrayIdx(idx[t])] = TRUE]
  /\ Goto(t, "push_turn")
  /\ UNCHANGED <<data, head, tail_read, tail_write, idx, val>>

(* while(idx == tail_read_ && ...) ... return true *)
PushTurn(t) ==
  /\ pc[t] = "push_turn"
  /\ IF idx[t] = tail_read
     THEN Goto(t, "push_ready") /\ UNCHANGED val
     ELSE Return(t)
  /\ UNCHANGED <<data, head, tail, idx>>

(***************************************************************************)
(* data_is_ready_(check_write_[array_idx_(idx)]): lower the flag if it is  *)
(* raised. The load and the CAS of the loop are one step: the CAS decides  *)
(* alone whenever the load has seen the flag raised, a load that sees it   *)
(* lowered decides like a CAS that fails, and a spurious failure changes   *)
(* nothing.                                                                *)
(***************************************************************************)
PushReady(t) ==
  /\ pc[t] = "push_ready"
  /\ IF check_write[ArrayIdx(idx[t])]
     THEN /\ check_write' = [check_write EXCEPT ![ArrayIdx(idx[t])] = FALSE]
          /\ Goto(t, "push_publish")
          /\ UNCHANGED val
     ELSE Return(t) /\ UNCHANGED check_write
  /\ UNCHANGED <<data, head, tail_read, tail_write, idx>>

(* ++tail_read_; ++idx *)
PushPublish(t) ==
  /\ pc[t] = "push_publish"
  /\ tail_read' = Inc(tail_read)
  /\ idx' = [idx EXCEPT ![t] = Inc(@)]
  /\ Goto(t, "push_turn")
  /\ UNCHANGED <<data, head, tail_write, check_write, val>>

-------------------------------------------------------------------------------
(* pop                                                                     *)

(* size_t idx = head_read_ *)
PopLoad(t) ==
  /\ pc[t] = "idle"
  /\ idx' = [idx EXCEPT ![t] = head_read]
  /\ Goto(t, "pop_check")
  /\ UNCHANGED <<data, head, tail, val>>

(* while(!is_empty_(idx, tail_read_)) ... return false *)
PopCheck(t) ==
  /\ pc[t] = "pop_check"
  /\ Goto(t, IF IsEmpty(idx[t], tail_read) THEN "idle" ELSE "pop_reserve")
  /\ UNCHANGED <<data, head, tail, idx, val>>

(* head_read_.compare_exchange_weak(idx, idx + 1) succeeds *)
PopReserve(t) ==
  /\ pc[t] = "pop_reserve"
  /\ head_read = idx[t]
  /\ head_read' = Inc(idx[t])
  /\ Goto(t, "pop_take")
  /\ UNCHANGED <<data, tail, head_write, check_read, idx, val>>

(* It fails: idx is reloaded. *)
PopRetry(t) ==
  /\ pc[t] = "pop_reserve"
  /\ idx' = [idx EXCEPT ![t] = head_read]
  /\ Goto(t, "pop_check")
  /\ UNCHANGED <<data, head, tail, val>>

(* value = std::move(data_[array_idx]): the cell is left moved-from. *)
PopTake(t) ==
  /\ pc[t] = "pop_take"
  /\ val'  = [val  EXCEPT ![t] = data[ArrayIdx(idx[t])]]
  /\ data' = [data EXCEPT ![ArrayIdx(idx[t])] = None]
  /\ Goto(t, "pop_flag")
  /\ UNCHANGED <<head, tail, idx>>

(* check_read_[array_idx] = true *)
PopFlag(t) ==
  /\ pc[t] = "pop_flag"
  /\ check_read' = [check_read EXCEPT ![ArrayIdx(idx[t])] = TRUE]
  /\ Goto(t, "pop_turn")
  /\ UNCHANGED <<data, tail, head_read, head_write, idx, val>>

(* while(idx == head_write_ && ...) ... return true *)
PopTurn(t) ==
  /\ pc[t] = "pop_turn"
  /\ IF idx[t] = head_write
     THEN Goto(t, "pop_ready") /\ UNCHANGED val
     ELSE Return(t)
  /\ UNCHANGED <<data, head, tail, idx>>

(* data_is_ready_(check_read_[array_idx_(idx)]), as in PushReady *)
PopReady(t) ==
  /\ pc[t] = "pop_ready"
  /\ IF check_read[ArrayIdx(idx[t])]
     THEN /\ check_read' = [check_read EXCEPT ![ArrayIdx(idx[t])] = FALSE]
          /\ Goto(t, "pop_publish")
          /\ UNCHANGED val
     ELSE Return(t) /\ UNCHANGED check_read
  /\ UNCHANGED <<data, tail, head_read, head_write, idx>>

(* ++head_write_; ++idx *)
PopPublish(t) ==
  /\ pc[t] = "pop_publish"
  /\ head_write' = Inc(head_write)
  /\ idx' = [idx EXCEPT ![t] = Inc(@)]
  /\ Goto(t, "pop_turn")
  /\ UNCHANGED <<data, tail, head_read, check_read, val>>

-------------------------------------------------------------------------------
(* The steps of a call that has begun.                                     *)
PushStep(t) == \/ PushCheck(t) \/ PushReserve(t) \/ PushRetry(t)
               \/ PushStore(t) \/ PushFlag(t) \/ PushTurn(t)
               \/ PushReady(t) \/ PushPublish(t)

PopStep(t) == \/ PopCheck(t) \/ PopReserve(t) \/ PopRetry(t)
              \/ PopTake(t) \/ PopFlag(t) \/ PopTurn(t)
              \/ PopReady(t) \/ PopPublish(t)

Next == \/ \E t \in Producers : PushStep(t) \/ \E v \in Values : PushLoad(t, v)
        \/ \E t \in Consumers : PopStep(t) \/ PopLoad(t)

Spec == Init /\ [][Next]_vars

(***************************************************************************)
(* A thread that is inside a call keeps running: the calls never block.    *)
(* compare_exchange_weak may fail spuriously, but not for ever.            *)
(***************************************************************************)
Fairness ==
  /\ \A t \in Producers : WF_vars(PushStep(t)) /\ SF_vars(PushReserve(t))
  /\ \A t \in Consumers : WF_vars(PopStep(t)) /\ SF_vars(PopReserve(t))

FairSpec == Spec /\ Fairness

-------------------------------------------------------------------------------
PushPcs == {"push_check", "push_reserve", "push_store", "push_flag",
            "push_turn", "push_ready", "push_publish"}

PopPcs  == {"pop_check", "pop_reserve", "pop_take", "pop_flag",
            "pop_turn", "pop_ready", "pop_publish"}

(* Counters stay below IndexMod, cells and locals keep to their types.     *)
TypeOK ==
  /\ data \in [Cells -> Values \cup {None}]
  /\ {head_read, head_write, tail_read, tail_write} \subseteq Indices
  /\ check_read \in [Cells -> BOOLEAN]
  /\ check_write \in [Cells -> BOOLEAN]
  /\ pc \in [Threads -> {"idle"} \cup PushPcs \cup PopPcs]
  /\ idx \in [Threads -> Indices]
  /\ val \in [Threads -> Values \cup {None}]

(***************************************************************************)
(* data_ is a plain array: no two threads may be inside accesses to one    *)
(* cell, or the program has a data race.                                   *)
(***************************************************************************)
CellExclusive ==
  \A t, u \in Threads :
    /\ t # u
    /\ {pc[t], pc[u]} \subseteq {"push_store", "pop_take"}
    => ArrayIdx(idx[t]) # ArrayIdx(idx[u])

(***************************************************************************)
(* When no push is under way everything that was pushed can be popped: the *)
(* code has no background thread, a ticket that no push publishes before   *)
(* the last of them returns stays where it is.                             *)
(***************************************************************************)
NoStrandedItem ==
  (\A t \in Threads : pc[t] \notin PushPcs) => tail_read = tail_write

(***************************************************************************)
(* A call that returns false says the truth: when push gives up, every     *)
(* cell is taken; when pop gives up, there is no item to take. Both calls  *)
(* decide with a local idx that was loaded earlier.                        *)
(***************************************************************************)
RefusalIsHonest ==
  [][\A t \in Threads :
       /\ pc[t] = "push_check" /\ pc'[t] = "idle"
            => Dist(head_write, tail_write) = Size
       /\ pc[t] = "pop_check" /\ pc'[t] = "idle"
            => head_read = tail_read]_vars

(***************************************************************************)
(* A ticket that a push has taken becomes visible without any further      *)
(* call: the pushes under way see to it (tail_read_).                      *)
(***************************************************************************)
EventuallyVisible ==
  \A i \in Indices :
    (tail_read = i /\ tail_write # i) ~> (tail_read # i)

(* A cell that a pop has emptied becomes free without any further call     *)
(* (head_write_).                                                          *)
EventuallyReusable ==
  \A i \in Indices :
    (head_write = i /\ head_read # i) ~> (head_write # i)

-------------------------------------------------------------------------------
(* The queue implements a bounded FIFO.                                    *)

(* The item of ticket i: still in the hands of its push, or in its cell.   *)
ItemOf(i) ==
  LET pushing == {t \in Threads : pc[t] = "push_store" /\ idx[t] = i}
  IN  IF pushing = {} THEN data[ArrayIdx(i)]
                      ELSE val[CHOOSE t \in pushing : TRUE]

(* The items of the tickets in [h, t), oldest first.                       *)
ItemsOf(h, t) == [k \in 1 .. Dist(h, t) |-> ItemOf((h + k - 1) % IndexMod)]

HandOf(t) ==
  CASE pc[t] = "pop_take" -> data[ArrayIdx(idx[t])]
    [] pc[t] \in {"pop_flag", "pop_turn", "pop_ready", "pop_publish"} -> val[t]
    [] OTHER -> None

Fifo == INSTANCE TicketFifo WITH
          accepted <- ItemsOf(tail_read, tail_write),
          visible  <- ItemsOf(head_read, tail_read),
          hand     <- [t \in Consumers |-> HandOf(t)],
          drained  <- Dist(head_write, head_read),
          Capacity <- Size,
          Nothing  <- None

(***************************************************************************)
(* No item is lost, handed out twice, reordered or handed out before it    *)
(* has been written, and no push is accepted beyond Size items: push's CAS *)
(* is Accept, the increments of tail_read_ and head_write_ are Publish and *)
(* Recycle, pop's CAS is Take, its return is Deliver.                      *)
(***************************************************************************)
ImplementsTicketFifo == Fifo!Spec
===============================================================================
