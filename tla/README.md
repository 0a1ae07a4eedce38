# toolsbox: TLA+ models, checks and proofs

toolsbox is a C++14 header library (`src/include/toolsbox/`). Its core is a set
of concurrent containers and pools whose correctness rests on the order of a
few atomic accesses; around them are single-threaded utilities (signals,
variants, iterators, compile-time helpers). This directory models the
concurrent core access by access, checks it with TLC and proves what matters
most with TLAPS. The thread pool is modelled over the queue's abstract
specification. The single-threaded parts are modelled where exceptions,
destructors and callbacks can come in between: `signal`, `variant`, `any`, `zip`.

## The system's parts

| part | state it keeps | operations | interacts with |
|---|---|---|---|
| `lockfree/fix_size_queue` | ring `data_[S]`, four counters, two arrays of flags | `push`, `pop`; `empty`, `full`, `size` read | any threads; the queue of a `thread_pool` |
| `lockfree/stack` | `head_` (pointer and tag), `counter_`, heap nodes | `push`, `pop`, destructor | any threads, the allocator |
| `pool/object_pool.hpp`, linear | chain of `linear_node`, each with a `segment` (bit mask, storage) | `acquire`; release by the `deleter` of the pointer it returned | any threads, client constructors and destructors |
| `pool/object_pool.hpp`, tree | tree of `tree_node` with token and capacity counters | the same | the same |
| `pool/object_pool.hpp`, none | nothing | `new`/`delete` | |
| `pool/thread_pool` | `running_`, `workers_`, a queue of promises and tasks | `bind_all`, `bind_by_thread`, `start`, `stop`, `push`, worker loop | a queue, worker threads, the futures of clients |
| `sig/signal`, `connection`, `group_connection` | `slots_`, deferred adds and deletes, a guard, a shared validity flag | `connect`, emission, `disconnect`, destructors | slots that call back into the signal |
| `variant` | index and storage of one object | construct, copy, move, assign, `emplace`, `reset`, compare, visit | the constructors and destructors of what it holds |
| `any` | a pointer to a cloned holder | construct, copy, move, assign, `reset`, `as`, `is` | `type_uid`, the destructor of the value |
| `type_uid` | one counter, one static id per type | `get<T>` | every thread that asks an `any` for its type |
| `zip` | positions of several iterators | `begin`, `end`, `++`, `--`, compare, dereference | the ranges |
| `zip_tuple`, `apply`, `for_each`, `static_map`, `static_max`, `print_type` | none, or fixed at compile time | | |

What is hard, and what makes each part correct:

* **Queue.** Nobody owns the counters. A call publishes the tickets of other
  calls and leaves its own to them. Correct: it is a bounded FIFO, no two calls
  are in one cell, and when the calls have returned nothing is left invisible
  or unusable.
* **Stack.** `pop` reads a node it does not protect. Correct: the tag keeps
  whatever it read there out of `head_`; every node is listed, owned or freed.
* **Pools.** Slots are handed out by bit masks which several threads exchange,
  nodes are linked by races that have a loser, clients' constructors throw.
  Correct: one owner per slot, no slot or node lost, objects live strictly
  inside the time their slot is taken, memory grows only on need. In the tree
  the tokens must match the free slots at each level.
* **Thread pool.** Tasks pushed while the workers leave, restarts, a queue that is
  full. Correct: a task is in one place and runs once, every future becomes
  ready if the pool keeps running and its queue strands nothing, no worker runs after `stop`, and a target bound
  for one thread is called by one thread.
* **Signal.** Re-entrance, from slots and from destructors of slots. Correct:
  an iterator in use is never erased, nothing is erased twice, and between
  emissions exactly the connected slots are listed.
* **Variant.** Exceptions between the change of the index and the construction,
  destructors that come back to the variant they are in, moves that empty the
  source. Correct: the index names the object that exists, no object is
  overwritten or destroyed twice, and a call transfers one value.
* **Any and type_uid.** The old value is destroyed in the middle of an
  assignment; ids come from a counter that threads share without
  synchronisation. Correct: one owner per value, an assignment that throws has
  changed nothing, `is` tells the type.
* **Zip.** Ranges of unequal lengths. Correct: it stops after the last of the shortest and
  not before, in step, and reads no range past its end.

`PROJECT.json` lists every hazard at its line, and the properties about it.

## Modules

| module | models | kind |
|---|---|---|
| `TicketFifo` | a bounded FIFO whose items become visible, and whose cells become free, in order and with delay | abstract |
| `FixSizeQueue` | `fix_size_queue`: one action per atomic access | detailed, refines `TicketFifo` |
| `MCQueueSpsc`, `MCQueueMpmc` | clients of the queue for TLC | instances |
| `SlotPool` | a set of slots with at most one owner each | abstract |
| `LinearPool` | `basic_object_pool_impl<linear_node>`, `segment`, `deleter` | detailed, refines `SlotPool` |
| `MCLinearPool` | two threads | instance |
| `Lifo` | a stack whose pop takes and later returns | abstract |
| `Stack` | `lockfree::stack` with an allocator that reuses addresses | detailed, refines `Lifo` |
| `MCStack` | symmetry | instance |
| `TreePool` | `basic_object_pool_impl<tree_node>` | detailed, refines `SlotPool` |
| `MCTreePool` | a budget of calls | instance |
| `ThreadPool` | `thread_pool`; its queue is an INSTANCE of `TicketFifo` | detailed |
| `MCThreadPool` | two threads that push | instance |
| `Signal` | `signal`, `connection`, `group_connection`, slots that call back | detailed |
| `MCSignal` | four slots, groups of two | instance |
| `Holder` | what `variant` and `any` promise: cells with a value, calls that put, copy or move one, with the strong guarantee or without (`Strong`) | abstract |
| `Variant` | `variant`: `index_`, `storage_`, and the relations | detailed, refines `Holder` |
| `MCVariant` | symmetry, a type that is listed twice | instance |
| `TypeUid` | `type_uid`: the guarded static and the unguarded `counter++` | detailed, part of `Any` |
| `Any` | `any` and `any_value`: holders, their owners, `is` | detailed, refines `Holder` with the strong guarantee |
| `MCAny` | symmetry, two threads with anys of their own | instance |
| `Zip` | `zip`, `zip_iterator`, `zip_tuple` | detailed |
| `MCZip` | three ranges | instance |
| `FixSizeQueue_proofs`, `LinearPool_proofs`, `TreePool_proofs`, `Stack_proofs`, `ThreadPool_proofs`, `Variant_proofs`, `Any_proofs`, `SignalZip_proofs` | theorems about the module, or the two modules, in their name | proofs |

In every detailed module of the concurrent part `pc[t]` says where thread `t` is in its call, the
other functions of `t` are the call's locals, and the remaining variables are
the members of the class under their own names. One action is one access to
shared memory, named after what it does (`PushReserve` is the
`compare_exchange_weak` on `tail_write_` that succeeds, `PushRetry` the one that
fails). The members are `std::atomic` with the default, sequentially consistent
order, so that interleaving the accesses is what the language promises; fields
that are not atomic are either shown never to be raced for (`CellExclusive`,
`SlotExclusive`, `NodesAccounted`) or modelled as holding anything
(`childs_index_` in `TreePool`; `next` of a node that is freed or being written
in `Stack`).

Two simplifications. `data_is_ready_` and the CAS loops of `tree_node` are one
step: what they decide is decided by the access that ends the loop, and the
iterations before it change nothing. And `get_bit`/`find_first_bit` are the
minimum of a set: the bit tables behind them are left to a later module.

`ThreadPool` composes with the queue: its `accepted`, `visible`, `hand` and
`drained` are the variables of `TicketFifo`, which `FixSizeQueue` is shown to
implement (as long as no call is overtaken, see below), and its actions take their part of a step
from `Queue!Accept`, `Queue!Take` and `Queue!Deliver`; `Publish` and `Recycle` are the ends of the
queue's calls, without fairness of their own. `owner` is the one thread that calls `start` and
`stop`; each iteration of their loops is an action, `Join` waits for the worker,
`JoinThrows` is `std::thread::join` on a thread that an earlier `stop` has joined:
`workers_` is never cleared. A worker refers to its target where the pool keeps it
(`target`, chosen by `get_target_`); clients bind targets while no worker runs. `future[k]` is the state that task `k`'s promise and
future share.

In `Stack` the variable `list` is history: the nodes the exchanges have linked, top
first. It says what the pointers from `head_` on should lead through;
`NodesAccounted` states that they do, and the abstract stack is read from it.

In `Signal` slots are numbers in the order of their `connect`; an iterator into a
list is the number of the slot it points to, and an erase of one that is not in
the list sets `wild`. `frames` is the stack of emissions under way, each with the
slot it is calling; `flush` says how far `~slot_guard` has come and `todo` lists the
connections that the destructors under way have still to disconnect. While a slot is being called (`CodeRuns`), any of
`Connect`, `Disconnect`, `Emit` may happen, in any number, and `EndEmission` is both
the return of the last slot and a slot that throws. A slot may own a
`group_connection` (`owns`), which disconnects its members in turn when the slot is
destroyed, each to a slot connected before it: the order in which a client can
pass them to `connect`.

In `Variant` an object is its type and its value; `storage` is `Raw` where none has
been constructed. A call that is given a value, a variant or a variant that may be
moved from is a record (`call`), and `pc` says whether the visitor that `index_`
selects will construct or assign. `Reset` is `reset` with the start of the
destructor; while `dying` is not empty that destructor runs and may reset any
variant, which is where the order "index first, object second" matters. What is
undefined in C++ (an object that is not there is destroyed, read or assigned to)
sets `wild` and ends the behaviour. `throws`, `broken`, `dropped` and `lost` are
history: the constructors and assignments that have thrown, the variants this
concerns, and whether an object disappeared without its destructor. The relations are
operators over an index and a value, compared with a definition by rank in
`ComparesByContent` in every reachable state.

`Any` has one thread for each set of anys; the threads meet in `TypeUid` alone. The
two calls of `get` in `is<T>()` may come in either order, as the operands of `==` may be
evaluated. A static is initialised by one thread while others wait, as the
language says; `counter++` in it is a load and a store, and `raced` records that two
threads were between the two at once. `IdMod` stands for 2^32. `operator=` makes the new holder
before it touches the old one, and unlike a variant an `any` has the strong guarantee:
`Holder` with `Strong` set lets no call empty its target before its last step, and no reset
touch the cells of a call that is under way.

In `Zip` the position of an inner iterator is the number of elements before it.
`nth` is history: it counts the steps from `begin()`, forth and back, whatever the code does
with the positions, so that `PairsInStep` would see an `end()` that comes too early or too late. From
`end()` it counts back as long as the ranges are equal. A `--` from the end of ranges of
unequal lengths, where the code steps each of them back from its own end, leaves it
`Unknown` until the iterator is assigned again.

Operators marked as faults, in front of the actions, are not used by any
specification. Each is what a plausible slip would make of an action, and with
it in place of that action the property it is listed with in `PROJECT.json` is
violated.

## What the runs check

| run | instance | properties | shows |
|---|---|---|---|
| `queue_spsc` | 1 producer, 1 consumer, `Size` 4, counters modulo 8 | `CellExclusive`, `EventuallyVisible`, `EventuallyReusable`, `ImplementsTicketFifo` | endless reuse of cells, counters that wrap, liveness, FIFO |
| `queue_mpmc` | producers with 4 and 1 pushes, 2 consumers with 1 pop each, `Size` 4 | `NoStrandedItem`, `RefusalIsHonest`, `ImplementsTicketFifo`, `EventuallySettled` | publication on behalf of other calls, FIFO and honest refusals under it, with a ring that fills and a cell that is used again; no ticket waits for another call to come |
| `queue_reuse` | pushes 1 and 10, 3 pops, `Size` 8 | `NoStrandedItem` | a violation, see below |
| `linear_pool` | 2 threads, 2 addresses beside the root, 2 slots each, 3 objects, 1 throwing constructor | `SlotsAccounted`, `ObjectLifetime`, `NodesAccounted`, `GrowthBounded`, `CallsReturn`, `ImplementsSlotPool` | slots, nodes, objects, growth; every call returns |
| `stack` | 2 threads, 3 addresses, 3 pushes, 2 values | `NodesAccounted`, `PopPutsNext`, `ImplementsLifo` | integrity of the list, LIFO |
| `tree_pool` | 2 threads, 1 slot per node, 2 children, 3 levels, 4 objects, 5 acquires | `SlotsAccounted`, `TokensMatchFree`, `SearchFinds`, `CapacityMatches`, `DepthBounded`, `CallsReturn` | tokens, capacities and slots agree; the tree stays flat; every call returns |
| `thread_pool` | 2 threads push 3 tasks into 2 cells, 2 workers, 2 starts, targets for all and for the second worker | `RunsOnce`, `StopQuiesces`, `OneThreadPerTarget`, `FuturesReady`, `StopReturns` | tasks run once, futures become ready when the queue settles, `stop` quiesces and returns, a thread's target is called by one thread |
| `signal` | 4 connects, groups of 2, emissions 2 deep | `TypeOK`, `IteratorsHold`, `Settled`, `CallsConnected` | deferred changes under re-entrance and cascades of destructors |
| `variant` | 3 variants, 2 types of which one is listed twice, 2 values, 2 throws | `ObjectLifetime`, `ComparesByContent`, `ImplementsHolder` | one object at a time, whatever throws and whoever resets; an order; one value per call |
| `any` | 2 threads with 2 anys and 1, 2 types, 5 addresses, 1 throw | `IsTellsTheType`, `OneOwner`, `ImplementsHolder` | one owner per value; an old value given up only for the new one; ids under a race |
| `zip` | 3 ranges, all empty or of lengths 1 to 3, 2 iterators | `StopsAtShortest`, `PairsInStep` | no range read past its end, elements in step, none left out |
| `zip_empty` | 3 ranges of lengths 0 to 2 | `StopsAtShortest` | a violation, see below |

**Bounds.** `Size` 4 and `IndexMod` 8 let each counter wrap several times within a
run and lie on either side of the wrap in every combination; the code's own
condition that `Size` is a multiple of 8 matters only in that `Size` divides the
range of `size_t` and is smaller by more than one (`QueueAssumption`). With several
producers `queue_mpmc` makes one push more than there are cells: the ring fills, the
fifth push is refused or takes a cell that a pop gave back, and one producer may take
every cell while the other is held up anywhere in its push. It stops short of the
first finding below, which needs a call overtaken by more than a round of the ring and breaks
`NoStrandedItem`, and of the first observation, which needs `Size` cells to have been
given back and breaks `RefusalIsHonest`. What holds beyond that, and on which
condition, is proved and not run. Two slots per node and three
objects make threads walk, race for `next_` and find a segment empty that is not
empty any more; `Addresses` is as large as the growth the pool may need, which
`GrowthBounded` states; two threads suffice for TLC because the safety of the
pool is proved for any number of them. In the stack three addresses and three pushes let an
address be freed and used again while two tags for it are still held. In the
tree one slot per node makes it deepest for the number of objects;
`DepthBounded` shows that no level beyond `MaxDepth` is asked for, so that the
bound cuts nothing off; it is proved for every instance whose levels hold
`MaxObjects`. `MaxThrows`, `MaxPushes`, `MaxCalls` and the calls of
`MCQueueMpmc` bound what clients do.
Two cells for three tasks let a push find the queue full and a task stay in it
across a stop; two targets (`Bindable`) are one that is shared and one that is not; two
starts reach the second join of a joined thread. Four slots let
one be erased whose destruction erases two others, between others that stay.
Three variants are the target and the source of a call and one that only a
destructor touches; two throws let a variant whose constructor threw be used
again. Two anys of one thread and one of another let an assignment, a destructor
inside it and a race for ids happen together; five addresses are as many as the
holders that can be alive at once (three of one thread, two of the other), so that `new` never fails for want of a bound. `IdMod`
is larger than the number of types, as 2^32 is (`TypeUidAssumption`), so that only a race makes two
ids equal. Lengths up to 3 give the first, the last and an inner element, for
every combination of equal and unequal ranges.

**Fairness.** A thread that is inside a call keeps running (weak fairness of its
steps): the library never blocks and the scheduler runs every thread. A
`compare_exchange_weak` that is enabled again and again succeeds at last (strong
fairness of that action): it may fail spuriously, or because another thread won,
but not for ever. No thread is obliged to begin a call: `EventuallySettled` holds
all the same. The search of the tree pool is lock-free and not wait-free: `CallsReturn` is claimed for a
finite number of calls. It does depend on the fairness of *other* threads: between
the CAS that hangs a node and the end of its `init_child_` all other calls spin.
In `ThreadPool` the steps of every worker, of `push` once called, and of `start`
and `stop` once called are weakly fair, since none of them blocks for ever on its
own. The steps by which the queue makes a task visible and a cell free (`Publish`,
`Recycle`) are not: in the code they are the last accesses of whichever `push` or `pop` comes to
make them, and by the first finding it can happen that none does. So `FuturesReady` names what it
needs of the queue as a hypothesis, `QueueSettles`, which is what `queue_mpmc` checks of
`FixSizeQueue` under the name `EventuallySettled`, and claims nothing where `queue_reuse`
shows it broken. Besides, it assumes
that the pool keeps running from some time on. `StopReturns` assumes, by the bound
on `Tasks`, that pushing ends: workers look at `running_` only when they find the
queue empty. The signal has no liveness: its slots may emit for ever. Neither have
variants, anys and zips, whose calls end when the code of their clients does.

**Findings.** First, `push` decides in two accesses that its ticket is the next to be
published: `idx == tail_read_`, then the flag of the cell. A producer that is
held up between them while another one publishes its ticket and the ring goes
round once takes the flag of the ticket that now uses the cell, and advances
`tail_read_` in the place of that ticket's push. In `queue_reuse` (11 pushes, 8 cells) the
late push has ticket 1 and takes the flag of ticket 9, whose push finds it lowered and
returns; the push of ticket 10 sees `tail_read_` still at 9 and returns as well. Then
the late push makes 9 visible and, since it counts on from its own ticket, looks at
ticket 2 instead of 10 and leaves. Ticket 10, whose push has returned `true`, stays
invisible with its flag raised, and so does everything pushed after it: a push looks at
its own ticket and those behind it, so that none comes to 10 again before the counters do
(2^64 tickets). In the end pops find the queue empty and pushes find it full.
`tests/perf_lockfree_01.cc:97-101` expects that what was popped adds up to what was
pushed (its test of `empty()` before that cannot tell: `empty()` compares with `tail_read_` too).
With a third producer more than
an item's visibility is lost: the late push, having lowered the wrong flag,
advances `tail_read_` past the oldest ticket although its producer is still writing
the cell, and a pop that follows reads the cell during the write. TLC finds this state
(it violates `CellExclusive`) with 4 cells, pushes 1, 4 and 1, and 3 pops. `pop` has the
same pair of accesses at line 93: with 2 cells, 5 pushes of one producer and three
consumers that pop 1, 2 and 1 times, TLC finds a push that writes a cell while a pop
is still reading it, which a `thread_pool` with three workers may meet. Both need the same
overtaking and are no findings of their own; they are why `QueueCellExclusive`
below has the hypothesis `NotOvertaken` as well.

Second, `begin()` of a zip does not ask whether a range ends at once, which `++`
does at every step. A zip of an empty range and one that is not empty is not at its
`end()`, and the loop dereferences the end of the empty range. `tests/test_zip.cc:78-92`
expects a zip to stop at the shortest range; `zip_empty` shows the first `begin()`
that does not. With `AllOrNone` (no range alone in being empty) `StopsAtShortest` holds, and is
proved.

**Observations** that the models state but no text of the repository contradicts. With
several producers a push may refuse although the queue is empty: `size_` masks
`head_write_` and not the ticket, so a push that loaded ticket 0 and comes to look
when `head_write_` is at `Size` (or ticket `h % Size` for any later `h`) computes
`Size` and takes the ring for full. A variant does not destroy the object it has
moved from (`visitor_move` resets `index_` of the source and leaves the object in
`storage_`). A variant that is moved to itself becomes empty, while an `any` keeps
its value. When a constructor throws
inside an assignment or an `emplace`, `index_` names an object that is not there
(`broken`), and the next call that touches the variant is undefined. Two threads
that ask for the ids of two types at the same time may get one id, and after that
the counter may have gone back, so that types asked for later share ids as well.
A pool stopped twice joins threads that were joined before.

`queue_mpmc`, `queue_reuse`, `tree_pool`, `thread_pool`, `signal`, `variant` and `any`
may stop: their clients run out of calls, or the behaviour has become undefined;
`CHECK_DEADLOCK FALSE` is set only there.

## What is proved

Every theorem is about all values of the constants that the module's named
assumption admits (`PoolAssumption`, `StackAssumption`, ...), which say no more than
that sizes are positive, markers are no data, the queue's `Size` divides the range of
its counters and is smaller by more than one, and what the runs bound is a number.
Those of the queue and of the zip and `TreeDepthBounded` have one hypothesis more, named below
with the reason and, for the queue, with the clients it is proved for. `PROJECT.json`
lists the theorems with the properties they state.

| module | theorems | invariants and properties of the runs that they state |
|---|---|---|
| `LinearPool_proofs` | `Typing`, `NodesKept`, `ChainGrows`, `SlotsExclusive`, `SlotsConserved`, `ObjectsLive`, `PoolGrowthBounded`, `PoolImplementsSlotPool` | `NodesAccounted`, `SlotsAccounted`, `ObjectLifetime`, `GrowthBounded`, `ImplementsSlotPool` |
| `TreePool_proofs` | `Typing`, `TreeSlotsAccounted`, `TreeTokensMatchFree`, `TreeCapacityMatches`, `TreeSearchFinds`, `TokenHasChild`, `TreeStaysFlat`, `TreeDepthBounded`, `TreeImplementsSlotPool` | `SlotsAccounted`, `TokensMatchFree`, `CapacityMatches`, `SearchFinds`, `DepthBounded` |
| `FixSizeQueue_proofs` | `QueueTyping`; `QueueCellExclusive`, `QueueNoStrandedItem`, `QueueImplementsTicketFifo`; `SpscNotOvertaken`, `SpscCellExclusive`, `SpscNoStrandedItem`, `SpscRefusalIsHonest`, `SpscImplementsTicketFifo`; `FirstRoundNotOvertaken`; `QueueRefusalIsHonest`, `FewPopsRefusalIsHonest`; `QueueNoStrandedCell`, `OneProducerNoStrandedItem`, `OneConsumerNoStrandedCell`, `OneProducerNotOvertaken`, `OneConsumerNotOvertaken` | `CellExclusive`, `NoStrandedItem`, `RefusalIsHonest`, `ImplementsTicketFifo` |
| `Stack_proofs` | `StackTyping`, `StackKeepsNodes`, `StackPopPutsNext`, `StackImplementsLifo` | `NodesAccounted`, `PopPutsNext`, `ImplementsLifo` |
| `ThreadPool_proofs` | `PoolQuiesces`, `PoolTargetsApart`, `PoolRunsOnce` | `StopQuiesces`, `OneThreadPerTarget`, `RunsOnce` |
| `Variant_proofs` | `VariantObjectLifetime`, `VariantComparesByContent`, `VariantImplementsHolder` | `ObjectLifetime`, `ComparesByContent`, `ImplementsHolder` |
| `Any_proofs` | `AnyTellsTheType`, `AnyOneOwner`, `AnyImplementsHolder` | `IsTellsTheType`, `OneOwner`, `ImplementsHolder` |
| `SignalZip_proofs` | `SignalTyping`, `SignalIteratorsHold`, `SignalSettled`, `SignalCallsConnected`, `ZipStopsAtShortest`, `ZipPairsInStep` | `TypeOK` of the signal, `IteratorsHold`, `Settled`, `CallsConnected`, `StopsAtShortest`, `PairsInStep` |

**Linear pool.** The inductive invariant has four layers. `TypeInv` is the typing
together with what each program point knows of its locals. `ChainInv` speaks of
nodes: who holds a new node, that two `next_` never point to one node and that
nothing points to the root, which is what makes "the node I link is new" inductive
and `NodesAccounted` follow. `SlotInv`, on top of it, says that the places dealt with
by calls, owned and lost are disjoint and that a linked node's mask is exactly
the rest; the masks of nodes that are not linked must be full, or linking one
would break it. The CAS compares the whole mask, so the local copy needs no
invariant of its own. `GrowthInv` counts: a call goes past a node only when it
finds all slots taken, and those `NbElement` holders stay behind it as long as they
hold. So what is behind the `k`-th node, objects and calls together (`Beyond`), and
`k * NbElement` more fit into the objects and calls there are at all (`Fits`). A
node that comes free behind a thread breaks nothing, because the thread was
counted when it passed. A new node is hung only by a thread that is itself
behind the last one, and `GrowthBounded` follows.

**Tree pool.** `TypeInv` adds to the typing that the tree is closed upwards, that a node
which has still to be made has all its slots free, and that a counter of tokens
above zero belongs to a child that exists; the last gives `TokenHasChild`, the
claim on which `GoDown` rests. `SlotsAccounted` is inductive on top of it.
`TokensMatchFree` and `CapacityMatches` are inductive too, and are proved one child
at a time (`TokensFor`, `CapacityFor`): a step moves at most one call into or out of
the sets that are counted (`Moves`, `CallsMove`), and whatever it takes from one
term of the sum it gives to another, in every node above as well. `SearchFinds` is
not inductive: that a search finds a token says nothing of why. `BalanceInv`
speaks of one node at a time. What has come to it is in its own free slots or
below it: its tokens and free slots are as many as the claims on it (the tokens
the parent has for it, the calls that arrive with one, what releases and new
nodes have still to pass up from it) and the calls that search below it. And its free
slots are never more than the claims alone, because a release raises the slot's bit
before it passes the token up and a call finds the segment empty before it
searches. So there are at least as many tokens as searches.

How deep the tree gets is the question of the linear pool's growth on a tree, and `DepthInv`
answers it in the same way. Nobody goes past a node but by finding its segment
empty: `acquire` when it gets no slot, `create_node_` when `segment_.full()` lets it go on.
Those who took the slots are counted then, and whoever replaces them has not gone
past. So the objects and calls past a node of depth `d` (`Beyond`), and `(d + 1) *
NbElement` more, fit into the objects and calls there are (`Fits`). A node is hung
only by a call that is past the node above it, so a node of depth `d` exists only if
`d * NbElement` is less than `MaxObjects` (`TreeStaysFlat`), however many nodes calls that miss
each other's tokens create beside one another; and `DepthBounded` follows where `MaxDepth`
levels below the root are enough for `MaxObjects` (`TreeDepthBounded`; in the run
both are 4 slots). The least capacity, by which `create_node_` chooses a child, plays no
part in this bound: it decides only how even the tree becomes.

The tree keeps the promise of the chain, `SlotPool` (`TreeImplementsSlotPool`, by `SlotsAccounted`).
It has no run of its own, since `SlotsAccounted` in `tree_pool` already says that a slot
has one owner; on the instance of `tree_pool` TLC finds no step that breaks it.

**Queue.** For any number of producers and consumers, `CellExclusive`, `NoStrandedItem`
and the refinement hold of every behaviour in which no call is overtaken
(`NotOvertaken`). The hypothesis is about the two places where a call acts on what
it saw earlier: while a call stands in front of a flag, the ticket counter of its
side is at most `Size` past its own ticket, and while it stands in front of its CAS,
that counter does not come all the way round to the ticket it loaded (2^64
tickets in the program). The first part cannot be dropped: it is what the first
finding violates. It is proved, not assumed, for two kinds of clients. One
producer and one other consumer (`OneEach`), as in `MCQueueSpsc` and a `thread_pool`
with one worker, are never overtaken (`SpscNotOvertaken`). Neither is anybody
while at most `Size` tickets are drawn (`AtMost`, `FirstRoundNotOvertaken`). A side with a single client is never overtaken, whatever
happens on the other one (`OneProducerNotOvertaken`, `OneConsumerNotOvertaken`): it finds
its counters equal and all flags of its side lowered when it comes, publishes its ticket
itself and leaves them so (`SoleProducerInv`, `SoleConsumerInv`). So with one producer
`NoStrandedItem` holds without any hypothesis on the consumers (`OneProducerNoStrandedItem`): a
`thread_pool` that one thread pushes into strands no task, although with several workers
its cells may be given back too early. `NoStrandedCell` is the same for the cells that
pops give back. `RefusalIsHonest` needs, besides, that the ticket a push judges is one of the ring or left it
less than `Size` cells ago, and that the one a pop judges is not 2^64 - `Size` tickets
old (`TicketsFresh`, `QueueRefusalIsHonest`): by the first observation above it is false of older
ones. `LateIsNotFull` is the arithmetic of it: masking one counter of two does no harm to a
ticket that is less than a ring behind, whichever of the counters have wrapped. No ticket
becomes that stale with one producer and one consumer (`SpscRefusalIsHonest`), nor
while fewer than `Size` cells have been given back, as in `queue_mpmc`
(`FewPopsRefusalIsHonest`).

`push` and `pop` are the same protocol on other counters: tickets are drawn from
one counter, used, flagged, and handed on to the other side by whoever finds that
the first of them has its flag. `Lane` states it once: a ticket under way has one
owner or a raised flag (`Owned`, `Covered`), flags are raised for tickets under way
only (`Flagged`), a call in front of a flag has the first ticket or one that has
been handed on already (`Overdue`), and while the first ticket has its flag some
call is about to look at it (`Watched`). There is a lemma for each step of a lane
(`LaneEnter`, `LaneFlag`, `LaneTurn`, `LaneLeave`, `LaneLower`, `LanePublish`), used for both
sides. `OverdueCell` is where the hypothesis comes in: the flag of a ticket that has
been handed on is down as long as its cell has not gone to the ticket a round
later. `QueueInv` joins the two lanes with the order of the four counters, which
are never more than `Size` apart (`RingInv`), and with the free cell or the item that
a CAS which is going to succeed will find (`RoomInv`). The CAS compares the ticket
and the check that came before it may be old, so that this is no matter of course.
Two tickets less than `Size` apart have different cells, since `Size` divides the
range of the counters, and the rest is arithmetic of distances modulo that range
(`Dist`), wrapping included. For the refinement `ItemsInv` says what the cells and
the hands hold; the items between two counters are a `Line`, and a step of a
counter is an `Append` or a `Tail` of one.

**Stack.** The argument is about tags. A push draws a fresh one, so that a tagged
pointer stands for one push; the tags of the model do not wrap (`counter_` has the
width of a word). A pointer that a push has not linked yet was never in the
list, and a node that was popped never returns under its old tag. Hence a pop whose
`old_head` is still the head has found the node where it is since it loaded the
pointer, and what it read in `next` meanwhile is right; whatever else it read
fails the exchange and never gets anywhere. `ListInv` relates the pointers to
`list` and the nodes to their holders; `PopPutsNext` and the refinement of `Lifo`
follow.

**Thread pool.** `TypeInv` says how far the owner has come in `start` or `stop`;
`JoinedInv` that a joined worker has ended, and that after a `stop` which did not throw
all are joined. `TargetsInv`: the workers that may run are those of one `start`, which
gave each the target of its own id (`OneGeneration`); that is what
`OneThreadPerTarget` needs over restarts. `TasksInv` has one place for each pending
task, and none twice in the queue, and `RunsOnce` counts these places. The queue is
the abstract `TicketFifo`, which `fix_size_queue` implements as long as no call is overtaken; where
one is, the first finding says what becomes of the tasks.

**Variant.** `VariantInv` says for each variant that `index_` names an object that is
whole and not being destroyed, or that it is empty and holds nothing that has
a value (`VariantOK`), except where a constructor or a move has thrown; and for the call
under way that what is to be assigned to has the type of the source, and what is
to be constructed goes into an empty variant that is not the source (`CallOK`).
Destructors that reset variants in between keep this, because `index_` is reset
before the destructor runs and read again after it. `index_` and type tell
each other even if a type is listed twice (`IndexOfType`), which `get` and the
relations rest on.

**Any.** `UidInv`: a static is initialised by one thread, and while no two threads have
met in `counter++`, the ids given out are different and below the counter.
`PlacesInv`: a holder is in one any, one call or one deletion, and exactly
then is it alive. `CallInv` and `QueryInv` say what a call has made and what
ids it has got so far, and that its source and its any are still what they were.
A destructor runs only in a thread without a call (`CallOK`), and an any belongs to
one thread, so that what is reset is in no call (`NotInUse`): this is what the
strong guarantee of `Holder` asks for.

**Signal.** `ListsInv`: what is valid is in `slots_` or `to_add_slots_`, and besides that
only what has been disconnected and waits in `to_delete_slots_`, each once; what is
pending was connected after everything that is listed. So a disconnection
during an emission finds its slot in one of the two lists, and one outside of
it finds it in `slots_`, if it is not pending. That is the difficult case:
the destructors that run while the deferred deletions are carried out disconnect
at once, although slots are still pending. `PhaseInv` says why it is right: what
these destructors have still to disconnect was connected before the slot that owned
it, hence before everything that is pending. `FramesInv`: `slots_` does not change from
the beginning of the outermost emission to its end, so that every cursor stays in
the list and every slot in the list was valid at the beginning. The lemmas about
lists (`AppendList`, `JoinLists`, `FirstOfList`, `EraseFromList`) say what each
operation does to the set of the elements, to their order and to their types.

**Zip.** Both theorems assume that no range is empty while another one is not
(`AllOrNone`), the condition that the second finding is about. `InRange` says that every inner
iterator is between the beginning and the end of its range, and either all are
at their ends or none is: `secure_next_` moves all iterators or none past an end
(`SecureNext`), and `--` steps each of them back from a place that has an
element before it. `StepInv` adds that an iterator whose `nth` is known is at that
element of every range, or at all ends when `nth` is the length of the shortest;
`ForthInStep` is the argument that `++` counts one and reaches the ends at that count.

**Only model-checked.** Liveness, which the prover does not handle under fairness:
`EventuallyVisible`, `EventuallyReusable`, `EventuallySettled`, `CallsReturn` of both
pools, `FuturesReady`, `StopReturns`. Every other property of a run that passes is
stated by a theorem.

## Plan

In this order; what is done is described above.

1. Queue, linear pool, stack, tree pool with their runs, and the linear pool's
   proofs (done).
2. `ThreadPool`, `Signal` (done), with groups of connections (done).
3. `Variant`, `Any` with `TypeUid`, `Zip` with its first proofs (done).
4. Proofs of both pools, the queue with any number of clients, the stack, the
   thread pool, the signal, the variant, the any and the zip (done).
   The levels of the tree are bounded, and the tree pool is shown to keep the
   promise of `SlotPool` (done).
5. `find_first_bit`, `get_bit` and `count_bit` against their definitions over all
   masks of a width, if a run can be spared for it.

## Not modelled

* *Client behaviour outside a model's precondition.* Callers that start and stop one
  thread pool at the same time (they race for `workers_`); targets that are bound while
  workers run; targets that throw (the program ends); slots that own a connection to themselves or to a later slot,
  slots that emit while they are destroyed, a signal destroyed by its own slot,
  emission arguments that a first slot moves from; copies of a connection or a group
  with `auto_disconnect` set; `emplace` with arguments taken from the variant itself;
  destructors that assign to a variant or `emplace` into one, where the model lets
  them reset only. Those that leave the program undefined are listed as hazards
  where the code invites them.
* *Destruction of a container.* The code requires that no call is under way; what
  `~stack` does wrong on its own (reading a node it has just deleted) is straight-line
  code and listed as a hazard.
* *What has no state.* `none_object_pool` (`new` and `delete`); `empty`, `full`, `size`
  and `capacity`; `apply` and `for_each`; stream output and hashing of variants and anys.
* *What the compiler evaluates.* `static_map`, `static_max`, `print_type`,
  `result_of_visitor`, and the choice of `any_value`'s wrapper for references.
* *The benchmarks, the tests and the build*, which are read for what they expect.
