------------------------------ MODULE ThreadPool -------------------------------
(***************************************************************************)
(* pool::thread_pool over a bounded queue that keeps the promise of        *)
(* TicketFifo, as fix_size_queue does while no call is overtaken.          *)
(*                                                                         *)
(* push makes a promise, takes its future and puts both the promise and    *)
(* the call into the queue, trying until there is a place. A worker polls  *)
(* the queue as long as running_ is set, and empties it before it looks at *)
(* running_ again. start sets running_ and creates threads; stop resets it *)
(* and joins every thread in workers_, which nothing ever clears: a second *)
(* stop meets the joined threads of the first, and std::thread::join       *)
(* throws.                                                                 *)
(*                                                                         *)
(* One thread, the owner, calls start and stop: they test and set running_ *)
(* and change workers_ without any order between two callers. Any thread   *)
(* may push. Targets are bound while no worker runs, since workers refer   *)
(* to them where they are kept, and what start needs is bound before it:   *)
(* it asserts so. What a target computes is left out; one that throws ends *)
(* the program.                                                            *)
(***************************************************************************)
EXTENDS Naturals, Sequences, FiniteSets

CONSTANTS Clients,     \* the threads that push
          Tasks,       \* bound: the calls of push
          NbWorkers,   \* the argument of start
          MaxStarts,   \* bound: the calls of start that create threads
          Capacity,    \* the cells of the queue
          NoTask,
          Default,     \* default_target_
          Bindable     \* bound: the threads targets are bound for, and Default

ASSUME ThreadPoolAssumption ==
  /\ {NbWorkers, MaxStarts, Capacity} \subseteq Nat \ {0}
  /\ NoTask \notin Tasks /\ Default \notin Nat
  /\ Bindable \subseteq Nat \cup {Default}

(* The threads in workers_, in the order of their creation.                *)
MaxWorkers == NbWorkers * MaxStarts
Workers    == 1 .. MaxWorkers

(* i in start: the ids of the threads, for each start the same.            *)
ThreadIds == 0 .. NbWorkers - 1

VARIABLES
  accepted, visible, hand, drained,   \* queue_, as TicketFifo has it
  running,   \* running_
  created,   \* workers_.size()
  bound,     \* the ids in target_by_thread_, and Default when it is bound
  target,    \* target[w]: the target that worker w refers to
  joined,    \* the workers that were joined
  threw,     \* a call of stop has thrown
  owner,     \* where the owner is
  next,      \* next: the worker that stop joins next
  pc,        \* pc[w]: where worker w is
  data,      \* data[w]: the local data of worker w
  client,    \* client[c]: the task c pushes
  future,    \* future[k]: the state shared by task k's promise and future
  ran        \* ran[k]: how often the target was called for k

queue == <<accepted, visible, hand, drained>>
ours  == <<running, created, joined, threw, owner, next>>
binds == <<bound, target>>
vars  == <<queue, ours, binds, pc, data, client, future, ran>>

Queue == INSTANCE TicketFifo WITH Consumers <- Workers, Values <- Tasks,
                                  Nothing <- NoTask

-------------------------------------------------------------------------------
Goto(w, label) == pc' = [pc EXCEPT ![w] = label]

Init ==
  /\ Queue!Init
  /\ running = FALSE /\ created = 0 /\ joined = {} /\ threw = FALSE
  /\ owner = "idle" /\ next = 1
  /\ bound = {} /\ target = [w \in Workers |-> Default]
  /\ pc     = [w \in Workers |-> "none"]
  /\ data   = [w \in Workers |-> NoTask]
  /\ client = [c \in Clients |-> NoTask]
  /\ future = [k \in Tasks |-> "none"]
  /\ ran    = [k \in Tasks |-> 0]

-------------------------------------------------------------------------------
(* Faults, not used by the specification.                                  *)

(* do ... while(queue_.pop(data)): what data held is called once more.     *)
PopEmptyRuns(w) ==
  /\ pc[w] = "pop"
  /\ visible = <<>>
  /\ Goto(w, IF data[w] = NoTask THEN "check" ELSE "run")
  /\ UNCHANGED <<queue, ours, binds, data, client, future, ran>>

(* A worker leaves as soon as it finds no task.                            *)
PopEmptyLeaves(w) ==
  /\ pc[w] = "pop"
  /\ visible = <<>>
  /\ Goto(w, "exit")
  /\ UNCHANGED <<queue, ours, binds, data, client, future, ran>>

(* A worker polls on without looking at running_.                          *)
PopEmptyPolls(w) ==
  /\ pc[w] = "pop"
  /\ visible = <<>>
  /\ UNCHANGED vars

(* stop joins the last thread only.                                        *)
StopLast ==
  /\ owner = "idle"
  /\ running
  /\ running' = FALSE
  /\ next' = created
  /\ owner' = "join"
  /\ UNCHANGED <<queue, created, joined, threw, binds, pc, data, client, future, ran>>

(* stop joins all threads but the last.                                    *)
JoinButLast ==
  /\ owner = "join"
  /\ next \notin joined
  /\ pc[next] = "exit"
  /\ joined' = joined \cup {next}
  /\ IF next + 1 < created
     THEN next' = next + 1 /\ UNCHANGED owner
     ELSE owner' = "idle" /\ UNCHANGED next
  /\ UNCHANGED <<queue, running, created, threw, binds, pc, data, client, future, ran>>

-------------------------------------------------------------------------------
(* The owner: bind_all, bind_by_thread, start and stop                     *)

get_target_(id) == IF id \in bound THEN id ELSE Default

(* bind_all, bind_by_thread(id, ...)                                       *)
Bind(id) ==
  /\ owner = "idle"
  /\ ~running /\ ~threw
  /\ bound' = bound \cup {id}
  /\ UNCHANGED <<queue, ours, target, pc, data, client, future, ran>>

(* start: running_ = true; when it is set already, start does nothing *)
Start ==
  /\ owner = "idle"
  /\ ~running
  /\ created + NbWorkers <= MaxWorkers
  /\ \A id \in ThreadIds : get_target_(id) \in bound
  /\ running' = TRUE
  /\ owner' = "spawn"
  /\ next' = created + 1
  /\ UNCHANGED <<queue, created, joined, threw, binds, pc, data, client, future, ran>>

(* workers_.push_back(std::thread(worker_)), nb times *)
Spawn ==
  /\ owner = "spawn"
  /\ created' = created + 1
  /\ target' = [target EXCEPT ![created + 1] = get_target_(created + 1 - next)]
  /\ Goto(created + 1, "check")
  /\ owner' = IF created + 1 = next + NbWorkers - 1 THEN "idle" ELSE "spawn"
  /\ UNCHANGED <<queue, running, joined, threw, next, bound, data, client, future, ran>>

(* stop: running_ = false; when it is not set, stop does nothing *)
Stop ==
  /\ owner = "idle"
  /\ running
  /\ running' = FALSE
  /\ next' = 1
  /\ owner' = "join"
  /\ UNCHANGED <<queue, created, joined, threw, binds, pc, data, client, future, ran>>

(* t.join() returns once the worker has left, *)
Join ==
  /\ owner = "join"
  /\ next \notin joined
  /\ pc[next] = "exit"
  /\ joined' = joined \cup {next}
  /\ IF next < created
     THEN next' = next + 1 /\ UNCHANGED owner
     ELSE owner' = "idle" /\ UNCHANGED next
  /\ UNCHANGED <<queue, running, created, threw, binds, pc, data, client, future, ran>>

(* and throws when the thread was joined before: stop ends there. *)
JoinThrows ==
  /\ owner = "join"
  /\ next \in joined
  /\ threw' = TRUE
  /\ owner' = "idle"
  /\ UNCHANGED <<queue, running, created, joined, next, binds, pc, data, client, future, ran>>

OwnerStep == Spawn \/ Join \/ JoinThrows

-------------------------------------------------------------------------------
(* push                                                                    *)

(* promise.get_future() *)
Push(c) ==
  /\ client[c] = NoTask
  /\ \E k \in Tasks :
       /\ future[k] = "none"
       /\ future' = [future EXCEPT ![k] = "pending"]
       /\ client' = [client EXCEPT ![c] = k]
  /\ UNCHANGED <<queue, ours, binds, pc, data, ran>>

(***************************************************************************)
(* queue_.push(std::move(arg)) succeeds and push returns the future. While *)
(* the queue is full it fails, and the loop tries again.                   *)
(***************************************************************************)
PushDone(c) ==
  /\ client[c] # NoTask
  /\ Queue!Accept(client[c])
  /\ client' = [client EXCEPT ![c] = NoTask]
  /\ UNCHANGED <<ours, binds, pc, data, future, ran>>

-------------------------------------------------------------------------------
(* worker_                                                                 *)

(* while(running_ == true) *)
Check(w) ==
  /\ pc[w] = "check"
  /\ Goto(w, IF running THEN "pop" ELSE "exit")
  /\ UNCHANGED <<queue, ours, binds, data, client, future, ran>>

(* queue_.pop(data) is given a task, *)
PopTake(w) ==
  /\ pc[w] = "pop"
  /\ Queue!Take(w)
  /\ Goto(w, "deliver")
  /\ UNCHANGED <<ours, binds, data, client, future, ran>>

(* and moves it to data. *)
PopDone(w) ==
  /\ pc[w] = "deliver"
  /\ data' = [data EXCEPT ![w] = hand[w]]
  /\ Queue!Deliver(w)
  /\ Goto(w, "run")
  /\ UNCHANGED <<ours, binds, client, future, ran>>

(* It finds none: little_sleep_() *)
PopEmpty(w) ==
  /\ pc[w] = "pop"
  /\ visible = <<>>
  /\ Goto(w, "check")
  /\ UNCHANGED <<queue, ours, binds, data, client, future, ran>>

(* invoke_: function(target) *)
Invoke(w) ==
  /\ pc[w] = "run"
  /\ ran' = [ran EXCEPT ![data[w]] = @ + 1]
  /\ Goto(w, "set")
  /\ UNCHANGED <<queue, ours, binds, data, client, future>>

(* promise.set_value(...) *)
SetValue(w) ==
  /\ pc[w] = "set"
  /\ future' = [future EXCEPT ![data[w]] = "ready"]
  /\ Goto(w, "pop")
  /\ UNCHANGED <<queue, ours, binds, data, client, ran>>

WorkerStep(w) == \/ Check(w) \/ PopTake(w) \/ PopDone(w) \/ PopEmpty(w)
                 \/ Invoke(w) \/ SetValue(w)

-------------------------------------------------------------------------------
(***************************************************************************)
(* The ends of fix_size_queue's calls. A push makes the oldest accepted    *)
(* task visible, be it its own or that of another push: ++tail_read_. A    *)
(* pop gives back the oldest drained cell: ++head_write_. Which call comes *)
(* to do it, and whether one does at all, is the queue's affair: nothing   *)
(* here obliges these steps (see FuturesReady).                            *)
(***************************************************************************)
Publish == Queue!Publish /\ UNCHANGED <<ours, binds, pc, data, client, future, ran>>
Recycle == Queue!Recycle /\ UNCHANGED <<ours, binds, pc, data, client, future, ran>>

Next == \/ \E id \in Bindable : Bind(id)
        \/ Start \/ Stop \/ OwnerStep
        \/ \E c \in Clients : Push(c) \/ PushDone(c)
        \/ \E w \in Workers : WorkerStep(w)
        \/ Publish \/ Recycle

Spec == Init /\ [][Next]_vars

(***************************************************************************)
(* Every thread keeps running, through the queue's calls too, whose        *)
(* linearization points are PushDone and PopTake. Nobody has to call       *)
(* start, stop or push.                                                    *)
(***************************************************************************)
Fairness == /\ WF_vars(OwnerStep)
            /\ \A c \in Clients : WF_vars(PushDone(c))
            /\ \A w \in Workers : WF_vars(WorkerStep(w))

FairSpec == Spec /\ Fairness

-------------------------------------------------------------------------------
(* What the pool's members, the workers' locals and the futures may hold.  *)
TypeOK ==
  /\ running \in BOOLEAN /\ threw \in BOOLEAN
  /\ created \in 0 .. MaxWorkers
  /\ bound \subseteq Bindable
  /\ target \in [Workers -> Bindable \cup {Default}]
  /\ \A w \in 1 .. created : target[w] \in bound
  /\ joined \subseteq 1 .. created
  /\ owner \in {"idle", "spawn", "join"}
  /\ next \in Workers
  /\ pc \in [Workers -> {"none", "check", "pop", "deliver", "run", "set", "exit"}]
  /\ \A w \in Workers : pc[w] = "none" <=> w > created
  /\ data \in [Workers -> Tasks \cup {NoTask}]
  /\ client \in [Clients -> Tasks \cup {NoTask}]
  /\ future \in [Tasks -> {"none", "pending", "ready"}]
  /\ ran \in [Tasks -> Nat]

(* The threads that have task k in their hands.                            *)
Pushing(k) == {c \in Clients : client[c] = k}
Working(k) == {w \in Workers : \/ hand[w] = k
                               \/ pc[w] \in {"run", "set"} /\ data[w] = k}
Waiting(k) == {i \in DOMAIN (accepted \o visible) : (accepted \o visible)[i] = k}

(***************************************************************************)
(* A task whose future is pending is in one place, with its push, in the   *)
(* queue or with a worker; the target is called for it once, before its    *)
(* future becomes ready, and never again: not by a worker that finds the   *)
(* queue empty with the last task still in data, not after a restart.      *)
(***************************************************************************)
RunsOnce ==
  \A k \in Tasks :
    /\ Cardinality(Pushing(k)) + Cardinality(Waiting(k)) + Cardinality(Working(k))
         = IF future[k] = "pending" THEN 1 ELSE 0
    /\ ran[k] = IF \/ future[k] = "ready"
                   \/ \E w \in Workers : pc[w] = "set" /\ data[w] = k
                THEN 1 ELSE 0

(***************************************************************************)
(* After stop has returned no worker runs any more, and none will take a   *)
(* task until the next start: clients may take away what the targets use.  *)
(* (Not after a stop that threw, which left threads behind.)               *)
(***************************************************************************)
StopQuiesces ==
  owner = "idle" /\ ~running /\ ~threw =>
    /\ joined = 1 .. created
    /\ \A w \in 1 .. created : pc[w] = "exit"

(***************************************************************************)
(* A target bound with bind_by_thread is called by one thread at a time,   *)
(* over restarts too, and may keep what it works with to itself; only the  *)
(* one of bind_all is shared. (A start after a stop that threw may come    *)
(* while threads of the same ids still run.)                               *)
(***************************************************************************)
OneThreadPerTarget ==
  ~threw =>
    \A v, w \in Workers :
      /\ v # w /\ pc[v] = "run" /\ pc[w] = "run"
      /\ target[v] = target[w]
      => target[v] = Default

(***************************************************************************)
(* What the pool asks of its queue: that no accepted task stays invisible  *)
(* and no drained cell taken when the calls on it have come to rest. It is *)
(* EventuallySettled of MCQueueMpmc, which fix_size_queue keeps as long as *)
(* no call is overtaken by a round of the ring, and not beyond (run        *)
(* queue_reuse).                                                           *)
(***************************************************************************)
QueueSettles == []<>(accepted = <<>> /\ drained = 0)

(***************************************************************************)
(* If the pool keeps running from some moment on, and its queue settles,   *)
(* every push returns and every future becomes ready, those of tasks       *)
(* pushed before start and of tasks that an earlier stop left in the queue *)
(* too. For the rest it does not matter which calls publish, and when.     *)
(***************************************************************************)
FuturesReady ==
  <>[]running /\ QueueSettles =>
    \A k \in Tasks : (future[k] = "pending") ~> (future[k] = "ready")

(***************************************************************************)
(* stop returns, or throws: workers leave once the queue was empty for a   *)
(* moment. (They look at running_ only then: it takes that pushes end.)    *)
(***************************************************************************)
StopReturns == (owner = "join") ~> (owner = "idle")
===============================================================================
