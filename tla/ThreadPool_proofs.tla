--------------------------- MODULE ThreadPool_proofs ---------------------------
(***************************************************************************)
(* What ThreadPool guarantees for any number of clients, tasks, workers    *)
(* and restarts, over a queue of any capacity.                             *)
(***************************************************************************)
EXTENDS ThreadPool, FiniteSetTheorems, SequenceTheorems, TLAPS

-------------------------------------------------------------------------------
(* The inductive invariant.                                                *)

QueueTypes ==
  /\ accepted \in Seq(Tasks) /\ visible \in Seq(Tasks)
  /\ hand \in [Workers -> Tasks \cup {NoTask}]
  /\ drained \in Nat

(* How far the owner is in start or stop. Nothing clears workers_: a stop  *)
(* that meets a thread joined before meets the first one of all.           *)
OwnerInv ==
  /\ owner = "spawn" => /\ running
                        /\ next <= created + 1 /\ created + 1 < next + NbWorkers
                        /\ next + NbWorkers <= MaxWorkers + 1
                        /\ \A id \in ThreadIds : get_target_(id) \in bound
  /\ owner = "idle" /\ running => created > 0
  /\ owner = "join" => /\ ~running
                       /\ next <= created
                       /\ next = 1 \/ joined = 1 .. next - 1
  /\ joined # {} => 1 \in joined

TypeInv == TypeOK /\ QueueTypes /\ OwnerInv

JoinedInv ==
  /\ \A w \in joined : pc[w] = "exit"
  /\ owner = "idle" /\ ~running /\ ~threw => joined = 1 .. created

(* The workers that may run are those of one start, which gave each of     *)
(* them the target of its own id.                                          *)
OneGeneration(b) ==
  /\ \A w \in 1 .. b : pc[w] = "exit"
  /\ \A w \in b + 1 .. created : target[w] = get_target_(w - b - 1)
  /\ owner = "spawn" => b = next - 1

TargetsInv == ~threw => \E b \in 0 .. created : OneGeneration(b)

(* Where a task may be: with its push, in the queue, with a worker.        *)
In(seq, k) == \E i \in DOMAIN seq : seq[i] = k
NoTwice(seq) == \A i, j \in DOMAIN seq : seq[i] = seq[j] => i = j

Queued(k) == In(accepted, k) \/ In(visible, k)

Works(w, k) == \/ hand[w] = k
               \/ pc[w] \in {"run", "set"} /\ data[w] = k

HandsInv == \A w \in Workers :
  /\ hand[w] # NoTask <=> pc[w] = "deliver"
  /\ pc[w] \in {"run", "set"} => data[w] \in Tasks

QueueDistinct ==
  /\ NoTwice(accepted) /\ NoTwice(visible)
  /\ \A k \in Tasks : ~ (In(accepted, k) /\ In(visible, k))

PlaceInv == \A k \in Tasks :
  /\ future[k] = "pending" <=> \/ \E c \in Clients : client[c] = k
                               \/ Queued(k)
                               \/ \E w \in Workers : Works(w, k)
  /\ \A c \in Clients : client[c] = k =>
       /\ ~Queued(k)
       /\ \A w \in Workers : ~Works(w, k)
       /\ \A d \in Clients : client[d] = k => c = d
  /\ \A w \in Workers : Works(w, k) =>
       /\ ~Queued(k)
       /\ \A v \in Workers : Works(v, k) => v = w

RanInv == \A k \in Tasks :
  ran[k] = IF \/ future[k] = "ready"
              \/ \E w \in Workers : pc[w] = "set" /\ data[w] = k
           THEN 1 ELSE 0

TasksInv == HandsInv /\ QueueDistinct /\ PlaceInv /\ RanInv

-------------------------------------------------------------------------------
(* The types, and how far start and stop are.                              *)

LEMMA SomeWorkers == MaxWorkers \in Nat /\ 1 <= MaxWorkers
PROOF
  <1>1. NbWorkers \in Nat /\ NbWorkers >= 1 /\ MaxStarts \in Nat /\ MaxStarts >= 1
    BY ThreadPoolAssumption
  <1> QED
    BY <1>1 DEF MaxWorkers

LEMMA TypeInvInit == Init => TypeInv
PROOF
  <1> SUFFICES ASSUME Init PROVE TypeInv
    OBVIOUS
  <1> USE ThreadPoolAssumption, SomeWorkers DEF Init, Queue!Init
  <1>1. TypeOK
    <2>1. next \in Workers /\ created \in 0 .. MaxWorkers
      BY DEF Workers
    <2>2. \A w \in Workers : pc[w] = "none" <=> w > created
      BY DEF Workers
    <2>3. 1 .. created = {}
      OBVIOUS
    <2> QED
      BY <2>1, <2>2, <2>3 DEF TypeOK
  <1>2. QueueTypes
    BY EmptySeq DEF QueueTypes
  <1>3. OwnerInv
    BY DEF OwnerInv
  <1> QED
    BY <1>1, <1>2, <1>3 DEF TypeInv

(* The owner's steps.                                                      *)
LEMMA OwnerTypes ==
  ASSUME TypeInv, (\E id \in Bindable : Bind(id)) \/ Start \/ Stop \/ OwnerStep
  PROVE  TypeInv'
PROOF
  <1> USE ThreadPoolAssumption, SomeWorkers
      DEF TypeInv, TypeOK, QueueTypes, OwnerInv, queue, ours, binds, Workers
  <1>1. ASSUME NEW id \in Bindable, Bind(id) PROVE TypeInv'
    BY <1>1 DEF Bind
  <1>2. CASE Start
    BY <1>2 DEF Start, get_target_
  <1>3. CASE Stop
    <2>1. TypeOK'
      <3>1. next' \in Workers
        BY <1>3 DEF Stop
      <3> QED
        BY <1>3, <3>1 DEF Stop
    <2>2. QueueTypes'
      BY <1>3 DEF Stop
    <2>3. running' = FALSE /\ owner' = "join" /\ next' = 1 /\ created' = created
      BY <1>3 DEF Stop
    <2>4. next' <= created'
      BY <1>3, <2>3 DEF Stop
    <2>5. joined' = joined
      BY <1>3 DEF Stop
    <2>6. OwnerInv'
      BY <2>3, <2>4, <2>5
    <2> QED
      BY <2>1, <2>2, <2>6
  <1>4. CASE Spawn
    <2>1. created + 1 \in Workers /\ get_target_(created + 1 - next) \in bound
      BY <1>4 DEF Spawn, ThreadIds
    <2>2. /\ created \in Nat /\ created' = created + 1 /\ bound' = bound
          /\ target' = [target EXCEPT ![created + 1] = get_target_(created + 1 - next)]
          /\ pc' = [pc EXCEPT ![created + 1] = "check"]
          /\ UNCHANGED <<joined, running, threw, next, data, client, future, ran>>
          /\ owner' \in {"idle", "spawn"}
      BY <1>4 DEF Spawn, Goto
    <2>3. \A w \in 1 .. created' : target'[w] \in bound'
      BY <1>4, <2>1, <2>2
    <2>4. \A w \in Workers : pc'[w] = "none" <=> w > created'
      BY <2>1, <2>2
    <2>5. created' \in 0 .. MaxWorkers /\ joined' \subseteq 1 .. created'
      BY <2>1, <2>2
    <2>6. target' \in [Workers -> Bindable \cup {Default}]
      BY <2>1, <2>2
    <2>7. TypeOK'
      BY <2>2, <2>3, <2>4, <2>5, <2>6
    <2>8. QueueTypes'
      BY <1>4 DEF Spawn
    <2>9. \A id \in ThreadIds : get_target_(id)' \in bound'
      BY <1>4, <2>2 DEF Spawn, get_target_
    <2>10. NbWorkers \in Nat /\ next \in Nat
      OBVIOUS
    <2>11. owner' = "spawn" => created' + 1 < next + NbWorkers /\ next <= created' + 1
      BY <1>4, <2>2, <2>10 DEF Spawn
    <2>12. running' /\ created' > 0 /\ next + NbWorkers <= MaxWorkers + 1
      BY <1>4, <2>2 DEF Spawn
    <2>13. OwnerInv'
      BY <2>2, <2>9, <2>11, <2>12
    <2> QED
      BY <2>7, <2>8, <2>13
  <1>5. CASE Join
    <2>1. joined' = 1 .. next
      <3>1. joined' = joined \cup {next} /\ next \in Nat /\ next >= 1
        BY <1>5 DEF Join
      <3>2. CASE next = 1
        BY <1>5, <3>1, <3>2 DEF Join
      <3>3. CASE next # 1
        BY <1>5, <3>1, <3>3 DEF Join
      <3> QED
        BY <3>2, <3>3
    <2>2. next \in 1 .. created /\ created' = created
      BY <1>5 DEF Join
    <2>3. joined' \subseteq 1 .. created' /\ 1 \in joined'
      BY <2>1, <2>2
    <2>4. next' \in Workers /\ (owner' = "join" => next' <= created /\ next' = next + 1)
      BY <1>5, <2>2 DEF Join
    <2>5. TypeOK' /\ QueueTypes'
      BY <1>5, <2>3, <2>4 DEF Join
    <2>6. owner' \in {"join", "idle"} /\ running' = FALSE
      BY <1>5 DEF Join
    <2>7. owner' = "join" => joined' = 1 .. next' - 1
      BY <2>1, <2>2, <2>4
    <2>8. OwnerInv'
      BY <2>2, <2>3, <2>4, <2>6, <2>7
    <2> QED
      BY <2>5, <2>8
  <1>6. CASE JoinThrows
    BY <1>6 DEF JoinThrows
  <1> QED
    BY <1>1, <1>2, <1>3, <1>4, <1>5, <1>6 DEF OwnerStep

(* The steps of the queue keep tasks in it.                                *)
LEMMA QueueTypesKept ==
  ASSUME QueueTypes,
         \/ \E k \in Tasks : Queue!Accept(k)
         \/ \E w \in Workers : Queue!Take(w) \/ Queue!Deliver(w)
         \/ Queue!Publish \/ Queue!Recycle
  PROVE  QueueTypes'
PROOF
  <1> USE DEF QueueTypes
  <1>1. ASSUME NEW k \in Tasks, Queue!Accept(k) PROVE QueueTypes'
    BY <1>1, AppendProperties DEF Queue!Accept
  <1>2. ASSUME NEW w \in Workers, Queue!Take(w) PROVE QueueTypes'
    <2>1. Head(visible) \in Tasks /\ Tail(visible) \in Seq(Tasks)
      BY <1>2, HeadTailProperties DEF Queue!Take
    <2> QED
      BY <1>2, <2>1 DEF Queue!Take
  <1>3. ASSUME NEW w \in Workers, Queue!Deliver(w) PROVE QueueTypes'
    BY <1>3 DEF Queue!Deliver
  <1>4. CASE Queue!Publish
    <2>1. Head(accepted) \in Tasks /\ Tail(accepted) \in Seq(Tasks)
      BY <1>4, HeadTailProperties DEF Queue!Publish
    <2>2. Append(visible, Head(accepted)) \in Seq(Tasks)
      BY <2>1, AppendProperties
    <2> QED
      BY <1>4, <2>1, <2>2 DEF Queue!Publish
  <1>5. CASE Queue!Recycle
    BY <1>5 DEF Queue!Recycle
  <1> QED
    BY <1>1, <1>2, <1>3, <1>4, <1>5

(* The steps of the clients, the workers and the queue leave start and     *)
(* stop alone.                                                             *)
OthersStep ==
  \/ \E c \in Clients : Push(c) \/ PushDone(c)
  \/ \E w \in Workers : WorkerStep(w)
  \/ Publish \/ Recycle

LEMMA OwnerUntouched ==
  ASSUME OthersStep
  PROVE  UNCHANGED <<running, created, joined, threw, owner, next, bound, target>>
PROOF
  BY DEF OthersStep, Push, PushDone, WorkerStep, Check, PopTake, PopDone, PopEmpty,
         Invoke, SetValue, Publish, Recycle, ours, binds

LEMMA OthersTypes ==
  ASSUME TypeInv, HandsInv, OthersStep
  PROVE  TypeInv'
PROOF
  <1>1. OwnerInv'
    BY OwnerUntouched DEF TypeInv, OwnerInv, get_target_
  <1>2. ASSUME QueueTypes',
               client' \in [Clients -> Tasks \cup {NoTask}],
               future' \in [Tasks -> {"none", "pending", "ready"}],
               data' \in [Workers -> Tasks \cup {NoTask}],
               ran' \in [Tasks -> Nat],
               \/ pc' = pc
               \/ \E w \in Workers, l \in {"check", "pop", "deliver", "run", "set", "exit"} :
                     pc[w] # "none" /\ pc' = [pc EXCEPT ![w] = l]
        PROVE  TypeInv'
    <2>1. /\ pc' \in [Workers -> {"none", "check", "pop", "deliver", "run", "set", "exit"}]
          /\ \A w \in Workers : pc'[w] = "none" <=> pc[w] = "none"
      BY <1>2 DEF TypeInv, TypeOK
    <2>2. UNCHANGED <<running, created, joined, threw, owner, next, bound, target>>
      BY OwnerUntouched
    <2>3. \A w \in Workers : pc'[w] = "none" <=> w > created'
      BY <2>1, <2>2 DEF TypeInv, TypeOK
    <2>4. TypeOK'
      BY <1>2, <2>1, <2>2, <2>3 DEF TypeInv, TypeOK
    <2> QED
      BY <1>1, <1>2, <2>4 DEF TypeInv
  <1> USE DEF TypeInv, TypeOK
  <1>3. ASSUME NEW c \in Clients, Push(c) PROVE TypeInv'
    BY <1>2, <1>3 DEF Push, queue, QueueTypes
  <1>4. ASSUME NEW c \in Clients, PushDone(c) PROVE TypeInv'
    <2>1. client[c] \in Tasks
      BY <1>4 DEF PushDone
    <2>2. QueueTypes'
      BY <1>4, <2>1, QueueTypesKept DEF PushDone
    <2> QED
      BY <1>2, <1>4, <2>2 DEF PushDone
  <1>5. ASSUME NEW w \in Workers, PopTake(w) PROVE TypeInv'
    <2>1. QueueTypes'
      BY <1>5, QueueTypesKept DEF PopTake
    <2> QED
      BY <1>2, <1>5, <2>1 DEF PopTake, Goto
  <1>6. ASSUME NEW w \in Workers, PopDone(w) PROVE TypeInv'
    <2>1. QueueTypes'
      BY <1>6, QueueTypesKept DEF PopDone
    <2>2. data' \in [Workers -> Tasks \cup {NoTask}]
      BY <1>6 DEF PopDone, QueueTypes
    <2> QED
      BY <1>2, <1>6, <2>1, <2>2 DEF PopDone, Goto
  <1>7. ASSUME NEW w \in Workers, Check(w) \/ PopEmpty(w) PROVE TypeInv'
    <2>1. QueueTypes'
      BY <1>7 DEF Check, PopEmpty, queue, QueueTypes
    <2>2. \E l \in {"check", "pop", "deliver", "run", "set", "exit"} :
             pc[w] # "none" /\ pc' = [pc EXCEPT ![w] = l]
      BY <1>7 DEF Check, PopEmpty, Goto
    <2>3. UNCHANGED <<data, client, future, ran>>
      BY <1>7 DEF Check, PopEmpty
    <2>4. /\ client' \in [Clients -> Tasks \cup {NoTask}]
          /\ future' \in [Tasks -> {"none", "pending", "ready"}]
          /\ data' \in [Workers -> Tasks \cup {NoTask}]
          /\ ran' \in [Tasks -> Nat]
      BY <2>3
    <2> HIDE DEF TypeInv, TypeOK
    <2> QED
      BY <1>2, <2>1, <2>2, <2>4
  <1>8. ASSUME NEW w \in Workers, Invoke(w) PROVE TypeInv'
    <2>1. QueueTypes'
      BY <1>8 DEF Invoke, queue, QueueTypes
    <2>2. data[w] \in Tasks /\ pc[w] # "none" /\ pc' = [pc EXCEPT ![w] = "set"]
      BY <1>8 DEF Invoke, Goto, HandsInv
    <2>3. /\ ran' \in [Tasks -> Nat] /\ client' \in [Clients -> Tasks \cup {NoTask}]
          /\ future' \in [Tasks -> {"none", "pending", "ready"}]
          /\ data' \in [Workers -> Tasks \cup {NoTask}]
      BY <1>8, <2>2 DEF Invoke
    <2> HIDE DEF TypeInv, TypeOK
    <2> QED
      BY <1>2, <2>1, <2>2, <2>3
  <1>9. ASSUME NEW w \in Workers, SetValue(w) PROVE TypeInv'
    <2>1. QueueTypes'
      BY <1>9 DEF SetValue, queue, QueueTypes
    <2>2. data[w] \in Tasks /\ pc[w] # "none" /\ pc' = [pc EXCEPT ![w] = "pop"]
      BY <1>9 DEF SetValue, Goto, HandsInv
    <2>3. /\ ran' \in [Tasks -> Nat] /\ client' \in [Clients -> Tasks \cup {NoTask}]
          /\ future' \in [Tasks -> {"none", "pending", "ready"}]
          /\ data' \in [Workers -> Tasks \cup {NoTask}]
      BY <1>9, <2>2 DEF SetValue
    <2> HIDE DEF TypeInv, TypeOK
    <2> QED
      BY <1>2, <2>1, <2>2, <2>3
  <1>10. CASE Publish \/ Recycle
    <2>1. QueueTypes'
      BY <1>10, QueueTypesKept DEF Publish, Recycle
    <2> QED
      BY <1>2, <1>10, <2>1 DEF Publish, Recycle
  <1> QED
    BY <1>3, <1>4, <1>5, <1>6, <1>7, <1>8, <1>9, <1>10 DEF OthersStep, WorkerStep

-------------------------------------------------------------------------------
(* start and stop.                                                         *)

(* A worker that has left does not come back, and no step but start's      *)
(* makes a worker of what is none.                                         *)
LEMMA LeftForGood ==
  ASSUME TypeInv, [Next]_vars, NEW w \in Workers, pc[w] = "exit"
  PROVE  pc'[w] = "exit"
PROOF
  <1> USE DEF TypeInv, TypeOK
  <1>1. CASE Spawn
    <2>1. w # created + 1
      OBVIOUS
    <2> QED
      BY <1>1, <2>1 DEF Spawn, Goto
  <1>2. ASSUME NEW v \in Workers, WorkerStep(v) PROVE pc'[w] = "exit"
    BY <1>2
    DEF WorkerStep, Check, PopTake, PopDone, PopEmpty, Invoke, SetValue, Goto
  <1>3. ASSUME pc' = pc PROVE pc'[w] = "exit"
    BY <1>3
  <1> QED
    BY <1>1, <1>2, <1>3
    DEF Next, Bind, Start, Stop, OwnerStep, Join, JoinThrows, Push, PushDone,
        Publish, Recycle, vars

LEMMA JoinedStep == TypeInv /\ JoinedInv /\ [Next]_vars => JoinedInv'
PROOF
  <1> SUFFICES ASSUME TypeInv, JoinedInv, [Next]_vars PROVE JoinedInv'
    OBVIOUS
  <1>1. \A w \in joined : w \in Workers /\ pc[w] = "exit" /\ pc'[w] = "exit"
    <2>1. \A w \in joined : w \in Workers /\ pc[w] = "exit"
      BY SomeWorkers DEF TypeInv, TypeOK, JoinedInv, Workers
    <2> QED
      BY <2>1, LeftForGood
  <1> USE DEF TypeInv, TypeOK
  <1>2. ASSUME joined' = joined, created' = created,
               owner' = "idle" /\ ~running' /\ ~threw' =>
                  owner = "idle" /\ ~running /\ ~threw
        PROVE  JoinedInv'
    BY <1>1, <1>2 DEF JoinedInv
  <1>3. CASE OthersStep
    BY <1>2, <1>3, OwnerUntouched
  <1>4. CASE UNCHANGED vars
    BY <1>2, <1>4 DEF vars, ours
  <1>5. ASSUME NEW id \in Bindable, Bind(id) PROVE JoinedInv'
    BY <1>2, <1>5 DEF Bind, ours
  <1>6. CASE Start
    BY <1>1, <1>6 DEF Start, JoinedInv
  <1>7. CASE Stop
    BY <1>1, <1>7 DEF Stop, JoinedInv
  <1>8. CASE Spawn
    <2>1. joined' = joined /\ running' = TRUE
      BY <1>8 DEF Spawn, OwnerInv
    <2> QED
      BY <1>1, <2>1 DEF JoinedInv
  <1>9. CASE Join
    <2>1. /\ joined' = joined \cup {next} /\ pc' = pc /\ pc[next] = "exit"
          /\ created' = created /\ next \in 1 .. created
      BY <1>9 DEF Join, OwnerInv, Workers
    <2>2. owner' = "idle" => next = created
      BY <1>9, <2>1 DEF Join
    <2>3. owner' = "idle" => joined' = 1 .. created
      <3>1. next = 1 => joined = {}
        BY <1>9 DEF Join, OwnerInv
      <3>2. next = 1 \/ joined = 1 .. next - 1
        BY <1>9 DEF Join, OwnerInv
      <3>3. created \in Nat
        OBVIOUS
      <3>4. CASE next = 1
        <4>1. joined' = {1}
          BY <2>1, <3>1, <3>4
        <4>2. 1 .. 1 = {1}
          OBVIOUS
        <4> QED
          BY <2>2, <3>4, <4>1, <4>2
      <3>5. CASE next # 1
        BY <2>1, <2>2, <3>2, <3>3, <3>5
      <3> QED
        BY <3>4, <3>5
    <2> QED
      BY <1>1, <2>1, <2>3 DEF JoinedInv
  <1>10. CASE JoinThrows
    BY <1>1, <1>10 DEF JoinThrows, JoinedInv
  <1> QED
    BY <1>3, <1>4, <1>5, <1>6, <1>7, <1>8, <1>9, <1>10
    DEF Next, OwnerStep, OthersStep

(* The ids of one start are different, and so are targets of their own.    *)
LEMMA TargetsStep == TypeInv /\ JoinedInv /\ TargetsInv /\ [Next]_vars => TargetsInv'
PROOF
  <1> SUFFICES ASSUME TypeInv, JoinedInv, TargetsInv, [Next]_vars, ~threw'
               PROVE  \E b \in 0 .. created' : OneGeneration(b)'
    BY DEF TargetsInv
  <1> USE DEF TypeInv, TypeOK
  <1>0. created \in Nat /\ created <= MaxWorkers /\ 1 .. created \subseteq Workers
    BY SomeWorkers DEF Workers
  <1>1. ASSUME UNCHANGED <<created, threw, bound, target>>,
               owner' = "spawn" => owner = "spawn" /\ next' = next
        PROVE  \E b \in 0 .. created' : OneGeneration(b)'
    <2>1. PICK b \in 0 .. created : OneGeneration(b)
      BY <1>1 DEF TargetsInv
    <2>2. \A w \in 1 .. b : pc'[w] = "exit"
      BY <1>0, <2>1, LeftForGood DEF OneGeneration
    <2> QED
      BY <1>1, <2>1, <2>2 DEF OneGeneration, get_target_
  <1>2. CASE OthersStep
    BY <1>1, <1>2, OwnerUntouched
  <1>3. CASE UNCHANGED vars
    BY <1>1, <1>3 DEF vars, ours, binds
  <1>4. ASSUME owner = "idle", ~running, ~threw, created' = created, pc' = pc,
               owner' = "spawn" => next' = created + 1
        PROVE  \E b \in 0 .. created' : OneGeneration(b)'
    <2>1. \A w \in 1 .. created : pc'[w] = "exit"
      BY <1>4 DEF JoinedInv
    <2>2. OneGeneration(created)'
      BY <1>0, <1>4, <2>1 DEF OneGeneration
    <2> QED
      BY <1>0, <1>4, <2>2
  <1>5. ASSUME NEW id \in Bindable, Bind(id) PROVE \E b \in 0 .. created' : OneGeneration(b)'
    BY <1>4, <1>5 DEF Bind, ours
  <1>6. CASE Start
    BY <1>4, <1>6 DEF Start
  <1>7. CASE Stop \/ Join
    BY <1>1, <1>7 DEF Stop, Join, binds
  <1>8. CASE JoinThrows
    BY <1>8 DEF JoinThrows
  <1>9. CASE Spawn
    <2>1. PICK b \in 0 .. created : OneGeneration(b)
      BY <1>9 DEF Spawn, TargetsInv
    <2>2. b = next - 1
      BY <1>9, <2>1 DEF Spawn, OneGeneration
    <2>3. created + 1 < next + NbWorkers /\ next + NbWorkers <= MaxWorkers + 1
      BY <1>9 DEF Spawn, OwnerInv
    <2>4. next \in Nat /\ NbWorkers \in Nat /\ MaxWorkers \in Nat
      BY SomeWorkers, ThreadPoolAssumption DEF Workers
    <2>5. created + 1 \in Workers
      BY <1>0, <2>3, <2>4 DEF Workers
    <2>6. /\ created' = created + 1 /\ next' = next
          /\ target' = [target EXCEPT ![created + 1] = get_target_(created + 1 - next)]
          /\ bound' = bound
      BY <1>9 DEF Spawn
    <2>7. \A w \in b + 1 .. created' : target'[w] = get_target_(w - b - 1)
      <3>1. ASSUME NEW w \in b + 1 .. created' PROVE target'[w] = get_target_(w - b - 1)
        <4>1. CASE w = created + 1
          <5>1. w - b - 1 = created + 1 - next
            BY <1>0, <2>2, <2>4, <4>1
          <5> QED
            BY <2>6, <2>5, <4>1, <5>1
        <4>2. CASE w # created + 1
          <5>1. w \in b + 1 .. created /\ w \in Workers
            BY <1>0, <2>6, <4>2
          <5> QED
            BY <2>1, <2>6, <4>2, <5>1 DEF OneGeneration
        <4> QED
          BY <4>1, <4>2
      <3> QED
        BY <3>1
    <2>8. \A w \in 1 .. b : pc'[w] = "exit"
      BY <1>0, <2>1, LeftForGood DEF OneGeneration
    <2>9. b \in 0 .. created'
      BY <1>0, <2>6
    <2> QED
      BY <2>2, <2>6, <2>7, <2>8, <2>9 DEF OneGeneration, get_target_
  <1> QED
    BY <1>2, <1>3, <1>5, <1>6, <1>7, <1>8, <1>9 DEF Next, OwnerStep, OthersStep

-------------------------------------------------------------------------------
(* Where the tasks are.                                                    *)

LEMMA AppendIn ==
  ASSUME NEW seq \in Seq(Tasks), NEW e \in Tasks
  PROVE  /\ \A k : In(Append(seq, e), k) <=> In(seq, k) \/ k = e
         /\ NoTwice(seq) /\ ~In(seq, e) => NoTwice(Append(seq, e))
PROOF
  <1>1. /\ Len(seq) \in Nat /\ DOMAIN seq = 1 .. Len(seq)
        /\ DOMAIN Append(seq, e) = 1 .. Len(seq) + 1
        /\ \A i \in 1 .. Len(seq) : Append(seq, e)[i] = seq[i]
        /\ Append(seq, e)[Len(seq) + 1] = e
    BY AppendProperties
  <1>2. \A i \in 1 .. Len(seq) + 1 : i = Len(seq) + 1 \/ i \in 1 .. Len(seq)
    BY <1>1
  <1>3. ASSUME NEW k PROVE In(Append(seq, e), k) <=> In(seq, k) \/ k = e
    <2>1. Len(seq) + 1 \in 1 .. Len(seq) + 1
      BY <1>1
    <2>2. 1 .. Len(seq) \subseteq 1 .. Len(seq) + 1
      BY <1>1
    <2> QED
      BY <1>1, <1>2, <2>1, <2>2 DEF In
  <1>4. ASSUME NoTwice(seq), ~In(seq, e) PROVE NoTwice(Append(seq, e))
    BY <1>1, <1>2, <1>4 DEF In, NoTwice
  <1> QED
    BY <1>3, <1>4

LEMMA TailIn ==
  ASSUME NEW seq \in Seq(Tasks), seq # <<>>
  PROVE  /\ Head(seq) \in Tasks /\ In(seq, Head(seq))
         /\ NoTwice(seq) => /\ NoTwice(Tail(seq))
                            /\ \A k : In(Tail(seq), k) <=> In(seq, k) /\ k # Head(seq)
PROOF
  <1>1. /\ Len(seq) \in Nat /\ Len(seq) > 0 /\ DOMAIN seq = 1 .. Len(seq)
        /\ Head(seq) = seq[1] /\ Head(seq) \in Tasks
        /\ DOMAIN Tail(seq) = 1 .. Len(seq) - 1
        /\ \A i \in 1 .. Len(seq) - 1 : Tail(seq)[i] = seq[i + 1]
    BY HeadTailProperties
  <1>2. 1 \in DOMAIN seq
    BY <1>1
  <1>3. \A i \in DOMAIN seq : i = 1 \/ (i - 1 \in 1 .. Len(seq) - 1 /\ Tail(seq)[i - 1] = seq[i])
    <2>1. \A i \in 1 .. Len(seq) : i = 1 \/ (i - 1 \in 1 .. Len(seq) - 1 /\ i = (i - 1) + 1)
      BY <1>1
    <2> QED
      BY <1>1, <2>1
  <1>4. \A i \in 1 .. Len(seq) - 1 : i + 1 \in DOMAIN seq /\ i + 1 # 1
    BY <1>1
  <1>5. ASSUME NoTwice(seq) PROVE NoTwice(Tail(seq))
    <2>1. \A i, j \in 1 .. Len(seq) - 1 : i + 1 = j + 1 => i = j
      BY <1>1
    <2> QED
      BY <1>1, <1>4, <1>5, <2>1 DEF NoTwice
  <1>6. ASSUME NoTwice(seq), NEW k PROVE In(Tail(seq), k) <=> In(seq, k) /\ k # Head(seq)
    <2>1. ASSUME In(Tail(seq), k) PROVE In(seq, k) /\ k # Head(seq)
      BY <1>1, <1>2, <1>4, <1>6, <2>1 DEF In, NoTwice
    <2>2. ASSUME In(seq, k), k # Head(seq) PROVE In(Tail(seq), k)
      BY <1>1, <1>3, <2>2 DEF In
    <2> QED
      BY <2>1, <2>2
  <1> QED
    BY <1>1, <1>2, <1>5, <1>6 DEF In

(* A task that a push gives to the queue was not in it.                    *)
LEMMA AcceptIn ==
  ASSUME QueueTypes, QueueDistinct, NEW k \in Tasks, ~Queued(k), Queue!Accept(k)
  PROVE  QueueDistinct' /\ \A j \in Tasks : Queued(j)' <=> Queued(j) \/ j = k
PROOF
  BY AppendIn DEF Queue!Accept, QueueTypes, QueueDistinct, Queued

LEMMA PublishIn ==
  ASSUME QueueTypes, QueueDistinct, Queue!Publish
  PROVE  QueueDistinct' /\ \A j \in Tasks : Queued(j)' <=> Queued(j)
PROOF
  <1> DEFINE h == Head(accepted)
  <1>1. /\ h \in Tasks /\ In(accepted, h) /\ NoTwice(Tail(accepted))
        /\ \A k : In(Tail(accepted), k) <=> In(accepted, k) /\ k # h
    BY TailIn DEF Queue!Publish, QueueTypes, QueueDistinct
  <1>2. accepted' = Tail(accepted) /\ visible' = Append(visible, h)
    BY DEF Queue!Publish
  <1> HIDE DEF h
  <1>3. ~In(visible, h)
    BY <1>1 DEF QueueDistinct
  <1>4. /\ \A k : In(visible', k) <=> In(visible, k) \/ k = h
        /\ NoTwice(visible')
    BY <1>1, <1>2, <1>3, AppendIn DEF QueueTypes, QueueDistinct
  <1>5. /\ \A k : In(accepted', k) <=> In(accepted, k) /\ k # h
        /\ NoTwice(accepted')
    BY <1>1, <1>2
  <1>6. /\ \A k : Queued(k)' <=> In(accepted', k) \/ In(visible', k)
        /\ QueueDistinct' <=> /\ NoTwice(accepted') /\ NoTwice(visible')
                              /\ \A k \in Tasks : ~ (In(accepted', k) /\ In(visible', k))
    BY DEF Queued, QueueDistinct, In, NoTwice
  <1> QED
    BY <1>1, <1>3, <1>4, <1>5, <1>6 DEF Queued, QueueDistinct

LEMMA TakeIn ==
  ASSUME QueueTypes, QueueDistinct, NEW w \in Workers, Queue!Take(w)
  PROVE  /\ QueueDistinct'
         /\ \E k \in Tasks : /\ Queued(k) /\ hand' = [hand EXCEPT ![w] = k]
                             /\ \A j \in Tasks : Queued(j)' <=> Queued(j) /\ j # k
PROOF
  <1> DEFINE h == Head(visible)
  <1>1. /\ h \in Tasks /\ In(visible, h) /\ NoTwice(Tail(visible))
        /\ \A k : In(Tail(visible), k) <=> In(visible, k) /\ k # h
    BY TailIn DEF Queue!Take, QueueTypes, QueueDistinct
  <1>2. accepted' = accepted /\ visible' = Tail(visible) /\ hand' = [hand EXCEPT ![w] = h]
    BY DEF Queue!Take
  <1> HIDE DEF h
  <1>3. /\ \A k : Queued(k)' <=> In(accepted', k) \/ In(visible', k)
        /\ QueueDistinct' <=> /\ NoTwice(accepted') /\ NoTwice(visible')
                              /\ \A k \in Tasks : ~ (In(accepted', k) /\ In(visible', k))
    BY DEF Queued, QueueDistinct, In, NoTwice
  <1>4. ~In(accepted, h)
    BY <1>1 DEF QueueDistinct
  <1>5. QueueDistinct'
    <2>1. NoTwice(accepted') /\ NoTwice(visible')
      BY <1>1, <1>2 DEF QueueDistinct
    <2>2. \A k \in Tasks : ~ (In(accepted', k) /\ In(visible', k))
      BY <1>1, <1>2 DEF QueueDistinct
    <2> QED
      BY <1>3, <2>1, <2>2
  <1>6. Queued(h)
    BY <1>1 DEF Queued
  <1>7. ASSUME NEW j \in Tasks PROVE Queued(j)' <=> Queued(j) /\ j # h
    <2>1. Queued(j)' <=> In(accepted, j) \/ In(Tail(visible), j)
      BY <1>2, <1>3
    <2> QED
      BY <1>1, <1>4, <2>1 DEF Queued
  <1> QED
    BY <1>1, <1>2, <1>5, <1>6, <1>7

(* The steps that move no task: those of the owner, the polls of a worker, *)
(* and the call of the target, which leaves the task with its worker.      *)
LEMMA PlaceKept ==
  ASSUME PlaceInv, UNCHANGED <<client, future>>,
         \A k \in Tasks : /\ Queued(k)' <=> Queued(k)
                          /\ \A w \in Workers : Works(w, k)' <=> Works(w, k)
  PROVE  PlaceInv'
PROOF
  BY DEF PlaceInv

LEMMA IdleSteps ==
  ASSUME TypeInv, TasksInv, UNCHANGED <<queue, data, client, future, ran>>,
         \A w \in Workers : \/ pc'[w] = pc[w]
                            \/ pc[w] \notin {"deliver", "run", "set"}
                               /\ pc'[w] \notin {"deliver", "run", "set"}
  PROVE  TasksInv'
PROOF
  <1>1. \A k \in Tasks : /\ Queued(k)' <=> Queued(k)
                         /\ \A w \in Workers : Works(w, k)' <=> Works(w, k)
    BY DEF Queued, In, Works, queue
  <1>2. PlaceInv'
    BY <1>1, PlaceKept DEF TasksInv
  <1>3. HandsInv' /\ QueueDistinct'
    BY DEF TasksInv, HandsInv, QueueDistinct, In, NoTwice, queue
  <1>4. RanInv'
    BY DEF TasksInv, RanInv
  <1> QED
    BY <1>2, <1>3, <1>4 DEF TasksInv

LEMMA PushTasks ==
  ASSUME TypeInv, TasksInv, NEW c \in Clients, Push(c)
  PROVE  TasksInv'
PROOF
  <1> USE DEF TypeInv, TypeOK, TasksInv
  <1>1. PICK k \in Tasks : /\ future[k] = "none"
                           /\ future' = [future EXCEPT ![k] = "pending"]
                           /\ client' = [client EXCEPT ![c] = k]
    BY DEF Push
  <1>2. UNCHANGED <<accepted, visible, hand, pc, data, ran>>
    BY DEF Push, queue
  <1>3. HandsInv' /\ QueueDistinct' /\ RanInv'
    BY <1>1, <1>2 DEF HandsInv, QueueDistinct, In, NoTwice, RanInv
  <1>4. \A j \in Tasks : /\ Queued(j)' <=> Queued(j)
                         /\ \A w \in Workers : Works(w, j)' <=> Works(w, j)
    BY <1>2 DEF Queued, In, Works
  <1>5. /\ ~Queued(k) /\ \A w \in Workers : ~Works(w, k)
        /\ \A d \in Clients : client[d] # k
    BY <1>1 DEF PlaceInv
  <1>6. client[c] \notin Tasks
    BY ThreadPoolAssumption DEF Push
  <1>7. PlaceInv'
    <2>1. ASSUME NEW j \in Tasks, j # k
          PROVE  /\ future'[j] = future[j]
                 /\ \A d \in Clients : client'[d] = j <=> client[d] = j
      BY <1>1, <1>6, <2>1
    <2>2. future'[k] = "pending" /\ \A d \in Clients : client'[d] = k <=> d = c
      BY <1>1, <1>5
    <2> QED
      BY <1>4, <1>5, <2>1, <2>2 DEF PlaceInv
  <1> QED
    BY <1>3, <1>7

LEMMA PushDoneTasks ==
  ASSUME TypeInv, TasksInv, NEW c \in Clients, PushDone(c)
  PROVE  TasksInv'
PROOF
  <1> USE DEF TypeInv, TypeOK, TasksInv
  <1> DEFINE k == client[c]
  <1>1. k \in Tasks /\ client' = [client EXCEPT ![c] = NoTask]
    BY DEF PushDone
  <1>2. UNCHANGED <<hand, pc, data, ran, future>>
    BY DEF PushDone, Queue!Accept
  <1>3. /\ ~Queued(k) /\ \A w \in Workers : ~Works(w, k)
        /\ \A d \in Clients : client[d] = k <=> d = c
    BY <1>1 DEF PlaceInv
  <1>4. QueueDistinct' /\ \A j \in Tasks : Queued(j)' <=> Queued(j) \/ j = k
    BY <1>1, <1>3, AcceptIn DEF PushDone
  <1>5. \A j \in Tasks : /\ \A w \in Workers : Works(w, j)' <=> Works(w, j)
                         /\ \A d \in Clients : client'[d] = j <=> client[d] = j /\ j # k
    BY <1>1, <1>2, <1>3, ThreadPoolAssumption DEF Works
  <1>6. HandsInv' /\ RanInv'
    BY <1>2 DEF HandsInv, RanInv
  <1> HIDE DEF k
  <1>7. PlaceInv'
    <2>1. future[k] = "pending"
      BY <1>1, <1>3 DEF PlaceInv
    <2> QED
      BY <1>2, <1>3, <1>4, <1>5, <2>1 DEF PlaceInv
  <1> QED
    BY <1>4, <1>6, <1>7

LEMMA PopTakeTasks ==
  ASSUME TypeInv, TasksInv, NEW w \in Workers, PopTake(w)
  PROVE  TasksInv'
PROOF
  <1> USE DEF TypeInv, TypeOK, TasksInv
  <1>1. PICK k \in Tasks : /\ Queued(k) /\ hand' = [hand EXCEPT ![w] = k]
                           /\ \A j \in Tasks : Queued(j)' <=> Queued(j) /\ j # k
    BY TakeIn DEF PopTake
  <1>2. QueueDistinct'
    BY TakeIn DEF PopTake
  <1>3. /\ pc[w] = "pop" /\ pc' = [pc EXCEPT ![w] = "deliver"] /\ hand[w] = NoTask
        /\ UNCHANGED <<data, client, future, ran>>
    BY DEF PopTake, Goto, Queue!Take
  <1>4. HandsInv' /\ RanInv'
    BY <1>1, <1>3, ThreadPoolAssumption DEF HandsInv, RanInv, QueueTypes
  <1>5. \A j \in Tasks : \A v \in Workers : Works(v, j)' <=> Works(v, j) \/ (v = w /\ j = k)
    BY <1>1, <1>3, ThreadPoolAssumption DEF Works, QueueTypes
  <1>6. /\ future[k] = "pending" /\ \A v \in Workers : ~Works(v, k)
        /\ \A d \in Clients : client[d] # k
    BY <1>1 DEF PlaceInv
  <1>7. PlaceInv'
    <2>1. \A j \in Tasks : Works(w, j) => FALSE
      BY <1>3, ThreadPoolAssumption DEF Works
    <2> QED
      BY <1>1, <1>3, <1>5, <1>6, <2>1 DEF PlaceInv
  <1> QED
    BY <1>2, <1>4, <1>7

LEMMA PopDoneTasks ==
  ASSUME TypeInv, TasksInv, NEW w \in Workers, PopDone(w)
  PROVE  TasksInv'
PROOF
  <1> USE DEF TypeInv, TypeOK, TasksInv
  <1>1. /\ pc[w] = "deliver" /\ pc' = [pc EXCEPT ![w] = "run"]
        /\ hand[w] \in Tasks /\ hand' = [hand EXCEPT ![w] = NoTask]
        /\ data' = [data EXCEPT ![w] = hand[w]]
        /\ UNCHANGED <<accepted, visible, client, future, ran>>
    BY DEF PopDone, Goto, Queue!Deliver, HandsInv, QueueTypes
  <1>2. \A k \in Tasks : /\ Queued(k)' <=> Queued(k)
                         /\ \A v \in Workers : Works(v, k)' <=> Works(v, k)
    BY <1>1, ThreadPoolAssumption DEF Queued, In, Works, QueueTypes
  <1>3. PlaceInv'
    BY <1>1, <1>2, PlaceKept
  <1>4. HandsInv' /\ QueueDistinct' /\ RanInv'
    BY <1>1 DEF HandsInv, QueueDistinct, In, NoTwice, RanInv, QueueTypes
  <1> QED
    BY <1>3, <1>4

LEMMA InvokeTasks ==
  ASSUME TypeInv, TasksInv, NEW w \in Workers, Invoke(w)
  PROVE  TasksInv'
PROOF
  <1> USE DEF TypeInv, TypeOK, TasksInv
  <1> DEFINE k == data[w]
  <1>1. /\ pc[w] = "run" /\ pc' = [pc EXCEPT ![w] = "set"] /\ k \in Tasks
        /\ ran' = [ran EXCEPT ![k] = @ + 1]
        /\ UNCHANGED <<accepted, visible, hand, data, client, future>>
    BY DEF Invoke, Goto, HandsInv, queue
  <1>2. \A j \in Tasks : /\ Queued(j)' <=> Queued(j)
                         /\ \A v \in Workers : Works(v, j)' <=> Works(v, j)
    BY <1>1 DEF Queued, In, Works
  <1>3. PlaceInv'
    BY <1>1, <1>2, PlaceKept
  <1>4. HandsInv' /\ QueueDistinct'
    BY <1>1 DEF HandsInv, QueueDistinct, In, NoTwice
  <1>5. RanInv'
    <2>1. Works(w, k) /\ future[k] = "pending"
      BY <1>1 DEF Works, PlaceInv
    <2>2. \A v \in Workers : pc[v] = "set" => data[v] # k
      BY <1>1, <2>1 DEF PlaceInv, Works
    <2>3. ran[k] = 0 /\ ran'[k] = 1
      BY <1>1, <2>1, <2>2 DEF RanInv
    <2>4. pc'[w] = "set" /\ data'[w] = k
      BY <1>1
    <2>5. \A j \in Tasks : j # k =>
             /\ ran'[j] = ran[j]
             /\ \A v \in Workers : pc'[v] = "set" /\ data'[v] = j <=> pc[v] = "set" /\ data[v] = j
      BY <1>1
    <2> QED
      BY <1>1, <2>3, <2>4, <2>5 DEF RanInv
  <1> QED
    BY <1>3, <1>4, <1>5

LEMMA SetValueTasks ==
  ASSUME TypeInv, TasksInv, NEW w \in Workers, SetValue(w)
  PROVE  TasksInv'
PROOF
  <1> USE DEF TypeInv, TypeOK, TasksInv
  <1> DEFINE k == data[w]
  <1>1. /\ pc[w] = "set" /\ pc' = [pc EXCEPT ![w] = "pop"] /\ k \in Tasks
        /\ future' = [future EXCEPT ![k] = "ready"] /\ hand[w] = NoTask
        /\ UNCHANGED <<accepted, visible, hand, data, client, ran>>
    BY DEF SetValue, Goto, HandsInv, queue
  <1>2. \A j \in Tasks :
          /\ Queued(j)' <=> Queued(j)
          /\ \A v \in Workers : Works(v, j)' <=> Works(v, j) /\ ~ (v = w /\ j = k)
    BY <1>1, ThreadPoolAssumption DEF Queued, In, Works
  <1>3. Works(w, k) /\ \A j \in Tasks : Works(w, j) => j = k
    BY <1>1, ThreadPoolAssumption DEF Works
  <1>4. HandsInv' /\ QueueDistinct'
    BY <1>1 DEF HandsInv, QueueDistinct, In, NoTwice
  <1>5. /\ future'[k] = "ready"
        /\ \A j \in Tasks : j # k => future'[j] = future[j]
    BY <1>1
  <1>6. RanInv'
    <2>1. ran[k] = 1
      BY <1>1 DEF RanInv
    <2>2. \A j \in Tasks : j # k =>
             \A v \in Workers : pc'[v] = "set" /\ data'[v] = j <=> pc[v] = "set" /\ data[v] = j
      BY <1>1
    <2> QED
      BY <1>1, <1>5, <2>1, <2>2 DEF RanInv
  <1>7. PlaceInv'
    <2>1. /\ ~Queued(k) /\ \A d \in Clients : client[d] # k
          /\ \A v \in Workers : Works(v, k) => v = w
      BY <1>1, <1>3 DEF PlaceInv
    <2> QED
      BY <1>1, <1>2, <1>3, <1>5, <2>1 DEF PlaceInv
  <1> QED
    BY <1>4, <1>6, <1>7

LEMMA TasksStep == TypeInv /\ TasksInv /\ [Next]_vars => TasksInv'
PROOF
  <1> SUFFICES ASSUME TypeInv, TasksInv, [Next]_vars PROVE TasksInv'
    OBVIOUS
  <1>1. ASSUME UNCHANGED <<queue, data, client, future, ran>>, pc' = pc PROVE TasksInv'
    BY <1>1, IdleSteps
  <1>2. CASE Start \/ Stop \/ Join \/ JoinThrows \/ UNCHANGED vars
    BY <1>1, <1>2 DEF Start, Stop, Join, JoinThrows, vars
  <1>3. ASSUME NEW id \in Bindable, Bind(id) PROVE TasksInv'
    BY <1>1, <1>3 DEF Bind
  <1>4. CASE Spawn
    <2>1. \A w \in Workers : pc'[w] = pc[w] \/ (pc[w] = "none" /\ pc'[w] = "check")
      <3>1. created + 1 \in Workers => pc[created + 1] = "none"
        BY DEF TypeInv, TypeOK
      <3> QED
        BY <1>4, <3>1 DEF Spawn, Goto, TypeInv, TypeOK
    <2>2. UNCHANGED <<queue, data, client, future, ran>>
      BY <1>4 DEF Spawn
    <2>3. \A w \in Workers : \/ pc'[w] = pc[w]
                             \/ pc[w] \notin {"deliver", "run", "set"}
                                /\ pc'[w] \notin {"deliver", "run", "set"}
      BY <2>1
    <2> QED
      BY <2>2, <2>3, IdleSteps
  <1>5. ASSUME NEW w \in Workers, Check(w) \/ PopEmpty(w) PROVE TasksInv'
    <2>1. \A v \in Workers : \/ pc'[v] = pc[v]
                             \/ pc[v] \notin {"deliver", "run", "set"}
                                /\ pc'[v] \notin {"deliver", "run", "set"}
      BY <1>5 DEF Check, PopEmpty, Goto, TypeInv, TypeOK
    <2>2. UNCHANGED <<queue, data, client, future, ran>>
      BY <1>5 DEF Check, PopEmpty
    <2> QED
      BY <2>1, <2>2, IdleSteps
  <1>6. ASSUME Publish \/ Recycle PROVE TasksInv'
    <2>1. UNCHANGED <<hand, pc, data, client, future, ran>>
      BY <1>6 DEF Publish, Recycle, Queue!Publish, Queue!Recycle
    <2>2. QueueDistinct' /\ \A k \in Tasks : Queued(k)' <=> Queued(k)
      <3>1. CASE Queue!Publish
        BY <3>1, PublishIn DEF TypeInv, TasksInv
      <3>2. CASE Queue!Recycle
        BY <3>2 DEF Queue!Recycle, TasksInv, QueueDistinct, Queued, In, NoTwice
      <3> QED
        BY <1>6, <3>1, <3>2 DEF Publish, Recycle
    <2>3. HandsInv' /\ RanInv'
      BY <2>1 DEF TasksInv, HandsInv, RanInv
    <2>4. \A k \in Tasks, w \in Workers : Works(w, k)' <=> Works(w, k)
      BY <2>1 DEF Works
    <2>5. PlaceInv'
      BY <2>1, <2>2, <2>4, PlaceKept DEF TasksInv
    <2> QED
      BY <2>2, <2>3, <2>5 DEF TasksInv
  <1>7. ASSUME NEW c \in Clients, Push(c) \/ PushDone(c) PROVE TasksInv'
    BY <1>7, PushTasks, PushDoneTasks
  <1>8. ASSUME NEW w \in Workers, PopTake(w) \/ PopDone(w) \/ Invoke(w) \/ SetValue(w)
        PROVE  TasksInv'
    BY <1>8, PopTakeTasks, PopDoneTasks, InvokeTasks, SetValueTasks
  <1> QED
    BY <1>2, <1>3, <1>4, <1>5, <1>6, <1>7, <1>8 DEF Next, OwnerStep, WorkerStep

LEMMA InvInit == Init => JoinedInv /\ TargetsInv /\ TasksInv
PROOF
  <1> SUFFICES ASSUME Init PROVE JoinedInv /\ TargetsInv /\ TasksInv
    OBVIOUS
  <1> USE ThreadPoolAssumption DEF Init, Queue!Init
  <1>1. JoinedInv
    BY DEF JoinedInv
  <1>2. OneGeneration(0)
    BY DEF OneGeneration
  <1>3. TargetsInv
    BY <1>2 DEF TargetsInv
  <1>4. \A k : ~Queued(k)
    BY DEF Queued, In
  <1>5. \A k \in Tasks, w \in Workers : ~Works(w, k)
    BY DEF Works
  <1>6. HandsInv /\ QueueDistinct /\ PlaceInv /\ RanInv
    BY <1>4, <1>5 DEF HandsInv, QueueDistinct, In, NoTwice, PlaceInv, RanInv
  <1> QED
    BY <1>1, <1>3, <1>6 DEF TasksInv

PoolInv == TypeInv /\ JoinedInv /\ TargetsInv /\ TasksInv

LEMMA PoolInvAlways == Spec => []PoolInv
PROOF
  <1>1. Init => PoolInv
    BY TypeInvInit, InvInit DEF PoolInv
  <1>2. PoolInv /\ [Next]_vars => TypeInv'
    <2> SUFFICES ASSUME PoolInv, [Next]_vars PROVE TypeInv'
      OBVIOUS
    <2>1. CASE OthersStep
      BY <2>1, OthersTypes DEF PoolInv, TasksInv
    <2>2. CASE (\E id \in Bindable : Bind(id)) \/ Start \/ Stop \/ OwnerStep
      BY <2>2, OwnerTypes DEF PoolInv
    <2>3. CASE UNCHANGED vars
      BY <2>3 DEF PoolInv, TypeInv, TypeOK, QueueTypes, OwnerInv, get_target_,
                  vars, queue, ours, binds
    <2> QED
      BY <2>1, <2>2, <2>3 DEF Next, OthersStep
  <1>3. PoolInv /\ [Next]_vars => PoolInv'
    BY <1>2, JoinedStep, TargetsStep, TasksStep DEF PoolInv
  <1> QED
    BY <1>1, <1>3, PTL DEF Spec

-------------------------------------------------------------------------------
(* What holds of every behaviour.                                          *)

(* After a stop that returned no thread of the pool runs, whatever came    *)
(* before: the next stop would meet joined threads, and throw.             *)
THEOREM PoolQuiesces == Spec => []StopQuiesces
PROOF
  <1>1. PoolInv => StopQuiesces
    BY DEF PoolInv, JoinedInv, StopQuiesces
  <1> QED
    BY <1>1, PoolInvAlways, PTL

(* Two workers that call a target at the same time are of one start, hence *)
(* of different ids, hence do not share a target bound to a thread.        *)
THEOREM PoolTargetsApart == Spec => []OneThreadPerTarget
PROOF
  <1>1. PoolInv => OneThreadPerTarget
    <2> SUFFICES ASSUME PoolInv, ~threw, NEW v \in Workers, NEW w \in Workers,
                        v # w, pc[v] = "run", pc[w] = "run", target[v] = target[w]
                 PROVE  target[v] = Default
      BY DEF OneThreadPerTarget
    <2>1. PICK b \in 0 .. created : OneGeneration(b)
      BY DEF PoolInv, TargetsInv
    <2>2. created \in Nat /\ v \in Nat /\ w \in Nat /\ v >= 1 /\ w >= 1
      BY SomeWorkers DEF PoolInv, TypeInv, TypeOK, Workers
    <2>3. v <= created /\ w <= created
      BY <2>2 DEF PoolInv, TypeInv, TypeOK
    <2>4. v > b /\ w > b
      BY <2>1, <2>2 DEF OneGeneration
    <2>5. /\ target[v] = get_target_(v - b - 1)
          /\ target[w] = get_target_(w - b - 1)
      BY <2>1, <2>2, <2>3, <2>4 DEF OneGeneration
    <2>6. v - b - 1 # w - b - 1 /\ v - b - 1 \in Nat /\ w - b - 1 \in Nat
      BY <2>1, <2>2, <2>4
    <2> QED
      BY <2>5, <2>6, ThreadPoolAssumption DEF get_target_
  <1> QED
    BY <1>1, PoolInvAlways, PTL

LEMMA WaitingIs ==
  ASSUME QueueTypes, QueueDistinct, NEW k \in Tasks
  PROVE  /\ Queued(k) => \E i : Waiting(k) = {i}
         /\ ~Queued(k) => Waiting(k) = {}
PROOF
  <1> DEFINE s == accepted \o visible
             m == Len(accepted)
             n == Len(visible)
  <1>1. m \in Nat /\ n \in Nat /\ DOMAIN accepted = 1 .. m /\ DOMAIN visible = 1 .. n
    BY DEF QueueTypes
  <1>2. /\ s \in Seq(Tasks) /\ Len(s) = m + n
        /\ \A i \in 1 .. m + n : s[i] = IF i <= m THEN accepted[i] ELSE visible[i - m]
    BY ConcatProperties DEF QueueTypes
  <1>3. DOMAIN s = 1 .. m + n
    BY <1>2
  <1>4. Waiting(k) = {i \in 1 .. m + n : s[i] = k}
    BY <1>3 DEF Waiting
  <1> HIDE DEF s, m, n
  <1>5. \A i \in 1 .. m + n : \/ i \in 1 .. m /\ s[i] = accepted[i]
                              \/ i - m \in 1 .. n /\ s[i] = visible[i - m] /\ ~ i <= m
    BY <1>1, <1>2
  <1>6. \A i \in 1 .. m : i \in 1 .. m + n /\ s[i] = accepted[i]
    BY <1>1, <1>2
  <1>7. \A i \in 1 .. n : /\ i + m \in 1 .. m + n /\ ~ i + m <= m /\ (i + m) - m = i
                          /\ s[i + m] = visible[i]
    BY <1>1, <1>2
  <1>8. ASSUME ~Queued(k) PROVE Waiting(k) = {}
    BY <1>1, <1>4, <1>5, <1>8 DEF Queued, In
  <1>9. ASSUME NEW i \in 1 .. m + n, NEW j \in 1 .. m + n, s[i] = k, s[j] = k
        PROVE  i = j
    <2>1. CASE i \in 1 .. m
      <3>1. j \in 1 .. m /\ s[j] = accepted[j] /\ s[i] = accepted[i]
        BY <1>1, <1>5, <1>6, <1>9, <2>1 DEF QueueDistinct, In
      <3> QED
        BY <1>1, <1>9, <2>1, <3>1 DEF QueueDistinct, NoTwice
    <2>2. CASE i \notin 1 .. m
      <3>1. i - m \in 1 .. n /\ s[i] = visible[i - m]
        BY <1>5, <2>2
      <3>2. j - m \in 1 .. n /\ s[j] = visible[j - m]
        BY <1>1, <1>5, <1>6, <1>9, <3>1 DEF QueueDistinct, In
      <3>3. i - m = j - m
        BY <1>1, <1>9, <3>1, <3>2 DEF QueueDistinct, NoTwice
      <3> QED
        BY <1>1, <3>3
    <2> QED
      BY <2>1, <2>2
  <1>10. ASSUME Queued(k) PROVE \E i : Waiting(k) = {i}
    <2>1. \E i \in 1 .. m + n : s[i] = k
      BY <1>1, <1>6, <1>7, <1>10 DEF Queued, In
    <2> QED
      BY <1>4, <1>9, <2>1
  <1> QED
    BY <1>8, <1>10

(* A pending task is in exactly one place, and its target was called once  *)
(* when its future is ready: for any number of workers, over restarts.     *)
THEOREM PoolRunsOnce == Spec => []RunsOnce
PROOF
  <1>1. PoolInv => RunsOnce
    <2> SUFFICES ASSUME PoolInv, NEW k \in Tasks
                 PROVE  Cardinality(Pushing(k)) + Cardinality(Waiting(k))
                          + Cardinality(Working(k))
                          = IF future[k] = "pending" THEN 1 ELSE 0
      BY DEF RunsOnce, PoolInv, TasksInv, RanInv
    <2> USE DEF PoolInv, TypeInv, TasksInv
    <2>1. Cardinality({}) = 0 /\ \A x : Cardinality({x}) = 1
      BY FS_EmptySet, FS_Singleton
    <2>2. Working(k) = {w \in Workers : Works(w, k)}
      BY DEF Working, Works
    <2>3. CASE \E c \in Clients : client[c] = k
      <3>1. PICK c \in Clients : client[c] = k
        BY <2>3
      <3>2. Pushing(k) = {c} /\ Waiting(k) = {} /\ Working(k) = {} /\ future[k] = "pending"
        BY <2>2, <3>1, WaitingIs DEF PlaceInv, Pushing
      <3>3. Cardinality(Pushing(k)) + Cardinality(Waiting(k)) + Cardinality(Working(k)) = 1
        BY <2>1, <3>2
      <3> QED
        BY <3>2, <3>3
    <2>4. CASE Queued(k)
      <3>1. /\ Pushing(k) = {} /\ Working(k) = {} /\ future[k] = "pending"
            /\ \E i : Waiting(k) = {i}
        BY <2>2, <2>4, WaitingIs DEF PlaceInv, Pushing
      <3>2. /\ Cardinality(Pushing(k)) = 0 /\ Cardinality(Working(k)) = 0
            /\ Cardinality(Waiting(k)) = 1
        BY <2>1, <3>1
      <3> QED
        BY <3>1, <3>2
    <2>5. CASE \E w \in Workers : Works(w, k)
      <3>1. PICK w \in Workers : Works(w, k)
        BY <2>5
      <3>2. /\ ~Queued(k) /\ future[k] = "pending"
            /\ \A c \in Clients : client[c] # k
            /\ \A v \in Workers : Works(v, k) => v = w
        BY <3>1 DEF PlaceInv
      <3>3. Pushing(k) = {} /\ Waiting(k) = {} /\ Working(k) = {w}
        BY <2>2, <3>1, <3>2, WaitingIs DEF Pushing
      <3>4. Cardinality(Pushing(k)) + Cardinality(Waiting(k)) + Cardinality(Working(k)) = 1
        <4>1. Cardinality({w}) = 1
          BY <2>1
        <4> QED
          BY <2>1, <3>3, <4>1
      <3> QED
        BY <3>2, <3>4
    <2>6. CASE /\ \A c \in Clients : client[c] # k
               /\ ~Queued(k) /\ \A w \in Workers : ~Works(w, k)
      <3>1. Pushing(k) = {} /\ Waiting(k) = {} /\ Working(k) = {} /\ future[k] # "pending"
        BY <2>2, <2>6, WaitingIs DEF PlaceInv, Pushing
      <3> QED
        BY <2>1, <3>1
    <2> QED
      BY <2>3, <2>4, <2>5, <2>6
  <1> QED
    BY <1>1, PoolInvAlways, PTL
===============================================================================
