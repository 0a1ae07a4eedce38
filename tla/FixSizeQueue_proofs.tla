-------------------------- MODULE FixSizeQueue_proofs --------------------------
(***************************************************************************)
(* What FixSizeQueue guarantees for any number of threads, cells, values   *)
(* and any width of the counters. The safety properties hold as long as no *)
(* call is overtaken by a whole round of the ring (NotOvertaken below);    *)
(* the last parts are about clients of which that can be proved.           *)
(***************************************************************************)
EXTENDS FixSizeQueue, SequenceTheorems, TLAPS

(* The counters wrap within their width, and the mask selects a cell.      *)
LEMMA IncIsIndex == ASSUME NEW i \in Indices PROVE Inc(i) \in Indices
PROOF
  BY QueueAssumption DEF Inc, Indices

LEMMA ArrayIdxIsCell == ASSUME NEW i \in Indices PROVE ArrayIdx(i) \in Cells
PROOF
  BY QueueAssumption DEF ArrayIdx, Cells, Indices

LEMMA TypeOKInit == Init => TypeOK
PROOF
  BY QueueAssumption DEF Init, TypeOK, Indices, Cells

LEMMA TypeOKStep == TypeOK /\ [Next]_vars => TypeOK'
PROOF
  <1> SUFFICES ASSUME TypeOK, [Next]_vars PROVE TypeOK'
    OBVIOUS
  <1> USE IncIsIndex, ArrayIdxIsCell
          DEF TypeOK, PushPcs, PopPcs, Goto, Return, head, tail
  <1>0. ASSUME NEW t \in Producers, NEW v \in Values, PushLoad(t, v)
        PROVE  TypeOK'
    BY <1>0 DEF PushLoad, Threads
  <1>1. ASSUME NEW t \in Threads, PushCheck(t) PROVE TypeOK'
    BY <1>1 DEF PushCheck
  <1>2. ASSUME NEW t \in Threads, PushReserve(t) PROVE TypeOK'
    BY <1>2 DEF PushReserve
  <1>3. ASSUME NEW t \in Threads, PushRetry(t) PROVE TypeOK'
    BY <1>3 DEF PushRetry
  <1>4. ASSUME NEW t \in Threads, PushStore(t) PROVE TypeOK'
    BY <1>4 DEF PushStore
  <1>5. ASSUME NEW t \in Threads, PushFlag(t) PROVE TypeOK'
    BY <1>5 DEF PushFlag
  <1>6. ASSUME NEW t \in Threads, PushTurn(t) PROVE TypeOK'
    BY <1>6 DEF PushTurn
  <1>7. ASSUME NEW t \in Threads, PushReady(t) PROVE TypeOK'
    BY <1>7 DEF PushReady
  <1>8. ASSUME NEW t \in Threads, PushPublish(t) PROVE TypeOK'
    BY <1>8 DEF PushPublish
  <1>9. ASSUME NEW t \in Threads, PopLoad(t) PROVE TypeOK'
    BY <1>9 DEF PopLoad
  <1>10. ASSUME NEW t \in Threads, PopCheck(t) PROVE TypeOK'
    BY <1>10 DEF PopCheck
  <1>11. ASSUME NEW t \in Threads, PopReserve(t) PROVE TypeOK'
    BY <1>11 DEF PopReserve
  <1>12. ASSUME NEW t \in Threads, PopRetry(t) PROVE TypeOK'
    BY <1>12 DEF PopRetry
  <1>13. ASSUME NEW t \in Threads, PopTake(t) PROVE TypeOK'
    BY <1>13 DEF PopTake
  <1>14. ASSUME NEW t \in Threads, PopFlag(t) PROVE TypeOK'
    BY <1>14 DEF PopFlag
  <1>15. ASSUME NEW t \in Threads, PopTurn(t) PROVE TypeOK'
    BY <1>15 DEF PopTurn
  <1>16. ASSUME NEW t \in Threads, PopReady(t) PROVE TypeOK'
    BY <1>16 DEF PopReady
  <1>17. ASSUME NEW t \in Threads, PopPublish(t) PROVE TypeOK'
    BY <1>17 DEF PopPublish
  <1>18. CASE UNCHANGED vars
    BY <1>18 DEF vars
  <1> QED
    BY <1>0, <1>1, <1>2, <1>3, <1>4, <1>5, <1>6, <1>7, <1>8, <1>9, <1>10, <1>11, <1>12,
       <1>13, <1>14,
       <1>15, <1>16, <1>17, <1>18
    DEF Next, PushStep, PopStep, Threads

(* The counters stay within their width, flags and locals keep their       *)
(* types.                                                                  *)
THEOREM QueueTyping == Spec => []TypeOK
PROOF
  BY TypeOKInit, TypeOKStep, PTL DEF Spec

-------------------------------------------------------------------------------
(* Counters that wrap.                                                     *)

LEMMA SizeFacts == /\ Size \in Nat /\ Size > 0 /\ IndexMod \in Nat /\ IndexMod > Size + 1
                   /\ \E q \in Nat : IndexMod = q * Size
PROOF
  <1>1. Size \in Nat /\ Size > 0 /\ IndexMod \in Nat /\ IndexMod > Size + 1
    BY QueueAssumption
  <1> DEFINE q == IndexMod \div Size
  <1>2. q \in Nat /\ IndexMod = q * Size + (IndexMod % Size)
    BY <1>1
  <1> HIDE DEF q
  <1>3. IndexMod = q * Size
    BY <1>1, <1>2, QueueAssumption
  <1> QED
    BY <1>1, <1>2, <1>3

LEMMA IncFacts ==
  ASSUME NEW i \in Indices
  PROVE  /\ Inc(i) \in Indices /\ Inc(i) # i
         /\ Inc(i) = IF i = IndexMod - 1 THEN 0 ELSE i + 1
PROOF
  <1>1. i \in Nat /\ i < IndexMod /\ IndexMod \in Nat /\ IndexMod > 1
    BY SizeFacts DEF Indices
  <1>2. CASE i = IndexMod - 1
    <2>1. i + 1 = IndexMod /\ IndexMod % IndexMod = 0
      BY <1>1, <1>2
    <2> QED
      BY <1>1, <1>2, <2>1 DEF Inc, Indices
  <1>3. CASE i # IndexMod - 1
    <2>1. (i + 1) % IndexMod = i + 1
      BY <1>1, <1>3
    <2> QED
      BY <1>1, <1>3, <2>1 DEF Inc, Indices
  <1> QED
    BY <1>2, <1>3

LEMMA DistFacts ==
  ASSUME NEW h \in Indices, NEW t \in Indices
  PROVE  /\ Dist(h, t) \in Nat /\ Dist(h, t) < IndexMod
         /\ Dist(h, t) = 0 <=> h = t
         /\ Dist(h, t) < IndexMod - 1 => Dist(h, Inc(t)) = Dist(h, t) + 1
         /\ h # t => Dist(Inc(h), t) = Dist(h, t) - 1
PROOF
  BY SizeFacts, IncFacts DEF Dist, Indices

(* Ways round the ring add up while they are shorter than it.              *)
LEMMA DistAdds ==
  ASSUME NEW h \in Indices, NEW i \in Indices, NEW t \in Indices
  PROVE  /\ Dist(h, i) + Dist(i, t) < IndexMod => Dist(h, t) = Dist(h, i) + Dist(i, t)
         /\ Dist(h, i) <= Dist(h, t) => Dist(h, t) = Dist(h, i) + Dist(i, t)
         /\ Dist(h, i) = Dist(h, t) => i = t
PROOF
  BY SizeFacts DEF Dist, Indices

LEMMA NoMultiple == \A k \in Int, n \in Nat : ~ (0 < k * n /\ k * n < n)
PROOF
  <1> SUFFICES ASSUME NEW k \in Int, NEW n \in Nat, 0 < k * n, k * n < n
               PROVE  FALSE
    OBVIOUS
  <1>1. CASE k <= 0
    BY <1>1
  <1>2. CASE k >= 1
    BY <1>2
  <1> QED
    BY <1>1, <1>2

(* Tickets that are less than a round apart have cells of their own.       *)
LEMMA CellsApart ==
  ASSUME NEW h \in Indices, NEW t \in Indices, 0 < Dist(h, t), Dist(h, t) < Size
  PROVE  ArrayIdx(h) # ArrayIdx(t)
PROOF
  <1> SUFFICES ASSUME ArrayIdx(h) = ArrayIdx(t) PROVE FALSE
    OBVIOUS
  <1> DEFINE a == h \div Size
             b == t \div Size
  <1>1. /\ Size \in Nat /\ Size > 0 /\ h \in Nat /\ t \in Nat /\ IndexMod \in Nat
    BY SizeFacts DEF Indices
  <1>2. PICK q \in Nat : IndexMod = q * Size
    BY SizeFacts
  <1>3. /\ a \in Nat /\ h = a * Size + ArrayIdx(h)
        /\ b \in Nat /\ t = b * Size + ArrayIdx(t)
        /\ ArrayIdx(h) \in Nat
    BY <1>1 DEF ArrayIdx
  <1> HIDE DEF a, b
  <1>4. t - h = (b - a) * Size /\ t + IndexMod - h = (b + q - a) * Size
    BY <1>1, <1>2, <1>3
  <1>5. Dist(h, t) = (b - a) * Size \/ Dist(h, t) = (b + q - a) * Size
    BY <1>4 DEF Dist
  <1>6. b - a \in Int /\ b + q - a \in Int
    BY <1>2, <1>3
  <1> QED
    BY <1>1, <1>5, <1>6, NoMultiple

(* size_, with its masked counter, tells the full ring from the others.    *)
LEMMA FullIsSize ==
  ASSUME NEW h \in Indices, NEW t \in Indices, Dist(h, t) <= Size
  PROVE  IsFull(h, t) <=> Dist(h, t) = Size
PROOF
  <1>1. /\ Size \in Nat /\ Size > 0 /\ h \in Nat /\ t \in Nat /\ IndexMod \in Nat
        /\ h < IndexMod /\ t < IndexMod
    BY SizeFacts DEF Indices
  <1>2. CASE t >= h
    BY <1>1, <1>2 DEF IsFull, SizeOf, Dist
  <1>3. CASE t < h
    <2>1. h >= IndexMod - Size
      BY <1>1, <1>3 DEF Dist
    <2> DEFINE r == h - (IndexMod - Size)
    <2>2. r \in 0 .. Size - 1
      BY <1>1, <2>1
    <2>3. PICK q \in Nat : IndexMod = q * Size
      BY SizeFacts
    <2>4. h = (q - 1) * Size + r
      BY <1>1, <2>3
    <2>5. h % Size = r
      <3> DEFINE a == h \div Size
      <3>1. a \in Nat /\ h = a * Size + (h % Size) /\ h % Size \in 0 .. Size - 1
        BY <1>1
      <3> HIDE DEF a, r
      <3>2. (q - 1 - a) * Size = (h % Size) - r
        BY <1>1, <2>2, <2>3, <2>4, <3>1
      <3>3. (a - q + 1) * Size = r - (h % Size)
        BY <1>1, <2>2, <2>3, <2>4, <3>1
      <3>4. q - 1 - a \in Int /\ a - q + 1 \in Int
        BY <2>3, <3>1
      <3>5. ~ (0 < (h % Size) - r) /\ ~ (0 < r - (h % Size))
        <4>1. /\ ~ (0 < (q - 1 - a) * Size /\ (q - 1 - a) * Size < Size)
              /\ ~ (0 < (a - q + 1) * Size /\ (a - q + 1) * Size < Size)
          BY <1>1, <3>4, NoMultiple
        <4>2. /\ ~ (0 < (h % Size) - r /\ (h % Size) - r < Size)
              /\ ~ (0 < r - (h % Size) /\ r - (h % Size) < Size)
          BY <3>2, <3>3, <4>1
        <4> QED
          BY <1>1, <2>2, <3>1, <4>2
      <3> QED
        BY <1>1, <2>2, <3>1, <3>5
    <2> QED
      BY <1>1, <1>3, <2>5 DEF IsFull, SizeOf, ArrayIdx, Dist
  <1> QED
    BY <1>1, <1>2, <1>3

LEMMA DistNext ==
  ASSUME NEW i \in Indices
  PROVE  Dist(i, i) = 0 /\ Dist(i, Inc(i)) = 1
PROOF
  BY DistFacts, SizeFacts

-------------------------------------------------------------------------------
(***************************************************************************)
(* Lanes. push and pop take their tickets from one counter and hand them   *)
(* on to the other side through a second one, which the calls advance for  *)
(* each other: push from tail_read_ to tail_write_ with check_write_, pop  *)
(* from head_write_ to head_read_ with check_read_. What keeps the calls   *)
(* of one side apart is the same for both and is said once, for a lane:    *)
(*                                                                         *)
(*   low, high   its two counters; the tickets from low to high are under  *)
(*               way                                                       *)
(*   check       its flags                                                 *)
(*   at, ix      where its calls are, and their tickets                    *)
(***************************************************************************)
LaneStates == {"out", "claim", "turn", "ready", "publish"}

(* Calls that have a ticket nobody else may touch.                         *)
Owners == {"claim", "publish"}

Between(low, high, i) == Dist(low, i) < Dist(low, high)

LaneType(low, high, check, at, ix) ==
  /\ low \in Indices /\ high \in Indices /\ Dist(low, high) <= Size
  /\ check \in [Cells -> BOOLEAN]
  /\ at \in [Threads -> LaneStates]
  /\ ix \in [Threads -> Indices]

(* A ticket that has been taken has one owner until its flag is raised,    *)
(* and the one who lowers the flag owns it again.                          *)
Owned(low, high, check, at, ix) ==
  /\ \A t \in Threads : at[t] = "claim" => Between(low, high, ix[t])
  /\ \A t \in Threads : at[t] = "publish" => ix[t] = low /\ low # high
  /\ \A t \in Threads : at[t] \in Owners => ~ check[ArrayIdx(ix[t])]
  /\ \A t, u \in Threads : t # u /\ at[t] \in Owners /\ at[u] \in Owners => ix[t] # ix[u]

(* A call in front of a flag looks for the first ticket, or for one that   *)
(* has been handed on.                                                     *)
Overdue(low, high, at, ix) ==
  \A t \in Threads : at[t] = "ready" => Dist(ix[t], low) <= Dist(ix[t], high)

(* Raised flags are those of tickets under way, and every ticket under way *)
(* has an owner or its flag.                                               *)
Flagged(low, high, check) ==
  \A x \in Cells : check[x] => \E i \in Indices : Between(low, high, i) /\ ArrayIdx(i) = x

Covered(low, high, check, at, ix) ==
  \A i \in Indices : Between(low, high, i) =>
    check[ArrayIdx(i)] \/ \E t \in Threads : at[t] \in Owners /\ ix[t] = i

(* When the first ticket has its flag some call is about to look at it.    *)
Watched(low, high, check, at, ix) ==
  low # high /\ check[ArrayIdx(low)] =>
    \E t \in Threads : at[t] \in {"turn", "ready"} /\ ix[t] = low

Lane(low, high, check, at, ix) ==
  /\ Owned(low, high, check, at, ix)
  /\ Overdue(low, high, at, ix)
  /\ Flagged(low, high, check)
  /\ Covered(low, high, check, at, ix)
  /\ Watched(low, high, check, at, ix)

(* No call stays in front of a flag for more than a round.                 *)
InTime(high, at, ix) == \A t \in Threads : at[t] = "ready" => Dist(ix[t], high) <= Size

(* Tickets under way have cells of their own.                              *)
LEMMA OneCellEach ==
  ASSUME NEW low \in Indices, NEW high \in Indices, Dist(low, high) <= Size,
         NEW i \in Indices, NEW j \in Indices, Between(low, high, i), Between(low, high, j),
         ArrayIdx(i) = ArrayIdx(j)
  PROVE  i = j
PROOF
  <1>1. ASSUME NEW a \in Indices, NEW b \in Indices, Between(low, high, b),
               Dist(low, a) < Dist(low, b)
        PROVE  ArrayIdx(a) # ArrayIdx(b)
    <2>1. /\ Dist(low, a) \in Nat /\ Dist(low, b) \in Nat /\ Dist(low, high) \in Nat
          /\ Dist(a, b) \in Nat
      BY DistFacts
    <2>2. Dist(low, b) = Dist(low, a) + Dist(a, b)
      BY <1>1, <2>1, DistAdds
    <2> QED
      BY <1>1, <2>1, <2>2, CellsApart, SizeFacts DEF Between
  <1>2. Dist(low, i) \in Nat /\ Dist(low, j) \in Nat
    BY DistFacts
  <1>3. Dist(low, i) = Dist(low, j)
    BY <1>1, <1>2
  <1> QED
    BY <1>3, DistAdds

(* A call whose ticket has been handed on finds the flag of its cell       *)
(* lowered, unless it is the first ticket.                                 *)
LEMMA OverdueCell ==
  ASSUME NEW low \in Indices, NEW high \in Indices, NEW x \in Indices, NEW i \in Indices,
         Dist(x, low) <= Dist(x, high), Dist(x, high) <= Size, Between(low, high, i),
         ArrayIdx(i) = ArrayIdx(x)
  PROVE  x = low /\ i = low
PROOF
  <1>1. /\ Dist(x, low) \in Nat /\ Dist(x, high) \in Nat /\ Dist(low, i) \in Nat
        /\ Dist(low, high) \in Nat /\ Dist(x, high) < IndexMod
    BY DistFacts
  <1>2. Dist(x, high) = Dist(x, low) + Dist(low, high)
    BY DistAdds
  <1>3. Dist(x, low) + Dist(low, i) < Dist(x, high)
    BY <1>1, <1>2 DEF Between
  <1>4. Dist(x, i) = Dist(x, low) + Dist(low, i)
    BY <1>1, <1>3, DistAdds, SizeFacts
  <1>5. Dist(x, i) < Size
    BY <1>1, <1>3, <1>4, SizeFacts
  <1>6. Dist(x, i) = 0
    BY <1>1, <1>4, <1>5, CellsApart
  <1>7. Dist(x, low) = 0 /\ Dist(low, i) = 0
    BY <1>1, <1>4, <1>6
  <1> QED
    BY <1>7, DistFacts

(* The tickets under way after one more has been taken.                    *)
LEMMA BetweenEnter ==
  ASSUME NEW low \in Indices, NEW high \in Indices, Dist(low, high) < Size
  PROVE  /\ Dist(low, Inc(high)) = Dist(low, high) + 1
         /\ \A i \in Indices : Between(low, Inc(high), i) <=> Between(low, high, i) \/ i = high
         /\ ~ Between(low, high, high)
PROOF
  <1>1. Dist(low, high) \in Nat /\ Dist(low, Inc(high)) = Dist(low, high) + 1
    BY DistFacts, SizeFacts
  <1>2. ASSUME NEW i \in Indices
        PROVE  Between(low, Inc(high), i) <=> Between(low, high, i) \/ i = high
    <2>1. Dist(low, i) \in Nat /\ (Dist(low, i) = Dist(low, high) => i = high)
      BY DistFacts, DistAdds
    <2> QED
      BY <1>1, <2>1 DEF Between
  <1> QED
    BY <1>1, <1>2 DEF Between

(* And after the first one has been handed on.                             *)
LEMMA BetweenPublish ==
  ASSUME NEW low \in Indices, NEW high \in Indices, low # high
  PROVE  /\ Dist(Inc(low), high) = Dist(low, high) - 1
         /\ \A i \in Indices : Between(Inc(low), high, i) <=> Between(low, high, i) /\ i # low
         /\ Between(low, high, low)
PROOF
  <1>1. /\ Dist(low, high) \in Nat /\ Dist(low, high) > 0 /\ Dist(low, low) = 0
        /\ Dist(Inc(low), high) = Dist(low, high) - 1
    BY DistFacts
  <1>2. ASSUME NEW i \in Indices, i # low
        PROVE  Between(Inc(low), high, i) <=> Between(low, high, i)
    <2>1. Dist(low, i) \in Nat /\ Dist(Inc(low), i) = Dist(low, i) - 1
      BY <1>2, DistFacts
    <2> QED
      BY <1>1, <2>1 DEF Between
  <1>3. ~ Between(Inc(low), high, low)
    BY <1>1, SizeFacts, IncFacts DEF Between, Dist, Indices
  <1> QED
    BY <1>1, <1>2, <1>3 DEF Between

(* A call outside moves: it may load another ticket.                       *)
LEMMA LaneOutside ==
  ASSUME NEW low, NEW high, NEW check, NEW at, NEW ix, NEW at2, NEW ix2,
         LaneType(low, high, check, at, ix), Lane(low, high, check, at, ix),
         NEW t \in Threads, at[t] = "out", at2 = at,
         \A u \in Threads : u # t => ix2[u] = ix[u]
  PROVE  Lane(low, high, check, at2, ix2)
PROOF
  <1> USE DEF LaneType, LaneStates, Owners
  <1>1. Owned(low, high, check, at2, ix2)
    BY DEF Lane, Owned
  <1>2. Overdue(low, high, at2, ix2)
    BY DEF Lane, Overdue
  <1>3. Covered(low, high, check, at2, ix2)
    BY DEF Lane, Covered
  <1>4. Watched(low, high, check, at2, ix2)
    BY DEF Lane, Watched
  <1> QED
    BY <1>1, <1>2, <1>3, <1>4 DEF Lane

(* A call takes the next ticket.                                           *)
LEMMA LaneEnter ==
  ASSUME NEW low, NEW high, NEW check, NEW at, NEW ix, NEW at2,
         LaneType(low, high, check, at, ix), Lane(low, high, check, at, ix),
         InTime(high, at, ix), Dist(low, high) < Size,
         NEW t \in Threads, at[t] = "out", ix[t] = high,
         at2 = [at EXCEPT ![t] = "claim"]
  PROVE  Lane(low, Inc(high), check, at2, ix)
PROOF
  <1> USE DEF LaneType, LaneStates, Owners
  <1>1. /\ Dist(low, Inc(high)) = Dist(low, high) + 1 /\ Dist(low, high) \in Nat
        /\ \A i \in Indices : Between(low, Inc(high), i) <=> Between(low, high, i) \/ i = high
        /\ ~ Between(low, high, high)
        /\ Between(low, Inc(high), high)
    BY BetweenEnter, DistFacts
  <1>2. at2[t] = "claim" /\ \A u \in Threads : u # t => at2[u] = at[u]
    OBVIOUS
  <1>3. ~ check[ArrayIdx(high)]
    <2> SUFFICES ASSUME check[ArrayIdx(high)] PROVE FALSE
      OBVIOUS
    <2>1. PICK i \in Indices : Between(low, high, i) /\ ArrayIdx(i) = ArrayIdx(high)
      BY ArrayIdxIsCell DEF Lane, Flagged
    <2>2. Dist(low, Inc(high)) <= Size /\ Inc(high) \in Indices
      BY <1>1, IncFacts, SizeFacts
    <2>3. i = high
      BY <1>1, <2>1, <2>2, OneCellEach
    <2> QED
      BY <1>1, <2>1, <2>3
  <1>4. Owned(low, Inc(high), check, at2, ix)
    <2>1. \A u \in Threads : u # t /\ at[u] \in Owners => ix[u] # high
      BY <1>1, DistFacts DEF Lane, Owned, Between
    <2>2. low # Inc(high)
      BY <1>1, DistNext
    <2> QED
      BY <1>1, <1>2, <1>3, <2>1, <2>2 DEF Lane, Owned
  <1>5. Overdue(low, Inc(high), at2, ix)
    <2> SUFFICES ASSUME NEW u \in Threads, at2[u] = "ready"
                 PROVE  Dist(ix[u], low) <= Dist(ix[u], Inc(high))
      BY DEF Overdue
    <2>1. /\ at[u] = "ready" /\ ix[u] \in Indices
          /\ Dist(ix[u], low) <= Dist(ix[u], high) /\ Dist(ix[u], high) <= Size
      BY <1>2 DEF Lane, Overdue, InTime
    <2>2. Dist(ix[u], high) \in Nat /\ Dist(ix[u], low) \in Nat
      BY <2>1, DistFacts
    <2>3. Dist(ix[u], Inc(high)) = Dist(ix[u], high) + 1
      BY <2>1, <2>2, DistFacts, SizeFacts
    <2> QED
      BY <2>1, <2>2, <2>3
  <1>6. Flagged(low, Inc(high), check)
    BY <1>1 DEF Lane, Flagged
  <1>7. Covered(low, Inc(high), check, at2, ix)
    BY <1>1, <1>2 DEF Lane, Covered
  <1>8. Watched(low, Inc(high), check, at2, ix)
    <2> SUFFICES ASSUME check[ArrayIdx(low)]
                 PROVE  \E u \in Threads : at2[u] \in {"turn", "ready"} /\ ix[u] = low
      BY DEF Watched
    <2>1. low # high
      BY <1>3
    <2>2. PICK u \in Threads : at[u] \in {"turn", "ready"} /\ ix[u] = low
      BY <2>1 DEF Lane, Watched
    <2> QED
      BY <1>2, <2>2
  <1> QED
    BY <1>4, <1>5, <1>6, <1>7, <1>8 DEF Lane

(* It raises the flag of its cell.                                         *)
LEMMA LaneFlag ==
  ASSUME NEW low, NEW high, NEW check, NEW at, NEW ix, NEW check2, NEW at2,
         LaneType(low, high, check, at, ix), Lane(low, high, check, at, ix),
         NEW t \in Threads, at[t] = "claim",
         check2 = [check EXCEPT ![ArrayIdx(ix[t])] = TRUE],
         at2 = [at EXCEPT ![t] = "turn"]
  PROVE  Lane(low, high, check2, at2, ix)
PROOF
  <1> USE DEF LaneType, LaneStates, Owners
  <1>1. Between(low, high, ix[t])
    BY DEF Lane, Owned
  <1>2. at2[t] = "turn" /\ \A u \in Threads : u # t => at2[u] = at[u]
    OBVIOUS
  <1>3. /\ ArrayIdx(ix[t]) \in Cells /\ check2[ArrayIdx(ix[t])]
        /\ \A x \in Cells : x # ArrayIdx(ix[t]) => check2[x] = check[x]
    BY ArrayIdxIsCell
  <1>4. ASSUME NEW u \in Threads, at2[u] \in Owners PROVE ~ check2[ArrayIdx(ix[u])]
    <2>1. u # t /\ at[u] \in Owners /\ ix[u] # ix[t] /\ ~ check[ArrayIdx(ix[u])]
      BY <1>2, <1>4 DEF Lane, Owned
    <2>2. Between(low, high, ix[u])
      BY <2>1, BetweenPublish DEF Lane, Owned
    <2>3. ArrayIdx(ix[u]) # ArrayIdx(ix[t])
      BY <1>1, <2>1, <2>2, OneCellEach
    <2> QED
      BY <1>3, <2>1, <2>3, ArrayIdxIsCell
  <1>5. Owned(low, high, check2, at2, ix)
    BY <1>2, <1>4 DEF Lane, Owned
  <1>6. Overdue(low, high, at2, ix)
    BY <1>2 DEF Lane, Overdue
  <1>7. Flagged(low, high, check2)
    BY <1>1, <1>3 DEF Lane, Flagged
  <1>8. Covered(low, high, check2, at2, ix)
    <2> SUFFICES ASSUME NEW i \in Indices, Between(low, high, i), ~ check2[ArrayIdx(i)]
                 PROVE  \E u \in Threads : at2[u] \in Owners /\ ix[u] = i
      BY DEF Covered
    <2>1. ~ check[ArrayIdx(i)] /\ i # ix[t]
      BY <1>3, ArrayIdxIsCell
    <2>2. PICK u \in Threads : at[u] \in Owners /\ ix[u] = i
      BY <2>1 DEF Lane, Covered
    <2> QED
      BY <1>2, <2>1, <2>2
  <1>9. Watched(low, high, check2, at2, ix)
    <2> SUFFICES ASSUME low # high, check2[ArrayIdx(low)]
                 PROVE  \E u \in Threads : at2[u] \in {"turn", "ready"} /\ ix[u] = low
      BY DEF Watched
    <2>1. CASE ix[t] = low
      BY <1>2, <2>1
    <2>2. CASE ix[t] # low
      <3>1. ArrayIdx(ix[t]) # ArrayIdx(low)
        BY <1>1, <2>2, BetweenPublish, OneCellEach
      <3>2. check[ArrayIdx(low)]
        BY <1>3, <3>1, ArrayIdxIsCell
      <3>3. PICK u \in Threads : at[u] \in {"turn", "ready"} /\ ix[u] = low
        BY <3>2 DEF Lane, Watched
      <3> QED
        BY <1>2, <2>2, <3>3
    <2> QED
      BY <2>1, <2>2
  <1> QED
    BY <1>5, <1>6, <1>7, <1>8, <1>9 DEF Lane

(* It asks whether its ticket is the first, and leaves if it is not.       *)
LEMMA LaneTurn ==
  ASSUME NEW low, NEW high, NEW check, NEW at, NEW ix, NEW at2,
         LaneType(low, high, check, at, ix), Lane(low, high, check, at, ix),
         NEW t \in Threads, at[t] = "turn",
         at2 = [at EXCEPT ![t] = IF ix[t] = low THEN "ready" ELSE "out"]
  PROVE  Lane(low, high, check, at2, ix)
PROOF
  <1> USE DEF LaneType, LaneStates, Owners
  <1>1. /\ at2[t] = (IF ix[t] = low THEN "ready" ELSE "out")
        /\ \A u \in Threads : u # t => at2[u] = at[u]
    OBVIOUS
  <1>2. Owned(low, high, check, at2, ix)
    BY <1>1 DEF Lane, Owned
  <1>3. Overdue(low, high, at2, ix)
    BY <1>1, DistFacts DEF Lane, Overdue
  <1>4. Covered(low, high, check, at2, ix)
    BY <1>1 DEF Lane, Covered
  <1>5. Watched(low, high, check, at2, ix)
    BY <1>1 DEF Lane, Watched
  <1> QED
    BY <1>2, <1>3, <1>4, <1>5 DEF Lane

(* It finds the flag lowered and leaves.                                   *)
LEMMA LaneLeave ==
  ASSUME NEW low, NEW high, NEW check, NEW at, NEW ix, NEW at2,
         LaneType(low, high, check, at, ix), Lane(low, high, check, at, ix),
         NEW t \in Threads, at[t] = "ready", ~ check[ArrayIdx(ix[t])],
         at2 = [at EXCEPT ![t] = "out"]
  PROVE  Lane(low, high, check, at2, ix)
PROOF
  <1> USE DEF LaneType, LaneStates, Owners
  <1>1. at2[t] = "out" /\ \A u \in Threads : u # t => at2[u] = at[u]
    OBVIOUS
  <1>2. Owned(low, high, check, at2, ix)
    BY <1>1 DEF Lane, Owned
  <1>3. Overdue(low, high, at2, ix)
    BY <1>1 DEF Lane, Overdue
  <1>4. Covered(low, high, check, at2, ix)
    BY <1>1 DEF Lane, Covered
  <1>5. Watched(low, high, check, at2, ix)
    BY <1>1 DEF Lane, Watched
  <1> QED
    BY <1>2, <1>3, <1>4, <1>5 DEF Lane

(* It finds the flag raised and lowers it: its ticket is the first.        *)
LEMMA LaneLower ==
  ASSUME NEW low, NEW high, NEW check, NEW at, NEW ix, NEW check2, NEW at2,
         LaneType(low, high, check, at, ix), Lane(low, high, check, at, ix),
         InTime(high, at, ix),
         NEW t \in Threads, at[t] = "ready", check[ArrayIdx(ix[t])],
         check2 = [check EXCEPT ![ArrayIdx(ix[t])] = FALSE],
         at2 = [at EXCEPT ![t] = "publish"]
  PROVE  Lane(low, high, check2, at2, ix)
PROOF
  <1> USE DEF LaneType, LaneStates, Owners
  <1>1. PICK i \in Indices : Between(low, high, i) /\ ArrayIdx(i) = ArrayIdx(ix[t])
    BY ArrayIdxIsCell DEF Lane, Flagged
  <1>2. ix[t] = low /\ i = low
    BY <1>1, OverdueCell DEF Lane, Overdue, InTime
  <1>3. low # high /\ Between(low, high, low)
    BY <1>1, <1>2, DistFacts DEF Between
  <1>4. at2[t] = "publish" /\ \A u \in Threads : u # t => at2[u] = at[u]
    OBVIOUS
  <1>5. /\ ArrayIdx(low) \in Cells /\ ~ check2[ArrayIdx(low)] /\ check[ArrayIdx(low)]
        /\ \A x \in Cells : x # ArrayIdx(low) => check2[x] = check[x]
    BY <1>2, ArrayIdxIsCell
  <1>6. \A u \in Threads : at[u] \in Owners => ix[u] # low
    BY <1>5 DEF Lane, Owned
  <1>7. Owned(low, high, check2, at2, ix)
    <2>1. \A u \in Threads : at2[u] \in Owners => ~ check2[ArrayIdx(ix[u])]
      BY <1>2, <1>4, <1>5, ArrayIdxIsCell DEF Lane, Owned
    <2> QED
      BY <1>2, <1>3, <1>4, <1>6, <2>1 DEF Lane, Owned
  <1>8. Overdue(low, high, at2, ix)
    BY <1>4 DEF Lane, Overdue
  <1>9. Flagged(low, high, check2)
    BY <1>5 DEF Lane, Flagged
  <1>10. Covered(low, high, check2, at2, ix)
    <2> SUFFICES ASSUME NEW j \in Indices, Between(low, high, j), ~ check2[ArrayIdx(j)]
                 PROVE  \E u \in Threads : at2[u] \in Owners /\ ix[u] = j
      BY DEF Covered
    <2>1. CASE j = low
      BY <1>2, <1>4, <2>1
    <2>2. CASE j # low
      <3>1. ArrayIdx(j) # ArrayIdx(low)
        BY <1>3, <2>2, OneCellEach
      <3>2. ~ check[ArrayIdx(j)]
        BY <1>5, <3>1, ArrayIdxIsCell
      <3>3. PICK u \in Threads : at[u] \in Owners /\ ix[u] = j
        BY <3>2 DEF Lane, Covered
      <3> QED
        BY <1>4, <3>3
    <2> QED
      BY <2>1, <2>2
  <1>11. Watched(low, high, check2, at2, ix)
    BY <1>5 DEF Watched
  <1> QED
    BY <1>7, <1>8, <1>9, <1>10, <1>11 DEF Lane

(* It hands its ticket on and looks at the next one.                       *)
LEMMA LanePublish ==
  ASSUME NEW low, NEW high, NEW check, NEW at, NEW ix, NEW at2, NEW ix2,
         LaneType(low, high, check, at, ix), Lane(low, high, check, at, ix),
         NEW t \in Threads, at[t] = "publish",
         at2 = [at EXCEPT ![t] = "turn"],
         ix2 = [ix EXCEPT ![t] = Inc(ix[t])]
  PROVE  Lane(Inc(low), high, check, at2, ix2)
PROOF
  <1> USE DEF LaneType, LaneStates, Owners
  <1>1. ix[t] = low /\ low # high /\ ~ check[ArrayIdx(low)]
    BY DEF Lane, Owned
  <1>2. /\ at2[t] = "turn" /\ ix2[t] = Inc(low)
        /\ \A u \in Threads : u # t => at2[u] = at[u] /\ ix2[u] = ix[u]
    BY <1>1
  <1>3. \A i \in Indices : Between(Inc(low), high, i) <=> Between(low, high, i) /\ i # low
    BY <1>1, BetweenPublish
  <1>4. \A u \in Threads : u # t /\ at[u] \in Owners => ix[u] # low
    BY <1>1 DEF Lane, Owned
  <1>5. Owned(Inc(low), high, check, at2, ix2)
    <2>1. \A u \in Threads : at2[u] # "publish"
      BY <1>1, <1>2, <1>4 DEF Lane, Owned
    <2> QED
      BY <1>2, <1>3, <1>4, <2>1 DEF Lane, Owned
  <1>6. Overdue(Inc(low), high, at2, ix2)
    <2> SUFFICES ASSUME NEW u \in Threads, at2[u] = "ready"
                 PROVE  Dist(ix2[u], Inc(low)) <= Dist(ix2[u], high)
      BY DEF Overdue
    <2>1. /\ ix2[u] = ix[u] /\ ix[u] \in Indices /\ Dist(ix[u], low) <= Dist(ix[u], high)
      BY <1>2 DEF Lane, Overdue
    <2>2. /\ Dist(ix[u], low) \in Nat /\ Dist(ix[u], high) \in Nat
          /\ Dist(ix[u], high) < IndexMod /\ Dist(ix[u], low) # Dist(ix[u], high)
      BY <1>1, <2>1, DistFacts, DistAdds
    <2>3. Dist(ix[u], Inc(low)) = Dist(ix[u], low) + 1
      BY <2>1, <2>2, DistFacts, SizeFacts
    <2> QED
      BY <2>1, <2>2, <2>3
  <1>7. Flagged(Inc(low), high, check)
    BY <1>1, <1>3 DEF Lane, Flagged
  <1>8. Covered(Inc(low), high, check, at2, ix2)
    <2> SUFFICES ASSUME NEW i \in Indices, Between(Inc(low), high, i), ~ check[ArrayIdx(i)]
                 PROVE  \E u \in Threads : at2[u] \in Owners /\ ix2[u] = i
      BY DEF Covered
    <2>1. PICK u \in Threads : at[u] \in Owners /\ ix[u] = i
      BY <1>3 DEF Lane, Covered
    <2> QED
      BY <1>1, <1>2, <1>3, <2>1
  <1>9. Watched(Inc(low), high, check, at2, ix2)
    BY <1>2 DEF Watched
  <1> QED
    BY <1>1, <1>5, <1>6, <1>7, <1>8, <1>9 DEF Lane

-------------------------------------------------------------------------------
(* The two lanes of the queue.                                             *)
PushPlace(label) ==
  CASE label \in {"push_store", "push_flag"} -> "claim"
    [] label = "push_turn"    -> "turn"
    [] label = "push_ready"   -> "ready"
    [] label = "push_publish" -> "publish"
    [] OTHER -> "out"

PopPlace(label) ==
  CASE label \in {"pop_take", "pop_flag"} -> "claim"
    [] label = "pop_turn"    -> "turn"
    [] label = "pop_ready"   -> "ready"
    [] label = "pop_publish" -> "publish"
    [] OTHER -> "out"

PushAt == [t \in Threads |-> PushPlace(pc[t])]
PopAt  == [t \in Threads |-> PopPlace(pc[t])]

PushLane == Lane(tail_read, tail_write, check_write, PushAt, idx)
PopLane  == Lane(head_write, head_read, check_read, PopAt, idx)

RingInv ==
  Dist(head_write, head_read) + Dist(head_read, tail_read) + Dist(tail_read, tail_write)
    <= Size

(* A call whose CAS will succeed has a free cell, or an item to take.      *)
RoomInv ==
  \A t \in Threads :
    /\ pc[t] = "push_reserve" /\ idx[t] = tail_write => Dist(head_write, tail_write) < Size
    /\ pc[t] = "pop_reserve" /\ idx[t] = head_read => head_read # tail_read

QueueInv == TypeOK /\ RingInv /\ RoomInv /\ PushLane /\ PopLane

(***************************************************************************)
(* The hypothesis of what follows. Between two accesses of one call that   *)
(* belong together the others may not go too far: while a call stands in   *)
(* front of a flag its cell is not taken by a later ticket (the next Size  *)
(* tickets are all right), and while it stands in front of its CAS the     *)
(* counter does not come back to the value it has loaded (2^64 tickets).   *)
(* Run queue_reuse shows what happens without the first part.              *)
(***************************************************************************)
NotOvertaken ==
  \A t \in Threads :
    /\ pc[t] = "push_ready"   => Dist(idx[t], tail_write) <= Size
    /\ pc[t] = "pop_ready"    => Dist(idx[t], head_read) <= Size
    /\ pc[t] = "push_reserve" => idx[t] # Inc(tail_write)
    /\ pc[t] = "pop_reserve"  => idx[t] # Inc(head_read)

(* The counters are where RingInv has them.                                *)
LEMMA RingFacts ==
  ASSUME TypeOK, RingInv
  PROVE  /\ head_read \in Indices /\ head_write \in Indices
         /\ tail_read \in Indices /\ tail_write \in Indices
         /\ Dist(head_write, head_read) \in Nat
         /\ Dist(head_read, tail_read) \in Nat
         /\ Dist(tail_read, tail_write) \in Nat
         /\ Dist(head_write, tail_read) =
              Dist(head_write, head_read) + Dist(head_read, tail_read)
         /\ Dist(head_write, tail_write) =
              Dist(head_write, tail_read) + Dist(tail_read, tail_write)
         /\ Dist(tail_read, tail_write) = 0 <=> tail_read = tail_write
         /\ Dist(head_read, tail_read) = 0 <=> head_read = tail_read
PROOF
  <1>1. /\ head_read \in Indices /\ head_write \in Indices
        /\ tail_read \in Indices /\ tail_write \in Indices
    BY DEF TypeOK
  <1>2. /\ Dist(head_write, head_read) \in Nat
        /\ Dist(head_read, tail_read) \in Nat
        /\ Dist(tail_read, tail_write) \in Nat
        /\ Dist(tail_read, tail_write) = 0 <=> tail_read = tail_write
        /\ Dist(head_read, tail_read) = 0 <=> head_read = tail_read
    BY <1>1, DistFacts
  <1>3. Dist(head_write, tail_read) = Dist(head_write, head_read) + Dist(head_read, tail_read)
    BY <1>1, <1>2, DistAdds, SizeFacts DEF RingInv
  <1>4. Dist(head_write, tail_write) = Dist(head_write, tail_read) + Dist(tail_read, tail_write)
    BY <1>1, <1>2, <1>3, DistAdds, SizeFacts DEF RingInv
  <1> QED
    BY <1>1, <1>2, <1>3, <1>4

LEMMA LanesTyped ==
  ASSUME TypeOK, RingInv
  PROVE  /\ LaneType(tail_read, tail_write, check_write, PushAt, idx)
         /\ LaneType(head_write, head_read, check_read, PopAt, idx)
PROOF
  <1>1. Dist(tail_read, tail_write) <= Size /\ Dist(head_write, head_read) <= Size
    BY RingFacts, SizeFacts DEF RingInv
  <1>2. PushAt \in [Threads -> LaneStates] /\ PopAt \in [Threads -> LaneStates]
    BY DEF PushAt, PopAt, PushPlace, PopPlace, LaneStates
  <1> QED
    BY <1>1, <1>2, RingFacts DEF LaneType, TypeOK

(* One call moves.                                                         *)
LEMMA LanesMove ==
  ASSUME TypeOK, NEW t \in Threads, NEW label, pc' = [pc EXCEPT ![t] = label]
  PROVE  /\ PushAt' = [PushAt EXCEPT ![t] = PushPlace(label)]
         /\ PopAt'  = [PopAt EXCEPT ![t] = PopPlace(label)]
         /\ PushAt[t] = PushPlace(pc[t]) /\ PopAt[t] = PopPlace(pc[t])
PROOF
  BY DEF TypeOK, PushAt, PopAt

(* A call that is not in a lane leaves it alone.                           *)
LEMMA PushLaneKept ==
  ASSUME TypeOK, RingInv, PushLane, NEW t \in Threads, NEW label,
         pc' = [pc EXCEPT ![t] = label],
         PushPlace(pc[t]) = "out", PushPlace(label) = "out",
         UNCHANGED <<tail_read, tail_write, check_write>>,
         \A u \in Threads : u # t => idx'[u] = idx[u]
  PROVE  PushLane'
PROOF
  <1>1. PushAt[t] = "out" /\ PushAt' = PushAt
    BY LanesMove DEF PushAt
  <1>2. Lane(tail_read, tail_write, check_write, PushAt', idx')
    BY <1>1, LanesTyped, LaneOutside DEF PushLane
  <1> QED
    BY <1>2 DEF PushLane

LEMMA PopLaneKept ==
  ASSUME TypeOK, RingInv, PopLane, NEW t \in Threads, NEW label,
         pc' = [pc EXCEPT ![t] = label],
         PopPlace(pc[t]) = "out", PopPlace(label) = "out",
         UNCHANGED <<head_write, head_read, check_read>>,
         \A u \in Threads : u # t => idx'[u] = idx[u]
  PROVE  PopLane'
PROOF
  <1>1. PopAt[t] = "out" /\ PopAt' = PopAt
    BY LanesMove DEF PopAt
  <1>2. Lane(head_write, head_read, check_read, PopAt', idx')
    BY <1>1, LanesTyped, LaneOutside DEF PopLane
  <1> QED
    BY <1>2 DEF PopLane

(* The calls are never late in front of a flag.                            *)
LEMMA LanesInTime ==
  ASSUME NotOvertaken
  PROVE  InTime(tail_write, PushAt, idx) /\ InTime(head_read, PopAt, idx)
PROOF
  BY DEF NotOvertaken, InTime, PushAt, PopAt, PushPlace, PopPlace

LEMMA QueueInvInit == Init => QueueInv
PROOF
  <1> SUFFICES ASSUME Init PROVE QueueInv
    OBVIOUS
  <1>1. 0 \in Indices /\ Dist(0, 0) = 0 /\ \A i \in Indices : ~ Between(0, 0, i)
    BY DistNext, DistFacts, SizeFacts DEF Indices, Between
  <1>2. RingInv /\ RoomInv
    BY <1>1, SizeFacts DEF Init, RingInv, RoomInv
  <1>3. \A t \in Threads : PushAt[t] = "out" /\ PopAt[t] = "out"
    BY DEF Init, PushAt, PopAt, PushPlace, PopPlace
  <1>4. PushLane
    BY <1>1, <1>3
    DEF Init, PushLane, Lane, Owned, Overdue, Flagged, Covered, Watched, Owners
  <1>5. PopLane
    BY <1>1, <1>3
    DEF Init, PopLane, Lane, Owned, Overdue, Flagged, Covered, Watched, Owners
  <1> QED
    BY <1>2, <1>4, <1>5, TypeOKInit DEF QueueInv

(* The steps of push.                                                      *)
LEMMA PushSide ==
  ASSUME QueueInv, NotOvertaken, TypeOK', NEW t \in Threads,
         PushStep(t) \/ \E v \in Values : PushLoad(t, v)
  PROVE  QueueInv'
PROOF
  <1>1. TypeOK /\ RingInv /\ RoomInv /\ PushLane /\ PopLane
    BY DEF QueueInv
  <1>2. /\ pc \in [Threads -> {"idle"} \cup PushPcs \cup PopPcs]
        /\ idx \in [Threads -> Indices]
        /\ Dist(head_write, tail_write) \in Nat
    BY <1>1, DistFacts, RingFacts DEF TypeOK
  <1>3. /\ UNCHANGED <<head_read, head_write, check_read>>
        /\ pc' = [pc EXCEPT ![t] = pc'[t]]
        /\ pc[t] \in {"idle"} \cup PushPcs /\ pc'[t] \in {"idle"} \cup PushPcs
        /\ \A u \in Threads : u # t => idx'[u] = idx[u] /\ pc'[u] = pc[u]
    BY <1>2
    DEF PushStep, PushLoad, PushCheck, PushReserve, PushRetry, PushStore, PushFlag, PushTurn,
        PushReady, PushPublish, Goto, Return, head, tail, PushPcs
  <1>4. PopLane'
    <2>1. PopPlace(pc[t]) = "out" /\ PopPlace(pc'[t]) = "out"
      BY <1>3 DEF PopPlace, PushPcs
    <2> QED
      BY <1>1, <1>3, <2>1, PopLaneKept
  <1>5. QueueInv' <=> RingInv' /\ RoomInv' /\ PushLane'
    BY <1>4 DEF QueueInv
  <1>6. ASSUME UNCHANGED <<tail_read, tail_write>>,
               pc'[t] = "push_reserve" /\ idx'[t] = tail_write =>
                 Dist(head_write, tail_write) < Size
        PROVE  RingInv' /\ RoomInv'
    <2>1. RingInv'
      BY <1>1, <1>3, <1>6 DEF RingInv
    <2>2. RoomInv'
      BY <1>1, <1>3, <1>6 DEF RoomInv, PushPcs
    <2> QED
      BY <2>1, <2>2
  <1> USE <1>1, <1>2, <1>3 DEF head, tail, Goto, Return
  <1>7. ASSUME PushPlace(pc[t]) = "out", PushPlace(pc'[t]) = "out",
               UNCHANGED <<tail_read, tail_write, check_write>>
        PROVE  PushLane'
    BY <1>7, PushLaneKept
  <1>8. /\ PushAt' = [PushAt EXCEPT ![t] = PushPlace(pc'[t])]
        /\ PushAt[t] = PushPlace(pc[t])
    BY LanesMove
  <1>9. /\ LaneType(tail_read, tail_write, check_write, PushAt, idx)
        /\ Lane(tail_read, tail_write, check_write, PushAt, idx)
        /\ InTime(tail_write, PushAt, idx)
    BY LanesTyped, LanesInTime DEF PushLane
  <1>11. CASE \E v \in Values : PushLoad(t, v)
    BY <1>5, <1>6, <1>7, <1>11 DEF PushLoad, PushPlace
  <1>12. CASE PushCheck(t)
    <2>1. ASSUME pc'[t] = "push_reserve", idx'[t] = tail_write
          PROVE  Dist(head_write, tail_write) < Size
      <3>1. ~ IsFull(head_write, tail_write)
        BY <1>12, <2>1 DEF PushCheck
      <3>2. Dist(head_write, tail_write) <= Size
        BY RingFacts DEF RingInv
      <3> QED
        BY <3>1, <3>2, FullIsSize, RingFacts, SizeFacts
    <2> QED
      BY <1>5, <1>6, <1>7, <1>12, <2>1 DEF PushCheck, PushPlace
  <1>13. CASE PushReserve(t)
    <2>1. /\ idx[t] = tail_write /\ tail_write' = Inc(tail_write)
          /\ UNCHANGED <<tail_read, check_write, idx>>
          /\ pc[t] = "push_reserve" /\ pc'[t] = "push_store"
      BY <1>13 DEF PushReserve
    <2>2. Dist(head_write, tail_write) < Size
      BY <2>1 DEF RoomInv
    <2>3. Dist(tail_read, tail_write) < Size
      BY <2>2, RingFacts, SizeFacts
    <2>4. Dist(tail_read, tail_write') = Dist(tail_read, tail_write) + 1
      BY <2>1, <2>3, BetweenEnter, RingFacts
    <2>5. RingInv'
      BY <2>1, <2>2, <2>4, RingFacts, SizeFacts DEF RingInv
    <2>6. RoomInv'
      BY <2>1 DEF RoomInv, NotOvertaken
    <2>7. PushAt[t] = "out" /\ PushAt' = [PushAt EXCEPT ![t] = "claim"]
      BY <1>8, <2>1 DEF PushPlace
    <2>8. Lane(tail_read, Inc(tail_write), check_write, PushAt', idx)
      BY <1>9, <2>1, <2>3, <2>7, LaneEnter
    <2> QED
      BY <1>5, <2>1, <2>5, <2>6, <2>8 DEF PushLane
  <1>14. CASE PushRetry(t)
    BY <1>5, <1>6, <1>7, <1>14 DEF PushRetry, PushPlace
  <1>15. CASE PushStore(t)
    <2>1. PushAt' = PushAt /\ UNCHANGED <<tail_read, tail_write, check_write, idx>>
      BY <1>15 DEF PushStore, PushAt, PushPlace
    <2>2. PushLane'
      BY <2>1 DEF PushLane
    <2> QED
      BY <1>5, <1>6, <1>15, <2>2 DEF PushStore
  <1>16. CASE PushFlag(t)
    <2>1. /\ UNCHANGED <<tail_read, tail_write, idx>>
          /\ check_write' = [check_write EXCEPT ![ArrayIdx(idx[t])] = TRUE]
          /\ pc[t] = "push_flag" /\ pc'[t] = "push_turn"
      BY <1>16 DEF PushFlag
    <2>2. PushAt[t] = "claim" /\ PushAt' = [PushAt EXCEPT ![t] = "turn"]
      BY <1>8, <2>1 DEF PushPlace
    <2>3. Lane(tail_read, tail_write, check_write', PushAt', idx)
      BY <1>9, <2>1, <2>2, LaneFlag
    <2> QED
      BY <1>5, <1>6, <2>1, <2>3 DEF PushLane
  <1>17. CASE PushTurn(t)
    <2>1. /\ UNCHANGED <<tail_read, tail_write, check_write, idx>>
          /\ pc[t] = "push_turn"
          /\ pc'[t] = IF idx[t] = tail_read THEN "push_ready" ELSE "idle"
      BY <1>17 DEF PushTurn
    <2>2. /\ PushAt[t] = "turn"
          /\ PushAt' = [PushAt EXCEPT ![t] = IF idx[t] = tail_read THEN "ready" ELSE "out"]
      BY <1>8, <2>1 DEF PushPlace
    <2>3. Lane(tail_read, tail_write, check_write, PushAt', idx)
      BY <1>9, <2>2, LaneTurn
    <2> QED
      BY <1>5, <1>6, <2>1, <2>3 DEF PushLane
  <1>18. CASE PushReady(t)
    <2>1. UNCHANGED <<tail_read, tail_write, idx>> /\ pc[t] = "push_ready"
      BY <1>18 DEF PushReady
    <2>2. PushAt[t] = "ready"
      BY <1>8, <2>1 DEF PushPlace
    <2>3. CASE check_write[ArrayIdx(idx[t])]
      <3>1. /\ check_write' = [check_write EXCEPT ![ArrayIdx(idx[t])] = FALSE]
            /\ pc'[t] = "push_publish"
        BY <1>18, <2>3 DEF PushReady
      <3>2. PushAt' = [PushAt EXCEPT ![t] = "publish"]
        BY <1>8, <3>1 DEF PushPlace
      <3>3. Lane(tail_read, tail_write, check_write', PushAt', idx)
        BY <1>9, <2>2, <2>3, <3>1, <3>2, LaneLower
      <3> QED
        BY <1>5, <1>6, <2>1, <3>1, <3>3 DEF PushLane
    <2>4. CASE ~ check_write[ArrayIdx(idx[t])]
      <3>1. check_write' = check_write /\ pc'[t] = "idle"
        BY <1>18, <2>4 DEF PushReady
      <3>2. PushAt' = [PushAt EXCEPT ![t] = "out"]
        BY <1>8, <3>1 DEF PushPlace
      <3>3. Lane(tail_read, tail_write, check_write, PushAt', idx)
        BY <1>9, <2>2, <2>4, <3>2, LaneLeave
      <3> QED
        BY <1>5, <1>6, <2>1, <3>1, <3>3 DEF PushLane
    <2> QED
      BY <2>3, <2>4
  <1>19. CASE PushPublish(t)
    <2>1. /\ tail_read' = Inc(tail_read) /\ UNCHANGED <<tail_write, check_write>>
          /\ idx' = [idx EXCEPT ![t] = Inc(idx[t])]
          /\ pc[t] = "push_publish" /\ pc'[t] = "push_turn"
      BY <1>19 DEF PushPublish
    <2>2. PushAt[t] = "publish" /\ PushAt' = [PushAt EXCEPT ![t] = "turn"]
      BY <1>8, <2>1 DEF PushPlace
    <2>3. tail_read # tail_write
      BY <1>9, <2>2 DEF Lane, Owned
    <2>4. Lane(Inc(tail_read), tail_write, check_write, PushAt', idx')
      BY <1>9, <2>1, <2>2, LanePublish
    <2>5. Dist(tail_read', tail_write) = Dist(tail_read, tail_write) - 1
      BY <2>1, <2>3, BetweenPublish, RingFacts
    <2>6. Dist(head_read, tail_read) < Size
      BY <2>3, RingFacts, SizeFacts DEF RingInv
    <2>7. Dist(head_read, tail_read') = Dist(head_read, tail_read) + 1
      BY <2>1, <2>6, BetweenEnter, RingFacts
    <2>8. RingInv'
      BY <2>1, <2>5, <2>7, RingFacts, SizeFacts DEF RingInv
    <2>9. head_read # tail_read'
      BY <2>1, <2>7, RingFacts, DistNext
    <2>10. RoomInv'
      BY <2>1, <2>9 DEF RoomInv, PushPcs
    <2> QED
      BY <1>5, <2>1, <2>8, <2>10, <2>4 DEF PushLane
  <1> QED
    BY <1>11, <1>12, <1>13, <1>14, <1>15, <1>16, <1>17, <1>18, <1>19 DEF PushStep

(* The steps of pop.                                                       *)
LEMMA PopSide ==
  ASSUME QueueInv, NotOvertaken, TypeOK', NEW t \in Threads, PopStep(t) \/ PopLoad(t)
  PROVE  QueueInv'
PROOF
  <1>1. TypeOK /\ RingInv /\ RoomInv /\ PushLane /\ PopLane
    BY DEF QueueInv
  <1>2. /\ pc \in [Threads -> {"idle"} \cup PushPcs \cup PopPcs]
        /\ idx \in [Threads -> Indices]
        /\ Dist(head_write, tail_write) \in Nat
    BY <1>1, DistFacts, RingFacts DEF TypeOK
  <1>3. /\ UNCHANGED <<tail_read, tail_write, check_write>>
        /\ pc' = [pc EXCEPT ![t] = pc'[t]]
        /\ pc[t] \in {"idle"} \cup PopPcs /\ pc'[t] \in {"idle"} \cup PopPcs
        /\ \A u \in Threads : u # t => idx'[u] = idx[u] /\ pc'[u] = pc[u]
    BY <1>2
    DEF PopStep, PopLoad, PopCheck, PopReserve, PopRetry, PopTake, PopFlag, PopTurn,
        PopReady, PopPublish, Goto, Return, head, tail, PopPcs
  <1>4. PushLane'
    <2>1. PushPlace(pc[t]) = "out" /\ PushPlace(pc'[t]) = "out"
      BY <1>3 DEF PushPlace, PopPcs
    <2> QED
      BY <1>1, <1>3, <2>1, PushLaneKept
  <1>5. QueueInv' <=> RingInv' /\ RoomInv' /\ PopLane'
    BY <1>4 DEF QueueInv
  <1>6. ASSUME UNCHANGED <<head_read, head_write>>,
               pc'[t] = "pop_reserve" /\ idx'[t] = head_read => head_read # tail_read
        PROVE  RingInv' /\ RoomInv'
    <2>1. RingInv'
      BY <1>1, <1>3, <1>6 DEF RingInv
    <2>2. RoomInv'
      BY <1>1, <1>3, <1>6 DEF RoomInv, PopPcs
    <2> QED
      BY <2>1, <2>2
  <1> USE <1>1, <1>2, <1>3 DEF head, tail, Goto, Return
  <1>7. ASSUME PopPlace(pc[t]) = "out", PopPlace(pc'[t]) = "out",
               UNCHANGED <<head_read, head_write, check_read>>
        PROVE  PopLane'
    BY <1>7, PopLaneKept
  <1>8. /\ PopAt' = [PopAt EXCEPT ![t] = PopPlace(pc'[t])]
        /\ PopAt[t] = PopPlace(pc[t])
    BY LanesMove
  <1>9. /\ LaneType(head_write, head_read, check_read, PopAt, idx)
        /\ Lane(head_write, head_read, check_read, PopAt, idx)
        /\ InTime(head_read, PopAt, idx)
    BY LanesTyped, LanesInTime DEF PopLane
  <1>11. CASE PopLoad(t)
    BY <1>5, <1>6, <1>7, <1>11 DEF PopLoad, PopPlace
  <1>12. CASE PopCheck(t)
    <2>1. ASSUME pc'[t] = "pop_reserve", idx'[t] = head_read PROVE head_read # tail_read
      BY <1>12, <2>1 DEF PopCheck, IsEmpty
    <2> QED
      BY <1>5, <1>6, <1>7, <1>12, <2>1 DEF PopCheck, PopPlace
  <1>13. CASE PopReserve(t)
    <2>1. /\ idx[t] = head_read /\ head_read' = Inc(head_read)
          /\ UNCHANGED <<head_write, check_read, idx>>
          /\ pc[t] = "pop_reserve" /\ pc'[t] = "pop_take"
      BY <1>13 DEF PopReserve
    <2>2. head_read # tail_read
      BY <2>1 DEF RoomInv
    <2>3. Dist(head_write, head_read) < Size
      BY <2>2, RingFacts, SizeFacts DEF RingInv
    <2>4. Dist(head_write, head_read') = Dist(head_write, head_read) + 1
      BY <2>1, <2>3, BetweenEnter, RingFacts
    <2>5. Dist(head_read', tail_read) = Dist(head_read, tail_read) - 1
      BY <2>1, <2>2, BetweenPublish, RingFacts
    <2>6. RingInv'
      BY <2>1, <2>4, <2>5, RingFacts, SizeFacts DEF RingInv
    <2>7. RoomInv'
      BY <2>1 DEF RoomInv, NotOvertaken
    <2>8. PopAt[t] = "out" /\ PopAt' = [PopAt EXCEPT ![t] = "claim"]
      BY <1>8, <2>1 DEF PopPlace
    <2>9. Lane(head_write, Inc(head_read), check_read, PopAt', idx)
      BY <1>9, <2>1, <2>3, <2>8, LaneEnter
    <2> QED
      BY <1>5, <2>1, <2>6, <2>7, <2>9 DEF PopLane
  <1>14. CASE PopRetry(t)
    BY <1>5, <1>6, <1>7, <1>14 DEF PopRetry, PopPlace
  <1>15. CASE PopTake(t)
    <2>1. PopAt' = PopAt /\ UNCHANGED <<head_read, head_write, check_read, idx>>
      BY <1>15 DEF PopTake, PopAt, PopPlace
    <2>2. PopLane'
      BY <2>1 DEF PopLane
    <2> QED
      BY <1>5, <1>6, <1>15, <2>2 DEF PopTake
  <1>16. CASE PopFlag(t)
    <2>1. /\ UNCHANGED <<head_read, head_write, idx>>
          /\ check_read' = [check_read EXCEPT ![ArrayIdx(idx[t])] = TRUE]
          /\ pc[t] = "pop_flag" /\ pc'[t] = "pop_turn"
      BY <1>16 DEF PopFlag
    <2>2. PopAt[t] = "claim" /\ PopAt' = [PopAt EXCEPT ![t] = "turn"]
      BY <1>8, <2>1 DEF PopPlace
    <2>3. Lane(head_write, head_read, check_read', PopAt', idx)
      BY <1>9, <2>1, <2>2, LaneFlag
    <2> QED
      BY <1>5, <1>6, <2>1, <2>3 DEF PopLane
  <1>17. CASE PopTurn(t)
    <2>1. /\ UNCHANGED <<head_read, head_write, check_read, idx>>
          /\ pc[t] = "pop_turn"
          /\ pc'[t] = IF idx[t] = head_write THEN "pop_ready" ELSE "idle"
      BY <1>17 DEF PopTurn
    <2>2. /\ PopAt[t] = "turn"
          /\ PopAt' = [PopAt EXCEPT ![t] = IF idx[t] = head_write THEN "ready" ELSE "out"]
      BY <1>8, <2>1 DEF PopPlace
    <2>3. Lane(head_write, head_read, check_read, PopAt', idx)
      BY <1>9, <2>2, LaneTurn
    <2> QED
      BY <1>5, <1>6, <2>1, <2>3 DEF PopLane
  <1>18. CASE PopReady(t)
    <2>1. UNCHANGED <<head_read, head_write, idx>> /\ pc[t] = "pop_ready"
      BY <1>18 DEF PopReady
    <2>2. PopAt[t] = "ready"
      BY <1>8, <2>1 DEF PopPlace
    <2>3. CASE check_read[ArrayIdx(idx[t])]
      <3>1. /\ check_read' = [check_read EXCEPT ![ArrayIdx(idx[t])] = FALSE]
            /\ pc'[t] = "pop_publish"
        BY <1>18, <2>3 DEF PopReady
      <3>2. PopAt' = [PopAt EXCEPT ![t] = "publish"]
        BY <1>8, <3>1 DEF PopPlace
      <3>3. Lane(head_write, head_read, check_read', PopAt', idx)
        BY <1>9, <2>2, <2>3, <3>1, <3>2, LaneLower
      <3> QED
        BY <1>5, <1>6, <2>1, <3>1, <3>3 DEF PopLane
    <2>4. CASE ~ check_read[ArrayIdx(idx[t])]
      <3>1. check_read' = check_read /\ pc'[t] = "idle"
        BY <1>18, <2>4 DEF PopReady
      <3>2. PopAt' = [PopAt EXCEPT ![t] = "out"]
        BY <1>8, <3>1 DEF PopPlace
      <3>3. Lane(head_write, head_read, check_read, PopAt', idx)
        BY <1>9, <2>2, <2>4, <3>2, LaneLeave
      <3> QED
        BY <1>5, <1>6, <2>1, <3>1, <3>3 DEF PopLane
    <2> QED
      BY <2>3, <2>4
  <1>19. CASE PopPublish(t)
    <2>1. /\ head_write' = Inc(head_write) /\ UNCHANGED <<head_read, check_read>>
          /\ idx' = [idx EXCEPT ![t] = Inc(idx[t])]
          /\ pc[t] = "pop_publish" /\ pc'[t] = "pop_turn"
      BY <1>19 DEF PopPublish
    <2>2. PopAt[t] = "publish" /\ PopAt' = [PopAt EXCEPT ![t] = "turn"]
      BY <1>8, <2>1 DEF PopPlace
    <2>3. head_write # head_read
      BY <1>9, <2>2 DEF Lane, Owned
    <2>4. Lane(Inc(head_write), head_read, check_read, PopAt', idx')
      BY <1>9, <2>1, <2>2, LanePublish
    <2>5. Dist(head_write', head_read) = Dist(head_write, head_read) - 1
      BY <2>1, <2>3, BetweenPublish, RingFacts
    <2>6. RingInv'
      BY <2>1, <2>5, RingFacts, SizeFacts DEF RingInv
    <2>7. Dist(head_write, head_read) > 0
      BY <2>3, DistFacts, RingFacts
    <2>8. head_write # tail_write
      BY <2>7, RingFacts, DistNext
    <2>9. Dist(head_write', tail_write) = Dist(head_write, tail_write) - 1
      BY <2>1, <2>8, BetweenPublish, RingFacts
    <2>10. RoomInv'
      BY <2>1, <2>9, SizeFacts DEF RoomInv, PopPcs
    <2> QED
      BY <1>5, <2>1, <2>4, <2>6, <2>10 DEF PopLane
  <1> QED
    BY <1>11, <1>12, <1>13, <1>14, <1>15, <1>16, <1>17, <1>18, <1>19 DEF PopStep

LEMMA QueueInvStep == QueueInv /\ NotOvertaken /\ [Next]_vars => QueueInv'
PROOF
  <1> SUFFICES ASSUME QueueInv, NotOvertaken, [Next]_vars PROVE QueueInv'
    OBVIOUS
  <1>1. TypeOK'
    BY TypeOKStep DEF QueueInv
  <1>2. CASE Next
    BY <1>1, <1>2, PushSide, PopSide DEF Next, Threads
  <1>3. CASE UNCHANGED vars
    <2>1. RingInv' /\ RoomInv' /\ PushLane' /\ PopLane'
      BY <1>3 DEF vars, QueueInv, RingInv, RoomInv, PushLane, PopLane, PushAt, PopAt
    <2> QED
      BY <1>1, <2>1 DEF QueueInv
  <1> QED
    BY <1>2, <1>3

(* As long as no call is overtaken the invariant holds.                    *)
THEOREM QueueInvAlways == Spec /\ []NotOvertaken => []QueueInv
PROOF
  BY QueueInvInit, QueueInvStep, PTL DEF Spec

-------------------------------------------------------------------------------
(* The properties, for any number of producers and consumers.              *)

(* Any two tickets between head_write_ and tail_write_ have two cells.     *)
LEMMA RingApart ==
  ASSUME TypeOK, RingInv,
         NEW i \in Indices, NEW j \in Indices,
         Between(head_write, head_read, i), Between(tail_read, tail_write, j)
  PROVE  ArrayIdx(i) # ArrayIdx(j)
PROOF
  <1>1. /\ Dist(head_write, i) \in Nat /\ Dist(tail_read, j) \in Nat
        /\ Dist(head_write, head_read) \in Nat /\ Dist(tail_read, tail_write) \in Nat
        /\ Dist(head_read, tail_read) \in Nat /\ Dist(head_write, tail_write) <= Size
        /\ head_write \in Indices /\ tail_read \in Indices /\ tail_write \in Indices
    BY RingFacts, DistFacts DEF RingInv
  <1>2. Dist(head_write, i) < Dist(head_write, tail_read)
    BY <1>1, RingFacts DEF Between
  <1>3. Dist(head_write, tail_read) + Dist(tail_read, j) < Dist(head_write, tail_write)
    BY <1>1, RingFacts DEF Between
  <1>4. Dist(head_write, j) = Dist(head_write, tail_read) + Dist(tail_read, j)
    BY <1>1, <1>3, DistFacts, DistAdds, SizeFacts
  <1>5. Between(head_write, tail_write, i) /\ Between(head_write, tail_write, j) /\ i # j
    BY <1>1, <1>2, <1>3, <1>4, RingFacts DEF Between
  <1> QED
    BY <1>1, <1>5, OneCellEach

(* No two calls are ever inside accesses to one cell of data_.             *)
THEOREM QueueCellExclusive == Spec /\ []NotOvertaken => []CellExclusive
PROOF
  <1>1. QueueInv => CellExclusive
    <2> SUFFICES ASSUME QueueInv, NEW t \in Threads, NEW u \in Threads, t # u,
                        {pc[t], pc[u]} \subseteq {"push_store", "pop_take"}
                 PROVE  ArrayIdx(idx[t]) # ArrayIdx(idx[u])
      BY DEF CellExclusive
    <2>1. TypeOK /\ RingInv /\ PushLane /\ PopLane
      BY DEF QueueInv
    <2>2. /\ LaneType(tail_read, tail_write, check_write, PushAt, idx)
          /\ LaneType(head_write, head_read, check_read, PopAt, idx)
          /\ Owned(tail_read, tail_write, check_write, PushAt, idx)
          /\ Owned(head_write, head_read, check_read, PopAt, idx)
      BY <2>1, LanesTyped DEF PushLane, PopLane, Lane
    <2>3. \A x \in {t, u} : /\ pc[x] = "push_store" => PushAt[x] = "claim"
                            /\ pc[x] = "pop_take" => PopAt[x] = "claim"
      BY DEF PushAt, PopAt, PushPlace, PopPlace
    <2>4. \A x \in {t, u} :
            /\ idx[x] \in Indices
            /\ pc[x] = "push_store" => Between(tail_read, tail_write, idx[x])
            /\ pc[x] = "pop_take" => Between(head_write, head_read, idx[x])
      BY <2>2, <2>3 DEF Owned, LaneType
    <2>5. CASE pc[t] = "push_store" /\ pc[u] = "push_store"
      <3>1. idx[t] # idx[u]
        BY <2>2, <2>3, <2>5 DEF Owned, Owners
      <3> QED
        BY <2>2, <2>4, <2>5, <3>1, OneCellEach DEF LaneType
    <2>6. CASE pc[t] = "pop_take" /\ pc[u] = "pop_take"
      <3>1. idx[t] # idx[u]
        BY <2>2, <2>3, <2>6 DEF Owned, Owners
      <3> QED
        BY <2>2, <2>4, <2>6, <3>1, OneCellEach DEF LaneType
    <2>7. CASE pc[t] # pc[u]
      BY <2>1, <2>4, <2>7, RingApart
    <2> QED
      BY <2>5, <2>6, <2>7
  <1> QED
    BY <1>1, QueueInvAlways, PTL

(* Between two pushes no item is left where no pop finds it (tail_read_).  *)
THEOREM QueueNoStrandedItem == Spec /\ []NotOvertaken => []NoStrandedItem
PROOF
  <1>1. QueueInv => NoStrandedItem
    <2> SUFFICES ASSUME QueueInv, \A t \in Threads : pc[t] \notin PushPcs,
                        tail_read # tail_write
                 PROVE  FALSE
      BY DEF NoStrandedItem
    <2>1. TypeOK /\ RingInv /\ Lane(tail_read, tail_write, check_write, PushAt, idx)
      BY DEF QueueInv, PushLane
    <2>2. \A t \in Threads : PushAt[t] = "out"
      BY DEF PushAt, PushPlace, PushPcs
    <2>3. Between(tail_read, tail_write, tail_read)
      BY <2>1, RingFacts, BetweenPublish
    <2>4. check_write[ArrayIdx(tail_read)]
      BY <2>1, <2>2, <2>3, RingFacts DEF Lane, Covered, Owners
    <2> QED
      BY <2>1, <2>2, <2>4 DEF Lane, Watched
  <1> QED
    BY <1>1, QueueInvAlways, PTL

(* What NoStrandedItem is to pop this is to push: when no pop is under way *)
(* every cell that was emptied is free.                                    *)
NoStrandedCell ==
  (\A t \in Threads : pc[t] \notin PopPcs) => head_write = head_read

(* Between two pops no cell is left behind that no push may use            *)
(* (head_write_).                                                          *)
THEOREM QueueNoStrandedCell == Spec /\ []NotOvertaken => []NoStrandedCell
PROOF
  <1>1. QueueInv => NoStrandedCell
    <2> SUFFICES ASSUME QueueInv, \A t \in Threads : pc[t] \notin PopPcs,
                        head_write # head_read
                 PROVE  FALSE
      BY DEF NoStrandedCell
    <2>1. TypeOK /\ RingInv /\ Lane(head_write, head_read, check_read, PopAt, idx)
      BY DEF QueueInv, PopLane
    <2>2. \A t \in Threads : PopAt[t] = "out"
      BY DEF PopAt, PopPlace, PopPcs
    <2>3. Between(head_write, head_read, head_write)
      BY <2>1, RingFacts, BetweenPublish
    <2>4. check_read[ArrayIdx(head_write)]
      BY <2>1, <2>2, <2>3, RingFacts DEF Lane, Covered, Owners
    <2> QED
      BY <2>1, <2>2, <2>4 DEF Lane, Watched
  <1> QED
    BY <1>1, QueueInvAlways, PTL

-------------------------------------------------------------------------------
(* The refinement of TicketFifo.                                           *)

TicketAt(h, k) == (h + k - 1) % IndexMod

(* What f gives the tickets from h to t.                                   *)
Line(h, t, f) == [k \in 1 .. Dist(h, t) |-> f[TicketAt(h, k)]]

LEMMA TicketFacts ==
  ASSUME NEW h \in Indices, NEW t \in Indices, NEW k \in 1 .. Dist(h, t)
  PROVE  /\ TicketAt(h, k) \in Indices
         /\ Dist(h, TicketAt(h, k)) = k - 1
         /\ Between(h, t, TicketAt(h, k))
PROOF
  <1>1. /\ h \in Nat /\ h < IndexMod /\ IndexMod \in Nat /\ IndexMod > 1
        /\ Dist(h, t) \in Nat /\ Dist(h, t) < IndexMod
    BY SizeFacts, DistFacts DEF Indices
  <1>2. h + k - 1 \in Nat /\ h + k - 1 < 2 * IndexMod /\ k - 1 < IndexMod
    BY <1>1
  <1>3. CASE h + k - 1 < IndexMod
    <2>1. TicketAt(h, k) = h + k - 1
      BY <1>1, <1>2, <1>3 DEF TicketAt
    <2> QED
      BY <1>1, <1>2, <1>3, <2>1 DEF Dist, Indices, Between
  <1>4. CASE h + k - 1 >= IndexMod
    <2>1. TicketAt(h, k) = h + k - 1 - IndexMod
      BY <1>1, <1>2, <1>4 DEF TicketAt
    <2> QED
      BY <1>1, <1>2, <1>4, <2>1 DEF Dist, Indices, Between
  <1> QED
    BY <1>1, <1>3, <1>4

LEMMA LineFacts ==
  ASSUME NEW h \in Indices, NEW t \in Indices, NEW f,
         \A i \in Indices : Between(h, t, i) => f[i] \in Values
  PROVE  Line(h, t, f) \in Seq(Values) /\ Len(Line(h, t, f)) = Dist(h, t)
PROOF
  <1> DEFINE n == Dist(h, t)
  <1>1. n \in Nat
    BY DistFacts
  <1>2. \A k \in 1 .. n : f[TicketAt(h, k)] \in Values
    BY TicketFacts
  <1>3. Line(h, t, f) \in [1 .. n -> Values]
    BY <1>2 DEF Line
  <1> HIDE DEF n
  <1>4. n = Dist(h, t)
    BY DEF n
  <1>5. Line(h, t, f) \in Seq(Values) /\ Len(Line(h, t, f)) = n
    BY <1>1, <1>3
  <1> QED
    BY <1>4, <1>5

(* A ticket more at the end.                                               *)
LEMMA LineAppend ==
  ASSUME NEW h \in Indices, NEW t \in Indices, NEW f, Dist(h, t) < Size,
         \A i \in Indices : Between(h, t, i) => f[i] \in Values,
         f[t] \in Values
  PROVE  Line(h, Inc(t), f) = Append(Line(h, t, f), f[t])
PROOF
  <1> DEFINE n == Dist(h, t)
             w == Line(h, t, f)
             x == f[t]
  <1>1. n \in Nat /\ n < IndexMod - 1 /\ Dist(h, Inc(t)) = n + 1 /\ Inc(t) \in Indices
    BY DistFacts, IncFacts, SizeFacts
  <1>2. w \in Seq(Values) /\ Len(w) = n /\ x \in Values
    BY LineFacts
  <1>3. TicketAt(h, n + 1) = t
    <2>1. n + 1 \in 1 .. Dist(h, Inc(t))
      BY <1>1
    <2>2. TicketAt(h, n + 1) \in Indices /\ Dist(h, TicketAt(h, n + 1)) = n
      BY <1>1, <2>1, TicketFacts
    <2> QED
      BY <2>2, DistAdds
  <1>4. /\ Len(Append(w, x)) = n + 1 /\ Append(w, x) \in Seq(Values)
        /\ \A k \in 1 .. n : Append(w, x)[k] = w[k]
        /\ Append(w, x)[n + 1] = x
    BY <1>2, AppendProperties
  <1>5. \A k \in 1 .. n : w[k] = f[TicketAt(h, k)]
    BY DEF Line
  <1>6. Line(h, Inc(t), f) = [k \in 1 .. n + 1 |-> f[TicketAt(h, k)]]
    BY <1>1 DEF Line
  <1>7. Append(w, x) = [k \in 1 .. n + 1 |-> Append(w, x)[k]]
    BY <1>4
  <1>8. \A k \in 1 .. n + 1 : Append(w, x)[k] = f[TicketAt(h, k)]
    <2>1. \A k \in 1 .. n + 1 : k \in 1 .. n \/ k = n + 1
      BY <1>1
    <2> HIDE DEF w, n
    <2> QED
      BY <1>3, <1>4, <1>5, <2>1
  <1> QED
    BY <1>6, <1>7, <1>8

(* The first ticket is taken.                                              *)
LEMMA LineTail ==
  ASSUME NEW h \in Indices, NEW t \in Indices, NEW f, h # t,
         \A i \in Indices : Between(h, t, i) => f[i] \in Values
  PROVE  /\ Line(h, t, f) # <<>>
         /\ Head(Line(h, t, f)) = f[h]
         /\ Line(Inc(h), t, f) = Tail(Line(h, t, f))
PROOF
  <1> DEFINE n == Dist(h, t)
             w == Line(h, t, f)
  <1>1. n \in Nat \ {0} /\ n < IndexMod /\ Dist(Inc(h), t) = n - 1 /\ Inc(h) \in Indices
    BY DistFacts, IncFacts
  <1>2. w \in Seq(Values) /\ Len(w) = n
    BY LineFacts
  <1>3. \A k \in 1 .. n : w[k] = f[TicketAt(h, k)]
    BY DEF Line
  <1>4. TicketAt(h, 1) = h
    BY SizeFacts DEF TicketAt, Indices
  <1>5. \A k \in 1 .. n - 1 : TicketAt(Inc(h), k) = TicketAt(h, k + 1)
    <2> SUFFICES ASSUME NEW k \in 1 .. n - 1
                 PROVE  TicketAt(Inc(h), k) = TicketAt(h, k + 1)
      OBVIOUS
    <2>1. k + 1 \in 1 .. n /\ k \in 1 .. Dist(Inc(h), t)
      BY <1>1
    <2>2. /\ TicketAt(h, k + 1) \in Indices /\ Dist(h, TicketAt(h, k + 1)) = k
          /\ TicketAt(Inc(h), k) \in Indices /\ Dist(Inc(h), TicketAt(Inc(h), k)) = k - 1
      BY <1>1, <2>1, TicketFacts
    <2>3. TicketAt(h, k + 1) # h
      BY <1>1, <2>2, DistFacts
    <2>4. Dist(Inc(h), TicketAt(h, k + 1)) = k - 1
      BY <1>1, <2>2, <2>3, DistFacts
    <2> QED
      BY <1>1, <2>2, <2>4, DistAdds
  <1>6. w # <<>> /\ Head(w) = w[1] /\ w[1] = f[h]
    <2>1. 1 \in 1 .. n
      BY <1>1
    <2>2. w[1] = f[h]
      BY <1>3, <1>4, <2>1
    <2> HIDE DEF w, n
    <2>3. w # <<>>
      BY <1>1, <1>2, EmptySeq
    <2>4. Head(w) = w[1]
      BY <1>2, <2>3
    <2> QED
      BY <2>2, <2>3, <2>4
  <1>7. Tail(w) = [k \in 1 .. n - 1 |-> w[k + 1]]
    <2> HIDE DEF w, n
    <2>1. /\ Tail(w) \in Seq(Values) /\ Len(Tail(w)) = n - 1
          /\ \A k \in 1 .. n - 1 : Tail(w)[k] = w[k + 1]
      BY <1>2, <1>6, HeadTailProperties
    <2>2. Tail(w) = [k \in 1 .. n - 1 |-> Tail(w)[k]]
      <3> DEFINE r == Tail(w)
      <3>1. r \in Seq(Values) /\ Len(r) = n - 1 /\ n - 1 \in Nat
        BY <1>1, <2>1
      <3> HIDE DEF r
      <3>2. r = [k \in 1 .. Len(r) |-> r[k]]
        BY <3>1
      <3> QED
        BY <3>1, <3>2 DEF r
    <2> QED
      BY <2>1, <2>2
  <1>8. \A k \in 1 .. n - 1 : w[k + 1] = f[TicketAt(Inc(h), k)]
    <2>1. \A k \in 1 .. n - 1 : k + 1 \in 1 .. n
      BY <1>1
    <2> HIDE DEF w, n
    <2> QED
      BY <1>3, <1>5, <2>1
  <1>9. Line(Inc(h), t, f) = [k \in 1 .. n - 1 |-> f[TicketAt(Inc(h), k)]]
    BY <1>1 DEF Line
  <1> QED
    BY <1>6, <1>7, <1>8, <1>9

(* Two functions that agree on the tickets from h to t.                    *)
LEMMA LineSame ==
  ASSUME NEW h \in Indices, NEW t \in Indices, NEW f, NEW g,
         \A i \in Indices : Between(h, t, i) => f[i] = g[i]
  PROVE  Line(h, t, f) = Line(h, t, g)
PROOF
  BY TicketFacts DEF Line

(* Two stretches of tickets make one.                                      *)
LEMMA BetweenJoin ==
  ASSUME NEW a \in Indices, NEW b \in Indices, NEW c \in Indices,
         Dist(a, b) + Dist(b, c) <= Size
  PROVE  \A i \in Indices :
           /\ Between(a, c, i) <=> Between(a, b, i) \/ Between(b, c, i)
           /\ ~ (Between(a, b, i) /\ Between(b, c, i))
PROOF
  <1>1. /\ Dist(a, b) \in Nat /\ Dist(b, c) \in Nat
        /\ Dist(a, c) = Dist(a, b) + Dist(b, c)
    BY DistFacts, DistAdds, SizeFacts
  <1> SUFFICES ASSUME NEW i \in Indices
               PROVE  /\ Between(a, c, i) <=> Between(a, b, i) \/ Between(b, c, i)
                      /\ ~ (Between(a, b, i) /\ Between(b, c, i))
    OBVIOUS
  <1>2. Dist(a, i) \in Nat /\ Dist(b, i) \in Nat
    BY DistFacts
  <1>3. ASSUME Between(b, c, i) PROVE Between(a, c, i) /\ ~ Between(a, b, i)
    <2>1. Dist(a, i) = Dist(a, b) + Dist(b, i)
      BY <1>1, <1>2, <1>3, DistAdds, SizeFacts DEF Between
    <2> QED
      BY <1>1, <1>2, <1>3, <2>1 DEF Between
  <1>4. ASSUME Between(a, c, i), ~ Between(a, b, i) PROVE Between(b, c, i)
    <2>1. Dist(a, i) = Dist(a, b) + Dist(b, i)
      BY <1>1, <1>2, <1>4, DistAdds DEF Between
    <2> QED
      BY <1>1, <1>2, <1>4, <2>1 DEF Between
  <1>5. Between(a, b, i) => Between(a, c, i)
    BY <1>1, <1>2 DEF Between
  <1> QED
    BY <1>3, <1>4, <1>5

(* The stretches of the ring.                                              *)
LEMMA Stretches ==
  ASSUME TypeOK, RingInv
  PROVE  \A i \in Indices :
           /\ Between(head_write, tail_write, i) <=>
                Between(head_write, head_read, i) \/ Between(head_read, tail_write, i)
           /\ ~ (Between(head_write, head_read, i) /\ Between(head_read, tail_write, i))
           /\ Between(head_read, tail_write, i) <=>
                Between(head_read, tail_read, i) \/ Between(tail_read, tail_write, i)
           /\ ~ (Between(head_read, tail_read, i) /\ Between(tail_read, tail_write, i))
PROOF
  <1>1. /\ head_read \in Indices /\ head_write \in Indices
        /\ tail_read \in Indices /\ tail_write \in Indices
        /\ Dist(head_write, head_read) \in Nat /\ Dist(head_read, tail_read) \in Nat
        /\ Dist(tail_read, tail_write) \in Nat
    BY RingFacts
  <1>2. /\ Dist(head_read, tail_read) + Dist(tail_read, tail_write) <= Size
        /\ Dist(head_read, tail_write) = Dist(head_read, tail_read) + Dist(tail_read, tail_write)
    BY <1>1, SizeFacts, DistAdds DEF RingInv
  <1>3. Dist(head_write, head_read) + Dist(head_read, tail_write) <= Size
    BY <1>1, <1>2 DEF RingInv
  <1> QED
    BY <1>1, <1>2, <1>3, BetweenJoin

(* Where the tickets of the calls are.                                     *)
LEMMA Claimed ==
  ASSUME QueueInv
  PROVE  /\ \A t \in Threads : idx[t] \in Indices
         /\ \A t \in Threads :
              pc[t] \in {"push_store", "push_flag"} => Between(tail_read, tail_write, idx[t])
         /\ \A t \in Threads :
              pc[t] \in {"pop_take", "pop_flag"} => Between(head_write, head_read, idx[t])
         /\ \A t, u \in Threads :
              t # u /\ pc[t] = "push_store" /\ pc[u] = "push_store" => idx[t] # idx[u]
         /\ \A t \in Threads :
              pc[t] = "push_publish" => idx[t] = tail_read /\ tail_read # tail_write
         /\ \A t \in Threads :
              pc[t] = "pop_publish" => idx[t] = head_write /\ head_write # head_read
PROOF
  <1>1. /\ Owned(tail_read, tail_write, check_write, PushAt, idx)
        /\ Owned(head_write, head_read, check_read, PopAt, idx)
        /\ \A t \in Threads : idx[t] \in Indices
    BY DEF QueueInv, TypeOK, PushLane, PopLane, Lane
  <1>2. \A t \in Threads :
          /\ pc[t] \in {"push_store", "push_flag"} => PushAt[t] = "claim"
          /\ pc[t] = "push_publish" => PushAt[t] = "publish"
          /\ pc[t] \in {"pop_take", "pop_flag"} => PopAt[t] = "claim"
          /\ pc[t] = "pop_publish" => PopAt[t] = "publish"
    BY DEF PushAt, PopAt, PushPlace, PopPlace
  <1> QED
    BY <1>1, <1>2 DEF Owned, Owners

(* What ItemOf says of tickets.                                            *)
ItemsRead ==
  /\ \A t \in Threads : pc[t] = "push_store" => ItemOf(idx[t]) = val[t]
  /\ \A i \in Indices :
       (\A t \in Threads : ~ (pc[t] = "push_store" /\ idx[t] = i)) =>
         ItemOf(i) = data[ArrayIdx(i)]

LEMMA ItemFacts == QueueInv => ItemsRead
PROOF
  <1> SUFFICES ASSUME QueueInv PROVE ItemsRead
    OBVIOUS
  <1>1. ASSUME NEW t \in Threads, pc[t] = "push_store" PROVE ItemOf(idx[t]) = val[t]
    <2> DEFINE pushing == {u \in Threads : pc[u] = "push_store" /\ idx[u] = idx[t]}
    <2>1. pushing = {t}
      BY <1>1, Claimed
    <2>2. (CHOOSE u \in pushing : TRUE) = t /\ pushing # {}
      BY <2>1
    <2> QED
      BY <2>2 DEF ItemOf
  <1>2. ASSUME NEW i \in Indices,
               \A t \in Threads : ~ (pc[t] = "push_store" /\ idx[t] = i)
        PROVE  ItemOf(i) = data[ArrayIdx(i)]
    <2>1. {t \in Threads : pc[t] = "push_store" /\ idx[t] = i} = {}
      BY <1>2
    <2> QED
      BY <2>1 DEF ItemOf
  <1> QED
    BY <1>1, <1>2 DEF ItemsRead

LEMMA ItemFactsAfter == QueueInv' => ItemsRead'
PROOF
  BY ItemFacts, PTL

(* What the steps of one call do to the cells.                             *)
DataStep(t) ==
  /\ pc' = [pc EXCEPT ![t] = pc'[t]]
  /\ \A u \in Threads : u # t => pc'[u] = pc[u] /\ idx'[u] = idx[u] /\ val'[u] = val[u]
  /\ \/ /\ pc[t] = "push_store" /\ pc'[t] = "push_flag"
        /\ data' = [data EXCEPT ![ArrayIdx(idx[t])] = val[t]]
        /\ UNCHANGED <<head, tail>>
     \/ /\ pc[t] = "pop_take" /\ pc'[t] = "pop_flag"
        /\ data' = [data EXCEPT ![ArrayIdx(idx[t])] = None]
        /\ val'[t] = data[ArrayIdx(idx[t])]
        /\ UNCHANGED <<head, tail>>
     \/ PushReserve(t) \/ PopReserve(t)
     \/ /\ data' = data
        /\ pc[t] \notin {"push_store", "pop_take"} /\ pc'[t] \notin {"push_store", "pop_take"}
        /\ tail_write' = tail_write /\ head_read' = head_read

LEMMA StepIsDataStep ==
  ASSUME TypeOK, NEW t \in Threads,
         \/ PushStep(t) \/ \E v \in Values : PushLoad(t, v)
         \/ PopStep(t) \/ PopLoad(t)
  PROVE  DataStep(t)
PROOF
  <1> USE DEF Goto, Return, head, tail
  <1>1. /\ pc \in [Threads -> {"idle"} \cup PushPcs \cup PopPcs]
        /\ idx \in [Threads -> Indices]
        /\ val \in [Threads -> Values \cup {None}]
    BY DEF TypeOK
  <1>2. /\ pc' = [pc EXCEPT ![t] = pc'[t]]
        /\ \A u \in Threads : u # t => pc'[u] = pc[u] /\ idx'[u] = idx[u] /\ val'[u] = val[u]
    BY <1>1
    DEF PushStep, PushLoad, PushCheck, PushReserve, PushRetry, PushStore, PushFlag, PushTurn,
        PushReady, PushPublish, PopStep, PopLoad, PopCheck, PopReserve, PopRetry, PopTake,
        PopFlag, PopTurn, PopReady, PopPublish
  <1>3. PushStore(t) => DataStep(t)
    BY <1>1, <1>2 DEF PushStore, DataStep
  <1>4. PopTake(t) => DataStep(t)
    BY <1>1, <1>2 DEF PopTake, DataStep
  <1>5. PushReserve(t) \/ PopReserve(t) => DataStep(t)
    BY <1>2 DEF DataStep
  <1>6. ASSUME \/ PushCheck(t) \/ PushRetry(t) \/ PushFlag(t) \/ PushTurn(t) \/ PushReady(t)
               \/ PushPublish(t) \/ \E v \in Values : PushLoad(t, v)
        PROVE  DataStep(t)
    BY <1>1, <1>2, <1>6
    DEF PushLoad, PushCheck, PushRetry, PushFlag, PushTurn, PushReady, PushPublish, DataStep
  <1>7. ASSUME \/ PopCheck(t) \/ PopRetry(t) \/ PopFlag(t) \/ PopTurn(t) \/ PopReady(t)
               \/ PopPublish(t) \/ PopLoad(t)
        PROVE  DataStep(t)
    BY <1>1, <1>2, <1>7
    DEF PopLoad, PopCheck, PopRetry, PopFlag, PopTurn, PopReady, PopPublish, DataStep
  <1> QED
    BY <1>3, <1>4, <1>5, <1>6, <1>7 DEF PushStep, PopStep

(* Tickets between head_write_ and tail_write_ that differ have two cells. *)
LEMMA RingCells ==
  ASSUME QueueInv, NEW i \in Indices, NEW j \in Indices, i # j,
         Between(head_write, tail_write, i), Between(head_write, tail_write, j)
  PROVE  ArrayIdx(i) # ArrayIdx(j)
PROOF
  <1>1. /\ head_write \in Indices /\ tail_write \in Indices
        /\ Dist(head_write, tail_write) <= Size
    BY RingFacts DEF QueueInv, RingInv
  <1> QED
    BY <1>1, OneCellEach

(* No step changes the item of a ticket that waits to be taken.            *)
LEMMA ItemsKept ==
  ASSUME QueueInv, QueueInv', NEW t \in Threads, DataStep(t),
         NEW i \in Indices, Between(head_read, tail_write, i)
  PROVE  ItemOf(i)' = ItemOf(i)
PROOF
  <1>1. TypeOK /\ RingInv /\ ItemsRead /\ ItemsRead'
    BY ItemFacts, ItemFactsAfter DEF QueueInv
  <1>2. /\ head_read \in Indices /\ head_write \in Indices /\ tail_write \in Indices
        /\ Dist(head_read, tail_write) <= Size
        /\ Between(head_write, tail_write, i) /\ ~ Between(head_write, head_read, i)
        /\ ArrayIdx(i) \in Cells /\ data \in [Cells -> Values \cup {None}]
    BY <1>1, RingFacts, Stretches, SizeFacts, ArrayIdxIsCell, DistAdds DEF TypeOK, RingInv
  <1>3. \A u \in Threads : /\ idx[u] \in Indices
                           /\ pc[u] = "push_store" => Between(head_write, tail_write, idx[u])
                           /\ pc[u] = "pop_take" => Between(head_write, head_read, idx[u])
                           /\ pc[u] = "pop_take" => Between(head_write, tail_write, idx[u])
    BY <1>1, Claimed, Stretches
  <1>4. i # tail_write
    BY <1>2, DistFacts DEF Between
  <1>5. CASE \E u \in Threads : pc[u] = "push_store" /\ idx[u] = i
    <2>1. PICK u \in Threads : pc[u] = "push_store" /\ idx[u] = i
      BY <1>5
    <2>2. ItemOf(i) = val[u]
      BY <1>1, <2>1 DEF ItemsRead
    <2>3. CASE u = t
      <3>1. pc'[t] = "push_flag" /\ data' = [data EXCEPT ![ArrayIdx(i)] = val[t]]
        BY <2>1, <2>3 DEF DataStep, PushReserve, PopReserve
      <3>2. \A x \in Threads : ~ (pc'[x] = "push_store" /\ idx'[x] = i)
        BY <2>1, <2>3, <3>1, Claimed DEF DataStep
      <3>3. ItemOf(i)' = data'[ArrayIdx(i)]
        BY <1>1, <3>2 DEF ItemsRead
      <3> QED
        BY <1>2, <2>2, <2>3, <3>1, <3>3
    <2>4. CASE u # t
      <3>1. pc'[u] = "push_store" /\ idx'[u] = i /\ val'[u] = val[u]
        BY <2>1, <2>4 DEF DataStep
      <3>2. ItemOf(i)' = val'[u]
        BY <1>1, <3>1 DEF ItemsRead
      <3> QED
        BY <2>2, <3>1, <3>2
    <2> QED
      BY <2>3, <2>4
  <1>6. CASE \A u \in Threads : ~ (pc[u] = "push_store" /\ idx[u] = i)
    <2>1. ItemOf(i) = data[ArrayIdx(i)]
      BY <1>1, <1>6 DEF ItemsRead
    <2>2. ~ (pc'[t] = "push_store" /\ idx'[t] = i)
      BY <1>1, <1>4, <1>6 DEF DataStep, PushReserve, PopReserve, Goto, TypeOK
    <2>3. ItemOf(i)' = data'[ArrayIdx(i)]
      BY <1>1, <1>6, <2>2 DEF ItemsRead, DataStep
    <2>4. data'[ArrayIdx(i)] = data[ArrayIdx(i)]
      <3>1. pc[t] \in {"push_store", "pop_take"} => ArrayIdx(idx[t]) # ArrayIdx(i)
        BY <1>2, <1>3, <1>6, RingCells
      <3> QED
        BY <1>2, <3>1 DEF DataStep, PushReserve, PopReserve
    <2> QED
      BY <2>1, <2>3, <2>4
  <1> QED
    BY <1>5, <1>6

(* Nor what another call holds.                                            *)
LEMMA HandsKept ==
  ASSUME QueueInv, NEW t \in Threads, DataStep(t), NEW u \in Threads, u # t
  PROVE  /\ HandOf(u)' = HandOf(u)
         /\ pc[u] = "pop_take" => data'[ArrayIdx(idx[u])] = data[ArrayIdx(idx[u])]
PROOF
  <1>1. TypeOK /\ RingInv
    BY DEF QueueInv
  <1>2. pc'[u] = pc[u] /\ idx'[u] = idx[u] /\ val'[u] = val[u]
    BY DEF DataStep
  <1>3. ASSUME pc[u] = "pop_take"
        PROVE  data'[ArrayIdx(idx[u])] = data[ArrayIdx(idx[u])]
    <2>1. /\ idx[u] \in Indices /\ ArrayIdx(idx[u]) \in Cells
          /\ Between(head_write, head_read, idx[u]) /\ Between(head_write, tail_write, idx[u])
      BY <1>1, <1>3, Claimed, Stretches, ArrayIdxIsCell
    <2>2. CASE pc[t] = "push_store"
      <3>1. /\ idx[t] \in Indices /\ Between(head_write, tail_write, idx[t])
            /\ idx[t] # idx[u]
        BY <1>1, <2>1, <2>2, Claimed, Stretches
      <3>2. ArrayIdx(idx[t]) # ArrayIdx(idx[u])
        BY <2>1, <3>1, RingCells
      <3> QED
        BY <1>1, <2>1, <2>2, <3>2 DEF DataStep, PushReserve, PopReserve, TypeOK
    <2>3. CASE pc[t] = "pop_take"
      <3>1. idx[t] \in Indices /\ Between(head_write, tail_write, idx[t])
        BY <1>1, <2>3, Claimed, Stretches
      <3>2. idx[t] # idx[u]
        BY <1>3, <2>3 DEF QueueInv, PopLane, Lane, Owned, PopAt, PopPlace, Owners
      <3>3. ArrayIdx(idx[t]) # ArrayIdx(idx[u])
        BY <2>1, <3>1, <3>2, RingCells
      <3> QED
        BY <1>1, <2>1, <2>3, <3>3 DEF DataStep, PushReserve, PopReserve, TypeOK
    <2>4. CASE pc[t] \notin {"push_store", "pop_take"}
      BY <2>4 DEF DataStep, PushReserve, PopReserve
    <2> QED
      BY <2>2, <2>3, <2>4
  <1> QED
    BY <1>2, <1>3 DEF HandOf

(* Every ticket that waits to be taken has an item, and so has every call  *)
(* that must have one.                                                     *)
PopHolding == {"pop_flag", "pop_turn", "pop_ready", "pop_publish"}

ItemsInv ==
  /\ \A i \in Indices : Between(head_read, tail_write, i) => ItemOf(i) \in Values
  /\ \A t \in Threads :
       /\ pc[t] \in {"push_check", "push_reserve", "push_store"} => val[t] \in Values
       /\ pc[t] = "pop_take" => data[ArrayIdx(idx[t])] \in Values
       /\ pc[t] \in PopHolding => val[t] \in Values

LEMMA ItemsInvInit == Init => ItemsInv
PROOF
  <1> SUFFICES ASSUME Init PROVE ItemsInv
    OBVIOUS
  <1>1. 0 \in Indices /\ \A i \in Indices : ~ Between(0, 0, i)
    BY DistNext, DistFacts, SizeFacts DEF Indices, Between
  <1> QED
    BY <1>1 DEF Init, ItemsInv, PopHolding

(* A pop whose CAS succeeds takes the first item.                          *)
LEMMA FirstItem ==
  ASSUME QueueInv, NEW t \in Threads, PopReserve(t)
  PROVE  /\ head_read # tail_read /\ Between(head_read, tail_read, head_read)
         /\ Between(head_read, tail_write, head_read)
         /\ ItemOf(head_read) = data[ArrayIdx(head_read)]
PROOF
  <1>1. TypeOK /\ RingInv /\ ItemsRead /\ head_read \in Indices /\ tail_read \in Indices
    BY ItemFacts, RingFacts DEF QueueInv
  <1>2. head_read # tail_read
    BY DEF QueueInv, RoomInv, PopReserve
  <1>3. Between(head_read, tail_read, head_read)
    BY <1>1, <1>2, BetweenPublish
  <1>4. Between(head_read, tail_write, head_read) /\ ~ Between(tail_read, tail_write, head_read)
    BY <1>1, <1>3, Stretches
  <1>5. \A u \in Threads : ~ (pc[u] = "push_store" /\ idx[u] = head_read)
    BY <1>4, Claimed
  <1> QED
    BY <1>1, <1>2, <1>3, <1>4, <1>5 DEF ItemsRead

(* The tickets that wait after a step are those from before, but for the   *)
(* one that a push may have taken.                                         *)
LEMMA WaitingAfter ==
  ASSUME QueueInv, NEW t \in Threads, DataStep(t),
         NEW i \in Indices, Between(head_read', tail_write', i)
  PROVE  Between(head_read, tail_write, i) \/ (PushReserve(t) /\ i = tail_write)
PROOF
  <1>1. /\ TypeOK /\ RingInv /\ head_read \in Indices /\ tail_write \in Indices
        /\ head_write \in Indices /\ tail_read \in Indices
    BY RingFacts DEF QueueInv
  <1>2. CASE PushReserve(t)
    <2>1. tail_write' = Inc(tail_write) /\ head_read' = head_read
      BY <1>2 DEF PushReserve, head
    <2>2. Dist(head_write, tail_write) < Size
      BY <1>2 DEF QueueInv, RoomInv, PushReserve
    <2>3. Dist(head_read, tail_write) <= Dist(head_write, tail_write)
      <3>1. /\ Dist(head_read, tail_read) \in Nat /\ Dist(tail_read, tail_write) \in Nat
            /\ Dist(head_write, head_read) \in Nat
            /\ Dist(head_read, tail_read) + Dist(tail_read, tail_write) < IndexMod
        BY <1>1, RingFacts, SizeFacts DEF RingInv
      <3>2. Dist(head_read, tail_write) = Dist(head_read, tail_read) + Dist(tail_read, tail_write)
        BY <1>1, <3>1, DistAdds
      <3> QED
        BY <1>1, <3>1, <3>2, RingFacts
    <2>4. Dist(head_read, tail_write) < Size
      BY <1>1, <2>2, <2>3, DistFacts, SizeFacts
    <2> QED
      BY <1>1, <1>2, <2>1, <2>4, BetweenEnter
  <1>3. CASE PopReserve(t)
    <2>1. head_read' = Inc(head_read) /\ tail_write' = tail_write
      BY <1>3 DEF PopReserve, tail
    <2>2. head_read # tail_write
      BY <1>1, <1>3, FirstItem, DistNext, DistFacts DEF Between
    <2> QED
      BY <1>1, <2>1, <2>2, BetweenPublish
  <1>4. CASE head_read' = head_read /\ tail_write' = tail_write
    BY <1>4
  <1> QED
    BY <1>2, <1>3, <1>4 DEF DataStep, head, tail

LEMMA ItemsInvStep ==
  QueueInv /\ QueueInv' /\ ItemsInv /\ [Next]_vars => ItemsInv'
PROOF
  <1> SUFFICES ASSUME QueueInv, QueueInv', ItemsInv, [Next]_vars PROVE ItemsInv'
    OBVIOUS
  <1>1. ASSUME NEW t \in Threads,
               \/ PushStep(t) \/ \E v \in Values : PushLoad(t, v)
               \/ PopStep(t) \/ PopLoad(t)
        PROVE  ItemsInv'
    <2>1. DataStep(t) /\ TypeOK
      BY <1>1, StepIsDataStep DEF QueueInv
    <2>2. /\ pc \in [Threads -> {"idle"} \cup PushPcs \cup PopPcs]
          /\ idx \in [Threads -> Indices]
          /\ val \in [Threads -> Values \cup {None}]
          /\ data \in [Cells -> Values \cup {None}]
      BY <2>1 DEF TypeOK
    <2>3. ASSUME NEW i \in Indices, Between(head_read', tail_write', i)
          PROVE  ItemOf(i)' \in Values
      <3>1. CASE Between(head_read, tail_write, i)
        BY <2>1, <3>1, ItemsKept DEF ItemsInv
      <3>2. CASE PushReserve(t) /\ i = tail_write
        <4>1. pc'[t] = "push_store" /\ idx'[t] = i /\ val'[t] \in Values
          BY <2>2, <3>2 DEF PushReserve, Goto, ItemsInv
        <4> QED
          BY <4>1, ItemFactsAfter DEF ItemsRead
      <3> QED
        BY <2>1, <2>3, <3>1, <3>2, WaitingAfter
    <2>4. ASSUME NEW u \in Threads, u # t
          PROVE  /\ pc'[u] \in {"push_check", "push_reserve", "push_store"} => val'[u] \in Values
                 /\ pc'[u] = "pop_take" => data'[ArrayIdx(idx'[u])] \in Values
                 /\ pc'[u] \in PopHolding => val'[u] \in Values
      <3>1. pc'[u] = pc[u] /\ idx'[u] = idx[u] /\ val'[u] = val[u]
        BY <2>1, <2>4 DEF DataStep
      <3>2. pc[u] = "pop_take" => data'[ArrayIdx(idx[u])] = data[ArrayIdx(idx[u])]
        BY <2>1, <2>4, HandsKept
      <3> QED
        BY <3>1, <3>2 DEF ItemsInv
    <2>5. pc'[t] \in {"push_check", "push_reserve", "push_store"} => val'[t] \in Values
      BY <1>1, <2>2
      DEF ItemsInv, PushStep, PushLoad, PushCheck, PushReserve, PushRetry, PushStore, PushFlag,
          PushTurn, PushReady, PushPublish, PopStep, PopLoad, PopCheck, PopReserve, PopRetry,
          PopTake, PopFlag, PopTurn, PopReady, PopPublish, Goto, Return
    <2>6. pc'[t] = "pop_take" => data'[ArrayIdx(idx'[t])] \in Values
      <3> SUFFICES ASSUME pc'[t] = "pop_take" PROVE data'[ArrayIdx(idx'[t])] \in Values
        OBVIOUS
      <3>1. PopReserve(t)
        BY <2>1, <2>2 DEF DataStep, PushReserve, Goto
      <3>2. idx'[t] = head_read /\ data' = data /\ head_read \in Indices
        BY <2>1, <3>1 DEF PopReserve, TypeOK
      <3> QED
        BY <3>1, <3>2, FirstItem DEF ItemsInv
    <2>7. pc'[t] \in PopHolding => val'[t] \in Values
      BY <1>1, <2>2
      DEF ItemsInv, PopHolding, PushStep, PushLoad, PushCheck, PushReserve, PushRetry, PushStore,
          PushFlag, PushTurn, PushReady, PushPublish, PopStep, PopLoad, PopCheck, PopReserve,
          PopRetry, PopTake, PopFlag, PopTurn, PopReady, PopPublish, Goto, Return
    <2> QED
      BY <2>3, <2>4, <2>5, <2>6, <2>7 DEF ItemsInv
  <1>2. CASE UNCHANGED vars
    BY <1>2 DEF vars, ItemsInv, ItemOf
  <1> QED
    BY <1>1, <1>2 DEF Next, Threads

(* What TicketFifo's variables are.                                        *)
Acc     == ItemsOf(tail_read, tail_write)
Vis     == ItemsOf(head_read, tail_read)
Hands   == [t \in Consumers |-> HandOf(t)]
Drained == Dist(head_write, head_read)

Items == [i \in Indices |-> ItemOf(i)]

Mapped == /\ Acc = Line(tail_read, tail_write, Items)
          /\ Vis = Line(head_read, tail_read, Items)

LEMMA MappedHolds == QueueInv => Mapped
PROOF
  <1> SUFFICES ASSUME QueueInv PROVE Mapped
    OBVIOUS
  <1>1. ASSUME NEW h \in Indices, NEW t \in Indices PROVE ItemsOf(h, t) = Line(h, t, Items)
    <2>1. \A k \in 1 .. Dist(h, t) : Items[TicketAt(h, k)] = ItemOf(TicketAt(h, k))
      BY TicketFacts DEF Items
    <2> QED
      BY <2>1 DEF ItemsOf, Line, TicketAt
  <1> QED
    BY <1>1, RingFacts DEF QueueInv, Mapped, Acc, Vis

LEMMA MappedAfter == QueueInv' => Mapped'
PROOF
  BY MappedHolds, PTL

(* The lines before a step, with the items after it.                       *)
LEMMA LinesKept ==
  ASSUME QueueInv, QueueInv', ItemsInv, NEW t \in Threads, DataStep(t)
  PROVE  /\ Acc = Line(tail_read, tail_write, Items')
         /\ Vis = Line(head_read, tail_read, Items')
         /\ \A i \in Indices :
              Between(head_read, tail_write, i) => Items'[i] = ItemOf(i) /\ ItemOf(i) \in Values
         /\ \A i \in Indices : Between(tail_read, tail_write, i) => Items'[i] \in Values
         /\ \A i \in Indices : Between(head_read, tail_read, i) => Items'[i] \in Values
         /\ \A i \in Indices : Items'[i] = ItemOf(i)'
PROOF
  <1>1. TypeOK /\ RingInv /\ Mapped /\ head_read \in Indices /\ tail_read \in Indices
        /\ tail_write \in Indices
    BY MappedHolds, RingFacts DEF QueueInv
  <1>2. /\ \A i \in Indices : Items[i] = ItemOf(i)
        /\ \A i \in Indices : Items'[i] = ItemOf(i)'
    BY DEF Items
  <1>3. \A i \in Indices :
          Between(head_read, tail_write, i) =>
            Items'[i] = ItemOf(i) /\ Items'[i] = Items[i] /\ ItemOf(i) \in Values
    BY <1>2, ItemsKept DEF ItemsInv
  <1>4. \A i \in Indices :
          Between(tail_read, tail_write, i) \/ Between(head_read, tail_read, i) =>
            Items'[i] = Items[i] /\ Items'[i] \in Values
    BY <1>1, <1>3, Stretches
  <1>5. /\ Line(tail_read, tail_write, Items') = Line(tail_read, tail_write, Items)
        /\ Line(head_read, tail_read, Items') = Line(head_read, tail_read, Items)
    BY <1>1, <1>4, LineSame
  <1> QED
    BY <1>1, <1>2, <1>3, <1>4, <1>5 DEF Mapped

LEMMA HandsMove ==
  ASSUME QueueInv, NEW t \in Threads, DataStep(t)
  PROVE  Hands' = [u \in Consumers |-> IF u = t THEN HandOf(t)' ELSE HandOf(u)]
PROOF
  BY HandsKept DEF Hands, Threads

(* A step that moves none of the counters and no hand is not seen.         *)
LEMMA NotSeen ==
  ASSUME QueueInv, QueueInv', ItemsInv, NEW t \in Threads, DataStep(t),
         UNCHANGED <<head_read, head_write, tail_read, tail_write>>,
         t \in Consumers => HandOf(t)' = HandOf(t)
  PROVE  UNCHANGED <<Acc, Vis, Hands, Drained>>
PROOF
  <1>1. Acc' = Acc /\ Vis' = Vis
    BY LinesKept, MappedAfter DEF Mapped
  <1>2. Hands' = Hands
    BY HandsMove DEF Hands
  <1> QED
    BY <1>1, <1>2 DEF Drained

LEMMA HandFacts ==
  ASSUME NEW t \in Threads
  PROVE  /\ pc[t] = "pop_take" => HandOf(t) = data[ArrayIdx(idx[t])]
         /\ pc[t] \in PopHolding => HandOf(t) = val[t]
         /\ pc[t] \notin {"pop_take"} \cup PopHolding => HandOf(t) = None
         /\ pc'[t] = "pop_take" => HandOf(t)' = data'[ArrayIdx(idx'[t])]
         /\ pc'[t] \in PopHolding => HandOf(t)' = val'[t]
         /\ pc'[t] \notin {"pop_take"} \cup PopHolding => HandOf(t)' = None
PROOF
  BY DEF HandOf, PopHolding

(* push's CAS accepts, its increment of tail_read_ publishes, the rest of  *)
(* push is not seen.                                                       *)
LEMMA PushRefines ==
  ASSUME QueueInv, QueueInv', ItemsInv, NEW t \in Threads,
         PushStep(t) \/ \E v \in Values : PushLoad(t, v)
  PROVE  Fifo!Next \/ UNCHANGED <<Acc, Vis, Hands, Drained>>
PROOF
  <1>1. TypeOK /\ RingInv /\ DataStep(t) /\ Mapped'
    BY StepIsDataStep, MappedAfter DEF QueueInv
  <1>2. /\ head_read \in Indices /\ head_write \in Indices
        /\ tail_read \in Indices /\ tail_write \in Indices
        /\ pc \in [Threads -> {"idle"} \cup PushPcs \cup PopPcs]
    BY <1>1, RingFacts DEF TypeOK
  <1>3. HandOf(t) = None /\ HandOf(t)' = None
    BY <1>2, HandFacts
    DEF PushStep, PushLoad, PushCheck, PushReserve, PushRetry, PushStore, PushFlag, PushTurn,
        PushReady, PushPublish, Goto, Return, PopHolding
  <1>4. Hands' = Hands
    BY <1>1, <1>3, HandsMove DEF Hands
  <1> DEFINE f == Items'
  <1>5. /\ Acc = Line(tail_read, tail_write, f) /\ Vis = Line(head_read, tail_read, f)
        /\ \A i \in Indices : Between(tail_read, tail_write, i) => f[i] \in Values
        /\ \A i \in Indices : Between(head_read, tail_read, i) => f[i] \in Values
        /\ \A i \in Indices : f[i] = ItemOf(i)'
        /\ Acc' = Line(tail_read', tail_write', f) /\ Vis' = Line(head_read', tail_read', f)
    BY <1>1, LinesKept DEF Mapped
  <1> HIDE DEF f
  <1>6. CASE PushReserve(t)
    <2>1. /\ idx'[t] = tail_write /\ tail_write' = Inc(tail_write)
          /\ UNCHANGED <<head_read, head_write, tail_read>>
          /\ pc'[t] = "push_store" /\ val'[t] = val[t] /\ val[t] \in Values
      BY <1>2, <1>6 DEF PushReserve, Goto, head, ItemsInv
    <2>2. Dist(head_write, tail_write) < Size
      BY <1>6 DEF QueueInv, RoomInv, PushReserve
    <2>3. f[tail_write] = val[t]
      BY <1>2, <1>5, <2>1, ItemFactsAfter DEF ItemsRead
    <2>4. Dist(tail_read, tail_write) < Size
      BY <1>1, <2>2, RingFacts, SizeFacts
    <2>5. Acc' = Append(Acc, val[t])
      BY <1>2, <1>5, <2>1, <2>3, <2>4, LineAppend
    <2>6. Vis' = Vis /\ Drained' = Drained
      BY <1>5, <2>1 DEF Drained
    <2>7. Len(Acc) = Dist(tail_read, tail_write) /\ Len(Vis) = Dist(head_read, tail_read)
      BY <1>2, <1>5, LineFacts
    <2>8. Len(Acc) + Len(Vis) + Drained < Size
      BY <1>1, <2>2, <2>7, RingFacts DEF Drained
    <2>9. Fifo!Accept(val[t])
      BY <1>4, <2>5, <2>6, <2>8 DEF Fifo!Accept, Acc, Vis, Hands, Drained
    <2> QED
      BY <2>1, <2>9 DEF Fifo!Next
  <1>7. CASE PushPublish(t)
    <2>1. /\ tail_read' = Inc(tail_read) /\ tail_read # tail_write
          /\ UNCHANGED <<head_read, head_write, tail_write>>
      BY <1>7, Claimed DEF PushPublish, head
    <2>2. /\ Acc # <<>> /\ Head(Acc) = f[tail_read] /\ Acc' = Tail(Acc)
      BY <1>2, <1>5, <2>1, LineTail
    <2>3. f[tail_read] \in Values
      BY <1>2, <1>5, <2>1, BetweenPublish
    <2>4. Dist(head_read, tail_read) < Size
      BY <1>1, <2>1, RingFacts, SizeFacts DEF RingInv
    <2>5. Vis' = Append(Vis, f[tail_read])
      BY <1>2, <1>5, <2>1, <2>3, <2>4, LineAppend
    <2>6. Drained' = Drained
      BY <2>1 DEF Drained
    <2>7. Fifo!Publish
      BY <1>4, <2>2, <2>5, <2>6 DEF Fifo!Publish, Acc, Vis, Hands, Drained
    <2> QED
      BY <2>7 DEF Fifo!Next
  <1>8. CASE \/ PushCheck(t) \/ PushRetry(t) \/ PushStore(t) \/ PushFlag(t) \/ PushTurn(t)
             \/ PushReady(t) \/ \E v \in Values : PushLoad(t, v)
    <2>1. UNCHANGED <<head_read, head_write, tail_read, tail_write>>
      BY <1>8
      DEF PushLoad, PushCheck, PushRetry, PushStore, PushFlag, PushTurn, PushReady, head, tail
    <2> QED
      BY <1>1, <1>3, <2>1, NotSeen
  <1> QED
    BY <1>6, <1>7, <1>8 DEF PushStep

(* pop's CAS takes, its return delivers, its increment of head_write_      *)
(* recycles, the rest of pop is not seen.                                  *)
LEMMA PopRefines ==
  ASSUME QueueInv, QueueInv', ItemsInv, ItemsInv', NEW t \in Threads, t \in Consumers,
         PopStep(t) \/ PopLoad(t)
  PROVE  Fifo!Next \/ UNCHANGED <<Acc, Vis, Hands, Drained>>
PROOF
  <1>1. TypeOK /\ RingInv /\ DataStep(t) /\ Mapped'
    BY StepIsDataStep, MappedAfter DEF QueueInv
  <1>2. /\ head_read \in Indices /\ head_write \in Indices
        /\ tail_read \in Indices /\ tail_write \in Indices
        /\ pc \in [Threads -> {"idle"} \cup PushPcs \cup PopPcs]
        /\ idx \in [Threads -> Indices]
        /\ val \in [Threads -> Values \cup {None}]
    BY <1>1, RingFacts DEF TypeOK
  <1>3. Hands[t] = HandOf(t) /\ Hands' = [Hands EXCEPT ![t] = HandOf(t)']
    BY <1>1, HandsMove DEF Hands
  <1> DEFINE f == Items'
  <1>4. /\ Acc = Line(tail_read, tail_write, f) /\ Vis = Line(head_read, tail_read, f)
        /\ \A i \in Indices : Between(head_read, tail_read, i) => f[i] \in Values
        /\ \A i \in Indices : Between(head_read, tail_write, i) => f[i] = ItemOf(i)
        /\ Acc' = Line(tail_read', tail_write', f) /\ Vis' = Line(head_read', tail_read', f)
    BY <1>1, LinesKept DEF Mapped
  <1> HIDE DEF f
  <1> USE DEF Goto, Return, PopHolding
  <1>5. ASSUME UNCHANGED <<head_read, head_write, tail_read, tail_write>>, HandOf(t)' = HandOf(t)
        PROVE  UNCHANGED <<Acc, Vis, Hands, Drained>>
    BY <1>1, <1>5, NotSeen
  <1>6. ASSUME UNCHANGED <<head_read, head_write, tail_read, tail_write>>,
               pc[t] \in PopHolding, pc'[t] = "idle"
        PROVE  Fifo!Next
    <2>1. HandOf(t) \in Values /\ HandOf(t)' = None
      BY <1>6, HandFacts DEF ItemsInv
    <2>2. Hands[t] # None /\ Hands' = [Hands EXCEPT ![t] = None]
      BY <1>3, <2>1, QueueAssumption
    <2>3. Acc' = Acc /\ Vis' = Vis /\ Drained' = Drained
      BY <1>4, <1>6 DEF Drained
    <2>4. Fifo!Deliver(t)
      BY <2>2, <2>3 DEF Fifo!Deliver, Acc, Vis, Hands, Drained
    <2> QED
      BY <2>4 DEF Fifo!Next
  <1>11. CASE PopLoad(t) \/ PopCheck(t) \/ PopRetry(t)
    <2>1. UNCHANGED <<head_read, head_write, tail_read, tail_write>>
      BY <1>11 DEF PopLoad, PopCheck, PopRetry, head, tail
    <2>2. HandOf(t)' = HandOf(t)
      BY <1>2, <1>11, HandFacts DEF PopLoad, PopCheck, PopRetry
    <2> QED
      BY <1>5, <2>1, <2>2
  <1>12. CASE PopReserve(t)
    <2>1. /\ idx[t] = head_read /\ head_read' = Inc(head_read)
          /\ UNCHANGED <<head_write, tail_read, tail_write, data, idx>>
          /\ pc[t] = "pop_reserve" /\ pc'[t] = "pop_take"
      BY <1>2, <1>12 DEF PopReserve, tail
    <2>2. /\ head_read # tail_read /\ f[head_read] = data[ArrayIdx(head_read)]
      BY <1>2, <1>4, <1>12, FirstItem
    <2>3. Vis # <<>> /\ Head(Vis) = f[head_read] /\ Vis' = Tail(Vis)
      BY <1>2, <1>4, <2>1, <2>2, LineTail
    <2>4. HandOf(t) = None /\ HandOf(t)' = Head(Vis)
      BY <2>1, <2>2, <2>3, HandFacts
    <2>5. Acc' = Acc
      BY <1>4, <2>1
    <2>6. Drained' = Drained + 1
      <3>1. Dist(head_write, head_read) < Size
        BY <1>1, <2>2, RingFacts, SizeFacts DEF RingInv
      <3> QED
        BY <1>2, <2>1, <3>1, BetweenEnter DEF Drained
    <2>7. Fifo!Take(t)
      BY <1>3, <2>3, <2>4, <2>5, <2>6 DEF Fifo!Take, Acc, Vis, Hands, Drained
    <2> QED
      BY <2>7 DEF Fifo!Next
  <1>13. CASE PopTake(t)
    <2>1. /\ UNCHANGED <<head_read, head_write, tail_read, tail_write>>
          /\ pc[t] = "pop_take" /\ pc'[t] = "pop_flag" /\ val'[t] = data[ArrayIdx(idx[t])]
      BY <1>2, <1>13 DEF PopTake, head, tail
    <2> QED
      BY <1>5, <2>1, HandFacts
  <1>14. CASE PopFlag(t)
    <2>1. /\ UNCHANGED <<head_read, head_write, tail_read, tail_write, val>>
          /\ pc[t] = "pop_flag" /\ pc'[t] = "pop_turn"
      BY <1>2, <1>14 DEF PopFlag, tail
    <2> QED
      BY <1>5, <2>1, HandFacts
  <1>15. CASE PopTurn(t)
    <2>1. /\ UNCHANGED <<head_read, head_write, tail_read, tail_write>> /\ pc[t] = "pop_turn"
      BY <1>15 DEF PopTurn, head, tail
    <2>2. pc'[t] = "idle" \/ (pc'[t] = "pop_ready" /\ val' = val)
      BY <1>2, <1>15 DEF PopTurn
    <2> QED
      BY <1>5, <1>6, <2>1, <2>2, HandFacts
  <1>16. CASE PopReady(t)
    <2>1. /\ UNCHANGED <<head_read, head_write, tail_read, tail_write>> /\ pc[t] = "pop_ready"
      BY <1>16 DEF PopReady, tail
    <2>2. pc'[t] = "idle" \/ (pc'[t] = "pop_publish" /\ val' = val)
      BY <1>2, <1>16 DEF PopReady
    <2> QED
      BY <1>5, <1>6, <2>1, <2>2, HandFacts
  <1>17. CASE PopPublish(t)
    <2>1. /\ head_write' = Inc(head_write) /\ head_write # head_read
          /\ UNCHANGED <<head_read, tail_read, tail_write, val>>
          /\ pc[t] = "pop_publish" /\ pc'[t] = "pop_turn"
      BY <1>2, <1>17, Claimed DEF PopPublish, tail
    <2>2. HandOf(t)' = HandOf(t)
      BY <2>1, HandFacts
    <2>3. Hands' = Hands
      BY <1>3, <2>2 DEF Hands
    <2>4. Acc' = Acc /\ Vis' = Vis
      BY <1>4, <2>1
    <2>5. Drained > 0 /\ Drained' = Drained - 1
      BY <1>2, <2>1, DistFacts DEF Drained
    <2>6. Fifo!Recycle
      BY <2>3, <2>4, <2>5 DEF Fifo!Recycle, Acc, Vis, Hands, Drained
    <2> QED
      BY <2>6 DEF Fifo!Next
  <1> QED
    BY <1>11, <1>12, <1>13, <1>14, <1>15, <1>16, <1>17 DEF PopStep

(* No item is lost, handed out twice, reordered or handed out before it    *)
(* has been written, for any number of producers and consumers.            *)
THEOREM QueueImplementsTicketFifo == Spec /\ []NotOvertaken => ImplementsTicketFifo
PROOF
  <1>1. Init => Fifo!Init
    <2> SUFFICES ASSUME Init PROVE Fifo!Init
      OBVIOUS
    <2>1. /\ 0 \in Indices /\ Dist(0, 0) = 0
          /\ head_read = 0 /\ head_write = 0 /\ tail_read = 0 /\ tail_write = 0
      BY DistNext, SizeFacts DEF Indices, Init
    <2>2. Drained = 0 /\ Acc = <<>> /\ Vis = <<>>
      <3>1. 1 .. 0 = {}
        OBVIOUS
      <3> QED
        BY <2>1, <3>1 DEF Drained, Acc, Vis, ItemsOf
    <2>3. Hands = [t \in Consumers |-> None]
      BY DEF Hands, HandOf, Init, Threads
    <2> QED
      BY <2>2, <2>3 DEF Fifo!Init, Acc, Vis, Hands, Drained
  <1>2. QueueInv /\ QueueInv' /\ ItemsInv /\ ItemsInv' /\ [Next]_vars
          => [Fifo!Next]_<<Acc, Vis, Hands, Drained>>
    <2> SUFFICES ASSUME QueueInv, QueueInv', ItemsInv, ItemsInv', [Next]_vars
                 PROVE  [Fifo!Next]_<<Acc, Vis, Hands, Drained>>
      OBVIOUS
    <2>1. CASE Next
      BY <2>1, PushRefines, PopRefines DEF Next, Threads
    <2>2. CASE UNCHANGED vars
      BY <2>2 DEF vars, Acc, Vis, Hands, Drained, ItemsOf, ItemOf, HandOf
    <2> QED
      BY <2>1, <2>2
  <1> QED
    BY <1>1, <1>2, QueueInvAlways, ItemsInvInit, ItemsInvStep, PTL
    DEF Spec, ImplementsTicketFifo, Fifo!Spec, Fifo!vars, Acc, Vis, Hands, Drained

-------------------------------------------------------------------------------
(***************************************************************************)
(* Who is not overtaken. First, one producer and one consumer, as clients  *)
(* of a thread_pool with one pushing thread and one worker are.            *)
(***************************************************************************)
OneEach == \E p, c : p # c /\ Producers = {p} /\ Consumers = {c}

producer == CHOOSE t \in Producers : TRUE
consumer == CHOOSE t \in Consumers : TRUE

(* The ticket of each side is the last one that was taken, or the next.    *)
AloneInv ==
  /\ pc[producer] \in {"idle"} \cup PushPcs
  /\ pc[consumer] \in {"idle"} \cup PopPcs
  /\ pc[producer] \in {"push_check", "push_reserve"} => idx[producer] = tail_write
  /\ pc[producer] \in {"push_store", "push_flag"} => Inc(idx[producer]) = tail_write
  /\ pc[producer] \in {"push_turn", "push_ready", "push_publish"} =>
       tail_write \in {idx[producer], Inc(idx[producer])}
  /\ pc[consumer] \in {"pop_check", "pop_reserve"} => idx[consumer] = head_read
  /\ pc[consumer] \in {"pop_take", "pop_flag"} => Inc(idx[consumer]) = head_read
  /\ pc[consumer] \in {"pop_turn", "pop_ready", "pop_publish"} =>
       head_read \in {idx[consumer], Inc(idx[consumer])}

LEMMA TheTwo ==
  ASSUME OneEach
  PROVE  /\ producer # consumer
         /\ Producers = {producer} /\ Consumers = {consumer}
         /\ Threads = {producer, consumer}
         /\ producer \in Threads /\ consumer \in Threads
PROOF
  BY DEF OneEach, producer, consumer, Threads

LEMMA NextOfTwo ==
  ASSUME OneEach, Next
  PROVE  \/ PushStep(producer) \/ \E v \in Values : PushLoad(producer, v)
         \/ PopStep(consumer) \/ PopLoad(consumer)
PROOF
  BY TheTwo DEF Next

LEMMA AloneIsInTime ==
  ASSUME OneEach, TypeOK, AloneInv
  PROVE  NotOvertaken
PROOF
  <1>1. \A t \in Threads : idx[t] \in Indices
    BY DEF TypeOK
  <1>2. \A i \in Indices : Dist(i, i) <= Size /\ Dist(i, Inc(i)) <= Size /\ Inc(i) # i
    BY DistNext, SizeFacts, IncFacts
  <1>3. tail_write \in Indices /\ head_read \in Indices
    BY DEF TypeOK
  <1> QED
    BY <1>1, <1>2, <1>3, TheTwo DEF AloneInv, NotOvertaken, PushPcs, PopPcs

LEMMA AloneStep ==
  ASSUME OneEach PROVE QueueInv /\ AloneInv /\ [Next]_vars => AloneInv'
PROOF
  <1> SUFFICES ASSUME QueueInv, AloneInv, [Next]_vars PROVE AloneInv'
    OBVIOUS
  <1>1. /\ pc \in [Threads -> {"idle"} \cup PushPcs \cup PopPcs]
        /\ idx \in [Threads -> Indices]
    BY DEF QueueInv, TypeOK
  <1>2. CASE PushStep(producer) \/ \E v \in Values : PushLoad(producer, v)
    <2>1. /\ pc'[consumer] = pc[consumer] /\ idx'[consumer] = idx[consumer]
          /\ head_read' = head_read
      BY <1>1, <1>2, TheTwo
      DEF PushStep, PushLoad, PushCheck, PushReserve, PushRetry, PushStore, PushFlag, PushTurn,
          PushReady, PushPublish, Goto, Return, head
    <2>2. pc[producer] = "push_publish" => idx[producer] # tail_write
      BY TheTwo, Claimed
    <2> QED
      BY <1>1, <1>2, <2>1, <2>2, TheTwo
      DEF AloneInv, PushPcs, PushStep, PushLoad, PushCheck, PushReserve, PushRetry, PushStore,
          PushFlag, PushTurn, PushReady, PushPublish, Goto, Return, tail
  <1>3. CASE PopStep(consumer) \/ PopLoad(consumer)
    <2>1. /\ pc'[producer] = pc[producer] /\ idx'[producer] = idx[producer]
          /\ tail_write' = tail_write
      BY <1>1, <1>3, TheTwo
      DEF PopStep, PopLoad, PopCheck, PopReserve, PopRetry, PopTake, PopFlag, PopTurn,
          PopReady, PopPublish, Goto, Return, tail
    <2>2. pc[consumer] = "pop_publish" => idx[consumer] # head_read
      BY TheTwo, Claimed
    <2> QED
      BY <1>1, <1>3, <2>1, <2>2, TheTwo
      DEF AloneInv, PopPcs, PopStep, PopLoad, PopCheck, PopReserve, PopRetry, PopTake,
          PopFlag, PopTurn, PopReady, PopPublish, Goto, Return, head
  <1>4. CASE UNCHANGED vars
    BY <1>4 DEF vars, AloneInv
  <1> QED
    BY <1>2, <1>3, <1>4, NextOfTwo

(* So the invariant holds of them without a hypothesis.                    *)
THEOREM SpscInvAlways == ASSUME OneEach PROVE Spec => [](QueueInv /\ AloneInv)
PROOF
  <1>1. Init => QueueInv /\ AloneInv
    BY QueueInvInit, TheTwo DEF Init, AloneInv, PushPcs, PopPcs
  <1>2. QueueInv /\ AloneInv /\ [Next]_vars => QueueInv' /\ AloneInv'
    <2>1. QueueInv /\ AloneInv => NotOvertaken
      BY AloneIsInTime DEF QueueInv
    <2> QED
      BY <2>1, QueueInvStep, AloneStep
  <1> QED
    BY <1>1, <1>2, PTL DEF Spec

(* One producer and one consumer are never overtaken: each takes its next  *)
(* ticket only after it has left the flag of the one before.               *)
THEOREM SpscNotOvertaken == ASSUME OneEach PROVE Spec => []NotOvertaken
PROOF
  <1>1. QueueInv /\ AloneInv => NotOvertaken
    BY AloneIsInTime DEF QueueInv
  <1>2. Spec => [](QueueInv /\ AloneInv)
    BY SpscInvAlways
  <1> QED
    BY <1>1, <1>2, PTL

(* push and pop are never inside accesses to one cell of data_.            *)
THEOREM SpscCellExclusive == ASSUME OneEach PROVE Spec => []CellExclusive
PROOF
  <1>1. Spec => []NotOvertaken
    BY SpscNotOvertaken
  <1> QED
    BY <1>1, QueueCellExclusive

(* No item is left behind where no pop finds it (tail_read_) once push has *)
(* returned.                                                               *)
THEOREM SpscNoStrandedItem == ASSUME OneEach PROVE Spec => []NoStrandedItem
PROOF
  <1>1. Spec => []NotOvertaken
    BY SpscNotOvertaken
  <1> QED
    BY <1>1, QueueNoStrandedItem

(* No item is lost, handed out twice, reordered or handed out before it    *)
(* has been written.                                                       *)
THEOREM SpscImplementsTicketFifo == ASSUME OneEach PROVE Spec => ImplementsTicketFifo
PROOF
  <1>1. Spec => []NotOvertaken
    BY SpscNotOvertaken
  <1> QED
    BY <1>1, QueueImplementsTicketFifo

-------------------------------------------------------------------------------
(***************************************************************************)
(* Then one side alone. A single producer, the one thread that pushes into *)
(* a thread_pool with any number of workers, meets nobody in the counters  *)
(* and flags of its side, whatever becomes of the tickets of the other     *)
(* side: it publishes each of its tickets itself before it returns. So     *)
(* does a single consumer.                                                 *)
(***************************************************************************)
OneProducer == \E p : Producers = {p}
OneConsumer == \E c : Consumers = {c}

Lowered(check) == \A x \in Cells : ~ check[x]
Alone(check, i) == \A x \in Cells : check[x] <=> x = ArrayIdx(i)

(* One ticket at a time, with its flag while the call looks for it.        *)
SoleProducerInv ==
  /\ \A t \in Threads : pc[t] \in PushPcs => t = producer
  /\ pc[producer] \in {"push_check", "push_reserve"} => idx[producer] = tail_write
  /\ CASE pc[producer] \in {"push_store", "push_flag", "push_publish"} ->
            /\ idx[producer] = tail_read /\ tail_write = Inc(tail_read)
            /\ Lowered(check_write)
       [] pc[producer] \in {"push_turn", "push_ready"} ->
            /\ idx[producer] = tail_read
            /\ \/ tail_write = tail_read /\ Lowered(check_write)
               \/ tail_write = Inc(tail_read) /\ Alone(check_write, tail_read)
       [] OTHER -> tail_write = tail_read /\ Lowered(check_write)

LEMMA SoleProducer ==
  ASSUME OneProducer
  PROVE  producer \in Threads /\ Producers = {producer}
PROOF
  BY DEF OneProducer, producer, Threads

LEMMA SoleProducerInit == ASSUME OneProducer PROVE Init => SoleProducerInv
PROOF
  BY SoleProducer DEF Init, SoleProducerInv, PushPcs, Lowered

LEMMA SoleProducerStep ==
  ASSUME OneProducer PROVE TypeOK /\ SoleProducerInv /\ [Next]_vars => SoleProducerInv'
PROOF
  <1> SUFFICES ASSUME TypeOK, SoleProducerInv, [Next]_vars PROVE SoleProducerInv'
    OBVIOUS
  <1>1. /\ pc \in [Threads -> {"idle"} \cup PushPcs \cup PopPcs]
        /\ idx \in [Threads -> Indices] /\ check_write \in [Cells -> BOOLEAN]
        /\ tail_read \in Indices /\ tail_write \in Indices
    BY DEF TypeOK
  <1>2. producer \in Threads /\ Producers = {producer}
    BY SoleProducer
  <1>3. ArrayIdx(tail_read) \in Cells
    BY <1>1, ArrayIdxIsCell
  <1>4. CASE \E t \in Consumers : PopStep(t) \/ PopLoad(t)
    <2>1. PICK t \in Consumers : PopStep(t) \/ PopLoad(t)
      BY <1>4
    <2>2. /\ t \in Threads /\ UNCHANGED tail
          /\ pc[t] \notin PushPcs /\ pc'[t] \notin PushPcs
          /\ \A u \in Threads \ {t} : pc'[u] = pc[u] /\ idx'[u] = idx[u]
      BY <1>1, <2>1
      DEF Threads, PopStep, PopLoad, PopCheck, PopReserve, PopRetry, PopTake, PopFlag, PopTurn,
          PopReady, PopPublish, Goto, Return, PushPcs
    <2>3. CASE t = producer
      BY <1>2, <2>2, <2>3 DEF SoleProducerInv, PushPcs, tail
    <2>4. CASE t # producer
      BY <1>2, <2>2, <2>4 DEF SoleProducerInv, tail
    <2> QED
      BY <2>3, <2>4
  <1>5. CASE PushStep(producer) \/ \E v \in Values : PushLoad(producer, v)
    <2>1. \A t \in Threads : pc'[t] \in PushPcs => t = producer
      BY <1>1, <1>2, <1>5
      DEF SoleProducerInv, PushStep, PushLoad, PushCheck, PushReserve, PushRetry, PushStore,
          PushFlag, PushTurn, PushReady, PushPublish, Goto, Return
    <2> USE <1>1, <1>2, <1>3, <2>1 DEF SoleProducerInv, Goto, Return, tail, Lowered, Alone
    <2>2. CASE PushCheck(producer) \/ PushRetry(producer)
               \/ \E v \in Values : PushLoad(producer, v)
      BY <2>2 DEF PushLoad, PushCheck, PushRetry
    <2>3. CASE PushReserve(producer) \/ PushStore(producer)
      BY <2>3 DEF PushReserve, PushStore
    <2>4. CASE PushFlag(producer) \/ PushTurn(producer)
      BY <2>4 DEF PushFlag, PushTurn
    <2>5. CASE PushReady(producer)
      BY <2>5 DEF PushReady
    <2>6. CASE PushPublish(producer)
      BY <2>6 DEF PushPublish
    <2> QED
      BY <1>5, <2>2, <2>3, <2>4, <2>5, <2>6 DEF PushStep
  <1>6. CASE UNCHANGED vars
    BY <1>6 DEF vars, SoleProducerInv
  <1> QED
    BY <1>2, <1>4, <1>5, <1>6 DEF Next

LEMMA SoleProducerAlways ==
  ASSUME OneProducer PROVE Spec => [](TypeOK /\ SoleProducerInv)
PROOF
  <1>1. Init => TypeOK /\ SoleProducerInv
    BY TypeOKInit, SoleProducerInit
  <1>2. TypeOK /\ SoleProducerInv /\ [Next]_vars => TypeOK' /\ SoleProducerInv'
    BY TypeOKStep, SoleProducerStep
  <1> QED
    BY <1>1, <1>2, PTL DEF Spec

(* What a single producer pushed is visible when push returns, with any    *)
(* number of consumers and without a hypothesis on how fast they are.      *)
THEOREM OneProducerNoStrandedItem == ASSUME OneProducer PROVE Spec => []NoStrandedItem
PROOF
  <1>1. SoleProducerInv => NoStrandedItem
    BY SoleProducer DEF SoleProducerInv, NoStrandedItem, PushPcs
  <1> QED
    BY <1>1, SoleProducerAlways, PTL

SoleConsumerInv ==
  /\ \A t \in Threads : pc[t] \in PopPcs => t = consumer
  /\ pc[consumer] \in {"pop_check", "pop_reserve"} => idx[consumer] = head_read
  /\ CASE pc[consumer] \in {"pop_take", "pop_flag", "pop_publish"} ->
            /\ idx[consumer] = head_write /\ head_read = Inc(head_write)
            /\ Lowered(check_read)
       [] pc[consumer] \in {"pop_turn", "pop_ready"} ->
            /\ idx[consumer] = head_write
            /\ \/ head_read = head_write /\ Lowered(check_read)
               \/ head_read = Inc(head_write) /\ Alone(check_read, head_write)
       [] OTHER -> head_read = head_write /\ Lowered(check_read)

LEMMA SoleConsumer ==
  ASSUME OneConsumer
  PROVE  consumer \in Threads /\ Consumers = {consumer}
PROOF
  BY DEF OneConsumer, consumer, Threads

LEMMA SoleConsumerInit == ASSUME OneConsumer PROVE Init => SoleConsumerInv
PROOF
  BY SoleConsumer DEF Init, SoleConsumerInv, PopPcs, Lowered

LEMMA SoleConsumerStep ==
  ASSUME OneConsumer PROVE TypeOK /\ SoleConsumerInv /\ [Next]_vars => SoleConsumerInv'
PROOF
  <1> SUFFICES ASSUME TypeOK, SoleConsumerInv, [Next]_vars PROVE SoleConsumerInv'
    OBVIOUS
  <1>1. /\ pc \in [Threads -> {"idle"} \cup PushPcs \cup PopPcs]
        /\ idx \in [Threads -> Indices] /\ check_read \in [Cells -> BOOLEAN]
        /\ head_read \in Indices /\ head_write \in Indices
    BY DEF TypeOK
  <1>2. consumer \in Threads /\ Consumers = {consumer}
    BY SoleConsumer
  <1>3. ArrayIdx(head_write) \in Cells
    BY <1>1, ArrayIdxIsCell
  <1>4. CASE \E t \in Producers : PushStep(t) \/ \E v \in Values : PushLoad(t, v)
    <2>1. PICK t \in Producers : PushStep(t) \/ \E v \in Values : PushLoad(t, v)
      BY <1>4
    <2>2. /\ t \in Threads /\ UNCHANGED head
          /\ pc[t] \notin PopPcs /\ pc'[t] \notin PopPcs
          /\ \A u \in Threads \ {t} : pc'[u] = pc[u] /\ idx'[u] = idx[u]
      BY <1>1, <2>1
      DEF Threads, PushStep, PushLoad, PushCheck, PushReserve, PushRetry, PushStore, PushFlag,
          PushTurn, PushReady, PushPublish, Goto, Return, PopPcs
    <2>3. CASE t = consumer
      BY <1>2, <2>2, <2>3 DEF SoleConsumerInv, PopPcs, head
    <2>4. CASE t # consumer
      BY <1>2, <2>2, <2>4 DEF SoleConsumerInv, head
    <2> QED
      BY <2>3, <2>4
  <1>5. CASE PopStep(consumer) \/ PopLoad(consumer)
    <2>1. \A t \in Threads : pc'[t] \in PopPcs => t = consumer
      BY <1>1, <1>2, <1>5
      DEF SoleConsumerInv, PopStep, PopLoad, PopCheck, PopReserve, PopRetry, PopTake, PopFlag,
          PopTurn, PopReady, PopPublish, Goto, Return
    <2> USE <1>1, <1>2, <1>3, <2>1 DEF SoleConsumerInv, Goto, Return, head, Lowered, Alone
    <2>2. CASE PopCheck(consumer) \/ PopRetry(consumer) \/ PopLoad(consumer)
      BY <2>2 DEF PopLoad, PopCheck, PopRetry
    <2>3. CASE PopReserve(consumer) \/ PopTake(consumer)
      BY <2>3 DEF PopReserve, PopTake
    <2>4. CASE PopFlag(consumer) \/ PopTurn(consumer)
      BY <2>4 DEF PopFlag, PopTurn
    <2>5. CASE PopReady(consumer)
      BY <2>5 DEF PopReady
    <2>6. CASE PopPublish(consumer)
      BY <2>6 DEF PopPublish
    <2> QED
      BY <1>5, <2>2, <2>3, <2>4, <2>5, <2>6 DEF PopStep
  <1>6. CASE UNCHANGED vars
    BY <1>6 DEF vars, SoleConsumerInv
  <1> QED
    BY <1>2, <1>4, <1>5, <1>6 DEF Next

LEMMA SoleConsumerAlways ==
  ASSUME OneConsumer PROVE Spec => [](TypeOK /\ SoleConsumerInv)
PROOF
  <1>1. Init => TypeOK /\ SoleConsumerInv
    BY TypeOKInit, SoleConsumerInit
  <1>2. TypeOK /\ SoleConsumerInv /\ [Next]_vars => TypeOK' /\ SoleConsumerInv'
    BY TypeOKStep, SoleConsumerStep
  <1> QED
    BY <1>1, <1>2, PTL DEF Spec

(* The cell that a single consumer emptied is free when pop returns, with  *)
(* any number of producers and without a hypothesis on how fast they are.  *)
THEOREM OneConsumerNoStrandedCell == ASSUME OneConsumer PROVE Spec => []NoStrandedCell
PROOF
  <1>1. SoleConsumerInv => NoStrandedCell
    BY SoleConsumer DEF SoleConsumerInv, NoStrandedCell, PopPcs
  <1> QED
    BY <1>1, SoleConsumerAlways, PTL

(* So only the side with several clients can be overtaken.                 *)
PushesInTime == \A t \in Threads :
  /\ pc[t] = "push_ready"   => Dist(idx[t], tail_write) <= Size
  /\ pc[t] = "push_reserve" => idx[t] # Inc(tail_write)

PopsInTime == \A t \in Threads :
  /\ pc[t] = "pop_ready"   => Dist(idx[t], head_read) <= Size
  /\ pc[t] = "pop_reserve" => idx[t] # Inc(head_read)

(* With one producer what holds of calls that are not overtaken asks       *)
(* nothing of the pushes any more.                                         *)
THEOREM OneProducerNotOvertaken ==
  ASSUME OneProducer PROVE Spec /\ []PopsInTime => []NotOvertaken
PROOF
  <1>1. TypeOK /\ SoleProducerInv /\ PopsInTime => NotOvertaken
    <2> SUFFICES ASSUME TypeOK, SoleProducerInv, PopsInTime PROVE NotOvertaken
      OBVIOUS
    <2>1. tail_read \in Indices /\ tail_write \in Indices
      BY DEF TypeOK
    <2>2. \A i \in Indices : Dist(i, i) <= Size /\ Dist(i, Inc(i)) <= Size /\ Inc(i) # i
      BY DistNext, SizeFacts, IncFacts
    <2> QED
      BY <2>1, <2>2 DEF SoleProducerInv, PopsInTime, NotOvertaken, PushPcs
  <1> QED
    BY <1>1, SoleProducerAlways, PTL

(* Nor of the pops with one consumer.                                      *)
THEOREM OneConsumerNotOvertaken ==
  ASSUME OneConsumer PROVE Spec /\ []PushesInTime => []NotOvertaken
PROOF
  <1>1. TypeOK /\ SoleConsumerInv /\ PushesInTime => NotOvertaken
    <2> SUFFICES ASSUME TypeOK, SoleConsumerInv, PushesInTime PROVE NotOvertaken
      OBVIOUS
    <2>1. head_read \in Indices /\ head_write \in Indices
      BY DEF TypeOK
    <2>2. \A i \in Indices : Dist(i, i) <= Size /\ Dist(i, Inc(i)) <= Size /\ Inc(i) # i
      BY DistNext, SizeFacts, IncFacts
    <2> QED
      BY <2>1, <2>2 DEF SoleConsumerInv, PushesInTime, NotOvertaken, PopPcs
  <1> QED
    BY <1>1, SoleConsumerAlways, PTL

(* What a refusal is.                                                      *)
Honest ==
  \A t \in Threads :
    /\ pc[t] = "push_check" /\ pc'[t] = "idle" => Dist(head_write, tail_write) = Size
    /\ pc[t] = "pop_check" /\ pc'[t] = "idle" => head_read = tail_read

(* It compares the ticket that was loaded with the other side's counter.   *)
LEMMA Refusal ==
  ASSUME TypeOK, [Next]_vars, NEW t \in Threads, pc'[t] = "idle"
  PROVE  /\ pc[t] = "push_check" => IsFull(head_write, idx[t])
         /\ pc[t] = "pop_check" => IsEmpty(idx[t], tail_read)
PROOF
  <1>1. pc \in [Threads -> {"idle"} \cup PushPcs \cup PopPcs]
    BY DEF TypeOK
  <1>2. ASSUME NEW u \in Threads,
               \/ PushStep(u) \/ \E v \in Values : PushLoad(u, v)
               \/ PopStep(u) \/ PopLoad(u)
        PROVE  /\ pc[t] = "push_check" => IsFull(head_write, idx[t])
               /\ pc[t] = "pop_check" => IsEmpty(idx[t], tail_read)
    BY <1>1, <1>2
    DEF PushStep, PushLoad, PushCheck, PushReserve, PushRetry, PushStore, PushFlag, PushTurn,
        PushReady, PushPublish, PopStep, PopLoad, PopCheck, PopReserve, PopRetry, PopTake,
        PopFlag, PopTurn, PopReady, PopPublish, Goto, Return
  <1>3. CASE UNCHANGED vars
    BY <1>3 DEF vars
  <1> QED
    BY <1>2, <1>3 DEF Next, Threads

(***************************************************************************)
(* How stale the loaded ticket of a call may be when it is judged. A push  *)
(* has one of the ring, or one that left it less than Size cells ago: what *)
(* size_ makes of an older one may be anything, it masks one counter and   *)
(* not the other. A pop has not been overtaken by all counter values.      *)
(***************************************************************************)
TicketsFresh ==
  \A t \in Threads :
    /\ pc[t] = "push_check" => \/ Dist(head_write, idx[t]) <= Dist(head_write, tail_write)
                              \/ Dist(idx[t], head_write) < Size
    /\ pc[t] = "pop_check"  => Dist(idx[t], head_read) < IndexMod - Size

(* A ticket that left the ring less than Size cells ago does not look as   *)
(* if the ring were full.                                                  *)
LEMMA LateIsNotFull ==
  ASSUME NEW h \in Indices, NEW i \in Indices, Dist(i, h) < Size
  PROVE  ~ IsFull(h, i)
PROOF
  <1>1. /\ Size \in Nat /\ Size > 0 /\ h \in Nat /\ i \in Nat /\ IndexMod \in Nat
        /\ h < IndexMod /\ i < IndexMod /\ IndexMod > Size
    BY SizeFacts DEF Indices
  <1>2. CASE i = h
    BY <1>1, <1>2 DEF IsFull, SizeOf
  <1>3. CASE i > h
    <2>1. PICK q \in Nat : IndexMod = q * Size
      BY SizeFacts
    <2>2. (q - 1) * Size = IndexMod - Size
      BY <1>1, <2>1
    <2>3. ~ (0 < IndexMod - Size /\ IndexMod - Size < Size)
      BY <1>1, <2>1, <2>2, NoMultiple
    <2> QED
      BY <1>1, <1>3, <2>3 DEF IsFull, SizeOf, Dist
  <1>4. CASE i < h
    <2>1. h - i < Size
      BY <1>1, <1>4 DEF Dist
    <2> DEFINE a == h \div Size
    <2>2. a \in Nat /\ h = a * Size + (h % Size) /\ h % Size \in 0 .. Size - 1
      BY <1>1
    <2> HIDE DEF a
    <2>3. ~ (0 < a * Size /\ a * Size < Size)
      BY <1>1, <2>2, NoMultiple
    <2>4. i # h % Size
      BY <1>1, <1>4, <2>1, <2>2, <2>3
    <2> QED
      BY <1>1, <1>4, <2>2, <2>4 DEF IsFull, SizeOf, ArrayIdx
  <1> QED
    BY <1>1, <1>2, <1>3, <1>4

LEMMA FreshIsHonest ==
  ASSUME QueueInv, TicketsFresh, [Next]_vars
  PROVE  Honest
PROOF
  <1>1. /\ TypeOK /\ RingInv
        /\ head_write \in Indices /\ tail_write \in Indices
        /\ head_read \in Indices /\ tail_read \in Indices
        /\ \A t \in Threads : idx[t] \in Indices
    BY RingFacts DEF QueueInv, TypeOK
  <1>2. Dist(head_write, tail_write) \in Nat /\ Dist(head_write, tail_write) <= Size
    BY <1>1, RingFacts, DistFacts DEF RingInv
  <1>3. ASSUME NEW t \in Threads, pc[t] = "push_check", pc'[t] = "idle"
        PROVE  Dist(head_write, tail_write) = Size
    <2>1. IsFull(head_write, idx[t])
      BY <1>1, <1>3, Refusal
    <2>2. Dist(head_write, idx[t]) <= Dist(head_write, tail_write)
      BY <1>1, <1>3, <2>1, LateIsNotFull DEF TicketsFresh
    <2>3. Dist(head_write, idx[t]) \in Nat /\ Dist(head_write, idx[t]) <= Size
      BY <1>1, <1>2, <2>2, DistFacts, SizeFacts
    <2>4. Dist(head_write, idx[t]) = Size
      BY <1>1, <2>1, <2>3, FullIsSize
    <2> QED
      BY <1>2, <2>2, <2>4, SizeFacts
  <1>4. ASSUME NEW t \in Threads, pc[t] = "pop_check", pc'[t] = "idle"
        PROVE  head_read = tail_read
    <2>1. idx[t] = tail_read
      BY <1>1, <1>4, Refusal DEF IsEmpty
    <2>2. Dist(tail_read, head_read) < IndexMod - Size
      BY <1>4, <2>1 DEF TicketsFresh
    <2>3. Dist(head_read, tail_read) <= Size
      BY <1>1, RingFacts, SizeFacts DEF RingInv
    <2> QED
      BY <1>1, <2>2, <2>3, SizeFacts DEF Dist, Indices
  <1> QED
    BY <1>3, <1>4 DEF Honest

(* However many threads there are and however often the ring fills and the *)
(* counters wrap: push gives up on a full ring only, pop on an empty one,  *)
(* as long as the tickets they judge are not too stale.                    *)
THEOREM QueueRefusalIsHonest ==
  Spec /\ []NotOvertaken /\ []TicketsFresh => RefusalIsHonest
PROOF
  <1>1. QueueInv /\ TicketsFresh /\ [Next]_vars => [Honest]_vars
    BY FreshIsHonest
  <1> QED
    BY <1>1, QueueInvAlways, PTL DEF Spec, RefusalIsHonest, Honest

(* push gives up on a full ring only, pop on an empty one.                 *)
THEOREM SpscRefusalIsHonest == ASSUME OneEach PROVE Spec => RefusalIsHonest
PROOF
  <1>1. QueueInv /\ AloneInv /\ [Next]_vars => [Honest]_vars
    <2> SUFFICES ASSUME QueueInv, AloneInv, [Next]_vars PROVE Honest
      OBVIOUS
    <2>1. TypeOK /\ RingInv /\ head_write \in Indices /\ tail_write \in Indices
      BY RingFacts DEF QueueInv
    <2>2. Dist(head_write, tail_write) <= Size
      BY <2>1, RingFacts DEF RingInv
    <2>3. ASSUME NEW t \in Threads, pc[t] = "push_check", pc'[t] = "idle"
          PROVE  Dist(head_write, tail_write) = Size
      <3>1. idx[t] = tail_write
        BY <2>3, TheTwo DEF AloneInv, PopPcs
      <3> QED
        BY <2>1, <2>2, <2>3, <3>1, Refusal, FullIsSize
    <2>4. ASSUME NEW t \in Threads, pc[t] = "pop_check", pc'[t] = "idle"
          PROVE  head_read = tail_read
      <3>1. idx[t] = head_read
        BY <2>4, TheTwo DEF AloneInv, PushPcs
      <3> QED
        BY <2>1, <2>4, <3>1, Refusal DEF IsEmpty
    <2> QED
      BY <2>3, <2>4 DEF Honest
  <1>2. Spec => [](QueueInv /\ AloneInv)
    BY SpscInvAlways
  <1> QED
    BY <1>1, <1>2, PTL DEF Spec, RefusalIsHonest, Honest

-------------------------------------------------------------------------------
(***************************************************************************)
(* Second, any number of producers and consumers that push at most n items *)
(* into n cells or more, as the clients of run queue_mpmc do.              *)
(***************************************************************************)
AtMost(n) == [][tail_write' = tail_write \/ tail_write < n]_vars

(* The counters have not come round.                                       *)
FirstInv(n) ==
  /\ head_write <= head_read /\ head_read <= tail_read /\ tail_read <= tail_write
  /\ tail_write <= n
  /\ \A t \in Threads : /\ pc[t] \in PushPcs => idx[t] <= tail_write
                        /\ pc[t] \in PopPcs => idx[t] <= head_read

LEMMA FirstIsInTime ==
  ASSUME NEW n \in 0 .. Size, TypeOK, FirstInv(n)
  PROVE  NotOvertaken
PROOF
  <1>1. /\ head_read \in Indices /\ tail_write \in Indices
        /\ \A t \in Threads : idx[t] \in Indices
    BY DEF TypeOK
  <1>2. head_read <= Size /\ tail_write <= Size
    BY <1>1, SizeFacts DEF FirstInv, TypeOK, Indices
  <1>3. Inc(tail_write) = tail_write + 1 /\ Inc(head_read) = head_read + 1
    BY <1>1, <1>2, SizeFacts, IncFacts DEF Indices
  <1> QED
    BY <1>1, <1>2, <1>3, SizeFacts DEF FirstInv, NotOvertaken, Dist, Indices, PushPcs, PopPcs

LEMMA FirstStep ==
  ASSUME NEW n \in Indices
  PROVE  QueueInv /\ FirstInv(n) /\ [Next]_vars
           /\ [tail_write' = tail_write \/ tail_write < n]_vars => FirstInv(n)'
PROOF
  <1> SUFFICES ASSUME QueueInv, FirstInv(n), [Next]_vars,
                      [tail_write' = tail_write \/ tail_write < n]_vars
               PROVE  FirstInv(n)'
    OBVIOUS
  <1>1. /\ pc \in [Threads -> {"idle"} \cup PushPcs \cup PopPcs]
        /\ idx \in [Threads -> Indices]
        /\ head_read \in Indices /\ head_write \in Indices
        /\ tail_read \in Indices /\ tail_write \in Indices
    BY DEF QueueInv, TypeOK
  <1>2. /\ head_read \in Nat /\ head_write \in Nat /\ tail_read \in Nat /\ tail_write \in Nat
        /\ \A t \in Threads : idx[t] \in Nat
    BY <1>1, SizeFacts DEF Indices
  <1>3. \A i \in Indices : i < IndexMod - 1 => Inc(i) = i + 1
    BY IncFacts, SizeFacts DEF Indices
  <1>4. n \in Nat /\ n <= IndexMod - 1 /\ tail_write <= IndexMod - 1 /\ IndexMod \in Nat
    BY <1>2, SizeFacts DEF FirstInv, Indices
  <1>5. tail_write' = tail_write \/ tail_write < n
    BY DEF vars
  <1>6. ASSUME NEW t \in Threads, PushStep(t) \/ \E v \in Values : PushLoad(t, v)
        PROVE  FirstInv(n)'
    <2>1. /\ head_read' = head_read /\ head_write' = head_write
          /\ pc'[t] \in {"idle"} \cup PushPcs
          /\ \A u \in Threads : u # t => pc'[u] = pc[u] /\ idx'[u] = idx[u]
      BY <1>1, <1>6
      DEF PushStep, PushLoad, PushCheck, PushReserve, PushRetry, PushStore, PushFlag, PushTurn,
          PushReady, PushPublish, Goto, Return, head, PushPcs
    <2>2. CASE PushReserve(t)
      <3>1. /\ tail_write' = Inc(tail_write) /\ tail_read' = tail_read /\ idx' = idx
            /\ idx[t] = tail_write
        BY <2>2 DEF PushReserve
      <3>2. tail_write < n
        BY <1>1, <1>5, <3>1, IncFacts
      <3>3. tail_write' = tail_write + 1 /\ tail_write' <= n
        BY <1>1, <1>2, <1>3, <1>4, <3>1, <3>2
      <3> QED
        BY <1>2, <2>1, <3>1, <3>2, <3>3 DEF FirstInv, PushPcs, PopPcs
    <2>3. CASE PushPublish(t)
      <3>1. idx[t] = tail_read /\ tail_read # tail_write
        BY <2>3, Claimed DEF PushPublish
      <3>2. tail_read < tail_write
        BY <1>2, <3>1 DEF FirstInv
      <3>3. /\ tail_read' = tail_read + 1 /\ idx'[t] = tail_read + 1 /\ tail_write' = tail_write
        BY <1>1, <1>2, <1>3, <1>4, <2>3, <3>1, <3>2, SizeFacts DEF PushPublish
      <3> QED
        BY <1>2, <2>1, <3>2, <3>3 DEF FirstInv, PushPcs, PopPcs
    <2>4. CASE \/ PushCheck(t) \/ PushRetry(t) \/ PushStore(t) \/ PushFlag(t) \/ PushTurn(t)
               \/ PushReady(t) \/ \E v \in Values : PushLoad(t, v)
      <3>1. /\ tail_read' = tail_read /\ tail_write' = tail_write
            /\ pc'[t] \in PushPcs => idx'[t] = tail_write \/ (pc[t] \in PushPcs /\ idx'[t] = idx[t])
        BY <1>1, <2>4
        DEF PushLoad, PushCheck, PushRetry, PushStore, PushFlag, PushTurn, PushReady,
            Goto, Return, tail, PushPcs
      <3> QED
        BY <1>2, <2>1, <3>1 DEF FirstInv, PushPcs, PopPcs
    <2> QED
      BY <1>6, <2>2, <2>3, <2>4 DEF PushStep
  <1>7. ASSUME NEW t \in Threads, PopStep(t) \/ PopLoad(t)
        PROVE  FirstInv(n)'
    <2>1. /\ tail_read' = tail_read /\ tail_write' = tail_write
          /\ pc'[t] \in {"idle"} \cup PopPcs
          /\ \A u \in Threads : u # t => pc'[u] = pc[u] /\ idx'[u] = idx[u]
      BY <1>1, <1>7
      DEF PopStep, PopLoad, PopCheck, PopReserve, PopRetry, PopTake, PopFlag, PopTurn,
          PopReady, PopPublish, Goto, Return, tail, PopPcs
    <2>2. CASE PopReserve(t)
      <3>1. head_read # tail_read
        BY <2>2, FirstItem
      <3>2. head_read < tail_read /\ head_read < IndexMod - 1
        BY <1>2, <1>4, <3>1, SizeFacts DEF FirstInv
      <3>3. /\ head_read' = head_read + 1 /\ head_write' = head_write /\ idx' = idx
            /\ idx[t] = head_read
        BY <1>1, <1>3, <2>2, <3>2 DEF PopReserve
      <3> QED
        BY <1>2, <2>1, <3>2, <3>3 DEF FirstInv, PushPcs, PopPcs
    <2>3. CASE PopPublish(t)
      <3>1. idx[t] = head_write /\ head_write # head_read
        BY <2>3, Claimed DEF PopPublish
      <3>2. head_write < head_read /\ head_write < IndexMod - 1
        BY <1>2, <1>4, <3>1, SizeFacts DEF FirstInv
      <3>3. /\ head_write' = head_write + 1 /\ idx'[t] = head_write + 1 /\ head_read' = head_read
        BY <1>1, <1>3, <2>3, <3>1, <3>2 DEF PopPublish
      <3> QED
        BY <1>2, <2>1, <3>2, <3>3 DEF FirstInv, PushPcs, PopPcs
    <2>4. CASE \/ PopCheck(t) \/ PopRetry(t) \/ PopTake(t) \/ PopFlag(t) \/ PopTurn(t)
               \/ PopReady(t) \/ PopLoad(t)
      <3>1. /\ head_read' = head_read /\ head_write' = head_write
            /\ pc'[t] \in PopPcs => idx'[t] = head_read \/ (pc[t] \in PopPcs /\ idx'[t] = idx[t])
        BY <1>1, <2>4
        DEF PopLoad, PopCheck, PopRetry, PopTake, PopFlag, PopTurn, PopReady,
            Goto, Return, head, PopPcs
      <3> QED
        BY <1>2, <2>1, <3>1 DEF FirstInv, PushPcs, PopPcs
    <2> QED
      BY <1>7, <2>2, <2>3, <2>4 DEF PopStep
  <1>8. CASE UNCHANGED vars
    BY <1>8 DEF vars, FirstInv
  <1> QED
    BY <1>6, <1>7, <1>8 DEF Next, Threads

LEMMA FirstRoundInit ==
  ASSUME NEW n \in 0 .. Size PROVE Init => QueueInv /\ FirstInv(n)
PROOF
  BY QueueInvInit, SizeFacts DEF Init, FirstInv, PushPcs, PopPcs

LEMMA FirstRoundStep ==
  ASSUME NEW n \in 0 .. Size
  PROVE  QueueInv /\ FirstInv(n) /\ [Next]_vars
           /\ [tail_write' = tail_write \/ tail_write < n]_vars => QueueInv' /\ FirstInv(n)'
PROOF
  <1>1. QueueInv /\ FirstInv(n) => NotOvertaken
    BY FirstIsInTime DEF QueueInv
  <1>2. n \in Indices
    BY SizeFacts DEF Indices
  <1> QED
    BY <1>1, <1>2, QueueInvStep, FirstStep

(* While no cell is used twice no call is overtaken, and everything above  *)
(* holds.                                                                  *)
THEOREM FirstRoundNotOvertaken == Spec /\ AtMost(Size) => []NotOvertaken
PROOF
  <1>1. Size \in 0 .. Size
    BY SizeFacts
  <1>2. QueueInv /\ FirstInv(Size) => NotOvertaken
    BY <1>1, FirstIsInTime DEF QueueInv
  <1>3. Init => QueueInv /\ FirstInv(Size)
    BY <1>1, FirstRoundInit
  <1>4. QueueInv /\ FirstInv(Size) /\ [Next]_vars
          /\ [tail_write' = tail_write \/ tail_write < Size]_vars => QueueInv' /\ FirstInv(Size)'
    BY <1>1, FirstRoundStep
  <1> QED
    BY <1>2, <1>3, <1>4, PTL DEF Spec, AtMost

(* Or any number that keeps fewer than Size cells recycled, as the clients *)
(* of run queue_mpmc do: the ring fills, pushes give up and cells are used *)
(* again, and no ticket is a whole ring behind.                            *)
LEMMA FewPopsStep ==
  ASSUME QueueInv, FirstInv(2 * Size - 1), head_write < Size, [Next]_vars
  PROVE  [tail_write' = tail_write \/ tail_write < 2 * Size - 1]_vars
PROOF
  <1>1. /\ head_write \in Nat /\ tail_write \in Nat /\ Size \in Nat
        /\ head_write <= tail_write
    BY SizeFacts DEF QueueInv, TypeOK, Indices, FirstInv
  <1>2. ASSUME NEW t \in Threads, PushReserve(t)
        PROVE  tail_write < 2 * Size - 1
    <2>1. Dist(head_write, tail_write) < Size
      BY <1>2 DEF PushReserve, QueueInv, RoomInv
    <2> QED
      BY <1>1, <2>1 DEF Dist
  <1>3. ASSUME NEW t \in Threads,
               \/ PushStep(t) \/ \E v \in Values : PushLoad(t, v)
               \/ PopStep(t) \/ PopLoad(t),
               ~ PushReserve(t)
        PROVE  tail_write' = tail_write
    BY <1>3
    DEF PushStep, PushLoad, PushCheck, PushRetry, PushStore, PushFlag, PushTurn,
        PushReady, PushPublish, PopStep, PopLoad, PopCheck, PopReserve, PopRetry, PopTake,
        PopFlag, PopTurn, PopReady, PopPublish, tail
  <1> QED
    BY <1>2, <1>3 DEF Next, Threads

LEMMA FewPopsHonest ==
  ASSUME QueueInv, FirstInv(2 * Size - 1), head_write < Size, [Next]_vars
  PROVE  Honest
PROOF
  <1>1. /\ head_read \in Indices /\ head_write \in Indices
        /\ tail_read \in Indices /\ tail_write \in Indices
        /\ \A t \in Threads : idx[t] \in Indices
        /\ RingInv /\ TypeOK
    BY DEF QueueInv, TypeOK
  <1>2. /\ head_read <= tail_read /\ Size \in Nat
        /\ head_write \in Nat /\ head_read \in Nat /\ tail_read \in Nat /\ tail_write \in Nat
        /\ \A t \in Threads : idx[t] \in Nat
    BY <1>1, SizeFacts DEF FirstInv, Indices
  <1>3. ASSUME NEW t \in Threads, pc[t] = "push_check", pc'[t] = "idle"
        PROVE  Dist(head_write, tail_write) = Size
    <2>1. idx[t] <= tail_write /\ IsFull(head_write, idx[t])
      BY <1>1, <1>3, Refusal DEF FirstInv, PushPcs
    <2>2. ~ Dist(idx[t], head_write) < Size
      BY <1>1, <2>1, LateIsNotFull
    <2>3. idx[t] > head_write
      BY <1>2, <2>2 DEF Dist
    <2>4. Dist(head_write, tail_write) <= Size
      BY <1>1, RingFacts DEF RingInv
    <2> QED
      BY <1>2, <2>1, <2>3, <2>4 DEF IsFull, SizeOf, Dist
  <1>4. ASSUME NEW t \in Threads, pc[t] = "pop_check", pc'[t] = "idle"
        PROVE  head_read = tail_read
    <2>1. idx[t] <= head_read /\ idx[t] = tail_read
      BY <1>1, <1>4, Refusal DEF FirstInv, PopPcs, IsEmpty
    <2> QED
      BY <1>2, <2>1
  <1> QED
    BY <1>3, <1>4 DEF Honest

(* No ticket is stale to begin with when fewer than Size pops are over.    *)
THEOREM FewPopsRefusalIsHonest ==
  Spec /\ []NotOvertaken /\ [](head_write < Size) => RefusalIsHonest
PROOF
  <1> DEFINE FewInv == QueueInv /\ FirstInv(2 * Size - 1)
  <1>1. 2 * Size - 1 \in Indices
    <2>1. PICK q \in Nat : IndexMod = q * Size
      BY SizeFacts
    <2>2. (q - 1) * Size = IndexMod - Size
      BY <2>1, SizeFacts
    <2>3. ~ (0 < IndexMod - Size /\ IndexMod - Size < Size)
      BY <2>1, <2>2, SizeFacts, NoMultiple
    <2> QED
      BY <2>3, SizeFacts DEF Indices
  <1>2. Init => FewInv
    BY QueueInvInit, SizeFacts DEF Init, FirstInv, PushPcs, PopPcs
  <1>3. FewInv /\ NotOvertaken /\ head_write < Size /\ [Next]_vars => FewInv'
    BY <1>1, QueueInvStep, FirstStep, FewPopsStep
  <1>4. FewInv /\ head_write < Size /\ [Next]_vars => [Honest]_vars
    BY FewPopsHonest
  <1> QED
    <2> HIDE DEF FewInv
    <2> QED
      BY <1>2, <1>3, <1>4, PTL DEF Spec, RefusalIsHonest, Honest
=============================================================================
