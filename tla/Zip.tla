---------------------------------- MODULE Zip ----------------------------------
(***************************************************************************)
(* zip: several ranges walked at once, by iterators that are a tuple of an *)
(* iterator into each range. What is kept of an inner iterator is how many *)
(* elements are before it.                                                 *)
(*                                                                         *)
(* A caller does not step past the ends: ++ only where the iterator is not *)
(* end(), -- only where each inner iterator has an element before it.      *)
(*                                                                         *)
(* The specification is named apart from those of the other modules, so    *)
(* that one module may extend it beside another.                           *)
(***************************************************************************)
EXTENDS Integers, FiniteSetsExt

CONSTANTS Ranges, Iterators,
          Shapes       \* the lengths the ranges may have together

ASSUME ZipAssumption == Ranges # {} /\ Shapes \subseteq [Ranges -> Nat]

VARIABLES
  lengths,   \* lengths[r]: the number of elements of range r, in data_
  pos,       \* pos[i]: inner_iterator_ of iterator i
  nth        \* nth[i]: the number of elements of the zip before i, or Unknown

zip_vars == <<lengths, pos, nth>>

Unknown  == -1
Shortest == Min({lengths[r] : r \in Ranges})

begin_iterator   == [r \in Ranges |-> 0]
end_iterator     == lengths
next_iterator(p) == [r \in Ranges |-> p[r] + 1]
prev_iterator(p) == [r \in Ranges |-> p[r] - 1]

make_zip_tuple(p, q) == [r \in Ranges |-> <<p[r], q[r]>>]

(* check_end, for each of the pairs                                        *)
end_detected(pairs) == \E r \in Ranges : pairs[r][1] = pairs[r][2]

(* A fault, not used by the specification: && where the code has ||.       *)
secure_next_OfLongest(p) ==
  IF \A r \in Ranges : next_iterator(p)[r] = end_iterator[r] THEN end_iterator
                                                             ELSE next_iterator(p)

(* A fault, not used by the specification: what is tested for the end is   *)
(* already the next iterator, taken one step further.                      *)
secure_next_Early(p) ==
  IF end_detected(make_zip_tuple(next_iterator(next_iterator(p)), end_iterator))
  THEN end_iterator ELSE next_iterator(p)

(* secure_next_: where one range ends they all do.                         *)
secure_next_(p) ==
  IF end_detected(make_zip_tuple(next_iterator(p), end_iterator)) THEN end_iterator
                                                                  ELSE next_iterator(p)

(* The count goes back and forth with the iterator. It is lost where one   *)
(* at the end of ranges of unequal lengths goes back, which is to other    *)
(* elements than the zip ended with.                                       *)
Back(i) == IF \/ nth[i] = Unknown
              \/ pos[i] = end_iterator /\ \E r \in Ranges : lengths[r] # Shortest
           THEN Unknown ELSE nth[i] - 1

Forth(i) == IF nth[i] = Unknown THEN Unknown ELSE nth[i] + 1

-------------------------------------------------------------------------------
ZipInit ==
  /\ lengths \in Shapes
  /\ pos = [i \in Iterators |-> end_iterator]
  /\ nth = [i \in Iterators |-> Shortest]

(* i = begin() *)
begin(i) ==
  /\ pos' = [pos EXCEPT ![i] = begin_iterator]
  /\ nth' = [nth EXCEPT ![i] = 0]
  /\ UNCHANGED lengths

(* i = end() *)
end(i) ==
  /\ pos' = [pos EXCEPT ![i] = end_iterator]
  /\ nth' = [nth EXCEPT ![i] = Shortest]
  /\ UNCHANGED lengths

(* ++i *)
Increment(i) ==
  /\ pos[i] # end_iterator
  /\ pos' = [pos EXCEPT ![i] = secure_next_(pos[i])]
  /\ nth' = [nth EXCEPT ![i] = Forth(i)]
  /\ UNCHANGED lengths

(* j = i++ *)
PostIncrement(i, j) ==
  /\ i # j /\ pos[i] # end_iterator
  /\ pos' = [pos EXCEPT ![i] = secure_next_(pos[i]), ![j] = pos[i]]
  /\ nth' = [nth EXCEPT ![i] = Forth(i), ![j] = nth[i]]
  /\ UNCHANGED lengths

(* --i *)
Decrement(i) ==
  /\ \A r \in Ranges : pos[i][r] > 0
  /\ pos' = [pos EXCEPT ![i] = prev_iterator(pos[i])]
  /\ nth' = [nth EXCEPT ![i] = Back(i)]
  /\ UNCHANGED lengths

(* j = i-- *)
PostDecrement(i, j) ==
  /\ i # j /\ \A r \in Ranges : pos[i][r] > 0
  /\ pos' = [pos EXCEPT ![i] = prev_iterator(pos[i]), ![j] = pos[i]]
  /\ nth' = [nth EXCEPT ![i] = Back(i), ![j] = nth[i]]
  /\ UNCHANGED lengths

ZipNext == \E i \in Iterators :
          \/ begin(i) \/ end(i) \/ Increment(i) \/ Decrement(i)
          \/ \E j \in Iterators : PostIncrement(i, j) \/ PostDecrement(i, j)

ZipSpec == ZipInit /\ [][ZipNext]_zip_vars

-------------------------------------------------------------------------------
(* Properties                                                              *)

(* get<I>: there is an element to dereference in each of the ranges.       *)
Readable(i) == \A r \in Ranges : pos[i][r] < lengths[r]

(* The loop of range-based for, while(i != end()), reads no range past its *)
(* end, however i came to be where it is: the zip stops at the shortest.   *)
StopsAtShortest == \A i \in Iterators : pos[i] = end_iterator \/ Readable(i)

(* It pairs the n-th elements of all ranges, and leaves none out: after    *)
(* begin() and n steps an iterator is at the n-th elements, or, when n is  *)
(* the length of the shortest range and not before, at end(). Only one     *)
(* that went back from the end of unequal ranges is out of step.           *)
PairsInStep == \A i \in Iterators : nth[i] # Unknown =>
  pos[i] = IF nth[i] = Shortest THEN end_iterator ELSE [r \in Ranges |-> nth[i]]
===============================================================================
