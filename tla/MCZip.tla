--------------------------------- MODULE MCZip ---------------------------------
(* Three ranges, that are all empty or none of them; and one that is alone *)
(* in being empty.                                                         *)
EXTENDS Zip

CONSTANTS i1, i2, r1, r2, r3
TwoIterators == {i1, i2}
ThreeRanges  == {r1, r2, r3}
AllOrNone    == {[r \in ThreeRanges |-> 0]} \cup [ThreeRanges -> 1 .. 3]
AnyLengths   == [ThreeRanges -> 0 .. 2]
===============================================================================
