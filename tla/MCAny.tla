--------------------------------- MODULE MCAny ---------------------------------
(* One thread has two anys, the other has one.                             *)
EXTENDS Any

CONSTANTS t1, t2, a1, a2, b1, h1, h2, h3, h4, h5
TwoThreads == {t1, t2}
ThreeAnys  == {a1, a2, b1}
OwnerOf    == [a \in ThreeAnys |-> IF a = b1 THEN t2 ELSE t1]
Addresses  == {h1, h2, h3, h4, h5}
Alike      == Permutations(Addresses)
===============================================================================
