------------------------------- MODULE MCVariant -------------------------------
(* Three variants of two types, the first of which is listed twice.        *)
EXTENDS Variant

CONSTANTS v1, v2, v3
ThreeVariants == {v1, v2, v3}
OneTwice      == <<"int", "string", "int">>
Alike         == Permutations(ThreeVariants)
TwoValues     == {1, 2}
===============================================================================
