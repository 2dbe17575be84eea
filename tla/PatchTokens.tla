----------------------------- MODULE PatchTokens -----------------------------
(***************************************************************************)
(* The tokens of a pointer that name a place in an array                   *)
(* (parseArrayIndex in patch_pointer.go).                                  *)
(***************************************************************************)
EXTENDS Integers, TLC

CONSTANT MaxIndex  \* bound: the array indexes a token can spell

\* A token is an index in its canonical spelling only: "01" is none, nor is "-".
NoIndex == -1
parseArrayIndex(segment) ==
  IF segment # "-" /\ \E n \in 0..MaxIndex : ToString(n) = segment
    THEN CHOOSE n \in 0..MaxIndex : ToString(n) = segment
    ELSE NoIndex
=============================================================================
