--------------------------- MODULE MCStringVector ---------------------------
(* Two vectors and two buffers on a heap of a few blocks whose addresses, like *)
(* the objects themselves, can be exchanged.                                   *)
EXTENDS StringVector, TLC

MCTexts == {<<1>>}
Interchangeable == Permutations(Ids) \cup Permutations(Vectors) \cup Permutations(Buffers)
=============================================================================
