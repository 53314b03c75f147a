----------------------------- MODULE MCElection -----------------------------
(***************************************************************************)
(* The election with the exclusive or of words.                            *)
(***************************************************************************)
EXTENDS PrvElection

Words == INSTANCE Bitwise

\* (The operands are bound by a set so that TLC computes each of them once.)
XorWords(a, b) == CHOOSE r \in {Words!^^(x, y) : x \in {a}, y \in {b}} : TRUE

PrvHashPrf(seed, l, h) == H!Prf(seed, l, h)
=============================================================================
