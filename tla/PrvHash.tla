------------------------------ MODULE PrvHash ------------------------------
(***************************************************************************)
(* The pseudo-random function of the program: the prvhash round            *)
(* (src/src/sgx/Enclave/pprf/prvhash_core.h) and PPRF::prf, which repeats  *)
(* it.  The header writes the same round once per width (2, 4, ..., 128    *)
(* bits); here the width is the constant W and every sum and product is    *)
(* taken modulo 2^W, as the unsigned C types do.                           *)
(***************************************************************************)
EXTENDS PowersOfTwo

CONSTANTS W,        \* bits of Seed, lcg and Hash: 64 in the program
          Rounds,   \* rounds per call of prf: 2^28 in the program
          Xor(_, _) \* ^ of C

Modulus == Pow2(W)

Word  == 0 .. (Modulus - 1)
Trunc(x) == x % Modulus
State == [seed : Word, lcg : Word, hash : Word]

\* The constants 0x55...5 and 0xAA...A of the width.
Fives == (Modulus - 1) \div 3
Tens  == 2 * Fives

\* Seed >> W/2 | Seed << W/2: the two halves of the word change places.
SwapHalves(x) ==
    LET half == Pow2(W \div 2) IN (x \div half) + (x % half) * half

\* Variant of Core whose factor may be even.
CoreEvenFactor(st) ==
    LET mixed == Trunc(st.seed * (st.lcg * 2))
        rs    == SwapHalves(mixed)
        hash  == Trunc(st.hash + rs + Tens)
        lcg   == Trunc(st.lcg + mixed + Fives)
    IN  [seed |-> Xor(mixed, hash), lcg |-> lcg, hash |-> hash,
         out |-> Xor(lcg, rs)]

\* One round: the new state and the random value it returns.
Core(st) ==
    LET mixed == Trunc(st.seed * (st.lcg * 2 + 1))
        rs    == SwapHalves(mixed)
        hash  == Trunc(st.hash + rs + Tens)
        lcg   == Trunc(st.lcg + mixed + Fives)
    IN  [seed |-> Xor(mixed, hash), lcg |-> lcg, hash |-> hash,
         out |-> Xor(lcg, rs)]

StateOf(r) == [seed |-> r.seed, lcg |-> r.lcg, hash |-> r.hash]

\* PPRF::prf: Rounds rounds on the state behind the three pointers; the value
\* of the last round is returned and the state is left advanced.  (The state
\* a round starts from is bound by a set so that TLC computes it once.)
Prf(seed, lcg, hash) ==
    LET run[n \in 0 .. Rounds] ==
            IF n = 0
            THEN [seed |-> seed, lcg |-> lcg, hash |-> hash, out |-> 0]
            ELSE CHOOSE r \in {Core(StateOf(q)) : q \in {run[n - 1]}} : TRUE
    IN  run[Rounds]

-----------------------------------------------------------------------------
(* The reference: how a round, and a call of Prf, is undone. *)

OddInverse(a) == CHOOSE b \in Word : Trunc(a * b) = 1

UndoCore(s) ==
    LET mixed == Xor(s.seed, s.hash)
        lcg   == Trunc(s.lcg - mixed - Fives)
    IN  [seed |-> Trunc(mixed * OddInverse(Trunc(lcg * 2 + 1))),
         lcg  |-> lcg,
         hash |-> Trunc(s.hash - SwapHalves(mixed) - Tens)]

Rewind(s) ==
    LET back[k \in 0 .. Rounds] == IF k = 0 THEN s ELSE UndoCore(back[k - 1])
    IN  back[Rounds]
=============================================================================
