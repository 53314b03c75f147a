-------------------------------- MODULE PPRF --------------------------------
(***************************************************************************)
(* Puncturing and depuncturing of a whole key (pprf/pprf.cpp): a random    *)
(* value becomes a string of bits, is cut to whole blocks, and every block *)
(* is encoded and has one bit flipped; the receiver splits what arrives    *)
(* and decodes it block by block.  The decoder is taken at its promise     *)
(* (MaxLikelihood), which ViterbiDecoder keeps.                            *)
(***************************************************************************)
EXTENDS ViterbiCodec

CONSTANTS
    ValueBits,      \* bits of the random value: 64
    KeyBlockBits,   \* bits of a block of the key: 7
    Trailers        \* what may follow the punctured key when it is received

ASSUME KeyAssumption ==
    /\ ValueBits \in Nat /\ KeyBlockBits \in Nat \ {0}
    /\ \A trailer \in Trailers : trailer \in Seq(Bit)
    /\ KeepsApart(KeyBlockBits)

CodeBits == (KeyBlockBits + FlushBits) * NumParityBits   \* 18

VARIABLES
    key_pc,     \* "start", "puncturing", "sending", "depuncturing", "done", "crashed"
    key,        \* the string the generator returns, aligned
    pieces,     \* what the loop that runs still has to go through
    punct,      \* the punctured key, as far as it is built or received
    depunctured \* the depunctured key, as far as it is built

keyVars == <<key_pc, key, pieces, punct, depunctured>>

-----------------------------------------------------------------------------

\* decimalToBinary: no leading zeros, and nothing at all for zero.
DecimalToBinary(n) ==
    LET size == CHOOSE k \in 0 .. ValueBits :
                    n < Pow2(k) /\ \A j \in 0 .. k - 1 : n >= Pow2(j)
    IN  [j \in 1 .. size |-> BitAt(n, size - j)]

\* align: the bits after the last whole block go.
Align(bits) == SubSeq(bits, 1, Len(bits) - (Len(bits) % KeyBlockBits))

\* splitBinaryVector: pieces of num bits and what is left over.  The loop that
\* would pad the last piece runs while remaining < 0, which is never.
Split(bits, num) ==
    [k \in 1 .. (Len(bits) + num - 1) \div num |->
        SubSeq(bits, (k - 1) * num + 1,
               IF k * num <= Len(bits) THEN k * num ELSE Len(bits))]

\* The element before the first of an empty vector is looked at: it may be
\* anything, and the process may not survive it.
StartLoop(bits, num, here) ==
    /\ pieces' = Split(bits, num)
    /\ key_pc' \in IF bits = <<>> THEN {here, "crashed"} ELSE {here}

-----------------------------------------------------------------------------
KeyTypeOK ==
    /\ key_pc \in {"start", "puncturing", "sending", "depuncturing", "done", "crashed"}
    /\ \A bits \in {key, punct, depunctured} : bits \in Seq(Bit)
    /\ pieces \in Seq(Seq(Bit))

KeyInit ==
    /\ key_pc = "start"
    /\ \E value \in 0 .. (Pow2(ValueBits) - 1) : key = Align(DecimalToBinary(value))
    /\ pieces = <<>> /\ punct = <<>> /\ depunctured = <<>>

StartPuncturing ==
    /\ key_pc = "start"
    /\ StartLoop(key, KeyBlockBits, "puncturing")
    /\ UNCHANGED <<key, punct, depunctured>>

PunctureBlock ==
    /\ key_pc = "puncturing" /\ pieces # <<>>
    /\ \E flipped \in BitFlip(Encode(Head(pieces))) : punct' = punct \o flipped
    /\ pieces' = Tail(pieces)
    /\ UNCHANGED <<key_pc, key, depunctured>>

PuncturingDone ==
    /\ key_pc = "puncturing" /\ pieces = <<>>
    /\ key_pc' = "sending"
    /\ UNCHANGED <<key, pieces, punct, depunctured>>

\* The receiver may find other bits behind the punctured key.
StartDepuncturing ==
    /\ key_pc = "sending"
    /\ \E trailer \in Trailers :
         /\ punct' = punct \o trailer
         /\ StartLoop(punct', CodeBits, "depuncturing")
    /\ UNCHANGED <<key, depunctured>>

DepunctureBlock ==
    /\ key_pc = "depuncturing" /\ pieces # <<>>
    /\ \E word \in Closest(Head(pieces)) : depunctured' = depunctured \o Unflushed(word)
    /\ pieces' = Tail(pieces)
    /\ UNCHANGED <<key_pc, key, punct>>

DepuncturingDone ==
    /\ key_pc = "depuncturing" /\ pieces = <<>>
    /\ key_pc' = "done"
    /\ UNCHANGED <<key, pieces, punct, depunctured>>

KeyOver == key_pc \in {"done", "crashed"} /\ UNCHANGED keyVars

KeyNext ==
    \/ StartPuncturing \/ PunctureBlock \/ PuncturingDone
    \/ StartDepuncturing \/ DepunctureBlock \/ DepuncturingDone \/ KeyOver

-----------------------------------------------------------------------------
\* Whatever was flipped in each block, and whatever trails the punctured key,
\* what depuncturing returns begins with the key, and it is the key if nothing
\* trails: a flip never spills into the next block, and rubbish at the end
\* never into the blocks before it.
KeyComesBack ==
    key_pc = "done" =>
        /\ IsPrefix(key, depunctured)
        /\ Len(punct) * KeyBlockBits = Len(key) * CodeBits => depunctured = key
=============================================================================
