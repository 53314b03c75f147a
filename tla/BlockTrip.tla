----------------------------- MODULE BlockTrip -----------------------------
(***************************************************************************)
(* What Decode is given: a block of a key that has been through            *)
(* PPRF::puncturing, encoded and with one bit flipped, or any short string *)
(* of bits, which is what a participant has that received something else.  *)
(***************************************************************************)
EXTENDS ViterbiDecoder

CONSTANTS
    BlockBits,      \* bits of a block of the key: 7
    MaxLen          \* bits of the other strings, at most

ASSUME BlockAssumption ==
    /\ BlockBits \in Nat /\ (BlockBits + FlushBits) * NumParityBits <= MaxBits
    /\ MaxLen \in 0 .. MaxBits
    /\ KeepsApart(BlockBits)

VARIABLE sent       \* history: the block, or <<>> when there was none

BlockInit ==
    /\ \/ sent \in [1 .. BlockBits -> Bit] /\ received \in BitFlip(Encode(sent))
       \/ sent = <<>> /\ received \in UNION {[1 .. n -> Bit] : n \in 0 .. MaxLen}
    /\ DecoderInit

BlockNext == DecoderNext /\ UNCHANGED sent

\* Depuncturing undoes puncturing: whichever bit bitFlip has inverted, in the
\* flushing bits too, and although Decode does not insist on the final state 0,
\* the block comes back.
SingleFlipCorrected == block_pc = "done" /\ sent # <<>> => decoded = sent
=============================================================================
