---------------------------- MODULE PrvElection ----------------------------
(***************************************************************************)
(* The election with the generator of PrvHash, over words of W bits.       *)
(***************************************************************************)
EXTENDS Election

CONSTANTS W, Rounds     \* of PrvHash

ASSUME WidthAssumption  == W \in Nat \ {0} /\ W % 2 = 0
ASSUME RoundsAssumption == Rounds \in Nat \ {0}

H == INSTANCE PrvHash

ASSUME GeneratorAssumption ==
    /\ WordSize = H!Modulus
    /\ \A s, l, h \in Word : Generator(s, l, h) = H!Prf(s, l, h)

\* The generator forgets nothing: from the state electLeader leaves in secret,
\* lcg and hash, undoing the rounds of prvhash_core64 one by one gives back the
\* key the election was called with.  The 2^28 rounds of PPRF::prf thus never
\* bring two keys to the same state.
KeyRecoverable ==
    pc \in {"commit", "decommit"} =>
        H!Rewind([seed |-> secret, lcg |-> lcg, hash |-> hash])
            = [seed |-> prfkey, lcg |-> 0, hash |-> Hash]
=============================================================================
