---------------------------- MODULE EnclaveTools ----------------------------
(***************************************************************************)
(* The three helpers of pprf/ and pke/ that the leader's program calls:    *)
(* Decode on one block, puncturing and depuncturing of a whole key, and    *)
(* the RSA key pair.  They share neither state nor caller: a behaviour     *)
(* runs one of them while the other two rest in their first state.         *)
(***************************************************************************)
EXTENDS KeyPair, BlockTrip, PPRF

VARIABLE part       \* the helper that runs: "block", "key" or "pair"

blockVars == <<decoderVars, sent>>
toolVars  == <<part, vars, blockVars, keyVars>>

ToolInit ==
    /\ Init
    /\ BlockInit
    /\ KeyInit
    /\ \/ part = "block" /\ key = <<>>
       \/ part = "key" /\ received = <<>>
       \/ part = "pair" /\ received = <<>> /\ key = <<>>

RunBlock == part = "block" /\ BlockNext /\ UNCHANGED <<part, vars, keyVars>>
RunKey   == part = "key" /\ KeyNext /\ UNCHANGED <<part, vars, blockVars>>
RunPair  == part = "pair" /\ Next /\ UNCHANGED <<part, blockVars, keyVars>>

ToolNext == RunBlock \/ RunKey \/ RunPair

\* Decode is a loop over its argument that calls nothing: it keeps going.
ToolSpec == ToolInit /\ [][ToolNext]_toolVars /\ WF_toolVars(RunBlock /\ DecoderStep)

-----------------------------------------------------------------------------
\* The variables of the three helpers have their types, and the metrics of
\* Decode are least distances: no sum with the metric of an unreached state
\* makes it the better one.
ToolsSound == TypeOK /\ KeyTypeOK /\ DecoderTypeOK /\ MetricsAreDistances

\* Depuncturing undoes puncturing: for every flip of every block, and for a key
\* of several blocks with trailing bits (see BlockTrip and PPRF).
PuncturingUndone == SingleFlipCorrected /\ KeyComesBack

\* Decode returns, with inputs of maximum likelihood.
ImplementsMaxLikelihood == DecodesClosest /\ (part = "block" => Terminates)
=============================================================================
