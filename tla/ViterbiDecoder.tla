--------------------------- MODULE ViterbiDecoder ---------------------------
(***************************************************************************)
(* ViterbiCodec::Decode step by step: a column of the trellis per step,    *)
(* then the traceback from the best state, then the flushing bits go.      *)
(***************************************************************************)
EXTENDS ViterbiCodec

CONSTANTS
    MaxBits,        \* bits Decode may be called with; an int counts them
    RefColumns      \* up to how many columns the exponential reference is computed

ASSUME DecoderAssumption ==
    MaxBits \in Nat /\ MaxBits + NumParityBits <= Unreached /\ RefColumns \in Nat

VARIABLES
    block_pc,       \* "columns", "traceback" or "done"
    received,       \* the argument
    path_metrics,
    trellis,        \* per column, the source each state was reached from
    state,          \* where the traceback is
    word,           \* the decoded bits, in the order they are read at the end
    decoded         \* the result

decoderVars == <<block_pc, received, path_metrics, trellis, state, word, decoded>>

DecoderTypeOK ==
    /\ block_pc \in {"columns", "traceback", "done"}
    /\ received \in Seq(Bit) /\ Len(received) <= MaxBits
    /\ path_metrics \in [States -> 0 .. Len(received) + NumParityBits \cup {Unreached}]
    /\ trellis \in Seq([States -> States]) /\ Len(trellis) <= Columns(received)
    /\ state \in States
    /\ word \in Seq(Bit) /\ decoded \in Seq(Bit)

DecoderInit ==
    /\ block_pc = "columns"
    /\ received \in Seq(Bit) /\ Len(received) <= MaxBits
    /\ path_metrics = [s \in States |-> IF s = 0 THEN 0 ELSE Unreached]
    /\ trellis = <<>>
    /\ state = 0
    /\ word = <<>>
    /\ decoded = <<>>

UpdatePathMetrics ==
    /\ block_pc = "columns" /\ Len(trellis) < Columns(received)
    /\ LET bits == Column(received, Len(trellis) + 1)
           best == [s \in States |-> PathMetric(bits, path_metrics, s)]
       IN  /\ path_metrics' = [s \in States |-> best[s][1]]
           /\ trellis' = Append(trellis, [s \in States |-> best[s][2]])
    /\ UNCHANGED <<block_pc, received, state, word, decoded>>

StartTraceback ==
    /\ block_pc = "columns" /\ Len(trellis) = Columns(received)
    /\ state' = BestState(path_metrics)
    /\ block_pc' = "traceback"
    /\ UNCHANGED <<received, path_metrics, trellis, word, decoded>>

\* Variant of Traceback that only keeps the last input.
TracebackForgets ==
    LET k == Len(trellis) - Len(word)
    IN  /\ block_pc = "traceback" /\ k > 0
        /\ word' = <<state \div HalfStates>>
        /\ state' = trellis[k][state]
        /\ UNCHANGED <<block_pc, received, path_metrics, trellis, decoded>>

\* Each turn adds the input that leads to the state; the loop collects them
\* backwards and reverses them at the end.
Traceback ==
    LET k == Len(trellis) - Len(word)
    IN  /\ block_pc = "traceback" /\ k > 0
        /\ word' = <<state \div HalfStates>> \o word
        /\ state' = trellis[k][state]
        /\ UNCHANGED <<block_pc, received, path_metrics, trellis, decoded>>

ReturnDecoded ==
    /\ block_pc = "traceback" /\ Len(word) = Len(trellis)
    /\ decoded' = Unflushed(word)
    /\ block_pc' = "done"
    /\ UNCHANGED <<received, path_metrics, trellis, state, word>>

Returned == block_pc = "done" /\ UNCHANGED decoderVars

DecoderStep == UpdatePathMetrics \/ StartTraceback \/ Traceback \/ ReturnDecoded
DecoderNext == DecoderStep \/ Returned

-----------------------------------------------------------------------------
\* After every column the metric of a state is the distance between what has
\* been read and the nearest code word of inputs that end in the state, and
\* Unreached if no inputs do (compared up to column RefColumns).
MetricsAreDistances ==
    LET n       == Len(trellis)
        read    == ReadBits(received, n)
        into(s) == {u \in [1 .. n -> Bit] : StatesOf(u)[n] = s}
    IN  n <= RefColumns =>
          \A s \in States :
            path_metrics[s] =
                IF into(s) = {} THEN Unreached
                ELSE Min({Distance(read, Walk(u)) : u \in into(s)})

Compared == block_pc = "done" /\ Columns(received) <= RefColumns

\* Decoding implements maximum likelihood decoding over all end states
\* (compared on strings of at most RefColumns columns).
Abstract == INSTANCE MaxLikelihood WITH answered <- Compared,
                                        inputs <- IF Compared THEN word ELSE <<>>
DecodesClosest == Abstract!Safety

\* Decode returns.
Terminates == <>(block_pc = "done")
=============================================================================
