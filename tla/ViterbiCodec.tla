---------------------------- MODULE ViterbiCodec ----------------------------
(***************************************************************************)
(* ViterbiCodec (pprf/viterbi.cpp): the convolutional code of a constraint *)
(* length and a list of polynomials, and the operators the decoder is made *)
(* of.  A bit is 0 or 1 and a string of bits a sequence.                   *)
(***************************************************************************)
EXTENDS PowersOfTwo, Sequences, SequencesExt, FiniteSetsExt

CONSTANTS Constraint, Polynomials

ASSUME CodeAssumption ==
    /\ Constraint \in Nat /\ Constraint >= 2
    /\ Polynomials \in Seq(1 .. (Pow2(Constraint) - 1)) /\ Polynomials # <<>>

Bit           == {0, 1}
NumParityBits == Len(Polynomials)
FlushBits     == Constraint - 1
Flushing      == [k \in 1 .. FlushBits |-> 0]

\* A state is the shift register without the next input: half of the states
\* are entered on input 0 and half on input 1.
HalfStates == Pow2(Constraint - 2)
States     == 0 .. (2 * HalfStates - 1)

\* numeric_limits<int>::max(): no path ends in the state.
Unreached == 2147483647

BitAt(x, k) == (x \div Pow2(k)) % 2

ReverseBits(n, x) == MapThenSumSet(LAMBDA k : BitAt(x, k) * Pow2(n - 1 - k), 0 .. n - 1)

Distance(x, y) == Cardinality({k \in 1 .. Len(x) : x[k] # y[k]})

Parity(register, polynomial) ==
    LET reversed == ReverseBits(Constraint, polynomial)
    IN  Cardinality({k \in 0 .. Constraint - 1 :
                       BitAt(register, k) = 1 /\ BitAt(reversed, k) = 1}) % 2

\* InitializeOutputs: one parity bit per polynomial for a full shift register.
Outputs ==
    [register \in 0 .. (4 * HalfStates - 1) |->
        [j \in 1 .. NumParityBits |-> Parity(register, Polynomials[j])]]

Output(state, input) == Outputs[state + input * (2 * HalfStates)]

NextState(state, input) == (state \div 2) + input * HalfStates

\* The states the shift register goes through while it takes in the inputs.
StatesOf(inputs) ==
    LET at[n \in 0 .. Len(inputs)] ==
            IF n = 0 THEN 0 ELSE NextState(at[n - 1], inputs[n])
    IN  at

\* The code word of the inputs, without flushing.
Walk(inputs) ==
    LET at == StatesOf(inputs)
    IN  FlattenSeq([n \in 1 .. Len(inputs) |-> Output(at[n - 1], inputs[n])])

Encode(bits) == Walk(bits \o Flushing)

\* Variant of BitFlip that inverts the next bit, too.
BitFlipTwice(bits) ==
    {[bits EXCEPT ![k] = 1 - @, ![k + 1] = 1 - @] : k \in 1 .. Len(bits) - 1}

\* PPRF::bitFlip: the bit at a random position is inverted, always exactly one.
BitFlip(bits) == {[bits EXCEPT ![k] = 1 - @] : k \in 1 .. Len(bits)}

-----------------------------------------------------------------------------
(* A column of the trellis. *)

BranchMetric(bits, source, target) ==
    Distance(bits, Output(source, target \div HalfStates))

Plus(metric, branch) == IF metric < Unreached THEN metric + branch ELSE metric

\* Variant of PathMetric that takes the worse source.
PathMetricWorse(bits, metrics, state) ==
    LET first  == (state % HalfStates) * 2
        second == first + 1
        pm1    == Plus(metrics[first], BranchMetric(bits, first, state))
        pm2    == Plus(metrics[second], BranchMetric(bits, second, state))
    IN  IF pm1 >= pm2 THEN <<pm1, first>> ELSE <<pm2, second>>

\* The better of the two sources of a state, the first one of equals.
PathMetric(bits, metrics, state) ==
    LET first  == (state % HalfStates) * 2
        second == first + 1
        pm1    == Plus(metrics[first], BranchMetric(bits, first, state))
        pm2    == Plus(metrics[second], BranchMetric(bits, second, state))
    IN  IF pm1 <= pm2 THEN <<pm1, first>> ELSE <<pm2, second>>

\* The bits of a column; missing ones are taken for zeros.
Column(bits, n) ==
    [j \in 1 .. NumParityBits |->
        LET k == (n - 1) * NumParityBits + j IN IF k <= Len(bits) THEN bits[k] ELSE 0]

Columns(bits) == (Len(bits) + NumParityBits - 1) \div NumParityBits

\* min_element: the first state with the least metric.
BestState(metrics) ==
    CHOOSE s \in States :
        \A t \in States : metrics[s] < metrics[t] \/ (metrics[s] = metrics[t] /\ s <= t)

\* substr(0, size - constraint + 1): the length is unsigned, and a word shorter
\* than the flushing bits is kept whole.
Unflushed(word) ==
    IF Len(word) < FlushBits THEN word ELSE SubSeq(word, 1, Len(word) - FlushBits)

-----------------------------------------------------------------------------
(* The reference: maximum likelihood decoding, over all end states.          *)

\* What is read in the first n columns.
ReadBits(bits, n) == FlattenSeq([k \in 1 .. n |-> Column(bits, k)])

Closest(bits) ==
    LET words   == [1 .. Columns(bits) -> Bit]
        read    == ReadBits(bits, Columns(bits))
        d(word) == Distance(read, Walk(word))
    IN  {word \in words : \A other \in words : d(word) <= d(other)}

\* A block of so many bits survives a flip: no code word of other inputs, with
\* whatever they end in, is closer to that of the block than three bits.
KeepsApart(bits) ==
    LET blocks == [1 .. bits -> Bit]
        code   == [block \in blocks |-> Encode(block)]
    IN  \A inputs \in [1 .. bits + FlushBits -> Bit] :
            LET w == Walk(inputs)
            IN  \A block \in blocks :
                    Unflushed(inputs) # block => Distance(code[block], w) >= 3
=============================================================================
