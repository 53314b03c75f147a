------------------------ MODULE EnclaveTools_proofs ------------------------
(***************************************************************************)
(* What holds of the helpers of the enclave, for every convolutional code, *)
(* length of the blocks and of the strings, and size of the heap that meet *)
(* the assumptions of the modules: Decode computes least distances and     *)
(* answers with closest inputs, what is punctured comes back, and the heap *)
(* bounds the key pairs.                                                   *)
(***************************************************************************)
EXTENDS EnclaveTools, SequenceTheorems, FiniteSetTheorems, WellFoundedInduction, TLAPS

-----------------------------------------------------------------------------
(* Induction and recursion over the natural numbers, stated with sets and  *)
(* functions instead of operators.                                         *)

LEMMA SetInduction ==
    ASSUME NEW S, 0 \in S, \A n \in Nat : n \in S => n + 1 \in S
    PROVE  Nat \subseteq S
<1> SUFFICES ASSUME NEW m \in Nat, m \notin S PROVE FALSE
  OBVIOUS
<1> DEFINE T == {0..n : n \in Nat \ S}
           R == StrictSubsetOrdering(Nat)
<1>1. T \subseteq FiniteSubsetsOf(Nat) /\ T # {}
  <2>1. \A n \in Nat : 0..n \in FiniteSubsetsOf(Nat)
    BY FS_Interval DEF FiniteSubsetsOf
  <2> QED BY <2>1
<1>2. PICK t \in T : \A y \in T : <<y, t>> \notin R
  <2> HIDE DEF T
  <2>1. IsWellFoundedOn(R, FiniteSubsetsOf(Nat))
    BY FS_StrictSubsetOrderingWellFounded
  <2> HIDE DEF R
  <2> QED BY <1>1, <2>1, WFMin
<1>3. PICK x \in Nat \ S : t = 0..x
  OBVIOUS
<1>4. x # 0 /\ x - 1 \in Nat
  OBVIOUS
<1>5. x - 1 \notin S
  BY <1>4
<1>6. 0..(x-1) \in T /\ 0..(x-1) \subseteq 0..x /\ 0..(x-1) # 0..x /\ 0..x \subseteq Nat
  BY <1>4, <1>5
<1>7. <<0..(x-1), 0..x>> \in R
  BY <1>6 DEF StrictSubsetOrdering
<1> QED BY <1>2, <1>3, <1>6, <1>7

\* The functions that step makes out of start, up to N.
Steps(X) == [Nat \X X -> X]
Runs(X, start, step, N) ==
    {f \in [0 .. N -> X] : /\ f[0] = start
                           /\ \A k \in 1 .. N : f[k] = step[<<k, f[k - 1]>>]}

\* A function that is defined step by step from its value at zero exists.
LEMMA PrimitiveRecursion ==
    ASSUME NEW X, NEW start, NEW step, NEW N,
           start \in X, step \in Steps(X), N \in Nat
    PROVE  \E f : f \in Runs(X, start, step, N)
<1> USE DEF Steps, Runs
<1> DEFINE Ok(f, n) == /\ f \in [0 .. n -> X] /\ f[0] = start
                       /\ \A k \in 1 .. n : f[k] = step[<<k, f[k - 1]>>]
           S == {n \in Nat : \E f : Ok(f, n)}
<1>1. 0 \in S
  <2>1. Ok([k \in 0 .. 0 |-> start], 0)
    OBVIOUS
  <2> QED BY <2>1
<1>2. ASSUME NEW n \in Nat, n \in S PROVE n + 1 \in S
  <2>1. PICK f : Ok(f, n)
    BY <1>2
  <2> DEFINE g == [k \in 0 .. n + 1 |-> IF k <= n THEN f[k] ELSE step[<<n + 1, f[n]>>]]
  <2>2. f[n] \in X /\ step[<<n + 1, f[n]>>] \in X
    BY <2>1
  <2>3. g \in [0 .. n + 1 -> X] /\ g[0] = start
    BY <2>1, <2>2
  <2>4. ASSUME NEW k \in 1 .. n + 1 PROVE g[k] = step[<<k, g[k - 1]>>]
    <3>1. CASE k <= n
      <4>1. k \in 1 .. n /\ k \in 0 .. n + 1 /\ k - 1 \in 0 .. n + 1 /\ k - 1 <= n
        BY <3>1
      <4>2. g[k] = f[k] /\ g[k - 1] = f[k - 1]
        BY <4>1
      <4> QED BY <2>1, <4>1, <4>2
    <3>2. CASE k = n + 1
      <4>1. g[k] = step[<<n + 1, f[n]>>] /\ g[k - 1] = f[n]
        BY <3>2
      <4> QED BY <3>2, <4>1
    <3> QED BY <3>1, <3>2
  <2>5. Ok(g, n + 1)
    BY <2>3, <2>4
  <2> HIDE DEF g, Ok
  <2>6. \E h : Ok(h, n + 1)
    BY <2>5
  <2> QED BY <2>6
<1>3. Nat \subseteq S
  <2> HIDE DEF S
  <2> QED BY <1>1, <1>2, SetInduction
<1> QED BY <1>3

\* A set of numbers has a smallest one.
LEMMA SmallestExists ==
    ASSUME NEW T \in SUBSET Nat, T # {}
    PROVE  \E k \in T : \A m \in T : k <= m
<1> SUFFICES ASSUME \A k \in T : \E m \in T : m < k PROVE FALSE
  OBVIOUS
<1> DEFINE S == {n \in Nat : \A k \in 0 .. n : k \notin T}
<1>1. 0 \in S
  <2>1. \A m \in T : ~(m < 0)
    OBVIOUS
  <2> QED BY <2>1
<1>2. ASSUME NEW n \in Nat, n \in S PROVE n + 1 \in S
  <2>1. \A k \in 0 .. n + 1 : k \in 0 .. n \/ k = n + 1
    OBVIOUS
  <2>2. \A m \in Nat : m < n + 1 => m \in 0 .. n
    OBVIOUS
  <2> QED BY <1>2, <2>1, <2>2
<1>3. Nat \subseteq S
  <2> HIDE DEF S
  <2> QED BY <1>1, <1>2, SetInduction
<1>4. PICK k \in T : k \in S
  BY <1>3
<1>5. k \in 0 .. k
  OBVIOUS
<1> QED BY <1>4, <1>5

-----------------------------------------------------------------------------
(* Sequences and finite sets. *)

LEMMA SequenceOf ==
    ASSUME NEW S, NEW n \in Nat, NEW f \in [1 .. n -> S]
    PROVE  f \in Seq(S) /\ Len(f) = n
  OBVIOUS

LEMMA FunctionOf ==
    ASSUME NEW S, NEW s \in Seq(S)
    PROVE  Len(s) \in Nat /\ s \in [1 .. Len(s) -> S]
  OBVIOUS

LEMMA ConcatIs ==
    ASSUME NEW S, NEW n \in Nat, NEW m \in Nat, NEW f \in [1 .. n -> S], NEW g \in [1 .. m -> S]
    PROVE  /\ f \o g \in [1 .. n + m -> S]
           /\ \A k \in 1 .. n + m : (f \o g)[k] = IF k <= n THEN f[k] ELSE g[k - n]
<1>1. f \in Seq(S) /\ Len(f) = n /\ g \in Seq(S) /\ Len(g) = m
  BY SequenceOf
<1>2. f \o g \in Seq(S) /\ Len(f \o g) = n + m
  BY <1>1
<1>3. f \o g \in [1 .. n + m -> S]
  BY <1>2, FunctionOf
<1>4. \A k \in 1 .. n + m : (f \o g)[k] = IF k <= n THEN f[k] ELSE g[k - n]
  BY <1>1
<1> QED BY <1>3, <1>4

LEMMA AppendIs ==
    ASSUME NEW S, NEW n \in Nat, NEW f \in [1 .. n -> S], NEW e \in S
    PROVE  /\ Append(f, e) \in [1 .. n + 1 -> S]
           /\ \A k \in 1 .. n : Append(f, e)[k] = f[k]
           /\ Append(f, e)[n + 1] = e
<1>1. f \in Seq(S) /\ Len(f) = n
  BY SequenceOf
<1>2. Append(f, e) \in Seq(S) /\ Len(Append(f, e)) = n + 1
  BY <1>1
<1>3. Append(f, e) \in [1 .. n + 1 -> S]
  BY <1>2, FunctionOf
<1>4. (\A k \in 1 .. n : Append(f, e)[k] = f[k]) /\ Append(f, e)[n + 1] = e
  BY <1>1
<1> QED BY <1>3, <1>4

\* A word of one more element is a word with an element behind it.
LEMMA SplitLast ==
    ASSUME NEW S, NEW n \in Nat, NEW f \in [1 .. n + 1 -> S]
    PROVE  \E g \in [1 .. n -> S] : f = Append(g, f[n + 1])
<1> DEFINE g == [k \in 1 .. n |-> f[k]]
           e == f[n + 1]
           h == Append(g, e)
<1>1. g \in [1 .. n -> S] /\ e \in S
  OBVIOUS
<1>2. h \in [1 .. n + 1 -> S] /\ (\A k \in 1 .. n : h[k] = g[k]) /\ h[n + 1] = e
  <2> HIDE DEF g, e
  <2>1. Append(g, e) \in [1 .. n + 1 -> S]
    BY <1>1, AppendIs
  <2>2. \A k \in 1 .. n : Append(g, e)[k] = g[k]
    BY <1>1, AppendIs
  <2>3. Append(g, e)[n + 1] = e
    BY <1>1, AppendIs
  <2> QED BY <2>1, <2>2, <2>3
<1>3. \A k \in 1 .. n + 1 : h[k] = f[k]
  <2>1. \A k \in 1 .. n + 1 : k \in 1 .. n \/ k = n + 1
    OBVIOUS
  <2>2. \A k \in 1 .. n : g[k] = f[k]
    OBVIOUS
  <2> HIDE DEF h, g
  <2> QED BY <1>2, <2>1, <2>2
<1>4. h = f
  <2> HIDE DEF h
  <2> QED BY <1>2, <1>3
<1> QED BY <1>1, <1>4

LEMMA BitsFinite == ASSUME NEW n \in Nat, NEW S \in SUBSET (1 .. n)
                    PROVE  IsFiniteSet(S) /\ Cardinality(S) \in 0 .. n
<1>1. IsFiniteSet(1 .. n) /\ Cardinality(1 .. n) = n
  BY FS_Interval
<1>2. IsFiniteSet(S) /\ Cardinality(S) <= n
  BY <1>1, FS_Subset
<1> QED BY <1>2, FS_CardinalityType

\* A set of numbers that is moved keeps its cardinality.
LEMMA Shifted ==
    ASSUME NEW n \in Nat, NEW S \in SUBSET (1 .. n), NEW m \in Nat
    PROVE  LET T == {k \in m + 1 .. m + n : k - m \in S}
           IN  IsFiniteSet(T) /\ Cardinality(T) = Cardinality(S)
<1> DEFINE T == {k \in m + 1 .. m + n : k - m \in S}
           f == [k \in S |-> k + m]
<1>1. IsFiniteSet(S)
  BY BitsFinite
<1>2. f \in Bijection(S, T)
  <2>1. f \in [S -> T]
    OBVIOUS
  <2>2. \A a, b \in S : f[a] = f[b] => a = b
    OBVIOUS
  <2>3. \A t \in T : \E s \in S : f[s] = t
    <3> TAKE t \in T
    <3>1. t - m \in S /\ f[t - m] = t
      OBVIOUS
    <3> QED BY <3>1
  <2> HIDE DEF f, T
  <2> QED BY <2>1, <2>2, <2>3 DEF Bijection, Injection, Surjection, IsInjective
<1>3. ExistsBijection(S, T)
  <2> HIDE DEF f, T
  <2> QED BY <1>2 DEF ExistsBijection
<1> HIDE DEF T
<1>4. IsFiniteSet(T) /\ Cardinality(T) = Cardinality(S)
  BY <1>1, <1>3, FS_Bijection
<1> QED BY <1>4 DEF T

-----------------------------------------------------------------------------
(* Distances. *)

Words(n) == [1 .. n -> Bit]

LEMMA DistanceType ==
    ASSUME NEW n \in Nat, NEW x \in Words(n), NEW y
    PROVE  Distance(x, y) \in 0 .. n
<1>1. Len(x) = n
  BY SequenceOf DEF Words
<1>2. {k \in 1 .. n : x[k] # y[k]} \in SUBSET (1 .. n)
  OBVIOUS
<1> QED BY <1>1, <1>2, BitsFinite DEF Distance

\* What follows adds its own distance.
LEMMA DistanceAdds ==
    ASSUME NEW n \in Nat, NEW m \in Nat,
           NEW x \in Words(n), NEW y \in Words(n), NEW c \in Words(m), NEW d \in Words(m)
    PROVE  /\ x \o c \in Words(n + m)
           /\ Distance(x \o c, y \o d) = Distance(x, y) + Distance(c, d)
<1>1. /\ x \in Seq(Bit) /\ Len(x) = n /\ y \in Seq(Bit) /\ Len(y) = n
      /\ c \in Seq(Bit) /\ Len(c) = m /\ d \in Seq(Bit) /\ Len(d) = m
  BY SequenceOf DEF Words
<1>2. /\ x \o c \in Seq(Bit) /\ Len(x \o c) = n + m
      /\ y \o d \in Seq(Bit) /\ Len(y \o d) = n + m
  BY <1>1
<1>3. x \o c \in Words(n + m)
  BY <1>2, FunctionOf DEF Words
<1> DEFINE S == {k \in 1 .. n : x[k] # y[k]}
           T == {k \in 1 .. m : c[k] # d[k]}
           U == {k \in n + 1 .. n + m : k - n \in T}
           V == {k \in 1 .. n + m : (x \o c)[k] # (y \o d)[k]}
<1>4. \A k \in 1 .. n + m : (x \o c)[k] = IF k <= n THEN x[k] ELSE c[k - n]
  BY ConcatIs DEF Words
<1>5. \A k \in 1 .. n + m : (y \o d)[k] = IF k <= n THEN y[k] ELSE d[k - n]
  BY ConcatIs DEF Words
<1> DEFINE X == x \o c  Y == y \o d
<1>11. V = S \cup U /\ S \cap U = {}
  <2> DEFINE D(k) == X[k] # Y[k]
  <2>1. ASSUME NEW k \in 1 .. n PROVE D(k) <=> k \in S
    <3>1. k \in 1 .. n + m /\ k <= n
      OBVIOUS
    <3>2. X[k] = x[k] /\ Y[k] = y[k]
      BY <1>4, <1>5, <3>1
    <3> QED BY <3>2
  <2>2. ASSUME NEW k \in n + 1 .. n + m PROVE D(k) <=> k \in U
    <3>1. k \in 1 .. n + m /\ ~(k <= n) /\ k - n \in 1 .. m
      OBVIOUS
    <3>2. X[k] = c[k - n] /\ Y[k] = d[k - n]
      BY <1>4, <1>5, <3>1
    <3> QED BY <3>1, <3>2
  <2>3. V = {k \in 1 .. n + m : D(k)}
    OBVIOUS
  <2>4. S \subseteq 1 .. n /\ U \subseteq n + 1 .. n + m
    OBVIOUS
  <2>5. \A k \in 1 .. n + m : k \in 1 .. n \/ k \in n + 1 .. n + m
    OBVIOUS
  <2>6. \A k \in 1 .. n : k \in 1 .. n + m /\ k \notin n + 1 .. n + m
    OBVIOUS
  <2>7. \A k \in n + 1 .. n + m : k \in 1 .. n + m
    OBVIOUS
  <2> HIDE DEF D, S, U, V
  <2> QED BY <2>1, <2>2, <2>3, <2>4, <2>5, <2>6, <2>7
<1>6. IsFiniteSet(S) /\ Cardinality(S) \in Nat
  BY BitsFinite
<1>7. T \in SUBSET (1 .. m)
  OBVIOUS
<1>8. IsFiniteSet(U) /\ Cardinality(U) = Cardinality(T) /\ Cardinality(T) \in Nat
  <2> HIDE DEF T
  <2> QED BY <1>7, Shifted, BitsFinite
<1>9. Cardinality(V) = Cardinality(S) + Cardinality(T)
  <2> HIDE DEF S, T, U, V
  <2>1. Cardinality(S \cup U) = Cardinality(S) + Cardinality(U) - Cardinality({})
    BY <1>11, <1>6, <1>8, FS_Union
  <2> QED BY <2>1, <1>11, <1>6, <1>8, FS_EmptySet
<1>10. Distance(x, y) = Cardinality(S) /\ Distance(c, d) = Cardinality(T)
       /\ Distance(x \o c, y \o d) = Cardinality(V)
  BY <1>1, <1>2 DEF Distance
<1> QED
  <2> HIDE DEF S, T, V
  <2> QED BY <1>3, <1>9, <1>10
-----------------------------------------------------------------------------
(* The shift register. *)

LEMMA Pow2Type == ASSUME NEW w \in Nat PROVE Pow2(w) \in Nat \ {0}
<1> DEFINE X == Nat \ {0}
           step == [q \in Nat \X X |-> 2 * q[2]]
           Power(g) == g = [k \in 0 .. w |-> IF k = 0 THEN 1 ELSE 2 * g[k - 1]]
           power == CHOOSE g : Power(g)
<1>1. 1 \in X /\ step \in Steps(X)
  BY DEF Steps
<1>2. PICK f : f \in Runs(X, 1, step, w)
  <2> HIDE DEF X, step
  <2> QED BY <1>1, PrimitiveRecursion
<1>3. f \in [0 .. w -> X] /\ f[0] = 1 /\ \A k \in 1 .. w : f[k] = 2 * f[k - 1]
  <2>1. f \in [0 .. w -> X] /\ f[0] = 1 /\ \A k \in 1 .. w : f[k] = step[<<k, f[k - 1]>>]
    BY <1>2 DEF Runs
  <2>2. ASSUME NEW k \in 1 .. w PROVE step[<<k, f[k - 1]>>] = 2 * f[k - 1]
    <3>1. <<k, f[k - 1]>> \in Nat \X X
      BY <2>1
    <3> QED BY <3>1
  <2> QED BY <2>1, <2>2
<1>4. Power(f)
  <2>1. f = [k \in 0 .. w |-> f[k]]
    BY <1>3
  <2>2. \A k \in 0 .. w : k = 0 \/ k \in 1 .. w
    OBVIOUS
  <2>3. \A k \in 0 .. w : f[k] = IF k = 0 THEN 1 ELSE 2 * f[k - 1]
    BY <1>3, <2>2
  <2> QED BY <2>1, <2>3
<1>5. Power(power)
  <2> HIDE DEF Power
  <2> QED BY <1>4
<1> DEFINE S == {k \in Nat : k <= w => power[k] \in X}
<1>6. Nat \subseteq S
  <2> HIDE DEF power
  <2>1. 0 \in S
    BY <1>5
  <2>2. ASSUME NEW k \in Nat, k \in S PROVE k + 1 \in S
    <3> SUFFICES ASSUME k + 1 <= w PROVE power[k + 1] \in X
      OBVIOUS
    <3>1. power[k] \in X /\ k + 1 \in 0 .. w /\ k + 1 # 0 /\ (k + 1) - 1 = k
      BY <2>2
    <3>2. power[k + 1] = IF k + 1 = 0 THEN 1 ELSE 2 * power[(k + 1) - 1]
      BY <1>5, <3>1
    <3> QED BY <3>1, <3>2
  <2> HIDE DEF S
  <2> QED BY <2>1, <2>2, SetInduction
<1>7. Pow2(w) = power[w]
  BY DEF Pow2
<1>8. power[w] \in X
  <2> HIDE DEF power
  <2> QED BY <1>6
<1> QED BY <1>7, <1>8

LEMMA CodeFacts ==
    /\ NumParityBits \in Nat \ {0} /\ FlushBits \in Nat \ {0}
    /\ HalfStates \in Nat \ {0} /\ States \subseteq Nat /\ 0 \in States
    /\ Flushing \in Words(FlushBits)
<1>1. Constraint \in Nat /\ Constraint >= 2 /\ Constraint - 2 \in Nat
  BY CodeAssumption
<1>2. NumParityBits \in Nat \ {0}
  <2> DEFINE P == 1 .. (Pow2(Constraint) - 1)
  <2>1. Polynomials \in Seq(P) /\ Polynomials # <<>>
    BY CodeAssumption
  <2> HIDE DEF P
  <2> QED BY <2>1, EmptySeq DEF NumParityBits
<1>3. HalfStates \in Nat \ {0}
  BY <1>1, Pow2Type DEF HalfStates
<1>4. FlushBits \in Nat \ {0} /\ Flushing \in Words(FlushBits)
  BY <1>1 DEF FlushBits, Flushing, Words, Bit
<1> QED BY <1>2, <1>3, <1>4 DEF States

LEMMA Halves ==
    ASSUME NEW s \in Nat
    PROVE  s \div 2 \in Nat /\ (s = 2 * (s \div 2) \/ s = 2 * (s \div 2) + 1)
  OBVIOUS

LEMMA Division ==
    ASSUME NEW x \in Nat, NEW m \in Nat \ {0}
    PROVE  x \div m \in Nat /\ (x % m) \in 0 .. (m - 1) /\ x = m * (x \div m) + (x % m)
  OBVIOUS

\* A state is the input that led to it and what is left of the one before.
LEMMA StateIs ==
    ASSUME NEW t \in States
    PROVE  /\ t \div HalfStates \in Bit /\ t % HalfStates \in 0 .. HalfStates - 1
           /\ t = (t \div HalfStates) * HalfStates + (t % HalfStates)
<1> DEFINE h == HalfStates
           q == t \div h
           r == t % h
<1>1. h \in Nat \ {0} /\ t \in Nat /\ t < 2 * h
  BY CodeFacts DEF States
<1>2. q \in Nat /\ r \in 0 .. (h - 1) /\ t = h * q + r
  <2> HIDE DEF h
  <2> QED BY <1>1, Division
<1> HIDE DEF h, q, r
<1>3. q < 2
  <2> SUFFICES ASSUME q >= 2 PROVE FALSE
    BY <1>2
  <2>1. h * q >= h * 2
    BY <1>1, <1>2
  <2> QED BY <1>1, <1>2, <2>1
<1>4. h * q = q * h
  BY <1>1, <1>2
<1> QED BY <1>2, <1>3, <1>4 DEF h, q, r, Bit

LEMMA NextStateType ==
    ASSUME NEW s \in States, NEW b \in Bit
    PROVE  NextState(s, b) \in States
<1> DEFINE h == HalfStates
<1>1. h \in Nat \ {0} /\ s \in Nat /\ s < 2 * h
  BY CodeFacts DEF States
<1>2. s \div 2 \in 0 .. (h - 1)
  <2> HIDE DEF h
  <2> QED BY <1>1, Halves
<1>3. NextState(s, b) = (s \div 2) + b * h /\ States = 0 .. (2 * h - 1)
  BY DEF NextState, States
<1> QED
  <2> HIDE DEF h
  <2>1. b = 0 \/ b = 1
    BY DEF Bit
  <2>2. CASE b = 0
    BY <1>1, <1>2, <1>3, <2>2
  <2>3. CASE b = 1
    BY <1>1, <1>2, <1>3, <2>3
  <2> QED BY <2>1, <2>2, <2>3

\* The two states a state is entered from, and no others.
LEMMA Sources ==
    ASSUME NEW t \in States
    PROVE  LET first == (t % HalfStates) * 2
           IN  /\ first \in States /\ first + 1 \in States
               /\ NextState(first, t \div HalfStates) = t
               /\ NextState(first + 1, t \div HalfStates) = t
<1> DEFINE h == HalfStates
           q == t \div h
           r == t % h
           first == r * 2
<1>1. h \in Nat \ {0} /\ q \in Bit /\ r \in 0 .. h - 1 /\ t = q * h + r
  BY CodeFacts, StateIs
<1>2. States = 0 .. (2 * h - 1) /\ \A s : NextState(s, q) = (s \div 2) + q * h
  BY DEF States, NextState
<1> HIDE DEF h, q, r
<1>3. first \in Nat /\ first \div 2 = r /\ (first + 1) \div 2 = r
  BY <1>1
<1>4. first \in States /\ first + 1 \in States
  BY <1>1, <1>2
<1>5. q * h \in Int
  BY <1>1 DEF Bit
<1>6. NextState(first, q) = t /\ NextState(first + 1, q) = t
  BY <1>1, <1>2, <1>3, <1>5
<1> QED BY <1>4, <1>6 DEF h, q, r

LEMMA OnlySources ==
    ASSUME NEW s \in States, NEW b \in Bit
    PROVE  LET t == NextState(s, b)
           IN  /\ b = t \div HalfStates
               /\ s = (t % HalfStates) * 2 \/ s = (t % HalfStates) * 2 + 1
<1> DEFINE h == HalfStates
           t == NextState(s, b)
           q == t \div h
           r == t % h
           half == s \div 2
<1>1. t \in States
  BY NextStateType
<1>2. h \in Nat \ {0} /\ q \in Bit /\ r \in 0 .. h - 1 /\ t = q * h + r
  <2> HIDE DEF t
  <2> QED BY <1>1, CodeFacts, StateIs
<1>3. s \in Nat /\ s < 2 * h
  BY CodeFacts DEF States
<1>4. t = half + b * h
  BY DEF NextState
<1> HIDE DEF h, t, q, r
<1>5. half \in 0 .. h - 1 /\ (s = 2 * half \/ s = 2 * half + 1)
  BY <1>2, <1>3, Halves
<1> HIDE DEF half
<1>6. q = b /\ r = half
  <2>1. (q = 0 \/ q = 1) /\ (b = 0 \/ b = 1)
    BY <1>2 DEF Bit
  <2> QED BY <1>2, <1>4, <1>5, <2>1
<1> QED BY <1>5, <1>6 DEF h, t, q, r

LEMMA OutputType ==
    ASSUME NEW s \in States, NEW b \in Bit
    PROVE  Output(s, b) \in Words(NumParityBits)
<1> DEFINE h == HalfStates
           R == 0 .. (4 * h - 1)
           x == s + b * (2 * h)
<1>1. ASSUME NEW register, NEW polynomial PROVE Parity(register, polynomial) \in Bit
  <2> DEFINE reversed == ReverseBits(Constraint, polynomial)
             S == {k \in 0 .. Constraint - 1 : BitAt(register, k) = 1 /\ BitAt(reversed, k) = 1}
  <2>1. IsFiniteSet(0 .. Constraint - 1)
    BY CodeAssumption, FS_Interval
  <2>2. Cardinality(S) \in Nat
    <3>1. S \in SUBSET (0 .. Constraint - 1)
      OBVIOUS
    <3> HIDE DEF S
    <3> QED BY <2>1, <3>1, FS_Subset, FS_CardinalityType
  <2>3. Parity(register, polynomial) = Cardinality(S) % 2
    BY DEF Parity
  <2> HIDE DEF S
  <2> QED BY <2>2, <2>3 DEF Bit
<1>2. h \in Nat \ {0} /\ s \in Nat /\ s < 2 * h /\ (b = 0 \/ b = 1)
  BY CodeFacts DEF States, Bit
<1>3. x \in R
  <2> HIDE DEF h
  <2>1. CASE b = 0
    BY <1>2, <2>1
  <2>2. CASE b = 1
    BY <1>2, <2>2
  <2> QED BY <1>2, <2>1, <2>2
<1>4. Output(s, b) = [j \in 1 .. NumParityBits |-> Parity(x, Polynomials[j])]
  <2>1. Output(s, b) = Outputs[x] /\ Outputs = [register \in R |->
           [j \in 1 .. NumParityBits |-> Parity(register, Polynomials[j])]]
    BY DEF Output, Outputs
  <2> HIDE DEF R, x
  <2> QED BY <1>3, <2>1
<1> HIDE DEF x
<1> QED BY <1>1, <1>4 DEF Words
-----------------------------------------------------------------------------
(* Walks through the states, and their code words. *)

\* The states the register goes through: the first is 0, each is the next of the one before.
LEMMA StatesOfIs ==
    ASSUME NEW n \in Nat, NEW u \in Words(n)
    PROVE  /\ StatesOf(u)[0] = 0
           /\ \A k \in 1 .. n : StatesOf(u)[k] = NextState(StatesOf(u)[k - 1], u[k])
           /\ \A k \in 0 .. n : StatesOf(u)[k] \in States
<1> DEFINE step == [q \in Nat \X States |-> IF q[1] \in 1 .. n THEN NextState(q[2], u[q[1]]) ELSE 0]
           At(g) == g = [k \in 0 .. n |-> IF k = 0 THEN 0 ELSE NextState(g[k - 1], u[k])]
           at == CHOOSE g : At(g)
<1>1. 0 \in States /\ step \in Steps(States)
  <2>1. 0 \in States
    BY CodeFacts
  <2>2. ASSUME NEW q \in Nat \X States
        PROVE  (IF q[1] \in 1 .. n THEN NextState(q[2], u[q[1]]) ELSE 0) \in States
    <3>1. q[1] \in 1 .. n => u[q[1]] \in Bit
      BY DEF Words
    <3> QED BY <2>1, <3>1, NextStateType
  <2> QED BY <2>1, <2>2 DEF Steps
<1>2. PICK f : f \in Runs(States, 0, step, n)
  <2> HIDE DEF step
  <2> QED BY <1>1, PrimitiveRecursion
<1>3. f \in [0 .. n -> States] /\ f[0] = 0 /\ \A k \in 1 .. n : f[k] = NextState(f[k - 1], u[k])
  <2>1. f \in [0 .. n -> States] /\ f[0] = 0 /\ \A k \in 1 .. n : f[k] = step[<<k, f[k - 1]>>]
    BY <1>2 DEF Runs
  <2>2. ASSUME NEW k \in 1 .. n PROVE step[<<k, f[k - 1]>>] = NextState(f[k - 1], u[k])
    <3>1. <<k, f[k - 1]>> \in Nat \X States
      BY <2>1
    <3> QED BY <3>1
  <2> QED BY <2>1, <2>2
<1>4. At(f)
  <2>1. f = [k \in 0 .. n |-> f[k]]
    BY <1>3
  <2>2. \A k \in 0 .. n : k = 0 \/ k \in 1 .. n
    OBVIOUS
  <2>3. \A k \in 0 .. n : f[k] = IF k = 0 THEN 0 ELSE NextState(f[k - 1], u[k])
    BY <1>3, <2>2
  <2> QED BY <2>1, <2>3
<1>5. At(at)
  <2> HIDE DEF At
  <2> QED BY <1>4
<1>6. Len(u) = n
  BY SequenceOf DEF Words
<1>7. StatesOf(u) = at
  BY <1>6 DEF StatesOf
<1> HIDE DEF at
<1>8. at[0] = 0 /\ \A k \in 1 .. n : at[k] = NextState(at[k - 1], u[k])
  <2>1. \A k \in 0 .. n : at[k] = IF k = 0 THEN 0 ELSE NextState(at[k - 1], u[k])
    BY <1>5
  <2>2. \A k \in 1 .. n : k \in 0 .. n /\ k # 0
    OBVIOUS
  <2> QED BY <2>1, <2>2
<1> DEFINE S == {k \in Nat : k <= n => at[k] \in States}
<1>9. Nat \subseteq S
  <2>1. 0 \in S
    BY <1>1, <1>8
  <2>2. ASSUME NEW k \in Nat, k \in S PROVE k + 1 \in S
    <3> SUFFICES ASSUME k + 1 <= n PROVE at[k + 1] \in States
      OBVIOUS
    <3>1. at[k] \in States /\ k + 1 \in 1 .. n /\ (k + 1) - 1 = k
      BY <2>2
    <3>2. u[k + 1] \in Bit /\ at[k + 1] = NextState(at[k], u[k + 1])
      BY <1>8, <3>1 DEF Words
    <3> QED BY <3>1, <3>2, NextStateType
  <2> HIDE DEF S
  <2> QED BY <2>1, <2>2, SetInduction
<1>10. \A k \in 0 .. n : at[k] \in States
  BY <1>9
<1> QED BY <1>7, <1>8, <1>10

\* The state the inputs lead to.
Final(u) == StatesOf(u)[Len(u)]

LEMMA FinalType ==
    ASSUME NEW n \in Nat, NEW u \in Words(n)
    PROVE  Final(u) \in States /\ Final(u) = StatesOf(u)[n]
<1>1. Len(u) = n
  BY SequenceOf DEF Words
<1> QED BY <1>1, StatesOfIs DEF Final

LEMMA NoInputs == <<>> \in Words(0) /\ Final(<<>>) = 0
<1>1. <<>> \in Words(0)
  BY DEF Words
<1>2. StatesOf(<<>>)[0] = 0
  BY <1>1, StatesOfIs
<1> QED BY <1>1, <1>2 DEF Final

\* One more input leaves the states before it as they were.
LEMMA StatesOfAppend ==
    ASSUME NEW n \in Nat, NEW u \in Words(n), NEW b \in Bit
    PROVE  /\ Append(u, b) \in Words(n + 1)
           /\ \A k \in 0 .. n : StatesOf(Append(u, b))[k] = StatesOf(u)[k]
           /\ Final(Append(u, b)) = NextState(Final(u), b)
<1> DEFINE v == Append(u, b)
           at == StatesOf(u)
           bt == StatesOf(v)
<1>1. v \in Words(n + 1) /\ (\A k \in 1 .. n : v[k] = u[k]) /\ v[n + 1] = b
  <2>1. v \in Words(n + 1)
    BY AppendIs DEF Words
  <2>2. \A k \in 1 .. n : v[k] = u[k]
    BY AppendIs DEF Words
  <2>3. v[n + 1] = b
    BY AppendIs DEF Words
  <2> QED BY <2>1, <2>2, <2>3
<1>2. at[0] = 0 /\ \A k \in 1 .. n : at[k] = NextState(at[k - 1], u[k])
  BY StatesOfIs
<1>3. bt[0] = 0 /\ \A k \in 1 .. n + 1 : bt[k] = NextState(bt[k - 1], v[k])
  <2> HIDE DEF v
  <2> QED BY <1>1, StatesOfIs
<1>4. Final(u) = at[n] /\ Final(v) = bt[n + 1]
  <2> HIDE DEF v
  <2> QED BY <1>1, FinalType
<1> HIDE DEF v, at, bt
<1> DEFINE S == {k \in Nat : k <= n => bt[k] = at[k]}
<1>5. Nat \subseteq S
  <2>1. 0 \in S
    BY <1>2, <1>3
  <2>2. ASSUME NEW k \in Nat, k \in S PROVE k + 1 \in S
    <3> SUFFICES ASSUME k + 1 <= n PROVE bt[k + 1] = at[k + 1]
      OBVIOUS
    <3>1. bt[k] = at[k] /\ k + 1 \in 1 .. n /\ k + 1 \in 1 .. n + 1 /\ (k + 1) - 1 = k
      BY <2>2
    <3>2. bt[k + 1] = NextState(bt[k], v[k + 1]) /\ at[k + 1] = NextState(at[k], u[k + 1])
      BY <1>2, <1>3, <3>1
    <3> QED BY <1>1, <3>1, <3>2
  <2> HIDE DEF S
  <2> QED BY <2>1, <2>2, SetInduction
<1>6. \A k \in 0 .. n : bt[k] = at[k]
  BY <1>5
<1>7. bt[n + 1] = NextState(bt[n], b)
  <2>1. n + 1 \in 1 .. n + 1 /\ (n + 1) - 1 = n
    OBVIOUS
  <2> QED BY <1>1, <1>3, <2>1
<1>8. Final(v) = NextState(Final(u), b)
  BY <1>4, <1>6, <1>7
<1> QED BY <1>1, <1>6, <1>8 DEF v, at, bt

\* The partial concatenations of seqs.
Flats(n, seqs) ==
    {r \in [0 .. n -> Seq(Bit)] : r[0] = <<>> /\ \A k \in 1 .. n : r[k] = r[k - 1] \o seqs[k]}

LEMMA FlattenIs ==
    ASSUME NEW n \in Nat, NEW seqs \in [1 .. n -> Seq(Bit)]
    PROVE  \E r \in Flats(n, seqs) : FlattenSeq(seqs) = r[n]
<1> DEFINE X == Seq(Bit)
           step == [q \in Nat \X X |-> IF q[1] \in 1 .. n THEN q[2] \o seqs[q[1]] ELSE <<>>]
           At(g) == g = [i \in 1 .. n |-> IF i = 1 THEN seqs[i] ELSE g[i - 1] \o seqs[i]]
           at == CHOOSE g : At(g)
<1>1. <<>> \in X /\ step \in Steps(X)
  <2>1. <<>> \in X
    OBVIOUS
  <2>2. ASSUME NEW q \in Nat \X X
        PROVE  (IF q[1] \in 1 .. n THEN q[2] \o seqs[q[1]] ELSE <<>>) \in X
    <3>1. q[1] \in 1 .. n => seqs[q[1]] \in X
      OBVIOUS
    <3>2. q[2] \in X
      OBVIOUS
    <3> QED BY <2>1, <3>1, <3>2, ConcatProperties
  <2> HIDE DEF X
  <2> QED BY <2>1, <2>2 DEF Steps
<1>2. PICK f : f \in Runs(X, <<>>, step, n)
  <2> HIDE DEF step, X
  <2> QED BY <1>1, PrimitiveRecursion
<1>3. f \in [0 .. n -> X] /\ f[0] = <<>> /\ \A k \in 1 .. n : f[k] = f[k - 1] \o seqs[k]
  <2> HIDE DEF X
  <2>1. f \in [0 .. n -> X] /\ f[0] = <<>> /\ \A k \in 1 .. n : f[k] = step[<<k, f[k - 1]>>]
    BY <1>2 DEF Runs
  <2>2. ASSUME NEW k \in 1 .. n PROVE step[<<k, f[k - 1]>>] = f[k - 1] \o seqs[k]
    <3>1. <<k, f[k - 1]>> \in Nat \X X
      BY <2>1
    <3> QED BY <3>1
  <2> QED BY <2>1, <2>2
<1>4. f \in Flats(n, seqs)
  BY <1>3 DEF Flats
<1>5. Len(seqs) = n
  BY SequenceOf
<1>6. CASE n = 0
  <2>1. FlattenSeq(seqs) = seqs
    BY <1>5, <1>6 DEF FlattenSeq
  <2>2. seqs = <<>>
    BY <1>6
  <2> QED BY <1>3, <1>4, <1>6, <2>1, <2>2
<1>7. CASE n # 0
  <2> DEFINE h == [i \in 1 .. n |-> f[i]]
  <2>1. At(h)
    <3>1. \A i \in 1 .. n : i # 1 => i - 1 \in 1 .. n
      OBVIOUS
    <3>2. 1 \in 1 .. n /\ 1 - 1 = 0
      BY <1>7
    <3>3. f[1] = seqs[1]
      <4>1. f[1] = f[0] \o seqs[1] /\ seqs[1] \in X
        BY <1>3, <3>2
      <4>2. <<>> \o seqs[1] = seqs[1]
        BY <4>1, ConcatEmptySeq
      <4> QED BY <1>3, <4>1, <4>2
    <3>4. \A i \in 1 .. n : f[i] = IF i = 1 THEN seqs[i] ELSE h[i - 1] \o seqs[i]
      BY <1>3, <3>1, <3>3
    <3> QED BY <3>4
  <2>2. At(at)
    <3> HIDE DEF At, h
    <3> QED BY <2>1
  <2>3. FlattenSeq(seqs) = at[n]
    BY <1>5, <1>7 DEF FlattenSeq
  <2> HIDE DEF at
  <2> DEFINE S == {k \in Nat : k \in 1 .. n => at[k] = f[k]}
  <2>4. Nat \subseteq S
    <3>1. 0 \in S
      OBVIOUS
    <3>2. ASSUME NEW k \in Nat, k \in S PROVE k + 1 \in S
      <4> SUFFICES ASSUME k + 1 \in 1 .. n PROVE at[k + 1] = f[k + 1]
        OBVIOUS
      <4>1. (k + 1) - 1 = k
        OBVIOUS
      <4>2. at[k + 1] = IF k + 1 = 1 THEN seqs[k + 1] ELSE at[k] \o seqs[k + 1]
        BY <2>2, <4>1
      <4>3. h[k + 1] = IF k + 1 = 1 THEN seqs[k + 1] ELSE h[k] \o seqs[k + 1]
        <5> HIDE DEF h
        <5> QED BY <2>1, <4>1
      <4>4. h[k + 1] = f[k + 1] /\ (k + 1 # 1 => k \in 1 .. n /\ h[k] = f[k] /\ at[k] = f[k])
        BY <3>2
      <4> HIDE DEF h
      <4> QED BY <4>2, <4>3, <4>4
    <3> HIDE DEF S
    <3> QED BY <3>1, <3>2, SetInduction
  <2>5. at[n] = f[n]
    BY <1>7, <2>4
  <2> QED BY <1>4, <2>3, <2>5
<1> QED BY <1>6, <1>7

\* One more sequence goes behind the others.
LEMMA FlattenAppend ==
    ASSUME NEW n \in Nat, NEW seqs \in [1 .. n -> Seq(Bit)], NEW c \in Seq(Bit)
    PROVE  FlattenSeq(Append(seqs, c)) = FlattenSeq(seqs) \o c
<1> DEFINE more == Append(seqs, c)
<1>1. more \in [1 .. n + 1 -> Seq(Bit)] /\ (\A k \in 1 .. n : more[k] = seqs[k]) /\ more[n + 1] = c
  <2>1. more \in [1 .. n + 1 -> Seq(Bit)]
    BY AppendIs
  <2>2. \A k \in 1 .. n : more[k] = seqs[k]
    BY AppendIs
  <2>3. more[n + 1] = c
    BY AppendIs
  <2> QED BY <2>1, <2>2, <2>3
<1> HIDE DEF more
<1>2. PICK r \in Flats(n, seqs) : FlattenSeq(seqs) = r[n]
  BY FlattenIs
<1>3. PICK q \in Flats(n + 1, more) : FlattenSeq(more) = q[n + 1]
  BY <1>1, FlattenIs
<1>4. r[0] = <<>> /\ \A k \in 1 .. n : r[k] = r[k - 1] \o seqs[k]
  BY DEF Flats
<1>5. q[0] = <<>> /\ \A k \in 1 .. n + 1 : q[k] = q[k - 1] \o more[k]
  BY DEF Flats
<1> DEFINE S == {k \in Nat : k <= n => q[k] = r[k]}
<1>6. Nat \subseteq S
  <2>1. 0 \in S
    BY <1>4, <1>5
  <2>2. ASSUME NEW k \in Nat, k \in S PROVE k + 1 \in S
    <3> SUFFICES ASSUME k + 1 <= n PROVE q[k + 1] = r[k + 1]
      OBVIOUS
    <3>1. q[k] = r[k] /\ k + 1 \in 1 .. n /\ k + 1 \in 1 .. n + 1 /\ (k + 1) - 1 = k
      BY <2>2
    <3> QED BY <1>1, <1>4, <1>5, <3>1
  <2> HIDE DEF S
  <2> QED BY <2>1, <2>2, SetInduction
<1>7. q[n] = r[n]
  BY <1>6
<1>8. q[n + 1] = q[n] \o more[n + 1]
  <2>1. n + 1 \in 1 .. n + 1 /\ (n + 1) - 1 = n
    OBVIOUS
  <2> QED BY <1>5, <2>1
<1> QED BY <1>1, <1>2, <1>3, <1>7, <1>8 DEF more
\* The outputs along a walk.
Outs(u) == [k \in 1 .. Len(u) |-> Output(StatesOf(u)[k - 1], u[k])]

LEMMA OutsType ==
    ASSUME NEW n \in Nat, NEW u \in Words(n)
    PROVE  Outs(u) \in [1 .. n -> Words(NumParityBits)]
<1>1. Len(u) = n
  BY SequenceOf DEF Words
<1>2. ASSUME NEW k \in 1 .. n PROVE Output(StatesOf(u)[k - 1], u[k]) \in Words(NumParityBits)
  <2>1. k - 1 \in 0 .. n /\ u[k] \in Bit
    BY DEF Words
  <2>2. StatesOf(u)[k - 1] \in States
    BY <2>1, StatesOfIs
  <2> QED BY <2>1, <2>2, OutputType
<1> QED BY <1>1, <1>2 DEF Outs

LEMMA WordsAreSequences ==
    ASSUME NEW m \in Nat, NEW n \in Nat, NEW f \in [1 .. n -> Words(m)]
    PROVE  f \in [1 .. n -> Seq(Bit)]
<1>1. \A x \in Words(m) : x \in Seq(Bit)
  BY SequenceOf DEF Words
<1> QED BY <1>1

LEMMA WalkEmpty == Walk(<<>>) = <<>>
<1>1. Walk(<<>>) = FlattenSeq([n \in 1 .. Len(<<>>) |-> Output(StatesOf(<<>>)[n - 1], <<>>[n])])
  BY DEF Walk
<1>2. [n \in 1 .. Len(<<>>) |-> Output(StatesOf(<<>>)[n - 1], <<>>[n])] = <<>>
  OBVIOUS
<1>3. FlattenSeq(<<>>) = <<>>
  BY DEF FlattenSeq
<1> QED BY <1>1, <1>2, <1>3

\* One more input adds its output to the code word.
LEMMA WalkAppend ==
    ASSUME NEW n \in Nat, NEW u \in Words(n), NEW b \in Bit
    PROVE  Walk(Append(u, b)) = Walk(u) \o Output(Final(u), b)
<1> DEFINE v == Append(u, b)
           c == Output(Final(u), b)
<1>1. v \in Words(n + 1) /\ \A k \in 0 .. n : StatesOf(v)[k] = StatesOf(u)[k]
  BY StatesOfAppend
<1>2. (\A k \in 1 .. n : v[k] = u[k]) /\ v[n + 1] = b
  <2>1. \A k \in 1 .. n : v[k] = u[k]
    BY AppendIs DEF Words
  <2>2. v[n + 1] = b
    BY AppendIs DEF Words
  <2> QED BY <2>1, <2>2
<1>3. Outs(u) \in [1 .. n -> Words(NumParityBits)] /\ c \in Words(NumParityBits)
  BY OutsType, FinalType, OutputType
<1>4. Outs(v) \in [1 .. n + 1 -> Words(NumParityBits)]
  <2> HIDE DEF v
  <2> QED BY <1>1, OutsType
<1> DEFINE w == Append(Outs(u), c)
<1>5. w \in [1 .. n + 1 -> Words(NumParityBits)]
  <2> HIDE DEF c
  <2> QED BY <1>3, AppendIs
<1>6. (\A k \in 1 .. n : w[k] = Outs(u)[k]) /\ w[n + 1] = c
  <2> HIDE DEF c
  <2>1. \A k \in 1 .. n : w[k] = Outs(u)[k]
    BY <1>3, AppendIs
  <2>2. w[n + 1] = c
    BY <1>3, AppendIs
  <2> QED BY <2>1, <2>2
<1>7. Len(u) = n /\ Len(v) = n + 1
  <2> HIDE DEF v
  <2> QED BY <1>1, SequenceOf DEF Words
<1>8. \A k \in 1 .. n + 1 : Outs(v)[k] = w[k]
  <2> TAKE k \in 1 .. n + 1
  <2>1. Outs(v)[k] = Output(StatesOf(v)[k - 1], v[k])
    BY <1>7 DEF Outs
  <2>2. CASE k = n + 1
    <3>1. StatesOf(v)[k - 1] = StatesOf(u)[n] /\ Final(u) = StatesOf(u)[n]
      BY <1>1, <2>2, FinalType
    <3> QED BY <1>2, <1>6, <2>1, <2>2, <3>1
  <2>3. CASE k # n + 1
    <3>1. k \in 1 .. n /\ k - 1 \in 0 .. n
      BY <2>3
    <3>2. Outs(u)[k] = Output(StatesOf(u)[k - 1], u[k])
      BY <1>7, <3>1 DEF Outs
    <3>3. StatesOf(v)[k - 1] = StatesOf(u)[k - 1] /\ v[k] = u[k] /\ w[k] = Outs(u)[k]
      BY <1>1, <1>2, <1>6, <3>1
    <3> QED BY <2>1, <3>2, <3>3
  <2> QED BY <2>2, <2>3
<1>9. Outs(v) = w
  <2> HIDE DEF v, w
  <2> QED BY <1>4, <1>5, <1>8
<1>10. FlattenSeq(w) = FlattenSeq(Outs(u)) \o c
  <2>1. Outs(u) \in [1 .. n -> Seq(Bit)]
    BY <1>3, CodeFacts, WordsAreSequences
  <2>2. c \in Seq(Bit)
    <3> HIDE DEF c
    <3> QED BY <1>3, CodeFacts, SequenceOf DEF Words
  <2> HIDE DEF c
  <2> QED BY <2>1, <2>2, FlattenAppend
<1>11. Walk(u) = FlattenSeq(Outs(u)) /\ Walk(v) = FlattenSeq(Outs(v))
  BY DEF Walk, Outs
<1> QED BY <1>9, <1>10, <1>11

LEMMA Products ==
    ASSUME NEW n \in Nat, NEW m \in Nat
    PROVE  n * m \in Nat /\ (n + 1) * m = n * m + m
<1>1. n * m \in Int /\ n * m >= 0
  OBVIOUS
<1> QED BY <1>1

LEMMA WalkType ==
    ASSUME NEW n \in Nat, NEW u \in Words(n)
    PROVE  Walk(u) \in Words(n * NumParityBits)
<1> DEFINE p == NumParityBits
           S == {k \in Nat : \A x \in Words(k) : Walk(x) \in Words(k * p)}
<1>1. p \in Nat
  BY CodeFacts
<1>2. 0 \in S
  <2>1. ASSUME NEW x \in Words(0) PROVE x = <<>>
    BY DEF Words
  <2>2. 0 * p = 0
    <3> HIDE DEF p
    <3> QED BY <1>1
  <2> QED BY <2>1, <2>2, WalkEmpty, NoInputs
<1>3. ASSUME NEW k \in Nat, k \in S PROVE k + 1 \in S
  <2> SUFFICES ASSUME NEW x \in Words(k + 1) PROVE Walk(x) \in Words((k + 1) * p)
    OBVIOUS
  <2>1. PICK g \in Words(k) : x = Append(g, x[k + 1])
    BY SplitLast DEF Words
  <2>2. x[k + 1] \in Bit
    BY DEF Words
  <2> DEFINE c == Output(Final(g), x[k + 1])
  <2>3. Walk(x) = Walk(g) \o c
    BY <2>1, <2>2, WalkAppend
  <2>4. Walk(g) \in Words(k * p)
    BY <1>3
  <2>5. c \in Words(p)
    BY <2>2, FinalType, OutputType
  <2>6. k * p \in Nat /\ (k + 1) * p = k * p + p
    BY <1>1, Products
  <2> HIDE DEF c, p
  <2>7. Walk(g) \o c \in Words(k * p + p)
    BY <1>1, <2>4, <2>5, <2>6, DistanceAdds
  <2> QED BY <2>3, <2>6, <2>7
<1>4. Nat \subseteq S
  <2> HIDE DEF S
  <2> QED BY <1>2, <1>3, SetInduction
<1> QED BY <1>4

-----------------------------------------------------------------------------
(* What is read, and how far it is from a code word. *)

LEMMA ColumnType ==
    ASSUME NEW bits \in Seq(Bit), NEW n \in Nat
    PROVE  Column(bits, n + 1) \in Words(NumParityBits)
<1> DEFINE p == NumParityBits
<1>1. p \in Nat /\ n * p \in Nat /\ (n + 1) - 1 = n
  <2>1. p \in Nat
    BY CodeFacts
  <2> HIDE DEF p
  <2> QED BY <2>1, Products
<1>2. ASSUME NEW j \in 1 .. p
      PROVE  (IF n * p + j <= Len(bits) THEN bits[n * p + j] ELSE 0) \in Bit
  <2> HIDE DEF p
  <2>1. n * p + j \in Nat \ {0}
    BY <1>1
  <2>2. n * p + j <= Len(bits) => bits[n * p + j] \in Bit
    BY <2>1, ElementOfSeq
  <2> QED BY <2>2 DEF Bit
<1> QED BY <1>1, <1>2 DEF Column, Words

LEMMA ReadBitsStep ==
    ASSUME NEW bits \in Seq(Bit), NEW n \in Nat
    PROVE  ReadBits(bits, n + 1) = ReadBits(bits, n) \o Column(bits, n + 1)
<1> DEFINE c == Column(bits, n + 1)
           f == [k \in 1 .. n |-> Column(bits, k)]
           g == [k \in 1 .. n + 1 |-> Column(bits, k)]
<1>1. \A k \in 1 .. n + 1 : Column(bits, k) \in Seq(Bit)
  <2> TAKE k \in 1 .. n + 1
  <2>1. k - 1 \in Nat /\ (k - 1) + 1 = k
    OBVIOUS
  <2>2. Column(bits, k) \in Words(NumParityBits)
    BY <2>1, ColumnType
  <2> QED BY <2>2, CodeFacts, SequenceOf DEF Words
<1>2. f \in [1 .. n -> Seq(Bit)] /\ g \in [1 .. n + 1 -> Seq(Bit)] /\ c \in Seq(Bit)
  BY <1>1
<1>3. (\A k \in 1 .. n : g[k] = f[k]) /\ g[n + 1] = c
  OBVIOUS
<1> DEFINE h == Append(f, c)
<1>4. h \in [1 .. n + 1 -> Seq(Bit)] /\ (\A k \in 1 .. n : h[k] = f[k]) /\ h[n + 1] = c
  <2> HIDE DEF f, c
  <2>1. h \in [1 .. n + 1 -> Seq(Bit)]
    BY <1>2, AppendIs
  <2>2. \A k \in 1 .. n : h[k] = f[k]
    BY <1>2, AppendIs
  <2>3. h[n + 1] = c
    BY <1>2, AppendIs
  <2> QED BY <2>1, <2>2, <2>3
<1>5. g = h
  <2>1. \A k \in 1 .. n + 1 : k \in 1 .. n \/ k = n + 1
    OBVIOUS
  <2> HIDE DEF f, g, h, c
  <2>2. \A k \in 1 .. n + 1 : g[k] = h[k]
    BY <1>3, <1>4, <2>1
  <2> QED BY <1>2, <1>4, <2>2
<1>6. FlattenSeq(h) = FlattenSeq(f) \o c
  <2> HIDE DEF f, c
  <2> QED BY <1>2, FlattenAppend
<1> QED BY <1>5, <1>6 DEF ReadBits

LEMMA ReadBitsType ==
    ASSUME NEW bits \in Seq(Bit), NEW n \in Nat
    PROVE  ReadBits(bits, n) \in Words(n * NumParityBits)
<1> DEFINE p == NumParityBits
           S == {k \in Nat : ReadBits(bits, k) \in Words(k * p)}
<1>1. p \in Nat
  BY CodeFacts
<1>2. 0 \in S
  <2>1. ReadBits(bits, 0) = FlattenSeq([k \in 1 .. 0 |-> Column(bits, k)])
    BY DEF ReadBits
  <2>2. [k \in 1 .. 0 |-> Column(bits, k)] = <<>>
    OBVIOUS
  <2>3. FlattenSeq(<<>>) = <<>>
    BY DEF FlattenSeq
  <2>4. 0 * p = 0
    <3> HIDE DEF p
    <3> QED BY <1>1
  <2> QED BY <2>1, <2>2, <2>3, <2>4, NoInputs
<1>3. ASSUME NEW k \in Nat, k \in S PROVE k + 1 \in S
  <2> DEFINE c == Column(bits, k + 1)
  <2>1. ReadBits(bits, k + 1) = ReadBits(bits, k) \o c
    BY ReadBitsStep
  <2>2. ReadBits(bits, k) \in Words(k * p)
    BY <1>3
  <2>3. c \in Words(p)
    BY ColumnType
  <2>4. k * p \in Nat /\ (k + 1) * p = k * p + p
    BY <1>1, Products
  <2> HIDE DEF c, p
  <2>5. ReadBits(bits, k) \o c \in Words(k * p + p)
    BY <1>1, <2>2, <2>3, <2>4, DistanceAdds
  <2>6. ReadBits(bits, k + 1) \in Words((k + 1) * p)
    BY <2>1, <2>4, <2>5
  <2> QED BY <2>6 DEF p
<1>4. Nat \subseteq S
  <2> HIDE DEF S
  <2> QED BY <1>2, <1>3, SetInduction
<1> QED BY <1>4

\* The distance of the first n columns from the code word of the inputs.
Gap(bits, n, u) == Distance(ReadBits(bits, n), Walk(u))

LEMMA GapType ==
    ASSUME NEW bits \in Seq(Bit), NEW n \in Nat, NEW u
    PROVE  Gap(bits, n, u) \in 0 .. n * NumParityBits
<1>1. n * NumParityBits \in Nat
  BY CodeFacts, Products
<1>2. ReadBits(bits, n) \in Words(n * NumParityBits)
  BY ReadBitsType
<1> QED BY <1>1, <1>2, DistanceType DEF Gap

LEMMA GapStep ==
    ASSUME NEW bits \in Seq(Bit), NEW n \in Nat, NEW u \in Words(n), NEW b \in Bit
    PROVE  Gap(bits, n + 1, Append(u, b)) =
             Gap(bits, n, u) + Distance(Column(bits, n + 1), Output(Final(u), b))
<1> DEFINE p == NumParityBits
           m == n * p
           x == ReadBits(bits, n)
           y == Walk(u)
           c == Column(bits, n + 1)
           d == Output(Final(u), b)
<1>1. p \in Nat /\ m \in Nat
  BY CodeFacts, Products
<1>2. x \in Words(m) /\ y \in Words(m) /\ c \in Words(p) /\ d \in Words(p)
  BY ReadBitsType, WalkType, ColumnType, FinalType, OutputType
<1>3. ReadBits(bits, n + 1) = x \o c /\ Walk(Append(u, b)) = y \o d
  BY ReadBitsStep, WalkAppend
<1>4. Distance(x \o c, y \o d) = Distance(x, y) + Distance(c, d)
  <2> HIDE DEF p, m, x, y, c, d
  <2> QED BY <1>1, <1>2, DistanceAdds
<1> QED BY <1>3, <1>4 DEF Gap
-----------------------------------------------------------------------------
(* A column of the trellis. *)

\* The metrics after n columns are the least distances, where there are inputs.
Attained(bits, n, m, s) == \E u \in Words(n) : Final(u) = s /\ Gap(bits, n, u) = m
MetricOK(bits, n, m, s) ==
    /\ m \in 0 .. n * NumParityBits \cup {Unreached}
    /\ \A u \in Words(n) : Final(u) = s => m <= Gap(bits, n, u)
    /\ m # Unreached => Attained(bits, n, m, s)
MetricsOK(bits, n, metrics) == \A s \in States : MetricOK(bits, n, metrics[s], s)

\* Inputs that lead to a state at the least distance.
Reached(n, s) == \E u \in Words(n) : Final(u) = s
Best(bits, n, s, u) ==
    /\ u \in Words(n) /\ Final(u) = s
    /\ \A v \in Words(n) : Final(v) = s => Gap(bits, n, u) <= Gap(bits, n, v)

\* What a column says of a state: the best inputs to the source, and the input
\* that leads on, are best for the state.
SourceOK(bits, n, s, t) ==
    Reached(n + 1, t) =>
        /\ Reached(n, s)
        /\ \A u : Best(bits, n, s, u) => Best(bits, n + 1, t, Append(u, t \div HalfStates))

LEMMA BranchMetricType ==
    ASSUME NEW bits \in Seq(Bit), NEW n \in Nat, NEW s \in States, NEW t \in States
    PROVE  /\ BranchMetric(Column(bits, n + 1), s, t) \in 0 .. NumParityBits
           /\ BranchMetric(Column(bits, n + 1), s, t) =
                Distance(Column(bits, n + 1), Output(s, t \div HalfStates))
<1>1. Column(bits, n + 1) \in Words(NumParityBits) /\ NumParityBits \in Nat
  BY ColumnType, CodeFacts
<1> QED BY <1>1, DistanceType DEF BranchMetric

\* What a source costs: its metric and the branch, if it has been reached.
LEMMA SourceCost ==
    ASSUME NEW bits \in Seq(Bit), NEW n \in Nat, NEW m, NEW s \in States, NEW t \in States,
           MetricOK(bits, n, m, s), NextState(s, t \div HalfStates) = t,
           (n + 1) * NumParityBits < Unreached
    PROVE  LET b == t \div HalfStates
               cost == Plus(m, BranchMetric(Column(bits, n + 1), s, t))
           IN  /\ cost \in 0 .. (n + 1) * NumParityBits \cup {Unreached}
               /\ cost # Unreached <=> m # Unreached
               /\ cost # Unreached => Attained(bits, n + 1, cost, t)
               /\ \A u \in Words(n) : Final(u) = s =>
                    /\ Append(u, b) \in Words(n + 1) /\ Final(Append(u, b)) = t
                    /\ cost <= Gap(bits, n + 1, Append(u, b))
                    /\ Gap(bits, n, u) = m => Gap(bits, n + 1, Append(u, b)) = cost
<1> DEFINE b == t \div HalfStates
           branch == BranchMetric(Column(bits, n + 1), s, t)
           cost == Plus(m, branch)
           p == NumParityBits
<1>1. p \in Nat /\ n * p \in Nat /\ (n + 1) * p = n * p + p
  BY CodeFacts, Products
<1>2. branch \in 0 .. p /\ branch = Distance(Column(bits, n + 1), Output(s, b))
  BY BranchMetricType
<1>3. b \in Bit
  BY StateIs
<1>4. m \in 0 .. n * p \cup {Unreached} /\ Unreached \in Nat
      /\ (\A u \in Words(n) : Final(u) = s => m <= Gap(bits, n, u))
      /\ (m # Unreached => Attained(bits, n, m, s))
  BY DEF MetricOK, Unreached
<1>5. cost = IF m < Unreached THEN m + branch ELSE m
  BY DEF Plus
<1>12. (n + 1) * p < Unreached
  OBVIOUS
<1> HIDE DEF b, branch, p, cost
<1>6. n * p < Unreached /\ (n + 1) * p < Unreached
  BY <1>1, <1>4, <1>12
<1>7. cost \in 0 .. (n + 1) * p \cup {Unreached} /\ (cost # Unreached <=> m # Unreached)
      /\ (m # Unreached => cost = m + branch)
  <2>1. CASE m = Unreached
    BY <1>4, <1>5, <2>1
  <2>2. CASE m # Unreached
    <3>1. m \in 0 .. n * p /\ m < Unreached
      BY <1>1, <1>4, <1>6, <2>2
    <3>2. cost = m + branch /\ cost \in 0 .. (n + 1) * p
      BY <1>1, <1>2, <1>5, <3>1
    <3> QED BY <1>1, <1>6, <2>2, <3>2
  <2> QED BY <2>1, <2>2
<1>8. ASSUME NEW u \in Words(n), Final(u) = s
      PROVE  /\ Append(u, b) \in Words(n + 1) /\ Final(Append(u, b)) = t
             /\ Gap(bits, n, u) \in 0 .. n * p
             /\ Gap(bits, n + 1, Append(u, b)) = Gap(bits, n, u) + branch
  <2>1. Append(u, b) \in Words(n + 1) /\ Final(Append(u, b)) = NextState(Final(u), b)
    BY <1>3, StatesOfAppend
  <2>2. Gap(bits, n + 1, Append(u, b)) = Gap(bits, n, u) + Distance(Column(bits, n + 1), Output(Final(u), b))
    BY <1>3, GapStep
  <2>3. Gap(bits, n, u) \in 0 .. n * p
    BY GapType DEF p
  <2> QED BY <1>2, <1>8, <2>1, <2>2, <2>3 DEF b
<1>9. ASSUME NEW u \in Words(n), Final(u) = s
      PROVE  /\ cost <= Gap(bits, n + 1, Append(u, b))
             /\ Gap(bits, n, u) = m => Gap(bits, n + 1, Append(u, b)) = cost
  <2>1. m <= Gap(bits, n, u) /\ Gap(bits, n, u) \in 0 .. n * p
    BY <1>4, <1>8, <1>9
  <2>2. m # Unreached
    BY <1>1, <1>4, <1>6, <2>1
  <2>3. Gap(bits, n + 1, Append(u, b)) = Gap(bits, n, u) + branch
    BY <1>8, <1>9
  <2> QED BY <1>1, <1>2, <1>4, <1>7, <2>1, <2>2, <2>3
<1>10. cost # Unreached => Attained(bits, n + 1, cost, t)
  <2> SUFFICES ASSUME cost # Unreached PROVE Attained(bits, n + 1, cost, t)
    OBVIOUS
  <2>1. PICK u \in Words(n) : Final(u) = s /\ Gap(bits, n, u) = m
    BY <1>4, <1>7 DEF Attained
  <2>2. Append(u, b) \in Words(n + 1) /\ Final(Append(u, b)) = t
    BY <1>8, <2>1
  <2>3. Gap(bits, n + 1, Append(u, b)) = cost
    BY <1>9, <2>1
  <2> QED BY <2>2, <2>3 DEF Attained
<1>11. \A u \in Words(n) : Final(u) = s =>
                    /\ Append(u, b) \in Words(n + 1) /\ Final(Append(u, b)) = t
                    /\ cost <= Gap(bits, n + 1, Append(u, b))
                    /\ Gap(bits, n, u) = m => Gap(bits, n + 1, Append(u, b)) = cost
  BY <1>8, <1>9
<1> QED BY <1>7, <1>10, <1>11 DEF b, cost, branch, p

\* Whoever comes to a state comes from one of its two sources.
LEMMA Arrivals ==
    ASSUME NEW n \in Nat, NEW t \in States, NEW v \in Words(n + 1), Final(v) = t
    PROVE  \E u \in Words(n) :
             /\ v = Append(u, t \div HalfStates)
             /\ Final(u) = (t % HalfStates) * 2 \/ Final(u) = (t % HalfStates) * 2 + 1
<1>1. PICK u \in Words(n) : v = Append(u, v[n + 1])
  BY SplitLast DEF Words
<1> DEFINE c == v[n + 1]
<1>2. c \in Bit /\ v = Append(u, c)
  BY <1>1 DEF Words
<1> HIDE DEF c
<1>3. Final(v) = NextState(Final(u), c) /\ Final(u) \in States
  BY <1>2, StatesOfAppend, FinalType
<1>4. /\ c = t \div HalfStates
      /\ Final(u) = (t % HalfStates) * 2 \/ Final(u) = (t % HalfStates) * 2 + 1
  BY <1>2, <1>3, OnlySources
<1> QED BY <1>2, <1>4

\* A column of least distances makes the next one, and its sources are best.
LEMMA PathMetricStep ==
    ASSUME NEW bits \in Seq(Bit), NEW n \in Nat, NEW metrics, MetricsOK(bits, n, metrics),
           NEW t \in States, (n + 1) * NumParityBits < Unreached
    PROVE  LET best == PathMetric(Column(bits, n + 1), metrics, t)
           IN  /\ MetricOK(bits, n + 1, best[1], t)
               /\ best[2] \in States /\ SourceOK(bits, n, best[2], t)
<1> DEFINE col == Column(bits, n + 1)
           b == t \div HalfStates
           first == (t % HalfStates) * 2
           second == first + 1
           pm1 == Plus(metrics[first], BranchMetric(col, first, t))
           pm2 == Plus(metrics[second], BranchMetric(col, second, t))
           best == PathMetric(col, metrics, t)
           limit == (n + 1) * NumParityBits
<1>1. /\ first \in States /\ second \in States
      /\ NextState(first, b) = t /\ NextState(second, b) = t
  BY Sources
<1>2. best = IF pm1 <= pm2 THEN <<pm1, first>> ELSE <<pm2, second>>
  BY DEF PathMetric
<1> DEFINE Good(cost, s) ==
             /\ cost \in 0 .. limit \cup {Unreached}
             /\ cost # Unreached => Attained(bits, n + 1, cost, t)
             /\ cost # Unreached => metrics[s] # Unreached
             /\ \A u \in Words(n) : Final(u) = s =>
                  /\ Append(u, b) \in Words(n + 1) /\ Final(Append(u, b)) = t
                  /\ cost <= Gap(bits, n + 1, Append(u, b))
                  /\ Gap(bits, n, u) = metrics[s] => Gap(bits, n + 1, Append(u, b)) = cost
<1>3. MetricOK(bits, n, metrics[first], first) /\ MetricOK(bits, n, metrics[second], second)
  BY <1>1 DEF MetricsOK
<1>4. Good(pm1, first)
  <2> HIDE DEF first, second
  <2> QED BY <1>1, <1>3, SourceCost
<1>5. Good(pm2, second)
  <2> HIDE DEF first, second
  <2> QED BY <1>1, <1>3, SourceCost
<1>6. limit \in Nat /\ limit < Unreached /\ Unreached \in Nat
  BY CodeFacts, Products DEF Unreached
<1>7. ASSUME NEW v \in Words(n + 1), Final(v) = t
      PROVE  \E u \in Words(n) : v = Append(u, b) /\ (Final(u) = first \/ Final(u) = second)
  BY <1>7, Arrivals
<1>8. \E cost : \E s \in States :
         /\ best[1] = cost /\ best[2] = s /\ Good(cost, s)
         /\ cost <= pm1 /\ cost <= pm2
  <2> HIDE DEF first, second, pm1, pm2, best, Good
  <2>0. pm1 \in Nat /\ pm2 \in Nat
    BY <1>4, <1>5, <1>6 DEF Good
  <2>1. CASE pm1 <= pm2
    <3>1. best[1] = pm1 /\ best[2] = first
      BY <1>2, <2>1
    <3> QED BY <1>1, <1>4, <2>0, <2>1, <3>1
  <2>2. CASE ~(pm1 <= pm2)
    <3>1. best[1] = pm2 /\ best[2] = second /\ pm2 <= pm1
      BY <1>2, <2>0, <2>2
    <3> QED BY <1>1, <1>5, <2>0, <2>2, <3>1
  <2> QED BY <2>1, <2>2
<1>9. PICK cost : \E s \in States :
         /\ best[1] = cost /\ best[2] = s /\ Good(cost, s)
         /\ cost <= pm1 /\ cost <= pm2
  <2> HIDE DEF best, Good, pm1, pm2
  <2> QED BY <1>8
<1>10. PICK s \in States : best[1] = cost /\ best[2] = s /\ Good(cost, s)
                           /\ cost <= pm1 /\ cost <= pm2
  <2> HIDE DEF best, Good, pm1, pm2
  <2> QED BY <1>9
<1>12. pm1 \in Nat /\ pm2 \in Nat /\ cost \in Nat
  <2> HIDE DEF pm1, pm2
  <2> QED BY <1>4, <1>5, <1>6, <1>10
<1>11. ASSUME NEW v \in Words(n + 1), Final(v) = t
       PROVE  cost <= Gap(bits, n + 1, v) /\ Gap(bits, n + 1, v) \in 0 .. limit
  <2>1. PICK u \in Words(n) : v = Append(u, b) /\ (Final(u) = first \/ Final(u) = second)
    BY <1>7, <1>11
  <2>2. Gap(bits, n + 1, v) \in 0 .. limit
    BY GapType
  <2> HIDE DEF pm1, pm2, first, second, best, b, limit
  <2>3. CASE Final(u) = first
    <3>1. pm1 <= Gap(bits, n + 1, v)
      BY <1>4, <2>1, <2>3
    <3> QED BY <1>6, <1>10, <1>12, <2>2, <3>1
  <2>4. CASE Final(u) = second
    <3>1. pm2 <= Gap(bits, n + 1, v)
      BY <1>5, <2>1, <2>4
    <3> QED BY <1>6, <1>10, <1>12, <2>2, <3>1
  <2> QED BY <2>1, <2>3, <2>4
<1> HIDE DEF pm1, pm2, first, second, best, b, limit
<1>13. MetricOK(bits, n + 1, cost, t)
  BY <1>10, <1>11 DEF MetricOK, limit
<1>14. SourceOK(bits, n, s, t)
  <2> SUFFICES ASSUME Reached(n + 1, t)
               PROVE  /\ Reached(n, s)
                      /\ \A u : Best(bits, n, s, u) => Best(bits, n + 1, t, Append(u, b))
    BY DEF SourceOK, b
  <2>1. PICK v \in Words(n + 1) : Final(v) = t
    BY DEF Reached
  <2>2. cost # Unreached
    BY <1>6, <1>11, <1>12, <2>1
  <2>3. MetricOK(bits, n, metrics[s], s) /\ metrics[s] # Unreached
    BY <1>10, <2>2 DEF MetricsOK
  <2>4. PICK w \in Words(n) : Final(w) = s /\ Gap(bits, n, w) = metrics[s]
    BY <2>3 DEF MetricOK, Attained
  <2>5. ASSUME NEW u, Best(bits, n, s, u) PROVE Best(bits, n + 1, t, Append(u, b))
    <3>1. u \in Words(n) /\ Final(u) = s /\ Gap(bits, n, u) <= metrics[s]
      BY <2>4, <2>5 DEF Best
    <3>2. metrics[s] <= Gap(bits, n, u)
      BY <2>3, <3>1 DEF MetricOK
    <3>3. Gap(bits, n, u) \in Nat /\ metrics[s] \in Nat
      <4>1. n * NumParityBits \in Nat
        BY CodeFacts, Products
      <4>2. Gap(bits, n, u) \in 0 .. n * NumParityBits
        BY GapType
      <4> QED BY <1>6, <2>3, <4>1, <4>2 DEF MetricOK
    <3>4. Gap(bits, n, u) = metrics[s]
      BY <3>1, <3>2, <3>3
    <3>5. Append(u, b) \in Words(n + 1) /\ Final(Append(u, b)) = t
          /\ Gap(bits, n + 1, Append(u, b)) = cost
      BY <1>10, <3>1, <3>4
    <3>6. \A x \in Words(n + 1) : Final(x) = t => Gap(bits, n + 1, Append(u, b)) <= Gap(bits, n + 1, x)
      BY <1>11, <3>5
    <3> QED BY <3>5, <3>6 DEF Best
  <2> QED BY <2>4, <2>5 DEF Reached
<1> QED BY <1>10, <1>13, <1>14 DEF best, col

LEMMA ColumnsType == ASSUME NEW bits \in Seq(Bit) PROVE Columns(bits) \in Nat
<1>1. Len(bits) + NumParityBits - 1 \in Nat /\ NumParityBits \in Nat \ {0}
  BY CodeFacts
<1> QED BY <1>1, Division DEF Columns

LEMMA ColumnsBound ==
    ASSUME NEW bits \in Seq(Bit), NEW n \in Nat, n <= Columns(bits)
    PROVE  Columns(bits) \in Nat /\ n * NumParityBits <= Len(bits) + NumParityBits - 1
<1> DEFINE p == NumParityBits
           x == Len(bits) + p - 1
           c == x \div p
<1>1. p \in Nat \ {0} /\ x \in Nat /\ c = Columns(bits)
  BY CodeFacts DEF Columns
<1>2. c \in Nat /\ p * c <= x
  <2> HIDE DEF x, p
  <2>1. c \in Nat /\ (x % p) \in 0 .. (p - 1) /\ x = p * c + (x % p)
    BY <1>1, Division
  <2> HIDE DEF c
  <2> QED BY <1>1, <2>1
<1> HIDE DEF c
<1>3. n <= c /\ c \in Nat /\ p \in Nat /\ n \in Nat
  BY <1>1, <1>2
<1>4. n * p <= c * p
  <2>1. c - n \in Nat /\ c = n + (c - n)
    BY <1>3
  <2>2. (c - n) * p \in Nat
    <3> HIDE DEF p
    <3> QED BY <1>3, <2>1, Products
  <2> HIDE DEF p, x
  <2>3. c * p = n * p + (c - n) * p
    BY <1>3, <2>1
  <2>4. n * p \in Nat
    BY <1>3, Products
  <2> QED BY <2>2, <2>3, <2>4
<1>5. c * p = p * c
  <2> HIDE DEF p
  <2> QED BY <1>3
<1> HIDE DEF p, x
<1>6. n * p <= x
  <2>1. n * p \in Nat /\ c * p \in Nat
    BY <1>3, Products
  <2> QED BY <1>1, <1>2, <1>4, <1>5, <2>1
<1> QED BY <1>1, <1>2, <1>6 DEF p, x

LEMMA NeverOverflows ==
    ASSUME NEW bits \in Seq(Bit), Len(bits) <= MaxBits, NEW n \in Nat, n <= Columns(bits)
    PROVE  n * NumParityBits < Unreached
<1>1. n * NumParityBits <= Len(bits) + NumParityBits - 1 /\ Len(bits) \in Nat
  BY ColumnsBound
<1>2. n * NumParityBits \in Nat /\ NumParityBits \in Nat /\ MaxBits \in Nat
      /\ MaxBits + NumParityBits <= Unreached
  BY CodeFacts, Products, DecoderAssumption
<1>3. Unreached \in Nat
  BY DEF Unreached
<1> QED BY <1>1, <1>2, <1>3
-----------------------------------------------------------------------------
(* The decoder. *)

LEMMA BestExists ==
    ASSUME NEW bits \in Seq(Bit), NEW n \in Nat, NEW s, Reached(n, s)
    PROVE  \E u \in Words(n) : Best(bits, n, s, u)
<1> DEFINE T == {Gap(bits, n, u) : u \in {v \in Words(n) : Final(v) = s}}
<1>1. T \in SUBSET Nat
  <2>1. n * NumParityBits \in Nat
    BY CodeFacts, Products
  <2>2. \A u \in Words(n) : Gap(bits, n, u) \in Nat
    BY <2>1, GapType
  <2> QED BY <2>2
<1>2. T # {}
  BY DEF Reached
<1>3. PICK k \in T : \A m \in T : k <= m
  <2> HIDE DEF T
  <2> QED BY <1>1, <1>2, SmallestExists
<1>4. PICK u \in Words(n) : Final(u) = s /\ k = Gap(bits, n, u)
  BY <1>3
<1>5. \A v \in Words(n) : Final(v) = s => Gap(bits, n, u) <= Gap(bits, n, v)
  BY <1>3, <1>4
<1> QED BY <1>4, <1>5 DEF Best

LEMMA ClosestIs ==
    ASSUME NEW bits, NEW u
    PROVE  u \in Closest(bits) <=>
             /\ u \in Words(Columns(bits))
             /\ \A v \in Words(Columns(bits)) : Gap(bits, Columns(bits), u) <= Gap(bits, Columns(bits), v)
  BY DEF Closest, Gap, Words

\* min_element finds the first state of those with the least metric.
LEMMA BestStateIs ==
    ASSUME NEW metrics \in [States -> Nat]
    PROVE  BestState(metrics) \in States /\ \A t \in States : metrics[BestState(metrics)] <= metrics[t]
<1> DEFINE First(s) == \A t \in States : metrics[s] < metrics[t] \/ (metrics[s] = metrics[t] /\ s <= t)
<1>1. States \subseteq Nat /\ States # {}
  BY CodeFacts
<1>2. PICK k \in {metrics[s] : s \in States} : \A m \in {metrics[s] : s \in States} : k <= m
  <2> DEFINE T == {metrics[s] : s \in States}
  <2>1. T \in SUBSET Nat /\ T # {}
    BY <1>1
  <2> HIDE DEF T
  <2>2. \E k \in T : \A m \in T : k <= m
    BY <2>1, SmallestExists
  <2> QED BY <2>2 DEF T
<1>3. PICK s \in {t \in States : metrics[t] = k} : \A t \in {x \in States : metrics[x] = k} : s <= t
  <2> DEFINE T == {t \in States : metrics[t] = k}
  <2>1. T \in SUBSET Nat /\ T # {}
    BY <1>1, <1>2
  <2> HIDE DEF T
  <2>2. \E s \in T : \A m \in T : s <= m
    BY <2>1, SmallestExists
  <2> QED BY <2>2 DEF T
<1>4. First(s)
  <2> TAKE t \in States
  <2>1. k <= metrics[t] /\ metrics[s] = k /\ k \in Nat /\ metrics[t] \in Nat
    BY <1>2, <1>3
  <2>2. CASE metrics[t] = k
    BY <1>3, <2>1, <2>2
  <2>3. CASE metrics[t] # k
    BY <2>1, <2>3
  <2> QED BY <2>2, <2>3
<1>5. BestState(metrics) \in States /\ First(BestState(metrics))
  <2>1. BestState(metrics) = CHOOSE x \in States : First(x)
    BY DEF BestState
  <2>2. s \in States
    OBVIOUS
  <2> HIDE DEF First
  <2> QED BY <1>4, <2>1, <2>2
<1>6. \A t \in States : metrics[BestState(metrics)] <= metrics[t]
  BY <1>5
<1> QED BY <1>5, <1>6

\* Inputs that are best for a state of the least metric are closest of all.
LEMMA BestOfBest ==
    ASSUME NEW bits \in Seq(Bit), Len(bits) <= MaxBits, NEW metrics,
           MetricsOK(bits, Columns(bits), metrics), metrics \in [States -> Nat],
           NEW s, s = BestState(metrics)
    PROVE  /\ s \in States /\ Reached(Columns(bits), s)
           /\ \A u : Best(bits, Columns(bits), s, u) => u \in Closest(bits)
<1> DEFINE n == Columns(bits)
           limit == n * NumParityBits
<1>1. n \in Nat /\ limit \in Nat /\ limit < Unreached /\ Unreached \in Nat
  <2>1. n \in Nat
    BY ColumnsType
  <2>2. limit < Unreached
    BY <2>1, NeverOverflows
  <2> QED BY <2>1, <2>2, CodeFacts, Products DEF Unreached
<1> HIDE DEF n, limit
<1>2. s \in States /\ \A t \in States : metrics[s] <= metrics[t]
  BY BestStateIs
<1>3. MetricsOK(bits, n, metrics)
  BY DEF n
<1>4. ASSUME NEW v \in Words(n)
      PROVE  metrics[s] <= Gap(bits, n, v) /\ Gap(bits, n, v) \in 0 .. limit
  <2>1. Final(v) \in States
    BY <1>1, FinalType
  <2>2. metrics[Final(v)] <= Gap(bits, n, v)
    BY <1>3, <2>1 DEF MetricsOK, MetricOK
  <2>3. Gap(bits, n, v) \in 0 .. limit
    BY <1>1, GapType DEF limit
  <2>4. metrics[s] <= metrics[Final(v)] /\ metrics[s] \in Nat /\ metrics[Final(v)] \in Nat
    BY <1>2, <2>1
  <2> QED BY <1>1, <2>2, <2>3, <2>4
<1>5. [k \in 1 .. n |-> 0] \in Words(n)
  BY DEF Words, Bit
<1>6. metrics[s] # Unreached
  <2>1. metrics[s] \in Nat
    BY <1>2
  <2> QED BY <1>1, <1>4, <1>5, <2>1
<1>7. PICK w \in Words(n) : Final(w) = s /\ Gap(bits, n, w) = metrics[s]
  BY <1>2, <1>3, <1>6 DEF MetricsOK, MetricOK, Attained
<1>8. ASSUME NEW u, Best(bits, n, s, u) PROVE u \in Closest(bits)
  <2>1. u \in Words(n) /\ Gap(bits, n, u) <= metrics[s]
    BY <1>7, <1>8 DEF Best
  <2>2. ASSUME NEW v \in Words(n) PROVE Gap(bits, n, u) <= Gap(bits, n, v)
    <3>1. metrics[s] <= Gap(bits, n, v) /\ Gap(bits, n, v) \in Nat /\ Gap(bits, n, u) \in Nat
          /\ metrics[s] \in Nat
      BY <1>1, <1>2, <1>4, <2>1
    <3> QED BY <2>1, <3>1
  <2> QED BY <2>1, <2>2, ClosestIs DEF n
<1> QED BY <1>2, <1>7, <1>8 DEF Reached, n

\* The metrics and the trellis are what they should be, the traceback keeps
\* what is best within what is closest, and the result is closest.
Traced(k, s, suffix) ==
    /\ Reached(k, s)
    /\ \A u : Best(received, k, s, u) => u \o suffix \in Closest(received)

DecoderInv ==
    /\ DecoderTypeOK
    /\ MetricsOK(received, Len(trellis), path_metrics)
    /\ \A k \in 1 .. Len(trellis) : \A t \in States : SourceOK(received, k - 1, trellis[k][t], t)
    /\ block_pc = "columns" => word = <<>>
    /\ block_pc # "columns" => Len(trellis) = Columns(received)
    /\ block_pc = "traceback" =>
         /\ Len(word) <= Len(trellis)
         /\ Traced(Len(trellis) - Len(word), state, word)
    /\ block_pc = "done" => word \in Closest(received) /\ decoded = Unflushed(word)

LEMMA MetricsType ==
    ASSUME NEW bits \in Seq(Bit), Len(bits) <= MaxBits, NEW n \in Nat, n <= Columns(bits),
           NEW metrics, DOMAIN metrics = States, metrics = [s \in States |-> metrics[s]],
           MetricsOK(bits, n, metrics)
    PROVE  /\ metrics \in [States -> Nat]
           /\ metrics \in [States -> 0 .. Len(bits) + NumParityBits \cup {Unreached}]
<1> DEFINE p == NumParityBits  m == n * p
<1>1. m \in Nat /\ p \in Nat /\ m <= Len(bits) + p - 1 /\ Len(bits) \in Nat /\ Unreached \in Nat
  BY CodeFacts, Products, ColumnsBound DEF Unreached
<1>2. \A s \in States : metrics[s] \in 0 .. m \cup {Unreached}
  BY DEF MetricsOK, MetricOK
<1> HIDE DEF m, p
<1>3. 0 .. m \subseteq 0 .. Len(bits) + p /\ 0 .. m \subseteq Nat
  BY <1>1
<1>4. \A s \in States : metrics[s] \in Nat /\ metrics[s] \in 0 .. Len(bits) + p \cup {Unreached}
  BY <1>1, <1>2, <1>3
<1> QED BY <1>4 DEF p

LEMMA InitDecoder == DecoderInit => DecoderInv
<1> SUFFICES ASSUME DecoderInit PROVE DecoderInv
  OBVIOUS
<1> USE DEF DecoderInit
<1>1. 0 \in States /\ Unreached \in Nat /\ NumParityBits \in Nat
  BY CodeFacts DEF Unreached
<1>2. \A s \in States : MetricOK(received, 0, path_metrics[s], s)
  <2> TAKE s \in States
  <2>1. path_metrics[s] = IF s = 0 THEN 0 ELSE Unreached
    OBVIOUS
  <2>2. \A u \in Words(0) : u = <<>> /\ Final(u) = 0
    <3>1. \A u \in Words(0) : u = <<>>
      BY DEF Words
    <3> QED BY <3>1, NoInputs
  <2>3. 0 * NumParityBits = 0
    BY <1>1
  <2>4. \A u \in Words(0) : Gap(received, 0, u) = 0
    <3>1. \A u : Gap(received, 0, u) \in 0 .. 0 * NumParityBits
      BY GapType
    <3> QED BY <2>3, <3>1
  <2>5. s = 0 => Attained(received, 0, 0, 0)
    BY <2>2, <2>4, NoInputs DEF Attained
  <2>6. CASE s = 0
    <3>1. path_metrics[s] = 0
      BY <2>1, <2>6
    <3> QED BY <2>3, <2>4, <2>5, <2>6, <3>1 DEF MetricOK
  <2>7. CASE s # 0
    <3>1. path_metrics[s] = Unreached
      BY <2>1, <2>7
    <3>2. \A u \in Words(0) : Final(u) # s
      BY <2>2, <2>7
    <3> QED BY <3>1, <3>2 DEF MetricOK
  <2> QED BY <2>6, <2>7
<1>3. Len(trellis) = 0
  OBVIOUS
<1>4. Columns(received) \in Nat
  BY ColumnsType
<1>5. DecoderTypeOK
  <2>1. path_metrics \in [States -> 0 .. Len(received) + NumParityBits \cup {Unreached}]
    BY <1>1
  <2> QED BY <1>1, <1>3, <1>4, <2>1 DEF DecoderTypeOK
<1>6. MetricsOK(received, Len(trellis), path_metrics)
  BY <1>2, <1>3 DEF MetricsOK
<1> QED BY <1>3, <1>5, <1>6 DEF DecoderInv

LEMMA UnflushedType == ASSUME NEW w \in Seq(Bit) PROVE Unflushed(w) \in Seq(Bit)
<1>1. FlushBits \in Nat /\ Len(w) \in Nat
  BY CodeFacts
<1>2. CASE Len(w) < FlushBits
  BY <1>2 DEF Unflushed
<1>3. CASE ~(Len(w) < FlushBits)
  <2> DEFINE n == Len(w) - FlushBits
  <2>1. n \in Nat /\ n <= Len(w)
    BY <1>1, <1>3
  <2>2. \A k \in 1 .. n : w[k] \in Bit
    <3> HIDE DEF n
    <3> QED BY <1>1, <2>1, ElementOfSeq
  <2>3. SubSeq(w, 1, n) \in Seq(Bit)
    <3> HIDE DEF n
    <3> QED BY <2>1, <2>2, SubSeqProperties
  <2> QED BY <1>3, <2>3 DEF Unflushed
<1> QED BY <1>2, <1>3

LEMMA StepUpdate == DecoderInv /\ UpdatePathMetrics => DecoderInv'
<1> SUFFICES ASSUME DecoderInv, UpdatePathMetrics PROVE DecoderInv'
  OBVIOUS
<1> DEFINE n == Len(trellis)
           col == Column(received, n + 1)
           best == [s \in States |-> PathMetric(col, path_metrics, s)]
           metrics == [s \in States |-> best[s][1]]
           sources == [s \in States |-> best[s][2]]
<1>1. /\ block_pc = "columns" /\ n < Columns(received)
      /\ path_metrics' = metrics /\ trellis' = Append(trellis, sources)
      /\ UNCHANGED <<block_pc, received, state, word, decoded>>
  BY DEF UpdatePathMetrics
<1>2. /\ received \in Seq(Bit) /\ Len(received) <= MaxBits
      /\ trellis \in Seq([States -> States]) /\ n \in Nat
      /\ MetricsOK(received, n, path_metrics) /\ word = <<>>
      /\ state \in States /\ decoded \in Seq(Bit)
  BY <1>1 DEF DecoderInv, DecoderTypeOK
<1>3. Columns(received) \in Nat /\ n + 1 <= Columns(received)
  <2>1. Columns(received) \in Nat
    BY <1>2, ColumnsType
  <2> HIDE DEF n
  <2> QED BY <1>1, <1>2, <2>1
<1>4. (n + 1) * NumParityBits < Unreached
  <2> HIDE DEF n
  <2> QED BY <1>2, <1>3, NeverOverflows
<1> HIDE DEF n
<1>5. ASSUME NEW t \in States
      PROVE  /\ MetricOK(received, n + 1, best[t][1], t)
             /\ best[t][2] \in States /\ SourceOK(received, n, best[t][2], t)
  <2>1. best[t] = PathMetric(col, path_metrics, t)
    OBVIOUS
  <2> HIDE DEF best
  <2> QED BY <1>2, <1>4, <2>1, PathMetricStep
<1> HIDE DEF best
<1>6. MetricsOK(received, n + 1, metrics) /\ sources \in [States -> States]
  BY <1>5 DEF MetricsOK
<1>7. /\ metrics \in [States -> 0 .. Len(received) + NumParityBits \cup {Unreached}]
  <2>1. DOMAIN metrics = States /\ metrics = [s \in States |-> metrics[s]]
    OBVIOUS
  <2>2. n + 1 \in Nat
    BY <1>2
  <2> HIDE DEF metrics
  <2> QED BY <1>2, <1>3, <1>6, <2>1, <2>2, MetricsType
<1>8. \A t \in States : sources[t] = best[t][2]
  OBVIOUS
<1> HIDE DEF metrics, sources
<1>9. /\ trellis' \in Seq([States -> States]) /\ Len(trellis') = n + 1
      /\ \A k \in 1 .. n : trellis'[k] = trellis[k]
      /\ trellis'[n + 1] = sources
  BY <1>1, <1>2, <1>6, AppendProperties DEF n
<1>10. DecoderTypeOK'
  BY <1>1, <1>2, <1>3, <1>7, <1>9 DEF DecoderTypeOK
<1>11. MetricsOK(received, Len(trellis), path_metrics)'
  BY <1>1, <1>6, <1>9
<1>12. (\A k \in 1 .. Len(trellis) : \A t \in States : SourceOK(received, k - 1, trellis[k][t], t))'
  <2>1. ASSUME NEW k \in 1 .. n + 1, NEW t \in States
        PROVE  SourceOK(received, k - 1, trellis'[k][t], t)
    <3>1. CASE k \in 1 .. n
      <4>1. SourceOK(received, k - 1, trellis[k][t], t)
        BY <3>1 DEF DecoderInv, n
      <4> QED BY <1>9, <3>1, <4>1
    <3>2. CASE k = n + 1
      <4>1. k - 1 = n
        BY <1>2, <3>2
      <4>2. trellis'[k][t] = best[t][2]
        BY <1>8, <1>9, <3>2
      <4>3. SourceOK(received, n, best[t][2], t)
        BY <1>5
      <4> QED BY <4>1, <4>2, <4>3
    <3>3. k \in 1 .. n \/ k = n + 1
      BY <1>2
    <3> QED BY <3>1, <3>2, <3>3
  <2> QED BY <1>1, <1>9, <2>1
<1> QED BY <1>1, <1>2, <1>10, <1>11, <1>12 DEF DecoderInv

LEMMA StepStartTraceback == DecoderInv /\ StartTraceback => DecoderInv'
<1> SUFFICES ASSUME DecoderInv, StartTraceback PROVE DecoderInv'
  OBVIOUS
<1> DEFINE n == Len(trellis)
<1>1. /\ block_pc = "columns" /\ n = Columns(received)
      /\ state' = BestState(path_metrics) /\ block_pc' = "traceback"
      /\ UNCHANGED <<received, path_metrics, trellis, word, decoded>>
  BY DEF StartTraceback
<1>2. /\ received \in Seq(Bit) /\ Len(received) <= MaxBits /\ n \in Nat
      /\ MetricsOK(received, Columns(received), path_metrics) /\ word = <<>>
      /\ path_metrics \in [States -> 0 .. Len(received) + NumParityBits \cup {Unreached}]
  BY <1>1 DEF DecoderInv, DecoderTypeOK
<1>3. path_metrics \in [States -> Nat]
  <2>1. 0 .. Len(received) + NumParityBits \cup {Unreached} \subseteq Nat
    BY <1>2, CodeFacts DEF Unreached
  <2> QED BY <1>2, <2>1
<1>4. /\ state' \in States /\ Reached(n, state')
      /\ \A u : Best(received, n, state', u) => u \in Closest(received)
  BY <1>1, <1>2, <1>3, BestOfBest
<1> HIDE DEF n
<1>5. Len(word) = 0 /\ n - Len(word) = n
  BY <1>2
<1>6. ASSUME NEW u, Best(received, n, state', u) PROVE u \o word \in Closest(received)
  <2>1. u \in Seq(Bit)
    BY <1>2, <1>6, SequenceOf DEF Best, Words
  <2>2. u \o word = u
    BY <1>2, <2>1, ConcatEmptySeq
  <2> QED BY <1>4, <1>6, <2>2
<1>7. Traced(Len(trellis) - Len(word), state, word)'
  <2>1. Reached(n - Len(word), state') /\ \A u : Best(received, n - Len(word), state', u) => u \o word \in Closest(received)
    BY <1>4, <1>5, <1>6
  <2> QED BY <1>1, <2>1 DEF Traced, n
<1>8. DecoderTypeOK'
  BY <1>1, <1>4 DEF DecoderInv, DecoderTypeOK
<1>9. (Len(word) <= Len(trellis))'
  BY <1>1, <1>2, <1>5 DEF n
<1> QED BY <1>1, <1>7, <1>8, <1>9 DEF DecoderInv, n

LEMMA StepTraceback == DecoderInv /\ Traceback => DecoderInv'
<1> SUFFICES ASSUME DecoderInv, Traceback PROVE DecoderInv'
  OBVIOUS
<1> DEFINE n == Len(trellis)
           k == n - Len(word)
           b == state \div HalfStates
<1>1. /\ block_pc = "traceback" /\ k > 0
      /\ word' = <<b>> \o word /\ state' = trellis[k][state]
      /\ UNCHANGED <<block_pc, received, path_metrics, trellis, decoded>>
  BY DEF Traceback
<1>2. /\ received \in Seq(Bit) /\ n \in Nat /\ state \in States
      /\ word \in Seq(Bit) /\ Len(word) \in Nat /\ Len(word) <= n
      /\ trellis \in Seq([States -> States]) /\ Traced(k, state, word)
  BY <1>1 DEF DecoderInv, DecoderTypeOK
<1> HIDE DEF n
<1>3. k \in 1 .. n /\ k - 1 \in Nat /\ (k - 1) + 1 = k
  BY <1>1, <1>2
<1>4. b \in Bit
  BY <1>2, StateIs
<1>5. state' \in States /\ SourceOK(received, k - 1, state', state)
  <2>1. SourceOK(received, k - 1, trellis[k][state], state)
    BY <1>2, <1>3 DEF DecoderInv, n
  <2>2. trellis[k] \in [States -> States]
    BY <1>2, <1>3 DEF n
  <2> HIDE DEF k
  <2> QED BY <1>1, <1>2, <2>1, <2>2
<1> HIDE DEF b
<1>6. <<b>> \in Seq(Bit) /\ Len(<<b>>) = 1
  BY <1>4
<1>7. word' \in Seq(Bit) /\ Len(word') = Len(word) + 1
  BY <1>1, <1>2, <1>6
<1>8. n - Len(word') = k - 1 /\ Len(word') <= n
  BY <1>2, <1>3, <1>7
<1> HIDE DEF k
<1>9. /\ Reached(k - 1, state')
      /\ \A u : Best(received, k - 1, state', u) => Best(received, k, state, Append(u, b))
  BY <1>2, <1>3, <1>5 DEF Traced, SourceOK, b
<1>10. ASSUME NEW u, Best(received, k - 1, state', u) PROVE u \o word' \in Closest(received)
  <2>1. Append(u, b) \o word \in Closest(received)
    BY <1>2, <1>9, <1>10 DEF Traced
  <2>2. u \in Seq(Bit)
    BY <1>3, <1>10, SequenceOf DEF Best, Words
  <2>3. Append(u, b) = u \o <<b>>
    BY <1>4, <2>2, AppendIsConcat
  <2>4. (u \o <<b>>) \o word = u \o (<<b>> \o word)
    BY <1>2, <1>6, <2>2, ConcatAssociative
  <2> QED BY <1>1, <2>1, <2>3, <2>4
<1>11. Traced(Len(trellis) - Len(word), state, word)'
  <2>1. Reached(n - Len(word'), state') /\ \A u : Best(received, n - Len(word'), state', u) => u \o word' \in Closest(received)
    BY <1>8, <1>9, <1>10
  <2> QED BY <1>1, <2>1 DEF Traced, n
<1>12. DecoderTypeOK'
  BY <1>1, <1>5, <1>7 DEF DecoderInv, DecoderTypeOK
<1> QED BY <1>1, <1>8, <1>11, <1>12 DEF DecoderInv, n

LEMMA StepReturnDecoded == DecoderInv /\ ReturnDecoded => DecoderInv'
<1> SUFFICES ASSUME DecoderInv, ReturnDecoded PROVE DecoderInv'
  OBVIOUS
<1>1. /\ block_pc = "traceback" /\ Len(word) = Len(trellis)
      /\ decoded' = Unflushed(word) /\ block_pc' = "done"
      /\ UNCHANGED <<received, path_metrics, trellis, state, word>>
  BY DEF ReturnDecoded
<1>2. received \in Seq(Bit) /\ word \in Seq(Bit) /\ Traced(0, state, word)
  <2>1. Len(trellis) - Len(word) = 0
    BY <1>1 DEF DecoderInv, DecoderTypeOK
  <2> QED BY <1>1, <2>1 DEF DecoderInv, DecoderTypeOK
<1>3. word \in Closest(received)
  <2>1. PICK u \in Words(0) : Best(received, 0, state, u)
    BY <1>2, BestExists DEF Traced
  <2>2. u = <<>>
    BY DEF Words
  <2>3. u \o word \in Closest(received)
    BY <1>2, <2>1 DEF Traced
  <2>4. <<>> \o word = word
    BY <1>2, ConcatEmptySeq
  <2> QED BY <2>2, <2>3, <2>4
<1>4. decoded' \in Seq(Bit)
  BY <1>1, <1>2, UnflushedType
<1>5. DecoderTypeOK'
  BY <1>1, <1>4 DEF DecoderInv, DecoderTypeOK
<1> QED BY <1>1, <1>3, <1>5 DEF DecoderInv

LEMMA StepDecoder == DecoderInv /\ [DecoderNext]_decoderVars => DecoderInv'
<1> SUFFICES ASSUME DecoderInv, [DecoderNext]_decoderVars PROVE DecoderInv'
  OBVIOUS
<1>1. CASE UNCHANGED decoderVars
  BY <1>1 DEF DecoderInv, DecoderTypeOK, Traced, decoderVars
<1> QED
  BY <1>1, StepUpdate, StepStartTraceback, StepTraceback, StepReturnDecoded
  DEF DecoderNext, DecoderStep, Returned
-----------------------------------------------------------------------------
(* A flipped bit is corrected. *)

LEMMA Triangle ==
    ASSUME NEW n \in Nat, NEW x \in Words(n), NEW y \in Words(n), NEW z \in Words(n)
    PROVE  Distance(x, z) <= Distance(x, y) + Distance(y, z)
<1> DEFINE A == {k \in 1 .. n : x[k] # y[k]}
           B == {k \in 1 .. n : y[k] # z[k]}
           C == {k \in 1 .. n : x[k] # z[k]}
<1>1. Len(x) = n /\ Len(y) = n
  BY SequenceOf DEF Words
<1>2. Distance(x, y) = Cardinality(A) /\ Distance(y, z) = Cardinality(B) /\ Distance(x, z) = Cardinality(C)
  BY <1>1 DEF Distance
<1>3. C \in SUBSET (A \cup B) /\ A \cap B \in SUBSET (1 .. n)
  OBVIOUS
<1>4. IsFiniteSet(A) /\ IsFiniteSet(B) /\ Cardinality(A) \in Nat /\ Cardinality(B) \in Nat
  BY BitsFinite
<1> HIDE DEF A, B, C
<1>5. IsFiniteSet(A \cup B) /\ Cardinality(A \cup B) = Cardinality(A) + Cardinality(B) - Cardinality(A \cap B)
  BY <1>4, FS_Union
<1>6. Cardinality(A \cap B) \in Nat
  BY <1>3, BitsFinite
<1>7. Cardinality(C) <= Cardinality(A \cup B) /\ IsFiniteSet(C)
  BY <1>3, <1>5, FS_Subset
<1>8. Cardinality(C) \in Nat
  BY <1>7, FS_CardinalityType
<1> QED BY <1>2, <1>4, <1>5, <1>6, <1>7, <1>8

LEMMA FlipDistance ==
    ASSUME NEW n \in Nat, NEW x \in Words(n), NEW y \in BitFlip(x)
    PROVE  y \in Words(n) /\ Distance(x, y) <= 1 /\ Distance(y, x) <= 1
<1>1. Len(x) = n
  BY SequenceOf DEF Words
<1>2. PICK k \in 1 .. n : y = [x EXCEPT ![k] = 1 - @]
  BY <1>1 DEF BitFlip
<1>3. y \in Words(n) /\ \A j \in 1 .. n : j # k => y[j] = x[j]
  <2>1. x[k] \in Bit /\ 1 - x[k] \in Bit
    BY DEF Words, Bit
  <2> QED BY <1>2, <2>1 DEF Words
<1>4. Len(y) = n
  BY <1>3, SequenceOf DEF Words
<1> DEFINE A == {j \in 1 .. n : x[j] # y[j]}
           B == {j \in 1 .. n : y[j] # x[j]}
<1>5. A \in SUBSET {k} /\ B \in SUBSET {k}
  BY <1>3
<1>6. Distance(x, y) = Cardinality(A) /\ Distance(y, x) = Cardinality(B)
  BY <1>1, <1>4 DEF Distance
<1> HIDE DEF A, B
<1>7. IsFiniteSet({k}) /\ Cardinality({k}) = 1
  BY FS_Singleton
<1>8. Cardinality(A) <= 1
  <2>1. Cardinality(A) <= Cardinality({k})
    BY <1>5, <1>7, FS_Subset
  <2> QED BY <1>7, <2>1
<1>9. Cardinality(B) <= 1
  <2>1. Cardinality(B) <= Cardinality({k})
    BY <1>5, <1>7, FS_Subset
  <2> QED BY <1>7, <2>1
<1> QED BY <1>3, <1>6, <1>8, <1>9

LEMMA EncodeType ==
    ASSUME NEW n \in Nat, NEW block \in Words(n)
    PROVE  /\ block \o Flushing \in Words(n + FlushBits)
           /\ Encode(block) \in Words((n + FlushBits) * NumParityBits)
           /\ n + FlushBits \in Nat
<1>1. FlushBits \in Nat /\ Flushing \in Words(FlushBits) /\ n + FlushBits \in Nat
  BY CodeFacts
<1>2. block \o Flushing \in Words(n + FlushBits)
  BY <1>1, ConcatIs DEF Words
<1>3. Walk(block \o Flushing) \in Words((n + FlushBits) * NumParityBits)
  BY <1>1, <1>2, WalkType
<1> QED BY <1>1, <1>2, <1>3 DEF Encode

\* Whole columns are read as they are.
LEMMA WholeColumns ==
    ASSUME NEW c \in Nat, NEW y \in Words(c * NumParityBits)
    PROVE  Columns(y) = c /\ ReadBits(y, c) = y
<1> DEFINE p == NumParityBits
           m == c * p
<1>1. p \in Nat \ {0} /\ m \in Nat
  BY CodeFacts, Products
<1>2. y \in Seq(Bit) /\ Len(y) = m
  <2>1. y \in Words(m)
    OBVIOUS
  <2> HIDE DEF m
  <2>2. y \in [1 .. m -> Bit]
    BY <2>1 DEF Words
  <2> QED BY <1>1, <2>2, SequenceOf
<1>3. Columns(y) = c
  <2> DEFINE x == m + p - 1
             q == x \div p
             r == x % p
  <2>1. Columns(y) = q
    BY <1>2 DEF Columns
  <2>2. x \in Nat
    BY <1>1
  <2>3. q \in Nat /\ r \in 0 .. (p - 1) /\ x = p * q + r
    <3> HIDE DEF x, p
    <3> QED BY <1>1, <2>2, Division
  <2> HIDE DEF q, r, p
  <2>4. q = c
    <3>1. ASSUME q < c PROVE FALSE
      <4>1. c - (q + 1) \in Nat /\ c = (q + 1) + (c - (q + 1))
        BY <2>3, <3>1
      <4>2. (c - (q + 1)) * p \in Nat /\ q * p \in Nat /\ (q + 1) * p = q * p + p
        BY <1>1, <2>3, <4>1, Products
      <4>3. c * p = (q + 1) * p + (c - (q + 1)) * p
        BY <1>1, <2>3, <4>1
      <4>4. p * q = q * p
        BY <1>1, <2>3
      <4> QED BY <1>1, <2>3, <4>2, <4>3, <4>4
    <3>2. ASSUME q > c PROVE FALSE
      <4>1. q - (c + 1) \in Nat /\ q = (c + 1) + (q - (c + 1))
        BY <2>3, <3>2
      <4>2. (q - (c + 1)) * p \in Nat /\ c * p \in Nat /\ (c + 1) * p = c * p + p
        BY <1>1, <2>3, <4>1, Products
      <4>3. q * p = (c + 1) * p + (q - (c + 1)) * p
        BY <1>1, <2>3, <4>1
      <4>4. p * q = q * p
        BY <1>1, <2>3
      <4> QED BY <1>1, <2>3, <4>2, <4>3, <4>4
    <3> QED BY <2>3, <3>1, <3>2
  <2> QED BY <2>1, <2>4
<1> HIDE DEF p
<1> DEFINE S == {n \in Nat : n <= c =>
                   /\ n * p <= m
                   /\ \A j \in 1 .. n * p : ReadBits(y, n)[j] = y[j]}
<1>4. Nat \subseteq S
  <2>1. 0 \in S
    <3>1. 0 * p = 0
      BY <1>1
    <3> QED BY <1>1, <3>1
  <2>2. ASSUME NEW n \in Nat, n \in S PROVE n + 1 \in S
    <3> SUFFICES ASSUME n + 1 <= c
                 PROVE  /\ (n + 1) * p <= m
                        /\ \A j \in 1 .. (n + 1) * p : ReadBits(y, n + 1)[j] = y[j]
      OBVIOUS
    <3>1. \A j \in 1 .. n * p : ReadBits(y, n)[j] = y[j]
      BY <2>2
    <3>2. n * p \in Nat /\ (n + 1) * p = n * p + p
      BY <1>1, Products
    <3>3. (n + 1) * p <= m
      <4>1. c - (n + 1) \in Nat /\ c = (n + 1) + (c - (n + 1))
        OBVIOUS
      <4>2. (c - (n + 1)) * p \in Nat
        BY <1>1, <4>1, Products
      <4>3. c * p = (n + 1) * p + (c - (n + 1)) * p
        BY <1>1, <4>1
      <4> QED BY <1>1, <3>2, <4>2, <4>3
    <3> DEFINE f == ReadBits(y, n)
               g == Column(y, n + 1)
               q == n * p
    <3>4. f \in Words(q) /\ g \in Words(p) /\ ReadBits(y, n + 1) = f \o g
      BY <1>2, ReadBitsType, ColumnType, ReadBitsStep DEF p
    <3>5. \A j \in 1 .. p : g[j] = IF q + j <= m THEN y[q + j] ELSE 0
      <4>1. (n + 1) - 1 = n
        OBVIOUS
      <4> QED BY <1>2, <4>1 DEF Column, p
    <3>8. q \in Nat /\ (n + 1) * p = q + p /\ q + p <= m
      BY <3>2, <3>3
    <3>9. \A j \in 1 .. q : f[j] = y[j]
      BY <3>1
    <3> HIDE DEF f, g, m, q
    <3>6. \A j \in 1 .. q + p : (f \o g)[j] = IF j <= q THEN f[j] ELSE g[j - q]
      <4>1. f \in [1 .. q -> Bit] /\ g \in [1 .. p -> Bit]
        BY <3>4 DEF Words
      <4> QED BY <1>1, <3>8, <4>1, ConcatIs
    <3>7. ASSUME NEW j \in 1 .. q + p PROVE (f \o g)[j] = y[j]
      <4>1. CASE j <= q
        <5>1. j \in 1 .. q
          BY <3>8, <4>1
        <5>2. (f \o g)[j] = IF j <= q THEN f[j] ELSE g[j - q]
          BY <3>6
        <5>3. f[j] = y[j]
          BY <3>9, <5>1
        <5> QED BY <4>1, <5>2, <5>3
      <4>2. CASE ~(j <= q)
        <5> DEFINE i == j - q
        <5>1. i \in 1 .. p /\ q + i = j /\ j <= m
          BY <1>1, <3>8, <4>2
        <5>2. (f \o g)[j] = g[i]
          BY <3>6, <4>2
        <5> HIDE DEF i
        <5> QED BY <3>5, <5>1, <5>2
      <4> QED BY <4>1, <4>2
    <3> QED BY <3>3, <3>4, <3>7, <3>8
  <2> HIDE DEF S
  <2> QED BY <2>1, <2>2, SetInduction
<1>5. \A j \in 1 .. m : ReadBits(y, c)[j] = y[j]
  BY <1>4
<1>6. ReadBits(y, c) \in Words(m)
  BY <1>2, ReadBitsType DEF p
<1> HIDE DEF m
<1>7. ReadBits(y, c) = y
  <2>1. y \in Words(m)
    BY DEF m, p
  <2> DEFINE x == ReadBits(y, c)
  <2> HIDE DEF x
  <2>2. x \in [1 .. m -> Bit] /\ y \in [1 .. m -> Bit] /\ \A j \in 1 .. m : x[j] = y[j]
    BY <1>5, <1>6, <2>1 DEF Words, x
  <2>3. x = [j \in 1 .. m |-> x[j]] /\ y = [j \in 1 .. m |-> y[j]]
    BY <2>2
  <2>4. [j \in 1 .. m |-> x[j]] = [j \in 1 .. m |-> y[j]]
    BY <2>2, Zenon
  <2> QED BY <2>3, <2>4 DEF x
<1> QED BY <1>3, <1>7

\* What Decode may return for a block with one bit flipped.
LEMMA FlipCorrected ==
    ASSUME NEW n \in Nat, KeepsApart(n), NEW block \in Words(n),
           NEW y \in BitFlip(Encode(block)), NEW w \in Closest(y)
    PROVE  w \in Words(n + FlushBits) /\ Unflushed(w) = block
<1> DEFINE c == n + FlushBits
           m == c * NumParityBits
           e == Encode(block)
           v == block \o Flushing
<1>1. c \in Nat /\ m \in Nat /\ v \in Words(c) /\ e \in Words(m) /\ e = Walk(v)
  BY EncodeType, CodeFacts, Products DEF Encode
<1>2. y \in Words(m) /\ Distance(e, y) <= 1 /\ Distance(y, e) <= 1
  <2> HIDE DEF m
  <2> QED BY <1>1, FlipDistance
<1>3. Columns(y) = c /\ ReadBits(y, c) = y
  <2> HIDE DEF c
  <2> QED BY <1>1, <1>2, WholeColumns
<1> HIDE DEF c, m, e, v
<1>4. w \in Words(c) /\ Gap(y, c, w) <= Gap(y, c, v)
  BY <1>1, <1>3, ClosestIs
<1>5. Distance(y, Walk(w)) <= Distance(y, e)
  BY <1>1, <1>3, <1>4 DEF Gap
<1>6. Walk(w) \in Words(m)
  BY <1>1, <1>4, WalkType DEF m
<1>7. Distance(e, Walk(w)) <= 2 /\ Distance(e, Walk(w)) \in Nat
  <2>1. Distance(e, Walk(w)) <= Distance(e, y) + Distance(y, Walk(w))
    BY <1>1, <1>2, <1>6, Triangle
  <2>2. /\ Distance(e, y) \in 0 .. m /\ Distance(y, e) \in 0 .. m
        /\ Distance(y, Walk(w)) \in 0 .. m /\ Distance(e, Walk(w)) \in 0 .. m
    BY <1>1, <1>2, DistanceType
  <2> QED BY <1>1, <1>2, <1>5, <2>1, <2>2
<1>8. Unflushed(w) # block => Distance(e, Walk(w)) >= 3
  <2> DEFINE blocks == [1 .. n -> Bit]
             code == [x \in blocks |-> Encode(x)]
  <2>1. w \in [1 .. n + FlushBits -> Bit] /\ block \in blocks
    BY <1>4 DEF c, Words
  <2>2. Unflushed(w) # block => Distance(code[block], Walk(w)) >= 3
    <3>1. \A inputs \in [1 .. n + FlushBits -> Bit] : \A x \in blocks :
            Unflushed(inputs) # x => Distance(code[x], Walk(inputs)) >= 3
      BY DEF KeepsApart
    <3> HIDE DEF code, blocks
    <3> QED BY <2>1, <3>1
  <2>3. code[block] = e
    <3> HIDE DEF blocks
    <3> QED BY <2>1 DEF e
  <2> QED BY <2>2, <2>3
<1>9. Unflushed(w) = block
  BY <1>7, <1>8
<1> QED BY <1>4, <1>9 DEF c
-----------------------------------------------------------------------------
(* The helpers side by side, and what the decoder promises. *)

LEMMA Parts == [ToolNext]_toolVars =>
                 /\ [Next]_vars /\ [KeyNext]_keyVars /\ [DecoderNext]_decoderVars
                 /\ sent' = sent /\ received' = received
<1> SUFFICES ASSUME [ToolNext]_toolVars
             PROVE  /\ [Next]_vars /\ [KeyNext]_keyVars /\ [DecoderNext]_decoderVars
                    /\ sent' = sent /\ received' = received
  OBVIOUS
<1>1. [DecoderNext]_decoderVars => received' = received
  BY DEF DecoderNext, DecoderStep, UpdatePathMetrics, StartTraceback, Traceback, ReturnDecoded,
         Returned, decoderVars
<1>2. CASE RunBlock
  BY <1>1, <1>2 DEF RunBlock, BlockNext
<1>3. CASE RunKey
  BY <1>1, <1>3 DEF RunKey, blockVars
<1>4. CASE RunPair
  BY <1>1, <1>4 DEF RunPair, blockVars
<1>5. CASE UNCHANGED toolVars
  BY <1>1, <1>5 DEF toolVars, blockVars
<1> QED BY <1>2, <1>3, <1>4, <1>5 DEF ToolNext

\* The block that Decode is to give back is where it was when it was called.
SentInv == sent # <<>> => sent \in Words(BlockBits) /\ received \in BitFlip(Encode(sent))

BlockInv == DecoderInv /\ SentInv

THEOREM BlockInvariance == ToolSpec => []BlockInv
<1>1. ToolInit => BlockInv
  BY InitDecoder DEF ToolInit, BlockInit, BlockInv, SentInv, Words
<1>2. BlockInv /\ [ToolNext]_toolVars => BlockInv'
  BY Parts, StepDecoder DEF BlockInv, SentInv
<1> QED BY <1>1, <1>2, PTL DEF ToolSpec

LEMMA LeastOf ==
    ASSUME NEW S \in SUBSET Nat, NEW m \in S, \A k \in S : m <= k
    PROVE  Min(S) = m
<1>1. Min(S) \in S /\ \A k \in S : Min(S) <= k
  BY DEF Min
<1>2. Min(S) <= m /\ m <= Min(S) /\ m \in Nat /\ Min(S) \in Nat
  BY <1>1
<1> HIDE DEF Min
<1> QED BY <1>2

LEMMA LeastDistances == DecoderInv => MetricsAreDistances
<1> SUFFICES ASSUME DecoderInv PROVE MetricsAreDistances
  OBVIOUS
<1> DEFINE n == Len(trellis)
           into(s) == {u \in [1 .. n -> Bit] : StatesOf(u)[n] = s}
           gaps(s) == {Distance(ReadBits(received, n), Walk(u)) : u \in into(s)}
<1>1. /\ received \in Seq(Bit) /\ Len(received) <= MaxBits /\ n \in Nat /\ n <= Columns(received)
      /\ MetricsOK(received, n, path_metrics)
  BY DEF DecoderInv, DecoderTypeOK
<1>2. n * NumParityBits < Unreached /\ n * NumParityBits \in Nat
  <2> HIDE DEF n
  <2> QED BY <1>1, NeverOverflows, Products, CodeFacts
<1>3. ASSUME NEW s \in States
      PROVE  path_metrics[s] = IF into(s) = {} THEN Unreached ELSE Min(gaps(s))
  <2> DEFINE m == path_metrics[s]
             reaching == {u \in Words(n) : Final(u) = s}
             found == {Gap(received, n, u) : u \in reaching}
  <2>1. into(s) = reaching
    <3>1. \A u \in Words(n) : Final(u) = StatesOf(u)[n]
      <4> HIDE DEF n
      <4> QED BY <1>1, FinalType
    <3> QED BY <3>1 DEF Words
  <2> HIDE DEF into
  <2>2. gaps(s) = found
    BY <2>1 DEF Gap
  <2> HIDE DEF gaps, n
  <2>3. MetricOK(received, n, m, s)
    BY <1>1 DEF MetricsOK
  <2>4. \A u : Gap(received, n, u) \in 0 .. n * NumParityBits
    BY <1>1, GapType
  <2>5. CASE reaching = {}
    <3>1. m = Unreached
      BY <2>3, <2>5 DEF MetricOK, Attained
    <3> QED BY <2>1, <2>5, <3>1
  <2>6. CASE reaching # {}
    <3>1. PICK u \in reaching : TRUE
      BY <2>6
    <3>2. m <= Gap(received, n, u) /\ m \in 0 .. n * NumParityBits \cup {Unreached}
      BY <2>3, <3>1 DEF MetricOK
    <3>3. m # Unreached
      BY <1>2, <2>4, <3>2 DEF Unreached
    <3>4. m \in found
      BY <2>3, <3>3 DEF MetricOK, Attained
    <3>5. found \subseteq Nat /\ \A k \in found : m <= k
      <4>1. \A v \in reaching : m <= Gap(received, n, v)
        BY <2>3 DEF MetricOK
      <4> QED BY <1>2, <2>4, <4>1
    <3> HIDE DEF found, reaching, m
    <3>6. Min(found) = m
      BY <3>4, <3>5, LeastOf
    <3> QED BY <2>1, <2>2, <2>6, <3>6 DEF m
  <2> QED BY <2>5, <2>6
<1> QED BY <1>3 DEF MetricsAreDistances

\* Decode answers in one step, and with inputs whose code word is as close to
\* the received bits as that of any other inputs: the safety half of
\* ImplementsMaxLikelihood, for every code and every string an int can count.
THEOREM DecodesClosestHolds == ToolSpec => DecodesClosest
<1>1. ToolInit => Abstract!Init
  BY DEF ToolInit, BlockInit, DecoderInit, Abstract!Init, Compared
<1>2. DecoderInv /\ DecoderInv' /\ [ToolNext]_toolVars => [Abstract!Answer]_(Abstract!vars)
  <2> SUFFICES ASSUME DecoderInv, DecoderInv', [ToolNext]_toolVars
               PROVE  [Abstract!Answer]_(Abstract!vars)
    OBVIOUS
  <2>1. [DecoderNext]_decoderVars /\ received' = received
    BY Parts
  <2> USE DEF Compared, Abstract!Answer, Abstract!vars
  <2>2. CASE ReturnDecoded
    <3>1. block_pc = "traceback" /\ block_pc' = "done"
      BY <2>2 DEF ReturnDecoded
    <3>2. word' \in Closest(received)
      BY <2>1, <3>1 DEF DecoderInv
    <3>3. Columns(received') = Columns(received)
      BY <2>1
    <3> HIDE DEF Abstract!Answer, Abstract!vars
    <3>4. CASE Columns(received) <= RefColumns
      BY <2>1, <3>1, <3>2, <3>3, <3>4 DEF Abstract!Answer
    <3>5. CASE ~(Columns(received) <= RefColumns)
      BY <2>1, <3>1, <3>3, <3>5 DEF Abstract!vars
    <3> QED BY <3>4, <3>5
  <2>3. CASE UpdatePathMetrics \/ StartTraceback \/ Traceback
    <3>1. block_pc # "done" /\ block_pc' # "done"
      BY <2>3 DEF UpdatePathMetrics, StartTraceback, Traceback
    <3> QED BY <2>1, <3>1
  <2>4. CASE UNCHANGED decoderVars
    BY <2>4 DEF decoderVars
  <2> QED BY <2>1, <2>2, <2>3, <2>4 DEF DecoderNext, DecoderStep, Returned
<1>3. BlockInv => DecoderInv
  BY DEF BlockInv
<1> QED BY <1>1, <1>2, <1>3, BlockInvariance, PTL DEF ToolSpec, DecodesClosest, Abstract!Safety

\* Whichever bit is flipped in the code word of a block, Decode gives the block
\* back, if the code keeps blocks of that length apart.
THEOREM SingleFlipCorrectedHolds == ToolSpec => []SingleFlipCorrected
<1>1. BlockInv => SingleFlipCorrected
  <2> SUFFICES ASSUME BlockInv, block_pc = "done", sent # <<>> PROVE decoded = sent
    BY DEF SingleFlipCorrected
  <2>1. /\ sent \in Words(BlockBits) /\ received \in BitFlip(Encode(sent))
        /\ word \in Closest(received) /\ decoded = Unflushed(word)
    BY DEF BlockInv, SentInv, DecoderInv
  <2>2. BlockBits \in Nat /\ KeepsApart(BlockBits)
    BY BlockAssumption
  <2> QED BY <2>1, <2>2, FlipCorrected
<1> QED BY <1>1, BlockInvariance, PTL
-----------------------------------------------------------------------------
(* Strings of bits in parts of equal length. *)

LEMMA AtMost ==
    ASSUME NEW c \in Nat, NEW q \in Nat, NEW p \in Nat \ {0}, c * p < q * p + p
    PROVE  c <= q
<1> SUFFICES ASSUME c > q PROVE FALSE
  OBVIOUS
<1>1. c - (q + 1) \in Nat /\ c = (q + 1) + (c - (q + 1))
  OBVIOUS
<1>2. (c - (q + 1)) * p \in Nat /\ q * p \in Nat /\ (q + 1) * p = q * p + p
  BY <1>1, Products
<1>3. c * p = (q + 1) * p + (c - (q + 1)) * p
  BY <1>1
<1> QED BY <1>2, <1>3

\* The number of parts, the last one possibly shorter.
LEMMA PartsOf ==
    ASSUME NEW len \in Nat, NEW p \in Nat \ {0}
    PROVE  LET q == (len + p - 1) \div p
           IN  /\ q \in Nat
               /\ \A i \in Nat : i * p <= len => i <= q
               /\ \A i \in Nat : i < q => i * p < len
               /\ \A c \in Nat : len = c * p => q = c
<1> DEFINE x == len + p - 1
           q == x \div p
           r == x % p
<1>1. q \in Nat /\ r \in 0 .. (p - 1) /\ x = p * q + r /\ x \in Nat
  <2>1. x \in Nat
    OBVIOUS
  <2> HIDE DEF x
  <2> QED BY <2>1, Division
<1>2. p * q = q * p /\ q * p \in Nat
  BY <1>1, Products
<1>3. q * p + r = len + p - 1
  BY <1>1, <1>2
<1> HIDE DEF q, r, x
<1>4. ASSUME NEW i \in Nat, i * p <= len PROVE i <= q
  <2>1. i * p \in Nat
    BY Products
  <2>2. i * p < q * p + p
    BY <1>1, <1>2, <1>3, <1>4, <2>1
  <2> QED BY <1>1, <2>2, AtMost
<1>5. ASSUME NEW i \in Nat, i < q PROVE i * p < len
  <2>1. q - (i + 1) \in Nat /\ q = (i + 1) + (q - (i + 1))
    BY <1>1, <1>5
  <2>2. (q - (i + 1)) * p \in Nat /\ i * p \in Nat /\ (i + 1) * p = i * p + p
    BY <2>1, Products
  <2>3. q * p = (i + 1) * p + (q - (i + 1)) * p
    BY <1>1, <2>1
  <2> QED BY <1>1, <1>2, <1>3, <2>2, <2>3
<1>6. ASSUME NEW c \in Nat, len = c * p PROVE q = c
  <2>1. c <= q
    BY <1>4, <1>6
  <2>2. ~(c < q)
    BY <1>5, <1>6
  <2> QED BY <1>1, <2>1, <2>2
<1> QED BY <1>1, <1>4, <1>5, <1>6 DEF q, x

LEMMA InPart ==
    ASSUME NEW k \in Nat, NEW p \in Nat, NEW i \in 1 .. k, NEW j \in 1 .. p
    PROVE  (i - 1) * p + j \in 1 .. k * p
<1>1. i - 1 \in Nat /\ k - i \in Nat /\ k = ((i - 1) + 1) + (k - i)
  OBVIOUS
<1>2. /\ (i - 1) * p \in Nat /\ ((i - 1) + 1) * p = (i - 1) * p + p
      /\ (k - i) * p \in Nat /\ k * p \in Nat
  BY <1>1, Products
<1>3. k * p = ((i - 1) + 1) * p + (k - i) * p
  BY <1>1
<1> QED BY <1>2, <1>3

\* The i-th part of so many bits.
Part(bits, num, i) == [j \in 1 .. num |-> bits[(i - 1) * num + j]]

LEMMA PartType ==
    ASSUME NEW k \in Nat, NEW p \in Nat, NEW f \in Words(k * p), NEW i \in 1 .. k
    PROVE  Part(f, p, i) \in Words(p)
<1>1. \A j \in 1 .. p : f[(i - 1) * p + j] \in Bit
  BY InPart DEF Words
<1> QED BY <1>1 DEF Part, Words

\* What follows leaves the parts before it alone, and is a part if it is as long.
LEMMA PartsStay ==
    ASSUME NEW k \in Nat, NEW p \in Nat, NEW n, n = k * p, NEW f \in Words(n),
           NEW m \in Nat, NEW g \in Words(m), NEW i \in 1 .. k
    PROVE  Part(f \o g, p, i) = Part(f, p, i)
<1> DEFINE h == f \o g
<1>1. n \in Nat
  BY Products
<1>2. \A j \in 1 .. n + m : h[j] = IF j <= n THEN f[j] ELSE g[j - n]
  <2>1. f \in [1 .. n -> Bit] /\ g \in [1 .. m -> Bit]
    BY DEF Words
  <2> QED BY <1>1, <2>1, ConcatIs
<1> HIDE DEF h
<1>3. ASSUME NEW j \in 1 .. p PROVE h[(i - 1) * p + j] = f[(i - 1) * p + j]
  <2> DEFINE l == (i - 1) * p + j
  <2>1. l \in 1 .. n
    BY InPart
  <2> HIDE DEF l
  <2>2. l \in 1 .. n + m /\ l <= n
    BY <1>1, <2>1
  <2>3. h[l] = f[l]
    BY <1>2, <2>2
  <2> QED BY <2>3 DEF l
<1>4. Part(h, p, i) = Part(f, p, i)
  BY <1>3, Zenon DEF Part
<1> QED BY <1>4 DEF h

LEMMA PartAdded ==
    ASSUME NEW k \in Nat, NEW p \in Nat, NEW n, n = k * p, NEW f \in Words(n), NEW g \in Words(p)
    PROVE  Part(f \o g, p, k + 1) = g
<1> DEFINE h == f \o g
<1>1. n \in Nat
  BY Products
<1>2. \A j \in 1 .. n + p : h[j] = IF j <= n THEN f[j] ELSE g[j - n]
  <2>1. f \in [1 .. n -> Bit] /\ g \in [1 .. p -> Bit]
    BY DEF Words
  <2> QED BY <1>1, <2>1, ConcatIs
<1> HIDE DEF h
<1>3. (k + 1) - 1 = k
  OBVIOUS
<1>4. ASSUME NEW j \in 1 .. p PROVE h[k * p + j] = g[j]
  <2>1. n + j \in 1 .. n + p /\ ~(n + j <= n) /\ (n + j) - n = j
    BY <1>1
  <2>2. h[n + j] = g[(n + j) - n]
    BY <1>2, <2>1
  <2> QED BY <2>1, <2>2
<1>5. [j \in 1 .. p |-> h[k * p + j]] = [j \in 1 .. p |-> g[j]]
  BY <1>4, Zenon
<1>6. g = [j \in 1 .. p |-> g[j]]
  BY DEF Words
<1> QED BY <1>3, <1>5, <1>6 DEF Part, h

\* splitBinaryVector: the whole pieces are the parts, and the last one may be
\* shorter.
LEMMA SplitIs ==
    ASSUME NEW bits \in Seq(Bit), NEW num \in Nat \ {0}
    PROVE  LET s == Split(bits, num)
           IN  /\ s \in Seq(Seq(Bit)) /\ Len(s) = (Len(bits) + num - 1) \div num
               /\ \A i \in Nat \ {0} : i * num <= Len(bits) =>
                    i \in 1 .. Len(s) /\ s[i] = Part(bits, num, i)
<1> DEFINE len == Len(bits)
           q == (len + num - 1) \div num
           end(i) == IF i * num <= len THEN i * num ELSE len
           s == [i \in 1 .. q |-> SubSeq(bits, (i - 1) * num + 1, end(i))]
<1>1. len \in Nat /\ \A l \in 1 .. len : bits[l] \in Bit
  BY ElementOfSeq
<1> HIDE DEF len
<1>2. /\ q \in Nat
      /\ \A i \in Nat : i * num <= len => i <= q
      /\ \A i \in Nat : i < q => i * num < len
  BY <1>1, PartsOf
<1> HIDE DEF q
<1>3. ASSUME NEW i \in 1 .. q
      PROVE  /\ (i - 1) * num \in Nat /\ i * num = (i - 1) * num + num
             /\ (i - 1) * num < len /\ end(i) \in Nat /\ end(i) <= len
             /\ (i - 1) * num + 1 <= end(i)
  <2>1. i - 1 \in Nat /\ i - 1 < q /\ i = (i - 1) + 1
    BY <1>2
  <2>2. (i - 1) * num \in Nat /\ i * num = (i - 1) * num + num
    BY <2>1, Products
  <2>3. (i - 1) * num < len
    BY <1>2, <2>1
  <2> QED BY <1>1, <2>2, <2>3
<1>4. ASSUME NEW i \in 1 .. q
      PROVE  /\ s[i] \in Seq(Bit) /\ Len(s[i]) = end(i) - (i - 1) * num
             /\ \A j \in 1 .. (end(i) - (i - 1) * num) : s[i][j] = bits[(i - 1) * num + j]
  <2> DEFINE a == (i - 1) * num
             b == end(i)
             t == SubSeq(bits, a + 1, b)
  <2>1. a \in Nat /\ b \in Nat /\ b <= len /\ a + 1 <= b
    BY <1>3
  <2>2. s[i] = t
    OBVIOUS
  <2> HIDE DEF a, b, s
  <2>3. t \in Seq(Bit) /\ Len(t) = b - a /\ \A j \in 1 .. (b - a) : t[j] = bits[a + j]
    <3>1. a + 1 \in 1 .. len + 1 /\ b \in (a + 1) - 1 .. len /\ b - (a + 1) + 1 = b - a
      BY <1>1, <2>1
    <3>2. t \in Seq(Bit)
      BY <1>1, <2>1, <3>1, SubSeqProperties DEF len
    <3>3. Len(t) = b - a
      BY <1>1, <2>1, <3>1, SubSeqProperties DEF len
    <3>4. ASSUME NEW j \in 1 .. (b - a) PROVE t[j] = bits[a + j]
      <4>1. t[j] = bits[(a + 1) + j - 1]
        BY <1>1, <2>1, <3>1, SubSeqProperties DEF len
      <4>2. (a + 1) + j - 1 = a + j
        BY <2>1
      <4> QED BY <4>1, <4>2
    <3> QED BY <3>2, <3>3, <3>4
  <2> QED BY <2>2, <2>3 DEF a, b
<1>5. s \in [1 .. q -> Seq(Bit)] /\ s \in Seq(Seq(Bit)) /\ Len(s) = q
  <2>1. s \in [1 .. q -> Seq(Bit)]
    BY <1>4
  <2> HIDE DEF s
  <2> QED BY <1>2, <2>1, SequenceOf
<1>6. ASSUME NEW i \in Nat \ {0}, i * num <= len
      PROVE  i \in 1 .. q /\ s[i] = Part(bits, num, i)
  <2>1. i \in 1 .. q
    BY <1>2, <1>6
  <2>2. end(i) = i * num
    BY <1>6
  <2>3. end(i) - (i - 1) * num = num
    <3> DEFINE a == (i - 1) * num
               b == end(i)
    <3>1. a \in Nat /\ i * num = a + num
      BY <1>3, <2>1
    <3>2. b = a + num
      BY <2>2, <3>1
    <3> HIDE DEF a, b
    <3>3. b - a = num
      BY <3>1, <3>2
    <3> QED BY <3>3 DEF a, b
  <2> DEFINE t == s[i]
  <2>4. t \in Seq(Bit) /\ Len(t) = num /\ \A j \in 1 .. num : t[j] = bits[(i - 1) * num + j]
    BY <1>4, <2>1, <2>3
  <2> HIDE DEF t
  <2>5. t = [j \in 1 .. num |-> t[j]]
    BY <2>4
  <2>6. [j \in 1 .. num |-> t[j]] = [j \in 1 .. num |-> bits[(i - 1) * num + j]]
    BY <2>4, Zenon
  <2> QED BY <2>1, <2>5, <2>6 DEF Part, t
<1>7. Split(bits, num) = s
  BY DEF Split, q, len
<1> HIDE DEF s
<1> QED BY <1>5, <1>6, <1>7 DEF q, len
-----------------------------------------------------------------------------
(* Puncturing and depuncturing of a key. *)

LEMMA BitAtType == ASSUME NEW x \in Nat, NEW k \in Nat PROVE BitAt(x, k) \in Bit
<1> DEFINE q == x \div Pow2(k)
<1>1. q \in Nat
  <2>1. Pow2(k) \in Nat \ {0}
    BY Pow2Type
  <2> QED BY <2>1, Division
<1> HIDE DEF q
<1>2. q % 2 \in 0 .. 1
  BY <1>1
<1> QED BY <1>2 DEF BitAt, q, Bit

\* There is a least number of digits.
LEMMA DecimalToBinaryType ==
    ASSUME NEW n \in 0 .. (Pow2(ValueBits) - 1)
    PROVE  DecimalToBinary(n) \in Seq(Bit)
<1> DEFINE T == {k \in Nat : n < Pow2(k)}
           Size(k) == n < Pow2(k) /\ \A j \in 0 .. k - 1 : n >= Pow2(j)
           size == CHOOSE k \in 0 .. ValueBits : Size(k)
<1>1. ValueBits \in Nat /\ Pow2(ValueBits) \in Nat \ {0}
  BY KeyAssumption, Pow2Type
<1>2. n \in Nat /\ ValueBits \in T
  BY <1>1
<1>3. \E k \in 0 .. ValueBits : Size(k)
  <2>1. PICK k \in T : \A m \in T : k <= m
    <3>1. T \in SUBSET Nat /\ T # {}
      BY <1>2
    <3> HIDE DEF T
    <3> QED BY <3>1, SmallestExists
  <2>2. k \in 0 .. ValueBits /\ n < Pow2(k)
    BY <1>1, <1>2, <2>1
  <2>3. ASSUME NEW j \in 0 .. k - 1 PROVE n >= Pow2(j)
    <3>1. j \in Nat /\ ~(k <= j)
      BY <2>2
    <3>2. ~(n < Pow2(j))
      BY <2>1, <3>1
    <3>3. Pow2(j) \in Nat \ {0}
      BY <3>1, Pow2Type
    <3> QED BY <1>2, <3>2, <3>3
  <2> QED BY <2>2, <2>3
<1>4. size \in 0 .. ValueBits
  <2> HIDE DEF Size
  <2> QED BY <1>3
<1>5. DecimalToBinary(n) = [j \in 1 .. size |-> BitAt(n, size - j)]
  BY DEF DecimalToBinary
<1> HIDE DEF size
<1>6. size \in Nat /\ \A j \in 1 .. size : size - j \in Nat
  BY <1>1, <1>4
<1>7. \A j \in 1 .. size : BitAt(n, size - j) \in Bit
  BY <1>2, <1>6, BitAtType
<1>8. [j \in 1 .. size |-> BitAt(n, size - j)] \in [1 .. size -> Bit]
  BY <1>7
<1> QED BY <1>5, <1>6, <1>8, SequenceOf

\* The blocks of a key that is cut to whole ones.
Blocks == Len(key) \div KeyBlockBits

LEMMA AlignIs ==
    ASSUME NEW bits \in Seq(Bit)
    PROVE  \E k \in Nat : Align(bits) \in Words(k * KeyBlockBits)
<1> DEFINE n == Len(bits)
           b == KeyBlockBits
           k == n \div b
           r == n % b
<1>1. n \in Nat /\ b \in Nat \ {0}
  BY KeyAssumption
<1>2. k \in Nat /\ r \in 0 .. (b - 1) /\ n = b * k + r
  <2> HIDE DEF n, b
  <2> QED BY <1>1, Division
<1>3. k * b \in Nat /\ b * k = k * b
  <2> HIDE DEF k, b
  <2> QED BY <1>1, <1>2, Products
<1>4. Align(bits) = SubSeq(bits, 1, n - r)
  BY DEF Align
<1> DEFINE m == k * b
<1> HIDE DEF k, r, b
<1>5. m \in Nat /\ n - r = m /\ m <= n
  BY <1>1, <1>2, <1>3
<1>6. \A j \in 1 .. m : bits[j] \in Bit
  <2> HIDE DEF m
  <2>1. \A j \in 1 .. m : j \in 1 .. Len(bits)
    BY <1>1, <1>5
  <2> QED BY <2>1, ElementOfSeq
<1>7. SubSeq(bits, 1, m) \in Words(m)
  <2> HIDE DEF m
  <2>1. SubSeq(bits, 1, m) \in Seq(Bit) /\ Len(SubSeq(bits, 1, m)) = IF 1 <= m THEN m - 1 + 1 ELSE 0
    BY <1>5, <1>6, SubSeqProperties
  <2>2. Len(SubSeq(bits, 1, m)) = m
    BY <1>5, <2>1
  <2> QED BY <2>1, <2>2, FunctionOf DEF Words
<1>8. Align(bits) \in Words(k * KeyBlockBits)
  BY <1>4, <1>5, <1>7 DEF b
<1> QED BY <1>2, <1>8

\* The first blocks of the key have been punctured.
Punctured(k) ==
    /\ punct \in Words(k * CodeBits)
    /\ \A i \in 1 .. k : Part(punct, CodeBits, i) \in BitFlip(Encode(Part(key, KeyBlockBits, i)))

\* They have been received, whatever follows.
Received ==
    /\ Blocks * CodeBits <= Len(punct)
    /\ \A i \in 1 .. Blocks :
         Part(punct, CodeBits, i) \in BitFlip(Encode(Part(key, KeyBlockBits, i)))

\* What depuncturing has built begins with the first bits of the key.
Begins(n) == n <= Len(depunctured) /\ \A j \in 1 .. n : depunctured[j] = key[j]

Recovered(m) ==
    /\ m <= Blocks => Len(depunctured) = m * KeyBlockBits /\ Begins(m * KeyBlockBits)
    /\ m >= Blocks => Begins(Len(key))

\* The pieces of what has been received.
PiecesReceived == (Len(punct) + CodeBits - 1) \div CodeBits

KeyInv ==
    /\ KeyTypeOK
    /\ key \in Words(Blocks * KeyBlockBits) /\ Blocks \in Nat
    /\ key_pc \in {"start", "puncturing", "sending"} => depunctured = <<>>
    /\ key_pc = "start" => punct = <<>>
    /\ key_pc = "puncturing" =>
         LET k == Blocks - Len(pieces)
         IN  /\ k \in Nat /\ Punctured(k)
             /\ \A i \in 1 .. Len(pieces) : pieces[i] = Part(key, KeyBlockBits, k + i)
    /\ key_pc = "sending" => Punctured(Blocks)
    /\ key_pc = "depuncturing" =>
         LET m == PiecesReceived - Len(pieces)
         IN  /\ m \in Nat /\ Received /\ Recovered(m)
             /\ \A i \in 1 .. Len(pieces) : m + i <= Blocks => pieces[i] = Part(punct, CodeBits, m + i)
    /\ key_pc = "done" => KeyComesBack

LEMMA KeyFacts ==
    /\ KeyBlockBits \in Nat \ {0} /\ CodeBits \in Nat \ {0}
    /\ CodeBits = (KeyBlockBits + FlushBits) * NumParityBits
<1>1. KeyBlockBits \in Nat \ {0} /\ FlushBits \in Nat /\ NumParityBits \in Nat \ {0}
  BY KeyAssumption, CodeFacts
<1> DEFINE m == KeyBlockBits + FlushBits - 1
<1>2. m \in Nat /\ KeyBlockBits + FlushBits = m + 1
  BY <1>1
<1> HIDE DEF m
<1>3. m * NumParityBits \in Nat /\ (m + 1) * NumParityBits = m * NumParityBits + NumParityBits
  BY <1>1, <1>2, Products
<1> QED BY <1>1, <1>2, <1>3 DEF CodeBits

LEMMA InitKey == KeyInit => KeyInv
<1> SUFFICES ASSUME KeyInit PROVE KeyInv
  OBVIOUS
<1>1. PICK value \in 0 .. (Pow2(ValueBits) - 1) : key = Align(DecimalToBinary(value))
  BY DEF KeyInit
<1>2. DecimalToBinary(value) \in Seq(Bit)
  BY DecimalToBinaryType
<1>3. PICK k \in Nat : key \in Words(k * KeyBlockBits)
  BY <1>1, <1>2, AlignIs
<1> DEFINE b == KeyBlockBits
<1>4. b \in Nat \ {0} /\ k * b \in Nat
  BY KeyFacts, Products
<1>5. Len(key) = k * b /\ key \in Seq(Bit)
  <2> DEFINE n == k * b
  <2>1. key \in [1 .. n -> Bit] /\ n \in Nat
    BY <1>3, <1>4 DEF Words
  <2> HIDE DEF n
  <2>2. Len(key) = n /\ key \in Seq(Bit)
    BY <2>1, SequenceOf
  <2> QED BY <2>2 DEF n
<1>6. Blocks = k
  <2> DEFINE q == Len(key) \div b
             r == Len(key) % b
  <2>1. q \in Nat /\ r \in 0 .. (b - 1) /\ Len(key) = b * q + r
    <3>1. Len(key) \in Nat
      BY <1>4, <1>5
    <3> HIDE DEF b
    <3> QED BY <1>4, <3>1, Division
  <2>2. b * q = q * b /\ q * b \in Nat
    BY <1>4, <2>1, Products
  <2>3. k * b = q * b + r
    BY <1>5, <2>1, <2>2
  <2> HIDE DEF q, r, b
  <2>4. k <= q
    <3>1. k * b < q * b + b
      BY <1>4, <2>1, <2>2, <2>3
    <3> QED BY <1>4, <2>1, <3>1, AtMost
  <2>5. q <= k
    <3>1. q * b < k * b + b
      BY <1>4, <2>1, <2>2, <2>3
    <3> QED BY <1>4, <2>1, <3>1, AtMost
  <2> QED BY <2>1, <2>4, <2>5 DEF Blocks, q, b
<1>7. <<>> \in Seq(Bit) /\ <<>> \in Seq(Seq(Bit))
  OBVIOUS
<1>8. KeyTypeOK
  BY <1>5, <1>7 DEF KeyInit, KeyTypeOK
<1> QED BY <1>3, <1>6, <1>8 DEF KeyInit, KeyInv

LEMMA KeyIs ==
    ASSUME KeyInv
    PROVE  /\ key \in Seq(Bit) /\ Blocks \in Nat /\ Len(key) = Blocks * KeyBlockBits
           /\ Blocks * KeyBlockBits \in Nat
           /\ \A i \in 1 .. Blocks : Part(key, KeyBlockBits, i) \in Words(KeyBlockBits)
<1> DEFINE n == Blocks * KeyBlockBits
<1>1. Blocks \in Nat /\ KeyBlockBits \in Nat /\ key \in Words(n)
  BY KeyFacts DEF KeyInv
<1>2. n \in Nat
  BY <1>1, Products
<1>3. \A i \in 1 .. Blocks : Part(key, KeyBlockBits, i) \in Words(KeyBlockBits)
  BY <1>1, PartType
<1> HIDE DEF n
<1>4. key \in Seq(Bit) /\ Len(key) = n
  BY <1>1, <1>2, SequenceOf DEF Words
<1> QED BY <1>1, <1>2, <1>3, <1>4 DEF n

LEMMA StepStartPuncturing == KeyInv /\ StartPuncturing => KeyInv'
<1> SUFFICES ASSUME KeyInv, StartPuncturing PROVE KeyInv'
  OBVIOUS
<1> DEFINE s == Split(key, KeyBlockBits)
<1>1. /\ key_pc = "start" /\ pieces' = s /\ key_pc' \in {"puncturing", "crashed"}
      /\ key' = key /\ punct' = punct /\ depunctured' = depunctured
  BY DEF StartPuncturing, StartLoop
<1>2. punct = <<>> /\ depunctured = <<>>
  BY <1>1 DEF KeyInv
<1>3. /\ s \in Seq(Seq(Bit)) /\ Len(s) = (Len(key) + KeyBlockBits - 1) \div KeyBlockBits
      /\ \A i \in Nat \ {0} : i * KeyBlockBits <= Len(key) =>
           i \in 1 .. Len(s) /\ s[i] = Part(key, KeyBlockBits, i)
  BY KeyIs, KeyFacts, SplitIs
<1>4. Len(s) = Blocks /\ \A i \in Nat : i < Blocks => i * KeyBlockBits < Len(key)
  <2>1. Len(key) \in Nat
    BY KeyIs
  <2>2. LET q == (Len(key) + KeyBlockBits - 1) \div KeyBlockBits
        IN  /\ \A i \in Nat : i < q => i * KeyBlockBits < Len(key)
            /\ \A c \in Nat : Len(key) = c * KeyBlockBits => q = c
    BY <2>1, KeyFacts, PartsOf
  <2> QED BY <1>3, <2>2, KeyIs
<1> HIDE DEF s
<1>5. ASSUME NEW i \in 1 .. Len(s) PROVE s[i] = Part(key, KeyBlockBits, 0 + i)
  <2>1. i \in Nat \ {0} /\ Blocks \in Nat /\ Len(key) \in Nat /\ 0 + i = i
    BY KeyIs
  <2>2. i * KeyBlockBits <= Len(key)
    <3>1. CASE i = Blocks
      BY <3>1, KeyIs
    <3>2. CASE i # Blocks
      <4>1. i < Blocks
        BY <1>4, <2>1, <3>2
      <4>2. i * KeyBlockBits < Len(key) /\ i * KeyBlockBits \in Nat
        BY <1>4, <2>1, <4>1, KeyFacts, Products
      <4> QED BY <2>1, <4>2
    <3> QED BY <3>1, <3>2
  <2> QED BY <1>3, <2>1, <2>2
<1>6. Blocks - Len(s) = 0
  BY <1>4, KeyIs
<1>7. punct \in Words(0 * CodeBits) /\ 1 .. 0 = {}
  <2>1. 0 * CodeBits = 0
    BY KeyFacts
  <2>2. <<>> \in Words(0)
    BY NoInputs
  <2> QED BY <1>2, <2>1, <2>2
<1>8. KeyTypeOK'
  BY <1>1, <1>3 DEF KeyInv, KeyTypeOK
<1>9. Blocks' = Blocks
  BY <1>1 DEF Blocks
<1>10. (LET k == Blocks - Len(pieces)
        IN  /\ k \in Nat /\ Punctured(k)
            /\ \A i \in 1 .. Len(pieces) : pieces[i] = Part(key, KeyBlockBits, k + i))'
  <2>1. Punctured(0)'
    BY <1>1, <1>7 DEF Punctured
  <2> QED BY <1>1, <1>5, <1>6, <1>9, <2>1
<1> QED BY <1>1, <1>2, <1>8, <1>9, <1>10 DEF KeyInv

LEMMA StepPunctureBlock == KeyInv /\ PunctureBlock => KeyInv'
<1> SUFFICES ASSUME KeyInv, PunctureBlock PROVE KeyInv'
  OBVIOUS
<1> DEFINE k == Blocks - Len(pieces)
           block == Part(key, KeyBlockBits, k + 1)
<1>1. PICK flipped \in BitFlip(Encode(Head(pieces))) :
        /\ key_pc = "puncturing" /\ pieces # <<>>
        /\ punct' = punct \o flipped /\ pieces' = Tail(pieces)
        /\ key_pc' = key_pc /\ key' = key /\ depunctured' = depunctured
  BY DEF PunctureBlock
<1>2. /\ k \in Nat /\ Punctured(k) /\ depunctured = <<>>
      /\ \A i \in 1 .. Len(pieces) : pieces[i] = Part(key, KeyBlockBits, k + i)
      /\ pieces \in Seq(Seq(Bit)) /\ Blocks \in Nat
  BY <1>1 DEF KeyInv, KeyTypeOK
<1>3. /\ Len(pieces) \in Nat \ {0} /\ Tail(pieces) \in Seq(Seq(Bit))
      /\ Len(Tail(pieces)) = Len(pieces) - 1 /\ Head(pieces) = pieces[1]
      /\ \A i \in 1 .. Len(Tail(pieces)) : Tail(pieces)[i] = pieces[i + 1]
  <2>1. Len(pieces) \in Nat \ {0}
    BY <1>1, <1>2, EmptySeq
  <2>2. Tail(pieces) \in Seq(Seq(Bit)) /\ Len(Tail(pieces)) = Len(pieces) - 1
    BY <1>1, <1>2, HeadTailProperties
  <2>3. \A i \in 1 .. Len(Tail(pieces)) : Tail(pieces)[i] = pieces[i + 1]
    BY <1>1, <1>2, HeadTailProperties
  <2>4. Head(pieces) = pieces[1]
    BY <1>1, <1>2
  <2> QED BY <2>1, <2>2, <2>3, <2>4
<1>4. k + 1 \in 1 .. Blocks /\ Blocks - Len(Tail(pieces)) = k + 1
  BY <1>2, <1>3
<1> HIDE DEF k
<1>5. Head(pieces) = block /\ block \in Words(KeyBlockBits)
  <2>1. 1 \in 1 .. Len(pieces)
    BY <1>3
  <2> QED BY <1>2, <1>3, <1>4, <2>1, KeyIs
<1>6. flipped \in Words(CodeBits) /\ flipped \in BitFlip(Encode(block))
  <2>1. Encode(block) \in Words(CodeBits) /\ CodeBits \in Nat
    BY <1>5, KeyFacts, EncodeType
  <2> QED BY <1>1, <1>5, <2>1, FlipDistance
<1> HIDE DEF block
<1> DEFINE n == punct \o flipped
<1>7. n \in Words((k + 1) * CodeBits) /\ n \in Seq(Bit)
  <2> DEFINE a == k * CodeBits
             c == (k + 1) * CodeBits
  <2>1. a \in Nat /\ c = a + CodeBits /\ CodeBits \in Nat
    BY <1>2, KeyFacts, Products
  <2>2. punct \in [1 .. a -> Bit] /\ flipped \in [1 .. CodeBits -> Bit]
    BY <1>2, <1>6 DEF Punctured, Words
  <2> HIDE DEF a, c
  <2>3. punct \o flipped \in [1 .. a + CodeBits -> Bit]
    BY <2>1, <2>2, ConcatIs
  <2>4. n \in Words(c)
    BY <2>1, <2>3 DEF Words
  <2>6. a + CodeBits \in Nat
    BY <2>1
  <2>5. n \in Seq(Bit)
    BY <2>3, <2>6, SequenceOf
  <2> QED BY <2>4, <2>5 DEF c
<1>8. /\ \A i \in 1 .. k : Part(n, CodeBits, i) = Part(punct, CodeBits, i)
      /\ Part(n, CodeBits, k + 1) = flipped
  <2>1. /\ punct \in Words(k * CodeBits) /\ CodeBits \in Nat /\ k \in Nat
        /\ flipped \in Words(CodeBits) /\ k * CodeBits \in Nat
    BY <1>2, <1>6, KeyFacts, Products DEF Punctured
  <2>2. \A i \in 1 .. k : Part(punct \o flipped, CodeBits, i) = Part(punct, CodeBits, i)
    BY <2>1, PartsStay
  <2>3. Part(punct \o flipped, CodeBits, k + 1) = flipped
    BY <2>1, PartAdded
  <2> QED BY <2>2, <2>3
<1> HIDE DEF n
<1>9. ASSUME NEW i \in 1 .. k + 1
      PROVE  Part(n, CodeBits, i) \in BitFlip(Encode(Part(key, KeyBlockBits, i)))
  <2>1. CASE i = k + 1
    BY <1>6, <1>8, <2>1 DEF block
  <2>2. CASE i # k + 1
    <3>1. i \in 1 .. k
      BY <1>2, <2>2
    <3> QED BY <1>2, <1>8, <3>1 DEF Punctured
  <2> QED BY <2>1, <2>2
<1>10. punct' = n /\ Blocks' = Blocks
  BY <1>1 DEF n, Blocks
<1>11. KeyTypeOK'
  BY <1>1, <1>3, <1>7, <1>10 DEF KeyInv, KeyTypeOK
<1>12. \A i \in 1 .. Len(Tail(pieces)) : Tail(pieces)[i] = Part(key, KeyBlockBits, (k + 1) + i)
  <2> SUFFICES ASSUME NEW i \in 1 .. Len(Tail(pieces))
               PROVE  Tail(pieces)[i] = Part(key, KeyBlockBits, (k + 1) + i)
    OBVIOUS
  <2>1. i + 1 \in 1 .. Len(pieces) /\ k + (i + 1) = (k + 1) + i
    BY <1>2, <1>3
  <2> QED BY <1>2, <1>3, <2>1
<1>13. (LET m == Blocks - Len(pieces)
        IN  /\ m \in Nat /\ Punctured(m)
            /\ \A i \in 1 .. Len(pieces) : pieces[i] = Part(key, KeyBlockBits, m + i))'
  <2>1. Blocks' - Len(pieces') = k + 1
    BY <1>1, <1>4, <1>10
  <2>2. /\ punct' \in Words((Blocks' - Len(pieces')) * CodeBits)
        /\ \A i \in 1 .. (Blocks' - Len(pieces')) :
             Part(punct', CodeBits, i) \in BitFlip(Encode(Part(key', KeyBlockBits, i)))
    BY <1>1, <1>7, <1>9, <1>10, <2>1
  <2>3. Punctured(Blocks - Len(pieces))'
    BY <2>2 DEF Punctured
  <2>4. \A i \in 1 .. Len(pieces') : pieces'[i] = Part(key', KeyBlockBits, (Blocks' - Len(pieces')) + i)
    BY <1>1, <1>12, <2>1
  <2>5. Blocks' - Len(pieces') \in Nat
    BY <1>4, <2>1
  <2> QED BY <2>3, <2>4, <2>5
<1> QED BY <1>1, <1>2, <1>10, <1>11, <1>13 DEF KeyInv

LEMMA StepPuncturingDone == KeyInv /\ PuncturingDone => KeyInv'
<1> SUFFICES ASSUME KeyInv, PuncturingDone PROVE KeyInv'
  OBVIOUS
<1>1. /\ key_pc = "puncturing" /\ pieces = <<>> /\ key_pc' = "sending"
      /\ key' = key /\ pieces' = pieces /\ punct' = punct /\ depunctured' = depunctured
  BY DEF PuncturingDone
<1>2. Blocks \in Nat /\ Blocks - Len(pieces) = Blocks /\ Blocks' = Blocks
  BY <1>1, KeyIs DEF Blocks
<1>3. Punctured(Blocks) /\ depunctured = <<>>
  BY <1>1, <1>2 DEF KeyInv
<1>4. KeyTypeOK'
  BY <1>1 DEF KeyInv, KeyTypeOK
<1>5. Punctured(Blocks)'
  BY <1>1, <1>2, <1>3 DEF Punctured
<1>6. (key \in Words(Blocks * KeyBlockBits) /\ Blocks \in Nat)'
  BY <1>1, <1>2 DEF KeyInv
<1> QED BY <1>1, <1>3, <1>4, <1>5, <1>6 DEF KeyInv

LEMMA StepStartDepuncturing == KeyInv /\ StartDepuncturing => KeyInv'
<1> SUFFICES ASSUME KeyInv, StartDepuncturing PROVE KeyInv'
  OBVIOUS
<1>1. PICK trailer \in Trailers :
        /\ key_pc = "sending" /\ punct' = punct \o trailer
        /\ pieces' = Split(punct', CodeBits) /\ key_pc' \in {"depuncturing", "crashed"}
        /\ key' = key /\ depunctured' = depunctured
  BY DEF StartDepuncturing, StartLoop
<1> DEFINE a == Blocks * CodeBits
           t == Len(trailer)
           n == punct \o trailer
           s == Split(n, CodeBits)
<1>2. /\ Punctured(Blocks) /\ depunctured = <<>> /\ Blocks \in Nat /\ CodeBits \in Nat \ {0}
      /\ Len(key) = Blocks * KeyBlockBits /\ KeyBlockBits \in Nat
  BY <1>1, KeyIs, KeyFacts DEF KeyInv
<1>3. a \in Nat /\ punct \in Words(a)
  BY <1>2, Products DEF Punctured
<1>4. t \in Nat /\ trailer \in Words(t)
  BY KeyAssumption, FunctionOf DEF Words
<1>5. n \in Seq(Bit) /\ Len(n) = a + t
  <2> HIDE DEF a, t
  <2>1. punct \in [1 .. a -> Bit] /\ trailer \in [1 .. t -> Bit]
    BY <1>3, <1>4 DEF Words
  <2>2. n \in [1 .. a + t -> Bit]
    BY <1>3, <1>4, <2>1, ConcatIs
  <2>3. a + t \in Nat
    BY <1>3, <1>4
  <2> HIDE DEF n
  <2> QED BY <2>2, <2>3, SequenceOf
<1>6. \A i \in 1 .. Blocks : Part(n, CodeBits, i) = Part(punct, CodeBits, i)
  <2>1. punct \in Words(Blocks * CodeBits) /\ CodeBits \in Nat /\ Blocks \in Nat /\ a \in Nat
    BY <1>2, <1>3
  <2>3. t \in Nat /\ trailer \in Words(t)
    BY <1>4
  <2> HIDE DEF t, a, n, s
  <2>2. \A i \in 1 .. Blocks : Part(punct \o trailer, CodeBits, i) = Part(punct, CodeBits, i)
    BY <2>1, <2>3, PartsStay
  <2> QED BY <2>2 DEF n
<1> HIDE DEF n
<1>7. /\ s \in Seq(Seq(Bit)) /\ Len(s) = (Len(n) + CodeBits - 1) \div CodeBits
      /\ \A i \in Nat \ {0} : i * CodeBits <= Len(n) =>
           i \in 1 .. Len(s) /\ s[i] = Part(n, CodeBits, i)
  BY <1>2, <1>5, SplitIs
<1> HIDE DEF s, t
<1>8. ASSUME NEW i \in 1 .. Len(s), 0 + i <= Blocks PROVE s[i] = Part(n, CodeBits, 0 + i)
  <2>1. i \in Nat \ {0} /\ Blocks - i \in Nat /\ Blocks = i + (Blocks - i) /\ 0 + i = i
    BY <1>2, <1>8
  <2>2. i * CodeBits \in Nat /\ (Blocks - i) * CodeBits \in Nat
    BY <1>2, <2>1, Products
  <2>3. Blocks * CodeBits = i * CodeBits + (Blocks - i) * CodeBits
    BY <1>2, <2>1
  <2>4. i * CodeBits <= Len(n)
    BY <1>3, <1>4, <1>5, <2>2, <2>3
  <2> QED BY <1>7, <2>1, <2>4
<1>9. Len(s) \in Nat
  <2> HIDE DEF s
  <2> QED BY <1>7
<1>10. punct' = n /\ pieces' = s /\ Blocks' = Blocks
  BY <1>1 DEF n, s, Blocks
<1>11. KeyTypeOK'
  BY <1>1, <1>5, <1>7, <1>10 DEF KeyInv, KeyTypeOK
<1>12. Received'
  <2>1. /\ Blocks * CodeBits <= Len(n)
        /\ \A i \in 1 .. Blocks :
             Part(n, CodeBits, i) \in BitFlip(Encode(Part(key, KeyBlockBits, i)))
    BY <1>2, <1>3, <1>4, <1>5, <1>6 DEF Punctured
  <2> QED BY <1>1, <1>10, <2>1 DEF Received
<1>13. PiecesReceived' - Len(pieces') = 0
  BY <1>7, <1>9, <1>10 DEF PiecesReceived
<1>14. Recovered(PiecesReceived - Len(pieces))'
  <2>1. Len(depunctured) = 0 /\ 0 * KeyBlockBits = 0 /\ 1 .. 0 = {}
    BY <1>2
  <2>2. 0 >= Blocks => Len(key) = 0
    BY <1>2, <2>1
  <2>3. /\ 0 <= Blocks => Len(depunctured) = 0 * KeyBlockBits /\ 0 * KeyBlockBits <= Len(depunctured)
             /\ \A j \in 1 .. 0 * KeyBlockBits : depunctured[j] = key[j]
        /\ 0 >= Blocks => Len(key) <= Len(depunctured) /\ \A j \in 1 .. Len(key) : depunctured[j] = key[j]
    BY <2>1, <2>2
  <2> QED BY <1>1, <1>10, <1>13, <2>3 DEF Recovered, Begins
<1>15. \A i \in 1 .. Len(pieces') : (PiecesReceived' - Len(pieces')) + i <= Blocks' =>
         pieces'[i] = Part(punct', CodeBits, (PiecesReceived' - Len(pieces')) + i)
  BY <1>8, <1>10, <1>13
<1>16. (key \in Words(Blocks * KeyBlockBits) /\ Blocks \in Nat)'
  BY <1>1, <1>10 DEF KeyInv
<1>17. (LET m == PiecesReceived - Len(pieces)
        IN  /\ m \in Nat /\ Received /\ Recovered(m)
            /\ \A i \in 1 .. Len(pieces) : m + i <= Blocks => pieces[i] = Part(punct, CodeBits, m + i))'
  BY <1>12, <1>13, <1>14, <1>15
<1> QED BY <1>1, <1>11, <1>16, <1>17 DEF KeyInv

LEMMA StepDepunctureBlock == KeyInv /\ DepunctureBlock => KeyInv'
<1> SUFFICES ASSUME KeyInv, DepunctureBlock PROVE KeyInv'
  OBVIOUS
<1> DEFINE m == PiecesReceived - Len(pieces)
           b == KeyBlockBits
<1>1. PICK w \in Closest(Head(pieces)) :
        /\ key_pc = "depuncturing" /\ pieces # <<>>
        /\ depunctured' = depunctured \o Unflushed(w) /\ pieces' = Tail(pieces)
        /\ key_pc' = key_pc /\ key' = key /\ punct' = punct
  BY DEF DepunctureBlock
<1>2. /\ m \in Nat /\ Received /\ Recovered(m)
      /\ \A i \in 1 .. Len(pieces) : m + i <= Blocks => pieces[i] = Part(punct, CodeBits, m + i)
      /\ pieces \in Seq(Seq(Bit)) /\ Blocks \in Nat /\ depunctured \in Seq(Bit)
  BY <1>1 DEF KeyInv, KeyTypeOK
<1>3. /\ Len(pieces) \in Nat \ {0} /\ Tail(pieces) \in Seq(Seq(Bit)) /\ Head(pieces) \in Seq(Bit)
      /\ Len(Tail(pieces)) = Len(pieces) - 1 /\ Head(pieces) = pieces[1]
      /\ \A i \in 1 .. Len(Tail(pieces)) : Tail(pieces)[i] = pieces[i + 1]
  <2>1. Len(pieces) \in Nat \ {0}
    BY <1>1, <1>2, EmptySeq
  <2>2. Tail(pieces) \in Seq(Seq(Bit)) /\ Len(Tail(pieces)) = Len(pieces) - 1 /\ Head(pieces) \in Seq(Bit)
    BY <1>1, <1>2, HeadTailProperties
  <2>3. \A i \in 1 .. Len(Tail(pieces)) : Tail(pieces)[i] = pieces[i + 1]
    BY <1>1, <1>2, HeadTailProperties
  <2>4. Head(pieces) = pieces[1]
    BY <1>1, <1>2
  <2> QED BY <2>1, <2>2, <2>3, <2>4
<1>4. PiecesReceived - Len(Tail(pieces)) = m + 1 /\ m + 1 \in Nat
  <2>1. PiecesReceived = m + Len(pieces)
    <3>1. PiecesReceived \in Int
      <4>1. Len(punct) \in Nat
        BY DEF KeyInv, KeyTypeOK
      <4> DEFINE x == Len(punct) + CodeBits - 1
      <4>2. x \in Nat /\ CodeBits \in Nat \ {0}
        BY <4>1, KeyFacts
      <4>3. PiecesReceived = x \div CodeBits
        BY DEF PiecesReceived
      <4> HIDE DEF x
      <4> QED BY <4>2, <4>3, Division
    <3> QED BY <1>3, <3>1
  <2> QED BY <1>2, <1>3, <2>1
<1> HIDE DEF m
<1> DEFINE u == Unflushed(w)
           d == depunctured \o u
<1>5. u \in Seq(Bit) /\ d \in Seq(Bit) /\ Len(d) = Len(depunctured) + Len(u)
      /\ \A j \in 1 .. Len(depunctured) + Len(u) :
           d[j] = IF j <= Len(depunctured) THEN depunctured[j] ELSE u[j - Len(depunctured)]
  <2>1. w \in Words(Columns(Head(pieces))) /\ Columns(Head(pieces)) \in Nat
    BY <1>1, <1>3, ClosestIs, ColumnsType
  <2>2. u \in Seq(Bit)
    BY <2>1, SequenceOf, UnflushedType DEF Words
  <2> HIDE DEF u
  <2> QED BY <1>2, <2>2, ConcatProperties
<1> HIDE DEF u, d
<1>6. key \in Seq(Bit) /\ Len(key) = Blocks * b /\ Blocks * b \in Nat /\ b \in Nat
      /\ Len(depunctured) \in Nat /\ Len(u) \in Nat
  BY <1>2, <1>5, KeyIs, KeyFacts
<1> DEFINE Ok ==
             /\ m + 1 <= Blocks => /\ Len(d) = (m + 1) * b /\ (m + 1) * b <= Len(d)
                                  /\ \A j \in 1 .. (m + 1) * b : d[j] = key[j]
             /\ m + 1 >= Blocks => Len(key) <= Len(d) /\ \A j \in 1 .. Len(key) : d[j] = key[j]
<1>7. ASSUME m + 1 <= Blocks PROVE Ok
  <2> DEFINE block == Part(key, b, m + 1)
             n == m * b
  <2>1. block \in Words(b) /\ u = block
    <3>1. m + 1 \in 1 .. Blocks /\ 1 \in 1 .. Len(pieces)
      BY <1>2, <1>3, <1>7
    <3>2. Head(pieces) = Part(punct, CodeBits, m + 1)
      BY <1>2, <1>3, <1>7, <3>1
    <3>3. Head(pieces) \in BitFlip(Encode(block))
      BY <1>2, <3>1, <3>2 DEF Received
    <3>4. block \in Words(b)
      BY <3>1, KeyIs
    <3>5. b \in Nat /\ KeepsApart(b)
      BY KeyAssumption
    <3> HIDE DEF block, b
    <3> QED BY <1>1, <3>3, <3>4, <3>5, FlipCorrected DEF u
  <2>2. /\ n \in Nat /\ (m + 1) * b = n + b
        /\ Len(depunctured) = n /\ \A j \in 1 .. n : depunctured[j] = key[j]
    BY <1>2, <1>6, <1>7, Products DEF Recovered, Begins
  <2>3. Len(u) = b /\ \A j \in 1 .. b : u[j] = key[n + j]
    <3>1. u \in [1 .. b -> Bit]
      BY <2>1 DEF Words
    <3>2. Len(u) = b
      BY <1>6, <3>1, SequenceOf
    <3>3. (m + 1) - 1 = m
      BY <1>2
    <3> QED BY <2>1, <3>2, <3>3 DEF Part
  <2> HIDE DEF n, b, block
  <2>4. Len(d) = n + b /\ \A j \in 1 .. n + b : d[j] = key[j]
    <3>1. Len(d) = n + b
      BY <1>5, <2>2, <2>3
    <3>2. ASSUME NEW j \in 1 .. n + b PROVE d[j] = key[j]
      <4>1. d[j] = IF j <= n THEN depunctured[j] ELSE u[j - n]
        BY <1>5, <2>2, <2>3
      <4>2. CASE j <= n
        <5>1. j \in 1 .. n
          BY <2>2, <4>2
        <5> QED BY <2>2, <4>1, <4>2, <5>1
      <4>3. CASE ~(j <= n)
        <5>1. j - n \in 1 .. b /\ n + (j - n) = j
          BY <1>6, <2>2, <4>3
        <5>2. u[j - n] = key[n + (j - n)]
          BY <2>3, <5>1
        <5> QED BY <4>1, <4>3, <5>1, <5>2
      <4> QED BY <4>2, <4>3
    <3> QED BY <3>1, <3>2
  <2>5. m + 1 >= Blocks => Len(key) = n + b
    <3>1. m + 1 >= Blocks => m + 1 = Blocks
      BY <1>2, <1>7
    <3> QED BY <1>6, <2>2, <3>1
  <2>6. n + b <= n + b
    BY <1>6, <2>2
  <2> QED BY <2>2, <2>4, <2>5, <2>6
<1>8. ASSUME ~(m + 1 <= Blocks) PROVE Ok
  <2>1. m >= Blocks
    BY <1>2, <1>8
  <2>2. Len(key) <= Len(depunctured) /\ \A j \in 1 .. Len(key) : depunctured[j] = key[j]
    BY <1>2, <2>1 DEF Recovered, Begins
  <2> HIDE DEF b
  <2>3. ASSUME NEW j \in 1 .. Len(key) PROVE d[j] = key[j]
    <3>1. Len(key) \in Nat
      BY <1>6
    <3>2. j \in 1 .. Len(depunctured) + Len(u) /\ j <= Len(depunctured)
      BY <1>6, <2>2, <3>1
    <3>3. d[j] = depunctured[j]
      BY <1>5, <3>2
    <3> QED BY <2>2, <3>3
  <2>4. Len(key) <= Len(d)
    <3>1. Len(key) \in Nat
      BY <1>6
    <3> QED BY <1>5, <1>6, <2>2, <3>1
  <2> QED BY <1>8, <2>3, <2>4
<1>9. Ok
  BY <1>7, <1>8
<1>10. depunctured' = d /\ Blocks' = Blocks /\ PiecesReceived' = PiecesReceived
  BY <1>1 DEF d, u, Blocks, PiecesReceived
<1>11. KeyTypeOK'
  BY <1>1, <1>3, <1>5, <1>10 DEF KeyInv, KeyTypeOK
<1>12. PiecesReceived' - Len(pieces') = m + 1
  BY <1>1, <1>4, <1>10
<1>13. Received'
  BY <1>1, <1>2, <1>10 DEF Received
<1>14. Recovered(PiecesReceived - Len(pieces))'
  <2>1. LET k == PiecesReceived' - Len(pieces')
        IN  /\ k <= Blocks' => /\ Len(depunctured') = k * b /\ k * b <= Len(depunctured')
                               /\ \A j \in 1 .. k * b : depunctured'[j] = key'[j]
            /\ k >= Blocks' => /\ Len(key') <= Len(depunctured')
                               /\ \A j \in 1 .. Len(key') : depunctured'[j] = key'[j]
    BY <1>1, <1>9, <1>10, <1>12
  <2> QED BY <2>1 DEF Recovered, Begins
<1>15. \A i \in 1 .. Len(pieces') : (PiecesReceived' - Len(pieces')) + i <= Blocks' =>
         pieces'[i] = Part(punct', CodeBits, (PiecesReceived' - Len(pieces')) + i)
  <2>1. ASSUME NEW i \in 1 .. Len(Tail(pieces)), (m + 1) + i <= Blocks
        PROVE  Tail(pieces)[i] = Part(punct, CodeBits, (m + 1) + i)
    <3>1. i + 1 \in 1 .. Len(pieces) /\ m + (i + 1) = (m + 1) + i
      BY <1>2, <1>3
    <3> QED BY <1>2, <1>3, <2>1, <3>1
  <2> QED BY <1>1, <1>10, <1>12, <2>1
<1>16. (key \in Words(Blocks * KeyBlockBits) /\ Blocks \in Nat)'
  BY <1>1, <1>10 DEF KeyInv
<1>17. (LET k == PiecesReceived - Len(pieces)
        IN  /\ k \in Nat /\ Received /\ Recovered(k)
            /\ \A i \in 1 .. Len(pieces) : k + i <= Blocks => pieces[i] = Part(punct, CodeBits, k + i))'
  BY <1>4, <1>12, <1>13, <1>14, <1>15
<1> QED BY <1>1, <1>11, <1>16, <1>17 DEF KeyInv

LEMMA StepDepuncturingDone == KeyInv /\ DepuncturingDone => KeyInv'
<1> SUFFICES ASSUME KeyInv, DepuncturingDone PROVE KeyInv'
  OBVIOUS
<1> DEFINE m == PiecesReceived
           b == KeyBlockBits
           c == CodeBits
           l == Len(punct)
<1>1. /\ key_pc = "depuncturing" /\ pieces = <<>> /\ key_pc' = "done"
      /\ key' = key /\ pieces' = pieces /\ punct' = punct /\ depunctured' = depunctured
  BY DEF DepuncturingDone
<1>2. /\ m - Len(pieces) \in Nat /\ Received /\ Recovered(m - Len(pieces))
      /\ punct \in Seq(Bit) /\ depunctured \in Seq(Bit)
  BY <1>1 DEF KeyInv, KeyTypeOK
<1>3. /\ key \in Seq(Bit) /\ Blocks \in Nat /\ Len(key) = Blocks * b /\ Len(key) \in Nat
      /\ b \in Nat \ {0} /\ c \in Nat \ {0} /\ l \in Nat /\ Len(depunctured) \in Nat
  BY <1>2, KeyIs, KeyFacts
<1>4. /\ m \in Nat /\ Blocks <= m
      /\ \A k \in Nat : l = k * c => m = k
  <2>1. Blocks * c <= l
    BY <1>2 DEF Received
  <2> HIDE DEF l, c
  <2>2. LET q == (l + c - 1) \div c
        IN  /\ q \in Nat
            /\ \A i \in Nat : i * c <= l => i <= q
            /\ \A k \in Nat : l = k * c => q = k
    BY <1>3, PartsOf
  <2>3. m = (l + c - 1) \div c
    BY DEF PiecesReceived, l, c
  <2> HIDE DEF m
  <2> QED BY <1>3, <2>1, <2>2, <2>3
<1>5. m - Len(pieces) = m
  <2> HIDE DEF m
  <2> QED BY <1>1, <1>4
<1>6. Recovered(m)
  BY <1>2, <1>5
<1>7. Len(key) <= Len(depunctured) /\ \A j \in 1 .. Len(key) : depunctured[j] = key[j]
  BY <1>3, <1>4, <1>6 DEF Recovered, Begins
<1> DEFINE n == Len(key)
<1>8. IsPrefix(key, depunctured)
  <2>1. n \in Nat /\ \A j \in 1 .. n : key[j] \in Bit /\ depunctured[j] \in Bit
    <3>1. \A j \in 1 .. n : j \in 1 .. Len(depunctured)
      BY <1>3, <1>7
    <3> QED BY <1>2, <1>3, <3>1, ElementOfSeq
  <2> HIDE DEF n
  <2> DEFINE x == SubSeq(key, 1, n)
             y == SubSeq(depunctured, 1, n)
  <2>2. /\ x \in Seq(Bit) /\ Len(x) = (IF 1 <= n THEN n - 1 + 1 ELSE 0)
        /\ \A i \in 1 .. n - 1 + 1 : x[i] = key[1 + i - 1]
    BY <2>1, SubSeqProperties
  <2>3. /\ y \in Seq(Bit) /\ Len(y) = (IF 1 <= n THEN n - 1 + 1 ELSE 0)
        /\ \A i \in 1 .. n - 1 + 1 : y[i] = depunctured[1 + i - 1]
    BY <2>1, SubSeqProperties
  <2> HIDE DEF x, y
  <2>4. Len(x) = n /\ Len(y) = n /\ n - 1 + 1 = n
    BY <2>1, <2>2, <2>3
  <2>5. ASSUME NEW i \in 1 .. n PROVE x[i] = y[i]
    <3>1. 1 + i - 1 = i
      OBVIOUS
    <3>2. x[i] = key[i] /\ y[i] = depunctured[i]
      BY <2>2, <2>3, <2>4, <3>1
    <3> QED BY <1>7, <3>2 DEF n
  <2>6. x = y
    BY <2>2, <2>3, <2>4, <2>5, SeqEqual
  <2> QED BY <1>7, <2>6 DEF IsPrefix, x, y, n
<1>9. ASSUME l * b = Len(key) * c PROVE depunctured = key
  <2>1. l = Blocks * c
    <3> DEFINE p == Blocks * c
    <3>1. p \in Nat
      BY <1>3, Products
    <3>2. l * b = p * b
      <4>1. (Blocks * b) * c = (Blocks * c) * b
        <5> HIDE DEF b, c
        <5> QED BY <1>3
      <4> QED BY <1>3, <1>9, <4>1
    <3>3. l * b \in Nat
      <4> HIDE DEF l, b
      <4> QED BY <1>3, Products
    <3> HIDE DEF p, l, b
    <3>4. l <= p
      <4>1. l * b < p * b + b
        BY <1>3, <3>2, <3>3
      <4> QED BY <1>3, <3>1, <4>1, AtMost
    <3>5. p <= l
      <4>1. p * b < l * b + b
        BY <1>3, <3>2, <3>3
      <4> QED BY <1>3, <3>1, <4>1, AtMost
    <3>6. l = p
      BY <1>3, <3>1, <3>4, <3>5
    <3> QED BY <3>6 DEF p
  <2>2. m = Blocks
    BY <1>3, <1>4, <2>1
  <2>3. Len(depunctured) = Len(key)
    BY <1>3, <1>6, <2>2 DEF Recovered
  <2> QED BY <1>2, <1>3, <1>7, <2>3, SeqEqual
<1>10. KeyComesBack
  BY <1>8, <1>9 DEF KeyComesBack
<1>11. KeyTypeOK' /\ Blocks' = Blocks
  BY <1>1 DEF KeyInv, KeyTypeOK, Blocks
<1>12. (key \in Words(Blocks * KeyBlockBits) /\ Blocks \in Nat)'
  BY <1>1, <1>11 DEF KeyInv
<1>13. KeyComesBack'
  BY <1>1, <1>8, <1>9 DEF KeyComesBack
<1> QED BY <1>1, <1>11, <1>12, <1>13 DEF KeyInv

LEMMA StepKey == KeyInv /\ [KeyNext]_keyVars => KeyInv'
<1> SUFFICES ASSUME KeyInv, [KeyNext]_keyVars PROVE KeyInv'
  OBVIOUS
<1>1. CASE UNCHANGED keyVars
  BY <1>1 DEF keyVars, KeyInv, KeyTypeOK, Blocks, Punctured, Received, Recovered, Begins,
              PiecesReceived, KeyComesBack
<1> QED
  BY <1>1, StepStartPuncturing, StepPunctureBlock, StepPuncturingDone, StepStartDepuncturing,
     StepDepunctureBlock, StepDepuncturingDone
  DEF KeyNext, KeyOver

THEOREM KeyInvariance == ToolSpec => []KeyInv
<1>1. ToolInit => KeyInv
  BY InitKey DEF ToolInit
<1>2. KeyInv /\ [ToolNext]_toolVars => KeyInv'
  BY Parts, StepKey
<1> QED BY <1>1, <1>2, PTL DEF ToolSpec

\* Whatever was flipped in each block, and whatever trails the punctured key,
\* depuncturing gives the key back, if the code keeps its blocks apart.
THEOREM KeyComesBackHolds == ToolSpec => []KeyComesBack
<1>1. KeyInv => KeyComesBack
  BY DEF KeyInv, KeyComesBack
<1> QED BY <1>1, KeyInvariance, PTL

\* Depuncturing undoes puncturing, of a block and of a whole key.
THEOREM PuncturingUndoneHolds == ToolSpec => []PuncturingUndone
<1>1. SingleFlipCorrected /\ KeyComesBack => PuncturingUndone
  BY DEF PuncturingUndone
<1> QED BY <1>1, SingleFlipCorrectedHolds, KeyComesBackHolds, PTL
-----------------------------------------------------------------------------
(* The key pair. *)

\* What the call that runs has allocated so far.
Handles ==
    (IF private_key = "handle" THEN 1 ELSE 0) + (IF public_key = "handle" THEN 1 ELSE 0)

Taken ==
    IF pc \in {"private", "public", "modulus"} THEN Handles
    ELSE IF pc = "keys" THEN Handles + 2
    ELSE IF pc = "return" THEN Handles + 4 ELSE 0

\* The blocks that are free, those of the call that runs, and six for each call
\* that has returned do not exceed the heap: a call only returns with both handles.
PairInv ==
    /\ TypeOK
    /\ free + Taken + 6 * returned <= HeapBlocks
    /\ pc = "idle" => returned <= MaxCalls
    /\ pc \notin {"idle", "crashed"} => returned < MaxCalls
    /\ pc \in {"params", "private", "public"} => public_key = "null"
    /\ pc \in {"params", "private"} => private_key = "null"
    /\ pc = "return" => Handles = 2

LEMMA InitPair == Init => PairInv
  BY HeapAssumption
  DEF Init, PairInv, TypeOK, Taken, Handles

LEMMA StepPair == PairInv /\ [Next]_vars => PairInv'
<1> SUFFICES ASSUME PairInv, [Next]_vars PROVE PairInv'
  OBVIOUS
<1> USE HeapAssumption
<1> USE DEF PairInv, TypeOK, Taken, Handles, vars, heapVars
<1>1. CASE Call
  BY <1>1 DEF Call
<1>2. CASE GenerateParams
  BY <1>2 DEF GenerateParams
<1>3. CASE CreatePrivate
  BY <1>3 DEF CreatePrivate
<1>4. CASE CreatePublic
  BY <1>4 DEF CreatePublic
<1>5. CASE CopyModulus
  BY <1>5 DEF CopyModulus
<1>6. CASE CopyKeys
  BY <1>6 DEF CopyKeys
<1>7. CASE Return
  BY <1>7 DEF Return
<1>8. CASE UNCHANGED vars
  BY <1>8
<1> QED
  BY <1>1, <1>2, <1>3, <1>4, <1>5, <1>6, <1>7, <1>8 DEF Next, Over

\* The accounting of the heap holds throughout.
THEOREM PairInvariance == ToolSpec => []PairInv
<1>1. ToolInit => PairInv
  BY InitPair DEF ToolInit
<1>2. PairInv /\ [ToolNext]_toolVars => PairInv'
  BY Parts, StepPair
<1> QED BY <1>1, <1>2, PTL DEF ToolSpec

\* An enclave whose heap has room for n blocks returns from at most n / 6 calls
\* of create_rsa_pair.
THEOREM CallsAreBoundedHolds == ToolSpec => []CallsAreBounded
<1>1. PairInv => CallsAreBounded
  BY HeapAssumption DEF PairInv, TypeOK, Taken, Handles, CallsAreBounded
<1> QED BY <1>1, PairInvariance, PTL

\* The variables have their types, and the metrics of Decode are, after every
\* column, the least distances of the inputs that end in a state: they never
\* come near the value that stands for no inputs.
THEOREM ToolsSoundHolds == ToolSpec => []ToolsSound
<1>1. PairInv /\ KeyInv /\ BlockInv => ToolsSound
  <2>1. PairInv => TypeOK
    BY DEF PairInv
  <2>2. KeyInv => KeyTypeOK
    BY DEF KeyInv
  <2>3. BlockInv => DecoderTypeOK /\ MetricsAreDistances
    BY LeastDistances DEF BlockInv, DecoderInv
  <2> QED BY <2>1, <2>2, <2>3 DEF ToolsSound
<1> QED BY <1>1, PairInvariance, KeyInvariance, BlockInvariance, PTL
=============================================================================
