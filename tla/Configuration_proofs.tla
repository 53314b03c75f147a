------------------------ MODULE Configuration_proofs ------------------------
(* What holds of a configuration for any names, values, fallbacks and hash     *)
(* function: its tables are sound, they implement the tree of ConfigTree,      *)
(* lookups find the innermost entry, listings are complete and in order, and   *)
(* what is dumped is what there is.                                            *)
EXTENDS Configuration, SequenceTheorems, FiniteSetTheorems, WellFoundedInduction, TLAPS

\* Induction over the numbers, about a set.
LEMMA SetInduction ==
    ASSUME NEW S, 0 \in S, \A n \in Nat : n \in S => n + 1 \in S
    PROVE  Nat \subseteq S
<1> SUFFICES ASSUME NEW m \in Nat, m \notin S PROVE FALSE
  OBVIOUS
<1> DEFINE T == {0..n : n \in Nat \ S}
           R == StrictSubsetOrdering(Nat)
<1>1. T \subseteq FiniteSubsetsOf(Nat) /\ T # {}
  <2>1. \A n \in Nat : 0..n \in FiniteSubsetsOf(Nat)
    BY FS_Interval DEF FiniteSubsetsOf
  <2> QED BY <2>1
<1>2. PICK t \in T : \A y \in T : <<y, t>> \notin R
  <2> HIDE DEF T
  <2>1. IsWellFoundedOn(R, FiniteSubsetsOf(Nat))
    BY FS_StrictSubsetOrderingWellFounded
  <2> HIDE DEF R
  <2> QED BY <1>1, <2>1, WFMin
<1>3. PICK x \in Nat \ S : t = 0..x
  OBVIOUS
<1>4. x # 0 /\ x - 1 \in Nat
  OBVIOUS
<1>5. x - 1 \notin S
  BY <1>4
<1>6. 0..(x-1) \in T /\ 0..(x-1) \subseteq 0..x /\ 0..(x-1) # 0..x /\ 0..x \subseteq Nat
  BY <1>4, <1>5
<1>7. <<0..(x-1), 0..x>> \in R
  BY <1>6 DEF StrictSubsetOrdering
<1> QED BY <1>2, <1>3, <1>6, <1>7

\* The functions that step makes out of start, up to N.
Steps(X) == [Nat \X X -> X]
Runs(X, start, step, N) ==
    {f \in [0 .. N -> X] : /\ f[0] = start
                           /\ \A k \in 1 .. N : f[k] = step[<<k, f[k - 1]>>]}

\* A function that is defined step by step from its value at zero exists.
LEMMA PrimitiveRecursion ==
    ASSUME NEW X, NEW start, NEW step, NEW N,
           start \in X, step \in Steps(X), N \in Nat
    PROVE  \E f : f \in Runs(X, start, step, N)
<1> USE DEF Steps, Runs
<1> DEFINE Ok(f, n) == /\ f \in [0 .. n -> X] /\ f[0] = start
                       /\ \A k \in 1 .. n : f[k] = step[<<k, f[k - 1]>>]
           S == {n \in Nat : \E f : Ok(f, n)}
<1>1. 0 \in S
  <2>1. Ok([k \in 0 .. 0 |-> start], 0)
    OBVIOUS
  <2> QED BY <2>1
<1>2. ASSUME NEW n \in Nat, n \in S PROVE n + 1 \in S
  <2>1. PICK f : Ok(f, n)
    BY <1>2
  <2> DEFINE g == [k \in 0 .. n + 1 |-> IF k <= n THEN f[k] ELSE step[<<n + 1, f[n]>>]]
  <2>2. f[n] \in X /\ step[<<n + 1, f[n]>>] \in X
    BY <2>1
  <2>3. g \in [0 .. n + 1 -> X] /\ g[0] = start
    BY <2>1, <2>2
  <2>4. ASSUME NEW k \in 1 .. n + 1 PROVE g[k] = step[<<k, g[k - 1]>>]
    <3>1. CASE k <= n
      <4>1. k \in 1 .. n /\ k \in 0 .. n + 1 /\ k - 1 \in 0 .. n + 1 /\ k - 1 <= n
        BY <3>1
      <4>2. g[k] = f[k] /\ g[k - 1] = f[k - 1]
        BY <4>1
      <4> QED BY <2>1, <4>1, <4>2
    <3>2. CASE k = n + 1
      <4>1. g[k] = step[<<n + 1, f[n]>>] /\ g[k - 1] = f[n]
        BY <3>2
      <4> QED BY <3>2, <4>1
    <3> QED BY <3>1, <3>2
  <2>5. Ok(g, n + 1)
    BY <2>3, <2>4
  <2> HIDE DEF g, Ok
  <2>6. \E h : Ok(h, n + 1)
    BY <2>5
  <2> QED BY <2>6
<1>3. Nat \subseteq S
  <2> HIDE DEF S
  <2> QED BY <1>1, <1>2, SetInduction
<1> QED BY <1>3

\* Sequences are functions on an interval from one.
LEMMA SequenceOf ==
    ASSUME NEW S, NEW n \in Nat, NEW f \in [1 .. n -> S]
    PROVE  f \in Seq(S) /\ Len(f) = n
OBVIOUS

LEMMA FunctionOf ==
    ASSUME NEW S, NEW s \in Seq(S)
    PROVE  Len(s) \in Nat /\ s \in [1 .. Len(s) -> S]
OBVIOUS

\* The partial concatenations of seqs.
Flats(Z, n, seqs) ==
    {r \in [0 .. n -> Seq(Z)] : r[0] = <<>> /\ \A k \in 1 .. n : r[k] = r[k - 1] \o seqs[k]}

\* What a flattened sequence of sequences has, by numbers: the loop over the rows of a table.
LEMMA FlattenIs ==
    ASSUME NEW Z, NEW n \in Nat, NEW seqs \in [1 .. n -> Seq(Z)]
    PROVE  \E r \in Flats(Z, n, seqs) : FlattenSeq(seqs) = r[n]
<1> DEFINE X == Seq(Z)
           step == [q \in Nat \X X |-> IF q[1] \in 1 .. n THEN q[2] \o seqs[q[1]] ELSE <<>>]
           At(g) == g = [i \in 1 .. n |-> IF i = 1 THEN seqs[i] ELSE g[i - 1] \o seqs[i]]
           at == CHOOSE g : At(g)
<1>1. <<>> \in X /\ step \in Steps(X)
  <2>1. <<>> \in X
    OBVIOUS
  <2>2. ASSUME NEW q \in Nat \X X
        PROVE  (IF q[1] \in 1 .. n THEN q[2] \o seqs[q[1]] ELSE <<>>) \in X
    <3>1. q[1] \in 1 .. n => seqs[q[1]] \in X
      OBVIOUS
    <3>2. q[2] \in X
      OBVIOUS
    <3> QED BY <2>1, <3>1, <3>2, ConcatProperties
  <2> HIDE DEF X
  <2> QED BY <2>1, <2>2 DEF Steps
<1>2. PICK f : f \in Runs(X, <<>>, step, n)
  <2> HIDE DEF step, X
  <2> QED BY <1>1, PrimitiveRecursion
<1>3. f \in [0 .. n -> X] /\ f[0] = <<>> /\ \A k \in 1 .. n : f[k] = f[k - 1] \o seqs[k]
  <2> HIDE DEF X
  <2>1. f \in [0 .. n -> X] /\ f[0] = <<>> /\ \A k \in 1 .. n : f[k] = step[<<k, f[k - 1]>>]
    BY <1>2 DEF Runs
  <2>2. ASSUME NEW k \in 1 .. n PROVE step[<<k, f[k - 1]>>] = f[k - 1] \o seqs[k]
    <3>1. <<k, f[k - 1]>> \in Nat \X X
      BY <2>1
    <3> QED BY <3>1
  <2> QED BY <2>1, <2>2
<1>4. f \in Flats(Z, n, seqs)
  BY <1>3 DEF Flats
<1>5. Len(seqs) = n
  BY SequenceOf
<1>6. CASE n = 0
  <2>1. FlattenSeq(seqs) = seqs
    BY <1>5, <1>6 DEF FlattenSeq
  <2>2. seqs = <<>>
    BY <1>6
  <2> QED BY <1>3, <1>4, <1>6, <2>1, <2>2
<1>7. CASE n # 0
  <2> DEFINE h == [i \in 1 .. n |-> f[i]]
  <2>1. At(h)
    <3>1. \A i \in 1 .. n : i # 1 => i - 1 \in 1 .. n
      OBVIOUS
    <3>2. 1 \in 1 .. n /\ 1 - 1 = 0
      BY <1>7
    <3>3. f[1] = seqs[1]
      <4>1. f[1] = f[0] \o seqs[1] /\ seqs[1] \in X
        BY <1>3, <3>2
      <4>2. <<>> \o seqs[1] = seqs[1]
        BY <4>1, ConcatEmptySeq
      <4> QED BY <1>3, <4>1, <4>2
    <3>4. \A i \in 1 .. n : f[i] = IF i = 1 THEN seqs[i] ELSE h[i - 1] \o seqs[i]
      BY <1>3, <3>1, <3>3
    <3> QED BY <3>4
  <2>2. At(at)
    <3> HIDE DEF At, h
    <3> QED BY <2>1
  <2>3. FlattenSeq(seqs) = at[n]
    BY <1>5, <1>7 DEF FlattenSeq
  <2> HIDE DEF at
  <2> DEFINE S == {k \in Nat : k \in 1 .. n => at[k] = f[k]}
  <2>4. Nat \subseteq S
    <3>1. 0 \in S
      OBVIOUS
    <3>2. ASSUME NEW k \in Nat, k \in S PROVE k + 1 \in S
      <4> SUFFICES ASSUME k + 1 \in 1 .. n PROVE at[k + 1] = f[k + 1]
        OBVIOUS
      <4>1. (k + 1) - 1 = k
        OBVIOUS
      <4>2. at[k + 1] = IF k + 1 = 1 THEN seqs[k + 1] ELSE at[k] \o seqs[k + 1]
        BY <2>2, <4>1
      <4>3. h[k + 1] = IF k + 1 = 1 THEN seqs[k + 1] ELSE h[k] \o seqs[k + 1]
        <5> HIDE DEF h
        <5> QED BY <2>1, <4>1
      <4>4. h[k + 1] = f[k + 1] /\ (k + 1 # 1 => k \in 1 .. n /\ h[k] = f[k] /\ at[k] = f[k])
        BY <3>2
      <4> HIDE DEF h
      <4> QED BY <4>2, <4>3, <4>4
    <3> HIDE DEF S
    <3> QED BY <3>1, <3>2, SetInduction
  <2>5. at[n] = f[n]
    BY <1>7, <2>4
  <2> QED BY <1>4, <2>3, <2>5
<1> QED BY <1>6, <1>7

\* One more sequence goes behind the others.
\* The elements of a sequence, and a sequence that has each of them once.
Elements(s) == {s[i] : i \in 1 .. Len(s)}
Once(s) == \A i, j \in 1 .. Len(s) : s[i] = s[j] => i = j

LEMMA ElementsType ==
    ASSUME NEW Z, NEW s \in Seq(Z)
    PROVE  Elements(s) \in SUBSET Z
<1>1. s \in [1 .. Len(s) -> Z]
  BY FunctionOf
<1> QED BY <1>1 DEF Elements

LEMMA ConcatElements ==
    ASSUME NEW Z, NEW s \in Seq(Z), NEW t \in Seq(Z)
    PROVE  Elements(s \o t) = Elements(s) \cup Elements(t)
<1>1. /\ Len(s) \in Nat /\ Len(t) \in Nat
      /\ Len(s \o t) = Len(s) + Len(t)
  BY ConcatProperties, FunctionOf
<1>2. \A i \in 1 .. Len(s) + Len(t) : (s \o t)[i] = IF i <= Len(s) THEN s[i] ELSE t[i - Len(s)]
  BY ConcatProperties
<1>3. ASSUME NEW e \in Elements(s \o t) PROVE e \in Elements(s) \cup Elements(t)
  <2>1. PICK i \in 1 .. Len(s) + Len(t) : e = (s \o t)[i]
    BY <1>1, <1>3 DEF Elements
  <2>2. CASE i <= Len(s)
    <3>1. i \in 1 .. Len(s) /\ e = s[i]
      BY <1>1, <1>2, <2>1, <2>2
    <3> QED BY <3>1 DEF Elements
  <2>3. CASE ~(i <= Len(s))
    <3>1. i - Len(s) \in 1 .. Len(t) /\ e = t[i - Len(s)]
      BY <1>1, <1>2, <2>1, <2>3
    <3> QED BY <3>1 DEF Elements
  <2> QED BY <2>2, <2>3
<1>4. ASSUME NEW e \in Elements(s) PROVE e \in Elements(s \o t)
  <2>1. PICK i \in 1 .. Len(s) : e = s[i]
    BY <1>4 DEF Elements
  <2>2. i \in 1 .. Len(s \o t) /\ e = (s \o t)[i]
    BY <1>1, <1>2, <2>1
  <2> QED BY <2>2 DEF Elements
<1>5. ASSUME NEW e \in Elements(t) PROVE e \in Elements(s \o t)
  <2>1. PICK i \in 1 .. Len(t) : e = t[i]
    BY <1>5 DEF Elements
  <2>2. i + Len(s) \in 1 .. Len(s \o t) /\ ~(i + Len(s) <= Len(s)) /\ (i + Len(s)) - Len(s) = i
    BY <1>1
  <2>3. e = (s \o t)[i + Len(s)]
    BY <1>1, <1>2, <2>1, <2>2
  <2> QED BY <2>2, <2>3 DEF Elements
<1> QED BY <1>3, <1>4, <1>5

LEMMA ConcatOnce ==
    ASSUME NEW Z, NEW s \in Seq(Z), NEW t \in Seq(Z), Once(s), Once(t), Elements(s) \cap Elements(t) = {}
    PROVE  Once(s \o t)
<1>1. /\ Len(s) \in Nat /\ Len(t) \in Nat
      /\ Len(s \o t) = Len(s) + Len(t)
  BY ConcatProperties, FunctionOf
<1>2. \A i \in 1 .. Len(s) + Len(t) : (s \o t)[i] = IF i <= Len(s) THEN s[i] ELSE t[i - Len(s)]
  BY ConcatProperties
<1>3. \A i \in 1 .. Len(s), j \in 1 .. Len(t) : s[i] # t[j]
  BY DEF Elements
<1> SUFFICES ASSUME NEW i \in 1 .. Len(s) + Len(t), NEW j \in 1 .. Len(s) + Len(t), (s \o t)[i] = (s \o t)[j]
             PROVE  i = j
  BY <1>1 DEF Once
<1>4. CASE i <= Len(s) /\ j <= Len(s)
  <2>1. i \in 1 .. Len(s) /\ j \in 1 .. Len(s) /\ s[i] = s[j]
    BY <1>1, <1>2, <1>4
  <2> QED BY <2>1 DEF Once
<1>5. CASE i <= Len(s) /\ ~(j <= Len(s))
  <2>1. i \in 1 .. Len(s) /\ j - Len(s) \in 1 .. Len(t) /\ s[i] = t[j - Len(s)]
    BY <1>1, <1>2, <1>5
  <2> QED BY <1>3, <2>1
<1>6. CASE ~(i <= Len(s)) /\ j <= Len(s)
  <2>1. j \in 1 .. Len(s) /\ i - Len(s) \in 1 .. Len(t) /\ s[j] = t[i - Len(s)]
    BY <1>1, <1>2, <1>6
  <2> QED BY <1>3, <2>1
<1>7. CASE ~(i <= Len(s)) /\ ~(j <= Len(s))
  <2>1. i - Len(s) \in 1 .. Len(t) /\ j - Len(s) \in 1 .. Len(t) /\ t[i - Len(s)] = t[j - Len(s)]
    BY <1>1, <1>2, <1>7
  <2>2. i - Len(s) = j - Len(s)
    BY <2>1 DEF Once
  <2> QED BY <1>1, <2>2
<1> QED BY <1>4, <1>5, <1>6, <1>7

\* Parts that have nothing in common, put behind each other.
LEMMA FlattenParts ==
    ASSUME NEW Z, NEW n \in Nat, NEW seqs \in [1 .. n -> Seq(Z)],
           \A i \in 1 .. n : Once(seqs[i]),
           \A i, j \in 1 .. n : i # j => Elements(seqs[i]) \cap Elements(seqs[j]) = {}
    PROVE  /\ FlattenSeq(seqs) \in Seq(Z) /\ Once(FlattenSeq(seqs))
           /\ Elements(FlattenSeq(seqs)) = UNION {Elements(seqs[i]) : i \in 1 .. n}
<1> DEFINE Some(k) == UNION {Elements(seqs[i]) : i \in 1 .. k}
           Ok(r, k) == r \in Seq(Z) /\ Once(r) /\ Elements(r) = Some(k)
<1>1. PICK r \in Flats(Z, n, seqs) : FlattenSeq(seqs) = r[n]
  BY FlattenIs
<1>2. r \in [0 .. n -> Seq(Z)] /\ r[0] = <<>> /\ \A k \in 1 .. n : r[k] = r[k - 1] \o seqs[k]
  BY <1>1 DEF Flats
<1> DEFINE S == {k \in Nat : k <= n => Ok(r[k], k)}
<1>3. 0 \in S
  <2>1. <<>> \in Seq(Z) /\ Once(<<>>) /\ Elements(<<>>) = {}
    BY DEF Once, Elements
  <2>2. Some(0) = {}
    OBVIOUS
  <2> QED BY <1>2, <2>1, <2>2
<1>4. ASSUME NEW k \in Nat, k \in S PROVE k + 1 \in S
  <2> SUFFICES ASSUME k + 1 <= n PROVE Ok(r[k + 1], k + 1)
    OBVIOUS
  <2>1. Ok(r[k], k) /\ k + 1 \in 1 .. n /\ (k + 1) - 1 = k
    BY <1>4
  <2>2. PICK x \in Seq(Z) : x = seqs[k + 1]
    BY <2>1
  <2>3. r[k + 1] = r[k] \o x /\ r[k] \in Seq(Z) /\ Once(x)
    BY <1>2, <2>1, <2>2
  <2>4. Some(k + 1) = Some(k) \cup Elements(x)
    <3>1. 1 .. k + 1 = (1 .. k) \cup {k + 1}
      OBVIOUS
    <3> QED BY <2>2, <3>1
  <2>5. Some(k) \cap Elements(x) = {}
    <3> SUFFICES ASSUME NEW i \in 1 .. k PROVE Elements(seqs[i]) \cap Elements(x) = {}
      OBVIOUS
    <3>1. i \in 1 .. n /\ i # k + 1
      BY <2>1
    <3> QED BY <2>1, <2>2, <3>1
  <2>6. r[k + 1] \in Seq(Z)
    BY <2>3, ConcatProperties
  <2> HIDE DEF Some
  <2>7. Elements(r[k + 1]) = Some(k + 1)
    <3>1. PICK y \in Seq(Z) : y = r[k]
      BY <2>3
    <3>2. Elements(y \o x) = Elements(y) \cup Elements(x)
      BY ConcatElements
    <3> QED BY <2>1, <2>3, <2>4, <3>1, <3>2
  <2>8. Once(r[k + 1])
    BY <2>1, <2>3, <2>5, ConcatOnce
  <2> QED BY <2>6, <2>7, <2>8
<1>5. Nat \subseteq S
  <2> HIDE DEF S
  <2> QED BY <1>3, <1>4, SetInduction
<1>6. Ok(r[n], n)
  <2> HIDE DEF Ok
  <2> QED BY <1>5
<1> QED BY <1>1, <1>6

-----------------------------------------------------------------------------
\* The items a configuration has, and the cells of its buckets.
Kinds == Tree!Variables \cup {Scope}
Cell == [name : Names, item : Kinds]
CellsOf(s) == {s[j] : j \in 1 .. Len(s)}
Distinct(s) == \A i, j \in 1 .. Len(s) : s[i].name = s[j].name => i = j
Rows(n) == [0 .. n - 1 -> Seq(Cell)]

\* Each cell is in the bucket of its name, and no bucket has a name twice.
Placed(b, n) ==
    /\ b \in Rows(n)
    /\ \A i \in 0 .. n - 1 : Distinct(b[i])
    /\ \A i \in 0 .. n - 1 : \A e \in CellsOf(b[i]) : Hash(e.name, n) = i
Content(b, n) == UNION {CellsOf(b[i]) : i \in 0 .. n - 1}
NamesIn(C) == {e.name : e \in C}

\* A variable is no scope, and no item is the item of a missing entry.
LEMMA KindsAre ==
    ASSUME NEW k \in Kinds
    PROVE  /\ k # NoItem
           /\ k # Scope <=> k \in Tree!Variables
           /\ k.type \in VariableTypes <=> k \in Tree!Variables
<1>1. CASE k = Scope
  <2>1. k.type = "scope"
    BY <1>1 DEF Scope
  <2>2. NoItem.type = "none" 
    BY DEF NoItem
  <2>3. \A v \in Tree!Variables : v.type \in {"string", "list"}
    BY DEF Tree!Variables, Tree!StringItem, Tree!ListItem
  <2> QED BY <1>1, <2>1, <2>2, <2>3 DEF VariableTypes
<1>2. CASE k \in Tree!Variables
  <2>1. k.type \in {"string", "list"}
    BY <1>2 DEF Tree!Variables, Tree!StringItem, Tree!ListItem
  <2>2. NoItem.type = "none" /\ Scope.type = "scope"
    BY DEF NoItem, Scope
  <2> QED BY <1>2, <2>1, <2>2 DEF VariableTypes
<1> QED BY <1>1, <1>2 DEF Kinds

LEMMA NoItemIs == NoItem # Scope /\ NoItem.type \notin VariableTypes /\ NoItem \notin Kinds /\ Scope \in Kinds
<1>1. NoItem.type = "none" /\ Scope.type = "scope"
  BY DEF NoItem, Scope
<1>2. NoItem \notin Kinds
  BY KindsAre
<1>3. Scope \in Kinds
  BY DEF Kinds
<1> QED BY <1>1, <1>2, <1>3 DEF VariableTypes

\* A hash is an index of the table, whatever the characters of the name.
LEMMA HashType ==
    ASSUME NEW name \in Names, NEW n \in Nat \ {0}
    PROVE  Hash(name, n) \in 0 .. n - 1
<1> DEFINE codes == CodesOf(name)
           L == Len(codes)
           X == 0 .. n - 1
           first == 5381 % n
           mix(x, k) == (x * 33 + codes[k]) % n
           At(g) == g = [k \in 0 .. L |-> IF k = 0 THEN first ELSE mix(g[k - 1], k)]
           at == CHOOSE g : At(g)
           step == [q \in Nat \X X |-> IF q[1] \in 1 .. L THEN mix(q[2], q[1]) ELSE first]
<1>1. codes \in Seq(Nat) /\ L \in Nat
  <2>1. codes \in Seq(Nat)
    <3>1. codes \in Seq(Nat \ {Dot})
      BY NamesAssumption
    <3> HIDE DEF codes
    <3> QED BY <3>1
  <2> HIDE DEF codes
  <2> QED BY <2>1, FunctionOf
<1>2. Hash(name, n) = at[L]
  BY DEF Hash
<1> HIDE DEF at
<1>3. first \in X
  OBVIOUS
<1>4. ASSUME NEW x \in X, NEW k \in 1 .. L PROVE mix(x, k) \in X
  <2> HIDE DEF codes
  <2>1. codes[k] \in Nat
    BY <1>1
  <2>2. x * 33 + codes[k] \in Nat
    BY <2>1
  <2> QED BY <2>2
<1> HIDE DEF codes, L, X, first, mix
<1>5. step \in Steps(X)
  <2>1. ASSUME NEW q \in Nat \X X
        PROVE  (IF q[1] \in 1 .. L THEN mix(q[2], q[1]) ELSE first) \in X
    <3>1. q[2] \in X
      OBVIOUS
    <3> QED BY <1>3, <1>4, <3>1
  <2> QED BY <2>1 DEF Steps
<1>6. PICK f : f \in Runs(X, first, step, L)
  <2> HIDE DEF step
  <2> QED BY <1>1, <1>3, <1>5, PrimitiveRecursion
<1>7. f \in [0 .. L -> X] /\ f[0] = first /\ \A k \in 1 .. L : f[k] = step[<<k, f[k - 1]>>]
  <2> HIDE DEF step
  <2> QED BY <1>6 DEF Runs
<1>8. \A k \in 1 .. L : f[k] = mix(f[k - 1], k)
  <2> SUFFICES ASSUME NEW k \in 1 .. L PROVE f[k] = mix(f[k - 1], k)
    OBVIOUS
  <2>1. f[k - 1] \in X /\ k \in Nat
    BY <1>1, <1>7
  <2>2. <<k, f[k - 1]>> \in Nat \X X
    BY <2>1
  <2>3. step[<<k, f[k - 1]>>] = mix(f[k - 1], k)
    BY <2>2
  <2> QED BY <1>7, <2>3
<1>9. At(f)
  <2> HIDE DEF step
  <2>1. f = [k \in 0 .. L |-> f[k]]
    BY <1>7
  <2>2. \A k \in 0 .. L : f[k] = IF k = 0 THEN first ELSE mix(f[k - 1], k)
    <3>1. \A k \in 0 .. L : k # 0 => k \in 1 .. L
      BY <1>1
    <3> QED BY <1>7, <1>8, <3>1
  <2> QED BY <2>1, <2>2
<1>10. At(at)
  <2> HIDE DEF At
  <2> QED BY <1>9 DEF at
<1>11. \A k \in 0 .. L : at[k] \in X
  <2> DEFINE S == {k \in Nat : k <= L => at[k] \in X}
  <2>1. 0 \in S
    <3>1. 0 \in 0 .. L
      BY <1>1
    <3>2. at[0] = first
      BY <1>10, <3>1
    <3> QED BY <1>3, <3>2
  <2>2. ASSUME NEW k \in Nat, k \in S PROVE k + 1 \in S
    <3> SUFFICES ASSUME k + 1 <= L PROVE at[k + 1] \in X
      OBVIOUS
    <3>1. at[k] \in X /\ k + 1 \in 0 .. L /\ k + 1 \in 1 .. L /\ k + 1 # 0 /\ (k + 1) - 1 = k
      BY <1>1, <2>2
    <3>2. at[k + 1] = mix(at[k], k + 1)
      BY <1>10, <3>1
    <3> QED BY <1>4, <3>1, <3>2
  <2>3. Nat \subseteq S
    <3> HIDE DEF S
    <3> QED BY <2>1, <2>2, SetInduction
  <2> QED BY <1>1, <2>3
<1>12. L \in 0 .. L
  BY <1>1
<1> QED BY <1>2, <1>11, <1>12 DEF X

\* Each cell of a row is one the table may hold.
LEMMA CellsAre ==
    ASSUME NEW s \in Seq(Cell)
    PROVE  CellsOf(s) \in SUBSET Cell
<1>1. s \in [1 .. Len(s) -> Cell]
  BY FunctionOf
<1> QED BY <1>1 DEF CellsOf

\* A concatenation has the cells of both parts.
LEMMA ConcatCells ==
    ASSUME NEW s \in Seq(Cell), NEW t \in Seq(Cell)
    PROVE  CellsOf(s \o t) = CellsOf(s) \cup CellsOf(t)
<1>1. Elements(s \o t) = Elements(s) \cup Elements(t)
  BY ConcatElements
<1> QED BY <1>1 DEF CellsOf, Elements

\* Concatenations of sequences without a common name have each name once.
LEMMA ConcatDistinct ==
    ASSUME NEW s \in Seq(Cell), NEW t \in Seq(Cell), Distinct(s), Distinct(t),
           \A e \in CellsOf(s), d \in CellsOf(t) : e.name # d.name
    PROVE  Distinct(s \o t)
<1>1. /\ Len(s) \in Nat /\ Len(t) \in Nat
      /\ Len(s \o t) = Len(s) + Len(t)
  BY ConcatProperties, FunctionOf
<1>2. \A i \in 1 .. Len(s) + Len(t) : (s \o t)[i] = IF i <= Len(s) THEN s[i] ELSE t[i - Len(s)]
  BY ConcatProperties
<1>3. \A i \in 1 .. Len(s), j \in 1 .. Len(t) : s[i].name # t[j].name
  BY DEF CellsOf
<1> SUFFICES ASSUME NEW i \in 1 .. Len(s) + Len(t), NEW j \in 1 .. Len(s) + Len(t),
                    (s \o t)[i].name = (s \o t)[j].name
             PROVE  i = j
  BY <1>1 DEF Distinct
<1>4. CASE i <= Len(s) /\ j <= Len(s)
  <2>1. i \in 1 .. Len(s) /\ j \in 1 .. Len(s) /\ s[i].name = s[j].name
    BY <1>1, <1>2, <1>4
  <2> QED BY <2>1 DEF Distinct
<1>5. CASE i <= Len(s) /\ ~(j <= Len(s))
  <2>1. i \in 1 .. Len(s) /\ j - Len(s) \in 1 .. Len(t) /\ s[i].name = t[j - Len(s)].name
    BY <1>1, <1>2, <1>5
  <2> QED BY <1>3, <2>1
<1>6. CASE ~(i <= Len(s)) /\ j <= Len(s)
  <2>1. j \in 1 .. Len(s) /\ i - Len(s) \in 1 .. Len(t) /\ s[j].name = t[i - Len(s)].name
    BY <1>1, <1>2, <1>6
  <2> QED BY <1>3, <2>1
<1>7. CASE ~(i <= Len(s)) /\ ~(j <= Len(s))
  <2>1. i - Len(s) \in 1 .. Len(t) /\ j - Len(s) \in 1 .. Len(t) /\ t[i - Len(s)].name = t[j - Len(s)].name
    BY <1>1, <1>2, <1>7
  <2>2. i - Len(s) = j - Len(s)
    BY <2>1 DEF Distinct
  <2> QED BY <1>1, <2>2
<1> QED BY <1>4, <1>5, <1>6, <1>7

\* A sequence in which each name is once has as many names as elements.
LEMMA CountIs ==
    ASSUME NEW s \in Seq(Cell), Distinct(s)
    PROVE  IsFiniteSet(NamesIn(CellsOf(s))) /\ Cardinality(NamesIn(CellsOf(s))) = Len(s)
<1> DEFINE f == [i \in 1 .. Len(s) |-> s[i].name]
           N == NamesIn(CellsOf(s))
<1>1. Len(s) \in Nat
  BY FunctionOf
<1>2. f \in [1 .. Len(s) -> N]
  BY DEF NamesIn, CellsOf
<1>3. \A i, j \in 1 .. Len(s) : f[i] = f[j] => i = j
  BY DEF Distinct
<1>4. \A m \in N : \E i \in 1 .. Len(s) : f[i] = m
  BY DEF NamesIn, CellsOf
<1> HIDE DEF f, N
<1>5. f \in Bijection(1 .. Len(s), N)
  BY <1>2, <1>3, <1>4 DEF Bijection, Injection, Surjection, IsInjective
<1>6. ExistsBijection(1 .. Len(s), N)
  BY <1>5 DEF ExistsBijection
<1>7. IsFiniteSet(1 .. Len(s)) /\ Cardinality(1 .. Len(s)) = Len(s)
  <2>1. 1 \in Int /\ Len(s) \in Int /\ (1 > Len(s) => Len(s) = 0) /\ Len(s) - 1 + 1 = Len(s)
    BY <1>1
  <2>2. IsFiniteSet(1 .. Len(s))
    BY <2>1, FS_Interval
  <2>3. Cardinality(1 .. Len(s)) = IF 1 > Len(s) THEN 0 ELSE Len(s) - 1 + 1
    BY <2>1, FS_Interval
  <2> QED BY <2>1, <2>2, <2>3
<1>8. IsFiniteSet(N) /\ Cardinality(N) = Cardinality(1 .. Len(s))
  BY <1>6, <1>7, FS_Bijection
<1> QED BY <1>7, <1>8 DEF N

\* Two cells of a table with the same name are the same cell.
LEMMA PlacedUnique ==
    ASSUME NEW n \in Nat \ {0}, NEW b, Placed(b, n),
           NEW i \in 0 .. n - 1, NEW j \in 0 .. n - 1,
           NEW e \in CellsOf(b[i]), NEW d \in CellsOf(b[j]), e.name = d.name
    PROVE  e = d /\ i = Hash(e.name, n) /\ j = i
<1>1. i = Hash(e.name, n) /\ j = Hash(d.name, n)
  BY DEF Placed
<1>2. i = j
  BY <1>1
<1>3. PICK x \in 1 .. Len(b[i]) : e = b[i][x]
  BY DEF CellsOf
<1>4. PICK y \in 1 .. Len(b[i]) : d = b[i][y]
  BY <1>2 DEF CellsOf
<1>5. x = y
  BY <1>3, <1>4 DEF Placed, Distinct
<1> QED BY <1>1, <1>2, <1>3, <1>4, <1>5

\* The entries of the whole table: each of its cells, each name once.
Spread(b, n) == FlattenSeq([i \in 1 .. n |-> b[i - 1]])
LEMMA SpreadIs ==
    ASSUME NEW n \in Nat \ {0}, NEW b, Placed(b, n)
    PROVE  Spread(b, n) \in Seq(Cell) /\ Distinct(Spread(b, n)) /\ CellsOf(Spread(b, n)) = Content(b, n)
<1> DEFINE seqs == [i \in 1 .. n |-> b[i - 1]]
           Some(k) == UNION {CellsOf(b[i]) : i \in 0 .. k - 1}
           Ok(r, k) == r \in Seq(Cell) /\ Distinct(r) /\ CellsOf(r) = Some(k)
<1>1. b \in Rows(n) /\ \A i \in 0 .. n - 1 : b[i] \in Seq(Cell)
  BY DEF Placed, Rows
<1>2. seqs \in [1 .. n -> Seq(Cell)] /\ \A k \in 1 .. n : seqs[k] = b[k - 1] /\ k - 1 \in 0 .. n - 1
  <2>1. \A i \in 1 .. n : i - 1 \in 0 .. n - 1
    OBVIOUS
  <2> QED BY <1>1, <2>1
<1> HIDE DEF seqs
<1>3. PICK r \in Flats(Cell, n, seqs) : FlattenSeq(seqs) = r[n]
  BY <1>2, FlattenIs
<1>4. r \in [0 .. n -> Seq(Cell)] /\ r[0] = <<>> /\ \A k \in 1 .. n : r[k] = r[k - 1] \o seqs[k]
  BY <1>3 DEF Flats
<1> DEFINE S == {k \in Nat : k <= n => Ok(r[k], k)}
<1>5. 0 \in S
  <2>1. <<>> \in Seq(Cell) /\ Distinct(<<>>) /\ CellsOf(<<>>) = {}
    BY DEF Distinct, CellsOf
  <2>2. Some(0) = {}
    OBVIOUS
  <2> QED BY <1>4, <2>1, <2>2
<1>6. ASSUME NEW k \in Nat, k \in S PROVE k + 1 \in S
  <2> SUFFICES ASSUME k + 1 <= n PROVE Ok(r[k + 1], k + 1)
    OBVIOUS
  <2>1. Ok(r[k], k) /\ k \in 0 .. n - 1 /\ k + 1 \in 1 .. n /\ (k + 1) - 1 = k
    BY <1>6
  <2>2. r[k + 1] = r[k] \o b[k] /\ b[k] \in Seq(Cell) /\ r[k] \in Seq(Cell)
    BY <1>1, <1>2, <1>4, <2>1
  <2>3. Some(k + 1) = Some(k) \cup CellsOf(b[k])
    <3>1. 0 .. (k + 1) - 1 = (0 .. k - 1) \cup {k}
      OBVIOUS
    <3> QED BY <3>1
  <2>4. Distinct(b[k])
    BY <2>1 DEF Placed
  <2>5. \A e \in CellsOf(r[k]), d \in CellsOf(b[k]) : e.name # d.name
    <3> SUFFICES ASSUME NEW e \in CellsOf(r[k]), NEW d \in CellsOf(b[k]), e.name = d.name PROVE FALSE
      OBVIOUS
    <3>1. PICK i \in 0 .. k - 1 : e \in CellsOf(b[i])
      BY <2>1
    <3>2. i \in 0 .. n - 1 /\ i # k
      BY <2>1, <3>1
    <3>3. k = i
      BY <2>1, <3>1, <3>2, PlacedUnique
    <3> QED BY <3>2, <3>3
  <2>6. r[k + 1] \in Seq(Cell)
    BY <2>2, ConcatProperties
  <2>7. CellsOf(r[k + 1]) = Some(k + 1)
    <3> HIDE DEF Some
    <3> QED BY <2>1, <2>2, <2>3, ConcatCells
  <2>8. Distinct(r[k + 1])
    <3> HIDE DEF Some
    <3> QED BY <2>1, <2>2, <2>4, <2>5, ConcatDistinct
  <2> HIDE DEF Some
  <2> QED BY <2>6, <2>7, <2>8
<1>7. Nat \subseteq S
  <2> HIDE DEF S
  <2> QED BY <1>5, <1>6, SetInduction
<1>8. Ok(r[n], n)
  <2> HIDE DEF Ok
  <2> QED BY <1>7
<1>9. Spread(b, n) = r[n]
  BY <1>3 DEF Spread, seqs
<1> QED BY <1>8, <1>9 DEF Content

\* A cell is put at the head of its bucket.
LEMMA HeadIs ==
    ASSUME NEW n \in Nat \ {0}, NEW b, Placed(b, n),
           NEW e \in Cell, e.name \notin NamesIn(Content(b, n)),
           NEW c, c = [b EXCEPT ![Hash(e.name, n)] = <<e>> \o @]
    PROVE  Placed(c, n) /\ Content(c, n) = Content(b, n) \cup {e}
<1> DEFINE h == Hash(e.name, n)
<1>1. h \in 0 .. n - 1
  BY HashType DEF Cell
<1>2. b \in Rows(n) /\ \A i \in 0 .. n - 1 : b[i] \in Seq(Cell)
  BY DEF Placed, Rows
<1>3. c = [i \in 0 .. n - 1 |-> IF i = h THEN <<e>> \o b[i] ELSE b[i]]
  BY <1>1, <1>2 DEF Rows
<1> HIDE DEF h
<1>4. <<e>> \in Seq(Cell) /\ Distinct(<<e>>) /\ CellsOf(<<e>>) = {e}
  BY DEF Distinct, CellsOf
<1>5. <<e>> \o b[h] \in Seq(Cell) /\ CellsOf(<<e>> \o b[h]) = {e} \cup CellsOf(b[h])
  BY <1>1, <1>2, <1>4, ConcatCells, ConcatProperties
<1>6. \A d \in CellsOf(b[h]) : e.name # d.name
  BY <1>1 DEF NamesIn, Content
<1>7. Distinct(<<e>> \o b[h])
  <2>1. Distinct(b[h])
    BY <1>1 DEF Placed
  <2> QED BY <1>1, <1>2, <1>4, <1>6, <2>1, ConcatDistinct
<1>8. c \in Rows(n)
  BY <1>2, <1>3, <1>5 DEF Rows
<1>9. \A i \in 0 .. n - 1 : Distinct(c[i])
  BY <1>3, <1>7 DEF Placed
<1>10. \A i \in 0 .. n - 1 : \A d \in CellsOf(c[i]) : Hash(d.name, n) = i
  BY <1>3, <1>5 DEF Placed, h
<1>11. Content(c, n) = Content(b, n) \cup {e}
  <2>0. CellsOf(c[h]) = {e} \cup CellsOf(b[h])
    BY <1>1, <1>3, <1>5
  <2>1. \A i \in 0 .. n - 1 : i # h => CellsOf(c[i]) = CellsOf(b[i])
    BY <1>3
  <2>2. e \in CellsOf(c[h])
    BY <2>0
  <2>3. ASSUME NEW d \in Content(c, n) PROVE d \in Content(b, n) \cup {e}
    <3>1. PICK i \in 0 .. n - 1 : d \in CellsOf(c[i])
      BY <2>3 DEF Content
    <3>2. d \in CellsOf(b[i]) \cup {e}
      BY <2>0, <2>1, <3>1
    <3> QED BY <3>2 DEF Content
  <2>4. ASSUME NEW d \in Content(b, n) PROVE d \in Content(c, n)
    <3>1. PICK i \in 0 .. n - 1 : d \in CellsOf(b[i])
      BY <2>4 DEF Content
    <3>2. d \in CellsOf(c[i])
      BY <2>0, <2>1, <3>1
    <3> QED BY <3>2 DEF Content
  <2>5. e \in Content(c, n)
    BY <1>1, <2>2 DEF Content
  <2> QED BY <2>3, <2>4, <2>5
<1> QED BY <1>8, <1>9, <1>10, <1>11 DEF Placed

\* The buckets of a table without entries.
EmptyRows(n) == [i \in 0 .. n - 1 |-> <<>>]
\* The rows of a new table hold nothing.
LEMMA EmptyRowsAre ==
    ASSUME NEW n \in Nat \ {0}
    PROVE  Placed(EmptyRows(n), n) /\ Content(EmptyRows(n), n) = {}
<1>1. <<>> \in Seq(Cell) /\ Distinct(<<>>) /\ CellsOf(<<>>) = {}
  BY DEF Distinct, CellsOf
<1>2. EmptyRows(n) \in Rows(n) /\ \A i \in 0 .. n - 1 : EmptyRows(n)[i] = <<>>
  BY <1>1 DEF EmptyRows, Rows
<1>3. Placed(EmptyRows(n), n)
  BY <1>1, <1>2 DEF Placed
<1>4. Content(EmptyRows(n), n) = {}
  BY <1>1, <1>2 DEF Content
<1> QED BY <1>3, <1>4

\* The number of buckets of a table.
LEMMA SizeIs ==
    ASSUME NEW n \in Nat \ {0}, NEW t, t.buckets \in Rows(n)
    PROVE  Size(t) = n
<1>1. DOMAIN t.buckets = 0 .. n - 1
  BY DEF Rows
<1>2. 0 \in Int /\ n - 1 \in Int /\ ~(0 > n - 1) /\ (n - 1) - 0 + 1 = n
  OBVIOUS
<1>3. Cardinality(0 .. n - 1) = n
  BY <1>2, FS_Interval
<1> QED BY <1>1, <1>3 DEF Size

\* The entries moved to the heads of their new buckets are in a table again.
LEMMA RehashedIs ==
    ASSUME NEW n \in Nat \ {0}, NEW t, Placed(t.buckets, n), t = [buckets |-> t.buckets, count |-> t.count],
           NEW m \in Nat \ {0}
    PROVE  \E c : /\ Rehashed(t, m) = [buckets |-> c, count |-> t.count]
                  /\ Placed(c, m) /\ Content(c, m) = Content(t.buckets, n)
<1> DEFINE all == AllEntries(t)
           L == Len(all)
           step(x, k) == [x EXCEPT ![Hash(all[k].name, m)] = <<all[k]>> \o @]
           first == [i \in 0 .. (m - 1) |-> <<>>]
           At(g, l) == g = [k \in 0 .. l |-> IF k = 0 THEN first ELSE step(g[k - 1], k)]
           at == CHOOSE g : At(g, L)
           Some(k) == {all[j] : j \in 1 .. k}
           Ok(x, k) == Placed(x, m) /\ Content(x, m) = Some(k)
<1>1. Size(t) = n
  BY SizeIs DEF Placed
<1>2. all = Spread(t.buckets, n)
  BY <1>1 DEF AllEntries, Spread
<1>3. all \in Seq(Cell) /\ Distinct(all) /\ CellsOf(all) = Content(t.buckets, n)
  BY <1>2, SpreadIs
<1>4. Rehashed(t, m) = [t EXCEPT !.buckets = at[L]]
  BY DEF Rehashed
<1>5. first = EmptyRows(m)
  BY DEF EmptyRows
<1> HIDE DEF all, first
<1>6. L \in Nat /\ \A k \in 1 .. L : all[k] \in Cell
  BY <1>3, FunctionOf
<1>7. ASSUME NEW k \in Nat, k + 1 <= L, NEW x, Ok(x, k) PROVE Ok(step(x, k + 1), k + 1)
  <2>1. k + 1 \in 1 .. L /\ all[k + 1] \in Cell
    BY <1>6, <1>7
  <2>2. all[k + 1].name \notin NamesIn(Content(x, m))
    <3> SUFFICES ASSUME all[k + 1].name \in NamesIn(Content(x, m)) PROVE FALSE
      OBVIOUS
    <3>1. PICK j \in 1 .. k : all[j].name = all[k + 1].name
      BY <1>7 DEF NamesIn
    <3>2. j \in 1 .. L
      BY <2>1, <3>1, <1>6
    <3>3. j = k + 1
      BY <1>3, <2>1, <3>1, <3>2 DEF Distinct
    <3> QED BY <3>1, <3>3
  <2> DEFINE c == step(x, k + 1)
  <2>3. c = [x EXCEPT ![Hash(all[k + 1].name, m)] = <<all[k + 1]>> \o @]
    OBVIOUS
  <2> HIDE DEF c, step
  <2>0. Placed(x, m) /\ m \in Nat \ {0}
    BY <1>7
  <2>4. Placed(c, m) /\ Content(c, m) = Content(x, m) \cup {all[k + 1]}
    BY <2>0, <2>1, <2>2, <2>3, HeadIs
  <2>5. Some(k + 1) = Some(k) \cup {all[k + 1]}
    <3>1. 1 .. k + 1 = (1 .. k) \cup {k + 1}
      OBVIOUS
    <3> QED BY <3>1
  <2> HIDE DEF Some
  <2> QED BY <1>7, <2>4, <2>5 DEF c
<1>8. Ok(first, 0)
  <2>1. Some(0) = {}
    OBVIOUS
  <2> QED BY <1>5, <2>1, EmptyRowsAre
<1> HIDE DEF L, step, Ok
<1>9. \E g : At(g, L)
  <2> DEFINE S == {l \in Nat : \E g : At(g, l)}
  <2>1. 0 \in S
    <3>1. At([k \in 0 .. 0 |-> first], 0)
      <4>1. \A k \in 0 .. 0 : k = 0
        OBVIOUS
      <4> QED BY <4>1
    <3> HIDE DEF At
    <3> QED BY <3>1
  <2>2. ASSUME NEW l \in Nat, l \in S PROVE l + 1 \in S
    <3>1. PICK g : At(g, l)
      BY <2>2
    <3> DEFINE h == [k \in 0 .. l + 1 |-> IF k <= l THEN g[k] ELSE step(g[l], l + 1)]
    <3>2. ASSUME NEW k \in 0 .. l + 1 PROVE h[k] = IF k = 0 THEN first ELSE step(h[k - 1], k)
      <4>1. CASE k = 0
        <5>1. 0 \in 0 .. l + 1 /\ 0 <= l /\ 0 \in 0 .. l
          OBVIOUS
        <5> QED BY <3>1, <4>1, <5>1
      <4>2. CASE k # 0 /\ k <= l
        <5>1. k \in 0 .. l /\ k - 1 \in 0 .. l + 1 /\ k - 1 <= l
          BY <4>2
        <5>2. h[k] = g[k] /\ h[k - 1] = g[k - 1]
          BY <4>2, <5>1
        <5> HIDE DEF h
        <5> QED BY <3>1, <4>2, <5>1, <5>2
      <4>3. CASE k = l + 1
        <5>1. l \in 0 .. l + 1 /\ l + 1 \in 0 .. l + 1 /\ ~(l + 1 <= l) /\ (l + 1) - 1 = l /\ l + 1 # 0 /\ l <= l
          OBVIOUS
        <5>2. h[l + 1] = step(g[l], l + 1) /\ h[l] = g[l]
          BY <5>1
        <5> HIDE DEF h
        <5> QED BY <4>3, <5>1, <5>2
      <4> QED BY <4>1, <4>2, <4>3
    <3>3. h = [k \in 0 .. l + 1 |-> h[k]]
      OBVIOUS
    <3> HIDE DEF h
    <3>4. At(h, l + 1)
      BY <3>2, <3>3
    <3> HIDE DEF At
    <3> QED BY <3>4
  <2>3. Nat \subseteq S
    <3> HIDE DEF S
    <3> QED BY <2>1, <2>2, SetInduction
  <2> QED BY <1>6, <2>3 DEF L
<1>10. At(at, L)
  <2> HIDE DEF At
  <2> QED BY <1>9
<1> HIDE DEF at
<1> DEFINE S == {k \in Nat : k <= L => Ok(at[k], k)}
<1>11. 0 \in S
  <2>1. 0 \in 0 .. L
    BY <1>6 DEF L
  <2>2. at[0] = first
    BY <1>10, <2>1
  <2> QED BY <1>8, <2>2
<1>12. ASSUME NEW k \in Nat, k \in S PROVE k + 1 \in S
  <2> SUFFICES ASSUME k + 1 <= L PROVE Ok(at[k + 1], k + 1)
    OBVIOUS
  <2>1. L \in Nat
    BY <1>6 DEF L
  <2>2. k <= L /\ k + 1 \in 0 .. L /\ k + 1 # 0 /\ (k + 1) - 1 = k
    BY <2>1
  <2>3. Ok(at[k], k)
    BY <1>12, <2>2
  <2>4. at[k + 1] = step(at[k], k + 1)
    BY <1>10, <2>2
  <2> QED BY <1>7, <2>3, <2>4 DEF L
<1>13. Nat \subseteq S
  <2> HIDE DEF S
  <2> QED BY <1>11, <1>12, SetInduction
<1>14. Ok(at[L], L)
  <2>1. L \in Nat
    BY <1>6 DEF L
  <2> QED BY <1>13, <2>1
<1>15. Some(L) = Content(t.buckets, n)
  BY <1>3 DEF CellsOf, L
<1>16. Rehashed(t, m) = [buckets |-> at[L], count |-> t.count]
  BY <1>4 DEF L
<1> QED BY <1>14, <1>15, <1>16 DEF Ok

\* A sound table: placed entries, their number, and room for another one.
Cont(t) == Content(t.buckets, Size(t))
Well(t) ==
    /\ Size(t) \in Nat \ {0, 1}
    /\ t \in [buckets : Rows(Size(t)), count : Nat]
    /\ Placed(t.buckets, Size(t))
    /\ IsFiniteSet(NamesIn(Cont(t)))
    /\ t.count = Cardinality(NamesIn(Cont(t)))
    /\ t.count * 2 < Size(t)

\* What a table holds are cells.
LEMMA ContentIsCells ==
    ASSUME NEW n \in Nat \ {0}, NEW b, Placed(b, n)
    PROVE  \A e \in Content(b, n) : e \in Cell /\ e.name \in Names /\ e.item \in Kinds
                                    /\ e = Entry(e.name, e.item)
<1> SUFFICES ASSUME NEW e \in Content(b, n)
             PROVE  e \in Cell /\ e.name \in Names /\ e.item \in Kinds /\ e = Entry(e.name, e.item)
  OBVIOUS
<1>1. PICK i \in 0 .. n - 1 : e \in CellsOf(b[i])
  BY DEF Content
<1>2. b[i] \in Seq(Cell)
  BY DEF Placed, Rows
<1>3. e \in Cell
  BY <1>1, <1>2, CellsAre
<1> QED BY <1>3 DEF Cell, Entry

\* The bucket of a name and the place in it, for a name that is in the table.
LEMMA PlaceIs ==
    ASSUME NEW t, Size(t) \in Nat \ {0}, Placed(t.buckets, Size(t)), NEW e \in Cont(t)
    PROVE  /\ e \in CellsOf(Bucket(t, e.name))
           /\ \E x \in 1 .. Len(Bucket(t, e.name)) :
                Places(t, e.name) = {x} /\ FirstPlace(t, e.name) = x /\ Bucket(t, e.name)[x] = e
<1> DEFINE n == Size(t)
           s == Bucket(t, e.name)
<1>1. PICK i \in 0 .. n - 1 : e \in CellsOf(t.buckets[i])
  BY DEF Cont, Content
<1>2. i = Hash(e.name, n)
  BY <1>1 DEF Placed
<1>3. s = t.buckets[i]
  BY <1>2 DEF Bucket
<1>4. s \in Seq(Cell) /\ Distinct(s)
  BY <1>3 DEF Placed, Rows
<1>5. Places(t, e.name) = {j \in DOMAIN s : s[j].name = e.name}
  BY DEF Places
<1> HIDE DEF s
<1>6. PICK x \in 1 .. Len(s) : s[x] = e
  BY <1>1, <1>3 DEF CellsOf
<1>7. DOMAIN s = 1 .. Len(s) /\ Len(s) \in Nat
  BY <1>4
<1>8. Places(t, e.name) = {x}
  BY <1>4, <1>5, <1>6, <1>7 DEF Distinct
<1>9. FirstPlace(t, e.name) = x
  <2>1. \A i1 \in {x} : i1 = x /\ i1 <= x
    BY <1>7
  <2>2. x \in {x} /\ \A j \in {x} : x <= j
    BY <1>7
  <2>3. FirstPlace(t, e.name) = CHOOSE i1 \in {x} : \A j \in {x} : i1 <= j
    BY <1>8 DEF FirstPlace
  <2> QED BY <2>1, <2>2, <2>3
<1>10. e \in CellsOf(s)
  BY <1>1, <1>3
<1> QED BY <1>6, <1>8, <1>9, <1>10 DEF s

\* findEntry finds what is in the table, and nothing else.
LEMMA FindPresent ==
    ASSUME NEW t, Size(t) \in Nat \ {0}, Placed(t.buckets, Size(t)), NEW e \in Cont(t)
    PROVE  Has(t, e.name) /\ FindItem(t, e.name) = e.item
<1>1. PICK x \in 1 .. Len(Bucket(t, e.name)) :
        Places(t, e.name) = {x} /\ FirstPlace(t, e.name) = x /\ Bucket(t, e.name)[x] = e
  BY PlaceIs
<1> QED BY <1>1 DEF Has, FindItem

LEMMA FindAbsent ==
    ASSUME NEW t, Size(t) \in Nat \ {0}, Placed(t.buckets, Size(t)),
           NEW name \in Names, name \notin NamesIn(Cont(t))
    PROVE  ~Has(t, name) /\ FindItem(t, name) = NoItem
<1> DEFINE n == Size(t)
           i == Hash(name, n)
<1>1. i \in 0 .. n - 1
  BY HashType
<1>2. Bucket(t, name) = t.buckets[i]
  BY DEF Bucket
<1> HIDE DEF i
<1>3. t.buckets[i] \in Seq(Cell)
  BY <1>1 DEF Placed, Rows
<1>4. DOMAIN t.buckets[i] = 1 .. Len(t.buckets[i])
  BY <1>3
<1>5. \A j \in 1 .. Len(t.buckets[i]) : t.buckets[i][j] \in Cont(t)
  BY <1>1 DEF Cont, Content, CellsOf
<1>6. Places(t, name) = {}
  BY <1>2, <1>4, <1>5 DEF Places, NamesIn
<1> QED BY <1>6 DEF Has, FindItem

\* The entries of a table are the names findEntry finds, with what it finds.
LEMMA FindType ==
    ASSUME NEW t, Well(t), NEW name \in Names
    PROVE  FindItem(t, name) \in Kinds \cup {NoItem}
<1>1. Size(t) \in Nat \ {0} /\ Placed(t.buckets, Size(t))
  BY DEF Well
<1>2. CASE name \in NamesIn(Cont(t))
  <2>1. PICK e \in Cont(t) : e.name = name
    BY <1>2 DEF NamesIn
  <2>2. FindItem(t, name) = e.item
    BY <1>1, <2>1, FindPresent
  <2>3. e.item \in Kinds
    BY <1>1, ContentIsCells DEF Cont
  <2> QED BY <2>2, <2>3
<1>3. CASE name \notin NamesIn(Cont(t))
  BY <1>1, <1>3, FindAbsent
<1> QED BY <1>2, <1>3

LEMMA FindSome ==
    ASSUME NEW t, Well(t), NEW name \in Names
    PROVE  FindItem(t, name) # NoItem <=> name \in NamesIn(Cont(t))
<1>1. Size(t) \in Nat \ {0} /\ Placed(t.buckets, Size(t))
  BY DEF Well
<1>2. ASSUME name \in NamesIn(Cont(t)) PROVE FindItem(t, name) # NoItem
  <2>1. PICK e \in Cont(t) : e.name = name
    BY <1>2 DEF NamesIn
  <2>2. FindItem(t, name) = e.item
    BY <1>1, <2>1, FindPresent
  <2>3. e.item \in Kinds
    BY <1>1, ContentIsCells DEF Cont
  <2> QED BY <2>2, <2>3, NoItemIs
<1> QED BY <1>1, <1>2, FindAbsent

LEMMA HasIs ==
    ASSUME NEW t, Well(t), NEW name \in Names
    PROVE  Has(t, name) <=> FindItem(t, name) # NoItem
<1>1. Size(t) \in Nat \ {0} /\ Placed(t.buckets, Size(t))
  BY DEF Well
<1>2. CASE name \in NamesIn(Cont(t))
  <2>1. PICK e \in Cont(t) : e.name = name
    BY <1>2 DEF NamesIn
  <2> QED BY <1>1, <1>2, <2>1, FindPresent, FindSome
<1>3. CASE name \notin NamesIn(Cont(t))
  BY <1>1, <1>3, FindAbsent
<1> QED BY <1>2, <1>3

\* What a table holds is what findEntry finds.
LEMMA ContIs ==
    ASSUME NEW t, Well(t)
    PROVE  Cont(t) = {Entry(m, FindItem(t, m)) : m \in {p \in Names : FindItem(t, p) # NoItem}}
<1>1. Size(t) \in Nat \ {0} /\ Placed(t.buckets, Size(t))
  BY DEF Well
<1>2. ASSUME NEW e \in Cont(t)
      PROVE  e.name \in Names /\ FindItem(t, e.name) # NoItem /\ e = Entry(e.name, FindItem(t, e.name))
  <2>1. e.name \in Names /\ e = Entry(e.name, e.item)
    BY <1>1, ContentIsCells DEF Cont
  <2>2. FindItem(t, e.name) = e.item
    BY <1>1, FindPresent
  <2>3. e.name \in NamesIn(Cont(t))
    BY DEF NamesIn
  <2> QED BY <2>1, <2>2, <2>3, FindSome
<1>3. ASSUME NEW m \in Names, FindItem(t, m) # NoItem
      PROVE  Entry(m, FindItem(t, m)) \in Cont(t)
  <2>1. PICK e \in Cont(t) : e.name = m
    BY <1>3, FindSome DEF NamesIn
  <2> QED BY <1>2, <2>1
<1> QED BY <1>2, <1>3

\* What two tables have in common decides what findEntry finds in them.
LEMMA FindByCont ==
    ASSUME NEW t, Well(t), NEW name \in Names, NEW item
    PROVE  FindItem(t, name) = item /\ item # NoItem <=> Entry(name, item) \in Cont(t)
<1>1. Size(t) \in Nat \ {0} /\ Placed(t.buckets, Size(t))
  BY DEF Well
<1>2. ASSUME Entry(name, item) \in Cont(t) PROVE FindItem(t, name) = item /\ item # NoItem
  <2>1. Entry(name, item).name = name /\ Entry(name, item).item = item
    BY DEF Entry
  <2>2. FindItem(t, name) = item
    BY <1>1, <1>2, <2>1, FindPresent
  <2>3. item \in Kinds
    BY <1>1, <1>2, <2>1, ContentIsCells DEF Cont
  <2> QED BY <2>2, <2>3, NoItemIs
<1>3. ASSUME FindItem(t, name) = item, item # NoItem PROVE Entry(name, item) \in Cont(t)
  <2>1. PICK e \in Cont(t) : e.name = name
    BY <1>3, FindSome DEF NamesIn
  <2>2. e.item = item /\ e = Entry(e.name, e.item)
    BY <1>1, <1>3, <2>1, FindPresent, ContentIsCells DEF Cont
  <2> QED BY <2>1, <2>2
<1> QED BY <1>2, <1>3

\* One bucket is replaced by another one of the same names.
LEMMA BucketIs ==
    ASSUME NEW n \in Nat \ {0}, NEW b, Placed(b, n), NEW h \in 0 .. n - 1,
           NEW s \in Seq(Cell), Distinct(s), \A e \in CellsOf(s) : Hash(e.name, n) = h,
           NEW c, c = [b EXCEPT ![h] = s]
    PROVE  Placed(c, n) /\ Content(c, n) = (Content(b, n) \ CellsOf(b[h])) \cup CellsOf(s)
<1>1. b \in Rows(n)
  BY DEF Placed
<1>2. c \in Rows(n) /\ c[h] = s /\ \A i \in 0 .. n - 1 : i # h => c[i] = b[i]
  BY <1>1 DEF Rows
<1>3. \A i \in 0 .. n - 1 : Distinct(c[i])
  BY <1>2 DEF Placed
<1>4. \A i \in 0 .. n - 1 : \A d \in CellsOf(c[i]) : Hash(d.name, n) = i
  BY <1>2 DEF Placed
<1>5. Placed(c, n)
  BY <1>2, <1>3, <1>4 DEF Placed
<1>6. \A i \in 0 .. n - 1 : \A d \in CellsOf(b[i]) : Hash(d.name, n) = i
  BY DEF Placed
<1>7. ASSUME NEW e \in Content(c, n) PROVE e \in (Content(b, n) \ CellsOf(b[h])) \cup CellsOf(s)
  <2>1. PICK i \in 0 .. n - 1 : e \in CellsOf(c[i])
    BY <1>7 DEF Content
  <2>2. CASE i = h
    BY <1>2, <2>1, <2>2
  <2>3. CASE i # h
    <3>1. e \in CellsOf(b[i])
      BY <1>2, <2>1, <2>3
    <3>2. e \in Content(b, n) /\ e \notin CellsOf(b[h])
      BY <1>6, <2>3, <3>1 DEF Content
    <3> QED BY <3>2
  <2> QED BY <2>2, <2>3
<1>8. ASSUME NEW e \in Content(b, n), e \notin CellsOf(b[h]) PROVE e \in Content(c, n)
  <2>1. PICK i \in 0 .. n - 1 : e \in CellsOf(b[i])
    BY <1>8 DEF Content
  <2>2. e \in CellsOf(c[i])
    BY <1>2, <1>8, <2>1
  <2> QED BY <2>2 DEF Content
<1>9. ASSUME NEW e \in CellsOf(s) PROVE e \in Content(c, n)
  BY <1>2 DEF Content
<1> QED BY <1>5, <1>7, <1>8, <1>9

\* The sequence without one of its cells.
LEMMA RemoveAtIs ==
    ASSUME NEW s \in Seq(Cell), Distinct(s), NEW x \in 1 .. Len(s), NEW r, r = RemoveAt(s, x)
    PROVE  r \in Seq(Cell) /\ Distinct(r) /\ CellsOf(r) = CellsOf(s) \ {s[x]}
<1> DEFINE a == SubSeq(s, 1, x - 1)
           b == SubSeq(s, x + 1, Len(s))
<1>1. Len(s) \in Nat /\ s \in [1 .. Len(s) -> Cell]
  BY FunctionOf
<1>2. a \in Seq(Cell) /\ Len(a) = x - 1 /\ \A i \in 1 .. x - 1 : a[i] = s[i]
  <2>1. 1 \in Int /\ x - 1 \in Int /\ \A i \in 1 .. x - 1 : s[i] \in Cell
    BY <1>1
  <2>2. a \in Seq(Cell)
    BY <2>1, SubSeqProperties
  <2>3. Len(a) = IF 1 <= x - 1 THEN (x - 1) - 1 + 1 ELSE 0
    BY <2>1, SubSeqProperties
  <2>4. \A i \in 1 .. (x - 1) - 1 + 1 : a[i] = s[1 + i - 1]
    BY <2>1, SubSeqProperties
  <2> HIDE DEF a
  <2>5. Len(a) = x - 1
    BY <1>1, <2>3
  <2>6. \A i \in 1 .. x - 1 : a[i] = s[i]
    <3> SUFFICES ASSUME NEW i \in 1 .. x - 1 PROVE a[i] = s[i]
      OBVIOUS
    <3>1. i \in 1 .. (x - 1) - 1 + 1 /\ 1 + i - 1 = i
      BY <1>1
    <3> QED BY <2>4, <3>1
  <2> QED BY <2>2, <2>5, <2>6
<1>3. b \in Seq(Cell) /\ Len(b) = Len(s) - x /\ \A i \in 1 .. Len(s) - x : b[i] = s[x + i]
  <2>1. x + 1 \in Int /\ Len(s) \in Int /\ \A i \in x + 1 .. Len(s) : s[i] \in Cell
    BY <1>1
  <2>2. b \in Seq(Cell)
    BY <2>1, SubSeqProperties
  <2>3. Len(b) = IF x + 1 <= Len(s) THEN Len(s) - (x + 1) + 1 ELSE 0
    BY <2>1, SubSeqProperties
  <2>4. \A i \in 1 .. Len(s) - (x + 1) + 1 : b[i] = s[(x + 1) + i - 1]
    BY <2>1, SubSeqProperties
  <2> HIDE DEF b
  <2>5. Len(b) = Len(s) - x
    <3>1. Len(s) \in Nat /\ x \in Nat /\ x <= Len(s)
      BY <1>1
    <3>2. CASE x + 1 <= Len(s)
      BY <2>3, <3>1, <3>2
    <3>3. CASE ~(x + 1 <= Len(s))
      BY <2>3, <3>1, <3>3
    <3> QED BY <3>2, <3>3
  <2>6. \A i \in 1 .. Len(s) - x : b[i] = s[x + i]
    <3> SUFFICES ASSUME NEW i \in 1 .. Len(s) - x PROVE b[i] = s[x + i]
      OBVIOUS
    <3>1. i \in 1 .. Len(s) - (x + 1) + 1 /\ (x + 1) + i - 1 = x + i
      BY <1>1
    <3> QED BY <2>4, <3>1
  <2> QED BY <2>2, <2>5, <2>6
<1>4. r = a \o b
  BY DEF RemoveAt
<1> HIDE DEF a, b
<1>5. r \in Seq(Cell) /\ CellsOf(r) = CellsOf(a) \cup CellsOf(b)
  BY <1>2, <1>3, <1>4, ConcatCells, ConcatProperties
<1>6. \A i, j \in 1 .. Len(s) : s[i].name = s[j].name => i = j
  BY DEF Distinct
<1>7. Distinct(a)
  <2> SUFFICES ASSUME NEW i \in 1 .. x - 1, NEW j \in 1 .. x - 1, a[i].name = a[j].name PROVE i = j
    BY <1>2 DEF Distinct
  <2>1. i \in 1 .. Len(s) /\ j \in 1 .. Len(s) /\ s[i].name = s[j].name
    BY <1>1, <1>2
  <2> QED BY <1>6, <2>1
<1>8. Distinct(b)
  <2> SUFFICES ASSUME NEW i \in 1 .. Len(s) - x, NEW j \in 1 .. Len(s) - x, b[i].name = b[j].name PROVE i = j
    BY <1>3 DEF Distinct
  <2>1. x + i \in 1 .. Len(s) /\ x + j \in 1 .. Len(s) /\ s[x + i].name = s[x + j].name
    BY <1>1, <1>3
  <2>2. x + i = x + j
    BY <1>6, <2>1
  <2> QED BY <1>1, <2>2
<1>9. \A e \in CellsOf(a) : \E i \in 1 .. Len(s) : i < x /\ e = s[i]
  <2> SUFFICES ASSUME NEW i \in 1 .. x - 1 PROVE i \in 1 .. Len(s) /\ i < x /\ a[i] = s[i]
    BY <1>2 DEF CellsOf
  <2> QED BY <1>1, <1>2
<1>10. \A e \in CellsOf(b) : \E i \in 1 .. Len(s) : i > x /\ e = s[i]
  <2> SUFFICES ASSUME NEW i \in 1 .. Len(s) - x PROVE x + i \in 1 .. Len(s) /\ x + i > x /\ b[i] = s[x + i]
    BY <1>3 DEF CellsOf
  <2> QED BY <1>1, <1>3
<1>11. Distinct(r)
  <2>1. \A e \in CellsOf(a), d \in CellsOf(b) : e.name # d.name
    <3> SUFFICES ASSUME NEW e \in CellsOf(a), NEW d \in CellsOf(b), e.name = d.name PROVE FALSE
      OBVIOUS
    <3>1. PICK i \in 1 .. Len(s) : i < x /\ e = s[i]
      BY <1>9
    <3>2. PICK j \in 1 .. Len(s) : j > x /\ d = s[j]
      BY <1>10
    <3>3. i = j
      BY <1>6, <3>1, <3>2
    <3> QED BY <1>1, <3>1, <3>2, <3>3
  <2> QED BY <1>2, <1>3, <1>4, <1>7, <1>8, <2>1, ConcatDistinct
<1>12. CellsOf(r) \subseteq CellsOf(s) \ {s[x]}
  <2> SUFFICES ASSUME NEW e \in CellsOf(r) PROVE e \in CellsOf(s) /\ e # s[x]
    OBVIOUS
  <2>1. PICK i \in 1 .. Len(s) : (i < x \/ i > x) /\ e = s[i]
    BY <1>5, <1>9, <1>10
  <2>2. i # x
    BY <1>1, <2>1
  <2> QED BY <1>6, <2>1, <2>2 DEF CellsOf
<1>13. CellsOf(s) \ {s[x]} \subseteq CellsOf(r)
  <2> SUFFICES ASSUME NEW i \in 1 .. Len(s), i # x PROVE s[i] \in CellsOf(a) \cup CellsOf(b)
    BY <1>5 DEF CellsOf
  <2>1. CASE i < x
    <3>1. i \in 1 .. Len(a) /\ a[i] = s[i]
      BY <1>1, <1>2, <2>1
    <3> QED BY <3>1 DEF CellsOf
  <2>2. CASE i > x
    <3>1. i - x \in 1 .. Len(b) /\ x + (i - x) = i
      BY <1>1, <1>3, <2>2
    <3>2. b[i - x] = s[i]
      BY <1>3, <3>1
    <3> QED BY <3>1, <3>2 DEF CellsOf
  <2> QED BY <1>1, <2>1, <2>2
<1> QED BY <1>5, <1>11, <1>12, <1>13

\* The bucket in which the item of one name is replaced.
LEMMA ReplacedIs ==
    ASSUME NEW s \in Seq(Cell), Distinct(s), NEW e \in Cell, NEW x \in 1 .. Len(s), s[x].name = e.name,
           NEW r, r = [i \in DOMAIN s |-> IF s[i].name = e.name THEN e ELSE s[i]]
    PROVE  r \in Seq(Cell) /\ Distinct(r) /\ CellsOf(r) = (CellsOf(s) \ {s[x]}) \cup {e}
<1>1. Len(s) \in Nat /\ s \in [1 .. Len(s) -> Cell] /\ DOMAIN s = 1 .. Len(s)
  BY FunctionOf
<1>2. r \in [1 .. Len(s) -> Cell]
  BY <1>1
<1>3. r \in Seq(Cell) /\ Len(r) = Len(s)
  BY <1>1, <1>2, SequenceOf
<1>4. \A i \in 1 .. Len(s) : r[i] = IF i = x THEN e ELSE s[i]
  BY <1>1 DEF Distinct
<1>5. \A i \in 1 .. Len(s) : r[i].name = s[i].name
  BY <1>4
<1>6. Distinct(r)
  BY <1>3, <1>5 DEF Distinct
<1>7. CellsOf(r) = (CellsOf(s) \ {s[x]}) \cup {e}
  <2>1. \A i \in 1 .. Len(s) : s[i] = s[x] => i = x
    BY DEF Distinct
  <2>2. r[x] = e
    BY <1>4
  <2>3. ASSUME NEW i \in 1 .. Len(s) PROVE r[i] \in (CellsOf(s) \ {s[x]}) \cup {e}
    BY <1>4, <2>1 DEF CellsOf
  <2>4. ASSUME NEW i \in 1 .. Len(s), s[i] # s[x] PROVE s[i] \in CellsOf(r)
    <3>1. i # x /\ r[i] = s[i]
      BY <1>4, <2>4
    <3> QED BY <1>3, <3>1 DEF CellsOf
  <2>5. CellsOf(r) \subseteq (CellsOf(s) \ {s[x]}) \cup {e}
    BY <1>3, <2>3 DEF CellsOf
  <2>6. CellsOf(s) \ {s[x]} \subseteq CellsOf(r)
    <3> SUFFICES ASSUME NEW d \in CellsOf(s), d # s[x] PROVE d \in CellsOf(r)
      OBVIOUS
    <3>1. PICK i \in 1 .. Len(s) : d = s[i]
      BY DEF CellsOf
    <3> QED BY <2>4, <3>1
  <2>7. e \in CellsOf(r)
    BY <1>3, <2>2 DEF CellsOf
  <2> QED BY <2>5, <2>6, <2>7
<1> QED BY <1>3, <1>6, <1>7

\* A table made of placed entries and their number is sound.
LEMMA WellMade ==
    ASSUME NEW n \in Nat \ {0, 1}, NEW c, Placed(c, n), NEW k \in Nat,
           IsFiniteSet(NamesIn(Content(c, n))), k = Cardinality(NamesIn(Content(c, n))), k * 2 < n,
           NEW t, t = [buckets |-> c, count |-> k]
    PROVE  Well(t) /\ Cont(t) = Content(c, n) /\ Size(t) = n
<1>1. c \in Rows(n) /\ t.buckets = c /\ t.count = k
  BY DEF Placed
<1>2. Size(t) = n
  BY <1>1, SizeIs
<1>3. t \in [buckets : Rows(n), count : Nat]
  BY <1>1
<1> QED BY <1>1, <1>2, <1>3 DEF Well, Cont

\* The table of a new scope is sound.
LEMMA EmptyIs ==
    Well(EmptyTable) /\ Cont(EmptyTable) = {}
<1>1. InitialSize \in Nat \ {0, 1}
  BY InitialSizeAssumption
<1> DEFINE c == EmptyRows(InitialSize)
<1>2. Placed(c, InitialSize) /\ Content(c, InitialSize) = {}
  BY <1>1, EmptyRowsAre
<1>3. EmptyTable = [buckets |-> c, count |-> 0]
  BY DEF EmptyTable, EmptyRows
<1> HIDE DEF c
<1>4. NamesIn({}) = {}
  BY DEF NamesIn
<1>5. IsFiniteSet({}) /\ Cardinality({}) = 0
  BY FS_EmptySet
<1>6. 0 * 2 < InitialSize
  BY <1>1
<1> QED BY <1>1, <1>2, <1>3, <1>4, <1>5, <1>6, WellMade

\* findEntry finds nothing in the table of a new scope.
LEMMA EmptyFinds ==
    ASSUME NEW m \in Names
    PROVE  FindItem(EmptyTable, m) = NoItem
BY EmptyIs, FindSome DEF NamesIn

\* The table that a change of one name leads to answers as it should.
LEMMA FindUpdated ==
    ASSUME NEW t, Well(t), NEW u, Well(u), NEW name \in Names, NEW item \in Kinds,
           Cont(u) = {e \in Cont(t) : e.name # name} \cup {Entry(name, item)},
           NEW m \in Names
    PROVE  FindItem(u, m) = IF m = name THEN item ELSE FindItem(t, m)
<1>1. CASE m = name
  BY <1>1, FindByCont
<1>2. CASE m # name
  <2>1. \A i : Entry(m, i) \in Cont(u) <=> Entry(m, i) \in Cont(t)
    <3>1. \A i : Entry(m, i).name = m /\ Entry(name, item).name = name
      BY DEF Entry
    <3> QED BY <1>2, <3>1
  <2>2. FindItem(u, m) # NoItem => FindItem(u, m) = FindItem(t, m)
    BY <2>1, FindByCont
  <2>3. FindItem(t, m) # NoItem => FindItem(u, m) = FindItem(t, m)
    BY <2>1, FindByCont
  <2> QED BY <1>2, <2>2, <2>3
<1> QED BY <1>1, <1>2

LEMMA FindRemoved ==
    ASSUME NEW t, Well(t), NEW u, Well(u), NEW name \in Names,
           Cont(u) = {e \in Cont(t) : e.name # name}, NEW m \in Names
    PROVE  FindItem(u, m) = IF m = name THEN NoItem ELSE FindItem(t, m)
<1>0. \A k, i : Entry(k, i).name = k
  BY DEF Entry
<1>1. CASE m = name
  <2>1. ~\E i : Entry(m, i) \in Cont(u)
    BY <1>0, <1>1
  <2> QED BY <1>1, <2>1, FindByCont
<1>2. CASE m # name
  <2>1. \A i : Entry(m, i) \in Cont(u) <=> Entry(m, i) \in Cont(t)
    BY <1>0, <1>2
  <2>2. FindItem(u, m) # NoItem => FindItem(u, m) = FindItem(t, m)
    BY <2>1, FindByCont
  <2>3. FindItem(t, m) # NoItem => FindItem(u, m) = FindItem(t, m)
    BY <2>1, FindByCont
  <2> QED BY <1>2, <2>2, <2>3
<1> QED BY <1>1, <1>2

\* growIfTooFull keeps the entries and makes room.
LEMMA GrownIs ==
    ASSUME NEW t, Well(t)
    PROVE  \E n \in Nat \ {0, 1} : \E c :
             /\ GrowIfTooFull([t EXCEPT !.count = @ + 1]) = [buckets |-> c, count |-> t.count + 1]
             /\ Placed(c, n) /\ Content(c, n) = Cont(t) /\ (t.count + 1) * 2 < n
<1> DEFINE n == Size(t)
           u == [buckets |-> t.buckets, count |-> t.count + 1]
<1>1. n \in Nat \ {0, 1} /\ t.count \in Nat /\ t.count * 2 < n /\ Placed(t.buckets, n) /\ t.buckets \in Rows(n)
  BY DEF Well
<1>2. [t EXCEPT !.count = @ + 1] = u
  BY DEF Well
<1>3. u.buckets = t.buckets /\ u.count = t.count + 1 /\ u = [buckets |-> u.buckets, count |-> u.count]
  OBVIOUS
<1> HIDE DEF u, n
<1>4. Size(u) = n
  BY <1>1, <1>3, SizeIs
<1>5. CASE u.count * 2 < n
  <2>1. GrowIfTooFull(u) = u
    BY <1>4, <1>5 DEF GrowIfTooFull
  <2>2. GrowIfTooFull(u) = [buckets |-> t.buckets, count |-> t.count + 1]
    BY <1>3, <2>1
  <2>3. (t.count + 1) * 2 < n
    BY <1>3, <1>5
  <2> QED BY <1>1, <1>2, <2>2, <2>3 DEF Cont, n
<1>6. CASE ~(u.count * 2 < n)
  <2>1. GrowIfTooFull(u) = Rehashed(u, n * 2)
    BY <1>4, <1>6 DEF GrowIfTooFull
  <2>2. n \in Nat \ {0} /\ Placed(u.buckets, n)
    BY <1>1, <1>3
  <2>3. n * 2 \in Nat \ {0} /\ n * 2 \in Nat \ {0, 1}
    BY <1>1
  <2>4. PICK c : /\ Rehashed(u, n * 2) = [buckets |-> c, count |-> u.count]
                 /\ Placed(c, n * 2) /\ Content(c, n * 2) = Content(u.buckets, n)
    BY <1>3, <2>2, <2>3, RehashedIs
  <2>5. (t.count + 1) * 2 < n * 2
    BY <1>1
  <2>6. Content(c, n * 2) = Cont(t)
    BY <1>3, <2>4 DEF Cont, n
  <2>7. GrowIfTooFull(u) = [buckets |-> c, count |-> t.count + 1]
    BY <1>3, <2>1, <2>4
  <2>8. \E k \in Nat \ {0, 1} : k = n * 2
    BY <2>3
  <2> QED BY <1>2, <2>4, <2>5, <2>6, <2>7, <2>8
<1> QED BY <1>5, <1>6

\* A new name is added.
LEMMA AddWell ==
    ASSUME NEW t, Well(t), NEW name \in Names, FindItem(t, name) = NoItem, NEW item \in Kinds,
           NEW u, u = AddEntry(t, name, item)
    PROVE  Well(u) /\ Cont(u) = {e \in Cont(t) : e.name # name} \cup {Entry(name, item)}
<1> DEFINE e == Entry(name, item)
           g == GrowIfTooFull([t EXCEPT !.count = @ + 1])
<1>0. PICK n \in Nat \ {0, 1} : \E c :
        /\ g = [buckets |-> c, count |-> t.count + 1]
        /\ Placed(c, n) /\ Content(c, n) = Cont(t) /\ (t.count + 1) * 2 < n
  BY GrownIs
<1>1. PICK c :
        /\ g = [buckets |-> c, count |-> t.count + 1]
        /\ Placed(c, n) /\ Content(c, n) = Cont(t) /\ (t.count + 1) * 2 < n
  BY <1>0
<1>2. u = [g EXCEPT !.buckets[Hash(name, Size(g))] = <<e>> \o @]
  BY DEF AddEntry
<1> HIDE DEF g
<1>3. Size(g) = n
  BY <1>1, SizeIs DEF Placed
<1> DEFINE d == [c EXCEPT ![Hash(name, n)] = <<e>> \o @]
<1>4. u = [buckets |-> d, count |-> t.count + 1]
  BY <1>1, <1>2, <1>3
<1>5. e \in Cell /\ e.name = name
  BY DEF Entry, Cell
<1>6. name \notin NamesIn(Cont(t))
  BY FindSome
<1>7. d = [c EXCEPT ![Hash(e.name, n)] = <<e>> \o @]
  BY <1>5
<1> HIDE DEF d, e
<1>8. n \in Nat \ {0} /\ e.name \notin NamesIn(Content(c, n))
  BY <1>1, <1>5, <1>6
<1>9. Placed(d, n) /\ Content(d, n) = Content(c, n) \cup {e}
  BY <1>1, <1>5, <1>7, <1>8, HeadIs
<1>10. NamesIn(Content(d, n)) = NamesIn(Cont(t)) \cup {name}
  BY <1>1, <1>5, <1>9 DEF NamesIn
<1>11. IsFiniteSet(NamesIn(Cont(t))) /\ t.count = Cardinality(NamesIn(Cont(t))) /\ t.count \in Nat
  BY DEF Well
<1>12. IsFiniteSet(NamesIn(Content(d, n))) /\ Cardinality(NamesIn(Content(d, n))) = t.count + 1
  BY <1>6, <1>10, <1>11, FS_AddElement
<1>13. t.count + 1 \in Nat
  BY <1>11
<1>14. Well(u) /\ Cont(u) = Content(d, n)
  BY <1>1, <1>4, <1>9, <1>12, <1>13, WellMade
<1>15. \A x \in Cont(t) : x.name # name
  BY <1>6 DEF NamesIn
<1> QED BY <1>1, <1>9, <1>14, <1>15 DEF e

LEMMA AddIs ==
    ASSUME NEW t, Well(t), NEW name \in Names, FindItem(t, name) = NoItem, NEW item \in Kinds
    PROVE  Well(AddEntry(t, name, item))
BY AddWell

LEMMA AddFinds ==
    ASSUME NEW t, Well(t), NEW name \in Names, FindItem(t, name) = NoItem, NEW item \in Kinds, NEW m \in Names
    PROVE  FindItem(AddEntry(t, name, item), m) = IF m = name THEN item ELSE FindItem(t, m)
BY AddWell, FindUpdated

\* A name is added, or its item replaced.
LEMMA PutWell ==
    ASSUME NEW t, Well(t), NEW name \in Names, NEW item \in Kinds,
           NEW u, u = AddOrReplace(t, name, item)
    PROVE  Well(u) /\ Cont(u) = {e \in Cont(t) : e.name # name} \cup {Entry(name, item)}
<1>1. CASE ~Has(t, name)
  <2>1. FindItem(t, name) = NoItem
    BY <1>1, HasIs
  <2>2. u = AddEntry(t, name, item)
    BY <1>1 DEF AddOrReplace
  <2> QED BY <2>1, <2>2, AddWell
<1>2. CASE Has(t, name)
  <2> DEFINE n == Size(t)
             h == Hash(name, n)
             s == t.buckets[h]
             e == Entry(name, item)
             r == [i \in DOMAIN s |-> IF s[i].name = name THEN e ELSE s[i]]
             c == [t.buckets EXCEPT ![h] = r]
  <2>1. n \in Nat \ {0} /\ n \in Nat \ {0, 1} /\ Placed(t.buckets, n) /\ h \in 0 .. n - 1
    BY HashType DEF Well
  <2>2. u = [t EXCEPT !.buckets[h] = r]
    BY <1>2 DEF AddOrReplace
  <2>3. t \in [buckets : Rows(n), count : Nat]
    BY DEF Well
  <2>4. u = [buckets |-> c, count |-> t.count]
    <3> HIDE DEF r, h, n
    <3> QED BY <2>1, <2>2, <2>3 DEF Rows
  <2>5. FindItem(t, name) # NoItem
    BY <1>2, HasIs
  <2>6. PICK old \in Cont(t) : old.name = name
    BY <2>5, FindSome DEF NamesIn
  <2>7. Bucket(t, old.name) = s
    BY <2>6 DEF Bucket
  <2>8. PICK x \in 1 .. Len(s) : s[x] = old
    <3> HIDE DEF s, n
    <3> QED BY <2>1, <2>7, PlaceIs DEF n
  <2>9. s \in Seq(Cell) /\ Distinct(s) /\ \A d \in CellsOf(s) : Hash(d.name, n) = h
    <3> HIDE DEF h, n
    <3> QED BY <2>1 DEF Placed, Rows
  <2>10. e \in Cell /\ e.name = name
    BY DEF Entry, Cell
  <2>11. r = [i \in DOMAIN s |-> IF s[i].name = e.name THEN e ELSE s[i]]
    BY <2>10
  <2> HIDE DEF r, e, s
  <2>12. r \in Seq(Cell) /\ Distinct(r) /\ CellsOf(r) = (CellsOf(s) \ {s[x]}) \cup {e}
    BY <2>6, <2>8, <2>9, <2>10, <2>11, ReplacedIs
  <2>13. \A d \in CellsOf(r) : Hash(d.name, n) = h
    BY <2>9, <2>10, <2>12
  <2> HIDE DEF h, n
  <2>14. Placed(c, n) /\ Content(c, n) = (Content(t.buckets, n) \ CellsOf(t.buckets[h])) \cup CellsOf(r)
    <3>1. \E k : k = c
      OBVIOUS
    <3> QED BY <2>1, <2>12, <2>13, <3>1, BucketIs
  <2> HIDE DEF c
  <2>15. CellsOf(s) \subseteq Cont(t)
    <3>1. s = t.buckets[h]
      BY DEF s
    <3> QED BY <2>1, <3>1 DEF Cont, Content, n
  <2>16. \A d \in Cont(t) : d.name = name => d = old
    BY <2>1, <2>6, PlacedUnique DEF Cont, Content, n
  <2>17. Content(c, n) = {d \in Cont(t) : d.name # name} \cup {e}
    <3>1. Content(c, n) = (Cont(t) \ CellsOf(s)) \cup ((CellsOf(s) \ {old}) \cup {e})
      BY <2>8, <2>12, <2>14 DEF Cont, n, s
    <3>2. old \in CellsOf(s)
      BY <2>8 DEF CellsOf
    <3>3. Content(c, n) = (Cont(t) \ {old}) \cup {e}
      BY <2>15, <3>1, <3>2
    <3> QED BY <2>6, <2>16, <3>3
  <2>18. NamesIn(Content(c, n)) = NamesIn(Cont(t))
    <3>1. ASSUME NEW d \in Content(c, n) PROVE d.name \in NamesIn(Cont(t))
      BY <2>6, <2>10, <2>17 DEF NamesIn
    <3>2. ASSUME NEW d \in Cont(t) PROVE d.name \in NamesIn(Content(c, n))
      BY <2>10, <2>17 DEF NamesIn
    <3> QED BY <3>1, <3>2 DEF NamesIn
  <2>19. /\ IsFiniteSet(NamesIn(Content(c, n))) /\ t.count = Cardinality(NamesIn(Content(c, n)))
         /\ t.count \in Nat /\ t.count * 2 < n
    BY <2>18 DEF Well, n
  <2>20. Well(u) /\ Cont(u) = Content(c, n)
    BY <2>1, <2>4, <2>14, <2>19, WellMade
  <2> QED BY <2>17, <2>20 DEF e
<1> QED BY <1>1, <1>2

LEMMA PutIs ==
    ASSUME NEW t, Well(t), NEW name \in Names, NEW item \in Kinds
    PROVE  Well(AddOrReplace(t, name, item))
BY PutWell

LEMMA PutFinds ==
    ASSUME NEW t, Well(t), NEW name \in Names, NEW item \in Kinds, NEW m \in Names
    PROVE  FindItem(AddOrReplace(t, name, item), m) = IF m = name THEN item ELSE FindItem(t, m)
BY PutWell, FindUpdated

\* A name is removed.
LEMMA DropWell ==
    ASSUME NEW t, Well(t), NEW name \in Names, FindItem(t, name) # NoItem,
           NEW u, u = RemoveItem(t, name)
    PROVE  Well(u) /\ Cont(u) = {e \in Cont(t) : e.name # name}
<1> DEFINE n == Size(t)
           h == Hash(name, n)
           s == t.buckets[h]
           x == FirstPlace(t, name)
           r == RemoveAt(s, x)
           c == [t.buckets EXCEPT ![h] = r]
<1>1. n \in Nat \ {0} /\ n \in Nat \ {0, 1} /\ Placed(t.buckets, n) /\ h \in 0 .. n - 1
  BY HashType DEF Well
<1>2. u = [t EXCEPT !.buckets[h] = r, !.count = @ - 1]
  BY DEF RemoveItem
<1>3. t \in [buckets : Rows(n), count : Nat]
  BY DEF Well
<1>4. u = [buckets |-> c, count |-> t.count - 1]
  <2> HIDE DEF r, h, n
  <2> QED BY <1>1, <1>2, <1>3 DEF Rows
<1>5. PICK old \in Cont(t) : old.name = name
  BY FindSome DEF NamesIn
<1>6. Bucket(t, old.name) = s
  BY <1>5 DEF Bucket
<1>7. x \in 1 .. Len(s) /\ s[x] = old
  <2> HIDE DEF s, n
  <2>1. PICK y \in 1 .. Len(s) : FirstPlace(t, old.name) = y /\ s[y] = old
    BY <1>1, <1>6, PlaceIs DEF n
  <2> QED BY <1>5, <2>1
<1> HIDE DEF x
<1>8. s \in Seq(Cell) /\ Distinct(s) /\ \A d \in CellsOf(s) : Hash(d.name, n) = h
  <2> HIDE DEF h, n
  <2> QED BY <1>1 DEF Placed, Rows
<1>9. r = RemoveAt(s, x)
  OBVIOUS
<1> HIDE DEF r, s
<1>10. r \in Seq(Cell) /\ Distinct(r) /\ CellsOf(r) = CellsOf(s) \ {s[x]}
  BY <1>7, <1>8, <1>9, RemoveAtIs
<1>11. \A d \in CellsOf(r) : Hash(d.name, n) = h
  BY <1>8, <1>10
<1> HIDE DEF h, n
<1>12. Placed(c, n) /\ Content(c, n) = (Content(t.buckets, n) \ CellsOf(t.buckets[h])) \cup CellsOf(r)
  <2>1. \E k : k = c
    OBVIOUS
  <2> QED BY <1>1, <1>10, <1>11, <2>1, BucketIs
<1> HIDE DEF c
<1>13. CellsOf(s) \subseteq Cont(t)
  <2>1. s = t.buckets[h]
    BY DEF s
  <2> QED BY <1>1, <2>1 DEF Cont, Content, n
<1>14. \A d \in Cont(t) : d.name = name => d = old
  BY <1>1, <1>5, PlacedUnique DEF Cont, Content, n
<1>15. Content(c, n) = {d \in Cont(t) : d.name # name}
  <2>1. Content(c, n) = (Cont(t) \ CellsOf(s)) \cup (CellsOf(s) \ {old})
    BY <1>7, <1>10, <1>12 DEF Cont, n, s
  <2>2. old \in CellsOf(s)
    BY <1>7 DEF CellsOf
  <2>3. Content(c, n) = Cont(t) \ {old}
    BY <1>13, <2>1, <2>2
  <2> QED BY <1>5, <1>14, <2>3
<1>16. NamesIn(Content(c, n)) = NamesIn(Cont(t)) \ {name}
  BY <1>15 DEF NamesIn
<1>17. name \in NamesIn(Cont(t))
  BY FindSome
<1>18. IsFiniteSet(NamesIn(Cont(t))) /\ t.count = Cardinality(NamesIn(Cont(t))) /\ t.count \in Nat /\ t.count * 2 < n
  BY DEF Well, n
<1>19. IsFiniteSet(NamesIn(Content(c, n))) /\ Cardinality(NamesIn(Content(c, n))) = t.count - 1
  BY <1>16, <1>17, <1>18, FS_RemoveElement
<1>20. t.count # 0
  <2>1. NamesIn(Cont(t)) # {}
    BY <1>17
  <2> QED BY <1>18, <2>1, FS_EmptySet
<1>21. t.count - 1 \in Nat /\ (t.count - 1) * 2 < n
  BY <1>1, <1>18, <1>20
<1>22. Well(u) /\ Cont(u) = Content(c, n)
  BY <1>1, <1>4, <1>12, <1>19, <1>21, WellMade
<1> QED BY <1>15, <1>22

LEMMA DropIs ==
    ASSUME NEW t, Well(t), NEW name \in Names, FindItem(t, name) # NoItem
    PROVE  Well(RemoveItem(t, name))
BY DropWell

LEMMA DropFinds ==
    ASSUME NEW t, Well(t), NEW name \in Names, FindItem(t, name) # NoItem, NEW m \in Names
    PROVE  FindItem(RemoveItem(t, name), m) = IF m = name THEN NoItem ELSE FindItem(t, m)
BY DropWell, FindRemoved

\* A sound table is what findEntry and listLocalNames need it to be.
LEMMA WellIsSound ==
    ASSUME NEW t, Well(t)
    PROVE  TableSound(t)
<1> DEFINE n == Size(t)
           all == AllEntries(t)
<1>1. n \in Nat \ {0} /\ Placed(t.buckets, n) /\ t.count * 2 < n /\ DOMAIN t.buckets = 0 .. n - 1
  BY DEF Well, Rows
<1>2. all = Spread(t.buckets, n)
  BY DEF AllEntries, Spread
<1> HIDE DEF n, all
<1>3. all \in Seq(Cell) /\ Distinct(all) /\ CellsOf(all) = Content(t.buckets, n)
  BY <1>1, <1>2, SpreadIs
<1>4. CellsOf(all) = Cont(t)
  BY <1>3 DEF Cont, n
<1>5. t.count = Cardinality(NamesIn(Cont(t)))
  BY DEF Well
<1>6. t.count = Len(all)
  BY <1>3, <1>4, <1>5, CountIs
<1>7. \A i, j \in 1 .. t.count : all[i].name = all[j].name => i = j
  BY <1>3, <1>6 DEF Distinct
<1>8. ASSUME NEW i \in 0 .. n - 1, NEW e \in ToSet(t.buckets[i]) PROVE Hash(e.name, n) = i
  <2>1. t.buckets[i] \in Seq(Cell)
    BY <1>1 DEF Placed, Rows
  <2>2. DOMAIN t.buckets[i] = 1 .. Len(t.buckets[i])
    BY <2>1
  <2>3. e \in CellsOf(t.buckets[i])
    BY <2>2 DEF ToSet, CellsOf
  <2> QED BY <1>1, <2>3 DEF Placed
<1> QED BY <1>1, <1>6, <1>7, <1>8 DEF TableSound, n, all

\* The cells of a table are the cells of its buckets.
LEMMA BucketsAre ==
    ASSUME NEW t, Well(t)
    PROVE  UNION {ToSet(t.buckets[i]) : i \in DOMAIN t.buckets} = Cont(t)
<1> DEFINE n == Size(t)
<1>1. Placed(t.buckets, n) /\ DOMAIN t.buckets = 0 .. n - 1
  BY DEF Well, Rows
<1> HIDE DEF n
<1>2. ASSUME NEW i \in 0 .. n - 1 PROVE ToSet(t.buckets[i]) = CellsOf(t.buckets[i])
  <2>1. t.buckets[i] \in Seq(Cell)
    BY <1>1 DEF Placed, Rows
  <2>2. DOMAIN t.buckets[i] = 1 .. Len(t.buckets[i])
    BY <2>1
  <2> QED BY <2>2 DEF ToSet, CellsOf
<1>3. {ToSet(t.buckets[i]) : i \in 0 .. n - 1} = {CellsOf(t.buckets[i]) : i \in 0 .. n - 1}
  BY <1>2
<1> QED BY <1>1, <1>3 DEF Cont, Content, n
-----------------------------------------------------------------------------
\* Beginnings of paths.
LEMMA UptoIs ==
    ASSUME NEW S, NEW s \in Seq(S), NEW n \in 0 .. Len(s)
    PROVE  /\ SubSeq(s, 1, n) \in Seq(S) /\ Len(SubSeq(s, 1, n)) = n
           /\ \A i \in 1 .. n : SubSeq(s, 1, n)[i] = s[i]
<1>1. Len(s) \in Nat /\ s \in [1 .. Len(s) -> S]
  BY FunctionOf
<1>2. 1 \in Int /\ n \in Int /\ \A i \in 1 .. n : s[i] \in S
  BY <1>1
<1>3. SubSeq(s, 1, n) \in Seq(S)
  BY <1>2, SubSeqProperties
<1>4. Len(SubSeq(s, 1, n)) = IF 1 <= n THEN n - 1 + 1 ELSE 0
  BY <1>2, SubSeqProperties
<1>5. \A i \in 1 .. n - 1 + 1 : SubSeq(s, 1, n)[i] = s[1 + i - 1]
  BY <1>2, SubSeqProperties
<1>6. Len(SubSeq(s, 1, n)) = n
  BY <1>1, <1>4
<1>7. \A i \in 1 .. n : SubSeq(s, 1, n)[i] = s[i]
  <2> SUFFICES ASSUME NEW i \in 1 .. n PROVE SubSeq(s, 1, n)[i] = s[i]
    OBVIOUS
  <2>1. i \in 1 .. n - 1 + 1 /\ 1 + i - 1 = i
    BY <1>1
  <2> QED BY <1>5, <2>1
<1> QED BY <1>3, <1>6, <1>7

LEMMA UptoZero ==
    ASSUME NEW S, NEW s \in Seq(S)
    PROVE  SubSeq(s, 1, 0) = <<>>
<1>1. 1 \in Int /\ 0 \in Int /\ 0 < 1
  OBVIOUS
<1> QED BY <1>1, SubSeqEmpty

LEMMA UptoNext ==
    ASSUME NEW S, NEW s \in Seq(S), NEW n \in Nat, n + 1 <= Len(s)
    PROVE  /\ SubSeq(s, 1, n) \in Seq(S) /\ s[n + 1] \in S
           /\ SubSeq(s, 1, n + 1) = Append(SubSeq(s, 1, n), s[n + 1])
<1>1. Len(s) \in Nat /\ s \in [1 .. Len(s) -> S]
  BY FunctionOf
<1>2. n \in 0 .. Len(s) /\ n + 1 \in 0 .. Len(s) /\ n + 1 \in 1 .. Len(s)
  BY <1>1
<1> DEFINE a == SubSeq(s, 1, n)
           b == SubSeq(s, 1, n + 1)
           c == Append(a, s[n + 1])
<1>3. a \in Seq(S) /\ Len(a) = n /\ \A i \in 1 .. n : a[i] = s[i]
  BY <1>2, UptoIs
<1>4. b \in Seq(S) /\ Len(b) = n + 1 /\ \A i \in 1 .. n + 1 : b[i] = s[i]
  BY <1>2, UptoIs
<1>5. s[n + 1] \in S
  BY <1>1, <1>2
<1> HIDE DEF a, b
<1>6. c \in Seq(S) /\ Len(c) = n + 1 /\ (\A i \in 1 .. n : c[i] = a[i]) /\ c[n + 1] = s[n + 1]
  BY <1>3, <1>5, AppendProperties
<1> HIDE DEF c
<1>7. \A i \in 1 .. n + 1 : b[i] = c[i]
  <2> SUFFICES ASSUME NEW i \in 1 .. n + 1 PROVE b[i] = c[i]
    OBVIOUS
  <2>1. i \in 1 .. n \/ i = n + 1
    OBVIOUS
  <2> QED BY <1>3, <1>4, <1>6, <2>1
<1>8. b = c
  BY <1>4, <1>6, <1>7, SeqEqual
<1> QED BY <1>3, <1>5, <1>8 DEF a, b, c

\* A path that is not empty is a shorter one with a name behind it.
LEMMA SplitLast ==
    ASSUME NEW S, NEW s \in Seq(S), s # <<>>
    PROVE  /\ Front(s) \in Seq(S) /\ Last(s) \in S /\ s = Append(Front(s), Last(s))
           /\ Len(s) \in Nat \ {0} /\ Len(Front(s)) = Len(s) - 1
<1>1. Len(s) \in Nat \ {0}
  BY EmptySeq
<1>2. Len(s) - 1 \in Nat /\ (Len(s) - 1) + 1 = Len(s) /\ Len(s) - 1 \in 0 .. Len(s)
  BY <1>1
<1>3. SubSeq(s, 1, Len(s)) = s
  BY SubSeqFull
<1>4. /\ SubSeq(s, 1, Len(s) - 1) \in Seq(S) /\ s[(Len(s) - 1) + 1] \in S
      /\ SubSeq(s, 1, (Len(s) - 1) + 1) = Append(SubSeq(s, 1, Len(s) - 1), s[(Len(s) - 1) + 1])
  <2>1. PICK n \in Nat : n = Len(s) - 1
    BY <1>2
  <2>2. n + 1 <= Len(s)
    BY <1>2, <2>1
  <2> QED BY <2>1, <2>2, UptoNext
<1>5. Len(SubSeq(s, 1, Len(s) - 1)) = Len(s) - 1
  BY <1>2, UptoIs
<1> QED BY <1>1, <1>2, <1>3, <1>4, <1>5 DEF Front, Last

LEMMA ConcatAppend ==
    ASSUME NEW S, NEW p \in Seq(S), NEW q \in Seq(S), NEW m \in S
    PROVE  p \o q \in Seq(S) /\ p \o Append(q, m) = Append(p \o q, m)
<1>1. p \o q \in Seq(S)
  BY ConcatProperties
<1>2. <<m>> \in Seq(S)
  OBVIOUS
<1>3. Append(q, m) = q \o <<m>> /\ Append(p \o q, m) = (p \o q) \o <<m>>
  BY <1>1, AppendIsConcat
<1>4. (p \o q) \o <<m>> = p \o (q \o <<m>>)
  BY <1>2, ConcatAssociative
<1> QED BY <1>1, <1>3, <1>4

\* What begins a path is the path or begins it without its last name.
LEMMA PrefixOfAppend ==
    ASSUME NEW S, NEW v \in Seq(S), NEW p \in Seq(S), NEW m \in S
    PROVE  IsPrefix(v, Append(p, m)) <=> v = Append(p, m) \/ IsPrefix(v, p)
<1> DEFINE q == Append(p, m)
<1>1. q \in Seq(S) /\ Len(q) = Len(p) + 1 /\ Len(p) \in Nat /\ Len(v) \in Nat
  BY AppendProperties, FunctionOf
<1>2. \A i \in 1 .. Len(p) : q[i] = p[i]
  BY AppendProperties
<1>3. SubSeq(v, 1, Len(v)) = v
  BY SubSeqFull
<1>4. SubSeq(q, 1, Len(q)) = q
  BY <1>1, SubSeqFull
<1> HIDE DEF q
<1>5. ASSUME Len(v) <= Len(p) PROVE SubSeq(q, 1, Len(v)) = SubSeq(p, 1, Len(v))
  <2>1. Len(v) \in 0 .. Len(q) /\ Len(v) \in 0 .. Len(p)
    BY <1>1, <1>5
  <2> DEFINE a == SubSeq(q, 1, Len(v))
             b == SubSeq(p, 1, Len(v))
  <2>2. a \in Seq(S) /\ Len(a) = Len(v) /\ \A i \in 1 .. Len(v) : a[i] = q[i]
    BY <1>1, <2>1, UptoIs
  <2>3. b \in Seq(S) /\ Len(b) = Len(v) /\ \A i \in 1 .. Len(v) : b[i] = p[i]
    BY <2>1, UptoIs
  <2> HIDE DEF a, b
  <2>4. \A i \in 1 .. Len(v) : i \in 1 .. Len(p)
    BY <1>1, <1>5
  <2>5. a = b
    BY <1>2, <2>2, <2>3, <2>4, SeqEqual
  <2> QED BY <2>5 DEF a, b
<1>6. CASE Len(v) <= Len(p)
  <2>1. Len(v) <= Len(q) /\ v # q
    BY <1>1, <1>6
  <2> QED BY <1>5, <1>6, <2>1 DEF IsPrefix, q
<1>7. CASE Len(v) = Len(q)
  <2>1. ~(Len(v) <= Len(p)) /\ Len(v) <= Len(q)
    BY <1>1, <1>7
  <2> QED BY <1>3, <1>4, <1>7, <2>1 DEF IsPrefix, q
<1>8. CASE Len(v) > Len(q)
  <2>1. ~(Len(v) <= Len(p)) /\ ~(Len(v) <= Len(q)) /\ v # q
    BY <1>1, <1>8
  <2> QED BY <2>1 DEF IsPrefix, q
<1> QED BY <1>1, <1>6, <1>7, <1>8

\* Both modules mean the same by a prefix.
LEMMA PrefixesAgree ==
    ASSUME NEW S, NEW v \in Seq(S), NEW q
    PROVE  Tree!IsPrefix(v, q) <=> IsPrefix(v, q)
<1>1. SubSeq(v, 1, Len(v)) = v
  BY SubSeqFull
<1> QED BY <1>1 DEF IsPrefix, Tree!IsPrefix, Tree!Upto
-----------------------------------------------------------------------------
\* A tree of sound tables: the root and every scope has one, nothing else.
Route == Seq(Names)
SoundTree(T) ==
    /\ DOMAIN T \in SUBSET Route /\ <<>> \in DOMAIN T /\ T = [p \in DOMAIN T |-> T[p]]
    /\ \A p \in DOMAIN T : Well(T[p])
    /\ \A p \in Route, m \in Names :
         Append(p, m) \in DOMAIN T <=> p \in DOMAIN T /\ FindItem(T[p], m) = Scope

\* Paths and their last names.
LEMMA RouteIs ==
    ASSUME NEW p \in Route, NEW m \in Names
    PROVE  Append(p, m) \in Route /\ Append(p, m) # <<>> /\ Append(p, m) # p
<1>1. Append(p, m) \in Seq(Names) /\ Append(p, m) # <<>> /\ Len(Append(p, m)) = Len(p) + 1 /\ Len(p) \in Nat
  BY AppendProperties, FunctionOf DEF Route
<1>2. Len(p) + 1 # Len(p)
  BY <1>1
<1> QED BY <1>1, <1>2 DEF Route

LEMMA RouteEnd ==
    ASSUME NEW p \in Route, NEW m \in Names, NEW q \in Route, NEW k \in Names, Append(p, m) = Append(q, k)
    PROVE  p = q /\ m = k
BY AppendInjective DEF Route

\* The entries of the tree, by scope and name.
LEMMA EntryThere ==
    ASSUME NEW T, SoundTree(T), NEW p \in DOMAIN T, NEW m \in Names, FindItem(T[p], m) # NoItem
    PROVE  [path |-> Append(p, m), item |-> FindItem(T[p], m)] \in Entries(T)
<1>1. Well(T[p])
  BY DEF SoundTree
<1>2. Entry(m, FindItem(T[p], m)) \in Cont(T[p])
  BY <1>1, ContIs
<1>3. Cont(T[p]) = UNION {ToSet(T[p].buckets[i]) : i \in DOMAIN T[p].buckets}
  BY <1>1, BucketsAre
<1>4. Entry(m, FindItem(T[p], m)).name = m /\ Entry(m, FindItem(T[p], m)).item = FindItem(T[p], m)
  BY DEF Entry
<1>5. [path |-> Append(p, m), item |-> FindItem(T[p], m)] \in {[path |-> Append(p, e.name), item |-> e.item] : e \in Cont(T[p])}
  BY <1>2, <1>4
<1> QED BY <1>3, <1>5 DEF Entries

LEMMA EntryOnly ==
    ASSUME NEW T, SoundTree(T), NEW e \in Entries(T)
    PROVE  \E p \in DOMAIN T, m \in Names :
             FindItem(T[p], m) # NoItem /\ e = [path |-> Append(p, m), item |-> FindItem(T[p], m)]
<1>1. PICK p \in DOMAIN T :
        e \in {[path |-> Append(p, d.name), item |-> d.item] :
                 d \in UNION {ToSet(T[p].buckets[i]) : i \in DOMAIN T[p].buckets}}
  BY DEF Entries
<1>2. Well(T[p])
  BY DEF SoundTree
<1>3. Cont(T[p]) = UNION {ToSet(T[p].buckets[i]) : i \in DOMAIN T[p].buckets}
  BY <1>2, BucketsAre
<1>4. PICK d \in Cont(T[p]) : e = [path |-> Append(p, d.name), item |-> d.item]
  BY <1>1, <1>3
<1>5. PICK m \in Names : FindItem(T[p], m) # NoItem /\ d = Entry(m, FindItem(T[p], m))
  BY <1>2, ContIs
<1>6. d.name = m /\ d.item = FindItem(T[p], m)
  BY <1>5 DEF Entry
<1> QED BY <1>4, <1>5, <1>6

\* The items of the tree: the function of its entries.
LEMMA ItemsDomain ==
    ASSUME NEW T, SoundTree(T), NEW p \in Route, NEW m \in Names
    PROVE  Append(p, m) \in DOMAIN ItemsOf(T) <=> p \in DOMAIN T /\ FindItem(T[p], m) # NoItem
<1>1. DOMAIN ItemsOf(T) = {e.path : e \in Entries(T)}
  BY DEF ItemsOf
<1>2. ASSUME Append(p, m) \in DOMAIN ItemsOf(T) PROVE p \in DOMAIN T /\ FindItem(T[p], m) # NoItem
  <2>1. PICK e \in Entries(T) : e.path = Append(p, m)
    BY <1>1, <1>2
  <2>2. PICK q \in DOMAIN T, k \in Names :
          FindItem(T[q], k) # NoItem /\ e = [path |-> Append(q, k), item |-> FindItem(T[q], k)]
    BY EntryOnly
  <2>3. Append(p, m) = Append(q, k) /\ q \in Route
    BY <2>1, <2>2 DEF SoundTree
  <2>4. p = q /\ m = k
    BY <2>3, RouteEnd
  <2> QED BY <2>2, <2>4
<1>3. ASSUME p \in DOMAIN T, FindItem(T[p], m) # NoItem PROVE Append(p, m) \in DOMAIN ItemsOf(T)
  <2>1. [path |-> Append(p, m), item |-> FindItem(T[p], m)] \in Entries(T)
    BY <1>3, EntryThere
  <2> QED BY <1>1, <2>1
<1> QED BY <1>2, <1>3

LEMMA ItemsRange ==
    ASSUME NEW T, SoundTree(T), NEW q \in DOMAIN ItemsOf(T)
    PROVE  \E p \in DOMAIN T, m \in Names : q = Append(p, m) /\ FindItem(T[p], m) # NoItem
<1>1. PICK e \in Entries(T) : e.path = q
  BY DEF ItemsOf
<1> QED BY <1>1, EntryOnly

LEMMA ItemsAt ==
    ASSUME NEW T, SoundTree(T), NEW p \in DOMAIN T, NEW m \in Names, FindItem(T[p], m) # NoItem
    PROVE  ItemsOf(T)[Append(p, m)] = FindItem(T[p], m)
<1> DEFINE q == Append(p, m)
           d == [path |-> q, item |-> FindItem(T[p], m)]
           c == CHOOSE e \in Entries(T) : e.path = q
<1>1. d \in Entries(T) /\ d.path = q
  BY EntryThere
<1>2. c \in Entries(T) /\ c.path = q
  <2>1. \E e \in Entries(T) : e.path = q
    BY <1>1
  <2> QED BY <2>1
<1>3. q \in {e.path : e \in Entries(T)}
  BY <1>1
<1>4. ItemsOf(T)[q] = c.item
  BY <1>3 DEF ItemsOf
<1> HIDE DEF c
<1>5. PICK r \in DOMAIN T, k \in Names :
        FindItem(T[r], k) # NoItem /\ c = [path |-> Append(r, k), item |-> FindItem(T[r], k)]
  BY <1>2, EntryOnly
<1>6. Append(r, k) = Append(p, m) /\ r \in Route /\ p \in Route
  BY <1>2, <1>5 DEF SoundTree
<1>7. r = p /\ k = m
  BY <1>6, RouteEnd
<1> QED BY <1>4, <1>5, <1>7

\* A function with these names and these items is the items of the tree.
LEMMA ItemsAre ==
    ASSUME NEW T, SoundTree(T), NEW f, f = [q \in DOMAIN f |-> f[q]],
           \A q \in DOMAIN f : \E p \in Route, m \in Names : q = Append(p, m),
           \A p \in Route, m \in Names :
             Append(p, m) \in DOMAIN f <=> p \in DOMAIN T /\ FindItem(T[p], m) # NoItem,
           \A p \in DOMAIN T, m \in Names :
             FindItem(T[p], m) # NoItem => f[Append(p, m)] = FindItem(T[p], m)
    PROVE  ItemsOf(T) = f
<1> DEFINE g == ItemsOf(T)
<1>1. g = [q \in DOMAIN g |-> g[q]]
  BY DEF ItemsOf
<1>2. ASSUME NEW q \in DOMAIN g PROVE q \in DOMAIN f /\ f[q] = g[q]
  <2>1. PICK p \in DOMAIN T, m \in Names : q = Append(p, m) /\ FindItem(T[p], m) # NoItem
    BY ItemsRange
  <2>2. p \in Route
    BY DEF SoundTree
  <2>3. g[q] = FindItem(T[p], m)
    BY <2>1, ItemsAt
  <2> HIDE DEF g
  <2> QED BY <2>1, <2>2, <2>3
<1>3. ASSUME NEW q \in DOMAIN f PROVE q \in DOMAIN g
  <2>1. PICK p \in Route, m \in Names : q = Append(p, m)
    OBVIOUS
  <2>2. p \in DOMAIN T /\ FindItem(T[p], m) # NoItem
    BY <2>1
  <2> QED BY <2>1, <2>2, ItemsDomain
<1> HIDE DEF g
<1>4. DOMAIN f = DOMAIN g
  BY <1>2, <1>3
<1>5. f = g
  BY <1>1, <1>2, <1>4
<1> QED BY <1>5 DEF g

\* The scopes of the tree are the tables, the variables the other entries.
LEMMA ScopeAt ==
    ASSUME NEW T, SoundTree(T), NEW p \in Route
    PROVE  Tree!IsScope(ItemsOf(T), p) <=> p \in DOMAIN T
<1>1. CASE p = <<>>
  BY <1>1 DEF SoundTree, Tree!IsScope
<1>2. CASE p # <<>>
  <2>1. PICK q \in Route, m \in Names : p = Append(q, m)
    BY <1>2, SplitLast DEF Route
  <2>2. p \in DOMAIN T <=> q \in DOMAIN T /\ FindItem(T[q], m) = Scope
    BY <2>1 DEF SoundTree
  <2>3. p \in DOMAIN ItemsOf(T) <=> q \in DOMAIN T /\ FindItem(T[q], m) # NoItem
    BY <2>1, ItemsDomain
  <2>4. p \in DOMAIN ItemsOf(T) => ItemsOf(T)[p] = FindItem(T[q], m)
    BY <2>1, <2>3, ItemsAt
  <2>5. Tree!IsScope(ItemsOf(T), p) <=> p \in DOMAIN ItemsOf(T) /\ ItemsOf(T)[p] = Scope
    BY <1>2 DEF Tree!IsScope, Tree!Scope, Scope
  <2> QED BY <2>2, <2>3, <2>4, <2>5, NoItemIs
<1> QED BY <1>1, <1>2

LEMMA VariableAt ==
    ASSUME NEW T, SoundTree(T), NEW p \in Route, NEW m \in Names
    PROVE  Tree!IsVariable(ItemsOf(T), Append(p, m)) <=>
             p \in DOMAIN T /\ FindItem(T[p], m) \in Tree!Variables
<1>1. Append(p, m) \in DOMAIN ItemsOf(T) <=> p \in DOMAIN T /\ FindItem(T[p], m) # NoItem
  BY ItemsDomain
<1>2. Append(p, m) \in DOMAIN ItemsOf(T) => ItemsOf(T)[Append(p, m)] = FindItem(T[p], m)
  BY <1>1, ItemsAt
<1>3. Tree!IsVariable(ItemsOf(T), Append(p, m)) <=>
        Append(p, m) \in DOMAIN ItemsOf(T) /\ ItemsOf(T)[Append(p, m)] # Scope
  BY DEF Tree!IsVariable, Tree!Scope, Scope
<1>4. p \in DOMAIN T => FindItem(T[p], m) \in Kinds \cup {NoItem}
  BY FindType DEF SoundTree
<1>5. ASSUME p \in DOMAIN T PROVE FindItem(T[p], m) \in Tree!Variables <=>
                                    FindItem(T[p], m) # NoItem /\ FindItem(T[p], m) # Scope
  BY <1>4, <1>5, KindsAre, NoItemIs DEF Kinds
<1> QED BY <1>1, <1>2, <1>3, <1>5

\* A scope is in scopes all the way up.
LEMMA PrefixClosed ==
    ASSUME NEW T, SoundTree(T), NEW p \in DOMAIN T, NEW n \in 0 .. Len(p)
    PROVE  SubSeq(p, 1, n) \in DOMAIN T
<1> DEFINE L == Len(p)
           S == {k \in Nat : k <= L => SubSeq(p, 1, L - k) \in DOMAIN T}
<1>1. p \in Route /\ p \in Seq(Names)
  BY DEF SoundTree, Route
<1>2. L \in Nat
  BY <1>1, FunctionOf
<1>3. 0 \in S
  <2>1. SubSeq(p, 1, L) = p
    BY <1>1, SubSeqFull
  <2>2. L - 0 = L
    BY <1>2
  <2> QED BY <2>1, <2>2
<1>4. ASSUME NEW k \in Nat, k \in S PROVE k + 1 \in S
  <2> SUFFICES ASSUME k + 1 <= L PROVE SubSeq(p, 1, L - (k + 1)) \in DOMAIN T
    OBVIOUS
  <2>1. SubSeq(p, 1, L - k) \in DOMAIN T
    BY <1>2, <1>4
  <2>0. L - (k + 1) \in Nat
    BY <1>2
  <2>2. PICK j \in Nat : j = L - (k + 1)
    BY <2>0
  <2>3. j + 1 = L - k /\ j + 1 <= L
    BY <1>2, <2>2
  <2>4. SubSeq(p, 1, j) \in Seq(Names) /\ p[j + 1] \in Names
    BY <1>1, <2>3, UptoNext
  <2>5. SubSeq(p, 1, j + 1) = Append(SubSeq(p, 1, j), p[j + 1])
    BY <1>1, <2>3, UptoNext
  <2>6. SubSeq(p, 1, j) \in Route /\ Append(SubSeq(p, 1, j), p[j + 1]) \in DOMAIN T
    BY <2>1, <2>3, <2>4, <2>5 DEF Route
  <2>7. SubSeq(p, 1, j) \in DOMAIN T
    BY <2>4, <2>6 DEF SoundTree
  <2> QED BY <2>2, <2>7
<1>5. Nat \subseteq S
  <2> HIDE DEF S
  <2> QED BY <1>3, <1>4, SetInduction
<1>6. PICK k \in Nat : k = L - n
  BY <1>2
<1>7. k <= L /\ L - k = n
  BY <1>2, <1>6
<1> QED BY <1>5, <1>7

\* Nothing is below what is no entry.
LEMMA NothingBelow ==
    ASSUME NEW T, SoundTree(T), NEW v \in Route, v # <<>>, v \notin DOMAIN ItemsOf(T)
    PROVE  /\ \A p \in DOMAIN T : ~IsPrefix(v, p)
           /\ \A q \in DOMAIN ItemsOf(T) : ~IsPrefix(v, q)
<1>1. ASSUME NEW p \in DOMAIN T, IsPrefix(v, p) PROVE FALSE
  <2>1. p \in Seq(Names) /\ v \in Seq(Names)
    BY DEF SoundTree, Route
  <2>2. Len(v) \in Nat /\ Len(p) \in Nat /\ Len(v) <= Len(p)
    BY <1>1, <2>1, FunctionOf DEF IsPrefix
  <2>3. SubSeq(v, 1, Len(v)) = v
    BY <2>1, SubSeqFull
  <2>4. SubSeq(p, 1, Len(v)) = v
    BY <1>1, <2>3 DEF IsPrefix
  <2>5. Len(v) \in 0 .. Len(p)
    BY <2>2
  <2>6. v \in DOMAIN T
    BY <2>4, <2>5, PrefixClosed
  <2>7. Tree!IsScope(ItemsOf(T), v)
    BY <2>6, ScopeAt
  <2> QED BY <2>7 DEF Tree!IsScope
<1>2. ASSUME NEW q \in DOMAIN ItemsOf(T), IsPrefix(v, q) PROVE FALSE
  <2>1. PICK p \in DOMAIN T, m \in Names : q = Append(p, m)
    BY ItemsRange
  <2>2. p \in Seq(Names) /\ v \in Seq(Names)
    BY DEF SoundTree, Route
  <2>3. v = q \/ IsPrefix(v, p)
    BY <1>2, <2>1, <2>2, PrefixOfAppend
  <2> QED BY <1>1, <2>3
<1> QED BY <1>1, <1>2

\* One entry of the tree is written, and nothing else changes.
Under(T, p, m) == IF p \in DOMAIN T THEN FindItem(T[p], m) ELSE NoItem
OneEntry(q, item) == [p \in {q} |-> item]
LEMMA OverIs ==
    ASSUME NEW T, SoundTree(T), NEW U, SoundTree(U), NEW p \in DOMAIN T, NEW m \in Names, NEW item \in Kinds,
           \A r \in Route, k \in Names : Under(U, r, k) = IF r = p /\ k = m THEN item ELSE Under(T, r, k)
    PROVE  ItemsOf(U) = Tree!Over(ItemsOf(T), OneEntry(Append(p, m), item))
<1> DEFINE q == Append(p, m)
           old == ItemsOf(T)
           f == Tree!Over(old, OneEntry(q, item))
<1>1. p \in Route /\ q \in Route
  BY RouteIs DEF SoundTree
<1>2. f = [r \in DOMAIN old \cup {q} |-> IF r \in {q} THEN OneEntry(q, item)[r] ELSE old[r]]
  BY DEF Tree!Over, OneEntry
<1>3. f = [r \in DOMAIN f |-> f[r]] /\ DOMAIN f = DOMAIN old \cup {q} /\ f[q] = item
  BY <1>2 DEF OneEntry
<1>4. \A r \in DOMAIN old : r # q => f[r] = old[r]
  BY <1>2
<1> HIDE DEF f
<1>5. ASSUME NEW r \in DOMAIN f PROVE \E s \in Route, k \in Names : r = Append(s, k)
  <2>1. CASE r = q
    BY <1>1, <2>1
  <2>2. CASE r \in DOMAIN old
    <3>1. PICK s \in DOMAIN T, k \in Names : r = Append(s, k)
      BY <2>2, ItemsRange
    <3> QED BY <3>1 DEF SoundTree
  <2> QED BY <1>3, <1>5, <2>1, <2>2
<1>6. item # NoItem
  BY NoItemIs
<1>7. ASSUME NEW r \in Route, NEW k \in Names
      PROVE  Append(r, k) \in DOMAIN f <=> r \in DOMAIN U /\ FindItem(U[r], k) # NoItem
  <2>1. Append(r, k) = q <=> r = p /\ k = m
    BY <1>1, RouteEnd
  <2>2. Append(r, k) \in DOMAIN old <=> Under(T, r, k) # NoItem
    BY ItemsDomain DEF Under
  <2>3. r \in DOMAIN U /\ FindItem(U[r], k) # NoItem <=> Under(U, r, k) # NoItem
    BY DEF Under
  <2>4. Under(U, r, k) = IF r = p /\ k = m THEN item ELSE Under(T, r, k)
    OBVIOUS
  <2> QED BY <1>3, <1>6, <2>1, <2>2, <2>3, <2>4
<1>8. ASSUME NEW r \in DOMAIN U, NEW k \in Names, FindItem(U[r], k) # NoItem
      PROVE  f[Append(r, k)] = FindItem(U[r], k)
  <2>0. r \in Route
    BY DEF SoundTree
  <2>1. Append(r, k) = q <=> r = p /\ k = m
    BY <1>1, <2>0, RouteEnd
  <2>2. FindItem(U[r], k) = IF r = p /\ k = m THEN item ELSE Under(T, r, k)
    BY <2>0 DEF Under
  <2>3. CASE r = p /\ k = m
    BY <1>3, <2>1, <2>2, <2>3
  <2>4. CASE ~(r = p /\ k = m)
    <3>1. FindItem(U[r], k) = Under(T, r, k)
      BY <2>2, <2>4
    <3>2. r \in DOMAIN T /\ FindItem(T[r], k) # NoItem /\ FindItem(U[r], k) = FindItem(T[r], k)
      BY <1>8, <3>1 DEF Under
    <3>3. Append(r, k) \in DOMAIN old /\ old[Append(r, k)] = FindItem(T[r], k)
      BY <2>0, <3>2, ItemsDomain, ItemsAt
    <3> QED BY <1>4, <2>1, <2>4, <3>2, <3>3
  <2> QED BY <2>3, <2>4
<1>9. ItemsOf(U) = f
  <2> HIDE DEF q, old
  <2>1. f = [r \in DOMAIN f |-> f[r]]
    BY <1>3
  <2>2. \A r \in DOMAIN f : \E s \in Route, k \in Names : r = Append(s, k)
    BY <1>5
  <2>3. \A r \in Route, k \in Names :
          Append(r, k) \in DOMAIN f <=> r \in DOMAIN U /\ FindItem(U[r], k) # NoItem
    BY <1>7
  <2>4. \A r \in DOMAIN U, k \in Names :
          FindItem(U[r], k) # NoItem => f[Append(r, k)] = FindItem(U[r], k)
    BY <1>8
  <2> QED BY <2>1, <2>2, <2>3, <2>4, ItemsAre
<1> QED BY <1>9 DEF f

\* A variable is written into a table of the tree.
LEMMA TreePut ==
    ASSUME NEW T, SoundTree(T), NEW p \in DOMAIN T, NEW m \in Names, NEW item \in Tree!Variables,
           FindItem(T[p], m) # Scope, NEW u, u = AddOrReplace(T[p], m, item),
           NEW U, U = [r \in DOMAIN U |-> U[r]], DOMAIN U = DOMAIN T, U[p] = u,
           \A r \in DOMAIN T : r # p => U[r] = T[r]
    PROVE  SoundTree(U) /\ ItemsOf(U) = Tree!Over(ItemsOf(T), OneEntry(Append(p, m), item))
<1>1. Well(T[p]) /\ item \in Kinds
  BY DEF SoundTree, Kinds
<1>2. item # Scope
  BY <1>1, KindsAre
<1>3. Well(u) /\ \A k \in Names : FindItem(u, k) = IF k = m THEN item ELSE FindItem(T[p], k)
  BY <1>1, PutIs, PutFinds
<1>4. DOMAIN U = DOMAIN T /\ U[p] = u /\ \A r \in DOMAIN T : r # p => U[r] = T[r]
  OBVIOUS
<1>5. U = [r \in DOMAIN U |-> U[r]]
  OBVIOUS
<1>6. \A r \in DOMAIN U : Well(U[r])
  BY <1>3, <1>4 DEF SoundTree
<1>7. ASSUME NEW r \in Route, NEW k \in Names
      PROVE  Append(r, k) \in DOMAIN U <=> r \in DOMAIN U /\ FindItem(U[r], k) = Scope
  <2>1. Append(r, k) \in DOMAIN T <=> r \in DOMAIN T /\ FindItem(T[r], k) = Scope
    BY DEF SoundTree
  <2> QED BY <1>2, <1>3, <1>4, <2>1
<1>8. SoundTree(U)
  BY <1>4, <1>5, <1>6, <1>7 DEF SoundTree
<1>9. \A r \in Route, k \in Names : Under(U, r, k) = IF r = p /\ k = m THEN item ELSE Under(T, r, k)
  BY <1>3, <1>4 DEF Under
<1>10. ItemsOf(U) = Tree!Over(ItemsOf(T), OneEntry(Append(p, m), item))
  BY ONLY SoundTree(T), p \in DOMAIN T, m \in Names, <1>1, <1>8, <1>9, OverIs
<1> QED BY <1>8, <1>10

\* A scope is made in a table of the tree.
LEMMA TreeScope ==
    ASSUME NEW T, SoundTree(T), NEW p \in DOMAIN T, NEW m \in Names,
           FindItem(T[p], m) = NoItem, NEW U, U = WithScope(T, p, m)
    PROVE  /\ SoundTree(U) /\ Append(p, m) \in DOMAIN U
           /\ ItemsOf(U) = Tree!Over(ItemsOf(T), OneEntry(Append(p, m), Scope))
<1> DEFINE u == AddEntry(T[p], m, Scope)
           q == Append(p, m)
<1>1. Well(T[p]) /\ Scope \in Kinds /\ p \in Route
  BY NoItemIs DEF SoundTree
<1>2. q \in Route /\ q # <<>> /\ q # p
  BY <1>1, RouteIs
<1>3. q \notin DOMAIN T
  BY <1>1, NoItemIs DEF SoundTree
<1>4. Well(u) /\ \A k \in Names : FindItem(u, k) = IF k = m THEN Scope ELSE FindItem(T[p], k)
  BY <1>1, AddIs, AddFinds
<1>5. U = [r \in DOMAIN T \cup {q} |-> IF r = p THEN u ELSE IF r \in DOMAIN T THEN T[r] ELSE EmptyTable]
  BY DEF WithScope
<1> HIDE DEF u
<1>6. /\ DOMAIN U = DOMAIN T \cup {q} /\ U[p] = u /\ U[q] = EmptyTable
      /\ \A r \in DOMAIN T : r # p => U[r] = T[r]
  BY <1>2, <1>3, <1>5
<1>7. U = [r \in DOMAIN U |-> U[r]]
  BY <1>5
<1>8. \A r \in DOMAIN U : Well(U[r])
  BY <1>4, <1>6, EmptyIs DEF SoundTree
<1>9. \A k \in Names : FindItem(U[q], k) = NoItem
  BY <1>6, EmptyFinds
<1>10. ASSUME NEW r \in Route, NEW k \in Names
       PROVE  Append(r, k) \in DOMAIN U <=> r \in DOMAIN U /\ FindItem(U[r], k) = Scope
  <2>1. Append(r, k) \in DOMAIN T <=> r \in DOMAIN T /\ FindItem(T[r], k) = Scope
    BY DEF SoundTree
  <2>2. Append(r, k) = q <=> r = p /\ k = m
    BY <1>1, RouteEnd
  <2>3. CASE r = p
    BY <1>1, <1>4, <1>6, <2>1, <2>2, <2>3
  <2>4. CASE r = q
    <3>1. Append(r, k) \notin DOMAIN T
      BY <1>3, <2>1, <2>4
    <3>2. FindItem(U[r], k) # Scope
      BY <1>9, <2>4, NoItemIs
    <3> QED BY <1>2, <1>6, <2>2, <2>4, <3>1, <3>2
  <2>5. CASE r # p /\ r # q
    BY <1>6, <2>1, <2>2, <2>5
  <2> QED BY <2>3, <2>4, <2>5
<1>11. SoundTree(U)
  <2>1. DOMAIN U \in SUBSET Route /\ <<>> \in DOMAIN U
    BY <1>2, <1>6 DEF SoundTree
  <2> QED BY <1>7, <1>8, <1>10, <2>1 DEF SoundTree
<1>12. ASSUME NEW r \in Route, NEW k \in Names
       PROVE  Under(U, r, k) = IF r = p /\ k = m THEN Scope ELSE Under(T, r, k)
  <2>1. CASE r = p
    BY <1>4, <1>6, <2>1 DEF Under
  <2>2. CASE r = q
    BY <1>2, <1>3, <1>6, <1>9, <2>2 DEF Under
  <2>3. CASE r # p /\ r # q
    BY <1>6, <2>3 DEF Under
  <2> QED BY <2>1, <2>2, <2>3
<1>13. ItemsOf(U) = Tree!Over(ItemsOf(T), OneEntry(q, Scope))
  <2> HIDE DEF q
  <2>1. \A r \in Route, k \in Names : Under(U, r, k) = IF r = p /\ k = m THEN Scope ELSE Under(T, r, k)
    BY <1>12
  <2> QED BY <1>1, <1>11, <2>1, OverIs DEF q
<1> QED BY <1>6, <1>11, <1>13
-----------------------------------------------------------------------------
\* The scopes on the way from `base' along `rel'.
Way(base, rel, i) == base \o SubSeq(rel, 1, i)
MadeTo(base, rel, k) == [p \in {Way(base, rel, i) : i \in 1 .. k} |-> Scope]

LEMMA WayIs ==
    ASSUME NEW base \in Route, NEW rel \in Route, NEW n \in 0 .. Len(rel)
    PROVE  Way(base, rel, n) \in Route /\ Len(Way(base, rel, n)) = Len(base) + n /\ Len(base) \in Nat
<1>1. SubSeq(rel, 1, n) \in Seq(Names) /\ Len(SubSeq(rel, 1, n)) = n
  BY UptoIs DEF Route
<1> QED BY <1>1, ConcatProperties, FunctionOf DEF Way, Route

LEMMA WayZero ==
    ASSUME NEW base \in Route, NEW rel \in Route
    PROVE  Way(base, rel, 0) = base
<1>1. SubSeq(rel, 1, 0) = <<>>
  BY UptoZero DEF Route
<1> QED BY <1>1, ConcatEmptySeq DEF Way, Route

LEMMA WayNext ==
    ASSUME NEW base \in Route, NEW rel \in Route, NEW n \in Nat, n + 1 <= Len(rel)
    PROVE  rel[n + 1] \in Names /\ Way(base, rel, n + 1) = Append(Way(base, rel, n), rel[n + 1])
<1>1. /\ SubSeq(rel, 1, n) \in Seq(Names) /\ rel[n + 1] \in Names
      /\ SubSeq(rel, 1, n + 1) = Append(SubSeq(rel, 1, n), rel[n + 1])
  BY UptoNext DEF Route
<1> QED BY <1>1, ConcatAppend DEF Way, Route

LEMMA WayApart ==
    ASSUME NEW base \in Route, NEW rel \in Route, NEW i \in 0 .. Len(rel), NEW j \in 0 .. Len(rel),
           Way(base, rel, i) = Way(base, rel, j)
    PROVE  i = j
<1>1. Len(Way(base, rel, i)) = Len(base) + i /\ Len(base) \in Nat
  BY WayIs
<1>2. Len(Way(base, rel, j)) = Len(base) + j
  BY WayIs
<1>3. Len(rel) \in Nat
  BY FunctionOf DEF Route
<1>4. Len(base) + i = Len(base) + j
  BY <1>1, <1>2
<1> QED BY <1>1, <1>3, <1>4

\* One more scope of the way is made.
LEMMA OverMade ==
    ASSUME NEW base \in Route, NEW rel \in Route, NEW n \in Nat, NEW items
    PROVE  Tree!Over(Tree!Over(items, MadeTo(base, rel, n)), OneEntry(Way(base, rel, n + 1), Scope))
             = Tree!Over(items, MadeTo(base, rel, n + 1))
<1> DEFINE A(k) == {Way(base, rel, i) : i \in 1 .. k}
           q == Way(base, rel, n + 1)
           x == Tree!Over(items, MadeTo(base, rel, n))
           f == Tree!Over(x, OneEntry(q, Scope))
           g == Tree!Over(items, MadeTo(base, rel, n + 1))
<1>1. A(n + 1) = A(n) \cup {q}
  <2>1. 1 .. n + 1 = (1 .. n) \cup {n + 1}
    OBVIOUS
  <2> QED BY <2>1
<1>2. x = [p \in DOMAIN items \cup A(n) |-> IF p \in A(n) THEN Scope ELSE items[p]]
  BY DEF Tree!Over, MadeTo
<1>3. g = [p \in DOMAIN items \cup A(n + 1) |-> IF p \in A(n + 1) THEN Scope ELSE items[p]]
  BY DEF Tree!Over, MadeTo
<1> HIDE DEF x
<1>4. f = [p \in DOMAIN x \cup {q} |-> IF p \in {q} THEN Scope ELSE x[p]]
  BY DEF Tree!Over, OneEntry
<1> HIDE DEF f, g, A, q
<1>5. DOMAIN f = DOMAIN g /\ f = [p \in DOMAIN f |-> f[p]] /\ g = [p \in DOMAIN g |-> g[p]]
  BY <1>1, <1>2, <1>3, <1>4
<1>6. \A p \in DOMAIN g : f[p] = g[p]
  BY <1>1, <1>2, <1>3, <1>4
<1>7. f = g
  BY <1>5, <1>6
<1> QED BY <1>7 DEF f, g, x, q

\* What ensureScopeExists has done after `n' of the names.
Progress(T, base, rel, n, a) ==
    /\ a = [ok |-> a.ok, at |-> a.at, tables |-> a.tables] /\ a.ok \in BOOLEAN
    /\ SoundTree(a.tables)
    /\ \E k \in 0 .. n :
         /\ ItemsOf(a.tables) = Tree!Over(ItemsOf(T), MadeTo(base, rel, k))
         /\ a.ok => /\ k = n /\ a.at = Way(base, rel, n) /\ a.at \in DOMAIN a.tables
                    /\ \A i \in 1 .. n : ~Tree!IsVariable(ItemsOf(T), Way(base, rel, i))
         /\ ~a.ok => /\ k + 1 <= n /\ Tree!IsVariable(ItemsOf(T), Way(base, rel, k + 1))
                     /\ \A i \in 1 .. k : ~Tree!IsVariable(ItemsOf(T), Way(base, rel, i))

LEMMA OkSet ==
    ASSUME NEW x, NEW y, NEW z, NEW w
    PROVE  [[ok |-> x, at |-> y, tables |-> z] EXCEPT !.ok = w] = [ok |-> w, at |-> y, tables |-> z]
OBVIOUS

\* One component of the name is followed, or its scope made.
LEMMA EnsureStep ==
    ASSUME NEW T, SoundTree(T), NEW base \in DOMAIN T, NEW rel \in Route, NEW n \in Nat, n + 1 <= Len(rel),
           NEW a, Progress(T, base, rel, n, a), NEW b, b = EnsureOne(a, rel[n + 1])
    PROVE  Progress(T, base, rel, n + 1, b)
<1> DEFINE items == ItemsOf(T)
           way(i) == Way(base, rel, i)
           name == rel[n + 1]
           item == FindItem(a.tables[a.at], name)
<1>1. base \in Route /\ Len(rel) \in Nat /\ n \in 0 .. Len(rel) /\ n + 1 \in 0 .. Len(rel)
  BY FunctionOf DEF SoundTree, Route
<1>2. /\ a = [ok |-> a.ok, at |-> a.at, tables |-> a.tables] /\ a.ok \in BOOLEAN
      /\ SoundTree(a.tables)
  BY DEF Progress
<1>3. PICK k \in 0 .. n :
         /\ ItemsOf(a.tables) = Tree!Over(items, MadeTo(base, rel, k))
         /\ a.ok => /\ k = n /\ a.at = way(n) /\ a.at \in DOMAIN a.tables
                    /\ \A i \in 1 .. n : ~Tree!IsVariable(items, way(i))
         /\ ~a.ok => /\ k + 1 <= n /\ Tree!IsVariable(items, way(k + 1))
                     /\ \A i \in 1 .. k : ~Tree!IsVariable(items, way(i))
  BY DEF Progress
<1>4. b = IF ~a.ok \/ item.type \in VariableTypes
          THEN [a EXCEPT !.ok = FALSE]
          ELSE [ok |-> TRUE, at |-> Append(a.at, name),
                tables |-> IF item = Scope THEN a.tables ELSE WithScope(a.tables, a.at, name)]
  BY DEF EnsureOne
<1>5. [a EXCEPT !.ok = FALSE] = [ok |-> FALSE, at |-> a.at, tables |-> a.tables]
  <2>1. PICK x, y, z : x = a.ok /\ y = a.at /\ z = a.tables
    OBVIOUS
  <2>2. a = [ok |-> x, at |-> y, tables |-> z]
    BY <1>2, <2>1
  <2>3. [a EXCEPT !.ok = FALSE] = [ok |-> FALSE, at |-> y, tables |-> z]
    <3>1. PICK w : w = FALSE
      OBVIOUS
    <3>2. [a EXCEPT !.ok = w] = [ok |-> w, at |-> y, tables |-> z]
      BY <2>2, OkSet
    <3> QED BY ONLY <3>1, <3>2
  <2> QED BY <2>1, <2>3
<1>6. name \in Names /\ way(n) \in Route /\ way(n + 1) = Append(way(n), name)
  BY <1>1, WayIs, WayNext
<1> HIDE DEF item, name
<1>7. CASE ~a.ok
  <2>1. b = [ok |-> FALSE, at |-> a.at, tables |-> a.tables]
    BY <1>4, <1>5, <1>7
  <2>2. b.ok = FALSE /\ b.at = a.at /\ b.tables = a.tables
    BY <2>1
  <2>3. k \in 0 .. n + 1 /\ k + 1 <= n + 1
    BY <1>3, <1>7
  <2>4. b = [ok |-> b.ok, at |-> b.at, tables |-> b.tables]
    BY <2>1
  <2> HIDE DEF items, way
  <2> QED BY <1>2, <1>3, <1>7, <2>2, <2>3, <2>4 DEF Progress, items, way
<1>8. CASE a.ok
  <2>1. k = n /\ a.at = way(n) /\ a.at \in DOMAIN a.tables /\ \A i \in 1 .. n : ~Tree!IsVariable(items, way(i))
    BY <1>3, <1>8
  <2>2. way(n + 1) \notin {way(i) : i \in 1 .. n}
    <3> SUFFICES ASSUME NEW i \in 1 .. n, way(n + 1) = way(i) PROVE FALSE
      OBVIOUS
    <3>1. i \in 0 .. Len(rel) /\ i # n + 1
      BY <1>1
    <3> QED BY <1>1, <3>1, WayApart
  <2>3. ItemsOf(a.tables) = Tree!Over(items, MadeTo(base, rel, n))
    BY <1>3, <2>1
  <2>4. /\ way(n + 1) \in DOMAIN ItemsOf(a.tables) <=> way(n + 1) \in DOMAIN items
        /\ way(n + 1) \in DOMAIN items => ItemsOf(a.tables)[way(n + 1)] = items[way(n + 1)]
    <3>1. DOMAIN MadeTo(base, rel, n) = {way(i) : i \in 1 .. n}
      BY DEF MadeTo
    <3> DEFINE q == way(n + 1)
               D == {way(i) : i \in 1 .. n}
               more == MadeTo(base, rel, n)
               x == ItemsOf(a.tables)
    <3>2. x = [p \in DOMAIN items \cup D |-> IF p \in D THEN more[p] ELSE items[p]]
      BY <2>3, <3>1 DEF Tree!Over
    <3>3. q \notin D
      BY <2>2
    <3> HIDE DEF q, D, more, x, items
    <3>4. (q \in DOMAIN x <=> q \in DOMAIN items) /\ (q \in DOMAIN items => x[q] = items[q])
      BY <3>2, <3>3
    <3> QED BY <3>4 DEF q, x, items
  <2>5. Tree!IsVariable(ItemsOf(a.tables), way(n + 1)) <=> Tree!IsVariable(items, way(n + 1))
    BY <2>4 DEF Tree!IsVariable
  <2>6. Tree!IsVariable(ItemsOf(a.tables), way(n + 1)) <=> item \in Tree!Variables
    <3>1. item = FindItem(a.tables[way(n)], name)
      BY <2>1 DEF item
    <3> HIDE DEF way
    <3>2. Tree!IsVariable(ItemsOf(a.tables), Append(way(n), name)) <=>
            way(n) \in DOMAIN a.tables /\ FindItem(a.tables[way(n)], name) \in Tree!Variables
      BY <1>2, <1>6, VariableAt
    <3> QED BY <1>6, <2>1, <3>1, <3>2
  <2>7. item \in Kinds \cup {NoItem}
    BY <1>2, <1>6, <2>1, FindType DEF item, SoundTree
  <2>8. CASE item \in Tree!Variables
    <3>1. item.type \in VariableTypes
      BY <2>8, KindsAre DEF Kinds
    <3>2. b = [ok |-> FALSE, at |-> a.at, tables |-> a.tables]
      BY <1>4, <1>5, <3>1
    <3>3. b.ok = FALSE /\ b.at = a.at /\ b.tables = a.tables
      BY <3>2
    <3>4. n \in 0 .. n + 1 /\ n + 1 <= n + 1
      OBVIOUS
    <3>5. b = [ok |-> b.ok, at |-> b.at, tables |-> b.tables]
      BY <3>2
    <3>6. Tree!IsVariable(items, way(n + 1))
      BY <2>5, <2>6, <2>8
    <3> HIDE DEF items, way
    <3> QED BY <1>2, <2>1, <2>3, <3>3, <3>4, <3>5, <3>6 DEF Progress, items, way
  <2>9. CASE item \notin Tree!Variables
    <3> DEFINE U == b.tables
    <3>1. item = Scope \/ item = NoItem
      BY <2>7, <2>9 DEF Kinds
    <3>2. item.type \notin VariableTypes
      BY <3>1, NoItemIs, KindsAre
    <3>3. b = [ok |-> TRUE, at |-> Append(a.at, name),
               tables |-> IF item = Scope THEN a.tables ELSE WithScope(a.tables, a.at, name)]
      BY <1>4, <1>8, <3>2
    <3>4. b.ok = TRUE /\ b.at = way(n + 1) /\ b = [ok |-> b.ok, at |-> b.at, tables |-> b.tables]
      BY <1>6, <2>1, <3>3
    <3>5. U = IF item = Scope THEN a.tables ELSE WithScope(a.tables, a.at, name)
      BY <3>3
    <3>6. /\ SoundTree(U) /\ way(n + 1) \in DOMAIN U
          /\ ItemsOf(U) = Tree!Over(ItemsOf(a.tables), OneEntry(way(n + 1), Scope))
      <4>1. CASE item = NoItem
        <5>1. U = WithScope(a.tables, a.at, name)
          BY <3>5, <4>1, NoItemIs
        <5>2. FindItem(a.tables[a.at], name) = NoItem
          BY <4>1 DEF item
        <5> HIDE DEF U, way
        <5>3. /\ SoundTree(U) /\ Append(a.at, name) \in DOMAIN U
              /\ ItemsOf(U) = Tree!Over(ItemsOf(a.tables), OneEntry(Append(a.at, name), Scope))
          <6>1. PICK p : p = a.at
            OBVIOUS
          <6>2. PICK V : V = a.tables
            OBVIOUS
          <6> QED BY <1>2, <1>6, <2>1, <5>1, <5>2, <6>1, <6>2, TreeScope
        <5> QED BY <1>6, <2>1, <5>3
      <4>2. CASE item = Scope
        <5>1. U = a.tables
          BY <3>5, <4>2
        <5>0. FindItem(a.tables[way(n)], name) = Scope /\ way(n) \in DOMAIN a.tables
          BY <2>1, <4>2 DEF item
        <5>2. way(n + 1) \in DOMAIN a.tables
          <6> HIDE DEF way
          <6>1. \A r \in Route, k1 \in Names :
                  Append(r, k1) \in DOMAIN a.tables <=> r \in DOMAIN a.tables /\ FindItem(a.tables[r], k1) = Scope
            BY <1>2 DEF SoundTree
          <6>2. Append(way(n), name) \in DOMAIN a.tables
            BY <1>6, <5>0, <6>1
          <6> QED BY <1>6, <6>2
        <5>3. way(n + 1) \in DOMAIN ItemsOf(a.tables) /\ ItemsOf(a.tables)[way(n + 1)] = Scope
          <6> HIDE DEF way
          <6>1. Append(way(n), name) \in DOMAIN ItemsOf(a.tables)
            BY <1>2, <1>6, <5>0, NoItemIs, ItemsDomain
          <6>2. ItemsOf(a.tables)[Append(way(n), name)] = Scope
            BY <1>2, <1>6, <5>0, NoItemIs, ItemsAt
          <6> QED BY <1>6, <6>1, <6>2
        <5>4. ItemsOf(a.tables) = Tree!Over(ItemsOf(a.tables), OneEntry(way(n + 1), Scope))
          <6> DEFINE x == ItemsOf(a.tables)
                     q == way(n + 1)
          <6>1. x = [r \in DOMAIN x |-> x[r]]
            BY DEF ItemsOf
          <6>2. q \in DOMAIN x /\ x[q] = Scope
            BY <5>3
          <6> HIDE DEF x, q
          <6>3. Tree!Over(x, OneEntry(q, Scope)) = [r \in DOMAIN x \cup {q} |-> IF r \in {q} THEN Scope ELSE x[r]]
            BY DEF Tree!Over, OneEntry
          <6>4. DOMAIN x \cup {q} = DOMAIN x
            BY <6>2
          <6>5. \A r \in DOMAIN x : x[r] = IF r \in {q} THEN Scope ELSE x[r]
            BY <6>2
          <6>6. Tree!Over(x, OneEntry(q, Scope)) = x
            BY <6>1, <6>3, <6>4, <6>5
          <6> QED BY <6>6 DEF x, q
        <5> QED BY <1>2, <5>1, <5>2, <5>4
      <4> QED BY <3>1, <4>1, <4>2
    <3>7. ItemsOf(U) = Tree!Over(items, MadeTo(base, rel, n + 1))
      BY <1>1, <2>3, <3>6, OverMade
    <3>8. ~Tree!IsVariable(items, way(n + 1))
      BY <2>5, <2>6, <2>9
    <3>9. \A i \in 1 .. n + 1 : ~Tree!IsVariable(items, way(i))
      <4>1. \A i \in 1 .. n + 1 : i \in 1 .. n \/ i = n + 1
        OBVIOUS
      <4> HIDE DEF items, way
      <4> QED BY <2>1, <3>8, <4>1
    <3>10. n + 1 \in 0 .. n + 1
      OBVIOUS
    <3> HIDE DEF items, way
    <3> QED BY <3>4, <3>6, <3>7, <3>9, <3>10 DEF Progress, items, way
  <2> QED BY <2>8, <2>9
<1> QED BY <1>2, <1>7, <1>8

\* ensureScopeExists makes the scopes that the tree says it makes.
LEMMA EnsureMakes ==
    ASSUME NEW T, SoundTree(T), NEW base \in DOMAIN T, NEW rel \in Route
    PROVE  Progress(T, base, rel, Len(rel), EnsureScopes(T, base, rel))
<1> DEFINE L == Len(rel)
           first == [tables |-> T, at |-> base, ok |-> TRUE]
           step(x, k) == EnsureOne(x, rel[k])
           At(g, l) == g = [k \in 0 .. l |-> IF k = 0 THEN first ELSE step(g[k - 1], k)]
           at == CHOOSE g : At(g, L)
           Ok(x, k) == Progress(T, base, rel, k, x)
<1>1. EnsureScopes(T, base, rel) = at[L]
  BY DEF EnsureScopes
<1>2. L \in Nat /\ base \in Route
  BY FunctionOf DEF Route, SoundTree
<1>3. ASSUME NEW k \in Nat, k + 1 <= L, NEW x, Ok(x, k) PROVE Ok(step(x, k + 1), k + 1)
  <2>1. PICK b : b = EnsureOne(x, rel[k + 1])
    OBVIOUS
  <2>2. Progress(T, base, rel, k + 1, b)
    BY <1>3, <2>1, EnsureStep
  <2> QED BY <2>1, <2>2
<1>4. Ok(first, 0)
  <2>1. first.ok = TRUE /\ first.at = base /\ first.tables = T
    OBVIOUS
  <2>2. first = [ok |-> first.ok, at |-> first.at, tables |-> first.tables]
    OBVIOUS
  <2> HIDE DEF first
  <2>3. ItemsOf(T) = Tree!Over(ItemsOf(T), MadeTo(base, rel, 0))
    <3>1. DOMAIN MadeTo(base, rel, 0) = {}
      BY DEF MadeTo
    <3> DEFINE x == ItemsOf(T)
               y == MadeTo(base, rel, 0)
    <3>2. x = [q \in DOMAIN x |-> x[q]]
      BY DEF ItemsOf
    <3>3. Tree!Over(x, y) = [q \in DOMAIN x \cup DOMAIN y |-> IF q \in DOMAIN y THEN y[q] ELSE x[q]]
      BY DEF Tree!Over
    <3> HIDE DEF x, y
    <3>4. DOMAIN x \cup DOMAIN y = DOMAIN x /\ \A q \in DOMAIN x : q \notin DOMAIN y
      BY <3>1 DEF y
    <3>5. Tree!Over(x, y) = x
      BY <3>2, <3>3, <3>4
    <3> QED BY <3>5 DEF x, y
  <2>4. Way(base, rel, 0) = base
    BY <1>2, WayZero
  <2>5. 0 \in 0 .. 0 /\ 1 .. 0 = {}
    OBVIOUS
  <2> QED BY <2>1, <2>2, <2>3, <2>4, <2>5 DEF Progress
<1> HIDE DEF L, first, step, Ok
<1>5. \E g : At(g, L)
  <2> DEFINE S == {l \in Nat : \E g : At(g, l)}
  <2>1. 0 \in S
    <3>1. At([k \in 0 .. 0 |-> first], 0)
      <4>1. \A k \in 0 .. 0 : k = 0
        OBVIOUS
      <4> QED BY <4>1
    <3> HIDE DEF At
    <3> QED BY <3>1
  <2>2. ASSUME NEW l \in Nat, l \in S PROVE l + 1 \in S
    <3>1. PICK g : At(g, l)
      BY <2>2
    <3> DEFINE h == [k \in 0 .. l + 1 |-> IF k <= l THEN g[k] ELSE step(g[l], l + 1)]
    <3>2. ASSUME NEW k \in 0 .. l + 1 PROVE h[k] = IF k = 0 THEN first ELSE step(h[k - 1], k)
      <4>1. CASE k = 0
        <5>1. 0 \in 0 .. l + 1 /\ 0 <= l /\ 0 \in 0 .. l
          OBVIOUS
        <5> QED BY <3>1, <4>1, <5>1
      <4>2. CASE k # 0 /\ k <= l
        <5>1. k \in 0 .. l /\ k - 1 \in 0 .. l + 1 /\ k - 1 <= l
          BY <4>2
        <5>2. h[k] = g[k] /\ h[k - 1] = g[k - 1]
          BY <4>2, <5>1
        <5> HIDE DEF h
        <5> QED BY <3>1, <4>2, <5>1, <5>2
      <4>3. CASE k = l + 1
        <5>1. l \in 0 .. l + 1 /\ l + 1 \in 0 .. l + 1 /\ ~(l + 1 <= l) /\ (l + 1) - 1 = l /\ l + 1 # 0 /\ l <= l
          OBVIOUS
        <5>2. h[l + 1] = step(g[l], l + 1) /\ h[l] = g[l]
          BY <5>1
        <5> HIDE DEF h
        <5> QED BY <4>3, <5>1, <5>2
      <4> QED BY <4>1, <4>2, <4>3
    <3>3. h = [k \in 0 .. l + 1 |-> h[k]]
      OBVIOUS
    <3> HIDE DEF h
    <3>4. At(h, l + 1)
      BY <3>2, <3>3
    <3> HIDE DEF At
    <3> QED BY <3>4
  <2>3. Nat \subseteq S
    <3> HIDE DEF S
    <3> QED BY <2>1, <2>2, SetInduction
  <2> QED BY <1>2, <2>3 DEF L
<1>6. At(at, L)
  <2> HIDE DEF At
  <2> QED BY <1>5
<1> HIDE DEF at
<1> DEFINE S == {k \in Nat : k <= L => Ok(at[k], k)}
<1>7. L \in Nat
  BY <1>2 DEF L
<1>8. 0 \in S
  <2>1. 0 \in 0 .. L
    BY <1>7
  <2>2. at[0] = first
    BY <1>6, <2>1
  <2> QED BY <1>4, <2>2 DEF first
<1>9. ASSUME NEW k \in Nat, k \in S PROVE k + 1 \in S
  <2> SUFFICES ASSUME k + 1 <= L PROVE Ok(at[k + 1], k + 1)
    OBVIOUS
  <2>1. k <= L /\ k + 1 \in 0 .. L /\ k + 1 # 0 /\ (k + 1) - 1 = k
    BY <1>7
  <2>2. Ok(at[k], k)
    BY <1>9, <2>1
  <2>3. at[k + 1] = step(at[k], k + 1)
    BY <1>6, <2>1
  <2> QED BY <1>3, <2>2, <2>3 DEF L
<1>10. Nat \subseteq S
  <2> HIDE DEF S
  <2> QED BY <1>8, <1>9, SetInduction
<1>11. Ok(at[L], L)
  BY <1>7, <1>10
<1> QED BY <1>1, <1>11 DEF Ok, L

\* ensureScopeExists makes what the tree says, up to a variable in its way.
LEMMA EnsureIs ==
    ASSUME NEW T, SoundTree(T), NEW base \in DOMAIN T, NEW rel \in Route, NEW a, a = EnsureScopes(T, base, rel)
    PROVE  /\ SoundTree(a.tables) /\ a.ok \in BOOLEAN
           /\ ItemsOf(a.tables) = Tree!WithScopes(ItemsOf(T), base, rel)
           /\ a.ok <=> Tree!Obstacles(ItemsOf(T), base, rel) = {}
           /\ a.ok => a.at = base \o rel /\ a.at \in DOMAIN a.tables
<1> DEFINE items == ItemsOf(T)
           L == Len(rel)
           O == Tree!Obstacles(items, base, rel)
<1>1. Progress(T, base, rel, L, a)
  BY EnsureMakes
<1>2. SoundTree(a.tables) /\ a.ok \in BOOLEAN
  BY <1>1 DEF Progress
<1>3. PICK k \in 0 .. L :
         /\ ItemsOf(a.tables) = Tree!Over(items, MadeTo(base, rel, k))
         /\ a.ok => /\ k = L /\ a.at = Way(base, rel, L) /\ a.at \in DOMAIN a.tables
                    /\ \A i \in 1 .. L : ~Tree!IsVariable(items, Way(base, rel, i))
         /\ ~a.ok => /\ k + 1 <= L /\ Tree!IsVariable(items, Way(base, rel, k + 1))
                     /\ \A i \in 1 .. k : ~Tree!IsVariable(items, Way(base, rel, i))
  BY <1>1 DEF Progress
<1>4. O = {i \in 1 .. L : Tree!IsVariable(items, Way(base, rel, i))}
  BY DEF Tree!Obstacles, Tree!Upto, Way
<1>5. L \in Nat /\ rel \in Seq(Names)
  BY FunctionOf DEF Route
<1>6. Way(base, rel, L) = base \o rel
  BY <1>5, SubSeqFull DEF Way
<1> DEFINE last == IF O = {} THEN L ELSE Tree!FirstObstacle(items, base, rel) - 1
<1>7. Tree!WithScopes(items, base, rel) = Tree!Over(items, MadeTo(base, rel, last))
  BY DEF Tree!WithScopes, Tree!Upto, MadeTo, Way, Tree!Scope, Scope
<1>8. CASE a.ok
  <2> HIDE DEF items
  <2>1. O = {}
    BY <1>3, <1>4, <1>8
  <2>2. last = L /\ k = L
    BY <1>3, <1>8, <2>1
  <2> HIDE DEF O, last
  <2> QED BY <1>2, <1>3, <1>6, <1>7, <1>8, <2>1, <2>2 DEF O, items
<1>9. CASE ~a.ok
  <2>1. k + 1 \in O /\ \A j \in O : k + 1 <= j
    <3> HIDE DEF items, O
    <3>1. k \in Nat /\ k + 1 \in 1 .. L
      BY <1>3, <1>5, <1>9
    <3>2. k + 1 \in O
      BY <1>3, <1>4, <1>9, <3>1
    <3>3. ASSUME NEW j \in O PROVE k + 1 <= j
      <4>1. j \in 1 .. L /\ Tree!IsVariable(items, Way(base, rel, j))
        BY <1>4
      <4>2. j \notin 1 .. k
        BY <1>3, <1>9, <4>1
      <4> QED BY <3>1, <4>1, <4>2
    <3> QED BY <3>2, <3>3
  <2>2. Tree!FirstObstacle(items, base, rel) = k + 1
    <3>1. Tree!FirstObstacle(items, base, rel) = CHOOSE i \in O : \A j \in O : i <= j
      BY DEF Tree!FirstObstacle
    <3>2. O \subseteq Nat
      BY <1>4
    <3> HIDE DEF O
    <3>3. ASSUME NEW i \in O, \A j \in O : i <= j PROVE i = k + 1
      BY <2>1, <3>2, <3>3
    <3> QED BY <2>1, <3>1, <3>3
  <2>3. O # {} /\ last = k
    <3> HIDE DEF O, items
    <3>1. O # {}
      BY <2>1
    <3>2. last = (k + 1) - 1
      BY <2>2, <3>1
    <3> HIDE DEF last
    <3> QED BY <3>1, <3>2
  <2> HIDE DEF O, last
  <2> QED BY <1>2, <1>3, <1>7, <1>9, <2>3 DEF O, items
<1> QED BY <1>2, <1>8, <1>9
-----------------------------------------------------------------------------
\* A name that is not empty has one or two components, the empty one has none.
LEMMA SplitIs ==
    ASSUME NEW name \in ApiNames
    PROVE  Split(name) \in Route /\ Split(name) # <<>> /\ Split(name) \in UNION {[1 .. n -> Names] : n \in 1 .. 2}
<1>1. CASE name = <<>>
  <2>1. Split(name) = <<"">>
    BY <1>1 DEF Split
  <2>0. "" \in Names
    BY NamesAssumption
  <2>2. <<"">> \in [1 .. 1 -> Names]
    <3>1. \A z \in Names : <<z>> \in [1 .. 1 -> Names]
      OBVIOUS
    <3> QED BY <2>0, <3>1
  <2>3. <<"">> # <<>> /\ <<"">> \in Route
    <3>1. \A z \in Names : <<z>> # <<>> /\ <<z>> \in Seq(Names)
      OBVIOUS
    <3> QED BY <2>0, <3>1 DEF Route
  <2>4. 1 \in 1 .. 2
    OBVIOUS
  <2> QED BY <2>1, <2>2, <2>3, <2>4
<1>2. CASE name # <<>>
  <2>1. Split(name) = name
    BY <1>2 DEF Split
  <2>2. name \in [1 .. 1 -> Names] \/ name \in [1 .. 2 -> Names]
    BY <1>2 DEF ApiNames
  <2>3. \A n \in 1 .. 2 : [1 .. n -> Names] \subseteq Route
    BY SequenceOf DEF Route
  <2>4. 1 \in 1 .. 2 /\ 2 \in 1 .. 2
    OBVIOUS
  <2> QED BY <1>2, <2>1, <2>2, <2>3, <2>4
<1> QED BY <1>1, <1>2

\* What is a scope stays one when scopes are made.
LEMMA ScopesStay ==
    ASSUME NEW items, NEW base, NEW rel, NEW p, Tree!IsScope(items, p)
    PROVE  Tree!IsScope(Tree!WithScopes(items, base, rel), p)
<1>1. CASE p = <<>>
  BY <1>1 DEF Tree!IsScope
<1>2. CASE p \in DOMAIN items /\ items[p] = Scope
  <2>1. PICK D, more : more = [q \in D |-> Scope] /\ Tree!WithScopes(items, base, rel) = Tree!Over(items, more)
    BY DEF Tree!WithScopes, Tree!Scope, Scope
  <2>2. Tree!Over(items, more) = [q \in DOMAIN items \cup D |-> IF q \in D THEN Scope ELSE items[q]]
    BY <2>1 DEF Tree!Over
  <2> QED BY <1>2, <2>1, <2>2 DEF Tree!IsScope, Tree!Scope, Scope
<1> QED BY <1>1, <1>2 DEF Tree!IsScope, Tree!Scope, Scope

LEMMA EnsureKeeps ==
    ASSUME NEW T, SoundTree(T), NEW base \in DOMAIN T, NEW rel \in Route, NEW p \in DOMAIN T
    PROVE  p \in DOMAIN EnsureScopes(T, base, rel).tables
<1>1. PICK a : a = EnsureScopes(T, base, rel)
  OBVIOUS
<1>2. SoundTree(a.tables) /\ ItemsOf(a.tables) = Tree!WithScopes(ItemsOf(T), base, rel)
  BY <1>1, EnsureIs
<1>3. p \in Route
  BY DEF SoundTree
<1>4. Tree!IsScope(ItemsOf(T), p)
  BY <1>3, ScopeAt
<1>5. Tree!IsScope(ItemsOf(a.tables), p)
  BY <1>2, <1>4, ScopesStay
<1> QED BY <1>1, <1>2, <1>3, <1>5, ScopeAt

\* A name of any length, as a statement of a source may have.
LEMMA SplitAny ==
    ASSUME NEW name \in Route
    PROVE  Split(name) \in Route /\ Split(name) # <<>> /\ (name # <<>> => Split(name) = name)
<1>1. CASE name = <<>>
  <2>1. <<>> \in ApiNames /\ Split(<<>>) \in Route /\ Split(<<>>) # <<>>
    BY SplitIs DEF ApiNames
  <2> QED BY <1>1, <2>1
<1>2. CASE name # <<>>
  BY <1>2 DEF Split
<1> QED BY <1>1, <1>2

LEMMA ApiRoutes == ApiNames \subseteq Route
<1> SUFFICES ASSUME NEW name \in ApiNames PROVE name \in Route
  OBVIOUS
<1>1. CASE name = <<>>
  BY <1>1 DEF Route
<1>2. CASE name # <<>>
  BY <1>2, SplitIs DEF Split
<1> QED BY <1>1, <1>2

\* insertString and insertList write what the tree says they write.
LEMMA InsertedIs ==
    ASSUME NEW T, SoundTree(T), NEW base \in DOMAIN T, NEW name \in Route, NEW item \in Tree!Variables,
           NEW U, U = Inserted(T, base, name, item)
    PROVE  /\ SoundTree(U) /\ ItemsOf(U) = Tree!Written(ItemsOf(T), base, Split(name), item)
           /\ base \in DOMAIN U
<1> DEFINE rel == Split(name)
           items == ItemsOf(T)
           front == Front(rel)
           key == Last(rel)
           e == EnsureScopes(T, base, front)
<1>1. rel \in Route /\ rel # <<>>
  BY SplitAny
<1>2. U = IF e.ok /\ FindItem(e.tables[e.at], key) # Scope
          THEN [e.tables EXCEPT ![e.at] = AddOrReplace(@, key, item)] ELSE e.tables
  BY DEF Inserted
<1>3. Tree!Parent(rel) = front
  BY DEF Tree!Parent, Tree!Upto, Front
<1> HIDE DEF rel
<1>4. front \in Route /\ key \in Names /\ rel = Append(front, key)
  BY <1>1, SplitLast DEF Route
<1> HIDE DEF front, key
<1>5. /\ SoundTree(e.tables) /\ e.ok \in BOOLEAN
      /\ ItemsOf(e.tables) = Tree!WithScopes(items, base, front)
      /\ e.ok <=> Tree!Obstacles(items, base, front) = {}
      /\ e.ok => e.at = base \o front /\ e.at \in DOMAIN e.tables
  <2>1. PICK a : a = e
    OBVIOUS
  <2> QED BY <1>4, <2>1, EnsureIs
<1>6. base \in DOMAIN e.tables
  BY <1>4, EnsureKeeps
<1>7. base \in Route
  BY DEF SoundTree
<1>8. base \o front \in Route /\ base \o rel = Append(base \o front, key)
  BY <1>4, <1>7, ConcatAppend DEF Route
<1> HIDE DEF e
<1>9. Tree!CanWrite(items, base, rel) <=> Tree!Obstacles(items, base, front) = {} /\ ~Tree!IsScope(items, base \o rel)
  BY <1>3 DEF Tree!CanWrite
<1>10. Tree!Written(items, base, rel, item) =
         IF Tree!CanWrite(items, base, rel)
         THEN Tree!Over(Tree!WithScopes(items, base, front), OneEntry(base \o rel, item))
         ELSE Tree!WithScopes(items, base, front)
  BY <1>3 DEF Tree!Written, OneEntry
<1>11. e.ok => (FindItem(e.tables[e.at], key) = Scope <=> Tree!IsScope(items, base \o rel))
  <2> SUFFICES ASSUME e.ok PROVE FindItem(e.tables[e.at], key) = Scope <=> Tree!IsScope(items, base \o rel)
    OBVIOUS
  <2>1. e.at = base \o front /\ e.at \in DOMAIN e.tables
    BY <1>5
  <2>2. base \o rel \in Route
    BY <1>4, <1>8, RouteIs
  <2>3. FindItem(e.tables[e.at], key) = Scope <=> base \o rel \in DOMAIN e.tables
    <3>1. \A r \in Route, k \in Names :
            Append(r, k) \in DOMAIN e.tables <=> r \in DOMAIN e.tables /\ FindItem(e.tables[r], k) = Scope
      BY <1>5 DEF SoundTree
    <3>2. Append(base \o front, key) \in DOMAIN e.tables <=>
            base \o front \in DOMAIN e.tables /\ FindItem(e.tables[base \o front], key) = Scope
      BY <1>4, <1>8, <3>1
    <3> QED BY <1>8, <2>1, <3>2
  <2>4. base \o rel \in DOMAIN e.tables <=> Tree!IsScope(Tree!WithScopes(items, base, front), base \o rel)
    BY <1>5, <2>2, ScopeAt
  <2>5. Tree!IsScope(Tree!WithScopes(items, base, front), base \o rel) => Tree!IsScope(items, base \o rel)
    <3>1. Tree!Obstacles(items, base, front) = {}
      BY <1>5
    <3>2. Tree!WithScopes(items, base, front) =
            Tree!Over(items, [p \in {base \o Tree!Upto(front, i) : i \in 1 .. Len(front)} |-> Tree!Scope])
      BY <3>1 DEF Tree!WithScopes
    <3>3. base \o rel \notin {base \o Tree!Upto(front, i) : i \in 1 .. Len(front)}
      <4> SUFFICES ASSUME NEW i \in 1 .. Len(front), base \o rel = base \o Tree!Upto(front, i) PROVE FALSE
        OBVIOUS
      <4>1. Way(base, front, i) = base \o rel
        BY DEF Way, Tree!Upto
      <4>2. i \in 0 .. Len(front) /\ Len(front) \in Nat
        BY <1>4, FunctionOf DEF Route
      <4>3. Len(base \o rel) = Len(base) + i /\ Len(base) \in Nat
        <5>1. Len(Way(base, front, i)) = Len(base) + i /\ Len(base) \in Nat
          <6>1. front \in Route /\ base \in Route /\ i \in 0 .. Len(front)
            BY <1>4, <1>7, <4>2
          <6> QED BY ONLY <6>1, WayIs
        <5> QED BY <4>1, <5>1
      <4>4. Len(base \o rel) = Len(base) + Len(rel)
        BY <1>1, <1>7, ConcatProperties DEF Route
      <4>5. Len(rel) = Len(front) + 1
        BY <1>4, AppendProperties DEF Route
      <4> QED BY <4>2, <4>3, <4>4, <4>5
    <3> DEFINE D == {base \o Tree!Upto(front, i) : i \in 1 .. Len(front)}
               q == base \o rel
               w == Tree!WithScopes(items, base, front)
    <3>4. w = [p \in DOMAIN items \cup D |-> IF p \in D THEN Tree!Scope ELSE items[p]]
      BY <3>2 DEF Tree!Over
    <3>5. q \notin D
      BY <3>3
    <3> HIDE DEF D, q, w, items
    <3>6. Tree!IsScope(w, q) => Tree!IsScope(items, q)
      BY <3>4, <3>5 DEF Tree!IsScope
    <3> QED BY <3>6 DEF q, w
  <2>6. Tree!IsScope(items, base \o rel) => Tree!IsScope(Tree!WithScopes(items, base, front), base \o rel)
    BY ScopesStay
  <2> QED BY <2>3, <2>4, <2>5, <2>6
<1>12. CASE ~(e.ok /\ FindItem(e.tables[e.at], key) # Scope)
  <2>1. U = e.tables
    BY <1>2, <1>12
  <2>2. ~Tree!CanWrite(items, base, rel)
    BY <1>5, <1>9, <1>11, <1>12
  <2> QED BY <1>5, <1>6, <1>10, <2>1, <2>2 DEF rel
<1>13. CASE e.ok /\ FindItem(e.tables[e.at], key) # Scope
  <2>1. U = [e.tables EXCEPT ![e.at] = AddOrReplace(@, key, item)]
    BY <1>2, <1>13
  <2>2. Tree!CanWrite(items, base, rel)
    BY <1>5, <1>9, <1>11, <1>13
  <2>3. e.at \in DOMAIN e.tables /\ e.at = base \o front
    BY <1>5, <1>13
  <2>4. PICK V, p : V = e.tables /\ p = e.at
    OBVIOUS
  <2>5. SoundTree(V) /\ p \in DOMAIN V /\ FindItem(V[p], key) # Scope
    BY <1>5, <1>13, <2>3, <2>4
  <2>9. PICK u : u = AddOrReplace(V[p], key, item)
    OBVIOUS
  <2>10. /\ U = [r \in DOMAIN U |-> U[r]] /\ DOMAIN U = DOMAIN V /\ U[p] = u
         /\ \A r \in DOMAIN V : r # p => U[r] = V[r]
    <3>1. U = [V EXCEPT ![p] = u]
      BY <2>1, <2>4, <2>9
    <3>2. V = [r \in DOMAIN V |-> V[r]]
      BY <2>5 DEF SoundTree
    <3> QED BY <2>5, <3>1, <3>2
  <2>6. SoundTree(U) /\ ItemsOf(U) = Tree!Over(ItemsOf(V), OneEntry(Append(p, key), item))
    BY <1>4, <2>5, <2>9, <2>10, TreePut
  <2>7. DOMAIN U = DOMAIN e.tables
    BY <2>1
  <2>8. ItemsOf(U) = Tree!Written(items, base, rel, item)
    BY <1>5, <1>8, <1>10, <2>2, <2>3, <2>4, <2>6
  <2> QED BY <1>6, <2>6, <2>7, <2>8 DEF rel
<1> QED BY <1>12, <1>13

\* The item at the end of a route through nested scopes.
LEMMA ReachedIs ==
    ASSUME NEW T, SoundTree(T), NEW base \in DOMAIN T, NEW rel \in Route, rel # <<>>
    PROVE  Reached(T, base, rel) = Under(T, base \o Front(rel), Last(rel))
<1> DEFINE L == Len(rel)
           step(x, k) == IF x # Scope THEN NoItem ELSE FindItem(T[base \o SubSeq(rel, 1, k - 1)], rel[k])
           At(g) == g = [k \in 0 .. L |-> IF k = 0 THEN Scope ELSE step(g[k - 1], k)]
           at == CHOOSE g : At(g)
           h == [k \in 0 .. L |-> IF k = 0 THEN Scope ELSE Under(T, Way(base, rel, k - 1), rel[k])]
<1>1. Reached(T, base, rel) = at[L]
  BY DEF Reached
<1>2. L \in Nat \ {0} /\ base \in Route /\ Front(rel) = SubSeq(rel, 1, L - 1) /\ Last(rel) = rel[L]
  BY EmptySeq DEF Route, SoundTree, Front, Last
<1>3. ASSUME NEW k \in Nat, k + 1 <= L PROVE Under(T, Way(base, rel, k), rel[k + 1]) = step(h[k], k + 1)
  <2>1. k \in 0 .. L /\ k \in 0 .. Len(rel) /\ (k + 1) - 1 = k
    BY <1>2, <1>3
  <2>2. step(h[k], k + 1) = IF h[k] # Scope THEN NoItem ELSE FindItem(T[Way(base, rel, k)], rel[k + 1])
    BY <2>1 DEF Way
  <2>3. h[k] = Scope <=> Way(base, rel, k) \in DOMAIN T
    <3>1. CASE k = 0
      <4>1. Way(base, rel, 0) = base
        BY <1>2, WayZero
      <4> QED BY <2>1, <3>1, <4>1
    <3>2. CASE k # 0
      <4>1. PICK j \in Nat : j = k - 1
        BY <3>2
      <4>2. j + 1 = k /\ j \in 0 .. Len(rel) /\ j + 1 <= Len(rel)
        BY <1>2, <1>3, <4>1
      <4>3. rel[k] \in Names /\ Way(base, rel, k) = Append(Way(base, rel, j), rel[k])
        BY <1>2, <4>2, WayNext
      <4>4. Way(base, rel, j) \in Route
        BY <1>2, <4>2, WayIs
      <4>5. h[k] = Under(T, Way(base, rel, j), rel[k])
        BY <2>1, <3>2, <4>1
      <4>6. Way(base, rel, k) \in DOMAIN T <=>
              Way(base, rel, j) \in DOMAIN T /\ FindItem(T[Way(base, rel, j)], rel[k]) = Scope
        <5>1. \A r \in Route, m \in Names :
                Append(r, m) \in DOMAIN T <=> r \in DOMAIN T /\ FindItem(T[r], m) = Scope
          BY DEF SoundTree
        <5>2. Append(Way(base, rel, j), rel[k]) \in DOMAIN T <=>
                Way(base, rel, j) \in DOMAIN T /\ FindItem(T[Way(base, rel, j)], rel[k]) = Scope
          BY <4>3, <4>4, <5>1
        <5> QED BY <4>3, <5>2
      <4> HIDE DEF h
      <4> QED BY <4>5, <4>6, NoItemIs DEF Under
    <3> QED BY <3>1, <3>2
  <2> HIDE DEF h, step
  <2> QED BY <2>2, <2>3 DEF Under
<1>4. At(h)
  <2>1. ASSUME NEW k \in 0 .. L PROVE h[k] = IF k = 0 THEN Scope ELSE step(h[k - 1], k)
    <3>1. CASE k = 0
      BY <3>1
    <3>2. CASE k # 0
      <4>1. PICK j \in Nat : j = k - 1
        BY <1>2, <3>2
      <4>2. j + 1 = k /\ j + 1 <= L
        BY <1>2, <4>1
      <4>3. h[k] = Under(T, Way(base, rel, j), rel[k])
        BY <3>2, <4>1
      <4> HIDE DEF h, step
      <4> QED BY <1>3, <3>2, <4>1, <4>2, <4>3
    <3> QED BY <3>1, <3>2
  <2>2. h = [k \in 0 .. L |-> h[k]]
    OBVIOUS
  <2> HIDE DEF h, step
  <2> QED BY <2>1, <2>2
<1>5. At(at)
  <2> HIDE DEF At
  <2> QED BY <1>4
<1> HIDE DEF at, step, h
<1> DEFINE S == {k \in Nat : k <= L => at[k] = h[k]}
<1>6. 0 \in S
  <2>1. 0 \in 0 .. L
    BY <1>2
  <2> QED BY <1>4, <1>5, <2>1
<1>7. ASSUME NEW k \in Nat, k \in S PROVE k + 1 \in S
  <2> SUFFICES ASSUME k + 1 <= L PROVE at[k + 1] = h[k + 1]
    OBVIOUS
  <2>1. k <= L /\ k + 1 \in 0 .. L /\ k + 1 # 0 /\ (k + 1) - 1 = k
    BY <1>2
  <2>2. at[k] = h[k]
    BY <1>7, <2>1
  <2>3. at[k + 1] = step(at[k], k + 1)
    BY <1>5, <2>1
  <2>4. h[k + 1] = step(h[k], k + 1)
    BY <1>4, <2>1
  <2> QED BY <2>2, <2>3, <2>4
<1>8. Nat \subseteq S
  <2> HIDE DEF S
  <2> QED BY <1>6, <1>7, SetInduction
<1>9. at[L] = h[L]
  BY <1>2, <1>8
<1>10. h[L] = Under(T, Way(base, rel, L - 1), rel[L])
  BY <1>2 DEF h
<1> QED BY <1>1, <1>2, <1>9, <1>10 DEF Way

\* Following a route yields the entry there, or nothing.
LEMMA ReachedItem ==
    ASSUME NEW T, SoundTree(T), NEW base \in DOMAIN T, NEW rel \in Route, rel # <<>>
    PROVE  /\ base \o rel \in Route /\ base \o rel # <<>>
           /\ base \o rel \in DOMAIN ItemsOf(T) <=> Reached(T, base, rel) # NoItem
           /\ base \o rel \in DOMAIN ItemsOf(T) => Reached(T, base, rel) = ItemsOf(T)[base \o rel]
<1> DEFINE p == base \o Front(rel)
           m == Last(rel)
<1>1. Front(rel) \in Route /\ m \in Names /\ rel = Append(Front(rel), m)
  BY SplitLast DEF Route
<1>2. base \in Route
  BY DEF SoundTree
<1>3. p \in Route /\ base \o rel = Append(p, m)
  <2> HIDE DEF m
  <2>1. PICK f : f = Front(rel)
    OBVIOUS
  <2>2. base \o f \in Route /\ base \o Append(f, m) = Append(base \o f, m)
    BY <1>1, <1>2, <2>1, ConcatAppend DEF Route
  <2> QED BY <1>1, <2>1, <2>2
<1>4. Reached(T, base, rel) = Under(T, p, m)
  BY ReachedIs
<1> HIDE DEF p, m
<1>5. base \o rel \in Route /\ base \o rel # <<>>
  BY <1>1, <1>3, RouteIs
<1>6. base \o rel \in DOMAIN ItemsOf(T) <=> p \in DOMAIN T /\ FindItem(T[p], m) # NoItem
  BY <1>1, <1>3, ItemsDomain
<1>7. p \in DOMAIN T /\ FindItem(T[p], m) # NoItem => ItemsOf(T)[base \o rel] = FindItem(T[p], m)
  BY <1>1, <1>3, ItemsAt
<1> QED BY <1>4, <1>5, <1>6, <1>7 DEF Under

\* remove removes the entry and everything in it.
LEMMA RemovedIs ==
    ASSUME NEW T, SoundTree(T), NEW base \in DOMAIN T, NEW name \in ApiNames,
           NEW U, U = Removed(T, base, name)
    PROVE  /\ SoundTree(U) /\ ItemsOf(U) = Tree!Without(ItemsOf(T), base \o Split(name))
           /\ base \in DOMAIN U
<1> DEFINE rel == Split(name)
           items == ItemsOf(T)
           parent == base \o Front(rel)
           victim == base \o rel
           key == Last(rel)
<1>1. rel \in Route /\ rel # <<>> /\ base \in Route
  BY SplitIs DEF SoundTree
<1>2. U = IF Reached(T, base, rel) = NoItem THEN T
          ELSE [p \in {q \in DOMAIN T : ~IsPrefix(victim, q)} |->
                  IF p = parent THEN RemoveItem(T[p], key) ELSE T[p]]
  BY DEF Removed
<1> HIDE DEF rel
<1>3. Front(rel) \in Route /\ key \in Names /\ rel = Append(Front(rel), key)
  BY <1>1, SplitLast DEF Route
<1>4. parent \in Route /\ victim = Append(parent, key)
  <2> HIDE DEF key
  <2>1. PICK f : f = Front(rel)
    OBVIOUS
  <2>2. base \o f \in Route /\ base \o Append(f, key) = Append(base \o f, key)
    BY <1>1, <1>3, <2>1, ConcatAppend DEF Route
  <2> QED BY <1>3, <2>1, <2>2
<1>5. /\ victim \in Route /\ victim # <<>>
      /\ victim \in DOMAIN items <=> Reached(T, base, rel) # NoItem
  BY <1>1, ReachedItem
<1>6. Reached(T, base, rel) = Under(T, parent, key)
  BY <1>1, ReachedIs
<1>7. Tree!Without(items, victim) = [p \in {q \in DOMAIN items : ~IsPrefix(victim, q)} |-> items[p]]
  <2>1. \A q : Tree!IsPrefix(victim, q) <=> IsPrefix(victim, q)
    BY <1>5, PrefixesAgree DEF Route
  <2> HIDE DEF victim, items
  <2>2. {q \in DOMAIN items : ~Tree!IsPrefix(victim, q)} = {q \in DOMAIN items : ~IsPrefix(victim, q)}
    BY <2>1
  <2> QED BY <2>2 DEF Tree!Without
<1>8. ~IsPrefix(victim, base)
  <2>1. Len(victim) = Len(base) + Len(rel) /\ Len(base) \in Nat /\ Len(rel) \in Nat \ {0}
    BY <1>1, ConcatProperties, FunctionOf, EmptySeq DEF Route
  <2>2. ~(Len(victim) <= Len(base))
    BY <2>1
  <2> QED BY <2>2 DEF IsPrefix
<1> HIDE DEF victim, parent, key
<1>9. CASE Reached(T, base, rel) = NoItem
  <2>1. U = T
    BY <1>2, <1>9
  <2>2. \A q \in DOMAIN items : ~IsPrefix(victim, q)
    BY <1>5, <1>9, NothingBelow
  <2>3. items = [q \in DOMAIN items |-> items[q]]
    BY DEF ItemsOf
  <2> HIDE DEF items
  <2>4. {q \in DOMAIN items : ~IsPrefix(victim, q)} = DOMAIN items
    BY <2>2
  <2>5. Tree!Without(items, victim) = items
    BY <1>7, <2>3, <2>4
  <2> QED BY <2>1, <2>5 DEF items, victim, rel
<1>10. CASE Reached(T, base, rel) # NoItem
  <2>1. U = [p \in {q \in DOMAIN T : ~IsPrefix(victim, q)} |->
               IF p = parent THEN RemoveItem(T[p], key) ELSE T[p]]
    BY <1>2, <1>10
  <2>2. parent \in DOMAIN T /\ FindItem(T[parent], key) # NoItem
    BY <1>6, <1>10 DEF Under
  <2> DEFINE u == RemoveItem(T[parent], key)
  <2>3. Well(u) /\ \A k \in Names : FindItem(u, k) = IF k = key THEN NoItem ELSE FindItem(T[parent], k)
    BY <1>3, <2>2, DropIs, DropFinds DEF SoundTree
  <2>4. ~IsPrefix(victim, parent)
    <3>1. Len(victim) = Len(parent) + 1 /\ Len(parent) \in Nat
      BY <1>3, <1>4, AppendProperties, FunctionOf DEF Route
    <3>2. ~(Len(victim) <= Len(parent))
      BY <3>1
    <3> QED BY <3>2 DEF IsPrefix
  <2> HIDE DEF u
  <2>5. /\ U = [p \in DOMAIN U |-> U[p]] /\ DOMAIN U = {q \in DOMAIN T : ~IsPrefix(victim, q)}
        /\ parent \in DOMAIN U /\ U[parent] = u /\ \A p \in DOMAIN U : p # parent => U[p] = T[p]
    BY <2>1, <2>2, <2>4 DEF u
  <2>6. \A p \in DOMAIN U : Well(U[p])
    BY <2>3, <2>5 DEF SoundTree
  <2>7. \A r \in Route, k \in Names : IsPrefix(victim, Append(r, k)) <=> victim = Append(r, k) \/ IsPrefix(victim, r)
    BY <1>5, PrefixOfAppend DEF Route
  <2>8. \A r \in Route, k \in Names : victim = Append(r, k) <=> r = parent /\ k = key
    BY <1>3, <1>4, RouteEnd
  <2>9. \A r \in Route, k \in Names :
          Under(U, r, k) = IF IsPrefix(victim, Append(r, k)) THEN NoItem ELSE Under(T, r, k)
    <3> SUFFICES ASSUME NEW r \in Route, NEW k \in Names
                 PROVE  Under(U, r, k) = IF IsPrefix(victim, Append(r, k)) THEN NoItem ELSE Under(T, r, k)
      OBVIOUS
    <3>1. CASE r = parent
      <4>1. IsPrefix(victim, Append(r, k)) <=> k = key
        BY <2>4, <2>7, <2>8, <3>1
      <4> QED BY <2>2, <2>3, <2>5, <3>1, <4>1 DEF Under
    <3>2. CASE r # parent /\ r \in DOMAIN T
      <4>1. IsPrefix(victim, Append(r, k)) <=> IsPrefix(victim, r)
        BY <2>7, <2>8, <3>2
      <4> QED BY <2>5, <3>2, <4>1 DEF Under
    <3>3. CASE r \notin DOMAIN T
      BY <2>5, <3>3 DEF Under
    <3> QED BY <3>1, <3>2, <3>3
  <2>10. ASSUME NEW r \in Route, NEW k \in Names
         PROVE  Append(r, k) \in DOMAIN U <=> r \in DOMAIN U /\ FindItem(U[r], k) = Scope
    <3>1. Append(r, k) \in DOMAIN T <=> Under(T, r, k) = Scope
      BY NoItemIs DEF SoundTree, Under
    <3>2. r \in DOMAIN U /\ FindItem(U[r], k) = Scope <=> Under(U, r, k) = Scope
      BY NoItemIs DEF Under
    <3>3. Under(U, r, k) = IF IsPrefix(victim, Append(r, k)) THEN NoItem ELSE Under(T, r, k)
      BY <2>9
    <3>4. Append(r, k) \in DOMAIN U <=> Append(r, k) \in DOMAIN T /\ ~IsPrefix(victim, Append(r, k))
      BY <2>5
    <3> QED BY <3>1, <3>2, <3>3, <3>4, NoItemIs
  <2>11. ~IsPrefix(victim, <<>>)
    <3>1. Len(victim) \in Nat \ {0} /\ Len(<<>>) = 0
      BY <1>5, EmptySeq DEF Route
    <3>2. ~(Len(victim) <= Len(<<>>))
      BY <3>1
    <3> QED BY <3>2 DEF IsPrefix
  <2>12. SoundTree(U)
    <3>1. DOMAIN U \in SUBSET Route /\ <<>> \in DOMAIN U
      BY <2>5, <2>11 DEF SoundTree
    <3> QED BY <2>5, <2>6, <2>10, <3>1 DEF SoundTree
  <2> DEFINE f == Tree!Without(items, victim)
  <2>13. /\ f = [q \in DOMAIN f |-> f[q]] /\ DOMAIN f = {q \in DOMAIN items : ~IsPrefix(victim, q)}
         /\ \A q \in DOMAIN f : f[q] = items[q]
    BY <1>7
  <2> HIDE DEF f
  <2>14. ASSUME NEW q \in DOMAIN f PROVE \E r \in Route, k \in Names : q = Append(r, k)
    <3>1. PICK r \in DOMAIN T, k \in Names : q = Append(r, k)
      BY <2>13, ItemsRange
    <3> QED BY <3>1 DEF SoundTree
  <2>15. ASSUME NEW r \in Route, NEW k \in Names
         PROVE  Append(r, k) \in DOMAIN f <=> r \in DOMAIN U /\ FindItem(U[r], k) # NoItem
    <3>1. Append(r, k) \in DOMAIN items <=> Under(T, r, k) # NoItem
      BY ItemsDomain DEF Under
    <3>2. r \in DOMAIN U /\ FindItem(U[r], k) # NoItem <=> Under(U, r, k) # NoItem
      BY DEF Under
    <3>3. Under(U, r, k) = IF IsPrefix(victim, Append(r, k)) THEN NoItem ELSE Under(T, r, k)
      BY <2>9
    <3> QED BY <2>13, <3>1, <3>2, <3>3
  <2>16. ASSUME NEW r \in DOMAIN U, NEW k \in Names, FindItem(U[r], k) # NoItem
         PROVE  f[Append(r, k)] = FindItem(U[r], k)
    <3>1. r \in Route
      BY <2>12 DEF SoundTree
    <3>2. Under(U, r, k) = FindItem(U[r], k)
      BY DEF Under
    <3>3. Under(U, r, k) = Under(T, r, k)
      BY <2>9, <2>16, <3>1, <3>2
    <3>4. r \in DOMAIN T /\ FindItem(T[r], k) = FindItem(U[r], k)
      BY <2>16, <3>2, <3>3 DEF Under
    <3>5. items[Append(r, k)] = FindItem(T[r], k)
      BY <2>16, <3>4, ItemsAt
    <3>6. Append(r, k) \in DOMAIN f
      BY <2>15, <2>16, <3>1
    <3> QED BY <2>13, <3>4, <3>5, <3>6
  <2>17. ItemsOf(U) = f
    <3>1. \A q \in DOMAIN f : \E r \in Route, k \in Names : q = Append(r, k)
      BY <2>14
    <3>2. \A r \in Route, k \in Names :
            Append(r, k) \in DOMAIN f <=> r \in DOMAIN U /\ FindItem(U[r], k) # NoItem
      BY <2>15
    <3>3. \A r \in DOMAIN U, k \in Names :
            FindItem(U[r], k) # NoItem => f[Append(r, k)] = FindItem(U[r], k)
      BY <2>16
    <3>4. f = [q \in DOMAIN f |-> f[q]]
      BY <2>13
    <3> HIDE DEF items
    <3> QED BY <2>12, <3>1, <3>2, <3>3, <3>4, ItemsAre
  <2>18. base \in DOMAIN U
    BY <1>8, <2>5
  <2> QED BY <2>12, <2>17, <2>18 DEF f, victim, rel
<1> QED BY <1>9, <1>10
-----------------------------------------------------------------------------
\* The largest of some numbers.
Top(A) == CHOOSE n \in A : \A m \in A : m <= n

LEMMA TopIs ==
    ASSUME NEW N \in Nat, NEW A \in SUBSET (0 .. N), A # {}
    PROVE  Top(A) \in A /\ \A m \in A : m <= Top(A)
<1> DEFINE S == {n \in Nat : \A B \in SUBSET (0 .. n) : B # {} => \E t \in B : \A m \in B : m <= t}
<1>1. 0 \in S
  <2> SUFFICES ASSUME NEW B \in SUBSET (0 .. 0), B # {} PROVE \E t \in B : \A m \in B : m <= t
    OBVIOUS
  <2>1. \A m \in B : m = 0 /\ m <= 0
    OBVIOUS
  <2>2. PICK t : t \in B
    OBVIOUS
  <2>3. t = 0
    BY <2>1, <2>2
  <2> QED BY <2>1, <2>2, <2>3
<1>2. ASSUME NEW n \in Nat, n \in S PROVE n + 1 \in S
  <2> SUFFICES ASSUME NEW B \in SUBSET (0 .. n + 1), B # {} PROVE \E t \in B : \A m \in B : m <= t
    OBVIOUS
  <2>1. CASE n + 1 \in B
    <3>1. \A m \in B : m <= n + 1
      OBVIOUS
    <3> QED BY <2>1, <3>1
  <2>2. CASE n + 1 \notin B
    <3>1. B \in SUBSET (0 .. n)
      <4>1. \A m \in 0 .. n + 1 : m # n + 1 => m \in 0 .. n
        OBVIOUS
      <4> QED BY <2>2, <4>1
    <3> QED BY <1>2, <3>1
  <2> QED BY <2>1, <2>2
<1>3. Nat \subseteq S
  <2> HIDE DEF S
  <2> QED BY <1>1, <1>2, SetInduction
<1>4. PICK t \in A : \A m \in A : m <= t
  BY <1>3
<1> QED BY <1>4 DEF Top

LEMMA TopUnique ==
    ASSUME NEW A, A \subseteq Nat, NEW t \in A, \A m \in A : m <= t
    PROVE  Top(A) = t
<1>1. Top(A) \in A /\ \A m \in A : m <= Top(A)
  BY DEF Top
<1>2. Top(A) <= t /\ t <= Top(A) /\ Top(A) \in Nat /\ t \in Nat
  BY <1>1
<1> QED BY <1>2

\* The numbers of the scopes around `scope', up to the n-th, in which `rel' leads to an entry.
Around(items, scope, rel, n) == {k \in 0 .. n : SubSeq(scope, 1, k) \o rel \in DOMAIN items}
Innermost(items, scope, rel, n) ==
    IF Around(items, scope, rel, n) = {} THEN NoItem
    ELSE items[SubSeq(scope, 1, Top(Around(items, scope, rel, n))) \o rel]

\* lookupHelper searches the scopes from the inside to the outside.
LEMMA SearchIs ==
    ASSUME NEW T, SoundTree(T), NEW scope \in DOMAIN T, NEW rel \in Route, rel # <<>>
    PROVE  Search(T, scope, rel, TRUE) = Innermost(ItemsOf(T), scope, rel, Len(scope))
<1> DEFINE L == Len(scope)
           items == ItemsOf(T)
           found(k) == Reached(T, SubSeq(scope, 1, k), rel)
           At(g) == g = [k \in 0 .. L |-> IF found(k) # NoItem \/ ~TRUE \/ k = 0 THEN found(k) ELSE g[k - 1]]
           at == CHOOSE g : At(g)
           A(k) == Around(items, scope, rel, k)
           h == [k \in 0 .. L |-> Innermost(items, scope, rel, k)]
<1>1. Search(T, scope, rel, TRUE) = at[L]
  BY DEF Search
<1>2. L \in Nat
  BY FunctionOf DEF SoundTree, Route
<1>3. ASSUME NEW k \in 0 .. L
      PROVE  /\ SubSeq(scope, 1, k) \o rel \in DOMAIN items <=> found(k) # NoItem
             /\ SubSeq(scope, 1, k) \o rel \in DOMAIN items => found(k) = items[SubSeq(scope, 1, k) \o rel]
  <2>1. PICK s : s = SubSeq(scope, 1, k)
    OBVIOUS
  <2>2. s \in DOMAIN T
    BY <2>1, PrefixClosed
  <2> QED BY <2>1, <2>2, ReachedItem
<1> HIDE DEF found
<1>4. ASSUME NEW k \in 0 .. L
      PROVE  Innermost(items, scope, rel, k) =
               IF found(k) # NoItem \/ ~TRUE \/ k = 0 THEN found(k) ELSE Innermost(items, scope, rel, k - 1)
  <2>1. k \in Nat /\ A(k) \subseteq Nat /\ A(k) = {j \in 0 .. k : SubSeq(scope, 1, j) \o rel \in DOMAIN items}
    BY <1>2 DEF Around
  <2>2. CASE found(k) # NoItem
    <3>1. k \in A(k) /\ \A j \in A(k) : j <= k
      BY <1>3, <2>1, <2>2
    <3> HIDE DEF A
    <3>2. Top(A(k)) = k
      BY <2>1, <3>1, TopUnique
    <3>3. Innermost(items, scope, rel, k) = items[SubSeq(scope, 1, k) \o rel]
      BY <3>1, <3>2 DEF Innermost, A
    <3> QED BY <1>3, <2>2, <3>3
  <2>3. CASE found(k) = NoItem /\ k = 0
    <3>1. A(k) = {}
      BY <1>3, <2>1, <2>3
    <3> QED BY <2>3, <3>1 DEF Innermost
  <2>4. CASE found(k) = NoItem /\ k # 0
    <3>1. A(k) = A(k - 1)
      <4>1. k \notin A(k)
        BY <1>3, <2>1, <2>4
      <4>2. \A j : j \in 0 .. k - 1 <=> j \in 0 .. k /\ j # k
        BY <2>1, <2>4
      <4> QED BY <2>1, <4>1, <4>2 DEF Around
    <3> HIDE DEF A
    <3>2. Innermost(items, scope, rel, k) = Innermost(items, scope, rel, k - 1)
      BY <3>1 DEF Innermost, A
    <3> QED BY <2>4, <3>2
  <2> QED BY <2>2, <2>3, <2>4
<1>5. At(h)
  <2>1. ASSUME NEW k \in 0 .. L PROVE h[k] = IF found(k) # NoItem \/ ~TRUE \/ k = 0 THEN found(k) ELSE h[k - 1]
    <3>1. k # 0 => k - 1 \in 0 .. L
      BY <1>2
    <3>2. h[k] = Innermost(items, scope, rel, k) /\ (k # 0 => h[k - 1] = Innermost(items, scope, rel, k - 1))
      BY <3>1
    <3> HIDE DEF h, items
    <3> QED BY <1>4, <3>2
  <2>2. h = [k \in 0 .. L |-> h[k]]
    OBVIOUS
  <2> HIDE DEF h
  <2> QED BY <2>1, <2>2
<1>6. At(at)
  <2> HIDE DEF At
  <2> QED BY <1>5
<1> HIDE DEF at, h
<1> DEFINE S == {k \in Nat : k <= L => at[k] = h[k]}
<1>7. 0 \in S
  <2>1. 0 \in 0 .. L
    BY <1>2
  <2> QED BY <1>5, <1>6, <2>1
<1>8. ASSUME NEW k \in Nat, k \in S PROVE k + 1 \in S
  <2> SUFFICES ASSUME k + 1 <= L PROVE at[k + 1] = h[k + 1]
    OBVIOUS
  <2>1. k <= L /\ k + 1 \in 0 .. L /\ (k + 1) - 1 = k
    BY <1>2
  <2>2. at[k] = h[k]
    BY <1>8, <2>1
  <2> QED BY <1>5, <1>6, <2>1, <2>2
<1>9. Nat \subseteq S
  <2> HIDE DEF S
  <2> QED BY <1>7, <1>8, SetInduction
<1>10. at[L] = h[L]
  BY <1>2, <1>9
<1>11. h[L] = Innermost(items, scope, rel, L)
  BY <1>2 DEF h
<1> QED BY <1>1, <1>10, <1>11

\* A name without its leading dot has a component.
LEMMA WithoutDotIs ==
    ASSUME NEW name \in ApiNames, name # <<>>
    PROVE  WithoutDot(name) \in Route /\ WithoutDot(name) # <<>>
<1>1. name \in Route /\ Len(name) \in Nat
  <2>1. Split(name) = name
    BY DEF Split
  <2> QED BY <2>1, SplitIs, FunctionOf DEF Route
<1>2. CASE RootOnly(name)
  <2>1. WithoutDot(name) = Tail(name) /\ Len(name) > 1
    BY <1>2 DEF WithoutDot, RootOnly
  <2>2. Tail(name) \in Seq(Names) /\ Len(Tail(name)) = Len(name) - 1
    BY <1>1, HeadTailProperties DEF Route
  <2>3. PICK n \in Nat : n = Len(name)
    BY <1>1
  <2>4. n - 1 # 0
    BY <2>1, <2>3
  <2>5. Len(Tail(name)) # 0
    BY <2>2, <2>3, <2>4
  <2> QED BY <2>1, <2>2, <2>5, EmptySeq DEF Route
<1>3. CASE ~RootOnly(name)
  BY <1>1, <1>3 DEF WithoutDot
<1> QED BY <1>2, <1>3
-----------------------------------------------------------------------------
\* A new configuration, or one that was emptied, is the empty tree.
LEMMA RootIs ==
    ASSUME NEW T, T = [p \in {<<>>} |-> EmptyTable]
    PROVE  SoundTree(T) /\ ItemsOf(T) = [p \in {} |-> Scope]
<1>1. DOMAIN T = {<<>>} /\ T[<<>>] = EmptyTable /\ T = [p \in DOMAIN T |-> T[p]]
  OBVIOUS
<1>2. <<>> \in Route
  BY EmptySeq DEF Route
<1>3. ASSUME NEW p \in Route, NEW m \in Names
      PROVE  Append(p, m) \notin DOMAIN T /\ (p \in DOMAIN T => FindItem(T[p], m) = NoItem)
  <2>1. Append(p, m) # <<>>
    BY RouteIs
  <2>2. p \in DOMAIN T => T[p] = EmptyTable
    BY <1>1
  <2> QED BY <1>1, <2>1, <2>2, EmptyFinds
<1>4. \A p \in DOMAIN T : Well(T[p])
  BY <1>1, EmptyIs
<1>5. DOMAIN T \in SUBSET Route
  BY <1>1, <1>2
<1>6. SoundTree(T)
  <2>1. \A p \in Route, m \in Names :
          Append(p, m) \in DOMAIN T <=> p \in DOMAIN T /\ FindItem(T[p], m) = Scope
    BY <1>3, NoItemIs
  <2> QED BY <1>1, <1>4, <1>5, <2>1 DEF SoundTree
<1>7. PICK f : f = [p \in {} |-> Scope]
  OBVIOUS
<1>8. DOMAIN f = {} /\ f = [q \in DOMAIN f |-> f[q]]
  BY <1>7
<1>9. \A p \in Route, m \in Names : Append(p, m) \in DOMAIN f <=> p \in DOMAIN T /\ FindItem(T[p], m) # NoItem
  BY <1>3, <1>8
<1>10. \A p \in DOMAIN T, m \in Names : FindItem(T[p], m) # NoItem => f[Append(p, m)] = FindItem(T[p], m)
  BY <1>3, <1>5
<1>11. \A q \in DOMAIN f : \E p \in Route, m \in Names : q = Append(p, m)
  BY <1>8
<1>12. ItemsOf(T) = f
  BY <1>6, <1>8, <1>9, <1>10, <1>11, ItemsAre
<1> QED BY <1>6, <1>7, <1>12

\* What the program can rely on between two calls.
CInv ==
    /\ SoundTree(tables)
    /\ curr \in DOMAIN tables
    /\ fallback \in Fallbacks \cup {NoFallback}

\* A new configuration.
LEMMA InitIs == Init => CInv /\ Tree!Init
<1> SUFFICES ASSUME Init PROVE CInv /\ Tree!Init
  OBVIOUS
<1>1. SoundTree(tables) /\ Items = [p \in {} |-> Scope]
  BY RootIs DEF Init, Items
<1>2. curr \in DOMAIN tables /\ curr = <<>> /\ fallback \in Fallbacks \cup {NoFallback}
  BY DEF Init
<1> QED BY <1>1, <1>2 DEF CInv, Tree!Init, Tree!Scope, Scope

\* insertString and insertList.
LEMMA InsertIs ==
    ASSUME CInv, NEW name \in ApiNames, NEW item \in Tree!Variables,
           tables' = Inserted(tables, curr, name, item), UNCHANGED <<curr, fallback>>
    PROVE  CInv' /\ Tree!Insert(Split(name), item)
<1>1. SoundTree(tables) /\ curr \in DOMAIN tables
  BY DEF CInv
<1>2. PICK U : U = tables'
  OBVIOUS
<1>3. U = Inserted(tables, curr, name, item)
  BY <1>2
<1>4. SoundTree(U) /\ ItemsOf(U) = Tree!Written(ItemsOf(tables), curr, Split(name), item) /\ curr \in DOMAIN U
  BY <1>1, <1>3, ApiRoutes, InsertedIs
<1>5. SoundTree(tables)' /\ Items' = ItemsOf(U)
  BY <1>2, <1>4 DEF SoundTree, Items
<1>6. CInv'
  BY <1>2, <1>4, <1>5 DEF CInv
<1>7. Items' = Tree!Written(Items, curr, Split(name), item) /\ curr' = curr
  BY <1>4, <1>5 DEF Items
<1> QED BY <1>6, <1>7 DEF Tree!Insert

\* ensureScopeExists.
LEMMA EnsureScopeIs ==
    ASSUME CInv, NEW name \in ApiNames, EnsureScopeExists(name)
    PROVE  CInv' /\ Tree!EnsureScopeExists(Split(name))
<1>1. SoundTree(tables) /\ curr \in DOMAIN tables /\ Split(name) \in Route
  BY SplitIs DEF CInv
<1>2. PICK a : a = EnsureScopes(tables, curr, Split(name))
  OBVIOUS
<1>3. PICK U : U = tables'
  OBVIOUS
<1>4. U = a.tables
  BY <1>2, <1>3 DEF EnsureScopeExists
<1>5. SoundTree(U) /\ ItemsOf(U) = Tree!WithScopes(ItemsOf(tables), curr, Split(name))
  BY <1>1, <1>2, <1>4, EnsureIs
<1>6. curr \in DOMAIN U
  BY <1>1, <1>2, <1>4, EnsureKeeps
<1>7. SoundTree(tables)' /\ Items' = ItemsOf(U)
  BY <1>3, <1>5 DEF SoundTree, Items
<1>8. curr' = curr /\ fallback' = fallback
  BY DEF EnsureScopeExists
<1>9. CInv'
  BY <1>3, <1>6, <1>7, <1>8 DEF CInv
<1>10. Items' = Tree!WithScopes(Items, curr, Split(name))
  BY <1>5, <1>7 DEF Items
<1> QED BY <1>8, <1>9, <1>10 DEF Tree!EnsureScopeExists

\* remove.
LEMMA RemoveIs ==
    ASSUME CInv, NEW name \in ApiNames, RemoveEntry(name)
    PROVE  CInv' /\ Tree!Remove(Split(name))
<1>1. SoundTree(tables) /\ curr \in DOMAIN tables
  BY DEF CInv
<1>2. PICK U : U = tables'
  OBVIOUS
<1>3. U = Removed(tables, curr, name) /\ curr' = curr /\ fallback' = fallback
  BY <1>2 DEF RemoveEntry
<1>4. SoundTree(U) /\ ItemsOf(U) = Tree!Without(ItemsOf(tables), curr \o Split(name)) /\ curr \in DOMAIN U
  BY <1>1, <1>3, RemovedIs
<1>5. SoundTree(tables)' /\ Items' = ItemsOf(U)
  BY <1>2, <1>4 DEF SoundTree, Items
<1>6. CInv'
  BY <1>2, <1>3, <1>4, <1>5 DEF CInv
<1>7. Items' = Tree!Without(Items, curr \o Split(name))
  BY <1>4, <1>5 DEF Items
<1> QED BY <1>3, <1>6, <1>7 DEF Tree!Remove

\* A parse that fails in a scope it opened leaves that scope the current one.
LEMMA ParseFailsIs ==
    ASSUME CInv, NEW name \in ApiNames, ParseFailsIn(name)
    PROVE  CInv' /\ Tree!OpenScope(Split(name))
<1>1. name # <<>> /\ Split(name) = name
  BY DEF ParseFailsIn, Split
<1>2. SoundTree(tables) /\ curr \in DOMAIN tables /\ name \in Route
  BY <1>1, SplitIs DEF CInv
<1>3. PICK a : a = EnsureScopes(tables, curr, name)
  OBVIOUS
<1>4. PICK U, c : U = tables' /\ c = curr'
  OBVIOUS
<1>5. U = a.tables /\ c = (IF a.ok THEN a.at ELSE curr) /\ fallback' = fallback
  BY <1>3, <1>4 DEF ParseFailsIn
<1>6. /\ SoundTree(U) /\ a.ok \in BOOLEAN
      /\ ItemsOf(U) = Tree!WithScopes(ItemsOf(tables), curr, name)
      /\ a.ok <=> Tree!Obstacles(ItemsOf(tables), curr, name) = {}
      /\ a.ok => a.at = curr \o name /\ a.at \in DOMAIN U
  BY <1>2, <1>3, <1>5, EnsureIs
<1>7. curr \in DOMAIN U
  BY <1>2, <1>3, <1>5, EnsureKeeps
<1>8. SoundTree(tables)' /\ Items' = ItemsOf(U)
  BY <1>4, <1>6 DEF SoundTree, Items
<1>9. c \in DOMAIN U
  BY <1>5, <1>6, <1>7
<1>10. CInv'
  <2>1. (fallback \in Fallbacks \cup {NoFallback})'
    BY <1>5 DEF CInv
  <2> QED BY <1>4, <1>8, <1>9, <2>1 DEF CInv
<1>11. Items' = Tree!WithScopes(Items, curr, name)
  BY <1>6, <1>8 DEF Items
<1>12. curr' = IF Tree!Obstacles(Items, curr, name) = {} THEN curr \o name ELSE curr
  BY <1>4, <1>5, <1>6 DEF Items
<1> QED BY <1>1, <1>10, <1>11, <1>12 DEF Tree!OpenScope

\* empty.
LEMMA EmptyingIs ==
    ASSUME CInv, Empty
    PROVE  CInv' /\ Tree!Empty
<1>1. PICK U : U = tables'
  OBVIOUS
<1>2. U = [p \in {<<>>} |-> EmptyTable] /\ curr' = <<>> /\ fallback' = fallback
  BY <1>1 DEF Empty
<1>3. SoundTree(U) /\ ItemsOf(U) = [p \in {} |-> Scope] /\ <<>> \in DOMAIN U
  BY <1>2, RootIs
<1>4. SoundTree(tables)' /\ Items' = ItemsOf(U)
  BY <1>1, <1>3 DEF SoundTree, Items
<1>5. CInv'
  <2>1. (fallback \in Fallbacks \cup {NoFallback})'
    BY <1>2 DEF CInv
  <2> QED BY <1>1, <1>2, <1>3, <1>4, <2>1 DEF CInv
<1>6. Items' = [p \in {} |-> Scope] /\ curr' = <<>>
  BY <1>2, <1>3, <1>4
<1> QED BY <1>5, <1>6 DEF Tree!Empty, Tree!Init, Tree!Scope, Scope

\* setFallbackConfiguration.
LEMMA FallbackIs ==
    ASSUME CInv, NEW f \in Fallbacks, SetFallback(f)
    PROVE  CInv' /\ UNCHANGED Tree!vars
<1>1. tables' = tables /\ curr' = curr /\ fallback' = f
  BY DEF SetFallback
<1>2. SoundTree(tables)' /\ Items' = Items
  BY <1>1 DEF CInv, SoundTree, Items
<1>3. CInv'
  BY <1>1, <1>2 DEF CInv
<1> QED BY <1>1, <1>2, <1>3 DEF Tree!vars

\* Each step keeps the tree sound and is a step of the abstract tree or changes nothing in it.
LEMMA StepIs == CInv /\ [Next]_vars => CInv' /\ [Tree!Next]_(Tree!vars)
<1> SUFFICES ASSUME CInv, [Next]_vars PROVE CInv' /\ [Tree!Next]_(Tree!vars)
  OBVIOUS
<1> DEFINE Pool == UNION {[1 .. n -> Names] : n \in 1 .. 2}
<1>1. ASSUME NEW name \in ApiNames PROVE Split(name) \in Pool
  BY SplitIs
<1> HIDE DEF Pool
<1>2. ASSUME NEW name \in ApiNames, NEW s \in Strings, InsertString(name, s)
      PROVE  CInv' /\ \E rel \in Pool, item \in Tree!Variables : Tree!Insert(rel, item)
  <2>1. StringItem(s) \in Tree!Variables
    BY DEF Tree!Variables, Tree!StringItem, StringItem
  <2>2. CInv' /\ Tree!Insert(Split(name), StringItem(s))
    BY <1>2, <2>1, InsertIs DEF InsertString
  <2> QED BY <1>1, <2>1, <2>2
<1>3. ASSUME NEW name \in ApiNames, NEW l \in Lists, InsertList(name, l)
      PROVE  CInv' /\ \E rel \in Pool, item \in Tree!Variables : Tree!Insert(rel, item)
  <2>1. ListItem(l) \in Tree!Variables
    BY DEF Tree!Variables, Tree!ListItem, ListItem
  <2>2. CInv' /\ Tree!Insert(Split(name), ListItem(l))
    BY <1>3, <2>1, InsertIs DEF InsertList
  <2> QED BY <1>1, <2>1, <2>2
<1>4. ASSUME NEW name \in ApiNames, EnsureScopeExists(name)
      PROVE  CInv' /\ \E rel \in Pool : Tree!EnsureScopeExists(rel)
  BY <1>1, <1>4, EnsureScopeIs
<1>5. ASSUME NEW name \in ApiNames, RemoveEntry(name)
      PROVE  CInv' /\ \E rel \in Pool : Tree!Remove(rel)
  BY <1>1, <1>5, RemoveIs
<1>6. ASSUME NEW name \in ApiNames, ParseFailsIn(name)
      PROVE  CInv' /\ \E rel \in Pool : Tree!OpenScope(rel)
  BY <1>1, <1>6, ParseFailsIs
<1>7. CASE Empty
  BY <1>7, EmptyingIs DEF Tree!Next
<1>8. ASSUME NEW f \in Fallbacks, SetFallback(f)
      PROVE  CInv' /\ UNCHANGED Tree!vars
  BY <1>8, FallbackIs
<1>9. CASE UNCHANGED vars
  <2>1. tables' = tables /\ curr' = curr /\ fallback' = fallback
    BY <1>9 DEF vars
  <2>2. SoundTree(tables)' /\ Items' = Items
    BY <2>1 DEF CInv, SoundTree, Items
  <2> QED BY <2>1, <2>2 DEF CInv, Tree!vars
<1>10. CASE \E name \in ApiNames :
              \/ \E s \in Strings : InsertString(name, s)
              \/ \E l \in Lists : InsertList(name, l)
              \/ EnsureScopeExists(name) \/ RemoveEntry(name) \/ ParseFailsIn(name)
  <2>1. PICK name \in ApiNames :
          \/ \E s \in Strings : InsertString(name, s)
          \/ \E l \in Lists : InsertList(name, l)
          \/ EnsureScopeExists(name) \/ RemoveEntry(name) \/ ParseFailsIn(name)
    BY <1>10
  <2>2. CInv' /\ \E rel \in Pool :
          \/ Tree!EnsureScopeExists(rel) \/ Tree!Remove(rel) \/ Tree!OpenScope(rel)
          \/ \E item \in Tree!Variables : Tree!Insert(rel, item)
    BY <1>2, <1>3, <1>4, <1>5, <1>6, <2>1
  <2> QED BY <2>2 DEF Tree!Next, Pool
<1> QED BY <1>7, <1>8, <1>9, <1>10 DEF Next

\* The invariant of every configuration.
LEMMA InvHolds == Spec => []CInv
<1>1. Init => CInv
  BY InitIs
<1>2. CInv /\ [Next]_vars => CInv'
  BY StepIs
<1> QED BY <1>1, <1>2, PTL DEF Spec

\* The type of the state: every table can be searched and listed (each entry is
\* in the bucket of its name, once, and the count is right), every entry is a
\* variable or a scope, every scope has its table, and the current scope, which
\* a failed parse may have moved, exists.
LEMMA TypeIs == CInv => TypeOK
<1> SUFFICES ASSUME CInv PROVE TypeOK
  OBVIOUS
<1>1. SoundTree(tables) /\ curr \in DOMAIN tables /\ fallback \in Fallbacks \cup {NoFallback}
  BY DEF CInv
<1>2. TablesSound
  BY <1>1, WellIsSound DEF TablesSound, SoundTree
<1>3. ASSUME NEW q \in DOMAIN Items PROVE q \in Route /\ q # <<>> /\ Items[q] \in Kinds
  <2>1. q \in DOMAIN ItemsOf(tables)
    BY DEF Items
  <2>2. PICK p \in DOMAIN tables, m \in Names : q = Append(p, m) /\ FindItem(tables[p], m) # NoItem
    BY <1>1, <2>1, ItemsRange
  <2>3. p \in Route /\ Well(tables[p])
    BY <1>1 DEF SoundTree
  <2>4. q \in Route /\ q # <<>>
    BY <2>2, <2>3, RouteIs
  <2>5. ItemsOf(tables)[q] = FindItem(tables[p], m)
    BY <1>1, <2>2, ItemsAt
  <2>6. FindItem(tables[p], m) \in Kinds
    BY <2>2, <2>3, FindType
  <2> QED BY <2>4, <2>5, <2>6 DEF Items
<1>4. Range(Items) \subseteq Tree!Variables \cup {Scope}
  BY <1>3 DEF Range, Kinds
<1>5. ASSUME NEW p PROVE p \in DOMAIN tables <=> p \in {<<>>} \cup {q \in DOMAIN Items : Items[q] = Scope}
  <2>1. CASE p \in Route
    <3>1. Tree!IsScope(Items, p) <=> p \in DOMAIN tables
      BY <1>1, <2>1, ScopeAt DEF Items
    <3> QED BY <3>1 DEF Tree!IsScope, Tree!Scope, Scope
  <2>2. CASE p \notin Route
    <3>1. p \notin DOMAIN tables /\ p # <<>>
      BY <1>1, <2>2 DEF SoundTree
    <3> QED BY <1>3, <2>2, <3>1
  <2> QED BY <2>1, <2>2
<1>6. DOMAIN tables = {<<>>} \cup {q \in DOMAIN Items : Items[q] = Scope}
  BY <1>5
<1> QED BY <1>1, <1>2, <1>4, <1>6 DEF TypeOK

\* Type correctness: whatever is inserted, replaced, removed, emptied and left
\* open by a failing parse, each table of each scope stays sound.
THEOREM TypeCorrect == Spec => []TypeOK
<1>1. CInv => TypeOK
  BY TypeIs
<1> QED BY <1>1, InvHolds, PTL

\* An insertion is the one of the name and the item it is given.
LEMMA InsertsAsGiven == CInv => InsertsWhatItIsGiven
<1> SUFFICES ASSUME CInv, NEW name \in ApiNames, NEW item \in Tree!Variables
             PROVE  ItemsOf(Inserted(tables, curr, name, item)) = Tree!Written(Items, curr, Split(name), item)
  BY DEF InsertsWhatItIsGiven
<1>1. PICK U : U = Inserted(tables, curr, name, item)
  OBVIOUS
<1>2. ItemsOf(U) = Tree!Written(ItemsOf(tables), curr, Split(name), item)
  BY <1>1, ApiRoutes, InsertedIs DEF CInv
<1> QED BY <1>1, <1>2 DEF Items

\* The hash tables of a configuration implement its tree: insertString,
\* insertList, ensureScopeExists, remove, empty and a failing parse change what
\* the names mean as the tree says, for any names, values and hash function.
THEOREM ImplementsTreeHolds == Spec => ImplementsTree
<1>1. Init => CInv /\ Tree!Init
  BY InitIs
<1>2. CInv /\ [Next]_vars => CInv' /\ [Tree!Next]_(Tree!vars)
  BY StepIs
<1>3. CInv => InsertsWhatItIsGiven
  BY InsertsAsGiven
<1>4. Spec => Tree!Spec
  BY <1>1, <1>2, PTL DEF Spec, Tree!Spec
<1>5. Spec => []InsertsWhatItIsGiven
  BY <1>3, InvHolds, PTL
<1> QED BY <1>4, <1>5 DEF ImplementsTree

\* A lookup in the scopes around the current one.
LEMMA LookupIs == CInv => LookupIsInnermost
<1> SUFFICES ASSUME CInv, NEW scope \in ApiNames, NEW local \in ApiNames, scope \o local \in ApiNames \ {<<>>}
    PROVE  LET name == scope \o local
               from(n) == SubSeq(curr, 1, n) \o WithoutDot(name)
               around == {n \in 0..(IF RootOnly(name) THEN 0 ELSE Len(curr)) : from(n) \in DOMAIN Items}
           IN  Lookup(scope, local, FALSE, TRUE) =
                 IF around = {} THEN InFallback(fallback, local)
                 ELSE Items[from(CHOOSE n \in around : \A m \in around : m <= n)]
  BY DEF LookupIsInnermost
<1>1. PICK name : name = scope \o local
  OBVIOUS
<1>2. name \in ApiNames /\ name # <<>>
  BY <1>1
<1>3. SoundTree(tables) /\ curr \in DOMAIN tables /\ <<>> \in DOMAIN tables /\ curr \in Route
  BY DEF CInv, SoundTree
<1>4. PICK rel \in Route : rel = WithoutDot(name) /\ rel # <<>>
  BY <1>2, WithoutDotIs
<1>5. PICK at : at = IF RootOnly(name) THEN <<>> ELSE curr
  OBVIOUS
<1>6. at \in DOMAIN tables /\ Len(at) = (IF RootOnly(name) THEN 0 ELSE Len(curr)) /\ Len(at) \in Nat
  BY <1>3, <1>5, EmptySeq, FunctionOf DEF Route
<1>7. PICK item : item = Search(tables, at, rel, TRUE)
  OBVIOUS
<1>8. Lookup(scope, local, FALSE, TRUE) = IF item # NoItem THEN item ELSE InFallback(fallback, local)
  BY <1>1, <1>2, <1>4, <1>5, <1>7 DEF Lookup, MergeNames
<1> DEFINE A == Around(Items, curr, rel, Len(at))
<1>9. \A k \in 0 .. Len(at) : SubSeq(at, 1, k) = SubSeq(curr, 1, k)
  <2>1. CASE RootOnly(name)
    <3>1. at = <<>> /\ Len(at) = 0
      BY <1>5, <1>6, <2>1
    <3>2. SubSeq(<<>>, 1, 0) = <<>> /\ SubSeq(curr, 1, 0) = <<>>
      BY <1>3, EmptySeq, UptoZero DEF Route
    <3>3. \A k \in 0 .. 0 : k = 0
      OBVIOUS
    <3> QED BY <3>1, <3>2, <3>3
  <2>2. CASE ~RootOnly(name)
    BY <1>5, <2>2
  <2> QED BY <2>1, <2>2
<1>10. Around(ItemsOf(tables), at, rel, Len(at)) = A
  BY <1>9 DEF Around, Items
<1>11. item = Innermost(ItemsOf(tables), at, rel, Len(at))
  BY <1>3, <1>4, <1>6, <1>7, SearchIs
<1>12. A = {n \in 0 .. (IF RootOnly(name) THEN 0 ELSE Len(curr)) : SubSeq(curr, 1, n) \o WithoutDot(name) \in DOMAIN Items}
  BY <1>4, <1>6 DEF Around
<1>13. CASE A = {}
  <2>1. item = NoItem
    BY <1>10, <1>11, <1>13 DEF Innermost
  <2> QED BY <1>1, <1>8, <1>12, <1>13, <2>1
<1>14. CASE A # {}
  <2>1. A \in SUBSET (0 .. Len(at))
    BY DEF Around
  <2>2. Top(A) \in A
    BY <1>6, <1>14, <2>1, TopIs
  <2>3. PICK q : q = SubSeq(curr, 1, Top(A)) \o rel
    OBVIOUS
  <2>4. q \in DOMAIN Items /\ Top(A) \in 0 .. Len(at)
    BY <2>2, <2>3 DEF Around
  <2>5. item = Items[q]
    BY <1>10, <1>11, <1>9, <1>14, <2>3, <2>4 DEF Innermost, Items
  <2>6. Items[q] # NoItem
    <3>1. PICK p \in DOMAIN tables, m \in Names : q = Append(p, m) /\ FindItem(tables[p], m) # NoItem
      BY <1>3, <2>4, ItemsRange DEF Items
    <3>2. ItemsOf(tables)[q] = FindItem(tables[p], m)
      BY <1>3, <3>1, ItemsAt
    <3> QED BY <3>1, <3>2 DEF Items
  <2>7. Lookup(scope, local, FALSE, TRUE) = Items[SubSeq(curr, 1, Top(A)) \o WithoutDot(name)]
    BY <1>4, <1>8, <2>3, <2>5, <2>6
  <2> HIDE DEF A
  <2> QED BY <1>1, <1>12, <1>14, <2>7 DEF Top
<1> QED BY <1>13, <1>14

\* Lookups: the entry of the innermost scope that has the whole name, else the
\* fallback's; a name with a leading dot is looked for in the root only.
THEOREM LookupHolds == Spec => []LookupIsInnermost
<1>1. CInv => LookupIsInnermost
  BY LookupIs
<1> QED BY <1>1, InvHolds, PTL

-----------------------------------------------------------------------------
\* Listings.  No path is longer than some number: the recursion of a listing ends.
Deep(items) == \E N \in Nat : \A p \in DOMAIN items : Len(p) \in 0 .. N

LEMMA FirstIs ==
    ASSUME NEW items, NEW base \in Route, NEW rel \in Route, Tree!Obstacles(items, base, rel) # {}
    PROVE  Tree!FirstObstacle(items, base, rel) \in 1 .. Len(rel)
<1> DEFINE O == Tree!Obstacles(items, base, rel)
<1>1. PICK N \in Nat : N = Len(rel)
  BY FunctionOf DEF Route
<1>2. O \subseteq 1 .. N /\ O # {}
  BY <1>1 DEF Tree!Obstacles
<1>3. Tree!FirstObstacle(items, base, rel) = CHOOSE i \in O : \A j \in O : i <= j
  BY DEF Tree!FirstObstacle
<1> HIDE DEF O
<1> DEFINE A == {N - i : i \in O}
<1>4. A \in SUBSET (0 .. N) /\ A # {}
  <2>1. \A i \in O : N - i \in 0 .. N
    BY <1>2
  <2> QED BY <1>2, <2>1
<1>5. Top(A) \in A /\ \A m \in A : m <= Top(A)
  BY <1>4, TopIs
<1>6. PICK i \in O : Top(A) = N - i
  BY <1>5
<1>7. \A j \in O : i <= j
  <2> SUFFICES ASSUME NEW j \in O PROVE i <= j
    OBVIOUS
  <2>1. N - j \in A
    OBVIOUS
  <2>2. N - j <= N - i
    BY <1>5, <1>6, <2>1
  <2>3. i \in Nat /\ j \in Nat
    BY <1>2
  <2> QED BY <2>2, <2>3
<1>8. (CHOOSE k \in O : \A j \in O : k <= j) \in O
  BY <1>7
<1> QED BY <1>1, <1>2, <1>3, <1>8

LEMMA DeepScopes ==
    ASSUME NEW items, Deep(items), NEW base \in Route, NEW rel \in Route
    PROVE  Deep(Tree!WithScopes(items, base, rel))
<1> DEFINE O == Tree!Obstacles(items, base, rel)
           last == IF O = {} THEN Len(rel) ELSE Tree!FirstObstacle(items, base, rel) - 1
           w == Tree!WithScopes(items, base, rel)
<1>1. PICK N \in Nat : \A p \in DOMAIN items : Len(p) \in 0 .. N
  BY DEF Deep
<1>2. PICK b \in Nat, r \in Nat : b = Len(base) /\ r = Len(rel)
  BY FunctionOf DEF Route
<1>3. last \in 0 .. r
  <2>1. CASE O = {}
    BY <1>2, <2>1
  <2>2. CASE O # {}
    <3>1. PICK f : f = Tree!FirstObstacle(items, base, rel)
      OBVIOUS
    <3>2. f \in 1 .. r /\ last = f - 1
      BY <1>2, <2>2, <3>1, FirstIs
    <3> QED BY <1>2, <3>2
  <2> QED BY <2>1, <2>2
<1>4. DOMAIN w = DOMAIN items \cup {base \o Tree!Upto(rel, i) : i \in 1 .. last}
  BY DEF Tree!WithScopes, Tree!Over
<1> HIDE DEF last, w
<1>5. PICK M \in Nat : M = N + b + r
  OBVIOUS
<1>6. ASSUME NEW p \in DOMAIN items PROVE Len(p) \in 0 .. M
  <2>1. Len(p) \in 0 .. N
    BY <1>1
  <2> QED BY <1>5, <2>1
<1>7. ASSUME NEW i \in 1 .. last PROVE Len(base \o Tree!Upto(rel, i)) \in 0 .. M
  <2>1. i \in 0 .. Len(rel) /\ i \in 0 .. r
    BY <1>2, <1>3
  <2>2. Len(Way(base, rel, i)) = b + i
    BY <1>2, <2>1, WayIs
  <2>3. b + i \in 0 .. M
    BY <1>5, <2>1
  <2> QED BY <2>2, <2>3 DEF Way, Tree!Upto
<1>8. \A p \in DOMAIN w : Len(p) \in 0 .. M
  BY <1>4, <1>6, <1>7
<1> QED BY <1>8 DEF Deep, w

LEMMA DeepWritten ==
    ASSUME NEW items, Deep(items), NEW base \in Route, NEW rel \in Route, rel # <<>>, NEW item
    PROVE  Deep(Tree!Written(items, base, rel, item))
<1> DEFINE front == Tree!Parent(rel)
           w == Tree!WithScopes(items, base, front)
<1>1. front \in Route
  <2>1. front = Front(rel)
    BY DEF Tree!Parent, Tree!Upto, Front
  <2> QED BY <2>1, SplitLast DEF Route
<1>2. Deep(w)
  <2> HIDE DEF front
  <2> QED BY <1>1, DeepScopes
<1>3. CASE ~Tree!CanWrite(items, base, rel)
  BY <1>2, <1>3 DEF Tree!Written
<1>4. CASE Tree!CanWrite(items, base, rel)
  <2> DEFINE u == Tree!Written(items, base, rel, item)
  <2>1. DOMAIN u = DOMAIN w \cup {base \o rel}
    BY <1>4 DEF Tree!Written, Tree!Over
  <2> HIDE DEF w, u
  <2>2. PICK N \in Nat : \A p \in DOMAIN w : Len(p) \in 0 .. N
    BY <1>2 DEF Deep
  <2>3. PICK l \in Nat : l = Len(base \o rel)
    BY ConcatProperties, FunctionOf DEF Route
  <2>4. PICK M \in Nat : M = N + l
    OBVIOUS
  <2>5. ASSUME NEW p \in DOMAIN u PROVE Len(p) \in 0 .. M
    <3>1. Len(p) \in 0 .. N \/ Len(p) = l
      BY <2>1, <2>2, <2>3
    <3> QED BY <2>4, <3>1
  <2> QED BY <2>5 DEF Deep, u
<1> QED BY <1>3, <1>4

LEMMA DeepStep == CInv /\ Deep(Items) /\ [Tree!Next]_(Tree!vars) => Deep(Items)'
<1> SUFFICES ASSUME CInv, Deep(Items), [Tree!Next]_(Tree!vars) PROVE Deep(Items)'
  OBVIOUS
<1>1. PICK items, V : items = Items /\ V = Items'
  OBVIOUS
<1>2. Deep(items) /\ curr \in Route
  BY <1>1 DEF CInv, SoundTree
<1>3. Deep(V) => Deep(Items)'
  BY <1>1 DEF Deep
<1> DEFINE Pool == UNION {[1 .. n -> Names] : n \in 1 .. 2}
<1>4. ASSUME NEW rel \in Pool PROVE rel \in Route /\ rel # <<>>
  <2>1. PICK n \in 1 .. 2 : rel \in [1 .. n -> Names]
    OBVIOUS
  <2>2. n \in Nat /\ n # 0
    OBVIOUS
  <2>3. rel \in Seq(Names) /\ Len(rel) = n
    BY <2>1, <2>2, SequenceOf
  <2> QED BY <2>2, <2>3, EmptySeq DEF Route
<1> HIDE DEF Pool
<1>5. CASE V = items
  BY <1>2, <1>3, <1>5
<1>6. CASE \E rel \in Pool : V = Tree!WithScopes(items, curr, rel)
  BY <1>2, <1>3, <1>4, <1>6, DeepScopes
<1>7. CASE \E rel \in Pool : V = Tree!Without(items, curr \o rel)
  <2>1. DOMAIN V \subseteq DOMAIN items
    BY <1>7 DEF Tree!Without
  <2> QED BY <1>2, <1>3, <2>1 DEF Deep
<1>8. CASE \E rel \in Pool : \E item \in Tree!Variables : V = Tree!Written(items, curr, rel, item)
  BY <1>2, <1>3, <1>4, <1>8, DeepWritten
<1>9. CASE DOMAIN V = {}
  <2>1. Deep(V)
    BY <1>9 DEF Deep
  <2> QED BY <1>3, <2>1
<1>10. CASE UNCHANGED Tree!vars
  BY <1>1, <1>5, <1>10 DEF Tree!vars
<1>11. CASE Tree!Empty
  <2>1. DOMAIN V = {}
    BY <1>1, <1>11 DEF Tree!Empty, Tree!Init
  <2> QED BY <1>9, <2>1
<1>12. CASE Tree!LeaveScope
  BY <1>1, <1>5, <1>12 DEF Tree!LeaveScope
<1>13. ASSUME NEW rel \in Pool, Tree!EnsureScopeExists(rel) \/ Tree!OpenScope(rel) PROVE Deep(Items)'
  BY <1>1, <1>6, <1>13 DEF Tree!EnsureScopeExists, Tree!OpenScope
<1>14. ASSUME NEW rel \in Pool, Tree!Remove(rel) PROVE Deep(Items)'
  BY <1>1, <1>7, <1>14 DEF Tree!Remove
<1>15. ASSUME NEW rel \in Pool, NEW item \in Tree!Variables, Tree!Insert(rel, item) PROVE Deep(Items)'
  BY <1>1, <1>8, <1>15 DEF Tree!Insert
<1> QED BY <1>10, <1>11, <1>12, <1>13, <1>14, <1>15 DEF Tree!Next, Pool

LEMMA DeepHolds == Spec => [](CInv /\ Deep(Items))
<1>1. Init => CInv /\ Deep(Items)
  <2> SUFFICES ASSUME Init PROVE CInv /\ Deep(Items)
    OBVIOUS
  <2>1. CInv /\ DOMAIN Items = {}
    BY InitIs DEF Tree!Init
  <2> QED BY <2>1 DEF Deep
<1>2. CInv /\ Deep(Items) /\ [Next]_vars => CInv' /\ Deep(Items)'
  BY StepIs, DeepStep
<1> QED BY <1>1, <1>2, PTL DEF Spec

\* A prefix, element by element, and what is behind it.
LEMMA PrefixIs ==
    ASSUME NEW S, NEW v \in Seq(S), NEW q \in Seq(S)
    PROVE  IsPrefix(v, q) <=> Len(v) <= Len(q) /\ \A i \in 1 .. Len(v) : v[i] = q[i]
<1>1. Len(v) \in Nat /\ Len(q) \in Nat /\ SubSeq(v, 1, Len(v)) = v
  BY FunctionOf, SubSeqFull
<1>2. CASE ~(Len(v) <= Len(q))
  BY <1>2 DEF IsPrefix
<1>3. CASE Len(v) <= Len(q)
  <2> DEFINE a == SubSeq(q, 1, Len(v))
  <2>1. a \in Seq(S) /\ Len(a) = Len(v) /\ \A i \in 1 .. Len(v) : a[i] = q[i]
    BY <1>1, <1>3, UptoIs
  <2>2. IsPrefix(v, q) <=> v = a
    BY <1>1, <1>3 DEF IsPrefix
  <2> HIDE DEF a
  <2>3. v = a <=> \A i \in 1 .. Len(v) : v[i] = a[i]
    <3>1. (\A i \in 1 .. Len(v) : v[i] = a[i]) => v = a
      BY <2>1, SeqEqual
    <3> QED BY <3>1
  <2> QED BY <1>3, <2>1, <2>2, <2>3
<1> QED BY <1>2, <1>3

Rest(q, n) == SubSeq(q, n + 1, Len(q))
LEMMA RestIs ==
    ASSUME NEW S, NEW q \in Seq(S), NEW n \in 0 .. Len(q)
    PROVE  /\ Rest(q, n) \in Seq(S) /\ Len(Rest(q, n)) = Len(q) - n
           /\ \A i \in 1 .. Len(q) - n : Rest(q, n)[i] = q[n + i]
<1>1. PICK l \in Nat : l = Len(q) /\ q \in [1 .. l -> S]
  BY FunctionOf
<1>2. n + 1 \in Int /\ l \in Int /\ n \in Nat /\ n <= l
  BY <1>1
<1>3. \A i \in n + 1 .. l : q[i] \in S
  BY <1>1, <1>2
<1>4. /\ SubSeq(q, n + 1, l) \in Seq(S)
      /\ Len(SubSeq(q, n + 1, l)) = (IF n + 1 <= l THEN l - (n + 1) + 1 ELSE 0)
      /\ \A i \in 1 .. l - (n + 1) + 1 : SubSeq(q, n + 1, l)[i] = q[(n + 1) + i - 1]
  BY <1>2, <1>3, SubSeqProperties
<1>5. (IF n + 1 <= l THEN l - (n + 1) + 1 ELSE 0) = l - n
  BY <1>2
<1>6. l - (n + 1) + 1 = l - n /\ \A i \in 1 .. l - n : (n + 1) + i - 1 = n + i
  BY <1>2
<1> QED BY <1>1, <1>4, <1>5, <1>6 DEF Rest

\* What a listing calls an entry.
Called(scope, prefix, q) == prefix \o Rest(q, Len(scope))

LEMMA CalledIs ==
    ASSUME NEW scope \in Route, NEW prefix \in Route, NEW path \in Route, IsPrefix(scope, path)
    PROVE  Called(scope, prefix, path) \in Route
<1>1. Len(scope) \in 0 .. Len(path)
  BY PrefixIs, FunctionOf DEF Route
<1>2. Rest(path, Len(scope)) \in Seq(Names)
  BY <1>1, RestIs DEF Route
<1> QED BY <1>2, ConcatProperties DEF Called, Route

LEMMA CalledNext ==
    ASSUME NEW scope \in Route, NEW prefix \in Route, NEW path \in Route, NEW m \in Names, IsPrefix(scope, path)
    PROVE  /\ IsPrefix(scope, Append(path, m))
           /\ Called(scope, prefix, Append(path, m)) = Called(scope, prefix, path) \o <<m>>
<1> DEFINE q == Append(path, m)
           L == Len(scope)
           r == Rest(path, L)
           s == Rest(q, L)
<1>1. L \in 0 .. Len(path) /\ Len(path) \in Nat
  BY PrefixIs, FunctionOf DEF Route
<1>2. q \in Seq(Names) /\ Len(q) = Len(path) + 1 /\ (\A i \in 1 .. Len(path) : q[i] = path[i]) /\ q[Len(path) + 1] = m
  BY AppendProperties DEF Route
<1> HIDE DEF q
<1>3. r \in Seq(Names) /\ Len(r) = Len(path) - L /\ \A i \in 1 .. Len(path) - L : r[i] = path[L + i]
  BY <1>1, RestIs DEF Route
<1>4. s \in Seq(Names) /\ Len(s) = Len(q) - L /\ \A i \in 1 .. Len(q) - L : s[i] = q[L + i]
  <2>1. L \in 0 .. Len(q)
    BY <1>1, <1>2
  <2> QED BY <1>2, <2>1, RestIs
<1> HIDE DEF r, s
<1> DEFINE t == Append(r, m)
<1>5. t \in Seq(Names) /\ Len(t) = Len(r) + 1 /\ (\A i \in 1 .. Len(r) : t[i] = r[i]) /\ t[Len(r) + 1] = m
  BY <1>3, AppendProperties
<1> HIDE DEF t
<1>6. s = t
  <2>1. Len(s) = Len(t) /\ Len(s) = (Len(path) - L) + 1
    BY <1>1, <1>2, <1>3, <1>4, <1>5
  <2>2. ASSUME NEW i \in 1 .. Len(s) PROVE s[i] = t[i]
    <3>1. CASE i = (Len(path) - L) + 1
      <4>1. L + i = Len(path) + 1 /\ i \in 1 .. Len(q) - L
        BY <1>1, <1>2, <3>1
      <4> QED BY <1>2, <1>3, <1>4, <1>5, <3>1, <4>1
    <3>2. CASE i # (Len(path) - L) + 1
      <4>1. i \in 1 .. Len(path) - L /\ L + i \in 1 .. Len(path) /\ i \in 1 .. Len(q) - L
        BY <1>1, <1>2, <2>1, <3>2
      <4> QED BY <1>2, <1>3, <1>4, <1>5, <4>1
    <3> QED BY <3>1, <3>2
  <2> QED BY <1>4, <1>5, <2>1, <2>2, SeqEqual
<1>7. prefix \o r \in Seq(Names) /\ prefix \o t = Append(prefix \o r, m)
  BY <1>3, ConcatAppend DEF Route, t
<1>8. Append(prefix \o r, m) = (prefix \o r) \o <<m>>
  BY <1>7, AppendIsConcat
<1>9. IsPrefix(scope, q)
  BY PrefixOfAppend DEF Route, q
<1> QED BY <1>6, <1>7, <1>8, <1>9 DEF Called, q, r, s

LEMMA CalledOnce ==
    ASSUME NEW scope \in Route, NEW prefix \in Route, NEW p \in Route, NEW q \in Route,
           IsPrefix(scope, p), IsPrefix(scope, q), Called(scope, prefix, p) = Called(scope, prefix, q)
    PROVE  p = q
<1> DEFINE L == Len(scope)
           r == Rest(p, L)
           s == Rest(q, L)
<1>1. /\ L \in 0 .. Len(p) /\ Len(p) \in Nat /\ L \in 0 .. Len(q) /\ Len(q) \in Nat
      /\ \A i \in 1 .. L : p[i] = scope[i] /\ q[i] = scope[i]
  BY PrefixIs, FunctionOf DEF Route
<1>2. r \in Seq(Names) /\ Len(r) = Len(p) - L /\ \A i \in 1 .. Len(p) - L : r[i] = p[L + i]
  BY <1>1, RestIs DEF Route
<1>3. s \in Seq(Names) /\ Len(s) = Len(q) - L /\ \A i \in 1 .. Len(q) - L : s[i] = q[L + i]
  BY <1>1, RestIs DEF Route
<1>4. prefix \o r = prefix \o s
  BY DEF Called
<1> HIDE DEF r, s
<1>5. r = s
  BY <1>2, <1>3, <1>4, ConcatSimplifications DEF Route
<1>6. Len(p) = Len(q)
  BY <1>1, <1>2, <1>3, <1>5
<1>7. ASSUME NEW i \in 1 .. Len(p) PROVE p[i] = q[i]
  <2>1. CASE i \in 1 .. L
    BY <1>1, <2>1
  <2>2. CASE i \notin 1 .. L
    <3>1. PICK j \in 1 .. Len(p) - L : i = L + j
      <4>1. i - L \in 1 .. Len(p) - L /\ i = L + (i - L)
        BY <1>1, <2>2
      <4> QED BY <4>1
    <3> QED BY <1>2, <1>3, <1>5, <1>6, <3>1
  <2> QED BY <2>1, <2>2
<1> QED BY <1>6, <1>7, SeqEqual DEF Route

\* Entries of scopes: below a scope is what it lists, and what is below the
\* scopes it lists.
LEMMA PrefixEnd ==
    ASSUME NEW p \in Route, NEW m \in Names, NEW q \in Route
    PROVE  IsPrefix(Append(p, m), q) <=> IsPrefix(p, q) /\ Len(p) + 1 <= Len(q) /\ q[Len(p) + 1] = m
<1> DEFINE a == Append(p, m)
<1>1. PICK l \in Nat : l = Len(p)
  BY FunctionOf DEF Route
<1>2. a \in Seq(Names) /\ Len(a) = l + 1 /\ (\A i \in 1 .. l : a[i] = p[i]) /\ a[l + 1] = m
  BY <1>1, AppendProperties DEF Route
<1>3. Len(q) \in Nat
  BY FunctionOf DEF Route
<1> HIDE DEF a
<1>4. IsPrefix(a, q) <=> l + 1 <= Len(q) /\ \A i \in 1 .. l + 1 : a[i] = q[i]
  BY <1>2, PrefixIs DEF Route
<1>5. IsPrefix(p, q) <=> l <= Len(q) /\ \A i \in 1 .. l : p[i] = q[i]
  BY <1>1, PrefixIs DEF Route
<1>6. (\A i \in 1 .. l + 1 : a[i] = q[i]) <=> (\A i \in 1 .. l : p[i] = q[i]) /\ m = q[l + 1]
  <2>1. \A i \in 1 .. l + 1 : i \in 1 .. l \/ i = l + 1
    OBVIOUS
  <2>2. l + 1 \in 1 .. l + 1 /\ \A i \in 1 .. l : i \in 1 .. l + 1
    OBVIOUS
  <2> QED BY <1>2, <2>1, <2>2
<1>7. l + 1 <= Len(q) => l <= Len(q)
  BY <1>3
<1> QED BY <1>1, <1>4, <1>5, <1>6, <1>7 DEF a

LEMMA BelowIs ==
    ASSUME NEW T, SoundTree(T), NEW p \in DOMAIN T, NEW q \in DOMAIN ItemsOf(T), IsStrictPrefix(p, q)
    PROVE  \E m \in Names : /\ FindItem(T[p], m) # NoItem
                            /\ (q = Append(p, m) \/ (FindItem(T[p], m) = Scope /\ IsStrictPrefix(Append(p, m), q)))
<1>1. PICK r \in DOMAIN T, k \in Names : q = Append(r, k) /\ FindItem(T[r], k) # NoItem
  BY ItemsRange
<1>2. p \in Route /\ r \in Route /\ IsPrefix(p, q) /\ p # q
  BY DEF SoundTree, IsStrictPrefix
<1>3. q \in Route /\ Len(q) = Len(r) + 1 /\ Len(r) \in Nat /\ Len(p) \in Nat
  BY <1>1, <1>2, AppendProperties, FunctionOf DEF Route
<1>4. IsPrefix(p, r)
  BY <1>1, <1>2, PrefixOfAppend DEF Route
<1>5. CASE p = r
  BY <1>1, <1>5
<1>6. CASE p # r
  <2>1. Len(p) <= Len(r) /\ \A i \in 1 .. Len(p) : p[i] = r[i]
    BY <1>2, <1>4, PrefixIs DEF Route
  <2>2. Len(p) # Len(r)
    BY <1>2, <1>6, <2>1, SeqEqual DEF Route
  <2>3. PICK n \in Nat : n = Len(p)
    BY <1>3
  <2>4. n + 1 <= Len(r) /\ n + 1 \in 0 .. Len(r) /\ n \in 0 .. Len(r)
    BY <1>3, <2>1, <2>2, <2>3
  <2>5. SubSeq(r, 1, n) = p
    <3>1. SubSeq(p, 1, n) = p
      BY <1>2, <2>3, SubSeqFull DEF Route
    <3> QED BY <1>4, <2>3, <3>1 DEF IsPrefix
  <2>6. PICK m \in Names : m = r[n + 1]
    BY <1>2, <2>4, UptoNext DEF Route
  <2>7. SubSeq(r, 1, n + 1) = Append(p, m)
    BY <1>2, <2>4, <2>5, <2>6, UptoNext DEF Route
  <2>8. SubSeq(r, 1, n + 1) \in DOMAIN T
    BY <2>4, PrefixClosed
  <2>9. FindItem(T[p], m) = Scope
    <3>1. \A s \in Route, j \in Names :
            Append(s, j) \in DOMAIN T <=> s \in DOMAIN T /\ FindItem(T[s], j) = Scope
      BY DEF SoundTree
    <3> QED BY <1>2, <2>7, <2>8, <3>1
  <2>10. IsPrefix(Append(p, m), r)
    BY <1>2, <1>4, <2>3, <2>4, <2>6, PrefixEnd
  <2>11. Append(p, m) \in Route
    BY <1>2, RouteIs
  <2>12. IsPrefix(Append(p, m), q)
    BY <1>1, <1>2, <2>10, <2>11, PrefixOfAppend DEF Route
  <2>13. Append(p, m) # q
    <3>1. Len(Append(p, m)) = n + 1
      BY <1>2, <2>3, AppendProperties DEF Route
    <3> QED BY <1>3, <2>4, <3>1
  <2> QED BY <2>9, <2>12, <2>13, NoItemIs DEF IsStrictPrefix
<1> QED BY <1>5, <1>6

\* What a listing is asked for, and what of it is below a path.
Asked(scope, prefix, mask, recursive, accepted) ==
    [scope |-> scope, prefix |-> prefix, mask |-> mask, recursive |-> recursive, accepted |-> accepted]
Wanted(items, c, q) == items[q].type \in c.mask /\ Called(c.scope, c.prefix, q) \in c.accepted
Listed(items, c, p) ==
    {q \in DOMAIN items : IsStrictPrefix(p, q) /\ Wanted(items, c, q) /\ (c.recursive \/ Len(q) = Len(p) + 1)}
Branch(items, c, p, m) == {q \in Listed(items, c, p) : IsPrefix(Append(p, m), q)}

Itself(items, c, q) == IF Wanted(items, c, q) THEN {q} ELSE {}
Inside(items, c, q) == IF c.recursive /\ items[q] = Scope THEN Listed(items, c, q) ELSE {}

LEMMA ListedIs ==
    ASSUME NEW T, SoundTree(T), NEW c, NEW p \in DOMAIN T
    PROVE  Listed(ItemsOf(T), c, p) =
             UNION {Branch(ItemsOf(T), c, p, m) : m \in {n \in Names : FindItem(T[p], n) # NoItem}}
<1> DEFINE items == ItemsOf(T)
           there == {n \in Names : FindItem(T[p], n) # NoItem}
<1>1. ASSUME NEW q \in Listed(items, c, p) PROVE \E m \in there : q \in Branch(items, c, p, m)
  <2>1. q \in DOMAIN items /\ IsStrictPrefix(p, q)
    BY DEF Listed
  <2>2. PICK m \in there : q = Append(p, m) \/ IsStrictPrefix(Append(p, m), q)
    BY <2>1, BelowIs
  <2>3. p \in Route /\ Append(p, m) \in Route
    BY RouteIs DEF SoundTree
  <2>4. IsPrefix(Append(p, m), Append(p, m))
    BY <2>3, PrefixOfAppend DEF Route
  <2>5. IsPrefix(Append(p, m), q)
    BY <2>2, <2>4 DEF IsStrictPrefix
  <2> QED BY <2>5 DEF Branch
<1>2. \A m \in there : Branch(items, c, p, m) \subseteq Listed(items, c, p)
  BY DEF Branch
<1> HIDE DEF items, there
<1>3. Listed(items, c, p) = UNION {Branch(items, c, p, m) : m \in there}
  BY <1>1, <1>2
<1> QED BY <1>3 DEF items, there

LEMMA BranchesApart ==
    ASSUME NEW T, SoundTree(T), NEW c, NEW p \in DOMAIN T, NEW m \in Names, NEW k \in Names, m # k
    PROVE  Branch(ItemsOf(T), c, p, m) \cap Branch(ItemsOf(T), c, p, k) = {}
<1> SUFFICES ASSUME NEW q \in Branch(ItemsOf(T), c, p, m), q \in Branch(ItemsOf(T), c, p, k) PROVE FALSE
  OBVIOUS
<1>1. q \in DOMAIN ItemsOf(T) /\ IsPrefix(Append(p, m), q) /\ IsPrefix(Append(p, k), q)
  BY DEF Branch, Listed
<1>2. PICK r \in DOMAIN T, j \in Names : q = Append(r, j)
  BY <1>1, ItemsRange
<1>3. q \in Route /\ p \in Route
  BY <1>2, RouteIs DEF SoundTree
<1>4. q[Len(p) + 1] = m /\ q[Len(p) + 1] = k
  BY <1>1, <1>3, PrefixEnd
<1> QED BY <1>4

\* The entry itself, and what is below it.
Branching(items, c, p, m, q, item) ==
    /\ q \in DOMAIN items /\ items[q] = item
    /\ Branch(items, c, p, m) = Itself(items, c, q) \cup Inside(items, c, q)
    /\ q \notin Listed(items, c, q)
LEMMA BranchIs ==
    ASSUME NEW T, SoundTree(T), NEW c, NEW p \in DOMAIN T, NEW m \in Names,
           FindItem(T[p], m) # NoItem, NEW items, items = ItemsOf(T), NEW q, q = Append(p, m)
    PROVE  Branching(items, c, p, m, q, FindItem(T[p], m))
<1>1. p \in Route /\ q \in Route /\ q # p /\ Len(q) = Len(p) + 1 /\ Len(p) \in Nat
  <2>1. p \in Route
    BY DEF SoundTree
  <2> QED BY <2>1, RouteIs, AppendProperties, FunctionOf DEF Route
<1>2. q \in DOMAIN items /\ items[q] = FindItem(T[p], m)
  BY <1>1, ItemsDomain, ItemsAt
<1>3. q \notin Listed(items, c, q)
  BY DEF Listed, IsStrictPrefix
<1>4. IsPrefix(q, q) /\ IsPrefix(p, q)
  <2>1. IsPrefix(q, q)
    BY <1>1, PrefixOfAppend DEF Route
  <2> QED BY <1>1, <2>1, PrefixEnd
<1>5. ASSUME NEW r \in DOMAIN items, IsPrefix(q, r), r # q
      PROVE  /\ r \in Listed(items, c, p) <=> c.recursive /\ r \in Listed(items, c, q)
             /\ FindItem(T[p], m) = Scope
  <2>1. PICK s \in DOMAIN T, k \in Names : r = Append(s, k)
    BY ItemsRange
  <2>2. s \in Route /\ r \in Route /\ Len(r) = Len(s) + 1 /\ Len(s) \in Nat
    <3>1. s \in Route
      BY DEF SoundTree
    <3> QED BY <2>1, <3>1, RouteIs, AppendProperties, FunctionOf DEF Route
  <2>3. IsPrefix(q, s)
    BY <1>1, <1>5, <2>1, <2>2, PrefixOfAppend DEF Route
  <2>4. Len(q) <= Len(s)
    BY <2>3 DEF IsPrefix
  <2>5. Len(r) # Len(p) + 1
    BY <1>1, <2>2, <2>4
  <2>6. IsStrictPrefix(p, r) /\ IsStrictPrefix(q, r)
    <3>1. IsPrefix(p, r)
      BY <1>1, <1>5, <2>2, PrefixEnd
    <3>2. p # r
      BY <1>1, <2>2, <2>4
    <3> QED BY <1>5, <3>1, <3>2 DEF IsStrictPrefix
  <2>7. FindItem(T[p], m) = Scope
    <3>1. SubSeq(s, 1, Len(q)) = q
      <4>1. SubSeq(q, 1, Len(q)) = q
        BY <1>1, SubSeqFull DEF Route
      <4> QED BY <2>3, <4>1 DEF IsPrefix
    <3>2. Len(q) \in 0 .. Len(s)
      BY <1>1, <2>2, <2>4
    <3>3. q \in DOMAIN T
      BY <3>1, <3>2, PrefixClosed
    <3>4. \A x \in Route, j \in Names :
            Append(x, j) \in DOMAIN T <=> x \in DOMAIN T /\ FindItem(T[x], j) = Scope
      BY DEF SoundTree
    <3> QED BY <1>1, <3>3, <3>4
  <2> QED BY <2>5, <2>6, <2>7 DEF Listed
<1>6. q \in Listed(items, c, p) <=> Wanted(items, c, q)
  BY <1>1, <1>2, <1>4 DEF Listed, IsStrictPrefix
<1>7. \A r \in Listed(items, c, q) : r \in DOMAIN items /\ IsPrefix(q, r) /\ r # q
  BY DEF Listed, IsStrictPrefix
<1>8. \A r \in Branch(items, c, p, m) : r \in DOMAIN items /\ r \in Listed(items, c, p) /\ IsPrefix(q, r)
  BY DEF Branch, Listed
<1>9. \A r \in Listed(items, c, p) : IsPrefix(q, r) => r \in Branch(items, c, p, m)
  BY DEF Branch
<1> DEFINE R == (IF Wanted(items, c, q) THEN {q} ELSE {})
                \cup (IF c.recursive /\ FindItem(T[p], m) = Scope THEN Listed(items, c, q) ELSE {})
<1>10. ASSUME NEW r \in Branch(items, c, p, m) PROVE r \in R
  BY <1>5, <1>6, <1>8
<1>11. ASSUME NEW r \in R PROVE r \in Branch(items, c, p, m)
  BY <1>4, <1>5, <1>6, <1>7, <1>9
<1>12. Branch(items, c, p, m) = R
  BY <1>10, <1>11
<1> QED BY <1>2, <1>3, <1>12 DEF Itself, Inside, Branching

\* listScopedNamesHelper at one scope, when `g' is what it yields for the scopes in it.
Line(c, g, p, e) ==
    LET name == c.prefix \o SubSeq(p, Len(c.scope) + 1, Len(p)) \o <<e.name>>
    IN  (IF e.item.type \in c.mask /\ name \in c.accepted THEN <<name>> ELSE <<>>)
        \o (IF c.recursive /\ e.item = Scope THEN g[Append(p, e.name)] ELSE <<>>)
Lines(T, c, g, p) ==
    LET all == AllEntries(T[p]) IN FlattenSeq([i \in DOMAIN all |-> Line(c, g, p, all[i])])
Listing(T, c, g) == g = [p \in DOMAIN T |-> Lines(T, c, g, p)]

LEMMA ScopedNamesIs ==
    ASSUME NEW scope, NEW prefix, NEW mask, NEW recursive, NEW accepted,
           NEW c, c = Asked(scope, prefix, mask, recursive, accepted)
    PROVE  ScopedNames(scope, prefix, mask, recursive, accepted) = (CHOOSE g : Listing(tables, c, g))[scope]
<1>1. c.scope = scope /\ c.prefix = prefix /\ c.mask = mask /\ c.recursive = recursive /\ c.accepted = accepted
  BY DEF Asked
<1> DEFINE Step(g, path) ==
             LET of(e) ==
                   LET name == prefix \o SubSeq(path, Len(scope) + 1, Len(path)) \o <<e.name>>
                   IN  (IF e.item.type \in mask /\ name \in accepted THEN <<name>> ELSE <<>>)
                       \o (IF recursive /\ e.item = Scope THEN g[Append(path, e.name)] ELSE <<>>)
                 all == AllEntries(tables[path])
             IN  FlattenSeq([i \in DOMAIN all |-> of(all[i])])
<1>2. ASSUME NEW g, NEW path PROVE Step(g, path) = Lines(tables, c, g, path)
  BY <1>1 DEF Lines, Line
<1>3. ScopedNames(scope, prefix, mask, recursive, accepted) =
        (CHOOSE g : g = [path \in DOMAIN tables |-> Step(g, path)])[scope]
  BY DEF ScopedNames
<1> HIDE DEF Step
<1>4. \A g : g = [path \in DOMAIN tables |-> Step(g, path)] <=> Listing(tables, c, g)
  BY <1>2 DEF Listing
<1>5. (CHOOSE g : g = [path \in DOMAIN tables |-> Step(g, path)]) = (CHOOSE g : Listing(tables, c, g))
  BY <1>4
<1> QED BY <1>3, <1>5

\* What a table lists.
LEMMA AllIs ==
    ASSUME NEW T, SoundTree(T), NEW p \in DOMAIN T
    PROVE  \E all \in Seq(Cell) :
             /\ all = AllEntries(T[p]) /\ Distinct(all) /\ DOMAIN all = 1 .. Len(all) /\ Len(all) \in Nat
             /\ \A i \in 1 .. Len(all) :
                  /\ all[i].name \in Names /\ all[i].item = FindItem(T[p], all[i].name)
                  /\ FindItem(T[p], all[i].name) # NoItem
             /\ {all[i].name : i \in 1 .. Len(all)} = {m \in Names : FindItem(T[p], m) # NoItem}
<1> DEFINE t == T[p]
           n == Size(t)
           there == {m \in Names : FindItem(t, m) # NoItem}
<1>1. Well(t)
  BY DEF SoundTree
<1> HIDE DEF t
<1>2. n \in Nat \ {0} /\ Placed(t.buckets, n)
  BY <1>1 DEF Well
<1>3. PICK all : all = AllEntries(t)
  OBVIOUS
<1>4. all = Spread(t.buckets, n)
  BY <1>3 DEF AllEntries, Spread
<1>5. all \in Seq(Cell) /\ Distinct(all) /\ CellsOf(all) = Cont(t)
  BY <1>2, <1>4, SpreadIs DEF Cont
<1>6. CellsOf(all) = {Entry(m, FindItem(t, m)) : m \in there}
  BY <1>1, <1>5, ContIs
<1> HIDE DEF n
<1>7. ASSUME NEW i \in 1 .. Len(all)
      PROVE  /\ all[i].name \in Names /\ all[i].item = FindItem(t, all[i].name)
             /\ FindItem(t, all[i].name) # NoItem
  <2>1. all[i] \in CellsOf(all)
    BY DEF CellsOf
  <2>2. PICK m \in there : all[i] = Entry(m, FindItem(t, m))
    BY <1>6, <2>1
  <2>3. all[i].name = m /\ all[i].item = FindItem(t, m)
    BY <2>2 DEF Entry
  <2> QED BY <2>2, <2>3
<1>8. ASSUME NEW m \in there PROVE \E i \in 1 .. Len(all) : all[i].name = m
  <2>1. Entry(m, FindItem(t, m)) \in CellsOf(all)
    BY <1>6
  <2>2. PICK i \in 1 .. Len(all) : all[i] = Entry(m, FindItem(t, m))
    BY <2>1 DEF CellsOf
  <2>3. all[i].name = m
    BY <2>2 DEF Entry
  <2> QED BY <2>3
<1>9. {all[i].name : i \in 1 .. Len(all)} = there
  BY <1>7, <1>8
<1>10. DOMAIN all = 1 .. Len(all) /\ Len(all) \in Nat
  BY <1>5, LenProperties
<1> QED BY <1>3, <1>5, <1>7, <1>9, <1>10 DEF t

\* The recursion of a listing ends: what it yields exists.
LEMMA ListingMakes ==
    ASSUME NEW T, SoundTree(T), NEW N \in Nat, \A p \in DOMAIN T : Len(p) \in 0 .. N, NEW c
    PROVE  \E g : Listing(T, c, g)
<1> DEFINE D == DOMAIN T
           Good(g, n) == DOMAIN g = D /\ \A p \in D : Len(p) + n > N => g[p] = Lines(T, c, g, p)
           S == {n \in Nat : \E g : Good(g, n)}
<1>1. ASSUME NEW g, NEW h, NEW p \in D,
             \A m \in Names : Append(p, m) \in D => g[Append(p, m)] = h[Append(p, m)]
      PROVE  Lines(T, c, g, p) = Lines(T, c, h, p)
  <2>1. PICK all \in Seq(Cell) :
          /\ all = AllEntries(T[p]) /\ DOMAIN all = 1 .. Len(all)
          /\ \A i \in 1 .. Len(all) : all[i].name \in Names /\ all[i].item = FindItem(T[p], all[i].name)
    BY AllIs
  <2>2. ASSUME NEW i \in 1 .. Len(all) PROVE Line(c, g, p, all[i]) = Line(c, h, p, all[i])
    <3>1. all[i].item = Scope => Append(p, all[i].name) \in D
      <4>1. \A x \in Route, j \in Names :
              Append(x, j) \in DOMAIN T <=> x \in DOMAIN T /\ FindItem(T[x], j) = Scope
        BY DEF SoundTree
      <4>2. p \in Route
        BY DEF SoundTree
      <4> QED BY <2>1, <4>1, <4>2
    <3>2. all[i].item = Scope => g[Append(p, all[i].name)] = h[Append(p, all[i].name)]
      BY <1>1, <2>1, <3>1
    <3> QED BY <3>2 DEF Line
  <2>3. [i \in DOMAIN all |-> Line(c, g, p, all[i])] = [i \in DOMAIN all |-> Line(c, h, p, all[i])]
    BY <2>1, <2>2
  <2> QED BY <2>1, <2>3 DEF Lines
<1>2. 0 \in S
  <2>1. Good([p \in D |-> 0], 0)
    <3>1. \A p \in D : ~(Len(p) + 0 > N)
      <4> SUFFICES ASSUME NEW p \in D PROVE ~(Len(p) + 0 > N)
        OBVIOUS
      <4>1. Len(p) \in 0 .. N
        OBVIOUS
      <4> QED BY <4>1
    <3> QED BY <3>1
  <2> HIDE DEF Good
  <2> QED BY <2>1
<1>3. ASSUME NEW n \in Nat, n \in S PROVE n + 1 \in S
  <2>1. PICK g : Good(g, n)
    BY <1>3
  <2> DEFINE h == [p \in D |-> Lines(T, c, g, p)]
  <2>2. DOMAIN h = D /\ \A p \in D : h[p] = Lines(T, c, g, p)
    OBVIOUS
  <2> HIDE DEF h
  <2>3. ASSUME NEW p \in D, Len(p) + (n + 1) > N PROVE h[p] = Lines(T, c, h, p)
    <3>1. ASSUME NEW m \in Names, Append(p, m) \in D PROVE g[Append(p, m)] = h[Append(p, m)]
      <4>1. p \in Seq(Names)
        BY DEF SoundTree, Route
      <4>2. Len(Append(p, m)) = Len(p) + 1 /\ Len(p) \in Nat
        BY <4>1, AppendProperties, FunctionOf
      <4>3. Len(Append(p, m)) + n > N
        BY <2>3, <4>2
      <4>4. g[Append(p, m)] = Lines(T, c, g, Append(p, m))
        BY <2>1, <3>1, <4>3
      <4> QED BY <2>2, <3>1, <4>4
    <3>2. Lines(T, c, g, p) = Lines(T, c, h, p)
      BY <1>1, <3>1
    <3> QED BY <2>2, <3>2
  <2>4. Good(h, n + 1)
    BY <2>2, <2>3
  <2> HIDE DEF Good
  <2> QED BY <2>4
<1>4. Nat \subseteq S
  <2> HIDE DEF S
  <2> QED BY <1>2, <1>3, SetInduction
<1>5. N + 1 \in S
  <2> HIDE DEF S
  <2> QED BY <1>4
<1>6. PICK g : Good(g, N + 1)
  BY <1>5
<1>7. ASSUME NEW p \in D PROVE g[p] = Lines(T, c, g, p)
  <2>1. Len(p) \in 0 .. N
    OBVIOUS
  <2>2. Len(p) + (N + 1) > N
    BY <2>1
  <2> QED BY <1>6, <2>2
<1>8. PICK h : h = [p \in D |-> g[p]]
  OBVIOUS
<1>9. ASSUME NEW p \in D PROVE h[p] = Lines(T, c, h, p)
  <2>1. Lines(T, c, g, p) = Lines(T, c, h, p)
    BY <1>1, <1>8
  <2> QED BY <1>7, <1>8, <2>1
<1>10. h = [p \in D |-> Lines(T, c, h, p)]
  BY <1>8, <1>9
<1> QED BY <1>10 DEF Listing

\* What is to be listed below `p', each entry once, and of it what is at `m'.
NamesOf(c, entries) == {Called(c.scope, c.prefix, q) : q \in entries}
Enumerates(c, entries, l) == l \in Seq(Route) /\ Once(l) /\ Elements(l) = NamesOf(c, entries)
Proper(items, c, p, l) == Enumerates(c, Listed(items, c, p), l)

\* Each line of a listing names its entry and what is below it, once.
LEMMA LineIs ==
    ASSUME NEW T, SoundTree(T), NEW c, c.scope \in Route, c.prefix \in Route,
           NEW p \in DOMAIN T, IsPrefix(c.scope, p), NEW e,
           e.name \in Names, e.item = FindItem(T[p], e.name), e.item # NoItem, NEW g,
           NEW items, items = ItemsOf(T), NEW q, q = Append(p, e.name),
           e.item = Scope => Proper(items, c, q, g[q])
    PROVE  Enumerates(c, Branch(items, c, p, e.name), Line(c, g, p, e))
<1> DEFINE Name(r) == Called(c.scope, c.prefix, r)
           a == IF Wanted(items, c, q) THEN <<Name(q)>> ELSE <<>>
           b == IF c.recursive /\ e.item = Scope THEN g[q] ELSE <<>>
           A == Itself(items, c, q)
           B == Inside(items, c, q)
<1>1. p \in Route /\ q \in Route
  <2>1. p \in Route
    BY DEF SoundTree
  <2> QED BY <2>1, RouteIs
<1>2. /\ q \in DOMAIN items /\ items[q] = e.item
      /\ Branch(items, c, p, e.name) = A \cup B /\ q \notin Listed(items, c, q)
  <2>1. PICK m \in Names : m = e.name
    OBVIOUS
  <2>2. FindItem(T[p], m) # NoItem /\ q = Append(p, m) /\ e.item = FindItem(T[p], m)
    BY <2>1
  <2>3. Branching(items, c, p, m, q, e.item)
    BY <2>2, BranchIs
  <2> QED BY <2>1, <2>3 DEF Branching
<1>3. IsPrefix(c.scope, q) /\ Name(q) = c.prefix \o SubSeq(p, Len(c.scope) + 1, Len(p)) \o <<e.name>>
  <2>1. PICK m \in Names : m = e.name
    OBVIOUS
  <2>2. q = Append(p, m)
    BY <2>1
  <2>3. /\ IsPrefix(c.scope, Append(p, m))
        /\ Called(c.scope, c.prefix, Append(p, m)) = Called(c.scope, c.prefix, p) \o <<m>>
    BY ONLY <1>1, c.scope \in Route, c.prefix \in Route, IsPrefix(c.scope, p), m \in Names, CalledNext
  <2> QED BY <2>1, <2>2, <2>3 DEF Called, Rest
<1>4. Name(q) \in Route
  BY <1>1, <1>3, CalledIs
<1>5. Line(c, g, p, e) = a \o b
  BY <1>2, <1>3 DEF Line, Wanted
<1> HIDE DEF Name
<1>6. a \in Seq(Route) /\ Once(a) /\ Elements(a) = {Name(r) : r \in A}
  <2>1. CASE Wanted(items, c, q)
    <3>1. a = <<Name(q)>> /\ A = {q} /\ Len(<<Name(q)>>) = 1 /\ <<Name(q)>>[1] = Name(q) /\ <<Name(q)>> \in Seq(Route)
      BY <1>4, <2>1 DEF Itself
    <3>2. 1 .. 1 = {1}
      OBVIOUS
    <3> QED BY <3>1, <3>2 DEF Once, Elements
  <2>2. CASE ~Wanted(items, c, q)
    <3>1. a = <<>> /\ A = {} /\ Len(<<>>) = 0 /\ <<>> \in Seq(Route) /\ 1 .. 0 = {}
      BY <2>2 DEF Itself
    <3> QED BY <3>1 DEF Once, Elements
  <2> QED BY <2>1, <2>2
<1>7. b \in Seq(Route) /\ Once(b) /\ Elements(b) = {Name(r) : r \in B}
  <2>1. CASE c.recursive /\ e.item = Scope
    BY <1>2, <2>1 DEF Name, Inside, Proper, Enumerates, NamesOf
  <2>2. CASE ~(c.recursive /\ e.item = Scope)
    <3>1. b = <<>> /\ B = {} /\ Len(<<>>) = 0 /\ <<>> \in Seq(Route) /\ 1 .. 0 = {}
      BY <1>2, <2>2 DEF Inside
    <3> QED BY <3>1 DEF Once, Elements
  <2> QED BY <2>1, <2>2
<1>8. \A r \in A, s \in B : Name(r) # Name(s)
  <2> SUFFICES ASSUME NEW r \in A, NEW s \in B, Name(r) = Name(s) PROVE FALSE
    OBVIOUS
  <2>1. s \in Listed(items, c, q) /\ r = q
    BY DEF Itself, Inside
  <2>2. s \in DOMAIN items /\ IsPrefix(q, s)
    BY <2>1 DEF Listed, IsStrictPrefix
  <2>3. s \in Route
    <3>1. PICK x \in DOMAIN T, j \in Names : s = Append(x, j)
      BY <2>2, ItemsRange
    <3> QED BY <3>1, RouteIs DEF SoundTree
  <2>4. IsPrefix(c.scope, s)
    <3>0. PICK v \in Route : v = c.scope
      OBVIOUS
    <3>4. Len(v) <= Len(q) /\ \A i \in 1 .. Len(v) : v[i] = q[i]
      BY <1>1, <1>3, <3>0, PrefixIs DEF Route
    <3>5. Len(q) <= Len(s) /\ \A i \in 1 .. Len(q) : q[i] = s[i]
      BY ONLY <1>1, <2>2, <2>3, PrefixIs DEF Route
    <3>1. /\ Len(c.scope) <= Len(q) /\ \A i \in 1 .. Len(c.scope) : c.scope[i] = q[i]
          /\ Len(q) <= Len(s) /\ \A i \in 1 .. Len(q) : q[i] = s[i]
      BY <3>0, <3>4, <3>5
    <3>2. Len(c.scope) \in Nat /\ Len(q) \in Nat /\ Len(s) \in Nat
      BY <1>1, <2>3, FunctionOf DEF Route
    <3>3. Len(c.scope) <= Len(s) /\ \A i \in 1 .. Len(c.scope) : i \in 1 .. Len(q)
      BY <3>1, <3>2
    <3> QED BY <2>3, <3>1, <3>3, PrefixIs DEF Route
  <2>5. q = s
    BY <1>1, <1>3, <2>1, <2>3, <2>4, CalledOnce DEF Name
  <2> QED BY <1>2, <2>1, <2>5
<1> HIDE DEF a, b, A, B
<1>9. Elements(a) \cap Elements(b) = {}
  BY <1>6, <1>7, <1>8
<1>10. a \o b \in Seq(Route) /\ Once(a \o b) /\ Elements(a \o b) = Elements(a) \cup Elements(b)
  <2>1. a \in Seq(Route) /\ b \in Seq(Route) /\ Once(a) /\ Once(b)
    BY <1>6, <1>7
  <2>2. a \o b \in Seq(Route)
    BY ONLY <2>1, ConcatProperties
  <2>3. Once(a \o b) /\ Elements(a \o b) = Elements(a) \cup Elements(b)
    BY ONLY <1>9, <2>1, ConcatOnce, ConcatElements
  <2> QED BY <2>2, <2>3
<1>11. {Name(r) : r \in A} \cup {Name(r) : r \in B} = {Name(r) : r \in A \cup B}
  OBVIOUS
<1>12. Elements(a \o b) = {Name(r) : r \in Branch(items, c, p, e.name)}
  BY <1>2, <1>6, <1>7, <1>10, <1>11
<1> QED BY <1>5, <1>10, <1>12 DEF Name, Enumerates, NamesOf

LEMMA ListedRoutes ==
    ASSUME NEW T, SoundTree(T), NEW c, c.scope \in Route, NEW p \in DOMAIN T, IsPrefix(c.scope, p),
           NEW r \in Listed(ItemsOf(T), c, p)
    PROVE  r \in Route /\ IsPrefix(c.scope, r)
<1>1. PICK v \in Route : v = c.scope
  OBVIOUS
<1>2. p \in Route /\ IsPrefix(v, p) /\ IsPrefix(p, r) /\ r \in DOMAIN ItemsOf(T)
  BY <1>1 DEF SoundTree, Listed, IsStrictPrefix
<1>3. r \in Route
  <2>1. PICK x \in DOMAIN T, j \in Names : r = Append(x, j)
    BY <1>2, ItemsRange
  <2> QED BY <2>1, RouteIs DEF SoundTree
<1>4. Len(v) <= Len(p) /\ \A i \in 1 .. Len(v) : v[i] = p[i]
  BY <1>1, <1>2, PrefixIs DEF Route
<1>5. Len(p) <= Len(r) /\ \A i \in 1 .. Len(p) : p[i] = r[i]
  BY <1>2, <1>3, PrefixIs DEF Route
<1>6. Len(v) \in Nat /\ Len(p) \in Nat /\ Len(r) \in Nat
  BY <1>1, <1>2, <1>3, FunctionOf DEF Route
<1>7. Len(v) <= Len(r) /\ \A i \in 1 .. Len(v) : i \in 1 .. Len(p)
  BY <1>4, <1>5, <1>6
<1>8. IsPrefix(v, r)
  BY <1>1, <1>3, <1>4, <1>5, <1>7, PrefixIs DEF Route
<1> QED BY <1>1, <1>3, <1>8

LEMMA LinesAre ==
    ASSUME NEW T, SoundTree(T), NEW c, c.recursive \in BOOLEAN, c.scope \in Route, c.prefix \in Route,
           NEW p \in DOMAIN T, IsPrefix(c.scope, p), NEW items, items = ItemsOf(T), NEW g,
           \A m \in Names : Append(p, m) \in DOMAIN T => Proper(items, c, Append(p, m), g[Append(p, m)])
    PROVE  Proper(items, c, p, Lines(T, c, g, p))
<1> DEFINE Name(r) == Called(c.scope, c.prefix, r)
           there == {m \in Names : FindItem(T[p], m) # NoItem}
           Part(m) == {Name(r) : r \in Branch(items, c, p, m)}
<1>1. PICK all \in Seq(Cell) :
        /\ all = AllEntries(T[p]) /\ Distinct(all) /\ DOMAIN all = 1 .. Len(all) /\ Len(all) \in Nat
        /\ \A i \in 1 .. Len(all) :
             /\ all[i].name \in Names /\ all[i].item = FindItem(T[p], all[i].name)
             /\ FindItem(T[p], all[i].name) # NoItem
        /\ {all[i].name : i \in 1 .. Len(all)} = there
  BY AllIs
<1>2. PICK n \in Nat : n = Len(all)
  BY <1>1
<1>3. PICK seqs : seqs = [i \in 1 .. n |-> Line(c, g, p, all[i])]
  OBVIOUS
<1>4. Lines(T, c, g, p) = FlattenSeq(seqs)
  BY <1>1, <1>2, <1>3 DEF Lines
<1>5. ASSUME NEW i \in 1 .. n
      PROVE  seqs[i] \in Seq(Route) /\ Once(seqs[i]) /\ Elements(seqs[i]) = Part(all[i].name)
  <2>1. PICK e : e = all[i]
    OBVIOUS
  <2>2. PICK m \in Names : m = e.name
    BY <1>1, <1>2, <2>1
  <2>3. PICK q : q = Append(p, m)
    OBVIOUS
  <2>4. e.item = FindItem(T[p], m) /\ e.item # NoItem
    BY <1>1, <1>2, <2>1, <2>2
  <2>5. ASSUME e.item = Scope PROVE Proper(items, c, q, g[q])
    <3>1. \A x \in Route, j \in Names :
            Append(x, j) \in DOMAIN T <=> x \in DOMAIN T /\ FindItem(T[x], j) = Scope
      BY DEF SoundTree
    <3>2. p \in Route
      BY DEF SoundTree
    <3> QED BY <2>3, <2>4, <2>5, <3>1, <3>2
  <2>6. Enumerates(c, Branch(items, c, p, m), Line(c, g, p, e))
    <3>1. e.name \in Names /\ q = Append(p, e.name) /\ e.item = FindItem(T[p], e.name)
      BY <2>2, <2>3, <2>4
    <3>2. Enumerates(c, Branch(items, c, p, e.name), Line(c, g, p, e))
      BY <2>4, <2>5, <3>1, LineIs
    <3> QED BY <2>2, <3>2
  <2> QED BY <1>3, <2>1, <2>2, <2>6 DEF Enumerates, NamesOf
<1>6. ASSUME NEW m \in Names, NEW k \in Names, m # k PROVE Part(m) \cap Part(k) = {}
  <2> SUFFICES ASSUME NEW r \in Branch(items, c, p, m), NEW s \in Branch(items, c, p, k), Name(r) = Name(s)
               PROVE  FALSE
    OBVIOUS
  <2>1. r \in Listed(ItemsOf(T), c, p) /\ s \in Listed(ItemsOf(T), c, p)
    BY DEF Branch
  <2>2. r \in Route /\ s \in Route /\ IsPrefix(c.scope, r) /\ IsPrefix(c.scope, s)
    BY <2>1, ListedRoutes
  <2>3. r = s
    BY <2>2, CalledOnce
  <2> QED BY <1>6, <2>3, BranchesApart
<1>7. UNION {Part(m) : m \in there} = NamesOf(c, Listed(items, c, p))
  <2>1. Listed(items, c, p) = UNION {Branch(items, c, p, m) : m \in there}
    BY ListedIs
  <2> HIDE DEF Name, there
  <2>2. UNION {Part(m) : m \in there} = {Name(r) : r \in UNION {Branch(items, c, p, m) : m \in there}}
    OBVIOUS
  <2> QED BY <2>1, <2>2 DEF NamesOf, Name
<1> HIDE DEF Part
<1>8. \A i, j \in 1 .. n : i # j => Elements(seqs[i]) \cap Elements(seqs[j]) = {}
  <2> SUFFICES ASSUME NEW i \in 1 .. n, NEW j \in 1 .. n, i # j PROVE Elements(seqs[i]) \cap Elements(seqs[j]) = {}
    OBVIOUS
  <2>1. all[i].name \in Names /\ all[j].name \in Names /\ all[i].name # all[j].name
    BY <1>1, <1>2 DEF Distinct
  <2>2. Part(all[i].name) \cap Part(all[j].name) = {}
    BY <1>6, <2>1
  <2> QED BY <1>5, <2>2
<1>9. seqs \in [1 .. n -> Seq(Route)]
  BY <1>3, <1>5
<1>10. /\ FlattenSeq(seqs) \in Seq(Route) /\ Once(FlattenSeq(seqs))
       /\ Elements(FlattenSeq(seqs)) = UNION {Elements(seqs[i]) : i \in 1 .. n}
  <2>1. \A i \in 1 .. n : Once(seqs[i])
    BY <1>5
  <2> QED BY <1>8, <1>9, <2>1, FlattenParts
<1>11. UNION {Elements(seqs[i]) : i \in 1 .. n} = UNION {Part(m) : m \in there}
  <2>1. {Elements(seqs[i]) : i \in 1 .. n} = {Part(all[i].name) : i \in 1 .. n}
    BY <1>5
  <2>2. {Part(all[i].name) : i \in 1 .. n} = {Part(m) : m \in {all[i].name : i \in 1 .. n}}
    OBVIOUS
  <2> QED BY <1>1, <1>2, <2>1, <2>2
<1> QED BY <1>4, <1>7, <1>10, <1>11 DEF Proper, Enumerates

\* A listing has what it should at every scope: by induction from the deepest.
LEMMA ListingIs ==
    ASSUME NEW T, SoundTree(T), NEW N \in Nat, \A p \in DOMAIN T : Len(p) \in 0 .. N,
           NEW c, c.recursive \in BOOLEAN, c.scope \in DOMAIN T, c.prefix \in Route,
           NEW g, Listing(T, c, g), NEW items, items = ItemsOf(T)
    PROVE  Proper(items, c, c.scope, g[c.scope])
<1> DEFINE D == DOMAIN T
           S == {n \in Nat : \A p \in D : Len(p) + n > N /\ IsPrefix(c.scope, p) => Proper(items, c, p, g[p])}
<1>1. c.scope \in Route
  BY DEF SoundTree
<1>2. \A p \in D : g[p] = Lines(T, c, g, p)
  BY DEF Listing
<1>3. 0 \in S
  <2> SUFFICES ASSUME NEW p \in D PROVE ~(Len(p) + 0 > N)
    OBVIOUS
  <2>1. Len(p) \in 0 .. N
    OBVIOUS
  <2> QED BY <2>1
<1>4. ASSUME NEW n \in Nat, n \in S PROVE n + 1 \in S
  <2> SUFFICES ASSUME NEW p \in D, Len(p) + (n + 1) > N, IsPrefix(c.scope, p) PROVE Proper(items, c, p, g[p])
    OBVIOUS
  <2>1. p \in Route
    BY DEF SoundTree
  <2>2. ASSUME NEW m \in Names, Append(p, m) \in DOMAIN T PROVE Proper(items, c, Append(p, m), g[Append(p, m)])
    <3>1. Len(Append(p, m)) = Len(p) + 1 /\ Len(p) \in Nat
      BY <2>1, AppendProperties, FunctionOf DEF Route
    <3>2. Len(Append(p, m)) + n > N
      BY <3>1
    <3>3. IsPrefix(c.scope, Append(p, m))
      BY <1>1, <2>1, PrefixOfAppend DEF Route
    <3> QED BY <1>4, <2>2, <3>2, <3>3
  <2>3. Proper(items, c, p, Lines(T, c, g, p))
    BY <1>1, <2>2, LinesAre
  <2> QED BY <1>2, <2>3
<1>5. Nat \subseteq S
  <2> HIDE DEF S
  <2> QED BY <1>3, <1>4, SetInduction
<1>6. N + 1 \in S
  <2> HIDE DEF S
  <2> QED BY <1>5
<1>7. Len(c.scope) \in 0 .. N
  OBVIOUS
<1>8. Len(c.scope) + (N + 1) > N
  <2>1. PICK l \in 0 .. N : l = Len(c.scope)
    BY <1>7
  <2>2. l + (N + 1) > N
    OBVIOUS
  <2> QED BY <2>1, <2>2
<1>9. IsPrefix(c.scope, c.scope)
  BY <1>1, SubSeqFull DEF IsPrefix, Route
<1> QED BY <1>6, <1>8, <1>9

\* The scopes are nested no deeper than some number.
LEMMA ScopesDeep ==
    ASSUME CInv, Deep(Items)
    PROVE  \E N \in Nat : \A p \in DOMAIN tables : Len(p) \in 0 .. N
<1>1. SoundTree(tables)
  BY DEF CInv
<1>2. PICK N \in Nat : \A p \in DOMAIN Items : Len(p) \in 0 .. N
  BY DEF Deep
<1>3. ASSUME NEW p \in DOMAIN tables PROVE Len(p) \in 0 .. N
  <2>1. p \in Seq(Names)
    BY <1>1 DEF SoundTree, Route
  <2>2. CASE p = <<>>
    BY <2>2
  <2>3. CASE p # <<>>
    <3>1. PICK r \in Route, m \in Names : p = Append(r, m)
      BY <2>1, <2>3, SplitLast DEF Route
    <3>2. \A x \in Route, j \in Names :
            Append(x, j) \in DOMAIN tables <=> x \in DOMAIN tables /\ FindItem(tables[x], j) = Scope
      BY <1>1 DEF SoundTree
    <3>3. r \in DOMAIN tables /\ FindItem(tables[r], m) # NoItem
      BY <3>1, <3>2, NoItemIs
    <3>4. p \in DOMAIN Items
      BY <1>1, <3>1, <3>3, ItemsDomain DEF Items
    <3> QED BY <1>2, <3>4
  <2> QED BY <2>2, <2>3
<1> QED BY <1>3

\* What the recursion of a listing yields.
LEMMA ScopedNamesAre ==
    ASSUME CInv, Deep(Items), NEW scope \in DOMAIN tables, NEW prefix \in Route, NEW mask,
           NEW recursive \in BOOLEAN, NEW accepted, NEW c, c = Asked(scope, prefix, mask, recursive, accepted)
    PROVE  Enumerates(c, Listed(Items, c, scope), ScopedNames(scope, prefix, mask, recursive, accepted))
<1>1. SoundTree(tables)
  BY DEF CInv
<1>2. PICK N \in Nat : \A p \in DOMAIN tables : Len(p) \in 0 .. N
  BY ScopesDeep
<1>4. c.recursive \in BOOLEAN /\ c.scope = scope /\ c.prefix = prefix
  BY DEF Asked
<1>5. PICK g : g = CHOOSE h : Listing(tables, c, h)
  OBVIOUS
<1>6. Listing(tables, c, g)
  BY <1>1, <1>2, <1>5, ListingMakes
<1>7. Proper(Items, c, c.scope, g[c.scope])
  <2>1. PICK items : items = ItemsOf(tables)
    OBVIOUS
  <2>2. Proper(items, c, c.scope, g[c.scope])
    BY <1>1, <1>2, <1>4, <1>6, <2>1, ListingIs
  <2> QED BY <2>1, <2>2 DEF Items
<1>8. ScopedNames(scope, prefix, mask, recursive, accepted) = g[scope]
  BY <1>5, ScopedNamesIs
<1> QED BY <1>4, <1>7, <1>8 DEF Proper

-----------------------------------------------------------------------------
\* The order of names.  A sequence of codes, with an end that comes before any code.
Positions == Nat \ {0}
Ended(a) == [i \in Positions |-> IF i <= Len(a) THEN a[i] ELSE -1]
Below(f, g) == \E i \in Positions : f[i] < g[i] /\ \A j \in 1 .. i - 1 : f[j] = g[j]
Lex(a, b) ==
    \/ \E i \in 1 .. Len(a) : i <= Len(b) /\ a[i] < b[i] /\ \A j \in 1 .. i - 1 : a[j] = b[j]
    \/ Len(a) < Len(b) /\ \A j \in 1 .. Len(a) : a[j] = b[j]

LEMMA LeastIs ==
    ASSUME NEW S \in SUBSET Nat, S # {}
    PROVE  \E n \in S : \A m \in S : n <= m
<1> SUFFICES ASSUME \A n \in S : \E m \in S : ~(n <= m) PROVE FALSE
  OBVIOUS
<1> DEFINE R == {n \in Nat : \A m \in 0 .. n : m \notin S}
<1>1. 0 \in R
  <2>1. 0 \notin S
    <3>1. \A m \in S : 0 <= m
      OBVIOUS
    <3> QED BY <3>1
  <2>2. 0 .. 0 = {0}
    OBVIOUS
  <2> QED BY <2>1, <2>2
<1>2. ASSUME NEW n \in Nat, n \in R PROVE n + 1 \in R
  <2>1. n + 1 \notin S
    <3> SUFFICES ASSUME n + 1 \in S PROVE FALSE
      OBVIOUS
    <3>1. PICK m \in S : ~(n + 1 <= m)
      OBVIOUS
    <3>2. m \in 0 .. n
      BY <3>1
    <3> QED BY <1>2, <3>2
  <2>2. \A m \in 0 .. n + 1 : m \in 0 .. n \/ m = n + 1
    OBVIOUS
  <2> QED BY <1>2, <2>1, <2>2
<1>3. Nat \subseteq R
  <2> HIDE DEF R
  <2> QED BY <1>1, <1>2, SetInduction
<1>4. PICK n \in S : TRUE
  OBVIOUS
<1>5. n \in R /\ n \in 0 .. n
  <2> HIDE DEF R
  <2> QED BY <1>3
<1> QED BY <1>5

LEMMA EndedIs ==
    ASSUME NEW a \in Seq(Nat)
    PROVE  Ended(a) \in [Positions -> Int]
<1>1. a \in [1 .. Len(a) -> Nat] /\ Len(a) \in Nat
  BY FunctionOf
<1>2. ASSUME NEW i \in Positions PROVE (IF i <= Len(a) THEN a[i] ELSE -1) \in Int
  <2>1. CASE i <= Len(a)
    <3>1. i \in 1 .. Len(a)
      BY <1>1, <2>1 DEF Positions
    <3> QED BY <1>1, <2>1, <3>1
  <2> QED BY <2>1
<1> QED BY <1>2 DEF Ended

LEMMA LexIs ==
    ASSUME NEW a \in Seq(Nat), NEW b \in Seq(Nat)
    PROVE  Lex(a, b) <=> Below(Ended(a), Ended(b))
<1> DEFINE f == Ended(a)
           g == Ended(b)
<1>1. PICK k \in Nat, l \in Nat : k = Len(a) /\ l = Len(b) /\ a \in [1 .. k -> Nat] /\ b \in [1 .. l -> Nat]
  BY FunctionOf
<1>2. /\ \A i \in 1 .. k : f[i] = a[i] /\ i \in Positions /\ f[i] \in Nat
      /\ \A i \in Positions : i > k => f[i] = -1
  BY <1>1 DEF Ended, Positions
<1>3. /\ \A i \in 1 .. l : g[i] = b[i] /\ i \in Positions /\ g[i] \in Nat
      /\ \A i \in Positions : i > l => g[i] = -1
  BY <1>1 DEF Ended, Positions
<1> HIDE DEF f, g
<1>4. ASSUME NEW i \in 1 .. k, i <= l, a[i] < b[i], \A j \in 1 .. i - 1 : a[j] = b[j] PROVE Below(f, g)
  <2>1. i \in Positions /\ i \in 1 .. l /\ \A j \in 1 .. i - 1 : j \in 1 .. k /\ j \in 1 .. l
    BY <1>4 DEF Positions
  <2>2. f[i] < g[i] /\ \A j \in 1 .. i - 1 : f[j] = g[j]
    BY <1>2, <1>3, <1>4, <2>1
  <2> QED BY <2>1, <2>2 DEF Below
<1>5. ASSUME k < l, \A j \in 1 .. k : a[j] = b[j] PROVE Below(f, g)
  <2>1. k + 1 \in Positions /\ k + 1 \in 1 .. l /\ k + 1 > k /\ (k + 1) - 1 = k /\ \A j \in 1 .. k : j \in 1 .. l
    BY <1>5 DEF Positions
  <2>2. f[k + 1] < g[k + 1]
    <3>1. f[k + 1] = -1 /\ g[k + 1] \in Nat
      BY <1>2, <1>3, <2>1
    <3>2. \A x \in Nat : -1 < x
      OBVIOUS
    <3> QED BY <3>1, <3>2
  <2>3. \A j \in 1 .. k : f[j] = g[j]
    BY <1>2, <1>3, <1>5, <2>1
  <2> QED BY <2>1, <2>2, <2>3 DEF Below
<1>6. ASSUME NEW i \in Positions, f[i] < g[i], \A j \in 1 .. i - 1 : f[j] = g[j] PROVE Lex(a, b)
  <2>1. CASE i <= k /\ i <= l
    <3>1. i \in 1 .. k /\ i \in 1 .. l /\ \A j \in 1 .. i - 1 : j \in 1 .. k /\ j \in 1 .. l
      BY <2>1 DEF Positions
    <3>2. a[i] < b[i] /\ \A j \in 1 .. i - 1 : a[j] = b[j]
      BY <1>2, <1>3, <1>6, <3>1
    <3> QED BY <1>1, <2>1, <3>1, <3>2 DEF Lex
  <2>2. CASE ~(i <= l)
    <3>1. g[i] = -1 /\ f[i] \in Nat \cup {-1}
      <4>1. i > l /\ (i > k \/ i \in 1 .. k)
        BY <2>2 DEF Positions
      <4> QED BY <1>2, <1>3, <4>1
    <3>2. \A x \in Nat \cup {-1} : ~(x < -1)
      OBVIOUS
    <3> QED BY <1>6, <3>1, <3>2
  <2>3. CASE ~(i <= k) /\ i <= l
    <3>1. k < l /\ \A j \in 1 .. k : j \in 1 .. i - 1 /\ j \in 1 .. l
      BY <2>3 DEF Positions
    <3>2. \A j \in 1 .. k : a[j] = b[j]
      BY <1>2, <1>3, <1>6, <3>1
    <3> QED BY <1>1, <3>1, <3>2 DEF Lex
  <2> QED BY <2>1, <2>2, <2>3
<1>7. Lex(a, b) => Below(f, g)
  BY <1>1, <1>4, <1>5 DEF Lex
<1>8. Below(f, g) => Lex(a, b)
  BY <1>6 DEF Below
<1> QED BY <1>7, <1>8 DEF f, g

LEMMA EndedOnce ==
    ASSUME NEW a \in Seq(Nat), NEW b \in Seq(Nat), Ended(a) = Ended(b)
    PROVE  a = b
<1>1. PICK k \in Nat, l \in Nat : k = Len(a) /\ l = Len(b) /\ a \in [1 .. k -> Nat] /\ b \in [1 .. l -> Nat]
  BY FunctionOf
<1>2. \A i \in Positions : Ended(a)[i] = (IF i <= k THEN a[i] ELSE -1) /\ Ended(b)[i] = (IF i <= l THEN b[i] ELSE -1)
  BY <1>1 DEF Ended
<1>3. ~(k < l)
  <2> SUFFICES ASSUME k < l PROVE FALSE
    OBVIOUS
  <2>1. k + 1 \in Positions /\ ~(k + 1 <= k) /\ k + 1 <= l /\ k + 1 \in 1 .. l
    BY DEF Positions
  <2>2. b[k + 1] = -1 /\ b[k + 1] \in Nat
    BY <1>1, <1>2, <2>1
  <2>3. \A x \in Nat : x # -1
    OBVIOUS
  <2> QED BY <2>2, <2>3
<1>4. ~(l < k)
  <2> SUFFICES ASSUME l < k PROVE FALSE
    OBVIOUS
  <2>1. l + 1 \in Positions /\ ~(l + 1 <= l) /\ l + 1 <= k /\ l + 1 \in 1 .. k
    BY DEF Positions
  <2>2. a[l + 1] = -1 /\ a[l + 1] \in Nat
    BY <1>1, <1>2, <2>1
  <2>3. \A x \in Nat : x # -1
    OBVIOUS
  <2> QED BY <2>2, <2>3
<1>5. k = l
  BY <1>3, <1>4
<1>6. \A i \in 1 .. k : a[i] = b[i]
  <2>1. \A i \in 1 .. k : i \in Positions /\ i <= k /\ i <= l
    BY <1>5 DEF Positions
  <2> QED BY <1>2, <2>1
<1> QED BY <1>1, <1>5, <1>6, SeqEqual

\* Of two that differ one is below the other, and what is between them.
LEMMA FirstDifference ==
    ASSUME NEW f \in [Positions -> Int], NEW g \in [Positions -> Int], f # g
    PROVE  \E i \in Positions : f[i] # g[i] /\ \A j \in 1 .. i - 1 : f[j] = g[j]
<1> DEFINE S == {i \in Positions : f[i] # g[i]}
<1>1. S \in SUBSET Nat /\ S # {}
  BY DEF Positions
<1>2. PICK i \in S : \A j \in S : i <= j
  <2> HIDE DEF S
  <2> QED BY <1>1, LeastIs
<1>3. ASSUME NEW j \in 1 .. i - 1 PROVE f[j] = g[j]
  <2>1. j \in Positions /\ ~(i <= j)
    BY DEF Positions
  <2> QED BY <1>2, <2>1
<1> QED BY <1>2, <1>3

LEMMA BelowTotal ==
    ASSUME NEW f \in [Positions -> Int], NEW g \in [Positions -> Int], f # g
    PROVE  Below(f, g) \/ Below(g, f)
<1>1. PICK i \in Positions : f[i] # g[i] /\ \A j \in 1 .. i - 1 : f[j] = g[j]
  BY FirstDifference
<1>2. f[i] \in Int /\ g[i] \in Int
  OBVIOUS
<1>3. f[i] < g[i] \/ g[i] < f[i]
  BY <1>1, <1>2
<1> QED BY <1>1, <1>3 DEF Below

LEMMA BelowOneWay ==
    ASSUME NEW f \in [Positions -> Int], NEW g \in [Positions -> Int], Below(f, g)
    PROVE  ~Below(g, f)
<1>1. PICK i \in Positions : f[i] < g[i] /\ \A j \in 1 .. i - 1 : f[j] = g[j]
  BY DEF Below
<1> SUFFICES ASSUME NEW k \in Positions, g[k] < f[k], \A j \in 1 .. k - 1 : g[j] = f[j] PROVE FALSE
  BY DEF Below
<1>2. f[i] \in Int /\ g[i] \in Int /\ f[k] \in Int /\ g[k] \in Int
  OBVIOUS
<1>3. CASE i = k
  BY <1>1, <1>2, <1>3
<1>4. CASE i < k
  <2>1. i \in 1 .. k - 1
    BY <1>4 DEF Positions
  <2> QED BY <1>1, <1>2, <2>1
<1>5. CASE k < i
  <2>1. k \in 1 .. i - 1
    BY <1>5 DEF Positions
  <2> QED BY <1>1, <1>2, <2>1
<1> QED BY <1>3, <1>4, <1>5 DEF Positions

LEMMA BelowBetween ==
    ASSUME NEW f \in [Positions -> Int], NEW g \in [Positions -> Int], NEW h \in [Positions -> Int], Below(f, g)
    PROVE  Below(f, h) \/ Below(h, g)
<1>1. PICK i \in Positions : f[i] < g[i] /\ \A j \in 1 .. i - 1 : f[j] = g[j]
  BY DEF Below
<1>2. CASE f = h
  BY <1>2
<1>3. CASE f # h
  <2>1. PICK k \in Positions : f[k] # h[k] /\ \A j \in 1 .. k - 1 : f[j] = h[j]
    BY <1>3, FirstDifference
  <2>2. f[i] \in Int /\ g[i] \in Int /\ f[k] \in Int /\ h[k] \in Int /\ g[k] \in Int /\ h[i] \in Int
    OBVIOUS
  <2>3. CASE f[k] < h[k]
    BY <2>1, <2>3 DEF Below
  <2>4. CASE h[k] < f[k] /\ k <= i
    <3>1. h[k] < g[k]
      <4>1. CASE k = i
        BY <1>1, <2>2, <2>4, <4>1
      <4>2. CASE k # i
        <5>1. k \in 1 .. i - 1
          BY <2>4, <4>2 DEF Positions
        <5> QED BY <1>1, <2>4, <5>1
      <4> QED BY <4>1, <4>2
    <3>2. \A j \in 1 .. k - 1 : h[j] = g[j]
      <4>1. \A j \in 1 .. k - 1 : j \in 1 .. i - 1
        BY <2>4 DEF Positions
      <4> QED BY <1>1, <2>1, <4>1
    <3> QED BY <3>1, <3>2 DEF Below
  <2>5. CASE i < k
    <3>1. i \in 1 .. k - 1 /\ \A j \in 1 .. i - 1 : j \in 1 .. k - 1
      BY <2>5 DEF Positions
    <3>2. h[i] < g[i] /\ \A j \in 1 .. i - 1 : h[j] = g[j]
      BY <1>1, <2>1, <3>1
    <3> QED BY <3>2 DEF Below
  <2>6. k <= i \/ i < k
    BY DEF Positions
  <2> QED BY <2>1, <2>2, <2>3, <2>4, <2>5, <2>6
<1> QED BY <1>1, <1>2, <1>3 DEF Below

\* What strcmp compares: the codes of the components, with dots in between.
Dotless(w) == \A i \in 1 .. Len(w) : w[i] # Dot
Joined(v, w) == v \o (IF v = <<>> THEN <<>> ELSE <<Dot>>) \o w
CodeRuns(path) ==
    {f \in [0 .. Len(path) -> Seq(Nat)] :
       f[0] = <<>> /\ \A k \in 1 .. Len(path) : f[k] = Joined(f[k - 1], CodesOf(path[k]))}

LEMMA JoinedType ==
    ASSUME NEW v \in Seq(Nat), NEW w \in Seq(Nat)
    PROVE  Joined(v, w) \in Seq(Nat)
<1>1. <<>> \in Seq(Nat) /\ <<Dot>> \in Seq(Nat)
  BY DEF Dot
<1>2. PICK d \in Seq(Nat) : d = IF v = <<>> THEN <<>> ELSE <<Dot>>
  BY <1>1
<1>3. v \o d \in Seq(Nat)
  BY ConcatProperties
<1>4. (v \o d) \o w \in Seq(Nat)
  BY <1>3, ConcatProperties
<1> QED BY <1>2, <1>4 DEF Joined

LEMMA NameCodes ==
    ASSUME NEW m \in Names
    PROVE  CodesOf(m) \in Seq(Nat) /\ Dotless(CodesOf(m))
<1>1. CodesOf(m) \in Seq(Nat \ {Dot})
  BY NamesAssumption
<1>2. PICK w \in Seq(Nat \ {Dot}) : w = CodesOf(m)
  BY <1>1
<1>3. w \in [1 .. Len(w) -> Nat \ {Dot}] /\ Len(w) \in Nat
  BY FunctionOf
<1>4. w \in [1 .. Len(w) -> Nat]
  BY <1>3
<1>5. w \in Seq(Nat)
  BY <1>3, <1>4, SequenceOf
<1> QED BY <1>2, <1>3, <1>5 DEF Dotless

LEMMA CodesAre ==
    ASSUME NEW path \in Route
    PROVE  \E f \in CodeRuns(path) : Codes(path) = f[Len(path)]
<1> DEFINE X == Seq(Nat)
           N == Len(path)
           step == [q \in Nat \X X |-> IF q[1] \in 1 .. N THEN Joined(q[2], CodesOf(path[q[1]])) ELSE <<>>]
           At(g) == g = [n \in 0 .. N |-> IF n = 0 THEN <<>> ELSE Joined(g[n - 1], CodesOf(path[n]))]
           at == CHOOSE g : At(g)
<1>1. N \in Nat /\ path \in [1 .. N -> Names]
  BY FunctionOf DEF Route
<1>2. <<>> \in X /\ step \in Steps(X)
  <2>1. <<>> \in X
    OBVIOUS
  <2>2. ASSUME NEW q \in Nat \X X
        PROVE  (IF q[1] \in 1 .. N THEN Joined(q[2], CodesOf(path[q[1]])) ELSE <<>>) \in X
    <3>1. q[1] \in 1 .. N => CodesOf(path[q[1]]) \in X
      BY <1>1, NameCodes
    <3>2. q[2] \in X
      OBVIOUS
    <3> QED BY <2>1, <3>1, <3>2, JoinedType
  <2> HIDE DEF X
  <2> QED BY <2>1, <2>2 DEF Steps
<1>3. PICK f : f \in Runs(X, <<>>, step, N)
  <2> HIDE DEF step, X, N
  <2> QED BY <1>1, <1>2, PrimitiveRecursion
<1>4. f \in [0 .. N -> X] /\ f[0] = <<>> /\ \A k \in 1 .. N : f[k] = Joined(f[k - 1], CodesOf(path[k]))
  <2> HIDE DEF X, N
  <2>1. f \in [0 .. N -> X] /\ f[0] = <<>> /\ \A k \in 1 .. N : f[k] = step[<<k, f[k - 1]>>]
    BY <1>3 DEF Runs
  <2>2. ASSUME NEW k \in 1 .. N PROVE step[<<k, f[k - 1]>>] = Joined(f[k - 1], CodesOf(path[k]))
    <3>1. <<k, f[k - 1]>> \in Nat \X X
      BY <1>1, <2>1
    <3> QED BY <3>1
  <2> QED BY <2>1, <2>2
<1> HIDE DEF N
<1>5. At(f)
  <2>1. \A n \in 0 .. N : f[n] = IF n = 0 THEN <<>> ELSE Joined(f[n - 1], CodesOf(path[n]))
    <3>1. \A n \in 0 .. N : n = 0 \/ n \in 1 .. N
      BY <1>1
    <3> QED BY <1>4, <3>1
  <2> QED BY <1>4, <2>1
<1>6. At(at)
  <2> HIDE DEF At
  <2> QED BY <1>5
<1>7. Codes(path) = at[N]
  BY DEF Codes, Joined, N
<1> HIDE DEF at
<1> DEFINE S == {k \in Nat : k <= N => at[k] = f[k]}
<1>8. 0 \in S
  <2>1. 0 \in 0 .. N
    BY <1>1
  <2> QED BY <1>4, <1>6, <2>1
<1>9. ASSUME NEW k \in Nat, k \in S PROVE k + 1 \in S
  <2> SUFFICES ASSUME k + 1 <= N PROVE at[k + 1] = f[k + 1]
    OBVIOUS
  <2>1. at[k] = f[k] /\ k + 1 \in 0 .. N /\ k + 1 # 0 /\ (k + 1) - 1 = k /\ k + 1 \in 1 .. N
    BY <1>1, <1>9
  <2>2. at[k + 1] = Joined(at[k], CodesOf(path[k + 1]))
    BY <1>6, <2>1
  <2> QED BY <1>4, <2>1, <2>2
<1>10. Nat \subseteq S
  <2> HIDE DEF S
  <2> QED BY <1>8, <1>9, SetInduction
<1>11. at[N] = f[N]
  BY <1>1, <1>10
<1> QED BY <1>4, <1>7, <1>11 DEF CodeRuns, N

LEMMA CodesNext ==
    ASSUME NEW path \in Route, NEW m \in Names
    PROVE  /\ Codes(path) \in Seq(Nat) /\ Codes(<<>>) = <<>>
           /\ Codes(Append(path, m)) = Joined(Codes(path), CodesOf(m))
<1> DEFINE q == Append(path, m)
<1>1. PICK N \in Nat : N = Len(path) /\ path \in [1 .. N -> Names]
  BY FunctionOf DEF Route
<1>2. q \in Route /\ Len(q) = N + 1 /\ (\A i \in 1 .. N : q[i] = path[i]) /\ q[N + 1] = m
  BY <1>1, AppendProperties DEF Route
<1> HIDE DEF q
<1>3. PICK f \in CodeRuns(path) : Codes(path) = f[N]
  BY <1>1, CodesAre
<1>4. PICK h \in CodeRuns(q) : Codes(q) = h[N + 1]
  BY <1>2, CodesAre
<1>5. f \in [0 .. N -> Seq(Nat)] /\ f[0] = <<>> /\ \A k \in 1 .. N : f[k] = Joined(f[k - 1], CodesOf(path[k]))
  BY <1>1, <1>3 DEF CodeRuns
<1>6. h[0] = <<>> /\ \A k \in 1 .. N + 1 : h[k] = Joined(h[k - 1], CodesOf(q[k]))
  BY <1>2, <1>4 DEF CodeRuns
<1> DEFINE S == {k \in Nat : k <= N => h[k] = f[k]}
<1>7. 0 \in S
  BY <1>5, <1>6
<1>8. ASSUME NEW k \in Nat, k \in S PROVE k + 1 \in S
  <2> SUFFICES ASSUME k + 1 <= N PROVE h[k + 1] = f[k + 1]
    OBVIOUS
  <2>1. h[k] = f[k] /\ k + 1 \in 1 .. N /\ k + 1 \in 1 .. N + 1 /\ (k + 1) - 1 = k
    BY <1>8
  <2>2. h[k + 1] = Joined(h[k], CodesOf(q[k + 1])) /\ f[k + 1] = Joined(f[k], CodesOf(path[k + 1]))
    BY <1>5, <1>6, <2>1
  <2> QED BY <1>2, <2>1, <2>2
<1>9. Nat \subseteq S
  <2> HIDE DEF S
  <2> QED BY <1>7, <1>8, SetInduction
<1>10. h[N] = f[N] /\ N + 1 \in 1 .. N + 1 /\ (N + 1) - 1 = N
  BY <1>9
<1>11. Codes(q) = Joined(Codes(path), CodesOf(m))
  BY <1>2, <1>3, <1>4, <1>6, <1>10
<1>12. Codes(<<>>) = <<>>
  <2>1. <<>> \in Route /\ Len(<<>>) = 0
    BY DEF Route
  <2>2. PICK r \in CodeRuns(<<>>) : Codes(<<>>) = r[0]
    BY <2>1, CodesAre
  <2> QED BY <2>2 DEF CodeRuns
<1>13. N \in 0 .. N
  OBVIOUS
<1> QED BY <1>3, <1>5, <1>11, <1>12, <1>13 DEF q

\* Something between two sequences.
LEMMA BetweenIs ==
    ASSUME NEW S, NEW u \in Seq(S), NEW d \in S, NEW w \in Seq(S)
    PROVE  LET r == (u \o <<d>>) \o w
           IN  /\ r \in Seq(S) /\ Len(r) = Len(u) + 1 + Len(w) /\ r[Len(u) + 1] = d
               /\ \A i \in 1 .. Len(u) : r[i] = u[i]
               /\ \A i \in 1 .. Len(w) : r[Len(u) + 1 + i] = w[i]
<1> DEFINE y == Append(u, d)
<1>1. PICK a \in Nat, c \in Nat : a = Len(u) /\ c = Len(w)
  BY FunctionOf
<1>2. y \in Seq(S) /\ Len(y) = a + 1 /\ (\A i \in 1 .. a : y[i] = u[i]) /\ y[a + 1] = d
  BY <1>1, AppendProperties
<1>3. u \o <<d>> = y
  BY AppendIsConcat
<1> HIDE DEF y
<1> DEFINE r == y \o w
<1>4. r \in Seq(S) /\ Len(r) = Len(y) + Len(w)
      /\ \A i \in 1 .. Len(y) + Len(w) : r[i] = IF i <= Len(y) THEN y[i] ELSE w[i - Len(y)]
  BY ONLY <1>2, w \in Seq(S), ConcatProperties
<1> HIDE DEF r
<1>5. Len(r) = (a + 1) + c /\ \A i \in 1 .. (a + 1) + c : r[i] = IF i <= a + 1 THEN y[i] ELSE w[i - (a + 1)]
  BY <1>1, <1>2, <1>4
<1>6. a + 1 \in 1 .. (a + 1) + c /\ a + 1 <= a + 1 /\ (\A i \in 1 .. a : i \in 1 .. (a + 1) + c /\ i <= a + 1)
  OBVIOUS
<1>7. \A i \in 1 .. c : a + 1 + i \in 1 .. (a + 1) + c /\ ~(a + 1 + i <= a + 1) /\ (a + 1 + i) - (a + 1) = i
  OBVIOUS
<1>8. r[a + 1] = d /\ (\A i \in 1 .. a : r[i] = u[i]) /\ \A i \in 1 .. c : r[a + 1 + i] = w[i]
  BY <1>2, <1>5, <1>6, <1>7
<1> QED BY <1>1, <1>3, <1>4, <1>5, <1>8 DEF r

\* The last dot divides what was joined.
LEMMA LastDot ==
    ASSUME NEW u \in Seq(Nat), NEW v \in Seq(Nat), NEW w \in Seq(Nat), NEW x \in Seq(Nat),
           Dotless(w), Dotless(x),
           (u \o <<Dot>>) \o w = (v \o <<Dot>>) \o x
    PROVE  u = v /\ w = x
<1>1. PICK a \in Nat, b \in Nat, c \in Nat, d \in Nat : a = Len(u) /\ b = Len(v) /\ c = Len(w) /\ d = Len(x)
  BY FunctionOf
<1> DEFINE s == (u \o <<Dot>>) \o w
           t == (v \o <<Dot>>) \o x
<1>2. Dot \in Nat
  BY DEF Dot
<1>3. /\ Len(s) = a + 1 + c /\ s[a + 1] = Dot
      /\ \A i \in 1 .. a : s[i] = u[i]
      /\ \A i \in 1 .. c : s[a + 1 + i] = w[i]
  BY <1>1, <1>2, BetweenIs
<1>4. /\ Len(t) = b + 1 + d /\ t[b + 1] = Dot
      /\ \A i \in 1 .. b : t[i] = v[i]
      /\ \A i \in 1 .. d : t[b + 1 + i] = x[i]
  BY <1>1, <1>2, BetweenIs
<1>5. s = t
  OBVIOUS
<1> HIDE DEF s, t
<1>6. a + 1 + c = b + 1 + d
  BY <1>3, <1>4, <1>5
<1>7. ~(a < b)
  <2> SUFFICES ASSUME a < b PROVE FALSE
    OBVIOUS
  <2>1. b - a \in 1 .. c /\ a + 1 + (b - a) = b + 1
    BY <1>6
  <2>2. s[b + 1] = w[b - a]
    BY <1>3, <2>1
  <2> QED BY <1>1, <1>4, <1>5, <2>1, <2>2 DEF Dotless
<1>8. ~(b < a)
  <2> SUFFICES ASSUME b < a PROVE FALSE
    OBVIOUS
  <2>1. a - b \in 1 .. d /\ b + 1 + (a - b) = a + 1
    <3>1. a - b = d - c /\ a - b > 0
      BY <1>6
    <3>2. d - c <= d /\ a - b \in Int /\ b + 1 + (a - b) = a + 1
      OBVIOUS
    <3> QED BY <3>1, <3>2
  <2>2. t[a + 1] = x[a - b]
    BY <1>4, <2>1
  <2> QED BY <1>1, <1>3, <1>5, <2>1, <2>2 DEF Dotless
<1>9. a = b /\ c = d
  <2>1. a = b
    BY ONLY a \in Nat, b \in Nat, <1>7, <1>8
  <2>2. a + 1 + c = a + 1 + d
    BY <1>6, <2>1
  <2>3. c = d
    BY ONLY a \in Nat, c \in Nat, d \in Nat, <2>2
  <2> QED BY <2>1, <2>3
<1>10. \A i \in 1 .. a : u[i] = v[i]
  BY <1>3, <1>4, <1>5, <1>9
<1>11. \A i \in 1 .. c : w[i] = x[i]
  BY <1>3, <1>4, <1>5, <1>9
<1> QED BY <1>1, <1>9, <1>10, <1>11, SeqEqual

\* Something with a dot in it is no name.
LEMMA DotInside ==
    ASSUME NEW u \in Seq(Nat), NEW w \in Seq(Nat), NEW x \in Seq(Nat), Dotless(x)
    PROVE  (u \o <<Dot>>) \o w # x
<1> SUFFICES ASSUME (u \o <<Dot>>) \o w = x PROVE FALSE
  OBVIOUS
<1>1. PICK a \in Nat, c \in Nat : a = Len(u) /\ c = Len(w)
  BY FunctionOf
<1>2. Dot \in Nat
  BY DEF Dot
<1>3. x[a + 1] = Dot /\ Len(x) = a + 1 + c
  <2>1. PICK r : r = (u \o <<Dot>>) \o w
    OBVIOUS
  <2>2. Len(r) = Len(u) + 1 + Len(w) /\ r[Len(u) + 1] = Dot
    BY <1>2, <2>1, BetweenIs
  <2>3. r = x
    BY <2>1
  <2> QED BY <1>1, <2>2, <2>3
<1>4. a + 1 \in 1 .. Len(x)
  BY <1>3
<1> QED BY <1>3, <1>4 DEF Dotless

LEMMA JoinedIs ==
    ASSUME NEW v \in Seq(Nat), NEW w \in Seq(Nat)
    PROVE  /\ v = <<>> => Joined(v, w) = w
           /\ v # <<>> => Joined(v, w) = (v \o <<Dot>>) \o w
           /\ w # <<>> => Joined(v, w) # <<>>
<1>1. CASE v = <<>>
  <2>1. <<>> \in Seq(Nat) /\ <<>> \o <<>> = <<>> /\ <<>> \o w = w
    BY ConcatEmptySeq
  <2> QED BY <1>1, <2>1 DEF Joined
<1>2. CASE v # <<>>
  <2>1. Joined(v, w) = (v \o <<Dot>>) \o w
    BY <1>2 DEF Joined
  <2>2. (v \o <<Dot>>) \o w # <<>>
    <3>1. <<>> \in Seq(Nat) /\ Dotless(<<>>)
      BY DEF Dotless
    <3> QED BY <3>1, DotInside
  <2> QED BY <1>2, <2>1, <2>2
<1> QED BY <1>1, <1>2

\* What was joined can be told from the result.
LEMMA JoinedOnce ==
    ASSUME NEW u \in Seq(Nat), NEW v \in Seq(Nat), NEW w \in Seq(Nat), NEW x \in Seq(Nat),
           Dotless(w), Dotless(x),
           Joined(u, w) = Joined(v, x)
    PROVE  u = v /\ w = x
<1>1. CASE u = <<>> /\ v = <<>>
  <2>1. Joined(u, w) = w /\ Joined(v, x) = x
    BY <1>1, JoinedIs
  <2> QED BY <1>1, <2>1
<1>2. CASE u = <<>> /\ v # <<>>
  <2>1. Joined(u, w) = w
    BY <1>2, JoinedIs
  <2>2. Joined(v, x) = (v \o <<Dot>>) \o x
    BY <1>2, JoinedIs
  <2>3. (v \o <<Dot>>) \o x = w
    BY <2>1, <2>2
  <2> QED BY <2>3, DotInside
<1>3. CASE u # <<>> /\ v = <<>>
  <2>1. Joined(v, x) = x
    BY <1>3, JoinedIs
  <2>2. Joined(u, w) = (u \o <<Dot>>) \o w
    BY <1>3, JoinedIs
  <2>3. (u \o <<Dot>>) \o w = x
    BY <2>1, <2>2
  <2> QED BY <2>3, DotInside
<1>4. CASE u # <<>> /\ v # <<>>
  <2>1. Joined(u, w) = (u \o <<Dot>>) \o w
    BY <1>4, JoinedIs
  <2>2. Joined(v, x) = (v \o <<Dot>>) \o x
    BY <1>4, JoinedIs
  <2>3. (u \o <<Dot>>) \o w = (v \o <<Dot>>) \o x
    BY <2>1, <2>2
  <2> QED BY <2>3, LastDot
<1> QED BY <1>1, <1>2, <1>3, <1>4

\* Paths without an empty name: their codes tell them apart.
Clean == Seq(Names \ {""})

LEMMA CleanIs ==
    ASSUME NEW p \in Clean
    PROVE  /\ p \in Route /\ Len(p) \in Nat
           /\ p # <<>> => \E q \in Clean, m \in Names \ {""} : p = Append(q, m) /\ Len(p) = Len(q) + 1
<1>1. p \in [1 .. Len(p) -> Names \ {""}] /\ Len(p) \in Nat
  BY FunctionOf DEF Clean
<1>2. p \in [1 .. Len(p) -> Names]
  BY <1>1
<1>3. p \in Seq(Names)
  BY <1>1, <1>2, SequenceOf
<1>4. ASSUME p # <<>> PROVE \E q \in Clean, m \in Names \ {""} : p = Append(q, m) /\ Len(p) = Len(q) + 1
  <2>1. PICK q \in Clean, m \in Names \ {""} : p = Append(q, m)
    BY <1>4, SplitLast DEF Clean
  <2>2. Len(Append(q, m)) = Len(q) + 1
    BY AppendProperties DEF Clean
  <2> QED BY <2>1, <2>2
<1> QED BY <1>1, <1>3, <1>4 DEF Route

LEMMA CodesEmpty ==
    ASSUME NEW p \in Clean
    PROVE  Codes(p) = <<>> <=> p = <<>>
<1>1. Codes(<<>>) = <<>>
  <2>1. p \in Route
    BY CleanIs
  <2>2. "" \in Names
    BY NamesAssumption
  <2> QED BY <2>1, <2>2, CodesNext
<1>2. ASSUME p # <<>> PROVE Codes(p) # <<>>
  <2>1. PICK q \in Clean, m \in Names \ {""} : p = Append(q, m)
    BY <1>2, CleanIs
  <2>2. q \in Route /\ m \in Names /\ CodesOf(m) # <<>> /\ CodesOf(m) \in Seq(Nat)
    BY CleanIs, NameCodes, NamesAssumption
  <2>3. Codes(p) = Joined(Codes(q), CodesOf(m)) /\ Codes(q) \in Seq(Nat)
    BY <2>1, <2>2, CodesNext
  <2> QED BY <2>2, <2>3, JoinedIs
<1> QED BY <1>1, <1>2

LEMMA SameNext ==
    ASSUME NEW i \in Nat, NEW j \in Nat, i + 1 = j + 1
    PROVE  i = j
OBVIOUS

LEMMA CodesOnce ==
    ASSUME NEW p \in Clean, NEW q \in Clean, Codes(p) = Codes(q)
    PROVE  p = q
<1> DEFINE S == {n \in Nat : \A x, y \in Clean : Len(x) = n /\ Codes(x) = Codes(y) => x = y}
<1>1. 0 \in S
  <2> SUFFICES ASSUME NEW x \in Clean, NEW y \in Clean, Len(x) = 0, Codes(x) = Codes(y) PROVE x = y
    OBVIOUS
  <2>1. x = <<>>
    BY EmptySeq DEF Clean
  <2> QED BY <2>1, CodesEmpty
<1>2. ASSUME NEW n \in Nat, n \in S PROVE n + 1 \in S
  <2> SUFFICES ASSUME NEW x \in Clean, NEW y \in Clean, Len(x) = n + 1, Codes(x) = Codes(y) PROVE x = y
    OBVIOUS
  <2>1. x # <<>>
    BY EmptySeq
  <2>2. y # <<>>
    BY <2>1, CodesEmpty
  <2>3. PICK u \in Clean, m \in Names \ {""} : x = Append(u, m) /\ Len(x) = Len(u) + 1
    BY <2>1, CleanIs
  <2>4. PICK v \in Clean, k \in Names \ {""} : y = Append(v, k)
    BY <2>2, CleanIs
  <2>5. Len(u) = n
    <3>1. PICK l \in Nat : l = Len(u)
      BY CleanIs
    <3>2. l + 1 = n + 1
      BY <2>3, <3>1
    <3>3. l = n
      BY <3>2, SameNext
    <3> QED BY <3>1, <3>3
  <2>6. u \in Route /\ v \in Route /\ m \in Names /\ k \in Names
    BY CleanIs
  <2>7. PICK a \in Seq(Nat), b \in Seq(Nat), w \in Seq(Nat), z \in Seq(Nat) :
          a = Codes(u) /\ b = Codes(v) /\ w = CodesOf(m) /\ z = CodesOf(k)
    BY <2>6, CodesNext, NameCodes
  <2>8. Dotless(w) /\ Dotless(z)
    BY <2>6, <2>7, NameCodes
  <2>9. Joined(a, w) = Joined(b, z)
    BY <2>3, <2>4, <2>6, <2>7, CodesNext
  <2>10. w = z => m = k
    BY <2>6, <2>7, NamesAssumption
  <2>11. a = b /\ w = z
    BY <2>8, <2>9, JoinedOnce
  <2>12. u = v
    BY <1>2, <2>5, <2>7, <2>11
  <2> QED BY <2>3, <2>4, <2>10, <2>11, <2>12
<1>3. Nat \subseteq S
  <2> HIDE DEF S
  <2> QED BY <1>1, <1>2, SetInduction
<1>4. Len(p) \in S
  <2>1. Len(p) \in Nat
    BY CleanIs
  <2> HIDE DEF S
  <2> QED BY <1>3, <2>1
<1> QED BY <1>4

\* strcmp orders names, and tells those without an empty component apart.
LEMMA PrecedesIs ==
    ASSUME NEW p \in Route, NEW q \in Route
    PROVE  /\ Ended(Codes(p)) \in [Positions -> Int] /\ Ended(Codes(q)) \in [Positions -> Int]
           /\ Precedes(p, q) <=> Below(Ended(Codes(p)), Ended(Codes(q)))
<1>1. "" \in Names
  BY NamesAssumption
<1>2. PICK a \in Seq(Nat), b \in Seq(Nat) : a = Codes(p) /\ b = Codes(q)
  BY <1>1, CodesNext
<1>3. Precedes(p, q) <=> Lex(a, b)
  BY <1>2 DEF Precedes, Lex
<1> QED BY <1>2, <1>3, LexIs, EndedIs

LEMMA OrderIs ==
    ASSUME NEW p \in Route, NEW q \in Route, NEW r \in Route
    PROVE  /\ Precedes(p, q) => ~Precedes(q, p)
           /\ Precedes(p, q) => Precedes(p, r) \/ Precedes(r, q)
           /\ p \in Clean /\ q \in Clean /\ p # q => Precedes(p, q) \/ Precedes(q, p)
<1>1. PICK f \in [Positions -> Int], g \in [Positions -> Int], h \in [Positions -> Int] :
        f = Ended(Codes(p)) /\ g = Ended(Codes(q)) /\ h = Ended(Codes(r))
  BY PrecedesIs
<1>2. /\ Precedes(p, q) <=> Below(f, g)
      /\ Precedes(q, p) <=> Below(g, f)
      /\ Precedes(p, r) <=> Below(f, h)
      /\ Precedes(r, q) <=> Below(h, g)
  BY <1>1, PrecedesIs
<1>3. ASSUME p \in Clean, q \in Clean, p # q PROVE f # g
  <2>1. Codes(p) # Codes(q)
    BY <1>3, CodesOnce
  <2>2. "" \in Names
    BY NamesAssumption
  <2>3. Codes(p) \in Seq(Nat) /\ Codes(q) \in Seq(Nat)
    BY <2>2, CodesNext
  <2> QED BY <1>1, <2>1, <2>3, EndedOnce
<1> QED BY <1>2, <1>3, BelowTotal, BelowOneWay, BelowBetween

-----------------------------------------------------------------------------
\* Sorting.
InOrder(l) == \A i, j \in 1 .. Len(l) : i < j => ~Precedes(l[j], l[i])
PutAt(l, name, n, i) == IF i <= n THEN l[i] ELSE IF i = n + 1 THEN name ELSE l[i - 1]

LEMMA PutPlace ==
    ASSUME NEW list \in Seq(Route), InOrder(list), NEW name \in Route
    PROVE  \E n \in 0 .. Len(list) : /\ \A i \in 1 .. Len(list) : i <= n <=> ~Precedes(name, list[i])
                                     /\ PutInOrder(list, name) = (SubSeq(list, 1, n) \o <<name>>) \o Rest(list, n)
<1>1. PICK L \in Nat : L = Len(list) /\ list \in [1 .. L -> Route]
  BY FunctionOf
<1> DEFINE A == {0} \cup {i \in 1 .. L : ~Precedes(name, list[i])}
           Fits(n) == \A i \in 1 .. L : i <= n <=> ~Precedes(name, list[i])
<1>2. A \in SUBSET (0 .. L) /\ A # {}
  OBVIOUS
<1>3. PICK n \in A : \A i \in A : i <= n
  <2> HIDE DEF A
  <2> QED BY <1>2, TopIs
<1>4. n \in 0 .. L
  BY <1>2
<1>5. ASSUME NEW i \in 1 .. L, i <= n PROVE ~Precedes(name, list[i])
  <2>1. n \in 1 .. L /\ ~Precedes(name, list[n])
    BY <1>5
  <2>2. CASE i = n
    BY <2>1, <2>2
  <2>3. CASE i # n
    <3>1. i < n
      BY <1>5, <2>1, <2>3
    <3>2. ~Precedes(list[n], list[i])
      BY <1>1, <2>1, <3>1 DEF InOrder
    <3>3. list[i] \in Route /\ list[n] \in Route
      BY <1>1, <2>1
    <3>4. Precedes(name, list[i]) => Precedes(name, list[n]) \/ Precedes(list[n], list[i])
      BY <3>3, OrderIs
    <3> QED BY <2>1, <3>2, <3>4
  <2> QED BY <2>2, <2>3
<1>6. ASSUME NEW i \in 1 .. L, ~Precedes(name, list[i]) PROVE i <= n
  BY <1>3, <1>6
<1>7. Fits(n)
  BY <1>5, <1>6
<1> HIDE DEF A, Fits
<1>8. PICK k \in 0 .. L : k = CHOOSE m \in 0 .. L : Fits(m)
  BY <1>4, <1>7
<1>9. Fits(k)
  BY <1>4, <1>7, <1>8
<1>10. k = CHOOSE m \in 0 .. Len(list) : \A i \in 1 .. Len(list) : i <= m <=> ~Precedes(name, list[i])
  BY <1>1, <1>8 DEF Fits
<1>11. PutInOrder(list, name) = (SubSeq(list, 1, k) \o <<name>>) \o Rest(list, k)
  BY <1>10 DEF PutInOrder, Rest
<1> QED BY <1>1, <1>9, <1>11 DEF Fits

LEMMA PutInOrderIs ==
    ASSUME NEW list \in Seq(Route), InOrder(list), NEW name \in Route
    PROVE  LET r == PutInOrder(list, name)
           IN  /\ r \in Seq(Route) /\ InOrder(r) /\ Len(r) = Len(list) + 1
               /\ Elements(r) = Elements(list) \cup {name}
               /\ Once(list) /\ name \notin Elements(list) => Once(r)
<1> DEFINE r == PutInOrder(list, name)
<1>1. PICK L \in Nat : L = Len(list) /\ list \in [1 .. L -> Route]
  BY FunctionOf
<1>2. PICK n \in 0 .. L : /\ \A i \in 1 .. L : i <= n <=> ~Precedes(name, list[i])
                          /\ r = (SubSeq(list, 1, n) \o <<name>>) \o Rest(list, n)
  BY <1>1, PutPlace
<1> HIDE DEF r
<1>3. PICK u \in Seq(Route) : u = SubSeq(list, 1, n) /\ Len(u) = n /\ \A i \in 1 .. n : u[i] = list[i]
  BY <1>1, UptoIs
<1>4. PICK w \in Seq(Route) : w = Rest(list, n) /\ Len(w) = L - n /\ \A i \in 1 .. L - n : w[i] = list[n + i]
  <2>1. /\ Rest(list, n) \in Seq(Route) /\ Len(Rest(list, n)) = Len(list) - n
        /\ \A i \in 1 .. Len(list) - n : Rest(list, n)[i] = list[n + i]
    <3>1. n \in 0 .. Len(list)
      BY <1>1
    <3> QED BY <3>1, RestIs
  <2>2. Len(list) = L
    BY <1>1
  <2> QED BY <2>1, <2>2
<1>5. /\ r \in Seq(Route) /\ Len(r) = n + 1 + (L - n) /\ r[n + 1] = name
      /\ \A i \in 1 .. n : r[i] = u[i]
      /\ \A i \in 1 .. L - n : r[n + 1 + i] = w[i]
  <2>1. r = (u \o <<name>>) \o w
    BY <1>2, <1>3, <1>4
  <2>2. /\ r \in Seq(Route) /\ Len(r) = Len(u) + 1 + Len(w) /\ r[Len(u) + 1] = name
        /\ \A i \in 1 .. Len(u) : r[i] = u[i]
        /\ \A i \in 1 .. Len(w) : r[Len(u) + 1 + i] = w[i]
    BY ONLY <2>1, name \in Route, BetweenIs
  <2>3. Len(u) = n /\ Len(w) = L - n
    BY <1>3, <1>4
  <2> QED BY <2>2, <2>3
<1>6. Len(r) = L + 1
  BY <1>5
<1>7. ASSUME NEW i \in 1 .. L + 1 PROVE r[i] = PutAt(list, name, n, i)
  <2>1. CASE i <= n
    <3>1. i \in 1 .. n
      BY <2>1
    <3> QED BY <1>3, <1>5, <2>1, <3>1 DEF PutAt
  <2>2. CASE i = n + 1
    <3>1. ~(i <= n)
      BY <2>2
    <3> QED BY <1>5, <2>2, <3>1 DEF PutAt
  <2>3. CASE ~(i <= n) /\ i # n + 1
    <3>1. PICK j \in 1 .. L - n : i = n + 1 + j
      <4>1. i - (n + 1) \in 1 .. L - n /\ i = n + 1 + (i - (n + 1))
        BY <2>3
      <4> QED BY <4>1
    <3>2. r[i] = list[n + j] /\ n + j = i - 1
      <4>1. r[n + 1 + j] = w[j] /\ w[j] = list[n + j]
        BY <1>4, <1>5
      <4>2. n + j = i - 1
        BY <3>1
      <4> QED BY <3>1, <4>1, <4>2
    <3> QED BY <2>3, <3>2 DEF PutAt
  <2> QED BY <2>1, <2>2, <2>3
<1>8. ASSUME NEW i \in 1 .. L + 1, NEW j \in 1 .. L + 1, i < j PROVE ~Precedes(r[j], r[i])
  <2>1. CASE j <= n
    <3>1. i \in 1 .. L /\ j \in 1 .. L /\ i <= n
      BY <1>8, <2>1
    <3>2. r[i] = list[i] /\ r[j] = list[j]
      BY <1>7, <2>1, <3>1 DEF PutAt
    <3> QED BY <1>1, <1>8, <3>1, <3>2 DEF InOrder
  <2>2. CASE j = n + 1
    <3>1. i \in 1 .. L /\ i <= n
      BY <1>8, <2>2
    <3>2. r[i] = list[i] /\ r[j] = name
      BY <1>5, <1>7, <2>2, <3>1 DEF PutAt
    <3> QED BY <1>2, <3>1, <3>2
  <2>3. CASE ~(j <= n) /\ j # n + 1
    <3>1. j - 1 \in 1 .. L /\ ~(j - 1 <= n)
      BY <2>3
    <3>2. r[j] = list[j - 1]
      BY <1>7, <2>3 DEF PutAt
    <3>3. Precedes(name, list[j - 1])
      BY <1>2, <3>1
    <3>4. list[j - 1] \in Route
      BY <1>1, <3>1
    <3>5. CASE i <= n
      <4>1. i \in 1 .. L /\ i < j - 1
        BY <2>3, <3>5
      <4>2. r[i] = list[i]
        BY <1>7, <3>5 DEF PutAt
      <4> QED BY <1>1, <3>1, <3>2, <4>1, <4>2 DEF InOrder
    <3>6. CASE i = n + 1
      BY <1>5, <3>2, <3>3, <3>4, <3>6, OrderIs
    <3>7. CASE ~(i <= n) /\ i # n + 1
      <4>1. i - 1 \in 1 .. L /\ i - 1 < j - 1
        BY <1>8, <3>7
      <4>2. r[i] = list[i - 1]
        BY <1>7, <3>7 DEF PutAt
      <4> QED BY <1>1, <3>1, <3>2, <4>1, <4>2 DEF InOrder
    <3> QED BY <3>5, <3>6, <3>7
  <2> QED BY <2>1, <2>2, <2>3
<1>9. InOrder(r)
  BY <1>6, <1>8 DEF InOrder
<1>10. ASSUME NEW e \in Elements(r) PROVE e \in Elements(list) \cup {name}
  <2>1. PICK i \in 1 .. L + 1 : e = r[i]
    BY <1>6 DEF Elements
  <2>2. CASE i = n + 1
    BY <1>5, <2>1, <2>2
  <2>3. CASE i <= n
    <3>1. i \in 1 .. L /\ e = list[i]
      BY <1>7, <2>1, <2>3 DEF PutAt
    <3> QED BY <1>1, <3>1 DEF Elements
  <2>4. CASE ~(i <= n) /\ i # n + 1
    <3>1. i - 1 \in 1 .. L /\ e = list[i - 1]
      BY <1>7, <2>1, <2>4 DEF PutAt
    <3> QED BY <1>1, <3>1 DEF Elements
  <2> QED BY <2>2, <2>3, <2>4
<1>11. name \in Elements(r)
  <2>1. n + 1 \in 1 .. L + 1
    OBVIOUS
  <2> QED BY <1>5, <1>6, <2>1 DEF Elements
<1>12. ASSUME NEW e \in Elements(list) PROVE e \in Elements(r)
  <2>1. PICK i \in 1 .. L : e = list[i]
    BY <1>1 DEF Elements
  <2>2. CASE i <= n
    <3>1. i \in 1 .. L + 1 /\ e = r[i]
      BY <1>7, <2>1, <2>2 DEF PutAt
    <3> QED BY <1>6, <3>1 DEF Elements
  <2>3. CASE ~(i <= n)
    <3>1. i + 1 \in 1 .. L + 1 /\ ~(i + 1 <= n) /\ i + 1 # n + 1 /\ (i + 1) - 1 = i
      BY <2>3
    <3>2. e = r[i + 1]
      BY <1>7, <2>1, <3>1 DEF PutAt
    <3> QED BY <1>6, <3>1, <3>2 DEF Elements
  <2> QED BY <2>2, <2>3
<1>13. ASSUME Once(list), name \notin Elements(list) PROVE Once(r)
  <2>1. \A i \in 1 .. L : list[i] # name
    BY <1>1, <1>13 DEF Elements
  <2> DEFINE Back(i) == IF i <= n THEN i ELSE i - 1
  <2>2. ASSUME NEW i \in 1 .. L + 1, i # n + 1 PROVE Back(i) \in 1 .. L /\ r[i] = list[Back(i)] /\ r[i] # name
    <3>1. Back(i) \in 1 .. L
      BY <2>2
    <3>2. r[i] = list[Back(i)]
      BY <1>7, <2>2 DEF PutAt
    <3> QED BY <2>1, <3>1, <3>2
  <2>3. ASSUME NEW i \in 1 .. L + 1, NEW j \in 1 .. L + 1, r[i] = r[j] PROVE i = j
    <3>1. CASE i = n + 1 \/ j = n + 1
      BY <1>5, <2>2, <2>3, <3>1
    <3>2. CASE i # n + 1 /\ j # n + 1
      <4>1. Back(i) = Back(j)
        <5> HIDE DEF Back
        <5>1. Back(i) \in 1 .. L /\ Back(j) \in 1 .. L /\ list[Back(i)] = list[Back(j)]
          BY <2>2, <2>3, <3>2
        <5> QED BY <1>1, <1>13, <5>1 DEF Once
      <4> QED BY <3>2, <4>1
    <3> QED BY <3>1, <3>2
  <2> QED BY <1>6, <2>3 DEF Once
<1>14. Elements(r) = Elements(list) \cup {name}
  BY <1>10, <1>11, <1>12
<1> QED BY <1>1, <1>5, <1>6, <1>9, <1>13, <1>14 DEF r

\* Sorting keeps what it sorts, and leaves nothing behind what comes after it.
LEMMA SortedIs ==
    ASSUME NEW list \in Seq(Route)
    PROVE  /\ Sorted(list) \in Seq(Route) /\ InOrder(Sorted(list)) /\ Len(Sorted(list)) = Len(list)
           /\ Elements(Sorted(list)) = Elements(list)
           /\ Once(list) => Once(Sorted(list))
<1> DEFINE X == {l \in Seq(Route) : InOrder(l)}
           N == Len(list)
           step == [q \in Nat \X X |-> IF q[1] \in 1 .. N THEN PutInOrder(q[2], list[q[1]]) ELSE <<>>]
           At(g) == g = [n \in 0 .. N |-> IF n = 0 THEN <<>> ELSE PutInOrder(g[n - 1], list[n])]
           at == CHOOSE g : At(g)
<1>1. N \in Nat /\ list \in [1 .. N -> Route]
  BY FunctionOf
<1>2. <<>> \in X /\ step \in Steps(X)
  <2>1. <<>> \in X
    BY DEF InOrder
  <2>2. ASSUME NEW q \in Nat \X X
        PROVE  (IF q[1] \in 1 .. N THEN PutInOrder(q[2], list[q[1]]) ELSE <<>>) \in X
    <3>1. q[1] \in 1 .. N => list[q[1]] \in Route
      BY <1>1
    <3>2. q[2] \in Seq(Route) /\ InOrder(q[2])
      OBVIOUS
    <3>3. ASSUME NEW l \in Seq(Route), InOrder(l), NEW name \in Route PROVE PutInOrder(l, name) \in X
      BY <3>3, PutInOrderIs
    <3> QED BY <2>1, <3>1, <3>2, <3>3
  <2> HIDE DEF X
  <2> QED BY <2>1, <2>2 DEF Steps
<1>3. PICK f : f \in Runs(X, <<>>, step, N)
  <2> HIDE DEF step, X, N
  <2> QED BY <1>1, <1>2, PrimitiveRecursion
<1>4. f \in [0 .. N -> X] /\ f[0] = <<>> /\ \A k \in 1 .. N : f[k] = PutInOrder(f[k - 1], list[k])
  <2> HIDE DEF X, N
  <2>1. f \in [0 .. N -> X] /\ f[0] = <<>> /\ \A k \in 1 .. N : f[k] = step[<<k, f[k - 1]>>]
    BY <1>3 DEF Runs
  <2>2. ASSUME NEW k \in 1 .. N PROVE step[<<k, f[k - 1]>>] = PutInOrder(f[k - 1], list[k])
    <3>1. <<k, f[k - 1]>> \in Nat \X X
      BY <1>1, <2>1
    <3> QED BY <3>1
  <2> QED BY <2>1, <2>2
<1> HIDE DEF N, step
<1>5. At(f)
  <2>1. \A n \in 0 .. N : f[n] = IF n = 0 THEN <<>> ELSE PutInOrder(f[n - 1], list[n])
    <3>1. \A n \in 0 .. N : n = 0 \/ n \in 1 .. N
      BY <1>1
    <3> QED BY <1>4, <3>1
  <2> QED BY <1>4, <2>1
<1>6. At(at)
  <2> HIDE DEF At
  <2> QED BY <1>5
<1>7. Sorted(list) = at[N]
  BY DEF Sorted, N
<1> HIDE DEF at, X
<1> DEFINE Some(k) == {list[i] : i \in 1 .. k}
           Ok(l, k) == /\ l \in Seq(Route) /\ InOrder(l) /\ Len(l) = k /\ Elements(l) = Some(k)
                       /\ Once(list) => Once(l)
           S == {k \in Nat : k <= N => Ok(at[k], k)}
<1>8. 0 \in S
  <2>1. 0 \in 0 .. N
    BY <1>1
  <2>2. at[0] = <<>>
    BY <1>6, <2>1
  <2>3. <<>> \in Seq(Route) /\ InOrder(<<>>) /\ Len(<<>>) = 0 /\ Elements(<<>>) = {} /\ Once(<<>>)
    BY DEF InOrder, Elements, Once
  <2>4. Some(0) = {}
    OBVIOUS
  <2> QED BY <2>2, <2>3, <2>4
<1>9. ASSUME NEW k \in Nat, k \in S PROVE k + 1 \in S
  <2> SUFFICES ASSUME k + 1 <= N PROVE Ok(at[k + 1], k + 1)
    OBVIOUS
  <2>1. Ok(at[k], k) /\ k + 1 \in 0 .. N /\ k + 1 # 0 /\ (k + 1) - 1 = k /\ k + 1 \in 1 .. N
    BY <1>1, <1>9
  <2>2. at[k + 1] = PutInOrder(at[k], list[k + 1])
    BY <1>6, <2>1
  <2>3. PICK l \in Seq(Route), name \in Route : l = at[k] /\ name = list[k + 1]
    BY <1>1, <2>1
  <2>4. PICK r : r = PutInOrder(l, name)
    OBVIOUS
  <2>5. InOrder(l) /\ Len(l) = k /\ Elements(l) = Some(k) /\ (Once(list) => Once(l))
    BY <2>1, <2>3
  <2>6. /\ r \in Seq(Route) /\ InOrder(r) /\ Len(r) = Len(l) + 1
        /\ Elements(r) = Elements(l) \cup {name}
        /\ Once(l) /\ name \notin Elements(l) => Once(r)
    BY <2>4, <2>5, PutInOrderIs
  <2>7. Some(k + 1) = Some(k) \cup {name}
    <3>1. 1 .. k + 1 = (1 .. k) \cup {k + 1}
      OBVIOUS
    <3> QED BY <2>3, <3>1
  <2>8. Once(list) => name \notin Some(k)
    <3> SUFFICES ASSUME Once(list), NEW i \in 1 .. k, name = list[i] PROVE FALSE
      OBVIOUS
    <3>1. i \in 1 .. Len(list) /\ k + 1 \in 1 .. Len(list) /\ i # k + 1
      BY <1>1, <2>1 DEF N
    <3> QED BY <2>3, <3>1 DEF Once
  <2> HIDE DEF Some
  <2>9. Ok(r, k + 1)
    BY <2>5, <2>6, <2>7, <2>8
  <2> QED BY <2>2, <2>3, <2>4, <2>9
<1>10. Nat \subseteq S
  <2> HIDE DEF S
  <2> QED BY <1>8, <1>9, SetInduction
<1>11. Ok(at[N], N)
  <2> HIDE DEF Ok
  <2> QED BY <1>1, <1>10
<1>12. Some(N) = Elements(list)
  BY DEF N, Elements
<1> QED BY <1>7, <1>11, <1>12 DEF N

-----------------------------------------------------------------------------
\* A listing, in order.
LEMMA ElementsCount ==
    ASSUME NEW s \in Seq(Route), Once(s)
    PROVE  Cardinality(Elements(s)) = Len(s) /\ Range(s) = Elements(s)
<1> DEFINE E == Elements(s)
<1>1. Len(s) \in Nat /\ s \in [1 .. Len(s) -> Route] /\ DOMAIN s = 1 .. Len(s)
  BY FunctionOf
<1>2. PICK f : f = [i \in 1 .. Len(s) |-> s[i]]
  OBVIOUS
<1>3. f \in [1 .. Len(s) -> E] /\ (\A i, j \in 1 .. Len(s) : f[i] = f[j] => i = j) /\ \A e \in E : \E i \in 1 .. Len(s) : f[i] = e
  BY <1>2 DEF Elements, Once
<1> HIDE DEF E
<1>4. ExistsBijection(1 .. Len(s), E)
  BY <1>3 DEF ExistsBijection, Bijection, Injection, Surjection, IsInjective
<1>5. IsFiniteSet(1 .. Len(s)) /\ Cardinality(1 .. Len(s)) = Len(s)
  <2>1. 1 \in Int /\ Len(s) \in Int /\ (1 > Len(s) => Len(s) = 0) /\ Len(s) - 1 + 1 = Len(s)
    BY <1>1
  <2>2. IsFiniteSet(1 .. Len(s))
    BY <2>1, FS_Interval
  <2>3. Cardinality(1 .. Len(s)) = IF 1 > Len(s) THEN 0 ELSE Len(s) - 1 + 1
    BY <2>1, FS_Interval
  <2> QED BY <2>1, <2>2, <2>3
<1>6. Cardinality(E) = Cardinality(1 .. Len(s))
  BY <1>4, <1>5, FS_Bijection
<1>7. Range(s) = Elements(s)
  BY <1>1 DEF Range, Elements
<1> QED BY <1>5, <1>6, <1>7 DEF E

LEMMA AscendingIs ==
    ASSUME NEW l \in Seq(Route), InOrder(l), Once(l), Elements(l) \subseteq Clean
    PROVE  Ascending(l)
<1> SUFFICES ASSUME NEW i \in 2 .. Len(l) PROVE Precedes(l[i - 1], l[i])
  BY DEF Ascending
<1>1. Len(l) \in Nat
  BY FunctionOf
<1>2. i - 1 \in 1 .. Len(l) /\ i \in 1 .. Len(l) /\ i - 1 < i /\ i - 1 # i
  BY <1>1
<1>3. ~Precedes(l[i], l[i - 1]) /\ l[i - 1] # l[i]
  BY <1>2 DEF InOrder, Once
<1>4. l[i - 1] \in Clean /\ l[i] \in Clean
  BY <1>2 DEF Elements
<1> QED BY <1>3, <1>4, CleanIs, OrderIs

LEMMA CleanFrom ==
    ASSUME NEW p \in Route, "" \notin Range(p)
    PROVE  p \in Clean /\ \A n \in 0 .. Len(p) : Rest(p, n) \in Clean
<1>1. PICK N \in Nat : N = Len(p) /\ p \in [1 .. N -> Names]
  BY FunctionOf DEF Route
<1>2. \A i \in 1 .. N : p[i] \in Names \ {""}
  BY <1>1 DEF Range
<1>3. p \in [1 .. N -> Names \ {""}]
  BY <1>1, <1>2
<1>4. p \in Clean
  BY <1>3, SequenceOf DEF Clean
<1>5. \A n \in 0 .. Len(p) : Rest(p, n) \in Clean
  BY <1>4, RestIs DEF Clean
<1> QED BY <1>4, <1>5

LEMMA CalledFull ==
    ASSUME NEW scope \in Route, NEW q \in Route, IsPrefix(scope, q)
    PROVE  /\ Called(scope, scope, q) = q /\ Called(scope, <<>>, q) = Rest(q, Len(scope))
           /\ Len(scope) \in 0 .. Len(q)
<1>1. PICK L \in Nat, N \in Nat : L = Len(scope) /\ N = Len(q)
  BY FunctionOf DEF Route
<1>2. L <= N /\ \A i \in 1 .. L : scope[i] = q[i]
  BY <1>1, PrefixIs DEF Route
<1>3. PICK r \in Seq(Names) : r = Rest(q, L) /\ Len(r) = N - L /\ \A i \in 1 .. N - L : r[i] = q[L + i]
  <2>1. L \in 0 .. Len(q) /\ Len(q) = N
    BY <1>1, <1>2
  <2>2. Rest(q, L) \in Seq(Names) /\ Len(Rest(q, L)) = Len(q) - L /\ \A i \in 1 .. Len(q) - L : Rest(q, L)[i] = q[L + i]
    BY <2>1, RestIs DEF Route
  <2> QED BY <2>1, <2>2
<1>4. <<>> \o r = r
  BY ConcatEmptySeq
<1> DEFINE s == scope \o r
<1>5. s \in Seq(Names) /\ Len(s) = L + (N - L) /\ \A i \in 1 .. L + (N - L) : s[i] = IF i <= L THEN scope[i] ELSE r[i - L]
  <2>1. s \in Seq(Names) /\ Len(s) = Len(scope) + Len(r) /\ \A i \in 1 .. Len(scope) + Len(r) : s[i] = IF i <= Len(scope) THEN scope[i] ELSE r[i - Len(scope)]
    BY ConcatProperties DEF Route
  <2> HIDE DEF s
  <2> QED BY <1>1, <1>3, <2>1
<1> HIDE DEF s
<1>6. L + (N - L) = N
  OBVIOUS
<1>7. ASSUME NEW i \in 1 .. N PROVE s[i] = q[i]
  <2>1. CASE i <= L
    <3>1. i \in 1 .. L
      BY <2>1
    <3> QED BY <1>2, <1>5, <1>6, <2>1, <3>1
  <2>2. CASE ~(i <= L)
    <3>1. i - L \in 1 .. N - L /\ L + (i - L) = i
      BY <2>2
    <3>2. r[i - L] = q[i]
      BY <1>3, <3>1
    <3> QED BY <1>5, <1>6, <2>2, <3>2
  <2> QED BY <2>1, <2>2
<1>8. s = q
  BY <1>1, <1>5, <1>6, <1>7, SeqEqual DEF Route
<1>9. L \in 0 .. N
  BY <1>2
<1> QED BY <1>1, <1>3, <1>4, <1>8, <1>9 DEF Called, s

\* What is in a scope, and what of it is wanted.
InsideOf(items, scope) == {p \in DOMAIN items : IsStrictPrefix(scope, p)}
WantedOf(items, scope, mask, recursive) ==
    {p \in InsideOf(items, scope) : items[p].type \in mask /\ (recursive \/ Len(p) = Len(scope) + 1)}
AreListed(scope, prefix, entries, l) ==
    l \in Seq(Route) /\ Once(l) /\ InOrder(l) /\ Elements(l) = {Called(scope, prefix, p) : p \in entries}

LEMMA InsideIs ==
    ASSUME CInv, NEW scope \in DOMAIN tables, NEW p \in InsideOf(Items, scope)
    PROVE  /\ scope \in Route /\ p \in Route /\ IsPrefix(scope, p) /\ Len(scope) \in 0 .. Len(p)
           /\ Called(scope, scope, p) = p /\ Called(scope, <<>>, p) = Rest(p, Len(scope))
<1>1. SoundTree(tables) /\ scope \in Route
  BY DEF CInv, SoundTree
<1>2. p \in DOMAIN ItemsOf(tables) /\ IsPrefix(scope, p)
  BY DEF InsideOf, IsStrictPrefix, Items
<1>3. PICK x \in DOMAIN tables, j \in Names : p = Append(x, j)
  BY <1>1, <1>2, ItemsRange
<1>4. p \in Route
  BY <1>1, <1>3, RouteIs DEF SoundTree
<1> QED BY <1>1, <1>2, <1>4, CalledFull

\* What a listing is, when the filter accepts the names of all entries.
LEMMA SortedListing ==
    ASSUME CInv, Deep(Items), NEW scope \in DOMAIN tables, NEW prefix \in {<<>>, scope}, NEW mask,
           NEW recursive \in BOOLEAN,
           NEW accepted, accepted = {Called(scope, prefix, p) : p \in InsideOf(Items, scope)}
    PROVE  AreListed(scope, prefix, WantedOf(Items, scope, mask, recursive),
                     Sorted(ScopedNames(scope, prefix, mask, recursive, accepted)))
<1>1. prefix \in Route
  BY DEF CInv, SoundTree, Route
<1>2. PICK c : c = Asked(scope, prefix, mask, recursive, accepted)
  OBVIOUS
<1>3. c.scope = scope /\ c.prefix = prefix /\ c.mask = mask /\ c.recursive = recursive /\ c.accepted = accepted
  BY <1>2 DEF Asked
<1>4. PICK u : u = ScopedNames(scope, prefix, mask, recursive, accepted)
  OBVIOUS
<1>5. Enumerates(c, Listed(Items, c, scope), u)
  BY <1>1, <1>2, <1>4, ScopedNamesAre
<1>6. PICK wanted : wanted = WantedOf(Items, scope, mask, recursive)
  OBVIOUS
<1>7. Listed(Items, c, scope) = wanted
  <2>1. \A p \in InsideOf(Items, scope) : Called(scope, prefix, p) \in accepted
    OBVIOUS
  <2>2. ASSUME NEW q \in Listed(Items, c, scope) PROVE q \in wanted
    BY <1>3, <1>6 DEF Listed, Wanted, WantedOf, InsideOf
  <2>3. ASSUME NEW q \in wanted PROVE q \in Listed(Items, c, scope)
    <3>1. q \in InsideOf(Items, scope) /\ Items[q].type \in mask /\ (recursive \/ Len(q) = Len(scope) + 1)
      BY <1>6 DEF WantedOf
    <3>2. q \in DOMAIN Items /\ IsStrictPrefix(scope, q)
      BY <3>1 DEF InsideOf
    <3>3. Wanted(Items, c, q)
      BY <1>3, <2>1, <3>1 DEF Wanted
    <3> QED BY <1>3, <3>1, <3>2, <3>3 DEF Listed
  <2> QED BY <2>2, <2>3
<1>8. u \in Seq(Route) /\ Once(u) /\ Elements(u) = {Called(scope, prefix, p) : p \in wanted}
  BY <1>3, <1>5, <1>7 DEF Enumerates, NamesOf
<1>9. /\ Sorted(u) \in Seq(Route) /\ Once(Sorted(u)) /\ InOrder(Sorted(u))
      /\ Elements(Sorted(u)) = {Called(scope, prefix, p) : p \in wanted}
  BY <1>8, SortedIs
<1> QED BY <1>4, <1>6, <1>9 DEF AreListed

\* A listing names each entry that is wanted once, in order.
Complete(scope, inside, wanted, full, locals) ==
    /\ Range(full) = wanted /\ Len(full) = Cardinality(wanted)
    /\ Range(locals) = {SubSeq(p, Len(scope) + 1, Len(p)) : p \in wanted} /\ Len(locals) = Len(full)
    /\ (\A p \in inside : "" \notin Range(p)) => Ascending(full) /\ Ascending(locals)

LEMMA ListingAt ==
    ASSUME CInv, Deep(Items), NEW scope \in DOMAIN tables, NEW mask, NEW recursive \in BOOLEAN,
           NEW inside, inside = InsideOf(Items, scope),
           NEW wanted, wanted = WantedOf(Items, scope, mask, recursive)
    PROVE  Complete(scope, inside, wanted, ListFullyScopedNames(scope, mask, recursive, inside),
                    ListLocallyScopedNames(scope, mask, recursive,
                                           {SubSeq(p, Len(scope) + 1, Len(p)) : p \in inside}))
<1>1. PICK L : L = Len(scope)
  OBVIOUS
<1>2. PICK rests : rests = {Rest(p, L) : p \in wanted}
  OBVIOUS
<1>3. PICK accepted : accepted = {SubSeq(p, Len(scope) + 1, Len(p)) : p \in inside}
  OBVIOUS
<1>4. PICK full, locals : /\ full = ListFullyScopedNames(scope, mask, recursive, inside)
                          /\ locals = ListLocallyScopedNames(scope, mask, recursive, accepted)
  OBVIOUS
<1>5. ASSUME NEW p \in inside
      PROVE  /\ scope \in Route /\ p \in Route /\ IsPrefix(scope, p) /\ L \in 0 .. Len(p)
             /\ Called(scope, scope, p) = p /\ Called(scope, <<>>, p) = Rest(p, L)
  BY <1>1, InsideIs
<1>6. wanted \subseteq inside
  BY DEF WantedOf
<1>7. inside = {Called(scope, scope, p) : p \in InsideOf(Items, scope)}
  BY <1>5
<1>8. accepted = {Called(scope, <<>>, p) : p \in InsideOf(Items, scope)}
  <2>1. accepted = {Rest(p, L) : p \in inside}
    BY <1>1, <1>3 DEF Rest
  <2> QED BY <1>5, <2>1
<1>9. full \in Seq(Route) /\ Once(full) /\ InOrder(full) /\ Elements(full) = wanted
  <2>1. AreListed(scope, scope, wanted, Sorted(ScopedNames(scope, scope, mask, recursive, inside)))
    BY <1>7, SortedListing
  <2>2. AreListed(scope, scope, wanted, full)
    BY <1>4, <2>1 DEF ListFullyScopedNames
  <2>3. {Called(scope, scope, p) : p \in wanted} = wanted
    BY <1>5, <1>6
  <2> QED BY <2>2, <2>3 DEF AreListed
<1>10. locals \in Seq(Route) /\ Once(locals) /\ InOrder(locals) /\ Elements(locals) = rests
  <2>1. AreListed(scope, <<>>, wanted, Sorted(ScopedNames(scope, <<>>, mask, recursive, accepted)))
    BY <1>8, SortedListing
  <2>2. AreListed(scope, <<>>, wanted, locals)
    BY <1>4, <2>1 DEF ListLocallyScopedNames
  <2>3. {Called(scope, <<>>, p) : p \in wanted} = rests
    BY <1>2, <1>5, <1>6
  <2> QED BY <2>2, <2>3 DEF AreListed
<1>11. Range(full) = wanted /\ Len(full) = Cardinality(wanted)
  BY <1>9, ElementsCount
<1>12. Range(locals) = rests /\ Len(locals) = Cardinality(rests)
  BY <1>10, ElementsCount
<1>13. Len(full) = Cardinality(rests)
  <2>1. PICK n \in Nat : n = Len(full) /\ full \in [1 .. n -> Route]
    BY <1>9, FunctionOf
  <2> DEFINE h == [i \in 1 .. n |-> Rest(full[i], L)]
  <2>2. ASSUME NEW i \in 1 .. n PROVE full[i] \in wanted /\ full[i] \in inside /\ Rest(full[i], L) \in Route
    <3>1. PICK p : p = full[i]
      OBVIOUS
    <3>2. p \in wanted
      BY <1>9, <2>1, <3>1 DEF Elements
    <3>3. p \in Route /\ L \in 0 .. Len(p)
      BY <1>5, <1>6, <3>2
    <3>4. Rest(p, L) \in Seq(Names)
      BY <3>3, RestIs DEF Route
    <3> QED BY <1>6, <3>1, <3>2, <3>4 DEF Route
  <2>3. h \in [1 .. n -> Route]
    BY <2>2
  <2>4. h \in Seq(Route) /\ Len(h) = n
    BY <2>3, SequenceOf
  <2>5. \A i \in 1 .. n : h[i] = Rest(full[i], L)
    OBVIOUS
  <2> HIDE DEF h
  <2>6. ASSUME NEW i \in 1 .. n, NEW j \in 1 .. n, h[i] = h[j] PROVE i = j
    <3>1. PICK p \in inside, q \in inside : p = full[i] /\ q = full[j]
      BY <2>2
    <3>2. Rest(p, L) = Rest(q, L)
      BY <2>5, <2>6, <3>1
    <3>3. /\ scope \in Route /\ p \in Route /\ q \in Route /\ IsPrefix(scope, p) /\ IsPrefix(scope, q)
          /\ Called(scope, <<>>, p) = Called(scope, <<>>, q)
      BY <1>5, <3>2
    <3>4. <<>> \in Route
      BY DEF Route
    <3>5. p = q
      BY <3>3, <3>4, CalledOnce
    <3>6. \A x, y \in 1 .. n : full[x] = full[y] => x = y
      BY <1>9, <2>1 DEF Once
    <3> QED BY <3>1, <3>5, <3>6
  <2>7. Once(h)
    BY <2>4, <2>6 DEF Once
  <2>8. wanted = {full[i] : i \in 1 .. n}
    BY <1>9, <2>1 DEF Elements
  <2>9. Elements(h) = {h[i] : i \in 1 .. n}
    BY <2>4 DEF Elements
  <2>10. Elements(h) = rests
    <3>1. ASSUME NEW r \in Elements(h) PROVE r \in rests
      BY <1>2, <2>2, <2>5, <2>9
    <3>2. ASSUME NEW r \in rests PROVE r \in Elements(h)
      <4>1. PICK p \in wanted : r = Rest(p, L)
        BY <1>2
      <4>2. PICK i \in 1 .. n : p = full[i]
        BY <2>8
      <4> QED BY <2>5, <2>9, <4>1, <4>2
    <3> QED BY <3>1, <3>2
  <2> QED BY <2>1, <2>4, <2>7, <2>10, ElementsCount
<1>14. ASSUME \A p \in inside : "" \notin Range(p) PROVE Ascending(full) /\ Ascending(locals)
  <2>1. ASSUME NEW p \in wanted PROVE p \in Clean /\ Rest(p, L) \in Clean
    BY <1>5, <1>6, <1>14, CleanFrom
  <2>2. Elements(full) \subseteq Clean /\ Elements(locals) \subseteq Clean
    BY <1>2, <1>9, <1>10, <2>1
  <2> QED BY <1>9, <1>10, <2>2, AscendingIs
<1>15. {SubSeq(p, Len(scope) + 1, Len(p)) : p \in wanted} = rests
  BY <1>1, <1>2 DEF Rest
<1>16. Complete(scope, inside, wanted, full, locals)
  BY <1>11, <1>12, <1>13, <1>14, <1>15 DEF Complete
<1> QED BY <1>3, <1>4, <1>16

LEMMA ListingsAre == CInv /\ Deep(Items) => ListingsComplete
<1> SUFFICES ASSUME CInv, Deep(Items) PROVE ListingsComplete
  OBVIOUS
<1>1. \A scope \in DOMAIN tables : \A mask : \A recursive \in BOOLEAN :
        Complete(scope, InsideOf(Items, scope), WantedOf(Items, scope, mask, recursive),
                 ListFullyScopedNames(scope, mask, recursive, InsideOf(Items, scope)),
                 ListLocallyScopedNames(scope, mask, recursive,
                                        {SubSeq(p, Len(scope) + 1, Len(p)) : p \in InsideOf(Items, scope)}))
  BY ListingAt
<1> USE DEF ListingsComplete, InsideOf, WantedOf
<1> WITNESS Items \in {Items}
<1> TAKE scope \in DOMAIN tables
<1> WITNESS InsideOf(Items, scope) \in {InsideOf(Items, scope)}
<1> TAKE mask \in {{"scope"}, VariableTypes, AllTypes}, recursive \in BOOLEAN
<1> DEFINE full == ListFullyScopedNames(scope, mask, recursive, InsideOf(Items, scope))
           locals == ListLocallyScopedNames(scope, mask, recursive,
                       {SubSeq(p, Len(scope) + 1, Len(p)) : p \in InsideOf(Items, scope)})
<1> WITNESS WantedOf(Items, scope, mask, recursive) \in {WantedOf(Items, scope, mask, recursive)},
            full \in {full}
<1> WITNESS locals \in {locals}
<1> HIDE DEF full, locals
<1>2. Complete(scope, InsideOf(Items, scope), WantedOf(Items, scope, mask, recursive), full, locals)
  BY <1>1 DEF full, locals
<1> QED BY <1>2 DEF Complete

\* Listings: each name that is wanted, once, in the order of strcmp, whatever the
\* tables look like inside.
THEOREM ListingsHold == Spec => []ListingsComplete
<1>1. CInv /\ Deep(Items) => ListingsComplete
  BY ListingsAre
<1> QED BY <1>1, DeepHolds, PTL
-----------------------------------------------------------------------------
\* What dump writes.
\* listLocalNames yields each name of the wanted types once.
LEMMA NamesOfTypesAre ==
    ASSUME NEW all \in Seq(Cell), Distinct(all), NEW mask, NEW list, list = NamesOfTypes(all, mask)
    PROVE  /\ list \in Seq(Names) /\ Once(list)
           /\ Elements(list) = {all[i].name : i \in {j \in 1 .. Len(all) : all[j].item.type \in mask}}
<1>1. PICK n \in Nat : n = Len(all) /\ all \in [1 .. n -> Cell]
  BY FunctionOf
<1> DEFINE One(i) == IF all[i].item.type \in mask THEN <<all[i].name>> ELSE <<>>
           seqs == [i \in 1 .. n |-> One(i)]
<1>2. list = FlattenSeq(seqs)
  BY <1>1 DEF NamesOfTypes
<1>3. ASSUME NEW i \in 1 .. n
      PROVE  /\ seqs[i] \in Seq(Names) /\ Once(seqs[i])
             /\ Elements(seqs[i]) = IF all[i].item.type \in mask THEN {all[i].name} ELSE {}
  <2>1. PICK m \in Names : m = all[i].name
    BY <1>1 DEF Cell
  <2>2. <<m>> \in Seq(Names) /\ Once(<<m>>) /\ Elements(<<m>>) = {m}
    BY DEF Once, Elements
  <2>3. <<>> \in Seq(Names) /\ Once(<<>>) /\ Elements(<<>>) = {}
    BY DEF Once, Elements
  <2> QED BY <2>1, <2>2, <2>3
<1> HIDE DEF seqs
<1>4. seqs \in [1 .. n -> Seq(Names)]
  BY <1>3 DEF seqs
<1>5. \A i \in 1 .. n : Once(seqs[i])
  BY <1>3
<1>6. \A i, j \in 1 .. n : i # j => Elements(seqs[i]) \cap Elements(seqs[j]) = {}
  <2> SUFFICES ASSUME NEW i \in 1 .. n, NEW j \in 1 .. n, i # j PROVE Elements(seqs[i]) \cap Elements(seqs[j]) = {}
    OBVIOUS
  <2>1. all[i].name # all[j].name
    BY <1>1 DEF Distinct
  <2> QED BY <1>3, <2>1
<1>7. /\ FlattenSeq(seqs) \in Seq(Names) /\ Once(FlattenSeq(seqs))
      /\ Elements(FlattenSeq(seqs)) = UNION {Elements(seqs[i]) : i \in 1 .. n}
  BY <1>4, <1>5, <1>6, FlattenParts
<1>8. UNION {Elements(seqs[i]) : i \in 1 .. n} = {all[i].name : i \in {j \in 1 .. n : all[j].item.type \in mask}}
  BY <1>3
<1> QED BY <1>1, <1>2, <1>7, <1>8

NamesAt(T, p, mask) == {m \in Names : FindItem(T[p], m) # NoItem /\ FindItem(T[p], m).type \in mask}
LEMMA LocalNamesAre ==
    ASSUME NEW T, SoundTree(T), NEW p \in DOMAIN T, NEW mask, NEW list, list = ListLocalNames(T[p], mask)
    PROVE  list \in Seq(Names) /\ Once(list) /\ Elements(list) = NamesAt(T, p, mask)
<1>1. PICK all \in Seq(Cell) :
        /\ all = AllEntries(T[p]) /\ Distinct(all)
        /\ \A i \in 1 .. Len(all) :
             /\ all[i].name \in Names /\ all[i].item = FindItem(T[p], all[i].name)
             /\ FindItem(T[p], all[i].name) # NoItem
        /\ {all[i].name : i \in 1 .. Len(all)} = {m \in Names : FindItem(T[p], m) # NoItem}
  BY AllIs
<1>2. list = NamesOfTypes(all, mask)
  BY <1>1 DEF ListLocalNames
<1>3. /\ list \in Seq(Names) /\ Once(list)
      /\ Elements(list) = {all[i].name : i \in {j \in 1 .. Len(all) : all[j].item.type \in mask}}
  BY <1>1, <1>2, NamesOfTypesAre
<1>4. {all[i].name : i \in {j \in 1 .. Len(all) : all[j].item.type \in mask}} = NamesAt(T, p, mask)
  BY <1>1 DEF NamesAt
<1> QED BY <1>3, <1>4

\* The names in the order in which dump takes them, as it sorts them.
SortedNames(t, mask) ==
    LET names == ListLocalNames(t, mask) IN Sorted([i \in DOMAIN names |-> <<names[i]>>])
LEMMA SortedNamesAre ==
    ASSUME NEW T, SoundTree(T), NEW p \in DOMAIN T, NEW mask, NEW list, list = SortedNames(T[p], mask)
    PROVE  /\ list \in Seq(Route) /\ Once(list) /\ DOMAIN list = 1 .. Len(list) /\ Len(list) \in Nat
           /\ Elements(list) = {<<m>> : m \in NamesAt(T, p, mask)}
<1>1. PICK names : names = ListLocalNames(T[p], mask)
  OBVIOUS
<1>2. names \in Seq(Names) /\ Once(names) /\ Elements(names) = NamesAt(T, p, mask)
  BY <1>1, LocalNamesAre
<1>3. PICK n \in Nat : n = Len(names) /\ names \in [1 .. n -> Names]
  BY <1>2, FunctionOf
<1>4. PICK single : single = [i \in 1 .. n |-> <<names[i]>>]
  OBVIOUS
<1>5. list = Sorted(single)
  BY <1>1, <1>3, <1>4 DEF SortedNames
<1>6. single \in Seq(Route) /\ Len(single) = n
  <2>1. \A m \in Names : <<m>> \in Seq(Names)
    OBVIOUS
  <2>2. single \in [1 .. n -> Route]
    BY <1>3, <1>4, <2>1 DEF Route
  <2> QED BY <2>2, SequenceOf
<1>7. Once(single)
  <2> SUFFICES ASSUME NEW i \in 1 .. n, NEW j \in 1 .. n, single[i] = single[j] PROVE i = j
    BY <1>6 DEF Once
  <2>1. <<names[i]>> = <<names[j]>>
    BY <1>4
  <2>2. names[i] = names[j]
    BY <2>1
  <2> QED BY <1>2, <1>3, <2>2 DEF Once
<1>8. Elements(single) = {<<m>> : m \in NamesAt(T, p, mask)}
  <2>1. Elements(single) = {<<m>> : m \in Elements(names)}
    BY <1>3, <1>4, <1>6 DEF Elements
  <2> QED BY <1>2, <2>1
<1>9. list \in Seq(Route) /\ Once(list) /\ Elements(list) = Elements(single)
  BY <1>5, <1>6, <1>7, SortedIs
<1> QED BY <1>8, <1>9, LenProperties

\* dump at one scope, when `g' is what it yields for the scopes in it.
Stating(T, p, n) == [path |-> p \o n, item |-> FindItem(T[p], Last(n))]
Stated(T, p) ==
    LET strings == SortedNames(T[p], VariableTypes) IN [i \in DOMAIN strings |-> Stating(T, p, strings[i])]
Nested(T, g, p) ==
    LET scopes == SortedNames(T[p], {"scope"})
    IN  FlattenSeq([i \in DOMAIN scopes |-> <<Stating(T, p, scopes[i])>> \o g[p \o scopes[i]]])
Dumping(T, g) == g = [p \in DOMAIN T |-> Stated(T, p) \o Nested(T, g, p)]

LEMMA DumpUses ==
    ASSUME NEW scope
    PROVE  Dump(scope) = (CHOOSE g : Dumping(tables, g))[scope]
<1> DEFINE Step(g, path) ==
             LET sorted(r, mask) ==
                   LET names == ListLocalNames(tables[r], mask)
                   IN  Sorted([i \in DOMAIN names |-> <<names[i]>>])
                 statement(r, n) == [path |-> r \o n, item |-> FindItem(tables[r], Last(n))]
                 strings == sorted(path, VariableTypes)
                 scopes == sorted(path, {"scope"})
             IN  [i \in DOMAIN strings |-> statement(path, strings[i])]
                 \o FlattenSeq([i \in DOMAIN scopes |->
                      <<statement(path, scopes[i])>> \o g[path \o scopes[i]]])
<1>1. ASSUME NEW g, NEW path PROVE Step(g, path) = Stated(tables, path) \o Nested(tables, g, path)
  BY DEF Stated, Nested, Stating, SortedNames
<1>2. Dump(scope) = (CHOOSE g : g = [path \in DOMAIN tables |-> Step(g, path)])[scope]
  BY DEF Dump
<1> HIDE DEF Step
<1>3. \A g : g = [path \in DOMAIN tables |-> Step(g, path)] <=> Dumping(tables, g)
  BY <1>1 DEF Dumping
<1>4. (CHOOSE g : g = [path \in DOMAIN tables |-> Step(g, path)]) = (CHOOSE g : Dumping(tables, g))
  BY <1>3
<1> QED BY <1>2, <1>4

\* The scopes in a scope, as dump finds them.
LEMMA InnerScopes ==
    ASSUME NEW T, SoundTree(T), NEW p \in DOMAIN T, NEW n, n \in Elements(SortedNames(T[p], {"scope"}))
    PROVE  \E m \in Names : /\ n = <<m>> /\ FindItem(T[p], m) = Scope
                            /\ p \o n = Append(p, m) /\ Append(p, m) \in DOMAIN T
<1>1. PICK list : list = SortedNames(T[p], {"scope"})
  OBVIOUS
<1>2. Elements(list) = {<<m>> : m \in NamesAt(T, p, {"scope"})}
  BY <1>1, SortedNamesAre
<1>3. PICK m \in NamesAt(T, p, {"scope"}) : n = <<m>>
  BY <1>1, <1>2
<1>4. m \in Names /\ FindItem(T[p], m) # NoItem /\ FindItem(T[p], m).type = "scope"
  BY DEF NamesAt
<1>5. FindItem(T[p], m) = Scope
  <2>1. FindItem(T[p], m) \in Kinds
    BY <1>4, FindType DEF SoundTree
  <2>2. FindItem(T[p], m).type \notin VariableTypes
    BY <1>4 DEF VariableTypes
  <2> QED BY <2>1, <2>2, KindsAre
<1>6. p \in Route
  BY DEF SoundTree
<1>7. p \o <<m>> = Append(p, m)
  BY <1>4, <1>6 DEF Route
<1>8. Append(p, m) \in DOMAIN T
  <2>1. \A x \in Route, j \in Names :
          Append(x, j) \in DOMAIN T <=> x \in DOMAIN T /\ FindItem(T[x], j) = Scope
    BY DEF SoundTree
  <2> QED BY <1>4, <1>5, <1>6, <2>1
<1> QED BY <1>3, <1>4, <1>5, <1>7, <1>8

\* The recursion of dump ends: what it yields exists.
LEMMA DumpMakes ==
    ASSUME NEW T, SoundTree(T), NEW N \in Nat, \A p \in DOMAIN T : Len(p) \in 0 .. N
    PROVE  \E g : Dumping(T, g)
<1> DEFINE D == DOMAIN T
           Lined(g, p) == Stated(T, p) \o Nested(T, g, p)
           Good(g, n) == DOMAIN g = D /\ \A p \in D : Len(p) + n > N => g[p] = Lined(g, p)
           S == {n \in Nat : \E g : Good(g, n)}
<1>1. ASSUME NEW g, NEW h, NEW p \in D,
             \A m \in Names : Append(p, m) \in D => g[Append(p, m)] = h[Append(p, m)]
      PROVE  Lined(g, p) = Lined(h, p)
  <2>1. PICK scopes : scopes = SortedNames(T[p], {"scope"})
    OBVIOUS
  <2>2. DOMAIN scopes = 1 .. Len(scopes)
    BY <2>1, SortedNamesAre
  <2>3. ASSUME NEW i \in DOMAIN scopes PROVE g[p \o scopes[i]] = h[p \o scopes[i]]
    <3>1. scopes[i] \in Elements(scopes)
      BY <2>2 DEF Elements
    <3>2. \E m \in Names : p \o scopes[i] = Append(p, m) /\ Append(p, m) \in D
      BY <2>1, <3>1, InnerScopes
    <3> QED BY <1>1, <3>2
  <2>4. [i \in DOMAIN scopes |-> <<Stating(T, p, scopes[i])>> \o g[p \o scopes[i]]]
          = [i \in DOMAIN scopes |-> <<Stating(T, p, scopes[i])>> \o h[p \o scopes[i]]]
    BY <2>3
  <2> QED BY <2>1, <2>4 DEF Nested
<1> HIDE DEF Lined
<1>2. 0 \in S
  <2>1. Good([p \in D |-> 0], 0)
    <3>1. \A p \in D : ~(Len(p) + 0 > N)
      <4> SUFFICES ASSUME NEW p \in D PROVE ~(Len(p) + 0 > N)
        OBVIOUS
      <4>1. Len(p) \in 0 .. N
        OBVIOUS
      <4> QED BY <4>1
    <3> QED BY <3>1
  <2> HIDE DEF Good
  <2> QED BY <2>1
<1>3. ASSUME NEW n \in Nat, n \in S PROVE n + 1 \in S
  <2>1. PICK g : Good(g, n)
    BY <1>3
  <2> DEFINE h == [p \in D |-> Lined(g, p)]
  <2>2. DOMAIN h = D /\ \A p \in D : h[p] = Lined(g, p)
    OBVIOUS
  <2> HIDE DEF h
  <2>3. ASSUME NEW p \in D, Len(p) + (n + 1) > N PROVE h[p] = Lined(h, p)
    <3>1. ASSUME NEW m \in Names, Append(p, m) \in D PROVE g[Append(p, m)] = h[Append(p, m)]
      <4>1. p \in Seq(Names)
        BY DEF SoundTree, Route
      <4>2. Len(Append(p, m)) = Len(p) + 1 /\ Len(p) \in Nat
        BY <4>1, AppendProperties, FunctionOf
      <4>3. Len(Append(p, m)) + n > N
        BY <2>3, <4>2
      <4>4. g[Append(p, m)] = Lined(g, Append(p, m))
        BY <2>1, <3>1, <4>3
      <4> QED BY <2>2, <3>1, <4>4
    <3>2. Lined(g, p) = Lined(h, p)
      BY <1>1, <3>1
    <3> QED BY <2>2, <3>2
  <2>4. Good(h, n + 1)
    BY <2>2, <2>3
  <2> HIDE DEF Good
  <2> QED BY <2>4
<1>4. Nat \subseteq S
  <2> HIDE DEF S
  <2> QED BY <1>2, <1>3, SetInduction
<1>5. N + 1 \in S
  <2> HIDE DEF S
  <2> QED BY <1>4
<1>6. PICK g : Good(g, N + 1)
  BY <1>5
<1>7. ASSUME NEW p \in D PROVE g[p] = Lined(g, p)
  <2>1. Len(p) \in 0 .. N
    OBVIOUS
  <2>2. Len(p) + (N + 1) > N
    BY <2>1
  <2> QED BY <1>6, <2>2
<1>8. PICK h : h = [p \in D |-> g[p]]
  OBVIOUS
<1>9. ASSUME NEW p \in D PROVE h[p] = Lined(h, p)
  <2>1. Lined(g, p) = Lined(h, p)
    BY <1>1, <1>8
  <2> QED BY <1>7, <1>8, <2>1
<1>10. h = [p \in D |-> Lined(h, p)]
  BY <1>8, <1>9
<1> QED BY <1>10 DEF Dumping, Lined

\* Each statement comes after the one that opens its scope; `p' is open.
Statements == [path : Route, item : Kinds]
Follows(p, l) ==
    \A i \in 1 .. Len(l) : Front(l[i].path) = p \/ \E j \in 1 .. i - 1 : l[j].path = Front(l[i].path)

LEMMA FollowsConcat ==
    ASSUME NEW Z, NEW s \in Seq(Z), NEW t \in Seq(Z), NEW p, NEW r, Follows(p, s), Follows(r, t),
           r = p \/ \E j \in 1 .. Len(s) : s[j].path = r
    PROVE  Follows(p, s \o t)
<1>0. PICK u : u = s \o t
  OBVIOUS
<1>1. PICK n \in Nat, k \in Nat : n = Len(s) /\ k = Len(t)
  BY FunctionOf
<1>2. /\ Len(u) = n + k
      /\ \A i \in 1 .. n + k : u[i] = IF i <= n THEN s[i] ELSE t[i - n]
  BY <1>0, <1>1, ConcatProperties
<1> SUFFICES ASSUME NEW i \in 1 .. n + k
             PROVE  Front(u[i].path) = p \/ \E j \in 1 .. i - 1 : u[j].path = Front(u[i].path)
  BY <1>0, <1>1, <1>2 DEF Follows
<1>3. \A j \in 1 .. n : u[j] = s[j]
  BY <1>2
<1>4. CASE i <= n
  <2>1. i \in 1 .. n /\ u[i] = s[i]
    BY <1>3, <1>4
  <2>2. CASE Front(s[i].path) = p
    BY <2>1, <2>2
  <2>3. CASE \E j \in 1 .. i - 1 : s[j].path = Front(s[i].path)
    <3>1. PICK j \in 1 .. i - 1 : s[j].path = Front(s[i].path)
      BY <2>3
    <3>2. j \in 1 .. n
      BY <2>1
    <3> QED BY <1>3, <2>1, <3>1, <3>2
  <2> QED BY <1>1, <2>1, <2>2, <2>3 DEF Follows
<1>5. CASE ~(i <= n)
  <2>1. i - n \in 1 .. k /\ u[i] = t[i - n]
    BY <1>2, <1>5
  <2>2. Front(t[i - n].path) = r \/ \E j \in 1 .. (i - n) - 1 : t[j].path = Front(t[i - n].path)
    BY <1>1, <2>1 DEF Follows
  <2>3. CASE Front(t[i - n].path) = r
    <3>1. CASE r = p
      BY <2>1, <2>3, <3>1
    <3>2. CASE \E j \in 1 .. n : s[j].path = r
      <4>1. PICK j \in 1 .. n : s[j].path = r
        BY <3>2
      <4>2. j \in 1 .. i - 1
        BY <1>5
      <4> QED BY <1>3, <2>1, <2>3, <4>1, <4>2
    <3> QED BY <1>1, <3>1, <3>2
  <2>4. CASE \E j \in 1 .. (i - n) - 1 : t[j].path = Front(t[i - n].path)
    <3>1. PICK j \in 1 .. (i - n) - 1 : t[j].path = Front(t[i - n].path)
      BY <2>4
    <3>2. j + n \in 1 .. n + k /\ ~(j + n <= n) /\ (j + n) - n = j /\ j + n \in 1 .. i - 1
      OBVIOUS
    <3>3. u[j + n] = t[j]
      BY <1>2, <3>2
    <3> QED BY <2>1, <3>1, <3>2, <3>3
  <2> QED BY <2>2, <2>3, <2>4
<1> QED BY <1>4, <1>5

LEMMA FollowsFlatten ==
    ASSUME NEW Z, NEW n \in Nat, NEW seqs \in [1 .. n -> Seq(Z)], NEW p, \A i \in 1 .. n : Follows(p, seqs[i])
    PROVE  Follows(p, FlattenSeq(seqs))
<1>1. PICK r \in Flats(Z, n, seqs) : FlattenSeq(seqs) = r[n]
  BY FlattenIs
<1>2. r \in [0 .. n -> Seq(Z)] /\ r[0] = <<>> /\ \A k \in 1 .. n : r[k] = r[k - 1] \o seqs[k]
  BY <1>1 DEF Flats
<1> DEFINE S == {k \in Nat : k <= n => Follows(p, r[k])}
<1>3. 0 \in S
  <2>1. Follows(p, <<>>)
    BY DEF Follows
  <2> QED BY <1>2, <2>1
<1>4. ASSUME NEW k \in Nat, k \in S PROVE k + 1 \in S
  <2> SUFFICES ASSUME k + 1 <= n PROVE Follows(p, r[k + 1])
    OBVIOUS
  <2>1. k + 1 \in 1 .. n /\ (k + 1) - 1 = k /\ Follows(p, r[k])
    BY <1>4
  <2>2. PICK x \in Seq(Z), y \in Seq(Z) : x = seqs[k + 1] /\ y = r[k]
    BY <1>2, <2>1
  <2>3. r[k + 1] = y \o x /\ Follows(p, y) /\ Follows(p, x)
    BY <1>2, <2>1, <2>2
  <2> QED BY <2>3, FollowsConcat
<1>5. Nat \subseteq S
  <2> HIDE DEF S
  <2> QED BY <1>3, <1>4, SetInduction
<1> QED BY <1>1, <1>5

\* What there is below `p', and the statement of an entry.
Deeper(items, p) == {q \in DOMAIN items : IsStrictPrefix(p, q)}
StatementOf(items, q) == [path |-> q, item |-> items[q]]
StatementsOf(items, A) == {StatementOf(items, q) : q \in A}
Transcript(items, p, A, l) ==
    l \in Seq(Statements) /\ Once(l) /\ Elements(l) = StatementsOf(items, A) /\ Follows(p, l)
Everything == Asked(<<>>, <<>>, AllTypes, TRUE, Route)
Twig(items, p, m) == {r \in Deeper(items, p) : IsPrefix(Append(p, m), r)}

LEMMA EverythingIs ==
    ASSUME NEW T, SoundTree(T), NEW items, items = ItemsOf(T), NEW p
    PROVE  /\ Listed(items, Everything, p) = Deeper(items, p)
           /\ \A q \in DOMAIN items : Wanted(items, Everything, q) /\ q \in Route /\ q # <<>> /\ items[q] \in Kinds
<1>1. /\ Everything.scope = <<>> /\ Everything.prefix = <<>> /\ Everything.mask = AllTypes
      /\ Everything.recursive = TRUE /\ Everything.accepted = Route
  BY DEF Everything, Asked
<1>2. ASSUME NEW q \in DOMAIN items
      PROVE  Wanted(items, Everything, q) /\ q \in Route /\ q # <<>> /\ items[q] \in Kinds
  <2>1. PICK x \in DOMAIN T, m \in Names : q = Append(x, m) /\ FindItem(T[x], m) # NoItem
    BY ItemsRange
  <2>2. items[q] = FindItem(T[x], m)
    BY <2>1, ItemsAt
  <2>3. x \in Route /\ Well(T[x])
    BY DEF SoundTree
  <2>4. items[q] \in Kinds
    BY <2>1, <2>2, <2>3, FindType
  <2>5. q \in Route /\ q # <<>>
    BY <2>1, <2>3, RouteIs
  <2>6. items[q].type \in AllTypes
    <3>1. items[q] # Scope => items[q].type \in VariableTypes
      BY <2>4, KindsAre
    <3>2. Scope.type = "scope"
      BY DEF Scope
    <3> QED BY <3>1, <3>2 DEF AllTypes
  <2>7. Called(<<>>, <<>>, q) \in Route
    <3>1. IsPrefix(<<>>, q) /\ <<>> \in Route
      <4>1. <<>> \in Seq(Names) /\ Len(<<>>) = 0
        OBVIOUS
      <4>2. q \in Seq(Names) /\ Len(q) \in Nat
        BY <2>5, FunctionOf DEF Route
      <4>3. IsPrefix(<<>>, q)
        <5>1. PICK e \in Seq(Names) : e = <<>> /\ Len(e) = 0
          BY <4>1
        <5>2. Len(e) <= Len(q) /\ \A i \in 1 .. Len(e) : e[i] = q[i]
          BY <4>2, <5>1
        <5>3. IsPrefix(e, q)
          BY <4>2, <5>2, PrefixIs
        <5> QED BY <5>1, <5>3
      <4> QED BY <4>1, <4>3 DEF Route
    <3> QED BY <2>5, <3>1, CalledIs
  <2> QED BY <1>1, <2>4, <2>5, <2>6, <2>7 DEF Wanted
<1>3. Listed(items, Everything, p) = Deeper(items, p)
  BY <1>1, <1>2 DEF Listed, Deeper
<1> QED BY <1>2, <1>3

HasTwig(items, p, m, q, item) ==
    /\ q \in DOMAIN items /\ items[q] = item /\ q \notin Deeper(items, q)
    /\ Twig(items, p, m) = {q} \cup (IF item = Scope THEN Deeper(items, q) ELSE {})

\* The entry at `m', and what is in it if it is a scope.
LEMMA TwigIs ==
    ASSUME NEW T, SoundTree(T), NEW items, items = ItemsOf(T), NEW p \in DOMAIN T, NEW m \in Names,
           FindItem(T[p], m) # NoItem, NEW q, q = Append(p, m)
    PROVE  HasTwig(items, p, m, q, FindItem(T[p], m))
<1>1. Branching(items, Everything, p, m, q, FindItem(T[p], m))
  BY BranchIs
<1>2. /\ q \in DOMAIN items /\ items[q] = FindItem(T[p], m) /\ q \notin Listed(items, Everything, q)
      /\ Branch(items, Everything, p, m) = Itself(items, Everything, q) \cup Inside(items, Everything, q)
  BY <1>1 DEF Branching
<1>3. /\ \A r : Listed(items, Everything, r) = Deeper(items, r)
      /\ Wanted(items, Everything, q)
  BY <1>2, EverythingIs
<1>4. Everything.recursive = TRUE
  BY DEF Everything, Asked
<1>5. Twig(items, p, m) = Branch(items, Everything, p, m)
  BY <1>3 DEF Twig, Branch
<1> QED BY <1>2, <1>3, <1>4, <1>5 DEF Itself, Inside, HasTwig

LEMMA TwigsAre ==
    ASSUME NEW T, SoundTree(T), NEW items, items = ItemsOf(T), NEW p \in DOMAIN T
    PROVE  /\ Deeper(items, p) = UNION {Twig(items, p, m) : m \in {n \in Names : FindItem(T[p], n) # NoItem}}
           /\ \A m, k \in Names : m # k => Twig(items, p, m) \cap Twig(items, p, k) = {}
<1>1. Listed(items, Everything, p) = Deeper(items, p)
  BY EverythingIs
<1>2. \A m : Twig(items, p, m) = Branch(items, Everything, p, m)
  BY <1>1 DEF Twig, Branch
<1>3. Listed(items, Everything, p) =
        UNION {Branch(items, Everything, p, m) : m \in {n \in Names : FindItem(T[p], n) # NoItem}}
  BY ListedIs
<1>4. \A m, k \in Names : m # k => Branch(items, Everything, p, m) \cap Branch(items, Everything, p, k) = {}
  BY BranchesApart
<1> QED BY <1>1, <1>2, <1>3, <1>4

LEMMA StatingIs ==
    ASSUME NEW T, SoundTree(T), NEW items, items = ItemsOf(T), NEW p \in DOMAIN T, NEW m \in Names,
           FindItem(T[p], m) # NoItem
    PROVE  /\ Stating(T, p, <<m>>) = StatementOf(items, Append(p, m))
           /\ Stating(T, p, <<m>>) \in Statements /\ Stating(T, p, <<m>>).path = Append(p, m)
           /\ Front(Append(p, m)) = p /\ p \o <<m>> = Append(p, m)
<1>1. p \in Route /\ Append(p, m) \in Route /\ Append(p, m) # <<>>
  BY RouteIs DEF SoundTree
<1>2. p \o <<m>> = Append(p, m)
  BY <1>1 DEF Route
<1>3. Last(<<m>>) = m
  BY DEF Last
<1>4. items[Append(p, m)] = FindItem(T[p], m)
  BY ItemsAt
<1>5. FindItem(T[p], m) \in Kinds
  BY FindType DEF SoundTree
<1>6. Front(Append(p, m)) = p
  <2>1. PICK q \in Route : q = Append(p, m)
    BY <1>1
  <2>2. Front(q) \in Route /\ Last(q) \in Names /\ q = Append(Front(q), Last(q))
    BY <1>1, <2>1, SplitLast DEF Route
  <2> QED BY <1>1, <2>1, <2>2, RouteEnd
<1>7. Stating(T, p, <<m>>) = [path |-> Append(p, m), item |-> FindItem(T[p], m)]
  BY <1>2, <1>3 DEF Stating
<1>8. Stating(T, p, <<m>>) = StatementOf(items, Append(p, m))
  BY <1>4, <1>7 DEF StatementOf
<1>9. Stating(T, p, <<m>>) \in Statements /\ Stating(T, p, <<m>>).path = Append(p, m)
  <2>1. PICK q \in Route, k \in Kinds : q = Append(p, m) /\ k = FindItem(T[p], m)
    BY <1>1, <1>5
  <2>2. [path |-> q, item |-> k] \in Statements
    BY DEF Statements
  <2> QED BY <1>7, <2>1, <2>2
<1> QED BY <1>2, <1>6, <1>8, <1>9

LEMMA StatementsApart ==
    ASSUME NEW items, NEW A, NEW B, A \cap B = {}
    PROVE  StatementsOf(items, A) \cap StatementsOf(items, B) = {}
<1>1. \A q : StatementOf(items, q).path = q
  BY DEF StatementOf
<1> QED BY <1>1 DEF StatementsOf

\* The variables in a scope.
LEMMA StatedAre ==
    ASSUME NEW T, SoundTree(T), NEW items, items = ItemsOf(T), NEW p \in DOMAIN T
    PROVE  Transcript(items, p, {Append(p, m) : m \in NamesAt(T, p, VariableTypes)}, Stated(T, p))
<1> DEFINE here == NamesAt(T, p, VariableTypes)
<1>1. PICK list : list = SortedNames(T[p], VariableTypes)
  OBVIOUS
<1>2. /\ list \in Seq(Route) /\ Once(list) /\ DOMAIN list = 1 .. Len(list) /\ Len(list) \in Nat
      /\ Elements(list) = {<<m>> : m \in here}
  BY <1>1, SortedNamesAre
<1>3. PICK n \in Nat : n = Len(list)
  BY <1>2
<1>4. PICK l : l = [i \in 1 .. n |-> Stating(T, p, list[i])]
  OBVIOUS
<1>5. Stated(T, p) = l
  BY <1>1, <1>2, <1>3, <1>4 DEF Stated
<1>6. ASSUME NEW m \in here
      PROVE  /\ m \in Names /\ Stating(T, p, <<m>>) = StatementOf(items, Append(p, m))
             /\ Stating(T, p, <<m>>) \in Statements /\ Stating(T, p, <<m>>).path = Append(p, m)
             /\ Front(Append(p, m)) = p
  <2>1. m \in Names /\ FindItem(T[p], m) # NoItem
    BY DEF NamesAt
  <2> QED BY <2>1, StatingIs
<1>7. \A i \in 1 .. n : \E m \in here : list[i] = <<m>>
  BY <1>2, <1>3 DEF Elements
<1>8. \A m \in here : \E i \in 1 .. n : list[i] = <<m>>
  BY <1>2, <1>3 DEF Elements
<1> HIDE DEF here
<1>9. l \in Seq(Statements) /\ Len(l) = n
  <2>1. l \in [1 .. n -> Statements]
    BY <1>4, <1>6, <1>7
  <2> QED BY <2>1, SequenceOf
<1>10. Once(l)
  <2> SUFFICES ASSUME NEW i \in 1 .. n, NEW j \in 1 .. n, l[i] = l[j] PROVE i = j
    BY <1>9 DEF Once
  <2>1. PICK m \in here, k \in here : list[i] = <<m>> /\ list[j] = <<k>>
    BY <1>7
  <2>2. Append(p, m) = Append(p, k)
    BY <1>4, <1>6, <2>1
  <2>3. m = k
    BY <1>6, <2>2, RouteEnd DEF SoundTree
  <2> QED BY <1>2, <1>3, <2>1, <2>3 DEF Once
<1>11. Elements(l) = StatementsOf(items, {Append(p, m) : m \in here})
  <2>1. Elements(l) = {Stating(T, p, list[i]) : i \in 1 .. n}
    BY <1>4, <1>9 DEF Elements
  <2>2. {Stating(T, p, list[i]) : i \in 1 .. n} = {Stating(T, p, <<m>>) : m \in here}
    BY <1>7, <1>8
  <2>3. {Stating(T, p, <<m>>) : m \in here} = {StatementOf(items, Append(p, m)) : m \in here}
    BY <1>6
  <2> QED BY <2>1, <2>2, <2>3 DEF StatementsOf
<1>12. Follows(p, l)
  <2> SUFFICES ASSUME NEW i \in 1 .. n PROVE Front(l[i].path) = p
    BY <1>9 DEF Follows
  <2> QED BY <1>4, <1>6, <1>7
<1> QED BY <1>5, <1>9, <1>10, <1>11, <1>12 DEF Transcript, here

\* A scope in it, with what is in that.
LEMMA InnerIs ==
    ASSUME NEW T, SoundTree(T), NEW items, items = ItemsOf(T), NEW p \in DOMAIN T, NEW m \in Names,
           FindItem(T[p], m) = Scope, NEW below, NEW q, q = Append(p, m),
           Transcript(items, q, Deeper(items, q), below)
    PROVE  Transcript(items, p, Twig(items, p, m), <<Stating(T, p, <<m>>)>> \o below)
<1>1. FindItem(T[p], m) # NoItem
  BY NoItemIs
<1>2. PICK st : st = Stating(T, p, <<m>>)
  OBVIOUS
<1>3. st = StatementOf(items, q) /\ st \in Statements /\ st.path = q /\ Front(q) = p
  BY <1>1, <1>2, StatingIs
<1>4. q \notin Deeper(items, q) /\ Twig(items, p, m) = {q} \cup Deeper(items, q)
  <2>1. HasTwig(items, p, m, q, FindItem(T[p], m))
    BY <1>1, TwigIs
  <2> QED BY <2>1 DEF HasTwig
<1>5. /\ below \in Seq(Statements) /\ Once(below) /\ Elements(below) = StatementsOf(items, Deeper(items, q))
      /\ Follows(q, below)
  BY DEF Transcript
<1>6. PICK s \in Seq(Statements) : s = <<st>>
  <2>1. \A z \in Statements : <<z>> \in Seq(Statements)
    OBVIOUS
  <2> QED BY <1>3, <2>1
<1>7. Len(s) = 1 /\ s[1] = st
  BY <1>6
<1>8. Once(s) /\ Elements(s) = {st} /\ Follows(p, s)
  <2>1. 1 .. Len(s) = {1}
    BY <1>7
  <2>2. Once(s) /\ Elements(s) = {st}
    BY <1>7, <2>1 DEF Once, Elements
  <2>3. Follows(p, s)
    BY <1>3, <1>7, <2>1 DEF Follows
  <2> QED BY <2>2, <2>3
<1>9. Elements(s) = StatementsOf(items, {q})
  BY <1>3, <1>8 DEF StatementsOf
<1>10. Elements(s) \cap Elements(below) = {}
  <2>1. {q} \cap Deeper(items, q) = {}
    BY <1>4
  <2>2. StatementsOf(items, {q}) \cap StatementsOf(items, Deeper(items, q)) = {}
    BY <2>1, StatementsApart
  <2> QED BY <1>5, <1>9, <2>2
<1>11. s \o below \in Seq(Statements) /\ Once(s \o below)
  BY <1>5, <1>8, <1>10, ConcatOnce, ConcatProperties
<1>12. Elements(s \o below) = StatementsOf(items, Twig(items, p, m))
  <2>1. Elements(s \o below) = Elements(s) \cup Elements(below)
    BY <1>5, ConcatElements
  <2>2. StatementsOf(items, {q} \cup Deeper(items, q)) = StatementsOf(items, {q}) \cup StatementsOf(items, Deeper(items, q))
    BY DEF StatementsOf
  <2> QED BY <1>4, <1>5, <1>9, <2>1, <2>2
<1>13. Follows(p, s \o below)
  <2>1. \E j \in 1 .. Len(s) : s[j].path = q
    BY <1>3, <1>7
  <2> QED BY <1>5, <1>8, <2>1, FollowsConcat
<1> QED BY <1>2, <1>6, <1>11, <1>12, <1>13 DEF Transcript

LEMMA NestedAre ==
    ASSUME NEW T, SoundTree(T), NEW items, items = ItemsOf(T), NEW p \in DOMAIN T, NEW g,
           \A m \in Names : Append(p, m) \in DOMAIN T =>
             Transcript(items, Append(p, m), Deeper(items, Append(p, m)), g[Append(p, m)])
    PROVE  Transcript(items, p, UNION {Twig(items, p, m) : m \in NamesAt(T, p, {"scope"})}, Nested(T, g, p))
<1> DEFINE inner == NamesAt(T, p, {"scope"})
<1>1. PICK list : list = SortedNames(T[p], {"scope"})
  OBVIOUS
<1>2. /\ list \in Seq(Route) /\ Once(list) /\ DOMAIN list = 1 .. Len(list) /\ Len(list) \in Nat
      /\ Elements(list) = {<<m>> : m \in inner}
  BY <1>1, SortedNamesAre
<1>3. PICK n \in Nat : n = Len(list)
  BY <1>2
<1>4. PICK seqs : seqs = [i \in 1 .. n |-> <<Stating(T, p, list[i])>> \o g[p \o list[i]]]
  OBVIOUS
<1>5. Nested(T, g, p) = FlattenSeq(seqs)
  BY <1>1, <1>2, <1>3, <1>4 DEF Nested
<1>6. ASSUME NEW i \in 1 .. n
      PROVE  \E m \in inner : list[i] = <<m>> /\ Transcript(items, p, Twig(items, p, m), seqs[i])
  <2>1. list[i] \in Elements(list)
    BY <1>3 DEF Elements
  <2>2. PICK m \in Names : /\ list[i] = <<m>> /\ FindItem(T[p], m) = Scope
                           /\ p \o list[i] = Append(p, m) /\ Append(p, m) \in DOMAIN T
    BY <1>1, <2>1, InnerScopes
  <2>3. PICK q, below : q = Append(p, m) /\ below = g[q]
    OBVIOUS
  <2>4. Transcript(items, q, Deeper(items, q), below)
    BY <2>2, <2>3
  <2>5. Transcript(items, p, Twig(items, p, m), <<Stating(T, p, <<m>>)>> \o below)
    BY <2>2, <2>3, <2>4, InnerIs
  <2>6. seqs[i] = <<Stating(T, p, <<m>>)>> \o below
    BY <1>4, <2>2, <2>3
  <2>7. m \in inner
    <3>1. FindItem(T[p], m) # NoItem /\ FindItem(T[p], m).type = "scope"
      BY <2>2, NoItemIs DEF Scope
    <3> QED BY <3>1 DEF NamesAt
  <2> HIDE DEF inner
  <2> QED BY <2>2, <2>5, <2>6, <2>7
<1>7. inner \subseteq Names
  BY DEF NamesAt
<1> HIDE DEF inner
<1>8. PICK at \in [1 .. n -> inner] :
        \A i \in 1 .. n : list[i] = <<at[i]>> /\ Transcript(items, p, Twig(items, p, at[i]), seqs[i])
  <2> DEFINE Here(i, m) == list[i] = <<m>> /\ Transcript(items, p, Twig(items, p, m), seqs[i])
             at == [i \in 1 .. n |-> CHOOSE m \in inner : Here(i, m)]
  <2>1. \A i \in 1 .. n : \E m \in inner : Here(i, m)
    BY <1>6
  <2> HIDE DEF Here
  <2>2. at \in [1 .. n -> inner] /\ \A i \in 1 .. n : Here(i, at[i])
    BY <2>1
  <2> QED BY <2>2 DEF Here
<1>9. \A m \in inner : \E i \in 1 .. n : at[i] = m
  <2> SUFFICES ASSUME NEW m \in inner PROVE \E i \in 1 .. n : at[i] = m
    OBVIOUS
  <2>1. PICK i \in 1 .. n : list[i] = <<m>>
    BY <1>2, <1>3 DEF Elements
  <2>2. <<at[i]>> = <<m>>
    BY <1>8, <2>1
  <2> QED BY <2>2
<1>10. ASSUME NEW i \in 1 .. n
       PROVE  /\ seqs[i] \in Seq(Statements) /\ Once(seqs[i]) /\ Follows(p, seqs[i])
              /\ Elements(seqs[i]) = StatementsOf(items, Twig(items, p, at[i]))
  BY <1>8 DEF Transcript
<1>11. seqs \in [1 .. n -> Seq(Statements)]
  BY <1>4, <1>10
<1>12. \A i, j \in 1 .. n : i # j => Elements(seqs[i]) \cap Elements(seqs[j]) = {}
  <2> SUFFICES ASSUME NEW i \in 1 .. n, NEW j \in 1 .. n, i # j PROVE Elements(seqs[i]) \cap Elements(seqs[j]) = {}
    OBVIOUS
  <2>1. list[i] # list[j]
    BY <1>2, <1>3 DEF Once
  <2>2. at[i] # at[j] /\ at[i] \in Names /\ at[j] \in Names
    BY <1>7, <1>8, <2>1
  <2>3. Twig(items, p, at[i]) \cap Twig(items, p, at[j]) = {}
    BY <2>2, TwigsAre
  <2> QED BY <1>10, <2>3, StatementsApart
<1>13. /\ FlattenSeq(seqs) \in Seq(Statements) /\ Once(FlattenSeq(seqs))
       /\ Elements(FlattenSeq(seqs)) = UNION {Elements(seqs[i]) : i \in 1 .. n}
  <2>1. \A i \in 1 .. n : Once(seqs[i])
    BY <1>10
  <2> QED BY <1>11, <1>12, <2>1, FlattenParts
<1>14. Follows(p, FlattenSeq(seqs))
  <2>1. \A i \in 1 .. n : Follows(p, seqs[i])
    BY <1>10
  <2> QED BY <1>11, <2>1, FollowsFlatten
<1>15. UNION {Elements(seqs[i]) : i \in 1 .. n} = StatementsOf(items, UNION {Twig(items, p, m) : m \in inner})
  <2>1. UNION {Elements(seqs[i]) : i \in 1 .. n} = UNION {StatementsOf(items, Twig(items, p, at[i])) : i \in 1 .. n}
    BY <1>10
  <2>2. UNION {StatementsOf(items, Twig(items, p, at[i])) : i \in 1 .. n}
          = UNION {StatementsOf(items, Twig(items, p, m)) : m \in inner}
    BY <1>8, <1>9
  <2>3. UNION {StatementsOf(items, Twig(items, p, m)) : m \in inner}
          = StatementsOf(items, UNION {Twig(items, p, m) : m \in inner})
    BY DEF StatementsOf
  <2> QED BY <2>1, <2>2, <2>3
<1> QED BY <1>5, <1>13, <1>14, <1>15 DEF Transcript, inner

\* What dump writes at one scope.
LEMMA DumpLinesAre ==
    ASSUME NEW T, SoundTree(T), NEW items, items = ItemsOf(T), NEW p \in DOMAIN T, NEW g,
           \A m \in Names : Append(p, m) \in DOMAIN T =>
             Transcript(items, Append(p, m), Deeper(items, Append(p, m)), g[Append(p, m)])
    PROVE  Transcript(items, p, Deeper(items, p), Stated(T, p) \o Nested(T, g, p))
<1> DEFINE vars1 == NamesAt(T, p, VariableTypes)
           inner == NamesAt(T, p, {"scope"})
           A == {Append(p, m) : m \in vars1}
           B == UNION {Twig(items, p, m) : m \in inner}
<1>1. PICK s, t : s = Stated(T, p) /\ t = Nested(T, g, p)
  OBVIOUS
<1>2. Transcript(items, p, A, s)
  BY <1>1, StatedAre
<1>3. Transcript(items, p, B, t)
  BY <1>1, NestedAre
<1>4. ASSUME NEW m \in Names, FindItem(T[p], m) # NoItem
      PROVE  /\ m \in vars1 <=> FindItem(T[p], m) # Scope
             /\ m \in inner <=> FindItem(T[p], m) = Scope
             /\ FindItem(T[p], m) # Scope => Twig(items, p, m) = {Append(p, m)}
  <2>1. PICK k \in Kinds : k = FindItem(T[p], m)
    BY <1>4, FindType DEF SoundTree
  <2>2. (k # Scope <=> k \in Tree!Variables) /\ (k.type \in VariableTypes <=> k \in Tree!Variables)
    BY KindsAre
  <2>3. k = Scope => k.type = "scope"
    BY DEF Scope
  <2>4. "scope" \notin VariableTypes
    BY DEF VariableTypes
  <2>5. m \in vars1 <=> k \in Tree!Variables
    BY <1>4, <2>1, <2>2 DEF NamesAt
  <2>6. m \in inner <=> k.type = "scope"
    BY <1>4, <2>1 DEF NamesAt
  <2>7. PICK q : q = Append(p, m)
    OBVIOUS
  <2>8. HasTwig(items, p, m, q, FindItem(T[p], m))
    BY <1>4, <2>7, TwigIs
  <2>9. k # Scope => Twig(items, p, m) = {q}
    BY <2>1, <2>8 DEF HasTwig
  <2> HIDE DEF vars1, inner
  <2> QED BY <2>1, <2>2, <2>3, <2>4, <2>5, <2>6, <2>7, <2>9
<1>5. \A m \in vars1 \cup inner : m \in Names /\ FindItem(T[p], m) # NoItem
  BY DEF NamesAt
<1>6. /\ Deeper(items, p) = UNION {Twig(items, p, m) : m \in {n \in Names : FindItem(T[p], n) # NoItem}}
      /\ \A m, k \in Names : m # k => Twig(items, p, m) \cap Twig(items, p, k) = {}
  BY TwigsAre
<1> HIDE DEF vars1, inner
<1>7. {n \in Names : FindItem(T[p], n) # NoItem} = vars1 \cup inner
  BY <1>4, <1>5
<1>8. \A m \in vars1 : Twig(items, p, m) = {Append(p, m)}
  BY <1>4, <1>5
<1>9. Deeper(items, p) = A \cup B
  <2>1. Deeper(items, p) = UNION {Twig(items, p, m) : m \in vars1 \cup inner}
    BY <1>6, <1>7
  <2>2. ASSUME NEW r \in Deeper(items, p) PROVE r \in A \cup B
    <3>1. PICK m \in vars1 \cup inner : r \in Twig(items, p, m)
      BY <2>1
    <3> QED BY <1>8, <3>1
  <2>3. ASSUME NEW r \in A \cup B PROVE r \in Deeper(items, p)
    <3>1. PICK m \in vars1 \cup inner : r \in Twig(items, p, m)
      BY <1>8
    <3> QED BY <2>1, <3>1
  <2> QED BY <2>2, <2>3
<1>10. A \cap B = {}
  <2> SUFFICES ASSUME NEW m \in vars1, NEW k \in inner, Append(p, m) \in Twig(items, p, k) PROVE FALSE
    OBVIOUS
  <2>1. m # k
    BY <1>4, <1>5
  <2>2. Append(p, m) \in Twig(items, p, m)
    BY <1>8
  <2> QED BY <1>5, <1>6, <2>1, <2>2
<1> HIDE DEF A, B
<1>11. /\ s \in Seq(Statements) /\ Once(s) /\ Elements(s) = StatementsOf(items, A) /\ Follows(p, s)
       /\ t \in Seq(Statements) /\ Once(t) /\ Elements(t) = StatementsOf(items, B) /\ Follows(p, t)
  BY <1>2, <1>3 DEF Transcript
<1>12. s \o t \in Seq(Statements) /\ Follows(p, s \o t)
  BY <1>11, FollowsConcat, ConcatProperties
<1>13. Once(s \o t)
  <2>1. Elements(s) \cap Elements(t) = {}
    BY <1>10, <1>11, StatementsApart
  <2> QED BY <1>11, <2>1, ConcatOnce
<1>14. Elements(s \o t) = StatementsOf(items, A \cup B)
  <2>1. Elements(s \o t) = Elements(s) \cup Elements(t)
    BY <1>11, ConcatElements
  <2>2. StatementsOf(items, A \cup B) = StatementsOf(items, A) \cup StatementsOf(items, B)
    BY DEF StatementsOf
  <2> QED BY <1>11, <2>1, <2>2
<1> QED BY <1>1, <1>9, <1>12, <1>13, <1>14 DEF Transcript

\* At every scope: by induction from the deepest.
LEMMA DumpingIs ==
    ASSUME NEW T, SoundTree(T), NEW N \in Nat, \A p \in DOMAIN T : Len(p) \in 0 .. N,
           NEW g, Dumping(T, g), NEW items, items = ItemsOf(T)
    PROVE  Transcript(items, <<>>, Deeper(items, <<>>), g[<<>>])
<1> DEFINE D == DOMAIN T
           Done(p) == Transcript(items, p, Deeper(items, p), g[p])
           S == {n \in Nat : \A p \in D : Len(p) + n > N => Done(p)}
<1> HIDE DEF Done
<1>1. \A p \in D : g[p] = Stated(T, p) \o Nested(T, g, p)
  BY DEF Dumping
<1>2. 0 \in S
  <2> SUFFICES ASSUME NEW p \in D PROVE ~(Len(p) + 0 > N)
    OBVIOUS
  <2>1. Len(p) \in 0 .. N
    OBVIOUS
  <2> QED BY <2>1
<1>3. ASSUME NEW n \in Nat, n \in S PROVE n + 1 \in S
  <2> SUFFICES ASSUME NEW p \in D, Len(p) + (n + 1) > N PROVE Done(p)
    OBVIOUS
  <2>1. p \in Route
    BY DEF SoundTree
  <2>2. ASSUME NEW m \in Names, Append(p, m) \in D PROVE Done(Append(p, m))
    <3>1. Len(Append(p, m)) = Len(p) + 1 /\ Len(p) \in Nat
      BY <2>1, AppendProperties, FunctionOf DEF Route
    <3>2. Len(Append(p, m)) + n > N
      BY <3>1
    <3> QED BY <1>3, <2>2, <3>2
  <2>3. Transcript(items, p, Deeper(items, p), Stated(T, p) \o Nested(T, g, p))
    BY <2>2, DumpLinesAre DEF Done
  <2> QED BY <1>1, <2>3 DEF Done
<1>4. Nat \subseteq S
  <2> HIDE DEF S
  <2> QED BY <1>2, <1>3, SetInduction
<1>5. N + 1 \in S
  <2> HIDE DEF S
  <2> QED BY <1>4
<1>6. <<>> \in D /\ Len(<<>>) + (N + 1) > N
  BY DEF SoundTree
<1> QED BY <1>5, <1>6 DEF Done

\* dump writes every entry once, and each after the scope it is in.
LEMMA DumpIs ==
    ASSUME CInv, Deep(Items)
    PROVE  Transcript(Items, <<>>, DOMAIN Items, Dump(<<>>))
<1>1. SoundTree(tables)
  BY DEF CInv
<1>2. PICK N \in Nat : \A p \in DOMAIN tables : Len(p) \in 0 .. N
  BY ScopesDeep
<1>3. PICK g : g = CHOOSE h : Dumping(tables, h)
  OBVIOUS
<1>4. Dumping(tables, g)
  BY <1>1, <1>2, <1>3, DumpMakes
<1>5. PICK items : items = ItemsOf(tables)
  OBVIOUS
<1>6. Transcript(items, <<>>, Deeper(items, <<>>), g[<<>>])
  BY <1>1, <1>2, <1>4, <1>5, DumpingIs
<1>7. Deeper(items, <<>>) = DOMAIN items
  <2>1. ASSUME NEW q \in DOMAIN items PROVE IsStrictPrefix(<<>>, q)
    <3>1. q \in Route /\ q # <<>>
      BY <1>1, <1>5, EverythingIs
    <3>2. PICK e \in Route : e = <<>> /\ Len(e) = 0
      <4>1. <<>> \in Seq(Names) /\ Len(<<>>) = 0
        OBVIOUS
      <4> QED BY <4>1 DEF Route
    <3>3. q \in Seq(Names) /\ Len(q) \in Nat
      BY <3>1, FunctionOf DEF Route
    <3>4. Len(e) <= Len(q) /\ \A i \in 1 .. Len(e) : e[i] = q[i]
      BY <3>2, <3>3
    <3>5. IsPrefix(e, q)
      BY <3>2, <3>3, <3>4, PrefixIs DEF Route
    <3> QED BY <3>1, <3>2, <3>5 DEF IsStrictPrefix
  <2> QED BY <2>1 DEF Deeper
<1>8. Dump(<<>>) = g[<<>>]
  BY <1>3, DumpUses
<1> QED BY <1>5, <1>6, <1>7, <1>8 DEF Items

-----------------------------------------------------------------------------
\* Reading statements.
FromRoot(q) == {Way(<<>>, q, i) : i \in 1 .. Len(q)}

LEMMA FromRootIs ==
    ASSUME NEW q \in Route
    PROVE  /\ <<>> \o q = q
           /\ \A i \in 0 .. Len(q) : Way(<<>>, q, i) = SubSeq(q, 1, i) /\ Way(<<>>, q, i) \in Route
                                     /\ Len(Way(<<>>, q, i)) = i
<1>1. q \in Seq(Names)
  BY DEF Route
<1>2. <<>> \o q = q
  BY <1>1
<1>3. ASSUME NEW i \in 0 .. Len(q)
      PROVE  Way(<<>>, q, i) = SubSeq(q, 1, i) /\ Way(<<>>, q, i) \in Route /\ Len(Way(<<>>, q, i)) = i
  <2>1. PICK u \in Seq(Names) : u = SubSeq(q, 1, i) /\ Len(u) = i
    BY <1>1, UptoIs
  <2>2. <<>> \o u = u
    OBVIOUS
  <2> QED BY <2>1, <2>2 DEF Way, Route
<1> QED BY <1>2, <1>3

LEMMA FromRootNext ==
    ASSUME NEW p \in Route, NEW m \in Names, NEW q, q = Append(p, m)
    PROVE  FromRoot(q) = FromRoot(p) \cup {q}
<1>1. PICK n \in Nat : n = Len(p) /\ p \in [1 .. n -> Names]
  BY FunctionOf DEF Route
<1>2. q \in Seq(Names) /\ Len(q) = n + 1 /\ \A i \in 1 .. n : q[i] = p[i]
  BY <1>1, AppendProperties DEF Route
<1>3. ASSUME NEW i \in 1 .. n PROVE Way(<<>>, q, i) = Way(<<>>, p, i)
  <2>1. i \in 0 .. Len(p) /\ i \in 0 .. Len(q)
    BY <1>1, <1>2
  <2>2. PICK u \in Seq(Names), v \in Seq(Names) : u = SubSeq(p, 1, i) /\ v = SubSeq(q, 1, i)
    BY <1>2, <2>1, UptoIs DEF Route
  <2>3. Len(u) = i /\ Len(v) = i /\ \A j \in 1 .. i : u[j] = p[j] /\ v[j] = q[j]
    BY <1>2, <2>1, <2>2, UptoIs DEF Route
  <2>4. \A j \in 1 .. i : u[j] = v[j]
    BY <1>2, <2>3
  <2>5. u = v
    BY <2>2, <2>3, <2>4, SeqEqual
  <2> QED BY <2>2, <2>5 DEF Way
<1>4. Way(<<>>, q, n + 1) = q
  <2>1. n + 1 \in 0 .. Len(q) /\ q \in Route
    BY <1>2 DEF Route
  <2>2. Way(<<>>, q, n + 1) = SubSeq(q, 1, n + 1)
    BY <2>1, FromRootIs
  <2>3. SubSeq(q, 1, Len(q)) = q
    BY <1>2, SubSeqFull
  <2> QED BY <1>2, <2>2, <2>3
<1>5. 1 .. n + 1 = (1 .. n) \cup {n + 1}
  OBVIOUS
<1> QED BY <1>1, <1>2, <1>3, <1>4, <1>5 DEF FromRoot

\* On the way to a scope there are scopes only.
LEMMA OnTheWay ==
    ASSUME NEW T, SoundTree(T), NEW items, items = ItemsOf(T), NEW p \in DOMAIN T, NEW r \in FromRoot(p)
    PROVE  r \in DOMAIN items /\ items[r] = Scope
<1>1. p \in Route
  BY DEF SoundTree
<1>2. PICK i \in 1 .. Len(p) : r = Way(<<>>, p, i)
  BY DEF FromRoot
<1>3. i \in 0 .. Len(p) /\ i # 0
  OBVIOUS
<1>4. r = SubSeq(p, 1, i) /\ r \in Route /\ Len(r) = i
  BY <1>1, <1>2, <1>3, FromRootIs
<1>5. r \in DOMAIN T
  BY <1>3, <1>4, PrefixClosed
<1>6. r # <<>>
  BY <1>3, <1>4
<1>7. Tree!IsScope(items, r)
  BY <1>4, <1>5, ScopeAt
<1> QED BY <1>6, <1>7 DEF Tree!IsScope, Tree!Scope, Scope

ScopesAt(A) == [r \in A |-> Scope]
AreScopes(items, A) == \A r \in A : r \in DOMAIN items /\ items[r] = Scope

LEMMA OverMadeIs ==
    ASSUME NEW items, NEW A, NEW B, AreScopes(items, A)
    PROVE  Tree!Over(items, ScopesAt(A \cup B)) = Tree!Over(items, ScopesAt(B))
<1> DEFINE more == ScopesAt(A \cup B)
           less == ScopesAt(B)
<1>1. Tree!Over(items, more) = [q \in DOMAIN items \cup (A \cup B) |-> IF q \in A \cup B THEN more[q] ELSE items[q]]
  BY DEF Tree!Over, ScopesAt
<1>2. Tree!Over(items, less) = [q \in DOMAIN items \cup B |-> IF q \in B THEN less[q] ELSE items[q]]
  BY DEF Tree!Over, ScopesAt
<1>3. DOMAIN items \cup (A \cup B) = DOMAIN items \cup B
  BY DEF AreScopes
<1>4. ASSUME NEW q \in DOMAIN items \cup B
      PROVE  (IF q \in A \cup B THEN more[q] ELSE items[q]) = (IF q \in B THEN less[q] ELSE items[q])
  BY DEF AreScopes, ScopesAt
<1> QED BY <1>1, <1>2, <1>3, <1>4

LEMMA OverNone ==
    ASSUME NEW items, items = [q \in DOMAIN items |-> items[q]]
    PROVE  Tree!Over(items, ScopesAt({})) = items
BY DEF Tree!Over, ScopesAt

LEMMA WayIsClear ==
    ASSUME NEW T, SoundTree(T), NEW items, items = ItemsOf(T), NEW p \in DOMAIN T
    PROVE  Tree!Obstacles(items, <<>>, p) = {} /\ Tree!WithScopes(items, <<>>, p) = items
<1>1. items = [q \in DOMAIN items |-> items[q]]
  BY DEF ItemsOf
<1>2. \A i \in 1 .. Len(p) : <<>> \o Tree!Upto(p, i) \in FromRoot(p)
  BY DEF FromRoot, Way, Tree!Upto
<1>3. AreScopes(items, FromRoot(p))
  BY OnTheWay DEF AreScopes
<1>4. Tree!Obstacles(items, <<>>, p) = {}
  BY <1>2, <1>3 DEF Tree!Obstacles, Tree!IsVariable, Tree!Scope, Scope, AreScopes
<1>5. Tree!WithScopes(items, <<>>, p) = Tree!Over(items, ScopesAt(FromRoot(p)))
  BY <1>4 DEF Tree!WithScopes, Tree!Upto, FromRoot, Way, Tree!Scope, Scope, ScopesAt
<1>6. FromRoot(p) = FromRoot(p) \cup {}
  OBVIOUS
<1>7. Tree!Over(items, ScopesAt(FromRoot(p) \cup {})) = Tree!Over(items, ScopesAt({}))
  BY <1>3, OverMadeIs
<1>8. Tree!Over(items, ScopesAt({})) = items
  BY <1>1, OverNone
<1> QED BY <1>4, <1>5, <1>6, <1>7, <1>8

LEMMA WayToNew ==
    ASSUME NEW T, SoundTree(T), NEW items, items = ItemsOf(T), NEW p \in DOMAIN T, NEW m \in Names,
           FindItem(T[p], m) = NoItem, NEW q, q = Append(p, m)
    PROVE  Tree!WithScopes(items, <<>>, q) = Tree!Over(items, OneEntry(q, Scope))
<1>1. p \in Route /\ q \in Route
  BY RouteIs DEF SoundTree
<1>2. q \notin DOMAIN items
  BY <1>1, ItemsDomain
<1>3. \A i \in 1 .. Len(q) : <<>> \o Tree!Upto(q, i) \in FromRoot(q)
  BY DEF FromRoot, Way, Tree!Upto
<1>4. AreScopes(items, FromRoot(p))
  BY OnTheWay DEF AreScopes
<1>5. FromRoot(q) = FromRoot(p) \cup {q}
  BY <1>1, FromRootNext
<1>6. Tree!Obstacles(items, <<>>, q) = {}
  BY <1>2, <1>3, <1>4, <1>5 DEF Tree!Obstacles, Tree!IsVariable, Tree!Scope, Scope, AreScopes
<1>7. Tree!WithScopes(items, <<>>, q) = Tree!Over(items, ScopesAt(FromRoot(q)))
  BY <1>6 DEF Tree!WithScopes, Tree!Upto, FromRoot, Way, Tree!Scope, Scope, ScopesAt
<1>8. Tree!Over(items, ScopesAt(FromRoot(p) \cup {q})) = Tree!Over(items, ScopesAt({q}))
  BY <1>4, OverMadeIs
<1>9. ScopesAt({q}) = OneEntry(q, Scope)
  BY DEF ScopesAt, OneEntry
<1> QED BY <1>5, <1>7, <1>8, <1>9

\* A statement whose scope is open adds its entry and changes nothing else.
Adding(st, q, p, m, item) == q = Append(p, m) /\ st.path = q /\ st.item = item
Added(T, q, item, U) == SoundTree(U) /\ ItemsOf(U) = Tree!Over(ItemsOf(T), OneEntry(q, item))
LEMMA RereadIs ==
    ASSUME NEW T, SoundTree(T), NEW p \in DOMAIN T, NEW m \in Names, FindItem(T[p], m) = NoItem,
           NEW item \in Kinds, NEW q, NEW st, Adding(st, q, p, m, item)
    PROVE  Added(T, q, item, Reread(T, st))
<1>0. PICK U : U = Reread(T, st) /\ q = Append(p, m) /\ st.path = q /\ st.item = item
  BY DEF Adding
<1>1. p \in Route /\ q \in Route /\ q # <<>> /\ <<>> \in DOMAIN T
  BY <1>0, RouteIs DEF SoundTree
<1>2. PICK items : items = ItemsOf(T)
  OBVIOUS
<1>3. CASE item = Scope
  <2>1. PICK a : a = EnsureScopes(T, <<>>, q)
    OBVIOUS
  <2>2. SoundTree(a.tables) /\ ItemsOf(a.tables) = Tree!WithScopes(ItemsOf(T), <<>>, q)
    BY <1>1, <2>1, EnsureIs
  <2>3. U = a.tables
    BY <1>0, <1>3, <2>1 DEF Reread
  <2>4. Tree!WithScopes(items, <<>>, q) = Tree!Over(items, OneEntry(q, Scope))
    BY <1>0, <1>2, WayToNew
  <2> QED BY <1>0, <1>2, <1>3, <2>2, <2>3, <2>4 DEF Added
<1>4. CASE item # Scope
  <2>1. item \in Tree!Variables
    BY <1>4, KindsAre
  <2>2. U = Inserted(T, <<>>, q, item)
    BY <1>0, <1>4 DEF Reread
  <2>3. SoundTree(U) /\ ItemsOf(U) = Tree!Written(ItemsOf(T), <<>>, Split(q), item)
    BY <1>1, <2>1, <2>2, InsertedIs
  <2>4. Split(q) = q
    BY <1>1, SplitAny
  <2>5. Tree!Parent(q) = p
    <3>1. Front(q) \in Route /\ Last(q) \in Names /\ q = Append(Front(q), Last(q))
      BY <1>1, SplitLast DEF Route
    <3>2. Front(q) = p
      BY <1>0, <1>1, <3>1, RouteEnd
    <3> QED BY <3>2 DEF Tree!Parent, Tree!Upto, Front
  <2>6. Tree!Obstacles(items, <<>>, p) = {} /\ Tree!WithScopes(items, <<>>, p) = items
    BY <1>2, WayIsClear
  <2>7. <<>> \o q = q
    BY <1>1, FromRootIs
  <2>8. ~Tree!IsScope(items, q)
    <3>1. q \notin DOMAIN items
      BY <1>0, <1>1, <1>2, ItemsDomain
    <3> QED BY <1>1, <3>1 DEF Tree!IsScope
  <2>9. Tree!CanWrite(items, <<>>, q)
    BY <2>5, <2>6, <2>7, <2>8 DEF Tree!CanWrite
  <2>10. Tree!Written(items, <<>>, q, item) = Tree!Over(items, OneEntry(q, item))
    BY <2>5, <2>6, <2>7, <2>9 DEF Tree!Written, OneEntry
  <2> QED BY <1>0, <1>2, <2>3, <2>4, <2>10 DEF Added
<1> QED BY <1>3, <1>4

\* The recursion over the statements.
Rereading(list, n, f) ==
    f = [k \in 0 .. n |-> IF k = 0 THEN [p \in {<<>>} |-> EmptyTable] ELSE Reread(f[k - 1], list[k])]

LEMMA RereadingMakes ==
    ASSUME NEW list, NEW n \in Nat
    PROVE  \E f : Rereading(list, n, f)
<1> DEFINE Start == [p \in {<<>>} |-> EmptyTable]
           Good(f, j) == f = [k \in 0 .. j |-> IF k = 0 THEN Start ELSE Reread(f[k - 1], list[k])]
           S == {j \in Nat : \E f : Good(f, j)}
<1> HIDE DEF Start
<1>1. 0 \in S
  <2>1. PICK f : f = [k \in 0 .. 0 |-> Start]
    OBVIOUS
  <2>2. Good(f, 0)
    <3>1. \A k \in 0 .. 0 : k = 0
      OBVIOUS
    <3> QED BY <2>1, <3>1
  <2> HIDE DEF Good
  <2> QED BY <2>2
<1>2. ASSUME NEW j \in Nat, j \in S PROVE j + 1 \in S
  <2>1. PICK f : Good(f, j)
    BY <1>2
  <2>2. f = [k \in 0 .. j |-> f[k]] /\ \A k \in 0 .. j : f[k] = IF k = 0 THEN Start ELSE Reread(f[k - 1], list[k])
    BY <2>1
  <2>3. PICK h : h = [k \in 0 .. j + 1 |-> IF k = j + 1 THEN Reread(f[j], list[j + 1]) ELSE f[k]]
    OBVIOUS
  <2>4. ASSUME NEW k \in 0 .. j + 1 PROVE h[k] = IF k = 0 THEN Start ELSE Reread(h[k - 1], list[k])
    <3>1. CASE k = j + 1
      <4>1. k # 0 /\ k - 1 = j /\ j \in 0 .. j + 1 /\ j # j + 1
        BY <3>1
      <4>2. h[k] = Reread(f[j], list[j + 1]) /\ h[j] = f[j]
        BY <2>3, <3>1, <4>1
      <4> QED BY <3>1, <4>1, <4>2
    <3>2. CASE k # j + 1
      <4>1. k \in 0 .. j /\ h[k] = f[k]
        BY <2>3, <3>2
      <4>2. CASE k = 0
        BY <2>2, <4>1, <4>2
      <4>3. CASE k # 0
        <5>1. k - 1 \in 0 .. j + 1 /\ k - 1 # j + 1
          BY <4>1, <4>3
        <5>2. h[k - 1] = f[k - 1]
          BY <2>3, <5>1
        <5>3. f[k] = Reread(f[k - 1], list[k])
          BY <2>2, <4>1, <4>3
        <5> QED BY <4>1, <4>3, <5>2, <5>3
      <4> QED BY <4>2, <4>3
    <3> QED BY <3>1, <3>2
  <2>5. h = [k \in 0 .. j + 1 |-> h[k]]
    BY <2>3
  <2>6. Good(h, j + 1)
    BY <2>4, <2>5
  <2> HIDE DEF Good
  <2> QED BY <2>6
<1>3. Nat \subseteq S
  <2> HIDE DEF S
  <2> QED BY <1>1, <1>2, SetInduction
<1>4. n \in S
  BY <1>3
<1> QED BY <1>4 DEF Rereading, Start

\* What the first `k' statements are of.
Paths(list, k) == {list[i].path : i \in 1 .. k}
Part(items, A) == [q \in A |-> items[q]]
FirstItems(items, list, k) == Part(items, Paths(list, k))

LEMMA OneMore ==
    ASSUME NEW items, NEW A, NEW q, q \notin A
    PROVE  Tree!Over(Part(items, A), OneEntry(q, items[q])) = Part(items, A \cup {q})
<1> DEFINE few == Part(items, A)
<1>1. DOMAIN few = A /\ DOMAIN OneEntry(q, items[q]) = {q}
  BY DEF OneEntry, Part
<1>2. Tree!Over(few, OneEntry(q, items[q])) =
        [r \in A \cup {q} |-> IF r \in {q} THEN OneEntry(q, items[q])[r] ELSE few[r]]
  BY <1>1 DEF Tree!Over
<1>3. ASSUME NEW r \in A \cup {q}
      PROVE  (IF r \in {q} THEN OneEntry(q, items[q])[r] ELSE few[r]) = items[r]
  <2>1. OneEntry(q, items[q])[q] = items[q]
    BY DEF OneEntry
  <2> QED BY <2>1 DEF Part
<1> QED BY <1>2, <1>3 DEF Part

LEMMA PathsOf ==
    ASSUME NEW items, NEW A
    PROVE  {st.path : st \in StatementsOf(items, A)} = A
<1>1. \A q : StatementOf(items, q).path = q
  BY DEF StatementOf
<1>2. ASSUME NEW q \in A PROVE q \in {st.path : st \in StatementsOf(items, A)}
  <2>1. StatementOf(items, q) \in StatementsOf(items, A)
    BY DEF StatementsOf
  <2> QED BY <1>1, <2>1
<1>3. ASSUME NEW st \in StatementsOf(items, A) PROVE st.path \in A
  BY <1>1 DEF StatementsOf
<1> QED BY <1>2, <1>3

\* After `k' statements there is what they are of, with the items they give it.
LEMMA RereadingStep ==
    ASSUME NEW T, SoundTree(T), NEW items, items = ItemsOf(T), NEW list,
           Transcript(items, <<>>, DOMAIN items, list), NEW k \in Nat, k + 1 <= Len(list),
           NEW V, SoundTree(V), ItemsOf(V) = FirstItems(items, list, k), NEW U, U = Reread(V, list[k + 1])
    PROVE  SoundTree(U) /\ ItemsOf(U) = FirstItems(items, list, k + 1)
<1>1. /\ list \in Seq(Statements) /\ Once(list) /\ Elements(list) = StatementsOf(items, DOMAIN items)
      /\ Follows(<<>>, list)
  BY DEF Transcript
<1>2. PICK L \in Nat : L = Len(list) /\ list \in [1 .. L -> Statements]
  BY <1>1, FunctionOf
<1>3. \A i \in 1 .. L : list[i].path \in DOMAIN items /\ list[i].item = items[list[i].path]
                        /\ list[i] = StatementOf(items, list[i].path)
  <2> SUFFICES ASSUME NEW i \in 1 .. L
               PROVE  list[i].path \in DOMAIN items /\ list[i].item = items[list[i].path]
                      /\ list[i] = StatementOf(items, list[i].path)
    OBVIOUS
  <2>1. list[i] \in Elements(list)
    BY <1>2 DEF Elements
  <2>2. PICK q \in DOMAIN items : list[i] = StatementOf(items, q)
    BY <1>1, <2>1 DEF StatementsOf
  <2>3. list[i].path = q /\ list[i].item = items[q]
    BY <2>2 DEF StatementOf
  <2> QED BY <2>2, <2>3
<1>4. k + 1 \in 1 .. L
  BY <1>2
<1>5. PICK st, q : st = list[k + 1] /\ q = st.path
  OBVIOUS
<1>6. q \in DOMAIN items /\ st.item = items[q]
  BY <1>3, <1>4, <1>5
<1>7. PICK p \in DOMAIN T, m \in Names : q = Append(p, m) /\ FindItem(T[p], m) # NoItem
  BY <1>6, ItemsRange
<1>8. p \in Route /\ q \in Route /\ q # <<>>
  BY <1>7, RouteIs DEF SoundTree
<1>9. Front(q) = p
  <2>1. Front(q) \in Route /\ Last(q) \in Names /\ q = Append(Front(q), Last(q))
    BY <1>8, SplitLast DEF Route
  <2> QED BY <1>7, <1>8, <2>1, RouteEnd
<1>10. q \notin Paths(list, k)
  <2> SUFFICES ASSUME NEW i \in 1 .. k, list[i].path = q PROVE FALSE
    BY DEF Paths
  <2>1. i \in 1 .. L /\ i # k + 1
    BY <1>4
  <2>2. list[i] = list[k + 1]
    BY <1>3, <1>4, <1>5, <2>1
  <2> QED BY <1>1, <1>2, <1>4, <2>1, <2>2 DEF Once
<1>11. p \in DOMAIN V
  <2>1. Front(list[k + 1].path) = <<>> \/ \E j \in 1 .. (k + 1) - 1 : list[j].path = Front(list[k + 1].path)
    BY <1>1, <1>2, <1>4 DEF Follows
  <2>2. CASE p = <<>>
    BY <2>2 DEF SoundTree
  <2>3. CASE p # <<>>
    <3>1. PICK j \in 1 .. k : list[j].path = p
      <4>1. PICK j \in 1 .. (k + 1) - 1 : list[j].path = p
        BY <1>5, <1>9, <2>1, <2>3
      <4> QED BY <4>1
    <3>2. p \in Paths(list, k)
      BY <3>1 DEF Paths
    <3>3. Tree!IsScope(items, p)
      BY <1>8, ScopeAt
    <3>4. items[p] = Scope
      BY <2>3, <3>3 DEF Tree!IsScope, Tree!Scope, Scope
    <3>5. PICK few : few = ItemsOf(V)
      OBVIOUS
    <3>6. p \in DOMAIN few /\ few[p] = Scope
      BY <3>2, <3>4, <3>5 DEF FirstItems, Part
    <3>7. Tree!IsScope(few, p)
      BY <3>6 DEF Tree!IsScope, Tree!Scope, Scope
    <3> QED BY <1>8, <3>5, <3>7, ScopeAt
  <2> QED BY <2>2, <2>3
<1>12. FindItem(V[p], m) = NoItem
  <2>1. Append(p, m) \notin DOMAIN ItemsOf(V)
    BY <1>7, <1>10 DEF FirstItems, Part
  <2> QED BY <1>8, <1>11, <2>1, ItemsDomain
<1>13. PICK item \in Kinds : item = items[q]
  BY <1>6, EverythingIs
<1>14. SoundTree(U) /\ ItemsOf(U) = Tree!Over(ItemsOf(V), OneEntry(q, item))
  <2>1. Adding(st, q, p, m, item)
    BY <1>5, <1>6, <1>7, <1>13 DEF Adding
  <2>2. Added(V, q, item, Reread(V, st))
    BY <1>11, <1>12, <2>1, RereadIs
  <2> QED BY <1>5, <2>2 DEF Added
<1>15. Paths(list, k + 1) = Paths(list, k) \cup {q}
  <2>1. 1 .. k + 1 = (1 .. k) \cup {k + 1}
    OBVIOUS
  <2> QED BY <1>5, <2>1 DEF Paths
<1>16. Tree!Over(Part(items, Paths(list, k)), OneEntry(q, items[q])) = Part(items, Paths(list, k) \cup {q})
  BY <1>10, OneMore
<1> QED BY <1>13, <1>14, <1>15, <1>16 DEF FirstItems

LEMMA RereadingIs ==
    ASSUME NEW T, SoundTree(T), NEW items, items = ItemsOf(T), NEW list,
           Transcript(items, <<>>, DOMAIN items, list), NEW f, Rereading(list, Len(list), f)
    PROVE  SoundTree(f[Len(list)]) /\ ItemsOf(f[Len(list)]) = items
<1>1. PICK L \in Nat : L = Len(list) /\ list \in [1 .. L -> Statements]
  BY FunctionOf DEF Transcript
<1> DEFINE Done(k) == SoundTree(f[k]) /\ ItemsOf(f[k]) = FirstItems(items, list, k)
           S == {k \in Nat : k <= L => Done(k)}
<1> HIDE DEF Done
<1>2. 0 \in S
  <2>1. f[0] = [p \in {<<>>} |-> EmptyTable]
    BY <1>1 DEF Rereading
  <2>2. SoundTree(f[0]) /\ ItemsOf(f[0]) = [p \in {} |-> Scope]
    BY <2>1, RootIs
  <2>3. FirstItems(items, list, 0) = [p \in {} |-> Scope]
    <3>1. Paths(list, 0) = {}
      BY DEF Paths
    <3> QED BY <3>1 DEF FirstItems, Part
  <2> QED BY <2>2, <2>3 DEF Done
<1>3. ASSUME NEW k \in Nat, k \in S PROVE k + 1 \in S
  <2> SUFFICES ASSUME k + 1 <= L PROVE Done(k + 1)
    OBVIOUS
  <2>1. Done(k)
    BY <1>3
  <2>2. f[k + 1] = Reread(f[k], list[k + 1])
    <3>1. k + 1 \in 0 .. L /\ k + 1 # 0 /\ (k + 1) - 1 = k
      OBVIOUS
    <3> QED BY <1>1, <3>1 DEF Rereading
  <2>3. PICK V, U : V = f[k] /\ U = f[k + 1]
    OBVIOUS
  <2>4. SoundTree(V) /\ ItemsOf(V) = FirstItems(items, list, k) /\ U = Reread(V, list[k + 1])
    BY <2>1, <2>2, <2>3 DEF Done
  <2>5. SoundTree(U) /\ ItemsOf(U) = FirstItems(items, list, k + 1)
    BY <1>1, <2>4, RereadingStep
  <2> QED BY <2>3, <2>5 DEF Done
<1>4. Nat \subseteq S
  <2> HIDE DEF S
  <2> QED BY <1>2, <1>3, SetInduction
<1>5. Done(L)
  BY <1>4
<1>6. FirstItems(items, list, L) = items
  <2>1. Elements(list) = StatementsOf(items, DOMAIN items)
    BY DEF Transcript
  <2>2. Paths(list, L) = {st.path : st \in Elements(list)}
    BY <1>1 DEF Paths, Elements
  <2>4. Paths(list, L) = DOMAIN items
    BY <2>1, <2>2, PathsOf
  <2>5. items = [q \in DOMAIN items |-> items[q]]
    BY DEF ItemsOf
  <2> QED BY <2>4, <2>5 DEF FirstItems, Part
<1> QED BY <1>1, <1>5, <1>6 DEF Done

\* Trees of the same items are found the same.
LEMMA SameItems ==
    ASSUME NEW T, SoundTree(T), NEW U, SoundTree(U), ItemsOf(T) = ItemsOf(U)
    PROVE  /\ DOMAIN T = DOMAIN U
           /\ \A p \in DOMAIN T, m \in Names : FindItem(T[p], m) = FindItem(U[p], m)
<1>1. \A p \in Route : p \in DOMAIN T <=> p \in DOMAIN U
  BY ScopeAt
<1>2. DOMAIN T \subseteq Route /\ DOMAIN U \subseteq Route
  BY DEF SoundTree
<1>3. DOMAIN T = DOMAIN U
  BY <1>1, <1>2
<1>4. ASSUME NEW p \in DOMAIN T, NEW m \in Names PROVE FindItem(T[p], m) = FindItem(U[p], m)
  <2>1. p \in DOMAIN U /\ p \in Route
    BY <1>2, <1>3
  <2>2. Append(p, m) \in DOMAIN ItemsOf(T) <=> FindItem(T[p], m) # NoItem
    BY <2>1, ItemsDomain
  <2>3. Append(p, m) \in DOMAIN ItemsOf(U) <=> FindItem(U[p], m) # NoItem
    BY <2>1, ItemsDomain
  <2>4. CASE FindItem(T[p], m) = NoItem
    BY <2>2, <2>3, <2>4
  <2>5. CASE FindItem(T[p], m) # NoItem
    <3>1. FindItem(U[p], m) # NoItem
      BY <2>2, <2>3, <2>5
    <3>2. ItemsOf(T)[Append(p, m)] = FindItem(T[p], m)
      BY <2>5, ItemsAt
    <3>3. ItemsOf(U)[Append(p, m)] = FindItem(U[p], m)
      BY <2>1, <3>1, ItemsAt
    <3> QED BY <3>2, <3>3
  <2> QED BY <2>4, <2>5
<1> QED BY <1>3, <1>4

\* One statement for each entry.
LEMMA StatementCount ==
    ASSUME NEW items, NEW list, Transcript(items, <<>>, DOMAIN items, list)
    PROVE  Len(list) = Cardinality(DOMAIN items)
<1>1. list \in Seq(Statements) /\ Once(list) /\ Elements(list) = StatementsOf(items, DOMAIN items)
  BY DEF Transcript
<1>2. PICK n \in Nat : n = Len(list) /\ list \in [1 .. n -> Statements]
  BY <1>1, FunctionOf
<1>3. PICK paths : paths = [i \in 1 .. n |-> list[i].path]
  OBVIOUS
<1>4. paths \in Seq(Route) /\ Len(paths) = n
  <2>1. paths \in [1 .. n -> Route]
    BY <1>2, <1>3 DEF Statements
  <2> QED BY <2>1, SequenceOf
<1>5. \A i \in 1 .. n : \E q \in DOMAIN items : list[i] = StatementOf(items, q)
  BY <1>1, <1>2 DEF Elements, StatementsOf
<1>6. \A q : StatementOf(items, q).path = q
  BY DEF StatementOf
<1>7. Once(paths)
  <2> SUFFICES ASSUME NEW i \in 1 .. n, NEW j \in 1 .. n, paths[i] = paths[j] PROVE i = j
    BY <1>4 DEF Once
  <2>1. list[i] = list[j]
    BY <1>3, <1>5, <1>6
  <2> QED BY <1>1, <1>2, <2>1 DEF Once
<1>8. Elements(paths) = DOMAIN items
  <2>1. Elements(paths) = {st.path : st \in Elements(list)}
    BY <1>2, <1>3, <1>4 DEF Elements
  <2> QED BY <1>1, <2>1, PathsOf
<1> QED BY <1>2, <1>4, <1>7, <1>8, ElementsCount

Restored(list, T) ==
    /\ Len(list) = Cardinality(DOMAIN Items)
    /\ DOMAIN T = DOMAIN tables
    /\ \A p \in DOMAIN T, m \in Names : FindItem(T[p], m) = FindItem(tables[p], m)

LEMMA RestoredIs ==
    ASSUME CInv, Deep(Items), NEW list, list = Dump(<<>>),
           NEW f, f = CHOOSE h : Rereading(list, Len(list), h)
    PROVE  Restored(list, f[Len(list)])
<1>1. SoundTree(tables)
  BY DEF CInv
<1>2. PICK items : items = ItemsOf(tables)
  OBVIOUS
<1>3. Transcript(items, <<>>, DOMAIN items, list)
  BY <1>2, DumpIs DEF Items
<1>4. Len(list) \in Nat
  BY <1>3, FunctionOf DEF Transcript
<1>5. Rereading(list, Len(list), f)
  BY <1>4, RereadingMakes
<1>6. SoundTree(f[Len(list)]) /\ ItemsOf(f[Len(list)]) = items
  BY <1>1, <1>2, <1>3, <1>5, RereadingIs
<1>7. PICK T : T = f[Len(list)]
  OBVIOUS
<1>8. SoundTree(T) /\ ItemsOf(T) = ItemsOf(tables)
  BY <1>2, <1>6, <1>7
<1>9. /\ DOMAIN T = DOMAIN tables
      /\ \A p \in DOMAIN T, m \in Names : FindItem(T[p], m) = FindItem(tables[p], m)
  BY <1>1, <1>8, SameItems
<1>10. Len(list) = Cardinality(DOMAIN Items)
  BY <1>2, <1>3, StatementCount DEF Items
<1> QED BY <1>7, <1>9, <1>10 DEF Restored

LEMMA DumpRestoring == CInv /\ Deep(Items) => DumpRestores
<1> SUFFICES ASSUME CInv, Deep(Items) PROVE DumpRestores
  OBVIOUS
<1> DEFINE Read(list) == CHOOSE h : h = [n \in 0 .. Len(list) |-> IF n = 0 THEN [p \in {<<>>} |-> EmptyTable]
                                                                  ELSE Reread(h[n - 1], list[n])]
           Same(T) == /\ DOMAIN T = DOMAIN tables
                      /\ \A p \in DOMAIN T, n \in Names : FindItem(T[p], n) = FindItem(tables[p], n)
           Again(list) == /\ Len(list) = Cardinality(DOMAIN Items)
                          /\ (\A p \in DOMAIN Items : "" \notin Range(p)) =>
                               \E T \in {Read(list)[Len(list)]} : Same(T)
<1>1. DumpRestores <=> \E list \in {Dump(<<>>)} : Again(list)
  BY DEF DumpRestores
<1>2. PICK list, f : list = Dump(<<>>) /\ f = CHOOSE h : Rereading(list, Len(list), h)
  OBVIOUS
<1>3. Restored(list, f[Len(list)])
  BY <1>2, RestoredIs
<1>4. f = Read(list)
  BY <1>2 DEF Rereading
<1> HIDE DEF Read
<1>5. Again(list)
  BY <1>3, <1>4 DEF Restored
<1> HIDE DEF Again
<1> QED BY <1>1, <1>2, <1>5

\* Dumping and reading the dump again yields the same configuration: every
\* entry is written once, after the scope it is in, and with its item.
THEOREM DumpRestoresHolds == Spec => []DumpRestores
<1>1. CInv /\ Deep(Items) => DumpRestores
  BY DumpRestoring
<1> QED BY <1>1, DeepHolds, PTL
=============================================================================
