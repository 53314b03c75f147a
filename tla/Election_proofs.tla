-------------------------- MODULE Election_proofs --------------------------
(***************************************************************************)
(* What holds of the election for every word size, number of nodes, pair   *)
(* of committed values, exclusive or and generator that meet the           *)
(* assumptions of Election, and that the generator of PrvHash forgets      *)
(* nothing, for words of any width and any number of rounds.               *)
(***************************************************************************)
EXTENDS PrvElection, FiniteSetTheorems, WellFoundedInduction, TLAPS

\* The commitment electLeader gives to node n.
CommitmentOf(n) == Commit(IF n = leader_id THEN Win ELSE Lose, prfValue)

\* What links the loop, the generator and the key: the invariants of Election
\* are about the state after the ecall, this is how it gets there.
IInv ==
    /\ TypeOK
    /\ pc = "elect" => lcg = 0 /\ hash = Hash
    /\ pc = "commit" \/ Decided =>
           /\ prfValue = Generator(prfkey, 0, Hash).out
           /\ leader_id = CRem(IntOf(prfValue), NumNodes)
           /\ \A n \in Nodes : n < i => comm_values[n] = CommitmentOf(n)
    /\ Decided => i = NumNodes /\ output = comm_values[0]

-----------------------------------------------------------------------------
(* Facts about the operators. *)

\* The remainder of C is an integer below the divisor.
LEMMA RemainderBelow ==
    ASSUME NEW a \in Int, NEW b \in Nat \ {0}
    PROVE  CRem(a, b) \in Int /\ CRem(a, b) < b
  BY DEF CRem

\* A word read as an int is an integer.
LEMMA IntOfInt == ASSUME NEW w \in Word PROVE IntOf(w) \in Int
  BY SizeAssumption DEF IntOf, Word

\* The constants the program starts from are words, and so is zero.
LEMMA Words == 0 \in Word /\ Secret \in Word /\ Hash \in Word /\ Win \in Word
                 /\ Lose \in Word /\ 0 \in Nodes
  BY SizeAssumption, ValueAssumption DEF Word, Nodes

\* Opening a commitment with the key it was made with gives the value back.
LEMMA CommitOpens ==
    ASSUME NEW a \in Word, NEW b \in Word
    PROVE  Commit(a, b) \in Word /\ Commit(Commit(a, b), b) = a
  BY XorAssumption DEF Commit

-----------------------------------------------------------------------------
LEMMA InitIInv == Init => IInv
  BY SizeAssumption, Words
  DEF Init, IInv, TypeOK, Decided, Ended, Nodes

LEMMA StepIInv == IInv /\ [Next]_vars => IInv'
<1> SUFFICES ASSUME IInv, [Next]_vars PROVE IInv'
  OBVIOUS
<1> USE SizeAssumption, Words
<1> USE DEF IInv, TypeOK, Decided, Ended, Nodes, app, obj, vars
<1>1. CASE Launch
  BY <1>1 DEF Launch
<1>2. CASE GetKey
  BY <1>2, PrfAssumption DEF GetKey
<1>3. CASE GetKeyFails
  BY <1>3 DEF GetKeyFails
<1>4. CASE KeyPair
  BY <1>4 DEF KeyPair
<1>5. CASE ElectionFails
  BY <1>5 DEF ElectionFails
<1>6. CASE Initialize
  BY <1>6 DEF Initialize
<1>7. CASE ElectLeader
  <2> DEFINE r == Generator(prfkey, lcg, hash)
  <2>1. r \in [seed : Word, lcg : Word, hash : Word, out : Word]
    BY PrfAssumption
  <2>2. leader_id' \in Int
    BY <1>7, <2>1, IntOfInt, RemainderBelow DEF ElectLeader
  <2>3. r = Generator(prfkey, 0, Hash)
    BY <1>7 DEF ElectLeader
  <2>4. TypeOK'
    BY <1>7, <2>1, <2>2 DEF ElectLeader
  <2> QED
    BY <1>7, <2>3, <2>4 DEF ElectLeader
<1>8. CASE CommitNode
  <2>1. CommitmentOf(i) \in Word
    BY CommitOpens DEF CommitmentOf
  <2>2. /\ comm_values' = [comm_values EXCEPT ![i] = CommitmentOf(i)]
        /\ i \in Nodes /\ i' = i + 1 /\ i' \in 0 .. NumNodes
        /\ UNCHANGED <<pc, enclave, app, secret, lcg, hash, prfValue, leader_id>>
    BY <1>8 DEF CommitNode, CommitmentOf, Commit
  <2>3. TypeOK'
    BY <2>1, <2>2
  <2>4. ASSUME NEW n \in Nodes, n < i'
        PROVE  comm_values'[n] = CommitmentOf(n)'
    BY <1>8, <2>2, <2>4 DEF CommitNode, CommitmentOf, Commit
  <2> QED
    BY <1>8, <2>2, <2>3, <2>4 DEF CommitNode
<1>9. CASE ReturnCommitment
  BY <1>9 DEF ReturnCommitment, CommitmentOf, Commit
<1>10. CASE Decommit
  <2>1. res' \in Word
    BY <1>10, CommitOpens DEF Decommit
  <2> QED
    BY <1>10, <2>1 DEF Decommit, CommitmentOf, Commit
<1>11. CASE DestroyEnclave
  BY <1>11 DEF DestroyEnclave, CommitmentOf, Commit
<1>12. CASE UNCHANGED vars
  BY <1>12 DEF CommitmentOf, Commit
<1> QED
  BY <1>1, <1>2, <1>3, <1>4, <1>5, <1>6, <1>7, <1>8, <1>9, <1>10, <1>11, <1>12
  DEF Next, Step, Over

\* The invariant behind the others holds throughout.
THEOREM Invariance == Spec => []IInv
<1> QED
  BY InitIInv, StepIInv, PTL DEF Spec

\* Every variable stays in its type, whatever the calls of the enclave return.
THEOREM TypeCorrect == Spec => []TypeOK
<1>1. IInv => TypeOK
  BY DEF IInv
<1> QED
  BY <1>1, Invariance, PTL

-----------------------------------------------------------------------------
\* From the end of the loop on, a commitment opens to Win exactly for the node whose number
\* is the remainder.
LEMMA OpensExactly ==
    ASSUME IInv, Decided \/ (pc = "commit" /\ i = NumNodes)
    PROVE  /\ \A n \in Nodes : Opens(n) = IF n = leader_id THEN Win ELSE Lose
           /\ Winners = {n \in Nodes : n = leader_id}
<1>1. ASSUME NEW n \in Nodes
      PROVE  Opens(n) = IF n = leader_id THEN Win ELSE Lose
  <2>1. comm_values[n] = CommitmentOf(n)
    BY SizeAssumption DEF IInv, Nodes
  <2>2. prfValue \in Word
    BY DEF IInv, TypeOK
  <2> QED
    BY <2>1, <2>2, CommitOpens, Words DEF CommitmentOf, Opens
<1>2. Winners = {n \in Nodes : n = leader_id}
  BY <1>1, ValueAssumption DEF Winners
<1> QED
  BY <1>1, <1>2

\* No two nodes win, and no commitment opens to anything but Win or Lose.
THEOREM AtMostOneWinnerHolds == Spec => []AtMostOneWinner
<1>1. IInv => AtMostOneWinner
  BY OpensExactly DEF AtMostOneWinner, Decided
<1> QED
  BY <1>1, Invariance, PTL

\* The winner is the remainder of the truncated random value, if that is not
\* negative: a leader exists in no other case.
THEOREM WinnerIsRemainderHolds == Spec => []WinnerIsRemainder
<1>1. IInv => WinnerIsRemainder
  <2> SUFFICES ASSUME IInv, Decided
               PROVE  LET r == CRem(IntOf(prfValue), NumNodes)
                      IN  Winners = IF r < 0 THEN {} ELSE {r}
    BY DEF WinnerIsRemainder
  <2>1. Winners = {n \in Nodes : n = leader_id}
    BY OpensExactly DEF Decided
  <2>2. leader_id = CRem(IntOf(prfValue), NumNodes) /\ prfValue \in Word
    BY DEF IInv, TypeOK
  <2>3. leader_id \in Int /\ leader_id < NumNodes
    BY <2>2, IntOfInt, RemainderBelow, SizeAssumption
  <2> QED
    BY <2>1, <2>2, <2>3, SizeAssumption DEF Nodes
<1> QED
  BY <1>1, Invariance, PTL

\* The key and the commitment main is left with check the election: opening
\* the one with a fresh run of the generator from the other tells the winner.
THEOREM OutputVerifiableHolds == Spec => []OutputVerifiable
<1>1. IInv => OutputVerifiable
  <2> SUFFICES ASSUME IInv, Decided
               PROVE  Commit(output, Generator(prfkey, 0, Hash).out)
                        = IF 0 \in Winners THEN Win ELSE Lose
    BY DEF OutputVerifiable
  <2>1. Commit(output, Generator(prfkey, 0, Hash).out) = Opens(0)
    BY DEF IInv, Opens
  <2>2. /\ Opens(0) = IF 0 = leader_id THEN Win ELSE Lose
        /\ 0 \in Winners <=> 0 = leader_id
    BY OpensExactly, Words DEF Decided
  <2> QED
    BY <2>1, <2>2
<1> QED
  BY <1>1, Invariance, PTL

-----------------------------------------------------------------------------
\* The enclave phase implements the abstract election: the step that returns
\* from ecall_election decides it, a failure before that abandons it, and every
\* other step is a stutter.
THEOREM Refinement == Spec => Abstract!Safety
<1> USE DEF Abstract!Init, Abstract!Next, Abstract!Decide, Abstract!Abandon,
            Abstract!vars, Decided, Ended
<1>1. Init => Abstract!Init
  BY DEF Init
<1>2. IInv /\ IInv' /\ [Next]_vars => [Abstract!Next]_(Abstract!vars)
  <2> SUFFICES ASSUME IInv, IInv', [Next]_vars
               PROVE  [Abstract!Next]_(Abstract!vars)
    OBVIOUS
  <2>1. CASE ReturnCommitment
    <3>1. Winners = {n \in Nodes : n = leader_id}
      BY <2>1, OpensExactly DEF ReturnCommitment
    <3>2. Winners' = Winners
      BY <2>1 DEF ReturnCommitment, Winners, Opens, obj
    <3>3. Winners' \in {{}} \cup {{n} : n \in Nodes}
      BY <3>1, <3>2
    <3> QED
      BY <2>1, <3>3 DEF ReturnCommitment
  <2>2. CASE Decommit \/ DestroyEnclave \/ UNCHANGED vars
    <3>1. Winners' = Winners /\ Decided' = Decided
      BY <2>2 DEF Decommit, DestroyEnclave, Winners, Opens, obj, vars, Commit
    <3> QED
      BY <2>2, <3>1 DEF Decommit, DestroyEnclave, vars
  <2>3. CASE Launch \/ GetKey \/ GetKeyFails \/ KeyPair \/ ElectionFails
             \/ Initialize \/ ElectLeader \/ CommitNode
    BY <2>3 DEF Launch, GetKey, GetKeyFails, KeyPair, ElectionFails, Initialize,
                ElectLeader, CommitNode
  <2> QED
    BY <2>1, <2>2, <2>3 DEF Next, Step, Over
<1> QED
  BY <1>1, <1>2, Invariance, PTL DEF Spec, Abstract!Safety
-----------------------------------------------------------------------------
(* Induction and recursion over the natural numbers, stated with sets and  *)
(* functions instead of operators.                                         *)

\* Otherwise the segments up to the numbers outside have a smallest one.
LEMMA SetInduction ==
    ASSUME NEW S, 0 \in S, \A n \in Nat : n \in S => n + 1 \in S
    PROVE  Nat \subseteq S
<1> SUFFICES ASSUME NEW m \in Nat, m \notin S PROVE FALSE
  OBVIOUS
<1> DEFINE T == {0..n : n \in Nat \ S}
           R == StrictSubsetOrdering(Nat)
<1>1. T \subseteq FiniteSubsetsOf(Nat) /\ T # {}
  <2>1. \A n \in Nat : 0..n \in FiniteSubsetsOf(Nat)
    BY FS_Interval DEF FiniteSubsetsOf
  <2> QED BY <2>1
<1>2. PICK t \in T : \A y \in T : <<y, t>> \notin R
  <2> HIDE DEF T
  <2>1. IsWellFoundedOn(R, FiniteSubsetsOf(Nat))
    BY FS_StrictSubsetOrderingWellFounded
  <2> HIDE DEF R
  <2> QED BY <1>1, <2>1, WFMin
<1>3. PICK x \in Nat \ S : t = 0..x
  OBVIOUS
<1>4. x # 0 /\ x - 1 \in Nat
  OBVIOUS
<1>5. x - 1 \notin S
  BY <1>4
<1>6. 0..(x-1) \in T /\ 0..(x-1) \subseteq 0..x /\ 0..(x-1) # 0..x /\ 0..x \subseteq Nat
  BY <1>4, <1>5
<1>7. <<0..(x-1), 0..x>> \in R
  BY <1>6 DEF StrictSubsetOrdering
<1> QED BY <1>2, <1>3, <1>6, <1>7

\* The functions that step makes out of start, up to N.
Steps(X) == [Nat \X X -> X]
Runs(X, start, step, N) ==
    {f \in [0 .. N -> X] : /\ f[0] = start
                           /\ \A k \in 1 .. N : f[k] = step[<<k, f[k - 1]>>]}

\* A function that is defined step by step from its value at zero exists.
LEMMA PrimitiveRecursion ==
    ASSUME NEW X, NEW start, NEW step, NEW N,
           start \in X, step \in Steps(X), N \in Nat
    PROVE  \E f : f \in Runs(X, start, step, N)
<1> USE DEF Steps, Runs
<1> DEFINE Ok(f, n) == /\ f \in [0 .. n -> X] /\ f[0] = start
                       /\ \A k \in 1 .. n : f[k] = step[<<k, f[k - 1]>>]
           S == {n \in Nat : \E f : Ok(f, n)}
<1>1. 0 \in S
  <2>1. Ok([k \in 0 .. 0 |-> start], 0)
    OBVIOUS
  <2> QED BY <2>1
<1>2. ASSUME NEW n \in Nat, n \in S PROVE n + 1 \in S
  <2>1. PICK f : Ok(f, n)
    BY <1>2
  <2> DEFINE g == [k \in 0 .. n + 1 |-> IF k <= n THEN f[k] ELSE step[<<n + 1, f[n]>>]]
  <2>2. f[n] \in X /\ step[<<n + 1, f[n]>>] \in X
    BY <2>1
  <2>3. g \in [0 .. n + 1 -> X] /\ g[0] = start
    BY <2>1, <2>2
  <2>4. ASSUME NEW k \in 1 .. n + 1 PROVE g[k] = step[<<k, g[k - 1]>>]
    <3>1. CASE k <= n
      <4>1. k \in 1 .. n /\ k \in 0 .. n + 1 /\ k - 1 \in 0 .. n + 1 /\ k - 1 <= n
        BY <3>1
      <4>2. g[k] = f[k] /\ g[k - 1] = f[k - 1]
        BY <4>1
      <4> QED BY <2>1, <4>1, <4>2
    <3>2. CASE k = n + 1
      <4>1. g[k] = step[<<n + 1, f[n]>>] /\ g[k - 1] = f[n]
        BY <3>2
      <4> QED BY <3>2, <4>1
    <3> QED BY <3>1, <3>2
  <2>5. Ok(g, n + 1)
    BY <2>3, <2>4
  <2> HIDE DEF g, Ok
  <2>6. \E h : Ok(h, n + 1)
    BY <2>5
  <2> QED BY <2>6
<1>3. Nat \subseteq S
  <2> HIDE DEF S
  <2> QED BY <1>1, <1>2, SetInduction
<1> QED BY <1>3

-----------------------------------------------------------------------------
(* Powers of two, and the numbers that have an inverse modulo one. *)

\* The powers of two up to the w-th.
Powers(w) == {f \in [0 .. w -> Nat \ {0}] : f[0] = 1 /\ \A k \in 1 .. w : f[k] = 2 * f[k - 1]}

LEMMA Pow2Is ==
    ASSUME NEW w \in Nat
    PROVE  \E f \in Powers(w) : H!Pow2(w) = f[w]
<1> DEFINE X == Nat \ {0}
           step == [q \in Nat \X X |-> 2 * q[2]]
           Power(g) == g = [k \in 0 .. w |-> IF k = 0 THEN 1 ELSE 2 * g[k - 1]]
           power == CHOOSE g : Power(g)
<1>1. 1 \in X /\ step \in Steps(X)
  BY DEF Steps
<1>2. PICK f : f \in Runs(X, 1, step, w)
  <2> HIDE DEF X, step
  <2> QED BY <1>1, PrimitiveRecursion
<1>3. f \in [0 .. w -> X] /\ f[0] = 1 /\ \A k \in 1 .. w : f[k] = 2 * f[k - 1]
  <2>1. f \in [0 .. w -> X] /\ f[0] = 1 /\ \A k \in 1 .. w : f[k] = step[<<k, f[k - 1]>>]
    BY <1>2 DEF Runs
  <2>2. ASSUME NEW k \in 1 .. w PROVE step[<<k, f[k - 1]>>] = 2 * f[k - 1]
    <3>1. <<k, f[k - 1]>> \in Nat \X X
      BY <2>1
    <3> QED BY <3>1
  <2> QED BY <2>1, <2>2
<1>4. Power(f)
  <2>1. f = [k \in 0 .. w |-> f[k]]
    BY <1>3
  <2>2. \A k \in 0 .. w : f[k] = IF k = 0 THEN 1 ELSE 2 * f[k - 1]
    <3>1. \A k \in 0 .. w : k = 0 \/ k \in 1 .. w
      OBVIOUS
    <3> QED BY <1>3, <3>1
  <2> QED BY <2>1, <2>2
<1>5. Power(power)
  <2> HIDE DEF Power
  <2> QED BY <1>4
<1>6. \A k \in Nat : k <= w => power[k] = f[k]
  <2> DEFINE S == {k \in Nat : k <= w => power[k] = f[k]}
  <2> HIDE DEF power
  <2>1. 0 \in S
    BY <1>3, <1>5
  <2>2. ASSUME NEW k \in Nat, k \in S PROVE k + 1 \in S
    <3> SUFFICES ASSUME k + 1 <= w PROVE power[k + 1] = f[k + 1]
      OBVIOUS
    <3>1. power[k] = f[k] /\ k + 1 \in 1 .. w /\ k + 1 \in 0 .. w /\ k + 1 # 0 /\ (k + 1) - 1 = k
      BY <2>2
    <3>2. power[k + 1] = IF k + 1 = 0 THEN 1 ELSE 2 * power[(k + 1) - 1]
      BY ONLY <1>5, <3>1
    <3> QED BY <1>3, <3>1, <3>2
  <2>3. Nat \subseteq S
    <3> HIDE DEF S
    <3> QED BY <2>1, <2>2, SetInduction
  <2> QED BY <2>3
<1>7. H!Pow2(w) = power[w]
  BY DEF H!Pow2
<1> QED
  <2>1. power[w] = f[w]
    BY <1>6
  <2>2. f \in Powers(w)
    BY <1>3 DEF Powers
  <2> QED BY <1>7, <2>1, <2>2

LEMMA Pow2Type == ASSUME NEW w \in Nat PROVE H!Pow2(w) \in Nat \ {0}
<1>1. PICK f \in Powers(w) : H!Pow2(w) = f[w]
  BY Pow2Is
<1> QED BY <1>1 DEF Powers

\* An inverse modulo one power is corrected to one modulo the next.
LEMMA InverseModuloPower ==
    ASSUME NEW w \in Nat, NEW a \in Int, NEW n \in Int, a = 2 * n + 1, NEW f \in Powers(w)
    PROVE  \E b \in 0 .. (f[w] - 1), m \in Int : a * b = 1 + f[w] * m
<1> DEFINE InverseUpTo(k) == \E b \in Int, m \in Int : 0 <= b /\ b < f[k] /\ a * b = 1 + f[k] * m
           S == {k \in Nat : k <= w => InverseUpTo(k)}
<1>1. f \in [0 .. w -> Nat \ {0}] /\ f[0] = 1 /\ \A k \in 1 .. w : f[k] = 2 * f[k - 1]
  BY DEF Powers
<1>2. 0 \in S
  <2>1. a * 0 = 1 + f[0] * (-1) /\ 0 < f[0]
    BY <1>1
  <2> QED BY <2>1
<1>3. ASSUME NEW k \in Nat, k \in S PROVE k + 1 \in S
  <2> SUFFICES ASSUME k + 1 <= w PROVE InverseUpTo(k + 1)
    OBVIOUS
  <2> DEFINE p == f[k]
  <2>1. p \in Nat \ {0} /\ f[k + 1] = 2 * p
    BY <1>1
  <2>2. PICK b \in Int, m \in Int : 0 <= b /\ b < p /\ a * b = 1 + p * m
    BY <1>3
  <2> HIDE DEF p
  <2>3. CASE \E h \in Int : m = 2 * h
    <3>1. PICK h \in Int : m = 2 * h
      BY <2>3
    <3>2. a * b = 1 + (2 * p) * h
      BY <2>1, <2>2, <3>1
    <3> QED BY <2>1, <2>2, <3>2
  <2>4. CASE \E h \in Int : m = 2 * h + 1
    <3>1. PICK h \in Int : m = 2 * h + 1
      BY <2>4
    <3>2. a * p = 2 * (n * p) + p /\ n * p \in Int
      BY <2>1
    <3>3. p * m = 2 * (p * h) + p /\ p * h \in Int
      BY <2>1, <3>1
    <3>4. a * (b + p) = a * b + a * p /\ b + p \in Int
      BY <2>1, <2>2
    <3>5. (2 * p) * (h + n + 1) = 2 * (p * h) + 2 * (n * p) + 2 * p /\ h + n + 1 \in Int
      BY <2>1, <3>1
    <3>6. a * (b + p) = 1 + (2 * p) * (h + n + 1)
      BY <2>1, <2>2, <3>2, <3>3, <3>4, <3>5
    <3>7. 0 <= b + p /\ b + p < 2 * p
      BY <2>1, <2>2
    <3> QED BY <2>1, <3>4, <3>5, <3>6, <3>7
  <2>5. (\E h \in Int : m = 2 * h) \/ \E h \in Int : m = 2 * h + 1
    <3>1. m \div 2 \in Int /\ (m = 2 * (m \div 2) \/ m = 2 * (m \div 2) + 1)
      BY <2>2
    <3> QED BY <3>1
  <2> QED BY <2>3, <2>4, <2>5
<1>4. Nat \subseteq S
  <2> HIDE DEF S
  <2> QED BY <1>2, <1>3, SetInduction
<1>5. PICK b \in Int, m \in Int : 0 <= b /\ b < f[w] /\ a * b = 1 + f[w] * m
  BY <1>4
<1> QED
  <2>1. b \in 0 .. (f[w] - 1)
    BY <1>1, <1>5
  <2> QED BY <1>5, <2>1

-----------------------------------------------------------------------------
(* A round and its undoing. *)

LEMMA Division ==
    ASSUME NEW x \in Int, NEW m \in Nat \ {0}
    PROVE  x = m * (x \div m) + (x % m) /\ x \div m \in Int
  OBVIOUS

LEMMA RemainderUnique ==
    ASSUME NEW x \in Int, NEW q \in Int, NEW r \in Int, NEW m \in Nat \ {0},
           0 <= r, r < m, x = q * m + r
    PROVE  x % m = r
  OBVIOUS

LEMMA ModulusIs ==
    /\ H!Modulus \in Nat \ {0, 1} /\ H!Modulus = WordSize
    /\ \E n \in Nat : H!Modulus = 2 * n
<1>1. W \in Nat \ {0}
  BY WidthAssumption
<1>2. PICK f \in Powers(W) : H!Pow2(W) = f[W]
  BY <1>1, Pow2Is
<1>3. W \in 1 .. W /\ W - 1 \in 0 .. W
  BY <1>1
<1>4. f[W] = 2 * f[W - 1] /\ f[W - 1] \in Nat \ {0}
  BY <1>2, <1>3 DEF Powers
<1> QED BY <1>2, <1>4, GeneratorAssumption DEF H!Modulus

LEMMA WordsOfWidth == H!Word = Word /\ \A x \in Int : H!Trunc(x) \in Word
<1>1. \A x \in Int : x % H!Modulus \in 0 .. (H!Modulus - 1)
  BY ModulusIs
<1> QED BY <1>1, ModulusIs DEF H!Word, Word, H!Trunc

\* A word is a truncated number that differs from it by a multiple.
LEMMA TruncIs ==
    ASSUME NEW x \in Int
    PROVE  \E q \in Int : x = H!Modulus * q + H!Trunc(x)
<1>1. x = H!Modulus * (x \div H!Modulus) + (x % H!Modulus) /\ x \div H!Modulus \in Int
  <2>1. H!Modulus \in Nat \ {0}
    BY ModulusIs
  <2> QED BY <2>1, Division
<1> QED BY <1>1 DEF H!Trunc

LEMMA TruncUnique ==
    ASSUME NEW x \in Word, NEW q \in Int, NEW y \in Int, y = H!Modulus * q + x
    PROVE  H!Trunc(y) = x
<1> DEFINE m == H!Modulus
<1>1. m \in Nat \ {0} /\ x \in Int /\ 0 <= x /\ x < m
  BY ModulusIs DEF Word
<1>2. y = q * m + x
  BY <1>1
<1> HIDE DEF m
<1>3. y % m = x
  BY <1>1, <1>2, RemainderUnique
<1> QED BY <1>3 DEF H!Trunc, m

\* What is added is taken away again.
LEMMA SumUndone ==
    ASSUME NEW x \in Word, NEW c \in Int, NEW d \in Int
    PROVE  H!Trunc(H!Trunc(x + c + d) - c - d) = x
<1> DEFINE m == H!Modulus
           t == H!Trunc(x + c + d)
<1>1. x \in Int /\ x + c + d \in Int
  BY DEF Word
<1>2. t \in Int /\ m \in Int
  BY <1>1, WordsOfWidth, ModulusIs DEF Word
<1>3. PICK q \in Int : x + c + d = m * q + t
  BY <1>1, TruncIs
<1> HIDE DEF m, t
<1>4. t - c - d = m * (-q) + x /\ -q \in Int /\ t - c - d \in Int
  BY <1>1, <1>2, <1>3
<1> QED BY <1>4, TruncUnique DEF m, t

\* The factor of a round, truncated or not, is odd and can be divided by.
LEMMA FactorInvertible ==
    ASSUME NEW l \in Word
    PROVE  LET odd == H!Trunc(l * 2 + 1)
           IN  odd \in Word /\ H!OddInverse(odd) \in Word /\ H!Trunc(odd * H!OddInverse(odd)) = 1
<1> DEFINE odd == H!Trunc(l * 2 + 1)
           m == H!Modulus
<1>1. l \in Int /\ l * 2 + 1 \in Int
  BY DEF Word
<1>2. odd \in Word /\ odd \in Int
  BY <1>1, WordsOfWidth DEF Word
<1>3. PICK q \in Int : l * 2 + 1 = m * q + odd
  BY <1>1, TruncIs
<1>4. PICK h \in Nat : m = 2 * h
  BY ModulusIs
<1>5. odd = 2 * (l - h * q) + 1 /\ l - h * q \in Int
  <2> HIDE DEF odd, m
  <2>1. m * q = 2 * (h * q) /\ h * q \in Int
    BY <1>4
  <2> QED BY <1>1, <1>2, <1>3, <2>1
<1>6. W \in Nat
  BY WidthAssumption
<1>7. PICK f \in Powers(W) : H!Pow2(W) = f[W]
  BY <1>6, Pow2Is
<1>8. PICK b \in 0 .. (f[W] - 1), k \in Int : odd * b = 1 + f[W] * k
  <2> HIDE DEF odd
  <2> QED BY <1>2, <1>5, <1>6, InverseModuloPower
<1>9. f[W] = m /\ b \in Word /\ b \in Int /\ 1 \in Word
  BY <1>7, ModulusIs DEF H!Modulus, Word
<1>10. H!Trunc(odd * b) = 1
  <2> HIDE DEF odd, m
  <2>1. m \in Int
    BY ModulusIs DEF m
  <2>2. odd * b = m * k + 1 /\ odd * b \in Int
    BY <1>2, <1>8, <1>9, <2>1
  <2> QED BY <1>9, <2>2, TruncUnique DEF m
<1>11. b \in H!Word
  BY <1>9, WordsOfWidth
<1> HIDE DEF odd
<1>12. H!OddInverse(odd) \in H!Word /\ H!Trunc(odd * H!OddInverse(odd)) = 1
  BY <1>10, <1>11 DEF H!OddInverse
<1> QED BY <1>2, <1>12, WordsOfWidth DEF odd

LEMMA ProductUndone ==
    ASSUME NEW s \in Word, NEW l \in Word
    PROVE  H!Trunc(H!Trunc(s * (l * 2 + 1)) * H!OddInverse(H!Trunc(l * 2 + 1))) = s
<1> DEFINE m == H!Modulus
           n == l * 2 + 1
           odd == H!Trunc(n)
           inv == H!OddInverse(odd)
           t == H!Trunc(s * n)
<1>1. s \in Int /\ n \in Int /\ s * n \in Int /\ m \in Int
  BY ModulusIs DEF Word
<1>2. odd \in Int /\ inv \in Int /\ H!Trunc(odd * inv) = 1 /\ t \in Int
  BY <1>1, FactorInvertible, WordsOfWidth DEF Word
<1>3. PICK q1 \in Int : n = m * q1 + odd
  BY <1>1, TruncIs
<1>4. odd * inv \in Int
  <2> HIDE DEF odd, inv
  <2> QED BY <1>2
<1>5. PICK q2 \in Int : odd * inv = m * q2 + 1
  BY <1>2, <1>4, TruncIs
<1>6. PICK q3 \in Int : s * n = m * q3 + t
  BY <1>1, TruncIs
<1> HIDE DEF m, n, odd, inv, t
<1>7. t * inv = m * (s * q1 * inv + s * q2 - q3 * inv) + s
  <2>1. t * inv = (s * n) * inv - (m * q3) * inv
    BY <1>1, <1>2, <1>6
  <2>2. (s * n) * inv = s * (m * q1 * inv + odd * inv)
    BY <1>1, <1>2, <1>3
  <2>3. s * (m * q1 * inv + odd * inv) = s * m * q1 * inv + s * m * q2 + s
    BY <1>1, <1>2, <1>5
  <2>4. m * (s * q1 * inv + s * q2 - q3 * inv) = s * m * q1 * inv + s * m * q2 - (m * q3) * inv
    BY <1>1, <1>2
  <2>5. t * inv \in Int /\ (s * n) * inv \in Int /\ (m * q3) * inv \in Int /\ s * m * q1 * inv \in Int /\ s * m * q2 \in Int
    BY <1>1, <1>2
  <2> QED BY <1>1, <2>1, <2>2, <2>3, <2>4, <2>5
<1>8. s * q1 * inv + s * q2 - q3 * inv \in Int /\ t * inv \in Int
  BY <1>1, <1>2
<1>9. H!Trunc(t * inv) = s
  BY <1>7, <1>8, TruncUnique DEF m
<1> QED BY <1>9 DEF t, inv, odd, n

LEMMA SwapHalvesInt == ASSUME NEW x \in Word PROVE H!SwapHalves(x) \in Int
<1>1. W \div 2 \in Nat
  BY WidthAssumption
<1>2. H!Pow2(W \div 2) \in Nat \ {0}
  BY <1>1, Pow2Type
<1> QED BY <1>2 DEF H!SwapHalves, Word

\* Each of the three assignments of a round can be undone, in the reverse order.
LEMMA RoundUndone ==
    ASSUME NEW st \in H!State
    PROVE  LET r == H!Core(st)
           IN  /\ H!StateOf(r) \in H!State
               /\ H!UndoCore(H!StateOf(r)) = st
               /\ r = [seed |-> r.seed, lcg |-> r.lcg, hash |-> r.hash, out |-> r.out]
<1> DEFINE mixed == H!Trunc(st.seed * (st.lcg * 2 + 1))
           rs == H!SwapHalves(mixed)
           hash1 == H!Trunc(st.hash + rs + H!Tens)
           lcg1 == H!Trunc(st.lcg + mixed + H!Fives)
           r == H!Core(st)
<1>1. st.seed \in Word /\ st.lcg \in Word /\ st.hash \in Word /\ st = [seed |-> st.seed, lcg |-> st.lcg, hash |-> st.hash]
  BY WordsOfWidth DEF H!State
<1>2. mixed \in Word /\ mixed \in Int
  <2>1. st.seed * (st.lcg * 2 + 1) \in Int
    BY <1>1 DEF Word
  <2> QED BY <2>1, WordsOfWidth DEF Word
<1>3. rs \in Int /\ H!Tens \in Int /\ H!Fives \in Int
  BY <1>2, SwapHalvesInt, ModulusIs DEF H!Tens, H!Fives
<1>4. hash1 \in Word /\ lcg1 \in Word
  BY <1>1, <1>2, <1>3, WordsOfWidth DEF Word
<1>5. r = [seed |-> Xor(mixed, hash1), lcg |-> lcg1, hash |-> hash1, out |-> Xor(lcg1, rs)]
  BY DEF H!Core
<1> HIDE DEF r, hash1, lcg1
<1>6. Xor(mixed, hash1) \in Word /\ Xor(Xor(mixed, hash1), hash1) = mixed
  BY <1>2, <1>4, XorAssumption
<1>7. H!StateOf(r) = [seed |-> Xor(mixed, hash1), lcg |-> lcg1, hash |-> hash1]
  BY <1>5 DEF H!StateOf
<1>8. H!StateOf(r) \in H!State
  BY <1>4, <1>6, <1>7, WordsOfWidth DEF H!State
<1>9. H!Trunc(lcg1 - mixed - H!Fives) = st.lcg
  BY <1>1, <1>2, <1>3, SumUndone DEF lcg1
<1>10. H!Trunc(hash1 - rs - H!Tens) = st.hash
  BY <1>1, <1>3, SumUndone DEF hash1
<1>11. H!Trunc(mixed * H!OddInverse(H!Trunc(st.lcg * 2 + 1))) = st.seed
  BY <1>1, ProductUndone
<1> HIDE DEF mixed, rs
<1>12. H!UndoCore(H!StateOf(r)) = [seed |-> H!Trunc(mixed * H!OddInverse(H!Trunc(st.lcg * 2 + 1))),
                                   lcg |-> st.lcg, hash |-> H!Trunc(hash1 - rs - H!Tens)]
  BY <1>6, <1>7, <1>9 DEF H!UndoCore, rs
<1>13. H!UndoCore(H!StateOf(r)) = st
  BY <1>1, <1>10, <1>11, <1>12
<1> QED BY <1>5, <1>8, <1>13 DEF r

-----------------------------------------------------------------------------
(* Rounds in a row. *)

Start(st) == [seed |-> st.seed, lcg |-> st.lcg, hash |-> st.hash, out |-> 0]
Results == {H!Core(st) : st \in H!State} \cup {Start(st) : st \in H!State}

LEMMA ResultsHaveStates == \A r \in Results : H!StateOf(r) \in H!State
<1>1. ASSUME NEW st \in H!State PROVE H!StateOf(Start(st)) = st
  BY DEF H!State, H!StateOf, Start
<1> QED BY <1>1, RoundUndone DEF Results

LEMMA PrfIs ==
    ASSUME NEW st \in H!State
    PROVE  \E f \in [0 .. Rounds -> Results] :
             /\ f[0] = Start(st)
             /\ \A n \in 1 .. Rounds : f[n] = H!Core(H!StateOf(f[n - 1]))
             /\ H!Prf(st.seed, st.lcg, st.hash) = f[Rounds]
<1> DEFINE Round(r) == CHOOSE x \in {H!Core(H!StateOf(q)) : q \in {r}} : TRUE
           step == [q \in Nat \X Results |-> H!Core(H!StateOf(q[2]))]
           Run(g) == g = [n \in 0 .. Rounds |-> IF n = 0 THEN Start(st) ELSE Round(g[n - 1])]
           run == CHOOSE g : Run(g)
<1>1. \A r : Round(r) = H!Core(H!StateOf(r))
  OBVIOUS
<1>2. Rounds \in Nat /\ Start(st) \in Results /\ step \in Steps(Results)
  BY RoundsAssumption, ResultsHaveStates DEF Steps, Results
<1>3. PICK f : f \in Runs(Results, Start(st), step, Rounds)
  <2> HIDE DEF step
  <2> QED BY <1>2, PrimitiveRecursion
<1>4. f \in [0 .. Rounds -> Results] /\ f[0] = Start(st) /\ \A n \in 1 .. Rounds : f[n] = H!Core(H!StateOf(f[n - 1]))
  <2>1. f \in [0 .. Rounds -> Results] /\ f[0] = Start(st) /\ \A n \in 1 .. Rounds : f[n] = step[<<n, f[n - 1]>>]
    BY <1>3 DEF Runs
  <2>2. ASSUME NEW n \in 1 .. Rounds PROVE step[<<n, f[n - 1]>>] = H!Core(H!StateOf(f[n - 1]))
    <3>1. <<n, f[n - 1]>> \in Nat \X Results
      BY <1>2, <2>1
    <3> QED BY <3>1
  <2> QED BY <2>1, <2>2
<1> HIDE DEF Round
<1>5. Run(f)
  <2>1. f = [n \in 0 .. Rounds |-> f[n]]
    BY <1>4
  <2>2. \A n \in 0 .. Rounds : f[n] = IF n = 0 THEN Start(st) ELSE Round(f[n - 1])
    <3>1. \A n \in 0 .. Rounds : n = 0 \/ n \in 1 .. Rounds
      OBVIOUS
    <3> QED BY <1>1, <1>4, <3>1
  <2> QED BY <2>1, <2>2
<1>6. Run(run)
  <2> HIDE DEF Run
  <2> QED BY <1>5
<1>7. \A n \in Nat : n <= Rounds => run[n] = f[n]
  <2> DEFINE S == {n \in Nat : n <= Rounds => run[n] = f[n]}
  <2> HIDE DEF run
  <2>1. 0 \in S
    BY <1>2, <1>4, <1>6
  <2>2. ASSUME NEW n \in Nat, n \in S PROVE n + 1 \in S
    <3> SUFFICES ASSUME n + 1 <= Rounds PROVE run[n + 1] = f[n + 1]
      OBVIOUS
    <3>1. run[n] = f[n] /\ n + 1 \in 1 .. Rounds /\ n + 1 \in 0 .. Rounds /\ n + 1 # 0 /\ (n + 1) - 1 = n
      BY <1>2, <2>2
    <3>2. run[n + 1] = IF n + 1 = 0 THEN Start(st) ELSE Round(run[(n + 1) - 1])
      BY ONLY <1>6, <3>1
    <3> QED BY <1>1, <1>4, <3>1, <3>2
  <2>3. Nat \subseteq S
    <3> HIDE DEF S
    <3> QED BY <2>1, <2>2, SetInduction
  <2> QED BY <2>3
<1>8. H!Prf(st.seed, st.lcg, st.hash) = run[Rounds]
  BY DEF H!Prf, Start, Round
<1> QED
  <2>1. run[Rounds] = f[Rounds]
    BY <1>2, <1>7
  <2> QED BY <1>4, <1>8, <2>1

LEMMA UndoCoreType == \A st \in H!State : H!UndoCore(st) \in H!State
<1> SUFFICES ASSUME NEW st \in H!State PROVE H!UndoCore(st) \in H!State
  OBVIOUS
<1> DEFINE mixed == Xor(st.seed, st.hash)
           lcg1 == H!Trunc(st.lcg - mixed - H!Fives)
           inv == H!OddInverse(H!Trunc(lcg1 * 2 + 1))
           rs == H!SwapHalves(mixed)
<1>1. mixed \in Word /\ mixed \in Int /\ st.lcg \in Int /\ st.hash \in Int
  BY WordsOfWidth, XorAssumption DEF H!State, Word
<1>2. rs \in Int /\ H!Fives \in Int /\ H!Tens \in Int
  BY <1>1, SwapHalvesInt, ModulusIs DEF H!Fives, H!Tens
<1>3. lcg1 \in Word
  BY <1>1, <1>2, WordsOfWidth
<1> HIDE DEF lcg1
<1>4. inv \in Int
  BY <1>3, FactorInvertible DEF Word
<1> HIDE DEF mixed, inv, rs
<1>5. H!Trunc(mixed * inv) \in Word /\ H!Trunc(st.hash - rs - H!Tens) \in Word
  BY <1>1, <1>2, <1>4, WordsOfWidth
<1> QED BY <1>3, <1>5, WordsOfWidth DEF H!UndoCore, H!State, mixed, lcg1, inv, rs

LEMMA RewindIs ==
    ASSUME NEW st \in H!State
    PROVE  \E g \in [0 .. Rounds -> H!State] :
             /\ g[0] = st
             /\ \A k \in 1 .. Rounds : g[k] = H!UndoCore(g[k - 1])
             /\ H!Rewind(st) = g[Rounds]
<1> DEFINE step == [q \in Nat \X H!State |-> H!UndoCore(q[2])]
           Back(g) == g = [k \in 0 .. Rounds |-> IF k = 0 THEN st ELSE H!UndoCore(g[k - 1])]
           back == CHOOSE g : Back(g)
<1>1. Rounds \in Nat /\ step \in Steps(H!State)
  BY RoundsAssumption, UndoCoreType DEF Steps
<1>2. PICK g : g \in Runs(H!State, st, step, Rounds)
  <2> HIDE DEF step
  <2> QED BY <1>1, PrimitiveRecursion
<1>3. g \in [0 .. Rounds -> H!State] /\ g[0] = st /\ \A k \in 1 .. Rounds : g[k] = H!UndoCore(g[k - 1])
  <2>1. g \in [0 .. Rounds -> H!State] /\ g[0] = st /\ \A k \in 1 .. Rounds : g[k] = step[<<k, g[k - 1]>>]
    BY <1>2 DEF Runs
  <2>2. ASSUME NEW k \in 1 .. Rounds PROVE step[<<k, g[k - 1]>>] = H!UndoCore(g[k - 1])
    <3>1. <<k, g[k - 1]>> \in Nat \X H!State
      BY <1>1, <2>1
    <3> QED BY <3>1
  <2> QED BY <2>1, <2>2
<1>4. Back(g)
  <2>1. g = [k \in 0 .. Rounds |-> g[k]]
    BY <1>3
  <2>2. \A k \in 0 .. Rounds : g[k] = IF k = 0 THEN st ELSE H!UndoCore(g[k - 1])
    <3>1. \A k \in 0 .. Rounds : k = 0 \/ k \in 1 .. Rounds
      OBVIOUS
    <3> QED BY <1>3, <3>1
  <2> QED BY <2>1, <2>2
<1>5. Back(back)
  <2> HIDE DEF Back
  <2> QED BY <1>4
<1>6. \A k \in Nat : k <= Rounds => back[k] = g[k]
  <2> DEFINE S == {k \in Nat : k <= Rounds => back[k] = g[k]}
  <2> HIDE DEF back
  <2>1. 0 \in S
    BY <1>1, <1>3, <1>5
  <2>2. ASSUME NEW k \in Nat, k \in S PROVE k + 1 \in S
    <3> SUFFICES ASSUME k + 1 <= Rounds PROVE back[k + 1] = g[k + 1]
      OBVIOUS
    <3>1. back[k] = g[k] /\ k + 1 \in 1 .. Rounds /\ k + 1 \in 0 .. Rounds /\ k + 1 # 0 /\ (k + 1) - 1 = k
      BY <1>1, <2>2
    <3>2. back[k + 1] = IF k + 1 = 0 THEN st ELSE H!UndoCore(back[(k + 1) - 1])
      BY ONLY <1>5, <3>1
    <3> QED BY <1>3, <3>1, <3>2
  <2>3. Nat \subseteq S
    <3> HIDE DEF S
    <3> QED BY <2>1, <2>2, SetInduction
  <2> QED BY <2>3
<1>7. H!Rewind(st) = back[Rounds]
  BY DEF H!Rewind
<1> QED
  <2>1. back[Rounds] = g[Rounds]
    BY <1>1, <1>6
  <2> QED BY <1>3, <1>7, <2>1

\* A call of prf, of any number of rounds on words of any width, can be undone.
LEMMA PrfUndone ==
    ASSUME NEW st \in H!State
    PROVE  LET r == H!Prf(st.seed, st.lcg, st.hash)
           IN  H!Rewind(H!StateOf(r)) = st
<1>1. PICK f \in [0 .. Rounds -> Results] :
        /\ f[0] = Start(st)
        /\ \A n \in 1 .. Rounds : f[n] = H!Core(H!StateOf(f[n - 1]))
        /\ H!Prf(st.seed, st.lcg, st.hash) = f[Rounds]
  BY PrfIs
<1>2. Rounds \in Nat /\ f[Rounds] \in Results
  BY <1>1, RoundsAssumption
<1>3. PICK g \in [0 .. Rounds -> H!State] :
        /\ g[0] = H!StateOf(f[Rounds])
        /\ \A k \in 1 .. Rounds : g[k] = H!UndoCore(g[k - 1])
        /\ H!Rewind(H!StateOf(f[Rounds])) = g[Rounds]
  BY <1>2, ResultsHaveStates, RewindIs
<1>4. \A k \in Nat : k <= Rounds => g[k] = H!StateOf(f[Rounds - k])
  <2> DEFINE S == {k \in Nat : k <= Rounds => g[k] = H!StateOf(f[Rounds - k])}
  <2>1. 0 \in S
    BY <1>2, <1>3
  <2>2. ASSUME NEW k \in Nat, k \in S PROVE k + 1 \in S
    <3> SUFFICES ASSUME k + 1 <= Rounds PROVE g[k + 1] = H!StateOf(f[Rounds - (k + 1)])
      OBVIOUS
    <3> DEFINE n == Rounds - k
    <3>1. /\ k + 1 \in 1 .. Rounds /\ (k + 1) - 1 = k /\ g[k] = H!StateOf(f[n])
          /\ n \in 1 .. Rounds /\ n - 1 \in 0 .. Rounds /\ n - 1 = Rounds - (k + 1)
      BY <1>2, <2>2
    <3> HIDE DEF n
    <3>2. g[k + 1] = H!UndoCore(g[k])
      BY <1>3, <3>1
    <3>3. f[n] = H!Core(H!StateOf(f[n - 1])) /\ H!StateOf(f[n - 1]) \in H!State
      BY <1>1, <3>1, ResultsHaveStates
    <3>4. H!UndoCore(H!StateOf(f[n])) = H!StateOf(f[n - 1])
      BY <3>3, RoundUndone
    <3> QED BY <3>1, <3>2, <3>4
  <2>3. Nat \subseteq S
    <3> HIDE DEF S
    <3> QED BY <2>1, <2>2, SetInduction
  <2> QED BY <2>3
<1>5. g[Rounds] = H!StateOf(f[0])
  BY <1>2, <1>4
<1>6. H!StateOf(Start(st)) = st
  BY DEF H!State, H!StateOf, Start
<1> QED BY <1>1, <1>3, <1>5, <1>6

\* What the election does with the state of the generator.
FromKey ==
    pc = "commit" \/ Decided =>
        [seed |-> secret, lcg |-> lcg, hash |-> hash] = H!StateOf(Generator(prfkey, 0, Hash))

LEMMA StepFromKey == IInv /\ FromKey /\ [Next]_vars => FromKey'
<1> SUFFICES ASSUME IInv, FromKey, [Next]_vars PROVE FromKey'
  OBVIOUS
<1> USE DEF FromKey, Decided, app, obj
<1>1. CASE Launch \/ GetKey \/ GetKeyFails \/ KeyPair \/ ElectionFails \/ Initialize
  BY <1>1 DEF Launch, GetKey, GetKeyFails, KeyPair, ElectionFails, Initialize
<1>2. CASE ElectLeader
  BY <1>2 DEF ElectLeader, IInv, H!StateOf
<1>3. CASE CommitNode
  BY <1>3 DEF CommitNode
<1>4. CASE ReturnCommitment \/ Decommit \/ DestroyEnclave
  BY <1>4 DEF ReturnCommitment, Decommit, DestroyEnclave
<1>5. CASE UNCHANGED vars
  BY <1>5 DEF vars
<1> QED BY <1>1, <1>2, <1>3, <1>4, <1>5 DEF Next, Step, Over

\* The key can be computed from the state the generator leaves, for words of any
\* width, any number of rounds and any constants: no two keys give the same state.
THEOREM KeyRecoverableHolds == Spec => []KeyRecoverable
<1>1. Init => FromKey
  BY DEF Init, FromKey, Decided
<1>2. IInv /\ FromKey => KeyRecoverable
  <2> SUFFICES ASSUME IInv, FromKey, pc \in {"commit", "decommit"}
               PROVE  H!Rewind([seed |-> secret, lcg |-> lcg, hash |-> hash])
                        = [seed |-> prfkey, lcg |-> 0, hash |-> Hash]
    BY DEF KeyRecoverable
  <2> DEFINE st == [seed |-> prfkey, lcg |-> 0, hash |-> Hash]
  <2>1. prfkey \in Word /\ 0 \in Word /\ Hash \in Word
    BY Words DEF IInv, TypeOK
  <2>2. st \in H!State
    BY <2>1, WordsOfWidth DEF H!State
  <2>3. Generator(prfkey, 0, Hash) = H!Prf(st.seed, st.lcg, st.hash)
    BY <2>1, GeneratorAssumption
  <2>4. H!Rewind(H!StateOf(H!Prf(st.seed, st.lcg, st.hash))) = st
    <3> HIDE DEF st
    <3> QED BY <2>2, PrfUndone
  <2>5. [seed |-> secret, lcg |-> lcg, hash |-> hash] = H!StateOf(Generator(prfkey, 0, Hash))
    BY DEF FromKey, Decided
  <2> QED BY <2>3, <2>4, <2>5
<1> QED BY <1>1, <1>2, StepFromKey, Invariance, PTL DEF Spec
=============================================================================
