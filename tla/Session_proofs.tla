--------------------------- MODULE Session_proofs ---------------------------
(***************************************************************************)
(* What the steps both programs share keep, for any set of participants,   *)
(* any ports, any buffer length, any cut of the streams and any leftovers  *)
(* in the buffers.  SGXSession_proofs and NonSGXSession_proofs build on it.*)
(***************************************************************************)
EXTENDS Session, FiniteSetTheorems, SequenceTheorems, TLAPS

\* The leader has not got to its first send.
Unserved ==
    pc[Leader] \in {"elect", "socket", "listen", "accept", "recv_reg", "register",
                    "send_key"}

\* Where a participant is before its first recv has returned.
Before == {"socket", "connect", "send_reg", "recv_key"}

\* Nobody gets past its first recv before the leader has sent something or is
\* gone: there is nothing to read, and the other end is open.
NothingSent ==
    Unserved =>
        \A p \in Participants :
            /\ wire[<<Leader, p>>] = <<>>
            /\ pc[p] \in Before \cup Gone
            /\ pc[p] \in {"send_reg", "recv_key"} => open[<<Leader, p>>]

\* The first thing the leader reads from anybody is the address it has sent.
AddressFirst ==
    /\ \A p \in Participants :
           pc[p] \in {"socket", "connect", "send_reg"} => wire[<<p, Leader>>] = <<>>
    /\ pc[Leader] \in {"elect", "socket", "listen", "accept", "recv_reg"} =>
           /\ messages[Leader] = <<>>
           /\ \A p \in Participants : wire[<<p, Leader>>] \in {<<>>, RegMsg(p)}

\* The message of an address that has arrived whole begins with that address.
AddressIsRead ==
    /\ pc[Leader] \in {"recv_reg", "register", "send_key"} => conn \in Participants
    /\ pc[Leader] = "register" /\ ret[Leader] = Len(RegMsg(conn)) =>
           IsPrefix(RegMsg(conn), FirstMessage(Leader))

NobodyRegistered ==
    Unserved /\ pc[Leader] # "send_key" => nodes = <<>>

Addresses ==
    AddressFirst /\ AddressIsRead /\ NobodyRegistered /\ RegisteredStartsRight

-----------------------------------------------------------------------------
(* Induction and recursion over the natural numbers, stated with sets and  *)
(* functions instead of operators.                                         *)

\* Otherwise the segments up to the numbers outside have a smallest one.
LEMMA SetInduction ==
    ASSUME NEW S, 0 \in S, \A n \in Nat : n \in S => n + 1 \in S
    PROVE  Nat \subseteq S
<1> SUFFICES ASSUME NEW m \in Nat, m \notin S PROVE FALSE
  OBVIOUS
<1> DEFINE T == {0..n : n \in Nat \ S}
           R == StrictSubsetOrdering(Nat)
<1>1. T \subseteq FiniteSubsetsOf(Nat) /\ T # {}
  <2>1. \A n \in Nat : 0..n \in FiniteSubsetsOf(Nat)
    BY FS_Interval DEF FiniteSubsetsOf
  <2> QED BY <2>1
<1>2. PICK t \in T : \A y \in T : <<y, t>> \notin R
  <2> HIDE DEF T
  <2>1. IsWellFoundedOn(R, FiniteSubsetsOf(Nat))
    BY FS_StrictSubsetOrderingWellFounded
  <2> HIDE DEF R
  <2> QED BY <1>1, <2>1, WFMin
<1>3. PICK x \in Nat \ S : t = 0..x
  OBVIOUS
<1>4. x # 0 /\ x - 1 \in Nat
  OBVIOUS
<1>5. x - 1 \notin S
  BY <1>4
<1>6. 0..(x-1) \in T /\ 0..(x-1) \subseteq 0..x /\ 0..(x-1) # 0..x /\ 0..x \subseteq Nat
  BY <1>4, <1>5
<1>7. <<0..(x-1), 0..x>> \in R
  BY <1>6 DEF StrictSubsetOrdering
<1> QED BY <1>2, <1>3, <1>6, <1>7

\* The functions that step makes out of start, up to N.
Steps(X) == [Nat \X X -> X]
Runs(X, start, step, N) ==
    {f \in [0 .. N -> X] : /\ f[0] = start
                           /\ \A i \in 1 .. N : f[i] = step[<<i, f[i - 1]>>]}

\* A function that is defined step by step from its value at zero exists.
LEMMA PrimitiveRecursion ==
    ASSUME NEW X, NEW start, NEW step, NEW N,
           start \in X, step \in Steps(X), N \in Nat
    PROVE  \E f : f \in Runs(X, start, step, N)
<1> USE DEF Steps, Runs
<1> DEFINE Ok(f, n) == /\ f \in [0 .. n -> X] /\ f[0] = start
                       /\ \A i \in 1 .. n : f[i] = step[<<i, f[i - 1]>>]
           S == {n \in Nat : \E f : Ok(f, n)}
<1>1. 0 \in S
  <2>1. Ok([i \in 0 .. 0 |-> start], 0)
    OBVIOUS
  <2> QED BY <2>1
<1>2. ASSUME NEW n \in Nat, n \in S PROVE n + 1 \in S
  <2>1. PICK f : Ok(f, n)
    BY <1>2
  <2> DEFINE g == [i \in 0 .. n + 1 |-> IF i <= n THEN f[i] ELSE step[<<n + 1, f[n]>>]]
  <2>2. f[n] \in X /\ step[<<n + 1, f[n]>>] \in X
    BY <2>1
  <2>3. g \in [0 .. n + 1 -> X] /\ g[0] = start
    BY <2>1, <2>2
  <2>4. ASSUME NEW i \in 1 .. n + 1 PROVE g[i] = step[<<i, g[i - 1]>>]
    <3>1. CASE i <= n
      <4>1. i \in 1 .. n /\ i \in 0 .. n + 1 /\ i - 1 \in 0 .. n + 1 /\ i - 1 <= n
        BY <3>1
      <4>2. g[i] = f[i] /\ g[i - 1] = f[i - 1]
        BY <4>1
      <4> QED BY <2>1, <4>1, <4>2
    <3>2. CASE i = n + 1
      <4>1. g[i] = step[<<n + 1, f[n]>>] /\ g[i - 1] = f[n]
        BY <3>2
      <4> QED BY <3>2, <4>1
    <3> QED BY <3>1, <3>2
  <2>5. Ok(g, n + 1)
    BY <2>3, <2>4
  <2> HIDE DEF g, Ok
  <2>6. \E h : Ok(h, n + 1)
    BY <2>5
  <2> QED BY <2>6
<1>3. Nat \subseteq S
  <2> HIDE DEF S
  <2> QED BY <1>1, <1>2, SetInduction
<1> QED BY <1>3

-----------------------------------------------------------------------------
(* The removal of control characters. *)

\* What the removal has kept of the first i bytes.
LEMMA CleanIs ==
    ASSUME NEW msg \in Bytes
    PROVE  \E f \in [0 .. Len(msg) -> Bytes] :
               /\ f[0] = <<>>
               /\ \A i \in 1 .. Len(msg) :
                      f[i] = IF msg[i] = "ctl" THEN f[i - 1]
                             ELSE Append(f[i - 1], msg[i])
               /\ Clean(msg) = f[Len(msg)]
<1> DEFINE L == Len(msg)
           step == [q \in Nat \X Bytes |->
                      IF q[1] \in 1 .. L /\ msg[q[1]] # "ctl"
                      THEN Append(q[2], msg[q[1]]) ELSE q[2]]
           Kept(g) == g = [i \in 0 .. L |->
                             IF i = 0 THEN <<>>
                             ELSE IF msg[i] = "ctl" THEN g[i - 1]
                             ELSE Append(g[i - 1], msg[i])]
           kept == CHOOSE g : Kept(g)
<1>1. L \in Nat /\ \A i \in 1 .. L : msg[i] \in Byte
  BY DEF Bytes
<1>2. <<>> \in Bytes /\ step \in [Nat \X Bytes -> Bytes]
  <2>1. \A s \in Bytes, b \in Byte : Append(s, b) \in Bytes
    BY DEF Bytes
  <2>2. <<>> \in Bytes
    BY DEF Bytes
  <2> HIDE DEF L
  <2> QED BY <1>1, <2>1, <2>2
<1>3. PICK f \in [0 .. L -> Bytes] :
          f[0] = <<>> /\ \A i \in 1 .. L : f[i] = step[<<i, f[i - 1]>>]
  <2>1. L \in Nat /\ <<>> \in Bytes /\ step \in Steps(Bytes)
    BY <1>1, <1>2 DEF Steps
  <2> HIDE DEF step, L
  <2>2. PICK f : f \in Runs(Bytes, <<>>, step, L)
    BY <2>1, PrimitiveRecursion
  <2> QED BY <2>2 DEF Runs
<1>4. \A i \in 1 .. L : f[i] = IF msg[i] = "ctl" THEN f[i - 1]
                               ELSE Append(f[i - 1], msg[i])
  <2> SUFFICES ASSUME NEW i \in 1 .. L
               PROVE  f[i] = IF msg[i] = "ctl" THEN f[i - 1]
                             ELSE Append(f[i - 1], msg[i])
    OBVIOUS
  <2> HIDE DEF L
  <2>1. i \in Nat /\ f[i - 1] \in Bytes
    BY <1>1, <1>3
  <2>2. step[<<i, f[i - 1]>>] = IF msg[i] # "ctl" THEN Append(f[i - 1], msg[i])
                                ELSE f[i - 1]
    BY <2>1
  <2> HIDE DEF step
  <2> QED BY <1>3, <2>2
<1>5. Kept(f)
  <2> HIDE DEF L
  <2>1. f = [i \in 0 .. L |-> f[i]]
    OBVIOUS
  <2>2. \A i \in 0 .. L : f[i] = IF i = 0 THEN <<>>
                                 ELSE IF msg[i] = "ctl" THEN f[i - 1]
                                 ELSE Append(f[i - 1], msg[i])
    <3>1. \A i \in 0 .. L : i = 0 \/ i \in 1 .. L
      BY <1>1
    <3>2. \A i \in 1 .. L : i # 0
      OBVIOUS
    <3> QED BY <1>3, <1>4, <3>1, <3>2
  <2> QED BY <2>1, <2>2
<1>6. Kept(kept)
  <2> HIDE DEF Kept
  <2> QED BY <1>5
<1>7. \A i \in Nat : i <= L => kept[i] = f[i]
  <2> DEFINE S == {i \in Nat : i <= L => kept[i] = f[i]}
  <2> HIDE DEF kept, L
  <2>1. 0 \in S
    BY <1>1, <1>3, <1>6
  <2>2. \A i \in Nat : i \in S => i + 1 \in S
    <3> SUFFICES ASSUME NEW i \in Nat, i \in S, i + 1 <= L PROVE kept[i + 1] = f[i + 1]
      OBVIOUS
    <3>1. kept[i] = f[i] /\ i + 1 \in 1 .. L /\ (i + 1) - 1 = i /\ i + 1 # 0
      BY <1>1
    <3>2. kept = [j \in 0 .. L |->
                     IF j = 0 THEN <<>>
                     ELSE IF msg[j] = "ctl" THEN kept[j - 1]
                     ELSE Append(kept[j - 1], msg[j])]
      BY <1>6
    <3>3. i + 1 \in 0 .. L
      BY <1>1, <3>1
    <3>4. kept[i + 1] = IF i + 1 = 0 THEN <<>>
                        ELSE IF msg[i + 1] = "ctl" THEN kept[(i + 1) - 1]
                        ELSE Append(kept[(i + 1) - 1], msg[i + 1])
      BY ONLY <3>2, <3>3
    <3> HIDE DEF Kept
    <3> QED BY <1>4, <3>1, <3>4
  <2>3. Nat \subseteq S
    <3> HIDE DEF S
    <3> QED BY <2>1, <2>2, SetInduction
  <2> QED BY <2>3
<1>8. Clean(msg) = kept[L]
  BY DEF Clean
<1> QED
  <2> HIDE DEF kept
  <2> QED BY <1>1, <1>3, <1>4, <1>7, <1>8

\* A prefix, byte by byte.
LEMMA PrefixIs ==
    ASSUME NEW s \in Bytes, NEW t \in Bytes
    PROVE  IsPrefix(s, t) <=> /\ Len(s) <= Len(t)
                              /\ \A j \in 1 .. Len(s) : t[j] = s[j]
<1> USE DEF Bytes
<1>1. ASSUME Len(s) <= Len(t)
      PROVE  SubSeq(s, 1, Len(s)) = SubSeq(t, 1, Len(s))
                 <=> \A j \in 1 .. Len(s) : t[j] = s[j]
  <2>1. SubSeq(s, 1, Len(s)) = s
    OBVIOUS
  <2>2. /\ SubSeq(t, 1, Len(s)) \in Bytes
        /\ Len(SubSeq(t, 1, Len(s))) = Len(s)
        /\ \A j \in 1 .. Len(s) : SubSeq(t, 1, Len(s))[j] = t[j]
    BY <1>1
  <2>3. SubSeq(t, 1, Len(s)) = s <=> \A j \in 1 .. Len(s) : SubSeq(t, 1, Len(s))[j] = s[j]
    BY <2>2, SeqEqual
  <2> QED BY <2>1, <2>2, <2>3
<1> QED BY <1>1 DEF IsPrefix

LEMMA CleanType == ASSUME NEW msg \in Bytes PROVE Clean(msg) \in Bytes
<1>1. Len(msg) \in 0 .. Len(msg)
  BY DEF Bytes
<1> QED BY <1>1, CleanIs

\* The removal touches nothing of a text without control characters, whatever
\* follows it.
LEMMA CleanKeepsPrefix ==
    ASSUME NEW s \in Seq(Byte \ {"ctl"}), NEW t \in Bytes
    PROVE  IsPrefix(s, Clean(s \o t))
<1> DEFINE msg == s \o t
           L == Len(msg)
<1>1. /\ msg \in Bytes /\ s \in Bytes /\ L \in Nat /\ Len(s) \in Nat /\ Len(s) <= L
      /\ \A j \in 1 .. Len(s) : msg[j] = s[j] /\ s[j] # "ctl"
  BY DEF Bytes
<1> HIDE DEF msg
<1>2. PICK f \in [0 .. L -> Bytes] :
          /\ f[0] = <<>>
          /\ \A i \in 1 .. L : f[i] = IF msg[i] = "ctl" THEN f[i - 1]
                                      ELSE Append(f[i - 1], msg[i])
          /\ Clean(msg) = f[L]
  BY <1>1, CleanIs
<1> HIDE DEF L
<1> DEFINE Kept(i) == /\ i <= Len(s) => Len(f[i]) = i
                      /\ i >= Len(s) => Len(f[i]) >= Len(s)
                      /\ \A j \in 1 .. Len(s) : j <= i => f[i][j] = s[j]
           S == {i \in Nat : i <= L => Kept(i)}
<1>3. 0 \in S
  BY <1>1, <1>2
<1>4. ASSUME NEW i \in Nat, i \in S, i + 1 <= L PROVE Kept(i + 1)
  <2>1. /\ i + 1 \in 1 .. L /\ (i + 1) - 1 = i /\ i \in 0 .. L
        /\ Kept(i) /\ f[i] \in Bytes /\ f[i + 1] \in Bytes
    BY <1>1, <1>2, <1>4
  <2>2. f[i + 1] = IF msg[i + 1] = "ctl" THEN f[i] ELSE Append(f[i], msg[i + 1])
    BY <1>2, <2>1
  <2>3. CASE i + 1 <= Len(s)
    <3>1. i + 1 \in 1 .. Len(s) /\ msg[i + 1] = s[i + 1] /\ msg[i + 1] # "ctl"
      BY <1>1, <2>3
    <3>2. f[i + 1] = Append(f[i], s[i + 1]) /\ Len(f[i]) = i
      BY <2>1, <2>2, <2>3, <3>1, <1>1
    <3>3. /\ Len(f[i + 1]) = i + 1 /\ f[i + 1][i + 1] = s[i + 1]
          /\ \A j \in 1 .. i : f[i + 1][j] = f[i][j]
      BY <2>1, <3>2 DEF Bytes
    <3>4. \A j \in 1 .. Len(s) : j <= i + 1 => j \in 1 .. i \/ j = i + 1
      BY <1>1
    <3> QED BY <2>1, <2>3, <3>3, <3>4, <1>1
  <2>4. CASE i >= Len(s)
    <3>1. Len(f[i]) \in Nat /\ Len(f[i]) >= Len(s)
      BY <2>1, <2>4 DEF Bytes
    <3>2. Len(f[i + 1]) >= Len(f[i]) /\ \A j \in 1 .. Len(f[i]) : f[i + 1][j] = f[i][j]
      BY <2>1, <2>2 DEF Bytes
    <3>3. \A j \in 1 .. Len(s) : j \in 1 .. Len(f[i]) /\ j <= i
      BY <1>1, <2>4, <3>1
    <3>4. Len(f[i + 1]) \in Nat
      BY <2>1 DEF Bytes
    <3> QED BY <1>1, <2>1, <2>4, <3>1, <3>2, <3>3, <3>4
  <2> QED BY <1>1, <2>3, <2>4
<1>5. Nat \subseteq S
  <2>1. \A i \in Nat : i \in S => i + 1 \in S
    BY <1>4
  <2> HIDE DEF S
  <2> QED BY <1>3, <2>1, SetInduction
<1>6. Kept(L)
  <2> HIDE DEF Kept
  <2> QED BY <1>1, <1>5
<1>7. f[L] \in Bytes /\ Len(f[L]) \in Nat
  BY <1>1, <1>2 DEF Bytes
<1>8. Len(f[L]) >= Len(s) /\ \A j \in 1 .. Len(s) : f[L][j] = s[j]
  BY <1>1, <1>6
<1>9. IsPrefix(s, f[L])
  BY <1>1, <1>7, <1>8, PrefixIs
<1> QED BY <1>2, <1>9 DEF msg

-----------------------------------------------------------------------------
(* The fields of an address. *)

\* A set of numbers has a smallest one, and a bounded one a largest one.
LEMMA SmallestExists ==
    ASSUME NEW T \in SUBSET Nat, T # {}
    PROVE  \E k \in T : \A m \in T : k <= m
<1> SUFFICES ASSUME \A k \in T : \E m \in T : m < k PROVE FALSE
  OBVIOUS
<1> DEFINE S == {n \in Nat : \A k \in 0 .. n : k \notin T}
<1>1. 0 \in S
  <2>1. \A m \in T : ~(m < 0)
    OBVIOUS
  <2> QED BY <2>1
<1>2. ASSUME NEW n \in Nat, n \in S PROVE n + 1 \in S
  <2>1. \A k \in 0 .. n + 1 : k \in 0 .. n \/ k = n + 1
    OBVIOUS
  <2>2. \A m \in Nat : m < n + 1 => m \in 0 .. n
    OBVIOUS
  <2> QED BY <1>2, <2>1, <2>2
<1>3. Nat \subseteq S
  <2> HIDE DEF S
  <2> QED BY <1>1, <1>2, SetInduction
<1>4. PICK k \in T : k \in S
  BY <1>3
<1>5. k \in 0 .. k
  OBVIOUS
<1> QED BY <1>4, <1>5

LEMMA LargestExists ==
    ASSUME NEW N \in Nat, NEW T \in SUBSET (0 .. N), T # {}
    PROVE  \E k \in T : \A m \in T : m <= k
<1> DEFINE U == {N - k : k \in T}
<1>1. U \in SUBSET Nat /\ U # {}
  <2>1. \A k \in T : N - k \in Nat
    OBVIOUS
  <2> QED BY <2>1
<1>2. PICK u \in U : \A v \in U : u <= v
  <2> HIDE DEF U
  <2> QED BY <1>1, SmallestExists
<1>3. PICK k \in T : u = N - k
  OBVIOUS
<1> QED BY <1>2, <1>3

\* atoi keeps the digits a text starts with.
LEMMA AtoiIs ==
    ASSUME NEW text \in Bytes
    PROVE  /\ Atoi(text) \in Bytes
           /\ \A s \in Seq(Digits) : IsPrefix(s, text) => IsPrefix(s, Atoi(text))
<1> DEFINE lengths == {n \in 0 .. Len(text) : \A k \in 1 .. n : text[k] \in Digits}
           most == CHOOSE n \in lengths : \A m \in lengths : m <= n
<1>1. Len(text) \in Nat /\ 0 \in lengths /\ lengths \in SUBSET (0 .. Len(text))
  BY DEF Bytes
<1>2. most \in lengths /\ \A m \in lengths : m <= most
  <2> HIDE DEF lengths
  <2>1. \E n \in lengths : \A m \in lengths : m <= n
    BY <1>1, LargestExists
  <2> QED BY <2>1
<1>3. Atoi(text) = SubSeq(text, 1, most)
  BY DEF Atoi
<1>4. most \in 0 .. Len(text)
  BY <1>2
<1> HIDE DEF most
<1>5. /\ Atoi(text) \in Bytes /\ Len(Atoi(text)) = most
      /\ \A i \in 1 .. most : Atoi(text)[i] = text[i]
  BY <1>1, <1>3, <1>4 DEF Bytes
<1>6. ASSUME NEW s \in Seq(Digits), IsPrefix(s, text) PROVE IsPrefix(s, Atoi(text))
  <2>1. s \in Bytes /\ Len(s) \in Nat /\ \A i \in 1 .. Len(s) : s[i] \in Digits
    BY DEF Bytes, Byte
  <2>2. Len(s) <= Len(text) /\ \A i \in 1 .. Len(s) : text[i] = s[i]
    BY <1>6, <2>1, PrefixIs
  <2>3. Len(s) \in lengths
    BY <2>1, <2>2, <1>1
  <2>4. Len(s) <= most
    <3> HIDE DEF lengths
    <3> QED BY <2>3, <1>2
  <2>5. \A i \in 1 .. Len(s) : Atoi(text)[i] = s[i]
    BY <1>4, <1>5, <2>1, <2>2, <2>4
  <2> QED BY <1>5, <2>1, <2>4, <2>5, PrefixIs
<1> QED BY <1>5, <1>6

LEMMA DelimiterIs ==
    ASSUME NEW text \in Bytes, NEW from \in Nat \ {0}
    PROVE  /\ Delimiter(text, from) \in Nat
           /\ \A k \in from .. Len(text) : k < Delimiter(text, from) => text[k] # ":"
           /\ \/ /\ Delimiter(text, from) \in from .. Len(text)
                 /\ text[Delimiter(text, from)] = ":"
              \/ Delimiter(text, from) = Len(text) + 1
<1> DEFINE places == {k \in from .. Len(text) : text[k] = ":"}
<1>1. Len(text) \in Nat /\ places \in SUBSET Nat
  BY DEF Bytes
<1>2. CASE places = {}
  <2>1. Delimiter(text, from) = Len(text) + 1
    BY <1>2 DEF Delimiter
  <2> QED BY <1>1, <1>2, <2>1
<1>3. CASE places # {}
  <2> DEFINE least == CHOOSE k \in places : \A m \in places : k <= m
  <2>1. least \in places /\ \A m \in places : least <= m
    <3> HIDE DEF places
    <3>1. \E k \in places : \A m \in places : k <= m
      BY <1>1, <1>3, SmallestExists
    <3> QED BY <3>1
  <2>2. Delimiter(text, from) = least
    BY <1>3 DEF Delimiter
  <2>3. Delimiter(text, from) \in places
        /\ \A m \in places : Delimiter(text, from) <= m
    BY <2>1, <2>2
  <2> HIDE DEF least
  <2> QED BY <1>1, <2>3
<1> QED BY <1>2, <1>3

\* One field, and two.
LEMMA OneIs == ASSUME NEW S, NEW a \in S
               PROVE  Len(<<a>>) = 1 /\ \A k \in 1 .. Len(<<a>>) : <<a>>[k] \in S
  OBVIOUS

LEMMA TwoIs == ASSUME NEW S, NEW a \in S, NEW b \in S
               PROVE  Len(<<a, b>>) = 2 /\ \A k \in 1 .. Len(<<a, b>>) : <<a, b>>[k] \in S
  OBVIOUS

LEMMA FieldsType ==
    ASSUME NEW text \in Bytes
    PROVE  /\ Len(Fields(text)) \in {0, 1, 2}
           /\ \A k \in 1 .. Len(Fields(text)) : Fields(text)[k] \in Bytes
<1> DEFINE first  == Delimiter(text, 1)
           second == Delimiter(text, first + 1)
<1>1. first \in Nat /\ first >= 1 /\ first <= Len(text) + 1 /\ Len(text) \in Nat
  <2>1. Len(text) \in Nat
    BY DEF Bytes
  <2> QED BY <2>1, DelimiterIs
<1>2. (second \in Nat /\ second <= Len(text) + 1) \/ first > Len(text)
  <2> HIDE DEF first
  <2> QED BY <1>1, DelimiterIs
<1>3. SubSeq(text, 1, first - 1) \in Bytes
  <2> HIDE DEF first
  <2> QED BY <1>1 DEF Bytes
<1>4. first <= Len(text) => SubSeq(text, first + 1, second - 1) \in Bytes
  <2> HIDE DEF first, second
  <2> QED BY <1>1, <1>2 DEF Bytes
<1>5. Fields(text) = IF text = <<>> THEN <<>>
                     ELSE IF first > Len(text) THEN <<text, text>>
                     ELSE IF first = Len(text) THEN <<SubSeq(text, 1, first - 1)>>
                     ELSE <<SubSeq(text, 1, first - 1),
                            SubSeq(text, first + 1, second - 1)>>
  BY DEF Fields
<1> HIDE DEF first, second
<1>6. CASE text = <<>>
  BY <1>5, <1>6
<1>7. CASE text # <<>> /\ first > Len(text)
  BY <1>5, <1>7
<1>8. CASE text # <<>> /\ first = Len(text)
  <2>1. Fields(text) = <<SubSeq(text, 1, first - 1)>>
    BY <1>1, <1>5, <1>8
  <2> QED BY <1>3, <2>1, OneIs
<1>9. CASE text # <<>> /\ first < Len(text)
  <2>1. Fields(text) = <<SubSeq(text, 1, first - 1), SubSeq(text, first + 1, second - 1)>>
    BY <1>1, <1>5, <1>9
  <2>2. SubSeq(text, first + 1, second - 1) \in Bytes
    BY <1>1, <1>4, <1>9
  <2> QED BY <1>3, <2>1, <2>2, TwoIs
<1> QED BY <1>1, <1>6, <1>7, <1>8, <1>9

\* Of a message that begins with the address of p, registration takes the host,
\* and a port that begins with the digits of p.
LEMMA FieldsOfAddress ==
    ASSUME NEW p \in Participants, NEW text \in Bytes, IsPrefix(RegMsg(p), text)
    PROVE  /\ Len(Fields(text)) \in {1, 2} /\ Fields(text)[1] = <<"host">>
           /\ Len(Fields(text)) = 2 => IsPrefix(PortOf[p], Fields(text)[2])
           /\ Len(Fields(text)) = 1 => PortOf[p] = <<>>
<1> DEFINE first  == Delimiter(text, 1)
           second == Delimiter(text, first + 1)
           port == PortOf[p]
           rest == SubSeq(text, 3, second - 1)
<1>1. port \in Seq(Digits) /\ Len(port) \in Nat /\ Len(text) \in Nat
  BY SessionAssumption DEF Bytes
<1>2. \A i \in 1 .. Len(port) : port[i] \in Digits /\ port[i] # ":"
  <2> HIDE DEF port
  <2> QED BY <1>1 DEF Digits
<1>3. /\ RegMsg(p) \in Bytes /\ Len(RegMsg(p)) = 2 + Len(port)
      /\ RegMsg(p)[1] = "host" /\ RegMsg(p)[2] = ":"
      /\ \A i \in 1 .. Len(port) : RegMsg(p)[2 + i] = port[i]
  <2>1. RegMsg(p) = <<"host", ":">> \o port
    BY DEF RegMsg
  <2>2. <<"host", ":">> \in Bytes /\ port \in Bytes
    <3> HIDE DEF port
    <3> QED BY <1>1 DEF Bytes, Byte
  <2> HIDE DEF port
  <2>3. /\ <<"host", ":">> \o port \in Bytes
        /\ Len(<<"host", ":">> \o port) = 2 + Len(port)
    BY <2>2 DEF Bytes
  <2>4. \A i \in 1 .. 2 + Len(port) :
            (<<"host", ":">> \o port)[i] = IF i <= 2 THEN <<"host", ":">>[i] ELSE port[i - 2]
    BY <2>2, <1>1 DEF Bytes
  <2>5. 1 \in 1 .. 2 + Len(port) /\ 2 \in 1 .. 2 + Len(port)
        /\ \A i \in 1 .. Len(port) : 2 + i \in 1 .. 2 + Len(port) /\ ~(2 + i <= 2)
                                     /\ (2 + i) - 2 = i
    BY <1>1
  <2> QED BY <2>1, <2>3, <2>4, <2>5
<1> HIDE DEF port
<1>4. /\ Len(text) >= 2 + Len(port) /\ text[1] = "host" /\ text[2] = ":"
      /\ \A i \in 1 .. Len(port) : text[2 + i] = port[i]
  <2>1. Len(text) >= 2 + Len(port)
        /\ \A j \in 1 .. 2 + Len(port) : text[j] = RegMsg(p)[j]
    BY <1>3, PrefixIs
  <2>2. 1 \in 1 .. 2 + Len(port) /\ 2 \in 1 .. 2 + Len(port)
        /\ \A i \in 1 .. Len(port) : 2 + i \in 1 .. 2 + Len(port)
    BY <1>1
  <2> QED BY <1>3, <2>1, <2>2
<1>5. first = 2
  <2>1. /\ first \in Nat /\ (first > 2 => text[2] # ":") /\ first >= 1
        /\ first = 1 => text[1] = ":"
    <3>1. 2 \in 1 .. Len(text)
      BY <1>1, <1>4
    <3>2. /\ first \in Nat /\ (2 < first => text[2] # ":")
          /\ (first \in 1 .. Len(text) /\ text[first] = ":") \/ first = Len(text) + 1
      BY <3>1, DelimiterIs
    <3> HIDE DEF first
    <3> QED BY <1>1, <1>4, <3>2
  <2> HIDE DEF first
  <2> QED BY <1>4, <2>1
<1>6. /\ second \in Nat /\ second >= 3 + Len(port) /\ second <= Len(text) + 1
  <2>1. second = Delimiter(text, 3)
    BY <1>5
  <2>2. /\ second \in Nat
        /\ (second \in 3 .. Len(text) /\ text[second] = ":") \/ second = Len(text) + 1
    BY <2>1, DelimiterIs
  <2> HIDE DEF second
  <2>3. second < 3 + Len(port) => FALSE
    <3> SUFFICES ASSUME second < 3 + Len(port) PROVE FALSE
      OBVIOUS
    <3>1. second >= 3 /\ text[second] = ":"
      BY <1>1, <1>4, <2>2
    <3>2. second - 2 \in 1 .. Len(port) /\ 2 + (second - 2) = second
      BY <1>1, <2>2, <3>1
    <3> QED BY <1>2, <1>4, <3>1, <3>2
  <2> QED BY <1>1, <1>4, <2>2, <2>3
<1>7. SubSeq(text, 1, 1) = <<"host">>
  <2>1. text \in Seq(Byte) /\ 1 \in 1 .. Len(text)
    BY <1>1, <1>4 DEF Bytes
  <2>2. SubSeq(text, 1, 1) \in Seq(Byte) /\ Len(SubSeq(text, 1, 1)) = 1
        /\ SubSeq(text, 1, 1)[1] = "host"
    BY <1>4, <2>1
  <2>3. <<"host">> \in Seq(Byte) /\ Len(<<"host">>) = 1 /\ <<"host">>[1] = "host"
    BY DEF Byte
  <2>4. \A i \in 1 .. 1 : SubSeq(text, 1, 1)[i] = <<"host">>[i]
    BY <2>2, <2>3
  <2> QED BY <2>2, <2>3, <2>4, SeqEqual
<1>8. CASE Len(text) = 2
  <2>1. Fields(text) = <<SubSeq(text, 1, first - 1)>>
    <3>1. text # <<>>
      BY <1>8, EmptySeq DEF Bytes
    <3>2. ~(first > Len(text)) /\ first = Len(text)
      BY <1>1, <1>5, <1>8
    <3> QED BY <3>1, <3>2 DEF Fields
  <2>2. port = <<>>
    BY <1>1, <1>4, <1>8, EmptySeq
  <2> QED BY <1>5, <1>7, <2>1, <2>2 DEF port
<1>9. CASE Len(text) > 2
  <2>1. Fields(text) = <<SubSeq(text, 1, 1), rest>>
    <3>1. text # <<>> /\ ~(first > Len(text)) /\ first # Len(text)
      BY <1>1, <1>5, <1>9
    <3>2. first - 1 = 1 /\ first + 1 = 3
      BY <1>5
    <3> QED BY <3>1, <3>2 DEF Fields
  <2>2. /\ rest \in Bytes /\ Len(rest) = second - 3
        /\ \A i \in 1 .. Len(rest) : rest[i] = text[2 + i]
    <3> HIDE DEF second
    <3> QED BY <1>1, <1>6, <1>9 DEF Bytes
  <2>3. port \in Bytes
    BY <1>1 DEF Bytes, Byte
  <2>4. Len(port) <= Len(rest) /\ \A i \in 1 .. Len(port) : rest[i] = port[i]
    <3> HIDE DEF second, rest
    <3> QED BY <1>1, <1>4, <1>6, <2>2
  <2>5. IsPrefix(port, rest)
    <3> HIDE DEF rest
    <3> QED BY <2>2, <2>3, <2>4, PrefixIs
  <2> HIDE DEF rest
  <2> QED BY <1>7, <2>1, <2>5 DEF port
<1>10. Len(text) = 2 \/ Len(text) > 2
  <2>1. \A m, n \in Nat : m >= 2 + n => m = 2 \/ m > 2
    OBVIOUS
  <2> QED BY <1>1, <1>4, <2>1
<1> QED BY <1>8, <1>9, <1>10

-----------------------------------------------------------------------------
(* What the calls of Node do to the connections. *)

LEMMA LinksOf ==
    /\ \A p \in Participants : <<p, Leader>> \in Links /\ <<Leader, p>> \in Links
    /\ \A p \in Participants : p # Leader /\ p \in Procs
    /\ Leader \in Procs
  BY NodeAssumption DEF Links, Procs

\* What is closed loses what is on its way, and nothing else changes.
LEMMA CloseEffect ==
    ASSUME SessionTypeOK, NEW x, NEW ys, Close(x, ys)
    PROVE  /\ open' \in [Links -> BOOLEAN] /\ wire' \in [Links -> Bytes]
           /\ \A l \in Links : wire'[l] \in {<<>>, wire[l]}
           /\ \A l \in Links : l[1] # x => open'[l] = open[l]
           /\ \A l \in Links : l[1] # x /\ l[2] # x => wire'[l] = wire[l]
<1>1. wire \in [Links -> Bytes] /\ open \in [Links -> BOOLEAN] /\ <<>> \in Bytes
  BY DEF SessionTypeOK, Bytes
<1>2. PICK lost : wire' = [l \in Links |->
                             IF \/ l[1] = x /\ l[2] \in lost
                                \/ l[2] = x /\ l[1] \in ys
                             THEN <<>> ELSE wire[l]]
  BY DEF Close
<1>3. open' = [l \in Links |-> open[l] /\ ~(l[1] = x /\ l[2] \in ys)]
  BY DEF Close
<1>4. \A l \in Links : open[l] \in BOOLEAN /\ wire[l] \in Bytes
  BY <1>1
<1>5. /\ wire' \in [Links -> Bytes]
      /\ \A l \in Links : wire'[l] \in {<<>>, wire[l]}
      /\ \A l \in Links : l[1] # x /\ l[2] # x => wire'[l] = wire[l]
  BY <1>1, <1>2, <1>4
<1>6. /\ open' \in [Links -> BOOLEAN]
      /\ \A l \in Links : l[1] # x => open'[l] = open[l]
  BY <1>3, <1>4
<1> QED BY <1>5, <1>6

LEMMA PlacesAre ==
    /\ {"elect", "socket", "listen", "accept", "recv_reg", "register", "send_key",
        "send_comm", "recv_hello", "take_hello", "close", "close_listener"} \subseteq Places
    /\ {"connect", "send_reg", "recv_key", "take_key", "recv_comm", "take_comm",
        "send_hello"} \subseteq Places
    /\ "done" \in Places /\ "exited" \in Places /\ "killed" \in Places
  BY DEF Places, Gone

LEMMA EndsEffect ==
    ASSUME SessionTypeOK, NEW x \in Procs, NEW how \in Places, Ends(x, how)
    PROVE  /\ SessionTypeOK'
           /\ pc' = [pc EXCEPT ![x] = how]
           /\ UNCHANGED <<local, conn, nodes, key, comm>>
           /\ backlog' \in {backlog, <<>>}
           /\ \A l \in Links : wire'[l] \in {<<>>, wire[l]}
           /\ \A l \in Links : l[1] # x => open'[l] = open[l]
           /\ \A l \in Links : l[1] # x /\ l[2] # x => wire'[l] = wire[l]
<1>1. PICK ys : Close(x, ys)
  BY DEF Ends, ProcessEnds
<1>2. /\ open' \in [Links -> BOOLEAN] /\ wire' \in [Links -> Bytes]
      /\ \A l \in Links : wire'[l] \in {<<>>, wire[l]}
      /\ \A l \in Links : l[1] # x => open'[l] = open[l]
      /\ \A l \in Links : l[1] # x /\ l[2] # x => wire'[l] = wire[l]
  BY <1>1, CloseEffect
<1>3. listening' \in BOOLEAN /\ backlog' \in Seq(Participants) /\ backlog' \in {backlog, <<>>}
  <2>1. <<>> \in Seq(Participants) /\ backlog \in Seq(Participants)
        /\ listening \in BOOLEAN
    BY DEF SessionTypeOK
  <2>2. \/ listening' = FALSE /\ backlog' = <<>>
        \/ listening' = listening /\ backlog' = backlog
    BY DEF Ends, ProcessEnds
  <2> QED BY <2>1, <2>2
<1>4. pc' = [pc EXCEPT ![x] = how] /\ pc' \in [Procs -> Places]
  BY DEF Ends, Goto, SessionTypeOK
<1>5. UNCHANGED <<local, conn, nodes, key, comm>>
  BY DEF Ends
<1>6. SessionTypeOK'
  BY <1>2, <1>3, <1>4, <1>5 DEF SessionTypeOK, local
<1> QED BY <1>2, <1>3, <1>4, <1>5, <1>6

\* recv takes a beginning of what is on its way, and the message is that with
\* something behind it.
LEMMA ReceiveEffect ==
    ASSUME SessionTypeOK, NEW x \in Procs, NEW y, <<y, x>> \in Links,
           NEW here, NEW next \in Places, Receive(x, y, here, next)
    PROVE  /\ SessionTypeOK'
           /\ wire[<<y, x>>] # <<>> \/ ~open[<<y, x>>]
           /\ pc[x] = here /\ pc' = [pc EXCEPT ![x] = next]
           /\ UNCHANGED <<listening, backlog, open, conn, nodes, key, comm>>
           /\ \E n \in 0 .. Len(wire[<<y, x>>]), tail \in Bytes :
                  LET data == SubSeq(wire[<<y, x>>], 1, n)
                  IN  /\ ret' = [ret EXCEPT ![x] = n]
                      /\ messages' = [messages EXCEPT ![x] = Append(@, Clean(data \o tail))]
                      /\ wire' = [wire EXCEPT ![<<y, x>>] = SubSeq(@, n + 1, Len(@))]
<1> DEFINE s == wire[<<y, x>>]
<1>1. /\ wire \in [Links -> Bytes] /\ s \in Bytes /\ Len(s) \in Nat
      /\ buff \in [Procs -> Bytes] /\ buff[x] \in Bytes /\ Len(buff[x]) \in Nat
      /\ ret \in [Procs -> 0 .. DefaultLen] /\ messages \in [Procs -> Seq(Bytes)]
      /\ pc \in [Procs -> Places]
  BY DEF SessionTypeOK, Bytes
<1>2. /\ wire[<<y, x>>] # <<>> \/ ~open[<<y, x>>]
      /\ pc[x] = here /\ pc' = [pc EXCEPT ![x] = next]
      /\ UNCHANGED <<listening, backlog, open, conn, nodes, key, comm>>
  BY DEF Receive, ReceiveMessage, Readable, Goto
<1>3. PICK n \in Sizes(s) :
           \E tail \in Tails \cup {SubSeq(buff[x], n + 1, Len(buff[x]))} :
               LET data == SubSeq(s, 1, n)
               IN  /\ buff' = [buff EXCEPT ![x] = data \o tail]
                   /\ messages' = [messages EXCEPT ![x] = Append(@, Clean(data \o tail))]
                   /\ Returns(x, n)
                   /\ Consume(x, y, n)
  BY DEF Receive, ReceiveMessage
<1>4. n \in 0 .. DefaultLen /\ n \in 0 .. Len(s)
  <2> HIDE DEF s
  <2>1. DefaultLen \in Nat \ {0}
    BY NodeAssumption
  <2> QED BY <1>1, <2>1 DEF Sizes
<1>5. PICK tail \in Tails \cup {SubSeq(buff[x], n + 1, Len(buff[x]))} :
           /\ buff' = [buff EXCEPT ![x] = SubSeq(s, 1, n) \o tail]
           /\ messages' = [messages EXCEPT ![x] = Append(@, Clean(SubSeq(s, 1, n) \o tail))]
           /\ ret' = [ret EXCEPT ![x] = n]
           /\ wire' = [wire EXCEPT ![<<y, x>>] = SubSeq(@, n + 1, Len(@))]
  BY <1>3 DEF Returns, Consume
<1> HIDE DEF s
<1>6. tail \in Bytes
  <2>1. SubSeq(buff[x], n + 1, Len(buff[x])) \in Bytes
    BY <1>1, <1>4 DEF Bytes
  <2> QED BY <2>1, SessionAssumption
<1>7. SubSeq(s, 1, n) \o tail \in Bytes /\ SubSeq(s, n + 1, Len(s)) \in Bytes
  BY <1>1, <1>4, <1>6 DEF Bytes
<1>8. Clean(SubSeq(s, 1, n) \o tail) \in Bytes
  BY <1>7, CleanType
<1>9. /\ buff' \in [Procs -> Bytes] /\ ret' \in [Procs -> 0 .. DefaultLen]
      /\ pc' \in [Procs -> Places]
  BY <1>1, <1>2, <1>4, <1>5, <1>7
<1>10. messages' \in [Procs -> Seq(Bytes)]
  <2>1. Append(messages[x], Clean(SubSeq(s, 1, n) \o tail)) \in Seq(Bytes)
    BY <1>1, <1>8
  <2> QED BY <1>1, <1>5, <2>1
<1>11. wire' \in [Links -> Bytes]
  BY <1>1, <1>5, <1>7 DEF s
<1>12. SessionTypeOK'
  BY <1>2, <1>9, <1>10, <1>11 DEF SessionTypeOK
<1> QED BY <1>2, <1>4, <1>5, <1>6, <1>12 DEF s

\* send: the message joins what is on its way, or is lost; or the sender dies.
LEMMA SendEffect ==
    ASSUME SessionTypeOK, NEW x \in Procs, NEW y, <<x, y>> \in Links, <<y, x>> \in Links,
           NEW msg \in Bytes, NEW here, NEW next \in Places, Send(x, y, msg, here, next)
    PROVE  /\ SessionTypeOK' /\ pc[x] = here
           /\ \/ /\ pc' = [pc EXCEPT ![x] = next]
                 /\ open[<<x, y>>]
                 /\ wire' = [wire EXCEPT ![<<x, y>>] = IF open[<<y, x>>] THEN @ \o msg ELSE @]
                 /\ UNCHANGED <<listening, backlog, open, local, conn, nodes, key, comm>>
              \/ Ends(x, "killed")
<1>1. pc[x] = here
  BY DEF Send
<1>2. CASE Ends(x, "killed")
  BY <1>1, <1>2, PlacesAre, EndsEffect
<1>3. CASE SendMessage(x, y, msg) /\ Goto(x, next) /\ UNCHANGED <<local, conn, nodes, key, comm>>
  <2>1. /\ wire \in [Links -> Bytes] /\ pc \in [Procs -> Places]
        /\ wire[<<x, y>>] \in Bytes /\ wire[<<x, y>>] \o msg \in Bytes
    BY DEF SessionTypeOK, Bytes
  <2>2. /\ pc' = [pc EXCEPT ![x] = next] /\ open[<<x, y>>]
        /\ wire' = [wire EXCEPT ![<<x, y>>] = IF open[<<y, x>>] THEN @ \o msg ELSE @]
        /\ UNCHANGED <<listening, backlog, open, local, conn, nodes, key, comm>>
    BY <1>3 DEF SendMessage, Goto
  <2>3. wire' \in [Links -> Bytes] /\ pc' \in [Procs -> Places]
    BY <2>1, <2>2
  <2>4. SessionTypeOK'
    BY <2>2, <2>3 DEF SessionTypeOK, local
  <2> QED BY <1>1, <2>2, <2>4
<1> QED BY <1>2, <1>3 DEF Send

\* get_message.
LEMMA GetMessageType ==
    ASSUME SessionTypeOK, NEW x \in Procs, GetMessage(x)
    PROVE  messages' \in [Procs -> Seq(Bytes)] /\ FirstMessage(x) \in Bytes
<1>1. messages \in [Procs -> Seq(Bytes)] /\ messages[x] \in Seq(Bytes)
  BY DEF SessionTypeOK
<1>2. messages[x] # <<>> => Head(messages[x]) \in Bytes /\ Tail(messages[x]) \in Seq(Bytes)
  BY <1>1, HeadTailProperties
<1>3. <<>> \in Bytes
  BY DEF Bytes
<1>4. messages' \in [Procs -> Seq(Bytes)]
  BY <1>1, <1>2 DEF GetMessage
<1> QED BY <1>1, <1>2, <1>3, <1>4 DEF FirstMessage

-----------------------------------------------------------------------------
(* Types: every step of either program that is not its own keeps them.     *)

LEMMA EndTyped ==
    ASSUME SessionTypeOK, NEW x \in Procs, SystemCallFails(x) \/ Killed(x)
    PROVE  SessionTypeOK'
<1>1. Ends(x, "exited") \/ Ends(x, "killed")
  BY DEF SystemCallFails, Killed
<1> QED BY <1>1, PlacesAre, EndsEffect

LEMMA RegMsgType == \A p \in Participants : RegMsg(p) \in Bytes
<1> SUFFICES ASSUME NEW p \in Participants PROVE RegMsg(p) \in Bytes
  OBVIOUS
<1>1. PortOf[p] \in Bytes /\ <<"host", ":">> \in Bytes
  BY SessionAssumption DEF Bytes, Byte
<1> QED BY <1>1 DEF RegMsg, Bytes

LEMMA ParticipantTyped ==
    ASSUME SessionTypeOK, NEW p \in Participants, ParticipantCommon(p)
    PROVE  SessionTypeOK'
<1>0. /\ p \in Procs /\ <<p, Leader>> \in Links /\ <<Leader, p>> \in Links
      /\ RegMsg(p) \in Bytes /\ <<"hello">> \in Bytes
  BY LinksOf, RegMsgType DEF Bytes, Byte
<1> USE PlacesAre
<1>1. CASE Socket(p, "connect")
  BY <1>0, <1>1 DEF SessionTypeOK, Socket, Goto, nodeVars, net, local
<1>2. CASE ParticipantConnects(p)
  <2>1. backlog \in Seq(Participants) /\ Append(backlog, p) \in Seq(Participants)
    BY DEF SessionTypeOK
  <2>2. open' \in [Links -> BOOLEAN]
    BY <1>0, <1>2 DEF SessionTypeOK, ParticipantConnects, Connect
  <2>3. pc' \in [Procs -> Places]
    BY <1>0, <1>2 DEF SessionTypeOK, ParticipantConnects, Goto
  <2> QED BY <1>0, <1>2, <2>1, <2>2, <2>3
      DEF SessionTypeOK, ParticipantConnects, Connect, local
<1>3. CASE Send(p, Leader, RegMsg(p), "send_reg", "recv_key")
  BY <1>0, <1>3, SendEffect
<1>4. CASE Receive(p, Leader, "recv_key", "take_key")
  BY <1>0, <1>4, ReceiveEffect
<1>5. CASE Receive(p, Leader, "recv_comm", "take_comm")
  BY <1>0, <1>5, ReceiveEffect
<1>6. CASE ParticipantTakesCommitment(p)
  <2>1. messages' \in [Procs -> Seq(Bytes)] /\ FirstMessage(p) \in Bytes
    BY <1>0, <1>6, GetMessageType DEF ParticipantTakesCommitment
  <2> QED BY <1>0, <1>6, <2>1
      DEF SessionTypeOK, ParticipantTakesCommitment, Goto, net
<1>7. CASE Send(p, Leader, <<"hello">>, "send_hello", "close")
  BY <1>0, <1>7, SendEffect
<1>8. CASE ParticipantFinishes(p)
  BY <1>0, <1>8, EndsEffect DEF ParticipantFinishes
<1> QED BY <1>1, <1>2, <1>3, <1>4, <1>5, <1>6, <1>7, <1>8 DEF ParticipantCommon

LEMMA LeaderTyped ==
    ASSUME SessionTypeOK, LeaderCommon
    PROVE  SessionTypeOK'
<1>0. /\ Leader \in Procs /\ conn \in Participants \cup {None}
      /\ conn \in Participants => <<conn, Leader>> \in Links
  BY LinksOf DEF SessionTypeOK
<1> USE PlacesAre
<1>1. CASE Socket(Leader, "listen")
  BY <1>0, <1>1 DEF SessionTypeOK, Socket, Goto, nodeVars, net, local
<1>2. CASE LeaderListens
  BY <1>0, <1>2 DEF SessionTypeOK, LeaderListens, Listen, Goto, local
<1>3. CASE LeaderAccepts
  <2>1. backlog \in Seq(Participants) /\ (backlog # <<>> => Tail(backlog) \in Seq(Participants))
    BY HeadTailProperties DEF SessionTypeOK
  <2>2. pc' \in [Procs -> Places]
    BY <1>0, <1>3 DEF SessionTypeOK, LeaderAccepts, Goto
  <2> QED BY <1>0, <1>3, <2>1, <2>2
      DEF SessionTypeOK, LeaderAccepts, Accept, local
<1>4. CASE conn # None /\ Receive(Leader, conn, "recv_reg", "register")
  BY <1>0, <1>4, ReceiveEffect
<1>5. CASE LeaderRegisters("send_key")
  <2> DEFINE f == Fields(FirstMessage(Leader))
             r == [host |-> f[1], port |-> IF Len(f) = 2 THEN Atoi(f[2]) ELSE <<>>]
  <2>1. CASE Ends(Leader, "killed")
    BY <1>0, <2>1, EndsEffect
  <2>2. CASE /\ Len(f) > 0
             /\ GetMessage(Leader)
             /\ nodes' = Append(nodes, r)
             /\ Goto(Leader, "send_key")
             /\ UNCHANGED <<net, buff, ret, conn, key, comm>>
    <3>1. messages' \in [Procs -> Seq(Bytes)] /\ FirstMessage(Leader) \in Bytes
      BY <1>0, <2>2, GetMessageType
    <3>2. Len(f) \in {1, 2} /\ \A k \in 1 .. Len(f) : f[k] \in Bytes
      BY <2>2, <3>1, FieldsType
    <3> HIDE DEF f
    <3>3. f[1] \in Bytes /\ (Len(f) = 2 => Atoi(f[2]) \in Bytes) /\ <<>> \in Bytes
      <4>1. Len(f) = 2 => f[2] \in Bytes
        BY <3>2
      <4> QED BY <3>2, <4>1, AtoiIs DEF Bytes
    <3>4. r \in [host : Bytes, port : Bytes]
      BY <3>3
    <3>5. nodes' \in Seq([host : Bytes, port : Bytes])
      <4> HIDE DEF r
      <4> QED BY <2>2, <3>4 DEF SessionTypeOK
    <3> QED BY <1>0, <2>2, <3>1, <3>5 DEF SessionTypeOK, Goto, net
  <2> QED BY <1>5, <2>1, <2>2 DEF LeaderRegisters
<1>6. CASE conn # None /\ Receive(Leader, conn, "recv_hello", "take_hello")
  BY <1>0, <1>6, ReceiveEffect
<1>7. CASE LeaderTakesAnswer
  <2>1. messages' \in [Procs -> Seq(Bytes)]
    BY <1>0, <1>7, GetMessageType DEF LeaderTakesAnswer
  <2> QED BY <1>0, <1>7, <2>1 DEF SessionTypeOK, LeaderTakesAnswer, Goto, net
<1>8. CASE LeaderCloses
  <2>1. open' \in [Links -> BOOLEAN] /\ wire' \in [Links -> Bytes]
    BY <1>8, CloseEffect DEF LeaderCloses
  <2> QED BY <1>0, <1>8, <2>1 DEF SessionTypeOK, LeaderCloses, Goto, local
<1>9. CASE LeaderFinishes
  BY <1>0, <1>9, EndsEffect DEF LeaderFinishes
<1> QED BY <1>1, <1>2, <1>3, <1>4, <1>5, <1>6, <1>7, <1>8, <1>9 DEF LeaderCommon

-----------------------------------------------------------------------------
(* The mutual wait. *)

\* A step that touches neither the two processes nor their connection.
Elsewhere ==
    /\ conn' = conn /\ pc'[Leader] = pc[Leader] /\ pc'[conn] = pc[conn]
    /\ wire'[<<conn, Leader>>] = wire[<<conn, Leader>>]
    /\ wire'[<<Leader, conn>>] = wire[<<Leader, conn>>]
    /\ open'[<<conn, Leader>>] = open[<<conn, Leader>>]
    /\ open'[<<Leader, conn>>] = open[<<Leader, conn>>]

LEMMA ElsewhereWaits == MutualWait /\ Elsewhere => MutualWait'
  BY DEF MutualWait, Elsewhere

LEMMA OthersEndElsewhere ==
    ASSUME SessionTypeOK, MutualWait, NEW x \in Procs, x # Leader, x # conn,
           NEW how \in Places, Ends(x, how)
    PROVE  Elsewhere
<1>1. conn \in Participants /\ <<conn, Leader>> \in Links /\ <<Leader, conn>> \in Links
      /\ Leader \in Procs /\ conn \in Procs
  BY LinksOf DEF MutualWait, SessionTypeOK
<1>2. /\ pc' = [pc EXCEPT ![x] = how] /\ conn' = conn
      /\ \A l \in Links : l[1] # x => open'[l] = open[l]
      /\ \A l \in Links : l[1] # x /\ l[2] # x => wire'[l] = wire[l]
  BY EndsEffect
<1>3. pc \in [Procs -> Places]
  BY DEF SessionTypeOK
<1> QED BY <1>1, <1>2, <1>3 DEF Elsewhere

\* Neither of the two can leave the wait by a step of its own, and a step of
\* another process is elsewhere.
LEMMA OnlyKillEndsWait ==
    ASSUME SessionTypeOK, MutualWait,
           LeaderCommon \/ (\E p \in Participants : ParticipantCommon(p))
               \/ (\E x \in Procs : SystemCallFails(x) \/ Killed(x))
    PROVE  MutualWait' \/ "killed" \in {pc'[Leader], pc'[conn]}
<1>0. /\ conn \in Participants /\ Leader \in Procs /\ conn \in Procs /\ conn # Leader
      /\ <<conn, Leader>> \in Links /\ <<Leader, conn>> \in Links
      /\ pc[Leader] = "recv_hello" /\ pc[conn] = "recv_comm"
      /\ wire[<<conn, Leader>>] = <<>> /\ wire[<<Leader, conn>>] = <<>>
      /\ open[<<conn, Leader>>] /\ open[<<Leader, conn>>]
      /\ pc \in [Procs -> Places] /\ open \in [Links -> BOOLEAN]
      /\ wire \in [Links -> Bytes]
  BY LinksOf DEF MutualWait, SessionTypeOK
<1>1. ASSUME LeaderCommon PROVE FALSE
  BY <1>0, <1>1 DEF LeaderCommon, Socket, LeaderListens, LeaderAccepts, Receive,
     ReceiveMessage, Readable, LeaderRegisters, LeaderTakesAnswer, LeaderCloses,
     LeaderFinishes
<1>2. ASSUME NEW p \in Participants, ParticipantCommon(p) PROVE Elsewhere
  <2>0. p \in Procs /\ <<p, Leader>> \in Links /\ <<Leader, p>> \in Links /\ p # Leader
        /\ RegMsg(p) \in Bytes /\ <<"hello">> \in Bytes
    BY LinksOf, RegMsgType DEF Bytes, Byte
  <2>1. p # conn
    BY <1>0, <1>2 DEF ParticipantCommon, Socket, ParticipantConnects, Send, Receive,
       ReceiveMessage, Readable, ParticipantTakesCommitment, ParticipantFinishes
  <2>2. CASE Socket(p, "connect") \/ ParticipantTakesCommitment(p)
    BY <1>0, <2>0, <2>1, <2>2
    DEF Socket, ParticipantTakesCommitment, Goto, nodeVars, net, Elsewhere
  <2>3. CASE ParticipantConnects(p)
    BY <1>0, <2>0, <2>1, <2>3
    DEF ParticipantConnects, Connect, Goto, Elsewhere
  <2>4. ASSUME NEW msg, NEW here, NEW next, Send(p, Leader, msg, here, next)
        PROVE  Elsewhere
    <3>1. CASE Ends(p, "killed")
      BY <2>0, <2>1, <3>1, OthersEndElsewhere, PlacesAre
    <3>2. CASE SendMessage(p, Leader, msg) /\ Goto(p, next) /\ UNCHANGED conn
      BY <1>0, <2>0, <2>1, <3>2 DEF SendMessage, Goto, Elsewhere
    <3> QED BY <2>4, <3>1, <3>2 DEF Send
  <2>5. ASSUME NEW here, NEW next \in Places, Receive(p, Leader, here, next)
        PROVE  Elsewhere
    <3>1. p \in Procs /\ <<Leader, p>> \in Links
      BY <2>0
    <3>2. pc' = [pc EXCEPT ![p] = next] /\ UNCHANGED <<open, conn>>
      BY <2>5, <3>1, ReceiveEffect
    <3>3. \E n : wire' = [wire EXCEPT ![<<Leader, p>>] = SubSeq(@, n + 1, Len(@))]
      BY <2>5 DEF Receive, ReceiveMessage, Consume
    <3> QED BY <1>0, <2>0, <2>1, <3>2, <3>3 DEF Elsewhere
  <2>6. CASE ParticipantFinishes(p)
    BY <2>0, <2>1, <2>6, OthersEndElsewhere, PlacesAre DEF ParticipantFinishes
  <2> QED BY <1>2, <2>2, <2>3, <2>4, <2>5, <2>6, PlacesAre DEF ParticipantCommon
<1>3. ASSUME NEW x \in Procs, SystemCallFails(x)
      PROVE  Elsewhere
  BY <1>0, <1>3, OthersEndElsewhere, PlacesAre DEF SystemCallFails
<1>4. ASSUME NEW x \in Procs, Killed(x)
      PROVE  Elsewhere \/ "killed" \in {pc'[Leader], pc'[conn]}
  <2>1. Ends(x, "killed") /\ pc' = [pc EXCEPT ![x] = "killed"]
    BY <1>4 DEF Killed, Ends, Goto
  <2>2. CASE x \in {Leader, conn}
    BY <1>0, <2>1, <2>2
  <2>3. CASE x \notin {Leader, conn}
    BY <2>1, <2>3, OthersEndElsewhere, PlacesAre
  <2> QED BY <2>2, <2>3
<1> QED BY <1>1, <1>2, <1>3, <1>4, ElsewhereWaits

-----------------------------------------------------------------------------
(* Nobody gets past its first recv before the leader has sent something.   *)

LEMMA EndKeepsNothingSent ==
    ASSUME SessionTypeOK, NothingSent, NEW x \in Procs, NEW how \in Gone, Ends(x, how)
    PROVE  NothingSent'
<1>1. /\ how \in Places /\ pc \in [Procs -> Places]
      /\ \A p \in Participants : /\ p \in Procs /\ p # Leader /\ <<Leader, p>> \in Links
                                 /\ <<Leader, p>>[1] = Leader
      /\ Leader \in Procs /\ wire \in [Links -> Bytes]
  BY LinksOf DEF SessionTypeOK, Places
<1>2. /\ pc' = [pc EXCEPT ![x] = how]
      /\ \A l \in Links : wire'[l] \in {<<>>, wire[l]}
      /\ \A l \in Links : l[1] # x => open'[l] = open[l]
  BY <1>1, EndsEffect
<1>3. CASE x = Leader
  <2>1. ~Unserved'
    BY <1>1, <1>2, <1>3 DEF Unserved, Gone
  <2> QED BY <2>1 DEF NothingSent
<1>4. CASE x # Leader
  <2> SUFFICES ASSUME Unserved', NEW p \in Participants
               PROVE  /\ wire'[<<Leader, p>>] = <<>>
                      /\ pc'[p] \in Before \cup Gone
                      /\ pc'[p] \in {"send_reg", "recv_key"} => open'[<<Leader, p>>]
    BY DEF NothingSent
  <2>1. Unserved
    BY <1>1, <1>2, <1>4 DEF Unserved
  <2>2. /\ wire[<<Leader, p>>] = <<>> /\ pc[p] \in Before \cup Gone
        /\ pc[p] \in {"send_reg", "recv_key"} => open[<<Leader, p>>]
    BY <2>1 DEF NothingSent
  <2>3. wire'[<<Leader, p>>] = <<>> /\ open'[<<Leader, p>>] = open[<<Leader, p>>]
    BY <1>1, <1>2, <1>4, <2>2
  <2>4. pc'[p] = pc[p] \/ pc'[p] \in Gone
    BY <1>1, <1>2
  <2>5. pc'[p] \in {"send_reg", "recv_key"} => pc'[p] = pc[p]
    BY <2>4 DEF Gone
  <2> QED BY <2>2, <2>3, <2>4, <2>5
<1> QED BY <1>3, <1>4

LEMMA ParticipantKeepsNothingSent ==
    ASSUME SessionTypeOK, NothingSent, NEW p \in Participants, ParticipantCommon(p)
    PROVE  NothingSent'
<1>0. /\ p \in Procs /\ p # Leader /\ Leader \in Procs
      /\ <<p, Leader>> \in Links /\ <<Leader, p>> \in Links
      /\ <<p, Leader>> # <<Leader, p>>
      /\ pc \in [Procs -> Places] /\ wire \in [Links -> Bytes] /\ open \in [Links -> BOOLEAN]
      /\ \A q \in Participants : q \in Procs /\ <<Leader, q>> \in Links
                                 /\ <<Leader, q>> # <<p, Leader>>
  BY LinksOf DEF SessionTypeOK
<1>1. CASE \E how \in Gone : Ends(p, how)
  BY <1>0, <1>1, EndKeepsNothingSent
<1>2. CASE ~\E how \in Gone : Ends(p, how)
  <2> SUFFICES ASSUME Unserved', NEW q \in Participants
               PROVE  /\ wire'[<<Leader, q>>] = <<>>
                      /\ pc'[q] \in Before \cup Gone
                      /\ pc'[q] \in {"send_reg", "recv_key"} => open'[<<Leader, q>>]
    BY DEF NothingSent
  <2>1. \E next : pc' = [pc EXCEPT ![p] = next]
    BY <1>2 DEF ParticipantCommon, Socket, ParticipantConnects, Send, Receive,
       ParticipantTakesCommitment, ParticipantFinishes, Goto, Gone
  <2>2. Unserved
    BY <1>0, <2>1 DEF Unserved
  <2>3. /\ wire[<<Leader, q>>] = <<>> /\ pc[q] \in Before \cup Gone
        /\ pc[q] \in {"send_reg", "recv_key"} => open[<<Leader, q>>]
        /\ wire[<<Leader, p>>] = <<>> /\ pc[p] \in Before \cup Gone
        /\ pc[p] \in {"send_reg", "recv_key"} => open[<<Leader, p>>]
    BY <2>2 DEF NothingSent
  <2>4. CASE Socket(p, "connect")
    BY <1>0, <2>3, <2>4 DEF Socket, Goto, nodeVars, net, Before
  <2>5. CASE ParticipantConnects(p)
    BY <1>0, <2>3, <2>5 DEF ParticipantConnects, Connect, Goto, Before
  <2>6. CASE /\ pc[p] = "send_reg" /\ SendMessage(p, Leader, RegMsg(p))
             /\ Goto(p, "recv_key")
    BY <1>0, <2>3, <2>6 DEF SendMessage, Goto, Before
  <2>7. /\ ~Receive(p, Leader, "recv_key", "take_key")
        /\ ~Receive(p, Leader, "recv_comm", "take_comm")
        /\ ~ParticipantTakesCommitment(p)
        /\ ~Send(p, Leader, <<"hello">>, "send_hello", "close")
        /\ ~ParticipantFinishes(p)
    BY <2>3 DEF Receive, ReceiveMessage, Readable, ParticipantTakesCommitment, Send,
       ParticipantFinishes, Before, Gone
  <2> QED BY <1>2, <2>4, <2>5, <2>6, <2>7 DEF ParticipantCommon, Send, Gone
<1> QED BY <1>1, <1>2

LEMMA LeaderKeepsNothingSent ==
    ASSUME SessionTypeOK, NothingSent, LeaderCommon
    PROVE  NothingSent'
<1>0. /\ Leader \in Procs /\ pc \in [Procs -> Places] /\ wire \in [Links -> Bytes]
      /\ \A q \in Participants : q \in Procs /\ q # Leader /\ <<Leader, q>> \in Links
      /\ conn # None => conn \in Participants /\ <<conn, Leader>> \in Links
      /\ \A q \in Participants : conn # None => <<Leader, q>> # <<conn, Leader>>
  BY LinksOf DEF SessionTypeOK
<1>1. CASE \E how \in Gone : Ends(Leader, how)
  BY <1>0, <1>1, EndKeepsNothingSent
<1>2. CASE ~\E how \in Gone : Ends(Leader, how)
  <2> SUFFICES ASSUME Unserved', NEW q \in Participants
               PROVE  /\ wire'[<<Leader, q>>] = <<>>
                      /\ pc'[q] \in Before \cup Gone
                      /\ pc'[q] \in {"send_reg", "recv_key"} => open'[<<Leader, q>>]
    BY DEF NothingSent
  <2>1. /\ Unserved /\ \E next : pc' = [pc EXCEPT ![Leader] = next]
        /\ \/ UNCHANGED <<wire, open>>
           \/ conn # None /\ open' = open
              /\ \E n : wire' = [wire EXCEPT ![<<conn, Leader>>] = SubSeq(@, n + 1, Len(@))]
    <3>1. CASE Socket(Leader, "listen") \/ LeaderListens \/ LeaderAccepts
      BY <1>0, <3>1 DEF Socket, LeaderListens, Listen, LeaderAccepts, Accept, Goto,
         nodeVars, net, Unserved
    <3>2. CASE conn # None /\ Receive(Leader, conn, "recv_reg", "register")
      BY <1>0, <3>2 DEF Receive, ReceiveMessage, Consume, Goto, Unserved
    <3>3. CASE LeaderRegisters("send_key")
      BY <1>0, <1>2, <3>3 DEF LeaderRegisters, Goto, net, Unserved, Gone
    <3>4. CASE conn # None /\ Receive(Leader, conn, "recv_hello", "take_hello")
      BY <1>0, <3>4 DEF Receive, Goto, Unserved
    <3>5. CASE LeaderTakesAnswer \/ LeaderCloses
      BY <1>0, <3>5 DEF LeaderTakesAnswer, LeaderCloses, Goto, Unserved
    <3>6. ~LeaderFinishes
      BY <1>2 DEF LeaderFinishes, Gone
    <3> QED BY <3>1, <3>2, <3>3, <3>4, <3>5, <3>6 DEF LeaderCommon
  <2>2. /\ wire[<<Leader, q>>] = <<>> /\ pc[q] \in Before \cup Gone
        /\ pc[q] \in {"send_reg", "recv_key"} => open[<<Leader, q>>]
    BY <2>1 DEF NothingSent
  <2> QED BY <1>0, <2>1, <2>2
<1> QED BY <1>1, <1>2

-----------------------------------------------------------------------------
(* An address that arrives whole is registered with its digits first.      *)

\* The state of the leader that Addresses speaks of, apart from its sockets.
LeaderSame ==
    /\ pc'[Leader] = pc[Leader] /\ ret'[Leader] = ret[Leader]
    /\ messages'[Leader] = messages[Leader] /\ nodes' = nodes /\ conn' = conn

\* Nothing but the bytes on their way to the leader matters as long as it stays.
LEMMA LeaderSameAddresses ==
    ASSUME Addresses, LeaderSame,
           \A q \in Participants :
               pc'[q] \in {"socket", "connect", "send_reg"} => wire'[<<q, Leader>>] = <<>>,
           pc[Leader] \in {"elect", "socket", "listen", "accept", "recv_reg"} =>
               \A q \in Participants : wire'[<<q, Leader>>] \in {<<>>, RegMsg(q)}
    PROVE  Addresses'
<1> USE DEF LeaderSame
<1>1. AddressFirst'
  BY DEF Addresses, AddressFirst, RegMsg
<1>2. AddressIsRead'
  BY DEF Addresses, AddressIsRead, FirstMessage, RegMsg
<1>3. NobodyRegistered' /\ RegisteredStartsRight'
  BY DEF Addresses, NobodyRegistered, RegisteredStartsRight, Unserved, RegMsg
<1> QED BY <1>1, <1>2, <1>3 DEF Addresses

LEMMA EndKeepsAddresses ==
    ASSUME SessionTypeOK, Addresses, NEW x \in Procs, NEW how \in Gone, Ends(x, how)
    PROVE  Addresses'
<1>1. /\ how \in Places /\ pc \in [Procs -> Places] /\ Leader \in Procs
      /\ \A q \in Participants : q \in Procs /\ <<q, Leader>> \in Links
  BY LinksOf DEF SessionTypeOK, Places
<1>2. /\ pc' = [pc EXCEPT ![x] = how]
      /\ UNCHANGED <<local, conn, nodes>>
      /\ \A l \in Links : wire'[l] \in {<<>>, wire[l]}
  BY <1>1, EndsEffect
<1>3. \A q \in Participants : pc'[q] = pc[q] \/ pc'[q] \in Gone
  BY <1>1, <1>2
<1>4. ASSUME NEW q \in Participants, pc'[q] \in {"socket", "connect", "send_reg"}
      PROVE  wire'[<<q, Leader>>] = <<>>
  <2>1. pc'[q] = pc[q]
    BY <1>3, <1>4 DEF Gone
  <2> QED BY <1>1, <1>2, <1>4, <2>1 DEF Addresses, AddressFirst
<1>5. CASE x = Leader
  <2>1. pc'[Leader] \in Gone
    BY <1>1, <1>2, <1>5
  <2> QED BY <1>4, <2>1
      DEF Addresses, AddressFirst, AddressIsRead, NobodyRegistered, RegisteredStartsRight,
          Unserved, Gone
<1>6. CASE x # Leader
  <2>1. LeaderSame
    BY <1>1, <1>2, <1>6 DEF LeaderSame, local
  <2>2. pc[Leader] \in {"elect", "socket", "listen", "accept", "recv_reg"} =>
            \A q \in Participants : wire'[<<q, Leader>>] \in {<<>>, RegMsg(q)}
    BY <1>1, <1>2 DEF Addresses, AddressFirst
  <2> QED BY <1>4, <2>1, <2>2, LeaderSameAddresses
<1> QED BY <1>5, <1>6

LEMMA ParticipantKeepsAddresses ==
    ASSUME SessionTypeOK, NothingSent, Addresses, NEW p \in Participants, ParticipantCommon(p)
    PROVE  Addresses'
<1>0. /\ p \in Procs /\ p # Leader /\ Leader \in Procs
      /\ <<p, Leader>> \in Links /\ <<Leader, p>> \in Links
      /\ pc \in [Procs -> Places] /\ wire \in [Links -> Bytes]
      /\ ret \in [Procs -> 0 .. DefaultLen] /\ messages \in [Procs -> Seq(Bytes)]
      /\ \A q \in Participants : /\ q \in Procs /\ <<q, Leader>> \in Links
                                 /\ <<Leader, p>> # <<q, Leader>>
  BY LinksOf DEF SessionTypeOK
<1>1. CASE \E how \in Gone : Ends(p, how)
  BY <1>0, <1>1, EndKeepsAddresses
<1>2. CASE ~\E how \in Gone : Ends(p, how)
  <2>1. LeaderSame /\ \E next : pc' = [pc EXCEPT ![p] = next]
    BY <1>0, <1>2 DEF ParticipantCommon, Socket, ParticipantConnects, Send, Receive,
       ReceiveMessage, Returns, GetMessage, ParticipantTakesCommitment, ParticipantFinishes,
       Goto, Gone, LeaderSame, local, nodeVars, net
  <2>2. CASE \A q \in Participants :
                 /\ wire'[<<q, Leader>>] = wire[<<q, Leader>>]
                 /\ pc'[q] \in {"socket", "connect", "send_reg"} =>
                        pc[q] \in {"socket", "connect", "send_reg"}
    BY <2>1, <2>2, LeaderSameAddresses DEF Addresses, AddressFirst
  <2>3. CASE Socket(p, "connect") \/ ParticipantTakesCommitment(p) \/ ParticipantConnects(p)
    BY <1>0, <2>2, <2>3 DEF Socket, ParticipantTakesCommitment, ParticipantConnects,
       Connect, Goto, net, nodeVars
  <2>4. CASE \/ Receive(p, Leader, "recv_key", "take_key")
             \/ Receive(p, Leader, "recv_comm", "take_comm")
    BY <1>0, <2>2, <2>4 DEF Receive, ReceiveMessage, Consume, Goto
  <2>5. CASE /\ pc[p] = "send_reg" /\ SendMessage(p, Leader, RegMsg(p))
             /\ Goto(p, "recv_key")
    <3>1. wire[<<p, Leader>>] = <<>>
      BY <2>5 DEF Addresses, AddressFirst
    <3>2. wire'[<<p, Leader>>] \in {<<>>, RegMsg(p)}
      <4>1. <<>> \o RegMsg(p) = RegMsg(p)
        BY RegMsgType, ConcatEmptySeq DEF Bytes
      <4> QED BY <1>0, <2>5, <3>1, <4>1 DEF SendMessage
    <3>3. \A q \in Participants : q # p => /\ wire'[<<q, Leader>>] = wire[<<q, Leader>>]
                                           /\ pc'[q] = pc[q]
      BY <1>0, <2>5 DEF SendMessage, Goto
    <3>4. pc'[p] = "recv_key"
      BY <1>0, <2>5 DEF Goto
    <3> QED BY <2>1, <3>2, <3>3, <3>4, LeaderSameAddresses DEF Addresses, AddressFirst
  <2>6. CASE /\ pc[p] = "send_hello" /\ SendMessage(p, Leader, <<"hello">>)
             /\ Goto(p, "close")
    <3>1. ~Unserved
      BY <2>6 DEF NothingSent, Before, Gone
    <3>2. \A q \in Participants : q # p => /\ wire'[<<q, Leader>>] = wire[<<q, Leader>>]
                                           /\ pc'[q] = pc[q]
      BY <1>0, <2>6 DEF SendMessage, Goto
    <3>3. pc'[p] = "close"
      BY <1>0, <2>6 DEF Goto
    <3> QED BY <2>1, <3>1, <3>2, <3>3, LeaderSameAddresses
        DEF Addresses, AddressFirst, Unserved
  <2>7. ~ParticipantFinishes(p)
    BY <1>2 DEF ParticipantFinishes, Gone
  <2> QED BY <1>2, <2>3, <2>4, <2>5, <2>6, <2>7 DEF ParticipantCommon, Send, Gone
<1> QED BY <1>1, <1>2

\* The address of a participant, and the address in a message, in detail.
LEMMA RegMsgIs ==
    \A p \in Participants :
        /\ RegMsg(p) \in Seq(Byte \ {"ctl"}) /\ RegMsg(p) # <<>>
        /\ Len(RegMsg(p)) \in Nat \ {0}
<1> SUFFICES ASSUME NEW p \in Participants
             PROVE  /\ RegMsg(p) \in Seq(Byte \ {"ctl"}) /\ RegMsg(p) # <<>>
                    /\ Len(RegMsg(p)) \in Nat \ {0}
  OBVIOUS
<1>1. PortOf[p] \in Seq(Byte \ {"ctl"})
  <2>1. Digits \subseteq Byte \ {"ctl"} /\ PortOf[p] \in Seq(Digits)
    BY SessionAssumption DEF Byte, Digits
  <2> QED BY <2>1
<1>2. <<"host", ":">> \in Seq(Byte \ {"ctl"})
  BY DEF Byte
<1>3. /\ RegMsg(p) \in Seq(Byte \ {"ctl"})
      /\ Len(RegMsg(p)) = 2 + Len(PortOf[p]) /\ Len(PortOf[p]) \in Nat
  BY <1>1, <1>2 DEF RegMsg
<1> QED BY <1>3, EmptySeq

LEMMA LeaderKeepsAddresses ==
    ASSUME SessionTypeOK, Addresses, LeaderCommon
    PROVE  Addresses'
<1>0. /\ Leader \in Procs /\ pc \in [Procs -> Places] /\ wire \in [Links -> Bytes]
      /\ ret \in [Procs -> 0 .. DefaultLen] /\ messages \in [Procs -> Seq(Bytes)]
      /\ \A q \in Participants : q \in Procs /\ q # Leader /\ <<q, Leader>> \in Links
      /\ conn # None => conn \in Participants
  BY LinksOf DEF SessionTypeOK
<1>1. CASE \E how \in Gone : Ends(Leader, how)
  BY <1>0, <1>1, EndKeepsAddresses
<1>2. CASE ~\E how \in Gone : Ends(Leader, how)
  <2>1. \E next : pc' = [pc EXCEPT ![Leader] = next]
    BY <1>2 DEF LeaderCommon, Socket, LeaderListens, LeaderAccepts, Receive,
       LeaderRegisters, LeaderTakesAnswer, LeaderCloses, LeaderFinishes, Goto, Gone
  <2>2. \A q \in Participants : pc'[q] = pc[q]
    BY <1>0, <2>1
  <2>3. CASE Socket(Leader, "listen") \/ LeaderListens \/ LeaderAccepts
    <3>1. /\ UNCHANGED <<wire, messages, ret, nodes>>
          /\ pc'[Leader] \in {"listen", "accept", "recv_reg"}
          /\ pc[Leader] \in {"socket", "listen", "accept"}
          /\ pc'[Leader] = "recv_reg" => conn' \in Participants
      BY <1>0, <2>3 DEF Socket, LeaderListens, Listen, LeaderAccepts, Accept, Goto,
         nodeVars, net, local
    <3> QED BY <2>2, <3>1
        DEF Addresses, AddressFirst, AddressIsRead, NobodyRegistered, RegisteredStartsRight,
            Unserved, RegMsg
  <2>4. CASE conn # None /\ Receive(Leader, conn, "recv_reg", "register")
    <3>1. /\ conn \in Participants /\ pc[Leader] = "recv_reg" /\ pc'[Leader] = "register"
          /\ messages[Leader] = <<>> /\ wire[<<conn, Leader>>] \in {<<>>, RegMsg(conn)}
          /\ UNCHANGED <<nodes, conn>>
      BY <1>0, <2>4 DEF Receive, Goto, Addresses, AddressFirst
    <3>2. "register" \in Places
      BY PlacesAre
    <3>3. PICK n \in 0 .. Len(wire[<<conn, Leader>>]), tail \in Bytes :
              LET data == SubSeq(wire[<<conn, Leader>>], 1, n)
              IN  /\ ret' = [ret EXCEPT ![Leader] = n]
                  /\ messages' = [messages EXCEPT ![Leader] = Append(@, Clean(data \o tail))]
                  /\ wire' = [wire EXCEPT ![<<conn, Leader>>] = SubSeq(@, n + 1, Len(@))]
      BY <1>0, <2>4, <3>1, <3>2, ReceiveEffect
    <3>4. SubSeq(<<>>, n + 1, Len(<<>>)) = <<>>
      BY SubSeqEmpty
    <3>5. ASSUME NEW q \in Participants, pc'[q] \in {"socket", "connect", "send_reg"}
          PROVE  wire'[<<q, Leader>>] = <<>>
      <4>1. wire[<<q, Leader>>] = <<>>
        BY <2>2, <3>5 DEF Addresses, AddressFirst
      <4> QED BY <1>0, <3>1, <3>3, <3>4, <4>1
    <3>6. ret'[Leader] = Len(RegMsg(conn)) => IsPrefix(RegMsg(conn), FirstMessage(Leader)')
      <4> SUFFICES ASSUME ret'[Leader] = Len(RegMsg(conn))
                   PROVE  IsPrefix(RegMsg(conn), FirstMessage(Leader)')
        OBVIOUS
      <4>1. n = Len(RegMsg(conn)) /\ Len(RegMsg(conn)) \in Nat \ {0}
        BY <1>0, <3>1, <3>3, RegMsgIs
      <4>2. wire[<<conn, Leader>>] = RegMsg(conn)
        BY <3>1, <4>1, EmptySeq
      <4>3. SubSeq(RegMsg(conn), 1, Len(RegMsg(conn))) = RegMsg(conn)
        BY <3>1, RegMsgIs
      <4>4. Clean(RegMsg(conn) \o tail) \in Bytes
        <5>1. RegMsg(conn) \in Bytes /\ RegMsg(conn) \o tail \in Bytes
          BY <3>1, RegMsgType DEF Bytes
        <5> QED BY <5>1, CleanType
      <4>5. messages'[Leader] = Append(<<>>, Clean(RegMsg(conn) \o tail))
        BY <1>0, <3>1, <3>3, <4>1, <4>2, <4>3
      <4>6. messages'[Leader] # <<>> /\ Head(messages'[Leader]) = Clean(RegMsg(conn) \o tail)
        <5> HIDE DEF Clean
        <5> QED BY <4>4, <4>5
      <4>7. FirstMessage(Leader)' = Clean(RegMsg(conn) \o tail)
        BY <4>6 DEF FirstMessage
      <4> QED BY <3>1, <4>7, RegMsgIs, CleanKeepsPrefix
    <3>7. AddressFirst'
      BY <3>1, <3>5 DEF AddressFirst
    <3>8. AddressIsRead'
      BY <3>1, <3>6 DEF AddressIsRead, RegMsg
    <3>9. NobodyRegistered' /\ RegisteredStartsRight'
      BY <3>1 DEF Addresses, NobodyRegistered, RegisteredStartsRight, Unserved
    <3> QED BY <3>7, <3>8, <3>9 DEF Addresses
  <2>5. CASE LeaderRegisters("send_key")
    <3> DEFINE text == FirstMessage(Leader)
               r == [host |-> Fields(text)[1],
                     port |-> IF Len(Fields(text)) = 2 THEN Atoi(Fields(text)[2]) ELSE <<>>]
    <3>1. /\ nodes' = Append(nodes, r) /\ GetMessage(Leader)
          /\ pc[Leader] = "register" /\ pc'[Leader] = "send_key"
          /\ UNCHANGED <<wire, ret, conn>>
      BY <1>0, <1>2, <2>5 DEF LeaderRegisters, Goto, net, Gone
    <3>2. nodes = <<>> /\ conn \in Participants
      BY <3>1 DEF Addresses, NobodyRegistered, AddressIsRead, Unserved
    <3>3. nodes' = <<r>>
      <4> HIDE DEF r
      <4> QED BY <3>1, <3>2
    <3>4. text \in Bytes
      BY <1>0, <3>1, GetMessageType
    <3>5. ASSUME ret[Leader] = Len(RegMsg(conn))
          PROVE  r.host = <<"host">> /\ IsPrefix(PortOf[conn], r.port)
      <4>1. IsPrefix(RegMsg(conn), text)
        BY <3>1, <3>5 DEF Addresses, AddressIsRead
      <4> HIDE DEF text
      <4>2. /\ Len(Fields(text)) \in {1, 2} /\ Fields(text)[1] = <<"host">>
            /\ Len(Fields(text)) = 2 => IsPrefix(PortOf[conn], Fields(text)[2])
            /\ Len(Fields(text)) = 1 => PortOf[conn] = <<>>
        BY <3>2, <3>4, <4>1, FieldsOfAddress
      <4>3. PortOf[conn] \in Seq(Digits)
        BY <3>2, SessionAssumption
      <4>4. CASE Len(Fields(text)) = 2
        <5>1. Fields(text)[2] \in Bytes
          BY <3>4, <4>4, FieldsType
        <5>2. IsPrefix(PortOf[conn], Atoi(Fields(text)[2]))
          BY <4>2, <4>3, <4>4, <5>1, AtoiIs
        <5> QED BY <4>2, <4>4, <5>2
      <4>5. CASE Len(Fields(text)) = 1
        <5>1. <<>> \in Bytes /\ Len(<<>>) = 0
          BY DEF Bytes
        <5>2. IsPrefix(<<>>, <<>>)
          BY <5>1, PrefixIs
        <5> QED BY <4>2, <4>5, <5>2
      <4> QED BY <4>2, <4>4, <4>5
    <3> HIDE DEF r
    <3>6. AddressFirst'
      BY <2>2, <3>1 DEF Addresses, AddressFirst
    <3>7. AddressIsRead' /\ NobodyRegistered'
      BY <3>1, <3>2 DEF AddressIsRead, NobodyRegistered
    <3>8. RegisteredStartsRight'
      <4>1. \A k \in 1 .. Len(nodes') : nodes'[k] = r
        BY <3>3
      <4> QED BY <3>1, <3>5, <4>1 DEF RegisteredStartsRight, RegMsg
    <3> QED BY <3>6, <3>7, <3>8 DEF Addresses
  <2>6. CASE conn # None /\ Receive(Leader, conn, "recv_hello", "take_hello")
    <3>1. /\ conn \in Participants /\ pc'[Leader] = "take_hello"
          /\ UNCHANGED <<nodes, conn>>
      BY <1>0, <2>6 DEF Receive, Goto
    <3>2. \E n : /\ n \in Sizes(wire[<<conn, Leader>>])
                 /\ wire' = [wire EXCEPT ![<<conn, Leader>>] = SubSeq(@, n + 1, Len(@))]
      BY <2>6 DEF Receive, ReceiveMessage, Consume
    <3>3. AddressFirst'
      <4> SUFFICES ASSUME NEW q \in Participants, pc'[q] \in {"socket", "connect", "send_reg"}
                   PROVE  wire'[<<q, Leader>>] = <<>>
        BY <3>1 DEF AddressFirst
      <4>1. wire[<<q, Leader>>] = <<>>
        BY <2>2 DEF Addresses, AddressFirst
      <4>2. CASE q # conn
        BY <1>0, <3>1, <3>2, <4>1, <4>2
      <4>3. CASE q = conn
        <5>1. Sizes(<<>>) = {0}
          BY NodeAssumption DEF Sizes
        <5>2. SubSeq(<<>>, 0 + 1, Len(<<>>)) = <<>>
          BY SubSeqEmpty
        <5> QED BY <1>0, <3>1, <3>2, <4>1, <4>3, <5>1, <5>2
      <4> QED BY <4>2, <4>3
    <3> QED BY <3>1, <3>3
        DEF Addresses, AddressIsRead, NobodyRegistered, RegisteredStartsRight, Unserved
  <2>7. CASE LeaderTakesAnswer \/ LeaderCloses
    <3>1. /\ pc'[Leader] \in {"close", "close_listener"}
          /\ \A q \in Participants : wire'[<<q, Leader>>] \in {<<>>, wire[<<q, Leader>>]}
      <4>1. LeaderCloses => \A l \in Links : wire'[l] \in {<<>>, wire[l]}
        BY CloseEffect DEF LeaderCloses
      <4> QED BY <1>0, <2>7, <4>1 DEF LeaderTakesAnswer, LeaderCloses, Goto, net
    <3>2. AddressFirst'
      BY <2>2, <3>1 DEF Addresses, AddressFirst
    <3> QED BY <3>1, <3>2
        DEF Addresses, AddressIsRead, NobodyRegistered, RegisteredStartsRight, Unserved
  <2>8. ~LeaderFinishes
    BY <1>2 DEF LeaderFinishes, Gone
  <2> QED BY <2>3, <2>4, <2>5, <2>6, <2>7, <2>8 DEF LeaderCommon
<1> QED BY <1>1, <1>2

=============================================================================
