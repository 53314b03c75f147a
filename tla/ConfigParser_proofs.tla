------------------------ MODULE ConfigParser_proofs ------------------------
(***************************************************************************)
(* What every parse keeps, for any source, any configuration and fallback  *)
(* it starts from, any files, and whatever the expressions yield: scopes   *)
(* nest and are restored, files are included at the root and not in        *)
(* themselves, at most one block of an @if is parsed, a copy is whole, and  *)
(* braces and names are counted right.                                     *)
(***************************************************************************)
EXTENDS ConfigParser, FiniteSetTheorems, SequenceTheorems, TLAPS

-----------------------------------------------------------------------------
(* the inductive invariant *)

FileFrame == [kind : {"file"}, name : Readable, left : Int, braces : Int]
ScopeFrame == [kind : {"scope"}, old : Seq(Names)]
BlockFrame == [kind : {"block"}, done : BOOLEAN, last : BOOLEAN, ran : {0, 1}]
SkipFrame == [kind : {"skip"}, done : BOOLEAN, last : BOOLEAN, ran : {0, 1}, depth : Int]
ChainFrame == [kind : {"chain"}, done : BOOLEAN, ran : {0, 1}]
CopyFrame == [kind : {"copy"}, from : Seq(Names), list : SUBSET Seq(Names), rest : SUBSET Seq(Names)]
Frame == FileFrame \cup ScopeFrame \cup BlockFrame \cup SkipFrame \cup ChainFrame \cup CopyFrame

\* how many blocks of a chain were parsed follows from whether one was true
BlockCounted(f) ==
  /\ f.kind \in {"block", "skip", "chain"} => f.ran = (IF f.done THEN 1 ELSE 0)
  /\ f.kind = "block" => f.done
  /\ f.kind \in {"block", "skip"} /\ f.last => f.done

IsOpened(fs, n) == fs[n].kind = "scope"
\* scopes that are open remember what to return to, and files are outside of them
ScopesKept(fs, c, start) ==
  /\ (\A n \in 1..Len(fs) : ~IsOpened(fs, n)) => c = start
  /\ \A n \in 1..Len(fs) : IsOpened(fs, n) =>
       /\ c # <<>>
       /\ (\A m \in 1..(n - 1) : ~IsOpened(fs, m)) => fs[n].old = start
       /\ (\E m \in 1..(n - 1) : IsOpened(fs, m)) => fs[n].old # <<>>
  /\ \A n \in 2..Len(fs) : fs[n].kind = "file" => start = <<>> /\ \A m \in 1..(n - 1) : ~IsOpened(fs, m)

\* each leads back along the path to the current one
Chained(fs, c) ==
  \A n \in 1..Len(fs) : IsOpened(fs, n) =>
    IsPrefix(fs[n].old, c) /\ \A m \in 1..(n - 1) : IsOpened(fs, m) => IsPrefix(fs[m].old, fs[n].old)

Nesting(fs, c, start) ==
  /\ fs \in Seq(Frame)
  /\ fs # <<>> => fs[1].kind = "file"
  /\ ScopesKept(fs, c, start) /\ Chained(fs, c)
  /\ \A n \in 1..Len(fs) : BlockCounted(fs[n])
  /\ \A n \in 1..(Len(fs) - 1) : fs[n].kind # "copy"

\* what is copied is below the other scope, and what has been copied is there
Goal(base, from, p) == base \o NewName(from, p)
CopiedSoFar(its, base, cp) ==
  /\ cp.rest \subseteq cp.list
  /\ \A p \in cp.list : IsStrictPrefix(cp.from, p) /\ RootLookup(its, p) # NoItem
  /\ \/ \E p \in cp.list : IsPrefix(cp.from, Goal(base, cp.from, p))
     \/ \A p \in cp.list \ cp.rest :
          Goal(base, cp.from, p) \in DOMAIN its /\ its[Goal(base, cp.from, p)] = RootLookup(its, p)

ConfigOK == LegalItems(items) /\ curr \in Seq(Names) /\ started \in Seq(Names) /\ StandsIn(items, curr)
IInv ==
  /\ ConfigOK
  /\ included \in Seq(Readable)
  /\ result \in {"none", "running", "ok", "error", "looping"}
  /\ (result \in {"running", "looping"}) = (frames # <<>>)
  /\ result # "error" => Nesting(frames, curr, started)
  /\ result = "error" => IsPrefix(started, curr)
  /\ result = "running" /\ Top.kind = "copy" => CopiedSoFar(items, curr, Top)
  /\ NoCircularInclude
-----------------------------------------------------------------------------
(* smallest and largest numbers *)

LEMMA SmallestOf ==
    ASSUME NEW S \in SUBSET Nat, S # {}
    PROVE  \E m \in S : \A k \in S : m <= k
<1> DEFINE U == {0..n : n \in S}
           R == StrictSubsetOrdering(Nat)
<1>1. U \subseteq FiniteSubsetsOf(Nat) /\ U # {}
  <2>1. \A n \in Nat : 0..n \in FiniteSubsetsOf(Nat)
    BY FS_Interval DEF FiniteSubsetsOf
  <2> QED BY <2>1
<1>2. PICK t \in U : \A y \in U : <<y, t>> \notin R
  <2> HIDE DEF U
  <2>1. IsWellFoundedOn(R, FiniteSubsetsOf(Nat))
    BY FS_StrictSubsetOrderingWellFounded
  <2> HIDE DEF R
  <2> QED BY <1>1, <2>1, WFMin
<1>3. PICK x \in S : t = 0..x
  OBVIOUS
<1>4. ASSUME NEW k \in S, k < x PROVE FALSE
  <2>1. 0..k \subseteq 0..x /\ 0..k # 0..x /\ 0..x \subseteq Nat /\ 0..k \in U
    BY <1>4
  <2>2. <<0..k, 0..x>> \in R
    BY <2>1 DEF StrictSubsetOrdering
  <2> QED BY <1>2, <1>3, <2>1, <2>2
<1> QED BY <1>4

LEMMA LargestOf ==
    ASSUME NEW n \in Nat, NEW S \in SUBSET (1..n), S # {}
    PROVE  \E m \in S : \A k \in S : k <= m
<1> DEFINE D == {n - k : k \in S}
<1>1. D \in SUBSET Nat /\ D # {}
  <2>1. \A k \in S : n - k \in Nat
    OBVIOUS
  <2>2. \A k \in S : n - k \in D
    OBVIOUS
  <2> QED BY <2>1, <2>2
<1>2. PICK d \in D : \A e \in D : d <= e
  <2> HIDE DEF D
  <2> QED BY <1>1, SmallestOf
<1>3. PICK m \in S : d = n - m
  OBVIOUS
<1>4. ASSUME NEW k \in S PROVE n - k \in D
  OBVIOUS
<1> HIDE DEF D
<1>5. \A k \in S : k <= m
  BY <1>2, <1>3, <1>4
<1> QED BY <1>5

-----------------------------------------------------------------------------
(* paths *)

LEMMA PathBelow ==
    ASSUME NEW base \in Seq(Names), NEW rel \in Seq(Names), NEW i \in 0..Len(rel)
    PROVE  /\ T!Upto(rel, i) \in Seq(Names) /\ Len(T!Upto(rel, i)) = i
           /\ \A j \in 1..i : T!Upto(rel, i)[j] = rel[j]
           /\ base \o T!Upto(rel, i) \in Seq(Names)
<1>1. i \in Nat /\ i <= Len(rel) /\ \A j \in 1..i : rel[j] \in Names
  OBVIOUS
<1>2. /\ SubSeq(rel, 1, i) \in Seq(Names)
      /\ Len(SubSeq(rel, 1, i)) = IF 1 <= i THEN i - 1 + 1 ELSE 0
      /\ \A j \in 1..(i - 1 + 1) : SubSeq(rel, 1, i)[j] = rel[1 + j - 1]
  BY <1>1, SubSeqProperties
<1>3. i - 1 + 1 = i /\ (~(1 <= i) => i = 0) /\ \A j \in 1..i : 1 + j - 1 = j
  BY <1>1
<1>4. Len(SubSeq(rel, 1, i)) = i /\ \A j \in 1..i : SubSeq(rel, 1, i)[j] = rel[j]
  BY <1>2, <1>3
<1> QED BY <1>2, <1>4 DEF T!Upto

LEMMA PrefixAt ==
    ASSUME NEW s \in Seq(Names), NEW t \in Seq(Names)
    PROVE  IsPrefix(s, t) <=> Len(s) <= Len(t) /\ \A i \in 1..Len(s) : s[i] = t[i]
<1>1. T!Upto(s, Len(s)) = s
  BY SubSeqFull DEF T!Upto
<1>2. ASSUME Len(s) <= Len(t)
      PROVE  s = T!Upto(t, Len(s)) <=> \A i \in 1..Len(s) : s[i] = t[i]
  <2>1. Len(s) \in 0..Len(t)
    BY <1>2
  <2>2. /\ T!Upto(t, Len(s)) \in Seq(Names) /\ Len(T!Upto(t, Len(s))) = Len(s)
        /\ \A i \in 1..Len(s) : T!Upto(t, Len(s))[i] = t[i]
    BY <2>1, PathBelow
  <2>3. (\A i \in 1..Len(s) : s[i] = T!Upto(t, Len(s))[i]) => s = T!Upto(t, Len(s))
    BY <2>2, SeqEqual
  <2> QED BY <2>2, <2>3
<1> QED BY <1>1, <1>2 DEF IsPrefix, T!Upto

LEMMA PrefixOfPrefix ==
    ASSUME NEW s \in Seq(Names), NEW t \in Seq(Names), NEW u \in Seq(Names), IsPrefix(s, t), IsPrefix(t, u)
    PROVE  IsPrefix(s, u)
<1>1. Len(s) <= Len(t) /\ Len(t) <= Len(u)
  BY PrefixAt
<1>2. \A i \in 1..Len(s) : s[i] = t[i]
  BY PrefixAt
<1>3. \A i \in 1..Len(t) : t[i] = u[i]
  BY PrefixAt
<1>4. Len(s) <= Len(u) /\ \A i \in 1..Len(s) : s[i] = u[i]
  BY <1>1, <1>2, <1>3
<1> QED BY <1>4, PrefixAt

LEMMA Joined ==
    ASSUME NEW s \in Seq(Names), NEW t \in Seq(Names)
    PROVE  /\ s \o t \in Seq(Names) /\ Len(s \o t) = Len(s) + Len(t)
           /\ \A i \in 1..Len(s) : (s \o t)[i] = s[i]
           /\ \A i \in 1..Len(t) : (s \o t)[Len(s) + i] = t[i]
<1>1. /\ s \o t \in Seq(Names) /\ Len(s \o t) = Len(s) + Len(t)
      /\ \A i \in 1..(Len(s) + Len(t)) : (s \o t)[i] = IF i <= Len(s) THEN s[i] ELSE t[i - Len(s)]
  BY ConcatProperties
<1>2. \A i \in 1..Len(t) : Len(s) + i \in 1..(Len(s) + Len(t)) /\ ~(Len(s) + i <= Len(s)) /\ Len(s) + i - Len(s) = i
  OBVIOUS
<1>3. \A i \in 1..Len(s) : i \in 1..(Len(s) + Len(t)) /\ i <= Len(s)
  OBVIOUS
<1> QED BY <1>1, <1>2, <1>3

-----------------------------------------------------------------------------
(* frames: what is pushed, popped and read *)

LEMMA FrontLast ==
    ASSUME NEW S, NEW s \in Seq(S), s # <<>>
    PROVE  /\ Front(s) \in Seq(S) /\ Len(s) \in Nat \ {0} /\ Len(Front(s)) = Len(s) - 1
           /\ \A n \in 1..(Len(s) - 1) : Front(s)[n] = s[n]
           /\ Last(s) = s[Len(s)] /\ Last(s) \in S
<1>1. Len(s) \in Nat \ {0}
  BY EmptySeq
<1>2. /\ SubSeq(s, 1, Len(s) - 1) \in Seq(S) /\ Len(SubSeq(s, 1, Len(s) - 1)) = Len(s) - 1
      /\ \A n \in 1..(Len(s) - 1) : SubSeq(s, 1, Len(s) - 1)[n] = s[n]
  <2> DEFINE m == Len(s) - 1
  <2>1. m \in Nat /\ \A i \in 1..m : s[i] \in S
    BY <1>1
  <2> HIDE DEF m
  <2>2. /\ SubSeq(s, 1, m) \in Seq(S)
        /\ Len(SubSeq(s, 1, m)) = IF 1 <= m THEN m - 1 + 1 ELSE 0
        /\ \A i \in 1..(m - 1 + 1) : SubSeq(s, 1, m)[i] = s[1 + i - 1]
    BY <2>1, SubSeqProperties
  <2>3. m - 1 + 1 = m /\ (~(1 <= m) => m = 0) /\ \A i \in 1..m : 1 + i - 1 = i
    BY <2>1
  <2>4. Len(SubSeq(s, 1, m)) = m /\ \A i \in 1..m : SubSeq(s, 1, m)[i] = s[i]
    BY <2>2, <2>3
  <2> QED BY <2>2, <2>4 DEF m
<1>3. s[Len(s)] \in S
  BY <1>1
<1> QED BY <1>1, <1>2, <1>3 DEF Front, Last

LEMMA Kinds ==
    ASSUME NEW f \in Frame
    PROVE  /\ f.kind \in {"file", "scope", "block", "skip", "chain", "copy"}
           /\ f.kind = "file" => f \in FileFrame
           /\ f.kind = "scope" => f \in ScopeFrame
           /\ f.kind = "block" => f \in BlockFrame
           /\ f.kind = "skip" => f \in SkipFrame
           /\ f.kind = "chain" => f \in ChainFrame
           /\ f.kind = "copy" => f \in CopyFrame
BY DEF Frame, FileFrame, ScopeFrame, BlockFrame, SkipFrame, ChainFrame, CopyFrame

LEMMA InnermostIsFile ==
    ASSUME frames \in Seq(Frame), frames # <<>>, frames[1].kind = "file"
    PROVE  /\ Innermost \in 1..Len(frames) /\ frames[Innermost] \in FileFrame
           /\ Files \subseteq 1..Len(frames) /\ \A j \in Files : j <= Innermost
<1>1. Len(frames) \in Nat /\ Len(frames) # 0 /\ DOMAIN frames = 1..Len(frames)
  BY EmptySeq
<1>2. Files \in SUBSET (1..Len(frames)) /\ 1 \in Files
  BY <1>1 DEF Files
<1>3. \E m \in Files : \A k \in Files : k <= m
  BY <1>1, <1>2, LargestOf
<1>4. Innermost \in Files /\ \A j \in Files : j <= Innermost
  BY <1>3 DEF Innermost
<1>5. frames[Innermost].kind = "file" /\ frames[Innermost] \in Frame
  BY <1>1, <1>2, <1>4 DEF Files
<1> QED BY <1>2, <1>4, <1>5, Kinds

\* The same frames, but for what is counted of the files.
Alike(fs, gs) ==
  /\ Len(gs) = Len(fs)
  /\ \A n \in 1..Len(fs) : gs[n] = fs[n] \/ (gs[n] \in FileFrame /\ fs[n] \in FileFrame)

LEMMA ReadIsAlike ==
    ASSUME frames \in Seq(Frame), frames # <<>>, frames[1].kind = "file", NEW b \in Int
    PROVE  Read(b) \in Seq(Frame) /\ Alike(frames, Read(b))
<1>1. Innermost \in 1..Len(frames) /\ frames[Innermost] \in FileFrame
  BY InnermostIsFile
<1> DEFINE f == frames[Innermost]
           g == [f EXCEPT !.left = @ - 1, !.braces = @ + b]
<1>2. g \in FileFrame
  <2>1. [f EXCEPT !.left = @ - 1] \in FileFrame
    BY <1>1 DEF FileFrame
  <2>2. \A h \in FileFrame, n \in Int : [h EXCEPT !.braces = n] \in FileFrame
    BY DEF FileFrame
  <2>3. f.braces + b \in Int
    BY <1>1 DEF FileFrame
  <2> QED BY <2>1, <2>2, <2>3
<1>3. Read(b) = [frames EXCEPT ![Innermost] = g]
  BY <1>1 DEF Read, FileFrame
<1> HIDE DEF g
<1>4. g \in Frame
  BY <1>2 DEF Frame
<1>5. Read(b) \in Seq(Frame) /\ Len(Read(b)) = Len(frames)
  BY <1>1, <1>3, <1>4
<1>6. \A n \in 1..Len(frames) : Read(b)[n] = frames[n] \/ (Read(b)[n] \in FileFrame /\ frames[n] \in FileFrame)
  BY <1>1, <1>2, <1>3
<1> QED BY <1>5, <1>6 DEF Alike

LEMMA NestingAlike ==
    ASSUME NEW fs, NEW gs \in Seq(Frame), NEW c, NEW start, Nesting(fs, c, start), Alike(fs, gs)
    PROVE  Nesting(gs, c, start)
<1>1. fs \in Seq(Frame) /\ Len(fs) \in Nat /\ Len(gs) = Len(fs)
  BY DEF Nesting, Alike
<1>2. \A n \in 1..Len(fs) : gs[n].kind = fs[n].kind /\ (fs[n].kind # "file" => gs[n] = fs[n])
  BY DEF Alike, FileFrame
<1>3. gs # <<>> => gs[1].kind = "file"
  <2>1. gs # <<>> => fs # <<>> /\ 1 \in 1..Len(fs)
    BY <1>1, EmptySeq
  <2> QED BY <1>2, <2>1 DEF Nesting
<1>7. Chained(gs, c)
  <2>1. Chained(fs, c)
    BY DEF Nesting
  <2>2. \A n \in 1..Len(fs) : IsOpened(gs, n) = IsOpened(fs, n) /\ (IsOpened(fs, n) => gs[n].old = fs[n].old)
    BY <1>2 DEF IsOpened
  <2>3. \A n \in 1..Len(fs) : 1..(n - 1) \subseteq 1..Len(fs)
    BY <1>1
  <2> QED BY <1>1, <2>1, <2>2, <2>3 DEF Chained
<1>4. ScopesKept(gs, c, start)
  <2>1. ScopesKept(fs, c, start)
    BY DEF Nesting
  <2>2. \A n \in 1..Len(fs) : IsOpened(gs, n) = IsOpened(fs, n) /\ (IsOpened(fs, n) => gs[n].old = fs[n].old)
    BY <1>2 DEF IsOpened
  <2>3. (\A n \in 1..Len(gs) : ~IsOpened(gs, n)) => c = start
    BY <1>1, <2>1, <2>2 DEF ScopesKept
  <2>4. \A n \in 1..Len(gs) : IsOpened(gs, n) =>
          /\ c # <<>>
          /\ (\A m \in 1..(n - 1) : ~IsOpened(gs, m)) => gs[n].old = start
          /\ (\E m \in 1..(n - 1) : IsOpened(gs, m)) => gs[n].old # <<>>
    BY <1>1, <2>1, <2>2 DEF ScopesKept
  <2>5. \A n \in 2..Len(gs) : gs[n].kind = "file" => start = <<>> /\ \A m \in 1..(n - 1) : ~IsOpened(gs, m)
    BY <1>1, <1>2, <2>1, <2>2 DEF ScopesKept
  <2> QED BY <2>3, <2>4, <2>5 DEF ScopesKept
<1>5. \A n \in 1..Len(gs) : BlockCounted(gs[n])
  BY <1>1, <1>2 DEF Nesting, BlockCounted
<1>6. \A n \in 1..(Len(gs) - 1) : gs[n].kind # "copy"
  BY <1>1, <1>2 DEF Nesting
<1> QED BY <1>3, <1>4, <1>5, <1>6, <1>7 DEF Nesting

\* What is popped was not a scope, or the scope returns to what it has kept.
LEMMA NestingFront ==
    ASSUME NEW fs, fs # <<>>, NEW c, NEW start, NEW d, Nesting(fs, c, start),
           IF Last(fs).kind = "scope" THEN d = Last(fs).old ELSE d = c
    PROVE  Nesting(Front(fs), d, start)
<1> DEFINE N == Len(fs)
           gs == Front(fs)
<1>1. /\ fs \in Seq(Frame) /\ N \in Nat \ {0} /\ gs \in Seq(Frame) /\ Len(gs) = N - 1
      /\ \A n \in 1..(N - 1) : gs[n] = fs[n]
      /\ Last(fs) = fs[N]
  BY FrontLast DEF Nesting
<1> HIDE DEF gs, N
<1>2. gs # <<>> => gs[1].kind = "file"
  <2>1. gs # <<>> => 1 \in 1..(N - 1)
    BY <1>1, EmptySeq
  <2> QED BY <1>1, <2>1 DEF Nesting
<1>3. ScopesKept(gs, d, start)
  <2>1. ScopesKept(fs, c, start) /\ N = Len(fs)
    BY DEF Nesting, N
  <2>4. \A n \in 1..(N - 1) : IsOpened(gs, n) = IsOpened(fs, n)
    BY <1>1 DEF IsOpened
  <2>2. CASE Last(fs).kind = "scope"
    <3>1. IsOpened(fs, N) /\ d = fs[N].old
      BY <1>1, <2>2 DEF IsOpened
    <3>2. (\A n \in 1..(N - 1) : ~IsOpened(fs, n)) => d = start
      BY <1>1, <2>1, <3>1 DEF ScopesKept
    <3>3. (\E n \in 1..(N - 1) : IsOpened(fs, n)) => d # <<>>
      BY <1>1, <2>1, <3>1 DEF ScopesKept
    <3>4. d # <<>> \/ \A n \in 1..(N - 1) : ~IsOpened(fs, n)
      BY <3>3
    <3>5. ASSUME NEW n \in 1..Len(gs), IsOpened(gs, n)
          PROVE  /\ d # <<>>
                 /\ (\A m \in 1..(n - 1) : ~IsOpened(gs, m)) => gs[n].old = start
                 /\ (\E m \in 1..(n - 1) : IsOpened(gs, m)) => gs[n].old # <<>>
      <4>1. n \in 1..(N - 1) /\ n \in 1..N /\ IsOpened(fs, n) /\ gs[n] = fs[n] /\ 1..(n - 1) \subseteq 1..(N - 1)
        BY <1>1, <2>4, <3>5
      <4> QED BY <2>1, <2>4, <3>4, <4>1 DEF ScopesKept
    <3>6. ASSUME NEW n \in 2..Len(gs), gs[n].kind = "file"
          PROVE  start = <<>> /\ \A m \in 1..(n - 1) : ~IsOpened(gs, m)
      <4>1. n \in 1..(N - 1) /\ n \in 2..N /\ gs[n] = fs[n] /\ 1..(n - 1) \subseteq 1..(N - 1)
        BY <1>1
      <4> QED BY <2>1, <2>4, <3>6, <4>1 DEF ScopesKept
    <3>7. (\A n \in 1..Len(gs) : ~IsOpened(gs, n)) => d = start
      BY <1>1, <2>4, <3>2
    <3> QED BY <3>5, <3>6, <3>7 DEF ScopesKept
  <2>3. CASE Last(fs).kind # "scope"
    <3>1. ~IsOpened(fs, N) /\ d = c
      BY <1>1, <2>3 DEF IsOpened
    <3> QED BY <1>1, <2>1, <3>1 DEF ScopesKept, IsOpened
  <2> QED BY <2>2, <2>3
<1>6. Chained(gs, d)
  <2>1. Chained(fs, c) /\ N = Len(fs)
    BY DEF Nesting, N
  <2>2. \A n \in 1..(N - 1) : IsOpened(gs, n) = IsOpened(fs, n)
    BY <1>1 DEF IsOpened
  <2>3. ASSUME NEW n \in 1..(N - 1), IsOpened(fs, n) PROVE IsPrefix(fs[n].old, d)
    <3>1. CASE Last(fs).kind = "scope"
      <4>1. IsOpened(fs, N) /\ d = fs[N].old /\ N \in 1..N
        BY <1>1, <3>1 DEF IsOpened
      <4> QED BY <2>1, <2>3, <4>1 DEF Chained
    <3>2. CASE Last(fs).kind # "scope"
      <4>1. d = c /\ n \in 1..N
        BY <1>1, <3>2
      <4> QED BY <2>1, <2>3, <4>1 DEF Chained
    <3> QED BY <3>1, <3>2
  <2>4. \A n \in 1..(N - 1) : n \in 1..N /\ 1..(n - 1) \subseteq 1..(N - 1)
    BY <1>1
  <2> QED BY <1>1, <2>1, <2>2, <2>3, <2>4 DEF Chained
<1>4. \A n \in 1..Len(gs) : BlockCounted(gs[n])
  BY <1>1 DEF Nesting, N
<1>5. \A n \in 1..(Len(gs) - 1) : gs[n].kind # "copy"
  BY <1>1 DEF Nesting, N
<1> QED BY <1>1, <1>2, <1>3, <1>4, <1>5, <1>6 DEF Nesting, gs

\* What is pushed is not on a copy, a scope leads away from the root, and a
\* file is pushed at the root.
LEMMA NestingAppend ==
    ASSUME NEW fs, NEW c, NEW start, NEW d, NEW f \in Frame, Nesting(fs, c, start), BlockCounted(f),
           fs = <<>> => f.kind = "file",
           fs # <<>> => Last(fs).kind # "copy",
           f.kind = "file" => c = <<>> \/ fs = <<>>,
           c \in Seq(Names), d \in Seq(Names),
           IF f.kind = "scope" THEN d # <<>> /\ f.old = c /\ IsPrefix(c, d) ELSE d = c
    PROVE  Nesting(Append(fs, f), d, start)
<1> DEFINE N == Len(fs)
           gs == Append(fs, f)
<1>1. /\ fs \in Seq(Frame) /\ N \in Nat /\ gs \in Seq(Frame) /\ Len(gs) = N + 1
      /\ \A n \in 1..N : gs[n] = fs[n]
      /\ gs[N + 1] = f
  BY DEF Nesting
<1>2. N = 0 <=> fs = <<>>
  BY <1>1, EmptySeq
<1>3. fs # <<>> => Last(fs) = fs[N]
  BY DEF Last
<1> HIDE DEF gs, N
<1>4. gs[1].kind = "file"
  BY <1>1, <1>2 DEF Nesting
<1>5. ScopesKept(gs, d, start)
  <2>1. ScopesKept(fs, c, start) /\ N = Len(fs)
    BY DEF Nesting, N
  <2>2. \A n \in 1..N : IsOpened(gs, n) = IsOpened(fs, n)
    BY <1>1 DEF IsOpened
  <2>3. CASE f.kind = "scope"
    <3>1. IsOpened(gs, N + 1) /\ d # <<>> /\ gs[N + 1].old = c
      BY <1>1, <2>3 DEF IsOpened
    <3>2. gs[N + 1].kind # "file"
      BY <1>1, <2>3
    <3>3. (\A m \in 1..N : ~IsOpened(fs, m)) => c = start
      BY <2>1 DEF ScopesKept
    <3>4. (\E m \in 1..N : IsOpened(fs, m)) => c # <<>>
      BY <2>1 DEF ScopesKept
    <3>5. ASSUME NEW n \in 1..(N + 1), IsOpened(gs, n)
          PROVE  /\ d # <<>>
                 /\ (\A m \in 1..(n - 1) : ~IsOpened(gs, m)) => gs[n].old = start
                 /\ (\E m \in 1..(n - 1) : IsOpened(gs, m)) => gs[n].old # <<>>
      <4>1. CASE n = N + 1
        <5>1. 1..(n - 1) = 1..N
          BY <1>1, <4>1
        <5> QED BY <2>2, <3>1, <3>3, <3>4, <4>1, <5>1
      <4>2. CASE n # N + 1
        <5>1. n \in 1..N /\ 1..(n - 1) \subseteq 1..N
          BY <1>1, <4>2
        <5>2. IsOpened(fs, n) /\ gs[n].old = fs[n].old
          BY <1>1, <2>2, <3>5, <5>1
        <5> QED BY <2>1, <2>2, <3>1, <5>1, <5>2 DEF ScopesKept
      <4> QED BY <4>1, <4>2
    <3>6. ASSUME NEW n \in 2..(N + 1), gs[n].kind = "file"
          PROVE  start = <<>> /\ \A m \in 1..(n - 1) : ~IsOpened(gs, m)
      <4>1. n \in 2..N /\ 1..(n - 1) \subseteq 1..N /\ gs[n] = fs[n]
        BY <1>1, <3>2, <3>6
      <4> QED BY <2>1, <2>2, <3>6, <4>1 DEF ScopesKept
    <3>7. N + 1 \in 1..Len(gs)
      BY <1>1
    <3> QED BY <1>1, <3>1, <3>5, <3>6, <3>7 DEF ScopesKept
  <2>4. CASE f.kind # "scope"
    <3>1. ~IsOpened(gs, N + 1) /\ d = c
      BY <1>1, <2>4 DEF IsOpened
    <3>2. gs[N + 1].kind = "file" /\ N # 0 => start = <<>> /\ \A m \in 1..N : ~IsOpened(fs, m)
      BY <1>1, <1>2, <2>1 DEF ScopesKept
    <3>5. ASSUME NEW n \in 1..(N + 1), IsOpened(gs, n)
          PROVE  /\ d # <<>>
                 /\ (\A m \in 1..(n - 1) : ~IsOpened(gs, m)) => gs[n].old = start
                 /\ (\E m \in 1..(n - 1) : IsOpened(gs, m)) => gs[n].old # <<>>
      <4>1. n \in 1..N /\ 1..(n - 1) \subseteq 1..N
        BY <1>1, <3>1, <3>5
      <4>2. IsOpened(fs, n) /\ gs[n].old = fs[n].old
        BY <1>1, <2>2, <3>5, <4>1
      <4> QED BY <2>1, <2>2, <3>1, <4>1, <4>2 DEF ScopesKept
    <3>6. ASSUME NEW n \in 2..(N + 1), gs[n].kind = "file"
          PROVE  start = <<>> /\ \A m \in 1..(n - 1) : ~IsOpened(gs, m)
      <4>1. CASE n = N + 1
        <5>1. 1..(n - 1) = 1..N
          BY <1>1, <4>1
        <5>2. N # 0
          BY <1>1, <4>1
        <5> QED BY <2>2, <3>2, <3>6, <4>1, <5>1, <5>2
      <4>2. CASE n # N + 1
        <5>1. n \in 2..N /\ 1..(n - 1) \subseteq 1..N /\ gs[n] = fs[n]
          BY <1>1, <4>2
        <5> QED BY <2>1, <2>2, <3>6, <5>1 DEF ScopesKept
      <4> QED BY <4>1, <4>2
    <3>7. (\A n \in 1..(N + 1) : ~IsOpened(gs, n)) => d = start
      <4>1. \A n \in 1..N : n \in 1..(N + 1)
        BY <1>1
      <4> QED BY <2>1, <2>2, <3>1, <4>1 DEF ScopesKept
    <3> QED BY <1>1, <3>5, <3>6, <3>7 DEF ScopesKept
  <2> QED BY <2>3, <2>4
<1>8. Chained(gs, d)
  <2>1. Chained(fs, c) /\ N = Len(fs)
    BY DEF Nesting, N
  <2>2. \A n \in 1..N : IsOpened(gs, n) = IsOpened(fs, n) /\ gs[n] = fs[n]
    BY <1>1 DEF IsOpened
  <2>3. ASSUME NEW n \in 1..N, IsOpened(fs, n) PROVE IsPrefix(fs[n].old, d)
    <3>1. IsPrefix(fs[n].old, c) /\ fs[n].old \in Seq(Names)
      <4>1. fs[n] \in Frame
        BY <1>1 DEF N
      <4> QED BY <2>1, <2>3, <4>1, Kinds DEF Chained, ScopeFrame, IsOpened
    <3>2. CASE f.kind = "scope"
      BY <3>1, <3>2, PrefixOfPrefix
    <3>3. CASE f.kind # "scope"
      BY <3>1, <3>3
    <3> QED BY <3>2, <3>3
  <2>4. ASSUME IsOpened(gs, N + 1)
        PROVE  IsPrefix(gs[N + 1].old, d) /\ \A m \in 1..N : IsOpened(gs, m) => IsPrefix(gs[m].old, gs[N + 1].old)
    <3>1. gs[N + 1].old = c /\ IsPrefix(c, d)
      BY <1>1, <2>4 DEF IsOpened
    <3> QED BY <2>1, <2>2, <3>1 DEF Chained
  <2>5. ASSUME NEW n \in 1..(N + 1), IsOpened(gs, n)
        PROVE  IsPrefix(gs[n].old, d) /\ \A m \in 1..(n - 1) : IsOpened(gs, m) => IsPrefix(gs[m].old, gs[n].old)
    <3>1. CASE n = N + 1
      <4>1. 1..(n - 1) = 1..N
        BY <1>1, <3>1
      <4> QED BY <2>4, <2>5, <3>1, <4>1
    <3>2. CASE n # N + 1
      <4>1. n \in 1..N /\ 1..(n - 1) \subseteq 1..N
        BY <1>1, <3>2
      <4> QED BY <2>1, <2>2, <2>3, <2>5, <4>1 DEF Chained
    <3> QED BY <3>1, <3>2
  <2> QED BY <1>1, <2>5 DEF Chained
<1>6. \A n \in 1..Len(gs) : BlockCounted(gs[n])
  BY <1>1 DEF Nesting, N
<1>7. \A n \in 1..(Len(gs) - 1) : gs[n].kind # "copy"
  BY <1>1, <1>2, <1>3 DEF Nesting, N
<1> QED BY <1>1, <1>4, <1>5, <1>6, <1>7, <1>8 DEF Nesting, gs

-----------------------------------------------------------------------------
(* the tree of the configuration: what operations on it keep *)

LEMMA OverLegal ==
    ASSUME NEW f, NEW g, LegalItems(f), LegalItems(g)
    PROVE  LegalItems(T!Over(f, g))
BY DEF LegalItems, T!Over

\* Scopes are made down to the end of the path, or to the first variable on it.
Reach(f, base, rel) ==
    IF T!Obstacles(f, base, rel) = {} THEN Len(rel) ELSE T!FirstObstacle(f, base, rel) - 1
NewScopes(base, rel, last) == [p \in {base \o T!Upto(rel, i) : i \in 1..last} |-> T!Scope]

LEMMA ReachIsOnPath ==
    ASSUME NEW f, NEW base, NEW rel \in Seq(Names)
    PROVE  /\ Reach(f, base, rel) \in 0..Len(rel)
           /\ T!WithScopes(f, base, rel) = T!Over(f, NewScopes(base, rel, Reach(f, base, rel)))
<1> DEFINE O == T!Obstacles(f, base, rel)
<1>1. O \in SUBSET (1..Len(rel)) /\ O \in SUBSET Nat
  BY DEF T!Obstacles
<1>2. ASSUME O # {} PROVE T!FirstObstacle(f, base, rel) \in 1..Len(rel)
  <2>1. \E m \in O : \A k \in O : m <= k
    <3> HIDE DEF O
    <3> QED BY <1>1, <1>2, SmallestOf
  <2>2. T!FirstObstacle(f, base, rel) \in O
    BY <2>1 DEF T!FirstObstacle
  <2> QED BY <1>1, <2>2
<1>3. Reach(f, base, rel) \in 0..Len(rel)
  <2> HIDE DEF O
  <2> QED BY <1>2 DEF Reach, O
<1> QED BY <1>3 DEF T!WithScopes, Reach, NewScopes

LEMMA WithScopesLegal ==
    ASSUME NEW f, LegalItems(f), NEW base \in Seq(Names), NEW rel \in Seq(Names)
    PROVE  LegalItems(T!WithScopes(f, base, rel))
<1> DEFINE last == Reach(f, base, rel)
<1>1. last \in 0..Len(rel) /\ T!WithScopes(f, base, rel) = T!Over(f, NewScopes(base, rel, last))
  BY ReachIsOnPath
<1> HIDE DEF last
<1>2. \A i \in 1..last : base \o T!Upto(rel, i) \in Seq(Names)
  <2>1. \A i \in 1..last : i \in 0..Len(rel)
    BY <1>1
  <2> QED BY <2>1, PathBelow
<1>3. LegalItems(NewScopes(base, rel, last))
  BY <1>2 DEF NewScopes, LegalItems
<1> QED BY <1>1, <1>3, OverLegal

LEMMA WrittenLegal ==
    ASSUME NEW f, LegalItems(f), NEW base \in Seq(Names), NEW rel \in Seq(Names) \ {<<>>},
           NEW item \in T!Variables
    PROVE  LegalItems(T!Written(f, base, rel, item))
<1>1. Len(rel) - 1 \in 0..Len(rel)
  BY EmptySeq
<1>2. T!Parent(rel) \in Seq(Names)
  BY <1>1, PathBelow DEF T!Parent
<1>3. LegalItems(T!WithScopes(f, base, T!Parent(rel)))
  BY <1>2, WithScopesLegal
<1>4. LegalItems([p \in {base \o rel} |-> item])
  BY DEF LegalItems
<1> QED BY <1>3, <1>4, OverLegal DEF T!Written

LEMMA WithoutLegal ==
    ASSUME NEW f, LegalItems(f), NEW path
    PROVE  LegalItems(T!Without(f, path))
BY DEF LegalItems, T!Without

\* The current scope and those around it stay where they are.

LEMMA StandsAbove ==
    ASSUME NEW f, NEW c \in Seq(Names), NEW d \in Seq(Names), IsPrefix(d, c), StandsIn(f, c)
    PROVE  StandsIn(f, d)
<1> SUFFICES ASSUME NEW n \in 1..Len(d) PROVE T!IsScope(f, T!Upto(d, n))
  BY DEF StandsIn
<1>1. Len(d) <= Len(c) /\ \A i \in 1..Len(d) : d[i] = c[i]
  BY PrefixAt
<1>2. n \in 0..Len(d) /\ n \in 0..Len(c) /\ n \in 1..Len(c)
  BY <1>1
<1>3. /\ T!Upto(d, n) \in Seq(Names) /\ Len(T!Upto(d, n)) = n /\ \A j \in 1..n : T!Upto(d, n)[j] = d[j]
      /\ T!Upto(c, n) \in Seq(Names) /\ Len(T!Upto(c, n)) = n /\ \A j \in 1..n : T!Upto(c, n)[j] = c[j]
  BY <1>2, PathBelow
<1>4. T!Upto(d, n) = T!Upto(c, n)
  BY <1>1, <1>3, SeqEqual
<1> QED BY <1>2, <1>4 DEF StandsIn

LEMMA ScopesStay ==
    ASSUME NEW f, NEW base, NEW rel \in Seq(Names), NEW p, T!IsScope(f, p)
    PROVE  T!IsScope(T!WithScopes(f, base, rel), p)
<1> DEFINE h == NewScopes(base, rel, Reach(f, base, rel))
<1>1. T!WithScopes(f, base, rel) = T!Over(f, h)
  BY ReachIsOnPath
<1>2. \A q \in DOMAIN h : h[q] = T!Scope
  BY DEF NewScopes
<1> HIDE DEF h
<1>3. T!IsScope(T!Over(f, h), p)
  BY <1>2 DEF T!IsScope, T!Over
<1> QED BY <1>1, <1>3

LEMMA StandsWithScopes ==
    ASSUME NEW f, NEW c \in Seq(Names), NEW rel \in Seq(Names), StandsIn(f, c)
    PROVE  StandsIn(T!WithScopes(f, c, rel), c)
BY ScopesStay DEF StandsIn

LEMMA BelowIsElsewhere ==
    ASSUME NEW c \in Seq(Names), NEW rel \in Seq(Names) \ {<<>>}, NEW n \in 1..Len(c)
    PROVE  T!Upto(c, n) # c \o rel /\ ~T!IsPrefix(c \o rel, T!Upto(c, n))
<1>1. Len(rel) \in Nat \ {0} /\ Len(c \o rel) = Len(c) + Len(rel) /\ Len(c) \in Nat
  BY EmptySeq, Joined
<1>2. Len(T!Upto(c, n)) = n /\ n \in 0..Len(c)
  BY PathBelow
<1> QED BY <1>1, <1>2 DEF T!IsPrefix

LEMMA StandsWritten ==
    ASSUME NEW f, NEW c \in Seq(Names), NEW rel \in Seq(Names) \ {<<>>}, NEW item, StandsIn(f, c)
    PROVE  StandsIn(T!Written(f, c, rel, item), c)
<1> DEFINE g == T!WithScopes(f, c, T!Parent(rel))
<1>1. T!Parent(rel) \in Seq(Names)
  <2>1. Len(rel) - 1 \in 0..Len(rel)
    BY EmptySeq
  <2> QED BY <2>1, PathBelow DEF T!Parent
<1>2. StandsIn(g, c)
  BY <1>1, StandsWithScopes
<1>3. T!Written(f, c, rel, item) = g \/ T!Written(f, c, rel, item) = T!Over(g, [p \in {c \o rel} |-> item])
  BY DEF T!Written
<1> HIDE DEF g
<1>4. ASSUME NEW n \in 1..Len(c) PROVE T!IsScope(T!Over(g, [p \in {c \o rel} |-> item]), T!Upto(c, n))
  <2>1. T!IsScope(g, T!Upto(c, n)) /\ T!Upto(c, n) # c \o rel
    BY <1>2, BelowIsElsewhere DEF StandsIn
  <2> QED BY <2>1 DEF T!IsScope, T!Over
<1> QED BY <1>2, <1>3, <1>4 DEF StandsIn

LEMMA StandsWithout ==
    ASSUME NEW f, NEW c \in Seq(Names), NEW rel \in Seq(Names) \ {<<>>}, StandsIn(f, c)
    PROVE  StandsIn(T!Without(f, c \o rel), c)
<1> SUFFICES ASSUME NEW n \in 1..Len(c) PROVE T!IsScope(T!Without(f, c \o rel), T!Upto(c, n))
  BY DEF StandsIn
<1>1. T!IsScope(f, T!Upto(c, n)) /\ ~T!IsPrefix(c \o rel, T!Upto(c, n))
  BY BelowIsElsewhere DEF StandsIn
<1> QED BY <1>1 DEF T!IsScope, T!Without

\* More is there than was, and nothing else has changed: `added' with what is
\* written there, and the scopes on the way.
Adds(f, g, base, rel, item) ==
    /\ DOMAIN f \subseteq DOMAIN g
    /\ \A p \in DOMAIN f : p # base \o rel => g[p] = f[p]
    /\ \A p \in DOMAIN g \ DOMAIN f : \E i \in 1..Len(rel) : p = base \o T!Upto(rel, i)
    /\ base \o rel \in DOMAIN g /\ g[base \o rel] = item

Ways(base, rel) == {base \o T!Upto(rel, i) : i \in 1..Len(rel)}

LEMMA FreeScopes ==
    ASSUME NEW f, LegalItems(f), NEW base \in Seq(Names), NEW rel \in Seq(Names),
           T!Obstacles(f, base, rel) = {}
    PROVE  /\ DOMAIN T!WithScopes(f, base, rel) = DOMAIN f \cup Ways(base, rel)
           /\ \A p \in DOMAIN f : T!WithScopes(f, base, rel)[p] = f[p]
           /\ \A p \in Ways(base, rel) : T!WithScopes(f, base, rel)[p] = T!Scope
<1> DEFINE h == NewScopes(base, rel, Len(rel))
           W == Ways(base, rel)
<1>1. T!WithScopes(f, base, rel) = T!Over(f, h)
  BY ReachIsOnPath DEF Reach
<1>2. DOMAIN h = W /\ \A p \in W : h[p] = T!Scope
  BY DEF NewScopes, Ways
<1>3. \A p \in W : p \in DOMAIN f => f[p] = T!Scope
  BY DEF T!Obstacles, T!IsVariable, Ways
<1> HIDE DEF h, W
<1>5. DOMAIN T!Over(f, h) = DOMAIN f \cup W
  BY <1>2 DEF T!Over
<1>6. \A p \in DOMAIN f : T!Over(f, h)[p] = f[p]
  BY <1>2, <1>3 DEF T!Over
<1>7. \A p \in W : T!Over(f, h)[p] = T!Scope
  BY <1>2 DEF T!Over
<1> QED BY <1>1, <1>5, <1>6, <1>7 DEF W

LEMMA ScopeAdded ==
    ASSUME NEW f, LegalItems(f), NEW base \in Seq(Names), NEW rel \in Seq(Names) \ {<<>>},
           T!Obstacles(f, base, rel) = {}
    PROVE  Adds(f, T!WithScopes(f, base, rel), base, rel, T!Scope)
<1>1. Len(rel) \in 1..Len(rel)
  BY EmptySeq
<1>2. T!Upto(rel, Len(rel)) = rel
  BY SubSeqFull DEF T!Upto
<1> DEFINE g == T!WithScopes(f, base, rel)
           W == Ways(base, rel)
<1>3. DOMAIN g = DOMAIN f \cup W /\ (\A p \in DOMAIN f : g[p] = f[p]) /\ \A p \in W : g[p] = T!Scope
  <2>1. rel \in Seq(Names)
    OBVIOUS
  <2>2. DOMAIN g = DOMAIN f \cup W
    BY <2>1, FreeScopes
  <2>3. \A p \in DOMAIN f : g[p] = f[p]
    BY <2>1, FreeScopes
  <2>4. \A p \in W : g[p] = T!Scope
    BY <2>1, FreeScopes
  <2> HIDE DEF g, W
  <2> QED BY <2>2, <2>3, <2>4
<1>5. base \o rel \in W
  BY <1>1, <1>2 DEF Ways
<1>6. \A p \in W : \E i \in 1..Len(rel) : p = base \o T!Upto(rel, i)
  BY DEF Ways
<1> HIDE DEF g, W
<1>4. base \o rel \in DOMAIN g /\ g[base \o rel] = T!Scope
  BY <1>3, <1>5
<1> QED BY <1>3, <1>4, <1>6 DEF Adds, g

LEMMA StandsInOpened ==
    ASSUME NEW f, LegalItems(f), NEW c \in Seq(Names), NEW rel \in Seq(Names), StandsIn(f, c),
           T!Obstacles(f, c, rel) = {}
    PROVE  StandsIn(T!WithScopes(f, c, rel), c \o rel)
<1> DEFINE g == T!WithScopes(f, c, rel)
           cr == c \o rel
<1>1. /\ cr \in Seq(Names) /\ Len(cr) = Len(c) + Len(rel) /\ Len(c) \in Nat /\ Len(rel) \in Nat
      /\ \A i \in 1..Len(c) : cr[i] = c[i]
      /\ \A i \in 1..Len(rel) : cr[Len(c) + i] = rel[i]
  BY Joined
<1>2. \A p \in Ways(c, rel) : p \in DOMAIN g /\ g[p] = T!Scope
  <2>1. DOMAIN g = DOMAIN f \cup Ways(c, rel)
    BY FreeScopes
  <2>2. \A p \in Ways(c, rel) : g[p] = T!Scope
    BY FreeScopes
  <2> HIDE DEF g
  <2> QED BY <2>1, <2>2
<1>3. StandsIn(g, c)
  BY StandsWithScopes
<1> HIDE DEF g, cr
<1>4. ASSUME NEW n \in 1..Len(cr) PROVE T!IsScope(g, T!Upto(cr, n))
  <2>1. n \in 0..Len(cr)
    OBVIOUS
  <2>2. T!Upto(cr, n) \in Seq(Names) /\ Len(T!Upto(cr, n)) = n /\ \A j \in 1..n : T!Upto(cr, n)[j] = cr[j]
    BY <1>1, <2>1, PathBelow
  <2>3. CASE n <= Len(c)
    <3>1. n \in 1..Len(c) /\ n \in 0..Len(c)
      BY <2>3
    <3>2. T!Upto(c, n) \in Seq(Names)
      BY <3>1, PathBelow
    <3>3. Len(T!Upto(c, n)) = n /\ \A j \in 1..n : T!Upto(c, n)[j] = c[j]
      BY <3>1, PathBelow
    <3>4. \A j \in 1..n : T!Upto(cr, n)[j] = T!Upto(c, n)[j]
      BY <1>1, <2>2, <2>3, <3>3
    <3>5. T!Upto(cr, n) = T!Upto(c, n)
      BY <2>2, <3>2, <3>3, <3>4, SeqEqual
    <3> QED BY <1>3, <3>1, <3>5 DEF StandsIn
  <2>4. CASE n > Len(c)
    <3>1. PICK k \in 1..Len(rel) : n = Len(c) + k
      <4>1. n - Len(c) \in 1..Len(rel) /\ n = Len(c) + (n - Len(c))
        BY <1>1, <2>4
      <4> QED BY <4>1
    <3>2. k \in 0..Len(rel) /\ k \in Nat
      BY <3>1
    <3> DEFINE u == T!Upto(rel, k)
    <3>3. u \in Seq(Names) /\ Len(u) = k /\ \A j \in 1..k : u[j] = rel[j]
      BY <3>2, PathBelow
    <3>4. c \o u \in Ways(c, rel)
      BY <3>1 DEF Ways
    <3> HIDE DEF u
    <3> DEFINE cu == c \o u
    <3>5. /\ cu \in Seq(Names) /\ Len(cu) = Len(c) + Len(u)
          /\ \A i \in 1..Len(c) : cu[i] = c[i]
          /\ \A i \in 1..Len(u) : cu[Len(c) + i] = u[i]
      BY <3>3, Joined
    <3>6. cu \in DOMAIN g /\ g[cu] = T!Scope
      BY <1>2, <3>4
    <3> HIDE DEF cu
    <3>7. ASSUME NEW j \in 1..n PROVE cr[j] = cu[j]
      <4>1. CASE j <= Len(c)
        BY <1>1, <3>5, <4>1
      <4>2. CASE j > Len(c)
        <5>1. PICK i \in 1..k : j = Len(c) + i
          <6>1. j - Len(c) \in 1..k /\ j = Len(c) + (j - Len(c))
            BY <1>1, <3>1, <4>2
          <6> QED BY <6>1
        <5>2. i \in 1..Len(rel)
          BY <3>1, <5>1
        <5> QED BY <1>1, <3>3, <3>5, <5>1, <5>2
      <4> QED BY <1>1, <4>1, <4>2
    <3>8. T!Upto(cr, n) = cu
      BY <2>2, <3>1, <3>3, <3>5, <3>7, SeqEqual
    <3> QED BY <3>6, <3>8 DEF T!IsScope
  <2> QED BY <1>1, <2>3, <2>4
<1>5. StandsIn(g, cr)
  BY <1>4 DEF StandsIn
<1> QED BY <1>5 DEF g, cr

LEMMA VariableAdded ==
    ASSUME NEW f, LegalItems(f), NEW base \in Seq(Names), NEW rel \in Seq(Names) \ {<<>>},
           T!CanWrite(f, base, rel), NEW item
    PROVE  Adds(f, T!Written(f, base, rel, item), base, rel, item)
<1> DEFINE N == Len(rel)
           up == T!Parent(rel)
           g == T!WithScopes(f, base, up)
           h == [p \in {base \o rel} |-> item]
<1>1. N \in Nat /\ N # 0 /\ N - 1 \in 0..N /\ N \in 1..N
  BY EmptySeq
<1>2. /\ up \in Seq(Names) /\ Len(up) = N - 1
      /\ \A i \in 1..(N - 1) : T!Upto(up, i) = T!Upto(rel, i)
  <2>1. up = T!Upto(rel, N - 1)
    BY DEF T!Parent
  <2>2. up \in Seq(Names) /\ Len(up) = N - 1
    BY <1>1, <2>1, PathBelow
  <2>3. \A i \in 1..(N - 1) : SubSeq(SubSeq(rel, 1, N - 1), 1, i) = SubSeq(rel, 1, i)
    BY <1>1, SubSeqOfSubSeq
  <2> QED BY <2>1, <2>2, <2>3 DEF T!Upto
<1>3. T!Upto(rel, N) = rel
  BY SubSeqFull DEF T!Upto
<1>4. T!Obstacles(f, base, up) = {}
  BY DEF T!CanWrite
<1> HIDE DEF up, N
<1>5. /\ DOMAIN g = DOMAIN f \cup Ways(base, up)
      /\ \A p \in DOMAIN f : g[p] = f[p]
  BY <1>2, <1>4, FreeScopes
<1>6. T!Written(f, base, rel, item) = T!Over(g, h)
  BY DEF T!Written, up
<1>7. DOMAIN h = {base \o rel} /\ h[base \o rel] = item
  OBVIOUS
<1> HIDE DEF g, h
<1>8. DOMAIN T!Over(g, h) = DOMAIN g \cup {base \o rel} /\ T!Over(g, h)[base \o rel] = item
  BY <1>7 DEF T!Over
<1>9. \A p \in DOMAIN f : p # base \o rel => T!Over(g, h)[p] = f[p]
  BY <1>5, <1>7 DEF T!Over
<1>10. ASSUME NEW p \in DOMAIN T!Over(g, h), p \notin DOMAIN f
       PROVE  \E i \in 1..N : p = base \o T!Upto(rel, i)
  <2>1. CASE p = base \o rel
    BY <1>1, <1>3, <2>1
  <2>2. CASE p # base \o rel
    <3>1. PICK i \in 1..(N - 1) : p = base \o T!Upto(up, i)
      BY <1>2, <1>5, <1>8, <1>10, <2>2 DEF Ways
    <3>2. i \in 1..N /\ T!Upto(up, i) = T!Upto(rel, i)
      BY <1>1, <1>2
    <3> QED BY <3>1, <3>2
  <2> QED BY <2>1, <2>2
<1> QED BY <1>5, <1>6, <1>8, <1>9, <1>10 DEF Adds, N

-----------------------------------------------------------------------------
(* copying: every entry goes to a place of its own *)

\* What is left of a path below another, and where it goes.
LEMMA NewNameIs ==
    ASSUME NEW from \in Seq(Names), NEW p \in Seq(Names), IsStrictPrefix(from, p)
    PROVE  /\ NewName(from, p) \in Seq(Names) \ {<<>>} /\ Len(NewName(from, p)) = Len(p) - Len(from)
           /\ Len(from) < Len(p)
           /\ \A i \in 1..(Len(p) - Len(from)) : NewName(from, p)[i] = p[Len(from) + i]
<1>1. Len(from) <= Len(p) /\ \A i \in 1..Len(from) : from[i] = p[i]
  BY PrefixAt DEF IsStrictPrefix
<1>2. Len(from) # Len(p)
  BY <1>1, SeqEqual DEF IsStrictPrefix
<1>3. /\ Len(from) + 1 \in Int /\ Len(p) \in Int /\ Len(from) + 1 <= Len(p)
      /\ \A i \in (Len(from) + 1)..Len(p) : p[i] \in Names
  BY <1>1, <1>2
<1> DEFINE m == Len(from) + 1
           n == Len(p)
<1>4. /\ SubSeq(p, m, n) \in Seq(Names)
      /\ Len(SubSeq(p, m, n)) = IF m <= n THEN n - m + 1 ELSE 0
      /\ \A i \in 1..(n - m + 1) : SubSeq(p, m, n)[i] = p[m + i - 1]
  <2> HIDE DEF m, n
  <2> QED BY <1>3, SubSeqProperties DEF m, n
<1>5. n - m + 1 = Len(p) - Len(from) /\ m <= n /\ \A i \in Int : m + i - 1 = Len(from) + i
  BY <1>3
<1>6. NewName(from, p) = SubSeq(p, m, n)
  BY DEF NewName
<1>7. Len(NewName(from, p)) = Len(p) - Len(from) /\ Len(p) - Len(from) > 0
  BY <1>3, <1>4, <1>5, <1>6
<1>8. \A i \in 1..(Len(p) - Len(from)) : NewName(from, p)[i] = p[Len(from) + i]
  <2> HIDE DEF m, n
  <2> QED BY <1>4, <1>5, <1>6
<1>9. NewName(from, p) \in Seq(Names)
  BY <1>4, <1>6
<1>10. NewName(from, p) # <<>>
  <2>1. Len(<<>>) = 0
    OBVIOUS
  <2> HIDE DEF m, n
  <2> QED BY <1>3, <1>7, <2>1
<1>11. Len(from) < Len(p)
  BY <1>3
<1> HIDE DEF m, n
<1> QED BY <1>7, <1>8, <1>9, <1>10, <1>11

\* Different entries go to different places.
LEMMA GoalsDiffer ==
    ASSUME NEW base \in Seq(Names), NEW from \in Seq(Names), NEW p \in Seq(Names), NEW q \in Seq(Names),
           IsStrictPrefix(from, p), IsStrictPrefix(from, q), Goal(base, from, p) = Goal(base, from, q)
    PROVE  p = q
<1> DEFINE a == NewName(from, p)
           b == NewName(from, q)
           C == Len(base)
           F == Len(from)
<1>1. a \in Seq(Names) /\ Len(a) = Len(p) - F /\ \A i \in 1..(Len(p) - F) : a[i] = p[F + i]
  BY NewNameIs
<1>2. b \in Seq(Names) /\ Len(b) = Len(q) - F /\ \A i \in 1..(Len(q) - F) : b[i] = q[F + i]
  BY NewNameIs
<1>3. base \o a = base \o b
  BY DEF Goal
<1>4. F <= Len(p) /\ F <= Len(q) /\ \A i \in 1..F : p[i] = q[i]
  BY PrefixAt DEF IsStrictPrefix
<1> HIDE DEF a, b
<1>5. Len(a) = Len(b)
  <2>1. Len(base \o a) = C + Len(a) /\ Len(base \o b) = C + Len(b)
    BY <1>1, <1>2, Joined
  <2>2. C \in Nat /\ Len(a) \in Nat /\ Len(b) \in Nat
    BY <1>1, <1>2
  <2> HIDE DEF C
  <2> QED BY <1>3, <2>1, <2>2
<1>6. \A i \in 1..Len(a) : a[i] = b[i]
  <2>1. \A i \in 1..Len(a) : (base \o a)[C + i] = a[i] /\ (base \o b)[C + i] = b[i]
    BY <1>1, <1>2, <1>5, Joined
  <2> QED BY <1>3, <2>1
<1>7. Len(p) = Len(q)
  BY <1>1, <1>2, <1>5
<1>8. ASSUME NEW i \in 1..Len(p) PROVE p[i] = q[i]
  <2>1. CASE i <= F
    BY <1>4, <2>1
  <2>2. CASE i > F
    <3>1. i - F \in 1..(Len(p) - F) /\ F + (i - F) = i
      BY <2>2
    <3> QED BY <1>1, <1>2, <1>6, <1>7, <3>1
  <2> QED BY <2>1, <2>2
<1> QED BY <1>7, <1>8, SeqEqual

\* A path on the way to a place below a scope is not below it before that place is.
LEMMA WayBelow ==
    ASSUME NEW base \in Seq(Names), NEW from \in Seq(Names), NEW rel \in Seq(Names), NEW i \in 1..Len(rel),
           IsPrefix(from, base \o T!Upto(rel, i))
    PROVE  IsPrefix(from, base \o rel)
<1> DEFINE u == T!Upto(rel, i)
           p == base \o u
           q == base \o rel
<1>1. u \in Seq(Names) /\ Len(u) = i /\ (\A j \in 1..i : u[j] = rel[j]) /\ p \in Seq(Names)
  BY PathBelow
<1> HIDE DEF u
<1>2. /\ q \in Seq(Names) /\ Len(q) = Len(base) + Len(rel) /\ Len(p) = Len(base) + i
      /\ \A j \in 1..Len(base) : p[j] = base[j] /\ q[j] = base[j]
      /\ \A j \in 1..i : p[Len(base) + j] = rel[j]
      /\ \A j \in 1..Len(rel) : q[Len(base) + j] = rel[j]
  <2>1. /\ q \in Seq(Names) /\ Len(q) = Len(base) + Len(rel)
        /\ \A j \in 1..Len(base) : q[j] = base[j]
        /\ \A j \in 1..Len(rel) : q[Len(base) + j] = rel[j]
    BY Joined
  <2>2. /\ Len(p) = Len(base) + Len(u)
        /\ \A j \in 1..Len(base) : p[j] = base[j]
        /\ \A j \in 1..Len(u) : p[Len(base) + j] = u[j]
    BY <1>1, Joined
  <2> HIDE DEF p, q
  <2> QED BY <1>1, <2>1, <2>2
<1> HIDE DEF p, q
<1>3. ASSUME NEW j \in 1..Len(p) PROVE p[j] = q[j]
  <2>1. CASE j <= Len(base)
    <3>1. j \in 1..Len(base)
      BY <1>2, <2>1
    <3> QED BY <1>2, <3>1
  <2>2. CASE j > Len(base)
    <3>1. j - Len(base) \in 1..i /\ j - Len(base) \in 1..Len(rel) /\ Len(base) + (j - Len(base)) = j
      BY <1>2, <2>2
    <3> QED BY <1>2, <3>1
  <2>3. j \in Int /\ Len(base) \in Int
    BY <1>2
  <2> QED BY <2>1, <2>2, <2>3
<1>4. Len(from) <= Len(p) /\ \A j \in 1..Len(from) : from[j] = p[j]
  BY <1>1, PrefixAt DEF p, u
<1>5. Len(from) <= Len(q) /\ \A j \in 1..Len(from) : from[j] = q[j]
  BY <1>1, <1>2, <1>3, <1>4
<1> QED BY <1>2, <1>5, PrefixAt DEF q

LEMMA VariablesAre ==
    ASSUME NEW item
    PROVE  item \in T!Variables \cup {T!Scope} => item # NoItem /\ (IsVar(item) <=> item \in T!Variables)
BY DEF T!Variables, T!StringItem, T!ListItem, T!Scope, NoItem, IsVar

LEMMA LegalIsSomething ==
    ASSUME NEW f, LegalItems(f), NEW p
    PROVE  /\ p \in DOMAIN f => RootLookup(f, p) = f[p] /\ f[p] # NoItem /\ f[p] \in T!Variables \cup {T!Scope}
           /\ p \notin DOMAIN f => RootLookup(f, p) = InFallback(p)
BY VariablesAre DEF LegalItems, RootLookup

\* One more entry is copied.
LEMMA CopyStep ==
    ASSUME NEW f, LegalItems(f), NEW g, LegalItems(g), NEW base \in Seq(Names),
           NEW cp \in CopyFrame, NEW dp, CopiedSoFar(f, base, cp), NEW q \in cp.rest,
           dp.from = cp.from, dp.list = cp.list, dp.rest = cp.rest \ {q},
           Adds(f, g, base, NewName(cp.from, q), RootLookup(f, q))
    PROVE  CopiedSoFar(g, base, dp)
<1> DEFINE from == cp.from
           list == cp.list
           rest == cp.rest
           Below(p) == Goal(base, from, p)
<1>1. /\ from \in Seq(Names) /\ list \subseteq Seq(Names) /\ rest \subseteq list /\ q \in list
      /\ \A p \in list : IsStrictPrefix(from, p) /\ RootLookup(f, p) # NoItem
  BY DEF CopyFrame, CopiedSoFar
<1>2. /\ DOMAIN f \subseteq DOMAIN g
      /\ \A p \in DOMAIN f : p # Below(q) => g[p] = f[p]
      /\ \A p \in DOMAIN g \ DOMAIN f : \E i \in 1..Len(NewName(from, q)) : p = base \o T!Upto(NewName(from, q), i)
      /\ Below(q) \in DOMAIN g /\ g[Below(q)] = RootLookup(f, q)
  BY DEF Adds, Goal
<1>3. CopiedSoFar(f, base, cp)
  OBVIOUS
<1>4. dp.rest \subseteq dp.list
  BY <1>1
<1> HIDE DEF from, list, rest, Below
<1>5. \A p \in list : RootLookup(g, p) # NoItem
  <2> SUFFICES ASSUME NEW p \in list PROVE RootLookup(g, p) # NoItem
    OBVIOUS
  <2>1. CASE p \in DOMAIN g
    BY <2>1, LegalIsSomething
  <2>2. CASE p \notin DOMAIN g
    <3>1. p \notin DOMAIN f
      BY <1>2, <2>2
    <3>2. RootLookup(g, p) = RootLookup(f, p)
      BY <2>2, <3>1, LegalIsSomething
    <3> QED BY <1>1, <3>2
  <2> QED BY <2>1, <2>2
<1>6. ASSUME \A p \in list : ~IsPrefix(from, Below(p)),
             \A p \in list \ rest : Below(p) \in DOMAIN f /\ f[Below(p)] = RootLookup(f, p)
      PROVE  \A p \in list \ (rest \ {q}) : Below(p) \in DOMAIN g /\ g[Below(p)] = RootLookup(g, p)
  <2>1. ASSUME NEW p \in list PROVE RootLookup(g, p) = RootLookup(f, p)
    <3>1. IsPrefix(from, p) /\ p # Below(q)
      BY <1>1, <1>6 DEF IsStrictPrefix
    <3>2. CASE p \in DOMAIN f
      BY <1>2, <3>1, <3>2, LegalIsSomething
    <3>3. CASE p \notin DOMAIN f
      <4>1. ASSUME p \in DOMAIN g PROVE FALSE
        <5>1. PICK i \in 1..Len(NewName(from, q)) : p = base \o T!Upto(NewName(from, q), i)
          BY <1>2, <3>3, <4>1
        <5>2. NewName(from, q) \in Seq(Names)
          BY <1>1, NewNameIs
        <5>3. IsPrefix(from, base \o NewName(from, q))
          BY <1>1, <3>1, <5>1, <5>2, WayBelow
        <5> QED BY <1>1, <1>6, <5>3 DEF Below, Goal
      <4> QED BY <3>3, <4>1, LegalIsSomething
    <3> QED BY <3>2, <3>3
  <2>2. ASSUME NEW p \in list, p = q \/ p \notin rest
        PROVE  Below(p) \in DOMAIN g /\ g[Below(p)] = RootLookup(g, p)
    <3>1. CASE p = q
      BY <1>2, <2>1, <3>1
    <3>2. CASE p # q
      <4>1. Below(p) # Below(q)
        BY <1>1, <3>2, GoalsDiffer DEF Below
      <4>2. Below(p) \in DOMAIN f /\ f[Below(p)] = RootLookup(f, p)
        BY <1>6, <2>2, <3>2
      <4> QED BY <1>2, <2>1, <4>1, <4>2
    <3> QED BY <3>1, <3>2
  <2> QED BY <2>2
<1>7. \/ \E p \in list : IsPrefix(from, Below(p))
      \/ \A p \in list \ (rest \ {q}) : Below(p) \in DOMAIN g /\ g[Below(p)] = RootLookup(g, p)
  <2>1. \/ \E p \in list : IsPrefix(from, Below(p))
        \/ \A p \in list \ rest : Below(p) \in DOMAIN f /\ f[Below(p)] = RootLookup(f, p)
    BY DEF CopiedSoFar, from, list, rest, Below
  <2> QED BY <1>6, <2>1
<1> QED BY <1>1, <1>4, <1>5, <1>7 DEF CopiedSoFar, from, list, rest, Below

-----------------------------------------------------------------------------
(* the ways a step can end *)

LEMMA ShorterNames ==
    ASSUME NEW S, NEW s \in Seq(S), NEW k \in Int, k <= Len(s)
    PROVE  /\ SubSeq(s, 1, k) \in Seq(S)
           /\ \A i \in DOMAIN SubSeq(s, 1, k) : i \in DOMAIN s /\ SubSeq(s, 1, k)[i] = s[i]
<1>1. \A i \in 1..k : s[i] \in S
  OBVIOUS
<1>2. /\ SubSeq(s, 1, k) \in Seq(S)
      /\ Len(SubSeq(s, 1, k)) = IF 1 <= k THEN k - 1 + 1 ELSE 0
      /\ \A i \in 1..(k - 1 + 1) : SubSeq(s, 1, k)[i] = s[1 + i - 1]
  BY <1>1, SubSeqProperties
<1>3. ASSUME NEW i \in DOMAIN SubSeq(s, 1, k) PROVE i \in 1..k
  <2>1. i \in 1..Len(SubSeq(s, 1, k))
    BY <1>2
  <2> QED BY <1>2, <2>1
<1>4. \A i \in 1..k : i \in 1..(k - 1 + 1) /\ 1 + i - 1 = i /\ i \in DOMAIN s
  OBVIOUS
<1> QED BY <1>2, <1>3, <1>4

LEMMA FewerIncluded ==
    ASSUME NoCircularInclude, included \in Seq(Readable), NEW k \in Int, k <= Len(included),
           included' = SubSeq(included, 1, k)
    PROVE  (NoCircularInclude /\ included \in Seq(Readable))'
<1>1. /\ included' \in Seq(Readable)
      /\ \A i \in DOMAIN included' : i \in DOMAIN included /\ included'[i] = included[i]
  BY ShorterNames
<1> QED BY <1>1 DEF NoCircularInclude, Respelled

LEMMA FilesCounted ==
    ASSUME frames \in Seq(Frame)
    PROVE  Cardinality(Files) \in Nat
<1>1. Files \subseteq 1..Len(frames) /\ Len(frames) \in Nat
  BY DEF Files
<1>2. IsFiniteSet(1..Len(frames))
  BY <1>1, FS_Interval
<1>3. IsFiniteSet(Files)
  BY <1>1, <1>2, FS_Subset
<1> QED BY <1>3, FS_CardinalityType

ConfigStays == LegalItems(items)' /\ curr' \in Seq(Names) /\ StandsIn(items', curr')

LEMMA SameConfig ==
    ASSUME IInv, UNCHANGED config
    PROVE  ConfigStays /\ curr' = curr /\ items' = items
BY DEF IInv, ConfigOK, ConfigStays, config

\* Wherever the parse is, it is inside of the scope it began in.
LEMMA BeganAround ==
    ASSUME IInv, result = "running"
    PROVE  IsPrefix(started, curr)
<1>1. frames \in Seq(Frame) /\ ScopesKept(frames, curr, started) /\ Chained(frames, curr)
  BY DEF IInv, Nesting
<1>2. started \in Seq(Names) /\ curr \in Seq(Names)
  BY DEF IInv, ConfigOK
<1> DEFINE S == {n \in 1..Len(frames) : IsOpened(frames, n)}
<1>3. CASE S = {}
  <2>1. curr = started
    BY <1>1, <1>3 DEF ScopesKept
  <2> QED BY <1>2, <2>1, PrefixAt
<1>4. CASE S # {}
  <2>1. S \in SUBSET Nat
    OBVIOUS
  <2>2. PICK n \in S : \A k \in S : n <= k
    <3> HIDE DEF S
    <3> QED BY <1>4, <2>1, SmallestOf
  <2>3. \A m \in 1..(n - 1) : ~IsOpened(frames, m)
    <3> SUFFICES ASSUME NEW m \in 1..(n - 1), IsOpened(frames, m) PROVE FALSE
      OBVIOUS
    <3>1. m \in S /\ ~(n <= m)
      BY <1>1
    <3> QED BY <2>2, <3>1
  <2>4. frames[n].old = started
    BY <1>1, <2>3 DEF ScopesKept
  <2> QED BY <1>1, <2>4 DEF Chained
<1> QED BY <1>3, <1>4

\* An expression that is evaluated for ever changes nothing.
LEMMA LoopKeeps ==
    ASSUME IInv, result = "running", UNCHANGED config, result' = "looping",
           UNCHANGED <<frames, included, started>>
    PROVE  IInv'
<1>1. ConfigStays /\ curr' = curr /\ items' = items
  BY SameConfig
<1>2. NoCircularInclude'
  BY DEF IInv, NoCircularInclude
<1> QED BY <1>1, <1>2 DEF IInv, ConfigOK, ConfigStays

LEMMA ThrowKeeps ==
    ASSUME IInv, result = "running", Throw, ConfigStays, curr' = curr
    PROVE  IInv'
<1>4. IsPrefix(started, curr)
  BY BeganAround
<1>1. frames \in Seq(Frame)
  BY DEF IInv, Nesting
<1>2. Len(included) - Cardinality(Files) \in Int /\ Len(included) - Cardinality(Files) <= Len(included)
  BY <1>1, FilesCounted DEF IInv
<1>3. (NoCircularInclude /\ included \in Seq(Readable))'
  BY <1>2, FewerIncluded DEF IInv, Throw
<1> QED BY <1>3, <1>4 DEF IInv, ConfigOK, ConfigStays, Throw

LEMMA StopsKeeps ==
    ASSUME IInv, result = "running", UNCHANGED config, NEW value, Stops(value)
    PROVE  IInv'
<1>1. ConfigStays /\ curr' = curr
  BY SameConfig
<1> QED BY <1>1, ThrowKeeps, LoopKeeps DEF Stops

\* The parse goes on, or has come to an end.
LEMMA GoesOn ==
    ASSUME IInv, ConfigStays, started' = started,
           Nesting(frames', curr', started), result' = IF frames' = <<>> THEN "ok" ELSE "running",
           frames' # <<>> /\ Last(frames').kind = "copy" => CopiedSoFar(items', curr', Last(frames')),
           (NoCircularInclude /\ included \in Seq(Readable))'
    PROVE  IInv'
BY DEF IInv, ConfigOK, ConfigStays, Top

LEMMA GoKeeps ==
    ASSUME IInv, result = "running", ConfigStays, NEW fs, Go(fs), fs # <<>>,
           Nesting(fs, curr', started), Last(fs).kind = "copy" => CopiedSoFar(items', curr', Last(fs))
    PROVE  IInv'
<1>1. (NoCircularInclude /\ included \in Seq(Readable))'
  BY DEF IInv, Go, NoCircularInclude
<1> QED BY <1>1, GoesOn DEF Go

-----------------------------------------------------------------------------
(* what a step does to the frames *)

LEMMA ReadKeeps ==
    ASSUME IInv, result = "running", NEW b \in Int
    PROVE  /\ Nesting(Read(b), curr, started) /\ Read(b) # <<>>
           /\ Last(Read(b)).kind = Top.kind
           /\ Top.kind # "file" => Last(Read(b)) = Top
           /\ Top \in Frame
<1>1. Nesting(frames, curr, started) /\ frames # <<>> /\ frames \in Seq(Frame) /\ frames[1].kind = "file"
  BY DEF IInv, Nesting
<1>2. Read(b) \in Seq(Frame) /\ Alike(frames, Read(b))
  BY <1>1, ReadIsAlike
<1>3. Nesting(Read(b), curr, started)
  BY <1>1, <1>2, NestingAlike
<1>4. Len(frames) \in Nat \ {0} /\ Len(Read(b)) = Len(frames) /\ Top \in Frame
  BY <1>1, <1>2, FrontLast DEF Alike, Top
<1>5. Read(b) # <<>>
  BY <1>4
<1>6. \/ Last(Read(b)) = Top
      \/ Last(Read(b)) \in FileFrame /\ Top \in FileFrame
  BY <1>2, <1>4 DEF Alike, Last, Top
<1> QED BY <1>3, <1>4, <1>5, <1>6 DEF FileFrame

LEMMA PopKeeps ==
    ASSUME NEW fs, fs # <<>>, NEW c, NEW d, NEW start, Nesting(fs, c, start), Last(fs).kind # "file",
           IF Last(fs).kind = "scope" THEN d = Last(fs).old ELSE d = c
    PROVE  Nesting(Front(fs), d, start) /\ Front(fs) # <<>> /\ Last(Front(fs)).kind # "copy"
<1>1. fs \in Seq(Frame) /\ fs[1].kind = "file"
  BY DEF Nesting
<1>2. /\ Front(fs) \in Seq(Frame) /\ Len(fs) \in Nat \ {0} /\ Len(Front(fs)) = Len(fs) - 1
      /\ \A n \in 1..(Len(fs) - 1) : Front(fs)[n] = fs[n]
      /\ Last(fs) = fs[Len(fs)]
  BY <1>1, FrontLast
<1>3. Len(fs) # 1
  BY <1>1, <1>2
<1>4. Front(fs) # <<>> /\ Len(fs) - 1 \in 1..(Len(fs) - 1)
  BY <1>2, <1>3
<1>5. Last(Front(fs)) = fs[Len(fs) - 1]
  BY <1>2, <1>4 DEF Last
<1> QED BY <1>4, <1>5, NestingFront DEF Nesting

LEMMA PushKeeps ==
    ASSUME NEW fs, fs # <<>>, NEW c \in Seq(Names), NEW start, Nesting(fs, c, start), Last(fs).kind # "copy",
           NEW f \in Frame, BlockCounted(f), f.kind \notin {"file", "scope"}
    PROVE  Nesting(Append(fs, f), c, start) /\ Append(fs, f) # <<>> /\ Last(Append(fs, f)) = f
<1>1. fs \in Seq(Frame)
  BY DEF Nesting
<1>2. Append(fs, f) # <<>> /\ Last(Append(fs, f)) = f
  BY <1>1 DEF Last
<1>3. Nesting(Append(fs, f), c, start)
  BY NestingAppend
<1> QED BY <1>2, <1>3

-----------------------------------------------------------------------------
(* each statement keeps the invariant *)

LEMMA AtStatementFacts ==
    ASSUME IInv, AtStatement
    PROVE  /\ result = "running" /\ Top.kind \in {"file", "scope", "block"}
           /\ LegalItems(items) /\ curr \in Seq(Names) /\ StandsIn(items, curr)
           /\ \A b \in {-1, 0, 1} : b \in Int
BY DEF AtStatement, CanRead, IInv, ConfigOK

\* The statement has been read, and the frames are as they were.
LEMMA ReadOnKeeps ==
    ASSUME IInv, AtStatement, Go(Read(0)), ConfigStays, curr' = curr
    PROVE  IInv'
<1>1. /\ Nesting(Read(0), curr, started) /\ Read(0) # <<>> /\ Last(Read(0)).kind = Top.kind
      /\ result = "running" /\ Top.kind # "copy"
  BY ReadKeeps, AtStatementFacts
<1> QED BY <1>1, GoKeeps

LEMMA AssignKeeps ==
    ASSUME IInv, NEW name \in Idents, NEW op, NEW e, Assign(name, op, e)
    PROVE  IInv'
<1>1. /\ result = "running" /\ AtStatement /\ LegalItems(items) /\ curr \in Seq(Names) /\ StandsIn(items, curr)
      /\ name \in Seq(Names) \ {<<>>}
  BY AtStatementFacts, ParserAssumption DEF Assign
<1> DEFINE type == TypeAt(here, e)
           value == IF type = "list" THEN ListAt(here, e) ELSE StringAt(here, e)
           new == IF op = "+=" THEN ValueOf(Lookup(items, curr, name)) \o value.val ELSE value.val
<1> HIDE DEF new
<1>3. \/ UNCHANGED config /\ (Throw \/ Stops(value) \/ Go(Read(0)))
      \/ /\ items' = T!Written(items, curr, name, Item(type, new)) /\ curr' = curr
         /\ Item(type, new) \in T!Variables /\ (Throw \/ Go(Read(0)))
  BY DEF Assign, new
<1> HIDE DEF type, value
<1>4. CASE UNCHANGED config
  <2>1. ConfigStays /\ curr' = curr
    BY <1>4, SameConfig
  <2>2. CASE Stops(value)
    BY <1>1, <1>4, <2>2, StopsKeeps
  <2>3. CASE Throw \/ Go(Read(0))
    BY <1>1, <2>1, <2>3, ThrowKeeps, ReadOnKeeps
  <2>4. CASE items' = T!Written(items, curr, name, Item(type, new)) /\ curr' = curr /\ (Throw \/ Go(Read(0)))
    BY <2>3, <2>4
  <2> QED BY <1>3, <2>2, <2>3, <2>4
<1>5. CASE ~UNCHANGED config
  <2>1. /\ items' = T!Written(items, curr, name, Item(type, new)) /\ curr' = curr
        /\ Item(type, new) \in T!Variables /\ (Throw \/ Go(Read(0)))
    BY <1>3, <1>5
  <2>2. StandsIn(items', curr')
    BY <1>1, <2>1, StandsWritten
  <2>3. ConfigStays /\ curr' = curr
    BY <1>1, <2>1, <2>2, WrittenLegal DEF ConfigStays
  <2> QED BY <1>1, <2>1, <2>3, ThrowKeeps, ReadOnKeeps
<1> QED BY <1>4, <1>5

LEMMA OpenScopeKeeps ==
    ASSUME IInv, NEW name \in Idents, OpenScope(name)
    PROVE  IInv'
<1>1. /\ result = "running" /\ AtStatement /\ LegalItems(items) /\ curr \in Seq(Names) /\ StandsIn(items, curr)
      /\ name \in Seq(Names) \ {<<>>} /\ Top.kind \in {"file", "scope", "block"}
  BY AtStatementFacts, ParserAssumption DEF OpenScope
<1>2. LegalItems(items)'
  BY <1>1, WithScopesLegal DEF OpenScope
<1>3. CASE Throw /\ curr' = curr
  <2>1. StandsIn(items', curr')
    BY <1>1, <1>3, StandsWithScopes DEF OpenScope
  <2> QED BY <1>1, <1>2, <1>3, <2>1, ThrowKeeps DEF ConfigStays
<1>4. CASE T!Obstacles(items, curr, name) = {} /\ curr' = curr \o name /\ Go(Append(Read(1), Opened(curr)))
  <2>1. curr \o name \in Seq(Names) /\ curr \o name # <<>> /\ IsPrefix(curr, curr \o name)
    <3>1. Len(curr \o name) = Len(curr) + Len(name) /\ curr \o name \in Seq(Names)
      BY <1>1, Joined
    <3>2. Len(name) > 0 /\ Len(curr) >= 0 /\ Len(<<>>) = 0
      BY <1>1, EmptySeq
    <3>3. Len(curr) \in Nat /\ Len(name) \in Nat
      BY <1>1
    <3>4. \A i \in 1..Len(curr) : curr[i] = (curr \o name)[i]
      BY <1>1, Joined
    <3>5. IsPrefix(curr, curr \o name)
      <4>1. Len(curr) <= Len(curr \o name)
        BY <3>1, <3>3
      <4> QED BY <1>1, <3>1, <3>4, <4>1, PrefixAt
    <3> QED BY <3>1, <3>2, <3>3, <3>5
  <2>2. Opened(curr) \in Frame /\ Opened(curr).kind = "scope" /\ Opened(curr).old = curr /\ BlockCounted(Opened(curr))
    BY <1>1 DEF Opened, Frame, ScopeFrame, BlockCounted
  <2>3. Nesting(Read(1), curr, started) /\ Read(1) # <<>> /\ Last(Read(1)).kind # "copy"
    BY <1>1, ReadKeeps
  <2>4. Nesting(Append(Read(1), Opened(curr)), curr \o name, started)
    BY <1>1, <2>1, <2>2, <2>3, NestingAppend
  <2>5. Append(Read(1), Opened(curr)) # <<>> /\ Last(Append(Read(1), Opened(curr))) = Opened(curr)
    BY <2>3 DEF Last, Nesting
  <2>6. ConfigStays
    <3>1. StandsIn(items', curr')
      BY <1>1, <1>4, StandsInOpened DEF OpenScope
    <3> QED BY <1>2, <1>4, <2>1, <3>1 DEF ConfigStays
  <2> QED BY <1>1, <1>4, <2>2, <2>4, <2>5, <2>6, GoKeeps
<1> QED BY <1>3, <1>4 DEF OpenScope

\* The frame on top gives way to the one below, or to another in its place.
LEMMA PopOrChange ==
    ASSUME IInv, result = "running", NEW b \in Int, Top.kind \notin {"file", "scope"},
           NEW f \in Frame, BlockCounted(f), f.kind \notin {"file", "scope", "copy"},
           ConfigStays, curr' = curr,
           \/ Go(Front(Read(b)))
           \/ Go(Instead(Read(b), f))
    PROVE  IInv'
<1> DEFINE fs == Front(Read(b))
           gs == Append(fs, f)
<1>1. Nesting(fs, curr, started) /\ fs # <<>> /\ Last(fs).kind # "copy"
  BY ReadKeeps, PopKeeps
<1>2. Instead(Read(b), f) = gs
  BY DEF Instead
<1>3. Nesting(gs, curr, started) /\ gs # <<>> /\ Last(gs).kind # "copy"
  <2> HIDE DEF fs
  <2>1. curr \in Seq(Names)
    BY DEF IInv, ConfigOK
  <2> QED BY <1>1, <2>1, PushKeeps
<1> HIDE DEF fs, gs
<1>4. Go(fs) => IInv'
  BY <1>1, GoKeeps
<1>5. Go(gs) => IInv'
  BY <1>3, GoKeeps
<1> QED BY <1>2, <1>4, <1>5 DEF fs

LEMMA CloseBraceKeeps ==
    ASSUME IInv, CloseBrace
    PROVE  IInv'
<1>1. /\ result = "running" /\ AtStatement /\ LegalItems(items) /\ curr \in Seq(Names) /\ StandsIn(items, curr)
      /\ -1 \in Int
  BY AtStatementFacts DEF CloseBrace
<1>2. Top \in Frame
  BY <1>1, ReadKeeps
<1>3. CASE Top.kind = "file" /\ Throw /\ UNCHANGED config
  BY <1>1, <1>3, SameConfig, ThrowKeeps
<1>4. CASE Top.kind = "scope" /\ Go(Front(Read(-1))) /\ curr' = Top.old /\ UNCHANGED items
  <2>1. Top.old \in Seq(Names)
    BY <1>2, <1>4, Kinds DEF ScopeFrame
  <2>2. Nesting(Read(-1), curr, started) /\ Read(-1) # <<>> /\ Last(Read(-1)) = Top
    BY <1>1, <1>4, ReadKeeps
  <2>3. Nesting(Front(Read(-1)), Top.old, started) /\ Front(Read(-1)) # <<>> /\ Last(Front(Read(-1))).kind # "copy"
    BY <1>4, <2>2, PopKeeps
  <2>4. ConfigStays
    <3>1. IsPrefix(Top.old, curr)
      <4>1. frames \in Seq(Frame) /\ frames # <<>> /\ Chained(frames, curr)
        BY <1>1 DEF IInv, Nesting
      <4>2. Len(frames) \in Nat \ {0} /\ Top = frames[Len(frames)]
        BY <4>1, FrontLast DEF Top
      <4>3. Len(frames) \in 1..Len(frames)
        BY <4>2
      <4> QED BY <1>4, <4>1, <4>2, <4>3 DEF Chained, IsOpened
    <3>2. StandsIn(items', curr')
      BY <1>1, <1>4, <2>1, <3>1, StandsAbove
    <3> QED BY <1>1, <1>4, <2>1, <3>2 DEF ConfigStays
  <2> QED BY <1>1, <1>4, <2>3, <2>4, GoKeeps
<1>5. CASE /\ Top.kind = "block" /\ UNCHANGED config
           /\ Go(IF Top.last THEN Front(Read(-1)) ELSE Instead(Read(-1), Chain(Top.done, Top.ran)))
  <2>1. Top \in BlockFrame
    BY <1>2, <1>5, Kinds
  <2>2. BlockCounted(Top)
    BY <1>1 DEF IInv, Nesting, Top, Last
  <2>3. LET f == Chain(Top.done, Top.ran) IN f \in Frame /\ BlockCounted(f) /\ f.kind = "chain"
    BY <1>5, <2>1, <2>2 DEF Chain, Frame, ChainFrame, BlockFrame, BlockCounted
  <2>4. Go(Front(Read(-1))) \/ Go(Instead(Read(-1), Chain(Top.done, Top.ran)))
    BY <1>5
  <2>5. ConfigStays /\ curr' = curr
    BY <1>5, SameConfig
  <2> HIDE DEF Chain
  <2> QED BY <1>1, <1>5, <2>3, <2>4, <2>5, PopOrChange
<1> QED BY <1>3, <1>4, <1>5 DEF CloseBrace

LEMMA EndOfFileKeeps ==
    ASSUME IInv, EndOfFile
    PROVE  IInv'
<1>1. result = "running" /\ LegalItems(items) /\ curr \in Seq(Names) /\ ConfigStays /\ curr' = curr
  BY SameConfig DEF EndOfFile, IInv, ConfigOK
<1>2. CASE Top.kind # "file"
  BY <1>1, <1>2, ThrowKeeps DEF EndOfFile
<1>3. CASE Top.kind = "file"
  <2>1. /\ frames' = Front(frames) /\ included' = Front(included) /\ started' = started
        /\ result' = IF Len(frames) = 1 THEN "ok" ELSE "running"
    BY <1>3 DEF EndOfFile
  <2>2. Nesting(frames, curr, started) /\ frames # <<>> /\ frames \in Seq(Frame)
    BY <1>1 DEF IInv, Nesting
  <2>3. Nesting(frames', curr', started)
    BY <1>1, <1>3, <2>1, <2>2, NestingFront DEF Top
  <2>4. /\ Front(frames) \in Seq(Frame) /\ Len(frames) \in Nat \ {0} /\ Len(Front(frames)) = Len(frames) - 1
        /\ \A n \in 1..(Len(frames) - 1) : Front(frames)[n] = frames[n]
    BY <2>2, FrontLast
  <2>5. frames' = <<>> <=> Len(frames) = 1
    BY <2>1, <2>4, EmptySeq
  <2>6. frames' # <<>> => Last(frames').kind # "copy"
    <3>1. frames' # <<>> => Len(frames) - 1 \in 1..(Len(frames) - 1)
      BY <2>4, <2>5
    <3>2. frames' # <<>> => Last(frames') = frames[Len(frames) - 1]
      BY <2>1, <2>4, <3>1 DEF Last
    <3> QED BY <2>2, <3>1, <3>2 DEF Nesting
  <2>7. (NoCircularInclude /\ included \in Seq(Readable))'
    <3>1. Len(included) - 1 \in Int /\ Len(included) - 1 <= Len(included)
      BY DEF IInv
    <3> QED BY <2>1, <3>1, FewerIncluded DEF IInv, Front
  <2> QED BY <1>1, <2>1, <2>3, <2>5, <2>6, <2>7, GoesOn
<1> QED BY <1>2, <1>3

LEMMA IncludeKeeps ==
    ASSUME IInv, NEW source \in Sources, NEW ifExists, Include(source, ifExists)
    PROVE  IInv'
<1> DEFINE file == FileOf(source)
           f == File(file, MaxIncluded)
<1>1. /\ result = "running" /\ AtStatement /\ LegalItems(items) /\ curr \in Seq(Names)
      /\ Top.kind \in {"file", "scope", "block"} /\ 0 \in Int
  BY AtStatementFacts DEF Include
<1>2. ConfigStays /\ curr' = curr
  BY SameConfig DEF Include
<1>3. CASE Throw
  BY <1>1, <1>2, <1>3, ThrowKeeps
<1>4. CASE Go(Read(0))
  BY <1>1, <1>2, <1>4, ReadOnKeeps
<1>5. CASE /\ ~Refused(source) /\ Opens(file, Cardinality(Files))
           /\ frames' = Append(Read(0), f) /\ included' = Append(included, file)
           /\ UNCHANGED <<result, started>>
  <2>1. curr = <<>> /\ source \notin ToSet(included)
    BY <1>5 DEF Refused
  <2>2. f \in Frame /\ f.kind = "file" /\ BlockCounted(f)
    BY <1>5, ParserAssumption DEF File, Frame, FileFrame, BlockCounted, Opens
  <2>3. Nesting(Read(0), curr, started) /\ Read(0) # <<>> /\ Last(Read(0)).kind # "copy"
    BY <1>1, ReadKeeps
  <2> HIDE DEF f
  <2>4. Nesting(frames', curr', started)
    BY <1>1, <1>2, <1>5, <2>1, <2>2, <2>3, NestingAppend
  <2>5. frames' # <<>> /\ Last(frames') = f
    BY <1>5, <2>3 DEF Last, Nesting
  <2>6. included' \in Seq(Readable) /\ included \in Seq(Readable)
    BY <1>5 DEF IInv, Opens
  <2>7. NoCircularInclude'
    <3>1. \A i \in DOMAIN included : included[i] # source
      BY <2>1 DEF ToSet
    <3>2. file # source => file \in Respelled
      BY DEF Respelled
    <3>3. \A i \in DOMAIN included : included[i] = file => file \in Respelled
      BY <3>1, <3>2
    <3>4. /\ DOMAIN included' = DOMAIN included \cup {Len(included) + 1}
          /\ \A i \in DOMAIN included : included'[i] = included[i]
          /\ included'[Len(included) + 1] = file
      BY <1>5, <2>6
    <3>5. NoCircularInclude
      BY DEF IInv
    <3> HIDE DEF file
    <3> QED BY <3>3, <3>4, <3>5 DEF NoCircularInclude, Respelled
  <2> QED BY <1>1, <1>2, <1>5, <2>2, <2>4, <2>5, <2>6, <2>7, GoesOn
<1> QED BY <1>3, <1>4, <1>5 DEF Include

LEMMA EnterKeeps ==
    ASSUME IInv, result = "running", ConfigStays, curr' = curr,
           NEW fs, Nesting(fs, curr, started), fs # <<>>, Last(fs).kind # "copy",
           NEW cond, NEW done \in BOOLEAN, NEW last \in BOOLEAN, NEW ran, ran = (IF done THEN 1 ELSE 0),
           last => cond, Enter(fs, cond, done, last, ran)
    PROVE  IInv'
<1>3. curr \in Seq(Names)
  BY DEF IInv, ConfigOK
<1>1. CASE cond /\ ~done
  <2> DEFINE f == Block(TRUE, last, ran + 1)
  <2>1. f \in Frame /\ BlockCounted(f) /\ f.kind = "block"
    BY <1>1 DEF Block, Frame, BlockFrame, BlockCounted
  <2>2. Go(Append(fs, f))
    BY <1>1 DEF Enter
  <2> HIDE DEF f
  <2>3. Nesting(Append(fs, f), curr, started) /\ Append(fs, f) # <<>> /\ Last(Append(fs, f)) = f
    BY <1>3, <2>1, PushKeeps
  <2> QED BY <2>1, <2>2, <2>3, GoKeeps
<1>2. CASE ~(cond /\ ~done)
  <2> DEFINE f == Skipped(done \/ cond, last, ran)
  <2>1. f \in Frame /\ BlockCounted(f) /\ f.kind = "skip"
    <3>1. (done \/ cond) = done
      BY <1>2
    <3> QED BY <3>1 DEF Skipped, Frame, SkipFrame, BlockCounted
  <2>2. Go(Append(fs, f))
    BY <1>2 DEF Enter
  <2> HIDE DEF f
  <2>3. Nesting(Append(fs, f), curr, started) /\ Append(fs, f) # <<>> /\ Last(Append(fs, f)) = f
    BY <1>3, <2>1, PushKeeps
  <2> QED BY <2>1, <2>2, <2>3, GoKeeps
<1> QED BY <1>1, <1>2

LEMMA IfKeeps ==
    ASSUME IInv, NEW c, If(c)
    PROVE  IInv'
<1>1. /\ result = "running" /\ LegalItems(items) /\ curr \in Seq(Names)
      /\ Top.kind \in {"file", "scope", "block"} /\ 1 \in Int
  BY AtStatementFacts DEF If
<1>2. ConfigStays /\ curr' = curr
  BY SameConfig DEF If
<1>3. CASE Stops(HoldsAt(here, c))
  BY <1>1, <1>3, StopsKeeps DEF If
<1>4. CASE Enter(Read(1), HoldsAt(here, c).val, FALSE, FALSE, 0)
  <2>1. Nesting(Read(1), curr, started) /\ Read(1) # <<>> /\ Last(Read(1)).kind # "copy"
    BY <1>1, ReadKeeps
  <2> QED BY <1>1, <1>2, <1>4, <2>1, EnterKeeps
<1> QED BY <1>3, <1>4 DEF If

LEMMA ChainFacts ==
    ASSUME IInv, result = "running", Top.kind = "chain"
    PROVE  /\ Top.done \in BOOLEAN /\ Top.ran = (IF Top.done THEN 1 ELSE 0)
           /\ LegalItems(items) /\ curr \in Seq(Names)
           /\ \A b \in Int : /\ Nesting(Front(Read(b)), curr, started) /\ Front(Read(b)) # <<>>
                             /\ Last(Front(Read(b))).kind # "copy"
<1>1. Top \in ChainFrame
  <2>1. 0 \in Int
    OBVIOUS
  <2> QED BY <2>1, ReadKeeps, Kinds
<1>2. BlockCounted(Top)
  BY DEF IInv, Nesting, Top, Last
<1>3. Top.done \in BOOLEAN /\ Top.ran = (IF Top.done THEN 1 ELSE 0)
  BY <1>1, <1>2 DEF ChainFrame, BlockCounted
<1>4. ASSUME NEW b \in Int
      PROVE  /\ Nesting(Front(Read(b)), curr, started) /\ Front(Read(b)) # <<>>
             /\ Last(Front(Read(b))).kind # "copy"
  <2>1. Nesting(Read(b), curr, started) /\ Read(b) # <<>> /\ Last(Read(b)).kind = "chain"
    BY ReadKeeps
  <2> QED BY <2>1, PopKeeps
<1> QED BY <1>3, <1>4 DEF IInv, ConfigOK

LEMMA ElseIfKeeps ==
    ASSUME IInv, NEW c, ElseIf(c)
    PROVE  IInv'
<1>1. result = "running" /\ Top.kind = "chain" /\ 1 \in Int
  BY DEF ElseIf, CanRead
<1>2. ConfigStays /\ curr' = curr
  BY SameConfig DEF ElseIf
<1>3. CASE Stops(HoldsAt(here, c))
  BY <1>1, <1>3, StopsKeeps DEF ElseIf
<1>4. CASE Enter(Front(Read(1)), HoldsAt(here, c).val, Top.done, FALSE, Top.ran)
  <2>1. /\ Top.done \in BOOLEAN /\ Top.ran = (IF Top.done THEN 1 ELSE 0)
        /\ Nesting(Front(Read(1)), curr, started) /\ Front(Read(1)) # <<>> /\ Last(Front(Read(1))).kind # "copy"
    BY <1>1, ChainFacts
  <2> QED BY <1>1, <1>2, <1>4, <2>1, EnterKeeps
<1> QED BY <1>3, <1>4 DEF ElseIf

LEMMA ElseKeeps ==
    ASSUME IInv, Else
    PROVE  IInv'
<1>1. result = "running" /\ Top.kind = "chain" /\ 1 \in Int
  BY DEF Else, CanRead
<1>2. ConfigStays /\ curr' = curr
  BY SameConfig DEF Else
<1>3. /\ Top.done \in BOOLEAN /\ Top.ran = (IF Top.done THEN 1 ELSE 0)
      /\ Nesting(Front(Read(1)), curr, started) /\ Front(Read(1)) # <<>> /\ Last(Front(Read(1))).kind # "copy"
  BY <1>1, ChainFacts
<1>4. Enter(Front(Read(1)), TRUE, Top.done, TRUE, Top.ran)
  BY DEF Else
<1> QED BY <1>1, <1>2, <1>3, <1>4, EnterKeeps

LEMMA NoElseKeeps ==
    ASSUME IInv, NoElse
    PROVE  IInv'
<1>1. result = "running" /\ Top.kind = "chain"
  BY DEF NoElse
<1>2. ConfigStays /\ curr' = curr
  BY SameConfig DEF NoElse
<1>3. Nesting(frames, curr, started) /\ frames # <<>>
  BY <1>1 DEF IInv
<1>4. Nesting(Front(frames), curr, started) /\ Front(frames) # <<>> /\ Last(Front(frames)).kind # "copy"
  BY <1>1, <1>3, PopKeeps DEF Top
<1> QED BY <1>1, <1>2, <1>4, GoKeeps DEF NoElse

LEMMA SkipKeeps ==
    ASSUME IInv, NEW b \in {-1, 0, 1}, Skip(b)
    PROVE  IInv'
<1>1. result = "running" /\ Top.kind = "skip" /\ b \in Int
  BY DEF Skip, CanRead
<1>2. ConfigStays /\ curr' = curr
  BY SameConfig DEF Skip
<1>3. Top \in SkipFrame
  BY <1>1, ReadKeeps, Kinds
<1>4. BlockCounted(Top)
  BY <1>1 DEF IInv, Nesting, Top, Last
<1> DEFINE depth == Top.depth + b
           f == [Top EXCEPT !.depth = depth]
           g == Chain(Top.done, Top.ran)
<1>5. f \in Frame /\ BlockCounted(f) /\ f.kind = "skip"
  BY <1>1, <1>3, <1>4 DEF Frame, SkipFrame, BlockCounted
<1>6. g \in Frame /\ BlockCounted(g) /\ g.kind = "chain"
  BY <1>1, <1>3, <1>4 DEF Chain, Frame, ChainFrame, SkipFrame, BlockCounted
<1>7. Go(Instead(Read(b), f)) \/ Go(Front(Read(b))) \/ Go(Instead(Read(b), g))
  BY DEF Skip
<1> HIDE DEF f, g
<1>8. CASE Go(Instead(Read(b), f))
  BY <1>1, <1>2, <1>5, <1>8, PopOrChange
<1>9. CASE Go(Front(Read(b))) \/ Go(Instead(Read(b), g))
  BY <1>1, <1>2, <1>6, <1>9, PopOrChange
<1> QED BY <1>7, <1>8, <1>9

LEMMA SkipToEndKeeps ==
    ASSUME IInv, SkipToEnd
    PROVE  IInv'
BY SameConfig, ThrowKeeps DEF SkipToEnd

LEMMA RemoveStmtKeeps ==
    ASSUME IInv, NEW name \in Idents, RemoveStmt(name)
    PROVE  IInv'
<1>1. /\ result = "running" /\ AtStatement /\ LegalItems(items) /\ curr \in Seq(Names) /\ curr' = curr
      /\ StandsIn(items, curr) /\ name \in Seq(Names) \ {<<>>}
  BY AtStatementFacts, ParserAssumption DEF RemoveStmt
<1>2. CASE items' = T!Without(items, curr \o name) /\ Go(Read(0))
  <2>1. StandsIn(items', curr')
    BY <1>1, <1>2, StandsWithout
  <2>2. LegalItems(items)'
    BY <1>1, <1>2, WithoutLegal
  <2> QED BY <1>1, <1>2, <2>1, <2>2, ReadOnKeeps DEF ConfigStays
<1>3. CASE Throw /\ items' = items
  BY <1>1, <1>3, ThrowKeeps DEF ConfigStays
<1> QED BY <1>2, <1>3 DEF RemoveStmt

LEMMA ErrorStmtKeeps ==
    ASSUME IInv, ErrorStmt
    PROVE  IInv'
BY AtStatementFacts, SameConfig, ThrowKeeps DEF ErrorStmt

\* What is listed in a scope of the configuration or of the fallback is there.
LEMMA ListedIsThere ==
    ASSUME LegalItems(items), NEW from, RootLookup(items, from).type = "scope"
    PROVE  /\ from \in Seq(Names) /\ Listed(from) \subseteq Seq(Names)
           /\ \A p \in Listed(from) : IsStrictPrefix(from, p) /\ RootLookup(items, p) # NoItem
<1>1. LegalItems(Fallback)
  BY ParserAssumption
<1>2. from \in DOMAIN items \cup DOMAIN Fallback
  BY DEF RootLookup, InFallback, NoItem
<1>3. DOMAIN items \subseteq Seq(Names) /\ DOMAIN Fallback \subseteq Seq(Names)
  BY <1>1 DEF LegalItems
<1>4. ASSUME NEW p \in Listed(from) PROVE IsStrictPrefix(from, p) /\ p \in DOMAIN items \cup DOMAIN Fallback
  BY DEF Listed
<1>5. ASSUME NEW p \in DOMAIN items \cup DOMAIN Fallback PROVE RootLookup(items, p) # NoItem
  <2>1. CASE p \in DOMAIN items
    BY <2>1, LegalIsSomething
  <2>2. CASE p \notin DOMAIN items
    <3>1. Fallback[p] # NoItem
      BY <1>1, <1>5, <2>2, LegalIsSomething
    <3> QED BY <1>5, <2>2, <3>1 DEF RootLookup, InFallback
  <2> QED BY <2>1, <2>2
<1> QED BY <1>2, <1>3, <1>4, <1>5

LEMMA CopyFromKeeps ==
    ASSUME IInv, NEW e, NEW ifExists, CopyFrom(e, ifExists)
    PROVE  IInv'
<1> DEFINE from == StringAt(here, e)
           f == Copy(from.val, Listed(from.val))
<1>1. /\ result = "running" /\ AtStatement /\ LegalItems(items) /\ curr \in Seq(Names)
      /\ Top.kind \in {"file", "scope", "block"} /\ 0 \in Int
  BY AtStatementFacts DEF CopyFrom
<1>2. ConfigStays /\ curr' = curr /\ items' = items
  BY SameConfig DEF CopyFrom
<1>3. CASE Throw \/ Stops(from)
  BY <1>1, <1>2, <1>3, ThrowKeeps, StopsKeeps DEF CopyFrom
<1>4. CASE Go(Read(0))
  BY <1>1, <1>2, <1>4, ReadOnKeeps
<1>5. CASE RootLookup(items, from.val).type = "scope" /\ Go(Append(Read(0), f))
  <2>1. /\ from.val \in Seq(Names) /\ Listed(from.val) \subseteq Seq(Names)
        /\ \A p \in Listed(from.val) : IsStrictPrefix(from.val, p) /\ RootLookup(items, p) # NoItem
    BY <1>1, <1>5, ListedIsThere
  <2>2. f \in Frame /\ f.kind = "copy" /\ BlockCounted(f)
    BY <2>1 DEF Copy, Frame, CopyFrame, BlockCounted
  <2>3. CopiedSoFar(items, curr, f)
    BY <2>1 DEF Copy, CopiedSoFar
  <2> HIDE DEF f
  <2>4. Nesting(Read(0), curr, started) /\ Read(0) # <<>> /\ Last(Read(0)).kind # "copy"
    BY <1>1, ReadKeeps
  <2>5. Nesting(Append(Read(0), f), curr, started) /\ Append(Read(0), f) # <<>> /\ Last(Append(Read(0), f)) = f
    BY <1>1, <2>2, <2>4, PushKeeps
  <2> QED BY <1>1, <1>2, <1>5, <2>3, <2>5, GoKeeps
<1> QED BY <1>3, <1>4, <1>5 DEF CopyFrom

LEMMA CopyEntryKeeps ==
    ASSUME IInv, CopyEntry
    PROVE  IInv'
<1>1. /\ result = "running" /\ Top.kind = "copy" /\ curr' = curr /\ StandsIn(items, curr)
      /\ LegalItems(items) /\ curr \in Seq(Names) /\ CopiedSoFar(items, curr, Top)
      /\ Nesting(frames, curr, started) /\ frames # <<>> /\ frames \in Seq(Frame)
  BY DEF CopyEntry, IInv, ConfigOK, Nesting
<1>2. Top \in CopyFrame
  <2>1. 0 \in Int
    OBVIOUS
  <2> QED BY <1>1, <2>1, ReadKeeps, Kinds
<1>3. Nesting(Front(frames), curr, started) /\ Front(frames) # <<>> /\ Last(Front(frames)).kind # "copy"
  BY <1>1, PopKeeps DEF Top
<1>4. CASE Top.rest = {}
  <2>1. Go(Front(frames)) /\ ConfigStays
    BY <1>1, <1>4 DEF CopyEntry, ConfigStays
  <2> QED BY <1>1, <1>3, <2>1, GoKeeps
<1>5. CASE Top.rest # {}
  <2> DEFINE name(q) == NewName(Top.from, q)
             item(q) == RootLookup(items, q)
             f(q) == [Top EXCEPT !.rest = @ \ {q}]
             fits(q) == IF IsVar(item(q)) THEN T!CanWrite(items, curr, name(q)) ELSE T!Obstacles(items, curr, name(q)) = {}
  <2>1. PICK q \in Top.rest :
          /\ items' = IF IsVar(item(q)) THEN T!Written(items, curr, name(q), item(q)) ELSE T!WithScopes(items, curr, name(q))
          /\ IF fits(q) THEN Go(Instead(frames, f(q))) ELSE Throw
    BY <1>5 DEF CopyEntry
  <2>2. /\ Top.from \in Seq(Names) /\ q \in Seq(Names) /\ IsStrictPrefix(Top.from, q) /\ item(q) # NoItem
    BY <1>1, <1>2 DEF CopyFrame, CopiedSoFar
  <2>3. name(q) \in Seq(Names) \ {<<>>}
    BY <2>2, NewNameIs
  <2>4. item(q) \in T!Variables \cup {T!Scope} /\ (IsVar(item(q)) <=> item(q) \in T!Variables)
    <3>1. CASE q \in DOMAIN items
      BY <1>1, <3>1, LegalIsSomething, VariablesAre
    <3>2. CASE q \notin DOMAIN items
      <4>1. item(q) = Fallback[q] /\ q \in DOMAIN Fallback
        BY <2>2, <3>2 DEF RootLookup, InFallback
      <4> QED BY <4>1, ParserAssumption, VariablesAre DEF LegalItems
    <3> QED BY <3>1, <3>2
  <2>5. f(q) \in Frame /\ BlockCounted(f(q)) /\ f(q).kind = "copy"
        /\ f(q).from = Top.from /\ f(q).list = Top.list /\ f(q).rest = Top.rest \ {q}
    BY <1>1, <1>2 DEF Frame, CopyFrame, BlockCounted
  <2> HIDE DEF name, item, f
  <2>6. LegalItems(items')
    BY <1>1, <2>1, <2>3, <2>4, WrittenLegal, WithScopesLegal
  <2>7. ConfigStays
    <3>1. StandsIn(items', curr')
      BY <1>1, <2>1, <2>3, StandsWritten, StandsWithScopes
    <3> QED BY <1>1, <2>6, <3>1 DEF ConfigStays
  <2>8. CASE ~fits(q)
    BY <1>1, <2>1, <2>7, <2>8, ThrowKeeps
  <2>9. CASE fits(q)
    <3>1. Adds(items, items', curr, name(q), item(q))
      <4>1. CASE IsVar(item(q))
        BY <1>1, <2>1, <2>3, <2>9, <4>1, VariableAdded
      <4>2. CASE ~IsVar(item(q))
        BY <1>1, <2>1, <2>3, <2>4, <2>9, <4>2, ScopeAdded
      <4> QED BY <4>1, <4>2
    <3>2. CopiedSoFar(items', curr, f(q))
      BY <1>1, <1>2, <2>5, <2>6, <3>1, CopyStep DEF name, item
    <3>3. Go(Append(Front(frames), f(q)))
      BY <2>1, <2>9 DEF Instead
    <3>4. Nesting(Append(Front(frames), f(q)), curr, started) /\ Append(Front(frames), f(q)) # <<>>
          /\ Last(Append(Front(frames), f(q))) = f(q)
      BY <1>1, <1>3, <2>5, PushKeeps
    <3> QED BY <1>1, <2>7, <3>2, <3>3, <3>4, GoKeeps
  <2> QED BY <2>8, <2>9
<1> QED BY <1>4, <1>5

LEMMA ParseKeeps ==
    ASSUME IInv, NEW source, Parse(source)
    PROVE  IInv'
<1>1. /\ result = "none" /\ ConfigStays /\ curr' = curr /\ started' = started /\ curr \in Seq(Names)
      /\ frames = <<>> /\ Nesting(<<>>, curr, started)
  BY SameConfig DEF Parse, config, IInv, ConfigOK
<1>2. CASE ~Opens(source, 0)
  <2>1. IsPrefix(started, curr)
    <3>1. started = curr
      BY <1>1 DEF Nesting, ScopesKept
    <3> QED BY <1>1, <3>1, PrefixAt
  <2> QED BY <1>1, <1>2, <2>1 DEF Parse, IInv, ConfigOK, ConfigStays, NoCircularInclude
<1>3. CASE Opens(source, 0)
  <2> DEFINE f == File(source, MaxTokens)
  <2>1. frames' = <<f>> /\ included' = <<source>> /\ result' = "running"
    BY <1>3 DEF Parse
  <2>2. f \in Frame /\ f.kind = "file" /\ BlockCounted(f)
    BY <1>3, ParserAssumption DEF File, Frame, FileFrame, BlockCounted, Opens
  <2> HIDE DEF f
  <2>3. Append(<<>>, f) = <<f>>
    OBVIOUS
  <2>4. Nesting(frames', curr', started)
    BY <1>1, <2>1, <2>2, <2>3, NestingAppend
  <2>5. frames' # <<>> /\ Last(frames') = f
    BY <2>1 DEF Last
  <2>6. (NoCircularInclude /\ included \in Seq(Readable))'
    BY <1>3, <2>1 DEF NoCircularInclude, Opens
  <2> QED BY <1>1, <2>1, <2>2, <2>4, <2>5, <2>6, GoesOn
<1> QED BY <1>2, <1>3

-----------------------------------------------------------------------------
(* the invariant, and what it says *)

LEMMA InitOK ==
    Init => IInv
<1> SUFFICES ASSUME Init PROVE IInv
  OBVIOUS
<1>1. ConfigOK
  BY ParserAssumption DEF Init, ConfigOK
<1>2. Nesting(<<>>, curr, curr)
  BY DEF Nesting, ScopesKept, Chained
<1> QED BY <1>1, <1>2 DEF Init, IInv, NoCircularInclude

LEMMA StatementKeeps ==
    ASSUME IInv, Statement
    PROVE  IInv'
<1>1. ASSUME NEW name \in Idents, OpenScope(name) \/ RemoveStmt(name) \/ \E op, e : Assign(name, op, e)
      PROVE  IInv'
  BY <1>1, OpenScopeKeeps, RemoveStmtKeeps, AssignKeeps
<1>2. ASSUME NEW source \in Sources, NEW ifExists, Include(source, ifExists) PROVE IInv'
  BY <1>2, IncludeKeeps
<1>3. ASSUME NEW c, If(c) \/ ElseIf(c) PROVE IInv'
  BY <1>3, IfKeeps, ElseIfKeeps
<1>4. ASSUME NEW e, NEW ifExists, CopyFrom(e, ifExists) PROVE IInv'
  BY <1>4, CopyFromKeeps
<1>5. ASSUME Else \/ NoElse \/ CloseBrace \/ EndOfFile \/ ErrorStmt \/ CopyEntry \/ SkipToEnd PROVE IInv'
  BY <1>5, ElseKeeps, NoElseKeeps, CloseBraceKeeps, EndOfFileKeeps, ErrorStmtKeeps, CopyEntryKeeps, SkipToEndKeeps
<1>6. ASSUME NEW braces \in {-1, 0, 1}, Skip(braces) PROVE IInv'
  BY <1>6, SkipKeeps
<1> QED BY <1>1, <1>2, <1>3, <1>4, <1>5, <1>6 DEF Statement

LEMMA NextOK ==
    IInv /\ [Next]_vars => IInv'
<1> SUFFICES ASSUME IInv, [Next]_vars PROVE IInv'
  OBVIOUS
<1>1. CASE Statement
  BY <1>1, StatementKeeps
<1>2. ASSUME NEW source \in Given, Parse(source) PROVE IInv'
  BY <1>2, ParseKeeps
<1>3. CASE UNCHANGED vars
  BY <1>3 DEF IInv, ConfigOK, Top, NoCircularInclude, vars, config
<1> QED BY <1>1, <1>2, <1>3 DEF Next, Over

\* The frames of a parse nest, the scope each returns to is kept, and what is being
\* copied has arrived, whatever the source says.
THEOREM Inductive == Spec => []IInv
BY InitOK, NextOK, PTL DEF Spec

\* A parse that succeeds leaves the current scope as it found it, however blocks,
\* included files and skipped blocks follow each other, and one that fails leaves
\* it there or further inside, in a scope that exists.
THEOREM ScopeRestoredHolds == Spec => []ScopeRestored
<1>1. IInv => ScopeRestored
  <2> SUFFICES ASSUME IInv PROVE ScopeRestored
    OBVIOUS
  <2>1. ASSUME result = "ok" PROVE curr = started
    <3>1. frames = <<>> /\ Nesting(frames, curr, started)
      BY <2>1 DEF IInv
    <3>2. \A n \in 1..Len(frames) : ~IsOpened(frames, n)
      BY <3>1
    <3> QED BY <3>1, <3>2 DEF Nesting, ScopesKept
  <2> QED BY <2>1 DEF ScopeRestored, IInv, ConfigOK
<1> QED BY <1>1, Inductive, PTL

\* Of the blocks of an @if at most one is parsed, and with an @else exactly one,
\* whatever its conditions yield and the blocks before it do.
THEOREM OneBlockParsedHolds == Spec => []OneBlockParsed
<1>1. IInv => OneBlockParsed
  <2> SUFFICES ASSUME IInv PROVE OneBlockParsed
    OBVIOUS
  <2>1. CASE frames = <<>>
    BY <2>1 DEF OneBlockParsed
  <2>2. CASE frames # <<>>
    <3>1. frames \in Seq(Frame) /\ \A n \in 1..Len(frames) : BlockCounted(frames[n])
      BY <2>2 DEF IInv, Nesting
    <3>2. ASSUME NEW n \in DOMAIN frames
          PROVE  /\ frames[n].kind \in {"block", "skip", "chain"} => frames[n].ran <= 1
                 /\ frames[n].kind \in {"block", "skip"} /\ frames[n].last => frames[n].ran = 1
      <4>1. BlockCounted(frames[n])
        BY <3>1
      <4> QED BY <4>1 DEF BlockCounted
    <3> QED BY <3>2 DEF OneBlockParsed
  <2> QED BY <2>1, <2>2
<1> QED BY <1>1, Inductive, PTL

\* Every included file is parsed in the root scope, and none inside of itself,
\* unless it is included under another spelling.
THEOREM FilesNestHolds == Spec => []FilesNest
<1>1. IInv => FilesNest
  <2> SUFFICES ASSUME IInv PROVE IncludedAtRoot
    BY DEF FilesNest, IInv
  <2>1. CASE frames = <<>>
    BY <2>1 DEF IncludedAtRoot, Files
  <2>2. CASE frames # <<>>
    <3>1. frames \in Seq(Frame) /\ ScopesKept(frames, curr, started)
      BY <2>2 DEF IInv, Nesting
    <3>2. ASSUME NEW n \in Files, n > 1
          PROVE  started = <<>> /\ \A m \in 1..(n - 1) : frames[m].kind # "scope"
      <4>1. n \in 2..Len(frames) /\ frames[n].kind = "file"
        BY <3>1, <3>2 DEF Files
      <4> QED BY <3>1, <4>1 DEF ScopesKept, IsOpened
    <3> QED BY <3>2 DEF IncludedAtRoot
  <2> QED BY <2>1, <2>2
<1> QED BY <1>1, Inductive, PTL

\* A scope that @copyFrom has copied is there as a whole, with its values, from the
\* configuration or from the fallback, unless it is copied into itself.
THEOREM CopyIsWholeHolds == Spec => []CopyIsWhole
<1>1. IInv => CopyIsWhole
  <2> SUFFICES ASSUME IInv, result = "running", Top.kind = "copy"
               PROVE  /\ \A p \in Top.rest : RootLookup(items, p) # NoItem
                      /\ Top.rest = {} =>
                           \/ \E p \in Top.list : IsPrefix(Top.from, CopiedTo(p))
                           \/ \A p \in Top.list : CopiedTo(p) \in DOMAIN items /\ items[CopiedTo(p)] = RootLookup(items, p)
    BY DEF CopyIsWhole
  <2>1. CopiedSoFar(items, curr, Top)
    BY DEF IInv
  <2>2. \A p : CopiedTo(p) = Goal(curr, Top.from, p)
    BY DEF CopiedTo, Goal, NewName
  <2> QED BY <2>1, <2>2 DEF CopiedSoFar
<1> QED BY <1>1, Inductive, PTL

-----------------------------------------------------------------------------
(* braces and file names *)

FilesIn(fs) == {i \in 1..Len(fs) : fs[i].kind = "file"}
\* no file begins after place i
Inside(fs, i) == \A k \in (i + 1)..Len(fs) : fs[k].kind # "file"
Own(fs, i) == {j \in (i + 1)..Len(fs) : fs[j].kind \in Braced /\ \A k \in (i + 1)..j : fs[k].kind # "file"}

\* the braces that are open because of a frame, and those of them beyond the first
Weight(f) == CASE f.kind \in {"scope", "block"} -> 1 [] f.kind = "skip" -> f.depth [] OTHER -> 0
Deeper(fs, i) == IF fs[Len(fs)].kind = "skip" /\ Inside(fs, i) THEN fs[Len(fs)].depth - 1 ELSE 0

\* the braces of every file are counted, but for b too many of the innermost
Owed(fs, b) ==
  \A i \in FilesIn(fs) :
    fs[i].braces = Cardinality(Own(fs, i)) + Deeper(fs, i) + IF Inside(fs, i) THEN b ELSE 0
SkipsOnTop(fs) ==
  \A n \in 1..Len(fs) : fs[n].kind = "skip" => n = Len(fs) /\ fs[n].depth \in Nat \ {0}

Rank(fs, i) == Cardinality({j \in FilesIn(fs) : j <= i})
Named(fs, names) ==
  /\ Len(names) = Cardinality(FilesIn(fs))
  /\ \A i \in FilesIn(fs) : names[Rank(fs, i)] = fs[i].name

Tally(fs, b, names) == fs \in Seq(Frame) /\ SkipsOnTop(fs) /\ Owed(fs, b) /\ Named(fs, names)
Counts == Tally(frames, 0, included)

LEMMA OwnFinite ==
    ASSUME NEW fs \in Seq(Frame), NEW i \in 1..Len(fs)
    PROVE  IsFiniteSet(Own(fs, i)) /\ Cardinality(Own(fs, i)) \in Nat /\ Own(fs, i) \subseteq 1..Len(fs)
<1>1. Len(fs) \in Nat /\ Own(fs, i) \in SUBSET (1..Len(fs))
  BY DEF Own
<1>2. IsFiniteSet(1..Len(fs))
  BY <1>1, FS_Interval
<1>3. IsFiniteSet(Own(fs, i))
  BY <1>1, <1>2, FS_Subset
<1> QED BY <1>1, <1>3, FS_CardinalityType

LEMMA FilesFinite ==
    ASSUME NEW fs \in Seq(Frame)
    PROVE  /\ IsFiniteSet(FilesIn(fs)) /\ Cardinality(FilesIn(fs)) \in Nat
           /\ \A i \in FilesIn(fs) : Rank(fs, i) \in 1..Cardinality(FilesIn(fs))
<1>1. Len(fs) \in Nat /\ FilesIn(fs) \in SUBSET (1..Len(fs))
  BY DEF FilesIn
<1>2. IsFiniteSet(1..Len(fs))
  BY <1>1, FS_Interval
<1>3. IsFiniteSet(FilesIn(fs)) /\ Cardinality(FilesIn(fs)) \in Nat
  BY <1>1, <1>2, FS_Subset, FS_CardinalityType
<1>4. ASSUME NEW i \in FilesIn(fs) PROVE Rank(fs, i) \in 1..Cardinality(FilesIn(fs))
  <2> DEFINE below == {j \in FilesIn(fs) : j <= i}
  <2>1. below \in SUBSET FilesIn(fs) /\ i \in below
    BY <1>1, <1>4
  <2> HIDE DEF below
  <2>2. IsFiniteSet(below) /\ Cardinality(below) \in Nat /\ Cardinality(below) <= Cardinality(FilesIn(fs))
    BY <1>3, <2>1, FS_Subset, FS_CardinalityType
  <2>3. Cardinality(below) # 0
    BY <2>1, <2>2, FS_EmptySet
  <2>4. Cardinality(below) \in 1..Cardinality(FilesIn(fs))
    BY <1>3, <2>2, <2>3
  <2> QED BY <2>4 DEF below, Rank
<1> QED BY <1>3, <1>4

\* A frame on top is one more block of the innermost file, if it is a block at all.
LEMMA TopWeighs ==
    ASSUME NEW fs \in Seq(Frame), NEW gs \in Seq(Frame), Len(gs) = Len(fs) + 1,
           \A n \in 1..Len(fs) : gs[n] = fs[n], gs[Len(gs)].kind # "file"
    PROVE  /\ FilesIn(gs) = FilesIn(fs)
           /\ \A i \in FilesIn(fs) :
                /\ Inside(gs, i) <=> Inside(fs, i)
                /\ Cardinality(Own(fs, i)) \in Nat /\ Cardinality(Own(gs, i)) \in Nat
                /\ Deeper(gs, i) \in Int
                /\ Cardinality(Own(gs, i)) + Deeper(gs, i)
                     = Cardinality(Own(fs, i)) + IF Inside(fs, i) THEN Weight(gs[Len(gs)]) ELSE 0
<1> DEFINE N == Len(fs)
           f == gs[N + 1]
<1>1. N \in Nat /\ Len(gs) = N + 1 /\ f \in Frame /\ f.kind # "file"
  OBVIOUS
<1>2. FilesIn(gs) = FilesIn(fs)
  BY <1>1 DEF FilesIn
<1>3. SUFFICES ASSUME NEW i \in FilesIn(fs)
      PROVE  /\ Inside(gs, i) <=> Inside(fs, i)
             /\ Cardinality(Own(fs, i)) \in Nat /\ Cardinality(Own(gs, i)) \in Nat
             /\ Deeper(gs, i) \in Int
             /\ Cardinality(Own(gs, i)) + Deeper(gs, i)
                  = Cardinality(Own(fs, i)) + IF Inside(fs, i) THEN Weight(gs[Len(gs)]) ELSE 0
  BY <1>2
<1>4. i \in 1..N /\ i \in 1..Len(gs)
  BY <1>1 DEF FilesIn
<1>5. Inside(gs, i) <=> Inside(fs, i)
  BY <1>1, <1>4 DEF Inside
<1>6. /\ Cardinality(Own(fs, i)) \in Nat /\ Cardinality(Own(gs, i)) \in Nat
      /\ IsFiniteSet(Own(fs, i)) /\ N + 1 \notin Own(fs, i)
  BY <1>1, <1>4, OwnFinite
<1>7. f.kind \in {"scope", "block", "skip", "chain", "copy"} /\ (f.kind = "skip" => f.depth \in Int)
  BY <1>1, Kinds DEF SkipFrame
<1>8. CASE Inside(fs, i) /\ f.kind \in Braced
  <2>1. Own(gs, i) = Own(fs, i) \cup {N + 1}
    BY <1>1, <1>4, <1>8 DEF Own, Inside
  <2>2. Cardinality(Own(gs, i)) = Cardinality(Own(fs, i)) + 1
    BY <1>6, <2>1, FS_AddElement
  <2>3. Deeper(gs, i) \in Int /\ Weight(f) = 1 + Deeper(gs, i)
    BY <1>1, <1>5, <1>7, <1>8 DEF Deeper, Weight, Braced
  <2> HIDE DEF f
  <2> QED BY <1>1, <1>5, <1>6, <1>8, <2>2, <2>3 DEF f
<1>9. CASE ~(Inside(fs, i) /\ f.kind \in Braced)
  <2>1. Own(gs, i) = Own(fs, i)
    BY <1>1, <1>4, <1>9 DEF Own, Inside
  <2>2. Deeper(gs, i) = 0
    BY <1>1, <1>5, <1>9 DEF Deeper, Braced
  <2>3. Inside(fs, i) => Weight(f) = 0
    BY <1>7, <1>9 DEF Weight, Braced
  <2> QED BY <1>1, <1>5, <1>6, <2>1, <2>2, <2>3
<1> QED BY <1>8, <1>9

\* A file on top has no block yet, and ends the blocks of the one below.
LEMMA FileOnTop ==
    ASSUME NEW fs \in Seq(Frame), NEW gs \in Seq(Frame), Len(gs) = Len(fs) + 1,
           \A n \in 1..Len(fs) : gs[n] = fs[n], gs[Len(gs)].kind = "file"
    PROVE  /\ FilesIn(gs) = FilesIn(fs) \cup {Len(gs)} /\ Len(gs) \notin FilesIn(fs)
           /\ Cardinality(Own(gs, Len(gs))) = 0
           /\ \A i \in FilesIn(gs) : Deeper(gs, i) = 0
           /\ \A i \in FilesIn(fs) : ~Inside(gs, i) /\ Own(gs, i) = Own(fs, i) /\ Cardinality(Own(fs, i)) \in Nat
<1>1. Len(fs) \in Nat
  OBVIOUS
<1>2. FilesIn(gs) = FilesIn(fs) \cup {Len(gs)} /\ Len(gs) \notin FilesIn(fs)
  BY <1>1 DEF FilesIn
<1>3. Own(gs, Len(gs)) = {}
  BY <1>1 DEF Own
<1>4. \A i \in FilesIn(gs) : Deeper(gs, i) = 0
  BY DEF Deeper
<1>5. ASSUME NEW i \in FilesIn(fs)
      PROVE  ~Inside(gs, i) /\ Own(gs, i) = Own(fs, i) /\ Cardinality(Own(fs, i)) \in Nat
  <2>1. i \in 1..Len(fs)
    BY <1>5 DEF FilesIn
  <2>2. ~Inside(gs, i)
    BY <1>1, <2>1 DEF Inside
  <2>3. Own(gs, i) = Own(fs, i)
    BY <1>1, <2>1 DEF Own
  <2> QED BY <2>1, <2>2, <2>3, OwnFinite
<1> QED BY <1>2, <1>3, <1>4, <1>5, FS_EmptySet

\* The file names only depend on which frames are files, and on their names.
LEMMA SameFiles ==
    ASSUME NEW fs, NEW gs, FilesIn(gs) = FilesIn(fs), \A i \in FilesIn(fs) : gs[i].name = fs[i].name,
           NEW names, Named(fs, names)
    PROVE  Named(gs, names)
BY DEF Named, Rank

LEMMA PushCounts ==
    ASSUME NEW fs, fs # <<>>, NEW b \in Int, NEW names, Tally(fs, b, names), Last(fs).kind # "skip",
           NEW f \in Frame, f.kind # "file", f.kind = "skip" => f.depth \in Nat \ {0},
           NEW c \in Int, b = c + Weight(f)
    PROVE  Tally(Append(fs, f), c, names)
<1> DEFINE gs == Append(fs, f)
<1>1. fs \in Seq(Frame) /\ Len(fs) \in Nat \ {0} /\ Last(fs) = fs[Len(fs)]
  BY FrontLast DEF Tally
<1>2. /\ gs \in Seq(Frame) /\ Len(gs) = Len(fs) + 1 /\ gs[Len(gs)] = f
      /\ \A n \in 1..Len(fs) : gs[n] = fs[n]
  BY <1>1
<1> HIDE DEF gs
<1>3. SkipsOnTop(gs)
  BY <1>1, <1>2 DEF Tally, SkipsOnTop
<1>4. /\ FilesIn(gs) = FilesIn(fs) /\ FilesIn(fs) \subseteq 1..Len(fs)
      /\ \A i \in FilesIn(fs) : Deeper(fs, i) = 0 /\ gs[i] = fs[i]
  BY <1>1, <1>2, TopWeighs DEF Deeper, FilesIn
<1>5. Weight(f) \in Int
  BY Kinds DEF Weight, SkipFrame
<1>6. ASSUME NEW i \in FilesIn(gs)
      PROVE  gs[i].braces = Cardinality(Own(gs, i)) + Deeper(gs, i) + IF Inside(gs, i) THEN c ELSE 0
  <2>1. /\ Inside(gs, i) <=> Inside(fs, i)
        /\ Cardinality(Own(fs, i)) \in Nat /\ Cardinality(Own(gs, i)) \in Nat
        /\ Deeper(gs, i) \in Int
        /\ Cardinality(Own(gs, i)) + Deeper(gs, i)
             = Cardinality(Own(fs, i)) + IF Inside(fs, i) THEN Weight(f) ELSE 0
    BY <1>1, <1>2, <1>4, <1>6, TopWeighs
  <2>2. fs[i].braces = Cardinality(Own(fs, i)) + Deeper(fs, i) + IF Inside(fs, i) THEN b ELSE 0
    BY <1>4, <1>6 DEF Tally, Owed
  <2>3. Deeper(fs, i) = 0 /\ gs[i] = fs[i]
    BY <1>4, <1>6
  <2>4. CASE Inside(fs, i)
    BY <1>5, <2>1, <2>2, <2>3, <2>4
  <2>5. CASE ~Inside(fs, i)
    BY <1>5, <2>1, <2>2, <2>3, <2>5
  <2> QED BY <2>4, <2>5
<1>7. Named(gs, names)
  BY <1>4, SameFiles DEF Tally
<1>8. Tally(gs, c, names)
  BY <1>2, <1>3, <1>6, <1>7 DEF Tally, Owed
<1> QED BY <1>8 DEF gs

LEMMA PopCounts ==
    ASSUME NEW fs, fs # <<>>, NEW b \in Int, NEW names, Tally(fs, b, names), Last(fs).kind # "file",
           NEW c \in Int, c = b + Weight(Last(fs))
    PROVE  Tally(Front(fs), c, names) /\ (Front(fs) # <<>> => Last(Front(fs)).kind # "skip")
<1> DEFINE gs == Front(fs)
           f == Last(fs)
<1>1. /\ fs \in Seq(Frame) /\ Len(fs) \in Nat \ {0} /\ f = fs[Len(fs)] /\ f \in Frame
      /\ gs \in Seq(Frame) /\ Len(gs) = Len(fs) - 1 /\ \A n \in 1..(Len(fs) - 1) : gs[n] = fs[n]
  BY FrontLast DEF Tally
<1> HIDE DEF gs, f
<1>2. Len(fs) = Len(gs) + 1 /\ Len(gs) \in Nat /\ \A n \in 1..Len(gs) : fs[n] = gs[n]
  BY <1>1
<1>3. \A n \in 1..Len(gs) : gs[n].kind # "skip"
  BY <1>1, <1>2 DEF Tally, SkipsOnTop
<1>4. gs # <<>> => Last(gs).kind # "skip"
  <2> SUFFICES ASSUME gs # <<>> PROVE Last(gs).kind # "skip"
    OBVIOUS
  <2>1. gs \in Seq(Frame)
    BY <1>1
  <2>2. Last(gs) = gs[Len(gs)] /\ Len(gs) \in Nat \ {0}
    BY <2>1, FrontLast
  <2> QED BY <1>3, <2>2
<1>5. /\ FilesIn(fs) = FilesIn(gs) /\ FilesIn(gs) \subseteq 1..Len(gs)
      /\ \A i \in FilesIn(gs) : Deeper(gs, i) = 0 /\ gs[i] = fs[i]
  <2>1. FilesIn(fs) = FilesIn(gs)
    BY <1>1, <1>2, TopWeighs DEF f
  <2>2. ASSUME NEW i \in FilesIn(gs) PROVE i \in 1..Len(gs) /\ Len(gs) \in 1..Len(gs)
    BY <1>2 DEF FilesIn
  <2> QED BY <1>2, <1>3, <2>1, <2>2 DEF Deeper
<1>6. Weight(f) \in Int
  BY <1>1, Kinds DEF Weight, SkipFrame
<1>7. ASSUME NEW i \in FilesIn(gs)
      PROVE  gs[i].braces = Cardinality(Own(gs, i)) + Deeper(gs, i) + IF Inside(gs, i) THEN c ELSE 0
  <2>1. /\ Inside(fs, i) <=> Inside(gs, i)
        /\ Cardinality(Own(fs, i)) \in Nat /\ Cardinality(Own(gs, i)) \in Nat
        /\ Deeper(fs, i) \in Int
        /\ Cardinality(Own(fs, i)) + Deeper(fs, i)
             = Cardinality(Own(gs, i)) + IF Inside(gs, i) THEN Weight(f) ELSE 0
    BY <1>1, <1>2, <1>7, TopWeighs DEF f
  <2>2. fs[i].braces = Cardinality(Own(fs, i)) + Deeper(fs, i) + IF Inside(fs, i) THEN b ELSE 0
    BY <1>5, <1>7 DEF Tally, Owed
  <2>3. Deeper(gs, i) = 0 /\ gs[i] = fs[i] /\ c = b + Weight(f)
    BY <1>5, <1>7 DEF f
  <2>4. CASE Inside(gs, i)
    BY <1>6, <2>1, <2>2, <2>3, <2>4
  <2>5. CASE ~Inside(gs, i)
    BY <1>6, <2>1, <2>2, <2>3, <2>5
  <2> QED BY <2>4, <2>5
<1>8. Named(gs, names)
  BY <1>5, SameFiles DEF Tally
<1>9. Tally(gs, c, names)
  BY <1>1, <1>2, <1>3, <1>7, <1>8 DEF Tally, Owed, SkipsOnTop
<1> QED BY <1>4, <1>9 DEF gs

LEMMA PushFileCounts ==
    ASSUME NEW fs, fs # <<>>, NEW S, NEW names \in Seq(S), Tally(fs, 0, names), Last(fs).kind # "skip",
           NEW f \in FileFrame, f.braces = 0
    PROVE  Tally(Append(fs, f), 0, Append(names, f.name))
<1> DEFINE gs == Append(fs, f)
           more == Append(names, f.name)
<1>1. fs \in Seq(Frame) /\ Len(fs) \in Nat \ {0} /\ Last(fs) = fs[Len(fs)] /\ f \in Frame
  BY FrontLast DEF Tally, Frame
<1>2. /\ gs \in Seq(Frame) /\ Len(gs) = Len(fs) + 1 /\ gs[Len(gs)] = f /\ f.kind = "file"
      /\ \A n \in 1..Len(fs) : gs[n] = fs[n]
  BY <1>1 DEF FileFrame
<1>3. /\ Len(names) \in Nat /\ Len(more) = Len(names) + 1 /\ more[Len(names) + 1] = f.name
      /\ \A n \in 1..Len(names) : more[n] = names[n]
  BY AppendProperties
<1> HIDE DEF gs, more
<1>4. SkipsOnTop(gs)
  BY <1>1, <1>2 DEF Tally, SkipsOnTop
<1>5. /\ FilesIn(gs) = FilesIn(fs) \cup {Len(gs)} /\ Len(gs) \notin FilesIn(fs)
      /\ Cardinality(Own(gs, Len(gs))) = 0
      /\ \A i \in FilesIn(gs) : Deeper(gs, i) = 0
      /\ \A i \in FilesIn(fs) : ~Inside(gs, i) /\ Own(gs, i) = Own(fs, i) /\ Cardinality(Own(fs, i)) \in Nat
  BY <1>1, <1>2, FileOnTop
<1>6. \A i \in FilesIn(fs) : i \in 1..Len(fs) /\ gs[i] = fs[i] /\ Deeper(fs, i) = 0
  BY <1>1, <1>2 DEF FilesIn, Deeper
<1>7. ASSUME NEW i \in FilesIn(gs)
      PROVE  gs[i].braces = Cardinality(Own(gs, i)) + Deeper(gs, i) + IF Inside(gs, i) THEN 0 ELSE 0
  <2>1. CASE i = Len(gs)
    BY <1>2, <1>5, <1>7, <2>1
  <2>2. CASE i \in FilesIn(fs)
    <3>1. fs[i].braces = Cardinality(Own(fs, i)) + Deeper(fs, i) + IF Inside(fs, i) THEN 0 ELSE 0
      BY <2>2 DEF Tally, Owed
    <3> QED BY <1>5, <1>6, <1>7, <2>2, <3>1
  <2> QED BY <1>5, <1>7, <2>1, <2>2
<1>8. Named(gs, more)
  <2>1. IsFiniteSet(FilesIn(fs)) /\ Cardinality(FilesIn(fs)) = Len(names)
    BY <1>1, FilesFinite DEF Tally, Named
  <2>2. Cardinality(FilesIn(gs)) = Len(names) + 1
    BY <1>5, <2>1, FS_AddElement
  <2>3. ASSUME NEW i \in FilesIn(gs) PROVE more[Rank(gs, i)] = gs[i].name
    <3>1. CASE i = Len(gs)
      <4>1. \A j \in FilesIn(gs) : j <= i
        BY <1>2, <1>5, <1>6, <3>1
      <4>2. {j \in FilesIn(gs) : j <= i} = FilesIn(gs)
        BY <4>1
      <4> QED BY <1>2, <1>3, <2>2, <3>1, <4>2 DEF Rank
    <3>2. CASE i \in FilesIn(fs)
      <4>1. ~(Len(gs) <= i)
        BY <1>2, <1>6, <3>2
      <4>2. {j \in FilesIn(gs) : j <= i} = {j \in FilesIn(fs) : j <= i}
        BY <1>5, <4>1
      <4>3. Rank(gs, i) = Rank(fs, i) /\ Rank(fs, i) \in 1..Len(names)
        BY <1>1, <2>1, <3>2, <4>2, FilesFinite DEF Rank
      <4>4. names[Rank(fs, i)] = fs[i].name
        BY <3>2 DEF Tally, Named
      <4> QED BY <1>3, <1>6, <3>2, <4>3, <4>4
    <3> QED BY <1>5, <2>3, <3>1, <3>2
  <2> QED BY <1>3, <2>2, <2>3 DEF Named
<1>9. Tally(gs, 0, more)
  BY <1>2, <1>4, <1>7, <1>8 DEF Tally, Owed
<1> QED BY <1>9 DEF gs, more

LEMMA PopFileCounts ==
    ASSUME NEW fs, fs # <<>>, NEW S, NEW names \in Seq(S), Tally(fs, 0, names), Last(fs).kind = "file"
    PROVE  Tally(Front(fs), 0, Front(names))
<1> DEFINE gs == Front(fs)
           N == Len(fs)
<1>1. /\ fs \in Seq(Frame) /\ Len(fs) \in Nat \ {0} /\ fs[Len(fs)].kind = "file"
      /\ gs \in Seq(Frame) /\ Len(gs) = Len(fs) - 1 /\ \A n \in 1..(Len(fs) - 1) : gs[n] = fs[n]
  BY FrontLast DEF Tally
<1> HIDE DEF gs
<1>2. Len(fs) = Len(gs) + 1 /\ Len(gs) \in Nat /\ \A n \in 1..Len(gs) : fs[n] = gs[n]
  BY <1>1
<1>3. \A n \in 1..Len(gs) : gs[n].kind # "skip"
  BY <1>1, <1>2 DEF Tally, SkipsOnTop
<1>4. /\ FilesIn(fs) = FilesIn(gs) \cup {Len(fs)} /\ Len(fs) \notin FilesIn(gs)
      /\ \A i \in FilesIn(fs) : Deeper(fs, i) = 0
      /\ \A i \in FilesIn(gs) : ~Inside(fs, i) /\ Own(fs, i) = Own(gs, i) /\ Cardinality(Own(gs, i)) \in Nat
  BY <1>1, <1>2, FileOnTop
<1>5. ASSUME NEW i \in FilesIn(gs)
      PROVE  i \in 1..Len(gs) /\ gs[i] = fs[i] /\ Deeper(gs, i) = 0
  <2>1. i \in 1..Len(gs) /\ Len(gs) \in 1..Len(gs)
    BY <1>2 DEF FilesIn
  <2> QED BY <1>2, <1>3, <2>1 DEF Deeper
<1>6. ASSUME NEW i \in FilesIn(gs)
      PROVE  gs[i].braces = Cardinality(Own(gs, i)) + Deeper(gs, i) + IF Inside(gs, i) THEN 0 ELSE 0
  <2>1. fs[i].braces = Cardinality(Own(fs, i)) + Deeper(fs, i) + IF Inside(fs, i) THEN 0 ELSE 0
    BY <1>4, <1>6 DEF Tally, Owed
  <2> QED BY <1>4, <1>5, <1>6, <2>1
<1>7. Named(gs, Front(names))
  <2>1. IsFiniteSet(FilesIn(fs)) /\ Cardinality(FilesIn(fs)) = Len(names)
    BY <1>1, FilesFinite DEF Tally, Named
  <2>2. FilesIn(gs) = FilesIn(fs) \ {Len(fs)} /\ Len(fs) \in FilesIn(fs)
    BY <1>4
  <2>3. Cardinality(FilesIn(gs)) = Len(names) - 1
    BY <2>1, <2>2, FS_RemoveElement
  <2>4. Cardinality(FilesIn(gs)) \in Nat /\ \A i \in FilesIn(gs) : Rank(gs, i) \in 1..Cardinality(FilesIn(gs))
    BY <1>1, FilesFinite
  <2>5. names # <<>>
    BY <2>3, <2>4
  <2>6. Len(Front(names)) = Len(names) - 1 /\ \A n \in 1..(Len(names) - 1) : Front(names)[n] = names[n]
    BY <2>5, FrontLast
  <2>7. ASSUME NEW i \in FilesIn(gs) PROVE Front(names)[Rank(gs, i)] = gs[i].name
    <3>1. ~(Len(fs) <= i)
      BY <1>2, <1>5, <2>7
    <3>2. {j \in FilesIn(fs) : j <= i} = {j \in FilesIn(gs) : j <= i}
      BY <2>2, <3>1
    <3>3. Rank(gs, i) = Rank(fs, i)
      BY <3>2 DEF Rank
    <3>4. names[Rank(fs, i)] = fs[i].name
      BY <2>2, <2>7 DEF Tally, Named
    <3> QED BY <1>5, <2>3, <2>4, <2>6, <2>7, <3>3, <3>4
  <2> QED BY <2>3, <2>6, <2>7 DEF Named
<1>8. Tally(gs, 0, Front(names))
  BY <1>1, <1>2, <1>3, <1>6, <1>7 DEF Tally, Owed, SkipsOnTop
<1> QED BY <1>8 DEF gs

\* A token that is read counts its braces in the innermost file.
LEMMA ReadCounts ==
    ASSUME IInv, Counts, result = "running", NEW b \in Int
    PROVE  Tally(Read(b), b, included)
<1>1. /\ frames \in Seq(Frame) /\ frames # <<>> /\ frames[1].kind = "file"
      /\ SkipsOnTop(frames) /\ Owed(frames, 0) /\ Named(frames, included)
  BY DEF IInv, Nesting, Counts, Tally
<1>2. /\ Innermost \in 1..Len(frames) /\ frames[Innermost] \in FileFrame
      /\ \A j \in Files : j <= Innermost
  BY <1>1, InnermostIsFile
<1> DEFINE gs == Read(b)
<1>3. gs \in Seq(Frame) /\ Len(gs) = Len(frames) /\ Len(frames) \in Nat
  BY <1>1, ReadIsAlike DEF Alike
<1>4. /\ \A n \in 1..Len(frames) : n # Innermost => gs[n] = frames[n]
      /\ gs[Innermost].kind = "file" /\ frames[Innermost].kind = "file"
      /\ gs[Innermost].name = frames[Innermost].name
      /\ gs[Innermost].braces = frames[Innermost].braces + b
  BY <1>1, <1>2 DEF Read, FileFrame
<1> HIDE DEF gs
<1>5. \A n \in 1..Len(frames) : gs[n].kind = frames[n].kind
  BY <1>4
<1>6. FilesIn(gs) = FilesIn(frames) /\ FilesIn(frames) = Files
  BY <1>1, <1>3, <1>5 DEF FilesIn, Files
<1>7. Named(gs, included)
  <2>1. \A i \in FilesIn(frames) : gs[i].name = frames[i].name
    BY <1>4 DEF FilesIn
  <2> QED BY <1>1, <1>6, <2>1, SameFiles
<1>8. SkipsOnTop(gs)
  BY <1>1, <1>3, <1>4 DEF SkipsOnTop
<1>9. ASSUME NEW i \in FilesIn(gs)
      PROVE  gs[i].braces = Cardinality(Own(gs, i)) + Deeper(gs, i) + IF Inside(gs, i) THEN b ELSE 0
  <2>1. i \in 1..Len(frames) /\ frames[i].kind = "file"
    BY <1>6, <1>9 DEF FilesIn
  <2>2. Inside(gs, i) <=> Inside(frames, i)
    BY <1>3, <1>5, <2>1 DEF Inside
  <2>3. Own(gs, i) = Own(frames, i)
    BY <1>3, <1>5, <2>1 DEF Own
  <2>4. Inside(frames, i) <=> i = Innermost
    <3>1. ASSUME i = Innermost, NEW k \in (i + 1)..Len(frames) PROVE frames[k].kind # "file"
      <4>1. k \in 1..Len(frames) /\ ~(k <= Innermost)
        BY <1>2, <1>3, <2>1, <3>1
      <4> QED BY <1>2, <1>6, <4>1 DEF FilesIn
    <3>2. ASSUME i # Innermost PROVE ~Inside(frames, i)
      <4>1. i <= Innermost /\ Innermost \in (i + 1)..Len(frames)
        BY <1>2, <1>3, <1>6, <1>9, <2>1, <3>2
      <4> QED BY <1>4, <4>1 DEF Inside
    <3> QED BY <3>1, <3>2 DEF Inside
  <2>5. Deeper(gs, i) = Deeper(frames, i)
    <3>1. Len(frames) \in 1..Len(frames)
      BY <1>3, <2>1
    <3>2. Len(frames) = Innermost => frames[Len(frames)].kind = "file" /\ gs[Len(frames)].kind = "file"
      BY <1>4
    <3> QED BY <1>3, <1>4, <2>2, <3>1, <3>2 DEF Deeper
  <2>6. frames[i].braces = Cardinality(Own(frames, i)) + Deeper(frames, i) + IF Inside(frames, i) THEN 0 ELSE 0
    BY <1>1, <1>6, <1>9 DEF Owed
  <2>7. Cardinality(Own(frames, i)) \in Nat /\ Deeper(frames, i) \in Int
    <3>1. Len(frames) \in 1..Len(frames) /\ frames[Len(frames)] \in Frame
      BY <1>1, <1>3, <2>1
    <3>2. Deeper(frames, i) \in Int
      BY <3>1, Kinds DEF Deeper, SkipFrame
    <3> QED BY <1>1, <2>1, <3>2, OwnFinite
  <2>8. CASE i = Innermost
    BY <1>4, <2>2, <2>3, <2>4, <2>5, <2>6, <2>7, <2>8
  <2>9. CASE i # Innermost
    BY <1>4, <2>1, <2>2, <2>3, <2>4, <2>5, <2>6, <2>7, <2>9
  <2> QED BY <2>8, <2>9
<1>10. Tally(gs, b, included)
  BY <1>3, <1>7, <1>8, <1>9 DEF Tally, Owed
<1> QED BY <1>10 DEF gs

\* An error leaves no file on the stack.
LEMMA ThrowCounts ==
    ASSUME IInv, Counts, result = "running", Throw
    PROVE  Counts'
<1>1. frames \in Seq(Frame) /\ Len(included) = Cardinality(FilesIn(frames)) /\ included \in Seq(Readable)
  BY DEF IInv, Counts, Tally, Named
<1>2. FilesIn(frames) = Files /\ Cardinality(FilesIn(frames)) \in Nat
  BY <1>1, FilesFinite DEF FilesIn, Files
<1>3. included' = SubSeq(included, 1, 0) /\ frames' = <<>>
  BY <1>1, <1>2 DEF Throw
<1>4. SubSeq(included, 1, 0) = <<>>
  BY <1>1, SubSeqEmpty
<1>5. FilesIn(<<>>) = {} /\ <<>> \in Seq(Frame)
  BY DEF FilesIn
<1>6. Tally(<<>>, 0, <<>>)
  BY <1>5, FS_EmptySet DEF Tally, SkipsOnTop, Owed, Named
<1> QED BY <1>3, <1>4, <1>6 DEF Counts

\* Nor does an expression that never comes back change what is on it.
LEMMA StopsCounts ==
    ASSUME IInv, Counts, result = "running", NEW value, Stops(value)
    PROVE  Counts'
<1>1. CASE value.loops
  BY <1>1 DEF Stops, Counts
<1>2. CASE ~value.loops
  BY <1>2, ThrowCounts DEF Stops
<1> QED BY <1>1, <1>2

LEMMA GoCounts ==
    ASSUME NEW fs, Go(fs), Tally(fs, 0, included)
    PROVE  Counts'
BY DEF Go, Counts

\* What a statement starts from: what is read, and that there is a file below.
LEMMA AfterRead ==
    ASSUME IInv, Counts, result = "running", NEW b \in Int
    PROVE  /\ Tally(Read(b), b, included) /\ Read(b) # <<>> /\ Last(Read(b)).kind = Top.kind
           /\ Top \in Frame /\ Top.kind \in {"file", "scope", "block", "skip", "chain", "copy"}
           /\ Top.kind # "file" => Last(Read(b)) = Top /\ Front(Read(b)) # <<>>
           /\ frames # <<>> /\ Last(frames) = Top /\ Tally(frames, 0, included)
<1>1. /\ Nesting(Read(b), curr, started) /\ Read(b) # <<>> /\ Last(Read(b)).kind = Top.kind
      /\ Top.kind # "file" => Last(Read(b)) = Top
      /\ Top \in Frame
  BY ReadKeeps
<1>2. Top.kind # "file" => Front(Read(b)) # <<>>
  <2> SUFFICES ASSUME Top.kind # "file" PROVE Front(Read(b)) # <<>>
    OBVIOUS
  <2> DEFINE fs == Read(b)
  <2>1. fs # <<>> /\ Nesting(fs, curr, started) /\ Last(fs).kind # "file"
    BY <1>1
  <2>2. PICK d : IF Last(fs).kind = "scope" THEN d = Last(fs).old ELSE d = curr
    OBVIOUS
  <2> HIDE DEF fs
  <2>3. Front(fs) # <<>>
    BY <2>1, <2>2, PopKeeps
  <2> QED BY <2>3 DEF fs
<1>3. frames # <<>>
  BY DEF IInv
<1> QED BY <1>1, <1>2, <1>3, ReadCounts, Kinds DEF Counts, Top

LEMMA AtStatementCounts ==
    ASSUME IInv, Counts, AtStatement, NEW fs,
           \/ fs = Read(0)
           \/ \E f \in Frame : /\ f.kind # "file" /\ (f.kind = "skip" => f.depth \in Nat \ {0})
                               /\ \E b \in Int : b = Weight(f) /\ fs = Append(Read(b), f)
    PROVE  Tally(fs, 0, included)
<1>1. result = "running" /\ Top.kind \in {"file", "scope", "block"}
  BY AtStatementFacts
<1>2. CASE fs = Read(0)
  BY <1>1, <1>2, AfterRead
<1>3. ASSUME NEW f \in Frame, f.kind # "file", f.kind = "skip" => f.depth \in Nat \ {0},
             NEW b \in Int, b = Weight(f), fs = Append(Read(b), f)
      PROVE  Tally(fs, 0, included)
  <2> DEFINE gs == Read(b)
  <2>1. gs # <<>> /\ Tally(gs, b, included) /\ Last(gs).kind # "skip" /\ b = 0 + Weight(f) /\ 0 \in Int
    BY <1>1, <1>3, AfterRead
  <2> HIDE DEF gs
  <2>2. Tally(Append(gs, f), 0, included)
    BY <1>3, <2>1, PushCounts
  <2> QED BY <1>3, <2>2 DEF gs
<1> QED BY <1>2, <1>3

\* The token that ends a block pays for it.
LEMMA ClosedCounts ==
    ASSUME IInv, Counts, result = "running", Top.kind # "file",
           NEW b \in Int, NEW c \in Int, c = b + Weight(Top)
    PROVE  /\ Tally(Front(Read(b)), c, included)
           /\ Front(Read(b)) # <<>> /\ Last(Front(Read(b))).kind # "skip"
<1> DEFINE fs == Read(b)
<1>1. fs # <<>> /\ Tally(fs, b, included) /\ Last(fs) = Top /\ Front(fs) # <<>>
  BY AfterRead
<1> HIDE DEF fs
<1>2. Tally(Front(fs), c, included) /\ Last(Front(fs)).kind # "skip"
  BY <1>1, PopCounts
<1> QED BY <1>1, <1>2 DEF fs

LEMMA InsteadCounts ==
    ASSUME IInv, Counts, result = "running", Top.kind # "file",
           NEW b \in Int, NEW f \in Frame, f.kind # "file", f.kind = "skip" => f.depth \in Nat \ {0},
           NEW c \in Int, c = b + Weight(Top), c = Weight(f)
    PROVE  Tally(Instead(Read(b), f), 0, included)
<1> DEFINE gs == Front(Read(b))
<1>1. gs # <<>> /\ Tally(gs, c, included) /\ Last(gs).kind # "skip" /\ c = 0 + Weight(f) /\ 0 \in Int
  BY ClosedCounts
<1> HIDE DEF gs
<1>2. Tally(Append(gs, f), 0, included)
  BY <1>1, PushCounts
<1> QED BY <1>2 DEF gs, Instead

LEMMA FrontCounts ==
    ASSUME IInv, Counts, result = "running", Top.kind \in {"chain", "copy"}
    PROVE  Tally(Front(frames), 0, included) /\ Front(frames) # <<>> /\ Last(Front(frames)).kind # "skip"
<1>1. frames # <<>> /\ Last(frames) = Top /\ Tally(frames, 0, included) /\ Top.kind # "file"
  BY AfterRead
<1>2. 0 = 0 + Weight(Last(frames)) /\ 0 \in Int
  BY <1>1 DEF Weight
<1>3. Front(frames) # <<>>
  <2>1. Nesting(frames, curr, started) /\ Last(frames).kind # "scope"
    BY <1>1 DEF IInv
  <2> QED BY <1>1, <2>1, PopKeeps
<1> QED BY <1>1, <1>2, <1>3, PopCounts

LEMMA EnterCounts ==
    ASSUME IInv, Counts, NEW fs, fs # <<>>, Tally(fs, 1, included), Last(fs).kind # "skip",
           NEW cond, NEW done \in BOOLEAN, NEW last \in BOOLEAN, NEW ran, ran = (IF done THEN 1 ELSE 0),
           Enter(fs, cond, done, last, ran)
    PROVE  Counts'
<1> DEFINE f == IF cond /\ ~done THEN Block(TRUE, last, ran + 1) ELSE Skipped(done \/ cond, last, ran)
<1>1. Go(Append(fs, f))
  BY DEF Enter
<1>2. /\ f.kind \in {"block", "skip"} /\ (f.kind = "skip" => f.depth = 1) /\ f \in Frame
  BY DEF Block, Skipped, Frame, BlockFrame, SkipFrame
<1> HIDE DEF f
<1>3. 1 = 0 + Weight(f) /\ f.kind # "file" /\ (f.kind = "skip" => f.depth \in Nat \ {0}) /\ 0 \in Int /\ 1 \in Int
  BY <1>2 DEF Weight
<1>4. Tally(Append(fs, f), 0, included)
  BY <1>2, <1>3, PushCounts
<1> QED BY <1>1, <1>4, GoCounts

LEMMA OpeningCounts ==
    ASSUME IInv, Counts,
           \/ \E name : OpenScope(name)
           \/ \E name, op, e : Assign(name, op, e)
           \/ \E name : RemoveStmt(name)
           \/ ErrorStmt
    PROVE  Counts'
<1>1. AtStatement /\ result = "running"
  BY AtStatementFacts DEF OpenScope, Assign, RemoveStmt, ErrorStmt
<1>2. Throw \/ Go(Read(0)) \/ Go(Append(Read(1), Opened(curr))) \/ \E value : Stops(value)
  <2>1. ASSUME NEW name, NEW op, NEW e, Assign(name, op, e)
        PROVE  Throw \/ Go(Read(0)) \/ \E value : Stops(value)
    BY <2>1 DEF Assign
  <2> QED BY <2>1 DEF OpenScope, RemoveStmt, ErrorStmt
<1>3. CASE Throw
  BY <1>1, <1>3, ThrowCounts
<1>4. CASE Go(Read(0))
  <2>1. Tally(Read(0), 0, included)
    BY <1>1, AtStatementCounts
  <2> QED BY <1>4, <2>1, GoCounts
<1>5. CASE Go(Append(Read(1), Opened(curr)))
  <2>1. Opened(curr) \in Frame /\ Opened(curr).kind = "scope" /\ Weight(Opened(curr)) = 1 /\ 1 \in Int
    BY DEF IInv, ConfigOK, Opened, Frame, ScopeFrame, Weight
  <2>2. Tally(Append(Read(1), Opened(curr)), 0, included)
    BY <1>1, <2>1, AtStatementCounts
  <2> QED BY <1>5, <2>2, GoCounts
<1> QED BY <1>1, <1>2, <1>3, <1>4, <1>5, StopsCounts

LEMMA CloseBraceCounts ==
    ASSUME IInv, Counts, CloseBrace
    PROVE  Counts'
<1>1. AtStatement /\ result = "running" /\ -1 \in Int
  BY AtStatementFacts DEF CloseBrace
<1>2. CASE Top.kind = "file"
  BY <1>1, <1>2, ThrowCounts DEF CloseBrace
<1>3. CASE Top.kind \in {"scope", "block"}
  <2> DEFINE f == Chain(Top.done, Top.ran)
  <2>1. Go(Front(Read(-1))) \/ (Top.kind = "block" /\ Go(Instead(Read(-1), f)))
    BY <1>3 DEF CloseBrace
  <2>2. Weight(Top) = 1
    BY <1>3 DEF Weight
  <2>3. CASE Go(Front(Read(-1)))
    <3>1. Tally(Front(Read(-1)), 0, included)
      BY <1>1, <1>3, <2>2, ClosedCounts
    <3> QED BY <2>3, <3>1, GoCounts
  <2>4. CASE Top.kind = "block" /\ Go(Instead(Read(-1), f))
    <3>1. Top \in BlockFrame
      BY <1>1, <2>4, AfterRead, Kinds
    <3>2. f \in Frame /\ f.kind = "chain" /\ Weight(f) = 0
      BY <3>1 DEF BlockFrame, Chain, Frame, ChainFrame, Weight
    <3> HIDE DEF f
    <3>3. Tally(Instead(Read(-1), f), 0, included)
      BY <1>1, <1>3, <2>2, <3>2, InsteadCounts
    <3> QED BY <2>4, <3>3, GoCounts
  <2> QED BY <2>1, <2>3, <2>4
<1> QED BY <1>1, <1>2, <1>3, AtStatementFacts

LEMMA EndOfFileCounts ==
    ASSUME IInv, Counts, EndOfFile
    PROVE  Counts'
<1>1. result = "running"
  BY DEF EndOfFile
<1>2. CASE Top.kind # "file"
  BY <1>1, <1>2, ThrowCounts DEF EndOfFile
<1>3. CASE Top.kind = "file"
  <2>1. frames' = Front(frames) /\ included' = Front(included)
    BY <1>3 DEF EndOfFile
  <2>2. frames # <<>> /\ Last(frames) = Top /\ Tally(frames, 0, included) /\ included \in Seq(Readable)
    BY <1>1, AfterRead DEF IInv
  <2>3. Tally(Front(frames), 0, Front(included))
    BY <1>3, <2>2, PopFileCounts
  <2> QED BY <2>1, <2>3 DEF Counts
<1> QED BY <1>2, <1>3

LEMMA IncludeCounts ==
    ASSUME IInv, Counts, NEW source, NEW ifExists, Include(source, ifExists)
    PROVE  Counts'
<1> DEFINE file == FileOf(source)
           f == File(file, MaxIncluded)
<1>1. AtStatement /\ result = "running" /\ 0 \in Int /\ Top.kind \in {"file", "scope", "block"}
  BY AtStatementFacts DEF Include
<1>2. \/ Throw \/ Go(Read(0))
      \/ file \in Readable /\ frames' = Append(Read(0), f) /\ included' = Append(included, file)
  BY DEF Include, Opens
<1>3. CASE Throw
  BY <1>1, <1>3, ThrowCounts
<1>4. CASE Go(Read(0))
  <2>1. Tally(Read(0), 0, included)
    BY <1>1, AtStatementCounts
  <2> QED BY <1>4, <2>1, GoCounts
<1>5. CASE file \in Readable /\ frames' = Append(Read(0), f) /\ included' = Append(included, file)
  <2> DEFINE fs == Read(0)
  <2>1. fs # <<>> /\ Tally(fs, 0, included) /\ Last(fs).kind # "skip"
    BY <1>1, AfterRead
  <2>2. f \in FileFrame /\ f.braces = 0 /\ f.name = file /\ included \in Seq(Readable)
    BY <1>5, ParserAssumption DEF File, FileFrame, IInv
  <2> HIDE DEF fs, f
  <2>3. Tally(Append(fs, f), 0, Append(included, f.name))
    BY <2>1, <2>2, PushFileCounts
  <2> QED BY <1>5, <2>2, <2>3 DEF Counts, fs
<1> QED BY <1>2, <1>3, <1>4, <1>5

LEMMA IfCounts ==
    ASSUME IInv, Counts, NEW c, If(c)
    PROVE  Counts'
<1>1. AtStatement /\ result = "running" /\ 1 \in Int /\ Top.kind \in {"file", "scope", "block"}
  BY AtStatementFacts DEF If
<1>2. CASE ~HoldsAt(here, c).ok
  BY <1>1, <1>2, StopsCounts DEF If
<1>3. CASE HoldsAt(here, c).ok
  <2> DEFINE fs == Read(1)
             cond == HoldsAt(here, c).val
  <2>1. Enter(fs, cond, FALSE, FALSE, 0)
    BY <1>3 DEF If
  <2>2. fs # <<>> /\ Tally(fs, 1, included) /\ Last(fs).kind # "skip"
    BY <1>1, AfterRead
  <2> HIDE DEF fs, cond
  <2> QED BY <2>1, <2>2, EnterCounts
<1> QED BY <1>2, <1>3

LEMMA ElseCounts ==
    ASSUME IInv, Counts, \/ \E c : ElseIf(c)
                         \/ Else
    PROVE  Counts'
<1>1. result = "running" /\ 1 \in Int /\ Top.kind = "chain"
  <2>1. ASSUME NEW c, ElseIf(c) PROVE CanRead /\ Top.kind = "chain"
    BY <2>1 DEF ElseIf
  <2>2. CanRead /\ Top.kind = "chain"
    BY <2>1 DEF Else
  <2> QED BY <2>2 DEF CanRead
<1>2. CASE \E value : Stops(value)
  BY <1>1, <1>2, StopsCounts
<1>3. CASE ~\E value : Stops(value)
  <2> DEFINE fs == Front(Read(1))
  <2>1. PICK cond : \E last \in BOOLEAN : Enter(fs, cond, Top.done, last, Top.ran)
    <3>1. CASE Else
      BY <3>1 DEF Else
    <3>2. ASSUME NEW c, ElseIf(c)
          PROVE  \E cond : \E last \in BOOLEAN : Enter(fs, cond, Top.done, last, Top.ran)
      <4>1. Enter(fs, HoldsAt(here, c).val, Top.done, FALSE, Top.ran)
        BY <1>3, <3>2 DEF ElseIf
      <4> QED BY <4>1
    <3> QED BY <3>1, <3>2
  <2>2. 1 = 1 + Weight(Top)
    BY <1>1 DEF Weight
  <2>3. fs # <<>> /\ Tally(fs, 1, included) /\ Last(fs).kind # "skip"
    BY <1>1, <2>2, ClosedCounts
  <2>4. Top.done \in BOOLEAN /\ Top.ran = (IF Top.done THEN 1 ELSE 0)
    BY <1>1, ChainFacts
  <2> HIDE DEF fs
  <2> QED BY <2>1, <2>3, <2>4, EnterCounts
<1> QED BY <1>2, <1>3

LEMMA NoElseCounts ==
    ASSUME IInv, Counts, NoElse
    PROVE  Counts'
<1>1. result = "running" /\ Top.kind = "chain" /\ Go(Front(frames))
  BY DEF NoElse
<1> QED BY <1>1, FrontCounts, GoCounts

LEMMA SkipCounts ==
    ASSUME IInv, Counts, NEW b \in {-1, 0, 1}, Skip(b)
    PROVE  Counts'
<1>1. result = "running" /\ Top.kind = "skip" /\ b \in Int
  BY DEF Skip, CanRead
<1>2. Top \in SkipFrame /\ Top.depth \in Nat \ {0} /\ Weight(Top) = Top.depth
  <2>1. frames \in Seq(Frame) /\ frames # <<>> /\ SkipsOnTop(frames) /\ Last(frames) = Top /\ Top \in Frame
    BY <1>1, AfterRead DEF Tally
  <2>2. Top = frames[Len(frames)] /\ Len(frames) \in Nat \ {0}
    BY <2>1, FrontLast
  <2>3. Len(frames) \in 1..Len(frames)
    BY <2>2
  <2>4. Top.depth \in Nat \ {0}
    BY <1>1, <2>1, <2>2, <2>3 DEF SkipsOnTop
  <2> QED BY <1>1, <2>1, <2>4, Kinds DEF Weight
<1> DEFINE depth == Top.depth + b
           f == [Top EXCEPT !.depth = depth]
           h == Chain(Top.done, Top.ran)
<1>3. CASE depth > 0
  <2>1. Go(Instead(Read(b), f))
    BY <1>3 DEF Skip
  <2>2. f \in SkipFrame /\ f.kind = "skip" /\ f.depth = depth /\ depth \in Nat \ {0}
    BY <1>1, <1>2, <1>3 DEF SkipFrame
  <2>3. f \in Frame /\ Weight(f) = depth
    BY <2>2 DEF Frame, Weight
  <2>4. b + Weight(Top) = depth
    BY <1>1, <1>2
  <2> HIDE DEF f, depth
  <2>5. Tally(Instead(Read(b), f), 0, included)
    BY <1>1, <2>2, <2>3, <2>4, InsteadCounts
  <2> QED BY <2>1, <2>5, GoCounts
<1>4. CASE ~(depth > 0)
  <2>1. Go(Front(Read(b))) \/ Go(Instead(Read(b), h))
    BY <1>4 DEF Skip
  <2>2. h \in Frame /\ h.kind = "chain" /\ Weight(h) = 0
    BY <1>2 DEF SkipFrame, Chain, Frame, ChainFrame, Weight
  <2>3. b + Weight(Top) = 0
    BY <1>1, <1>2, <1>4
  <2> HIDE DEF h, depth
  <2>4. Tally(Front(Read(b)), 0, included)
    BY <1>1, <2>3, ClosedCounts
  <2>5. Tally(Instead(Read(b), h), 0, included)
    BY <1>1, <2>2, <2>3, InsteadCounts
  <2> QED BY <2>1, <2>4, <2>5, GoCounts
<1> QED BY <1>3, <1>4

LEMMA CopyFromCounts ==
    ASSUME IInv, Counts, NEW e, NEW ifExists, CopyFrom(e, ifExists)
    PROVE  Counts'
<1> DEFINE from == StringAt(here, e)
           f == Copy(from.val, Listed(from.val))
<1>1. AtStatement /\ result = "running" /\ 0 \in Int
  BY AtStatementFacts DEF CopyFrom
<1>2. \/ Stops(from) \/ Throw \/ Go(Read(0))
      \/ RootLookup(items, from.val).type = "scope" /\ Go(Append(Read(0), f))
  BY DEF CopyFrom
<1>3. CASE Throw
  BY <1>1, <1>3, ThrowCounts
<1>4. CASE Go(Read(0))
  <2>1. Tally(Read(0), 0, included)
    BY <1>1, AtStatementCounts
  <2> QED BY <1>4, <2>1, GoCounts
<1>5. CASE RootLookup(items, from.val).type = "scope" /\ Go(Append(Read(0), f))
  <2>1. from.val \in Seq(Names) /\ Listed(from.val) \subseteq Seq(Names)
    BY <1>5, ListedIsThere DEF IInv, ConfigOK
  <2>2. f \in Frame /\ f.kind = "copy" /\ Weight(f) = 0
    BY <2>1 DEF Copy, Frame, CopyFrame, Weight
  <2> HIDE DEF f
  <2>3. Tally(Append(Read(0), f), 0, included)
    BY <1>1, <2>2, AtStatementCounts
  <2> QED BY <1>5, <2>3, GoCounts
<1> QED BY <1>1, <1>2, <1>3, <1>4, <1>5, StopsCounts

LEMMA CopyEntryCounts ==
    ASSUME IInv, Counts, CopyEntry
    PROVE  Counts'
<1>1. result = "running" /\ Top.kind = "copy" /\ 0 \in Int
  BY DEF CopyEntry
<1>2. Top \in CopyFrame
  BY <1>1, AfterRead, Kinds
<1>3. Tally(Front(frames), 0, included) /\ Front(frames) # <<>> /\ Last(Front(frames)).kind # "skip"
  BY <1>1, FrontCounts
<1>4. \/ Throw \/ Go(Front(frames))
      \/ \E q \in Top.rest : Go(Append(Front(frames), [Top EXCEPT !.rest = @ \ {q}]))
  BY DEF CopyEntry, Instead
<1>5. ASSUME NEW q \in Top.rest, Go(Append(Front(frames), [Top EXCEPT !.rest = @ \ {q}]))
      PROVE  Counts'
  <2> DEFINE f == [Top EXCEPT !.rest = @ \ {q}]
             gs == Front(frames)
  <2>1. f \in CopyFrame /\ f.kind = "copy"
    BY <1>2 DEF CopyFrame
  <2>2. f \in Frame /\ 0 = 0 + Weight(f)
    BY <2>1 DEF Frame, Weight
  <2> HIDE DEF f, gs
  <2>3. Tally(Append(gs, f), 0, included)
    BY <1>1, <1>3, <2>1, <2>2, PushCounts DEF gs
  <2> QED BY <1>5, <2>3, GoCounts DEF f, gs
<1> QED BY <1>1, <1>3, <1>4, <1>5, ThrowCounts, GoCounts

LEMMA ParseCounts ==
    ASSUME IInv, Counts, NEW source, Parse(source)
    PROVE  Counts'
<1>1. CASE ~Opens(source, 0)
  BY <1>1 DEF Parse, Counts
<1>2. CASE Opens(source, 0)
  <2> DEFINE f == File(source, MaxTokens)
             fs == <<f>>
  <2>1. f \in Frame /\ f.kind = "file" /\ f.braces = 0 /\ f.name = source
    BY <1>2, ParserAssumption DEF Opens, File, Frame, FileFrame
  <2> HIDE DEF f
  <2>2. fs \in Seq(Frame) /\ Len(fs) = 1 /\ fs[1] = f
    BY <2>1
  <2> HIDE DEF fs
  <2>3. FilesIn(fs) = {1} /\ SkipsOnTop(fs)
    BY <2>1, <2>2 DEF FilesIn, SkipsOnTop
  <2>4. Owed(fs, 0)
    <3>1. Own(fs, 1) = {} /\ Deeper(fs, 1) = 0
      BY <2>1, <2>2 DEF Own, Deeper
    <3>2. Cardinality(Own(fs, 1)) = 0
      BY <3>1, FS_EmptySet
    <3> QED BY <2>1, <2>2, <2>3, <3>1, <3>2 DEF Owed
  <2>5. Named(fs, <<source>>)
    <3>1. {j \in {1} : j <= 1} = {1}
      OBVIOUS
    <3>2. Rank(fs, 1) = 1 /\ Cardinality(FilesIn(fs)) = 1
      BY <2>3, <3>1, FS_Singleton DEF Rank
    <3> QED BY <2>1, <2>2, <2>3, <3>2 DEF Named
  <2>6. Tally(fs, 0, <<source>>)
    BY <2>2, <2>3, <2>4, <2>5 DEF Tally
  <2> QED BY <1>2, <2>6 DEF Parse, Counts, f, fs
<1> QED BY <1>1, <1>2

LEMMA InitCounts == Init => Counts
<1>1. FilesIn(<<>>) = {} /\ <<>> \in Seq(Frame)
  BY DEF FilesIn
<1>2. Tally(<<>>, 0, <<>>)
  BY <1>1, FS_EmptySet DEF Tally, SkipsOnTop, Owed, Named
<1> QED BY <1>2 DEF Init, Counts

LEMMA StepCounts == IInv /\ Counts /\ [Next]_vars => Counts'
<1> SUFFICES ASSUME IInv, Counts, [Next]_vars PROVE Counts'
  OBVIOUS
<1>1. ASSUME NEW name, OpenScope(name) \/ RemoveStmt(name) \/ \E op, e : Assign(name, op, e)
      PROVE  Counts'
  BY <1>1, OpeningCounts
<1>2. ASSUME NEW source, NEW ifExists, Include(source, ifExists) PROVE Counts'
  BY <1>2, IncludeCounts
<1>3. ASSUME NEW c, If(c) \/ ElseIf(c) PROVE Counts'
  BY <1>3, IfCounts, ElseCounts
<1>4. ASSUME NEW e, NEW ifExists, CopyFrom(e, ifExists) PROVE Counts'
  BY <1>4, CopyFromCounts
<1>5. ASSUME Else \/ NoElse \/ CloseBrace \/ EndOfFile \/ ErrorStmt \/ CopyEntry PROVE Counts'
  BY <1>5, ElseCounts, NoElseCounts, CloseBraceCounts, EndOfFileCounts, OpeningCounts, CopyEntryCounts
<1>6. ASSUME SkipToEnd PROVE Counts'
  BY <1>6, ThrowCounts DEF SkipToEnd
<1>7. ASSUME NEW braces \in {-1, 0, 1}, Skip(braces) PROVE Counts'
  BY <1>7, SkipCounts
<1>8. CASE Statement
  BY <1>1, <1>2, <1>3, <1>4, <1>5, <1>6, <1>7, <1>8 DEF Statement
<1>9. ASSUME NEW source, Parse(source) PROVE Counts'
  BY <1>9, ParseCounts
<1>10. CASE UNCHANGED vars
  BY <1>10 DEF Counts, vars
<1> QED BY <1>8, <1>9, <1>10 DEF Next, Over

LEMMA CountsMatch == IInv /\ Counts => FileNamesMatch /\ BracesMatch
<1> SUFFICES ASSUME IInv, Counts PROVE FileNamesMatch /\ BracesMatch
  OBVIOUS
<1>1. frames \in Seq(Frame) /\ Owed(frames, 0) /\ Named(frames, included) /\ Len(frames) \in Nat
  BY DEF Counts, Tally
<1>2. Files = FilesIn(frames) /\ DOMAIN frames = 1..Len(frames)
  BY <1>1 DEF Files, FilesIn
<1>3. FileNamesMatch
  BY <1>1, <1>2 DEF FileNamesMatch, Named, Rank
<1>4. ASSUME NEW i \in Files
      PROVE  frames[i].braces = Cardinality(BlocksOf(i))
                                + IF i = Innermost /\ Top.kind = "skip" THEN Top.depth - 1 ELSE 0
  <2>1. i \in 1..Len(frames) /\ frames # <<>> /\ frames[1].kind = "file"
    <3>1. i \in 1..Len(frames)
      BY <1>2, <1>4 DEF FilesIn
    <3>2. frames # <<>>
      BY <3>1
    <3> QED BY <3>1, <3>2 DEF IInv, Nesting
  <2>2. Innermost \in 1..Len(frames) /\ frames[Innermost] \in FileFrame /\ \A j \in Files : j <= Innermost
    BY <1>1, <2>1, InnermostIsFile
  <2>3. Inside(frames, i) <=> i = Innermost
    <3>1. ASSUME i = Innermost, NEW k \in (i + 1)..Len(frames) PROVE frames[k].kind # "file"
      <4>1. k \in 1..Len(frames) /\ ~(k <= Innermost)
        BY <1>1, <2>1, <2>2, <3>1
      <4> QED BY <1>2, <2>2, <4>1 DEF FilesIn
    <3>2. ASSUME i # Innermost PROVE ~Inside(frames, i)
      <4>1. i <= Innermost /\ Innermost \in (i + 1)..Len(frames)
        BY <1>1, <1>4, <2>1, <2>2, <3>2
      <4> QED BY <2>2, <4>1 DEF Inside, FileFrame
    <3> QED BY <3>1, <3>2 DEF Inside
  <2>4. BlocksOf(i) = Own(frames, i)
    BY <1>1, <1>2, <2>1 DEF BlocksOf, Own, FilesIn
  <2>5. Top = frames[Len(frames)]
    BY <1>1, <2>1, FrontLast DEF Top
  <2>6. frames[i].braces = Cardinality(Own(frames, i)) + Deeper(frames, i) + IF Inside(frames, i) THEN 0 ELSE 0
    BY <1>1, <1>2, <1>4 DEF Owed
  <2>7. Deeper(frames, i) = IF i = Innermost /\ Top.kind = "skip" THEN Top.depth - 1 ELSE 0
    BY <2>3, <2>5 DEF Deeper
  <2>8. Cardinality(Own(frames, i)) \in Nat /\ Deeper(frames, i) \in Int
    <3>1. Top \in Frame
      BY <1>1, <2>1, FrontLast DEF Top
    <3>2. Deeper(frames, i) \in Int
      BY <2>5, <3>1, Kinds DEF Deeper, SkipFrame
    <3> QED BY <1>1, <2>1, <3>2, OwnFinite
  <2> QED BY <2>4, <2>6, <2>7, <2>8
<1> QED BY <1>3, <1>4 DEF BracesMatch

\* The stack of file names is that of the files being parsed, also when an error
\* leaves several at once, and the braces a file has opened and not closed are
\* those of its open blocks, parsed or skipped, at any depth.
THEOREM TypeCorrect == Spec => []TypeOK
<1>1. IInv /\ Counts => TypeOK
  BY CountsMatch DEF IInv, ConfigOK, Nesting, TypeOK
<1>2. Spec => []Counts
  BY Inductive, InitCounts, StepCounts, PTL DEF Spec
<1> QED BY <1>1, <1>2, Inductive, PTL
-----------------------------------------------------------------------------
(* what the statements do is what operations on a tree do *)

LEMMA CloseBraceImplements ==
    ASSUME IInv, CloseBrace
    PROVE  T!LeaveScope \/ UNCHANGED config
<1>1. result = "running" /\ curr \in Seq(Names) /\ Nesting(frames, curr, started) /\ frames # <<>>
  BY AtStatementFacts DEF CloseBrace, IInv
<1>2. CASE Top.kind = "scope" /\ curr' = Top.old /\ items' = items
  <2> DEFINE N == Len(frames)
  <2>1. N \in Nat \ {0} /\ Top = frames[N] /\ Top \in Frame
    <3>1. frames \in Seq(Frame)
      BY <1>1 DEF Nesting
    <3> QED BY <1>1, <3>1, FrontLast DEF Top
  <2>2. Top.old \in Seq(Names)
    BY <1>2, <2>1, Kinds DEF ScopeFrame
  <2>3. IsPrefix(Top.old, curr)
    BY <1>1, <1>2, <2>1 DEF Nesting, Chained, IsOpened
  <2>4. Len(Top.old) \in 0..Len(curr) /\ SubSeq(curr, 1, Len(Top.old)) = SubSeq(Top.old, 1, Len(Top.old))
    BY <1>1, <2>2, <2>3 DEF IsPrefix
  <2>5. Top.old = T!Upto(curr, Len(Top.old))
    BY <2>2, <2>4, SubSeqFull DEF T!Upto
  <2>6. \E n \in 0..Len(curr) : Top.old = T!Upto(curr, n)
    BY <2>4, <2>5
  <2> QED BY <1>2, <2>6 DEF T!LeaveScope
<1> QED BY <1>2 DEF CloseBrace

LEMMA CopyEntryImplements ==
    ASSUME IInv, CopyEntry, Seq(Names) \ {<<>>} \subseteq Paths
    PROVE  \/ \E rel \in Paths : T!EnsureScopeExists(rel) \/ \E item \in T!Variables : T!Insert(rel, item)
           \/ UNCHANGED config
<1>1. Top.kind = "copy" /\ result = "running" /\ curr' = curr /\ CopiedSoFar(items, curr, Top)
  BY DEF CopyEntry, IInv
<1>2. Top \in CopyFrame
  <2>1. 0 \in Int
    OBVIOUS
  <2> QED BY <1>1, <2>1, ReadKeeps, Kinds
<1>3. CASE items' = items
  BY <1>1, <1>3 DEF config
<1>4. CASE \E q \in Top.rest :
             items' = IF IsVar(RootLookup(items, q))
                      THEN T!Written(items, curr, NewName(Top.from, q), RootLookup(items, q))
                      ELSE T!WithScopes(items, curr, NewName(Top.from, q))
  <2>1. PICK q \in Top.rest :
          items' = IF IsVar(RootLookup(items, q))
                   THEN T!Written(items, curr, NewName(Top.from, q), RootLookup(items, q))
                   ELSE T!WithScopes(items, curr, NewName(Top.from, q))
    BY <1>4
  <2>2. Top.from \in Seq(Names) /\ q \in Seq(Names) /\ IsStrictPrefix(Top.from, q) /\ RootLookup(items, q) # NoItem
    BY <1>1, <1>2 DEF CopyFrame, CopiedSoFar
  <2>3. NewName(Top.from, q) \in Paths
    BY <2>2, NewNameIs
  <2>4. IsVar(RootLookup(items, q)) => RootLookup(items, q) \in T!Variables
    <3>1. RootLookup(items, q) \in T!Variables \cup {T!Scope}
      BY <2>2, ParserAssumption DEF RootLookup, InFallback, LegalItems, IInv, ConfigOK
    <3> QED BY <3>1, VariablesAre
  <2> QED BY <1>1, <2>1, <2>3, <2>4 DEF T!Insert, T!EnsureScopeExists
<1> QED BY <1>3, <1>4 DEF CopyEntry

LEMMA StatementImplements ==
    ASSUME IInv, Statement, Seq(Names) \ {<<>>} \subseteq Paths
    PROVE  T!Next \/ UNCHANGED config
<1>1. \A name \in Idents : name \in Paths
  BY ParserAssumption
<1>2. ASSUME NEW name \in Idents, NEW op, NEW e, Assign(name, op, e) PROVE T!Next \/ UNCHANGED config
  <2>1. \/ UNCHANGED config
        \/ \E item \in T!Variables : items' = T!Written(items, curr, name, item) /\ curr' = curr
    BY <1>2 DEF Assign
  <2> QED BY <1>1, <2>1 DEF T!Next, T!Insert
<1>3. ASSUME NEW name \in Idents, OpenScope(name) PROVE T!Next
  <2>1. T!OpenScope(name)
    BY <1>3 DEF OpenScope, T!OpenScope
  <2> QED BY <1>1, <2>1 DEF T!Next
<1>4. ASSUME NEW name \in Idents, RemoveStmt(name) PROVE T!Next \/ UNCHANGED config
  <2>1. T!Remove(name) \/ UNCHANGED config
    BY <1>4 DEF RemoveStmt, T!Remove, config
  <2> QED BY <1>1, <2>1 DEF T!Next
<1>5. ASSUME CloseBrace PROVE T!Next \/ UNCHANGED config
  BY <1>5, CloseBraceImplements DEF T!Next
<1>6. ASSUME CopyEntry PROVE T!Next \/ UNCHANGED config
  BY <1>6, CopyEntryImplements DEF T!Next
<1>7. ASSUME NEW source, NEW ifExists, Include(source, ifExists) PROVE UNCHANGED config
  BY <1>7 DEF Include
<1>8. ASSUME NEW c, If(c) \/ ElseIf(c) PROVE UNCHANGED config
  BY <1>8 DEF If, ElseIf
<1>9. ASSUME NEW e, NEW ifExists, CopyFrom(e, ifExists) PROVE UNCHANGED config
  BY <1>9 DEF CopyFrom
<1>10. ASSUME Else \/ NoElse \/ EndOfFile \/ ErrorStmt \/ SkipToEnd PROVE UNCHANGED config
  BY <1>10 DEF Else, NoElse, EndOfFile, ErrorStmt, SkipToEnd
<1>11. ASSUME NEW braces, Skip(braces) PROVE UNCHANGED config
  BY <1>11 DEF Skip
<1> QED BY <1>2, <1>3, <1>4, <1>5, <1>6, <1>7, <1>8, <1>9, <1>10, <1>11 DEF Statement

\* Every statement, also one that fails half way, changes the configuration as an
\* operation on its tree does: a closed scope returns to one it is in, a copied
\* entry is an insertion or a scope that is made, and nothing else is touched.
THEOREM ImplementsTreeHolds ==
    ASSUME Seq(Names) \ {<<>>} \subseteq Paths
    PROVE  Spec => ImplementsTree
<1>1. IInv /\ [Next]_vars => [T!Next]_config
  <2> SUFFICES ASSUME IInv, [Next]_vars PROVE T!Next \/ UNCHANGED config
    BY DEF config
  <2>1. CASE Statement
    BY <2>1, StatementImplements
  <2>2. ASSUME NEW source, Parse(source) PROVE UNCHANGED config
    BY <2>2 DEF Parse
  <2>3. CASE UNCHANGED vars
    BY <2>3 DEF vars, config
  <2> QED BY <2>1, <2>2, <2>3 DEF Next, Over
<1> QED BY <1>1, Inductive, PTL DEF Spec, ImplementsTree
=============================================================================
