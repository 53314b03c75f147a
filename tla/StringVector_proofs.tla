------------------------- MODULE StringVector_proofs -------------------------
(* StringVector for any number of vectors, buffers and addresses: no operation *)
(* writes outside an array or a buffer, every string on the heap has exactly   *)
(* one owner, and the vectors and buffers are lists and texts of their own.    *)
(* The first invariant only speaks of the sizes of the vectors.  The second    *)
(* tells which cells of which vector own a block, those below its size: each   *)
(* operation on one vector is then a change of the set of blocks that vector   *)
(* holds, and the heap changes by the same set.  The third says what the cells *)
(* and blocks are: a buffer's block is not changed by what others do because   *)
(* nobody else owns it, and the capacity a buffer remembers is never more than *)
(* its block has.  The refinement of TextLists rests on all three.             *)
EXTENDS StringVector, FiniteSetTheorems, SequenceTheorems, TLAPS

-----------------------------------------------------------------------------
(* sizes *)

\* A vector whose strings fit in its array and that never wrote outside it.
Sound(v) ==
  /\ v \in [cells : {v.cells}, size : Nat, max : Nat \ {0}, spill : {0}]
  /\ v.size <= v.max

Inv == /\ vec = [v \in Vectors |-> vec[v]]
       /\ \A v \in Vectors : Sound(vec[v])

\* A vector given by its fields is sound when its sizes are.
LEMMA FieldsSound ==
  ASSUME NEW c, NEW n \in Nat, NEW m \in Nat \ {0}, n <= m
  PROVE  Sound([cells |-> c, size |-> n, max |-> m, spill |-> 0])
  BY DEF Sound

\* A new, empty vector is sound.
LEMMA EmptySound == ASSUME NEW n \in Nat \ {0} PROVE Sound(Empty(n)) /\ Empty(n).size = 0 /\ Empty(n).max = n
  BY DEF Sound, Empty

\* Growing keeps a vector sound and its length, and gives the room asked for.
LEMMA EnsureCapacitySound ==
  ASSUME NEW v, Sound(v), NEW n \in Nat
  PROVE  /\ Sound(EnsureCapacity(v, n))
         /\ EnsureCapacity(v, n).size = v.size
         /\ EnsureCapacity(v, n).max >= v.max
         /\ EnsureCapacity(v, n).max >= n
<1>1. CASE n <= v.max
  BY <1>1 DEF Sound, EnsureCapacity
<1>2. CASE ~(n <= v.max)
  <2> DEFINE c == [i \in 0..n |-> IF i < v.size THEN v.cells[i] ELSE IF i = v.size + 1 THEN Null ELSE Junk]
  <2>1. n \in Nat \ {0} /\ v.size <= n /\ ~(v.size + 1 > n) /\ v.spill = 0
    BY <1>2 DEF Sound
  <2>2. EnsureCapacity(v, n) = [cells |-> c, size |-> v.size, max |-> n, spill |-> 0]
    BY <1>2, <2>1 DEF EnsureCapacity
  <2> HIDE DEF c
  <2> QED BY <1>2, <2>1, <2>2, FieldsSound DEF Sound
<1> QED BY <1>1, <1>2

\* Writing a cell of the array changes no size.
LEMMA PutSound ==
  ASSUME NEW v, Sound(v), NEW i \in Nat, i <= v.max, NEW x
  PROVE  /\ Sound(Put(v, i, x))
         /\ Put(v, i, x).size = v.size
         /\ Put(v, i, x).max = v.max
<1> DEFINE c == [v.cells EXCEPT ![i] = x]
<1>1. v.spill = 0 /\ ~(i > v.max)
  BY DEF Sound
<1>2. Put(v, i, x) = [cells |-> c, size |-> v.size, max |-> v.max, spill |-> 0]
  <2>1. Put(v, i, x) = [v EXCEPT !.cells = c, !.spill = 0]
    BY <1>1 DEF Put
  <2> HIDE DEF c
  <2> QED BY <2>1 DEF Sound
<1> HIDE DEF c
<1> QED BY <1>2, FieldsSound DEF Sound

\* Storing strings in cells of the array changes no size.
LEMMA StoreSound ==
  ASSUME NEW v, Sound(v), NEW from \in Nat, NEW n \in Nat, from + n <= v.max, NEW f
  PROVE  /\ Sound(Store(v, from, n, f))
         /\ Store(v, from, n, f).size = v.size
         /\ Store(v, from, n, f).max = v.max
<1> DEFINE c == [i \in DOMAIN v.cells |-> IF i \in from..(from + n - 1) THEN f[i - from + 1] ELSE v.cells[i]]
<1>1. v.spill = 0 /\ ~(from + n > v.max + 1)
  BY DEF Sound
<1>2. Store(v, from, n, f) = [cells |-> c, size |-> v.size, max |-> v.max, spill |-> 0]
  <2>1. Store(v, from, n, f) = [v EXCEPT !.cells = c, !.spill = 0]
    BY <1>1 DEF Store
  <2> HIDE DEF c
  <2> QED BY <2>1 DEF Sound
<1> HIDE DEF c
<1> QED BY <1>2, FieldsSound DEF Sound

\* A length within the array keeps a vector sound.
LEMMA ResizeSound ==
  ASSUME NEW v, Sound(v), NEW n \in Nat, n <= v.max
  PROVE  Sound([v EXCEPT !.size = n]) /\ [v EXCEPT !.size = n].max = v.max
<1>1. [v EXCEPT !.size = n] = [cells |-> v.cells, size |-> n, max |-> v.max, spill |-> 0]
  BY DEF Sound
<1> QED BY <1>1, FieldsSound DEF Sound

\* One more string: the array is doubled when it is full, so that the string
\* and the terminator after it fit.
LEMMA PushSound ==
  ASSUME NEW v, Sound(v), NEW id
  PROVE  Sound(Push(v, id))
<1> DEFINE w == IF v.size = v.max THEN EnsureCapacity(v, v.max * 2) ELSE v
           p == Put(w, w.size, id)
           q == Put(p, w.size + 1, Null)
<1>1. Sound(w) /\ w.size \in Nat /\ w.size < w.max
  <2>1. CASE v.size = v.max
    BY <2>1, EnsureCapacitySound DEF Sound
  <2>2. CASE v.size # v.max
    BY <2>2 DEF Sound
  <2> QED BY <2>1, <2>2
<1> HIDE DEF w
<1>2. Sound(p) /\ p.size = w.size /\ p.max = w.max
  BY <1>1, PutSound DEF Sound
<1> HIDE DEF p
<1>3. Sound(q) /\ q.size = w.size /\ q.max = w.max
  BY <1>1, <1>2, PutSound DEF Sound
<1>4. Push(v, id) = [q EXCEPT !.size = q.size + 1]
  BY DEF Push, w, p, q
<1> HIDE DEF q
<1>5. Sound([q EXCEPT !.size = q.size + 1])
  BY <1>1, <1>3, ResizeSound DEF Sound
<1> QED BY <1>4, <1>5

\* Making room for n strings leaves a cell for the terminator.
LEMMA MakeRoomSound ==
  ASSUME NEW v, Sound(v), NEW n \in Nat
  PROVE  /\ Sound(MakeRoom(v, n))
         /\ MakeRoom(v, n).size = v.size
         /\ v.size + n + 1 <= MakeRoom(v, n).max
<1>0. v.size \in Nat /\ v.max \in Nat \ {0} /\ (v.size + n) * 2 \in Nat
  BY DEF Sound
<1>1. CASE v.size + n >= v.max
  <2> DEFINE w == EnsureCapacity(v, (v.size + n) * 2)
  <2>1. Sound(w) /\ w.size = v.size /\ w.max >= (v.size + n) * 2
    BY <1>0, EnsureCapacitySound
  <2>2. MakeRoom(v, n) = w
    BY <1>1 DEF MakeRoom
  <2>3. w.max \in Nat
    BY <2>1 DEF Sound
  <2> HIDE DEF w
  <2> QED BY <1>0, <1>1, <2>1, <2>2, <2>3
<1>2. CASE ~(v.size + n >= v.max)
  BY <1>0, <1>2 DEF MakeRoom
<1> QED BY <1>1, <1>2

\* Storing strings and then the terminator, as the two operations that add a
\* vector and the copy constructor do.
LEMMA FillSound ==
  ASSUME NEW v, Sound(v), NEW from \in Nat, NEW n \in Nat, NEW f,
         NEW t \in Nat, from + n <= v.max, t <= v.max
  PROVE  Sound(Put([Store(v, from, n, f) EXCEPT !.size = from + n], t, Null))
<1> DEFINE w == [Store(v, from, n, f) EXCEPT !.size = from + n]
<1>1. Sound(w) /\ w.max = v.max
  <2> DEFINE s == Store(v, from, n, f)
  <2>1. Sound(s) /\ s.max = v.max
    BY StoreSound
  <2>2. from + n \in Nat
    OBVIOUS
  <2> HIDE DEF s
  <2>3. Sound([s EXCEPT !.size = from + n]) /\ [s EXCEPT !.size = from + n].max = s.max
    BY <2>1, <2>2, ResizeSound
  <2> QED BY <2>1, <2>3 DEF s
<1> HIDE DEF w
<1>2. Sound(Put(w, t, Null))
  BY <1>1, PutSound
<1> QED BY <1>2 DEF w

\* Changing one vector into a sound one keeps the invariant.
LEMMA OneVector ==
  ASSUME Inv, NEW v \in Vectors, NEW w, Sound(w), vec' = [vec EXCEPT ![v] = w]
  PROVE  Inv'
  BY DEF Inv

\* The initial state: every vector is empty, with a capacity of at least one.
LEMMA InitInv == Init => Inv
<1> SUFFICES ASSUME Init PROVE Inv
  OBVIOUS
<1>1. \A n \in Capacities : Sound(Empty(IF n = 0 THEN DefaultCapacity ELSE n))
  BY EmptySound, SizesAssumption
<1> QED BY <1>1 DEF Init, Inv

\* Every operation keeps the invariant.
LEMMA StepInv == Inv /\ [Next]_vars => Inv'
<1> SUFFICES ASSUME Inv, [Next]_vars PROVE Inv'
  OBVIOUS
<1>0. \A v \in Vectors : Sound(vec[v])
  BY DEF Inv
<1>1. ASSUME NEW v \in Vectors, NEW n \in Capacities, Construct(v, n) PROVE Inv'
  <2>1. Sound(Empty(IF n = 0 THEN DefaultCapacity ELSE n))
    BY EmptySound, SizesAssumption
  <2> QED BY <1>1, <2>1, OneVector DEF Construct
<1>2. ASSUME NEW v \in Vectors, NEW n \in Capacities, Reserve(v, n) PROVE Inv'
  <2>1. Sound(EnsureCapacity(vec[v], n))
    BY <1>0, EnsureCapacitySound, SizesAssumption
  <2> QED BY <1>2, <2>1, OneVector DEF Reserve
<1>3. ASSUME NEW v \in Vectors, NEW o \in Vectors, CopyConstruct(v, o) PROVE Inv'
  <2>1. PICK f : vec' = [vec EXCEPT ![v] =
           Put([Store(Empty(vec[o].max), 0, vec[o].size, f) EXCEPT !.size = vec[o].size], vec[o].size, Null)]
    BY <1>3 DEF CopyConstruct
  <2>2. vec[o].size \in Nat /\ vec[o].max \in Nat \ {0} /\ vec[o].size <= vec[o].max
    BY <1>0 DEF Sound
  <2>3. Sound(Empty(vec[o].max)) /\ Empty(vec[o].max).max = vec[o].max
    BY <2>2, EmptySound
  <2>4. 0 + vec[o].size = vec[o].size
    BY <2>2
  <2>5. Sound(Put([Store(Empty(vec[o].max), 0, vec[o].size, f) EXCEPT !.size = 0 + vec[o].size], vec[o].size, Null))
    BY <2>2, <2>3, <2>4, FillSound
  <2> QED BY <2>1, <2>4, <2>5, OneVector
<1>4. ASSUME NEW v \in Vectors, NEW o \in Vectors, Assign(v, o) PROVE Inv'
  <2> DEFINE w == EnsureCapacity(vec[v], vec[o].size)
             z == Store(w, 0, w.size, [i \in 1..w.size |-> Null])
  <2>1. PICK f : vec' = [vec EXCEPT ![v] = [Store(z, 0, vec[o].size, f) EXCEPT !.size = vec[o].size]]
    BY <1>4 DEF Assign
  <2>2. vec[o].size \in Nat
    BY <1>0 DEF Sound
  <2>3. Sound(w) /\ w.max >= vec[o].size
    BY <1>0, <2>2, EnsureCapacitySound
  <2> HIDE DEF w
  <2>4. Sound(z) /\ z.max = w.max
    <3>1. w.size \in Nat /\ 0 + w.size <= w.max
      BY <2>3 DEF Sound
    <3> QED BY <2>3, <3>1, StoreSound
  <2> HIDE DEF z
  <2>5. Sound(Store(z, 0, vec[o].size, f)) /\ Store(z, 0, vec[o].size, f).max = z.max
    <3>1. 0 + vec[o].size <= z.max
      BY <2>2, <2>3, <2>4
    <3> QED BY <2>2, <2>4, <3>1, StoreSound
  <2>6. Sound([Store(z, 0, vec[o].size, f) EXCEPT !.size = vec[o].size])
    BY <2>2, <2>3, <2>4, <2>5, ResizeSound
  <2> QED BY <2>1, <2>6, OneVector
<1>5. ASSUME NEW v \in Vectors, NEW o \in Vectors, AddVector(v, o) PROVE Inv'
  <2> DEFINE n == vec[o].size
             w == MakeRoom(vec[v], n)
  <2>1. PICK f : vec' = [vec EXCEPT ![v] =
           IF n = 0 THEN w
           ELSE Put([Store(w, w.size, n, f) EXCEPT !.size = @ + n], w.size + n, Null)]
    BY <1>5 DEF AddVector
  <2>2. n \in Nat
    BY <1>0 DEF Sound
  <2>3. Sound(w) /\ w.size + n + 1 <= w.max /\ w.size \in Nat
    BY <1>0, <2>2, MakeRoomSound DEF Sound
  <2> HIDE DEF n, w
  <2>4. [Store(w, w.size, n, f) EXCEPT !.size = @ + n] = [Store(w, w.size, n, f) EXCEPT !.size = w.size + n]
    BY <2>2, <2>3, StoreSound DEF Sound
  <2>5. Sound(Put([Store(w, w.size, n, f) EXCEPT !.size = @ + n], w.size + n, Null))
    BY <2>2, <2>3, <2>4, FillSound DEF Sound
  <2> QED BY <2>1, <2>3, <2>5, OneVector
<1>6. ASSUME NEW v \in Vectors, NEW o \in Vectors, AddVectorWithOwnership(v, o) PROVE Inv'
  <2> DEFINE n == vec[o].size
             w == MakeRoom(vec[v], n)
             f == [i \in 1..n |-> vec[o].cells[i - 1]]
             a == Put([Store(w, w.size, n, f) EXCEPT !.size = @ + n], w.size + n + 1, Null)
             b == Put([Store(vec[o], 0, n, [i \in 1..n |-> Null]) EXCEPT !.size = 0], 0, Null)
  <2>1. vec' = [vec EXCEPT ![v] = a, ![o] = b] /\ v # o
    BY <1>6 DEF AddVectorWithOwnership, Inv
  <2>2. n \in Nat
    BY <1>0 DEF Sound
  <2>3. Sound(w) /\ w.size + n + 1 <= w.max /\ w.size \in Nat
    BY <1>0, <2>2, MakeRoomSound DEF Sound
  <2>4. Sound(b)
    <3>1. Sound(vec[o]) /\ 0 + n <= vec[o].max /\ 0 <= vec[o].max
      BY <1>0 DEF Sound
    <3> DEFINE g == [i \in 1..n |-> Null]
               s == Store(vec[o], 0, n, g)
    <3>2. Sound(s) /\ s.max = vec[o].max
      BY <2>2, <3>1, StoreSound
    <3> HIDE DEF s
    <3>3. Sound([s EXCEPT !.size = 0]) /\ [s EXCEPT !.size = 0].max = vec[o].max
      BY <3>1, <3>2, ResizeSound DEF Sound
    <3>4. Sound(Put([s EXCEPT !.size = 0], 0, Null))
      BY <3>1, <3>3, PutSound
    <3> QED BY <3>4 DEF s
  <2>5. Sound(a)
    <3> HIDE DEF f, n, w
    <3>1. [Store(w, w.size, n, f) EXCEPT !.size = @ + n] = [Store(w, w.size, n, f) EXCEPT !.size = w.size + n]
      BY <2>2, <2>3, StoreSound DEF Sound
    <3> QED BY <2>2, <2>3, <3>1, FillSound DEF Sound
  <2> HIDE DEF a, b
  <2> QED BY <2>1, <2>4, <2>5 DEF Inv
<1>7. ASSUME NEW v \in Vectors, NEW x, vec' = [vec EXCEPT ![v] = Push(@, x)] PROVE Inv'
  BY <1>0, <1>7, PushSound, OneVector DEF Inv
<1>8. ASSUME NEW v \in Vectors, NEW i \in 0..(MaxLength - 1), NEW text, Replace(v, i, text) PROVE Inv'
  <2>1. PICK id : vec' = [vec EXCEPT ![v] = Put(vec[v], i, id)] /\ i < vec[v].size
    BY <1>8 DEF Replace, Inv
  <2>2. i \in Nat /\ i <= vec[v].max
    BY <1>0, <2>1, SizesAssumption DEF Sound
  <2> QED BY <1>0, <2>1, <2>2, PutSound, OneVector
<1>9. ASSUME NEW v \in Vectors, Sort(v) PROVE Inv'
  <2>1. PICK f : vec' = [vec EXCEPT ![v] = Store(vec[v], 0, vec[v].size, f)]
    BY <1>9 DEF Sort, Inv
  <2>2. vec[v].size \in Nat /\ 0 + vec[v].size <= vec[v].max
    BY <1>0 DEF Sound
  <2> QED BY <1>0, <2>1, <2>2, StoreSound, OneVector
<1>10. ASSUME NEW v \in Vectors, RemoveAll(v) PROVE Inv'
  <2> DEFINE s == Store(vec[v], 0, vec[v].size, [i \in 1..vec[v].size |-> Junk])
  <2>1. vec' = [vec EXCEPT ![v] = [Put(s, 0, Null) EXCEPT !.size = 0]]
    BY <1>10 DEF RemoveAll, Inv
  <2>2. vec[v].size \in Nat /\ 0 + vec[v].size <= vec[v].max /\ 0 <= vec[v].max
    BY <1>0 DEF Sound
  <2>3. Sound(s) /\ s.max = vec[v].max
    BY <1>0, <2>2, StoreSound
  <2> HIDE DEF s
  <2>4. Sound([Put(s, 0, Null) EXCEPT !.size = 0])
    BY <2>2, <2>3, PutSound, ResizeSound DEF Sound
  <2> QED BY <2>1, <2>4, OneVector
<1>11. ASSUME NEW v \in Vectors, RemoveLast(v) PROVE Inv'
  <2> DEFINE p == Put(vec[v], vec[v].size - 1, Null)
  <2>0. vec[v].size > 0
    BY <1>11 DEF RemoveLast
  <2>1. vec' = [vec EXCEPT ![v] = [p EXCEPT !.size = vec[v].size - 1]]
    BY <1>11 DEF RemoveLast
  <2>2. vec[v].size - 1 \in Nat /\ vec[v].size - 1 <= vec[v].max
    BY <1>0, <2>0 DEF Sound
  <2>3. Sound(p) /\ p.size = vec[v].size /\ p.max = vec[v].max
    BY <1>0, <2>2, PutSound
  <2> HIDE DEF p
  <2>4. Sound([p EXCEPT !.size = vec[v].size - 1])
    BY <2>2, <2>3, ResizeSound
  <2> QED BY <2>1, <2>4, OneVector
<1>12. ASSUME UNCHANGED vec PROVE Inv'
  BY <1>12 DEF Inv
<1>13. ASSUME NEW v \in Vectors, VectorStep(v) PROVE Inv'
  <2>1. ASSUME NEW text \in Texts, Add(v, text) PROVE Inv'
    BY <1>7, <2>1 DEF Add
  <2> QED BY <1>1, <1>2, <1>3, <1>4, <1>5, <1>6, <1>8, <1>9, <1>10, <1>11, <1>13, <2>1 DEF VectorStep
<1>14. ASSUME NEW b \in Buffers, BufferStep(b) PROVE Inv'
  <2>1. ASSUME NEW v \in Vectors, AddBuffer(v, b) PROVE Inv'
    BY <1>7, <2>1 DEF AddBuffer
  <2> QED BY <1>12, <1>14, <2>1
      DEF BufferStep, AppendText, SetText, Write, TakeOwnership, Clear, DeleteLastChar, Rebuild
<1>15. ASSUME NEW v \in Vectors, AssignToItself(v) PROVE Inv'
  <2> DEFINE w == Store(vec[v], 0, vec[v].size, [i \in 1..vec[v].size |-> Null])
  <2>1. vec[v].size \in Nat /\ 0 \in Nat /\ 0 + vec[v].size <= vec[v].max
    BY <1>0 DEF Sound
  <2>2. Sound(w)
    BY <1>0, <2>1, StoreSound
  <2>3. vec' = [vec EXCEPT ![v] = w]
    BY <1>15 DEF AssignToItself
  <2> HIDE DEF w
  <2> QED BY <2>2, <2>3, OneVector
<1> QED BY <1>12, <1>13, <1>14, <1>15 DEF Next, Step, vars

\* No reachable operation sequence writes outside the array of a vector.
THEOREM SpecVectorsInBounds == Spec => []VectorsInBounds
<1>1. Inv => VectorsInBounds
  BY DEF Inv, Sound, VectorsInBounds
<1> QED BY <1>1, InitInv, StepInv, PTL DEF Spec
-----------------------------------------------------------------------------
(* owners *)

\* A sound vector whose array is a function on its cells.
Shaped(v) == Sound(v) /\ v.cells = [i \in 0..v.max |-> v.cells[i]]

\* No block is held twice by one vector.
Distinct(v) == \A i, j \in 0..(v.size - 1) : v.cells[i] = v.cells[j] => i = j

\* A buffer is a record of these fields and no other.
Formed(r) == r \in [at : {r.at}, text : {r.text}, max : {r.max}, spill : {r.spill}]

OwnInv ==
  /\ Inv
  /\ \A v \in Vectors : Shaped(vec[v]) /\ Distinct(vec[v]) /\ vec[v].size <= MaxLength
  /\ \A v, w \in Vectors : v # w => Elements(vec[v]) \cap Elements(vec[w]) = {}
  /\ buf = [b \in Buffers |-> buf[b]] /\ \A b \in Buffers : Formed(buf[b])
  /\ \A b, c \in Buffers : b # c => Owned(b) \cap Owned(c) = {}
  /\ \A v \in Vectors, b \in Buffers : Elements(vec[v]) \cap Owned(b) = {}
  /\ \A v \in Vectors : Elements(vec[v]) \subseteq Live
  /\ \A b \in Buffers : Owned(b) \subseteq Live
  /\ \A id \in Live : (\E v \in Vectors : id \in Elements(vec[v])) \/ (\E b \in Buffers : id \in Owned(b))
  /\ Live \subseteq Ids
  /\ failed = FALSE

(***************************************************************************)
(* The allocator                                                           *)
(***************************************************************************)
\* The n addresses it returns are different and were free.
LEMMA FreshIsFresh ==
  ASSUME NEW n \in Nat, MayAllocate(n)
  PROVE  /\ Fresh(n) \in [1..n -> Ids \ Live]
         /\ \A i, j \in 1..n : Fresh(n)[i] = Fresh(n)[j] => i = j
<1> DEFINE S == Ids \ Live
<1>1. IsFiniteSet(S) /\ n <= Cardinality(S)
  BY HeapAssumption, FS_Subset DEF MayAllocate
<1>2. Cardinality(S) \in Nat /\ ExistsBijection(1..Cardinality(S), S)
  BY <1>1, FS_CardinalityType
<1> HIDE DEF S
<1>3. PICK g \in Injection(1..Cardinality(S), S) : TRUE
  BY <1>2 DEF ExistsBijection, Bijection
<1> DEFINE f == [i \in 1..n |-> g[i]]
<1>4. f \in [1..n -> S] /\ \A i, j \in 1..n : f[i] = f[j] => i = j
  <2>1. 1..n \subseteq 1..Cardinality(S)
    BY <1>1, <1>2
  <2> QED BY <1>3, <2>1 DEF Injection, IsInjective
<1> HIDE DEF f
<1>5. \E h \in [1..n -> S] : \A i, j \in 1..n : h[i] = h[j] => i = j
  BY <1>4
<1> QED BY <1>5 DEF Fresh, S

\* The live blocks of a changed heap, and of what is allocated.
LEMMA DomainOfHeap ==
  ASSUME NEW dead, NEW born PROVE DOMAIN Heap(dead, born) = (Live \ dead) \cup DOMAIN born
  BY DEF Heap
LEMMA DomainOfNone == DOMAIN None = {}
  BY DEF None
LEMMA DomainOfAt == ASSUME NEW id, NEW block PROVE DOMAIN At(id, block) = {id}
  BY DEF At

(***************************************************************************)
(* What the cells hold after an operation on one vector                    *)
(***************************************************************************)
LEMMA EmptyShaped == ASSUME NEW n \in Nat \ {0} PROVE Shaped(Empty(n)) /\ Elements(Empty(n)) = {} /\ Distinct(Empty(n))
  BY EmptySound DEF Shaped, Elements, Distinct, Empty

LEMMA EnsureCapacityCells ==
  ASSUME NEW v, Shaped(v), NEW n \in Nat
  PROVE  /\ Shaped(EnsureCapacity(v, n))
         /\ EnsureCapacity(v, n).size = v.size /\ EnsureCapacity(v, n).max >= n
         /\ EnsureCapacity(v, n).max \in Nat
         /\ \A i \in 0..(v.size - 1) : EnsureCapacity(v, n).cells[i] = v.cells[i]
<1>0. /\ Sound(EnsureCapacity(v, n)) /\ v.size \in Nat /\ v.max \in Nat /\ v.size <= v.max
      /\ EnsureCapacity(v, n).size = v.size /\ EnsureCapacity(v, n).max >= n
      /\ EnsureCapacity(v, n).max \in Nat
  BY EnsureCapacitySound DEF Shaped, Sound
<1>1. CASE n <= v.max
  BY <1>0, <1>1 DEF EnsureCapacity
<1>2. CASE ~(n <= v.max)
  <2> DEFINE c == [i \in 0..n |-> IF i < v.size THEN v.cells[i] ELSE IF i = v.size + 1 THEN Null ELSE Junk]
             w == EnsureCapacity(v, n)
  <2>1. w.cells = c /\ w.max = n
    BY <1>2 DEF EnsureCapacity
  <2>2. c = [i \in 0..n |-> c[i]] /\ \A i \in 0..(v.size - 1) : c[i] = v.cells[i]
    BY <1>0, <1>2
  <2> HIDE DEF c, w
  <2>3. Sound(w)
    BY <1>0 DEF w
  <2>4. Shaped(w)
    BY <2>1, <2>2, <2>3 DEF Shaped
  <2> QED BY <1>0, <2>1, <2>2, <2>4 DEF w
<1> QED BY <1>1, <1>2

LEMMA PutCells ==
  ASSUME NEW v, Shaped(v), NEW i \in Nat, i <= v.max, NEW x
  PROVE  /\ Shaped(Put(v, i, x)) /\ Put(v, i, x).size = v.size /\ Put(v, i, x).max = v.max
         /\ \A j \in 0..v.max : Put(v, i, x).cells[j] = IF j = i THEN x ELSE v.cells[j]
<1> DEFINE w == Put(v, i, x)
           c == [v.cells EXCEPT ![i] = x]
<1>1. Sound(w) /\ w.max = v.max /\ w.size = v.size
  BY PutSound DEF Shaped
<1>2. w.cells = c
  BY DEF Put, Shaped, Sound
<1>3. c = [j \in 0..v.max |-> IF j = i THEN x ELSE v.cells[j]]
  BY DEF Shaped
<1> HIDE DEF w, c
<1>4. Shaped(w) /\ \A j \in 0..v.max : w.cells[j] = IF j = i THEN x ELSE v.cells[j]
  BY <1>1, <1>2, <1>3 DEF Shaped
<1> QED BY <1>1, <1>4 DEF w

LEMMA StoreCells ==
  ASSUME NEW v, Shaped(v), NEW from \in Nat, NEW n \in Nat, from + n <= v.max, NEW f
  PROVE  /\ Shaped(Store(v, from, n, f)) /\ Store(v, from, n, f).size = v.size
         /\ Store(v, from, n, f).max = v.max
         /\ \A j \in 0..v.max : Store(v, from, n, f).cells[j] =
              IF j \in from..(from + n - 1) THEN f[j - from + 1] ELSE v.cells[j]
<1> DEFINE w == Store(v, from, n, f)
           c == [i \in DOMAIN v.cells |-> IF i \in from..(from + n - 1) THEN f[i - from + 1] ELSE v.cells[i]]
<1>1. Sound(w) /\ w.max = v.max /\ w.size = v.size
  BY StoreSound DEF Shaped
<1>2. w.cells = c
  BY DEF Store, Shaped, Sound
<1>3. c = [j \in 0..v.max |-> IF j \in from..(from + n - 1) THEN f[j - from + 1] ELSE v.cells[j]]
  <2>1. DOMAIN v.cells = 0..v.max
    BY DEF Shaped
  <2> QED BY <2>1
<1> HIDE DEF w, c
<1>4. Shaped(w) /\ \A j \in 0..v.max : w.cells[j] =
              IF j \in from..(from + n - 1) THEN f[j - from + 1] ELSE v.cells[j]
  BY <1>1, <1>2, <1>3 DEF Shaped
<1> QED BY <1>1, <1>4 DEF w

LEMMA ResizeCells ==
  ASSUME NEW v, Shaped(v), NEW n \in Nat, n <= v.max
  PROVE  /\ Shaped([v EXCEPT !.size = n])
         /\ [v EXCEPT !.size = n].size = n /\ [v EXCEPT !.size = n].max = v.max
         /\ [v EXCEPT !.size = n].cells = v.cells
<1> DEFINE w == [v EXCEPT !.size = n]
<1>1. Sound(w) /\ w.max = v.max
  BY ResizeSound DEF Shaped
<1>2. w.cells = v.cells /\ w.size = n
  BY DEF Shaped, Sound
<1> HIDE DEF w
<1>3. Shaped(w)
  BY <1>1, <1>2 DEF Shaped
<1> QED BY <1>1, <1>2, <1>3 DEF w

\* A vector that kept its cells below `from' and got the strings of f after them
\* holds the old blocks and those of f.
LEMMA AppendedCells ==
  ASSUME NEW v, Shaped(v), Distinct(v), NEW n \in Nat, NEW w, Shaped(w), NEW f,
         w.size = v.size + n,
         \A i \in 0..(v.size - 1) : w.cells[i] = v.cells[i],
         \A i \in 1..n : w.cells[v.size + i - 1] = f[i],
         \A i, j \in 1..n : f[i] = f[j] => i = j,
         \A i \in 1..n : f[i] \notin Elements(v)
  PROVE  Distinct(w) /\ Elements(w) = Elements(v) \cup {f[i] : i \in 1..n}
<1>0. v.size \in Nat
  BY DEF Shaped, Sound
<1>1. \A i \in 0..(w.size - 1) : i \in 0..(v.size - 1) \/ (i - v.size + 1 \in 1..n /\ w.cells[i] = f[i - v.size + 1])
  <2> SUFFICES ASSUME NEW i \in 0..(w.size - 1), i \notin 0..(v.size - 1)
               PROVE  i - v.size + 1 \in 1..n /\ w.cells[i] = f[i - v.size + 1]
    OBVIOUS
  <2>1. i - v.size + 1 \in 1..n
    BY <1>0
  <2>2. v.size + (i - v.size + 1) - 1 = i
    BY <1>0
  <2> QED BY <2>1, <2>2
<1>2. \A i \in 1..n : v.size + i - 1 \in 0..(w.size - 1)
  BY <1>0
<1>3. \A i \in 0..(v.size - 1) : i \in 0..(w.size - 1) /\ w.cells[i] \in Elements(v)
  BY <1>0 DEF Elements
<1>4. Distinct(w)
  <2> SUFFICES ASSUME NEW i \in 0..(w.size - 1), NEW j \in 0..(w.size - 1), w.cells[i] = w.cells[j]
               PROVE  i = j
    BY DEF Distinct
  <2>1. CASE i \in 0..(v.size - 1) /\ j \in 0..(v.size - 1)
    BY <2>1 DEF Distinct
  <2>2. CASE i \notin 0..(v.size - 1) /\ j \notin 0..(v.size - 1)
    <3>1. i - v.size + 1 = j - v.size + 1
      BY <1>1, <2>2
    <3> QED BY <3>1, <1>0
  <2>3. CASE i \in 0..(v.size - 1) /\ j \notin 0..(v.size - 1)
    BY <1>1, <1>3, <2>3
  <2>4. CASE i \notin 0..(v.size - 1) /\ j \in 0..(v.size - 1)
    BY <1>1, <1>3, <2>4
  <2> QED BY <2>1, <2>2, <2>3, <2>4
<1>5. Elements(w) = Elements(v) \cup {f[i] : i \in 1..n}
  <2>1. ASSUME NEW x \in Elements(w) PROVE x \in Elements(v) \cup {f[i] : i \in 1..n}
    <3>1. PICK i \in 0..(w.size - 1) : x = w.cells[i]
      BY <2>1 DEF Elements
    <3> QED BY <1>1, <1>3, <3>1
  <2>2. ASSUME NEW x \in Elements(v) PROVE x \in Elements(w)
    <3>1. PICK i \in 0..(v.size - 1) : x = v.cells[i]
      BY <2>2 DEF Elements
    <3> QED BY <1>3, <3>1 DEF Elements
  <2>3. ASSUME NEW i \in 1..n PROVE f[i] \in Elements(w)
    BY <1>2 DEF Elements
  <2> QED BY <2>1, <2>2, <2>3
<1> QED BY <1>4, <1>5

\* A vector of the same length with the same cells holds the same blocks.
LEMMA SameCells ==
  ASSUME NEW v, Shaped(v), Distinct(v), NEW w, w.size = v.size,
         \A i \in 0..(v.size - 1) : w.cells[i] = v.cells[i]
  PROVE  Distinct(w) /\ Elements(w) = Elements(v)
  BY DEF Distinct, Elements

\* Storing strings, setting the size and writing the terminator at or after it.
LEMMA FillCells ==
  ASSUME NEW v, Shaped(v), NEW from \in Nat, NEW n \in Nat, NEW f,
         NEW t \in Nat, from + n <= t, t <= v.max
  PROVE  LET w == Put([Store(v, from, n, f) EXCEPT !.size = from + n], t, Null)
         IN  /\ Shaped(w) /\ w.size = from + n
             /\ \A i \in 0..(from - 1) : w.cells[i] = v.cells[i]
             /\ \A i \in 1..n : w.cells[from + i - 1] = f[i]
<1> DEFINE s == Store(v, from, n, f)
           r == [s EXCEPT !.size = from + n]
           w == Put(r, t, Null)
<1>0. v.max \in Nat /\ from + n \in Nat /\ from + n <= v.max
  BY DEF Shaped, Sound
<1>1. Shaped(s) /\ s.max = v.max /\ \A j \in 0..v.max : s.cells[j] =
              IF j \in from..(from + n - 1) THEN f[j - from + 1] ELSE v.cells[j]
  BY <1>0, StoreCells
<1> HIDE DEF s
<1>2. Shaped(r) /\ r.size = from + n /\ r.cells = s.cells /\ r.max = v.max
  BY <1>0, <1>1, ResizeCells
<1> HIDE DEF r
<1>3. /\ Shaped(w) /\ w.size = from + n
      /\ \A j \in 0..v.max : w.cells[j] = IF j = t THEN Null ELSE s.cells[j]
  BY <1>1, <1>2, PutCells
<1> HIDE DEF w
<1>4. ASSUME NEW i \in 0..(from - 1) PROVE w.cells[i] = v.cells[i]
  <2>1. i \in 0..v.max /\ i # t /\ i \notin from..(from + n - 1)
    BY <1>0
  <2> QED BY <1>1, <1>3, <2>1
<1>5. ASSUME NEW i \in 1..n PROVE w.cells[from + i - 1] = f[i]
  <2>1. from + i - 1 \in 0..v.max /\ from + i - 1 # t /\ from + i - 1 \in from..(from + n - 1)
    BY <1>0
  <2>2. (from + i - 1) - from + 1 = i
    OBVIOUS
  <2> QED BY <1>1, <1>3, <2>1, <2>2
<1> QED BY <1>3, <1>4, <1>5 DEF w, r, s

\* Pushing a block.
LEMMA PushCells ==
  ASSUME NEW v, Shaped(v), NEW id
  PROVE  /\ Shaped(Push(v, id)) /\ Push(v, id).size = v.size + 1
         /\ \A i \in 0..(v.size - 1) : Push(v, id).cells[i] = v.cells[i]
         /\ Push(v, id).cells[v.size] = id
<1> DEFINE w == IF v.size = v.max THEN EnsureCapacity(v, v.max * 2) ELSE v
           p == Put(w, w.size, id)
           q == Put(p, w.size + 1, Null)
           r == [q EXCEPT !.size = q.size + 1]
<1>0. v.size \in Nat /\ v.max \in Nat \ {0} /\ v.size <= v.max
  BY DEF Shaped, Sound
<1>1. /\ Shaped(w) /\ w.size = v.size /\ w.size < w.max /\ w.max \in Nat
      /\ \A i \in 0..(v.size - 1) : w.cells[i] = v.cells[i]
  <2>1. CASE v.size = v.max
    <3>1. v.max * 2 \in Nat /\ v.max * 2 > v.size
      BY <1>0
    <3>2. w = EnsureCapacity(v, v.max * 2)
      BY <2>1
    <3>3. /\ Shaped(w) /\ w.size = v.size /\ w.max >= v.max * 2 /\ w.max \in Nat
          /\ \A i \in 0..(v.size - 1) : w.cells[i] = v.cells[i]
      BY <3>1, <3>2, EnsureCapacityCells
    <3> HIDE DEF w
    <3> QED BY <1>0, <3>1, <3>3
  <2>2. CASE v.size # v.max
    BY <1>0, <2>2 DEF Sound
  <2> QED BY <2>1, <2>2
<1> HIDE DEF w
<1>2. /\ Shaped(p) /\ p.size = w.size /\ p.max = w.max
      /\ \A j \in 0..w.max : p.cells[j] = IF j = w.size THEN id ELSE w.cells[j]
  BY <1>0, <1>1, PutCells
<1> HIDE DEF p
<1>3. /\ Shaped(q) /\ q.size = w.size /\ q.max = w.max
      /\ \A j \in 0..w.max : q.cells[j] = IF j = w.size + 1 THEN Null ELSE p.cells[j]
  <2>1. p.max = w.max /\ w.size + 1 \in Nat /\ w.size + 1 <= p.max
    BY <1>0, <1>1, <1>2
  <2> QED BY <1>2, <2>1, PutCells
<1> HIDE DEF q
<1>4. Shaped(r) /\ r.size = w.size + 1 /\ r.cells = q.cells
  <2>1. q.size + 1 \in Nat /\ q.size + 1 <= q.max /\ q.size = w.size
    BY <1>0, <1>1, <1>3
  <2> QED BY <1>3, <2>1, ResizeCells
<1>5. Push(v, id) = r
  BY DEF Push, r, q, p, w
<1> HIDE DEF r
<1>6. ASSUME NEW i \in 0..(v.size - 1) PROVE r.cells[i] = v.cells[i]
  <2>1. i \in 0..w.max /\ i # w.size /\ i # w.size + 1
    BY <1>0, <1>1
  <2> QED BY <1>1, <1>2, <1>3, <1>4, <2>1
<1>7. r.cells[v.size] = id
  <2>1. v.size \in 0..w.max /\ v.size # w.size + 1
    BY <1>0, <1>1
  <2> QED BY <1>1, <1>2, <1>3, <1>4, <2>1
<1> QED BY <1>1, <1>4, <1>5, <1>6, <1>7

\* Making room moves the strings and loses none.
LEMMA MakeRoomCells ==
  ASSUME NEW v, Shaped(v), NEW n \in Nat
  PROVE  /\ Shaped(MakeRoom(v, n)) /\ MakeRoom(v, n).size = v.size
         /\ v.size + n + 1 <= MakeRoom(v, n).max
         /\ \A i \in 0..(v.size - 1) : MakeRoom(v, n).cells[i] = v.cells[i]
<1>0. v.size \in Nat /\ v.max \in Nat \ {0} /\ v.size <= v.max /\ (v.size + n) * 2 \in Nat
  BY DEF Shaped, Sound
<1>1. CASE v.size + n >= v.max
  <2>1. (v.size + n) * 2 >= v.size + n + 1
    BY <1>0, <1>1
  <2> DEFINE w == EnsureCapacity(v, (v.size + n) * 2)
  <2>2. MakeRoom(v, n) = w
    BY <1>1 DEF MakeRoom
  <2>3. /\ Shaped(w) /\ w.size = v.size /\ w.max >= (v.size + n) * 2 /\ w.max \in Nat
        /\ \A i \in 0..(v.size - 1) : w.cells[i] = v.cells[i]
    BY <1>0, EnsureCapacityCells
  <2> HIDE DEF w
  <2>4. v.size + n + 1 <= w.max
    BY <1>0, <2>1, <2>3
  <2> QED BY <2>2, <2>3, <2>4
<1>2. CASE ~(v.size + n >= v.max)
  BY <1>0, <1>2 DEF MakeRoom
<1> QED BY <1>1, <1>2

(***************************************************************************)
(* What a step does to the ownership                                       *)
(***************************************************************************)
\* What the buffers own after a step, and what the vectors hold, partition the
\* blocks that are then live.
Partition(elements, owned, live) ==
  /\ \A v, w \in Vectors : v # w => elements[v] \cap elements[w] = {}
  /\ \A b, c \in Buffers : b # c => owned[b] \cap owned[c] = {}
  /\ \A v \in Vectors, b \in Buffers : elements[v] \cap owned[b] = {}
  /\ \A v \in Vectors : elements[v] \subseteq live
  /\ \A b \in Buffers : owned[b] \subseteq live
  /\ \A id \in live : (\E v \in Vectors : id \in elements[v]) \/ (\E b \in Buffers : id \in owned[b])
  /\ live \subseteq Ids

LEMMA PartitionNow == OwnInv => Partition([v \in Vectors |-> Elements(vec[v])], [b \in Buffers |-> Owned(b)], Live)
  BY DEF OwnInv, Partition

LEMMA PartitionNext ==
  ASSUME Inv', buf' = [b \in Buffers |-> buf'[b]], \A b \in Buffers : Formed(buf'[b]), failed' = FALSE,
         \A v \in Vectors : Shaped(vec'[v]) /\ Distinct(vec'[v]) /\ vec'[v].size <= MaxLength,
         Partition([v \in Vectors |-> Elements(vec'[v])], [b \in Buffers |-> Owned(b)'], Live')
  PROVE  OwnInv'
  BY DEF OwnInv, Partition

\* One owner exchanges its blocks for others that are its own or were free.
LEMMA PartitionVector ==
  ASSUME NEW elements, NEW owned, NEW live, Partition(elements, owned, live),
         NEW v \in Vectors, NEW new \in SUBSET Ids, new \cap (live \ elements[v]) = {},
         NEW next, \A w \in Vectors : next[w] = IF w = v THEN new ELSE elements[w],
         NEW nextLive, nextLive = (live \ elements[v]) \cup new
  PROVE  Partition(next, owned, nextLive)
<1>1. \A w \in Vectors : w # v => elements[w] \subseteq live \ elements[v]
  BY DEF Partition
<1>2. \A b \in Buffers : owned[b] \subseteq live \ elements[v]
  BY DEF Partition
<1>3. \A u, w \in Vectors : u # w => next[u] \cap next[w] = {}
  BY <1>1 DEF Partition
<1>4. \A u \in Vectors, b \in Buffers : next[u] \cap owned[b] = {}
  BY <1>2 DEF Partition
<1>5. /\ \A w \in Vectors : next[w] \subseteq nextLive
      /\ \A b \in Buffers : owned[b] \subseteq nextLive
      /\ \A id \in nextLive : (\E w \in Vectors : id \in next[w]) \/ (\E b \in Buffers : id \in owned[b])
  <2>1. ASSUME NEW id \in nextLive
        PROVE  (\E w \in Vectors : id \in next[w]) \/ (\E b \in Buffers : id \in owned[b])
    BY <2>1 DEF Partition
  <2> QED BY <1>1, <1>2, <2>1
<1>6. nextLive \subseteq Ids
  BY DEF Partition
<1> QED BY <1>3, <1>4, <1>5, <1>6 DEF Partition

LEMMA PartitionBuffer ==
  ASSUME NEW elements, NEW owned, NEW live, Partition(elements, owned, live),
         NEW b \in Buffers, NEW new \in SUBSET Ids, new \cap (live \ owned[b]) = {},
         NEW next, \A c \in Buffers : next[c] = IF c = b THEN new ELSE owned[c],
         NEW nextLive, nextLive = (live \ owned[b]) \cup new
  PROVE  Partition(elements, next, nextLive)
<1>1. \A c \in Buffers : c # b => owned[c] \subseteq live \ owned[b]
  BY DEF Partition
<1>2. \A v \in Vectors : elements[v] \subseteq live \ owned[b]
  BY DEF Partition
<1>3. \A c, d \in Buffers : c # d => next[c] \cap next[d] = {}
  BY <1>1 DEF Partition
<1>4. \A v \in Vectors, c \in Buffers : elements[v] \cap next[c] = {}
  BY <1>2 DEF Partition
<1>5. /\ \A v \in Vectors : elements[v] \subseteq nextLive
      /\ \A c \in Buffers : next[c] \subseteq nextLive
      /\ \A id \in nextLive : (\E v \in Vectors : id \in elements[v]) \/ (\E c \in Buffers : id \in next[c])
  <2>1. ASSUME NEW id \in nextLive
        PROVE  (\E v \in Vectors : id \in elements[v]) \/ (\E c \in Buffers : id \in next[c])
    BY <2>1 DEF Partition
  <2> QED BY <1>1, <1>2, <2>1
<1>6. nextLive \subseteq Ids
  BY DEF Partition
<1> QED BY <1>3, <1>4, <1>5, <1>6 DEF Partition

\* An operation that gives one vector other cells, and to the heap the change.
LEMMA OneVectorOwns ==
  ASSUME OwnInv, NEW v \in Vectors, NEW w, Shaped(w), Distinct(w), w.size <= MaxLength,
         vec' = [vec EXCEPT ![v] = w],
         Elements(w) \subseteq Ids, Elements(w) \cap (Live \ Elements(vec[v])) = {},
         Live' = (Live \ Elements(vec[v])) \cup Elements(w),
         buf' = [b \in Buffers |-> buf'[b]], \A b \in Buffers : Formed(buf'[b]) /\ Owned(b)' = Owned(b),
         failed' = FALSE
  PROVE  OwnInv'
<1> DEFINE elements == [u \in Vectors |-> Elements(vec[u])]
           owned == [b \in Buffers |-> Owned(b)]
           next == [u \in Vectors |-> Elements(vec'[u])]
<1>1. vec = [u \in Vectors |-> vec[u]]
  BY DEF OwnInv, Inv
<1>2. \A u \in Vectors : vec'[u] = IF u = v THEN w ELSE vec[u]
  BY <1>1
<1>3. Inv'
  <2>1. Sound(w)
    BY DEF Shaped
  <2> QED BY <2>1, OneVector DEF OwnInv
<1>4. Partition(elements, owned, Live)
  BY PartitionNow
<1>5. Partition(next, owned, Live')
  <2>1. \A u \in Vectors : next[u] = IF u = v THEN Elements(w) ELSE elements[u]
    BY <1>2
  <2>2. elements[v] = Elements(vec[v]) /\ Elements(w) \in SUBSET Ids
    OBVIOUS
  <2> HIDE DEF elements, owned, next
  <2> QED BY <1>4, <2>1, <2>2, PartitionVector
<1>6. owned = [b \in Buffers |-> Owned(b)']
  OBVIOUS
<1>7. \A u \in Vectors : Shaped(vec'[u]) /\ Distinct(vec'[u]) /\ vec'[u].size <= MaxLength
  BY <1>2 DEF OwnInv
<1> HIDE DEF owned
<1> QED BY <1>3, <1>5, <1>6, <1>7, PartitionNext

\* An operation that gives one buffer another block, or none.
LEMMA OneBufferOwns ==
  ASSUME OwnInv, NEW b \in Buffers, NEW r, Formed(r), NEW new \in SUBSET Ids, new = {r.at} \ {Internal},
         buf' = [buf EXCEPT ![b] = r], vec' = vec,
         new \cap (Live \ Owned(b)) = {}, Live' = (Live \ Owned(b)) \cup new,
         failed' = FALSE
  PROVE  OwnInv'
<1> DEFINE elements == [u \in Vectors |-> Elements(vec[u])]
           owned == [c \in Buffers |-> Owned(c)]
           next == [c \in Buffers |-> Owned(c)']
<1>1. \A c \in Buffers : buf'[c] = IF c = b THEN r ELSE buf[c]
  BY DEF OwnInv
<1>2. Inv' /\ buf' = [c \in Buffers |-> buf'[c]] /\ \A c \in Buffers : Formed(buf'[c])
  BY <1>1 DEF OwnInv, Inv
<1>3. Partition(elements, owned, Live)
  BY PartitionNow
<1>4. Partition(elements, next, Live')
  <2>1. \A c \in Buffers : next[c] = IF c = b THEN new ELSE owned[c]
    BY <1>1 DEF Owned
  <2>2. owned[b] = Owned(b)
    OBVIOUS
  <2> HIDE DEF elements, owned, next
  <2> QED BY <1>3, <2>1, <2>2, PartitionBuffer
<1>5. elements = [u \in Vectors |-> Elements(vec'[u])]
  OBVIOUS
<1>6. \A u \in Vectors : Shaped(vec'[u]) /\ Distinct(vec'[u]) /\ vec'[u].size <= MaxLength
  BY DEF OwnInv
<1> HIDE DEF elements
<1> QED BY <1>2, <1>4, <1>5, <1>6, PartitionNext

\* A step that leaves the buffers where they are leaves them their blocks.
LEMMA SameBuffers ==
  ASSUME OwnInv, UNCHANGED buf
  PROVE  buf' = [b \in Buffers |-> buf'[b]] /\ \A b \in Buffers : Formed(buf'[b]) /\ Owned(b)' = Owned(b)
  BY DEF OwnInv, Owned

\* The live blocks after a change of the heap.
LEMMA LiveNext ==
  ASSUME NEW dead, NEW born, blocks' = Heap(dead, born)
  PROVE  Live' = (Live \ dead) \cup DOMAIN born
<1>1. DOMAIN Heap(dead, born) = (Live \ dead) \cup DOMAIN born
  BY DomainOfHeap
<1>2. Live' = DOMAIN blocks'
  BY DEF Live
<1> QED BY <1>1, <1>2

\* The copies of the strings of a vector, given to one that holds nothing else.
LEMMA CopiesOwned ==
  ASSUME OwnInv, NEW v \in Vectors, NEW o \in Vectors, MayAllocate(vec[o].size),
         NEW u, Shaped(u), NEW w, Shaped(w), Distinct(u),
         NEW f, f = Fresh(vec[o].size),
         w.size = u.size + vec[o].size, w.size <= MaxLength,
         \A i \in 0..(u.size - 1) : w.cells[i] = u.cells[i],
         \A i \in 1..vec[o].size : w.cells[u.size + i - 1] = f[i],
         NEW dead, vec' = [vec EXCEPT ![v] = w], blocks' = Heap(dead, Copies(vec[o], f)),
         Elements(u) \cup dead = Elements(vec[v]), Elements(u) \cap dead = {},
         UNCHANGED buf, failed' = FALSE
  PROVE  OwnInv'
<1> DEFINE n == vec[o].size
           fresh == {f[i] : i \in 1..n}
<1>1. n \in Nat
  BY DEF OwnInv, Shaped, Sound
<1>2. fresh \subseteq Ids \ Live /\ \A i, j \in 1..n : f[i] = f[j] => i = j
  BY <1>1, FreshIsFresh
<1>3. Live' = (Live \ dead) \cup fresh
  <2>1. Live' = (Live \ dead) \cup DOMAIN Copies(vec[o], f)
    BY LiveNext
  <2>2. DOMAIN Copies(vec[o], f) = fresh
    BY DEF Copies
  <2> QED BY <2>1, <2>2
<1>4. Elements(vec[v]) \subseteq Live /\ Live \subseteq Ids
  BY DEF OwnInv
<1>5. \A i \in 1..n : f[i] \notin Elements(u)
  BY <1>2, <1>4
<1>6. Distinct(w) /\ Elements(w) = Elements(u) \cup fresh
  <2>1. /\ w.size = u.size + n
        /\ \A i \in 1..n : w.cells[u.size + i - 1] = f[i]
    OBVIOUS
  <2>2. \A i, j \in 1..n : f[i] = f[j] => i = j
    BY <1>2
  <2> HIDE DEF n
  <2>3. Distinct(w) /\ Elements(w) = Elements(u) \cup {f[i] : i \in 1..n}
    BY ONLY Shaped(u), Distinct(u), Shaped(w), \A i \in 0..(u.size - 1) : w.cells[i] = u.cells[i],
            <1>1, <1>5, <2>1, <2>2, AppendedCells
  <2> QED BY <2>3
<1> HIDE DEF n, fresh
<1>7. /\ Elements(w) \subseteq Ids /\ Elements(w) \cap (Live \ Elements(vec[v])) = {}
      /\ Live' = (Live \ Elements(vec[v])) \cup Elements(w)
  BY <1>2, <1>3, <1>4, <1>6
<1> QED BY <1>6, <1>7, SameBuffers, OneVectorOwns

\* A new block pushed on a vector.
LEMMA PushOwned ==
  ASSUME OwnInv, NEW v \in Vectors, vec[v].size < MaxLength, MayAllocate(1), NEW block,
         vec' = [vec EXCEPT ![v] = Push(@, Fresh(1)[1])], blocks' = Heap({}, At(Fresh(1)[1], block)),
         buf' = [b \in Buffers |-> buf'[b]], \A b \in Buffers : Formed(buf'[b]) /\ Owned(b)' = Owned(b),
         failed' = FALSE
  PROVE  OwnInv'
<1> DEFINE id == Fresh(1)[1]
           w == Push(vec[v], id)
           f == [i \in 1..1 |-> id]
<1>0. Shaped(vec[v]) /\ Distinct(vec[v]) /\ vec[v].size \in Nat /\ Elements(vec[v]) \subseteq Live /\ Live \subseteq Ids
  BY DEF OwnInv, Shaped, Sound
<1>1. id \in Ids \ Live
  BY FreshIsFresh
<1>2. vec' = [vec EXCEPT ![v] = w]
  OBVIOUS
<1>3. Live' = Live \cup {id}
  <2>1. Live' = (Live \ {}) \cup DOMAIN At(id, block)
    BY LiveNext
  <2> QED BY <2>1, DomainOfAt
<1> HIDE DEF id
<1>4. /\ Shaped(w) /\ w.size = vec[v].size + 1
      /\ \A i \in 0..(vec[v].size - 1) : w.cells[i] = vec[v].cells[i]
      /\ w.cells[vec[v].size] = id
  BY <1>0, PushCells
<1> HIDE DEF w
<1>5. \A i \in 1..1 : w.cells[vec[v].size + i - 1] = f[i] /\ f[i] \notin Elements(vec[v])
  BY <1>0, <1>1, <1>4
<1>6. \A i, j \in 1..1 : f[i] = f[j] => i = j
  OBVIOUS
<1>7. {f[i] : i \in 1..1} = {id}
  OBVIOUS
<1> HIDE DEF f
<1>8. Distinct(w) /\ Elements(w) = Elements(vec[v]) \cup {id}
  BY <1>0, <1>4, <1>5, <1>6, <1>7, AppendedCells
<1>9. /\ Elements(w) \subseteq Ids /\ Elements(w) \cap (Live \ Elements(vec[v])) = {}
      /\ Live' = (Live \ Elements(vec[v])) \cup Elements(w) /\ w.size <= MaxLength
  BY <1>0, <1>1, <1>3, <1>4, <1>8, SizesAssumption
<1> QED BY <1>2, <1>4, <1>8, <1>9, OneVectorOwns

\* An operation that moves the strings of a vector and keeps the heap.
LEMMA SameOwned ==
  ASSUME OwnInv, NEW v \in Vectors, NEW w, Shaped(w), Distinct(w), w.size <= MaxLength,
         Elements(w) = Elements(vec[v]), vec' = [vec EXCEPT ![v] = w], UNCHANGED <<buf, blocks, failed>>
  PROVE  OwnInv'
<1>1. Elements(vec[v]) \subseteq Live /\ Live \subseteq Ids /\ failed' = FALSE
  BY DEF OwnInv
<1>2. Live' = Live
  BY DEF Live
<1> QED BY <1>1, <1>2, SameBuffers, OneVectorOwns

(***************************************************************************)
(* The operations of vectors                                               *)
(***************************************************************************)
\* What the invariant says of every vector.
LEMMA EveryVector ==
  ASSUME OwnInv, NEW v \in Vectors
  PROVE  /\ Shaped(vec[v]) /\ Distinct(vec[v]) /\ vec[v].size <= MaxLength
         /\ vec[v].size \in Nat /\ vec[v].max \in Nat \ {0} /\ vec[v].size <= vec[v].max
         /\ Elements(vec[v]) \subseteq Live /\ Live \subseteq Ids /\ Deletable(Elements(vec[v]))
         /\ \A i \in 0..(vec[v].size - 1) : vec[v].cells[i] \in Live
         /\ failed = FALSE /\ vec = [u \in Vectors |-> vec[u]]
<1>1. Shaped(vec[v]) /\ Distinct(vec[v]) /\ Elements(vec[v]) \subseteq Live /\ Live \subseteq Ids
  BY DEF OwnInv
<1> QED BY <1>1 DEF OwnInv, Inv, Shaped, Sound, Deletable, Elements

LEMMA InitOwns == Init => OwnInv
<1> SUFFICES ASSUME Init PROVE OwnInv
  OBVIOUS
<1>1. \A n \in Capacities : LET e == Empty(IF n = 0 THEN DefaultCapacity ELSE n)
                            IN  Shaped(e) /\ Elements(e) = {} /\ Distinct(e) /\ e.size = 0
  BY EmptyShaped, EmptySound, SizesAssumption
<1>2. \A v \in Vectors : Shaped(vec[v]) /\ Elements(vec[v]) = {} /\ Distinct(vec[v]) /\ vec[v].size = 0
  BY <1>1 DEF Init
<1>3. \A b \in Buffers : Owned(b) = {} /\ Formed(buf[b])
  BY DEF Init, Owned, EmptyBuffer, Formed
<1>4. Live = {} /\ failed = FALSE /\ buf = [b \in Buffers |-> buf[b]]
  BY DEF Init, None, Live
<1> QED BY <1>2, <1>3, <1>4, InitInv, SizesAssumption DEF OwnInv

LEMMA ConstructOwns ==
  ASSUME OwnInv, NEW v \in Vectors, NEW n \in Capacities, Construct(v, n) PROVE OwnInv'
<1> DEFINE w == Empty(IF n = 0 THEN DefaultCapacity ELSE n)
<1>1. Shaped(w) /\ Elements(w) = {} /\ Distinct(w) /\ w.size = 0
  BY EmptyShaped, EmptySound, SizesAssumption
<1>2. vec' = [vec EXCEPT ![v] = w] /\ failed' = FALSE /\ UNCHANGED buf
  BY EveryVector DEF Construct
<1>3. Live' = Live \ Elements(vec[v])
  BY LiveNext, DomainOfNone DEF Construct
<1> HIDE DEF w
<1>4. /\ Elements(w) \subseteq Ids /\ Elements(w) \cap (Live \ Elements(vec[v])) = {}
      /\ Live' = (Live \ Elements(vec[v])) \cup Elements(w) /\ w.size <= MaxLength
  BY <1>1, <1>3, SizesAssumption
<1> QED BY <1>1, <1>2, <1>4, SameBuffers, OneVectorOwns

LEMMA ReserveOwns ==
  ASSUME OwnInv, NEW v \in Vectors, NEW n \in Capacities, Reserve(v, n) PROVE OwnInv'
<1> DEFINE w == EnsureCapacity(vec[v], n)
<1>1. n \in Nat
  BY SizesAssumption
<1>2. Shaped(w) /\ w.size = vec[v].size /\ \A i \in 0..(vec[v].size - 1) : w.cells[i] = vec[v].cells[i]
  BY <1>1, EveryVector, EnsureCapacityCells
<1>3. vec' = [vec EXCEPT ![v] = w] /\ UNCHANGED <<buf, blocks, failed>>
  BY DEF Reserve
<1> HIDE DEF w
<1>4. Distinct(w) /\ Elements(w) = Elements(vec[v])
  BY <1>2, EveryVector, SameCells
<1> QED BY <1>2, <1>3, <1>4, EveryVector, SameOwned

LEMMA CopyConstructOwns ==
  ASSUME OwnInv, NEW v \in Vectors, NEW o \in Vectors, CopyConstruct(v, o) PROVE OwnInv'
<1> DEFINE n == vec[o].size
           f == Fresh(n)
           e == Empty(vec[o].max)
           w == Put([Store(e, 0, n, f) EXCEPT !.size = 0 + n], n, Null)
<1>0. n \in Nat /\ 0 + n = n /\ vec[o].max \in Nat \ {0} /\ n <= vec[o].max
  <2>1. n \in Nat /\ vec[o].max \in Nat \ {0} /\ n <= vec[o].max
    BY EveryVector
  <2> HIDE DEF n
  <2> QED BY <2>1
<1>1. Shaped(e) /\ Elements(e) = {} /\ Distinct(e) /\ e.size = 0 /\ e.max = vec[o].max
  BY <1>0, EmptyShaped, EmptySound
<1>2. /\ Shaped(w) /\ w.size = 0 + n /\ \A i \in 1..n : w.cells[0 + i - 1] = f[i]
  <2> HIDE DEF e, f, n
  <2> QED BY <1>0, <1>1, FillCells
<1>3. /\ vec' = [vec EXCEPT ![v] = w] /\ blocks' = Heap(Elements(vec[v]), Copies(vec[o], f))
      /\ failed' = FALSE /\ UNCHANGED buf /\ MayAllocate(vec[o].size)
  BY <1>0, EveryVector DEF CopyConstruct
<1>4. f = Fresh(vec[o].size) /\ w.size <= MaxLength /\ w.size = e.size + vec[o].size
  <2>1. n <= MaxLength /\ n = vec[o].size
    BY EveryVector
  <2> HIDE DEF n, w, e
  <2> QED BY <1>0, <1>1, <1>2, <2>1
<1>5. /\ \A i \in 0..(e.size - 1) : w.cells[i] = e.cells[i]
      /\ \A i \in 1..vec[o].size : w.cells[e.size + i - 1] = f[i]
  <2> HIDE DEF e, w, f
  <2> QED BY <1>1, <1>2
<1>6. Elements(e) \cup Elements(vec[v]) = Elements(vec[v]) /\ Elements(e) \cap Elements(vec[v]) = {}
  BY <1>1
<1> HIDE DEF e, f, n, w
<1> QED BY <1>1, <1>2, <1>3, <1>4, <1>5, <1>6, CopiesOwned

LEMMA AssignOwns ==
  ASSUME OwnInv, NEW v \in Vectors, NEW o \in Vectors, Assign(v, o) PROVE OwnInv'
<1> DEFINE n == vec[o].size
           f == Fresh(n)
           e == Empty(1)
           x == EnsureCapacity(vec[v], n)
           z == Store(x, 0, x.size, [i \in 1..x.size |-> Null])
           y == Store(z, 0, n, f)
           w == [y EXCEPT !.size = n]
<1>0. n \in Nat
  BY EveryVector
<1>1. Shaped(e) /\ Elements(e) = {} /\ Distinct(e) /\ e.size = 0
  BY EmptyShaped, EmptySound
<1>2. Shaped(x) /\ x.max >= n /\ x.max \in Nat /\ x.size \in Nat /\ x.size <= x.max
  <2>1. Shaped(x) /\ x.max >= n /\ x.max \in Nat
    BY <1>0, EveryVector, EnsureCapacityCells
  <2> HIDE DEF x
  <2> QED BY <2>1 DEF Shaped, Sound
<1>3. Shaped(z) /\ z.max = x.max
  <2> HIDE DEF x
  <2>1. 0 + x.size <= x.max
    BY <1>2
  <2> QED BY <1>2, <2>1, StoreCells
<1>4. /\ Shaped(y) /\ y.max = x.max
      /\ \A j \in 0..x.max : y.cells[j] = IF j \in 0..(0 + n - 1) THEN f[j - 0 + 1] ELSE z.cells[j]
  <2> HIDE DEF z, f, n, x
  <2>1. 0 + n <= z.max
    BY <1>0, <1>2, <1>3
  <2> QED BY <1>0, <1>3, <2>1, StoreCells
<1>5. Shaped(w) /\ w.size = n /\ w.cells = y.cells
  <2> HIDE DEF y, n, x
  <2> QED BY <1>0, <1>2, <1>4, ResizeCells
<1>6. \A i \in 1..n : w.cells[0 + i - 1] = f[i]
  <2> TAKE i \in 1..n
  <2> HIDE DEF w, y, z, f, n, x
  <2>1. 0 + i - 1 \in 0..x.max /\ 0 + i - 1 \in 0..(0 + n - 1) /\ (0 + i - 1) - 0 + 1 = i
    BY <1>0, <1>2
  <2> QED BY <1>4, <1>5, <2>1
<1>7. /\ vec' = [vec EXCEPT ![v] = w] /\ blocks' = Heap(Elements(vec[v]), Copies(vec[o], f))
      /\ failed' = FALSE /\ UNCHANGED buf /\ MayAllocate(vec[o].size)
  BY EveryVector DEF Assign
<1>8. f = Fresh(vec[o].size) /\ w.size <= MaxLength /\ w.size = e.size + vec[o].size
  <2>1. n <= MaxLength /\ n = vec[o].size
    BY EveryVector
  <2> HIDE DEF n, w, e
  <2> QED BY <1>0, <1>1, <1>5, <2>1
<1>9. /\ \A i \in 0..(e.size - 1) : w.cells[i] = e.cells[i]
      /\ \A i \in 1..vec[o].size : w.cells[e.size + i - 1] = f[i]
  <2> HIDE DEF e, w, f
  <2> QED BY <1>1, <1>6
<1>10. Elements(e) \cup Elements(vec[v]) = Elements(vec[v]) /\ Elements(e) \cap Elements(vec[v]) = {}
  BY <1>1
<1> HIDE DEF e, f, n, w, x, y, z
<1> QED BY <1>1, <1>5, <1>7, <1>8, <1>9, <1>10, CopiesOwned

LEMMA AddOwns ==
  ASSUME OwnInv, NEW v \in Vectors, NEW text, Add(v, text) PROVE OwnInv'
<1>1. /\ vec[v].size < MaxLength /\ MayAllocate(1)
      /\ vec' = [vec EXCEPT ![v] = Push(@, Fresh(1)[1])] /\ blocks' = Heap({}, At(Fresh(1)[1], Exact(text)))
      /\ UNCHANGED buf /\ failed' = FALSE
  BY EveryVector DEF Add
<1> QED BY <1>1, SameBuffers, PushOwned

LEMMA AddVectorOwns ==
  ASSUME OwnInv, NEW v \in Vectors, NEW o \in Vectors, AddVector(v, o) PROVE OwnInv'
<1> DEFINE n == vec[o].size
           f == Fresh(n)
           u == vec[v]
           m == MakeRoom(u, n)
           w == IF n = 0 THEN m ELSE Put([Store(m, m.size, n, f) EXCEPT !.size = @ + n], m.size + n, Null)
<1>0. n \in Nat /\ u.size \in Nat /\ Shaped(u) /\ Distinct(u)
  BY EveryVector
<1>1. /\ Shaped(m) /\ m.size = u.size /\ u.size + n + 1 <= m.max
      /\ \A i \in 0..(u.size - 1) : m.cells[i] = u.cells[i]
  <2> HIDE DEF n, u
  <2> QED BY <1>0, MakeRoomCells
<1>2. /\ Shaped(w) /\ w.size = u.size + n
      /\ \A i \in 0..(u.size - 1) : w.cells[i] = u.cells[i]
      /\ \A i \in 1..n : w.cells[u.size + i - 1] = f[i]
  <2> DEFINE s == Store(m, m.size, n, f)
             p == Put([s EXCEPT !.size = m.size + n], m.size + n, Null)
  <2> HIDE DEF f, n, u, m
  <2>1. CASE n = 0
    BY <1>0, <1>1, <2>1
  <2>2. CASE n # 0
    <3>1. m.size \in Nat /\ m.size + n \in Nat /\ m.size + n <= m.max /\ m.max \in Nat
      BY <1>0, <1>1 DEF Shaped, Sound
    <3>2. /\ Shaped(p) /\ p.size = m.size + n
          /\ \A i \in 0..(m.size - 1) : p.cells[i] = m.cells[i]
          /\ \A i \in 1..n : p.cells[m.size + i - 1] = f[i]
      BY <1>0, <1>1, <3>1, FillCells
    <3>3. Shaped(s) /\ s.size = m.size
      BY <1>0, <1>1, <3>1, StoreCells
    <3> HIDE DEF s
    <3>4. [s EXCEPT !.size = @ + n] = [s EXCEPT !.size = m.size + n]
      BY <3>3 DEF Shaped, Sound
    <3>5. w = p
      BY <2>2, <3>4 DEF s
    <3> HIDE DEF p, w
    <3> QED BY <1>1, <3>2, <3>5
  <2> QED BY <2>1, <2>2
<1>3. /\ vec' = [vec EXCEPT ![v] = w] /\ blocks' = Heap({}, Copies(vec[o], f))
      /\ UNCHANGED buf /\ failed' = FALSE /\ MayAllocate(vec[o].size) /\ u.size + n <= MaxLength
  BY EveryVector DEF AddVector
<1>4. /\ w.size = u.size + vec[o].size /\ w.size <= MaxLength
      /\ \A i \in 1..vec[o].size : w.cells[u.size + i - 1] = f[i]
  <2> HIDE DEF w, f
  <2> QED BY <1>2, <1>3
<1>5. Elements(u) \cup {} = Elements(vec[v]) /\ Elements(u) \cap {} = {} /\ f = Fresh(vec[o].size)
  OBVIOUS
<1> HIDE DEF n, f, u, m, w
<1> QED BY <1>0, <1>2, <1>3, <1>4, <1>5, CopiesOwned

LEMMA AddVectorWithOwnershipOwns ==
  ASSUME OwnInv, NEW v \in Vectors, NEW o \in Vectors, AddVectorWithOwnership(v, o) PROVE OwnInv'
<1> DEFINE n == vec[o].size
           u == vec[v]
           m == MakeRoom(u, n)
           f == [i \in 1..n |-> vec[o].cells[i - 1]]
           s == Store(m, m.size, n, f)
           a == Put([s EXCEPT !.size = m.size + n], m.size + n + 1, Null)
           z == Store(vec[o], 0, n, [i \in 1..n |-> Null])
           b == Put([z EXCEPT !.size = 0], 0, Null)
<1>0. n \in Nat /\ u.size \in Nat /\ Shaped(u) /\ Distinct(u)
  BY EveryVector
<1>1. /\ Shaped(m) /\ m.size = u.size /\ u.size + n + 1 <= m.max
      /\ \A i \in 0..(u.size - 1) : m.cells[i] = u.cells[i]
  <2> HIDE DEF n, u
  <2> QED BY <1>0, MakeRoomCells
<1>2. m.size \in Nat /\ m.size + n <= m.max /\ m.size + n + 1 \in Nat /\ m.size + n + 1 <= m.max /\ m.size + n <= m.size + n + 1
  <2> HIDE DEF n, u, m
  <2> QED BY <1>0, <1>1 DEF Shaped, Sound
<1>3. /\ Shaped(a) /\ a.size = u.size + n
      /\ \A i \in 0..(u.size - 1) : a.cells[i] = u.cells[i]
      /\ \A i \in 1..n : a.cells[u.size + i - 1] = f[i]
  <2> HIDE DEF f, n, u, m
  <2> QED BY <1>0, <1>1, <1>2, FillCells
<1>4. [s EXCEPT !.size = @ + n] = [s EXCEPT !.size = m.size + n]
  <2> HIDE DEF f, n, u, m
  <2>1. Shaped(s) /\ s.size = m.size
    BY <1>0, <1>1, <1>2, StoreCells
  <2> HIDE DEF s
  <2> QED BY <2>1 DEF Shaped, Sound
<1>5. v # o /\ u.size + n <= MaxLength /\ UNCHANGED <<buf, blocks, failed>> /\ vec' = [vec EXCEPT ![v] = a, ![o] = b]
  BY <1>4, EveryVector DEF AddVectorWithOwnership
<1>6. Shaped(b) /\ b.size = 0
  <2>1. Shaped(vec[o]) /\ n <= vec[o].max /\ vec[o].max \in Nat
    BY EveryVector
  <2>2. Shaped(z) /\ z.max = vec[o].max
    <3> DEFINE g == [i \in 1..n |-> Null]
    <3>1. 0 + n <= vec[o].max
      BY <1>0, <2>1
    <3> HIDE DEF g, n
    <3> QED BY <1>0, <2>1, <3>1, StoreCells
  <2> DEFINE y == [z EXCEPT !.size = 0]
  <2> HIDE DEF z
  <2>3. Shaped(y) /\ y.size = 0 /\ y.max = vec[o].max
    BY <2>1, <2>2, ResizeCells
  <2> HIDE DEF y
  <2>4. Shaped(Put(y, 0, Null)) /\ Put(y, 0, Null).size = 0
    BY <2>1, <2>3, PutCells
  <2> QED BY <2>4 DEF y
<1>7. \A i \in 1..n : i - 1 \in 0..(n - 1) /\ f[i] = vec[o].cells[i - 1]
  BY <1>0
<1>8. {f[i] : i \in 1..n} = Elements(vec[o])
  <2>1. \A j \in 0..(n - 1) : j + 1 \in 1..n /\ f[j + 1] = vec[o].cells[j]
    BY <1>0
  <2> HIDE DEF f
  <2> QED BY <1>7, <2>1 DEF Elements
<1>9. Distinct(a) /\ Elements(a) = Elements(u) \cup Elements(vec[o])
  <2>1. \A i, j \in 1..n : f[i] = f[j] => i = j
    <3> SUFFICES ASSUME NEW i \in 1..n, NEW j \in 1..n, f[i] = f[j] PROVE i = j
      OBVIOUS
    <3>1. Distinct(vec[o])
      BY EveryVector
    <3>2. i - 1 = j - 1
      BY <1>7, <3>1 DEF Distinct
    <3> QED BY <3>2
  <2>2. Elements(u) \cap Elements(vec[o]) = {}
    BY <1>5 DEF OwnInv
  <2> HIDE DEF f, n, u, a
  <2>3. \A i \in 1..n : f[i] \notin Elements(u)
    BY <1>8, <2>2
  <2> QED BY <1>0, <1>3, <1>8, <2>1, <2>3, AppendedCells
<1>10. Distinct(b) /\ Elements(b) = {}
  <2> HIDE DEF b
  <2> QED BY <1>6 DEF Distinct, Elements
<1> HIDE DEF a, b
<1>11. \A x \in Vectors : vec'[x] = IF x = o THEN b ELSE IF x = v THEN a ELSE vec[x]
  BY <1>5, EveryVector
<1> DEFINE elements == [x \in Vectors |-> Elements(vec[x])]
           without == [x \in Vectors |-> IF x = o THEN {} ELSE elements[x]]
           owned == [c \in Buffers |-> Owned(c)]
           next == [x \in Vectors |-> Elements(vec'[x])]
<1>12. Partition(elements, owned, Live)
  BY PartitionNow
<1>13. Partition(without, owned, Live \ elements[o])
  <2>1. \A x \in Vectors : without[x] = IF x = o THEN {} ELSE elements[x]
    OBVIOUS
  <2>2. Live \ elements[o] = (Live \ elements[o]) \cup {} /\ {} \cap (Live \ elements[o]) = {} /\ {} \in SUBSET Ids
    OBVIOUS
  <2> HIDE DEF elements, without, owned
  <2> QED BY <1>12, <2>1, <2>2, PartitionVector
<1>14. Partition(next, owned, Live)
  <2>1. \A x \in Vectors : next[x] = IF x = v THEN Elements(a) ELSE without[x]
    <3>1. \A x \in Vectors : next[x] = Elements(vec'[x]) /\ without[x] = IF x = o THEN {} ELSE Elements(vec[x])
      OBVIOUS
    <3> HIDE DEF next, without
    <3> QED BY <3>1, <1>5, <1>10, <1>11
  <2>2. elements[v] = Elements(u) /\ elements[o] = Elements(vec[o]) /\ without[v] = elements[v]
    BY <1>5
  <2>3. elements[v] \subseteq Live /\ elements[o] \subseteq Live /\ Live \subseteq Ids /\ elements[v] \cap elements[o] = {}
    BY <1>5, <1>12 DEF Partition
  <2> HIDE DEF elements, without, owned, next, u
  <2>4. /\ Elements(a) \in SUBSET Ids /\ Elements(a) \cap ((Live \ elements[o]) \ without[v]) = {}
        /\ Live = ((Live \ elements[o]) \ without[v]) \cup Elements(a)
    BY <1>9, <2>2, <2>3
  <2> QED BY <1>13, <2>1, <2>4, PartitionVector
<1>15. Inv'
  <2>1. Sound(a) /\ Sound(b)
    BY <1>3, <1>6 DEF Shaped
  <2>2. vec' = [x \in Vectors |-> vec'[x]]
    BY <1>5, EveryVector
  <2> QED BY <1>11, <2>1, <2>2 DEF OwnInv, Inv
<1>16. \A x \in Vectors : Shaped(vec'[x]) /\ Distinct(vec'[x]) /\ vec'[x].size <= MaxLength
  <2>1. a.size <= MaxLength /\ b.size <= MaxLength
    BY <1>3, <1>5, <1>6, SizesAssumption
  <2> QED BY <1>3, <1>6, <1>9, <1>10, <1>11, <2>1, EveryVector
<1>17. Live' = Live /\ failed' = FALSE
  BY <1>5, EveryVector DEF Live
<1>18. owned = [c \in Buffers |-> Owned(c)'] /\ buf' = [c \in Buffers |-> buf'[c]] /\ \A c \in Buffers : Formed(buf'[c])
  BY <1>5, SameBuffers
<1> HIDE DEF owned, next
<1>19. Partition(next, [c \in Buffers |-> Owned(c)'], Live')
  BY <1>14, <1>17, <1>18
<1> QED BY <1>15, <1>16, <1>17, <1>18, <1>19, PartitionNext DEF next

LEMMA ReplaceOwns ==
  ASSUME OwnInv, NEW v \in Vectors, NEW i \in Nat, NEW text, Replace(v, i, text) PROVE OwnInv'
<1> DEFINE u == vec[v]
           id == Fresh(1)[1]
           old == u.cells[i]
           w == Put(u, i, id)
<1>0. i < u.size /\ MayAllocate(1)
  BY DEF Replace
<1>1. /\ Shaped(u) /\ Distinct(u) /\ u.size \in Nat /\ u.max \in Nat /\ u.size <= u.max /\ u.size <= MaxLength
      /\ Elements(u) \subseteq Live /\ Live \subseteq Ids /\ failed = FALSE /\ old \in Elements(u)
  <2>1. /\ Shaped(u) /\ Distinct(u) /\ u.size \in Nat /\ u.max \in Nat /\ u.size <= u.max /\ u.size <= MaxLength
        /\ Elements(u) \subseteq Live /\ Live \subseteq Ids /\ failed = FALSE
    BY EveryVector
  <2> HIDE DEF u
  <2>2. i \in 0..(u.size - 1)
    BY <1>0, <2>1
  <2> QED BY <2>1, <2>2 DEF Elements
<1>2. id \in Ids \ Live
  BY <1>0, FreshIsFresh
<1>3. vec' = [vec EXCEPT ![v] = w] /\ blocks' = Heap({old}, At(id, Exact(text))) /\ UNCHANGED buf /\ failed' = FALSE
  BY <1>0, <1>1, EveryVector DEF Replace, Deletable
<1>4. Live' = (Live \ {old}) \cup {id}
  <2>1. Live' = (Live \ {old}) \cup DOMAIN At(id, Exact(text))
    BY <1>3, LiveNext
  <2> QED BY <2>1, DomainOfAt
<1> HIDE DEF id
<1>5. /\ Shaped(w) /\ w.size = u.size
      /\ \A j \in 0..u.max : w.cells[j] = IF j = i THEN id ELSE u.cells[j]
  <2>1. i <= u.max
    BY <1>0, <1>1
  <2> HIDE DEF u
  <2> QED BY <1>1, <2>1, PutCells
<1> HIDE DEF u, w
<1>6. \A j \in 0..(u.size - 1) : w.cells[j] = (IF j = i THEN id ELSE u.cells[j]) /\ u.cells[j] \in Live
  BY <1>1, <1>5 DEF Elements
<1>7. Distinct(w)
  <2> SUFFICES ASSUME NEW j \in 0..(u.size - 1), NEW k \in 0..(u.size - 1), w.cells[j] = w.cells[k] PROVE j = k
    BY <1>5 DEF Distinct
  <2> QED BY <1>1, <1>2, <1>6 DEF Distinct
<1>8. Elements(w) = (Elements(u) \ {old}) \cup {id}
  <2>1. ASSUME NEW x \in Elements(w) PROVE x \in (Elements(u) \ {old}) \cup {id}
    <3>1. PICK j \in 0..(u.size - 1) : x = w.cells[j]
      BY <1>5, <2>1 DEF Elements
    <3>2. CASE j = i
      BY <1>6, <3>1, <3>2
    <3>3. CASE j # i
      <4>1. x = u.cells[j] /\ x # old
        BY <1>0, <1>1, <1>6, <3>1, <3>3 DEF Distinct
      <4> QED BY <4>1 DEF Elements
    <3> QED BY <3>2, <3>3
  <2>2. id \in Elements(w)
    BY <1>0, <1>1, <1>5, <1>6 DEF Elements
  <2>3. ASSUME NEW x \in Elements(u) \ {old} PROVE x \in Elements(w)
    <3>1. PICK j \in 0..(u.size - 1) : x = u.cells[j]
      BY <2>3 DEF Elements
    <3>2. j # i
      BY <2>3, <3>1
    <3> QED BY <1>5, <1>6, <3>1, <3>2 DEF Elements
  <2> QED BY <2>1, <2>2, <2>3
<1> HIDE DEF old
<1>9. /\ Elements(w) \subseteq Ids /\ Elements(w) \cap (Live \ Elements(vec[v])) = {} /\ w.size <= MaxLength
      /\ Live' = (Live \ Elements(vec[v])) \cup Elements(w)
  <2>1. u = vec[v]
    BY DEF u
  <2> QED BY <1>1, <1>2, <1>4, <1>5, <1>8, <2>1
<1> QED BY <1>3, <1>5, <1>7, <1>9, SameBuffers, OneVectorOwns

LEMMA SortOwns ==
  ASSUME OwnInv, NEW v \in Vectors, Sort(v) PROVE OwnInv'
<1> DEFINE u == vec[v]
           n == u.size
<1>1. PICK p \in [1..n -> 1..n] :
         /\ \A i, j \in 1..n : i < j => p[i] # p[j]
         /\ vec' = [vec EXCEPT ![v] = Store(u, 0, n, [i \in 1..n |-> u.cells[p[i] - 1]])]
         /\ UNCHANGED <<buf, blocks, failed>>
  BY DEF Sort
<1> DEFINE f == [i \in 1..n |-> u.cells[p[i] - 1]]
           w == Store(u, 0, n, f)
<1>2. Shaped(u) /\ Distinct(u) /\ n \in Nat /\ u.max \in Nat /\ n <= u.max /\ n <= MaxLength /\ n = u.size
  BY EveryVector
<1> HIDE DEF n
<1>3. Shaped(w) /\ w.size = n /\ \A j \in 0..u.max : w.cells[j] = IF j \in 0..(0 + n - 1) THEN f[j - 0 + 1] ELSE u.cells[j]
  <2>1. 0 + n <= u.max
    BY <1>2
  <2> HIDE DEF f, u
  <2> QED BY <1>2, <2>1, StoreCells
<1>4. \A j \in 0..(n - 1) : j + 1 \in 1..n /\ w.cells[j] = u.cells[p[j + 1] - 1]
  <2> TAKE j \in 0..(n - 1)
  <2>1. j \in 0..u.max /\ j \in 0..(0 + n - 1) /\ j - 0 + 1 = j + 1 /\ j + 1 \in 1..n
    BY <1>2
  <2>2. f[j + 1] = u.cells[p[j + 1] - 1]
    BY <2>1
  <2> HIDE DEF f, w
  <2> QED BY <1>3, <2>1, <2>2
<1> HIDE DEF w
<1>5. \A i, j \in 1..n : p[i] = p[j] => i = j
  BY <1>1, <1>2
<1>6. \A y \in 1..n : \E i \in 1..n : p[i] = y
  <2>1. p \in Injection(1..n, 1..n)
    BY <1>1, <1>5 DEF Injection, IsInjective
  <2>2. IsFiniteSet(1..n)
    <3>1. 1 \in Int /\ n \in Int
      BY <1>2
    <3> QED BY <3>1, FS_Interval
  <2>3. p \in Surjection(1..n, 1..n)
    BY <2>1, <2>2, FS_Injection
  <2> QED BY <2>3 DEF Surjection
<1>7. Distinct(w)
  <2> SUFFICES ASSUME NEW i \in 0..(n - 1), NEW j \in 0..(n - 1), w.cells[i] = w.cells[j] PROVE i = j
    BY <1>3 DEF Distinct
  <2>1. p[i + 1] - 1 \in 0..(n - 1) /\ p[j + 1] - 1 \in 0..(n - 1) /\ p[i + 1] \in Nat /\ p[j + 1] \in Nat
    <3>1. p[i + 1] \in 1..n /\ p[j + 1] \in 1..n
      BY <1>4
    <3> QED BY <1>2, <3>1
  <2>2. p[i + 1] - 1 = p[j + 1] - 1
    BY <1>2, <1>4, <2>1 DEF Distinct
  <2>3. i + 1 = j + 1
    BY <1>4, <1>5, <2>1, <2>2
  <2> QED BY <2>3
<1>8. Elements(w) = Elements(u)
  <2>1. ASSUME NEW x \in Elements(w) PROVE x \in Elements(u)
    <3>1. PICK j \in 0..(n - 1) : x = w.cells[j]
      BY <1>3, <2>1 DEF Elements
    <3>2. p[j + 1] - 1 \in 0..(n - 1)
      <4>1. p[j + 1] \in 1..n
        BY <1>4
      <4> QED BY <1>2, <4>1
    <3> HIDE DEF u
    <3> QED BY <1>2, <1>4, <3>1, <3>2 DEF Elements
  <2>2. ASSUME NEW x \in Elements(u) PROVE x \in Elements(w)
    <3> HIDE DEF u
    <3>1. PICK j \in 0..(n - 1) : x = u.cells[j]
      BY <1>2, <2>2 DEF Elements
    <3>2. PICK i \in 1..n : p[i] = j + 1
      <4>1. j + 1 \in 1..n
        BY <1>4, <1>2, <3>1
      <4> QED BY <1>6, <4>1
    <3>3. i - 1 \in 0..(n - 1) /\ (i - 1) + 1 = i /\ (j + 1) - 1 = j
      BY <1>2
    <3>4. w.cells[i - 1] = x
      BY <1>4, <3>1, <3>2, <3>3
    <3> QED BY <1>3, <3>3, <3>4 DEF Elements
  <2> QED BY <2>1, <2>2
<1>9. vec' = [vec EXCEPT ![v] = w] /\ w.size <= MaxLength /\ Elements(w) = Elements(vec[v])
  BY <1>1, <1>2, <1>3, <1>8 DEF w
<1> HIDE DEF u, n
<1> QED BY <1>1, <1>3, <1>7, <1>9, SameOwned

LEMMA RemoveAllOwns ==
  ASSUME OwnInv, NEW v \in Vectors, RemoveAll(v) PROVE OwnInv'
<1> DEFINE u == vec[v]
           g == [i \in 1..u.size |-> Junk]
           s == Store(u, 0, u.size, g)
           p == Put(s, 0, Null)
           w == [p EXCEPT !.size = 0]
<1>1. /\ Shaped(u) /\ u.size \in Nat /\ u.max \in Nat /\ u.size <= u.max
      /\ Elements(u) \subseteq Live /\ Live \subseteq Ids /\ failed = FALSE /\ Deletable(Elements(u))
  BY EveryVector
<1>2. Shaped(s) /\ s.max = u.max
  <2>1. 0 + u.size <= u.max
    BY <1>1
  <2> HIDE DEF g, u
  <2> QED BY <1>1, <2>1, StoreCells
<1>3. Shaped(p) /\ p.max = u.max
  <2> HIDE DEF s, u
  <2> QED BY <1>1, <1>2, PutCells
<1>4. Shaped(w) /\ w.size = 0
  <2> HIDE DEF p, u
  <2> QED BY <1>1, <1>3, ResizeCells
<1>5. vec' = [vec EXCEPT ![v] = w] /\ Live' = Live \ Elements(u) /\ UNCHANGED buf /\ failed' = FALSE
  <2>1. blocks' = Heap(Elements(u), None) /\ vec' = [vec EXCEPT ![v] = w] /\ UNCHANGED buf /\ failed' = FALSE
    BY <1>1, EveryVector DEF RemoveAll
  <2>2. Live' = (Live \ Elements(u)) \cup DOMAIN None
    BY <2>1, LiveNext
  <2> QED BY <2>1, <2>2, DomainOfNone
<1> HIDE DEF w
<1>6. Distinct(w) /\ Elements(w) = {}
  BY <1>4 DEF Distinct, Elements
<1>7. /\ Elements(w) \subseteq Ids /\ Elements(w) \cap (Live \ Elements(vec[v])) = {} /\ w.size <= MaxLength
      /\ Live' = (Live \ Elements(vec[v])) \cup Elements(w)
  BY <1>4, <1>5, <1>6, SizesAssumption
<1> HIDE DEF u
<1> QED BY <1>4, <1>5, <1>6, <1>7, SameBuffers, OneVectorOwns

LEMMA RemoveLastOwns ==
  ASSUME OwnInv, NEW v \in Vectors, RemoveLast(v) PROVE OwnInv'
<1> DEFINE u == vec[v]
           k == u.size - 1
           old == u.cells[k]
           p == Put(u, k, Null)
           w == [p EXCEPT !.size = k]
<1>1. /\ Shaped(u) /\ Distinct(u) /\ u.size \in Nat /\ u.max \in Nat /\ u.size <= u.max /\ u.size <= MaxLength
      /\ Elements(u) \subseteq Live /\ Live \subseteq Ids /\ failed = FALSE
  BY EveryVector
<1>2. u.size > 0 /\ k \in Nat /\ k < u.size /\ k <= u.max /\ old \in Elements(u)
  <2>1. u.size > 0
    BY DEF RemoveLast
  <2> QED BY <1>1, <2>1 DEF Elements
<1>3. Shaped(p) /\ p.max = u.max /\ p.size = u.size /\ \A j \in 0..u.max : p.cells[j] = IF j = k THEN Null ELSE u.cells[j]
  <2> HIDE DEF u, k
  <2> QED BY <1>1, <1>2, PutCells
<1>4. Shaped(w) /\ w.size = k /\ w.cells = p.cells
  <2> HIDE DEF p, u, k
  <2> QED BY <1>1, <1>2, <1>3, ResizeCells
<1>5. vec' = [vec EXCEPT ![v] = w] /\ Live' = Live \ {old} /\ UNCHANGED buf /\ failed' = FALSE
  <2>1. blocks' = Heap({old}, None) /\ vec' = [vec EXCEPT ![v] = w] /\ UNCHANGED buf
    BY EveryVector DEF RemoveLast
  <2>2. failed' = FALSE
    BY <1>1, <1>2 DEF RemoveLast, Deletable
  <2>3. Live' = (Live \ {old}) \cup DOMAIN None
    BY <2>1, LiveNext
  <2> QED BY <2>1, <2>2, <2>3, DomainOfNone
<1> HIDE DEF w, p
<1>6. \A j \in 0..(k - 1) : j \in 0..(u.size - 1) /\ j # k /\ w.cells[j] = u.cells[j]
  BY <1>1, <1>2, <1>3, <1>4
<1>7. Distinct(w)
  BY <1>1, <1>4, <1>6 DEF Distinct
<1>8. Elements(w) = Elements(u) \ {old}
  <2>1. ASSUME NEW x \in Elements(w) PROVE x \in Elements(u) \ {old}
    <3>1. PICK j \in 0..(k - 1) : x = w.cells[j]
      BY <1>4, <2>1 DEF Elements
    <3>2. x = u.cells[j] /\ x # old
      BY <1>1, <1>2, <1>6, <3>1 DEF Distinct
    <3> QED BY <1>6, <3>2 DEF Elements
  <2>2. ASSUME NEW x \in Elements(u) \ {old} PROVE x \in Elements(w)
    <3>1. PICK j \in 0..(u.size - 1) : x = u.cells[j]
      BY <2>2 DEF Elements
    <3>2. j \in 0..(k - 1)
      BY <1>1, <2>2, <3>1
    <3> QED BY <1>4, <1>6, <3>1, <3>2 DEF Elements
  <2> QED BY <2>1, <2>2
<1>9. /\ Elements(w) \subseteq Ids /\ Elements(w) \cap (Live \ Elements(vec[v])) = {} /\ w.size <= MaxLength
      /\ Live' = (Live \ Elements(vec[v])) \cup Elements(w)
  <2>1. k <= MaxLength /\ u = vec[v]
    BY <1>1, <1>2, SizesAssumption
  <2> HIDE DEF k, old, u
  <2> QED BY <1>1, <1>2, <1>4, <1>5, <1>8, <2>1
<1> HIDE DEF u, k, old
<1> QED BY <1>4, <1>5, <1>7, <1>9, SameBuffers, OneVectorOwns

(***************************************************************************)
(* The operations of buffers                                               *)
(***************************************************************************)
\* What the invariant says of every buffer.
LEMMA EveryBuffer ==
  ASSUME OwnInv, NEW b \in Buffers
  PROVE  /\ Formed(buf[b]) /\ Owned(b) \subseteq Live /\ Owned(b) \subseteq Ids /\ Live \subseteq Ids
         /\ buf[b].at \in Live \cup {Internal}
         /\ failed = FALSE /\ buf = [c \in Buffers |-> buf[c]]
  BY DEF OwnInv, Owned

\* A buffer made anew has no block, and keeps no other field than its own.
LEMMA ResetFormed ==
  ASSUME NEW spill
  PROVE  LET r == [EmptyBuffer EXCEPT !.spill = spill] IN Formed(r) /\ r.at = Internal
  BY DEF EmptyBuffer, Formed

\* A step that changes a buffer but not the block it has.
LEMMA SameBlock ==
  ASSUME OwnInv, NEW b \in Buffers, NEW r, Formed(r), r.at = buf[b].at,
         buf' = [buf EXCEPT ![b] = r], Live' = Live, vec' = vec, failed' = failed
  PROVE  OwnInv'
<1>1. Owned(b) = {r.at} \ {Internal} /\ Owned(b) \in SUBSET Ids /\ failed' = FALSE
  BY EveryBuffer DEF Owned
<1>2. Owned(b) \cap (Live \ Owned(b)) = {} /\ Live' = (Live \ Owned(b)) \cup Owned(b)
  BY EveryBuffer
<1> QED BY <1>1, <1>2, OneBufferOwns

LEMMA WriteOwns ==
  ASSUME OwnInv, NEW b \in Buffers, NEW kept, NEW text, Write(b, kept, text) PROVE OwnInv'
<1> DEFINE new == GrownSize(buf[b].max, Len(kept) + 1, Len(text))
           size == Len(kept \o text) + 1
<1> HIDE DEF new, size
<1>0. vec' = vec /\ failed' = failed /\ failed = FALSE
  BY EveryBuffer DEF Write
<1>1. CASE /\ buf' = [buf EXCEPT ![b].text = kept \o text, ![b].spill = IF size > Capacity(b) THEN 1 ELSE @]
           /\ UNCHANGED blocks
  <2> DEFINE spill == IF size > Capacity(b) THEN 1 ELSE buf[b].spill
             r == [buf[b] EXCEPT !.text = kept \o text, !.spill = spill]
  <2> HIDE DEF spill
  <2>1. Formed(r) /\ r.at = buf[b].at
    <3>1. Formed(buf[b])
      BY EveryBuffer
    <3> DEFINE q == buf[b]
               x == kept \o text
    <3> HIDE DEF q, x, spill
    <3>2. Formed([q EXCEPT !.text = x, !.spill = spill]) /\ [q EXCEPT !.text = x, !.spill = spill].at = q.at
      <4>1. Formed(q)
        BY <3>1 DEF q
      <4> QED BY <4>1 DEF Formed
    <3> QED BY <3>2 DEF q, x
  <2>2. buf' = [buf EXCEPT ![b] = r]
    BY <1>1, EveryBuffer DEF spill
  <2> HIDE DEF r
  <2> QED BY <1>0, <1>1, <2>1, <2>2, SameBlock DEF Live
<1>2. CASE /\ MayAllocate(1)
           /\ \E id \in {Fresh(1)[1]} :
                /\ buf' = [buf EXCEPT ![b] = [at |-> id, text |-> kept \o text, max |-> new,
                                              spill |-> IF size > new THEN 1 ELSE @.spill]]
                /\ blocks' = Heap(Owned(b), At(id, [text |-> <<>>, cap |-> new]))
  <2> DEFINE id == Fresh(1)[1]
             spill == IF size > new THEN 1 ELSE buf[b].spill
             r == [at |-> id, text |-> kept \o text, max |-> new, spill |-> spill]
  <2>1. id \in Ids \ Live
    BY <1>2, FreshIsFresh
  <2>2. buf' = [buf EXCEPT ![b] = r] /\ blocks' = Heap(Owned(b), At(id, [text |-> <<>>, cap |-> new]))
    BY <1>2
  <2>3. Formed(r) /\ r.at = id
    BY DEF Formed
  <2>4. Live' = (Live \ Owned(b)) \cup {id}
    <3>1. Live' = (Live \ Owned(b)) \cup DOMAIN At(id, [text |-> <<>>, cap |-> new])
      BY <2>2, LiveNext
    <3> QED BY <3>1, DomainOfAt
  <2> HIDE DEF id, r
  <2>5. {id} \in SUBSET Ids /\ {id} = {r.at} \ {Internal} /\ {id} \cap (Live \ Owned(b)) = {}
    BY <2>1, <2>3, HeapAssumption
  <2> QED BY <1>0, <2>2, <2>3, <2>4, <2>5, OneBufferOwns
<1> QED BY <1>1, <1>2 DEF Write, new, size

LEMMA ClearOwns ==
  ASSUME OwnInv, NEW b \in Buffers, Clear(b) PROVE OwnInv'
<1> DEFINE r == [buf[b] EXCEPT !.text = <<>>, !.max = InternalSize]
<1>1. Formed(r) /\ r.at = buf[b].at
  <2>1. Formed(buf[b])
    BY EveryBuffer
  <2> DEFINE q == buf[b]
  <2> HIDE DEF q
  <2>2. Formed(q)
    BY <2>1 DEF q
  <2>3. Formed([q EXCEPT !.text = <<>>, !.max = InternalSize]) /\ [q EXCEPT !.text = <<>>, !.max = InternalSize].at = q.at
    BY <2>2 DEF Formed
  <2> QED BY <2>3 DEF q
<1>2. buf' = [buf EXCEPT ![b] = r] /\ vec' = vec /\ failed' = failed /\ Live' = Live
  BY EveryBuffer DEF Clear, Live
<1> HIDE DEF r
<1> QED BY <1>1, <1>2, SameBlock

LEMMA DeleteLastCharOwns ==
  ASSUME OwnInv, NEW b \in Buffers, DeleteLastChar(b) PROVE OwnInv'
<1> DEFINE r == [buf[b] EXCEPT !.text = SubSeq(@, 1, Len(@) - 1)]
<1>1. Formed(r) /\ r.at = buf[b].at
  <2>1. Formed(buf[b])
    BY EveryBuffer
  <2> DEFINE q == buf[b]
             x == SubSeq(q.text, 1, Len(q.text) - 1)
  <2>2. r = [q EXCEPT !.text = x]
    OBVIOUS
  <2> HIDE DEF q, x, r
  <2>3. Formed([q EXCEPT !.text = x]) /\ [q EXCEPT !.text = x].at = q.at
    <3>1. Formed(q)
      BY <2>1 DEF q
    <3> QED BY <3>1 DEF Formed
  <2> QED BY <2>2, <2>3 DEF q
<1>2. buf' = [buf EXCEPT ![b] = r] /\ vec' = vec /\ failed' = failed /\ Live' = Live
  BY EveryBuffer DEF DeleteLastChar, Live
<1> HIDE DEF r
<1> QED BY <1>1, <1>2, SameBlock

LEMMA RebuildOwns ==
  ASSUME OwnInv, NEW b \in Buffers, Rebuild(b) PROVE OwnInv'
<1> DEFINE r == [EmptyBuffer EXCEPT !.spill = buf[b].spill]
<1>1. Formed(r) /\ r.at = Internal
  BY ResetFormed
<1>2. buf' = [buf EXCEPT ![b] = r] /\ vec' = vec /\ failed' = FALSE
  BY EveryBuffer DEF Rebuild
<1>3. Live' = Live \ Owned(b)
  <2>1. Live' = (Live \ Owned(b)) \cup DOMAIN None
    BY LiveNext DEF Rebuild
  <2> QED BY <2>1, DomainOfNone
<1> HIDE DEF r
<1>4. {} \in SUBSET Ids /\ {} = {r.at} \ {Internal} /\ {} \cap (Live \ Owned(b)) = {} /\ Live' = (Live \ Owned(b)) \cup {}
  BY <1>1, <1>3
<1> QED BY <1>1, <1>2, <1>4, OneBufferOwns

LEMMA TakeOwnershipOwns ==
  ASSUME OwnInv, NEW b \in Buffers, NEW o \in Buffers, TakeOwnership(b, o) PROVE OwnInv'
<1> DEFINE z == [EmptyBuffer EXCEPT !.spill = buf[o].spill]
<1>0. b # o /\ vec' = vec /\ failed' = FALSE /\ Formed(buf[b]) /\ Formed(buf[o])
  BY EveryBuffer DEF TakeOwnership
<1>1. Formed(z) /\ z.at = Internal
  BY ResetFormed
<1> DEFINE elements == [v \in Vectors |-> Elements(vec[v])]
           owned == [c \in Buffers |-> Owned(c)]
           next == [c \in Buffers |-> Owned(c)']
<1>2. Partition(elements, owned, Live)
  BY PartitionNow
<1>3. ASSUME NEW r, Formed(r), buf' = [buf EXCEPT ![b] = r, ![o] = z], Partition(elements, next, Live') PROVE OwnInv'
  <2> HIDE DEF z, elements, next
  <2>1. \A c \in Buffers : buf'[c] = IF c = o THEN z ELSE IF c = b THEN r ELSE buf[c]
    BY <1>3, EveryBuffer
  <2>2. buf' = [c \in Buffers |-> buf'[c]] /\ \A c \in Buffers : Formed(buf'[c])
    BY <1>1, <1>3, <2>1, EveryBuffer
  <2>3. Inv' /\ \A v \in Vectors : Shaped(vec'[v]) /\ Distinct(vec'[v]) /\ vec'[v].size <= MaxLength
    BY <1>0 DEF OwnInv, Inv
  <2>4. elements = [v \in Vectors |-> Elements(vec'[v])]
    BY <1>0 DEF elements
  <2> QED BY <1>0, <1>3, <2>2, <2>3, <2>4, PartitionNext DEF next
<1>4. CASE /\ buf[o].at = Internal
           /\ buf' = [buf EXCEPT ![b].text = buf[o].text,
                                 ![b].spill = IF Len(buf[o].text) + 1 > Capacity(b) THEN 1 ELSE @,
                                 ![o] = z]
           /\ UNCHANGED blocks
  <2> DEFINE spill == IF Len(buf[o].text) + 1 > Capacity(b) THEN 1 ELSE buf[b].spill
             r == [buf[b] EXCEPT !.text = buf[o].text, !.spill = spill]
  <2>1. Formed(r) /\ r.at = buf[b].at
    <3> DEFINE q == buf[b]
               x == buf[o].text
    <3> HIDE DEF q, x, spill
    <3>1. Formed([q EXCEPT !.text = x, !.spill = spill]) /\ [q EXCEPT !.text = x, !.spill = spill].at = q.at
      <4>1. Formed(q)
        BY <1>0 DEF q
      <4> QED BY <4>1 DEF Formed
    <3> QED BY <3>1 DEF q, x
  <2>2. buf' = [buf EXCEPT ![b] = r, ![o] = z]
    <3> HIDE DEF z
    <3> QED BY <1>0, <1>4, EveryBuffer
  <2> HIDE DEF r, z
  <2>3. \A c \in Buffers : buf'[c].at = buf[c].at
    BY <1>1, <1>4, <2>1, <2>2, EveryBuffer
  <2>4. next = owned /\ Live' = Live
    BY <1>4, <2>3 DEF Owned, Live
  <2> HIDE DEF elements, owned, next
  <2> QED BY <1>2, <1>3, <2>1, <2>2, <2>4
<1>5. CASE /\ buf[o].at # Internal
           /\ buf' = [buf EXCEPT ![b] = [buf[o] EXCEPT !.spill = @ + buf[b].spill], ![o] = z]
           /\ blocks' = Heap(Owned(b), None)
  <2> DEFINE spill == buf[o].spill + buf[b].spill
             r == [buf[o] EXCEPT !.spill = spill]
             without == [c \in Buffers |-> IF c = o THEN {} ELSE owned[c]]
  <2>1. Formed(r) /\ r.at = buf[o].at
    <3> HIDE DEF spill
    <3> QED BY <1>0 DEF Formed
  <2>2. buf' = [buf EXCEPT ![b] = r, ![o] = z]
    BY <1>5
  <2> HIDE DEF r, z
  <2>3. \A c \in Buffers : buf'[c].at = IF c = o THEN Internal ELSE IF c = b THEN buf[o].at ELSE buf[c].at
    BY <1>1, <2>1, <2>2, EveryBuffer
  <2>4. Live' = Live \ Owned(b)
    <3>1. Live' = (Live \ Owned(b)) \cup DOMAIN None
      BY <1>5, LiveNext
    <3> QED BY <3>1, DomainOfNone
  <2>5. \A c \in Buffers : next[c] = IF c = b THEN owned[o] ELSE without[c]
    BY <1>0, <2>3 DEF Owned
  <2>6. /\ \A c \in Buffers : without[c] = IF c = o THEN {} ELSE owned[c]
        /\ owned[b] = Owned(b) /\ without[b] = owned[b]
    BY <1>0
  <2>7. owned[o] \subseteq Live /\ owned[b] \subseteq Live /\ Live \subseteq Ids /\ owned[o] \cap owned[b] = {}
    BY <1>0, <1>2 DEF Partition
  <2> HIDE DEF elements, owned, next, without
  <2>8. Partition(elements, without, Live \ owned[o])
    <3>1. Live \ owned[o] = (Live \ owned[o]) \cup {} /\ {} \in SUBSET Ids /\ {} \cap (Live \ owned[o]) = {}
      OBVIOUS
    <3> QED BY <1>2, <2>6, <3>1, PartitionBuffer
  <2>9. Partition(elements, next, Live')
    <3>1. /\ owned[o] \in SUBSET Ids /\ owned[o] \cap ((Live \ owned[o]) \ without[b]) = {}
          /\ Live' = ((Live \ owned[o]) \ without[b]) \cup owned[o]
      BY <2>4, <2>6, <2>7
    <3> QED BY <2>5, <2>8, <3>1, PartitionBuffer
  <2> QED BY <1>3, <2>1, <2>2, <2>9
<1> QED BY <1>4, <1>5 DEF TakeOwnership

LEMMA AddBufferOwns ==
  ASSUME OwnInv, NEW v \in Vectors, NEW b \in Buffers, AddBuffer(v, b) PROVE OwnInv'
<1> DEFINE z == [EmptyBuffer EXCEPT !.spill = buf[b].spill]
<1>0. vec[v].size < MaxLength /\ buf' = [buf EXCEPT ![b] = z] /\ failed' = FALSE
  BY EveryBuffer DEF AddBuffer
<1>1. Formed(z) /\ z.at = Internal
  BY ResetFormed
<1> HIDE DEF z
<1>2. /\ buf' = [c \in Buffers |-> buf'[c]] /\ \A c \in Buffers : Formed(buf'[c])
      /\ \A c \in Buffers : buf'[c].at = IF c = b THEN Internal ELSE buf[c].at
  BY <1>0, <1>1, EveryBuffer
<1>3. CASE /\ buf[b].at = Internal /\ MayAllocate(1)
           /\ \E id \in {Fresh(1)[1]} :
                /\ vec' = [vec EXCEPT ![v] = Push(@, id)]
                /\ blocks' = Heap({}, At(id, Exact(buf[b].text)))
  <2>1. \A c \in Buffers : Formed(buf'[c]) /\ Owned(c)' = Owned(c)
    BY <1>2, <1>3 DEF Owned
  <2>2. /\ vec' = [vec EXCEPT ![v] = Push(@, Fresh(1)[1])]
        /\ blocks' = Heap({}, At(Fresh(1)[1], Exact(buf[b].text)))
    BY <1>3
  <2> QED BY <1>0, <1>2, <1>3, <2>1, <2>2, PushOwned
<1>4. CASE /\ buf[b].at # Internal
           /\ vec' = [vec EXCEPT ![v] = Push(@, buf[b].at)]
           /\ blocks' = [blocks EXCEPT ![buf[b].at].text = buf[b].text]
  <2> DEFINE id == buf[b].at
             u == vec[v]
             w == Push(u, id)
             f == [i \in 1..1 |-> id]
             elements == [x \in Vectors |-> Elements(vec[x])]
             owned == [c \in Buffers |-> Owned(c)]
             without == [c \in Buffers |-> IF c = b THEN {} ELSE owned[c]]
             next == [x \in Vectors |-> Elements(vec'[x])]
  <2>1. /\ Shaped(u) /\ Distinct(u) /\ u.size \in Nat /\ Elements(u) \subseteq Live /\ Live \subseteq Ids
        /\ vec = [x \in Vectors |-> vec[x]]
    BY EveryVector
  <2>2. Owned(b) = {id} /\ id \in Live /\ id \notin Elements(u)
    <3>1. Owned(b) = {id}
      BY <1>4 DEF Owned
    <3> QED BY <3>1 DEF OwnInv
  <2>3. vec' = [vec EXCEPT ![v] = w]
    BY <1>4
  <2>4. Live' = Live
    BY <1>4 DEF Live
  <2>5. \A c \in Buffers : without[c] = (IF c = b THEN {} ELSE owned[c]) /\ Owned(c)' = without[c]
    BY <1>2 DEF Owned
  <2>6. owned[b] = {id} /\ elements[v] = Elements(u)
    BY <2>2
  <2> HIDE DEF id, u
  <2>7. /\ Shaped(w) /\ w.size = u.size + 1
        /\ \A i \in 0..(u.size - 1) : w.cells[i] = u.cells[i]
        /\ w.cells[u.size] = id
    BY <2>1, PushCells
  <2> HIDE DEF w
  <2>8. \A i \in 1..1 : w.cells[u.size + i - 1] = f[i] /\ f[i] \notin Elements(u)
    BY <2>1, <2>2, <2>7
  <2>9. (\A i, j \in 1..1 : f[i] = f[j] => i = j) /\ {f[i] : i \in 1..1} = {id}
    OBVIOUS
  <2> HIDE DEF f
  <2>10. Distinct(w) /\ Elements(w) = Elements(u) \cup {id}
    BY <2>1, <2>7, <2>8, <2>9, AppendedCells
  <2>11. \A x \in Vectors : vec'[x] = IF x = v THEN w ELSE vec[x]
    BY <2>1, <2>3
  <2>12. \A x \in Vectors : next[x] = IF x = v THEN Elements(w) ELSE elements[x]
    BY <2>11
  <2>13. Partition(elements, owned, Live)
    BY PartitionNow
  <2> HIDE DEF elements, owned, without, next
  <2>14. Partition(elements, without, Live \ {id})
    <3>1. Live \ {id} = (Live \ owned[b]) \cup {} /\ {} \in SUBSET Ids /\ {} \cap (Live \ owned[b]) = {}
      BY <2>6
    <3> QED BY <2>5, <2>13, <3>1, PartitionBuffer
  <2>15. Partition(next, without, Live')
    <3>1. /\ Elements(w) \in SUBSET Ids /\ Elements(w) \cap ((Live \ {id}) \ elements[v]) = {}
          /\ Live' = ((Live \ {id}) \ elements[v]) \cup Elements(w)
      BY <2>1, <2>2, <2>4, <2>6, <2>10
    <3> QED BY <2>12, <2>14, <3>1, PartitionVector
  <2>16. without = [c \in Buffers |-> Owned(c)']
    BY <2>5 DEF without
  <2>17. Inv' /\ \A x \in Vectors : Shaped(vec'[x]) /\ Distinct(vec'[x]) /\ vec'[x].size <= MaxLength
    <3>1. Sound(w)
      BY <2>7 DEF Shaped
    <3>2. w.size <= MaxLength
      BY <1>0, <2>1, <2>7, SizesAssumption DEF u
    <3>3. \A x \in Vectors : Shaped(vec[x]) /\ Distinct(vec[x]) /\ vec[x].size <= MaxLength
      BY EveryVector
    <3> QED BY <2>3, <2>7, <2>10, <2>11, <3>1, <3>2, <3>3, OneVector DEF OwnInv
  <2> QED BY <1>0, <1>2, <2>15, <2>16, <2>17, PartitionNext DEF next
<1> QED BY <1>3, <1>4 DEF AddBuffer

(***************************************************************************)
(* Every step                                                              *)
(***************************************************************************)
LEMMA StepOwns == OwnInv /\ (Step \/ UNCHANGED vars) => OwnInv'
<1> SUFFICES ASSUME OwnInv, Step \/ UNCHANGED vars PROVE OwnInv'
  OBVIOUS
<1>1. ASSUME NEW v \in Vectors, VectorStep(v) PROVE OwnInv'
  <2>1. CASE \E n \in Capacities : Construct(v, n) \/ Reserve(v, n)
    BY <2>1, ConstructOwns, ReserveOwns
  <2>2. CASE \E o \in Vectors : CopyConstruct(v, o) \/ Assign(v, o) \/ AddVector(v, o) \/ AddVectorWithOwnership(v, o)
    BY <2>2, CopyConstructOwns, AssignOwns, AddVectorOwns, AddVectorWithOwnershipOwns
  <2>3. CASE \E text \in Texts : Add(v, text)
    BY <2>3, AddOwns
  <2>4. CASE \E text \in Texts : \E i \in 0..(MaxLength - 1) : Replace(v, i, text)
    <3>1. \A i \in 0..(MaxLength - 1) : i \in Nat
      BY SizesAssumption
    <3> QED BY <2>4, <3>1, ReplaceOwns
  <2>5. CASE Sort(v) \/ RemoveAll(v) \/ RemoveLast(v)
    BY <2>5, SortOwns, RemoveAllOwns, RemoveLastOwns
  <2> QED BY <1>1, <2>1, <2>2, <2>3, <2>4, <2>5 DEF VectorStep
<1>2. ASSUME NEW b \in Buffers, BufferStep(b) PROVE OwnInv'
  <2>1. CASE \E text \in Texts : AppendText(b, text) \/ SetText(b, text)
    BY <2>1, WriteOwns DEF AppendText, SetText
  <2>2. CASE \E o \in Buffers : TakeOwnership(b, o)
    BY <2>2, TakeOwnershipOwns
  <2>3. CASE \E v \in Vectors : AddBuffer(v, b)
    BY <2>3, AddBufferOwns
  <2>4. CASE Clear(b) \/ DeleteLastChar(b) \/ Rebuild(b)
    BY <2>4, ClearOwns, DeleteLastCharOwns, RebuildOwns
  <2> QED BY <1>2, <2>1, <2>2, <2>3, <2>4 DEF BufferStep
<1>3. CASE UNCHANGED vars
  <2>1. vec' = vec /\ buf' = buf /\ blocks' = blocks /\ failed' = failed
    BY <1>3 DEF vars
  <2>2. Live' = Live /\ \A b \in Buffers : Owned(b)' = Owned(b)
    BY <2>1 DEF Live, Owned
  <2> QED BY <2>1, <2>2 DEF OwnInv, Inv
<1> QED BY <1>1, <1>2, <1>3 DEF Step

\* The owners are the cells below the sizes, and what they own is what the vectors hold.
LEMMA OwnersHold ==
  ASSUME OwnInv
  PROVE  /\ \A o \in Owners : /\ o[1] \in Vectors /\ o[2] \in 0..(vec[o[1]].size - 1)
                              /\ OwnerBlock(o) \in Elements(vec[o[1]]) /\ OwnerBlock(o) # Null
         /\ \A o, p \in Owners : OwnerBlock(o) = OwnerBlock(p) => o = p
         /\ \A v \in Vectors : \A x \in Elements(vec[v]) : \E o \in Owners : o[1] = v /\ x = OwnerBlock(o)
<1>1. ASSUME NEW o \in Owners
      PROVE  /\ o[1] \in Vectors /\ o[2] \in 0..(vec[o[1]].size - 1)
             /\ OwnerBlock(o) \in Elements(vec[o[1]]) /\ OwnerBlock(o) # Null
  <2>1. o[1] \in Vectors /\ o[2] \in 0..MaxLength /\ o[2] < vec[o[1]].size
    BY DEF Owners
  <2>2. o[2] \in 0..(vec[o[1]].size - 1)
    <3>1. vec[o[1]].size \in Nat
      BY <2>1, EveryVector
    <3> QED BY <2>1, <3>1, SizesAssumption
  <2>3. OwnerBlock(o) \in Elements(vec[o[1]])
    BY <2>1, <2>2 DEF OwnerBlock, Elements
  <2>4. Elements(vec[o[1]]) \subseteq Ids
    BY <2>1, EveryVector
  <2> QED BY <2>1, <2>2, <2>3, <2>4, HeapAssumption
<1>2. ASSUME NEW o \in Owners, NEW p \in Owners, OwnerBlock(o) = OwnerBlock(p) PROVE o = p
  <2>1. o[1] = p[1]
    BY <1>1, <1>2 DEF OwnInv
  <2>2. Distinct(vec[o[1]])
    BY <1>1, EveryVector
  <2>3. o[2] = p[2]
    BY <1>1, <1>2, <2>1, <2>2 DEF Distinct, OwnerBlock
  <2>4. o \in Vectors \X (0..MaxLength) /\ p \in Vectors \X (0..MaxLength)
    BY DEF Owners
  <2> QED BY <2>1, <2>3, <2>4
<1>3. ASSUME NEW v \in Vectors, NEW x \in Elements(vec[v]) PROVE \E o \in Owners : o[1] = v /\ x = OwnerBlock(o)
  <2>1. PICK i \in 0..(vec[v].size - 1) : x = vec[v].cells[i]
    BY DEF Elements
  <2>2. i \in 0..MaxLength /\ i < vec[v].size
    <3>1. vec[v].size \in Nat /\ vec[v].size <= MaxLength
      BY EveryVector
    <3> QED BY <3>1, SizesAssumption
  <2>3. <<v, i>> \in Owners /\ <<v, i>>[1] = v
    BY <2>2 DEF Owners
  <2>4. x = OwnerBlock(<<v, i>>)
    BY <2>1 DEF OwnerBlock
  <2> QED BY <2>3, <2>4
<1> QED BY <1>1, <1>2, <1>3

\* What the invariant says of the owners of a program that lives is what the property says.
LEMMA OwnInvOwnedOnce == OwnInv /\ ~died => OwnedOnce
<1> SUFFICES ASSUME OwnInv, ~died PROVE OwnedOnce
  OBVIOUS
<1>1. \A o \in Owners : o[1] \in Vectors /\ OwnerBlock(o) \in Elements(vec[o[1]]) /\ OwnerBlock(o) # Null
  BY OwnersHold
<1>2. \A o, p \in Owners : OwnerBlock(o) = OwnerBlock(p) => o = p
  BY OwnersHold
<1>3. \A v \in Vectors : \A x \in Elements(vec[v]) : \E o \in Owners : x = OwnerBlock(o)
  BY OwnersHold
<1>4. \A b, c \in Buffers : Owned(b) \cap Owned(c) # {} => b = c
  BY DEF OwnInv
<1> DEFINE held == {OwnerBlock(o) : o \in Owners} \ {Null}
           kept == UNION {Owned(b) : b \in Buffers}
<1>5. held \cap kept = {}
  BY <1>1 DEF OwnInv
<1>6. held \cup kept = Live
  <2>1. held \subseteq Live /\ kept \subseteq Live
    BY <1>1 DEF OwnInv
  <2>2. ASSUME NEW x \in Live PROVE x \in held \cup kept
    <3>1. x # Null
      BY HeapAssumption DEF OwnInv
    <3> QED BY <1>3, <3>1 DEF OwnInv
  <2> QED BY <2>1, <2>2
<1>7. ~failed
  BY DEF OwnInv
<1> QED BY <1>1, <1>2, <1>4, <1>5, <1>6, <1>7 DEF OwnedOnce

\* What is left of a vector that is assigned to itself: its cells are null and its
\* blocks deleted, each of them once.
LEMMA Death ==
  ASSUME OwnInv, NEW v \in Vectors, AssignToItself(v)
  PROVE  /\ vec[v].size \in Nat /\ vec[v].size > 0 /\ vec'[v].size = vec[v].size /\ vec'[v].max = vec[v].max
         /\ \A i \in 0..(vec[v].size - 1) : vec'[v].cells[i] = Null
         /\ \A u \in Vectors : u # v => vec'[u] = vec[u]
         /\ Live' = Live \ Elements(vec[v]) /\ blocks' = Heap(Elements(vec[v]), None)
         /\ failed' = FALSE /\ died' = TRUE /\ UNCHANGED buf
<1> DEFINE u == vec[v]
           g == [i \in 1..u.size |-> Null]
           w == Store(u, 0, u.size, g)
<1>1. /\ Shaped(u) /\ u.size \in Nat /\ u.max \in Nat /\ u.size <= u.max
      /\ failed = FALSE /\ Deletable(Elements(u))
  BY EveryVector
<1>2. /\ vec' = [vec EXCEPT ![v] = w] /\ blocks' = Heap(Elements(u), None)
      /\ failed' = FALSE /\ died' = TRUE /\ UNCHANGED buf /\ u.size > 0
  BY <1>1, EveryVector DEF AssignToItself
<1>3. /\ w.size = u.size /\ w.max = u.max
      /\ \A j \in 0..u.max : w.cells[j] = IF j \in 0..(0 + u.size - 1) THEN g[j - 0 + 1] ELSE u.cells[j]
  <2>1. 0 + u.size <= u.max
    BY <1>1
  <2> HIDE DEF g, u
  <2> QED BY <1>1, <2>1, StoreCells
<1>4. \A i \in 0..(u.size - 1) : w.cells[i] = Null
  <2> TAKE i \in 0..(u.size - 1)
  <2>1. i \in 0..u.max /\ i \in 0..(0 + u.size - 1) /\ i - 0 + 1 \in 1..u.size
    BY <1>1
  <2>2. g[i - 0 + 1] = Null
    BY <2>1
  <2> HIDE DEF g, u, w
  <2> QED BY <1>3, <2>1, <2>2
<1>5. Live' = Live \ Elements(u)
  <2>1. Live' = (Live \ Elements(u)) \cup DOMAIN None
    BY <1>2, LiveNext
  <2> QED BY <2>1, DomainOfNone
<1>6. vec'[v] = w /\ \A x \in Vectors : x # v => vec'[x] = vec[x]
  BY <1>2, EveryVector
<1> HIDE DEF w
<1> QED BY <1>1, <1>2, <1>3, <1>4, <1>5, <1>6

\* Nothing but that vector loses what it owns.
LEMMA DeathOwns ==
  ASSUME OwnInv, NEW v \in Vectors, AssignToItself(v) PROVE OwnedOnce'
<1>0. Owners' = Owners
  <2>1. \A u \in Vectors : vec'[u].size = vec[u].size
    BY Death
  <2> QED BY <2>1 DEF Owners
<1>1. ASSUME NEW o \in Owners
      PROVE  /\ o[1] \in Vectors
             /\ o[1] = v => OwnerBlock(o)' = Null
             /\ o[1] # v => /\ OwnerBlock(o)' = OwnerBlock(o) /\ OwnerBlock(o) # Null
                            /\ OwnerBlock(o) \in Elements(vec[o[1]])
  <2>1. o[1] \in Vectors /\ o[2] \in 0..(vec[o[1]].size - 1)
        /\ OwnerBlock(o) \in Elements(vec[o[1]]) /\ OwnerBlock(o) # Null
    BY OwnersHold
  <2>2. OwnerBlock(o)' = vec'[o[1]].cells[o[2]] /\ OwnerBlock(o) = vec[o[1]].cells[o[2]]
    BY DEF OwnerBlock
  <2> QED BY <2>1, <2>2, Death
<1>2. \A o, p \in Owners : OwnerBlock(o)' = OwnerBlock(p)' => (o = p \/ OwnerBlock(o)' = Null)
  BY <1>1, OwnersHold
<1>3. \A b \in Buffers : Owned(b)' = Owned(b)
  BY Death DEF Owned
<1>4. \A b, c \in Buffers : Owned(b)' \cap Owned(c)' # {} => b = c
  BY <1>3 DEF OwnInv
<1> DEFINE held == {OwnerBlock(o)' : o \in Owners} \ {Null}
           kept == UNION {Owned(b) : b \in Buffers}
<1>5. \A x : x \in held <=> \E o \in Owners : o[1] # v /\ x = OwnerBlock(o)
  BY <1>1
<1>6. \A x \in kept : x \in Live /\ \A u \in Vectors : x \notin Elements(vec[u])
  BY DEF OwnInv
<1>7. \A x \in held : /\ x \in Live /\ x \notin Elements(vec[v])
                      /\ \E u \in Vectors : x \in Elements(vec[u])
  BY <1>1, <1>5 DEF OwnInv
<1>8. \A x \in Live : x \notin Elements(vec[v]) => x \in held \cup kept
  <2> SUFFICES ASSUME NEW x \in Live, x \notin Elements(vec[v]), x \notin kept PROVE x \in held
    OBVIOUS
  <2>1. PICK u \in Vectors : x \in Elements(vec[u])
    BY DEF OwnInv
  <2>2. PICK o \in Owners : o[1] = u /\ x = OwnerBlock(o)
    BY <2>1, OwnersHold
  <2> QED BY <1>5, <2>1, <2>2
<1>9. held \cap kept = {} /\ held \cup kept = Live'
  <2>1. Live' = Live \ Elements(vec[v])
    BY Death
  <2> HIDE DEF held, kept
  <2> QED BY <1>6, <1>7, <1>8, <2>1
<1>10. held = ({OwnerBlock(o) : o \in Owners} \ {Null})' /\ kept = (UNION {Owned(b) : b \in Buffers})'
  BY <1>0, <1>3
<1>11. vec'[v].size > 0 /\ \A o \in Owners : (o[1] = v) = (OwnerBlock(o)' = Null)
  BY <1>1, Death
<1>12. died' = TRUE /\ ~failed'
  BY Death
<1> HIDE DEF held, kept
<1> QED BY <1>0, <1>2, <1>4, <1>9, <1>10, <1>11, <1>12 DEF OwnedOnce

\* A program that has died does nothing any more.
OwnAlive == IF died THEN OwnedOnce ELSE OwnInv

\* Every live block has exactly one owner after any sequence of operations, and
\* no operation deletes a dead pointer or leaves a null one for a string, but the
\* assignment of a vector to itself, which nulls the cells of that vector after it
\* deleted their blocks and of which the program dies.
THEOREM SpecOwnedOnce == Spec => []OwnedOnce
<1>1. Init => OwnAlive
  BY InitOwns DEF OwnAlive, Init
<1>2. OwnAlive /\ [Next]_vars => OwnAlive'
  <2> SUFFICES ASSUME OwnAlive, [Next]_vars PROVE OwnAlive'
    OBVIOUS
  <2>1. CASE UNCHANGED vars
    <3>1. OwnedOnce => OwnedOnce'
      BY <2>1 DEF vars, OwnedOnce, Owners, OwnerBlock, Owned, Live
    <3>2. OwnInv => OwnInv'
      BY <2>1, StepOwns
    <3> QED BY <2>1, <3>1, <3>2 DEF OwnAlive, vars
  <2>2. CASE Step /\ UNCHANGED died /\ ~died
    BY <2>2, StepOwns DEF OwnAlive
  <2>3. ASSUME NEW v \in Vectors, AssignToItself(v), ~died PROVE OwnAlive'
    BY <2>3, DeathOwns, Death DEF OwnAlive
  <2> QED BY <2>1, <2>2, <2>3 DEF Next
<1>3. OwnAlive => OwnedOnce
  BY OwnInvOwnedOnce DEF OwnAlive
<1> QED BY <1>1, <1>2, <1>3, PTL DEF Spec

-----------------------------------------------------------------------------
(* types *)

\* A vector whose array holds nothing but blocks, nulls and garbage.
Typed(v) == v.cells \in [0..v.max -> Cells]

\* A buffer whose text fits in what it takes for its capacity, which is not more
\* than the memory it really has.
BufferOK(b) ==
  /\ buf[b] \in [at : Ids \cup {Internal}, text : Seq(Nat), max : Nat, spill : {0}]
  /\ InternalSize <= buf[b].max /\ buf[b].max <= Capacity(b) /\ Len(buf[b].text) < buf[b].max

TypeInv ==
  /\ OwnInv
  /\ \A v \in Vectors : Typed(vec[v])
  /\ \A b \in Buffers : BufferOK(b)
  /\ blocks \in [Live -> Block]

(***************************************************************************)
(* The cells of one vector                                                 *)
(***************************************************************************)
LEMMA EmptyTyped == ASSUME NEW n \in Nat PROVE Typed(Empty(n))
  BY DEF Typed, Empty, Cells

LEMMA EnsureCapacityTyped ==
  ASSUME NEW v, Shaped(v), Typed(v), NEW n \in Nat PROVE Typed(EnsureCapacity(v, n))
<1>1. CASE n <= v.max
  BY <1>1 DEF EnsureCapacity
<1>2. CASE ~(n <= v.max)
  <2> DEFINE c == [i \in 0..n |-> IF i < v.size THEN v.cells[i] ELSE IF i = v.size + 1 THEN Null ELSE Junk]
             w == EnsureCapacity(v, n)
  <2>1. w.cells = c /\ w.max = n
    BY <1>2 DEF EnsureCapacity
  <2>2. v.size \in Nat /\ v.size <= v.max /\ v.max \in Nat
    BY DEF Shaped, Sound
  <2>3. \A i \in 0..n : i < v.size => v.cells[i] \in Cells
    BY <2>2 DEF Typed
  <2>4. c \in [0..n -> Cells]
    BY <2>3 DEF Cells
  <2> HIDE DEF c, w
  <2>5. Typed(w)
    BY <2>1, <2>4 DEF Typed
  <2> QED BY <2>5 DEF w
<1> QED BY <1>1, <1>2

LEMMA PutTyped ==
  ASSUME NEW v, Shaped(v), Typed(v), NEW i \in Nat, i <= v.max, NEW x \in Cells PROVE Typed(Put(v, i, x))
<1> DEFINE w == Put(v, i, x)
           c == [v.cells EXCEPT ![i] = x]
<1>1. w.max = v.max
  BY PutSound DEF Shaped
<1>2. w.cells = c
  BY DEF Put, Shaped, Sound
<1>3. c \in [0..v.max -> Cells]
  BY DEF Typed
<1> HIDE DEF w, c
<1>4. Typed(w)
  BY <1>1, <1>2, <1>3 DEF Typed
<1> QED BY <1>4 DEF w

LEMMA StoreTyped ==
  ASSUME NEW v, Shaped(v), Typed(v), NEW from \in Nat, NEW n \in Nat, from + n <= v.max,
         NEW f, \A i \in 1..n : f[i] \in Cells
  PROVE  Typed(Store(v, from, n, f))
<1> DEFINE w == Store(v, from, n, f)
<1>1. Shaped(w) /\ w.max = v.max
  <2>1. Shaped(w)
    BY StoreCells
  <2>2. w.max = v.max
    BY StoreCells
  <2> HIDE DEF w
  <2> QED BY <2>1, <2>2
<1>2. \A j \in 0..v.max : w.cells[j] = IF j \in from..(from + n - 1) THEN f[j - from + 1] ELSE v.cells[j]
  BY StoreCells
<1> HIDE DEF w
<1>3. \A j \in 0..v.max : w.cells[j] \in Cells
  <2> TAKE j \in 0..v.max
  <2>1. CASE j \in from..(from + n - 1)
    <3>1. j - from + 1 \in 1..n
      BY <2>1
    <3> QED BY <1>2, <2>1, <3>1
  <2>2. CASE j \notin from..(from + n - 1)
    BY <1>2, <2>2 DEF Typed
  <2> QED BY <2>1, <2>2
<1>4. w.cells = [j \in 0..v.max |-> w.cells[j]]
  BY <1>1 DEF Shaped
<1>5. w.cells \in [0..v.max -> Cells]
  BY <1>3, <1>4
<1>6. Typed(w)
  BY <1>1, <1>5 DEF Typed
<1> QED BY <1>6 DEF w

LEMMA ResizeTyped ==
  ASSUME NEW v, Shaped(v), Typed(v), NEW n \in Nat, n <= v.max PROVE Typed([v EXCEPT !.size = n])
<1>1. [v EXCEPT !.size = n].max = v.max /\ [v EXCEPT !.size = n].cells = v.cells
  BY ResizeCells
<1> QED BY <1>1 DEF Typed

LEMMA FillTyped ==
  ASSUME NEW v, Shaped(v), Typed(v), NEW from \in Nat, NEW n \in Nat, NEW f, \A i \in 1..n : f[i] \in Cells,
         NEW t \in Nat, from + n <= v.max, t <= v.max
  PROVE  Typed(Put([Store(v, from, n, f) EXCEPT !.size = from + n], t, Null))
<1> DEFINE s == Store(v, from, n, f)
           r == [s EXCEPT !.size = from + n]
<1>1. Shaped(s) /\ Typed(s) /\ s.max = v.max
  BY StoreCells, StoreTyped
<1> HIDE DEF s
<1>2. Shaped(r) /\ Typed(r) /\ r.max = v.max
  <2>1. from + n \in Nat /\ from + n <= s.max
    BY <1>1
  <2> QED BY <1>1, <2>1, ResizeCells, ResizeTyped
<1> HIDE DEF r
<1>3. Typed(Put(r, t, Null))
  <2>1. Null \in Cells
    BY DEF Cells
  <2> QED BY <1>2, <2>1, PutTyped
<1> QED BY <1>3 DEF r, s

LEMMA PushTyped ==
  ASSUME NEW v, Shaped(v), Typed(v), NEW id \in Cells PROVE Typed(Push(v, id))
<1> DEFINE w == IF v.size = v.max THEN EnsureCapacity(v, v.max * 2) ELSE v
           p == Put(w, w.size, id)
           q == Put(p, w.size + 1, Null)
           r == [q EXCEPT !.size = q.size + 1]
<1>0. v.size \in Nat /\ v.max \in Nat \ {0} /\ v.size <= v.max /\ v.max * 2 \in Nat /\ v.max * 2 > v.max
  BY DEF Shaped, Sound
<1>1. Shaped(w) /\ Typed(w) /\ w.size = v.size /\ w.size < w.max /\ w.max \in Nat
  <2>1. CASE v.size = v.max
    <3> DEFINE e == EnsureCapacity(v, v.max * 2)
    <3>1. Shaped(e) /\ Typed(e) /\ e.size = v.size /\ e.max >= v.max * 2 /\ e.max \in Nat
      BY <1>0, EnsureCapacityCells, EnsureCapacityTyped
    <3>2. w = e
      BY <2>1
    <3> HIDE DEF e, w
    <3> QED BY <1>0, <3>1, <3>2
  <2>2. CASE v.size # v.max
    BY <1>0, <2>2
  <2> QED BY <2>1, <2>2
<1> HIDE DEF w
<1>2. Shaped(p) /\ Typed(p) /\ p.size = w.size /\ p.max = w.max
  BY <1>0, <1>1, PutCells, PutTyped
<1> HIDE DEF p
<1>3. Shaped(q) /\ Typed(q) /\ q.size = w.size /\ q.max = w.max
  <2>1. w.size + 1 \in Nat /\ w.size + 1 <= p.max /\ Null \in Cells
    BY <1>0, <1>1, <1>2 DEF Cells
  <2> QED BY <1>2, <2>1, PutCells, PutTyped
<1> HIDE DEF q
<1>4. Typed(r)
  <2>1. q.size + 1 \in Nat /\ q.size + 1 <= q.max
    BY <1>0, <1>1, <1>3
  <2> QED BY <1>3, <2>1, ResizeTyped
<1>5. Push(v, id) = r
  BY DEF Push, r, q, p, w
<1> HIDE DEF r
<1> QED BY <1>4, <1>5

LEMMA MakeRoomTyped ==
  ASSUME NEW v, Shaped(v), Typed(v), NEW n \in Nat PROVE Typed(MakeRoom(v, n))
<1>1. (v.size + n) * 2 \in Nat
  BY DEF Shaped, Sound
<1> QED BY <1>1, EnsureCapacityTyped DEF MakeRoom

(***************************************************************************)
(* What a step does to the types                                           *)
(***************************************************************************)
\* The heap after blocks are deleted and others allocated.
LEMMA HeapTyped ==
  ASSUME TypeInv, NEW dead, NEW born, born \in [DOMAIN born -> Block], blocks' = Heap(dead, born)
  PROVE  /\ blocks' \in [Live' -> Block]
         /\ \A id \in Live : id \notin dead /\ id \notin DOMAIN born => blocks'[id] = blocks[id]
<1>1. Heap(dead, born) \in [(Live \ dead) \cup DOMAIN born -> Block]
  BY DEF Heap, TypeInv
<1>2. Live' = (Live \ dead) \cup DOMAIN born
  BY LiveNext
<1>3. \A id \in Live : id \notin dead /\ id \notin DOMAIN born => blocks'[id] = blocks[id]
  BY DEF Heap
<1> QED BY <1>1, <1>2, <1>3

LEMMA NoneTyped == None \in [DOMAIN None -> Block]
  BY DEF None
LEMMA AtTyped == ASSUME NEW id, NEW block \in Block PROVE At(id, block) \in [DOMAIN At(id, block) -> Block]
  BY DEF At
LEMMA ExactTyped == ASSUME NEW text \in Seq(Nat) PROVE Exact(text) \in Block
<1>1. Len(text) + 1 \in Nat
  OBVIOUS
<1> QED BY <1>1 DEF Exact, Block

\* The copies of a vector's strings are as long as their texts.
LEMMA CopiesTyped ==
  ASSUME TypeInv, NEW o \in Vectors, NEW f
  PROVE  Copies(vec[o], f) \in [DOMAIN Copies(vec[o], f) -> Block]
<1> DEFINE n == vec[o].size
           D == {f[i] : i \in 1..n}
           g == [id \in D |-> Exact(Strings(vec[o])[CHOOSE i \in 1..n : f[i] = id])]
<1>0. Copies(vec[o], f) = g
  BY DEF Copies
<1>1. \A i \in 1..n : Strings(vec[o])[i] \in Seq(Nat)
  <2> TAKE i \in 1..n
  <2>1. Strings(vec[o])[i] = TextOf(vec[o].cells[i - 1])
    BY DEF Strings
  <2>2. \A id : TextOf(id) \in Seq(Nat)
    BY DEF TextOf, TypeInv, Block
  <2> QED BY <2>1, <2>2
<1>2. \A id \in D : g[id] \in Block
  <2> TAKE id \in D
  <2> DEFINE k == CHOOSE i \in 1..n : f[i] = id
  <2>1. k \in 1..n
    OBVIOUS
  <2>2. g[id] = Exact(Strings(vec[o])[k])
    OBVIOUS
  <2> HIDE DEF k, g, n
  <2> QED BY <1>1, <2>1, <2>2, ExactTyped
<1>3. g \in [D -> Block]
  <2>1. g = [id \in D |-> g[id]]
    OBVIOUS
  <2> HIDE DEF g, D
  <2> QED BY <1>2, <2>1
<1>4. DOMAIN g = D
  OBVIOUS
<1> HIDE DEF g, D
<1> QED BY <1>0, <1>3, <1>4

\* A buffer that a step leaves alone stays what it is when its block does.
LEMMA BufferKept ==
  ASSUME NEW b \in Buffers, BufferOK(b), buf'[b] = buf[b],
         buf[b].at = Internal \/ blocks'[buf[b].at] = blocks[buf[b].at]
  PROVE  BufferOK(b)'
<1>1. Capacity(b)' = Capacity(b)
  BY DEF Capacity
<1> QED BY <1>1 DEF BufferOK

\* An operation on one vector that deletes some of its blocks and allocates new.
LEMMA OneVectorTyped ==
  ASSUME TypeInv, OwnInv', NEW v \in Vectors, NEW w, Typed(w), vec' = [vec EXCEPT ![v] = w], UNCHANGED buf,
         NEW dead, NEW born, dead \subseteq Elements(vec[v]), DOMAIN born \cap Live = {},
         born \in [DOMAIN born -> Block], blocks' = Heap(dead, born)
  PROVE  TypeInv'
<1>1. /\ blocks' \in [Live' -> Block]
      /\ \A id \in Live : id \notin dead /\ id \notin DOMAIN born => blocks'[id] = blocks[id]
  BY HeapTyped
<1>2. \A b \in Buffers : buf[b].at = Internal \/ blocks'[buf[b].at] = blocks[buf[b].at]
  <2> SUFFICES ASSUME NEW b \in Buffers, buf[b].at # Internal PROVE blocks'[buf[b].at] = blocks[buf[b].at]
    OBVIOUS
  <2>1. buf[b].at \in Owned(b)
    BY DEF Owned
  <2>2. buf[b].at \in Live /\ buf[b].at \notin Elements(vec[v])
    BY <2>1 DEF TypeInv, OwnInv
  <2> QED BY <1>1, <2>2
<1>3. \A b \in Buffers : BufferOK(b)'
  BY <1>2, BufferKept DEF TypeInv
<1>4. \A u \in Vectors : vec'[u] = IF u = v THEN w ELSE vec[u]
  BY DEF TypeInv, OwnInv, Inv
<1> QED BY <1>1, <1>3, <1>4 DEF TypeInv

\* An operation that moves the cells of vectors and keeps heap and buffers.
LEMMA SameHeapTyped ==
  ASSUME TypeInv, OwnInv', \A v \in Vectors : Typed(vec'[v]), UNCHANGED <<buf, blocks>>
  PROVE  TypeInv'
<1>1. Live' = Live
  BY DEF Live
<1>2. \A b \in Buffers : BufferOK(b)'
  BY BufferKept DEF TypeInv
<1> QED BY <1>1, <1>2 DEF TypeInv

(***************************************************************************)
(* The operations of vectors                                               *)
(***************************************************************************)
LEMMA EveryTypedVector ==
  ASSUME TypeInv, NEW v \in Vectors
  PROVE  /\ OwnInv /\ Shaped(vec[v]) /\ Typed(vec[v])
         /\ vec[v].size \in Nat /\ vec[v].max \in Nat \ {0} /\ vec[v].size <= vec[v].max
         /\ vec = [u \in Vectors |-> vec[u]]
  BY EveryVector DEF TypeInv

\* The addresses the allocator returns are cells, and none of them is live.
LEMMA FreshTyped ==
  ASSUME TypeInv, NEW n \in Nat, MayAllocate(n)
  PROVE  \A i \in 1..n : Fresh(n)[i] \in Cells /\ Fresh(n)[i] \notin Live
  BY FreshIsFresh DEF Cells

LEMMA CopiesFresh ==
  ASSUME TypeInv, NEW o \in Vectors, MayAllocate(vec[o].size)
  PROVE  DOMAIN Copies(vec[o], Fresh(vec[o].size)) \cap Live = {}
<1> DEFINE n == vec[o].size
           f == Fresh(n)
<1>1. n \in Nat /\ MayAllocate(n)
  BY EveryTypedVector
<1>2. \A i \in 1..n : f[i] \notin Live
  <2> HIDE DEF n
  <2> QED BY <1>1, FreshTyped
<1>3. DOMAIN Copies(vec[o], f) = {f[i] : i \in 1..n}
  BY DEF Copies
<1> HIDE DEF f, n
<1>4. DOMAIN Copies(vec[o], f) \cap Live = {}
  BY <1>2, <1>3
<1> QED BY <1>4 DEF f, n

LEMMA ConstructTyped ==
  ASSUME TypeInv, OwnInv', NEW v \in Vectors, NEW n \in Capacities, Construct(v, n) PROVE TypeInv'
<1> DEFINE w == Empty(IF n = 0 THEN DefaultCapacity ELSE n)
<1>1. Typed(w)
  BY EmptyTyped, SizesAssumption
<1>2. vec' = [vec EXCEPT ![v] = w] /\ UNCHANGED buf /\ blocks' = Heap(Elements(vec[v]), None)
  BY DEF Construct
<1>3. DOMAIN None \cap Live = {}
  BY DomainOfNone
<1> HIDE DEF w
<1> QED BY <1>1, <1>2, <1>3, NoneTyped, OneVectorTyped

LEMMA ReserveTyped ==
  ASSUME TypeInv, OwnInv', NEW v \in Vectors, NEW n \in Capacities, Reserve(v, n) PROVE TypeInv'
<1>1. Typed(EnsureCapacity(vec[v], n))
  BY EveryTypedVector, EnsureCapacityTyped, SizesAssumption
<1>2. vec' = [vec EXCEPT ![v] = EnsureCapacity(vec[v], n)] /\ UNCHANGED <<buf, blocks>>
  BY DEF Reserve
<1>3. \A u \in Vectors : Typed(vec'[u])
  BY <1>1, <1>2, EveryTypedVector
<1> QED BY <1>2, <1>3, SameHeapTyped

LEMMA CopyConstructTyped ==
  ASSUME TypeInv, OwnInv', NEW v \in Vectors, NEW o \in Vectors, CopyConstruct(v, o) PROVE TypeInv'
<1> DEFINE n == vec[o].size
           f == Fresh(n)
           e == Empty(vec[o].max)
           w == Put([Store(e, 0, n, f) EXCEPT !.size = 0 + n], n, Null)
<1>0. n \in Nat /\ MayAllocate(n)
  BY EveryTypedVector DEF CopyConstruct
<1>1. 0 + n = n /\ vec[o].max \in Nat \ {0} /\ n <= vec[o].max
  <2>1. vec[o].max \in Nat \ {0} /\ n <= vec[o].max
    BY EveryTypedVector
  <2> HIDE DEF n
  <2> QED BY <1>0, <2>1
<1>2. Shaped(e) /\ Typed(e) /\ e.max = vec[o].max
  BY <1>1, EmptyShaped, EmptySound, EmptyTyped
<1>3. \A i \in 1..n : f[i] \in Cells
  <2> HIDE DEF n
  <2> QED BY <1>0, FreshTyped
<1>4. Typed(w)
  <2> HIDE DEF e, f, n
  <2>1. 0 + n <= e.max /\ n <= e.max
    BY <1>1, <1>2
  <2> QED BY <1>0, <1>2, <1>3, <2>1, FillTyped
<1>5. vec' = [vec EXCEPT ![v] = w] /\ blocks' = Heap(Elements(vec[v]), Copies(vec[o], f)) /\ UNCHANGED buf
  BY <1>1 DEF CopyConstruct
<1>6. DOMAIN Copies(vec[o], f) \cap Live = {} /\ Copies(vec[o], f) \in [DOMAIN Copies(vec[o], f) -> Block]
  BY <1>0, CopiesFresh, CopiesTyped
<1> HIDE DEF e, f, n, w
<1> QED BY <1>4, <1>5, <1>6, OneVectorTyped

LEMMA AssignTyped ==
  ASSUME TypeInv, OwnInv', NEW v \in Vectors, NEW o \in Vectors, Assign(v, o) PROVE TypeInv'
<1> DEFINE n == vec[o].size
           f == Fresh(n)
           x == EnsureCapacity(vec[v], n)
           g == [i \in 1..x.size |-> Null]
           z == Store(x, 0, x.size, g)
           y == Store(z, 0, n, f)
           w == [y EXCEPT !.size = n]
<1>0. n \in Nat /\ MayAllocate(n)
  BY EveryTypedVector DEF Assign
<1>1. Shaped(x) /\ Typed(x) /\ x.max >= n /\ x.max \in Nat
  BY <1>0, EveryTypedVector, EnsureCapacityCells, EnsureCapacityTyped
<1>2. \A i \in 1..n : f[i] \in Cells
  <2> HIDE DEF n
  <2> QED BY <1>0, FreshTyped
<1>3. \A i \in 1..x.size : g[i] \in Cells
  BY DEF Cells
<1>4. Shaped(z) /\ Typed(z) /\ z.max = x.max
  <2> HIDE DEF x, g
  <2>1. x.size \in Nat /\ 0 + x.size <= x.max
    BY <1>1 DEF Shaped, Sound
  <2> QED BY <1>1, <1>3, <2>1, StoreCells, StoreTyped
<1>5. Shaped(y) /\ Typed(y) /\ y.max = x.max
  <2> HIDE DEF z, f, n, x
  <2>1. 0 + n <= z.max
    BY <1>0, <1>1, <1>4
  <2>2. Shaped(y) /\ y.max = x.max
    BY <1>0, <1>4, <2>1, StoreCells
  <2>3. Typed(y)
    BY <1>0, <1>2, <1>4, <2>1, StoreTyped
  <2> QED BY <2>2, <2>3
<1>6. Typed(w)
  <2> HIDE DEF y, n, x
  <2> QED BY <1>0, <1>1, <1>5, ResizeTyped
<1>7. vec' = [vec EXCEPT ![v] = w] /\ blocks' = Heap(Elements(vec[v]), Copies(vec[o], f)) /\ UNCHANGED buf
  BY DEF Assign
<1>8. DOMAIN Copies(vec[o], f) \cap Live = {} /\ Copies(vec[o], f) \in [DOMAIN Copies(vec[o], f) -> Block]
  BY <1>0, CopiesFresh, CopiesTyped
<1> HIDE DEF f, n, w, x, y, z
<1> QED BY <1>6, <1>7, <1>8, OneVectorTyped

LEMMA AddTyped ==
  ASSUME TypeInv, OwnInv', NEW v \in Vectors, NEW text \in Seq(Nat), Add(v, text) PROVE TypeInv'
<1> DEFINE id == Fresh(1)[1]
<1>1. id \in Cells /\ id \notin Live
  BY FreshTyped DEF Add
<1>2. vec' = [vec EXCEPT ![v] = Push(vec[v], id)] /\ blocks' = Heap({}, At(id, Exact(text))) /\ UNCHANGED buf
  BY EveryTypedVector DEF Add
<1> HIDE DEF id
<1>3. Typed(Push(vec[v], id))
  BY <1>1, EveryTypedVector, PushTyped
<1>4. At(id, Exact(text)) \in [DOMAIN At(id, Exact(text)) -> Block] /\ DOMAIN At(id, Exact(text)) \cap Live = {}
  <2> DEFINE block == Exact(text)
  <2>1. block \in Block
    BY ExactTyped
  <2> HIDE DEF block
  <2>2. At(id, block) \in [DOMAIN At(id, block) -> Block] /\ DOMAIN At(id, block) = {id}
    BY <2>1, AtTyped, DomainOfAt
  <2> QED BY <1>1, <2>2 DEF block
<1>5. {} \subseteq Elements(vec[v])
  OBVIOUS
<1> QED BY <1>2, <1>3, <1>4, <1>5, OneVectorTyped

LEMMA AddVectorTyped ==
  ASSUME TypeInv, OwnInv', NEW v \in Vectors, NEW o \in Vectors, AddVector(v, o) PROVE TypeInv'
<1> DEFINE n == vec[o].size
           f == Fresh(n)
           m == MakeRoom(vec[v], n)
           s == Store(m, m.size, n, f)
           w == IF n = 0 THEN m ELSE Put([s EXCEPT !.size = @ + n], m.size + n, Null)
<1>0. n \in Nat /\ MayAllocate(n)
  BY EveryTypedVector DEF AddVector
<1>1. Shaped(m) /\ Typed(m) /\ m.size \in Nat /\ m.max \in Nat /\ m.size + n + 1 <= m.max
  <2>1. Shaped(m) /\ Typed(m) /\ m.size = vec[v].size /\ vec[v].size + n + 1 <= m.max
    <3> HIDE DEF n
    <3> QED BY <1>0, EveryTypedVector, MakeRoomCells, MakeRoomTyped
  <2> HIDE DEF m, n
  <2> QED BY <2>1 DEF Shaped, Sound
<1>2. \A i \in 1..n : f[i] \in Cells
  <2> HIDE DEF n
  <2> QED BY <1>0, FreshTyped
<1>3. Typed(w)
  <2> HIDE DEF m, n, f
  <2>1. m.size + n \in Nat /\ m.size + n <= m.max
    BY <1>0, <1>1
  <2>2. Shaped(s) /\ s.size = m.size
    BY <1>0, <1>1, <2>1, StoreCells
  <2>3. [s EXCEPT !.size = @ + n] = [s EXCEPT !.size = m.size + n]
    <3> HIDE DEF s
    <3> QED BY <2>2 DEF Shaped, Sound
  <2>4. Typed(Put([s EXCEPT !.size = m.size + n], m.size + n, Null))
    BY <1>0, <1>1, <1>2, <2>1, FillTyped
  <2> HIDE DEF s
  <2> QED BY <1>1, <2>3, <2>4
<1>4. vec' = [vec EXCEPT ![v] = w] /\ blocks' = Heap({}, Copies(vec[o], f)) /\ UNCHANGED buf
  BY EveryTypedVector DEF AddVector
<1>5. DOMAIN Copies(vec[o], f) \cap Live = {} /\ Copies(vec[o], f) \in [DOMAIN Copies(vec[o], f) -> Block]
  BY <1>0, CopiesFresh, CopiesTyped
<1>6. {} \subseteq Elements(vec[v])
  OBVIOUS
<1> HIDE DEF f, n, m, w
<1> QED BY <1>3, <1>4, <1>5, <1>6, OneVectorTyped

LEMMA AddVectorWithOwnershipTyped ==
  ASSUME TypeInv, OwnInv', NEW v \in Vectors, NEW o \in Vectors, AddVectorWithOwnership(v, o) PROVE TypeInv'
<1> DEFINE n == vec[o].size
           f == [i \in 1..n |-> vec[o].cells[i - 1]]
           g == [i \in 1..n |-> Null]
           m == MakeRoom(vec[v], n)
           s == Store(m, m.size, n, f)
           a == Put([s EXCEPT !.size = m.size + n], m.size + n + 1, Null)
           z == Store(vec[o], 0, n, g)
           y == [z EXCEPT !.size = 0]
           b == Put(y, 0, Null)
<1>0. n \in Nat /\ Shaped(vec[o]) /\ Typed(vec[o]) /\ n <= vec[o].max /\ vec[o].max \in Nat
  BY EveryTypedVector
<1>1. Shaped(m) /\ Typed(m) /\ m.size \in Nat /\ m.max \in Nat /\ m.size + n + 1 <= m.max
  <2>1. Shaped(m) /\ Typed(m) /\ m.size = vec[v].size /\ vec[v].size + n + 1 <= m.max
    <3> HIDE DEF n
    <3> QED BY <1>0, EveryTypedVector, MakeRoomCells, MakeRoomTyped
  <2> HIDE DEF m, n
  <2> QED BY <2>1 DEF Shaped, Sound
<1>2. \A i \in 1..n : f[i] \in Cells
  <2> TAKE i \in 1..n
  <2>1. i - 1 \in 0..vec[o].max
    BY <1>0
  <2> QED BY <1>0, <2>1 DEF Typed
<1>3. Typed(a) /\ [s EXCEPT !.size = @ + n] = [s EXCEPT !.size = m.size + n]
  <2> HIDE DEF m, n, f
  <2>1. m.size + n \in Nat /\ m.size + n <= m.max /\ m.size + n + 1 \in Nat /\ m.size + n + 1 <= m.max
    BY <1>0, <1>1
  <2>2. Shaped(s) /\ s.size = m.size
    BY <1>0, <1>1, <2>1, StoreCells
  <2>3. Typed(Put([s EXCEPT !.size = m.size + n], m.size + n + 1, Null))
    BY <1>0, <1>1, <1>2, <2>1, FillTyped
  <2> HIDE DEF s
  <2> QED BY <2>2, <2>3 DEF Shaped, Sound
<1>4. Typed(b)
  <2>1. \A i \in 1..n : g[i] \in Cells
    BY DEF Cells
  <2>2. Shaped(z) /\ Typed(z) /\ z.max = vec[o].max
    <3> HIDE DEF g, n
    <3>1. 0 + n <= vec[o].max
      BY <1>0
    <3> QED BY <1>0, <2>1, <3>1, StoreCells, StoreTyped
  <2> HIDE DEF z
  <2>3. Shaped(y) /\ Typed(y) /\ y.max = vec[o].max
    BY <1>0, <2>2, ResizeCells, ResizeTyped
  <2> HIDE DEF y
  <2>4. Null \in Cells /\ 0 <= y.max
    BY <1>0, <2>3 DEF Cells
  <2> QED BY <2>3, <2>4, PutTyped
<1>5. vec' = [vec EXCEPT ![v] = a, ![o] = b] /\ UNCHANGED <<buf, blocks>>
  BY <1>3, EveryTypedVector DEF AddVectorWithOwnership
<1> HIDE DEF a, b
<1>6. \A u \in Vectors : Typed(vec'[u])
  BY <1>3, <1>4, <1>5, EveryTypedVector
<1> QED BY <1>5, <1>6, SameHeapTyped

LEMMA ReplaceTyped ==
  ASSUME TypeInv, OwnInv', NEW v \in Vectors, NEW i \in Nat, NEW text \in Seq(Nat), Replace(v, i, text) PROVE TypeInv'
<1> DEFINE id == Fresh(1)[1]
           old == vec[v].cells[i]
<1>0. vec[v].size \in Nat /\ i < vec[v].size /\ vec[v].size <= vec[v].max /\ vec[v].max \in Nat
  BY EveryTypedVector DEF Replace
<1>1. id \in Cells /\ id \notin Live
  BY FreshTyped DEF Replace
<1>2. vec' = [vec EXCEPT ![v] = Put(vec[v], i, id)] /\ blocks' = Heap({old}, At(id, Exact(text))) /\ UNCHANGED buf
  BY EveryTypedVector DEF Replace
<1> HIDE DEF id
<1>3. Typed(Put(vec[v], i, id))
  <2>1. i <= vec[v].max
    BY <1>0
  <2> QED BY <1>1, <2>1, EveryTypedVector, PutTyped
<1>4. At(id, Exact(text)) \in [DOMAIN At(id, Exact(text)) -> Block] /\ DOMAIN At(id, Exact(text)) \cap Live = {}
  <2> DEFINE block == Exact(text)
  <2>1. block \in Block
    BY ExactTyped
  <2> HIDE DEF block
  <2>2. At(id, block) \in [DOMAIN At(id, block) -> Block] /\ DOMAIN At(id, block) = {id}
    BY <2>1, AtTyped, DomainOfAt
  <2> QED BY <1>1, <2>2 DEF block
<1>5. {old} \subseteq Elements(vec[v])
  <2>1. i \in 0..(vec[v].size - 1)
    BY <1>0
  <2> QED BY <2>1 DEF Elements
<1> DEFINE w == Put(vec[v], i, id)
           born == At(id, Exact(text))
<1>6. Typed(w) /\ vec' = [vec EXCEPT ![v] = w]
  BY <1>2, <1>3
<1>7. born \in [DOMAIN born -> Block] /\ DOMAIN born \cap Live = {} /\ blocks' = Heap({old}, born) /\ UNCHANGED buf
  BY <1>2, <1>4
<1> HIDE DEF old, w, born
<1> QED BY <1>5, <1>6, <1>7, OneVectorTyped

LEMMA SortTyped ==
  ASSUME TypeInv, OwnInv', NEW v \in Vectors, Sort(v) PROVE TypeInv'
<1> DEFINE u == vec[v]
           n == u.size
<1>1. PICK p \in [1..n -> 1..n] :
         /\ vec' = [vec EXCEPT ![v] = Store(u, 0, n, [i \in 1..n |-> u.cells[p[i] - 1]])]
         /\ UNCHANGED <<buf, blocks>>
  BY DEF Sort
<1> DEFINE f == [i \in 1..n |-> u.cells[p[i] - 1]]
<1>2. Shaped(u) /\ Typed(u) /\ n \in Nat /\ n <= u.max /\ u.max \in Nat /\ 0 + n <= u.max
  BY EveryTypedVector
<1>3. \A i \in 1..n : f[i] \in Cells
  <2> TAKE i \in 1..n
  <2> HIDE DEF n
  <2>1. p[i] \in 1..n
    OBVIOUS
  <2>2. p[i] - 1 \in 0..u.max
    <3> HIDE DEF u
    <3> QED BY <1>2, <2>1
  <2> QED BY <1>2, <2>2 DEF Typed
<1>4. Typed(Store(u, 0, n, f))
  <2> HIDE DEF f, n, u
  <2> QED BY <1>2, <1>3, StoreTyped
<1>5. \A x \in Vectors : Typed(vec'[x])
  BY <1>1, <1>4, EveryTypedVector
<1> QED BY <1>1, <1>5, SameHeapTyped

LEMMA RemoveAllTyped ==
  ASSUME TypeInv, OwnInv', NEW v \in Vectors, RemoveAll(v) PROVE TypeInv'
<1> DEFINE u == vec[v]
           g == [i \in 1..u.size |-> Junk]
           s == Store(u, 0, u.size, g)
           p == Put(s, 0, Null)
           w == [p EXCEPT !.size = 0]
<1>1. Shaped(u) /\ Typed(u) /\ u.size \in Nat /\ u.size <= u.max /\ u.max \in Nat
  BY EveryTypedVector
<1>2. \A i \in 1..u.size : g[i] \in Cells
  BY DEF Cells
<1>3. Shaped(s) /\ Typed(s) /\ s.max = u.max
  <2>1. 0 + u.size <= u.max
    BY <1>1
  <2> HIDE DEF g, u
  <2>2. Shaped(s) /\ s.max = u.max
    BY <1>1, <2>1, StoreCells
  <2>3. Typed(s)
    BY <1>1, <1>2, <2>1, StoreTyped
  <2> QED BY <2>2, <2>3
<1>4. Shaped(p) /\ Typed(p) /\ p.max = u.max
  <2> HIDE DEF s, u
  <2>1. Null \in Cells /\ 0 <= s.max
    BY <1>1, <1>3 DEF Cells
  <2> QED BY <1>3, <2>1, PutCells, PutTyped
<1>5. Typed(w)
  <2> HIDE DEF p, u
  <2>1. 0 <= p.max
    BY <1>1, <1>4
  <2> QED BY <1>4, <2>1, ResizeTyped
<1>6. vec' = [vec EXCEPT ![v] = w] /\ blocks' = Heap(Elements(vec[v]), None) /\ UNCHANGED buf
  BY EveryTypedVector DEF RemoveAll
<1>7. DOMAIN None \cap Live = {}
  BY DomainOfNone
<1> HIDE DEF w
<1> QED BY <1>5, <1>6, <1>7, NoneTyped, OneVectorTyped

LEMMA RemoveLastTyped ==
  ASSUME TypeInv, OwnInv', NEW v \in Vectors, RemoveLast(v) PROVE TypeInv'
<1> DEFINE u == vec[v]
           k == u.size - 1
           old == u.cells[k]
           p == Put(u, k, Null)
           w == [p EXCEPT !.size = k]
<1>1. Shaped(u) /\ Typed(u) /\ u.size \in Nat /\ u.size <= u.max /\ u.max \in Nat
  BY EveryTypedVector
<1>2. k \in Nat /\ k <= u.max /\ {old} \subseteq Elements(u) /\ Null \in Cells
  <2>1. u.size > 0
    BY DEF RemoveLast
  <2> QED BY <1>1, <2>1 DEF Elements, Cells
<1>3. Shaped(p) /\ Typed(p) /\ p.max = u.max
  <2> HIDE DEF u, k
  <2> QED BY <1>1, <1>2, PutCells, PutTyped
<1>4. Typed(w)
  <2> HIDE DEF p, u, k
  <2> QED BY <1>2, <1>3, ResizeTyped
<1>5. vec' = [vec EXCEPT ![v] = w] /\ blocks' = Heap({old}, None) /\ UNCHANGED buf
  BY EveryTypedVector DEF RemoveLast
<1>6. DOMAIN None \cap Live = {} /\ {old} \subseteq Elements(vec[v])
  BY <1>2, DomainOfNone
<1> HIDE DEF w, u, k, old
<1> QED BY <1>4, <1>5, <1>6, NoneTyped, OneVectorTyped

(***************************************************************************)
(* The operations of buffers                                               *)
(***************************************************************************)
LEMMA EveryTypedBuffer ==
  ASSUME TypeInv, NEW b \in Buffers
  PROVE  /\ OwnInv /\ buf[b] \in [at : Ids \cup {Internal}, text : Seq(Nat), max : Nat, spill : {0}]
         /\ buf[b].at \in Ids \cup {Internal} /\ buf[b].text \in Seq(Nat) /\ buf[b].max \in Nat /\ buf[b].spill = 0
         /\ InternalSize <= buf[b].max /\ buf[b].max <= Capacity(b) /\ Len(buf[b].text) < buf[b].max
         /\ Len(buf[b].text) \in Nat /\ Capacity(b) \in Nat /\ InternalSize \in Nat \ {0}
         /\ buf[b].at # Internal => buf[b].at \in Live /\ Owned(b) = {buf[b].at} /\ Capacity(b) = blocks[buf[b].at].cap
         /\ buf = [c \in Buffers |-> buf[c]]
<1>1. BufferOK(b) /\ OwnInv /\ blocks \in [Live -> Block]
  BY DEF TypeInv
<1>2. buf[b].at # Internal => buf[b].at \in Live /\ Owned(b) = {buf[b].at} /\ Capacity(b) = blocks[buf[b].at].cap
  BY <1>1 DEF OwnInv, Owned, Capacity
<1>3. buf[b].at = Internal => Capacity(b) = InternalSize
  BY DEF Capacity
<1>4. Capacity(b) \in Nat
  BY <1>1, <1>2, <1>3, SizesAssumption DEF Block
<1>5. buf[b] \in [at : Ids \cup {Internal}, text : Seq(Nat), max : Nat, spill : {0}]
  BY <1>1 DEF BufferOK
<1>6. buf[b].at \in Ids \cup {Internal} /\ buf[b].text \in Seq(Nat) /\ buf[b].max \in Nat /\ buf[b].spill = 0
  BY <1>5
<1>7. Len(buf[b].text) \in Nat
  BY <1>6
<1>8. InternalSize <= buf[b].max /\ buf[b].max <= Capacity(b) /\ Len(buf[b].text) < buf[b].max
  BY <1>1 DEF BufferOK
<1>9. buf = [c \in Buffers |-> buf[c]]
  BY <1>1, EveryBuffer
<1>10. InternalSize \in Nat \ {0}
  BY SizesAssumption
<1> QED BY <1>1, <1>2, <1>4, <1>5, <1>6, <1>7, <1>8, <1>9, <1>10

\* What a buffer must be after a step, field by field.
LEMMA BufferNext ==
  ASSUME NEW b \in Buffers, NEW at \in Ids \cup {Internal}, NEW text \in Seq(Nat), NEW max \in Nat, NEW cap,
         buf'[b] \in [at : {at}, text : {text}, max : {max}, spill : {0}],
         Capacity(b)' = cap, InternalSize <= max, max <= cap, Len(text) < max
  PROVE  BufferOK(b)'
<1> DEFINE r == buf'[b]
<1>1. r \in [at : {at}, text : {text}, max : {max}, spill : {0}]
  OBVIOUS
<1> HIDE DEF r
<1>2. r \in [at : Ids \cup {Internal}, text : Seq(Nat), max : Nat, spill : {0}] /\ r.max = max /\ r.text = text
  BY <1>1
<1> QED BY <1>2 DEF BufferOK, r

\* A step on one buffer that leaves the blocks of the others alone.
LEMMA OneBufferTyped ==
  ASSUME TypeInv, OwnInv', NEW b \in Buffers, vec' = vec, \A c \in Buffers : c # b => buf'[c] = buf[c],
         BufferOK(b)', blocks' \in [Live' -> Block],
         \A id \in Live : id \notin Owned(b) => blocks'[id] = blocks[id]
  PROVE  TypeInv'
<1>1. \A c \in Buffers : c # b => BufferOK(c)'
  <2> SUFFICES ASSUME NEW c \in Buffers, c # b PROVE BufferOK(c)'
    OBVIOUS
  <2>1. buf[c].at # Internal => buf[c].at \in Live /\ Owned(c) = {buf[c].at}
    BY EveryTypedBuffer
  <2>2. Owned(c) \cap Owned(b) = {}
    BY DEF TypeInv, OwnInv
  <2>3. buf[c].at = Internal \/ blocks'[buf[c].at] = blocks[buf[c].at]
    BY <2>1, <2>2
  <2>4. BufferOK(c)
    BY DEF TypeInv
  <2> QED BY <2>3, <2>4, BufferKept
<1> QED BY <1>1 DEF TypeInv

\* What the new size of a block leaves of room.
LEMMA GrownSizeFits ==
  ASSUME NEW max \in Nat, NEW size \in Nat, NEW n \in Nat, size <= max, max > 0
  PROVE  LET new == GrownSize(max, size, n)
         IN  /\ new \in Nat /\ (new = 0 => size + n < max) /\ (new > 0 => size + n <= new /\ max <= new)
  BY DEF GrownSize

LEMMA WriteTyped ==
  ASSUME TypeInv, OwnInv', NEW b \in Buffers, NEW kept \in Seq(Nat), Len(kept) < buf[b].max,
         NEW text \in Seq(Nat), Write(b, kept, text)
  PROVE  TypeInv'
<1> DEFINE new == GrownSize(buf[b].max, Len(kept) + 1, Len(text))
           all == kept \o text
           size == Len(kept \o text) + 1
<1>0. all \in Seq(Nat) /\ Len(all) = Len(kept) + Len(text) /\ Len(all) \in Nat /\ Len(kept) \in Nat /\ Len(text) \in Nat
  OBVIOUS
<1>1. /\ buf[b].max \in Nat /\ buf[b].max > 0 /\ Len(kept) + 1 <= buf[b].max
      /\ InternalSize <= buf[b].max /\ buf[b].max <= Capacity(b) /\ Capacity(b) \in Nat /\ InternalSize \in Nat
      /\ buf[b].spill = 0 /\ buf[b].at \in Ids \cup {Internal}
  BY <1>0, EveryTypedBuffer
<1>2. new \in Nat /\ (new = 0 => Len(kept) + 1 + Len(text) < buf[b].max) /\ (new > 0 => Len(kept) + 1 + Len(text) <= new /\ buf[b].max <= new)
  <2> DEFINE max == buf[b].max
             k == Len(kept) + 1
             n == Len(text)
  <2>1. max \in Nat /\ k \in Nat /\ n \in Nat /\ k <= max /\ max > 0
    BY <1>0, <1>1
  <2> HIDE DEF max, k, n
  <2>2. /\ GrownSize(max, k, n) \in Nat /\ (GrownSize(max, k, n) = 0 => k + n < max)
        /\ (GrownSize(max, k, n) > 0 => k + n <= GrownSize(max, k, n) /\ max <= GrownSize(max, k, n))
    BY <2>1, GrownSizeFits
  <2> QED BY <2>2 DEF max, k, n
<1>3. size = Len(kept) + 1 + Len(text)
  BY <1>0
<1> HIDE DEF new, all, size
<1>4. CASE /\ new = 0
           /\ buf' = [buf EXCEPT ![b].text = all, ![b].spill = IF size > Capacity(b) THEN 1 ELSE @]
           /\ UNCHANGED <<blocks, vec>>
  <2> DEFINE r == [buf[b] EXCEPT !.text = all, !.spill = 0]
  <2>1. ~(size > Capacity(b)) /\ Len(all) < buf[b].max
    BY <1>0, <1>1, <1>2, <1>3, <1>4
  <2>2. buf' = [buf EXCEPT ![b] = r]
    BY <1>1, <1>4, <2>1, EveryTypedBuffer
  <2>3. r \in [at : {buf[b].at}, text : {all}, max : {buf[b].max}, spill : {0}]
    BY EveryTypedBuffer
  <2> HIDE DEF r
  <2>4. buf'[b] = r /\ \A c \in Buffers : c # b => buf'[c] = buf[c]
    BY <2>2, EveryTypedBuffer
  <2>5. Capacity(b)' = Capacity(b)
    BY <1>4, <2>3, <2>4 DEF Capacity
  <2>6. BufferOK(b)'
    BY <1>0, <1>1, <2>1, <2>3, <2>4, <2>5, BufferNext
  <2>7. Live' = Live /\ blocks' \in [Live' -> Block]
    BY <1>4 DEF Live, TypeInv
  <2> QED BY <1>4, <2>4, <2>6, <2>7, OneBufferTyped
<1>5. CASE /\ new > 0 /\ MayAllocate(1) /\ vec' = vec
           /\ \E id \in {Fresh(1)[1]} :
                /\ buf' = [buf EXCEPT ![b] = [at |-> id, text |-> all, max |-> new,
                                              spill |-> IF size > new THEN 1 ELSE @.spill]]
                /\ blocks' = Heap(Owned(b), At(id, [text |-> <<>>, cap |-> new]))
  <2> DEFINE id == Fresh(1)[1]
             block == [text |-> <<>>, cap |-> new]
             r == [at |-> id, text |-> all, max |-> new, spill |-> 0]
  <2>0. id \in Ids \ Live
    BY <1>5, FreshIsFresh
  <2>1. ~(size > new)
    BY <1>0, <1>2, <1>3, <1>5
  <2>2. buf' = [buf EXCEPT ![b] = r] /\ blocks' = Heap(Owned(b), At(id, block))
    BY <1>1, <1>5, <2>1
  <2>3. block \in Block /\ block.cap = new
    BY <1>2 DEF Block
  <2> HIDE DEF id, block
  <2>4. buf'[b] = r /\ \A c \in Buffers : c # b => buf'[c] = buf[c]
    BY <2>2, EveryTypedBuffer
  <2>5. DOMAIN At(id, block) = {id} /\ At(id, block) \in [DOMAIN At(id, block) -> Block]
    BY <2>3, DomainOfAt, AtTyped
  <2>6. /\ blocks' \in [Live' -> Block]
        /\ \A x \in Live : x \notin Owned(b) => blocks'[x] = blocks[x]
    BY <2>0, <2>2, <2>5, HeapTyped
  <2>7. blocks'[id] = block
    BY <2>2 DEF Heap, At
  <2>8. Capacity(b)' = new
    BY <2>0, <2>3, <2>4, <2>7, HeapAssumption DEF Capacity
  <2>9. BufferOK(b)'
    <3>1. r \in [at : {id}, text : {all}, max : {new}, spill : {0}]
      OBVIOUS
    <3>2. InternalSize <= new /\ new <= new /\ Len(all) < new /\ id \in Ids \cup {Internal}
      BY <1>0, <1>1, <1>2, <1>5, <2>0
    <3> HIDE DEF r
    <3> QED BY <1>0, <1>2, <2>4, <2>8, <3>1, <3>2, BufferNext
  <2> QED BY <1>5, <2>4, <2>6, <2>9, OneBufferTyped
<1> QED BY <1>4, <1>5 DEF Write, new, size, all

LEMMA ClearTyped ==
  ASSUME TypeInv, OwnInv', NEW b \in Buffers, Clear(b) PROVE TypeInv'
<1> DEFINE r == [buf[b] EXCEPT !.text = <<>>, !.max = InternalSize]
<1>1. r \in [at : {buf[b].at}, text : {<<>>}, max : {InternalSize}, spill : {0}]
  BY EveryTypedBuffer
<1>2. buf' = [buf EXCEPT ![b] = r] /\ UNCHANGED <<vec, blocks>>
  BY EveryTypedBuffer DEF Clear
<1> HIDE DEF r
<1>3. buf'[b] = r /\ \A c \in Buffers : c # b => buf'[c] = buf[c]
  BY <1>2, EveryTypedBuffer
<1>4. Capacity(b)' = Capacity(b)
  BY <1>1, <1>2, <1>3 DEF Capacity
<1>5. InternalSize <= Capacity(b) /\ InternalSize \in Nat \ {0} /\ buf[b].at \in Ids \cup {Internal}
  BY EveryTypedBuffer
<1>6. <<>> \in Seq(Nat) /\ Len(<<>>) = 0
  OBVIOUS
<1>7. BufferOK(b)'
  <2>1. InternalSize \in Nat /\ InternalSize <= InternalSize /\ Len(<<>>) < InternalSize
    BY <1>5, <1>6
  <2> QED BY <1>1, <1>3, <1>4, <1>5, <1>6, <2>1, BufferNext
<1>8. Live' = Live /\ blocks' \in [Live' -> Block]
  BY <1>2 DEF Live, TypeInv
<1> QED BY <1>2, <1>3, <1>7, <1>8, OneBufferTyped

LEMMA DeleteLastCharTyped ==
  ASSUME TypeInv, OwnInv', NEW b \in Buffers, DeleteLastChar(b) PROVE TypeInv'
<1> DEFINE t == buf[b].text
           shorter == SubSeq(t, 1, Len(t) - 1)
           r == [buf[b] EXCEPT !.text = shorter]
<1>0. t \in Seq(Nat) /\ Len(t) \in Nat /\ Len(t) > 0 /\ Len(t) < buf[b].max /\ buf[b].max \in Nat
  BY EveryTypedBuffer DEF DeleteLastChar
<1>1. shorter \in Seq(Nat) /\ Len(shorter) = Len(t) - 1
  <2> HIDE DEF t
  <2>1. 1 \in 1..(Len(t) + 1) /\ Len(t) - 1 \in 0..Len(t)
    BY <1>0
  <2> DEFINE n == Len(t) - 1
             k == Len(SubSeq(t, 1, n))
  <2>2. SubSeq(t, 1, n) \in Seq(Nat) /\ k = IF 1 <= n THEN n - 1 + 1 ELSE 0
    BY <1>0, <2>1, SubSeqProperties
  <2>3. n \in Nat
    BY <1>0
  <2>4. k = n
    <3> HIDE DEF k, n
    <3> QED BY <2>2, <2>3
  <2> QED BY <2>2, <2>4
<1>2. buf' = [buf EXCEPT ![b] = r] /\ UNCHANGED <<vec, blocks>>
  BY EveryTypedBuffer DEF DeleteLastChar
<1> HIDE DEF shorter
<1>3. r \in [at : {buf[b].at}, text : {shorter}, max : {buf[b].max}, spill : {0}]
  BY EveryTypedBuffer
<1> HIDE DEF r
<1>4. buf'[b] = r /\ \A c \in Buffers : c # b => buf'[c] = buf[c]
  BY <1>2, EveryTypedBuffer
<1>5. Capacity(b)' = Capacity(b)
  BY <1>2, <1>3, <1>4 DEF Capacity
<1>6. InternalSize <= buf[b].max /\ buf[b].max <= Capacity(b) /\ buf[b].at \in Ids \cup {Internal} /\ Len(shorter) < buf[b].max
  BY <1>0, <1>1, EveryTypedBuffer
<1>7. BufferOK(b)'
  BY <1>0, <1>1, <1>3, <1>4, <1>5, <1>6, BufferNext
<1>8. Live' = Live /\ blocks' \in [Live' -> Block]
  BY <1>2 DEF Live, TypeInv
<1> QED BY <1>2, <1>4, <1>7, <1>8, OneBufferTyped

\* A buffer made anew.
LEMMA ResetTyped ==
  ASSUME NEW b \in Buffers, buf'[b] = [EmptyBuffer EXCEPT !.spill = 0] PROVE BufferOK(b)'
<1>1. [EmptyBuffer EXCEPT !.spill = 0] = [at |-> Internal, text |-> <<>>, max |-> InternalSize, spill |-> 0]
  BY DEF EmptyBuffer
<1>2. Capacity(b)' = InternalSize
  BY <1>1 DEF Capacity
<1>3. <<>> \in Seq(Nat) /\ Len(<<>>) = 0
  OBVIOUS
<1>4. InternalSize \in Nat /\ InternalSize <= InternalSize /\ Len(<<>>) < InternalSize
  BY <1>3, SizesAssumption
<1>5. buf'[b] \in [at : {Internal}, text : {<<>>}, max : {InternalSize}, spill : {0}]
  BY <1>1
<1>6. Internal \in Ids \cup {Internal}
  OBVIOUS
<1> DEFINE text == <<>>
<1>7. text \in Seq(Nat) /\ Len(text) < InternalSize /\ buf'[b] \in [at : {Internal}, text : {text}, max : {InternalSize}, spill : {0}]
  BY <1>3, <1>4, <1>5
<1> HIDE DEF text
<1> QED BY <1>2, <1>4, <1>6, <1>7, BufferNext

LEMMA RebuildTyped ==
  ASSUME TypeInv, OwnInv', NEW b \in Buffers, Rebuild(b) PROVE TypeInv'
<1>1. /\ buf' = [buf EXCEPT ![b] = [EmptyBuffer EXCEPT !.spill = 0]] /\ vec' = vec /\ blocks' = Heap(Owned(b), None)
  BY EveryTypedBuffer DEF Rebuild
<1>2. BufferOK(b)'
  BY <1>1, EveryTypedBuffer, ResetTyped
<1>3. /\ blocks' \in [Live' -> Block]
      /\ \A x \in Live : x \notin Owned(b) => blocks'[x] = blocks[x]
  BY <1>1, NoneTyped, DomainOfNone, HeapTyped
<1>4. \A c \in Buffers : c # b => buf'[c] = buf[c]
  BY <1>1, EveryTypedBuffer
<1> QED BY <1>1, <1>2, <1>3, <1>4, OneBufferTyped

LEMMA TakeOwnershipTyped ==
  ASSUME TypeInv, OwnInv', NEW b \in Buffers, NEW o \in Buffers, TakeOwnership(b, o) PROVE TypeInv'
<1> DEFINE z == [EmptyBuffer EXCEPT !.spill = 0]
<1>0. b # o /\ vec' = vec
  BY DEF TakeOwnership
<1>1. ASSUME NEW r, buf' = [buf EXCEPT ![b] = r, ![o] = z], buf'[b] = r => BufferOK(b)',
             blocks' \in [Live' -> Block],
             \A id \in Live : id \notin Owned(b) => blocks'[id] = blocks[id]
      PROVE  TypeInv'
  <2> HIDE DEF z
  <2>1. \A c \in Buffers : buf'[c] = IF c = o THEN z ELSE IF c = b THEN r ELSE buf[c]
    BY <1>1, EveryTypedBuffer
  <2>2. BufferOK(b)' /\ BufferOK(o)'
    BY <1>0, <1>1, <2>1, ResetTyped DEF z
  <2>3. ASSUME NEW c \in Buffers, c # b, c # o PROVE BufferOK(c)'
    <3>1. buf[c].at # Internal => buf[c].at \in Live /\ Owned(c) = {buf[c].at}
      BY EveryTypedBuffer
    <3>2. Owned(c) \cap Owned(b) = {}
      BY <2>3 DEF TypeInv, OwnInv
    <3>3. buf[c].at = Internal \/ blocks'[buf[c].at] = blocks[buf[c].at]
      BY <1>1, <3>1, <3>2
    <3>4. BufferOK(c) /\ buf'[c] = buf[c]
      BY <2>1, <2>3 DEF TypeInv
    <3> QED BY <3>3, <3>4, BufferKept
  <2>4. \A v \in Vectors : Typed(vec'[v])
    BY <1>0 DEF TypeInv
  <2> QED BY <1>1, <2>2, <2>3, <2>4 DEF TypeInv
<1>2. CASE /\ buf[o].at = Internal
           /\ buf' = [buf EXCEPT ![b].text = buf[o].text,
                                 ![b].spill = IF Len(buf[o].text) + 1 > Capacity(b) THEN 1 ELSE @,
                                 ![o] = [EmptyBuffer EXCEPT !.spill = buf[o].spill]]
           /\ UNCHANGED blocks
  <2> DEFINE text == buf[o].text
             r == [buf[b] EXCEPT !.text = text, !.spill = 0]
  <2>1. /\ text \in Seq(Nat) /\ Len(text) \in Nat /\ Len(text) < buf[o].max /\ buf[o].max \in Nat
        /\ buf[o].max <= InternalSize /\ buf[o].spill = 0 /\ InternalSize \in Nat
    BY <1>2, EveryTypedBuffer DEF Capacity
  <2>2. /\ buf[b].at \in Ids \cup {Internal} /\ buf[b].max \in Nat /\ buf[b].spill = 0 /\ Capacity(b) \in Nat
        /\ InternalSize <= buf[b].max /\ buf[b].max <= Capacity(b)
    BY EveryTypedBuffer
  <2>3. ~(Len(text) + 1 > Capacity(b)) /\ Len(text) < buf[b].max
    BY <2>1, <2>2
  <2>4. r \in [at : {buf[b].at}, text : {text}, max : {buf[b].max}, spill : {0}]
    <3> HIDE DEF text
    <3> QED BY EveryTypedBuffer
  <2>5. buf' = [buf EXCEPT ![b] = r, ![o] = z]
    <3>1. buf' = [buf EXCEPT ![b].text = text, ![b].spill = @, ![o] = z]
      BY <1>2, <2>1, <2>3
    <3> QED BY <1>0, <2>2, <3>1, EveryTypedBuffer
  <2> HIDE DEF r, text
  <2>6. buf'[b] = r => BufferOK(b)'
    <3> SUFFICES ASSUME buf'[b] = r PROVE BufferOK(b)'
      OBVIOUS
    <3>1. Capacity(b)' = Capacity(b)
      BY <1>2, <2>4 DEF Capacity
    <3> QED BY <2>1, <2>2, <2>3, <2>4, <3>1, BufferNext
  <2>7. blocks' \in [Live' -> Block] /\ \A id \in Live : id \notin Owned(b) => blocks'[id] = blocks[id]
    BY <1>2 DEF TypeInv, Live
  <2> HIDE DEF z
  <2> QED BY <1>1, <2>5, <2>6, <2>7
<1>3. CASE /\ buf[o].at # Internal
           /\ buf' = [buf EXCEPT ![b] = [buf[o] EXCEPT !.spill = @ + buf[b].spill],
                                 ![o] = [EmptyBuffer EXCEPT !.spill = buf[o].spill]]
           /\ blocks' = Heap(Owned(b), None)
  <2> DEFINE r == [buf[o] EXCEPT !.spill = 0]
  <2>1. /\ buf[o].text \in Seq(Nat) /\ Len(buf[o].text) < buf[o].max /\ buf[o].max \in Nat /\ buf[o].at \in Live
        /\ InternalSize <= buf[o].max /\ buf[o].max <= Capacity(o) /\ Capacity(o) = blocks[buf[o].at].cap
        /\ buf[o].spill = 0 /\ buf[o].at \in Ids \cup {Internal} /\ Owned(o) = {buf[o].at}
    BY <1>3, EveryTypedBuffer
  <2>2. buf[b].spill = 0
    BY EveryTypedBuffer
  <2>3. r \in [at : {buf[o].at}, text : {buf[o].text}, max : {buf[o].max}, spill : {0}]
    BY EveryTypedBuffer
  <2>4. buf' = [buf EXCEPT ![b] = r, ![o] = z]
    BY <1>3, <2>1, <2>2
  <2> HIDE DEF r
  <2>5. /\ blocks' \in [Live' -> Block]
        /\ \A id \in Live : id \notin Owned(b) => blocks'[id] = blocks[id]
    BY <1>3, NoneTyped, DomainOfNone, HeapTyped
  <2>6. blocks'[buf[o].at] = blocks[buf[o].at]
    <3>1. Owned(o) \cap Owned(b) = {}
      BY <1>0 DEF TypeInv, OwnInv
    <3> QED BY <2>1, <2>5, <3>1
  <2>7. buf'[b] = r => BufferOK(b)'
    <3> SUFFICES ASSUME buf'[b] = r PROVE BufferOK(b)'
      OBVIOUS
    <3>1. Capacity(b)' = Capacity(o)
      BY <1>3, <2>1, <2>3, <2>6 DEF Capacity
    <3> QED BY <2>1, <2>3, <3>1, BufferNext
  <2> HIDE DEF z
  <2> QED BY <1>1, <2>4, <2>5, <2>7
<1> QED BY <1>0, <1>2, <1>3 DEF TakeOwnership

LEMMA AddBufferTyped ==
  ASSUME TypeInv, OwnInv', NEW v \in Vectors, NEW b \in Buffers, AddBuffer(v, b) PROVE TypeInv'
<1> DEFINE z == [EmptyBuffer EXCEPT !.spill = 0]
<1>0. buf' = [buf EXCEPT ![b] = z]
  BY EveryTypedBuffer DEF AddBuffer
<1>1. BufferOK(b)'
  <2>1. buf'[b] = z
    <3> HIDE DEF z
    <3> QED BY <1>0, EveryTypedBuffer
  <2> QED BY <2>1, ResetTyped
<1> HIDE DEF z
<1>2. \A c \in Buffers : c # b => buf'[c] = buf[c]
  BY <1>0, EveryTypedBuffer
<1>3. ASSUME NEW id \in Cells, vec' = [vec EXCEPT ![v] = Push(@, id)], blocks' \in [Live' -> Block],
             \A x \in Live : x \notin Owned(b) => blocks'[x] = blocks[x]
      PROVE  TypeInv'
  <2> DEFINE w == Push(vec[v], id)
  <2>1. Typed(w)
    BY <1>3, EveryTypedVector, PushTyped
  <2>2. vec' = [vec EXCEPT ![v] = w]
    BY <1>3
  <2> HIDE DEF w
  <2>3. \A u \in Vectors : Typed(vec'[u])
    BY <2>1, <2>2, EveryTypedVector
  <2>4. ASSUME NEW c \in Buffers, c # b PROVE BufferOK(c)'
    <3>1. buf[c].at # Internal => buf[c].at \in Live /\ Owned(c) = {buf[c].at}
      BY EveryTypedBuffer
    <3>2. Owned(c) \cap Owned(b) = {}
      BY <2>4 DEF TypeInv, OwnInv
    <3>3. buf[c].at = Internal \/ blocks'[buf[c].at] = blocks[buf[c].at]
      BY <1>3, <3>1, <3>2
    <3>4. BufferOK(c) /\ buf'[c] = buf[c]
      BY <1>2, <2>4 DEF TypeInv
    <3> QED BY <3>3, <3>4, BufferKept
  <2> QED BY <1>1, <1>3, <2>3, <2>4 DEF TypeInv
<1>4. CASE /\ buf[b].at = Internal /\ MayAllocate(1)
           /\ \E id \in {Fresh(1)[1]} :
                /\ vec' = [vec EXCEPT ![v] = Push(@, id)]
                /\ blocks' = Heap({}, At(id, Exact(buf[b].text)))
  <2> DEFINE id == Fresh(1)[1]
             block == Exact(buf[b].text)
  <2>1. id \in Cells /\ id \notin Live
    BY <1>4, FreshTyped
  <2>2. block \in Block
    BY EveryTypedBuffer, ExactTyped
  <2>3. vec' = [vec EXCEPT ![v] = Push(@, id)] /\ blocks' = Heap({}, At(id, block))
    BY <1>4
  <2> HIDE DEF id, block
  <2>4. At(id, block) \in [DOMAIN At(id, block) -> Block] /\ DOMAIN At(id, block) = {id}
    BY <2>2, AtTyped, DomainOfAt
  <2>5. blocks' \in [Live' -> Block] /\ \A x \in Live : blocks'[x] = blocks[x]
    BY <2>1, <2>3, <2>4, HeapTyped
  <2> QED BY <1>3, <2>1, <2>3, <2>5
<1>5. CASE /\ buf[b].at # Internal
           /\ vec' = [vec EXCEPT ![v] = Push(@, buf[b].at)]
           /\ blocks' = [blocks EXCEPT ![buf[b].at].text = buf[b].text]
  <2> DEFINE id == buf[b].at
             text == buf[b].text
             block == [blocks[id] EXCEPT !.text = text]
  <2>1. id \in Live /\ Owned(b) = {id} /\ id \in Cells /\ text \in Seq(Nat)
    BY <1>5, EveryTypedBuffer DEF Cells
  <2>2. vec' = [vec EXCEPT ![v] = Push(@, id)] /\ blocks' = [blocks EXCEPT ![id] = block]
    BY <1>5
  <2>3. block \in Block /\ blocks \in [Live -> Block]
    <3>1. blocks \in [Live -> Block]
      BY DEF TypeInv
    <3> HIDE DEF id, text
    <3>2. blocks[id] \in Block
      BY <2>1, <3>1
    <3> QED BY <2>1, <3>1, <3>2 DEF Block
  <2> HIDE DEF id, text, block
  <2>4. Live' = Live /\ blocks' \in [Live -> Block] /\ \A x \in Live : x # id => blocks'[x] = blocks[x]
    BY <2>1, <2>2, <2>3 DEF Live
  <2> QED BY <1>3, <2>1, <2>2, <2>4
<1> QED BY <1>4, <1>5 DEF AddBuffer

(***************************************************************************)
(* Every step                                                              *)
(***************************************************************************)
LEMMA InitTyped == Init => TypeInv
<1> SUFFICES ASSUME Init PROVE TypeInv
  OBVIOUS
<1>1. \A n \in Capacities : Typed(Empty(IF n = 0 THEN DefaultCapacity ELSE n))
  <2> TAKE n \in Capacities
  <2> DEFINE k == IF n = 0 THEN DefaultCapacity ELSE n
  <2>1. k \in Nat
    BY SizesAssumption
  <2> HIDE DEF k
  <2>2. Typed(Empty(k))
    BY <2>1, EmptyTyped
  <2> QED BY <2>2 DEF k
<1>2. \A v \in Vectors : Typed(vec[v])
  BY <1>1 DEF Init
<1>3. \A b \in Buffers : BufferOK(b)
  <2> SUFFICES ASSUME NEW b \in Buffers PROVE BufferOK(b)
    OBVIOUS
  <2>1. buf[b] = [at |-> Internal, text |-> <<>>, max |-> InternalSize, spill |-> 0]
    BY DEF Init, EmptyBuffer
  <2>2. Capacity(b) = InternalSize
    BY <2>1 DEF Capacity
  <2>3. <<>> \in Seq(Nat) /\ Len(<<>>) = 0
    OBVIOUS
  <2> QED BY <2>1, <2>2, <2>3, SizesAssumption DEF BufferOK
<1>4. blocks \in [Live -> Block]
  BY DomainOfNone, NoneTyped DEF Init, Live
<1> QED BY <1>2, <1>3, <1>4, InitOwns DEF TypeInv

LEMMA StepTyped == TypeInv /\ (Step \/ UNCHANGED vars) => TypeInv'
<1> SUFFICES ASSUME TypeInv, Step \/ UNCHANGED vars PROVE TypeInv'
  OBVIOUS
<1>0. OwnInv'
  BY StepOwns DEF TypeInv
<1>1. ASSUME NEW v \in Vectors, VectorStep(v) PROVE TypeInv'
  <2>1. CASE \E n \in Capacities : Construct(v, n) \/ Reserve(v, n)
    BY <1>0, <2>1, ConstructTyped, ReserveTyped
  <2>2. CASE \E o \in Vectors : CopyConstruct(v, o) \/ Assign(v, o) \/ AddVector(v, o) \/ AddVectorWithOwnership(v, o)
    BY <1>0, <2>2, CopyConstructTyped, AssignTyped, AddVectorTyped, AddVectorWithOwnershipTyped
  <2>3. CASE \E text \in Texts : Add(v, text)
    BY <1>0, <2>3, AddTyped, TextsAssumption
  <2>4. CASE \E text \in Texts : \E i \in 0..(MaxLength - 1) : Replace(v, i, text)
    <3>1. \A i \in 0..(MaxLength - 1) : i \in Nat
      BY SizesAssumption
    <3> QED BY <1>0, <2>4, <3>1, ReplaceTyped, TextsAssumption
  <2>5. CASE Sort(v) \/ RemoveAll(v) \/ RemoveLast(v)
    BY <1>0, <2>5, SortTyped, RemoveAllTyped, RemoveLastTyped
  <2> QED BY <1>1, <2>1, <2>2, <2>3, <2>4, <2>5 DEF VectorStep
<1>2. ASSUME NEW b \in Buffers, BufferStep(b) PROVE TypeInv'
  <2>1. ASSUME NEW text \in Texts, AppendText(b, text) \/ SetText(b, text) PROVE TypeInv'
    <3>1. buf[b].text \in Seq(Nat) /\ Len(buf[b].text) < buf[b].max /\ 0 < buf[b].max
      BY EveryTypedBuffer
    <3> DEFINE none == <<>>
    <3>2. none \in Seq(Nat) /\ Len(none) < buf[b].max
      BY <3>1
    <3>3. Write(b, buf[b].text, text) \/ Write(b, none, text)
      BY <2>1 DEF AppendText, SetText
    <3>4. text \in Seq(Nat)
      BY TextsAssumption
    <3> HIDE DEF none
    <3> QED BY <1>0, <3>1, <3>2, <3>3, <3>4, WriteTyped
  <2>2. CASE \E o \in Buffers : TakeOwnership(b, o)
    BY <1>0, <2>2, TakeOwnershipTyped
  <2>3. CASE \E v \in Vectors : AddBuffer(v, b)
    BY <1>0, <2>3, AddBufferTyped
  <2>4. CASE Clear(b) \/ DeleteLastChar(b) \/ Rebuild(b)
    BY <1>0, <2>4, ClearTyped, DeleteLastCharTyped, RebuildTyped
  <2> QED BY <1>2, <2>1, <2>2, <2>3, <2>4 DEF BufferStep
<1>3. CASE UNCHANGED vars
  <2>1. vec' = vec /\ buf' = buf /\ blocks' = blocks
    BY <1>3 DEF vars
  <2>2. \A v \in Vectors : Typed(vec'[v])
    BY <2>1 DEF TypeInv
  <2> QED BY <1>0, <2>1, <2>2, SameHeapTyped
<1> QED BY <1>1, <1>2, <1>3 DEF Step

LEMMA TypeInvTypeOK == TypeInv /\ died \in BOOLEAN => TypeOK
<1> SUFFICES ASSUME TypeInv, died \in BOOLEAN PROVE TypeOK
  OBVIOUS
<1>1. BuffersInBounds
  BY EveryTypedBuffer DEF BuffersInBounds
<1>2. \A v \in Vectors : /\ vec[v].size \in Nat /\ vec[v].max \in Nat \ {0}
                         /\ vec[v].cells \in [0..vec[v].max -> Cells]
  BY EveryTypedVector DEF Typed
<1>3. \A b \in Buffers : buf[b].at \in Ids \cup {Internal} /\ buf[b].text \in Seq(Nat) /\ buf[b].max \in Nat
  BY EveryTypedBuffer
<1>4. Live \subseteq Ids /\ failed \in BOOLEAN /\ blocks \in [Live -> Block]
  BY DEF TypeInv, OwnInv
<1> QED BY <1>1, <1>2, <1>3, <1>4 DEF TypeOK

\* A vector that is assigned to itself leaves everything typed, and every buffer its block.
LEMMA DeathTyped ==
  ASSUME TypeInv, NEW v \in Vectors, AssignToItself(v) PROVE TypeOK'
<1>0. OwnInv
  BY DEF TypeInv
<1>1. /\ blocks' \in [Live' -> Block]
      /\ \A id \in Live : id \notin Elements(vec[v]) /\ id \notin DOMAIN None => blocks'[id] = blocks[id]
  BY <1>0, Death, HeapTyped, NoneTyped
<1>2. \A b \in Buffers : BufferOK(b)'
  <2> SUFFICES ASSUME NEW b \in Buffers PROVE BufferOK(b)'
    OBVIOUS
  <2>1. BufferOK(b) /\ buf'[b] = buf[b]
    BY <1>0, Death DEF TypeInv
  <2>2. ASSUME buf[b].at # Internal PROVE blocks'[buf[b].at] = blocks[buf[b].at]
    <3>1. buf[b].at \in Owned(b)
      BY <2>2 DEF Owned
    <3>2. buf[b].at \in Live /\ buf[b].at \notin Elements(vec[v])
      BY <3>1 DEF TypeInv, OwnInv
    <3> QED BY <1>1, <3>2, DomainOfNone
  <2> QED BY <2>1, <2>2, BufferKept
<1>3. BuffersInBounds'
  BY <1>2 DEF BufferOK, BuffersInBounds
<1>4. \A b \in Buffers : buf'[b].at \in Ids \cup {Internal} /\ buf'[b].text \in Seq(Nat) /\ buf'[b].max \in Nat
  BY <1>2 DEF BufferOK
<1>5. Typed(vec'[v])
  <2> DEFINE u == vec[v]
             g == [i \in 1..u.size |-> Null]
             w == Store(u, 0, u.size, g)
  <2>1. Shaped(u) /\ Typed(u) /\ u.size \in Nat /\ 0 \in Nat /\ 0 + u.size <= u.max
    BY EveryTypedVector
  <2>2. \A i \in 1..u.size : g[i] \in Cells
    BY DEF Cells
  <2>3. vec'[v] = w
    BY EveryTypedVector DEF AssignToItself
  <2> HIDE DEF g, u
  <2>4. Typed(w)
    BY <2>1, <2>2, StoreTyped
  <2> HIDE DEF w
  <2> QED BY <2>3, <2>4
<1>6. ASSUME NEW u \in Vectors
      PROVE  vec'[u].size \in Nat /\ vec'[u].max \in Nat \ {0} /\ vec'[u].cells \in [0..vec'[u].max -> Cells]
  <2>1. vec[u].size \in Nat /\ vec[u].max \in Nat \ {0} /\ Typed(vec[u])
    BY EveryTypedVector
  <2>2. CASE u = v
    BY <1>0, <1>5, <2>1, <2>2, Death DEF Typed
  <2>3. CASE u # v
    BY <1>0, <2>1, <2>3, Death DEF Typed
  <2> QED BY <2>2, <2>3
<1>7. Live' \subseteq Ids /\ failed' \in BOOLEAN /\ died' \in BOOLEAN
  BY <1>0, Death DEF OwnInv
<1> QED BY <1>1, <1>3, <1>4, <1>6, <1>7 DEF TypeOK

\* A program that has died does nothing any more.
Alive == died \in BOOLEAN /\ IF died THEN TypeOK ELSE TypeInv

LEMMA InitAlive == Init => Alive
  BY InitTyped DEF Alive, Init

LEMMA StepAlive == Alive /\ [Next]_vars => Alive'
<1> SUFFICES ASSUME Alive, [Next]_vars PROVE Alive'
  OBVIOUS
<1>1. CASE UNCHANGED vars
  <2>1. TypeOK => TypeOK'
    BY <1>1 DEF vars, TypeOK, BuffersInBounds, Live
  <2>2. TypeInv => TypeInv'
    BY <1>1, StepTyped
  <2> QED BY <1>1, <2>1, <2>2 DEF Alive, vars
<1>2. CASE Step /\ UNCHANGED died /\ ~died
  BY <1>2, StepTyped DEF Alive
<1>3. ASSUME NEW v \in Vectors, AssignToItself(v), ~died PROVE Alive'
  <2>1. died' = TRUE
    BY <1>3 DEF AssignToItself
  <2> QED BY <1>3, <2>1, DeathTyped DEF Alive
<1> QED BY <1>1, <1>2, <1>3 DEF Next

\* After any operations the cells hold addresses, nulls or garbage, the blocks
\* texts, and no buffer has been written past the memory it has.
THEOREM SpecTypeOK == Spec => []TypeOK
<1>1. Alive => TypeOK
  BY TypeInvTypeOK DEF Alive
<1> QED BY <1>1, InitAlive, StepAlive, PTL DEF Spec

-----------------------------------------------------------------------------
(* lists *)

\* Every string of a vector is the text of its cell's block.
LEMMA StringsAre ==
  TypeInv => \A v \in Vectors :
    /\ Strings(vec[v]) \in Seq(Seq(Nat)) /\ Len(Strings(vec[v])) = vec[v].size
    /\ \A i \in 1..vec[v].size :
         Strings(vec[v])[i] = blocks[vec[v].cells[i - 1]].text /\ vec[v].cells[i - 1] \in Elements(vec[v])
<1> SUFFICES ASSUME TypeInv, NEW v \in Vectors
             PROVE  /\ Strings(vec[v]) \in Seq(Seq(Nat)) /\ Len(Strings(vec[v])) = vec[v].size
                    /\ \A i \in 1..vec[v].size :
                         /\ Strings(vec[v])[i] = blocks[vec[v].cells[i - 1]].text
                         /\ vec[v].cells[i - 1] \in Elements(vec[v])
  OBVIOUS
<1>1. vec[v].size \in Nat /\ Elements(vec[v]) \subseteq Live /\ blocks \in [Live -> Block]
  BY EveryVector DEF TypeInv
<1>2. ASSUME NEW i \in 1..vec[v].size
      PROVE  /\ Strings(vec[v])[i] = blocks[vec[v].cells[i - 1]].text
             /\ vec[v].cells[i - 1] \in Elements(vec[v])
             /\ Strings(vec[v])[i] \in Seq(Nat)
  <2>1. i - 1 \in 0..(vec[v].size - 1)
    BY <1>1
  <2>2. vec[v].cells[i - 1] \in Elements(vec[v])
    BY <2>1 DEF Elements
  <2>3. Strings(vec[v])[i] = blocks[vec[v].cells[i - 1]].text
    BY <1>1, <2>2 DEF Strings, TextOf
  <2>4. blocks[vec[v].cells[i - 1]] \in Block
    BY <1>1, <2>2
  <2> QED BY <2>2, <2>3, <2>4 DEF Block
<1>3. Strings(vec[v]) = [i \in 1..vec[v].size |-> Strings(vec[v])[i]]
  BY DEF Strings
<1> DEFINE s == Strings(vec[v])
<1> HIDE DEF s
<1>4. [i \in 1..vec[v].size |-> s[i]] \in Seq(Seq(Nat)) /\ Len([i \in 1..vec[v].size |-> s[i]]) = vec[v].size
  <2>1. \A i \in 1..vec[v].size : s[i] \in Seq(Nat)
    BY <1>2 DEF s
  <2> QED BY <1>1, <2>1, IsASeq
<1> QED BY <1>2, <1>3, <1>4 DEF s

LEMMA StringsAreNext ==
  TypeInv' => (\A v \in Vectors :
    /\ Strings(vec[v]) \in Seq(Seq(Nat)) /\ Len(Strings(vec[v])) = vec[v].size
    /\ \A i \in 1..vec[v].size :
         Strings(vec[v])[i] = blocks[vec[v].cells[i - 1]].text /\ vec[v].cells[i - 1] \in Elements(vec[v]))'
BY StringsAre, PTL

\* A vector is a list of texts, one text per cell.
LEMMA ListNow ==
  ASSUME TypeInv, NEW v \in Vectors
  PROVE  /\ Strings(vec[v]) \in Seq(Seq(Nat)) /\ Len(Strings(vec[v])) = vec[v].size /\ vec[v].size \in Nat
         /\ \A i \in 1..vec[v].size :
              Strings(vec[v])[i] = blocks[vec[v].cells[i - 1]].text /\ vec[v].cells[i - 1] \in Elements(vec[v])
BY StringsAre, EveryTypedVector

\* The list of a vector after a step is t if it has the size of t and the blocks of its cells the texts of t.
LEMMA ListNext ==
  ASSUME TypeInv', NEW v \in Vectors, NEW t \in Seq(Seq(Nat)), vec'[v].size = Len(t),
         \A i \in 1..Len(t) : blocks'[vec'[v].cells[i - 1]].text = t[i]
  PROVE  Strings(vec[v])' = t
<1>1. Strings(vec[v])' \in Seq(Seq(Nat)) /\ Len(Strings(vec[v])') = Len(t)
  BY StringsAreNext
<1>2. \A i \in 1..Len(t) : Strings(vec[v])'[i] = t[i]
  BY StringsAreNext
<1> QED BY <1>1, <1>2, SeqEqual

\* What the change of one list may make of it.
Becomes(v, t) ==
  \/ t = <<>> \/ t = Lists!Prefix(Strings(vec[v]))
  \/ \E x \in Texts : t = Append(Strings(vec[v]), x)
  \/ \E o \in Vectors : t = Strings(vec[o]) \/ t = Strings(vec[v]) \o Strings(vec[o])
  \/ \E x \in Texts, i \in 1..Len(Strings(vec[v])) : t = [Strings(vec[v]) EXCEPT ![i] = x]
  \/ Lists!Permutes(Strings(vec[v]), t)

\* One list changes and nothing else.
LEMMA OneList ==
  ASSUME NEW v \in Vectors, \A o \in Vectors : o # v => Strings(vec[o])' = Strings(vec[o]), UNCHANGED buf,
         NEW t, Strings(vec[v])' = t, Becomes(v, t)
  PROVE  Lists!Step
<1> DEFINE l == [u \in Vectors |-> Strings(vec[u])]
           ln == [u \in Vectors |-> Strings(vec[u])']
           x == [b \in Buffers |-> buf[b].text]
<1>1. l' = ln /\ x' = x
  OBVIOUS
<1>2. ln = [l EXCEPT ![v] = ln[v]] /\ ln[v] = t /\ l[v] = Strings(vec[v]) /\ \A o \in Vectors : l[o] = Strings(vec[o])
  OBVIOUS
<1>3. l' = [l EXCEPT ![v] = l'[v]] /\ l'[v] = t /\ l[v] = Strings(vec[v])
  BY <1>1, <1>2
<1> HIDE DEF l, ln, x
<1>4. \/ l'[v] \in {<<>>, Lists!Prefix(l[v])} \cup {Append(l[v], y) : y \in Texts}
      \/ \E o \in Vectors : l'[v] \in {l[o], l[v] \o l[o]}
      \/ \E y \in Texts, i \in 1..Len(l[v]) : l'[v] = [l[v] EXCEPT ![i] = y]
      \/ Lists!Permutes(l[v], l'[v])
  <2> DEFINE m == l'[v]
             k == l[v]
  <2>1. m = t /\ k = Strings(vec[v])
    BY <1>3
  <2> HIDE DEF m, k
  <2>2. \/ m = <<>> \/ m = Lists!Prefix(k)
        \/ \E y \in Texts : m = Append(k, y)
        \/ \E o \in Vectors : m = l[o] \/ m = k \o l[o]
        \/ \E y \in Texts, i \in 1..Len(k) : m = [k EXCEPT ![i] = y]
        \/ Lists!Permutes(k, m)
    BY <1>2, <2>1, Zenon DEF Becomes
  <2>3. \/ m \in {<<>>, Lists!Prefix(k)} \cup {Append(k, y) : y \in Texts}
        \/ \E o \in Vectors : m \in {l[o], k \o l[o]}
        \/ \E y \in Texts, i \in 1..Len(k) : m = [k EXCEPT ![i] = y]
        \/ Lists!Permutes(k, m)
    BY <2>2
  <2> QED BY <2>3 DEF m, k
<1>5. Lists!Change(v)
  BY <1>1, <1>3, <1>4 DEF Lists!Change, l, x
<1> QED BY <1>5 DEF Lists!Step

\* Nothing changes.
LEMMA SameLists ==
  ASSUME \A v \in Vectors : Strings(vec[v])' = Strings(vec[v]), \A b \in Buffers : buf'[b].text = buf[b].text,
         UNCHANGED died
  PROVE  UNCHANGED Lists!vars
BY DEF Lists!vars

\* One text changes and nothing else.
LEMMA OneText ==
  ASSUME NEW b \in Buffers, \A v \in Vectors : Strings(vec[v])' = Strings(vec[v]),
         \A c \in Buffers : c # b => buf'[c].text = buf[c].text,
         \/ buf'[b].text = <<>> \/ buf'[b].text = Lists!Prefix(buf[b].text)
         \/ \E x \in Texts : buf'[b].text = buf[b].text \o x \/ buf'[b].text = x
  PROVE  Lists!Step
<1> DEFINE l == [u \in Vectors |-> Strings(vec[u])]
           x == [c \in Buffers |-> buf[c].text]
           xn == [c \in Buffers |-> buf'[c].text]
<1>1. l' = l /\ x' = xn
  OBVIOUS
<1>2. xn = [x EXCEPT ![b] = xn[b]] /\ xn[b] = buf'[b].text /\ x[b] = buf[b].text
  OBVIOUS
<1> HIDE DEF l, x, xn
<1>3. x' = [x EXCEPT ![b] = x'[b]] /\ x'[b] \in {<<>>, Lists!Prefix(x[b])} \cup {x[b] \o t : t \in Texts} \cup Texts
  BY <1>1, <1>2
<1>4. Lists!Write(b)
  BY <1>1, <1>3 DEF Lists!Write, l, x
<1> QED BY <1>4 DEF Lists!Step

\* A vector whose cells and their texts are kept is the same list.
LEMMA KeptList ==
  ASSUME TypeInv, TypeInv', NEW v \in Vectors, vec'[v].size = vec[v].size,
         \A i \in 1..vec[v].size : /\ vec'[v].cells[i - 1] = vec[v].cells[i - 1]
                                   /\ blocks'[vec[v].cells[i - 1]].text = blocks[vec[v].cells[i - 1]].text
  PROVE  Strings(vec[v])' = Strings(vec[v])
<1> DEFINE t == Strings(vec[v])
<1>1. t \in Seq(Seq(Nat)) /\ Len(t) = vec[v].size /\ \A i \in 1..Len(t) : t[i] = blocks[vec[v].cells[i - 1]].text
  BY ListNow
<1>2. \A i \in 1..Len(t) : blocks'[vec'[v].cells[i - 1]].text = t[i]
  BY <1>1
<1> QED BY <1>1, <1>2, ListNext

LEMMA HeapTexts ==
  ASSUME NEW dead, NEW born, blocks' = Heap(dead, born)
  PROVE  /\ \A id \in DOMAIN born : blocks'[id] = born[id]
         /\ \A id \in Live : id \notin dead /\ id \notin DOMAIN born => blocks'[id] = blocks[id]
BY DEF Heap, Live

\* What one vector deletes and allocates is nothing to the others.
LEMMA OtherLists ==
  ASSUME TypeInv, TypeInv', NEW v \in Vectors, NEW dead, NEW born, blocks' = Heap(dead, born),
         dead \subseteq Elements(vec[v]), DOMAIN born \cap Live = {},
         NEW o \in Vectors, o # v, vec'[o] = vec[o]
  PROVE  Strings(vec[o])' = Strings(vec[o])
<1>1. Elements(vec[o]) \cap Elements(vec[v]) = {} /\ Elements(vec[o]) \subseteq Live
  BY DEF TypeInv, OwnInv
<1>2. \A i \in 1..vec[o].size : blocks'[vec[o].cells[i - 1]] = blocks[vec[o].cells[i - 1]]
  BY <1>1, ListNow, HeapTexts
<1> QED BY <1>2, KeptList

\* The texts of the copies are those of the vector.
LEMMA CopiesTexts ==
  ASSUME TypeInv, NEW o \in Vectors, MayAllocate(vec[o].size)
  PROVE  \A i \in 1..vec[o].size :
            /\ Fresh(vec[o].size)[i] \in DOMAIN Copies(vec[o], Fresh(vec[o].size))
            /\ Copies(vec[o], Fresh(vec[o].size))[Fresh(vec[o].size)[i]].text = Strings(vec[o])[i]
<1> DEFINE n == vec[o].size
           f == Fresh(n)
           s == Strings(vec[o])
<1>1. n \in Nat /\ \A i, j \in 1..n : f[i] = f[j] => i = j
  <2>1. n \in Nat
    BY ListNow
  <2> HIDE DEF n
  <2> QED BY <2>1, FreshIsFresh DEF n
<1>2. Copies(vec[o], f) = [id \in {f[i] : i \in 1..n} |-> Exact(s[CHOOSE i \in 1..n : f[i] = id])]
  BY DEF Copies
<1> HIDE DEF f, s, n
<1>3. ASSUME NEW i \in 1..n
      PROVE  f[i] \in DOMAIN Copies(vec[o], f) /\ Copies(vec[o], f)[f[i]].text = s[i]
  <2>1. (CHOOSE j \in 1..n : f[j] = f[i]) = i
    BY <1>1
  <2>2. f[i] \in DOMAIN Copies(vec[o], f) /\ Copies(vec[o], f)[f[i]] = Exact(s[CHOOSE j \in 1..n : f[j] = f[i]])
    BY <1>2
  <2>3. Exact(s[CHOOSE j \in 1..n : f[j] = f[i]]) = Exact(s[i])
    BY <2>1
  <2> QED BY <2>2, <2>3 DEF Exact
<1> QED BY <1>3 DEF f, s, n

\* A vector that keeps its cells and gets more of them has the texts of those appended to its list.
LEMMA LongerList ==
  ASSUME TypeInv, TypeInv', NEW v \in Vectors, NEW t \in Seq(Seq(Nat)), vec'[v].size = vec[v].size + Len(t),
         \A i \in 0..(vec[v].size - 1) : /\ vec'[v].cells[i] = vec[v].cells[i]
                                         /\ blocks'[vec[v].cells[i]].text = blocks[vec[v].cells[i]].text,
         \A i \in 1..Len(t) : blocks'[vec'[v].cells[vec[v].size + i - 1]].text = t[i]
  PROVE  Strings(vec[v])' = Strings(vec[v]) \o t
<1> DEFINE s == Strings(vec[v])
           n == vec[v].size
<1>1. s \in Seq(Seq(Nat)) /\ Len(s) = n /\ n \in Nat /\ \A i \in 1..n : s[i] = blocks[vec[v].cells[i - 1]].text
  BY ListNow
<1> HIDE DEF s
<1>2. s \o t \in Seq(Seq(Nat)) /\ Len(s \o t) = n + Len(t)
      /\ \A i \in 1..(n + Len(t)) : (s \o t)[i] = IF i <= n THEN s[i] ELSE t[i - n]
  <2>1. /\ s \o t \in Seq(Seq(Nat)) /\ Len(s \o t) = Len(s) + Len(t)
        /\ \A i \in 1..(Len(s) + Len(t)) : (s \o t)[i] = IF i <= Len(s) THEN s[i] ELSE t[i - Len(s)]
    BY <1>1, ConcatProperties
  <2> QED BY <1>1, <2>1
<1>3. Len(t) \in Nat
  BY LenProperties
<1>4. ASSUME NEW i \in 1..(n + Len(t)) PROVE blocks'[vec'[v].cells[i - 1]].text = (s \o t)[i]
  <2>1. CASE i <= n
    <3>1. i \in 1..n /\ i - 1 \in 0..(n - 1)
      BY <1>1, <1>3, <2>1
    <3>2. blocks'[vec'[v].cells[i - 1]].text = s[i]
      BY <1>1, <3>1
    <3> QED BY <1>2, <2>1, <3>2
  <2>2. CASE i > n
    <3>1. i - n \in 1..Len(t) /\ n + (i - n) - 1 = i - 1 /\ ~(i <= n)
      BY <1>1, <1>3, <2>2
    <3>2. blocks'[vec'[v].cells[n + (i - n) - 1]].text = t[i - n]
      BY <3>1
    <3> QED BY <1>2, <3>1, <3>2
  <2> QED BY <1>1, <1>3, <2>1, <2>2
<1> HIDE DEF n
<1>5. vec'[v].size = Len(s \o t)
  BY <1>2 DEF n
<1>6. Strings(vec[v])' = s \o t
  BY <1>2, <1>4, <1>5, ListNext
<1> QED BY <1>6 DEF s

\* A vector without strings is the empty list.
LEMMA EmptyList ==
  ASSUME TypeInv', NEW v \in Vectors, vec'[v].size = 0
  PROVE  Strings(vec[v])' = <<>>
<1>1. <<>> \in Seq(Seq(Nat)) /\ Len(<<>>) = 0
  BY EmptySeq
<1>2. \A i \in 1..Len(<<>>) : blocks'[vec'[v].cells[i - 1]].text = <<>>[i]
  BY <1>1
<1> QED BY <1>1, <1>2, ListNext

\* Emptying a vector, as its constructor and RemoveAll do.
LEMMA EmptiedLists ==
  ASSUME TypeInv, TypeInv', NEW v \in Vectors, NEW w, w.size = 0, vec' = [vec EXCEPT ![v] = w],
         blocks' = Heap(Elements(vec[v]), None), UNCHANGED buf
  PROVE  Lists!Step
<1>1. vec'[v].size = 0 /\ \A o \in Vectors : o # v => vec'[o] = vec[o]
  BY EveryTypedVector
<1>2. Strings(vec[v])' = <<>>
  BY <1>1, EmptyList
<1>3. \A o \in Vectors : o # v => Strings(vec[o])' = Strings(vec[o])
  <2> SUFFICES ASSUME NEW o \in Vectors, o # v PROVE Strings(vec[o])' = Strings(vec[o])
    OBVIOUS
  <2>1. DOMAIN None \cap Live = {}
    BY DomainOfNone
  <2> QED BY <1>1, <2>1, OtherLists
<1> QED BY <1>2, <1>3, OneList DEF Becomes

LEMMA ConstructLists ==
  ASSUME TypeInv, TypeInv', NEW v \in Vectors, NEW n \in Capacities, Construct(v, n) PROVE Lists!Step
<1> DEFINE w == Empty(IF n = 0 THEN DefaultCapacity ELSE n)
<1>1. w.size = 0
  BY DEF Empty
<1>2. vec' = [vec EXCEPT ![v] = w] /\ blocks' = Heap(Elements(vec[v]), None) /\ UNCHANGED buf
  BY DEF Construct
<1> HIDE DEF w
<1> QED BY <1>1, <1>2, EmptiedLists

LEMMA RemoveAllLists ==
  ASSUME TypeInv, TypeInv', NEW v \in Vectors, RemoveAll(v) PROVE Lists!Step
<1> DEFINE u == vec[v]
           g == [i \in 1..u.size |-> Junk]
           s == Store(u, 0, u.size, g)
           p == Put(s, 0, Null)
           w == [p EXCEPT !.size = 0]
<1>1. Shaped(u) /\ u.size \in Nat /\ u.max \in Nat /\ u.size <= u.max
  BY EveryTypedVector
<1>2. Shaped(s) /\ s.max = u.max
  <2>1. 0 + u.size <= u.max
    BY <1>1
  <2> HIDE DEF g, u
  <2> QED BY <1>1, <2>1, StoreCells
<1>3. Shaped(p) /\ p.max = u.max
  <2> HIDE DEF s, u
  <2> QED BY <1>1, <1>2, PutCells
<1>4. w.size = 0
  <2> HIDE DEF p, u
  <2> QED BY <1>1, <1>3, ResizeCells
<1>5. vec' = [vec EXCEPT ![v] = w] /\ blocks' = Heap(Elements(vec[v]), None) /\ UNCHANGED buf
  BY EveryTypedVector DEF RemoveAll
<1> HIDE DEF w
<1> QED BY <1>4, <1>5, EmptiedLists

\* A vector that is made, or grows, with the copies of the strings of o.
LEMMA CopiedLists ==
  ASSUME TypeInv, TypeInv', NEW v \in Vectors, NEW o \in Vectors, MayAllocate(vec[o].size), NEW dead,
         dead \subseteq Elements(vec[v]), blocks' = Heap(dead, Copies(vec[o], Fresh(vec[o].size))),
         \A x \in Vectors : x # v => vec'[x] = vec[x], UNCHANGED buf
  PROVE  /\ \A x \in Vectors : x # v => Strings(vec[x])' = Strings(vec[x])
         /\ \A i \in 1..vec[o].size : blocks'[Fresh(vec[o].size)[i]].text = Strings(vec[o])[i]
         /\ \A id \in Live : id \notin dead => blocks'[id] = blocks[id]
<1> DEFINE c == Copies(vec[o], Fresh(vec[o].size))
<1>1. DOMAIN c \cap Live = {}
  BY CopiesFresh
<1>2. \A i \in 1..vec[o].size : Fresh(vec[o].size)[i] \in DOMAIN c /\ c[Fresh(vec[o].size)[i]].text = Strings(vec[o])[i]
  BY CopiesTexts
<1>3. blocks' = Heap(dead, c)
  OBVIOUS
<1> HIDE DEF c
<1>4. \A x \in Vectors : x # v => Strings(vec[x])' = Strings(vec[x])
  BY <1>1, <1>3, OtherLists
<1>5. /\ \A id \in DOMAIN c : blocks'[id] = c[id]
      /\ \A id \in Live : id \notin dead /\ id \notin DOMAIN c => blocks'[id] = blocks[id]
  BY <1>3, HeapTexts
<1> QED BY <1>1, <1>2, <1>4, <1>5

\* A vector that becomes a copy of another.
LEMMA ReplacedLists ==
  ASSUME TypeInv, TypeInv', NEW v \in Vectors, NEW o \in Vectors, MayAllocate(vec[o].size),
         NEW w, w.size = vec[o].size, \A i \in 1..vec[o].size : w.cells[i - 1] = Fresh(vec[o].size)[i],
         vec' = [vec EXCEPT ![v] = w], blocks' = Heap(Elements(vec[v]), Copies(vec[o], Fresh(vec[o].size))),
         UNCHANGED buf
  PROVE  Lists!Step
<1>1. vec'[v] = w /\ \A x \in Vectors : x # v => vec'[x] = vec[x]
  BY EveryTypedVector
<1>2. /\ \A x \in Vectors : x # v => Strings(vec[x])' = Strings(vec[x])
      /\ \A i \in 1..vec[o].size : blocks'[Fresh(vec[o].size)[i]].text = Strings(vec[o])[i]
  BY <1>1, CopiedLists
<1>3. Strings(vec[o]) \in Seq(Seq(Nat)) /\ Len(Strings(vec[o])) = vec[o].size
  BY ListNow
<1>4. Strings(vec[v])' = Strings(vec[o])
  <2> DEFINE t == Strings(vec[o])
             f == Fresh(vec[o].size)
  <2>1. \A i \in 1..Len(t) : vec'[v].cells[i - 1] = f[i] /\ blocks'[f[i]].text = t[i]
    BY <1>1, <1>2, <1>3
  <2>2. t \in Seq(Seq(Nat)) /\ vec'[v].size = Len(t)
    BY <1>1, <1>3
  <2> HIDE DEF t, f
  <2>3. \A i \in 1..Len(t) : blocks'[vec'[v].cells[i - 1]].text = t[i]
    BY <2>1
  <2>4. Strings(vec[v])' = t
    BY <2>2, <2>3, ListNext
  <2> QED BY <2>4 DEF t
<1> QED BY <1>2, <1>4, OneList DEF Becomes

LEMMA CopyConstructLists ==
  ASSUME TypeInv, TypeInv', NEW v \in Vectors, NEW o \in Vectors, CopyConstruct(v, o) PROVE Lists!Step
<1> DEFINE n == vec[o].size
           f == Fresh(n)
           e == Empty(vec[o].max)
           w == Put([Store(e, 0, n, f) EXCEPT !.size = 0 + n], n, Null)
<1>0. n \in Nat /\ 0 + n = n /\ vec[o].max \in Nat \ {0} /\ n <= vec[o].max
  <2>1. n \in Nat /\ vec[o].max \in Nat \ {0} /\ n <= vec[o].max
    BY EveryTypedVector
  <2> HIDE DEF n
  <2> QED BY <2>1
<1>1. Shaped(e) /\ e.max = vec[o].max
  BY <1>0, EmptyShaped, EmptySound
<1>2. w.size = 0 + n /\ \A i \in 1..n : w.cells[0 + i - 1] = f[i]
  <2> HIDE DEF e, f, n
  <2> QED BY <1>0, <1>1, FillCells
<1>3. w.size = n /\ \A i \in 1..n : w.cells[i - 1] = f[i]
  <2> HIDE DEF w, f
  <2> QED BY <1>0, <1>2
<1>4. vec' = [vec EXCEPT ![v] = w] /\ blocks' = Heap(Elements(vec[v]), Copies(vec[o], f))
      /\ UNCHANGED buf /\ MayAllocate(n)
  BY <1>0, EveryTypedVector DEF CopyConstruct
<1> HIDE DEF w
<1> QED BY <1>3, <1>4, ReplacedLists

LEMMA AssignLists ==
  ASSUME TypeInv, TypeInv', NEW v \in Vectors, NEW o \in Vectors, Assign(v, o) PROVE Lists!Step
<1> DEFINE n == vec[o].size
           f == Fresh(n)
           x == EnsureCapacity(vec[v], n)
           z == Store(x, 0, x.size, [i \in 1..x.size |-> Null])
           y == Store(z, 0, n, f)
           w == [y EXCEPT !.size = n]
<1>0. n \in Nat
  BY EveryTypedVector
<1>2. Shaped(x) /\ x.max >= n /\ x.max \in Nat /\ x.size \in Nat /\ x.size <= x.max
  <2>1. Shaped(x) /\ x.max >= n /\ x.max \in Nat
    BY <1>0, EveryTypedVector, EnsureCapacityCells
  <2> HIDE DEF x
  <2> QED BY <2>1 DEF Shaped, Sound
<1>3. Shaped(z) /\ z.max = x.max
  <2> HIDE DEF x
  <2>1. 0 + x.size <= x.max
    BY <1>2
  <2> QED BY <1>2, <2>1, StoreCells
<1>4. /\ Shaped(y) /\ y.max = x.max
      /\ \A j \in 0..x.max : y.cells[j] = IF j \in 0..(0 + n - 1) THEN f[j - 0 + 1] ELSE z.cells[j]
  <2> HIDE DEF z, f, n, x
  <2>1. 0 + n <= z.max
    BY <1>0, <1>2, <1>3
  <2> QED BY <1>0, <1>3, <2>1, StoreCells
<1>5. w.size = n /\ w.cells = y.cells
  <2> HIDE DEF y, n, x
  <2> QED BY <1>0, <1>2, <1>4, ResizeCells
<1>6. \A i \in 1..n : w.cells[i - 1] = f[i]
  <2> TAKE i \in 1..n
  <2> HIDE DEF w, y, z, f, n, x
  <2>1. i - 1 \in 0..x.max /\ i - 1 \in 0..(0 + n - 1) /\ (i - 1) - 0 + 1 = i
    BY <1>0, <1>2
  <2> QED BY <1>4, <1>5, <2>1
<1>7. /\ vec' = [vec EXCEPT ![v] = w] /\ blocks' = Heap(Elements(vec[v]), Copies(vec[o], f))
      /\ UNCHANGED buf /\ MayAllocate(n)
  BY EveryTypedVector DEF Assign
<1> HIDE DEF w
<1> QED BY <1>5, <1>6, <1>7, ReplacedLists

LEMMA ReserveLists ==
  ASSUME TypeInv, TypeInv', NEW v \in Vectors, NEW n \in Capacities, Reserve(v, n), UNCHANGED died
  PROVE  UNCHANGED Lists!vars
<1> DEFINE w == EnsureCapacity(vec[v], n)
<1>1. n \in Nat /\ Shaped(vec[v]) /\ vec = [u \in Vectors |-> vec[u]] /\ vec[v].size \in Nat
  BY SizesAssumption, EveryTypedVector
<1>2. w.size = vec[v].size /\ \A i \in 0..(vec[v].size - 1) : w.cells[i] = vec[v].cells[i]
  BY <1>1, EnsureCapacityCells
<1>3. vec' = [vec EXCEPT ![v] = w] /\ UNCHANGED <<buf, blocks>>
  BY DEF Reserve
<1> HIDE DEF w
<1>4. ASSUME NEW x \in Vectors PROVE Strings(vec[x])' = Strings(vec[x])
  <2>1. vec[x].size \in Nat
    BY EveryTypedVector
  <2>2. vec'[x].size = vec[x].size /\ \A i \in 0..(vec[x].size - 1) : vec'[x].cells[i] = vec[x].cells[i]
    BY <1>1, <1>2, <1>3
  <2>3. \A i \in 1..vec[x].size : i - 1 \in 0..(vec[x].size - 1)
    BY <2>1
  <2> QED BY <1>3, <2>2, <2>3, KeptList
<1> QED BY <1>3, <1>4, SameLists

\* A vector that keeps its cells and gets those of new blocks with the texts t.
LEMMA GrownLists ==
  ASSUME TypeInv, TypeInv', NEW v \in Vectors, NEW t \in Seq(Seq(Nat)), NEW w,
         w.size = vec[v].size + Len(t), \A i \in 0..(vec[v].size - 1) : w.cells[i] = vec[v].cells[i],
         vec'[v] = w, \A id \in Live : blocks'[id].text = blocks[id].text,
         \A i \in 1..Len(t) : blocks'[w.cells[vec[v].size + i - 1]].text = t[i]
  PROVE  Strings(vec[v])' = Strings(vec[v]) \o t
<1>1. \A i \in 0..(vec[v].size - 1) : vec[v].cells[i] \in Live
  BY EveryVector DEF TypeInv
<1> QED BY <1>1, LongerList

\* A vector that gets one more cell has one more text.
LEMMA PushedList ==
  ASSUME TypeInv, TypeInv', NEW v \in Vectors, NEW id, NEW text \in Seq(Nat), vec'[v] = Push(vec[v], id),
         \A x \in Live : x # id => blocks'[x].text = blocks[x].text, id \notin Elements(vec[v]), blocks'[id].text = text
  PROVE  Strings(vec[v])' = Append(Strings(vec[v]), text)
<1> DEFINE w == Push(vec[v], id)
           t == <<text>>
           s == Strings(vec[v])
<1>1. /\ w.size = vec[v].size + 1 /\ w.cells[vec[v].size] = id
      /\ \A i \in 0..(vec[v].size - 1) : w.cells[i] = vec[v].cells[i]
  BY EveryTypedVector, PushCells
<1>2. t \in Seq(Seq(Nat)) /\ Len(t) = 1 /\ t[1] = text
  OBVIOUS
<1>3. vec[v].size \in Nat /\ vec[v].size + 1 - 1 = vec[v].size
  BY EveryTypedVector
<1>4. \A i \in 0..(vec[v].size - 1) : /\ vec[v].cells[i] \in Elements(vec[v]) /\ vec[v].cells[i] \in Live
  BY EveryVector DEF TypeInv, Elements
<1> HIDE DEF t, w
<1>5. \A i \in 1..Len(t) : blocks'[vec'[v].cells[vec[v].size + i - 1]].text = t[i]
  BY <1>1, <1>2, <1>3 DEF w
<1>6. /\ vec'[v].size = vec[v].size + Len(t)
      /\ \A i \in 0..(vec[v].size - 1) : /\ vec'[v].cells[i] = vec[v].cells[i]
                                         /\ blocks'[vec[v].cells[i]].text = blocks[vec[v].cells[i]].text
  BY <1>1, <1>2, <1>4 DEF w
<1>7. Strings(vec[v])' = s \o t
  BY <1>2, <1>5, <1>6, LongerList
<1>8. s \in Seq(Seq(Nat))
  BY ListNow
<1> HIDE DEF s
<1>9. Append(s, text) = s \o t
  BY <1>8, AppendIsConcat DEF t
<1> QED BY <1>7, <1>9 DEF s

LEMMA AddLists ==
  ASSUME TypeInv, TypeInv', NEW v \in Vectors, NEW text \in Texts, Add(v, text) PROVE Lists!Step
<1> DEFINE id == Fresh(1)[1]
           born == At(id, Exact(text))
<1>1. text \in Seq(Nat) /\ id \notin Live
  BY TextsAssumption, FreshTyped DEF Add
<1>2. /\ vec' = [vec EXCEPT ![v] = Push(vec[v], id)] /\ blocks' = Heap({}, born) /\ UNCHANGED buf
  BY EveryTypedVector DEF Add
<1> HIDE DEF id
<1>3. DOMAIN born = {id} /\ born[id].text = text
  BY DEF At, Exact
<1> HIDE DEF born
<1>4. blocks'[id].text = text /\ \A x \in Live : x # id => blocks'[x] = blocks[x]
  BY <1>2, <1>3, HeapTexts
<1>5. vec'[v] = Push(vec[v], id) /\ \A o \in Vectors : o # v => vec'[o] = vec[o]
  BY <1>2, EveryTypedVector
<1>6. id \notin Elements(vec[v])
  BY <1>1, EveryVector DEF TypeInv
<1>7. Strings(vec[v])' = Append(Strings(vec[v]), text)
  BY <1>1, <1>4, <1>5, <1>6, PushedList
<1>8. \A o \in Vectors : o # v => Strings(vec[o])' = Strings(vec[o])
  <2>1. DOMAIN born \cap Live = {} /\ {} \subseteq Elements(vec[v])
    BY <1>1, <1>3
  <2> QED BY <1>2, <1>5, <2>1, OtherLists
<1> QED BY <1>2, <1>7, <1>8, OneList DEF Becomes

LEMMA AddVectorLists ==
  ASSUME TypeInv, TypeInv', NEW v \in Vectors, NEW o \in Vectors, AddVector(v, o) PROVE Lists!Step
<1> DEFINE n == vec[o].size
           f == Fresh(n)
           u == vec[v]
           m == MakeRoom(u, n)
           w == IF n = 0 THEN m ELSE Put([Store(m, m.size, n, f) EXCEPT !.size = @ + n], m.size + n, Null)
           t == Strings(vec[o])
<1>0. n \in Nat /\ u.size \in Nat /\ Shaped(u)
  BY EveryTypedVector
<1>1. /\ Shaped(m) /\ m.size = u.size /\ u.size + n + 1 <= m.max
      /\ \A i \in 0..(u.size - 1) : m.cells[i] = u.cells[i]
  <2> HIDE DEF n, u
  <2> QED BY <1>0, MakeRoomCells
<1>2. /\ w.size = u.size + n
      /\ \A i \in 0..(u.size - 1) : w.cells[i] = u.cells[i]
      /\ \A i \in 1..n : w.cells[u.size + i - 1] = f[i]
  <2> DEFINE s == Store(m, m.size, n, f)
             p == Put([s EXCEPT !.size = m.size + n], m.size + n, Null)
  <2> HIDE DEF f, n, u, m
  <2>1. CASE n = 0
    BY <1>0, <1>1, <2>1
  <2>2. CASE n # 0
    <3>1. m.size \in Nat /\ m.size + n \in Nat /\ m.size + n <= m.max /\ m.max \in Nat
      BY <1>0, <1>1 DEF Shaped, Sound
    <3>2. /\ p.size = m.size + n
          /\ \A i \in 0..(m.size - 1) : p.cells[i] = m.cells[i]
          /\ \A i \in 1..n : p.cells[m.size + i - 1] = f[i]
      BY <1>0, <1>1, <3>1, FillCells
    <3>3. Shaped(s) /\ s.size = m.size
      BY <1>0, <1>1, <3>1, StoreCells
    <3> HIDE DEF s
    <3>4. [s EXCEPT !.size = @ + n] = [s EXCEPT !.size = m.size + n]
      BY <3>3 DEF Shaped, Sound
    <3>5. w = p
      BY <2>2, <3>4 DEF s
    <3> HIDE DEF p, w
    <3> QED BY <1>1, <3>2, <3>5
  <2> QED BY <2>1, <2>2
<1>3. /\ vec' = [vec EXCEPT ![v] = w] /\ blocks' = Heap({}, Copies(vec[o], f))
      /\ UNCHANGED buf /\ MayAllocate(n)
  BY EveryTypedVector DEF AddVector
<1> HIDE DEF w
<1>4. vec'[v] = w /\ \A x \in Vectors : x # v => vec'[x] = vec[x]
  BY <1>3, EveryTypedVector
<1>5. /\ \A x \in Vectors : x # v => Strings(vec[x])' = Strings(vec[x])
      /\ \A i \in 1..n : blocks'[f[i]].text = t[i]
      /\ \A id \in Live : blocks'[id] = blocks[id]
  <2>1. {} \subseteq Elements(vec[v])
    OBVIOUS
  <2>2. /\ \A x \in Vectors : x # v => Strings(vec[x])' = Strings(vec[x])
        /\ \A i \in 1..vec[o].size : blocks'[Fresh(vec[o].size)[i]].text = Strings(vec[o])[i]
        /\ \A id \in Live : id \notin {} => blocks'[id] = blocks[id]
    BY <1>3, <1>4, <2>1, CopiedLists
  <2> QED BY <2>2
<1>6. t \in Seq(Seq(Nat)) /\ Len(t) = n
  BY ListNow
<1> HIDE DEF f, t, n
<1>7. \A i \in 1..Len(t) : blocks'[w.cells[vec[v].size + i - 1]].text = t[i]
  BY <1>2, <1>5, <1>6
<1>8. Strings(vec[v])' = Strings(vec[v]) \o t
  <2>1. w.size = vec[v].size + Len(t) /\ \A i \in 0..(vec[v].size - 1) : w.cells[i] = vec[v].cells[i]
    BY <1>2, <1>6
  <2>2. \A id \in Live : blocks'[id].text = blocks[id].text
    BY <1>5
  <2> QED BY <1>4, <1>6, <1>7, <2>1, <2>2, GrownLists
<1> QED BY <1>3, <1>5, <1>8, OneList DEF Becomes, t

LEMMA AddVectorWithOwnershipLists ==
  ASSUME TypeInv, TypeInv', NEW v \in Vectors, NEW o \in Vectors, AddVectorWithOwnership(v, o) PROVE Lists!Step
<1> DEFINE n == vec[o].size
           u == vec[v]
           m == MakeRoom(u, n)
           f == [i \in 1..n |-> vec[o].cells[i - 1]]
           s == Store(m, m.size, n, f)
           a == Put([s EXCEPT !.size = m.size + n], m.size + n + 1, Null)
           z == Store(vec[o], 0, n, [i \in 1..n |-> Null])
           b == Put([z EXCEPT !.size = 0], 0, Null)
           t == Strings(vec[o])
<1>0. n \in Nat /\ u.size \in Nat /\ Shaped(u)
  BY EveryTypedVector
<1>1. /\ Shaped(m) /\ m.size = u.size /\ u.size + n + 1 <= m.max
      /\ \A i \in 0..(u.size - 1) : m.cells[i] = u.cells[i]
  <2> HIDE DEF n, u
  <2> QED BY <1>0, MakeRoomCells
<1>2. m.size \in Nat /\ m.size + n <= m.max /\ m.size + n + 1 \in Nat /\ m.size + n + 1 <= m.max /\ m.size + n <= m.size + n + 1
  <2> HIDE DEF n, u, m
  <2> QED BY <1>0, <1>1 DEF Shaped, Sound
<1>3. /\ a.size = u.size + n
      /\ \A i \in 0..(u.size - 1) : a.cells[i] = u.cells[i]
      /\ \A i \in 1..n : a.cells[u.size + i - 1] = f[i]
  <2> HIDE DEF f, n, u, m
  <2> QED BY <1>0, <1>1, <1>2, FillCells
<1>4. [s EXCEPT !.size = @ + n] = [s EXCEPT !.size = m.size + n]
  <2> HIDE DEF f, n, u, m
  <2>1. Shaped(s) /\ s.size = m.size
    BY <1>0, <1>1, <1>2, StoreCells
  <2> HIDE DEF s
  <2> QED BY <2>1 DEF Shaped, Sound
<1>5. v # o /\ UNCHANGED <<buf, blocks>> /\ vec' = [vec EXCEPT ![v] = a, ![o] = b]
  BY <1>4, EveryTypedVector DEF AddVectorWithOwnership
<1>6. b.size = 0
  <2>1. Shaped(vec[o]) /\ n <= vec[o].max /\ vec[o].max \in Nat
    BY EveryTypedVector
  <2>2. Shaped(z) /\ z.max = vec[o].max
    <3> DEFINE g == [i \in 1..n |-> Null]
    <3>1. 0 + n <= vec[o].max
      BY <1>0, <2>1
    <3> HIDE DEF g, n
    <3> QED BY <1>0, <2>1, <3>1, StoreCells
  <2> DEFINE y == [z EXCEPT !.size = 0]
  <2> HIDE DEF z
  <2>3. Shaped(y) /\ y.size = 0 /\ y.max = vec[o].max
    BY <2>1, <2>2, ResizeCells
  <2> HIDE DEF y
  <2>4. Put(y, 0, Null).size = 0
    BY <2>1, <2>3, PutCells
  <2> QED BY <2>4 DEF y
<1>7. \A i \in 1..n : f[i] = vec[o].cells[i - 1]
  OBVIOUS
<1> HIDE DEF a, b, f
<1>8. vec'[v] = a /\ vec'[o] = b /\ \A x \in Vectors : x # v /\ x # o => vec'[x] = vec[x]
  BY <1>5, EveryTypedVector
<1>9. t \in Seq(Seq(Nat)) /\ Len(t) = n /\ \A i \in 1..n : blocks[vec[o].cells[i - 1]].text = t[i]
  BY ListNow
<1> HIDE DEF t
<1>10. Strings(vec[v])' = Strings(vec[v]) \o t
  <2>1. \A i \in 1..Len(t) : blocks'[a.cells[vec[v].size + i - 1]].text = t[i]
    BY <1>3, <1>5, <1>7, <1>9
  <2>2. a.size = vec[v].size + Len(t) /\ \A i \in 0..(vec[v].size - 1) : a.cells[i] = vec[v].cells[i]
    BY <1>3, <1>9
  <2>3. \A id \in Live : blocks'[id].text = blocks[id].text
    BY <1>5
  <2> QED BY <1>8, <1>9, <2>1, <2>2, <2>3, GrownLists
<1>11. Strings(vec[o])' = <<>>
  BY <1>6, <1>8, EmptyList
<1>12. \A x \in Vectors : x # v /\ x # o => Strings(vec[x])' = Strings(vec[x])
  BY <1>5, <1>8, KeptList
<1> DEFINE l == [x \in Vectors |-> Strings(vec[x])]
           ln == [x \in Vectors |-> Strings(vec[x])']
<1>13. l' = ln
  OBVIOUS
<1>14. ln = [l EXCEPT ![v] = l[v] \o l[o], ![o] = <<>>]
  BY <1>5, <1>10, <1>11, <1>12 DEF t
<1> HIDE DEF l, ln
<1>15. l' = [l EXCEPT ![v] = @ \o l[o], ![o] = <<>>]
  BY <1>13, <1>14
<1>16. UNCHANGED [c \in Buffers |-> buf[c].text]
  BY <1>5
<1> QED BY <1>5, <1>15, <1>16 DEF Lists!Step, Lists!Move, l

LEMMA ReplaceLists ==
  ASSUME TypeInv, TypeInv', NEW v \in Vectors, NEW i \in Nat, NEW text \in Texts, Replace(v, i, text) PROVE Lists!Step
<1> DEFINE u == vec[v]
           n == u.size
           id == Fresh(1)[1]
           old == u.cells[i]
           w == Put(u, i, id)
           born == At(id, Exact(text))
           s == Strings(u)
           t == [s EXCEPT ![i + 1] = text]
<1>0. i < n /\ MayAllocate(1) /\ text \in Seq(Nat)
  BY TextsAssumption DEF Replace
<1>1. /\ Shaped(u) /\ Distinct(u) /\ n \in Nat /\ u.max \in Nat /\ n <= u.max /\ Elements(u) \subseteq Live
  BY EveryVector DEF TypeInv
<1>2. id \notin Live
  BY <1>0, FreshTyped
<1>3. vec' = [vec EXCEPT ![v] = w] /\ blocks' = Heap({old}, born) /\ UNCHANGED buf
  BY EveryTypedVector DEF Replace
<1> HIDE DEF id
<1>4. w.size = n /\ \A j \in 0..u.max : w.cells[j] = IF j = i THEN id ELSE u.cells[j]
  <2>1. i <= u.max
    BY <1>0, <1>1
  <2> HIDE DEF u
  <2> QED BY <1>1, <2>1, PutCells
<1>5. DOMAIN born = {id} /\ born[id].text = text
  BY DEF At, Exact
<1>6. s \in Seq(Seq(Nat)) /\ Len(s) = n /\ \A j \in 1..n : s[j] = blocks[u.cells[j - 1]].text
  BY ListNow
<1> HIDE DEF w, born, s
<1>7. blocks'[id].text = text /\ \A x \in Live : x # old /\ x # id => blocks'[x] = blocks[x]
  BY <1>3, <1>5, HeapTexts
<1>8. old \in Elements(u) /\ \A j \in 0..(n - 1) : u.cells[j] \in Live /\ (u.cells[j] = old => j = i)
  <2> HIDE DEF u
  <2>1. i \in 0..(n - 1)
    BY <1>0, <1>1
  <2>2. \A j \in 0..(n - 1) : u.cells[j] \in Elements(u)
    BY DEF Elements
  <2>3. \A j \in 0..(n - 1) : u.cells[j] = u.cells[i] => j = i
    BY <1>1, <2>1 DEF Distinct
  <2> QED BY <1>1, <2>1, <2>2, <2>3
<1>9. vec'[v] = w /\ \A o \in Vectors : o # v => vec'[o] = vec[o]
  BY <1>3, EveryTypedVector
<1>10. /\ i + 1 \in 1..n /\ t \in Seq(Seq(Nat)) /\ Len(t) = n
       /\ \A j \in 1..n : t[j] = IF j = i + 1 THEN text ELSE s[j]
  <2>1. i + 1 \in 1..n
    BY <1>0, <1>1
  <2>2. i + 1 \in 1..Len(s)
    BY <1>6, <2>1
  <2>3. /\ t \in Seq(Seq(Nat)) /\ Len(t) = Len(s)
        /\ \A j \in 1..Len(s) : t[j] = IF j = i + 1 THEN text ELSE s[j]
    <3> HIDE DEF u, n
    <3> QED BY <1>0, <1>6, <2>2, ExceptSeq
  <2> QED BY <1>6, <2>1, <2>3
<1> HIDE DEF t, old
<1>11. ASSUME NEW j \in 1..n PROVE blocks'[w.cells[j - 1]].text = t[j]
  <2>1. j - 1 \in 0..(n - 1) /\ j - 1 \in 0..u.max
    BY <1>1
  <2>2. CASE j - 1 = i
    <3>1. j = i + 1
      BY <1>1, <2>2
    <3> QED BY <1>4, <1>7, <1>10, <2>1, <2>2, <3>1
  <2>3. CASE j - 1 # i
    <3>1. j # i + 1
      BY <2>3
    <3>2. w.cells[j - 1] = u.cells[j - 1] /\ u.cells[j - 1] \in Live /\ u.cells[j - 1] # old
      BY <1>4, <1>8, <2>1, <2>3
    <3>3. t[j] = blocks[u.cells[j - 1]].text
      BY <1>6, <1>10, <3>1
    <3> QED BY <1>2, <1>7, <3>2, <3>3
  <2> QED BY <2>2, <2>3
<1>12. Strings(vec[v])' = t
  BY <1>4, <1>9, <1>10, <1>11, ListNext
<1>13. \A o \in Vectors : o # v => Strings(vec[o])' = Strings(vec[o])
  <2>1. DOMAIN born \cap Live = {} /\ {old} \subseteq Elements(vec[v])
    BY <1>2, <1>5, <1>8
  <2> QED BY <1>3, <1>9, <2>1, OtherLists
<1>14. i + 1 \in 1..Len(Strings(vec[v])) /\ t = [Strings(vec[v]) EXCEPT ![i + 1] = text]
  BY <1>6, <1>10 DEF s, t
<1>15. Becomes(v, t)
  BY <1>14 DEF Becomes
<1> QED BY <1>3, <1>12, <1>13, <1>15, OneList

LEMMA SortLists ==
  ASSUME TypeInv, TypeInv', NEW v \in Vectors, Sort(v) PROVE Lists!Step
<1> DEFINE u == vec[v]
           n == u.size
           s == Strings(u)
<1>1. PICK p \in [1..n -> 1..n] :
         /\ \A i, j \in 1..n : i < j => p[i] # p[j]
         /\ vec' = [vec EXCEPT ![v] = Store(u, 0, n, [i \in 1..n |-> u.cells[p[i] - 1]])]
         /\ UNCHANGED <<buf, blocks, failed>>
  BY DEF Sort
<1> DEFINE f == [i \in 1..n |-> u.cells[p[i] - 1]]
           w == Store(u, 0, n, f)
           t == [i \in 1..n |-> s[p[i]]]
<1>2. Shaped(u) /\ n \in Nat /\ u.max \in Nat /\ n <= u.max /\ n = u.size
  BY EveryTypedVector
<1>3. s \in Seq(Seq(Nat)) /\ Len(s) = n /\ \A j \in 1..n : s[j] = blocks[u.cells[j - 1]].text
  BY ListNow
<1> HIDE DEF n, s
<1>4. w.size = n /\ \A j \in 0..u.max : w.cells[j] = IF j \in 0..(0 + n - 1) THEN f[j - 0 + 1] ELSE u.cells[j]
  <2>1. 0 + n <= u.max
    BY <1>2
  <2> HIDE DEF f, u
  <2> QED BY <1>2, <2>1, StoreCells
<1>5. \A j \in 1..n : w.cells[j - 1] = u.cells[p[j] - 1]
  <2> TAKE j \in 1..n
  <2>1. j - 1 \in 0..u.max /\ j - 1 \in 0..(0 + n - 1) /\ (j - 1) - 0 + 1 = j
    BY <1>2
  <2>2. f[j] = u.cells[p[j] - 1]
    OBVIOUS
  <2> HIDE DEF f, w
  <2> QED BY <1>4, <2>1, <2>2
<1>6. t \in Seq(Seq(Nat)) /\ Len(t) = n /\ \A j \in 1..n : t[j] = s[p[j]]
  <2>1. \A j \in 1..n : s[p[j]] \in Seq(Nat)
    <3> TAKE j \in 1..n
    <3>1. p[j] \in 1..Len(s)
      BY <1>3
    <3> QED BY <1>3, <3>1, ElementOfSeq
  <2> QED BY <1>2, <2>1, IsASeq
<1>7. vec'[v] = w /\ \A x \in Vectors : x # v => vec'[x] = vec[x]
  BY <1>1, EveryTypedVector
<1> HIDE DEF w
<1>8. Strings(vec[v])' = t
  <2>1. \A j \in 1..Len(t) : blocks'[vec'[v].cells[j - 1]].text = t[j]
    <3> TAKE j \in 1..Len(t)
    <3>1. j \in 1..n
      BY <1>6
    <3>2. p[j] \in 1..n
      BY <3>1
    <3>3. t[j] = s[p[j]] /\ s[p[j]] = blocks[u.cells[p[j] - 1]].text
      BY <1>3, <3>1, <3>2
    <3>4. vec'[v].cells[j - 1] = u.cells[p[j] - 1]
      BY <1>5, <1>7, <3>1
    <3> HIDE DEF t
    <3> QED BY <1>1, <3>3, <3>4
  <2> HIDE DEF t
  <2> QED BY <1>4, <1>6, <1>7, <2>1, ListNext
<1>9. \A x \in Vectors : x # v => Strings(vec[x])' = Strings(vec[x])
  BY <1>1, <1>7, KeptList
<1>10. Lists!Permutes(s, t)
  <2>1. \A i, j \in 1..n : p[i] = p[j] => i = j
    BY <1>1, <1>2
  <2>2. p \in [1..Len(s) -> 1..Len(s)] /\ (\A i, j \in 1..Len(s) : p[i] = p[j] => i = j) /\ t = [i \in 1..Len(s) |-> s[p[i]]]
    BY <1>3, <2>1
  <2> HIDE DEF t
  <2> QED BY <2>2 DEF Lists!Permutes
<1>11. Becomes(v, t)
  BY <1>10 DEF Becomes, s
<1> HIDE DEF t
<1> QED BY <1>1, <1>8, <1>9, <1>11, OneList

LEMMA RemoveLastLists ==
  ASSUME TypeInv, TypeInv', NEW v \in Vectors, RemoveLast(v) PROVE Lists!Step
<1> DEFINE u == vec[v]
           k == u.size - 1
           old == u.cells[k]
           p == Put(u, k, Null)
           w == [p EXCEPT !.size = k]
           s == Strings(u)
           t == Lists!Prefix(s)
<1>1. /\ Shaped(u) /\ Distinct(u) /\ u.size \in Nat /\ u.max \in Nat /\ u.size <= u.max /\ Elements(u) \subseteq Live
  BY EveryVector DEF TypeInv
<1>2. u.size > 0 /\ k \in Nat /\ k < u.size /\ k <= u.max /\ old \in Elements(u)
  <2>1. u.size > 0
    BY DEF RemoveLast
  <2> QED BY <1>1, <2>1 DEF Elements
<1>3. Shaped(p) /\ p.max = u.max /\ p.size = u.size /\ \A j \in 0..u.max : p.cells[j] = IF j = k THEN Null ELSE u.cells[j]
  <2> HIDE DEF u, k
  <2> QED BY <1>1, <1>2, PutCells
<1>4. w.size = k /\ w.cells = p.cells
  <2> HIDE DEF p, u, k
  <2> QED BY <1>1, <1>2, <1>3, ResizeCells
<1>5. blocks' = Heap({old}, None) /\ vec' = [vec EXCEPT ![v] = w] /\ UNCHANGED buf
  BY EveryTypedVector DEF RemoveLast
<1> HIDE DEF w, p
<1>6. \A j \in 1..k : j - 1 \in 0..(u.size - 1) /\ w.cells[j - 1] = u.cells[j - 1] /\ u.cells[j - 1] # old
                      /\ u.cells[j - 1] \in Live
  <2> TAKE j \in 1..k
  <2>1. j - 1 \in 0..(u.size - 1) /\ j - 1 # k /\ k \in 0..(u.size - 1) /\ j - 1 \in 0..u.max
    BY <1>1, <1>2
  <2> QED BY <1>1, <1>3, <1>4, <2>1 DEF Distinct, Elements
<1>7. vec'[v] = w /\ \A x \in Vectors : x # v => vec'[x] = vec[x]
  BY <1>5, EveryTypedVector
<1>8. s \in Seq(Seq(Nat)) /\ Len(s) = u.size /\ \A j \in 1..u.size : s[j] = blocks[u.cells[j - 1]].text
  BY ListNow
<1> HIDE DEF s, old
<1>9. t \in Seq(Seq(Nat)) /\ Len(t) = k /\ \A j \in 1..k : t[j] = s[j]
  <2> DEFINE m == k
  <2>0. Len(s) - 1 = m /\ m \in Nat /\ 1 \in Int /\ m \in Int
    BY <1>1, <1>2, <1>8
  <2> HIDE DEF m
  <2>1. \A j \in 1..m : s[j] \in Seq(Nat)
    <3> TAKE j \in 1..m
    <3>1. j \in 1..Len(s)
      BY <2>0, <1>8
    <3> QED BY <1>8, <3>1, ElementOfSeq
  <2>2. /\ SubSeq(s, 1, m) \in Seq(Seq(Nat)) /\ Len(SubSeq(s, 1, m)) = IF 1 <= m THEN m - 1 + 1 ELSE 0
        /\ \A j \in 1..(m - 1 + 1) : SubSeq(s, 1, m)[j] = s[1 + j - 1]
    BY <2>0, <2>1, SubSeqProperties
  <2>3. t = SubSeq(s, 1, m)
    BY <2>0 DEF Lists!Prefix
  <2>4. Len(t) = m /\ \A j \in 1..m : t[j] = s[j]
    BY <2>0, <2>2, <2>3
  <2> QED BY <2>2, <2>3, <2>4 DEF m
<1> HIDE DEF t
<1>10. Strings(vec[v])' = t
  <2>1. \A x \in Live : x # old => blocks'[x] = blocks[x]
    <3>1. \A id \in Live : id \notin {old} /\ id \notin DOMAIN None => blocks'[id] = blocks[id]
      BY <1>5, HeapTexts
    <3> QED BY <3>1, DomainOfNone
  <2>2. ASSUME NEW j \in 1..Len(t) PROVE blocks'[vec'[v].cells[j - 1]].text = t[j]
    <3>1. j \in 1..k /\ j \in 1..u.size
      BY <1>1, <1>2, <1>9
    <3>2. vec'[v].cells[j - 1] = u.cells[j - 1] /\ blocks'[u.cells[j - 1]] = blocks[u.cells[j - 1]]
      BY <1>6, <1>7, <2>1, <3>1
    <3> QED BY <1>8, <1>9, <3>1, <3>2
  <2> QED BY <1>4, <1>7, <1>9, <2>2, ListNext
<1>11. \A o \in Vectors : o # v => Strings(vec[o])' = Strings(vec[o])
  <2>1. DOMAIN None \cap Live = {} /\ {old} \subseteq Elements(vec[v])
    BY <1>2, DomainOfNone
  <2> QED BY <1>5, <1>7, <2>1, OtherLists
<1>12. Becomes(v, t)
  BY DEF Becomes, t, s
<1> QED BY <1>5, <1>10, <1>11, <1>12, OneList

\* The strings of the vectors are not in the block of a buffer.
LEMMA BufferLists ==
  ASSUME TypeInv, TypeInv', NEW b \in Buffers, NEW v \in Vectors, vec'[v] = vec[v],
         \A id \in Live : id \notin Owned(b) => blocks'[id].text = blocks[id].text
  PROVE  Strings(vec[v])' = Strings(vec[v])
<1>1. Elements(vec[v]) \cap Owned(b) = {} /\ Elements(vec[v]) \subseteq Live
  BY DEF TypeInv, OwnInv
<1>2. \A i \in 1..vec[v].size : vec[v].cells[i - 1] \in Elements(vec[v])
  BY ListNow
<1>3. \A i \in 1..vec[v].size : blocks'[vec[v].cells[i - 1]].text = blocks[vec[v].cells[i - 1]].text
  BY <1>1, <1>2
<1> QED BY <1>3, KeptList

\* One buffer, and its block, changes.
LEMMA OneBufferLists ==
  ASSUME TypeInv, TypeInv', NEW b \in Buffers, vec' = vec, \A c \in Buffers : c # b => buf'[c].text = buf[c].text,
         \A id \in Live : id \notin Owned(b) => blocks'[id].text = blocks[id].text,
         \/ buf'[b].text = <<>> \/ buf'[b].text = Lists!Prefix(buf[b].text)
         \/ \E x \in Texts : buf'[b].text = buf[b].text \o x \/ buf'[b].text = x
  PROVE  Lists!Step
<1>1. \A v \in Vectors : Strings(vec[v])' = Strings(vec[v])
  BY BufferLists
<1> QED BY <1>1, OneText

\* What is written in a buffer is what it kept and the new text.
LEMMA WriteTexts ==
  ASSUME TypeInv, NEW b \in Buffers, NEW kept, NEW text, Write(b, kept, text)
  PROVE  /\ vec' = vec /\ buf'[b].text = kept \o text /\ \A c \in Buffers : c # b => buf'[c] = buf[c]
         /\ \A id \in Live : id \notin Owned(b) => blocks'[id].text = blocks[id].text
<1> DEFINE new == GrownSize(buf[b].max, Len(kept) + 1, Len(text))
           all == kept \o text
           size == Len(kept \o text) + 1
<1>0. vec' = vec
  BY DEF Write
<1>1. CASE /\ buf' = [buf EXCEPT ![b].text = all, ![b].spill = IF size > Capacity(b) THEN 1 ELSE @]
           /\ UNCHANGED blocks
  <2> DEFINE y == IF size > Capacity(b) THEN 1 ELSE buf[b].spill
  <2>1. buf' = [buf EXCEPT ![b].text = all, ![b].spill = y]
    BY <1>1
  <2> HIDE DEF y, all, size
  <2>2. buf'[b].text = all /\ \A c \in Buffers : c # b => buf'[c] = buf[c]
    BY <2>1, EveryTypedBuffer
  <2> QED BY <1>0, <1>1, <2>2 DEF all
<1>2. CASE /\ MayAllocate(1)
           /\ \E id \in {Fresh(1)[1]} :
                /\ buf' = [buf EXCEPT ![b] = [at |-> id, text |-> all, max |-> new,
                                              spill |-> IF size > new THEN 1 ELSE @.spill]]
                /\ blocks' = Heap(Owned(b), At(id, [text |-> <<>>, cap |-> new]))
  <2> DEFINE id == Fresh(1)[1]
             block == [text |-> <<>>, cap |-> new]
             y == IF size > new THEN 1 ELSE buf[b].spill
             r == [at |-> id, text |-> all, max |-> new, spill |-> y]
  <2>1. buf' = [buf EXCEPT ![b] = r] /\ blocks' = Heap(Owned(b), At(id, block))
    BY <1>2
  <2>2. id \notin Live
    BY <1>2, FreshTyped
  <2>3. r.text = all
    OBVIOUS
  <2> HIDE DEF r, id, block, all
  <2>4. buf'[b].text = all /\ \A c \in Buffers : c # b => buf'[c] = buf[c]
    BY <2>1, <2>3, EveryTypedBuffer
  <2>5. \A x \in Live : x \notin Owned(b) => blocks'[x] = blocks[x]
    <3>1. \A x \in Live : x \notin Owned(b) /\ x \notin DOMAIN At(id, block) => blocks'[x] = blocks[x]
      BY <2>1, HeapTexts
    <3> QED BY <2>2, <3>1, DomainOfAt
  <2> QED BY <1>0, <2>4, <2>5 DEF all
<1> QED BY <1>1, <1>2 DEF Write

LEMMA AppendTextLists ==
  ASSUME TypeInv, TypeInv', NEW b \in Buffers, NEW text \in Texts, AppendText(b, text) PROVE Lists!Step
<1> DEFINE kept == buf[b].text
<1>1. Write(b, kept, text)
  BY DEF AppendText
<1> HIDE DEF kept
<1>2. /\ vec' = vec /\ buf'[b].text = kept \o text /\ \A c \in Buffers : c # b => buf'[c].text = buf[c].text
      /\ \A id \in Live : id \notin Owned(b) => blocks'[id].text = blocks[id].text
  <2>1. /\ vec' = vec /\ buf'[b].text = kept \o text /\ \A c \in Buffers : c # b => buf'[c] = buf[c]
        /\ \A id \in Live : id \notin Owned(b) => blocks'[id].text = blocks[id].text
    BY <1>1, WriteTexts
  <2> QED BY <2>1
<1> QED BY <1>2, OneBufferLists DEF kept

LEMMA SetTextLists ==
  ASSUME TypeInv, TypeInv', NEW b \in Buffers, NEW text \in Texts, SetText(b, text) PROVE Lists!Step
<1> DEFINE none == <<>>
<1>1. Write(b, none, text)
  BY DEF SetText
<1>2. none \o text = text
  BY TextsAssumption, ConcatEmptySeq
<1> HIDE DEF none
<1>3. buf'[b].text = text
  BY <1>1, <1>2, WriteTexts
<1> QED BY <1>1, <1>3, WriteTexts, OneBufferLists

LEMMA ClearLists ==
  ASSUME TypeInv, TypeInv', NEW b \in Buffers, Clear(b) PROVE Lists!Step
<1>1. /\ vec' = vec /\ blocks' = blocks /\ buf' = [buf EXCEPT ![b].text = <<>>, ![b].max = InternalSize]
  BY DEF Clear
<1>2. buf'[b].text = <<>> /\ \A c \in Buffers : c # b => buf'[c].text = buf[c].text
  BY <1>1, EveryTypedBuffer
<1> QED BY <1>1, <1>2, OneBufferLists

LEMMA DeleteLastCharLists ==
  ASSUME TypeInv, TypeInv', NEW b \in Buffers, DeleteLastChar(b) PROVE Lists!Step
<1> DEFINE t == Lists!Prefix(buf[b].text)
<1>1. /\ vec' = vec /\ blocks' = blocks /\ buf' = [buf EXCEPT ![b].text = t]
  BY DEF DeleteLastChar, Lists!Prefix
<1> HIDE DEF t
<1>2. buf'[b].text = t /\ \A c \in Buffers : c # b => buf'[c].text = buf[c].text
  BY <1>1, EveryTypedBuffer
<1> QED BY <1>1, <1>2, OneBufferLists DEF t

\* A buffer that starts again has no text.
LEMMA ResetText == ASSUME NEW spill PROVE [EmptyBuffer EXCEPT !.spill = spill].text = <<>>
BY DEF EmptyBuffer

LEMMA RebuildLists ==
  ASSUME TypeInv, TypeInv', NEW b \in Buffers, Rebuild(b) PROVE Lists!Step
<1> DEFINE z == [EmptyBuffer EXCEPT !.spill = buf[b].spill]
<1>1. /\ vec' = vec /\ blocks' = Heap(Owned(b), None) /\ buf' = [buf EXCEPT ![b] = z]
  BY DEF Rebuild
<1>2. z.text = <<>>
  BY ResetText
<1> HIDE DEF z
<1>3. buf'[b].text = <<>> /\ \A c \in Buffers : c # b => buf'[c].text = buf[c].text
  BY <1>1, <1>2, EveryTypedBuffer
<1>4. \A id \in Live : id \notin Owned(b) => blocks'[id].text = blocks[id].text
  <2>1. \A id \in Live : id \notin Owned(b) /\ id \notin DOMAIN None => blocks'[id] = blocks[id]
    BY <1>1, HeapTexts
  <2> QED BY <2>1, DomainOfNone
<1> QED BY <1>1, <1>3, <1>4, OneBufferLists

LEMMA TakeOwnershipLists ==
  ASSUME TypeInv, TypeInv', NEW b \in Buffers, NEW o \in Buffers, TakeOwnership(b, o) PROVE Lists!Step
<1> DEFINE z == [EmptyBuffer EXCEPT !.spill = buf[o].spill]
           text == buf[o].text
<1>0. b # o /\ vec' = vec
  BY DEF TakeOwnership
<1>1. z.text = <<>>
  BY ResetText
<1> HIDE DEF z, text
<1>2. /\ buf'[b].text = text /\ buf'[o].text = <<>> /\ \A c \in Buffers : c # b /\ c # o => buf'[c].text = buf[c].text
      /\ \A id \in Live : id \notin Owned(b) => blocks'[id].text = blocks[id].text
  <2>1. CASE /\ buf' = [buf EXCEPT ![b].text = text,
                                   ![b].spill = IF Len(text) + 1 > Capacity(b) THEN 1 ELSE @, ![o] = z]
             /\ UNCHANGED blocks
    <3> DEFINE y == IF Len(text) + 1 > Capacity(b) THEN 1 ELSE buf[b].spill
    <3>1. buf' = [buf EXCEPT ![b].text = text, ![b].spill = y, ![o] = z]
      BY <2>1
    <3> HIDE DEF y
    <3>2. buf'[b].text = text /\ buf'[o] = z /\ \A c \in Buffers : c # b /\ c # o => buf'[c] = buf[c]
      BY <1>0, <3>1, EveryTypedBuffer
    <3> QED BY <1>1, <2>1, <3>2
  <2>2. CASE /\ buf' = [buf EXCEPT ![b] = [buf[o] EXCEPT !.spill = @ + buf[b].spill], ![o] = z]
             /\ blocks' = Heap(Owned(b), None)
    <3> DEFINE r == [buf[o] EXCEPT !.spill = @ + buf[b].spill]
    <3>1. r.text = text
      BY EveryTypedBuffer DEF text
    <3> HIDE DEF r
    <3>2. buf'[b] = r /\ buf'[o] = z /\ \A c \in Buffers : c # b /\ c # o => buf'[c] = buf[c]
      BY <1>0, <2>2, EveryTypedBuffer DEF r
    <3>3. \A id \in Live : id \notin Owned(b) /\ id \notin DOMAIN None => blocks'[id] = blocks[id]
      BY <2>2, HeapTexts
    <3> QED BY <1>1, <3>1, <3>2, <3>3, DomainOfNone
  <2> QED BY <2>1, <2>2 DEF TakeOwnership, z, text
<1>3. \A v \in Vectors : Strings(vec[v])' = Strings(vec[v])
  BY <1>0, <1>2, BufferLists
<1> DEFINE l == [u \in Vectors |-> Strings(vec[u])]
           x == [c \in Buffers |-> buf[c].text]
           xn == [c \in Buffers |-> buf'[c].text]
<1>4. l' = l
  BY <1>3
<1>5. x' = xn /\ xn = [x EXCEPT ![b] = text, ![o] = <<>>] /\ x[o] = text
  BY <1>0, <1>2 DEF text
<1> HIDE DEF l, x, xn
<1>6. x' = [x EXCEPT ![b] = x[o], ![o] = <<>>]
  BY <1>5
<1> QED BY <1>0, <1>4, <1>6 DEF Lists!Step, Lists!Move, l, x

LEMMA AddBufferLists ==
  ASSUME TypeInv, TypeInv', NEW v \in Vectors, NEW b \in Buffers, AddBuffer(v, b) PROVE Lists!Step
<1> DEFINE z == [EmptyBuffer EXCEPT !.spill = buf[b].spill]
           text == buf[b].text
<1>0. buf' = [buf EXCEPT ![b] = z] /\ text \in Seq(Nat)
  BY EveryTypedBuffer DEF AddBuffer
<1>1. z.text = <<>>
  BY ResetText
<1> HIDE DEF z
<1>2. \E id : /\ vec' = [vec EXCEPT ![v] = Push(vec[v], id)] /\ id \notin Elements(vec[v]) /\ blocks'[id].text = text
              /\ \A x \in Live : x # id => blocks'[x] = blocks[x]
              /\ id \in Live => id \in Owned(b)
  <2>1. CASE /\ MayAllocate(1)
             /\ \E id \in {Fresh(1)[1]} :
                  /\ vec' = [vec EXCEPT ![v] = Push(@, id)]
                  /\ blocks' = Heap({}, At(id, Exact(text)))
    <3> DEFINE id == Fresh(1)[1]
               born == At(id, Exact(text))
    <3>1. id \notin Live
      BY <2>1, FreshTyped
    <3>2. vec' = [vec EXCEPT ![v] = Push(vec[v], id)] /\ blocks' = Heap({}, born)
      BY <2>1, EveryTypedVector
    <3> HIDE DEF id, text
    <3>3. DOMAIN born = {id} /\ born[id].text = text
      BY DEF At, Exact
    <3> HIDE DEF born
    <3>4. blocks'[id].text = text /\ \A x \in Live : x # id => blocks'[x] = blocks[x]
      BY <3>2, <3>3, HeapTexts
    <3>5. id \notin Elements(vec[v])
      BY <3>1, EveryVector DEF TypeInv
    <3> QED BY <3>1, <3>2, <3>4, <3>5
  <2>2. CASE /\ buf[b].at # Internal
             /\ vec' = [vec EXCEPT ![v] = Push(@, buf[b].at)]
             /\ blocks' = [blocks EXCEPT ![buf[b].at].text = text]
    <3> DEFINE id == buf[b].at
               block == [blocks[id] EXCEPT !.text = text]
    <3>1. id \in Live /\ Owned(b) = {id}
      BY <2>2, EveryTypedBuffer
    <3>2. Elements(vec[v]) \cap Owned(b) = {} /\ blocks \in [Live -> Block]
      BY DEF TypeInv, OwnInv
    <3>3. vec' = [vec EXCEPT ![v] = Push(vec[v], id)] /\ blocks' = [blocks EXCEPT ![id] = block]
      BY <2>2, EveryTypedVector
    <3> HIDE DEF id, text
    <3>4. block.text = text
      BY <3>1, <3>2 DEF Block
    <3> HIDE DEF block
    <3>5. blocks'[id].text = text /\ \A x \in Live : x # id => blocks'[x] = blocks[x]
      BY <3>1, <3>2, <3>3, <3>4
    <3> QED BY <3>1, <3>2, <3>3, <3>5
  <2> QED BY <2>1, <2>2 DEF AddBuffer
<1>3. PICK id : /\ vec' = [vec EXCEPT ![v] = Push(vec[v], id)] /\ id \notin Elements(vec[v]) /\ blocks'[id].text = text
                /\ \A x \in Live : x # id => blocks'[x] = blocks[x]
                /\ id \in Live => id \in Owned(b)
  BY <1>2
<1>4. vec'[v] = Push(vec[v], id) /\ \A u \in Vectors : u # v => vec'[u] = vec[u]
  BY <1>3, EveryTypedVector
<1> HIDE DEF text
<1>5. Strings(vec[v])' = Append(Strings(vec[v]), text)
  BY <1>0, <1>3, <1>4, PushedList
<1>6. \A u \in Vectors : u # v => Strings(vec[u])' = Strings(vec[u])
  <2>1. \A x \in Live : x \notin Owned(b) => blocks'[x].text = blocks[x].text
    BY <1>3
  <2> QED BY <1>4, <2>1, BufferLists
<1>7. buf'[b].text = <<>> /\ \A c \in Buffers : c # b => buf'[c].text = buf[c].text
  BY <1>0, <1>1, EveryTypedBuffer
<1> DEFINE l == [u \in Vectors |-> Strings(vec[u])]
           ln == [u \in Vectors |-> Strings(vec[u])']
           x == [c \in Buffers |-> buf[c].text]
           xn == [c \in Buffers |-> buf'[c].text]
<1>8. l' = ln /\ ln = [l EXCEPT ![v] = Append(l[v], text)]
  BY <1>5, <1>6
<1>9. x' = xn /\ xn = [x EXCEPT ![b] = <<>>] /\ x[b] = text
  BY <1>7 DEF text
<1> HIDE DEF l, ln, x, xn
<1>10. l' = [l EXCEPT ![v] = Append(@, x[b])] /\ x' = [x EXCEPT ![b] = <<>>]
  BY <1>8, <1>9
<1> QED BY <1>10 DEF Lists!Step, Lists!Move, l, x

LEMMA InitLists == Init => Lists!Init
<1> SUFFICES ASSUME Init PROVE Lists!Init
  OBVIOUS
<1>1. ASSUME NEW v \in Vectors PROVE Strings(vec[v]) = <<>>
  <2>1. vec[v].size = 0
    BY DEF Init, Empty
  <2> QED BY <2>1 DEF Strings
<1>2. \A b \in Buffers : buf[b].text = <<>>
  BY DEF Init, EmptyBuffer
<1>3. died = FALSE
  BY DEF Init
<1> QED BY <1>1, <1>2, <1>3 DEF Lists!Init

LEMMA StepLists == TypeInv /\ TypeInv' /\ Step /\ UNCHANGED died => Lists!Step \/ UNCHANGED Lists!vars
<1> SUFFICES ASSUME TypeInv, TypeInv', Step, UNCHANGED died PROVE Lists!Step \/ UNCHANGED Lists!vars
  OBVIOUS
<1>1. ASSUME NEW v \in Vectors, VectorStep(v) PROVE Lists!Step \/ UNCHANGED Lists!vars
  <2>1. CASE \E n \in Capacities : Construct(v, n) \/ Reserve(v, n)
    BY <2>1, ConstructLists, ReserveLists
  <2>2. CASE \E o \in Vectors : CopyConstruct(v, o) \/ Assign(v, o) \/ AddVector(v, o) \/ AddVectorWithOwnership(v, o)
    BY <2>2, CopyConstructLists, AssignLists, AddVectorLists, AddVectorWithOwnershipLists
  <2>3. CASE \E text \in Texts : Add(v, text)
    BY <2>3, AddLists
  <2>4. CASE \E text \in Texts : \E i \in 0..(MaxLength - 1) : Replace(v, i, text)
    <3>1. \A i \in 0..(MaxLength - 1) : i \in Nat
      BY SizesAssumption
    <3> QED BY <2>4, <3>1, ReplaceLists
  <2>5. CASE Sort(v) \/ RemoveAll(v) \/ RemoveLast(v)
    BY <2>5, SortLists, RemoveAllLists, RemoveLastLists
  <2> QED BY <1>1, <2>1, <2>2, <2>3, <2>4, <2>5 DEF VectorStep
<1>2. ASSUME NEW b \in Buffers, BufferStep(b) PROVE Lists!Step
  <2>1. CASE \E text \in Texts : AppendText(b, text) \/ SetText(b, text)
    BY <2>1, AppendTextLists, SetTextLists
  <2>2. CASE \E o \in Buffers : TakeOwnership(b, o)
    BY <2>2, TakeOwnershipLists
  <2>3. CASE \E v \in Vectors : AddBuffer(v, b)
    BY <2>3, AddBufferLists
  <2>4. CASE Clear(b) \/ DeleteLastChar(b) \/ Rebuild(b)
    BY <2>4, ClearLists, DeleteLastCharLists, RebuildLists
  <2> QED BY <1>2, <2>1, <2>2, <2>3, <2>4 DEF BufferStep
<1> QED BY <1>1, <1>2 DEF Step

\* The list that is assigned to itself has only empty texts, the others keep theirs.
LEMMA DeathLists ==
  ASSUME TypeInv, NEW v \in Vectors, AssignToItself(v) PROVE Lists!Die(v)
<1>0. OwnInv
  BY DEF TypeInv
<1>1. Strings(vec[v])' = [i \in 1..vec[v].size |-> <<>>]
  <2>0. vec[v].size \in Nat
    BY <1>0, Death
  <2>1. \A i \in 1..vec[v].size : i - 1 \in 0..(vec[v].size - 1)
    BY <2>0
  <2>2. \A i \in 1..vec[v].size : vec'[v].cells[i - 1] = Null
    BY <1>0, <2>1, Death
  <2>3. Null \notin Live'
    BY <1>0, Death, HeapAssumption DEF OwnInv
  <2>4. TextOf(Null)' = <<>>
    BY <2>3 DEF TextOf
  <2>5. Strings(vec[v])' = [i \in 1..vec'[v].size |-> TextOf(vec[v].cells[i - 1])']
    BY DEF Strings
  <2>6. vec'[v].size = vec[v].size
    BY <1>0, Death
  <2>7. \A i \in 1..vec[v].size : TextOf(vec[v].cells[i - 1])' = <<>>
    BY <2>2, <2>3 DEF TextOf
  <2> QED BY <2>5, <2>6, <2>7
<1>2. ASSUME NEW o \in Vectors, o # v PROVE Strings(vec[o])' = Strings(vec[o])
  <2>1. vec'[o] = vec[o] /\ vec[o].size \in Nat
    BY <1>0, <1>2, Death, EveryVector
  <2>2. Elements(vec[o]) \cap Elements(vec[v]) = {} /\ Elements(vec[o]) \subseteq Live
    BY <1>2 DEF TypeInv, OwnInv
  <2>3. \A id \in Elements(vec[o]) : id \in Live' /\ blocks'[id] = blocks[id]
    BY <1>0, <2>2, Death, HeapTexts, DomainOfNone
  <2>4. \A i \in 1..vec[o].size : vec[o].cells[i - 1] \in Elements(vec[o])
    BY ListNow
  <2>5. \A i \in 1..vec[o].size : TextOf(vec[o].cells[i - 1])' = TextOf(vec[o].cells[i - 1])
    BY <2>1, <2>2, <2>3, <2>4 DEF TextOf
  <2>6. Strings(vec[o])' = [i \in 1..vec'[o].size |-> TextOf(vec[o].cells[i - 1])']
    BY DEF Strings
  <2>7. Strings(vec[o]) = [i \in 1..vec[o].size |-> TextOf(vec[o].cells[i - 1])]
    BY DEF Strings
  <2> QED BY <2>1, <2>5, <2>6, <2>7
<1> DEFINE l == [u \in Vectors |-> Strings(vec[u])]
           ln == [u \in Vectors |-> Strings(vec[u])']
           x == [b \in Buffers |-> buf[b].text]
<1>3. l' = ln /\ x' = x
  <2>1. UNCHANGED buf
    BY <1>0, Death
  <2> QED BY <2>1
<1>4. Len(l[v]) = vec[v].size /\ vec[v].size \in Nat /\ vec[v].size > 0 /\ l[v] \in Seq(Seq(Nat))
  BY <1>0, Death, ListNow
<1>5. ln = [l EXCEPT ![v] = [i \in 1..vec[v].size |-> <<>>]]
  BY <1>1, <1>2
<1> HIDE DEF l, ln, x
<1>6. l[v] # <<>> /\ l' = [l EXCEPT ![v] = [i \in 1..Len(@) |-> <<>>]] /\ x' = x
  <2>1. Len(<<>>) = 0
    BY EmptySeq
  <2> QED BY <1>3, <1>4, <1>5, <2>1
<1>7. died' = TRUE
  BY <1>0, Death
<1> QED BY <1>6, <1>7 DEF Lists!Die, l, x

\* Through arrays that grow, blocks that change hands and a heap they share, a
\* vector is a list of texts of its own and a buffer a text of its own: each
\* operation of StringVector and StringBuffer does to its lists and texts what
\* TextLists says, and to no others; a vector that is assigned to itself loses its
\* texts and the program with them.
THEOREM ImplementsListsHolds == Spec => ImplementsLists
<1>1. Init => Lists!Init
  BY InitLists
<1>2. Alive /\ Alive' /\ [Next]_vars => [Lists!Next]_(Lists!vars)
  <2> SUFFICES ASSUME Alive, Alive', [Next]_vars PROVE Lists!Next \/ UNCHANGED Lists!vars
    BY DEF Lists!vars
  <2>1. CASE UNCHANGED vars
    BY <2>1 DEF vars, Lists!vars, Strings, TextOf, Live
  <2>2. CASE Step /\ UNCHANGED died /\ ~died
    <3>1. TypeInv /\ TypeInv'
      BY <2>2 DEF Alive
    <3>2. Lists!Step \/ UNCHANGED Lists!vars
      BY <2>2, <3>1, StepLists
    <3> QED BY <2>2, <3>2 DEF Lists!Next
  <2>3. ASSUME NEW v \in Vectors, AssignToItself(v), ~died PROVE Lists!Next
    BY <2>3, DeathLists DEF Lists!Next, Alive
  <2> QED BY <2>1, <2>2, <2>3 DEF Next
<1> QED BY <1>1, <1>2, InitAlive, StepAlive, PTL DEF Spec, ImplementsLists, Lists!Spec
=============================================================================
