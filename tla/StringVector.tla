---------------------------- MODULE StringVector ----------------------------
(* StringBuffer and StringVector of config4cpp: growable buffers of characters *)
(* and growable arrays of the strings they own, on one heap.  A string is a    *)
(* sequence of ordered characters.  A block of the heap is the text written in *)
(* it and the bytes it has; the array of a vector is a function on 0..max,     *)
(* with one cell more than the vector may hold strings.  `spill' becomes 1   *)
(* at a write outside the array or the buffer.                                 *)
EXTENDS Integers, Sequences, FiniteSets

CONSTANTS Vectors, Buffers,        \* the objects of the program
          Ids,                     \* addresses of heap blocks
          Null, Junk, Internal,    \* a null cell, an uninitialised or dangling one, the buffer inside the object
          InternalSize,            \* CONFIG4CPP_STRING_BUFFER_INTERNAL_BUF_SIZE
          DefaultCapacity,         \* what a vector of capacity 0 gets
          Texts,                   \* texts passed by the callers
          Capacities,              \* capacities passed by the callers
          MaxText, MaxLength       \* bounds on a buffer's text and a vector's length

ASSUME SizesAssumption ==
  /\ InternalSize \in Nat \ {0}
  /\ DefaultCapacity \in Nat \ {0}
  /\ Capacities \subseteq Nat
  /\ MaxLength \in Nat

ASSUME TextsAssumption == Texts \subseteq Seq(Nat)

\* The heap is finite, and what is not an address is none.
ASSUME HeapAssumption == IsFiniteSet(Ids) /\ Null \notin Ids /\ Junk \notin Ids /\ Internal \notin Ids

VARIABLES vec,      \* [Vectors -> [cells, size, max, spill]]
          buf,      \* [Buffers -> [at, text, max, spill]]
          blocks,   \* live blocks: address -> [text, cap]
          failed,   \* a block that is not live was deleted
          died      \* the program has died of a null pointer

vars == <<vec, buf, blocks, failed, died>>

Live == DOMAIN blocks
Cells == Ids \cup {Null, Junk}

\* n addresses the allocator may return now
Fresh(n) == CHOOSE f \in [1..n -> Ids \ Live] : \A i, j \in 1..n : f[i] = f[j] => i = j
MayAllocate(n) == Cardinality(Ids \ Live) >= n

\* copyString: a block just large enough for the text
Exact(text) == [text |-> text, cap |-> Len(text) + 1]

\* the heap once the blocks in `dead' are deleted and those of `born' allocated
Heap(dead, born) == [id \in (Live \ dead) \cup DOMAIN born |->
                       IF id \in DOMAIN born THEN born[id] ELSE blocks[id]]
At(id, block) == [i \in {id} |-> block]
None == [i \in {} |-> Null]

(***************************************************************************)
(* Vectors: pure operations on one vector                                  *)
(***************************************************************************)
Put(v, i, x) == [v EXCEPT !.cells[i] = x, !.spill = IF i > v.max THEN 1 ELSE @]

Empty(n) == [cells |-> [i \in 0..n |-> IF i = 0 THEN Null ELSE Junk],
             size |-> 0, max |-> n, spill |-> 0]

\* ensureCapacity: the new array gets its terminator one cell too far
EnsureCapacity(v, n) ==
  IF n <= v.max THEN v
  ELSE [cells |-> [i \in 0..n |-> IF i < v.size THEN v.cells[i]
                                  ELSE IF i = v.size + 1 THEN Null ELSE Junk],
        size |-> v.size, max |-> n, spill |-> IF v.size + 1 > n THEN 1 ELSE v.spill]

Push(v, id) ==
  LET w == IF v.size = v.max THEN EnsureCapacity(v, v.max * 2) ELSE v
  IN  [Put(Put(w, w.size, id), w.size + 1, Null) EXCEPT !.size = @ + 1]

\* Mutant: no growth when the strings just fit.
MakeRoomExactly(v, n) == IF v.size + n > v.max THEN EnsureCapacity(v, (v.size + n) * 2) ELSE v

\* room for n more strings, as the two operations that add a vector make it
MakeRoom(v, n) == IF v.size + n >= v.max THEN EnsureCapacity(v, (v.size + n) * 2) ELSE v

\* the n strings f[1..n] stored from cell `from' on
Store(v, from, n, f) ==
  [v EXCEPT !.cells = [i \in DOMAIN @ |-> IF i \in from..(from + n - 1) THEN f[i - from + 1] ELSE @[i]],
            !.spill = IF from + n > v.max + 1 THEN 1 ELSE @]

Elements(v) == {v.cells[i] : i \in 0..(v.size - 1)}
TextOf(id) == IF id \in Live THEN blocks[id].text ELSE <<>>
Strings(v) == [i \in 1..v.size |-> TextOf(v.cells[i - 1])]
Copies(v, f) == [id \in {f[i] : i \in 1..v.size} |->
                   Exact(Strings(v)[CHOOSE i \in 1..v.size : f[i] = id])]

\* delete of a set of cells: only null and live blocks may be deleted
Deletable(cells) == cells \subseteq Live \cup {Null}

(***************************************************************************)
(* Vectors: the operations of the class                                    *)
(***************************************************************************)
Construct(v, capacity) ==                    \* after the destruction of the old object
  /\ failed' = (failed \/ ~Deletable(Elements(vec[v])))
  /\ vec' = [vec EXCEPT ![v] = Empty(IF capacity = 0 THEN DefaultCapacity ELSE capacity)]
  /\ blocks' = Heap(Elements(vec[v]), None)
  /\ UNCHANGED buf

CopyConstruct(v, o) ==
  /\ v # o /\ MayAllocate(vec[o].size)
  /\ failed' = (failed \/ ~Deletable(Elements(vec[v])))
  /\ \E f \in {Fresh(vec[o].size)} :
       /\ vec' = [vec EXCEPT ![v] =
            Put([Store(Empty(vec[o].max), 0, vec[o].size, f) EXCEPT !.size = vec[o].size], vec[o].size, Null)]
       /\ blocks' = Heap(Elements(vec[v]), Copies(vec[o], f))
  /\ UNCHANGED buf

\* operator= of two different vectors: nothing writes the terminator
Assign(v, o) ==
  /\ v # o /\ MayAllocate(vec[o].size)
  /\ failed' = (failed \/ ~Deletable(Elements(vec[v])))
  /\ \E f \in {Fresh(vec[o].size)}, w \in {EnsureCapacity(vec[v], vec[o].size)} :
       /\ vec' = [vec EXCEPT ![v] =
            [Store(Store(w, 0, w.size, [i \in 1..w.size |-> Null]), 0, vec[o].size, f)
               EXCEPT !.size = vec[o].size]]
       /\ blocks' = Heap(Elements(vec[v]), Copies(vec[o], f))
  /\ UNCHANGED buf

\* operator= of a vector and itself: the strings are deleted, and what is left is
\* copied.  The strlen of copyString does not survive the first null.
AssignToItself(v) ==
  /\ vec[v].size > 0
  /\ failed' = (failed \/ ~Deletable(Elements(vec[v])))
  /\ vec' = [vec EXCEPT ![v] = Store(@, 0, @.size, [i \in 1..@.size |-> Null])]
  /\ blocks' = Heap(Elements(vec[v]), None)
  /\ died' = TRUE
  /\ UNCHANGED buf

Add(v, text) ==
  /\ vec[v].size < MaxLength /\ MayAllocate(1)
  /\ \E id \in {Fresh(1)[1]} :
       /\ vec' = [vec EXCEPT ![v] = Push(@, id)]
       /\ blocks' = Heap({}, At(id, Exact(text)))
  /\ UNCHANGED <<buf, failed>>

AddVector(v, o) ==                           \* o may be v: its length is read first
  /\ vec[v].size + vec[o].size <= MaxLength /\ MayAllocate(vec[o].size)
  /\ \E f \in {Fresh(vec[o].size)}, w \in {MakeRoom(vec[v], vec[o].size)} :
       /\ vec' = [vec EXCEPT ![v] =
            IF vec[o].size = 0 THEN w
            ELSE Put([Store(w, w.size, vec[o].size, f) EXCEPT !.size = @ + vec[o].size],
                     w.size + vec[o].size, Null)]
       /\ blocks' = Heap({}, Copies(vec[o], f))
  /\ UNCHANGED <<buf, failed>>

\* the strings change owner; the terminator is again one cell too far
AddVectorWithOwnership(v, o) ==
  /\ v # o /\ vec[v].size + vec[o].size <= MaxLength
  /\ \E w \in {MakeRoom(vec[v], vec[o].size)}, n \in {vec[o].size} :
       vec' = [vec EXCEPT
         ![v] = Put([Store(w, w.size, n, [i \in 1..n |-> vec[o].cells[i - 1]]) EXCEPT !.size = @ + n],
                    w.size + n + 1, Null),
         ![o] = Put([Store(@, 0, n, [i \in 1..n |-> Null]) EXCEPT !.size = 0], 0, Null)]
  /\ UNCHANGED <<buf, blocks, failed>>

Replace(v, i, text) ==
  /\ i < vec[v].size /\ MayAllocate(1)
  /\ failed' = (failed \/ ~Deletable({vec[v].cells[i]}))
  /\ \E id \in {Fresh(1)[1]} :
       /\ vec' = [vec EXCEPT ![v] = Put(@, i, id)]
       /\ blocks' = Heap({vec[v].cells[i]}, At(id, Exact(text)))
  /\ UNCHANGED buf

\* strcmp: s before t
Before(s, t) ==
  \E k \in 0..Len(s) :
     /\ k < Len(t) /\ SubSeq(s, 1, k) = SubSeq(t, 1, k)
     /\ k = Len(s) \/ s[k + 1] < t[k + 1]

\* qsort: some order of the cells in which no text is before the previous one
Sort(v) ==
  /\ \E p \in [1..vec[v].size -> 1..vec[v].size] :
       /\ \A i, j \in 1..vec[v].size : i < j =>
            /\ p[i] # p[j]
            /\ ~Before(Strings(vec[v])[p[j]], Strings(vec[v])[p[i]])
       /\ vec' = [vec EXCEPT ![v] = Store(@, 0, @.size, [i \in 1..@.size |-> @.cells[p[i] - 1]])]
  /\ UNCHANGED <<buf, blocks, failed>>

Reserve(v, n) ==
  /\ vec' = [vec EXCEPT ![v] = EnsureCapacity(@, n)]
  /\ UNCHANGED <<buf, blocks, failed>>

RemoveAll(v) ==
  /\ failed' = (failed \/ ~Deletable(Elements(vec[v])))
  /\ vec' = [vec EXCEPT ![v] =
       [Put(Store(@, 0, @.size, [i \in 1..@.size |-> Junk]), 0, Null) EXCEPT !.size = 0]]
  /\ blocks' = Heap(Elements(vec[v]), None)
  /\ UNCHANGED buf

RemoveLast(v) ==
  /\ vec[v].size > 0
  /\ failed' = (failed \/ ~Deletable({vec[v].cells[vec[v].size - 1]}))
  /\ vec' = [vec EXCEPT ![v] = [Put(@, @.size - 1, Null) EXCEPT !.size = vec[v].size - 1]]
  /\ blocks' = Heap({vec[v].cells[vec[v].size - 1]}, None)
  /\ UNCHANGED buf

(***************************************************************************)
(* Buffers.  m_currSize is always one more than the length of the text.    *)
(***************************************************************************)
EmptyBuffer == [at |-> Internal, text |-> <<>>, max |-> InternalSize, spill |-> 0]
Owned(b) == {buf[b].at} \ {Internal}
Capacity(b) == IF buf[b].at = Internal THEN InternalSize ELSE blocks[buf[b].at].cap

\* Mutant: the terminating null character is not counted.
GrownSizeTight(max, size, n) ==
  IF size + n <= max + 1 THEN 0 ELSE IF max * 2 < size + n THEN (size + n) * 2 ELSE max * 2

\* growIfNeeded: the size of the new block, 0 when n more characters fit
GrownSize(max, size, n) ==
  IF size + n < max THEN 0 ELSE IF max * 2 < size + n THEN (size + n) * 2 ELSE max * 2

\* append `text' to what is kept of the buffer: all of it, or nothing for operator=
Write(b, kept, text) ==
  /\ Len(kept \o text) <= MaxText
  /\ \E new \in {GrownSize(buf[b].max, Len(kept) + 1, Len(text))}, size \in {Len(kept \o text) + 1} :
       \/ /\ new = 0
          /\ buf' = [buf EXCEPT ![b].text = kept \o text, ![b].spill = IF size > Capacity(b) THEN 1 ELSE @]
          /\ UNCHANGED blocks
       \/ /\ new > 0 /\ MayAllocate(1)
          /\ \E id \in {Fresh(1)[1]} :
               /\ buf' = [buf EXCEPT ![b] = [at |-> id, text |-> kept \o text, max |-> new,
                                             spill |-> IF size > new THEN 1 ELSE @.spill]]
               /\ blocks' = Heap(Owned(b), At(id, [text |-> <<>>, cap |-> new]))
  /\ UNCHANGED <<vec, failed>>

\* Mutant: the old text is not discarded first.
SetTextAfterOld(b, text) == Write(b, buf[b].text, text \o text)

AppendText(b, text) == Write(b, buf[b].text, text)
SetText(b, text) == Write(b, <<>>, text)

\* empty(): the capacity is forgotten, the block is not
Clear(b) ==
  /\ buf' = [buf EXCEPT ![b].text = <<>>, ![b].max = InternalSize]
  /\ UNCHANGED <<vec, blocks, failed>>

DeleteLastChar(b) ==
  /\ Len(buf[b].text) > 0
  /\ buf' = [buf EXCEPT ![b].text = SubSeq(@, 1, Len(@) - 1)]
  /\ UNCHANGED <<vec, blocks, failed>>

TakeOwnership(b, o) ==
  /\ b # o
  /\ \/ /\ buf[o].at = Internal
        /\ buf' = [buf EXCEPT ![b].text = buf[o].text,
                              ![b].spill = IF Len(buf[o].text) + 1 > Capacity(b) THEN 1 ELSE @,
                              ![o] = [EmptyBuffer EXCEPT !.spill = buf[o].spill]]
        /\ UNCHANGED blocks
     \/ /\ buf[o].at # Internal
        /\ buf' = [buf EXCEPT ![b] = [buf[o] EXCEPT !.spill = @ + buf[b].spill],
                              ![o] = [EmptyBuffer EXCEPT !.spill = buf[o].spill]]
        /\ blocks' = Heap(Owned(b), None)
  /\ UNCHANGED <<vec, failed>>

\* Mutant: the buffer goes on using the block it has given away.
AddBufferShared(v, b) ==
  /\ vec[v].size < MaxLength /\ buf[b].at # Internal
  /\ vec' = [vec EXCEPT ![v] = Push(@, buf[b].at)]
  /\ blocks' = [blocks EXCEPT ![buf[b].at].text = buf[b].text]
  /\ UNCHANGED <<buf, failed>>

\* c_strWithOwnership: the vector gets the block of the buffer, or an exact copy
AddBuffer(v, b) ==
  /\ vec[v].size < MaxLength
  /\ \/ /\ buf[b].at = Internal /\ MayAllocate(1)
        /\ \E id \in {Fresh(1)[1]} :
             /\ vec' = [vec EXCEPT ![v] = Push(@, id)]
             /\ blocks' = Heap({}, At(id, Exact(buf[b].text)))
     \/ /\ buf[b].at # Internal
        /\ vec' = [vec EXCEPT ![v] = Push(@, buf[b].at)]
        /\ blocks' = [blocks EXCEPT ![buf[b].at].text = buf[b].text]
  /\ buf' = [buf EXCEPT ![b] = [EmptyBuffer EXCEPT !.spill = buf[b].spill]]
  /\ UNCHANGED failed

\* the end of a buffer's life and the start of the next one's
Rebuild(b) ==
  /\ buf' = [buf EXCEPT ![b] = [EmptyBuffer EXCEPT !.spill = buf[b].spill]]
  /\ blocks' = Heap(Owned(b), None)
  /\ UNCHANGED <<vec, failed>>

(***************************************************************************)
Init ==
  /\ vec \in [Vectors -> {Empty(IF n = 0 THEN DefaultCapacity ELSE n) : n \in Capacities}]
  /\ buf = [b \in Buffers |-> EmptyBuffer]
  /\ blocks = None
  /\ failed = FALSE /\ died = FALSE

VectorStep(v) ==
  \/ \E n \in Capacities : Construct(v, n) \/ Reserve(v, n)
  \/ \E o \in Vectors : CopyConstruct(v, o) \/ Assign(v, o) \/ AddVector(v, o) \/ AddVectorWithOwnership(v, o)
  \/ \E text \in Texts : Add(v, text) \/ (\E i \in 0..(MaxLength - 1) : Replace(v, i, text))
  \/ Sort(v) \/ RemoveAll(v) \/ RemoveLast(v)

BufferStep(b) ==
  \/ \E text \in Texts : AppendText(b, text) \/ SetText(b, text)
  \/ \E o \in Buffers : TakeOwnership(b, o)
  \/ \E v \in Vectors : AddBuffer(v, b)
  \/ Clear(b) \/ DeleteLastChar(b) \/ Rebuild(b)

Step == (\E v \in Vectors : VectorStep(v)) \/ (\E b \in Buffers : BufferStep(b))

Next == ~died /\ ((Step /\ UNCHANGED died) \/ \E v \in Vectors : AssignToItself(v))

Spec == Init /\ [][Next]_vars

(***************************************************************************)
(* Properties                                                              *)
(***************************************************************************)
Block == [text : Seq(Nat), cap : Nat]
\* No operation writes outside the memory of a buffer, although empty() and
\* takeOwnershipOfStringIn() change the recorded capacity without the block.
BuffersInBounds == \A b \in Buffers : buf[b].spill = 0

\* Every cell holds a block, a null or garbage, every buffer knows where its text
\* is, and no text is longer than the memory it is in.
TypeOK ==
  /\ BuffersInBounds
  /\ \A v \in Vectors :
       /\ vec[v].size \in Nat /\ vec[v].max \in Nat \ {0}
       /\ vec[v].cells \in [0..vec[v].max -> Cells]
  /\ \A b \in Buffers :
       /\ buf[b].at \in Ids \cup {Internal} /\ buf[b].text \in Seq(Nat) /\ buf[b].max \in Nat
  /\ Live \subseteq Ids /\ blocks \in [Live -> Block]
  /\ failed \in BOOLEAN /\ died \in BOOLEAN

\* No operation writes outside the array of a vector, although two of them put
\* the terminator one cell after its place.
VectorsInBounds == \A v \in Vectors : vec[v].size <= vec[v].max /\ vec[v].spill = 0

\* Every live block is owned by exactly one cell or one buffer, and no owner
\* points to a dead one: nothing leaks, is deleted twice or read after delete,
\* through copies, assignments and the operations that pass ownership on from one
\* object to another.  No string of a vector is a null pointer, until a vector is
\* assigned to itself, which deletes its strings and nulls their cells before it
\* copies them: of that the program dies, and nothing else is lost.
Owners == {o \in Vectors \X (0..MaxLength) : o[2] < vec[o[1]].size}
OwnerBlock(o) == vec[o[1]].cells[o[2]]
OwnedOnce ==
  /\ ~failed
  /\ \A o, p \in Owners : OwnerBlock(o) = OwnerBlock(p) => (o = p \/ OwnerBlock(o) = Null)
  /\ \A b, c \in Buffers : Owned(b) \cap Owned(c) # {} => b = c
  /\ LET held == {OwnerBlock(o) : o \in Owners} \ {Null}
         kept == UNION {Owned(b) : b \in Buffers}
     IN  held \cap kept = {} /\ held \cup kept = Live
  /\ IF died THEN \E v \in Vectors : vec[v].size > 0 /\ \A o \in Owners : (o[1] = v) = (OwnerBlock(o) = Null)
     ELSE \A o \in Owners : OwnerBlock(o) # Null

\* What c_array() asserts before it hands the array to a caller that expects it
\* to end in a null pointer.
TerminatorInPlace == \A v \in Vectors : vec[v].cells[vec[v].size] = Null

\* The vectors are lists of texts and the buffers texts, of their own: what is done
\* to one changes no other.
Lists == INSTANCE TextLists WITH
  list <- [v \in Vectors |-> Strings(vec[v])], text <- [b \in Buffers |-> buf[b].text], gone <- died
ImplementsLists == Lists!Spec
=============================================================================
