---------------------------- MODULE ConfigScope ----------------------------
(* The hash table of one scope of a configuration.  A table is a function from *)
(* 0..size-1 to the entries of each bucket, in the order of the list, with the *)
(* number of entries kept beside it.                                           *)
EXTENDS Integers, Sequences, FiniteSets, SequencesExt

CONSTANTS CodesOf(_),    \* codes of the characters of a name
          InitialSize    \* size of the table of a new scope, a power of two

ASSUME InitialSizeAssumption == InitialSize \in {2, 4, 8, 16, 32, 64, 128, 256}

Entry(name, item) == [name |-> name, item |-> item]

\* The 32-bit sum, of which only the remainder is kept: sizes are powers of two.
Hash(name, size) ==
  LET codes == CodesOf(name)
      hash[k \in 0..Len(codes)] == IF k = 0 THEN 5381 % size ELSE (hash[k - 1] * 33 + codes[k]) % size
  IN  hash[Len(codes)]

EmptyTable == [buckets |-> [i \in 0..(InitialSize - 1) |-> <<>>], count |-> 0]
Size(t) == Cardinality(DOMAIN t.buckets)

Bucket(t, name) == t.buckets[Hash(name, Size(t))]
Places(t, name) == {i \in DOMAIN Bucket(t, name) : Bucket(t, name)[i].name = name}
Has(t, name) == Places(t, name) # {}
NoItem == [type |-> "none"]
FirstPlace(t, name) == CHOOSE i \in Places(t, name) : \A j \in Places(t, name) : i <= j
FindItem(t, name) == IF Has(t, name) THEN Bucket(t, name)[FirstPlace(t, name)].item ELSE NoItem

\* the entries in the order in which the loops over the table meet them
AllEntries(t) == FlattenSeq([i \in 1..Size(t) |-> t.buckets[i - 1]])

\* growIfTooFull moves each entry to the head of its new bucket
Rehashed(t, size) ==
  LET all == AllEntries(t)
      moved[k \in 0..Len(all)] ==
        IF k = 0 THEN [i \in 0..(size - 1) |-> <<>>]
        ELSE [moved[k - 1] EXCEPT ![Hash(all[k].name, size)] = <<all[k]>> \o @]
  IN  [t EXCEPT !.buckets = moved[Len(all)]]
GrowIfTooFull(t) == IF t.count * 2 < Size(t) THEN t ELSE Rehashed(t, Size(t) * 2)

\* mistake: the bucket is chosen before the table grows
AddEntryStaleIndex(t, name, item) ==
  LET g == GrowIfTooFull([t EXCEPT !.count = @ + 1])
  IN  [g EXCEPT !.buckets[Hash(name, Size(t))] = <<Entry(name, item)>> \o @]
AddEntry(t, name, item) ==
  LET g == GrowIfTooFull([t EXCEPT !.count = @ + 1])
  IN  [g EXCEPT !.buckets[Hash(name, Size(g))] = <<Entry(name, item)>> \o @]

\* addOrReplaceString and addOrReplaceList, of a name that is no scope
AddOrReplace(t, name, item) ==
  IF Has(t, name)
  THEN [t EXCEPT !.buckets[Hash(name, Size(t))] =
          [i \in DOMAIN @ |-> IF @[i].name = name THEN Entry(name, item) ELSE @[i]]]
  ELSE AddEntry(t, name, item)

RemoveItem(t, name) ==
  [t EXCEPT !.buckets[Hash(name, Size(t))] = RemoveAt(@, FirstPlace(t, name)), !.count = @ - 1]

NamesOfTypes(entries, mask) ==
  FlattenSeq([i \in DOMAIN entries |-> IF entries[i].item.type \in mask THEN <<entries[i].name>> ELSE <<>>])

\* mistake: the loop over the buckets ends at the number of entries
ListLocalNamesByCount(t, mask) ==
  NamesOfTypes(FlattenSeq([i \in 1..t.count |-> t.buckets[i - 1]]), mask)
\* listLocalNames, of the entries of the types in `mask'
ListLocalNames(t, mask) == NamesOfTypes(AllEntries(t), mask)

\* Every entry is in the bucket of its name, once, and the count is right: what
\* findEntry needs to find it, and what listLocalNames asserts.
TableSound(t) ==
  /\ \A i \in DOMAIN t.buckets : \A e \in ToSet(t.buckets[i]) : Hash(e.name, Size(t)) = i
  /\ t.count = Len(AllEntries(t))
  /\ \A i, j \in 1..t.count : AllEntries(t)[i].name = AllEntries(t)[j].name => i = j
  /\ t.count * 2 < Size(t)
=============================================================================
