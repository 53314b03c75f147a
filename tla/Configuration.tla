--------------------------- MODULE Configuration ---------------------------
(* A configuration of config4cpp: a tree of scopes, each a hash table, the     *)
(* scope in which a parse that ended left it, and a fallback configuration.    *)
(* A scope is known by its path.  A name is the sequence of its components:    *)
(* the empty string is <<>>, a leading dot is a first component "".            *)
EXTENDS ConfigScope

CONSTANTS Names,       \* components of names, "" among them
          Strings, Lists,
          Fallbacks,   \* contents of fallback configurations: functions from names to items
          MaxEntries   \* bound on the entries of the whole tree

Dot == 46
ASSUME NamesAssumption ==
  /\ "" \in Names
  /\ \A name \in Names : CodesOf(name) \in Seq(Nat \ {Dot}) /\ (CodesOf(name) = <<>> <=> name = "")
  /\ \A m, n \in Names : CodesOf(m) = CodesOf(n) => m = n

VARIABLES tables, curr, fallback
vars == <<tables, curr, fallback>>

ApiNames == {<<>>} \cup [1..1 -> Names \ {""}] \cup [1..2 -> Names]
NoFallback == [p \in {} |-> NoItem]

Scope == [type |-> "scope"]
StringItem(s) == [type |-> "string", val |-> s]
ListItem(l) == [type |-> "list", list |-> l]
VariableTypes == {"string", "list"}
AllTypes == VariableTypes \cup {"scope"}

\* splitScopedNameIntoVector
Split(name) == IF name = <<>> THEN <<"">> ELSE name
MergeNames(scope, local) == scope \o local

\* ensureScopeExists makes the scopes of `rel' below `base' up to a variable
WithScope(T, at, name) ==
  [p \in DOMAIN T \cup {Append(at, name)} |->
     IF p = at THEN AddEntry(T[at], name, Scope) ELSE IF p \in DOMAIN T THEN T[p] ELSE EmptyTable]
EnsureOne(a, name) ==
  LET item == FindItem(a.tables[a.at], name)
  IN  IF ~a.ok \/ item.type \in VariableTypes
      THEN [a EXCEPT !.ok = FALSE]
      ELSE [ok |-> TRUE, at |-> Append(a.at, name),
            tables |-> IF item = Scope THEN a.tables ELSE WithScope(a.tables, a.at, name)]
EnsureScopes(T, base, rel) ==
  LET made[n \in 0..Len(rel)] ==
        IF n = 0 THEN [tables |-> T, at |-> base, ok |-> TRUE] ELSE EnsureOne(made[n - 1], rel[n])
  IN  made[Len(rel)]

\* insertString and insertList
Inserted(T, base, name, item) ==
  LET rel == Split(name)
      e == EnsureScopes(T, base, Front(rel))
  IN  IF e.ok /\ FindItem(e.tables[e.at], Last(rel)) # Scope
      THEN [e.tables EXCEPT ![e.at] = AddOrReplace(@, Last(rel), item)]
      ELSE e.tables

\* the item `rel' leads to through nested scopes, for lookup and remove
Reached(T, base, rel) ==
  LET item[n \in 0..Len(rel)] ==
        IF n = 0 THEN Scope
        ELSE IF item[n - 1] # Scope THEN NoItem ELSE FindItem(T[base \o SubSeq(rel, 1, n - 1)], rel[n])
  IN  item[Len(rel)]

\* mistake: what is inside a removed scope stays
RemovedAlone(T, base, name) ==
  LET rel == Split(name)
      parent == base \o Front(rel)
  IN  IF Reached(T, base, rel) = NoItem THEN T ELSE [T EXCEPT ![parent] = RemoveItem(@, Last(rel))]
Removed(T, base, name) ==
  LET rel == Split(name)
      parent == base \o Front(rel)
      victim == base \o rel
  IN  IF Reached(T, base, rel) = NoItem THEN T
      ELSE [p \in {q \in DOMAIN T : ~IsPrefix(victim, q)} |->
              IF p = parent THEN RemoveItem(T[p], Last(rel)) ELSE T[p]]

\* lookup
RootOnly(name) == Len(name) > 1 /\ name[1] = ""
WithoutDot(name) == IF RootOnly(name) THEN Tail(name) ELSE name

\* mistake: from the current scope straight to the root
SearchRootNext(T, scope, rel, outwards) ==
  LET item == Reached(T, scope, rel)
  IN  IF item # NoItem \/ ~outwards THEN item ELSE Reached(T, <<>>, rel)
Search(T, scope, rel, outwards) ==
  LET from[n \in 0..Len(scope)] ==
        LET item == Reached(T, SubSeq(scope, 1, n), rel)
        IN  IF item # NoItem \/ ~outwards \/ n = 0 THEN item ELSE from[n - 1]
  IN  from[Len(scope)]

InFallback(f, local) ==
  IF local # <<>> /\ WithoutDot(local) \in DOMAIN f THEN f[WithoutDot(local)] ELSE NoItem

Lookup(scope, local, startInRoot, outwards) ==
  LET name == MergeNames(scope, local)
      from == IF RootOnly(name) \/ startInRoot THEN <<>> ELSE curr
      item == Search(tables, from, WithoutDot(name), outwards)
  IN  IF name = <<>> THEN NoItem
      ELSE IF item # NoItem THEN item ELSE InFallback(fallback, local)

\* strcmp of dotted names
Codes(path) ==
  LET codes[n \in 0..Len(path)] ==
        IF n = 0 THEN <<>>
        ELSE codes[n - 1] \o (IF codes[n - 1] = <<>> THEN <<>> ELSE <<Dot>>) \o CodesOf(path[n])
  IN  codes[Len(path)]
Precedes(p, q) ==
  LET a == Codes(p)
      b == Codes(q)
  IN  \/ \E i \in 1..Len(a) : i <= Len(b) /\ a[i] < b[i] /\ \A j \in 1..(i - 1) : a[j] = b[j]
      \/ Len(a) < Len(b) /\ \A j \in 1..Len(a) : a[j] = b[j]

\* StringVector::sort; qsort cannot tell names of the same text apart
PutInOrder(list, name) ==
  LET n == CHOOSE n \in 0..Len(list) : \A i \in 1..Len(list) : i <= n <=> ~Precedes(name, list[i])
  IN  SubSeq(list, 1, n) \o <<name>> \o SubSeq(list, n + 1, Len(list))
Sorted(list) ==
  LET sorted[n \in 0..Len(list)] == IF n = 0 THEN <<>> ELSE PutInOrder(sorted[n - 1], list[n])
  IN  sorted[Len(list)]

\* listScopedNamesHelper; `accepted' stands for the names the filter patterns match
\* mistake: only scopes that are listed themselves are entered
ScopedNamesOfListed(scope, prefix, mask, recursive, accepted) ==
  LET below[path \in DOMAIN tables] ==
        LET of(e) ==
              LET name == prefix \o SubSeq(path, Len(scope) + 1, Len(path)) \o <<e.name>>
              IN  IF e.item.type \notin mask \/ name \notin accepted THEN <<>>
                  ELSE <<name>> \o (IF recursive /\ e.item = Scope THEN below[Append(path, e.name)] ELSE <<>>)
            all == AllEntries(tables[path])
        IN  FlattenSeq([i \in DOMAIN all |-> of(all[i])])
  IN  below[scope]
ScopedNames(scope, prefix, mask, recursive, accepted) ==
  LET below[path \in DOMAIN tables] ==
        LET of(e) ==
              LET name == prefix \o SubSeq(path, Len(scope) + 1, Len(path)) \o <<e.name>>
              IN  (IF e.item.type \in mask /\ name \in accepted THEN <<name>> ELSE <<>>)
                  \o (IF recursive /\ e.item = Scope THEN below[Append(path, e.name)] ELSE <<>>)
            all == AllEntries(tables[path])
        IN  FlattenSeq([i \in DOMAIN all |-> of(all[i])])
  IN  below[scope]
ListFullyScopedNames(scope, mask, recursive, accepted) ==
  Sorted(ScopedNames(scope, scope, mask, recursive, accepted))
ListLocallyScopedNames(scope, mask, recursive, accepted) ==
  Sorted(ScopedNames(scope, <<>>, mask, recursive, accepted))

\* dump: the statements it writes, each with the scope it is in
Dump(scope) ==
  LET sorted(path, mask) ==
        LET names == ListLocalNames(tables[path], mask)
        IN  Sorted([i \in DOMAIN names |-> <<names[i]>>])
      statement(path, n) == [path |-> path \o n, item |-> FindItem(tables[path], Last(n))]
      below[path \in DOMAIN tables] ==
        LET strings == sorted(path, VariableTypes)
            scopes == sorted(path, {"scope"})
        IN  [i \in DOMAIN strings |-> statement(path, strings[i])]
            \o FlattenSeq([i \in DOMAIN scopes |->
                 <<statement(path, scopes[i])>> \o below[path \o scopes[i]]])
  IN  below[scope]
-----------------------------------------------------------------------------
Entries(T) ==
  UNION {{[path |-> Append(p, e.name), item |-> e.item] : e \in UNION {ToSet(T[p].buckets[i]) : i \in DOMAIN T[p].buckets}}
         : p \in DOMAIN T}

Init == tables = [p \in {<<>>} |-> EmptyTable] /\ curr = <<>> /\ fallback = NoFallback

InsertString(name, s) == tables' = Inserted(tables, curr, name, StringItem(s)) /\ UNCHANGED <<curr, fallback>>
InsertList(name, l) == tables' = Inserted(tables, curr, name, ListItem(l)) /\ UNCHANGED <<curr, fallback>>
EnsureScopeExists(name) ==
  tables' = EnsureScopes(tables, curr, Split(name)).tables /\ UNCHANGED <<curr, fallback>>
RemoveEntry(name) == tables' = Removed(tables, curr, name) /\ UNCHANGED <<curr, fallback>>
Empty == tables' = [p \in {<<>>} |-> EmptyTable] /\ curr' = <<>> /\ UNCHANGED fallback
SetFallback(f) == fallback' = f /\ UNCHANGED <<tables, curr>>

\* parse of a source that opens a scope and then fails: parseScope does not restore the scope
ParseFailsIn(name) ==
  LET e == EnsureScopes(tables, curr, name)
  IN  /\ name # <<>>
      /\ tables' = e.tables /\ curr' = IF e.ok THEN e.at ELSE curr
      /\ UNCHANGED fallback

Next ==
  /\ \/ \E name \in ApiNames :
          \/ \E s \in Strings : InsertString(name, s)
          \/ \E l \in Lists : InsertList(name, l)
          \/ EnsureScopeExists(name) \/ RemoveEntry(name) \/ ParseFailsIn(name)
     \/ Empty
     \/ \E f \in Fallbacks : SetFallback(f)
  /\ Cardinality(Entries(tables')) <= MaxEntries

Spec == Init /\ [][Next]_vars
-----------------------------------------------------------------------------
\* the tree the tables stand for
ItemsOf(T) == [q \in {e.path : e \in Entries(T)} |-> (CHOOSE e \in Entries(T) : e.path = q).item]
Items == ItemsOf(tables)
Tree == INSTANCE ConfigTree WITH items <- Items, Paths <- UNION {[1..n -> Names] : n \in 1..2}

\* Every table is sound whatever was added, replaced and removed, and in which
\* order: findEntry finds each entry, and the assertion of listLocalNames holds.
TablesSound == \A p \in DOMAIN tables : TableSound(tables[p])

\* Every name leads to an item of its tree, every scope has a table, and the
\* tables are sound.
TypeOK ==
  /\ TablesSound
  /\ Range(Items) \subseteq Tree!Variables \cup {Scope}
  /\ DOMAIN tables = {<<>>} \cup {p \in DOMAIN Items : Items[p] = Scope}
  /\ curr \in DOMAIN tables
  /\ fallback \in Fallbacks \cup {NoFallback}

\* Each operation does in the tree what its name says: a failing insertion does
\* not end as the insertion of something else.
InsertsWhatItIsGiven ==
  \E items \in {Items} : \A name \in ApiNames, item \in Tree!Variables :
    ItemsOf(Inserted(tables, curr, name, item)) =
      Tree!Written(items, curr, Split(name), item)

\* The tables implement the tree: each operation, a failing one too, changes
\* what the names mean as the tree says it does, and is the one it says it is.
ImplementsTree == Tree!Spec /\ []InsertsWhatItIsGiven

\* A lookup yields the entry of the innermost scope around the current one that
\* has the whole name, else what the fallback has under the local name; a name
\* with a leading dot is looked for in the root only.
LookupIsInnermost ==
  \E items \in {Items} : \A scope, local \in ApiNames :
    LET name == scope \o local
        from(n) == SubSeq(curr, 1, n) \o WithoutDot(name)
        around == {n \in 0..(IF RootOnly(name) THEN 0 ELSE Len(curr)) : from(n) \in DOMAIN items}
    IN  name \in ApiNames \ {<<>>} =>
          Lookup(scope, local, FALSE, TRUE) =
            IF around = {} THEN InFallback(fallback, local)
            ELSE items[from(CHOOSE n \in around : \A m \in around : m <= n)]

\* A listing names every entry of the scope that is wanted once, in order,
\* whatever the tables look like inside.  (Names below an empty one are listed
\* without it, and may then be the same.)
Ascending(list) == \A i \in 2..Len(list) : Precedes(list[i - 1], list[i])
ListingsComplete ==
  \E items \in {Items} : \A scope \in DOMAIN tables :
    \E inside \in {{p \in DOMAIN items : IsStrictPrefix(scope, p)}} :
    \A mask \in {{"scope"}, VariableTypes, AllTypes}, recursive \in BOOLEAN :
      \E wanted \in {{p \in inside : items[p].type \in mask /\ (recursive \/ Len(p) = Len(scope) + 1)}},
         full \in {ListFullyScopedNames(scope, mask, recursive, inside)} :
      \E locals \in {ListLocallyScopedNames(scope, mask, recursive, {SubSeq(p, Len(scope) + 1, Len(p)) : p \in inside})} :
        /\ Range(full) = wanted /\ Len(full) = Cardinality(wanted)
        /\ Range(locals) = {SubSeq(p, Len(scope) + 1, Len(p)) : p \in wanted} /\ Len(locals) = Len(full)
        /\ (\A p \in inside : "" \notin Range(p)) => Ascending(full) /\ Ascending(locals)

\* What dump writes, read into an empty configuration, makes the same tree, and
\* no entry is written twice.  (An empty name is written as nothing, which the
\* parser does not read.)
Reread(T, statement) ==
  IF statement.item = Scope THEN EnsureScopes(T, <<>>, statement.path).tables
  ELSE Inserted(T, <<>>, statement.path, statement.item)
DumpRestores ==
  \E statements \in {Dump(<<>>)} :
    LET read[n \in 0..Len(statements)] ==
          IF n = 0 THEN [p \in {<<>>} |-> EmptyTable] ELSE Reread(read[n - 1], statements[n])
    IN  /\ Len(statements) = Cardinality(DOMAIN Items)
        /\ (\A p \in DOMAIN Items : "" \notin Range(p)) =>
             \E T \in {read[Len(statements)]} :
               /\ DOMAIN T = DOMAIN tables
               /\ \A p \in DOMAIN T, n \in Names : FindItem(T[p], n) = FindItem(tables[p], n)
=============================================================================
