----------------------------- MODULE ConfigTree -----------------------------
(* What a Configuration of config4cpp promises: a tree of scopes with strings  *)
(* and lists at its leaves, and a current scope from which names are written   *)
(* and read.  `items' maps the path of every entry to it; a path is a sequence *)
(* of names, the root scope is the empty one.                                  *)
EXTENDS Integers, Sequences

CONSTANTS Paths,       \* names, seen from the current scope: sequences that are not empty
          Strings,     \* values of string variables
          Lists        \* values of list variables

Scope == [type |-> "scope"]
StringItem(s) == [type |-> "string", val |-> s]
ListItem(l) == [type |-> "list", list |-> l]
Variables == {StringItem(s) : s \in Strings} \cup {ListItem(l) : l \in Lists}

Upto(p, n) == SubSeq(p, 1, n)
Parent(p) == Upto(p, Len(p) - 1)
IsPrefix(p, q) == Len(p) <= Len(q) /\ Upto(q, Len(p)) = p

IsScope(items, p) == p = <<>> \/ (p \in DOMAIN items /\ items[p] = Scope)
IsVariable(items, p) == p \in DOMAIN items /\ items[p] # Scope

\* `more' takes precedence over `items'
Over(items, more) == [p \in DOMAIN items \cup DOMAIN more |-> IF p \in DOMAIN more THEN more[p] ELSE items[p]]

\* the first component of `rel', seen from scope `base', that is a variable
Obstacles(items, base, rel) == {i \in 1..Len(rel) : IsVariable(items, base \o Upto(rel, i))}
FirstObstacle(items, base, rel) ==
  CHOOSE i \in Obstacles(items, base, rel) : \A j \in Obstacles(items, base, rel) : i <= j

\* the scopes of the path `rel' are made one after the other, up to a variable
WithScopes(items, base, rel) ==
  LET last == IF Obstacles(items, base, rel) = {} THEN Len(rel) ELSE FirstObstacle(items, base, rel) - 1
  IN  Over(items, [p \in {base \o Upto(rel, i) : i \in 1..last} |-> Scope])

CanWrite(items, base, rel) ==
  Obstacles(items, base, Parent(rel)) = {} /\ ~IsScope(items, base \o rel)

\* a variable is written: the scopes before it are made even when it cannot be
Written(items, base, rel, item) ==
  IF CanWrite(items, base, rel)
  THEN Over(WithScopes(items, base, Parent(rel)), [p \in {base \o rel} |-> item])
  ELSE WithScopes(items, base, Parent(rel))

\* an entry and everything in it is removed
Without(items, path) == [p \in {q \in DOMAIN items : ~IsPrefix(path, q)} |-> items[p]]

VARIABLES items, curr
vars == <<items, curr>>

Init == items = [p \in {} |-> Scope] /\ curr = <<>>

Insert(rel, item) == items' = Written(items, curr, rel, item) /\ UNCHANGED curr
EnsureScopeExists(rel) == items' = WithScopes(items, curr, rel) /\ UNCHANGED curr
Remove(rel) == items' = Without(items, curr \o rel) /\ UNCHANGED curr
Empty == Init'
\* a parse opens a scope, and closes scopes or ends in an error inside of them
OpenScope(rel) ==
  /\ items' = WithScopes(items, curr, rel)
  /\ curr' = IF Obstacles(items, curr, rel) = {} THEN curr \o rel ELSE curr
LeaveScope == (\E n \in 0..Len(curr) : curr' = Upto(curr, n)) /\ UNCHANGED items

Next == \/ LeaveScope \/ Empty
        \/ \E rel \in Paths :
             \/ EnsureScopeExists(rel) \/ Remove(rel) \/ OpenScope(rel)
             \/ \E item \in Variables : Insert(rel, item)

Spec == Init /\ [][Next]_vars

\* Every entry is in scopes all the way up: no insertion leaves an entry below a
\* variable or below nothing, and no removal leaves a part of what it removes.
EntriesAreInScopes ==
  /\ \A p \in DOMAIN items : Len(p) > 0 /\ \A n \in 0..(Len(p) - 1) : IsScope(items, Upto(p, n))
  /\ \A n \in 0..Len(curr) : IsScope(items, Upto(curr, n))
=============================================================================
