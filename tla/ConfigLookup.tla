---------------------------- MODULE ConfigLookup ----------------------------
(* What the parser of config4cpp finds outside of the source it reads: the     *)
(* entries of the configuration, seen from its current scope outwards, those   *)
(* of the fallback configuration, and the files that can be opened.            *)
EXTENDS Integers, Sequences

CONSTANTS Fallback,    \* items of the fallback configuration
          Readable,    \* files that may be opened
          MaxFiles     \* files the process may have open at once

NoItem == [type |-> "none"]
IsVar(item) == item.type \in {"string", "list"}
ValueOf(item) == IF item.type = "list" THEN item.list ELSE item.val

From(curr, n, name) == SubSeq(curr, 1, n) \o name
Found(items, curr, depths, name) ==
  LET at == {n \in depths : From(curr, n, name) \in DOMAIN items}
  IN  IF at = {} THEN NoItem ELSE items[From(curr, CHOOSE n \in at : \A m \in at : m <= n, name)]
Declared(items, curr, name) == Found(items, curr, {Len(curr)}, name)
Visible(items, curr, name) == Found(items, curr, 0..Len(curr), name)
InFallback(name) == IF name \in DOMAIN Fallback THEN Fallback[name] ELSE NoItem
Lookup(items, curr, name) ==
  IF Visible(items, curr, name) # NoItem THEN Visible(items, curr, name) ELSE InFallback(name)
\* the descriptors run out, however a file is spelled
Opens(file, open) == file \in Readable /\ open < MaxFiles
RootLookup(items, name) == IF name \in DOMAIN items THEN items[name] ELSE InFallback(name)
=============================================================================
