------------------------- MODULE ConfigExpressions -------------------------
(* What the expressions and conditions of config4cpp's language yield.  They   *)
(* are parse trees, records with a field `op'; a string is a sequence of words,*)
(* and a dotted name the sequence of its components.  `at' is the place where  *)
(* an expression is evaluated: the items and the current scope of the          *)
(* configuration, and the files that are being read.  A result is a value, an  *)
(* error, or an evaluation that never comes back.                              *)
EXTENDS ConfigLookup, SequencesExt

CONSTANTS Env,            \* what getenv, exec and read.file yield: <<op, argument>> to strings
          Allowed,        \* commands that exec may run
          Matches(_, _)   \* patternMatch

Error == [ok |-> FALSE, loops |-> FALSE]
Loops == [ok |-> FALSE, loops |-> TRUE]
Val(v) == [ok |-> TRUE, val |-> v]
\* the left part is evaluated first, and what stops it is what stops both
Both(l, r, Op(_, _)) == IF ~l.ok THEN l ELSE IF ~r.ok THEN r ELSE Val(Op(l.val, r.val))
Concat(s, t) == s \o t
Join(list, sep) ==
  FlattenSeq([i \in DOMAIN list |-> IF i < Len(list) THEN list[i] \o sep ELSE list[i]])
NoExpr == [op |-> "none"]

\* what a string consists of between the places where the delimiter is, found
\* from the left; an empty one is found over and over again where it was found
RECURSIVE Pieces(_, _)
Pieces(s, delim) ==
  LET at == {i \in DOMAIN s : IsPrefix(delim, SubSeq(s, i, Len(s)))}
      rest == SubSeq(s, Min(at) + Len(delim), Len(s))
  IN  IF at = {} THEN <<s>> ELSE <<SubSeq(s, 1, Min(at) - 1)>> \o Pieces(rest, delim)
Split(str, delim) ==
  IF str.ok /\ delim.ok /\ delim.val = <<>> THEN Loops ELSE Both(str, delim, Pieces)
Replace(str, search, new) ==
  IF str.ok /\ search.ok /\ ~new.ok THEN new ELSE Both(Split(str, search), new, Join)

RECURSIVE StringValue(_, _), ListValue(_, _)

\* getenv and exec with a default, which is evaluated first, and read.file without
External(at, e) ==
  LET default == IF e.default = NoExpr THEN Val(<<>>) ELSE StringValue(at, e.default)
      key == <<e.op, e.arg>>
  IN  IF ~default.ok THEN default
      ELSE IF e.op = "exec" /\ e.arg \notin Allowed THEN Error
      ELSE IF key \in DOMAIN Env /\ (e.op = "readFile" => Len(at.included) < MaxFiles) THEN Val(Env[key])
      ELSE IF e.default = NoExpr THEN Error ELSE default

SiblingScope(at, e) ==
  LET name == StringValue(at, e.arg)
  IN  IF at.curr = <<>> THEN Error ELSE IF name.ok THEN Val(Front(at.curr) \o name.val) ELSE name

Identifier(at, e, type) ==
  LET item == Lookup(at.items, at.curr, e.name)
  IN  IF item.type = type THEN Val(ValueOf(item)) ELSE Error

StringValue(at, e) ==
  CASE e.op = "lit" -> Val(e.val)
    [] e.op = "ident" -> Identifier(at, e, "string")
    [] e.op = "plus" -> Both(StringValue(at, e.left), StringValue(at, e.right), Concat)
    [] e.op \in {"getenv", "exec", "readFile"} -> External(at, e)
    [] e.op = "siblingScope" -> SiblingScope(at, e)
    [] e.op = "configType" -> Val(<<Lookup(at.items, at.curr, e.name).type>>)
    [] e.op = "configFile" -> Val(<<Last(at.included)>>)
    [] e.op = "join" -> Both(ListValue(at, e.list), StringValue(at, e.sep), Join)
    [] e.op = "replace" -> Replace(StringValue(at, e.str), StringValue(at, e.search), StringValue(at, e.new))

ListValue(at, e) ==
  CASE e.op = "list" ->
         LET each == [i \in DOMAIN e.elems |-> StringValue(at, e.elems[i])]
             stops == {i \in DOMAIN each : ~each[i].ok}
         IN  IF stops = {} THEN Val([i \in DOMAIN each |-> each[i].val]) ELSE each[Min(stops)]
    [] e.op = "split" -> Split(StringValue(at, e.str), StringValue(at, e.delim))
    [] e.op = "ident" -> Identifier(at, e, "list")
    [] e.op = "plus" -> Both(ListValue(at, e.left), ListValue(at, e.right), Concat)

\* what parseRhsAssignStmt takes the expression for, by its first token; an
\* identifier is not looked for in the fallback here
RECURSIVE ExprType(_, _)
ExprType(at, e) ==
  CASE e.op = "plus" -> ExprType(at, e.left)
    [] e.op \in {"list", "split"} -> "list"
    [] e.op = "ident" -> Visible(at.items, at.curr, e.name).type
    [] OTHER -> "string"

\* every part of a condition is evaluated, whatever the others are
RECURSIVE Condition(_, _)
Condition(at, c) ==
  LET Eq(s, t) == s = t
      Neq(s, t) == s # t
      In(s, l) == s \in Range(l)
      And(a, b) == a /\ b
      Or(a, b) == a \/ b
      string(e) == StringValue(at, e)
  IN  CASE c.op = "eq" -> Both(string(c.left), string(c.right), Eq)
        [] c.op = "neq" -> Both(string(c.left), string(c.right), Neq)
        [] c.op = "in" -> Both(string(c.left), ListValue(at, c.right), In)
        [] c.op = "matches" -> Both(string(c.left), string(c.right), Matches)
        [] c.op = "isFileReadable" ->
             LET file == string(c.arg) IN IF file.ok THEN Val(Opens(file.val[1], Len(at.included))) ELSE file
        [] c.op = "not" -> LET r == Condition(at, c.arg) IN IF r.ok THEN Val(~r.val) ELSE r
        [] c.op = "and" -> Both(Condition(at, c.left), Condition(at, c.right), And)
        [] c.op = "or" -> Both(Condition(at, c.left), Condition(at, c.right), Or)
=============================================================================
