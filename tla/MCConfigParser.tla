--------------------------- MODULE MCConfigParser ---------------------------
EXTENDS ConfigParser, ConfigExpressions, TLC

Lit(w) == [op |-> "lit", val |-> <<w>>]
Id(n) == [op |-> "ident", name |-> <<n>>]
Plus(l, r) == [op |-> "plus", left |-> l, right |-> r]
Two(op, l, r) == [op |-> op, left |-> l, right |-> r]
ListOf(e) == [op |-> "list", elems |-> <<e>>]

MCIdents == {<<"a">>, <<"b">>, <<"a", "b">>}
Ext(op, arg, default) == [op |-> op, arg |-> arg, default |-> default]
Replaced(search, new) == [op |-> "replace", str |-> Lit("b"), search |-> search, new |-> new]
Splits(str, delim) == [op |-> "split", str |-> str, delim |-> delim]
MCStringExprs ==
  {Plus(Lit("b"), Id("a")), Replaced(Lit("b"), [op |-> "lit", val |-> <<>>]),
   Ext("getenv", "HOME", [op |-> "join", list |-> Id("b"), sep |-> Lit("b")]),
   Ext("exec", "date", Ext("readFile", "g", NoExpr))}
MCScopeExprs == {Lit("a"), Lit("b"), [op |-> "siblingScope", arg |-> Lit("b")]}
MCListExprs == {ListOf(Id("a")), Id("b"), Plus(Splits(Lit("b"), Id("a")), Id("b"))}
MCConditions ==
  {Two("and", Two("eq", [op |-> "configType", name |-> <<"a">>], Lit("none")),
              [op |-> "not", arg |-> [op |-> "isFileReadable", arg |-> [op |-> "configFile"]]]),
   Two("or", Two("matches", Lit("b"), Lit("b")), Two("in", Lit("a"), Id("b"))),
   Two("neq", Replaced(Id("a"), Lit("a")), Lit("b"))}
MCEnv == [k \in {<<"exec", "date">>, <<"readFile", "g">>} |-> <<"b">>]
MCFallback == [p \in {<<"b">>, <<"b", "b">>} |-> IF p = <<"b">> THEN [type |-> "scope"] ELSE [type |-> "string", val |-> <<"b">>]]
MCFileOf(source) == IF source = "file#f" THEN "f" ELSE source
MCMatches(s, t) == s = t
MCPaths == UNION {[1..n -> Names] : n \in 1..3}
MCStrings == UNION {[1..n -> {"b"}] : n \in 0..2}
MCInitial ==
  LET scope == [type |-> "scope"]
      string == [type |-> "string", val |-> <<"b">>]
      tree == [p \in {<<"a">>, <<"a", "b">>} |-> IF Len(p) = 1 THEN scope ELSE string]
      nested == [p \in {<<"a">>, <<"a", "a">>, <<"a", "a", "b">>, <<"a", "b">>} |->
                   IF Last(p) = "a" THEN scope ELSE string]
  IN  {[items |-> [p \in {} |-> scope], curr |-> <<>>], [items |-> tree, curr |-> <<>>],
       [items |-> tree, curr |-> <<"a">>], [items |-> nested, curr |-> <<>>]}
MCLists == UNION {[1..n -> {<<>>, <<"b">>}] : n \in 0..2}
=============================================================================
