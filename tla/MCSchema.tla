------------------------------ MODULE MCSchema ------------------------------
EXTENDS Schema

MCRank ==
  LET names == <<"a", "boolean", "durationMicroseconds", "durationMilliseconds", "durationSeconds", "enum", "float",
                 "floatWithUnits", "int", "intWithUnits", "list", "memorySizeBytes", "memorySizeKB",
                 "memorySizeMB", "nosuch", "port", "s", "scope", "string", "table", "tuple", "u", "u1", "u2",
                 "unitsWithFloat", "unitsWithInt", "wait">>
  IN  [n \in ToSet(names) |-> CHOOSE i \in DOMAIN names : names[i] = n]
MCUidForms == [u1 |-> "u", u2 |-> "u"]

Id(name, optional, type, args, broken) ==
  [kind |-> "id", name |-> name, optional |-> optional, type |-> type, args |-> args, broken |-> broken]
Rule(name, type, args) == Id(name, TRUE, type, args, "no")
Ignore(sym, name) == [kind |-> "ignore", sym |-> sym, name |-> name, broken |-> "no"]
Typedef(name, base, args) == [kind |-> "typedef", name |-> name, base |-> base, args |-> args, broken |-> "no"]
W(w) == <<Word(w)>>
N(n) == <<Num(n)>>
NU(n, u) == <<Num(n), Word(u)>>

MCItems ==
  {Rule(<<"a">>, "int", <<N(1), N(5)>>), Rule(<<"a">>, "durationSeconds", <<NU(1, "second"), Infinite>>)
   , Rule(<<"a">>, "durationSeconds", <<Infinite, Infinite>>)
   , Rule(<<"a">>, "durationSeconds", <<Infinite, NU(1, "second")>>)
   , Rule(<<"a">>, "durationMilliseconds", <<NU(0, "seconds"), NU(2, "seconds")>>)
   , Rule(<<"a">>, "tuple", <<W("port"), W("x"), W("enum"), W("y")>>)
   , Rule(<<"a">>, "tuple", <<W("int"), W("x"), W("boolean"), W("y")>>)
   , Rule(<<"a">>, "table", <<W("int"), W("x"), W("boolean"), W("y")>>)
   , Rule(<<"a">>, "list", <<W("port")>>), Rule(<<"a">>, "wait", <<>>)
   , Rule(<<"s">>, "scope", <<>>), Id(<<"s", "a">>, FALSE, "port", <<>>, "no")
   , Rule(<<"u">>, "scope", <<>>), Id(<<"u", "a">>, FALSE, "boolean", <<>>, "no")
   , Id(<<"s", "u">>, FALSE, "scope", <<>>, "no"), Id(<<"a">>, TRUE, "nosuch", <<>>, "early")
   , Id(<<"a">>, TRUE, "nosuch", <<>>, "no"), Id(<<"a">>, TRUE, "int", <<>>, "late"), Id(<<"u">>, FALSE, "scope", <<>>, "no")
   , [Ignore("scopes", <<"s">>) EXCEPT !.broken = "late"], [Typedef("port", "int", <<>>) EXCEPT !.broken = "early"]
   , Ignore("variables", <<"s">>), Ignore("scopes", <<"s">>), Ignore("everything", <<"u">>)
   , Typedef("port", "int", <<N(1), N(3)>>), Typedef("wait", "list", <<W("port")>>)
   , Typedef("port", "boolean", <<>>)}

Str(s) == [type |-> "string", val |-> s]
Lst(l) == [type |-> "list", list |-> l]
Scp == [type |-> "scope"]
One(s) == [p \in {<<"a">>} |-> s]
MCConfigs ==
  {One(Str(N(4))), One(Str(Infinite)), One(Str(NU(2, "seconds"))), One(Str(NU(-1, "second")))
   , One(Str(NU(4000, "weeks"))), One(Str(<<NumAndHalf(1), Word("seconds"), Word("x")>>))
   , One(Lst(<<N(2), W("true")>>)), One(Lst(<<N(2), W("true"), N(4), W("false")>>)), One(Lst(<<N(2)>>))
   , (<<"s">> :> Scp) @@ (<<"s", "a">> :> Str(N(2))) @@ (<<"s", "s">> :> Scp) @@ (<<"s", "s", "a">> :> Str(N(9)))
   , (<<"s">> :> Scp) @@ (<<"s", "s">> :> Scp) @@ (<<"s", "s", "a">> :> Str(N(9)))
   , (<<"s">> :> Scp) @@ (<<"s", "a">> :> Str(W("true")))
   , (<<"u1">> :> Scp) @@ (<<"u1", "a">> :> Str(W("true"))) @@ (<<"u2">> :> Scp)
   , (<<"u1">> :> Scp) @@ (<<"u1", "a">> :> Str(W("true")))}
MCTexts ==
  LET tokens == {Num(n) : n \in {-1, 0, 3, 70, 16777217}} \cup {NumAndHalf(1), NumAndHalf(-2)} \cup
                {Word(w) : w \in {"microseconds", "millisecond", "second", "minutes", "week",
                                 "bytes", "KB", "MB", "GB", "TB", "PB", "infinite", "true"}}
  IN  {<<t>> : t \in tokens} \cup {<<t, u>> : t, u \in tokens}
      \cup {<<t, Word("second"), u>> : t, u \in {Num(3), Word("KB")}}
MCDefaults == {-16777219, -1, 0, 7, 16777216, 16777217, 2147483583, 2147483647}
MCLocals == {<<>>, <<"s">>}
=============================================================================
