------------------------- MODULE MCConfiguration -------------------------
EXTENDS Configuration

\* "a" and "i" fall into the same bucket of every table of up to eight
MCCodesOf(name) == CASE name = "" -> <<>> [] name = "a" -> <<97>> [] name = "i" -> <<105>>
MCFallbacks == {[p \in {} |-> NoItem], [p \in {<<"a">>, <<"a", "i">>} |-> StringItem("f")]}
===========================================================================
