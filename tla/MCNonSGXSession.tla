-------------------------- MODULE MCNonSGXSession --------------------------
EXTENDS NonSGXSession, TLC

CONSTANT p1

ShortPort == p1 :> <<"1">>
OnePort == p1 :> <<"1", "2">>

TwoBlocks == <<"1", "0", "0", "1">>
Committed == <<"1", "1", "0">>

Clear == {<<>>}
Stale == {<<>>, <<"ctl", "2">>, <<"0", "1">>}
=============================================================================
