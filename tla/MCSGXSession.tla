---------------------------- MODULE MCSGXSession ----------------------------
EXTENDS SGXSession, TLC

CONSTANTS p1, p2

Ports == p1 :> <<"1", "2">> @@ p2 :> <<"3">>
KeyBits == <<"1", "0">>

Stale == {<<>>, <<"ctl", "0", "2">>}
=============================================================================
