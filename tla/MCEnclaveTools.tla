--------------------------- MODULE MCEnclaveTools ---------------------------
EXTENDS EnclaveTools

SixFive == <<6, 5>>
FewBits == {<<>>, <<1>>, <<0, 1, 1>>}
=============================================================================
