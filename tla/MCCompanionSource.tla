------------------------- MODULE MCCompanionSource -------------------------
EXTENDS CompanionSource, TLC
CONSTANTS c1, c2, c3
Calls == Permutations(Call)
==============================================================================
