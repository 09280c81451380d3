--------------------------- MODULE MCRefreshTokens ---------------------------
EXTENDS RefreshTokens, TLC

CONSTANTS r1, r2, r3

AnyRequest == Permutations(Requests)
=============================================================================
