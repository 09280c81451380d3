----------------------------- MODULE MCChatSession -----------------------------
EXTENDS ChatSession, TLC

CONSTANTS a, b

\* The two users run the same client.
EitherSide == Permutations(Peers)
=============================================================================
