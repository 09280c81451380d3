------------------------------- MODULE MCHub -------------------------------
EXTENDS Hub, TLC

CONSTANTS c1, c2, c3, u1, u2

\* One user who reconnects, beside another user.
MCOwner == [c \in Conns |-> IF c = c2 THEN u2 ELSE u1]
\* A single user with every connection.
MCOneUser == [c \in Conns |-> u1]

\* The two connections of u1 are interchangeable.
Reconnections == Permutations({c1, c3})
=============================================================================
