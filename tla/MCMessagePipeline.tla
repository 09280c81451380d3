------------------------- MODULE MCMessagePipeline -------------------------
EXTENDS MessagePipeline, TLC

CONSTANTS a1, a2, b1, alice, bob, w1, w2, msg, ack, chunk, complete

MCOwner == [c \in Conns |-> IF c = b1 THEN bob ELSE alice]
MCFrom == [op \in Ops |-> IF op = ack THEN bob ELSE alice]
MCTo == [op \in Ops |-> IF op = ack THEN alice ELSE bob]
MCKind == [op \in Ops |->
    CASE op = msg -> "message"
      [] op = ack -> "ack"
      [] op = chunk -> "file_chunk"
      [] op = complete -> "file_complete"]

\* A message and its retry; of everything else one copy.
MCRetried == [op \in Ops |-> IF op = msg THEN 2 ELSE 1]
MCOnce == [op \in Ops |-> 1]
=============================================================================
