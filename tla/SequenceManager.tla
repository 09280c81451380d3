--------------------------- MODULE SequenceManager ---------------------------
(***************************************************************************)
(* The reorder buffer between a socket and the handlers of a chat           *)
(* (sequence-manager.ts).  Messages arrive with their numbers in any order   *)
(* and more than once; each call returns the messages to hand over.  A       *)
(* buffered message expires when a later call finds that it has waited too   *)
(* long.  The set of numbers that were received is trimmed in the order of   *)
(* insertion.                                                               *)
(***************************************************************************)
EXTENDS Integers, Sequences, FiniteSets, SequencesExt

CONSTANTS MaxSequence,       \* bound: the highest number that arrives
          SequenceModulus,   \* Number.MAX_SAFE_INTEGER
          MaxBufferSize,     \* options.maxBufferSize
          MaxToKeep,         \* MAX_SEQUENCES_TO_KEEP
          KeepBehind         \* the 1000 of cleanupOldSequences

ASSUME SequenceAssumption ==
    /\ MaxSequence \in Nat /\ SequenceModulus \in Nat \ {0}
    /\ MaxBufferSize \in Nat /\ MaxToKeep \in Nat /\ KeepBehind \in Nat

VARIABLES nextSequence,            \* the number of the next message to send
          receivedSequences,       \* the numbers seen, in order of insertion
          buffer,                  \* the numbers that wait in the buffer
          overdue,                 \* those that have waited over maxWaitTime
          lastDeliveredSequence,
          handedOver               \* what the handlers got since the reset

sequenceVars == <<nextSequence, receivedSequences, buffer, overdue,
                  lastDeliveredSequence, handedOver>>

Arrivals == 0 .. MaxSequence

SequenceInit ==
    /\ nextSequence = 0
    /\ receivedSequences = <<>>
    /\ buffer = {}
    /\ overdue = {}
    /\ lastDeliveredSequence = -1
    /\ handedOver = <<>>

\* The oldest go, whether they have been delivered or not.
CleanupAnySequences(received, last) ==
    LET excess == Len(received) - MaxToKeep
    IN  IF excess <= 0 THEN received
        ELSE SubSeq(received, excess + 1, Len(received))

\* A set of numbers in ascending order: a member is at the place of its rank.
Ascending(S) ==
    [k \in 1 .. Cardinality(S) |->
        CHOOSE s \in S : Cardinality({t \in S : t <= s}) = k]

\* The sequence of numbers without those that are deleted, in the same order.
Without(received, deleted) ==
    LET kept == Ascending({i \in DOMAIN received : received[i] \notin deleted})
    IN  [k \in DOMAIN kept |-> received[kept[k]]]

\* The numbers that remain of `received' once `last' has been delivered.
CleanupOldSequences(received, last) ==
    LET recent == {s \in ToSet(received) : s > last - KeepBehind}
        old == Without(received, recent)
        excess == Len(received) - MaxToKeep
        toRemove == ToSet(SubSeq(old, 1, IF excess < Len(old) THEN excess
                                         ELSE Len(old)))
    IN  IF excess <= 0 THEN received ELSE Without(received, toRemove)

\* All that is ahead of `last', gaps or not.
ReadyRunWithGaps(b, last) == {s \in b : s > last}

\* The numbers that follow `last' without a gap in the buffer b.
ReadyRun(b, last) == {s \in b : s > last /\ (last + 1) .. s \subseteq b}

\* An overfull buffer gives up the number that is due, if it holds it.
FlushBuffer(b, last) ==
    IF Cardinality(b) > MaxBufferSize /\ last + 1 \in b
    THEN [buffer |-> b \ {last + 1}, last |-> last + 1]
    ELSE [buffer |-> b, last |-> last]

New(s) == s \notin ToSet(receivedSequences)

\* The number that is due is handed over at once; what follows it in the
\* buffer waits for the next call.
AddDue(s) ==
    /\ New(s) /\ s = lastDeliveredSequence + 1
    /\ lastDeliveredSequence' = s
    /\ receivedSequences' = CleanupOldSequences(Append(receivedSequences, s), s)
    /\ handedOver' = Append(handedOver, s)
    /\ UNCHANGED <<nextSequence, buffer, overdue>>

AddLate(s) ==
    /\ New(s) /\ s <= lastDeliveredSequence
    /\ receivedSequences' = Append(receivedSequences, s)
    /\ UNCHANGED <<nextSequence, buffer, overdue, lastDeliveredSequence,
                   handedOver>>

\* The buffer takes it, loses what is overdue, and gives what is ready.
AddEarly(s) ==
    /\ New(s) /\ s > lastDeliveredSequence + 1
    /\ LET flushed == FlushBuffer((buffer \cup {s}) \ overdue,
                                  lastDeliveredSequence)
           run == ReadyRun(flushed.buffer, flushed.last)
           last == flushed.last + Cardinality(run)
       IN  /\ lastDeliveredSequence' = last
           /\ receivedSequences' =
                 CleanupOldSequences(Append(receivedSequences, s), last)
           /\ handedOver' = handedOver \o Ascending(run)
           /\ buffer' = flushed.buffer \ run
           /\ overdue' = {}
    /\ UNCHANGED nextSequence

\* Some of the buffer, those that came first, will have waited too long when
\* the next one comes.
TimePasses ==
    /\ \E n \in DOMAIN receivedSequences :
          overdue' = buffer \cap ToSet(SubSeq(receivedSequences, 1, n))
    /\ overdue \subseteq overdue' /\ overdue' # overdue
    /\ UNCHANGED <<nextSequence, receivedSequences, buffer,
                   lastDeliveredSequence, handedOver>>

GetNextSequence ==
    /\ nextSequence' = (nextSequence + 1) % SequenceModulus
    /\ UNCHANGED <<receivedSequences, buffer, overdue, lastDeliveredSequence,
                   handedOver>>

\* reset(), when the socket closes.
ResetSequences ==
    /\ nextSequence' = 0
    /\ receivedSequences' = <<>>
    /\ buffer' = {}
    /\ overdue' = {}
    /\ lastDeliveredSequence' = -1
    /\ handedOver' = <<>>

SequenceNext ==
    \/ \E s \in Arrivals : AddDue(s) \/ AddLate(s) \/ AddEarly(s)
    \/ TimePasses
    \/ GetNextSequence
    \/ ResetSequences

SequenceSpec == SequenceInit /\ [][SequenceNext]_sequenceVars

-----------------------------------------------------------------------------
\* The type invariant: the fields of SequenceManager (sequence-manager.ts 7-12),
\* where no number is received twice.
SequenceTypeOK ==
    /\ nextSequence \in 0 .. SequenceModulus - 1
    /\ receivedSequences \in Seq(Arrivals) /\ IsInjective(receivedSequences)
    /\ buffer \subseteq Arrivals /\ overdue \subseteq buffer
    /\ lastDeliveredSequence \in -1 .. MaxSequence
    /\ handedOver \in Seq(Arrivals)

\* What waits in the buffer is still to come and is known as received, so no
\* copy of it is taken for new: trimming and flushing lose neither fact.
BufferIsAhead == \A s \in buffer :
    s > lastDeliveredSequence /\ s \in ToSet(receivedSequences)

\* The buffer, the trimming and the flush together are a channel that hands
\* over messages in order, each at most once.
Channel == INSTANCE OrderedChannel WITH
               log <- handedOver, passed <- lastDeliveredSequence,
               Numbers <- Arrivals
ImplementsOrderedChannel == Channel!Spec
=============================================================================
