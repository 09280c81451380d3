---------------------------- MODULE OrderedChannel ----------------------------
(***************************************************************************)
(* What a reorder buffer promises the handlers: messages are handed over in *)
(* the order of their numbers, none twice; a number that has been passed is *)
(* never handed over any more.  Some may be missing.                        *)
(***************************************************************************)
EXTENDS Integers, Sequences, SequencesExt

CONSTANT Numbers

VARIABLES log,        \* the numbers handed over
          passed      \* no number up to this one is handed over any more

Init == log = <<>> /\ passed = -1

Increasing(s) == \A i, j \in DOMAIN s : i < j => s[i] < s[j]

HandOver ==
    /\ passed' \in Numbers /\ passed' > passed
    /\ Len(log) <= Len(log') /\ SubSeq(log', 1, Len(log)) = log
    /\ Increasing(log')
    /\ \A i \in DOMAIN log' \ DOMAIN log : log'[i] \in passed + 1 .. passed'

\* The connection is closed and the numbers start again.
Restart == log' = <<>> /\ passed' = -1

Next == HandOver \/ Restart

Spec == Init /\ [][Next]_<<log, passed>>
=============================================================================
