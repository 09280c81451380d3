------------------------ MODULE MessagePipelineProofs ------------------------
(***************************************************************************)
(* Proofs about MessagePipeline, for any connections, workers, operations,  *)
(* queue size and number of copies.  The account of the accepted tasks is   *)
(* kept by counting places in the queue and in the histories.               *)
(***************************************************************************)
EXTENDS MessagePipeline, FiniteSetTheorems, SequenceTheorems, TLAPS

\* What the steps of a read pump and of a worker work with.
ControlOK ==
    /\ registered \in [Users -> Conns \cup {None}]
    /\ \A c \in Conns : pumpPC[c] \in {"execute", "submit", "store"} =>
          /\ pumpOp[c] \in Ops /\ From[pumpOp[c]] = Owner[c]
          /\ pumpPC[c] = "submit" <=> ~Keyed(pumpOp[c])
    /\ \A w \in Workers :
          workerPC[w] \in {"route", "load", "send", "notice", "answer"}
             => workerTask[w] \in Tasks

TypeInv == TypeOK /\ ControlOK

----------------------------------------------------------------------------
(* Counting places of a sequence.                                          *)

LEMMA PlacesAreFinite ==
    ASSUME NEW n \in Nat, NEW I \in SUBSET (1 .. n)
    PROVE  IsFiniteSet(I) /\ Cardinality(I) \in Nat
<1>1. IsFiniteSet(1 .. n)
  BY FS_Interval
<1>2. IsFiniteSet(I)
  BY <1>1, FS_Subset
<1>3. QED
  BY <1>2, FS_CardinalityType

LEMMA CountOfAppend ==
    ASSUME NEW S, NEW s \in Seq(S), NEW x \in S, NEW op
    PROVE  /\ CountOf(op, s) \in Nat
           /\ CountOf(op, Append(s, x))
                 = IF x = op THEN CountOf(op, s) + 1 ELSE CountOf(op, s)
<1> DEFINE n == Len(s)
           I == {i \in DOMAIN s : s[i] = op}
           J == {i \in DOMAIN Append(s, x) : Append(s, x)[i] = op}
<1>1. n \in Nat /\ DOMAIN s = 1 .. n
  BY LenProperties
<1>2. /\ DOMAIN Append(s, x) = 1 .. n + 1 /\ Append(s, x)[n + 1] = x
      /\ \A i \in 1 .. n : Append(s, x)[i] = s[i]
  <2>1. /\ Append(s, x) \in Seq(S) /\ Len(Append(s, x)) = n + 1
        /\ \A i \in 1 .. n : Append(s, x)[i] = s[i]
        /\ Append(s, x)[n + 1] = x
    BY AppendProperties
  <2>2. DOMAIN Append(s, x) = 1 .. n + 1
    BY <2>1, LenProperties
  <2>3. QED
    BY <2>1, <2>2
<1>3. IsFiniteSet(I) /\ Cardinality(I) \in Nat
  BY <1>1, PlacesAreFinite
<1>4. n + 1 \notin I
  BY <1>1
<1>5. J = IF x = op THEN I \cup {n + 1} ELSE I
  BY <1>1, <1>2
<1> HIDE DEF I, J
<1>6. Cardinality(J) = IF x = op THEN Cardinality(I) + 1 ELSE Cardinality(I)
  BY <1>3, <1>4, <1>5, FS_AddElement
<1>7. QED
  BY <1>3, <1>6 DEF CountOf, I, J

\* The places of an operation in a queue q.
Waiting(op, q) == Cardinality({i \in DOMAIN q : q[i].op = op})

LEMMA WaitingAppend ==
    ASSUME NEW q \in Seq(Tasks), NEW t \in Tasks, NEW op
    PROVE  /\ Waiting(op, q) \in Nat
           /\ Waiting(op, Append(q, t))
                 = IF t.op = op THEN Waiting(op, q) + 1 ELSE Waiting(op, q)
<1> DEFINE n == Len(q)
           I == {i \in DOMAIN q : q[i].op = op}
           J == {i \in DOMAIN Append(q, t) : Append(q, t)[i].op = op}
<1>1. n \in Nat /\ DOMAIN q = 1 .. n
  BY LenProperties
<1>2. /\ DOMAIN Append(q, t) = 1 .. n + 1 /\ Append(q, t)[n + 1] = t
      /\ \A i \in 1 .. n : Append(q, t)[i] = q[i]
  <2>1. /\ Append(q, t) \in Seq(Tasks) /\ Len(Append(q, t)) = n + 1
        /\ \A i \in 1 .. n : Append(q, t)[i] = q[i]
        /\ Append(q, t)[n + 1] = t
    BY AppendProperties
  <2>2. DOMAIN Append(q, t) = 1 .. n + 1
    BY <2>1, LenProperties
  <2>3. QED
    BY <2>1, <2>2
<1>3. IsFiniteSet(I) /\ Cardinality(I) \in Nat
  BY <1>1, PlacesAreFinite
<1>4. n + 1 \notin I
  BY <1>1
<1>5. J = IF t.op = op THEN I \cup {n + 1} ELSE I
  BY <1>1, <1>2
<1> HIDE DEF I, J
<1>6. Cardinality(J) = IF t.op = op THEN Cardinality(I) + 1 ELSE Cardinality(I)
  BY <1>3, <1>4, <1>5, FS_AddElement
<1>7. QED
  BY <1>3, <1>6 DEF Waiting, I, J

\* Taking the head of a queue moves every other place by one.
LEMMA WaitingTail ==
    ASSUME NEW q \in Seq(Tasks), q # <<>>, NEW op
    PROVE  Waiting(op, q) = IF Head(q).op = op THEN Waiting(op, Tail(q)) + 1
                                               ELSE Waiting(op, Tail(q))
<1> DEFINE n == Len(q)
           I == {i \in DOMAIN q : q[i].op = op}
           J == {i \in DOMAIN Tail(q) : Tail(q)[i].op = op}
           shift == [j \in J |-> j + 1]
<1>1. n \in Nat \ {0} /\ DOMAIN q = 1 .. n /\ Head(q) = q[1]
  BY LenProperties, EmptySeq
<1>2. /\ DOMAIN Tail(q) = 1 .. n - 1
      /\ \A i \in 1 .. n - 1 : Tail(q)[i] = q[i + 1]
  <2>1. /\ Tail(q) \in Seq(Tasks) /\ Len(Tail(q)) = n - 1
        /\ \A i \in 1 .. Len(Tail(q)) : Tail(q)[i] = q[i + 1]
    BY HeadTailProperties
  <2>2. DOMAIN Tail(q) = 1 .. n - 1
    BY <2>1, LenProperties
  <2>3. QED
    BY <2>1, <2>2
<1>3. /\ IsFiniteSet(I) /\ Cardinality(I) \in Nat
      /\ IsFiniteSet(J) /\ Cardinality(J) \in Nat
  <2>1. I \in SUBSET (1 .. n) /\ J \in SUBSET (1 .. n - 1) /\ n - 1 \in Nat
    BY <1>1, <1>2
  <2> HIDE DEF I, J
  <2>2. QED
    BY <1>1, <2>1, PlacesAreFinite
<1>4. shift \in Bijection(J, I \ {1})
  <2>1. \A j \in J : j \in 1 .. n - 1 /\ j + 1 \in I \ {1}
    BY <1>1, <1>2
  <2>2. \A i \in I \ {1} : i - 1 \in J /\ (i - 1) + 1 = i
    BY <1>1, <1>2
  <2>3. shift \in [J -> I \ {1}]
    BY <2>1
  <2>4. \A a, b \in J : shift[a] = shift[b] => a = b
    BY <2>1
  <2>5. \A i \in I \ {1} : \E j \in J : shift[j] = i
    BY <2>2
  <2>6. QED
    BY <2>3, <2>4, <2>5 DEF Bijection, Injection, Surjection, IsInjective
<1>5. Cardinality(I \ {1}) = Cardinality(J)
  BY <1>3, <1>4, FS_Bijection DEF ExistsBijection
<1>6. 1 \in I <=> Head(q).op = op
  BY <1>1
<1> HIDE DEF I, J
<1>7. Cardinality(I \ {1}) = IF 1 \in I THEN Cardinality(I) - 1 ELSE Cardinality(I)
  BY <1>3, FS_RemoveElement
<1>8. Cardinality(I) = IF Head(q).op = op THEN Cardinality(J) + 1 ELSE Cardinality(J)
  BY <1>3, <1>5, <1>6, <1>7
<1>9. QED
  BY <1>8 DEF Waiting, I, J

----------------------------------------------------------------------------
(* Types.                                                                  *)

LEMMA TypeInvInit == Init => TypeInv
BY PipelineAssumption
DEF Init, RegistryInit, TypeInv, TypeOK, ControlOK, NoTask

LEMMA TypeInvPump ==
    ASSUME TypeInv, NEW c \in Conns, PumpStep(c)
    PROVE  TypeInv'
<1> USE DEF TypeInv, TypeOK, ControlOK, registryVars, pumpVars, trackerVars,
            queueVars, outcomeVars, workerVars
<1>1. ASSUME NEW op \in Ops, ReadFrame(c, op)
      PROVE  TypeInv'
  <2>1. copies' \in [Ops -> Nat] /\ \A o \in Ops : copies'[o] <= MaxCopies[o]
    <3>1. /\ copies' = [copies EXCEPT ![op] = @ + 1] /\ copies[op] < MaxCopies[op]
          /\ copies \in [Ops -> Nat] /\ \A o \in Ops : copies[o] <= MaxCopies[o]
      BY <1>1 DEF ReadFrame
    <3>2. copies[op] \in Nat /\ MaxCopies[op] \in Nat
      BY <3>1, PipelineAssumption
    <3>3. copies' \in [Ops -> Nat]
      BY <3>1, <3>2
    <3>4. copies[op] + 1 <= MaxCopies[op]
      BY <3>1, <3>2
    <3>5. \A o \in Ops : copies'[o] = IF o = op THEN copies[op] + 1 ELSE copies[o]
      BY <3>1
    <3>6. QED
      BY <3>1, <3>3, <3>4, <3>5
  <2>2. CASE Keyed(op) /\ records[op] = "fresh"
    BY <1>1, <2>1, <2>2 DEF ReadFrame
  <2>3. CASE ~(Keyed(op) /\ records[op] = "fresh")
    <3>1. /\ pumpPC' = [pumpPC EXCEPT ![c] = IF Keyed(op) THEN "execute"
                                                          ELSE "submit"]
          /\ pumpOp' = [pumpOp EXCEPT ![c] = op]
          /\ records' = [records EXCEPT ![op] = "none"]
          /\ From[op] = Owner[c]
          /\ UNCHANGED <<registryVars, lapses, queueVars, outcomeVars, workerVars>>
      BY <1>1, <2>3 DEF ReadFrame
    <3>2. TypeOK'
      BY <2>1, <3>1
    <3>3. ControlOK'
      BY <3>1
    <3>4. QED
      BY <3>2, <3>3
  <2>4. QED
    BY <2>2, <2>3
<1>2. CASE Submit(c)
  <2>1. pumpOp[c] \in Ops
    BY <1>2 DEF Submit
  <2> DEFINE t == [op |-> pumpOp[c], conn |-> c]
  <2>2. t \in Tasks
    BY <2>1 DEF Tasks
  <2>3. \/ /\ Len(queue) < QueueSize
           /\ queue' = Append(queue, t) /\ accepted' = Append(accepted, pumpOp[c])
        \/ queue' = queue /\ accepted' = accepted
    BY <1>2 DEF Submit
  <2> HIDE DEF t
  <2>4. /\ queue' \in Seq(Tasks) /\ Len(queue') <= QueueSize
        /\ accepted' \in Seq(Ops)
    <3>1. /\ Append(queue, t) \in Seq(Tasks)
          /\ Len(Append(queue, t)) = Len(queue) + 1 /\ Len(queue) \in Nat
      <4>1. queue \in Seq(Tasks)
        OBVIOUS
      <4>2. QED
        BY <2>2, <4>1, AppendProperties, LenProperties
    <3>2. Append(accepted, pumpOp[c]) \in Seq(Ops)
      <4>1. accepted \in Seq(Ops)
        OBVIOUS
      <4>2. QED
        BY <2>1, <4>1, AppendProperties
    <3>3. Len(queue) < QueueSize => Len(queue) + 1 <= QueueSize
      BY <3>1, PipelineAssumption
    <3>4. queue \in Seq(Tasks) /\ accepted \in Seq(Ops) /\ Len(queue) <= QueueSize
      OBVIOUS
    <3>5. QED
      BY <2>3, <3>1, <3>2, <3>3, <3>4
  <2>5. QED
    BY <1>2, <2>4 DEF Submit
<1>3. CASE SubmitPanics(c)
  BY <1>3 DEF SubmitPanics
<1>4. CASE StoreRecord(c)
  BY <1>4 DEF StoreRecord
<1>5. QED
  BY <1>1, <1>2, <1>3, <1>4 DEF PumpStep

\* The part of the invariant about the workers, and the rest of it.
WorkersOK ==
    /\ workerPC \in [Workers -> {"idle", "route", "load", "send", "notice",
                                 "answer", "dead", "ended"}]
    /\ workerTask \in [Workers -> Tasks \cup {NoTask}]
    /\ workerTo \in [Workers -> Conns \cup {None}]
    /\ \A w \in Workers :
          workerPC[w] \in {"route", "load", "send", "notice", "answer"}
             => workerTask[w] \in Tasks

\* A worker keeps the invariant when its own fields, the queue and the counts of
\* the outcomes do.
LEMMA WorkerFrame ==
    ASSUME TypeInv, WorkersOK', UNCHANGED <<registryVars, pumpVars, trackerVars>>,
           queue' \in Seq(Tasks), Len(queue') <= QueueSize,
           UNCHANGED <<queueOpen, accepted>>,
           forwarded' \in Seq(Ops), dropped' \in [Ops -> Nat]
    PROVE  TypeInv'
BY DEF TypeInv, TypeOK, ControlOK, WorkersOK, registryVars, pumpVars, trackerVars

\* Where a worker goes, what it holds then, and where it sends.
LEMMA WorkerMoves ==
    ASSUME WorkersOK, NEW w \in Workers,
           NEW pc \in {"idle", "route", "load", "send", "notice", "answer",
                       "dead", "ended"},
           workerPC' = [workerPC EXCEPT ![w] = pc],
           NEW t \in Tasks \cup {NoTask}, NEW to \in Conns \cup {None},
           workerTask' = [workerTask EXCEPT ![w] = t] \/ workerTask' = workerTask,
           workerTo' = [workerTo EXCEPT ![w] = to] \/ workerTo' = workerTo,
           pc \in {"route", "load", "send", "notice", "answer"}
              => workerTask'[w] \in Tasks
    PROVE  WorkersOK'
<1>1. /\ workerTask' \in [Workers -> Tasks \cup {NoTask}]
      /\ \A v \in Workers \ {w} : workerTask'[v] = workerTask[v]
  BY DEF WorkersOK
<1>2. workerTo' \in [Workers -> Conns \cup {None}]
  BY DEF WorkersOK
<1>3. /\ workerPC' \in [Workers -> {"idle", "route", "load", "send", "notice",
                                    "answer", "dead", "ended"}]
      /\ workerPC'[w] = pc
      /\ \A v \in Workers \ {w} : workerPC'[v] = workerPC[v]
  BY DEF WorkersOK
<1>4. QED
  BY <1>1, <1>2, <1>3 DEF WorkersOK

LEMMA TypeInvWorker ==
    ASSUME TypeInv, NEW w \in Workers, WorkerStep(w)
    PROVE  TypeInv'
<1>0. /\ WorkersOK /\ queue \in Seq(Tasks) /\ Len(queue) <= QueueSize
      /\ accepted \in Seq(Ops) /\ forwarded \in Seq(Ops) /\ dropped \in [Ops -> Nat]
      /\ registered \in [Users -> Conns \cup {None}]
      /\ workerTask[w] \in Tasks \cup {NoTask} /\ workerTo[w] \in Conns \cup {None}
  BY DEF TypeInv, TypeOK, ControlOK, WorkersOK
<1>1. workerPC[w] \in {"route", "load", "send", "notice"} =>
         /\ workerTask[w] \in Tasks /\ workerTask[w].op \in Ops
         /\ registered[To[workerTask[w].op]] \in Conns \cup {None}
         /\ registered[From[workerTask[w].op]] \in Conns \cup {None}
  <2> HAVE workerPC[w] \in {"route", "load", "send", "notice"}
  <2>1. workerTask[w] \in Tasks
    BY <1>0 DEF WorkersOK
  <2>2. workerTask[w].op \in Ops
    BY <2>1 DEF Tasks
  <2>3. QED
    BY <1>0, <2>1, <2>2, PipelineAssumption
<1>2. NoTask \in Tasks \cup {NoTask} /\ None \in Conns \cup {None}
  OBVIOUS
<1>3. ASSUME Finish(w)
      PROVE  WorkersOK'
  BY <1>0, <1>2, <1>3, WorkerMoves DEF Finish, Goto
<1>4. ASSUME NEW o \in Ops, dropped' = [dropped EXCEPT ![o] = @ + 1]
      PROVE  dropped' \in [Ops -> Nat]
  BY <1>0, <1>4
<1> USE DEF queueVars, outcomeVars
<1>5. CASE WorkerTake(w)
  <2>1. /\ Head(queue) \in Tasks /\ Tail(queue) \in Seq(Tasks)
        /\ Len(Tail(queue)) = Len(queue) - 1 /\ Len(queue) \in Nat
    BY <1>0, <1>5, HeadTailProperties, LenProperties DEF WorkerTake
  <2>2. /\ workerTask' = [workerTask EXCEPT ![w] = Head(queue)]
        /\ workerPC' = [workerPC EXCEPT ![w] = "route"] /\ workerTo' = workerTo
    BY <1>5 DEF WorkerTake, Goto
  <2>3. workerTask'[w] = Head(queue)
    BY <1>0, <2>2 DEF WorkersOK
  <2>4. WorkersOK'
    BY <1>0, <2>1, <2>2, <2>3, WorkerMoves
  <2>5. Len(Tail(queue)) <= QueueSize
    BY <1>0, <2>1, PipelineAssumption
  <2>6. QED
    BY <1>0, <1>5, <2>1, <2>4, <2>5, WorkerFrame DEF WorkerTake
<1>6. CASE WorkerEnds(w)
  <2>1. WorkersOK'
    BY <1>0, <1>2, <1>6, WorkerMoves DEF WorkerEnds, Goto
  <2>2. QED
    BY <1>0, <1>6, <2>1, WorkerFrame DEF WorkerEnds
<1>7. CASE WorkerRoute(w)
  <2>1. /\ \E pc \in {"notice", "load"} : workerPC' = [workerPC EXCEPT ![w] = pc]
        /\ workerTask' = workerTask /\ workerTo' = workerTo
    BY <1>7 DEF WorkerRoute, Goto
  <2>2. WorkersOK'
    BY <1>0, <1>1, <1>2, <1>7, <2>1, WorkerMoves DEF WorkerRoute
  <2>3. dropped' \in [Ops -> Nat]
    BY <1>0, <1>1, <1>4, <1>7 DEF WorkerRoute, Drop
  <2>4. QED
    BY <1>0, <1>7, <2>2, <2>3, WorkerFrame DEF WorkerRoute
<1>8. CASE UserCheckFails(w)
  <2>1. WorkersOK' /\ dropped' \in [Ops -> Nat]
    BY <1>1, <1>3, <1>4, <1>8 DEF UserCheckFails, Drop
  <2>2. QED
    BY <1>0, <1>8, <2>1, WorkerFrame DEF UserCheckFails
<1>9. CASE WorkerLoad(w)
  <2>1. CASE workerTask[w].conn \in cancelled
             \/ registered[To[workerTask[w].op]] = None
    <3>1. WorkersOK' /\ dropped' \in [Ops -> Nat]
      BY <1>1, <1>3, <1>4, <1>9, <2>1 DEF WorkerLoad, Drop
    <3>2. QED
      BY <1>0, <1>9, <3>1, WorkerFrame DEF WorkerLoad
  <2>2. CASE ~(workerTask[w].conn \in cancelled
               \/ registered[To[workerTask[w].op]] = None)
    <3> DEFINE to == registered[To[workerTask[w].op]]
    <3>1. /\ workerTo' = [workerTo EXCEPT ![w] = to]
          /\ workerPC' = [workerPC EXCEPT ![w] = "send"]
          /\ workerTask' = workerTask /\ dropped' = dropped
          /\ to \in Conns \cup {None}
      BY <1>1, <1>9, <2>2 DEF WorkerLoad, Goto
    <3> HIDE DEF to
    <3>2. WorkersOK'
      BY <1>0, <1>1, <1>2, <1>9, <3>1, WorkerMoves DEF WorkerLoad
    <3>3. QED
      BY <1>0, <1>9, <3>1, <3>2, WorkerFrame DEF WorkerLoad
  <2>3. QED
    BY <2>1, <2>2
<1>10. CASE WorkerSend(w)
  <2>1. WorkersOK' /\ forwarded' \in Seq(Ops)
    BY <1>0, <1>1, <1>3, <1>10, AppendProperties DEF WorkerSend
  <2>2. QED
    BY <1>0, <1>10, <2>1, WorkerFrame DEF WorkerSend
<1>11. CASE WorkerSendTimesOut(w)
  <2>1. WorkersOK' /\ dropped' \in [Ops -> Nat]
    BY <1>1, <1>3, <1>4, <1>11 DEF WorkerSendTimesOut, Drop
  <2>2. QED
    BY <1>0, <1>11, <2>1, WorkerFrame DEF WorkerSendTimesOut
<1>12. CASE WorkerNotice(w)
  <2> DEFINE back == registered[From[workerTask[w].op]]
  <2>1. CASE back = None
    BY <1>0, <1>3, <1>12, <2>1, WorkerFrame DEF WorkerNotice
  <2>2. CASE back # None
    <3>1. /\ workerTo' = [workerTo EXCEPT ![w] = back]
          /\ workerPC' = [workerPC EXCEPT ![w] = "answer"]
          /\ workerTask' = workerTask
          /\ back \in Conns \cup {None}
      BY <1>1, <1>12, <2>2 DEF WorkerNotice, Goto
    <3> HIDE DEF back
    <3>2. WorkersOK'
      BY <1>0, <1>1, <1>2, <1>12, <3>1, WorkerMoves DEF WorkerNotice
    <3>3. QED
      BY <1>0, <1>12, <3>2, WorkerFrame DEF WorkerNotice
  <2>3. QED
    BY <2>1, <2>2
<1>13. CASE WorkerAnswer(w)
  BY <1>0, <1>3, <1>13, WorkerFrame DEF WorkerAnswer
<1>14. CASE WorkerPanics(w)
  <2>1. /\ workerPC' = [workerPC EXCEPT ![w] = "dead"]
        /\ workerTask' = [workerTask EXCEPT ![w] = NoTask]
        /\ workerTo' = [workerTo EXCEPT ![w] = None]
    BY <1>14 DEF WorkerPanics, Goto
  <2>2. WorkersOK'
    BY <1>0, <1>2, <2>1, WorkerMoves
  <2>3. dropped' \in [Ops -> Nat]
    BY <1>0, <1>1, <1>4, <1>14 DEF WorkerPanics, Drop
  <2>4. QED
    BY <1>0, <1>14, <2>2, <2>3, WorkerFrame DEF WorkerPanics
<1>15. QED
  BY <1>5, <1>6, <1>7, <1>8, <1>9, <1>10, <1>11, <1>12, <1>13, <1>14 DEF WorkerStep

LEMMA TypeInvNext == TypeInv /\ [Next]_vars => TypeInv'
<1> SUFFICES ASSUME TypeInv, [Next]_vars
             PROVE  TypeInv'
  OBVIOUS
<1> USE DEF TypeInv, TypeOK, ControlOK, registryVars, pumpVars, trackerVars,
            queueVars, outcomeVars, workerVars, pipelineVars
<1>1. ASSUME NEW c \in Conns, PumpStep(c)
      PROVE  TypeInv'
  BY <1>1, TypeInvPump
<1>2. ASSUME NEW w \in Workers, WorkerStep(w)
      PROVE  TypeInv'
  BY <1>2, TypeInvWorker
<1>3. ASSUME NEW op \in Ops, RecordExpires(op)
      PROVE  TypeInv'
  BY <1>3 DEF RecordExpires
<1>4. CASE CleanupRecords
  BY <1>4 DEF CleanupRecords
<1>5. CASE CloseQueue
  BY <1>5 DEF CloseQueue
<1>6. CASE RegistryNext /\ UNCHANGED pipelineVars
  <2>1. registered' \in [Users -> Conns \cup {None}]
    BY <1>6, PipelineAssumption DEF RegistryNext, Enter, Shut, Cancel, Leave
  <2>2. UNCHANGED pipelineVars
    BY <1>6
  <2>3. TypeOK'
    BY <2>2
  <2>4. ControlOK'
    BY <2>1, <2>2
  <2>5. QED
    BY <2>3, <2>4
<1>7. CASE UNCHANGED vars
  BY <1>7 DEF vars
<1>8. QED
  BY <1>1, <1>2, <1>3, <1>4, <1>5, <1>6, <1>7 DEF Next

LEMMA TypeInvHolds == Spec => []TypeInv
BY TypeInvInit, TypeInvNext, PTL DEF Spec

\* Queue, records and the steps of pumps and workers keep their types, the queue
\* its capacity (processor.go, idempotency.go).
THEOREM TypeOKHolds == Spec => []TypeOK
BY TypeInvHolds, PTL DEF TypeInv

----------------------------------------------------------------------------
(* The account of the accepted tasks.                                      *)

\* The workers that hold a task of the operation.
Holding(w, op) ==
    workerPC[w] \in {"route", "load", "send"} /\ workerTask[w].op = op
Hands(op) == {w \in Workers : Holding(w, op)}

LEMMA HandsAreFinite ==
    ASSUME NEW op
    PROVE  IsFiniteSet(Hands(op)) /\ Cardinality(Hands(op)) \in Nat
<1>1. Hands(op) \in SUBSET Workers
  BY DEF Hands
<1>2. IsFiniteSet(Hands(op))
  BY <1>1, PipelineAssumption, FS_Subset
<1>3. QED
  BY <1>2, FS_CardinalityType

\* Only the worker that goes on takes a task in hand or gives one away.
LEMMA HandsChange ==
    ASSUME NEW w \in Workers, NEW op,
           \A v \in Workers \ {w} :
              workerPC'[v] = workerPC[v] /\ workerTask'[v] = workerTask[v]
    PROVE  Cardinality(Hands(op)') =
              IF Holding(w, op) /\ ~Holding(w, op)' THEN Cardinality(Hands(op)) - 1
              ELSE IF ~Holding(w, op) /\ Holding(w, op)'
              THEN Cardinality(Hands(op)) + 1
              ELSE Cardinality(Hands(op))
<1>1. Hands(op)' = IF Holding(w, op)' THEN Hands(op) \cup {w} ELSE Hands(op) \ {w}
  <2>1. \A v \in Workers \ {w} : Holding(v, op)' <=> Holding(v, op)
    BY DEF Holding
  <2>2. QED
    BY <2>1 DEF Hands
<1>2. w \in Hands(op) <=> Holding(w, op)
  BY DEF Hands
<1>3. IsFiniteSet(Hands(op)) /\ Cardinality(Hands(op)) \in Nat
  BY HandsAreFinite
<1>4. /\ Cardinality(Hands(op) \cup {w}) =
            IF w \in Hands(op) THEN Cardinality(Hands(op)) ELSE Cardinality(Hands(op)) + 1
      /\ Cardinality(Hands(op) \ {w}) =
            IF w \in Hands(op) THEN Cardinality(Hands(op)) - 1 ELSE Cardinality(Hands(op))
  BY <1>3, FS_AddElement, FS_RemoveElement
<1>5. QED
  BY <1>1, <1>2, <1>4

\* The account of one operation.
Account(op) ==
    CountOf(op, accepted) = Waiting(op, queue) + Cardinality(Hands(op))
                              + CountOf(op, forwarded) + dropped[op]

LEMMA AccountIsTheProperty ==
    EveryTaskIsAccountedFor <=> \A op \in Ops : Account(op)
BY DEF EveryTaskIsAccountedFor, Account, InQueue, InHand, Waiting, Hands, Holding

LEMMA AccountIsTheNextProperty ==
    (\A op \in Ops : Account(op)') => EveryTaskIsAccountedFor'
BY DEF EveryTaskIsAccountedFor, Account, InQueue, InHand, Waiting, Hands, Holding

\* A step that changes neither the histories nor the queue nor what is in hand.
LEMMA AccountFrame ==
    ASSUME NEW op \in Ops, Account(op),
           UNCHANGED <<accepted, queue, forwarded, dropped>>,
           \A w \in Workers : Holding(w, op)' <=> Holding(w, op)
    PROVE  Account(op)'
<1>1. Hands(op)' = Hands(op)
  BY DEF Hands
<1>2. QED
  BY <1>1 DEF Account

\* A task that a worker gives away is forwarded or counted as dropped.
LEMMA TaskLeaves ==
    ASSUME TypeInv, NEW op \in Ops, Account(op), NEW w \in Workers,
           workerPC[w] \in {"route", "load", "send"},
           workerPC'[w] \notin {"route", "load", "send"},
           \A v \in Workers \ {w} :
              workerPC'[v] = workerPC[v] /\ workerTask'[v] = workerTask[v],
           UNCHANGED <<accepted, queue>>,
           \/ /\ forwarded' = Append(forwarded, workerTask[w].op)
              /\ UNCHANGED dropped
           \/ /\ dropped' = [dropped EXCEPT ![workerTask[w].op] = @ + 1]
              /\ UNCHANGED forwarded
    PROVE  Account(op)'
<1>1. workerTask[w].op \in Ops
  BY DEF TypeInv, ControlOK, Tasks
<1>2. /\ CountOf(op, forwarded) \in Nat
      /\ CountOf(op, Append(forwarded, workerTask[w].op)) =
            IF workerTask[w].op = op THEN CountOf(op, forwarded) + 1
            ELSE CountOf(op, forwarded)
  BY <1>1, CountOfAppend DEF TypeInv, TypeOK
<1>3. Cardinality(Hands(op)) \in Nat
  BY HandsAreFinite
<1>4. Cardinality(Hands(op)') = IF workerTask[w].op = op THEN Cardinality(Hands(op)) - 1
                                ELSE Cardinality(Hands(op))
  BY HandsChange DEF Holding
<1>5. dropped \in [Ops -> Nat]
  BY DEF TypeInv, TypeOK
<1>6. dropped[op] \in Nat /\ Waiting(op, queue) \in Nat
  <2>1. queue \in Seq(Tasks)
    BY DEF TypeInv, TypeOK
  <2>2. QED
    BY <1>1, <1>5, <2>1, WaitingAppend DEF TypeInv, ControlOK
<1> DEFINE mine == workerTask[w].op = op
<1>7. \/ /\ CountOf(op, forwarded') = (IF mine THEN CountOf(op, forwarded) + 1
                                       ELSE CountOf(op, forwarded))
         /\ dropped'[op] = dropped[op]
      \/ /\ CountOf(op, forwarded') = CountOf(op, forwarded)
         /\ dropped'[op] = (IF mine THEN dropped[op] + 1 ELSE dropped[op])
  <2>1. CASE forwarded' = Append(forwarded, workerTask[w].op) /\ UNCHANGED dropped
    BY <1>2, <2>1
  <2>2. CASE /\ dropped' = [dropped EXCEPT ![workerTask[w].op] = @ + 1]
             /\ UNCHANGED forwarded
    BY <1>1, <1>5, <2>2
  <2>3. QED
    BY <2>1, <2>2
<1>8. /\ Waiting(op, queue') = Waiting(op, queue)
      /\ CountOf(op, accepted') = CountOf(op, accepted)
  OBVIOUS
<1> HIDE DEF mine
<1>9. Cardinality(Hands(op)') = IF mine THEN Cardinality(Hands(op)) - 1
                                ELSE Cardinality(Hands(op))
  BY <1>4 DEF mine
<1>10. CountOf(op, forwarded) \in Nat
  BY <1>2
<1>11. Account(op) <=> CountOf(op, accepted) = Waiting(op, queue)
                         + Cardinality(Hands(op)) + CountOf(op, forwarded) + dropped[op]
  BY DEF Account
<1>12. Account(op)' <=> CountOf(op, accepted') = Waiting(op, queue')
                         + Cardinality(Hands(op)') + CountOf(op, forwarded') + dropped'[op]
  BY DEF Account
<1>13. QED
  BY <1>3, <1>6, <1>7, <1>8, <1>9, <1>10, <1>11, <1>12

LEMMA AccountWorker ==
    ASSUME TypeInv, NEW op \in Ops, Account(op), NEW w \in Workers, WorkerStep(w)
    PROVE  Account(op)'
<1>1. /\ workerPC \in [Workers -> {"idle", "route", "load", "send", "notice",
                                   "answer", "dead", "ended"}]
      /\ workerTask \in [Workers -> Tasks \cup {NoTask}]
      /\ queue \in Seq(Tasks)
  BY DEF TypeInv, TypeOK
<1> USE DEF queueVars, outcomeVars, Goto, Finish, Drop
<1>2. CASE WorkerTake(w)
  <2>1. /\ queue # <<>> /\ queue' = Tail(queue) /\ workerPC[w] = "idle"
        /\ workerPC'[w] = "route" /\ workerTask'[w] = Head(queue)
        /\ \A v \in Workers \ {w} :
              workerPC'[v] = workerPC[v] /\ workerTask'[v] = workerTask[v]
        /\ UNCHANGED <<accepted, forwarded, dropped>>
    BY <1>1, <1>2 DEF WorkerTake
  <2>2. Waiting(op, queue) = IF Head(queue).op = op THEN Waiting(op, Tail(queue)) + 1
                             ELSE Waiting(op, Tail(queue))
    BY <1>1, <2>1, WaitingTail
  <2>3. Cardinality(Hands(op)') = IF Head(queue).op = op THEN Cardinality(Hands(op)) + 1
                                  ELSE Cardinality(Hands(op))
    BY <2>1, HandsChange DEF Holding
  <2>4. Cardinality(Hands(op)) \in Nat
    BY HandsAreFinite
  <2>5. Waiting(op, Tail(queue)) \in Nat
    <3>1. Tail(queue) \in Seq(Tasks) /\ Head(queue) \in Tasks
      BY <1>1, <2>1, HeadTailProperties
    <3>2. QED
      BY <3>1, WaitingAppend
  <2>6. CountOf(op, accepted') = CountOf(op, accepted)
        /\ CountOf(op, forwarded') = CountOf(op, forwarded)
        /\ dropped'[op] = dropped[op] /\ Waiting(op, queue') = Waiting(op, Tail(queue))
    BY <2>1
  <2>7. QED
    BY <2>2, <2>3, <2>4, <2>5, <2>6 DEF Account
<1>3. CASE WorkerEnds(w)
  <2>1. \A v \in Workers : Holding(v, op)' <=> Holding(v, op)
    BY <1>1, <1>3 DEF WorkerEnds, Holding
  <2>2. QED
    BY <1>3, <2>1, AccountFrame DEF WorkerEnds
<1>4. CASE WorkerRoute(w)
  <2>1. CASE Drop(w) /\ Goto(w, "notice")
    <3>1. workerPC'[w] = "notice" /\ \A v \in Workers \ {w} :
              workerPC'[v] = workerPC[v] /\ workerTask'[v] = workerTask[v]
      BY <1>1, <1>4, <2>1 DEF WorkerRoute
    <3>2. QED
      BY <1>4, <2>1, <3>1, TaskLeaves DEF WorkerRoute
  <2>2. CASE Goto(w, "load") /\ UNCHANGED dropped
    <3>1. \A v \in Workers : Holding(v, op)' <=> Holding(v, op)
      BY <1>1, <1>4, <2>2 DEF WorkerRoute, Holding
    <3>2. QED
      BY <1>4, <2>2, <3>1, AccountFrame DEF WorkerRoute
  <2>3. QED
    BY <1>4, <2>1, <2>2 DEF WorkerRoute
<1>5. Finish(w) => /\ workerPC'[w] = "idle"
                   /\ \A v \in Workers \ {w} :
                         workerPC'[v] = workerPC[v] /\ workerTask'[v] = workerTask[v]
  BY <1>1
<1>6. CASE UserCheckFails(w)
  BY <1>5, <1>6, TaskLeaves DEF UserCheckFails
<1>7. CASE WorkerLoad(w)
  <2>1. CASE Drop(w) /\ Finish(w)
    BY <1>5, <1>7, <2>1, TaskLeaves DEF WorkerLoad
  <2>2. CASE Goto(w, "send") /\ UNCHANGED <<dropped, workerTask>>
    <3>1. \A v \in Workers : Holding(v, op)' <=> Holding(v, op)
      BY <1>1, <1>7, <2>2 DEF WorkerLoad, Holding
    <3>2. QED
      BY <1>7, <2>2, <3>1, AccountFrame DEF WorkerLoad
  <2>3. QED
    BY <1>7, <2>1, <2>2 DEF WorkerLoad
<1>8. CASE WorkerSend(w)
  BY <1>5, <1>8, TaskLeaves DEF WorkerSend
<1>9. CASE WorkerSendTimesOut(w)
  BY <1>5, <1>9, TaskLeaves DEF WorkerSendTimesOut
<1>10. CASE WorkerNotice(w)
  <2>1. workerPC[w] \in {"notice", "answer"}
        /\ (Finish(w) \/ (Goto(w, "answer") /\ UNCHANGED workerTask))
    BY <1>10 DEF WorkerNotice
  <2>2. \A v \in Workers : Holding(v, op)' <=> Holding(v, op)
    BY <1>1, <2>1 DEF Holding
  <2>3. UNCHANGED <<accepted, queue, forwarded, dropped>>
    BY <1>10 DEF WorkerNotice
  <2>4. QED
    BY <2>2, <2>3, AccountFrame
<1>11. CASE WorkerAnswer(w)
  <2>1. workerPC[w] \in {"notice", "answer"} /\ Finish(w)
        /\ UNCHANGED <<accepted, queue, forwarded, dropped>>
    BY <1>11 DEF WorkerAnswer
  <2>2. \A v \in Workers : Holding(v, op)' <=> Holding(v, op)
    BY <1>1, <2>1 DEF Holding
  <2>3. QED
    BY <2>1, <2>2, AccountFrame
<1>12. CASE WorkerPanics(w)
  <2>1. workerPC'[w] = "dead" /\ \A v \in Workers \ {w} :
              workerPC'[v] = workerPC[v] /\ workerTask'[v] = workerTask[v]
    BY <1>1, <1>12 DEF WorkerPanics
  <2>2. CASE workerPC[w] = "send"
    BY <1>12, <2>1, <2>2, TaskLeaves DEF WorkerPanics
  <2>3. CASE workerPC[w] # "send"
    <3>1. workerPC[w] = "answer" /\ UNCHANGED dropped
      BY <1>12, <2>3 DEF WorkerPanics
    <3>2. \A v \in Workers : Holding(v, op)' <=> Holding(v, op)
      BY <2>1, <3>1 DEF Holding
    <3>3. QED
      BY <1>12, <3>1, <3>2, AccountFrame DEF WorkerPanics
  <2>4. QED
    BY <2>2, <2>3
<1>13. QED
  BY <1>2, <1>3, <1>4, <1>6, <1>7, <1>8, <1>9, <1>10, <1>11, <1>12 DEF WorkerStep

LEMMA AccountSubmit ==
    ASSUME TypeInv, NEW op \in Ops, Account(op), NEW c \in Conns, Submit(c)
    PROVE  Account(op)'
<1> DEFINE t == [op |-> pumpOp[c], conn |-> c]
<1>1. pumpOp[c] \in Ops /\ t \in Tasks /\ t.op = pumpOp[c]
  BY DEF TypeInv, ControlOK, Submit, Tasks
<1>2. /\ UNCHANGED <<forwarded, dropped, workerPC, workerTask>>
      /\ \/ queue' = Append(queue, t) /\ accepted' = Append(accepted, pumpOp[c])
         \/ UNCHANGED <<queue, accepted>>
  BY DEF Submit, outcomeVars, workerVars
<1> HIDE DEF t
<1>3. \A v \in Workers : Holding(v, op)' <=> Holding(v, op)
  BY <1>2 DEF Holding
<1>4. CASE UNCHANGED <<queue, accepted>>
  BY <1>2, <1>3, <1>4, AccountFrame
<1>5. CASE queue' = Append(queue, t) /\ accepted' = Append(accepted, pumpOp[c])
  <2>1. /\ CountOf(op, accepted) \in Nat
        /\ CountOf(op, Append(accepted, pumpOp[c])) =
              IF pumpOp[c] = op THEN CountOf(op, accepted) + 1 ELSE CountOf(op, accepted)
    BY <1>1, CountOfAppend DEF TypeInv, TypeOK
  <2>2. /\ Waiting(op, queue) \in Nat
        /\ Waiting(op, Append(queue, t)) =
              IF pumpOp[c] = op THEN Waiting(op, queue) + 1 ELSE Waiting(op, queue)
    BY <1>1, WaitingAppend DEF TypeInv, TypeOK
  <2>3. Hands(op)' = Hands(op) /\ Cardinality(Hands(op)) \in Nat
    BY <1>3, HandsAreFinite DEF Hands
  <2>4. CountOf(op, forwarded) \in Nat /\ dropped[op] \in Nat
    BY <1>1, CountOfAppend DEF TypeInv, TypeOK
  <2>5. /\ CountOf(op, accepted') = CountOf(op, Append(accepted, pumpOp[c]))
        /\ Waiting(op, queue') = Waiting(op, Append(queue, t))
        /\ CountOf(op, forwarded') = CountOf(op, forwarded) /\ dropped'[op] = dropped[op]
    BY <1>2, <1>5
  <2>6. QED
    BY <2>1, <2>2, <2>3, <2>4, <2>5 DEF Account
<1>6. QED
  BY <1>2, <1>4, <1>5

LEMMA AccountNext ==
    TypeInv /\ EveryTaskIsAccountedFor /\ [Next]_vars => EveryTaskIsAccountedFor'
<1> SUFFICES ASSUME TypeInv, EveryTaskIsAccountedFor, [Next]_vars
             PROVE  EveryTaskIsAccountedFor'
  OBVIOUS
<1> SUFFICES ASSUME NEW op \in Ops
             PROVE  Account(op)'
  BY AccountIsTheNextProperty
<1>1. Account(op)
  BY AccountIsTheProperty
<1>2. ASSUME UNCHANGED <<queue, accepted, outcomeVars, workerVars>>
      PROVE  Account(op)'
  BY <1>1, <1>2, AccountFrame DEF outcomeVars, workerVars, Holding
<1>3. ASSUME NEW c \in Conns, PumpStep(c)
      PROVE  Account(op)'
  BY <1>1, <1>2, <1>3, AccountSubmit
  DEF PumpStep, ReadFrame, SubmitPanics, StoreRecord, queueVars
<1>4. ASSUME NEW w \in Workers, WorkerStep(w)
      PROVE  Account(op)'
  BY <1>1, <1>4, AccountWorker
<1>5. CASE (\E o \in Ops : RecordExpires(o)) \/ CleanupRecords \/ CloseQueue
  BY <1>2, <1>5 DEF RecordExpires, CleanupRecords, CloseQueue, queueVars
<1>6. CASE (RegistryNext /\ UNCHANGED pipelineVars) \/ UNCHANGED vars
  BY <1>2, <1>6 DEF vars, pipelineVars, queueVars
<1>7. QED
  BY <1>3, <1>4, <1>5, <1>6 DEF Next

LEMMA AccountInit == Init => EveryTaskIsAccountedFor
<1> SUFFICES ASSUME Init, NEW op \in Ops
             PROVE  Account(op)
  BY AccountIsTheProperty
<1>1. /\ accepted = <<>> /\ forwarded = <<>> /\ queue = <<>> /\ dropped[op] = 0
      /\ \A w \in Workers : workerPC[w] = "idle"
  BY DEF Init
<1>2. Hands(op) = {}
  BY <1>1 DEF Hands, Holding
<1>3. DOMAIN accepted = {} /\ DOMAIN queue = {}
  BY <1>1
<1>4. {i \in DOMAIN accepted : accepted[i] = op} = {}
      /\ {i \in DOMAIN queue : queue[i].op = op} = {}
  BY <1>3
<1>5. CountOf(op, accepted) = 0 /\ Waiting(op, queue) = 0
  BY <1>4, FS_EmptySet DEF CountOf, Waiting
<1>6. CountOf(op, forwarded) = 0
  BY <1>1, <1>5
<1>7. QED
  BY <1>1, <1>2, <1>5, <1>6, FS_EmptySet DEF Account

\* No accepted frame is lost, and none is counted twice: it waits, is in one
\* worker's hands, was forwarded or was dropped, through panics of workers, full
\* channels, cancelled senders and the shutdown (processor.go, router.go).
THEOREM EveryTaskIsAccountedForHolds == Spec => []EveryTaskIsAccountedFor
<1>1. TypeInv /\ EveryTaskIsAccountedFor /\ [Next]_vars => EveryTaskIsAccountedFor'
  BY AccountNext
<1>2. QED
  BY <1>1, AccountInit, TypeInvHolds, PTL DEF Spec

----------------------------------------------------------------------------
(* Duplicates.                                                             *)

\* Users with one connection each, so that an operation comes from one pump.
OneConnectionEach == \A c, d \in Conns : Owner[c] = Owner[d] => c = d

\* Pumps that have submitted the operation and not stored it yet.
Storing(op) == \E c \in Conns : pumpPC[c] = "store" /\ pumpOp[c] = op

\* While a pump executes an operation there is no fresh record of it, and every
\* acceptance but the one that is remembered or about to be has lapsed.
LapseInv ==
    /\ \A c \in Conns :
          pumpPC[c] \in {"execute", "store"} => records[pumpOp[c]] # "fresh"
    /\ \A op \in Ops : Keyed(op) =>
          CountOf(op, accepted) <=
             IF records[op] = "fresh" \/ Storing(op) THEN lapses[op] + 1
                                                     ELSE lapses[op]

LEMMA LapseInvInit == Init => LapseInv
<1> SUFFICES ASSUME Init
             PROVE  LapseInv
  OBVIOUS
<1>1. \A c \in Conns : pumpPC[c] = "read"
  BY DEF Init
<1>2. ASSUME NEW op \in Ops
      PROVE  CountOf(op, accepted) = 0 /\ lapses[op] = 0 /\ records[op] = "none"
  <2>1. DOMAIN accepted = {} /\ lapses[op] = 0 /\ records[op] = "none"
    BY DEF Init
  <2>2. {i \in DOMAIN accepted : accepted[i] = op} = {}
    BY <2>1
  <2>3. QED
    BY <2>1, <2>2, FS_EmptySet DEF CountOf
<1>3. QED
  BY <1>1, <1>2 DEF LapseInv, Storing

\* What the bound of an operation may be read from.
Bound(op) == IF records[op] = "fresh" \/ Storing(op) THEN lapses[op] + 1
                                                     ELSE lapses[op]

LEMMA LapseInvPump ==
    ASSUME OneConnectionEach, TypeInv, LapseInv, NEW c \in Conns, PumpStep(c)
    PROVE  LapseInv'
<1>0. /\ pumpPC \in [Conns -> {"read", "execute", "submit", "store", "ended"}]
      /\ pumpOp \in [Conns -> Ops \cup {None}] /\ lapses \in [Ops -> Nat]
      /\ records \in [Ops -> {"none", "fresh", "expired"}] /\ accepted \in Seq(Ops)
  BY DEF TypeInv, TypeOK
<1>1. \A d \in Conns : pumpPC[d] \in {"execute", "submit", "store"} =>
          /\ pumpOp[d] \in Ops /\ From[pumpOp[d]] = Owner[d]
          /\ pumpPC[d] = "submit" <=> ~Keyed(pumpOp[d])
  BY DEF TypeInv, ControlOK
<1>2. \A d \in Conns :
         (/\ pumpPC[c] \in {"execute", "submit", "store"}
          /\ pumpPC[d] \in {"execute", "submit", "store"}
          /\ pumpOp[c] = pumpOp[d]) => c = d
  BY <1>1 DEF OneConnectionEach
<1> USE DEF trackerVars, queueVars
<1>3. ASSUME NEW o \in Ops, ReadFrame(c, o)
      PROVE  LapseInv'
  <2>1. CASE Keyed(o) /\ records[o] = "fresh"
    BY <1>3, <2>1 DEF ReadFrame, LapseInv, Storing
  <2>2. CASE ~(Keyed(o) /\ records[o] = "fresh")
    <3>1. /\ pumpPC' = [pumpPC EXCEPT ![c] = IF Keyed(o) THEN "execute" ELSE "submit"]
          /\ pumpOp' = [pumpOp EXCEPT ![c] = o]
          /\ records' = [records EXCEPT ![o] = "none"]
          /\ pumpPC[c] = "read" /\ UNCHANGED <<lapses, accepted>>
      BY <1>3, <2>2 DEF ReadFrame
    <3>2. \A op \in Ops : Storing(op)' <=> Storing(op)
      BY <1>0, <3>1 DEF Storing
    <3>3. \A d \in Conns :
             pumpPC'[d] \in {"execute", "store"} => records'[pumpOp'[d]] # "fresh"
      BY <1>0, <1>1, <3>1 DEF LapseInv
    <3>4. \A op \in Ops : Keyed(op) =>
             (records'[op] = "fresh" <=> records[op] = "fresh")
      BY <1>0, <2>2, <3>1
    <3>5. QED
      BY <3>1, <3>2, <3>3, <3>4 DEF LapseInv
  <2>3. QED
    BY <2>1, <2>2
<1>4. CASE Submit(c)
  <2>1. /\ pumpPC[c] \in {"execute", "submit"} /\ pumpOp[c] \in Ops
        /\ pumpPC' = [pumpPC EXCEPT ![c] = IF @ = "execute" THEN "store" ELSE "read"]
        /\ UNCHANGED <<pumpOp, records, lapses>>
        /\ accepted' = Append(accepted, pumpOp[c]) \/ accepted' = accepted
    BY <1>1, <1>4 DEF Submit
  <2>2. \A d \in Conns :
           pumpPC'[d] \in {"execute", "store"} => records'[pumpOp'[d]] # "fresh"
    BY <1>0, <2>1 DEF LapseInv
  <2>3. ASSUME NEW op \in Ops, Keyed(op)
        PROVE  CountOf(op, accepted') <= Bound(op)'
    <3>1. /\ CountOf(op, accepted) \in Nat /\ lapses[op] \in Nat
          /\ CountOf(op, Append(accepted, pumpOp[c])) =
                IF pumpOp[c] = op THEN CountOf(op, accepted) + 1
                ELSE CountOf(op, accepted)
      BY <1>0, <2>1, CountOfAppend
    <3>2. CountOf(op, accepted) <= Bound(op)
      BY <2>3 DEF LapseInv, Bound
    <3>3. CASE op = pumpOp[c]
      <4>1. pumpPC[c] = "execute" /\ records[op] # "fresh" /\ ~Storing(op)
        BY <1>1, <1>2, <2>1, <2>3, <3>3 DEF LapseInv, Storing
      <4>2. Storing(op)' /\ lapses'[op] = lapses[op]
        BY <1>0, <2>1, <3>3, <4>1 DEF Storing
      <4>3. Bound(op) = lapses[op] /\ Bound(op)' = lapses[op] + 1
        BY <4>1, <4>2 DEF Bound
      <4>4. CountOf(op, accepted') \in {CountOf(op, accepted), CountOf(op, accepted) + 1}
        BY <2>1, <3>1
      <4>5. QED
        BY <3>1, <3>2, <4>3, <4>4
    <3>4. CASE op # pumpOp[c]
      <4>1. Storing(op)' <=> Storing(op)
        BY <1>0, <2>1, <3>4 DEF Storing
      <4>2. CountOf(op, accepted') = CountOf(op, accepted)
        BY <2>1, <3>1, <3>4
      <4>3. Bound(op)' = Bound(op)
        BY <2>1, <4>1 DEF Bound
      <4>4. QED
        BY <3>2, <4>2, <4>3
    <3>5. QED
      BY <3>3, <3>4
  <2>4. QED
    BY <2>2, <2>3 DEF LapseInv, Bound
<1>5. CASE SubmitPanics(c)
  <2>1. \A op \in Ops : Storing(op)' <=> Storing(op)
    BY <1>0, <1>5 DEF SubmitPanics, Storing, pumpVars
  <2>2. QED
    BY <1>0, <1>5, <2>1 DEF SubmitPanics, LapseInv, pumpVars
<1>6. CASE StoreRecord(c)
  <2>1. /\ pumpPC[c] = "store" /\ pumpOp[c] \in Ops
        /\ records' = [records EXCEPT ![pumpOp[c]] = "fresh"]
        /\ pumpPC' = [pumpPC EXCEPT ![c] = "read"]
        /\ UNCHANGED <<pumpOp, lapses, accepted>>
    BY <1>1, <1>6 DEF StoreRecord
  <2>2. \A d \in Conns :
           pumpPC'[d] \in {"execute", "store"} => records'[pumpOp'[d]] # "fresh"
    BY <1>0, <1>1, <1>2, <2>1 DEF LapseInv
  <2>3. ASSUME NEW op \in Ops, Keyed(op)
        PROVE  CountOf(op, accepted') <= Bound(op)'
    <3>1. CountOf(op, accepted) <= Bound(op) /\ CountOf(op, accepted') = CountOf(op, accepted)
      BY <2>1, <2>3 DEF LapseInv, Bound
    <3>2. op = pumpOp[c] => Storing(op) /\ records'[op] = "fresh"
      BY <1>0, <2>1 DEF Storing
    <3>3. op # pumpOp[c] => (Storing(op)' <=> Storing(op)) /\ records'[op] = records[op]
      BY <1>0, <2>1 DEF Storing
    <3>4. Bound(op)' = Bound(op)
      BY <2>1, <3>2, <3>3 DEF Bound
    <3>5. QED
      BY <3>1, <3>4
  <2>4. QED
    BY <2>2, <2>3 DEF LapseInv, Bound
<1>7. QED
  BY <1>3, <1>4, <1>5, <1>6 DEF PumpStep

LEMMA LapseInvNext ==
    OneConnectionEach /\ TypeInv /\ LapseInv /\ [Next]_vars => LapseInv'
<1> SUFFICES ASSUME OneConnectionEach, TypeInv, LapseInv, [Next]_vars
             PROVE  LapseInv'
  OBVIOUS
<1>0. /\ pumpOp \in [Conns -> Ops \cup {None}] /\ lapses \in [Ops -> Nat]
      /\ records \in [Ops -> {"none", "fresh", "expired"}] /\ accepted \in Seq(Ops)
      /\ \A c \in Conns : pumpPC[c] \in {"execute", "store"} => pumpOp[c] \in Ops
  BY DEF TypeInv, TypeOK, ControlOK
<1>1. ASSUME NEW c \in Conns, PumpStep(c)
      PROVE  LapseInv'
  BY <1>1, LapseInvPump
<1>2. ASSUME UNCHANGED <<pumpPC, pumpOp, records, lapses, accepted>>
      PROVE  LapseInv'
  BY <1>2 DEF LapseInv, Storing
<1>3. ASSUME NEW w \in Workers, WorkerStep(w)
      PROVE  LapseInv'
  BY <1>2, <1>3
  DEF WorkerStep, WorkerTake, WorkerEnds, WorkerRoute, UserCheckFails, WorkerLoad,
      WorkerSend, WorkerSendTimesOut, WorkerNotice, WorkerAnswer, WorkerPanics,
      pumpVars, trackerVars, queueVars
<1>4. ASSUME NEW o \in Ops, RecordExpires(o)
      PROVE  LapseInv'
  <2>1. /\ records[o] = "fresh" /\ records' = [records EXCEPT ![o] = "expired"]
        /\ lapses' = [lapses EXCEPT ![o] = @ + 1]
        /\ UNCHANGED <<pumpPC, pumpOp, accepted>>
    BY <1>4 DEF RecordExpires, pumpVars, queueVars
  <2>2. \A c \in Conns :
           pumpPC'[c] \in {"execute", "store"} => records'[pumpOp'[c]] # "fresh"
    BY <1>0, <2>1 DEF LapseInv
  <2>3. ASSUME NEW op \in Ops, Keyed(op)
        PROVE  CountOf(op, accepted') <= Bound(op)'
    <3>1. CountOf(op, accepted) <= Bound(op) /\ CountOf(op, accepted') = CountOf(op, accepted)
      BY <2>1, <2>3 DEF LapseInv, Bound
    <3>2. (Storing(op)' <=> Storing(op)) /\ lapses[op] \in Nat
      BY <1>0, <2>1 DEF Storing
    <3>3. CountOf(op, accepted) \in Nat
      BY <1>0, CountOfAppend
    <3>4. CASE op = o
      <4>1. Bound(op) = lapses[op] + 1 /\ lapses'[op] = lapses[op] + 1
        BY <1>0, <2>1, <3>4 DEF Bound
      <4>2. Bound(op)' \in {lapses[op] + 1, lapses[op] + 2}
        BY <3>2, <4>1 DEF Bound
      <4>3. QED
        BY <3>1, <3>2, <3>3, <4>1, <4>2
    <3>5. CASE op # o
      <4>1. Bound(op)' = Bound(op)
        BY <1>0, <2>1, <3>2, <3>5 DEF Bound
      <4>2. QED
        BY <3>1, <4>1
    <3>6. QED
      BY <3>4, <3>5
  <2>4. QED
    BY <2>2, <2>3 DEF LapseInv, Bound
<1>5. CASE CleanupRecords
  <2>1. /\ \A op \in Ops : records'[op] = "fresh" <=> records[op] = "fresh"
        /\ UNCHANGED <<pumpPC, pumpOp, lapses, accepted>>
    BY <1>0, <1>5 DEF CleanupRecords, pumpVars, queueVars
  <2>2. \A op : Storing(op)' <=> Storing(op)
    BY <2>1 DEF Storing
  <2>3. QED
    BY <1>0, <2>1, <2>2 DEF LapseInv
<1>6. CASE CloseQueue
  BY <1>2, <1>6 DEF CloseQueue, pumpVars, trackerVars
<1>7. CASE (RegistryNext /\ UNCHANGED pipelineVars) \/ UNCHANGED vars
  BY <1>2, <1>7 DEF vars, pipelineVars, pumpVars, trackerVars, queueVars
<1>8. QED
  BY <1>1, <1>3, <1>4, <1>5, <1>6, <1>7 DEF Next

\* While every user has one connection, a copy of an operation is accepted again
\* only after its record has outlived the TTL.  The tracker looks up and stores
\* in two steps, so with an old and a new connection this fails, as a run shows
\* (idempotency.go, middleware/idempotency.go).
THEOREM DuplicatesNeedExpiryHolds ==
    ASSUME OneConnectionEach
    PROVE  Spec => []DuplicatesNeedExpiry
<1>1. LapseInv /\ TypeInv => DuplicatesNeedExpiry
  <2> SUFFICES ASSUME LapseInv, TypeInv, NEW op \in Ops, Keyed(op)
               PROVE  CountOf(op, accepted) <= 1 + lapses[op]
    BY DEF DuplicatesNeedExpiry
  <2>1. lapses[op] \in Nat /\ CountOf(op, accepted) \in Nat
    BY CountOfAppend DEF TypeInv, TypeOK
  <2>2. CountOf(op, accepted) <= lapses[op] + 1 \/ CountOf(op, accepted) <= lapses[op]
    BY DEF LapseInv
  <2>3. QED
    BY <2>1, <2>2
<1>2. TypeInv /\ LapseInv /\ [Next]_vars => LapseInv'
  BY LapseInvNext
<1>3. QED
  BY <1>1, <1>2, LapseInvInit, TypeInvHolds, PTL DEF Spec
=============================================================================
