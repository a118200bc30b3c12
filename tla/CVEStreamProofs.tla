--------------------------- MODULE CVEStreamProofs ---------------------------
(***************************************************************************)
(* The safety properties of CVEStream, for every directory, any number of  *)
(* workers and channels of any capacity, and that it implements            *)
(* StreamResult.                                                           *)
(***************************************************************************)
EXTENDS CVEStream, CVEIdentifiersProofs, SequenceTheorems, TLAPS

(***************************************************************************)
(* The elements of sequences.                                              *)
(***************************************************************************)

\* The elements of a sequence by their places.
LEMMA ToSetSeq ==
    ASSUME NEW S, NEW s \in Seq(S)
    PROVE  ToSet(s) = {s[i] : i \in 1..Len(s)} /\ ToSet(s) \subseteq S
BY DEF ToSet

\* What an element more does to a sequence.
LEMMA AppendElements ==
    ASSUME NEW S, NEW s \in Seq(S), NEW e \in S
    PROVE  /\ ToSet(Append(s, e)) = ToSet(s) \cup {e}
           /\ IsInjective(s) /\ e \notin ToSet(s) => IsInjective(Append(s, e))
<1> DEFINE t == Append(s, e)
<1>1. /\ Len(t) = Len(s) + 1 /\ DOMAIN t = 1..Len(t) /\ DOMAIN s = 1..Len(s)
      /\ t[Len(t)] = e /\ \A i \in 1..Len(s) : t[i] = s[i]
      /\ Len(s) \in Nat /\ t \in Seq(S)
  OBVIOUS
<1>2. ToSet(t) = ToSet(s) \cup {e}
  <2> HIDE DEF t
  <2>1. \A i \in 1..Len(t) : t[i] \in ToSet(s) \cup {e}
    BY <1>1 DEF ToSet
  <2>2. \A i \in 1..Len(s) : s[i] \in ToSet(t)
    BY <1>1 DEF ToSet
  <2>3. e \in ToSet(t)
    BY <1>1 DEF ToSet
  <2>4. QED
    BY <1>1, <2>1, <2>2, <2>3 DEF ToSet
<1>3. ASSUME IsInjective(s), e \notin ToSet(s)
      PROVE  IsInjective(t)
  <2> HIDE DEF t
  <2>1. \A i \in 1..Len(s) : s[i] # e
    BY <1>1, <1>3 DEF ToSet
  <2>2. QED
    BY <1>1, <1>3, <2>1 DEF IsInjective
<1>4. QED
  BY <1>2, <1>3

\* What is left of a sequence when its first element is taken.
LEMMA TailElements ==
    ASSUME NEW S, NEW s \in Seq(S), s # <<>>
    PROVE  /\ ToSet(s) = ToSet(Tail(s)) \cup {Head(s)}
           /\ IsInjective(s) => IsInjective(Tail(s)) /\ Head(s) \notin ToSet(Tail(s))
<1> DEFINE t == Tail(s)
<1>1. /\ Len(t) = Len(s) - 1 /\ DOMAIN t = 1..Len(t) /\ DOMAIN s = 1..Len(s)
      /\ Head(s) = s[1] /\ \A i \in 1..Len(t) : t[i] = s[i + 1]
      /\ Len(s) \in Nat \ {0} /\ t \in Seq(S)
  OBVIOUS
<1> HIDE DEF t
<1>2. \A i \in 1..Len(s) : i = 1 \/ (i - 1 \in 1..Len(t) /\ s[i] = t[i - 1])
  BY <1>1
<1>3. ToSet(s) = ToSet(t) \cup {Head(s)}
  <2>1. \A i \in 1..Len(s) : s[i] \in ToSet(t) \cup {Head(s)}
    BY <1>1, <1>2 DEF ToSet
  <2>2. \A i \in 1..Len(t) : t[i] \in ToSet(s)
    BY <1>1 DEF ToSet
  <2>3. Head(s) \in ToSet(s)
    BY <1>1 DEF ToSet
  <2>4. QED
    BY <1>1, <2>1, <2>2, <2>3 DEF ToSet
<1>4. ASSUME IsInjective(s)
      PROVE  IsInjective(t) /\ Head(s) \notin ToSet(t)
  <2>1. \A i, j \in 1..Len(s) : s[i] = s[j] => i = j
    BY <1>1, <1>4 DEF IsInjective
  <2>2. ASSUME NEW i \in 1..Len(t), NEW j \in 1..Len(t), t[i] = t[j]
        PROVE  i = j
    <3>1. i + 1 \in 1..Len(s) /\ j + 1 \in 1..Len(s) /\ s[i + 1] = s[j + 1]
      BY <1>1, <2>2
    <3>2. i + 1 = j + 1
      BY <2>1, <3>1
    <3>3. QED
      BY <3>2
  <2>3. ASSUME NEW i \in 1..Len(t), t[i] = Head(s)
        PROVE  FALSE
    <3>1. i + 1 \in 1..Len(s) /\ 1 \in 1..Len(s) /\ s[i + 1] = s[1]
      BY <1>1, <2>3
    <3>2. i + 1 = 1
      BY <2>1, <3>1
    <3>3. QED
      BY <3>2
  <2>4. QED
    BY <1>1, <2>2, <2>3 DEF IsInjective, ToSet
<1>5. QED
  BY <1>3, <1>4 DEF t

\* An element may move from the head of one sequence to the end of another before it.
LEMMA MoveHead ==
    ASSUME NEW S, NEW s \in Seq(S), NEW t \in Seq(S), t # <<>>
    PROVE  Append(s, Head(t)) \o Tail(t) = s \o t
<1> DEFINE u == Append(s, Head(t)) \o Tail(t)
<1>1. Head(t) \in S /\ Tail(t) \in Seq(S) /\ Len(Tail(t)) = Len(t) - 1
  OBVIOUS
<1>2. Append(s, Head(t)) \in Seq(S) /\ Len(Append(s, Head(t))) = Len(s) + 1
  BY <1>1
<1>3. u \in Seq(S) /\ s \o t \in Seq(S) /\ Len(u) = Len(s) + Len(t) /\ Len(s \o t) = Len(s) + Len(t)
  BY <1>1, <1>2
<1>4. ASSUME NEW i \in 1..Len(u)
      PROVE  u[i] = (s \o t)[i]
  BY <1>1, <1>2, <1>3, ConcatProperties
<1>5. QED
  BY <1>3, <1>4, SeqEqual

\* The elements of two sequences, one after the other.
LEMMA ConcatElements ==
    ASSUME NEW S, NEW s \in Seq(S), NEW t \in Seq(S)
    PROVE  /\ s \o t \in Seq(S)
           /\ ToSet(s \o t) = ToSet(s) \cup ToSet(t)
           /\ \A e \in S : s \o Append(t, e) = Append(s \o t, e)
<1>1. s \o t \in Seq(S)
  OBVIOUS
<1>2. Range(s \o t) = Range(s) \cup Range(t)
  BY RangeConcatenation
<1>3. ToSet(s \o t) = ToSet(s) \cup ToSet(t)
  BY <1>2 DEF Range, ToSet
<1>4. ASSUME NEW e \in S
      PROVE  s \o Append(t, e) = Append(s \o t, e)
  <2>1. Append(t, e) = t \o <<e>> /\ Append(s \o t, e) = (s \o t) \o <<e>>
    BY <1>1, AppendIsConcat
  <2>2. <<e>> \in Seq(S)
    OBVIOUS
  <2>3. QED
    BY <2>1, <2>2, ConcatAssociative
<1>5. QED
  BY <1>1, <1>3, <1>4

(***************************************************************************)
(* The inductive invariant.                                                *)
(***************************************************************************)

\* A worker in these places has a path in hand.
Holding == {"parse", "cancel", "report", "deliver"}

AfterWait == {"closeRecords", "closeErrors", "ended"}

\* What the walker has done says which channels are closed and who has finished, and
\* the consumer turns away from a channel only when it is closed and drained.
ControlInv ==
    /\ bad \subseteq CVEFiles
    /\ queueClosed <=> walker \in {"wait"} \cup AfterWait
    /\ chClosed <=> walker \in {"closeErrors", "ended"}
    /\ ecClosed <=> walker = "ended"
    /\ walker \in AfterWait => \A w \in Workers : worker[w] \in Finished
    /\ walker = "send" => pos <= Len(Walk) /\ Walk[pos] \in CVEFiles
    /\ queueClosed /\ walkErr = "none" => pos > Len(Walk)
    /\ walker \in {"visit", "send"} => walkErr = "none"
    /\ walker \in {"cancel", "report", "closeQueue"} => walkErr # "none"
    /\ ~resOpen => chClosed /\ ch = <<>>
    /\ ~errOpen => ecClosed /\ ec = <<>>
    /\ result = "ok" => ~resOpen /\ ~errOpen

\* The error of a walker or a worker that has reported it is in the channel, or another
\* one is, or the consumer has returned an error.
ErrorInv ==
    \/ walkErr # "none" /\ walker \notin {"cancel", "report"}
    \/ \E w \in Workers : worker[w] = "failed"
    => ec # <<>> \/ result \notin {"none", "ok"}

\* Where a path can be that the walker has sent and nobody has lost.
Delivered == received \o ch
Hands     == {path[w] : w \in {v \in Workers : worker[v] \in Holding}}
Ahead     == {Walk[i] : i \in pos..Len(Walk)}

\* A path is in one place only: it is ahead of the walker, in the queue, in one worker's
\* hands, or delivered; and only readable files are delivered.
OnceInv ==
    /\ \A w \in Workers : /\ worker[w] \in Holding => path[w] \in CVEFiles
                          /\ worker[w] = "deliver" => path[w] \notin bad
    /\ \A v, w \in Workers :
          v # w /\ {worker[v], worker[w]} \subseteq Holding => path[v] # path[w]
    /\ IsInjective(pathQueue) /\ IsInjective(Delivered)
    /\ ToSet(Delivered) \cap bad = {}
    /\ ToSet(pathQueue) \cap ToSet(Delivered) = {}
    /\ Hands \cap (ToSet(pathQueue) \cup ToSet(Delivered)) = {}
    /\ Ahead \cap (Hands \cup ToSet(pathQueue) \cup ToSet(Delivered)) = {}

\* Has the walker or a worker met an error?
Failed ==
    \/ walkErr # "none"
    \/ \E w \in Workers : worker[w] \in {"cancel", "report", "failed"}

\* No path is lost: the context is cancelled only when all workers have finished, they
\* stop only when the queue is closed and empty, and what the walker is not yet at is in
\* one of the places.
Complete ==
    /\ cancelled => walker \in AfterWait
    /\ \A w \in Workers : worker[w] = "stopped" => queueClosed /\ pathQueue = <<>>
    /\ CVEFiles \subseteq Ahead \cup ToSet(pathQueue) \cup Hands \cup ToSet(Delivered)

\* So it is unless something failed, or the run is interrupted.
CompleteInv == ~interrupted /\ ~Failed => Complete

IInv ==
    /\ TypeOK /\ ControlInv /\ ErrorInv /\ OnceInv /\ CompleteInv

(***************************************************************************)
(* Every step keeps the invariant, one lemma per part of it.               *)
(***************************************************************************)

\* Every step keeps the types.
LEMMA TypeStep ==
    ASSUME TypeOK, ControlInv, OnceInv, [Next]_vars
    PROVE  TypeOK'
<1> USE CVEStreamAssumption DEF TypeOK, walking, queue, working, records, errors,
    consuming, Finished, WalkFails, WorkerGoto, Return
<1>1. CASE Visit
  BY <1>1 DEF Visit
<1>2. CASE Send
  <2>1. walker = "send" /\ Walk[pos] \in CVEFiles /\ pos <= Len(Walk) /\ Len(Walk) \in Nat
    BY <1>2 DEF Send, ControlInv
  <2>2. Append(pathQueue, Walk[pos]) \in Seq(CVEFiles)
        /\ Len(Append(pathQueue, Walk[pos])) = Len(pathQueue) + 1
    BY <2>1, AppendProperties
  <2>3. pathQueue' \in Seq(CVEFiles) /\ Len(pathQueue') <= QueueSize
    <3>1. CASE Len(pathQueue) < QueueSize /\ pathQueue' = Append(pathQueue, Walk[pos])
      <4>1. Len(pathQueue) \in Nat /\ QueueSize \in Nat
        OBVIOUS
      <4>2. QED
        BY <2>2, <3>1, <4>1
    <3>2. CASE UNCHANGED pathQueue
      BY <3>2
    <3>3. QED
      BY <1>2, <3>1, <3>2 DEF Send
  <2>4. pos' \in 1..(Len(Walk) + 1) /\ walker' \in {"visit", "cancel"}
        /\ walkErr' \in {"none", "walk", "canceled"}
    BY <1>2, <2>1 DEF Send
  <2>5. QED
    BY <1>2, <2>3, <2>4 DEF Send
<1>3. CASE CancelWalk
  BY <1>3 DEF CancelWalk
<1>4. CASE ReportWalk
  <2>1. walkErr \in {"walk", "canceled"} /\ ec = <<>>
    BY <1>4 DEF ReportWalk, ControlInv
  <2>2. ec' \in Seq({"walk", "canceled", "parse"}) /\ Len(ec') <= 1
    BY <1>4, <2>1 DEF ReportWalk
  <2>3. QED
    BY <1>4, <2>2 DEF ReportWalk
<1>5. CASE CloseQueue
  BY <1>5 DEF CloseQueue
<1>6. CASE WaitForWorkers
  BY <1>6 DEF WaitForWorkers
<1>7. CASE CloseRecords
  BY <1>7 DEF CloseRecords
<1>8. CASE CloseErrors
  BY <1>8 DEF CloseErrors
<1>9. ASSUME NEW w \in Workers, Receive(w) PROVE TypeOK'
  <2>1. ASSUME pathQueue # <<>>, path' = [path EXCEPT ![w] = Head(pathQueue)],
               pathQueue' = Tail(pathQueue), worker' = [worker EXCEPT ![w] = "parse"]
        PROVE  TypeOK'
    <3>1. Head(pathQueue) \in CVEFiles /\ Tail(pathQueue) \in Seq(CVEFiles)
          /\ Len(Tail(pathQueue)) <= QueueSize
      BY <2>1, HeadTailProperties
    <3>2. path' \in [Workers -> CVEFiles \cup {NoPath}]
      BY <2>1, <3>1
    <3>3. QED
      BY <1>9, <2>1, <3>1, <3>2 DEF Receive
  <2>2. ASSUME worker' = [worker EXCEPT ![w] = "stopped"], UNCHANGED <<path, pathQueue>>
        PROVE  TypeOK'
    BY <1>9, <2>2 DEF Receive
  <2>3. QED
    BY <1>9, <2>1, <2>2 DEF Receive
<1>10. ASSUME NEW w \in Workers, Parse(w) PROVE TypeOK'
  BY <1>10 DEF Parse
<1>11. ASSUME NEW w \in Workers, CancelParse(w) PROVE TypeOK'
  BY <1>11 DEF CancelParse
<1>12. ASSUME NEW w \in Workers, ReportParse(w) PROVE TypeOK'
  BY <1>12 DEF ReportParse
<1>13. ASSUME NEW w \in Workers, Deliver(w) PROVE TypeOK'
  <2>1. ASSUME Len(ch) < BufferSize, ch' = Append(ch, path[w]),
               worker' = [worker EXCEPT ![w] = "receive"]
        PROVE  TypeOK'
    <3>1. path[w] \in CVEFiles
      BY <1>13 DEF Deliver, OnceInv, Holding
    <3>2. ch' \in Seq(CVEFiles) /\ Len(ch') <= BufferSize
      BY <2>1, <3>1, AppendProperties
    <3>3. QED
      BY <1>13, <2>1, <3>2 DEF Deliver
  <2>2. ASSUME worker' = [worker EXCEPT ![w] = "stopped"], UNCHANGED ch
        PROVE  TypeOK'
    BY <1>13, <2>2 DEF Deliver
  <2>3. QED
    BY <1>13, <2>1, <2>2 DEF Deliver
<1>14. CASE ReceiveRecord
  <2>1. Head(ch) \in CVEFiles /\ Tail(ch) \in Seq(CVEFiles) /\ Len(Tail(ch)) <= BufferSize
    BY <1>14, HeadTailProperties DEF ReceiveRecord
  <2>2. ch' \in Seq(CVEFiles) /\ Len(ch') <= BufferSize /\ received' \in Seq(CVEFiles)
    BY <1>14, <2>1, AppendProperties DEF ReceiveRecord
  <2>3. QED
    BY <1>14, <2>2 DEF ReceiveRecord
<1>15. CASE RecordsDrained
  BY <1>15 DEF RecordsDrained
<1>16. CASE ReceiveError
  BY <1>16 DEF ReceiveError
<1>17. CASE ErrorsDrained
  BY <1>17 DEF ErrorsDrained
<1>18. CASE SeeInterrupt
  BY <1>18 DEF SeeInterrupt
<1>19. CASE ReturnOK
  BY <1>19 DEF ReturnOK
<1>20. CASE Interrupt
  BY <1>20 DEF Interrupt
<1>21. CASE UNCHANGED vars
  BY <1>21 DEF vars
<1>22. QED
  BY <1>1, <1>2, <1>3, <1>4, <1>5, <1>6, <1>7, <1>8, <1>9, <1>10, <1>11, <1>12, <1>13,
     <1>14, <1>15, <1>16, <1>17, <1>18, <1>19, <1>20, <1>21 DEF Next, Walker, Worker, Consumer

\* Every step keeps what the walker's place says of the channels.
LEMMA ControlStep ==
    ASSUME TypeOK, ControlInv, [Next]_vars
    PROVE  ControlInv'
<1> USE CVEStreamAssumption DEF ControlInv, AfterWait, walking, queue, working, records,
    errors, consuming, Finished, WalkFails, WorkerGoto, Return
<1>1. UNCHANGED bad
  BY DEF Next, vars
<1>2. CASE Visit
  BY <1>2, <1>1 DEF Visit, TypeOK
<1>3. CASE Send
  BY <1>3, <1>1 DEF Send, TypeOK
<1>4. CASE CancelWalk
  BY <1>4, <1>1 DEF CancelWalk
<1>5. CASE ReportWalk
  BY <1>5, <1>1 DEF ReportWalk, TypeOK
<1>6. CASE CloseQueue
  BY <1>6, <1>1 DEF CloseQueue, TypeOK
<1>7. CASE WaitForWorkers
  BY <1>7, <1>1 DEF WaitForWorkers
<1>8. CASE CloseRecords
  BY <1>8, <1>1 DEF CloseRecords
<1>9. CASE CloseErrors
  BY <1>9, <1>1 DEF CloseErrors
<1>10. ASSUME NEW w \in Workers, Receive(w) PROVE ControlInv'
  BY <1>10, <1>1 DEF Receive, TypeOK
<1>11. ASSUME NEW w \in Workers, Parse(w) PROVE ControlInv'
  BY <1>11, <1>1 DEF Parse, TypeOK
<1>12. ASSUME NEW w \in Workers, CancelParse(w) PROVE ControlInv'
  BY <1>12, <1>1 DEF CancelParse, TypeOK
<1>13. ASSUME NEW w \in Workers, ReportParse(w) PROVE ControlInv'
  BY <1>13, <1>1 DEF ReportParse, TypeOK
<1>14. ASSUME NEW w \in Workers, Deliver(w) PROVE ControlInv'
  BY <1>14, <1>1 DEF Deliver, TypeOK
<1>15. CASE ReceiveRecord
  <2>1. resOpen' /\ UNCHANGED errOpen /\ result' # "ok"
    BY <1>15 DEF ReceiveRecord
  <2>2. UNCHANGED <<walking, queue, worker, path, chClosed, ec, ecClosed>>
    BY <1>15 DEF ReceiveRecord
  <2>3. QED
    BY <1>1, <2>1, <2>2
<1>16. CASE RecordsDrained
  BY <1>16, <1>1 DEF RecordsDrained
<1>17. CASE ReceiveError
  <2>1. Head(ec) \in {"walk", "canceled", "parse"}
    BY <1>17 DEF ReceiveError, TypeOK
  <2>2. UNCHANGED <<resOpen, errOpen, walking, queue, worker, path, ch, chClosed, ecClosed>>
        /\ errOpen /\ result' # "ok"
    BY <1>17, <2>1 DEF ReceiveError
  <2>3. QED
    BY <1>1, <2>2
<1>18. CASE ErrorsDrained
  BY <1>18, <1>1 DEF ErrorsDrained
<1>19. CASE SeeInterrupt
  BY <1>19, <1>1 DEF SeeInterrupt
<1>20. CASE ReturnOK
  BY <1>20, <1>1 DEF ReturnOK
<1>21. CASE Interrupt
  BY <1>21, <1>1 DEF Interrupt
<1>22. CASE UNCHANGED vars
  BY <1>22, <1>1 DEF vars
<1>23. QED
  BY <1>2, <1>3, <1>4, <1>5, <1>6, <1>7, <1>8, <1>9, <1>10, <1>11, <1>12, <1>13, <1>14,
     <1>15, <1>16, <1>17, <1>18, <1>19, <1>20, <1>21, <1>22 DEF Next, Walker, Worker, Consumer

\* Every step keeps the error of a failure, until the consumer returns one.
LEMMA ErrorStep ==
    ASSUME TypeOK, ControlInv, ErrorInv, [Next]_vars
    PROVE  ErrorInv'
<1> USE DEF ErrorInv, walking, queue, working, records, errors, consuming, Finished,
    WalkFails, WorkerGoto, Return
<1>1. CASE Visit
  BY <1>1 DEF Visit, TypeOK, ControlInv
<1>2. CASE Send
  BY <1>2 DEF Send, TypeOK, ControlInv
<1>3. CASE CancelWalk
  BY <1>3 DEF CancelWalk
<1>4. CASE ReportWalk
  BY <1>4 DEF ReportWalk, TypeOK, ControlInv
<1>5. CASE CloseQueue
  BY <1>5 DEF CloseQueue, TypeOK, ControlInv
<1>6. CASE WaitForWorkers
  BY <1>6 DEF WaitForWorkers
<1>7. CASE CloseRecords
  BY <1>7 DEF CloseRecords
<1>8. CASE CloseErrors
  BY <1>8 DEF CloseErrors
<1>9. ASSUME NEW w \in Workers, Receive(w) PROVE ErrorInv'
  BY <1>9 DEF Receive, TypeOK, ControlInv
<1>10. ASSUME NEW w \in Workers, Parse(w) PROVE ErrorInv'
  BY <1>10 DEF Parse, TypeOK, ControlInv
<1>11. ASSUME NEW w \in Workers, CancelParse(w) PROVE ErrorInv'
  BY <1>11 DEF CancelParse, TypeOK, ControlInv
<1>12. ASSUME NEW w \in Workers, ReportParse(w) PROVE ErrorInv'
  BY <1>12 DEF ReportParse, TypeOK, ControlInv
<1>13. ASSUME NEW w \in Workers, Deliver(w) PROVE ErrorInv'
  BY <1>13 DEF Deliver, TypeOK, ControlInv
<1>14. CASE ReceiveRecord
  BY <1>14 DEF ReceiveRecord, TypeOK, ControlInv
<1>15. CASE RecordsDrained
  BY <1>15 DEF RecordsDrained
<1>16. CASE ReceiveError
  BY <1>16 DEF ReceiveError, TypeOK, ControlInv
<1>17. CASE ErrorsDrained
  BY <1>17 DEF ErrorsDrained
<1>18. CASE SeeInterrupt
  BY <1>18 DEF SeeInterrupt
<1>19. CASE ReturnOK
  BY <1>19 DEF ReturnOK, TypeOK, ControlInv
<1>20. CASE Interrupt
  BY <1>20 DEF Interrupt
<1>21. CASE UNCHANGED vars
  BY <1>21 DEF vars
<1>22. QED
  BY <1>1, <1>2, <1>3, <1>4, <1>5, <1>6, <1>7, <1>8, <1>9, <1>10, <1>11, <1>12, <1>13,
     <1>14, <1>15, <1>16, <1>17, <1>18, <1>19, <1>20, <1>21 DEF Next, Walker, Worker, Consumer

\* What a worker's step without a new path does to the paths in hands.
LEMMA HandsOfStep ==
    ASSUME TypeOK, OnceInv, NEW w \in Workers, NEW next,
           worker' = [worker EXCEPT ![w] = next], UNCHANGED path
    PROVE  /\ worker[w] \in Holding /\ next \in Holding => Hands' = Hands
           /\ worker[w] \in Holding /\ next \notin Holding => Hands' = Hands \ {path[w]}
           /\ worker[w] \notin Holding /\ next \notin Holding => Hands' = Hands
           /\ \A v \in Workers : v # w => worker'[v] = worker[v]
           /\ worker'[w] = next
<1>1. /\ worker'[w] = next
      /\ \A v \in Workers : v # w => worker'[v] = worker[v]
  BY DEF TypeOK
<1>2. ASSUME worker[w] \in Holding <=> next \in Holding
      PROVE  Hands' = Hands
  <2>1. \A v \in Workers : worker'[v] \in Holding <=> worker[v] \in Holding
    BY <1>1, <1>2
  <2>2. QED
    BY <2>1 DEF Hands
<1>3. ASSUME worker[w] \in Holding, next \notin Holding
      PROVE  Hands' = Hands \ {path[w]}
  <2>1. \A v \in Workers : worker'[v] \in Holding <=> worker[v] \in Holding /\ v # w
    BY <1>1, <1>3
  <2>2. \A v \in Workers : v # w /\ worker[v] \in Holding => path[v] # path[w]
    BY <1>3 DEF OnceInv
  <2>3. QED
    BY <2>1, <2>2 DEF Hands
<1>4. QED
  BY <1>1, <1>2, <1>3

\* A worker that takes a path has one more in hand.
LEMMA HandsOfReceive ==
    ASSUME TypeOK, NEW w \in Workers, NEW p, worker[w] \notin Holding,
           worker' = [worker EXCEPT ![w] = "parse"], path' = [path EXCEPT ![w] = p]
    PROVE  /\ Hands' = Hands \cup {p}
           /\ \A v \in Workers : v # w => worker'[v] = worker[v] /\ path'[v] = path[v]
           /\ worker'[w] = "parse" /\ path'[w] = p
<1>1. /\ worker'[w] = "parse" /\ path'[w] = p
      /\ \A v \in Workers : v # w => worker'[v] = worker[v] /\ path'[v] = path[v]
  BY DEF TypeOK
<1>2. \A v \in Workers : worker'[v] \in Holding <=> worker[v] \in Holding \/ v = w
  BY <1>1 DEF Holding
<1>3. QED
  BY <1>1, <1>2 DEF Hands

\* What the walker passes is no longer ahead of it.
LEMMA AheadOfStep ==
    ASSUME TypeOK, pos <= Len(Walk), pos' = pos + 1
    PROVE  Ahead' = Ahead \ {Walk[pos]} /\ Walk[pos] \in Ahead
<1>1. /\ Len(Walk) \in Nat /\ DOMAIN Walk = 1..Len(Walk)
      /\ \A i, j \in 1..Len(Walk) : Walk[i] = Walk[j] => i = j
  BY CVEStreamAssumption DEF IsInjective
<1>2. pos \in 1..Len(Walk) /\ pos' = pos + 1
  BY <1>1 DEF TypeOK
<1>3. \A i \in pos..Len(Walk) : i \in 1..Len(Walk) /\ (i = pos \/ i \in pos'..Len(Walk))
  BY <1>1, <1>2
<1>4. \A i \in pos'..Len(Walk) : i \in pos..Len(Walk) /\ Walk[i] # Walk[pos]
  BY <1>1, <1>2
<1>5. pos \in pos..Len(Walk)
  BY <1>1, <1>2
<1>6. QED
  BY <1>3, <1>4, <1>5 DEF Ahead

\* Every step keeps a path in one place.
LEMMA OnceStep ==
    ASSUME TypeOK, ControlInv, OnceInv, [Next]_vars
    PROVE  OnceInv'
<1> USE DEF OnceInv, walking, queue, working, records, errors, consuming, Finished,
    WalkFails, WorkerGoto, Return
<1>1. UNCHANGED bad
  BY DEF Next, vars
<1>2. CASE Visit
  <2>1. Ahead' \subseteq Ahead
    <3>1. CASE UNCHANGED pos
      BY <3>1 DEF Ahead
    <3>2. CASE pos' = pos + 1
      BY <1>2, <3>2, AheadOfStep DEF Visit
    <3>3. QED
      BY <1>2, <3>1, <3>2 DEF Visit
  <2>2. UNCHANGED <<pathQueue, worker, path, Hands, Delivered>>
    BY <1>2 DEF Visit, Hands, Delivered
  <2>3. QED
    BY <1>1, <2>1, <2>2
<1>3. CASE Send
  <2>1. UNCHANGED <<worker, path, Hands, Delivered>>
    BY <1>3 DEF Send, Hands, Delivered
  <2>2. ASSUME pathQueue' = Append(pathQueue, Walk[pos]), pos' = pos + 1
        PROVE  OnceInv'
    <3>1. /\ pos <= Len(Walk) /\ Walk[pos] \in CVEFiles /\ pathQueue \in Seq(CVEFiles)
      BY <1>3 DEF Send, ControlInv, TypeOK
    <3>2. Ahead' = Ahead \ {Walk[pos]} /\ Walk[pos] \in Ahead
      BY <2>2, <3>1, AheadOfStep
    <3>3. /\ ToSet(pathQueue') = ToSet(pathQueue) \cup {Walk[pos]}
          /\ Walk[pos] \notin ToSet(pathQueue) => IsInjective(pathQueue')
      BY <2>2, <3>1, AppendElements
    <3>4. QED
      BY <1>1, <2>1, <3>2, <3>3
  <2>3. CASE UNCHANGED <<pos, pathQueue>>
    BY <1>1, <2>1, <2>3 DEF Ahead
  <2>4. QED
    BY <1>3, <2>2, <2>3 DEF Send
<1>4. CASE CancelWalk
  BY <1>4, <1>1 DEF CancelWalk, Hands, Ahead, Delivered
<1>5. CASE ReportWalk
  <2>1. UNCHANGED <<worker, path, pathQueue, Hands, Ahead, Delivered>>
    BY <1>5 DEF ReportWalk, Hands, Ahead, Delivered
  <2>2. QED
    BY <1>1, <2>1
<1>6. CASE CloseQueue
  BY <1>6, <1>1 DEF CloseQueue, Hands, Ahead, Delivered
<1>7. CASE WaitForWorkers
  BY <1>7, <1>1 DEF WaitForWorkers, Hands, Ahead, Delivered
<1>8. CASE CloseRecords
  BY <1>8, <1>1 DEF CloseRecords, Hands, Ahead, Delivered
<1>9. CASE CloseErrors
  BY <1>9, <1>1 DEF CloseErrors, Hands, Ahead, Delivered
<1>10. ASSUME NEW w \in Workers, Receive(w) PROVE OnceInv'
  <2>1. UNCHANGED <<Ahead, Delivered>>
    BY <1>10 DEF Receive, Ahead, Delivered
  <2>2. ASSUME pathQueue # <<>>, path' = [path EXCEPT ![w] = Head(pathQueue)],
               pathQueue' = Tail(pathQueue), worker' = [worker EXCEPT ![w] = "parse"]
        PROVE  OnceInv'
    <3>1. /\ ToSet(pathQueue) = ToSet(pathQueue') \cup {Head(pathQueue)}
          /\ IsInjective(pathQueue') /\ Head(pathQueue) \notin ToSet(pathQueue')
          /\ Head(pathQueue) \in CVEFiles
      BY <2>2, TailElements, HeadTailProperties DEF TypeOK
    <3>2. /\ Hands' = Hands \cup {Head(pathQueue)}
          /\ \A v \in Workers : v # w => worker'[v] = worker[v] /\ path'[v] = path[v]
          /\ worker'[w] = "parse" /\ path'[w] = Head(pathQueue)
      BY <1>10, <2>2, HandsOfReceive DEF Receive, Holding
    <3>3. \A v \in Workers : worker[v] \in Holding => path[v] \in Hands
      BY DEF Hands
    <3>4. \A v \in Workers : v # w /\ worker'[v] \in Holding => path'[v] # path'[w]
      BY <3>1, <3>2, <3>3
    <3>5. QED
      BY <1>1, <2>1, <3>1, <3>2, <3>4
  <2>3. ASSUME worker' = [worker EXCEPT ![w] = "stopped"], UNCHANGED <<path, pathQueue>>
        PROVE  OnceInv'
    <3>1. worker[w] \notin Holding /\ "stopped" \notin Holding
      BY <1>10 DEF Receive, Holding
    <3>2. /\ Hands' = Hands /\ worker'[w] = "stopped"
          /\ \A v \in Workers : v # w => worker'[v] = worker[v]
      BY <2>3, <3>1, HandsOfStep
    <3>3. QED
      BY <1>1, <2>1, <2>3, <3>1, <3>2 DEF Holding
  <2>4. QED
    BY <1>10, <2>2, <2>3 DEF Receive
<1>11. ASSUME NEW w \in Workers, Parse(w) PROVE OnceInv'
  <2>1. UNCHANGED <<Ahead, Delivered, path, pathQueue>>
    BY <1>11 DEF Parse, Ahead, Delivered
  <2>2. PICK next \in {"stopped", "cancel", "deliver"} :
           /\ worker' = [worker EXCEPT ![w] = next]
           /\ next = "deliver" => path[w] \notin bad
    BY <1>11 DEF Parse
  <2>3. worker[w] \in Holding
    BY <1>11 DEF Parse, Holding
  <2>4. /\ Hands' \subseteq Hands /\ worker'[w] = next
        /\ \A v \in Workers : v # w => worker'[v] = worker[v]
    BY <2>1, <2>2, <2>3, HandsOfStep DEF Holding
  <2>5. QED
    BY <1>1, <2>1, <2>2, <2>3, <2>4 DEF Holding
<1>12. ASSUME NEW w \in Workers, CancelParse(w) PROVE OnceInv'
  <2>1. UNCHANGED <<Ahead, Delivered, path, pathQueue>>
        /\ worker' = [worker EXCEPT ![w] = "report"] /\ worker[w] \in Holding
    BY <1>12 DEF CancelParse, Ahead, Delivered, Holding
  <2>2. /\ Hands' \subseteq Hands /\ worker'[w] = "report"
        /\ \A v \in Workers : v # w => worker'[v] = worker[v]
    BY <2>1, HandsOfStep DEF Holding
  <2>3. QED
    BY <1>1, <2>1, <2>2
<1>13. ASSUME NEW w \in Workers, ReportParse(w) PROVE OnceInv'
  <2>1. UNCHANGED <<Ahead, Delivered, path, pathQueue>>
        /\ worker' = [worker EXCEPT ![w] = "failed"] /\ worker[w] \in Holding
    BY <1>13 DEF ReportParse, Ahead, Delivered, Holding
  <2>2. /\ Hands' \subseteq Hands /\ worker'[w] = "failed"
        /\ \A v \in Workers : v # w => worker'[v] = worker[v]
    BY <2>1, HandsOfStep DEF Holding
  <2>3. QED
    BY <1>1, <2>1, <2>2
<1>14. ASSUME NEW w \in Workers, Deliver(w) PROVE OnceInv'
  <2>1. UNCHANGED <<Ahead, path, pathQueue, received>>
        /\ worker[w] \in Holding /\ worker[w] = "deliver"
    BY <1>14 DEF Deliver, Ahead, Holding
  <2>2. PICK next \in {"receive", "stopped"} :
           /\ worker' = [worker EXCEPT ![w] = next]
           /\ \/ ch' = Append(ch, path[w])
              \/ UNCHANGED ch
    BY <1>14 DEF Deliver
  <2>3. /\ Hands' = Hands \ {path[w]} /\ worker'[w] = next
        /\ \A v \in Workers : v # w => worker'[v] = worker[v]
    BY <2>1, <2>2, HandsOfStep DEF Holding
  <2>4. path[w] \in CVEFiles /\ path[w] \in Hands /\ path[w] \notin bad
    BY <2>1 DEF Hands
  <2>5. CASE UNCHANGED ch
    BY <1>1, <2>1, <2>2, <2>3, <2>5 DEF Delivered, Holding
  <2>6. CASE ch' = Append(ch, path[w])
    <3>1. Delivered' = Append(Delivered, path[w]) /\ Delivered \in Seq(CVEFiles)
      BY <2>1, <2>4, <2>6, ConcatElements DEF Delivered, TypeOK
    <3>2. /\ ToSet(Delivered') = ToSet(Delivered) \cup {path[w]}
          /\ IsInjective(Delivered')
      BY <2>4, <3>1, AppendElements
    <3>3. QED
      BY <1>1, <2>1, <2>2, <2>3, <2>4, <3>2 DEF Holding
  <2>7. QED
    BY <2>2, <2>5, <2>6
<1>15. CASE ReceiveRecord
  <2>1. UNCHANGED <<Ahead, Hands, pathQueue, worker, path>>
    BY <1>15 DEF ReceiveRecord, Ahead, Hands
  <2>2. UNCHANGED Delivered
    BY <1>15, MoveHead DEF ReceiveRecord, Delivered, TypeOK
  <2>3. QED
    BY <1>1, <2>1, <2>2
<1>16. CASE RecordsDrained
  BY <1>16, <1>1 DEF RecordsDrained, Hands, Ahead, Delivered
<1>17. CASE ReceiveError
  <2>1. UNCHANGED <<worker, path, pathQueue, Hands, Ahead, Delivered>>
    BY <1>17 DEF ReceiveError, Hands, Ahead, Delivered
  <2>2. QED
    BY <1>1, <2>1
<1>18. CASE ErrorsDrained
  BY <1>18, <1>1 DEF ErrorsDrained, Hands, Ahead, Delivered
<1>19. CASE SeeInterrupt
  BY <1>19, <1>1 DEF SeeInterrupt, Hands, Ahead, Delivered
<1>20. CASE ReturnOK
  BY <1>20, <1>1 DEF ReturnOK, Hands, Ahead, Delivered
<1>21. CASE Interrupt
  BY <1>21, <1>1 DEF Interrupt, Hands, Ahead, Delivered
<1>22. CASE UNCHANGED vars
  BY <1>1, <1>22 DEF vars, Hands, Ahead, Delivered
<1>23. QED
  BY <1>2, <1>3, <1>4, <1>5, <1>6, <1>7, <1>8, <1>9, <1>10, <1>11, <1>12, <1>13, <1>14,
     <1>15, <1>16, <1>17, <1>18, <1>19, <1>20, <1>21, <1>22 DEF Next, Walker, Worker, Consumer

\* What failed has failed for good, and an interrupted run stays interrupted.
LEMMA FailureStays ==
    ASSUME TypeOK, ControlInv, [Next]_vars, ~interrupted', ~Failed'
    PROVE  ~interrupted /\ ~Failed
<1> USE DEF Failed, walking, queue, working, records, errors, consuming, Finished,
    WalkFails, WorkerGoto, Return
<1>1. CASE Visit
  BY <1>1 DEF Visit, TypeOK, ControlInv
<1>2. CASE Send
  BY <1>2 DEF Send, TypeOK, ControlInv
<1>3. CASE CancelWalk
  BY <1>3 DEF CancelWalk
<1>4. CASE ReportWalk
  BY <1>4 DEF ReportWalk, TypeOK, ControlInv
<1>5. CASE CloseQueue
  BY <1>5 DEF CloseQueue
<1>6. CASE WaitForWorkers
  BY <1>6 DEF WaitForWorkers
<1>7. CASE CloseRecords
  BY <1>7 DEF CloseRecords
<1>8. CASE CloseErrors
  BY <1>8 DEF CloseErrors
<1>9. ASSUME NEW w \in Workers, Receive(w) PROVE ~interrupted /\ ~Failed
  BY <1>9 DEF Receive, TypeOK, ControlInv
<1>10. ASSUME NEW w \in Workers, Parse(w) PROVE ~interrupted /\ ~Failed
  BY <1>10 DEF Parse, TypeOK, ControlInv
<1>11. ASSUME NEW w \in Workers, CancelParse(w) PROVE ~interrupted /\ ~Failed
  BY <1>11 DEF CancelParse, TypeOK, ControlInv
<1>12. ASSUME NEW w \in Workers, ReportParse(w) PROVE ~interrupted /\ ~Failed
  BY <1>12 DEF ReportParse, TypeOK, ControlInv
<1>13. ASSUME NEW w \in Workers, Deliver(w) PROVE ~interrupted /\ ~Failed
  BY <1>13 DEF Deliver, TypeOK, ControlInv
<1>14. CASE ReceiveRecord
  BY <1>14 DEF ReceiveRecord
<1>15. CASE RecordsDrained
  BY <1>15 DEF RecordsDrained
<1>16. CASE ReceiveError
  BY <1>16 DEF ReceiveError
<1>17. CASE ErrorsDrained
  BY <1>17 DEF ErrorsDrained
<1>18. CASE SeeInterrupt
  BY <1>18 DEF SeeInterrupt
<1>19. CASE ReturnOK
  BY <1>19 DEF ReturnOK
<1>20. CASE Interrupt
  BY <1>20 DEF Interrupt
<1>21. CASE UNCHANGED vars
  BY <1>21 DEF vars
<1>22. QED
  BY <1>1, <1>2, <1>3, <1>4, <1>5, <1>6, <1>7, <1>8, <1>9, <1>10, <1>11, <1>12, <1>13,
     <1>14, <1>15, <1>16, <1>17, <1>18, <1>19, <1>20, <1>21 DEF Next, Walker, Worker, Consumer

\* Every step keeps every path in its place, if nothing failed before it.
LEMMA CompleteStep ==
    ASSUME TypeOK, ControlInv, OnceInv, Complete, [Next]_vars, ~interrupted, ~Failed, ~Failed'
    PROVE  Complete'
<1> USE DEF Complete, AfterWait, walking, queue, working, records, errors, consuming,
    Finished, WalkFails, WorkerGoto, Return
<1>1. /\ walker \in AfterWait => \A w \in Workers : worker[w] \in Finished
      /\ walker \in AfterWait <=> chClosed \/ walker = "closeRecords"
      /\ Done => walker \in AfterWait
  BY DEF ControlInv, Done
<1>2. CASE Visit
  <2>1. UNCHANGED <<pathQueue, worker, path, Hands, Delivered, queueClosed, cancelled>>
    BY <1>2 DEF Visit, Hands, Delivered
  <2>2. ~cancelled /\ walkErr' = "none"
    BY <1>2, <1>1 DEF Visit, Failed
  <2>3. CASE UNCHANGED pos
    BY <2>1, <2>2, <2>3 DEF Ahead
  <2>4. CASE pos' = pos + 1 /\ Walk[pos] \notin CVEFiles
    <3>1. Ahead' = Ahead \ {Walk[pos]}
      BY <1>2, <2>4, AheadOfStep DEF Visit
    <3>2. QED
      BY <2>1, <2>2, <2>4, <3>1
  <2>5. QED
    BY <1>2, <2>2, <2>3, <2>4 DEF Visit, Failed
<1>3. CASE Send
  <2>1. UNCHANGED <<worker, path, Hands, Delivered, queueClosed, cancelled>>
    BY <1>3 DEF Send, Hands, Delivered
  <2>2. ~cancelled /\ ~queueClosed
    BY <1>3, <1>1 DEF Send, ControlInv
  <2>3. pathQueue' = Append(pathQueue, Walk[pos]) /\ pos' = pos + 1
    BY <1>3 DEF Send, Failed
  <2>4. /\ pos <= Len(Walk) /\ Walk[pos] \in CVEFiles /\ pathQueue \in Seq(CVEFiles)
    BY <1>3 DEF Send, ControlInv, TypeOK
  <2>5. Ahead' = Ahead \ {Walk[pos]} /\ Walk[pos] \in Ahead
    BY <2>3, <2>4, AheadOfStep
  <2>6. ToSet(pathQueue') = ToSet(pathQueue) \cup {Walk[pos]}
    BY <2>3, <2>4, AppendElements
  <2>7. QED
    BY <2>1, <2>2, <2>5, <2>6
<1>4. CASE CancelWalk
  <2>1. FALSE
    BY <1>4 DEF CancelWalk, ControlInv, Failed
  <2>2. QED
    BY <2>1
<1>5. CASE ReportWalk
  <2>1. FALSE
    BY <1>5 DEF ReportWalk, ControlInv, Failed
  <2>2. QED
    BY <2>1
<1>6. CASE CloseQueue
  <2>1. UNCHANGED <<worker, pathQueue, Hands, Ahead, Delivered>>
    BY <1>6 DEF CloseQueue, Hands, Ahead, Delivered
  <2>2. QED
    BY <1>6, <1>1, <2>1 DEF CloseQueue
<1>7. CASE WaitForWorkers
  <2>1. UNCHANGED <<worker, pathQueue, Hands, Ahead, Delivered>>
    BY <1>7 DEF WaitForWorkers, Hands, Ahead, Delivered
  <2>2. QED
    BY <1>7, <1>1, <2>1 DEF WaitForWorkers
<1>8. CASE CloseRecords
  <2>1. UNCHANGED <<worker, pathQueue, Hands, Ahead, Delivered>>
    BY <1>8 DEF CloseRecords, Hands, Ahead, Delivered
  <2>2. QED
    BY <1>8, <1>1, <2>1 DEF CloseRecords
<1>9. CASE CloseErrors
  <2>1. UNCHANGED <<worker, pathQueue, Hands, Ahead, Delivered>>
    BY <1>9 DEF CloseErrors, Hands, Ahead, Delivered
  <2>2. QED
    BY <1>9, <1>1, <2>1 DEF CloseErrors
<1>10. ASSUME NEW w \in Workers, Receive(w) PROVE Complete'
  <2>1. UNCHANGED <<Ahead, Delivered, queueClosed, cancelled, walker>>
    BY <1>10 DEF Receive, Ahead, Delivered
  <2>2. ASSUME pathQueue # <<>>, path' = [path EXCEPT ![w] = Head(pathQueue)],
               pathQueue' = Tail(pathQueue), worker' = [worker EXCEPT ![w] = "parse"]
        PROVE  Complete'
    <3>1. ToSet(pathQueue) = ToSet(pathQueue') \cup {Head(pathQueue)}
      BY <2>2, TailElements DEF TypeOK
    <3>2. /\ Hands' = Hands \cup {Head(pathQueue)}
          /\ \A v \in Workers : v # w => worker'[v] = worker[v]
          /\ worker'[w] = "parse"
      BY <1>10, <2>2, HandsOfReceive DEF Receive, Holding
    <3>3. \A v \in Workers : worker'[v] # "stopped"
      BY <2>2, <3>2
    <3>4. QED
      BY <2>1, <3>1, <3>2, <3>3
  <2>3. ASSUME pathQueue = <<>>, queueClosed,
               worker' = [worker EXCEPT ![w] = "stopped"], UNCHANGED <<path, pathQueue>>
        PROVE  Complete'
    <3>1. worker[w] \notin Holding /\ "stopped" \notin Holding
      BY <1>10 DEF Receive, Holding
    <3>2. Hands' = Hands
      BY <2>3, <3>1, HandsOfStep
    <3>3. QED
      BY <2>1, <2>3, <3>2
  <2>4. QED
    BY <1>10, <2>2, <2>3 DEF Receive
<1>11. ASSUME NEW w \in Workers, Parse(w) PROVE Complete'
  <2>1. UNCHANGED <<Ahead, Delivered, path, pathQueue, queueClosed, cancelled, walker>>
    BY <1>11 DEF Parse, Ahead, Delivered
  <2>2. ~Done
    BY <1>11, <1>1 DEF Parse
  <2>3. worker'[w] # "cancel"
    BY DEF Failed
  <2>4. worker' = [worker EXCEPT ![w] = "deliver"]
    BY <1>11, <2>2, <2>3 DEF Parse, TypeOK
  <2>5. worker[w] \in Holding /\ "deliver" \in Holding
    BY <1>11 DEF Parse, Holding
  <2>6. /\ Hands' = Hands /\ worker'[w] = "deliver"
        /\ \A v \in Workers : v # w => worker'[v] = worker[v]
    BY <2>1, <2>4, <2>5, HandsOfStep
  <2>7. QED
    BY <2>1, <2>6
<1>12. ASSUME NEW w \in Workers, CancelParse(w) PROVE Complete'
  <2>1. FALSE
    BY <1>12 DEF CancelParse, Failed
  <2>2. QED
    BY <2>1
<1>13. ASSUME NEW w \in Workers, ReportParse(w) PROVE Complete'
  <2>1. FALSE
    BY <1>13 DEF ReportParse, Failed
  <2>2. QED
    BY <2>1
<1>14. ASSUME NEW w \in Workers, Deliver(w) PROVE Complete'
  <2>1. UNCHANGED <<Ahead, path, pathQueue, received, queueClosed, cancelled, walker>>
        /\ worker[w] \in Holding
    BY <1>14 DEF Deliver, Ahead, Holding
  <2>2. worker' = [worker EXCEPT ![w] = "receive"] /\ ch' = Append(ch, path[w])
    BY <1>14, <1>1 DEF Deliver
  <2>3. /\ Hands' = Hands \ {path[w]} /\ worker'[w] = "receive"
        /\ \A v \in Workers : v # w => worker'[v] = worker[v]
    BY <2>1, <2>2, HandsOfStep DEF Holding
  <2>4. path[w] \in CVEFiles
    BY <2>1 DEF OnceInv
  <2>5. Delivered' = Append(Delivered, path[w]) /\ Delivered \in Seq(CVEFiles)
    BY <2>1, <2>2, <2>4, ConcatElements DEF Delivered, TypeOK
  <2>6. ToSet(Delivered') = ToSet(Delivered) \cup {path[w]}
    BY <2>4, <2>5, AppendElements
  <2>7. QED
    BY <2>1, <2>3, <2>6
<1>15. CASE ReceiveRecord
  <2>1. UNCHANGED <<Ahead, Hands, pathQueue, worker, path, queueClosed, cancelled, walker>>
    BY <1>15 DEF ReceiveRecord, Ahead, Hands
  <2>2. UNCHANGED Delivered
    BY <1>15, MoveHead DEF ReceiveRecord, Delivered, TypeOK
  <2>3. QED
    BY <2>1, <2>2
<1>16. CASE RecordsDrained
  <2>1. UNCHANGED <<worker, pathQueue, Hands, Ahead, Delivered>>
    BY <1>16 DEF RecordsDrained, Hands, Ahead, Delivered
  <2>2. QED
    BY <1>16, <1>1, <2>1 DEF RecordsDrained
<1>17. CASE ReceiveError
  <2>1. UNCHANGED <<worker, pathQueue, Hands, Ahead, Delivered>>
    BY <1>17 DEF ReceiveError, Hands, Ahead, Delivered
  <2>2. QED
    BY <1>17, <1>1, <2>1 DEF ReceiveError
<1>18. CASE ErrorsDrained
  <2>1. UNCHANGED <<worker, pathQueue, Hands, Ahead, Delivered>>
    BY <1>18 DEF ErrorsDrained, Hands, Ahead, Delivered
  <2>2. QED
    BY <1>18, <1>1, <2>1 DEF ErrorsDrained
<1>19. CASE SeeInterrupt
  <2>1. UNCHANGED <<worker, pathQueue, Hands, Ahead, Delivered>>
    BY <1>19 DEF SeeInterrupt, Hands, Ahead, Delivered
  <2>2. QED
    BY <1>19, <1>1, <2>1 DEF SeeInterrupt
<1>20. CASE ReturnOK
  <2>1. UNCHANGED <<worker, pathQueue, Hands, Ahead, Delivered>>
    BY <1>20 DEF ReturnOK, Hands, Ahead, Delivered
  <2>2. QED
    BY <1>20, <1>1, <2>1 DEF ReturnOK
<1>21. CASE Interrupt
  <2>1. UNCHANGED <<worker, pathQueue, Hands, Ahead, Delivered>>
    BY <1>21 DEF Interrupt, Hands, Ahead, Delivered
  <2>2. QED
    BY <1>21, <1>1, <2>1 DEF Interrupt
<1>22. CASE UNCHANGED vars
  <2>1. UNCHANGED <<worker, pathQueue, Hands, Ahead, Delivered, queueClosed, cancelled, walker>>
    BY <1>22 DEF vars, Hands, Ahead, Delivered
  <2>2. QED
    BY <2>1
<1>23. QED
  BY <1>2, <1>3, <1>4, <1>5, <1>6, <1>7, <1>8, <1>9, <1>10, <1>11, <1>12, <1>13, <1>14,
     <1>15, <1>16, <1>17, <1>18, <1>19, <1>20, <1>21, <1>22 DEF Next, Walker, Worker, Consumer

(***************************************************************************)
(* The theorems.                                                           *)
(***************************************************************************)

\* The invariant holds of every state the stream can be in.
THEOREM Invariance == Spec => []IInv
<1>1. Init => IInv
  <2> SUFFICES ASSUME Init
               PROVE  IInv
    OBVIOUS
  <2> USE CVEStreamAssumption DEF Init
  <2>1. TypeOK
    <3>1. pos \in 1..(Len(Walk) + 1)
      BY LenProperties
    <3>2. /\ pathQueue \in Seq(CVEFiles) /\ Len(pathQueue) <= QueueSize
          /\ ch \in Seq(CVEFiles) /\ Len(ch) <= BufferSize
          /\ received \in Seq(CVEFiles)
          /\ ec \in Seq({"walk", "canceled", "parse"}) /\ Len(ec) <= 1
      <4> HIDE DEF Init
      <4>1. pathQueue = <<>> /\ ch = <<>> /\ received = <<>> /\ ec = <<>>
        BY DEF Init
      <4>2. QED
        BY <4>1
    <3>3. /\ worker \in [Workers -> {"receive", "parse", "cancel", "report", "deliver"}
                                     \cup Finished]
          /\ path \in [Workers -> CVEFiles \cup {NoPath}]
      OBVIOUS
    <3>4. /\ {queueClosed, chClosed, ecClosed, cancelled, interrupted, resOpen, errOpen}
               \subseteq BOOLEAN
          /\ walker = "visit" /\ walkErr = "none" /\ result = "none"
          /\ consumer \in Consumers
      OBVIOUS
    <3> HIDE DEF Init
    <3>5. QED
      BY <3>1, <3>2, <3>3, <3>4 DEF TypeOK
  <2>2. ControlInv /\ ErrorInv
    BY DEF ControlInv, ErrorInv, AfterWait
  <2>3. Hands = {} /\ Delivered = <<>> /\ ToSet(pathQueue) = {} /\ ToSet(Delivered) = {}
    <3>1. ToSet(<<>>) = {}
      BY DEF ToSet
    <3>2. Hands = {}
      BY DEF Hands, Holding
    <3>3. Delivered = <<>>
      BY DEF Delivered
    <3>4. QED
      BY <3>1, <3>2, <3>3
  <2>4. OnceInv
    <3>1. IsInjective(<<>>)
      BY DEF IsInjective
    <3>2. QED
      BY <2>3, <3>1 DEF OnceInv, Holding
  <2>5. CVEFiles \subseteq Ahead
    BY DEF Ahead, Paths, ToSet
  <2>6. CompleteInv
    BY <2>5 DEF CompleteInv, Complete
  <2>7. QED
    BY <2>1, <2>2, <2>4, <2>6 DEF IInv
<1>2. IInv /\ [Next]_vars => IInv'
  <2> SUFFICES ASSUME IInv, [Next]_vars
               PROVE  IInv'
    OBVIOUS
  <2> USE DEF IInv
  <2>1. TypeOK' /\ ControlInv' /\ ErrorInv' /\ OnceInv'
    BY TypeStep, ControlStep, ErrorStep, OnceStep
  <2>2. CompleteInv'
    BY FailureStays, CompleteStep DEF CompleteInv
  <2>3. QED
    BY <2>1, <2>2
<1>3. QED
  BY <1>1, <1>2, PTL DEF Spec

\* Every variable has its type: no channel holds more than its capacity, and the error
\* channel never more than the one error it has room for.
THEOREM TypeCorrect == Spec => []TypeOK
<1>1. IInv => TypeOK
  BY DEF IInv
<1>2. QED
  BY <1>1, Invariance, PTL

\* No goroutine sends on a channel that is closed.
THEOREM ClosedWhenDone == Spec => []NoSendOnClosedChannel
<1>1. IInv => NoSendOnClosedChannel
  BY DEF IInv, ControlInv, AfterWait, NoSendOnClosedChannel
<1>2. QED
  BY <1>1, Invariance, PTL

\* A parse error is not lost with the errors that do not fit into their channel.
THEOREM FailureIsReported == Spec => []FailureIsNotSilent
<1>1. IInv => FailureIsNotSilent
  BY DEF IInv, ControlInv, ErrorInv, FailureIsNotSilent
<1>2. QED
  BY <1>1, Invariance, PTL

(***************************************************************************)
(* Refinement: the stream delivers what StreamResult promises.             *)
(***************************************************************************)

\* When the consumer returns without an error, in a run nobody interrupted, it has taken
\* the record of every file.
LEMMA AllTaken ==
    ASSUME IInv, ~resOpen, ~errOpen, result = "none", ~interrupted
    PROVE  ToSet(received) = CVEFiles
<1> USE CVEStreamAssumption
<1>1. ec = <<>> /\ ch = <<>> /\ ecClosed /\ walker = "ended"
  BY DEF IInv, ControlInv
<1>2. /\ queueClosed /\ walkErr = "none" /\ pos > Len(Walk)
      /\ \A w \in Workers : worker[w] = "stopped"
  BY <1>1 DEF IInv, ControlInv, ErrorInv, AfterWait, Finished
<1>3. Complete
  BY <1>2 DEF IInv, CompleteInv, Failed
<1>4. pathQueue = <<>> /\ Hands = {}
  BY <1>2, <1>3 DEF Complete, Hands, Holding
<1>5. Ahead = {} /\ ToSet(pathQueue) = {} /\ Delivered = received
  <2>1. pos \in Nat /\ Len(Walk) \in Nat
    BY DEF IInv, TypeOK
  <2>2. Ahead = {}
    BY <1>2, <2>1 DEF Ahead
  <2>3. ToSet(pathQueue) = {}
    BY <1>4 DEF ToSet
  <2>4. Delivered = received
    BY <1>1 DEF Delivered, IInv, TypeOK
  <2>5. QED
    BY <2>2, <2>3, <2>4
<1>6. ToSet(received) \subseteq CVEFiles
  BY ToSetSeq DEF IInv, TypeOK
<1>7. QED
  BY <1>3, <1>4, <1>5, <1>6 DEF Complete

\* The stream implements StreamResult: it takes the record of a file once and of a bad
\* file never, returns without an error only when it has all records or was interrupted,
\* and takes nothing after it has returned.
THEOREM StreamImplementsResult == Spec => ImplementsStreamResult
<1>1. Init => Ideal!Init
  BY CVEStreamAssumption DEF Init, Ideal!Init
<1>2. ASSUME IInv, [Next]_vars
      PROVE  [Ideal!Next]_(Ideal!vars)
  <2> USE DEF Ideal!vars, walking, queue, working, records, errors, consuming, Return
  <2>1. UNCHANGED bad
    BY <1>2 DEF Next, vars
  <2>2. CASE Walker
    BY <2>1, <2>2 DEF Walker, Visit, Send, CancelWalk, ReportWalk, CloseQueue,
                      WaitForWorkers, CloseRecords, CloseErrors
  <2>3. ASSUME NEW w \in Workers, Worker(w)
        PROVE  UNCHANGED Ideal!vars
    BY <2>1, <2>3 DEF Worker, Receive, Parse, CancelParse, ReportParse, Deliver
  <2>4. CASE ReceiveRecord
    <3> DEFINE p == Head(ch)
    <3>1. p \in CVEFiles /\ ch \in Seq(CVEFiles) /\ received \in Seq(CVEFiles)
      BY <1>2, <2>4 DEF ReceiveRecord, IInv, TypeOK
    <3>2. /\ p \in ToSet(Delivered) /\ p \notin bad
          /\ p \notin ToSet(received)
      <4>1. ch # <<>>
        BY <2>4 DEF ReceiveRecord
      <4>2. Delivered = Append(received, p) \o Tail(ch)
        BY <3>1, <4>1, MoveHead DEF Delivered
      <4>3. /\ Append(received, p) \in Seq(CVEFiles) /\ Tail(ch) \in Seq(CVEFiles)
            /\ Len(Append(received, p)) = Len(received) + 1
            /\ Append(received, p)[Len(received) + 1] = p
            /\ \A i \in 1..Len(received) : Append(received, p)[i] = received[i]
            /\ Len(received) \in Nat
        BY <3>1, <4>1
      <4>4. /\ Len(Delivered) >= Len(received) + 1 /\ Delivered \in Seq(CVEFiles)
            /\ \A i \in 1..(Len(received) + 1) : Delivered[i] = Append(received, p)[i]
        BY <4>2, <4>3, ConcatProperties
      <4>5. \A i, j \in 1..Len(Delivered) : Delivered[i] = Delivered[j] => i = j
        BY <1>2, <4>4 DEF IInv, OnceInv, IsInjective
      <4>6. /\ Len(received) + 1 \in 1..Len(Delivered) /\ Delivered[Len(received) + 1] = p
            /\ \A i \in 1..Len(received) :
                  i \in 1..Len(Delivered) /\ Delivered[i] = received[i] /\ i # Len(received) + 1
        BY <4>3, <4>4
      <4>7. p \in ToSet(Delivered)
        BY <4>4, <4>6 DEF ToSet
      <4>8. \A i \in 1..Len(received) : received[i] # p
        BY <4>5, <4>6
      <4>9. QED
        BY <1>2, <3>1, <4>7, <4>8 DEF IInv, OnceInv, ToSet
    <3>3. Ideal!Take(p)
      BY <2>1, <2>4, <3>2 DEF ReceiveRecord, ToSet, Ideal!Take, Ideal!ToSet
    <3>4. QED
      BY <3>1, <3>3 DEF Ideal!Next
  <2>5. CASE RecordsDrained \/ ErrorsDrained
    BY <2>1, <2>5 DEF RecordsDrained, ErrorsDrained
  <2>6. CASE ReceiveError
    <3>1. Head(ec) \in {"walk", "canceled", "parse"}
      BY <1>2, <2>6 DEF ReceiveError, IInv, TypeOK
    <3>2. Ideal!ReturnError
      BY <2>1, <2>6, <3>1 DEF ReceiveError, Ideal!ReturnError
    <3>3. QED
      BY <3>2 DEF Ideal!Next
  <2>7. CASE SeeInterrupt
    BY <2>1, <2>7 DEF SeeInterrupt, Ideal!ReturnError, Ideal!Next
  <2>8. CASE ReturnOK
    <3>1. interrupted \/ ToSet(received) = CVEFiles
      BY <1>2, <2>8, AllTaken DEF ReturnOK
    <3>2. Ideal!ReturnAll
      BY <2>1, <2>8, <3>1 DEF ReturnOK, ToSet, Ideal!ReturnAll, Ideal!ToSet
    <3>3. QED
      BY <3>2 DEF Ideal!Next
  <2>9. CASE Interrupt
    BY <2>1, <2>9 DEF Interrupt, Ideal!Interrupt, Ideal!Next
  <2>10. CASE UNCHANGED vars
    BY <2>10 DEF vars
  <2>11. QED
    BY <1>2, <2>2, <2>3, <2>4, <2>5, <2>6, <2>7, <2>8, <2>9, <2>10 DEF Next, Consumer
<1>3. QED
  BY <1>1, <1>2, Invariance, PTL DEF Spec, ImplementsStreamResult, Ideal!Spec

(***************************************************************************)
(* The identifiers GetIDsForCVEs has when it returns.                      *)
(***************************************************************************)

\* The map after each of the first n records of a sequence.
AreIDs(f, s, n) ==
    f = [k \in 0..n |-> IF k = 0 THEN <<>> ELSE ProcessCVE(f[k - 1], Content[s[k]])]

\* There are such maps for every number of records.
LEMMA IDsExist ==
    ASSUME NEW s, NEW n \in Nat
    PROVE  \E f : AreIDs(f, s, n)
<1> DEFINE T == {k \in Nat : ~ \E f : AreIDs(f, s, k)}
<1>1. ASSUME T # {}
      PROVE  FALSE
  <2>1. PICK k \in T : \A j \in T : k <= j
    BY <1>1, LeastNumber
  <2>2. CASE k = 0
    <3>1. AreIDs([j \in 0..0 |-> <<>>], s, 0)
      BY DEF AreIDs
    <3>2. QED
      BY <2>2, <3>1
  <2>3. CASE k # 0
    <3>1. k \in Nat /\ k - 1 \in Nat /\ k - 1 \notin T
      BY <2>1, <2>3
    <3>2. PICK g : AreIDs(g, s, k - 1)
      BY <3>1
    <3> DEFINE f == [j \in 0..k |-> IF j = k THEN ProcessCVE(g[k - 1], Content[s[k]]) ELSE g[j]]
    <3>3. \A j \in 0..(k - 1) :
             g[j] = IF j = 0 THEN <<>> ELSE ProcessCVE(g[j - 1], Content[s[j]])
      BY <3>2 DEF AreIDs
    <3>4. /\ \A j \in 0..(k - 1) : j \in 0..k /\ j # k /\ f[j] = g[j]
          /\ k \in 0..k /\ f[k] = ProcessCVE(g[k - 1], Content[s[k]])
          /\ f = [j \in 0..k |-> f[j]]
      BY <3>1
    <3> HIDE DEF f
    <3>5. ASSUME NEW j \in 0..k
          PROVE  f[j] = IF j = 0 THEN <<>> ELSE ProcessCVE(f[j - 1], Content[s[j]])
      <4>1. CASE j = k
        <5>1. k - 1 \in 0..(k - 1)
          BY <3>1
        <5>2. f[k - 1] = g[k - 1]
          BY <3>4, <5>1
        <5>3. QED
          BY <2>3, <3>4, <4>1, <5>2
      <4>2. CASE j # k
        <5>1. j \in 0..(k - 1) /\ (j # 0 => j - 1 \in 0..(k - 1))
          BY <3>1, <4>2
        <5>2. f[j] = g[j] /\ (j # 0 => f[j - 1] = g[j - 1])
          BY <3>4, <5>1
        <5>3. QED
          BY <3>3, <5>1, <5>2
      <4>3. QED
        BY <4>1, <4>2
    <3>6. AreIDs(f, s, k)
      BY <3>4, <3>5 DEF AreIDs
    <3>7. QED
      BY <2>1, <3>6
  <2>4. QED
    BY <2>2, <2>3
<1>2. QED
  BY <1>1

\* What the map must say of a record.
Known(map, cve) ==
    /\ HoldsAll(Existing(map, cve.id), cve)
    /\ cve.id \in DOMAIN map <=> ~NamesNothing(cve)

\* After the records of different files the map knows each of them.
LEMMA RecordsKnown ==
    ASSUME NEW s \in Seq(CVEFiles), IsInjective(s), NEW f, AreIDs(f, s, Len(s))
    PROVE  \A i \in 1..Len(s) : Known(f[Len(s)], Content[s[i]])
<1> DEFINE L == Len(s)
           cve(i) == Content[s[i]]
           Right(k) == /\ \A i \in 1..k : Known(f[k], cve(i))
                       /\ \A i \in (k + 1)..L : cve(i).id \notin DOMAIN f[k]
           T == {k \in Nat : k <= L /\ ~Right(k)}
<1>1. L \in Nat /\ \A i \in 1..L : s[i] \in CVEFiles
  OBVIOUS
<1>2. f[0] = <<>> /\ \A k \in 1..L : f[k] = ProcessCVE(f[k - 1], cve(k))
  <2>1. \A k \in 0..L : f[k] = IF k = 0 THEN <<>> ELSE ProcessCVE(f[k - 1], cve(k))
    BY Zenon DEF AreIDs
  <2> HIDE DEF cve, L
  <2>2. 0 \in 0..L /\ \A k \in 1..L : k \in 0..L /\ k # 0
    BY <1>1
  <2>3. QED
    BY <2>1, <2>2
<1>3. \A i \in 1..L : cve(i) \in CVE
  BY <1>1, CVEStreamAssumption
<1>4. \A i, j \in 1..L : cve(i).id = cve(j).id => i = j
  <2>1. \A i, j \in 1..L : s[i] = s[j] => i = j
    BY DEF IsInjective
  <2>2. QED
    BY <1>1, <2>1, CVEStreamAssumption
<1> HIDE DEF L, cve
<1>5. Right(0)
  <2>1. DOMAIN f[0] = {}
    BY <1>2
  <2>2. QED
    BY <2>1
<1>6. ASSUME NEW k \in 1..L, Right(k - 1)
      PROVE  Right(k)
  <2> DEFINE old == f[k - 1]
             new == f[k]
  <2>1. new = ProcessCVE(old, cve(k)) /\ cve(k) \in CVE /\ k \in Nat
    BY <1>1, <1>2, <1>3
  <2>2. cve(k).id \notin DOMAIN old
    <3>1. k \in ((k - 1) + 1)..L
      BY <1>1
    <3>2. QED
      BY <1>6, <3>1
  <2>3. /\ Known(new, cve(k))
        /\ \A id : id # cve(k).id => /\ Existing(new, id) = Existing(old, id)
                                     /\ id \in DOMAIN new <=> id \in DOMAIN old
    BY <2>1, <2>2, RecordIsComplete DEF Known
  <2>4. \A i \in 1..(k - 1) : Known(old, cve(i))
    BY <1>6
  <2>5. \A i \in (k + 1)..L : cve(i).id \notin DOMAIN old
    <3>1. \A i \in (k + 1)..L : i \in ((k - 1) + 1)..L
      BY <1>1
    <3>2. QED
      BY <1>6, <3>1
  <2> HIDE DEF old, new
  <2>6. ASSUME NEW i \in 1..k
        PROVE  Known(new, cve(i))
    <3>1. CASE i = k
      BY <2>3, <3>1
    <3>2. CASE i # k
      <4>1. i \in 1..(k - 1) /\ i \in 1..L
        BY <1>1, <2>1, <3>2
      <4>2. cve(i).id # cve(k).id
        BY <1>4, <3>2, <4>1
      <4>3. Known(old, cve(i))
        BY <2>4, <4>1
      <4>4. QED
        BY <2>3, <4>2, <4>3 DEF Known
    <3>3. QED
      BY <3>1, <3>2
  <2>7. ASSUME NEW i \in (k + 1)..L
        PROVE  cve(i).id \notin DOMAIN new
    <3>1. i \in 1..L /\ i # k
      BY <1>1, <2>1
    <3>2. cve(i).id # cve(k).id
      BY <1>4, <3>1
    <3>3. QED
      BY <2>3, <2>5, <3>2
  <2>8. QED
    BY <2>6, <2>7 DEF new
<1> HIDE DEF Right
<1>7. T = {}
  <2>1. ASSUME T # {}
        PROVE  FALSE
    <3>1. PICK k \in T : \A j \in T : k <= j
      BY <2>1, LeastNumber
    <3>2. k # 0 /\ k \in 1..L /\ k - 1 \in Nat /\ k - 1 <= L /\ ~(k <= k - 1)
      BY <1>1, <1>5, <3>1
    <3>3. Right(k - 1)
      BY <3>1, <3>2
    <3>4. QED
      BY <1>6, <3>1, <3>2, <3>3
  <2>2. QED
    BY <2>1
<1>8. Right(L)
  BY <1>1, <1>7
<1>9. QED
  BY <1>8 DEF Right, L, cve

\* A consumer that has returned without an error, in a run nobody interrupted, has the
\* records of all files.
TakenInv == result = "ok" /\ ~interrupted => ToSet(received) = CVEFiles

\* Every step keeps that.
LEMMA TakenStep ==
    ASSUME IInv, TakenInv, [Next]_vars
    PROVE  TakenInv'
<1> USE DEF TakenInv, walking, queue, working, records, errors, consuming, Return
<1>1. CASE Walker
  BY <1>1 DEF Walker, Visit, Send, CancelWalk, ReportWalk, CloseQueue, WaitForWorkers,
              CloseRecords, CloseErrors
<1>2. ASSUME NEW w \in Workers, Worker(w)
      PROVE  TakenInv'
  BY <1>2 DEF Worker, Receive, Parse, CancelParse, ReportParse, Deliver
<1>3. CASE ReceiveRecord
  BY <1>3 DEF ReceiveRecord
<1>4. CASE RecordsDrained \/ ErrorsDrained
  BY <1>4 DEF RecordsDrained, ErrorsDrained
<1>5. CASE ReceiveError
  <2>1. Head(ec) \in {"walk", "canceled", "parse"}
    BY <1>5 DEF ReceiveError, IInv, TypeOK
  <2>2. QED
    BY <1>5, <2>1 DEF ReceiveError
<1>6. CASE SeeInterrupt
  BY <1>6 DEF SeeInterrupt
<1>7. CASE ReturnOK
  BY <1>7, AllTaken DEF ReturnOK
<1>8. CASE Interrupt
  BY <1>8 DEF Interrupt
<1>9. CASE UNCHANGED vars
  BY <1>9 DEF vars
<1>10. QED
  BY <1>1, <1>2, <1>3, <1>4, <1>5, <1>6, <1>7, <1>8, <1>9 DEF Next, Consumer

\* No record is taken twice.
LEMMA TakenOnce ==
    ASSUME IInv
    PROVE  received \in Seq(CVEFiles) /\ IsInjective(received)
<1>1. received \in Seq(CVEFiles) /\ ch \in Seq(CVEFiles)
  BY DEF IInv, TypeOK
<1>2. /\ Len(received) \in Nat /\ Len(Delivered) >= Len(received) /\ Delivered \in Seq(CVEFiles)
      /\ \A i \in 1..Len(received) : Delivered[i] = received[i]
  BY <1>1, ConcatProperties DEF Delivered
<1>3. \A i, j \in 1..Len(Delivered) : Delivered[i] = Delivered[j] => i = j
  BY <1>2 DEF IInv, OnceInv, IsInjective
<1>4. \A i \in 1..Len(received) : i \in 1..Len(Delivered)
  BY <1>2
<1>5. QED
  BY <1>1, <1>2, <1>3, <1>4 DEF IsInjective

\* When GetIDsForCVEs returns without an error it knows every identifier of every container
\* of every CVE, in whatever order the records came.
THEOREM IdentifiersAreComplete == Spec => []IdentifiersComplete
<1>1. Init => TakenInv
  BY DEF Init, TakenInv
<1>2. IInv /\ TakenInv /\ [Next]_vars => TakenInv'
  BY TakenStep
<1>3. ASSUME IInv, TakenInv
      PROVE  IdentifiersComplete
  <2> SUFFICES ASSUME result = "ok", ~interrupted, NEW p \in CVEFiles
               PROVE  Known(IDsForCVEs, Content[p])
    BY DEF IdentifiersComplete, Known
  <2>1. AreIDs(IDsAfter, received, Len(received))
    <3>1. Len(received) \in Nat
      BY <1>3 DEF IInv, TypeOK
    <3>2. \E f : AreIDs(f, received, Len(received))
      BY <3>1, IDsExist
    <3>3. IDsAfter = CHOOSE f : AreIDs(f, received, Len(received))
      BY Zenon DEF IDsAfter, AreIDs
    <3>4. QED
      BY <3>2, <3>3
  <2>2. received \in Seq(CVEFiles) /\ IsInjective(received)
    BY <1>3, TakenOnce
  <2>3. PICK i \in 1..Len(received) : received[i] = p
    <3>1. p \in ToSet(received)
      BY <1>3 DEF TakenInv
    <3>2. QED
      BY <2>2, <3>1, ToSetSeq
  <2>4. Known(IDsAfter[Len(received)], Content[received[i]])
    BY <2>1, <2>2, RecordsKnown
  <2>5. QED
    BY <2>3, <2>4 DEF IDsForCVEs
<1>4. QED
  BY <1>1, <1>2, <1>3, Invariance, PTL DEF Spec
=============================================================================
