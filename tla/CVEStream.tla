------------------------------ MODULE CVEStream ------------------------------
(***************************************************************************)
(* The stream of CVE records (internal/cvelistv5: ReceiveCVEs, parseWorker) *)
(* and the two loops that consume it: GetIDsForCVEs and processCVEs        *)
(* (cmd/glvd2/pipeline.go).                                                *)
(*                                                                         *)
(* A walker sends the paths of the CVE files to the workers, the workers   *)
(* parse them and send the records to the consumer; errors have a channel  *)
(* of their own.  One action is one channel operation, or one call of      *)
(* cancel().  A record is named by the path of its file.                   *)
(***************************************************************************)
EXTENDS CVEIdentifiers

CONSTANTS
    Walk,        \* what WalkDir visits, in its order
    CVEFiles,    \* those of them that are CVE-*.json files
    Content,     \* the content of each CVE file
    BadSets,     \* the sets of CVE files that cannot be read or parsed
    NoPath,
    Workers,
    QueueSize,   \* capacity of pathQueue (32)
    BufferSize,  \* capacity of ch (64)
    Consumers,   \* which consumers to look at
    Faults,      \* may a directory fail to be read, or a record fail to be processed?
    Interrupts   \* may a signal cancel the context of the run?

Paths == ToSet(Walk)

ASSUME CVEStreamAssumption ==
    /\ Walk \in Seq(Paths) /\ IsInjective(Walk)
    /\ CVEFiles \subseteq Paths /\ BadSets \subseteq SUBSET CVEFiles
    /\ Content \in [CVEFiles -> CVE]
    /\ \A p, q \in CVEFiles : Content[p].id = Content[q].id => p = q
    /\ NoPath \notin Paths /\ Workers # {}
    /\ QueueSize \in Nat \ {0} /\ BufferSize \in Nat \ {0}
    /\ Consumers \subseteq {"GetIDsForCVEs", "processCVEs"}
    /\ Faults \in BOOLEAN /\ Interrupts \in BOOLEAN

VARIABLES
    bad,          \* the CVE files that cannot be read or parsed
    walker,       \* program counter of the walking goroutine
    pos,          \* position in Walk
    walkErr,      \* the error WalkDir returned
    pathQueue, queueClosed,
    worker,       \* program counter of each worker
    path,         \* the path each worker has in hand
    ch, chClosed, \* the channel of records
    ec, ecClosed, \* the channel of errors, of capacity 1
    cancelled,    \* has somebody called cancel()?
    interrupted,  \* is the context of the run cancelled?
    consumer,     \* which loop consumes
    resOpen,      \* resCh # nil
    errOpen,      \* errCh # nil
    received,     \* the records the consumer has taken, in their order
    result        \* what the consumer returns: "none" until it does

walking   == <<walker, pos, walkErr>>
queue     == <<pathQueue, queueClosed>>
working   == <<worker, path>>
records   == <<ch, chClosed>>
errors    == <<ec, ecClosed>>
consuming == <<consumer, resOpen, errOpen, received, result>>
vars == <<bad, walking, queue, working, records, errors, cancelled, interrupted, consuming>>

\* The context of the stream is derived from that of the run.
Done == cancelled \/ interrupted

Finished == {"stopped", "failed"}

Init ==
    /\ bad \in BadSets
    /\ walker = "visit" /\ pos = 1 /\ walkErr = "none"
    /\ pathQueue = <<>> /\ queueClosed = FALSE
    /\ worker = [w \in Workers |-> "receive"] /\ path = [w \in Workers |-> NoPath]
    /\ ch = <<>> /\ chClosed = FALSE
    /\ ec = <<>> /\ ecClosed = FALSE
    /\ cancelled = FALSE /\ interrupted = FALSE
    /\ consumer \in Consumers
    /\ resOpen = TRUE /\ errOpen = TRUE
    /\ received = <<>>
    /\ result = "none"

-----------------------------------------------------------------------------
(* The walker.                                                             *)

WalkFails(why) == walker' = "cancel" /\ walkErr' = why /\ UNCHANGED pos

\* Mutant: every file is sent, not only CVE-*.json.
VisitEveryFile ==
    /\ walker = "visit" /\ pos <= Len(Walk)
    /\ \/ Done /\ WalkFails("canceled")
       \/ ~Done /\ walker' = "send" /\ UNCHANGED <<pos, walkErr>>
    /\ UNCHANGED <<queue, working, records, errors, cancelled, interrupted, consuming>>

Visit ==
    /\ walker = "visit" /\ pos <= Len(Walk)
    /\ \/ Faults /\ WalkFails("walk")
       \/ Done /\ WalkFails("canceled")
       \/ ~Done /\ Walk[pos] \in CVEFiles /\ walker' = "send" /\ UNCHANGED <<pos, walkErr>>
       \/ ~Done /\ Walk[pos] \notin CVEFiles /\ pos' = pos + 1 /\ UNCHANGED <<walker, walkErr>>
    /\ UNCHANGED <<queue, working, records, errors, cancelled, interrupted, consuming>>

\* Mutant: the path is sent without a look at the context.
SendOnly ==
    /\ walker = "send" /\ Len(pathQueue) < QueueSize
    /\ pathQueue' = Append(pathQueue, Walk[pos])
    /\ walker' = "visit" /\ pos' = pos + 1
    /\ UNCHANGED <<walkErr, queueClosed, working, records, errors, cancelled, interrupted,
                   consuming>>

Send ==
    /\ walker = "send"
    /\ \/ /\ Len(pathQueue) < QueueSize
          /\ pathQueue' = Append(pathQueue, Walk[pos])
          /\ walker' = "visit" /\ pos' = pos + 1
          /\ UNCHANGED walkErr
       \/ Done /\ WalkFails("canceled") /\ UNCHANGED pathQueue
    /\ UNCHANGED <<queueClosed, working, records, errors, cancelled, interrupted, consuming>>

CancelWalk ==
    /\ walker = "cancel"
    /\ cancelled' = TRUE /\ walker' = "report"
    /\ UNCHANGED <<pos, walkErr, queue, working, records, errors, interrupted, consuming>>

\* The walker waits until its error fits.
ReportWalk ==
    /\ walker = "report" /\ Len(ec) < 1
    /\ ec' = Append(ec, walkErr) /\ walker' = "closeQueue"
    /\ UNCHANGED <<pos, walkErr, queue, working, records, ecClosed, cancelled, interrupted,
                   consuming>>

CloseQueue ==
    /\ \/ walker = "closeQueue"
       \/ walker = "visit" /\ pos > Len(Walk)
    /\ queueClosed' = TRUE /\ walker' = "wait"
    /\ UNCHANGED <<pos, walkErr, pathQueue, working, records, errors, cancelled, interrupted,
                   consuming>>

\* Mutant: the channel is closed while workers are still sending.
CloseWithoutWait ==
    /\ walker = "wait"
    /\ cancelled' = TRUE /\ walker' = "closeRecords"
    /\ UNCHANGED <<pos, walkErr, queue, working, records, errors, interrupted, consuming>>

\* wg.Wait, then the deferred cancel.
WaitForWorkers ==
    /\ walker = "wait" /\ \A w \in Workers : worker[w] \in Finished
    /\ cancelled' = TRUE /\ walker' = "closeRecords"
    /\ UNCHANGED <<pos, walkErr, queue, working, records, errors, interrupted, consuming>>

CloseRecords ==
    /\ walker = "closeRecords"
    /\ chClosed' = TRUE /\ walker' = "closeErrors"
    /\ UNCHANGED <<pos, walkErr, queue, working, ch, errors, cancelled, interrupted, consuming>>

CloseErrors ==
    /\ walker = "closeErrors"
    /\ ecClosed' = TRUE /\ walker' = "ended"
    /\ UNCHANGED <<pos, walkErr, queue, working, records, ec, cancelled, interrupted, consuming>>

Walker ==
    \/ Visit \/ Send \/ CancelWalk \/ ReportWalk \/ CloseQueue
    \/ WaitForWorkers \/ CloseRecords \/ CloseErrors

-----------------------------------------------------------------------------
(* A worker.                                                               *)

WorkerGoto(w, next) == worker' = [worker EXCEPT ![w] = next]

Receive(w) ==
    /\ worker[w] = "receive"
    /\ \/ /\ pathQueue # <<>>
          /\ path' = [path EXCEPT ![w] = Head(pathQueue)]
          /\ pathQueue' = Tail(pathQueue)
          /\ WorkerGoto(w, "parse")
       \/ /\ pathQueue = <<>> /\ queueClosed
          /\ WorkerGoto(w, "stopped")
          /\ UNCHANGED <<path, pathQueue>>
    /\ UNCHANGED <<walking, queueClosed, records, errors, cancelled, interrupted, consuming>>

Parse(w) ==
    /\ worker[w] = "parse"
    /\ \/ Done /\ WorkerGoto(w, "stopped")
       \/ ~Done /\ path[w] \in bad /\ WorkerGoto(w, "cancel")
       \/ ~Done /\ path[w] \notin bad /\ WorkerGoto(w, "deliver")
    /\ UNCHANGED <<walking, queue, path, records, errors, cancelled, interrupted, consuming>>

CancelParse(w) ==
    /\ worker[w] = "cancel"
    /\ cancelled' = TRUE /\ WorkerGoto(w, "report")
    /\ UNCHANGED <<walking, queue, path, records, errors, interrupted, consuming>>

\* Mutant: the worker that fails cancels the others and says nothing.
ForgetError(w) ==
    /\ worker[w] = "report"
    /\ WorkerGoto(w, "failed")
    /\ UNCHANGED <<walking, queue, path, records, errors, cancelled, interrupted, consuming>>

\* The worker does not wait: an error that does not fit is dropped.
ReportParse(w) ==
    /\ worker[w] = "report"
    /\ ec' = IF Len(ec) < 1 THEN Append(ec, "parse") ELSE ec
    /\ WorkerGoto(w, "failed")
    /\ UNCHANGED <<walking, queue, path, records, ecClosed, cancelled, interrupted, consuming>>

Deliver(w) ==
    /\ worker[w] = "deliver"
    /\ \/ /\ Len(ch) < BufferSize
          /\ ch' = Append(ch, path[w]) /\ WorkerGoto(w, "receive")
       \/ Done /\ WorkerGoto(w, "stopped") /\ UNCHANGED ch
    /\ UNCHANGED <<walking, queue, path, chClosed, errors, cancelled, interrupted, consuming>>

Worker(w) == Receive(w) \/ Parse(w) \/ CancelParse(w) \/ ReportParse(w) \/ Deliver(w)

-----------------------------------------------------------------------------
(* The consumer: one turn of its select loop.  The map GetIDsForCVEs fills is *)
(* its own until it returns, and made of the records it took, in their order. *)

IDsAfter ==
    LET after[n \in 0..Len(received)] ==
            IF n = 0 THEN <<>> ELSE ProcessCVE(after[n - 1], Content[received[n]])
    IN after

IDsForCVEs == IDsAfter[Len(received)]

Return(r) == result' = r /\ UNCHANGED <<consumer, resOpen, errOpen>>

ReceiveRecord ==
    /\ result = "none" /\ resOpen /\ ch # <<>>
    /\ ch' = Tail(ch)
    /\ received' = Append(received, Head(ch))
    /\ \/ UNCHANGED <<consumer, resOpen, errOpen, result>>
       \/ consumer = "processCVEs" /\ Faults /\ Return("record")
    /\ UNCHANGED <<walking, queue, working, chClosed, errors, cancelled, interrupted>>

RecordsDrained ==
    /\ result = "none" /\ resOpen /\ ch = <<>> /\ chClosed
    /\ resOpen' = FALSE
    /\ UNCHANGED <<walking, queue, working, records, errors, cancelled, interrupted,
                   consumer, errOpen, received, result>>

ReceiveError ==
    /\ result = "none" /\ errOpen /\ ec # <<>>
    /\ ec' = Tail(ec)
    /\ Return(Head(ec))
    /\ UNCHANGED <<walking, queue, working, records, ecClosed, cancelled, interrupted, received>>

ErrorsDrained ==
    /\ result = "none" /\ errOpen /\ ec = <<>> /\ ecClosed
    /\ errOpen' = FALSE
    /\ UNCHANGED <<walking, queue, working, records, errors, cancelled, interrupted,
                   consumer, resOpen, received, result>>

\* Only processCVEs looks at the context itself.
SeeInterrupt ==
    /\ result = "none" /\ consumer = "processCVEs"
    /\ resOpen \/ errOpen
    /\ interrupted
    /\ Return("canceled")
    /\ UNCHANGED <<walking, queue, working, records, errors, cancelled, interrupted, received>>

\* Mutant: && where the loop has ||.
ReturnWhenOneIsDrained ==
    /\ result = "none"
    /\ ~resOpen \/ ~errOpen
    /\ Return("ok")
    /\ UNCHANGED <<walking, queue, working, records, errors, cancelled, interrupted, received>>

ReturnOK ==
    /\ result = "none" /\ ~resOpen /\ ~errOpen
    /\ Return("ok")
    /\ UNCHANGED <<walking, queue, working, records, errors, cancelled, interrupted, received>>

Consumer ==
    \/ ReceiveRecord \/ RecordsDrained \/ ReceiveError \/ ErrorsDrained
    \/ SeeInterrupt \/ ReturnOK

Interrupt ==
    /\ Interrupts /\ ~interrupted /\ result = "none"
    /\ interrupted' = TRUE
    /\ UNCHANGED <<walking, queue, working, records, errors, cancelled, consuming>>

-----------------------------------------------------------------------------
Next ==
    /\ Walker \/ (\E w \in Workers : Worker(w)) \/ Consumer \/ Interrupt
    /\ UNCHANGED bad

Spec == Init /\ [][Next]_vars

\* The runtime schedules every goroutine that can go on.
Fairness ==
    /\ WF_vars(Walker /\ UNCHANGED bad) /\ WF_vars(Consumer /\ UNCHANGED bad)
    /\ \A w \in Workers : WF_vars(Worker(w) /\ UNCHANGED bad)

FairSpec == Spec /\ Fairness
-----------------------------------------------------------------------------
(* Properties.                                                             *)

TypeOK ==
    /\ walker \in {"visit", "send", "cancel", "report", "closeQueue", "wait", "closeRecords",
                   "closeErrors", "ended"}
    /\ pos \in 1..(Len(Walk) + 1)
    /\ walkErr \in {"none", "walk", "canceled"}
    /\ pathQueue \in Seq(CVEFiles) /\ Len(pathQueue) <= QueueSize
    /\ worker \in [Workers -> {"receive", "parse", "cancel", "report", "deliver"} \cup Finished]
    /\ path \in [Workers -> CVEFiles \cup {NoPath}]
    /\ ch \in Seq(CVEFiles) /\ Len(ch) <= BufferSize
    /\ ec \in Seq({"walk", "canceled", "parse"}) /\ Len(ec) <= 1
    /\ {queueClosed, chClosed, ecClosed, cancelled, interrupted, resOpen, errOpen} \subseteq BOOLEAN
    /\ consumer \in Consumers
    /\ received \in Seq(CVEFiles)
    /\ result \in {"none", "ok", "walk", "canceled", "parse", "record"}

\* What the consumer sees, whatever the goroutines do.
Ideal == INSTANCE StreamResult WITH Records <- CVEFiles

\* A consumer gets no CVE twice and none of a file that cannot be read; what it returns
\* without an error, in a run nobody interrupted, is made of all of them; and it takes
\* nothing after it has returned (both loops run until both channels are drained).
ImplementsStreamResult == Ideal!Spec

\* And GetIDsForCVEs then knows every identifier of every container of every CVE, in
\* whatever order the records came, and has no entry for a CVE that names nothing.
IdentifiersComplete ==
    result = "ok" /\ ~interrupted /\ consumer = "GetIDsForCVEs" =>
        \A p \in CVEFiles :
            LET cve == Content[p]
            IN /\ HoldsAll(Existing(IDsForCVEs, cve.id), cve)
               /\ cve.id \in DOMAIN IDsForCVEs <=> ~NamesNothing(cve)

\* A file that a worker could not parse makes the consumer return an error, though the
\* error itself may have been dropped (parseWorker, "ignore additional errors").
FailureIsNotSilent == result = "ok" => \A w \in Workers : worker[w] # "failed"

\* No channel is closed while a goroutine may still send on it, which would panic: not
\* the records under a worker, nor the errors under a worker or the walker.
NoSendOnClosedChannel ==
    /\ queueClosed => walker \notin {"visit", "send", "cancel", "report"}
    /\ chClosed \/ ecClosed => \A w \in Workers : worker[w] \in Finished
    /\ ecClosed => walker = "ended"

\* The consumer returns: whatever fails or is cancelled, and however full the channels
\* are, it never waits for a walker and workers that wait for each other.
ConsumerReturns == <>(result # "none")

\* The error of a run nobody interrupted names what went wrong; context.Canceled, which
\* main reports as an interruption with exit code 130, is kept for interruptions.
CanceledMeansInterrupted == result = "canceled" => interrupted
=============================================================================
