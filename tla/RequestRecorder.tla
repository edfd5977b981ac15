-------------------------- MODULE RequestRecorder --------------------------
(***************************************************************************)
(* The request recorder of the gateway (internal/gateway/recorder.go) and  *)
(* the batch write it relies on (internal/store/logs.go, log_batch.go).    *)
(*                                                                         *)
(* Every proxied request ends with one call of Handler.record.  The record *)
(* is offered to a bounded queue that one goroutine, the runner, writes to *)
(* PostgreSQL in batches.  A record the queue refuses is written by its    *)
(* own handler, a few at a time (the fallback).  A write that fails is     *)
(* retried, a batch with a record the database refuses is bisected, and    *)
(* what cannot be written is counted as dropped.  Close stops the intake,  *)
(* lets the runner finish, and cancels its writes at a deadline.           *)
(*                                                                         *)
(* Sets stand for the queue and the batches: no property depends on the    *)
(* order of the records.  The stack "todo" is the recursion of flush.      *)
(*                                                                         *)
(* A definition that stands right before its like and that nothing uses    *)
(* (RemainingInQueue before Remaining) is a mutant: a slip the code might  *)
(* have made, and which a property must notice.  The README lists them.    *)
(***************************************************************************)
EXTENDS Naturals, FiniteSets, Sequences

CONSTANTS
  Requests,        (* the records, one per proxied request               *)
  Bad,             (* records PostgreSQL refuses with SQLSTATE 22 or 23  *)
  Attributed,      (* records whose API key and upstream still exist     *)
  Runner,          (* the goroutine of run()                             *)
  Closers,         (* callers of Close                                   *)
  QueueCap,        (* requestLogQueueSize                                *)
  BatchSize,       (* requestLogBatchSize                                *)
  FallbackSlots,   (* requestLogFallbackConcurrency                      *)
  FallbackWaiters, (* requestLogFallbackWaiters                          *)
  MaxTries         (* len(retryDelays) + 1                               *)

ASSUME RecorderAssumption ==
  /\ IsFiniteSet(Requests)
  /\ Bad \subseteq Requests
  /\ Attributed \subseteq Requests
  /\ Runner \notin Requests
  /\ QueueCap \in Nat /\ BatchSize \in Nat \ {0}
  /\ FallbackSlots \in Nat \ {0} /\ FallbackWaiters \in Nat \ {0}
  /\ MaxTries \in Nat \ {0}

Workers == Requests \cup {Runner}

VARIABLES
  pc,        (* where the handler of each request stands                 *)
  queue,     (* records in the channel                                   *)
  closed,    (* r.closed; close(r.queue) happens under the same lock     *)
  runner,    (* where run() stands                                       *)
  batch,     (* the runner's batch, until flush takes it                 *)
  flush,     (* per worker, the flush call in progress                   *)
  cancelled, (* r.ctx is done                                            *)
  closer,    (* where each caller of Close stands                        *)
  flushErr,  (* r.flushErr # nil                                         *)
  dropped,   (* r.dropped                                                *)
  rejected,  (* r.fallbackRejected                                       *)
  db,        (* rows of request_logs                                     *)
  usage,     (* how often a record was added to the usage tables         *)
  lost,      (* history: the records that dropped counts                 *)
  outages    (* history: failed attempts not due to the data, saturating
                at MaxTries                                              *)

storeVars == <<db, usage>>
lossVars == <<dropped, lost>>
vars == <<pc, queue, closed, runner, batch, flush, cancelled, closer,
          flushErr, dropped, rejected, db, usage, lost, outages>>

Segments(stack) ==
  [todo |-> stack, tries |-> 0, result |-> "none", failed |-> FALSE]

Idle == Segments(<<>>)

Flushing(S) == Segments(<<S>>)

PcStates == {"serving", "sending", "overflow", "waiting", "flushing",
             "queued", "fellback"}

RunnerStates == {"top", "select", "flushing", "final", "done"}

CloserStates == {"idle", "waiting", "expired", "nil", "error"}

FlushState == [todo: Seq(SUBSET Requests), tries: 0..(MaxTries - 1),
               result: {"none", "data", "other"}, failed: BOOLEAN]

At(state) == {r \in Requests : pc[r] = state}

TypeOK ==
  /\ pc \in [Requests -> PcStates]
  /\ Cardinality(At("waiting")) <= FallbackWaiters
  /\ Cardinality(At("flushing")) <= FallbackSlots
  /\ queue \in SUBSET Requests /\ Cardinality(queue) <= QueueCap
  /\ closed \in BOOLEAN
  /\ runner \in RunnerStates
  /\ batch \in SUBSET Requests /\ Cardinality(batch) < BatchSize
  /\ flush \in [Workers -> FlushState]
  /\ cancelled \in BOOLEAN
  /\ closer \in [Closers -> CloserStates]
  /\ flushErr \in BOOLEAN
  /\ dropped \in Nat
  /\ rejected \in Nat
  /\ db \in SUBSET Requests
  /\ usage \in [Requests -> Nat]
  /\ lost \in SUBSET Requests
  /\ outages \in 0..MaxTries

Init ==
  /\ pc = [r \in Requests |-> "serving"]
  /\ queue = {}
  /\ closed = FALSE
  /\ runner = "top"
  /\ batch = {}
  /\ flush = [w \in Workers |-> Idle]
  /\ cancelled = FALSE
  /\ closer = [c \in Closers |-> "idle"]
  /\ flushErr = FALSE
  /\ dropped = 0
  /\ rejected = 0
  /\ db = {}
  /\ usage = [r \in Requests |-> 0]
  /\ lost = {}
  /\ outages = 0

-----------------------------------------------------------------------------
(* Submit: the read lock is held from the test of closed to the send.      *)

SubmitLock(r) ==
  /\ pc[r] = "serving"
  /\ pc' = [pc EXCEPT ![r] = IF closed THEN "overflow" ELSE "sending"]
  /\ UNCHANGED <<queue, closed, runner, batch, flush, cancelled, closer,
                 flushErr, rejected, outages, storeVars, lossVars>>

SubmitSend(r) ==
  /\ pc[r] = "sending"
  /\ IF Cardinality(queue) < QueueCap
     THEN /\ queue' = queue \cup {r}
          /\ pc' = [pc EXCEPT ![r] = "queued"]
     ELSE /\ pc' = [pc EXCEPT ![r] = "overflow"]
          /\ UNCHANGED queue
  /\ UNCHANGED <<closed, runner, batch, flush, cancelled, closer,
                 flushErr, rejected, outages, storeVars, lossVars>>

-----------------------------------------------------------------------------
(* What becomes of a record that is not written.                           *)

Lose(S) == dropped' = dropped + Cardinality(S) /\ lost' = lost \cup S

(* rememberFlushError: an error stays until Close reports it.              *)
RememberError(failed) == flushErr' = (flushErr \/ failed)

-----------------------------------------------------------------------------
(* fallback: a place among the waiters, then one of the slots.             *)

SlotFree == Cardinality(At("flushing")) < FallbackSlots

RejectFallback(r) ==
  /\ pc' = [pc EXCEPT ![r] = "fellback"]
  /\ Lose({r})
  /\ rejected' = rejected + 1
  /\ RememberError(TRUE)
  /\ UNCHANGED <<queue, closed, runner, batch, flush, cancelled, closer,
                 outages, storeVars>>

FallbackEnter(r) ==
  /\ pc[r] = "overflow"
  /\ Cardinality(At("waiting")) < FallbackWaiters
  /\ pc' = [pc EXCEPT ![r] = "waiting"]
  /\ UNCHANGED <<queue, closed, runner, batch, flush, cancelled, closer,
                 flushErr, rejected, outages, storeVars, lossVars>>

FallbackFull(r) ==
  /\ pc[r] = "overflow"
  /\ Cardinality(At("waiting")) >= FallbackWaiters
  /\ RejectFallback(r)

FallbackAcquire(r) ==
  /\ pc[r] = "waiting"
  /\ SlotFree
  /\ pc' = [pc EXCEPT ![r] = "flushing"]
  /\ flush' = [flush EXCEPT ![r] = Flushing({r})]
  /\ UNCHANGED <<queue, closed, runner, batch, cancelled, closer,
                 flushErr, rejected, outages, storeVars, lossVars>>

(* The 100 ms timer, or r.ctx.Done: select takes either when it is ready.  *)
FallbackGiveUp(r) ==
  /\ pc[r] = "waiting"
  /\ RejectFallback(r)

FallbackReturn(r) ==
  /\ pc[r] = "flushing"
  /\ flush[r].todo = <<>>
  /\ pc' = [pc EXCEPT ![r] = "fellback"]
  /\ RememberError(flush[r].failed)
  /\ flush' = [flush EXCEPT ![r] = Idle]
  /\ UNCHANGED <<queue, closed, runner, batch, cancelled, closer,
                 rejected, outages, storeVars, lossVars>>

-----------------------------------------------------------------------------
(* flush: the write of the segment on top of the stack, then what the code *)
(* makes of an error.  flush[w].result holds the error between the two.    *)

Inserted(S) == S \ db

(* RecordRequests: one transaction.  ON CONFLICT(request_id) DO NOTHING    *)
(* RETURNING gives the rows inserted now; only these are aggregated.       *)
RecordRequests(S) ==
  /\ db' = db \cup S
  /\ usage' = [r \in Requests |->
                 IF r \in Inserted(S) \cap Attributed THEN usage[r] + 1
                                                   ELSE usage[r]]

PopSegment(w) == flush' = [flush EXCEPT ![w].todo = Tail(@),
                                        ![w].tries = 0,
                                        ![w].result = "none"]

WriteOK(w) ==
  LET S == Head(flush[w].todo) IN
  /\ flush[w].todo # <<>> /\ flush[w].result = "none"
  /\ ~cancelled
  /\ S \cap Bad = {}
  /\ RecordRequests(S)
  /\ PopSegment(w)
  /\ UNCHANGED <<pc, queue, closed, runner, batch, cancelled, closer,
                 flushErr, rejected, outages, lossVars>>

(* One refused row aborts the transaction.                                 *)
WriteDataError(w) ==
  LET S == Head(flush[w].todo) IN
  /\ flush[w].todo # <<>> /\ flush[w].result = "none"
  /\ ~cancelled
  /\ S \cap Bad # {}
  /\ flush' = [flush EXCEPT ![w].result = "data"]
  /\ UNCHANGED <<pc, queue, closed, runner, batch, cancelled, closer,
                 flushErr, rejected, outages, storeVars, lossVars>>

(* A timeout, a lost connection or a cancelled context, before the commit  *)
(* or after it, when only the acknowledgement is lost.                     *)
WriteOtherError(w) ==
  LET S == Head(flush[w].todo) IN
  /\ flush[w].todo # <<>> /\ flush[w].result = "none"
  /\ \/ UNCHANGED storeVars
     \/ S \cap Bad = {} /\ RecordRequests(S)
  /\ flush' = [flush EXCEPT ![w].result = "other"]
  /\ outages' = IF outages < MaxTries THEN outages + 1 ELSE outages
  /\ UNCHANGED <<pc, queue, closed, runner, batch, cancelled, closer,
                 flushErr, rejected, lossVars>>

SplitFromThree(S) == Cardinality(S) > 2
CanSplit(S) == Cardinality(S) > 1

Bisect(w) ==
  LET S == Head(flush[w].todo) IN
  /\ flush[w].result = "data" /\ ~cancelled
  /\ CanSplit(S)
  /\ \E left \in SUBSET S :
       /\ Cardinality(left) = Cardinality(S) \div 2
       /\ flush' = [flush EXCEPT
                      ![w].todo = <<left, S \ left>> \o Tail(@),
                      ![w].tries = 0,
                      ![w].result = "none"]
  /\ UNCHANGED <<pc, queue, closed, runner, batch, cancelled, closer,
                 flushErr, rejected, outages, storeVars, lossVars>>

NextTry(tries) == tries + 1

Retry(w) ==
  /\ flush[w].result = "other" /\ ~cancelled
  /\ NextTry(flush[w].tries) < MaxTries
  /\ flush' = [flush EXCEPT ![w].tries = NextTry(@), ![w].result = "none"]
  /\ UNCHANGED <<pc, queue, closed, runner, batch, cancelled, closer,
                 flushErr, rejected, outages, storeVars, lossVars>>

DropSegment(w) ==
  LET S == Head(flush[w].todo) IN
  /\ \/ flush[w].result = "data" /\ ~CanSplit(S)
     \/ flush[w].result = "other" /\ NextTry(flush[w].tries) >= MaxTries
     \/ flush[w].result # "none" /\ cancelled
  /\ Lose(S)
  /\ flush' = [flush EXCEPT ![w].todo = Tail(@),
                            ![w].tries = 0,
                            ![w].result = "none",
                            ![w].failed = TRUE]
  /\ UNCHANGED <<pc, queue, closed, runner, batch, cancelled, closer,
                 flushErr, rejected, outages, storeVars>>

FlushStep(w) ==
  \/ WriteOK(w) \/ WriteDataError(w) \/ WriteOtherError(w)
  \/ Bisect(w) \/ Retry(w) \/ DropSegment(w)

-----------------------------------------------------------------------------
(* run: the loop of the background goroutine.                              *)

RunTop ==
  /\ runner = "top" /\ ~cancelled
  /\ runner' = "select"
  /\ UNCHANGED <<pc, queue, closed, batch, flush, cancelled, closer,
                 flushErr, rejected, outages, storeVars, lossVars>>

StartFlush(S, next) ==
  /\ flush' = [flush EXCEPT ![Runner] = Flushing(S)]
  /\ batch' = {}
  /\ runner' = next

RunReceive ==
  /\ runner = "select"
  /\ \E r \in queue :
       /\ queue' = queue \ {r}
       /\ IF Cardinality(batch \cup {r}) >= BatchSize
          THEN StartFlush(batch \cup {r}, "flushing")
          ELSE /\ batch' = batch \cup {r}
               /\ runner' = "top"
               /\ UNCHANGED flush
  /\ UNCHANGED <<pc, closed, cancelled, closer,
                 flushErr, rejected, outages, storeVars, lossVars>>

RunTick ==
  /\ runner = "select"
  /\ IF batch # {} THEN StartFlush(batch, "flushing")
                   ELSE runner' = "top" /\ UNCHANGED <<batch, flush>>
  /\ UNCHANGED <<pc, queue, closed, cancelled, closer,
                 flushErr, rejected, outages, storeVars, lossVars>>

(* The receive reports that the channel is closed and empty.               *)
RunQueueClosed ==
  /\ runner = "select"
  /\ closed /\ queue = {}
  /\ IF batch # {} THEN StartFlush(batch, "final")
                   ELSE runner' = "done" /\ UNCHANGED <<batch, flush>>
  /\ UNCHANGED <<pc, queue, closed, cancelled, closer,
                 flushErr, rejected, outages, storeVars, lossVars>>

(* dropRemaining: ranging over the channel ends only once it is closed.    *)
RemainingInQueue == queue
Remaining == batch \cup queue

DropRemaining ==
  /\ runner \in {"top", "select"} /\ cancelled
  /\ closed
  /\ Lose(Remaining)
  /\ RememberError(Remaining # {})
  /\ batch' = {}
  /\ queue' = {}
  /\ runner' = "done"
  /\ UNCHANGED <<pc, closed, flush, cancelled, closer,
                 rejected, outages, storeVars>>

RunFlushed ==
  /\ runner \in {"flushing", "final"}
  /\ flush[Runner].todo = <<>>
  /\ RememberError(flush[Runner].failed)
  /\ flush' = [flush EXCEPT ![Runner] = Idle]
  /\ runner' = IF runner = "final" THEN "done" ELSE "top"
  /\ UNCHANGED <<pc, queue, closed, batch, cancelled, closer,
                 rejected, outages, storeVars, lossVars>>

RunStep == RunTop \/ RunReceive \/ RunTick \/ RunQueueClosed \/ DropRemaining
             \/ RunFlushed

-----------------------------------------------------------------------------
(* Close: the write lock excludes every Submit between its test and send.  *)

WriteLockFree == At("sending") = {}

QueueLeftOpen == UNCHANGED closed
CloseQueue == closed' = TRUE

CloseStart(c) ==
  /\ closer[c] = "idle"
  /\ WriteLockFree
  /\ CloseQueue
  /\ closer' = [closer EXCEPT ![c] = "waiting"]
  /\ UNCHANGED <<pc, queue, runner, batch, flush, cancelled,
                 flushErr, rejected, outages, storeVars, lossVars>>

CloseDone(c) ==
  /\ closer[c] = "waiting"
  /\ runner = "done"
  /\ cancelled' = TRUE
  /\ closer' = [closer EXCEPT ![c] = IF flushErr THEN "error" ELSE "nil"]
  /\ UNCHANGED <<pc, queue, closed, runner, batch, flush,
                 flushErr, rejected, outages, storeVars, lossVars>>


(* The caller's context ends first: cancel the writes, then wait again.    *)
CloseExpired(c) ==
  /\ closer[c] = "waiting"
  /\ cancelled' = TRUE
  /\ closer' = [closer EXCEPT ![c] = "expired"]
  /\ UNCHANGED <<pc, queue, closed, runner, batch, flush,
                 flushErr, rejected, outages, storeVars, lossVars>>

CloseJoin(c) ==
  /\ closer[c] = "expired"
  /\ runner = "done"
  /\ closer' = [closer EXCEPT ![c] = "error"]
  /\ UNCHANGED <<pc, queue, closed, runner, batch, flush, cancelled,
                 flushErr, rejected, outages, storeVars, lossVars>>

-----------------------------------------------------------------------------

HandlerStep(r) ==
  \/ SubmitSend(r)
  \/ FallbackEnter(r) \/ FallbackFull(r)
  \/ FallbackAcquire(r) \/ FallbackGiveUp(r)
  \/ FallbackReturn(r)

CloserStep(c) == CloseDone(c) \/ CloseExpired(c) \/ CloseJoin(c)

Next ==
  \/ \E r \in Requests : SubmitLock(r) \/ HandlerStep(r)
  \/ \E w \in Workers : FlushStep(w)
  \/ RunStep
  \/ \E c \in Closers : CloseStart(c) \/ CloserStep(c)

(* A call of record or Close that has begun goes on: goroutines are        *)
(* scheduled, a write ends within its timeout, a timer fires.  The cases   *)
(* of run's select are strongly fair: select picks at random among those   *)
(* that are ready, and the ticker is ready only every 100 ms.  Neither the *)
(* arrival of a request nor the start of Close is fair.                    *)
Fairness ==
  /\ \A r \in Requests : WF_vars(HandlerStep(r))
  /\ \A w \in Workers : WF_vars(FlushStep(w))
  /\ WF_vars(RunTop) /\ WF_vars(RunFlushed)
  /\ SF_vars(RunReceive) /\ SF_vars(RunQueueClosed) /\ SF_vars(DropRemaining)
  /\ \A c \in Closers : WF_vars(CloseDone(c) \/ CloseJoin(c))

Spec == Init /\ [][Next]_vars

FairSpec == Spec /\ Fairness

-----------------------------------------------------------------------------
(* Properties.                                                             *)

Pending(w) == UNION {flush[w].todo[i] : i \in DOMAIN flush[w].todo}

(* A record that record() has taken is never mislaid: it is in the queue,  *)
(* in the batch, in a flush, in the table, or counted as dropped; and once *)
(* its handler or the runner is done with it, it is one of the last two.   *)
EveryRecordAccounted ==
  \A r \in Requests :
    /\ pc[r] = "queued" =>
         r \in queue \cup batch \cup Pending(Runner) \cup db \cup lost
    /\ pc[r] = "flushing" => r \in Pending(r) \cup db \cup lost
    /\ pc[r] = "fellback" => r \in db \cup lost

(* Dropped() counts every loss once, whichever of the four places that add *)
(* to it did: flush after its tries, a refused single record, a rejected   *)
(* fallback, dropRemaining.                                                *)
DroppedCountsEachLossOnce == dropped = Cardinality(lost)

(* The usage tables agree with the log although a batch whose commit was   *)
(* not acknowledged is written again, whole or in halves.                  *)
UsageAgreesWithLog ==
  \A r \in Requests :
    usage[r] = IF r \in db \cap Attributed THEN 1 ELSE 0

(* The books balance: record, flush and dropRemaining leave every record   *)
(* in the table, with its usage counted once, or in Dropped(), once.       *)
LedgerIsExact ==
  EveryRecordAccounted /\ DroppedCountsEachLossOnce /\ UsageAgreesWithLog

(* Submit never sends on the closed channel, which would panic.            *)
NeverSendOnClosedQueue == closed => At("sending") = {}

(* If Close returns nil, every record Submit accepted is in the table.     *)
CloseNilMeansPersisted ==
  (\E c \in Closers : closer[c] = "nil") => At("queued") \subseteq db

(* When Close returns, the runner has stopped: it writes nothing to a      *)
(* database the caller closes next.                                        *)
QuietAfterClose ==
  [][ (\E c \in Closers : closer[c] \in {"nil", "error"})
        => UNCHANGED <<runner, batch, queue, flush[Runner]>> ]_vars

(* One refused record costs no other record its place: with fewer failures *)
(* than the tries of one write, nothing cancelled and nothing rejected,    *)
(* only refused records are lost.                                          *)
RefusedRecordsAreIsolated ==
  (outages < MaxTries /\ ~cancelled /\ rejected = 0) => lost \subseteq Bad

(* The recorder is an implementation of the ledger.                        *)
Verdict == [c \in Closers |->
              IF closer[c] \in {"nil", "error"} THEN closer[c] ELSE "none"]

Ledger == INSTANCE RequestLedger
            WITH taken <- Requests \ At("serving"), accepted <- At("queued"),
                 finished <- At("fellback"), logged <- db, counted <- usage,
                 missing <- lost, verdict <- Verdict

(* Whatever is queued, batched, bisected, written again or cut short, what *)
(* the callers of record and Close see is the ledger's: each record is     *)
(* decided before its caller is told so, each row and each loss is counted *)
(* once, and after a Close nothing that Submit accepted is touched.        *)
KeepsLedger == Ledger!LedgerSpec

CloseReturns ==
  \A c \in Closers :
    closer[c] \in {"waiting", "expired"} ~> closer[c] \in {"nil", "error"}

RecordReturns ==
  \A r \in Requests :
    pc[r] \in {"sending", "overflow", "waiting", "flushing"}
      ~> pc[r] \in {"queued", "fellback"}

(* Close returns even when its caller's context never ends, a handler      *)
(* leaves record() without a panic, nothing runs on behind a Close that    *)
(* has returned, and what the two have told their callers is true.         *)
CallsReturn ==
  /\ CloseReturns /\ RecordReturns
  /\ QuietAfterClose /\ []NeverSendOnClosedQueue /\ KeepsLedger
=============================================================================
