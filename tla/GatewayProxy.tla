----------------------------- MODULE GatewayProxy -----------------------------
(***************************************************************************)
(* One proxied request, once it is admitted (see RequestAdmission): the    *)
(* loop of proxy over the eligible upstreams, the answer relayed as a      *)
(* stream (relayStreamWithMetrics) or buffered (readResponseWithMetrics),  *)
(* and the goroutine that each of these starts to read the upstream.       *)
(*                                                                         *)
(* The eligible upstreams are 1..n in the order of the routes, and a is    *)
(* the one being tried; reader b belongs to the attempt on upstream b.     *)
(* A chunk is the number of the Read that returned it, and filled[b] the   *)
(* number of the one that lies in the buffer that reader b shares with the *)
(* handler.  Bodies end with "eof" (complete), "incomplete" (the parser    *)
(* reports a stream that failed or stopped before its end), "error" or     *)
(* "timeout" (an error of the connection).                                 *)
(*                                                                         *)
(* The timers of the relay may fire whenever it waits.  Setting the health *)
(* of an upstream is one step here (see UpstreamHealth), and so is handing *)
(* the log entry to the recorder (see RequestRecorder).                    *)
(***************************************************************************)
EXTENDS Naturals, Sequences

CONSTANTS
  MaxAttempts,  (* upstreams tried, 1 to 5                                 *)
  MaxChunks,    (* bound on the Reads of one body that return bytes        *)
  Statuses,     (* what upstreams answer                                   *)
  None

ASSUME ProxyAssumption ==
  /\ MaxAttempts \in 1..5
  /\ MaxChunks \in Nat
  /\ Statuses \subseteq 200..599
  /\ None \notin [status : Nat, by : Nat, attempts : Nat]

Upstreams == 1..MaxAttempts

VARIABLES
  n,         (* upstreams that are eligible                                *)
  streaming, (* payload.Stream                                             *)
  ctx,       (* of the request                                             *)
  pc,        (* where the handler stands                                   *)
  a,         (* the upstream it tries, 0 before the first                  *)
  status,    (* of the response it reads                                   *)
  err,       (* the result of the attempt                                  *)
  allRated, allTimed,  (* allRateLimited, allTimedOut                      *)
  content,   (* what it has buffered                                       *)
  reader,    (* of each attempt: where its goroutine stands              *)
  offer,     (* and what it offers: whether there are bytes, and the error *)
  filled,    (* the chunk in its buffer                                    *)
  attempts,  (* logEntry.Attempts                                          *)
  log,       (* logEntry                                                   *)
  sent,      (* the header the client was sent                             *)
  headers,   (* history: calls of WriteHeader                              *)
  got,       (* history: what was written to the client                    *)
  scored,    (* history: upstreams marked, and how                         *)
  guilty     (* history: upstreams that failed on their own                *)

answerVars == <<log, sent, headers, got>>
bufferVars == <<offer, filled>>
readerVars == <<reader, bufferVars>>
loopVars == <<allRated, allTimed, attempts, scored>>
vars == <<n, streaming, ctx, pc, a, status, err, content, guilty,
          answerVars, readerVars, loopVars>>

Errors == {"none", "eof", "incomplete", "error", "timeout", "context",
           "client", "budget"}

Codes == {"", "client_closed", "request_timeout", "stream_interrupted",
          "response_budget_exceeded", "rate_limit_exceeded",
          "gateway_timeout", "bad_gateway"}

TypeOK ==
  /\ n \in 0..MaxAttempts /\ a \in 0..n
  /\ streaming \in BOOLEAN
  /\ ctx \in {"live", "canceled", "expired"}
  /\ pc \in {"loop", "do", "select", "write", "drop", "ack", "flush",
             "ended", "failed", "deliver", "done"}
  /\ status \in Statuses \cup {0} /\ err \in Errors
  /\ allRated \in BOOLEAN /\ allTimed \in BOOLEAN
  /\ content \in Seq(Upstreams \X (1..MaxChunks))
  /\ reader \in [Upstreams -> {"none", "read", "offer", "ack", "gone"}]
  /\ offer \in [Upstreams -> [more : BOOLEAN, err : Errors]]
  /\ filled \in [Upstreams -> 0..MaxChunks]
  /\ attempts \in Seq({"rated", "timeout", "ok", "other"})
  /\ log \in [status : Nat, code : Codes, by : 0..MaxAttempts]
  /\ sent = None
       \/ sent \in [status : Nat, by : 0..MaxAttempts, attempts : Nat]
  /\ headers \in Nat
  /\ got \in Seq(Upstreams \X (1..MaxChunks))
  /\ scored \subseteq Upstreams \X {"failure", "success"}
  /\ guilty \subseteq Upstreams
  /\ \A b \in Upstreams : reader[b] # "none" => b <= a

Init ==
  /\ n \in 0..MaxAttempts
  /\ streaming \in BOOLEAN
  /\ ctx = "live" /\ pc = "loop" /\ a = 0 /\ status = 0 /\ err = "none"
  /\ allRated = (n > 0) /\ allTimed = (n > 0)
  /\ content = <<>>
  /\ reader = [b \in Upstreams |-> "none"]
  /\ offer = [b \in Upstreams |-> [more |-> FALSE, err |-> "none"]]
  /\ filled = [b \in Upstreams |-> 0]
  /\ attempts = <<>>
  /\ log = [status |-> 0, code |-> "", by |-> 0]
  /\ sent = None /\ headers = 0 /\ got = <<>>
  /\ scored = {} /\ guilty = {}

-----------------------------------------------------------------------------
(* Answering and taking notes.                                             *)

(* Only the first header counts.                                           *)
WriteHeader(s, by, count) ==
  /\ sent' = IF sent = None
             THEN [status |-> s, by |-> by, attempts |-> count] ELSE sent
  /\ headers' = headers + 1

SendNothing == UNCHANGED <<sent, headers>>

Log(s, code, by) == log' = [status |-> s, code |-> code, by |-> by]

EndedSilently ==
  \/ ctx = "canceled" /\ Log(499, "client_closed", log.by) /\ SendNothing
  \/ ctx = "expired" /\ Log(504, "request_timeout", log.by) /\ SendNothing

(* A client that is gone is sent nothing, one that waited too long is told *)
(* so.                                                                     *)
RequestEnded ==
  \/ ctx = "canceled" /\ Log(499, "client_closed", log.by) /\ SendNothing
  \/ ctx = "expired" /\ Log(504, "request_timeout", log.by)
                     /\ WriteHeader(504, 0, 0)

Judge(outcome) ==
  /\ attempts' = Append(attempts, outcome)
  /\ allRated' = (allRated /\ outcome = "rated")
  /\ allTimed' = (allTimed /\ outcome = "timeout")

Score(how) == scored' = scored \cup {<<a, how>>}
Blame(b) == guilty' = guilty \cup {b}

(* The response has been read or given up: done and the body are closed.   *)
Left(b) == b < a \/ pc \in {"loop", "ended", "failed", "deliver", "done"}

-----------------------------------------------------------------------------
(* The loop over the upstreams.                                            *)

StopEarly ==
  /\ pc = "loop" /\ ctx # "live"
  /\ RequestEnded
  /\ pc' = "done"
  /\ UNCHANGED <<n, streaming, ctx, a, status, err, content, guilty, got,
                 readerVars, loopVars>>

UpstreamsLeft == a < n

NextUpstream ==
  /\ pc = "loop" /\ ctx = "live" /\ UpstreamsLeft
  /\ a' = a + 1
  /\ pc' = "do" /\ status' = 0 /\ err' = "none" /\ content' = <<>>
  /\ UNCHANGED <<n, streaming, ctx, guilty, answerVars, readerVars, loopVars>>

GiveUp ==
  /\ pc = "loop" /\ ctx = "live" /\ a = n
  /\ LET s == IF allRated THEN 429 ELSE IF allTimed THEN 504 ELSE 502
         code == IF allRated THEN "rate_limit_exceeded"
                 ELSE IF allTimed THEN "gateway_timeout" ELSE "bad_gateway"
     IN Log(s, code, log.by) /\ WriteHeader(s, a, Len(attempts))
  /\ pc' = "done"
  /\ UNCHANGED <<n, streaming, ctx, a, status, err, content, guilty, got,
                 readerVars, loopVars>>

(* The request cannot be built or sent, or no response comes in time.      *)
RequestFails ==
  /\ pc = "do"
  /\ err' \in {"error", "timeout"}
  /\ Blame(a)
  /\ pc' = "failed"
  /\ UNCHANGED <<n, streaming, ctx, a, status, content, answerVars,
                 readerVars, loopVars>>

SeesContext == ctx # "live"

RequestAborted ==
  /\ pc = "do" /\ SeesContext
  /\ err' = "context"
  /\ pc' = "failed"
  /\ UNCHANGED <<n, streaming, ctx, a, status, content, guilty, answerVars,
                 readerVars, loopVars>>

RetryStatus(s) == s \in {401, 403, 404, 429} \/ s >= 500
CountsAsUpstreamFailure(s) == s = 401 \/ s >= 500

RespondsToRetry(s) ==
  /\ pc = "do" /\ RetryStatus(s)
  /\ Judge(IF s = 429 THEN "rated" ELSE IF s = 504 THEN "timeout" ELSE "other")
  /\ IF CountsAsUpstreamFailure(s) THEN Score("failure") ELSE UNCHANGED scored
  /\ Blame(a)
  /\ pc' = "loop"
  /\ UNCHANGED <<n, streaming, ctx, a, status, err, content, answerVars,
                 readerVars>>

Responds(s) ==
  /\ pc = "do" /\ ~RetryStatus(s)
  /\ status' = s
  /\ reader' = [reader EXCEPT ![a] = "read"]
  /\ pc' = "select"
  /\ UNCHANGED <<n, streaming, ctx, a, err, content, guilty, answerVars,
                 bufferVars, loopVars>>

-----------------------------------------------------------------------------
(* The goroutine that reads the body of attempt b.                         *)

(* A stream of a successful response has to complete, and so does any      *)
(* stream that has sent an event.                                          *)
Ends(b, last) ==
  {"error", "timeout"}
    \cup (IF ~streaming \/ last > 0 \/ status \notin 200..299
          THEN {"eof"} ELSE {})
    \cup (IF streaming /\ (last > 0 \/ status \in 200..299)
          THEN {"incomplete"} ELSE {})

Offer(b, more, e) ==
  /\ reader' = [reader EXCEPT ![b] = "offer"]
  /\ offer' = [offer EXCEPT ![b] = [more |-> more, err |-> e]]

(* The upstream broke the body off, unless that was the request's doing.   *)
BlameForEnd(b, e) ==
  IF e \in {"error", "timeout", "incomplete"} /\ ctx = "live" /\ ~Left(b)
  THEN Blame(b) ELSE UNCHANGED guilty

ReadChunk(b) ==
  /\ reader[b] = "read" /\ filled[b] < MaxChunks
  /\ filled' = [filled EXCEPT ![b] = @ + 1]
  /\ \E e \in {"none"} \cup Ends(b, filled'[b]) :
       Offer(b, TRUE, e) /\ BlameForEnd(b, e)
  /\ UNCHANGED <<n, streaming, ctx, pc, a, status, err, content, answerVars,
                 loopVars>>

ReadEnd(b) ==
  /\ reader[b] = "read" /\ ~Left(b)
  /\ \E e \in Ends(b, filled[b]) : Offer(b, FALSE, e) /\ BlameForEnd(b, e)
  /\ UNCHANGED <<n, streaming, ctx, pc, a, status, err, content, filled,
                 answerVars, loopVars>>

(* The context has ended or the body was closed.                           *)
ReadAborted(b) ==
  /\ reader[b] = "read" /\ (Left(b) \/ ctx # "live")
  /\ Offer(b, FALSE, "context")
  /\ UNCHANGED <<n, streaming, ctx, pc, a, status, err, content, guilty,
                 filled, answerVars, loopVars>>

StopsOnAck(b) == reader[b] = "ack" /\ Left(b)
Stops(b) == reader[b] \in {"offer", "ack"} /\ Left(b)

ReaderStops(b) ==
  /\ Stops(b)
  /\ reader' = [reader EXCEPT ![b] = "gone"]
  /\ UNCHANGED <<n, streaming, ctx, pc, a, status, err, content, guilty,
                 bufferVars, answerVars, loopVars>>

-----------------------------------------------------------------------------
(* Relaying: the handler waits for the reader, a timer or the context.     *)

Offered == pc = "select" /\ reader[a] = "offer"

(* Until it is acknowledged the reader leaves its buffer alone.            *)
ReadsOn == reader' = [reader EXCEPT ![a] = "read"]
AwaitsAck == reader' = [reader EXCEPT ![a] = "ack"]

BytesIgnoredAtEnd == offer[a].more /\ offer[a].err = "none"
HasBytes == offer[a].more

StreamReceive ==
  /\ Offered /\ streaming /\ HasBytes
  /\ AwaitsAck
  /\ \/ /\ pc' = "write" /\ err' = offer[a].err
        /\ IF sent = None THEN WriteHeader(status, a, Len(attempts) + 1)
                          ELSE SendNothing
     \/ (* no write deadline *)
        pc' = "ended" /\ err' = "client" /\ SendNothing
  /\ UNCHANGED <<n, streaming, ctx, a, status, content, guilty, log, got,
                 bufferVars, loopVars>>

StreamReceiveEnd ==
  /\ Offered /\ streaming /\ ~HasBytes
  /\ reader' = [reader EXCEPT ![a] = "gone"]
  /\ err' = offer[a].err
  /\ IF offer[a].err = "eof" /\ sent = None
     THEN WriteHeader(status, a, Len(attempts) + 1) ELSE SendNothing
  /\ pc' = "ended"
  /\ UNCHANGED <<n, streaming, ctx, a, status, content, guilty, log, got,
                 bufferVars, loopVars>>

(* What is written lies in the buffer at that moment.                      *)
ClientWrite ==
  /\ pc = "write"
  /\ \/ pc' = "ack" /\ got' = Append(got, <<a, filled[a]>>)
     \/ pc' = "drop" /\ got' \in {got, Append(got, <<a, filled[a]>>)}
  /\ UNCHANGED <<n, streaming, ctx, a, status, err, content, guilty, log,
                 sent, headers, readerVars, loopVars>>

BufferedReceive ==
  /\ Offered /\ ~streaming
  /\ AwaitsAck
  /\ \/ /\ pc' = "ack" /\ err' = offer[a].err
        /\ content' = IF HasBytes THEN Append(content, <<a, filled[a]>>)
                                  ELSE content
        /\ UNCHANGED guilty
     \/ /\ HasBytes   (* no budget for it *)
        /\ pc' = "ended" /\ err' = "budget" /\ UNCHANGED <<content, guilty>>
     \/ /\ HasBytes   (* more than 32 MiB *)
        /\ pc' = "ended" /\ err' = "error" /\ Blame(a) /\ UNCHANGED content
  /\ UNCHANGED <<n, streaming, ctx, a, status, answerVars, bufferVars,
                 loopVars>>

GoOn == IF err = "none" THEN "select" ELSE "ended"

Acknowledge ==
  /\ pc \in {"ack", "drop"} /\ reader[a] = "ack"
  /\ reader' = [reader EXCEPT ![a] = IF offer[a].err = "none"
                                     THEN "read" ELSE "gone"]
  /\ IF pc = "drop" THEN pc' = "ended" /\ err' = "client"
     ELSE pc' = (IF streaming THEN "flush" ELSE GoOn) /\ UNCHANGED err
  /\ UNCHANGED <<n, streaming, ctx, a, status, content, guilty, bufferVars,
                 answerVars, loopVars>>

Flush ==
  /\ pc = "flush"
  /\ \/ pc' = GoOn /\ UNCHANGED err
     \/ pc' = "ended" /\ err' = "client"
  /\ UNCHANGED <<n, streaming, ctx, a, status, content, guilty, answerVars,
                 readerVars, loopVars>>

TimerFires ==
  /\ pc = "select"
  /\ pc' = "ended" /\ err' = "timeout"
  /\ Blame(a)
  /\ UNCHANGED <<n, streaming, ctx, a, status, content, answerVars,
                 readerVars, loopVars>>

ContextEnds ==
  /\ pc = "select" /\ SeesContext
  /\ pc' = "ended" /\ err' = "context"
  /\ UNCHANGED <<n, streaming, ctx, a, status, content, guilty, answerVars,
                 readerVars, loopVars>>

-----------------------------------------------------------------------------
(* The end of an attempt.                                                  *)

Outcome == IF err = "eof" THEN "ok"
           ELSE IF err = "timeout" THEN "timeout" ELSE "other"

Committed == sent # None

(* The stream has begun: there is no way back.                             *)
CommittedStreamEnds ==
  /\ pc = "ended" /\ streaming /\ Committed
  /\ attempts' = Append(attempts, Outcome)
  /\ \/ err = "eof" /\ Log(status, "", a) /\ Score("success")
     \/ /\ err \notin {"eof", "client"} /\ ctx = "live"
        /\ Log(status, "stream_interrupted", a) /\ Score("failure")
     \/ /\ err # "eof" /\ (err = "client" \/ ctx # "live")
        /\ Log(status, IF ctx = "expired" THEN "request_timeout"
                                          ELSE "client_closed", a)
        /\ UNCHANGED scored
  /\ pc' = "done"
  /\ UNCHANGED <<n, streaming, ctx, a, status, err, content, guilty, sent,
                 headers, got, allRated, allTimed, readerVars>>

ClientGone == ctx # "live" \/ err = "client"

(* Nothing was sent yet: the next upstream may answer.                     *)
StreamFails ==
  /\ pc = "ended" /\ streaming /\ ~Committed /\ ~ClientGone
  /\ Judge(Outcome) /\ Score("failure")
  /\ pc' = "loop"
  /\ UNCHANGED <<n, streaming, ctx, a, status, err, content, guilty,
                 answerVars, readerVars>>

StreamAbandoned ==
  /\ pc = "ended" /\ streaming /\ ~Committed /\ ClientGone
  /\ attempts' = Append(attempts, Outcome)
  /\ \/ RequestEnded
     \/ ctx = "live" /\ Log(499, "client_closed", log.by) /\ SendNothing
  /\ pc' = "done"
  /\ UNCHANGED <<n, streaming, ctx, a, status, err, content, guilty, got,
                 allRated, allTimed, scored, readerVars>>

BufferedEnds ==
  /\ pc = "ended" /\ ~streaming
  /\ IF err = "eof"
     THEN /\ attempts' = Append(attempts, Outcome)
          /\ Log(status, "", a) /\ Score("success")
          /\ pc' = "deliver"
     ELSE pc' = "failed" /\ UNCHANGED <<attempts, log, scored>>
  /\ UNCHANGED <<n, streaming, ctx, a, status, err, content, guilty, sent,
                 headers, got, allRated, allTimed, readerVars>>

Deliver ==
  /\ pc = "deliver"
  /\ \/ RequestEnded /\ UNCHANGED got
     \/ /\ ctx = "live"
        /\ \/ /\ WriteHeader(status, a, Len(attempts))
              /\ got' = content /\ UNCHANGED log
           \/ /\ WriteHeader(status, a, Len(attempts))
              /\ got' \in {<<>>, content} /\ Log(status, "client_closed", a)
           \/ /\ SendNothing   (* no write deadline *)
              /\ Log(status, "client_closed", a) /\ UNCHANGED got
  /\ pc' = "done"
  /\ UNCHANGED <<n, streaming, ctx, a, status, err, content, guilty,
                 readerVars, loopVars>>

AttemptFails ==
  /\ pc = "failed"
  /\ Judge(Outcome)
  /\ \/ RequestEnded /\ pc' = "done" /\ UNCHANGED scored
     \/ /\ ctx = "live" /\ err = "budget"
        /\ Log(503, "response_budget_exceeded", log.by)
        /\ WriteHeader(503, 0, 0)
        /\ pc' = "done" /\ UNCHANGED scored
     \/ /\ ctx = "live" /\ err # "budget"
        /\ Score("failure")
        /\ pc' = "loop" /\ UNCHANGED log /\ SendNothing
  /\ UNCHANGED <<n, streaming, ctx, a, status, err, content, guilty, got,
                 readerVars>>

-----------------------------------------------------------------------------
(* The client goes away, or MaxRequestDuration has passed.                 *)
EndContext(how) ==
  /\ ctx = "live" /\ pc # "done"
  /\ ctx' = how
  /\ UNCHANGED <<n, streaming, pc, a, status, err, content, guilty,
                 answerVars, readerVars, loopVars>>
Cancel == EndContext("canceled")
Expire == EndContext("expired")

Terminated == pc = "done" /\ UNCHANGED vars

(* What the handler does without waiting for anybody but the client, whose *)
(* write has a deadline.                                                   *)
HandlerStep ==
  \/ StopEarly \/ NextUpstream \/ GiveUp \/ RequestAborted
  \/ StreamReceive \/ StreamReceiveEnd \/ BufferedReceive
  \/ ClientWrite \/ Acknowledge \/ Flush \/ ContextEnds
  \/ CommittedStreamEnds \/ StreamFails \/ StreamAbandoned
  \/ BufferedEnds \/ Deliver \/ AttemptFails

UpstreamStep ==
  \/ RequestFails \/ TimerFires
  \/ \E s \in Statuses : Responds(s) \/ RespondsToRetry(s)
  \/ \E b \in Upstreams : ReadChunk(b) \/ ReadEnd(b)

ReaderStep(b) == ReadAborted(b) \/ ReaderStops(b)

Next ==
  \/ HandlerStep \/ UpstreamStep \/ \E b \in Upstreams : ReaderStep(b)
  \/ Cancel \/ Expire \/ Terminated

Spec == Init /\ [][Next]_vars

(* Goroutines are scheduled and the request's context expires.  Upstreams  *)
(* owe nothing.                                                            *)
FairSpec ==
  /\ Spec
  /\ WF_vars(HandlerStep) /\ WF_vars(Expire)
  /\ \A b \in Upstreams : WF_vars(ReaderStep(b))

-----------------------------------------------------------------------------
(* Properties.                                                             *)

Whole(b) == [i \in 1..filled[b] |-> <<b, i>>]

(* What the client receives is the body of one upstream from its beginning *)
(* without a gap, however the reader and the relay interleave.             *)
BytesInOrder ==
  \E b \in Upstreams : \A i \in 1..Len(got) : got[i] = <<b, i>>

(* Once a header is out, no other upstream is tried.                       *)
NoFailoverAfterCommit == [][sent # None => a' = a]_vars

(* The client gets one header, and the log says what it was: its status,   *)
(* and for a relayed answer its upstream and the number of attempts.  A    *)
(* request that was answered by nothing is logged as the client's doing.   *)
AnswerMatchesLog ==
  /\ headers <= 1
  /\ pc = "done" =>
       /\ sent = None => log.code = "client_closed"
       /\ sent # None => log.status = sent.status
       /\ (sent # None /\ sent.by # 0) =>
            /\ sent.attempts = Len(attempts)
            /\ log.by \in {0, sent.by}

(* An upstream is scored as failing only for what it did itself, and as    *)
(* healthy only once its whole body has arrived.                           *)
ScoresAreDeserved ==
  \A b \in Upstreams :
    /\ <<b, "failure">> \in scored => b \in guilty
    /\ <<b, "success">> \in scored =>
         b \notin guilty /\ (IF streaming THEN got ELSE content) = Whole(b)

(* The error names a cause all attempts share.                             *)
All(outcome) == n > 0 /\ Len(attempts) = n
                /\ \A i \in 1..Len(attempts) : attempts[i] = outcome

ErrorNamesTheCause ==
  pc = "done" =>
    /\ log.code = "rate_limit_exceeded" => All("rated")
    /\ log.code = "gateway_timeout" => All("timeout")
    /\ log.code = "bad_gateway" => ~All("rated") /\ ~All("timeout")

(* Together: what the client is told and what the log says is one account  *)
(* of the request.                                                         *)
AnswerIsTrue == AnswerMatchesLog /\ ErrorNamesTheCause

(* The request ends although upstreams hang and the client reads nothing,  *)
(* and no goroutine outlives it for good.                                  *)
RequestEnds ==
  <>[](pc = "done" /\ \A b \in Upstreams : reader[b] \in {"none", "gone"})
=============================================================================
