-------------------------- MODULE GatewayProxyProofs --------------------------
(***************************************************************************)
(* Proofs about GatewayProxy: the types, the header and the log, and the   *)
(* error a client is told, whatever the number of upstreams, of reads and  *)
(* of statuses.  The body and the scores follow below.                      *)
(*                                                                         *)
(* The argument.  Types says with the types where the handler stands:      *)
(* which upstream it deals with, and that only a stream is written chunk   *)
(* by chunk.  Uncommitted says at which places nothing was sent yet, and   *)
(* that a header once sent names the attempt at hand: the loop, the only   *)
(* place from which another upstream is tried, is among the former.        *)
(***************************************************************************)
EXTENDS GatewayProxy, StreamUsage, FiniteSetTheorems, SequenceTheorems,
        WellFoundedInduction, TLAPS

(* The conjuncts of TypeOK, by what they are about.                        *)
ControlTypes ==
  /\ n \in 0..MaxAttempts /\ a \in 0..n
  /\ streaming \in BOOLEAN
  /\ ctx \in {"live", "canceled", "expired"}
  /\ pc \in {"loop", "do", "select", "write", "drop", "ack", "flush",
             "ended", "failed", "deliver", "done"}
  /\ status \in Statuses \cup {0} /\ err \in Errors
  /\ allRated \in BOOLEAN /\ allTimed \in BOOLEAN
  /\ scored \subseteq Upstreams \X {"failure", "success"}
  /\ guilty \subseteq Upstreams

ReaderTypes ==
  /\ reader \in [Upstreams -> {"none", "read", "offer", "ack", "gone"}]
  /\ offer \in [Upstreams -> [more : BOOLEAN, err : Errors]]
  /\ filled \in [Upstreams -> 0..MaxChunks]

LogTypes ==
  /\ attempts \in Seq({"rated", "timeout", "ok", "other"})
  /\ log \in [status : Nat, code : Codes, by : 0..MaxAttempts]
  /\ headers \in Nat
  /\ sent = None \/ sent \in [status : Nat, by : 0..MaxAttempts,
                              attempts : Nat]

BodyTypes ==
  /\ content \in Seq(Upstreams \X (1..MaxChunks))
  /\ got \in Seq(Upstreams \X (1..MaxChunks))

(* Where the handler stands says what it deals with.                       *)
Place ==
  /\ pc \notin {"loop", "done"} => a >= 1
  /\ pc \in {"write", "drop", "flush"} => streaming
  /\ pc = "deliver" => ~streaming
  /\ pc = "do" => reader[a] = "none"
  /\ pc = "write" => filled[a] >= 1

(* Only upstreams that were tried have a reader, and what a reader offers  *)
(* lies in its buffer.                                                     *)
Readers ==
  \A b \in Upstreams :
    /\ b > a => reader[b] = "none"
    /\ reader[b] = "none" => filled[b] = 0
    /\ offer[b].more => filled[b] >= 1

Types ==
  ControlTypes /\ ReaderTypes /\ LogTypes /\ BodyTypes /\ Place /\ Readers

(* Every attempt is on an upstream.                                        *)
LEMMA TriedUpstream ==
  ASSUME ControlTypes, Place
  PROVE  /\ MaxAttempts \in Nat /\ n \in Nat /\ status \in Nat
         /\ a \in Nat /\ a \in 0..MaxAttempts
         /\ pc \notin {"loop", "done"} => a \in Upstreams
BY ProxyAssumption DEF ControlTypes, Place, Upstreams, ProxyAssumption

(* Scores are of upstreams.                                                *)
LEMMA ScoreKept ==
  ASSUME Types, pc \notin {"loop", "done"},
         NEW how \in {"failure", "success"}, Score(how)
  PROVE  scored' \subseteq Upstreams \X {"failure", "success"}
<1>1. a \in Upstreams
  BY TriedUpstream DEF Types
<1> QED
  BY <1>1 DEF Score, Types, ControlTypes

(* The handler's own variables keep their types.                           *)
LEMMA ControlKept ==
  ASSUME Types, [Next]_vars
  PROVE  ControlTypes'
<1> USE DEF Types
<1>0. /\ MaxAttempts \in Nat /\ n \in Nat /\ a \in Nat
      /\ pc \notin {"loop", "done"} => a \in Upstreams
      /\ pc \notin {"loop", "done"} => offer[a].err \in Errors
  BY TriedUpstream DEF ReaderTypes
<1>1. CASE StopEarly \/ NextUpstream \/ GiveUp \/ RequestAborted
  BY <1>0, <1>1 DEF StopEarly, NextUpstream, GiveUp, RequestAborted,
    UpstreamsLeft, ControlTypes, Errors, readerVars, loopVars, answerVars
<1>2. CASE StreamReceive \/ StreamReceiveEnd
  BY <1>0, <1>2 DEF StreamReceive, StreamReceiveEnd, Offered, ControlTypes,
    Errors, loopVars
<1>3. CASE BufferedReceive
  BY <1>0, <1>3 DEF BufferedReceive, Offered, Blame, ControlTypes, Errors,
    loopVars
<1>4. CASE ClientWrite \/ Acknowledge \/ Flush \/ ContextEnds \/ TimerFires
  BY <1>0, <1>4 DEF ClientWrite, Acknowledge, Flush, ContextEnds, TimerFires,
    GoOn, Blame, ControlTypes, Errors, loopVars
<1>5. CASE CommittedStreamEnds \/ BufferedEnds
  <2>1. scored' \subseteq Upstreams \X {"failure", "success"}
    BY <1>5, ScoreKept DEF CommittedStreamEnds, BufferedEnds, ControlTypes
  <2> QED BY <1>5, <2>1 DEF CommittedStreamEnds, BufferedEnds, ControlTypes
<1>6. CASE StreamFails \/ AttemptFails
  <2>1. scored' \subseteq Upstreams \X {"failure", "success"}
    BY <1>6, ScoreKept DEF StreamFails, AttemptFails, ControlTypes
  <2> QED BY <1>6, <2>1 DEF StreamFails, AttemptFails, Judge, ControlTypes
<1>7. CASE StreamAbandoned \/ Deliver
  BY <1>7 DEF StreamAbandoned, Deliver, ControlTypes, loopVars
<1>8. CASE RequestFails
  BY <1>0, <1>8 DEF RequestFails, Blame, ControlTypes, Errors, loopVars
<1>9. ASSUME NEW s \in Statuses, Responds(s) \/ RespondsToRetry(s)
      PROVE  ControlTypes'
  <2>1. scored' \subseteq Upstreams \X {"failure", "success"}
    BY <1>9, ScoreKept DEF Responds, RespondsToRetry, ControlTypes, loopVars
  <2>2. guilty' \subseteq Upstreams
    BY <1>0, <1>9 DEF Responds, RespondsToRetry, Blame, ControlTypes
  <2>3. CASE Responds(s)
    BY <2>1, <2>2, <2>3 DEF Responds, ControlTypes, loopVars
  <2>4. CASE RespondsToRetry(s)
    <3>1. /\ UNCHANGED <<n, streaming, ctx, a, status, err>> /\ pc' = "loop"
          /\ allRated' \in BOOLEAN /\ allTimed' \in BOOLEAN
      BY <2>4, Zenon DEF RespondsToRetry, Judge, ControlTypes
    <3> QED BY <2>1, <2>2, <3>1 DEF ControlTypes
  <2> QED BY <1>9, <2>3, <2>4
<1>10. ASSUME NEW b \in Upstreams, ReadChunk(b) \/ ReadEnd(b)
       PROVE  ControlTypes'
  <2>1. guilty' \subseteq Upstreams
    BY <1>10 DEF ReadChunk, ReadEnd, BlameForEnd, Blame, ControlTypes
  <2> QED BY <1>10, <2>1 DEF ReadChunk, ReadEnd, ControlTypes, loopVars
<1>11. ASSUME NEW b \in Upstreams, ReaderStep(b)
       PROVE  ControlTypes'
  BY <1>11 DEF ReaderStep, ReadAborted, ReaderStops, ControlTypes, loopVars
<1>12. CASE Cancel \/ Expire
  BY <1>12 DEF Cancel, Expire, EndContext, ControlTypes, loopVars
<1>13. CASE UNCHANGED vars
  BY <1>13 DEF vars, ControlTypes, loopVars
<1> QED
  BY <1>1, <1>2, <1>3, <1>4, <1>5, <1>6, <1>7, <1>8, <1>9, <1>10, <1>11,
    <1>12, <1>13 DEF Next, HandlerStep, UpstreamStep, Terminated

(* The readers keep theirs.                                                *)
LEMMA ReaderKept ==
  ASSUME Types, [Next]_vars
  PROVE  ReaderTypes'
<1> USE DEF Types
<1>0. pc \notin {"loop", "done"} => a \in Upstreams
  BY TriedUpstream
<1>1. CASE StreamReceive \/ StreamReceiveEnd \/ BufferedReceive \/ Acknowledge
  BY <1>0, <1>1 DEF StreamReceive, StreamReceiveEnd, BufferedReceive,
    Acknowledge, Offered, AwaitsAck, ReaderTypes, bufferVars
<1>2. ASSUME NEW s \in Statuses, Responds(s)
      PROVE  ReaderTypes'
  BY <1>0, <1>2 DEF Responds, ReaderTypes, bufferVars
<1>3. ASSUME NEW b \in Upstreams, ReadChunk(b)
      PROVE  ReaderTypes'
  BY <1>3, ProxyAssumption
    DEF ReadChunk, Offer, Ends, Errors, ReaderTypes, ProxyAssumption
<1>4. ASSUME NEW b \in Upstreams, ReadEnd(b) \/ ReaderStep(b)
      PROVE  ReaderTypes'
  <2>1. CASE ReadEnd(b)
    BY <2>1 DEF ReadEnd, Offer, Ends, Errors, ReaderTypes
  <2>2. CASE ReadAborted(b)
    BY <2>2 DEF ReadAborted, Offer, Errors, ReaderTypes
  <2>3. CASE ReaderStops(b)
    BY <2>3 DEF ReaderStops, ReaderTypes, bufferVars
  <2> QED BY <1>4, <2>1, <2>2, <2>3 DEF ReaderStep
<1>5. CASE UNCHANGED readerVars
  BY <1>5 DEF readerVars, bufferVars, ReaderTypes
<1> QED
  BY <1>1, <1>2, <1>3, <1>4, <1>5 DEF Next, HandlerStep, UpstreamStep,
    StopEarly, NextUpstream, GiveUp, RequestAborted, ClientWrite, Flush,
    ContextEnds, TimerFires, CommittedStreamEnds, BufferedEnds, StreamFails,
    AttemptFails, StreamAbandoned, Deliver, RequestFails, RespondsToRetry,
    Cancel, Expire, EndContext, Terminated, vars

(* So do the log entry and the header,                                     *)
LogEntries == [status : Nat, code : Codes, by : 0..MaxAttempts]
Headers == [status : Nat, by : 0..MaxAttempts, attempts : Nat]

(* What is sent and logged is of the right shape.                          *)
LEMMA Answering ==
  ASSUME Types, NEW s \in Nat, NEW by \in 0..MaxAttempts, NEW count \in Nat,
         WriteHeader(s, by, count)
  PROVE  headers' \in Nat /\ (sent' = None \/ sent' \in Headers)
BY DEF WriteHeader, Types, LogTypes, Headers

(* The same of an entry,                                                   *)
LEMMA Logging ==
  ASSUME NEW s \in Nat, NEW code \in Codes, NEW by \in 0..MaxAttempts
  PROVE  Log(s, code, by) => log' \in LogEntries
BY DEF Log, LogEntries

(* and of a request that ends by its context.                              *)
LEMMA Ending ==
  ASSUME Types, RequestEnded
  PROVE  /\ log' \in LogEntries
         /\ headers' \in Nat /\ (sent' = None \/ sent' \in Headers)
<1>1. log.by \in 0..MaxAttempts /\ 0 \in 0..MaxAttempts
  BY TriedUpstream DEF Types, LogTypes
<1>2. CASE Log(499, "client_closed", log.by) /\ SendNothing
  <2>1. log' \in LogEntries
    BY <1>1, <1>2 DEF Log, LogEntries, Codes
  <2> QED
    BY <1>2, <2>1 DEF SendNothing, Types, LogTypes, Headers
<1>3. CASE Log(504, "request_timeout", log.by) /\ WriteHeader(504, 0, 0)
  <2>1. log' \in LogEntries
    BY <1>1, <1>3 DEF Log, LogEntries, Codes
  <2>2. headers' \in Nat /\ (sent' = None \/ sent' \in Headers)
    BY <1>1, <1>3 DEF WriteHeader, Types, LogTypes, Headers
  <2> QED BY <2>1, <2>2
<1> QED BY <1>2, <1>3 DEF RequestEnded

LEMMA LogKept ==
  ASSUME Types, [Next]_vars
  PROVE  LogTypes'
<1> DEFINE LogOK == log' \in LogEntries
           SentOK == headers' \in Nat /\ (sent' = None \/ sent' \in Headers)
           AttemptsOK == attempts' \in Seq({"rated", "timeout", "ok", "other"})
<1>0. /\ log.by \in 0..MaxAttempts /\ 0 \in 0..MaxAttempts
      /\ a \in 0..MaxAttempts /\ Len(attempts) \in Nat /\ status \in Nat
      /\ attempts \in Seq({"rated", "timeout", "ok", "other"})
      /\ Len(attempts) + 1 \in Nat
  BY TriedUpstream DEF Types, LogTypes
<1>1. /\ UNCHANGED log => LogOK
      /\ UNCHANGED <<sent, headers>> => SentOK
      /\ UNCHANGED attempts => AttemptsOK
  BY DEF Types, LogTypes, LogEntries, Headers, Codes
<1>2. ASSUME NEW outcome \in {"rated", "timeout", "ok", "other"},
             attempts' = Append(attempts, outcome)
      PROVE  AttemptsOK
  BY <1>0, <1>2
<1>3. Outcome \in {"rated", "timeout", "ok", "other"}
  BY DEF Outcome
<1>4. RequestEnded => LogOK /\ SentOK
  BY Ending
<1>a. LogOK /\ SentOK /\ AttemptsOK => LogTypes'
  BY DEF LogTypes, LogEntries, Headers
<1> HIDE DEF LogOK, SentOK, AttemptsOK
<1>5. CASE StopEarly
  BY <1>a, <1>1, <1>4, <1>5 DEF StopEarly, loopVars
<1>6. CASE GiveUp
  <2>1. ASSUME NEW s \in {429, 504, 502}, NEW code \in Codes,
               Log(s, code, log.by), WriteHeader(s, a, Len(attempts))
        PROVE  LogOK /\ SentOK
    BY <1>0, <2>1, Answering, Logging DEF LogOK, SentOK
  <2>2. ASSUME allRated
        PROVE  LogOK /\ SentOK
    <3>1. /\ Log(429, "rate_limit_exceeded", log.by)
          /\ WriteHeader(429, a, Len(attempts))
      BY <1>6, <2>2 DEF GiveUp
    <3>2. 429 \in {429, 504, 502} /\ "rate_limit_exceeded" \in Codes
      BY DEF Codes
    <3> QED BY <2>1, <3>1, <3>2
  <2>3. ASSUME ~allRated /\ allTimed
        PROVE  LogOK /\ SentOK
    <3>1. /\ Log(504, "gateway_timeout", log.by)
          /\ WriteHeader(504, a, Len(attempts))
      BY <1>6, <2>3 DEF GiveUp
    <3>2. 504 \in {429, 504, 502} /\ "gateway_timeout" \in Codes
      BY DEF Codes
    <3> QED BY <2>1, <3>1, <3>2
  <2>4. ASSUME ~allRated /\ ~allTimed
        PROVE  LogOK /\ SentOK
    <3>1. Log(502, "bad_gateway", log.by) /\ WriteHeader(502, a, Len(attempts))
      BY <1>6, <2>4 DEF GiveUp
    <3>2. 502 \in {429, 504, 502} /\ "bad_gateway" \in Codes
      BY DEF Codes
    <3> QED BY <2>1, <3>1, <3>2
  <2>5. LogOK /\ SentOK
    BY <2>2, <2>3, <2>4
  <2> QED
    BY <1>a, <1>1, <1>6, <2>5 DEF GiveUp, loopVars
<1>7. CASE StreamReceive \/ StreamReceiveEnd
  <2>1. SentOK
    BY <1>0, <1>1, <1>7, Answering
      DEF StreamReceive, StreamReceiveEnd, SendNothing, SentOK
  <2> QED
    BY <1>a, <1>1, <1>7, <2>1 DEF StreamReceive, StreamReceiveEnd, loopVars
<1>8. CASE CommittedStreamEnds \/ BufferedEnds
  <2>0. ASSUME NEW code \in Codes, Log(status, code, a)
        PROVE  LogOK
    BY <1>0, <2>0, Logging DEF LogOK
  <2>1. LogOK
    <3>1. CASE CommittedStreamEnds
      <4>1. \E code \in Codes : Log(status, code, a)
        BY <3>1 DEF CommittedStreamEnds, Codes
      <4> QED BY <2>0, <4>1
    <3>2. CASE BufferedEnds
      <4>1. CASE err = "eof"
        BY <2>0, <3>2, <4>1 DEF BufferedEnds, Codes
      <4>2. CASE err # "eof"
        BY <1>1, <3>2, <4>2 DEF BufferedEnds
      <4> QED BY <4>1, <4>2
    <3> QED BY <1>8, <3>1, <3>2
  <2>2. AttemptsOK
    BY <1>1, <1>2, <1>3, <1>8 DEF CommittedStreamEnds, BufferedEnds
  <2> QED
    BY <1>a, <1>1, <1>8, <2>1, <2>2 DEF CommittedStreamEnds, BufferedEnds
<1>9. CASE StreamAbandoned
  <2>1. LogOK /\ SentOK
    <3>1. CASE RequestEnded
      BY <1>4, <3>1
    <3>2. CASE Log(499, "client_closed", log.by) /\ SendNothing
      <4>1. LogOK
        BY <1>0, <3>2 DEF Log, LogEntries, Codes, LogOK
      <4> QED BY <1>1, <3>2, <4>1 DEF SendNothing
    <3> QED BY <1>9, <3>1, <3>2 DEF StreamAbandoned
  <2>2. AttemptsOK
    BY <1>2, <1>3, <1>9 DEF StreamAbandoned
  <2> QED BY <1>a, <2>1, <2>2
<1>10. CASE Deliver
  <2>1. ASSUME WriteHeader(status, a, Len(attempts))
        PROVE  SentOK
    BY <1>0, <2>1, Answering DEF SentOK
  <2>2. ASSUME Log(status, "client_closed", a)
        PROVE  LogOK
    BY <1>0, <2>2 DEF Log, LogEntries, Codes, LogOK
  <2>3. LogOK /\ SentOK
    BY <1>1, <1>4, <1>10, <2>1, <2>2 DEF Deliver, SendNothing
  <2> QED
    BY <1>a, <1>1, <1>10, <2>3 DEF Deliver, loopVars
<1>11. CASE AttemptFails
  <2>1. ASSUME Log(503, "response_budget_exceeded", log.by),
               WriteHeader(503, 0, 0)
        PROVE  LogOK /\ SentOK
    <3>1. LogOK
      BY <1>0, <2>1 DEF Log, LogEntries, Codes, LogOK
    <3>2. SentOK
      BY <1>0, <2>1 DEF WriteHeader, Types, LogTypes, Headers, SentOK
    <3> QED BY <3>1, <3>2
  <2>2. LogOK /\ SentOK
    BY <1>1, <1>4, <1>11, <2>1 DEF AttemptFails, SendNothing
  <2>3. AttemptsOK
    BY <1>2, <1>3, <1>11 DEF AttemptFails, Judge
  <2> QED BY <1>a, <2>2, <2>3
<1>12. CASE StreamFails
  <2>1. AttemptsOK
    BY <1>2, <1>3, <1>12 DEF StreamFails, Judge
  <2> QED
    BY <1>a, <1>1, <1>12, <2>1 DEF StreamFails, answerVars
<1>13. ASSUME NEW s \in Statuses, RespondsToRetry(s)
       PROVE  LogTypes'
  <2>1. AttemptsOK
    BY <1>2, <1>13 DEF RespondsToRetry, Judge
  <2> QED
    BY <1>a, <1>1, <1>13, <2>1 DEF RespondsToRetry, answerVars
<1>14. CASE UNCHANGED <<log, sent, headers, attempts>>
  BY <1>a, <1>1, <1>14
<1> QED
  BY <1>5, <1>6, <1>7, <1>8, <1>9, <1>10, <1>11, <1>12, <1>13, <1>14
    DEF Next, HandlerStep, UpstreamStep, ReaderStep, NextUpstream,
    RequestAborted, BufferedReceive, ClientWrite, Acknowledge, Flush,
    ContextEnds, TimerFires, RequestFails, Responds, ReadChunk, ReadEnd,
    ReadAborted, ReaderStops, Cancel, Expire, EndContext, Terminated, vars,
    answerVars, loopVars

(* and the bodies.                                                         *)
LEMMA BodyKept ==
  ASSUME Types, [Next]_vars
  PROVE  BodyTypes'
<1> DEFINE Chunks == Upstreams \X (1..MaxChunks)
<1>0. /\ content \in Seq(Chunks) /\ got \in Seq(Chunks) /\ <<>> \in Seq(Chunks)
  BY DEF Types, BodyTypes
<1>1. ASSUME pc \notin {"loop", "done"}, filled[a] >= 1
      PROVE  <<a, filled[a]>> \in Chunks
  <2>1. a \in Upstreams
    BY <1>1, TriedUpstream DEF Types
  <2> QED
    BY <1>1, <2>1, ProxyAssumption DEF Types, ReaderTypes, ProxyAssumption
<1>2. ASSUME <<a, filled[a]>> \in Chunks
      PROVE  /\ Append(got, <<a, filled[a]>>) \in Seq(Chunks)
             /\ Append(content, <<a, filled[a]>>) \in Seq(Chunks)
  BY <1>0, <1>2
<1> HIDE DEF Chunks
<1>3. CASE ClientWrite
  BY <1>0, <1>1, <1>2, <1>3 DEF ClientWrite, Types, Place, BodyTypes, Chunks
<1>4. CASE BufferedReceive
  <2>1. HasBytes => filled[a] >= 1
    BY <1>4, TriedUpstream
      DEF BufferedReceive, Offered, HasBytes, Types, Readers
  <2> QED
    BY <1>0, <1>1, <1>2, <1>4, <2>1
      DEF BufferedReceive, Offered, answerVars, BodyTypes, Chunks
<1>5. CASE NextUpstream \/ Deliver
  BY <1>0, <1>5 DEF NextUpstream, Deliver, answerVars, BodyTypes, Chunks
<1>6. CASE UNCHANGED <<content, got>>
  BY <1>0, <1>6 DEF BodyTypes, Chunks
<1> QED
  BY <1>3, <1>4, <1>5, <1>6 DEF Next, HandlerStep, UpstreamStep, ReaderStep,
    StopEarly, GiveUp, RequestAborted, StreamReceive, StreamReceiveEnd,
    Acknowledge, Flush, ContextEnds, CommittedStreamEnds, StreamFails,
    StreamAbandoned, BufferedEnds, AttemptFails, TimerFires, RequestFails,
    Responds, RespondsToRetry, ReadChunk, ReadEnd, ReadAborted, ReaderStops,
    Cancel, Expire, EndContext, Terminated, vars, answerVars

(* The handler is where it belongs.                                        *)
LEMMA PlaceKept ==
  ASSUME Types, [Next]_vars
  PROVE  Place'
<1> USE DEF Types
<1>0. /\ n \in Nat /\ a \in Nat
      /\ pc \notin {"loop", "done"} => a \in Upstreams
  BY TriedUpstream
<1>1. CASE NextUpstream
  <2>1. a + 1 \in Upstreams
    BY <1>0, <1>1, ProxyAssumption
      DEF NextUpstream, UpstreamsLeft, ControlTypes, Upstreams, ProxyAssumption
  <2> QED
    BY <1>0, <1>1, <2>1
      DEF NextUpstream, readerVars, bufferVars, Place, Readers
<1>2. CASE StreamReceive \/ StreamReceiveEnd \/ BufferedReceive \/ Acknowledge
  BY <1>0, <1>2 DEF StreamReceive, StreamReceiveEnd, BufferedReceive,
    Acknowledge, Offered, HasBytes, AwaitsAck, GoOn, bufferVars, Place, Readers
<1>3. ASSUME NEW s \in Statuses, Responds(s) \/ RespondsToRetry(s)
      PROVE  Place'
  BY <1>0, <1>3 DEF Responds, RespondsToRetry, readerVars, bufferVars, Place
<1>4. ASSUME NEW b \in Upstreams, ReadChunk(b) \/ ReadEnd(b) \/ ReaderStep(b)
      PROVE  Place'
  BY <1>0, <1>4 DEF ReadChunk, ReadEnd, ReaderStep, ReadAborted, ReaderStops,
    Stops, Offer, ReaderTypes, readerVars, bufferVars, Place
<1>5. CASE \/ StopEarly \/ GiveUp \/ RequestAborted \/ ClientWrite \/ Flush
           \/ ContextEnds \/ TimerFires \/ RequestFails
  BY <1>0, <1>5 DEF StopEarly, GiveUp, RequestAborted, ClientWrite, Flush,
    GoOn, ContextEnds, TimerFires, RequestFails, readerVars, bufferVars, Place
<1>6. CASE \/ CommittedStreamEnds \/ StreamFails \/ StreamAbandoned
           \/ Deliver \/ AttemptFails
  BY <1>0, <1>6 DEF CommittedStreamEnds, StreamFails, StreamAbandoned,
    Deliver, AttemptFails, Place, ControlTypes
<1>8. CASE BufferedEnds
  <2>1. pc' \in {"deliver", "failed"}
    BY <1>8 DEF BufferedEnds
  <2> QED BY <1>0, <1>8, <2>1 DEF BufferedEnds, Place, ControlTypes
<1>7. CASE Cancel \/ Expire \/ UNCHANGED vars
  BY <1>7 DEF Cancel, Expire, EndContext, vars, readerVars, bufferVars, Place
<1> QED
  BY <1>1, <1>2, <1>3, <1>4, <1>5, <1>6, <1>7, <1>8 DEF Next, HandlerStep,
    UpstreamStep, Terminated

(* And the readers are those of the attempts.                              *)
LEMMA ReadersKept ==
  ASSUME Types, [Next]_vars
  PROVE  Readers'
<1> USE DEF Types
<1>0. /\ n \in Nat /\ a \in Nat
      /\ pc \notin {"loop", "done"} => a \in Upstreams
      /\ \A b \in Upstreams : b \in Nat
  BY TriedUpstream DEF Upstreams
<1>1. CASE NextUpstream
  BY <1>0, <1>1 DEF NextUpstream, readerVars, bufferVars, Readers
<1>2. CASE StreamReceive \/ StreamReceiveEnd \/ BufferedReceive \/ Acknowledge
  BY <1>0, <1>2 DEF StreamReceive, StreamReceiveEnd, BufferedReceive,
    Acknowledge, Offered, AwaitsAck, bufferVars, Readers, ReaderTypes
<1>3. ASSUME NEW s \in Statuses, Responds(s)
      PROVE  Readers'
  BY <1>0, <1>3 DEF Responds, bufferVars, Readers, ReaderTypes
<1>4. ASSUME NEW b \in Upstreams, ReadChunk(b) \/ ReadEnd(b) \/ ReaderStep(b)
      PROVE  Readers'
  BY <1>0, <1>4, ProxyAssumption DEF ReadChunk, ReadEnd, ReaderStep,
    ReadAborted, ReaderStops, Stops, Offer, ReaderTypes, bufferVars, Readers,
    ProxyAssumption
<1>5. CASE UNCHANGED <<a, readerVars>>
  BY <1>5 DEF readerVars, bufferVars, Readers
<1> QED
  BY <1>1, <1>2, <1>3, <1>4, <1>5 DEF Next, HandlerStep, UpstreamStep,
    StopEarly, GiveUp, RequestAborted, ClientWrite, Flush, ContextEnds,
    TimerFires, CommittedStreamEnds, BufferedEnds, StreamFails, AttemptFails,
    StreamAbandoned, Deliver, RequestFails, RespondsToRetry, Cancel, Expire,
    EndContext, Terminated, vars

(* All of it together.                                                     *)
LEMMA TypesStep ==
  ASSUME Types, [Next]_vars
  PROVE  Types'
BY ControlKept, ReaderKept, LogKept, BodyKept, PlaceKept, ReadersKept DEF Types

(* The initial state.                                                      *)
LEMMA InitTypes == Init => Types
<1> SUFFICES ASSUME Init
             PROVE  Types
  OBVIOUS
<1>1. /\ n \in 0..MaxAttempts /\ a = 0 /\ status = 0
      /\ streaming \in BOOLEAN /\ ctx = "live" /\ pc = "loop" /\ err = "none"
      /\ content = <<>> /\ got = <<>> /\ attempts = <<>>
      /\ sent = None /\ headers = 0 /\ scored = {} /\ guilty = {}
  BY Zenon DEF Init
<1>2. /\ reader = [b \in Upstreams |-> "none"]
      /\ offer = [b \in Upstreams |-> [more |-> FALSE, err |-> "none"]]
      /\ filled = [b \in Upstreams |-> 0]
      /\ log = [status |-> 0, code |-> "", by |-> 0]
  BY Zenon DEF Init
<1>3. n \in Nat /\ MaxAttempts \in Nat /\ 0 \in 0..MaxChunks
      /\ 0 \in 0..MaxAttempts
  BY <1>1, ProxyAssumption DEF ProxyAssumption
<1>4. ControlTypes
  <2>1. allRated = (n > 0) /\ allTimed = (n > 0)
    BY Zenon DEF Init
  <2>2. (n > 0) \in BOOLEAN
    OBVIOUS
  <2>3. allRated \in BOOLEAN /\ allTimed \in BOOLEAN
    BY <2>1, <2>2, Zenon
  <2> QED BY <1>1, <1>3, <2>3 DEF ControlTypes, Errors
<1>5. ReaderTypes
  <2>1. [more |-> FALSE, err |-> "none"] \in [more : BOOLEAN, err : Errors]
    BY Zenon DEF Errors
  <2> QED BY <1>2, <1>3, <2>1, Zenon DEF ReaderTypes
<1>6. LogTypes
  <2>1. [status |-> 0, code |-> "", by |-> 0]
          \in [status : Nat, code : Codes, by : 0..MaxAttempts]
    BY <1>3 DEF Codes
  <2>2. attempts \in Seq({"rated", "timeout", "ok", "other"})
    BY <1>1
  <2>3. headers \in Nat
    BY <1>1
  <2> QED BY <1>1, <1>2, <2>1, <2>2, <2>3, Zenon DEF LogTypes
<1>7. BodyTypes
  BY <1>1 DEF BodyTypes
<1>8. Place
  BY <1>1 DEF Place
<1>9. Readers
  <2>1. \A b \in Upstreams : offer[b] = [more |-> FALSE, err |-> "none"]
    BY <1>2, Zenon
  <2>2. [more |-> FALSE, err |-> "none"].more = FALSE
    OBVIOUS
  <2> QED BY <1>2, <2>1, <2>2, Zenon DEF Readers
<1> QED BY <1>4, <1>5, <1>6, <1>7, <1>8, <1>9 DEF Types

(* The types of the variables of one request.                              *)
THEOREM TypeCorrect == Spec => []TypeOK
<1>1. Types => TypeOK
  <2> SUFFICES ASSUME Types
               PROVE  TypeOK
    OBVIOUS
  <2>1. \A b \in Upstreams : reader[b] # "none" => b <= a
    BY TriedUpstream DEF Types, Readers, Upstreams
  <2> QED
    BY <2>1 DEF Types, ControlTypes, ReaderTypes, LogTypes, BodyTypes, TypeOK
<1> QED BY <1>1, InitTypes, TypesStep, PTL DEF Spec

-----------------------------------------------------------------------------
(* The header and the log.                                                 *)

(* The one header of the request, and the number of the attempt at hand.   *)
Header(s, by, count) == [status |-> s, by |-> by, attempts |-> count]
AttemptNo == Len(attempts) + 1

(* While the request goes on: when a header is out, and what it says.      *)
Uncommitted ==
  /\ sent = None => headers = 0
  /\ sent # None => headers = 1
  /\ pc \in {"loop", "do", "failed", "deliver"} => sent = None
  /\ ~streaming /\ pc # "done" => sent = None
  /\ streaming /\ pc \in {"write", "ack", "drop", "flush"} => sent # None
  /\ streaming /\ pc = "ended" /\ err = "eof" => sent # None
  /\ pc # "done" /\ sent # None => sent = Header(status, a, AttemptNo)
  /\ pc \notin {"deliver", "done"} => log.by = 0
  /\ pc # "done" => log.code = ""
  /\ pc = "deliver" => log.status = status /\ log.by = a

(* And what the log says of it in the end: the parts of AnswerMatchesLog.  *)
Agrees ==
  /\ headers \in {0, 1}
  /\ pc = "done" /\ sent = None => log.code = "client_closed"
  /\ pc = "done" /\ sent # None => log.status = sent.status
  /\ pc = "done" /\ sent # None /\ sent.by # 0 =>
       sent.attempts = Len(attempts) /\ log.by \in {0, sent.by}

Answers == Uncommitted /\ Agrees

(* A header is not None.                                                   *)
LEMMA HeaderIsOne ==
  ASSUME NEW s \in Nat, NEW by \in Nat, NEW count \in Nat
  PROVE  /\ Header(s, by, count) # None
         /\ Header(s, by, count).status = s /\ Header(s, by, count).by = by
         /\ Header(s, by, count).attempts = count
<1>1. Header(s, by, count) \in [status : Nat, by : Nat, attempts : Nat]
  BY DEF Header
<1>2. None \notin [status : Nat, by : Nat, attempts : Nat]
  BY ProxyAssumption DEF ProxyAssumption
<1>3. Header(s, by, count) # None
  BY <1>1, <1>2
<1> QED BY <1>3 DEF Header

(* The first header is what is sent.                                       *)
LEMMA FirstHeader ==
  ASSUME Uncommitted, sent = None, NEW s \in Nat, NEW by \in Nat,
         NEW count \in Nat, WriteHeader(s, by, count)
  PROVE  /\ headers' = 1 /\ sent' # None
         /\ sent' = Header(s, by, count)
         /\ sent'.status = s /\ sent'.by = by /\ sent'.attempts = count
<1>1. headers = 0
  BY DEF Uncommitted
<1>2. sent' = Header(s, by, count) /\ headers' = 1
  BY <1>1 DEF WriteHeader, Header
<1> QED BY <1>2, HeaderIsOne

(* A new entry replaces the old one.                                       *)
LEMMA Logged ==
  ASSUME NEW s, NEW code, NEW by, Log(s, code, by)
  PROVE  log'.status = s /\ log'.code = code /\ log'.by = by
BY DEF Log

(* A request that ends before anything was sent.                           *)
LEMMA EndsUnsent ==
  ASSUME Uncommitted, Types, sent = None, RequestEnded, pc' = "done"
  PROVE  Answers'
<1>1. CASE Log(499, "client_closed", log.by) /\ SendNothing
  <2>1. log'.code = "client_closed" /\ UNCHANGED <<sent, headers>>
    BY <1>1, Logged DEF SendNothing
  <2> QED BY <2>1 DEF Answers, Agrees, Uncommitted
<1>2. CASE Log(504, "request_timeout", log.by) /\ WriteHeader(504, 0, 0)
  <2>1. log'.status = 504
    BY <1>2, Logged
  <2>2. headers' = 1 /\ sent' # None /\ sent'.status = 504 /\ sent'.by = 0
    BY <1>2, FirstHeader
  <2> QED BY <2>1, <2>2 DEF Answers, Agrees, Uncommitted
<1> QED BY <1>1, <1>2 DEF RequestEnded

(* Every step keeps the header and the log in agreement.                   *)
LEMMA AnswersStep ==
  ASSUME Types, Answers, [Next]_vars
  PROVE  Answers'
<1>0. /\ n \in Nat /\ a \in Nat /\ status \in Nat
      /\ Len(attempts) \in Nat /\ Len(attempts) + 1 \in Nat
      /\ attempts \in Seq({"rated", "timeout", "ok", "other"})
      /\ AttemptNo \in Nat /\ (UNCHANGED attempts => UNCHANGED AttemptNo)
      /\ Uncommitted
  BY TriedUpstream DEF Types, LogTypes, Answers, AttemptNo
<1>1. CASE StopEarly
  BY <1>0, <1>1, EndsUnsent DEF StopEarly, Uncommitted
<1>2. CASE NextUpstream \/ RequestFails \/ RequestAborted
  BY <1>0, <1>2 DEF NextUpstream, RequestFails, RequestAborted, answerVars,
    loopVars, Uncommitted, Answers, Agrees
<1>3. CASE GiveUp
  <2>1. ASSUME NEW s \in Nat, NEW code, Log(s, code, log.by),
               WriteHeader(s, a, Len(attempts))
        PROVE  Answers'
    <3>0. pc = "loop" /\ pc' = "done" /\ sent = None /\ log.by = 0
      BY <1>0, <1>3 DEF GiveUp, Uncommitted
    <3>1. log'.status = s /\ log'.by = 0
      BY <2>1, <3>0, Logged
    <3>2. /\ headers' = 1 /\ sent' # None /\ sent'.status = s
          /\ sent'.attempts = Len(attempts)
      BY <1>0, <2>1, <3>0, FirstHeader
    <3>3. UNCHANGED attempts
      BY <1>3, Zenon DEF GiveUp, loopVars
    <3> QED
      BY <3>0, <3>1, <3>2, <3>3 DEF Answers, Agrees, Uncommitted
  <2>2. CASE allRated
    BY <1>3, <2>1, <2>2 DEF GiveUp
  <2>3. CASE ~allRated /\ allTimed
    BY <1>3, <2>1, <2>3 DEF GiveUp
  <2>4. CASE ~allRated /\ ~allTimed
    BY <1>3, <2>1, <2>4 DEF GiveUp
  <2> QED BY <2>2, <2>3, <2>4
<1>4. CASE StreamReceive
  <2>1. CASE pc' = "write" /\ sent = None
    <3>1. /\ headers' = 1 /\ sent' # None
          /\ sent' = Header(status, a, AttemptNo)
      BY <1>0, <1>4, <2>1, FirstHeader DEF StreamReceive, AttemptNo
    <3> QED
      BY <1>0, <1>4, <2>1, <3>1 DEF StreamReceive, Offered, loopVars,
        Answers, Agrees, Uncommitted
  <2>2. CASE ~(pc' = "write" /\ sent = None)
    <3>1. UNCHANGED <<sent, headers>> /\ pc' \in {"write", "ended"}
      BY <1>4, <2>2 DEF StreamReceive, SendNothing
    <3>2. pc' = "ended" => err' = "client"
      BY <1>4 DEF StreamReceive
    <3> QED
      BY <1>0, <1>4, <2>2, <3>1, <3>2 DEF StreamReceive, Offered, loopVars,
        Answers, Agrees, Uncommitted
  <2> QED BY <2>1, <2>2
<1>5. CASE StreamReceiveEnd
  <2>1. CASE offer[a].err = "eof" /\ sent = None
    <3>1. /\ headers' = 1 /\ sent' # None
          /\ sent' = Header(status, a, AttemptNo)
      BY <1>0, <1>5, <2>1, FirstHeader DEF StreamReceiveEnd, AttemptNo
    <3> QED
      BY <1>0, <1>5, <2>1, <3>1 DEF StreamReceiveEnd, Offered, loopVars,
        Answers, Agrees, Uncommitted
  <2>2. CASE ~(offer[a].err = "eof" /\ sent = None)
    <3>1. UNCHANGED <<sent, headers>>
      BY <1>5, <2>2 DEF StreamReceiveEnd, SendNothing
    <3> QED
      BY <1>0, <1>5, <2>2, <3>1 DEF StreamReceiveEnd, Offered, loopVars,
        Answers, Agrees, Uncommitted
  <2> QED BY <2>1, <2>2
<1>6. CASE BufferedReceive
  <2>1. /\ ~streaming /\ pc = "select" /\ pc' \in {"ack", "ended"}
        /\ UNCHANGED <<streaming, a, status, answerVars, attempts>>
    BY <1>6 DEF BufferedReceive, Offered, loopVars
  <2> QED BY <1>0, <2>1 DEF answerVars, Answers, Agrees, Uncommitted
<1>7. CASE ClientWrite \/ Acknowledge \/ Flush
  <2>1. /\ pc \in {"write", "ack", "drop", "flush"}
        /\ pc \in {"write", "drop", "flush"} => streaming
    BY <1>7 DEF ClientWrite, Acknowledge, Flush, Types, Place
  <2>2. /\ pc' \in {"ack", "drop", "flush", "select", "ended"}
        /\ pc = "ack" /\ ~streaming => pc' \in {"select", "ended"}
        /\ UNCHANGED <<streaming, a, status, log, sent, headers, attempts>>
    BY <1>7, <2>1
      DEF ClientWrite, Acknowledge, Flush, GoOn, answerVars, loopVars
  <2> QED BY <1>0, <2>1, <2>2 DEF Answers, Agrees, Uncommitted
<1>8. CASE ContextEnds \/ TimerFires
  BY <1>0, <1>8 DEF ContextEnds, TimerFires, answerVars, loopVars, Answers,
    Agrees, Uncommitted
<1>9. CASE CommittedStreamEnds
  <2>1. log'.status = status /\ log'.by = a
    BY <1>9, Logged DEF CommittedStreamEnds
  <2>2. Len(attempts') = AttemptNo
    <3>1. attempts' = Append(attempts, Outcome)
      BY <1>9 DEF CommittedStreamEnds
    <3>2. Outcome \in {"rated", "timeout", "ok", "other"}
      BY DEF Outcome
    <3> QED BY <1>0, <3>1, <3>2 DEF AttemptNo
  <2>3. /\ sent # None /\ sent.status = status /\ sent.by = a
        /\ sent.attempts = AttemptNo
    <3>1. sent # None /\ sent = Header(status, a, AttemptNo)
      BY <1>0, <1>9 DEF CommittedStreamEnds, Committed, Uncommitted
    <3> QED BY <1>0, <3>1, HeaderIsOne
  <2>4. pc' = "done" /\ UNCHANGED <<streaming, sent, headers>>
    BY <1>9 DEF CommittedStreamEnds
  <2> QED
    BY <1>0, <2>1, <2>2, <2>3, <2>4 DEF Answers, Agrees, Uncommitted
<1>10. CASE StreamFails
  BY <1>0, <1>10 DEF StreamFails, Committed, answerVars, Answers,
    Agrees, Uncommitted
<1>11. CASE StreamAbandoned
  <2>1. CASE RequestEnded
    BY <1>0, <1>11, <2>1, EndsUnsent DEF StreamAbandoned, Committed
  <2>2. CASE Log(499, "client_closed", log.by) /\ SendNothing
    <3>1. log'.code = "client_closed"
      BY <2>2, Logged
    <3> QED
      BY <1>0, <1>11, <2>2, <3>1 DEF StreamAbandoned, Committed, SendNothing,
        Answers, Agrees, Uncommitted
  <2> QED BY <1>11, <2>1, <2>2 DEF StreamAbandoned
<1>12. CASE BufferedEnds
  <2>1. CASE err = "eof"
    <3>1. log'.status = status /\ log'.by = a /\ log'.code = ""
      BY <1>12, <2>1, Logged DEF BufferedEnds
    <3> QED
      BY <1>0, <1>12, <2>1, <3>1
        DEF BufferedEnds, Answers, Agrees, Uncommitted
  <2>2. CASE err # "eof"
    BY <1>0, <1>12, <2>2
      DEF BufferedEnds, Answers, Agrees, Uncommitted
  <2> QED BY <2>1, <2>2
<1>13. CASE Deliver
  <2>1. CASE RequestEnded
    BY <1>0, <1>13, <2>1, EndsUnsent DEF Deliver, Uncommitted
  <2>2. CASE WriteHeader(status, a, Len(attempts))
    <3>1. /\ headers' = 1 /\ sent' # None /\ sent'.status = status
          /\ sent'.by = a /\ sent'.attempts = Len(attempts)
      BY <1>0, <1>13, <2>2, FirstHeader DEF Deliver, Uncommitted
    <3>2. CASE UNCHANGED log
      BY <1>0, <1>13, <3>1, <3>2
        DEF Deliver, loopVars, Answers, Agrees, Uncommitted
    <3>3. CASE Log(status, "client_closed", a)
      <4>1. log'.status = status /\ log'.by = a
        BY <3>3, Logged
      <4> QED
        BY <1>0, <1>13, <3>1, <4>1
          DEF Deliver, loopVars, Answers, Agrees, Uncommitted
    <3>4. CASE RequestEnded
      BY <2>1, <3>4
    <3> QED BY <1>13, <3>2, <3>3, <3>4 DEF Deliver
  <2>3. CASE SendNothing /\ Log(status, "client_closed", a)
    <3>1. log'.code = "client_closed"
      BY <2>3, Logged
    <3> QED
      BY <1>0, <1>13, <2>3, <3>1 DEF Deliver, SendNothing, loopVars, Answers,
        Agrees, Uncommitted
  <2> QED BY <1>13, <2>1, <2>2, <2>3 DEF Deliver
<1>14. CASE AttemptFails
  <2>1. CASE RequestEnded /\ pc' = "done"
    BY <1>0, <1>14, <2>1, EndsUnsent DEF AttemptFails, Uncommitted
  <2>2. CASE /\ Log(503, "response_budget_exceeded", log.by)
             /\ WriteHeader(503, 0, 0) /\ pc' = "done"
    <3>1. log'.status = 503
      BY <2>2, Logged
    <3>2. headers' = 1 /\ sent' # None /\ sent'.status = 503 /\ sent'.by = 0
      <4>1. sent = None
        BY <1>0, <1>14 DEF AttemptFails, Uncommitted
      <4> QED BY <1>0, <2>2, <4>1, FirstHeader
    <3> QED BY <2>2, <3>1, <3>2 DEF Answers, Agrees, Uncommitted
  <2>3. CASE pc' = "loop" /\ UNCHANGED log /\ SendNothing
    BY <1>0, <1>14, <2>3 DEF AttemptFails, SendNothing, Answers,
      Agrees, Uncommitted
  <2> QED BY <1>14, <2>1, <2>2, <2>3 DEF AttemptFails
<1>15. ASSUME NEW s \in Statuses, Responds(s) \/ RespondsToRetry(s)
       PROVE  Answers'
  BY <1>0, <1>15 DEF Responds, RespondsToRetry, answerVars, loopVars, Answers,
    Agrees, Uncommitted
<1>16. CASE UNCHANGED <<streaming, pc, err, status, a, answerVars, attempts>>
  BY <1>0, <1>16 DEF answerVars, Answers, Agrees, Uncommitted
<1> QED
  BY <1>1, <1>2, <1>3, <1>4, <1>5, <1>6, <1>7, <1>8, <1>9, <1>10, <1>11,
    <1>12, <1>13, <1>14, <1>15, <1>16 DEF Next, HandlerStep, UpstreamStep,
    ReaderStep, ReadChunk, ReadEnd, ReadAborted, ReaderStops, Cancel, Expire,
    EndContext, Terminated, vars, loopVars

(* At first nothing was sent.                                              *)
LEMMA InitAnswers == Init => Answers
<1> SUFFICES ASSUME Init
             PROVE  Answers
  OBVIOUS
<1>1. /\ pc = "loop" /\ sent = None /\ headers = 0
      /\ log = [status |-> 0, code |-> "", by |-> 0]
  BY Zenon DEF Init
<1> QED BY <1>1 DEF Answers, Uncommitted, Agrees

(* Every client gets at most one header, and the log agrees with it.       *)
THEOREM OneTrueAnswer == Spec => []AnswerMatchesLog
<1>1. Init => Types /\ Answers
  BY InitTypes, InitAnswers
<1>2. Types /\ Answers /\ [Next]_vars => (Types /\ Answers)'
  BY TypesStep, AnswersStep
<1>3. Types /\ Answers => AnswerMatchesLog
  BY DEF Answers, Agrees, AnswerMatchesLog
<1> QED BY <1>1, <1>2, <1>3, PTL DEF Spec

(* Once something was sent the request stays with its upstream.            *)
THEOREM StaysWithUpstream == Spec => NoFailoverAfterCommit
<1>1. Init => Types /\ Answers
  BY InitTypes, InitAnswers
<1>2. Types /\ Answers /\ [Next]_vars => (Types /\ Answers)'
  BY TypesStep, AnswersStep
<1>3. Answers /\ [Next]_vars => [sent # None => a' = a]_vars
  <2> SUFFICES ASSUME Answers, Next, sent # None
               PROVE  a' = a
    BY DEF vars
  <2>1. ~NextUpstream
    BY DEF NextUpstream, Answers, Uncommitted
  <2> QED
    BY <2>1 DEF Next, HandlerStep, UpstreamStep, ReaderStep, StopEarly,
      GiveUp, RequestAborted, StreamReceive, StreamReceiveEnd,
      BufferedReceive, ClientWrite, Acknowledge, Flush, ContextEnds,
      CommittedStreamEnds, StreamFails, StreamAbandoned, BufferedEnds,
      Deliver, AttemptFails, TimerFires, RequestFails, Responds,
      RespondsToRetry, ReadChunk, ReadEnd, ReadAborted, ReaderStops, Cancel,
      Expire, EndContext, Terminated, vars
<1> QED BY <1>1, <1>2, <1>3, PTL DEF Spec, NoFailoverAfterCommit

-----------------------------------------------------------------------------
(* The causes of the error.                                                *)

AllAre(s, outcome) == \A i \in 1..Len(s) : s[i] = outcome

(* The attempts are as many as the upstreams tried, and the two flags say  *)
(* what is common to them.                                                 *)
Counted ==
  /\ pc \in {"loop", "deliver"} => Len(attempts) = a
  /\ pc \notin {"loop", "deliver", "done"} => Len(attempts) + 1 = a
Flags ==
  /\ allRated <=> (n > 0 /\ AllAre(attempts, "rated"))
  /\ allTimed <=> (n > 0 /\ AllAre(attempts, "timeout"))
Judged == pc \notin {"deliver", "done"} => Flags

Causes == Counted /\ Judged /\ ErrorNamesTheCause

(* A new outcome leaves those before it.                                   *)
LEMMA OneMoreOutcome ==
  ASSUME NEW S, NEW s \in Seq(S), NEW o \in S, NEW x
  PROVE  /\ Len(Append(s, o)) = Len(s) + 1
         /\ AllAre(Append(s, o), x) <=> (AllAre(s, x) /\ o = x)
<1>1. /\ Len(s) \in Nat /\ Len(Append(s, o)) = Len(s) + 1
      /\ \A i \in 1..Len(s) : Append(s, o)[i] = s[i]
      /\ Append(s, o)[Len(s) + 1] = o
  OBVIOUS
<1>2. ASSUME AllAre(Append(s, o), x)
      PROVE  AllAre(s, x) /\ o = x
  BY <1>1, <1>2 DEF AllAre
<1>3. ASSUME AllAre(s, x), o = x
      PROVE  AllAre(Append(s, o), x)
  BY <1>1, <1>3 DEF AllAre
<1> QED BY <1>1, <1>2, <1>3

(* Judging an attempt keeps the flags true.                                *)
LEMMA JudgeKeepsFlags ==
  ASSUME Types, Flags, NEW o \in {"rated", "timeout", "ok", "other"}, Judge(o),
         UNCHANGED n
  PROVE  Flags' /\ Len(attempts') = Len(attempts) + 1
<1>1. /\ attempts \in Seq({"rated", "timeout", "ok", "other"})
      /\ attempts' = Append(attempts, o)
  BY DEF Types, LogTypes, Judge
<1>2. /\ Len(attempts') = Len(attempts) + 1
      /\ AllAre(attempts', "rated")
           <=> (AllAre(attempts, "rated") /\ o = "rated")
      /\ AllAre(attempts', "timeout")
           <=> (AllAre(attempts, "timeout") /\ o = "timeout")
  BY <1>1, OneMoreOutcome
<1>3. /\ allRated' = (allRated /\ o = "rated")
      /\ allTimed' = (allTimed /\ o = "timeout")
  BY DEF Judge
<1>4. (n > 0)' = (n > 0)
  OBVIOUS
<1>5. allRated' <=> (n > 0 /\ AllAre(attempts, "rated"))'
  BY <1>2, <1>3, <1>4, Zenon DEF Flags
<1>6. allTimed' <=> (n > 0 /\ AllAre(attempts, "timeout"))'
  BY <1>2, <1>3, <1>4, Zenon DEF Flags
<1> QED BY <1>2, <1>5, <1>6 DEF Flags

(* An error that names another cause, or none, says nothing of them.       *)
Other == {"", "client_closed", "request_timeout", "stream_interrupted",
          "response_budget_exceeded"}

(* So it is no concern of ErrorNamesTheCause.                              *)
LEMMA OtherCause ==
  ASSUME log'.code \in Other, pc' = "done"
  PROVE  Causes'
BY DEF Other, Causes, Counted, Judged, ErrorNamesTheCause

(* The context is such a cause.                                            *)
LEMMA EndedCause ==
  ASSUME RequestEnded
  PROVE  log'.code \in Other
<1>1. CASE Log(499, "client_closed", log.by)
  <2>1. log'.code = "client_closed"
    BY <1>1, Logged
  <2> QED BY <2>1 DEF Other
<1>2. CASE Log(504, "request_timeout", log.by)
  <2>1. log'.code = "request_timeout"
    BY <1>2, Logged
  <2> QED BY <2>1 DEF Other
<1> QED BY <1>1, <1>2 DEF RequestEnded

(* Every step keeps count of the attempts.                                 *)
LEMMA CausesStep ==
  ASSUME Types, Uncommitted, Causes, [Next]_vars
  PROVE  Causes'
<1>0. /\ Len(attempts) \in Nat /\ a \in Nat /\ n \in Nat
      /\ attempts \in Seq({"rated", "timeout", "ok", "other"})
      /\ Outcome \in {"rated", "timeout", "ok", "other"}
  BY TriedUpstream DEF Types, LogTypes, Outcome
<1>1. CASE StopEarly
  BY <1>1, EndedCause, OtherCause DEF StopEarly
<1>2. CASE NextUpstream
  <2>1. pc = "loop" /\ pc' = "do" /\ a' = a + 1 /\ UNCHANGED attempts
    BY <1>2 DEF NextUpstream, loopVars
  <2>2. Counted'
    BY <1>0, <2>1 DEF Causes, Counted
  <2>3. Flags'
    <3>1. UNCHANGED <<n, allRated, allTimed, attempts>> /\ Flags
      BY <1>2 DEF NextUpstream, loopVars, Causes, Judged
    <3> QED BY <3>1 DEF Flags, AllAre
  <2> QED BY <2>1, <2>2, <2>3 DEF Causes, Judged, ErrorNamesTheCause
<1>3. CASE GiveUp
  <2>1. /\ pc = "loop" /\ pc' = "done" /\ a = n
        /\ UNCHANGED <<n, attempts, allRated, allTimed>>
    BY <1>3, Zenon DEF GiveUp, loopVars
  <2>2. Flags /\ Len(attempts) = n
    BY <2>1 DEF Causes, Counted, Judged
  <2>3. /\ All("rated") <=> (allRated = TRUE)
        /\ All("timeout") <=> (allTimed = TRUE)
    <3>1. /\ All("rated") <=> (n > 0 /\ AllAre(attempts, "rated"))
          /\ All("timeout") <=> (n > 0 /\ AllAre(attempts, "timeout"))
      BY <2>2, Zenon DEF All, AllAre
    <3>2. allRated \in BOOLEAN /\ allTimed \in BOOLEAN
      BY Zenon DEF Types, ControlTypes
    <3> QED BY <2>2, <3>1, <3>2, Zenon DEF Flags
  <2>4. UNCHANGED <<All("rated"), All("timeout")>>
    BY <2>1 DEF All
  <2>5. /\ allRated => log'.code = "rate_limit_exceeded"
        /\ ~allRated /\ allTimed => log'.code = "gateway_timeout"
        /\ ~allRated /\ ~allTimed => log'.code = "bad_gateway"
    <3>1. ASSUME allRated
          PROVE  log'.code = "rate_limit_exceeded"
      <4>1. Log(429, "rate_limit_exceeded", log.by)
        BY <1>3, <3>1 DEF GiveUp
      <4> QED BY <4>1, Logged
    <3>2. ASSUME ~allRated, allTimed
          PROVE  log'.code = "gateway_timeout"
      <4>1. Log(504, "gateway_timeout", log.by)
        BY <1>3, <3>2 DEF GiveUp
      <4> QED BY <4>1, Logged
    <3>3. ASSUME ~allRated, ~allTimed
          PROVE  log'.code = "bad_gateway"
      <4>1. Log(502, "bad_gateway", log.by)
        BY <1>3, <3>3 DEF GiveUp
      <4> QED BY <4>1, Logged
    <3> QED BY <3>1, <3>2, <3>3
  <2>6. ~(n > 0 /\ AllAre(attempts, "rated") /\ AllAre(attempts, "timeout"))
    BY <1>0, <2>2 DEF AllAre
  <2>7. ErrorNamesTheCause'
    BY <2>3, <2>4, <2>5 DEF ErrorNamesTheCause
  <2> QED BY <2>1, <2>7 DEF Causes, Counted, Judged
<1>4. CASE RequestFails \/ RequestAborted
  BY <1>4 DEF RequestFails, RequestAborted, loopVars, Causes, Counted, Judged,
    Flags, AllAre, ErrorNamesTheCause
<1>5. ASSUME NEW s \in Statuses, RespondsToRetry(s)
      PROVE  Causes'
  <2>1. PICK o \in {"rated", "timeout", "ok", "other"} : Judge(o)
    BY <1>5 DEF RespondsToRetry
  <2>2. pc = "do" /\ pc' = "loop" /\ UNCHANGED <<n, a>>
    BY <1>5 DEF RespondsToRetry
  <2>3. Flags' /\ Len(attempts') = Len(attempts) + 1
    BY <2>1, <2>2, JudgeKeepsFlags DEF Causes, Judged
  <2> QED
    BY <1>0, <2>2, <2>3 DEF Causes, Counted, Judged, ErrorNamesTheCause
<1>6. CASE CommittedStreamEnds
  <2>1. pc' = "done" /\ log'.code \in Other
    BY <1>6, Logged DEF CommittedStreamEnds, Other
  <2> QED BY <2>1, OtherCause
<1>7. CASE StreamFails \/ AttemptFails
  <2>1. /\ Judge(Outcome) /\ UNCHANGED <<n, a>>
        /\ pc \in {"ended", "failed"} /\ pc' \in {"loop", "done"}
        /\ pc' = "done" => log'.code \in Other
    <3>1. CASE StreamFails
      BY <3>1 DEF StreamFails
    <3>2. CASE AttemptFails
      <4>1. CASE RequestEnded
        BY <3>2, <4>1, EndedCause DEF AttemptFails
      <4>2. CASE Log(503, "response_budget_exceeded", log.by)
        <5>1. log'.code = "response_budget_exceeded"
          BY <4>2, Logged
        <5> QED BY <3>2, <5>1 DEF AttemptFails, Other
      <4>3. CASE pc' = "loop"
        BY <3>2, <4>3 DEF AttemptFails
      <4> QED BY <3>2, <4>1, <4>2, <4>3 DEF AttemptFails
    <3> QED BY <1>7, <3>1, <3>2
  <2>2. Flags' /\ Len(attempts') = Len(attempts) + 1
    BY <1>0, <2>1, JudgeKeepsFlags DEF Causes, Judged
  <2>3. CASE pc' = "loop"
    BY <1>0, <2>1, <2>2, <2>3
      DEF Causes, Counted, Judged, ErrorNamesTheCause
  <2> QED BY <2>1, <2>3, OtherCause
<1>8. CASE StreamAbandoned
  <2>1. pc' = "done" /\ log'.code \in Other
    <3>1. CASE Log(499, "client_closed", log.by)
      <4>1. log'.code = "client_closed"
        BY <3>1, Logged
      <4> QED BY <1>8, <4>1 DEF StreamAbandoned, Other
    <3> QED BY <1>8, <3>1, EndedCause DEF StreamAbandoned
  <2> QED BY <2>1, OtherCause
<1>9. CASE BufferedEnds
  <2>1. CASE err = "eof"
    <3>1. /\ pc = "ended" /\ pc' = "deliver" /\ UNCHANGED a
          /\ attempts' = Append(attempts, Outcome)
      BY <1>9, <2>1 DEF BufferedEnds
    <3>2. Len(attempts') = Len(attempts) + 1
      BY <1>0, <3>1, OneMoreOutcome
    <3> QED
      BY <1>0, <3>1, <3>2 DEF Causes, Counted, Judged, ErrorNamesTheCause
  <2>2. CASE err # "eof"
    <3>1. /\ pc = "ended" /\ pc' = "failed"
          /\ UNCHANGED <<n, a, attempts, allRated, allTimed>>
      BY <1>9, <2>2 DEF BufferedEnds
    <3> QED
      BY <3>1 DEF Causes, Counted, Judged, Flags, AllAre, ErrorNamesTheCause
  <2> QED BY <2>1, <2>2
<1>10. CASE Deliver
  <2>1. log.code = "" /\ pc' = "done"
    BY <1>10 DEF Deliver, Uncommitted
  <2>2. log'.code \in Other
    BY <1>10, <2>1, EndedCause, Logged DEF Deliver, Other
  <2> QED BY <2>1, <2>2, OtherCause
<1>11. CASE \/ StreamReceive \/ StreamReceiveEnd \/ BufferedReceive
            \/ ClientWrite \/ Acknowledge \/ Flush \/ ContextEnds
            \/ TimerFires \/ \E s \in Statuses : Responds(s)
  <2>1. /\ pc \in {"do", "select", "write", "drop", "ack", "flush"}
        /\ pc' \in {"select", "write", "drop", "ack", "flush", "ended"}
        /\ UNCHANGED <<n, a, attempts, allRated, allTimed>>
    BY <1>11 DEF StreamReceive, StreamReceiveEnd, BufferedReceive, Offered,
      ClientWrite, Acknowledge, Flush, GoOn, ContextEnds, TimerFires,
      Responds, loopVars
  <2> QED
    BY <2>1 DEF Causes, Counted, Judged, Flags, AllAre, ErrorNamesTheCause
<1>12. CASE UNCHANGED <<n, a, pc, attempts, allRated, allTimed, log>>
  <2>1. UNCHANGED <<All("rated"), All("timeout")>>
    BY <1>12 DEF All
  <2> QED
    BY <1>12, <2>1
      DEF Causes, Counted, Judged, Flags, AllAre, ErrorNamesTheCause
<1> QED
  BY <1>1, <1>2, <1>3, <1>4, <1>5, <1>6, <1>7, <1>8, <1>9, <1>10, <1>11, <1>12
    DEF Next, HandlerStep, UpstreamStep, ReaderStep, ReadChunk, ReadEnd,
    ReadAborted, ReaderStops, Cancel, Expire, EndContext, Terminated, vars,
    answerVars, loopVars

(* At first there are none.                                                *)
LEMMA InitCauses == Init => Causes
<1> SUFFICES ASSUME Init
             PROVE  Causes
  OBVIOUS
<1>1. /\ pc = "loop" /\ a = 0 /\ attempts = <<>>
      /\ allRated = (n > 0) /\ allTimed = (n > 0)
  BY Zenon DEF Init
<1>2. AllAre(attempts, "rated") /\ AllAre(attempts, "timeout")
  BY <1>1 DEF AllAre
<1>3. Flags
  BY <1>1, <1>2, Zenon DEF Flags
<1> QED BY <1>1, <1>3 DEF Causes, Counted, Judged, ErrorNamesTheCause

(* The error a client is told names a cause that all upstreams share.      *)
THEOREM CauseIsShared == Spec => []ErrorNamesTheCause
<1>1. Init => Types /\ Answers /\ Causes
  BY InitTypes, InitAnswers, InitCauses
<1>2. Types /\ Answers /\ Causes /\ [Next]_vars
        => (Types /\ Answers /\ Causes)'
  BY TypesStep, AnswersStep, CausesStep DEF Answers
<1>3. Causes => ErrorNamesTheCause
  BY DEF Causes
<1> QED BY <1>1, <1>2, <1>3, PTL DEF Spec

(* The client is told one thing, the log says the same, and the error it   *)
(* is told is the one that explains all the attempts.                      *)
THEOREM TrueAnswer == Spec => []AnswerIsTrue
BY OneTrueAnswer, CauseIsShared, PTL DEF AnswerIsTrue

-----------------------------------------------------------------------------
(***************************************************************************)
(* Proofs about GatewayProxy: what a client receives is the body of one    *)
(* upstream from its beginning without a gap, whatever the number of       *)
(* upstreams and of reads.                                                 *)
(*                                                                         *)
(* The argument.  The handler and the reader of its attempt share one      *)
(* buffer.  HandOver says whose turn it is: the reader fills the buffer    *)
(* only when everything it filled before has been taken, because it waits  *)
(* for the acknowledgement.  So the chunk in the buffer is always either   *)
(* the last one taken or the next one due.                                 *)
(***************************************************************************)

(* What was taken over from the attempt at hand.                           *)
Body == IF streaming THEN got ELSE content
Taken == Len(Body)

(* The reader of that attempt, its buffer and its offer.                   *)
Turn == reader[a]
Fill == filled[a]
OfferErr == offer[a].err
OfferMore == offer[a].more

(* The handler goes on after the acknowledgement.                          *)
GoesOn == pc = "select" \/ (pc = "flush" /\ err = "none")
(* It knows that nothing more will come.                                   *)
HasAll == (pc = "flush" /\ err # "none") \/ (pc = "ended" /\ err = "eof")

(* Whose turn it is, and what lies in the buffer then.                     *)
HandOver ==
  /\ pc \in {"write", "ack", "drop"} => Turn = "ack"
  /\ pc \in {"write", "ack"} => err = OfferErr
  /\ pc = "write" => Fill = Taken + 1
  /\ pc = "ack" => Fill = Taken
  /\ GoesOn => \/ Turn = "read" /\ Fill = Taken
               \/ Turn = "offer" /\ OfferMore /\ Fill = Taken + 1
               \/ Turn = "offer" /\ ~OfferMore /\ Fill = Taken
  /\ HasAll => Turn = "gone" /\ Fill = Taken

(* What was taken over is a prefix of the body of b.                       *)
InOrder(s, b) == \A i \in 1..Len(s) : s[i] = <<b, i>>

(* What the handler took over and the client received.                     *)
Relayed ==
  /\ InOrder(Body, a)
  /\ pc = "do" => Body = <<>>
  /\ streaming /\ sent = None => got = <<>>
  /\ ~streaming /\ pc # "done" => got = <<>>
  /\ ~streaming => got \in {<<>>, content}

Chunks == Upstreams \X (1..MaxChunks)

(* The next chunk continues the body.                                      *)
LEMMA NextChunk ==
  ASSUME NEW s \in Seq(Chunks), NEW b \in Upstreams, InOrder(s, b),
         NEW c \in 1..MaxChunks, c = Len(s) + 1
  PROVE  /\ InOrder(Append(s, <<b, c>>), b)
         /\ Len(Append(s, <<b, c>>)) = Len(s) + 1
<1>1. <<b, c>> \in Chunks
  BY DEF Chunks
<1>2. /\ Len(s) \in Nat
      /\ Len(Append(s, <<b, c>>)) = Len(s) + 1
      /\ \A i \in 1..Len(s) : Append(s, <<b, c>>)[i] = s[i]
      /\ Append(s, <<b, c>>)[Len(s) + 1] = <<b, c>>
  BY <1>1
<1>3. ASSUME NEW i \in 1..(Len(s) + 1)
      PROVE  Append(s, <<b, c>>)[i] = <<b, i>>
  <2>1. CASE i \in 1..Len(s)
    BY <1>2, <2>1 DEF InOrder
  <2>2. CASE i = Len(s) + 1
    BY <1>2, <2>2
  <2> QED BY <1>2, <2>1, <2>2
<1> QED BY <1>2, <1>3 DEF InOrder

(* The types of what the handler looks at during an attempt.               *)
LEMMA Attempt ==
  ASSUME Types
  PROVE  /\ got \in Seq(Chunks) /\ content \in Seq(Chunks)
         /\ Body \in Seq(Chunks) /\ Taken \in Nat
         /\ pc \notin {"loop", "done"} =>
              /\ a \in Upstreams /\ Fill \in 0..MaxChunks /\ Fill \in Nat
              /\ OfferMore \in BOOLEAN
<1>1. /\ got \in Seq(Chunks) /\ content \in Seq(Chunks)
      /\ Body \in Seq(Chunks)
  BY DEF Types, BodyTypes, Chunks, Body
<1>2. Taken \in Nat
  BY <1>1 DEF Taken
<1>3. ASSUME pc \notin {"loop", "done"}
      PROVE  /\ a \in Upstreams /\ Fill \in 0..MaxChunks
             /\ OfferMore \in BOOLEAN
  BY <1>3, TriedUpstream DEF Types, ReaderTypes, Fill, OfferMore
<1>4. \A m \in 0..MaxChunks : m \in Nat
  BY ProxyAssumption DEF ProxyAssumption
<1> QED BY <1>1, <1>2, <1>3, <1>4

(* What a step leaves alone stays as it is:                                *)
LEMMA BodyStays ==
  ASSUME UNCHANGED <<streaming, got, content>>
  PROVE  UNCHANGED <<Body, Taken>>
BY DEF Body, Taken

(* the body, and the buffer.                                               *)
LEMMA BufferStays ==
  ASSUME UNCHANGED <<a, bufferVars>>
  PROVE  UNCHANGED <<Fill, OfferErr, OfferMore>>
BY DEF bufferVars, Fill, OfferErr, OfferMore

(* Every step keeps the turns of the handler and the reader.               *)
LEMMA HandOverStep ==
  ASSUME Types, HandOver, Relayed, [Next]_vars
  PROVE  HandOver'
<1>0. /\ Taken \in Nat
      /\ pc \notin {"loop", "done"} => a \in Upstreams /\ Fill \in Nat
  BY Attempt
<1>1. CASE pc' \in {"loop", "do", "failed", "deliver", "done"}
  BY <1>1 DEF HandOver, GoesOn, HasAll
<1>2. ASSUME NEW s \in Statuses, Responds(s)
      PROVE  HandOver'
  <2>1. pc' = "select" /\ Turn' = "read"
    BY <1>0, <1>2 DEF Responds, Turn, Types, ReaderTypes
  <2>2. UNCHANGED <<Fill, Taken>>
    BY <1>2, BodyStays, BufferStays DEF Responds, answerVars
  <2>3. Fill = 0
    BY <1>0, <1>2 DEF Responds, Fill, Types, Place, Readers
  <2>4. Taken = 0
    BY <1>2 DEF Responds, Taken, Relayed
  <2> QED BY <2>1, <2>2, <2>3, <2>4 DEF HandOver, GoesOn, HasAll
<1>3. CASE StreamReceive
  <2>1. /\ pc = "select" /\ Turn = "offer" /\ OfferMore
        /\ UNCHANGED <<Fill, OfferErr, Taken>>
    BY <1>3, BodyStays, BufferStays
      DEF StreamReceive, Offered, HasBytes, Turn, OfferMore
  <2>2. /\ Turn' = "ack"
        /\ \/ pc' = "write" /\ err' = OfferErr
           \/ pc' = "ended" /\ err' = "client"
    BY <1>0, <1>3 DEF StreamReceive, Offered, AwaitsAck, Turn, OfferErr, Types,
      ReaderTypes
  <2> QED BY <2>1, <2>2 DEF HandOver, GoesOn, HasAll
<1>4. CASE StreamReceiveEnd
  <2>1. /\ pc = "select" /\ Turn = "offer" /\ ~OfferMore
        /\ UNCHANGED <<Fill, Taken>>
    BY <1>4, BodyStays DEF StreamReceiveEnd, Offered, HasBytes, Turn,
      OfferMore, bufferVars, Fill
  <2>2. Turn' = "gone" /\ pc' = "ended"
    BY <1>0, <1>4
      DEF StreamReceiveEnd, Offered, Turn, Types, ReaderTypes
  <2> QED BY <2>1, <2>2 DEF HandOver, GoesOn, HasAll
<1>5. CASE ClientWrite
  <2>1. /\ pc = "write" /\ streaming
        /\ UNCHANGED <<Turn, Fill, OfferErr, err>>
    BY <1>5, BufferStays DEF ClientWrite, readerVars, Turn, Types, Place
  <2>2. CASE pc' = "ack" /\ got' = Append(got, <<a, filled[a]>>)
    <3>1. /\ Fill \in 1..MaxChunks /\ Fill = Taken + 1 /\ Taken = Len(got)
          /\ InOrder(got, a)
      <4>1. Fill = Taken + 1 /\ Fill \in 0..MaxChunks
        BY <1>0, <2>1, Attempt DEF HandOver
      <4> QED
        BY <1>0, <2>1, <4>1, ProxyAssumption
          DEF Taken, Body, Relayed, ProxyAssumption
    <3>2. Len(got') = Taken + 1
      BY <1>0, <2>1, <2>2, <3>1, NextChunk, Attempt DEF Fill
    <3>3. Taken' = Taken + 1
      BY <1>5, <2>1, <3>2 DEF ClientWrite, Taken, Body
    <3> QED BY <2>1, <2>2, <3>1, <3>3 DEF HandOver, GoesOn, HasAll
  <2>3. CASE pc' = "drop"
    BY <2>1, <2>3 DEF HandOver, GoesOn, HasAll
  <2> QED BY <1>5, <2>2, <2>3 DEF ClientWrite
<1>6. CASE BufferedReceive
  <2>1. /\ pc = "select" /\ Turn = "offer" /\ ~streaming
        /\ UNCHANGED <<Fill, OfferErr>>
    BY <1>6, BufferStays DEF BufferedReceive, Offered, Turn
  <2>2. Turn' = "ack"
    BY <1>0, <1>6
      DEF BufferedReceive, Offered, AwaitsAck, Turn, Types, ReaderTypes
  <2>3. CASE pc' = "ended" /\ err' \in {"budget", "error"}
    BY <2>3 DEF HandOver, GoesOn, HasAll
  <2>4. CASE /\ pc' = "ack" /\ err' = offer[a].err
             /\ content' = IF HasBytes THEN Append(content, <<a, filled[a]>>)
                                       ELSE content
    <3>1. Taken' = Fill
      <4>1. Taken' = Len(content') /\ Taken = Len(content)
            /\ InOrder(content, a)
        BY <1>6, <2>1 DEF BufferedReceive, Taken, Body, Relayed
      <4>2. CASE ~HasBytes
        BY <2>1, <2>4, <4>1, <4>2 DEF HandOver, GoesOn, HasBytes, OfferMore
      <4>3. CASE HasBytes
        <5>1. Fill = Taken + 1 /\ Fill \in 0..MaxChunks
          BY <1>0, <2>1, <4>3, Attempt
            DEF HandOver, GoesOn, HasBytes, OfferMore
        <5>2. Fill \in 1..MaxChunks
          BY <1>0, <5>1, ProxyAssumption DEF ProxyAssumption
        <5>3. content' = Append(content, <<a, Fill>>)
          BY <2>4, <4>3 DEF Fill
        <5> QED
          BY <1>0, <2>1, <4>1, <5>1, <5>2, <5>3, NextChunk, Attempt
      <4> QED BY <4>2, <4>3
    <3> QED BY <2>1, <2>2, <2>4, <3>1 DEF HandOver, GoesOn, HasAll, OfferErr
  <2> QED BY <1>6, <2>3, <2>4 DEF BufferedReceive
<1>7. CASE Acknowledge
  <2>1. /\ pc \in {"ack", "drop"} /\ Turn = "ack"
        /\ UNCHANGED <<Fill, OfferErr, OfferMore, Taken>>
    BY <1>7, BodyStays, BufferStays DEF Acknowledge, answerVars, Turn
  <2>2. /\ OfferErr = "none" => Turn' = "read"
        /\ OfferErr # "none" => Turn' = "gone"
    BY <1>0, <1>7 DEF Acknowledge, Turn, OfferErr, Types, ReaderTypes
  <2>3. CASE pc = "drop"
    BY <1>7, <2>3 DEF Acknowledge, HandOver, GoesOn, HasAll
  <2>4. CASE pc = "ack"
    <3>1. pc' \in {"flush", "select", "ended"} /\ UNCHANGED err
          /\ (pc' = "select" => err = "none")
          /\ (pc' = "ended" => err # "none")
      BY <1>7, <2>4 DEF Acknowledge, GoOn
    <3> QED BY <2>1, <2>2, <2>4, <3>1 DEF HandOver, GoesOn, HasAll
  <2> QED BY <2>1, <2>3, <2>4
<1>8. CASE Flush
  <2>1. pc = "flush" /\ UNCHANGED <<Turn, Fill, OfferMore, Taken>>
    BY <1>8, BodyStays, BufferStays DEF Flush, answerVars, readerVars, Turn
  <2>2. \/ pc' = "select" /\ err = "none"
        \/ pc' = "ended" /\ err # "none" /\ UNCHANGED err
        \/ pc' = "ended" /\ err' = "client"
    BY <1>8 DEF Flush, GoOn
  <2> QED BY <2>1, <2>2 DEF HandOver, GoesOn, HasAll
<1>9. CASE TimerFires \/ ContextEnds
  BY <1>9 DEF TimerFires, ContextEnds, HandOver, GoesOn, HasAll
<1>10. ASSUME NEW b \in Upstreams,
              ReadChunk(b) \/ ReadEnd(b) \/ ReaderStep(b)
       PROVE  HandOver'
  <2>1. UNCHANGED <<pc, err, a, Taken>>
    BY <1>10, BodyStays DEF ReadChunk, ReadEnd, ReaderStep, ReadAborted,
      ReaderStops, answerVars
  <2>2. CASE pc \in {"loop", "do", "failed", "deliver", "done"}
    BY <1>1, <2>1, <2>2
  <2>3. CASE pc \notin {"loop", "do", "failed", "deliver", "done"} /\ b # a
    <3>1. UNCHANGED <<Turn, Fill, OfferErr, OfferMore>>
      BY <1>0, <1>10, <2>1, <2>3 DEF ReadChunk, ReadEnd, ReaderStep,
        ReadAborted, ReaderStops, Offer, bufferVars, Turn, Fill, OfferErr,
        OfferMore, Types, ReaderTypes
    <3> QED BY <2>1, <3>1 DEF HandOver, GoesOn, HasAll
  <2>4. CASE pc \notin {"loop", "do", "failed", "deliver", "done"} /\ b = a
    <3>1. CASE ReadChunk(b)
      <4>1. Turn = "read" /\ Turn' = "offer" /\ OfferMore' /\ Fill' = Fill + 1
        BY <1>0, <2>1, <2>4, <3>1 DEF ReadChunk, Offer, Turn, OfferMore, Fill,
          Types, ReaderTypes
      <4> QED BY <2>1, <4>1 DEF HandOver, GoesOn, HasAll
    <3>2. CASE ReadEnd(b) \/ ReadAborted(b)
      <4>1. Turn = "read" /\ Turn' = "offer" /\ ~OfferMore' /\ Fill' = Fill
        BY <1>0, <2>1, <2>4, <3>2 DEF ReadEnd, ReadAborted, Offer, Turn,
          OfferMore, Fill, Types, ReaderTypes
      <4> QED BY <2>1, <4>1 DEF HandOver, GoesOn, HasAll
    <3>3. CASE ReaderStops(b)
      <4>1. pc = "ended" /\ Turn \in {"offer", "ack"}
        BY <1>0, <2>1, <2>4, <3>3, TriedUpstream
          DEF ReaderStops, Stops, Left, Turn, Types
      <4> QED BY <2>1, <4>1 DEF HandOver, GoesOn, HasAll
    <3> QED BY <1>10, <3>1, <3>2, <3>3 DEF ReaderStep
  <2> QED BY <2>2, <2>3, <2>4
<1>11. CASE Cancel \/ Expire \/ UNCHANGED vars
  <2>1. UNCHANGED <<pc, err, Turn, Fill, OfferErr, OfferMore, Taken>>
    BY <1>11, BodyStays, BufferStays DEF Cancel, Expire, EndContext, vars,
      answerVars, readerVars, Turn
  <2> QED BY <2>1 DEF HandOver, GoesOn, HasAll
<1> QED
  BY <1>1, <1>2, <1>3, <1>4, <1>5, <1>6, <1>7, <1>8, <1>9, <1>10, <1>11
    DEF Next, HandlerStep, UpstreamStep, Terminated, StopEarly, NextUpstream,
    GiveUp, RequestAborted, CommittedStreamEnds, StreamFails, StreamAbandoned,
    BufferedEnds, Deliver, AttemptFails, RequestFails, RespondsToRetry

(* An empty body is in order.                                              *)
LEMMA EmptyInOrder ==
  ASSUME NEW b
  PROVE  InOrder(<<>>, b)
BY DEF InOrder

(* Every other step leaves alone what was taken over.                      *)
LEMMA RelayedStays ==
  ASSUME Relayed, UNCHANGED <<streaming, a, got, content>>,
         pc' = "do" => pc = "do", pc = "done" => pc' = "done",
         sent' = None => sent = None
  PROVE  Relayed'
<1>1. UNCHANGED Body
  BY DEF Body
<1> QED BY <1>1 DEF Relayed, InOrder

(* Every step keeps the body in order.                                     *)
LEMMA RelayedStep ==
  ASSUME Types, Answers, HandOver, Relayed, [Next]_vars
  PROVE  Relayed'
<1>1. CASE NextUpstream
  <2>1. /\ pc = "loop" /\ pc' = "do" /\ content' = <<>>
        /\ UNCHANGED <<streaming, got, sent>>
    BY <1>1 DEF NextUpstream, answerVars
  <2>2. got = <<>>
    BY <2>1 DEF Answers, Uncommitted, Relayed
  <2>3. Body' = <<>>
    BY <2>1, <2>2 DEF Body
  <2>4. InOrder(Body, a)'
    BY <2>3, EmptyInOrder
  <2> QED BY <2>1, <2>2, <2>3, <2>4 DEF Relayed
<1>2. CASE ClientWrite
  <2>1. /\ pc = "write" /\ streaming /\ sent # None
        /\ pc' \in {"ack", "drop"} /\ UNCHANGED <<streaming, a, sent>>
        /\ got' \in {got, Append(got, <<a, Fill>>)}
    BY <1>2 DEF ClientWrite, Fill, Types, Place, Answers, Uncommitted
  <2>2. Body = got /\ Body' = got' /\ InOrder(got, a)
    BY <2>1 DEF Body, Relayed
  <2>3. InOrder(Append(got, <<a, Fill>>), a)
    <3>1. Fill = Len(got) + 1 /\ Fill \in 0..MaxChunks /\ a \in Upstreams
          /\ Len(got) \in Nat /\ got \in Seq(Chunks)
      BY <2>1, <2>2, Attempt DEF HandOver, Taken
    <3>2. Fill \in 1..MaxChunks
      BY <3>1, ProxyAssumption DEF ProxyAssumption
    <3> QED BY <2>2, <3>1, <3>2, NextChunk
  <2>4. InOrder(Body, a)'
    <3>1. InOrder(got', a)
      BY <2>1, <2>2, <2>3
    <3> QED BY <2>1, <2>2, <3>1
  <2> QED BY <2>1, <2>4 DEF Relayed
<1>3. CASE BufferedReceive
  <2>1. /\ pc = "select" /\ Turn = "offer" /\ ~streaming /\ got = <<>>
        /\ pc' \in {"ack", "ended"} /\ UNCHANGED <<streaming, a, got>>
        /\ \/ UNCHANGED content
           \/ OfferMore /\ content' = Append(content, <<a, Fill>>)
    BY <1>3 DEF BufferedReceive, Offered, HasBytes, answerVars, Fill, Turn,
      OfferMore, Relayed
  <2>2. Body = content /\ Body' = content' /\ InOrder(content, a)
    BY <2>1 DEF Body, Relayed
  <2>3. ASSUME OfferMore
        PROVE  InOrder(Append(content, <<a, Fill>>), a)
    <3>1. Fill = Len(content) + 1 /\ Fill \in 0..MaxChunks /\ a \in Upstreams
          /\ Len(content) \in Nat /\ content \in Seq(Chunks)
      BY <2>1, <2>2, <2>3, Attempt DEF HandOver, GoesOn, Taken
    <3>2. Fill \in 1..MaxChunks
      BY <3>1, ProxyAssumption DEF ProxyAssumption
    <3> QED BY <2>2, <3>1, <3>2, NextChunk
  <2>4. InOrder(Body, a)'
    <3>1. InOrder(content', a)
      BY <2>1, <2>2, <2>3
    <3> QED BY <2>1, <2>2, <3>1
  <2> QED BY <2>1, <2>4 DEF Relayed
<1>4. CASE Deliver
  <2>1. /\ ~streaming /\ pc' = "done" /\ UNCHANGED <<streaming, a, content>>
        /\ got' \in {got, <<>>, content}
    BY <1>4 DEF Deliver, Types, Place
  <2>2. UNCHANGED Body
    BY <2>1 DEF Body
  <2>3. InOrder(Body, a)'
    BY <2>1, <2>2 DEF Relayed
  <2> QED BY <2>1, <2>3 DEF Relayed
<1>5. CASE StreamReceive \/ StreamReceiveEnd
  <2>1. /\ UNCHANGED <<streaming, a, got, content>>
        /\ pc = "select" /\ pc' \in {"write", "ended"}
        /\ sent' = None => sent = None
    BY <1>5 DEF StreamReceive, StreamReceiveEnd, Offered, WriteHeader,
      SendNothing
  <2> QED BY <2>1, RelayedStays
<1>6. CASE StopEarly \/ GiveUp \/ StreamAbandoned \/ AttemptFails
  <2>1. /\ UNCHANGED <<streaming, a, got, content>>
        /\ pc # "done" /\ pc' \in {"loop", "done"}
    BY <1>6 DEF StopEarly, GiveUp, StreamAbandoned, AttemptFails
  <2>2. sent' = None => sent = None
    <3>1. ASSUME NEW s, NEW by, NEW count, WriteHeader(s, by, count)
          PROVE  sent' = None => sent = None
      BY <3>1 DEF WriteHeader
    <3>2. SendNothing => (sent' = None => sent = None)
      BY DEF SendNothing
    <3>3. RequestEnded => (sent' = None => sent = None)
      BY <3>1, <3>2 DEF RequestEnded
    <3> QED
      BY <1>6, <3>1, <3>2, <3>3
        DEF StopEarly, GiveUp, StreamAbandoned, AttemptFails
  <2> QED BY <2>1, <2>2, RelayedStays
<1>7. CASE \/ RequestAborted \/ Acknowledge \/ Flush \/ ContextEnds
           \/ CommittedStreamEnds \/ StreamFails \/ BufferedEnds
           \/ RequestFails \/ TimerFires
  <2>1. /\ UNCHANGED <<streaming, a, got, content, sent>>
        /\ pc # "done"
    BY <1>7 DEF RequestAborted, Acknowledge, Flush, ContextEnds,
      CommittedStreamEnds, StreamFails, BufferedEnds, RequestFails,
      TimerFires, answerVars
  <2>2. pc' # "do"
    BY <1>7 DEF RequestAborted, Acknowledge, Flush, ContextEnds, GoOn,
      CommittedStreamEnds, StreamFails, BufferedEnds, RequestFails, TimerFires
  <2> QED BY <2>1, <2>2, RelayedStays
<1>8. ASSUME NEW s \in Statuses, Responds(s) \/ RespondsToRetry(s)
      PROVE  Relayed'
  BY <1>8, RelayedStays DEF Responds, RespondsToRetry, answerVars
<1>9. ASSUME NEW b \in Upstreams,
              ReadChunk(b) \/ ReadEnd(b) \/ ReaderStep(b)
       PROVE  Relayed'
  BY <1>9, RelayedStays DEF ReadChunk, ReadEnd, ReaderStep, ReadAborted,
    ReaderStops, answerVars
<1>10. CASE Cancel \/ Expire \/ UNCHANGED vars
  BY <1>10, RelayedStays DEF Cancel, Expire, EndContext, vars, answerVars
<1> QED
  BY <1>1, <1>2, <1>3, <1>4, <1>5, <1>6, <1>7, <1>8, <1>9, <1>10
    DEF Next, HandlerStep, UpstreamStep, Terminated

(* The initial state.                                                      *)
LEMMA InitRelayed == Init => HandOver /\ Relayed
<1> SUFFICES ASSUME Init
             PROVE  HandOver /\ Relayed
  OBVIOUS
<1>1. pc = "loop" /\ content = <<>> /\ got = <<>>
  BY Zenon DEF Init
<1>2. Body = <<>>
  BY <1>1 DEF Body
<1>3. InOrder(Body, a)
  BY <1>2, EmptyInOrder
<1> QED BY <1>1, <1>3 DEF HandOver, GoesOn, HasAll, Relayed

IInv == Types /\ Answers /\ HandOver /\ Relayed

(* The invariant holds.                                                    *)
LEMMA IInvHolds == Spec => []IInv
<1>1. Init => IInv
  BY InitTypes, InitAnswers, InitRelayed DEF IInv
<1>2. IInv /\ [Next]_vars => IInv'
  BY TypesStep, AnswersStep, HandOverStep, RelayedStep DEF IInv
<1> QED BY <1>1, <1>2, PTL DEF Spec

(* The client receives a prefix of one upstream's body: no chunk is lost,  *)
(* repeated, overwritten in the shared buffer, or of another upstream.     *)
THEOREM NoGapNoMix == Spec => []BytesInOrder
<1>1. IInv => BytesInOrder
  <2> SUFFICES ASSUME IInv
               PROVE  BytesInOrder
    OBVIOUS
  <2>1. CASE got = <<>>
    <3>1. 1 \in Upstreams
      BY ProxyAssumption DEF ProxyAssumption, Upstreams
    <3>2. InOrder(got, 1)
      BY <2>1, EmptyInOrder
    <3> QED BY <3>1, <3>2 DEF InOrder, BytesInOrder
  <2>2. CASE got # <<>>
    <3>1. got = Body
      BY <2>2 DEF IInv, Relayed, Body
    <3>2. InOrder(got, a)
      BY <3>1 DEF IInv, Relayed
    <3>3. a \in Upstreams
      <4>1. got \in Seq(Chunks) /\ a \in 0..MaxAttempts /\ 1 \in 1..Len(got)
        BY <2>2, Attempt, TriedUpstream DEF IInv, Types
      <4>2. got[1] = <<a, 1>> /\ got[1] \in Chunks
        BY <3>2, <4>1 DEF InOrder
      <4> QED BY <4>2 DEF Chunks
    <3> QED BY <3>2, <3>3 DEF InOrder, BytesInOrder
  <2> QED BY <2>1, <2>2
<1> QED BY <1>1, IInvHolds, PTL

-----------------------------------------------------------------------------
(* The scores.                                                             *)

Bad == {"error", "timeout", "incomplete"}
Active == pc \in {"select", "write", "ack", "drop", "flush"}

(* A reader that has nothing to hand over has offered no error.            *)
Silent ==
  \A b \in Upstreams : reader[b] \in {"none", "read"} => offer[b].err = "none"

(* What the reader of the attempt offers tells whose fault it is.          *)
Offers ==
  Active =>
    /\ OfferErr \in {"none", "eof", "context"} \cup Bad
    /\ OfferErr \in Bad /\ ctx = "live" => a \in guilty
    /\ OfferErr = "context" => ctx # "live"
    /\ a \in guilty => OfferErr \in Bad
    /\ Turn = "offer" /\ ~OfferMore => OfferErr # "none"

(* And so does the result of the attempt.                                  *)
Untried == \A b \in Upstreams : b > a => b \notin guilty
Results ==
  /\ pc = "do" => a \notin guilty
  /\ pc = "flush" /\ err # "none" => err = OfferErr
  /\ pc \in {"ended", "failed"} =>
       /\ err # "none"
       /\ err \in Bad /\ ctx = "live" => a \in guilty
       /\ err = "context" => ctx # "live"
       /\ err = "eof" => a \notin guilty /\ pc = "ended"
       /\ err = "budget" => ~streaming
       /\ err = "client" => streaming /\ pc = "ended"

Scored ==
  \A b \in Upstreams :
    /\ <<b, "failure">> \in scored => b \in guilty
    /\ <<b, "success">> \in scored =>
         /\ b = a /\ pc \in {"deliver", "done"}
         /\ a \notin guilty /\ Turn = "gone" /\ Fill = Taken

Fault == Silent /\ Offers /\ Untried /\ Results /\ Scored

(* Every step keeps it so.                                                 *)
LEMMA SilentStep ==
  ASSUME Types, Silent, [Next]_vars
  PROVE  Silent'
<1>0. pc \notin {"loop", "done"} => a \in Upstreams
  BY TriedUpstream DEF Types
<1>1. CASE StreamReceive \/ StreamReceiveEnd \/ BufferedReceive \/ Acknowledge
  BY <1>0, <1>1 DEF StreamReceive, StreamReceiveEnd, BufferedReceive,
    Acknowledge, Offered, AwaitsAck, bufferVars, Silent, Types, ReaderTypes
<1>2. ASSUME NEW s \in Statuses, Responds(s)
      PROVE  Silent'
  BY <1>0, <1>2
    DEF Responds, bufferVars, Silent, Types, ReaderTypes, Place
<1>3. ASSUME NEW b \in Upstreams, ReadChunk(b) \/ ReadEnd(b) \/ ReaderStep(b)
      PROVE  Silent'
  BY <1>3 DEF ReadChunk, ReadEnd, ReaderStep, ReadAborted, ReaderStops, Offer,
    bufferVars, Silent, Types, ReaderTypes
<1>4. CASE UNCHANGED readerVars
  BY <1>4 DEF readerVars, bufferVars, Silent
<1> QED
  BY <1>1, <1>2, <1>3, <1>4 DEF Next, HandlerStep, UpstreamStep, StopEarly,
    NextUpstream, GiveUp, RequestAborted, ClientWrite, Flush, ContextEnds,
    TimerFires, CommittedStreamEnds, BufferedEnds, StreamFails, AttemptFails,
    StreamAbandoned, Deliver, RequestFails, RespondsToRetry, Cancel, Expire,
    EndContext, Terminated, vars

(* A reader blames its own upstream, and only while its attempt goes on.   *)
LEMMA Blamed ==
  ASSUME Types, NEW b \in Upstreams, NEW e, BlameForEnd(b, e)
  PROVE  /\ \/ UNCHANGED guilty
            \/ guilty' = guilty \cup {b} /\ ~Left(b)
         /\ (e \in Bad /\ ctx = "live" /\ ~Left(b)) => b \in guilty'
         /\ e \notin Bad => UNCHANGED guilty
BY DEF BlameForEnd, Blame, Bad

(* What can come of a read.                                                *)
LEMMA ReadOffers ==
  ASSUME NEW b \in Upstreams, NEW last, NEW e \in {"none"} \cup Ends(b, last)
  PROVE  e \in {"none", "eof"} \cup Bad
BY DEF Ends, Bad

(* Every step keeps offers and guilt in agreement.                         *)
LEMMA OffersStep ==
  ASSUME Types, Silent, Offers, Results, [Next]_vars
  PROVE  Offers'
<1>0. pc \notin {"loop", "done"} => a \in Upstreams
  BY Attempt
<1>1. CASE pc' \notin {"select", "write", "ack", "drop", "flush"}
  BY <1>1 DEF Offers, Active
<1>2. ASSUME NEW s \in Statuses, Responds(s)
      PROVE  Offers'
  <2>1. pc = "do" /\ Turn' = "read" /\ UNCHANGED <<OfferErr, guilty, a>>
    BY <1>0, <1>2, BufferStays DEF Responds, Turn, Types, ReaderTypes
  <2>2. OfferErr = "none" /\ a \notin guilty
    BY <1>0, <2>1 DEF Silent, OfferErr, Types, Place, Results
  <2> QED BY <2>1, <2>2 DEF Offers, Active, Bad
<1>3. CASE StreamReceive \/ ClientWrite \/ Acknowledge \/ Flush
  <2>1. Active /\ UNCHANGED <<OfferErr, ctx, guilty, a>>
    BY <1>3, BufferStays DEF StreamReceive, ClientWrite, Acknowledge, Flush,
      Offered, readerVars, Active
  <2>2. Turn' = "offer" => Turn = "offer" /\ UNCHANGED OfferMore
    BY <1>0, <1>3, BufferStays DEF StreamReceive, ClientWrite, Acknowledge,
      Flush, Offered, AwaitsAck, readerVars, Turn, Types, ReaderTypes
  <2> QED BY <2>1, <2>2 DEF Offers
<1>4. CASE BufferedReceive
  <2>1. Active /\ UNCHANGED <<OfferErr, ctx, a>> /\ Turn' = "ack"
    BY <1>0, <1>4, BufferStays DEF BufferedReceive, Offered, AwaitsAck, Active,
      Turn, Types, ReaderTypes
  <2>2. pc' = "ended" \/ UNCHANGED guilty
    BY <1>4 DEF BufferedReceive
  <2> QED BY <1>1, <2>1, <2>2 DEF Offers
<1>5. ASSUME NEW b \in Upstreams,
             ReadChunk(b) \/ ReadEnd(b) \/ ReaderStep(b), Active
      PROVE  Offers'
  <2>1. UNCHANGED <<pc, ctx, a>>
    BY <1>5 DEF ReadChunk, ReadEnd, ReaderStep, ReadAborted, ReaderStops
  <2>2. CASE b # a
    <3>1. UNCHANGED <<Turn, OfferErr, OfferMore>>
      BY <1>0, <1>5, <2>1, <2>2 DEF ReadChunk, ReadEnd, ReaderStep,
        ReadAborted, ReaderStops, Offer, bufferVars, Turn, OfferErr,
        OfferMore, Active, Types, ReaderTypes
    <3>2. a \in guilty' <=> a \in guilty
      BY <1>5, <2>2 DEF ReadChunk, ReadEnd, ReaderStep, ReadAborted,
        ReaderStops, BlameForEnd, Blame
    <3> QED BY <1>5, <2>1, <3>1, <3>2 DEF Offers, Active
  <2>3. CASE b = a
    <3>0. a \in Upstreams /\ a \in Nat /\ ~Left(a)
      BY <1>0, <1>5, TriedUpstream DEF Active, Left, Types
    <3>1. CASE ReaderStops(b)
      BY <2>3, <3>0, <3>1 DEF ReaderStops, Stops
    <3>2. ASSUME ~ReaderStops(b)
          PROVE  \/ OfferErr' = "context" /\ ctx # "live" /\ UNCHANGED guilty
                 \/ \E e \in {"none", "eof"} \cup Bad :
                      /\ OfferErr' = e /\ BlameForEnd(a, e)
                      /\ OfferMore' \/ e # "none"
      <4>1. CASE ReadChunk(b)
        <5>1. PICK e \in {"none"} \cup Ends(b, filled'[b]) :
                Offer(b, TRUE, e) /\ BlameForEnd(b, e)
          BY <4>1 DEF ReadChunk
        <5>2. e \in {"none", "eof"} \cup Bad
          BY <5>1, ReadOffers
        <5>3. OfferErr' = e /\ OfferMore'
          BY <2>1, <2>3, <3>0, <4>1, <5>1 DEF ReadChunk, Offer, OfferErr,
            OfferMore, Types, ReaderTypes
        <5>4. BlameForEnd(a, e)
          BY <2>3, <5>1, Zenon
        <5> QED BY <5>2, <5>3, <5>4
      <4>2. CASE ReadEnd(b)
        <5>1. PICK e \in Ends(b, filled[b]) :
                Offer(b, FALSE, e) /\ BlameForEnd(b, e)
          BY <4>2 DEF ReadEnd
        <5>2. e \in {"none", "eof"} \cup Bad /\ e # "none"
          BY <5>1 DEF Ends, Bad
        <5>3. OfferErr' = e
          BY <2>1, <2>3, <3>0, <4>2, <5>1 DEF ReadEnd, Offer, OfferErr, Types,
            ReaderTypes
        <5>4. BlameForEnd(a, e)
          BY <2>3, <5>1, Zenon
        <5> QED BY <5>2, <5>3, <5>4
      <4>3. CASE ReadAborted(b)
        BY <2>1, <2>3, <3>0, <4>3 DEF ReadAborted, Offer, OfferErr, Turn,
          Types, ReaderTypes
      <4> QED BY <1>5, <3>2, <4>1, <4>2, <4>3 DEF ReaderStep
    <3>3. CASE ~ReaderStops(b)
      <4>1. Turn = "read" => OfferErr = "none" /\ a \notin guilty
        BY <1>5, <3>0 DEF Silent, Offers, Turn, OfferErr, Bad
      <4>2. Turn = "read"
        BY <1>5, <2>3, <3>3
          DEF ReadChunk, ReadEnd, ReaderStep, ReadAborted, Turn
      <4>3. CASE OfferErr' = "context" /\ ctx # "live" /\ UNCHANGED guilty
        BY <2>1, <4>1, <4>2, <4>3 DEF Offers, Bad
      <4>4. ASSUME NEW e \in {"none", "eof"} \cup Bad, OfferErr' = e,
                   BlameForEnd(a, e), OfferMore' \/ e # "none"
            PROVE  Offers'
        BY <2>1, <3>0, <4>1, <4>2, <4>4, Blamed DEF Offers, Bad
      <4> QED BY <3>2, <3>3, <4>3, <4>4
    <3> QED BY <3>1, <3>3
  <2> QED BY <2>2, <2>3
<1>6. ASSUME NEW b \in Upstreams,
             ReadChunk(b) \/ ReadEnd(b) \/ ReaderStep(b), ~Active
      PROVE  Offers'
  BY <1>6 DEF ReadChunk, ReadEnd, ReaderStep, ReadAborted, ReaderStops,
    Active, Offers
<1>7. CASE Cancel \/ Expire
  <2>1. /\ UNCHANGED <<pc, guilty, a, Turn, OfferErr, OfferMore>>
        /\ ctx' # "live"
    BY <1>7, BufferStays DEF Cancel, Expire, EndContext, readerVars, Turn
  <2> QED BY <2>1 DEF Offers, Active
<1>8. CASE UNCHANGED vars
  <2>1. UNCHANGED <<pc, ctx, guilty, a, Turn, OfferErr, OfferMore>>
    BY <1>8, BufferStays DEF vars, readerVars, Turn
  <2> QED BY <2>1 DEF Offers, Active
<1> QED
  BY <1>1, <1>2, <1>3, <1>4, <1>5, <1>6, <1>7, <1>8 DEF Next, HandlerStep,
    UpstreamStep, StopEarly, NextUpstream, GiveUp, RequestAborted,
    StreamReceiveEnd, ContextEnds, TimerFires, CommittedStreamEnds,
    BufferedEnds, StreamFails, AttemptFails, StreamAbandoned, Deliver,
    RequestFails, RespondsToRetry, Terminated

(* Upstreams that were not tried are not to blame.                         *)
LEMMA UntriedStep ==
  ASSUME Types, Untried, [Next]_vars
  PROVE  Untried'
<1>0. /\ a \in Nat /\ n \in Nat
      /\ pc \notin {"loop", "done"} => a \in Upstreams
      /\ \A b \in Upstreams : b \in Nat
  BY TriedUpstream DEF Types, Upstreams
<1>1. CASE NextUpstream
  BY <1>0, <1>1 DEF NextUpstream, Untried
<1>2. CASE RequestFails \/ BufferedReceive \/ TimerFires
  BY <1>0, <1>2
    DEF RequestFails, BufferedReceive, Offered, TimerFires, Blame, Untried
<1>3. ASSUME NEW s \in Statuses, RespondsToRetry(s)
      PROVE  Untried'
  BY <1>0, <1>3 DEF RespondsToRetry, Blame, Untried
<1>4. ASSUME NEW b \in Upstreams, ReadChunk(b) \/ ReadEnd(b)
      PROVE  Untried'
  <2>1. b <= a /\ UNCHANGED a
    <3>1. reader[b] = "read" /\ UNCHANGED a
      BY <1>4 DEF ReadChunk, ReadEnd
    <3> QED BY <1>0, <3>1 DEF Types, Readers
  <2>2. guilty' \in {guilty, guilty \cup {b}}
    BY <1>4 DEF ReadChunk, ReadEnd, BlameForEnd, Blame
  <2> QED BY <1>0, <2>1, <2>2 DEF Untried
<1>5. CASE UNCHANGED <<a, guilty>>
  BY <1>5 DEF Untried
<1> QED
  BY <1>1, <1>2, <1>3, <1>4, <1>5 DEF Next, HandlerStep, UpstreamStep,
    ReaderStep, StopEarly, GiveUp, RequestAborted, StreamReceive,
    StreamReceiveEnd, ClientWrite, Acknowledge, Flush, ContextEnds,
    CommittedStreamEnds, StreamFails, StreamAbandoned, BufferedEnds, Deliver,
    AttemptFails, Responds, ReadAborted, ReaderStops, Cancel, Expire,
    EndContext, Terminated, vars

(* Every step keeps results and guilt in agreement.                        *)
LEMMA ResultsStep ==
  ASSUME Types, HandOver, Offers, Untried, Results, [Next]_vars
  PROVE  Results'
<1>0. /\ a \in Nat /\ n \in Nat
      /\ pc \notin {"loop", "done"} => a \in Upstreams
  BY TriedUpstream DEF Types
<1>1. CASE pc' \in {"loop", "select", "write", "ack", "drop", "deliver",
                    "done"}
  BY <1>1 DEF Results
<1>2. CASE NextUpstream
  <2>1. a + 1 \in Upstreams
    BY <1>0, <1>2, ProxyAssumption DEF NextUpstream, UpstreamsLeft, Types,
      ControlTypes, Upstreams, ProxyAssumption
  <2>2. a + 1 \notin guilty
    BY <1>0, <2>1 DEF Untried
  <2> QED BY <1>2, <2>2 DEF NextUpstream, Results
<1>3. CASE RequestFails \/ RequestAborted
  BY <1>3 DEF RequestFails, RequestAborted, SeesContext, Blame, Bad, Results
<1>4. CASE StreamReceive
  BY <1>1, <1>4 DEF StreamReceive, Bad, Results
<1>5. CASE StreamReceiveEnd
  <2>1. /\ pc = "select" /\ Turn = "offer" /\ ~OfferMore /\ Active
        /\ pc' = "ended" /\ err' = OfferErr
        /\ UNCHANGED <<ctx, a, guilty, streaming>>
    BY <1>5 DEF StreamReceiveEnd, Offered, HasBytes, Turn, OfferMore,
      OfferErr, Active
  <2> QED BY <2>1 DEF Offers, Bad, Results
<1>6. CASE BufferedReceive
  <2>1. /\ ~streaming /\ UNCHANGED <<a, streaming, ctx>>
        /\ \/ pc' = "ack"
           \/ pc' = "ended" /\ err' = "budget" /\ UNCHANGED guilty
           \/ pc' = "ended" /\ err' = "error" /\ guilty' = guilty \cup {a}
    BY <1>6 DEF BufferedReceive, Blame
  <2> QED BY <1>1, <2>1 DEF Bad, Results
<1>7. CASE Acknowledge
  <2>1. /\ pc \in {"ack", "drop"} /\ Active /\ (pc = "drop" => streaming)
        /\ UNCHANGED <<a, streaming, ctx, guilty, OfferErr>>
    BY <1>7, BufferStays DEF Acknowledge, Active, Types, Place
  <2>2. CASE pc = "drop"
    BY <1>7, <2>1, <2>2 DEF Acknowledge, Bad, Results
  <2>3. CASE pc = "ack"
    <3>1. /\ err = OfferErr /\ UNCHANGED err
          /\ pc' \in {"flush", "select", "ended"}
          /\ (pc' = "ended" => err # "none")
      BY <1>7, <2>3 DEF Acknowledge, GoOn, HandOver
    <3> QED BY <2>1, <2>3, <3>1 DEF Offers, Bad, Results
  <2> QED BY <2>1, <2>2, <2>3
<1>8. CASE Flush
  <2>1. /\ pc = "flush" /\ Active /\ streaming
        /\ UNCHANGED <<a, streaming, ctx, guilty>>
        /\ \/ pc' = "select"
           \/ pc' = "ended" /\ UNCHANGED err /\ err # "none" /\ err = OfferErr
           \/ pc' = "ended" /\ err' = "client"
    BY <1>8 DEF Flush, GoOn, Active, Types, Place, Results
  <2> QED BY <2>1 DEF Offers, Bad, Results
<1>9. CASE TimerFires \/ ContextEnds
  BY <1>9 DEF TimerFires, ContextEnds, SeesContext, Blame, Bad, Results
<1>10. CASE BufferedEnds
  <2>1. /\ pc = "ended" /\ pc' \in {"deliver", "failed"} /\ ~streaming
        /\ (pc' = "failed" => err # "eof")
        /\ UNCHANGED <<a, streaming, ctx, guilty, err>>
    BY <1>10 DEF BufferedEnds
  <2> QED BY <2>1 DEF Results
<1>11. ASSUME NEW b \in Upstreams,
              ReadChunk(b) \/ ReadEnd(b) \/ ReaderStep(b)
       PROVE  Results'
  <2>1. UNCHANGED <<pc, err, ctx, a, streaming>>
    BY <1>11 DEF ReadChunk, ReadEnd, ReaderStep, ReadAborted, ReaderStops
  <2>2. CASE pc = "do"
    <3>1. b # a \/ UNCHANGED guilty
      BY <1>11, <2>2 DEF ReadChunk, ReadEnd, ReaderStep, ReadAborted,
        ReaderStops, Types, Place
    <3>2. guilty' \in {guilty, guilty \cup {b}}
      BY <1>11 DEF ReadChunk, ReadEnd, ReaderStep, ReadAborted, ReaderStops,
        BlameForEnd, Blame
    <3> QED BY <2>1, <2>2, <3>1, <3>2 DEF Results
  <2>3. CASE pc = "flush"
    <3>1. err # "none" => UNCHANGED OfferErr
      <4>1. ASSUME err # "none"
            PROVE  UNCHANGED OfferErr
        <5>1. Turn = "gone"
          BY <2>3, <4>1 DEF HandOver, HasAll
        <5>2. CASE ReaderStops(b)
          BY <5>2, BufferStays DEF ReaderStops
        <5>3. CASE ~ReaderStops(b)
          <6>1. b # a
            BY <1>11, <5>1, <5>3
              DEF ReadChunk, ReadEnd, ReaderStep, ReadAborted, Turn
          <6> QED
            BY <1>0, <1>11, <2>1, <2>3, <5>3, <6>1 DEF ReadChunk, ReadEnd,
              ReaderStep, ReadAborted, Offer, OfferErr, Types, ReaderTypes
        <5> QED BY <5>2, <5>3
      <4> QED BY <4>1
    <3> QED BY <2>1, <2>3, <3>1 DEF Results
  <2>4. CASE pc \in {"ended", "failed"}
    <3>1. UNCHANGED guilty
      BY <1>11, <2>4 DEF ReadChunk, ReadEnd, ReaderStep, ReadAborted,
        ReaderStops, BlameForEnd, Left
    <3> QED BY <2>1, <2>4, <3>1 DEF Results
  <2>5. CASE pc \notin {"do", "flush", "ended", "failed"}
    BY <2>1, <2>5 DEF Results
  <2> QED BY <2>2, <2>3, <2>4, <2>5
<1>12. CASE Cancel \/ Expire \/ UNCHANGED vars
  <2>1. /\ UNCHANGED <<pc, err, a, streaming, guilty, OfferErr>>
        /\ ctx' # "live" \/ UNCHANGED ctx
    BY <1>12, BufferStays DEF Cancel, Expire, EndContext, vars, readerVars
  <2> QED BY <2>1 DEF Results
<1> QED
  BY <1>1, <1>2, <1>3, <1>4, <1>5, <1>6, <1>7, <1>8, <1>9, <1>10, <1>11, <1>12
    DEF Next, HandlerStep, UpstreamStep, StopEarly, GiveUp, ClientWrite,
    CommittedStreamEnds, StreamFails, StreamAbandoned, Deliver, AttemptFails,
    Responds, RespondsToRetry, Terminated

(* Guilt lasts.                                                            *)
LEMMA GuiltLasts ==
  ASSUME [Next]_vars
  PROVE  guilty \subseteq guilty'
<1>1. \A b : Blame(b) => guilty \subseteq guilty'
  BY DEF Blame
<1>2. ASSUME NEW b, NEW e, BlameForEnd(b, e)
      PROVE  guilty \subseteq guilty'
  BY <1>1, <1>2 DEF BlameForEnd
<1>3. CASE RequestFails \/ BufferedReceive \/ TimerFires
  BY <1>1, <1>3 DEF RequestFails, BufferedReceive, TimerFires
<1>4. ASSUME NEW s \in Statuses, RespondsToRetry(s)
      PROVE  guilty \subseteq guilty'
  BY <1>1, <1>4 DEF RespondsToRetry
<1>5. ASSUME NEW b \in Upstreams, ReadChunk(b) \/ ReadEnd(b)
      PROVE  guilty \subseteq guilty'
  BY <1>2, <1>5 DEF ReadChunk, ReadEnd
<1>6. CASE UNCHANGED guilty
  BY <1>6
<1> QED
  BY <1>3, <1>4, <1>5, <1>6 DEF Next, HandlerStep, UpstreamStep,
    ReaderStep, StopEarly, NextUpstream, GiveUp, RequestAborted,
    StreamReceive, StreamReceiveEnd, ClientWrite, Acknowledge, Flush,
    ContextEnds, CommittedStreamEnds, StreamFails, StreamAbandoned,
    BufferedEnds, Deliver, AttemptFails, Responds, ReadAborted, ReaderStops,
    Cancel, Expire, EndContext, Terminated, vars

(* A failure is scored after the blame.                                    *)
LEMMA FailureScored ==
  ASSUME Types, Scored, a \in Upstreams, Score("failure"), a \in guilty',
         guilty \subseteq guilty', pc \notin {"deliver", "done"}
  PROVE  Scored'
<1>1. scored' = scored \cup {<<a, "failure">>}
  BY DEF Score
<1>2. ASSUME NEW b \in Upstreams
      PROVE  /\ <<b, "failure">> \in scored' => b \in guilty'
             /\ <<b, "success">> \notin scored'
  BY <1>1, <1>2 DEF Scored
<1> QED BY <1>2 DEF Scored

(* A success is scored when everything was taken over.                     *)
LEMMA SuccessScored ==
  ASSUME Types, Scored, a \in Upstreams, Score("success"), a \notin guilty,
         pc \notin {"deliver", "done"}, pc' \in {"deliver", "done"},
         Turn = "gone", Fill = Taken,
         UNCHANGED <<a, guilty, Turn, Fill, Taken>>
  PROVE  Scored'
<1>1. scored' = scored \cup {<<a, "success">>}
  BY DEF Score
<1>2. ASSUME NEW b \in Upstreams
      PROVE  /\ <<b, "failure">> \in scored' => b \in guilty
             /\ <<b, "success">> \in scored' => b = a
  BY <1>1, <1>2 DEF Scored
<1> QED BY <1>2 DEF Scored

(* Without a score nothing changes.                                        *)
LEMMA NotScored ==
  ASSUME Scored, UNCHANGED scored, guilty \subseteq guilty',
         pc \notin {"deliver", "done"}
  PROVE  Scored'
<1>1. \A b \in Upstreams : <<b, "success">> \notin scored
  BY DEF Scored
<1> QED BY <1>1 DEF Scored

(* Every step keeps the scores deserved.                                   *)
LEMMA ScoredStep ==
  ASSUME Types, Uncommitted, HandOver, Offers, Results, Scored, [Next]_vars
  PROVE  Scored'
<1>0. /\ pc \notin {"loop", "done"} => a \in Upstreams
      /\ guilty \subseteq guilty'
      /\ err \in Errors /\ ctx \in {"live", "canceled", "expired"}
  BY TriedUpstream, GuiltLasts DEF Types, ControlTypes
<1>1. ASSUME NEW s \in Statuses, RespondsToRetry(s)
      PROVE  Scored'
  <2>1. pc = "do" /\ a \in guilty'
    BY <1>1 DEF RespondsToRetry, Blame
  <2>2. Score("failure") \/ UNCHANGED scored
    BY <1>1 DEF RespondsToRetry
  <2> QED BY <1>0, <2>1, <2>2, FailureScored, NotScored
<1>2. CASE CommittedStreamEnds
  <2>1. /\ pc = "ended" /\ pc' = "done" /\ streaming
        /\ UNCHANGED <<a, guilty, Turn, Fill, Taken>>
    BY <1>2, BodyStays
      DEF CommittedStreamEnds, readerVars, bufferVars, Turn, Fill
  <2>2. CASE err = "eof" /\ Score("success")
    <3>1. a \notin guilty /\ Turn = "gone" /\ Fill = Taken
      BY <2>1, <2>2 DEF Results, HandOver, HasAll
    <3> QED BY <1>0, <2>1, <2>2, <3>1, SuccessScored
  <2>3. CASE err \notin {"eof", "client"} /\ ctx = "live" /\ Score("failure")
    <3>1. a \in guilty'
      BY <2>1, <2>3, <1>0 DEF Results, Bad, Errors
    <3> QED BY <1>0, <2>1, <2>3, <3>1, FailureScored
  <2>4. CASE UNCHANGED scored
    BY <1>0, <2>1, <2>4, NotScored
  <2> QED BY <1>2, <2>2, <2>3, <2>4 DEF CommittedStreamEnds
<1>3. CASE StreamFails
  <2>1. /\ pc = "ended" /\ streaming /\ sent = None /\ Score("failure")
        /\ ctx = "live" /\ err # "client" /\ UNCHANGED guilty
    BY <1>3 DEF StreamFails, Committed, ClientGone
  <2>2. a \in guilty'
    BY <1>0, <2>1 DEF Uncommitted, Results, Bad, Errors
  <2> QED BY <1>0, <2>1, <2>2, FailureScored
<1>4. CASE AttemptFails
  <2>1. pc = "failed" /\ UNCHANGED guilty
    BY <1>4 DEF AttemptFails
  <2>2. CASE UNCHANGED scored
    BY <1>0, <2>1, <2>2, NotScored
  <2>3. CASE ctx = "live" /\ err # "budget" /\ Score("failure")
    <3>1. a \in guilty'
      BY <1>0, <2>1, <2>3 DEF Results, Bad, Errors
    <3> QED BY <1>0, <2>1, <2>3, <3>1, FailureScored
  <2> QED BY <1>4, <2>2, <2>3 DEF AttemptFails
<1>5. CASE BufferedEnds
  <2>1. /\ pc = "ended" /\ UNCHANGED <<a, guilty, Turn, Fill, Taken>>
    BY <1>5, BodyStays DEF BufferedEnds, readerVars, bufferVars, Turn, Fill
  <2>2. CASE err = "eof"
    <3>1. Score("success") /\ pc' = "deliver"
      BY <1>5, <2>2 DEF BufferedEnds
    <3>2. a \notin guilty /\ Turn = "gone" /\ Fill = Taken
      BY <2>1, <2>2 DEF Results, HandOver, HasAll
    <3> QED BY <1>0, <2>1, <3>1, <3>2, SuccessScored
  <2>3. CASE err # "eof"
    BY <1>0, <1>5, <2>1, <2>3, NotScored DEF BufferedEnds
  <2> QED BY <2>2, <2>3
<1>6. CASE Deliver
  <2>1. /\ pc = "deliver" /\ pc' = "done" /\ ~streaming
        /\ UNCHANGED <<a, guilty, scored, Turn, Fill, streaming, content>>
    BY <1>6 DEF Deliver, readerVars, bufferVars, loopVars, Turn, Fill, Types,
      Place
  <2>2. UNCHANGED Taken
    BY <2>1 DEF Taken, Body
  <2> QED BY <2>1, <2>2 DEF Scored
<1>7. ASSUME NEW b \in Upstreams,
             ReadChunk(b) \/ ReadEnd(b) \/ ReaderStep(b)
      PROVE  Scored'
  <2>1. UNCHANGED <<pc, a, scored, Taken>>
    BY <1>7, BodyStays DEF ReadChunk, ReadEnd, ReaderStep, ReadAborted,
      ReaderStops, answerVars, loopVars
  <2>2. CASE pc \notin {"deliver", "done"}
    BY <1>0, <2>1, <2>2, NotScored
  <2>3. CASE pc \in {"deliver", "done"}
    <3>1. UNCHANGED guilty
      BY <1>7, <2>3 DEF ReadChunk, ReadEnd, ReaderStep, ReadAborted,
        ReaderStops, BlameForEnd, Left
    <3>2. ASSUME Turn = "gone", a \in Upstreams
          PROVE  UNCHANGED <<Turn, Fill>>
      <4>1. b # a
        BY <1>7, <3>2 DEF ReadChunk, ReadEnd, ReaderStep, ReadAborted,
          ReaderStops, Stops, Turn
      <4> QED
        BY <1>7, <2>1, <3>2, <4>1 DEF ReadChunk, ReadEnd, ReaderStep,
          ReadAborted, ReaderStops, Offer, bufferVars, Turn, Fill, Types,
          ReaderTypes
    <3> QED BY <2>1, <2>3, <3>1, <3>2 DEF Scored
  <2> QED BY <2>2, <2>3
<1>8. CASE pc \notin {"deliver", "done"} /\ UNCHANGED scored
  BY <1>0, <1>8, NotScored
<1>9. CASE Cancel \/ Expire \/ UNCHANGED vars
  <2>1. UNCHANGED <<pc, a, scored, guilty, Turn, Fill, Taken>>
    BY <1>9, BodyStays DEF Cancel, Expire, EndContext, vars, answerVars,
      readerVars, bufferVars, loopVars, Turn, Fill
  <2> QED BY <2>1 DEF Scored
<1> QED
  BY <1>1, <1>2, <1>3, <1>4, <1>5, <1>6, <1>7, <1>8, <1>9
    DEF Next, HandlerStep, UpstreamStep, StopEarly, NextUpstream, GiveUp,
    RequestFails, RequestAborted, StreamReceive, StreamReceiveEnd, Offered,
    BufferedReceive, ClientWrite, Acknowledge, Flush, TimerFires, ContextEnds,
    StreamAbandoned, Responds, Terminated, loopVars

(* The initial state.                                                      *)
LEMMA InitFault == Init => Fault
<1> SUFFICES ASSUME Init
             PROVE  Fault
  OBVIOUS
<1>1. /\ pc = "loop" /\ scored = {} /\ guilty = {}
      /\ offer = [b \in Upstreams |-> [more |-> FALSE, err |-> "none"]]
  BY Zenon DEF Init
<1>2. [more |-> FALSE, err |-> "none"].err = "none"
  OBVIOUS
<1>3. Silent
  BY <1>1, <1>2, Zenon DEF Silent
<1> QED
  BY <1>1, <1>3 DEF Fault, Offers, Active, Untried, Results, Scored

(* Only an upstream that failed on its own is scored as failing, and only  *)
(* one whose whole body was taken over as healthy.                         *)
THEOREM OnlyTheGuilty == Spec => []ScoresAreDeserved
<1>1. Init => IInv /\ Fault
  BY InitTypes, InitAnswers, InitRelayed, InitFault DEF IInv
<1>2. IInv /\ Fault /\ [Next]_vars => (IInv /\ Fault)'
  BY TypesStep, AnswersStep, HandOverStep, RelayedStep, SilentStep, OffersStep,
    UntriedStep, ResultsStep, ScoredStep DEF IInv, Fault, Answers
<1>3. IInv /\ Fault => ScoresAreDeserved
  <2> SUFFICES ASSUME IInv, Fault, NEW b \in Upstreams
               PROVE  /\ <<b, "failure">> \in scored => b \in guilty
                      /\ <<b, "success">> \in scored =>
                           b \notin guilty /\ Body = Whole(b)
    BY DEF ScoresAreDeserved, Body
  <2>1. ASSUME <<b, "success">> \in scored
        PROVE  Body = Whole(b)
    <3>1. b = a /\ filled[b] = Len(Body)
      BY <2>1 DEF Fault, Scored, Fill, Taken
    <3>2. Body \in Seq(Chunks) /\ InOrder(Body, b)
      BY <3>1, Attempt DEF IInv, Relayed
    <3>3. Body = [i \in 1..Len(Body) |-> Body[i]]
      BY <3>2
    <3>4. \A i \in 1..Len(Body) : Body[i] = <<b, i>>
      BY <3>2 DEF InOrder
    <3> QED BY <3>1, <3>3, <3>4, Zenon DEF Whole
  <2> QED BY <2>1 DEF Fault, Scored
<1> QED BY <1>1, <1>2, <1>3, PTL DEF Spec

-----------------------------------------------------------------------------
(***************************************************************************)
(* The usage that is read out of a stream, whatever the stream, the chunks *)
(* the network cuts it into and the limit of the parser.                   *)
(*                                                                         *)
(* The argument.  ParserAgrees(p, s, k) relates each field of a parser to  *)
(* the first k bytes of s: the pending text to the line that has not       *)
(* ended, the data and the type to the event that has not ended, the       *)
(* counts and the flags to the events that have.  One byte more keeps it,  *)
(* whether the byte joins a line, ends one or is the LF of a CRLF; so does *)
(* a chunk, by induction over the ends of lines in it.  A chunk is read    *)
(* from its own bytes and one flag, afterCR, and the reference from the    *)
(* whole stream: EndsLine and Text of the chunk are shown to be those of   *)
(* the stream, a line that began before the chunk joined to its beginning. *)
(***************************************************************************)

(* A set of numbers that is not empty has a least one.                     *)
LEMMA LeastNumber ==
  ASSUME NEW S \in SUBSET Nat, S # {}
  PROVE  \E x \in S : \A y \in S : x <= y
<1>1. PICK m \in S : TRUE
  OBVIOUS
<1> DEFINE B == {0..x : x \in {y \in S : y <= m}}
<1>2. IsWellFoundedOn(StrictSubsetOrdering(0..m), FiniteSubsetsOf(0..m))
  BY FS_StrictSubsetOrderingWellFounded
<1>3. \A y \in S : y <= m => 0..y \subseteq 0..m
  <2>1. ASSUME NEW y \in S, y <= m PROVE 0..y \subseteq 0..m
    <3>1. y \in Nat /\ m \in Nat
      OBVIOUS
    <3> QED
      BY <2>1, <3>1
  <2> QED
    BY <2>1
<1>4. B \subseteq FiniteSubsetsOf(0..m) /\ 0..m \in B
  <2>1. IsFiniteSet(0..m)
    BY FS_Interval
  <2>2. \A U \in B : U \subseteq 0..m
    BY <1>3
  <2>3. 0..m \in B
    BY <1>1
  <2> HIDE DEF B
  <2> QED
    BY <2>1, <2>2, <2>3, FS_Subset DEF FiniteSubsetsOf
<1>5. PICK T \in B : \A U \in B : <<U, T>> \notin StrictSubsetOrdering(0..m)
  <2> HIDE DEF B
  <2> QED
    BY <1>2, <1>4, WFMin
<1>6. PICK x \in S : x <= m /\ T = 0..x
  BY <1>5
<1>7. ASSUME NEW y \in S, y < x PROVE FALSE
  <2>0. y \in Nat /\ x \in Nat /\ m \in Nat
    BY <1>1, <1>6
  <2>1. 0..y \in B
    BY <1>6, <1>7, <2>0
  <2>2. 0..y \subseteq 0..x /\ 0..y # 0..x
    <3>1. x \in 0..x /\ x \notin 0..y
      BY <1>7, <2>0
    <3> QED
      BY <1>7, <2>0, <3>1
  <2>3. 0..y \subseteq 0..m /\ 0..x \subseteq 0..m
    BY <1>3, <1>6, <1>7, <2>0
  <2> HIDE DEF B
  <2> QED
    BY <1>5, <1>6, <2>1, <2>2, <2>3 DEF StrictSubsetOrdering
<1> QED
  BY <1>6, <1>7

(* Max of a set that has a largest element, and Min of one with a least.   *)
LEMMA LargestIs ==
  ASSUME NEW S \in SUBSET Nat, NEW x \in S, \A y \in S : y <= x
  PROVE  Max(S) = x
<1>1. \A y \in S : x >= y
  OBVIOUS
<1>2. Max(S) \in S /\ \A y \in S : Max(S) >= y
  BY <1>1 DEF Max
<1>3. Max(S) <= x /\ x <= Max(S) /\ Max(S) \in Nat /\ x \in Nat
  BY <1>2
<1> QED
  BY <1>3

LEMMA LeastIs ==
  ASSUME NEW S \in SUBSET Nat, S # {}
  PROVE  Min(S) \in S /\ \A y \in S : Min(S) <= y
<1>1. \E x \in S : \A y \in S : x =< y
  BY LeastNumber
<1> QED
  BY <1>1 DEF Min

(* A finite set of numbers that is not empty has a largest one.            *)
LEMMA LargestExists ==
  ASSUME NEW S \in SUBSET Nat, S # {}, NEW m \in Nat, \A y \in S : y <= m
  PROVE  Max(S) \in S /\ \A y \in S : y <= Max(S)
<1> DEFINE T == {x \in Nat : m - x \in S}
<1>1. T # {}
  <2>1. PICK y \in S : TRUE
    OBVIOUS
  <2>2. m - y \in T
    BY <2>1
  <2> QED
    BY <2>2
<1>2. PICK x \in T : \A y \in T : x <= y
  <2>1. T \in SUBSET Nat
    OBVIOUS
  <2> HIDE DEF T
  <2> QED
    BY <1>1, <2>1, LeastNumber
<1>3. m - x \in S /\ \A y \in S : y <= m - x
  <2>1. ASSUME NEW y \in S PROVE y <= m - x
    <3>1. m - y \in T
      OBVIOUS
    <3> QED
      BY <1>2, <3>1
  <2> QED
    BY <1>2, <2>1
<1>4. \E z \in S : \A y \in S : z >= y
  BY <1>3
<1> QED
  BY <1>4 DEF Max

-----------------------------------------------------------------------------
(* The text before a byte.                                                 *)

Tokens == STRING \ {"nl"}
Break(s, i) == s[i] \in {"cr", "lf"}

(* The text before a byte begins after the last CR or LF before it.        *)
LEMMA BeginIs ==
  ASSUME NEW s, NEW e \in Nat \ {0}
  PROVE  /\ Begin(s, e) \in 1..e
         /\ Begin(s, e) = 1 \/ Break(s, Begin(s, e) - 1)
         /\ \A i \in Begin(s, e)..(e - 1) : ~Break(s, i)
<1> DEFINE S == {0} \cup {i \in 1..(e - 1) : s[i] \in {"cr", "lf"}}
<1>1. S \in SUBSET Nat /\ S # {} /\ \A y \in S : y <= e - 1
  OBVIOUS
<1>2. Max(S) \in S /\ \A y \in S : y <= Max(S)
  <2>1. e - 1 \in Nat
    OBVIOUS
  <2> HIDE DEF S
  <2> QED
    BY <1>1, <2>1, LargestExists
<1>3. Begin(s, e) = 1 + Max(S)
  BY DEF Begin
<1>4. Begin(s, e) \in 1..e
  <2>1. Max(S) \in Nat /\ Max(S) <= e - 1
    BY <1>1, <1>2
  <2> QED
    BY <1>3, <2>1
<1>5. Begin(s, e) = 1 \/ Break(s, Begin(s, e) - 1)
  BY <1>2, <1>3 DEF Break
<1>6. ASSUME NEW i \in Begin(s, e)..(e - 1) PROVE ~Break(s, i)
  BY <1>2, <1>3, <1>4 DEF Break
<1> QED
  BY <1>4, <1>5, <1>6

(* That byte, characterised.                                               *)
LEMMA BeginAt ==
  ASSUME NEW s, NEW e \in Nat \ {0}, NEW b \in 1..e,
         b = 1 \/ Break(s, b - 1), \A i \in b..(e - 1) : ~Break(s, i)
  PROVE  Begin(s, e) = b
<1>1. /\ Begin(s, e) \in 1..e
      /\ Begin(s, e) = 1 \/ Break(s, Begin(s, e) - 1)
      /\ \A i \in Begin(s, e)..(e - 1) : ~Break(s, i)
  BY BeginIs
<1>2. CASE Begin(s, e) < b
  <2>1. b - 1 \in Begin(s, e)..(e - 1) /\ b # 1
    BY <1>1, <1>2
  <2> QED
    BY <1>1, <2>1
<1>3. CASE b < Begin(s, e)
  <2>1. Begin(s, e) - 1 \in b..(e - 1) /\ Begin(s, e) # 1
    BY <1>1, <1>3
  <2> QED
    BY <1>1, <2>1
<1> QED
  BY <1>1, <1>2, <1>3

(* Where the text begins, one byte further.                                *)
LEMMA BeginStep ==
  ASSUME NEW s, NEW k \in Nat
  PROVE  Begin(s, k + 2) = IF Break(s, k + 1) THEN k + 2 ELSE Begin(s, k + 1)
<1>1. CASE Break(s, k + 1)
  <2>1. k + 2 \in 1..(k + 2) /\ (k + 2) - 1 = k + 1 /\ (k + 2)..(k + 1) = {}
    OBVIOUS
  <2>2. Begin(s, k + 2) = k + 2
    BY <1>1, <2>1, BeginAt
  <2> QED
    BY <1>1, <2>2
<1>2. CASE ~Break(s, k + 1)
  <2>1. /\ Begin(s, k + 1) \in 1..(k + 1)
        /\ Begin(s, k + 1) = 1 \/ Break(s, Begin(s, k + 1) - 1)
        /\ \A i \in Begin(s, k + 1)..((k + 1) - 1) : ~Break(s, i)
    BY BeginIs
  <2>2. \A i \in Begin(s, k + 1)..((k + 2) - 1) : ~Break(s, i)
    <3>1. ASSUME NEW i \in Begin(s, k + 1)..((k + 2) - 1) PROVE ~Break(s, i)
      <4>1. i = k + 1 \/ i \in Begin(s, k + 1)..((k + 1) - 1)
        BY <2>1
      <4> QED
        BY <1>2, <2>1, <4>1
    <3> QED
      BY <3>1
  <2>3. Begin(s, k + 1) \in 1..(k + 2)
    BY <2>1
  <2>4. Begin(s, k + 2) = Begin(s, k + 1)
    BY <2>1, <2>2, <2>3, BeginAt
  <2> QED
    BY <1>2, <2>4
<1> QED
  BY <1>1, <1>2

(* The text has no CR and no LF.                                           *)
LEMMA TextIs ==
  ASSUME NEW s \in Seq(Tokens), NEW e \in 1..(Len(s) + 1)
  PROVE  /\ Text(s, e) \in Seq(Tokens)
         /\ Len(Text(s, e)) = e - Begin(s, e)
         /\ \A i \in 1..(e - Begin(s, e)) : Text(s, e)[i] = s[Begin(s, e) + i - 1]
<1>0. Len(s) \in Nat /\ e \in Nat \ {0} /\ e - 1 <= Len(s)
  BY LenProperties
<1>1. Begin(s, e) \in 1..e
  BY <1>0, BeginIs
<1>2. \A i \in Begin(s, e)..(e - 1) : s[i] \in Tokens
  BY <1>0, <1>1, ElementOfSeq
<1>3. Text(s, e) = SubSeq(s, Begin(s, e), e - 1)
  BY DEF Text
<1>4. (IF Begin(s, e) <= e - 1 THEN (e - 1) - Begin(s, e) + 1 ELSE 0) = e - Begin(s, e)
  BY <1>0, <1>1
<1>5. (e - 1) - Begin(s, e) + 1 = e - Begin(s, e)
  BY <1>0, <1>1
<1>6. Begin(s, e) \in Int /\ e - 1 \in Int
  BY <1>0, <1>1
<1>7. /\ SubSeq(s, Begin(s, e), e - 1) \in Seq(Tokens)
      /\ Len(SubSeq(s, Begin(s, e), e - 1)) =
           IF Begin(s, e) <= e - 1 THEN (e - 1) - Begin(s, e) + 1 ELSE 0
      /\ \A i \in 1..((e - 1) - Begin(s, e) + 1) :
           SubSeq(s, Begin(s, e), e - 1)[i] = s[Begin(s, e) + i - 1]
  BY <1>2, <1>6, SubSeqProperties
<1> QED
  BY <1>3, <1>4, <1>5, <1>7

(* The text, one byte further.                                             *)
LEMMA TextStep ==
  ASSUME NEW s \in Seq(Tokens), NEW k \in 0..(Len(s) - 1)
  PROVE  Text(s, k + 2) = IF Break(s, k + 1) THEN <<>> ELSE Append(Text(s, k + 1), s[k + 1])
<1>1. k + 1 \in 1..(Len(s) + 1) /\ k + 2 \in 1..(Len(s) + 1) /\ k \in Nat
  BY LenProperties
<1>2. /\ Text(s, k + 2) \in Seq(Tokens)
      /\ Len(Text(s, k + 2)) = (k + 2) - Begin(s, k + 2)
      /\ \A i \in 1..((k + 2) - Begin(s, k + 2)) :
           Text(s, k + 2)[i] = s[Begin(s, k + 2) + i - 1]
  BY <1>1, TextIs, Zenon
<1>3. /\ Text(s, k + 1) \in Seq(Tokens)
      /\ Len(Text(s, k + 1)) = (k + 1) - Begin(s, k + 1)
      /\ \A i \in 1..((k + 1) - Begin(s, k + 1)) :
           Text(s, k + 1)[i] = s[Begin(s, k + 1) + i - 1]
  BY <1>1, TextIs, Zenon
<1>4. CASE Break(s, k + 1)
  <2>1. Len(Text(s, k + 2)) = 0
    BY <1>1, <1>2, <1>4, BeginStep
  <2> QED
    BY <1>2, <1>4, <2>1
<1>5. CASE ~Break(s, k + 1)
  <2>1. Begin(s, k + 2) = Begin(s, k + 1) /\ Begin(s, k + 1) \in 1..(k + 1)
    BY <1>1, <1>5, BeginStep, BeginIs
  <2>2. s[k + 1] \in Tokens
    BY <1>1
  <2> DEFINE t == Text(s, k + 1)
             u == Append(t, s[k + 1])
  <2>3. u \in Seq(Tokens) /\ Len(u) = Len(t) + 1
    BY <1>3, <2>2
  <2>4. Len(Text(s, k + 2)) = Len(u)
    BY <1>2, <1>3, <2>1, <2>3
  <2>5. ASSUME NEW i \in 1..Len(u) PROVE Text(s, k + 2)[i] = u[i]
    BY <1>2, <1>3, <2>1, <2>2, <2>3, <2>4
  <2> HIDE DEF t, u
  <2>6. Text(s, k + 2) = u
    BY <1>2, <2>3, <2>4, <2>5, SeqEqual
  <2> QED
    BY <1>5, <2>6 DEF u, t
<1> QED
  BY <1>4, <1>5

Fields == {"pending", "discard", "afterCR", "data", "eventDiscard", "type",
           "usage", "saw", "completed", "failed"}

(* The bytes of the data of an event.                                      *)
Joined == Tokens \cup {"nl"}

IsParser(p) ==
  /\ DOMAIN p = Fields /\ p = [f \in Fields |-> p[f]]
  /\ p.pending \in Seq(Tokens) /\ p.data \in Seq(Joined)
  /\ \A f \in {"discard", "afterCR", "eventDiscard", "saw", "completed", "failed"} :
       p[f] \in BOOLEAN

(* p and q differ in the fields F at most.                                 *)
Same(p, q, F) == \A f \in Fields \ F : p[f] = q[f]

(* Parsers that agree in every field are the same.                         *)
LEMMA ParserEqual ==
  ASSUME NEW p, IsParser(p), NEW q, IsParser(q), Same(p, q, {})
  PROVE  p = q
BY DEF IsParser, Same

LEMMA NewParserIs == IsParser(NewParser)
<1>1. <<>> \in Seq(Tokens) /\ <<>> \in Seq(Joined)
  BY EmptySeq
<1>2. DOMAIN NewParser = Fields
  BY DEF NewParser, Fields
<1>3. NewParser = [f \in Fields |-> NewParser[f]]
  BY DEF NewParser, Fields
<1>4. NewParser.pending = <<>> /\ NewParser.data = <<>>
  BY DEF NewParser
<1>5. /\ NewParser["discard"] = FALSE /\ NewParser["afterCR"] = FALSE
      /\ NewParser["eventDiscard"] = FALSE /\ NewParser["saw"] = FALSE
      /\ NewParser["completed"] = FALSE /\ NewParser["failed"] = FALSE
  BY DEF NewParser
<1> QED
  BY <1>1, <1>2, <1>3, <1>4, <1>5 DEF IsParser

(* append changes the pending text and whether it is given up.             *)
LEMMA AppendIs ==
  ASSUME NEW p, IsParser(p), NEW t \in Seq(Tokens)
  PROVE  /\ IsParser(AppendBytes(p, t))
         /\ Same(AppendBytes(p, t), p, {"pending", "discard"})
         /\ AppendBytes(p, t).discard <=>
              p.discard \/ Len(p.pending) + Len(t) > MaxEventBytes
         /\ AppendBytes(p, t).pending =
              IF p.discard THEN p.pending
              ELSE IF Len(p.pending) + Len(t) > MaxEventBytes THEN <<>> ELSE p.pending \o t
<1>1. p.pending \o t \in Seq(Tokens) /\ <<>> \in Seq(Tokens)
  BY ConcatProperties, EmptySeq DEF IsParser
<1>2. CASE p.discard
  <2>1. AppendBytes(p, t) = p
    BY <1>2 DEF AppendBytes
  <2> QED
    BY <1>2, <2>1 DEF Same
<1>3. CASE ~p.discard /\ Len(p.pending) + Len(t) > MaxEventBytes
  <2>1. AppendBytes(p, t) = [p EXCEPT !.pending = <<>>, !.discard = TRUE]
    BY <1>3 DEF AppendBytes
  <2> QED
    BY <1>1, <1>3, <2>1 DEF IsParser, Same, Fields
<1>4. CASE ~p.discard /\ ~(Len(p.pending) + Len(t) > MaxEventBytes)
  <2>1. AppendBytes(p, t) = [p EXCEPT !.pending = @ \o t]
    BY <1>4 DEF AppendBytes
  <2> QED
    BY <1>1, <1>4, <2>1 DEF IsParser, Same, Fields
<1> QED
  BY <1>2, <1>3, <1>4

(* To append nothing changes nothing.                                      *)
LEMMA AppendNothing ==
  ASSUME NEW p, IsParser(p), p.discard \/ Len(p.pending) <= MaxEventBytes
  PROVE  AppendBytes(p, <<>>) = p
<1>1. <<>> \in Seq(Tokens) /\ Len(<<>>) = 0 /\ Len(p.pending) \in Nat
  BY EmptySeq, LenProperties DEF IsParser
<1>2. p.pending \o <<>> = p.pending
  BY ConcatEmptySeq DEF IsParser
<1> DEFINE q == AppendBytes(p, <<>>)
<1>3. /\ IsParser(q) /\ Same(q, p, {"pending", "discard"})
      /\ q.discard <=> p.discard \/ Len(p.pending) + 0 > MaxEventBytes
      /\ q.pending = IF p.discard THEN p.pending
                     ELSE IF Len(p.pending) + 0 > MaxEventBytes THEN <<>> ELSE p.pending \o <<>>
  BY <1>1, AppendIs
<1>4. Len(p.pending) + 0 = Len(p.pending)
  BY <1>1
<1>5. p.discard \/ ~(Len(p.pending) + 0 > MaxEventBytes)
  BY <1>1, StreamAssumption
<1> HIDE DEF q
<1>6. q.discard = p.discard /\ q.pending = p.pending
  BY <1>2, <1>3, <1>5 DEF IsParser
<1>7. Same(q, p, {})
  BY <1>3, <1>6 DEF Same
<1> QED
  BY <1>3, <1>7, ParserEqual DEF q

(* Bytes that come one after the other are as good as all at once.         *)
LEMMA AppendOneMore ==
  ASSUME NEW p, IsParser(p), NEW t \in Seq(Tokens), NEW b \in Tokens
  PROVE  AppendBytes(p, Append(t, b)) = AppendBytes(AppendBytes(p, t), <<b>>)
<1> DEFINE q == AppendBytes(p, t)
           u == Append(t, b)
           l == AppendBytes(p, u)
           r == AppendBytes(q, <<b>>)
<1>1. /\ u \in Seq(Tokens) /\ Len(u) = Len(t) + 1 /\ u = t \o <<b>>
      /\ <<b>> \in Seq(Tokens) /\ Len(<<b>>) = 1
      /\ Len(t) \in Nat /\ Len(p.pending) \in Nat
      /\ p.pending \in Seq(Tokens)
  BY AppendProperties, AppendIsConcat, LenProperties DEF IsParser
<1>0. Len(u) = Len(t) + 1 /\ Len(t) \in Nat /\ Len(p.pending) \in Nat
  BY <1>1
<1>2. /\ IsParser(q) /\ Same(q, p, {"pending", "discard"})
      /\ q.discard <=> p.discard \/ Len(p.pending) + Len(t) > MaxEventBytes
      /\ q.pending = IF p.discard THEN p.pending
                     ELSE IF Len(p.pending) + Len(t) > MaxEventBytes THEN <<>> ELSE p.pending \o t
  BY AppendIs
<1>3. /\ IsParser(l) /\ Same(l, p, {"pending", "discard"})
      /\ l.discard <=> p.discard \/ Len(p.pending) + Len(u) > MaxEventBytes
      /\ l.pending = IF p.discard THEN p.pending
                     ELSE IF Len(p.pending) + Len(u) > MaxEventBytes THEN <<>> ELSE p.pending \o u
  <2> HIDE DEF u
  <2> QED
    BY <1>1, AppendIs
<1>4. /\ IsParser(r) /\ Same(r, q, {"pending", "discard"})
      /\ r.discard <=> q.discard \/ Len(q.pending) + Len(<<b>>) > MaxEventBytes
      /\ r.pending = IF q.discard THEN q.pending
                     ELSE IF Len(q.pending) + Len(<<b>>) > MaxEventBytes THEN <<>> ELSE q.pending \o <<b>>
  <2> HIDE DEF q
  <2> QED
    BY <1>1, <1>2, AppendIs
<1>5. /\ Len(p.pending \o t) = Len(p.pending) + Len(t)
      /\ (p.pending \o t) \o <<b>> = p.pending \o u
  <2>1. Len(p.pending \o t) = Len(p.pending) + Len(t)
    BY <1>1, ConcatProperties
  <2>2. (p.pending \o t) \o <<b>> = p.pending \o (t \o <<b>>)
    <3>1. \A x, y, z \in Seq(Tokens) : (x \o y) \o z = x \o (y \o z)
      BY ConcatAssociative
    <3>2. p.pending \in Seq(Tokens) /\ <<b>> \in Seq(Tokens)
      BY <1>1
    <3> QED
      BY <3>1, <3>2, Zenon
  <2> QED
    BY <1>1, <2>1, <2>2
<1>5a. Len(p.pending) + Len(u) = (Len(p.pending) + Len(t)) + 1
  <2>1. \A x, y, z \in Nat : z = y + 1 => x + z = (x + y) + 1
    OBVIOUS
  <2>2. Len(u) \in Nat
    BY <1>0
  <2> QED
    BY <1>0, <2>1, <2>2, Zenon
<1> HIDE DEF q, u, l, r
<1>6. r.discard = l.discard /\ r.pending = l.pending
  <2>0. r.discard \in BOOLEAN /\ l.discard \in BOOLEAN /\ MaxEventBytes \in Nat
    BY <1>3, <1>4, StreamAssumption DEF IsParser
  <2>1. CASE p.discard
    BY <1>2, <1>3, <1>4, <2>0, <2>1
  <2>2. CASE ~p.discard /\ Len(p.pending) + Len(t) > MaxEventBytes
    <3>1. Len(p.pending) + Len(t) > MaxEventBytes => Len(p.pending) + Len(u) > MaxEventBytes
      <4>1. \A x, m \in Nat : x > m => x + 1 > m
        OBVIOUS
      <4>2. Len(p.pending) + Len(t) \in Nat
        BY <1>0
      <4> QED
        BY <1>5a, <2>0, <4>1, <4>2, Zenon
    <3>2. q.discard /\ q.pending = <<>>
      BY <1>2, <2>2
    <3>3. r.discard /\ r.pending = <<>>
      BY <1>4, <3>2
    <3>4. l.discard /\ l.pending = <<>>
      BY <1>3, <2>2, <3>1
    <3> QED
      BY <2>0, <3>3, <3>4
  <2>3. CASE ~p.discard /\ ~(Len(p.pending) + Len(t) > MaxEventBytes)
    <3>1. q.pending = p.pending \o t /\ ~q.discard
      BY <1>2, <2>3
    <3>2. Len(q.pending) + Len(<<b>>) = Len(p.pending) + Len(u)
      <4>1. Len(q.pending) = Len(p.pending) + Len(t)
        BY <1>5, <3>1
      <4> QED
        BY <1>1, <1>5a, <4>1
    <3> QED
      BY <1>3, <1>4, <1>5, <2>0, <2>3, <3>1, <3>2
  <2> QED
    BY <2>1, <2>2, <2>3
<1>7. Same(l, r, {})
  BY <1>2, <1>3, <1>4, <1>6 DEF Same
<1> QED
  BY <1>3, <1>4, <1>7, ParserEqual DEF l, r, q, u

(* After k bytes of s.                                                     *)
CountNames == {"input", "output", "cached", "creation"}
(* The positions of the data that are not an end of a line.                *)
Spoken(data) == {i \in DOMAIN data : data[i] # "nl"}

(* The pending text is the text of the line that has not ended.            *)
LineAgrees(p, s, k) ==
  /\ p.discard <=> Len(Text(s, k + 1)) > MaxEventBytes
  /\ p.pending = IF p.discard THEN <<>> ELSE Text(s, k + 1)

(* The data are the bytes said in the event, and an end for each of its    *)
(* lines.                                                                  *)
Gathered(data, s, e) ==
  /\ Cardinality(Spoken(data)) = Cardinality(Said(s, e))
  /\ Len(data) = Cardinality(Said(s, e)) + Cardinality(Field(s, e, "data:"))
  /\ {data[i] : i \in Spoken(data)} = {s[i] : i \in Said(s, e)}

(* The event that has not ended.                                           *)
EventAgrees(p, s, k) ==
  /\ p.eventDiscard <=> ~WithinLimit(s, k + 1)
  /\ ~p.eventDiscard => p.type = TypeOf(s, k + 1) /\ Gathered(p.data, s, k + 1)

(* Each count is the last one told.                                        *)
UsageAgrees(u, s, k) ==
  /\ DOMAIN u = DOMAIN NoUsage /\ u = [name \in DOMAIN NoUsage |-> u[name]]
  /\ \A name \in CountNames : u[name] = Count(s, k, name)
  /\ u.billable = Unknown
  /\ u.input = Unknown => u.uncached = Unknown

(* What the events that have ended say.                                    *)
ResultAgrees(p, s, k) ==
  /\ p.saw <=> ObjectEnds(s, k) # {}
  /\ p.failed <=> Failed(s, k)
  /\ p.completed <=> Completed(s, k)
  /\ UsageAgrees(p.usage, s, k)

(* The parser that was fed the first k bytes of s.                         *)
ParserAgrees(p, s, k) ==
  /\ IsParser(p) /\ Len(p.data) <= MaxEventBytes
  /\ LineAgrees(p, s, k) /\ EventAgrees(p, s, k) /\ ResultAgrees(p, s, k)

(* A line of s ends at byte i.                                             *)
LineEnd(s, i) == s[i] = "cr" \/ (s[i] = "lf" /\ ~(i > 1 /\ s[i - 1] = "cr"))

(* The ends of lines, one byte further.                                    *)
LEMMA LineEndsStep ==
  ASSUME NEW s, NEW k \in Nat
  PROVE  LineEnds(s, k + 1) =
           IF LineEnd(s, k + 1) THEN LineEnds(s, k) \cup {k + 1} ELSE LineEnds(s, k)
<1>1. \A j \in Nat : LineEnds(s, j) = {i \in 1..j : LineEnd(s, i)}
  BY DEF LineEnds, LineEnd
<1>2. LineEnds(s, k) = {i \in 1..k : LineEnd(s, i)}
  BY <1>1
<1>3. LineEnds(s, k + 1) = {i \in 1..(k + 1) : LineEnd(s, i)}
  BY <1>1
<1>4. 1..(k + 1) = 1..k \cup {k + 1}
  OBVIOUS
<1> QED
  BY <1>2, <1>3, <1>4

(* The ends of lines are bytes of s at which a CR or LF stands.            *)
LEMMA LineEndsAre ==
  ASSUME NEW s, NEW k \in Nat
  PROVE  /\ LineEnds(s, k) \subseteq 1..k
         /\ \A l \in LineEnds(s, k) : Break(s, l) /\ l < Begin(s, k + 1)
<1>1. LineEnds(s, k) \subseteq 1..k /\ \A l \in LineEnds(s, k) : Break(s, l)
  BY DEF LineEnds, Break
<1>2. \A i \in Begin(s, k + 1)..((k + 1) - 1) : ~Break(s, i)
  BY BeginIs
<1>3. Begin(s, k + 1) \in 1..(k + 1)
  BY BeginIs
<1>4. ASSUME NEW l \in LineEnds(s, k), ~(l < Begin(s, k + 1)) PROVE FALSE
  <2>1. l \in 1..k
    BY <1>1
  <2>2. l \in Begin(s, k + 1)..((k + 1) - 1)
    BY <1>3, <1>4, <2>1
  <2> QED
    BY <1>1, <1>2, <2>2
<1> QED
  BY <1>1, <1>4

(* The blank lines, one byte further.                                      *)
LEMMA BlanksStep ==
  ASSUME NEW s, NEW k \in Nat
  PROVE  Blanks(s, k + 1) =
           IF LineEnd(s, k + 1) /\ Text(s, k + 1) = <<>>
           THEN Blanks(s, k) \cup {k + 1} ELSE Blanks(s, k)
BY LineEndsStep DEF Blanks

(* The lines of the event, one byte further: none after a blank one.       *)
LEMMA EventLinesStep ==
  ASSUME NEW s, NEW k \in Nat
  PROVE  EventLines(s, k + 2) =
           IF ~LineEnd(s, k + 1) THEN EventLines(s, k + 1)
           ELSE IF Text(s, k + 1) = <<>> THEN {}
           ELSE EventLines(s, k + 1) \cup {k + 1}
<1>1. /\ EventLines(s, k + 2) = {l \in LineEnds(s, k + 1) : \A b \in Blanks(s, k + 1) : b < l}
      /\ EventLines(s, k + 1) = {l \in LineEnds(s, k) : \A b \in Blanks(s, k) : b < l}
  <2>1. (k + 2) - 1 = k + 1 /\ (k + 1) - 1 = k
    OBVIOUS
  <2> QED
    BY <2>1 DEF EventLines
<1>2. \A l \in LineEnds(s, k) : l \in Nat /\ l <= k
  BY LineEndsAre
<1>3. Blanks(s, k) \subseteq LineEnds(s, k)
  BY DEF Blanks
<1>4. CASE ~LineEnd(s, k + 1)
  BY <1>1, <1>4, LineEndsStep, BlanksStep
<1>5. CASE LineEnd(s, k + 1) /\ Text(s, k + 1) = <<>>
  <2>1. LineEnds(s, k + 1) = LineEnds(s, k) \cup {k + 1} /\ k + 1 \in Blanks(s, k + 1)
    BY <1>5, LineEndsStep, BlanksStep
  <2>2. \A l \in LineEnds(s, k + 1) : ~(k + 1 < l)
    BY <1>2, <2>1
  <2>3. EventLines(s, k + 2) = {}
    BY <1>1, <2>1, <2>2
  <2> QED
    BY <1>5, <2>3
<1>6. CASE LineEnd(s, k + 1) /\ Text(s, k + 1) # <<>>
  <2>1. LineEnds(s, k + 1) = LineEnds(s, k) \cup {k + 1} /\ Blanks(s, k + 1) = Blanks(s, k)
    BY <1>6, LineEndsStep, BlanksStep
  <2>2. \A b \in Blanks(s, k) : b < k + 1
    BY <1>2, <1>3
  <2>3. EventLines(s, k + 2) = EventLines(s, k + 1) \cup {k + 1}
    BY <1>1, <2>1, <2>2
  <2> QED
    BY <1>6, <2>3
<1> QED
  BY <1>4, <1>5, <1>6

(* What an event says depends on its lines alone.                          *)
LEMMA SameEvent ==
  ASSUME NEW s, NEW d, NEW e, EventLines(s, d) = EventLines(s, e)
  PROVE  /\ \A name : Field(s, d, name) = Field(s, e, name)
         /\ Said(s, d) = Said(s, e)
         /\ WithinLimit(s, d) <=> WithinLimit(s, e)
         /\ TypeOf(s, d) = TypeOf(s, e)
<1>1. \A name : Field(s, d, name) = Field(s, e, name)
  BY DEF Field
<1>2. Said(s, d) = Said(s, e)
  BY <1>1, Zenon DEF Said
<1>3. WithinLimit(s, d) <=> WithinLimit(s, e)
  BY <1>1, <1>2, Zenon DEF WithinLimit
<1>4. TypeOf(s, d) = TypeOf(s, e)
  <2>1. Field(s, d, "event:") = Field(s, e, "event:")
    BY <1>1, Zenon
  <2> QED
    BY <2>1 DEF TypeOf
<1> QED
  BY <1>1, <1>2, <1>3, <1>4

(* An event has finitely many lines and bytes.                             *)
LEMMA EventIsFinite ==
  ASSUME NEW s, NEW k \in Nat
  PROVE  /\ EventLines(s, k + 1) \subseteq 1..k
         /\ \A l \in EventLines(s, k + 1) : l < Begin(s, k + 1) /\ Text(s, l) # <<>>
         /\ \A name : /\ Field(s, k + 1, name) \subseteq 1..k
                      /\ IsFiniteSet(Field(s, k + 1, name))
                      /\ Cardinality(Field(s, k + 1, name)) \in Nat
         /\ Said(s, k + 1) \subseteq 1..(Begin(s, k + 1) - 1)
         /\ Said(s, k + 1) \subseteq 1..k
         /\ IsFiniteSet(Said(s, k + 1)) /\ Cardinality(Said(s, k + 1)) \in Nat
<1>0. /\ Begin(s, k + 1) \in 1..(k + 1) /\ (k + 1) - 1 = k
      /\ LineEnds(s, k) \subseteq 1..k
      /\ \A l \in LineEnds(s, k) : l < Begin(s, k + 1)
  BY BeginIs, LineEndsAre
<1>1. EventLines(s, k + 1) \subseteq LineEnds(s, k)
  BY <1>0 DEF EventLines
<1>2. \A l \in EventLines(s, k + 1) : Text(s, l) # <<>>
  <2>1. ASSUME NEW l \in EventLines(s, k + 1), Text(s, l) = <<>> PROVE FALSE
    <3>1. l \in LineEnds(s, k) /\ l \in Nat
      BY <1>0, <1>1
    <3>2. l \in Blanks(s, k)
      BY <2>1, <3>1 DEF Blanks
    <3>3. l < l
      BY <1>0, <3>2 DEF EventLines
    <3> QED
      BY <3>1, <3>3
  <2> QED
    BY <2>1
<1>3. \A name : Field(s, k + 1, name) \subseteq EventLines(s, k + 1)
  BY DEF Field
<1>4. IsFiniteSet(1..k)
  BY FS_Interval
<1>5. ASSUME NEW name
      PROVE  /\ Field(s, k + 1, name) \subseteq 1..k
             /\ IsFiniteSet(Field(s, k + 1, name)) /\ Cardinality(Field(s, k + 1, name)) \in Nat
  <2>1. Field(s, k + 1, name) \subseteq 1..k
    BY <1>0, <1>1, <1>3
  <2>2. IsFiniteSet(Field(s, k + 1, name))
    BY <1>4, <2>1, FS_Subset
  <2> QED
    BY <2>1, <2>2, FS_CardinalityType
<1>6. ASSUME NEW i \in Said(s, k + 1)
      PROVE  i \in 1..(Begin(s, k + 1) - 1)
  <2>1. PICK l \in Field(s, k + 1, "data:") : i \in (Begin(s, l) + 1)..(l - 1)
    BY <1>6 DEF Said
  <2>2. l \in 1..k /\ l < Begin(s, k + 1) /\ l \in Nat \ {0}
    BY <1>0, <1>1, <1>3
  <2>3. Begin(s, l) \in 1..l
    BY <2>2, BeginIs
  <2> QED
    BY <1>0, <2>1, <2>2, <2>3
<1>7. Said(s, k + 1) \subseteq 1..k
  BY <1>0, <1>6
<1>8. IsFiniteSet(Said(s, k + 1)) /\ Cardinality(Said(s, k + 1)) \in Nat
  BY <1>4, <1>7, FS_Subset, FS_CardinalityType
<1> QED
  BY <1>0, <1>1, <1>2, <1>5, <1>6, <1>7, <1>8

-----------------------------------------------------------------------------
(* A byte that ends no line.                                               *)

LEMMA NoLineEnds ==
  ASSUME NEW s, NEW k \in Nat, ~LineEnd(s, k + 1)
  PROVE  /\ EventLines(s, k + 2) = EventLines(s, k + 1)
         /\ Blanks(s, k + 1) = Blanks(s, k)
BY EventLinesStep, BlanksStep

(* What is reported stays while no event ends.                             *)
LEMMA SameResult ==
  ASSUME NEW s, NEW k, NEW j, Blanks(s, j) = Blanks(s, k)
  PROVE  /\ ObjectEnds(s, j) = ObjectEnds(s, k)
         /\ Failed(s, j) <=> Failed(s, k)
         /\ Completed(s, j) <=> Completed(s, k)
         /\ \A name : Count(s, j, name) = Count(s, k, name)
<1>1. ObjectEnds(s, j) = ObjectEnds(s, k)
  BY DEF ObjectEnds
<1>2. Failed(s, j) <=> Failed(s, k)
  BY <1>1, Zenon DEF Failed
<1>3. Completed(s, j) <=> Completed(s, k)
  BY <1>1, Zenon DEF Completed
<1>4. \A name : Count(s, j, name) = Count(s, k, name)
  BY <1>1, Zenon DEF Count
<1> QED
  BY <1>1, <1>2, <1>3, <1>4

(* A byte of a line leaves the event and the result alone.                 *)
LEMMA OtherByte ==
  ASSUME NEW s, NEW k \in Nat, NEW p, NEW q, ~LineEnd(s, k + 1),
         EventAgrees(p, s, k), ResultAgrees(p, s, k), Same(q, p, {"pending", "discard", "afterCR"})
  PROVE  EventAgrees(q, s, k + 1) /\ ResultAgrees(q, s, k + 1)
<1>1. /\ EventLines(s, k + 2) = EventLines(s, k + 1)
      /\ Blanks(s, k + 1) = Blanks(s, k) /\ (k + 1) + 1 = k + 2
  BY NoLineEnds
<1>2. /\ \A name : Field(s, k + 2, name) = Field(s, k + 1, name)
      /\ Said(s, k + 2) = Said(s, k + 1)
      /\ WithinLimit(s, k + 2) <=> WithinLimit(s, k + 1)
      /\ TypeOf(s, k + 2) = TypeOf(s, k + 1)
  BY <1>1, SameEvent
<1>3. /\ ObjectEnds(s, k + 1) = ObjectEnds(s, k)
      /\ Failed(s, k + 1) <=> Failed(s, k)
      /\ Completed(s, k + 1) <=> Completed(s, k)
      /\ \A name : Count(s, k + 1, name) = Count(s, k, name)
  BY <1>1, SameResult
<1>4. /\ q.eventDiscard = p.eventDiscard /\ q.type = p.type /\ q.data = p.data
      /\ q.usage = p.usage /\ q.saw = p.saw /\ q.completed = p.completed /\ q.failed = p.failed
  BY DEF Same, Fields
<1>5. EventAgrees(q, s, k + 1)
  <2>1. Gathered(p.data, s, k + 1) => Gathered(p.data, s, k + 2)
    BY <1>2, Zenon DEF Gathered
  <2> QED
    BY <1>1, <1>2, <1>4, <2>1 DEF EventAgrees
<1>6. ResultAgrees(q, s, k + 1)
  BY <1>3, <1>4 DEF ResultAgrees, UsageAgrees
<1> QED
  BY <1>5, <1>6

(* A byte that is not CR or LF joins the pending text.                     *)
LEMMA ByteAppended ==
  ASSUME NEW s \in Seq(Tokens), NEW k \in 0..(Len(s) - 1), NEW p, ParserAgrees(p, s, k),
         ~Break(s, k + 1)
  PROVE  ParserAgrees(AppendBytes(p, <<s[k + 1]>>), s, k + 1)
<1> DEFINE b == s[k + 1]
           t == Text(s, k + 1)
           q == AppendBytes(p, <<b>>)
<1>1. /\ k \in Nat /\ k + 1 \in 1..Len(s) /\ k + 1 \in 1..(Len(s) + 1) /\ b \in Tokens
      /\ (k + 1) + 1 = k + 2
  <2>1. k \in Nat /\ k + 1 \in 1..Len(s) /\ k + 1 \in 1..(Len(s) + 1) /\ (k + 1) + 1 = k + 2
    BY LenProperties
  <2> QED
    BY <2>1, ElementOfSeq
<1>2. t \in Seq(Tokens) /\ Text(s, k + 2) = Append(t, b)
  <2>1. t \in Seq(Tokens)
    BY <1>1, TextIs
  <2> QED
    BY <2>1, TextStep
<1> HIDE DEF t, b
<1>3. /\ <<b>> \in Seq(Tokens) /\ Len(<<b>>) = 1
      /\ Append(t, b) = t \o <<b>> /\ Len(Append(t, b)) = Len(t) + 1 /\ Len(t) \in Nat
  BY <1>1, <1>2, AppendProperties, AppendIsConcat, LenProperties
<1>4. /\ IsParser(p) /\ (p.discard <=> Len(t) > MaxEventBytes)
      /\ p.pending = IF p.discard THEN <<>> ELSE t
  BY DEF ParserAgrees, LineAgrees, t
<1>5. /\ IsParser(q) /\ Same(q, p, {"pending", "discard"})
      /\ q.discard <=> p.discard \/ Len(p.pending) + Len(<<b>>) > MaxEventBytes
      /\ q.pending = IF p.discard THEN p.pending
                     ELSE IF Len(p.pending) + Len(<<b>>) > MaxEventBytes THEN <<>>
                     ELSE p.pending \o <<b>>
  BY <1>3, <1>4, AppendIs
<1>6. LineAgrees(q, s, k + 1)
  <2>0. MaxEventBytes \in Nat /\ Text(s, (k + 1) + 1) = Append(t, b)
    BY <1>1, <1>2, StreamAssumption
  <2>1. CASE p.discard
    <3>1. Len(t) + 1 > MaxEventBytes
      BY <1>3, <1>4, <2>0, <2>1
    <3> QED
      BY <1>3, <1>4, <1>5, <2>0, <2>1, <3>1 DEF LineAgrees, IsParser
  <2>2. CASE ~p.discard
    <3>1. p.pending = t
      BY <1>4, <2>2
    <3> QED
      BY <1>3, <1>5, <2>0, <2>2, <3>1 DEF LineAgrees, IsParser
  <2> QED
    BY <2>1, <2>2
<1>7. ~LineEnd(s, k + 1)
  BY DEF LineEnd, Break
<1>8. EventAgrees(q, s, k + 1) /\ ResultAgrees(q, s, k + 1)
  <2>1. Same(q, p, {"pending", "discard", "afterCR"})
    BY <1>5 DEF Same
  <2> HIDE DEF q
  <2> QED
    BY <1>1, <1>7, <2>1, OtherByte DEF ParserAgrees
<1>9. Len(q.data) <= MaxEventBytes
  BY <1>5 DEF Same, Fields, ParserAgrees
<1> QED
  BY <1>5, <1>6, <1>8, <1>9 DEF ParserAgrees, b

(* The LF of a CRLF is skipped.                                            *)
LEMMA ByteSkipped ==
  ASSUME NEW s \in Seq(Tokens), NEW k \in 0..(Len(s) - 1), NEW p, ParserAgrees(p, s, k),
         Break(s, k + 1), ~LineEnd(s, k + 1)
  PROVE  ParserAgrees(p, s, k + 1)
<1>1. /\ k \in Nat /\ (k + 1) + 1 = k + 2 /\ (k + 1) - 1 = k
      /\ k > 0 => k - 1 \in 0..(Len(s) - 1) /\ (k - 1) + 1 = k /\ (k - 1) + 2 = k + 1
  BY LenProperties
<1>2. k > 0 /\ s[k] = "cr"
  BY <1>1 DEF Break, LineEnd
<1>3. Text(s, k + 1) = <<>>
  <2>1. Break(s, (k - 1) + 1)
    BY <1>1, <1>2 DEF Break
  <2>2. Text(s, (k - 1) + 2) = <<>>
    BY <1>1, <1>2, <2>1, TextStep
  <2> QED
    BY <1>1, <1>2, <2>2
<1>4. Text(s, k + 2) = <<>>
  BY TextStep
<1>5. LineAgrees(p, s, k + 1)
  <2>1. LineAgrees(p, s, k)
    BY DEF ParserAgrees
  <2> QED
    BY <1>1, <1>3, <1>4, <2>1 DEF LineAgrees
<1>6. EventAgrees(p, s, k + 1) /\ ResultAgrees(p, s, k + 1)
  <2>1. Same(p, p, {"pending", "discard", "afterCR"})
    BY DEF Same
  <2> QED
    BY <1>1, <2>1, OtherByte DEF ParserAgrees
<1> QED
  BY <1>5, <1>6 DEF ParserAgrees

-----------------------------------------------------------------------------
(* The shape of the parser.                                                *)

LEMMA DispatchIs ==
  ASSUME NEW p, IsParser(p)
  PROVE  IsParser(Dispatch(p)) /\ Same(Dispatch(p), p, {"usage", "saw", "completed", "failed"})
<1> DEFINE j == Trimmed(p.data)
           r == [p EXCEPT !.completed = TRUE]
           v == [p EXCEPT !.saw = TRUE,
                    !.failed = @ \/ p.type = "error",
                    !.completed = @ \/ p.type = "stop",
                    !.usage = Merge(@, ParseObject(Objects[j[1]], protocol))]
<1>1. Dispatch(p) \in {p, r, v}
  BY DEF Dispatch
<1>2. IsParser(r) /\ Same(r, p, {"usage", "saw", "completed", "failed"})
  BY DEF IsParser, Same, Fields
<1>3. IsParser(v) /\ Same(v, p, {"usage", "saw", "completed", "failed"})
  <2> DEFINE x == Merge(p.usage, ParseObject(Objects[j[1]], protocol))
  <2>1. v = [p EXCEPT !.saw = TRUE, !.failed = p.failed \/ p.type = "error",
                      !.completed = p.completed \/ p.type = "stop", !.usage = x]
    BY DEF IsParser, Fields
  <2> HIDE DEF x, v
  <2> QED
    BY <2>1 DEF IsParser, Same, Fields
<1>4. Same(p, p, {"usage", "saw", "completed", "failed"})
  BY DEF Same
<1> HIDE DEF r, v
<1> QED
  BY <1>1, <1>2, <1>3, <1>4

(* A data line changes the data alone.                                     *)
LEMMA DataLineIs ==
  ASSUME NEW p, IsParser(p), NEW value \in Seq(Tokens)
  PROVE  /\ IsParser(DataLine(p, value))
         /\ Same(DataLine(p, value), p, {"data", "eventDiscard"})
<1>1. p.data \o Append(value, "nl") \in Seq(Joined)
  <2>1. value \in Seq(Joined)
    BY LenProperties DEF Joined
  <2>2. Append(value, "nl") \in Seq(Joined)
    BY <2>1, AppendProperties DEF Joined
  <2> QED
    BY <2>2, ConcatProperties DEF IsParser
<1>2. CASE p.eventDiscard
  <2>1. DataLine(p, value) = p
    BY <1>2 DEF DataLine
  <2> QED
    BY <2>1 DEF Same
<1>3. CASE ~p.eventDiscard /\ Len(p.data) + Len(value) + 1 > MaxEventBytes
  <2>1. DataLine(p, value) = [p EXCEPT !.data = <<>>, !.eventDiscard = TRUE]
    BY <1>3 DEF DataLine
  <2> QED
    BY <2>1, EmptySeq DEF IsParser, Same, Fields
<1>4. CASE ~p.eventDiscard /\ ~(Len(p.data) + Len(value) + 1 > MaxEventBytes)
  <2>1. DataLine(p, value) = [p EXCEPT !.data = p.data \o Append(value, "nl")]
    BY <1>4 DEF DataLine
  <2> QED
    BY <1>1, <2>1 DEF IsParser, Same, Fields
<1> QED
  BY <1>2, <1>3, <1>4

(* What EndLine does with the line it ends.                                *)
LEMMA EndLineCases ==
  ASSUME NEW p, IsParser(p)
  PROVE  LET q == EndLine(p)
             line == p.pending
         IN /\ IsParser(q) /\ q.pending = <<>> /\ ~q.discard
            /\ p.discard => /\ q.eventDiscard
                            /\ Same(q, p, {"pending", "discard", "eventDiscard"})
            /\ ~p.discard /\ line = <<>> =>
                 /\ q.data = <<>> /\ q.type = "" /\ ~q.eventDiscard
                 /\ Same(q, Dispatch(p), {"pending", "discard", "data", "type", "eventDiscard"})
            /\ ~p.discard /\ line # <<>> /\ line[1] = "event:" =>
                 /\ q.type = IF Len(line) = 2 THEN line[2] ELSE ""
                 /\ Same(q, p, {"pending", "discard", "type"})
            /\ ~p.discard /\ line # <<>> /\ line[1] = "data:" =>
                 Same(q, DataLine(p, Tail(line)), {"pending", "discard"})
            /\ ~p.discard /\ line # <<>> /\ line[1] \notin {"event:", "data:"} =>
                 Same(q, p, {"pending", "discard"})
<1> DEFINE line == p.pending
           q == EndLine(p)
           r == IF p.discard THEN SpoilsEvent(p) ELSE ParseLine(p, line)
<1>1. q = [r EXCEPT !.pending = <<>>, !.discard = FALSE]
  BY DEF EndLine
<1>2. ASSUME IsParser(r)
      PROVE  IsParser(q) /\ q.pending = <<>> /\ ~q.discard /\ Same(q, r, {"pending", "discard"})
  <2> HIDE DEF r, q
  <2> QED
    BY <1>1, <1>2, EmptySeq DEF IsParser, Same, Fields
<1>3. CASE p.discard
  <2>1. r = [p EXCEPT !.eventDiscard = TRUE]
    BY <1>3 DEF SpoilsEvent
  <2> HIDE DEF r, q
  <2>2. IsParser(r) /\ r.eventDiscard /\ Same(r, p, {"eventDiscard"})
    BY <2>1 DEF IsParser, Same, Fields
  <2> QED
    BY <1>2, <1>3, <2>2 DEF Same, Fields, q
<1>4. CASE ~p.discard /\ line = <<>>
  <2> DEFINE d == Dispatch(p)
  <2>1. r = [d EXCEPT !.data = <<>>, !.type = "", !.eventDiscard = FALSE]
    BY <1>4 DEF ParseLine
  <2>2. IsParser(d)
    BY DispatchIs
  <2> HIDE DEF d, r, q
  <2>3. /\ IsParser(r) /\ r.data = <<>> /\ r.type = "" /\ ~r.eventDiscard
        /\ Same(r, d, {"data", "type", "eventDiscard"})
    BY <2>1, <2>2, EmptySeq DEF IsParser, Same, Fields
  <2> QED
    BY <1>2, <1>4, <2>3 DEF Same, Fields, q, d
<1>5. CASE ~p.discard /\ line # <<>> /\ line[1] = "event:"
  <2>1. r = [p EXCEPT !.type = IF Len(line) = 2 THEN line[2] ELSE ""]
    BY <1>5 DEF ParseLine
  <2> HIDE DEF r, q
  <2>2. /\ IsParser(r) /\ r.type = (IF Len(line) = 2 THEN line[2] ELSE "")
        /\ Same(r, p, {"type"})
    BY <2>1 DEF IsParser, Same, Fields
  <2> QED
    BY <1>2, <1>5, <2>2 DEF Same, Fields, q
<1>6. CASE ~p.discard /\ line # <<>> /\ line[1] = "data:"
  <2>1. r = DataLine(p, Tail(line))
    BY <1>6 DEF ParseLine
  <2>2. Tail(line) \in Seq(Tokens)
    BY <1>6, HeadTailProperties DEF IsParser
  <2> HIDE DEF r, q
  <2>3. IsParser(r)
    BY <2>1, <2>2, DataLineIs
  <2> QED
    BY <1>2, <1>6, <2>1, <2>3 DEF q
<1>7. CASE ~p.discard /\ line # <<>> /\ line[1] \notin {"event:", "data:"}
  <2>1. r = p
    BY <1>7 DEF ParseLine
  <2> HIDE DEF r, q
  <2> QED
    BY <1>2, <1>7, <2>1 DEF q
<1> QED
  BY <1>3, <1>4, <1>5, <1>6, <1>7

-----------------------------------------------------------------------------
(* A line that is not blank joins the event.                               *)

LEMMA FieldGrows ==
  ASSUME NEW s, NEW k \in Nat, LineEnd(s, k + 1), Text(s, k + 1) # <<>>
  PROVE  /\ EventLines(s, k + 2) = EventLines(s, k + 1) \cup {k + 1}
         /\ Blanks(s, k + 1) = Blanks(s, k)
         /\ \A name : Field(s, k + 2, name) =
                        IF Text(s, k + 1)[1] = name THEN Field(s, k + 1, name) \cup {k + 1}
                        ELSE Field(s, k + 1, name)
<1>1. EventLines(s, k + 2) = EventLines(s, k + 1) \cup {k + 1} /\ Blanks(s, k + 1) = Blanks(s, k)
  BY EventLinesStep, BlanksStep
<1>2. ASSUME NEW name
      PROVE  Field(s, k + 2, name) =
               IF Text(s, k + 1)[1] = name THEN Field(s, k + 1, name) \cup {k + 1}
               ELSE Field(s, k + 1, name)
  BY <1>1 DEF Field
<1> QED
  BY <1>1, <1>2

(* What is said, one data line further.                                    *)
LEMMA DataGrows ==
  ASSUME NEW s \in Seq(Tokens), NEW k \in 0..(Len(s) - 1), LineEnd(s, k + 1),
         Text(s, k + 1) # <<>>, Text(s, k + 1)[1] = "data:"
  PROVE  /\ Said(s, k + 2) = Said(s, k + 1) \cup ((Begin(s, k + 1) + 1)..k)
         /\ Cardinality(Said(s, k + 2)) = Cardinality(Said(s, k + 1)) + (Len(Text(s, k + 1)) - 1)
         /\ Cardinality(Field(s, k + 2, "data:")) = Cardinality(Field(s, k + 1, "data:")) + 1
<1> DEFINE F == Field(s, k + 1, "data:")
           v == (Begin(s, k + 1) + 1)..k
<1>1. /\ k \in Nat /\ (k + 1) - 1 = k /\ Begin(s, k + 1) \in 1..(k + 1)
      /\ k + 1 \in 1..(Len(s) + 1)
  BY LenProperties, BeginIs
<1>2. Len(Text(s, k + 1)) = (k + 1) - Begin(s, k + 1) /\ Text(s, k + 1) \in Seq(Tokens)
  BY <1>1, TextIs, Zenon
<1>3. Begin(s, k + 1) <= k
  BY <1>1, <1>2
<1>4. Field(s, k + 2, "data:") = F \cup {k + 1}
  BY <1>1, FieldGrows
<1>5. Said(s, k + 2) = Said(s, k + 1) \cup v
  <2>1. Said(s, k + 1) = UNION {(Begin(s, l) + 1)..(l - 1) : l \in F}
    BY DEF Said
  <2>2. Said(s, k + 2) = UNION {(Begin(s, l) + 1)..(l - 1) : l \in F \cup {k + 1}}
    BY <1>4 DEF Said
  <2>3. (Begin(s, k + 1) + 1)..((k + 1) - 1) = v
    BY <1>1
  <2> HIDE DEF F, v
  <2> QED
    BY <2>1, <2>2, <2>3
<1>6. Cardinality(F \cup {k + 1}) = Cardinality(F) + 1
  <2>1. F \subseteq 1..k /\ IsFiniteSet(F)
    BY <1>1, EventIsFinite
  <2>2. k + 1 \notin F
    BY <1>1, <2>1
  <2> HIDE DEF F
  <2> QED
    BY <2>1, <2>2, FS_AddElement
<1>7. Cardinality(Said(s, k + 1) \cup v) = Cardinality(Said(s, k + 1)) + (Len(Text(s, k + 1)) - 1)
  <2>1. /\ Said(s, k + 1) \subseteq 1..(Begin(s, k + 1) - 1)
        /\ IsFiniteSet(Said(s, k + 1)) /\ Cardinality(Said(s, k + 1)) \in Nat
    BY <1>1, EventIsFinite
  <2>2. IsFiniteSet(v) /\ Cardinality(v) = k - Begin(s, k + 1)
    <3>1. Begin(s, k + 1) + 1 \in Int /\ k \in Int
      BY <1>1
    <3>2. /\ IsFiniteSet(v)
          /\ Cardinality(v) = IF Begin(s, k + 1) + 1 > k THEN 0 ELSE k - (Begin(s, k + 1) + 1) + 1
      BY <3>1, FS_Interval
    <3>3. (IF Begin(s, k + 1) + 1 > k THEN 0 ELSE k - (Begin(s, k + 1) + 1) + 1) = k - Begin(s, k + 1)
      BY <1>1, <1>3
    <3> QED
      BY <3>2, <3>3
  <2>3. Said(s, k + 1) \cap v = {}
    BY <1>1, <2>1
  <2>4. Cardinality(Said(s, k + 1) \cap v) = 0
    BY <2>3, FS_EmptySet
  <2> HIDE DEF v
  <2>5. Cardinality(Said(s, k + 1) \cup v) =
          Cardinality(Said(s, k + 1)) + Cardinality(v) - Cardinality(Said(s, k + 1) \cap v)
    BY <2>1, <2>2, FS_Union
  <2>6. k - Begin(s, k + 1) = Len(Text(s, k + 1)) - 1
    BY <1>1, <1>2
  <2>7. k - Begin(s, k + 1) \in Nat
    BY <1>1, <1>3
  <2> QED
    BY <2>1, <2>2, <2>4, <2>5, <2>6, <2>7
<1> QED
  BY <1>4, <1>5, <1>6, <1>7

(* The parser's data grow by the value and the end of the line.            *)
LEMMA SpokenGrows ==
  ASSUME NEW data \in Seq(Joined), NEW value \in Seq(Tokens)
  PROVE  LET all == data \o Append(value, "nl")
             new == (Len(data) + 1)..(Len(data) + Len(value))
         IN /\ all \in Seq(Joined)
            /\ Len(all) = Len(data) + (Len(value) + 1)
            /\ Spoken(all) = Spoken(data) \cup new /\ Spoken(data) \cap new = {}
            /\ \A i \in Spoken(data) : all[i] = data[i]
            /\ \A i \in new : all[i] = value[i - Len(data)]
            /\ IsFiniteSet(Spoken(data))
            /\ Cardinality(Spoken(all)) = Cardinality(Spoken(data)) + Len(value)
<1> DEFINE u == Append(value, "nl")
           all == data \o u
           new == (Len(data) + 1)..(Len(data) + Len(value))
<1>1. /\ Len(data) \in Nat /\ DOMAIN data = 1..Len(data)
      /\ Len(value) \in Nat /\ value \in Seq(Joined)
      /\ \A i \in 1..Len(value) : value[i] # "nl"
  <2>1. \A i \in 1..Len(value) : value[i] \in Tokens
    BY ElementOfSeq
  <2>2. value \in Seq(Joined)
    BY LenProperties DEF Joined
  <2> QED
    BY <2>1, <2>2, LenProperties DEF Tokens
<1>2. /\ u \in Seq(Joined) /\ Len(u) = Len(value) + 1
      /\ \A i \in 1..Len(value) : u[i] = value[i]
      /\ u[Len(value) + 1] = "nl"
  <2>1. "nl" \in Joined
    BY DEF Joined
  <2> QED
    BY <1>1, <2>1, AppendProperties
<1> HIDE DEF u
<1>3. /\ all \in Seq(Joined) /\ Len(all) = Len(data) + Len(u)
      /\ \A i \in 1..(Len(data) + Len(u)) :
           all[i] = IF i <= Len(data) THEN data[i] ELSE u[i - Len(data)]
  BY <1>2, ConcatProperties
<1>4. DOMAIN all = 1..(Len(data) + (Len(value) + 1)) /\ Len(all) = Len(data) + (Len(value) + 1)
  <2>1. DOMAIN all = 1..Len(all)
    BY <1>3, LenProperties
  <2> QED
    BY <1>2, <1>3, <2>1
<1> HIDE DEF all
<1>5. \A i \in 1..Len(data) : all[i] = data[i]
  BY <1>1, <1>2, <1>3
<1>6. ASSUME NEW i \in new PROVE all[i] = value[i - Len(data)] /\ all[i] # "nl" /\ i \in DOMAIN all
  <2>1. /\ i \in 1..(Len(data) + Len(u)) /\ ~(i <= Len(data)) /\ i - Len(data) \in 1..Len(value)
        /\ i \in 1..(Len(data) + (Len(value) + 1))
    BY <1>1, <1>2
  <2> QED
    BY <1>1, <1>2, <1>3, <1>4, <2>1
<1>7. all[Len(data) + (Len(value) + 1)] = "nl"
  <2> DEFINE i == Len(data) + (Len(value) + 1)
  <2>1. i \in 1..(Len(data) + Len(u)) /\ ~(i <= Len(data)) /\ i - Len(data) = Len(value) + 1
    BY <1>1, <1>2
  <2> HIDE DEF i
  <2>2. all[i] = u[i - Len(data)]
    BY <1>3, <2>1
  <2> QED
    BY <1>2, <2>1, <2>2 DEF i
<1>8. Spoken(all) = Spoken(data) \cup new
  <2>1. \A i \in DOMAIN all : i \in 1..Len(data) \/ i \in new \/ i = Len(data) + (Len(value) + 1)
    BY <1>1, <1>4
  <2>2. 1..Len(data) \subseteq DOMAIN all
    BY <1>1, <1>4
  <2> HIDE DEF new
  <2> QED
    BY <1>1, <1>5, <1>6, <1>7, <2>1, <2>2 DEF Spoken
<1>9. Spoken(data) \subseteq 1..Len(data) /\ Spoken(data) \cap new = {}
  BY <1>1 DEF Spoken
<1>10. IsFiniteSet(Spoken(data))
  <2>1. IsFiniteSet(1..Len(data))
    BY <1>1, FS_Interval
  <2> QED
    BY <1>9, <2>1, FS_Subset
<1>11. Cardinality(Spoken(data) \cup new) = Cardinality(Spoken(data)) + Len(value)
  <2>1. IsFiniteSet(new) /\ Cardinality(new) = Len(value)
    <3>1. Len(data) + 1 \in Int /\ Len(data) + Len(value) \in Int
      BY <1>1
    <3>2. /\ IsFiniteSet(new)
          /\ Cardinality(new) = IF Len(data) + 1 > Len(data) + Len(value) THEN 0
                                ELSE (Len(data) + Len(value)) - (Len(data) + 1) + 1
      BY <3>1, FS_Interval
    <3>3. (IF Len(data) + 1 > Len(data) + Len(value) THEN 0
           ELSE (Len(data) + Len(value)) - (Len(data) + 1) + 1) = Len(value)
      BY <1>1
    <3> QED
      BY <3>2, <3>3
  <2> HIDE DEF new
  <2>2. Cardinality(Spoken(data) \cup new) =
          Cardinality(Spoken(data)) + Cardinality(new) - Cardinality(Spoken(data) \cap new)
    BY <1>10, <2>1, FS_Union
  <2>3. Cardinality(Spoken(data) \cap new) = 0 /\ Cardinality(Spoken(data)) \in Nat
    BY <1>9, <1>10, FS_EmptySet, FS_CardinalityType
  <2> QED
    BY <1>1, <2>1, <2>2, <2>3
<1>12. \A i \in Spoken(data) : all[i] = data[i]
  BY <1>5, <1>9
<1> HIDE DEF new
<1>13. /\ all \in Seq(Joined) /\ Len(all) = Len(data) + (Len(value) + 1)
       /\ Spoken(all) = Spoken(data) \cup new /\ Spoken(data) \cap new = {}
       /\ \A i \in Spoken(data) : all[i] = data[i]
       /\ \A i \in new : all[i] = value[i - Len(data)]
       /\ IsFiniteSet(Spoken(data))
       /\ Cardinality(Spoken(all)) = Cardinality(Spoken(data)) + Len(value)
  BY <1>3, <1>4, <1>6, <1>8, <1>9, <1>10, <1>11, <1>12
<1> QED
  BY <1>13 DEF all, new, u

(* The data that were gathered and a line more are the data gathered.      *)
LEMMA DataGathered ==
  ASSUME NEW s \in Seq(Tokens), NEW k \in 0..(Len(s) - 1), LineEnd(s, k + 1),
         Text(s, k + 1) # <<>>, Text(s, k + 1)[1] = "data:",
         NEW data \in Seq(Joined), Gathered(data, s, k + 1)
  PROVE  LET value == Tail(Text(s, k + 1))
         IN /\ Gathered(data \o Append(value, "nl"), s, k + 2)
            /\ Len(data) + Len(value) + 1 =
                 Cardinality(Said(s, k + 2)) + Cardinality(Field(s, k + 2, "data:"))
<1> DEFINE t == Text(s, k + 1)
           value == Tail(t)
           all == data \o Append(value, "nl")
           new == (Len(data) + 1)..(Len(data) + Len(value))
           v == (Begin(s, k + 1) + 1)..k
<1>1. /\ k \in Nat /\ Begin(s, k + 1) \in 1..(k + 1) /\ k + 1 \in 1..(Len(s) + 1)
      /\ Len(data) \in Nat
  BY LenProperties, BeginIs
<1>2. /\ t \in Seq(Tokens) /\ Len(t) = (k + 1) - Begin(s, k + 1)
      /\ \A i \in 1..((k + 1) - Begin(s, k + 1)) : t[i] = s[Begin(s, k + 1) + i - 1]
  BY <1>1, TextIs, Zenon
<1>3. /\ value \in Seq(Tokens) /\ Len(value) = Len(t) - 1 /\ Len(value) \in Nat
      /\ \A i \in 1..Len(value) : value[i] = t[i + 1]
  <2>1. t # <<>>
    OBVIOUS
  <2> HIDE DEF t
  <2> QED
    BY <1>2, <2>1, HeadTailProperties, LenProperties
<1>4. /\ all \in Seq(Joined)
      /\ Len(all) = Len(data) + (Len(value) + 1)
      /\ Spoken(all) = Spoken(data) \cup new
      /\ \A i \in Spoken(data) : all[i] = data[i]
      /\ \A i \in new : all[i] = value[i - Len(data)]
      /\ IsFiniteSet(Spoken(data))
      /\ Cardinality(Spoken(all)) = Cardinality(Spoken(data)) + Len(value)
  <2> HIDE DEF value
  <2> QED
    BY <1>3, SpokenGrows
<1>5. /\ Said(s, k + 2) = Said(s, k + 1) \cup v
      /\ Cardinality(Said(s, k + 2)) = Cardinality(Said(s, k + 1)) + (Len(t) - 1)
      /\ Cardinality(Field(s, k + 2, "data:")) = Cardinality(Field(s, k + 1, "data:")) + 1
  BY DataGrows
<1>6. /\ Cardinality(Spoken(data)) = Cardinality(Said(s, k + 1))
      /\ Len(data) = Cardinality(Said(s, k + 1)) + Cardinality(Field(s, k + 1, "data:"))
      /\ {data[i] : i \in Spoken(data)} = {s[i] : i \in Said(s, k + 1)}
  BY DEF Gathered
<1>7. /\ Cardinality(Said(s, k + 1)) \in Nat /\ Cardinality(Field(s, k + 1, "data:")) \in Nat
  BY <1>1, EventIsFinite
<1> HIDE DEF value, t, all
<1>7a. Len(value) = k - Begin(s, k + 1)
  BY <1>1, <1>2, <1>3
<1>8. {value[i - Len(data)] : i \in new} = {s[i] : i \in v}
  <2>1. ASSUME NEW i \in new
        PROVE  \E j \in v : value[i - Len(data)] = s[j]
    <3> DEFINE x == i - Len(data)
    <3>1. /\ x \in 1..Len(value) /\ x + 1 \in 1..((k + 1) - Begin(s, k + 1))
          /\ Begin(s, k + 1) + (x + 1) - 1 \in v
      BY <1>1, <1>7a
    <3> HIDE DEF x, v
    <3>2. value[x] = t[x + 1] /\ t[x + 1] = s[Begin(s, k + 1) + (x + 1) - 1]
      BY <1>2, <1>3, <3>1
    <3> QED
      BY <3>1, <3>2 DEF x
  <2>2. ASSUME NEW j \in v
        PROVE  \E i \in new : value[i - Len(data)] = s[j]
    <3> DEFINE x == j - Begin(s, k + 1)
    <3>1. /\ x \in 1..Len(value) /\ x + 1 \in 1..((k + 1) - Begin(s, k + 1))
          /\ Begin(s, k + 1) + (x + 1) - 1 = j
          /\ Len(data) + x \in new /\ (Len(data) + x) - Len(data) = x
      BY <1>1, <1>2, <1>3
    <3> HIDE DEF x, new
    <3>2. value[x] = t[x + 1] /\ t[x + 1] = s[Begin(s, k + 1) + (x + 1) - 1]
      BY <1>2, <1>3, <3>1
    <3> QED
      BY <3>1, <3>2
  <2> HIDE DEF new, v
  <2> QED
    BY <2>1, <2>2
<1>9. {all[i] : i \in Spoken(all)} = {s[i] : i \in Said(s, k + 2)}
  <2>1. {all[i] : i \in Spoken(all)} =
          {data[i] : i \in Spoken(data)} \cup {value[i - Len(data)] : i \in new}
    <3> HIDE DEF new
    <3> QED
      BY <1>4
  <2>2. {s[i] : i \in Said(s, k + 2)} = {s[i] : i \in Said(s, k + 1)} \cup {s[i] : i \in v}
    <3> HIDE DEF v
    <3> QED
      BY <1>5
  <2> HIDE DEF new, v
  <2> QED
    BY <1>6, <1>8, <2>1, <2>2
<1>10. Cardinality(Spoken(all)) = Cardinality(Said(s, k + 2))
  BY <1>3, <1>4, <1>5, <1>6
<1>12. /\ Len(data) + (Len(value) + 1) =
            (Cardinality(Said(s, k + 1)) + Len(value)) + (Cardinality(Field(s, k + 1, "data:")) + 1)
       /\ Len(data) + Len(value) + 1 =
            (Cardinality(Said(s, k + 1)) + Len(value)) + (Cardinality(Field(s, k + 1, "data:")) + 1)
  <2> DEFINE x == Cardinality(Said(s, k + 1))
             y == Cardinality(Field(s, k + 1, "data:"))
             z == Len(value)
             l == Len(data)
  <2>1. x \in Nat /\ y \in Nat /\ z \in Nat /\ l \in Nat /\ l = x + y
    BY <1>1, <1>3, <1>6, <1>7
  <2> HIDE DEF x, y, z, l
  <2>2. l + (z + 1) = (x + z) + (y + 1) /\ l + z + 1 = (x + z) + (y + 1)
    BY <2>1
  <2> QED
    BY <2>2 DEF x, y, z, l
<1>13. Len(all) = Cardinality(Said(s, k + 2)) + Cardinality(Field(s, k + 2, "data:"))
  BY <1>3, <1>4, <1>5, <1>12
<1>14. Gathered(all, s, k + 2)
  BY <1>9, <1>10, <1>13 DEF Gathered
<1>15. Len(data) + Len(value) + 1 =
         Cardinality(Said(s, k + 2)) + Cardinality(Field(s, k + 2, "data:"))
  BY <1>3, <1>5, <1>12
<1> QED
  BY <1>14, <1>15 DEF all, value, t

(* The limit after another line.                                           *)
LEMMA LimitStep ==
  ASSUME NEW s \in Seq(Tokens), NEW k \in 0..(Len(s) - 1), LineEnd(s, k + 1),
         Text(s, k + 1) # <<>>
  PROVE  /\ WithinLimit(s, k + 2) =>
              WithinLimit(s, k + 1) /\ Len(Text(s, k + 1)) <= MaxEventBytes
         /\ /\ WithinLimit(s, k + 1) /\ Len(Text(s, k + 1)) <= MaxEventBytes
            /\ Cardinality(Said(s, k + 2)) + Cardinality(Field(s, k + 2, "data:"))
                 <= MaxEventBytes
            => WithinLimit(s, k + 2)
         /\ Text(s, k + 1)[1] # "data:" =>
              /\ Field(s, k + 2, "data:") = Field(s, k + 1, "data:")
              /\ Said(s, k + 2) = Said(s, k + 1)
<1>1. k \in Nat /\ k + 1 \in 1..(Len(s) + 1)
  BY LenProperties
<1>2. /\ EventLines(s, k + 2) = EventLines(s, k + 1) \cup {k + 1}
      /\ \A name : Field(s, k + 2, name) =
                     IF Text(s, k + 1)[1] = name THEN Field(s, k + 1, name) \cup {k + 1}
                     ELSE Field(s, k + 1, name)
  BY <1>1, FieldGrows
<1>3. Text(s, k + 1)[1] # "data:" =>
        /\ Field(s, k + 2, "data:") = Field(s, k + 1, "data:")
        /\ Said(s, k + 2) = Said(s, k + 1)
  <2>1. Text(s, k + 1)[1] # "data:" => Field(s, k + 2, "data:") = Field(s, k + 1, "data:")
    BY <1>2
  <2> QED
    BY <2>1 DEF Said
<1>4. /\ Cardinality(Said(s, k + 1)) \in Nat /\ Cardinality(Field(s, k + 1, "data:")) \in Nat
      /\ MaxEventBytes \in Nat
  BY <1>1, EventIsFinite, StreamAssumption
<1>5. Cardinality(Said(s, k + 2)) + Cardinality(Field(s, k + 2, "data:")) <= MaxEventBytes
        => Cardinality(Said(s, k + 1)) + Cardinality(Field(s, k + 1, "data:")) <= MaxEventBytes
  <2>1. CASE Text(s, k + 1)[1] = "data:"
    <3>1. /\ Cardinality(Said(s, k + 2)) = Cardinality(Said(s, k + 1)) + (Len(Text(s, k + 1)) - 1)
          /\ Cardinality(Field(s, k + 2, "data:")) = Cardinality(Field(s, k + 1, "data:")) + 1
      BY <2>1, DataGrows
    <3>2. Len(Text(s, k + 1)) \in Nat \ {0}
      <4>1. Text(s, k + 1) \in Seq(Tokens)
        BY <1>1, TextIs
      <4> QED
        BY <4>1
    <3>3. \A x, y, m \in Nat, z \in Nat \ {0} : (x + (z - 1)) + (y + 1) <= m => x + y <= m
      OBVIOUS
    <3> QED
      BY <1>4, <3>1, <3>2, <3>3, Zenon
  <2>2. CASE Text(s, k + 1)[1] # "data:"
    BY <1>3, <2>2
  <2> QED
    BY <2>1, <2>2
<1>6. WithinLimit(s, k + 2) =>
        WithinLimit(s, k + 1) /\ Len(Text(s, k + 1)) <= MaxEventBytes
  BY <1>2, <1>5 DEF WithinLimit
<1>7. /\ WithinLimit(s, k + 1) /\ Len(Text(s, k + 1)) <= MaxEventBytes
      /\ Cardinality(Said(s, k + 2)) + Cardinality(Field(s, k + 2, "data:")) <= MaxEventBytes
      => WithinLimit(s, k + 2)
  BY <1>2 DEF WithinLimit
<1> QED
  BY <1>3, <1>6, <1>7

(* The type after another line: that of the last event line.               *)
LEMMA TypeStep ==
  ASSUME NEW s \in Seq(Tokens), NEW k \in 0..(Len(s) - 1), LineEnd(s, k + 1),
         Text(s, k + 1) # <<>>
  PROVE  TypeOf(s, k + 2) =
           IF Text(s, k + 1)[1] # "event:" THEN TypeOf(s, k + 1)
           ELSE IF Len(Text(s, k + 1)) = 2 THEN Text(s, k + 1)[2] ELSE ""
<1> DEFINE F == Field(s, k + 1, "event:")
<1>1. k \in Nat
  BY LenProperties
<1>2. Field(s, k + 2, "event:") = IF Text(s, k + 1)[1] = "event:" THEN F \cup {k + 1} ELSE F
  BY <1>1, FieldGrows
<1>3. CASE Text(s, k + 1)[1] = "event:"
  <2>1. F \subseteq 1..k
    BY <1>1, EventIsFinite
  <2> HIDE DEF F
  <2>2. /\ F \cup {k + 1} \in SUBSET Nat /\ k + 1 \in F \cup {k + 1}
        /\ \A y \in F \cup {k + 1} : y <= k + 1
    BY <1>1, <2>1
  <2>3. Max(F \cup {k + 1}) = k + 1
    BY <2>2, LargestIs
  <2> QED
    BY <1>2, <1>3, <2>3 DEF TypeOf
<1>4. CASE Text(s, k + 1)[1] # "event:"
  BY <1>2, <1>4 DEF TypeOf
<1> QED
  BY <1>3, <1>4

(* A single byte between ends of lines is what bytes.TrimSpace leaves.     *)
LEMMA TrimmedIs ==
  ASSUME NEW data \in Seq(Joined)
  PROVE  /\ Len(Trimmed(data)) = 1 <=> \E i : Spoken(data) = {i}
         /\ \A i : Spoken(data) = {i} => Trimmed(data)[1] = data[i]
<1> DEFINE T == Spoken(data)
           x == Min(T)
           y == Max(T)
<1>1. Len(data) \in Nat /\ DOMAIN data = 1..Len(data) /\ T \subseteq 1..Len(data)
  BY LenProperties DEF Spoken
<1>2. Trimmed(data) = IF T = {} THEN <<>> ELSE SubSeq(data, x, y)
  BY DEF Trimmed, Spoken
<1>3. CASE T = {}
  BY <1>2, <1>3
<1>4. CASE T # {}
  <2>1. T \in SUBSET Nat /\ \A i \in T : i <= Len(data)
    BY <1>1
  <2> HIDE DEF T
  <2>2. x \in T /\ \A i \in T : x <= i
    BY <1>4, <2>1, LeastIs
  <2>3. y \in T /\ \A i \in T : i <= y
    BY <1>1, <1>4, <2>1, LargestExists
  <2> HIDE DEF x, y
  <2>4. x \in 1..Len(data) /\ y \in 1..Len(data) /\ x <= y
    BY <1>1, <2>2, <2>3
  <2>5. /\ Len(SubSeq(data, x, y)) = IF x <= y THEN y - x + 1 ELSE 0
        /\ \A i \in 1..(y - x + 1) : SubSeq(data, x, y)[i] = data[x + i - 1]
    <3>1. \A i \in x..y : data[i] \in Joined
      BY <1>1, <2>4, ElementOfSeq
    <3>2. x \in Int /\ y \in Int
      BY <2>4
    <3> QED
      BY <3>1, <3>2, SubSeqProperties
  <2>6. Len(Trimmed(data)) = 1 <=> x = y
    <3>1. Len(Trimmed(data)) = y - x + 1
      BY <1>2, <1>4, <2>4, <2>5
    <3> QED
      BY <1>1, <2>4, <3>1
  <2>7. x = y <=> \E i : T = {i}
    <3>1. ASSUME x = y PROVE T = {x}
      <4>1. \A i \in T : i = x
        BY <1>1, <2>1, <2>2, <2>3, <3>1
      <4> QED
        BY <2>2, <4>1
    <3>2. ASSUME NEW i, T = {i} PROVE x = y
      BY <2>2, <2>3, <3>2
    <3> QED
      BY <3>1, <3>2
  <2>8. ASSUME NEW i, T = {i} PROVE Trimmed(data)[1] = data[i]
    <3>1. x = i /\ y = i
      BY <2>2, <2>3, <2>8
    <3>2. 1 \in 1..(y - x + 1) /\ x + 1 - 1 = i
      BY <1>1, <2>4, <3>1
    <3>3. SubSeq(data, x, y)[1] = data[x + 1 - 1]
      BY <2>5, <3>2
    <3> QED
      BY <1>2, <1>4, <3>2, <3>3
  <2> QED
    BY <2>6, <2>7, <2>8 DEF T
<1> QED
  BY <1>3, <1>4

(* The value an event carries is the one Dispatch looks at.                *)
LEMMA CarriedIs ==
  ASSUME NEW s, NEW k \in Nat, NEW p, IsParser(p), EventAgrees(p, s, k)
  PROVE  LET json == Trimmed(p.data)
         IN Carried(s, k + 1) =
              IF p.eventDiscard \/ p.data = <<>> \/ Len(json) # 1 THEN {} ELSE {json[1]}
<1> DEFINE json == Trimmed(p.data)
           said == Said(s, k + 1)
<1>1. CASE p.eventDiscard
  <2>1. ~WithinLimit(s, k + 1)
    BY <1>1 DEF EventAgrees
  <2> QED
    BY <1>1, <2>1 DEF Carried
<1>2. CASE ~p.eventDiscard
  <2>1. WithinLimit(s, k + 1) /\ Gathered(p.data, s, k + 1)
    BY <1>2 DEF EventAgrees
  <2>2. p.data \in Seq(Joined) /\ DOMAIN p.data = 1..Len(p.data)
    BY LenProperties DEF IsParser
  <2>3. IsFiniteSet(Spoken(p.data))
    <3>1. Len(p.data) \in Nat /\ Spoken(p.data) \subseteq 1..Len(p.data)
      BY <2>2, LenProperties DEF Spoken
    <3>2. IsFiniteSet(1..Len(p.data))
      BY <3>1, FS_Interval
    <3> QED
      BY <3>1, <3>2, FS_Subset
  <2>4. IsFiniteSet(said)
    BY EventIsFinite
  <2>5. /\ Len(json) = 1 <=> \E i : Spoken(p.data) = {i}
        /\ \A i : Spoken(p.data) = {i} => json[1] = p.data[i]
    BY <2>2, TrimmedIs
  <2>6. Cardinality(said) = 1 <=> Len(json) = 1
    BY <2>1, <2>3, <2>5, FS_Singleton DEF Gathered
  <2>7. CASE Len(json) = 1
    <3>1. PICK i : Spoken(p.data) = {i}
      BY <2>5, <2>7
    <3>2. {s[j] : j \in said} = {json[1]}
      <4>1. {s[j] : j \in said} = {p.data[j] : j \in Spoken(p.data)}
        BY <2>1 DEF Gathered
      <4>2. {p.data[j] : j \in Spoken(p.data)} = {p.data[i]}
        BY <3>1
      <4> QED
        BY <2>5, <3>1, <4>1, <4>2
    <3>3. p.data # <<>>
      <4>1. i \in DOMAIN p.data
        BY <3>1 DEF Spoken
      <4> QED
        BY <2>2, <4>1
    <3>4. Carried(s, k + 1) = {s[j] : j \in said}
      BY <2>1, <2>6, <2>7 DEF Carried
    <3> QED
      BY <1>2, <2>7, <3>2, <3>3, <3>4
  <2>8. CASE Len(json) # 1
    BY <2>6, <2>8 DEF Carried
  <2> QED
    BY <2>7, <2>8
<1> QED
  BY <1>1, <1>2

(* The objects after another event.                                        *)
LEMMA BlankEnds ==
  ASSUME NEW s, NEW k \in Nat, LineEnd(s, k + 1), Text(s, k + 1) = <<>>
  PROVE  /\ Blanks(s, k + 1) = Blanks(s, k) \cup {k + 1}
         /\ \A b \in Blanks(s, k) : b \in Nat /\ b <= k
         /\ ObjectEnds(s, k) \subseteq Blanks(s, k)
         /\ ObjectEnds(s, k + 1) =
              IF Carried(s, k + 1) \cap DOMAIN Objects # {}
              THEN ObjectEnds(s, k) \cup {k + 1} ELSE ObjectEnds(s, k)
<1>1. Blanks(s, k + 1) = Blanks(s, k) \cup {k + 1}
  BY BlanksStep
<1>2. \A b \in Blanks(s, k) : b \in Nat /\ b <= k
  BY LineEndsAre DEF Blanks
<1>3. ObjectEnds(s, k) \subseteq Blanks(s, k)
  BY DEF ObjectEnds
<1>4. ObjectEnds(s, k + 1) =
        IF Carried(s, k + 1) \cap DOMAIN Objects # {}
        THEN ObjectEnds(s, k) \cup {k + 1} ELSE ObjectEnds(s, k)
  BY <1>1 DEF ObjectEnds
<1> QED
  BY <1>1, <1>2, <1>3, <1>4

(* A count after another event: what that event tells, if it does.         *)
LEMMA CountStep ==
  ASSUME NEW s, NEW k \in Nat, LineEnd(s, k + 1), Text(s, k + 1) = <<>>, NEW name
  PROVE  Count(s, k + 1, name) =
           IF Carried(s, k + 1) \cap DOMAIN Objects # {} /\ UsageAt(s, k + 1)[name] # Unknown
           THEN UsageAt(s, k + 1)[name] ELSE Count(s, k, name)
<1> DEFINE T(j) == {b \in ObjectEnds(s, j) : UsageAt(s, b)[name] # Unknown}
<1>1. /\ \A b \in Blanks(s, k) : b \in Nat /\ b <= k
      /\ ObjectEnds(s, k) \subseteq Blanks(s, k)
      /\ ObjectEnds(s, k + 1) =
              IF Carried(s, k + 1) \cap DOMAIN Objects # {}
              THEN ObjectEnds(s, k) \cup {k + 1} ELSE ObjectEnds(s, k)
  BY BlankEnds
<1>2. /\ Count(s, k, name) = IF T(k) = {} THEN Unknown ELSE UsageAt(s, Max(T(k)))[name]
      /\ Count(s, k + 1, name) = IF T(k + 1) = {} THEN Unknown ELSE UsageAt(s, Max(T(k + 1)))[name]
  BY DEF Count
<1>3. CASE Carried(s, k + 1) \cap DOMAIN Objects # {} /\ UsageAt(s, k + 1)[name] # Unknown
  <2>1. T(k + 1) = T(k) \cup {k + 1}
    BY <1>1, <1>3
  <2>2. T(k + 1) \in SUBSET Nat /\ k + 1 \in T(k + 1) /\ \A b \in T(k + 1) : b <= k + 1
    BY <1>1, <2>1
  <2> HIDE DEF T
  <2>3. Max(T(k + 1)) = k + 1
    BY <2>2, LargestIs
  <2> QED
    BY <1>2, <1>3, <2>2, <2>3
<1>4. CASE ~(Carried(s, k + 1) \cap DOMAIN Objects # {} /\ UsageAt(s, k + 1)[name] # Unknown)
  <2>1. T(k + 1) = T(k)
    BY <1>1, <1>4
  <2> HIDE DEF T
  <2> QED
    BY <1>2, <1>4, <2>1
<1> QED
  BY <1>3, <1>4

(* Without an input there are no uncached tokens.                          *)
LEMMA ParsedIs ==
  ASSUME NEW o, NEW q
  PROVE  ParseObject(o, q).input = Unknown => ParseObject(o, q).uncached = Unknown
BY DEF ParseObject, Normalize

(* After an end of a line nothing is pending.                              *)
LEMMA NothingPending ==
  ASSUME NEW s \in Seq(Tokens), NEW k \in 0..(Len(s) - 1), LineEnd(s, k + 1),
         NEW q, q.pending = <<>>, ~q.discard, q.discard \in BOOLEAN
  PROVE  LineAgrees(q, s, k + 1)
<1>1. Break(s, k + 1) /\ (k + 1) + 1 = k + 2
  BY LenProperties DEF Break, LineEnd
<1>2. Text(s, k + 2) = <<>>
  BY <1>1, TextStep
<1> QED
  BY <1>1, <1>2, StreamAssumption DEF LineAgrees

(* A line leaves the data within the limit.                                *)
LEMMA DataBounded ==
  ASSUME NEW p, IsParser(p), Len(p.data) <= MaxEventBytes
  PROVE  Len(EndLine(p).data) <= MaxEventBytes
<1> DEFINE line == p.pending
           q == EndLine(p)
           d == DataLine(p, Tail(line))
<1>1. Len(<<>>) <= MaxEventBytes
  BY EmptySeq, StreamAssumption
<1>2. /\ p.discard => Same(q, p, {"pending", "discard", "eventDiscard"})
      /\ ~p.discard /\ line = <<>> => q.data = <<>>
      /\ ~p.discard /\ line # <<>> /\ line[1] = "event:" => Same(q, p, {"pending", "discard", "type"})
      /\ ~p.discard /\ line # <<>> /\ line[1] = "data:" => Same(q, d, {"pending", "discard"})
      /\ ~p.discard /\ line # <<>> /\ line[1] \notin {"event:", "data:"} =>
           Same(q, p, {"pending", "discard"})
  BY EndLineCases
<1> HIDE DEF q
<1>3. CASE ~p.discard /\ line # <<>> /\ line[1] = "data:"
  <2> DEFINE value == Tail(line)
  <2>1. value \in Seq(Tokens)
    BY <1>3, HeadTailProperties DEF IsParser
  <2>2. d = DataLine(p, value)
    OBVIOUS
  <2> HIDE DEF value
  <2>3. p.data \in Seq(Joined) /\ Len(p.data) \in Nat /\ Len(value) \in Nat /\ MaxEventBytes \in Nat
    BY <2>1, LenProperties, StreamAssumption DEF IsParser
  <2>4. Len(d.data) <= MaxEventBytes
    <3>1. CASE p.eventDiscard
      BY <2>2, <3>1 DEF DataLine
    <3>2. CASE ~p.eventDiscard /\ Len(p.data) + Len(value) + 1 > MaxEventBytes
      <4>1. d = [p EXCEPT !.data = <<>>, !.eventDiscard = TRUE]
        BY <2>2, <3>2 DEF DataLine
      <4> HIDE DEF d
      <4> QED
        BY <1>1, <4>1 DEF IsParser, Fields
    <3>3. CASE ~p.eventDiscard /\ ~(Len(p.data) + Len(value) + 1 > MaxEventBytes)
      <4>1. d = [p EXCEPT !.data = p.data \o Append(value, "nl")]
        BY <2>2, <3>3 DEF DataLine
      <4> HIDE DEF d
      <4>2. d.data = p.data \o Append(value, "nl")
        BY <4>1 DEF IsParser, Fields
      <4>3. Len(d.data) = Len(p.data) + (Len(value) + 1)
        BY <2>1, <2>3, <4>2, SpokenGrows
      <4>4. \A x, y, m \in Nat : ~(x + y + 1 > m) => x + (y + 1) <= m
        OBVIOUS
      <4>5. Len(p.data) + (Len(value) + 1) <= MaxEventBytes
        BY <2>3, <3>3, <4>4, Zenon
      <4> QED
        BY <4>3, <4>5
    <3> QED
      BY <3>1, <3>2, <3>3
  <2> QED
    BY <1>2, <1>3, <2>4 DEF Same, Fields, q
<1>4. CASE ~(~p.discard /\ line # <<>> /\ line[1] = "data:")
  BY <1>1, <1>2, <1>4 DEF Same, Fields, q
<1> QED
  BY <1>3, <1>4

(* The end of a line that is not blank.                                    *)
LEMMA SomeLineEnded ==
  ASSUME NEW s \in Seq(Tokens), NEW k \in 0..(Len(s) - 1), NEW p, ParserAgrees(p, s, k),
         LineEnd(s, k + 1), Text(s, k + 1) # <<>>
  PROVE  ParserAgrees(EndLine(p), s, k + 1)
<1> DEFINE t == Text(s, k + 1)
           q == EndLine(p)
<1>1. /\ k \in Nat /\ k + 1 \in 1..(Len(s) + 1) /\ (k + 1) + 1 = k + 2 /\ MaxEventBytes \in Nat
      /\ IsParser(p) /\ EventAgrees(p, s, k) /\ ResultAgrees(p, s, k)
      /\ p.discard <=> Len(t) > MaxEventBytes
      /\ ~p.discard => p.pending = t
      /\ p.discard \in BOOLEAN /\ p.eventDiscard \in BOOLEAN /\ p.data \in Seq(Joined)
      /\ Len(p.data) <= MaxEventBytes
  BY LenProperties, StreamAssumption DEF ParserAgrees, LineAgrees, IsParser
<1>2. t \in Seq(Tokens) /\ Len(t) \in Nat
  BY <1>1, TextIs, LenProperties
<1>3. /\ IsParser(q) /\ q.pending = <<>> /\ ~q.discard
      /\ p.discard => q.eventDiscard /\ Same(q, p, {"pending", "discard", "eventDiscard"})
      /\ ~p.discard /\ t[1] = "event:" =>
           /\ q.type = IF Len(t) = 2 THEN t[2] ELSE ""
           /\ Same(q, p, {"pending", "discard", "type"})
      /\ ~p.discard /\ t[1] = "data:" =>
           Same(q, DataLine(p, Tail(t)), {"pending", "discard"})
      /\ ~p.discard /\ t[1] \notin {"event:", "data:"} => Same(q, p, {"pending", "discard"})
  BY <1>1, EndLineCases
<1>4. LineAgrees(q, s, k + 1) /\ Len(q.data) <= MaxEventBytes
  BY <1>1, <1>3, NothingPending, DataBounded DEF IsParser
<1>5. /\ WithinLimit(s, k + 2) => WithinLimit(s, k + 1) /\ Len(t) <= MaxEventBytes
      /\ /\ WithinLimit(s, k + 1) /\ Len(t) <= MaxEventBytes
         /\ Cardinality(Said(s, k + 2)) + Cardinality(Field(s, k + 2, "data:")) <= MaxEventBytes
         => WithinLimit(s, k + 2)
      /\ t[1] # "data:" => /\ Field(s, k + 2, "data:") = Field(s, k + 1, "data:")
                           /\ Said(s, k + 2) = Said(s, k + 1)
  BY LimitStep
<1>6. /\ t[1] # "event:" => TypeOf(s, k + 2) = TypeOf(s, k + 1)
      /\ t[1] = "event:" => TypeOf(s, k + 2) = IF Len(t) = 2 THEN t[2] ELSE ""
  BY TypeStep
<1>7. Blanks(s, k + 1) = Blanks(s, k)
  BY <1>1, FieldGrows
<1>8. ASSUME NEW r, r.usage = p.usage, r.saw = p.saw, r.completed = p.completed,
             r.failed = p.failed
      PROVE  ResultAgrees(r, s, k + 1)
  <2>1. /\ ObjectEnds(s, k + 1) = ObjectEnds(s, k)
        /\ Failed(s, k + 1) <=> Failed(s, k)
        /\ Completed(s, k + 1) <=> Completed(s, k)
        /\ \A name : Count(s, k + 1, name) = Count(s, k, name)
    BY <1>7, SameResult
  <2> QED
    BY <1>1, <1>8, <2>1 DEF ResultAgrees, UsageAgrees
<1> HIDE DEF q
<1>9. CASE p.discard
  <2>1. q.eventDiscard /\ Same(q, p, {"pending", "discard", "eventDiscard"})
    BY <1>3, <1>9
  <2>2. ~WithinLimit(s, k + 2)
    BY <1>1, <1>2, <1>5, <1>9
  <2>3. EventAgrees(q, s, k + 1)
    BY <1>1, <2>1, <2>2 DEF EventAgrees
  <2>4. ResultAgrees(q, s, k + 1)
    BY <1>8, <2>1 DEF Same, Fields
  <2> QED
    BY <1>3, <1>4, <2>3, <2>4 DEF ParserAgrees, q
<1>10. CASE ~p.discard /\ t[1] # "data:"
  <2>1. /\ Same(q, p, {"pending", "discard", "type"})
        /\ q.type = IF t[1] # "event:" THEN p.type ELSE IF Len(t) = 2 THEN t[2] ELSE ""
    BY <1>3, <1>10 DEF Same, Fields
  <2>2. WithinLimit(s, k + 2) <=> WithinLimit(s, k + 1)
    <3>1. Len(t) <= MaxEventBytes
      BY <1>1, <1>2, <1>10
    <3> QED
      BY <1>5, <1>10, <3>1 DEF WithinLimit
  <2>3. EventAgrees(q, s, k + 1)
    <3>1. q.eventDiscard = p.eventDiscard /\ q.data = p.data
      BY <2>1 DEF Same, Fields
    <3>2. Gathered(p.data, s, k + 1) => Gathered(p.data, s, k + 2)
      BY <1>5, <1>10 DEF Gathered
    <3>3. ~p.eventDiscard => q.type = TypeOf(s, k + 2)
      BY <1>1, <1>6, <2>1 DEF EventAgrees
    <3> QED
      BY <1>1, <2>2, <3>1, <3>2, <3>3 DEF EventAgrees
  <2>4. ResultAgrees(q, s, k + 1)
    BY <1>8, <2>1 DEF Same, Fields
  <2> QED
    BY <1>3, <1>4, <2>3, <2>4 DEF ParserAgrees, q
<1>11. CASE ~p.discard /\ t[1] = "data:"
  <2> DEFINE value == Tail(t)
             d == DataLine(p, value)
  <2>1. Same(q, d, {"pending", "discard"})
    BY <1>3, <1>11
  <2>2. value \in Seq(Tokens)
    <3>1. t # <<>>
      OBVIOUS
    <3> HIDE DEF t
    <3> QED
      BY <1>2, <3>1, HeadTailProperties
  <2>3. Same(d, p, {"data", "eventDiscard"})
    <3> HIDE DEF value
    <3> QED
      BY <1>1, <2>2, DataLineIs
  <2>4. ResultAgrees(q, s, k + 1)
    BY <1>8, <2>1, <2>3 DEF Same, Fields
  <2>5. TypeOf(s, k + 2) = TypeOf(s, k + 1) /\ q.type = p.type
    BY <1>6, <1>11, <2>1, <2>3 DEF Same, Fields
  <2>6. q.eventDiscard = d.eventDiscard /\ q.data = d.data
    BY <2>1 DEF Same, Fields
  <2>7. EventAgrees(q, s, k + 1)
    <3>1. CASE p.eventDiscard
      <4>1. d = p
        BY <3>1 DEF DataLine
      <4>2. ~WithinLimit(s, k + 2)
        BY <1>1, <1>5, <3>1 DEF EventAgrees
      <4> QED
        BY <1>1, <2>6, <3>1, <4>1, <4>2 DEF EventAgrees
    <3>2. CASE ~p.eventDiscard
      <4>1. WithinLimit(s, k + 1) /\ p.type = TypeOf(s, k + 1) /\ Gathered(p.data, s, k + 1)
        BY <1>1, <3>2 DEF EventAgrees
      <4>2. /\ Gathered(p.data \o Append(value, "nl"), s, k + 2)
            /\ Len(p.data) + Len(value) + 1 =
                 Cardinality(Said(s, k + 2)) + Cardinality(Field(s, k + 2, "data:"))
        BY <1>1, <1>11, <4>1, DataGathered
      <4>3. Len(t) <= MaxEventBytes
        BY <1>1, <1>2, <1>11
      <4>4. Len(p.data) + Len(value) + 1 \in Nat
        <5> HIDE DEF value
        <5>1. Len(p.data) \in Nat /\ Len(value) \in Nat
          BY <1>1, <2>2, LenProperties
        <5> QED
          BY <5>1
      <4> HIDE DEF value
      <4>5. WithinLimit(s, k + 2) <=> ~(Len(p.data) + Len(value) + 1 > MaxEventBytes)
        <5>1. WithinLimit(s, k + 2) =>
                Cardinality(Said(s, k + 2)) + Cardinality(Field(s, k + 2, "data:")) <= MaxEventBytes
          BY DEF WithinLimit
        <5>2. WithinLimit(s, k + 2) <=> Len(p.data) + Len(value) + 1 <= MaxEventBytes
          BY <1>5, <4>1, <4>2, <4>3, <5>1
        <5>3. \A x, m \in Nat : x <= m <=> ~(x > m)
          OBVIOUS
        <5> QED
          BY <1>1, <4>4, <5>2, <5>3, Zenon
      <4>6. CASE Len(p.data) + Len(value) + 1 > MaxEventBytes
        <5>1. d = [p EXCEPT !.data = <<>>, !.eventDiscard = TRUE]
          BY <3>2, <4>6 DEF DataLine
        <5>2. d.eventDiscard
          BY <1>1, <5>1 DEF IsParser, Fields
        <5> QED
          BY <1>1, <2>6, <4>5, <4>6, <5>2 DEF EventAgrees
      <4>7. CASE ~(Len(p.data) + Len(value) + 1 > MaxEventBytes)
        <5>1. d = [p EXCEPT !.data = p.data \o Append(value, "nl")]
          BY <3>2, <4>7 DEF DataLine
        <5>2. d.data = p.data \o Append(value, "nl") /\ d.eventDiscard = p.eventDiscard
          BY <1>1, <5>1 DEF IsParser, Fields
        <5> QED
          BY <1>1, <2>5, <2>6, <3>2, <4>1, <4>2, <4>5, <4>7, <5>2 DEF EventAgrees
      <4> QED
        BY <4>6, <4>7
    <3> QED
      BY <1>1, <3>1, <3>2
  <2> QED
    BY <1>3, <1>4, <2>4, <2>7 DEF ParserAgrees, q
<1> QED
  BY <1>1, <1>9, <1>10, <1>11 DEF q

(* The end of a blank line, which dispatches the event.                    *)
LEMMA BlankEnded ==
  ASSUME NEW s \in Seq(Tokens), NEW k \in 0..(Len(s) - 1), NEW p, ParserAgrees(p, s, k),
         LineEnd(s, k + 1), Text(s, k + 1) = <<>>
  PROVE  ParserAgrees(EndLine(p), s, k + 1)
<1> DEFINE q == EndLine(p)
           d == Dispatch(p)
           e == k + 1
           json == Trimmed(p.data)
           C == Carried(s, e)
<1>1. /\ k \in Nat /\ (k + 1) + 1 = k + 2 /\ MaxEventBytes \in Nat
      /\ IsParser(p) /\ EventAgrees(p, s, k) /\ ResultAgrees(p, s, k)
      /\ ~p.discard /\ p.pending = <<>>
  BY LenProperties, StreamAssumption DEF ParserAgrees, LineAgrees, IsParser
<1>2. /\ IsParser(q) /\ q.pending = <<>> /\ ~q.discard
      /\ q.data = <<>> /\ q.type = "" /\ ~q.eventDiscard
      /\ Same(q, d, {"pending", "discard", "data", "type", "eventDiscard"})
  BY <1>1, EndLineCases
<1>3. LineAgrees(q, s, k + 1) /\ Len(q.data) <= MaxEventBytes
  <2>1. LineAgrees(q, s, k + 1)
    BY <1>2, NothingPending DEF IsParser
  <2>2. Len(q.data) = 0
    BY <1>2, EmptySeq
  <2>3. Len(q.data) <= MaxEventBytes
    BY <2>2, <1>1
  <2> QED
    BY <2>1, <2>3
<1>4. EventAgrees(q, s, k + 1)
  <2>1. EventLines(s, k + 2) = {}
    BY <1>1, EventLinesStep
  <2>2. /\ \A name : Field(s, k + 2, name) = {}
        /\ Field(s, k + 2, "data:") = {} /\ Field(s, k + 2, "event:") = {}
        /\ Said(s, k + 2) = {}
    BY <2>1 DEF Field, Said
  <2>3. Cardinality({}) = 0 /\ 0 + 0 = 0 /\ 0 <= MaxEventBytes
    BY <1>1, FS_EmptySet
  <2>4. WithinLimit(s, k + 2)
    <3>1. Cardinality(Said(s, k + 2)) + Cardinality(Field(s, k + 2, "data:")) = 0
      BY <2>2, <2>3
    <3> QED
      BY <2>1, <2>3, <3>1 DEF WithinLimit
  <2>5. TypeOf(s, k + 2) = ""
    BY <2>2 DEF TypeOf
  <2>6. Spoken(<<>>) = {}
    BY DEF Spoken
  <2>7. Gathered(<<>>, s, k + 2)
    <3>1. Len(<<>>) = 0
      BY EmptySeq
    <3>2. Len(<<>>) = Cardinality(Said(s, k + 2)) + Cardinality(Field(s, k + 2, "data:"))
      BY <2>2, <2>3, <3>1
    <3>3. Cardinality(Spoken(<<>>)) = Cardinality(Said(s, k + 2))
      BY <2>2, <2>6
    <3>4. {<<>>[i] : i \in Spoken(<<>>)} = {s[i] : i \in Said(s, k + 2)}
      BY <2>2, <2>6
    <3> QED
      BY <3>2, <3>3, <3>4 DEF Gathered
  <2> QED
    BY <1>1, <1>2, <2>4, <2>5, <2>7 DEF EventAgrees
<1>5. C = IF p.eventDiscard \/ p.data = <<>> \/ Len(json) # 1 THEN {} ELSE {json[1]}
  BY <1>1, CarriedIs
<1>6. /\ Blanks(s, e) = Blanks(s, k) \cup {e}
      /\ ObjectEnds(s, e) = IF C \cap DOMAIN Objects # {} THEN ObjectEnds(s, k) \cup {e}
                            ELSE ObjectEnds(s, k)
  BY <1>1, BlankEnds
<1>7. \A name : Count(s, e, name) =
                  IF C \cap DOMAIN Objects # {} /\ UsageAt(s, e)[name] # Unknown
                  THEN UsageAt(s, e)[name] ELSE Count(s, k, name)
  BY <1>1, CountStep
<1>8. p.saw \in BOOLEAN /\ p.failed \in BOOLEAN /\ p.completed \in BOOLEAN
  BY <1>1 DEF IsParser
<1>9. C # {} => p.type = TypeOf(s, e)
  BY <1>1, <1>5 DEF EventAgrees
<1>10. q.usage = d.usage /\ q.saw = d.saw /\ q.failed = d.failed /\ q.completed = d.completed
  BY <1>2 DEF Same, Fields
<1>11. /\ p.saw <=> ObjectEnds(s, k) # {}
       /\ p.failed <=> Failed(s, k)
       /\ p.completed <=> Completed(s, k)
       /\ UsageAgrees(p.usage, s, k)
  BY <1>1 DEF ResultAgrees
<1> HIDE DEF q, d, json, C, e
<1>12. CASE C \cap DOMAIN Objects = {}
  <2>1. Failed(s, e) <=> Failed(s, k)
    BY <1>6, <1>12 DEF Failed
  <2>2. Completed(s, e) <=> Completed(s, k) \/ "[DONE]" \in C
    BY <1>6, <1>12 DEF Completed, C
  <2>3. \A name : Count(s, e, name) = Count(s, k, name)
    BY <1>7, <1>12
  <2>4. ObjectEnds(s, e) = ObjectEnds(s, k)
    BY <1>6, <1>12
  <2>5. CASE "[DONE]" \in C
    <3>1. d = [p EXCEPT !.completed = TRUE]
      BY <1>5, <2>5 DEF Dispatch, d, json
    <3>2. d.completed /\ d.usage = p.usage /\ d.saw = p.saw /\ d.failed = p.failed
      BY <1>1, <3>1 DEF IsParser, Fields
    <3> QED
      BY <1>2, <1>3, <1>4, <1>8, <1>10, <1>11, <2>1, <2>2, <2>3, <2>4, <2>5, <3>2
         DEF ParserAgrees, ResultAgrees, UsageAgrees, q, e
  <2>6. CASE "[DONE]" \notin C
    <3>1. d = p
      BY <1>5, <1>12, <2>6 DEF Dispatch, d, json
    <3> QED
      BY <1>2, <1>3, <1>4, <1>8, <1>10, <1>11, <2>1, <2>2, <2>3, <2>4, <2>6, <3>1
         DEF ParserAgrees, ResultAgrees, UsageAgrees, q, e
  <2> QED
    BY <2>5, <2>6
<1>13. CASE C \cap DOMAIN Objects # {}
  <2>1. C = {json[1]} /\ json[1] \in DOMAIN Objects /\ ~p.eventDiscard /\ p.data # <<>>
        /\ Len(json) = 1
    BY <1>5, <1>13
  <2>2. json[1] # "[DONE]"
    BY <2>1, StreamAssumption
  <2> DEFINE v == ParseObject(Objects[json[1]], protocol)
  <2>3. d = [p EXCEPT !.saw = TRUE,
                      !.failed = @ \/ p.type = "error",
                      !.completed = @ \/ p.type = "stop",
                      !.usage = Merge(@, v)]
    BY <2>1, <2>2 DEF Dispatch, d, json
  <2>4. UsageAt(s, e) = v
    <3>1. (CHOOSE x \in C : TRUE) = json[1]
      BY <2>1
    <3> QED
      BY <3>1 DEF UsageAt, C
  <2>5. v.input = Unknown => v.uncached = Unknown
    BY ParsedIs
  <2> HIDE DEF v
  <2>6. /\ d.saw /\ (d.failed <=> p.failed \/ p.type = "error")
        /\ (d.completed <=> p.completed \/ p.type = "stop")
        /\ d.usage = Merge(p.usage, v)
    BY <1>1, <1>8, <2>3 DEF IsParser, Fields
  <2>7. p.type = TypeOf(s, e)
    BY <1>9, <2>1
  <2>8. ObjectEnds(s, e) = ObjectEnds(s, k) \cup {e}
    BY <1>6, <1>13
  <2>9. Failed(s, e) <=> Failed(s, k) \/ p.type = "error"
    BY <2>7, <2>8 DEF Failed
  <2>10. Completed(s, e) <=> Completed(s, k) \/ p.type = "stop"
    <3>1. "[DONE]" \notin Carried(s, e)
      BY <2>1, <2>2 DEF C
    <3> QED
      BY <1>6, <2>7, <2>8, <3>1 DEF Completed
  <2>11. UsageAgrees(d.usage, s, e)
    <3>1. /\ DOMAIN p.usage = DOMAIN NoUsage
          /\ \A name \in CountNames : p.usage[name] = Count(s, k, name)
          /\ p.usage.billable = Unknown
          /\ p.usage.input = Unknown => p.usage.uncached = Unknown
      BY <1>11 DEF UsageAgrees
    <3>2. /\ DOMAIN d.usage = DOMAIN NoUsage
          /\ d.usage = [name \in DOMAIN NoUsage |-> d.usage[name]]
          /\ \A name \in DOMAIN NoUsage :
               d.usage[name] = IF v[name] = Unknown \/ name = "billable" THEN p.usage[name]
                               ELSE v[name]
      BY <2>6, <3>1 DEF Merge
    <3>3. \A name \in CountNames : d.usage[name] = Count(s, e, name)
      <4>1. \A name : Count(s, e, name) =
                        IF v[name] # Unknown THEN v[name] ELSE Count(s, k, name)
        BY <1>7, <1>13, <2>4
      <4>2. \A name \in CountNames : name # "billable" /\ name \in DOMAIN NoUsage
        BY DEF CountNames, NoUsage
      <4> QED
        BY <3>1, <3>2, <4>1, <4>2
    <3>4. {"input", "uncached", "billable"} \subseteq DOMAIN NoUsage
      BY DEF NoUsage
    <3>5. d.usage.billable = Unknown
      BY <3>1, <3>2, <3>4
    <3>6. d.usage.input = Unknown => d.usage.uncached = Unknown
      BY <2>5, <3>1, <3>2, <3>4
    <3> QED
      BY <3>2, <3>3, <3>5, <3>6 DEF UsageAgrees
  <2>12. ResultAgrees(q, s, e)
    <3>1. ObjectEnds(s, e) # {}
      BY <2>8
    <3> QED
      BY <1>10, <1>11, <2>6, <2>9, <2>10, <2>11, <3>1 DEF ResultAgrees
  <2> QED
    BY <1>2, <1>3, <1>4, <2>12 DEF ParserAgrees, q, e
<1> QED
  BY <1>12, <1>13

LEMMA LineEnded ==
  ASSUME NEW s \in Seq(Tokens), NEW k \in 0..(Len(s) - 1), NEW p, ParserAgrees(p, s, k),
         LineEnd(s, k + 1)
  PROVE  ParserAgrees(EndLine(p), s, k + 1)
BY SomeLineEnded, BlankEnded

(* The equation of LinesOf, and that f solves it up to byte m.             *)
LineAfter(f, p, c, i) ==
  IF i = 0 THEN p
  ELSE IF EndsLine(c, i, p.afterCR) THEN EndLine(AppendBytes(f[i - 1], Text(c, i)))
  ELSE f[i - 1]

IsLines(f, p, c, m) == f = [i \in 0..m |-> LineAfter(f, p, c, i)]

(* The equation has a solution, whatever the length of the chunk.          *)
LEMMA LinesExist ==
  ASSUME NEW p, NEW c, NEW m \in Nat
  PROVE  \E f : IsLines(f, p, c, m)
<1> USE DEF IsLines
<1> DEFINE Has(x) == \E f : IsLines(f, p, c, x)
           B == {x \in Nat : ~Has(x)}
<1>1. SUFFICES ASSUME B # {} PROVE FALSE
  OBVIOUS
<1>2. PICK x \in B : \A y \in B : x <= y
  <2>1. B \in SUBSET Nat
    OBVIOUS
  <2> HIDE DEF B
  <2> QED
    BY <1>1, <2>1, LeastNumber
<1>3. CASE x = 0
  <2> DEFINE f == [i \in 0..0 |-> p]
  <2>1. f = [i \in 0..0 |-> LineAfter(f, p, c, i)]
    BY DEF LineAfter
  <2> QED
    BY <1>2, <1>3, <2>1
<1>4. CASE x # 0
  <2>0. x \in Nat /\ x - 1 \in Nat /\ ~(x <= x - 1)
    BY <1>4
  <2>1. Has(x - 1)
    BY <1>2, <2>0
  <2>2. PICK f : f = [i \in 0..(x - 1) |-> LineAfter(f, p, c, i)]
    BY <2>1
  <2> DEFINE h == [i \in 0..x |-> IF i < x THEN f[i] ELSE LineAfter(f, p, c, x)]
  <2>3. ASSUME NEW i \in 0..x PROVE h[i] = LineAfter(h, p, c, i)
    <3>1. i # 0 => i - 1 \in 0..(x - 1) /\ h[i - 1] = f[i - 1]
      BY <2>0
    <3>2. LineAfter(h, p, c, i) = LineAfter(f, p, c, i)
      <4> HIDE DEF h
      <4> QED
        BY <3>1 DEF LineAfter
    <3>3. CASE i < x
      <4>1. i \in 0..(x - 1)
        BY <2>0, <3>3
      <4>2. f[i] = LineAfter(f, p, c, i)
        BY <2>2, <4>1
      <4> QED
        BY <3>2, <3>3, <4>2
    <3>4. CASE ~(i < x)
      <4>1. i = x
        BY <2>0, <3>4
      <4> QED
        BY <3>2, <3>4, <4>1
    <3> QED
      BY <3>3, <3>4
  <2>4. h = [i \in 0..x |-> LineAfter(h, p, c, i)]
    BY <2>3
  <2>5. Has(x)
    <3> HIDE DEF h
    <3> QED
      BY <2>4
  <2> QED
    BY <1>2, <2>5
<1> QED
  BY <1>3, <1>4

(* LinesOf is that solution.                                               *)
LEMMA LinesAre ==
  ASSUME NEW p, NEW c \in Seq(Tokens)
  PROVE  /\ LinesOf(p, c)[0] = p
         /\ \A i \in 1..Len(c) :
              LinesOf(p, c)[i] =
                IF EndsLine(c, i, p.afterCR)
                THEN EndLine(AppendBytes(LinesOf(p, c)[i - 1], Text(c, i)))
                ELSE LinesOf(p, c)[i - 1]
<1> DEFINE l == CHOOSE f : IsLines(f, p, c, Len(c))
<1>1. Len(c) \in Nat
  BY LenProperties
<1>2. LinesOf(p, c) = l
  BY DEF LinesOf, LineAfter, IsLines
<1>3. \E f : IsLines(f, p, c, Len(c))
  BY <1>1, LinesExist
<1>4. IsLines(l, p, c, Len(c))
  BY <1>3
<1> HIDE DEF l
<1>5. l[0] = p
  BY <1>1, <1>4 DEF LineAfter, IsLines
<1>6. ASSUME NEW i \in 1..Len(c)
      PROVE  l[i] = IF EndsLine(c, i, p.afterCR)
                    THEN EndLine(AppendBytes(l[i - 1], Text(c, i))) ELSE l[i - 1]
  <2>1. i \in 0..Len(c) /\ i # 0
    BY <1>1
  <2>2. l[i] = LineAfter(l, p, c, i)
    BY <1>4, <2>1 DEF IsLines
  <2> QED
    BY <2>1, <2>2 DEF LineAfter
<1> QED
  BY <1>2, <1>5, <1>6

(* A chunk takes the parser from one place of the stream to the next.      *)
LEMMA ChunkAgrees ==
  ASSUME NEW s \in Seq(Tokens), NEW k \in 0..Len(s), NEW m \in 1..(Len(s) - k),
         NEW p, ParserAgrees(p, s, k), p.afterCR <=> k > 0 /\ s[k] = "cr"
  PROVE  /\ ParserAgrees(FeedChunk(p, SubSeq(s, k + 1, k + m)), s, k + m)
         /\ FeedChunk(p, SubSeq(s, k + 1, k + m)).afterCR <=> s[k + m] = "cr"
<1> DEFINE c == SubSeq(s, k + 1, k + m)
           l == LinesOf(p, c)
           At(i) == AppendBytes(l[i], Text(c, i + 1))
           Good(i) == IsParser(l[i]) /\ ParserAgrees(At(i), s, k + i)
<1>1. /\ Len(s) \in Nat /\ k \in Nat /\ m \in Nat \ {0} /\ k + m <= Len(s)
      /\ k + 1 \in Int /\ k + m \in Int /\ k + 1 <= k + m /\ (k + m) - (k + 1) + 1 = m
  BY LenProperties
<1>2. c \in Seq(Tokens) /\ Len(c) = m /\ \A i \in 1..m : c[i] = s[k + i]
  <2>1. \A i \in (k + 1)..(k + m) : s[i] \in Tokens
    BY <1>1, ElementOfSeq
  <2>2. /\ c \in Seq(Tokens)
        /\ Len(c) = IF k + 1 <= k + m THEN (k + m) - (k + 1) + 1 ELSE 0
        /\ \A i \in 1..((k + m) - (k + 1) + 1) : c[i] = s[(k + 1) + i - 1]
    BY <1>1, <2>1, SubSeqProperties
  <2>3. \A i \in 1..m : (k + 1) + i - 1 = k + i
    BY <1>1
  <2> HIDE DEF c
  <2> QED
    BY <1>1, <2>2, <2>3
<1> HIDE DEF c
<1>3. /\ l[0] = p
      /\ \A i \in 1..m : l[i] = IF EndsLine(c, i, p.afterCR)
                                THEN EndLine(AppendBytes(l[i - 1], Text(c, i))) ELSE l[i - 1]
  BY <1>2, LinesAre
<1> HIDE DEF l
<1>4. ASSUME NEW q, NEW i \in 0..m, ParserAgrees(q, s, k + i)
      PROVE  IsParser(q) /\ AppendBytes(q, <<>>) = q
  <2>1. IsParser(q) /\ LineAgrees(q, s, k + i)
    BY <1>4 DEF ParserAgrees
  <2>2. q.discard \/ Len(q.pending) <= MaxEventBytes
    <3>1. k + i + 1 \in 1..(Len(s) + 1)
      BY <1>1
    <3>2. Text(s, k + i + 1) \in Seq(Tokens)
      BY <3>1, TextIs
    <3>3. Len(Text(s, k + i + 1)) \in Nat
      BY <3>2, LenProperties
    <3> QED
      BY <2>1, <3>3, StreamAssumption DEF LineAgrees
  <2> QED
    BY <2>1, <2>2, AppendNothing
<1>5. Good(0)
  <2>1. Text(c, 1) = <<>>
    <3>1. Begin(c, 1) = 1
      BY BeginIs
    <3> QED
      BY <3>1, SubSeqEmpty DEF Text
  <2>2. At(0) = AppendBytes(p, <<>>)
    BY <1>3, <2>1
  <2>3. k + 0 = k /\ 0 \in 0..m
    BY <1>1
  <2> QED
    BY <1>3, <1>4, <2>2, <2>3
<1>6. ASSUME NEW i \in 0..(m - 1), Good(i) PROVE Good(i + 1)
  <2>0. /\ i \in Nat /\ i + 1 \in 1..m /\ k + i \in 0..(Len(s) - 1) /\ i \in 0..m
        /\ (k + i) + 1 = k + (i + 1) /\ (i + 1) - 1 = i /\ (i + 1) + 1 = i + 2
        /\ i \in 0..(Len(c) - 1) /\ i + 1 \in 1..(Len(c) + 1) /\ i + 1 \in 0..m
    BY <1>1, <1>2
  <2>1. /\ Text(c, i + 1) \in Seq(Tokens)
        /\ Text(c, i + 2) = IF Break(c, i + 1) THEN <<>> ELSE Append(Text(c, i + 1), c[i + 1])
        /\ c[i + 1] = s[(k + i) + 1] /\ c[i + 1] \in Tokens
    <3>1. Text(c, i + 1) \in Seq(Tokens)
      BY <1>2, <2>0, TextIs
    <3>2. Text(c, i + 2) = IF Break(c, i + 1) THEN <<>> ELSE Append(Text(c, i + 1), c[i + 1])
      BY <1>2, <2>0, TextStep
    <3>3. c[i + 1] = s[(k + i) + 1]
      BY <1>2, <2>0
    <3>4. c[i + 1] \in Tokens
      BY <1>2, <2>0, ElementOfSeq
    <3> QED
      BY <3>1, <3>2, <3>3, <3>4
  <2>2. Break(c, i + 1) <=> Break(s, (k + i) + 1)
    BY <2>1 DEF Break
  <2>3. EndsLine(c, i + 1, p.afterCR) <=> LineEnd(s, (k + i) + 1)
    <3>1. (k + i) + 1 > 1 /\ s[((k + i) + 1) - 1] = "cr"
            <=> IF i + 1 = 1 THEN p.afterCR ELSE c[(i + 1) - 1] = "cr"
      <4>1. CASE i = 0
        <5>1. k + i = k /\ ((k + i) + 1) - 1 = k /\ (k + 1 > 1 <=> k > 0)
          BY <1>1, <4>1
        <5> QED
          BY <4>1, <5>1
      <4>2. CASE i # 0
        <5>1. i \in 1..m /\ ((k + i) + 1) - 1 = k + i /\ (k + i) + 1 > 1 /\ i + 1 # 1
          BY <1>1, <2>0, <4>2
        <5>2. c[i] = s[k + i]
          BY <1>2, <5>1
        <5> QED
          BY <2>0, <5>1, <5>2
      <4> QED
        BY <4>1, <4>2
    <3> QED
      BY <2>1, <3>1 DEF EndsLine, LineEnd
  <2>4. l[i + 1] = IF EndsLine(c, i + 1, p.afterCR)
                   THEN EndLine(AppendBytes(l[i], Text(c, i + 1))) ELSE l[i]
    <3>1. l[i + 1] = IF EndsLine(c, i + 1, p.afterCR)
                     THEN EndLine(AppendBytes(l[(i + 1) - 1], Text(c, i + 1))) ELSE l[(i + 1) - 1]
      BY <1>3, <2>0
    <3> QED
      BY <2>0, <3>1
  <2>5. At(i + 1) = AppendBytes(l[i + 1], Text(c, i + 2))
    BY <2>0
  <2>6. IsParser(l[i]) /\ ParserAgrees(At(i), s, k + i)
    BY <1>6
  <2>7. ParserAgrees(At(i + 1), s, (k + i) + 1) /\ IsParser(l[i + 1])
    <3>1. CASE ~Break(s, (k + i) + 1)
      <4>1. ~LineEnd(s, (k + i) + 1)
        BY <3>1 DEF Break, LineEnd
      <4>2. l[i + 1] = l[i]
        BY <2>3, <2>4, <4>1
      <4>3. Text(c, i + 2) = Append(Text(c, i + 1), c[i + 1])
        BY <2>1, <2>2, <3>1
      <4>4. At(i + 1) = AppendBytes(At(i), <<s[(k + i) + 1]>>)
        BY <2>1, <2>5, <2>6, <4>2, <4>3, AppendOneMore
      <4> HIDE DEF At
      <4>5. ParserAgrees(AppendBytes(At(i), <<s[(k + i) + 1]>>), s, (k + i) + 1)
        BY <2>0, <2>6, <3>1, ByteAppended
      <4> QED
        BY <2>6, <4>2, <4>4, <4>5
    <3>2. CASE Break(s, (k + i) + 1) /\ ~LineEnd(s, (k + i) + 1)
      <4>1. l[i + 1] = l[i]
        BY <2>3, <2>4, <3>2
      <4>2. Text(c, i + 1) = <<>>
        <5>1. CASE i = 0
          <6>1. Begin(c, 1) = 1
            BY BeginIs
          <6> QED
            BY <5>1, <6>1, SubSeqEmpty DEF Text
        <5>2. CASE i # 0
          <6>1. c[i] = "cr"
            BY <2>0, <2>3, <2>2, <3>2, <5>2 DEF EndsLine, Break
          <6>2. i - 1 \in 0..(Len(c) - 1) /\ (i - 1) + 1 = i /\ (i - 1) + 2 = i + 1
            BY <2>0, <5>2
          <6>3. Break(c, (i - 1) + 1)
            BY <6>1, <6>2 DEF Break
          <6>4. Text(c, (i - 1) + 2) = <<>>
            BY <1>2, <6>2, <6>3, TextStep
          <6> QED
            BY <6>2, <6>4
        <5> QED
          BY <5>1, <5>2
      <4>3. Text(c, i + 2) = <<>>
        BY <2>1, <2>2, <3>2
      <4>4. At(i + 1) = At(i)
        BY <2>5, <4>1, <4>2, <4>3
      <4> HIDE DEF At
      <4>5. ParserAgrees(At(i), s, (k + i) + 1)
        BY <2>0, <2>6, <3>2, ByteSkipped
      <4> QED
        BY <2>6, <4>1, <4>4, <4>5
    <3>3. CASE LineEnd(s, (k + i) + 1)
      <4>1. l[i + 1] = EndLine(At(i))
        BY <2>3, <2>4, <3>3
      <4>2. Text(c, i + 2) = <<>>
        BY <2>1, <2>2, <3>3 DEF Break, LineEnd
      <4>3. At(i + 1) = AppendBytes(EndLine(At(i)), <<>>)
        BY <2>5, <4>1, <4>2
      <4> HIDE DEF At
      <4>4. ParserAgrees(EndLine(At(i)), s, (k + i) + 1)
        BY <2>0, <2>6, <3>3, LineEnded
      <4>5. IsParser(EndLine(At(i))) /\ AppendBytes(EndLine(At(i)), <<>>) = EndLine(At(i))
        BY <1>4, <2>0, <4>4
      <4> QED
        BY <4>1, <4>3, <4>4, <4>5
    <3> QED
      BY <3>1, <3>2, <3>3
  <2> HIDE DEF At
  <2> QED
    BY <2>0, <2>7
<1>7. Good(m)
  <2> DEFINE B == {i \in 0..m : ~Good(i)}
  <2>1. CASE B = {}
    <3>1. m \in 0..m
      BY <1>1
    <3> QED
      BY <2>1, <3>1
  <2>2. CASE B # {}
    <3> HIDE DEF Good
    <3>1. PICK i \in B : \A j \in B : i <= j
      <4>1. B \in SUBSET Nat
        OBVIOUS
      <4> HIDE DEF B
      <4> QED
        BY <2>2, <4>1, LeastNumber
    <3>2. i # 0
      BY <1>5, <3>1
    <3>3. i - 1 \in 0..(m - 1) /\ i - 1 \in 0..m /\ ~(i <= i - 1) /\ (i - 1) + 1 = i
      BY <1>1, <3>1, <3>2
    <3>4. Good(i - 1)
      BY <3>1, <3>3
    <3>5. Good((i - 1) + 1)
      BY <1>6, <3>3, <3>4
    <3> QED
      BY <3>1, <3>3, <3>5
  <2> QED
    BY <2>1, <2>2
<1> DEFINE q == FeedChunk(p, c)
<1>8. q = [At(m) EXCEPT !.afterCR = s[k + m] = "cr"]
  <2>1. c[m] = s[k + m]
    BY <1>1, <1>2
  <2> QED
    BY <1>2, <2>1 DEF FeedChunk, l
<1>9. ParserAgrees(q, s, k + m) /\ (q.afterCR <=> s[k + m] = "cr")
  <2> DEFINE r == At(m)
  <2>1. ParserAgrees(r, s, k + m)
    BY <1>7
  <2>2. q = [r EXCEPT !.afterCR = s[k + m] = "cr"]
    BY <1>8
  <2> HIDE DEF q, r
  <2>3. IsParser(q) /\ Same(q, r, {"afterCR"}) /\ (q.afterCR <=> s[k + m] = "cr")
    BY <2>1, <2>2 DEF ParserAgrees, IsParser, Same, Fields
  <2> QED
    BY <2>1, <2>3 DEF ParserAgrees, Same, Fields, LineAgrees, EventAgrees, ResultAgrees
<1> QED
  BY <1>9 DEF c

(* The inductive invariant.                                                *)
StreamInv ==
  /\ stream \in Streams /\ fed \in 0..Len(stream)
  /\ ParserAgrees(parser, stream, fed)
  /\ parser.afterCR <=> fed > 0 /\ stream[fed] = "cr"

(* The new parser was fed nothing.                                         *)
LEMMA NothingFed ==
  ASSUME NEW s
  PROVE  ParserAgrees(NewParser, s, 0)
<1>1. /\ MaxEventBytes \in Nat /\ Len(<<>>) = 0 /\ Cardinality({}) = 0 /\ 0 + 1 = 1
      /\ 0 <= MaxEventBytes /\ 0 + 0 = 0
  BY StreamAssumption, EmptySeq, FS_EmptySet
<1>2. Text(s, 0 + 1) = <<>>
  <2>1. Begin(s, 1) = 1
    BY BeginIs
  <2> QED
    BY <2>1, SubSeqEmpty DEF Text
<1>3. Blanks(s, 0) = {} /\ EventLines(s, 0 + 1) = {}
  <2>1. LineEnds(s, 0) = {} /\ (0 + 1) - 1 = 0
    BY LineEndsAre
  <2> QED
    BY <2>1 DEF Blanks, EventLines
<1>4. /\ Field(s, 0 + 1, "data:") = {} /\ Field(s, 0 + 1, "event:") = {}
      /\ Said(s, 0 + 1) = {}
  BY <1>3 DEF Field, Said
<1>5. Cardinality(Said(s, 0 + 1)) + Cardinality(Field(s, 0 + 1, "data:")) = 0
  BY <1>1, <1>4
<1>6. WithinLimit(s, 0 + 1) /\ TypeOf(s, 0 + 1) = ""
  BY <1>1, <1>3, <1>4, <1>5 DEF WithinLimit, TypeOf
<1>7. Spoken(<<>>) = {}
  BY DEF Spoken
<1>8. Gathered(<<>>, s, 0 + 1)
  <2>1. Len(<<>>) = Cardinality(Said(s, 0 + 1)) + Cardinality(Field(s, 0 + 1, "data:"))
    BY <1>1, <1>5
  <2>2. Cardinality(Spoken(<<>>)) = Cardinality(Said(s, 0 + 1))
    BY <1>4, <1>7
  <2>3. {<<>>[i] : i \in Spoken(<<>>)} = {s[i] : i \in Said(s, 0 + 1)}
    BY <1>4, <1>7
  <2> QED
    BY <2>1, <2>2, <2>3 DEF Gathered
<1>9. ObjectEnds(s, 0) = {} /\ ~Failed(s, 0) /\ ~Completed(s, 0)
  BY <1>3 DEF ObjectEnds, Failed, Completed
<1>10. \A name : Count(s, 0, name) = Unknown
  BY <1>9 DEF Count
<1> DEFINE p == NewParser
<1>11. /\ p.pending = <<>> /\ p.discard = FALSE /\ p.data = <<>> /\ p.eventDiscard = FALSE
       /\ p.type = "" /\ p.usage = NoUsage /\ p.saw = FALSE /\ p.completed = FALSE
       /\ p.failed = FALSE
  BY DEF NewParser
<1>12. IsParser(p)
  BY NewParserIs
<1>13. UsageAgrees(NoUsage, s, 0)
  BY <1>10 DEF UsageAgrees, NoUsage, CountNames
<1> HIDE DEF p
<1>14. LineAgrees(p, s, 0) /\ Len(p.data) <= MaxEventBytes
  <2>1. Len(p.data) = 0 /\ 0 <= MaxEventBytes
    BY <1>1, <1>11
  <2>2. Len(p.data) <= MaxEventBytes
    BY <2>1
  <2>3. LineAgrees(p, s, 0)
    <3>1. Text(s, 0 + 1) = <<>> /\ Len(Text(s, 0 + 1)) = 0
      BY <1>1, <1>2
    <3>2. ~(Len(Text(s, 0 + 1)) > MaxEventBytes)
      BY <1>1, <3>1
    <3> QED
      BY <1>11, <3>1, <3>2 DEF LineAgrees
  <2> QED
    BY <2>2, <2>3
<1>15. EventAgrees(p, s, 0)
  BY <1>6, <1>8, <1>11 DEF EventAgrees
<1>16. ResultAgrees(p, s, 0)
  BY <1>9, <1>11, <1>13 DEF ResultAgrees
<1> QED
  BY <1>12, <1>14, <1>15, <1>16 DEF ParserAgrees, p

(* The protocol of a request does not change.                              *)
LEMMA ProtocolKept ==
  ASSUME protocol' = protocol, NEW CONSTANT p, NEW CONSTANT s, NEW CONSTANT k, ParserAgrees(p, s, k)
  PROVE  ParserAgrees(p, s, k)'
<1>1. \A b : UsageAt(s, b)' = UsageAt(s, b)
  BY DEF UsageAt
<1>2. \A name : Count(s, k, name)' = Count(s, k, name)
  BY <1>1 DEF Count
<1> QED
  BY <1>2 DEF ParserAgrees, ResultAgrees, UsageAgrees

(* What the parser holds is what it was fed, at every moment.              *)
LEMMA StreamInvHolds == StreamSpec => []StreamInv
<1>1. StreamInit => StreamInv
  <2>1. ASSUME StreamInit PROVE StreamInv
    <3>1. stream \in Streams /\ fed = 0 /\ parser = NewParser
      BY <2>1 DEF StreamInit
    <3>2. stream \in Seq(Tokens)
      BY <3>1, StreamAssumption DEF Tokens
    <3>3. fed \in 0..Len(stream)
      BY <3>1, <3>2, LenProperties
    <3>4. ~parser.afterCR
      BY <3>1 DEF NewParser
    <3>5. ParserAgrees(parser, stream, fed)
      BY <3>1, NothingFed
    <3> QED
      BY <3>1, <3>3, <3>4, <3>5 DEF StreamInv
  <2> QED
    BY <2>1
<1>2. StreamInv /\ [Feed]_streamVars => StreamInv'
  <2> SUFFICES ASSUME StreamInv, [Feed]_streamVars PROVE StreamInv'
    OBVIOUS
  <2>0. protocol' = protocol /\ stream' = stream
    BY DEF Feed, streamVars
  <2>1. CASE Feed
    <3>1. PICK m \in 1..(Len(stream) - fed) :
            /\ parser' = FeedChunk(parser, SubSeq(stream, fed + 1, fed + m))
            /\ fed' = fed + m
      BY <2>1 DEF Feed
    <3>2. stream \in Seq(Tokens)
      BY StreamAssumption DEF Tokens, StreamInv
    <3>3. /\ fed \in 0..Len(stream) /\ ParserAgrees(parser, stream, fed)
          /\ parser.afterCR <=> fed > 0 /\ stream[fed] = "cr"
      BY DEF StreamInv
    <3>4. /\ ParserAgrees(FeedChunk(parser, SubSeq(stream, fed + 1, fed + m)), stream, fed + m)
          /\ FeedChunk(parser, SubSeq(stream, fed + 1, fed + m)).afterCR <=> stream[fed + m] = "cr"
      BY <3>2, <3>3, ChunkAgrees
    <3>5. PICK p, s, k : p = parser' /\ s = stream /\ k = fed + m
      OBVIOUS
    <3>6. ParserAgrees(p, s, k)
      BY <3>1, <3>4, <3>5
    <3>7. ParserAgrees(p, s, k)'
      BY <2>0, <3>6, ProtocolKept
    <3>8. ParserAgrees(parser, stream, fed)'
      BY <2>0, <3>1, <3>5, <3>7
    <3>9. fed' \in 0..Len(stream') /\ fed' > 0
      BY <2>0, <3>1, <3>2, <3>3, LenProperties
    <3>10. parser'.afterCR <=> stream'[fed'] = "cr"
      BY <2>0, <3>1, <3>4
    <3> QED
      BY <2>0, <3>8, <3>9, <3>10 DEF StreamInv
  <2>2. CASE UNCHANGED streamVars
    <3>1. PICK p, s, k : p = parser /\ s = stream /\ k = fed
      OBVIOUS
    <3>2. ParserAgrees(p, s, k)'
      BY <2>0, <3>1, ProtocolKept DEF StreamInv
    <3> QED
      BY <2>2, <3>1, <3>2 DEF StreamInv, streamVars
  <2> QED
    BY <2>1, <2>2
<1> QED
  BY <1>1, <1>2, PTL DEF StreamSpec

(* How the network cuts the stream makes no difference to the usage that   *)
(* is billed and the error that is logged: they are those of the events    *)
(* that have arrived whole.                                                *)
THEOREM UsageIsTheStreams == StreamSpec => []UsageIsWhole
<1>1. StreamInv => UsageIsWhole
  <2> SUFFICES ASSUME StreamInv PROVE UsageIsWhole
    OBVIOUS
  <2> DEFINE u == parser.usage
             w == [name \in DOMAIN NoUsage |->
                     IF name \in {"uncached", "billable"} THEN Unknown
                     ELSE Count(stream, fed, name)]
  <2>1. /\ DOMAIN u = DOMAIN NoUsage /\ u = [name \in DOMAIN NoUsage |-> u[name]]
        /\ \A name \in CountNames : u[name] = Count(stream, fed, name)
        /\ u.billable = Unknown
        /\ u.input = Unknown => u.uncached = Unknown
    BY DEF StreamInv, ParserAgrees, ResultAgrees, UsageAgrees
  <2>2. \A name \in DOMAIN NoUsage \ {"uncached"} : u[name] = w[name]
    <3>1. DOMAIN NoUsage = CountNames \cup {"uncached", "billable"}
      BY DEF NoUsage, CountNames
    <3>2. \A name \in CountNames : name \notin {"uncached", "billable"}
      BY DEF CountNames
    <3> HIDE DEF u
    <3> QED
      BY <2>1, <3>1, <3>2
  <2>3. w.uncached = Unknown /\ DOMAIN w = DOMAIN NoUsage /\ w = [name \in DOMAIN NoUsage |-> w[name]]
    BY DEF NoUsage
  <2> HIDE DEF u, w
  <2>4. DOMAIN NoUsage = {"input", "output", "cached", "creation", "uncached", "billable"}
    BY DEF NoUsage
  <2>5. Normalize(u, protocol) = Normalize(w, protocol)
    <3>1. CASE u.input = Unknown
      <4>1. \A name \in DOMAIN NoUsage : u[name] = w[name]
        BY <2>1, <2>2, <2>3, <3>1
      <4>2. u = w
        BY <2>1, <2>3, <4>1
      <4> QED
        BY <4>2
    <3>2. CASE u.input # Unknown
      <4>1. /\ u.input = w.input /\ u.creation = w.creation /\ u.cached = w.cached
            /\ u.billable = w.billable
        BY <2>2, <2>4
      <4> DEFINE rest == IF protocol = "messages" THEN u.input + Or0(u.creation)
                         ELSE u.input - Or0(u.cached)
                 x == Largest(rest, 0)
                 y == IF protocol = "messages" THEN u.input ELSE u.billable
      <4>2. Normalize(u, protocol) = [u EXCEPT !.uncached = x, !.billable = y]
        BY <3>2, <2>1, <2>4 DEF Normalize
      <4>3. Normalize(w, protocol) = [w EXCEPT !.uncached = x, !.billable = y]
        BY <3>2, <2>3, <2>4, <4>1 DEF Normalize
      <4> HIDE DEF x, y
      <4>4. [u EXCEPT !.uncached = x, !.billable = y] = [w EXCEPT !.uncached = x, !.billable = y]
        BY <2>1, <2>2, <2>3, <2>4
      <4> QED
        BY <4>2, <4>3, <4>4
    <3> QED
      BY <3>1, <3>2
  <2>6. /\ parser.saw <=> ObjectEnds(stream, fed) # {}
        /\ parser.failed <=> Failed(stream, fed)
        /\ parser.completed <=> Completed(stream, fed)
        /\ parser.failed \in BOOLEAN
    BY DEF StreamInv, ParserAgrees, ResultAgrees, IsParser
  <2>7. Failed(stream, fed) \in BOOLEAN
    BY DEF Failed
  <2>8. parser.failed = Failed(stream, fed)
    BY <2>6, <2>7
  <2>9. (parser.saw /\ ~parser.completed /\ ~parser.failed)
          = (ObjectEnds(stream, fed) # {} /\ ~Completed(stream, fed) /\ ~Failed(stream, fed))
    BY <2>6
  <2>10. Normalized(parser.usage) = Normalized(w)
    BY <2>5 DEF Normalized, u
  <2> QED
    BY <2>8, <2>9, <2>10 DEF UsageIsWhole, Reported, WholeReading, w
<1> QED
  BY <1>1, StreamInvHolds, PTL

(* maxSSEEventBytes: whatever the upstream sends, the parser holds no more *)
(* than the limit of a line and the limit of an event.                     *)
BuffersAreBounded ==
  Len(parser.pending) <= MaxEventBytes /\ Len(parser.data) <= MaxEventBytes

THEOREM ParserIsBounded == StreamSpec => []BuffersAreBounded
<1>1. StreamInv => BuffersAreBounded
  <2> SUFFICES ASSUME StreamInv PROVE BuffersAreBounded
    OBVIOUS
  <2>1. /\ LineAgrees(parser, stream, fed) /\ Len(parser.data) <= MaxEventBytes
        /\ stream \in Seq(Tokens) /\ fed \in 0..Len(stream)
    BY StreamAssumption DEF StreamInv, ParserAgrees, Tokens
  <2>2. fed + 1 \in 1..(Len(stream) + 1)
    BY <2>1, LenProperties
  <2>3. Text(stream, fed + 1) \in Seq(Tokens)
    BY <2>1, <2>2, TextIs
  <2>4. Len(Text(stream, fed + 1)) \in Nat /\ MaxEventBytes \in Nat /\ Len(<<>>) = 0
    BY <2>3, LenProperties, EmptySeq, StreamAssumption
  <2> QED
    BY <2>1, <2>4 DEF LineAgrees, BuffersAreBounded
<1> QED
  BY <1>1, StreamInvHolds, PTL
===============================================================================
