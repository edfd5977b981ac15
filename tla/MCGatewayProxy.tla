--------------------------- MODULE MCGatewayProxy ---------------------------
(* Small instances for TLC of one request and of the usage it reads from a *)
(* stream.  The two share no state; a behaviour is one of either.          *)
EXTENDS GatewayProxy, StreamUsage, TLC

VARIABLE subject

(* One status of each kind.                                                *)
MCStatuses == {200, 400, 401, 403, 429, 504}

(* A stream is any four of these pieces, the last of which end events or   *)
(* exceed the limit, and the end of an event or not.                       *)
Pieces ==
  {<<"data:", "in">>, <<"data:", "out">>, <<"data:", "[DONE]">>,
   <<"event:", "error">>, <<"event:", "stop">>, <<"cr">>, <<"lf">>,
   <<"cr", "lf", "cr", "lf">>, <<"out", "out">>}
MCStreams ==
  {FlattenSeq(s) \o t :
     s \in [1..4 -> Pieces], t \in {<<>>, <<"cr", "lf", "cr", "lf">>}}
MCObjects ==
  "in" :> ("input_tokens" :> 3 @@ "cache_creation_input_tokens" :> 2)
  @@ "out" :> ("completion_tokens" :> 4 @@ "prompt_cache_hit_tokens" :> 1)

(* The stream of a request without an upstream, which ends at once, is fed *)
(* by itself.                                                              *)
MCInit ==
  /\ Init
  /\ \/ subject = "request" /\ stream = <<>> /\ protocol = "chat"
        /\ fed = 0 /\ parser = NewParser
     \/ subject = "stream" /\ n = 0 /\ streaming /\ StreamInit

Request(A) == A /\ UNCHANGED <<subject, streamVars>>

MCNext ==
  \/ Request(Next) /\ (subject = "stream" => ctx' = "live")
  \/ subject = "stream" /\ pc = "done" /\ Feed /\ UNCHANGED <<subject, vars>>

mcVars == <<subject, vars, streamVars>>

MCSpec ==
  /\ MCInit /\ [][MCNext]_mcVars
  /\ WF_mcVars(Request(HandlerStep)) /\ WF_mcVars(Request(Expire))
  /\ \A b \in Upstreams : WF_mcVars(Request(ReaderStep(b)))
=============================================================================
