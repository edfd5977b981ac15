----------------------------- MODULE StreamUsage ----------------------------
(***************************************************************************)
(* What the gateway reads out of an event stream while it relays it        *)
(* (internal/gateway/usage.go): the usage to bill, whether the stream was  *)
(* completed, and whether it failed.  The bytes come in the chunks of the  *)
(* network; lines end in CR, LF or CRLF, events in a blank line.           *)
(*                                                                         *)
(* A byte is a token: the field names "data:" and "event:", the line ends  *)
(* "cr" and "lf", and values.  The values in DOMAIN Objects stand for JSON *)
(* payloads that carry a usage object, "[DONE]" for itself, "error" and    *)
(* "stop" for event types.                                                 *)
(***************************************************************************)
EXTENDS Integers, Sequences, SequencesExt, FiniteSetsExt

CONSTANTS
  Streams,       (* the streams upstreams send                              *)
  Protocols,
  Objects,       (* value -> usage object: field name -> tokens             *)
  MaxEventBytes, (* maxSSEEventBytes                                        *)
  Unknown        (* a nil count                                             *)

(* The data lines of an event are joined with "nl", a token of the model's; *)
(* "[DONE]" is no JSON.                                                    *)
ASSUME StreamAssumption ==
  /\ MaxEventBytes \in Nat /\ Unknown \notin Int
  /\ Streams \subseteq Seq(STRING \ {"nl"}) /\ "[DONE]" \notin DOMAIN Objects

VARIABLES
  stream,    (* what the upstream sends                                     *)
  protocol,
  fed,       (* how much of it was fed                                      *)
  parser     (* the sseUsageParser                                          *)

streamVars == <<stream, protocol, fed, parser>>

-----------------------------------------------------------------------------
(* Usage objects.                                                          *)

Largest(a, b) == IF a >= b THEN a ELSE b
Or0(n) == IF n = Unknown THEN 0 ELSE n

(* The first of a count's names that the object has.                       *)
FirstOf(o, names) ==
  LET present == SelectSeq(names, LAMBDA n : n \in DOMAIN o)
  IN IF present = <<>> THEN Unknown ELSE o[present[1]]

(* normalizeUsageForProtocol.                                              *)
Normalize(u, p) ==
  IF u.input = Unknown THEN u
  ELSE LET rest == IF p = "messages" THEN u.input + Or0(u.creation)
                   ELSE u.input - Or0(u.cached)
       IN [u EXCEPT !.uncached = Largest(rest, 0),
                    !.billable = IF p = "messages" THEN u.input ELSE @]

(* parseUsageObjectForProtocol.                                            *)
ParseObject(o, p) ==
  Normalize(
    [input |-> FirstOf(o, <<"input_tokens", "prompt_tokens">>),
     output |-> FirstOf(o, <<"output_tokens", "completion_tokens">>),
     cached |-> FirstOf(o, <<"cached_input_tokens", "cache_read_input_tokens",
                             "input_details", "prompt_details">>
                           \o IF p = "messages" THEN <<>>
                              ELSE <<"prompt_cache_hit_tokens">>),
     creation |-> FirstOf(o, <<"cache_creation_input_tokens">>),
     uncached |-> Unknown, billable |-> Unknown], p)

NoUsage == [n \in {"input", "output", "cached", "creation", "uncached", "billable"}
              |-> Unknown]

(* merge: what a later event reports replaces what an earlier one did.     *)
Merge(u, v) ==
  [n \in DOMAIN u |-> IF v[n] = Unknown \/ n = "billable" THEN u[n] ELSE v[n]]

-----------------------------------------------------------------------------
(* The parser.                                                             *)

NewParser ==
  [pending |-> <<>>, discard |-> FALSE, afterCR |-> FALSE,
   data |-> <<>>, eventDiscard |-> FALSE, type |-> "",
   usage |-> NoUsage, saw |-> FALSE, completed |-> FALSE, failed |-> FALSE]

(* append.                                                                 *)
AppendBytes(p, bytes) ==
  CASE p.discard -> p
    [] ~p.discard /\ Len(p.pending) + Len(bytes) > MaxEventBytes ->
         [p EXCEPT !.pending = <<>>, !.discard = TRUE]
    [] OTHER -> [p EXCEPT !.pending = @ \o bytes]

(* bytes.TrimSpace of the lines of an event, which end in "nl".            *)
Trimmed(data) ==
  LET text == {i \in DOMAIN data : data[i] # "nl"}
  IN IF text = {} THEN <<>> ELSE SubSeq(data, Min(text), Max(text))

Dispatch(p) ==
  LET json == Trimmed(p.data)
  IN IF p.eventDiscard \/ p.data = <<>> \/ Len(json) # 1 THEN p
     ELSE IF json[1] = "[DONE]" THEN [p EXCEPT !.completed = TRUE]
     ELSE IF json[1] \notin DOMAIN Objects THEN p
     ELSE [p EXCEPT !.saw = TRUE,
                    !.failed = @ \/ p.type = "error",
                    !.completed = @ \/ p.type = "stop",
                    !.usage = Merge(@, ParseObject(Objects[json[1]], protocol))]

(* The data of an event that grows too long is given up.                   *)
DataLine(p, value) ==
  IF p.eventDiscard THEN p
  ELSE IF Len(p.data) + Len(value) + 1 > MaxEventBytes
  THEN [p EXCEPT !.data = <<>>, !.eventDiscard = TRUE]
  ELSE [p EXCEPT !.data = @ \o Append(value, "nl")]

ParseLine(p, line) ==
  IF line = <<>>
  THEN [Dispatch(p) EXCEPT !.data = <<>>, !.type = "", !.eventDiscard = FALSE]
  ELSE CASE line[1] = "event:" -> [p EXCEPT !.type = IF Len(line) = 2 THEN line[2] ELSE ""]
         [] line[1] = "data:" -> DataLine(p, Tail(line))
         [] OTHER -> p

SpoilsEvent(p) == [p EXCEPT !.eventDiscard = TRUE]

EndLine(p) ==
  [(IF p.discard THEN SpoilsEvent(p) ELSE ParseLine(p, p.pending))
     EXCEPT !.pending = <<>>, !.discard = FALSE]

(* A line ends in CR or LF; the LF of a CRLF ends nothing, though the CR   *)
(* came with the chunk before.                                             *)
ForgetsCR(c, i, afterCR) ==
  c[i] = "cr" \/ (c[i] = "lf" /\ ~(i > 1 /\ c[i - 1] = "cr"))
EndsLine(c, i, afterCR) ==
  c[i] = "cr" \/ (c[i] = "lf" /\ ~IF i = 1 THEN afterCR ELSE c[i - 1] = "cr")

(* The text before byte e that no CR or LF has ended.                      *)
Begin(s, e) == 1 + Max({0} \cup {i \in 1..(e - 1) : s[i] \in {"cr", "lf"}})
Text(s, e) == SubSeq(s, Begin(s, e), e - 1)

(* The parser after the lines that end within the first i bytes of a chunk. *)
LinesOf(p, c) ==
  LET after[i \in 0..Len(c)] ==
        IF i = 0 THEN p
        ELSE IF EndsLine(c, i, p.afterCR)
        THEN EndLine(AppendBytes(after[i - 1], Text(c, i)))
        ELSE after[i - 1]
  IN after

(* Feed.                                                                   *)
FeedChunk(p, c) ==
  [AppendBytes(LinesOf(p, c)[Len(c)], Text(c, Len(c) + 1))
     EXCEPT !.afterCR = c[Len(c)] = "cr"]

Normalized(u) == Normalize(u, protocol)

(* Usage and StreamError.                                                  *)
Reported(p) ==
  [usage |-> Normalized(p.usage), failed |-> p.failed,
   cut |-> p.saw /\ ~p.completed /\ ~p.failed]

StreamInit ==
  /\ stream \in Streams /\ protocol \in Protocols
  /\ fed = 0 /\ parser = NewParser

Feed ==
  \E n \in 1..(Len(stream) - fed) :
    /\ parser' = FeedChunk(parser, SubSeq(stream, fed + 1, fed + n))
    /\ fed' = fed + n
    /\ UNCHANGED <<stream, protocol>>

StreamSpec == StreamInit /\ [][Feed]_streamVars

-----------------------------------------------------------------------------
(* What the first k bytes of s say, read as a whole.                       *)

(* The ends of the lines; an event ends at a blank one.                    *)
LineEnds(s, k) ==
  {i \in 1..k : s[i] = "cr" \/ (s[i] = "lf" /\ ~(i > 1 /\ s[i - 1] = "cr"))}
Blanks(s, k) == {e \in LineEnds(s, k) : Text(s, e) = <<>>}

(* The event before byte e: the lines since the last blank one, each by    *)
(* its end, those of a field, and the positions of the data they carry.    *)
EventLines(s, e) ==
  LET blanks == Blanks(s, e - 1) IN {l \in LineEnds(s, e - 1) : \A b \in blanks : b < l}
Field(s, e, name) == {l \in EventLines(s, e) : Text(s, l)[1] = name}
Said(s, e) == UNION {(Begin(s, l) + 1)..(l - 1) : l \in Field(s, e, "data:")}

WithinLimit(s, e) ==
  /\ \A l \in EventLines(s, e) : Len(Text(s, l)) <= MaxEventBytes
  /\ Cardinality(Said(s, e)) + Cardinality(Field(s, e, "data:")) <= MaxEventBytes

(* The value an event carries, if it carries one, and its type.            *)
Carried(s, e) ==
  IF Cardinality(Said(s, e)) = 1 /\ WithinLimit(s, e) THEN {s[i] : i \in Said(s, e)} ELSE {}

TypeOf(s, e) ==
  LET of == Field(s, e, "event:")
      line == Text(s, Max(of))
  IN IF of # {} /\ Len(line) = 2 THEN line[2] ELSE ""

(* The ends of the events that carry an object, and what one of them says. *)
ObjectEnds(s, k) == {b \in Blanks(s, k) : Carried(s, b) \cap DOMAIN Objects # {}}
UsageAt(s, b) == ParseObject(Objects[CHOOSE v \in Carried(s, b) : TRUE], protocol)

(* The last event that reports a count settles it.                         *)
Count(s, k, name) ==
  LET told == {b \in ObjectEnds(s, k) : UsageAt(s, b)[name] # Unknown}
  IN IF told = {} THEN Unknown ELSE UsageAt(s, Max(told))[name]

Failed(s, k) == \E b \in ObjectEnds(s, k) : TypeOf(s, b) = "error"
Completed(s, k) ==
  \/ \E b \in ObjectEnds(s, k) : TypeOf(s, b) = "stop"
  \/ \E b \in Blanks(s, k) : "[DONE]" \in Carried(s, b)

WholeReading(s, k) ==
  [usage |-> Normalized([name \in DOMAIN NoUsage |->
               IF name \in {"uncached", "billable"} THEN Unknown ELSE Count(s, k, name)]),
   failed |-> Failed(s, k),
   cut |-> ObjectEnds(s, k) # {} /\ ~Completed(s, k) /\ ~Failed(s, k)]

(* docs/architecture.en.md: usage is read without buffering the stream.    *)
(* However the network cuts the stream, what the parser reports is what    *)
(* the part that has arrived says; an unfinished event says nothing, one   *)
(* that is too long is skipped.                                            *)
UsageIsWhole == Reported(parser) = WholeReading(stream, fed)
=============================================================================
