-------------------------- MODULE BalanceDiscovery --------------------------
(***************************************************************************)
(* How the balance of one upstream is found (CheckBalance in               *)
(* internal/ops/probe.go, internal/ops/probe_cache.go).  Nobody says which *)
(* of four APIs an upstream has; a check asks one after the other, and     *)
(* remembers for an hour which one answered.  The monitor and an           *)
(* administrator may check at once; they share the memory and a pool of    *)
(* slots.                                                                  *)
(*                                                                         *)
(* A reply is "missing" (404 or 405), "broken" (every other failure of the *)
(* request or its parsing) or "answers"; what it says is BalanceMonitor's. *)
(***************************************************************************)
EXTENDS Integers, Sequences, FiniteSets

CONSTANTS
  Checks,      (* the checks that may be under way                          *)
  Slots,       (* of balanceSlots: 8                                        *)
  Lifetime,    (* of a remembered path: an hour                             *)
  MaxClock

ASSUME DiscoveryAssumption == {Slots, Lifetime, MaxClock} \subseteq Nat

VARIABLES
  source,      (* [kind, account]: the upstream, and whether it has an      *)
               (* access token and a user id                                *)
  elapsed,
  hint,        (* balancePaths[key]: [path, expires]                        *)
  check        (* check[c]: a call of CheckBalance                          *)

discoveryVars == <<source, elapsed, hint, check>>

Paths == {"usage", "subscription", "token", "self"}
NoHint == [path |-> "none", expires |-> 0]
Waiting == [pc |-> "idle", start |-> 0, preferred |-> "none", walk |-> <<>>,
            replies |-> [p \in Paths |-> "unasked"], cancelled |-> FALSE,
            result |-> "none"]

Replies == {"unasked", "missing", "broken", "answers"}

DiscoveryTypeOK ==
  /\ source \in [kind : {"newapi", "sub2api"}, account : BOOLEAN]
  /\ elapsed \in 0..MaxClock
  /\ hint \in [path : Paths \cup {"none"}, expires : 0..(MaxClock + Lifetime)]
  /\ check \in [Checks -> [pc : {"idle", "ask", "done"}, start : 0..MaxClock,
                           preferred : Paths \cup {"none"}, walk : Seq(Paths),
                           replies : [Paths -> Replies], cancelled : BOOLEAN,
                           result : Paths \cup {"none", "unknown", "unavailable"}]]

DiscoveryInit ==
  /\ source \in [kind : {"newapi", "sub2api"}, account : BOOLEAN]
  /\ elapsed = 0 /\ hint = NoHint
  /\ check = [c \in Checks |-> Waiting]

If(condition, path) == IF condition THEN <<path>> ELSE <<>>

HintFirst(preferred) ==
  If(preferred # "none", preferred) \o If(source.account, "self")
AccountFirst(preferred) ==
  If(source.account, "self") \o If(preferred # "none", preferred)

(* The order in which a check asks; what was attempted is not asked again. *)
Walk(preferred) ==
  AccountFirst(preferred) \o If(source.kind = "sub2api", "usage")
    \o <<"subscription", "token", "self", "usage">>

(* preferredBalancePath: one that has expired is deleted.                  *)
Preferred == IF elapsed < hint.expires THEN hint.path ELSE "none"

(* acquireProbe, and the memory is asked.                                  *)
StartCheck(c) ==
  /\ check[c].pc = "idle"
  /\ Cardinality({d \in Checks : check[d].pc = "ask"}) < Slots
  /\ check' = [check EXCEPT ![c] =
       [Waiting EXCEPT !.pc = "ask", !.start = elapsed, !.preferred = Preferred,
                       !.walk = Walk(Preferred)]]
  /\ hint' = IF Preferred = "none" THEN NoHint ELSE hint
  /\ UNCHANGED <<source, elapsed>>

(* The caller gives up, before a slot is free or later.                    *)
CancelCheck(c) ==
  /\ ~check[c].cancelled /\ check[c].pc \in {"idle", "ask"}
  /\ check' = [check EXCEPT ![c].cancelled = TRUE,
       ![c].pc = IF @ = "idle" THEN "done" ELSE @,
       ![c].result = IF check[c].pc = "idle" THEN "unavailable" ELSE @]
  /\ UNCHANGED <<source, elapsed, hint>>

(* rememberBalancePath: a path that is remembered keeps its time.          *)
Remember(path, start) ==
  IF hint.path = path /\ start < hint.expires THEN hint
  ELSE [path |-> path, expires |-> start + Lifetime]

(* What a check that asked everything, or was cancelled, returns.          *)
Verdict(replies, cancelled) ==
  CASE replies["subscription"] = "answers" -> "subscription"
    [] replies["subscription"] # "answers" /\ ~cancelled
         /\ \A p \in Paths : replies[p] # "broken" -> "unknown"
    [] OTHER -> "unavailable"

(* The places of the walk that were not attempted yet.                     *)
Unattempted(c) ==
  {i \in DOMAIN check[c].walk : check[c].replies[check[c].walk[i]] = "unasked"}

(* One try: the request and what follows from the reply.                   *)
Try(c, path, reply) ==
  LET settled == reply = "answers" /\ path # "subscription"
  IN /\ check' = [check EXCEPT ![c].replies[path] = reply,
                               ![c].pc = IF settled THEN "done" ELSE @,
                               ![c].result = IF settled THEN path ELSE @]
     /\ hint' = CASE settled -> Remember(path, check[c].start)
                  [] ~settled /\ path = check[c].preferred -> NoHint
                  [] OTHER -> hint

Ask(c) ==
  /\ check[c].pc = "ask" /\ ~check[c].cancelled
  /\ \E i \in Unattempted(c), reply \in {"missing", "broken", "answers"} :
       /\ \A j \in Unattempted(c) : i <= j
       /\ Try(c, check[c].walk[i], reply)
  /\ UNCHANGED <<source, elapsed>>

(* The walk is over; a cancelled one forgets the path it did not get to.   *)
EndCheck(c) ==
  /\ check[c].pc = "ask" /\ (check[c].cancelled \/ Unattempted(c) = {})
  /\ check' = [check EXCEPT ![c].pc = "done",
                            ![c].result = Verdict(check[c].replies, check[c].cancelled)]
  /\ hint' = IF \E i \in Unattempted(c) : check[c].walk[i] = check[c].preferred
             THEN NoHint ELSE hint
  /\ UNCHANGED <<source, elapsed>>

NextCheck(c) ==
  /\ check[c].pc = "done"
  /\ check' = [check EXCEPT ![c] = Waiting]
  /\ UNCHANGED <<source, elapsed, hint>>

ClockTick ==
  /\ elapsed < MaxClock /\ elapsed' = elapsed + 1
  /\ UNCHANGED <<source, hint, check>>

DiscoveryNext ==
  \/ \E c \in Checks :
       StartCheck(c) \/ CancelCheck(c) \/ Ask(c) \/ EndCheck(c) \/ NextCheck(c)
  \/ ClockTick

DiscoverySpec == DiscoveryInit /\ [][DiscoveryNext]_discoveryVars

-----------------------------------------------------------------------------

(* probe.go: "Explicit account credentials take precedence over a cached   *)
(* unlimited token quota"; the limit of a subscription is a last resort,   *)
(* and only an upstream that has none of the APIs is called unsupported.   *)
(* Whatever is remembered, and whoever else checks, a check that was asked *)
(* for an answer and could get one gives the one that counts most.         *)
BestAnswerWins ==
  \A c \in Checks :
    check[c].pc = "done" =>
      LET replies == check[c].replies
          answered == {p \in Paths : replies[p] = "answers"}
          all == \A p \in Paths : replies[p] # "unasked"
      IN /\ check[c].result \in Paths <=> answered # {}
         /\ check[c].result \in Paths => check[c].result \in answered
         /\ source.account /\ ~check[c].cancelled =>
              /\ replies["self"] # "unasked"
              /\ replies["self"] = "answers" => check[c].result = "self"
         /\ check[c].result = "subscription" =>
              answered = {"subscription"} /\ (all \/ check[c].cancelled)
         /\ check[c].result = "unknown" =>
              \A p \in Paths : replies[p] = "missing"
=============================================================================
