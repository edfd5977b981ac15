-------------------------- MODULE RequestAdmission --------------------------
(***************************************************************************)
(* What a request must hold before and while the gateway serves it         *)
(* (internal/gateway/limits.go, resources.go and the order in which        *)
(* handler.go takes and returns it): an authentication slot, a place in    *)
(* the concurrency gate, a count of the minute's rate, a reservation for   *)
(* its body, and one for the response it buffers.                          *)
(*                                                                         *)
(* Nothing here waits: whatever is not free is refused at once.  What is   *)
(* held is returned by deferred calls, each under a lock of its own, in    *)
(* the reverse order.                                                      *)
(*                                                                         *)
(* Time is the number of the minute.  The unit of a response buffer is the *)
(* 32 KiB of one read; that of a body reservation is left open.            *)
(***************************************************************************)
EXTENDS Naturals, FiniteSets, Functions

CONSTANTS
  Handlers,       (* goroutines of requests, reused request by request     *)
  Keys,           (* client keys                                           *)
  NoKey,          (* the key of a handler that is not authenticated        *)
  MaxConcurrent,  (* limits.MaxConcurrentRequests                          *)
  MaxPerKey,      (* limits.MaxConcurrentPerKey                            *)
  MaxPerMinute,   (* limits.MaxRequestsPerMinute                           *)
  Reservations,   (* sizes a body may reserve                              *)
  BodyLimit,      (* limits.MaxBufferedRequestBytes                        *)
  ResponseMax,    (* maxBodyBytes, in reads                                *)
  ResponseLimit,  (* limits.MaxBufferedResponseBytes, in reads             *)
  MaxMinute       (* bounds the time                                       *)

ASSUME AdmissionAssumption ==
  /\ IsFiniteSet(Handlers)
  /\ NoKey \notin Keys
  /\ MaxConcurrent \in Nat \ {0} /\ MaxPerKey \in Nat \ {0}
  /\ MaxPerMinute \in Nat \ {0}
  /\ Reservations \subseteq Nat \ {0}
  /\ BodyLimit \in Nat
  /\ ResponseMax \in Nat \ {0} /\ ResponseLimit \in Nat
  /\ MaxMinute \in Nat \ {0}

Minutes == 1..MaxMinute

VARIABLES
  pc,        (* where each handler stands                                  *)
  key,       (* the client key of each handler                             *)
  active,    (* h.gate.active                                              *)
  byKey,     (* h.gate.byKey, 0 for a key that is not in the map           *)
  rate,      (* h.rate.entries; minute 0 is the zero time.Time             *)
  cleaned,   (* h.rate.lastCleanup, 0 when zero                            *)
  clock,     (* the minute it is                                           *)
  stamp,     (* the minute each handler read before it called rate.allow   *)
  bodyUsed,  (* h.bodyBudget.used                                          *)
  bodyHeld,  (* the reservation each handler will release                  *)
  respUsed,  (* h.responseBudget.used                                      *)
  respHeld,  (* reserved of each handler's response buffer                 *)
  respNext,  (* what append has acquired to replace it                     *)
  passed,    (* history: requests of a key that rate.allow let pass as of
                a minute                                                   *)
  latest,    (* history: the latest minute rate.allow has been called with *)
  late       (* history: calls for a key as of a minute before latest      *)

gateVars == <<active, byKey>>
rateVars == <<rate, cleaned, passed, latest, late>>
bodyVars == <<bodyUsed, bodyHeld>>
respVars == <<respUsed, respHeld, respNext>>
vars == <<pc, key, active, byKey, rate, cleaned, clock, stamp, bodyUsed,
          bodyHeld, respUsed, respHeld, respNext, passed, latest, late>>

PcStates == {"idle", "auth", "known", "gated", "rate", "allowed", "body",
             "attempt", "reading", "growing", "buffered", "freeBuffer",
             "freeBody", "freeGate"}

TypeOK ==
  /\ pc \in [Handlers -> PcStates]
  /\ key \in [Handlers -> Keys \cup {NoKey}]
  /\ active \in 0..MaxConcurrent
  /\ byKey \in [Keys -> 0..MaxPerKey]
  /\ rate \in [Keys -> [minute: Minutes \cup {0}, count: 0..MaxPerMinute]]
  /\ cleaned \in Minutes \cup {0}
  /\ clock \in Minutes
  /\ stamp \in [Handlers -> Minutes]
  /\ bodyUsed \in 0..BodyLimit
  /\ bodyHeld \in [Handlers -> Reservations \cup {0}]
  /\ respUsed \in 0..ResponseLimit
  /\ respHeld \in [Handlers -> 0..ResponseMax]
  /\ respNext \in [Handlers -> 0..ResponseMax]
  /\ passed \in [Keys -> [Minutes -> Nat]]
  /\ latest \in Minutes \cup {0}
  /\ late \in [Keys -> Nat]

NoEntry == [minute |-> 0, count |-> 0]

Init ==
  /\ pc = [h \in Handlers |-> "idle"]
  /\ key = [h \in Handlers |-> NoKey]
  /\ active = 0
  /\ byKey = [k \in Keys |-> 0]
  /\ rate = [k \in Keys |-> NoEntry]
  /\ cleaned = 0
  /\ clock = 1
  /\ stamp = [h \in Handlers |-> 1]
  /\ bodyUsed = 0
  /\ bodyHeld = [h \in Handlers |-> 0]
  /\ respUsed = 0
  /\ respHeld = [h \in Handlers |-> 0]
  /\ respNext = [h \in Handlers |-> 0]
  /\ passed = [k \in Keys |-> [m \in Minutes |-> 0]]
  /\ latest = 0
  /\ late = [k \in Keys |-> 0]

Goto(h, next) == pc' = [pc EXCEPT ![h] = next]

At(states) == {h \in Handlers : pc[h] \in states}

-----------------------------------------------------------------------------
(* authenticate: one of MaxConcurrentRequests slots, for its duration.     *)

Arrive(h) ==
  /\ pc[h] = "idle"
  /\ Cardinality(At({"auth"})) < MaxConcurrent
  /\ Goto(h, "auth")
  /\ UNCHANGED <<key, gateVars, rateVars, clock, stamp, bodyVars, respVars>>

Authenticated(h) ==
  /\ pc[h] = "auth"
  /\ \E k \in Keys : key' = [key EXCEPT ![h] = k]
  /\ Goto(h, "known")
  /\ UNCHANGED <<gateVars, rateVars, clock, stamp, bodyVars, respVars>>

Unauthenticated(h) ==
  /\ pc[h] = "auth"
  /\ Goto(h, "idle")
  /\ UNCHANGED <<key, gateVars, rateVars, clock, stamp, bodyVars, respVars>>

-----------------------------------------------------------------------------
(* requestGate.acquire and release.                                        *)

GateFull(k) == active >= MaxConcurrent \/ byKey[k] >= MaxPerKey

GateAcquire(h) ==
  /\ pc[h] = "known"
  /\ ~GateFull(key[h])
  /\ active' = active + 1
  /\ byKey' = [byKey EXCEPT ![key[h]] = @ + 1]
  /\ Goto(h, "gated")
  /\ UNCHANGED <<key, rateVars, clock, stamp, bodyVars, respVars>>

GateRefuse(h) ==
  /\ pc[h] = "known"
  /\ GateFull(key[h])
  /\ Goto(h, "idle")
  /\ key' = [key EXCEPT ![h] = NoKey]
  /\ UNCHANGED <<gateVars, rateVars, clock, stamp, bodyVars, respVars>>

Minus1(n) == IF n > 0 THEN n - 1 ELSE 0

GateRelease(h) ==
  /\ pc[h] = "freeGate"
  /\ active' = Minus1(active)
  /\ byKey' = [byKey EXCEPT ![key[h]] = Minus1(@)]
  /\ Goto(h, "idle")
  /\ key' = [key EXCEPT ![h] = NoKey]
  /\ UNCHANGED <<rateVars, clock, stamp, bodyVars, respVars>>

-----------------------------------------------------------------------------
(* requestRateLimiter.allow: the caller reads the clock, then the limiter  *)
(* takes its lock.                                                         *)

ReadClock(h) ==
  /\ pc[h] = "gated"
  /\ stamp' = [stamp EXCEPT ![h] = clock]
  /\ Goto(h, "rate")
  /\ UNCHANGED <<key, gateVars, rateVars, clock, bodyVars, respVars>>

(* A minute or more since the last cleanup: certain when two minutes have  *)
(* begun since, possible when one has.                                     *)
Cleanup(window) ==
  \/ /\ cleaned = 0 \/ window > cleaned
     /\ cleaned' = window
  \/ /\ cleaned # 0 /\ window <= cleaned + 1
     /\ UNCHANGED cleaned

Entries(window) ==
  IF cleaned' = cleaned THEN rate
  ELSE [k \in Keys |-> IF rate[k].minute < window THEN NoEntry ELSE rate[k]]

Entry(k, window) ==
  LET entry == Entries(window)[k] IN
  IF entry.minute = window THEN entry ELSE [minute |-> window, count |-> 0]

Seen(k, window) ==
  /\ latest' = IF window > latest THEN window ELSE latest
  /\ late' = IF window < latest THEN [late EXCEPT ![k] = @ + 1] ELSE late

OneMore(entry) == entry.count <= MaxPerMinute
UnderLimit(entry) == entry.count < MaxPerMinute

RateAllow(h) ==
  LET k == key[h]
      window == stamp[h]
      entry == Entry(k, window)
  IN /\ pc[h] = "rate"
     /\ Cleanup(window)
     /\ UnderLimit(entry)
     /\ rate' = [Entries(window) EXCEPT ![k] = [entry EXCEPT !.count = @ + 1]]
     /\ passed' = [passed EXCEPT ![k][window] = @ + 1]
     /\ Seen(k, window)
     /\ Goto(h, "allowed")
     /\ UNCHANGED <<key, gateVars, clock, stamp, bodyVars, respVars>>

RateRefuse(h) ==
  LET k == key[h]
      window == stamp[h]
      entry == Entry(k, window)
  IN /\ pc[h] = "rate"
     /\ Cleanup(window)
     /\ ~UnderLimit(entry)
     /\ rate' = [Entries(window) EXCEPT ![k] = entry]
     /\ Seen(k, window)
     /\ Goto(h, "freeGate")
     /\ UNCHANGED <<key, gateVars, clock, stamp, bodyVars, respVars, passed>>

Tick ==
  /\ clock < MaxMinute
  /\ clock' = clock + 1
  /\ UNCHANGED <<pc, key, gateVars, rateVars, stamp, bodyVars, respVars>>

-----------------------------------------------------------------------------
(* The body budget.  The list of models has no body.                       *)

ListModels(h) ==
  /\ pc[h] = "allowed"
  /\ Goto(h, "freeGate")
  /\ UNCHANGED <<key, gateVars, rateVars, clock, stamp, bodyVars, respVars>>

Fits(size, limit, used) == used + size <= limit

BodyAcquire(h) ==
  /\ pc[h] = "allowed"
  /\ \E size \in Reservations :
       /\ Fits(size, BodyLimit, bodyUsed)
       /\ bodyUsed' = bodyUsed + size
       /\ bodyHeld' = [bodyHeld EXCEPT ![h] = size]
  /\ Goto(h, "body")
  /\ UNCHANGED <<key, gateVars, rateVars, clock, stamp, respVars>>

BodyRefuse(h) ==
  /\ pc[h] = "allowed"
  /\ \E size \in Reservations : ~Fits(size, BodyLimit, bodyUsed)
  /\ Goto(h, "freeGate")
  /\ UNCHANGED <<key, gateVars, rateVars, clock, stamp, bodyVars, respVars>>

BodyRelease(h) ==
  /\ pc[h] = "freeBody"
  /\ bodyUsed' = bodyUsed - bodyHeld[h]
  /\ bodyHeld' = [bodyHeld EXCEPT ![h] = 0]
  /\ Goto(h, "freeGate")
  /\ UNCHANGED <<key, gateVars, rateVars, clock, stamp, respVars>>

(* The body is read and routed, or it is not: a bad request, no permission,*)
(* no configuration, the end of the request.                               *)
Routed(h) ==
  /\ pc[h] = "body"
  /\ \E next \in {"attempt", "freeBody"} : Goto(h, next)
  /\ UNCHANGED <<key, gateVars, rateVars, clock, stamp, bodyVars, respVars>>

-----------------------------------------------------------------------------
(* The attempts.  One that fails without a buffered response is followed   *)
(* by the next one; a stream, or the last failure, ends the request.       *)

AttemptEnds(h) ==
  /\ pc[h] = "attempt"
  /\ Goto(h, "freeBody")
  /\ UNCHANGED <<key, gateVars, rateVars, clock, stamp, bodyVars, respVars>>

StartReading(h) ==
  /\ pc[h] = "attempt"
  /\ Goto(h, "reading")
  /\ UNCHANGED <<key, gateVars, rateVars, clock, stamp, bodyVars, respVars>>

(* responseBuffer.append doubles the buffer, up to its maximum, and holds  *)
(* the old allocation until it has copied it to the new one.               *)
NextSize(held) ==
  LET double == IF held = 0 THEN 1 ELSE 2 * held
  IN IF double < ResponseMax THEN double ELSE ResponseMax

GrowAcquire(h) ==
  LET next == NextSize(respHeld[h]) IN
  /\ pc[h] = "reading"
  /\ respHeld[h] < ResponseMax
  /\ Fits(next, ResponseLimit, respUsed)
  /\ respUsed' = respUsed + next
  /\ respNext' = [respNext EXCEPT ![h] = next]
  /\ Goto(h, "growing")
  /\ UNCHANGED <<key, gateVars, rateVars, clock, stamp, bodyVars, respHeld>>

GrowRelease(h) ==
  /\ pc[h] = "growing"
  /\ respUsed' = respUsed - respHeld[h]
  /\ respHeld' = [respHeld EXCEPT ![h] = respNext[h]]
  /\ respNext' = [respNext EXCEPT ![h] = 0]
  /\ Goto(h, "reading")
  /\ UNCHANGED <<key, gateVars, rateVars, clock, stamp, bodyVars>>

(* responseBuffer.release                                                  *)
FreeResponse(h) ==
  /\ respUsed' = respUsed - respHeld[h]
  /\ respHeld' = [respHeld EXCEPT ![h] = 0]
  /\ UNCHANGED respNext

(* errResponseBudget ends the request.                                     *)
GrowRefused(h) ==
  /\ pc[h] = "reading"
  /\ respHeld[h] < ResponseMax
  /\ ~Fits(NextSize(respHeld[h]), ResponseLimit, respUsed)
  /\ FreeResponse(h)
  /\ Goto(h, "freeBody")
  /\ UNCHANGED <<key, gateVars, rateVars, clock, stamp, bodyVars>>

ReadFailsAndKeeps(h) ==
  /\ pc[h] = "reading"
  /\ Goto(h, "attempt")
  /\ UNCHANGED <<key, gateVars, rateVars, clock, stamp, bodyVars, respVars>>

(* Any other error of the read: the next upstream, if there is one.        *)
ReadFails(h) ==
  /\ pc[h] = "reading"
  /\ FreeResponse(h)
  /\ Goto(h, "attempt")
  /\ UNCHANGED <<key, gateVars, rateVars, clock, stamp, bodyVars>>

ReadDone(h) ==
  /\ pc[h] = "reading"
  /\ Goto(h, "buffered")
  /\ UNCHANGED <<key, gateVars, rateVars, clock, stamp, bodyVars, respVars>>

(* The response is written, or its client has left.                        *)
Deliver(h) ==
  /\ pc[h] = "buffered"
  /\ Goto(h, "freeBuffer")
  /\ UNCHANGED <<key, gateVars, rateVars, clock, stamp, bodyVars, respVars>>

BufferRelease(h) ==
  /\ pc[h] = "freeBuffer"
  /\ FreeResponse(h)
  /\ Goto(h, "freeBody")
  /\ UNCHANGED <<key, gateVars, rateVars, clock, stamp, bodyVars>>

-----------------------------------------------------------------------------

Admit(h) ==
  \/ Arrive(h) \/ Authenticated(h) \/ Unauthenticated(h)
  \/ GateAcquire(h) \/ GateRefuse(h)
  \/ ReadClock(h) \/ RateAllow(h) \/ RateRefuse(h)

Serve(h) ==
  \/ ListModels(h)
  \/ BodyAcquire(h) \/ BodyRefuse(h) \/ Routed(h)
  \/ AttemptEnds(h) \/ StartReading(h)
  \/ GrowAcquire(h) \/ GrowRelease(h) \/ GrowRefused(h)
  \/ ReadFails(h) \/ ReadDone(h) \/ Deliver(h)
  \/ BufferRelease(h) \/ BodyRelease(h) \/ GateRelease(h)

Next == Tick \/ \E h \in Handlers : Admit(h) \/ Serve(h)

Spec == Init /\ [][Next]_vars

-----------------------------------------------------------------------------
(* Properties.                                                             *)

Sum(f) == FoldFunction(LAMBDA x, y : x + y, 0, f)

InGate == At(PcStates \ {"idle", "auth", "known"})

(* The gate counts the requests that are in it, in all and per key: no     *)
(* early return, refusal or failed attempt leaves a count behind or takes  *)
(* another's away.                                                         *)
GateIsExact ==
  /\ active = Cardinality(InGate)
  /\ \A k \in Keys : byKey[k] = Cardinality({h \in InGate : key[h] = k})

(* The two budgets count what is held, the old and the new allocation of a *)
(* growing buffer included.                                                *)
BudgetsAreExact ==
  /\ bodyUsed = Sum(bodyHeld)
  /\ respUsed = Sum(respHeld) + Sum(respNext)

(* A request that has left holds nothing, whichever way it left.           *)
NothingIsLeaked ==
  \A h \in Handlers :
    /\ pc[h] \in {"idle", "freeGate"} => bodyHeld[h] = 0
    /\ pc[h] \in {"idle", "attempt", "freeBody", "freeGate"}
         => respHeld[h] = 0 /\ respNext[h] = 0

(* Together: what the gate and the budgets have given away is held by the  *)
(* requests under way, and a request that is over holds nothing.           *)
ResourcesAreExact == GateIsExact /\ BudgetsAreExact /\ NothingIsLeaked

(* The rate limiter lets no more than MaxPerMinute requests of a key pass  *)
(* in a minute, and as many again for each call that took its lock after   *)
(* one of a later minute.                                                  *)
RateLimitHolds ==
  \A k \in Keys : \A m \in Minutes :
    passed[k][m] <= MaxPerMinute * (1 + late[k])

(* The documentation: "600 requests per key per minute", a "per-key        *)
(* fixed-window request limit".                                            *)
AtMostMaxPerMinute ==
  \A k \in Keys : \A m \in Minutes : passed[k][m] <= MaxPerMinute
=============================================================================
