------------------------------ MODULE Incident ------------------------------
(***************************************************************************)
(* The arithmetic of one incident (internal/ops/incident.go): what an      *)
(* observation makes of its state and which notification it asks for.      *)
(* Both the health notifications of the store and the alert engine use it. *)
(*                                                                         *)
(* The code keeps instants and compares now.Sub(instant) with durations;   *)
(* here a state keeps the ages of those instants, counted in ticks up to   *)
(* MaxAge, and RetryAfter as the ticks that are left until it.             *)
(***************************************************************************)
EXTENDS Integers

CONSTANT MaxAge     (* bounds every age; no duration of a policy exceeds it *)

Unset == -1         (* a nil instant *)
Age == Unset..MaxAge

(* IncidentState and IncidentHistory.  NotifiedActive is nil only before   *)
(* the first observation, which sets it to Active: NewState has done so.   *)
IncidentState ==
  [active: BOOLEAN, notified: BOOLEAN, count: Nat, firing: Nat, recovery: Nat,
   observed: Age, lastFiring: Age, normal: Age, retry: 0..MaxAge]

(* Nothing was notified, or what the legacy column said was.               *)
NewState(notified) ==
  [active |-> notified, notified |-> notified,
   count |-> IF notified THEN 1 ELSE 0, firing |-> 0, recovery |-> 0,
   observed |-> Unset, lastFiring |-> IF notified THEN 0 ELSE Unset,
   normal |-> Unset, retry |-> 0]

Older(age) == IF age = Unset \/ age = MaxAge THEN age ELSE age + 1
Later(s) ==
  [s EXCEPT !.observed = Older(@), !.lastFiring = Older(@),
            !.normal = Older(@), !.retry = IF @ = 0 THEN 0 ELSE @ - 1]

-----------------------------------------------------------------------------
(* Observe.                                                                *)

Forgotten(s) == [s EXCEPT !.firing = 0, !.recovery = 0, !.normal = Unset]

AfterGap(s, p) ==
  [(IF p.gap > 0 /\ s.observed > p.gap THEN Forgotten(s) ELSE s)
     EXCEPT !.observed = 0]

Bad(s, p) ==
  LET streak == IF s.firing < p.firing THEN s.firing + 1 ELSE s.firing
  IN [s EXCEPT !.recovery = 0, !.normal = Unset, !.firing = streak,
               !.active = @ \/ streak >= p.firing]

RenewedAtOnce(s, p) == TRUE
StableLongEnough(s, p) == s.normal >= p.stable

Good(s, p) ==
  LET streak == IF s.recovery < p.recovery THEN s.recovery + 1 ELSE s.recovery
      t == [s EXCEPT !.firing = 0, !.recovery = streak,
                     !.normal = IF @ = Unset THEN 0 ELSE @,
                     !.active = @ /\ streak < p.recovery]
  IN IF ~t.active /\ StableLongEnough(t, p)
     THEN [t EXCEPT !.count = 0,
                    !.lastFiring = IF p.stable = 0 THEN Unset ELSE @]
     ELSE t

(* The state after an observation; "none" is missing evidence (Ignore) and *)
(* the hysteresis band (Hold) alike.                                       *)
Observed(s, seen, p) ==
  LET t == AfterGap(s, p)
  IN CASE seen = "none" -> Forgotten(t)
       [] seen = "bad" -> Bad(t, p)
       [] seen = "good" -> Good(t, p)

BudgetSpent(t, p) == p.max > 0 /\ t.count >= p.max

OnlyCooldown(t, p) == t.lastFiring # Unset /\ t.lastFiring < p.cooldown
TooSoon(t, p) ==
  t.lastFiring # Unset
    /\ (t.lastFiring < p.cooldown \/ (t.notified /\ ~p.repeat))

(* The notification the observed state t asks for.                         *)
Asked(t, seen, p) ==
  IF seen = "none" \/ t.retry > 0 THEN "none"
  ELSE IF ~t.active /\ seen = "good" /\ t.notified THEN "resolved"
  ELSE IF t.active /\ seen = "bad" /\ ~BudgetSpent(t, p) /\ ~TooSoon(t, p)
       THEN "firing"
  ELSE "none"

(* Accepted, by an observation made age ticks ago.                         *)
Accepted(s, event, age) ==
  [s EXCEPT !.notified = event = "firing", !.retry = 0,
            !.count = IF event = "firing" THEN @ + 1 ELSE @,
            !.lastFiring = IF event = "firing" THEN age ELSE @]

(* EnqueueFailed, by an observation made age ticks ago.                    *)
EnqueueFailed(s, cooldown, age) ==
  [s EXCEPT !.retry = IF cooldown > age THEN cooldown - age ELSE 0]
=============================================================================
