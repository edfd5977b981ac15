---------------------------- MODULE MonitorProofs ----------------------------
(***************************************************************************)
(* Proofs about the two sides of the upstream monitor.                     *)
(*                                                                         *)
(* The notifications of one incident, for any policies, lease and number   *)
(* of faults: types, the budget of firing notifications, and their pace.   *)
(*                                                                         *)
(* Balance protection, for any number of transitions, edits and refreshes: *)
(* types, the evidence behind a suspension, and the transitions the        *)
(* monitor tells, in order and without losing the newest.                  *)
(***************************************************************************)
EXTENDS NotificationIncidents, BalanceMonitor, TLAPS

PolicyTypes(p) ==
  /\ p.path \in {"health", "alert"} /\ p.repeat \in BOOLEAN
  /\ p.firing \in Nat /\ p.recovery \in Nat /\ p.max \in Nat
  /\ p.cooldown \in 0..MaxAge /\ p.stable \in 0..MaxAge /\ p.gap \in 0..MaxAge
  /\ p.interval \in Nat \ {0}

-----------------------------------------------------------------------------
(* What the operators on an incident's state do to its fields.             *)

LEMMA Ages == MaxAge \in Nat /\ Lease \in 1..MaxAge /\ MaxFaults \in Nat
BY IncidentAssumption

LEMMA AgeFacts == Unset \in Age /\ 0 \in Age /\ 0 \in 0..MaxAge /\ 0 # Unset
BY Ages DEF Age, Unset

LEMMA PolicyFields == ASSUME NEW p \in Policies PROVE PolicyTypes(p)
BY IncidentAssumption DEF PolicyTypes

LEMMA NewStateFields ==
  ASSUME NEW notified \in BOOLEAN
  PROVE  /\ NewState(notified) \in IncidentState
         /\ NewState(notified).count = (IF notified THEN 1 ELSE 0)
         /\ NewState(notified).normal = Unset /\ NewState(notified).notified = notified
         /\ NewState(notified).lastFiring = (IF notified THEN 0 ELSE Unset)
         /\ NewState(notified).observed = Unset
BY Ages DEF NewState, IncidentState, Age, Unset

LEMMA ForgottenFields ==
  ASSUME NEW s \in IncidentState
  PROVE  /\ Forgotten(s) \in IncidentState
         /\ Forgotten(s).count = s.count /\ Forgotten(s).normal = Unset
         /\ Forgotten(s).notified = s.notified /\ Forgotten(s).active = s.active
         /\ Forgotten(s).lastFiring = s.lastFiring /\ Forgotten(s).observed = s.observed
BY AgeFacts DEF Forgotten, IncidentState

LEMMA AfterGapFields ==
  ASSUME NEW s \in IncidentState, NEW p
  PROVE  LET t == AfterGap(s, p)
         IN /\ t \in IncidentState
            /\ t.count = s.count /\ (t.normal = Unset \/ t.normal = s.normal)
            /\ t.notified = s.notified
            /\ t.lastFiring = s.lastFiring /\ t.observed = 0
<1> DEFINE r == IF p.gap > 0 /\ s.observed > p.gap THEN Forgotten(s) ELSE s
<1>1. /\ r \in IncidentState /\ r.count = s.count
      /\ r.normal = Unset \/ r.normal = s.normal
      /\ r.notified = s.notified /\ r.lastFiring = s.lastFiring
  BY ForgottenFields
<1>2. AfterGap(s, p) = [r EXCEPT !.observed = 0]
  BY DEF AfterGap
<1> HIDE DEF r
<1> QED
  BY <1>1, <1>2, AgeFacts DEF IncidentState

LEMMA BadFields ==
  ASSUME NEW s \in IncidentState, NEW p, PolicyTypes(p)
  PROVE  LET t == Bad(s, p)
         IN /\ t \in IncidentState
            /\ t.count = s.count /\ t.normal = Unset
            /\ t.notified = s.notified
            /\ t.lastFiring = s.lastFiring /\ t.observed = s.observed
<1> DEFINE streak == IF s.firing < p.firing THEN s.firing + 1 ELSE s.firing
<1>1. streak \in Nat
  BY DEF IncidentState
<1>2. s.active \in BOOLEAN
  BY DEF IncidentState
<1> DEFINE a == s.active \/ streak >= p.firing
<1>3. a \in BOOLEAN
  OBVIOUS
<1> DEFINE t == [s EXCEPT !.recovery = 0, !.normal = Unset, !.firing = streak, !.active = a]
<1>4. Bad(s, p) = t
  BY DEF Bad
<1> HIDE DEF streak, a
<1>5. /\ t \in IncidentState
      /\ t.count = s.count /\ t.normal = Unset
      /\ t.notified = s.notified
      /\ t.lastFiring = s.lastFiring /\ t.observed = s.observed
  BY <1>1, <1>3, AgeFacts DEF IncidentState
<1> HIDE DEF t
<1> QED
  BY <1>4, <1>5

LEMMA GoodFields ==
  ASSUME NEW s \in IncidentState, NEW p, PolicyTypes(p)
  PROVE  LET t == Good(s, p)
         IN /\ t \in IncidentState
            /\ t.normal = (IF s.normal = Unset THEN 0 ELSE s.normal)
            /\ t.count = s.count \/ (t.count = 0 /\ t.normal >= p.stable)
            /\ t.notified = s.notified
            /\ t.lastFiring = s.lastFiring \/ p.stable = 0
            /\ t.observed = s.observed
<1> DEFINE streak == IF s.recovery < p.recovery THEN s.recovery + 1 ELSE s.recovery
           a == s.active /\ streak < p.recovery
           normal == IF s.normal = Unset THEN 0 ELSE s.normal
           t == [s EXCEPT !.firing = 0, !.recovery = streak, !.normal = normal, !.active = a]
<1>1. streak \in Nat
  BY DEF IncidentState, PolicyTypes
<1>2. a \in BOOLEAN
  BY DEF IncidentState
<1>3. normal \in Age
  BY Ages DEF IncidentState, Age, Unset
<1> HIDE DEF streak, a, normal
<1>4. /\ t \in IncidentState /\ t.normal = normal /\ t.count = s.count
      /\ t.notified = s.notified /\ t.lastFiring = s.lastFiring /\ t.observed = s.observed
  BY <1>1, <1>2, <1>3 DEF IncidentState
<1> DEFINE u == [t EXCEPT !.count = 0,
                          !.lastFiring = IF p.stable = 0 THEN Unset ELSE t.lastFiring]
<1>5. Good(s, p) = IF ~t.active /\ StableLongEnough(t, p) THEN u ELSE t
  BY DEF Good, streak, a, normal
<1> HIDE DEF t
<1>7. t.lastFiring \in Age
  BY <1>4 DEF IncidentState
<1>6. /\ u \in IncidentState /\ u.normal = t.normal /\ u.count = 0
      /\ u.notified = t.notified
      /\ u.lastFiring = t.lastFiring \/ p.stable = 0
      /\ u.observed = t.observed
  BY <1>4, <1>7, AgeFacts DEF IncidentState
<1> HIDE DEF u
<1>8. CASE Good(s, p) = t
  BY <1>4, <1>8 DEF normal
<1>9. CASE Good(s, p) = u /\ t.normal >= p.stable
  BY <1>4, <1>6, <1>9 DEF normal
<1> QED
  BY <1>5, <1>8, <1>9 DEF StableLongEnough

(* An observation: what it does to the fields.                             *)
LEMMA ObservedFields ==
  ASSUME NEW s \in IncidentState, NEW p, PolicyTypes(p), NEW found \in Findings
  PROVE  LET t == Observed(s, found, p)
         IN /\ t \in IncidentState /\ t.observed = 0
            /\ \/ t.count = s.count
               \/ /\ t.count = 0 /\ found = "good"
                  /\ p.stable = 0 \/ (s.normal # Unset /\ s.normal >= p.stable)
            /\ \/ t.normal = Unset
               \/ found = "good" /\ (t.normal = 0 \/ t.normal = s.normal)
            /\ t.notified = s.notified
            /\ t.lastFiring = s.lastFiring \/ p.stable = 0
<1> DEFINE r == AfterGap(s, p)
<1>1. /\ r \in IncidentState /\ r.count = s.count
      /\ r.normal = Unset \/ r.normal = s.normal
      /\ r.notified = s.notified /\ r.lastFiring = s.lastFiring /\ r.observed = 0
  BY AfterGapFields
<1> HIDE DEF r
<1>2. CASE found = "none"
  <2>1. Observed(s, found, p) = Forgotten(r)
    BY <1>2 DEF Observed, r
  <2> QED
    BY <2>1, <1>1, ForgottenFields
<1>3. CASE found = "bad"
  <2>1. Observed(s, found, p) = Bad(r, p)
    BY <1>3 DEF Observed, r
  <2> QED
    BY <2>1, <1>1, BadFields
<1>4. CASE found = "good"
  <2> DEFINE t == Good(r, p)
  <2>1. Observed(s, found, p) = t
    BY <1>4 DEF Observed, r
  <2>2. /\ t \in IncidentState
        /\ t.normal = (IF r.normal = Unset THEN 0 ELSE r.normal)
        /\ t.count = r.count \/ (t.count = 0 /\ t.normal >= p.stable)
        /\ t.notified = r.notified
        /\ t.lastFiring = r.lastFiring \/ p.stable = 0
        /\ t.observed = r.observed
    BY <1>1, GoodFields
  <2> HIDE DEF t
  <2>3. t.normal = 0 \/ (t.normal = s.normal /\ s.normal # Unset)
    BY <2>2, <1>1
  <2>4. t.normal = 0 /\ t.normal >= p.stable => p.stable = 0
    BY Ages DEF PolicyTypes
  <2> QED
    BY <2>1, <2>2, <2>3, <2>4, <1>1, <1>4
<1> QED
  BY <1>2, <1>3, <1>4 DEF Findings

LEMMA AcceptedFields ==
  ASSUME NEW s \in IncidentState, NEW e, NEW age \in 0..MaxAge
  PROVE  LET t == Accepted(s, e, age)
         IN /\ t \in IncidentState
            /\ t.count = (IF e = "firing" THEN s.count + 1 ELSE s.count)
            /\ t.normal = s.normal /\ t.observed = s.observed
            /\ t.notified = (e = "firing")
            /\ t.lastFiring = (IF e = "firing" THEN age ELSE s.lastFiring)
<1> DEFINE n == IF e = "firing" THEN s.count + 1 ELSE s.count
           a == IF e = "firing" THEN age ELSE s.lastFiring
           b == e = "firing"
           t == [s EXCEPT !.notified = b, !.retry = 0, !.count = n, !.lastFiring = a]
<1>1. n \in Nat /\ a \in Age /\ b \in BOOLEAN
  BY Ages DEF IncidentState, Age, Unset
<1>2. Accepted(s, e, age) = t
  BY DEF Accepted
<1> HIDE DEF n, a, b
<1>3. /\ t \in IncidentState
      /\ t.count = n /\ t.normal = s.normal /\ t.observed = s.observed
      /\ t.notified = b /\ t.lastFiring = a
  BY <1>1, AgeFacts DEF IncidentState
<1> HIDE DEF t
<1> QED
  BY <1>2, <1>3 DEF n, a, b

LEMMA EnqueueFailedFields ==
  ASSUME NEW s \in IncidentState, NEW wait \in 0..MaxAge, NEW age \in 0..MaxAge
  PROVE  LET t == EnqueueFailed(s, wait, age)
         IN /\ t \in IncidentState
            /\ t.count = s.count /\ t.normal = s.normal /\ t.observed = s.observed
            /\ t.notified = s.notified /\ t.lastFiring = s.lastFiring
<1> DEFINE r == IF wait > age THEN wait - age ELSE 0
           t == [s EXCEPT !.retry = r]
<1>1. r \in 0..MaxAge
  BY Ages
<1>2. EnqueueFailed(s, wait, age) = t
  BY DEF EnqueueFailed
<1> HIDE DEF r
<1>3. /\ t \in IncidentState
      /\ t.count = s.count /\ t.normal = s.normal /\ t.observed = s.observed
      /\ t.notified = s.notified /\ t.lastFiring = s.lastFiring
  BY <1>1 DEF IncidentState
<1> HIDE DEF t
<1> QED
  BY <1>2, <1>3

LEMMA OlderIsAge ==
  ASSUME NEW age \in Age
  PROVE  /\ Older(age) \in Age /\ (Older(age) = Unset) = (age = Unset)
         /\ age >= 0 => Older(age) >= 0
BY Ages DEF Older, Age, Unset

LEMMA LaterFields ==
  ASSUME NEW s \in IncidentState
  PROVE  LET t == Later(s)
         IN /\ t \in IncidentState
            /\ t.count = s.count /\ t.notified = s.notified
            /\ t.normal = Older(s.normal) /\ t.observed = Older(s.observed)
            /\ t.lastFiring = Older(s.lastFiring)
<1> DEFINE r == IF s.retry = 0 THEN 0 ELSE s.retry - 1
           t == [s EXCEPT !.observed = Older(s.observed), !.lastFiring = Older(s.lastFiring),
                          !.normal = Older(s.normal), !.retry = r]
<1>1. /\ r \in 0..MaxAge /\ Older(s.observed) \in Age
      /\ Older(s.lastFiring) \in Age /\ Older(s.normal) \in Age
  BY Ages, OlderIsAge DEF IncidentState
<1>2. Later(s) = t
  BY DEF Later
<1> HIDE DEF r
<1>3. /\ t \in IncidentState
      /\ t.count = s.count /\ t.notified = s.notified
      /\ t.normal = Older(s.normal) /\ t.observed = Older(s.observed)
      /\ t.lastFiring = Older(s.lastFiring)
  BY <1>1 DEF IncidentState
<1> HIDE DEF t
<1> QED
  BY <1>2, <1>3

(* Ages that are ordered stay so.                                          *)
LEMMA OlderKeepsOrder ==
  ASSUME NEW a \in Age, NEW b \in Age, a <= b, a # Unset
  PROVE  Older(a) <= Older(b)
BY Ages DEF Older, Age, Unset

(* What a notification was asked for.                                      *)
LEMMA AskedFacts ==
  ASSUME NEW t \in IncidentState, NEW p, PolicyTypes(p), NEW found \in Findings
  PROVE  LET e == Asked(t, found, p)
         IN /\ e \in {"none", "firing", "resolved"}
            /\ e = "firing" =>
                 /\ found = "bad" /\ (p.max > 0 => t.count < p.max)
                 /\ \/ t.lastFiring = Unset
                    \/ t.lastFiring >= p.cooldown /\ (~t.notified \/ p.repeat)
            /\ e = "resolved" => t.notified
<1>1. t.count \in Nat /\ t.lastFiring \in Int /\ t.notified \in BOOLEAN
  BY Ages DEF IncidentState, Age, Unset
<1>2. p.max \in Nat /\ p.cooldown \in Int /\ p.repeat \in BOOLEAN
  BY Ages DEF PolicyTypes
<1>3. BudgetSpent(t, p) <=> p.max > 0 /\ t.count >= p.max
  BY DEF BudgetSpent
<1>4. TooSoon(t, p) <=> t.lastFiring # Unset
                        /\ (t.lastFiring < p.cooldown \/ (t.notified /\ ~p.repeat))
  BY DEF TooSoon
<1>5. /\ Asked(t, found, p) \in {"none", "firing", "resolved"}
      /\ Asked(t, found, p) = "firing" => found = "bad" /\ ~BudgetSpent(t, p) /\ ~TooSoon(t, p)
      /\ Asked(t, found, p) = "resolved" => t.notified
  BY DEF Asked
<1> QED
  BY <1>1, <1>2, <1>3, <1>4, <1>5

LEMMA ObservationFields ==
  ASSUME row \in IncidentState, PolicyTypes(policy), NEW found \in Findings
  PROVE  LET t == Observation(found).state
             e == Observation(found).asked
         IN /\ t \in IncidentState /\ t.observed = 0
            /\ \/ t.count = row.count
               \/ /\ t.count = 0 /\ found = "good"
                  /\ policy.stable = 0 \/ (row.normal # Unset /\ row.normal >= policy.stable)
            /\ \/ t.normal = Unset
               \/ found = "good" /\ (t.normal = 0 \/ t.normal = row.normal)
            /\ t.notified = row.notified
            /\ t.lastFiring = row.lastFiring \/ policy.stable = 0
            /\ e \in {"none", "firing", "resolved"}
            /\ e = "firing" =>
                 /\ found = "bad" /\ (policy.max > 0 => t.count < policy.max)
                 /\ \/ t.lastFiring = Unset
                    \/ t.lastFiring >= policy.cooldown /\ (~t.notified \/ policy.repeat)
            /\ e = "resolved" => t.notified
<1> DEFINE o == Observed(row, found, policy)
           e == Asked(o, found, policy)
           l == EnqueueFailed(o, Lease, 0)
           t == Leased(o, e)
<1>1. Observation(found).state = t /\ Observation(found).asked = e
  BY DEF Observation
<1>2. /\ o \in IncidentState /\ o.observed = 0
      /\ \/ o.count = row.count
         \/ /\ o.count = 0 /\ found = "good"
            /\ policy.stable = 0 \/ (row.normal # Unset /\ row.normal >= policy.stable)
      /\ \/ o.normal = Unset
         \/ found = "good" /\ (o.normal = 0 \/ o.normal = row.normal)
      /\ o.notified = row.notified
      /\ o.lastFiring = row.lastFiring \/ policy.stable = 0
  BY ObservedFields
<1> HIDE DEF o
<1>3. /\ e \in {"none", "firing", "resolved"}
      /\ e = "firing" =>
           /\ found = "bad" /\ (policy.max > 0 => o.count < policy.max)
           /\ \/ o.lastFiring = Unset
              \/ o.lastFiring >= policy.cooldown /\ (~o.notified \/ policy.repeat)
      /\ e = "resolved" => o.notified
  BY <1>2, AskedFacts
<1> HIDE DEF e
<1>4. /\ l \in IncidentState
      /\ l.count = o.count /\ l.normal = o.normal /\ l.observed = o.observed
      /\ l.notified = o.notified /\ l.lastFiring = o.lastFiring
  <2>1. Lease \in 0..MaxAge /\ 0 \in 0..MaxAge
    BY Ages
  <2> QED
    BY <1>2, <2>1, EnqueueFailedFields
<1>5. t = IF e = "none" THEN o ELSE l
  BY DEF Leased
<1> HIDE DEF t, l
<1>6. /\ t \in IncidentState
      /\ t.count = o.count /\ t.normal = o.normal /\ t.observed = o.observed
      /\ t.notified = o.notified /\ t.lastFiring = o.lastFiring
  BY <1>2, <1>4, <1>5
<1> QED
  BY <1>1, <1>2, <1>3, <1>6

-----------------------------------------------------------------------------
(* Types, and where the worker can be.                                     *)

Places ==
  /\ pc \in {"saved", "accept"} => Health
  /\ pc \in {"loaded", "save"} => ~Health
  /\ pc \in {"idle", "saved", "loaded"} => event = "none"
  /\ pc \in {"notify", "accept"} => event # "none"
  /\ event = "firing" => seen = "bad"
  /\ pc \in {"notify", "save"} /\ ~Health => copy.observed \in 0..MaxAge
  /\ lost <= faults

LEMMA PlacesInit == Init => TypeOK /\ Places
<1> SUFFICES ASSUME Init PROVE TypeOK /\ Places
  OBVIOUS
<1>1. PICK notified \in BOOLEAN :
        /\ row = NewState(notified)
        /\ said = IF notified THEN "firing" ELSE "none"
        /\ fired = IF notified THEN 1 ELSE 0
        /\ spoke = IF notified THEN 0 ELSE Unset
  BY DEF Init
<1>2. row \in IncidentState /\ copy \in IncidentState
  BY <1>1, NewStateFields DEF Init
<1>3. spoke \in Age /\ fired \in Nat /\ calm \in 0..MaxAge
  BY <1>1, AgeFacts DEF Init
<1>4. said \in {"none", "firing", "resolved"}
  BY <1>1
<1>5. 0 \in 0..MaxAge /\ 0 \in 0..MaxFaults
  BY Ages
<1>6. /\ policy \in Policies /\ enabled \in BOOLEAN /\ truth \in Findings /\ seen \in Findings
      /\ pc = "idle" /\ event = "none" /\ round = 0 /\ faults = 0 /\ lost = 0
  BY DEF Init, Findings
<1>7. TypeOK
  BY <1>2, <1>3, <1>4, <1>5, <1>6 DEF TypeOK
<1> QED
  BY <1>6, <1>7 DEF Places

(* The end of a round, and the history an observation leaves.              *)
LEMMA RestTypes ==
  ASSUME Rest
  PROVE  /\ pc' = "idle" /\ seen' \in Findings /\ copy' \in IncidentState
         /\ event' = "none" /\ UNCHANGED round
BY NewStateFields DEF Rest, Findings

LEMMA WitnessTypes ==
  ASSUME TypeOK, NEW found, NEW age \in 0..MaxAge, Witness(found, age)
  PROVE  /\ fired' \in Nat /\ calm' \in 0..MaxAge /\ UNCHANGED <<said, spoke, lost>>
BY DEF Witness, TypeOK

LEMMA PlacesStep == TypeOK /\ Places /\ [Next]_vars => (TypeOK /\ Places)'
<1> SUFFICES ASSUME TypeOK, Places, [Next]_vars PROVE TypeOK' /\ Places'
  OBVIOUS
<1>p. PolicyTypes(policy)
  BY PolicyFields DEF TypeOK
<1>0. 0 \in 0..MaxAge /\ Lease \in 0..MaxAge
  BY Ages
<1> USE DEF Health
<1>1. CASE SaveHealth
  BY <1>1, <1>0 DEF SaveHealth, TypeOK, Places, history, Findings
<1>2. CASE ObserveHealthNotification
  <2>1. /\ Observation(seen).state \in IncidentState
        /\ Observation(seen).asked \in {"none", "firing", "resolved"}
        /\ Observation(seen).asked = "firing" => seen = "bad"
    BY <1>p, ObservationFields DEF TypeOK
  <2>2. /\ pc = "saved" /\ row' = Observation(seen).state /\ event' = Observation(seen).asked
        /\ pc' = IF event' = "none" THEN "idle" ELSE "notify"
        /\ Witness(seen, 0)
        /\ UNCHANGED <<policy, enabled, truth, seen, copy, round, faults>>
    BY <1>2 DEF ObserveHealthNotification
  <2>3. fired' \in Nat /\ calm' \in 0..MaxAge /\ UNCHANGED <<said, spoke, lost>>
    BY <2>2, <1>0, WitnessTypes
  <2>4. TypeOK'
    BY <2>1, <2>2, <2>3 DEF TypeOK
  <2>5. Places'
    BY <2>1, <2>2, <2>3 DEF Places
  <2> QED
    BY <2>4, <2>5
<1>3. CASE ObservationRefused
  <2>3. faults' \in 0..MaxFaults
    BY <1>3, Ages DEF ObservationRefused, TypeOK
  <2>1. TypeOK'
    BY <1>3, <2>3, RestTypes DEF ObservationRefused, TypeOK, history
  <2>2. Places'
    BY <1>3, RestTypes DEF ObservationRefused, TypeOK, Places, history
  <2> QED
    BY <2>1, <2>2
<1>4. CASE ManualCheck
  <2>1. Observation(truth).state \in IncidentState
    BY <1>p, ObservationFields DEF TypeOK
  <2>2. fired' \in Nat /\ calm' \in 0..MaxAge /\ UNCHANGED <<said, spoke, lost>>
    BY <1>4, <1>0, WitnessTypes DEF ManualCheck
  <2>3. TypeOK'
    BY <1>4, <2>1, <2>2 DEF ManualCheck, TypeOK, worker
  <2>4. Places'
    BY <1>4, <2>2 DEF ManualCheck, Places, worker
  <2> QED
    BY <2>3, <2>4
<1>5. CASE Acknowledge
  <2>1. row' \in IncidentState
    BY <1>5, <1>0, AcceptedFields DEF Acknowledge, TypeOK
  <2>2. TypeOK'
    BY <1>5, <2>1, RestTypes DEF Acknowledge, TypeOK, history
  <2>3. Places'
    BY <1>5, RestTypes DEF Acknowledge, Places, history
  <2> QED
    BY <2>2, <2>3
<1>6. CASE Load
  BY <1>6, <1>0 DEF Load, TypeOK, Places, history, Findings
<1>7. CASE Handle
  <2>1. /\ copy' \in IncidentState /\ copy'.observed = 0
    BY <1>7, <1>p, ObservedFields DEF Handle, TypeOK
  <2>2. /\ event' \in {"none", "firing", "resolved"}
        /\ event' = "firing" => seen = "bad"
    BY <1>7, <2>1, <1>p, AskedFacts DEF Handle, TypeOK
  <2>3. TypeOK'
    BY <1>7, <2>1, <2>2 DEF Handle, TypeOK, history
  <2>4. Places'
    BY <1>7, <2>1, <2>2, <1>0 DEF Handle, Places, history
  <2> QED
    BY <2>3, <2>4
<1>8. CASE SaveState
  <2>1. copy.observed \in 0..MaxAge
    BY <1>8 DEF SaveState, Places
  <2>2. fired' \in Nat /\ calm' \in 0..MaxAge /\ UNCHANGED <<said, spoke, lost>>
    BY <1>8, <2>1, WitnessTypes DEF SaveState
  <2>3. TypeOK'
    BY <1>8, <2>2, RestTypes DEF SaveState, TypeOK
  <2>4. Places'
    BY <1>8, <2>2, RestTypes DEF SaveState, Places
  <2> QED
    BY <2>3, <2>4
<1>9. CASE PruneStates
  <2>1. row' \in IncidentState
    BY <1>9, NewStateFields DEF PruneStates
  <2>2. TypeOK'
    BY <1>9, <2>1, <1>0, AgeFacts DEF PruneStates, TypeOK
  <2>3. Places'
    BY <1>9 DEF PruneStates, Places
  <2> QED
    BY <2>2, <2>3
<1>10. CASE EditRule
  BY <1>10 DEF EditRule, TypeOK, Places, worker, history
<1>11. CASE Enqueue
  <2>1. ~Health => copy.observed \in 0..MaxAge
    BY <1>11 DEF Enqueue, Places
  <2>2. copy' \in IncidentState /\ (~Health => copy'.observed \in 0..MaxAge)
    BY <1>11, <2>1, AcceptedFields DEF Enqueue, TypeOK
  <2>3. spoke' \in Age
    BY <1>11, <2>1, Ages DEF Enqueue, TypeOK, Age, Unset
  <2>4. TypeOK'
    BY <1>11, <2>2, <2>3 DEF Enqueue, TypeOK
  <2>5. Places'
    BY <1>11, <2>2 DEF Enqueue, Places
  <2> QED
    BY <2>4, <2>5
<1>12. CASE EnqueueFails
  <2>1. CASE Health
    <3>1. TypeOK'
      BY <1>12, <2>1, RestTypes DEF EnqueueFails, TypeOK, history
    <3>2. Places'
      BY <1>12, <2>1, RestTypes DEF EnqueueFails, Places, history
    <3> QED
      BY <3>1, <3>2
  <2>2. CASE ~Health
    <3> DEFINE wait == IF policy.cooldown < Lease THEN Lease ELSE policy.cooldown
    <3>1. wait \in 0..MaxAge /\ copy.observed \in 0..MaxAge
      BY <1>12, <2>2, <1>0, <1>p DEF EnqueueFails, Places, PolicyTypes
    <3>2. /\ pc = "notify" /\ pc' = "save" /\ event' = "none"
          /\ copy' = EnqueueFailed(copy, wait, copy.observed)
          /\ UNCHANGED <<seen, round, policy, enabled, truth, row, faults, history>>
      BY <1>12, <2>2 DEF EnqueueFails
    <3> HIDE DEF wait
    <3>3. copy' \in IncidentState /\ copy'.observed = copy.observed
      BY <3>1, <3>2, EnqueueFailedFields DEF TypeOK
    <3>4. TypeOK'
      BY <3>2, <3>3 DEF TypeOK, history
    <3>5. Places'
      BY <2>2, <3>1, <3>2, <3>3 DEF Places, history
    <3> QED
      BY <3>4, <3>5
  <2> QED
    BY <2>1, <2>2
<1>13. CASE Fault
  <2>1. faults' \in 0..MaxFaults /\ lost' \in 0..MaxFaults /\ lost' <= faults'
    BY <1>13, Ages DEF Fault, TypeOK, Places
  <2>2. TypeOK'
    BY <1>13, <2>1, RestTypes DEF Fault, TypeOK
  <2>3. Places'
    BY <1>13, <2>1, RestTypes DEF Fault, Places
  <2> QED
    BY <2>2, <2>3
<1>14. CASE TruthChanges
  BY <1>14 DEF TruthChanges, TypeOK, Places, worker, history
<1>15. CASE Tick
  <2>1. /\ row' \in IncidentState /\ copy' \in IncidentState
        /\ copy'.observed = Older(copy.observed)
    BY <1>15, LaterFields DEF Tick, TypeOK
  <2>2. /\ round' \in 0..MaxAge /\ calm' \in 0..MaxAge /\ spoke' \in Age
        /\ faults' \in 0..MaxFaults /\ faults <= faults'
    BY <1>15, Ages, OlderIsAge DEF Tick, TypeOK
  <2>3. copy.observed \in 0..MaxAge => copy'.observed \in 0..MaxAge
    BY <2>1, Ages DEF Older, Unset
  <2>4. TypeOK'
    BY <1>15, <2>1, <2>2 DEF Tick, TypeOK
  <2>5. lost \in Nat /\ faults \in Nat /\ faults' \in Nat
    BY <2>2, Ages DEF TypeOK
  <2>6. Places'
    BY <1>15, <2>2, <2>3, <2>5 DEF Tick, Places
  <2> QED
    BY <2>4, <2>6
<1>16. CASE UNCHANGED vars
  BY <1>16 DEF vars, TypeOK, Places
<1> QED
  BY <1>1, <1>2, <1>3, <1>4, <1>5, <1>6, <1>7, <1>8, <1>9, <1>10, <1>11, <1>12,
     <1>13, <1>14, <1>15, <1>16 DEF Next

(* NotificationIncidents.TypeOK: an incident, its worker and the history   *)
(* of its notifications keep their types.                                  *)
THEOREM IncidentTypeCorrect == Spec => []TypeOK
<1> QED
  BY PlacesInit, PlacesStep, PTL DEF Spec

-----------------------------------------------------------------------------
(* The budget.                                                             *)

AtWork == ~Health /\ pc \in {"loaded", "notify", "save"}
(* A firing notification is enqueued, and its record has yet to be stored. *)
Unrecorded == event = "firing" /\ pc \in {"accept", "save"}

(* The stored count, with the records that were lost and the one under     *)
(* way, covers what was enqueued; it is forgotten only after a time that   *)
(* really was calm.                                                        *)
Covered ==
  /\ row.normal # Unset => row.normal <= calm
  /\ fired <= row.count + lost + (IF Unrecorded THEN 1 ELSE 0)
  /\ policy.max > 0 => row.count <= policy.max
  /\ policy.max > 0 /\ Health /\ event = "firing" => row.count < policy.max

(* The engine's copy counts like the row, unless the budget is renewed.    *)
CopyCovers ==
  AtWork =>
    /\ copy.normal # Unset => copy.normal <= calm
    /\ copy.normal # Unset /\ pc # "loaded" => seen = "good"
    /\ policy.max > 0 => copy.count <= policy.max
    /\ policy.max > 0 /\ event = "firing" /\ pc = "notify" => copy.count < policy.max
    /\ \/ copy.count = row.count + (IF Unrecorded THEN 1 ELSE 0)
       \/ copy.count = 0 /\ event # "firing" /\ seen = "good" /\ calm >= policy.stable

Budget == Covered /\ CopyCovers

LEMMA BudgetInit == Init => Budget
<1> SUFFICES ASSUME Init PROVE Budget
  OBVIOUS
<1>1. PICK notified \in BOOLEAN :
        /\ row = NewState(notified)
        /\ fired = IF notified THEN 1 ELSE 0
  BY DEF Init
<1>2. row.count = fired /\ row.normal = Unset /\ fired \in {0, 1}
  BY <1>1, NewStateFields
<1>3. policy.max \in Nat
  BY PolicyFields DEF Init, PolicyTypes
<1>4. event = "none" /\ pc = "idle" /\ lost = 0
  BY DEF Init
<1> QED
  BY <1>2, <1>3, <1>4 DEF Budget, Covered, CopyCovers, AtWork, Unrecorded

LEMMA BudgetStep == TypeOK /\ Places /\ Budget /\ [Next]_vars => Budget'
<1> SUFFICES ASSUME TypeOK, Places, Budget, [Next]_vars PROVE Budget'
  OBVIOUS
<1>p. PolicyTypes(policy) /\ policy.max \in Nat /\ policy.stable \in 0..MaxAge
  BY PolicyFields DEF TypeOK, PolicyTypes
<1>t. /\ fired \in Nat /\ lost \in Nat /\ calm \in 0..MaxAge /\ MaxAge \in Nat
      /\ row \in IncidentState /\ copy \in IncidentState
      /\ row.count \in Nat /\ copy.count \in Nat
      /\ row.normal \in Age /\ copy.normal \in Age
  BY Ages DEF TypeOK, IncidentState
<1>0. 0 \in 0..MaxAge
  BY Ages
<1>a. \A a \in Age : a \in Int /\ (a # Unset => a >= 0)
  BY Ages DEF Age, Unset
<1> USE DEF Health
(* An observation that is stored at once.                                  *)
<1>o. ASSUME NEW found \in Findings, row' = Observation(found).state, Witness(found, 0),
             UNCHANGED policy
      PROVE  /\ row'.normal # Unset => row'.normal <= calm'
             /\ fired' <= row'.count + lost' + (IF Unrecorded THEN 1 ELSE 0)
             /\ row'.count <= row.count
  <2> DEFINE t == Observation(found).state
  <2>1. /\ t \in IncidentState
        /\ \/ t.count = row.count
           \/ /\ t.count = 0 /\ found = "good"
              /\ policy.stable = 0 \/ (row.normal # Unset /\ row.normal >= policy.stable)
        /\ \/ t.normal = Unset
           \/ found = "good" /\ (t.normal = 0 \/ t.normal = row.normal)
    BY <1>p, <1>t, ObservationFields
  <2>2. /\ calm' = IF found = "good" THEN calm ELSE 0
        /\ fired' = IF found = "good" /\ calm >= policy.stable THEN 0 ELSE fired
        /\ lost' = lost
    BY <1>o DEF Witness
  <2>3. t.count \in Nat /\ t.normal \in Age
    BY <2>1 DEF IncidentState
  <2>4. row' = t
    BY <1>o
  <2> HIDE DEF t
  <2>5. t.normal # Unset => t.normal <= calm'
    BY <2>1, <2>2, <1>t, <1>a DEF Budget, Covered
  <2>6. t.count = row.count \/ (t.count = 0 /\ fired' = 0)
    <3>1. CASE found = "good" /\ row.normal # Unset /\ row.normal >= policy.stable
      BY <3>1, <2>1, <2>2, <1>t, <1>p, <1>a DEF Budget, Covered
    <3>2. CASE found = "good" /\ policy.stable = 0
      BY <3>2, <2>1, <2>2, <1>t
    <3> QED
      BY <3>1, <3>2, <2>1
  <2>7. fired' = fired \/ fired' = 0
    BY <2>2
  <2>8. fired <= row.count + lost + (IF Unrecorded THEN 1 ELSE 0)
    BY DEF Budget, Covered
  <2>9. t.count <= row.count
    BY <2>3, <2>6, <1>t
  <2>10. fired' <= t.count + lost' + (IF Unrecorded THEN 1 ELSE 0)
    <3>1. CASE t.count = row.count
      BY <3>1, <2>2, <2>7, <2>8, <1>t
    <3>2. CASE t.count = 0 /\ fired' = 0
      BY <3>2, <2>2, <1>t
    <3> QED
      BY <3>1, <3>2, <2>6
  <2> QED
    BY <2>4, <2>5, <2>9, <2>10
<1>1. CASE SaveHealth
  BY <1>1
     DEF SaveHealth, Budget, Covered, CopyCovers, AtWork, Unrecorded, Places,
         history
<1>2. CASE ObserveHealthNotification
  <2>1. /\ pc = "saved" /\ row' = Observation(seen).state /\ event' = Observation(seen).asked
        /\ pc' \in {"idle", "notify"} /\ Witness(seen, 0) /\ UNCHANGED policy
    BY <1>2 DEF ObserveHealthNotification
  <2>2. Health /\ ~Unrecorded
    BY <2>1 DEF Places, Unrecorded
  <2>3. event' = "firing" => (policy.max > 0 => row'.count < policy.max)
    BY <2>1, <1>p, <1>t, ObservationFields DEF TypeOK
  <2>4. /\ row'.normal # Unset => row'.normal <= calm'
        /\ fired' <= row'.count + lost' + 0
        /\ row'.count <= row.count /\ row'.count \in Nat
    <3>1. row' \in IncidentState /\ seen \in Findings
      BY <2>1, <1>p, <1>t, ObservationFields DEF TypeOK
    <3> QED
      BY <2>1, <2>2, <3>1, <1>o DEF IncidentState
  <2> QED
    BY <2>1, <2>2, <2>3, <2>4, <1>t, <1>p
       DEF Budget, Covered, CopyCovers, AtWork, Unrecorded
<1>3. CASE ObservationRefused
  BY <1>3
     DEF ObservationRefused, Rest, Budget, Covered, CopyCovers, AtWork, Unrecorded,
         history, Places
<1>4. CASE ManualCheck
  <2>1. /\ Health /\ row' = Observation(truth).state /\ Witness(truth, 0)
        /\ UNCHANGED <<policy, pc, event>> /\ truth \in Findings
    BY <1>4 DEF ManualCheck, worker, TypeOK
  <2>2. row' \in IncidentState
    BY <2>1, <1>p, <1>t, ObservationFields
  <2>3. /\ row'.normal # Unset => row'.normal <= calm'
        /\ fired' <= row'.count + lost' + (IF Unrecorded THEN 1 ELSE 0)
        /\ row'.count <= row.count /\ row'.count \in Nat
    BY <2>1, <2>2, <1>o DEF IncidentState
  <2>4. (Unrecorded)' = Unrecorded
    BY <2>1 DEF Unrecorded
  <2> QED
    BY <2>1, <2>3, <2>4, <1>t, <1>p DEF Budget, Covered, CopyCovers, AtWork
<1>5. CASE Acknowledge
  <2>1. /\ Health /\ pc = "accept" /\ row' = Accepted(row, event, 0) /\ pc' = "idle"
        /\ event' = "none" /\ UNCHANGED <<policy, fired, calm, lost>>
    BY <1>5 DEF Acknowledge, Rest, history
  <2>2. /\ row'.count = (IF event = "firing" THEN row.count + 1 ELSE row.count)
        /\ row'.normal = row.normal
    BY <2>1, <1>t, <1>0, AcceptedFields
  <2>3. ~(Unrecorded)' /\ (Unrecorded <=> event = "firing")
    BY <2>1 DEF Unrecorded
  <2> QED
    BY <2>1, <2>2, <2>3, <1>t, <1>p DEF Budget, Covered, CopyCovers, AtWork
<1>6. CASE Load
  <2>1. /\ ~Health /\ pc = "idle" /\ pc' = "loaded" /\ copy' = row /\ event = "none"
        /\ UNCHANGED <<policy, row, event, fired, calm, lost>>
    BY <1>6 DEF Load, history, Places
  <2>2. ~Unrecorded /\ ~(Unrecorded)'
    BY <2>1 DEF Unrecorded
  <2> QED
    BY <2>1, <2>2, <1>t DEF Budget, Covered, CopyCovers, AtWork
<1>7. CASE Handle
  <2>1. /\ ~Health /\ pc = "loaded" /\ copy' = Observed(copy, seen, policy)
        /\ event' = Asked(copy', seen, policy) /\ pc' \in {"save", "notify"}
        /\ event' = "firing" => pc' = "notify"
        /\ UNCHANGED <<policy, row, seen, fired, calm, lost>> /\ seen \in Findings
    BY <1>7 DEF Handle, history, Places, TypeOK
  <2>2. /\ copy' \in IncidentState
        /\ \/ copy'.count = copy.count
           \/ /\ copy'.count = 0 /\ seen = "good"
              /\ policy.stable = 0 \/ (copy.normal # Unset /\ copy.normal >= policy.stable)
        /\ \/ copy'.normal = Unset
           \/ seen = "good" /\ (copy'.normal = 0 \/ copy'.normal = copy.normal)
    BY <2>1, <1>p, <1>t, ObservedFields
  <2>3. event' = "firing" => seen = "bad" /\ (policy.max > 0 => copy'.count < policy.max)
    BY <2>1, <2>2, <1>p, AskedFacts
  <2>4. ~Unrecorded /\ ~(Unrecorded)'
    BY <2>1 DEF Unrecorded
  <2>5. /\ copy.normal # Unset => copy.normal <= calm
        /\ policy.max > 0 => copy.count <= policy.max
        /\ \/ copy.count = row.count
           \/ copy.count = 0 /\ seen = "good" /\ calm >= policy.stable
    BY <2>1, <2>4, <1>t DEF Budget, CopyCovers, AtWork
  <2>6. copy'.count \in Nat /\ copy'.normal \in Age
    BY <2>2 DEF IncidentState
  <2>7. copy'.count = 0 /\ seen = "good" /\ (policy.stable = 0 \/ (copy.normal # Unset /\ copy.normal >= policy.stable))
          => calm >= policy.stable
    BY <2>5, <1>t, <1>p, <1>a
  <2>8. Covered'
    BY <2>1, <2>4, <1>t DEF Budget, Covered
  <2>9. CopyCovers'
    <3>1. /\ copy'.normal # Unset => copy'.normal <= calm
          /\ copy'.normal # Unset => seen = "good"
          /\ policy.max > 0 => copy'.count <= policy.max
      BY <2>2, <2>5, <2>6, <1>t, <1>p, <1>a
    <3>2. \/ copy'.count = row.count
          \/ copy'.count = 0 /\ seen = "good" /\ calm >= policy.stable
      BY <2>2, <2>5, <2>7
    <3>3. event' = "firing" => copy'.count = row.count
      BY <2>3, <3>2
    <3>4. row.count + 0 = row.count
      BY <1>t
    <3> QED
      BY <2>1, <2>3, <2>4, <3>1, <3>2, <3>3, <3>4 DEF CopyCovers, AtWork
  <2> QED
    BY <2>8, <2>9 DEF Budget
<1>8. CASE SaveState
  <2>1. /\ ~Health /\ pc = "save" /\ row' = copy /\ Witness(seen, copy.observed)
        /\ pc' = "idle" /\ event' = "none" /\ UNCHANGED <<policy, lost>>
        /\ copy.observed \in 0..MaxAge
    BY <1>8 DEF SaveState, Rest, Witness, Places
  <2>2. /\ calm' = IF seen = "good" THEN calm ELSE copy.observed
        /\ fired' = IF seen = "good" /\ calm >= policy.stable THEN 0 ELSE fired
    BY <2>1 DEF Witness
  <2>3. ~(Unrecorded)' /\ (Unrecorded <=> event = "firing")
    BY <2>1 DEF Unrecorded
  <2>4. /\ copy.normal # Unset => copy.normal <= calm /\ seen = "good"
        /\ policy.max > 0 => copy.count <= policy.max
        /\ \/ copy.count = row.count + (IF Unrecorded THEN 1 ELSE 0)
           \/ copy.count = 0 /\ seen = "good" /\ calm >= policy.stable
    BY <2>1 DEF Budget, CopyCovers, AtWork
  <2>5. fired' <= copy.count + lost
    BY <2>2, <2>4, <1>t DEF Budget, Covered
  <2>6. row.normal \in Age /\ (row'.normal # Unset => row'.normal <= calm')
    BY <2>1, <2>2, <2>4, <1>t
  <2> QED
    BY <2>1, <2>3, <2>4, <2>5, <2>6, <1>t, <1>p DEF Budget, Covered, CopyCovers, AtWork
<1>9. CASE PruneStates
  <2>1. /\ ~Health /\ pc = "idle" /\ row' = NewState(FALSE) /\ fired' = 0
        /\ UNCHANGED <<policy, pc, event, lost>> /\ event = "none"
    BY <1>9 DEF PruneStates, Places
  <2>2. row'.count = 0 /\ row'.normal = Unset
    BY <2>1, NewStateFields
  <2>3. ~(Unrecorded)' /\ policy' = policy /\ lost' = lost /\ event' = "none"
    BY <2>1 DEF Unrecorded
  <2>8. 0 <= 0 + lost + 0
    BY <1>t
  <2>6. fired' <= row'.count + lost' + 0
    BY <2>1, <2>2, <2>3, <2>8
  <2>7. policy'.max > 0 => row'.count <= policy'.max
    BY <2>2, <2>3, <1>p
  <2>4. Covered'
    BY <2>2, <2>3, <2>6, <2>7 DEF Covered
  <2>5. CopyCovers'
    BY <2>1 DEF CopyCovers, AtWork
  <2> QED
    BY <2>4, <2>5 DEF Budget
<1>10. CASE EditRule
  BY <1>10
     DEF EditRule, Budget, Covered, CopyCovers, AtWork, Unrecorded, worker, history
<1>11. CASE Enqueue
  <2>1. /\ pc = "notify" /\ event # "none" /\ UNCHANGED <<policy, row, seen, event, calm, lost>>
        /\ fired' = IF event = "firing" THEN fired + 1 ELSE fired
        /\ ~Unrecorded
    BY <1>11 DEF Enqueue, Places, Unrecorded
  <2>2. (Unrecorded)' <=> event = "firing"
    BY <1>11, <2>1 DEF Enqueue, Unrecorded
  <2>3. Covered'
    BY <2>1, <2>2, <1>t DEF Budget, Covered
  <2>4. CASE Health
    BY <1>11, <2>3, <2>4 DEF Enqueue, Budget, CopyCovers, AtWork
  <2>5. CASE ~Health
    <3>1. /\ pc' = "save" /\ copy' = Accepted(copy, event, copy.observed)
          /\ copy.observed \in 0..MaxAge
      BY <1>11, <2>5 DEF Enqueue, Places
    <3>2. /\ copy'.count = (IF event = "firing" THEN copy.count + 1 ELSE copy.count)
          /\ copy'.normal = copy.normal
      BY <3>1, <1>t, AcceptedFields
    <3>3. CopyCovers'
      BY <2>1, <2>2, <2>5, <3>1, <3>2, <1>t, <1>p DEF Budget, CopyCovers, AtWork
    <3> QED
      BY <2>3, <3>3 DEF Budget
  <2> QED
    BY <2>4, <2>5
<1>12. CASE EnqueueFails
  <2>1. CASE Health
    BY <1>12, <2>1
       DEF EnqueueFails, Rest, Budget, Covered, CopyCovers, AtWork, Unrecorded,
           history
  <2>2. CASE ~Health
    <3> DEFINE wait == IF policy.cooldown < Lease THEN Lease ELSE policy.cooldown
    <3>1. wait \in 0..MaxAge /\ copy.observed \in 0..MaxAge
      BY <1>12, <2>2, <1>p, Ages DEF EnqueueFails, Places, PolicyTypes
    <3>2. /\ pc = "notify" /\ pc' = "save" /\ event' = "none"
          /\ copy' = EnqueueFailed(copy, wait, copy.observed)
          /\ UNCHANGED <<seen, policy, row, fired, calm, lost>>
      BY <1>12, <2>2 DEF EnqueueFails, history
    <3> HIDE DEF wait
    <3>3. copy'.count = copy.count /\ copy'.normal = copy.normal
      BY <3>1, <3>2, <1>t, EnqueueFailedFields
    <3>4. ~Unrecorded /\ ~(Unrecorded)'
      BY <3>2 DEF Unrecorded
    <3> QED
      BY <2>2, <3>2, <3>3, <3>4, <1>t DEF Budget, Covered, CopyCovers, AtWork
  <2> QED
    BY <2>1, <2>2
<1>13. CASE Fault
  <2>1. /\ pc' = "idle" /\ event' = "none" /\ UNCHANGED <<policy, row, fired, calm>>
        /\ lost' = IF pc \in {"accept", "save"} /\ event # "none" THEN lost + 1 ELSE lost
    BY <1>13 DEF Fault, Rest
  <2>2. ~(Unrecorded)' /\ (Unrecorded => lost' = lost + 1) /\ lost' \in {lost, lost + 1}
    BY <2>1 DEF Unrecorded
  <2> QED
    BY <2>1, <2>2, <1>t, <1>p DEF Budget, Covered, CopyCovers, AtWork
<1>14. CASE TruthChanges
  BY <1>14
     DEF TruthChanges, Budget, Covered, CopyCovers, AtWork, Unrecorded, worker,
         history
<1>15. CASE Tick
  <2>1. /\ row'.count = row.count /\ row'.normal = Older(row.normal)
        /\ copy'.count = copy.count /\ copy'.normal = Older(copy.normal)
        /\ calm' = IF calm < MaxAge THEN calm + 1 ELSE calm
        /\ UNCHANGED <<policy, pc, seen, event, fired, lost>>
    BY <1>15, <1>t, LaterFields DEF Tick
  <2>2. ASSUME NEW n \in Age, n # Unset => n <= calm
        PROVE  Older(n) # Unset => Older(n) <= calm'
    BY <2>1, <2>2, <1>t, <1>a DEF Older, Unset, Age
  <2>3. calm <= calm' /\ calm' \in Nat
    BY <2>1, <1>t
  <2>4. Older(copy.normal) # Unset => copy.normal # Unset
    BY <1>t, OlderIsAge
  <2>5. (Unrecorded)' = Unrecorded
    BY <2>1 DEF Unrecorded
  <2>6. Covered'
    BY <2>1, <2>2, <2>5, <1>t DEF Budget, Covered
  <2>7. CopyCovers'
    <3>1. calm >= policy.stable => calm' >= policy.stable
      BY <2>3, <1>t, <1>p
    <3> QED
      BY <2>1, <2>2, <2>4, <2>5, <3>1, <1>t DEF Budget, CopyCovers, AtWork
  <2> QED
    BY <2>6, <2>7 DEF Budget
<1>16. CASE UNCHANGED vars
  BY <1>16 DEF vars, Budget, Covered, CopyCovers, AtWork, Unrecorded
<1> QED
  BY <1>1, <1>2, <1>3, <1>4, <1>5, <1>6, <1>7, <1>8, <1>9, <1>10, <1>11, <1>12,
     <1>13, <1>14, <1>15, <1>16 DEF Next

(* NotificationIncidents.FlappingKeepsBudget: however a condition flaps    *)
(* and whoever observes it, its firing notifications keep the budget.      *)
THEOREM BudgetIsKept == Spec => []FlappingKeepsBudget
<1>1. TypeOK /\ Places /\ Budget => FlappingKeepsBudget
  <2> SUFFICES ASSUME TypeOK, Places, Budget, policy.max > 0
               PROVE  fired <= policy.max + lost
    BY DEF FlappingKeepsBudget
  <2>1. /\ fired \in Nat /\ lost \in Nat /\ row.count \in Nat /\ copy.count \in Nat
        /\ policy.max \in Nat
    BY PolicyFields, Ages DEF TypeOK, IncidentState, PolicyTypes
  <2>2. CASE ~Unrecorded
    BY <2>1, <2>2 DEF Budget, Covered
  <2>3. CASE Unrecorded
    <3>1. row.count < policy.max
      <4>1. CASE Health
        BY <2>3, <4>1 DEF Unrecorded, Budget, Covered
      <4>2. CASE ~Health
        <5>1. pc = "save" /\ AtWork /\ event = "firing"
          BY <2>3, <4>2 DEF Unrecorded, Places, AtWork
        <5>2. copy.count = row.count + 1 /\ copy.count <= policy.max
          BY <2>3, <5>1 DEF Budget, CopyCovers
        <5> QED
          BY <2>1, <5>2
      <4> QED
        BY <4>1, <4>2
    <3> QED
      BY <2>1, <2>3, <3>1 DEF Budget, Covered
  <2> QED
    BY <2>2, <2>3
<1> QED
  BY <1>1, PlacesInit, PlacesStep, BudgetInit, BudgetStep, PTL DEF Spec
-----------------------------------------------------------------------------
(* The pace.                                                               *)

(* The announcements a step is not held to.                                *)
Forgiven == policy.stable = 0 \/ lost > 0
Recorded == event = "none" \/ pc \notin {"accept", "save"}

(* The last firing announcement is no younger than the state s says.       *)
KnowsWhen(s) == spoke # Unset => s.lastFiring # Unset /\ s.lastFiring <= spoke
KnowsWhat(s) == s.notified <=> said = "firing"

(* The stored state knows what was announced last, and when, but for the   *)
(* announcement whose record is under way; so does the engine's copy.      *)
RowKnows ==
  /\ Recorded => KnowsWhat(row)
  /\ ~Unrecorded => KnowsWhen(row)
WorkKnows ==
  /\ AtWork => KnowsWhat(copy) /\ KnowsWhen(copy)
  /\ pc = "accept" => said = event
  /\ pc = "notify" => \/ event = "firing" /\ (said # "firing" \/ policy.repeat)
                      \/ event = "resolved" /\ said = "firing"
Paced ==
  ~Forgiven => /\ said = "firing" => spoke # Unset
               /\ RowKnows /\ WorkKnows

LEMMA PacedInit == Init => Paced
<1> SUFFICES ASSUME Init PROVE Paced
  OBVIOUS
<1>1. PICK notified \in BOOLEAN :
        /\ row = NewState(notified)
        /\ said = IF notified THEN "firing" ELSE "none"
        /\ spoke = IF notified THEN 0 ELSE Unset
  BY DEF Init
<1>2. KnowsWhat(row) /\ KnowsWhen(row) /\ (said = "firing" => spoke # Unset)
  BY <1>1, NewStateFields, AgeFacts DEF KnowsWhat, KnowsWhen
<1> QED
  BY <1>2 DEF Init, Paced, RowKnows, WorkKnows, AtWork

(* What a decision to announce an observed state rests on.                 *)
LEMMA DecisionIsPaced ==
  ASSUME TypeOK, NEW s \in IncidentState, NEW t \in IncidentState,
         NEW e \in {"none", "firing", "resolved"},
         KnowsWhat(s), KnowsWhen(s), said = "firing" => spoke # Unset,
         t.notified = s.notified, t.lastFiring = s.lastFiring,
         e = "firing" => \/ t.lastFiring = Unset
                         \/ /\ t.lastFiring >= policy.cooldown
                            /\ ~t.notified \/ policy.repeat,
         e = "resolved" => t.notified
  PROVE  /\ KnowsWhat(t) /\ KnowsWhen(t)
         /\ e = "firing" => /\ spoke = Unset \/ spoke >= policy.cooldown
                            /\ said # "firing" \/ policy.repeat
         /\ e = "resolved" => said = "firing"
<1>1. t.lastFiring \in Int /\ spoke \in Int /\ policy.cooldown \in Int
  BY Ages, PolicyFields DEF TypeOK, IncidentState, Age, Unset, PolicyTypes
<1>2. KnowsWhat(t) /\ KnowsWhen(t)
  BY DEF KnowsWhat, KnowsWhen
<1>3. e = "firing" => spoke = Unset \/ spoke >= policy.cooldown
  BY <1>1, <1>2 DEF KnowsWhen
<1>4. e = "firing" => said # "firing" \/ policy.repeat
  BY <1>2 DEF KnowsWhen, KnowsWhat
<1> QED
  BY <1>2, <1>3, <1>4 DEF KnowsWhat

LEMMA PacedStep == TypeOK /\ Places /\ Paced /\ [Next]_vars => Paced'
<1> SUFFICES ASSUME TypeOK, Places, Paced, [Next]_vars, ~(Forgiven)'
             PROVE  /\ said' = "firing" => spoke' # Unset
                    /\ RowKnows' /\ WorkKnows'
  BY DEF Paced
<1>p. PolicyTypes(policy)
  BY PolicyFields DEF TypeOK
<1>t. /\ row \in IncidentState /\ copy \in IncidentState /\ lost \in Nat
      /\ seen \in Findings /\ truth \in Findings
  BY Ages DEF TypeOK
<1>0. 0 \in 0..MaxAge /\ Lease \in 0..MaxAge
  BY Ages
<1>l. policy' = policy /\ (lost' = lost \/ lost' = lost + 1)
  BY
     DEF Next, vars, SaveHealth, ObserveHealthNotification, ObservationRefused,
         ManualCheck,
         Acknowledge, Load, Handle, SaveState, PruneStates, EditRule, Enqueue, EnqueueFails,
         Fault, TruthChanges, Tick, Witness, history, worker
<1>f. ~Forgiven /\ policy.stable # 0 /\ lost' = lost
  BY <1>l, <1>t DEF Forgiven
<1>i. (said = "firing" => spoke # Unset) /\ RowKnows /\ WorkKnows
  BY <1>f DEF Paced
<1> USE DEF Health
<1>1. CASE SaveHealth
  BY <1>1, <1>i DEF SaveHealth, RowKnows, WorkKnows, AtWork, Unrecorded, Recorded,
                    KnowsWhat, KnowsWhen, history, Places
<1>2. CASE ObserveHealthNotification
  <2>1. /\ pc = "saved" /\ row' = Observation(seen).state /\ event' = Observation(seen).asked
        /\ pc' = (IF event' = "none" THEN "idle" ELSE "notify")
        /\ UNCHANGED <<policy, said, spoke>> /\ event = "none"
    BY <1>2 DEF ObserveHealthNotification, Witness, Places
  <2>2. /\ row' \in IncidentState /\ row'.notified = row.notified
        /\ row'.lastFiring = row.lastFiring
        /\ event' \in {"none", "firing", "resolved"}
        /\ event' = "firing" => \/ row'.lastFiring = Unset
                                \/ /\ row'.lastFiring >= policy.cooldown
                                   /\ ~row'.notified \/ policy.repeat
        /\ event' = "resolved" => row'.notified
    BY <2>1, <1>p, <1>t, <1>f, ObservationFields
  <2>3. KnowsWhat(row) /\ KnowsWhen(row)
    BY <2>1, <1>i DEF RowKnows, Recorded, Unrecorded
  <2>4. /\ KnowsWhat(row') /\ KnowsWhen(row')
        /\ event' = "firing" => said # "firing" \/ policy.repeat
        /\ event' = "resolved" => said = "firing"
    BY <2>2, <2>3, <1>t, <1>i, DecisionIsPaced
  <2>5. RowKnows'
    BY <2>1, <2>4 DEF RowKnows, KnowsWhat, KnowsWhen
  <2>6. WorkKnows'
    BY <2>1, <2>2, <2>4 DEF WorkKnows, AtWork, Places
  <2> QED
    BY <2>1, <2>5, <2>6, <1>i
<1>3. CASE ObservationRefused
  BY <1>3, <1>i DEF ObservationRefused, Rest, RowKnows, WorkKnows, AtWork, Unrecorded,
                    Recorded, KnowsWhat, KnowsWhen, history, Places
<1>4. CASE ManualCheck
  <2>1. /\ Health /\ row' = Observation(truth).state
        /\ UNCHANGED <<policy, pc, event, copy, said, spoke>>
    BY <1>4 DEF ManualCheck, worker, Witness
  <2>2. row'.notified = row.notified /\ row'.lastFiring = row.lastFiring
    BY <2>1, <1>p, <1>t, <1>f, ObservationFields
  <2>3. RowKnows'
    BY <2>1, <2>2, <1>i DEF RowKnows, Recorded, Unrecorded, KnowsWhat, KnowsWhen
  <2>4. WorkKnows'
    BY <2>1, <1>i DEF WorkKnows, AtWork, KnowsWhat, KnowsWhen
  <2> QED
    BY <2>1, <2>3, <2>4, <1>i
<1>5. CASE Acknowledge
  <2>1. /\ Health /\ pc = "accept" /\ row' = Accepted(row, event, 0) /\ pc' = "idle"
        /\ event' = "none" /\ UNCHANGED <<policy, said, spoke>>
    BY <1>5 DEF Acknowledge, Rest, history
  <2>2. /\ row'.notified = (event = "firing")
        /\ row'.lastFiring = (IF event = "firing" THEN 0 ELSE row.lastFiring)
    BY <2>1, <1>t, <1>0, AcceptedFields
  <2>3. KnowsWhat(row')
    BY <2>1, <2>2, <1>i DEF WorkKnows, KnowsWhat
  <2>4. KnowsWhen(row')
    <3>1. CASE event = "firing"
      BY <2>2, <3>1, Ages DEF KnowsWhen, TypeOK, Age, Unset
    <3>2. CASE event # "firing"
      BY <2>2, <3>2, <1>i DEF RowKnows, Unrecorded, KnowsWhen
    <3> QED
      BY <3>1, <3>2
  <2> QED
    BY <2>1, <2>3, <2>4, <1>i DEF RowKnows, WorkKnows, AtWork, KnowsWhat, KnowsWhen
<1>6. CASE Load
  BY <1>6, <1>i DEF Load, RowKnows, WorkKnows, AtWork, Unrecorded, Recorded,
                    KnowsWhat, KnowsWhen, history, Places
<1>7. CASE Handle
  <2>1. /\ ~Health /\ pc = "loaded" /\ copy' = Observed(copy, seen, policy)
        /\ event' = Asked(copy', seen, policy)
        /\ pc' = (IF event' = "none" THEN "save" ELSE "notify") /\ event = "none"
        /\ UNCHANGED <<policy, row, said, spoke>>
    BY <1>7 DEF Handle, history, Places
  <2>2. /\ copy' \in IncidentState /\ copy'.notified = copy.notified
        /\ copy'.lastFiring = copy.lastFiring
    BY <2>1, <1>p, <1>t, <1>f, ObservedFields
  <2>3. /\ event' \in {"none", "firing", "resolved"}
        /\ event' = "firing" => \/ copy'.lastFiring = Unset
                                \/ /\ copy'.lastFiring >= policy.cooldown
                                   /\ ~copy'.notified \/ policy.repeat
        /\ event' = "resolved" => copy'.notified
    BY <2>1, <2>2, <1>p, <1>t, AskedFacts
  <2>4. KnowsWhat(copy) /\ KnowsWhen(copy)
    BY <2>1, <1>i DEF WorkKnows, AtWork
  <2>5. /\ KnowsWhat(copy') /\ KnowsWhen(copy')
        /\ event' = "firing" => said # "firing" \/ policy.repeat
        /\ event' = "resolved" => said = "firing"
    BY <2>2, <2>3, <2>4, <1>t, <1>i, DecisionIsPaced
  <2>6. RowKnows'
    BY <2>1, <1>i DEF RowKnows, Recorded, Unrecorded, KnowsWhat, KnowsWhen
  <2>7. WorkKnows'
    BY <2>1, <2>3, <2>5 DEF WorkKnows, AtWork, KnowsWhat, KnowsWhen
  <2> QED
    BY <2>1, <2>6, <2>7, <1>i
<1>8. CASE SaveState
  <2>1. /\ ~Health /\ pc = "save" /\ row' = copy /\ pc' = "idle" /\ event' = "none"
        /\ UNCHANGED <<policy, said, spoke>>
    BY <1>8 DEF SaveState, Rest, Witness
  <2> QED
    BY <2>1, <1>i DEF RowKnows, WorkKnows, AtWork, KnowsWhat, KnowsWhen
<1>9. CASE PruneStates
  <2>1. /\ ~Health /\ pc = "idle" /\ row' = NewState(FALSE) /\ said' = "none"
        /\ spoke' = Unset /\ UNCHANGED <<policy, pc, event>>
    BY <1>9 DEF PruneStates
  <2>2. row'.notified = FALSE
    BY <2>1, NewStateFields
  <2> QED
    BY <2>1, <2>2 DEF RowKnows, WorkKnows, AtWork, KnowsWhat, KnowsWhen
<1>10. CASE EditRule
  BY <1>10, <1>i DEF EditRule, RowKnows, WorkKnows, AtWork, Unrecorded, Recorded,
                     KnowsWhat, KnowsWhen, history, worker
<1>11. CASE Enqueue
  <2>1. /\ pc = "notify" /\ event \in {"firing", "resolved"}
        /\ pc' = (IF Health THEN "accept" ELSE "save")
        /\ said' = event /\ UNCHANGED <<policy, row, event>>
        /\ spoke' = (IF event # "firing" THEN spoke ELSE IF Health THEN 0 ELSE copy.observed)
    BY <1>11 DEF Enqueue, Places, TypeOK
  <2>2. ~Health => copy.observed \in 0..MaxAge
    BY <2>1 DEF Places
  <2>3. event = "firing" => spoke' # Unset
    BY <2>1, <2>2, Ages DEF Unset
  <2>4. RowKnows'
    BY <2>1, <1>i DEF RowKnows, Recorded, Unrecorded, KnowsWhen
  <2>5. WorkKnows'
    <3>1. CASE Health
      BY <2>1, <3>1 DEF WorkKnows, AtWork
    <3>2. CASE ~Health
      <4>1. copy' = Accepted(copy, event, copy.observed)
        BY <1>11, <3>2 DEF Enqueue
      <4>2. /\ copy'.notified = (event = "firing")
            /\ copy'.lastFiring = (IF event = "firing" THEN copy.observed ELSE copy.lastFiring)
        BY <4>1, <3>2, <2>2, <1>t, AcceptedFields
      <4>3. KnowsWhat(copy)'
        BY <2>1, <4>2 DEF KnowsWhat
      <4>4. KnowsWhen(copy)'
        <5>1. CASE event = "firing"
          BY <2>1, <2>2, <2>3, <3>2, <4>2, <5>1, Ages DEF KnowsWhen
        <5>2. CASE event # "firing"
          BY <2>1, <3>2, <4>2, <5>2, <1>i DEF KnowsWhen, WorkKnows, AtWork
        <5> QED
          BY <5>1, <5>2
      <4> QED
        BY <2>1, <3>2, <4>3, <4>4 DEF WorkKnows, AtWork
    <3> QED
      BY <3>1, <3>2
  <2> QED
    BY <2>1, <2>3, <2>4, <2>5
<1>12. CASE EnqueueFails
  <2>1. CASE Health
    BY <1>12, <2>1, <1>i
       DEF EnqueueFails, Rest, RowKnows, WorkKnows, AtWork, Unrecorded,
                             Recorded, KnowsWhat, KnowsWhen, history
  <2>2. CASE ~Health
    <3> DEFINE wait == IF policy.cooldown < Lease THEN Lease ELSE policy.cooldown
    <3>1. wait \in 0..MaxAge /\ copy.observed \in 0..MaxAge
      BY <1>12, <2>2, <1>0, <1>p DEF EnqueueFails, Places, PolicyTypes
    <3>2. /\ pc = "notify" /\ pc' = "save" /\ event' = "none"
          /\ copy' = EnqueueFailed(copy, wait, copy.observed)
          /\ UNCHANGED <<policy, row, said, spoke>>
      BY <1>12, <2>2 DEF EnqueueFails, history
    <3> HIDE DEF wait
    <3>3. copy'.notified = copy.notified /\ copy'.lastFiring = copy.lastFiring
      BY <3>1, <3>2, <1>t, EnqueueFailedFields
    <3> QED
      BY <2>2, <3>2, <3>3, <1>i DEF RowKnows, WorkKnows, AtWork, Unrecorded, Recorded,
                                    KnowsWhat, KnowsWhen
  <2> QED
    BY <2>1, <2>2
<1>13. CASE Fault
  <2>1. ~(pc \in {"accept", "save"} /\ event # "none")
    BY <1>13, <1>f, <1>t DEF Fault
  <2>2. Recorded /\ ~Unrecorded
    BY <2>1 DEF Recorded, Unrecorded
  <2>3. /\ pc' = "idle" /\ event' = "none" /\ UNCHANGED <<policy, row, said, spoke>>
    BY <1>13 DEF Fault, Rest
  <2> QED
    BY <2>2, <2>3, <1>i DEF RowKnows, WorkKnows, AtWork, KnowsWhat, KnowsWhen
<1>14. CASE TruthChanges
  BY <1>14, <1>i DEF TruthChanges, RowKnows, WorkKnows, AtWork, Unrecorded, Recorded,
                     KnowsWhat, KnowsWhen, history, worker
<1>15. CASE Tick
  <2>1. /\ row' = Later(row) /\ copy' = Later(copy) /\ spoke' = Older(spoke)
        /\ UNCHANGED <<policy, pc, event, said>>
    BY <1>15 DEF Tick
  <2>2. spoke \in Age /\ (Older(spoke) = Unset) = (spoke = Unset)
    BY OlderIsAge DEF TypeOK
  <2>3. ASSUME NEW s \in IncidentState, KnowsWhen(s)
        PROVE  spoke' # Unset => Later(s).lastFiring # Unset /\ Later(s).lastFiring <= spoke'
    <3>1. s.lastFiring \in Age /\ Later(s).lastFiring = Older(s.lastFiring)
      BY LaterFields DEF IncidentState
    <3>2. (Older(s.lastFiring) = Unset) = (s.lastFiring = Unset)
      BY <3>1, OlderIsAge
    <3>3. spoke # Unset => Older(s.lastFiring) <= Older(spoke)
      BY <2>2, <2>3, <3>1, OlderKeepsOrder DEF KnowsWhen
    <3> QED
      BY <2>1, <2>2, <2>3, <3>1, <3>2, <3>3 DEF KnowsWhen
  <2>4. row'.notified = row.notified /\ copy'.notified = copy.notified
    BY <2>1, <1>t, LaterFields
  <2>5. /\ KnowsWhen(row) => KnowsWhen(row)'
        /\ KnowsWhen(copy) => KnowsWhen(copy)'
    BY <2>1, <2>3, <1>t DEF KnowsWhen
  <2>6. RowKnows'
    BY <2>1, <2>4, <2>5, <1>i DEF RowKnows, Recorded, Unrecorded, KnowsWhat
  <2>7. WorkKnows'
    BY <2>1, <2>4, <2>5, <1>i DEF WorkKnows, AtWork, KnowsWhat
  <2> QED
    BY <2>1, <2>2, <2>6, <2>7, <1>i
<1>16. CASE UNCHANGED vars
  BY <1>16, <1>i DEF vars, RowKnows, WorkKnows, AtWork, Unrecorded, Recorded,
                     KnowsWhat, KnowsWhen
<1> QED
  BY <1>1, <1>2, <1>3, <1>4, <1>5, <1>6, <1>7, <1>8, <1>9, <1>10, <1>11, <1>12,
     <1>13, <1>14, <1>15, <1>16 DEF Next

(* NotificationIncidents.AnnouncementsArePaced: firing notifications keep  *)
(* the cooldown, and firing and resolved take turns, whoever observes and  *)
(* whatever enqueue fails.                                                 *)
THEOREM PaceIsKept == Spec => AnnouncementsArePaced
<1> DEFINE Spaced == (pc' = "notify" /\ pc # "notify" /\ event' = "firing")
                       => \/ spoke = Unset \/ spoke >= policy.cooldown
                          \/ policy.stable = 0 \/ lost > 0
           InTurns == (pc = "notify" /\ pc' \in {"accept", "save"} /\ event' # "none")
                        => \/ event = "firing" /\ (said # "firing" \/ policy.repeat)
                           \/ event = "resolved" /\ said = "firing"
                           \/ policy.stable = 0 \/ lost > 0
<1>1. TypeOK /\ Places /\ Paced /\ [Next]_vars => [InTurns]_vars
  <2> SUFFICES ASSUME Paced, pc = "notify", event' # "none", ~Forgiven
               PROVE  \/ event = "firing" /\ (said # "firing" \/ policy.repeat)
                      \/ event = "resolved" /\ said = "firing"
    BY DEF Forgiven
  <2> QED
    BY DEF Paced, WorkKnows
<1>2. TypeOK /\ Places /\ Paced /\ [Next]_vars => [Spaced]_vars
  <2> SUFFICES ASSUME TypeOK, Places, Paced, Next, ~Forgiven,
                      pc' = "notify", pc # "notify", event' = "firing"
               PROVE  spoke = Unset \/ spoke >= policy.cooldown
    BY DEF Forgiven, vars
  <2>p. PolicyTypes(policy) /\ row \in IncidentState /\ copy \in IncidentState
        /\ seen \in Findings /\ policy.stable # 0
    BY PolicyFields DEF TypeOK, Forgiven
  <2>i. (said = "firing" => spoke # Unset) /\ RowKnows /\ WorkKnows
    BY DEF Paced
  <2>1. ObserveHealthNotification \/ Handle
    BY
       DEF Next, SaveHealth, ObservationRefused, ManualCheck, Acknowledge, Load,
           SaveState,
           PruneStates, EditRule, Enqueue, EnqueueFails, Fault, TruthChanges, Tick, Rest, worker
  <2>2. CASE ObserveHealthNotification
    <3>1. /\ pc = "saved" /\ row' = Observation(seen).state
          /\ Observation(seen).asked = "firing"
      BY <2>2 DEF ObserveHealthNotification
    <3>2. event = "none"
      BY <3>1 DEF Places
    <3>3. KnowsWhat(row) /\ KnowsWhen(row)
      BY <3>2, <2>i DEF RowKnows, Recorded, Unrecorded
    <3>4. /\ row' \in IncidentState /\ row'.notified = row.notified
          /\ row'.lastFiring = row.lastFiring
          /\ \/ row'.lastFiring = Unset
             \/ row'.lastFiring >= policy.cooldown /\ (~row'.notified \/ policy.repeat)
      BY <3>1, <2>p, ObservationFields
    <3>5. "firing" \in {"none", "firing", "resolved"}
      OBVIOUS
    <3> QED
      BY <3>3, <3>4, <3>5, <2>p, <2>i, DecisionIsPaced
  <2>3. CASE Handle
    <3>1. /\ ~Health /\ pc = "loaded" /\ copy' = Observed(copy, seen, policy)
          /\ Asked(copy', seen, policy) = "firing"
      BY <2>3 DEF Handle, Places
    <3>2. KnowsWhat(copy) /\ KnowsWhen(copy)
      BY <3>1, <2>i DEF WorkKnows, AtWork
    <3>3. /\ copy' \in IncidentState /\ copy'.notified = copy.notified
          /\ copy'.lastFiring = copy.lastFiring
      BY <3>1, <2>p, ObservedFields
    <3>4. \/ copy'.lastFiring = Unset
          \/ copy'.lastFiring >= policy.cooldown /\ (~copy'.notified \/ policy.repeat)
      BY <3>1, <3>3, <2>p, AskedFacts
    <3>5. "firing" \in {"none", "firing", "resolved"}
      OBVIOUS
    <3> QED
      BY <3>2, <3>3, <3>4, <3>5, <2>p, <2>i, DecisionIsPaced
  <2> QED
    BY <2>1, <2>2, <2>3
<1> QED
  BY <1>1, <1>2, PlacesInit, PlacesStep, PacedInit, PacedStep, PTL
     DEF Spec, AnnouncementsArePaced, CooldownIsKept, AnnouncementsAlternate

-----------------------------------------------------------------------------
(* Balance protection: what its steps do to the loops.                     *)

Pcs == {"idle", "retry", "probe", "save", "queue", "check", "deliver", "remember",
        "ack", "release"}

Standing == [pc : Pcs, event : Event, retry : BOOLEAN, failed : BOOLEAN,
             version : 0..MaxEdits, creds : 0..MaxEdits, funds : Funds]

LoopsTyped == loop \in [Loops -> Standing]

LEMMA Bounds == MaxTransitions \in Nat /\ MaxEdits \in Nat /\ MaxRefreshes \in Nat
BY BalanceAssumption

LEMMA NoneFacts == None \in Event /\ None.id = 0 /\ None.state = "resumed"
BY Bounds DEF None, Event, Transitions

LEMMA IdleFacts ==
  /\ Idle \in Standing
  /\ Idle.pc = "idle" /\ Idle.event = None /\ ~Idle.retry /\ ~Idle.failed
  /\ Idle.version = 0 /\ Idle.creds = 0
BY Bounds, NoneFacts DEF Idle, Standing, Pcs, Funds

LEMMA LoopNames == Loops = {"balances", "health"} /\ "balances" # "health"
BY DEF Loops

LEMMA LoopsAreTyped == ASSUME BalanceTypeOK PROVE LoopsTyped
BY DEF BalanceTypeOK, LoopsTyped, Standing, Pcs

(* Loop w stands at place with this event, the other one where it was.        *)
Moved(w, place, about, retry, failed, version, creds) ==
  /\ loop' \in [Loops -> Standing]
  /\ loop'[w].pc = place /\ loop'[w].event = about
  /\ loop'[w].retry = retry /\ loop'[w].failed = failed
  /\ loop'[w].version = version /\ loop'[w].creds = creds
  /\ \A v \in Loops : v # w => loop'[v] = loop[v]

Rests(w) == Moved(w, "idle", None, FALSE, FALSE, 0, 0)

Keeps(w, place) ==
  Moved(w, place, loop[w].event, loop[w].retry, loop[w].failed, loop[w].version, loop[w].creds)

Retried(w, failed) ==
  \/ w = "health" /\ Rests(w)
  \/ w = "balances" /\ Moved(w, "probe", None, FALSE, failed, loop[w].version, loop[w].creds)

LEMMA Becomes ==
  ASSUME LoopsTyped, NEW w \in Loops, NEW r \in Standing,
         loop' = [loop EXCEPT ![w] = r]
  PROVE  Moved(w, r.pc, r.event, r.retry, r.failed, r.version, r.creds)
BY DEF LoopsTyped, Moved

LEMMA StopRests ==
  ASSUME LoopsTyped, NEW w \in Loops, Stop(w)
  PROVE  Rests(w)
<1>1. loop' = [loop EXCEPT ![w] = Idle]
  BY DEF Stop
<1>2. Moved(w, Idle.pc, Idle.event, Idle.retry, Idle.failed, Idle.version, Idle.creds)
  BY <1>1, Becomes, IdleFacts
<1> QED
  BY <1>2, IdleFacts DEF Rests, Moved

LEMMA GoKeeps ==
  ASSUME LoopsTyped, NEW w \in Loops, NEW place \in Pcs, Go(w, place)
  PROVE  Keeps(w, place)
<1> DEFINE r == [loop[w] EXCEPT !.pc = place]
<1>1. loop[w] \in Standing
  BY DEF LoopsTyped
<1>2. r \in Standing
  BY <1>1 DEF Standing
<1>3. /\ r.pc = place /\ r.event = loop[w].event /\ r.retry = loop[w].retry
      /\ r.failed = loop[w].failed /\ r.version = loop[w].version
      /\ r.creds = loop[w].creds
  BY <1>1 DEF Standing
<1>4. loop' = [loop EXCEPT ![w] = r]
  BY DEF Go
<1> HIDE DEF r
<1>5. Moved(w, r.pc, r.event, r.retry, r.failed, r.version, r.creds)
  BY <1>2, <1>4, Becomes
<1> QED
  BY <1>3, <1>5 DEF Keeps

LEMMA AfterRetryMoves ==
  ASSUME LoopsTyped, NEW w \in Loops, NEW failed \in BOOLEAN, AfterRetry(w, failed)
  PROVE  Retried(w, failed)
<1>1. CASE w = "health"
  <2>1. Stop(w)
    BY <1>1 DEF AfterRetry, Stop
  <2> QED
    BY <2>1, <1>1, StopRests DEF Retried
<1>2. CASE w # "health"
  <2> DEFINE r == [loop[w] EXCEPT !.pc = "probe", !.retry = FALSE, !.failed = failed,
                                  !.event = None]
  <2>1. loop[w] \in Standing
    BY DEF LoopsTyped
  <2>2. r \in Standing
    BY <2>1, NoneFacts DEF Standing, Pcs
  <2>3. /\ r.pc = "probe" /\ r.event = None /\ r.retry = FALSE
        /\ r.failed = failed /\ r.version = loop[w].version /\ r.creds = loop[w].creds
    BY <2>1 DEF Standing
  <2>4. loop' = [loop EXCEPT ![w] = r]
    BY <1>2 DEF AfterRetry
  <2> HIDE DEF r
  <2>5. Moved(w, r.pc, r.event, r.retry, r.failed, r.version, r.creds)
    BY <2>2, <2>4, Becomes
  <2>6. w = "balances"
    BY <1>2, LoopNames
  <2> QED
    BY <2>3, <2>5, <2>6 DEF Retried
<1> QED
  BY <1>1, <1>2

LEMMA StartMoves ==
  ASSUME LoopsTyped, NEW w \in Loops, StartRound(w), upRow.version \in 0..MaxEdits,
         upRow.creds \in 0..MaxEdits
  PROVE  Moved(w, "retry", None, FALSE, FALSE, upRow.version, upRow.creds)
<1> DEFINE r == [Idle EXCEPT !.pc = "retry", !.version = upRow.version,
                             !.creds = upRow.creds]
<1>1. r \in Standing
  BY IdleFacts DEF Standing, Pcs
<1>2. /\ r.pc = "retry" /\ r.event = Idle.event /\ r.retry = Idle.retry
      /\ r.failed = Idle.failed /\ r.version = upRow.version /\ r.creds = upRow.creds
  BY IdleFacts DEF Standing
<1>3. loop' = [loop EXCEPT ![w] = r]
  BY DEF StartRound
<1> HIDE DEF r
<1>4. Moved(w, r.pc, r.event, r.retry, r.failed, r.version, r.creds)
  BY <1>1, <1>3, Becomes
<1>5. r.retry = FALSE /\ r.failed = FALSE /\ r.event = None
  BY <1>2 DEF Idle
<1> QED
  BY <1>2, <1>4, <1>5

LEMMA ProbeMoves ==
  ASSUME LoopsTyped, Probe
  PROVE  Keeps("balances", "save")
<1>1. PICK funds \in Funds :
        loop' = [loop EXCEPT !["balances"].pc = "save", !["balances"].funds = funds]
  BY DEF Probe
<1> DEFINE r == [loop["balances"] EXCEPT !.pc = "save", !.funds = funds]
<1>2. loop["balances"] \in Standing
  BY LoopNames DEF LoopsTyped
<1>3. r \in Standing
  BY <1>2 DEF Standing, Pcs
<1>4. /\ r.pc = "save" /\ r.event = loop["balances"].event
      /\ r.retry = loop["balances"].retry /\ r.failed = loop["balances"].failed
      /\ r.version = loop["balances"].version /\ r.creds = loop["balances"].creds
  BY <1>2 DEF Standing
<1>5. loop' = [loop EXCEPT !["balances"] = r]
  BY <1>1, LoopNames DEF LoopsTyped
<1> HIDE DEF r
<1>6. Moved("balances", r.pc, r.event, r.retry, r.failed, r.version, r.creds)
  BY <1>3, <1>5, Becomes, LoopNames
<1> QED
  BY <1>4, <1>6 DEF Keeps

LEMMA RetryMoves ==
  ASSUME LoopsTyped, pending \in Event, NEW w \in Loops, RetryPending(w)
  PROVE  \/ /\ inFlight # "none" /\ inFlight' = inFlight /\ Retried(w, TRUE)
         \/ /\ inFlight = "none" /\ pending = None /\ inFlight' = inFlight
            /\ Retried(w, FALSE)
         \/ /\ inFlight = "none" /\ pending # None /\ inFlight' = w
            /\ Moved(w, "check", pending, TRUE, loop[w].failed, loop[w].version,
                     loop[w].creds)
<1>1. CASE inFlight # "none"
  <2>1. AfterRetry(w, TRUE) /\ inFlight' = inFlight
    BY <1>1 DEF RetryPending, RetryInProgress
  <2> QED
    BY <1>1, <2>1, AfterRetryMoves
<1>2. CASE inFlight = "none" /\ pending = None
  <2>1. AfterRetry(w, FALSE) /\ inFlight' = inFlight
    BY <1>2 DEF RetryPending, RetryInProgress
  <2> QED
    BY <1>2, <2>1, AfterRetryMoves
<1>3. CASE inFlight = "none" /\ pending # None
  <2> DEFINE r == [loop[w] EXCEPT !.pc = "check", !.retry = TRUE, !.event = pending]
  <2>1. loop[w] \in Standing
    BY DEF LoopsTyped
  <2>2. r \in Standing
    BY <2>1 DEF Standing, Pcs
  <2>3. /\ r.pc = "check" /\ r.event = pending /\ r.retry = TRUE
        /\ r.failed = loop[w].failed /\ r.version = loop[w].version
        /\ r.creds = loop[w].creds
    BY <2>1 DEF Standing
  <2>4. loop' = [loop EXCEPT ![w] = r] /\ inFlight' = w
    BY <1>3 DEF RetryPending, RetryInProgress, LoopsTyped
  <2> HIDE DEF r
  <2>5. Moved(w, r.pc, r.event, r.retry, r.failed, r.version, r.creds)
    BY <2>2, <2>4, Becomes
  <2> QED
    BY <1>3, <2>3, <2>4, <2>5
<1> QED
  BY <1>1, <1>2, <1>3

LEMMA ToldMoves ==
  ASSUME LoopsTyped, NEW w \in Loops, Told(w)
  PROVE  \/ loop[w].retry /\ Keeps(w, "ack")
         \/ ~loop[w].retry /\ Rests(w)
<1>1. "ack" \in Pcs
  BY DEF Pcs
<1>2. CASE loop[w].retry
  <2>1. Go(w, "ack")
    BY <1>2 DEF Told
  <2> QED
    BY <1>1, <1>2, <2>1, GoKeeps
<1>3. CASE ~loop[w].retry
  <2>1. Stop(w)
    BY <1>3 DEF Told
  <2> QED
    BY <1>3, <2>1, StopRests
<1> QED
  BY <1>2, <1>3

LEMMA FailureMoves ==
  ASSUME LoopsTyped, NEW w \in Loops, DeliveryFails(w)
  PROVE  \/ loop[w].retry /\ inFlight' = "none" /\ Retried(w, TRUE)
         \/ ~loop[w].retry /\ inFlight' = inFlight /\ Keeps(w, "queue")
<1>1. "queue" \in Pcs
  BY DEF Pcs
<1>2. CASE loop[w].retry
  <2>1. AfterRetry(w, TRUE) /\ inFlight' = "none"
    BY <1>2 DEF DeliveryFails
  <2> QED
    BY <1>2, <2>1, AfterRetryMoves
<1>3. CASE ~loop[w].retry
  <2>1. Go(w, "queue") /\ inFlight' = inFlight
    BY <1>3 DEF DeliveryFails
  <2> QED
    BY <1>1, <1>3, <2>1, GoKeeps
<1> QED
  BY <1>2, <1>3

-----------------------------------------------------------------------------
(* What a reading and an update make of the row.                           *)

Row == [suspended : BOOLEAN, checks : 0..Confirmed, protection : BOOLEAN,
        version : 0..MaxEdits, creds : 0..MaxEdits]

Turned == upRow'.suspended # upRow.suspended

LEMMA ConfirmedIsTwo == Confirmed = 2
BY DEF Confirmed

LEMMA ReadingFields ==
  ASSUME NEW r \in Row, NEW funds \in Funds, NEW immediate \in BOOLEAN
  PROVE  LET s == BalanceProtectionState(r, funds, immediate)
         IN /\ s \in Row
            /\ s.version = r.version /\ s.creds = r.creds /\ s.protection = r.protection
            /\ s.checks > 0 => r.protection /\ funds = "zero"
            /\ s.checks = Confirmed => immediate \/ r.checks >= 1
            /\ s.suspended /\ ~r.suspended => s.checks = Confirmed /\ r.protection
            /\ r.suspended /\ ~s.suspended => ~r.protection \/ funds = "usable"
<1> DEFINE zero == r.protection /\ funds = "zero"
           checks == IF ~zero THEN 0
                     ELSE IF immediate \/ r.checks + 1 >= Confirmed THEN Confirmed
                     ELSE r.checks + 1
           suspended == /\ r.protection
                        /\ checks = Confirmed \/ (r.suspended /\ funds # "usable")
           s == [r EXCEPT !.checks = checks, !.suspended = suspended]
<1>1. /\ r.suspended \in BOOLEAN /\ r.protection \in BOOLEAN /\ r.checks \in 0..2
      /\ r.version \in 0..MaxEdits /\ r.creds \in 0..MaxEdits
  BY ConfirmedIsTwo DEF Row
<1>2. /\ checks \in 0..2
      /\ checks > 0 => zero
      /\ checks = 2 => immediate \/ r.checks >= 1
  BY <1>1, ConfirmedIsTwo
<1>3. suspended \in BOOLEAN
  OBVIOUS
<1>4. /\ suspended /\ ~r.suspended => checks = Confirmed /\ r.protection
      /\ r.suspended /\ ~suspended => ~r.protection \/ funds = "usable"
  OBVIOUS
<1>5. BalanceProtectionState(r, funds, immediate) = s
  BY DEF BalanceProtectionState
<1> HIDE DEF checks, suspended
<1>6. s \in Row
  BY <1>2, <1>3, ConfirmedIsTwo DEF Row
<1>7. /\ s.checks = checks /\ s.suspended = suspended
      /\ s.version = r.version /\ s.creds = r.creds /\ s.protection = r.protection
  BY DEF Row
<1> HIDE DEF s
<1> QED
  BY <1>2, <1>4, <1>5, <1>6, <1>7, ConfirmedIsTwo

LEMMA NewEventFields ==
  ASSUME NEW r \in Row, next \in 1..MaxTransitions
  PROVE  /\ NewEvent(r) \in Event
         /\ NewEvent(r).id = next /\ NewEvent(r).state = Transition(r)
BY Bounds DEF NewEvent, Event, Transition, Transitions

(* A saved reading, by the monitor or by the administrator.                *)
LEMMA SavedFacts ==
  ASSUME upRow \in Row, NEW reader, reader.funds \in Funds, NEW immediate \in BOOLEAN,
         SaveBalance(reader, immediate), next \in 1..(MaxTransitions + 1)
  PROVE  /\ upRow' \in Row /\ reader.version = upRow.version
         /\ upRow'.version = upRow.version /\ upRow'.creds = upRow.creds
         /\ upRow'.protection = upRow.protection
         /\ upRow'.checks > 0 => upRow.protection /\ reader.funds = "zero"
         /\ upRow'.checks = Confirmed => immediate \/ upRow.checks >= 1
         /\ upRow'.suspended /\ ~upRow.suspended =>
              upRow'.checks = Confirmed /\ upRow.protection
         /\ upRow.suspended /\ ~upRow'.suspended =>
              ~upRow.protection \/ reader.funds = "usable"
         /\ evidence' = Evidence(reader, immediate)
         /\ Turned => next \in 1..MaxTransitions /\ next' = next + 1
         /\ ~Turned => next' = next
<1> DEFINE s == BalanceProtectionState(upRow, reader.funds, immediate)
<1>1. upRow' = s /\ reader.version = upRow.version /\ evidence' = Evidence(reader, immediate)
  BY DEF SaveBalance, Current
<1>2. /\ s \in Row
      /\ s.version = upRow.version /\ s.creds = upRow.creds
      /\ s.protection = upRow.protection
      /\ s.checks > 0 => upRow.protection /\ reader.funds = "zero"
      /\ s.checks = Confirmed => immediate \/ upRow.checks >= 1
      /\ s.suspended /\ ~upRow.suspended => s.checks = Confirmed /\ upRow.protection
      /\ upRow.suspended /\ ~s.suspended => ~upRow.protection \/ reader.funds = "usable"
  BY ReadingFields
<1> HIDE DEF s
<1>3. /\ Turned => next <= MaxTransitions
      /\ next' = IF Turned THEN next + 1 ELSE next
  BY DEF SaveBalance, Turned
<1>4. /\ Turned => next \in 1..MaxTransitions /\ next' = next + 1
      /\ ~Turned => next' = next
  BY <1>3, Bounds
<1> QED
  BY <1>1, <1>2, <1>4

LEMMA EvidenceFacts ==
  ASSUME NEW reader, reader.funds \in Funds, NEW immediate \in BOOLEAN
  PROVE  /\ Evidence(reader, immediate) \in {"none", "zero", "zeros", "usable"}
         /\ reader.creds = upRow.creds /\ reader.funds = "usable" =>
              Evidence(reader, immediate) = "usable"
         /\ reader.creds = upRow.creds /\ reader.funds = "zero" =>
              Evidence(reader, immediate) \in {"zero", "zeros"}
         /\ /\ reader.creds = upRow.creds /\ reader.funds = "zero"
            /\ immediate \/ evidence \in {"zero", "zeros"}
            => Evidence(reader, immediate) = "zeros"
BY DEF Evidence, Funds

LEMMA SaveMoves ==
  ASSUME LoopsTyped, SaveReading, upRow \in Row, next \in 1..(MaxTransitions + 1)
  PROVE  \/ ~Turned /\ Rests("balances")
         \/ /\ Turned
            /\ Moved("balances", IF loop["balances"].failed THEN "queue" ELSE "check",
                     NewEvent(upRow'), loop["balances"].retry, loop["balances"].failed,
                     loop["balances"].version, loop["balances"].creds)
<1> USE LoopNames
<1>1. loop["balances"] \in Standing
  BY DEF LoopsTyped
<1>2. loop["balances"].funds \in Funds
  BY <1>1 DEF Standing
<1>3. SaveBalance(loop["balances"], FALSE)
  BY DEF SaveReading
<1>4. upRow' \in Row /\ (Turned => next \in 1..MaxTransitions)
  BY <1>2, <1>3, SavedFacts
<1>5. CASE ~Turned
  <2>1. Stop("balances")
    BY <1>5 DEF SaveReading, Stop, Turned
  <2> QED
    BY <1>5, <2>1, StopRests
<1>6. CASE Turned
  <2> DEFINE where == IF loop["balances"].failed THEN "queue" ELSE "check"
             e == NewEvent(upRow')
             r == [loop["balances"] EXCEPT !.pc = where, !.event = e]
  <2>1. e \in Event
    BY <1>4, <1>6, NewEventFields
  <2>2. where \in Pcs
    BY DEF Pcs
  <2>3. loop' = [loop EXCEPT !["balances"] = r]
    BY <1>6 DEF SaveReading, Turned, OlderIsUntold
  <2> HIDE DEF where, e
  <2>4. r \in Standing
    BY <1>1, <2>1, <2>2 DEF Standing
  <2>5. /\ r.pc = where /\ r.event = e
        /\ r.retry = loop["balances"].retry /\ r.failed = loop["balances"].failed
        /\ r.version = loop["balances"].version /\ r.creds = loop["balances"].creds
    BY <1>1 DEF Standing
  <2> HIDE DEF r
  <2>6. Moved("balances", r.pc, r.event, r.retry, r.failed, r.version, r.creds)
    BY <2>3, <2>4, Becomes
  <2>7. Moved("balances", where, e, loop["balances"].retry, loop["balances"].failed,
              loop["balances"].version, loop["balances"].creds)
    BY <2>5, <2>6
  <2> QED
    BY <1>6, <2>7 DEF where, e
<1> QED
  BY <1>5, <1>6

(* UpdateUpstream, for the values it chooses.                              *)
LEMMA UpdateFacts ==
  ASSUME UpdateUpstream, upRow \in Row, upRow.version = edits, upRow.creds <= edits,
         edits \in 0..MaxEdits, next \in 1..(MaxTransitions + 1)
  PROVE  /\ upRow' \in Row /\ edits' = edits + 1 /\ edits' \in 0..MaxEdits
         /\ upRow'.version = edits' /\ upRow'.creds <= edits'
         /\ upRow'.suspended => upRow.suspended /\ upRow'.protection
         /\ upRow.suspended /\ ~upRow'.suspended => ~upRow'.protection
         /\ \/ evidence' = "none" /\ upRow'.checks = 0
            \/ evidence' = evidence /\ (upRow'.checks = upRow.checks \/ upRow'.checks = 0)
         /\ Turned => next \in 1..MaxTransitions /\ next' = next + 1
         /\ ~Turned => next' = next
<1>1. PICK protection \in BOOLEAN, credsChanged \in BOOLEAN :
        /\ upRow' = [suspended |-> upRow.suspended /\ protection,
                     checks |-> NextChecks(protection, credsChanged),
                     protection |-> protection,
                     version |-> upRow.version + 1,
                     creds |-> IF credsChanged THEN upRow.creds + 1 ELSE upRow.creds]
        /\ evidence' = IF credsChanged THEN "none" ELSE evidence
  BY DEF UpdateUpstream
<1>2. edits < MaxEdits /\ edits' = edits + 1
  BY DEF UpdateUpstream
<1>3. /\ upRow.suspended \in BOOLEAN /\ upRow.checks \in 0..Confirmed
      /\ upRow.creds \in 0..MaxEdits
  BY DEF Row
<1>4. /\ NextChecks(protection, credsChanged) \in {upRow.checks, 0}
      /\ credsChanged => NextChecks(protection, credsChanged) = 0
  BY DEF NextChecks
<1>5. NextChecks(protection, credsChanged) \in 0..Confirmed
  BY <1>3, <1>4, ConfirmedIsTwo
<1>6. edits + 1 \in 0..MaxEdits
  BY <1>2, Bounds
<1>7. (IF credsChanged THEN upRow.creds + 1 ELSE upRow.creds) \in 0..MaxEdits
  BY <1>2, <1>3, Bounds
<1>8. upRow' \in Row
  BY <1>1, <1>3, <1>5, <1>6, <1>7 DEF Row
<1>9. /\ upRow'.suspended = (upRow.suspended /\ protection)
      /\ upRow'.checks = NextChecks(protection, credsChanged)
      /\ upRow'.protection = protection /\ upRow'.version = upRow.version + 1
      /\ upRow'.creds = IF credsChanged THEN upRow.creds + 1 ELSE upRow.creds
  BY <1>1
<1>10. upRow'.creds <= edits'
  BY <1>2, <1>3, <1>9, Bounds
<1>11. /\ Turned => next <= MaxTransitions
       /\ next' = IF Turned THEN next + 1 ELSE next
  BY DEF UpdateUpstream, Turned
<1>12. /\ Turned => next \in 1..MaxTransitions /\ next' = next + 1
       /\ ~Turned => next' = next
  BY <1>11, Bounds
<1>13. \/ evidence' = "none" /\ upRow'.checks = 0
       \/ evidence' = evidence /\ (upRow'.checks = upRow.checks \/ upRow'.checks = 0)
  BY <1>1, <1>4, <1>9
<1> QED
  BY <1>2, <1>6, <1>8, <1>9, <1>10, <1>12, <1>13

-----------------------------------------------------------------------------
(* Types.                                                                  *)

BalanceTyped ==
  /\ BalanceTypeOK
  /\ upRow.version = edits /\ upRow.creds <= edits

Memory ==
  /\ pending \in Event /\ inFlight \in Loops \cup {"none"}
  /\ last \in [state : Transitions \cup {"none"}, fresh : BOOLEAN]
Administered ==
  /\ manual \in [busy : BOOLEAN, version : 0..MaxEdits, creds : 0..MaxEdits, funds : Funds]
  /\ sending \subseteq [event : Event, left : 1..Attempts]
  /\ refreshes \in 0..MaxRefreshes
Counted ==
  /\ upRow \in Row /\ edits \in 0..MaxEdits /\ next \in 1..(MaxTransitions + 1)
  /\ upRow.version = edits /\ upRow.creds <= edits
Remembered ==
  /\ told \in Event /\ heard \in 0..MaxTransitions
  /\ evidence \in {"none", "zero", "zeros", "usable"} /\ foreign \in BOOLEAN

LEMMA TypedParts ==
  BalanceTyped <=> LoopsTyped /\ Memory /\ Administered /\ Counted /\ Remembered
BY DEF BalanceTyped, BalanceTypeOK, LoopsTyped, Standing, Pcs, Memory, Administered,
       Counted, Remembered, Row

LEMMA TypedPartsNext ==
  BalanceTyped' <=> LoopsTyped' /\ Memory' /\ Administered' /\ Counted' /\ Remembered'
BY DEF BalanceTyped, BalanceTypeOK, LoopsTyped, Standing, Pcs, Memory, Administered,
       Counted, Remembered, Row

LEMMA RetriedTyped ==
  ASSUME NEW w, NEW failed, Retried(w, failed) \/ Rests(w)
  PROVE  LoopsTyped'
BY DEF Retried, Rests, Moved, LoopsTyped

LEMMA BalanceTypedInit == BalanceInit => BalanceTyped
<1> SUFFICES ASSUME BalanceInit PROVE BalanceTyped
  OBVIOUS
<1> USE Bounds, NoneFacts
<1>1. LoopsTyped
  BY IdleFacts DEF BalanceInit, LoopsTyped
<1>2. Memory
  BY DEF BalanceInit, Memory
<1>3. Administered
  BY DEF BalanceInit, Administered, Resting, Funds
<1>4. Counted
  BY ConfirmedIsTwo DEF BalanceInit, Counted, Row
<1>5. told \in Event /\ heard \in 0..MaxTransitions
  BY DEF BalanceInit
<1>6. evidence \in {"none", "zero", "zeros", "usable"} /\ foreign \in BOOLEAN
  BY DEF BalanceInit
<1>7. Remembered
  BY <1>5, <1>6 DEF Remembered
<1> QED
  BY <1>1, <1>2, <1>3, <1>4, <1>7, TypedParts

(* A step of one loop, by the notifier or before it.                       *)
LEMMA LoopStepTyped ==
  ASSUME BalanceTyped, NEW w \in Loops, LoopStep(w)
  PROVE  BalanceTyped'
<1> USE LoopNames
<1>0. LoopsTyped /\ Memory /\ Administered /\ Counted /\ Remembered
  BY TypedParts
<1>t. {"check", "deliver", "remember", "ack", "release", "queue"} \subseteq Pcs
  BY DEF Pcs
<1>1. CASE StartRound(w)
  <2>1. LoopsTyped'
    BY <1>0, <1>1, StartMoves DEF Counted, Row, Moved, LoopsTyped
  <2>2. Memory' /\ Administered' /\ Counted' /\ Remembered'
    BY <1>0, <1>1 DEF StartRound, admin, bounds, announced, Memory, Administered,
                      Counted, Remembered
  <2> QED
    BY <2>1, <2>2, TypedPartsNext
<1>2. CASE RetryPending(w)
  <2>1. LoopsTyped' /\ inFlight' \in Loops \cup {"none"}
    BY <1>0, <1>2, RetryMoves, RetriedTyped DEF Memory, Moved, LoopsTyped
  <2>2. Memory' /\ Administered' /\ Counted' /\ Remembered'
    BY <1>0, <1>2, <2>1
       DEF RetryPending, admin, bounds, announced, Memory, Administered,
                      Counted, Remembered
  <2> QED
    BY <2>1, <2>2, TypedPartsNext
<1>3. CASE Suppress(w)
  <2>1. LoopsTyped'
    BY <1>0, <1>3, ToldMoves DEF Suppress, Rests, Keeps, Moved, LoopsTyped
  <2>2. Memory' /\ Administered' /\ Counted' /\ Remembered'
    BY <1>0, <1>3 DEF Suppress, admin, bounds, announced, Memory, Administered,
                      Counted, Remembered
  <2> QED
    BY <2>1, <2>2, TypedPartsNext
<1>4. CASE Pass(w)
  <2>1. LoopsTyped'
    BY <1>0, <1>t, <1>4, GoKeeps DEF Pass, Keeps, Moved, LoopsTyped
  <2>2. Memory' /\ Administered' /\ Counted' /\ Remembered'
    BY <1>0, <1>4 DEF Pass, admin, bounds, announced, Memory, Administered,
                      Counted, Remembered
  <2> QED
    BY <2>1, <2>2, TypedPartsNext
<1>5. CASE Deliver(w)
  <2>1. LoopsTyped'
    BY <1>0, <1>t, <1>5, GoKeeps DEF Deliver, Keeps, Moved, LoopsTyped
  <2>2. loop[w].event \in Event
    BY <1>0 DEF LoopsTyped, Standing
  <2>3. told' \in Event /\ heard' \in 0..MaxTransitions
    BY <1>5, <2>2 DEF Deliver, Event
  <2>4. Memory' /\ Administered' /\ Counted' /\ Remembered'
    BY <1>0, <1>5, <2>3 DEF Deliver, admin, bounds, announced, Memory, Administered,
                      Counted, Remembered
  <2> QED
    BY <2>1, <2>4, TypedPartsNext
<1>6. CASE DeliveryFails(w)
  <2>1. LoopsTyped' /\ inFlight' \in Loops \cup {"none"}
    BY <1>0, <1>6, FailureMoves, RetriedTyped DEF Memory, Keeps, Moved, LoopsTyped
  <2>2. pending' = pending
    BY <1>6 DEF DeliveryFails
  <2>3. Memory' /\ Administered' /\ Counted' /\ Remembered'
    BY <1>0, <1>6, <2>1, <2>2
       DEF DeliveryFails, admin, bounds, announced, Memory, Administered,
           Counted, Remembered
  <2> QED
    BY <2>1, <2>3, TypedPartsNext
<1>7. CASE Remember(w)
  <2>1. LoopsTyped'
    BY <1>0, <1>7, ToldMoves DEF Remember, Rests, Keeps, Moved, LoopsTyped
  <2>2. loop[w].event.state \in Transitions
    BY <1>0 DEF LoopsTyped, Standing, Event
  <2>3. last' \in [state : Transitions \cup {"none"}, fresh : BOOLEAN]
    BY <1>7, <2>2 DEF Remember
  <2>4. Memory' /\ Administered' /\ Counted' /\ Remembered'
    BY <1>0, <1>7, <2>3 DEF Remember, admin, bounds, announced, Memory, Administered,
                      Counted, Remembered
  <2> QED
    BY <2>1, <2>4, TypedPartsNext
<1>8. CASE AckPending(w)
  <2>1. LoopsTyped'
    BY <1>0, <1>t, <1>8, GoKeeps DEF AckPending, Keeps, Moved, LoopsTyped
  <2>2. pending' \in Event
    BY <1>0, <1>8, NoneFacts DEF AckPending, Memory
  <2>3. Memory' /\ Administered' /\ Counted' /\ Remembered'
    BY <1>0, <1>8, <2>2 DEF AckPending, admin, bounds, announced, Memory, Administered,
                      Counted, Remembered
  <2> QED
    BY <2>1, <2>3, TypedPartsNext
<1>9. CASE ReleaseRetry(w)
  <2>1. LoopsTyped'
    BY <1>0, <1>9, AfterRetryMoves, RetriedTyped DEF ReleaseRetry
  <2>2. Memory' /\ Administered' /\ Counted' /\ Remembered'
    BY <1>0, <1>9 DEF ReleaseRetry, admin, bounds, announced, Memory, Administered,
                      Counted, Remembered
  <2> QED
    BY <2>1, <2>2, TypedPartsNext
<1> QED
  BY <1>1, <1>2, <1>3, <1>4, <1>5, <1>6, <1>7, <1>8, <1>9 DEF LoopStep, NotifyStep

LEMMA AnnounceTyped ==
  ASSUME Administered, upRow' \in Row, Turned => next \in 1..MaxTransitions, Announce
  PROVE  sending' \subseteq [event : Event, left : 1..Attempts]
<1>1. CASE ~Turned
  BY <1>1 DEF Announce, Turned, Administered
<1>2. CASE Turned
  <2>1. NewEvent(upRow') \in Event
    BY <1>2, NewEventFields
  <2>2. Attempts \in 1..Attempts
    BY DEF Attempts
  <2>3. sending' = sending \cup {[event |-> NewEvent(upRow'), left |-> Attempts]}
    BY <1>2 DEF Announce, Turned
  <2> QED
    BY <2>1, <2>2, <2>3 DEF Administered
<1> QED
  BY <1>1, <1>2

LEMMA SendFailsTyped ==
  ASSUME Administered, NEW s \in sending, SendFails(s)
  PROVE  sending' \subseteq [event : Event, left : 1..Attempts]
<1>1. s \in [event : Event, left : 1..Attempts]
  BY DEF Administered
<1> DEFINE u == [s EXCEPT !.left = s.left - 1]
<1>2. u.left > 0 => u \in [event : Event, left : 1..Attempts]
  BY <1>1 DEF Attempts
<1>3. sending' = (sending \ {s}) \cup {t \in {u} : t.left > 0}
  BY DEF SendFails
<1> HIDE DEF u
<1> QED
  BY <1>2, <1>3 DEF Administered

LEMMA BalanceTypedStep == BalanceTyped /\ [BalanceNext]_balanceVars => BalanceTyped'
<1> SUFFICES ASSUME BalanceTyped, [BalanceNext]_balanceVars PROVE BalanceTyped'
  OBVIOUS
<1> USE LoopNames
<1>0. LoopsTyped /\ Memory /\ Administered /\ Counted /\ Remembered
  BY TypedParts
<1>1. ASSUME NEW w \in Loops, LoopStep(w) PROVE BalanceTyped'
  BY <1>1, LoopStepTyped
<1>2. CASE Probe
  <2>1. LoopsTyped'
    BY <1>0, <1>2, ProbeMoves DEF Keeps, Moved, LoopsTyped
  <2>2. Memory' /\ Administered' /\ Counted' /\ Remembered'
    BY <1>0, <1>2 DEF Probe, admin, bounds, announced, Memory, Administered,
                      Counted, Remembered
  <2> QED
    BY <2>1, <2>2, TypedPartsNext
<1>3. CASE SaveReading
  <2>1. LoopsTyped'
    BY <1>0, <1>3, SaveMoves DEF Counted, Rests, Moved, LoopsTyped
  <2>2. loop["balances"].funds \in Funds
    BY <1>0 DEF LoopsTyped, Standing
  <2>3. SaveBalance(loop["balances"], FALSE)
    BY <1>3 DEF SaveReading
  <2>4. /\ upRow' \in Row /\ upRow'.version = upRow.version /\ upRow'.creds = upRow.creds
        /\ Turned => next \in 1..MaxTransitions /\ next' = next + 1
        /\ ~Turned => next' = next
        /\ evidence' \in {"none", "zero", "zeros", "usable"}
    BY <1>0, <2>2, <2>3, SavedFacts, EvidenceFacts DEF Counted
  <2>5. next' \in 1..(MaxTransitions + 1)
    BY <1>0, <2>4, Bounds DEF Counted
  <2>6. Memory' /\ Administered' /\ Counted' /\ Remembered'
    BY <1>0, <1>3, <2>4, <2>5 DEF SaveReading, admin, Memory, Administered, Counted,
                                  Remembered
  <2> QED
    BY <2>1, <2>6, TypedPartsNext
<1>4. CASE SaveRefused
  <2>1. LoopsTyped'
    BY <1>0, <1>4, StopRests, RetriedTyped DEF SaveRefused
  <2>2. Memory' /\ Administered' /\ Counted' /\ Remembered'
    BY <1>0, <1>4 DEF SaveRefused, admin, bounds, announced, Memory, Administered,
                      Counted, Remembered
  <2> QED
    BY <2>1, <2>2, TypedPartsNext
<1>5. CASE SetPending
  <2>1. LoopsTyped'
    BY <1>0, <1>5, StopRests, RetriedTyped DEF SetPending
  <2>2. pending' \in Event
    BY <1>0, <1>5 DEF SetPending, LoopsTyped, Standing
  <2>3. Memory' /\ Administered' /\ Counted' /\ Remembered'
    BY <1>0, <1>5, <2>2 DEF SetPending, admin, bounds, announced, Memory, Administered,
                      Counted, Remembered
  <2> QED
    BY <2>1, <2>3, TypedPartsNext
<1>6. CASE CooldownEnds
  <2>1. last' \in [state : Transitions \cup {"none"}, fresh : BOOLEAN]
    BY <1>0, <1>6 DEF CooldownEnds, Memory
  <2>2. LoopsTyped' /\ Memory' /\ Administered' /\ Counted' /\ Remembered'
    BY <1>0, <1>6, <2>1 DEF CooldownEnds, admin, bounds, announced, LoopsTyped, Memory,
                            Administered, Counted, Remembered
  <2> QED
    BY <2>2, TypedPartsNext
<1>7. CASE RefreshBalance
  <2>1. upRow.version \in 0..MaxEdits /\ upRow.creds \in 0..MaxEdits
    BY <1>0 DEF Counted, Row
  <2>2. manual' \in [busy : BOOLEAN, version : 0..MaxEdits, creds : 0..MaxEdits,
                     funds : Funds]
    BY <1>7, <2>1 DEF RefreshBalance
  <2>3. refreshes' \in 0..MaxRefreshes
    BY <1>0, <1>7, Bounds DEF RefreshBalance, Administered
  <2>4. LoopsTyped' /\ Memory' /\ Administered' /\ Counted' /\ Remembered'
    BY <1>0, <1>7, <2>2, <2>3 DEF RefreshBalance, announced, LoopsTyped, Memory,
                                  Administered, Counted, Remembered
  <2> QED
    BY <2>4, TypedPartsNext
<1>8. CASE SaveRefresh
  <2>1. manual' \in [busy : BOOLEAN, version : 0..MaxEdits, creds : 0..MaxEdits,
                     funds : Funds]
    BY <1>8, Bounds DEF SaveRefresh, Resting, Funds
  <2>2. /\ LoopsTyped' /\ Memory'
        /\ edits' = edits /\ refreshes' = refreshes /\ told' = told /\ heard' = heard
    BY <1>0, <1>8 DEF SaveRefresh, LoopsTyped, Memory
  <2>3. CASE SaveBalance(manual, TRUE) /\ Announce
    <3>1. manual.funds \in Funds
      BY <1>0 DEF Administered
    <3>2. /\ upRow' \in Row /\ upRow'.version = upRow.version
          /\ upRow'.creds = upRow.creds
          /\ Turned => next \in 1..MaxTransitions /\ next' = next + 1
          /\ ~Turned => next' = next
          /\ evidence' \in {"none", "zero", "zeros", "usable"}
      BY <1>0, <2>3, <3>1, SavedFacts, EvidenceFacts DEF Counted
    <3>3. next' \in 1..(MaxTransitions + 1)
      BY <1>0, <3>2, Bounds DEF Counted
    <3>4. sending' \subseteq [event : Event, left : 1..Attempts]
      BY <1>0, <2>3, <3>2, AnnounceTyped
    <3>5. foreign' \in BOOLEAN
      BY <1>0, <2>3 DEF Announce, Remembered
    <3>6. Administered' /\ Counted' /\ Remembered'
      BY <1>0, <2>1, <2>2, <3>2, <3>3, <3>4, <3>5 DEF Administered, Counted, Remembered
    <3> QED
      BY <2>2, <3>6, TypedPartsNext
  <2>4. CASE ~Current(manual.version) /\ UNCHANGED <<upRow, next, evidence, sending, foreign>>
    <3>1. Administered' /\ Counted' /\ Remembered'
      BY <1>0, <2>1, <2>2, <2>4 DEF Administered, Counted, Remembered
    <3> QED
      BY <2>2, <3>1, TypedPartsNext
  <2> QED
    BY <1>8, <2>3, <2>4 DEF SaveRefresh
<1>9. CASE UpdateUpstream
  <2>1. /\ LoopsTyped' /\ Memory'
        /\ manual' = manual /\ refreshes' = refreshes /\ told' = told /\ heard' = heard
    BY <1>0, <1>9 DEF UpdateUpstream, LoopsTyped, Memory
  <2>2. /\ upRow' \in Row /\ edits' \in 0..MaxEdits
        /\ upRow'.version = edits' /\ upRow'.creds <= edits'
        /\ evidence' = "none" \/ evidence' = evidence
        /\ Turned => next \in 1..MaxTransitions /\ next' = next + 1
        /\ ~Turned => next' = next
    BY <1>0, <1>9, UpdateFacts DEF Counted
  <2>3. next' \in 1..(MaxTransitions + 1)
    BY <1>0, <2>2, Bounds DEF Counted
  <2>4. Announce
    BY <1>9 DEF UpdateUpstream
  <2>5. sending' \subseteq [event : Event, left : 1..Attempts]
    BY <1>0, <2>2, <2>4, AnnounceTyped
  <2>6. foreign' \in BOOLEAN
    BY <1>0, <2>4 DEF Announce, Remembered
  <2>7. Administered' /\ Counted' /\ Remembered'
    BY <1>0, <2>1, <2>2, <2>3, <2>5, <2>6 DEF Administered, Counted, Remembered
  <2> QED
    BY <2>1, <2>7, TypedPartsNext
<1>10. ASSUME NEW s \in sending, SendDirectly(s) PROVE BalanceTyped'
  <2>1. sending' \subseteq [event : Event, left : 1..Attempts] /\ told' \in Event
    BY <1>0, <1>10 DEF SendDirectly, Administered
  <2>2. LoopsTyped' /\ Memory' /\ Administered' /\ Counted' /\ Remembered'
    BY <1>0, <1>10, <2>1 DEF SendDirectly, bounds, LoopsTyped, Memory, Administered,
                             Counted, Remembered
  <2> QED
    BY <2>2, TypedPartsNext
<1>11. ASSUME NEW s \in sending, SendFails(s) PROVE BalanceTyped'
  <2>1. sending' \subseteq [event : Event, left : 1..Attempts]
    BY <1>0, <1>11, SendFailsTyped
  <2>2. LoopsTyped' /\ Memory' /\ Administered' /\ Counted' /\ Remembered'
    BY <1>0, <1>11, <2>1 DEF SendFails, bounds, announced, LoopsTyped, Memory,
                             Administered, Counted, Remembered
  <2> QED
    BY <2>2, TypedPartsNext
<1>12. CASE UNCHANGED balanceVars
  <2>1. LoopsTyped' /\ Memory' /\ Administered' /\ Counted' /\ Remembered'
    BY <1>0, <1>12
       DEF balanceVars, LoopsTyped, Memory, Administered, Counted, Remembered
  <2> QED
    BY <2>1, TypedPartsNext
<1> QED
  BY <1>1, <1>2, <1>3, <1>4, <1>5, <1>6, <1>7, <1>8, <1>9, <1>10, <1>11, <1>12
     DEF BalanceNext

(* The row, the loops, the event that waits and the administrator keep     *)
(* their types, and no reader carries a version the row has not had        *)
(* (MaxEdits bounds both).                                                 *)
THEOREM BalanceTypeCorrect == BalanceSpec => []BalanceTypeOK
<1>1. BalanceTyped => BalanceTypeOK
  BY DEF BalanceTyped
<1> QED
  BY <1>1, BalanceTypedInit, BalanceTypedStep, PTL DEF BalanceSpec

-----------------------------------------------------------------------------
(* Protection follows evidence.  Readings carry the version of the row     *)
(* they were taken with, and while that version lasts the credentials do;  *)
(* a zero check that counts is one that was read with them.                *)

Matches(version, creds) ==
  version <= upRow.version /\ (version = upRow.version => creds = upRow.creds)

Dated(w) == loop[w].pc # "idle" => Matches(loop[w].version, loop[w].creds)

ReadersAreDated ==
  /\ \A w \in Loops : Dated(w)
  /\ manual.busy => Matches(manual.version, manual.creds)

ChecksAreEvidence == upRow.checks > 0 => evidence \in {"zero", "zeros"}

EvidenceInv == BalanceTyped /\ ReadersAreDated /\ ChecksAreEvidence

SameRow == upRow'.version = upRow.version /\ upRow'.creds = upRow.creds

LEMMA RowIsTyped ==
  ASSUME BalanceTyped
  PROVE  /\ upRow \in Row /\ upRow.version \in Nat
         /\ next \in 1..(MaxTransitions + 1) /\ edits \in 0..MaxEdits
         /\ upRow.version = edits /\ upRow.creds <= edits
BY TypedParts, Bounds DEF Counted, Row

LEMMA ReadersKept ==
  ASSUME BalanceTyped, ReadersAreDated, SameRow, NEW w \in Loops,
         NEW place, NEW about, NEW retry, NEW failed, NEW version, NEW creds,
         Moved(w, place, about, retry, failed, version, creds),
         \/ place = "idle"
         \/ loop[w].pc # "idle" /\ version = loop[w].version /\ creds = loop[w].creds
         \/ version = upRow.version /\ creds = upRow.creds,
         manual' = manual \/ ~manual'.busy
  PROVE  ReadersAreDated'
<1>1. upRow'.version = upRow.version /\ upRow'.creds = upRow.creds
  BY DEF SameRow
<1>2. upRow.version <= upRow.version
  BY RowIsTyped
<1>3. ASSUME NEW v \in Loops PROVE Dated(v)'
  <2>1. CASE v = w
    BY <1>1, <1>2, <2>1 DEF Moved, Dated, Matches, ReadersAreDated
  <2>2. CASE v # w
    <3>1. loop'[v] = loop[v]
      BY <2>2 DEF Moved
    <3> QED
      BY <1>1, <3>1 DEF Dated, Matches, ReadersAreDated
  <2> QED
    BY <2>1, <2>2
<1>4. manual'.busy => manual' = manual /\ manual.busy
  OBVIOUS
<1>5. manual'.busy => Matches(manual.version, manual.creds)
  BY <1>4 DEF ReadersAreDated
<1>6. manual'.busy => Matches(manual.version, manual.creds)'
  BY <1>1, <1>4, <1>5 DEF Matches
<1> QED
  BY <1>3, <1>6 DEF ReadersAreDated

LEMMA ReadersRetried ==
  ASSUME BalanceTyped, ReadersAreDated, SameRow, NEW w \in Loops, NEW failed,
         Retried(w, failed), loop[w].pc # "idle", manual' = manual
  PROVE  ReadersAreDated'
<1>1. CASE Rests(w)
  BY <1>1, ReadersKept DEF Rests
<1>2. CASE Moved(w, "probe", None, FALSE, failed, loop[w].version, loop[w].creds)
  BY <1>2, ReadersKept
<1> QED
  BY <1>1, <1>2 DEF Retried

LEMMA ReadersLoopStep ==
  ASSUME EvidenceInv, NEW w \in Loops, LoopStep(w)
  PROVE  /\ ReadersAreDated' /\ ChecksAreEvidence'
         /\ upRow' = upRow /\ evidence' = evidence
<1> USE LoopNames
<1>0. /\ BalanceTyped /\ ReadersAreDated /\ ChecksAreEvidence
      /\ LoopsTyped /\ Memory /\ Counted
  BY TypedParts DEF EvidenceInv
<1>t. {"check", "deliver", "remember", "ack", "release", "queue"} \subseteq Pcs
  BY DEF Pcs
<1>s. upRow' = upRow /\ evidence' = evidence /\ manual' = manual
  BY DEF LoopStep, NotifyStep, StartRound, RetryPending, Suppress, Pass, Deliver,
         DeliveryFails, Remember, AckPending, ReleaseRetry, admin, bounds, announced
<1>c. ChecksAreEvidence' /\ SameRow
  BY <1>0, <1>s DEF ChecksAreEvidence, SameRow
<1>1. CASE StartRound(w)
  <2>1. Moved(w, "retry", None, FALSE, FALSE, upRow.version, upRow.creds)
    BY <1>0, <1>1, StartMoves DEF Counted, Row
  <2> QED
    BY <1>0, <1>s, <1>c, <2>1, ReadersKept
<1>2. CASE RetryPending(w)
  <2>1. loop[w].pc # "idle" /\ pending \in Event
    BY <1>0, <1>2 DEF RetryPending, At, Memory
  <2>2. \/ Retried(w, TRUE) \/ Retried(w, FALSE)
        \/ Moved(w, "check", pending, TRUE, loop[w].failed, loop[w].version, loop[w].creds)
    BY <1>0, <1>2, <2>1, RetryMoves
  <2>3. CASE Retried(w, TRUE) \/ Retried(w, FALSE)
    BY <1>0, <1>s, <1>c, <2>1, <2>3, ReadersRetried
  <2>4. CASE Moved(w, "check", pending, TRUE, loop[w].failed, loop[w].version, loop[w].creds)
    BY <1>0, <1>s, <1>c, <2>1, <2>4, ReadersKept
  <2> QED
    BY <1>s, <1>c, <2>2, <2>3, <2>4
<1>3. CASE Suppress(w) \/ Remember(w)
  <2>1. loop[w].pc # "idle" /\ (Keeps(w, "ack") \/ Rests(w))
    BY <1>0, <1>3, ToldMoves DEF Suppress, Remember, At
  <2> QED
    BY <1>0, <1>s, <1>c, <2>1, ReadersKept DEF Keeps, Rests
<1>4. CASE Pass(w) \/ Deliver(w) \/ AckPending(w)
  <2>1. /\ loop[w].pc # "idle"
        /\ Keeps(w, "deliver") \/ Keeps(w, "remember") \/ Keeps(w, "release")
    BY <1>0, <1>t, <1>4, GoKeeps DEF Pass, Deliver, AckPending, At
  <2> QED
    BY <1>0, <1>s, <1>c, <2>1, ReadersKept DEF Keeps
<1>5. CASE DeliveryFails(w)
  <2>1. loop[w].pc # "idle" /\ (Retried(w, TRUE) \/ Keeps(w, "queue"))
    BY <1>0, <1>5, FailureMoves DEF DeliveryFails, At
  <2>2. CASE Retried(w, TRUE)
    BY <1>0, <1>s, <1>c, <2>1, <2>2, ReadersRetried
  <2>3. CASE Keeps(w, "queue")
    BY <1>0, <1>s, <1>c, <2>1, <2>3, ReadersKept DEF Keeps
  <2> QED
    BY <1>s, <1>c, <2>1, <2>2, <2>3
<1>6. CASE ReleaseRetry(w)
  <2>1. loop[w].pc # "idle" /\ Retried(w, FALSE)
    BY <1>0, <1>6, AfterRetryMoves DEF ReleaseRetry, At
  <2> QED
    BY <1>0, <1>s, <1>c, <2>1, ReadersRetried
<1> QED
  BY <1>1, <1>2, <1>3, <1>4, <1>5, <1>6 DEF LoopStep, NotifyStep

Supported ==
  /\ upRow'.suspended /\ ~upRow.suspended => upRow'.protection /\ evidence' = "zeros"
  /\ upRow.suspended /\ ~upRow'.suspended => ~upRow'.protection \/ evidence' = "usable"

LEMMA SavedIsSupported ==
  ASSUME EvidenceInv, NEW reader, reader.funds \in Funds, NEW immediate \in BOOLEAN,
         Matches(reader.version, reader.creds), SaveBalance(reader, immediate)
  PROVE  SameRow /\ ChecksAreEvidence' /\ Supported
<1>1. /\ upRow \in Row /\ next \in 1..(MaxTransitions + 1) /\ ChecksAreEvidence
      /\ upRow.checks \in 0..Confirmed
  BY RowIsTyped DEF EvidenceInv, Row
<1>2. /\ reader.version = upRow.version
      /\ upRow'.version = upRow.version /\ upRow'.creds = upRow.creds
      /\ upRow'.protection = upRow.protection
      /\ upRow'.checks > 0 => upRow.protection /\ reader.funds = "zero"
      /\ upRow'.checks = Confirmed => immediate \/ upRow.checks >= 1
      /\ upRow'.suspended /\ ~upRow.suspended => upRow'.checks = Confirmed /\ upRow.protection
      /\ upRow.suspended /\ ~upRow'.suspended => ~upRow.protection \/ reader.funds = "usable"
      /\ evidence' = Evidence(reader, immediate)
  BY <1>1, SavedFacts
<1>3. reader.creds = upRow.creds
  BY <1>2 DEF Matches
<1>4. /\ reader.funds = "usable" => evidence' = "usable"
      /\ reader.funds = "zero" => evidence' \in {"zero", "zeros"}
      /\ reader.funds = "zero" /\ (immediate \/ evidence \in {"zero", "zeros"}) =>
           evidence' = "zeros"
  BY <1>2, <1>3, EvidenceFacts
<1>5. upRow'.checks = Confirmed => immediate \/ evidence \in {"zero", "zeros"}
  BY <1>1, <1>2, ConfirmedIsTwo DEF ChecksAreEvidence
<1>6. upRow'.checks = Confirmed => upRow'.checks > 0
  BY ConfirmedIsTwo
<1>7. ChecksAreEvidence'
  BY <1>2, <1>4 DEF ChecksAreEvidence
<1>8. Supported
  BY <1>2, <1>4, <1>5, <1>6 DEF Supported
<1> QED
  BY <1>2, <1>7, <1>8 DEF SameRow

LEMMA EvidenceStep ==
  ASSUME EvidenceInv, [BalanceNext]_balanceVars
  PROVE  ReadersAreDated' /\ ChecksAreEvidence' /\ (upRow' = upRow \/ Supported)
<1> USE LoopNames
<1>0. /\ BalanceTyped /\ ReadersAreDated /\ ChecksAreEvidence
      /\ LoopsTyped /\ Memory /\ Administered /\ Counted
  BY TypedParts DEF EvidenceInv
<1>1. ASSUME NEW w \in Loops, LoopStep(w)
      PROVE  ReadersAreDated' /\ ChecksAreEvidence' /\ upRow' = upRow
  BY <1>1, ReadersLoopStep
<1>2. CASE Probe \/ SaveRefused \/ SetPending
  <2>1. upRow' = upRow /\ evidence' = evidence /\ manual' = manual
    BY <1>2 DEF Probe, SaveRefused, SetPending, admin, announced
  <2>2. ChecksAreEvidence' /\ SameRow
    BY <1>0, <2>1 DEF ChecksAreEvidence, SameRow
  <2>3. loop["balances"].pc # "idle" /\ (Keeps("balances", "save") \/ Rests("balances"))
    BY <1>0, <1>2, ProbeMoves, StopRests DEF Probe, SaveRefused, SetPending, At
  <2>4. ReadersAreDated'
    BY <1>0, <2>1, <2>2, <2>3, ReadersKept DEF Keeps, Rests
  <2> QED
    BY <2>1, <2>2, <2>4
<1>3. CASE SaveReading
  <2>1. /\ SaveBalance(loop["balances"], FALSE) /\ loop["balances"].pc # "idle"
        /\ manual' = manual
    BY <1>3 DEF SaveReading, At, admin
  <2>2. loop["balances"].funds \in Funds
    BY <1>0 DEF LoopsTyped, Standing
  <2>3. Matches(loop["balances"].version, loop["balances"].creds)
    BY <1>0, <2>1 DEF ReadersAreDated, Dated
  <2>4. SameRow /\ ChecksAreEvidence' /\ Supported
    BY <2>1, <2>2, <2>3, SavedIsSupported
  <2>5. \/ Rests("balances")
        \/ Moved("balances", IF loop["balances"].failed THEN "queue" ELSE "check",
                 NewEvent(upRow'), loop["balances"].retry, loop["balances"].failed,
                 loop["balances"].version, loop["balances"].creds)
    BY <1>0, <1>3, SaveMoves DEF Counted
  <2>6. ReadersAreDated'
    BY <1>0, <2>1, <2>4, <2>5, ReadersKept DEF Rests
  <2> QED
    BY <2>4, <2>6
<1>4. CASE CooldownEnds
  BY <1>0, <1>4 DEF CooldownEnds, admin, announced, ReadersAreDated, Dated, Matches,
                    ChecksAreEvidence
<1>5. CASE RefreshBalance
  <2>1. /\ upRow' = upRow /\ evidence' = evidence /\ loop' = loop
        /\ manual'.version = upRow.version /\ manual'.creds = upRow.creds
    BY <1>5 DEF RefreshBalance, announced
  <2>2. upRow.version <= upRow.version
    BY <1>0, RowIsTyped
  <2> QED
    BY <1>0, <2>1, <2>2 DEF ReadersAreDated, Dated, Matches, ChecksAreEvidence
<1>6. CASE SaveRefresh
  <2>1. loop' = loop /\ ~manual'.busy /\ manual.busy
    BY <1>6 DEF SaveRefresh, Resting
  <2>2. CASE SaveBalance(manual, TRUE)
    <3>1. manual.funds \in Funds /\ Matches(manual.version, manual.creds)
      BY <1>0, <2>1 DEF Administered, ReadersAreDated
    <3>2. SameRow /\ ChecksAreEvidence' /\ Supported
      BY <2>2, <3>1, SavedIsSupported
    <3>3. ReadersAreDated'
      BY <1>0, <2>1, <3>2 DEF ReadersAreDated, Dated, Matches, SameRow
    <3> QED
      BY <3>2, <3>3
  <2>3. CASE UNCHANGED <<upRow, evidence>>
    BY <1>0, <2>1, <2>3 DEF ReadersAreDated, Dated, Matches, ChecksAreEvidence
  <2> QED
    BY <1>6, <2>2, <2>3 DEF SaveRefresh
<1>7. CASE UpdateUpstream
  <2>1. loop' = loop /\ manual' = manual
    BY <1>7 DEF UpdateUpstream
  <2>2. /\ upRow'.version = upRow.version + 1 /\ upRow.version \in Nat
        /\ upRow'.suspended => upRow.suspended /\ upRow'.protection
        /\ upRow.suspended /\ ~upRow'.suspended => ~upRow'.protection
        /\ \/ evidence' = "none" /\ upRow'.checks = 0
           \/ evidence' = evidence /\ (upRow'.checks = upRow.checks \/ upRow'.checks = 0)
    <3>1. /\ upRow \in Row /\ upRow.version = edits /\ upRow.creds <= edits
          /\ edits \in 0..MaxEdits /\ next \in 1..(MaxTransitions + 1)
          /\ upRow.version \in Nat
      BY <1>0, RowIsTyped
    <3> QED
      BY <1>7, <3>1, UpdateFacts
  <2>3. ChecksAreEvidence'
    BY <1>0, <2>2 DEF ChecksAreEvidence
  <2>4. Supported
    BY <2>2 DEF Supported
  <2>5. ASSUME NEW version \in Int, NEW creds, Matches(version, creds)
        PROVE  version <= upRow'.version /\ version # upRow'.version
    BY <2>2, <2>5 DEF Matches
  <2>6. ASSUME NEW w \in Loops PROVE Dated(w)'
    <3>1. loop[w].version \in Int
      BY <1>0, Bounds DEF LoopsTyped, Standing
    <3> QED
      BY <1>0, <2>1, <2>5, <3>1 DEF ReadersAreDated, Dated, Matches
  <2>7. manual'.busy => Matches(manual.version, manual.creds)'
    <3>1. manual.version \in Int
      BY <1>0, Bounds DEF Administered
    <3> QED
      BY <1>0, <2>1, <2>5, <3>1 DEF ReadersAreDated, Matches
  <2>8. ReadersAreDated'
    BY <2>1, <2>6, <2>7 DEF ReadersAreDated
  <2> QED
    BY <2>3, <2>4, <2>8
<1>8. ASSUME NEW s \in sending, SendDirectly(s) \/ SendFails(s)
      PROVE  ReadersAreDated' /\ ChecksAreEvidence' /\ upRow' = upRow
  BY <1>0, <1>8 DEF SendDirectly, SendFails, announced, ReadersAreDated, Dated, Matches,
                    ChecksAreEvidence
<1>9. CASE UNCHANGED balanceVars
  BY <1>0, <1>9 DEF balanceVars, ReadersAreDated, Dated, Matches, ChecksAreEvidence
<1> QED
  BY <1>1, <1>2, <1>3, <1>4, <1>5, <1>6, <1>7, <1>8, <1>9 DEF BalanceNext

(* An upstream is suspended only by a zero balance that was read with the  *)
(* credentials in use, by an administrator or twice in a row, and resumes  *)
(* only with a balance to use or without protection: however late a        *)
(* reading is saved, whatever was edited since, and whoever took it.       *)
THEOREM ProtectionIsEarned == BalanceSpec => ProtectionFollowsEvidence
<1>1. BalanceInit => EvidenceInv
  <2> SUFFICES ASSUME BalanceInit PROVE EvidenceInv
    OBVIOUS
  <2>1. BalanceTyped
    BY BalanceTypedInit
  <2>2. ReadersAreDated
    BY IdleFacts DEF BalanceInit, ReadersAreDated, Dated, Resting
  <2>3. ChecksAreEvidence
    BY DEF BalanceInit, ChecksAreEvidence
  <2> QED
    BY <2>1, <2>2, <2>3 DEF EvidenceInv
<1>2. EvidenceInv /\ [BalanceNext]_balanceVars => EvidenceInv'
  BY BalanceTypedStep, EvidenceStep DEF EvidenceInv
<1>3. EvidenceInv /\ [BalanceNext]_balanceVars =>
        [ /\ upRow'.suspended /\ ~upRow.suspended => upRow'.protection /\ evidence' = "zeros"
          /\ upRow.suspended /\ ~upRow'.suspended => ~upRow'.protection \/ evidence' = "usable"
        ]_balanceVars
  BY EvidenceStep DEF Supported
<1> QED
  BY <1>1, <1>2, <1>3, PTL DEF BalanceSpec, ProtectionFollowsEvidence

-----------------------------------------------------------------------------
(* The steps of one loop.                                                  *)

B == loop["balances"]
H == loop["health"]

(* What no step of the loops but SaveReading touches.                      *)
RowKept == UNCHANGED <<upRow, sending, next, foreign>>

StartEffect(w) ==
  /\ loop[w].pc = "idle"
  /\ Moved(w, "retry", None, FALSE, FALSE, upRow.version, upRow.creds)
  /\ UNCHANGED <<pending, inFlight, last, told, heard>>

RetryEffect(w) ==
  /\ loop[w].pc = "retry"
  /\ UNCHANGED <<pending, last, told, heard>>
  /\ \/ /\ inFlight # "none" /\ inFlight' = inFlight /\ Retried(w, TRUE)
     \/ /\ inFlight = "none" /\ pending = None /\ inFlight' = inFlight
        /\ Retried(w, FALSE)
     \/ /\ inFlight = "none" /\ pending # None /\ inFlight' = w
        /\ Moved(w, "check", pending, TRUE, loop[w].failed, loop[w].version, loop[w].creds)

ToldEffect(w) ==
  /\ (loop[w].retry /\ Keeps(w, "ack")) \/ (~loop[w].retry /\ Rests(w))
  /\ UNCHANGED <<pending, inFlight, told, heard>>

SuppressEffect(w) ==
  /\ loop[w].pc = "check" /\ last.state = loop[w].event.state /\ last.fresh
  /\ last' = last /\ ToldEffect(w)

PassEffect(w) ==
  /\ loop[w].pc = "check" /\ Keeps(w, "deliver")
  /\ UNCHANGED <<pending, inFlight, last, told, heard>>

DeliverEffect(w) ==
  /\ loop[w].pc = "deliver" /\ Keeps(w, "remember")
  /\ told' = loop[w].event /\ heard' = loop[w].event.id
  /\ UNCHANGED <<pending, inFlight, last>>

FailureEffect(w) ==
  /\ loop[w].pc = "deliver"
  /\ \/ loop[w].retry /\ inFlight' = "none" /\ Retried(w, TRUE)
     \/ ~loop[w].retry /\ inFlight' = inFlight /\ Keeps(w, "queue")
  /\ UNCHANGED <<pending, last, told, heard>>

RememberEffect(w) ==
  /\ loop[w].pc = "remember" /\ ToldEffect(w)
  /\ last'.state = loop[w].event.state /\ last'.fresh

AckEffect(w) ==
  /\ loop[w].pc = "ack" /\ Keeps(w, "release")
  /\ pending' = IF pending = loop[w].event THEN None ELSE pending
  /\ UNCHANGED <<inFlight, last, told, heard>>

ReleaseEffect(w) ==
  /\ loop[w].pc = "release" /\ inFlight' = "none" /\ Retried(w, FALSE)
  /\ UNCHANGED <<pending, last, told, heard>>

Effect(w) ==
  \/ StartEffect(w) \/ RetryEffect(w) \/ SuppressEffect(w) \/ PassEffect(w)
  \/ DeliverEffect(w) \/ FailureEffect(w) \/ RememberEffect(w) \/ AckEffect(w)
  \/ ReleaseEffect(w)

LEMMA LoopStepEffect ==
  ASSUME BalanceTyped, NEW w \in Loops, LoopStep(w)
  PROVE  RowKept /\ Effect(w)
<1>0. LoopsTyped /\ Counted /\ pending \in Event
  BY TypedParts DEF Memory
<1>t. {"deliver", "remember", "release"} \subseteq Pcs
  BY DEF Pcs
<1>r. RowKept
  BY
     DEF RowKept, LoopStep, NotifyStep, StartRound, RetryPending, Suppress, Pass,
         Deliver,
         DeliveryFails, Remember, AckPending, ReleaseRetry, admin, bounds, announced
<1>1. CASE StartRound(w)
  <2>1. Moved(w, "retry", None, FALSE, FALSE, upRow.version, upRow.creds)
    BY <1>0, <1>1, StartMoves DEF Counted, Row
  <2> QED
    BY <1>1, <1>r, <2>1 DEF StartRound, At, StartEffect, Effect, announced
<1>2. CASE RetryPending(w)
  <2>1. \/ /\ inFlight # "none" /\ inFlight' = inFlight /\ Retried(w, TRUE)
        \/ /\ inFlight = "none" /\ pending = None /\ inFlight' = inFlight
           /\ Retried(w, FALSE)
        \/ /\ inFlight = "none" /\ pending # None /\ inFlight' = w
           /\ Moved(w, "check", pending, TRUE, loop[w].failed, loop[w].version,
                    loop[w].creds)
    BY <1>0, <1>2, RetryMoves
  <2>2. loop[w].pc = "retry" /\ UNCHANGED <<pending, last, told, heard>>
    BY <1>2 DEF RetryPending, At, announced
  <2> QED
    BY <1>r, <2>1, <2>2 DEF RetryEffect, Effect
<1>3. CASE Suppress(w)
  <2>1. (loop[w].retry /\ Keeps(w, "ack")) \/ (~loop[w].retry /\ Rests(w))
    BY <1>0, <1>3, ToldMoves DEF Suppress
  <2> QED
    BY <1>3, <1>r, <2>1
       DEF Suppress, At, Duplicate, ToldEffect, SuppressEffect, Effect, announced
<1>4. CASE Pass(w)
  <2>1. Keeps(w, "deliver")
    BY <1>0, <1>t, <1>4, GoKeeps DEF Pass
  <2> QED
    BY <1>4, <1>r, <2>1 DEF Pass, At, PassEffect, Effect, announced
<1>5. CASE Deliver(w)
  <2>1. Keeps(w, "remember")
    BY <1>0, <1>t, <1>5, GoKeeps DEF Deliver
  <2> QED
    BY <1>5, <1>r, <2>1 DEF Deliver, At, DeliverEffect, Effect
<1>6. CASE DeliveryFails(w)
  <2>1. \/ loop[w].retry /\ inFlight' = "none" /\ Retried(w, TRUE)
        \/ ~loop[w].retry /\ inFlight' = inFlight /\ Keeps(w, "queue")
    BY <1>0, <1>6, FailureMoves
  <2>2. loop[w].pc = "deliver" /\ UNCHANGED <<pending, last, told, heard>>
    BY <1>6 DEF DeliveryFails, At, announced
  <2> QED
    BY <1>r, <2>1, <2>2 DEF FailureEffect, Effect
<1>7. CASE Remember(w)
  <2>1. (loop[w].retry /\ Keeps(w, "ack")) \/ (~loop[w].retry /\ Rests(w))
    BY <1>0, <1>7, ToldMoves DEF Remember
  <2>2. last'.state = loop[w].event.state /\ last'.fresh
    BY <1>7 DEF Remember
  <2> QED
    BY <1>7, <1>r, <2>1, <2>2
       DEF Remember, At, ToldEffect, RememberEffect, Effect, announced
<1>8. CASE AckPending(w)
  <2>1. Keeps(w, "release")
    BY <1>0, <1>t, <1>8, GoKeeps DEF AckPending
  <2> QED
    BY <1>8, <1>r, <2>1 DEF AckPending, At, SameEvent, AckEffect, Effect, announced
<1>9. CASE ReleaseRetry(w)
  <2>1. Retried(w, FALSE)
    BY <1>0, <1>9, AfterRetryMoves DEF ReleaseRetry
  <2> QED
    BY <1>9, <1>r, <2>1 DEF ReleaseRetry, At, ReleaseEffect, Effect, announced
<1> QED
  BY <1>1, <1>2, <1>3, <1>4, <1>5, <1>6, <1>7, <1>8, <1>9 DEF LoopStep, NotifyStep

-----------------------------------------------------------------------------
(* Transitions are told in order.  One loop at a time holds the pending    *)
(* transition, the monitor makes a new one only with a clear way or queues *)
(* it behind the one that waits, and ids never fall on the way from a new  *)
(* transition over the pending one to the one that was told.               *)

Working == {"check", "deliver", "remember", "ack", "release"}

Retrying ==
  /\ \A w \in Loops :
       /\ loop[w].retry <=> inFlight = w
       /\ loop[w].retry => loop[w].pc \in Working
       /\ loop[w].pc \in {"ack", "release"} => loop[w].retry
       /\ loop[w].pc \in {"idle", "retry", "probe", "save"} => loop[w].event = None
  /\ H.pc \notin {"probe", "save", "queue"}
  /\ H.pc \in Working => H.retry

(* The reading loop carries a transition it made itself.                   *)
OwnEvent == B.pc \in {"queue", "check", "deliver", "remember"} /\ ~B.retry

ClearWay ==
  /\ B.pc \in {"probe", "save"} /\ ~B.failed => pending = None /\ inFlight = "none"
  /\ OwnEvent /\ B.pc # "queue" => pending = None /\ inFlight = "none"
  /\ B.pc = "release" => pending = None
  /\ B.retry /\ B.pc # "release" => B.event = pending

Ordered ==
  /\ pending.id < next /\ heard < next
  /\ \A w \in Loops : loop[w].event.id < next
  /\ pending # None => pending.id >= 1 /\ pending.id >= heard
  /\ \A w \in Loops : loop[w].retry /\ loop[w].pc # "release" =>
       /\ pending # None /\ heard <= loop[w].event.id /\ loop[w].event.id <= pending.id
       /\ loop[w].event.id = pending.id => loop[w].event = pending
  /\ OwnEvent => /\ B.event.id > H.event.id
                 /\ B.event.id > pending.id
                 /\ B.event.id >= heard

OrderInv == Retrying /\ ClearWay /\ Ordered

LEMMA TypedIds ==
  ASSUME BalanceTyped
  PROVE  /\ pending \in Event /\ pending.id \in Nat /\ heard \in Nat /\ next \in Nat \ {0}
         /\ \A w \in Loops : loop[w].event \in Event /\ loop[w].event.id \in Nat
         /\ \A w \in Loops : loop[w].retry \in BOOLEAN /\ loop[w].failed \in BOOLEAN
         /\ inFlight \in {"balances", "health", "none"}
<1>1. LoopsTyped /\ Memory /\ Counted /\ Remembered
  BY TypedParts
<1>2. ASSUME NEW e \in Event PROVE e.id \in Nat
  BY Bounds DEF Event
<1>3. \A w \in Loops : /\ loop[w].event \in Event
                       /\ loop[w].retry \in BOOLEAN /\ loop[w].failed \in BOOLEAN
  BY <1>1 DEF LoopsTyped, Standing
<1>4. pending \in Event /\ inFlight \in {"balances", "health", "none"}
  BY <1>1, LoopNames DEF Memory
<1>5. heard \in Nat /\ next \in Nat \ {0}
  BY <1>1, Bounds DEF Remembered, Counted
<1> QED
  BY <1>2, <1>3, <1>4, <1>5

LEMMA RetryingLoopStep ==
  ASSUME BalanceTyped, OrderInv, NEW w \in Loops, LoopStep(w)
  PROVE  Retrying'
<1> USE LoopNames, NoneFacts
<1>0. Retrying /\ ClearWay /\ Ordered
  BY DEF OrderInv
<1>t. /\ pending.id \in Nat /\ heard \in Nat /\ next \in Nat \ {0}
      /\ \A v \in Loops : loop[v].event.id \in Nat
      /\ \A v \in Loops : loop[v].retry \in BOOLEAN /\ loop[v].failed \in BOOLEAN
      /\ inFlight \in {"balances", "health", "none"}
  BY TypedIds
<1>n. next' = next
  BY LoopStepEffect DEF RowKept
<1>1. CASE StartEffect(w)
  BY <1>0, <1>t, <1>n, <1>1 DEF StartEffect, Moved, Retrying, Working, H
<1>2. CASE RetryEffect(w)
  BY <1>0, <1>t, <1>n, <1>2 DEF RetryEffect, Retried, Rests, Moved, Retrying, Working, H
<1>3. CASE SuppressEffect(w)
  BY <1>0, <1>t, <1>n, <1>3
     DEF SuppressEffect, ToldEffect, Keeps, Rests, Moved, Retrying, Working, H
<1>4. CASE PassEffect(w)
  BY <1>0, <1>t, <1>n, <1>4 DEF PassEffect, Keeps, Moved, Retrying, Working, H
<1>5. CASE DeliverEffect(w)
  BY <1>0, <1>t, <1>n, <1>5 DEF DeliverEffect, Keeps, Moved, Retrying, Working, H
<1>6. CASE FailureEffect(w)
  BY <1>0, <1>t, <1>n, <1>6
     DEF FailureEffect, Keeps, Retried, Rests, Moved, Retrying, Working, H
<1>7. CASE RememberEffect(w)
  BY <1>0, <1>t, <1>n, <1>7
     DEF RememberEffect, ToldEffect, Keeps, Rests, Moved, Retrying, Working, H
<1>8. CASE AckEffect(w)
  BY <1>0, <1>t, <1>n, <1>8 DEF AckEffect, Keeps, Moved, Retrying, Working, H
<1>9. CASE ReleaseEffect(w)
  BY <1>0, <1>t, <1>n, <1>9
     DEF ReleaseEffect, Retried, Rests, Moved, Retrying, Working, H
<1> QED
  BY <1>1, <1>2, <1>3, <1>4, <1>5, <1>6, <1>7, <1>8, <1>9, LoopStepEffect DEF Effect

LEMMA ClearWayLoopStep ==
  ASSUME BalanceTyped, OrderInv, NEW w \in Loops, LoopStep(w)
  PROVE  ClearWay'
<1> USE LoopNames, NoneFacts
<1>0. Retrying /\ ClearWay /\ Ordered
  BY DEF OrderInv
<1>t. /\ pending.id \in Nat /\ heard \in Nat /\ next \in Nat \ {0}
      /\ \A v \in Loops : loop[v].event.id \in Nat
      /\ \A v \in Loops : loop[v].retry \in BOOLEAN /\ loop[v].failed \in BOOLEAN
      /\ inFlight \in {"balances", "health", "none"}
  BY TypedIds
<1>n. next' = next
  BY LoopStepEffect DEF RowKept
<1>1. CASE StartEffect(w)
  BY <1>0, <1>t, <1>n, <1>1
     DEF StartEffect, Moved, Retrying, Working, ClearWay, OwnEvent, B, H
<1>2. CASE RetryEffect(w)
  BY <1>0, <1>t, <1>n, <1>2
     DEF RetryEffect, Retried, Rests, Moved, Retrying, Working, ClearWay, OwnEvent,
         B, H
<1>3. CASE SuppressEffect(w)
  BY <1>0, <1>t, <1>n, <1>3
     DEF SuppressEffect, ToldEffect, Keeps, Rests, Moved, Retrying, Working,
         ClearWay, OwnEvent, B, H
<1>4. CASE PassEffect(w)
  BY <1>0, <1>t, <1>n, <1>4
     DEF PassEffect, Keeps, Moved, Retrying, Working, ClearWay, OwnEvent, B, H
<1>5. CASE DeliverEffect(w)
  BY <1>0, <1>t, <1>n, <1>5
     DEF DeliverEffect, Keeps, Moved, Retrying, Working, ClearWay, OwnEvent, B, H
<1>6. CASE FailureEffect(w)
  BY <1>0, <1>t, <1>n, <1>6
     DEF FailureEffect, Keeps, Retried, Rests, Moved, Retrying, Working, ClearWay,
         OwnEvent, B, H
<1>7. CASE RememberEffect(w)
  BY <1>0, <1>t, <1>n, <1>7
     DEF RememberEffect, ToldEffect, Keeps, Rests, Moved, Retrying, Working,
         ClearWay, OwnEvent, B, H
<1>8. CASE AckEffect(w)
  BY <1>0, <1>t, <1>n, <1>8
     DEF AckEffect, Keeps, Moved, Retrying, Working, ClearWay, OwnEvent, B, H
<1>9. CASE ReleaseEffect(w)
  BY <1>0, <1>t, <1>n, <1>9
     DEF ReleaseEffect, Retried, Rests, Moved, Retrying, Working, ClearWay,
         OwnEvent, B, H
<1> QED
  BY <1>1, <1>2, <1>3, <1>4, <1>5, <1>6, <1>7, <1>8, <1>9, LoopStepEffect DEF Effect

LEMMA OrderedLoopStep ==
  ASSUME BalanceTyped, OrderInv, NEW w \in Loops, LoopStep(w)
  PROVE  Ordered'
<1> USE LoopNames, NoneFacts
<1>0. Retrying /\ ClearWay /\ Ordered
  BY DEF OrderInv
<1>t. /\ pending.id \in Nat /\ heard \in Nat /\ next \in Nat \ {0}
      /\ \A v \in Loops : loop[v].event.id \in Nat
      /\ \A v \in Loops : loop[v].retry \in BOOLEAN /\ loop[v].failed \in BOOLEAN
      /\ inFlight \in {"balances", "health", "none"}
  BY TypedIds
<1>n. next' = next
  BY LoopStepEffect DEF RowKept
<1>1. CASE StartEffect(w)
  BY <1>0, <1>t, <1>n, <1>1
     DEF StartEffect, Moved, Retrying, Working, ClearWay, Ordered, OwnEvent, B, H
<1>2. CASE RetryEffect(w)
  BY <1>0, <1>t, <1>n, <1>2
     DEF RetryEffect, Retried, Rests, Moved, Retrying, Working, ClearWay, Ordered,
         OwnEvent, B, H
<1>3. CASE SuppressEffect(w)
  BY <1>0, <1>t, <1>n, <1>3
     DEF SuppressEffect, ToldEffect, Keeps, Rests, Moved, Retrying, Working,
         ClearWay, Ordered, OwnEvent, B, H
<1>4. CASE PassEffect(w)
  BY <1>0, <1>t, <1>n, <1>4
     DEF PassEffect, Keeps, Moved, Retrying, Working, ClearWay, Ordered, OwnEvent,
         B, H
<1>5. CASE DeliverEffect(w)
  BY <1>0, <1>t, <1>n, <1>5
     DEF DeliverEffect, Keeps, Moved, Retrying, Working, ClearWay, Ordered,
         OwnEvent, B, H
<1>6. CASE FailureEffect(w)
  BY <1>0, <1>t, <1>n, <1>6
     DEF FailureEffect, Keeps, Retried, Rests, Moved, Retrying, Working, ClearWay,
         Ordered, OwnEvent, B, H
<1>7. CASE RememberEffect(w)
  BY <1>0, <1>t, <1>n, <1>7
     DEF RememberEffect, ToldEffect, Keeps, Rests, Moved, Retrying, Working,
         ClearWay, Ordered, OwnEvent, B, H
<1>8. CASE AckEffect(w)
  BY <1>0, <1>t, <1>n, <1>8
     DEF AckEffect, Keeps, Moved, Retrying, Working, ClearWay, Ordered, OwnEvent, B,
         H
<1>9. CASE ReleaseEffect(w)
  BY <1>0, <1>t, <1>n, <1>9
     DEF ReleaseEffect, Retried, Rests, Moved, Retrying, Working, ClearWay, Ordered,
         OwnEvent, B, H
<1> QED
  BY <1>1, <1>2, <1>3, <1>4, <1>5, <1>6, <1>7, <1>8, <1>9, LoopStepEffect DEF Effect

(* The steps of the reading loop between its rounds of telling.            *)
ReadEffect ==
  \/ B.pc = "probe" /\ Keeps("balances", "save") /\ UNCHANGED <<pending, next, upRow>>
  \/ /\ B.pc = "save" /\ upRow'.suspended = upRow.suspended
     /\ Rests("balances") /\ UNCHANGED <<pending, next>>
  \/ /\ B.pc = "save" /\ next' = next + 1 /\ pending' = pending
     /\ \E e \in Event :
          /\ e.id = next /\ e.state = Transition(upRow')
          /\ Moved("balances", IF B.failed THEN "queue" ELSE "check", e, B.retry, B.failed,
                   B.version, B.creds)
  \/ /\ B.pc = "queue" /\ pending' = B.event
     /\ Rests("balances") /\ UNCHANGED <<next, upRow>>

LEMMA ReadingEffect ==
  ASSUME BalanceTyped, Probe \/ SaveReading \/ SaveRefused \/ SetPending
  PROVE  ReadEffect /\ UNCHANGED <<inFlight, last, told, heard, sending, foreign>>
<1> USE LoopNames
<1>0. LoopsTyped /\ Counted
  BY TypedParts
<1>u. UNCHANGED <<inFlight, last, told, heard, sending, foreign>>
  BY DEF Probe, SaveReading, SaveRefused, SetPending, admin, announced
<1>1. CASE Probe
  <2>1. Keeps("balances", "save")
    BY <1>0, <1>1, ProbeMoves
  <2> QED
    BY <1>1, <1>u, <2>1 DEF Probe, At, bounds, ReadEffect, B
<1>2. CASE SaveReading
  <2>1. /\ B.pc = "save" /\ pending' = pending /\ SaveBalance(B, FALSE)
    BY <1>2 DEF SaveReading, At, B
  <2>2. B.funds \in Funds
    BY <1>0 DEF LoopsTyped, Standing, B
  <2>3. upRow \in Row /\ next \in 1..(MaxTransitions + 1)
    BY <1>0 DEF Counted
  <2>4. /\ upRow' \in Row
        /\ Turned => next \in 1..MaxTransitions /\ next' = next + 1
        /\ ~Turned => next' = next
    BY <2>1, <2>2, <2>3, SavedFacts
  <2>5. CASE ~Turned
    <3>1. Rests("balances")
      BY <1>0, <1>2, <2>3, <2>5, SaveMoves
    <3> QED
      BY <1>u, <2>1, <2>4, <2>5, <3>1 DEF ReadEffect, Turned
  <2>6. CASE Turned
    <3> DEFINE e == NewEvent(upRow')
    <3>1. Moved("balances", IF B.failed THEN "queue" ELSE "check", e, B.retry, B.failed,
                B.version, B.creds)
      BY <1>0, <1>2, <2>3, <2>6, SaveMoves DEF B
    <3>2. e \in Event /\ e.id = next /\ e.state = Transition(upRow')
      BY <2>4, <2>6, NewEventFields
    <3> HIDE DEF e
    <3> QED
      BY <1>u, <2>1, <2>4, <2>6, <3>1, <3>2 DEF ReadEffect
  <2> QED
    BY <2>5, <2>6
<1>3. CASE SaveRefused
  <2>1. Rests("balances")
    BY <1>0, <1>3, StopRests DEF SaveRefused
  <2> QED
    BY <1>3, <1>u, <2>1 DEF SaveRefused, At, bounds, ReadEffect, B
<1>4. CASE SetPending
  <2>1. Rests("balances")
    BY <1>0, <1>4, StopRests DEF SetPending
  <2> QED
    BY <1>4, <1>u, <2>1 DEF SetPending, At, bounds, ReadEffect, B
<1> QED
  BY <1>1, <1>2, <1>3, <1>4

(* What the administrator and time do to the monitor's side.               *)
AdminEffect ==
  /\ UNCHANGED <<loop, pending, inFlight, heard>>
  /\ last'.state = last.state /\ (last'.fresh => last.fresh)
  /\ \/ upRow'.suspended = upRow.suspended /\ UNCHANGED <<sending, next, foreign, told>>
     \/ foreign' /\ next' = next + 1 /\ told' = told
     \/ sending # {} /\ UNCHANGED <<upRow, next, foreign>>

AdminStep ==
  \/ CooldownEnds \/ RefreshBalance \/ SaveRefresh \/ UpdateUpstream
  \/ \E s \in sending : SendDirectly(s) \/ SendFails(s)
  \/ UNCHANGED balanceVars

LEMMA AdministrationEffect ==
  ASSUME BalanceTyped, AdminStep
  PROVE  AdminEffect
<1>0. Administered /\ Counted /\ last \in [state : Transitions \cup {"none"}, fresh : BOOLEAN]
  BY TypedParts DEF Memory
<1>1. CASE CooldownEnds
  <2>1. last'.state = last.state /\ last.fresh
    BY <1>0, <1>1 DEF CooldownEnds
  <2> QED
    BY <1>1, <2>1 DEF CooldownEnds, admin, bounds, announced, AdminEffect
<1>2. CASE RefreshBalance
  BY <1>2 DEF RefreshBalance, announced, AdminEffect
<1>a. ASSUME Announce, Turned => next' = next + 1, ~Turned => next' = next, told' = told
      PROVE  \/ /\ upRow'.suspended = upRow.suspended
                /\ UNCHANGED <<sending, next, foreign, told>>
             \/ foreign' /\ next' = next + 1 /\ told' = told
  <2>1. CASE Turned
    BY <1>a, <2>1 DEF Announce, Turned
  <2>2. CASE ~Turned
    BY <1>a, <2>2 DEF Announce, Turned
  <2> QED
    BY <2>1, <2>2
<1>3. CASE SaveRefresh
  <2>1. UNCHANGED <<loop, pending, inFlight, heard, last, told>>
    BY <1>3 DEF SaveRefresh
  <2>2. CASE SaveBalance(manual, TRUE) /\ Announce
    <3>1. manual.funds \in Funds
      BY <1>0 DEF Administered
    <3>2. (Turned => next' = next + 1) /\ (~Turned => next' = next)
      BY <1>0, <2>2, <3>1, SavedFacts DEF Counted
    <3> QED
      BY <1>a, <2>1, <2>2, <3>2 DEF AdminEffect
  <2>3. CASE UNCHANGED <<upRow, next, sending, foreign>>
    BY <2>1, <2>3 DEF AdminEffect
  <2> QED
    BY <1>3, <2>2, <2>3 DEF SaveRefresh
<1>4. CASE UpdateUpstream
  <2>1. UNCHANGED <<loop, pending, inFlight, heard, last, told>> /\ Announce
    BY <1>4 DEF UpdateUpstream
  <2>2. (Turned => next' = next + 1) /\ (~Turned => next' = next)
    BY <1>0, <1>4, UpdateFacts DEF Counted
  <2> QED
    BY <1>a, <2>1, <2>2 DEF AdminEffect
<1>5. ASSUME NEW s \in sending, SendDirectly(s) \/ SendFails(s) PROVE AdminEffect
  BY <1>5 DEF SendDirectly, SendFails, bounds, announced, AdminEffect
<1>6. CASE UNCHANGED balanceVars
  BY <1>6 DEF balanceVars, AdminEffect
<1> QED
  BY <1>1, <1>2, <1>3, <1>4, <1>5, <1>6 DEF AdminStep

LEMMA BalanceSteps ==
  ASSUME [BalanceNext]_balanceVars
  PROVE  \/ \E w \in Loops : LoopStep(w)
         \/ Probe \/ SaveReading \/ SaveRefused \/ SetPending
         \/ AdminStep
BY DEF BalanceNext, AdminStep

LEMMA OrderReading ==
  ASSUME BalanceTyped, OrderInv, ReadEffect, inFlight' = inFlight, heard' = heard
  PROVE  OrderInv'
<1> USE LoopNames, NoneFacts
<1>0. Retrying /\ ClearWay /\ Ordered
  BY DEF OrderInv
<1>t. /\ pending.id \in Nat /\ heard \in Nat /\ next \in Nat \ {0}
      /\ \A v \in Loops : loop[v].event.id \in Nat
      /\ \A v \in Loops : loop[v].retry \in BOOLEAN /\ loop[v].failed \in BOOLEAN
      /\ inFlight \in {"balances", "health", "none"}
  BY TypedIds
<1>1. Retrying'
  BY <1>0, <1>t
     DEF ReadEffect, Keeps, Rests, Moved, Retrying, Working, B, H
<1>2. ClearWay'
  BY <1>0, <1>t
     DEF ReadEffect, Keeps, Rests, Moved, Retrying, Working, ClearWay, OwnEvent, B, H
<1>3. Ordered'
  BY <1>0, <1>t
     DEF ReadEffect, Keeps, Rests, Moved, Retrying, Working, ClearWay, Ordered,
         OwnEvent, B, H
<1> QED
  BY <1>1, <1>2, <1>3 DEF OrderInv

LEMMA OrderAdministration ==
  ASSUME BalanceTyped, OrderInv, AdminEffect
  PROVE  OrderInv'
<1>1. next' = next \/ next' = next + 1
  BY DEF AdminEffect
<1>t. /\ pending.id \in Nat /\ heard \in Nat /\ next \in Nat \ {0}
      /\ \A v \in Loops : loop[v].event.id \in Nat
  BY TypedIds
<1>2. Retrying' /\ ClearWay'
  BY DEF AdminEffect, OrderInv, Retrying, ClearWay, OwnEvent, B, H
<1>3. Ordered'
  BY <1>1, <1>t DEF AdminEffect, OrderInv, Ordered, OwnEvent, B, H
<1> QED
  BY <1>2, <1>3 DEF OrderInv

LEMMA OrderStep ==
  ASSUME BalanceTyped, OrderInv, [BalanceNext]_balanceVars
  PROVE  OrderInv'
<1>1. ASSUME NEW w \in Loops, LoopStep(w) PROVE OrderInv'
  BY <1>1, RetryingLoopStep, ClearWayLoopStep, OrderedLoopStep DEF OrderInv
<1>2. CASE Probe \/ SaveReading \/ SaveRefused \/ SetPending
  BY <1>2, ReadingEffect, OrderReading
<1>3. CASE AdminStep
  BY <1>3, AdministrationEffect, OrderAdministration
<1> QED
  BY <1>1, <1>2, <1>3, BalanceSteps

LEMMA OrderInit == BalanceInit => OrderInv
<1> SUFFICES ASSUME BalanceInit PROVE OrderInv
  OBVIOUS
<1>1. /\ \A w \in Loops : loop[w] = Idle
      /\ pending = None /\ inFlight = "none" /\ next = 1 /\ heard = 0
  BY DEF BalanceInit
<1>2. B = Idle /\ H = Idle
  BY <1>1, LoopNames DEF B, H
<1>3. "none" \notin Loops
  BY LoopNames
<1>4. Retrying
  BY <1>1, <1>2, <1>3, IdleFacts DEF Retrying, Working
<1>5. ClearWay
  BY <1>1, <1>2, IdleFacts DEF ClearWay, OwnEvent
<1>6. Ordered
  BY <1>1, <1>2, IdleFacts, NoneFacts DEF Ordered, OwnEvent
<1> QED
  BY <1>4, <1>5, <1>6 DEF OrderInv

(* A transition the monitor delivers is never older than the last one.     *)
LEMMA HeardInOrder ==
  ASSUME BalanceTyped, OrderInv, [BalanceNext]_balanceVars
  PROVE  heard' >= heard
<1>t. heard \in Nat /\ \A v \in Loops : loop[v].event.id \in Nat
  BY TypedIds
<1>1. ASSUME NEW w \in Loops, LoopStep(w) PROVE heard' >= heard
  <2>1. CASE DeliverEffect(w)
    BY <1>t, <2>1, LoopNames
       DEF DeliverEffect, OrderInv, Retrying, Ordered, OwnEvent, Working, B, H
  <2>2. CASE ~DeliverEffect(w)
    <3>1. heard' = heard
      BY <1>1, <2>2, LoopStepEffect
         DEF Effect, StartEffect, RetryEffect, SuppressEffect, PassEffect, FailureEffect,
             RememberEffect, AckEffect, ReleaseEffect, ToldEffect
    <3> QED
      BY <1>t, <3>1
  <2> QED
    BY <2>1, <2>2
<1>2. CASE Probe \/ SaveReading \/ SaveRefused \/ SetPending
  BY <1>2, <1>t, ReadingEffect
<1>3. CASE AdminStep
  BY <1>3, <1>t, AdministrationEffect DEF AdminEffect
<1> QED
  BY <1>1, <1>2, <1>3, BalanceSteps

-----------------------------------------------------------------------------
(* Transitions are not lost, as long as the monitor makes all of them: the *)
(* newest waits behind nothing but itself, everyone who carries it carries *)
(* the state of the row, and a delivery that has passed the outbox, or was *)
(* suppressed for one that has, means that this state was told last.       *)

KnownPending ==
  /\ pending # None /\ pending.id = next - 1 => pending.state = Transition(upRow)
  /\ pending # None => pending.id = next - 1 \/ (OwnEvent /\ B.pc = "queue")

KnownEvents ==
  /\ \A w \in Loops : loop[w].event # None /\ loop[w].event.id = next - 1 =>
       loop[w].event.state = Transition(upRow)
  /\ OwnEvent => B.event.id = next - 1

KnownTold ==
  /\ \A w \in Loops : loop[w].pc = "remember" => told = loop[w].event
  /\ \A w \in Loops : loop[w].pc \in {"remember", "ack", "release"}
                        /\ loop[w].event.id = next - 1 => told.state = Transition(upRow)

KnownLast ==
  /\ (\A w \in Loops : loop[w].pc # "remember") => last.state \in {"none", told.state}
  /\ last.state = "none" => ~last.fresh

Known == foreign \/ (sending = {} /\ KnownPending /\ KnownEvents /\ KnownTold /\ KnownLast)

NewestInv == BalanceTyped /\ OrderInv /\ Known /\ NewestIsKept

LEMMA KnownPendingLoopStep ==
  ASSUME NewestInv, ~foreign, NEW w \in Loops, LoopStep(w)
  PROVE  KnownPending'
<1> USE LoopNames, NoneFacts
<1>0. /\ Retrying /\ ClearWay /\ Ordered
      /\ KnownPending /\ KnownEvents /\ KnownTold /\ KnownLast /\ NewestIsKept
  BY DEF NewestInv, OrderInv, Known
<1>t. /\ pending.id \in Nat /\ heard \in Nat /\ next \in Nat \ {0}
      /\ \A v \in Loops : loop[v].event.id \in Nat
      /\ \A v \in Loops : loop[v].retry \in BOOLEAN /\ loop[v].failed \in BOOLEAN
      /\ inFlight \in {"balances", "health", "none"}
  BY TypedIds DEF NewestInv
<1>n. next' = next /\ foreign' = foreign /\ Transition(upRow)' = Transition(upRow)
  BY LoopStepEffect DEF NewestInv, RowKept
<1>k. told.state \in Transitions /\ \A v \in Loops : loop[v].event.state \in Transitions
  BY TypedParts, LoopNames DEF NewestInv, Remembered, LoopsTyped, Standing, Event
<1>1. CASE StartEffect(w)
  BY <1>0, <1>t, <1>n, <1>k, <1>1
     DEF StartEffect, Moved, Retrying, ClearWay, Ordered, Working, OwnEvent, B, H,
         KnownPending, KnownEvents, KnownTold, KnownLast
<1>2. CASE RetryEffect(w)
  BY <1>0, <1>t, <1>n, <1>k, <1>2
     DEF RetryEffect, Retried, Rests, Moved, Retrying, ClearWay, Ordered, Working,
         OwnEvent, B, H, KnownPending, KnownEvents, KnownTold, KnownLast
<1>3. CASE SuppressEffect(w)
  BY <1>0, <1>t, <1>n, <1>k, <1>3
     DEF SuppressEffect, ToldEffect, Keeps, Rests, Moved, Retrying, ClearWay, Ordered,
         Working, OwnEvent, B, H, KnownPending, KnownEvents, KnownTold, KnownLast
<1>4. CASE PassEffect(w)
  BY <1>0, <1>t, <1>n, <1>k, <1>4
     DEF PassEffect, Keeps, Moved, Retrying, ClearWay, Ordered, Working, OwnEvent, B, H,
         KnownPending, KnownEvents, KnownTold, KnownLast
<1>5. CASE DeliverEffect(w)
  BY <1>0, <1>t, <1>n, <1>k, <1>5
     DEF DeliverEffect, Keeps, Moved, Retrying, ClearWay, Ordered, Working, OwnEvent, B,
         H, KnownPending, KnownEvents, KnownTold, KnownLast
<1>6. CASE FailureEffect(w)
  BY <1>0, <1>t, <1>n, <1>k, <1>6
     DEF FailureEffect, Keeps, Retried, Rests, Moved, Retrying, ClearWay, Ordered,
         Working, OwnEvent, B, H, KnownPending, KnownEvents, KnownTold, KnownLast
<1>7. CASE RememberEffect(w)
  BY <1>0, <1>t, <1>n, <1>k, <1>7
     DEF RememberEffect, ToldEffect, Keeps, Rests, Moved, Retrying, ClearWay, Ordered,
         Working, OwnEvent, B, H, KnownPending, KnownEvents, KnownTold, KnownLast
<1>8. CASE AckEffect(w)
  BY <1>0, <1>t, <1>n, <1>k, <1>8
     DEF AckEffect, Keeps, Moved, Retrying, ClearWay, Ordered, Working, OwnEvent, B, H,
         KnownPending, KnownEvents, KnownTold, KnownLast
<1>9. CASE ReleaseEffect(w)
  BY <1>0, <1>t, <1>n, <1>k, <1>9
     DEF ReleaseEffect, Retried, Rests, Moved, Retrying, ClearWay, Ordered, Working,
         OwnEvent, B, H, KnownPending, KnownEvents, KnownTold, KnownLast
<1> QED
  BY <1>1, <1>2, <1>3, <1>4, <1>5, <1>6, <1>7, <1>8, <1>9, LoopStepEffect
     DEF Effect, NewestInv

LEMMA KnownEventsLoopStep ==
  ASSUME NewestInv, ~foreign, NEW w \in Loops, LoopStep(w)
  PROVE  KnownEvents'
<1> USE LoopNames, NoneFacts
<1>0. /\ Retrying /\ ClearWay /\ Ordered
      /\ KnownPending /\ KnownEvents /\ KnownTold /\ KnownLast /\ NewestIsKept
  BY DEF NewestInv, OrderInv, Known
<1>t. /\ pending.id \in Nat /\ heard \in Nat /\ next \in Nat \ {0}
      /\ \A v \in Loops : loop[v].event.id \in Nat
      /\ \A v \in Loops : loop[v].retry \in BOOLEAN /\ loop[v].failed \in BOOLEAN
      /\ inFlight \in {"balances", "health", "none"}
  BY TypedIds DEF NewestInv
<1>n. next' = next /\ foreign' = foreign /\ Transition(upRow)' = Transition(upRow)
  BY LoopStepEffect DEF NewestInv, RowKept
<1>k. told.state \in Transitions /\ \A v \in Loops : loop[v].event.state \in Transitions
  BY TypedParts, LoopNames DEF NewestInv, Remembered, LoopsTyped, Standing, Event
<1>1. CASE StartEffect(w)
  BY <1>0, <1>t, <1>n, <1>k, <1>1
     DEF StartEffect, Moved, Retrying, ClearWay, Ordered, Working, OwnEvent, B, H,
         KnownPending, KnownEvents, KnownTold, KnownLast
<1>2. CASE RetryEffect(w)
  BY <1>0, <1>t, <1>n, <1>k, <1>2
     DEF RetryEffect, Retried, Rests, Moved, Retrying, ClearWay, Ordered, Working,
         OwnEvent, B, H, KnownPending, KnownEvents, KnownTold, KnownLast
<1>3. CASE SuppressEffect(w)
  BY <1>0, <1>t, <1>n, <1>k, <1>3
     DEF SuppressEffect, ToldEffect, Keeps, Rests, Moved, Retrying, ClearWay, Ordered,
         Working, OwnEvent, B, H, KnownPending, KnownEvents, KnownTold, KnownLast
<1>4. CASE PassEffect(w)
  BY <1>0, <1>t, <1>n, <1>k, <1>4
     DEF PassEffect, Keeps, Moved, Retrying, ClearWay, Ordered, Working, OwnEvent, B, H,
         KnownPending, KnownEvents, KnownTold, KnownLast
<1>5. CASE DeliverEffect(w)
  BY <1>0, <1>t, <1>n, <1>k, <1>5
     DEF DeliverEffect, Keeps, Moved, Retrying, ClearWay, Ordered, Working, OwnEvent, B,
         H, KnownPending, KnownEvents, KnownTold, KnownLast
<1>6. CASE FailureEffect(w)
  BY <1>0, <1>t, <1>n, <1>k, <1>6
     DEF FailureEffect, Keeps, Retried, Rests, Moved, Retrying, ClearWay, Ordered,
         Working, OwnEvent, B, H, KnownPending, KnownEvents, KnownTold, KnownLast
<1>7. CASE RememberEffect(w)
  BY <1>0, <1>t, <1>n, <1>k, <1>7
     DEF RememberEffect, ToldEffect, Keeps, Rests, Moved, Retrying, ClearWay, Ordered,
         Working, OwnEvent, B, H, KnownPending, KnownEvents, KnownTold, KnownLast
<1>8. CASE AckEffect(w)
  BY <1>0, <1>t, <1>n, <1>k, <1>8
     DEF AckEffect, Keeps, Moved, Retrying, ClearWay, Ordered, Working, OwnEvent, B, H,
         KnownPending, KnownEvents, KnownTold, KnownLast
<1>9. CASE ReleaseEffect(w)
  BY <1>0, <1>t, <1>n, <1>k, <1>9
     DEF ReleaseEffect, Retried, Rests, Moved, Retrying, ClearWay, Ordered, Working,
         OwnEvent, B, H, KnownPending, KnownEvents, KnownTold, KnownLast
<1> QED
  BY <1>1, <1>2, <1>3, <1>4, <1>5, <1>6, <1>7, <1>8, <1>9, LoopStepEffect
     DEF Effect, NewestInv

LEMMA KnownToldLoopStep ==
  ASSUME NewestInv, ~foreign, NEW w \in Loops, LoopStep(w)
  PROVE  KnownTold'
<1> USE LoopNames, NoneFacts
<1>0. /\ Retrying /\ ClearWay /\ Ordered
      /\ KnownPending /\ KnownEvents /\ KnownTold /\ KnownLast /\ NewestIsKept
  BY DEF NewestInv, OrderInv, Known
<1>t. /\ pending.id \in Nat /\ heard \in Nat /\ next \in Nat \ {0}
      /\ \A v \in Loops : loop[v].event.id \in Nat
      /\ \A v \in Loops : loop[v].retry \in BOOLEAN /\ loop[v].failed \in BOOLEAN
      /\ inFlight \in {"balances", "health", "none"}
  BY TypedIds DEF NewestInv
<1>n. next' = next /\ foreign' = foreign /\ Transition(upRow)' = Transition(upRow)
  BY LoopStepEffect DEF NewestInv, RowKept
<1>k. told.state \in Transitions /\ \A v \in Loops : loop[v].event.state \in Transitions
  BY TypedParts, LoopNames DEF NewestInv, Remembered, LoopsTyped, Standing, Event
<1>1. CASE StartEffect(w)
  BY <1>0, <1>t, <1>n, <1>k, <1>1
     DEF StartEffect, Moved, Retrying, ClearWay, Ordered, Working, OwnEvent, B, H,
         KnownPending, KnownEvents, KnownTold, KnownLast
<1>2. CASE RetryEffect(w)
  BY <1>0, <1>t, <1>n, <1>k, <1>2
     DEF RetryEffect, Retried, Rests, Moved, Retrying, ClearWay, Ordered, Working,
         OwnEvent, B, H, KnownPending, KnownEvents, KnownTold, KnownLast
<1>3. CASE SuppressEffect(w)
  BY <1>0, <1>t, <1>n, <1>k, <1>3
     DEF SuppressEffect, ToldEffect, Keeps, Rests, Moved, Retrying, ClearWay, Ordered,
         Working, OwnEvent, B, H, KnownPending, KnownEvents, KnownTold, KnownLast
<1>4. CASE PassEffect(w)
  BY <1>0, <1>t, <1>n, <1>k, <1>4
     DEF PassEffect, Keeps, Moved, Retrying, ClearWay, Ordered, Working, OwnEvent, B, H,
         KnownPending, KnownEvents, KnownTold, KnownLast
<1>5. CASE DeliverEffect(w)
  BY <1>0, <1>t, <1>n, <1>k, <1>5
     DEF DeliverEffect, Keeps, Moved, Retrying, ClearWay, Ordered, Working, OwnEvent, B,
         H, KnownPending, KnownEvents, KnownTold, KnownLast
<1>6. CASE FailureEffect(w)
  BY <1>0, <1>t, <1>n, <1>k, <1>6
     DEF FailureEffect, Keeps, Retried, Rests, Moved, Retrying, ClearWay, Ordered,
         Working, OwnEvent, B, H, KnownPending, KnownEvents, KnownTold, KnownLast
<1>7. CASE RememberEffect(w)
  BY <1>0, <1>t, <1>n, <1>k, <1>7
     DEF RememberEffect, ToldEffect, Keeps, Rests, Moved, Retrying, ClearWay, Ordered,
         Working, OwnEvent, B, H, KnownPending, KnownEvents, KnownTold, KnownLast
<1>8. CASE AckEffect(w)
  BY <1>0, <1>t, <1>n, <1>k, <1>8
     DEF AckEffect, Keeps, Moved, Retrying, ClearWay, Ordered, Working, OwnEvent, B, H,
         KnownPending, KnownEvents, KnownTold, KnownLast
<1>9. CASE ReleaseEffect(w)
  BY <1>0, <1>t, <1>n, <1>k, <1>9
     DEF ReleaseEffect, Retried, Rests, Moved, Retrying, ClearWay, Ordered, Working,
         OwnEvent, B, H, KnownPending, KnownEvents, KnownTold, KnownLast
<1> QED
  BY <1>1, <1>2, <1>3, <1>4, <1>5, <1>6, <1>7, <1>8, <1>9, LoopStepEffect
     DEF Effect, NewestInv

LEMMA KnownLastLoopStep ==
  ASSUME NewestInv, ~foreign, NEW w \in Loops, LoopStep(w)
  PROVE  KnownLast'
<1> USE LoopNames, NoneFacts
<1>0. /\ Retrying /\ ClearWay /\ Ordered
      /\ KnownPending /\ KnownEvents /\ KnownTold /\ KnownLast /\ NewestIsKept
  BY DEF NewestInv, OrderInv, Known
<1>t. /\ pending.id \in Nat /\ heard \in Nat /\ next \in Nat \ {0}
      /\ \A v \in Loops : loop[v].event.id \in Nat
      /\ \A v \in Loops : loop[v].retry \in BOOLEAN /\ loop[v].failed \in BOOLEAN
      /\ inFlight \in {"balances", "health", "none"}
  BY TypedIds DEF NewestInv
<1>n. next' = next /\ foreign' = foreign /\ Transition(upRow)' = Transition(upRow)
  BY LoopStepEffect DEF NewestInv, RowKept
<1>k. told.state \in Transitions /\ \A v \in Loops : loop[v].event.state \in Transitions
  BY TypedParts, LoopNames DEF NewestInv, Remembered, LoopsTyped, Standing, Event
<1>1. CASE StartEffect(w)
  BY <1>0, <1>t, <1>n, <1>k, <1>1
     DEF StartEffect, Moved, Retrying, ClearWay, Ordered, Working, OwnEvent, B, H,
         KnownPending, KnownEvents, KnownTold, KnownLast
<1>2. CASE RetryEffect(w)
  BY <1>0, <1>t, <1>n, <1>k, <1>2
     DEF RetryEffect, Retried, Rests, Moved, Retrying, ClearWay, Ordered, Working,
         OwnEvent, B, H, KnownPending, KnownEvents, KnownTold, KnownLast
<1>3. CASE SuppressEffect(w)
  BY <1>0, <1>t, <1>n, <1>k, <1>3
     DEF SuppressEffect, ToldEffect, Keeps, Rests, Moved, Retrying, ClearWay, Ordered,
         Working, OwnEvent, B, H, KnownPending, KnownEvents, KnownTold, KnownLast
<1>4. CASE PassEffect(w)
  BY <1>0, <1>t, <1>n, <1>k, <1>4
     DEF PassEffect, Keeps, Moved, Retrying, ClearWay, Ordered, Working, OwnEvent, B, H,
         KnownPending, KnownEvents, KnownTold, KnownLast
<1>5. CASE DeliverEffect(w)
  BY <1>0, <1>t, <1>n, <1>k, <1>5
     DEF DeliverEffect, Keeps, Moved, Retrying, ClearWay, Ordered, Working, OwnEvent, B,
         H, KnownPending, KnownEvents, KnownTold, KnownLast
<1>6. CASE FailureEffect(w)
  BY <1>0, <1>t, <1>n, <1>k, <1>6
     DEF FailureEffect, Keeps, Retried, Rests, Moved, Retrying, ClearWay, Ordered,
         Working, OwnEvent, B, H, KnownPending, KnownEvents, KnownTold, KnownLast
<1>7. CASE RememberEffect(w)
  <2>1. told = loop[w].event /\ told' = told /\ last'.state = loop[w].event.state
    BY <1>0, <1>7 DEF RememberEffect, ToldEffect, KnownTold
  <2>2. told.state # "none"
    BY <1>k DEF Transitions
  <2> QED
    BY <2>1, <2>2 DEF KnownLast
<1>8. CASE AckEffect(w)
  BY <1>0, <1>t, <1>n, <1>k, <1>8
     DEF AckEffect, Keeps, Moved, Retrying, ClearWay, Ordered, Working, OwnEvent, B, H,
         KnownPending, KnownEvents, KnownTold, KnownLast
<1>9. CASE ReleaseEffect(w)
  BY <1>0, <1>t, <1>n, <1>k, <1>9
     DEF ReleaseEffect, Retried, Rests, Moved, Retrying, ClearWay, Ordered, Working,
         OwnEvent, B, H, KnownPending, KnownEvents, KnownTold, KnownLast
<1> QED
  BY <1>1, <1>2, <1>3, <1>4, <1>5, <1>6, <1>7, <1>8, <1>9, LoopStepEffect
     DEF Effect, NewestInv

LEMMA NewestLoopStep ==
  ASSUME NewestInv, ~foreign, NEW w \in Loops, LoopStep(w)
  PROVE  NewestIsKept'
<1> USE LoopNames, NoneFacts
<1>0. /\ Retrying /\ ClearWay /\ Ordered
      /\ KnownPending /\ KnownEvents /\ KnownTold /\ KnownLast /\ NewestIsKept
  BY DEF NewestInv, OrderInv, Known
<1>t. /\ pending.id \in Nat /\ heard \in Nat /\ next \in Nat \ {0}
      /\ \A v \in Loops : loop[v].event.id \in Nat
      /\ \A v \in Loops : loop[v].retry \in BOOLEAN /\ loop[v].failed \in BOOLEAN
      /\ inFlight \in {"balances", "health", "none"}
  BY TypedIds DEF NewestInv
<1>n. next' = next /\ foreign' = foreign /\ Transition(upRow)' = Transition(upRow)
  BY LoopStepEffect DEF NewestInv, RowKept
<1>k. told.state \in Transitions /\ \A v \in Loops : loop[v].event.state \in Transitions
  BY TypedParts, LoopNames DEF NewestInv, Remembered, LoopsTyped, Standing, Event
<1>1. CASE StartEffect(w)
  BY <1>0, <1>t, <1>n, <1>k, <1>1
     DEF StartEffect, Moved, Retrying, ClearWay, Ordered, Working, OwnEvent, B, H,
         KnownPending, KnownEvents, KnownTold, KnownLast, NewestIsKept
<1>2. CASE RetryEffect(w)
  BY <1>0, <1>t, <1>n, <1>k, <1>2
     DEF RetryEffect, Retried, Rests, Moved, Retrying, ClearWay, Ordered, Working,
         OwnEvent, B, H, KnownPending, KnownEvents, KnownTold, KnownLast, NewestIsKept
<1>3. CASE SuppressEffect(w)
  BY <1>0, <1>t, <1>n, <1>k, <1>3
     DEF SuppressEffect, ToldEffect, Keeps, Rests, Moved, Retrying, ClearWay, Ordered,
         Working, OwnEvent, B, H, KnownPending, KnownEvents, KnownTold, KnownLast,
         NewestIsKept
<1>4. CASE PassEffect(w)
  BY <1>0, <1>t, <1>n, <1>k, <1>4
     DEF PassEffect, Keeps, Moved, Retrying, ClearWay, Ordered, Working, OwnEvent, B, H,
         KnownPending, KnownEvents, KnownTold, KnownLast, NewestIsKept
<1>5. CASE DeliverEffect(w)
  BY <1>0, <1>t, <1>n, <1>k, <1>5
     DEF DeliverEffect, Keeps, Moved, Retrying, ClearWay, Ordered, Working, OwnEvent, B,
         H, KnownPending, KnownEvents, KnownTold, KnownLast, NewestIsKept
<1>6. CASE FailureEffect(w)
  BY <1>0, <1>t, <1>n, <1>k, <1>6
     DEF FailureEffect, Keeps, Retried, Rests, Moved, Retrying, ClearWay, Ordered,
         Working, OwnEvent, B, H, KnownPending, KnownEvents, KnownTold, KnownLast,
         NewestIsKept
<1>7. CASE RememberEffect(w)
  BY <1>0, <1>t, <1>n, <1>k, <1>7
     DEF RememberEffect, ToldEffect, Keeps, Rests, Moved, Retrying, ClearWay, Ordered,
         Working, OwnEvent, B, H, KnownPending, KnownEvents, KnownTold, KnownLast,
         NewestIsKept
<1>8. CASE AckEffect(w)
  BY <1>0, <1>t, <1>n, <1>k, <1>8
     DEF AckEffect, Keeps, Moved, Retrying, ClearWay, Ordered, Working, OwnEvent, B, H,
         KnownPending, KnownEvents, KnownTold, KnownLast, NewestIsKept
<1>9. CASE ReleaseEffect(w)
  BY <1>0, <1>t, <1>n, <1>k, <1>9
     DEF ReleaseEffect, Retried, Rests, Moved, Retrying, ClearWay, Ordered, Working,
         OwnEvent, B, H, KnownPending, KnownEvents, KnownTold, KnownLast, NewestIsKept
<1> QED
  BY <1>1, <1>2, <1>3, <1>4, <1>5, <1>6, <1>7, <1>8, <1>9, LoopStepEffect
     DEF Effect, NewestInv

LEMMA NewestLoops ==
  ASSUME NewestInv, NEW w \in Loops, LoopStep(w)
  PROVE  Known' /\ NewestIsKept'
<1>1. foreign' = foreign /\ sending' = sending
  BY LoopStepEffect DEF NewestInv, RowKept
<1>2. CASE foreign
  BY <1>1, <1>2 DEF Known, NewestIsKept
<1>3. CASE ~foreign
  <2>1. sending = {}
    BY <1>3 DEF NewestInv, Known
  <2> QED
    BY <1>1, <1>3, <2>1, KnownPendingLoopStep, KnownEventsLoopStep, KnownToldLoopStep,
       KnownLastLoopStep, NewestLoopStep DEF Known
<1> QED
  BY <1>2, <1>3

LEMMA NewestReading ==
  ASSUME NewestInv, Probe \/ SaveReading \/ SaveRefused \/ SetPending
  PROVE  Known' /\ NewestIsKept'
<1> USE LoopNames, NoneFacts
<1>1. ReadEffect /\ UNCHANGED <<inFlight, last, told, heard, sending, foreign>>
  BY ReadingEffect DEF NewestInv
<1>2. CASE foreign
  BY <1>1, <1>2 DEF Known, NewestIsKept
<1>3. CASE ~foreign
  <2>0. /\ Retrying /\ ClearWay /\ Ordered /\ sending = {}
        /\ KnownPending /\ KnownEvents /\ KnownTold /\ KnownLast /\ NewestIsKept
    BY <1>3 DEF NewestInv, OrderInv, Known
  <2>t. /\ pending.id \in Nat /\ heard \in Nat /\ next \in Nat \ {0}
        /\ \A v \in Loops : loop[v].event.id \in Nat
        /\ \A v \in Loops : loop[v].retry \in BOOLEAN /\ loop[v].failed \in BOOLEAN
        /\ inFlight \in {"balances", "health", "none"}
    BY TypedIds DEF NewestInv
  <2>s. upRow'.suspended = upRow.suspended => Transition(upRow)' = Transition(upRow)
    BY DEF Transition
  <2>p. KnownPending'
    BY <1>1, <2>0, <2>t, <2>s
       DEF ReadEffect, Keeps, Rests, Moved, Retrying, ClearWay, Ordered, Working, OwnEvent,
           B, H, KnownPending, KnownEvents
  <2>e. KnownEvents'
    BY <1>1, <2>0, <2>t, <2>s
       DEF ReadEffect, Keeps, Rests, Moved, Retrying, ClearWay, Ordered, Working, OwnEvent,
           B, H, KnownPending, KnownEvents
  <2>o. KnownTold'
    BY <1>1, <2>0, <2>t, <2>s
       DEF ReadEffect, Keeps, Rests, Moved, Retrying, ClearWay, Ordered, Working, OwnEvent,
           B, H, KnownPending, KnownEvents, KnownTold
  <2>l. KnownLast'
    BY <1>1, <2>0 DEF ReadEffect, Keeps, Rests, Moved, B, KnownLast
  <2>n. NewestIsKept'
    BY <1>1, <2>0, <2>t, <2>s
       DEF ReadEffect, Keeps, Rests, Moved, Retrying, ClearWay, Ordered, Working, OwnEvent,
           B, H, KnownPending, KnownEvents, NewestIsKept
  <2> QED
    BY <1>1, <2>0, <2>p, <2>e, <2>o, <2>l, <2>n DEF Known
<1> QED
  BY <1>2, <1>3

LEMMA NewestAdministration ==
  ASSUME NewestInv, AdminStep
  PROVE  Known' /\ NewestIsKept'
<1>1. AdminEffect
  BY AdministrationEffect DEF NewestInv
<1>2. CASE foreign'
  BY <1>2 DEF Known, NewestIsKept
<1>3. CASE ~foreign'
  <2>1. ~foreign
    BY <1>1, <1>3 DEF AdminEffect, AdminStep, CooldownEnds, RefreshBalance, SaveRefresh,
                      UpdateUpstream, Announce, SendDirectly, SendFails, announced,
                      balanceVars
  <2>2. sending = {} /\ KnownPending /\ KnownEvents /\ KnownTold /\ KnownLast
    BY <2>1 DEF NewestInv, Known
  <2>3. /\ UNCHANGED <<loop, pending, inFlight, heard, sending, next, foreign, told>>
        /\ last'.state = last.state /\ (last'.fresh => last.fresh)
        /\ upRow'.suspended = upRow.suspended
    BY <1>1, <1>3, <2>2 DEF AdminEffect
  <2>4. Transition(upRow)' = Transition(upRow)
    BY <2>3 DEF Transition
  <2>5. KnownPending' /\ KnownEvents' /\ KnownTold'
    BY <2>2, <2>3, <2>4 DEF KnownPending, KnownEvents, KnownTold, OwnEvent, B
  <2>6. KnownLast'
    BY <2>2, <2>3 DEF KnownLast
  <2>7. NewestIsKept'
    BY <2>3, <2>4 DEF NewestInv, NewestIsKept
  <2> QED
    BY <2>2, <2>3, <2>5, <2>6, <2>7 DEF Known
<1> QED
  BY <1>2, <1>3

LEMMA NewestInit == BalanceInit => NewestInv
<1> SUFFICES ASSUME BalanceInit PROVE NewestInv
  OBVIOUS
<1>1. /\ \A w \in Loops : loop[w] = Idle
      /\ pending = None /\ sending = {} /\ next = 1 /\ told = None
      /\ last.state = "none" /\ ~last.fresh /\ ~upRow.suspended
  BY DEF BalanceInit
<1>2. B = Idle /\ "none" \notin Loops
  BY <1>1, LoopNames DEF B
<1>3. Transition(upRow) = "resumed"
  BY <1>1 DEF Transition
<1>4. KnownPending /\ KnownEvents
  BY <1>1, <1>2, IdleFacts DEF KnownPending, KnownEvents, OwnEvent
<1>5. KnownTold /\ KnownLast
  BY <1>1, IdleFacts DEF KnownTold, KnownLast
<1>6. NewestIsKept
  BY <1>1, <1>3, NoneFacts DEF NewestIsKept
<1> QED
  BY <1>1, <1>4, <1>5, <1>6, BalanceTypedInit, OrderInit DEF Known, NewestInv

(* The newest transition of the row is on its way or was told last, as     *)
(* long as the monitor makes all of them, and what the monitor tells it    *)
(* tells in order: whatever deliveries fail, are suppressed or overtaken,  *)
(* and however the two loops take turns with the pending one.              *)
THEOREM NoTransitionIsLost == BalanceSpec => TransitionsAreKept
<1>1. NewestInv /\ [BalanceNext]_balanceVars => NewestInv'
  <2> SUFFICES ASSUME NewestInv, [BalanceNext]_balanceVars PROVE NewestInv'
    OBVIOUS
  <2>1. BalanceTyped' /\ OrderInv'
    BY BalanceTypedStep, OrderStep DEF NewestInv
  <2>2. Known' /\ NewestIsKept'
    BY NewestLoops, NewestReading, NewestAdministration, BalanceSteps
  <2> QED
    BY <2>1, <2>2 DEF NewestInv
<1>2. NewestInv /\ [BalanceNext]_balanceVars => [heard' >= heard]_balanceVars
  BY HeardInOrder DEF NewestInv
<1>3. NewestInv => NewestIsKept
  BY DEF NewestInv
<1> QED
  BY <1>1, <1>2, <1>3, NewestInit, PTL DEF BalanceSpec, TransitionsAreKept, ToldInOrder
=============================================================================
