----------------------- MODULE NotificationIncidents ------------------------
(***************************************************************************)
(* One incident from observation to notification, along the two paths the  *)
(* code has for it.                                                        *)
(*                                                                         *)
(*  - "health": the monitor (RunHealth in internal/ops/monitor.go) saves   *)
(*    a probe's status, observes the incident in a transaction of its own  *)
(*    (internal/store/health_notifications.go), which leases the           *)
(*    notification for a minute, enqueues it, and acknowledges it in a     *)
(*    second transaction.  An administrator's check observes as well and   *)
(*    drops what it is told to notify (Operations.Check).                  *)
(*  - "alert": the engine (internal/alerts/engine.go) loads the state,     *)
(*    observes in memory, enqueues, and saves the state once.              *)
(*                                                                         *)
(* Time passes in ticks; the worker, which is the monitor or the engine,   *)
(* starts a round every policy.interval ticks.  MaxFaults faults together  *)
(* the ticks by which a round is late, the refused observations, and the   *)
(* crashes and failed writes in the middle of a round.                     *)
(***************************************************************************)
EXTENDS Incident

CONSTANTS Policies, Lease, MaxFaults   (* a Lease is a minute long *)

ASSUME IncidentAssumption ==
  /\ MaxAge \in Nat /\ Lease \in 1..MaxAge
  /\ MaxFaults \in Nat
  /\ \A p \in Policies :
       /\ p.path \in {"health", "alert"} /\ p.repeat \in BOOLEAN
       /\ p.firing \in Nat /\ p.recovery \in Nat /\ p.max \in Nat
       /\ {p.cooldown, p.stable, p.gap} \subseteq 0..MaxAge
       /\ p.interval \in Nat \ {0}

VARIABLES
  policy,   (* the path and the IncidentPolicy it uses, fixed               *)
  enabled,  (* alert_rules.enabled; stays TRUE on the health path           *)
  truth,    (* what a probe or a metric would find now                      *)
  row,      (* the stored incident state                                    *)
  pc,       (* where the worker stands                                      *)
  seen,     (* what this round's probe or query found                       *)
  copy,     (* the state the engine works on                                *)
  event,    (* the notification under way                                   *)
  round,    (* ticks since the worker's last round started                  *)
  faults,   (* faults so far                                                *)
  said,     (* history: the last notification enqueued                      *)
  fired,    (* history: firing notifications enqueued since a stable time   *)
  calm,     (* history: ticks since the last observation that was not good  *)
  spoke,    (* history: age of the last firing decision that was enqueued   *)
  lost      (* history: enqueued notifications whose record was lost        *)

vars == <<policy, enabled, truth, row, pc, seen, copy, event, round, faults,
          said, fired, calm, spoke, lost>>
worker == <<pc, seen, copy, event, round>>
history == <<said, fired, calm, spoke, lost>>

Findings == {"good", "bad", "none"}
Health == policy.path = "health"

TypeOK ==
  /\ policy \in Policies /\ enabled \in BOOLEAN
  /\ truth \in Findings /\ seen \in Findings
  /\ row \in IncidentState /\ copy \in IncidentState
  /\ pc \in {"idle", "saved", "loaded", "notify", "accept", "save"}
  /\ event \in {"none", "firing", "resolved"}
  /\ round \in 0..MaxAge /\ faults \in 0..MaxFaults
  /\ said \in {"none", "firing", "resolved"}
  /\ fired \in Nat /\ calm \in 0..MaxAge /\ spoke \in Age
  /\ lost \in 0..MaxFaults

(* Only an upstream that was notified unhealthy before the incident table  *)
(* existed starts out as notified.                                         *)
Init ==
  /\ policy \in Policies
  /\ \E notified \in BOOLEAN :
       /\ notified => Health
       /\ row = NewState(notified)
       /\ said = IF notified THEN "firing" ELSE "none"
       /\ fired = IF notified THEN 1 ELSE 0
       /\ spoke = IF notified THEN 0 ELSE Unset
  /\ enabled = TRUE /\ truth = "good"
  /\ pc = "idle" /\ seen = "none" /\ copy = NewState(FALSE) /\ event = "none"
  /\ round = 0 /\ faults = 0 /\ calm = 0 /\ lost = 0

(* The end of a round.                                                     *)
Rest ==
  /\ pc' = "idle" /\ seen' = "none" /\ copy' = NewState(FALSE)
  /\ event' = "none" /\ UNCHANGED round

(* What every stored observation adds to the history.  The reference for a *)
(* renewed budget is the time since anything but good was observed.        *)
Witness(found, age) ==
  /\ calm' = IF found = "good" THEN calm ELSE age
  /\ fired' = IF found = "good" /\ calm >= policy.stable THEN 0 ELSE fired
  /\ UNCHANGED <<said, spoke, lost>>

-----------------------------------------------------------------------------
(* The health path.                                                        *)

(* Probe and SaveProbeHealth: the status it returns is kept.               *)
SaveHealth ==
  /\ Health /\ pc = "idle" /\ round > 0
  /\ pc' = "saved" /\ seen' = truth /\ round' = 0
  /\ UNCHANGED <<policy, enabled, truth, row, copy, event, faults, history>>

AcceptedAtOnce(s, asked) == IF asked = "none" THEN s ELSE Accepted(s, asked, 0)
Leased(s, asked) == IF asked = "none" THEN s ELSE EnqueueFailed(s, Lease, 0)

(* ObserveHealthNotification with the status found.                        *)
Observation(found) ==
  LET t == Observed(row, found, policy)
  IN [state |-> Leased(t, Asked(t, found, policy)),
      asked |-> Asked(t, found, policy)]

ObserveHealthNotification ==
  /\ pc = "saved"
  /\ row' = Observation(seen).state
  /\ event' = Observation(seen).asked
  /\ pc' = IF event' = "none" THEN "idle" ELSE "notify"
  /\ Witness(seen, 0)
  /\ UNCHANGED <<policy, enabled, truth, seen, copy, round, faults>>

(* ErrUpstreamConfigChanged, or the database fails: nothing is observed.   *)
ObservationRefused ==
  /\ pc = "saved" /\ faults < MaxFaults
  /\ faults' = faults + 1
  /\ Rest
  /\ UNCHANGED <<policy, enabled, truth, row, history>>

(* Operations.Check: the administrator's check does not notify.            *)
ManualCheck ==
  /\ Health
  /\ row' = Observation(truth).state
  /\ Witness(truth, 0)
  /\ UNCHANGED <<policy, enabled, truth, worker, faults>>

(* AcceptHealthNotification.                                               *)
Acknowledge ==
  /\ Health /\ pc = "accept"
  /\ row' = Accepted(row, event, 0)
  /\ Rest
  /\ UNCHANGED <<policy, enabled, truth, faults, history>>

-----------------------------------------------------------------------------
(* The alert path.                                                         *)

(* Observe and LoadState.                                                  *)
Load ==
  /\ ~Health /\ pc = "idle" /\ round > 0 /\ enabled
  /\ pc' = "loaded" /\ seen' = truth /\ copy' = row /\ round' = 0
  /\ UNCHANGED <<policy, enabled, truth, row, event, faults, history>>

Handle ==
  /\ pc = "loaded"
  /\ copy' = Observed(copy, seen, policy)
  /\ event' = Asked(copy', seen, policy)
  /\ pc' = IF event' = "none" THEN "save" ELSE "notify"
  /\ UNCHANGED <<policy, enabled, truth, row, seen, round, faults, history>>

SaveState ==
  /\ ~Health /\ pc = "save"
  /\ row' = copy
  /\ Witness(seen, copy.observed)
  /\ Rest
  /\ UNCHANGED <<policy, enabled, truth, faults>>

(* A rule that is disabled when the engine lists it loses its states.      *)
PruneStates ==
  /\ ~Health /\ pc = "idle" /\ round > 0 /\ ~enabled
  /\ row' = NewState(FALSE)
  /\ round' = 0
  /\ said' = "none" /\ fired' = 0 /\ spoke' = Unset
  /\ UNCHANGED <<policy, enabled, truth, pc, seen, copy, event, faults, calm, lost>>

(* UpdateAlertRule.                                                        *)
EditRule ==
  /\ ~Health
  /\ enabled' = ~enabled
  /\ UNCHANGED <<policy, truth, row, worker, faults, history>>

-----------------------------------------------------------------------------
(* Both paths: the outbox, faults and time.                                *)

(* OutboxNotifier.Notify succeeds.                                         *)
Enqueue ==
  /\ pc = "notify"
  /\ pc' = IF Health THEN "accept" ELSE "save"
  /\ copy' = IF Health THEN copy ELSE Accepted(copy, event, copy.observed)
  /\ said' = event
  /\ fired' = IF event = "firing" THEN fired + 1 ELSE fired
  /\ spoke' = IF event # "firing" THEN spoke
              ELSE IF Health THEN 0 ELSE copy.observed
  /\ UNCHANGED <<policy, enabled, truth, row, seen, event, round, faults, calm, lost>>

EnqueueFails ==
  /\ pc = "notify"
  /\ IF Health
     THEN Rest
     ELSE /\ pc' = "save" /\ event' = "none"
          /\ copy' = EnqueueFailed(copy, IF policy.cooldown < Lease THEN Lease
                                        ELSE policy.cooldown, copy.observed)
          /\ UNCHANGED <<seen, round>>
  /\ UNCHANGED <<policy, enabled, truth, row, faults, history>>

(* The process dies, or the write after the enqueue fails: the round is    *)
(* over and what it had in memory is gone.                                 *)
Fault ==
  /\ pc # "idle" /\ faults < MaxFaults
  /\ faults' = faults + 1
  /\ lost' = IF pc \in {"accept", "save"} /\ event # "none" THEN lost + 1 ELSE lost
  /\ Rest
  /\ UNCHANGED <<policy, enabled, truth, row, said, fired, calm, spoke>>

TruthChanges ==
  /\ \E found \in Findings \ {truth} : truth' = found
  /\ UNCHANGED <<policy, enabled, row, worker, faults, history>>

Tick ==
  /\ \/ round < policy.interval /\ UNCHANGED faults
     \/ round >= policy.interval /\ faults < MaxFaults /\ faults' = faults + 1
  /\ round' = IF round < MaxAge THEN round + 1 ELSE round
  /\ row' = Later(row) /\ copy' = Later(copy)
  /\ calm' = IF calm < MaxAge THEN calm + 1 ELSE calm
  /\ spoke' = Older(spoke)
  /\ UNCHANGED <<policy, enabled, truth, pc, seen, event, said, fired, lost>>

WorkerStep ==
  \/ SaveHealth \/ ObserveHealthNotification \/ Acknowledge
  \/ Load \/ Handle \/ SaveState \/ PruneStates
  \/ Enqueue \/ EnqueueFails

Next ==
  \/ SaveHealth \/ ObserveHealthNotification \/ ObservationRefused \/ ManualCheck
  \/ Acknowledge
  \/ Load \/ Handle \/ SaveState \/ PruneStates \/ EditRule
  \/ Enqueue \/ EnqueueFails \/ Fault \/ TruthChanges \/ Tick

Spec == Init /\ [][Next]_vars

(* The worker's loop goes on, the outbox takes what it is offered again    *)
(* and again, and time passes.                                             *)
FairSpec == Spec /\ WF_vars(WorkerStep) /\ SF_vars(Enqueue) /\ WF_vars(Tick)

-----------------------------------------------------------------------------
(* Properties.                                                             *)

(* However the condition flaps and whoever observes it, no more firing     *)
(* notifications are enqueued than the budget, until the condition has     *)
(* been good for the stable time; a lost record of one costs one more.     *)
FlappingKeepsBudget ==
  policy.max > 0 => fired <= policy.max + lost

(* A firing notification is decided at least the cooldown after the last   *)
(* one, unless the record of that one was lost.                            *)
CooldownIsKept ==
  [][ (pc' = "notify" /\ pc # "notify" /\ event' = "firing")
        => \/ spoke = Unset \/ spoke >= policy.cooldown
           \/ policy.stable = 0 \/ lost > 0 ]_vars

(* Firing and resolved take turns: nobody is told of a recovery from what  *)
(* was not announced, nor, unless the rule repeats, twice of one incident. *)
(* (Without a stable time a recovery makes room for the next incident at   *)
(* once, also when the word of that recovery could not be enqueued.)       *)
AnnouncementsAlternate ==
  [][ (pc = "notify" /\ pc' \in {"accept", "save"} /\ event' # "none")
        => \/ event = "firing" /\ (said # "firing" \/ policy.repeat)
           \/ event = "resolved" /\ said = "firing"
           \/ policy.stable = 0 \/ lost > 0 ]_vars

(* Together: what administrators hear of an incident is spaced and takes   *)
(* turns.                                                                  *)
AnnouncementsArePaced == CooldownIsKept /\ AnnouncementsAlternate

(* Once the administrator's checks no longer take the lease, and if no     *)
(* record of a notification was lost, a condition that stays bad is        *)
(* announced in the end, unless the budget is spent, and one that stays    *)
(* good is in the end not announced as firing.                             *)
AnnouncedInTheEnd ==
  <>[][~ManualCheck]_vars =>
    /\ <>[](truth = "bad" /\ enabled)
         => <>[](said = "firing" \/ BudgetSpent(row, policy) \/ lost > 0)
    /\ <>[](truth = "good" /\ enabled) => <>[](said # "firing" \/ lost > 0)
=============================================================================
