--------------------------- MODULE UpstreamHealth ---------------------------
(***************************************************************************)
(* The health of one upstream: its row in PostgreSQL (saveHealth in        *)
(* internal/store/upstreams.go) and the three parties that change it.      *)
(*                                                                         *)
(*  - Proxied requests score it through markSuccess and markFailure        *)
(*    (internal/gateway/handler.go).  They decide on the copy of the row   *)
(*    that routing gave them, and take turns on a semaphore that is        *)
(*    created on demand, counted, and forgotten when nobody needs it.      *)
(*  - Health probes (internal/ops, internal/app) score it and are the only *)
(*    ones to confirm a recovery.                                          *)
(*  - The administrator changes its configuration, which makes every score *)
(*    that was measured under the old one void (config_version).           *)
(*                                                                         *)
(* Upstreams do not interact in this code, so one is enough.               *)
(***************************************************************************)
EXTENDS Naturals, FiniteSets

CONSTANTS
  Markers,      (* goroutines of proxied requests, reused request by request *)
  Probes,       (* concurrent health checks: the monitor, an administrator   *)
  States,       (* identities of upstreamHealthState objects                 *)
  NoState,      (* nil                                                       *)
  Threshold,    (* failure_threshold                                         *)
  MaxVersion    (* bounds the number of configuration changes                *)

ASSUME HealthAssumption ==
  /\ IsFiniteSet(Markers)
  /\ NoState \notin States
  /\ Threshold \in Nat \ {0}
  /\ MaxVersion \in Nat \ {0}

VARIABLES
  row,      (* the columns of upstreams that health is about             *)
  health,   (* h.health[upstreamID]                                      *)
  state,    (* the upstreamHealthState objects                           *)
  stage,       (* where each handler stands                                 *)
  snap,     (* what each handler's copy of the row says of health        *)
  outcome,  (* what the upstream answered to each handler                *)
  mine,     (* the state object each handler refers to                   *)
  probe,    (* per probe, the config_version it measures, 0 when idle    *)
  owed,     (* history: a failure written by a handler, and acknowledged,
               has not been followed by a healthy write                  *)
  streak    (* history: healthy probes since the last failed write,
               capped at 3                                               *)

healthVars == <<row, health, state, stage, snap, outcome, mine, probe, owed, streak>>
requestVars == <<snap, outcome>>
historyVars == <<owed, streak>>

(* The columns of the routed copy that a mark looks at.                    *)
Copy(r) == [status |-> r.status, failures |-> r.failures,
            version |-> r.version]

(* The statuses an upstream answers with, by what the gateway makes of     *)
(* them: "failed" is any status of 500 or more and any transport error.    *)
Outcomes == {"ok", "401", "403", "retry", "failed"}

Row == [status: {"unknown", "healthy", "degraded", "unhealthy"},
        failures: 0..Threshold,
        successes: 0..2,
        recovery: {"none", "recent", "old"},
        circuit: {"none", "open", "expired"},
        version: 1..MaxVersion]

MarkStates == {"idle", "calling", "next", "mark", "waiting", "critical", "unlock",
             "free"}

HealthTypeOK ==
  /\ row \in Row
  /\ health \in States \cup {NoState}
  /\ state \in [States -> [refs: Nat, locked: BOOLEAN, pending: BOOLEAN]]
  /\ stage \in [Markers -> MarkStates]
  /\ \A p \in Markers : \E r \in Row : snap[p] = Copy(r)
  /\ outcome \in [Markers -> Outcomes]
  /\ mine \in [Markers -> States \cup {NoState}]
  /\ probe \in [Probes -> 0..MaxVersion]
  /\ owed \in BOOLEAN
  /\ streak \in 0..3

NewRow == [status |-> "unknown", failures |-> 0, successes |-> 0,
           recovery |-> "none", circuit |-> "none", version |-> 1]

Fresh == [refs |-> 0, locked |-> FALSE, pending |-> FALSE]

HealthInit ==
  /\ row = NewRow
  /\ health = NoState
  /\ state = [s \in States |-> Fresh]
  /\ stage = [p \in Markers |-> "idle"]
  /\ snap = [p \in Markers |-> Copy(NewRow)]
  /\ outcome = [p \in Markers |-> "ok"]
  /\ mine = [p \in Markers |-> NoState]
  /\ probe = [q \in Probes |-> 0]
  /\ owed = FALSE
  /\ streak = 0

-----------------------------------------------------------------------------
(* saveHealth: one UPDATE under the row lock.                              *)


(* Fewer than three successes, and less than two minutes of them.          *)
Unconfirmed(confirm) ==
  ~confirm \/ (row.successes + 1 < 3 /\ row.recovery # "old")

CircuitStaysOpen(confirm) ==
  IF row.status = "unhealthy" /\ Unconfirmed(confirm)
  THEN [row EXCEPT
          !.failures = 0,
          !.successes = IF confirm THEN @ + 1 ELSE @,
          !.recovery = IF confirm /\ @ = "none" THEN "recent" ELSE @]
  ELSE [row EXCEPT
          !.status = "healthy", !.failures = 0, !.successes = 0,
          !.recovery = "none"]

SuccessUncounted(confirm) ==
  IF row.status = "unhealthy" /\ Unconfirmed(confirm)
  THEN [row EXCEPT !.failures = 0]
  ELSE [row EXCEPT
          !.status = "healthy", !.failures = 0, !.successes = 0,
          !.recovery = "none", !.circuit = "none"]

HealthyRow(confirm) ==
  IF row.status = "unhealthy" /\ Unconfirmed(confirm)
  THEN [row EXCEPT
          !.failures = 0,
          !.successes = IF confirm THEN @ + 1 ELSE @,
          !.recovery = IF confirm /\ @ = "none" THEN "recent" ELSE @]
  ELSE [row EXCEPT
          !.status = "healthy", !.failures = 0, !.successes = 0,
          !.recovery = "none", !.circuit = "none"]

(* The count of failures only matters up to the threshold.                 *)
FailedRow(authFailure) ==
  LET unhealthy == \/ row.status = "unhealthy"
                   \/ authFailure
                   \/ row.failures + 1 >= Threshold
  IN [row EXCEPT
        !.status = IF unhealthy THEN "unhealthy" ELSE "degraded",
        !.failures = IF @ < Threshold THEN @ + 1 ELSE @,
        !.successes = 0,
        !.recovery = "none",
        !.circuit = IF unhealthy THEN "open" ELSE @]

(* config_version = expected: a write under another version changes no row *)
(* and reports ErrUpstreamConfigChanged.                                   *)
AnyVersion(version) == TRUE
VersionMatches(version) == row.version = version

-----------------------------------------------------------------------------
(* A handler that is done forgets its copy and its answer.                 *)
Forget(p) ==
  /\ snap' = [snap EXCEPT ![p] = Copy(NewRow)]
  /\ outcome' = [outcome EXCEPT ![p] = "ok"]

(* A proxied request: routing hands it a copy of the row, the upstream     *)
(* answers, and the answer may have to be scored.                          *)

(* ListRouteUpstreams leaves out an upstream whose circuit is open.        *)
Route(p) ==
  /\ stage[p] = "idle"
  /\ row.circuit # "open"
  /\ snap' = [snap EXCEPT ![p] = Copy(row)]
  /\ stage' = [stage EXCEPT ![p] = "calling"]
  /\ UNCHANGED <<row, health, state, outcome, mine, probe, historyVars>>

(* countsAsUpstreamFailure: a refused, unknown or rate-limited request is  *)
(* retried elsewhere without a score.                                      *)
Scored(answer) == answer \in {"ok", "401", "failed"}

Answer(p) ==
  /\ stage[p] = "calling"
  /\ \E answer \in Outcomes :
       /\ outcome' = [outcome EXCEPT ![p] = answer]
       /\ stage' = [stage EXCEPT ![p] = IF Scored(answer) THEN "mark" ELSE "next"]
  /\ UNCHANGED <<row, health, state, snap, mine, probe, historyVars>>

(* The request goes on to the next upstream without a score.               *)
Unscored(p) ==
  /\ stage[p] = "next"
  /\ stage' = [stage EXCEPT ![p] = "idle"]
  /\ Forget(p)
  /\ UNCHANGED <<row, health, state, mine, probe, historyVars>>

(* The client has left, or the request has timed out: nothing is scored.   *)
Abandon(p) ==
  /\ stage[p] = "calling"
  /\ stage' = [stage EXCEPT ![p] = "idle"]
  /\ Forget(p)
  /\ UNCHANGED <<row, health, state, mine, probe, historyVars>>

-----------------------------------------------------------------------------
(* lockUpstreamHealth and unlockUpstreamHealth.                            *)

Unused(s) == s # health /\ \A p \in Markers : mine[p] # s

LockRefer(p) ==
  /\ stage[p] = "mark"
  /\ IF health # NoState
     THEN /\ state' = [state EXCEPT ![health].refs = @ + 1]
          /\ mine' = [mine EXCEPT ![p] = health]
          /\ UNCHANGED health
     ELSE \E s \in States :
            /\ Unused(s)
            /\ state' = [state EXCEPT ![s] = [Fresh EXCEPT !.refs = 1]]
            /\ mine' = [mine EXCEPT ![p] = s]
            /\ health' = s
  /\ stage' = [stage EXCEPT ![p] = "waiting"]
  /\ UNCHANGED <<row, requestVars, probe, historyVars>>

LockAcquire(p) ==
  /\ stage[p] = "waiting"
  /\ ~state[mine[p]].locked
  /\ state' = [state EXCEPT ![mine[p]].locked = TRUE]
  /\ stage' = [stage EXCEPT ![p] = "critical"]
  /\ UNCHANGED <<row, health, requestVars, mine, probe, historyVars>>

Leave(p) == stage' = [stage EXCEPT ![p] = "unlock"] /\ Forget(p)

(* The semaphore was free, but the deadline has passed: unlock at once.    *)
LockTooLate(p) ==
  /\ stage[p] = "waiting"
  /\ ~state[mine[p]].locked
  /\ state' = [state EXCEPT ![mine[p]].locked = TRUE]
  /\ Leave(p)
  /\ UNCHANGED <<row, health, mine, probe, historyVars>>

NothingPending(s) == ~state[s].pending
LastReference(s) == state[s].refs = 1
Forgettable(s) == LastReference(s) /\ NothingPending(s)

(* releaseUpstreamHealth: the last reference to a state that holds no      *)
(* pending failure removes it from the map.                                *)
Release(p) ==
  LET s == mine[p] IN
  /\ state' = [state EXCEPT ![s].refs = @ - 1]
  /\ health' = IF Forgettable(s) /\ health = s THEN NoState ELSE health

WaitForEver(p) == FALSE

(* The deadline ends the wait.                                             *)
LockGiveUp(p) ==
  /\ stage[p] = "waiting"
  /\ Release(p)
  /\ mine' = [mine EXCEPT ![p] = NoState]
  /\ stage' = [stage EXCEPT ![p] = "idle"]
  /\ Forget(p)
  /\ UNCHANGED <<row, probe, historyVars>>

Unlock(p) ==
  /\ stage[p] = "unlock"
  /\ Release(p)
  /\ stage' = [stage EXCEPT ![p] = "free"]
  /\ UNCHANGED <<row, requestVars, mine, probe, historyVars>>

UnlockFree(p) ==
  /\ stage[p] = "free"
  /\ state' = [state EXCEPT ![mine[p]].locked = FALSE]
  /\ mine' = [mine EXCEPT ![p] = NoState]
  /\ stage' = [stage EXCEPT ![p] = "idle"]
  /\ UNCHANGED <<row, health, requestVars, probe, historyVars>>

-----------------------------------------------------------------------------
(* The critical sections of markSuccess and markFailure.                   *)

NeedsSuccessWrite(upstream) ==
  \/ upstream.status \notin {"healthy", "unhealthy"}
  \/ upstream.status = "healthy" /\ upstream.failures > 0

SkipSuccess(p) ==
  /\ stage[p] = "critical" /\ outcome[p] = "ok"
  /\ ~NeedsSuccessWrite(snap[p]) /\ ~state[mine[p]].pending
  /\ Leave(p)
  /\ UNCHANGED <<row, health, state, mine, probe, historyVars>>

(* The write may succeed unacknowledged: the handler then sees an error.   *)
WriteSuccess(p) ==
  /\ stage[p] = "critical" /\ outcome[p] = "ok"
  /\ NeedsSuccessWrite(snap[p]) \/ state[mine[p]].pending
  /\ VersionMatches(snap[p].version)
  /\ row' = HealthyRow(FALSE)
  /\ owed' = FALSE
  /\ \/ state' = [state EXCEPT ![mine[p]].pending = FALSE]
     \/ UNCHANGED state
  /\ Leave(p)
  /\ UNCHANGED <<health, mine, probe, streak>>

WriteFailure(p) ==
  /\ stage[p] = "critical" /\ outcome[p] \in {"401", "failed"}
  /\ VersionMatches(snap[p].version)
  /\ row' = FailedRow(outcome[p] = "401")
  /\ streak' = 0
  /\ \/ state' = [state EXCEPT ![mine[p]].pending = TRUE] /\ owed' = TRUE
     \/ UNCHANGED <<state, owed>>
  /\ Leave(p)
  /\ UNCHANGED <<health, mine, probe>>

(* ErrUpstreamConfigChanged, or a write that fails: the row stays.         *)
WriteRefused(p) ==
  /\ stage[p] = "critical"
  /\ outcome[p] = "ok" => NeedsSuccessWrite(snap[p]) \/ state[mine[p]].pending
  /\ Leave(p)
  /\ UNCHANGED <<row, health, state, mine, probe, historyVars>>

MarkStep(p) ==
  \/ LockRefer(p) \/ LockAcquire(p) \/ LockTooLate(p)
  \/ LockGiveUp(p)
  \/ SkipSuccess(p) \/ WriteSuccess(p) \/ WriteFailure(p) \/ WriteRefused(p)
  \/ Unlock(p) \/ UnlockFree(p)

-----------------------------------------------------------------------------
(* Health probes, the administrator, and time.                             *)

ProbeStart(q) ==
  /\ probe[q] = 0
  /\ probe' = [probe EXCEPT ![q] = row.version]
  /\ UNCHANGED <<row, health, state, stage, requestVars, mine, historyVars>>

(* SaveProbeHealth, healthy.                                               *)
ProbeHealthy(q) ==
  /\ probe[q] # 0 /\ VersionMatches(probe[q])
  /\ row' = HealthyRow(TRUE)
  /\ owed' = FALSE
  /\ streak' = IF streak < 3 THEN streak + 1 ELSE streak
  /\ probe' = [probe EXCEPT ![q] = 0]
  /\ UNCHANGED <<health, state, stage, requestVars, mine>>

(* SaveProbeHealth, failed; a 401 or a 403 is an authentication failure.   *)
ProbeFailed(q) ==
  /\ probe[q] # 0 /\ VersionMatches(probe[q])
  /\ \E authFailure \in BOOLEAN : row' = FailedRow(authFailure)
  /\ streak' = 0
  /\ probe' = [probe EXCEPT ![q] = 0]
  /\ UNCHANGED <<health, state, stage, requestVars, mine, owed>>

(* The configuration changed meanwhile, the check was cancelled, or the    *)
(* write failed.                                                           *)
ProbeVoid(q) ==
  /\ probe[q] # 0
  /\ probe' = [probe EXCEPT ![q] = 0]
  /\ UNCHANGED <<row, health, state, stage, requestVars, mine, historyVars>>

ProbeEnd(q) == ProbeHealthy(q) \/ ProbeFailed(q) \/ ProbeVoid(q)

UpdateUpstream ==
  /\ row.version < MaxVersion
  /\ row' = [row EXCEPT !.version = @ + 1]
  /\ UNCHANGED <<health, state, stage, requestVars, mine, probe, historyVars>>

CooldownEnds ==
  /\ row.circuit = "open"
  /\ row' = [row EXCEPT !.circuit = "expired"]
  /\ UNCHANGED <<health, state, stage, requestVars, mine, probe, historyVars>>

TwoMinutesPass ==
  /\ row.recovery = "recent"
  /\ row' = [row EXCEPT !.recovery = "old"]
  /\ UNCHANGED <<health, state, stage, requestVars, mine, probe, historyVars>>

-----------------------------------------------------------------------------

HealthNext ==
  \/ \E p \in Markers : Route(p) \/ Answer(p) \/ Unscored(p)
                            \/ Abandon(p) \/ MarkStep(p)
  \/ \E q \in Probes : ProbeStart(q) \/ ProbeEnd(q)
  \/ UpdateUpstream
  \/ CooldownEnds \/ TwoMinutesPass

HealthSpec == HealthInit /\ [][HealthNext]_healthVars

(* A mark under way goes on (its deadline is 2 s); the monitor probes      *)
(* again and again, the database takes what it finds now and then, and     *)
(* time passes.                                                            *)
HealthFairness ==
  /\ \A p \in Markers : WF_healthVars(MarkStep(p))
  /\ \A q \in Probes : /\ WF_healthVars(ProbeStart(q))
                       /\ WF_healthVars(ProbeEnd(q))
                       /\ SF_healthVars(ProbeHealthy(q))
  /\ WF_healthVars(CooldownEnds) /\ WF_healthVars(TwoMinutesPass)

HealthFairSpec == HealthSpec /\ HealthFairness

-----------------------------------------------------------------------------
(* Properties.                                                             *)

InSection(p) == stage[p] \in {"critical", "unlock"}

(* Scores of one upstream are written one at a time, although the          *)
(* semaphore that orders them is forgotten and created anew.               *)
OneScoreAtATime ==
  \A p, q \in Markers : InSection(p) /\ InSection(q) => p = q

(* The reference counts are exact, and what the map does not hold is       *)
(* referred to by nobody that could still write: no leak, no orphan.       *)
ReferencesAreExact ==
  /\ \A s \in States :
       state[s].refs = Cardinality({p \in Markers : mine[p] = s
                                                       /\ stage[p] # "free"})
  /\ \A p \in Markers :
       stage[p] \in {"waiting", "critical", "unlock"} => mine[p] = health
  /\ health # NoState =>
       state[health].refs > 0 \/ state[health].pending

(* Together: the semaphore stays sound while its entry comes and goes.     *)
SemaphoreIsSound == OneScoreAtATime /\ ReferencesAreExact

(* A failure the gateway has written is remembered until a healthy write:  *)
(* no later success is skipped because its copy of the row is older.       *)
OwedFailureIsRemembered ==
  owed => health # NoState /\ state[health].pending

(* A score measured under another configuration never changes the row.     *)
StaleScoreIsVoid ==
  [][ \A p \in Markers :
        (stage[p] = "critical" /\ stage'[p] = "unlock" /\ row' # row)
          => snap[p].version = row.version ]_healthVars

(* An unhealthy upstream becomes healthy only after three healthy probes   *)
(* in a row, or two minutes of them, with no failure in between; gateway   *)
(* traffic, however successful, does not close the circuit.                *)
OnlyProbesConfirmRecovery ==
  [][ row.status = "unhealthy" /\ row'.status # "unhealthy"
        => \/ streak' = 3
           \/ row.recovery = "old" /\ streak > 0 /\ streak' > streak ]_healthVars

(* Together: neither a score of an old configuration nor traffic alone     *)
(* makes an upstream healthy again.                                        *)
HealthIsEarned == StaleScoreIsVoid /\ OnlyProbesConfirmRecovery

(* The circuit is open, or has been, only for an unhealthy upstream, and   *)
(* an unhealthy upstream always had it opened.                             *)
CircuitMatchesHealth == row.circuit # "none" <=> row.status = "unhealthy"

(* A mark leaves within its deadline, whoever holds the semaphore.         *)
MarkReturns == \A p \in Markers : stage[p] = "mark" ~> stage[p] = "idle"

(* An upstream that stops failing does not stay unhealthy.                 *)
Recovers ==
  (<>[][ /\ \A p \in Markers : ~WriteFailure(p)
         /\ \A q \in Probes : ~ProbeFailed(q)
         /\ ~UpdateUpstream ]_healthVars)
    => <>[](row.status # "unhealthy")

(* The documentation: "Authentication failures (401 or 403) open the       *)
(* circuit immediately."  A handler that is done with such an answer,      *)
(* under the current configuration and without an error of the database,   *)
(* leaves the circuit open.                                                *)
AuthFailureOpensCircuit ==
  [][ \A p \in Markers :
        (/\ outcome[p] \in {"401", "403"}
         /\ snap[p].version = row.version
         /\ \/ stage[p] = "next" /\ stage'[p] = "idle"
            \/ stage[p] = "critical" /\ stage'[p] = "unlock" /\ row' # row)
        => row'.circuit = "open" ]_healthVars
=============================================================================
