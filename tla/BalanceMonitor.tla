--------------------------- MODULE BalanceMonitor ---------------------------
(***************************************************************************)
(* Balance protection of one upstream and the announcement of its          *)
(* transitions (internal/ops/monitor.go, CooldownNotifier in               *)
(* internal/ops/notifier.go, SaveBalance and UpdateUpstream in             *)
(* internal/store/upstreams.go).                                           *)
(*                                                                         *)
(* Two loops of the monitor share the pending transition of the upstream:  *)
(* RunBalances reads the balance, saves it and announces the transition,   *)
(* RunHealth only retries what is pending (the rest of it is in            *)
(* NotificationIncidents).  An administrator refreshes the balance by hand *)
(* and edits the upstream; those transitions are sent past the monitor's   *)
(* cooldown, three times at most.                                          *)
(*                                                                         *)
(* A restart, which loses what is pending and the cooldown, is left out:   *)
(* the properties are about a process that lives.                          *)
(***************************************************************************)
EXTENDS Integers, FiniteSets

CONSTANTS
  MaxTransitions,  (* bounds the transitions of the row                      *)
  MaxEdits,        (* bounds the administrator's updates                    *)
  MaxRefreshes     (* bounds the administrator's balance refreshes          *)

ASSUME BalanceAssumption ==
  {MaxTransitions, MaxEdits, MaxRefreshes} \subseteq Nat

Confirmed == 2     (* zero checks that suspend *)
Attempts == 3      (* of notifyPersistedEvent  *)

VARIABLES
  upRow,      (* the row; creds stands for what the balance is read with    *)
  pending,    (* Monitor.pending[id]: one type of event, so one at most     *)
  inFlight,   (* Monitor.pendingInFlight[id]: the loop that retries, if any *)
  loop,       (* loop[w]: where RunBalances and RunHealth stand             *)
  last,       (* CooldownNotifier.last, and whether it is younger than the  *)
              (* cooldown                                                   *)
  manual,     (* the administrator's balance refresh                        *)
  sending,    (* notifyPersistedEvent: events with the attempts left        *)
  next,       (* id of the next transition                                  *)
  edits, refreshes,
  told,       (* history: the last transition enqueued, by anyone           *)
  heard,      (* history: id of the monitor's last transition enqueued      *)
  evidence,   (* history: what the last readings saved say of the           *)
              (* credentials in use                                         *)
  foreign     (* history: a transition was made by the administrator        *)

balanceVars == <<upRow, pending, inFlight, loop, last, manual, sending, next,
                 edits, refreshes, told, heard, evidence, foreign>>
admin == <<manual, sending>>
bounds == <<next, edits, refreshes>>
announced == <<told, heard, evidence, foreign>>

Loops == {"balances", "health"}
Funds == {"zero", "usable", "unknown"}
Transitions == {"suspended", "resumed"}
None == [id |-> 0, state |-> "resumed"]
Event == [id : 0..MaxTransitions, state : Transitions]
Idle == [pc |-> "idle", event |-> None, retry |-> FALSE, failed |-> FALSE,
         version |-> 0, creds |-> 0, funds |-> "unknown"]

BalanceTypeOK ==
  /\ upRow \in [suspended : BOOLEAN, checks : 0..Confirmed, protection : BOOLEAN,
              version : 0..MaxEdits, creds : 0..MaxEdits]
  /\ pending \in Event /\ inFlight \in Loops \cup {"none"}
  /\ loop \in [Loops -> [pc : {"idle", "retry", "probe", "save", "queue", "check",
                               "deliver", "remember", "ack", "release"},
                         event : Event, retry : BOOLEAN, failed : BOOLEAN,
                         version : 0..MaxEdits, creds : 0..MaxEdits, funds : Funds]]
  /\ last \in [state : Transitions \cup {"none"}, fresh : BOOLEAN]
  /\ manual \in [busy : BOOLEAN, version : 0..MaxEdits, creds : 0..MaxEdits, funds : Funds]
  /\ sending \subseteq [event : Event, left : 1..Attempts]
  /\ next \in 1..(MaxTransitions + 1) /\ edits \in 0..MaxEdits
  /\ refreshes \in 0..MaxRefreshes
  /\ told \in Event /\ heard \in 0..MaxTransitions
  /\ evidence \in {"none", "zero", "zeros", "usable"} /\ foreign \in BOOLEAN

Resting == [busy |-> FALSE, version |-> 0, creds |-> 0, funds |-> "unknown"]

BalanceInit ==
  /\ \E protection \in BOOLEAN :
       upRow = [suspended |-> FALSE, checks |-> 0, protection |-> protection,
              version |-> 0, creds |-> 0]
  /\ pending = None /\ inFlight = "none"
  /\ loop = [w \in Loops |-> Idle]
  /\ last = [state |-> "none", fresh |-> FALSE]
  /\ manual = Resting /\ sending = {}
  /\ next = 1 /\ edits = 0 /\ refreshes = 0
  /\ told = None /\ heard = 0 /\ foreign = FALSE
  /\ evidence = "none"

At(w, pc) == loop[w].pc = pc
Go(w, pc) == loop' = [loop EXCEPT ![w].pc = pc]
Stop(w) == loop' = [loop EXCEPT ![w] = Idle]

-----------------------------------------------------------------------------
(* The row.                                                                *)

(* balanceProtectionState.  The code's count goes on growing while the     *)
(* balance stays zero; only whether it has reached Confirmed matters.      *)
BalanceProtectionState(r, funds, immediate) ==
  LET zero == r.protection /\ funds = "zero"
      checks == IF ~zero THEN 0
                ELSE IF immediate \/ r.checks + 1 >= Confirmed THEN Confirmed
                ELSE r.checks + 1
  IN [r EXCEPT !.checks = checks,
               !.suspended = /\ r.protection
                             /\ checks = Confirmed \/ (@ /\ funds # "usable")]

AnyVersion(version) == TRUE
Current(version) == version = upRow.version

Transition(r) == IF r.suspended THEN "suspended" ELSE "resumed"
NewEvent(r) == [id |-> next, state |-> Transition(r)]

(* What a saved reading adds to the evidence: one that was taken with      *)
(* other credentials is none.                                              *)
Evidence(reader, immediate) ==
  IF reader.creds # upRow.creds \/ reader.funds = "unknown" THEN "none"
  ELSE IF reader.funds = "usable" THEN "usable"
  ELSE IF immediate \/ evidence \in {"zero", "zeros"} THEN "zeros"
  ELSE "zero"

(* SaveBalance, of a reading taken with the row of the given version.      *)
SaveBalance(reader, immediate) ==
  /\ Current(reader.version)
  /\ upRow' = BalanceProtectionState(upRow, reader.funds, immediate)
  /\ upRow'.suspended # upRow.suspended => next <= MaxTransitions
  /\ next' = IF upRow'.suspended # upRow.suspended THEN next + 1 ELSE next
  /\ evidence' = Evidence(reader, immediate)

-----------------------------------------------------------------------------
(* The monitor's loops.                                                    *)

(* ListUpstreams, and the round of this upstream starts.                   *)
StartRound(w) ==
  /\ At(w, "idle")
  /\ loop' = [loop EXCEPT ![w] = [Idle EXCEPT !.pc = "retry", !.version = upRow.version,
                                              !.creds = upRow.creds]]
  /\ UNCHANGED <<upRow, pending, inFlight, last, admin, bounds, announced>>

(* What follows retryPending; RunHealth goes on to the health probe.       *)
AfterRetry(w, failed) ==
  loop' = [loop EXCEPT ![w] =
    IF w = "health" THEN Idle
    ELSE [@ EXCEPT !.pc = "probe", !.retry = FALSE, !.failed = failed, !.event = None]]

RetryInProgress == inFlight # "none"

(* retryPending, up to the first unlock.                                   *)
RetryPending(w) ==
  /\ At(w, "retry")
  /\ IF RetryInProgress \/ pending = None
     THEN AfterRetry(w, RetryInProgress) /\ UNCHANGED inFlight
     ELSE /\ inFlight' = w
          /\ loop' = [loop EXCEPT ![w].pc = "check", ![w].retry = TRUE,
                                  ![w].event = pending]
  /\ UNCHANGED <<upRow, pending, last, admin, bounds, announced>>

(* CheckBalance.                                                           *)
Probe ==
  /\ At("balances", "probe")
  /\ \E funds \in Funds :
       loop' = [loop EXCEPT !["balances"].pc = "save", !["balances"].funds = funds]
  /\ UNCHANGED <<upRow, pending, inFlight, last, admin, bounds, announced>>

SendAnyway == FALSE
OlderIsUntold == loop["balances"].failed

(* A transition is queued behind one that could not be told.               *)
SaveReading ==
  /\ At("balances", "save")
  /\ SaveBalance(loop["balances"], FALSE)
  /\ loop' = [loop EXCEPT !["balances"] =
       IF upRow'.suspended = upRow.suspended THEN Idle
       ELSE [@ EXCEPT !.pc = IF OlderIsUntold THEN "queue" ELSE "check",
                      !.event = NewEvent(upRow')]]
  /\ UNCHANGED <<pending, inFlight, last, admin, edits, refreshes,
                 told, heard, foreign>>

(* ErrUpstreamConfigChanged, or the database fails.                        *)
SaveRefused ==
  /\ At("balances", "save")
  /\ Stop("balances")
  /\ UNCHANGED <<upRow, pending, inFlight, last, admin, bounds, announced>>

SetPending ==
  /\ At("balances", "queue")
  /\ pending' = loop["balances"].event
  /\ Stop("balances")
  /\ UNCHANGED <<upRow, inFlight, last, admin, bounds, announced>>

-----------------------------------------------------------------------------
(* CooldownNotifier.Notify over OutboxNotifier, by a loop of the monitor.  *)

Told(w) ==
  IF loop[w].retry THEN Go(w, "ack") ELSE Stop(w)

Duplicate(w) == last.state = loop[w].event.state /\ last.fresh

Suppress(w) ==
  /\ At(w, "check") /\ Duplicate(w)
  /\ Told(w)
  /\ UNCHANGED <<upRow, pending, inFlight, last, admin, bounds, announced>>

Pass(w) ==
  /\ At(w, "check") /\ ~Duplicate(w)
  /\ Go(w, "deliver")
  /\ UNCHANGED <<upRow, pending, inFlight, last, admin, bounds, announced>>

Deliver(w) ==
  /\ At(w, "deliver")
  /\ told' = loop[w].event /\ heard' = loop[w].event.id
  /\ Go(w, "remember")
  /\ UNCHANGED <<upRow, pending, inFlight, last, admin, bounds, evidence, foreign>>

(* setPending of a new transition; a retried one stays where it is.        *)
DeliveryFails(w) ==
  /\ At(w, "deliver")
  /\ IF loop[w].retry
     THEN inFlight' = "none" /\ AfterRetry(w, TRUE) /\ UNCHANGED pending
     ELSE Go(w, "queue") /\ UNCHANGED <<pending, inFlight>>
  /\ UNCHANGED <<upRow, last, admin, bounds, announced>>

Remember(w) ==
  /\ At(w, "remember")
  /\ last' = [state |-> loop[w].event.state, fresh |-> TRUE]
  /\ Told(w)
  /\ UNCHANGED <<upRow, pending, inFlight, admin, bounds, announced>>

SameType(sent) == pending # None
SameEvent(sent) == pending = sent

AckPending(w) ==
  /\ At(w, "ack")
  /\ pending' = IF SameEvent(loop[w].event) THEN None ELSE pending
  /\ Go(w, "release")
  /\ UNCHANGED <<upRow, inFlight, last, admin, bounds, announced>>

(* The deferred end of retryPending.                                       *)
ReleaseRetry(w) ==
  /\ At(w, "release")
  /\ inFlight' = "none"
  /\ AfterRetry(w, FALSE)
  /\ UNCHANGED <<upRow, pending, last, admin, bounds, announced>>

(* The last announcement comes of age.                                     *)
CooldownEnds ==
  /\ last.fresh
  /\ last' = [last EXCEPT !.fresh = FALSE]
  /\ UNCHANGED <<upRow, pending, inFlight, loop, admin, bounds, announced>>

-----------------------------------------------------------------------------
(* The administrator.                                                      *)

(* Operations.Balance reads the row and then the balance.                  *)
RefreshBalance ==
  /\ ~manual.busy /\ refreshes < MaxRefreshes
  /\ refreshes' = refreshes + 1
  /\ \E funds \in Funds :
       manual' = [busy |-> TRUE, version |-> upRow.version, creds |-> upRow.creds,
                  funds |-> funds]
  /\ UNCHANGED <<upRow, pending, inFlight, loop, last, sending, next, edits, announced>>

(* notifyPersistedEvent starts, when there is a transition to tell of.     *)
Announce ==
  IF upRow'.suspended = upRow.suspended THEN UNCHANGED <<sending, foreign>>
  ELSE /\ sending' = sending \cup {[event |-> NewEvent(upRow'), left |-> Attempts]}
       /\ foreign' = TRUE

SaveRefresh ==
  /\ manual.busy
  /\ manual' = Resting
  /\ \/ SaveBalance(manual, TRUE) /\ Announce
     \/ ~Current(manual.version) /\ UNCHANGED <<upRow, next, evidence, sending, foreign>>
  /\ UNCHANGED <<pending, inFlight, loop, last, edits, refreshes, told, heard>>

NextChecks(protection, credsChanged) ==
  IF protection /\ ~credsChanged THEN upRow.checks ELSE 0

(* UpdateUpstream.                                                         *)
UpdateUpstream ==
  /\ edits < MaxEdits
  /\ edits' = edits + 1
  /\ \E protection, credsChanged \in BOOLEAN :
       /\ upRow' = [suspended |-> upRow.suspended /\ protection,
                  checks |-> NextChecks(protection, credsChanged),
                  protection |-> protection,
                  version |-> upRow.version + 1,
                  creds |-> IF credsChanged THEN upRow.creds + 1 ELSE upRow.creds]
       /\ evidence' = IF credsChanged THEN "none" ELSE evidence
  /\ upRow'.suspended # upRow.suspended => next <= MaxTransitions
  /\ next' = IF upRow'.suspended # upRow.suspended THEN next + 1 ELSE next
  /\ Announce
  /\ UNCHANGED <<pending, inFlight, loop, last, manual, refreshes,
                 told, heard>>

SendDirectly(s) ==
  /\ s \in sending
  /\ sending' = sending \ {s}
  /\ told' = s.event
  /\ UNCHANGED <<upRow, pending, inFlight, loop, last, manual, bounds, heard, evidence, foreign>>

SendFails(s) ==
  /\ s \in sending
  /\ sending' = (sending \ {s}) \cup
       {t \in {[s EXCEPT !.left = s.left - 1]} : t.left > 0}
  /\ UNCHANGED <<upRow, pending, inFlight, loop, last, manual, bounds, announced>>

NotifyStep(w) ==
  Suppress(w) \/ Pass(w) \/ Deliver(w) \/ DeliveryFails(w) \/ Remember(w)
    \/ AckPending(w) \/ ReleaseRetry(w)

LoopStep(w) == StartRound(w) \/ RetryPending(w) \/ NotifyStep(w)

BalanceNext ==
  \/ \E w \in Loops : LoopStep(w)
  \/ Probe \/ SaveReading \/ SaveRefused \/ SetPending
  \/ CooldownEnds
  \/ RefreshBalance \/ SaveRefresh \/ UpdateUpstream
  \/ \E s \in sending : SendDirectly(s) \/ SendFails(s)

BalanceSpec == BalanceInit /\ [][BalanceNext]_balanceVars

(* The loops go on, and the outbox takes what it is offered again and      *)
(* again.                                                                  *)
BalanceFairSpec ==
  /\ BalanceSpec
  /\ \A w \in Loops : WF_balanceVars(LoopStep(w)) /\ SF_balanceVars(Deliver(w))
  /\ WF_balanceVars(Probe \/ SaveReading \/ SaveRefused \/ SetPending)

-----------------------------------------------------------------------------
(* Properties.                                                             *)

(* Protection follows evidence about the credentials in use: an upstream   *)
(* is suspended by a zero balance an administrator read, or by two in a    *)
(* row, and resumes only with a balance to use or without protection.      *)
ProtectionFollowsEvidence ==
  [][ /\ upRow'.suspended /\ ~upRow.suspended => upRow'.protection /\ evidence' = "zeros"
      /\ upRow.suspended /\ ~upRow'.suspended => ~upRow'.protection \/ evidence' = "usable"
    ]_balanceVars

(* What the monitor tells it tells in the order it happened.               *)
ToldInOrder == [][heard' >= heard]_balanceVars

(* The newest transition is on its way or what was told last, as long as   *)
(* the monitor makes all transitions: a failed, suppressed or overtaken    *)
(* delivery never loses it.                                                *)
NewestIsKept ==
  \/ foreign
  \/ told.state = Transition(upRow)
  \/ pending.id = next - 1
  \/ \E w \in Loops : loop[w].event.id = next - 1

(* Together: a transition is neither lost nor told after a later one.      *)
TransitionsAreKept == []NewestIsKept /\ ToldInOrder

(* Once the row no longer changes, as it does not after MaxTransitions,    *)
(* what was told last is what it says.                                     *)
ToldInTheEnd == <>[](foreign \/ told.state = Transition(upRow))

(* docs/architecture.en.md, on balance protection: transitions "are        *)
(* persisted as operational events and delivered to enabled notification   *)
(* channels".  One that the cooldown holds back was told last.             *)
TransitionsAreDelivered ==
  [][ \A w \in Loops : Suppress(w) => told.state = loop[w].event.state ]_balanceVars
=============================================================================
