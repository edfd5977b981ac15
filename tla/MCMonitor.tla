------------------------------ MODULE MCMonitor -----------------------------
(* Small instances for TLC of the two sides of the upstream monitor, which *)
(* share no state: a behaviour is one of an incident or one of a balance.  *)
(* One tick is half a minute, the half hours of the policies are a few     *)
(* ticks long.                                                             *)
EXTENDS NotificationIncidents, BalanceMonitor

VARIABLE side

HealthPolicy == [path |-> "health", interval |-> 1, firing |-> 1, recovery |-> 1,
  cooldown |-> 2, stable |-> 2, gap |-> 1, max |-> 2, repeat |-> FALSE]
ErrorRatePolicy == [path |-> "alert", interval |-> 1, firing |-> 2, recovery |-> 2,
  cooldown |-> 1, stable |-> 2, gap |-> 1, max |-> 2, repeat |-> TRUE]

MCPolicies == {HealthPolicy, ErrorRatePolicy}

(* The side that is not watched stays in one of its initial states.        *)
MCInit ==
  /\ Init /\ BalanceInit
  /\ side \in {"incident", "balance"}
  /\ side = "incident" => upRow.protection
  /\ side = "balance" => policy = HealthPolicy /\ said = "none"

MCNext ==
  \/ side = "incident" /\ Next /\ UNCHANGED <<side, balanceVars>>
  \/ side = "balance" /\ BalanceNext /\ UNCHANGED <<side, vars>>

Incident(A) == side = "incident" /\ A /\ UNCHANGED <<side, balanceVars>>
Balance(A) == side = "balance" /\ A /\ UNCHANGED <<side, vars>>
mcVars == <<side, vars, balanceVars>>

Either(A, B) == Incident(A) \/ Balance(B)

(* A behaviour stays on its side: one formula asks for what either needs.  *)
MCSpec ==
  /\ MCInit /\ [][MCNext]_mcVars
  /\ WF_mcVars(Either(WorkerStep, LoopStep("balances")))
  /\ SF_mcVars(Either(Enqueue, Deliver("balances")))
  /\ WF_mcVars(Either(Tick, LoopStep("health")))
  /\ SF_mcVars(Balance(Deliver("health")))
  /\ WF_mcVars(Balance(Probe \/ SaveReading \/ SaveRefused \/ SetPending))
=============================================================================
