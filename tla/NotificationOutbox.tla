-------------------------- MODULE NotificationOutbox --------------------------
(***************************************************************************)
(* The notification outbox: events are enqueued as one job per channel     *)
(* (OutboxNotifier.Notify, EnqueueNotificationsForChannels), workers claim *)
(* due jobs under a lease, renew the lease, deliver jobs of one channel as *)
(* one message, and complete, retry or bury each job                       *)
(* (RunNotificationWorker and internal/store/notifications.go).            *)
(*                                                                         *)
(* Time is counted in ticks of 20 s, the limit of one renewal and          *)
(* delivery.  wait[j] is what is left until next_attempt_at, 0 when it has *)
(* passed: the same column is the retry time of a job nobody holds and the *)
(* end of the lease of one that a worker holds.                            *)
(*                                                                         *)
(* lease_version only ever grows, and is only ever compared for equality   *)
(* with the copy a worker took: holder[j] names the worker whose copy is   *)
(* the current one, None once any statement has advanced the version.      *)
(*                                                                         *)
(* All events have one type, state and severity, so that a group is what a *)
(* worker has claimed of one channel.  An event without any channel (one   *)
(* job without a channel) and a payload that does not parse are left out,  *)
(* and a channel that was disabled is not enabled again.                   *)
(***************************************************************************)
EXTENDS Naturals, FiniteSets

CONSTANTS
  Events,       (* alerts to be announced                                  *)
  Channels,     (* rows of notification_channels, enabled                  *)
  Workers,      (* one per replica                                         *)
  None,
  BatchSize,    (* notificationBatchSize                                   *)
  MaxAttempts,  (* notificationMaxAttempts                                 *)
  Minute,       (* ticks in 60 s                                           *)
  MaxCount      (* attempts and tries are counted up to here               *)

ASSUME OutboxAssumption ==
  /\ None \notin Workers
  /\ BatchSize \in Nat \ {0}
  /\ MaxAttempts \in Nat \ {0}
  /\ Minute \in Nat /\ Minute >= 2   (* a renewal outlasts a delivery    *)
  /\ IsFiniteSet(Events) /\ IsFiniteSet(Channels)
  /\ MaxCount \in Nat /\ MaxCount >= MaxAttempts

Jobs == Events \X Channels
ChannelOf(j) == j[2]

VARIABLES
  channels,  (* the channels that exist and are enabled                    *)
  status,    (* of each job: not enqueued, a row, a dead letter, deleted   *)
  attempts,  (* the column                                                 *)
  wait,      (* ticks until next_attempt_at                                *)
  holder,    (* whose copy of lease_version is the current one             *)
  pc,        (* where each worker stands                                   *)
  batch,     (* the jobs it has claimed and not come to yet                *)
  took,      (* attempts in its copies                                     *)
  todo,      (* the jobs of its group it has not renewed yet               *)
  group,     (* the jobs it delivers, or has delivered and not settled     *)
  left,      (* ticks left of deliveryCtx                                  *)
  accepted,  (* history: jobs some channel has accepted                    *)
  tries      (* history: deliveries of a job that failed since it was
                enqueued, by Notify or by the administrator                *)

rowVars == <<status, attempts, wait, holder>>
workerVars == <<pc, batch, took, todo, group, left>>
vars == <<channels, rowVars, workerVars, accepted, tries>>

TypeOK ==
  /\ channels \in SUBSET Channels
  /\ status \in [Jobs -> {"none", "pending", "dead", "gone"}]
  /\ attempts \in [Jobs -> 0..MaxCount]
  /\ wait \in [Jobs -> Nat]
  /\ holder \in [Jobs -> Workers \cup {None}]
  /\ pc \in [Workers -> {"idle", "next", "renew", "deliver",
                          "delivered", "failed"}]
  /\ batch \in [Workers -> SUBSET Jobs]
  /\ took \in [Workers -> [Jobs -> 0..MaxCount]]
  /\ todo \in [Workers -> SUBSET Jobs]
  /\ group \in [Workers -> SUBSET Jobs]
  /\ left \in [Workers -> 0..1]
  /\ accepted \in SUBSET Jobs
  /\ tries \in [Jobs -> 0..MaxCount]
  /\ \A j \in Jobs : holder[j] # None => status[j] = "pending"
  /\ \A w \in Workers : Cardinality(batch[w] \cup todo[w] \cup group[w])
                          <= BatchSize

Init ==
  /\ channels = Channels
  /\ status = [j \in Jobs |-> "none"]
  /\ attempts = [j \in Jobs |-> 0]
  /\ wait = [j \in Jobs |-> 0]
  /\ holder = [j \in Jobs |-> None]
  /\ pc = [w \in Workers |-> "idle"]
  /\ batch = [w \in Workers |-> {}]
  /\ took = [w \in Workers |-> [j \in Jobs |-> 0]]
  /\ todo = [w \in Workers |-> {}]
  /\ group = [w \in Workers |-> {}]
  /\ left = [w \in Workers |-> 0]
  /\ accepted = {}
  /\ tries = [j \in Jobs |-> 0]

Up(n) == IF n < MaxCount THEN n + 1 ELSE n

Row(j) == status[j] \in {"pending", "dead"}

(* Rows that are deleted leave nothing behind.                             *)
Delete(rows) ==
  /\ status' = [j \in Jobs |-> IF j \in rows THEN "gone" ELSE status[j]]
  /\ attempts' = [j \in Jobs |-> IF j \in rows THEN 0 ELSE attempts[j]]
  /\ wait' = [j \in Jobs |-> IF j \in rows THEN 0 ELSE wait[j]]
  /\ holder' = [j \in Jobs |-> IF j \in rows THEN None ELSE holder[j]]

-----------------------------------------------------------------------------
(* Producers, administrators, time.                                        *)

(* One transaction; the worker comes to it 10 s later at the earliest.     *)
Enqueue(e) ==
  LET rows == {e} \X channels IN
  /\ channels # {}
  /\ \A c \in Channels : status[<<e, c>>] = "none"
  /\ status' = [j \in Jobs |-> IF j \in rows THEN "pending" ELSE status[j]]
  /\ wait' = [j \in Jobs |-> IF j \in rows THEN 1 ELSE wait[j]]
  /\ UNCHANGED <<channels, attempts, holder, workerVars, accepted, tries>>

(* The jobs of a disabled channel stay and are completed as they come up.  *)
DisableChannel(c) ==
  /\ c \in channels
  /\ channels' = channels \ {c}
  /\ UNCHANGED <<rowVars, workerVars, accepted, tries>>

(* ON DELETE CASCADE takes the jobs with the channel.                      *)
DeleteChannel(c) ==
  /\ c \in channels \/ \E j \in Jobs : ChannelOf(j) = c /\ Row(j)
  /\ channels' = channels \ {c}
  /\ Delete({j \in Jobs : ChannelOf(j) = c /\ Row(j)})
  /\ tries' = [j \in Jobs |-> IF ChannelOf(j) = c THEN 0 ELSE tries[j]]
  /\ UNCHANGED <<workerVars, accepted>>

RetryDead(j) ==
  /\ status[j] = "dead" /\ ChannelOf(j) \in channels
  /\ status' = [status EXCEPT ![j] = "pending"]
  /\ attempts' = [attempts EXCEPT ![j] = 0]
  /\ wait' = [wait EXCEPT ![j] = 0]
  /\ holder' = [holder EXCEPT ![j] = None]
  /\ tries' = [tries EXCEPT ![j] = 0]
  /\ UNCHANGED <<channels, workerVars, accepted>>

(* deliveryCtx ends a renewal and a delivery within one tick.              *)
Tick ==
  /\ \A w \in Workers : pc[w] \in {"renew", "deliver"} => left[w] > 0
  /\ wait' = [j \in Jobs |-> IF wait[j] > 0 THEN wait[j] - 1 ELSE 0]
  /\ left' = [w \in Workers |-> 0]
  /\ UNCHANGED <<channels, status, attempts, holder, pc, batch, took, todo,
                 group, accepted, tries>>

-----------------------------------------------------------------------------
(* Claiming.                                                               *)

FewAttemptsLeft(j) ==
  status[j] = "pending" /\ wait[j] = 0 /\ attempts[j] < MaxAttempts
Due(j) == status[j] = "pending" /\ wait[j] = 0

(* A minute for each attempt, 15 at most.                                  *)
Lease(n) == IF n < 15 THEN n * Minute ELSE 15 * Minute

Batches ==
  LET due == {j \in Jobs : Due(j)} IN
  {S \in SUBSET due : /\ S # {}
                      /\ \/ Cardinality(S) = BatchSize
                         \/ S = due /\ Cardinality(due) < BatchSize}

Take(S, who) ==
  /\ attempts' = [j \in Jobs |-> IF j \in S THEN Up(attempts[j])
                                           ELSE attempts[j]]
  /\ wait' = [j \in Jobs |-> IF j \in S THEN Lease(Up(attempts[j]))
                                       ELSE wait[j]]
  /\ holder' = [j \in Jobs |-> IF j \in S THEN who ELSE holder[j]]

ClaimBatch(w, S) ==
  /\ pc[w] = "idle"
  /\ S \in Batches
  /\ Take(S, w)
  /\ batch' = [batch EXCEPT ![w] = S]
  /\ took' = [took EXCEPT ![w] = [j \in Jobs |->
                IF j \in S THEN attempts'[j] ELSE 0]]
  /\ pc' = [pc EXCEPT ![w] = "next"]
  /\ UNCHANGED <<channels, status, todo, group, left, accepted, tries>>

Claim(w) == \E S \in SUBSET Jobs : ClaimBatch(w, S)

(* The commit is not acknowledged: the jobs are leased to nobody.          *)
ClaimUnacknowledged(w) ==
  /\ pc[w] = "idle"
  /\ \E S \in Batches : Take(S, None)
  /\ UNCHANGED <<channels, status, workerVars, accepted, tries>>

-----------------------------------------------------------------------------
(* One group after the other.                                              *)

StartGroup(w) ==
  /\ pc[w] = "next"
  /\ \E c \in Channels :
       LET jobs == {j \in batch[w] : ChannelOf(j) = c} IN
       /\ jobs # {}
       /\ todo' = [todo EXCEPT ![w] = jobs]
       /\ batch' = [batch EXCEPT ![w] = @ \ jobs]
  /\ left' = [left EXCEPT ![w] = 1]
  /\ pc' = [pc EXCEPT ![w] = "renew"]
  /\ UNCHANGED <<channels, rowVars, took, group, accepted, tries>>

(* The condition of RenewNotification, CompleteNotification,               *)
(* FailNotification and DeadNotification.                                  *)
Owns(w, j) == holder[j] = w /\ status[j] = "pending" /\ wait[j] > 0

RenewAnyway(w, j) == status[j] = "pending"
Renewable(w, j) == Owns(w, j)

Renew(w, j) ==
  /\ pc[w] = "renew" /\ j \in todo[w]
  /\ todo' = [todo EXCEPT ![w] = @ \ {j}]
  /\ IF Renewable(w, j)
     THEN /\ wait' = [wait EXCEPT ![j] = Minute]
          /\ group' = [group EXCEPT ![w] = @ \cup {j}]
          /\ UNCHANGED took
     ELSE took' = [took EXCEPT ![w][j] = 0] /\ UNCHANGED <<wait, group>>
  /\ UNCHANGED <<channels, status, attempts, holder, pc, batch, left,
                 accepted, tries>>

(* The statement fails, before or after it was committed.                  *)
RenewFails(w, j) ==
  /\ pc[w] = "renew" /\ j \in todo[w]
  /\ todo' = [todo EXCEPT ![w] = @ \ {j}]
  /\ took' = [took EXCEPT ![w][j] = 0]
  /\ \/ Owns(w, j) /\ wait' = [wait EXCEPT ![j] = Minute]
     \/ UNCHANGED wait
  /\ UNCHANGED <<channels, status, attempts, holder, pc, batch, group,
                 left, accepted, tries>>

NextGroup(w) == IF batch[w] = {} THEN "idle" ELSE "next"

Deliver(w) ==
  /\ pc[w] = "renew" /\ todo[w] = {}
  /\ IF group[w] = {}
     THEN /\ pc' = [pc EXCEPT ![w] = NextGroup(w)]
          /\ left' = [left EXCEPT ![w] = 0]
     ELSE pc' = [pc EXCEPT ![w] = "deliver"] /\ UNCHANGED left
  /\ UNCHANGED <<channels, rowVars, batch, took, todo, group, accepted,
                 tries>>

(* NotifyChannel reports success too when the channel is gone or disabled. *)
DeliveryOK(w) ==
  /\ pc[w] = "deliver"
  /\ pc' = [pc EXCEPT ![w] = "delivered"]
  /\ left' = [left EXCEPT ![w] = 0]
  /\ \/ accepted' = accepted \cup group[w]
     \/ /\ \A j \in group[w] : ChannelOf(j) \notin channels
        /\ UNCHANGED accepted
  /\ UNCHANGED <<channels, rowVars, batch, took, todo, group, tries>>

(* The channel answers with an error or not in time; it may nevertheless   *)
(* have accepted the message.                                              *)
DeliveryFails(w) ==
  /\ pc[w] = "deliver"
  /\ pc' = [pc EXCEPT ![w] = "failed"]
  /\ left' = [left EXCEPT ![w] = 0]
  /\ \E got \in {{}, group[w]} : accepted' = accepted \cup got
  /\ tries' = [j \in Jobs |-> IF j \in group[w] THEN Up(tries[j])
                                              ELSE tries[j]]
  /\ UNCHANGED <<channels, rowVars, batch, took, todo, group>>

-----------------------------------------------------------------------------
(* Settling the jobs of the group one by one.                              *)

(* 10 s, a minute, five minutes.                                           *)
RetryDelay(n) == IF n <= 1 THEN 1 ELSE IF n = 2 THEN Minute ELSE 5 * Minute

Exhausted(w, j) == took[w][j] >= MaxAttempts

Complete(w, j) == pc[w] = "delivered" /\ Delete({j})

Retry(w, j) ==
  /\ pc[w] = "failed" /\ ~Exhausted(w, j)
  /\ wait' = [wait EXCEPT ![j] = RetryDelay(took[w][j])]
  /\ holder' = [holder EXCEPT ![j] = None]
  /\ UNCHANGED <<status, attempts>>

DropExhausted(w, j) ==
  /\ pc[w] = "failed" /\ Exhausted(w, j)
  /\ Delete({j})

Bury(w, j) ==
  /\ pc[w] = "failed" /\ Exhausted(w, j)
  /\ status' = [status EXCEPT ![j] = "dead"]
  /\ wait' = [wait EXCEPT ![j] = 0]
  /\ holder' = [holder EXCEPT ![j] = None]
  /\ UNCHANGED attempts

(* A lost lease changes nothing.                                           *)
LeaseLost(w, j) == ~Owns(w, j) /\ UNCHANGED rowVars

Forget(w, j) ==
  /\ pc[w] \in {"delivered", "failed"} /\ j \in group[w]
  /\ group' = [group EXCEPT ![w] = @ \ {j}]
  /\ took' = [took EXCEPT ![w][j] = 0]
  /\ pc' = [pc EXCEPT ![w] = IF group[w] = {j} THEN NextGroup(w) ELSE @]
  /\ UNCHANGED <<channels, batch, todo, left, accepted, tries>>

Settle(w, j) ==
  /\ Forget(w, j)
  /\ \/ Owns(w, j) /\ (Complete(w, j) \/ Retry(w, j) \/ Bury(w, j))
     \/ LeaseLost(w, j)

(* The statement fails: the job is left to the end of its lease.           *)
SettleFails(w, j) == Forget(w, j) /\ UNCHANGED rowVars

(* The process crashes, or shuts down between two steps; another one       *)
(* starts, whose copies are its own.                                       *)
Crash(w) ==
  /\ pc[w] # "idle"
  /\ pc' = [pc EXCEPT ![w] = "idle"]
  /\ took' = [took EXCEPT ![w] = [j \in Jobs |-> 0]]
  /\ left' = [left EXCEPT ![w] = 0]
  /\ batch' = [batch EXCEPT ![w] = {}]
  /\ todo' = [todo EXCEPT ![w] = {}]
  /\ group' = [group EXCEPT ![w] = {}]
  /\ holder' = [j \in Jobs |-> IF holder[j] = w THEN None ELSE holder[j]]
  /\ UNCHANGED <<channels, status, attempts, wait, accepted, tries>>

-----------------------------------------------------------------------------

WorkerStep(w) ==
  \/ StartGroup(w) \/ Deliver(w) \/ DeliveryOK(w) \/ DeliveryFails(w)
  \/ \E j \in Jobs : Renew(w, j) \/ Settle(w, j)

Fault(w) ==
  \/ ClaimUnacknowledged(w) \/ Crash(w)
  \/ \E j \in Jobs : RenewFails(w, j) \/ SettleFails(w, j)

Act ==
  \/ \E e \in Events : Enqueue(e)
  \/ \E c \in Channels : DeleteChannel(c) \/ DisableChannel(c)
  \/ \E j \in Jobs : RetryDead(j)
  \/ \E w \in Workers : Claim(w) \/ WorkerStep(w)

Next == Act \/ Tick \/ \E w \in Workers : Fault(w)

Spec == Init /\ [][Next]_vars

(* Statements succeed, nobody crashes, and only deliveries and the         *)
(* renewals before them take time to speak of.                             *)
QuickTick ==
  /\ \A w \in Workers : pc[w] \notin {"next", "delivered", "failed"}
  /\ Tick

CalmNext == Act \/ QuickTick
CalmSpec == Init /\ [][CalmNext]_vars

(* Workers poll and go on, time passes, and a due job is claimed now and   *)
(* then: a claim takes the jobs that have been due longest.                *)
FairSpec ==
  /\ Spec
  /\ WF_vars(Tick)
  /\ \A w \in Workers : WF_vars(WorkerStep(w))
  /\ \A j \in Jobs :
       SF_vars(\E w \in Workers : \E S \in SUBSET Jobs :
                 j \in S /\ ClaimBatch(w, S))

-----------------------------------------------------------------------------
(* Properties.                                                             *)

(* While one worker delivers a job no other does: what it renewed is held  *)
(* for longer than the delivery may take, and a worker whose lease has     *)
(* lapsed, been taken over, or been voided by a manual retry cannot touch  *)
(* the job of its successor.                                               *)
NoDoubleDelivery ==
  \A v, w \in Workers :
    (v # w /\ pc[v] = "deliver" /\ pc[w] = "deliver")
      => group[v] \cap group[w] = {}

(* At least once: a job leaves the outbox because its channel has accepted *)
(* it or is deleted or disabled, for no other reason, whatever crashes.    *)
NothingSilentlyLost ==
  \A j \in Jobs :
    status[j] = "gone" => j \in accepted \/ ChannelOf(j) \notin channels

(* A dead letter was claimed MaxAttempts times since it was last enqueued, *)
(* and at least one of the deliveries failed.                              *)
DeadIsExhausted ==
  \A j \in Jobs :
    status[j] = "dead" => attempts[j] >= MaxAttempts /\ tries[j] > 0

(* The documentation: a channel "retries failed deliveries after 10        *)
(* seconds, one minute, and five minutes, then keeps the job as a dead     *)
(* letter after five attempts".                                            *)
DeadLetterHadAllItsTries ==
  \A j \in Jobs : status[j] = "dead" => tries[j] >= MaxAttempts

(* A channel that accepts what it is sent gets every job, although the     *)
(* other channels fail or time out in the same batches, and although       *)
(* workers have crashed and left jobs with their attempts used up.         *)
HealthyChannelDelivers ==
  \A c \in Channels :
    (<>[][ /\ CalmNext
           /\ ~DeleteChannel(c) /\ ~DisableChannel(c)
           /\ \A w \in Workers :
                DeliveryFails(w) => \A j \in group[w] : ChannelOf(j) # c
         ]_vars)
      => \A e \in Events :
           status[<<e, c>>] = "pending"
             ~> status[<<e, c>>] \in {"gone", "dead"}
=============================================================================
