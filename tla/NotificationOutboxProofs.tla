----------------------- MODULE NotificationOutboxProofs -----------------------
(***************************************************************************)
(* Proofs about NotificationOutbox: for any number of events, channels and *)
(* workers, whatever crashes and whichever statement fails, two workers    *)
(* never deliver one job at the same time, no job is lost, and a dead      *)
(* letter has used up its attempts.                                        *)
(*                                                                         *)
(* The argument.  A worker that delivers has renewed its jobs for at least *)
(* two ticks, and its delivery ends within one: the lease is not due again *)
(* before then, so that nobody else can claim, renew or settle the job.    *)
(* After the delivery the lease may lapse, and the version alone decides   *)
(* who may settle: it is still the worker's own only if the attempts in    *)
(* its copy are those of the row.                                          *)
(*                                                                         *)
(* At the end, proofs about BalanceDiscovery, the other thing the process  *)
(* asks of systems it does not know: for any number of checks at once, a   *)
(* check returns the best answer there is.                                 *)
(***************************************************************************)
EXTENDS NotificationOutbox, BalanceDiscovery, FiniteSetTheorems, TLAPS

Shapes ==
  /\ channels \in SUBSET Channels
  /\ status \in [Jobs -> {"none", "pending", "dead", "gone"}]
  /\ attempts \in [Jobs -> 0..MaxCount]
  /\ wait \in [Jobs -> Nat]
  /\ holder \in [Jobs -> Workers \cup {None}]
  /\ pc \in [Workers -> {"idle", "next", "renew", "deliver",
                          "delivered", "failed"}]
  /\ batch \in [Workers -> SUBSET Jobs]
  /\ took \in [Workers -> [Jobs -> 0..MaxCount]]
  /\ todo \in [Workers -> SUBSET Jobs]
  /\ group \in [Workers -> SUBSET Jobs]
  /\ left \in [Workers -> 0..1]
  /\ accepted \in SUBSET Jobs
  /\ tries \in [Jobs -> 0..MaxCount]

Claimed(w) == batch[w] \cup todo[w] \cup group[w]

(* What a worker still has of its batch, by where it stands.               *)
Phases ==
  \A w \in Workers :
    /\ pc[w] = "idle" => Claimed(w) = {}
    /\ pc[w] = "next" => todo[w] = {} /\ group[w] = {}
    /\ pc[w] # "renew" => todo[w] = {}
    /\ batch[w] \cap todo[w] = {}
    /\ batch[w] \cap group[w] = {}
    /\ todo[w] \cap group[w] = {}

BatchFits ==
  \A w \in Workers : IsFiniteSet(Claimed(w))
                     /\ Cardinality(Claimed(w)) <= BatchSize

HeldIsPending == \A j \in Jobs : holder[j] # None => status[j] = "pending"

Sending(w) == pc[w] \in {"renew", "deliver"}

(* What was renewed is held until the delivery must have ended.            *)
LeaseHeld ==
  \A w \in Workers : Sending(w) => \A j \in group[w] :
    \/ status[j] = "gone"
    \/ /\ holder[j] = w /\ status[j] = "pending"
       /\ wait[j] >= Minute - 1 + left[w]

SentByOne ==
  \A v, w \in Workers :
    v # w /\ Sending(v) /\ Sending(w) => group[v] \cap group[w] = {}

(* What a worker is about to complete has reached its channel.             *)
Answered ==
  \A w \in Workers : pc[w] = "delivered" => \A j \in group[w] :
    j \in accepted \/ ChannelOf(j) \notin channels

(* A worker whose copy is current knows the attempts of the row.           *)
CopyIsCurrent ==
  \A w \in Workers : \A j \in Claimed(w) :
    holder[j] = w => took[w][j] = attempts[j]

FailureCounted ==
  \A w \in Workers : pc[w] = "failed" => \A j \in group[w] :
    holder[j] = w => tries[j] > 0

DeliveryInv == LeaseHeld /\ SentByOne /\ Answered /\ NothingSilentlyLost
AttemptInv == CopyIsCurrent /\ FailureCounted /\ DeadIsExhausted

IInv ==
  /\ Shapes /\ Phases /\ BatchFits /\ HeldIsPending
  /\ DeliveryInv /\ AttemptInv

-----------------------------------------------------------------------------

LEMMA InitIInv == Init => IInv
<1> SUFFICES ASSUME Init PROVE IInv
  OBVIOUS
<1>1. Shapes /\ Phases /\ HeldIsPending
  BY OutboxAssumption DEF Init, Shapes, Phases, HeldIsPending, Claimed
<1>2. BatchFits
  <2> SUFFICES ASSUME NEW w \in Workers
               PROVE  IsFiniteSet(Claimed(w)) /\ Cardinality(Claimed(w)) <= BatchSize
    BY DEF BatchFits
  <2>1. Claimed(w) = {}
    BY DEF Init, Claimed
  <2> QED
    BY <2>1, FS_EmptySet, OutboxAssumption
<1>3. DeliveryInv
  BY DEF Init, DeliveryInv, LeaseHeld, SentByOne, Answered,
         NothingSilentlyLost
<1>4. AttemptInv
  BY DEF Init, AttemptInv, CopyIsCurrent, FailureCounted, DeadIsExhausted,
         Claimed
<1> QED
  BY <1>1, <1>2, <1>3, <1>4 DEF IInv

(* A batch that only shrinks still fits.                                   *)
LEMMA ShrinkFits ==
  ASSUME BatchFits, NEW w \in Workers, Claimed(w)' \subseteq Claimed(w)
  PROVE  IsFiniteSet(Claimed(w)') /\ Cardinality(Claimed(w)') <= BatchSize
<1>1. IsFiniteSet(Claimed(w)) /\ Cardinality(Claimed(w)) <= BatchSize
  BY DEF BatchFits
<1>2. IsFiniteSet(Claimed(w)') /\ Cardinality(Claimed(w)') <= Cardinality(Claimed(w))
  BY <1>1, FS_Subset
<1> QED
  BY <1>1, <1>2, FS_CardinalityType, OutboxAssumption

(* The jobs are as finite as the events and channels.                      *)
LEMMA JobsFinite == IsFiniteSet(Jobs)
  BY FS_Product, OutboxAssumption DEF Jobs

-----------------------------------------------------------------------------
(* Steps of producers, administrators and time leave the workers alone.    *)

LEMMA OutsideFits ==
  ASSUME BatchFits, UNCHANGED <<batch, todo, group>>
  PROVE  BatchFits'
  BY DEF BatchFits, Claimed

LEMMA EnqueueInv ==
  ASSUME IInv, NEW e \in Events, Enqueue(e) PROVE IInv'
<1> DEFINE rows == {e} \X channels
<1>1. /\ rows \subseteq Jobs
      /\ \A j \in rows : status[j] = "none"
  BY DEF Enqueue, Jobs, IInv, Shapes
<1>2. /\ status' = [j \in Jobs |-> IF j \in rows THEN "pending" ELSE status[j]]
      /\ wait' = [j \in Jobs |-> IF j \in rows THEN 1 ELSE wait[j]]
      /\ UNCHANGED <<channels, attempts, holder, pc, batch, took, todo,
                     group, left, accepted, tries>>
  BY DEF Enqueue, workerVars
<1> HIDE DEF rows
<1>3. Shapes'
  BY <1>2 DEF IInv, Shapes
<1>4. Phases' /\ HeldIsPending' /\ BatchFits'
  BY <1>1, <1>2, OutsideFits DEF IInv, Shapes, Phases, HeldIsPending, Claimed
<1>5. DeliveryInv'
  BY <1>1, <1>2 DEF IInv, Shapes, DeliveryInv, LeaseHeld, SentByOne,
                    Answered, NothingSilentlyLost, Sending
<1>6. AttemptInv'
  BY <1>1, <1>2 DEF IInv, Shapes, AttemptInv, CopyIsCurrent, FailureCounted,
                    DeadIsExhausted, Claimed
<1> QED
  BY <1>3, <1>4, <1>5, <1>6 DEF IInv

LEMMA DeleteChannelInv ==
  ASSUME IInv, NEW c \in Channels, DeleteChannel(c) PROVE IInv'
<1>1. Shapes' /\ Phases' /\ HeldIsPending' /\ BatchFits'
  BY OutsideFits, OutboxAssumption
  DEF DeleteChannel, Delete, IInv, Shapes, Phases, HeldIsPending, Claimed,
      workerVars
<1>2. DeliveryInv'
  BY OutboxAssumption
  DEF DeleteChannel, Delete, Row, IInv, Shapes, DeliveryInv, LeaseHeld,
      SentByOne, Answered, NothingSilentlyLost, Sending, workerVars
<1>3. AttemptInv'
  BY OutboxAssumption
  DEF DeleteChannel, Delete, Row, IInv, Shapes, HeldIsPending, AttemptInv,
      CopyIsCurrent, FailureCounted, DeadIsExhausted, Claimed, workerVars
<1> QED
  BY <1>1, <1>2, <1>3 DEF IInv

LEMMA DisableChannelInv ==
  ASSUME IInv, NEW c \in Channels, DisableChannel(c) PROVE IInv'
<1>1. Shapes' /\ Phases' /\ HeldIsPending' /\ BatchFits'
  BY OutsideFits
  DEF DisableChannel, IInv, Shapes, Phases, HeldIsPending, Claimed, rowVars,
      workerVars
<1>2. DeliveryInv' /\ AttemptInv'
  BY DEF DisableChannel, IInv, DeliveryInv, LeaseHeld, SentByOne, Answered,
         NothingSilentlyLost, Sending, AttemptInv, CopyIsCurrent,
         FailureCounted, DeadIsExhausted, Claimed, rowVars, workerVars
<1> QED
  BY <1>1, <1>2 DEF IInv

LEMMA RetryDeadInv ==
  ASSUME IInv, NEW j \in Jobs, RetryDead(j) PROVE IInv'
<1>0. Shapes' /\ HeldIsPending'
  BY OutboxAssumption DEF RetryDead, IInv, Shapes, HeldIsPending, workerVars
<1>1. Phases' /\ BatchFits'
  BY OutsideFits DEF RetryDead, IInv, Phases, Claimed, workerVars
<1>2. LeaseHeld'
  BY DEF RetryDead, IInv, Shapes, DeliveryInv, LeaseHeld, Sending, workerVars
<1>3. (SentByOne /\ Answered /\ NothingSilentlyLost)'
  BY DEF RetryDead, IInv, Shapes, DeliveryInv, SentByOne, Answered,
         NothingSilentlyLost, Sending, workerVars
<1>4. AttemptInv'
  BY OutboxAssumption
  DEF RetryDead, IInv, Shapes, HeldIsPending, AttemptInv, CopyIsCurrent,
      FailureCounted, DeadIsExhausted, Claimed, workerVars
<1> QED
  BY <1>0, <1>1, <1>2, <1>3, <1>4 DEF IInv, DeliveryInv

LEMMA TickInv ==
  ASSUME IInv, Tick PROVE IInv'
<1>1. Shapes' /\ Phases' /\ HeldIsPending' /\ BatchFits'
  BY OutsideFits DEF Tick, IInv, Shapes, Phases, HeldIsPending, Claimed
<1>2. LeaseHeld'
  BY OutboxAssumption
  DEF Tick, IInv, Shapes, DeliveryInv, LeaseHeld, Sending
<1>3. (SentByOne /\ Answered /\ NothingSilentlyLost /\ AttemptInv)'
  BY DEF Tick, IInv, DeliveryInv, SentByOne, Answered, NothingSilentlyLost,
         Sending, AttemptInv, CopyIsCurrent, FailureCounted, DeadIsExhausted,
         Claimed
<1> QED
  BY <1>1, <1>2, <1>3 DEF IInv, DeliveryInv

-----------------------------------------------------------------------------
(* Claiming: what is due is neither being sent nor held by a live lease.   *)

LEMMA BatchOfDueJobs ==
  ASSUME NEW S \in Batches
  PROVE  /\ S \subseteq Jobs /\ IsFiniteSet(S) /\ Cardinality(S) <= BatchSize
         /\ \A j \in S : status[j] = "pending" /\ wait[j] = 0
<1> DEFINE due == {j \in Jobs : Due(j)}
<1>1. S \subseteq due
  BY DEF Batches
<1>2. S \subseteq Jobs /\ \A j \in S : status[j] = "pending" /\ wait[j] = 0
  BY <1>1 DEF Due
<1>3. IsFiniteSet(S)
  BY <1>2, JobsFinite, FS_Subset
<1>4. Cardinality(S) = BatchSize \/ Cardinality(S) < BatchSize
  BY DEF Batches
<1>5. Cardinality(S) <= BatchSize
  BY <1>3, <1>4, FS_CardinalityType, OutboxAssumption
<1> QED
  BY <1>2, <1>3, <1>5

LEMMA TakeRows ==
  ASSUME IInv, NEW S \in Batches, NEW who \in Workers \cup {None},
         Take(S, who), UNCHANGED <<channels, status, left, accepted, tries>>,
         NEW w \in Workers
  PROVE  /\ Sending(w) => /\ S \cap {j \in group[w] : status[j] # "gone"} = {}
                         /\ \A j \in group[w] :
                              status[j] = "gone" \/ (holder'[j] = holder[j]
                                                     /\ wait'[j] = wait[j])
         /\ \A j \in Jobs \ S : /\ attempts'[j] = attempts[j]
                                 /\ wait'[j] = wait[j]
                                 /\ holder'[j] = holder[j]
         /\ \A j \in S : holder'[j] = who
<1>1. S \subseteq Jobs /\ \A j \in S : status[j] = "pending" /\ wait[j] = 0
  BY BatchOfDueJobs
<1>2. /\ \A j \in Jobs \ S : /\ attempts'[j] = attempts[j]
                              /\ wait'[j] = wait[j]
                              /\ holder'[j] = holder[j]
      /\ \A j \in S : holder'[j] = who
  BY <1>1 DEF Take
<1>3. ASSUME Sending(w), NEW j \in group[w], status[j] # "gone"
      PROVE  j \in Jobs \ S
  <2>1. j \in Jobs /\ wait[j] >= Minute - 1 + left[w] /\ left[w] \in 0..1
    BY <1>3 DEF IInv, Shapes, DeliveryInv, LeaseHeld
  <2> QED
    BY <2>1, <1>1, OutboxAssumption
<1> QED
  BY <1>2, <1>3

(* Whatever is claimed keeps the shapes.                                   *)
LEMMA TakeShapes ==
  ASSUME Shapes, NEW S \in Batches, NEW who \in Workers \cup {None},
         Take(S, who), UNCHANGED status
  PROVE  /\ attempts' \in [Jobs -> 0..MaxCount]
         /\ wait' \in [Jobs -> Nat]
         /\ holder' \in [Jobs -> Workers \cup {None}]
<1>1. \A n \in 0..MaxCount : Up(n) \in 0..MaxCount /\ Lease(Up(n)) \in Nat
  BY OutboxAssumption DEF Up, Lease
<1> QED
  BY <1>1 DEF Take, Shapes

LEMMA TakeHeld ==
  ASSUME IInv, NEW S \in Batches, NEW who \in Workers \cup {None},
         Take(S, who), UNCHANGED status
  PROVE  HeldIsPending'
  BY BatchOfDueJobs DEF Take, IInv, HeldIsPending

LEMMA ClaimInv ==
  ASSUME IInv, NEW w \in Workers, NEW S \in SUBSET Jobs, ClaimBatch(w, S)
  PROVE  IInv'
<1>1. /\ pc[w] = "idle" /\ S \in Batches /\ Take(S, w)
      /\ batch' = [batch EXCEPT ![w] = S]
      /\ took' = [took EXCEPT ![w] = [j \in Jobs |->
                     IF j \in S THEN attempts'[j] ELSE 0]]
      /\ pc' = [pc EXCEPT ![w] = "next"]
      /\ UNCHANGED <<channels, status, todo, group, left, accepted, tries>>
  BY DEF ClaimBatch
<1>2. Claimed(w) = {} /\ Claimed(w)' = S
  BY <1>1 DEF IInv, Shapes, Phases, Claimed
<1>3. \A v \in Workers \ {w} : Claimed(v)' = Claimed(v)
  BY <1>1 DEF IInv, Shapes, Claimed
<1>4. Shapes'
  BY <1>1, TakeShapes, OutboxAssumption DEF IInv, Shapes
<1>5. Phases'
  BY <1>1, <1>2 DEF IInv, Shapes, Phases, Claimed
<1>6. BatchFits'
  BY <1>1, <1>2, <1>3, BatchOfDueJobs DEF IInv, BatchFits
<1>7. HeldIsPending'
  BY <1>1, TakeHeld
<1>8. DeliveryInv'
  <2>1. \A v \in Workers : Sending(v)' <=> Sending(v)
    BY <1>1 DEF Sending, IInv, Shapes
  <2>2. LeaseHeld'
    BY <1>1, <2>1, TakeRows DEF IInv, DeliveryInv, LeaseHeld
  <2>3. (SentByOne /\ Answered /\ NothingSilentlyLost)'
    BY <1>1, <2>1 DEF IInv, Shapes, DeliveryInv, SentByOne, Answered,
                      NothingSilentlyLost
  <2> QED
    BY <2>2, <2>3 DEF DeliveryInv
<1>9. AttemptInv'
  <2>0. \A j \in Jobs : j \in S => holder'[j] = w
    BY <1>1, TakeRows
  <2>1. \A j \in Jobs \ S : attempts'[j] = attempts[j] /\ holder'[j] = holder[j]
    BY <1>1, TakeRows
  <2>2. CopyIsCurrent'
    BY <1>1, <1>2, <1>3, <2>0, <2>1
    DEF IInv, Shapes, AttemptInv, CopyIsCurrent, Claimed
  <2>3. FailureCounted'
    BY <1>1, <2>0, <2>1 DEF IInv, Shapes, AttemptInv, FailureCounted
  <2>4. DeadIsExhausted'
    BY <1>1, <2>1, BatchOfDueJobs DEF IInv, AttemptInv, DeadIsExhausted
  <2> QED
    BY <2>2, <2>3, <2>4 DEF AttemptInv
<1> QED
  BY <1>4, <1>5, <1>6, <1>7, <1>8, <1>9 DEF IInv

LEMMA ClaimUnacknowledgedInv ==
  ASSUME IInv, NEW w \in Workers, ClaimUnacknowledged(w) PROVE IInv'
<1>1. PICK S \in Batches : Take(S, None)
  BY DEF ClaimUnacknowledged
<1>2. UNCHANGED <<channels, status, pc, batch, took, todo, group, left,
                  accepted, tries>>
  BY DEF ClaimUnacknowledged, workerVars
<1>3. /\ \A j \in Jobs : j \in S => holder'[j] = None
      /\ \A j \in Jobs \ S : attempts'[j] = attempts[j] /\ holder'[j] = holder[j]
      /\ \A j \in S : status[j] = "pending"
  BY <1>1, <1>2, TakeRows, BatchOfDueJobs
<1>4. Shapes' /\ HeldIsPending'
  BY <1>1, <1>2, TakeShapes, TakeHeld DEF IInv, Shapes
<1>8. Phases' /\ BatchFits'
  BY <1>2, OutsideFits DEF IInv, Phases, Claimed
<1>5. LeaseHeld'
  BY <1>1, <1>2, TakeRows DEF IInv, DeliveryInv, LeaseHeld, Sending
<1>6. (SentByOne /\ Answered /\ NothingSilentlyLost)'
  BY <1>2 DEF IInv, DeliveryInv, SentByOne, Answered, NothingSilentlyLost,
              Sending
<1>7. AttemptInv'
  <2>1. CopyIsCurrent'
    BY <1>2, <1>3, OutboxAssumption
    DEF IInv, Shapes, AttemptInv, CopyIsCurrent, Claimed
  <2>2. FailureCounted'
    BY <1>2, <1>3, OutboxAssumption DEF IInv, Shapes, AttemptInv, FailureCounted
  <2>3. DeadIsExhausted'
    BY <1>2, <1>3 DEF IInv, AttemptInv, DeadIsExhausted
  <2> QED
    BY <2>1, <2>2, <2>3 DEF AttemptInv
<1> QED
  BY <1>4, <1>5, <1>6, <1>7, <1>8 DEF IInv, DeliveryInv

-----------------------------------------------------------------------------
(* What the steps of a worker have in common: they claim nothing new.      *)

LEMMA KeepFits ==
  ASSUME BatchFits, \A v \in Workers : Claimed(v)' \subseteq Claimed(v)
  PROVE  BatchFits'
  BY ShrinkFits DEF BatchFits

LEMMA KeepCopies ==
  ASSUME CopyIsCurrent,
         \A v \in Workers : Claimed(v)' \subseteq Claimed(v),
         \A v \in Workers : \A i \in Claimed(v)' :
           /\ took'[v][i] = took[v][i]
           /\ holder'[i] = v => holder[i] = v /\ attempts'[i] = attempts[i]
  PROVE  CopyIsCurrent'
  BY DEF CopyIsCurrent

LEMMA StartGroupInv ==
  ASSUME IInv, NEW w \in Workers, StartGroup(w) PROVE IInv'
<1>1. PICK jobs \in SUBSET batch[w] :
        /\ todo' = [todo EXCEPT ![w] = jobs]
        /\ batch' = [batch EXCEPT ![w] = @ \ jobs]
  BY DEF StartGroup
<1>2. /\ pc[w] = "next" /\ pc' = [pc EXCEPT ![w] = "renew"]
      /\ left' = [left EXCEPT ![w] = 1]
      /\ UNCHANGED <<channels, status, attempts, wait, holder, took, group,
                     accepted, tries>>
  BY DEF StartGroup, rowVars
<1>3. todo[w] = {} /\ group[w] = {}
  BY <1>2 DEF IInv, Phases
<1>4. Shapes' /\ HeldIsPending'
  BY <1>1, <1>2 DEF IInv, Shapes, HeldIsPending
<1>5. \A v \in Workers : Claimed(v)' \subseteq Claimed(v)
  BY <1>1, <1>2 DEF IInv, Shapes, Claimed
<1>6. Phases'
  BY <1>1, <1>2, <1>3 DEF IInv, Shapes, Phases, Claimed
<1>7. DeliveryInv'
  BY <1>1, <1>2, <1>3
  DEF IInv, Shapes, DeliveryInv, LeaseHeld, SentByOne, Answered,
      NothingSilentlyLost, Sending
<1>8. AttemptInv'
  BY <1>2, <1>5, KeepCopies
  DEF IInv, Shapes, AttemptInv, FailureCounted, DeadIsExhausted
<1> QED
  BY <1>4, <1>5, <1>6, <1>7, <1>8, KeepFits DEF IInv

LEMMA RenewInv ==
  ASSUME IInv, NEW w \in Workers, NEW j \in Jobs, Renew(w, j) \/ RenewFails(w, j)
  PROVE  IInv'
<1>1. /\ pc[w] = "renew" /\ j \in todo[w]
      /\ todo' = [todo EXCEPT ![w] = @ \ {j}]
      /\ UNCHANGED <<channels, status, attempts, holder, pc, batch, left,
                     accepted, tries>>
  BY DEF Renew, RenewFails
<1>2. \/ /\ Owns(w, j)
         /\ wait' = [wait EXCEPT ![j] = Minute]
         /\ group' = [group EXCEPT ![w] = @ \cup {j}]
         /\ took' = took
      \/ /\ Owns(w, j)
         /\ wait' = [wait EXCEPT ![j] = Minute]
         /\ group' = group
         /\ took' = [took EXCEPT ![w][j] = 0]
      \/ /\ wait' = wait
         /\ group' = group
         /\ took' = [took EXCEPT ![w][j] = 0]
  BY DEF Renew, RenewFails, Renewable
<1>3. Shapes' /\ HeldIsPending'
  <2>1. wait' \in [Jobs -> Nat]
    BY <1>2, OutboxAssumption DEF IInv, Shapes
  <2>2. took' \in [Workers -> [Jobs -> 0..MaxCount]]
    BY <1>2, OutboxAssumption DEF IInv, Shapes
  <2>3. todo' \in [Workers -> SUBSET Jobs] /\ group' \in [Workers -> SUBSET Jobs]
    BY <1>1, <1>2 DEF IInv, Shapes
  <2> QED
    BY <1>1, <2>1, <2>2, <2>3 DEF IInv, Shapes, HeldIsPending
<1>4. \A v \in Workers : Claimed(v)' \subseteq Claimed(v)
  BY <1>1, <1>2 DEF IInv, Shapes, Claimed
<1>5. \A v \in Workers : \A i \in Claimed(v)' : took'[v][i] = took[v][i]
  BY <1>1, <1>2 DEF IInv, Shapes, Phases, Claimed
<1>6. Phases'
  BY <1>1, <1>2 DEF IInv, Shapes, Phases, Claimed
<1>7. ASSUME Owns(w, j), NEW v \in Workers \ {w}, Sending(v)
      PROVE  j \notin group[v]
  BY <1>7 DEF Owns, IInv, DeliveryInv, LeaseHeld
<1>8. LeaseHeld'
  <2> SUFFICES ASSUME NEW v \in Workers, Sending(v), NEW i \in group'[v],
                      status[i] # "gone"
               PROVE  /\ holder[i] = v /\ status[i] = "pending"
                      /\ wait'[i] >= Minute - 1 + left[v]
    BY <1>1 DEF LeaseHeld, Sending
  <2>0. left[v] \in 0..1 /\ wait \in [Jobs -> Nat] /\ group[v] \subseteq Jobs
    BY DEF IInv, Shapes
  <2>1. CASE i = j /\ Owns(w, j) /\ wait' = [wait EXCEPT ![j] = Minute]
    <3>1. v = w
      BY <1>1, <1>2, <1>7, <2>1 DEF IInv, Shapes
    <3> QED
      BY <2>0, <2>1, <3>1, OutboxAssumption DEF Owns
  <2>2. CASE ~(i = j /\ Owns(w, j) /\ wait' = [wait EXCEPT ![j] = Minute])
    <3>1. i \in group[v] /\ wait'[i] = wait[i]
      BY <1>2, <2>0, <2>2 DEF IInv, Shapes
    <3> QED
      BY <3>1 DEF IInv, DeliveryInv, LeaseHeld
  <2> QED
    BY <2>1, <2>2
<1>9. SentByOne'
  <2> SUFFICES ASSUME NEW u \in Workers, NEW v \in Workers, u # v,
                      Sending(u), Sending(v)
               PROVE  group'[u] \cap group'[v] = {}
    BY <1>1 DEF SentByOne, Sending
  <2>1. group[u] \cap group[v] = {}
    BY DEF IInv, DeliveryInv, SentByOne
  <2>2. CASE group' = group
    BY <2>1, <2>2
  <2>3. CASE Owns(w, j) /\ group' = [group EXCEPT ![w] = @ \cup {j}]
    BY <1>7, <2>1, <2>3 DEF IInv, Shapes
  <2> QED
    BY <1>2, <2>2, <2>3
<1>10. (Answered /\ NothingSilentlyLost)'
  BY <1>1, <1>2 DEF IInv, Shapes, DeliveryInv, Answered, NothingSilentlyLost
<1>11. CopyIsCurrent'
  BY <1>1, <1>4, <1>5, KeepCopies DEF IInv, AttemptInv
<1>12. (FailureCounted /\ DeadIsExhausted)'
  BY <1>1, <1>2
  DEF IInv, Shapes, AttemptInv, FailureCounted, DeadIsExhausted
<1> QED
  BY <1>3, <1>4, <1>6, <1>8, <1>9, <1>10, <1>11, <1>12, KeepFits
  DEF IInv, DeliveryInv, AttemptInv

LEMMA DeliverInv ==
  ASSUME IInv, NEW w \in Workers, Deliver(w) PROVE IInv'
<1>1. /\ pc[w] = "renew" /\ todo[w] = {}
      /\ \/ /\ group[w] = {} /\ pc' = [pc EXCEPT ![w] = NextGroup(w)]
            /\ left' = [left EXCEPT ![w] = 0]
         \/ pc' = [pc EXCEPT ![w] = "deliver"] /\ left' = left
      /\ UNCHANGED <<channels, status, attempts, wait, holder, batch, took,
                     todo, group, accepted, tries>>
  BY DEF Deliver, rowVars
<1>6. NextGroup(w) \in {"idle", "next"} /\ (NextGroup(w) = "idle" => batch[w] = {})
  BY DEF NextGroup
<1>2. Shapes' /\ HeldIsPending'
  <2>1. pc' \in [Workers -> {"idle", "next", "renew", "deliver",
                              "delivered", "failed"}]
    BY <1>1, <1>6 DEF IInv, Shapes
  <2>2. left' \in [Workers -> 0..1]
    BY <1>1 DEF IInv, Shapes
  <2> QED
    BY <1>1, <2>1, <2>2 DEF IInv, Shapes, HeldIsPending
<1>3. Phases'
  BY <1>1, <1>6 DEF IInv, Shapes, Phases, Claimed
<1>4. DeliveryInv'
  <2>1. LeaseHeld'
    BY <1>1, <1>6 DEF IInv, Shapes, DeliveryInv, LeaseHeld, Sending
  <2>2. (SentByOne /\ Answered /\ NothingSilentlyLost)'
    BY <1>1, <1>6 DEF IInv, Shapes, DeliveryInv, SentByOne, Answered,
                      NothingSilentlyLost, Sending
  <2> QED
    BY <2>1, <2>2 DEF DeliveryInv
<1>5. AttemptInv'
  BY <1>1, <1>6 DEF IInv, Shapes, AttemptInv, CopyIsCurrent, FailureCounted,
                    DeadIsExhausted, Claimed
<1> QED
  BY <1>1, <1>2, <1>3, <1>4, <1>5, OutsideFits DEF IInv

LEMMA DeliveryOKInv ==
  ASSUME IInv, NEW w \in Workers, DeliveryOK(w) PROVE IInv'
<1>1. /\ pc[w] = "deliver" /\ pc' = [pc EXCEPT ![w] = "delivered"]
      /\ left' = [left EXCEPT ![w] = 0]
      /\ \/ accepted' = accepted \cup group[w]
         \/ (\A j \in group[w] : ChannelOf(j) \notin channels)
            /\ accepted' = accepted
      /\ UNCHANGED <<channels, status, attempts, wait, holder, batch, took,
                     todo, group, tries>>
  BY DEF DeliveryOK, rowVars
<1>2. Shapes' /\ HeldIsPending'
  BY <1>1 DEF IInv, Shapes, HeldIsPending
<1>3. Phases'
  BY <1>1 DEF IInv, Shapes, Phases, Claimed
<1>4. DeliveryInv'
  BY <1>1 DEF IInv, Shapes, DeliveryInv, LeaseHeld, SentByOne, Answered,
              NothingSilentlyLost, Sending
<1>5. AttemptInv'
  BY <1>1 DEF IInv, Shapes, AttemptInv, CopyIsCurrent, FailureCounted,
              DeadIsExhausted, Claimed
<1> QED
  BY <1>1, <1>2, <1>3, <1>4, <1>5, OutsideFits DEF IInv

LEMMA DeliveryFailsInv ==
  ASSUME IInv, NEW w \in Workers, DeliveryFails(w) PROVE IInv'
<1>1. /\ pc[w] = "deliver" /\ pc' = [pc EXCEPT ![w] = "failed"]
      /\ left' = [left EXCEPT ![w] = 0]
      /\ accepted' \in {accepted, accepted \cup group[w]}
      /\ tries' = [j \in Jobs |-> IF j \in group[w] THEN Up(tries[j])
                                                    ELSE tries[j]]
      /\ UNCHANGED <<channels, status, attempts, wait, holder, batch, took,
                     todo, group>>
  BY DEF DeliveryFails, rowVars
<1>2. \A n \in 0..MaxCount : Up(n) \in 0..MaxCount /\ Up(n) > 0
  BY OutboxAssumption DEF Up
<1>3. Shapes' /\ HeldIsPending'
  BY <1>1, <1>2 DEF IInv, Shapes, HeldIsPending
<1>4. Phases'
  BY <1>1 DEF IInv, Shapes, Phases, Claimed
<1>5. DeliveryInv'
  BY <1>1 DEF IInv, Shapes, DeliveryInv, LeaseHeld, SentByOne, Answered,
              NothingSilentlyLost, Sending
<1>6. \A j \in Jobs : /\ tries[j] > 0 => tries'[j] > 0
                      /\ j \in group[w] => tries'[j] > 0
  BY <1>1, <1>2 DEF IInv, Shapes
<1>7. AttemptInv'
  BY <1>1, <1>6 DEF IInv, Shapes, AttemptInv, CopyIsCurrent, FailureCounted,
                    DeadIsExhausted, Claimed
<1> QED
  BY <1>1, <1>3, <1>4, <1>5, <1>7, OutsideFits DEF IInv

-----------------------------------------------------------------------------
(* Settling one job of the group, whatever becomes of its row.             *)

LEMMA ForgetWorkers ==
  ASSUME IInv, NEW w \in Workers, NEW j \in Jobs, Forget(w, j)
  PROVE  /\ pc' \in [Workers -> {"idle", "next", "renew", "deliver",
                                 "delivered", "failed"}]
         /\ took' \in [Workers -> [Jobs -> 0..MaxCount]]
         /\ group' \in [Workers -> SUBSET Jobs]
         /\ Phases' /\ BatchFits'
         /\ \A v \in Workers :
              /\ Claimed(v)' \subseteq Claimed(v)
              /\ group'[v] \subseteq group[v]
              /\ \A i \in Claimed(v)' : took'[v][i] = took[v][i]
              /\ pc'[v] = pc[v] \/ pc'[v] \in {"idle", "next"}
         /\ ~Sending(w) /\ ~Sending(w)'
<1>1. /\ pc[w] \in {"delivered", "failed"} /\ j \in group[w]
      /\ group' = [group EXCEPT ![w] = @ \ {j}]
      /\ took' = [took EXCEPT ![w][j] = 0]
      /\ UNCHANGED <<channels, batch, todo, left, accepted, tries>>
  BY DEF Forget
<1>2. \/ group[w] = {j} /\ pc' = [pc EXCEPT ![w] = "next"]
      \/ group[w] = {j} /\ batch[w] = {} /\ pc' = [pc EXCEPT ![w] = "idle"]
      \/ pc' = pc
  BY DEF Forget, NextGroup, IInv, Shapes
<1>3. /\ pc' \in [Workers -> {"idle", "next", "renew", "deliver",
                              "delivered", "failed"}]
      /\ group' \in [Workers -> SUBSET Jobs]
  BY <1>1, <1>2 DEF IInv, Shapes
<1>4. took' \in [Workers -> [Jobs -> 0..MaxCount]]
  BY <1>1, OutboxAssumption DEF IInv, Shapes
<1>5. \A v \in Workers : /\ Claimed(v)' \subseteq Claimed(v)
                         /\ group'[v] \subseteq group[v]
  BY <1>1 DEF IInv, Shapes, Claimed
<1>6. \A v \in Workers : \A i \in Claimed(v)' : took'[v][i] = took[v][i]
  BY <1>1 DEF IInv, Shapes, Phases, Claimed
<1>7. Phases'
  BY <1>1, <1>2 DEF IInv, Shapes, Phases, Claimed
<1>8. BatchFits'
  BY <1>5, KeepFits DEF IInv
<1>9. \A v \in Workers : pc'[v] = pc[v] \/ pc'[v] \in {"idle", "next"}
  BY <1>2 DEF IInv, Shapes
<1>10. ~Sending(w) /\ ~Sending(w)'
  BY <1>1, <1>2 DEF Sending, IInv, Shapes
<1> QED
  BY <1>3, <1>4, <1>5, <1>6, <1>7, <1>8, <1>9, <1>10

(* Only the owner settles, and only by completing what was answered or     *)
(* burying what is exhausted.                                              *)
LEMMA SettleInv ==
  ASSUME IInv, NEW w \in Workers, NEW j \in Jobs,
         Settle(w, j) \/ SettleFails(w, j)
  PROVE  IInv'
<1>1. Forget(w, j) /\ j \in group[w] /\ UNCHANGED <<channels, batch, todo, left, accepted, tries>>
  BY DEF Settle, SettleFails, Forget
<1>2. \/ UNCHANGED rowVars
      \/ Owns(w, j) /\ (Complete(w, j) \/ Retry(w, j) \/ Bury(w, j))
  BY DEF Settle, SettleFails, LeaseLost
<1>3. /\ status' \in [Jobs -> {"none", "pending", "dead", "gone"}]
      /\ attempts' \in [Jobs -> 0..MaxCount]
      /\ holder' \in [Jobs -> Workers \cup {None}]
  BY <1>2, OutboxAssumption
  DEF IInv, Shapes, rowVars, Complete, Delete, Retry, Bury
<1>4. wait' \in [Jobs -> Nat]
  BY <1>2, OutboxAssumption
  DEF IInv, Shapes, rowVars, Complete, Delete, Retry, Bury, RetryDelay
<1>5. \A i \in Jobs \ {j} :
        /\ status'[i] = status[i] /\ attempts'[i] = attempts[i]
        /\ wait'[i] = wait[i] /\ holder'[i] = holder[i]
  BY <1>2 DEF IInv, Shapes, rowVars, Complete, Delete, Retry, Bury
<1>6. \/ /\ status'[j] = status[j] /\ attempts'[j] = attempts[j]
         /\ wait'[j] = wait[j] /\ holder'[j] = holder[j]
      \/ Owns(w, j) /\ holder'[j] = None
  BY <1>2 DEF IInv, Shapes, rowVars, Complete, Delete, Retry, Bury
<1>7. \/ status'[j] = status[j]
      \/ pc[w] = "delivered" /\ status'[j] = "gone"
      \/ /\ pc[w] = "failed" /\ status'[j] = "dead" /\ Owns(w, j)
         /\ Exhausted(w, j) /\ attempts'[j] = attempts[j]
  BY <1>2 DEF IInv, Shapes, rowVars, Complete, Delete, Retry, Bury
<1>8. Shapes'
  BY <1>1, <1>3, <1>4, ForgetWorkers DEF IInv, Shapes
<1>9. HeldIsPending'
  BY <1>3, <1>5, <1>6, <1>7 DEF IInv, HeldIsPending
<1>10. LeaseHeld'
  <2> SUFFICES ASSUME NEW v \in Workers, Sending(v)', NEW i \in group'[v]
               PROVE  \/ status'[i] = "gone"
                      \/ /\ holder'[i] = v /\ status'[i] = "pending"
                         /\ wait'[i] >= Minute - 1 + left'[v]
    BY DEF LeaseHeld
  <2>1. v # w /\ Sending(v) /\ i \in group[v] /\ i \in Jobs
    BY <1>1, ForgetWorkers DEF Sending, IInv, Shapes
  <2>2. \/ status[i] = "gone"
        \/ /\ holder[i] = v /\ status[i] = "pending"
           /\ wait[i] >= Minute - 1 + left[v]
    BY <2>1 DEF IInv, DeliveryInv, LeaseHeld
  <2>3. ~(i = j /\ Owns(w, j))
    BY <2>1, <2>2 DEF Owns
  <2> QED
    BY <1>1, <1>2, <1>5, <2>1, <2>2, <2>3 DEF rowVars
<1>11. SentByOne'
  BY <1>1, ForgetWorkers DEF IInv, DeliveryInv, SentByOne, Sending
<1>12. Answered'
  BY <1>1, ForgetWorkers DEF IInv, DeliveryInv, Answered
<1>13. NothingSilentlyLost'
  BY <1>1, <1>5, <1>7 DEF IInv, DeliveryInv, Answered, NothingSilentlyLost
<1>14. CopyIsCurrent'
  <2>1. \A v \in Workers : \A i \in Claimed(v)' :
          holder'[i] = v => holder[i] = v /\ attempts'[i] = attempts[i]
    BY <1>1, <1>5, <1>6, <1>8, OutboxAssumption DEF Shapes, Claimed
  <2> QED
    BY <1>1, <2>1, ForgetWorkers, KeepCopies DEF IInv, AttemptInv
<1>15. FailureCounted'
  <2> SUFFICES ASSUME NEW v \in Workers, pc'[v] = "failed",
                      NEW i \in group'[v], holder'[i] = v
               PROVE  tries'[i] > 0
    BY DEF FailureCounted
  <2>1. pc[v] = "failed" /\ i \in group[v] /\ i \in Jobs
    BY <1>1, ForgetWorkers DEF IInv, Shapes
  <2>2. holder[i] = v
    BY <1>5, <1>6, <2>1, OutboxAssumption
  <2> QED
    BY <1>1, <2>1, <2>2 DEF IInv, AttemptInv, FailureCounted
<1>16. DeadIsExhausted'
  <2>1. ASSUME pc[w] = "failed", Owns(w, j), Exhausted(w, j)
        PROVE  attempts[j] >= MaxAttempts /\ tries[j] > 0
    BY <1>1, <2>1
    DEF Owns, Exhausted, IInv, AttemptInv, CopyIsCurrent, FailureCounted,
        Claimed
  <2>2. ASSUME status'[j] = "dead"
        PROVE  attempts'[j] >= MaxAttempts /\ tries'[j] > 0
    <3>1. CASE UNCHANGED rowVars
      BY <1>1, <2>2, <3>1 DEF rowVars, IInv, AttemptInv, DeadIsExhausted
    <3>2. CASE Owns(w, j) /\ (Complete(w, j) \/ Retry(w, j) \/ Bury(w, j))
      BY <1>1, <1>7, <2>1, <2>2, <3>2 DEF Owns
    <3> QED
      BY <1>2, <3>1, <3>2
  <2> QED
    BY <1>1, <1>5, <2>2 DEF IInv, AttemptInv, DeadIsExhausted
<1> QED
  BY <1>1, <1>8, <1>9, <1>10, <1>11, <1>12, <1>13, <1>14, <1>15, <1>16,
     ForgetWorkers
  DEF IInv, DeliveryInv, AttemptInv

LEMMA CrashInv ==
  ASSUME IInv, NEW w \in Workers, Crash(w) PROVE IInv'
<1>1. /\ pc' = [pc EXCEPT ![w] = "idle"]
      /\ took' = [took EXCEPT ![w] = [j \in Jobs |-> 0]]
      /\ left' = [left EXCEPT ![w] = 0]
      /\ batch' = [batch EXCEPT ![w] = {}]
      /\ todo' = [todo EXCEPT ![w] = {}]
      /\ group' = [group EXCEPT ![w] = {}]
      /\ holder' = [j \in Jobs |-> IF holder[j] = w THEN None ELSE holder[j]]
      /\ UNCHANGED <<channels, status, attempts, wait, accepted, tries>>
  BY DEF Crash
<1>2. Shapes'
  BY <1>1, OutboxAssumption DEF IInv, Shapes
<1>3. HeldIsPending'
  BY <1>1 DEF IInv, HeldIsPending
<1>4. \A v \in Workers : Claimed(v)' \subseteq Claimed(v)
  BY <1>1 DEF IInv, Shapes, Claimed
<1>5. Phases'
  BY <1>1 DEF IInv, Shapes, Phases, Claimed
<1>6. LeaseHeld'
  BY <1>1 DEF IInv, Shapes, DeliveryInv, LeaseHeld, Sending
<1>7. (SentByOne /\ Answered /\ NothingSilentlyLost)'
  BY <1>1 DEF IInv, Shapes, DeliveryInv, SentByOne, Answered,
              NothingSilentlyLost, Sending
<1>8. \A v \in Workers : \A i \in Claimed(v)' :
        took'[v][i] = took[v][i] /\ (holder'[i] = v => holder[i] = v)
  BY <1>1, OutboxAssumption DEF IInv, Shapes, Claimed
<1>9. CopyIsCurrent'
  BY <1>1, <1>4, <1>8, KeepCopies DEF IInv, AttemptInv
<1>10. (FailureCounted /\ DeadIsExhausted)'
  BY <1>1, OutboxAssumption
  DEF IInv, Shapes, AttemptInv, FailureCounted, DeadIsExhausted
<1> QED
  BY <1>2, <1>3, <1>4, <1>5, <1>6, <1>7, <1>9, <1>10, KeepFits
  DEF IInv, DeliveryInv, AttemptInv

-----------------------------------------------------------------------------

LEMMA NextIInv == IInv /\ [Next]_vars => IInv'
<1> SUFFICES ASSUME IInv, [Next]_vars PROVE IInv'
  OBVIOUS
<1>1. CASE Act
  BY <1>1, EnqueueInv, DeleteChannelInv, DisableChannelInv, RetryDeadInv,
     ClaimInv, StartGroupInv, DeliverInv, DeliveryOKInv, DeliveryFailsInv,
     RenewInv, SettleInv
  DEF Act, Claim, WorkerStep
<1>2. CASE Tick
  BY <1>2, TickInv
<1>3. CASE \E w \in Workers : Fault(w)
  BY <1>3, ClaimUnacknowledgedInv, CrashInv, RenewInv, SettleInv DEF Fault
<1>4. CASE UNCHANGED vars
  BY <1>4, OutsideFits
  DEF vars, rowVars, workerVars, IInv, Shapes, Phases, HeldIsPending,
      DeliveryInv, LeaseHeld, SentByOne, Answered, NothingSilentlyLost,
      AttemptInv, CopyIsCurrent, FailureCounted, DeadIsExhausted, Claimed,
      Sending
<1> QED
  BY <1>1, <1>2, <1>3, <1>4 DEF Next

LEMMA Invariance == Spec => []IInv
  BY InitIInv, NextIInv, PTL DEF Spec

(* The columns and the workers' copies keep their types, a claim never     *)
(* exceeds the batch size, and only a live job has a holder.               *)
THEOREM TypeCorrect == Spec => []TypeOK
<1>1. IInv => TypeOK
  BY DEF IInv, Shapes, HeldIsPending, BatchFits, Claimed, TypeOK
<1> QED
  BY <1>1, Invariance, PTL

(* For any number of workers and any batch: a lease that is renewed for    *)
(* longer than a delivery may take keeps every other worker away from it.  *)
THEOREM DeliveredByOne == Spec => []NoDoubleDelivery
<1>1. IInv => NoDoubleDelivery
  BY DEF IInv, DeliveryInv, SentByOne, Sending, NoDoubleDelivery
<1> QED
  BY <1>1, Invariance, PTL

(* At least once: no crash, lost lease or failed statement makes a job     *)
(* disappear whose channel has not answered.                               *)
THEOREM NoJobLost == Spec => []NothingSilentlyLost
<1>1. IInv => NothingSilentlyLost
  BY DEF IInv, DeliveryInv
<1> QED
  BY <1>1, Invariance, PTL

(* The attempts that bury a job are those of its row, not of a stale copy. *)
THEOREM DeadLetterExhausted == Spec => []DeadIsExhausted
<1>1. IInv => DeadIsExhausted
  BY DEF IInv, AttemptInv
<1> QED
  BY <1>1, Invariance, PTL

-----------------------------------------------------------------------------
(* The search for the balance API of an upstream.                          *)

CheckRecord ==
  [pc : {"idle", "ask", "done"}, start : 0..MaxClock,
   preferred : Paths \cup {"none"}, walk : Seq(Paths),
   replies : [Paths -> Replies], cancelled : BOOLEAN,
   result : Paths \cup {"none", "unknown", "unavailable"}]

SourceTyped == source \in [kind : {"newapi", "sub2api"}, account : BOOLEAN]
HintTyped == hint \in [path : Paths \cup {"none"}, expires : 0..(MaxClock + Lifetime)]

LEMMA Durations == Slots \in Nat /\ Lifetime \in Nat /\ MaxClock \in Nat
BY DiscoveryAssumption

LEMMA DiscoveryParts ==
  DiscoveryTypeOK <=> /\ SourceTyped /\ HintTyped /\ elapsed \in 0..MaxClock
                      /\ check \in [Checks -> CheckRecord]
BY DEF DiscoveryTypeOK, SourceTyped, HintTyped, CheckRecord

LEMMA PathNames ==
  /\ "usage" \in Paths /\ "subscription" \in Paths /\ "token" \in Paths /\ "self" \in Paths
  /\ "none" \notin Paths /\ "unknown" \notin Paths /\ "unavailable" \notin Paths
BY DEF Paths

LEMMA WaitingFields ==
  /\ Waiting \in CheckRecord
  /\ Waiting.pc = "idle" /\ Waiting.walk = <<>> /\ ~Waiting.cancelled
  /\ Waiting.result = "none" /\ Waiting.preferred = "none"
  /\ \A p \in Paths : Waiting.replies[p] = "unasked"
<1>1. [p \in Paths |-> "unasked"] \in [Paths -> Replies]
  BY DEF Replies
<1>2. <<>> \in Seq(Paths) /\ 0 \in 0..MaxClock
  BY Durations
<1>3. Waiting \in CheckRecord
  BY <1>1, <1>2 DEF Waiting, CheckRecord
<1>4. /\ Waiting.pc = "idle" /\ Waiting.walk = <<>> /\ Waiting.cancelled = FALSE
      /\ Waiting.result = "none" /\ Waiting.preferred = "none"
      /\ Waiting.replies = [p \in Paths |-> "unasked"]
  BY DEF Waiting
<1>5. \A p \in Paths : Waiting.replies[p] = "unasked"
  BY <1>4
<1> QED
  BY <1>3, <1>4, <1>5

(* A walk asks every path, and with an account that of the account first.  *)
AsksAll(walk) ==
  /\ \A p \in Paths : \E i \in DOMAIN walk : walk[i] = p
  /\ source.account => 1 \in DOMAIN walk /\ walk[1] = "self"

LEMMA IfFacts ==
  ASSUME NEW condition \in BOOLEAN, NEW path, condition => path \in Paths
  PROVE  /\ If(condition, path) \in Seq(Paths)
         /\ condition => Len(If(condition, path)) = 1 /\ If(condition, path)[1] = path
<1>1. CASE condition
  BY <1>1 DEF If
<1>2. CASE ~condition
  BY <1>2 DEF If
<1> QED
  BY <1>1, <1>2

LEMMA Joined ==
  ASSUME NEW s \in Seq(Paths), NEW t \in Seq(Paths)
  PROVE  /\ s \o t \in Seq(Paths)
         /\ Len(s) >= 1 => 1 \in DOMAIN (s \o t) /\ (s \o t)[1] = s[1]
         /\ \A i \in DOMAIN t : \E j \in DOMAIN (s \o t) : (s \o t)[j] = t[i]
<1>1. s \o t \in Seq(Paths) /\ Len(s \o t) = Len(s) + Len(t)
  OBVIOUS
<1>2. DOMAIN (s \o t) = 1..(Len(s) + Len(t)) /\ DOMAIN t = 1..Len(t)
  BY <1>1
<1>3. Len(s) >= 1 => 1 \in DOMAIN (s \o t) /\ (s \o t)[1] = s[1]
  BY <1>1, <1>2
<1>4. ASSUME NEW i \in DOMAIN t PROVE \E j \in DOMAIN (s \o t) : (s \o t)[j] = t[i]
  <2>1. i \in 1..Len(t) /\ Len(s) \in Nat /\ Len(t) \in Nat
    BY <1>2
  <2>2. Len(s) + i \in DOMAIN (s \o t)
    BY <1>2, <2>1
  <2>3. (s \o t)[Len(s) + i] = t[i]
    BY <1>1, <2>1
  <2> QED
    BY <2>2, <2>3
<1> QED
  BY <1>1, <1>3, <1>4

LEMMA WalkIsComplete ==
  ASSUME SourceTyped, NEW preferred \in Paths \cup {"none"}
  PROVE  Walk(preferred) \in Seq(Paths) /\ AsksAll(Walk(preferred))
<1> DEFINE a == If(source.account, "self")
           h == If(preferred # "none", preferred)
           u == If(source.kind = "sub2api", "usage")
           l == <<"subscription", "token", "self", "usage">>
<1>1. source.account \in BOOLEAN
  BY DEF SourceTyped
<1>2. /\ a \in Seq(Paths) /\ h \in Seq(Paths) /\ u \in Seq(Paths)
      /\ source.account => Len(a) = 1 /\ a[1] = "self"
  BY <1>1, IfFacts, PathNames
<1>3. l \in Seq(Paths)
  BY PathNames
<1>4. \A p \in Paths : \E i \in DOMAIN l : l[i] = p
  <2>1. /\ l[1] = "subscription" /\ l[2] = "token" /\ l[3] = "self" /\ l[4] = "usage"
        /\ {1, 2, 3, 4} \subseteq DOMAIN l
    OBVIOUS
  <2> HIDE DEF l
  <2> QED
    BY <2>1 DEF Paths
<1>5. Walk(preferred) = ((a \o h) \o u) \o l
  BY DEF Walk, AccountFirst
<1> HIDE DEF a, h, u, l
<1>6. /\ a \o h \in Seq(Paths)
      /\ Len(a) >= 1 => 1 \in DOMAIN (a \o h) /\ (a \o h)[1] = a[1]
  BY <1>2, Joined
<1>7. Len(a) >= 1 => Len(a \o h) >= 1
  BY <1>2
<1>8. /\ (a \o h) \o u \in Seq(Paths)
      /\ Len(a \o h) >= 1 => ((a \o h) \o u)[1] = (a \o h)[1]
  BY <1>2, <1>6, Joined
<1>9. Len(a \o h) >= 1 => Len((a \o h) \o u) >= 1
  BY <1>2, <1>6
<1> DEFINE b == (a \o h) \o u
<1>10. /\ b \in Seq(Paths)
       /\ source.account => Len(b) >= 1 /\ b[1] = "self"
  BY <1>2, <1>6, <1>7, <1>8, <1>9
<1> HIDE DEF b
<1>11. /\ b \o l \in Seq(Paths)
       /\ Len(b) >= 1 => 1 \in DOMAIN (b \o l) /\ (b \o l)[1] = b[1]
       /\ \A i \in DOMAIN l : \E j \in DOMAIN (b \o l) : (b \o l)[j] = l[i]
  BY <1>3, <1>10, Joined
<1>12. \A p \in Paths : \E j \in DOMAIN (b \o l) : (b \o l)[j] = p
  BY <1>4, <1>11
<1>13. Walk(preferred) = b \o l
  BY <1>5 DEF b
<1> QED
  BY <1>10, <1>11, <1>12, <1>13 DEF AsksAll

(* A check asks only while no answer settles it, and what it returns in    *)
(* the end is the best of the answers.                                     *)
Searching(r) == AsksAll(r.walk) /\ \A p \in Paths \ {"subscription"} : r.replies[p] # "answers"

Best(r) ==
  LET answered == {p \in Paths : r.replies[p] = "answers"}
      all == \A p \in Paths : r.replies[p] # "unasked"
  IN /\ r.result \in Paths <=> answered # {}
     /\ r.result \in Paths => r.result \in answered
     /\ source.account /\ ~r.cancelled =>
          /\ r.replies["self"] # "unasked"
          /\ r.replies["self"] = "answers" => r.result = "self"
     /\ r.result = "subscription" => answered = {"subscription"} /\ (all \/ r.cancelled)
     /\ r.result = "unknown" => \A p \in Paths : r.replies[p] = "missing"

Sound(r) ==
  /\ r.pc = "idle" => \A p \in Paths : r.replies[p] = "unasked"
  /\ r.pc = "ask" => Searching(r)
  /\ r.pc = "done" => Best(r)

DiscoveryInv == DiscoveryTypeOK /\ \A c \in Checks : Sound(check[c])

LEMMA OneCheckMoves ==
  ASSUME DiscoveryInv, NEW c \in Checks, NEW r \in CheckRecord, Sound(r),
         check' = [check EXCEPT ![c] = r], source' = source, elapsed' = elapsed, HintTyped'
  PROVE  DiscoveryInv'
<1>1. check \in [Checks -> CheckRecord] /\ SourceTyped /\ elapsed \in 0..MaxClock
  BY DiscoveryParts DEF DiscoveryInv
<1>2. check' \in [Checks -> CheckRecord]
  BY <1>1
<1>3. SourceTyped' /\ elapsed' \in 0..MaxClock
  BY <1>1 DEF SourceTyped
<1>4. DiscoveryTypeOK'
  BY <1>2, <1>3 DEF DiscoveryTypeOK, SourceTyped, HintTyped, CheckRecord
<1>5. ASSUME NEW d \in Checks PROVE Sound(check[d])'
  <2>1. check'[d] = IF d = c THEN r ELSE check[d]
    BY <1>1
  <2>2. ASSUME NEW u, u = check'[d] PROVE Sound(u)
    BY <2>1, <2>2 DEF DiscoveryInv
  <2>3. PICK u : u = check'[d]
    OBVIOUS
  <2>4. Sound(u)
    BY <2>2, <2>3
  <2> QED
    BY <2>3, <2>4 DEF Sound, Searching, Best, AsksAll
<1> QED
  BY <1>4, <1>5 DEF DiscoveryInv

LEMMA PreferredIsTyped == ASSUME HintTyped PROVE Preferred \in Paths \cup {"none"}
BY DEF HintTyped, Preferred

LEMMA NoHintIsTyped == NoHint \in [path : Paths \cup {"none"}, expires : 0..(MaxClock + Lifetime)]
BY Durations DEF NoHint

LEMMA RememberIsTyped ==
  ASSUME HintTyped, NEW path \in Paths, NEW start \in 0..MaxClock
  PROVE  Remember(path, start) \in [path : Paths \cup {"none"}, expires : 0..(MaxClock + Lifetime)]
<1>1. start + Lifetime \in 0..(MaxClock + Lifetime)
  BY Durations
<1> QED
  BY <1>1 DEF Remember, HintTyped

LEMMA StartSound ==
  ASSUME DiscoveryInv, NEW c \in Checks, StartCheck(c)
  PROVE  DiscoveryInv'
<1> DEFINE r == [Waiting EXCEPT !.pc = "ask", !.start = elapsed, !.preferred = Preferred,
                                !.walk = Walk(Preferred)]
<1>1. SourceTyped /\ HintTyped /\ elapsed \in 0..MaxClock
  BY DiscoveryParts DEF DiscoveryInv
<1>2. /\ Preferred \in Paths \cup {"none"}
      /\ Walk(Preferred) \in Seq(Paths) /\ AsksAll(Walk(Preferred))
  BY <1>1, PreferredIsTyped, WalkIsComplete
<1>3. r \in CheckRecord
  BY <1>1, <1>2, WaitingFields DEF CheckRecord
<1>4. r.pc = "ask" /\ r.walk = Walk(Preferred) /\ r.replies = Waiting.replies
  BY WaitingFields DEF CheckRecord
<1>5. check' = [check EXCEPT ![c] = r] /\ source' = source /\ elapsed' = elapsed
  BY DEF StartCheck
<1>6. HintTyped'
  BY <1>1, NoHintIsTyped DEF StartCheck, HintTyped
<1> HIDE DEF r
<1>7. Sound(r)
  BY <1>2, <1>4, WaitingFields DEF Sound, Searching
<1> QED
  BY <1>3, <1>5, <1>6, <1>7, OneCheckMoves

LEMMA CancelSound ==
  ASSUME DiscoveryInv, NEW c \in Checks, CancelCheck(c)
  PROVE  DiscoveryInv'
<1> DEFINE o == check[c]
           r == [o EXCEPT !.cancelled = TRUE, !.pc = IF o.pc = "idle" THEN "done" ELSE o.pc,
                          !.result = IF o.pc = "idle" THEN "unavailable" ELSE o.result]
<1>1. HintTyped /\ o \in CheckRecord /\ Sound(o) /\ check \in [Checks -> CheckRecord]
  BY DiscoveryParts DEF DiscoveryInv
<1>2. o.pc \in {"idle", "ask"} /\ hint' = hint /\ source' = source /\ elapsed' = elapsed
  BY DEF CancelCheck
<1>3. check' = [check EXCEPT ![c] = r]
  BY <1>1 DEF CancelCheck
<1>4. r \in CheckRecord
  BY <1>1 DEF CheckRecord
<1>5. /\ r.cancelled = TRUE /\ r.replies = o.replies /\ r.walk = o.walk
      /\ r.pc = IF o.pc = "idle" THEN "done" ELSE o.pc
      /\ r.result = IF o.pc = "idle" THEN "unavailable" ELSE o.result
  BY <1>1 DEF CheckRecord
<1> HIDE DEF o, r
<1>6. Sound(r)
  <2>1. CASE o.pc = "idle"
    BY <1>1, <1>5, <2>1, PathNames DEF Sound, Best
  <2>2. CASE o.pc = "ask"
    BY <1>1, <1>5, <2>2 DEF Sound, Searching
  <2> QED
    BY <1>2, <2>1, <2>2
<1>7. HintTyped'
  BY <1>1, <1>2 DEF HintTyped
<1> QED
  BY <1>2, <1>3, <1>4, <1>6, <1>7, OneCheckMoves

LEMMA AskSound ==
  ASSUME DiscoveryInv, NEW c \in Checks, Ask(c)
  PROVE  DiscoveryInv'
<1>1. PICK i \in Unattempted(c), reply \in {"missing", "broken", "answers"} :
        /\ \A j \in Unattempted(c) : i <= j
        /\ Try(c, check[c].walk[i], reply)
  BY DEF Ask
<1> DEFINE o == check[c]
           path == o.walk[i]
           settled == reply = "answers" /\ path # "subscription"
           r == [o EXCEPT !.replies = [o.replies EXCEPT ![path] = reply],
                          !.pc = IF settled THEN "done" ELSE o.pc,
                          !.result = IF settled THEN path ELSE o.result]
<1>2. HintTyped /\ o \in CheckRecord /\ Sound(o) /\ check \in [Checks -> CheckRecord]
  BY DiscoveryParts DEF DiscoveryInv
<1>3. o.pc = "ask" /\ ~o.cancelled /\ source' = source /\ elapsed' = elapsed
  BY DEF Ask
<1>4. /\ o.walk \in Seq(Paths) /\ o.replies \in [Paths -> Replies]
      /\ o.start \in 0..MaxClock /\ o.result \in Paths \cup {"none", "unknown", "unavailable"}
  BY <1>2 DEF CheckRecord
<1>5. i \in DOMAIN o.walk /\ o.replies[path] = "unasked"
  BY DEF Unattempted
<1>6. path \in Paths
  BY <1>4, <1>5
<1>7. check' = [check EXCEPT ![c] = r]
  BY <1>1, <1>2 DEF Try
<1>8. [o.replies EXCEPT ![path] = reply] \in [Paths -> Replies]
  BY <1>4 DEF Replies
<1>9. r \in CheckRecord
  BY <1>2, <1>6, <1>8 DEF CheckRecord
<1>10. /\ r.replies = [o.replies EXCEPT ![path] = reply]
       /\ r.pc = IF settled THEN "done" ELSE o.pc
       /\ r.result = IF settled THEN path ELSE o.result
       /\ r.cancelled = o.cancelled /\ r.walk = o.walk
  BY <1>2 DEF CheckRecord
<1>11. \A p \in Paths : r.replies[p] = IF p = path THEN reply ELSE o.replies[p]
  BY <1>4, <1>10
<1>12. source.account /\ o.replies["self"] = "unasked" => path = "self"
  <2> SUFFICES ASSUME source.account, o.replies["self"] = "unasked" PROVE path = "self"
    OBVIOUS
  <2>1. 1 \in DOMAIN o.walk /\ o.walk[1] = "self"
    BY <1>2, <1>3 DEF Sound, Searching, AsksAll
  <2>2. 1 \in Unattempted(c)
    BY <2>1 DEF Unattempted
  <2>3. i <= 1 /\ i \in 1..Len(o.walk)
    BY <1>1, <1>4, <1>5, <2>2
  <2>4. i = 1
    BY <1>4, <2>3
  <2> QED
    BY <2>1, <2>4
<1>13. HintTyped'
  <2>1. hint' = CASE settled -> Remember(path, o.start)
                  [] ~settled /\ path = o.preferred -> NoHint
                  [] OTHER -> hint
    BY <1>1 DEF Try
  <2>2. Remember(path, o.start) \in [path : Paths \cup {"none"}, expires : 0..(MaxClock + Lifetime)]
    BY <1>2, <1>4, <1>6, RememberIsTyped
  <2> HIDE DEF settled, path, o
  <2> QED
    BY <1>2, <2>1, <2>2, NoHintIsTyped DEF HintTyped
<1> HIDE DEF o, path, r
<1>14. Sound(r)
  <2>1. \A p \in Paths \ {"subscription"} : o.replies[p] # "answers"
    BY <1>2, <1>3 DEF Sound, Searching
  <2>2. AsksAll(r.walk)
    BY <1>2, <1>3, <1>10 DEF Sound, Searching
  <2>3. CASE settled
    BY <1>3, <1>6, <1>10, <1>11, <1>12, <2>1, <2>3, PathNames DEF Sound, Best
  <2>4. CASE ~settled
    BY <1>3, <1>6, <1>10, <1>11, <2>1, <2>2, <2>4 DEF Sound, Searching
  <2> QED
    BY <2>3, <2>4
<1> QED
  BY <1>3, <1>7, <1>9, <1>13, <1>14, OneCheckMoves

LEMMA VerdictFacts ==
  ASSUME NEW replies, NEW cancelled \in BOOLEAN
  PROVE  LET v == Verdict(replies, cancelled)
         IN /\ v = "subscription" \/ v = "unknown" \/ v = "unavailable"
            /\ v = "subscription" <=> replies["subscription"] = "answers"
            /\ v = "unknown" => ~cancelled /\ \A p \in Paths : replies[p] # "broken"
BY DEF Verdict

LEMMA EndSound ==
  ASSUME DiscoveryInv, NEW c \in Checks, EndCheck(c)
  PROVE  DiscoveryInv'
<1> DEFINE o == check[c]
           v == Verdict(o.replies, o.cancelled)
           r == [o EXCEPT !.pc = "done", !.result = v]
<1>1. HintTyped /\ o \in CheckRecord /\ Sound(o) /\ check \in [Checks -> CheckRecord]
  BY DiscoveryParts DEF DiscoveryInv
<1>2. /\ o.pc = "ask" /\ (o.cancelled \/ Unattempted(c) = {})
      /\ source' = source /\ elapsed' = elapsed
  BY DEF EndCheck
<1>3. o.cancelled \in BOOLEAN /\ o.replies \in [Paths -> Replies]
  BY <1>1 DEF CheckRecord
<1>4. /\ v \in {"subscription", "unknown", "unavailable"}
      /\ v = "subscription" <=> o.replies["subscription"] = "answers"
      /\ v = "unknown" => ~o.cancelled /\ \A p \in Paths : o.replies[p] # "broken"
  BY <1>3, VerdictFacts
<1>5. check' = [check EXCEPT ![c] = r]
  BY <1>1 DEF EndCheck
<1>6. HintTyped'
  BY <1>1, NoHintIsTyped DEF EndCheck, HintTyped
<1>7. ~o.cancelled => \A p \in Paths : o.replies[p] # "unasked"
  <2> SUFFICES ASSUME ~o.cancelled, NEW p \in Paths PROVE o.replies[p] # "unasked"
    OBVIOUS
  <2>1. PICK i \in DOMAIN o.walk : o.walk[i] = p
    BY <1>1, <1>2 DEF Sound, Searching, AsksAll
  <2>2. i \notin Unattempted(c)
    BY <1>2
  <2> QED
    BY <2>1, <2>2 DEF Unattempted
<1> HIDE DEF v, o
<1>8. v \in Paths \cup {"none", "unknown", "unavailable"}
  BY <1>4, PathNames
<1>9. r \in CheckRecord
  BY <1>1, <1>8 DEF CheckRecord
<1>10. /\ r.pc = "done" /\ r.result = v
       /\ r.replies = o.replies /\ r.cancelled = o.cancelled
  BY <1>1 DEF CheckRecord
<1> HIDE DEF r
<1>11. Sound(r)
  <2>1. \A p \in Paths \ {"subscription"} : r.replies[p] # "answers"
    BY <1>1, <1>2, <1>10 DEF Sound, Searching
  <2>2. v = "unknown" => \A p \in Paths : r.replies[p] = "missing"
    <3> SUFFICES ASSUME v = "unknown", NEW p \in Paths PROVE r.replies[p] = "missing"
      OBVIOUS
    <3>1. r.replies[p] \in Replies /\ r.replies[p] # "unasked" /\ r.replies[p] # "broken"
      BY <1>3, <1>4, <1>7, <1>10
    <3>2. r.replies[p] # "answers"
      BY <1>4, <1>10, <2>1
    <3> QED
      BY <3>1, <3>2 DEF Replies
  <2> DEFINE answered == {p \in Paths : r.replies[p] = "answers"}
  <2>3. answered = IF v = "subscription" THEN {"subscription"} ELSE {}
    BY <1>4, <1>10, <2>1, PathNames
  <2>4. r.result \in Paths <=> v = "subscription"
    BY <1>4, <1>10, PathNames
  <2>5. source.account /\ ~r.cancelled =>
          r.replies["self"] # "unasked" /\ r.replies["self"] # "answers"
    BY <1>7, <1>10, <2>1, PathNames
  <2>6. r.result = "subscription" =>
          (\A p \in Paths : r.replies[p] # "unasked") \/ r.cancelled
    BY <1>7, <1>10
  <2> HIDE DEF answered
  <2>7. r.result \in Paths <=> answered # {}
    BY <2>3, <2>4
  <2>8. r.result \in Paths => r.result \in answered
    BY <1>10, <2>3, <2>4
  <2>9. r.result = "subscription" => answered = {"subscription"}
    BY <1>10, <2>3
  <2> QED
    BY <1>10, <2>2, <2>5, <2>6, <2>7, <2>8, <2>9 DEF Sound, Best, answered
<1> QED
  BY <1>2, <1>5, <1>9, <1>6, <1>11, OneCheckMoves

LEMMA AgainSound ==
  ASSUME DiscoveryInv, NEW c \in Checks, NextCheck(c)
  PROVE  DiscoveryInv'
<1>1. HintTyped
  BY DiscoveryParts DEF DiscoveryInv
<1>2. Sound(Waiting)
  BY WaitingFields DEF Sound
<1>3. /\ check' = [check EXCEPT ![c] = Waiting]
      /\ source' = source /\ elapsed' = elapsed /\ HintTyped'
  BY <1>1 DEF NextCheck, HintTyped
<1> QED
  BY <1>2, <1>3, WaitingFields, OneCheckMoves

LEMMA DiscoveryStart == DiscoveryInit => DiscoveryInv
<1> SUFFICES ASSUME DiscoveryInit PROVE DiscoveryInv
  OBVIOUS
<1>1. SourceTyped /\ HintTyped /\ elapsed \in 0..MaxClock
  BY NoHintIsTyped, Durations DEF DiscoveryInit, SourceTyped, HintTyped
<1>2. check \in [Checks -> CheckRecord] /\ \A c \in Checks : check[c] = Waiting
  BY WaitingFields DEF DiscoveryInit
<1>3. Sound(Waiting)
  BY WaitingFields DEF Sound
<1>4. \A c \in Checks : Sound(check[c])
  BY <1>2, <1>3
<1> QED
  BY <1>1, <1>2, <1>4, DiscoveryParts DEF DiscoveryInv

LEMMA DiscoveryStep == DiscoveryInv /\ [DiscoveryNext]_discoveryVars => DiscoveryInv'
<1> SUFFICES ASSUME DiscoveryInv, [DiscoveryNext]_discoveryVars PROVE DiscoveryInv'
  OBVIOUS
<1>0. /\ SourceTyped /\ HintTyped /\ elapsed \in 0..MaxClock
      /\ check \in [Checks -> CheckRecord] /\ \A c \in Checks : Sound(check[c])
  BY DiscoveryParts DEF DiscoveryInv
<1>1. ASSUME NEW c \in Checks,
             StartCheck(c) \/ CancelCheck(c) \/ Ask(c) \/ EndCheck(c) \/ NextCheck(c)
      PROVE  DiscoveryInv'
  BY <1>1, StartSound, CancelSound, AskSound, EndSound, AgainSound
<1>2. CASE ClockTick \/ UNCHANGED discoveryVars
  <2>1. source' = source /\ hint' = hint /\ check' = check /\ elapsed' \in 0..MaxClock
    BY <1>0, <1>2, Durations DEF ClockTick, discoveryVars
  <2>2. DiscoveryTypeOK'
    BY <1>0, <2>1 DEF DiscoveryTypeOK, SourceTyped, HintTyped, CheckRecord
  <2>3. \A c \in Checks : Sound(check[c])'
    BY <1>0, <2>1 DEF Sound, Searching, Best, AsksAll
  <2> QED
    BY <2>2, <2>3 DEF DiscoveryInv
<1> QED
  BY <1>1, <1>2 DEF DiscoveryNext

(* The checks and the path they remember keep their types.                 *)
THEOREM DiscoveryTypeCorrect == DiscoverySpec => []DiscoveryTypeOK
<1>1. DiscoveryInv => DiscoveryTypeOK
  BY DEF DiscoveryInv
<1> QED
  BY <1>1, DiscoveryStart, DiscoveryStep, PTL DEF DiscoverySpec

(* A check of the balance returns the answer that counts most of those it  *)
(* could get, whatever is remembered of earlier ones, for any number of    *)
(* checks at once, any number of slots and any lifetime of the memory.     *)
THEOREM BestAnswerIsReturned == DiscoverySpec => []BestAnswerWins
<1>1. DiscoveryInv => BestAnswerWins
  BY DEF DiscoveryInv, Sound, Best, BestAnswerWins
<1> QED
  BY <1>1, DiscoveryStart, DiscoveryStep, PTL DEF DiscoverySpec
=============================================================================
