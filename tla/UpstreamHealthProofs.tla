------------------------ MODULE UpstreamHealthProofs ------------------------
(***************************************************************************)
(* Proofs about UpstreamHealth, for any number of handlers, probes and     *)
(* versions and any threshold: types, the semaphore whose entry comes and  *)
(* goes, the failure that is remembered, and how an upstream becomes       *)
(* healthy again.                                                          *)
(*                                                                         *)
(* The argument.  A handler refers to an entry from lockUpstreamHealth to  *)
(* the release, and holds its semaphore a little longer, until it gives it *)
(* back.  Refers and Locking say where; the entry is in the map as long as *)
(* anybody is counted in it, so that all who are inside share it.          *)
(***************************************************************************)
EXTENDS UpstreamHealth, FiniteSetTheorems, TLAPS

Counted == {"waiting", "critical", "unlock"}
Owning == {"critical", "unlock", "free"}

Snaps == {Copy(r) : r \in Row}
Entry == [refs : Nat, locked : BOOLEAN, pending : BOOLEAN]

Types ==
  /\ row \in Row
  /\ health \in States \cup {NoState}
  /\ state \in [States -> Entry]
  /\ stage \in [Markers -> MarkStates]
  /\ snap \in [Markers -> Snaps]
  /\ outcome \in [Markers -> Outcomes]
  /\ mine \in [Markers -> States \cup {NoState}]
  /\ probe \in [Probes -> 0..MaxVersion]
  /\ owed \in BOOLEAN
  /\ streak \in 0..3

Holders(s) == {p \in Markers : mine[p] = s /\ stage[p] # "free"}

(* A handler has an entry exactly while it waits, is inside or leaves.     *)
Refers ==
  \A p \in Markers : mine[p] # NoState <=> stage[p] \in Counted \cup {"free"}

(* A semaphore is taken exactly while one handler holds it.                *)
Locking ==
  /\ \A s \in States :
       state[s].locked <=> \E p \in Markers : mine[p] = s /\ stage[p] \in Owning
  /\ \A p, q \in Markers :
       stage[p] \in Owning /\ stage[q] \in Owning /\ mine[p] = mine[q] => p = q

Semaphore == Refers /\ Locking /\ ReferencesAreExact

IInv == Types /\ Semaphore /\ OwedFailureIsRemembered

-----------------------------------------------------------------------------
(* The row.                                                                *)

LEMMA NewRowType == NewRow \in Row /\ Copy(NewRow) \in Snaps
BY HealthAssumption DEF NewRow, Row, Snaps

Statuses == {"unknown", "healthy", "degraded", "unhealthy"}
Recoveries == {"none", "recent", "old"}
Circuits == {"none", "open", "expired"}

RowWith(r, s, n, m, recovery, circuit) ==
  [r EXCEPT !.status = s, !.failures = n, !.successes = m,
            !.recovery = recovery, !.circuit = circuit]

LEMMA RowWithType ==
  ASSUME NEW r \in Row, NEW s \in Statuses, NEW n \in 0..Threshold, NEW m \in 0..2,
         NEW recovery \in Recoveries, NEW circuit \in Circuits
  PROVE  /\ RowWith(r, s, n, m, recovery, circuit) \in Row
         /\ RowWith(r, s, n, m, recovery, circuit).version = r.version
BY DEF RowWith, Row, Statuses, Recoveries, Circuits

LEMMA HealthyRowType ==
  ASSUME row \in Row, NEW confirm \in BOOLEAN
  PROVE  HealthyRow(confirm) \in Row /\ HealthyRow(confirm).version = row.version
<1>1. 0 \in 0..Threshold /\ Threshold \in Nat
  BY HealthAssumption
<1>2. CASE row.status = "unhealthy" /\ Unconfirmed(confirm)
  <2>1. (IF confirm THEN row.successes + 1 ELSE row.successes) \in 0..2
    BY <1>2 DEF Unconfirmed, Row
  <2>2. HealthyRow(confirm) =
          [row EXCEPT
            !.failures = 0,
            !.successes = IF confirm THEN row.successes + 1 ELSE row.successes,
            !.recovery = IF confirm /\ row.recovery = "none" THEN "recent"
                         ELSE row.recovery]
    BY <1>2 DEF HealthyRow
  <2> QED
    BY <1>1, <2>1, <2>2 DEF Row
<1>3. CASE ~(row.status = "unhealthy" /\ Unconfirmed(confirm))
  <2>1. HealthyRow(confirm) = RowWith(row, "healthy", 0, 0, "none", "none")
    BY <1>3 DEF HealthyRow, RowWith
  <2>2. "healthy" \in Statuses /\ "none" \in Recoveries /\ "none" \in Circuits
    BY DEF Statuses, Recoveries, Circuits
  <2>3. 0 \in 0..2
    OBVIOUS
  <2> QED
    BY <1>1, <2>1, <2>2, <2>3, RowWithType
<1> QED
  BY <1>2, <1>3

LEMMA FailedRowType ==
  ASSUME row \in Row, NEW authFailure \in BOOLEAN
  PROVE  FailedRow(authFailure) \in Row /\ FailedRow(authFailure).version = row.version
<1>1. Threshold \in Nat /\ row.failures \in 0..Threshold
  BY HealthAssumption DEF Row
<1> DEFINE unhealthy == \/ row.status = "unhealthy" \/ authFailure
                        \/ row.failures + 1 >= Threshold
           n == IF row.failures < Threshold THEN row.failures + 1 ELSE row.failures
<1>2. n \in 0..Threshold
  BY <1>1
<1>3. FailedRow(authFailure) =
        RowWith(row, IF unhealthy THEN "unhealthy" ELSE "degraded", n, 0, "none",
                IF unhealthy THEN "open" ELSE row.circuit)
  BY DEF FailedRow, RowWith
<1>4. /\ (IF unhealthy THEN "unhealthy" ELSE "degraded") \in Statuses
      /\ (IF unhealthy THEN "open" ELSE row.circuit) \in Circuits
      /\ "none" \in Recoveries /\ 0 \in 0..2
  BY DEF Statuses, Recoveries, Circuits, Row
<1> HIDE DEF unhealthy, n
<1> QED
  BY <1>2, <1>3, <1>4, RowWithType

-----------------------------------------------------------------------------
(* Entries and their references.                                           *)

LEMMA HoldersFinite ==
  ASSUME NEW s PROVE IsFiniteSet(Holders(s)) /\ Cardinality(Holders(s)) \in Nat
<1>1. Holders(s) \subseteq Markers
  BY DEF Holders
<1> QED
  BY <1>1, HealthAssumption, FS_Subset, FS_CardinalityType

(* Somebody is counted, and nobody else is.                                *)
LEMMA HolderCounts ==
  ASSUME NEW s, NEW p \in Holders(s)
  PROVE  /\ Cardinality(Holders(s)) >= 1
         /\ Cardinality(Holders(s)) = 1 => Holders(s) = {p}
<1>1. /\ IsFiniteSet(Holders(s) \ {p})
      /\ Cardinality(Holders(s) \ {p}) = Cardinality(Holders(s)) - 1
  BY HoldersFinite, FS_RemoveElement
<1>2. Cardinality(Holders(s) \ {p}) \in Nat
  BY <1>1, FS_CardinalityType
<1>3. Cardinality(Holders(s)) = 1 => Holders(s) \ {p} = {}
  BY <1>1, FS_EmptySet
<1> QED
  BY <1>1, <1>2, <1>3, HoldersFinite

(* Whoever is counted refers to the entry in the map.                      *)
LEMMA InTheMap ==
  ASSUME Types, Semaphore, NEW p \in Markers, stage[p] \in Counted
  PROVE  /\ mine[p] = health /\ health \in States
         /\ p \in Holders(health) /\ state[health].refs >= 1
         /\ state[health].refs = Cardinality(Holders(health))
<1>1. mine[p] = health /\ mine[p] # NoState
  BY DEF Semaphore, Refers, ReferencesAreExact, Counted
<1>2. health \in States /\ p \in Holders(health)
  BY <1>1 DEF Types, Holders, Counted
<1>3. state[health].refs = Cardinality(Holders(health))
  BY <1>2 DEF Semaphore, ReferencesAreExact, Holders
<1> QED
  BY <1>1, <1>2, <1>3, HolderCounts

(* A step that moves handlers only between places of one kind, and leaves  *)
(* the counts alone, keeps the semaphore.                                  *)
SamePlaces ==
  \A p \in Markers : /\ stage'[p] \in Counted <=> stage[p] \in Counted
                     /\ stage'[p] \in Owning <=> stage[p] \in Owning
SameLocks ==
  \A s \in States : /\ state'[s].refs = state[s].refs
                    /\ state'[s].locked = state[s].locked

LEMMA QuietStep ==
  ASSUME Types, Semaphore, health' = health, mine' = mine, SamePlaces, SameLocks,
         health # NoState => state'[health].refs > 0 \/ state'[health].pending
  PROVE  Semaphore'
<1>1. \A p \in Markers : (stage'[p] = "free") <=> (stage[p] = "free")
  BY DEF SamePlaces, Counted, Owning
<1>2. \A s : Holders(s)' = Holders(s)
  BY <1>1 DEF Holders
<1>3. Refers'
  BY <1>1 DEF Semaphore, Refers, SamePlaces
<1>4. Locking'
  <2>1. ASSUME NEW s \in States
        PROVE  state'[s].locked <=> \E p \in Markers : mine'[p] = s /\ stage'[p] \in Owning
    <3>1. state[s].locked <=> \E p \in Markers : mine[p] = s /\ stage[p] \in Owning
      BY DEF Semaphore, Locking
    <3>2. state'[s].locked = state[s].locked
      BY DEF SameLocks
    <3> QED
      BY <3>1, <3>2 DEF SamePlaces
  <2> QED
    BY <2>1 DEF Semaphore, Locking, SamePlaces
<1>5. ReferencesAreExact'
  <2>1. \A s \in States : state'[s].refs = Cardinality(Holders(s)')
    BY <1>2 DEF Semaphore, ReferencesAreExact, Holders, SameLocks
  <2>2. \A p \in Markers : stage'[p] \in Counted => mine'[p] = health'
    BY DEF Semaphore, ReferencesAreExact, Counted, SamePlaces
  <2> QED
    BY <2>1, <2>2 DEF ReferencesAreExact, Holders, Counted
<1> QED
  BY <1>3, <1>4, <1>5 DEF Semaphore

-----------------------------------------------------------------------------
(* Types.                                                                  *)

LEMMA StateChange ==
  ASSUME state \in [States -> Entry], NEW s \in States, NEW e \in Entry
  PROVE  [state EXCEPT ![s] = e] \in [States -> Entry]
OBVIOUS

LEMMA CountChange ==
  ASSUME state \in [States -> Entry], NEW s \in States, NEW n \in Nat
  PROVE  [state EXCEPT ![s].refs = n] \in [States -> Entry]
BY DEF Entry

LEMMA FlagChange ==
  ASSUME state \in [States -> Entry], NEW s \in States, NEW b \in BOOLEAN
  PROVE  /\ [state EXCEPT ![s].locked = b] \in [States -> Entry]
         /\ [state EXCEPT ![s].pending = b] \in [States -> Entry]
BY DEF Entry

LEMMA ForgetType ==
  ASSUME Types, NEW p \in Markers, Forget(p)
  PROVE  snap' \in [Markers -> Snaps] /\ outcome' \in [Markers -> Outcomes]
BY NewRowType DEF Forget, Types, Outcomes

LEMMA LeaveType ==
  ASSUME Types, NEW p \in Markers, Leave(p)
  PROVE  /\ stage' \in [Markers -> MarkStates]
         /\ snap' \in [Markers -> Snaps] /\ outcome' \in [Markers -> Outcomes]
BY ForgetType DEF Leave, Types, MarkStates

LEMMA ReleaseType ==
  ASSUME Types, Semaphore, NEW p \in Markers, stage[p] \in Counted, Release(p)
  PROVE  state' \in [States -> Entry] /\ health' \in States \cup {NoState}
<1>1. mine[p] \in States /\ state[mine[p]].refs - 1 \in Nat
  BY InTheMap DEF Types, Entry
<1>2. state' = [state EXCEPT ![mine[p]].refs = state[mine[p]].refs - 1]
  BY DEF Release
<1> QED
  BY <1>1, <1>2, CountChange DEF Release, Types

LEMMA TypesStep == Types /\ Semaphore /\ [HealthNext]_healthVars => Types'
<1> SUFFICES ASSUME Types, Semaphore, [HealthNext]_healthVars PROVE Types'
  OBVIOUS
<1> USE DEF requestVars, historyVars
<1>1. ASSUME NEW p \in Markers, Route(p) PROVE Types'
  BY <1>1 DEF Route, Types, MarkStates, Snaps
<1>2. ASSUME NEW p \in Markers, Answer(p) PROVE Types'
  BY <1>2 DEF Answer, Types, MarkStates
<1>3. ASSUME NEW p \in Markers, Unscored(p) PROVE Types'
  BY <1>3, ForgetType DEF Unscored, Types, MarkStates
<1>4. ASSUME NEW p \in Markers, Abandon(p) PROVE Types'
  BY <1>4, ForgetType DEF Abandon, Types, MarkStates
<1>5. ASSUME NEW p \in Markers, LockRefer(p) PROVE Types'
  <2>1. stage' \in [Markers -> MarkStates]
    BY <1>5 DEF LockRefer, Types, MarkStates
  <2>2. CASE health # NoState
    <3>1. health \in States /\ state[health].refs + 1 \in Nat
      BY <2>2 DEF Types, Entry
    <3>2. state' = [state EXCEPT ![health].refs = state[health].refs + 1]
      BY <1>5, <2>2 DEF LockRefer
    <3>3. state' \in [States -> Entry]
      BY <3>1, <3>2, CountChange DEF Types
    <3> QED
      BY <1>5, <2>1, <2>2, <3>1, <3>3 DEF LockRefer, Types
  <2>3. CASE health = NoState
    <3>1. [Fresh EXCEPT !.refs = 1] \in Entry
      BY DEF Fresh, Entry
    <3> QED
      BY <1>5, <2>1, <2>3, <3>1, StateChange DEF LockRefer, Types
  <2> QED
    BY <2>2, <2>3
<1>6. ASSUME NEW p \in Markers, LockAcquire(p) PROVE Types'
  <2>1. mine[p] \in States
    BY <1>6, InTheMap DEF LockAcquire, Counted
  <2> QED
    BY <1>6, <2>1, FlagChange DEF LockAcquire, Types, MarkStates
<1>7. ASSUME NEW p \in Markers, LockTooLate(p) PROVE Types'
  <2>1. mine[p] \in States
    BY <1>7, InTheMap DEF LockTooLate, Counted
  <2> QED
    BY <1>7, <2>1, FlagChange, LeaveType DEF LockTooLate, Types
<1>8. ASSUME NEW p \in Markers, LockGiveUp(p) PROVE Types'
  <2>1. state' \in [States -> Entry] /\ health' \in States \cup {NoState}
    BY <1>8, ReleaseType DEF LockGiveUp, Counted
  <2>2. snap' \in [Markers -> Snaps] /\ outcome' \in [Markers -> Outcomes]
    BY <1>8, ForgetType DEF LockGiveUp
  <2> QED
    BY <1>8, <2>1, <2>2 DEF LockGiveUp, Types, MarkStates
<1>9. ASSUME NEW p \in Markers, SkipSuccess(p) PROVE Types'
  BY <1>9, LeaveType DEF SkipSuccess, Types
<1>10. ASSUME NEW p \in Markers, WriteSuccess(p) PROVE Types'
  <2>1. mine[p] \in States
    BY <1>10, InTheMap DEF WriteSuccess, Counted
  <2>2. row' \in Row
    BY <1>10, HealthyRowType DEF WriteSuccess, Types
  <2>3. state' \in [States -> Entry]
    BY <1>10, <2>1, FlagChange DEF WriteSuccess, Types
  <2> QED
    BY <1>10, <2>2, <2>3, LeaveType DEF WriteSuccess, Types
<1>11. ASSUME NEW p \in Markers, WriteFailure(p) PROVE Types'
  <2>1. mine[p] \in States
    BY <1>11, InTheMap DEF WriteFailure, Counted
  <2>2. row' \in Row
    BY <1>11, FailedRowType DEF WriteFailure, Types
  <2>3. state' \in [States -> Entry] /\ owed' \in BOOLEAN
    BY <1>11, <2>1, FlagChange DEF WriteFailure, Types
  <2> QED
    BY <1>11, <2>2, <2>3, LeaveType DEF WriteFailure, Types
<1>12. ASSUME NEW p \in Markers, WriteRefused(p) PROVE Types'
  BY <1>12, LeaveType DEF WriteRefused, Types
<1>13. ASSUME NEW p \in Markers, Unlock(p) PROVE Types'
  <2>1. state' \in [States -> Entry] /\ health' \in States \cup {NoState}
    BY <1>13, ReleaseType DEF Unlock, Counted
  <2> QED
    BY <1>13, <2>1 DEF Unlock, Types, MarkStates
<1>14. ASSUME NEW p \in Markers, UnlockFree(p) PROVE Types'
  <2>1. mine[p] \in States
    BY <1>14 DEF UnlockFree, Semaphore, Refers, Types, Counted
  <2> QED
    BY <1>14, <2>1, FlagChange DEF UnlockFree, Types, MarkStates
<1>15. ASSUME NEW q \in Probes, ProbeStart(q) PROVE Types'
  BY <1>15, HealthAssumption DEF ProbeStart, Types, Row
<1>16. ASSUME NEW q \in Probes, ProbeEnd(q) PROVE Types'
  <2>0. 0 \in 0..MaxVersion
    BY HealthAssumption
  <2>1. CASE ProbeHealthy(q)
    <3>1. row' \in Row
      BY <2>1, HealthyRowType DEF ProbeHealthy, Types
    <3>2. streak' \in 0..3
      BY <2>1 DEF ProbeHealthy, Types
    <3> QED
      BY <2>0, <2>1, <3>1, <3>2 DEF ProbeHealthy, Types
  <2>2. CASE ProbeFailed(q)
    BY <2>0, <2>2, FailedRowType DEF ProbeFailed, Types
  <2>3. CASE ProbeVoid(q)
    BY <2>0, <2>3 DEF ProbeVoid, Types
  <2> QED
    BY <1>16, <2>1, <2>2, <2>3 DEF ProbeEnd
<1>17. CASE UpdateUpstream
  <2>1. row.version + 1 \in 1..MaxVersion
    BY <1>17, HealthAssumption DEF UpdateUpstream, Types, Row
  <2>2. row' \in Row
    BY <1>17, <2>1 DEF UpdateUpstream, Types, Row
  <2> QED
    BY <1>17, <2>2 DEF UpdateUpstream, Types
<1>18. CASE CooldownEnds
  BY <1>18 DEF CooldownEnds, Types, Row
<1>19. CASE TwoMinutesPass
  BY <1>19 DEF TwoMinutesPass, Types, Row
<1>20. CASE UNCHANGED healthVars
  BY <1>20 DEF healthVars, Types
<1> QED
  BY <1>1, <1>2, <1>3, <1>4, <1>5, <1>6, <1>7, <1>8, <1>9, <1>10, <1>11, <1>12, <1>13,
     <1>14, <1>15, <1>16, <1>17, <1>18, <1>19, <1>20 DEF HealthNext, MarkStep

-----------------------------------------------------------------------------
(* The semaphore.                                                          *)

(* A state of the references in which p is no longer counted.              *)
LEMMA ReleaseStep ==
  ASSUME Types, Semaphore, NEW p \in Markers, stage[p] \in Counted, Release(p),
         \A q \in Markers \ {p} : mine'[q] = mine[q] /\ stage'[q] = stage[q],
         stage'[p] \notin Counted, mine'[p] = NoState \/ stage'[p] = "free"
  PROVE  /\ ReferencesAreExact'
         /\ \A s \in States : state'[s].locked = state[s].locked
<1>0. PICK s : s = health
  OBVIOUS
<1>1. /\ mine[p] = s /\ s \in States /\ s # NoState
      /\ p \in Holders(s) /\ state[s].refs >= 1 /\ state[s].refs \in Nat
      /\ state[s].refs = Cardinality(Holders(s))
  BY <1>0, InTheMap, HealthAssumption DEF Types, Entry
<1>2. /\ state'[s].refs = state[s].refs - 1 /\ state'[s].pending = state[s].pending
      /\ \A t \in States \ {s} : state'[t] = state[t]
      /\ \A t \in States : state'[t].locked = state[t].locked
  BY <1>1 DEF Release, Types, Entry
<1>3. /\ health' = NoState => state[s].refs = 1
      /\ health' # NoState => health' = s /\ (state[s].refs # 1 \/ state[s].pending)
  <2>1. health' = IF Forgettable(s) THEN NoState ELSE s
    BY <1>0, <1>1 DEF Release
  <2> QED
    BY <1>1, <2>1 DEF Forgettable, LastReference, NothingPending
<1>4. Holders(s)' = Holders(s) \ {p}
  BY <1>1 DEF Holders
<1>5. ASSUME NEW t \in States \ {s} PROVE Holders(t)' = Holders(t)
  BY <1>1, HealthAssumption DEF Holders
<1>6. ASSUME NEW t \in States PROVE state'[t].refs = Cardinality(Holders(t)')
  <2>2. state[t].refs = Cardinality(Holders(t))
    BY DEF Semaphore, ReferencesAreExact, Holders
  <2>1. Cardinality(Holders(s) \ {p}) = Cardinality(Holders(s)) - 1
    BY <1>1, HoldersFinite, FS_RemoveElement
  <2> QED
    BY <1>1, <1>2, <1>4, <1>5, <2>1, <2>2
<1>7. ASSUME NEW q \in Markers, stage'[q] \in Counted PROVE mine'[q] = health'
  <2>1. q # p /\ stage[q] \in Counted /\ mine'[q] = mine[q]
    BY <1>7
  <2>2. mine[q] = s /\ q \in Holders(s)
    BY <1>0, <2>1, InTheMap
  <2>3. state[s].refs # 1
    BY <2>1, <2>2, <1>1, HolderCounts
  <2> QED
    BY <1>3, <2>1, <2>2, <2>3
<1>8. health' # NoState => state'[health'].refs > 0 \/ state'[health'].pending
  BY <1>1, <1>2, <1>3
<1> QED
  BY <1>2, <1>6, <1>7, <1>8 DEF ReferencesAreExact, Holders, Counted

LEMMA AcquireStep ==
  ASSUME Types, Semaphore, NEW p \in Markers, NEW pc \in {"critical", "unlock"},
         stage[p] = "waiting", ~state[mine[p]].locked,
         stage' = [stage EXCEPT ![p] = pc],
         state' = [state EXCEPT ![mine[p]].locked = TRUE], UNCHANGED <<health, mine>>
  PROVE  Semaphore'
<1>1. mine[p] = health /\ health \in States
  BY InTheMap DEF Counted
<1>2. /\ stage'[p] = pc /\ \A q \in Markers \ {p} : stage'[q] = stage[q]
      /\ \A q \in Markers : /\ stage'[q] \in Counted <=> stage[q] \in Counted
                            /\ stage'[q] = "free" <=> stage[q] = "free"
      /\ stage'[p] \in Owning /\ stage[p] \notin Owning
  BY DEF Types, Counted, Owning
<1>3. /\ state'[health].locked /\ ~state[health].locked
      /\ \A s \in States \ {health} : state'[s].locked = state[s].locked
      /\ \A s \in States : /\ state'[s].refs = state[s].refs
                           /\ state'[s].pending = state[s].pending
  BY <1>1 DEF Types, Entry
<1>4. \A s : Holders(s)' = Holders(s)
  BY <1>2 DEF Holders
<1>5. ReferencesAreExact'
  BY <1>1, <1>2, <1>3, <1>4 DEF Semaphore, ReferencesAreExact, Holders, Counted
<1>6. Refers'
  BY <1>2 DEF Semaphore, Refers
<1>7. Locking'
  <2>1. \A q \in Markers : stage[q] \in Owning => mine[q] # health
    BY <1>1, <1>3 DEF Semaphore, Locking
  <2>2. ASSUME NEW s \in States
        PROVE  state'[s].locked <=> \E q \in Markers : mine'[q] = s /\ stage'[q] \in Owning
    <3>1. CASE s = health
      BY <3>1, <1>1, <1>2, <1>3
    <3>2. CASE s # health
      BY <3>2, <1>1, <1>2, <1>3 DEF Semaphore, Locking
    <3> QED BY <3>1, <3>2
  <2>3. ASSUME NEW q \in Markers, NEW r \in Markers, stage'[q] \in Owning,
               stage'[r] \in Owning, mine'[q] = mine'[r]
        PROVE  q = r
    BY <2>1, <2>3, <1>1, <1>2 DEF Semaphore, Locking
  <2> QED
    BY <2>2, <2>3 DEF Locking
<1> QED
  BY <1>5, <1>6, <1>7 DEF Semaphore

LEMMA ReferStep ==
  ASSUME Types, Semaphore, NEW p \in Markers, LockRefer(p)
  PROVE  Semaphore'
<1>1. /\ stage[p] = "mark" /\ stage'[p] = "waiting"
      /\ \A q \in Markers \ {p} : stage'[q] = stage[q] /\ mine'[q] = mine[q]
      /\ mine[p] = NoState
  BY DEF LockRefer, Types, Semaphore, Refers, Counted
<1>2. /\ \A q \in Markers : stage'[q] \in Owning <=> stage[q] \in Owning
      /\ \A q \in Markers \ {p} : stage'[q] \in Counted <=> stage[q] \in Counted
      /\ stage[p] \notin Owning /\ stage'[p] \notin Owning /\ stage'[p] \in Counted
  BY <1>1 DEF Owning, Counted
<1>3. PICK s \in States :
        /\ mine'[p] = s /\ health' = s /\ s # NoState
        /\ \A q \in Markers : stage[q] \in Counted => mine[q] = s
        /\ state'[s].refs = Cardinality(Holders(s)) + 1
        /\ state'[s].locked = state[s].locked
        /\ \A t \in States \ {s} : state'[t] = state[t]
  <2>1. CASE health # NoState
    <3>1. health \in States /\ health # NoState
      BY <2>1 DEF Types
    <3>2. /\ mine'[p] = health /\ health' = health
          /\ state'[health].refs = state[health].refs + 1
          /\ state'[health].locked = state[health].locked
          /\ \A t \in States \ {health} : state'[t] = state[t]
      BY <2>1, <3>1 DEF LockRefer, Types, Entry
    <3>3. state[health].refs = Cardinality(Holders(health))
      BY <3>1 DEF Semaphore, ReferencesAreExact, Holders
    <3> QED
      BY <3>1, <3>2, <3>3 DEF Semaphore, ReferencesAreExact, Counted, Holders
  <2>2. CASE health = NoState
    <3>1. PICK s \in States :
            /\ Unused(s) /\ state' = [state EXCEPT ![s] = [Fresh EXCEPT !.refs = 1]]
            /\ mine' = [mine EXCEPT ![p] = s] /\ health' = s
      BY <2>2 DEF LockRefer
    <3>2. /\ mine'[p] = s /\ state'[s].refs = 1 /\ state'[s].locked = FALSE
          /\ \A t \in States \ {s} : state'[t] = state[t]
      BY <3>1 DEF Types, Fresh
    <3>3. \A q \in Markers : mine[q] # s /\ stage[q] \notin Counted
      BY <2>2, <3>1 DEF Unused, Semaphore, ReferencesAreExact, Refers, Counted
    <3>4. Holders(s) = {}
      BY <3>3 DEF Holders
    <3>5. Cardinality(Holders(s)) = 0 /\ s # NoState
      BY <3>4, FS_EmptySet, HealthAssumption
    <3>6. state[s].locked = FALSE
      BY <3>3 DEF Semaphore, Locking, Types, Entry
    <3>7. state'[s].refs = Cardinality(Holders(s)) + 1
      BY <3>2, <3>5
    <3>8. state'[s].locked = state[s].locked
      BY <3>2, <3>6, Zenon
    <3> QED
      BY <3>1, <3>2, <3>3, <3>5, <3>7, <3>8
  <2> QED
    BY <2>1, <2>2
<1>4. Refers'
  BY <1>1, <1>2, <1>3 DEF Semaphore, Refers, Counted
<1>5. Locking'
  <2>1. \A q \in Markers : stage[q] \in Owning => mine'[q] = mine[q]
    BY <1>1, <1>2
  <2>2. \A t \in States : state'[t].locked = state[t].locked
    BY <1>3
  <2> QED
    BY <1>2, <2>1, <2>2 DEF Semaphore, Locking
<1>6. ReferencesAreExact'
  <2>1. p \notin Holders(s) /\ Holders(s)' = Holders(s) \cup {p}
    BY <1>1, <1>3 DEF Holders
  <2>2. Cardinality(Holders(s)') = Cardinality(Holders(s)) + 1
    BY <2>1, HoldersFinite, FS_AddElement
  <2>3. ASSUME NEW t \in States \ {s} PROVE Holders(t)' = Holders(t)
    BY <1>1, <1>3, HealthAssumption DEF Holders
  <2>4. ASSUME NEW t \in States PROVE state'[t].refs = Cardinality(Holders(t)')
    <3>1. CASE t = s
      BY <3>1, <1>3, <2>2
    <3>2. CASE t # s
      <4>1. state[t].refs = Cardinality(Holders(t))
        BY DEF Semaphore, ReferencesAreExact, Holders
      <4>2. Holders(t)' = Holders(t) /\ state'[t] = state[t]
        BY <3>2, <2>3, <1>3
      <4> QED
        BY <4>1, <4>2
    <3> QED
      BY <3>1, <3>2
  <2>5. \A q \in Markers : stage'[q] \in Counted => mine'[q] = health'
    BY <1>1, <1>2, <1>3
  <2>6. state'[health'].refs > 0
    BY <1>3, HoldersFinite
  <2> QED
    BY <2>4, <2>5, <2>6 DEF ReferencesAreExact, Holders, Counted
<1> QED
  BY <1>4, <1>5, <1>6 DEF Semaphore

LEMMA SemaphoreStep == Types /\ Semaphore /\ [HealthNext]_healthVars => Semaphore'
<1> SUFFICES ASSUME Types, Semaphore, [HealthNext]_healthVars PROVE Semaphore'
  OBVIOUS
<1>q. ASSUME health' = health, state' = state, mine' = mine, SamePlaces PROVE Semaphore'
  <2>1. health # NoState => state'[health].refs > 0 \/ state'[health].pending
    BY <1>q DEF Semaphore, ReferencesAreExact
  <2>2. SameLocks
    BY <1>q DEF SameLocks
  <2> QED
    BY <1>q, <2>1, <2>2, QuietStep
<1>w. ASSUME NEW p \in Markers, stage[p] = "critical", Leave(p), health' = health, mine' = mine,
             NEW b \in BOOLEAN, state' = [state EXCEPT ![mine[p]].pending = b]
      PROVE  Semaphore'
  <2>1. mine[p] = health /\ health \in States /\ state[health].refs >= 1
    BY <1>w, InTheMap DEF Counted
  <2>2. SameLocks
    BY <1>w, <2>1 DEF Types, Entry, SameLocks
  <2>3. health # NoState => state'[health].refs > 0 \/ state'[health].pending
    BY <2>1, <2>2 DEF Types, Entry, SameLocks
  <2>4. SamePlaces
    BY <1>w DEF Leave, Types, Counted, Owning, SamePlaces
  <2> QED
    BY <1>w, <2>2, <2>3, <2>4, QuietStep
<1>1. ASSUME NEW p \in Markers, Route(p) \/ Answer(p) \/ Unscored(p) \/ Abandon(p)
      PROVE  Semaphore'
  <2>1. PICK pc \in {"idle", "calling", "mark", "next"} : stage' = [stage EXCEPT ![p] = pc]
    BY <1>1 DEF Route, Answer, Unscored, Abandon
  <2>2. stage[p] \in {"idle", "calling", "next"}
    BY <1>1 DEF Route, Answer, Unscored, Abandon
  <2>3. SamePlaces
    BY <2>1, <2>2 DEF Types, Counted, Owning, SamePlaces
  <2> QED
    BY <1>1, <2>3, <1>q DEF Route, Answer, Unscored, Abandon
<1>2. ASSUME NEW p \in Markers, LockRefer(p) PROVE Semaphore'
  BY <1>2, ReferStep
<1>3. ASSUME NEW p \in Markers, LockAcquire(p) PROVE Semaphore'
  BY <1>3, AcquireStep DEF LockAcquire
<1>4. ASSUME NEW p \in Markers, LockTooLate(p) PROVE Semaphore'
  BY <1>4, AcquireStep DEF LockTooLate, Leave
<1>5. ASSUME NEW p \in Markers, LockGiveUp(p) PROVE Semaphore'
  <2>1. /\ stage[p] = "waiting" /\ stage'[p] = "idle" /\ mine'[p] = NoState
        /\ \A q \in Markers \ {p} : mine'[q] = mine[q] /\ stage'[q] = stage[q]
    BY <1>5 DEF LockGiveUp, Types
  <2>2. /\ ReferencesAreExact'
        /\ \A s \in States : state'[s].locked = state[s].locked
    BY <1>5, <2>1, ReleaseStep DEF LockGiveUp, Counted
  <2>3. Refers'
    BY <2>1 DEF Semaphore, Refers, Counted
  <2>4. Locking'
    BY <2>1, <2>2, HealthAssumption DEF Semaphore, Locking, Owning
  <2> QED
    BY <2>2, <2>3, <2>4 DEF Semaphore
<1>6. ASSUME NEW p \in Markers, SkipSuccess(p) \/ WriteRefused(p) PROVE Semaphore'
  <2>1. SamePlaces
    BY <1>6 DEF SkipSuccess, WriteRefused, Leave, Types, Counted, Owning, SamePlaces
  <2> QED
    BY <1>6, <2>1, <1>q DEF SkipSuccess, WriteRefused
<1>7. ASSUME NEW p \in Markers, WriteSuccess(p) \/ WriteFailure(p) PROVE Semaphore'
  <2>1. /\ stage[p] = "critical" /\ Leave(p) /\ UNCHANGED <<health, mine>>
        /\ \/ UNCHANGED state
           \/ \E b \in BOOLEAN : state' = [state EXCEPT ![mine[p]].pending = b]
    BY <1>7 DEF WriteSuccess, WriteFailure
  <2>2. CASE UNCHANGED state
    <3>1. SamePlaces
      BY <2>1 DEF Leave, Types, Counted, Owning, SamePlaces
    <3> QED
      BY <2>1, <2>2, <3>1, <1>q
  <2> QED
    BY <2>1, <2>2, <1>w
<1>8. ASSUME NEW p \in Markers, Unlock(p) PROVE Semaphore'
  <2>1. /\ stage[p] = "unlock" /\ stage'[p] = "free" /\ UNCHANGED mine
        /\ \A q \in Markers \ {p} : stage'[q] = stage[q]
    BY <1>8 DEF Unlock, Types
  <2>2. /\ ReferencesAreExact'
        /\ \A s \in States : state'[s].locked = state[s].locked
    BY <1>8, <2>1, ReleaseStep DEF Unlock, Counted
  <2>3. Refers'
    BY <2>1 DEF Semaphore, Refers, Counted
  <2>4. Locking'
    BY <2>1, <2>2 DEF Semaphore, Locking, Owning
  <2> QED
    BY <2>2, <2>3, <2>4 DEF Semaphore
<1>9. ASSUME NEW p \in Markers, UnlockFree(p) PROVE Semaphore'
  <2>1. PICK s : s = mine[p]
    OBVIOUS
  <2>2. /\ stage[p] = "free" /\ stage'[p] = "idle" /\ mine'[p] = NoState
        /\ s \in States /\ UNCHANGED health
        /\ \A q \in Markers \ {p} : mine'[q] = mine[q] /\ stage'[q] = stage[q]
    BY <1>9, <2>1 DEF UnlockFree, Types, Semaphore, Refers
  <2>3. /\ \A t \in States : /\ state'[t].refs = state[t].refs
                             /\ state'[t].pending = state[t].pending
        /\ ~state'[s].locked
        /\ \A t \in States \ {s} : state'[t].locked = state[t].locked
    BY <1>9, <2>1, <2>2 DEF UnlockFree, Types, Entry
  <2>4. Refers'
    BY <2>2 DEF Semaphore, Refers, Counted
  <2>5. Locking'
    <3>1. \A q \in Markers \ {p} : stage[q] \in Owning => mine[q] # s
      BY <2>1, <2>2 DEF Semaphore, Locking, Owning
    <3>2. ASSUME NEW t \in States
          PROVE  state'[t].locked <=> \E q \in Markers : mine'[q] = t /\ stage'[q] \in Owning
      <4>1. CASE t = s
        BY <4>1, <3>1, <2>2, <2>3 DEF Owning
      <4>2. CASE t # s
        <5>1. \A q \in Markers : (mine'[q] = t /\ stage'[q] \in Owning)
                                 <=> (mine[q] = t /\ stage[q] \in Owning)
          BY <4>2, <2>1, <2>2, HealthAssumption
        <5> QED
          BY <4>2, <2>3, <5>1 DEF Semaphore, Locking
      <4> QED
        BY <4>1, <4>2
    <3> QED
      BY <2>2, <3>2 DEF Semaphore, Locking, Owning
  <2>6. ReferencesAreExact'
    <3>1. ASSUME NEW t \in States PROVE state'[t].refs = Cardinality(Holders(t)')
      <4>1. Holders(t)' = Holders(t)
        BY <2>2, HealthAssumption DEF Holders
      <4>2. state[t].refs = Cardinality(Holders(t))
        BY DEF Semaphore, ReferencesAreExact, Holders
      <4> QED
        BY <4>1, <4>2, <2>3
    <3>2. \A q \in Markers : stage'[q] \in Counted => mine'[q] = health'
      BY <2>2 DEF Semaphore, ReferencesAreExact, Counted
    <3>3. health' # NoState => state'[health'].refs > 0 \/ state'[health'].pending
      BY <2>2, <2>3 DEF Semaphore, ReferencesAreExact, Types
    <3> QED
      BY <3>1, <3>2, <3>3 DEF ReferencesAreExact, Holders, Counted
  <2> QED
    BY <2>4, <2>5, <2>6 DEF Semaphore
<1>10. ASSUME UNCHANGED <<health, state, stage, mine>> PROVE Semaphore'
  BY <1>10, <1>q DEF SamePlaces
<1>11. ASSUME NEW q \in Probes, ProbeStart(q) \/ ProbeEnd(q) PROVE Semaphore'
  BY <1>10, <1>11 DEF ProbeStart, ProbeEnd, ProbeHealthy, ProbeFailed, ProbeVoid
<1>12. CASE UpdateUpstream \/ CooldownEnds \/ TwoMinutesPass \/ UNCHANGED healthVars
  BY <1>10, <1>12 DEF UpdateUpstream, CooldownEnds, TwoMinutesPass, healthVars
<1> QED
  BY <1>1, <1>2, <1>3, <1>4, <1>5, <1>6, <1>7, <1>8, <1>9, <1>11, <1>12
     DEF HealthNext, MarkStep

-----------------------------------------------------------------------------
(* The failure that is remembered, and the theorems of the semaphore.      *)

LEMMA OwedStep ==
  Types /\ Semaphore /\ OwedFailureIsRemembered /\ [HealthNext]_healthVars
    => OwedFailureIsRemembered'
<1> SUFFICES ASSUME Types, Semaphore, OwedFailureIsRemembered, [HealthNext]_healthVars
             PROVE  OwedFailureIsRemembered'
  OBVIOUS
<1> USE DEF requestVars, historyVars
<1>1. ASSUME UNCHANGED <<health, state>>, owed' => owed PROVE OwedFailureIsRemembered'
  BY <1>1 DEF OwedFailureIsRemembered
<1>2. ASSUME NEW p \in Markers,
             \/ Route(p) \/ Answer(p) \/ Unscored(p) \/ Abandon(p)
             \/ SkipSuccess(p) \/ WriteRefused(p)
      PROVE  OwedFailureIsRemembered'
  BY <1>1, <1>2 DEF Route, Answer, Unscored, Abandon, SkipSuccess, WriteRefused
<1>3. ASSUME NEW p \in Markers, LockRefer(p) PROVE OwedFailureIsRemembered'
  <2>1. CASE health # NoState
    <3>1. health \in States
      BY <2>1 DEF Types
    <3>2. health' = health /\ state'[health].pending = state[health].pending /\ owed' = owed
      BY <1>3, <2>1, <3>1 DEF LockRefer, Types, Entry
    <3> QED
      BY <3>2 DEF OwedFailureIsRemembered
  <2>2. CASE health = NoState
    BY <1>3, <2>2 DEF LockRefer, OwedFailureIsRemembered
  <2> QED
    BY <2>1, <2>2
<1>4. ASSUME NEW p \in Markers, NEW b \in BOOLEAN, stage[p] \in Counted \cup {"free"},
             state' = [state EXCEPT ![mine[p]].locked = b], UNCHANGED <<health, owed>>
      PROVE  OwedFailureIsRemembered'
  <2>1. ASSUME health \in States PROVE state'[health].pending = state[health].pending
    BY <1>4, <2>1 DEF Types, Entry
  <2> QED
    BY <1>4, <2>1 DEF OwedFailureIsRemembered, Types
<1>5. ASSUME NEW p \in Markers, LockAcquire(p) \/ LockTooLate(p) \/ UnlockFree(p)
      PROVE  OwedFailureIsRemembered'
  BY <1>4, <1>5 DEF LockAcquire, LockTooLate, UnlockFree, Counted
<1>6. ASSUME NEW p \in Markers, LockGiveUp(p) \/ Unlock(p) PROVE OwedFailureIsRemembered'
  <2>1. Release(p) /\ stage[p] \in Counted /\ owed' = owed
    BY <1>6 DEF LockGiveUp, Unlock, Counted
  <2>2. mine[p] = health /\ health \in States
    BY <2>1, InTheMap
  <2>3. state'[health].pending = state[health].pending
    BY <2>1, <2>2 DEF Release, Types, Entry
  <2>4. state[health].pending => health' = health
    BY <2>1, <2>2 DEF Release, Forgettable, NothingPending
  <2> QED
    BY <2>1, <2>2, <2>3, <2>4 DEF OwedFailureIsRemembered
<1>7. ASSUME NEW p \in Markers, WriteSuccess(p) PROVE OwedFailureIsRemembered'
  BY <1>7 DEF WriteSuccess, OwedFailureIsRemembered
<1>8. ASSUME NEW p \in Markers, WriteFailure(p) PROVE OwedFailureIsRemembered'
  <2>1. mine[p] = health /\ health \in States /\ health # NoState
    BY <1>8, InTheMap, HealthAssumption DEF WriteFailure, Counted
  <2>2. CASE UNCHANGED <<state, owed>>
    BY <1>8, <2>2 DEF WriteFailure, OwedFailureIsRemembered
  <2>3. CASE state' = [state EXCEPT ![mine[p]].pending = TRUE]
    <3>1. state'[health].pending /\ health' = health
      BY <1>8, <2>1, <2>3 DEF WriteFailure, Types, Entry
    <3> QED
      BY <2>1, <3>1 DEF OwedFailureIsRemembered
  <2> QED
    BY <1>8, <2>2, <2>3 DEF WriteFailure
<1>9. ASSUME NEW q \in Probes, ProbeStart(q) \/ ProbeEnd(q) PROVE OwedFailureIsRemembered'
  BY <1>1, <1>9 DEF ProbeStart, ProbeEnd, ProbeHealthy, ProbeFailed, ProbeVoid
<1>10. CASE UpdateUpstream \/ CooldownEnds \/ TwoMinutesPass \/ UNCHANGED healthVars
  BY <1>1, <1>10 DEF UpdateUpstream, CooldownEnds, TwoMinutesPass, healthVars
<1> QED
  BY <1>2, <1>3, <1>5, <1>6, <1>7, <1>8, <1>9, <1>10 DEF HealthNext, MarkStep

LEMMA IInvInit == HealthInit => IInv
<1> SUFFICES ASSUME HealthInit PROVE IInv
  OBVIOUS
<1>1. Types
  <2>1. Fresh \in Entry /\ 0 \in 0..MaxVersion /\ 0 \in 0..3
    BY HealthAssumption DEF Fresh, Entry
  <2>2. "idle" \in MarkStates /\ "ok" \in Outcomes
    BY DEF MarkStates, Outcomes
  <2> QED
    BY <2>1, <2>2, NewRowType DEF HealthInit, Types
<1>2. Refers /\ Locking /\ OwedFailureIsRemembered
  BY DEF HealthInit, Refers, Locking, OwedFailureIsRemembered, Counted, Owning, Fresh
<1>3. ReferencesAreExact
  <2>1. ASSUME NEW s \in States PROVE Holders(s) = {} /\ state[s].refs = 0
    BY HealthAssumption DEF HealthInit, Holders, Fresh
  <2> QED
    BY <2>1, FS_EmptySet DEF HealthInit, ReferencesAreExact, Holders
<1> QED
  BY <1>1, <1>2, <1>3 DEF IInv, Semaphore

LEMMA IInvStep == IInv /\ [HealthNext]_healthVars => IInv'
BY TypesStep, SemaphoreStep, OwedStep DEF IInv

LEMMA Invariant == HealthSpec => []IInv
BY IInvInit, IInvStep, PTL DEF HealthSpec

(* UpstreamHealth.HealthTypeOK: the row, the entries of the health map and *)
(* the handlers that score keep their types; no count goes below zero.     *)
THEOREM HealthTypeCorrect == HealthSpec => []HealthTypeOK
<1>1. IInv => HealthTypeOK
  BY DEF IInv, Types, HealthTypeOK, Snaps, Entry
<1> QED
  BY <1>1, Invariant, PTL

(* UpstreamHealth.SemaphoreIsSound: markSuccess and markFailure of one     *)
(* upstream are never inside together, and the counts by which             *)
(* releaseUpstreamHealth forgets an entry are exact, for any number of     *)
(* handlers and although entries come and go.                              *)
THEOREM ScoresTakeTurns == HealthSpec => []SemaphoreIsSound
<1>1. IInv => SemaphoreIsSound
  <2> SUFFICES ASSUME IInv PROVE OneScoreAtATime
    BY DEF IInv, Semaphore, SemaphoreIsSound
  <2>1. ASSUME NEW p \in Markers, NEW q \in Markers, InSection(p), InSection(q)
        PROVE  p = q
    BY <2>1 DEF InSection, IInv, Semaphore, ReferencesAreExact, Locking, Owning
  <2> QED
    BY <2>1 DEF OneScoreAtATime
<1> QED
  BY <1>1, Invariant, PTL

(* UpstreamHealth.OwedFailureIsRemembered: the failure that markFailure    *)
(* wrote stays pending in the map until a healthy write, so that no later  *)
(* success is skipped for its older copy of the row.                       *)
THEOREM FailureIsRemembered == HealthSpec => []OwedFailureIsRemembered
<1>1. IInv => OwedFailureIsRemembered
  BY DEF IInv
<1> QED
  BY <1>1, Invariant, PTL

-----------------------------------------------------------------------------
(* How an upstream becomes healthy again.                                  *)

(* What the successes of the row rest on: consecutive healthy probes.      *)
Confirmed ==
  /\ row.successes <= streak
  /\ row.recovery # "none" => streak > 0

Earned == Types /\ CircuitMatchesHealth /\ Confirmed

LEMMA FailedRowEffect ==
  ASSUME row \in Row, NEW authFailure \in BOOLEAN, row' = FailedRow(authFailure)
  PROVE  /\ \/ row'.status = "unhealthy" /\ row'.circuit = "open"
            \/ /\ row'.status = "degraded" /\ row'.circuit = row.circuit
               /\ row.status # "unhealthy"
         /\ row'.successes = 0 /\ row'.recovery = "none"
<1> DEFINE unhealthy == \/ row.status = "unhealthy" \/ authFailure
                        \/ row.failures + 1 >= Threshold
<1>1. CASE unhealthy
  BY <1>1 DEF FailedRow, Row
<1>2. CASE ~unhealthy
  BY <1>2 DEF FailedRow, Row
<1> QED
  BY <1>1, <1>2

(* The steps that touch the row or the streak, and no other.               *)
LEMMA RowSteps ==
  ASSUME Types, [HealthNext]_healthVars
  PROVE  \/ row' = row /\ streak' = streak
         \/ row' = HealthyRow(FALSE) /\ streak' = streak
         \/ \E authFailure \in BOOLEAN : row' = FailedRow(authFailure) /\ streak' = 0
         \/ row' = HealthyRow(TRUE) /\ streak' = IF streak < 3 THEN streak + 1 ELSE streak
         \/ streak' = streak /\ (UpdateUpstream \/ CooldownEnds \/ TwoMinutesPass)
<1> USE DEF requestVars, historyVars
<1>1. ASSUME NEW p \in Markers, Route(p) \/ Answer(p) \/ Unscored(p) \/ Abandon(p)
      PROVE  row' = row /\ streak' = streak
  BY <1>1 DEF Route, Answer, Unscored, Abandon
<1>2. ASSUME NEW p \in Markers,
             \/ LockRefer(p) \/ LockAcquire(p) \/ LockTooLate(p) \/ LockGiveUp(p)
             \/ SkipSuccess(p) \/ WriteRefused(p) \/ Unlock(p) \/ UnlockFree(p)
      PROVE  row' = row /\ streak' = streak
  BY <1>2 DEF LockRefer, LockAcquire, LockTooLate, LockGiveUp, SkipSuccess, WriteRefused,
              Unlock, UnlockFree
<1>3. ASSUME NEW p \in Markers, WriteSuccess(p)
      PROVE  row' = HealthyRow(FALSE) /\ streak' = streak
  BY <1>3 DEF WriteSuccess
<1>4. ASSUME NEW p \in Markers, WriteFailure(p)
      PROVE  \E authFailure \in BOOLEAN : row' = FailedRow(authFailure) /\ streak' = 0
  <2>1. /\ (outcome[p] = "401") \in BOOLEAN
        /\ row' = FailedRow(outcome[p] = "401") /\ streak' = 0
    BY <1>4 DEF WriteFailure
  <2> QED
    BY <2>1
<1>5. ASSUME NEW q \in Probes, ProbeStart(q) \/ ProbeVoid(q)
      PROVE  row' = row /\ streak' = streak
  BY <1>5 DEF ProbeStart, ProbeVoid
<1>6. ASSUME NEW q \in Probes, ProbeHealthy(q)
      PROVE  row' = HealthyRow(TRUE) /\ streak' = IF streak < 3 THEN streak + 1 ELSE streak
  BY <1>6 DEF ProbeHealthy
<1>7. ASSUME NEW q \in Probes, ProbeFailed(q)
      PROVE  \E authFailure \in BOOLEAN : row' = FailedRow(authFailure) /\ streak' = 0
  BY <1>7 DEF ProbeFailed
<1>8. CASE UpdateUpstream \/ CooldownEnds \/ TwoMinutesPass
  BY <1>8 DEF UpdateUpstream, CooldownEnds, TwoMinutesPass
<1>9. CASE UNCHANGED healthVars
  BY <1>9 DEF healthVars
<1> QED
  BY <1>1, <1>2, <1>3, <1>4, <1>5, <1>6, <1>7, <1>8, <1>9 DEF HealthNext, MarkStep, ProbeEnd

LEMMA RecoveryStep ==
  ASSUME Earned, [HealthNext]_healthVars
  PROVE  /\ CircuitMatchesHealth' /\ Confirmed'
         /\ row.status = "unhealthy" /\ row'.status # "unhealthy"
              => \/ streak' = 3
                 \/ row.recovery = "old" /\ streak > 0 /\ streak' > streak
<1>0. /\ row \in Row /\ streak \in 0..3 /\ row.successes \in 0..2
      /\ row.circuit # "none" <=> row.status = "unhealthy"
      /\ row.successes <= streak /\ (row.recovery # "none" => streak > 0)
  BY DEF Earned, Types, CircuitMatchesHealth, Confirmed, Row
<1> USE DEF CircuitMatchesHealth, Confirmed
<1>1. CASE row' = row /\ streak' = streak
  BY <1>0, <1>1
<1>2. CASE row' = HealthyRow(FALSE) /\ streak' = streak
  <2>1. CASE row.status = "unhealthy"
    <3>1. /\ row'.status = "unhealthy" /\ row'.circuit = row.circuit
          /\ row'.successes = row.successes /\ row'.recovery = row.recovery
      BY <1>0, <1>2, <2>1 DEF HealthyRow, Unconfirmed, Row
    <3> QED
      BY <1>0, <1>2, <2>1, <3>1
  <2>2. CASE row.status # "unhealthy"
    <3>1. /\ row'.status = "healthy" /\ row'.circuit = "none"
          /\ row'.successes = 0 /\ row'.recovery = "none"
      BY <1>0, <1>2, <2>2 DEF HealthyRow, Row
    <3>2. 0 <= streak'
      BY <1>0, <1>2
    <3>3. CircuitMatchesHealth' /\ Confirmed'
      BY <3>1, <3>2
    <3> QED
      BY <2>2, <3>3
  <2> QED
    BY <2>1, <2>2
<1>3. CASE \E authFailure \in BOOLEAN : row' = FailedRow(authFailure) /\ streak' = 0
  BY <1>0, <1>3, FailedRowEffect
<1>4. CASE row' = HealthyRow(TRUE) /\ streak' = IF streak < 3 THEN streak + 1 ELSE streak
  <2>1. streak' > 0 /\ (streak' = 3 \/ streak' = streak + 1)
    BY <1>0, <1>4
  <2>2. CASE row.status = "unhealthy" /\ Unconfirmed(TRUE)
    <3>1. /\ row'.successes = row.successes + 1
          /\ row'.status = "unhealthy" /\ row'.circuit = row.circuit
      BY <1>0, <1>4, <2>2 DEF HealthyRow, Row
    <3>2. row.successes + 1 <= 2
      BY <1>0, <2>2 DEF Unconfirmed
    <3>3. row.successes + 1 <= streak'
      BY <1>0, <2>1, <3>2
    <3> QED
      BY <1>0, <2>1, <2>2, <3>1, <3>3
  <2>3. CASE ~(row.status = "unhealthy" /\ Unconfirmed(TRUE))
    <3>1. /\ row'.successes = 0 /\ row'.recovery = "none" /\ row'.status = "healthy"
          /\ row'.circuit = "none"
      BY <1>0, <1>4, <2>3 DEF HealthyRow, Row
    <3>2. row.status = "unhealthy" => row.successes = 2 \/ row.recovery = "old"
      BY <1>0, <2>3 DEF Unconfirmed
    <3>3. streak = 3 => streak' = 3
      BY <1>4
    <3> QED
      BY <1>0, <2>1, <3>1, <3>2, <3>3
  <2> QED
    BY <2>2, <2>3
<1>5. CASE streak' = streak /\ (UpdateUpstream \/ CooldownEnds \/ TwoMinutesPass)
  <2>1. /\ row'.status = row.status /\ row'.successes = row.successes
        /\ row'.circuit = "none" <=> row.circuit = "none"
        /\ row'.recovery = "none" <=> row.recovery = "none"
    BY <1>0, <1>5 DEF UpdateUpstream, CooldownEnds, TwoMinutesPass, Row
  <2> QED
    BY <1>0, <1>5, <2>1
<1> QED
  BY <1>1, <1>2, <1>3, <1>4, <1>5, RowSteps DEF Earned

(* Who leaves its section with another row has written it.                 *)
LEMMA StaleStep ==
  ASSUME Types, [HealthNext]_healthVars, NEW p \in Markers,
         stage[p] = "critical", stage'[p] = "unlock", row' # row
  PROVE  snap[p].version = row.version
<1> USE DEF requestVars, historyVars
<1>1. ASSUME NEW r \in Markers, WriteSuccess(r) \/ WriteFailure(r)
      PROVE  snap[p].version = row.version
  <2>1. stage' = [stage EXCEPT ![r] = "unlock"] /\ snap[r].version = row.version
    BY <1>1 DEF WriteSuccess, WriteFailure, Leave, VersionMatches
  <2>2. r = p
    BY <2>1 DEF Types
  <2> QED
    BY <2>1, <2>2
<1>2. ASSUME NEW r \in Markers,
             \/ Route(r) \/ Answer(r) \/ Unscored(r) \/ Abandon(r)
             \/ LockRefer(r) \/ LockAcquire(r) \/ LockTooLate(r) \/ LockGiveUp(r)
             \/ SkipSuccess(r) \/ WriteRefused(r) \/ Unlock(r) \/ UnlockFree(r)
      PROVE  row' = row
  BY <1>2 DEF Route, Answer, Unscored, Abandon, LockRefer, LockAcquire, LockTooLate,
              LockGiveUp, SkipSuccess, WriteRefused, Unlock, UnlockFree
<1>3. ASSUME NEW q \in Probes, ProbeStart(q) \/ ProbeEnd(q) PROVE stage' = stage
  BY <1>3 DEF ProbeStart, ProbeEnd, ProbeHealthy, ProbeFailed, ProbeVoid
<1>4. CASE UpdateUpstream \/ CooldownEnds \/ TwoMinutesPass \/ UNCHANGED healthVars
  BY <1>4 DEF UpdateUpstream, CooldownEnds, TwoMinutesPass, healthVars
<1> QED
  BY <1>1, <1>2, <1>3, <1>4 DEF HealthNext, MarkStep

LEMMA AlwaysEarned == HealthSpec => []Earned
<1>1. HealthInit => CircuitMatchesHealth /\ Confirmed
  BY DEF HealthInit, NewRow, CircuitMatchesHealth, Confirmed
<1>2. IInv /\ CircuitMatchesHealth /\ Confirmed /\ [HealthNext]_healthVars
        => CircuitMatchesHealth' /\ Confirmed'
  BY RecoveryStep DEF IInv, Earned
<1>3. IInv => Types
  BY DEF IInv
<1> QED
  BY <1>1, <1>2, <1>3, Invariant, PTL DEF HealthSpec, Earned

(* UpstreamHealth.CircuitMatchesHealth: routing leaves an upstream out, or *)
(* gives it one try, exactly when its status says unhealthy, whichever of  *)
(* the two branches of saveHealth wrote the row last.                      *)
THEOREM CircuitFollowsStatus == HealthSpec => []CircuitMatchesHealth
<1>1. Earned => CircuitMatchesHealth
  BY DEF Earned
<1> QED
  BY <1>1, AlwaysEarned, PTL

(* UpstreamHealth.HealthIsEarned: a score measured under an older          *)
(* config_version changes nothing, and only consecutive probes, three or   *)
(* two minutes of them, make an unhealthy upstream healthy.                *)
THEOREM RecoveryIsEarned == HealthSpec => HealthIsEarned
<1>1. Earned /\ [HealthNext]_healthVars
        => \A p \in Markers :
             (stage[p] = "critical" /\ stage'[p] = "unlock" /\ row' # row)
               => snap[p].version = row.version
  BY StaleStep DEF Earned
<1>2. Earned /\ [HealthNext]_healthVars
        => (row.status = "unhealthy" /\ row'.status # "unhealthy"
              => \/ streak' = 3
                 \/ row.recovery = "old" /\ streak > 0 /\ streak' > streak)
  BY RecoveryStep
<1> QED
  BY <1>1, <1>2, AlwaysEarned, PTL
     DEF HealthSpec, HealthIsEarned, StaleScoreIsVoid, OnlyProbesConfirmRecovery
=============================================================================
