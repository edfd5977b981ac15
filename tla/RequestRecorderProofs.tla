----------------------- MODULE RequestRecorderProofs -----------------------
(***************************************************************************)
(* Proofs about RequestRecorder and the shutdown around it                 *)
(* (GracefulShutdown), for every number of records and every size of the   *)
(* queue, the batches and the fallback: types and bounds; no record is     *)
(* lost without being counted, none is counted twice; and a process that   *)
(* exits without an error has lost none.                                   *)
(*                                                                         *)
(* The argument. The segments of a flush are disjoint sets of records      *)
(* whose union never grows, so a batch never exceeds BatchSize however it  *)
(* is bisected, and only a holder of a slot is inside a fallback's flush.  *)
(* A record is in one place at a time, and each step moves it on to the    *)
(* next. The process is one of the recorder's behaviours, so what holds of *)
(* the recorder holds of the process.                                      *)
(***************************************************************************)
EXTENDS GracefulShutdown, FiniteSetTheorems, SequenceTheorems, TLAPS

-----------------------------------------------------------------------------
(* Segments: a stack of sets of records.                                   *)

Records(s) == UNION {s[i] : i \in DOMAIN s}

Disjoint(s) == \A i, j \in DOMAIN s : i # j => s[i] \cap s[j] = {}

LEMMA EmptyStack == Records(<<>>) = {} /\ Disjoint(<<>>)
  BY DEF Records, Disjoint

LEMMA OneSegment ==
  ASSUME NEW S \in SUBSET Requests
  PROVE  /\ <<S>> \in Seq(SUBSET Requests)
         /\ Records(<<S>>) = S /\ Disjoint(<<S>>)
<1>1. DOMAIN <<S>> = {1} /\ <<S>>[1] = S
  OBVIOUS
<1> QED
  BY <1>1 DEF Records, Disjoint

(* Popping a segment removes its records and no others.                    *)
LEMMA PopStack ==
  ASSUME NEW s \in Seq(SUBSET Requests), s # <<>>, Disjoint(s)
  PROVE  /\ Head(s) \in SUBSET Requests
         /\ Head(s) \subseteq Records(s)
         /\ Tail(s) \in Seq(SUBSET Requests)
         /\ Records(Tail(s)) = Records(s) \ Head(s)
         /\ Disjoint(Tail(s))
<1>1. Len(s) \in Nat /\ Len(s) >= 1 /\ DOMAIN s = 1..Len(s)
  OBVIOUS
<1>2. Head(s) = s[1] /\ s[1] \in SUBSET Requests
  BY <1>1
<1>3. Tail(s) \in Seq(SUBSET Requests) /\ Len(Tail(s)) = Len(s) - 1
  OBVIOUS
<1>4. DOMAIN Tail(s) = 1..(Len(s) - 1)
  BY <1>3
<1>5. \A i \in 1..(Len(s) - 1) : Tail(s)[i] = s[i + 1]
  OBVIOUS
<1>6. Disjoint(Tail(s))
  BY <1>1, <1>4, <1>5 DEF Disjoint
<1>7. Records(Tail(s)) \subseteq Records(s) \ Head(s)
  BY <1>1, <1>2, <1>4, <1>5 DEF Records, Disjoint
<1>8. ASSUME NEW x \in Records(s) \ Head(s) PROVE x \in Records(Tail(s))
  <2>1. PICK i \in 1..Len(s) : x \in s[i]
    BY <1>1 DEF Records
  <2>2. i # 1
    BY <1>2, <2>1
  <2>3. i - 1 \in 1..(Len(s) - 1) /\ Tail(s)[i - 1] = s[i]
    BY <1>1, <1>5, <2>2
  <2> QED
    BY <1>4, <2>1, <2>3 DEF Records
<1> QED
  BY <1>1, <1>2, <1>3, <1>6, <1>7, <1>8 DEF Records

(* Splitting a segment moves no record.                                    *)
LEMMA SplitStack ==
  ASSUME NEW s \in Seq(SUBSET Requests), s # <<>>, Disjoint(s),
         NEW left \in SUBSET Head(s)
  PROVE  LET t == <<left, Head(s) \ left>> \o Tail(s) IN
         /\ t \in Seq(SUBSET Requests)
         /\ t # <<>>
         /\ Records(t) = Records(s)
         /\ Disjoint(t)
<1> DEFINE t == <<left, Head(s) \ left>> \o Tail(s)
<1>1. Len(s) \in Nat /\ Len(s) >= 1 /\ DOMAIN s = 1..Len(s)
  OBVIOUS
<1>2. Head(s) = s[1] /\ s[1] \in SUBSET Requests
  BY <1>1
<1>3. /\ Tail(s) \in Seq(SUBSET Requests) /\ Len(Tail(s)) = Len(s) - 1
      /\ \A i \in 1..(Len(s) - 1) : Tail(s)[i] = s[i + 1]
  OBVIOUS
<1>4. /\ <<left, Head(s) \ left>> \in Seq(SUBSET Requests)
      /\ Len(<<left, Head(s) \ left>>) = 2
  BY <1>2
<1>5. t \in Seq(SUBSET Requests) /\ Len(t) = Len(s) + 1
  BY <1>1, <1>3, <1>4
<1>6. DOMAIN t = 1..(Len(s) + 1)
  BY <1>5
<1>7. t[1] = left /\ t[2] = Head(s) \ left
  BY <1>3, <1>4
<1>8. \A i \in 3..(Len(s) + 1) : t[i] = s[i - 1]
  BY <1>1, <1>3, <1>4
<1> HIDE DEF t
<1>9. Records(t) \subseteq Records(s)
  <2> SUFFICES ASSUME NEW i \in 1..(Len(s) + 1), NEW x \in t[i]
               PROVE  x \in Records(s)
    BY <1>6 DEF Records
  <2>1. CASE i \in {1, 2}
    BY <1>1, <1>2, <1>7, <2>1 DEF Records
  <2>2. CASE i \in 3..(Len(s) + 1)
    BY <1>1, <1>8, <2>2 DEF Records
  <2> QED
    BY <1>1, <2>1, <2>2
<1>10. Records(s) \subseteq Records(t)
  <2> SUFFICES ASSUME NEW i \in 1..Len(s), NEW x \in s[i]
               PROVE  \E j \in 1..(Len(s) + 1) : x \in t[j]
    BY <1>1, <1>6 DEF Records
  <2>1. CASE i = 1
    BY <1>1, <1>2, <1>7, <2>1
  <2>2. CASE i # 1
    <3>1. i + 1 \in 3..(Len(s) + 1) /\ t[i + 1] = s[i]
      BY <1>1, <1>8, <2>2
    <3> QED
      BY <1>1, <3>1
  <2> QED
    BY <2>1, <2>2
<1>11. Disjoint(t)
  <2> SUFFICES ASSUME NEW i \in 1..(Len(s) + 1), NEW j \in 1..(Len(s) + 1),
                      i < j
               PROVE  t[i] \cap t[j] = {}
    BY <1>1, <1>6 DEF Disjoint
  <2>1. CASE j = 2
    BY <1>1, <1>7, <2>1
  <2>2. CASE j # 2 /\ i \in {1, 2}
    <3>1. t[j] = s[j - 1] /\ t[i] \subseteq s[1] /\ j - 1 \in 2..Len(s)
      BY <1>1, <1>2, <1>7, <1>8, <2>2
    <3> QED
      BY <1>1, <3>1 DEF Disjoint
  <2>3. CASE i \notin {1, 2}
    <3>1. /\ t[j] = s[j - 1] /\ t[i] = s[i - 1]
          /\ i - 1 \in 1..Len(s) /\ j - 1 \in 1..Len(s) /\ i - 1 # j - 1
      BY <1>1, <1>8, <2>3
    <3> QED
      BY <1>1, <3>1 DEF Disjoint
  <2> QED
    BY <1>1, <2>1, <2>2, <2>3
<1>12. t # <<>>
  BY <1>1, <1>5
<1>13. Records(t) = Records(s)
  BY <1>9, <1>10
<1> QED
  BY <1>5, <1>11, <1>12, <1>13 DEF t

-----------------------------------------------------------------------------
(* Bounds: a set that loses members, or gains one below its limit.         *)

LEMMA BoundKept ==
  ASSUME NEW S, IsFiniteSet(S), NEW T \in SUBSET S, NEW n \in Nat,
         Cardinality(S) <= n
  PROVE  IsFiniteSet(T) /\ Cardinality(T) <= n
<1>1. IsFiniteSet(T) /\ Cardinality(T) <= Cardinality(S)
  BY FS_Subset
<1>2. Cardinality(S) \in Nat /\ Cardinality(T) \in Nat
  BY <1>1, FS_CardinalityType
<1> QED
  BY <1>1, <1>2

LEMMA BoundReached ==
  ASSUME NEW S, IsFiniteSet(S), NEW x, NEW T \in SUBSET (S \cup {x}),
         NEW n \in Nat, Cardinality(S) < n
  PROVE  IsFiniteSet(T) /\ Cardinality(T) <= n
<1>1. /\ IsFiniteSet(S \cup {x}) /\ Cardinality(S) \in Nat
      /\ Cardinality(S \cup {x}) <= Cardinality(S) + 1
  <2>1. Cardinality(S) \in Nat
    BY FS_CardinalityType
  <2>2. /\ IsFiniteSet(S \cup {x})
        /\ Cardinality(S \cup {x}) =
             IF x \in S THEN Cardinality(S) ELSE Cardinality(S) + 1
    BY FS_AddElement
  <2> QED
    BY <2>1, <2>2
<1>2. Cardinality(S \cup {x}) \in Nat
  BY <1>1, FS_CardinalityType
<1>3. Cardinality(S \cup {x}) <= n
  BY <1>1, <1>2
<1> QED
  BY <1>1, <1>3, BoundKept

LEMMA RecordsFinite ==
  ASSUME NEW S \in SUBSET Requests
  PROVE  IsFiniteSet(S) /\ Cardinality(S) \in Nat
<1>1. IsFiniteSet(S)
  BY RecorderAssumption, FS_Subset
<1> QED
  BY <1>1, FS_CardinalityType

-----------------------------------------------------------------------------
(* Type correctness.  An error is held only while its segment is.          *)

TypeInv ==
  /\ TypeOK
  /\ \A w \in Workers : flush[w].result # "none" => flush[w].todo # <<>>

(* The part of TypeOK that says where the handlers stand.                  *)
PcType ==
  /\ pc \in [Requests -> PcStates]
  /\ Cardinality(At("waiting")) <= FallbackWaiters
  /\ Cardinality(At("flushing")) <= FallbackSlots

FlushType ==
  /\ flush \in [Workers -> FlushState]
  /\ \A w \in Workers : flush[w].result # "none" => flush[w].todo # <<>>

LEMMA HandlerMoves ==
  ASSUME TypeOK, NEW r \in Requests, NEW next \in PcStates,
         pc' = [pc EXCEPT ![r] = next],
         next = "waiting" => Cardinality(At("waiting")) < FallbackWaiters,
         next = "flushing" => Cardinality(At("flushing")) < FallbackSlots
  PROVE  PcType'
<1>1. FallbackWaiters \in Nat /\ FallbackSlots \in Nat
  BY RecorderAssumption
<1>2. \A state : At(state) \in SUBSET Requests
  BY DEF At
<1>3. \A state : IsFiniteSet(At(state))
  BY <1>2, RecordsFinite
<1>4. pc' \in [Requests -> PcStates]
  BY DEF TypeOK
<1>5. Cardinality(At("waiting")') <= FallbackWaiters
  <2>1. CASE next = "waiting"
    <3>1. At("waiting")' \subseteq At("waiting") \cup {r}
      BY DEF At, TypeOK
    <3> QED
      BY <1>1, <1>3, <2>1, <3>1, BoundReached
  <2>2. CASE next # "waiting"
    <3>1. At("waiting")' \subseteq At("waiting")
      BY <2>2 DEF At, TypeOK
    <3> QED
      BY <1>1, <1>3, <3>1, BoundKept DEF TypeOK
  <2> QED
    BY <2>1, <2>2
<1>6. Cardinality(At("flushing")') <= FallbackSlots
  <2>1. CASE next = "flushing"
    <3>1. At("flushing")' \subseteq At("flushing") \cup {r}
      BY DEF At, TypeOK
    <3> QED
      BY <1>1, <1>3, <2>1, <3>1, BoundReached
  <2>2. CASE next # "flushing"
    <3>1. At("flushing")' \subseteq At("flushing")
      BY <2>2 DEF At, TypeOK
    <3> QED
      BY <1>1, <1>3, <3>1, BoundKept DEF TypeOK
  <2> QED
    BY <2>1, <2>2
<1> QED
  BY <1>4, <1>5, <1>6 DEF PcType

(* What a flush may become.                                                *)
LEMMA SegmentsType ==
  ASSUME NEW stack \in Seq(SUBSET Requests)
  PROVE  /\ Segments(stack) \in FlushState
         /\ Segments(stack).result = "none"
         /\ Segments(stack).todo = stack
<1>1. 0 \in 0..(MaxTries - 1)
  BY RecorderAssumption
<1> QED
  BY <1>1 DEF Segments, FlushState

LEMMA IdleType == Idle \in FlushState /\ Idle.result = "none" /\ Idle.todo = <<>>
<1>1. <<>> \in Seq(SUBSET Requests)
  OBVIOUS
<1> QED
  BY <1>1, SegmentsType DEF Idle

LEMMA FlushingType ==
  ASSUME NEW S \in SUBSET Requests
  PROVE  /\ Flushing(S) \in FlushState
         /\ Flushing(S).result = "none"
         /\ Flushing(S).todo = <<S>>
  BY OneSegment, SegmentsType DEF Flushing

LEMMA FlushMoves ==
  ASSUME FlushType, NEW w \in Workers, NEW f \in FlushState,
         f.result # "none" => f.todo # <<>>,
         flush' = [flush EXCEPT ![w] = f]
  PROVE  FlushType'
  BY DEF FlushType

LEMMA InitTypeInv == Init => TypeInv
<1> SUFFICES ASSUME Init PROVE TypeInv
  OBVIOUS
<1>1. At("waiting") = {} /\ At("flushing") = {}
  BY DEF Init, At
<1>2. Cardinality({}) = 0
  BY FS_EmptySet
<1>3. \A w \in Workers : flush[w] = Idle
  BY DEF Init
<1>4. flush \in [Workers -> FlushState]
  BY IdleType DEF Init
<1>5. /\ Cardinality(At("waiting")) <= FallbackWaiters
      /\ Cardinality(At("flushing")) <= FallbackSlots
  BY <1>1, <1>2, RecorderAssumption
<1>6. Cardinality(queue) <= QueueCap /\ Cardinality(batch) < BatchSize
  BY <1>2, RecorderAssumption DEF Init
<1>7. \A w \in Workers : flush[w].result = "none"
  BY <1>3, IdleType
<1>8. outages \in 0..MaxTries
  BY RecorderAssumption DEF Init
<1> QED
  BY <1>4, <1>5, <1>6, <1>7, <1>8
  DEF Init, TypeInv, TypeOK, PcStates, RunnerStates, CloserStates

(* What is left of the types once pc and flush are taken care of.          *)
QueueType ==
  /\ queue \in SUBSET Requests /\ Cardinality(queue) <= QueueCap
  /\ batch \in SUBSET Requests /\ Cardinality(batch) < BatchSize

OtherTypes ==
  /\ closed \in BOOLEAN
  /\ runner \in RunnerStates
  /\ cancelled \in BOOLEAN
  /\ closer \in [Closers -> CloserStates]
  /\ flushErr \in BOOLEAN
  /\ dropped \in Nat
  /\ rejected \in Nat
  /\ db \in SUBSET Requests
  /\ usage \in [Requests -> Nat]
  /\ lost \in SUBSET Requests
  /\ outages \in 0..MaxTries

LEMMA TypeParts ==
  /\ TypeInv <=> PcType /\ FlushType /\ QueueType /\ OtherTypes
  /\ TypeInv' <=> PcType' /\ FlushType' /\ QueueType' /\ OtherTypes'
  BY DEF TypeInv, TypeOK, PcType, FlushType, QueueType, OtherTypes

LEMMA LoseType ==
  ASSUME OtherTypes, NEW S \in SUBSET Requests, Lose(S)
  PROVE  dropped' \in Nat /\ lost' \in SUBSET Requests
  BY RecordsFinite DEF OtherTypes, Lose

LEMMA RecordRequestsType ==
  ASSUME OtherTypes, NEW S \in SUBSET Requests, RecordRequests(S)
  PROVE  db' \in SUBSET Requests /\ usage' \in [Requests -> Nat]
  BY DEF OtherTypes, RecordRequests

(* Every step of a flush leaves its state well formed.                     *)
LEMMA FlushStepType ==
  ASSUME TypeInv, NEW w \in Workers, FlushStep(w)
  PROVE  TypeInv'
<1>1. PcType /\ FlushType /\ QueueType /\ OtherTypes
  BY TypeParts
<1>2. /\ flush[w] \in FlushState
      /\ flush[w].result # "none" => flush[w].todo # <<>>
  BY <1>1 DEF FlushType
<1>3. /\ flush[w].todo \in Seq(SUBSET Requests)
      /\ flush[w].tries \in 0..(MaxTries - 1)
      /\ MaxTries \in Nat \ {0} /\ 0 \in 0..(MaxTries - 1)
  BY <1>2, RecorderAssumption DEF FlushState
<1>4. flush[w].todo # <<>>
  BY <1>2 DEF FlushStep, WriteOK, WriteDataError, WriteOtherError, Bisect,
              Retry, DropSegment
<1>5. /\ Head(flush[w].todo) \in SUBSET Requests
      /\ Tail(flush[w].todo) \in Seq(SUBSET Requests)
  BY <1>3, <1>4
<1>6. PcType' /\ QueueType'
  <2>1. UNCHANGED <<pc, queue, batch>>
    BY DEF FlushStep, WriteOK, WriteDataError, WriteOtherError, Bisect,
           Retry, DropSegment
  <2> QED
    BY <1>1, <2>1 DEF PcType, QueueType, At
<1>7. OtherTypes'
  <2>1. CASE WriteOK(w)
    BY <1>1, <1>5, <2>1, RecordRequestsType DEF WriteOK, OtherTypes, lossVars
  <2>2. CASE WriteOtherError(w)
    <3>1. db' \in SUBSET Requests /\ usage' \in [Requests -> Nat]
      BY <1>1, <1>5, <2>2, RecordRequestsType
      DEF WriteOtherError, OtherTypes, storeVars
    <3>2. outages' \in 0..MaxTries
      BY <1>1, <1>3, <2>2 DEF WriteOtherError, OtherTypes
    <3> QED
      BY <1>1, <2>2, <3>1, <3>2 DEF WriteOtherError, OtherTypes, lossVars
  <2>3. CASE DropSegment(w)
    BY <1>1, <1>5, <2>3, LoseType DEF DropSegment, OtherTypes, storeVars
  <2>4. CASE WriteDataError(w) \/ Bisect(w) \/ Retry(w)
    BY <1>1, <2>4
    DEF WriteDataError, Bisect, Retry, OtherTypes, storeVars, lossVars
  <2> QED
    BY <2>1, <2>2, <2>3, <2>4 DEF FlushStep
<1>8. FlushType'
  <2>1. ASSUME PopSegment(w) PROVE FlushType'
    <3> DEFINE f == [flush[w] EXCEPT !.todo = Tail(@), !.tries = 0,
                                     !.result = "none"]
    <3>1. flush' = [flush EXCEPT ![w] = f]
      BY <1>1, <2>1 DEF PopSegment, FlushType
    <3>2. f \in FlushState /\ f.result = "none"
      BY <1>2, <1>3, <1>5 DEF FlushState
    <3> QED
      BY <1>1, <3>1, <3>2, FlushMoves
  <2>2. CASE WriteOK(w)
    BY <2>1, <2>2 DEF WriteOK
  <2>3. CASE WriteDataError(w) \/ WriteOtherError(w)
    <3>1. PICK e \in {"data", "other"} :
            flush' = [flush EXCEPT ![w].result = e]
      BY <2>3 DEF WriteDataError, WriteOtherError
    <3> DEFINE f == [flush[w] EXCEPT !.result = e]
    <3>2. flush' = [flush EXCEPT ![w] = f]
      BY <1>1, <3>1 DEF FlushType
    <3>3. f \in FlushState /\ f.todo # <<>>
      BY <1>2, <1>4 DEF FlushState
    <3> QED
      BY <1>1, <3>2, <3>3, FlushMoves
  <2>4. CASE Bisect(w)
    <3>1. PICK left \in SUBSET Head(flush[w].todo) :
            flush' = [flush EXCEPT
                        ![w].todo = <<left, Head(flush[w].todo) \ left>>
                                      \o Tail(@),
                        ![w].tries = 0,
                        ![w].result = "none"]
      BY <2>4 DEF Bisect
    <3> DEFINE t == <<left, Head(flush[w].todo) \ left>> \o Tail(flush[w].todo)
               f == [flush[w] EXCEPT !.todo = t, !.tries = 0,
                                     !.result = "none"]
    <3>2. flush' = [flush EXCEPT ![w] = f]
      BY <1>1, <3>1 DEF FlushType
    <3>3. t \in Seq(SUBSET Requests)
      <4>1. /\ left \in SUBSET Requests
            /\ Head(flush[w].todo) \ left \in SUBSET Requests
        BY <1>5
      <4>2. <<left, Head(flush[w].todo) \ left>> \in Seq(SUBSET Requests)
        BY <4>1
      <4> QED
        BY <1>5, <4>2
    <3> HIDE DEF t
    <3>4. f \in FlushState /\ f.result = "none"
      BY <1>2, <1>3, <3>3 DEF FlushState
    <3> QED
      BY <1>1, <3>2, <3>4, FlushMoves
  <2>5. CASE Retry(w)
    <3> DEFINE f == [flush[w] EXCEPT !.tries = NextTry(@), !.result = "none"]
    <3>1. flush' = [flush EXCEPT ![w] = f]
      BY <1>1, <2>5 DEF Retry, FlushType
    <3>2. NextTry(flush[w].tries) \in 0..(MaxTries - 1)
      BY <1>3, <2>5 DEF Retry, NextTry
    <3>3. f \in FlushState /\ f.result = "none"
      BY <1>2, <3>2 DEF FlushState
    <3> QED
      BY <1>1, <3>1, <3>3, FlushMoves
  <2>6. CASE DropSegment(w)
    <3> DEFINE f == [flush[w] EXCEPT !.todo = Tail(@), !.tries = 0,
                                     !.result = "none", !.failed = TRUE]
    <3>1. flush' = [flush EXCEPT ![w] = f]
      BY <1>1, <2>6 DEF DropSegment, FlushType
    <3>2. f \in FlushState /\ f.result = "none"
      BY <1>2, <1>3, <1>5 DEF FlushState
    <3> QED
      BY <1>1, <3>1, <3>2, FlushMoves
  <2> QED
    BY <2>2, <2>3, <2>4, <2>5, <2>6 DEF FlushStep
<1> QED
  BY <1>6, <1>7, <1>8, TypeParts

LEMMA HandlerStepType ==
  ASSUME TypeInv, NEW r \in Requests, SubmitLock(r) \/ HandlerStep(r)
  PROVE  TypeInv'
<1>1. PcType /\ FlushType /\ QueueType /\ OtherTypes /\ TypeOK
  BY TypeParts DEF TypeInv
<1>2. r \in Workers
  BY DEF Workers
<1>3. ASSUME RejectFallback(r) PROVE TypeInv'
  <2>1. PcType'
    BY <1>1, <1>3, HandlerMoves DEF RejectFallback, PcStates
  <2>2. OtherTypes'
    BY <1>1, <1>3, LoseType
    DEF RejectFallback, RememberError, OtherTypes, storeVars
  <2> QED
    BY <1>1, <1>3, <2>1, <2>2, TypeParts
    DEF RejectFallback, FlushType, QueueType
<1>4. CASE SubmitLock(r)
  <2>1. PcType'
    BY <1>1, <1>4, HandlerMoves DEF SubmitLock, PcStates
  <2> QED
    BY <1>1, <1>4, <2>1, TypeParts
    DEF SubmitLock, FlushType, QueueType, OtherTypes, storeVars, lossVars
<1>5. CASE SubmitSend(r)
  <2>1. PcType'
    BY <1>1, <1>5, HandlerMoves DEF SubmitSend, PcStates
  <2>2. QueueType'
    <3>1. CASE Cardinality(queue) < QueueCap
      <4>1. IsFiniteSet(queue) /\ queue' \in SUBSET (queue \cup {r})
        BY <1>1, <1>5, <3>1, RecordsFinite DEF SubmitSend, QueueType
      <4>2. Cardinality(queue') <= QueueCap
        BY <3>1, <4>1, BoundReached, RecorderAssumption
      <4> QED
        BY <1>1, <1>5, <4>1, <4>2 DEF SubmitSend, QueueType
    <3> QED
      BY <1>1, <1>5, <3>1 DEF SubmitSend, QueueType
  <2> QED
    BY <1>1, <1>5, <2>1, <2>2, TypeParts
    DEF SubmitSend, FlushType, OtherTypes, storeVars, lossVars
<1>6. CASE FallbackEnter(r)
  <2>1. PcType'
    BY <1>1, <1>6, HandlerMoves DEF FallbackEnter, PcStates
  <2> QED
    BY <1>1, <1>6, <2>1, TypeParts
    DEF FallbackEnter, FlushType, QueueType, OtherTypes, storeVars, lossVars
<1>7. CASE FallbackFull(r) \/ FallbackGiveUp(r)
  BY <1>3, <1>7 DEF FallbackFull, FallbackGiveUp
<1>8. CASE FallbackAcquire(r)
  <2>1. PcType'
    BY <1>1, <1>8, HandlerMoves DEF FallbackAcquire, SlotFree, PcStates
  <2>2. /\ Flushing({r}) \in FlushState
        /\ Flushing({r}).result = "none"
    BY FlushingType
  <2>3. FlushType'
    BY <1>1, <1>2, <1>8, <2>2, FlushMoves DEF FallbackAcquire
  <2> QED
    BY <1>1, <1>8, <2>1, <2>3, TypeParts
    DEF FallbackAcquire, QueueType, OtherTypes, storeVars, lossVars
<1>9. CASE FallbackReturn(r)
  <2>1. PcType'
    BY <1>1, <1>9, HandlerMoves DEF FallbackReturn, PcStates
  <2>2. FlushType'
    BY <1>1, <1>2, <1>9, IdleType, FlushMoves DEF FallbackReturn
  <2>3. flush[r].failed \in BOOLEAN
    BY <1>1, <1>2 DEF FlushType, FlushState
  <2> QED
    BY <1>1, <1>9, <2>1, <2>2, <2>3, TypeParts
    DEF FallbackReturn, RememberError, QueueType, OtherTypes, storeVars,
        lossVars
<1> QED
  BY <1>4, <1>5, <1>6, <1>7, <1>8, <1>9 DEF HandlerStep

(* A batch handed to flush leaves the runner an empty one.                 *)
LEMMA StartFlushType ==
  ASSUME FlushType, NEW S \in SUBSET Requests, NEW next \in RunnerStates,
         StartFlush(S, next)
  PROVE  /\ FlushType' /\ runner' \in RunnerStates
         /\ batch' \in SUBSET Requests /\ Cardinality(batch') < BatchSize
<1>1. Runner \in Workers
  BY DEF Workers
<1>2. FlushType'
  BY <1>1, FlushingType, FlushMoves DEF StartFlush
<1>3. Cardinality({}) = 0
  BY FS_EmptySet
<1> QED
  BY <1>2, <1>3, RecorderAssumption DEF StartFlush

LEMMA RunStepType ==
  ASSUME TypeInv, RunStep
  PROVE  TypeInv'
<1>1. PcType /\ FlushType /\ QueueType /\ OtherTypes
  BY TypeParts
<1>2. Runner \in Workers
  BY DEF Workers
<1>3. PcType'
  BY <1>1 DEF PcType, At, RunStep, RunTop, RunReceive, RunTick,
              RunQueueClosed, DropRemaining, RunFlushed
<1>4. QueueCap \in Nat /\ BatchSize \in Nat \ {0}
  BY RecorderAssumption
<1>5. CASE RunTop
  BY <1>1, <1>3, <1>5, TypeParts
  DEF RunTop, RunnerStates, FlushType, QueueType, OtherTypes, storeVars,
      lossVars
<1>6. CASE RunReceive
  <2>1. PICK r \in queue :
          /\ queue' = queue \ {r}
          /\ IF Cardinality(batch \cup {r}) >= BatchSize
             THEN StartFlush(batch \cup {r}, "flushing")
             ELSE /\ batch' = batch \cup {r}
                  /\ runner' = "top"
                  /\ UNCHANGED flush
    BY <1>6 DEF RunReceive
  <2>2. batch \cup {r} \in SUBSET Requests /\ queue' \in SUBSET queue
    BY <1>1, <2>1 DEF QueueType
  <2>3. Cardinality(queue') <= QueueCap
    BY <1>1, <1>4, <2>2, RecordsFinite, BoundKept DEF QueueType
  <2>4. Cardinality(batch \cup {r}) \in Nat
    BY <2>2, RecordsFinite
  <2>5. /\ FlushType' /\ runner' \in RunnerStates
        /\ batch' \in SUBSET Requests /\ Cardinality(batch') < BatchSize
    <3>1. CASE Cardinality(batch \cup {r}) >= BatchSize
      BY <1>1, <2>1, <2>2, <3>1, StartFlushType DEF RunnerStates
    <3>2. CASE ~(Cardinality(batch \cup {r}) >= BatchSize)
      <4>1. /\ batch' = batch \cup {r} /\ runner' = "top"
            /\ UNCHANGED flush
        BY <2>1, <3>2
      <4>2. Cardinality(batch \cup {r}) < BatchSize
        BY <1>4, <2>4, <3>2
      <4> QED
        BY <1>1, <2>2, <4>1, <4>2 DEF RunnerStates, FlushType
    <3> QED
      BY <3>1, <3>2
  <2> QED
    BY <1>1, <1>3, <1>6, <2>2, <2>3, <2>5, TypeParts
    DEF RunReceive, QueueType, OtherTypes, storeVars, lossVars
<1>7. CASE RunTick \/ RunQueueClosed
  <2>1. /\ FlushType' /\ runner' \in RunnerStates
        /\ batch' \in SUBSET Requests /\ Cardinality(batch') < BatchSize
    <3>1. CASE batch # {}
      <4>1. PICK next \in {"flushing", "final"} : StartFlush(batch, next)
        BY <1>7, <3>1 DEF RunTick, RunQueueClosed
      <4> QED
        BY <1>1, <4>1, StartFlushType DEF RunnerStates, QueueType
    <3>2. CASE batch = {}
      BY <1>1, <1>7, <3>2
      DEF RunTick, RunQueueClosed, RunnerStates, FlushType, QueueType
    <3> QED
      BY <3>1, <3>2
  <2> QED
    BY <1>1, <1>3, <1>7, <2>1, TypeParts
    DEF RunTick, RunQueueClosed, QueueType, OtherTypes, storeVars, lossVars
<1>8. CASE DropRemaining
  <2>1. Remaining \in SUBSET Requests
    BY <1>1 DEF Remaining, QueueType
  <2>2. dropped' \in Nat /\ lost' \in SUBSET Requests
    BY <1>1, <1>8, <2>1, LoseType DEF DropRemaining
  <2>3. Cardinality({}) = 0
    BY FS_EmptySet
  <2> QED
    BY <1>1, <1>3, <1>4, <1>8, <2>2, <2>3, TypeParts
    DEF DropRemaining, RememberError, RunnerStates, FlushType, QueueType,
        OtherTypes, storeVars
<1>9. CASE RunFlushed
  <2>1. FlushType'
    BY <1>1, <1>2, <1>9, IdleType, FlushMoves DEF RunFlushed
  <2>2. flush[Runner].failed \in BOOLEAN
    BY <1>1, <1>2 DEF FlushType, FlushState
  <2> QED
    BY <1>1, <1>3, <1>9, <2>1, <2>2, TypeParts
    DEF RunFlushed, RememberError, RunnerStates, QueueType, OtherTypes,
        storeVars, lossVars
<1> QED
  BY <1>5, <1>6, <1>7, <1>8, <1>9 DEF RunStep

LEMMA CloserStepType ==
  ASSUME TypeInv, NEW c \in Closers, CloseStart(c) \/ CloserStep(c)
  PROVE  TypeInv'
<1>1. PcType /\ FlushType /\ QueueType /\ OtherTypes
  BY TypeParts
<1>2. UNCHANGED <<pc, queue, batch, flush>>
  BY DEF CloseStart, CloserStep, CloseDone, CloseExpired, CloseJoin
<1>3. PcType' /\ FlushType' /\ QueueType'
  BY <1>1, <1>2 DEF PcType, At, FlushType, QueueType
<1>4. OtherTypes'
  BY <1>1 DEF CloseStart, CloserStep, CloseDone, CloseExpired, CloseJoin,
              CloseQueue, OtherTypes, CloserStates, storeVars, lossVars
<1> QED
  BY <1>3, <1>4, TypeParts

LEMMA NextTypeInv == TypeInv /\ [Next]_vars => TypeInv'
<1> SUFFICES ASSUME TypeInv, [Next]_vars PROVE TypeInv'
  OBVIOUS
<1>1. CASE UNCHANGED vars
  BY <1>1 DEF vars, storeVars, lossVars, TypeInv, TypeOK, At
<1>2. CASE Next
  BY <1>2, HandlerStepType, FlushStepType, RunStepType, CloserStepType
  DEF Next
<1> QED
  BY <1>1, <1>2

(* The queue, the batch, the waiters and the fallback writers stay within  *)
(* their limits, and every variable of the recorder keeps its type.        *)
THEOREM TypeCorrect == Spec => []TypeOK
<1>1. TypeInv => TypeOK
  BY DEF TypeInv
<1> QED
  BY <1>1, InitTypeInv, NextTypeInv, PTL DEF Spec

-----------------------------------------------------------------------------
(***************************************************************************)
(* No record is mislaid and every loss is counted once, whatever the       *)
(* number of records, the size of the queue and the batches, and the       *)
(* interleaving of the handlers, the runner and the callers of Close.      *)
(*                                                                         *)
(* The argument.  A record that Submit accepted stands in exactly one      *)
(* place: the queue, the batch, one segment of the runner's flush, or      *)
(* among those the runner is done with; a record of the fallback stands in *)
(* its own handler's flush or is done.  OnePlace says so.  A step of a     *)
(* flush takes a set of records out of one flush, and either these are in  *)
(* the table afterwards or dropped counts them (FlushMovesRecords).        *)
(***************************************************************************)

OnePlace ==
  /\ queue \cap batch = {}
  /\ (queue \cup batch) \cap Pending(Runner) = {}
  /\ queue \cup batch \cup Pending(Runner) \subseteq At("queued")
  /\ \A r \in Requests : Pending(r) \subseteq {r} \cap At("flushing")
  /\ \A w \in Workers : Disjoint(flush[w].todo)

LostIsGone ==
  /\ lost \subseteq At("queued") \cup At("flushing") \cup At("fellback")
  /\ lost \cap (queue \cup batch) = {}
  /\ \A w \in Workers : lost \cap Pending(w) = {}
  /\ dropped = Cardinality(lost)

(* Outside a flush the runner's flush is idle, so that starting one buries *)
(* no record.                                                              *)
RunnerIdle ==
  runner \in {"top", "select", "done"} => flush[Runner] = Idle

(* What Close relies on: the runner ends only when the closed queue is     *)
(* empty, and an error is remembered for every record it dropped.          *)
ClosedInv ==
  /\ NeverSendOnClosedQueue
  /\ runner \in {"final", "done"} => closed /\ queue = {} /\ batch = {}
  /\ lost \cap At("queued") # {} => flushErr \/ flush[Runner].failed
  /\ (\E c \in Closers : closer[c] = "nil") => closed

IInv ==
  /\ TypeInv
  /\ OnePlace
  /\ LostIsGone
  /\ RunnerIdle
  /\ ClosedInv
  /\ EveryRecordAccounted
  /\ CloseNilMeansPersisted

-----------------------------------------------------------------------------
(* Facts about the parts.                                                  *)

LEMMA InitIInv == Init => IInv
<1> SUFFICES ASSUME Init PROVE IInv
  OBVIOUS
<1>1. TypeInv
  BY InitTypeInv
<1>2. \A w \in Workers : flush[w] = Idle
  BY DEF Init
<1>3. \A w \in Workers : Pending(w) = {} /\ Disjoint(flush[w].todo)
  BY <1>2, IdleType, EmptyStack DEF Pending, Records
<1>4. Runner \in Workers /\ \A r \in Requests : r \in Workers
  BY DEF Workers
<1>5. \A r \in Requests : pc[r] = "serving"
  BY DEF Init
<1>6. At("sending") = {} /\ At("queued") = {}
  BY <1>5 DEF At
<1>7. OnePlace
  BY <1>3, <1>4 DEF Init, OnePlace
<1>8. LostIsGone
  <2>1. Cardinality({}) = 0
    BY FS_EmptySet
  <2> QED
    BY <2>1 DEF Init, LostIsGone
<1>9. RunnerIdle
  BY <1>2, <1>4 DEF RunnerIdle
<1>10. ClosedInv
  BY <1>6 DEF Init, ClosedInv, NeverSendOnClosedQueue
<1>11. EveryRecordAccounted /\ CloseNilMeansPersisted
  BY <1>5, <1>6 DEF Init, EveryRecordAccounted, CloseNilMeansPersisted
<1> QED
  BY <1>1, <1>7, <1>8, <1>9, <1>10, <1>11 DEF IInv

(* Records that are not yet among the lost add their number to dropped.    *)
LEMMA LossesAdd ==
  ASSUME NEW S \in SUBSET Requests, NEW T \in SUBSET Requests,
         S \cap T = {}
  PROVE  Cardinality(S \cup T) = Cardinality(S) + Cardinality(T)
<1>1. /\ IsFiniteSet(S) /\ IsFiniteSet(T)
      /\ Cardinality(S) \in Nat /\ Cardinality(T) \in Nat
  BY RecordsFinite
<1>2. Cardinality(S \cup T)
        = Cardinality(S) + Cardinality(T) - Cardinality(S \cap T)
  BY <1>1, FS_Union
<1>3. S \cap T = {} /\ Cardinality({}) = 0
  BY FS_EmptySet
<1>4. Cardinality(S \cap T) = 0
  BY <1>3
<1> QED
  BY <1>1, <1>2, <1>4

LEMMA OneLoss ==
  ASSUME NEW r \in Requests
  PROVE  {r} \in SUBSET Requests /\ Cardinality({r}) = 1
  BY FS_Singleton

(* What a step of a flush amounts to: the records it takes out of the      *)
(* flush of w, which are in the table afterwards or counted as dropped.    *)
Moves(w, S) ==
  /\ Pending(w)' = Pending(w) \ S
  /\ Disjoint(flush[w].todo)'
  /\ \A v \in Workers \ {w} : flush'[v] = flush[v]
  /\ flush[w].failed => flush'[w].failed
  /\ db \subseteq db'
  /\ \/ S \subseteq db' /\ UNCHANGED <<dropped, lost>>
     \/ Lose(S) /\ flush'[w].failed
  /\ UNCHANGED <<pc, queue, closed, runner, batch, closer, flushErr>>

LEMMA FlushMovesRecords ==
  ASSUME TypeInv, NEW w \in Workers, Disjoint(flush[w].todo), FlushStep(w)
  PROVE  \E S \in SUBSET Pending(w) : Moves(w, S)
<1> DEFINE s == flush[w].todo
<1>1. /\ FlushType /\ flush[w] \in FlushState
      /\ flush[w].result # "none" => s # <<>>
      /\ flush \in [Workers -> FlushState]
  BY TypeParts DEF FlushType
<1>2. s \in Seq(SUBSET Requests) /\ Pending(w) = Records(s)
  BY <1>1 DEF FlushState, Pending, Records
<1>3. s # <<>>
  BY <1>1 DEF FlushStep, WriteOK, WriteDataError, WriteOtherError, Bisect,
              Retry, DropSegment
<1>4. /\ Head(s) \in SUBSET Requests /\ Head(s) \in SUBSET Records(s)
      /\ Records(Tail(s)) = Records(s) \ Head(s) /\ Disjoint(Tail(s))
  BY <1>2, <1>3, PopStack
<1>5. UNCHANGED <<pc, queue, closed, runner, batch, closer, flushErr>>
  BY DEF FlushStep, WriteOK, WriteDataError, WriteOtherError, Bisect,
         Retry, DropSegment
<1>6. \A v \in Workers \ {w} : flush'[v] = flush[v]
  BY <1>1 DEF FlushStep, WriteOK, PopSegment, WriteDataError,
              WriteOtherError, Bisect, Retry, DropSegment
<1>7. flush[w].failed => flush'[w].failed
  <2>1. CASE WriteOK(w)
    BY <1>1, <2>1 DEF WriteOK, PopSegment, FlushState
  <2>2. CASE Bisect(w)
    <3>1. PICK left \in SUBSET Head(s) :
            flush' = [flush EXCEPT
                        ![w].todo = <<left, Head(s) \ left>> \o Tail(@),
                        ![w].tries = 0,
                        ![w].result = "none"]
      BY <2>2 DEF Bisect
    <3> QED
      BY <1>1, <3>1 DEF FlushState
  <2>3. CASE WriteDataError(w) \/ WriteOtherError(w) \/ Retry(w)
    BY <1>1, <2>3 DEF WriteDataError, WriteOtherError, Retry, FlushState
  <2>4. CASE DropSegment(w)
    BY <1>1, <2>4 DEF DropSegment, FlushState
  <2> QED
    BY <2>1, <2>2, <2>3, <2>4 DEF FlushStep
<1>8. db \subseteq db'
  BY DEF FlushStep, WriteOK, WriteDataError, WriteOtherError, Bisect,
         Retry, DropSegment, RecordRequests, storeVars
<1>9. Pending(w)' = Records(flush'[w].todo)
  BY DEF Pending, Records
<1>10. CASE WriteOK(w)
  <2>1. flush'[w].todo = Tail(s)
    BY <1>1, <1>10 DEF WriteOK, PopSegment, FlushState
  <2>2. Head(s) \subseteq db' /\ UNCHANGED <<dropped, lost>>
    BY <1>10 DEF WriteOK, RecordRequests, lossVars
  <2>3. Moves(w, Head(s))
    BY <1>2, <1>4, <1>5, <1>6, <1>7, <1>8, <1>9, <2>1, <2>2 DEF Moves
  <2> QED
    BY <1>2, <1>4, <2>3
<1>11. CASE DropSegment(w)
  <2>1. flush'[w].todo = Tail(s) /\ flush'[w].failed
    BY <1>1, <1>11 DEF DropSegment, FlushState
  <2>2. Lose(Head(s))
    BY <1>11 DEF DropSegment
  <2>3. Moves(w, Head(s))
    BY <1>2, <1>4, <1>5, <1>6, <1>7, <1>8, <1>9, <2>1, <2>2 DEF Moves
  <2> QED
    BY <1>2, <1>4, <2>3
<1>12. CASE WriteDataError(w) \/ WriteOtherError(w) \/ Bisect(w) \/ Retry(w)
  <2>1. Records(flush'[w].todo) = Records(s) /\ Disjoint(flush'[w].todo)
    <3>1. CASE Bisect(w)
      <4>1. PICK left \in SUBSET Head(s) :
              flush' = [flush EXCEPT
                          ![w].todo = <<left, Head(s) \ left>> \o Tail(@),
                          ![w].tries = 0,
                          ![w].result = "none"]
        BY <3>1 DEF Bisect
      <4>2. flush'[w].todo = <<left, Head(s) \ left>> \o Tail(s)
        BY <1>1, <4>1 DEF FlushState
      <4> QED
        BY <1>2, <1>3, <4>2, SplitStack
    <3>2. CASE WriteDataError(w) \/ WriteOtherError(w) \/ Retry(w)
      <4>1. flush'[w].todo = s
        BY <1>1, <3>2 DEF WriteDataError, WriteOtherError, Retry, FlushState
      <4> QED
        BY <4>1
    <3> QED
      BY <1>12, <3>1, <3>2
  <2>2. UNCHANGED <<dropped, lost>>
    BY <1>12 DEF WriteDataError, WriteOtherError, Bisect, Retry, lossVars
  <2>3. Moves(w, {})
    BY <1>2, <1>5, <1>6, <1>7, <1>8, <1>9, <2>1, <2>2 DEF Moves
  <2> QED
    BY <2>3
<1> QED
  BY <1>10, <1>11, <1>12 DEF FlushStep

-----------------------------------------------------------------------------
(* The invariant, kept by the steps of a flush, a handler, the runner and  *)
(* the callers of Close.                                                   *)

LEMMA WorkerFacts ==
  /\ Runner \in Workers /\ Runner \notin Requests
  /\ \A r \in Requests : r \in Workers /\ r # Runner
  /\ \A w \in Workers : w = Runner \/ w \in Requests
  BY RecorderAssumption DEF Workers

LEMMA LossCount ==
  ASSUME OtherTypes, dropped = Cardinality(lost),
         NEW S \in SUBSET Requests, S \cap lost = {}, Lose(S)
  PROVE  dropped' = Cardinality(lost')
<1>1. lost \in SUBSET Requests /\ lost \cap S = {}
  BY DEF OtherTypes
<1>2. Cardinality(lost \cup S) = Cardinality(lost) + Cardinality(S)
  BY <1>1, LossesAdd
<1> QED
  BY <1>2 DEF Lose

LEMMA FlushStepIInv ==
  ASSUME IInv, NEW w \in Workers, FlushStep(w)
  PROVE  IInv'
<1>1. TypeInv /\ OtherTypes /\ TypeInv'
  BY FlushStepType, TypeParts DEF IInv
<1>2. OnePlace /\ LostIsGone /\ RunnerIdle /\ ClosedInv
  BY DEF IInv
<1>3. PICK S \in SUBSET Pending(w) : Moves(w, S)
  BY <1>1, <1>2, FlushMovesRecords DEF OnePlace
<1>4. \A v \in Workers \ {w} : Pending(v)' = Pending(v)
  BY <1>3 DEF Moves, Pending
<1>5. Pending(w)' = Pending(w) \ S
  BY <1>3 DEF Moves
<1>6. \A state : At(state)' = At(state)
  BY <1>3 DEF Moves, At
<1>7. S \in SUBSET Requests /\ S \cap lost = {}
      /\ S \subseteq At("queued") \cup At("flushing")
  <2>1. S \subseteq At("queued") \cup At("flushing")
    BY <1>2, WorkerFacts DEF OnePlace
  <2> QED
    BY <1>2, <2>1 DEF LostIsGone, At
<1>8. OnePlace'
  <2>1. \A v \in Workers : Pending(v)' \subseteq Pending(v)
    BY <1>4, <1>5
  <2>2. \A v \in Workers : Disjoint(flush[v].todo)'
    BY <1>2, <1>3 DEF Moves, OnePlace, Disjoint
  <2>3. UNCHANGED <<queue, batch>>
    BY <1>3 DEF Moves
  <2> QED
    BY <1>2, <1>6, <2>1, <2>2, <2>3, WorkerFacts DEF OnePlace
<1>9. LostIsGone'
  <2>1. UNCHANGED <<queue, batch>>
    BY <1>3 DEF Moves
  <2>2. CASE UNCHANGED <<dropped, lost>>
    BY <1>2, <1>4, <1>5, <1>6, <2>1, <2>2 DEF LostIsGone
  <2>3. CASE Lose(S)
    <3>1. lost' = lost \cup S /\ dropped' = Cardinality(lost')
      BY <1>1, <1>2, <1>7, <2>3, LossCount DEF LostIsGone, Lose
    <3>2. S \cap (queue \cup batch) = {}
      <4>1. CASE w = Runner
        BY <1>2, <4>1 DEF OnePlace
      <4>2. CASE w \in Requests
        BY <1>2, <4>2 DEF OnePlace, At
      <4> QED
        BY <4>1, <4>2, WorkerFacts
    <3>3. ASSUME NEW v \in Workers \ {w} PROVE S \cap Pending(v) = {}
      <4>1. CASE w \in Requests /\ v \in Requests
        BY <1>2, <3>3, <4>1 DEF OnePlace
      <4>2. CASE w \in Requests /\ v = Runner
        BY <1>2, <4>2 DEF OnePlace, At
      <4>3. CASE w = Runner /\ v \in Requests
        BY <1>2, <4>3 DEF OnePlace, At
      <4> QED
        BY <3>3, <4>1, <4>2, <4>3, WorkerFacts
    <3> QED
      BY <1>2, <1>4, <1>5, <1>6, <1>7, <2>1, <3>1, <3>2, <3>3
      DEF LostIsGone
  <2> QED
    BY <1>3, <2>2, <2>3 DEF Moves
<1>10. RunnerIdle'
  <2>1. CASE w = Runner
    <3>1. flush[w].todo # <<>>
      BY <1>1 DEF FlushStep, WriteOK, WriteDataError, WriteOtherError,
                  Bisect, Retry, DropSegment, TypeInv
    <3>2. runner \notin {"top", "select", "done"}
      BY <1>2, <2>1, <3>1, IdleType DEF RunnerIdle
    <3> QED
      BY <1>3, <3>2 DEF Moves, RunnerIdle
  <2>2. CASE w # Runner
    BY <1>2, <1>3, <2>2, WorkerFacts DEF Moves, RunnerIdle
  <2> QED
    BY <2>1, <2>2
<1>11. ClosedInv'
  <2>1. NeverSendOnClosedQueue'
    BY <1>2, <1>3, <1>6 DEF Moves, ClosedInv, NeverSendOnClosedQueue
  <2>2. flush[Runner].failed => flush'[Runner].failed
    BY <1>3, WorkerFacts DEF Moves
  <2>3. (lost \cap At("queued") # {})' => flushErr' \/ flush'[Runner].failed
    <3>1. CASE UNCHANGED <<dropped, lost>>
      BY <1>2, <1>3, <1>6, <2>2, <3>1 DEF Moves, ClosedInv
    <3>2. CASE w = Runner /\ flush'[w].failed
      BY <3>2
    <3>3. CASE w \in Requests /\ Lose(S)
      <4>1. S \cap At("queued") = {} /\ lost' = lost \cup S
        BY <1>2, <3>3 DEF OnePlace, At, Lose
      <4> QED
        BY <1>2, <1>3, <1>6, <2>2, <4>1 DEF Moves, ClosedInv
    <3> QED
      BY <1>3, <3>1, <3>2, <3>3, WorkerFacts DEF Moves
  <2> QED
    BY <1>2, <1>3, <2>1, <2>3 DEF Moves, ClosedInv
<1>12. \A v \in Workers : Pending(v) \cup db \cup lost
                            \subseteq Pending(v)' \cup db' \cup lost'
  BY <1>3, <1>4, <1>5 DEF Moves, Lose
<1>13. EveryRecordAccounted' /\ CloseNilMeansPersisted'
  <2>1. EveryRecordAccounted'
    <3>1. UNCHANGED <<pc, queue, batch>>
      BY <1>3 DEF Moves
    <3>2. EveryRecordAccounted
      BY DEF IInv
    <3>3. \A r \in Requests :
            /\ Pending(Runner) \cup db \cup lost
                 \subseteq Pending(Runner)' \cup db' \cup lost'
            /\ Pending(r) \cup db \cup lost
                 \subseteq Pending(r)' \cup db' \cup lost'
            /\ db \cup lost \subseteq db' \cup lost'
      BY <1>3, <1>12, WorkerFacts DEF Moves, Lose
    <3> QED
      BY <3>1, <3>2, <3>3 DEF EveryRecordAccounted
  <2>2. CloseNilMeansPersisted'
    BY <1>3, <1>6 DEF Moves, IInv, CloseNilMeansPersisted
  <2> QED
    BY <2>1, <2>2
<1> QED
  BY <1>1, <1>8, <1>9, <1>10, <1>11, <1>13 DEF IInv

LEMMA AtMoves ==
  ASSUME TypeInv, NEW r \in Requests, NEW next \in PcStates,
         pc' = [pc EXCEPT ![r] = next]
  PROVE  /\ At(next)' = At(next) \cup {r}
         /\ \A state : state # next => At(state)' \subseteq At(state)
         /\ \A state : state # next /\ state # pc[r]
                         => At(state)' = At(state)
         /\ pc'[r] = next
         /\ \A q \in Requests \ {r} : pc'[q] = pc[q]
  BY DEF TypeInv, TypeOK, At

(* A record that is not yet accepted stands nowhere.                       *)
LEMMA Nowhere ==
  ASSUME IInv, NEW r \in Requests,
         pc[r] \in {"serving", "sending", "overflow", "waiting"}
  PROVE  /\ r \notin queue \cup batch \cup lost \cup Pending(Runner)
         /\ Pending(r) = {}
         /\ \A w \in Workers : r \notin Pending(w)
<1>1. r \notin At("queued") \cup At("flushing") \cup At("fellback")
  BY DEF At
<1>2. /\ r \notin queue \cup batch \cup Pending(Runner)
      /\ Pending(r) = {}
  BY <1>1 DEF IInv, OnePlace
<1>3. r \notin lost
  BY <1>1 DEF IInv, LostIsGone
<1>4. \A q \in Requests : r \notin Pending(q)
  BY <1>2 DEF IInv, OnePlace
<1> QED
  BY <1>2, <1>3, <1>4, WorkerFacts

(* The handler moves on before the record is anywhere.                     *)
LEMMA HandlerMovesOn ==
  ASSUME IInv, TypeInv', NEW r \in Requests,
         NEW next \in {"sending", "overflow", "waiting"},
         pc[r] \in {"serving", "sending", "overflow", "waiting"},
         next = "sending" => ~closed,
         pc' = [pc EXCEPT ![r] = next],
         UNCHANGED <<queue, closed, runner, batch, flush, closer, flushErr,
                     db, dropped, lost>>
  PROVE  IInv'
<1>1. next \in PcStates /\ TypeInv
  BY DEF PcStates, IInv
<1>2. /\ \A state \in {"queued", "flushing", "fellback"} :
           At(state)' = At(state)
      /\ ~closed \/ At("sending")' \subseteq At("sending")
      /\ pc'[r] = next /\ \A q \in Requests \ {r} : pc'[q] = pc[q]
  <2>1. /\ \A state : state # next /\ state # pc[r]
                       => At(state)' = At(state)
        /\ next # "sending" => At("sending")' \subseteq At("sending")
        /\ pc'[r] = next /\ \A q \in Requests \ {r} : pc'[q] = pc[q]
    BY <1>1, AtMoves
  <2> QED
    BY <2>1
<1>3. \A w : Pending(w)' = Pending(w)
  BY DEF Pending
<1>4. OnePlace'
  BY <1>2, <1>3 DEF IInv, OnePlace, Disjoint
<1>5. LostIsGone'
  BY <1>2, <1>3 DEF IInv, LostIsGone
<1>6. RunnerIdle' /\ ClosedInv'
  BY <1>2 DEF IInv, RunnerIdle, ClosedInv, NeverSendOnClosedQueue
<1>7. EveryRecordAccounted'
  BY <1>2, <1>3 DEF IInv, EveryRecordAccounted
<1>8. CloseNilMeansPersisted'
  BY <1>2 DEF IInv, CloseNilMeansPersisted
<1> QED
  BY <1>4, <1>5, <1>6, <1>7, <1>8 DEF IInv

LEMMA AcceptIInv ==
  ASSUME IInv, TypeInv', NEW r \in Requests, SubmitSend(r),
         Cardinality(queue) < QueueCap
  PROVE  IInv'
<1>1. /\ pc[r] = "sending" /\ queue' = queue \cup {r}
      /\ pc' = [pc EXCEPT ![r] = "queued"]
      /\ UNCHANGED <<closed, runner, batch, flush, closer, flushErr,
                     db, dropped, lost>>
  BY DEF SubmitSend, storeVars, lossVars
<1>2. /\ r \notin queue \cup batch \cup lost \cup Pending(Runner)
      /\ \A w \in Workers : r \notin Pending(w)
  BY <1>1, Nowhere
<1>3. /\ At("queued")' = At("queued") \cup {r}
      /\ At("flushing")' = At("flushing") /\ At("fellback")' = At("fellback")
      /\ At("sending")' \subseteq At("sending")
      /\ pc'[r] = "queued" /\ \A q \in Requests \ {r} : pc'[q] = pc[q]
  <2>1. "queued" \in PcStates /\ TypeInv
    BY DEF PcStates, IInv
  <2> QED
    BY <1>1, <2>1, AtMoves
<1>4. \A w : Pending(w)' = Pending(w)
  BY <1>1 DEF Pending
<1>5. ~closed
  BY <1>1 DEF IInv, ClosedInv, NeverSendOnClosedQueue, At
<1>6. OnePlace'
  BY <1>1, <1>2, <1>3, <1>4 DEF IInv, OnePlace, Disjoint
<1>7. LostIsGone'
  BY <1>1, <1>2, <1>3, <1>4 DEF IInv, LostIsGone
<1>8. RunnerIdle'
  BY <1>1 DEF IInv, RunnerIdle
<1>9. ClosedInv'
  <2>1. lost \cap At("queued")' = lost \cap At("queued")
    BY <1>2, <1>3
  <2> QED
    BY <1>1, <1>5, <2>1 DEF IInv, ClosedInv, NeverSendOnClosedQueue
<1>10. EveryRecordAccounted'
  BY <1>1, <1>3, <1>4 DEF IInv, EveryRecordAccounted
<1>11. CloseNilMeansPersisted'
  BY <1>1, <1>5 DEF IInv, ClosedInv, CloseNilMeansPersisted
<1> QED
  BY <1>6, <1>7, <1>8, <1>9, <1>10, <1>11 DEF IInv

LEMMA RejectIInv ==
  ASSUME IInv, TypeInv', NEW r \in Requests,
         pc[r] \in {"overflow", "waiting"}, RejectFallback(r)
  PROVE  IInv'
<1>1. /\ pc' = [pc EXCEPT ![r] = "fellback"] /\ Lose({r})
      /\ flushErr' = TRUE
      /\ UNCHANGED <<queue, closed, runner, batch, flush, closer, db>>
  BY DEF RejectFallback, RememberError, storeVars
<1>2. /\ r \notin queue \cup batch \cup lost
      /\ \A w \in Workers : r \notin Pending(w)
  BY Nowhere
<1>3. /\ At("fellback")' = At("fellback") \cup {r}
      /\ At("flushing")' = At("flushing") /\ At("queued")' = At("queued")
      /\ At("sending")' = At("sending")
      /\ pc'[r] = "fellback" /\ \A q \in Requests \ {r} : pc'[q] = pc[q]
  <2>1. "fellback" \in PcStates /\ TypeInv
    BY DEF PcStates, IInv
  <2> QED
    BY <1>1, <2>1, AtMoves
<1>4. \A w : Pending(w)' = Pending(w)
  BY <1>1 DEF Pending
<1>5. lost' = lost \cup {r} /\ dropped' = Cardinality(lost')
  BY <1>1, <1>2, OneLoss, LossCount, TypeParts DEF IInv, LostIsGone, Lose
<1>6. OnePlace'
  BY <1>1, <1>3, <1>4 DEF IInv, OnePlace, Disjoint
<1>7. LostIsGone'
  BY <1>1, <1>2, <1>3, <1>4, <1>5 DEF IInv, LostIsGone
<1>8. RunnerIdle' /\ ClosedInv'
  BY <1>1, <1>3 DEF IInv, RunnerIdle, ClosedInv, NeverSendOnClosedQueue
<1>9. EveryRecordAccounted'
  BY <1>1, <1>3, <1>4, <1>5 DEF IInv, EveryRecordAccounted
<1>10. CloseNilMeansPersisted'
  BY <1>1, <1>3 DEF IInv, CloseNilMeansPersisted
<1> QED
  BY <1>6, <1>7, <1>8, <1>9, <1>10 DEF IInv

LEMMA AcquireIInv ==
  ASSUME IInv, TypeInv', NEW r \in Requests, FallbackAcquire(r)
  PROVE  IInv'
<1>1. /\ pc[r] = "waiting" /\ pc' = [pc EXCEPT ![r] = "flushing"]
      /\ flush' = [flush EXCEPT ![r] = Flushing({r})]
      /\ UNCHANGED <<queue, closed, runner, batch, closer, flushErr,
                     db, dropped, lost>>
  BY DEF FallbackAcquire, storeVars, lossVars
<1>2. r \notin queue \cup batch \cup lost \cup Pending(Runner)
  BY <1>1, Nowhere
<1>3. /\ At("flushing")' = At("flushing") \cup {r}
      /\ At("queued")' = At("queued") /\ At("fellback")' = At("fellback")
      /\ At("sending")' = At("sending")
      /\ pc'[r] = "flushing" /\ \A q \in Requests \ {r} : pc'[q] = pc[q]
  <2>1. "flushing" \in PcStates /\ TypeInv
    BY DEF PcStates, IInv
  <2> QED
    BY <1>1, <2>1, AtMoves
<1>4. /\ \A v \in Workers \ {r} : flush'[v] = flush[v]
      /\ flush'[r].todo = <<{r}>>
  <2>1. flush \in [Workers -> FlushState]
    BY DEF IInv, TypeInv, TypeOK
  <2> QED
    BY <1>1, <2>1, WorkerFacts, FlushingType
<1>5. /\ \A v \in Workers \ {r} : Pending(v)' = Pending(v)
      /\ Pending(r)' = {r}
      /\ \A v \in Workers : Disjoint(flush[v].todo)'
  <2>1. Records(<<{r}>>) = {r} /\ Disjoint(<<{r}>>)
    BY OneSegment
  <2>2. \A v \in Workers : Disjoint(flush[v].todo)
    BY DEF IInv, OnePlace
  <2> QED
    BY <1>4, <2>1, <2>2 DEF Pending, Records, Disjoint
<1>6. OnePlace'
  <2>1. OnePlace
    BY DEF IInv
  <2>2. \A q \in Requests : Pending(q)' \subseteq {q} \cap At("flushing")'
    BY <1>3, <1>5, <2>1, WorkerFacts DEF OnePlace
  <2>3. Pending(Runner)' = Pending(Runner)
    BY <1>5, WorkerFacts
  <2> QED
    BY <1>1, <1>3, <1>5, <2>1, <2>2, <2>3 DEF OnePlace
<1>7. LostIsGone'
  BY <1>1, <1>2, <1>3, <1>5 DEF IInv, LostIsGone
<1>8. RunnerIdle' /\ ClosedInv'
  BY <1>1, <1>3, <1>4, WorkerFacts
  DEF IInv, RunnerIdle, ClosedInv, NeverSendOnClosedQueue
<1>9. EveryRecordAccounted'
  BY <1>1, <1>3, <1>5, WorkerFacts DEF IInv, EveryRecordAccounted
<1>10. CloseNilMeansPersisted'
  BY <1>1, <1>3 DEF IInv, CloseNilMeansPersisted
<1> QED
  BY <1>6, <1>7, <1>8, <1>9, <1>10 DEF IInv

LEMMA ReturnIInv ==
  ASSUME IInv, TypeInv', NEW r \in Requests, FallbackReturn(r)
  PROVE  IInv'
<1>1. /\ pc[r] = "flushing" /\ pc' = [pc EXCEPT ![r] = "fellback"]
      /\ flush[r].todo = <<>> /\ flush' = [flush EXCEPT ![r] = Idle]
      /\ flushErr => flushErr'
      /\ UNCHANGED <<queue, closed, runner, batch, closer, db, dropped, lost>>
  BY DEF FallbackReturn, RememberError, storeVars, lossVars
<1>2. /\ At("fellback")' = At("fellback") \cup {r}
      /\ At("flushing")' = At("flushing") \ {r}
      /\ At("queued")' = At("queued") /\ At("sending")' = At("sending")
      /\ pc'[r] = "fellback" /\ \A q \in Requests \ {r} : pc'[q] = pc[q]
  <2>1. "fellback" \in PcStates /\ TypeInv
    BY DEF PcStates, IInv
  <2>2. At("flushing")' = At("flushing") \ {r}
    BY <1>1, <2>1 DEF TypeInv, TypeOK, At
  <2> QED
    BY <1>1, <2>1, <2>2, AtMoves
<1>3. /\ \A v \in Workers \ {r} : flush'[v] = flush[v]
      /\ flush'[r].todo = <<>>
  <2>1. flush \in [Workers -> FlushState]
    BY DEF IInv, TypeInv, TypeOK
  <2> QED
    BY <1>1, <2>1, WorkerFacts, IdleType
<1>4. /\ \A v \in Workers : Pending(v)' = Pending(v)
      /\ Pending(r) = {}
      /\ \A v \in Workers : Disjoint(flush[v].todo)'
  <2>1. Pending(r) = {} /\ Pending(r)' = {} /\ Disjoint(flush'[r].todo)
    BY <1>1, <1>3, EmptyStack DEF Pending, Records
  <2>2. \A v \in Workers : Disjoint(flush[v].todo)
    BY DEF IInv, OnePlace
  <2> QED
    BY <1>3, <2>1, <2>2 DEF Pending, Disjoint
<1>5. OnePlace'
  <2>1. OnePlace
    BY DEF IInv
  <2>2. \A q \in Requests : Pending(q)' \subseteq {q} \cap At("flushing")'
    BY <1>2, <1>4, <2>1, WorkerFacts DEF OnePlace
  <2>3. Pending(Runner)' = Pending(Runner)
    BY <1>4, WorkerFacts
  <2> QED
    BY <1>1, <1>2, <1>4, <2>1, <2>2, <2>3 DEF OnePlace
<1>6. LostIsGone'
  BY <1>1, <1>2, <1>4 DEF IInv, LostIsGone
<1>7. RunnerIdle' /\ ClosedInv'
  BY <1>1, <1>2, <1>3, WorkerFacts
  DEF IInv, RunnerIdle, ClosedInv, NeverSendOnClosedQueue
<1>8. EveryRecordAccounted'
  BY <1>1, <1>2, <1>4, WorkerFacts DEF IInv, EveryRecordAccounted
<1>9. CloseNilMeansPersisted'
  BY <1>1, <1>2 DEF IInv, CloseNilMeansPersisted
<1> QED
  BY <1>5, <1>6, <1>7, <1>8, <1>9 DEF IInv

LEMMA HandlerStepIInv ==
  ASSUME IInv, NEW r \in Requests, SubmitLock(r) \/ HandlerStep(r)
  PROVE  IInv'
<1>1. TypeInv'
  BY HandlerStepType DEF IInv
<1>2. CASE SubmitLock(r)
  <2>1. PICK next \in {"sending", "overflow"} :
          /\ pc' = [pc EXCEPT ![r] = next]
          /\ next = "sending" => ~closed
    BY <1>2 DEF SubmitLock
  <2>2. /\ pc[r] = "serving"
        /\ UNCHANGED <<queue, closed, runner, batch, flush, closer, flushErr,
                       db, dropped, lost>>
    BY <1>2 DEF SubmitLock, storeVars, lossVars
  <2> QED
    BY <1>1, <2>1, <2>2, HandlerMovesOn
<1>3. CASE SubmitSend(r)
  <2>1. CASE Cardinality(queue) < QueueCap
    BY <1>1, <1>3, <2>1, AcceptIInv
  <2>2. CASE ~(Cardinality(queue) < QueueCap)
    <3>1. /\ pc[r] = "sending" /\ pc' = [pc EXCEPT ![r] = "overflow"]
          /\ UNCHANGED <<queue, closed, runner, batch, flush, closer,
                         flushErr, db, dropped, lost>>
      BY <1>3, <2>2 DEF SubmitSend, storeVars, lossVars
    <3> QED
      BY <1>1, <3>1, HandlerMovesOn
  <2> QED
    BY <2>1, <2>2
<1>4. CASE FallbackEnter(r)
  <2>1. /\ pc[r] = "overflow" /\ pc' = [pc EXCEPT ![r] = "waiting"]
        /\ UNCHANGED <<queue, closed, runner, batch, flush, closer, flushErr,
                       db, dropped, lost>>
    BY <1>4 DEF FallbackEnter, storeVars, lossVars
  <2> QED
    BY <1>1, <2>1, HandlerMovesOn
<1>5. CASE FallbackFull(r) \/ FallbackGiveUp(r)
  BY <1>1, <1>5, RejectIInv DEF FallbackFull, FallbackGiveUp
<1>6. CASE FallbackAcquire(r)
  BY <1>1, <1>6, AcquireIInv
<1>7. CASE FallbackReturn(r)
  BY <1>1, <1>7, ReturnIInv
<1> QED
  BY <1>2, <1>3, <1>4, <1>5, <1>6, <1>7 DEF HandlerStep

(* Outside a flush nothing pends in the runner's.                          *)
LEMMA RunnerHoldsNothing ==
  ASSUME IInv, runner \in {"top", "select", "done"}
  PROVE  flush[Runner] = Idle /\ Pending(Runner) = {}
<1>1. flush[Runner] = Idle
  BY DEF IInv, RunnerIdle
<1> QED
  BY <1>1, IdleType, EmptyStack DEF Pending, Records

(* The runner receives a record, or finds nothing to write.                *)
LEMMA GatherIInv ==
  ASSUME IInv, TypeInv',
         runner \in {"top", "select"}, runner' \in {"top", "select", "done"},
         queue' \cap batch' = {}, queue' \cup batch' = queue \cup batch,
         runner' = "done" => closed /\ queue' = {} /\ batch' = {},
         UNCHANGED <<pc, closed, flush, closer, flushErr, db, dropped, lost>>
  PROVE  IInv'
<1>1. \A state : At(state)' = At(state)
  BY DEF At
<1>2. \A w : Pending(w)' = Pending(w)
  BY DEF Pending
<1>3. OnePlace'
  BY <1>1, <1>2 DEF IInv, OnePlace, Disjoint
<1>4. LostIsGone'
  BY <1>1, <1>2 DEF IInv, LostIsGone
<1>5. RunnerIdle'
  BY DEF IInv, RunnerIdle
<1>6. ClosedInv'
  BY <1>1 DEF IInv, ClosedInv, NeverSendOnClosedQueue
<1>7. EveryRecordAccounted'
  BY <1>2 DEF IInv, EveryRecordAccounted
<1>8. CloseNilMeansPersisted'
  BY <1>1 DEF IInv, CloseNilMeansPersisted
<1> QED
  BY <1>3, <1>4, <1>5, <1>6, <1>7, <1>8 DEF IInv

(* The runner hands its batch to flush.                                    *)
LEMMA StartFlushIInv ==
  ASSUME IInv, TypeInv', NEW S \in SUBSET Requests,
         NEW next \in {"flushing", "final"},
         runner = "select", StartFlush(S, next),
         queue' \cap S = {}, queue' \cup S = queue \cup batch,
         next = "final" => closed /\ queue' = {},
         UNCHANGED <<pc, closed, closer, flushErr, db, dropped, lost>>
  PROVE  IInv'
<1>1. \A state : At(state)' = At(state)
  BY DEF At
<1>2. flush[Runner] = Idle /\ Pending(Runner) = {}
  BY RunnerHoldsNothing
<1>3. /\ flush' = [flush EXCEPT ![Runner] = Flushing(S)]
      /\ batch' = {} /\ runner' = next
  BY DEF StartFlush
<1>4. /\ \A r \in Requests : flush'[r] = flush[r]
      /\ flush'[Runner].todo = <<S>>
  <2>1. flush \in [Workers -> FlushState]
    BY DEF IInv, TypeInv, TypeOK
  <2> QED
    BY <1>3, <2>1, WorkerFacts, FlushingType
<1>5. /\ \A r \in Requests : Pending(r)' = Pending(r)
      /\ Pending(Runner)' = S
      /\ \A w \in Workers : Disjoint(flush[w].todo)'
  <2>1. Records(<<S>>) = S /\ Disjoint(<<S>>)
    BY OneSegment
  <2>2. \A w \in Workers : Disjoint(flush[w].todo)
    BY DEF IInv, OnePlace
  <2> QED
    BY <1>4, <2>1, <2>2, WorkerFacts DEF Pending, Records, Disjoint
<1>6. OnePlace'
  <2>1. OnePlace
    BY DEF IInv
  <2> QED
    BY <1>1, <1>3, <1>5, <2>1 DEF OnePlace
<1>7. LostIsGone'
  <2>1. LostIsGone
    BY DEF IInv
  <2>2. lost \cap S = {} /\ lost \cap queue' = {}
    BY <2>1 DEF LostIsGone
  <2> QED
    BY <1>1, <1>3, <1>5, <2>1, <2>2, WorkerFacts DEF LostIsGone
<1>8. RunnerIdle'
  BY <1>3 DEF RunnerIdle
<1>9. ClosedInv'
  <2>1. flush[Runner].failed = FALSE
    BY <1>2 DEF Idle, Segments
  <2> QED
    BY <1>1, <1>3, <2>1 DEF IInv, ClosedInv, NeverSendOnClosedQueue
<1>10. EveryRecordAccounted'
  BY <1>2, <1>3, <1>5 DEF IInv, EveryRecordAccounted
<1>11. CloseNilMeansPersisted'
  BY <1>1 DEF IInv, CloseNilMeansPersisted
<1> QED
  BY <1>6, <1>7, <1>8, <1>9, <1>10, <1>11 DEF IInv

LEMMA DropRemainingIInv ==
  ASSUME IInv, TypeInv', DropRemaining
  PROVE  IInv'
<1>1. /\ runner \in {"top", "select"} /\ closed
      /\ Lose(batch \cup queue)
      /\ flushErr' = (flushErr \/ batch \cup queue # {})
      /\ batch' = {} /\ queue' = {} /\ runner' = "done"
      /\ UNCHANGED <<pc, closed, flush, closer, db>>
  BY DEF DropRemaining, Remaining, RememberError, storeVars
<1>2. \A state : At(state)' = At(state)
  BY <1>1 DEF At
<1>3. \A w : Pending(w)' = Pending(w)
  BY <1>1 DEF Pending
<1>4. /\ batch \cup queue \in SUBSET Requests
      /\ (batch \cup queue) \cap lost = {}
      /\ dropped = Cardinality(lost)
  BY DEF IInv, LostIsGone, TypeInv, TypeOK
<1>5. lost' = lost \cup batch \cup queue /\ dropped' = Cardinality(lost')
  BY <1>1, <1>4, LossCount, TypeParts DEF IInv, Lose
<1>6. OnePlace'
  BY <1>1, <1>2, <1>3 DEF IInv, OnePlace, Disjoint
<1>7. LostIsGone'
  <2>1. OnePlace /\ LostIsGone
    BY DEF IInv
  <2>2. batch \cup queue \subseteq At("queued")
    BY <2>1 DEF OnePlace
  <2>3. \A w \in Workers : (batch \cup queue) \cap Pending(w) = {}
    BY <2>1, WorkerFacts DEF OnePlace, At
  <2> QED
    BY <1>1, <1>2, <1>3, <1>5, <2>1, <2>2, <2>3 DEF LostIsGone
<1>8. RunnerIdle'
  BY <1>1, RunnerHoldsNothing DEF RunnerIdle
<1>9. ClosedInv'
  BY <1>1, <1>2, <1>5 DEF IInv, ClosedInv, NeverSendOnClosedQueue
<1>10. EveryRecordAccounted'
  BY <1>1, <1>3, <1>5 DEF IInv, EveryRecordAccounted
<1>11. CloseNilMeansPersisted'
  BY <1>1, <1>2 DEF IInv, CloseNilMeansPersisted
<1> QED
  BY <1>6, <1>7, <1>8, <1>9, <1>10, <1>11 DEF IInv

LEMMA RunFlushedIInv ==
  ASSUME IInv, TypeInv', RunFlushed
  PROVE  IInv'
<1>1. /\ runner \in {"flushing", "final"}
      /\ flush[Runner].todo = <<>>
      /\ flushErr' = (flushErr \/ flush[Runner].failed)
      /\ flush' = [flush EXCEPT ![Runner] = Idle]
      /\ runner' = IF runner = "final" THEN "done" ELSE "top"
      /\ UNCHANGED <<pc, queue, closed, batch, closer, db, dropped, lost>>
  BY DEF RunFlushed, RememberError, storeVars, lossVars
<1>2. \A state : At(state)' = At(state)
  BY <1>1 DEF At
<1>3. /\ \A r \in Requests : flush'[r] = flush[r]
      /\ flush'[Runner] = Idle
  <2>1. flush \in [Workers -> FlushState]
    BY DEF IInv, TypeInv, TypeOK
  <2> QED
    BY <1>1, <2>1, WorkerFacts
<1>4. /\ \A w \in Workers : Pending(w)' = Pending(w)
      /\ \A w \in Workers : Disjoint(flush[w].todo)'
  <2>1. /\ Pending(Runner) = {} /\ Pending(Runner)' = {}
        /\ Disjoint(flush'[Runner].todo)
    BY <1>1, <1>3, IdleType, EmptyStack DEF Pending, Records
  <2>2. \A w \in Workers : Disjoint(flush[w].todo)
    BY DEF IInv, OnePlace
  <2> QED
    BY <1>3, <2>1, <2>2, WorkerFacts DEF Pending, Disjoint
<1>5. OnePlace'
  <2>1. OnePlace
    BY DEF IInv
  <2> QED
    BY <1>1, <1>2, <1>4, <2>1, WorkerFacts DEF OnePlace
<1>6. LostIsGone'
  BY <1>1, <1>2, <1>4 DEF IInv, LostIsGone
<1>7. RunnerIdle'
  BY <1>3 DEF RunnerIdle
<1>8. ClosedInv'
  BY <1>1, <1>2, <1>3 DEF IInv, ClosedInv, NeverSendOnClosedQueue
<1>9. EveryRecordAccounted'
  BY <1>1, <1>4, WorkerFacts DEF IInv, EveryRecordAccounted
<1>10. CloseNilMeansPersisted'
  BY <1>1, <1>2 DEF IInv, CloseNilMeansPersisted
<1> QED
  BY <1>5, <1>6, <1>7, <1>8, <1>9, <1>10 DEF IInv

LEMMA RunStepIInv ==
  ASSUME IInv, RunStep
  PROVE  IInv'
<1>1. TypeInv' /\ TypeInv
  BY RunStepType DEF IInv
<1>2. queue \cap batch = {} /\ queue \in SUBSET Requests
      /\ batch \in SUBSET Requests
  BY DEF IInv, OnePlace, TypeInv, TypeOK
<1>3. CASE RunTop
  <2>1. /\ runner = "top" /\ runner' = "select"
        /\ UNCHANGED <<pc, queue, closed, batch, flush, closer, flushErr,
                       db, dropped, lost>>
    BY <1>3 DEF RunTop, storeVars, lossVars
  <2> QED
    BY <1>1, <1>2, <2>1, GatherIInv
<1>4. CASE RunReceive
  <2>1. /\ runner = "select"
        /\ UNCHANGED <<pc, closed, closer, flushErr, db, dropped, lost>>
    BY <1>4 DEF RunReceive, storeVars, lossVars
  <2>2. PICK r \in queue :
          /\ queue' = queue \ {r}
          /\ \/ StartFlush(batch \cup {r}, "flushing")
             \/ /\ batch' = batch \cup {r}
                /\ runner' = "top"
                /\ UNCHANGED flush
    BY <1>4 DEF RunReceive
  <2>3. /\ batch \cup {r} \in SUBSET Requests
        /\ queue' \cap (batch \cup {r}) = {}
        /\ queue' \cup (batch \cup {r}) = queue \cup batch
    BY <1>2, <2>2
  <2>4. CASE StartFlush(batch \cup {r}, "flushing")
    BY <1>1, <2>1, <2>3, <2>4, StartFlushIInv
  <2>5. CASE /\ batch' = batch \cup {r}
             /\ runner' = "top"
             /\ UNCHANGED flush
    BY <1>1, <2>1, <2>3, <2>5, GatherIInv
  <2> QED
    BY <2>2, <2>4, <2>5
<1>5. CASE RunTick \/ RunQueueClosed
  <2>1. /\ runner = "select"
        /\ UNCHANGED <<pc, queue, closed, closer, flushErr, db, dropped,
                       lost>>
        /\ RunQueueClosed => closed /\ queue = {}
    BY <1>5 DEF RunTick, RunQueueClosed, storeVars, lossVars
  <2>2. CASE batch # {}
    <3>1. PICK next \in {"flushing", "final"} :
            /\ StartFlush(batch, next)
            /\ next = "final" => RunQueueClosed
      BY <1>5, <2>2 DEF RunTick, RunQueueClosed
    <3> QED
      BY <1>1, <1>2, <2>1, <3>1, StartFlushIInv
  <2>3. CASE batch = {}
    <3>1. /\ runner' \in {"top", "done"} /\ UNCHANGED <<batch, flush>>
          /\ runner' = "done" => RunQueueClosed
      BY <1>5, <2>3 DEF RunTick, RunQueueClosed
    <3> QED
      BY <1>1, <1>2, <2>1, <2>3, <3>1, GatherIInv
  <2> QED
    BY <2>2, <2>3
<1>6. CASE DropRemaining \/ RunFlushed
  BY <1>1, <1>6, DropRemainingIInv, RunFlushedIInv
<1> QED
  BY <1>3, <1>4, <1>5, <1>6 DEF RunStep

LEMMA CloserStepIInv ==
  ASSUME IInv, NEW c \in Closers, CloseStart(c) \/ CloserStep(c)
  PROVE  IInv'
<1>1. TypeInv'
  BY CloserStepType DEF IInv
<1>2. /\ UNCHANGED <<pc, queue, runner, batch, flush, flushErr, db, dropped,
                     lost>>
      /\ closed => closed'
  BY DEF CloseStart, CloseQueue, CloserStep, CloseDone, CloseExpired,
         CloseJoin, storeVars, lossVars
<1>3. \A state : At(state)' = At(state)
  BY <1>2 DEF At
<1>4. \A w : Pending(w)' = Pending(w)
  BY <1>2 DEF Pending
<1>5. OnePlace'
  BY <1>2, <1>3, <1>4 DEF IInv, OnePlace, Disjoint
<1>6. LostIsGone' /\ RunnerIdle'
  BY <1>2, <1>3, <1>4 DEF IInv, LostIsGone, RunnerIdle
<1>7. closer \in [Closers -> CloserStates]
  BY DEF IInv, TypeInv, TypeOK
<1>8. NeverSendOnClosedQueue'
  <2>1. NeverSendOnClosedQueue
    BY DEF IInv, ClosedInv
  <2>2. UNCHANGED closed \/ At("sending") = {}
    BY DEF CloseStart, WriteLockFree, CloserStep, CloseDone, CloseExpired,
           CloseJoin
  <2> QED
    BY <1>3, <2>1, <2>2 DEF NeverSendOnClosedQueue
<1>9. (\E d \in Closers : closer'[d] = "nil")
        => \/ \E d \in Closers : closer[d] = "nil"
           \/ runner = "done" /\ ~flushErr
  BY <1>7 DEF CloseStart, CloserStep, CloseDone, CloseExpired, CloseJoin
<1>10. ClosedInv'
  BY <1>2, <1>3, <1>8, <1>9 DEF IInv, ClosedInv
<1>11. EveryRecordAccounted'
  BY <1>2, <1>4 DEF IInv, EveryRecordAccounted
<1>12. runner = "done" /\ ~flushErr => At("queued") \subseteq db
  <2> SUFFICES ASSUME runner = "done", ~flushErr
               PROVE  At("queued") \subseteq db
    OBVIOUS
  <2>1. queue = {} /\ batch = {} /\ Pending(Runner) = {}
    BY RunnerHoldsNothing DEF IInv, ClosedInv
  <2>2. flush[Runner].failed = FALSE
    BY RunnerHoldsNothing DEF Idle, Segments
  <2>3. lost \cap At("queued") = {}
    BY <2>2 DEF IInv, ClosedInv
  <2> QED
    BY <2>1, <2>3 DEF IInv, EveryRecordAccounted, At
<1>13. CloseNilMeansPersisted'
  BY <1>2, <1>3, <1>9, <1>12 DEF IInv, CloseNilMeansPersisted
<1> QED
  BY <1>1, <1>5, <1>6, <1>10, <1>11, <1>13 DEF IInv

LEMMA NextIInv == IInv /\ [Next]_vars => IInv'
<1> SUFFICES ASSUME IInv, [Next]_vars PROVE IInv'
  OBVIOUS
<1>1. CASE UNCHANGED vars
  <2>1. /\ UNCHANGED <<pc, queue, closed, runner, batch, flush, closer,
                       flushErr, db, dropped, lost>>
        /\ \A state : At(state)' = At(state)
        /\ \A w : Pending(w)' = Pending(w)
    BY <1>1 DEF vars, At, Pending
  <2>2. TypeInv'
    BY <1>1, NextTypeInv DEF IInv
  <2>3. OnePlace' /\ LostIsGone' /\ RunnerIdle'
    BY <2>1 DEF IInv, OnePlace, Disjoint, LostIsGone, RunnerIdle
  <2>4. ClosedInv' /\ EveryRecordAccounted' /\ CloseNilMeansPersisted'
    BY <2>1 DEF IInv, ClosedInv, NeverSendOnClosedQueue,
                EveryRecordAccounted, CloseNilMeansPersisted
  <2> QED
    BY <2>2, <2>3, <2>4 DEF IInv
<1>2. CASE Next
  BY <1>2, HandlerStepIInv, FlushStepIInv, RunStepIInv, CloserStepIInv
  DEF Next
<1> QED
  BY <1>1, <1>2

LEMMA AlwaysIInv == Spec => []IInv
  BY InitIInv, NextIInv, PTL DEF Spec

-----------------------------------------------------------------------------

(* A record that record() has taken is in the queue, in the batch, in a    *)
(* flush, in the table or counted as dropped, for any number of records    *)
(* and any sizes.                                                          *)
THEOREM NothingMislaid == Spec => []EveryRecordAccounted
<1>1. IInv => EveryRecordAccounted
  BY DEF IInv
<1> QED
  BY <1>1, AlwaysIInv, PTL

(* Dropped() is the number of the records that were lost: none is counted  *)
(* twice, none goes uncounted.                                             *)
THEOREM LossesCountedOnce == Spec => []DroppedCountsEachLossOnce
<1>1. IInv => DroppedCountsEachLossOnce
  BY DEF IInv, LostIsGone, DroppedCountsEachLossOnce
<1> QED
  BY <1>1, AlwaysIInv, PTL

(* Submit never sends on the channel that Close has closed.                *)
THEOREM NoSendAfterClose == Spec => []NeverSendOnClosedQueue
<1>1. IInv => NeverSendOnClosedQueue
  BY DEF IInv, ClosedInv
<1> QED
  BY <1>1, AlwaysIInv, PTL

(* When Close has returned nil, every record the queue accepted is a row   *)
(* of request_logs.                                                        *)
THEOREM NilClosePersisted == Spec => []CloseNilMeansPersisted
<1>1. IInv => CloseNilMeansPersisted
  BY DEF IInv
<1> QED
  BY <1>1, AlwaysIInv, PTL

-----------------------------------------------------------------------------
(* The usage tables and the isolation of refused records need only what a  *)
(* flush does with the segment it works on.                                *)

UsageInv == TypeInv /\ UsageAgreesWithLog

LEMMA RecordRequestsUsage ==
  ASSUME UsageInv, NEW S \in SUBSET Requests, RecordRequests(S)
  PROVE  UsageAgreesWithLog'
<1> SUFFICES ASSUME NEW r \in Requests
             PROVE  usage'[r] = IF r \in db' \cap Attributed THEN 1 ELSE 0
  BY DEF UsageAgreesWithLog
<1>1. /\ db' = db \cup S
      /\ usage'[r] = IF r \in (S \ db) \cap Attributed THEN usage[r] + 1
                                                     ELSE usage[r]
  BY DEF RecordRequests, Inserted
<1>2. usage[r] = IF r \in db \cap Attributed THEN 1 ELSE 0
  BY DEF UsageInv, UsageAgreesWithLog
<1> QED
  BY <1>1, <1>2

LEMMA NextUsageInv == UsageInv /\ [Next]_vars => UsageInv'
<1> SUFFICES ASSUME UsageInv, [Next]_vars PROVE UsageInv'
  OBVIOUS
<1>1. TypeInv /\ TypeInv'
  BY NextTypeInv DEF UsageInv
<1>2. ASSUME UNCHANGED storeVars PROVE UsageAgreesWithLog'
  BY <1>2 DEF UsageInv, UsageAgreesWithLog, storeVars
<1>3. CASE \E w \in Workers : WriteOK(w) \/ WriteOtherError(w)
  <2>1. PICK w \in Workers : WriteOK(w) \/ WriteOtherError(w)
    BY <1>3
  <2>2. Head(flush[w].todo) \in SUBSET Requests
    <3>1. flush[w].todo \in Seq(SUBSET Requests) /\ flush[w].todo # <<>>
      BY <1>1, <2>1
      DEF TypeInv, TypeOK, FlushState, WriteOK, WriteOtherError
    <3> QED
      BY <3>1
  <2> QED
    BY <1>1, <1>2, <2>1, <2>2, RecordRequestsUsage
    DEF WriteOK, WriteOtherError, UsageInv
<1>4. CASE ~(\E w \in Workers : WriteOK(w) \/ WriteOtherError(w))
  <2>1. UNCHANGED storeVars
    BY <1>4
    DEF Next, SubmitLock, HandlerStep, SubmitSend, FallbackEnter,
        FallbackFull, FallbackAcquire, FallbackGiveUp, FallbackReturn,
        RejectFallback, FlushStep, WriteDataError, Bisect, Retry,
        DropSegment, RunStep, RunTop, RunReceive, RunTick, RunQueueClosed,
        DropRemaining, RunFlushed, CloseStart, CloserStep, CloseDone,
        CloseExpired, CloseJoin, vars, storeVars
  <2> QED
    BY <1>1, <1>2, <2>1 DEF UsageInv
<1> QED
  BY <1>3, <1>4

(* However often a batch is written again, a record is added to the usage  *)
(* tables once, and only when its row is in the log.                       *)
THEOREM UsageCountsOnce == Spec => []UsageAgreesWithLog
<1>1. Init => UsageInv
  BY InitTypeInv DEF Init, UsageInv, UsageAgreesWithLog
<1>2. UsageInv => UsageAgreesWithLog
  BY DEF UsageInv
<1> QED
  BY <1>1, <1>2, NextUsageInv, PTL DEF Spec

-----------------------------------------------------------------------------
(* Refused records.  A write fails for its data only when it holds a       *)
(* refused record, and the tries of one segment never exceed the outages.  *)

Sound(w) ==
  /\ flush[w].result = "data" => Head(flush[w].todo) \cap Bad # {}
  /\ outages < MaxTries =>
       /\ flush[w].tries <= outages
       /\ flush[w].result = "other" => flush[w].tries < outages

IsolationInv ==
  /\ TypeInv
  /\ \A w \in Workers : Sound(w)
  /\ RefusedRecordsAreIsolated

LEMMA IdleSound ==
  ASSUME outages \in Nat, NEW stack
  PROVE  /\ Segments(stack).result = "none" /\ Segments(stack).tries = 0
         /\ Segments(stack).tries <= outages
  BY DEF Segments

(* Of a segment that cannot be split, nothing but refused records is lost. *)
LEMMA SingleRefused ==
  ASSUME NEW S \in SUBSET Requests, S \cap Bad # {}, ~CanSplit(S)
  PROVE  S \subseteq Bad
<1>1. IsFiniteSet(S) /\ Cardinality(S) \in Nat
  BY RecordsFinite
<1>2. Cardinality(S) # 0
  BY <1>1, FS_EmptySet
<1>3. Cardinality(S) = 1
  BY <1>1, <1>2 DEF CanSplit
<1>4. PICK x : S = {x}
  BY <1>1, <1>3, FS_Singleton
<1> QED
  BY <1>4

LEMMA FlushStepIsolation ==
  ASSUME IsolationInv, NEW w \in Workers, FlushStep(w)
  PROVE  IsolationInv'
<1>1. /\ TypeInv /\ TypeInv' /\ flush \in [Workers -> FlushState]
      /\ outages \in 0..MaxTries /\ MaxTries \in Nat \ {0}
      /\ flush[w] \in FlushState
  BY FlushStepType, RecorderAssumption DEF IsolationInv, TypeInv, TypeOK
<1>2. flush[w].tries \in Nat /\ outages \in Nat
  BY <1>1 DEF FlushState
<1>3. Head(flush[w].todo) \in SUBSET Requests
  <2>1. flush[w].todo \in Seq(SUBSET Requests)
    BY <1>1 DEF FlushState
  <2>2. flush[w].todo # <<>>
    BY <1>1 DEF FlushStep, WriteOK, WriteDataError, WriteOtherError, Bisect,
                Retry, DropSegment, TypeInv
  <2> QED
    BY <2>1, <2>2
<1>4. Sound(w) /\ RefusedRecordsAreIsolated
  BY DEF IsolationInv
<1>5. outages' < MaxTries => outages < MaxTries /\ outages <= outages'
  <2>1. \/ outages' = outages
        \/ outages' = IF outages < MaxTries THEN outages + 1 ELSE outages
    BY DEF FlushStep, WriteOK, WriteDataError, WriteOtherError, Bisect,
           Retry, DropSegment
  <2> QED
    BY <1>1, <1>2, <2>1
<1>6. UNCHANGED <<cancelled, rejected>>
  BY DEF FlushStep, WriteOK, WriteDataError, WriteOtherError, Bisect,
         Retry, DropSegment
<1>7. ASSUME NEW v \in Workers \ {w} PROVE Sound(v)'
  <2>1. flush'[v] = flush[v]
    BY <1>1 DEF FlushStep, WriteOK, PopSegment, WriteDataError,
                WriteOtherError, Bisect, Retry, DropSegment
  <2>2. Sound(v) /\ flush[v].tries \in Nat
    BY <1>1 DEF IsolationInv, FlushState
  <2>3. outages' \in Nat
    BY <1>1 DEF TypeInv, TypeOK
  <2> QED
    BY <1>1, <1>2, <1>5, <2>1, <2>2, <2>3 DEF Sound
<1>8. Sound(w)'
  <2>1. outages' \in Nat
    BY <1>1 DEF TypeInv, TypeOK
  <2>2. CASE flush'[w].result = "none" /\ flush'[w].tries = 0
    BY <2>1, <2>2 DEF Sound
  <2>3. CASE WriteOK(w) \/ DropSegment(w)
    <3>1. flush'[w].result = "none" /\ flush'[w].tries = 0
      BY <1>1, <2>3 DEF WriteOK, PopSegment, DropSegment, FlushState
    <3> QED
      BY <2>2, <3>1
  <2>4. CASE Bisect(w)
    <3>1. PICK t : flush' = [flush EXCEPT ![w].todo = t, ![w].tries = 0,
                                          ![w].result = "none"]
      BY <2>4 DEF Bisect
    <3>2. flush'[w].result = "none" /\ flush'[w].tries = 0
      BY <1>1, <3>1 DEF FlushState
    <3> QED
      BY <2>2, <3>2
  <2>5. CASE WriteDataError(w)
    <3>1. /\ flush'[w].result = "data" /\ flush'[w].tries = flush[w].tries
          /\ flush'[w].todo = flush[w].todo /\ UNCHANGED outages
          /\ Head(flush[w].todo) \cap Bad # {}
      BY <1>1, <2>5 DEF WriteDataError, FlushState
    <3> QED
      BY <1>4, <3>1 DEF Sound
  <2>6. CASE WriteOtherError(w)
    <3>1. /\ flush'[w].result = "other" /\ flush'[w].tries = flush[w].tries
          /\ flush[w].result = "none"
          /\ outages' = IF outages < MaxTries THEN outages + 1 ELSE outages
      BY <1>1, <2>6 DEF WriteOtherError, FlushState
    <3> QED
      BY <1>1, <1>2, <1>4, <3>1 DEF Sound
  <2>7. CASE Retry(w)
    <3>1. /\ flush'[w].result = "none"
          /\ flush'[w].tries = flush[w].tries + 1
          /\ flush[w].result = "other" /\ UNCHANGED outages
      BY <1>1, <2>7 DEF Retry, NextTry, FlushState
    <3> QED
      BY <1>2, <1>4, <3>1 DEF Sound
  <2> QED
    BY <2>3, <2>4, <2>5, <2>6, <2>7 DEF FlushStep
<1>9. RefusedRecordsAreIsolated'
  <2> SUFFICES ASSUME outages' < MaxTries, ~cancelled, rejected = 0
               PROVE  lost' \subseteq Bad
    BY <1>6 DEF RefusedRecordsAreIsolated
  <2>1. lost \subseteq Bad
    BY <1>4, <1>5 DEF RefusedRecordsAreIsolated
  <2>2. CASE DropSegment(w)
    <3>1. lost' = lost \cup Head(flush[w].todo)
      BY <2>2 DEF DropSegment, Lose
    <3>2. ~(flush[w].result = "other" /\ NextTry(flush[w].tries) >= MaxTries)
      BY <1>1, <1>2, <1>4, <1>5 DEF Sound, NextTry
    <3>3. flush[w].result = "data" /\ ~CanSplit(Head(flush[w].todo))
      BY <2>2, <3>2 DEF DropSegment
    <3>4. Head(flush[w].todo) \subseteq Bad
      BY <1>3, <1>4, <3>3, SingleRefused DEF Sound
    <3> QED
      BY <2>1, <3>1, <3>4
  <2>3. CASE ~DropSegment(w)
    <3>1. UNCHANGED lost
      BY <2>3 DEF FlushStep, WriteOK, WriteDataError, WriteOtherError,
                  Bisect, Retry, lossVars
    <3> QED
      BY <2>1, <3>1
  <2> QED
    BY <2>2, <2>3
<1> QED
  BY <1>1, <1>7, <1>8, <1>9 DEF IsolationInv

LEMMA NextIsolation == IsolationInv /\ [Next]_vars => IsolationInv'
<1> SUFFICES ASSUME IsolationInv, [Next]_vars PROVE IsolationInv'
  OBVIOUS
<1>1. TypeInv /\ TypeInv' /\ flush \in [Workers -> FlushState]
      /\ outages \in Nat
  BY NextTypeInv DEF IsolationInv, TypeInv, TypeOK
<1>2. CASE \E w \in Workers : FlushStep(w)
  BY <1>2, FlushStepIsolation
<1>3. CASE ~(\E w \in Workers : FlushStep(w))
  <2>1. UNCHANGED outages
    BY <1>3
    DEF Next, SubmitLock, HandlerStep, SubmitSend, FallbackEnter,
        FallbackFull, FallbackAcquire, FallbackGiveUp, FallbackReturn,
        RejectFallback, RunStep, RunTop, RunReceive, RunTick, RunQueueClosed,
        DropRemaining, RunFlushed, CloseStart, CloserStep, CloseDone,
        CloseExpired, CloseJoin, vars
  <2>2. ASSUME NEW w \in Workers
        PROVE  \/ flush'[w] = flush[w]
               \/ \E stack : flush'[w] = Segments(stack)
    BY <1>1, <1>3, <2>2
    DEF Next, SubmitLock, HandlerStep, SubmitSend, FallbackEnter,
        FallbackFull, FallbackAcquire, FallbackGiveUp, FallbackReturn,
        RejectFallback, RunStep, RunTop, RunReceive, RunTick, RunQueueClosed,
        DropRemaining, RunFlushed, StartFlush, CloseStart, CloserStep,
        CloseDone, CloseExpired, CloseJoin, vars, Idle, Flushing
  <2>3. \A w \in Workers : Sound(w)'
    BY <1>1, <2>1, <2>2, IdleSound DEF IsolationInv, Sound
  <2>4. RefusedRecordsAreIsolated'
    <3>1. \/ UNCHANGED lost /\ (cancelled => cancelled')
             /\ (rejected' = 0 => rejected = 0)
          \/ \E r \in Requests : RejectFallback(r)
          \/ DropRemaining
      BY <1>3
      DEF Next, SubmitLock, HandlerStep, SubmitSend, FallbackEnter,
          FallbackFull, FallbackAcquire, FallbackGiveUp, FallbackReturn,
          RunStep, RunTop, RunReceive, RunTick, RunQueueClosed,
          RunFlushed, CloseStart, CloserStep, CloseDone, CloseExpired,
          CloseJoin, vars, lossVars
    <3>2. (\E r \in Requests : RejectFallback(r)) => rejected' # 0
      BY <1>1 DEF RejectFallback, TypeInv, TypeOK
    <3>3. DropRemaining => cancelled'
      BY DEF DropRemaining
    <3> QED
      BY <2>1, <3>1, <3>2, <3>3 DEF IsolationInv, RefusedRecordsAreIsolated
  <2> QED
    BY <1>1, <2>3, <2>4 DEF IsolationInv
<1> QED
  BY <1>2, <1>3

(* One record PostgreSQL refuses costs no other record its place, however  *)
(* the batches are composed and bisected.                                  *)
THEOREM RefusedIsolated == Spec => []RefusedRecordsAreIsolated
<1>1. Init => IsolationInv
  <2> SUFFICES ASSUME Init PROVE IsolationInv
    OBVIOUS
  <2>1. outages \in Nat /\ \A w \in Workers : flush[w] = Idle
    BY DEF Init
  <2>2. \A w \in Workers : Sound(w)
    BY <2>1, IdleSound DEF Sound, Idle
  <2> QED
    BY <2>2, InitTypeInv DEF Init, IsolationInv, RefusedRecordsAreIsolated
<1>2. IsolationInv => RefusedRecordsAreIsolated
  BY DEF IsolationInv
<1> QED
  BY <1>1, <1>2, NextIsolation, PTL DEF Spec

(* Every record is in one place, in the table or counted as dropped, and   *)
(* its usage is counted once: for any records and any sizes.               *)
THEOREM LedgerBalances == Spec => []LedgerIsExact
BY NothingMislaid, LossesCountedOnce, UsageCountsOnce, PTL DEF LedgerIsExact
-----------------------------------------------------------------------------
(* What a returned Close and the shutdown around it rely on: an error is   *)
(* remembered for every loss, by flush until it returns and in flushErr    *)
(* after, and a Close that returned has seen the runner end.               *)

HandlerIdle == \A r \in Requests : pc[r] # "flushing" => flush[r] = Idle
LossKnown == lost # {} => flushErr \/ \E w \in Workers : flush[w].failed
Ended == \A c \in Closers : closer[c] \in {"nil", "error"} => runner = "done"

QuietInv == IInv /\ HandlerIdle /\ LossKnown /\ Ended

LEMMA NothingFailedYet ==
  /\ ~Idle.failed /\ \A S : ~Flushing(S).failed
BY DEF Idle, Flushing, Segments

LEMMA FlushStepKeeps ==
  ASSUME QuietInv, NEW w \in Workers, FlushStep(w)
  PROVE  HandlerIdle' /\ LossKnown' /\ Ended'
<1>1. flush \in [Workers -> FlushState]
  BY DEF QuietInv, IInv, TypeInv, TypeOK
<1>2. UNCHANGED <<pc, closer, runner, flushErr>>
  BY DEF FlushStep, WriteOK, WriteDataError, WriteOtherError, Bisect, Retry, DropSegment
<1>3. \A v \in Workers : v # w => flush'[v] = flush[v]
  BY <1>1 DEF FlushStep, WriteOK, WriteDataError, WriteOtherError, Bisect, Retry,
              DropSegment, PopSegment
<1>4. flush[w] # Idle
  <2>1. flush[w].todo # <<>> \/ flush[w].result # "none"
    BY DEF FlushStep, WriteOK, WriteDataError, WriteOtherError, Bisect, Retry, DropSegment
  <2> QED
    BY <2>1, IdleType
<1>5. HandlerIdle'
  BY <1>2, <1>3, <1>4, WorkerFacts DEF QuietInv, HandlerIdle
<1>6. Ended'
  BY <1>2 DEF QuietInv, Ended
<1>7. CASE DropSegment(w)
  <2>1. flush'[w].failed = TRUE
    BY <1>1, <1>7 DEF DropSegment, FlushState
  <2> QED
    BY <1>5, <1>6, <2>1 DEF LossKnown
<1>8. CASE ~DropSegment(w)
  <2>1. flush'[w].failed = flush[w].failed
    <3>1. CASE WriteOK(w)
      BY <1>1, <3>1 DEF WriteOK, PopSegment, FlushState
    <3>2. CASE WriteDataError(w) \/ WriteOtherError(w)
      BY <1>1, <3>2 DEF WriteDataError, WriteOtherError, FlushState
    <3>3. CASE Bisect(w)
      BY <1>1, <3>3 DEF Bisect, FlushState
    <3>4. CASE Retry(w)
      BY <1>1, <3>4 DEF Retry, FlushState
    <3> QED
      BY <1>8, <3>1, <3>2, <3>3, <3>4 DEF FlushStep
  <2>2. UNCHANGED lost
    BY <1>8 DEF FlushStep, WriteOK, WriteDataError, WriteOtherError, Bisect, Retry, lossVars
  <2>3. LossKnown'
    BY <1>2, <1>3, <2>1, <2>2 DEF QuietInv, LossKnown
  <2> QED
    BY <1>5, <1>6, <2>3
<1> QED
  BY <1>7, <1>8

(* A step that starts or leaves alone every flush, and loses nothing.      *)
LEMMA LossesKept ==
  ASSUME QuietInv, UNCHANGED <<lost, flushErr>>,
         \A w \in Workers : flush'[w] = flush[w] \/ flush[w] = Idle
  PROVE  LossKnown'
<1>1. \A w \in Workers : flush[w].failed => flush'[w] = flush[w]
  BY NothingFailedYet
<1> QED
  BY <1>1 DEF QuietInv, LossKnown

LEMMA HandlerStepKeeps ==
  ASSUME QuietInv, NEW r \in Requests, SubmitLock(r) \/ HandlerStep(r)
  PROVE  HandlerIdle' /\ LossKnown' /\ Ended'
<1>1. /\ flush \in [Workers -> FlushState]
      /\ pc \in [Requests -> PcStates]
  BY DEF QuietInv, IInv, TypeInv, TypeOK
<1>2. UNCHANGED <<closer, runner>>
  BY DEF SubmitLock, HandlerStep, SubmitSend, FallbackEnter, FallbackFull, FallbackAcquire,
         FallbackGiveUp, FallbackReturn, RejectFallback
<1>3. \A q \in Requests : q # r => pc'[q] = pc[q]
  BY <1>1 DEF SubmitLock, HandlerStep, SubmitSend, FallbackEnter, FallbackFull,
              FallbackAcquire, FallbackGiveUp, FallbackReturn, RejectFallback
<1>4. Ended'
  BY <1>2 DEF QuietInv, Ended
<1>5. CASE FallbackAcquire(r)
  <2>1. /\ pc[r] = "waiting" /\ pc'[r] = "flushing" /\ UNCHANGED <<lost, flushErr>>
        /\ flush' = [flush EXCEPT ![r] = Flushing({r})]
    BY <1>1, <1>5 DEF FallbackAcquire, lossVars
  <2>2. \A w \in Workers : w # r => flush'[w] = flush[w]
    BY <1>1, <2>1
  <2>3. flush[r] = Idle
    BY <2>1 DEF QuietInv, HandlerIdle
  <2>4. HandlerIdle'
    BY <1>3, <2>1, <2>2, WorkerFacts DEF QuietInv, HandlerIdle
  <2>5. LossKnown'
    BY <2>1, <2>2, <2>3, LossesKept
  <2> QED
    BY <1>4, <2>4, <2>5
<1>6. CASE FallbackReturn(r)
  <2>1. /\ pc'[r] = "fellback" /\ UNCHANGED lost
        /\ flushErr' = (flushErr \/ flush[r].failed)
        /\ flush' = [flush EXCEPT ![r] = Idle]
    BY <1>1, <1>6 DEF FallbackReturn, RememberError, lossVars
  <2>2. flush'[r] = Idle /\ \A w \in Workers : w # r => flush'[w] = flush[w]
    BY <1>1, <2>1, WorkerFacts
  <2>3. HandlerIdle'
    BY <1>3, <2>2, WorkerFacts DEF QuietInv, HandlerIdle
  <2>4. LossKnown'
    BY <2>1, <2>2 DEF QuietInv, LossKnown
  <2> QED
    BY <1>4, <2>3, <2>4
<1>7. CASE ~FallbackAcquire(r) /\ ~FallbackReturn(r)
  <2>1. UNCHANGED flush
    BY <1>7 DEF SubmitLock, HandlerStep, SubmitSend, FallbackEnter, FallbackFull,
                FallbackGiveUp, RejectFallback
  <2>2. pc[r] # "flushing"
    BY <1>7 DEF SubmitLock, HandlerStep, SubmitSend, FallbackEnter, FallbackFull,
                FallbackGiveUp
  <2>3. HandlerIdle'
    BY <1>3, <2>1, <2>2 DEF QuietInv, HandlerIdle
  <2>4. LossKnown'
    <3>1. CASE RejectFallback(r)
      BY <3>1 DEF RejectFallback, RememberError, LossKnown
    <3>2. CASE UNCHANGED <<lost, flushErr>>
      BY <2>1, <3>2, LossesKept
    <3> QED
      BY <1>7, <3>1, <3>2 DEF SubmitLock, HandlerStep, SubmitSend, FallbackEnter,
                              FallbackFull, FallbackGiveUp, lossVars
  <2> QED
    BY <1>4, <2>3, <2>4
<1> QED
  BY <1>5, <1>6, <1>7

LEMMA RunStepKeeps ==
  ASSUME QuietInv, RunStep
  PROVE  HandlerIdle' /\ LossKnown' /\ Ended'
<1>1. /\ flush \in [Workers -> FlushState]
      /\ runner # "done" /\ UNCHANGED <<pc, closer>>
  BY DEF QuietInv, IInv, TypeInv, TypeOK, RunStep, RunTop, RunReceive, RunTick,
         RunQueueClosed, DropRemaining, RunFlushed
<1>2. Ended'
  BY <1>1 DEF QuietInv, Ended
<1>3. \A r \in Requests : flush'[r] = flush[r]
  BY <1>1, WorkerFacts DEF RunStep, RunTop, RunReceive, RunTick,
                           RunQueueClosed, DropRemaining, RunFlushed, StartFlush
<1>4. HandlerIdle'
  BY <1>1, <1>3 DEF QuietInv, HandlerIdle
<1>5. CASE DropRemaining
  <2>1. /\ UNCHANGED flush /\ lost' = lost \cup Remaining
        /\ flushErr' = (flushErr \/ Remaining # {})
    BY <1>5 DEF DropRemaining, Lose, RememberError
  <2>2. LossKnown'
    BY <2>1 DEF QuietInv, LossKnown
  <2> QED
    BY <1>2, <1>4, <2>2
<1>6. CASE RunFlushed
  <2>1. /\ UNCHANGED lost
        /\ flushErr' = (flushErr \/ flush[Runner].failed)
    BY <1>6 DEF RunFlushed, RememberError, lossVars
  <2>2. LossKnown'
    BY <1>3, <2>1, WorkerFacts DEF QuietInv, LossKnown
  <2> QED
    BY <1>2, <1>4, <2>2
<1>7. CASE ~DropRemaining /\ ~RunFlushed
  <2>1. runner \in {"top", "select"} /\ UNCHANGED <<lost, flushErr>>
    BY <1>7 DEF RunStep, RunTop, RunReceive, RunTick, RunQueueClosed, lossVars
  <2>2. flush[Runner] = Idle
    BY <2>1 DEF QuietInv, IInv, RunnerIdle
  <2>3. LossKnown'
    BY <1>3, <2>1, <2>2, LossesKept, WorkerFacts
  <2> QED
    BY <1>2, <1>4, <2>3
<1> QED
  BY <1>5, <1>6, <1>7

LEMMA NextQuiet == QuietInv /\ [Next]_vars => QuietInv'
<1> SUFFICES ASSUME QuietInv, [Next]_vars PROVE QuietInv'
  OBVIOUS
<1>1. IInv'
  BY NextIInv DEF QuietInv
<1>2. CASE UNCHANGED vars
  BY <1>1, <1>2 DEF QuietInv, HandlerIdle, LossKnown, Ended, vars
<1>3. ASSUME NEW r \in Requests, SubmitLock(r) \/ HandlerStep(r) PROVE QuietInv'
  BY <1>1, <1>3, HandlerStepKeeps DEF QuietInv
<1>4. ASSUME NEW w \in Workers, FlushStep(w) PROVE QuietInv'
  BY <1>1, <1>4, FlushStepKeeps DEF QuietInv
<1>5. CASE RunStep
  BY <1>1, <1>5, RunStepKeeps DEF QuietInv
<1>6. ASSUME NEW c \in Closers, CloseStart(c) \/ CloserStep(c) PROVE QuietInv'
  <2>1. UNCHANGED <<pc, flush, lost, flushErr, runner>>
    BY <1>6 DEF CloseStart, CloserStep, CloseDone, CloseExpired, CloseJoin, lossVars
  <2>2. closer \in [Closers -> CloserStates]
    BY DEF QuietInv, IInv, TypeInv, TypeOK
  <2>3. Ended'
    BY <1>6, <2>1, <2>2 DEF QuietInv, Ended, CloseStart, CloserStep, CloseDone,
                            CloseExpired, CloseJoin
  <2> QED
    BY <1>1, <2>1, <2>3 DEF QuietInv, HandlerIdle, LossKnown
<1> QED
  BY <1>2, <1>3, <1>4, <1>5, <1>6 DEF Next

LEMMA AlwaysQuietInv == Spec => []QuietInv
<1>1. Init => QuietInv
  <2> SUFFICES ASSUME Init PROVE QuietInv
    OBVIOUS
  <2>1. HandlerIdle
    BY WorkerFacts DEF Init, HandlerIdle
  <2>2. LossKnown
    BY DEF Init, LossKnown
  <2>3. Ended
    BY DEF Init, Ended
  <2> QED
    BY <2>1, <2>2, <2>3, InitIInv DEF QuietInv
<1> QED
  BY <1>1, NextQuiet, PTL DEF Spec

(* After a Close that returned, with an error or without, the runner       *)
(* writes nothing: its caller may close the database.                      *)
THEOREM RunnerRestsAfterClose == Spec => QuietAfterClose
<1> DEFINE Rests == (\E c \in Closers : closer[c] \in {"nil", "error"})
                      => UNCHANGED <<runner, batch, queue, flush[Runner]>>
<1>1. QuietInv /\ [Next]_vars => Rests
  <2> SUFFICES ASSUME QuietInv, [Next]_vars,
                      \E c \in Closers : closer[c] \in {"nil", "error"}
               PROVE  UNCHANGED <<runner, batch, queue, flush[Runner]>>
    OBVIOUS
  <2>1. runner = "done"
    BY DEF QuietInv, Ended
  <2>2. flush[Runner] = Idle /\ closed /\ At("sending") = {}
    BY <2>1 DEF QuietInv, IInv, RunnerIdle, ClosedInv, NeverSendOnClosedQueue
  <2>3. flush \in [Workers -> FlushState]
    BY DEF QuietInv, IInv, TypeInv, TypeOK
  <2>4. ASSUME NEW r \in Requests, SubmitLock(r) \/ HandlerStep(r)
        PROVE  UNCHANGED <<runner, batch, queue, flush[Runner]>>
    <3>1. ~SubmitSend(r)
      BY <2>2 DEF SubmitSend, At
    <3>2. UNCHANGED <<runner, batch, queue>>
      BY <2>4, <3>1 DEF SubmitLock, HandlerStep, FallbackEnter, FallbackFull,
                        FallbackAcquire, FallbackGiveUp, FallbackReturn, RejectFallback
    <3>3. flush'[Runner] = flush[Runner]
      BY <2>3, <2>4, <3>1, WorkerFacts
         DEF SubmitLock, HandlerStep, FallbackEnter, FallbackFull,
             FallbackAcquire, FallbackGiveUp, FallbackReturn, RejectFallback
    <3> QED
      BY <3>2, <3>3
  <2>5. ASSUME NEW w \in Workers, FlushStep(w)
        PROVE  UNCHANGED <<runner, batch, queue, flush[Runner]>>
    <3>1. w # Runner
      <4>1. flush[w].todo # <<>> \/ flush[w].result # "none"
        BY <2>5 DEF FlushStep, WriteOK, WriteDataError, WriteOtherError, Bisect, Retry,
                    DropSegment
      <4> QED
        BY <4>1, <2>2, IdleType
    <3>2. UNCHANGED <<runner, batch, queue>>
      BY <2>5 DEF FlushStep, WriteOK, WriteDataError, WriteOtherError, Bisect, Retry,
                  DropSegment
    <3>3. flush'[Runner] = flush[Runner]
      BY <2>3, <2>5, <3>1, WorkerFacts
         DEF FlushStep, WriteOK, WriteDataError, WriteOtherError, Bisect, Retry,
             DropSegment, PopSegment
    <3> QED
      BY <3>2, <3>3
  <2>6. ~RunStep
    BY <2>1 DEF RunStep, RunTop, RunReceive, RunTick, RunQueueClosed, DropRemaining,
                RunFlushed
  <2>7. ASSUME NEW c \in Closers, CloseStart(c) \/ CloserStep(c)
        PROVE  UNCHANGED <<runner, batch, queue, flush[Runner]>>
    BY <2>7 DEF CloseStart, CloserStep, CloseDone, CloseExpired, CloseJoin
  <2>8. CASE UNCHANGED vars
    BY <2>8 DEF vars
  <2> QED
    BY <2>4, <2>5, <2>6, <2>7, <2>8 DEF Next
<1>2. Spec => [][Rests]_vars
  BY <1>1, AlwaysQuietInv, PTL DEF Spec
<1> QED
  BY <1>2 DEF QuietAfterClose

-----------------------------------------------------------------------------
(* The recorder implements the ledger.                                     *)

Returned == \E c \in Closers : closer[c] \in {"nil", "error"}

(* The steps of the ledger, in the terms of the recorder.                  *)
OpenRecords == (Requests \ At("serving"))
               \ (lost \cup IF Returned THEN At("queued") ELSE {})

LEMMA LedgerClosed == Ledger!Closed <=> Returned
BY DEF Ledger!Closed, Returned, Verdict

LEMMA LedgerOpen == Ledger!Open = OpenRecords
BY LedgerClosed DEF Ledger!Open, OpenRecords

(* A returned Close has seen the runner end, with the queue closed and     *)
(* nothing in its hands.                                                   *)
LEMMA NothingInHand ==
  ASSUME QuietInv, Returned
  PROVE  /\ runner = "done" /\ closed /\ At("sending") = {}
         /\ queue = {} /\ batch = {} /\ Pending(Runner) = {}
<1>1. runner = "done"
  BY DEF QuietInv, Ended, Returned
<1>2. flush[Runner] = Idle
  BY <1>1 DEF QuietInv, IInv, RunnerIdle
<1>3. Pending(Runner) = {}
  BY <1>2, IdleType, EmptyStack DEF Pending, Records
<1> QED
  BY <1>1, <1>3 DEF QuietInv, IInv, ClosedInv, NeverSendOnClosedQueue

(* What a flush holds may still be written or given up.                    *)
LEMMA PendingIsOpen ==
  ASSUME QuietInv, NEW w \in Workers
  PROVE  Pending(w) \subseteq OpenRecords
<1>1. Pending(w) \cap lost = {}
  BY DEF QuietInv, IInv, LostIsGone
<1>2. CASE w = Runner
  <2>1. Pending(w) \subseteq At("queued")
    BY <1>2 DEF QuietInv, IInv, OnePlace
  <2>2. Pending(w) \subseteq Requests \ At("serving")
    BY <2>1 DEF At
  <2> QED
    BY <1>1, <1>2, <2>2, NothingInHand DEF OpenRecords
<1>3. CASE w \in Requests
  <2>1. Pending(w) \subseteq At("flushing")
    BY <1>3 DEF QuietInv, IInv, OnePlace
  <2>2. Pending(w) \subseteq Requests \ (At("serving") \cup At("queued"))
    BY <2>1 DEF At
  <2> QED
    BY <1>1, <2>2 DEF OpenRecords
<1> QED
  BY <1>2, <1>3, WorkerFacts

LEMMA HeadPending ==
  ASSUME TypeInv, NEW w \in Workers, flush[w].todo # <<>>
  PROVE  Head(flush[w].todo) \subseteq Pending(w)
<1>1. flush[w].todo \in Seq(SUBSET Requests)
  BY DEF TypeInv, TypeOK, FlushState
<1>2. 1 \in DOMAIN flush[w].todo /\ Head(flush[w].todo) = flush[w].todo[1]
  BY <1>1
<1> QED
  BY <1>2 DEF Pending

LEMMA WriteIsWrite ==
  ASSUME QuietInv, NEW S, S \subseteq OpenRecords, RecordRequests(S),
         UNCHANGED <<pc, closer, dropped, lost>>
  PROVE  Ledger!Write(S)
<1>1. \A state : At(state)' = At(state)
  BY DEF At
<1>2. Verdict' = Verdict
  BY DEF Verdict
<1>3. usage \in [Requests -> Nat]
  BY DEF QuietInv, IInv, TypeInv, TypeOK
<1>4. \A r \in Requests :
        (IF r \in Inserted(S) \cap Attributed THEN usage[r] + 1 ELSE usage[r])
          = usage[r] + IF r \in (S \ db) \cap Attributed THEN 1 ELSE 0
  BY <1>3 DEF Inserted
<1>5. usage' = [r \in Requests |->
                  usage[r] + IF r \in (S \ db) \cap Attributed THEN 1 ELSE 0]
  BY <1>4 DEF RecordRequests
<1> QED
  BY <1>1, <1>2, <1>5, LedgerOpen DEF Ledger!Write, RecordRequests

LEMMA LoseIsDrop ==
  ASSUME QuietInv, NEW S, S \subseteq OpenRecords, Lose(S),
         UNCHANGED <<pc, closer, db, usage>>
  PROVE  Ledger!Drop(S)
<1>1. \A state : At(state)' = At(state)
  BY DEF At
<1>2. Verdict' = Verdict
  BY DEF Verdict
<1> QED
  BY <1>1, <1>2, LedgerOpen DEF Ledger!Drop, Ledger!GiveUp, Lose,
                                        Ledger!Cardinality, Cardinality

(* A step that moves nothing the ledger knows.                             *)
LEMMA LedgerStays ==
  ASSUME UNCHANGED <<db, usage, lost, dropped>>,
         At("serving")' = At("serving"), At("queued")' = At("queued"),
         At("fellback")' = At("fellback"), Verdict' = Verdict
  PROVE  UNCHANGED Ledger!ledgerVars
BY DEF Ledger!ledgerVars

LEMMA FlushStepOfLedger ==
  ASSUME QuietInv, NEW w \in Workers, FlushStep(w)
  PROVE  [Ledger!LedgerNext]_Ledger!ledgerVars
<1> DEFINE S == Head(flush[w].todo)
<1>1. UNCHANGED <<pc, closer>>
  BY DEF FlushStep, WriteOK, WriteDataError, WriteOtherError, Bisect, Retry, DropSegment
<1>2. (\A state : At(state)' = At(state)) /\ Verdict' = Verdict
  BY <1>1 DEF At, Verdict
<1>3. flush[w].todo # <<>>
  BY DEF QuietInv, IInv, TypeInv, FlushStep, WriteOK, WriteDataError, WriteOtherError,
         Bisect, Retry, DropSegment
<1>4. S \subseteq OpenRecords /\ S \in SUBSET Requests
  <2>1. TypeInv
    BY DEF QuietInv, IInv
  <2>2. S \subseteq OpenRecords
    BY <1>3, <2>1, HeadPending, PendingIsOpen
  <2> QED
    BY <2>2 DEF OpenRecords
<1> HIDE DEF S
<1>5. CASE RecordRequests(S) /\ UNCHANGED <<dropped, lost>>
  BY <1>1, <1>4, <1>5, WriteIsWrite DEF Ledger!LedgerNext
<1>6. CASE Lose(S) /\ UNCHANGED <<db, usage>>
  BY <1>1, <1>4, <1>6, LoseIsDrop DEF Ledger!LedgerNext
<1>7. CASE UNCHANGED <<db, usage, dropped, lost>>
  BY <1>2, <1>7, LedgerStays
<1> QED
  BY <1>5, <1>6, <1>7 DEF FlushStep, WriteOK, WriteDataError, WriteOtherError, Bisect, Retry,
                          DropSegment, lossVars, storeVars, S

LEMMA HandlerStepOfLedger ==
  ASSUME QuietInv, NEW r \in Requests, SubmitLock(r) \/ HandlerStep(r)
  PROVE  [Ledger!LedgerNext]_Ledger!ledgerVars
<1>1. TypeInv /\ pc \in [Requests -> PcStates] /\ pc[r] \in PcStates /\ OpenRecords \subseteq Requests
  BY DEF QuietInv, IInv, TypeInv, TypeOK, OpenRecords
<1>2. UNCHANGED <<closer, db, usage>> /\ Verdict' = Verdict
  BY DEF SubmitLock, HandlerStep, SubmitSend, FallbackEnter, FallbackFull, FallbackAcquire,
         FallbackGiveUp, FallbackReturn, RejectFallback, storeVars, Verdict
<1>3. CASE SubmitLock(r)
  <2>1. PICK next \in {"overflow", "sending"} : pc' = [pc EXCEPT ![r] = next]
    BY <1>3 DEF SubmitLock
  <2>2. /\ pc[r] = "serving" /\ UNCHANGED <<dropped, lost>>
        /\ next \in PcStates
    BY <1>3, <2>1 DEF SubmitLock, lossVars, PcStates
  <2>3. /\ r \in At("serving") /\ r \notin At("serving")'
        /\ \A q \in Requests \ {r} : pc'[q] = pc[q]
    BY <1>1, <2>1, <2>2 DEF At
  <2>4. At("queued")' = At("queued") /\ At("fellback")' = At("fellback")
    BY <1>1, <2>1, <2>2, AtMoves
  <2>5. (Requests \ At("serving"))' = (Requests \ At("serving")) \cup {r}
    BY <2>3 DEF At
  <2>6. Ledger!Take(r)
    BY <1>2, <2>2, <2>3, <2>4, <2>5 DEF Ledger!Take
  <2> QED
    BY <2>6 DEF Ledger!LedgerNext
<1>4. CASE SubmitSend(r) /\ pc' = [pc EXCEPT ![r] = "queued"]
  <2>1. pc[r] = "sending" /\ UNCHANGED <<dropped, lost>>
    BY <1>4 DEF SubmitSend, lossVars
  <2>2. /\ At("queued")' = At("queued") \cup {r}
        /\ At("serving")' = At("serving") /\ At("fellback")' = At("fellback")
    BY <1>1, <1>4, <2>1, AtMoves DEF PcStates
  <2>3. r \notin At("serving") /\ r \notin At("queued") /\ r \notin At("fellback") /\ r \in At("sending")
    BY <2>1 DEF At
  <2>4. ~Ledger!Closed
    BY <2>3, NothingInHand, LedgerClosed
  <2>5. Ledger!Accept(r)
    BY <1>2, <2>1, <2>2, <2>3, <2>4 DEF Ledger!Accept
  <2> QED
    BY <2>5 DEF Ledger!LedgerNext
<1>5. ASSUME NEW next \in {"overflow", "waiting", "flushing"},
             pc' = [pc EXCEPT ![r] = next],
             pc[r] \in {"sending", "overflow", "waiting"}, UNCHANGED <<dropped, lost>>
      PROVE  UNCHANGED Ledger!ledgerVars
  <2>1. next \in PcStates /\ next \notin {"serving", "queued", "fellback"}
    BY DEF PcStates
  <2>2. /\ At("queued")' = At("queued") /\ At("serving")' = At("serving")
        /\ At("fellback")' = At("fellback")
    BY <1>1, <1>5, <2>1, AtMoves
  <2> QED
    BY <1>2, <1>5, <2>2, LedgerStays
<1>6. CASE RejectFallback(r) /\ pc[r] \in {"overflow", "waiting"}
  <2>1. pc' = [pc EXCEPT ![r] = "fellback"] /\ Lose({r})
    BY <1>6 DEF RejectFallback
  <2>2. /\ At("fellback")' = At("fellback") \cup {r}
        /\ At("serving")' = At("serving") /\ At("queued")' = At("queued")
    BY <1>1, <1>6, <2>1, AtMoves DEF PcStates
  <2>3. r \notin At("serving") /\ r \notin At("queued") /\ r \notin At("fellback")
    BY <1>6 DEF At
  <2>4. r \notin lost
    BY <1>6, Nowhere DEF QuietInv
  <2>5. {r} \subseteq OpenRecords
    BY <2>3, <2>4 DEF OpenRecords
  <2>6. Ledger!GiveUp({r})
    BY <2>1, <2>5, LedgerOpen DEF Ledger!GiveUp, Lose, Ledger!Cardinality, Cardinality
  <2>7. Ledger!Finish(r)
    BY <1>2, <2>2, <2>3, <2>6 DEF Ledger!Finish
  <2> QED
    BY <2>7 DEF Ledger!LedgerNext
<1>7. CASE FallbackReturn(r)
  <2>1. /\ pc[r] = "flushing" /\ flush[r].todo = <<>> /\ pc' = [pc EXCEPT ![r] = "fellback"]
        /\ UNCHANGED <<dropped, lost>>
    BY <1>7 DEF FallbackReturn, lossVars
  <2>2. /\ At("fellback")' = At("fellback") \cup {r}
        /\ At("serving")' = At("serving") /\ At("queued")' = At("queued")
    BY <1>1, <2>1, AtMoves DEF PcStates
  <2>3. r \notin At("serving") /\ r \notin At("queued") /\ r \notin At("fellback")
    BY <2>1 DEF At
  <2>4. Pending(r) = {}
    BY <2>1, EmptyStack DEF Pending, Records
  <2>5. r \in db \cup lost
    BY <2>1, <2>4 DEF QuietInv, IInv, EveryRecordAccounted
  <2>6. Ledger!Finish(r)
    BY <1>2, <2>1, <2>2, <2>3, <2>5 DEF Ledger!Finish
  <2> QED
    BY <2>6 DEF Ledger!LedgerNext
<1> QED
  BY <1>3, <1>4, <1>5, <1>6, <1>7
  DEF HandlerStep, SubmitSend, FallbackEnter, FallbackFull, FallbackAcquire, FallbackGiveUp, lossVars

LEMMA RunStepOfLedger ==
  ASSUME QuietInv, RunStep
  PROVE  [Ledger!LedgerNext]_Ledger!ledgerVars
<1>1. UNCHANGED <<pc, closer, db, usage>> /\ runner # "done"
  BY DEF RunStep, RunTop, RunReceive, RunTick, RunQueueClosed, DropRemaining, RunFlushed,
         storeVars
<1>2. (\A state : At(state)' = At(state)) /\ Verdict' = Verdict
  BY <1>1 DEF At, Verdict
<1>3. CASE DropRemaining
  <2>1. Lose(Remaining)
    BY <1>3 DEF DropRemaining
  <2>2. /\ Remaining \subseteq At("queued") /\ Remaining \cap lost = {}
    BY DEF QuietInv, IInv, OnePlace, LostIsGone, Remaining
  <2>3. Remaining \subseteq Requests \ At("serving")
    BY <2>2 DEF At
  <2>4. ~Returned
    BY <1>1, NothingInHand
  <2>5. Remaining \subseteq OpenRecords /\ Remaining \in SUBSET Requests
    BY <2>2, <2>3, <2>4 DEF OpenRecords
  <2>6. Ledger!Drop(Remaining)
    BY <1>1, <2>1, <2>5, LoseIsDrop
  <2> QED
    BY <2>5, <2>6 DEF Ledger!LedgerNext
<1>4. CASE UNCHANGED <<dropped, lost>>
  BY <1>1, <1>2, <1>4, LedgerStays
<1> QED
  BY <1>3, <1>4 DEF RunStep, RunTop, RunReceive, RunTick, RunQueueClosed, RunFlushed, lossVars

(* A call of Close that returns.                                           *)
LEMMA ReturnOfLedger ==
  ASSUME QuietInv, NEW c \in Closers, NEW v \in {"nil", "error"},
         closer[c] \notin {"nil", "error"}, closer' = [closer EXCEPT ![c] = v],
         runner = "done", v = "nil" => At("queued") \subseteq db,
         UNCHANGED <<pc, db, usage, lost, dropped>>
  PROVE  Ledger!Return(c)
<1>1. \A state : At(state)' = At(state)
  BY DEF At
<1>2. flush[Runner] = Idle /\ queue = {} /\ batch = {}
  BY DEF QuietInv, IInv, RunnerIdle, ClosedInv
<1>3. Pending(Runner) = {}
  BY <1>2, IdleType, EmptyStack DEF Pending, Records
<1>4. At("queued") \subseteq db \cup lost
  BY <1>2, <1>3 DEF QuietInv, IInv, EveryRecordAccounted, At
<1>5. closer \in [Closers -> CloserStates]
  BY DEF QuietInv, IInv, TypeInv, TypeOK
<1>6. Verdict[c] = "none" /\ Verdict' = [Verdict EXCEPT ![c] = v]
  BY <1>5 DEF Verdict
<1> QED
  BY <1>1, <1>4, <1>6 DEF Ledger!Return

LEMMA CloserStepOfLedger ==
  ASSUME QuietInv, NEW c \in Closers, CloseStart(c) \/ CloserStep(c)
  PROVE  [Ledger!LedgerNext]_Ledger!ledgerVars
<1>1. UNCHANGED <<pc, db, usage, lost, dropped>>
  BY DEF CloseStart, CloserStep, CloseDone, CloseExpired, CloseJoin, storeVars, lossVars
<1>2. \A state : At(state)' = At(state)
  BY <1>1 DEF At
<1>3. closer \in [Closers -> CloserStates]
  BY DEF QuietInv, IInv, TypeInv, TypeOK
<1>4. CASE CloseStart(c) \/ CloseExpired(c)
  <2>1. PICK next \in {"waiting", "expired"} :
          closer[c] \in {"idle", "waiting"} /\ closer' = [closer EXCEPT ![c] = next]
    BY <1>4 DEF CloseStart, CloseExpired
  <2>2. Verdict' = Verdict
    BY <1>3, <2>1 DEF Verdict
  <2> QED
    BY <1>1, <1>2, <2>2, LedgerStays
<1>5. CASE CloseDone(c)
  <2> DEFINE v == IF flushErr THEN "error" ELSE "nil"
  <2>1. runner = "done" /\ closer[c] = "waiting" /\ closer' = [closer EXCEPT ![c] = v]
    BY <1>5 DEF CloseDone
  <2>2. v = "nil" => At("queued") \subseteq db
    <3>1. ASSUME v = "nil" PROVE At("queued") \subseteq db
      <4>1. IInv'
        BY NextIInv, <1>5 DEF QuietInv, Next, CloserStep
      <4>2. closer'[c] = "nil"
        BY <1>3, <2>1, <3>1
      <4>3. At("queued")' \subseteq db'
        BY <4>1, <4>2 DEF IInv, CloseNilMeansPersisted
      <4> QED
        BY <1>1, <1>2, <4>3
    <3> QED
      BY <3>1
  <2>3. v \in {"nil", "error"}
    OBVIOUS
  <2> HIDE DEF v
  <2>4. Ledger!Return(c)
    BY <1>1, <2>1, <2>2, <2>3, ReturnOfLedger
  <2> QED
    BY <2>4 DEF Ledger!LedgerNext
<1>6. CASE CloseJoin(c)
  <2>1. runner = "done" /\ closer[c] = "expired" /\ closer' = [closer EXCEPT ![c] = "error"]
    BY <1>6 DEF CloseJoin
  <2>2. Ledger!Return(c)
    BY <1>1, <2>1, ReturnOfLedger
  <2> QED
    BY <2>2 DEF Ledger!LedgerNext
<1> QED
  BY <1>4, <1>5, <1>6 DEF CloserStep

(* Whatever the recorder does with a record, its callers see the ledger's  *)
(* steps alone: a record is taken, written or given up, counted once, and  *)
(* decided before the fallback or a call of Close returns.                 *)
THEOREM RecorderKeepsLedger == Spec => KeepsLedger
<1>1. Init => Ledger!LedgerInit
  <2> SUFFICES ASSUME Init PROVE Ledger!LedgerInit
    OBVIOUS
  <2>1. Requests \ At("serving") = {} /\ At("queued") = {} /\ At("fellback") = {}
    BY DEF Init, At
  <2>2. Verdict = [c \in Closers |-> "none"]
    BY DEF Init, Verdict
  <2> QED
    BY <2>1, <2>2 DEF Init, Ledger!LedgerInit
<1>2. QuietInv /\ [Next]_vars => [Ledger!LedgerNext]_Ledger!ledgerVars
  <2> SUFFICES ASSUME QuietInv, [Next]_vars PROVE [Ledger!LedgerNext]_Ledger!ledgerVars
    OBVIOUS
  <2>1. CASE UNCHANGED vars
    <3>1. (\A state : At(state)' = At(state)) /\ Verdict' = Verdict
      BY <2>1 DEF vars, At, Verdict
    <3> QED
      BY <2>1, <3>1, LedgerStays DEF vars
  <2>2. CASE Next
    BY <2>2, HandlerStepOfLedger, FlushStepOfLedger, RunStepOfLedger, CloserStepOfLedger
    DEF Next
  <2> QED
    BY <2>1, <2>2
<1> QED
  BY <1>1, <1>2, AlwaysQuietInv, PTL DEF Spec, KeepsLedger, Ledger!LedgerSpec

-----------------------------------------------------------------------------
(***************************************************************************)
(* The shutdown of the process.  Its every step is one of the recorder or  *)
(* leaves the recorder alone, so what is proved of the recorder holds in   *)
(* the process too, and the invariants of the drain and of shutdownServer  *)
(* are added to it.                                                        *)
(***************************************************************************)

LEMMA DrainIsRecorder == [DrainNext]_allVars => [Next]_vars
BY MainAssumption
   DEF DrainNext, Enter, Record, Leave, Background, Begin, ServerShutdownOK,
       ServerShutdownTimeout, Settled, SettleTimeout, CloseLogs, Return, Next, allVars

(* The process uses the recorder as the recorder allows: record and Close  *)
(* are called by handlers and by main, and nothing else touches its state. *)
THEOREM ProcessImplementsRecorder == DrainSpec => Spec
<1>1. DrainInit => Init
  BY DEF DrainInit
<1> QED
  BY <1>1, DrainIsRecorder, PTL DEF DrainSpec, Spec

Admitted == {r \in Requests : request[r] = "admitted"}

(* The count of the drain is the number of handlers inside.                *)
DrainInv ==
  /\ request \in [Requests -> RequestStates]
  /\ active = Cardinality(Admitted)
  /\ closing \in BOOLEAN /\ phase \in Phases /\ (closing <=> phase # "running")
  /\ doneCloses = IF closing /\ Admitted = {} THEN 1 ELSE 0

LEMMA Counting ==
  ASSUME NEW S \in SUBSET Requests
  PROVE  /\ IsFiniteSet(S) /\ Cardinality(S) \in Nat
         /\ Cardinality(S) = 0 <=> S = {}
         /\ Cardinality(S) <= Cardinality(Requests)
         /\ \A r \in Requests \ S : Cardinality(S \cup {r}) = Cardinality(S) + 1
         /\ \A r \in S : Cardinality(S \ {r}) = Cardinality(S) - 1
<1>1. IsFiniteSet(S) /\ Cardinality(S) \in Nat
  BY RecordsFinite
<1>2. Cardinality(S) = 0 <=> S = {}
  BY <1>1, FS_EmptySet
<1>3. Cardinality(S) <= Cardinality(Requests)
  BY FS_Subset, RecorderAssumption
<1>4. \A r \in Requests \ S : Cardinality(S \cup {r}) = Cardinality(S) + 1
  BY <1>1, FS_AddElement
<1>5. \A r \in S : Cardinality(S \ {r}) = Cardinality(S) - 1
  BY <1>1, FS_RemoveElement
<1> QED
  BY <1>1, <1>2, <1>3, <1>4, <1>5

LEMMA DrainStep == DrainInv /\ [DrainNext]_allVars => DrainInv'
<1> SUFFICES ASSUME DrainInv, [DrainNext]_allVars PROVE DrainInv'
  OBVIOUS
<1> USE DEF DrainInv
<1>a. Admitted \in SUBSET Requests
  BY DEF Admitted
<1>u. ASSUME UNCHANGED request PROVE Admitted' = Admitted
  BY <1>u DEF Admitted
<1>1. ASSUME NEW r \in Requests, Enter(r) PROVE DrainInv'
  <2>1. CASE closing
    <3>1. request' = [request EXCEPT ![r] = "refused"]
          /\ UNCHANGED <<active, closing, doneCloses, phase>> /\ request[r] = "idle"
      BY <1>1, <2>1 DEF Enter
    <3>2. Admitted' = Admitted /\ request' \in [Requests -> RequestStates]
      BY <3>1 DEF Admitted, RequestStates
    <3> QED
      BY <3>1, <3>2
  <2>2. CASE ~closing
    <3>1. /\ request' = [request EXCEPT ![r] = "admitted"] /\ request[r] = "idle"
          /\ active' = active + 1 /\ UNCHANGED <<closing, doneCloses, phase>>
      BY <1>1, <2>2 DEF Enter
    <3>2. /\ Admitted' = Admitted \cup {r} /\ r \notin Admitted
          /\ request' \in [Requests -> RequestStates]
      BY <3>1 DEF Admitted, RequestStates
    <3>3. Cardinality(Admitted') = Cardinality(Admitted) + 1
      BY <1>a, <3>2, Counting
    <3> QED
      BY <2>2, <3>1, <3>2, <3>3
  <2> QED
    BY <2>1, <2>2
<1>2. ASSUME NEW r \in Requests, Leave(r) PROVE DrainInv'
  <2>1. /\ request[r] = "admitted" /\ request' = [request EXCEPT ![r] = "left"]
        /\ active' = active - 1 /\ UNCHANGED <<closing, phase>>
        /\ doneCloses' = IF closing /\ active = 1 THEN doneCloses + 1 ELSE doneCloses
    BY <1>2 DEF Leave, MayLeave, LastOut
  <2>2. /\ Admitted' = Admitted \ {r} /\ r \in Admitted
        /\ request' \in [Requests -> RequestStates]
    BY <2>1 DEF Admitted, RequestStates
  <2>3. Cardinality(Admitted') = Cardinality(Admitted) - 1
    BY <1>a, <2>2, Counting
  <2>4. /\ Cardinality(Admitted) \in Nat
        /\ Cardinality(Admitted) = 1 <=> Admitted' = {}
    <3>1. Admitted' \in SUBSET Requests
      BY <1>a, <2>2
    <3>2. Cardinality(Admitted') = 0 <=> Admitted' = {}
      BY <3>1, Counting
    <3>3. Cardinality(Admitted) \in Nat
      BY <1>a, Counting
    <3> QED
      BY <2>3, <3>2, <3>3
  <2>5. doneCloses = 0
    BY <2>2
  <2> QED
    BY <2>1, <2>2, <2>3, <2>4, <2>5
<1>3. CASE Begin
  <2>1. /\ phase = "running" /\ phase' = "grace" /\ closing' = TRUE /\ UNCHANGED <<request, active>>
        /\ doneCloses' = IF active = 0 THEN doneCloses + 1 ELSE doneCloses
    BY <1>3 DEF Begin, Drained
  <2>2. ~closing /\ doneCloses = 0
    BY <2>1
  <2>3. active = 0 <=> Admitted = {}
    BY <1>a, Counting
  <2>4. Admitted' = Admitted
    BY <1>u, <2>1
  <2> QED
    BY <2>1, <2>2, <2>3, <2>4 DEF Phases
<1>4. CASE UNCHANGED <<request, active, closing, doneCloses>>
           /\ phase # "running" /\ phase' \in Phases \ {"running"}
  BY <1>4, <1>u
<1>5. CASE UNCHANGED <<request, active, closing, doneCloses, phase>>
  BY <1>5, <1>u
<1>6. CASE ServerShutdownOK \/ ServerShutdownTimeout \/ Settled \/ SettleTimeout \/ Return
  BY <1>4, <1>6 DEF ServerShutdownOK, ServerShutdownTimeout, Settled, SettleTimeout,
                    Return, Phases
<1> QED
  BY <1>1, <1>2, <1>3, <1>5, <1>6
     DEF DrainNext, Record, Background, CloseLogs, allVars, drainVars

LEMMA AlwaysDrainInv == DrainSpec => []DrainInv
<1>1. DrainInit => DrainInv
  <2> SUFFICES ASSUME DrainInit PROVE DrainInv
    OBVIOUS
  <2>1. Admitted = {} /\ request \in [Requests -> RequestStates]
    BY DEF DrainInit, Admitted, RequestStates
  <2>2. Cardinality({}) = 0
    BY FS_EmptySet
  <2> QED
    BY <2>1, <2>2 DEF DrainInit, DrainInv, Phases
<1> QED
  BY <1>1, DrainStep, PTL DEF DrainSpec

(* A closing drain closes d.done exactly once, when the last handler is    *)
(* out, and not before: for any number of requests.                        *)
THEOREM DoneIsClosedOnce == DrainSpec => []DoneMeansDrained
<1>1. DrainInv => DoneMeansDrained
  BY DEF DrainInv, DoneMeansDrained, Admitted
<1> QED
  BY <1>1, AlwaysDrainInv, PTL

(* Types of the process: the count of the drain never exceeds the          *)
(* requests, and neither it nor the places of the recorder go wrong.       *)
THEOREM DrainTypeCorrect == DrainSpec => []DrainTypeOK
<1>1. DrainSpec => [](err \in BOOLEAN)
  <2>1. DrainInit => err \in BOOLEAN
    BY DEF DrainInit
  <2>2. err \in BOOLEAN /\ [DrainNext]_allVars => (err \in BOOLEAN)'
    <3>1. ASSUME err \in BOOLEAN, [DrainNext]_allVars PROVE err' \in BOOLEAN
      BY <3>1 DEF DrainNext, Enter, Record, Leave, Background, Begin, ServerShutdownOK,
                  ServerShutdownTimeout, Settled, SettleTimeout, CloseLogs, Return, Joined,
                  drainVars, allVars
    <3> QED
      BY <3>1
  <2> QED
    BY <2>1, <2>2, PTL DEF DrainSpec
<1>2. TypeOK /\ DrainInv /\ err \in BOOLEAN => DrainTypeOK
  <2> SUFFICES ASSUME TypeOK, DrainInv, err \in BOOLEAN PROVE DrainTypeOK
    OBVIOUS
  <2>1. Admitted \in SUBSET Requests /\ Requests \in SUBSET Requests
    BY DEF Admitted
  <2>2. /\ Cardinality(Admitted) \in Nat /\ Cardinality(Requests) \in Nat
        /\ Cardinality(Admitted) <= Cardinality(Requests)
    BY <2>1, Counting
  <2>3. active \in 0..Cardinality(Requests)
    BY <2>2 DEF DrainInv
  <2>4. doneCloses \in Nat
    BY DEF DrainInv
  <2> QED
    BY <2>3, <2>4 DEF DrainInv, DrainTypeOK
<1> QED
  BY <1>1, <1>2, AlwaysDrainInv, ProcessImplementsRecorder, TypeCorrect, PTL

(* What shutdownServer may conclude from the error it has joined so far.   *)
ShutdownInv ==
  /\ \A r \in Requests :
       request[r] # "admitted" => pc[r] \in {"serving", "queued", "fellback"}
  /\ phase \in {"settle", "flush", "returned"} /\ ~err => Admitted = {}
  /\ phase \in {"running", "grace", "settle"} => closer[Main] = "idle"
  /\ closer[Main] = "nil" /\ ~err => runner = "done" /\ ~flushErr
  /\ phase = "returned" /\ ~err => closer[Main] = "nil"

LEMMA ShutdownStep ==
  ASSUME QuietInv, DrainInv, ShutdownInv, [DrainNext]_allVars
  PROVE  ShutdownInv'
<1> USE DEF ShutdownInv
<1>t. /\ request \in [Requests -> RequestStates]
      /\ pc \in [Requests -> PcStates] /\ closer \in [Closers -> CloserStates]
      /\ Main \in Closers
  BY MainAssumption DEF QuietInv, IInv, TypeInv, TypeOK, DrainInv
<1>1. ASSUME NEW r \in Requests, Enter(r) PROVE ShutdownInv'
  <2>1. /\ request[r] = "idle" /\ UNCHANGED <<pc, phase, err, closer, runner, flushErr>>
        /\ \A q \in Requests : q # r => request'[q] = request[q]
    BY <1>1, <1>t DEF Enter, vars
  <2>2. phase \in {"settle", "flush", "returned"} => Admitted' = Admitted
    <3>1. ASSUME phase \in {"settle", "flush", "returned"} PROVE closing
      BY <3>1 DEF DrainInv
    <3>2. ASSUME closing PROVE Admitted' = Admitted
      <4>1. request' = [request EXCEPT ![r] = "refused"]
        BY <1>1, <3>2 DEF Enter
      <4> QED
        BY <1>t, <2>1, <4>1 DEF Admitted
    <3> QED
      BY <3>1, <3>2
  <2>3. \A q \in Requests : request'[q] # "admitted" => request[q] # "admitted"
    BY <2>1
  <2> QED
    BY <2>1, <2>2, <2>3
<1>2. ASSUME NEW r \in Requests, Record(r) PROVE ShutdownInv'
  <2>1. /\ request[r] = "admitted" /\ (SubmitLock(r) \/ HandlerStep(r))
        /\ UNCHANGED <<request, phase, err>>
    BY <1>2 DEF Record, drainVars
  <2>2. UNCHANGED <<closer, runner>> /\ \A q \in Requests : q # r => pc'[q] = pc[q]
    BY <2>1, <1>t DEF SubmitLock, HandlerStep, SubmitSend, FallbackEnter, FallbackFull,
                      FallbackAcquire, FallbackGiveUp, FallbackReturn, RejectFallback
  <2>3. Admitted' = Admitted /\ r \in Admitted
    BY <2>1 DEF Admitted
  <2>4. ~(phase \in {"settle", "flush", "returned"} /\ ~err)
    BY <2>3
  <2>5. closer[Main] # "nil" \/ err
    BY <2>4 DEF DrainInv, Phases
  <2> QED
    BY <2>1, <2>2, <2>3, <2>4, <2>5
<1>3. ASSUME NEW r \in Requests, Leave(r) PROVE ShutdownInv'
  <2>1. /\ UNCHANGED <<pc, phase, err, closer, runner, flushErr>>
        /\ pc[r] \in {"serving", "queued", "fellback"}
        /\ request' = [request EXCEPT ![r] = "left"]
    BY <1>3 DEF Leave, vars
  <2>2. Admitted' \subseteq Admitted
    BY <1>t, <2>1 DEF Admitted
  <2>3. \A q \in Requests : q # r => request'[q] = request[q]
    BY <1>t, <2>1
  <2> QED
    BY <2>1, <2>2, <2>3
<1>4. CASE Background
  <2>1. UNCHANGED <<pc, request, phase, err, closer>>
    BY <1>4 DEF Background, drainVars, RunStep, RunTop, RunReceive, RunTick, RunQueueClosed,
                DropRemaining, RunFlushed, FlushStep, WriteOK, WriteDataError,
                WriteOtherError, Bisect, Retry, DropSegment
  <2>2. Admitted' = Admitted
    BY <2>1 DEF Admitted
  <2>3. runner = "done" => UNCHANGED <<runner, flushErr>>
    BY <1>4 DEF Background, RunStep, RunTop, RunReceive, RunTick, RunQueueClosed,
                DropRemaining, RunFlushed, FlushStep, WriteOK, WriteDataError,
                WriteOtherError, Bisect, Retry, DropSegment
  <2> QED
    BY <2>1, <2>2, <2>3
<1>5. CASE CloseLogs
  <2>1. /\ phase = "flush" /\ UNCHANGED <<pc, request, phase, err, runner, flushErr>>
        /\ CloseStart(Main) \/ CloserStep(Main)
    BY <1>5 DEF CloseLogs, drainVars, CloseStart, CloserStep, CloseDone, CloseExpired,
                CloseJoin
  <2>2. Admitted' = Admitted
    BY <2>1 DEF Admitted
  <2>3. closer'[Main] = "nil" => runner = "done" /\ ~flushErr
    BY <2>1, <1>t DEF CloseStart, CloserStep, CloseDone, CloseExpired, CloseJoin
  <2> QED
    BY <2>1, <2>2, <2>3
<1>6. CASE Begin \/ ServerShutdownOK \/ ServerShutdownTimeout \/ Settled \/ SettleTimeout
  <2>1. /\ UNCHANGED <<pc, request, closer, runner, flushErr>>
        /\ phase \in {"running", "grace", "settle"} /\ phase' # "returned"
        /\ phase' = "flush" => phase = "settle"
    BY <1>6 DEF Begin, ServerShutdownOK, ServerShutdownTimeout, Settled, SettleTimeout, vars
  <2>2. Admitted' = Admitted
    BY <2>1 DEF Admitted
  <2>3. phase' \in {"settle", "flush"} /\ ~err' => Admitted = {}
    BY <1>6 DEF Begin, ServerShutdownOK, ServerShutdownTimeout, Settled, SettleTimeout,
                Admitted
  <2> QED
    BY <2>1, <2>2, <2>3
<1>7. CASE Return
  <2>1. /\ phase = "flush" /\ phase' = "returned"
        /\ UNCHANGED <<pc, request, closer, runner, flushErr>>
        /\ closer[Main] \in {"nil", "error"}
        /\ ~err' => ~err /\ closer[Main] # "error"
    BY <1>7 DEF Return, Joined, vars
  <2>2. Admitted' = Admitted
    BY <2>1 DEF Admitted
  <2> QED
    BY <2>1, <2>2
<1>8. CASE UNCHANGED allVars
  BY <1>8 DEF allVars, vars, drainVars, Admitted
<1> QED
  BY <1>1, <1>2, <1>3, <1>4, <1>5, <1>6, <1>7, <1>8 DEF DrainNext

(* When shutdownServer returns nil, every request that reached record is   *)
(* a row of request_logs, none was lost, and nobody is left who could use  *)
(* the database pool that main closes next.                                *)
THEOREM NilExitLosesNothing == DrainSpec => []NilExitIsClean
<1>1. DrainInit => ShutdownInv
  <2> SUFFICES ASSUME DrainInit PROVE ShutdownInv
    OBVIOUS
  <2>1. closer[Main] = "idle" /\ \A r \in Requests : pc[r] = "serving"
    BY MainAssumption DEF DrainInit, Init
  <2> QED
    BY <2>1 DEF DrainInit, ShutdownInv
<1>2. QuietInv /\ DrainInv /\ ShutdownInv => NilExitIsClean
  <2> SUFFICES ASSUME QuietInv, DrainInv, ShutdownInv, phase = "returned", ~err
               PROVE  /\ lost = {}
                      /\ \A r \in Requests : pc[r] # "serving" => r \in db
                      /\ runner = "done"
                      /\ \A r \in Requests : request[r] # "admitted"
                      /\ \A w \in Workers : Pending(w) = {}
    BY DEF NilExitIsClean
  <2>1. /\ runner = "done" /\ ~flushErr /\ Admitted = {}
    BY DEF ShutdownInv
  <2>2. \A r \in Requests :
          request[r] # "admitted" /\ pc[r] \in {"serving", "queued", "fellback"}
    BY <2>1 DEF Admitted, ShutdownInv
  <2>3. \A w \in Workers : flush[w] = Idle
    BY <2>1, <2>2, WorkerFacts DEF QuietInv, HandlerIdle, IInv, RunnerIdle
  <2>4. \A w \in Workers : Pending(w) = {}
    BY <2>3, IdleType, EmptyStack DEF Pending, Records
  <2>5. lost = {}
    BY <2>1, <2>3, NothingFailedYet DEF QuietInv, LossKnown
  <2>6. queue = {} /\ batch = {}
    BY <2>1 DEF QuietInv, IInv, ClosedInv
  <2>7. EveryRecordAccounted
    BY DEF QuietInv, IInv
  <2>8. \A r \in Requests : pc[r] # "serving" => r \in db
    BY <2>2, <2>4, <2>5, <2>6, <2>7, WorkerFacts DEF EveryRecordAccounted
  <2> QED
    BY <2>1, <2>2, <2>4, <2>5, <2>8
<1>3. DrainSpec => []QuietInv
  BY ProcessImplementsRecorder, AlwaysQuietInv, PTL
<1>4. QuietInv /\ DrainInv /\ ShutdownInv /\ [DrainNext]_allVars => ShutdownInv'
  BY ShutdownStep
<1> QED
  BY <1>1, <1>2, <1>3, <1>4, AlwaysDrainInv, PTL DEF DrainSpec

=============================================================================
