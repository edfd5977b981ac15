--------------------------- MODULE RequestProofs ----------------------------
(***************************************************************************)
(* Proofs about what a request takes and what it leaves: RequestAdmission, *)
(* for any number of handlers, any keys and any limits, and RequestCosts,  *)
(* for any prices, any requests and any change of them.                    *)
(*                                                                         *)
(* Both count.  A budget and a row of the ledger are sums, written as a    *)
(* fold over a finite set; what is needed of a sum is how it follows a     *)
(* change (SumChange, TotalChange).  Neither recursion nor induction is at *)
(* hand: among the sets for which a claim fails, one contains no other     *)
(* (LeastSet), and that one it cannot fail for.                            *)
(*                                                                         *)
(* Admission.  Where a handler stands says what it may hold (Places); the  *)
(* gate counts who stands inside, and a budget is the sum of what is held. *)
(* The rate of a minute rests on where the key's entry stands: a minute    *)
(* that is not in the past and not in the entry has only used up what late *)
(* calls allow.                                                            *)
(*                                                                         *)
(* Costs.  A cached window ends where the next price begins or ends, so no *)
(* price changes inside it; a profile saved as of now touches no row that  *)
(* was valid before now; the sums follow the charges log by log, where no  *)
(* sum was cleaned up (Rebuilt); and the query and calculateRequestCost    *)
(* are one formula for the usages requests are logged with.                *)
(***************************************************************************)
EXTENDS RequestAdmission, RequestCosts, FiniteSetTheorems, SequenceTheorems,
        WellFoundedInduction, TLAPS

-----------------------------------------------------------------------------
(* Sums.                                                                   *)

(* g gives the sums of f over the subsets of S.                            *)
Adds(g, f, S) ==
  /\ g \in [SUBSET S -> Int] /\ g[{}] = 0
  /\ \A T \in SUBSET S : \A x \in T : g[T] = f[x] + g[T \ {x}]

Chosen(T) == CHOOSE x \in T : TRUE

(* The equation of the fold.                                               *)
Folds(g, f, S) ==
  g = [T \in SUBSET S |-> IF T = {} THEN 0 ELSE f[Chosen(T)] + g[T \ {Chosen(T)}]]

LEMMA TotalIsAFold == \A f, S : Total(f, S) = (CHOOSE g : Folds(g, f, S))[S]
BY DEF Total, FoldFunctionOnSet, MapThenFoldSet, Folds, Chosen

(* Among the sets of a collection one contains no other.                   *)
LEMMA LeastSet ==
  ASSUME NEW S, IsFiniteSet(S), NEW B \in SUBSET (SUBSET S), B # {}
  PROVE  \E T \in B : \A U \in B : U \subseteq T => U = T
<1>1. IsWellFoundedOn(StrictSubsetOrdering(S), FiniteSubsetsOf(S))
  BY FS_StrictSubsetOrderingWellFounded
<1>2. B \subseteq FiniteSubsetsOf(S)
  BY FS_Subset DEF FiniteSubsetsOf
<1>3. PICK T \in B : \A U \in B : <<U, T>> \notin StrictSubsetOrdering(S)
  BY <1>1, <1>2, WFMin
<1>4. \A U \in B : U \subseteq T => U = T
  BY <1>3 DEF StrictSubsetOrdering
<1> QED
  BY <1>4

LEMMA AddsExists ==
  ASSUME NEW S, IsFiniteSet(S), NEW f, \A x \in S : f[x] \in Int
  PROVE  \E g : Adds(g, f, S)
<1> DEFINE B == {T \in SUBSET S : ~ \E g : Adds(g, f, T)}
<1>1. SUFFICES ASSUME B # {} PROVE FALSE
  OBVIOUS
<1>2. PICK T \in B : \A U \in B : U \subseteq T => U = T
  <2>1. B \in SUBSET (SUBSET S)
    OBVIOUS
  <2> HIDE DEF B
  <2> QED
    BY <1>1, <2>1, LeastSet
<1>3. CASE T = {}
  <2>1. Adds([U \in SUBSET {} |-> 0], f, {})
    BY DEF Adds
  <2> QED
    BY <1>2, <1>3, <2>1
<1>4. CASE T # {}
  <2>1. PICK x \in T : TRUE
    BY <1>4
  <2>2. T \ {x} \in SUBSET S /\ T \ {x} \notin B /\ x \in S
    BY <1>2, <2>1
  <2>3. PICK g : Adds(g, f, T \ {x})
    BY <2>2
  <2> DEFINE G == [U \in SUBSET T |-> IF x \in U THEN f[x] + g[U \ {x}] ELSE g[U]]
  <2>4. /\ g \in [SUBSET (T \ {x}) -> Int] /\ g[{}] = 0
        /\ \A U \in SUBSET (T \ {x}) : \A y \in U : g[U] = f[y] + g[U \ {y}]
    BY <2>3 DEF Adds
  <2>5. f[x] \in Int
    BY <2>2
  <2>6. ASSUME NEW U \in SUBSET T
        PROVE  (IF x \in U THEN f[x] + g[U \ {x}] ELSE g[U]) \in Int
    <3>1. CASE x \in U
      <4>1. U \ {x} \in SUBSET (T \ {x})
        OBVIOUS
      <4> QED
        BY <3>1, <4>1, <2>4, <2>5
    <3>2. CASE x \notin U
      <4>1. U \in SUBSET (T \ {x})
        BY <3>2
      <4> QED
        BY <3>2, <4>1, <2>4
    <3> QED
      BY <3>1, <3>2
  <2>7. G \in [SUBSET T -> Int] /\ G[{}] = 0
    BY <2>4, <2>6
  <2>8. ASSUME NEW U \in SUBSET T, NEW y \in U PROVE G[U] = f[y] + G[U \ {y}]
    <3>0. U \ {y} \in SUBSET T
      OBVIOUS
    <3>1. CASE x \notin U
      <4>1. U \in SUBSET (T \ {x}) /\ x \notin U \ {y}
        BY <3>1
      <4> QED
        BY <3>0, <3>1, <4>1, <2>4
    <3>2. CASE x = y
      BY <3>0, <3>2
    <3>3. CASE x \in U /\ x # y
      <4>1. /\ U \ {x} \in SUBSET (T \ {x}) /\ y \in U \ {x} /\ x \in U \ {y}
            /\ (U \ {x}) \ {y} = (U \ {y}) \ {x}
            /\ (U \ {x}) \ {y} \in SUBSET (T \ {x})
        BY <3>3
      <4>2. g[U \ {x}] = f[y] + g[(U \ {y}) \ {x}] /\ g[(U \ {y}) \ {x}] \in Int
        <5>1. g[U \ {x}] = f[y] + g[(U \ {x}) \ {y}]
          BY <4>1, <2>4
        <5>2. g[(U \ {x}) \ {y}] \in Int
          BY <4>1, <2>4
        <5> QED
          BY <4>1, <5>1, <5>2, Zenon
      <4>3. G[U] = f[x] + g[U \ {x}] /\ G[U \ {y}] = f[x] + g[(U \ {y}) \ {x}]
        BY <3>0, <3>3, <4>1
      <4>4. f[y] \in Int
        BY <2>2
      <4>5. f[x] + (f[y] + g[(U \ {y}) \ {x}]) = f[y] + (f[x] + g[(U \ {y}) \ {x}])
        BY <4>2, <4>4, <2>5
      <4> HIDE DEF G
      <4> QED
        BY <4>2, <4>3, <4>5, Zenon
    <3> QED
      BY <3>1, <3>2, <3>3
  <2>9. Adds(G, f, T)
    BY <2>7, <2>8 DEF Adds
  <2> QED
    BY <1>2, <2>9
<1> QED
  BY <1>3, <1>4

(* Whatever order the fold takes, it adds.                                 *)
LEMMA FoldAdds ==
  ASSUME NEW S, IsFiniteSet(S), NEW f, NEW g, Adds(g, f, S), NEW i, Folds(i, f, S)
  PROVE  i = g
<1>1. \A T \in SUBSET S : T # {} => Chosen(T) \in T
  BY DEF Chosen
<1> DEFINE B == {T \in SUBSET S : i[T] # g[T]}
<1>2. SUFFICES ASSUME B # {} PROVE FALSE
  BY DEF Adds, Folds
<1>3. PICK T \in B : \A U \in B : U \subseteq T => U = T
  <2>1. B \in SUBSET (SUBSET S)
    OBVIOUS
  <2> HIDE DEF B
  <2> QED
    BY <1>2, <2>1, LeastSet
<1>4. i[T] = IF T = {} THEN 0 ELSE f[Chosen(T)] + i[T \ {Chosen(T)}]
  BY DEF Folds
<1>5. CASE T = {}
  BY <1>3, <1>4, <1>5 DEF Adds
<1>6. CASE T # {}
  <2>1. Chosen(T) \in T
    BY <1>1, <1>6
  <2>2. T \ {Chosen(T)} \in SUBSET S /\ T \ {Chosen(T)} \notin B
    BY <1>3, <2>1
  <2>3. i[T \ {Chosen(T)}] = g[T \ {Chosen(T)}]
    BY <2>2
  <2>4. g[T] = f[Chosen(T)] + g[T \ {Chosen(T)}]
    BY <2>1 DEF Adds
  <2> QED
    BY <1>3, <1>4, <1>6, <2>3, <2>4
<1> QED
  BY <1>5, <1>6

LEMMA AddsFold ==
  ASSUME NEW S, NEW f, \A x \in S : f[x] \in Int, NEW g, Adds(g, f, S)
  PROVE  Folds(g, f, S)
<1>1. \A T \in SUBSET S : T # {} => Chosen(T) \in T
  BY DEF Chosen
<1>2. ASSUME NEW T \in SUBSET S
      PROVE  g[T] = IF T = {} THEN 0 ELSE f[Chosen(T)] + g[T \ {Chosen(T)}]
  BY <1>1 DEF Adds
<1> QED
  BY <1>2 DEF Adds, Folds

LEMMA TotalIs ==
  ASSUME NEW S, IsFiniteSet(S), NEW f, \A x \in S : f[x] \in Int, NEW g, Adds(g, f, S)
  PROVE  Total(f, S) = g[S]
<1>1. Folds(CHOOSE i : Folds(i, f, S), f, S)
  BY AddsFold
<1>2. (CHOOSE i : Folds(i, f, S)) = g
  BY <1>1, FoldAdds
<1> QED
  BY <1>2, TotalIsAFold

LEMMA TotalOn ==
  ASSUME NEW S, IsFiniteSet(S), NEW f, \A x \in S : f[x] \in Int,
         NEW g, Adds(g, f, S), NEW T \in SUBSET S
  PROVE  Total(f, T) = g[T]
<1> DEFINE h == [U \in SUBSET T |-> g[U]]
<1>1. SUBSET T \subseteq SUBSET S
  OBVIOUS
<1>2. Adds(h, f, T)
  BY <1>1 DEF Adds
<1>3. IsFiniteSet(T) /\ h[T] = g[T]
  BY FS_Subset
<1> HIDE DEF h
<1> QED
  BY <1>2, <1>3, TotalIs

LEMMA TotalFacts ==
  ASSUME NEW S, IsFiniteSet(S), NEW f, \A x \in S : f[x] \in Int
  PROVE  /\ Total(f, S) \in Int
         /\ Total(f, {}) = 0
         /\ \A x \in S : Total(f, S) = f[x] + Total(f, S \ {x})
<1>1. PICK g : Adds(g, f, S)
  BY AddsExists
<1>2. \A T \in SUBSET S : Total(f, T) = g[T]
  BY <1>1, TotalOn
<1>3. S \in SUBSET S /\ {} \in SUBSET S /\ \A x \in S : S \ {x} \in SUBSET S
  OBVIOUS
<1>4. /\ g \in [SUBSET S -> Int] /\ g[{}] = 0
      /\ \A x \in S : g[S] = f[x] + g[S \ {x}]
  BY <1>1, <1>3 DEF Adds
<1> QED
  BY <1>2, <1>3, <1>4

(* Values that change by d on a part of a set change the total by that     *)
(* of d.                                                                   *)
LEMMA TotalChange ==
  ASSUME NEW S, IsFiniteSet(S), NEW C \in SUBSET S, NEW f, NEW h, NEW d,
         \A x \in S : f[x] \in Int, \A x \in C : d[x] \in Int,
         \A x \in S : h[x] = IF x \in C THEN f[x] + d[x] ELSE f[x]
  PROVE  Total(h, S) = Total(f, S) + Total(d, C)
<1>0. IsFiniteSet(C)
  BY FS_Subset
<1>1. PICK g : Adds(g, f, S)
  BY AddsExists
<1>2. PICK e : Adds(e, d, C)
  BY <1>0, AddsExists
<1> DEFINE G == [U \in SUBSET S |-> g[U] + e[U \cap C]]
<1>3. \A U \in SUBSET S : g[U] \in Int /\ U \cap C \in SUBSET C /\ e[U \cap C] \in Int
  BY <1>1, <1>2 DEF Adds
<1>4. G \in [SUBSET S -> Int] /\ G[{}] = 0
  <2>1. {} \cap C = {} /\ {} \in SUBSET S
    OBVIOUS
  <2>2. g[{}] = 0 /\ e[{}] = 0
    BY <1>1, <1>2 DEF Adds
  <2>3. G[{}] = 0
    BY <2>1, <2>2
  <2> QED
    BY <1>3, <2>3
<1>5. ASSUME NEW U \in SUBSET S, NEW x \in U PROVE G[U] = h[x] + G[U \ {x}]
  <2>1. U \ {x} \in SUBSET S /\ x \in S
    OBVIOUS
  <2>2. g[U] = f[x] + g[U \ {x}]
    BY <1>1 DEF Adds
  <2>3. CASE x \in C
    <3>1. (U \ {x}) \cap C = (U \cap C) \ {x} /\ x \in U \cap C /\ U \cap C \in SUBSET C
      BY <2>3
    <3>2. e[U \cap C] = d[x] + e[(U \cap C) \ {x}]
      BY <1>2, <3>1 DEF Adds
    <3>3. G[U] = g[U] + e[U \cap C] /\ G[U \ {x}] = g[U \ {x}] + e[(U \cap C) \ {x}]
      BY <2>1, <3>1
    <3>4. f[x] \in Int /\ d[x] \in Int /\ h[x] = f[x] + d[x] /\ g[U \ {x}] \in Int
      BY <1>3, <2>1, <2>3
    <3>5. e[(U \cap C) \ {x}] \in Int
      BY <1>3, <2>1, <3>1
    <3> HIDE DEF G
    <3> QED
      BY <2>2, <3>2, <3>3, <3>4, <3>5
  <2>4. CASE x \notin C
    <3>1. (U \ {x}) \cap C = U \cap C
      BY <2>4
    <3>2. G[U] = g[U] + e[U \cap C] /\ G[U \ {x}] = g[U \ {x}] + e[U \cap C]
      BY <2>1, <3>1
    <3>3. f[x] \in Int /\ h[x] = f[x] /\ g[U \ {x}] \in Int /\ e[U \cap C] \in Int
      BY <1>3, <2>1, <2>4
    <3> HIDE DEF G
    <3> QED
      BY <2>2, <3>2, <3>3
  <2> QED
    BY <2>3, <2>4
<1>6. Adds(G, h, S)
  BY <1>4, <1>5 DEF Adds
<1>7. \A x \in S : h[x] \in Int
  OBVIOUS
<1>8. G[S] = g[S] + e[C]
  <2>1. S \cap C = C
    OBVIOUS
  <2> QED
    BY <2>1
<1>9. Total(f, S) = g[S] /\ Total(d, C) = e[C]
  BY <1>0, <1>1, <1>2, TotalIs
<1>10. Total(h, S) = G[S]
  <2> HIDE DEF G
  <2> QED
    BY <1>6, <1>7, TotalIs
<1> QED
  BY <1>8, <1>9, <1>10

LEMMA TotalSame ==
  ASSUME NEW S, IsFiniteSet(S), NEW f, NEW h,
         \A x \in S : f[x] \in Int, \A x \in S : h[x] = f[x]
  PROVE  Total(h, S) = Total(f, S)
<1>1. PICK g : Adds(g, f, S)
  BY AddsExists
<1>2. Adds(g, h, S)
  BY <1>1 DEF Adds
<1>3. \A x \in S : h[x] \in Int
  OBVIOUS
<1> QED
  BY <1>1, <1>2, <1>3, TotalIs

(* What is added is no debt.                                               *)
LEMMA TotalIsNat ==
  ASSUME NEW S, IsFiniteSet(S), NEW f, \A x \in S : f[x] \in Nat
  PROVE  Total(f, S) \in Nat
<1> DEFINE B == {T \in SUBSET S : Total(f, T) \notin Nat}
<1>1. SUFFICES ASSUME B # {} PROVE FALSE
  OBVIOUS
<1>2. PICK T \in B : \A U \in B : U \subseteq T => U = T
  <2>1. B \in SUBSET (SUBSET S)
    OBVIOUS
  <2> HIDE DEF B
  <2> QED
    BY <1>1, <2>1, LeastSet
<1>3. IsFiniteSet(T) /\ \A x \in T : f[x] \in Nat
  BY <1>2, FS_Subset
<1>4. PICK x \in T : TRUE
  <2>1. Total(f, {}) = 0
    <3>1. \A x \in S : f[x] \in Int
      OBVIOUS
    <3> QED
      BY <3>1, TotalFacts
  <2>2. Total(f, T) \notin Nat
    BY <1>2
  <2>3. T # {}
    BY <2>1, <2>2
  <2> QED
    BY <2>3
<1>5. T \ {x} \notin B /\ T \ {x} \in SUBSET S
  BY <1>2, <1>4
<1>6. Total(f, T \ {x}) \in Nat
  BY <1>5
<1>7. Total(f, T) = f[x] + Total(f, T \ {x})
  BY <1>3, <1>4, TotalFacts
<1> QED
  BY <1>2, <1>3, <1>4, <1>6, <1>7

-----------------------------------------------------------------------------
(* The sum of a function, for the budgets.                                 *)

LEMMA SumIsTotal == \A f : Sum(f) = Total(f, DOMAIN f)
BY DEF Sum, Total, FoldFunction

(* A change of one value changes the sum by the difference.                *)
LEMMA SumChange ==
  ASSUME NEW S, IsFiniteSet(S), NEW f \in [S -> Nat], NEW x \in S
  PROVE  \E rest \in Nat :
           /\ Sum(f) = f[x] + rest
           /\ \A v \in Nat : Sum([f EXCEPT ![x] = v]) = v + rest
<1> DEFINE rest == Total(f, S \ {x})
<1>1. \A y \in S : f[y] \in Int
  OBVIOUS
<1>2. Sum(f) = f[x] + rest
  BY <1>1, SumIsTotal, TotalFacts
<1>3. rest \in Nat
  <2>1. IsFiniteSet(S \ {x}) /\ \A y \in S \ {x} : f[y] \in Nat
    BY FS_RemoveElement
  <2> QED
    BY <2>1, TotalIsNat
<1>4. ASSUME NEW v \in Nat PROVE Sum([f EXCEPT ![x] = v]) = v + rest
  <2> DEFINE F == [f EXCEPT ![x] = v]
  <2>1. F[x] = v /\ DOMAIN F = S /\ \A y \in S \ {x} : F[y] = f[y] /\ f[y] \in Int
    OBVIOUS
  <2>2. \A y \in S : F[y] \in Int
    OBVIOUS
  <2>3. IsFiniteSet(S \ {x})
    BY FS_RemoveElement
  <2> HIDE DEF F
  <2>4. Total(F, S \ {x}) = rest
    BY <2>1, <2>3, TotalSame
  <2>5. Sum(F) = F[x] + Total(F, S \ {x})
    BY <2>1, <2>2, SumIsTotal, TotalFacts
  <2> QED
    BY <2>1, <2>4, <2>5 DEF F
<1> QED
  BY <1>2, <1>3, <1>4

LEMMA SumOfZeros ==
  ASSUME NEW S, IsFiniteSet(S) PROVE Sum([x \in S |-> 0]) = 0
<1> DEFINE f == [x \in S |-> 0]
           g == [U \in SUBSET S |-> 0]
<1>1. Adds(g, f, S)
  BY DEF Adds
<1>2. DOMAIN f = S /\ (\A x \in S : f[x] \in Int) /\ g[S] = 0
  OBVIOUS
<1> HIDE DEF f, g
<1>3. Sum(f) = 0
  BY <1>1, <1>2, TotalIs, SumIsTotal
<1> QED
  BY <1>3 DEF f

-----------------------------------------------------------------------------
(* Admission: the inductive invariant.                                     *)

Outside == {"idle", "auth", "known"}
HasBody == {"body", "attempt", "reading", "growing", "buffered", "freeBuffer",
            "freeBody"}
HasBuffer == {"reading", "growing", "buffered", "freeBuffer"}

(* What a handler may hold, by where it stands.                            *)
Places ==
  \A h \in Handlers :
    /\ pc[h] \notin {"idle", "auth"} => key[h] \in Keys
    /\ bodyHeld[h] # 0 => pc[h] \in HasBody
    /\ respHeld[h] # 0 => pc[h] \in HasBuffer
    /\ respNext[h] # 0 => pc[h] = "growing"

Allowance(k) == MaxPerMinute * late[k]

(* How many of a key have passed in a minute: none in one that has not     *)
(* begun; in the one its entry counts, what the entry says, besides what   *)
(* late calls allow; in one that may still be called in time, and has no   *)
(* entry, no more than late calls allow.                                   *)
Limited ==
  \A k \in Keys : \A m \in Minutes :
    /\ m > latest => passed[k][m] = 0
    /\ passed[k][m] <= Allowance(k) + MaxPerMinute
    /\ rate[k].minute = m => passed[k][m] <= Allowance(k) + rate[k].count
    /\ rate[k].minute # m /\ m >= latest => passed[k][m] <= Allowance(k)

IInv == TypeOK /\ Places /\ GateIsExact /\ BudgetsAreExact /\ Limited

(* What changes only where a handler stands.                               *)
Moves(h) ==
  \/ Arrive(h) \/ Unauthenticated(h) \/ ListModels(h) \/ BodyRefuse(h) \/ Routed(h)
  \/ AttemptEnds(h) \/ StartReading(h) \/ ReadDone(h) \/ Deliver(h)

USE DEF gateVars, rateVars, bodyVars, respVars, Goto

LEMMA MoveEffect ==
  ASSUME NEW h \in Handlers, Moves(h)
  PROVE  \E next \in PcStates :
           /\ pc' = [pc EXCEPT ![h] = next]
           /\ pc[h] \in Outside <=> next \in Outside
           /\ next \notin {"idle", "auth"} => pc[h] \notin {"idle", "auth"}
           /\ pc[h] \in HasBody => next \in HasBody
           /\ pc[h] \in HasBuffer => next \in HasBuffer
           /\ pc[h] # "growing"
           /\ UNCHANGED <<key, gateVars, rateVars, clock, stamp, bodyVars, respVars>>
<1> USE DEF PcStates, Outside, HasBody, HasBuffer
<1>1. CASE Arrive(h) \/ Unauthenticated(h)
  BY <1>1 DEF Arrive, Unauthenticated
<1>2. CASE ListModels(h) \/ BodyRefuse(h)
  BY <1>2 DEF ListModels, BodyRefuse
<1>3. CASE Routed(h) \/ AttemptEnds(h)
  BY <1>3 DEF Routed, AttemptEnds
<1>4. CASE StartReading(h) \/ ReadDone(h) \/ Deliver(h)
  BY <1>4 DEF StartReading, ReadDone, Deliver
<1> QED
  BY <1>1, <1>2, <1>3, <1>4 DEF Moves

(* The steps, with those together that only move a handler.                *)
LEMMA Steps ==
  ASSUME [Next]_vars
  PROVE  \/ UNCHANGED vars \/ Tick
         \/ \E h \in Handlers :
              \/ Moves(h) \/ Authenticated(h)
              \/ GateAcquire(h) \/ GateRefuse(h) \/ GateRelease(h)
              \/ ReadClock(h) \/ RateAllow(h) \/ RateRefuse(h)
              \/ BodyAcquire(h) \/ BodyRelease(h)
              \/ GrowAcquire(h) \/ GrowRelease(h) \/ GrowRefused(h)
              \/ ReadFails(h) \/ BufferRelease(h)
BY DEF Next, Admit, Serve, Moves

-----------------------------------------------------------------------------
(* The budgets.                                                            *)

LEMMA HeldIsNat ==
  ASSUME TypeOK
  PROVE  /\ bodyHeld \in [Handlers -> Nat] /\ respHeld \in [Handlers -> Nat]
         /\ respNext \in [Handlers -> Nat]
         /\ bodyUsed \in Nat /\ respUsed \in Nat /\ BodyLimit \in Nat
         /\ ResponseLimit \in Nat /\ ResponseMax \in Nat /\ 0 \in 0..ResponseMax
<1>1. Reservations \cup {0} \subseteq Nat /\ 0..ResponseMax \subseteq Nat
  BY AdmissionAssumption
<1>2. bodyHeld \in [Handlers -> Nat]
  BY <1>1 DEF TypeOK
<1>3. respHeld \in [Handlers -> Nat] /\ respNext \in [Handlers -> Nat]
  BY <1>1 DEF TypeOK
<1> QED
  BY <1>2, <1>3, AdmissionAssumption DEF TypeOK

(* A reservation is part of what the budget counts.                        *)
LEMMA BodyPart ==
  ASSUME TypeOK, BudgetsAreExact, NEW h \in Handlers
  PROVE  \E rest \in Nat :
           /\ bodyUsed = bodyHeld[h] + rest
           /\ \A n \in Nat : Sum([bodyHeld EXCEPT ![h] = n]) = n + rest
BY HeldIsNat, SumChange, AdmissionAssumption DEF BudgetsAreExact

LEMMA ResponsePart ==
  ASSUME TypeOK, BudgetsAreExact, NEW h \in Handlers
  PROVE  \E rest \in Nat, others \in Nat :
           /\ respUsed = (respHeld[h] + rest) + (respNext[h] + others)
           /\ Sum(respHeld) = respHeld[h] + rest /\ Sum(respNext) = respNext[h] + others
           /\ \A n \in Nat : Sum([respHeld EXCEPT ![h] = n]) = n + rest
           /\ \A n \in Nat : Sum([respNext EXCEPT ![h] = n]) = n + others
<1>1. PICK rest \in Nat : /\ Sum(respHeld) = respHeld[h] + rest
                          /\ \A n \in Nat : Sum([respHeld EXCEPT ![h] = n]) = n + rest
  BY HeldIsNat, SumChange, AdmissionAssumption
<1>2. PICK others \in Nat : /\ Sum(respNext) = respNext[h] + others
                            /\ \A n \in Nat : Sum([respNext EXCEPT ![h] = n]) = n + others
  BY HeldIsNat, SumChange, AdmissionAssumption
<1>3. respUsed = (respHeld[h] + rest) + (respNext[h] + others)
  BY <1>1, <1>2 DEF BudgetsAreExact
<1> QED
  BY <1>1, <1>2, <1>3

LEMMA BodyAcquireStep ==
  ASSUME TypeOK, Places, BudgetsAreExact, NEW h \in Handlers, BodyAcquire(h)
  PROVE  /\ BudgetsAreExact' /\ bodyUsed' \in 0..BodyLimit
         /\ bodyHeld' \in [Handlers -> Reservations \cup {0}]
<1>1. PICK rest \in Nat : /\ bodyUsed = bodyHeld[h] + rest
                          /\ \A n \in Nat : Sum([bodyHeld EXCEPT ![h] = n]) = n + rest
  BY BodyPart
<1>2. PICK size \in Reservations :
        /\ bodyUsed + size <= BodyLimit /\ bodyUsed' = bodyUsed + size
        /\ bodyHeld' = [bodyHeld EXCEPT ![h] = size]
  BY DEF BodyAcquire, Fits
<1>3. bodyHeld[h] = 0 /\ size \in Nat /\ bodyUsed \in Nat /\ BodyLimit \in Nat
  BY HeldIsNat, AdmissionAssumption DEF BodyAcquire, Places, HasBody
<1>4. bodyUsed' = Sum(bodyHeld')
  <2>1. Sum(bodyHeld') = size + rest
    BY <1>1, <1>2, <1>3
  <2> QED
    BY <1>1, <1>2, <1>3, <2>1
<1>5. respUsed' = respUsed /\ respHeld' = respHeld /\ respNext' = respNext
  BY DEF BodyAcquire
<1>6. bodyUsed' \in 0..BodyLimit
  BY <1>2, <1>3
<1>7. bodyHeld' \in [Handlers -> Reservations \cup {0}]
  BY <1>2 DEF TypeOK
<1> QED
  BY <1>4, <1>5, <1>6, <1>7 DEF BudgetsAreExact

LEMMA BodyReleaseStep ==
  ASSUME TypeOK, BudgetsAreExact, NEW h \in Handlers, BodyRelease(h)
  PROVE  /\ BudgetsAreExact' /\ bodyUsed' \in 0..BodyLimit
         /\ bodyHeld' \in [Handlers -> Reservations \cup {0}]
<1>1. PICK rest \in Nat : /\ bodyUsed = bodyHeld[h] + rest
                          /\ \A n \in Nat : Sum([bodyHeld EXCEPT ![h] = n]) = n + rest
  BY BodyPart
<1>2. /\ bodyUsed' = bodyUsed - bodyHeld[h] /\ bodyHeld' = [bodyHeld EXCEPT ![h] = 0]
      /\ respUsed' = respUsed /\ respHeld' = respHeld /\ respNext' = respNext
  BY DEF BodyRelease
<1>3. bodyHeld[h] \in Nat /\ bodyUsed \in 0..BodyLimit /\ BodyLimit \in Nat
  BY HeldIsNat DEF TypeOK
<1>4. bodyUsed' = rest /\ bodyUsed' \in 0..BodyLimit
  BY <1>1, <1>2, <1>3
<1>5. Sum(bodyHeld') = rest
  <2>1. Sum(bodyHeld') = 0 + rest
    BY <1>1, <1>2
  <2> QED
    BY <2>1
<1>6. bodyHeld' \in [Handlers -> Reservations \cup {0}]
  BY <1>2 DEF TypeOK
<1> QED
  BY <1>2, <1>4, <1>5, <1>6 DEF BudgetsAreExact

LEMMA NextSizeType ==
  ASSUME NEW held \in 0..ResponseMax PROVE NextSize(held) \in 0..ResponseMax
BY AdmissionAssumption DEF NextSize

LEMMA GrowAcquireStep ==
  ASSUME TypeOK, Places, BudgetsAreExact, NEW h \in Handlers, GrowAcquire(h)
  PROVE  /\ BudgetsAreExact' /\ respUsed' \in 0..ResponseLimit
         /\ respNext' \in [Handlers -> 0..ResponseMax]
<1>1. PICK rest \in Nat, others \in Nat :
        /\ respUsed = (respHeld[h] + rest) + (respNext[h] + others)
        /\ Sum(respHeld) = respHeld[h] + rest
        /\ \A n \in Nat : Sum([respNext EXCEPT ![h] = n]) = n + others
  BY ResponsePart
<1>2. PICK next \in 0..ResponseMax :
        /\ respUsed + next <= ResponseLimit /\ respUsed' = respUsed + next
        /\ respNext' = [respNext EXCEPT ![h] = next]
  BY NextSizeType DEF GrowAcquire, Fits, TypeOK
<1>3. /\ respNext[h] = 0 /\ respUsed \in Nat /\ ResponseLimit \in Nat
      /\ next \in Nat /\ respHeld[h] \in Nat
  BY HeldIsNat DEF GrowAcquire, Places
<1>4. bodyUsed' = bodyUsed /\ bodyHeld' = bodyHeld /\ respHeld' = respHeld
  BY DEF GrowAcquire
<1>5. Sum(respNext') = next + others
  BY <1>1, <1>2, <1>3
<1>6. respUsed' = Sum(respHeld') + Sum(respNext')
  BY <1>1, <1>2, <1>3, <1>4, <1>5
<1>7. respUsed' \in 0..ResponseLimit
  BY <1>2, <1>3
<1>8. respNext' \in [Handlers -> 0..ResponseMax]
  BY <1>2 DEF TypeOK
<1> QED
  BY <1>4, <1>6, <1>7, <1>8 DEF BudgetsAreExact

LEMMA GrowReleaseStep ==
  ASSUME TypeOK, BudgetsAreExact, NEW h \in Handlers, GrowRelease(h)
  PROVE  /\ BudgetsAreExact' /\ respUsed' \in 0..ResponseLimit
         /\ respHeld' \in [Handlers -> 0..ResponseMax]
         /\ respNext' \in [Handlers -> 0..ResponseMax]
<1>1. PICK rest \in Nat, others \in Nat :
        /\ respUsed = (respHeld[h] + rest) + (respNext[h] + others)
        /\ \A n \in Nat : Sum([respHeld EXCEPT ![h] = n]) = n + rest
        /\ \A n \in Nat : Sum([respNext EXCEPT ![h] = n]) = n + others
  BY ResponsePart
<1>2. /\ respUsed' = respUsed - respHeld[h]
      /\ respHeld' = [respHeld EXCEPT ![h] = respNext[h]]
      /\ respNext' = [respNext EXCEPT ![h] = 0]
      /\ bodyUsed' = bodyUsed /\ bodyHeld' = bodyHeld
  BY DEF GrowRelease
<1>3. /\ respHeld[h] \in Nat /\ respNext[h] \in Nat /\ respUsed \in 0..ResponseLimit
      /\ ResponseLimit \in Nat /\ respNext[h] \in 0..ResponseMax /\ 0 \in 0..ResponseMax
  BY HeldIsNat DEF TypeOK
<1>4. Sum(respHeld') = respNext[h] + rest /\ Sum(respNext') = 0 + others
  BY <1>1, <1>2, <1>3
<1>5. respUsed' = Sum(respHeld') + Sum(respNext') /\ respUsed' \in 0..ResponseLimit
  BY <1>1, <1>2, <1>3, <1>4
<1>6. /\ respHeld' \in [Handlers -> 0..ResponseMax]
      /\ respNext' \in [Handlers -> 0..ResponseMax]
  BY <1>2, <1>3 DEF TypeOK
<1> QED
  BY <1>2, <1>5, <1>6 DEF BudgetsAreExact

LEMMA FreeResponseStep ==
  ASSUME TypeOK, BudgetsAreExact, NEW h \in Handlers, FreeResponse(h), UNCHANGED bodyVars
  PROVE  /\ BudgetsAreExact' /\ respUsed' \in 0..ResponseLimit
         /\ respHeld' \in [Handlers -> 0..ResponseMax]
<1>1. PICK rest \in Nat, others \in Nat :
        /\ respUsed = (respHeld[h] + rest) + (respNext[h] + others)
        /\ Sum(respNext) = respNext[h] + others
        /\ \A n \in Nat : Sum([respHeld EXCEPT ![h] = n]) = n + rest
  BY ResponsePart
<1>2. /\ respUsed' = respUsed - respHeld[h]
      /\ respHeld' = [respHeld EXCEPT ![h] = 0] /\ respNext' = respNext
  BY DEF FreeResponse
<1>3. /\ respHeld[h] \in Nat /\ respNext[h] \in Nat /\ respUsed \in 0..ResponseLimit
      /\ ResponseLimit \in Nat /\ 0 \in 0..ResponseMax
  BY HeldIsNat DEF TypeOK
<1>4. Sum(respHeld') = 0 + rest /\ Sum(respNext') = respNext[h] + others
  BY <1>1, <1>2
<1>5. respUsed' = Sum(respHeld') + Sum(respNext') /\ respUsed' \in 0..ResponseLimit
  BY <1>1, <1>2, <1>3, <1>4
<1>6. respHeld' \in [Handlers -> 0..ResponseMax]
  BY <1>2, <1>3 DEF TypeOK
<1> QED
  BY <1>5, <1>6 DEF BudgetsAreExact

-----------------------------------------------------------------------------
(* The gate.                                                               *)

Holding(k) == {h \in InGate : key[h] = k}

LEMMA GateSets ==
  ASSUME TypeOK
  PROVE  /\ InGate = {h \in Handlers : pc[h] \notin Outside}
         /\ IsFiniteSet(InGate) /\ Cardinality(InGate) \in Nat
         /\ \A k : IsFiniteSet(Holding(k)) /\ Cardinality(Holding(k)) \in Nat
<1>1. InGate = {h \in Handlers : pc[h] \notin Outside}
  BY DEF TypeOK, InGate, At, Outside
<1>2. InGate \subseteq Handlers /\ \A k : Holding(k) \subseteq Handlers
  BY <1>1 DEF Holding
<1> QED
  BY <1>1, <1>2, FS_Subset, FS_CardinalityType, AdmissionAssumption

(* Nobody enters or leaves.                                                *)
LEMMA GateKept ==
  ASSUME TypeOK, TypeOK', GateIsExact, UNCHANGED gateVars,
         \A h \in Handlers : /\ pc'[h] \in Outside <=> pc[h] \in Outside
                             /\ pc[h] \notin Outside => key'[h] = key[h]
  PROVE  GateIsExact'
<1>1. InGate' = {h \in Handlers : pc'[h] \notin Outside}
  BY DEF TypeOK, InGate, At, Outside
<1>2. InGate' = InGate
  BY <1>1, GateSets
<1>3. \A h \in InGate : key'[h] = key[h]
  BY GateSets
<1>4. ASSUME NEW k \in Keys PROVE {h \in InGate' : key'[h] = k} = {h \in InGate : key[h] = k}
  BY <1>2, <1>3
<1> QED
  BY <1>2, <1>4 DEF GateIsExact

LEMMA GateAcquireStep ==
  ASSUME TypeOK, Places, GateIsExact, NEW h \in Handlers, GateAcquire(h)
  PROVE  /\ active' \in 0..MaxConcurrent /\ byKey' \in [Keys -> 0..MaxPerKey]
         /\ TypeOK' => GateIsExact'
<1>1. PICK k : k = key[h]
  OBVIOUS
<1>2. /\ k \in Keys /\ pc[h] \in Outside /\ pc'[h] \notin Outside
      /\ \A g \in Handlers \ {h} : pc'[g] = pc[g]
      /\ key' = key
  BY <1>1 DEF GateAcquire, Places, Outside, TypeOK
<1>3. /\ active < MaxConcurrent /\ byKey[k] < MaxPerKey
      /\ active' = active + 1 /\ byKey' = [byKey EXCEPT ![k] = byKey[k] + 1]
  BY <1>1, <1>2, AdmissionAssumption DEF GateAcquire, GateFull, TypeOK
<1>4. active' \in 0..MaxConcurrent /\ byKey[k] + 1 \in 0..MaxPerKey
  BY <1>2, <1>3, AdmissionAssumption DEF TypeOK
<1>5. byKey' \in [Keys -> 0..MaxPerKey]
  BY <1>3, <1>4 DEF TypeOK
<1>6. ASSUME TypeOK' PROVE GateIsExact'
  <2>1. InGate' = {g \in Handlers : pc'[g] \notin Outside}
    BY <1>6 DEF TypeOK, InGate, At, Outside
  <2>2. h \notin InGate /\ InGate' = InGate \cup {h}
    BY <1>2, <2>1, GateSets
  <2>3. Cardinality(InGate') = Cardinality(InGate) + 1
    BY <2>2, GateSets, FS_AddElement
  <2>4. ASSUME NEW j \in Keys
        PROVE  byKey'[j] = Cardinality({g \in InGate' : key'[g] = j})
    <3>0. byKey[j] = Cardinality(Holding(j))
      BY DEF GateIsExact, Holding
    <3>1. CASE j = k
      <4>1. {g \in InGate' : key'[g] = j} = Holding(j) \cup {h} /\ h \notin Holding(j)
        BY <1>1, <1>2, <2>2, <3>1 DEF Holding
      <4>2. Cardinality(Holding(j) \cup {h}) = Cardinality(Holding(j)) + 1
        BY <4>1, GateSets, FS_AddElement
      <4> QED
        BY <1>2, <1>3, <3>0, <3>1, <4>1, <4>2 DEF TypeOK
    <3>2. CASE j # k
      <4>1. {g \in InGate' : key'[g] = j} = Holding(j)
        BY <1>1, <1>2, <2>2, <3>2 DEF Holding
      <4> QED
        BY <1>3, <3>0, <3>2, <4>1 DEF TypeOK
    <3> QED
      BY <3>1, <3>2
  <2> QED
    BY <1>3, <2>3, <2>4 DEF GateIsExact
<1> QED
  BY <1>4, <1>5, <1>6

LEMMA GateReleaseStep ==
  ASSUME TypeOK, Places, GateIsExact, NEW h \in Handlers, GateRelease(h)
  PROVE  /\ active' \in 0..MaxConcurrent /\ byKey' \in [Keys -> 0..MaxPerKey]
         /\ TypeOK' => GateIsExact'
<1>1. PICK k : k = key[h]
  OBVIOUS
<1>2. /\ k \in Keys /\ pc[h] \notin Outside /\ pc'[h] \in Outside
      /\ \A g \in Handlers \ {h} : pc'[g] = pc[g] /\ key'[g] = key[g]
  BY <1>1 DEF GateRelease, Places, Outside, TypeOK
<1>3. h \in InGate /\ h \in Holding(k)
  BY <1>1, <1>2, GateSets DEF Holding
<1>4. /\ Cardinality(InGate \ {h}) = Cardinality(InGate) - 1
      /\ Cardinality(InGate \ {h}) \in Nat
      /\ Cardinality(Holding(k) \ {h}) = Cardinality(Holding(k)) - 1
      /\ Cardinality(Holding(k) \ {h}) \in Nat
  BY <1>3, GateSets, FS_RemoveElement, FS_CardinalityType
<1>5. active = Cardinality(InGate) /\ byKey[k] = Cardinality(Holding(k))
  BY <1>2 DEF GateIsExact, Holding
<1>6. active > 0 /\ byKey[k] > 0 /\ active \in 0..MaxConcurrent /\ byKey[k] \in 0..MaxPerKey
  BY <1>2, <1>4, <1>5, GateSets DEF TypeOK
<1>7. active' = active - 1 /\ byKey' = [byKey EXCEPT ![k] = byKey[k] - 1]
  BY <1>1, <1>6 DEF GateRelease, Minus1
<1>8. active' \in 0..MaxConcurrent /\ byKey[k] - 1 \in 0..MaxPerKey
  BY <1>6, <1>7, AdmissionAssumption
<1>9. byKey' \in [Keys -> 0..MaxPerKey]
  BY <1>7, <1>8 DEF TypeOK
<1>10. ASSUME TypeOK' PROVE GateIsExact'
  <2>1. InGate' = {g \in Handlers : pc'[g] \notin Outside}
    BY <1>10 DEF TypeOK, InGate, At, Outside
  <2>2. InGate' = InGate \ {h}
    BY <1>2, <2>1, GateSets
  <2>3. \A g \in InGate \ {h} : key'[g] = key[g]
    BY <1>2, GateSets
  <2>4. ASSUME NEW j \in Keys
        PROVE  byKey'[j] = Cardinality({g \in InGate' : key'[g] = j})
    <3>0. byKey[j] = Cardinality(Holding(j))
      BY DEF GateIsExact, Holding
    <3>1. {g \in InGate' : key'[g] = j} = Holding(j) \ {h}
      BY <2>2, <2>3 DEF Holding
    <3>2. CASE j = k
      BY <1>2, <1>4, <1>5, <1>7, <3>1, <3>2 DEF TypeOK
    <3>3. CASE j # k
      <4>1. Holding(j) \ {h} = Holding(j)
        BY <1>1, <3>3 DEF Holding
      <4> QED
        BY <1>7, <3>0, <3>1, <3>3, <4>1 DEF TypeOK
    <3> QED
      BY <3>2, <3>3
  <2> QED
    BY <1>4, <1>5, <1>7, <2>2, <2>4 DEF GateIsExact
<1> QED
  BY <1>8, <1>9, <1>10

-----------------------------------------------------------------------------
(* The rate.                                                               *)

(* What the limiter does to the counts of a key: d is 1 when the request   *)
(* passes.                                                                 *)
Count(k, window) == IF rate[k].minute = window THEN rate[k].count ELSE 0

Counts(k, window, d) ==
  /\ rate'[k].minute = window /\ rate'[k].count = Count(k, window) + d
  /\ Count(k, window) + d <= MaxPerMinute
  /\ \A j \in Keys \ {k} :
       \/ rate'[j] = rate[j]
       \/ rate'[j] = NoEntry /\ rate[j].minute < window
  /\ passed' = [passed EXCEPT ![k][window] = @ + d]
  /\ Seen(k, window)

RateEntry == [minute: Minutes \cup {0}, count: 0..MaxPerMinute]

LEMMA EntryEffect ==
  ASSUME TypeOK, NEW k \in Keys, NEW window \in Minutes, Cleanup(window)
  PROVE  /\ Entries(window) \in [Keys -> RateEntry]
         /\ \A j \in Keys : \/ Entries(window)[j] = rate[j]
                            \/ Entries(window)[j] = NoEntry /\ rate[j].minute < window
         /\ Entry(k, window) = [minute |-> window, count |-> Count(k, window)]
         /\ Count(k, window) \in 0..MaxPerMinute
         /\ cleaned' \in Minutes \cup {0}
<1>1. NoEntry \in RateEntry /\ 0 \in 0..MaxPerMinute /\ Minutes \subseteq Nat \ {0}
  BY AdmissionAssumption DEF NoEntry, RateEntry, Minutes
<1>2. rate \in [Keys -> RateEntry]
  BY DEF TypeOK, RateEntry
<1>3. Entries(window) \in [Keys -> RateEntry]
  BY <1>1, <1>2 DEF Entries
<1>4. ASSUME NEW j \in Keys
      PROVE  \/ Entries(window)[j] = rate[j]
             \/ Entries(window)[j] = NoEntry /\ rate[j].minute < window
  BY DEF Entries
<1>5. Entry(k, window) = [minute |-> window, count |-> Count(k, window)]
  <2>1. CASE rate[k].minute = window
    <3>1. Entries(window)[k] = rate[k]
      BY <1>1, <1>4, <2>1
    <3>2. rate[k] = [minute |-> window, count |-> rate[k].count]
      BY <1>2, <2>1 DEF RateEntry
    <3> QED
      BY <2>1, <3>1, <3>2 DEF Entry, Count
  <2>2. CASE rate[k].minute # window
    <3>1. Entries(window)[k].minute # window
      BY <1>1, <1>4, <2>2 DEF NoEntry
    <3> QED
      BY <2>2, <3>1 DEF Entry, Count
  <2> QED
    BY <2>1, <2>2
<1>6. Count(k, window) \in 0..MaxPerMinute
  BY <1>1, <1>2 DEF Count, RateEntry
<1>7. cleaned' \in Minutes \cup {0}
  BY DEF Cleanup, TypeOK
<1> QED
  BY <1>3, <1>4, <1>5, <1>6, <1>7

LEMMA RateEffect ==
  ASSUME TypeOK, Places, NEW h \in Handlers, RateAllow(h) \/ RateRefuse(h)
  PROVE  /\ key[h] \in Keys /\ stamp[h] \in Minutes
         /\ \E d \in {0, 1} : Counts(key[h], stamp[h], d)
         /\ rate' \in [Keys -> RateEntry] /\ cleaned' \in Minutes \cup {0}
<1>1. PICK k, window : k = key[h] /\ window = stamp[h]
  OBVIOUS
<1>2. k \in Keys /\ window \in Minutes /\ Cleanup(window)
  BY <1>1 DEF RateAllow, RateRefuse, Places, TypeOK
<1>3. PICK entries : entries = Entries(window)
  OBVIOUS
<1>4. PICK c : c = Count(k, window)
  OBVIOUS
<1>5. /\ entries \in [Keys -> RateEntry]
      /\ \A j \in Keys : \/ entries[j] = rate[j]
                         \/ entries[j] = NoEntry /\ rate[j].minute < window
      /\ Entry(k, window) = [minute |-> window, count |-> c]
      /\ c \in 0..MaxPerMinute /\ cleaned' \in Minutes \cup {0}
  BY <1>2, <1>3, <1>4, EntryEffect
<1>6. MaxPerMinute \in Nat
  BY AdmissionAssumption
<1>7. CASE RateAllow(h)
  <2>1. /\ UnderLimit([minute |-> window, count |-> c])
        /\ rate' = [entries EXCEPT ![k] =
                      [[minute |-> window, count |-> c] EXCEPT !.count = @ + 1]]
        /\ passed' = [passed EXCEPT ![k][window] = @ + 1] /\ Seen(k, window)
    BY <1>1, <1>3, <1>5, <1>7 DEF RateAllow
  <2>2. c + 1 \in 0..MaxPerMinute
    BY <1>5, <1>6, <2>1 DEF UnderLimit
  <2>3. rate' = [entries EXCEPT ![k] = [minute |-> window, count |-> c + 1]]
    <3>1. [[minute |-> window, count |-> c] EXCEPT !.count = @ + 1]
            = [minute |-> window, count |-> c + 1]
      OBVIOUS
    <3> QED
      BY <2>1, <3>1
  <2>4. rate' \in [Keys -> RateEntry]
    BY <1>2, <1>5, <2>2, <2>3 DEF RateEntry
  <2>5. /\ rate'[k].minute = window /\ rate'[k].count = c + 1 /\ c + 1 <= MaxPerMinute
        /\ \A j \in Keys \ {k} : rate'[j] = entries[j]
    BY <1>2, <1>5, <1>6, <2>2, <2>3
  <2>6. Counts(k, window, 1)
    BY <1>4, <1>5, <2>1, <2>5 DEF Counts
  <2> QED
    BY <1>1, <1>2, <1>5, <2>4, <2>6
<1>8. CASE RateRefuse(h)
  <2>1. /\ rate' = [entries EXCEPT ![k] = [minute |-> window, count |-> c]]
        /\ passed' = passed /\ Seen(k, window)
    BY <1>1, <1>3, <1>5, <1>8 DEF RateRefuse
  <2>2. rate' \in [Keys -> RateEntry]
    BY <1>2, <1>5, <2>1 DEF RateEntry
  <2>3. /\ rate'[k].minute = window /\ rate'[k].count = c + 0 /\ c + 0 <= MaxPerMinute
        /\ \A j \in Keys \ {k} : rate'[j] = entries[j]
    BY <1>2, <1>5, <1>6, <2>1
  <2>4. passed' = [passed EXCEPT ![k][window] = @ + 0]
    <3>1. passed[k][window] + 0 = passed[k][window]
      BY <1>2 DEF TypeOK
    <3> QED
      BY <1>2, <2>1, <3>1 DEF TypeOK
  <2>5. Counts(k, window, 0)
    BY <1>4, <1>5, <2>1, <2>3, <2>4 DEF Counts
  <2> QED
    BY <1>1, <1>2, <1>5, <2>2, <2>5
<1> QED
  BY <1>7, <1>8

(* A late call adds to what late calls allow.                              *)
LEMMA SeenEffect ==
  ASSUME TypeOK, NEW k \in Keys, NEW window \in Minutes, Seen(k, window)
  PROVE  /\ latest' \in Minutes \cup {0} /\ late' \in [Keys -> Nat]
         /\ latest' >= latest /\ latest' >= window
         /\ window >= latest => latest' = window
         /\ \A j \in Keys : Allowance(j) \in Nat /\ Allowance(j)' \in Nat
         /\ \A j \in Keys \ {k} : Allowance(j)' = Allowance(j)
         /\ Allowance(k)' >= Allowance(k)
         /\ window < latest => Allowance(k)' = Allowance(k) + MaxPerMinute
<1>1. /\ latest \in Nat /\ window \in Nat /\ MaxPerMinute \in Nat
      /\ late \in [Keys -> Nat]
  BY AdmissionAssumption DEF TypeOK, Minutes
<1>2. /\ latest' \in Minutes \cup {0} /\ latest' >= latest /\ latest' >= window
      /\ window >= latest => latest' = window
  BY <1>1 DEF Seen, TypeOK
<1>3. \A n \in Nat : /\ MaxPerMinute * n \in Nat
                     /\ MaxPerMinute * (n + 1) = MaxPerMinute * n + MaxPerMinute
  BY <1>1
<1>4. late' \in [Keys -> Nat] /\ \A j \in Keys \ {k} : late'[j] = late[j]
  BY <1>1 DEF Seen
<1>5. late'[k] = IF window < latest THEN late[k] + 1 ELSE late[k]
  BY <1>1 DEF Seen
<1>6. \A j \in Keys : Allowance(j) \in Nat /\ Allowance(j)' \in Nat
  BY <1>1, <1>3, <1>4 DEF Allowance
<1>7. \A j \in Keys \ {k} : Allowance(j)' = Allowance(j)
  BY <1>4 DEF Allowance
<1>8. window < latest => Allowance(k)' = Allowance(k) + MaxPerMinute
  BY <1>1, <1>3, <1>5 DEF Allowance
<1>9. ~(window < latest) => Allowance(k)' = Allowance(k)
  BY <1>5 DEF Allowance
<1>10. Allowance(k)' >= Allowance(k)
  BY <1>1, <1>6, <1>8, <1>9
<1> QED
  BY <1>2, <1>4, <1>6, <1>7, <1>8, <1>10

LEMMA LimitedStep ==
  ASSUME TypeOK, Limited, NEW k \in Keys, NEW window \in Minutes,
         NEW d \in {0, 1}, Counts(k, window, d)
  PROVE  Limited' /\ passed' \in [Keys -> [Minutes -> Nat]]
<1> SUFFICES ASSUME NEW j \in Keys, NEW m \in Minutes
             PROVE  /\ m > latest' => passed'[j][m] = 0
                    /\ passed'[j][m] <= Allowance(j)' + MaxPerMinute
                    /\ rate'[j].minute = m
                         => passed'[j][m] <= Allowance(j)' + rate'[j].count
                    /\ rate'[j].minute # m /\ m >= latest'
                         => passed'[j][m] <= Allowance(j)'
                    /\ passed' \in [Keys -> [Minutes -> Nat]]
  BY AdmissionAssumption DEF Limited, Counts, TypeOK
<1>0. /\ m \in Nat \ {0} /\ window \in Nat /\ latest \in Nat /\ MaxPerMinute \in Nat
      /\ passed \in [Keys -> [Minutes -> Nat]] /\ passed[j][m] \in Nat
      /\ passed[k][window] \in Nat
  <2>1. /\ m \in Nat \ {0} /\ window \in Nat /\ latest \in Nat
        /\ MaxPerMinute \in Nat
    BY AdmissionAssumption DEF TypeOK, Minutes
  <2>2. passed \in [Keys -> [Minutes -> Nat]]
    BY DEF TypeOK
  <2> QED
    BY <2>1, <2>2
<1>1. /\ latest' \in Nat /\ latest' >= latest /\ latest' >= window
      /\ window >= latest => latest' = window
      /\ Allowance(j) \in Nat /\ Allowance(j)' \in Nat
  BY SeenEffect, <1>0 DEF Counts, Minutes
<1>2. passed' = [passed EXCEPT ![k][window] = passed[k][window] + d]
  BY DEF Counts
<1>3. passed' \in [Keys -> [Minutes -> Nat]]
  BY <1>0, <1>2
<1>4. /\ m > latest => passed[j][m] = 0
      /\ passed[j][m] <= Allowance(j) + MaxPerMinute
      /\ rate[j].minute = m => passed[j][m] <= Allowance(j) + rate[j].count
      /\ rate[j].minute # m /\ m >= latest => passed[j][m] <= Allowance(j)
  BY DEF Limited
<1>5. rate[j].minute \in Nat /\ rate[j].count \in 0..MaxPerMinute
  BY <1>0 DEF TypeOK, Minutes
<1>6. CASE j # k
  <2>1. passed'[j][m] = passed[j][m] /\ Allowance(j)' = Allowance(j)
    BY <1>0, <1>2, <1>6, SeenEffect DEF Counts
  <2>2. \/ rate'[j] = rate[j]
        \/ rate'[j].minute = 0 /\ rate[j].minute < window
    BY <1>6 DEF Counts, NoEntry
  <2>3. rate'[j].minute = m => passed'[j][m] <= Allowance(j)' + rate'[j].count
    BY <1>0, <1>4, <2>1, <2>2
  <2>4. ASSUME rate'[j].minute # m, m >= latest' PROVE passed'[j][m] <= Allowance(j)'
    <3>1. rate[j].minute # m /\ m >= latest
      BY <1>0, <1>1, <1>5, <2>2, <2>4
    <3> QED
      BY <1>4, <2>1, <3>1
  <2>5. m > latest' => passed'[j][m] = 0
    BY <1>0, <1>1, <1>4, <2>1
  <2> QED
    BY <1>3, <1>4, <2>1, <2>3, <2>4, <2>5
<1>7. CASE j = k /\ m = window
  <2>1. passed'[j][m] = passed[j][m] + d
    BY <1>0, <1>2, <1>7
  <2>2. /\ rate'[j].minute = m /\ rate'[j].count = Count(j, m) + d
        /\ Count(j, m) + d <= MaxPerMinute
    BY <1>7 DEF Counts
  <2>3. Count(j, m) \in Nat
    BY <1>0, <1>5 DEF Count
  <2>4. passed[j][m] <= Allowance(j)' + Count(j, m)
    <3>1. CASE rate[j].minute = m
      <4>1. Count(j, m) = rate[j].count
        BY <3>1 DEF Count
      <4>2. Allowance(j)' >= Allowance(j)
        BY <1>7, SeenEffect DEF Counts
      <4> QED
        BY <1>0, <1>1, <1>4, <1>5, <3>1, <4>1, <4>2
    <3>2. CASE rate[j].minute # m /\ m >= latest
      <4>1. Allowance(j)' >= Allowance(j)
        BY <1>7, SeenEffect DEF Counts
      <4> QED
        BY <1>0, <1>1, <1>4, <2>3, <3>2, <4>1
    <3>3. CASE m < latest
      <4>1. Allowance(j)' = Allowance(j) + MaxPerMinute
        BY <1>7, <3>3, SeenEffect DEF Counts
      <4> QED
        BY <1>0, <1>1, <1>4, <2>3, <4>1
    <3> QED
      BY <1>0, <3>1, <3>2, <3>3
  <2>5. passed'[j][m] <= Allowance(j)' + rate'[j].count
    BY <1>0, <1>1, <2>1, <2>2, <2>3, <2>4
  <2>6. passed'[j][m] <= Allowance(j)' + MaxPerMinute
    BY <1>0, <1>1, <2>1, <2>2, <2>3, <2>4
  <2>7. ~(m > latest')
    BY <1>0, <1>1, <1>7
  <2> QED
    BY <1>3, <2>2, <2>5, <2>6, <2>7
<1>8. CASE j = k /\ m # window
  <2>1. passed'[j][m] = passed[j][m] /\ rate'[j].minute # m
    BY <1>0, <1>2, <1>8 DEF Counts
  <2>2. Allowance(j)' >= Allowance(j)
    BY <1>8, SeenEffect DEF Counts
  <2>3. passed'[j][m] <= Allowance(j)' + MaxPerMinute
    BY <1>0, <1>1, <1>4, <2>1, <2>2
  <2>4. m > latest' => passed'[j][m] = 0
    BY <1>0, <1>1, <1>4, <2>1
  <2>5. ASSUME m >= latest' PROVE passed'[j][m] <= Allowance(j)'
    <3>1. CASE window < latest
      <4>1. Allowance(j)' = Allowance(j) + MaxPerMinute
        BY <1>8, <3>1, SeenEffect DEF Counts
      <4> QED
        BY <1>4, <2>1, <4>1
    <3>2. CASE window >= latest
      <4>1. m > latest
        BY <1>0, <1>1, <1>8, <2>5, <3>2
      <4> QED
        BY <1>1, <1>4, <2>1, <4>1
    <3> QED
      BY <1>0, <3>1, <3>2
  <2> QED
    BY <1>3, <2>1, <2>3, <2>4, <2>5
<1> QED
  BY <1>6, <1>7, <1>8

-----------------------------------------------------------------------------
(* The steps.                                                              *)

LEMMA TypesStep ==
  ASSUME TypeOK, Places, GateIsExact, BudgetsAreExact, Limited, [Next]_vars
  PROVE  TypeOK'
<1>1. CASE UNCHANGED vars
  BY <1>1 DEF vars, TypeOK
<1>2. CASE Tick
  BY <1>2, AdmissionAssumption DEF Tick, TypeOK, Minutes
<1>3. ASSUME NEW h \in Handlers, Moves(h) PROVE TypeOK'
  BY <1>3, MoveEffect DEF TypeOK
<1>4. ASSUME NEW h \in Handlers, Authenticated(h) \/ GateRefuse(h) \/ ReadClock(h)
      PROVE  TypeOK'
  <2>1. CASE Authenticated(h)
    BY <2>1 DEF Authenticated, TypeOK, PcStates
  <2>2. CASE GateRefuse(h)
    BY <2>2 DEF GateRefuse, TypeOK, PcStates
  <2>3. CASE ReadClock(h)
    BY <2>3 DEF ReadClock, TypeOK, PcStates
  <2> QED
    BY <1>4, <2>1, <2>2, <2>3
<1>5. ASSUME NEW h \in Handlers, GateAcquire(h) PROVE TypeOK'
  <2>1. active' \in 0..MaxConcurrent /\ byKey' \in [Keys -> 0..MaxPerKey]
    BY <1>5, GateAcquireStep
  <2> QED
    BY <1>5, <2>1 DEF GateAcquire, TypeOK, PcStates
<1>6. ASSUME NEW h \in Handlers, GateRelease(h) PROVE TypeOK'
  <2>1. active' \in 0..MaxConcurrent /\ byKey' \in [Keys -> 0..MaxPerKey]
    BY <1>6, GateReleaseStep
  <2> QED
    BY <1>6, <2>1 DEF GateRelease, TypeOK, PcStates
<1>7. ASSUME NEW h \in Handlers, RateAllow(h) \/ RateRefuse(h) PROVE TypeOK'
  <2>1. PICK k \in Keys, window \in Minutes, d \in {0, 1} : Counts(k, window, d)
    BY <1>7, RateEffect
  <2>2. passed' \in [Keys -> [Minutes -> Nat]]
    BY <2>1, LimitedStep
  <2>3. latest' \in Minutes \cup {0} /\ late' \in [Keys -> Nat]
    BY <2>1, SeenEffect DEF Counts
  <2>4. rate' \in [Keys -> RateEntry] /\ cleaned' \in Minutes \cup {0}
    BY <1>7, RateEffect
  <2>5. /\ pc' \in [Handlers -> PcStates]
        /\ UNCHANGED <<key, gateVars, clock, stamp, bodyVars, respVars>>
    BY <1>7 DEF RateAllow, RateRefuse, TypeOK, PcStates
  <2> QED
    BY <2>2, <2>3, <2>4, <2>5 DEF TypeOK, RateEntry
<1>8. ASSUME NEW h \in Handlers, BodyAcquire(h) PROVE TypeOK'
  BY <1>8, BodyAcquireStep DEF BodyAcquire, TypeOK, PcStates
<1>9. ASSUME NEW h \in Handlers, BodyRelease(h) PROVE TypeOK'
  BY <1>9, BodyReleaseStep DEF BodyRelease, TypeOK, PcStates
<1>10. ASSUME NEW h \in Handlers, GrowAcquire(h) PROVE TypeOK'
  BY <1>10, GrowAcquireStep DEF GrowAcquire, TypeOK, PcStates
<1>11. ASSUME NEW h \in Handlers, GrowRelease(h) PROVE TypeOK'
  BY <1>11, GrowReleaseStep DEF GrowRelease, TypeOK, PcStates
<1>12. ASSUME NEW h \in Handlers, GrowRefused(h) \/ ReadFails(h) \/ BufferRelease(h)
       PROVE  TypeOK'
  <2>1. /\ FreeResponse(h) /\ respNext' = respNext /\ UNCHANGED bodyVars
        /\ UNCHANGED <<key, gateVars, rateVars, clock, stamp>>
        /\ pc' \in [Handlers -> PcStates]
    BY <1>12 DEF GrowRefused, ReadFails, BufferRelease, FreeResponse, TypeOK, PcStates
  <2>2. respUsed' \in 0..ResponseLimit /\ respHeld' \in [Handlers -> 0..ResponseMax]
    BY <2>1, FreeResponseStep
  <2> QED
    BY <2>1, <2>2 DEF TypeOK
<1> QED
  BY <1>1, <1>2, <1>3, <1>4, <1>5, <1>6, <1>7, <1>8, <1>9, <1>10, <1>11, <1>12, Steps

LEMMA PlacesStep ==
  ASSUME TypeOK, Places, [Next]_vars
  PROVE  Places'
<1> USE DEF HasBody, HasBuffer
<1>1. CASE UNCHANGED vars \/ Tick
  BY <1>1 DEF vars, Tick, Places
<1>2. ASSUME NEW h \in Handlers, Moves(h) PROVE Places'
  BY <1>2, MoveEffect DEF TypeOK, Places
<1>3. ASSUME NEW h \in Handlers, Authenticated(h) \/ GateRefuse(h) \/ GateRelease(h)
      PROVE  Places'
  BY <1>3 DEF Authenticated, GateRefuse, GateRelease, TypeOK, Places
<1>4. ASSUME NEW h \in Handlers, GateAcquire(h) \/ ReadClock(h) PROVE Places'
  BY <1>4 DEF GateAcquire, ReadClock, TypeOK, Places
<1>5. ASSUME NEW h \in Handlers, RateAllow(h) \/ RateRefuse(h) PROVE Places'
  <2>1. /\ pc[h] = "rate" /\ UNCHANGED <<key, bodyVars, respVars>>
        /\ \/ pc' = [pc EXCEPT ![h] = "allowed"] \/ pc' = [pc EXCEPT ![h] = "freeGate"]
    BY <1>5 DEF RateAllow, RateRefuse
  <2> QED
    BY <2>1 DEF TypeOK, Places
<1>6. ASSUME NEW h \in Handlers, BodyAcquire(h) \/ BodyRelease(h) PROVE Places'
  BY <1>6 DEF BodyAcquire, BodyRelease, TypeOK, Places
<1>7. ASSUME NEW h \in Handlers, GrowAcquire(h) \/ GrowRelease(h) PROVE Places'
  BY <1>7 DEF GrowAcquire, GrowRelease, TypeOK, Places
<1>8. ASSUME NEW h \in Handlers, GrowRefused(h) \/ ReadFails(h) \/ BufferRelease(h)
      PROVE  Places'
  BY <1>8 DEF GrowRefused, ReadFails, BufferRelease, FreeResponse, TypeOK, Places
<1> QED
  BY <1>1, <1>2, <1>3, <1>4, <1>5, <1>6, <1>7, <1>8, Steps

LEMMA GateStep ==
  ASSUME TypeOK, TypeOK', Places, GateIsExact, [Next]_vars
  PROVE  GateIsExact'
<1> USE DEF Outside
<1>1. CASE UNCHANGED vars \/ Tick
  BY <1>1, GateKept DEF vars, Tick
<1>2. ASSUME NEW h \in Handlers, Moves(h) PROVE GateIsExact'
  <2>1. /\ UNCHANGED <<key, gateVars>>
        /\ \A g \in Handlers : pc'[g] \in Outside <=> pc[g] \in Outside
    BY <1>2, MoveEffect DEF TypeOK
  <2> QED
    BY <2>1, GateKept
<1>3. ASSUME NEW h \in Handlers, Authenticated(h) \/ GateRefuse(h) PROVE GateIsExact'
  BY <1>3, GateKept DEF Authenticated, GateRefuse, TypeOK
<1>4. ASSUME NEW h \in Handlers, GateAcquire(h) \/ GateRelease(h) PROVE GateIsExact'
  BY <1>4, GateAcquireStep, GateReleaseStep
<1>5. ASSUME NEW h \in Handlers,
             \/ ReadClock(h) \/ RateAllow(h) \/ RateRefuse(h) \/ BodyAcquire(h)
             \/ BodyRelease(h) \/ GrowAcquire(h) \/ GrowRelease(h) \/ GrowRefused(h)
             \/ ReadFails(h) \/ BufferRelease(h)
      PROVE  GateIsExact'
  <2>1. /\ UNCHANGED <<key, gateVars>> /\ pc[h] \notin Outside
        /\ \E next \in PcStates \ Outside : pc' = [pc EXCEPT ![h] = next]
    BY <1>5 DEF ReadClock, RateAllow, RateRefuse, BodyAcquire, BodyRelease, GrowAcquire,
                GrowRelease, GrowRefused, ReadFails, BufferRelease, PcStates
  <2>2. \A g \in Handlers : pc'[g] \in Outside <=> pc[g] \in Outside
    BY <2>1 DEF TypeOK
  <2> QED
    BY <2>1, <2>2, GateKept
<1> QED
  BY <1>1, <1>2, <1>3, <1>4, <1>5, Steps

LEMMA BudgetsStep ==
  ASSUME TypeOK, Places, BudgetsAreExact, [Next]_vars
  PROVE  BudgetsAreExact'
<1>0. ASSUME UNCHANGED <<bodyVars, respVars>> PROVE BudgetsAreExact'
  BY <1>0 DEF BudgetsAreExact
<1>1. CASE UNCHANGED vars \/ Tick
  BY <1>0, <1>1 DEF vars, Tick
<1>2. ASSUME NEW h \in Handlers, Moves(h) PROVE BudgetsAreExact'
  BY <1>0, <1>2, MoveEffect
<1>3. ASSUME NEW h \in Handlers,
             \/ Authenticated(h) \/ GateAcquire(h) \/ GateRefuse(h) \/ GateRelease(h)
             \/ ReadClock(h) \/ RateAllow(h) \/ RateRefuse(h)
      PROVE  BudgetsAreExact'
  BY <1>0, <1>3 DEF Authenticated, GateAcquire, GateRefuse, GateRelease, ReadClock,
                    RateAllow, RateRefuse
<1>4. ASSUME NEW h \in Handlers, BodyAcquire(h) \/ BodyRelease(h) PROVE BudgetsAreExact'
  BY <1>4, BodyAcquireStep, BodyReleaseStep
<1>5. ASSUME NEW h \in Handlers, GrowAcquire(h) \/ GrowRelease(h) PROVE BudgetsAreExact'
  BY <1>5, GrowAcquireStep, GrowReleaseStep
<1>6. ASSUME NEW h \in Handlers, GrowRefused(h) \/ ReadFails(h) \/ BufferRelease(h)
      PROVE  BudgetsAreExact'
  <2>1. FreeResponse(h) /\ UNCHANGED bodyVars
    BY <1>6 DEF GrowRefused, ReadFails, BufferRelease
  <2> QED
    BY <2>1, FreeResponseStep
<1> QED
  BY <1>1, <1>2, <1>3, <1>4, <1>5, <1>6, Steps

LEMMA RateStep ==
  ASSUME TypeOK, Places, Limited, [Next]_vars
  PROVE  Limited'
<1>0. ASSUME UNCHANGED rateVars PROVE Limited'
  BY <1>0 DEF Limited, Allowance
<1>1. CASE UNCHANGED vars \/ Tick
  BY <1>0, <1>1 DEF vars, Tick
<1>2. ASSUME NEW h \in Handlers, Moves(h) PROVE Limited'
  BY <1>0, <1>2, MoveEffect
<1>3. ASSUME NEW h \in Handlers, RateAllow(h) \/ RateRefuse(h) PROVE Limited'
  BY <1>3, RateEffect, LimitedStep
<1>4. ASSUME NEW h \in Handlers,
             \/ Authenticated(h) \/ GateAcquire(h) \/ GateRefuse(h) \/ GateRelease(h)
             \/ ReadClock(h) \/ BodyAcquire(h) \/ BodyRelease(h) \/ GrowAcquire(h)
             \/ GrowRelease(h) \/ GrowRefused(h) \/ ReadFails(h) \/ BufferRelease(h)
      PROVE  Limited'
  BY <1>0, <1>4 DEF Authenticated, GateAcquire, GateRefuse, GateRelease, ReadClock,
                    BodyAcquire, BodyRelease, GrowAcquire, GrowRelease, GrowRefused,
                    ReadFails, BufferRelease
<1> QED
  BY <1>1, <1>2, <1>3, <1>4, Steps

-----------------------------------------------------------------------------
(* Admission: the theorems.                                                *)

LEMMA IInvInit == Init => IInv
<1> SUFFICES ASSUME Init PROVE IInv
  OBVIOUS
<1>1. TypeOK
  <2>1. /\ 0 \in 0..MaxConcurrent /\ 0 \in 0..MaxPerKey /\ NoEntry \in RateEntry
        /\ 1 \in Minutes /\ 0 \in 0..BodyLimit /\ 0 \in 0..ResponseLimit
        /\ 0 \in 0..ResponseMax /\ "idle" \in PcStates
    BY AdmissionAssumption DEF NoEntry, RateEntry, Minutes, PcStates
  <2> QED
    BY <2>1 DEF Init, TypeOK, RateEntry
<1>2. Places
  BY DEF Init, Places
<1>3. GateIsExact
  <2>1. InGate = {} /\ \A k \in Keys : {h \in InGate : key[h] = k} = {}
    BY <1>1, GateSets DEF Init, Outside
  <2> QED
    BY <2>1, FS_EmptySet DEF Init, GateIsExact
<1>4. BudgetsAreExact
  BY SumOfZeros, AdmissionAssumption DEF Init, BudgetsAreExact
<1>5. Limited
  <2>1. \A n \in Nat : MaxPerMinute * n \in Nat
    BY AdmissionAssumption
  <2>2. \A k \in Keys : Allowance(k) \in Nat
    BY <2>1 DEF Init, Allowance
  <2>3. \A k \in Keys : \A m \in Minutes : /\ passed[k][m] = 0 /\ rate[k].count = 0
    BY DEF Init, NoEntry
  <2> QED
    BY <2>2, <2>3, AdmissionAssumption DEF Limited
<1> QED
  BY <1>1, <1>2, <1>3, <1>4, <1>5 DEF IInv

LEMMA Invariant == Spec => []IInv
<1>1. IInv /\ [Next]_vars => IInv'
  BY TypesStep, PlacesStep, GateStep, BudgetsStep, RateStep DEF IInv
<1> QED
  BY <1>1, IInvInit, PTL DEF Spec

(* RequestAdmission.TypeOK: the gate, the budgets and the limiter stay     *)
(* within their limits, and no count or reservation goes below zero.       *)
THEOREM AdmissionTypeCorrect == Spec => []TypeOK
<1>1. IInv => TypeOK
  BY DEF IInv
<1> QED
  BY <1>1, Invariant, PTL

(* RequestAdmission.ResourcesAreExact: whichever way a request leaves,     *)
(* what requestGate and the two byte budgets count is what requests under  *)
(* way hold, and one that is over holds nothing.                           *)
THEOREM ResourcesAreReturned == Spec => []ResourcesAreExact
<1>1. IInv => ResourcesAreExact
  <2> SUFFICES ASSUME IInv PROVE NothingIsLeaked
    BY DEF IInv, ResourcesAreExact
  <2> QED
    BY DEF IInv, Places, NothingIsLeaked, HasBody, HasBuffer
<1> QED
  BY <1>1, Invariant, PTL

(* RequestAdmission.RateLimitHolds: requestRateLimiter.allow lets no more  *)
(* than MaxPerMinute requests of a key pass in a minute, and as many again *)
(* for each call as of a minute that a later one came before.              *)
THEOREM RateIsLimited == Spec => []RateLimitHolds
<1>1. IInv => RateLimitHolds
  <2> SUFFICES ASSUME IInv, NEW k \in Keys, NEW m \in Minutes
               PROVE  passed[k][m] <= MaxPerMinute * (1 + late[k])
    BY DEF RateLimitHolds
  <2>1. passed[k][m] <= Allowance(k) + MaxPerMinute
    BY DEF IInv, Limited
  <2>2. \A n \in Nat : MaxPerMinute * (1 + n) = MaxPerMinute * n + MaxPerMinute
    BY AdmissionAssumption
  <2>3. MaxPerMinute * (1 + late[k]) = Allowance(k) + MaxPerMinute
    BY <2>2 DEF IInv, TypeOK, Allowance
  <2> QED
    BY <2>1, <2>3
<1> QED
  BY <1>1, Invariant, PTL

HIDE DEF gateVars, rateVars, bodyVars, respVars, Goto

-----------------------------------------------------------------------------
(* Rates.                                                                  *)

LEMMA DivOrder ==
  ASSUME NEW a \in Nat, NEW b \in Nat, a <= b
  PROVE  a \div DayHours <= b \div DayHours
BY CostAssumption

LEMMA MinIs ==
  ASSUME NEW S \in SUBSET Nat, S # {}
  PROVE  Min(S) \in S /\ \A y \in S : Min(S) <= y
<1>1. PICK n \in S : TRUE
  OBVIOUS
<1> DEFINE N == 0..n
           B == {0..m : m \in {y \in S : y <= n}}
<1>2. PICK T \in B : \A U \in B : U \subseteq T => U = T
  <2>1. B \in SUBSET (SUBSET N)
    <3>1. ASSUME NEW m \in S, m <= n PROVE 0..m \subseteq 0..n
      <4>1. m \in Nat /\ n \in Nat
        OBVIOUS
      <4> QED
        BY <3>1, <4>1
    <3>2. \A U \in B : \E m \in S : m <= n /\ U = 0..m
      OBVIOUS
    <3>3. \A U \in B : U \subseteq N
      BY <3>1, <3>2
    <3> HIDE DEF B, N
    <3> QED
      BY <3>3
  <2>2. B # {}
    BY <1>1
  <2>3. IsFiniteSet(N)
    BY <1>1, FS_Interval
  <2> HIDE DEF B, N
  <2> QED
    BY <2>1, <2>2, <2>3, LeastSet
<1>3. PICK m \in S : m <= n /\ T = 0..m
  BY <1>2
<1>4. ASSUME NEW y \in S, y < m PROVE FALSE
  <2>0. y \in Nat /\ m \in Nat /\ n \in Nat
    BY <1>1, <1>3
  <2>1. 0..y \in B
    BY <1>3, <1>4, <2>0
  <2>2. 0..y \subseteq T
    BY <1>3, <1>4, <2>0
  <2>3. 0..y = 0..m
    BY <1>2, <1>3, <2>1, <2>2
  <2>4. m \in 0..y
    BY <2>0, <2>3
  <2> QED
    BY <1>4, <2>0, <2>4
<1>5. \E x \in S : \A y \in S : x =< y
  BY <1>3, <1>4
<1> QED
  BY <1>5 DEF Min

LEMMA MaxIs ==
  ASSUME NEW S \in SUBSET Nat, S # {}, NEW n \in Nat, \A y \in S : y <= n
  PROVE  Max(S) \in S /\ \A y \in S : y <= Max(S)
<1> DEFINE T == {m \in Nat : n - m \in S}
<1>1. T # {}
  <2>1. PICK y \in S : TRUE
    OBVIOUS
  <2>2. n - y \in T
    BY <2>1
  <2> QED
    BY <2>2
<1>2. PICK x \in T : \A y \in T : x <= y
  <2> HIDE DEF T
  <2>1. T \in SUBSET Nat
    BY DEF T
  <2> QED
    BY <1>1, <2>1, MinIs
<1>3. n - x \in S /\ \A y \in S : y <= n - x
  <2>1. ASSUME NEW y \in S PROVE y <= n - x
    <3>1. n - y \in T
      OBVIOUS
    <3> QED
      BY <1>2, <3>1
  <2> QED
    BY <1>2, <2>1
<1>4. \E z \in S : \A y \in S : z >= y
  BY <1>3
<1> QED
  BY <1>4 DEF Max

(* The order of the rows of a model and its alias is total.                *)
LEMMA RowOrder ==
  ASSUME NEW rows, PricesOK(rows), NEW a \in rows, NEW b \in rows
  PROVE  /\ ~(Before(a, b) /\ Before(b, a))
         /\ a # b => Before(a, b) \/ Before(b, a)
         /\ \A c \in rows : Before(a, b) /\ Before(b, c) => Before(a, c)
<1>1. \A r \in rows : r.model \in {"asked", "alias"} /\ r.from \in Nat
  BY DEF PricesOK, PriceRows, Models
<1>2. a.model = b.model /\ a.from = b.from => a = b
  BY DEF PricesOK
<1> QED
  BY <1>1, <1>2 DEF Before

(* The rows that are valid at an instant come in an order, too.            *)
LEMMA SomeRows ==
  ASSUME NEW rows, PricesOK(rows), NEW V \in SUBSET rows PROVE PricesOK(V)
BY FS_Subset DEF PricesOK

IsFirst(a, rows) == a \in rows /\ \A b \in rows \ {a} : Before(a, b)

LEMMA FirstExists ==
  ASSUME NEW rows, PricesOK(rows), rows # {}
  PROVE  \E a \in rows : IsFirst(a, rows)
<1> DEFINE B == {T \in SUBSET rows : T # {} /\ ~ \E a \in T : IsFirst(a, T)}
<1>1. SUFFICES ASSUME B # {} PROVE FALSE
  OBVIOUS
<1>2. PICK T \in B : \A U \in B : U \subseteq T => U = T
  <2>1. B \in SUBSET (SUBSET rows) /\ IsFiniteSet(rows)
    BY DEF PricesOK
  <2> HIDE DEF B
  <2> QED
    BY <1>1, <2>1, LeastSet
<1>3. PICK x \in T : TRUE
  OBVIOUS
<1>4. CASE T = {x}
  BY <1>2, <1>4 DEF IsFirst
<1>5. CASE T # {x}
  <2>1. T \ {x} # {} /\ T \ {x} \in SUBSET rows /\ T \ {x} \notin B
    BY <1>2, <1>3, <1>5
  <2>2. PICK a \in T \ {x} : IsFirst(a, T \ {x})
    BY <2>1
  <2>3. a \in rows /\ x \in rows /\ T \subseteq rows /\ a # x
    BY <2>2
  <2>4. CASE Before(a, x)
    <3>1. IsFirst(a, T)
      BY <2>2, <2>4 DEF IsFirst
    <3> QED
      BY <1>2, <2>2, <3>1
  <2>5. CASE Before(x, a)
    <3>1. \A b \in T \ {x} : Before(x, b)
      <4>1. ASSUME NEW b \in T \ {x} PROVE Before(x, b)
        <5>1. CASE b = a
          BY <2>5, <5>1
        <5>2. CASE b # a
          <6>1. Before(a, b) /\ b \in rows
            BY <2>2, <2>3, <5>2 DEF IsFirst
          <6> QED
            BY <2>3, <2>5, <6>1, RowOrder
        <5> QED
          BY <5>1, <5>2
      <4> QED
        BY <4>1
    <3> QED
      BY <1>2, <1>3, <3>1 DEF IsFirst
  <2> QED
    BY <2>3, <2>4, <2>5, RowOrder
<1> QED
  BY <1>4, <1>5

LEMMA FirstIs ==
  ASSUME NEW rows, PricesOK(rows), NEW a, IsFirst(a, rows)
  PROVE  FirstRow(rows) = a
<1>1. \A b \in rows : IsFirst(b, rows) => b = a
  <2>1. ASSUME NEW b \in rows, IsFirst(b, rows), b # a PROVE FALSE
    <3>1. Before(a, b) /\ Before(b, a) /\ a \in rows
      BY <2>1 DEF IsFirst
    <3> QED
      BY <2>1, <3>1, RowOrder
  <2> QED
    BY <2>1
<1>2. rows # {} /\ FirstRow(rows) = CHOOSE b \in rows : \A c \in rows \ {b} : Before(b, c)
  BY DEF FirstRow, IsFirst
<1>3. IsFirst(FirstRow(rows), rows) /\ FirstRow(rows) \in rows
  BY <1>2 DEF IsFirst
<1> QED
  BY <1>1, <1>3

ValidAt(at) == {r \in Candidates : Valid(r, at)}

(* The query of a rate, in terms of the first of the valid rows.           *)
LEMMA RateIs ==
  ASSUME PricesOK(prices), NEW at
  PROVE  /\ ValidAt(at) = {} => RateAt(at) = Nil
         /\ \A a : IsFirst(a, ValidAt(at)) => RateAt(at) = a.rate
         /\ RateAt(at) \in Rates \cup {Nil}
<1>1. PricesOK(ValidAt(at)) /\ ValidAt(at) \subseteq PriceRows
  <2>1. ValidAt(at) \in SUBSET prices
    BY DEF ValidAt, Candidates
  <2> QED
    BY <2>1, SomeRows DEF PricesOK
<1>2. RateAt(at) = IF FirstRow(ValidAt(at)) = Nil THEN Nil ELSE FirstRow(ValidAt(at)).rate
  BY DEF RateAt, ValidAt
<1>3. \A r \in PriceRows : r # Nil /\ r.rate \in Rates
  BY CostAssumption DEF PriceRows
<1>4. ValidAt(at) = {} => RateAt(at) = Nil
  BY <1>2 DEF FirstRow
<1>5. ASSUME NEW a, IsFirst(a, ValidAt(at))
      PROVE  RateAt(at) = a.rate /\ a.rate \in Rates
  <2>1. FirstRow(ValidAt(at)) = a /\ a \in PriceRows
    BY <1>1, <1>5, FirstIs DEF IsFirst
  <2> QED
    BY <1>2, <1>3, <2>1
<1>6. RateAt(at) \in Rates \cup {Nil}
  BY <1>1, <1>4, <1>5, FirstExists
<1> QED
  BY <1>4, <1>5, <1>6

LEMMA BoundariesAreInstants ==
  ASSUME PricesOK(prices)
  PROVE  /\ Boundaries(0) \subseteq Nat
         /\ \A at : Boundaries(at) = Boundaries(0)
         /\ \A r \in Candidates : /\ r.from \in Boundaries(0) /\ r.from \in Nat
                                  /\ r.to # Nil => r.to \in Boundaries(0) /\ r.to \in Nat
<1>1. \A r \in Candidates : r.from \in Nat /\ (r.to # Nil => r.to \in Nat)
  BY DEF PricesOK, Candidates, PriceRows, OrNil
<1> QED
  BY <1>1 DEF Boundaries, AllBoundaries

(* A window has the boundaries before it on the one side, and those after  *)
(* it on the other.                                                        *)
LEMMA WindowReach ==
  ASSUME PricesOK(prices), NEW at \in Nat, NEW t \in Nat, Covers(Window(at), t)
  PROVE  /\ \A b \in Boundaries(0) : b <= at <=> b <= t
         /\ (\E b \in Boundaries(0) : b <= at)
               => Window(at).from \in Nat /\ Window(at).from <= t
         /\ Window(at).to # Nil => Window(at).to \in Nat /\ t < Window(at).to
<1> DEFINE past == {b \in Boundaries(at) : b <= at}
           next == {b \in Boundaries(at) : b > at}
           w == Window(at)
<1>1. /\ w.from = IF past = {} THEN Nil ELSE Max(past)
      /\ w.to = IF next = {} THEN Nil ELSE Min(next)
      /\ w.partial
  BY DEF Window
<1>2. past \in SUBSET Nat /\ next \in SUBSET Nat /\ \A b \in past : b <= at
  BY BoundariesAreInstants
<1>3. past # {} => Max(past) \in past /\ \A b \in past : b <= Max(past)
  <2> HIDE DEF past, next, w
  <2> QED
    BY <1>2, MaxIs
<1>4. next # {} => Min(next) \in next /\ \A b \in next : Min(next) <= b
  <2> HIDE DEF past, next, w
  <2> QED
    BY <1>2, MinIs
<1>5. (w.from = Nil \/ w.from <= t) /\ (w.to = Nil \/ t < w.to)
  BY <1>1 DEF Covers
<1>6. Nil \notin Nat
  BY CostAssumption
<1>7. past # {} => w.from = Max(past) /\ w.from \in Nat /\ w.from <= t
  <2> HIDE DEF past, next, w
  <2> QED
    BY <1>1, <1>2, <1>3, <1>5, <1>6
<1>8. next # {} => w.to = Min(next) /\ w.to \in Nat /\ t < w.to
  <2> HIDE DEF past, next, w
  <2> QED
    BY <1>1, <1>2, <1>4, <1>5, <1>6
<1>9. ASSUME NEW b \in Boundaries(0) PROVE b <= at <=> b <= t
  <2>1. b \in Nat /\ b \in Boundaries(at)
    BY BoundariesAreInstants
  <2>2. CASE b <= at
    <3>1. b \in past
      BY <2>1, <2>2
    <3>2. b <= w.from /\ w.from \in Nat /\ w.from <= t
      <4> HIDE DEF past, next, w
      <4> QED
        BY <1>3, <1>7, <3>1
    <3> HIDE DEF past, next, w
    <3> QED
      BY <2>1, <2>2, <3>2
  <2>3. CASE b > at
    <3>1. b \in next
      BY <2>1, <2>3
    <3>2. w.to <= b /\ w.to \in Nat /\ t < w.to
      <4> HIDE DEF past, next, w
      <4> QED
        BY <1>4, <1>8, <3>1
    <3> HIDE DEF past, next, w
    <3> QED
      BY <2>1, <2>3, <3>2
  <2> QED
    BY <2>1, <2>2, <2>3
<1>10. Boundaries(at) = Boundaries(0)
  BY BoundariesAreInstants
<1>11. (\E b \in Boundaries(0) : b <= at) => past # {}
  BY <1>10
<1> HIDE DEF past, next
<1> QED
  BY <1>1, <1>7, <1>8, <1>9, <1>11

LEMMA WindowCovers ==
  ASSUME PricesOK(prices), NEW at \in Nat PROVE Covers(Window(at), at)
<1> DEFINE past == {b \in Boundaries(at) : b <= at}
           next == {b \in Boundaries(at) : b > at}
           w == Window(at)
<1>1. /\ w.from = IF past = {} THEN Nil ELSE Max(past)
      /\ w.to = IF next = {} THEN Nil ELSE Min(next)
  BY DEF Window
<1>2. past \in SUBSET Nat /\ next \in SUBSET Nat /\ \A b \in past : b <= at
  BY BoundariesAreInstants
<1>3. past # {} => Max(past) <= at
  <2> HIDE DEF past, next, w
  <2> QED
    BY <1>2, MaxIs
<1>4. next # {} => Min(next) \in next
  <2> HIDE DEF past, next, w
  <2> QED
    BY <1>2, MinIs
<1>5. next # {} => at < Min(next)
  BY <1>2, <1>4
<1> HIDE DEF past, next
<1> QED
  BY <1>1, <1>3, <1>5 DEF Covers

(* Where a window reaches, the rate cannot change.                         *)
LEMMA WindowIsRight ==
  ASSUME PricesOK(prices), NEW at \in Nat, NEW t \in Nat, Covers(Window(at), t)
  PROVE  Select(Window(at), t) = RateAt(t)
<1> DEFINE w == Window(at)
<1>1. ASSUME NEW r \in Candidates PROVE Valid(r, at) <=> Valid(r, t)
  <2>1. r.from <= at <=> r.from <= t
    BY BoundariesAreInstants, WindowReach
  <2>2. CASE r.to = Nil
    BY <2>1, <2>2 DEF Valid
  <2>3. CASE r.to # Nil
    <3>1. r.to \in Nat /\ (r.to <= at <=> r.to <= t)
      BY <2>3, BoundariesAreInstants, WindowReach
    <3>2. at < r.to <=> t < r.to
      BY <3>1
    <3> QED
      BY <2>1, <3>2 DEF Valid
  <2> QED
    BY <2>2, <2>3
<1>2. ValidAt(at) = ValidAt(t)
  BY <1>1 DEF ValidAt
<1>3. RateAt(at) = RateAt(t)
  BY <1>2 DEF RateAt, ValidAt
<1>4. CASE RateAt(at) = Nil
  <2>1. w.rows = <<>>
    BY <1>4 DEF Window
  <2>2. {n \in DOMAIN w.rows : Valid(w.rows[n], t)} = {}
    BY <2>1
  <2> HIDE DEF w
  <2>3. Select(w, t) = Nil
    BY <2>2 DEF Select
  <2> QED
    BY <1>3, <1>4, <2>3 DEF w
<1>5. CASE RateAt(at) # Nil
  <2> DEFINE row == [model |-> "asked", from |-> w.from, to |-> w.to, rate |-> RateAt(at)]
  <2>1. w.rows = <<row>>
    BY <1>5 DEF Window
  <2>2. \E r \in Candidates : Valid(r, at)
    BY <1>5, RateIs DEF ValidAt
  <2>3. \E b \in Boundaries(0) : b <= at
    BY <2>2, BoundariesAreInstants DEF Valid
  <2>4. w.from <= t /\ (w.to = Nil \/ t < w.to)
    BY <2>3, WindowReach
  <2>5. Valid(row, t) /\ row.rate = RateAt(at)
    BY <2>4 DEF Valid
  <2> HIDE DEF row
  <2>6. DOMAIN w.rows = {1} /\ w.rows[1] = row
    <3> HIDE DEF w
    <3> QED
      BY <2>1
  <2> HIDE DEF w
  <2>7. {n \in DOMAIN w.rows : Valid(w.rows[n], t)} = {1}
    BY <2>5, <2>6
  <2>8. Min({1}) = 1
    BY MinIs
  <2>9. Select(w, t) = row.rate
    BY <2>6, <2>7, <2>8 DEF Select
  <2> QED
    BY <1>3, <2>5, <2>9 DEF w
<1> QED
  BY <1>4, <1>5

Sorts(s, rows) ==
  /\ s \in Bijection(1..Cardinality(rows), rows)
  /\ \A m, n \in DOMAIN s : m < n => Before(s[m], s[n])

LEMMA SortedExists ==
  ASSUME NEW rows, PricesOK(rows) PROVE \E s : Sorts(s, rows)
<1> DEFINE B == {T \in SUBSET rows : ~ \E s : Sorts(s, T)}
<1>1. SUFFICES ASSUME B # {} PROVE FALSE
  OBVIOUS
<1>2. PICK T \in B : \A U \in B : U \subseteq T => U = T
  <2>1. B \in SUBSET (SUBSET rows) /\ IsFiniteSet(rows)
    BY DEF PricesOK
  <2> HIDE DEF B
  <2> QED
    BY <1>1, <2>1, LeastSet
<1>3. CASE T = {}
  <2> DEFINE s == [n \in 1..0 |-> n]
  <2>1. Cardinality(T) = 0
    BY <1>3, FS_EmptySet
  <2>2. s \in Bijection(1..0, {})
    <3>1. 1..0 = {}
      OBVIOUS
    <3>2. s \in [1..0 -> {}] /\ DOMAIN s = {}
      BY <3>1
    <3> HIDE DEF s
    <3> QED
      BY <3>1, <3>2 DEF Bijection, Injection, Surjection, IsInjective
  <2>3. Sorts(s, T)
    BY <1>3, <2>1, <2>2 DEF Sorts
  <2> QED
    BY <1>2, <2>3
<1>4. CASE T # {}
  <2>1. PricesOK(T) /\ IsFiniteSet(T) /\ T \in SUBSET rows
    BY <1>2, SomeRows DEF PricesOK
  <2>2. PICK a \in T : IsFirst(a, T)
    BY <1>4, <2>1, FirstExists
  <2>3. T \ {a} \in SUBSET rows /\ T \ {a} \notin B
    BY <1>2, <2>1, <2>2
  <2>4. PICK s : Sorts(s, T \ {a})
    BY <2>3
  <2> DEFINE k == Cardinality(T \ {a})
             z == [n \in 1..(k + 1) |-> IF n = 1 THEN a ELSE s[n - 1]]
  <2>5. k \in Nat /\ Cardinality(T) = k + 1
    <3>1. IsFiniteSet(T \ {a}) /\ k = Cardinality(T) - 1
      BY <2>1, <2>2, FS_RemoveElement
    <3>2. k \in Nat /\ Cardinality(T) \in Nat
      BY <2>1, <3>1, FS_CardinalityType
    <3> QED
      BY <3>1, <3>2
  <2>6. /\ s \in [1..k -> T \ {a}] /\ DOMAIN s = 1..k
        /\ \A m, n \in 1..k : s[m] = s[n] => m = n
        /\ \A b \in T \ {a} : \E n \in 1..k : s[n] = b
        /\ \A m, n \in 1..k : m < n => Before(s[m], s[n])
    BY <2>4 DEF Sorts, Bijection, Injection, Surjection, IsInjective
  <2> HIDE DEF k
  <2>7. \A n \in 1..(k + 1) : n # 1 => n - 1 \in 1..k /\ z[n] = s[n - 1]
    BY <2>5
  <2>8. z[1] = a /\ DOMAIN z = 1..(k + 1) /\ 1 \in 1..(k + 1)
    BY <2>5
  <2>9. z \in [1..(k + 1) -> T]
    BY <2>2, <2>6, <2>7, <2>8
  <2>10. \A b \in T : \E n \in 1..(k + 1) : z[n] = b
    <3>1. ASSUME NEW b \in T \ {a} PROVE \E n \in 1..(k + 1) : z[n] = b
      <4>1. PICK n \in 1..k : s[n] = b
        BY <2>6
      <4>2. n + 1 \in 1..(k + 1) /\ n + 1 # 1 /\ (n + 1) - 1 = n
        BY <2>5
      <4> QED
        BY <2>7, <4>1, <4>2
    <3> QED
      BY <2>8, <3>1
  <2>11. ASSUME NEW m \in 1..(k + 1), NEW n \in 1..(k + 1), m < n
         PROVE  Before(z[m], z[n]) /\ z[m] # z[n]
    <3>1. n # 1 /\ n - 1 \in 1..k /\ z[n] = s[n - 1] /\ s[n - 1] \in T \ {a}
      BY <2>5, <2>6, <2>7, <2>11
    <3>2. CASE m = 1
      BY <2>2, <2>8, <3>1, <3>2 DEF IsFirst
    <3>3. CASE m # 1
      <4>1. m - 1 \in 1..k /\ z[m] = s[m - 1] /\ m - 1 < n - 1 /\ m - 1 # n - 1
        BY <2>5, <2>7, <2>11, <3>3
      <4> HIDE DEF z
      <4> QED
        BY <2>6, <3>1, <4>1
    <3> QED
      BY <3>2, <3>3
  <2> HIDE DEF z
  <2>12. \A m, n \in 1..(k + 1) : z[m] = z[n] => m = n
    BY <2>5, <2>11
  <2>13. z \in Bijection(1..(k + 1), T)
    BY <2>8, <2>9, <2>10, <2>12 DEF Bijection, Injection, Surjection, IsInjective
  <2>14. Sorts(z, T)
    BY <2>5, <2>8, <2>11, <2>13 DEF Sorts
  <2> QED
    BY <1>2, <2>14
<1> QED
  BY <1>3, <1>4

LEMMA SortedIs ==
  ASSUME NEW rows, PricesOK(rows) PROVE Sorts(Sorted(rows), rows)
<1>1. \E s \in Bijection(1..Cardinality(rows), rows) :
        \A m, n \in DOMAIN s : m < n => Before(s[m], s[n])
  BY SortedExists DEF Sorts
<1> QED
  BY <1>1 DEF Sorted, Sorts

(* The first valid row of a whole history is the row of the query.         *)
LEMMA HistoryIsRight ==
  ASSUME PricesOK(prices), NEW at \in Nat, NEW t \in Nat, Covers(History(at), t)
  PROVE  Select(History(at), t) = RateAt(t)
<1>1. CASE Cardinality(Candidates) > HistoryLimit
  <2>1. History(at) = Window(at)
    BY <1>1 DEF History
  <2> QED
    BY <2>1, WindowIsRight
<1>2. CASE ~(Cardinality(Candidates) > HistoryLimit)
  <2> DEFINE s == Sorted(Candidates)
             valid == {n \in DOMAIN s : Valid(s[n], t)}
  <2>1. History(at).rows = s
    BY <1>2 DEF History
  <2>2. Select(History(at), t) = IF valid = {} THEN Nil ELSE s[Min(valid)].rate
    BY <2>1 DEF Select
  <2>3. PricesOK(Candidates) /\ IsFiniteSet(Candidates)
    BY FS_EmptySet DEF Candidates, PricesOK
  <2>4. Sorts(s, Candidates)
    BY <2>3, SortedIs
  <2> HIDE DEF s
  <2>5. /\ DOMAIN s = 1..Cardinality(Candidates) /\ \A n \in DOMAIN s : s[n] \in Candidates
        /\ \A r \in Candidates : \E n \in DOMAIN s : s[n] = r
        /\ \A m, n \in DOMAIN s : m < n => Before(s[m], s[n])
    BY <2>4 DEF Sorts, Bijection, Injection, Surjection
  <2>6. DOMAIN s \subseteq Nat /\ valid \in SUBSET Nat
    BY <2>3, <2>5, FS_CardinalityType
  <2>7. CASE valid = {}
    <3>1. ValidAt(t) = {}
      BY <2>5, <2>7 DEF ValidAt
    <3> QED
      BY <2>2, <2>7, <3>1, RateIs
  <2>8. CASE valid # {}
    <3> DEFINE k == Min(valid)
    <3>1. k \in valid /\ \A n \in valid : k <= n
      <4> HIDE DEF valid
      <4> QED
        BY <2>6, <2>8, MinIs
    <3> HIDE DEF k
    <3>2. s[k] \in ValidAt(t) /\ k \in Nat
      BY <2>5, <2>6, <3>1 DEF ValidAt
    <3>3. ASSUME NEW r \in ValidAt(t) \ {s[k]} PROVE Before(s[k], r)
      <4>1. PICK n \in DOMAIN s : s[n] = r
        BY <2>5 DEF ValidAt
      <4>2. n \in valid /\ n # k /\ n \in Nat
        BY <2>6, <3>3, <4>1 DEF ValidAt
      <4>3. k < n
        BY <3>1, <3>2, <4>2
      <4> QED
        BY <2>5, <3>1, <4>1, <4>3
    <3>4. IsFirst(s[k], ValidAt(t))
      BY <3>2, <3>3 DEF IsFirst
    <3>5. RateAt(t) = s[k].rate
      BY <3>4, RateIs
    <3> QED
      BY <2>2, <2>8, <3>5 DEF k
  <2> QED
    BY <2>7, <2>8
<1> QED
  BY <1>1, <1>2

LEMMA HistoryCovers ==
  ASSUME PricesOK(prices), NEW at \in Nat PROVE Covers(History(at), at)
<1>1. CASE Cardinality(Candidates) > HistoryLimit
  BY <1>1, WindowCovers DEF History
<1>2. CASE ~(Cardinality(Candidates) > HistoryLimit)
  <2>1. ~History(at).partial
    BY <1>2 DEF History
  <2> QED
    BY <2>1 DEF Covers
<1> QED
  BY <1>1, <1>2

(* Whatever entry a lookup ends with, it has the rates of the table.       *)
LEMMA EntryIsRight ==
  ASSUME PricesOK(prices), RatesAreTheTables, NEW at \in Times
  PROVE  /\ \A t \in Times : Covers(EntryFor(at), t) => Select(EntryFor(at), t) = RateAt(t)
         /\ Select(EntryFor(at), at) = RateAt(at)
         /\ Select(EntryFor(at), at) \in Rates \cup {Nil}
<1>1. \A t \in Times : t \in Nat
  BY CostAssumption DEF Times
<1>2. CASE cached # Nil /\ Covers(cached, at)
  <2>1. EntryFor(at) = cached
    BY <1>2 DEF EntryFor
  <2> QED
    BY <1>2, <2>1, RateIs DEF RatesAreTheTables
<1>3. CASE ~(cached # Nil /\ Covers(cached, at))
  <2>1. EntryFor(at) = Window(at) \/ EntryFor(at) = History(at)
    BY <1>3 DEF EntryFor
  <2>2. Covers(EntryFor(at), at)
    BY <1>1, <2>1, WindowCovers, HistoryCovers
  <2>3. \A t \in Times : Covers(EntryFor(at), t) => Select(EntryFor(at), t) = RateAt(t)
    BY <1>1, <2>1, WindowIsRight, HistoryIsRight
  <2> QED
    BY <2>2, <2>3, RateIs
<1> QED
  BY <1>2, <1>3

-----------------------------------------------------------------------------
(* The price table under a change.                                         *)

LEMMA ImageIsFinite ==
  ASSUME NEW S, IsFiniteSet(S), NEW f, DOMAIN f = S, f \in [S -> {f[x] : x \in S}]
  PROVE  IsFiniteSet({f[x] : x \in S})
<1> DEFINE T == {f[x] : x \in S}
<1>1. f \in Surjection(S, T)
  BY DEF Surjection
<1> QED
  BY <1>1, FS_Surjection

(* Rows that keep their model and their beginning.                         *)
LEMMA ImageIsOK ==
  ASSUME NEW rows, PricesOK(rows), NEW f \in [rows -> PriceRows],
         \A r \in rows : f[r].model = r.model /\ f[r].from = r.from
  PROVE  PricesOK({f[r] : r \in rows})
<1>1. IsFiniteSet({f[r] : r \in rows})
  BY ImageIsFinite DEF PricesOK
<1> QED
  BY <1>1 DEF PricesOK

(* Two tables that have the same valid rows at an instant, but for their   *)
(* ends.                                                                   *)
Twins(r, q, t) ==
  Valid(r, t) /\ Valid(q, t) /\ r.model = q.model /\ r.from = q.from /\ r.rate = q.rate
Alike(rows, others, t) ==
  /\ \A r \in rows : Valid(r, t) => \E q \in others : Twins(r, q, t)
  /\ \A q \in others : Valid(q, t) => \E r \in rows : Twins(r, q, t)

LEMMA AlikeTwice ==
  ASSUME NEW a, NEW b, NEW c, NEW t, Alike(a, b, t), Alike(b, c, t)
  PROVE  Alike(a, c, t)
BY DEF Alike, Twins

RateOf(rows, t) ==
  LET row == FirstRow({r \in rows : Valid(r, t)})
  IN IF row = Nil THEN Nil ELSE row.rate

LEMMA AlikeRates ==
  ASSUME NEW rows, PricesOK(rows), NEW others, PricesOK(others), NEW t,
         Alike(rows, others, t)
  PROVE  RateOf(rows, t) = RateOf(others, t)
<1> DEFINE V == {r \in rows : Valid(r, t)}
           W == {r \in others : Valid(r, t)}
<1>1. PricesOK(V) /\ PricesOK(W)
  BY SomeRows
<1>2. CASE V = {}
  <2>1. W = {}
    BY <1>2 DEF Alike, Twins
  <2> QED
    BY <1>2, <2>1 DEF RateOf
<1>3. CASE V # {}
  <2>1. PICK a \in V : IsFirst(a, V)
    <3> HIDE DEF V
    <3> QED
      BY <1>1, <1>3, FirstExists
  <2>2. PICK q \in others : Twins(a, q, t)
    BY DEF Alike
  <2>3. q \in W
    BY <2>2 DEF Twins
  <2>4. ASSUME NEW b \in W \ {q} PROVE Before(q, b)
    <3>1. PICK r \in rows : Twins(r, b, t)
      BY DEF Alike
    <3>2. r # a
      BY <2>2, <2>4, <3>1 DEF Twins, PricesOK
    <3>3. Before(a, r)
      BY <2>1, <3>1, <3>2 DEF IsFirst, Twins
    <3> QED
      BY <2>2, <3>1, <3>3 DEF Twins, Before
  <2>5. IsFirst(q, W)
    BY <2>3, <2>4 DEF IsFirst
  <2>6. FirstRow(V) = a /\ FirstRow(W) = q
    <3> HIDE DEF V, W
    <3> QED
      BY <1>1, <2>1, <2>5, FirstIs
  <2>7. a # Nil /\ q # Nil /\ a.rate = q.rate
    BY <1>1, <2>2, <2>3, CostAssumption DEF PricesOK, Twins
  <2>8. RateOf(rows, t) = a.rate /\ RateOf(others, t) = q.rate
    BY <2>6, <2>7 DEF RateOf
  <2> QED
    BY <2>7, <2>8
<1> QED
  BY <1>2, <1>3

LEMMA WithoutKeeps ==
  ASSUME NEW rows, PricesOK(rows), NEW models, now \in Nat
  PROVE  /\ PricesOK(Without(rows, models))
         /\ \A t \in Nat : t < now => Alike(rows, Without(rows, models), t)
<1> DEFINE end(r) == IF r.model \in models \/ r.to # Nil THEN r
                     ELSE [r EXCEPT !.to = IF r.from > now THEN r.from ELSE now]
           f == [r \in rows |-> end(r)]
<1>1. ASSUME NEW r \in rows
      PROVE  /\ end(r) \in PriceRows /\ end(r).model = r.model /\ end(r).from = r.from
             /\ end(r).rate = r.rate
             /\ \A t \in Nat : t < now => (Valid(r, t) <=> Valid(end(r), t))
  <2>1. r \in PriceRows
    BY DEF PricesOK
  <2>2. CASE r.model \in models \/ r.to # Nil
    BY <2>1, <2>2
  <2>3. CASE ~(r.model \in models \/ r.to # Nil)
    <3> DEFINE n == IF r.from > now THEN r.from ELSE now
    <3>1. n \in Nat /\ n \in OrNil(Nat) /\ n >= now /\ r.from \in Nat /\ n # Nil
      BY <2>1, CostAssumption DEF PriceRows, OrNil
    <3>2. end(r) = [r EXCEPT !.to = n]
      BY <2>3
    <3> HIDE DEF n, end
    <3>3. /\ end(r) \in PriceRows /\ end(r).model = r.model /\ end(r).from = r.from
          /\ end(r).rate = r.rate /\ end(r).to = n
      BY <2>1, <3>1, <3>2 DEF PriceRows
    <3>4. \A t \in Nat : t < now => (Valid(r, t) <=> Valid(end(r), t))
      BY <2>3, <3>1, <3>3 DEF Valid
    <3> QED
      BY <3>3, <3>4
  <2> QED
    BY <2>2, <2>3
<1>2. Without(rows, models) = {f[r] : r \in rows}
  BY DEF Without
<1>3. /\ f \in [rows -> PriceRows]
      /\ \A r \in rows : /\ f[r].model = r.model /\ f[r].from = r.from /\ f[r].rate = r.rate
                         /\ \A t \in Nat : t < now => (Valid(r, t) <=> Valid(f[r], t))
  <2> HIDE DEF end
  <2> QED
    BY <1>1
<1> HIDE DEF f
<1>4. PricesOK(Without(rows, models))
  BY <1>2, <1>3, ImageIsOK
<1>5. \A t \in Nat : t < now => Alike(rows, Without(rows, models), t)
  BY <1>2, <1>3 DEF Alike, Twins
<1> QED
  BY <1>4, <1>5

LEMMA PricesKeep ==
  ASSUME NEW rows, PricesOK(rows), NEW model \in Models, NEW from \in Nat, NEW fees \in Rates
  PROVE  /\ PricesOK(Prices(rows, model, from, fees))
         /\ \A t \in Nat : t < from => Alike(rows, Prices(rows, model, from, fees), t)
<1> DEFINE end(r) == IF r.model = model /\ r.from < from /\ r.to = Nil
                     THEN [r EXCEPT !.to = from] ELSE r
           f == [r \in rows |-> end(r)]
           ended == {end(r) : r \in rows}
           same == {r \in ended : r.model = model /\ r.from = from}
           new == [model |-> model, from |-> from, to |-> Nil, rate |-> fees]
           priced(r) == IF r \in same THEN [r EXCEPT !.rate = fees] ELSE r
           g == [r \in ended |-> priced(r)]
<1>0. from \in OrNil(Nat) /\ from # Nil /\ Nil \in OrNil(Nat)
  BY CostAssumption DEF OrNil
<1>1. ASSUME NEW r \in rows
      PROVE  /\ end(r) \in PriceRows /\ end(r).model = r.model /\ end(r).from = r.from
             /\ end(r).rate = r.rate
             /\ \A t \in Nat : t < from => (Valid(r, t) <=> Valid(end(r), t))
  <2>1. r \in PriceRows /\ r.from \in Nat
    BY DEF PricesOK, PriceRows
  <2>2. CASE r.model = model /\ r.from < from /\ r.to = Nil
    <3>1. end(r) = [r EXCEPT !.to = from]
      BY <2>2
    <3> HIDE DEF end
    <3>2. /\ end(r) \in PriceRows /\ end(r).model = r.model /\ end(r).from = r.from
          /\ end(r).rate = r.rate /\ end(r).to = from
      BY <1>0, <2>1, <3>1 DEF PriceRows
    <3>3. \A t \in Nat : t < from => (Valid(r, t) <=> Valid(end(r), t))
      BY <1>0, <2>1, <2>2, <3>2 DEF Valid
    <3> QED
      BY <3>2, <3>3
  <2>3. CASE ~(r.model = model /\ r.from < from /\ r.to = Nil)
    <3>1. end(r) = r
      BY <2>3
    <3> HIDE DEF end
    <3> QED
      BY <2>1, <3>1
  <2> QED
    BY <2>2, <2>3
<1>2. ended = {f[r] : r \in rows}
  OBVIOUS
<1>3. /\ f \in [rows -> PriceRows]
      /\ \A r \in rows : /\ f[r].model = r.model /\ f[r].from = r.from /\ f[r].rate = r.rate
                         /\ \A t \in Nat : t < from => (Valid(r, t) <=> Valid(f[r], t))
  <2> HIDE DEF end
  <2> QED
    BY <1>1
<1>4. PricesOK(ended)
  <2> HIDE DEF f, end, ended
  <2> QED
    BY <1>2, <1>3, ImageIsOK
<1>5. \A t \in Nat : t < from => Alike(rows, ended, t)
  <2> HIDE DEF f, end, ended
  <2> QED
    BY <1>2, <1>3 DEF Alike, Twins
<1>6. Prices(rows, model, from, fees) =
        IF same = {} THEN ended \cup {new}
        ELSE (ended \ same) \cup {[r EXCEPT !.rate = fees] : r \in same}
  BY DEF Prices
<1> HIDE DEF f, end, ended
<1>7. CASE same = {}
  <2>1. new \in PriceRows /\ new.model = model /\ new.from = from
    BY <1>0 DEF PriceRows
  <2>2. \A t \in Nat : t < from => ~Valid(new, t)
    BY <2>1 DEF Valid
  <2> HIDE DEF new
  <2>3. PricesOK(ended \cup {new})
    <3>1. IsFiniteSet(ended \cup {new})
      BY <1>4, FS_AddElement DEF PricesOK
    <3> QED
      BY <1>4, <1>7, <2>1, <3>1 DEF PricesOK
  <2>4. \A t \in Nat : t < from => Alike(ended, ended \cup {new}, t)
    BY <2>2 DEF Alike, Twins
  <2> QED
    BY <1>5, <1>6, <1>7, <2>3, <2>4, AlikeTwice
<1>8. CASE same # {}
  <2>1. Prices(rows, model, from, fees) = {g[r] : r \in ended}
    <3>1. Prices(rows, model, from, fees)
            = (ended \ same) \cup {[r EXCEPT !.rate = fees] : r \in same}
      BY <1>6, <1>8
    <3>2. same \subseteq ended
      OBVIOUS
    <3> HIDE DEF same
    <3> QED
      BY <3>1, <3>2
  <2>2. ASSUME NEW r \in ended
        PROVE  /\ g[r] \in PriceRows /\ g[r].model = r.model /\ g[r].from = r.from
               /\ \A t \in Nat : t < from =>
                    (Valid(r, t) <=> Valid(g[r], t)) /\ (Valid(r, t) => g[r].rate = r.rate)
    <3>1. r \in PriceRows /\ r.from \in Nat
      BY <1>4 DEF PricesOK, PriceRows
    <3>2. CASE r \in same
      <4>1. g[r] = [r EXCEPT !.rate = fees] /\ r.from = from
        BY <3>2
      <4> HIDE DEF g
      <4>2. g[r] \in PriceRows /\ g[r].model = r.model /\ g[r].from = r.from
        BY <3>1, <4>1 DEF PriceRows
      <4>3. \A t \in Nat : t < from => ~Valid(r, t) /\ ~Valid(g[r], t)
        BY <4>1, <4>2 DEF Valid
      <4> QED
        BY <4>2, <4>3
    <3>3. CASE r \notin same
      <4>1. g[r] = r
        BY <3>3
      <4> HIDE DEF g
      <4> QED
        BY <3>1, <4>1
    <3> QED
      BY <3>2, <3>3
  <2>3. g \in [ended -> PriceRows]
    <3>1. DOMAIN g = ended /\ g = [r \in ended |-> g[r]]
      OBVIOUS
    <3> HIDE DEF g
    <3> QED
      BY <2>2, <3>1
  <2> HIDE DEF g, same
  <2>4. PricesOK({g[r] : r \in ended})
    BY <1>4, <2>2, <2>3, ImageIsOK
  <2>5. \A t \in Nat : t < from => Alike(ended, {g[r] : r \in ended}, t)
    BY <2>2 DEF Alike, Twins
  <2> QED
    BY <1>5, <2>1, <2>4, <2>5, AlikeTwice
<1> QED
  BY <1>7, <1>8

(* The fold that saves one model after the other.                          *)
PriceFold(g, rows, at, fees) ==
  g = [T \in SUBSET DOMAIN fees |->
         IF T = {} THEN rows
         ELSE Prices(g[T \ {Chosen(T)}], Chosen(T), at, fees[Chosen(T)])]

LEMMA RepricedIsAFold ==
  \A rows, from, fees :
    Repriced(rows, from, fees)
      = (CHOOSE g : PriceFold(g, rows, Or(from, now), fees))[DOMAIN fees]
BY DEF Repriced, FoldSet, MapThenFoldSet, PriceFold, Chosen

Saved(rows, m, at, fees) == Prices(rows, m, at, fees[m])

LEMMA RepricedIs ==
  ASSUME NEW rows, NEW from, NEW models \in SUBSET Models, NEW fees \in [models -> Rates],
         NEW at, at = Or(from, now), NEW done, done = Repriced(rows, from, fees)
  PROVE  \/ done = rows
         \/ \E m \in models : done = Saved(rows, m, at, fees)
         \/ \E m, n \in models : done = Saved(Saved(rows, m, at, fees), n, at, fees)
<1> DEFINE saved(some, m) == Saved(some, m, at, fees)
           rest(T) == T \ {Chosen(T)}
           h == [T \in SUBSET models |->
                   IF T = {} THEN rows
                   ELSE IF rest(T) = {} THEN saved(rows, Chosen(T))
                   ELSE saved(saved(rows, Chosen(rest(T))), Chosen(T))]
           F(g) == PriceFold(g, rows, at, fees)
<1>0. DOMAIN fees = models
  OBVIOUS
<1>1. \A T \in SUBSET models : T # {} => Chosen(T) \in T
  BY DEF Chosen
<1>2. ASSUME NEW T \in SUBSET models, T # {}
      PROVE  rest(T) \in SUBSET models /\ rest(rest(T)) = {}
  <2>1. Chosen(T) \in T /\ rest(T) \in SUBSET models
    BY <1>1, <1>2
  <2>2. CASE rest(T) = {}
    BY <2>2
  <2>3. CASE rest(T) # {}
    <3>1. Chosen(rest(T)) \in rest(T)
      BY <1>1, <2>1, <2>3
    <3> QED
      BY <2>1, <3>1 DEF Models
  <2> QED
    BY <2>1, <2>2, <2>3
<1>3. ASSUME NEW T \in SUBSET models
      PROVE  h[T] = IF T = {} THEN rows ELSE saved(h[rest(T)], Chosen(T))
  <2>1. CASE T = {}
    BY <2>1
  <2>2. CASE T # {} /\ rest(T) = {}
    <3>1. h[rest(T)] = rows
      BY <1>2, <2>2
    <3>2. h[T] = saved(rows, Chosen(T))
      BY <2>2
    <3> QED
      BY <2>2, <3>1, <3>2
  <2>3. CASE T # {} /\ rest(T) # {}
    <3>1. h[rest(T)] = saved(rows, Chosen(rest(T)))
      BY <1>2, <2>3
    <3>2. h[T] = saved(saved(rows, Chosen(rest(T))), Chosen(T))
      BY <2>3
    <3> HIDE DEF h
    <3> QED
      BY <2>3, <3>1, <3>2
  <2> QED
    BY <2>1, <2>2, <2>3
<1>4. F(h)
  <2>1. h = [T \in SUBSET models |-> h[T]]
    OBVIOUS
  <2> HIDE DEF h
  <2> QED
    BY <1>0, <1>3, <2>1 DEF PriceFold, Saved
<1> DEFINE i == CHOOSE g : F(g)
<1>5. F(i)
  <2> HIDE DEF F, h
  <2> QED
    BY <1>4
<1>6. \A T \in SUBSET models :
        i[T] = IF T = {} THEN rows ELSE saved(i[rest(T)], Chosen(T))
  <2> HIDE DEF i
  <2> QED
    BY <1>0, <1>5 DEF PriceFold, Saved
<1>7. done = i[models]
  BY <1>0, RepricedIsAFold
<1> HIDE DEF i, h, F
<1>8. CASE models = {}
  BY <1>6, <1>7, <1>8
<1>9. CASE models # {} /\ rest(models) = {}
  <2>1. i[models] = saved(i[rest(models)], Chosen(models)) /\ i[{}] = rows
    BY <1>6, <1>9
  <2>2. Chosen(models) \in models
    BY <1>1, <1>9
  <2> QED
    BY <1>7, <1>9, <2>1, <2>2
<1>10. CASE models # {} /\ rest(models) # {}
  <2>1. Chosen(models) \in models /\ rest(models) \in SUBSET models
    BY <1>1, <1>10
  <2>2. Chosen(rest(models)) \in rest(models) /\ rest(rest(models)) = {}
    BY <1>1, <1>2, <1>10, <2>1
  <2>3. i[{}] = rows
    BY <1>6
  <2>4. i[rest(models)] = saved(rows, Chosen(rest(models)))
    <3>1. i[rest(models)] = saved(i[rest(rest(models))], Chosen(rest(models)))
      BY <1>6, <1>10, <2>1
    <3> QED
      BY <2>2, <2>3, <3>1
  <2>5. i[models] = saved(i[rest(models)], Chosen(models))
    BY <1>6, <1>10
  <2>6. Chosen(rest(models)) \in models
    BY <2>1, <2>2
  <2> QED
    BY <1>7, <2>1, <2>4, <2>5, <2>6
<1> QED
  BY <1>8, <1>9, <1>10

(* What a save does to the table, and to the rates before now.             *)
LEMMA SaveKeeps ==
  ASSUME PricesOK(prices), now \in Nat, NEW from \in OrNil(Nat),
         NEW models \in SUBSET Models, NEW fees \in [models -> Rates],
         NEW done, done = Repriced(Without(prices, DOMAIN fees), from, fees)
  PROVE  /\ PricesOK(done)
         /\ \A t \in Nat : from = Nil /\ t < now => Alike(prices, done, t)
<1> DEFINE at == Or(from, now)
           next(rs, m) == Saved(rs, m, at, fees)
           rows == Without(prices, DOMAIN fees)
<1>1. at \in Nat /\ (from = Nil => at = now)
  BY DEF Or, OrNil
<1>2. PricesOK(rows) /\ \A t \in Nat : t < now => Alike(prices, rows, t)
  BY WithoutKeeps
<1>3. models \subseteq Models /\ \A m \in models : m \in Models /\ fees[m] \in Rates
  OBVIOUS
<1>4. ASSUME NEW rs, PricesOK(rs), NEW m \in models
      PROVE  /\ PricesOK(next(rs, m))
             /\ \A t \in Nat : t < at => Alike(rs, next(rs, m), t)
  <2> HIDE DEF at
  <2> QED
    BY <1>1, <1>3, <1>4, PricesKeep DEF Saved
<1>5. \/ done = rows
      \/ \E m \in models : done = next(rows, m)
      \/ \E m, n \in models : done = next(next(rows, m), n)
  <2>1. done = Repriced(rows, from, fees)
    OBVIOUS
  <2> HIDE DEF rows
  <2> QED
    BY <2>1, RepricedIs
<1> HIDE DEF rows, next, at
<1>6. CASE done = rows
  BY <1>2, <1>6
<1>7. ASSUME NEW m \in models, done = next(rows, m)
      PROVE  PricesOK(done) /\ \A t \in Nat : from = Nil /\ t < now => Alike(prices, done, t)
  BY <1>1, <1>2, <1>4, <1>7, AlikeTwice
<1>8. ASSUME NEW m \in models, NEW n \in models, done = next(next(rows, m), n)
      PROVE  PricesOK(done) /\ \A t \in Nat : from = Nil /\ t < now => Alike(prices, done, t)
  <2> DEFINE first == next(rows, m)
  <2>1. PricesOK(first) /\ \A t \in Nat : t < at => Alike(rows, first, t)
    BY <1>2, <1>4
  <2> HIDE DEF first
  <2>2. done = next(first, n)
    BY <1>8 DEF first
  <2>3. PricesOK(done) /\ \A t \in Nat : t < at => Alike(first, done, t)
    BY <1>4, <2>1, <2>2
  <2>4. ASSUME NEW t \in Nat, from = Nil, t < now PROVE Alike(prices, done, t)
    <3>1. Alike(prices, rows, t) /\ Alike(rows, first, t) /\ Alike(first, done, t)
      BY <1>1, <1>2, <2>1, <2>3, <2>4
    <3>2. Alike(prices, first, t)
      BY <3>1, AlikeTwice
    <3> QED
      BY <3>1, <3>2, AlikeTwice
  <2> QED
    BY <2>3, <2>4
<1> QED
  BY <1>5, <1>6, <1>7, <1>8

-----------------------------------------------------------------------------
(* Types, and the cache of rates.                                          *)

CostInv == CostTypeOK /\ RatesAreTheTables

LEMMA PlusType ==
  ASSUME NEW sum \in Sums, NEW cost \in Int, NEW known \in Int
  PROVE  /\ Plus(sum, cost, known) \in Sums
         /\ Plus(sum, cost, known).cost = sum.cost + cost
         /\ Plus(sum, cost, known).known = sum.known + known
BY DEF Plus, Sums

LEMMA ChargeTypes ==
  ASSUME NEW cost \in OrNil(Int)
  PROVE  Or(cost, 0) \in Int /\ Known(cost) \in Int
BY DEF Or, Known, OrNil

LEMMA CostsAreNumbers ==
  ASSUME NEW fees \in Rates, NEW u \in Usages, NEW protocol
  PROVE  Cost(fees, protocol, u) \in Int /\ QueriedCost(fees, protocol, u) \in Int
<1>1. fees.input \in Int /\ fees.read \in Int /\ fees.write \in Int
  BY CostAssumption
<1>2. /\ u.input \in OrNil(Int) /\ u.cached \in OrNil(Int) /\ u.creation \in OrNil(Int)
      /\ u.uncached \in OrNil(Int)
  BY DEF Usages
<1>3. \A n \in OrNil(Int), m \in Int : Or(n, m) \in Int
  BY DEF Or, OrNil
<1>4. \A n \in Int : NotNegative(n) \in Int
  BY DEF NotNegative
<1>5. \A a, b, c \in Int : a * fees.input + b * fees.read + c * fees.write \in Int
  BY <1>1
<1>6. Or(u.cached, 0) \in Int /\ Or(u.creation, 0) \in Int /\ Or(u.input, 0) \in Int
  BY <1>2, <1>3
<1>7. u.input # Nil => u.input \in Int /\ NotNegative(u.input) \in Int
                       /\ NotNegative(u.input - Or(u.cached, 0)) \in Int
  BY <1>2, <1>4, <1>6 DEF OrNil
<1>8. /\ Or(u.uncached, 0) \in Int /\ NotNegative(Or(u.input, 0)) \in Int
      /\ NotNegative(Or(u.input, 0) - Or(u.cached, 0)) \in Int
  BY <1>2, <1>3, <1>4, <1>6
<1> DEFINE inferred == IF u.input = Nil THEN 0 ELSE NotNegative(u.input - Or(u.cached, 0))
           input == IF protocol = "messages" /\ u.input # Nil THEN NotNegative(u.input)
                    ELSE Or(u.uncached, inferred)
           queried == IF protocol = "messages" THEN NotNegative(Or(u.input, 0))
                      ELSE Or(u.uncached, NotNegative(Or(u.input, 0) - Or(u.cached, 0)))
<1>9. inferred \in Int
  BY <1>7
<1>10. input \in Int
  <2> HIDE DEF inferred
  <2> QED
    BY <1>2, <1>3, <1>7, <1>9
<1>11. queried \in Int
  BY <1>2, <1>3, <1>8
<1>12. /\ Cost(fees, protocol, u)
            = input * fees.input + Or(u.cached, 0) * fees.read + Or(u.creation, 0) * fees.write
       /\ QueriedCost(fees, protocol, u)
            = queried * fees.input + Or(u.cached, 0) * fees.read + Or(u.creation, 0) * fees.write
  BY DEF Cost, QueriedCost
<1> HIDE DEF input, queried
<1> QED
  BY <1>5, <1>6, <1>10, <1>11, <1>12

LEMMA LogsAre ==
  ASSUME log \in Seq(Logs)
  PROVE  /\ DOMAIN log = 1..Len(log) /\ Len(log) \in Nat /\ IsFiniteSet(DOMAIN log)
         /\ \A i \in DOMAIN log :
              /\ log[i] \in Logs /\ log[i].at \in Times /\ log[i].usage \in Usages
              /\ log[i].cost \in OrNil(Int) /\ log[i].counted \in BOOLEAN
<1>1. DOMAIN log = 1..Len(log) /\ Len(log) \in Nat /\ \A i \in DOMAIN log : log[i] \in Logs
  OBVIOUS
<1>2. IsFiniteSet(DOMAIN log)
  BY <1>1, FS_Interval
<1> QED
  BY <1>1, <1>2 DEF Logs

LEMMA CorrectedAre ==
  ASSUME CostTypeOK, NEW from, NEW to, NEW i \in Corrected(from, to)
  PROVE  /\ i \in DOMAIN log /\ log[i].counted
         /\ NewCost(i) \in Int /\ RateAt(log[i].at) \in Rates
<1>1. /\ i \in DOMAIN log /\ log[i].counted /\ RateAt(log[i].at) # Nil
  BY DEF Corrected
<1>2. log[i].usage \in Usages
  BY <1>1, LogsAre DEF CostTypeOK
<1>3. RateAt(log[i].at) \in Rates
  BY <1>1, RateIs DEF CostTypeOK
<1> QED
  BY <1>1, <1>2, <1>3, CostsAreNumbers DEF NewCost

LEMMA ChangesAre ==
  ASSUME CostTypeOK, NEW from, NEW to, NEW S \in SUBSET Corrected(from, to)
  PROVE  /\ IsFiniteSet(S)
         /\ \A i \in S : Change[i] \in Int /\ NewlyKnown[i] \in Int
         /\ Total(Change, S) \in Int /\ Total(NewlyKnown, S) \in Int
<1>1. S \in SUBSET DOMAIN log
  BY CorrectedAre
<1>2. IsFiniteSet(S)
  BY <1>1, LogsAre, FS_Subset DEF CostTypeOK
<1>3. ASSUME NEW i \in S PROVE Change[i] \in Int /\ NewlyKnown[i] \in Int
  <2>1. i \in DOMAIN log /\ NewCost(i) \in Int /\ log[i].cost \in OrNil(Int)
    BY <1>1, CorrectedAre, LogsAre DEF CostTypeOK
  <2>2. Or(log[i].cost, 0) \in Int /\ Known(log[i].cost) \in Int
    BY <2>1, ChargeTypes
  <2> QED
    BY <2>1, <2>2 DEF Change, NewlyKnown, Delta
<1> QED
  BY <1>2, <1>3, TotalFacts

LEMMA CountedType ==
  ASSUME NEW rows \in [UsageRows -> OrNil(Sums)], NEW at, NEW cost \in OrNil(Int)
  PROVE  Counted(rows, at, cost) \in [UsageRows -> OrNil(Sums)]
<1>1. Or(cost, 0) \in Int /\ Known(cost) \in Int /\ Zero \in Sums
  BY ChargeTypes DEF Zero, Sums
<1>2. ASSUME NEW r \in UsageRows
      PROVE  Plus(IF rows[r] = Nil THEN Zero ELSE rows[r], Or(cost, 0), Known(cost)) \in Sums
  <2>1. (IF rows[r] = Nil THEN Zero ELSE rows[r]) \in Sums
    BY <1>1 DEF OrNil
  <2> QED
    BY <1>1, <2>1, PlusType
<1> QED
  BY <1>2 DEF Counted, OrNil

(* The cache of a table that stands is as good as before.                  *)
LEMMA RatesStand ==
  ASSUME UNCHANGED tariff PROVE \A t : RateAt(t)' = RateAt(t)
BY DEF tariff, RateAt, Candidates

LEMMA SameRates ==
  ASSUME CostInv, UNCHANGED tariff,
         \/ cached' = cached \/ cached' = Nil
         \/ \E at \in {now - 1, now} \cap Nat : cached' = EntryFor(at)
  PROVE  RatesAreTheTables'
<1>1. \A t : RateAt(t)' = RateAt(t)
  BY RatesStand
<1>2. CASE cached' = cached
  BY <1>1, <1>2 DEF CostInv, RatesAreTheTables, tariff, Select, Covers
<1>3. CASE cached' = Nil
  BY <1>3 DEF RatesAreTheTables
<1>4. ASSUME NEW at \in {now - 1, now} \cap Nat, cached' = EntryFor(at)
      PROVE  RatesAreTheTables'
  <2>1. at \in Times
    BY CostAssumption DEF CostInv, CostTypeOK, Times
  <2>2. \A t \in Times : Covers(cached', t) => Select(cached', t) = RateAt(t)
    BY <1>4, <2>1, EntryIsRight DEF CostInv, CostTypeOK
  <2> QED
    BY <1>1, <2>2 DEF RatesAreTheTables
<1> QED
  BY <1>2, <1>3, <1>4

LEMMA CostInitInv == CostInit => CostInv
<1> SUFFICES ASSUME CostInit PROVE CostInv
  OBVIOUS
<1>1. now \in Times /\ PricesOK(prices) /\ attached \in BOOLEAN /\ owned \in BOOLEAN
  BY CostAssumption, FS_EmptySet DEF CostInit, Times, PricesOK
<1>2. left \in [saves : Nat, logs : Nat]
  BY CostAssumption DEF CostInit
<1>3. PICK legacy \in {<<>>} \cup {<<l>> : l \in Legacy} :
        /\ log = legacy
        /\ usage = IF legacy = <<>> THEN [r \in UsageRows |-> Nil]
                   ELSE Counted([r \in UsageRows |-> Nil], legacy[1].at, legacy[1].cost)
        /\ lifetime = IF legacy = <<>> THEN Zero
                      ELSE Plus(Zero, Or(legacy[1].cost, 0), Known(legacy[1].cost))
  BY DEF CostInit
<1>4. Zero \in Sums /\ [r \in UsageRows |-> Nil] \in [UsageRows -> OrNil(Sums)]
  BY DEF Zero, Sums, OrNil
<1>5. log \in Seq(Logs) /\ usage \in [UsageRows -> OrNil(Sums)] /\ lifetime \in Sums
  <2>1. CASE legacy = <<>>
    BY <1>3, <1>4, <2>1
  <2>2. ASSUME NEW l \in Legacy, legacy = <<l>> PROVE log \in Seq(Logs)
             /\ usage \in [UsageRows -> OrNil(Sums)] /\ lifetime \in Sums
    <3>1. l \in Logs /\ legacy[1] = l /\ legacy # <<>>
      BY <2>2, CostAssumption
    <3>2. l.cost \in OrNil(Int) /\ Or(l.cost, 0) \in Int /\ Known(l.cost) \in Int
      BY <3>1, ChargeTypes DEF Logs
    <3>3. usage \in [UsageRows -> OrNil(Sums)]
      BY <1>3, <1>4, <3>1, <3>2, CountedType
    <3>4. lifetime \in Sums
      BY <1>3, <1>4, <3>1, <3>2, PlusType
    <3> QED
      BY <1>3, <2>2, <3>1, <3>3, <3>4
  <2> QED
    BY <1>3, <2>1, <2>2
<1>6. cached = Nil
  BY DEF CostInit
<1> QED
  BY <1>1, <1>2, <1>5, <1>6 DEF CostInv, CostTypeOK, RatesAreTheTables

(* The steps that only spend, clear or fill the cache, or let time pass.   *)
LEMMA SmallSteps ==
  ASSUME CostInv, Charge \/ DeleteOwner \/ Expire \/ Hour PROVE CostInv'
<1>1. UNCHANGED tariff /\ UNCHANGED <<log, usage, lifetime, left>>
  <2>1. CASE Charge
    BY <2>1 DEF Charge, ledger
  <2>2. CASE DeleteOwner
    BY <2>2 DEF DeleteOwner
  <2>3. CASE Expire
    BY <2>3 DEF Expire, ledger
  <2>4. CASE Hour
    BY <2>4 DEF Hour, ledger
  <2> QED
    BY <2>1, <2>2, <2>3, <2>4
<1>2. now' \in Times /\ owned' \in BOOLEAN
  <2>0. now \in Times /\ owned \in BOOLEAN /\ MaxTime \in Nat
    BY CostAssumption DEF CostInv, CostTypeOK
  <2>1. CASE Charge
    BY <2>0, <2>1 DEF Charge, ledger
  <2>2. CASE DeleteOwner
    BY <2>0, <2>2 DEF DeleteOwner
  <2>3. CASE Expire
    BY <2>0, <2>3 DEF Expire, ledger
  <2>4. CASE Hour
    <3>1. now < MaxTime /\ now' = now + 1 /\ owned' = owned
      BY <2>4 DEF Hour, ledger
    <3> QED
      BY <2>0, <3>1 DEF Times
  <2> QED
    BY <2>1, <2>2, <2>3, <2>4
<1>3. CostTypeOK'
  BY <1>1, <1>2 DEF CostInv, CostTypeOK, tariff
<1>4. \/ cached' = cached \/ cached' = Nil
      \/ \E at \in {now - 1, now} \cap Nat : cached' = EntryFor(at)
  BY DEF Charge, DeleteOwner, Expire, Hour
<1>5. RatesAreTheTables'
  BY <1>1, <1>4, SameRates
<1> QED
  BY <1>3, <1>5 DEF CostInv

LEMMA SaveStep ==
  ASSUME CostInv, NEW models \in SUBSET Models, NEW from \in ValidFroms,
         NEW fees \in [models -> Rates], Save(fees, from)
  PROVE  CostInv'
<1>1. PricesOK(prices')
  <2>1. from \in OrNil(Nat) /\ now \in Nat /\ PricesOK(prices)
    BY CostAssumption DEF CostInv, CostTypeOK, Times
  <2>2. prices' = Repriced(Without(prices, DOMAIN fees), from, fees)
    BY DEF Save
  <2> QED
    BY <2>1, <2>2, SaveKeeps
<1>2. left' \in [saves : Nat, logs : Nat]
  BY DEF Save, CostInv, CostTypeOK
<1>3. CostTypeOK'
  BY <1>1, <1>2 DEF Save, CostInv, CostTypeOK, ledger
<1> QED
  BY <1>3 DEF Save, CostInv, RatesAreTheTables

LEMMA ProfileSteps ==
  ASSUME CostInv, Attach \/ DeleteProfile PROVE CostInv'
<1>1. left' \in [saves : Nat, logs : Nat]
  BY DEF Attach, DeleteProfile, CostInv, CostTypeOK
<1>2. PricesOK(prices') /\ attached' \in BOOLEAN
  BY FS_EmptySet DEF Attach, DeleteProfile, CostInv, CostTypeOK, PricesOK
<1>3. CostTypeOK' /\ cached' = Nil
  BY <1>1, <1>2 DEF Attach, DeleteProfile, CostInv, CostTypeOK, ledger
<1> QED
  BY <1>3 DEF CostInv, RatesAreTheTables

(* What a request is logged with.                                          *)
Logged(at, q, cost) ==
  [at |-> at, protocol |-> q.protocol, usage |-> q.usage, cost |-> cost,
   version |-> 2, counted |-> owned, gone |-> FALSE]

LEMMA RecordEffect ==
  ASSUME CostInv, Record
  PROVE  /\ \E at \in {now - 1, now} \cap Times, q \in Requests, cost \in OrNil(Int) :
              /\ Logged(at, q, cost) \in Logs
              /\ log' = Append(log, Logged(at, q, cost))
              /\ usage' = IF owned THEN Counted(usage, at, cost) ELSE usage
              /\ lifetime' = IF owned THEN Plus(lifetime, Or(cost, 0), Known(cost))
                             ELSE lifetime
         /\ \/ cached' = cached
            \/ \E at \in {now - 1, now} \cap Nat : cached' = EntryFor(at)
         /\ UNCHANGED <<now, tariff, owned>> /\ left' \in [saves : Nat, logs : Nat]
<1>1. PICK at \in {now - 1, now} \cap Nat, q \in Requests :
        LET fees == Select(EntryFor(at), at)
            cost == IF HasUsage(q.usage) /\ fees # Nil
                    THEN Cost(fees, q.protocol, q.usage) ELSE Nil
        IN /\ cached' = IF HasUsage(q.usage) THEN EntryFor(at) ELSE cached
           /\ log' = Append(log, Logged(at, q, cost))
           /\ usage' = IF owned THEN Counted(usage, at, cost) ELSE usage
           /\ lifetime' = IF owned THEN Plus(lifetime, Or(cost, 0), Known(cost)) ELSE lifetime
  BY DEF Record, Logged
<1> DEFINE fees == Select(EntryFor(at), at)
           cost == IF HasUsage(q.usage) /\ fees # Nil
                   THEN Cost(fees, q.protocol, q.usage) ELSE Nil
<1>2. at \in Times /\ at \in {now - 1, now} \cap Times
  BY CostAssumption DEF CostInv, CostTypeOK, Times
<1>3. fees \in Rates \cup {Nil}
  BY <1>2, EntryIsRight DEF CostInv, CostTypeOK
<1>4. q.usage \in Usages /\ q.protocol \in {"messages", "chat", "responses"}
  BY CostAssumption
<1>5. cost \in OrNil(Int)
  <2> HIDE DEF fees
  <2> QED
    BY <1>3, <1>4, CostsAreNumbers DEF OrNil
<1>6. /\ cached' = IF HasUsage(q.usage) THEN EntryFor(at) ELSE cached
      /\ log' = Append(log, Logged(at, q, cost))
      /\ usage' = IF owned THEN Counted(usage, at, cost) ELSE usage
      /\ lifetime' = IF owned THEN Plus(lifetime, Or(cost, 0), Known(cost)) ELSE lifetime
  BY <1>1
<1> HIDE DEF cost
<1>7. Logged(at, q, cost) \in Logs
  BY <1>2, <1>4, <1>5 DEF Logged, Logs, CostInv, CostTypeOK
<1>8. UNCHANGED <<now, tariff, owned>> /\ left' \in [saves : Nat, logs : Nat]
  BY DEF Record, CostInv, CostTypeOK
<1>9. \/ cached' = cached
      \/ \E t \in {now - 1, now} \cap Nat : cached' = EntryFor(t)
  BY <1>6
<1> QED
  BY <1>2, <1>5, <1>6, <1>7, <1>8, <1>9

LEMMA RecordStep == ASSUME CostInv, Record PROVE CostInv'
<1>1. PICK at \in {now - 1, now} \cap Times, q \in Requests, cost \in OrNil(Int) :
        /\ Logged(at, q, cost) \in Logs
        /\ log' = Append(log, Logged(at, q, cost))
        /\ usage' = IF owned THEN Counted(usage, at, cost) ELSE usage
        /\ lifetime' = IF owned THEN Plus(lifetime, Or(cost, 0), Known(cost)) ELSE lifetime
  BY RecordEffect
<1>2. /\ cached' = cached \/ \E t \in {now - 1, now} \cap Nat : cached' = EntryFor(t)
      /\ UNCHANGED <<now, tariff, owned>> /\ left' \in [saves : Nat, logs : Nat]
  BY RecordEffect
<1>3. log' \in Seq(Logs)
  BY <1>1 DEF CostInv, CostTypeOK
<1>4. usage' \in [UsageRows -> OrNil(Sums)]
  BY <1>1, CountedType DEF CostInv, CostTypeOK
<1>5. lifetime' \in Sums
  BY <1>1, ChargeTypes, PlusType DEF CostInv, CostTypeOK
<1>6. CostTypeOK'
  BY <1>2, <1>3, <1>4, <1>5 DEF CostInv, CostTypeOK, tariff
<1>7. RatesAreTheTables'
  BY <1>2, SameRates
<1> QED
  BY <1>6, <1>7 DEF CostInv

LEMMA BackfillStep ==
  ASSUME CostInv, NEW from, NEW to, Backfill(from, to) PROVE CostInv'
<1> DEFINE set == Corrected(from, to)
<1>0. CostTypeOK
  BY DEF CostInv
<1>1. log' \in Seq(Logs)
  <2>1. DOMAIN log = 1..Len(log) /\ Len(log) \in Nat /\ \A i \in DOMAIN log : log[i] \in Logs
    BY <1>0, LogsAre DEF CostTypeOK
  <2>2. ASSUME NEW i \in DOMAIN log
        PROVE  (IF i \in set THEN [log[i] EXCEPT !.cost = NewCost(i), !.version = 2]
                ELSE log[i]) \in Logs
    <3>1. CASE i \in set
      <4>1. NewCost(i) \in OrNil(Int)
        BY <1>0, <3>1, CorrectedAre DEF OrNil
      <4> HIDE DEF set
      <4> QED
        BY <2>1, <3>1, <4>1 DEF Logs
    <3>2. CASE i \notin set
      BY <2>1, <3>2
    <3> QED
      BY <3>1, <3>2
  <2>3. log' = [i \in DOMAIN log |->
                  IF i \in set THEN [log[i] EXCEPT !.cost = NewCost(i), !.version = 2]
                  ELSE log[i]]
    BY DEF Backfill
  <2>4. log' \in [1..Len(log) -> Logs]
    <3> HIDE DEF set
    <3> QED
      BY <2>1, <2>2, <2>3
  <2> QED
    BY <2>1, <2>4
<1>2. usage' \in [UsageRows -> OrNil(Sums)]
  <2> DEFINE of(r) == {i \in set : r \in RowsAt(log[i].at)}
  <2>1. usage' = [r \in UsageRows |->
                    IF usage[r] = Nil THEN Nil
                    ELSE Plus(usage[r], Total(Change, of(r)), Total(NewlyKnown, of(r)))]
    BY DEF Backfill
  <2>2. ASSUME NEW r \in UsageRows, usage[r] # Nil
        PROVE  Plus(usage[r], Total(Change, of(r)), Total(NewlyKnown, of(r))) \in Sums
    <3>1. of(r) \in SUBSET set
      OBVIOUS
    <3> HIDE DEF of
    <3>2. Total(Change, of(r)) \in Int /\ Total(NewlyKnown, of(r)) \in Int
      BY <1>0, <3>1, ChangesAre
    <3>3. usage[r] \in Sums
      BY <1>0, <2>2 DEF CostTypeOK, OrNil
    <3> QED
      BY <3>2, <3>3, PlusType
  <2> HIDE DEF of
  <2> QED
    BY <2>1, <2>2 DEF OrNil
<1>3. lifetime' \in Sums
  <2>1. Total(Change, set) \in Int /\ Total(NewlyKnown, set) \in Int
    BY <1>0, ChangesAre
  <2>2. lifetime' = Plus(lifetime, Total(Change, set), Total(NewlyKnown, set))
    BY DEF Backfill
  <2> QED
    BY <1>0, <2>1, <2>2, PlusType DEF CostTypeOK
<1>4. CostTypeOK' /\ cached' = Nil
  BY <1>0, <1>1, <1>2, <1>3 DEF Backfill, CostTypeOK, tariff
<1> QED
  BY <1>4 DEF CostInv, RatesAreTheTables

LEMMA CleanupStep ==
  ASSUME CostInv, CleanupRows PROVE CostInv'
<1>0. CostTypeOK
  BY DEF CostInv
<1>1. PICK before \in 0..(now - Retention) :
        /\ \/ /\ log' = [i \in DOMAIN log |-> [log[i] EXCEPT !.gone = @ \/ log[i].at < before]]
              /\ UNCHANGED usage
           \/ /\ usage' = [r \in UsageRows |->
                             IF r[1] = "day" /\ r[2] < before \div DayHours THEN Nil ELSE usage[r]]
              /\ UNCHANGED log
           \/ /\ usage' = [r \in UsageRows |->
                             IF r[1] = "hour" /\ r[2] < before THEN Nil ELSE usage[r]]
              /\ UNCHANGED log
        /\ UNCHANGED <<now, cached, left, tariff, owned, lifetime>>
  BY DEF CleanupRows
<1>2. log' \in Seq(Logs)
  <2>1. CASE UNCHANGED log
    BY <1>0, <2>1 DEF CostTypeOK
  <2>2. CASE log' = [i \in DOMAIN log |-> [log[i] EXCEPT !.gone = @ \/ log[i].at < before]]
    <3>1. DOMAIN log = 1..Len(log) /\ Len(log) \in Nat /\ \A i \in DOMAIN log : log[i] \in Logs
      BY <1>0, LogsAre DEF CostTypeOK
    <3>2. ASSUME NEW i \in DOMAIN log
          PROVE  [log[i] EXCEPT !.gone = @ \/ log[i].at < before] \in Logs
      BY <3>1 DEF Logs
    <3>3. log' \in [1..Len(log) -> Logs]
      BY <2>2, <3>1, <3>2
    <3> QED
      BY <3>1, <3>3
  <2> QED
    BY <1>1, <2>1, <2>2
<1>3. usage' \in [UsageRows -> OrNil(Sums)]
  <2>1. usage \in [UsageRows -> OrNil(Sums)] /\ Nil \in OrNil(Sums)
    BY <1>0 DEF CostTypeOK, OrNil
  <2> QED
    BY <1>1, <2>1
<1>4. CostTypeOK' /\ UNCHANGED tariff /\ cached' = cached
  BY <1>0, <1>1, <1>2, <1>3 DEF CostTypeOK, tariff
<1> QED
  BY <1>4, SameRates DEF CostInv

LEMMA CostNextInv == CostInv /\ [CostNext]_costVars => CostInv'
<1> SUFFICES ASSUME CostInv, [CostNext]_costVars PROVE CostInv'
  OBVIOUS
<1>1. ASSUME NEW models \in SUBSET Models, NEW from \in ValidFroms,
             NEW fees \in [models -> Rates], Save(fees, from)
      PROVE  CostInv'
  BY <1>1, SaveStep
<1>2. CASE Attach \/ DeleteProfile
  BY <1>2, ProfileSteps
<1>3. CASE Charge \/ DeleteOwner \/ Expire \/ Hour
  BY <1>3, SmallSteps
<1>4. CASE Record
  BY <1>4, RecordStep
<1>5. ASSUME NEW from \in 0..(MaxTime \div DayHours), NEW to \in 0..(MaxTime \div DayHours),
             Backfill(from, to)
      PROVE  CostInv'
  BY <1>5, BackfillStep
<1>6. CASE CleanupRows
  BY <1>6, CleanupStep
<1>7. CASE UNCHANGED costVars
  <2>1. UNCHANGED <<now, cached, left, prices, attached, owned, log, usage, lifetime>>
    BY <1>7 DEF costVars, tariff, ledger
  <2>2. CostTypeOK' /\ UNCHANGED tariff /\ cached' = cached
    BY <2>1 DEF CostInv, CostTypeOK, tariff
  <2> QED
    BY <2>2, SameRates DEF CostInv
<1> QED
  BY <1>1, <1>2, <1>3, <1>4, <1>5, <1>6, <1>7 DEF CostNext

(* The ledger, the prices and the cache keep their types.                  *)
THEOREM CostTypeCorrect == CostSpec => []CostTypeOK
<1>1. CostSpec => []CostInv
  BY CostInitInv, CostNextInv, PTL DEF CostSpec
<1>2. CostInv => CostTypeOK
  BY DEF CostInv
<1> QED
  BY <1>1, <1>2, PTL

(* Whatever instant the cache answers for, the price table would give the  *)
(* same rate (pricingRate, loadPricingWindow, selectPricingRate), for any  *)
(* history and any limit of rows.                                          *)
THEOREM CacheHasTheRates == CostSpec => []RatesAreTheTables
<1>1. CostSpec => []CostInv
  BY CostInitInv, CostNextInv, PTL DEF CostSpec
<1>2. CostInv => RatesAreTheTables
  BY DEF CostInv
<1> QED
  BY <1>1, <1>2, PTL

-----------------------------------------------------------------------------
(* The ledger.                                                             *)

All == {i \in DOMAIN log : log[i].counted}
InRow(r) == {i \in All : r \in RowsAt(log[i].at)}
SumOf(costs, counts, S) == [cost |-> Total(costs, S), known |-> Total(counts, S)]

(* A row of usage that is missing although requests were counted in it is  *)
(* one that was cleaned up: no request that is logged now belongs to it.   *)
Rebuilt ==
  \A r \in UsageRows :
    usage[r] = Nil /\ InRow(r) # {} =>
      \A at \in Times : r \in RowsAt(at) => at < now - Retention

LedgerInv == CostInv /\ Rebuilt /\ LedgerAgrees

LEMMA LedgerIs ==
  /\ LedgerAgrees <=>
       /\ lifetime = SumOf(LogCost, LogKnown, All)
       /\ \A r \in UsageRows : usage[r] # Nil => usage[r] = SumOf(LogCost, LogKnown, InRow(r))
  /\ LedgerAgrees' <=>
       /\ lifetime' = SumOf(LogCost', LogKnown', All')
       /\ \A r \in UsageRows :
            usage'[r] # Nil => usage'[r] = SumOf(LogCost', LogKnown', InRow(r)')
BY DEF LedgerAgrees, All, InRow, SumOf

LEMMA LogValues ==
  ASSUME CostTypeOK
  PROVE  /\ \A i \in DOMAIN log : LogCost[i] \in Int /\ LogKnown[i] \in Int
         /\ IsFiniteSet(All) /\ All \in SUBSET DOMAIN log
         /\ \A r : IsFiniteSet(InRow(r)) /\ InRow(r) \in SUBSET All
<1>1. \A i \in DOMAIN log : log[i].cost \in OrNil(Int)
  BY LogsAre DEF CostTypeOK
<1>2. \A i \in DOMAIN log : LogCost[i] \in Int /\ LogKnown[i] \in Int
  BY <1>1, ChargeTypes DEF LogCost, LogKnown
<1>3. All \in SUBSET DOMAIN log /\ \A r : InRow(r) \in SUBSET All
  BY DEF All, InRow
<1>4. IsFiniteSet(All)
  BY <1>3, LogsAre, FS_Subset DEF CostTypeOK
<1> QED
  BY <1>2, <1>3, <1>4, FS_Subset

(* One more request in a sum.                                              *)
Grown(h, f, S, n) ==
  /\ IsFiniteSet(S) /\ n \notin S /\ h[n] \in Int
  /\ \A x \in S : f[x] \in Int /\ h[x] = f[x]

LEMMA TotalGrows ==
  ASSUME NEW S, NEW n, NEW f, NEW h, Grown(h, f, S, n)
  PROVE  Total(h, S \cup {n}) = Total(f, S) + h[n]
<1> USE DEF Grown
<1>1. IsFiniteSet(S \cup {n}) /\ (S \cup {n}) \ {n} = S
  BY FS_AddElement
<1>2. Total(h, S \cup {n}) = h[n] + Total(h, S)
  <2>1. \A x \in S \cup {n} : h[x] \in Int
    OBVIOUS
  <2>2. n \in S \cup {n}
    OBVIOUS
  <2>3. Total(h, S \cup {n}) = h[n] + Total(h, (S \cup {n}) \ {n})
    BY <1>1, <2>1, <2>2, TotalFacts
  <2> QED
    BY <1>1, <2>3
<1>3. Total(h, S) = Total(f, S) /\ Total(f, S) \in Int
  BY TotalSame, TotalFacts
<1> QED
  BY <1>2, <1>3

LEMMA SumSame ==
  ASSUME NEW S, IsFiniteSet(S), NEW costs, NEW counts, NEW costs2, NEW counts2,
         \A x \in S : costs[x] \in Int /\ counts[x] \in Int,
         \A x \in S : costs2[x] = costs[x] /\ counts2[x] = counts[x]
  PROVE  SumOf(costs2, counts2, S) = SumOf(costs, counts, S)
BY TotalSame DEF SumOf

LEMMA SumChanges ==
  ASSUME NEW S, IsFiniteSet(S), NEW C \in SUBSET S,
         NEW costs, NEW counts, NEW costs2, NEW counts2, NEW more, NEW news,
         \A x \in S : costs[x] \in Int /\ counts[x] \in Int,
         \A x \in C : more[x] \in Int /\ news[x] \in Int,
         \A x \in S : /\ costs2[x] = IF x \in C THEN costs[x] + more[x] ELSE costs[x]
                      /\ counts2[x] = IF x \in C THEN counts[x] + news[x] ELSE counts[x]
  PROVE  SumOf(costs2, counts2, S)
           = Plus(SumOf(costs, counts, S), Total(more, C), Total(news, C))
<1>1. Total(costs2, S) = Total(costs, S) + Total(more, C)
  BY TotalChange
<1>2. Total(counts2, S) = Total(counts, S) + Total(news, C)
  BY TotalChange
<1> QED
  BY <1>1, <1>2 DEF SumOf, Plus

LEMMA SumOfNone ==
  ASSUME NEW costs, NEW counts PROVE SumOf(costs, counts, {}) = Zero
BY TotalFacts, FS_EmptySet DEF SumOf, Zero

(* Steps that leave the charges of the log, and clear no row of usage but  *)
(* those of the past.                                                      *)
LEMMA LedgerStands ==
  ASSUME LedgerInv, UNCHANGED lifetime, now' \in Nat, now <= now',
         DOMAIN log' = DOMAIN log,
         \A i \in DOMAIN log : /\ log'[i].cost = log[i].cost /\ log'[i].at = log[i].at
                               /\ log'[i].counted = log[i].counted,
         \A r \in UsageRows :
           \/ usage'[r] = usage[r]
           \/ /\ usage'[r] = Nil
              /\ \A at \in Times : r \in RowsAt(at) => at < now - Retention
  PROVE  Rebuilt' /\ LedgerAgrees'
<1>1. LogCost' = LogCost /\ LogKnown' = LogKnown
  BY DEF LogCost, LogKnown
<1>2. All' = All
  BY DEF All
<1>3. \A r : InRow(r)' = InRow(r)
  BY <1>2 DEF InRow, All
<1>4. LedgerAgrees'
  BY <1>1, <1>2, <1>3, LedgerIs DEF LedgerInv
<1>5. Rebuilt'
  <2>1. ASSUME NEW r \in UsageRows, usage'[r] = Nil, InRow(r) # {},
               NEW at \in Times, r \in RowsAt(at)
        PROVE  at < now' - Retention
    <3>1. at < now - Retention
      BY <2>1 DEF LedgerInv, Rebuilt
    <3>2. at \in Nat /\ now \in Nat /\ Retention \in Nat
      BY CostAssumption DEF Times, LedgerInv, CostInv, CostTypeOK
    <3>3. now' \in Nat /\ now <= now'
      OBVIOUS
    <3>4. \A a, b, c, d \in Nat : a < b - c /\ b <= d => a < d - c
      OBVIOUS
    <3> QED
      BY <3>1, <3>2, <3>3, <3>4, Zenon
  <2> QED
    BY <1>3, <2>1 DEF Rebuilt
<1> QED
  BY <1>4, <1>5

LEMMA LedgerInit == CostInit => Rebuilt /\ LedgerAgrees
<1> SUFFICES ASSUME CostInit PROVE Rebuilt /\ LedgerAgrees
  OBVIOUS
<1>0. CostTypeOK
  BY CostInitInv DEF CostInv
<1>1. PICK legacy \in {<<>>} \cup {<<l>> : l \in Legacy} :
        /\ log = legacy
        /\ usage = IF legacy = <<>> THEN [r \in UsageRows |-> Nil]
                   ELSE Counted([r \in UsageRows |-> Nil], legacy[1].at, legacy[1].cost)
        /\ lifetime = IF legacy = <<>> THEN Zero
                      ELSE Plus(Zero, Or(legacy[1].cost, 0), Known(legacy[1].cost))
  BY DEF CostInit
<1>2. CASE legacy = <<>>
  <2>1. All = {} /\ \A r : InRow(r) = {}
    BY <1>1, <1>2 DEF All, InRow
  <2>2. lifetime = Zero /\ \A r \in UsageRows : usage[r] = Nil
    BY <1>1, <1>2
  <2> QED
    BY <2>1, <2>2, SumOfNone, LedgerIs DEF Rebuilt
<1>3. ASSUME NEW l \in Legacy, legacy = <<l>> PROVE Rebuilt /\ LedgerAgrees
  <2>1. legacy # <<>> /\ DOMAIN log = {1} /\ log[1] = l /\ l.counted
    BY <1>1, <1>3, CostAssumption
  <2>2. All = {1} /\ \A r : InRow(r) = IF r \in RowsAt(l.at) THEN {1} ELSE {}
    BY <2>1 DEF All, InRow
  <2>3. LogCost[1] = Or(l.cost, 0) /\ LogKnown[1] = Known(l.cost)
    BY <2>1 DEF LogCost, LogKnown
  <2>4. LogCost[1] \in Int /\ LogKnown[1] \in Int
    BY <1>0, <2>1, LogValues
  <2>5. SumOf(LogCost, LogKnown, {1}) = Plus(Zero, Or(l.cost, 0), Known(l.cost))
    <3>1. \A f : f[1] \in Int => Total(f, {1}) = f[1]
      <4>1. ASSUME NEW f, f[1] \in Int PROVE Total(f, {1}) = f[1]
        <5>1. IsFiniteSet({1}) /\ \A x \in {1} : f[x] \in Int
          BY <4>1, FS_Singleton
        <5>2. Total(f, {1}) = f[1] + Total(f, {1} \ {1}) /\ Total(f, {}) = 0
          BY <5>1, TotalFacts
        <5>3. Total(f, {1}) = f[1] + 0
          <6>1. {1} \ {1} = {}
            OBVIOUS
          <6> QED
            BY <5>2, <6>1, Zenon
        <5> QED
          BY <4>1, <5>3
      <4> QED
        BY <4>1
    <3>2. /\ Total(LogCost, {1}) = Or(l.cost, 0) /\ Or(l.cost, 0) \in Int
          /\ Total(LogKnown, {1}) = Known(l.cost) /\ Known(l.cost) \in Int
      BY <2>3, <2>4, <3>1
    <3> QED
      BY <3>2 DEF SumOf, Plus, Zero
  <2>6. \A r \in UsageRows :
          usage[r] = IF r \in RowsAt(l.at) THEN Plus(Zero, Or(l.cost, 0), Known(l.cost))
                     ELSE Nil
    <3>1. usage = Counted([r \in UsageRows |-> Nil], l.at, l.cost)
      BY <1>1, <1>3, <2>1
    <3> QED
      BY <3>1 DEF Counted
  <2>7. lifetime = Plus(Zero, Or(l.cost, 0), Known(l.cost))
    BY <1>1, <1>3, <2>1
  <2>8. LedgerAgrees
    BY <2>2, <2>5, <2>6, <2>7, LedgerIs
  <2>9. Plus(Zero, Or(l.cost, 0), Known(l.cost)) # Nil
    <3>1. Zero \in Sums
      BY DEF Zero, Sums
    <3> QED
      BY <2>3, <2>4, <3>1, PlusType, CostAssumption
  <2>10. Rebuilt
    BY <2>2, <2>6, <2>9 DEF Rebuilt
  <2> QED
    BY <2>8, <2>10
<1> QED
  BY <1>1, <1>2, <1>3

LEMMA LedgerRecord ==
  ASSUME LedgerInv, Retention # 0, Record PROVE Rebuilt' /\ LedgerAgrees'
<1>0. CostInv /\ CostTypeOK /\ Rebuilt /\ LedgerAgrees
  BY DEF LedgerInv, CostInv
<1>1. PICK at \in {now - 1, now} \cap Times, q \in Requests, cost \in OrNil(Int) :
        /\ Logged(at, q, cost) \in Logs
        /\ log' = Append(log, Logged(at, q, cost))
        /\ usage' = IF owned THEN Counted(usage, at, cost) ELSE usage
        /\ lifetime' = IF owned THEN Plus(lifetime, Or(cost, 0), Known(cost)) ELSE lifetime
  BY <1>0, RecordEffect
<1>2. UNCHANGED <<now, owned>>
  BY <1>0, RecordEffect
<1> DEFINE n == Len(log) + 1
<1>3. /\ DOMAIN log' = DOMAIN log \cup {n} /\ n \notin DOMAIN log
      /\ \A i \in DOMAIN log : log'[i] = log[i]
      /\ log'[n] = Logged(at, q, cost)
  BY <1>0, <1>1 DEF CostTypeOK
<1>4. /\ log'[n].counted = owned /\ log'[n].at = at /\ log'[n].cost = cost
  BY <1>3 DEF Logged
<1> HIDE DEF n
<1>5. /\ \A i \in DOMAIN log : LogCost'[i] = LogCost[i] /\ LogKnown'[i] = LogKnown[i]
      /\ LogCost'[n] = Or(cost, 0) /\ LogKnown'[n] = Known(cost)
  BY <1>3, <1>4 DEF LogCost, LogKnown
<1>6. All' = IF owned THEN All \cup {n} ELSE All
  BY <1>0, <1>3, <1>4 DEF All, CostTypeOK
<1>7. \A r : InRow(r)' = IF owned /\ r \in RowsAt(at) THEN InRow(r) \cup {n} ELSE InRow(r)
  <2>1. \A i \in All : i \in DOMAIN log
    BY DEF All
  <2> QED
    BY <1>0, <1>3, <1>4, <1>6, <2>1 DEF InRow, CostTypeOK
<1>8. LogCost'[n] \in Int /\ LogKnown'[n] \in Int
  BY <1>5, ChargeTypes
<1>9. ASSUME NEW S \in SUBSET DOMAIN log
      PROVE  /\ SumOf(LogCost', LogKnown', S) = SumOf(LogCost, LogKnown, S)
             /\ SumOf(LogCost', LogKnown', S \cup {n})
                  = Plus(SumOf(LogCost, LogKnown, S), Or(cost, 0), Known(cost))
  <2>1. IsFiniteSet(S) /\ n \notin S
    BY <1>0, <1>3, LogsAre, FS_Subset DEF CostTypeOK
  <2>2. \A i \in S : /\ LogCost[i] \in Int /\ LogKnown[i] \in Int
                     /\ LogCost'[i] = LogCost[i] /\ LogKnown'[i] = LogKnown[i]
    BY <1>0, <1>5, LogValues
  <2>3. SumOf(LogCost', LogKnown', S) = SumOf(LogCost, LogKnown, S)
    BY <2>1, <2>2, SumSame
  <2>4. SumOf(LogCost', LogKnown', S \cup {n})
          = Plus(SumOf(LogCost, LogKnown, S), LogCost'[n], LogKnown'[n])
    <3>0. Grown(LogCost', LogCost, S, n) /\ Grown(LogKnown', LogKnown, S, n)
      BY <1>8, <2>1, <2>2 DEF Grown
    <3>1. Total(LogCost', S \cup {n}) = Total(LogCost, S) + LogCost'[n]
      BY <3>0, TotalGrows
    <3>2. Total(LogKnown', S \cup {n}) = Total(LogKnown, S) + LogKnown'[n]
      BY <3>0, TotalGrows
    <3> QED
      BY <3>1, <3>2 DEF SumOf, Plus
  <2> QED
    BY <1>5, <2>3, <2>4
<1>10. All \in SUBSET DOMAIN log /\ \A r : InRow(r) \in SUBSET DOMAIN log
  BY DEF All, InRow
<1>11. lifetime' = SumOf(LogCost', LogKnown', All')
  <2>1. lifetime = SumOf(LogCost, LogKnown, All)
    BY <1>0, LedgerIs
  <2> QED
    BY <1>1, <1>6, <1>9, <1>10, <2>1
(* A row the request belongs to has not been cleaned up.                   *)
<1>12. ASSUME NEW r \in UsageRows, r \in RowsAt(at), usage[r] = Nil PROVE InRow(r) = {}
  <2>1. now \in Nat /\ Retention \in Nat /\ at \in Nat /\ at >= now - 1 /\ at \in Times
    BY <1>0, CostAssumption DEF CostTypeOK, Times
  <2>2. ~(at < now - Retention)
    BY <2>1
  <2> QED
    BY <1>0, <1>12, <2>1, <2>2 DEF Rebuilt
<1>13. ASSUME NEW r \in UsageRows, usage'[r] # Nil
       PROVE  usage'[r] = SumOf(LogCost', LogKnown', InRow(r)')
  <2>1. CASE owned /\ r \in RowsAt(at)
    <3>1. usage'[r] = Plus(IF usage[r] = Nil THEN Zero ELSE usage[r], Or(cost, 0), Known(cost))
      BY <1>1, <2>1 DEF Counted
    <3>2. (IF usage[r] = Nil THEN Zero ELSE usage[r]) = SumOf(LogCost, LogKnown, InRow(r))
      BY <1>0, <1>12, <2>1, LedgerIs, SumOfNone
    <3> QED
      BY <1>7, <1>9, <1>10, <2>1, <3>1, <3>2
  <2>2. CASE ~(owned /\ r \in RowsAt(at))
    <3>1. usage'[r] = usage[r]
      BY <1>1, <2>2 DEF Counted
    <3> QED
      BY <1>0, <1>7, <1>9, <1>10, <1>13, <2>2, <3>1, LedgerIs
  <2> QED
    BY <2>1, <2>2
<1>14. LedgerAgrees'
  BY <1>11, <1>13, LedgerIs
<1>15. Rebuilt'
  <2>1. ASSUME NEW r \in UsageRows, usage'[r] = Nil
        PROVE  usage[r] = Nil /\ InRow(r)' = InRow(r)
    <3>1. CASE owned /\ r \in RowsAt(at)
      <4>1. usage'[r] = Plus(IF usage[r] = Nil THEN Zero ELSE usage[r], Or(cost, 0), Known(cost))
        BY <1>1, <3>1 DEF Counted
      <4>2. (IF usage[r] = Nil THEN Zero ELSE usage[r]) \in Sums
        <5>1. Zero \in Sums
          BY DEF Zero, Sums
        <5> QED
          BY <1>0, <5>1 DEF CostTypeOK, OrNil
      <4>3. usage'[r] \in Sums
        BY <4>1, <4>2, PlusType, ChargeTypes
      <4> QED
        BY <2>1, <4>3, CostAssumption
    <3>2. CASE ~(owned /\ r \in RowsAt(at))
      BY <1>1, <1>7, <2>1, <3>2 DEF Counted
    <3> QED
      BY <3>1, <3>2
  <2> QED
    BY <1>0, <1>2, <2>1 DEF Rebuilt
<1> QED
  BY <1>14, <1>15

LEMMA LedgerBackfill ==
  ASSUME LedgerInv, NEW from, NEW to, Backfill(from, to) PROVE Rebuilt' /\ LedgerAgrees'
<1> DEFINE set == Corrected(from, to)
           of(r) == {i \in set : r \in RowsAt(log[i].at)}
<1>0. CostInv /\ CostTypeOK /\ Rebuilt /\ LedgerAgrees
  BY DEF LedgerInv, CostInv
<1>1. /\ log' = [i \in DOMAIN log |->
                   IF i \in set THEN [log[i] EXCEPT !.cost = NewCost(i), !.version = 2]
                   ELSE log[i]]
      /\ usage' = [r \in UsageRows |->
                     IF usage[r] = Nil THEN Nil
                     ELSE Plus(usage[r], Total(Change, of(r)), Total(NewlyKnown, of(r)))]
      /\ lifetime' = Plus(lifetime, Total(Change, set), Total(NewlyKnown, set))
      /\ UNCHANGED now
  BY DEF Backfill
<1>2. \A i \in set : i \in DOMAIN log /\ log[i].counted /\ NewCost(i) \in Int
  BY <1>0, CorrectedAre
<1>3. \A i \in DOMAIN log : log[i] \in Logs /\ log[i].cost \in OrNil(Int)
  BY <1>0, LogsAre DEF CostTypeOK
<1> HIDE DEF set, of
<1>4. /\ DOMAIN log' = DOMAIN log
      /\ \A i \in DOMAIN log :
           /\ log'[i].at = log[i].at /\ log'[i].counted = log[i].counted
           /\ log'[i].cost = IF i \in set THEN NewCost(i) ELSE log[i].cost
  BY <1>1, <1>3 DEF Logs
<1>5. All' = All /\ set \in SUBSET All
  BY <1>2, <1>4 DEF All
<1>6. \A r : InRow(r)' = InRow(r)
  BY <1>4, <1>5 DEF InRow, All
<1>7. \A i \in set : Change[i] \in Int /\ NewlyKnown[i] \in Int
  BY <1>0, ChangesAre DEF set
<1>8. ASSUME NEW i \in DOMAIN log
      PROVE  /\ LogCost'[i] = IF i \in set THEN LogCost[i] + Change[i] ELSE LogCost[i]
             /\ LogKnown'[i] = IF i \in set THEN LogKnown[i] + NewlyKnown[i] ELSE LogKnown[i]
  <2>1. /\ LogCost'[i] = Or(log'[i].cost, 0) /\ LogKnown'[i] = Known(log'[i].cost)
        /\ LogCost[i] = Or(log[i].cost, 0) /\ LogKnown[i] = Known(log[i].cost)
    BY <1>4 DEF LogCost, LogKnown
  <2>2. CASE i \notin set
    BY <1>4, <2>1, <2>2
  <2>3. CASE i \in set
    <3>1. /\ Change[i] = NewCost(i) - Or(log[i].cost, 0)
          /\ NewlyKnown[i] = 1 - Known(log[i].cost)
      BY DEF Change, NewlyKnown, Delta
    <3>2. NewCost(i) \in Int /\ NewCost(i) # Nil
      BY <1>2, <2>3, CostAssumption
    <3>3. Or(NewCost(i), 0) = NewCost(i) /\ Known(NewCost(i)) = 1
      BY <3>2 DEF Or, Known
    <3>4. Or(log[i].cost, 0) \in Int /\ Known(log[i].cost) \in Int
      BY <1>3, ChargeTypes
    <3>5. log'[i].cost = NewCost(i)
      BY <1>4, <2>3
    <3> QED
      BY <2>1, <2>3, <3>1, <3>2, <3>3, <3>4, <3>5
  <2> QED
    BY <2>2, <2>3
<1>9. ASSUME NEW S \in SUBSET All, NEW C \in SUBSET set, C = set \cap S
      PROVE  SumOf(LogCost', LogKnown', S)
               = Plus(SumOf(LogCost, LogKnown, S), Total(Change, C), Total(NewlyKnown, C))
  <2>1. IsFiniteSet(S) /\ C \in SUBSET S /\ S \in SUBSET DOMAIN log
    BY <1>0, <1>9, LogValues, FS_Subset
  <2>2. \A i \in S : LogCost[i] \in Int /\ LogKnown[i] \in Int
    BY <1>0, <2>1, LogValues
  <2>3. \A i \in C : Change[i] \in Int /\ NewlyKnown[i] \in Int
    BY <1>7
  <2>4. \A i \in S :
          /\ LogCost'[i] = IF i \in C THEN LogCost[i] + Change[i] ELSE LogCost[i]
          /\ LogKnown'[i] = IF i \in C THEN LogKnown[i] + NewlyKnown[i] ELSE LogKnown[i]
    BY <1>8, <1>9, <2>1
  <2> QED
    BY <2>1, <2>2, <2>3, <2>4, SumChanges
<1>10. lifetime' = SumOf(LogCost', LogKnown', All')
  <2>1. lifetime = SumOf(LogCost, LogKnown, All)
    BY <1>0, LedgerIs
  <2>2. set = set \cap All
    BY <1>5
  <2> QED
    BY <1>1, <1>5, <1>9, <2>1, <2>2
<1>11. ASSUME NEW r \in UsageRows, usage'[r] # Nil
       PROVE  usage'[r] = SumOf(LogCost', LogKnown', InRow(r)')
  <2>1. usage[r] # Nil
        /\ usage'[r] = Plus(usage[r], Total(Change, of(r)), Total(NewlyKnown, of(r)))
    BY <1>1, <1>11
  <2>2. usage[r] = SumOf(LogCost, LogKnown, InRow(r))
    BY <1>0, <2>1, LedgerIs
  <2>3. InRow(r) \in SUBSET All /\ of(r) \in SUBSET set /\ of(r) = set \cap InRow(r)
    BY <1>5 DEF InRow, of
  <2> QED
    BY <1>6, <1>9, <2>1, <2>2, <2>3
<1>12. LedgerAgrees'
  BY <1>10, <1>11, LedgerIs
<1>13. \A r \in UsageRows : usage'[r] = Nil => usage[r] = Nil
  <2>1. ASSUME NEW r \in UsageRows, usage[r] # Nil PROVE usage'[r] # Nil
    <3>1. of(r) \in SUBSET Corrected(from, to)
      BY DEF of, set
    <3>2. Total(Change, of(r)) \in Int /\ Total(NewlyKnown, of(r)) \in Int
      BY <1>0, <3>1, ChangesAre
    <3>3. usage[r] \in Sums
      BY <1>0, <2>1 DEF CostTypeOK, OrNil
    <3>4. usage'[r] \in Sums
      BY <1>1, <2>1, <3>2, <3>3, PlusType
    <3> QED
      BY <3>4, CostAssumption
  <2> QED
    BY <2>1
<1>14. Rebuilt'
  BY <1>0, <1>1, <1>6, <1>13 DEF Rebuilt
<1> QED
  BY <1>12, <1>14

(* What is cleaned up is older than the retention.                         *)
LEMMA LedgerCleanup ==
  ASSUME LedgerInv, CleanupRows PROVE Rebuilt' /\ LedgerAgrees'
<1>0. CostTypeOK
  BY DEF LedgerInv, CostInv
<1>1. PICK before \in 0..(now - Retention) :
        /\ \/ /\ log' = [i \in DOMAIN log |-> [log[i] EXCEPT !.gone = @ \/ log[i].at < before]]
              /\ UNCHANGED usage
           \/ /\ usage' = [r \in UsageRows |->
                             IF r[1] = "day" /\ r[2] < before \div DayHours THEN Nil ELSE usage[r]]
              /\ UNCHANGED log
           \/ /\ usage' = [r \in UsageRows |->
                             IF r[1] = "hour" /\ r[2] < before THEN Nil ELSE usage[r]]
              /\ UNCHANGED log
        /\ UNCHANGED <<now, cached, left, tariff, owned, lifetime>>
  BY DEF CleanupRows
<1>2. now \in Nat /\ Retention \in Nat /\ before \in Nat /\ before <= now - Retention
  BY <1>0, CostAssumption DEF CostTypeOK, Times
<1>3. /\ DOMAIN log' = DOMAIN log
      /\ \A i \in DOMAIN log : /\ log'[i].cost = log[i].cost /\ log'[i].at = log[i].at
                               /\ log'[i].counted = log[i].counted
  <2>1. \A i \in DOMAIN log : log[i] \in Logs
    BY <1>0, LogsAre DEF CostTypeOK
  <2>2. CASE UNCHANGED log
    BY <2>2
  <2>3. CASE log' = [i \in DOMAIN log |-> [log[i] EXCEPT !.gone = @ \/ log[i].at < before]]
    BY <2>1, <2>3 DEF Logs
  <2> QED
    BY <1>1, <2>2, <2>3
<1>4. ASSUME NEW r \in UsageRows, usage'[r] # usage[r]
      PROVE  /\ usage'[r] = Nil
             /\ \A at \in Times : r \in RowsAt(at) => at < now - Retention
  <2>1. /\ usage'[r] = Nil
        /\ \/ r[1] = "day" /\ r[2] < before \div DayHours
           \/ r[1] = "hour" /\ r[2] < before
    BY <1>1, <1>4
  <2>2. ASSUME NEW at \in Times, r \in RowsAt(at) PROVE at < now - Retention
    <3>1. at \in Nat
      BY CostAssumption DEF Times
    <3>2. (r[1] = "day" /\ r[2] = at \div DayHours) \/ (r[1] = "hour" /\ r[2] = at)
      BY <2>2 DEF RowsAt
    <3>3. CASE r[1] = "hour" /\ r[2] = at
      BY <1>2, <2>1, <3>1, <3>3
    <3>4. CASE r[1] = "day" /\ r[2] = at \div DayHours
      <4>1. at \div DayHours < before \div DayHours
        BY <2>1, <3>4
      <4>2. at < before
        <5>1. before <= at => before \div DayHours <= at \div DayHours
          BY <1>2, <3>1, DivOrder
        <5>2. before \div DayHours \in Int /\ at \div DayHours \in Int
          BY <1>2, <3>1, CostAssumption
        <5> QED
          BY <1>2, <3>1, <4>1, <5>1, <5>2
      <4> QED
        BY <1>2, <3>1, <4>2
    <3> QED
      BY <3>2, <3>3, <3>4
  <2> QED
    BY <2>1, <2>2
<1> QED
  BY <1>1, <1>2, <1>3, <1>4, LedgerStands

LEMMA LedgerNext ==
  ASSUME Retention # 0, LedgerInv, [CostNext]_costVars PROVE LedgerInv'
<1>0. CostInv'
  BY CostNextInv DEF LedgerInv
<1>1. now \in Nat /\ now' \in Nat
  BY <1>0, CostAssumption DEF LedgerInv, CostInv, CostTypeOK, Times
<1>2. ASSUME UNCHANGED <<log, usage, lifetime>>, now <= now' PROVE Rebuilt' /\ LedgerAgrees'
  BY <1>1, <1>2, LedgerStands
<1> SUFFICES Rebuilt' /\ LedgerAgrees'
  BY <1>0 DEF LedgerInv
<1>3. ASSUME NEW models \in SUBSET Models, NEW from \in ValidFroms,
             NEW fees \in [models -> Rates], Save(fees, from)
      PROVE  Rebuilt' /\ LedgerAgrees'
  BY <1>1, <1>2, <1>3 DEF Save, ledger
<1>4. CASE Attach \/ DeleteProfile
  BY <1>1, <1>2, <1>4 DEF Attach, DeleteProfile, ledger
<1>5. CASE Charge \/ DeleteOwner \/ Expire
  BY <1>1, <1>2, <1>5 DEF Charge, DeleteOwner, Expire, ledger
<1>6. CASE Hour
  <2>1. UNCHANGED <<log, usage, lifetime>> /\ now' = now + 1
    BY <1>6 DEF Hour, ledger
  <2> QED
    BY <1>1, <1>2, <2>1
<1>7. CASE Record
  BY <1>7, LedgerRecord
<1>8. ASSUME NEW from \in 0..(MaxTime \div DayHours), NEW to \in 0..(MaxTime \div DayHours),
             Backfill(from, to)
      PROVE  Rebuilt' /\ LedgerAgrees'
  BY <1>8, LedgerBackfill
<1>9. CASE CleanupRows
  BY <1>9, LedgerCleanup
<1>10. CASE UNCHANGED costVars
  BY <1>1, <1>2, <1>10 DEF costVars, ledger
<1> QED
  BY <1>3, <1>4, <1>5, <1>6, <1>7, <1>8, <1>9, <1>10 DEF CostNext

(* The sums of a day, an hour and a lifetime are those of the charges of   *)
(* the logged requests, the deleted ones included, whatever is recorded,   *)
(* backfilled and cleaned up (recordPreparedBatch, BackfillPricingCosts,   *)
(* cleanupRetention).  Usage must be kept at least an hour: a row that is  *)
(* cleaned up while requests still belong to it starts again from nothing. *)
THEOREM SumsAgree == ASSUME Retention # 0 PROVE CostSpec => []LedgerAgrees
<1>1. CostInit => LedgerInv
  BY CostInitInv, LedgerInit DEF LedgerInv
<1>2. LedgerInv /\ [CostNext]_costVars => LedgerInv'
  BY LedgerNext
<1>3. LedgerInv => LedgerAgrees
  BY DEF LedgerInv
<1> QED
  BY <1>1, <1>2, <1>3, PTL DEF CostSpec

-----------------------------------------------------------------------------
(* What a step leaves of the past, and of the charges.                     *)

LEMMA RateAtIs ==
  /\ \A t : RateAt(t) = RateOf(Candidates, t)
  /\ \A t : RateAt(t)' = RateOf(Candidates', t)
BY DEF RateAt, RateOf

LEMMA PastStands ==
  ASSUME CostInv, NEW models \in SUBSET Models, NEW fees \in [models -> Rates],
         Save(fees, Nil), NEW at \in 0..(now - 1)
  PROVE  RateAt(at)' = RateAt(at)
<1>1. now \in Nat /\ at \in Nat /\ at < now /\ Nil \in OrNil(Nat) /\ PricesOK(prices)
  BY CostAssumption DEF CostInv, CostTypeOK, Times, OrNil
<1>2. prices' = Repriced(Without(prices, DOMAIN fees), Nil, fees) /\ attached' = attached
  BY DEF Save
<1>3. PricesOK(prices') /\ Alike(prices, prices', at)
  BY <1>1, <1>2, SaveKeeps
<1>4. RateOf(prices, at) = RateOf(prices', at)
  BY <1>1, <1>3, AlikeRates
<1>5. CASE attached
  <2>1. Candidates = prices /\ Candidates' = prices'
    BY <1>2, <1>5 DEF Candidates
  <2> QED
    BY <1>4, <2>1, RateAtIs
<1>6. CASE ~attached
  <2>1. Candidates = {} /\ Candidates' = {}
    BY <1>2, <1>6 DEF Candidates
  <2> QED
    BY <2>1, RateAtIs
<1> QED
  BY <1>5, <1>6

(* A profile that is saved or refreshed without naming an instant changes  *)
(* no rate of the past (savePricingProfileTx), for any prices and models.  *)
THEOREM PastRatesStand == CostSpec => HistoryStands
<1>1. CostSpec => []CostInv
  BY CostInitInv, CostNextInv, PTL DEF CostSpec
<1>2. CostInv =>
        [ prices' # prices =>
            \A models \in SUBSET Models : \A fees \in [models -> Rates] :
              Save(fees, Nil) => \A at \in 0..(now - 1) : RateAt(at)' = RateAt(at) ]_costVars
  BY PastStands
<1> QED
  BY <1>1, <1>2, PTL DEF HistoryStands

(* The usages requests are logged with.                                    *)
Reported == {q.usage : q \in Requests} \cup {l.usage : l \in Legacy}
UsagesAreReported == \A i \in DOMAIN log : log[i].usage \in Reported

(* No upstream reports less than no cached tokens, nor does an old log.    *)
CountsAreNatural == \A u \in Reported : u.cached \in OrNil(Nat)

LEMMA LogStands ==
  ASSUME CostInv, CostNext, ~Record
  PROVE  /\ DOMAIN log' = DOMAIN log
         /\ \A i \in DOMAIN log : log'[i].usage = log[i].usage
<1>0. \A i \in DOMAIN log : log[i] \in Logs
  BY LogsAre DEF CostInv, CostTypeOK
<1>1. CASE UNCHANGED log
  BY <1>1
<1>2. ASSUME NEW from, NEW to, Backfill(from, to)
      PROVE  /\ DOMAIN log' = DOMAIN log
             /\ \A i \in DOMAIN log : log'[i].usage = log[i].usage
  <2>1. log' = [i \in DOMAIN log |->
                  IF i \in Corrected(from, to)
                  THEN [log[i] EXCEPT !.cost = NewCost(i), !.version = 2] ELSE log[i]]
    BY <1>2 DEF Backfill
  <2> QED
    BY <1>0, <2>1 DEF Logs
<1>3. CASE CleanupRows
  <2>1. PICK before \in 0..(now - Retention) :
          \/ log' = [i \in DOMAIN log |-> [log[i] EXCEPT !.gone = @ \/ log[i].at < before]]
          \/ UNCHANGED log
    BY <1>3 DEF CleanupRows
  <2> QED
    BY <1>0, <1>1, <2>1 DEF Logs
<1>4. ASSUME NEW models \in SUBSET Models, NEW from \in ValidFroms,
             NEW fees \in [models -> Rates], Save(fees, from)
      PROVE  UNCHANGED log
  BY <1>4 DEF Save, ledger
<1>5. CASE Attach \/ DeleteProfile \/ Charge
  BY <1>1, <1>5 DEF Attach, DeleteProfile, Charge, ledger
<1>6. CASE DeleteOwner \/ Expire \/ Hour
  BY <1>1, <1>6 DEF DeleteOwner, Expire, Hour, ledger
<1> QED
  BY <1>1, <1>2, <1>3, <1>4, <1>5, <1>6 DEF CostNext

LEMMA ReportedInit == CostInit => UsagesAreReported
<1> SUFFICES ASSUME CostInit PROVE UsagesAreReported
  OBVIOUS
<1>1. log = <<>> \/ \E l \in Legacy : log = <<l>>
  BY DEF CostInit
<1>2. CASE log = <<>>
  BY <1>2 DEF UsagesAreReported
<1>3. ASSUME NEW l \in Legacy, log = <<l>> PROVE UsagesAreReported
  <2>1. DOMAIN log = {1} /\ log[1] = l
    BY <1>3
  <2> QED
    BY <2>1 DEF UsagesAreReported, Reported
<1> QED
  BY <1>1, <1>2, <1>3

LEMMA ReportedNext ==
  ASSUME CostInv, UsagesAreReported, [CostNext]_costVars PROVE UsagesAreReported'
<1>1. CASE Record
  <2>1. PICK at \in {now - 1, now} \cap Times, q \in Requests, cost \in OrNil(Int) :
          log' = Append(log, Logged(at, q, cost))
    BY <1>1, RecordEffect
  <2>2. /\ DOMAIN log' = DOMAIN log \cup {Len(log) + 1}
        /\ \A i \in DOMAIN log : log'[i] = log[i]
        /\ log'[Len(log) + 1] = Logged(at, q, cost)
    BY <2>1 DEF CostInv, CostTypeOK
  <2>3. Logged(at, q, cost).usage = q.usage
    BY DEF Logged
  <2> QED
    BY <2>2, <2>3 DEF UsagesAreReported, Reported
<1>2. CASE CostNext /\ ~Record
  BY <1>2, LogStands DEF UsagesAreReported
<1>3. CASE UNCHANGED costVars
  BY <1>3 DEF UsagesAreReported, costVars, ledger
<1> QED
  BY <1>1, <1>2, <1>3

(* The two formulas are one.                                               *)
LEMMA SameCost ==
  ASSUME NEW fees \in Rates, NEW u \in Usages, u.cached \in OrNil(Nat), NEW protocol
  PROVE  QueriedCost(fees, protocol, u) = Cost(fees, protocol, u)
<1>1. /\ u.input \in OrNil(Int) /\ u.uncached \in OrNil(Int)
      /\ u.input = Nil => u.uncached = Nil
  BY DEF Usages
<1>2. Or(u.cached, 0) \in Nat /\ NotNegative(0) = 0 /\ NotNegative(0 - Or(u.cached, 0)) = 0
  BY DEF Or, OrNil, NotNegative
<1> DEFINE inferred == IF u.input = Nil THEN 0 ELSE NotNegative(u.input - Or(u.cached, 0))
           input == IF protocol = "messages" /\ u.input # Nil THEN NotNegative(u.input)
                    ELSE Or(u.uncached, inferred)
           queried == IF protocol = "messages" THEN NotNegative(Or(u.input, 0))
                      ELSE Or(u.uncached, NotNegative(Or(u.input, 0) - Or(u.cached, 0)))
<1>3. CASE u.input = Nil
  <2>1. u.uncached = Nil /\ Or(u.input, 0) = 0 /\ inferred = 0
    BY <1>1, <1>3 DEF Or
  <2>2. input = 0 /\ queried = 0
    BY <1>2, <1>3, <2>1 DEF Or
  <2> QED
    BY <2>2 DEF Cost, QueriedCost
<1>4. CASE u.input # Nil
  <2>1. Or(u.input, 0) = u.input
    BY <1>4 DEF Or
  <2>2. input = queried
    BY <1>4, <2>1
  <2> QED
    BY <2>2 DEF Cost, QueriedCost
<1> QED
  BY <1>3, <1>4

LEMMA Settles ==
  ASSUME CostInv, NEW from, NEW to, Backfill(from, to)
  PROVE  /\ Corrected(from, to)' = {}
         /\ \A i \in Corrected(from, to) : log'[i].cost = NewCost(i)
<1> DEFINE set == Corrected(from, to)
<1>0. CostTypeOK
  BY DEF CostInv
<1>1. log' = [i \in DOMAIN log |->
                IF i \in set THEN [log[i] EXCEPT !.cost = NewCost(i), !.version = 2]
                ELSE log[i]]
      /\ UNCHANGED tariff /\ owned' = owned
  BY DEF Backfill
<1>2. \A i \in DOMAIN log : log[i] \in Logs
  BY <1>0, LogsAre DEF CostTypeOK
<1>3. \A i \in set : i \in DOMAIN log /\ NewCost(i) \in Int
  BY <1>0, CorrectedAre
<1>5. set = {i \in DOMAIN log :
               /\ ~log[i].gone /\ log[i].counted /\ owned /\ HasUsage(log[i].usage)
               /\ log[i].at \div DayHours \in from..to
               /\ RateOf(Candidates, log[i].at) # Nil
               /\ Corrects(log[i], RateOf(Candidates, log[i].at))}
  BY DEF Corrected, RateAt, RateOf
<1>6. /\ Corrected(from, to)'
           = {i \in DOMAIN log' :
                /\ ~log'[i].gone /\ log'[i].counted /\ owned' /\ HasUsage(log'[i].usage)
                /\ log'[i].at \div DayHours \in from..to
                /\ RateOf(Candidates', log'[i].at) # Nil
                /\ Corrects(log'[i], RateOf(Candidates', log'[i].at))}
      /\ Candidates' = Candidates
  BY <1>1 DEF Corrected, RateAt, RateOf, Candidates, tariff
<1> HIDE DEF set
<1>7. ASSUME NEW i \in set
      PROVE  log'[i].cost = NewCost(i) /\ log'[i].version = 2
  BY <1>1, <1>2, <1>3 DEF Logs
<1>8. ASSUME NEW i \in Corrected(from, to)' PROVE FALSE
  <2>1. i \in DOMAIN log
    BY <1>1, <1>6
  <2>2. CASE i \in set
    <3>1. Corrects(log'[i], RateOf(Candidates', log'[i].at))
      BY <1>6
    <3>2. log'[i].cost # Nil
      BY <1>3, <1>7, <2>2, CostAssumption
    <3> QED
      BY <1>7, <2>2, <3>1, <3>2 DEF Corrects
  <2>3. CASE i \notin set
    <3>1. log'[i] = log[i]
      BY <1>1, <2>1, <2>3
    <3>2. i \in set
      BY <1>1, <1>5, <1>6, <2>1, <3>1
    <3> QED
      BY <2>3, <3>2
  <2> QED
    BY <2>2, <2>3
<1> QED
  BY <1>7, <1>8 DEF set

(* A backfill leaves nothing for the next one, and charges what the        *)
(* request would have been charged (BackfillPricingCosts against           *)
(* calculateRequestCost).  No upstream may have reported less than no      *)
(* cached tokens: without a count of the input, the query would charge     *)
(* such a report for an input, and calculateRequestCost would not.         *)
THEOREM BackfillChargesOnce == ASSUME CountsAreNatural PROVE CostSpec => BackfillSettles
<1> DEFINE I == CostInv /\ UsagesAreReported
<1>1. CostSpec => []I
  <2>1. CostInit => I
    BY CostInitInv, ReportedInit
  <2>2. I /\ [CostNext]_costVars => I'
    BY CostNextInv, ReportedNext
  <2> QED
    BY <2>1, <2>2, PTL DEF CostSpec
<1>2. ASSUME I, NEW from, NEW to, Backfill(from, to)
      PROVE  /\ Corrected(from, to)' = {}
             /\ \A i \in Corrected(from, to) :
                  log'[i].cost = Cost(RateAt(log[i].at), log[i].protocol, log[i].usage)
  <2>1. CostTypeOK
    BY <1>2 DEF CostInv
  <2>2. ASSUME NEW i \in Corrected(from, to)
        PROVE  NewCost(i) = Cost(RateAt(log[i].at), log[i].protocol, log[i].usage)
    <3>1. i \in DOMAIN log /\ RateAt(log[i].at) \in Rates
      BY <2>1, CorrectedAre
    <3>2. log[i].usage \in Usages /\ log[i].usage.cached \in OrNil(Nat)
      BY <1>2, <2>1, <3>1, LogsAre DEF CostTypeOK, UsagesAreReported, CountsAreNatural
    <3> QED
      BY <3>1, <3>2, SameCost DEF NewCost
  <2> QED
    BY <1>2, <2>2, Settles
<1>3. I =>
        [ log' # log =>
            \A from, to \in 0..(MaxTime \div DayHours) :
              Backfill(from, to) =>
                /\ Corrected(from, to)' = {}
                /\ \A i \in Corrected(from, to) :
                     log'[i].cost = Cost(RateAt(log[i].at), log[i].protocol, log[i].usage)
        ]_costVars
  BY <1>2
<1> HIDE DEF I
<1> QED
  BY <1>1, <1>3, PTL DEF BackfillSettles
=============================================================================
