------------------------ MODULE GenerationCacheProofs ------------------------
(***************************************************************************)
(* Proofs about GenerationCache: whatever the number of keys, readers and  *)
(* writers, and with or without the load gate, no lookup and no cache      *)
(* entry is older than the last finished change.                           *)
(*                                                                         *)
(* The argument.  A reader that holds a miss may store what it read only   *)
(* if the generation it took with the miss is still the current one.  So   *)
(* whatever it read before then, it read after the last invalidation, and  *)
(* the database had by then every change that was finished.                *)
(***************************************************************************)
EXTENDS GenerationCache, FiniteSetTheorems, TLAPS

(* The shapes of the variables that the argument needs.                    *)
Shapes ==
  /\ db \in [Keys -> Nat]
  /\ published \in [Keys -> Nat]
  /\ cache \in [Keys -> Nat \cup {None}]
  /\ gen \in Nat
  /\ pc \in [Readers -> ReaderStates]
  /\ key \in [Readers -> Keys]
  /\ seen \in [Readers -> Nat]
  /\ value \in [Readers -> Nat]
  /\ floor \in [Readers -> Nat]

(* A change is finished only after it was committed.                       *)
PublishedIsCommitted == \A k \in Keys : published[k] <= db[k]

(* A lookup remembers what was finished when it began.                     *)
FloorIsPublished ==
  \A r \in Readers : pc[r] # "idle" => floor[r] <= published[key[r]]

(* A generation is taken from the current one, never ahead of it.          *)
SeenIsPast == \A r \in Readers : seen[r] <= gen

(* What a reader has loaded and may yet store is new enough for its own    *)
(* lookup, and, while its generation lasts, for everybody's.               *)
LoadIsFresh ==
  \A r \in Readers :
    pc[r] = "store" =>
      /\ value[r] >= floor[r]
      /\ seen[r] = gen => value[r] >= published[key[r]]

(* What a reader is about to return.                                       *)
AnswerIsFresh ==
  \A r \in Readers : pc[r] \in {"release", "found"} => value[r] >= floor[r]

IInv ==
  /\ Shapes
  /\ PublishedIsCommitted
  /\ FloorIsPublished
  /\ SeenIsPast
  /\ NoStaleEntry
  /\ LoadIsFresh
  /\ AnswerIsFresh

-----------------------------------------------------------------------------

(* The initial state: nothing is cached, loaded or finished.               *)
LEMMA InitIInv == Init => IInv
  BY CacheAssumption
  DEF Init, IInv, Shapes, ReaderStates, PublishedIsCommitted, FloorIsPublished,
      SeenIsPast, NoStaleEntry, Cached, LoadIsFresh, AnswerIsFresh

(* A hit, and a miss, as seen by a reader that then goes to next.          *)
LEMMA HitFresh ==
  ASSUME IInv, NEW r \in Readers, pc[r] \in {"check", "recheck"},
         Hit(r),
         Goto(r, "found") \/ Goto(r, "release"),
         UNCHANGED <<dbVars, cacheVars, key, floor>>
  PROVE  IInv'
<1>1. value'[r] >= published[key[r]]
  BY DEF Hit, IInv, Shapes, NoStaleEntry, Cached
<1>2. floor[r] <= published[key[r]]
  BY DEF IInv, FloorIsPublished
<1>3. Shapes'
  BY DEF IInv, Shapes, Hit, Goto, ReaderStates, dbVars, cacheVars, Cached
<1>4. value'[r] >= floor'[r]
  BY <1>1, <1>2, <1>3 DEF IInv, Shapes
<1> QED
  BY <1>3, <1>4
  DEF IInv, Shapes, PublishedIsCommitted, FloorIsPublished, SeenIsPast,
      NoStaleEntry, Cached, LoadIsFresh, AnswerIsFresh, Hit, Goto,
      dbVars, cacheVars, ReaderStates

LEMMA MissFresh ==
  ASSUME IInv, NEW r \in Readers, pc[r] \in {"check", "recheck"},
         Miss(r),
         Goto(r, "acquire") \/ Goto(r, "load"),
         UNCHANGED <<dbVars, cacheVars, key, floor>>
  PROVE  IInv'
  BY DEF IInv, Shapes, PublishedIsCommitted, FloorIsPublished, SeenIsPast,
         NoStaleEntry, Cached, LoadIsFresh, AnswerIsFresh, Miss, Goto,
         dbVars, cacheVars, ReaderStates

(* A reader that moves on without having read anything.                    *)
LEMMA MoveFresh ==
  ASSUME IInv,
         pc' \in [Readers -> ReaderStates],
         \A r \in Readers :
           \/ pc'[r] = pc[r]
           \/ pc'[r] = "idle"
           \/ /\ pc[r] \notin {"idle", "store"}
              /\ pc'[r] \in {"acquire", "wait", "recheck"}
           \/ pc[r] = "release" /\ pc'[r] = "found",
         UNCHANGED <<dbVars, cacheVars, key, seen, value, floor>>
  PROVE  IInv'
  BY DEF IInv, Shapes, PublishedIsCommitted, FloorIsPublished, SeenIsPast,
         NoStaleEntry, Cached, LoadIsFresh, AnswerIsFresh, dbVars, cacheVars

LEMMA NextIInv == IInv /\ [Next]_vars => IInv'
<1> SUFFICES ASSUME IInv, [Next]_vars PROVE IInv'
  OBVIOUS
<1>1. ASSUME NEW r \in Readers, Lookup(r) PROVE IInv'
  <2>1. \E k \in Keys : /\ key' = [key EXCEPT ![r] = k]
                        /\ floor' = [floor EXCEPT ![r] = published[k]]
    BY <1>1 DEF Lookup
  <2> QED
    BY <1>1, <2>1
    DEF Lookup, Goto, IInv, Shapes, PublishedIsCommitted, FloorIsPublished,
        SeenIsPast, NoStaleEntry, Cached, LoadIsFresh, AnswerIsFresh, dbVars,
        cacheVars, ReaderStates
<1>2. ASSUME NEW r \in Readers, Check(r) PROVE IInv'
  <2>1. CASE Hit(r) /\ Goto(r, "found")
    BY <1>2, <2>1, HitFresh DEF Check
  <2>2. CASE Miss(r) /\ Goto(r, IF Gated THEN "acquire" ELSE "load")
    BY <1>2, <2>2, MissFresh DEF Check
  <2> QED
    BY <1>2, <2>1, <2>2 DEF Check
<1>3. ASSUME NEW r \in Readers, Recheck(r) PROVE IInv'
  <2>1. CASE Hit(r) /\ Goto(r, "release")
    BY <1>3, <2>1, HitFresh DEF Recheck
  <2>2. CASE Miss(r) /\ Goto(r, "load")
    BY <1>3, <2>2, MissFresh DEF Recheck
  <2> QED
    BY <1>3, <2>1, <2>2 DEF Recheck
<1>4. ASSUME NEW r \in Readers,
             Acquire(r) \/ WaitCancelled(r) \/ Release(r) \/ LoadFails(r)
               \/ Return(r)
      PROVE  IInv'
  <2>1. pc' \in [Readers -> ReaderStates]
    BY <1>4 DEF Acquire, WaitCancelled, Release, LoadFails, Return, Goto,
                WakeAnd, IInv, Shapes, ReaderStates
  <2>2. \A q \in Readers :
           \/ pc'[q] = pc[q]
           \/ pc'[q] = "idle"
           \/ /\ pc[q] \notin {"idle", "store"}
              /\ pc'[q] \in {"acquire", "wait", "recheck"}
           \/ pc[q] = "release" /\ pc'[q] = "found"
    BY <1>4 DEF Acquire, WaitCancelled, Release, LoadFails, Return, Goto,
                WakeAnd, IInv, Shapes
  <2>3. UNCHANGED <<dbVars, cacheVars, key, seen, value, floor>>
    BY <1>4 DEF Acquire, WaitCancelled, Release, LoadFails, Return
  <2> QED
    BY <2>1, <2>2, <2>3, MoveFresh
<1>5. ASSUME NEW r \in Readers, Load(r) PROVE IInv'
  (* What is committed now is at least what is finished now.               *)
  <2>1. db[key[r]] >= published[key[r]] /\ published[key[r]] >= floor[r]
    BY <1>5 DEF Load, IInv, Shapes, PublishedIsCommitted, FloorIsPublished
  <2>2. Shapes'
    BY <1>5 DEF Load, Goto, IInv, Shapes, ReaderStates, dbVars, cacheVars
  <2>3. value'[r] >= floor[r] /\ value'[r] >= published[key[r]]
    BY <1>5, <2>1 DEF Load, IInv, Shapes
  <2>4. LoadIsFresh'
    BY <1>5, <2>3 DEF Load, Goto, IInv, Shapes, LoadIsFresh, dbVars, cacheVars
  <2> QED
    BY <1>5, <2>2, <2>4
    DEF Load, Goto, IInv, Shapes, PublishedIsCommitted, FloorIsPublished,
        SeenIsPast, NoStaleEntry, Cached, AnswerIsFresh, dbVars, cacheVars
<1>6. ASSUME NEW r \in Readers, Store(r) PROVE IInv'
  <2>1. value[r] >= floor[r]
    BY <1>6 DEF Store, IInv, LoadIsFresh
  <2>2. Shapes'
    BY <1>6 DEF Store, StoreEntry, Goto, IInv, Shapes, ReaderStates, dbVars
  <2>3. NoStaleEntry'
    <3>1. CASE Current(r)
      <4>1. value[r] >= published[key[r]]
        BY <1>6, <3>1 DEF Store, Current, IInv, LoadIsFresh
      <4>2. \A k \in Keys : \/ cache'[k] = cache[k]
                            \/ cache'[k] = None
                            \/ k = key[r] /\ cache'[k] = value[r]
        BY <1>6, <3>1 DEF Store, StoreEntry, IInv, Shapes
      <4> QED
        BY <1>6, <4>1, <4>2 DEF Store, NoStaleEntry, Cached, IInv, dbVars
    <3>2. CASE ~Current(r)
      BY <1>6, <3>2 DEF Store, NoStaleEntry, Cached, IInv, dbVars
    <3> QED
      BY <3>1, <3>2
  <2> QED
    BY <1>6, <2>1, <2>2, <2>3
    DEF Store, Goto, IInv, Shapes, PublishedIsCommitted, FloorIsPublished,
        SeenIsPast, LoadIsFresh, AnswerIsFresh, dbVars, ReaderStates
<1>7. ASSUME NEW w \in Writers, Commit(w) PROVE IInv'
  BY <1>7
  DEF Commit, IInv, Shapes, PublishedIsCommitted, FloorIsPublished, SeenIsPast,
      NoStaleEntry, Cached, LoadIsFresh, AnswerIsFresh, cacheVars, readerVars
<1>8. ASSUME NEW w \in Writers, Invalidate(w) PROVE IInv'
  (* Every generation a reader holds is in the past now.                   *)
  <2>1. \A r \in Readers : seen'[r] # gen' /\ seen'[r] <= gen'
    BY <1>8 DEF Invalidate, IInv, Shapes, SeenIsPast, readerVars
  <2> QED
    BY <1>8, <2>1
    DEF Invalidate, IInv, Shapes, PublishedIsCommitted, FloorIsPublished,
        SeenIsPast, NoStaleEntry, Cached, LoadIsFresh, AnswerIsFresh, readerVars
<1>9. ASSUME NEW w \in Writers, CommitUnacknowledged(w) PROVE IInv'
  BY <1>9
  DEF CommitUnacknowledged, IInv, Shapes, PublishedIsCommitted,
      FloorIsPublished, SeenIsPast, NoStaleEntry, Cached, LoadIsFresh,
      AnswerIsFresh, dbVars, cacheVars, readerVars
<1>10. ASSUME NEW k \in Keys, Expire(k) PROVE IInv'
  BY <1>10
  DEF Expire, IInv, Shapes, PublishedIsCommitted, FloorIsPublished, SeenIsPast,
      NoStaleEntry, Cached, LoadIsFresh, AnswerIsFresh, dbVars, readerVars
<1>11. CASE UNCHANGED vars
  BY <1>11
  DEF vars, IInv, Shapes, PublishedIsCommitted, FloorIsPublished, SeenIsPast,
      NoStaleEntry, Cached, LoadIsFresh, AnswerIsFresh
<1> QED
  BY <1>1, <1>2, <1>3, <1>4, <1>5, <1>6, <1>7, <1>8, <1>9, <1>10, <1>11
  DEF Next, Proceed

-----------------------------------------------------------------------------

(* No cached key, route or setting is older than the last change that was  *)
(* finished when it is looked at (cache.go, the check of the generation).  *)
THEOREM NeverStaleEntry == Spec => []NoStaleEntry
<1>1. IInv => NoStaleEntry
  BY DEF IInv
<1> QED
  BY InitIInv, NextIInv, <1>1, PTL DEF Spec

(* No lookup returns what was already superseded when it began             *)
(* (AuthenticateAPIKey, ListRouteUpstreams, MaxAttempts).                  *)
THEOREM NeverStaleLookup == Spec => []NoStaleLookup
<1>1. IInv => NoStaleLookup
  BY DEF IInv, AnswerIsFresh, NoStaleLookup
<1> QED
  BY InitIInv, NextIInv, <1>1, PTL DEF Spec

-----------------------------------------------------------------------------
(* The refinement.  An answer also is not newer than the database: neither *)
(* the cache nor a reader holds a version that was not committed.          *)

NothingAhead ==
  /\ \A k \in Keys : cache[k] # None => cache[k] <= db[k]
  /\ \A r \in Readers :
       pc[r] \in {"store", "release", "found"} => value[r] <= db[key[r]]

LEMMA NextNothingAhead == IInv /\ NothingAhead /\ [Next]_vars => NothingAhead'
<1> SUFFICES ASSUME Shapes, NothingAhead, [Next]_vars PROVE NothingAhead'
  BY DEF IInv
<1>1. ASSUME NEW r \in Readers, Lookup(r) PROVE NothingAhead'
  BY <1>1 DEF Lookup, Goto, NothingAhead, Shapes, dbVars, cacheVars
<1>2. ASSUME NEW r \in Readers, Check(r) \/ Recheck(r) PROVE NothingAhead'
  BY <1>2 DEF Check, Recheck, Hit, Miss, Goto, NothingAhead, Shapes, Cached,
              dbVars, cacheVars
<1>3. ASSUME NEW r \in Readers,
             Acquire(r) \/ WaitCancelled(r) \/ Return(r) \/ LoadFails(r)
               \/ Release(r)
      PROVE  NothingAhead'
  <2>1. \A q \in Readers :
          pc'[q] \in {"store", "release", "found"}
            => pc'[q] = pc[q] \/ pc[q] = "release"
    BY <1>3 DEF Acquire, WaitCancelled, Return, LoadFails, Release, Goto, WakeAnd,
                Shapes
  <2>2. UNCHANGED <<dbVars, cacheVars, key, value>>
    BY <1>3 DEF Acquire, WaitCancelled, Return, LoadFails, Release
  <2> QED
    BY <2>1, <2>2 DEF NothingAhead, dbVars, cacheVars
<1>4. ASSUME NEW r \in Readers, Load(r) PROVE NothingAhead'
  BY <1>4 DEF Load, Goto, NothingAhead, Shapes, dbVars, cacheVars
<1>5. ASSUME NEW r \in Readers, Store(r) PROVE NothingAhead'
  <2>1. \A k \in Keys : \/ cache'[k] = cache[k]
                        \/ cache'[k] = None
                        \/ k = key[r] /\ cache'[k] = value[r]
    BY <1>5 DEF Store, StoreEntry, Shapes
  <2>2. pc[r] = "store" /\ UNCHANGED <<dbVars, key, value>>
    BY <1>5 DEF Store
  <2>3. \A q \in Readers \ {r} : pc'[q] = pc[q]
    BY <1>5 DEF Store, Goto, Shapes
  <2> QED
    BY <2>1, <2>2, <2>3 DEF NothingAhead, dbVars
<1>6. ASSUME NEW w \in Writers,
             Commit(w) \/ Invalidate(w) \/ CommitUnacknowledged(w)
      PROVE  NothingAhead'
  <2>1. CASE Commit(w)
    <3>1. \A k \in Keys : db[k] <= db'[k] /\ db'[k] \in Nat
      BY <2>1 DEF Commit, Shapes
    <3> QED
      BY <2>1, <3>1 DEF Commit, NothingAhead, Shapes, cacheVars, readerVars
  <2>2. CASE Invalidate(w)
    BY <2>2 DEF Invalidate, NothingAhead, Shapes, readerVars
  <2>3. CASE CommitUnacknowledged(w)
    BY <2>3 DEF CommitUnacknowledged, NothingAhead, dbVars, cacheVars, readerVars
  <2> QED
    BY <1>6, <2>1, <2>2, <2>3
<1>7. ASSUME NEW k \in Keys, Expire(k) PROVE NothingAhead'
  BY <1>7 DEF Expire, NothingAhead, dbVars, readerVars
<1>8. CASE UNCHANGED vars
  BY <1>8 DEF vars, NothingAhead
<1> QED
  BY <1>1, <1>2, <1>3, <1>4, <1>5, <1>6, <1>7, <1>8 DEF Next, Proceed

LEMMA InitRefines == Init => Reads!ReadInit /\ NothingAhead
<1> SUFFICES ASSUME Init PROVE Reads!ReadInit /\ NothingAhead
  OBVIOUS
<1>1. Reads!ReadInit
  BY DEF Init, Reads!ReadInit, Status, Given
<1>2. NothingAhead
  BY DEF Init, NothingAhead
<1> QED
  BY <1>1, <1>2

(* A reader that moves on within its lookup does nothing the promise       *)
(* speaks of.                                                              *)
LEMMA InternalStep ==
  ASSUME Shapes, NEW r \in Readers,
         pc' \in [Readers -> ReaderStates],
         \A q \in Readers :
           pc'[q] = pc[q] \/ (pc[q] \notin {"idle", "found"} /\ pc'[q] \notin {"idle", "found"}),
         \A q \in Readers : pc[q] = "found" => value'[q] = value[q],
         UNCHANGED <<dbVars, key, floor>>
  PROVE  UNCHANGED Reads!readVars
<1>1. Status' = Status
  BY DEF Status
<1>2. Given' = Given
  BY DEF Given
<1> QED
  BY <1>1, <1>2 DEF Reads!readVars, dbVars

(* A reader that gets its answer.                                          *)
LEMMA AnswerStep ==
  ASSUME Shapes, Shapes', NEW r \in Readers, pc[r] \notin {"idle", "found"},
         pc'[r] = "found",
         value'[r] >= floor[r] /\ value'[r] <= db[key[r]],
         \A q \in Readers \ {r} :
           /\ pc'[q] = pc[q] \/ (pc[q] \notin {"idle", "found"} /\ pc'[q] \notin {"idle", "found"})
           /\ pc[q] = "found" => value'[q] = value[q],
         UNCHANGED <<dbVars, key, floor>>
  PROVE  Reads!Answer(r)
<1>1. Status[r] = "looking" /\ Status' = [Status EXCEPT ![r] = "answered"]
  BY DEF Status
<1>2. Given' = [Given EXCEPT ![r] = value'[r]]
  BY DEF Given
<1>3. value'[r] \in floor[r]..db[key[r]]
  BY DEF Shapes
<1> QED
  BY <1>1, <1>2, <1>3 DEF Reads!Answer, dbVars

(* A reader whose lookup ends.                                             *)
LEMMA EndStep ==
  ASSUME Shapes, NEW r \in Readers, pc[r] # "idle", pc'[r] = "idle",
         \A q \in Readers \ {r} :
           pc'[q] = pc[q] \/ (pc[q] \notin {"idle", "found"} /\ pc'[q] \notin {"idle", "found"}),
         UNCHANGED <<dbVars, key, value, floor>>
  PROVE  Reads!End(r)
<1>1. Status[r] # "out" /\ Status' = [Status EXCEPT ![r] = "out"]
  BY DEF Status
<1>2. Given' = [Given EXCEPT ![r] = 0]
  BY DEF Given
<1> QED
  BY <1>1, <1>2 DEF Reads!End, dbVars

LEMMA StepRefines ==
  IInv /\ IInv' /\ NothingAhead /\ NothingAhead' /\ [Next]_vars
    => [Reads!ReadNext]_Reads!readVars
<1> SUFFICES ASSUME IInv, IInv', NothingAhead, NothingAhead', [Next]_vars
             PROVE  [Reads!ReadNext]_Reads!readVars
  OBVIOUS
<1>a. Shapes /\ Shapes'
  BY DEF IInv
<1>b. ASSUME NEW r \in Readers, pc'[r] = "found"
      PROVE  value'[r] >= floor'[r] /\ value'[r] <= db'[key'[r]]
  BY <1>b DEF IInv, AnswerIsFresh, NothingAhead
<1>1. ASSUME NEW r \in Readers, Lookup(r) PROVE Reads!Begin(r)
  <2>1. Status[r] = "out" /\ Status' = [Status EXCEPT ![r] = "looking"]
    BY <1>1, <1>a DEF Lookup, Goto, Status, Shapes
  <2>2. Given' = Given
    BY <1>1, <1>a DEF Lookup, Goto, Given, Shapes
  <2> QED
    BY <1>1, <2>1, <2>2 DEF Lookup, Reads!Begin, dbVars
<1>2. ASSUME NEW r \in Readers, Check(r) PROVE [Reads!ReadNext]_Reads!readVars
  <2>1. CASE Hit(r) /\ Goto(r, "found")
    <3>1. Reads!Answer(r)
      BY <1>a, <1>b, <1>2, <2>1, AnswerStep DEF Check, Hit, Goto, Shapes, dbVars
    <3> QED
      BY <3>1 DEF Reads!ReadNext
  <2>2. CASE Miss(r) /\ Goto(r, IF Gated THEN "acquire" ELSE "load")
    <3>1. UNCHANGED Reads!readVars
      BY <1>a, <1>2, <2>2, InternalStep DEF Check, Miss, Goto, Shapes, dbVars
    <3> QED
      BY <3>1
  <2> QED
    BY <1>2, <2>1, <2>2 DEF Check
<1>3. ASSUME NEW r \in Readers, Acquire(r) \/ Recheck(r) \/ Load(r)
      PROVE  UNCHANGED Reads!readVars
  <2>1. pc[r] \in {"acquire", "recheck", "load"} /\ UNCHANGED <<dbVars, key, floor>>
    BY <1>3 DEF Acquire, Recheck, Load
  <2>2. \A q \in Readers :
          IF q = r THEN pc'[q] \in ReaderStates \ {"idle", "found"} ELSE pc'[q] = pc[q]
    BY <1>3, <1>a DEF Acquire, Recheck, Load, Goto, Shapes, ReaderStates
  <2>3. \A q \in Readers \ {r} : value'[q] = value[q]
    BY <1>3, <1>a DEF Acquire, Recheck, Load, Hit, Miss, Shapes
  <2> QED
    BY <1>a, <2>1, <2>2, <2>3, InternalStep DEF Shapes
<1>4. ASSUME NEW r \in Readers, Store(r) PROVE [Reads!ReadNext]_Reads!readVars
  <2>1. pc[r] = "store" /\ UNCHANGED <<dbVars, key, value, floor>>
    BY <1>4 DEF Store
  <2>2. CASE Goto(r, "release")
    <3>1. UNCHANGED Reads!readVars
      BY <1>a, <2>1, <2>2, InternalStep DEF Goto, Shapes
    <3> QED
      BY <3>1
  <2>3. CASE Goto(r, "found")
    <3>1. Reads!Answer(r)
      BY <1>a, <1>b, <2>1, <2>3, AnswerStep DEF Goto, Shapes, dbVars
    <3> QED
      BY <3>1 DEF Reads!ReadNext
  <2> QED
    BY <1>4, <2>2, <2>3 DEF Store
<1>5. ASSUME NEW r \in Readers, Release(r) PROVE Reads!Answer(r)
  <2>1. pc[r] = "release" /\ UNCHANGED <<dbVars, key, value, floor>>
    BY <1>5 DEF Release
  <2>2. pc'[r] = "found"
        /\ \A q \in Readers \ {r} : pc'[q] = pc[q] \/ (pc[q] = "wait" /\ pc'[q] = "acquire")
    BY <1>5 DEF Release, WakeAnd
  <2> QED
    BY <1>a, <1>b, <2>1, <2>2, AnswerStep DEF dbVars
<1>6. ASSUME NEW r \in Readers, LoadFails(r) PROVE Reads!End(r)
  <2>1. pc[r] = "load" /\ UNCHANGED <<dbVars, key, value, floor>>
    BY <1>6 DEF LoadFails
  <2>2. pc'[r] = "idle"
        /\ \A q \in Readers \ {r} : pc'[q] = pc[q] \/ (pc[q] = "wait" /\ pc'[q] = "acquire")
    BY <1>6, <1>a DEF LoadFails, WakeAnd, Goto, Shapes
  <2> QED
    BY <1>a, <2>1, <2>2, EndStep
<1>7. ASSUME NEW r \in Readers, WaitCancelled(r) \/ Return(r) PROVE Reads!End(r)
  <2>1. pc[r] # "idle" /\ pc' = [pc EXCEPT ![r] = "idle"]
        /\ UNCHANGED <<dbVars, key, value, floor>>
    BY <1>7 DEF WaitCancelled, Return, Goto
  <2> QED
    BY <1>a, <2>1, EndStep DEF Shapes
<1>8. ASSUME UNCHANGED <<pc, value>> PROVE Status' = Status /\ Given' = Given
  BY <1>8 DEF Status, Given
<1>9. ASSUME NEW w \in Writers, Commit(w) PROVE \E k \in Keys : Reads!Change(k)
  BY <1>8, <1>9 DEF Commit, Reads!Change, readerVars
<1>10. ASSUME NEW w \in Writers, Invalidate(w) PROVE Reads!Finish
  <2>1. /\ published' \in [Keys -> Nat]
        /\ \A k \in Keys : published[k] <= published'[k] /\ published'[k] <= db[k]
    BY <1>10, <1>a DEF Invalidate, IInv, PublishedIsCommitted, Shapes
  <2> QED
    BY <1>8, <1>10, <2>1 DEF Invalidate, Reads!Finish, readerVars
<1>11. ASSUME (\E w \in Writers : CommitUnacknowledged(w)) \/ (\E k \in Keys : Expire(k))
                \/ UNCHANGED vars
       PROVE  UNCHANGED Reads!readVars
  BY <1>8, <1>11 DEF CommitUnacknowledged, Expire, vars, dbVars, readerVars, Reads!readVars
<1> QED
  BY <1>1, <1>2, <1>3, <1>4, <1>5, <1>6, <1>7, <1>9, <1>10, <1>11
  DEF Next, Proceed, Reads!ReadNext

(* The cache implements fresh reads: a lookup answers what the database    *)
(* had committed, and nothing that was superseded before it began          *)
(* (cache.go, load_gate.go).                                               *)
THEOREM CacheImplementsReads == Spec => LookupsAreFresh
<1>1. Spec => [](IInv /\ NothingAhead)
  BY InitIInv, InitRefines, NextIInv, NextNothingAhead, PTL DEF Spec
<1> QED
  BY <1>1, InitRefines, StepRefines, PTL DEF Spec, LookupsAreFresh, Reads!ReadSpec

-----------------------------------------------------------------------------
(* Type correctness.  The bound of the cache needs its finiteness, which   *)
(* it keeps although there may be infinitely many keys.                    *)

TypeInv == TypeOK /\ IsFiniteSet(Cached)

(* Forgetting entries keeps the cache finite and within its capacity.      *)
LEMMA FewerEntries ==
  ASSUME TypeInv, Cached' \subseteq Cached
  PROVE  IsFiniteSet(Cached') /\ Cardinality(Cached') <= Capacity
<1> DEFINE S == Cached
           T == Cached'
<1>1. IsFiniteSet(T) /\ Cardinality(T) <= Cardinality(S)
  BY FS_Subset DEF TypeInv
<1>2. Cardinality(S) \in Nat /\ Cardinality(T) \in Nat
  BY <1>1, FS_CardinalityType DEF TypeInv
<1> QED
  BY <1>1, <1>2, CacheAssumption DEF TypeInv, TypeOK

(* A new entry does not exceed the capacity: a full cache is cleared.      *)
LEMMA OneMoreEntry ==
  ASSUME TypeInv, NEW k \in Keys, NEW v \in Nat, StoreEntry(k, v)
  PROVE  /\ cache' \in [Keys -> Nat \cup {None}]
         /\ expired' \in SUBSET Cached'
         /\ IsFiniteSet(Cached')
         /\ Cardinality(Cached') <= Capacity
<1> DEFINE S == Cached
           T == Cached'
<1>1. cache' \in [Keys -> Nat \cup {None}]
  BY DEF StoreEntry, TypeInv, TypeOK
<1>2. Cardinality(S) \in Nat /\ Capacity \in Nat \ {0}
  BY FS_CardinalityType, CacheAssumption DEF TypeInv
<1>3. CASE Cardinality(Cached) >= Capacity
  <2>1. T = {k} /\ expired' = {}
    BY <1>3, CacheAssumption DEF StoreEntry, Cached, TypeInv, TypeOK
  <2>2. IsFiniteSet(T) /\ Cardinality(T) = 1
    BY <2>1, FS_Singleton
  <2> QED
    BY <1>1, <1>2, <2>1, <2>2
<1>4. CASE ~(Cardinality(Cached) >= Capacity)
  <2>1. T = S \cup {k} /\ expired' \subseteq T
    BY <1>4, CacheAssumption DEF StoreEntry, Cached, TypeInv, TypeOK
  <2>2. /\ IsFiniteSet(T)
        /\ Cardinality(T) = IF k \in S THEN Cardinality(S)
                                        ELSE Cardinality(S) + 1
    BY <2>1, FS_AddElement DEF TypeInv
  <2> QED
    BY <1>1, <1>2, <1>4, <2>1, <2>2
<1> QED
  BY <1>3, <1>4

LEMMA InitTypeInv == Init => TypeInv
<1> SUFFICES ASSUME Init PROVE TypeInv
  OBVIOUS
<1>1. Cached = {}
  BY DEF Init, Cached
<1>2. IsFiniteSet(Cached) /\ Cardinality(Cached) = 0
  BY <1>1, FS_EmptySet
<1> QED
  BY <1>1, <1>2, CacheAssumption DEF Init, TypeInv, TypeOK, ReaderStates

LEMMA NextTypeInv == TypeInv /\ [Next]_vars => TypeInv'
<1> SUFFICES ASSUME TypeInv, [Next]_vars PROVE TypeInv'
  OBVIOUS
<1>1. ASSUME UNCHANGED cacheVars,
             /\ db \in [Keys -> Nat] /\ published \in [Keys -> Nat]
             /\ loader \in [Keys -> Readers \cup {None}]
             /\ pc \in [Readers -> ReaderStates]
             /\ key \in [Readers -> Keys]
             /\ seen \in [Readers -> Nat]
             /\ value \in [Readers -> Nat]
             /\ floor \in [Readers -> Nat]
             /\ writer \in [Writers -> {"idle", "committed"}]
             =>
             /\ db' \in [Keys -> Nat] /\ published' \in [Keys -> Nat]
             /\ loader' \in [Keys -> Readers \cup {None}]
             /\ pc' \in [Readers -> ReaderStates]
             /\ key' \in [Readers -> Keys]
             /\ seen' \in [Readers -> Nat]
             /\ value' \in [Readers -> Nat]
             /\ floor' \in [Readers -> Nat]
             /\ writer' \in [Writers -> {"idle", "committed"}]
      PROVE  TypeInv'
  <2>1. Cached' = Cached
    BY <1>1 DEF Cached, cacheVars
  <2> QED
    BY <1>1, <2>1 DEF TypeInv, TypeOK, cacheVars
<1>2. ASSUME NEW r \in Readers, Lookup(r) PROVE TypeInv'
  BY <1>1, <1>2 DEF Lookup, Goto, dbVars, TypeInv, TypeOK, ReaderStates
<1>3. ASSUME NEW r \in Readers, Check(r) \/ Recheck(r) PROVE TypeInv'
  BY <1>1, <1>3 DEF Check, Recheck, Hit, Miss, Goto, dbVars, cacheVars, Cached,
                    TypeInv, TypeOK, ReaderStates
<1>4. ASSUME NEW r \in Readers,
             Acquire(r) \/ WaitCancelled(r) \/ Release(r) \/ LoadFails(r)
               \/ Return(r)
      PROVE  TypeInv'
  BY <1>1, <1>4 DEF Acquire, WaitCancelled, Release, LoadFails, Return, Goto,
                    WakeAnd, Unlock, dbVars, TypeInv, TypeOK, ReaderStates
<1>5. ASSUME NEW r \in Readers, Load(r) PROVE TypeInv'
  BY <1>1, <1>5 DEF Load, Goto, dbVars, TypeInv, TypeOK, ReaderStates
<1>6. ASSUME NEW r \in Readers, Store(r) PROVE TypeInv'
  <2>1. CASE Current(r)
    <3>1. StoreEntry(key[r], value[r])
      BY <1>6, <2>1 DEF Store
    <3>2. key[r] \in Keys /\ value[r] \in Nat
      BY DEF TypeInv, TypeOK
    <3>3. /\ cache' \in [Keys -> Nat \cup {None}]
          /\ expired' \in SUBSET Cached'
          /\ IsFiniteSet(Cached')
          /\ Cardinality(Cached') <= Capacity
      BY <3>1, <3>2, OneMoreEntry
    <3> QED
      BY <1>6, <3>3 DEF Store, Goto, dbVars, TypeInv, TypeOK, ReaderStates
  <2>2. CASE ~Current(r)
    BY <1>1, <1>6, <2>2 DEF Store, Goto, dbVars, cacheVars, TypeInv, TypeOK,
                            ReaderStates
  <2> QED
    BY <2>1, <2>2
<1>7. ASSUME NEW w \in Writers, Commit(w) \/ CommitUnacknowledged(w)
      PROVE  TypeInv'
  BY <1>1, <1>7 DEF Commit, CommitUnacknowledged, dbVars, readerVars, TypeInv,
                    TypeOK
<1>8. ASSUME NEW w \in Writers, Invalidate(w) PROVE TypeInv'
  <2>1. Cached' = {}
    BY <1>8 DEF Invalidate, Cached
  <2>2. IsFiniteSet(Cached') /\ Cardinality(Cached') <= Capacity
    BY <2>1, FewerEntries
  <2> QED
    BY <1>8, <2>1, <2>2 DEF Invalidate, readerVars, TypeInv, TypeOK
<1>9. ASSUME NEW k \in Keys, Expire(k) PROVE TypeInv'
  <2>1. Cached' = Cached
    BY <1>9 DEF Expire, Cached
  <2> QED
    BY <1>9, <2>1 DEF Expire, dbVars, readerVars, TypeInv, TypeOK
<1>10. CASE UNCHANGED vars
  BY <1>1, <1>10 DEF vars, cacheVars
<1> QED
  BY <1>2, <1>3, <1>4, <1>5, <1>6, <1>7, <1>8, <1>9, <1>10 DEF Next, Proceed

(* The types of the variables, and the bound of the cache: the check of    *)
(* len(authCache) and len(routeCache) before an entry is stored.           *)
THEOREM TypeCorrect == Spec => []TypeOK
<1>1. TypeInv => TypeOK
  BY DEF TypeInv
<1> QED
  BY InitTypeInv, NextTypeInv, <1>1, PTL DEF Spec

-----------------------------------------------------------------------------
(* The load gate.  SingleFlight is inductive: the gate of a key names the  *)
(* one reader that loads it, and only that reader clears the name.         *)

LEMMA InitSingleFlight == Init => SingleFlight
  BY CacheAssumption DEF Init, SingleFlight

LEMMA NextSingleFlight ==
  TypeInv /\ SingleFlight /\ [Next]_vars => SingleFlight'
<1> SUFFICES ASSUME TypeInv, SingleFlight, [Next]_vars, Gated
             PROVE  SingleFlight'
  BY DEF SingleFlight
<1> DEFINE Loading == {"recheck", "load", "store", "release"}
<1>1. /\ \A r \in Readers : pc[r] \in Loading <=> loader[key[r]] = r
      /\ \A r \in Readers : pc[r] = "wait" => loader[key[r]] # None
      /\ \A k \in Keys : loader[k] # None => key[loader[k]] = k
  BY DEF SingleFlight
<1>2. /\ pc \in [Readers -> ReaderStates] /\ key \in [Readers -> Keys]
      /\ loader \in [Keys -> Readers \cup {None}]
  BY DEF TypeInv, TypeOK
<1>3. None \notin Readers
  BY CacheAssumption
<1>4. ASSUME NEW r \in Readers, Lookup(r) PROVE SingleFlight'
  <2>1. \A k \in Keys : loader[k] # r
    BY <1>1, <1>2, <1>3, <1>4 DEF Lookup
  <2> QED
    BY <1>1, <1>2, <1>3, <1>4, <2>1 DEF Lookup, Goto, SingleFlight
<1>5. ASSUME NEW r \in Readers, Acquire(r) PROVE SingleFlight'
  BY <1>1, <1>2, <1>3, <1>5 DEF Acquire, GateFree, Goto, SingleFlight
(* A reader that steps within the section, or outside of it.               *)
<1>6. ASSUME NEW r \in Readers, NEW next \in ReaderStates, Goto(r, next),
             next # "wait", pc[r] \in Loading <=> next \in Loading,
             UNCHANGED <<loader, key>>
      PROVE  SingleFlight'
  BY <1>1, <1>2, <1>6 DEF Goto, SingleFlight
<1>7. ASSUME NEW r \in Readers,
             Check(r) \/ Recheck(r) \/ WaitCancelled(r) \/ Load(r) \/ Store(r)
               \/ Return(r)
      PROVE  SingleFlight'
  <2>1. CASE Check(r)
    BY <1>6, <2>1 DEF Check, ReaderStates
  <2>2. CASE Recheck(r)
    BY <1>6, <2>2 DEF Recheck, ReaderStates
  <2>3. CASE WaitCancelled(r)
    BY <1>6, <2>3 DEF WaitCancelled, ReaderStates
  <2>4. CASE Load(r)
    BY <1>6, <2>4 DEF Load, ReaderStates
  <2>5. CASE Store(r)
    BY <1>6, <2>5 DEF Store, ReaderStates
  <2>6. CASE Return(r)
    BY <1>6, <2>6 DEF Return, ReaderStates
  <2> QED
    BY <1>7, <2>1, <2>2, <2>3, <2>4, <2>5, <2>6
(* The loader leaves: whoever waits for its key is woken.                  *)
<1>8. ASSUME NEW r \in Readers, Release(r) \/ LoadFails(r) PROVE SingleFlight'
  <2>1. PICK next \in {"found", "idle"} : WakeAnd(r, next)
    BY <1>8 DEF Release, LoadFails
  <2>2. /\ loader[key[r]] = r
        /\ loader' = [loader EXCEPT ![key[r]] = None] /\ key' = key
    BY <1>1, <1>8 DEF Release, LoadFails, Unlock
  <2>3. \A q \in Readers :
          pc'[q] = IF q = r THEN next
                   ELSE IF pc[q] = "wait" /\ key[q] = key[r] THEN "acquire"
                   ELSE pc[q]
    BY <2>1 DEF WakeAnd
  <2>4. \A q \in Readers :
          /\ pc'[q] \in Loading <=> loader'[key'[q]] = q
          /\ pc'[q] = "wait" => loader'[key'[q]] # None
    BY <1>1, <1>2, <1>3, <2>2, <2>3
  <2> QED
    BY <1>1, <1>2, <2>2, <2>4 DEF SingleFlight
<1>9. ASSUME UNCHANGED <<pc, key, loader>> PROVE SingleFlight'
  BY <1>1, <1>9 DEF SingleFlight
<1>10. ASSUME NEW w \in Writers,
              Commit(w) \/ Invalidate(w) \/ CommitUnacknowledged(w)
       PROVE  SingleFlight'
  BY <1>9, <1>10 DEF Commit, Invalidate, CommitUnacknowledged, readerVars
<1>11. ASSUME NEW k \in Keys, Expire(k) PROVE SingleFlight'
  BY <1>9, <1>11 DEF Expire, readerVars
<1>12. CASE UNCHANGED vars
  BY <1>9, <1>12 DEF vars
<1> QED
  BY <1>4, <1>5, <1>7, <1>8, <1>10, <1>11, <1>12 DEF Next, Proceed

(* At most one reader loads a key at a time, and whoever waits, waits for  *)
(* a loader that is there (loadGate.acquire and its release).              *)
THEOREM LoadsAreMerged == Spec => []SingleFlight
  BY InitTypeInv, NextTypeInv, InitSingleFlight, NextSingleFlight, PTL DEF Spec
=============================================================================
