--------------------------- MODULE GenerationCache ---------------------------
(***************************************************************************)
(* The in-process caches of the store (internal/store/cache.go) in front   *)
(* of PostgreSQL: client keys (AuthenticateAPIKey), routes                 *)
(* (ListRouteUpstreams) and the max_attempts setting (MaxAttempts), with   *)
(* the load gate that merges concurrent misses (load_gate.go).             *)
(*                                                                         *)
(* The three caches are one algorithm.  A lookup takes the generation with *)
(* its miss, loads from the database, and stores what it read only if the  *)
(* generation is still the same.  An administrative change commits, then   *)
(* clears the cache and advances the generation, then returns.             *)
(*                                                                         *)
(* A value is the number of changes committed to its key when it was read. *)
(***************************************************************************)
EXTENDS Naturals, FiniteSets

CONSTANTS
  Keys,       (* cache keys                                               *)
  Readers,    (* goroutines that look up                                  *)
  Writers,    (* goroutines that change rows                              *)
  Capacity,   (* maxAuthCacheEntries, maxRouteCacheEntries                *)
  Gated,      (* TRUE: keys and routes; FALSE: max_attempts has no gate   *)
  None,       (* no cache entry, no loader                                *)
  MaxChanges  (* bounds the changes per key                               *)

ASSUME CacheAssumption ==
  /\ Capacity \in Nat \ {0}
  /\ Gated \in BOOLEAN
  /\ None \notin Nat
  /\ None \notin Readers
  /\ MaxChanges \in Nat

VARIABLES
  db,         (* committed version of each key                            *)
  cache,      (* cached version of each key, or None                      *)
  expired,    (* keys whose entry is past its time to live                *)
  gen,        (* authGen, routeGen, maxAttemptsGen                        *)
  loader,     (* g.active: the reader that holds the gate of a key        *)
  pc,         (* where each reader stands                                 *)
  key,        (* the key each reader looks up                             *)
  seen,       (* the generation each reader took with its miss            *)
  value,      (* the version each reader has loaded or found              *)
  writer,     (* where each writer stands                                 *)
  published,  (* history: the version of each key that every finished
                 change had reached when it was last invalidated          *)
  floor       (* history: published when the reader's lookup began        *)

dbVars == <<db, published>>
cacheVars == <<cache, expired, gen>>
readerVars == <<pc, key, seen, value, floor>>
vars == <<db, cache, expired, gen, loader, pc, key, seen, value, writer,
          published, floor>>

ReaderStates == {"idle", "check", "acquire", "wait", "recheck", "load",
                 "store", "release", "found"}

Cached == {k \in Keys : cache[k] # None}

TypeOK ==
  /\ db \in [Keys -> Nat]
  /\ cache \in [Keys -> Nat \cup {None}]
  /\ Cardinality(Cached) <= Capacity
  /\ expired \in SUBSET Cached
  /\ gen \in Nat
  /\ loader \in [Keys -> Readers \cup {None}]
  /\ pc \in [Readers -> ReaderStates]
  /\ key \in [Readers -> Keys]
  /\ seen \in [Readers -> Nat]
  /\ value \in [Readers -> Nat]
  /\ writer \in [Writers -> {"idle", "committed"}]
  /\ published \in [Keys -> Nat]
  /\ floor \in [Readers -> Nat]

Init ==
  /\ db = [k \in Keys |-> 0]
  /\ cache = [k \in Keys |-> None]
  /\ expired = {}
  /\ gen = 0
  /\ loader = [k \in Keys |-> None]
  /\ pc = [r \in Readers |-> "idle"]
  /\ key \in [Readers -> Keys]
  /\ seen = [r \in Readers |-> 0]
  /\ value = [r \in Readers |-> 0]
  /\ writer = [w \in Writers |-> "idle"]
  /\ published = [k \in Keys |-> 0]
  /\ floor = [r \in Readers |-> 0]

-----------------------------------------------------------------------------
(* A lookup.                                                               *)

Goto(r, next) == pc' = [pc EXCEPT ![r] = next]

Lookup(r) ==
  /\ pc[r] = "idle"
  /\ \E k \in Keys : /\ key' = [key EXCEPT ![r] = k]
                     /\ floor' = [floor EXCEPT ![r] = published[k]]
  /\ Goto(r, "check")
  /\ UNCHANGED <<dbVars, cacheVars, loader, seen, value, writer>>

(* cachedAPIKey, cachedRoutes, cachedMaxAttempts: the entry and the        *)
(* generation are read under one lock.                                     *)
Hit(r) ==
  /\ key[r] \in Cached \ expired
  /\ value' = [value EXCEPT ![r] = cache[key[r]]]
  /\ UNCHANGED seen

Miss(r) ==
  /\ key[r] \notin Cached \ expired
  /\ seen' = [seen EXCEPT ![r] = gen]
  /\ UNCHANGED value

Check(r) ==
  /\ pc[r] = "check"
  /\ \/ Hit(r) /\ Goto(r, "found")
     \/ Miss(r) /\ Goto(r, IF Gated THEN "acquire" ELSE "load")
  /\ UNCHANGED <<dbVars, cacheVars, loader, key, writer, floor>>

GateIgnored(k) == TRUE
GateFree(k) == loader[k] = None

(* loadGate.acquire: become the loader, or wait for it and try again.      *)
Acquire(r) ==
  /\ pc[r] = "acquire"
  /\ IF GateFree(key[r])
     THEN /\ loader' = [loader EXCEPT ![key[r]] = r]
          /\ Goto(r, "recheck")
     ELSE Goto(r, "wait") /\ UNCHANGED loader
  /\ UNCHANGED <<dbVars, cacheVars, key, seen, value, writer, floor>>

(* The caller's own context ends while it waits.                           *)
WaitCancelled(r) ==
  /\ pc[r] \in {"acquire", "wait"}
  /\ Goto(r, "idle")
  /\ UNCHANGED <<dbVars, cacheVars, loader, key, seen, value, writer, floor>>

Recheck(r) ==
  /\ pc[r] = "recheck"
  /\ \/ Hit(r) /\ Goto(r, "release")
     \/ Miss(r) /\ Goto(r, "load")
  /\ UNCHANGED <<dbVars, cacheVars, loader, key, writer, floor>>

Load(r) ==
  /\ pc[r] = "load"
  /\ value' = [value EXCEPT ![r] = db[key[r]]]
  /\ Goto(r, "store")
  /\ UNCHANGED <<dbVars, cacheVars, loader, key, seen, writer, floor>>


(* cacheAPIKey, cacheRoutes, cacheMaxAttempts.  A full cache is cleared    *)
(* first.                                                                  *)
StoreEntry(k, v) ==
  IF Cardinality(Cached) >= Capacity
  THEN /\ cache' = [c \in Keys |-> IF c = k THEN v ELSE None]
       /\ expired' = {}
  ELSE /\ cache' = [cache EXCEPT ![k] = v]
       /\ expired' = expired \ {k}

Current(r) == seen[r] = gen

Store(r) ==
  /\ pc[r] = "store"
  /\ IF Current(r) THEN StoreEntry(key[r], value[r])
                      ELSE UNCHANGED <<cache, expired>>
  /\ Goto(r, IF Gated THEN "release" ELSE "found")
  /\ UNCHANGED <<dbVars, gen, loader, key, seen, value, writer, floor>>

Unlock(k) == loader' = [loader EXCEPT ![k] = None]

WakeNobody(r, next) == Goto(r, next)

(* Closing the channel wakes the waiters, which try to acquire again.      *)
WakeAnd(r, next) ==
  pc' = [q \in Readers |->
           IF q = r THEN next
           ELSE IF pc[q] = "wait" /\ key[q] = key[r] THEN "acquire"
           ELSE pc[q]]

Release(r) ==
  /\ pc[r] = "release"
  /\ Unlock(key[r])
  /\ WakeAnd(r, "found")
  /\ UNCHANGED <<dbVars, cacheVars, key, seen, value, writer, floor>>

(* The query fails, finds no row, or is cancelled: an error, not cached.   *)
LoadFails(r) ==
  /\ pc[r] = "load"
  /\ IF Gated THEN Unlock(key[r]) /\ WakeAnd(r, "idle")
              ELSE Goto(r, "idle") /\ UNCHANGED loader
  /\ UNCHANGED <<dbVars, cacheVars, key, seen, value, writer, floor>>

Return(r) ==
  /\ pc[r] = "found"
  /\ Goto(r, "idle")
  /\ UNCHANGED <<dbVars, cacheVars, loader, key, seen, value, writer, floor>>

Proceed(r) ==
  \/ Check(r) \/ Acquire(r) \/ Recheck(r)
  \/ Load(r) \/ LoadFails(r) \/ Store(r) \/ Release(r) \/ Return(r)

-----------------------------------------------------------------------------
(* A change, and time.                                                     *)

Commit(w) ==
  /\ writer[w] = "idle"
  /\ \E k \in Keys : /\ db[k] < MaxChanges
                     /\ db' = [db EXCEPT ![k] = @ + 1]
  /\ writer' = [writer EXCEPT ![w] = "committed"]
  /\ UNCHANGED <<cacheVars, loader, readerVars, published>>

ClearOnly(w) ==
  /\ writer[w] = "committed"
  /\ cache' = [k \in Keys |-> None]
  /\ expired' = {}
  /\ published' = db
  /\ writer' = [writer EXCEPT ![w] = "idle"]
  /\ UNCHANGED <<db, gen, loader, readerVars>>

(* invalidateAuthCache, invalidateRouteCache, invalidateMaxAttemptsCache   *)
(* clear every entry, whichever key changed.                               *)
Invalidate(w) ==
  /\ writer[w] = "committed"
  /\ cache' = [k \in Keys |-> None]
  /\ expired' = {}
  /\ gen' = gen + 1
  /\ published' = db
  /\ writer' = [writer EXCEPT ![w] = "idle"]
  /\ UNCHANGED <<db, loader, readerVars>>

(* The commit is not acknowledged: the change returns an error and leaves  *)
(* the cache to its time to live.                                          *)
CommitUnacknowledged(w) ==
  /\ writer[w] = "committed"
  /\ writer' = [writer EXCEPT ![w] = "idle"]
  /\ UNCHANGED <<dbVars, cacheVars, loader, readerVars>>

Expire(k) ==
  /\ k \in Cached \ expired
  /\ expired' = expired \cup {k}
  /\ UNCHANGED <<dbVars, cache, gen, loader, readerVars, writer>>

-----------------------------------------------------------------------------

Next ==
  \/ \E r \in Readers : Lookup(r) \/ Proceed(r) \/ WaitCancelled(r)
  \/ \E w \in Writers : Commit(w) \/ Invalidate(w) \/ CommitUnacknowledged(w)
  \/ \E k \in Keys : Expire(k)

Spec == Init /\ [][Next]_vars

(* A lookup under way goes on: goroutines are scheduled and a query ends,  *)
(* one way or the other.  No context need ever end a wait.                 *)
FairSpec == Spec /\ \A r \in Readers : WF_vars(Proceed(r))

-----------------------------------------------------------------------------
(* Properties.                                                             *)

(* A lookup that begins after an administrative change has returned does   *)
(* not see the state before it: not from the cache, not from a load that   *)
(* was already on its way, not from a load it waited for.                  *)
NoStaleLookup ==
  \A r \in Readers : pc[r] = "found" => value[r] >= floor[r]

(* The cache is an implementation of reads that are fresh.                 *)
Status ==
  [r \in Readers |-> IF pc[r] = "idle" THEN "out"
                     ELSE IF pc[r] = "found" THEN "answered" ELSE "looking"]
Given == [r \in Readers |-> IF pc[r] = "found" THEN value[r] ELSE 0]

Reads == INSTANCE FreshReads
           WITH committed <- db, finished <- published,
                status <- Status, answer <- Given

(* With its generations, gates and expiry, the cache answers as if every   *)
(* lookup read the database: never a version that was superseded before    *)
(* the lookup began, never one that was not committed.                     *)
LookupsAreFresh == Reads!ReadSpec

(* Nor does the cache keep an entry from before a finished change.         *)
NoStaleEntry == \A k \in Cached : cache[k] >= published[k]

(* With the gate, a key is loaded by one reader at a time, the one the     *)
(* gate names; whoever waits, waits for a loader that is there.            *)
SingleFlight ==
  Gated =>
    /\ \A r \in Readers :
         pc[r] \in {"recheck", "load", "store", "release"}
           <=> loader[key[r]] = r
    /\ \A r \in Readers : pc[r] = "wait" => loader[key[r]] # None
    /\ \A k \in Keys : loader[k] # None => key[loader[k]] = k

(* The entries that can answer last: only an invalidation removes one.     *)
EntriesLast == gen' # gen \/ Cached \ expired \subseteq (Cached \ expired)'

(* No lookup is stranded: once loads succeed and entries last, whoever     *)
(* looks up returns, though the loader it waited for failed or what that   *)
(* loader read was invalidated.                                            *)
LookupReturns ==
  (<>[][(\A r \in Readers : ~LoadFails(r)) /\ EntriesLast]_vars)
    => \A r \in Readers : pc[r] = "check" ~> pc[r] = "idle"
=============================================================================
