------------------------------ MODULE Catalog -------------------------------
(***************************************************************************)
(* What administrators edit: upstreams, groups of them, and client keys    *)
(* bound to a group (internal/httpapi/admin_access.go and                  *)
(* admin_upstreams.go over internal/store/groups.go, apikeys.go and        *)
(* upstreams.go), and the two caches that must follow, of keys and of      *)
(* routes.                                                                 *)
(*                                                                         *)
(* Handlers run at the same time, each a few statements and transactions   *)
(* under READ COMMITTED.  PostgreSQL is external: its row locks and        *)
(* foreign keys are modelled where two handlers can meet, and a handler it *)
(* aborts ends without a change.  How a cache is filled while it is being  *)
(* invalidated is in GenerationCache; here a load is one step.             *)
(***************************************************************************)
EXTENDS FiniteSets, Naturals

CONSTANTS
  Upstreams, Groups, Keys,  (* ids that are given out, each once            *)
  Handlers,                 (* administrative requests at a time            *)
  Nil,                      (* no entry in a cache, nothing                 *)
  MaxDeletions              (* bounds the upstreams deleted at a time       *)

ASSUME CatalogAssumption ==
  /\ IsFiniteSet(Upstreams) /\ MaxDeletions \in Nat
  /\ Nil \notin Upstreams \cup Groups \cup Keys

VARIABLES
  station,    (* upstreams: "unused", "on", "off" or "gone"                 *)
  group,      (* groups: "unused", "on", "off" or "gone"                    *)
  member,     (* group_upstreams, by group                                  *)
  key,        (* api_keys, or Nil                                           *)
  unusedKeys, (* keys that were not created yet                             *)
  op,         (* what each handler is doing                                 *)
  authCache,  (* authCache, by key                                          *)
  routeCache  (* routeCache, by group                                       *)

tables == <<station, group, member, key, unusedKeys>>
caches == <<authCache, routeCache>>
catalogVars == <<tables, op, caches>>

Rows == {"on", "off"}
Caches == {"auth", "route"}
NoOp == [pc |-> "idle", id |-> Nil, group |-> Nil, on |-> FALSE,
         with |-> {}, stale |-> {}]

CatalogTypeOK ==
  /\ station \in [Upstreams -> Rows \cup {"unused", "gone"}]
  /\ group \in [Groups -> Rows \cup {"unused", "gone"}]
  /\ member \in [Groups -> SUBSET Upstreams]
  /\ key \in [Keys -> [group : Groups, on : BOOLEAN] \cup {Nil}]
  /\ unusedKeys \subseteq Keys
  /\ \A h \in Handlers : op[h].stale \subseteq Caches
  /\ routeCache \in [Groups -> (SUBSET Upstreams) \cup {Nil}]

There == {u \in Upstreams : station[u] \in Rows}
Existing == {g \in Groups : group[g] \in Rows}
KeysOf(g) == {k \in Keys : key[k] # Nil /\ key[k].group = g}
Switch(on) == IF on THEN "on" ELSE "off"

(* DELETE FROM upstreams locks its row until the commit, the UPDATE of the *)
(* emptied groups theirs.                                                  *)
Deleting(h) == op[h].pc \in {"disable", "commit"}
LockedUpstreams == {op[h].id : h \in {i \in Handlers : Deleting(i)}}
LockedGroups == UNION {op[h].with : h \in {i \in Handlers : op[i].pc = "commit"}}

CatalogInit ==
  /\ station = [u \in Upstreams |-> "unused"]
  /\ group = [g \in Groups |-> "unused"]
  /\ member = [g \in Groups |-> {}]
  /\ key = [k \in Keys |-> Nil] /\ unusedKeys = Keys
  /\ op = [h \in Handlers |-> NoOp]
  /\ authCache = [k \in Keys |-> Nil]
  /\ routeCache = [g \in Groups |-> Nil]

Idle(h) == op[h].pc = "idle"
At(h, pc) == op[h].pc = pc
Goes(h, state) == op' = [op EXCEPT ![h] = state]
(* A commit is followed by the invalidation of what may hold the old rows. *)
Stale(h, stale) == Goes(h, [NoOp EXCEPT !.pc = "invalidate", !.stale = stale])

-----------------------------------------------------------------------------
(* Upstreams.                                                              *)

(* CreateUpstream and UpdateUpstream.                                      *)
SaveUpstream(h) ==
  /\ Idle(h)
  /\ \E u \in Upstreams \ LockedUpstreams, on \in BOOLEAN :
       /\ station[u] # "gone"
       /\ station' = [station EXCEPT ![u] = Switch(on)]
  /\ Stale(h, {"route"})
  /\ UNCHANGED <<group, member, key, unusedKeys, caches>>

(* DeleteUpstream: the row first, and with it its memberships.             *)
DeleteUpstream(h) ==
  /\ Idle(h)
  /\ Cardinality(LockedUpstreams) < MaxDeletions
  /\ \E u \in There \ LockedUpstreams :
       Goes(h, [NoOp EXCEPT !.pc = "disable", !.id = u])
  /\ UNCHANGED <<tables, caches>>

NoGroup(u) == {}
Emptied(u) == {g \in Groups : group[g] = "on" /\ member[g] \ {u} = {}}

(* Then the groups it leaves empty, as the statement sees them: the rows   *)
(* other transactions have deleted are still there until they commit.      *)
DisableEmptied(h) ==
  /\ At(h, "disable")
  /\ Emptied(op[h].id) \cap LockedGroups = {}
  /\ Goes(h, [op[h] EXCEPT !.pc = "commit", !.with = Emptied(op[h].id)])
  /\ UNCHANGED <<tables, caches>>

RouteOnly == {"route"}
Both == {"route", "auth"}

CommitDeletion(h) ==
  /\ At(h, "commit")
  /\ station' = [station EXCEPT ![op[h].id] = "gone"]
  /\ member' = [g \in Groups |-> member[g] \ {op[h].id}]
  /\ group' = [g \in Groups |-> IF g \in op[h].with THEN "off" ELSE group[g]]
  /\ Stale(h, Both)
  /\ UNCHANGED <<key, unusedKeys, caches>>

-----------------------------------------------------------------------------
(* Groups.                                                                 *)

(* The members must exist; the foreign key waits for a deletion under way. *)
MayInsert(us) == us \cap LockedUpstreams = {}

CreateGroup(h) ==
  /\ Idle(h)
  /\ \E g \in Groups, on \in BOOLEAN, us \in (SUBSET There) \ {{}} :
       /\ group[g] = "unused" /\ MayInsert(us)
       /\ group' = [group EXCEPT ![g] = Switch(on)]
       /\ member' = [member EXCEPT ![g] = us]
  /\ Stale(h, RouteOnly)
  /\ UNCHANGED <<station, key, unusedKeys, caches>>

(* updateGroup reads the group for what the request leaves out.            *)
ReadGroup(h) ==
  /\ Idle(h)
  /\ \E g \in Existing, on \in BOOLEAN, us \in SUBSET Upstreams :
       Goes(h, [NoOp EXCEPT !.pc = "count", !.id = g, !.on = on, !.with = us])
  /\ UNCHANGED <<tables, caches>>

MembersSuffice(on, us) == on => us # {}

(* UpdateGroup: the keys are counted, without a lock, before the write.    *)
CountKeys(h) ==
  /\ At(h, "count")
  /\ IF (KeysOf(op[h].id) # {} /\ ~op[h].on) \/ ~MembersSuffice(op[h].on, op[h].with)
     THEN Goes(h, NoOp)
     ELSE Goes(h, [op[h] EXCEPT !.pc = "write"])
  /\ UNCHANGED <<tables, caches>>

WriteGroup(h) ==
  /\ At(h, "write")
  /\ op[h].id \notin LockedGroups /\ MayInsert(op[h].with)
  /\ IF op[h].id \in Existing /\ op[h].with \subseteq There
     THEN /\ group' = [group EXCEPT ![op[h].id] = Switch(op[h].on)]
          /\ member' = [member EXCEPT ![op[h].id] = op[h].with]
          /\ Stale(h, Both)
     ELSE Goes(h, NoOp) /\ UNCHANGED <<group, member>>
  /\ UNCHANGED <<station, key, unusedKeys, caches>>

(* DeleteGroup: a key bound after the count is kept by the foreign key.    *)
DeleteGroup(h) ==
  /\ Idle(h)
  /\ \E g \in Existing \ LockedGroups :
       /\ KeysOf(g) = {}
       /\ group' = [group EXCEPT ![g] = "gone"]
       /\ member' = [member EXCEPT ![g] = {}]
  /\ Stale(h, Both)
  /\ UNCHANGED <<station, key, unusedKeys, caches>>

-----------------------------------------------------------------------------
(* Client keys.                                                            *)

GroupAvailable(g) == group[g] = "on" /\ member[g] # {}

(* createKey and updateKey: the group must be available, unless the key    *)
(* stays where it is and is switched off.                                  *)
OfferKey(h) ==
  /\ Idle(h)
  /\ \E k \in Keys, g \in Existing, on \in BOOLEAN :
       /\ key[k] # Nil \/ (k \in unusedKeys /\ on)
       /\ on \/ key[k].group # g => GroupAvailable(g)
       /\ Goes(h, [NoOp EXCEPT !.pc = "key", !.id = k, !.group = g, !.on = on])
  /\ UNCHANGED <<tables, caches>>

(* InsertAPIKey and UpdateAPIKey; the key or its group may be gone by now. *)
WriteKey(h) ==
  /\ At(h, "key")
  /\ LET k == op[h].id
     IN IF (key[k] # Nil \/ k \in unusedKeys) /\ op[h].group \in Existing
        THEN /\ key' = [key EXCEPT ![k] = [group |-> op[h].group, on |-> op[h].on]]
             /\ unusedKeys' = unusedKeys \ {k}
             /\ Stale(h, {"auth"})
        ELSE Goes(h, NoOp) /\ UNCHANGED <<key, unusedKeys>>
  /\ UNCHANGED <<station, group, member, caches>>

DeleteKey(h) ==
  /\ Idle(h)
  /\ \E k \in Keys :
       key[k] # Nil /\ key' = [key EXCEPT ![k] = Nil]
  /\ Stale(h, {"auth"})
  /\ UNCHANGED <<station, group, member, unusedKeys, caches>>

-----------------------------------------------------------------------------
(* The caches.                                                             *)

Invalidate(h) ==
  /\ At(h, "invalidate")
  /\ \E c \in op[h].stale :
       /\ Goes(h, IF op[h].stale = {c} THEN NoOp
                  ELSE [op[h] EXCEPT !.stale = @ \ {c}])
       /\ IF c = "auth" THEN authCache' = [k \in Keys |-> Nil] /\ UNCHANGED routeCache
          ELSE routeCache' = [g \in Groups |-> Nil] /\ UNCHANGED authCache
  /\ UNCHANGED tables

(* A transaction that fails or that PostgreSQL aborts changes nothing.     *)
Abort(h) ==
  /\ Deleting(h) \/ op[h].pc \in {"count", "write", "key"}
  /\ Goes(h, NoOp)
  /\ UNCHANGED <<tables, caches>>

(* AuthenticateAPIKey: the key with its group.                             *)
AuthRow(k) == [group |-> key[k].group, available |-> group[key[k].group] = "on"]
LoadKey(k) ==
  /\ key[k] # Nil /\ key[k].on
  /\ authCache' = [authCache EXCEPT ![k] = AuthRow(k)]
  /\ UNCHANGED <<tables, op, routeCache>>

(* ListRouteUpstreams.                                                     *)
Route(g) == IF group[g] # "on" THEN {} ELSE {u \in member[g] : station[u] = "on"}
LoadRoute(g) ==
  /\ routeCache' = [routeCache EXCEPT ![g] = Route(g)]
  /\ UNCHANGED <<tables, op, authCache>>

HandlerStep(h) ==
  \/ SaveUpstream(h) \/ DeleteUpstream(h) \/ DisableEmptied(h) \/ CommitDeletion(h)
  \/ CreateGroup(h) \/ ReadGroup(h) \/ CountKeys(h) \/ WriteGroup(h) \/ DeleteGroup(h)
  \/ OfferKey(h) \/ WriteKey(h) \/ DeleteKey(h)
  \/ Invalidate(h) \/ Abort(h)

CatalogNext ==
  \/ \E h \in Handlers : HandlerStep(h)
  \/ \E k \in Keys : LoadKey(k)
  \/ \E g \in Groups : LoadRoute(g)

CatalogSpec == CatalogInit /\ [][CatalogNext]_catalogVars

-----------------------------------------------------------------------------
(* Properties.                                                             *)

(* docs/admin-api.md: an enabled group keeps at least one member (also     *)
(* store_integration_test.go: a group whose last upstream is deleted is    *)
(* disabled).                                                              *)
EnabledGroupHasMember == \A g \in Groups : group[g] = "on" => member[g] # {}

(* What a cache holds is what the tables say, except between a handler's   *)
(* commit and the invalidation that follows it.                            *)
CachesFollow ==
  /\ \A k \in Keys :
       authCache[k] # Nil =>
         \/ key[k] # Nil /\ key[k].on /\ authCache[k] = AuthRow(k)
         \/ \E h \in Handlers : "auth" \in op[h].stale
  /\ \A g \in Groups :
       routeCache[g] # Nil =>
         \/ routeCache[g] = Route(g)
         \/ \E h \in Handlers : "route" \in op[h].stale
=============================================================================
