---------------------------- MODULE AdminAccess -----------------------------
(***************************************************************************)
(* How an administrator gets in (internal/httpapi/admin.go over            *)
(* internal/store/admin.go): logins, the limiter that counts the failed    *)
(* ones by address and by account, sessions, and the password change that  *)
(* revokes them.                                                           *)
(*                                                                         *)
(* Requests run at the same time.  There is one account.  Every password   *)
(* change writes a hash of its own, so hashes are counted; a login knows   *)
(* the password of one of them.  Time passes in minutes, of which Window   *)
(* stand for the quarter of an hour of the limiter.                        *)
(***************************************************************************)
EXTENDS Integers, FiniteSets

CONSTANTS
  Logins, Changers,  (* concurrent requests                                 *)
  Addresses,         (* client addresses                                    *)
  Account,           (* the limiter's key of the account                    *)
  Nobody,
  Limit,             (* failures that block: 5                              *)
  Window,            (* minutes of a window and of a block: 15              *)
  Capacity,          (* entries of the limiter: 4096                        *)
  MaxHashes          (* bounds the password changes                         *)

ASSUME AccessAssumption ==
  /\ {Limit, Window, Capacity, MaxHashes} \subseteq Nat \ {0}
  /\ Account \notin Addresses /\ Nobody \notin Logins \cup Changers

VARIABLES
  attempts,   (* loginLimiter.attempts: key -> entry, or None               *)
  swept,      (* cleanupLocked ran in this minute                           *)
  login,      (* where each login stands                                    *)
  change,     (* where each password change stands                          *)
  hash,       (* admins.password_hash, committed                            *)
  sessions,   (* the sessions, each with the hash it was created for        *)
  sharing,    (* logins that hold the share lock of the admin's row         *)
  owner       (* the change that holds its exclusive lock                   *)

accessVars == <<attempts, swept, login, change, hash, sessions, sharing, owner>>
limiter == <<attempts, swept>>
database == <<hash, sessions, sharing, owner>>

LimiterKeys == Addresses \cup {Account}
Minutes == 0..(Window + 1)
None == [count |-> 0, age |-> 0, blocked |-> 0]
Away == [pc |-> "idle", ip |-> Account, knows |-> 0, hash |-> 0]

AccessTypeOK ==
  /\ attempts \in [LimiterKeys -> [count : 0..Limit,
                                   age : Minutes, blocked : 0..Window]]
  /\ swept \in BOOLEAN
  /\ login \in [Logins -> [pc : {"idle", "account", "read", "verify", "failed",
                                 "right", "session", "insert"},
                           ip : LimiterKeys, knows : 0..MaxHashes, hash : 0..MaxHashes]]
  /\ change \in [Changers -> [pc : {"idle", "current", "update", "revoke"},
                              hash : 0..MaxHashes]]
  /\ hash \in 1..MaxHashes /\ sessions \subseteq (Logins \X (1..MaxHashes))
  /\ sharing \subseteq Logins /\ owner \in Changers \cup {Nobody}

AccessInit ==
  /\ attempts = [k \in LimiterKeys |-> None] /\ swept = FALSE
  /\ login = [l \in Logins |-> Away]
  /\ change = [c \in Changers |-> [pc |-> "idle", hash |-> 0]]
  /\ hash = 1 /\ sessions = {} /\ sharing = {} /\ owner = Nobody

-----------------------------------------------------------------------------
(* loginLimiter.                                                           *)

Known(as) == {k \in LimiterKeys : as[k].count > 0}
Full(k, as) == k \notin Known(as) /\ Cardinality(Known(as)) >= Capacity

WindowOnly(e) == e.age > Window
Over(e) == e.age > Window /\ e.blocked = 0

(* cleanupLocked, at most once a minute.                                   *)
Cleaned ==
  IF swept THEN attempts
  ELSE [k \in LimiterKeys |-> IF Over(attempts[k]) THEN None ELSE attempts[k]]

(* wait: how long k is blocked.                                            *)
Blocked(k) == Full(k, Cleaned) \/ Cleaned[k].blocked > 0

(* fail.  A count above the limit says no more than the limit does.        *)
Failed(k, as) ==
  LET e == IF as[k].age > Window THEN None ELSE as[k]
      n == IF e.count < Limit THEN e.count + 1 ELSE Limit
  IN IF Full(k, as) THEN as
     ELSE [as EXCEPT ![k] = [count |-> n, age |-> e.age,
                             blocked |-> IF n >= Limit THEN Window ELSE e.blocked]]

-----------------------------------------------------------------------------
(* login.                                                                  *)

AtLogin(l, pc) == login[l].pc = pc
To(l, pc) == login' = [login EXCEPT ![l].pc = pc]
Ends(l) == login' = [login EXCEPT ![l] = Away]

(* wait by address, then by account.                                       *)
Knock(l) ==
  /\ AtLogin(l, "idle")
  /\ \E ip \in Addresses, knows \in 0..hash :
       login' = [login EXCEPT ![l] = IF Blocked(ip) THEN Away
                                     ELSE [pc |-> "account", ip |-> ip,
                                           knows |-> knows, hash |-> 0]]
  /\ attempts' = Cleaned /\ swept' = TRUE
  /\ UNCHANGED <<change, database>>

AskAccount(l) ==
  /\ AtLogin(l, "account")
  /\ IF Blocked(Account) THEN Ends(l) ELSE To(l, "read")
  /\ attempts' = Cleaned /\ swept' = TRUE
  /\ UNCHANGED <<change, database>>

(* A name or a password that is too long counts for the address alone.     *)
TooLong(l) ==
  /\ AtLogin(l, "read")
  /\ attempts' = Failed(login[l].ip, Cleaned) /\ swept' = TRUE
  /\ Ends(l)
  /\ UNCHANGED <<change, database>>

(* AdminByUsername.                                                        *)
ReadAdmin(l) ==
  /\ AtLogin(l, "read")
  /\ login' = [login EXCEPT ![l].pc = "verify", ![l].hash = hash]
  /\ UNCHANGED <<limiter, change, database>>

(* CheckPassword, and fail or success by address, which come at once after *)
(* it; those by account follow.                                            *)
CheckPassword(l) ==
  /\ AtLogin(l, "verify")
  /\ IF login[l].knows = login[l].hash
     THEN /\ attempts' = [attempts EXCEPT ![login[l].ip] = None]
          /\ To(l, "right") /\ UNCHANGED swept
     ELSE /\ attempts' = Failed(login[l].ip, Cleaned) /\ swept' = TRUE
          /\ To(l, "failed")
  /\ UNCHANGED <<change, database>>

CountFailure(l) ==
  /\ AtLogin(l, "failed")
  /\ attempts' = Failed(Account, Cleaned) /\ swept' = TRUE
  /\ Ends(l)
  /\ UNCHANGED <<change, database>>

ForgetFailures(l) ==
  /\ AtLogin(l, "right")
  /\ attempts' = [attempts EXCEPT ![Account] = None]
  /\ To(l, "session")
  /\ UNCHANGED <<swept, change, database>>

NoLock(l) == TRUE
ShareLock(l) == owner = Nobody

(* CreateSessionForPassword: SELECT ... FOR SHARE, then INSERT and commit. *)
CompareHash(l) ==
  /\ AtLogin(l, "session") /\ ShareLock(l)
  /\ IF login[l].hash = hash
     THEN To(l, "insert") /\ sharing' = sharing \cup {l}
     ELSE Ends(l) /\ UNCHANGED sharing
  /\ UNCHANGED <<limiter, change, hash, sessions, owner>>

(* A transaction that fails leaves nothing.                                *)
InsertSession(l) ==
  /\ AtLogin(l, "insert")
  /\ \/ sessions' = sessions \cup {<<l, login[l].hash>>}
     \/ UNCHANGED sessions
  /\ sharing' = sharing \ {l}
  /\ Ends(l)
  /\ UNCHANGED <<limiter, change, hash, owner>>

-----------------------------------------------------------------------------
(* Sessions and the password.                                              *)

(* logout and DeleteExpiredSessions.                                       *)
EndSession(s) ==
  /\ sessions' = sessions \ {s}
  /\ UNCHANGED <<limiter, login, change, hash, sharing, owner>>

(* admin: the hash is read with the session.                               *)
Authenticate(c) ==
  /\ change[c].pc = "idle" /\ sessions # {}
  /\ change' = [change EXCEPT ![c] = [pc |-> "current", hash |-> hash]]
  /\ UNCHANGED <<limiter, login, database>>

(* changePassword: the current password is checked against that hash.      *)
CheckCurrent(c) ==
  /\ change[c].pc = "current"
  /\ \E right \in BOOLEAN :
       change' = [change EXCEPT ![c].pc = IF right THEN "update" ELSE "idle"]
  /\ UNCHANGED <<limiter, login, database>>

(* UpdateAdminPassword: the row first, then the sessions and the commit.   *)
LockAdmin(c) ==
  /\ change[c].pc = "update" /\ hash < MaxHashes
  /\ owner = Nobody /\ sharing = {}
  /\ owner' = c
  /\ change' = [change EXCEPT ![c].pc = "revoke"]
  /\ UNCHANGED <<limiter, login, hash, sessions, sharing>>

CommitPassword(c) ==
  /\ change[c].pc = "revoke"
  /\ \/ hash' = hash + 1 /\ sessions' = {}
     \/ UNCHANGED <<hash, sessions>>
  /\ owner' = Nobody
  /\ change' = [change EXCEPT ![c].pc = "idle"]
  /\ UNCHANGED <<limiter, login, sharing>>

Minute ==
  /\ attempts' = [k \in LimiterKeys |->
       IF attempts[k].count = 0 THEN None
       ELSE [attempts[k] EXCEPT !.age = IF @ > Window THEN @ ELSE @ + 1,
                                !.blocked = IF @ = 0 THEN 0 ELSE @ - 1]]
  /\ swept' = FALSE
  /\ UNCHANGED <<login, change, database>>

LoginStep(l) ==
  \/ Knock(l) \/ AskAccount(l) \/ TooLong(l) \/ ReadAdmin(l) \/ CheckPassword(l)
  \/ CountFailure(l) \/ ForgetFailures(l) \/ CompareHash(l) \/ InsertSession(l)

AccessNext ==
  \/ \E l \in Logins : LoginStep(l)
  \/ \E s \in sessions : EndSession(s)
  \/ \E c \in Changers :
       Authenticate(c) \/ CheckCurrent(c) \/ LockAdmin(c) \/ CommitPassword(c)
  \/ Minute

AccessSpec == AccessInit /\ [][AccessNext]_accessVars

-----------------------------------------------------------------------------
(* Properties.                                                             *)

(* docs/architecture.en.md: changing the password revokes the sessions,    *)
(* and a login that verified the old one cannot leave a session behind.    *)
SessionsMatchPassword == \A s \in sessions : s[2] = hash

(* A block is served in full: neither the cleanup nor a later failure ends *)
(* it, only a login that had passed before it and turns out right, or one  *)
(* that turns out wrong when the window it was counted in is over.         *)
BlockIsServed ==
  [][ \A k \in LimiterKeys :
        attempts[k].blocked > 0 =>
          \/ attempts'[k].blocked >= attempts[k].blocked
          \/ Minute
          \/ \E l \in Logins :
               /\ login[l].pc \in {"verify", "read", "failed", "right"}
               /\ login'[l] # login[l]
               /\ attempts'[k] = None \/ attempts[k].age > Window ]_accessVars

(* However many logins fail at once, the limiter keeps no more entries     *)
(* than its capacity.                                                      *)
LimiterIsBounded == Cardinality(Known(attempts)) <= Capacity

(* Together: blocks are served, in bounded memory.                         *)
LimiterHolds == []LimiterIsBounded /\ BlockIsServed
=============================================================================
