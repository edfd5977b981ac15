-------------------------- MODULE AdminAccessProofs --------------------------
(***************************************************************************)
(* Proofs about what administrators change at the same time.               *)
(*                                                                         *)
(* AdminAccess, for any number of logins, password changes and client      *)
(* addresses and any limits: no session outlives the password it was       *)
(* opened with, and the limiter serves its blocks in bounded memory.       *)
(*                                                                         *)
(* Catalog, for any number of handlers, upstreams, groups and keys: a      *)
(* cache that differs from the tables is about to be invalidated, and an   *)
(* enabled group keeps a member as long as deletions do not overlap.       *)
(***************************************************************************)
EXTENDS AdminAccess, Catalog, FiniteSetTheorems, TLAPS

LoginPcs == {"idle", "account", "read", "verify", "failed", "right", "session", "insert"}
LoginStates == [pc : LoginPcs, ip : LimiterKeys, knows : 0..MaxHashes, hash : 0..MaxHashes]
Entries == [count : 0..Limit, age : Minutes, blocked : 0..Window]

-----------------------------------------------------------------------------
(* Types.                                                                  *)

(* What the operators of the limiter return.                               *)
LEMMA Numbers == Limit \in Nat /\ Window \in Nat /\ Capacity \in Nat
BY AccessAssumption

LEMMA NoneIsEntry == None \in Entries
BY AccessAssumption DEF None, Entries, Minutes

LEMMA CleanedType ==
  ASSUME attempts \in [LimiterKeys -> Entries]
  PROVE  Cleaned \in [LimiterKeys -> Entries]
BY NoneIsEntry DEF Cleaned

LEMMA FailedType ==
  ASSUME NEW es \in [LimiterKeys -> Entries], NEW k \in LimiterKeys
  PROVE  Failed(k, es) \in [LimiterKeys -> Entries]
<1> DEFINE e == IF es[k].age > Window THEN None ELSE es[k]
           n == IF e.count < Limit THEN e.count + 1 ELSE Limit
           b == IF n >= Limit THEN Window ELSE e.blocked
<1>1. e \in Entries
  BY NoneIsEntry
<1>2. e.count \in 0..Limit /\ e.age \in Minutes /\ e.blocked \in 0..Window
  BY <1>1 DEF Entries
<1> HIDE DEF e
<1>3. n \in 0..Limit /\ b \in 0..Window
  BY <1>2, AccessAssumption
<1> HIDE DEF n, b
<1>4. [count |-> n, age |-> e.age, blocked |-> b] \in Entries
  BY <1>2, <1>3 DEF Entries
<1>5. [es EXCEPT ![k] = [count |-> n, age |-> e.age, blocked |-> b]] \in [LimiterKeys -> Entries]
  BY <1>4
<1>6. Failed(k, es) = IF Full(k, es) THEN es
                      ELSE [es EXCEPT ![k] = [count |-> n, age |-> e.age, blocked |-> b]]
  BY DEF Failed, e, n, b
<1> QED
  BY <1>5, <1>6

LEMMA ForgottenType ==
  ASSUME attempts \in [LimiterKeys -> Entries], NEW k \in LimiterKeys
  PROVE  [attempts EXCEPT ![k] = None] \in [LimiterKeys -> Entries]
BY NoneIsEntry

(* A login that moves on, or ends, stays one.                              *)
LEMMA LoginMoves ==
  ASSUME login \in [Logins -> LoginStates], NEW l \in Logins, NEW pc \in LoginPcs, To(l, pc)
  PROVE  login' \in [Logins -> LoginStates]
BY DEF LoginStates, To

LEMMA LoginEnds ==
  ASSUME login \in [Logins -> LoginStates], NEW l \in Logins, Ends(l)
  PROVE  login' \in [Logins -> LoginStates]
BY AccessAssumption DEF Ends, Away, LoginStates, LoginPcs, LimiterKeys

ChangeStates == [pc : {"idle", "current", "update", "revoke"}, hash : 0..MaxHashes]

TypeParts ==
  /\ attempts \in [LimiterKeys -> Entries] /\ swept \in BOOLEAN
  /\ login \in [Logins -> LoginStates]
  /\ change \in [Changers -> [pc : {"idle", "current", "update", "revoke"},
                              hash : 0..MaxHashes]]
  /\ hash \in 1..MaxHashes /\ sessions \subseteq (Logins \X (1..MaxHashes))
  /\ sharing \subseteq Logins /\ owner \in Changers \cup {Nobody}

LEMMA TypePartsSuffice == TypeParts => AccessTypeOK
BY DEF TypeParts, AccessTypeOK, Entries, LoginStates, LoginPcs

(* A login between its comparison and its insert holds the share lock of   *)
(* the row, so the hash it compared is still the hash; a change holds the  *)
(* exclusive one until it commits.                                         *)
Locks ==
  /\ sharing # {} => owner = Nobody
  /\ \A l \in Logins : login[l].pc = "insert" => l \in sharing /\ login[l].hash = hash
  /\ \A c \in Changers : change[c].pc = "revoke" => owner = c /\ hash < MaxHashes
  /\ SessionsMatchPassword

LEMMA TypeInit == AccessInit => TypeParts
<1> SUFFICES ASSUME AccessInit PROVE TypeParts
  OBVIOUS
<1>1. attempts \in [LimiterKeys -> Entries]
  BY NoneIsEntry DEF AccessInit
<1>2. Away \in LoginStates
  BY AccessAssumption DEF Away, LoginStates, LoginPcs, LimiterKeys
<1>3. login \in [Logins -> LoginStates]
  BY <1>2 DEF AccessInit
<1>4. change \in [Changers -> ChangeStates]
  BY AccessAssumption DEF AccessInit, ChangeStates
<1>5. hash \in 1..MaxHashes
  BY AccessAssumption DEF AccessInit
<1> QED
  BY <1>1, <1>3, <1>4, <1>5 DEF AccessInit, TypeParts, ChangeStates

(* Every step keeps the types.                                             *)
LEMMA TypeStep == TypeParts /\ Locks /\ [AccessNext]_accessVars => TypeParts'
<1> SUFFICES ASSUME TypeParts, Locks, [AccessNext]_accessVars PROVE TypeParts'
  OBVIOUS
<1>t. /\ attempts \in [LimiterKeys -> Entries] /\ swept \in BOOLEAN
      /\ login \in [Logins -> LoginStates]
      /\ change \in [Changers -> ChangeStates]
      /\ hash \in 1..MaxHashes /\ sessions \subseteq (Logins \X (1..MaxHashes))
      /\ sharing \subseteq Logins /\ owner \in Changers \cup {Nobody}
  BY DEF TypeParts, ChangeStates
<1>c. Cleaned \in [LimiterKeys -> Entries]
  BY <1>t, CleanedType
<1>i. \A l \in Logins : login[l].ip \in LimiterKeys /\ Account \in LimiterKeys
                       /\ login[l].hash \in 0..MaxHashes
  BY <1>t DEF LoginStates, LimiterKeys
<1>p. {"read", "right", "failed", "session", "insert"} \subseteq LoginPcs
  BY DEF LoginPcs
<1>1. ASSUME NEW l \in Logins, Knock(l) PROVE TypeParts'
  <2>1. PICK ip \in Addresses, knows \in 0..hash :
          login' = [login EXCEPT ![l] = IF Blocked(ip) THEN Away
                                        ELSE [pc |-> "account", ip |-> ip,
                                              knows |-> knows, hash |-> 0]]
    BY <1>1 DEF Knock
  <2>2. knows \in 0..MaxHashes /\ 0 \in 0..MaxHashes
    BY <1>t, AccessAssumption
  <2>3. [pc |-> "account", ip |-> ip, knows |-> knows, hash |-> 0] \in LoginStates
    BY <2>2 DEF LoginStates, LoginPcs, LimiterKeys
  <2>4. [login EXCEPT ![l] = [pc |-> "account", ip |-> ip, knows |-> knows, hash |-> 0]]
          \in [Logins -> LoginStates]
    BY <2>3, <1>t
  <2>5. login' \in [Logins -> LoginStates]
    <3>1. CASE Blocked(ip)
      BY <3>1, <2>1, <1>t, LoginEnds DEF Ends
    <3>2. CASE ~Blocked(ip)
      BY <3>2, <2>1, <2>4
    <3> QED BY <3>1, <3>2
  <2> QED
    BY <1>1, <1>t, <1>c, <2>5 DEF Knock, database, TypeParts, ChangeStates
<1>2. ASSUME NEW l \in Logins, AskAccount(l) PROVE TypeParts'
  <2>1. login' \in [Logins -> LoginStates]
    BY <1>2, <1>t, <1>p, LoginEnds, LoginMoves DEF AskAccount
  <2> QED
    BY <1>2, <1>t, <1>c, <2>1 DEF AskAccount, database, TypeParts, ChangeStates
<1>3. ASSUME NEW l \in Logins, TooLong(l) PROVE TypeParts'
  <2>1. login' \in [Logins -> LoginStates]
    BY <1>3, <1>t, LoginEnds DEF TooLong
  <2>2. attempts' \in [LimiterKeys -> Entries]
    BY <1>3, <1>c, <1>i, FailedType DEF TooLong
  <2> QED
    BY <1>3, <1>t, <2>1, <2>2 DEF TooLong, database, TypeParts, ChangeStates
<1>4. ASSUME NEW l \in Logins, ReadAdmin(l) PROVE TypeParts'
  <2>1. "verify" \in LoginPcs /\ hash \in 0..MaxHashes
    BY <1>t DEF LoginPcs
  <2>2. [login[l] EXCEPT !.pc = "verify", !.hash = hash] \in LoginStates
    BY <1>t, <2>1 DEF LoginStates
  <2>3. login' = [login EXCEPT ![l] = [login[l] EXCEPT !.pc = "verify", !.hash = hash]]
    BY <1>4, <1>t DEF ReadAdmin
  <2>4. login' \in [Logins -> LoginStates]
    BY <2>2, <2>3, <1>t
  <2> QED
    BY <1>4, <1>t, <2>4 DEF ReadAdmin, limiter, database, TypeParts, ChangeStates
<1>5. ASSUME NEW l \in Logins, CheckPassword(l) PROVE TypeParts'
  <2>1. login' \in [Logins -> LoginStates]
    BY <1>5, <1>t, <1>p, LoginMoves DEF CheckPassword
  <2>k. login[l].ip \in LimiterKeys
    BY <1>i
  <2>f. /\ Failed(login[l].ip, Cleaned) \in [LimiterKeys -> Entries]
        /\ [attempts EXCEPT ![login[l].ip] = None] \in [LimiterKeys -> Entries]
    BY <2>k, <1>t, <1>c, FailedType, ForgottenType
  <2>a. \/ attempts' = [attempts EXCEPT ![login[l].ip] = None]
        \/ attempts' = Failed(login[l].ip, Cleaned)
    BY <1>5 DEF CheckPassword
  <2>2. attempts' \in [LimiterKeys -> Entries]
    BY <2>f, <2>a
  <2> QED
    BY <1>5, <1>t, <2>1, <2>2 DEF CheckPassword, database, TypeParts, ChangeStates
<1>6. ASSUME NEW l \in Logins, CountFailure(l) PROVE TypeParts'
  <2>1. login' \in [Logins -> LoginStates]
    BY <1>6, <1>t, LoginEnds DEF CountFailure
  <2>2. attempts' \in [LimiterKeys -> Entries]
    BY <1>6, <1>c, <1>i, FailedType DEF CountFailure
  <2> QED
    BY <1>6, <1>t, <2>1, <2>2 DEF CountFailure, database, TypeParts, ChangeStates
<1>7. ASSUME NEW l \in Logins, ForgetFailures(l) PROVE TypeParts'
  <2>1. login' \in [Logins -> LoginStates]
    BY <1>7, <1>t, <1>p, LoginMoves DEF ForgetFailures
  <2>2. attempts' \in [LimiterKeys -> Entries]
    BY <1>7, <1>t, <1>i, ForgottenType DEF ForgetFailures
  <2> QED
    BY <1>7, <1>t, <2>1, <2>2 DEF ForgetFailures, database, TypeParts, ChangeStates
<1>8. ASSUME NEW l \in Logins, CompareHash(l) PROVE TypeParts'
  <2>1. login' \in [Logins -> LoginStates]
    BY <1>8, <1>t, <1>p, LoginEnds, LoginMoves DEF CompareHash
  <2> QED
    BY <1>8, <1>t, <2>1 DEF CompareHash, limiter, TypeParts, ChangeStates
<1>9. ASSUME NEW l \in Logins, InsertSession(l) PROVE TypeParts'
  <2>1. login' \in [Logins -> LoginStates]
    BY <1>9, <1>t, LoginEnds DEF InsertSession
  <2>2. login[l].hash \in 1..MaxHashes
    BY <1>9, <1>t DEF InsertSession, AtLogin, Locks
  <2> QED
    BY <1>9, <1>t, <2>1, <2>2 DEF InsertSession, limiter, TypeParts, ChangeStates
<1>10. ASSUME NEW s \in sessions, EndSession(s) PROVE TypeParts'
  BY <1>10, <1>t DEF EndSession, limiter, TypeParts, ChangeStates
<1>11. ASSUME NEW c \in Changers, Authenticate(c) PROVE TypeParts'
  <2>1. [pc |-> "current", hash |-> hash] \in ChangeStates
    BY <1>t DEF ChangeStates
  <2>2. change' \in [Changers -> ChangeStates]
    BY <1>11, <1>t, <2>1 DEF Authenticate
  <2> QED
    BY <1>11, <1>t, <2>2 DEF Authenticate, limiter, database, TypeParts, ChangeStates
<1>12. ASSUME NEW c \in Changers, CheckCurrent(c) PROVE TypeParts'
  <2>1. change' \in [Changers -> ChangeStates]
    BY <1>12, <1>t DEF CheckCurrent, ChangeStates
  <2> QED
    BY <1>12, <1>t, <2>1 DEF CheckCurrent, limiter, database, TypeParts, ChangeStates
<1>13. ASSUME NEW c \in Changers, LockAdmin(c) PROVE TypeParts'
  <2>1. change' \in [Changers -> ChangeStates]
    BY <1>13, <1>t DEF LockAdmin, ChangeStates
  <2> QED
    BY <1>13, <1>t, <2>1 DEF LockAdmin, limiter, TypeParts, ChangeStates
<1>14. ASSUME NEW c \in Changers, CommitPassword(c) PROVE TypeParts'
  <2>2. hash < MaxHashes
    BY <1>14 DEF CommitPassword, Locks
  <2>3. hash' \in 1..MaxHashes /\ sessions' \subseteq (Logins \X (1..MaxHashes))
    BY <1>14, <1>t, <2>2, AccessAssumption DEF CommitPassword
  <2>1. change' \in [Changers -> ChangeStates]
    BY <1>14, <1>t DEF CommitPassword, ChangeStates
  <2> QED
    BY <1>14, <1>t, <2>1, <2>3 DEF CommitPassword, limiter, TypeParts, ChangeStates
<1>15. CASE Minute
  <2> DEFINE e(k) == attempts[k]
             aged(k) == [e(k) EXCEPT !.age = IF @ > Window THEN @ ELSE @ + 1,
                                     !.blocked = IF @ = 0 THEN 0 ELSE @ - 1]
  <2>1. ASSUME NEW k \in LimiterKeys PROVE aged(k) \in Entries
    <3>1. /\ e(k) \in Entries
          /\ e(k).age \in 0..(Window + 1) /\ e(k).blocked \in 0..Window
      BY <1>t DEF Entries, Minutes
    <3>2. /\ (IF e(k).age > Window THEN e(k).age ELSE e(k).age + 1) \in 0..(Window + 1)
          /\ (IF e(k).blocked = 0 THEN 0 ELSE e(k).blocked - 1) \in 0..Window
      BY <3>1, AccessAssumption
    <3> QED
      BY <3>1, <3>2 DEF Entries, Minutes
  <2>2. attempts' = [k \in LimiterKeys |-> IF e(k).count = 0 THEN None ELSE aged(k)]
    BY <1>15 DEF Minute
  <2> HIDE DEF e, aged
  <2>3. attempts' \in [LimiterKeys -> Entries]
    BY <2>1, <2>2, NoneIsEntry
  <2> QED
    BY <1>15, <1>t, <2>3 DEF Minute, database, TypeParts, ChangeStates
<1>16. CASE UNCHANGED accessVars
  BY <1>16, <1>t DEF accessVars, TypeParts, ChangeStates
<1> QED
  BY <1>1, <1>2, <1>3, <1>4, <1>5, <1>6, <1>7, <1>8, <1>9, <1>10, <1>11, <1>12,
     <1>13, <1>14, <1>15, <1>16 DEF AccessNext, LoginStep

-----------------------------------------------------------------------------
(* Sessions.                                                               *)

LEMMA LocksInit == AccessInit => Locks
BY AccessAssumption DEF AccessInit, Locks, SessionsMatchPassword, Away

(* The locks of the row keep a login and a change apart.                   *)
LEMMA LocksStep == TypeParts /\ Locks /\ [AccessNext]_accessVars => Locks'
<1> SUFFICES ASSUME TypeParts, Locks, [AccessNext]_accessVars PROVE Locks'
  OBVIOUS
<1>t. /\ login \in [Logins -> LoginStates] /\ change \in [Changers -> ChangeStates]
      /\ hash \in 1..MaxHashes
  BY DEF TypeParts, ChangeStates
<1>k. Nobody \notin Changers
  BY AccessAssumption
<1> USE DEF Locks, SessionsMatchPassword
(* What a login does before it compares touches neither lock nor hash.     *)
<1>a. ASSUME UNCHANGED <<change, database>>,
             NEW l \in Logins, login'[l].pc # "insert",
             \A m \in Logins \ {l} : login'[m] = login[m]
      PROVE  Locks'
  BY <1>a DEF database
<1>1. ASSUME NEW l \in Logins, Knock(l) PROVE Locks'
  <2>1. PICK ip \in Addresses, knows \in 0..hash :
          login' = [login EXCEPT ![l] = IF Blocked(ip) THEN Away
                                        ELSE [pc |-> "account", ip |-> ip,
                                              knows |-> knows, hash |-> 0]]
    BY <1>1 DEF Knock
  <2>2. login'[l].pc # "insert"
    BY <2>1, <1>t DEF Away
  <2>3. \A m \in Logins \ {l} : login'[m] = login[m]
    BY <2>1, <1>t
  <2> QED
    BY <1>1, <1>a, <2>2, <2>3 DEF Knock
<1>2. ASSUME NEW l \in Logins, AskAccount(l) PROVE Locks'
  BY <1>2, <1>t, <1>a DEF AskAccount, Ends, To, Away, LoginStates
<1>3. ASSUME NEW l \in Logins, TooLong(l) PROVE Locks'
  BY <1>3, <1>t, <1>a DEF TooLong, Ends, Away
<1>4. ASSUME NEW l \in Logins, ReadAdmin(l) PROVE Locks'
  BY <1>4, <1>t, <1>a DEF ReadAdmin, LoginStates, database
<1>5. ASSUME NEW l \in Logins, CheckPassword(l) PROVE Locks'
  BY <1>5, <1>t, <1>a DEF CheckPassword, To, LoginStates
<1>6. ASSUME NEW l \in Logins, CountFailure(l) PROVE Locks'
  BY <1>6, <1>t, <1>a DEF CountFailure, Ends, Away
<1>7. ASSUME NEW l \in Logins, ForgetFailures(l) PROVE Locks'
  BY <1>7, <1>t, <1>a DEF ForgetFailures, To, LoginStates
<1>8. ASSUME NEW l \in Logins, CompareHash(l) PROVE Locks'
  <2>1. CASE login[l].hash = hash
    <3>1. /\ login'[l].pc = "insert" /\ login'[l].hash = hash
          /\ \A m \in Logins \ {l} : login'[m] = login[m]
      BY <1>8, <2>1, <1>t DEF CompareHash, To, LoginStates
    <3>2. sharing' = sharing \cup {l} /\ owner = Nobody /\ UNCHANGED <<change, hash, sessions, owner>>
      BY <1>8, <2>1 DEF CompareHash, ShareLock
    <3> QED
      BY <3>1, <3>2, <1>k
  <2>2. CASE login[l].hash # hash
    BY <1>8, <2>2, <1>t, <1>a DEF CompareHash, Ends, Away, database
  <2> QED
    BY <2>1, <2>2
<1>9. ASSUME NEW l \in Logins, InsertSession(l) PROVE Locks'
  <2>1. login[l].hash = hash
    BY <1>9 DEF InsertSession, AtLogin
  <2>2. /\ login'[l].pc # "insert"
        /\ \A m \in Logins \ {l} : login'[m] = login[m]
        /\ sharing' = sharing \ {l} /\ UNCHANGED <<change, hash, owner>>
    BY <1>9, <1>t DEF InsertSession, Ends, Away
  <2>3. sessions' = sessions \cup {<<l, hash>>} \/ sessions' = sessions
    BY <1>9, <2>1 DEF InsertSession
  <2> QED
    BY <2>2, <2>3
<1>10. ASSUME NEW s \in sessions, EndSession(s) PROVE Locks'
  BY <1>10 DEF EndSession
<1>11. ASSUME NEW c \in Changers, Authenticate(c) PROVE Locks'
  BY <1>11, <1>t DEF Authenticate, database, ChangeStates
<1>12. ASSUME NEW c \in Changers, CheckCurrent(c) PROVE Locks'
  BY <1>12, <1>t DEF CheckCurrent, database, ChangeStates
<1>13. ASSUME NEW c \in Changers, LockAdmin(c) PROVE Locks'
  <2>1. \A d \in Changers : change'[d].pc = "revoke" => d = c
    BY <1>13, <1>t, <1>k DEF LockAdmin, ChangeStates
  <2> QED
    BY <1>13, <2>1 DEF LockAdmin
<1>14. ASSUME NEW c \in Changers, CommitPassword(c) PROVE Locks'
  <2>1. owner = c /\ sharing = {}
    BY <1>14, <1>k DEF CommitPassword
  <2>2. \A d \in Changers : change'[d].pc # "revoke"
    BY <1>14, <2>1, <1>t DEF CommitPassword, ChangeStates
  <2>3. \A l \in Logins : login'[l].pc # "insert"
    BY <1>14, <2>1 DEF CommitPassword
  <2> QED
    BY <1>14, <2>2, <2>3 DEF CommitPassword
<1>15. CASE Minute
  BY <1>15 DEF Minute, database
<1>16. CASE UNCHANGED accessVars
  BY <1>16 DEF accessVars
<1> QED
  BY <1>1, <1>2, <1>3, <1>4, <1>5, <1>6, <1>7, <1>8, <1>9, <1>10, <1>11, <1>12,
     <1>13, <1>14, <1>15, <1>16 DEF AccessNext, LoginStep

(* The variables of logins, password changes and the limiter keep their    *)
(* types.                                                                  *)
THEOREM AccessTypeCorrect == AccessSpec => []AccessTypeOK
<1>1. AccessInit => TypeParts /\ Locks
  BY TypeInit, LocksInit
<1>2. TypeParts /\ Locks /\ [AccessNext]_accessVars => (TypeParts /\ Locks)'
  BY TypeStep, LocksStep
<1> QED
  BY <1>1, <1>2, TypePartsSuffice, PTL DEF AccessSpec

(* UpdateAdminPassword and CreateSessionForPassword: no session outlives   *)
(* the password it was opened with, whatever logins and changes overlap.   *)
THEOREM NoSessionOutlivesPassword == AccessSpec => []SessionsMatchPassword
<1>1. AccessInit => TypeParts /\ Locks
  BY TypeInit, LocksInit
<1>2. TypeParts /\ Locks /\ [AccessNext]_accessVars => (TypeParts /\ Locks)'
  BY TypeStep, LocksStep
<1>3. Locks => SessionsMatchPassword
  BY DEF Locks
<1> QED
  BY <1>1, <1>2, <1>3, PTL DEF AccessSpec

-----------------------------------------------------------------------------
(* The limiter.                                                            *)

(* A cleanup keeps blocked entries, and keeps no more than there were.     *)
LEMMA CleanedKeeps ==
  ASSUME TypeParts
  PROVE  /\ Cleaned \in [LimiterKeys -> Entries]
         /\ \A k \in LimiterKeys : Cleaned[k] = attempts[k] \/ Cleaned[k] = None
         /\ \A k \in LimiterKeys : attempts[k].blocked > 0 => Cleaned[k] = attempts[k]
         /\ Known(Cleaned) \subseteq Known(attempts)
<1>1. attempts \in [LimiterKeys -> Entries]
  BY DEF TypeParts
<1>2. \A k \in LimiterKeys : attempts[k].blocked \in 0..Window
  BY <1>1 DEF Entries
<1>3. /\ \A k \in LimiterKeys : Cleaned[k] = attempts[k] \/ Cleaned[k] = None
      /\ \A k \in LimiterKeys : attempts[k].blocked > 0 => Cleaned[k] = attempts[k]
  BY <1>1, <1>2 DEF Cleaned, Over
<1> QED
  BY <1>1, <1>3, CleanedType DEF Known, None

(* fail does not shorten a block whose window is not over.                 *)
LEMMA FailedKeeps ==
  ASSUME NEW es \in [LimiterKeys -> Entries], NEW k \in LimiterKeys, NEW j \in LimiterKeys,
         es[j].age <= Window
  PROVE  Failed(k, es)[j].blocked >= es[j].blocked
<1>0. es[j] \in Entries
  OBVIOUS
<1>1. /\ es[j].blocked \in 0..Window /\ es[j].age \in Nat
  BY <1>0, Numbers DEF Entries, Minutes
<1>2. CASE j # k
  <2>1. Failed(k, es)[j] = es[j]
    BY <1>2, Zenon DEF Failed
  <2> QED
    BY <2>1, <1>1
<1>3. CASE j = k
  <2> DEFINE e == IF es[k].age > Window THEN None ELSE es[k]
             n == IF e.count < Limit THEN e.count + 1 ELSE Limit
             b == IF n >= Limit THEN Window ELSE e.blocked
  <2>1. e = es[j]
    BY <1>1, <1>3, Numbers
  <2>2. b >= es[j].blocked
    BY <2>1, <1>1, Numbers
  <2>3. Failed(k, es) = IF Full(k, es) THEN es
                        ELSE [es EXCEPT ![k] = [count |-> n, age |-> e.age, blocked |-> b]]
    BY DEF Failed
  <2> HIDE DEF e, n, b
  <2> QED
    BY <1>1, <1>3, <2>2, <2>3
<1> QED
  BY <1>2, <1>3

LEMMA FailedAdds ==
  ASSUME NEW es \in [LimiterKeys -> Entries], NEW k \in LimiterKeys
  PROVE  /\ Known(Failed(k, es)) \subseteq Known(es) \cup {k}
         /\ Full(k, es) => Failed(k, es) = es
BY DEF Failed, Known

(* What BlockIsServed allows of a step.                                    *)
Served ==
  \A k \in LimiterKeys :
    attempts[k].blocked > 0 =>
      \/ attempts'[k].blocked >= attempts[k].blocked
      \/ Minute
      \/ \E l \in Logins :
           /\ login[l].pc \in {"verify", "read", "failed", "right"}
           /\ login'[l] # login[l]
           /\ attempts'[k] = None \/ attempts[k].age > Window

LEMMA ServedStep == TypeParts /\ [AccessNext]_accessVars => Served
<1> SUFFICES ASSUME TypeParts, [AccessNext]_accessVars PROVE Served
  OBVIOUS
<1>t. /\ attempts \in [LimiterKeys -> Entries] /\ login \in [Logins -> LoginStates]
      /\ \A k \in LimiterKeys : attempts[k].blocked \in 0..Window /\ attempts[k].age \in Nat
      /\ \A l \in Logins : login[l].ip \in LimiterKeys
      /\ Account \in LimiterKeys
  BY DEF TypeParts, Entries, Minutes, LoginStates, LimiterKeys
(* Whatever only cleans, or leaves the limiter alone, serves every block.  *)
<1>c. ASSUME attempts' = Cleaned PROVE Served
  BY <1>c, <1>t, CleanedKeeps DEF Served
<1>u. ASSUME attempts' = attempts PROVE Served
  BY <1>u, <1>t DEF Served
<1>f. ASSUME NEW l \in Logins, NEW j \in LimiterKeys, attempts' = Failed(j, Cleaned),
             login[l].pc \in {"verify", "read", "failed", "right"}, login'[l] # login[l]
      PROVE  Served
  <2> SUFFICES ASSUME NEW k \in LimiterKeys, attempts[k].blocked > 0,
                      attempts[k].age <= Window
               PROVE  attempts'[k].blocked >= attempts[k].blocked
    BY <1>f, <1>t, AccessAssumption DEF Served
  <2>1. Cleaned \in [LimiterKeys -> Entries] /\ Cleaned[k] = attempts[k]
    BY CleanedKeeps
  <2> QED
    BY <2>1, <1>f, FailedKeeps
<1>n. ASSUME NEW l \in Logins, NEW j \in LimiterKeys, attempts' = [attempts EXCEPT ![j] = None],
             login[l].pc \in {"verify", "read", "failed", "right"}, login'[l] # login[l]
      PROVE  Served
  BY <1>n, <1>t DEF Served
<1>e. ASSUME NEW l \in Logins, login[l].pc # "idle", Ends(l) PROVE login'[l] # login[l]
  BY <1>e, <1>t DEF Ends, Away
<1>m. ASSUME NEW l \in Logins, NEW pc, login[l].pc # pc, To(l, pc) PROVE login'[l] # login[l]
  BY <1>m, <1>t DEF To, LoginStates
<1>1. ASSUME NEW l \in Logins, Knock(l) PROVE Served
  BY <1>1, <1>c DEF Knock
<1>2. ASSUME NEW l \in Logins, AskAccount(l) PROVE Served
  BY <1>2, <1>c DEF AskAccount
<1>3. ASSUME NEW l \in Logins, TooLong(l) PROVE Served
  BY <1>3, <1>e, <1>f, <1>t DEF TooLong, AtLogin
<1>4. ASSUME NEW l \in Logins, ReadAdmin(l) PROVE Served
  BY <1>4, <1>u DEF ReadAdmin, limiter
<1>5. ASSUME NEW l \in Logins, CheckPassword(l) PROVE Served
  <2>1. login'[l] # login[l]
    BY <1>5, <1>m DEF CheckPassword, AtLogin
  <2> QED
    BY <1>5, <1>f, <1>n, <1>t, <2>1 DEF CheckPassword, AtLogin
<1>6. ASSUME NEW l \in Logins, CountFailure(l) PROVE Served
  BY <1>6, <1>e, <1>f, <1>t DEF CountFailure, AtLogin
<1>7. ASSUME NEW l \in Logins, ForgetFailures(l) PROVE Served
  <2>1. login'[l] # login[l]
    BY <1>7, <1>m DEF ForgetFailures, AtLogin
  <2> QED
    BY <1>7, <1>n, <1>t, <2>1 DEF ForgetFailures, AtLogin
<1>8. CASE UNCHANGED attempts
  BY <1>8, <1>u
<1>9. CASE Minute
  BY <1>9 DEF Served
<1> QED
  BY <1>1, <1>2, <1>3, <1>4, <1>5, <1>6, <1>7, <1>8, <1>9
     DEF AccessNext, LoginStep, CompareHash, InsertSession, EndSession, Authenticate,
         CheckCurrent, LockAdmin, CommitPassword, limiter, accessVars

(* A limiter that is full takes no new key: the entries stay finite and    *)
(* within the capacity.                                                    *)
Bounded == IsFiniteSet(Known(attempts)) /\ LimiterIsBounded

LEMMA BoundedInit == AccessInit => Bounded
<1> SUFFICES ASSUME AccessInit PROVE Bounded
  OBVIOUS
<1>1. Known(attempts) = {}
  BY DEF AccessInit, Known, None
<1> QED
  BY <1>1, FS_EmptySet, AccessAssumption DEF Bounded, LimiterIsBounded

LEMMA FailedBounded ==
  ASSUME NEW es \in [LimiterKeys -> Entries], NEW k \in LimiterKeys,
         IsFiniteSet(Known(es)), Cardinality(Known(es)) <= Capacity
  PROVE  /\ IsFiniteSet(Known(Failed(k, es)))
         /\ Cardinality(Known(Failed(k, es))) <= Capacity
<1>1. CASE Full(k, es)
  BY <1>1, FailedAdds
<1>2. CASE ~Full(k, es)
  <2>1. IsFiniteSet(Known(es) \cup {k}) /\ Cardinality(Known(es) \cup {k}) <= Capacity
    <3>1. Cardinality(Known(es)) \in Nat
      BY FS_CardinalityType
    <3> QED
      BY <1>2, <3>1, FS_AddElement, Numbers DEF Full
  <2>2. Known(Failed(k, es)) \subseteq Known(es) \cup {k}
    BY FailedAdds
  <2>3. /\ IsFiniteSet(Known(Failed(k, es)))
        /\ Cardinality(Known(Failed(k, es))) <= Cardinality(Known(es) \cup {k})
    BY <2>1, <2>2, FS_Subset
  <2>4. /\ Cardinality(Known(Failed(k, es))) \in Nat
        /\ Cardinality(Known(es) \cup {k}) \in Nat
    BY <2>1, <2>3, FS_CardinalityType
  <2> QED
    BY <2>1, <2>3, <2>4, Numbers
<1> QED
  BY <1>1, <1>2

LEMMA SubsetBounded ==
  ASSUME IsFiniteSet(Known(attempts)), Cardinality(Known(attempts)) <= Capacity,
         NEW S \in SUBSET Known(attempts)
  PROVE  IsFiniteSet(S) /\ Cardinality(S) <= Capacity
<1>1. IsFiniteSet(S) /\ Cardinality(S) <= Cardinality(Known(attempts))
  BY FS_Subset
<1>2. Cardinality(S) \in Nat /\ Cardinality(Known(attempts)) \in Nat
  BY <1>1, FS_CardinalityType
<1> QED
  BY <1>1, <1>2, AccessAssumption

LEMMA BoundedStep == TypeParts /\ Bounded /\ [AccessNext]_accessVars => Bounded'
<1> SUFFICES ASSUME TypeParts, Bounded, [AccessNext]_accessVars PROVE Bounded'
  OBVIOUS
<1>t. /\ attempts \in [LimiterKeys -> Entries]
      /\ \A l \in Logins : login[l].ip \in LimiterKeys
      /\ Account \in LimiterKeys
  BY DEF TypeParts, LoginStates, LimiterKeys
<1>s. ASSUME Known(attempts') \subseteq Known(attempts) PROVE Bounded'
  <2>1. Known(attempts)' = Known(attempts')
    BY DEF Known
  <2> QED
    BY <1>s, <2>1, SubsetBounded DEF Bounded, LimiterIsBounded
<1>c. ASSUME attempts' = Cleaned PROVE Bounded'
  BY <1>c, <1>s, CleanedKeeps
<1>f. ASSUME NEW j \in LimiterKeys, attempts' = Failed(j, Cleaned) PROVE Bounded'
  <2>1. Known(attempts)' = Known(Failed(j, Cleaned))
    BY <1>f DEF Known
  <2>2. IsFiniteSet(Known(Cleaned)) /\ Cardinality(Known(Cleaned)) <= Capacity
    BY CleanedKeeps, SubsetBounded DEF Bounded, LimiterIsBounded
  <2>3. Cleaned \in [LimiterKeys -> Entries]
    BY CleanedKeeps
  <2> QED
    BY <2>1, <2>2, <2>3, FailedBounded DEF Bounded, LimiterIsBounded
<1>n. ASSUME NEW j \in LimiterKeys, attempts' = [attempts EXCEPT ![j] = None] PROVE Bounded'
  <2>1. Known(attempts') \subseteq Known(attempts)
    BY <1>n, <1>t DEF Known, None
  <2> QED
    BY <2>1, <1>s
<1>1. ASSUME NEW l \in Logins, Knock(l) \/ AskAccount(l) PROVE Bounded'
  BY <1>1, <1>c DEF Knock, AskAccount
<1>2. ASSUME NEW l \in Logins, TooLong(l) \/ CountFailure(l) PROVE Bounded'
  BY <1>2, <1>f, <1>t DEF TooLong, CountFailure
<1>3. ASSUME NEW l \in Logins, CheckPassword(l) \/ ForgetFailures(l) PROVE Bounded'
  BY <1>3, <1>f, <1>n, <1>t DEF CheckPassword, ForgetFailures
<1>4. CASE UNCHANGED attempts
  BY <1>4, <1>s
<1>5. CASE Minute
  <2>1. ASSUME NEW k \in LimiterKeys, attempts[k].count = 0 PROVE attempts'[k].count = 0
    BY <1>5, <2>1 DEF Minute, None
  <2>2. \A k \in LimiterKeys : attempts[k].count \in Nat
    BY <1>t DEF Entries
  <2>3. Known(attempts') \subseteq Known(attempts)
    BY <2>1, <2>2 DEF Known
  <2> QED
    BY <2>3, <1>s
<1> QED
  BY <1>1, <1>2, <1>3, <1>4, <1>5
     DEF AccessNext, LoginStep, ReadAdmin, CompareHash, InsertSession, EndSession,
         Authenticate, CheckCurrent, LockAdmin, CommitPassword, limiter, accessVars

(* loginLimiter: every block is served in full, and the limiter never      *)
(* keeps more entries than its capacity.                                   *)
THEOREM LimiterServesItsBlocks == AccessSpec => LimiterHolds
<1>1. AccessInit => TypeParts /\ Locks /\ Bounded
  BY TypeInit, LocksInit, BoundedInit
<1>2. TypeParts /\ Locks /\ Bounded /\ [AccessNext]_accessVars
        => (TypeParts /\ Locks /\ Bounded)'
  BY TypeStep, LocksStep, BoundedStep
<1>3. Bounded => LimiterIsBounded
  BY DEF Bounded
<1>4. TypeParts /\ [AccessNext]_accessVars => [Served]_accessVars
  BY ServedStep
<1>5. AccessSpec => [](TypeParts /\ Locks /\ Bounded)
  BY <1>1, <1>2, PTL DEF AccessSpec
<1>6. AccessSpec => [][Served]_accessVars
  BY <1>4, <1>5, PTL DEF AccessSpec
<1>7. [][Served]_accessVars => BlockIsServed
  BY DEF Served, BlockIsServed
<1> QED
  BY <1>3, <1>5, <1>6, <1>7, PTL DEF LimiterHolds

-----------------------------------------------------------------------------
(* The catalog: what its handlers are doing.                               *)

Stations == {"idle", "disable", "commit", "count", "write", "key", "invalidate"}
Ids == Upstreams \cup Groups \cup Keys \cup {Nil}

OpRecord == [pc : Stations, id : Ids, group : Groups \cup {Nil}, on : BOOLEAN,
             with : SUBSET (Upstreams \cup Groups), stale : SUBSET Caches]

(* What a handler keeps between its steps.                                 *)
Sane(o) ==
  /\ o \in OpRecord
  /\ o.stale # {} => o.pc = "invalidate"
  /\ o.pc \in {"disable", "commit"} => o.id \in Upstreams
  /\ o.pc \in {"count", "write"} => o.id \in Groups
  /\ o.pc = "write" /\ o.on => o.with # {}
  /\ o.pc = "key" => o.id \in Keys /\ o.group \in Groups

Ops == op \in [Handlers -> OpRecord] /\ \A h \in Handlers : Sane(op[h])

KeyRow == [group : Groups, on : BOOLEAN]

TablesTyped ==
  /\ station \in [Upstreams -> Rows \cup {"unused", "gone"}]
  /\ group \in [Groups -> Rows \cup {"unused", "gone"}]
  /\ member \in [Groups -> SUBSET Upstreams]
  /\ key \in [Keys -> KeyRow \cup {Nil}]
  /\ unusedKeys \subseteq Keys
  /\ routeCache \in [Groups -> (SUBSET Upstreams) \cup {Nil}]
  /\ DOMAIN authCache = Keys

(* The foreign key of api_keys, as far as it is needed: no key's group is  *)
(* still to be created.                                                    *)
KeysHaveGroups == \A k \in Keys : key[k] # Nil => group[key[k].group] # "unused"

LEMMA NoOpIs ==
  /\ NoOp \in OpRecord
  /\ NoOp.pc = "idle" /\ NoOp.id = Nil /\ NoOp.group = Nil /\ NoOp.on = FALSE
  /\ NoOp.with = {} /\ NoOp.stale = {}
<1>1. NoOp \in OpRecord
  BY DEF NoOp, OpRecord, Stations, Ids
<1>2. /\ NoOp.pc = "idle" /\ NoOp.id = Nil /\ NoOp.group = Nil
      /\ NoOp.with = {} /\ NoOp.stale = {}
  BY DEF NoOp
<1>3. NoOp.on = FALSE
  BY DEF NoOp
<1> QED
  BY <1>1, <1>2, <1>3

LEMMA SaneNoOp == Sane(NoOp)
BY NoOpIs DEF Sane

(* What each statement leaves in its handler.                              *)
LEMMA SaneStale ==
  ASSUME NEW s \in SUBSET Caches, NEW o,
         o = [NoOp EXCEPT !.pc = "invalidate", !.stale = s]
  PROVE  Sane(o) /\ o.stale = s /\ o.pc = "invalidate"
<1>1. o \in OpRecord
  BY NoOpIs DEF OpRecord, Stations
<1>2. o.stale = s /\ o.pc = "invalidate"
  BY NoOpIs DEF OpRecord
<1> QED
  BY <1>1, <1>2 DEF Sane

LEMMA SaneDeletion ==
  ASSUME NEW u \in Upstreams, NEW o,
         o = [NoOp EXCEPT !.pc = "disable", !.id = u]
  PROVE  Sane(o) /\ o.stale = {} /\ o.pc = "disable" /\ o.id = u
<1>1. o \in OpRecord
  BY NoOpIs DEF OpRecord, Stations, Ids
<1>2. o.stale = {} /\ o.pc = "disable" /\ o.id = u
  BY NoOpIs DEF OpRecord
<1> QED
  BY <1>1, <1>2 DEF Sane

LEMMA SaneUpdate ==
  ASSUME NEW g \in Groups, NEW on \in BOOLEAN, NEW us \in SUBSET Upstreams, NEW o,
         o = [NoOp EXCEPT !.pc = "count", !.id = g, !.on = on, !.with = us]
  PROVE  Sane(o) /\ o.stale = {} /\ o.pc = "count"
<1>1. o \in OpRecord
  BY NoOpIs DEF OpRecord, Stations, Ids
<1>2. o.stale = {} /\ o.pc = "count" /\ o.id = g
  BY NoOpIs DEF OpRecord
<1> QED
  BY <1>1, <1>2 DEF Sane

LEMMA SaneOffer ==
  ASSUME NEW k \in Keys, NEW g \in Groups, NEW on \in BOOLEAN, NEW o,
         o = [NoOp EXCEPT !.pc = "key", !.id = k, !.group = g, !.on = on]
  PROVE  Sane(o) /\ o.stale = {} /\ o.pc = "key"
<1>1. o \in OpRecord
  BY NoOpIs DEF OpRecord, Stations, Ids
<1>2. o.stale = {} /\ o.pc = "key" /\ o.id = k /\ o.group = g
  BY NoOpIs DEF OpRecord
<1> QED
  BY <1>1, <1>2 DEF Sane

LEMMA SaneCommit ==
  ASSUME NEW o, Sane(o), o.pc = "disable", NEW gs \in SUBSET Groups, NEW n,
         n = [o EXCEPT !.pc = "commit", !.with = gs]
  PROVE  Sane(n) /\ n.stale = {} /\ n.pc = "commit" /\ n.id = o.id /\ n.with = gs
<1>1. n \in OpRecord
  BY DEF Sane, OpRecord, Stations
<1>2. n.stale = o.stale /\ n.pc = "commit" /\ n.id = o.id /\ n.with = gs
  BY DEF Sane, OpRecord
<1> QED
  BY <1>1, <1>2 DEF Sane

LEMMA SaneWrite ==
  ASSUME NEW o, Sane(o), o.pc = "count", MembersSuffice(o.on, o.with), NEW n,
         n = [o EXCEPT !.pc = "write"]
  PROVE  Sane(n) /\ n.stale = {} /\ n.pc = "write"
<1>1. n \in OpRecord
  BY DEF Sane, OpRecord, Stations
<1>2. n.stale = o.stale /\ n.pc = "write" /\ n.id = o.id /\ n.with = o.with
  BY DEF Sane, OpRecord
<1>3. n.on = o.on
  BY DEF Sane, OpRecord
<1> QED
  BY <1>1, <1>2, <1>3 DEF Sane, MembersSuffice

LEMMA SaneInvalidate ==
  ASSUME NEW o, Sane(o), o.pc = "invalidate", NEW c, NEW n,
         n = [o EXCEPT !.stale = @ \ {c}]
  PROVE  Sane(n) /\ n.pc = "invalidate" /\ n.stale = o.stale \ {c}
<1>1. n \in OpRecord
  BY DEF Sane, OpRecord
<1>2. n.pc = "invalidate" /\ n.stale = o.stale \ {c}
  BY DEF Sane, OpRecord
<1> QED
  BY <1>1, <1>2 DEF Sane

LEMMA OpStep ==
  ASSUME Ops, NEW h \in Handlers, NEW o, Sane(o), op' = [op EXCEPT ![h] = o]
  PROVE  Ops' /\ op'[h] = o /\ \A i \in Handlers \ {h} : op'[i] = op[i]
<1>1. o \in OpRecord
  BY DEF Sane
<1>2. op' \in [Handlers -> OpRecord]
  BY <1>1 DEF Ops
<1>3. op'[h] = o /\ \A i \in Handlers \ {h} : op'[i] = op[i]
  BY DEF Ops
<1>4. ASSUME NEW i \in Handlers PROVE Sane(op'[i])
  BY <1>3 DEF Ops
<1> QED
  BY <1>2, <1>3, <1>4 DEF Ops

Catalogued == Ops /\ TablesTyped /\ KeysHaveGroups

(* What a step of a handler can do to what the caches must follow: unless  *)
(* it invalidates, either it leaves the cache to be invalidated, or what   *)
(* that cache shows is as it was.                                          *)
KeysAsTheyWere ==
  key' = key /\ \A k \in Keys : key[k] # Nil => group'[key[k].group] = group[key[k].group]
RoutesAsTheyWere == group' = group /\ member' = member /\ station' = station
Announced(o) ==
  /\ UNCHANGED caches
  /\ "auth" \in o.stale \/ KeysAsTheyWere
  /\ "route" \in o.stale \/ RoutesAsTheyWere

LEMMA HandlerMoves ==
  ASSUME Catalogued, NEW h \in Handlers, HandlerStep(h), ~Invalidate(h)
  PROVE  \E o : /\ Sane(o) /\ op' = [op EXCEPT ![h] = o] /\ op[h].stale = {}
                /\ Announced(o)
<1>s. Sane(op[h])
  BY DEF Catalogued, Ops
<1>q. /\ op[h].pc # "invalidate" => op[h].stale = {}
      /\ NoOp.stale = {} /\ Sane(NoOp)
  BY <1>s, NoOpIs, SaneNoOp DEF Sane
<1>u. ASSUME NEW o, UNCHANGED <<tables, caches>> PROVE Announced(o)
  BY <1>u DEF Announced, tables, KeysAsTheyWere, RoutesAsTheyWere
<1>i. ASSUME NEW s \in SUBSET Caches, Stale(h, s)
      PROVE  \E o : Sane(o) /\ op' = [op EXCEPT ![h] = o] /\ o.stale = s
  <2> DEFINE o == [NoOp EXCEPT !.pc = "invalidate", !.stale = s]
  <2>1. op' = [op EXCEPT ![h] = o]
    BY <1>i DEF Stale, Goes
  <2> QED
    BY <2>1, SaneStale
<1>1. CASE SaveUpstream(h)
  <2>1. Stale(h, {"route"}) /\ op[h].pc = "idle" /\ UNCHANGED <<group, key, caches>>
    BY <1>1 DEF SaveUpstream, Idle
  <2> QED
    BY <2>1, <1>i, <1>q DEF Announced, KeysAsTheyWere, Caches
<1>2. CASE DeleteUpstream(h)
  <2>1. PICK u \in There \ LockedUpstreams : Goes(h, [NoOp EXCEPT !.pc = "disable", !.id = u])
    BY <1>2 DEF DeleteUpstream
  <2>2. op[h].pc = "idle" /\ UNCHANGED <<tables, caches>>
    BY <1>2 DEF DeleteUpstream, Idle
  <2>3. Sane([NoOp EXCEPT !.pc = "disable", !.id = u])
    BY SaneDeletion DEF There
  <2> QED
    BY <2>1, <2>2, <2>3, <1>q, <1>u DEF Goes
<1>3. CASE DisableEmptied(h)
  <2> DEFINE o == [op[h] EXCEPT !.pc = "commit", !.with = Emptied(op[h].id)]
  <2>1. op[h].pc = "disable" /\ op' = [op EXCEPT ![h] = o] /\ UNCHANGED <<tables, caches>>
    BY <1>3 DEF DisableEmptied, At, Goes
  <2>2. Sane(o)
    BY <2>1, <1>s, SaneCommit DEF Emptied
  <2> QED
    BY <2>1, <2>2, <1>q, <1>u
<1>4. CASE CommitDeletion(h)
  <2>1. op[h].pc = "commit" /\ Stale(h, {"route", "auth"}) /\ UNCHANGED caches
    BY <1>4 DEF CommitDeletion, At, Both
  <2> QED
    BY <2>1, <1>i, <1>q DEF Announced, Caches
<1>5. CASE CreateGroup(h)
  <2>1. op[h].pc = "idle" /\ Stale(h, {"route"}) /\ UNCHANGED <<station, key, caches>>
    BY <1>5 DEF CreateGroup, RouteOnly, Idle
  <2>2. PICK g \in Groups, on \in BOOLEAN :
          group[g] = "unused" /\ group' = [group EXCEPT ![g] = Switch(on)]
    BY <1>5 DEF CreateGroup
  <2>3. \A k \in Keys : key[k] # Nil => key[k].group # g /\ key[k].group \in Groups
    BY <2>2 DEF Catalogued, KeysHaveGroups, TablesTyped, KeyRow
  <2>4. \A x \in Groups : x # g => group'[x] = group[x]
    BY <2>2 DEF Catalogued, TablesTyped
  <2>5. KeysAsTheyWere
    BY <2>1, <2>3, <2>4 DEF KeysAsTheyWere
  <2> QED
    BY <2>1, <2>5, <1>i, <1>q DEF Announced, Caches
<1>6. CASE ReadGroup(h)
  <2>1. PICK g \in Existing, on \in BOOLEAN, us \in SUBSET Upstreams :
          Goes(h, [NoOp EXCEPT !.pc = "count", !.id = g, !.on = on, !.with = us])
    BY <1>6 DEF ReadGroup
  <2>2. op[h].pc = "idle" /\ UNCHANGED <<tables, caches>>
    BY <1>6 DEF ReadGroup, Idle
  <2> QED
    BY <2>1, <2>2, <1>q, <1>u, SaneUpdate DEF Goes, Existing
<1>7. CASE CountKeys(h)
  <2>1. op[h].pc = "count" /\ UNCHANGED <<tables, caches>>
    BY <1>7 DEF CountKeys, At
  <2>2. \/ op' = [op EXCEPT ![h] = NoOp]
        \/ /\ op' = [op EXCEPT ![h] = [op[h] EXCEPT !.pc = "write"]]
           /\ MembersSuffice(op[h].on, op[h].with)
    BY <1>7 DEF CountKeys, Goes
  <2> QED
    BY <2>1, <2>2, <1>q, <1>s, <1>u, SaneWrite
<1>8. CASE WriteGroup(h)
  <2>1. op[h].pc = "write" /\ UNCHANGED <<station, key, caches>>
    BY <1>8 DEF WriteGroup, At
  <2>2. CASE Stale(h, {"route", "auth"})
    BY <2>1, <2>2, <1>i, <1>q DEF Announced, Caches
  <2>3. CASE Goes(h, NoOp) /\ UNCHANGED <<group, member>>
    BY <2>1, <2>3, <1>q DEF Announced, Goes, KeysAsTheyWere, RoutesAsTheyWere
  <2> QED
    BY <1>8, <2>2, <2>3 DEF WriteGroup, Both
<1>9. CASE DeleteGroup(h)
  <2>1. op[h].pc = "idle" /\ Stale(h, {"route", "auth"}) /\ UNCHANGED caches
    BY <1>9 DEF DeleteGroup, Idle, Both
  <2> QED
    BY <2>1, <1>i, <1>q DEF Announced, Caches
<1>10. CASE OfferKey(h)
  <2>1. PICK k \in Keys, g \in Existing, on \in BOOLEAN :
          Goes(h, [NoOp EXCEPT !.pc = "key", !.id = k, !.group = g, !.on = on])
    BY <1>10 DEF OfferKey
  <2>2. op[h].pc = "idle" /\ UNCHANGED <<tables, caches>>
    BY <1>10 DEF OfferKey, Idle
  <2> QED
    BY <2>1, <2>2, <1>q, <1>u, SaneOffer DEF Goes, Existing
<1>11. CASE WriteKey(h)
  <2>1. op[h].pc = "key" /\ UNCHANGED <<station, group, member, caches>>
    BY <1>11 DEF WriteKey, At
  <2>2. CASE Stale(h, {"auth"})
    BY <2>1, <2>2, <1>i, <1>q DEF Announced, RoutesAsTheyWere, Caches
  <2>3. CASE Goes(h, NoOp) /\ UNCHANGED <<key, unusedKeys>>
    BY <2>1, <2>3, <1>q DEF Announced, Goes, KeysAsTheyWere, RoutesAsTheyWere
  <2> QED
    BY <1>11, <2>2, <2>3 DEF WriteKey
<1>12. CASE DeleteKey(h)
  <2>1. op[h].pc = "idle" /\ Stale(h, {"auth"}) /\ UNCHANGED <<station, group, member, caches>>
    BY <1>12 DEF DeleteKey, Idle
  <2> QED
    BY <2>1, <1>i, <1>q DEF Announced, RoutesAsTheyWere, Caches
<1>13. CASE Abort(h)
  <2>1. op[h].pc # "invalidate" /\ op' = [op EXCEPT ![h] = NoOp] /\ UNCHANGED <<tables, caches>>
    BY <1>13 DEF Abort, Deleting, Goes
  <2> QED
    BY <2>1, <1>q, <1>u
<1> QED
  BY <1>1, <1>2, <1>3, <1>4, <1>5, <1>6, <1>7, <1>8, <1>9, <1>10, <1>11, <1>12, <1>13
     DEF HandlerStep

LEMMA HandlerInvalidates ==
  ASSUME Catalogued, NEW h \in Handlers, Invalidate(h)
  PROVE  \E c, o :
            /\ c \in op[h].stale /\ Sane(o) /\ op' = [op EXCEPT ![h] = o] /\ o.stale = op[h].stale \ {c}
            /\ UNCHANGED tables
            /\ IF c = "auth" THEN authCache' = [k \in Keys |-> Nil] /\ UNCHANGED routeCache
               ELSE routeCache' = [g \in Groups |-> Nil] /\ UNCHANGED authCache
<1>1. PICK c \in op[h].stale :
        /\ op' = [op EXCEPT ![h] = IF op[h].stale = {c} THEN NoOp
                                   ELSE [op[h] EXCEPT !.stale = @ \ {c}]]
        /\ IF c = "auth" THEN authCache' = [k \in Keys |-> Nil] /\ UNCHANGED routeCache
           ELSE routeCache' = [g \in Groups |-> Nil] /\ UNCHANGED authCache
  BY DEF Invalidate, Goes
<1>2. Sane(op[h]) /\ op[h].pc = "invalidate" /\ UNCHANGED tables
  BY DEF Catalogued, Ops, Invalidate, At
<1>3. CASE op[h].stale = {c}
  BY <1>1, <1>2, <1>3, NoOpIs, SaneNoOp
<1>4. CASE op[h].stale # {c}
  BY <1>1, <1>2, <1>4, SaneInvalidate
<1> QED
  BY <1>3, <1>4

LEMMA OpsStep == Catalogued /\ [CatalogNext]_catalogVars => Ops'
<1> SUFFICES ASSUME Catalogued, [CatalogNext]_catalogVars PROVE Ops'
  OBVIOUS
<1>1. ASSUME NEW h \in Handlers, HandlerStep(h) PROVE Ops'
  <2>1. PICK o : Sane(o) /\ op' = [op EXCEPT ![h] = o]
    BY <1>1, HandlerMoves, HandlerInvalidates
  <2> QED
    BY <2>1, OpStep DEF Catalogued
<1>2. CASE UNCHANGED op
  BY <1>2 DEF Catalogued, Ops
<1> QED
  BY <1>1, <1>2 DEF CatalogNext, LoadKey, LoadRoute, catalogVars

LEMMA TablesStep == Catalogued /\ [CatalogNext]_catalogVars => TablesTyped'
<1> SUFFICES ASSUME Catalogued, [CatalogNext]_catalogVars PROVE TablesTyped'
  OBVIOUS
<1> USE DEF TablesTyped
<1>t. TablesTyped
  BY DEF Catalogued
<1>o. ASSUME NEW h \in Handlers PROVE Sane(op[h]) /\ op[h] \in OpRecord
  BY DEF Catalogued, Ops, Sane
<1>r. \A on : Switch(on) \in Rows
  BY DEF Switch, Rows
<1>1. ASSUME NEW h \in Handlers, SaveUpstream(h) PROVE TablesTyped'
  BY <1>1, <1>t, <1>r DEF SaveUpstream, caches
<1>2. ASSUME NEW h \in Handlers, CommitDeletion(h) PROVE TablesTyped'
  <2>1. UNCHANGED <<key, unusedKeys, caches>>
    BY <1>2, <1>t DEF CommitDeletion
  <2>2. station' \in [Upstreams -> Rows \cup {"unused", "gone"}]
    BY <1>2, <1>t DEF CommitDeletion
  <2>3. group' \in [Groups -> Rows \cup {"unused", "gone"}]
    BY <1>2, <1>t DEF CommitDeletion, Rows
  <2>4. member' \in [Groups -> SUBSET Upstreams]
    BY <1>2, <1>t DEF CommitDeletion
  <2> QED
    BY <2>1, <2>2, <2>3, <2>4, <1>t DEF caches
<1>3. ASSUME NEW h \in Handlers, CreateGroup(h) PROVE TablesTyped'
  <2>1. PICK g \in Groups, on \in BOOLEAN, us \in SUBSET Upstreams :
          /\ group' = [group EXCEPT ![g] = Switch(on)]
          /\ member' = [member EXCEPT ![g] = us]
    BY <1>3 DEF CreateGroup, There
  <2>2. group' \in [Groups -> Rows \cup {"unused", "gone"}]
    BY <2>1, <1>t, <1>r
  <2>3. member' \in [Groups -> SUBSET Upstreams]
    BY <2>1, <1>t
  <2> QED
    BY <1>3, <2>2, <2>3, <1>t DEF CreateGroup, caches
<1>4. ASSUME NEW h \in Handlers, WriteGroup(h) PROVE TablesTyped'
  <2>1. UNCHANGED <<station, key, unusedKeys, caches>>
    BY <1>4 DEF WriteGroup
  <2>2. CASE UNCHANGED <<group, member>>
    BY <2>1, <2>2, <1>t DEF caches
  <2>3. CASE /\ op[h].with \subseteq There
             /\ group' = [group EXCEPT ![op[h].id] = Switch(op[h].on)]
             /\ member' = [member EXCEPT ![op[h].id] = op[h].with]
    <3>1. group' \in [Groups -> Rows \cup {"unused", "gone"}]
      BY <2>3, <1>t, <1>r
    <3>2. member' \in [Groups -> SUBSET Upstreams]
      BY <2>3, <1>t DEF There
    <3> QED
      BY <2>1, <3>1, <3>2, <1>t DEF caches
  <2> QED
    BY <1>4, <2>2, <2>3 DEF WriteGroup
<1>5. ASSUME NEW h \in Handlers, DeleteGroup(h) PROVE TablesTyped'
  <2>1. PICK g \in Groups : /\ group' = [group EXCEPT ![g] = "gone"]
                            /\ member' = [member EXCEPT ![g] = {}]
    BY <1>5 DEF DeleteGroup, Existing
  <2>2. group' \in [Groups -> Rows \cup {"unused", "gone"}]
    BY <2>1, <1>t
  <2>3. member' \in [Groups -> SUBSET Upstreams]
    BY <2>1, <1>t
  <2> QED
    BY <1>5, <2>2, <2>3, <1>t DEF DeleteGroup, caches
<1>6. ASSUME NEW h \in Handlers, WriteKey(h) PROVE TablesTyped'
  <2>1. UNCHANGED <<station, group, member, caches>> /\ unusedKeys' \subseteq Keys
    BY <1>6, <1>t DEF WriteKey
  <2>2. [group |-> op[h].group, on |-> op[h].on] \in KeyRow
    <3>1. op[h].group \in Groups
      BY <1>6, <1>o DEF WriteKey, At, Sane
    <3>2. op[h].on \in BOOLEAN
      BY <1>o DEF OpRecord
    <3> QED
      BY <3>1, <3>2 DEF KeyRow
  <2>3. key' \in [Keys -> KeyRow \cup {Nil}]
    BY <1>6, <2>2, <1>t DEF WriteKey
  <2> QED
    BY <2>1, <2>3, <1>t DEF caches
<1>7. ASSUME NEW h \in Handlers, DeleteKey(h) PROVE TablesTyped'
  <2>1. key' \in [Keys -> KeyRow \cup {Nil}]
    BY <1>7, <1>t DEF DeleteKey
  <2> QED
    BY <2>1, <1>7, <1>t DEF DeleteKey, caches
<1>8. ASSUME NEW h \in Handlers, Invalidate(h) PROVE TablesTyped'
  <2>1. UNCHANGED tables /\ DOMAIN authCache' = Keys
    BY <1>8, <1>t DEF Invalidate
  <2>2. routeCache' \in [Groups -> (SUBSET Upstreams) \cup {Nil}]
    BY <1>8, <1>t DEF Invalidate
  <2> QED
    BY <2>1, <2>2, <1>t DEF tables
<1>9. ASSUME NEW k \in Keys, LoadKey(k) PROVE TablesTyped'
  BY <1>9, <1>t DEF LoadKey, tables
<1>10. ASSUME NEW g \in Groups, LoadRoute(g) PROVE TablesTyped'
  <2>1. Route(g) \in SUBSET Upstreams
    BY <1>t DEF Route
  <2>2. routeCache' \in [Groups -> (SUBSET Upstreams) \cup {Nil}]
    BY <1>10, <2>1, <1>t DEF LoadRoute
  <2> QED
    BY <1>10, <2>2, <1>t DEF LoadRoute, tables
<1>11. CASE UNCHANGED <<tables, caches>>
  BY <1>11, <1>t DEF tables, caches
<1> QED
  BY <1>1, <1>2, <1>3, <1>4, <1>5, <1>6, <1>7, <1>8, <1>9, <1>10, <1>11
     DEF CatalogNext, HandlerStep, DeleteUpstream, DisableEmptied, ReadGroup, CountKeys,
         OfferKey, Abort, catalogVars

LEMMA KeysStep == Catalogued /\ [CatalogNext]_catalogVars => KeysHaveGroups'
<1> SUFFICES ASSUME Catalogued, [CatalogNext]_catalogVars, NEW k \in Keys, key'[k] # Nil
             PROVE  group'[key'[k].group] # "unused"
  BY DEF KeysHaveGroups
<1>1. \A g \in Groups : group[g] # "unused" => group'[g] # "unused"
  <2> USE DEF Catalogued, TablesTyped
  <2>1. ASSUME NEW h \in Handlers, CommitDeletion(h) PROVE \A g \in Groups : group[g] # "unused" => group'[g] # "unused"
    BY <2>1 DEF CommitDeletion
  <2>2. ASSUME NEW h \in Handlers, CreateGroup(h) PROVE \A g \in Groups : group[g] # "unused" => group'[g] # "unused"
    BY <2>2 DEF CreateGroup, Switch
  <2>3. ASSUME NEW h \in Handlers, WriteGroup(h) PROVE \A g \in Groups : group[g] # "unused" => group'[g] # "unused"
    BY <2>3 DEF WriteGroup, Switch
  <2>4. ASSUME NEW h \in Handlers, DeleteGroup(h) PROVE \A g \in Groups : group[g] # "unused" => group'[g] # "unused"
    BY <2>4 DEF DeleteGroup
  <2>5. CASE UNCHANGED group
    BY <2>5
  <2> QED
    BY <2>1, <2>2, <2>3, <2>4, <2>5
       DEF CatalogNext, HandlerStep, SaveUpstream, DeleteUpstream, DisableEmptied, ReadGroup,
           CountKeys, OfferKey, WriteKey, DeleteKey, Abort, Invalidate, LoadKey, LoadRoute,
           catalogVars, tables
<1>2. CASE key'[k] = key[k]
  BY <1>1, <1>2 DEF Catalogued, KeysHaveGroups, TablesTyped, KeyRow
<1>3. ASSUME NEW h \in Handlers, WriteKey(h) PROVE group'[key'[k].group] # "unused"
  <2>1. UNCHANGED group
    BY <1>3 DEF WriteKey
  <2>2. CASE UNCHANGED key
    BY <2>2, <1>2
  <2>3. CASE /\ op[h].group \in Existing
             /\ key' = [key EXCEPT ![op[h].id] = [group |-> op[h].group, on |-> op[h].on]]
    <3>1. CASE k = op[h].id
      <4>1. key'[k].group = op[h].group
        BY <3>1, <2>3 DEF Catalogued, TablesTyped
      <4> QED
        BY <4>1, <2>1, <2>3 DEF Existing, Rows
    <3>2. CASE k # op[h].id
      BY <3>2, <2>3, <1>2 DEF Catalogued, TablesTyped
    <3> QED
      BY <3>1, <3>2
  <2> QED
    BY <1>3, <2>2, <2>3 DEF WriteKey
<1>4. ASSUME NEW h \in Handlers, DeleteKey(h) PROVE key'[k] = key[k]
  BY <1>4 DEF DeleteKey, Catalogued, TablesTyped
<1>5. CASE UNCHANGED key
  BY <1>2, <1>5
<1> QED
  BY <1>2, <1>3, <1>4, <1>5
     DEF CatalogNext, HandlerStep, SaveUpstream, DeleteUpstream, DisableEmptied, ReadGroup,
         CommitDeletion, CreateGroup, WriteGroup, DeleteGroup,
         CountKeys, OfferKey, Abort, Invalidate, LoadKey, LoadRoute, catalogVars, tables

LEMMA CatalogInvariant == CatalogSpec => []Catalogued
<1>1. CatalogInit => Catalogued
  <2> SUFFICES ASSUME CatalogInit PROVE Catalogued
    OBVIOUS
  <2>1. Ops
    BY NoOpIs, SaneNoOp DEF CatalogInit, Ops
  <2>2. TablesTyped
    BY DEF CatalogInit, TablesTyped
  <2>3. KeysHaveGroups
    BY DEF CatalogInit, KeysHaveGroups
  <2> QED
    BY <2>1, <2>2, <2>3 DEF Catalogued
<1>2. Catalogued /\ [CatalogNext]_catalogVars => Catalogued'
  BY OpsStep, TablesStep, KeysStep DEF Catalogued
<1> QED
  BY <1>1, <1>2, PTL DEF CatalogSpec

(* The rows of the catalog keep their types: an upstream, group or key is  *)
(* unused, there or gone, and a group's members are upstreams.             *)
THEOREM CatalogTypeCorrect == CatalogSpec => []CatalogTypeOK
<1>1. Catalogued => CatalogTypeOK
  <2>1. \A h \in Handlers : Ops => op[h].stale \subseteq Caches
    BY DEF Ops, OpRecord
  <2> QED
    BY <2>1 DEF Catalogued, TablesTyped, KeyRow, CatalogTypeOK
<1> QED
  BY <1>1, CatalogInvariant, PTL

KeyFollows(k) ==
  authCache[k] # Nil =>
    \/ key[k] # Nil /\ key[k].on /\ authCache[k] = AuthRow(k)
    \/ \E h \in Handlers : "auth" \in op[h].stale
RouteFollows(g) ==
  routeCache[g] # Nil =>
    \/ routeCache[g] = Route(g)
    \/ \E h \in Handlers : "route" \in op[h].stale

LEMMA CachesStep ==
  Catalogued /\ CachesFollow /\ [CatalogNext]_catalogVars => CachesFollow'
<1> SUFFICES ASSUME Catalogued, CachesFollow, [CatalogNext]_catalogVars
             PROVE  /\ \A k \in Keys : KeyFollows(k)'
                    /\ \A g \in Groups : RouteFollows(g)'
  BY DEF CachesFollow, KeyFollows, RouteFollows
<1>f. (\A k \in Keys : KeyFollows(k)) /\ (\A g \in Groups : RouteFollows(g))
  BY DEF CachesFollow, KeyFollows, RouteFollows
<1>t. TablesTyped
  BY DEF Catalogued
<1>k. ASSUME NEW k \in Keys, key'[k] = key[k], authCache'[k] = authCache[k],
             key[k] # Nil => group'[key[k].group] = group[key[k].group],
             \A h \in Handlers : "auth" \in op[h].stale => "auth" \in op'[h].stale
      PROVE  KeyFollows(k)'
  <2>1. key[k] # Nil => AuthRow(k)' = AuthRow(k)
    BY <1>k DEF AuthRow
  <2> QED
    BY <2>1, <1>k, <1>f DEF KeyFollows
<1>g. ASSUME NEW g \in Groups, RoutesAsTheyWere, routeCache'[g] = routeCache[g],
             \A h \in Handlers : "route" \in op[h].stale => "route" \in op'[h].stale
      PROVE  RouteFollows(g)'
  <2>1. Route(g)' = Route(g)
    BY <1>g DEF Route, RoutesAsTheyWere
  <2> QED
    BY <2>1, <1>g, <1>f DEF RouteFollows
<1>u. ASSUME UNCHANGED tables PROVE KeysAsTheyWere /\ RoutesAsTheyWere
  BY <1>u DEF tables, KeysAsTheyWere, RoutesAsTheyWere
<1>1. ASSUME NEW h \in Handlers, HandlerStep(h), ~Invalidate(h)
      PROVE  (\A k \in Keys : KeyFollows(k)') /\ (\A g \in Groups : RouteFollows(g)')
  <2>1. PICK o : /\ Sane(o) /\ op' = [op EXCEPT ![h] = o] /\ op[h].stale = {}
                 /\ Announced(o)
    BY <1>1, HandlerMoves
  <2>2. op'[h] = o /\ \A i \in Handlers \ {h} : op'[i] = op[i]
    BY <2>1, OpStep DEF Catalogued
  <2>3. \A i \in Handlers, c \in Caches : c \in op[i].stale => c \in op'[i].stale
    BY <2>1, <2>2
  <2>4. UNCHANGED caches
    BY <2>1 DEF Announced
  <2>5. ASSUME NEW k \in Keys PROVE KeyFollows(k)'
    <3>1. CASE "auth" \in o.stale
      BY <3>1, <2>2 DEF KeyFollows
    <3>2. CASE KeysAsTheyWere
      BY <3>2, <2>3, <2>4, <1>k DEF KeysAsTheyWere, caches, Caches
    <3> QED
      BY <3>1, <3>2, <2>1 DEF Announced
  <2>6. ASSUME NEW g \in Groups PROVE RouteFollows(g)'
    <3>1. CASE "route" \in o.stale
      BY <3>1, <2>2 DEF RouteFollows
    <3>2. CASE RoutesAsTheyWere
      BY <3>2, <2>3, <2>4, <1>g DEF caches, Caches
    <3> QED
      BY <3>1, <3>2, <2>1 DEF Announced
  <2> QED
    BY <2>5, <2>6
<1>2. ASSUME NEW h \in Handlers, Invalidate(h)
      PROVE  (\A k \in Keys : KeyFollows(k)') /\ (\A g \in Groups : RouteFollows(g)')
  <2>1. PICK c, o :
            /\ c \in op[h].stale /\ Sane(o) /\ op' = [op EXCEPT ![h] = o] /\ o.stale = op[h].stale \ {c}
            /\ UNCHANGED tables
            /\ IF c = "auth" THEN authCache' = [k \in Keys |-> Nil] /\ UNCHANGED routeCache
               ELSE routeCache' = [g \in Groups |-> Nil] /\ UNCHANGED authCache
    BY <1>2, HandlerInvalidates
  <2>2. op'[h] = o /\ \A i \in Handlers \ {h} : op'[i] = op[i]
    BY <2>1, OpStep DEF Catalogued
  <2>3. \A i \in Handlers : \A d \in Caches \ {c} : d \in op[i].stale => d \in op'[i].stale
    BY <2>1, <2>2
  <2>4. c \in Caches
    BY <2>1 DEF Catalogued, Ops, OpRecord
  <2>5. KeysAsTheyWere /\ RoutesAsTheyWere
    BY <2>1, <1>u
  <2>6. ASSUME NEW k \in Keys PROVE KeyFollows(k)'
    <3>1. CASE c = "auth"
      BY <3>1, <2>1 DEF KeyFollows
    <3>2. CASE c # "auth"
      BY <3>2, <2>1, <2>3, <2>5, <1>k DEF KeysAsTheyWere, Caches
    <3> QED
      BY <3>1, <3>2
  <2>7. ASSUME NEW g \in Groups PROVE RouteFollows(g)'
    <3>1. CASE c = "auth"
      BY <3>1, <2>1, <2>3, <2>5, <1>g DEF Caches
    <3>2. CASE c # "auth"
      BY <3>2, <2>1 DEF RouteFollows
    <3> QED
      BY <3>1, <3>2
  <2> QED
    BY <2>6, <2>7
<1>3. ASSUME NEW j \in Keys, LoadKey(j)
      PROVE  (\A k \in Keys : KeyFollows(k)') /\ (\A g \in Groups : RouteFollows(g)')
  <2>1. UNCHANGED <<tables, op, routeCache>> /\ key[j] # Nil /\ key[j].on
        /\ authCache' = [authCache EXCEPT ![j] = AuthRow(j)]
    BY <1>3 DEF LoadKey
  <2>2. KeysAsTheyWere /\ RoutesAsTheyWere
    BY <2>1, <1>u
  <2>3. ASSUME NEW k \in Keys PROVE KeyFollows(k)'
    <3>1. CASE k = j
      <4>1. AuthRow(j)' = AuthRow(j)
        BY <2>1 DEF AuthRow, tables
      <4>2. authCache'[k] = AuthRow(j)
        BY <3>1, <2>1, <1>t DEF TablesTyped
      <4> QED
        BY <3>1, <4>1, <4>2, <2>1, <2>2 DEF KeyFollows, KeysAsTheyWere
    <3>2. CASE k # j
      <4>1. authCache'[k] = authCache[k]
        BY <3>2, <2>1, <1>t DEF TablesTyped
      <4> QED
        BY <4>1, <2>1, <2>2, <1>k DEF KeysAsTheyWere
    <3> QED
      BY <3>1, <3>2
  <2>4. ASSUME NEW g \in Groups PROVE RouteFollows(g)'
    BY <2>1, <2>2, <1>g
  <2> QED
    BY <2>3, <2>4
<1>4. ASSUME NEW f \in Groups, LoadRoute(f)
      PROVE  (\A k \in Keys : KeyFollows(k)') /\ (\A g \in Groups : RouteFollows(g)')
  <2>1. UNCHANGED <<tables, op, authCache>> /\ routeCache' = [routeCache EXCEPT ![f] = Route(f)]
    BY <1>4 DEF LoadRoute
  <2>2. KeysAsTheyWere /\ RoutesAsTheyWere
    BY <2>1, <1>u
  <2>3. ASSUME NEW k \in Keys PROVE KeyFollows(k)'
    BY <2>1, <2>2, <1>k DEF KeysAsTheyWere
  <2>4. ASSUME NEW g \in Groups PROVE RouteFollows(g)'
    <3>1. CASE g = f
      <4>1. Route(f)' = Route(f)
        BY <2>2 DEF Route, RoutesAsTheyWere
      <4>2. routeCache'[g] = Route(f)
        BY <3>1, <2>1, <1>t DEF TablesTyped
      <4> QED
        BY <3>1, <4>1, <4>2 DEF RouteFollows
    <3>2. CASE g # f
      <4>1. routeCache'[g] = routeCache[g]
        BY <3>2, <2>1, <1>t DEF TablesTyped
      <4> QED
        BY <4>1, <2>1, <2>2, <1>g
    <3> QED
      BY <3>1, <3>2
  <2> QED
    BY <2>3, <2>4
<1>5. CASE UNCHANGED catalogVars
  <2>1. KeysAsTheyWere /\ RoutesAsTheyWere
    BY <1>5, <1>u DEF catalogVars
  <2> QED
    BY <2>1, <1>5, <1>k, <1>g DEF KeysAsTheyWere, catalogVars, caches
<1> QED
  BY <1>1, <1>2, <1>3, <1>4, <1>5 DEF CatalogNext

(* What authCache and routeCache hold is what the tables say, except       *)
(* between the commit of a handler and the invalidation that follows it,   *)
(* however many handlers run at a time.                                    *)
THEOREM CachesFollowTheTables == CatalogSpec => []CachesFollow
<1>1. CatalogInit => CachesFollow
  BY DEF CatalogInit, CachesFollow
<1> QED
  BY <1>1, CachesStep, CatalogInvariant, PTL DEF CatalogSpec

-----------------------------------------------------------------------------
(* Deletions of upstreams that do not overlap.                             *)

OneDeletion ==
  \A i, j \in Handlers : Deleting(i) /\ Deleting(j) => i = j
(* A deletion about to commit holds every group it is going to empty.      *)
EmptiedAreLocked ==
  \A h \in Handlers, u \in Upstreams :
     op[h].pc = "commit" /\ op[h].id = u => Emptied(u) \subseteq op[h].with
Alone == OneDeletion /\ EmptiedAreLocked /\ EnabledGroupHasMember

LEMMA NobodyDeletes ==
  ASSUME Catalogued, MaxDeletions <= 1, Cardinality(LockedUpstreams) < MaxDeletions,
         NEW h \in Handlers
  PROVE  ~Deleting(h)
<1>1. LockedUpstreams \subseteq Upstreams
  BY DEF LockedUpstreams, Deleting, Catalogued, Ops, Sane
<1>2. IsFiniteSet(LockedUpstreams) /\ Cardinality(LockedUpstreams) \in Nat
  BY <1>1, CatalogAssumption, FS_Subset, FS_CardinalityType
<1>3. Cardinality(LockedUpstreams) = 0
  BY <1>2, CatalogAssumption
<1>4. LockedUpstreams = {}
  BY <1>2, <1>3, FS_EmptySet
<1> QED
  BY <1>4 DEF LockedUpstreams

(* A step that gives no enabled group up to a deletion under way keeps what *)
(* that deletion holds.                                                     *)
LEMMA StillLocked ==
  ASSUME Catalogued, EmptiedAreLocked, NEW h \in Handlers, NEW u \in Upstreams,
         op[h].pc = "commit", op[h].id = u,
         \A g \in Groups : group'[g] = "on" =>
            \/ group[g] = "on" /\ member'[g] = member[g]
            \/ member'[g] # {} /\ u \notin member'[g]
  PROVE  Emptied(u)' \subseteq op[h].with
<1> SUFFICES ASSUME NEW g \in Emptied(u)' PROVE g \in op[h].with
  OBVIOUS
<1>1. g \in Groups /\ group'[g] = "on" /\ member'[g] \ {u} = {}
  BY DEF Emptied
<1>2. group[g] = "on" /\ member'[g] = member[g]
  BY <1>1
<1>3. g \in Emptied(u)
  BY <1>1, <1>2 DEF Emptied
<1> QED
  BY <1>3 DEF EmptiedAreLocked

(* Only these two statements leave a handler in the middle of a deletion.  *)
LEMMA NotDeleting ==
  ASSUME Catalogued, NEW h \in Handlers, HandlerStep(h),
         ~DeleteUpstream(h), ~DisableEmptied(h)
  PROVE  ~Deleting(h)'
<1>i. ASSUME NEW s \in SUBSET Caches, Stale(h, s) PROVE ~Deleting(h)'
  <2>1. op' = [op EXCEPT ![h] = [NoOp EXCEPT !.pc = "invalidate", !.stale = s]]
    BY <1>i DEF Stale, Goes
  <2>2. op'[h] = [NoOp EXCEPT !.pc = "invalidate", !.stale = s]
    BY <2>1 DEF Catalogued, Ops
  <2>3. op'[h].pc = "invalidate"
    BY <2>2, SaneStale
  <2> QED
    BY <2>3 DEF Deleting
<1>n. ASSUME Goes(h, NoOp) PROVE ~Deleting(h)'
  <2>1. op'[h] = NoOp
    BY <1>n DEF Goes, Catalogued, Ops
  <2> QED
    BY <2>1, NoOpIs DEF Deleting
<1>o. ASSUME NEW n, Sane(n), n.pc \notin {"disable", "commit"}, Goes(h, n)
      PROVE  ~Deleting(h)'
  <2>1. op'[h] = n
    BY <1>o DEF Goes, Catalogued, Ops
  <2> QED
    BY <2>1, <1>o DEF Deleting
<1>s. Sane(op[h])
  BY DEF Catalogued, Ops
<1>1. CASE SaveUpstream(h) \/ CommitDeletion(h) \/ CreateGroup(h) \/ DeleteGroup(h)
           \/ DeleteKey(h)
  BY <1>1, <1>i DEF SaveUpstream, CommitDeletion, CreateGroup, DeleteGroup, DeleteKey,
                    Both, RouteOnly, Caches
<1>2. CASE WriteGroup(h) \/ WriteKey(h) \/ Abort(h)
  BY <1>2, <1>i, <1>n DEF WriteGroup, WriteKey, Abort, Both, Caches
<1>3. CASE ReadGroup(h)
  <2>1. PICK g \in Existing, on \in BOOLEAN, us \in SUBSET Upstreams :
          Goes(h, [NoOp EXCEPT !.pc = "count", !.id = g, !.on = on, !.with = us])
    BY <1>3 DEF ReadGroup
  <2> DEFINE n == [NoOp EXCEPT !.pc = "count", !.id = g, !.on = on, !.with = us]
  <2>2. Sane(n) /\ n.pc = "count"
    BY SaneUpdate DEF Existing
  <2> HIDE DEF n
  <2>3. Goes(h, n)
    BY <2>1 DEF n
  <2> QED
    BY <2>2, <2>3, <1>o
<1>4. CASE OfferKey(h)
  <2>1. PICK k \in Keys, g \in Existing, on \in BOOLEAN :
          Goes(h, [NoOp EXCEPT !.pc = "key", !.id = k, !.group = g, !.on = on])
    BY <1>4 DEF OfferKey
  <2> DEFINE n == [NoOp EXCEPT !.pc = "key", !.id = k, !.group = g, !.on = on]
  <2>2. Sane(n) /\ n.pc = "key"
    BY SaneOffer DEF Existing
  <2> HIDE DEF n
  <2>3. Goes(h, n)
    BY <2>1 DEF n
  <2> QED
    BY <2>2, <2>3, <1>o
<1>5. CASE CountKeys(h)
  <2>1. CASE Goes(h, NoOp)
    BY <2>1, <1>n
  <2>2. CASE /\ MembersSuffice(op[h].on, op[h].with)
             /\ Goes(h, [op[h] EXCEPT !.pc = "write"])
    <3> DEFINE n == [op[h] EXCEPT !.pc = "write"]
    <3>1. op[h].pc = "count"
      BY <1>5 DEF CountKeys, At
    <3>2. Sane(n) /\ n.pc = "write"
      BY <2>2, <3>1, <1>s, SaneWrite
    <3> HIDE DEF n
    <3>3. Goes(h, n)
      BY <2>2 DEF n
    <3> QED
      BY <3>2, <3>3, <1>o
  <2> QED
    BY <1>5, <2>1, <2>2 DEF CountKeys
<1>6. CASE Invalidate(h)
  <2>1. PICK c \in op[h].stale :
          Goes(h, IF op[h].stale = {c} THEN NoOp ELSE [op[h] EXCEPT !.stale = @ \ {c}])
    BY <1>6 DEF Invalidate
  <2>2. CASE op[h].stale = {c}
    BY <2>1, <2>2, <1>n
  <2>3. CASE op[h].stale # {c}
    <3> DEFINE n == [op[h] EXCEPT !.stale = @ \ {c}]
    <3>1. Sane(n) /\ n.pc = "invalidate"
      BY <1>6, <1>s, SaneInvalidate DEF Invalidate, At
    <3>2. Goes(h, [op[h] EXCEPT !.stale = @ \ {c}])
      BY <2>1, <2>3
    <3> HIDE DEF n
    <3>3. Goes(h, n)
      BY <3>2 DEF n
    <3> QED
      BY <3>1, <3>3, <1>o
  <2> QED
    BY <2>2, <2>3
<1> QED
  BY <1>1, <1>2, <1>3, <1>4, <1>5, <1>6 DEF HandlerStep

LEMMA OneDeletionStep ==
  ASSUME Catalogued, OneDeletion, MaxDeletions <= 1, [CatalogNext]_catalogVars
  PROVE  OneDeletion'
<1>1. ASSUME NEW h \in Handlers, HandlerStep(h) PROVE OneDeletion'
  <2>1. PICK o : Sane(o) /\ op' = [op EXCEPT ![h] = o]
    BY <1>1, HandlerMoves, HandlerInvalidates
  <2>2. op'[h] = o /\ \A i \in Handlers \ {h} : op'[i] = op[i]
    BY <2>1, OpStep DEF Catalogued
  <2>3. \A i \in Handlers \ {h} : Deleting(i)' <=> Deleting(i)
    BY <2>2 DEF Deleting
  <2>4. CASE Deleting(h)' => Deleting(h)
    BY <2>3, <2>4 DEF OneDeletion
  <2>5. CASE DeleteUpstream(h)
    <3>1. Cardinality(LockedUpstreams) < MaxDeletions
      BY <2>5 DEF DeleteUpstream
    <3>2. \A i \in Handlers : ~Deleting(i)
      BY <3>1, NobodyDeletes
    <3> QED
      BY <3>2, <2>3 DEF OneDeletion
  <2>6. CASE DisableEmptied(h)
    BY <2>6, <2>4 DEF DisableEmptied, At, Deleting
  <2>7. ASSUME ~DeleteUpstream(h), ~DisableEmptied(h) PROVE ~Deleting(h)'
    BY <1>1, <2>7, NotDeleting
  <2> QED
    BY <2>4, <2>5, <2>6, <2>7
<1>2. CASE UNCHANGED op
  BY <1>2 DEF OneDeletion, Deleting
<1> QED
  BY <1>1, <1>2 DEF CatalogNext, LoadKey, LoadRoute, catalogVars

(* Whatever a statement other than a deletion's enables has members, and   *)
(* none that a deletion holds.                                             *)
LEMMA GroupsKeepMembers ==
  ASSUME Catalogued, NEW h \in Handlers, HandlerStep(h), ~CommitDeletion(h),
         NEW g \in Groups, group'[g] = "on"
  PROVE  \/ group[g] = "on" /\ member'[g] = member[g]
         \/ member'[g] # {} /\ member'[g] \cap LockedUpstreams = {}
<1> USE DEF Catalogued, TablesTyped
<1>1. CASE UNCHANGED <<group, member>>
  BY <1>1
<1>2. CASE CreateGroup(h)
  <2>1. PICK f \in Groups, on \in BOOLEAN, us \in (SUBSET There) \ {{}} :
          /\ MayInsert(us)
          /\ group' = [group EXCEPT ![f] = Switch(on)]
          /\ member' = [member EXCEPT ![f] = us]
    BY <1>2 DEF CreateGroup
  <2>2. CASE g = f
    BY <2>1, <2>2 DEF MayInsert
  <2>3. CASE g # f
    BY <2>1, <2>3
  <2> QED
    BY <2>2, <2>3
<1>3. CASE WriteGroup(h)
  <2>1. MayInsert(op[h].with) /\ (op[h].on => op[h].with # {})
    BY <1>3 DEF WriteGroup, At, Ops, Sane
  <2>2. CASE /\ group' = [group EXCEPT ![op[h].id] = Switch(op[h].on)]
             /\ member' = [member EXCEPT ![op[h].id] = op[h].with]
    <3>1. CASE g = op[h].id
      BY <2>1, <2>2, <3>1 DEF MayInsert, Switch
    <3>2. CASE g # op[h].id
      BY <2>2, <3>2
    <3> QED
      BY <3>1, <3>2
  <2> QED
    BY <1>1, <1>3, <2>2 DEF WriteGroup
<1>4. CASE DeleteGroup(h)
  BY <1>4 DEF DeleteGroup
<1> QED
  BY <1>1, <1>2, <1>3, <1>4
     DEF HandlerStep, SaveUpstream, DeleteUpstream, DisableEmptied, ReadGroup, CountKeys,
         OfferKey, WriteKey, DeleteKey, Abort, Invalidate, tables

LEMMA MembersStep ==
  ASSUME Catalogued, Alone, [CatalogNext]_catalogVars
  PROVE  EnabledGroupHasMember'
<1>1. CASE UNCHANGED <<group, member>>
  BY <1>1 DEF Alone, EnabledGroupHasMember
<1>2. ASSUME NEW h \in Handlers, HandlerStep(h), ~CommitDeletion(h)
      PROVE  EnabledGroupHasMember'
  BY <1>2, GroupsKeepMembers DEF Alone, EnabledGroupHasMember
<1>3. ASSUME NEW h \in Handlers, CommitDeletion(h) PROVE EnabledGroupHasMember'
  <2>1. /\ op[h].pc = "commit"
        /\ member' = [g \in Groups |-> member[g] \ {op[h].id}]
        /\ group' = [g \in Groups |-> IF g \in op[h].with THEN "off" ELSE group[g]]
    BY <1>3 DEF CommitDeletion, At
  <2>2. SUFFICES ASSUME NEW g \in Groups, group'[g] = "on", member'[g] = {} PROVE FALSE
    BY DEF EnabledGroupHasMember
  <2>3. group[g] = "on" /\ g \notin op[h].with /\ member[g] \ {op[h].id} = {}
    BY <2>1, <2>2
  <2>4. g \in Emptied(op[h].id) /\ op[h].id \in Upstreams
    BY <2>1, <2>3 DEF Emptied, Catalogued, Ops, Sane
  <2> QED
    BY <2>1, <2>3, <2>4 DEF Alone, EmptiedAreLocked
<1> QED
  BY <1>1, <1>2, <1>3 DEF CatalogNext, LoadKey, LoadRoute, catalogVars, tables

LEMMA LockedStep ==
  ASSUME Catalogued, Alone, [CatalogNext]_catalogVars
  PROVE  EmptiedAreLocked'
<1>1. CASE UNCHANGED <<group, member, op>>
  BY <1>1 DEF Alone, EmptiedAreLocked, Emptied
<1>2. ASSUME NEW h \in Handlers, HandlerStep(h) PROVE EmptiedAreLocked'
  <2>1. PICK o : Sane(o) /\ op' = [op EXCEPT ![h] = o]
    BY <1>2, HandlerMoves, HandlerInvalidates
  <2>2. \A i \in Handlers \ {h} : op'[i] = op[i]
    BY <2>1, OpStep DEF Catalogued
  <2>3. SUFFICES ASSUME NEW i \in Handlers, NEW u \in Upstreams,
                        op'[i].pc = "commit", op'[i].id = u
                 PROVE  Emptied(u)' \subseteq op'[i].with
    BY DEF EmptiedAreLocked
  <2>4. CASE i = h
    <3>1. DisableEmptied(h)
      <4>1. ASSUME DeleteUpstream(h) PROVE FALSE
        <5>1. PICK v \in Upstreams : Goes(h, [NoOp EXCEPT !.pc = "disable", !.id = v])
          BY <4>1 DEF DeleteUpstream, There
        <5>2. op'[h] = [NoOp EXCEPT !.pc = "disable", !.id = v]
          BY <5>1 DEF Goes, Catalogued, Ops
        <5> DEFINE n == [NoOp EXCEPT !.pc = "disable", !.id = v]
        <5>3. n.pc = "disable"
          BY SaneDeletion
        <5> QED
          BY <5>2, <5>3, <2>3, <2>4
      <4> QED
        BY <1>2, <2>3, <2>4, <4>1, NotDeleting DEF Deleting
    <3>2. /\ op[h].pc = "disable" /\ UNCHANGED <<group, member>>
          /\ op' = [op EXCEPT ![h] = [op[h] EXCEPT !.pc = "commit", !.with = Emptied(op[h].id)]]
      BY <3>1 DEF DisableEmptied, At, Goes, tables
    <3>3. op'[h] = [op[h] EXCEPT !.pc = "commit", !.with = Emptied(op[h].id)]
      BY <3>2 DEF Catalogued, Ops
    <3>4. Emptied(op[h].id) \in SUBSET Groups
      BY DEF Emptied
    <3>5. ASSUME NEW gs \in SUBSET Groups
          PROVE  /\ [op[h] EXCEPT !.pc = "commit", !.with = gs].id = op[h].id
                 /\ [op[h] EXCEPT !.pc = "commit", !.with = gs].with = gs
      <4>1. op[h] \in OpRecord
        BY DEF Catalogued, Ops
      <4> QED
        BY <4>1 DEF OpRecord
    <3>6. op[h].id = u /\ op'[h].with = Emptied(u)
      BY <3>3, <3>4, <3>5, <2>3, <2>4
    <3>7. Emptied(u)' = Emptied(u)
      BY <3>2 DEF Emptied
    <3> QED
      BY <2>4, <3>6, <3>7
  <2>5. CASE i # h
    <3>1. op'[i] = op[i] /\ op[i].pc = "commit"
      BY <2>2, <2>3, <2>5
    <3>2. ~CommitDeletion(h)
      BY <3>1, <2>5 DEF CommitDeletion, At, Alone, OneDeletion, Deleting
    <3>3. op[i].id = u /\ u \in LockedUpstreams
      BY <3>1, <2>3 DEF LockedUpstreams, Deleting
    <3>4. \A g \in Groups : group'[g] = "on" =>
             \/ group[g] = "on" /\ member'[g] = member[g]
             \/ member'[g] # {} /\ u \notin member'[g]
      BY <1>2, <3>2, <3>3, GroupsKeepMembers
    <3>5. Emptied(u)' \subseteq op[i].with
      BY <3>1, <3>3, <3>4, StillLocked DEF Alone
    <3> QED
      BY <3>1, <3>5
  <2> QED
    BY <2>4, <2>5
<1> QED
  BY <1>1, <1>2 DEF CatalogNext, LoadKey, LoadRoute, catalogVars, tables

(* An enabled group keeps at least one member, when upstreams are deleted  *)
(* one at a time: what two deletions at a time do to it is a run.          *)
THEOREM EnabledGroupsKeepMembers ==
  MaxDeletions <= 1 => (CatalogSpec => []EnabledGroupHasMember)
<1> SUFFICES ASSUME MaxDeletions <= 1 PROVE CatalogSpec => []EnabledGroupHasMember
  OBVIOUS
<1>1. CatalogInit => Alone
  BY NoOpIs DEF CatalogInit, Alone, OneDeletion, EmptiedAreLocked, EnabledGroupHasMember,
                Deleting
<1>2. Catalogued /\ Alone /\ [CatalogNext]_catalogVars => Alone'
  BY OneDeletionStep, MembersStep, LockedStep DEF Alone
<1>3. Alone => EnabledGroupHasMember
  BY DEF Alone
<1> QED
  BY <1>1, <1>2, <1>3, CatalogInvariant, PTL DEF CatalogSpec

=============================================================================
