------------------------------ MODULE FreshReads -----------------------------
(***************************************************************************)
(* What the store promises of its lookups (AuthenticateAPIKey,             *)
(* ListRouteUpstreams, MaxAttempts), caches or not: the answer is a state  *)
(* the database had committed when it is given, and no older than what     *)
(* administrators had finished when the lookup began.                      *)
(***************************************************************************)
EXTENDS Naturals

CONSTANTS Keys, Readers

VARIABLES
  committed,  (* the version of each key that the database has              *)
  finished,   (* the version that every administrator was told of           *)
  status,     (* where each reader stands                                   *)
  key,        (* what it looks up                                           *)
  floor,      (* what was finished when its lookup began                    *)
  answer      (* the version it was given, or 0                             *)

readVars == <<committed, finished, status, key, floor, answer>>

ReadInit ==
  /\ committed = [k \in Keys |-> 0] /\ finished = [k \in Keys |-> 0]
  /\ status = [r \in Readers |-> "out"]
  /\ key \in [Readers -> Keys]
  /\ floor = [r \in Readers |-> 0] /\ answer = [r \in Readers |-> 0]

Begin(r) ==
  /\ status[r] = "out"
  /\ status' = [status EXCEPT ![r] = "looking"]
  /\ \E k \in Keys : /\ key' = [key EXCEPT ![r] = k]
                     /\ floor' = [floor EXCEPT ![r] = finished[k]]
  /\ UNCHANGED <<committed, finished, answer>>

Answer(r) ==
  /\ status[r] = "looking"
  /\ status' = [status EXCEPT ![r] = "answered"]
  /\ \E v \in floor[r]..committed[key[r]] : answer' = [answer EXCEPT ![r] = v]
  /\ UNCHANGED <<committed, finished, key, floor>>

(* With its answer, an error, or because its caller gave up.               *)
End(r) ==
  /\ status[r] # "out"
  /\ status' = [status EXCEPT ![r] = "out"]
  /\ answer' = [answer EXCEPT ![r] = 0]
  /\ UNCHANGED <<committed, finished, key, floor>>

Change(k) ==
  /\ committed' = [committed EXCEPT ![k] = @ + 1]
  /\ UNCHANGED <<finished, status, key, floor, answer>>

Finish ==
  /\ finished' \in [Keys -> Nat]
  /\ \A k \in Keys : finished[k] <= finished'[k] /\ finished'[k] <= committed[k]
  /\ UNCHANGED <<committed, status, key, floor, answer>>

ReadNext ==
  \/ \E r \in Readers : Begin(r) \/ Answer(r) \/ End(r)
  \/ \E k \in Keys : Change(k)
  \/ Finish

ReadSpec == ReadInit /\ [][ReadNext]_readVars
=============================================================================
