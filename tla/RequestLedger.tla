---------------------------- MODULE RequestLedger ---------------------------
(***************************************************************************)
(* What the recorder promises of the records of requests, whatever queue,  *)
(* batches, retries and fallback it uses (internal/gateway/recorder.go):   *)
(* a record that Submit accepts or record writes itself ends in the table, *)
(* with its usage counted once, or is counted as dropped, once, or both,   *)
(* when only the acknowledgement of its commit was lost.  When Close       *)
(* returns, nothing accepted is undecided any more.                        *)
(***************************************************************************)
EXTENDS Naturals, FiniteSets

CONSTANTS Requests, Attributed, Closers

VARIABLES
  taken,     (* records that record was called with                         *)
  accepted,  (* those that Submit accepted                                  *)
  finished,  (* those that their own handler is done with                   *)
  logged,    (* the rows of request_logs                                    *)
  counted,   (* how often the usage of a record was added up                *)
  missing,   (* records given up                                            *)
  dropped,   (* Dropped()                                                   *)
  verdict    (* what each call of Close returned, or "none"                 *)

ledgerVars ==
  <<taken, accepted, finished, logged, counted, missing, dropped, verdict>>

LedgerInit ==
  /\ taken = {} /\ accepted = {} /\ finished = {}
  /\ logged = {} /\ counted = [r \in Requests |-> 0]
  /\ missing = {} /\ dropped = 0
  /\ verdict = [c \in Closers |-> "none"]

Closed == \E c \in Closers : verdict[c] # "none"

(* Records that may still be written or given up; once a Close has         *)
(* returned, only those of the fallback.                                   *)
Open == taken \ (missing \cup IF Closed THEN accepted ELSE {})

GiveUp(S) ==
  /\ S \subseteq Open
  /\ missing' = missing \cup S
  /\ dropped' = dropped + Cardinality(S)

Take(r) ==
  /\ r \notin taken
  /\ taken' = taken \cup {r}
  /\ UNCHANGED <<accepted, finished, logged, counted, missing, dropped, verdict>>

Accept(r) ==
  /\ r \in taken \ (accepted \cup finished) /\ ~Closed
  /\ accepted' = accepted \cup {r}
  /\ UNCHANGED <<taken, finished, logged, counted, missing, dropped, verdict>>

(* A record may be written again: only new rows add to the usage.          *)
Write(S) ==
  /\ S \subseteq Open
  /\ logged' = logged \cup S
  /\ counted' = [r \in Requests |->
                   counted[r] + IF r \in (S \ logged) \cap Attributed THEN 1 ELSE 0]
  /\ UNCHANGED <<taken, accepted, finished, missing, dropped, verdict>>

Drop(S) ==
  /\ GiveUp(S)
  /\ UNCHANGED <<taken, accepted, finished, logged, counted, verdict>>

(* The fallback returns with its record decided, or gives it up.           *)
Finish(r) ==
  /\ r \in taken \ (accepted \cup finished)
  /\ finished' = finished \cup {r}
  /\ \/ r \in logged \cup missing /\ UNCHANGED <<missing, dropped>>
     \/ GiveUp({r})
  /\ UNCHANGED <<taken, accepted, logged, counted, verdict>>

(* Close returns nil only if every accepted record is in the table.        *)
Return(c) ==
  /\ verdict[c] = "none"
  /\ accepted \subseteq logged \cup missing
  /\ \E v \in {"nil", "error"} :
       /\ v = "nil" => accepted \subseteq logged
       /\ verdict' = [verdict EXCEPT ![c] = v]
  /\ UNCHANGED <<taken, accepted, finished, logged, counted, missing, dropped>>

LedgerNext ==
  \/ \E r \in Requests : Take(r) \/ Accept(r) \/ Finish(r)
  \/ \E S \in SUBSET Requests : Write(S) \/ Drop(S)
  \/ \E c \in Closers : Return(c)

LedgerSpec == LedgerInit /\ [][LedgerNext]_ledgerVars
=============================================================================
