-------------------------- MODULE GracefulShutdown --------------------------
(***************************************************************************)
(* The shutdown of the process (cmd/dapi/shutdown.go): the request drain   *)
(* around every HTTP handler, and shutdownServer, which stops the intake,  *)
(* waits for the handlers and then closes the request recorder.            *)
(*                                                                         *)
(* It composes with RequestRecorder: the handlers that the drain admits    *)
(* are those that call record, and Close is the last phase of the          *)
(* shutdown.  net/http is external: Server.Shutdown returns nil only when  *)
(* no handler runs.  The contexts that the drain cancels are not modelled: *)
(* a handler may leave at any time, cancelled or not.                      *)
(***************************************************************************)
EXTENDS RequestRecorder

CONSTANT Main  (* the goroutine of main, the only caller of Close *)

ASSUME MainAssumption == Main \in Closers

VARIABLES
  request,     (* per request, its life in requestDrain.wrap              *)
  active,      (* d.active                                                *)
  closing,     (* d.closing                                               *)
  doneCloses,  (* how often close(d.done) was executed                    *)
  phase,       (* where shutdownServer stands                             *)
  err          (* the error shutdownServer has joined so far is not nil   *)

drainVars == <<request, active, closing, doneCloses, phase, err>>
allVars == <<vars, drainVars>>

RequestStates == {"idle", "refused", "admitted", "left"}
Phases == {"running", "grace", "settle", "flush", "returned"}

DrainTypeOK ==
  /\ TypeOK
  /\ request \in [Requests -> RequestStates]
  /\ active \in 0..Cardinality(Requests)
  /\ closing \in BOOLEAN
  /\ doneCloses \in Nat
  /\ phase \in Phases
  /\ err \in BOOLEAN

DrainInit ==
  /\ Init
  /\ request = [r \in Requests |-> "idle"]
  /\ active = 0
  /\ closing = FALSE
  /\ doneCloses = 0
  /\ phase = "running"
  /\ err = FALSE

-----------------------------------------------------------------------------
(* requestDrain.wrap.                                                      *)

Enter(r) ==
  /\ request[r] = "idle"
  /\ IF closing
     THEN request' = [request EXCEPT ![r] = "refused"] /\ UNCHANGED active
     ELSE /\ request' = [request EXCEPT ![r] = "admitted"]
          /\ active' = active + 1
  /\ UNCHANGED <<vars, closing, doneCloses, phase, err>>

(* The handler records its request; one that fails to authenticate, or     *)
(* that is not a proxied request, leaves without a record.                 *)
Record(r) ==
  /\ request[r] = "admitted"
  /\ SubmitLock(r) \/ HandlerStep(r)
  /\ UNCHANGED drainVars

MayLeave(r) == request[r] = "admitted"

CountedBefore == closing /\ active = 0
LastOut == closing /\ active = 1

Leave(r) ==
  /\ MayLeave(r)
  /\ pc[r] \in {"serving", "queued", "fellback"}
  /\ request' = [request EXCEPT ![r] = "left"]
  /\ active' = active - 1
  /\ doneCloses' = IF LastOut THEN doneCloses + 1 ELSE doneCloses
  /\ UNCHANGED <<vars, closing, phase, err>>

Background ==
  /\ RunStep \/ \E w \in Workers : FlushStep(w)
  /\ UNCHANGED drainVars

-----------------------------------------------------------------------------
(* shutdownServer.                                                         *)

Drained == active = 0

Begin ==
  /\ phase = "running"
  /\ phase' = "grace"
  /\ closing' = TRUE
  /\ doneCloses' = IF Drained THEN doneCloses + 1 ELSE doneCloses
  /\ UNCHANGED <<vars, request, active, err>>

ServerShutdownOK ==
  /\ phase = "grace"
  /\ \A r \in Requests : request[r] # "admitted"
  /\ phase' = "settle"
  /\ UNCHANGED <<vars, request, active, closing, doneCloses, err>>

ServerShutdownTimeout ==
  /\ phase = "grace"
  /\ phase' = "settle"
  /\ err' = TRUE
  /\ UNCHANGED <<vars, request, active, closing, doneCloses>>

Settled ==
  /\ phase = "settle"
  /\ doneCloses > 0
  /\ phase' = "flush"
  /\ UNCHANGED <<vars, request, active, closing, doneCloses, err>>

SettleForever ==
  /\ phase = "settle"
  /\ doneCloses > 0
  /\ phase' = "flush"
  /\ err' = TRUE
  /\ UNCHANGED <<vars, request, active, closing, doneCloses>>

SettleTimeout ==
  /\ phase = "settle"
  /\ phase' = "flush"
  /\ err' = TRUE
  /\ UNCHANGED <<vars, request, active, closing, doneCloses>>

CloseLogs ==
  /\ phase = "flush"
  /\ CloseStart(Main) \/ CloserStep(Main)
  /\ UNCHANGED drainVars

IgnoreClose(failed) == err
Joined(failed) == err \/ failed

Return ==
  /\ phase = "flush"
  /\ closer[Main] \in {"nil", "error"}
  /\ phase' = "returned"
  /\ err' = Joined(closer[Main] = "error")
  /\ UNCHANGED <<vars, request, active, closing, doneCloses>>

-----------------------------------------------------------------------------

DrainNext ==
  \/ \E r \in Requests : Enter(r) \/ Record(r) \/ Leave(r)
  \/ Background
  \/ Begin
  \/ ServerShutdownOK \/ ServerShutdownTimeout
  \/ Settled \/ SettleTimeout
  \/ CloseLogs
  \/ Return

DrainSpec == DrainInit /\ [][DrainNext]_allVars

(* The deadlines of shutdownServer fire, and the goroutines of the         *)
(* recorder are scheduled; the handlers owe nothing before they record: an *)
(* upstream may hold one for ever.                                         *)
DrainFairness ==
  /\ Fairness
  /\ WF_allVars(ServerShutdownTimeout) /\ WF_allVars(SettleTimeout)
  /\ WF_allVars(CloseLogs) /\ WF_allVars(Return)

DrainFairSpec == DrainSpec /\ DrainFairness

-----------------------------------------------------------------------------
(* Properties.                                                             *)

(* shutdownServer returns nil only if every request that reached record    *)
(* is in the table (a lost record turns the exit into an error), and then  *)
(* nobody is left who could still use the database pool, which main closes *)
(* on return.                                                              *)
NilExitIsClean ==
  (phase = "returned" /\ ~err) =>
    /\ lost = {}
    /\ \A r \in Requests : pc[r] # "serving" => r \in db
    /\ runner = "done"
    /\ \A r \in Requests : request[r] # "admitted"
    /\ \A w \in Workers : Pending(w) = {}

(* A closing drain has closed d.done once (a second close would panic) if  *)
(* no handler is active, so that shutdownServer does not wait for handlers *)
(* that have all left, and has not closed it otherwise; no handler is      *)
(* admitted after it.                                                      *)
DoneMeansDrained ==
  doneCloses = IF closing /\ \A r \in Requests : request[r] # "admitted"
               THEN 1 ELSE 0

(* Once it has begun, the shutdown returns, whatever the handlers do.      *)
ShutdownReturns == closing ~> phase = "returned"
=============================================================================
