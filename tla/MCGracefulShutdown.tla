------------------------- MODULE MCGracefulShutdown -------------------------
(* Small instances of the recorder and of the shutdown around it for TLC.  *)
(* Two records PostgreSQL accepts and one it refuses, a queue of one and   *)
(* batches of three, so that the queue overflows, batches are bisected     *)
(* unevenly and the fallback has fewer places than handlers.               *)
(*                                                                         *)
(* In a behaviour of the recorder everybody may record at any time and     *)
(* Close may come at any time; in one of the process the drain and         *)
(* shutdownServer decide, and r2 does not arrive.                          *)
EXTENDS GracefulShutdown

CONSTANTS r1, r2, b1

VARIABLE subject

mcVars == <<subject, allVars>>

MCInit == DrainInit /\ subject \in {"recorder", "process"}

MCNext ==
  /\ UNCHANGED subject
  /\ \/ subject = "recorder" /\ Next /\ UNCHANGED drainVars
     \/ subject = "process" /\ DrainNext /\ request'[r2] = "idle"

MCSpec == MCInit /\ [][MCNext]_mcVars /\ DrainFairness
=============================================================================
