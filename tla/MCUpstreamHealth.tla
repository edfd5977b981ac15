-------------------------- MODULE MCUpstreamHealth --------------------------
(* Small instances of UpstreamHealth for TLC.                              *)
EXTENDS UpstreamHealth, TLC

CONSTANTS h1, h2, s1, s2

(* The second handler stops before the configuration changes, which keeps  *)
(* the instance for liveness small; no step that fairness asks for is lost.*)
LiveNext == HealthNext /\ (row'.version > 1 => stage'[h2] = "idle")

LiveSpec == HealthInit /\ [][LiveNext]_healthVars /\ HealthFairness
=============================================================================
