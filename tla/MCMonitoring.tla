---------------------------- MODULE MCMonitoring -----------------------------
(* Model-checking instance of Monitoring: see the README for the bounds.   *)
EXTENDS Monitoring, TLC

==============================================================================
