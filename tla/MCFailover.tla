----------------------------- MODULE MCFailover ------------------------------
(* Model-checking instance of Failover: see the README for the bounds.     *)
EXTENDS Failover, TLC

==============================================================================
