------------------------------ MODULE MCManager ------------------------------
(* Model-checking instance of Manager: see the README for the bounds.      *)
EXTENDS Manager, TLC

==============================================================================
