---------------------------- MODULE MCBalancing ----------------------------
(* Scheduler and Balancer on small instances.  Neither calls the other:     *)
(* each behaviour runs one of them, the other keeps its initial state.      *)
EXTENDS Scheduler, Balancer, TLC

VARIABLE part

SmallLoads == {<<1, 1>>}

Symmetry == Permutations(Names)

\* A path that is inactive, or active without a score, or with a small, a
\* middling or a large one.
States == {[Score |-> 0, Weight |-> 0, Active |-> FALSE]}
            \cup {[Score |-> s, Weight |-> 0, Active |-> TRUE] : s \in {0, 1, 20, 99}}

\* The arithmetic of adjustWeights alone, on five paths, where both limits of
\* Clamp are met: it shares as UpdateShares says, and gives every active path a
\* weight and no other.  It is about no state in particular, and is evaluated while
\* there are no paths yet.
AdjustShares ==
  part = "scheduler" /\ DOMAIN paths = {} =>
    \A ps \in [1 .. 5 -> States] :
      ScoredOf(ps) # {} =>
        /\ Shared(Adjusted(ps), ActiveWeight(Adjusted(ps)))
        /\ \A n \in 1 .. 5 : Adjusted(ps)[n].Weight > 0 <=> ps[n].Active

MCBalancingInit ==
  /\ part \in {"scheduler", "balancer"}
  /\ NewScheduler
  /\ NewBalancer /\ (part # "balancer" => algorithm = "random")

MCBalancingNext ==
  /\ \/ part = "scheduler" /\ SchedulerNext /\ UNCHANGED bvars
     \/ part = "balancer" /\ BalancerNext /\ UNCHANGED vars
  /\ UNCHANGED part

MCBalancingSpec == MCBalancingInit /\ [][MCBalancingNext]_<<part, vars, bvars>>

-----------------------------------------------------------------------------

\* The types of both.
BalancingTypeOK == SchedulerTypeOK /\ BalancerTypeOK
=============================================================================
