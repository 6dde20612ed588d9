------------------------------ MODULE Scheduler ------------------------------
(***************************************************************************)
(* The multipath scheduler, src/internal/multipath/multipath.go: paths     *)
(* with a score and a weight, the total weight SelectPath draws from, and  *)
(* the operations that keep them, in any order.  Each method holds s.mu    *)
(* from its first line to its last and is one action; the counters of      *)
(* failovers and bytes are not kept here (Monitoring.tla has the first).   *)
(*                                                                         *)
(* The total is a cache: it is recomputed by most methods, by UpdatePath   *)
(* in weighted mode only, and there not when no path has scored.           *)
(*                                                                         *)
(* Scores are naturals; ratio * 20 is rounded exactly, half up.  Modes     *)
(* other than "weighted" differ in SelectPath only.                        *)
(***************************************************************************)
EXTENDS Integers, FiniteSets, Functions

CONSTANTS
  Names,          \* names of paths
  Modes,          \* the distribution modes in use
  Scores,         \* what a path may score
  InitialWeights  \* the weights paths are added with

ASSUME SchedulerAssumption ==
  /\ IsFiniteSet(Names)
  /\ Modes \subseteq {"weighted", "lowest-latency", "lowest-loss", "even", "all"}
  /\ "weighted" \in Modes
  /\ Scores \subseteq Nat
  /\ InitialWeights \subseteq 0 .. 100

VARIABLES
  paths,          \* s.paths
  mode,           \* s.mode
  totalWeight     \* s.totalWeight

vars == <<paths, mode, totalWeight>>

PathState == [Score : Scores \cup {0}, Weight : 0 .. 100, Active : BOOLEAN]

ActiveOf(ps) == {n \in DOMAIN ps : ps[n].Active}
ScoredOf(ps) == {n \in ActiveOf(ps) : ps[n].Score > 0}

\* The sum recalculate computes.
ActiveWeight(ps) == SumFunctionOnSet([n \in DOMAIN ps |-> ps[n].Weight], ActiveOf(ps))

\* The types; a weight is a percentage.
SchedulerTypeOK ==
  /\ DOMAIN paths \subseteq Names
  /\ \A n \in DOMAIN paths : paths[n] \in PathState
  /\ mode \in Modes
  /\ totalWeight \in Nat

NewScheduler ==
  /\ paths = [n \in {} |-> 0]
  /\ mode = "weighted"
  /\ totalWeight = 0

------------------------------------------------------------------------------
(* adjustWeights.                                                          *)

Round(a, b) == (2 * a + b) \div (2 * b)

\* Mutant of Clamp: a share may be as small as it comes.
ClampAbove(w) == IF w > 60 THEN 60 ELSE w

Clamp(w) == IF w < 5 THEN 5 ELSE IF w > 60 THEN 60 ELSE w

\* Mutant of Raw: inactive paths are given a share like the others.
RawForAll(ps) ==
  LET total == SumFunctionOnSet([n \in DOMAIN ps |-> ps[n].Score], ScoredOf(ps))
  IN  [n \in DOMAIN ps |-> Clamp(Round(20 * ps[n].Score * Cardinality(ScoredOf(ps)), total))]

\* Twenty for an average score, within 5 and 60; nothing for an inactive path.
Raw(ps) ==
  LET total == SumFunctionOnSet([n \in DOMAIN ps |-> ps[n].Score], ScoredOf(ps))
  IN  [n \in DOMAIN ps |->
         IF ps[n].Active THEN Clamp(Round(20 * ps[n].Score * Cardinality(ScoredOf(ps)), total))
                         ELSE 0]

\* The weights as percentages of their sum, rounded down.
Percent(raw, ps) ==
  [n \in DOMAIN ps |-> (raw[n] * 100) \div SumFunctionOnSet(raw, ActiveOf(ps))]

Adjusted(ps) ==
  LET share == Percent(Raw(ps), ps)
  IN  [n \in DOMAIN ps |-> [ps[n] EXCEPT !.Weight = share[n]]]

------------------------------------------------------------------------------
(* The operations.                                                         *)

\* Mutant of SetMode: the total is not recomputed.
SetModeOnly(m) ==
  /\ mode' = m
  /\ UNCHANGED <<paths, totalWeight>>

SetMode(m) ==
  /\ mode' = m
  /\ totalWeight' = ActiveWeight(paths)
  /\ UNCHANGED paths

\* A path that is added again starts over.
AddPath(n, w) ==
  /\ paths' = [p \in DOMAIN paths \cup {n} |->
                 IF p = n THEN [Score |-> 0, Weight |-> w, Active |-> FALSE] ELSE paths[p]]
  /\ totalWeight' = ActiveWeight(paths')
  /\ UNCHANGED mode

RemovePath(n) ==
  /\ paths' = [p \in DOMAIN paths \ {n} |-> paths[p]]
  /\ totalWeight' = ActiveWeight(paths')
  /\ UNCHANGED mode

Measured(n, score, lossy) ==
  [paths EXCEPT ![n] = [Score |-> score, Weight |-> paths[n].Weight,
                        Active |-> score > 0 /\ ~lossy]]

\* A path that scores 0 or loses half its packets is inactive from then on.
\* Without any that scores, adjustWeights leaves weights and total alone.
UpdatePath(n, score, lossy) ==
  /\ n \in DOMAIN paths
  /\ LET ps == Measured(n, score, lossy)
     IN  IF mode = "weighted" /\ ScoredOf(ps) # {}
         THEN paths' = Adjusted(ps) /\ totalWeight' = ActiveWeight(paths')
         ELSE paths' = ps /\ UNCHANGED totalWeight
  /\ UNCHANGED mode

\* Mutant of SetActive: the total is not recomputed.
SetActiveOnly(n, active) ==
  /\ n \in DOMAIN paths
  /\ paths' = [paths EXCEPT ![n] = [paths[n] EXCEPT !.Active = active]]
  /\ UNCHANGED <<mode, totalWeight>>

SetActive(n, active) ==
  /\ n \in DOMAIN paths
  /\ paths' = [paths EXCEPT ![n] = [paths[n] EXCEPT !.Active = active]]
  /\ totalWeight' = ActiveWeight(paths')
  /\ UNCHANGED mode

SchedulerNext ==
  \/ \E m \in Modes : SetMode(m)
  \/ \E n \in Names, w \in InitialWeights : AddPath(n, w)
  \/ \E n \in Names : RemovePath(n)
  \/ \E n \in Names, score \in Scores, lossy \in BOOLEAN : UpdatePath(n, score, lossy)
  \/ \E n \in Names, active \in BOOLEAN : SetActive(n, active)

SchedulerSpec == NewScheduler /\ [][SchedulerNext]_vars

------------------------------------------------------------------------------
(* SelectPath in weighted mode.                                            *)

\* What it may return.  The active paths come in any order; the clock modulo
\* the total falls in the interval of a path, or past them all: then the last
\* path is taken.
Picks ==
  {n \in ActiveOf(paths) :
     \E before \in SUBSET (ActiveOf(paths) \ {n}) :
       LET start == SumFunctionOnSet([p \in before |-> paths[p].Weight], before)
           end   == start + paths[n].Weight
       IN  \/ start < end /\ start < totalWeight
           \/ before = ActiveOf(paths) \ {n} /\ end < totalWeight}

------------------------------------------------------------------------------
(* Properties.                                                             *)

\* While some path has scored, the total SelectPath draws from in weighted mode
\* is the sum of the active weights, whatever operations, in whatever modes,
\* came before.
WeightedTotalExact ==
  (mode = "weighted" /\ ScoredOf(paths) # {}) => totalWeight = ActiveWeight(paths)

\* So traffic never goes to a path without weight by falling off the end.
PicksCarryWeight ==
  (mode = "weighted" /\ ScoredOf(paths) # {}) => \A n \in Picks : paths[n].Weight > 0

\* Each measurement in weighted mode shares the traffic out again: every active
\* path may be picked, none has a larger weight than one that scores better,
\* and rounding loses less than one per cent for each path.
Shared(ps, total) ==
  /\ \A n, p \in ActiveOf(ps) : ps[n].Score <= ps[p].Score => ps[n].Weight <= ps[p].Weight
  /\ total <= 100 /\ total > 100 - Cardinality(ActiveOf(ps))
UpdateShares ==
  [][mode = "weighted" /\ ScoredOf(paths') # {}
     /\ (\E n \in Names, score \in Scores, lossy \in BOOLEAN : UpdatePath(n, score, lossy))
       => Picks' = ActiveOf(paths') /\ Shared(paths', totalWeight')]_vars

\* API_REFERENCE: SelectPath selects a path.  It divides by the total.
SelectPathDefined ==
  (mode = "weighted" /\ ActiveOf(paths) # {}) => totalWeight > 0
==============================================================================
