------------------------------ MODULE Balancer ------------------------------
(***************************************************************************)
(* The load balancer: a list of backends, health marks, and the choice of  *)
(* the next one by each of the six algorithms.  Every method holds b.mu    *)
(* from its first line to its last and is one step.  Counters nobody reads *)
(* (TotalConns, FailureCount, LastFailure) are left out.                   *)
(***************************************************************************)
EXTENDS Integers, Sequences, FiniteSets, SequencesExt

CONSTANTS
  BackendNames, \* names of backends; AddBackend does not look for doubles
  Weights,      \* weights they are given
  Loads,        \* pairs of active connections and latency
  Algorithms,   \* a subset of the six
  Hashes,       \* hashes of client addresses
  MaxBackends,  \* bound: length of the list
  Period        \* bound: where the round robin counter starts again

ASSUME BalancerAssumption ==
  /\ Weights \subseteq Nat /\ Hashes \subseteq Nat /\ Loads \subseteq Nat \X Nat
  /\ MaxBackends \in Nat
  /\ Period \in Nat \ {0} /\ \A n \in 1 .. MaxBackends : Period % n = 0

VARIABLES
  backends,     \* the list
  algorithm,
  current,      \* round robin: picks so far, modulo a multiple of every length
  roundRobin,   \* weighted round robin: the last position
  served        \* history: picks per position of the healthy list, in the cycle
                \* that began after the list last changed

bvars == <<backends, algorithm, current, roundRobin, served>>

None0 == [i \in 1 .. MaxBackends |-> 0]

Backend(name, weight) == [name |-> name, weight |-> weight, load |-> <<0, 0>>, healthy |-> TRUE]

NewBalancer ==
  /\ backends = <<>> /\ algorithm \in Algorithms
  /\ current = 0 /\ roundRobin = 0 /\ served = None0

Healthy == FoldLeft(LAMBDA bs, b : IF b.healthy THEN Append(bs, b) ELSE bs, <<>>, backends)

\* The running sum of the weights in a list.
WeightUpTo(bs, i) == SumFunctionOnSet([j \in DOMAIN bs |-> bs[j].weight], 1 .. i)

TotalWeight(bs) == WeightUpTo(bs, Len(bs))

-----------------------------------------------------------------------------

AddBackend(name, weight) ==
  /\ Len(backends) < MaxBackends
  /\ backends' = Append(backends, Backend(name, weight))
  /\ served' = None0
  /\ UNCHANGED <<algorithm, current, roundRobin>>

\* The methods that are given a name act on the first backend that has it.
First(name) == SelectInSeq(backends, LAMBDA b : b.name = name)

RemoveBackend(name) ==
  /\ First(name) # 0
  /\ backends' = RemoveAt(backends, First(name))
  /\ served' = None0
  /\ UNCHANGED <<algorithm, current, roundRobin>>

Mark(name, healthy) ==
  /\ First(name) # 0
  /\ backends' = [backends EXCEPT ![First(name)].healthy = healthy]
  /\ served' = None0
  /\ UNCHANGED <<algorithm, current, roundRobin>>

MarkHealthy(name)   == Mark(name, TRUE)
MarkUnhealthy(name) == Mark(name, FALSE)

UpdateMetrics(name, load) ==
  /\ First(name) # 0
  /\ backends' = [backends EXCEPT ![First(name)].load = load]
  /\ UNCHANGED <<algorithm, current, roundRobin, served>>

-----------------------------------------------------------------------------
(* Selection: the position of the backend in a list of healthy ones.       *)

\* Mutant: the comparison of the running sum is not strict.
AtWeightInclusive(bs, target) ==
  LET Covers(i) == target <= WeightUpTo(bs, i)
  IN CHOOSE i \in DOMAIN bs : Covers(i) /\ \A j \in 1 .. i - 1 : ~Covers(j)

\* The first backend whose running sum of weights exceeds the target.
AtWeight(bs, target) ==
  LET Covers(i) == target < WeightUpTo(bs, i)
  IN CHOOSE i \in DOMAIN bs : Covers(i) /\ \A j \in 1 .. i - 1 : ~Covers(j)

\* The first minimum of one component of the loads.
Least(bs, component, i) ==
  /\ \A j \in DOMAIN bs : bs[i].load[component] <= bs[j].load[component]
  /\ \A j \in 1 .. i - 1 : bs[i].load[component] < bs[j].load[component]

Cycle(bs) == IF algorithm = "weighted" THEN TotalWeight(bs) ELSE Len(bs)

Picked(i) ==
  served' = [(IF SumFunction(served) >= Cycle(Healthy) THEN None0 ELSE served) EXCEPT ![i] = @ + 1]

\* Mutant: the counter is taken modulo the length of the whole list.
RoundRobinSelectAll(bs) ==
  /\ Picked((current % Len(backends)) + 1)
  /\ current' = (current + 1) % Period
  /\ UNCHANGED <<backends, algorithm, roundRobin>>

RoundRobinSelect(bs) ==
  /\ Picked((current % Len(bs)) + 1)
  /\ current' = (current + 1) % Period
  /\ UNCHANGED <<backends, algorithm, roundRobin>>

\* Mutant: the position wraps around one too late.
WeightedSelectLate(bs) ==
  /\ roundRobin' = (roundRobin + 1) % (TotalWeight(bs) + 1)
  /\ Picked(IF roundRobin' < TotalWeight(bs) THEN AtWeight(bs, roundRobin') ELSE Len(bs))
  /\ UNCHANGED <<backends, algorithm, current>>

WeightedSelect(bs) ==
  /\ roundRobin' = (roundRobin + 1) % TotalWeight(bs)
  /\ Picked(AtWeight(bs, roundRobin'))
  /\ UNCHANGED <<backends, algorithm, current>>

\* The algorithms that keep no position.
Stateless(bs) ==
  {i \in DOMAIN bs :
     \/ algorithm = "weighted" /\ i = 1     \* all weights are 0
     \/ algorithm = "connections" /\ Least(bs, 1, i)
     \/ algorithm = "latency" /\ Least(bs, 2, i)
     \/ algorithm = "random"}

\* Weights of 0 alone leave the plain remainder.
IPHashSelect(bs, hash) ==
  IF TotalWeight(bs) = 0 THEN (hash % Len(bs)) + 1
                         ELSE AtWeight(bs, hash % TotalWeight(bs))

\* Without a client's address the hash falls back to round robin.
SelectNext(bs) ==
  IF algorithm \in {"roundRobin", "ipHash"} THEN RoundRobinSelect(bs)
  ELSE IF algorithm = "weighted" /\ TotalWeight(bs) > 0 THEN WeightedSelect(bs)
  ELSE \E i \in Stateless(bs) :
         Picked(i) /\ UNCHANGED <<backends, algorithm, current, roundRobin>>

\* Without a healthy backend both return nil.
NextBackend == Healthy # <<>> /\ SelectNext(Healthy)

\* With the hash a pure function of the list and the address.
NextWithIP(hash) ==
  /\ Healthy # <<>>
  /\ IF algorithm = "ipHash" THEN IPHashSelect(Healthy, hash) \in DOMAIN Healthy
                                  /\ UNCHANGED bvars
                             ELSE SelectNext(Healthy)

BalancerNext ==
  \/ \E name \in BackendNames :
       \/ RemoveBackend(name) \/ MarkHealthy(name) \/ MarkUnhealthy(name)
       \/ \E weight \in Weights : AddBackend(name, weight)
       \/ \E load \in Loads : UpdateMetrics(name, load)
  \/ NextBackend \/ \E hash \in Hashes : NextWithIP(hash)

BalancerSpec == NewBalancer /\ [][BalancerNext]_bvars

-----------------------------------------------------------------------------

\* The types; no more picks are counted than a cycle has.
BalancerTypeOK ==
  /\ backends \in Seq([name : BackendNames, weight : Weights, load : Loads \cup {<<0, 0>>},
                       healthy : BOOLEAN])
  /\ Len(backends) <= MaxBackends
  /\ current \in 0 .. Period - 1 /\ roundRobin \in Nat
  /\ \A i \in DOMAIN served : served[i] > 0 => i \in DOMAIN Healthy

\* While the healthy list stays as it is, each full cycle of round robin picks
\* every backend once, and of weighted round robin as often as its weight says,
\* wherever the position stood when the list changed.
FairShare ==
  LET sum == SumFunction(served)
      w   == algorithm = "weighted"
  IN (algorithm \in {"roundRobin", "ipHash", "weighted"} /\ sum > 0 /\ sum = Cycle(Healthy))
       => \A i \in DOMAIN Healthy : served[i] = IF w THEN Healthy[i].weight ELSE 1

\* Client addresses are shared by weight: of as many successive hashes as the
\* total weight, each backend gets as many as it weighs.
HashesShareByWeight ==
  Healthy # <<>> /\ TotalWeight(Healthy) > 0 =>
    \A i \in DOMAIN Healthy :
      Cardinality({h \in 1 .. TotalWeight(Healthy) : IPHashSelect(Healthy, h) = i})
        = Healthy[i].weight
=============================================================================
