------------------------------ MODULE Rotator ------------------------------
(***************************************************************************)
(* The secret rotator: loops that renew every secret older than MaxAge,    *)
(* and a callback, run in a goroutine of its own for each renewal, through *)
(* which the program learns the new value.                                 *)
(***************************************************************************)
EXTENDS Integers, FiniteSets

CONSTANTS
  SecretNames,
  AutoRotate,    \* RotationConfig.AutoRotate
  MaxValues,     \* bound: values generated and registered
  MaxRotators    \* bound: calls of Start

ASSUME RotatorAssumption ==
  IsFiniteSet(SecretNames) /\ MaxValues \in Nat /\ MaxRotators \in Nat

VARIABLES
  secrets,       \* name -> its value and whether it is older than MaxAge
  values,        \* values made so far; they are numbered
  rrunning,
  rstop,         \* stopCh: "open", "closed", or closed twice, which panics
  rloops,        \* the goroutines of Start: "none", "wait", "ended"
  callbacks,     \* the goroutines of onRotate under way
  announced,     \* history: the values onRotate has been called with
  renewed        \* history: the values made by a rotation

rvars == <<secrets, values, rrunning, rstop, rloops, callbacks, announced, renewed>>

Secret(value) == [value |-> value, old |-> FALSE]

NewRotator ==
  /\ secrets = [n \in {} |-> Secret(0)] /\ values = 0
  /\ rrunning = FALSE /\ rstop = "open"
  /\ rloops = [i \in 1 .. MaxRotators |-> "none"]
  /\ callbacks = {} /\ announced = {} /\ renewed = {}

-----------------------------------------------------------------------------

\* A name registered again starts from a new value and a new age.
Register(name) ==
  /\ values < MaxValues
  /\ values' = values + 1
  /\ secrets' = [n \in DOMAIN secrets \cup {name} |->
                   IF n = name THEN Secret(values') ELSE secrets[n]]
  /\ UNCHANGED <<rrunning, rstop, rloops, callbacks, announced, renewed>>

\* Time passes.
GrowOld(name) ==
  /\ name \in DOMAIN secrets
  /\ secrets' = [secrets EXCEPT ![name].old = TRUE]
  /\ UNCHANGED <<values, rrunning, rstop, rloops, callbacks, announced, renewed>>

\* Whether the rotator runs is not asked: each call adds a loop.
RotatorStart(i) ==
  /\ AutoRotate /\ rstop # "panicked"
  /\ rloops[i] = "none" /\ \A j \in 1 .. i - 1 : rloops[j] # "none"
  /\ rrunning' = TRUE
  /\ rloops' = [rloops EXCEPT ![i] = "wait"]
  /\ UNCHANGED <<secrets, values, rstop, callbacks, announced, renewed>>

\* The channel is made once: it is closed a second time by the Stop after a restart.
RotatorStop ==
  /\ rrunning /\ rrunning' = FALSE
  /\ IF rstop = "closed"
     THEN rstop' = "panicked" /\ rloops' = [i \in DOMAIN rloops |-> "ended"]
     ELSE rstop' = "closed" /\ UNCHANGED rloops
  /\ UNCHANGED <<secrets, values, callbacks, announced, renewed>>

Old == {n \in DOMAIN secrets : secrets[n].old}

\* Mutant: the callback is run for one of the secrets.
RenewOne ==
  /\ values + Cardinality(Old) <= MaxValues
  /\ \E fresh \in [Old -> values + 1 .. values + Cardinality(Old)] :
       /\ \A n, m \in Old : fresh[n] = fresh[m] => n = m
       /\ secrets' = [n \in DOMAIN secrets |->
                        IF n \in Old THEN [secrets[n] EXCEPT !.value = fresh[n]] ELSE secrets[n]]
       /\ callbacks' = callbacks \cup {fresh[n] : n \in {m \in Old : m = CHOOSE o \in Old : TRUE}}
       /\ renewed' = renewed \cup {fresh[n] : n \in Old}
  /\ values' = values + Cardinality(Old)
  /\ UNCHANGED <<rrunning, rstop, rloops, announced>>

\* Every old secret gets a new value, in any order.  Its age stays that of its
\* registration: it is renewed at every tick from then on.
Renew ==
  /\ values + Cardinality(Old) <= MaxValues
  /\ \E fresh \in [Old -> values + 1 .. values + Cardinality(Old)] :
       /\ \A n, m \in Old : fresh[n] = fresh[m] => n = m
       /\ secrets' = [n \in DOMAIN secrets |->
                        IF n \in Old THEN [secrets[n] EXCEPT !.value = fresh[n]] ELSE secrets[n]]
       /\ callbacks' = callbacks \cup {fresh[n] : n \in Old}
       /\ renewed' = renewed \cup {fresh[n] : n \in Old}
  /\ values' = values + Cardinality(Old)
  /\ UNCHANGED <<rrunning, rstop, rloops, announced>>

Tick(i) == rloops[i] = "wait" /\ Renew

RotateNow == rstop # "panicked" /\ Renew

\* The goroutines run in any order: an older value may be announced last.
Announce(v) ==
  /\ v \in callbacks
  /\ callbacks' = callbacks \ {v} /\ announced' = announced \cup {v}
  /\ UNCHANGED <<secrets, values, rrunning, rstop, rloops, renewed>>

RotatorExit(i) ==
  /\ rloops[i] = "wait" /\ rstop = "closed"
  /\ rloops' = [rloops EXCEPT ![i] = "ended"]
  /\ UNCHANGED <<secrets, values, rrunning, rstop, callbacks, announced, renewed>>

RotatorNext ==
  \/ \E name \in SecretNames : Register(name) \/ GrowOld(name)
  \/ \E i \in 1 .. MaxRotators : RotatorStart(i) \/ Tick(i) \/ RotatorExit(i)
  \/ RotatorStop \/ RotateNow \/ \E v \in callbacks : Announce(v)

RotatorSpec == NewRotator /\ [][RotatorNext]_rvars

-----------------------------------------------------------------------------

\* The types; a value is held by one secret, and every value a rotation has made is
\* announced to the callback once, or about to be.
RotatorTypeOK ==
  /\ DOMAIN secrets \subseteq SecretNames /\ values \in 0 .. MaxValues
  /\ \A n, m \in DOMAIN secrets : secrets[n].value = secrets[m].value => n = m
  /\ rrunning \in BOOLEAN /\ rstop \in {"open", "closed", "panicked"}
  /\ rloops \in [1 .. MaxRotators -> {"none", "wait", "ended"}]
  /\ callbacks \cup announced = renewed /\ callbacks \cap announced = {}
=============================================================================
