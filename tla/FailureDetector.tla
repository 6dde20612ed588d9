--------------------------- MODULE FailureDetector ---------------------------
(***************************************************************************)
(* What the failover engine (src/internal/failover) promises its users,    *)
(* with no locks, goroutines, status names or life cycle: transports are   *)
(* probed; one that misses Threshold probes in a row is suspected; at any  *)
(* moment the detector may announce, for ALL the transports it suspects    *)
(* and towards ONE transport whose last probe was answered, a notice       *)
(* <<suspect, substitute>>; notices are delivered later, in any order.     *)
(*                                                                         *)
(* Failover.tla is shown to implement Spec (FailoverProofs.tla,            *)
(* ImplementsDetector).                                                    *)
(***************************************************************************)
EXTENDS Integers

CONSTANTS Transports, Threshold

VARIABLES
  probed,     \* the transports probed at least once
  misses,     \* misses[t]: probes of t missed since the last answered one
  notices     \* notices[s][h]: undelivered notices "move from s to h"

vars == <<probed, misses, notices>>

Trusted   == {t \in probed : misses[t] = 0}
Suspected == {t \in probed : misses[t] >= Threshold}

Init ==
  /\ probed  = {}
  /\ misses  = [t \in Transports |-> 0]
  /\ notices = [s \in Transports |-> [h \in Transports |-> 0]]

Answer(t) ==
  /\ probed' = probed \cup {t}
  /\ misses' = [misses EXCEPT ![t] = 0]
  /\ UNCHANGED notices

Miss(t) ==
  /\ probed' = probed \cup {t}
  /\ misses' = [misses EXCEPT ![t] = misses[t] + 1]
  /\ UNCHANGED notices

Announce(h) ==
  /\ h \in Trusted
  /\ Suspected # {}
  /\ notices' = [s \in Transports |-> [g \in Transports |->
                   IF g = h /\ s \in Suspected THEN notices[s][g] + 1
                                               ELSE notices[s][g]]]
  /\ UNCHANGED <<probed, misses>>

Deliver(s, h) ==
  /\ notices[s][h] > 0
  /\ notices' = [notices EXCEPT ![s] = [notices[s] EXCEPT ![h] = notices[s][h] - 1]]
  /\ UNCHANGED <<probed, misses>>

Next ==
  \/ \E t \in Transports : Answer(t) \/ Miss(t)
  \/ \E h \in Transports : Announce(h)
  \/ \E s, h \in Transports : Deliver(s, h)

Spec == Init /\ [][Next]_vars
==============================================================================
