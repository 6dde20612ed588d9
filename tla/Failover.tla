------------------------------ MODULE Failover -------------------------------
(***************************************************************************)
(* The failover engine, src/internal/failover/failover.go.                 *)
(*                                                                         *)
(* Update, called by the monitoring loop with one measurement of one       *)
(* transport, moves that transport between healthy, degraded and down.     *)
(* An evaluator goroutine, one per Start, wakes every interval, looks at   *)
(* a snapshot of all the statuses and starts one goroutine per transport   *)
(* that is down to call the failover callback.  All of a method's work is  *)
(* done under f.mu, so a method is one action; the callbacks run in        *)
(* goroutines of their own, any time later, so they are in flight between  *)
(* the step that starts them and the one that runs them.                   *)
(*                                                                         *)
(* A measurement is abstracted to good, latency and loss both under the    *)
(* thresholds, or bad.  Evaluate takes the snapshot and starts the         *)
(* goroutines in one step: nothing the code does between the two is seen   *)
(* from outside, and a goroutine may run arbitrarily late anyway.          *)
(***************************************************************************)
EXTENDS Integers

CONSTANTS
  Transports,     \* names of transports
  MaxFailCount,   \* Threshold.MaxFailCount
  Loops,          \* identities for the goroutines Start creates
  FailCountCap,   \* bound: FailCount is not counted beyond this
  MaxInFlight     \* bound: equal callbacks in flight at once

ASSUME ThresholdAssumption == MaxFailCount \in Nat /\ MaxFailCount >= 1

VARIABLES
  states,         \* f.states: Status and FailCount of each transport
  onFailoverCb,   \* a failover callback is registered
  onRecoverCb,    \* a recover callback is registered
  running,        \* f.running
  stopCh,         \* f.stopCh: "open" or "closed"
  loops,          \* the evaluator goroutines
  failoverCalls,  \* failoverCalls[d][h]: started calls of onFailoverCb(d, h)
  recoverCalls,   \* recoverCalls[t]: started calls of onRecoverCb(t)
  panicked        \* the process died on close(f.stopCh)

healthVars    == <<states, failoverCalls, recoverCalls>>
lifecycleVars == <<onFailoverCb, onRecoverCb, running, stopCh, loops, panicked>>
vars          == <<healthVars, lifecycleVars>>

\* "absent" marks a name with no entry in f.states.
Statuses == {"absent", "healthy", "degraded", "down"}
TransportState == [Status : Statuses, FailCount : Nat]

Absent   == [Status |-> "absent", FailCount |-> 0]
NewEntry == [Status |-> "healthy", FailCount |-> 0]
Entry(t) == IF states[t] = Absent THEN NewEntry ELSE states[t]

Healthy == {t \in Transports : states[t].Status = "healthy"}
Down    == {t \in Transports : states[t].Status = "down"}

TypeOK ==
  /\ states \in [Transports -> TransportState]
  /\ onFailoverCb \in BOOLEAN
  /\ onRecoverCb \in BOOLEAN
  /\ running \in BOOLEAN
  /\ stopCh \in {"open", "closed"}
  /\ loops \in [Loops -> {"unborn", "select", "last", "done"}]
  /\ failoverCalls \in [Transports -> [Transports -> Nat]]
  /\ recoverCalls \in [Transports -> Nat]
  /\ panicked \in BOOLEAN

NewFailover ==
  /\ states = [t \in Transports |-> Absent]
  /\ onFailoverCb = FALSE
  /\ onRecoverCb = FALSE
  /\ running = FALSE
  /\ stopCh = "open"
  /\ loops = [l \in Loops |-> "unborn"]
  /\ failoverCalls = [d \in Transports |-> [h \in Transports |-> 0]]
  /\ recoverCalls = [t \in Transports |-> 0]
  /\ panicked = FALSE

Init == NewFailover

------------------------------------------------------------------------------
(* Registration and life cycle.                                            *)

OnFailover ==
  /\ ~panicked
  /\ onFailoverCb' = TRUE
  /\ UNCHANGED <<healthVars, onRecoverCb, running, stopCh, loops, panicked>>

OnRecover ==
  /\ ~panicked
  /\ onRecoverCb' = TRUE
  /\ UNCHANGED <<healthVars, onFailoverCb, running, stopCh, loops, panicked>>

\* Where a goroutine goes when it enters its select: a channel that is already
\* closed is ready and the new timer is not, so it can only leave.
Selecting == IF stopCh = "closed" THEN "last" ELSE "select"

\* Start does not look at running and does not make a new channel.
Start(l) ==
  /\ ~panicked
  /\ loops[l] = "unborn"
  /\ running' = TRUE
  /\ loops' = [loops EXCEPT ![l] = Selecting]
  /\ UNCHANGED <<healthVars, onFailoverCb, onRecoverCb, stopCh, panicked>>

\* close of a channel that is already closed panics; f.running stays TRUE.
Stop ==
  /\ ~panicked
  /\ running
  /\ IF stopCh = "open"
     THEN stopCh' = "closed" /\ running' = FALSE /\ UNCHANGED panicked
     ELSE panicked' = TRUE /\ UNCHANGED <<stopCh, running>>
  /\ UNCHANGED <<healthVars, onFailoverCb, onRecoverCb, loops>>

\* Mutant of LoopExit: the goroutine watches running instead of the channel.
LoopExitByFlag(l) ==
  /\ ~panicked
  /\ loops[l] \in {"select", "last"}
  /\ ~running
  /\ loops' = [loops EXCEPT ![l] = "done"]
  /\ UNCHANGED <<healthVars, onFailoverCb, onRecoverCb, running, stopCh, panicked>>

\* The select of the goroutine picks the closed channel.
LoopExit(l) ==
  /\ ~panicked
  /\ loops[l] \in {"select", "last"}
  /\ stopCh = "closed"
  /\ loops' = [loops EXCEPT ![l] = "done"]
  /\ UNCHANGED <<healthVars, onFailoverCb, onRecoverCb, running, stopCh, panicked>>

------------------------------------------------------------------------------
(* Health.                                                                 *)

\* Mutant of UpdateGood: FailCount survives the recovery.
UpdateGoodKeepsCount(t) ==
  LET old == Entry(t)
      recovers == old.Status # "healthy"
  IN  /\ states' = [states EXCEPT ![t] = [old EXCEPT !.Status = "healthy"]]
      /\ recoverCalls' = [recoverCalls EXCEPT ![t] =
                            IF recovers /\ onRecoverCb THEN recoverCalls[t] + 1
                                                       ELSE recoverCalls[t]]
      /\ UNCHANGED failoverCalls

\* Mutant of UpdateGood: only a transport that was down is reported.
UpdateGoodReportsDownOnly(t) ==
  LET old == Entry(t)
      recovers == old.Status = "down"
  IN  /\ states' = [states EXCEPT ![t] = [Status |-> "healthy", FailCount |-> 0]]
      /\ recoverCalls' = [recoverCalls EXCEPT ![t] =
                            IF recovers /\ onRecoverCb THEN recoverCalls[t] + 1
                                                       ELSE recoverCalls[t]]
      /\ UNCHANGED failoverCalls

UpdateGood(t) ==
  LET old == Entry(t)
      recovers == old.Status # "healthy"
  IN  /\ states' = [states EXCEPT ![t] =
                      IF recovers THEN [Status |-> "healthy", FailCount |-> 0] ELSE old]
      /\ recoverCalls' = [recoverCalls EXCEPT ![t] =
                            IF recovers /\ onRecoverCb THEN recoverCalls[t] + 1
                                                       ELSE recoverCalls[t]]
      /\ UNCHANGED failoverCalls

UpdateBad(t) ==
  LET count == Entry(t).FailCount + 1
  IN  /\ states' = [states EXCEPT ![t] =
                      [Status    |-> IF count >= MaxFailCount THEN "down" ELSE "degraded",
                       FailCount |-> count]]
      /\ UNCHANGED <<failoverCalls, recoverCalls>>

Update(t, good) ==
  /\ ~panicked
  /\ IF good THEN recoverCalls[t] < MaxInFlight /\ UpdateGood(t)
             ELSE states[t].FailCount < FailCountCap /\ UpdateBad(t)
  /\ UNCHANGED lifecycleVars

\* The failover goroutines evaluate starts when it picks h as healthy[0]:
\* Go's map iteration makes h any healthy transport, the same for all of them.
CallsTowards(h) ==
  [d \in Transports |-> [g \in Transports |->
     IF g = h /\ d \in Down THEN failoverCalls[d][g] + 1 ELSE failoverCalls[d][g]]]

\* Mutant of EvaluateStates: degraded transports are given up as well.
EvaluateDegraded ==
  IF onFailoverCb /\ Healthy # {}
  THEN \E h \in Healthy :
         failoverCalls' = [d \in Transports |-> [g \in Transports |->
           IF g = h /\ states[d].Status \in {"degraded", "down"} /\ failoverCalls[d][g] = 0
           THEN 1 ELSE failoverCalls[d][g]]]
  ELSE UNCHANGED failoverCalls

EvaluateStates ==
  IF onFailoverCb /\ Down # {} /\ Healthy # {}
  THEN \E h \in Healthy :
         /\ \A d \in Down : failoverCalls[d][h] < MaxInFlight
         /\ failoverCalls' = CallsTowards(h)
  ELSE UNCHANGED failoverCalls

\* A wake-up whose timer fired while the channel was being closed still runs,
\* once.
Evaluate(l) ==
  /\ ~panicked
  /\ loops[l] = "select"
  /\ EvaluateStates
  /\ loops' = [loops EXCEPT ![l] = Selecting]
  /\ UNCHANGED <<states, recoverCalls, onFailoverCb, onRecoverCb, running, stopCh, panicked>>

------------------------------------------------------------------------------
(* The callback goroutines run.  What the callback does is its owner's     *)
(* business (Monitoring.tla).                                              *)

\* Mutant of TakeFailoverCall: a callback runs that nobody started.
TakeFailoverCallAnyway(d, h) ==
  failoverCalls' = [failoverCalls EXCEPT ![d] =
                      [failoverCalls[d] EXCEPT ![h] = failoverCalls[d][h] - 1]]

TakeFailoverCall(d, h) ==
  /\ failoverCalls[d][h] > 0
  /\ failoverCalls' = [failoverCalls EXCEPT ![d] =
                         [failoverCalls[d] EXCEPT ![h] = failoverCalls[d][h] - 1]]

RunFailoverCall(d, h) ==
  /\ ~panicked
  /\ TakeFailoverCall(d, h)
  /\ UNCHANGED <<states, recoverCalls, lifecycleVars>>

RunRecoverCall(t) ==
  /\ ~panicked
  /\ recoverCalls[t] > 0
  /\ recoverCalls' = [recoverCalls EXCEPT ![t] = recoverCalls[t] - 1]
  /\ UNCHANGED <<states, failoverCalls, lifecycleVars>>

Next ==
  \/ OnFailover \/ OnRecover \/ Stop
  \/ \E l \in Loops : Start(l) \/ Evaluate(l) \/ LoopExit(l)
  \/ \E t \in Transports, good \in BOOLEAN : Update(t, good)
  \/ \E d, h \in Transports : RunFailoverCall(d, h)
  \/ \E t \in Transports : RunRecoverCall(t)

Spec == Init /\ [][Next]_vars

\* Every goroutine that can run does.
Fairness ==
  /\ \A l \in Loops : WF_vars(LoopExit(l))
  /\ \A d, h \in Transports : WF_vars(RunFailoverCall(d, h))
  /\ \A t \in Transports : WF_vars(RunRecoverCall(t))

FairSpec == Spec /\ Fairness

------------------------------------------------------------------------------
(* Properties.                                                             *)

\* The status is a function of the number of bad measurements since the last
\* good one, whatever the order of updates: healthy means none, down means at
\* least MaxFailCount, degraded is everything between.  Update keeps the two
\* fields separately, resets one only on the way out of degraded or down, and
\* relies on Go's zero values for a name it sees for the first time.
StatusMatchesFailCount ==
  \A t \in Transports :
    /\ states[t].Status \in {"absent", "healthy"} <=> states[t].FailCount = 0
    /\ states[t].Status = "down" <=> states[t].FailCount >= MaxFailCount

\* The engine does what its abstract specification promises: every failover
\* call is away from a transport that missed MaxFailCount probes in a row and
\* towards one whose last probe was good, for all the down ones together.
Detector == INSTANCE FailureDetector WITH
  Threshold <- MaxFailCount,
  probed    <- {t \in Transports : states[t].Status # "absent"},
  misses    <- [t \in Transports |-> states[t].FailCount],
  notices   <- failoverCalls

ImplementsDetector == Detector!Spec

\* With a callback registered, each outage that ends is reported once: a
\* recover call is started by exactly the steps that take a transport from
\* degraded or down back to healthy.
OneRecoverPerOutage ==
  [][\A t \in Transports :
       LET ended == states[t].Status \in {"degraded", "down"}
                    /\ states'[t].Status = "healthy"
       IN  (recoverCalls'[t] > recoverCalls[t]) <=> (ended /\ onRecoverCb)]_vars

\* Once Stop has closed the channel the engine falls silent: every evaluator
\* goroutine ends and every callback it started has run, for good.
Silent ==
  /\ \A l \in Loops : loops[l] \in {"unborn", "done"}
  /\ \A d, h \in Transports : failoverCalls[d][h] = 0
StopSilences == (stopCh = "closed") ~> (Silent \/ panicked)
==============================================================================
