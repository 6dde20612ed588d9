-------------------------- MODULE MonitoringProofs ---------------------------
(* Theorems about Monitoring, for every set of transports, every scoring   *)
(* and every bound.                                                        *)
EXTENDS Monitoring, FailoverProofs

USE DEF healthVars, lifecycleVars, vars, loopVars, routeVars, mvars

\* The composition drives the failover engine only through the engine's own
\* operations (failover.go).
LEMMA MonitoringStepIsEngineStep == [MonitoringNext]_mvars => [Next]_vars
<1> SUFFICES ASSUME [MonitoringNext]_mvars PROVE [Next]_vars
  OBVIOUS
<1>1. CASE \/ BeginRound \/ EndMonitoring \/ ListReturns \/ PickBest \/ ReadCurrent \/ SwitchToBest
           \/ CountSwitch \/ CallbackCount \/ UNCHANGED mvars
           \/ \E t \in MayFail : TunnelFails(t)
  BY <1>1 DEF BeginRound, EndMonitoring, ListReturns, PickBest, ReadCurrent, SwitchToBest, CountSwitch,
              CallbackCount, TunnelFails
<1>2. ASSUME NEW t \in Transports, UpdateOne(t) PROVE Next
  <2>1. Update(t, TRUE) \/ Update(t, FALSE)
    BY <1>2 DEF UpdateOne, Update
  <2>2. QED
    BY <2>1 DEF Next
<1>3. ASSUME NEW l \in Loops, StartEvaluator(l) \/ EvaluatorStep(l) PROVE Next
  BY <1>3 DEF StartEvaluator, EvaluatorStep, Next
<1>4. ASSUME NEW d \in Transports, NEW h \in Transports, CallbackSwitch(d, h) PROVE Next
  BY <1>4 DEF CallbackSwitch, Next
<1>5. ASSUME NEW t \in Transports, RecoverCallback(t) PROVE Next
  BY <1>5 DEF RecoverCallback, Next
<1>6. CASE Shutdown
  BY <1>6 DEF Shutdown, Next
<1>7. QED
  BY <1>1, <1>2, <1>3, <1>4, <1>5, <1>6 DEF MonitoringNext

\* The loop's own variables keep their types.
LoopTypeOK ==
  /\ pc \in {"check", "list", "update", "best", "current", "switch", "count", "recount", "exit"}
  /\ ping \in Pings
  /\ pending \subseteq Transports

\* What TypeOK and the round invariant need, together.
RoundInv ==
  /\ TypeOK
  /\ StatusMatchesFailCount
  /\ LoopTypeOK
  /\ RoundsAreUniform

\* UpdateOne keeps the round invariant: the transport moves from the pending
\* group to the updated group, one measurement further.
LEMMA UpdateKeepsRounds ==
  ASSUME RoundInv, NEW t \in Transports, UpdateOne(t),
         TypeOK', StatusMatchesFailCount'
  PROVE  RoundsAreUniform'
<1>1. /\ pc = "update"
      /\ t \in pending
      /\ pending' = pending \ {t}
      /\ pc' = "update" \/ (pc' = "best" /\ pending' = {})
      /\ ping' = ping
  BY DEF UpdateOne
<1>2. /\ \A u \in Transports \ {t} : states'[u] = states[u]
      /\ states'[t].Status # "absent"
      /\ IF ping.good THEN states'[t].Status = "healthy" /\ states'[t].FailCount = 0
         ELSE states'[t].FailCount = states[t].FailCount + 1
  BY DEF RoundInv, TypeOK, StatusMatchesFailCount, UpdateOne, Update, UpdateGood, UpdateBad,
         Entry, NewEntry, Absent, TransportState, Statuses
<1>3. Agree(pending)'
  BY <1>1, <1>2 DEF RoundInv, LoopTypeOK, RoundsAreUniform, Agree
<1>4. \A u \in Transports \ pending : states'[u] = states[u]
  BY <1>1, <1>2
<1>5. ASSUME NEW u \in Transports \ pending
      PROVE  states'[u] = states'[t]
  <2>1. states'[u].Status # "absent" /\ states'[u].FailCount = states'[t].FailCount
    <3>1. states[t] \in TransportState /\ states[u] \in TransportState
      BY DEF RoundInv, TypeOK
    <3>2. CASE ping.good
      BY <1>1, <1>2, <1>4, <3>1, <3>2
         DEF RoundInv, RoundsAreUniform, StatusMatchesFailCount, TransportState, Statuses
    <3>3. CASE ~ping.good
      <4>1. states[u].FailCount = states[t].FailCount + 1
        BY <1>1, <3>3 DEF RoundInv, RoundsAreUniform
      <4>2. states[u].Status # "absent"
        BY <3>1, <4>1 DEF RoundInv, StatusMatchesFailCount, TransportState
      <4>3. QED
        BY <1>2, <1>4, <3>3, <4>1, <4>2
    <3>4. QED
      BY <3>2, <3>3
  <2>2. states[u].FailCount \in Nat
    BY DEF RoundInv, TypeOK, TransportState
  <2>3. states'[u] \in TransportState /\ states'[t] \in TransportState
    BY DEF TypeOK
  <2>4. states'[u].Status = states'[t].Status
    BY <1>2, <2>1, <2>3, ThresholdAssumption
       DEF StatusMatchesFailCount, TransportState, Statuses, ThresholdAssumption
  <2>5. QED
    BY <2>1, <2>3, <2>4 DEF TransportState
<1>6. Agree(Transports \ pending)'
  <2>1. Transports \ pending' = (Transports \ pending) \cup {t}
    BY <1>1
  <2>2. QED
    BY <1>5, <2>1 DEF Agree
<1>7. ASSUME pc' = "update", NEW u \in Transports \ pending', NEW v \in pending'
      PROVE  IF ping.good THEN states'[u].Status = "healthy"
             ELSE states'[u].FailCount = states'[v].FailCount + 1
  <2>1. v \in pending /\ v # t /\ v \in Transports /\ states'[v] = states[v]
        /\ states[v] = states[t]
    BY <1>1, <1>2 DEF RoundInv, LoopTypeOK, RoundsAreUniform, Agree
  <2>2. CASE u = t
    BY <1>2, <2>1, <2>2
  <2>3. CASE u # t
    BY <1>1, <1>2, <2>1, <2>3 DEF RoundInv, RoundsAreUniform
  <2>4. QED
    BY <2>2, <2>3
<1>8. QED
  BY <1>1, <1>3, <1>6, <1>7 DEF RoundsAreUniform, Agree

\* Every step keeps the round invariant.
LEMMA RoundStep == RoundInv /\ [MonitoringNext]_mvars => RoundInv'
<1> SUFFICES ASSUME RoundInv, [MonitoringNext]_mvars PROVE RoundInv'
  OBVIOUS
<1>1. TypeOK' /\ StatusMatchesFailCount'
  BY MonitoringStepIsEngineStep, TypeStep, StatusStep DEF RoundInv
<1>2. LoopTypeOK'
  BY DEF RoundInv, LoopTypeOK, MonitoringNext, BeginRound, EndMonitoring, ListReturns, PickBest,
         ReadCurrent, SwitchToBest, CountSwitch, UpdateOne, StartEvaluator, EvaluatorStep,
         CallbackSwitch, CallbackCount, RecoverCallback, Shutdown, TunnelFails
<1>3. RoundsAreUniform'
  <2>1. CASE BeginRound \/ ListReturns
    BY <2>1 DEF RoundInv, RoundsAreUniform, Agree, BeginRound, ListReturns
  <2>2. CASE EndMonitoring \/ PickBest \/ ReadCurrent \/ SwitchToBest \/ CountSwitch
    BY <2>2 DEF RoundInv, RoundsAreUniform, Agree, EndMonitoring, PickBest, ReadCurrent,
                SwitchToBest, CountSwitch
  <2>3. ASSUME NEW t \in Transports, UpdateOne(t) PROVE RoundsAreUniform'
    BY <1>1, <2>3, UpdateKeepsRounds
  <2>4. CASE \/ \E l \in Loops : StartEvaluator(l) \/ EvaluatorStep(l)
             \/ \E d, h \in Transports : CallbackSwitch(d, h)
             \/ CallbackCount
             \/ \E t \in Transports : RecoverCallback(t)
             \/ Shutdown
             \/ \E t \in MayFail : TunnelFails(t)
             \/ UNCHANGED mvars
    <3>1. UNCHANGED <<states, pc, ping, pending>>
      BY <2>4 DEF StartEvaluator, EvaluatorStep, Start, Evaluate, LoopExit, CallbackSwitch,
                  RunFailoverCall, CallbackCount, RecoverCallback, RunRecoverCall,
                  Shutdown, Stop, TunnelFails
    <3>2. QED
      BY <3>1 DEF RoundInv, RoundsAreUniform, Agree
  <2>5. QED
    BY <2>1, <2>2, <2>3, <2>4 DEF MonitoringNext
<1>4. QED
  BY <1>1, <1>2, <1>3 DEF RoundInv

\* The invariant holds when the loop is about to start.
LEMMA RoundInit == MonitoringInit => RoundInv
<1> SUFFICES ASSUME MonitoringInit PROVE RoundInv
  OBVIOUS
<1>1. Absent \in TransportState
  BY DEF Absent, TransportState, Statuses
<1>2. HealthTypeOK
  BY <1>1 DEF MonitoringInit, HealthTypeOK
<1>3. TypeOK
  BY <1>2 DEF MonitoringInit, TypeOK, HealthTypeOK
<1>4. StatusMatchesFailCount
  <2> SUFFICES ASSUME NEW t \in Transports
               PROVE  /\ states[t].Status \in {"absent", "healthy"} <=> states[t].FailCount = 0
                      /\ states[t].Status = "down" <=> states[t].FailCount >= MaxFailCount
    BY DEF StatusMatchesFailCount
  <2>1. states[t].Status = "absent" /\ states[t].FailCount = 0
    BY DEF MonitoringInit, Absent
  <2>2. QED
    BY <2>1, ThresholdAssumption DEF ThresholdAssumption
<1>5. LoopTypeOK
  BY DEF MonitoringInit, LoopTypeOK
<1>6. RoundsAreUniform
  BY DEF MonitoringInit, RoundsAreUniform, Agree
<1>7. QED
  BY <1>3, <1>4, <1>5, <1>6 DEF RoundInv

\* Between rounds of startMonitoring all transports are in the same state,
\* and within a round they are at most one measurement apart.
THEOREM RoundsTheorem == MonitoringSpec => []RoundsAreUniform
<1>1. RoundInv => RoundsAreUniform
  BY DEF RoundInv
<1>2. QED
  BY <1>1, RoundInit, RoundStep, PTL DEF MonitoringSpec

\* A step that starts a failover call is an evaluation that sees both a down
\* and a healthy transport.
LEMMA NewCallsComeFromEvaluate ==
  ASSUME TypeOK, HealthStep,
         NEW d \in Transports, NEW h \in Transports,
         failoverCalls'[d][h] > failoverCalls[d][h]
  PROVE  d \in Down /\ h \in Healthy
<1>1. failoverCalls \in [Transports -> [Transports -> Nat]]
  BY DEF TypeOK
<1>2. ~UNCHANGED failoverCalls
  BY <1>1
<1>3. ASSUME NEW e \in Transports, NEW g \in Transports, TakeFailoverCall(e, g)
      PROVE  FALSE
  <2>1. failoverCalls'[d][h] = failoverCalls[d][h] \/ failoverCalls'[d][h] = failoverCalls[d][h] - 1
    BY <1>1, <1>3 DEF TakeFailoverCall
  <2>2. failoverCalls[d][h] \in Nat
    BY <1>1
  <2>3. QED
    BY <2>1, <2>2
<1>4. EvaluateStates
  BY <1>2, <1>3 DEF HealthStep, UpdateGood, UpdateBad
<1>5. PICK g \in Healthy : failoverCalls' = CallsTowards(g)
  BY <1>2, <1>4 DEF EvaluateStates
<1>6. QED
  BY <1>1, <1>5 DEF CallsTowards

\* The evaluator of the running system calls for a failover only while the
\* monitoring loop is half way through a round that found the host up again,
\* for every number of transports and every threshold of two or more.
THEOREM EvaluatorTheorem ==
  ASSUME MaxFailCount >= 2
  PROVE  MonitoringSpec => EvaluatorActsOnRecoveryOnly
<1>1. ASSUME RoundInv, HealthStep,
             NEW d \in Transports, NEW h \in Transports,
             failoverCalls'[d][h] > failoverCalls[d][h]
      PROVE  pc = "update" /\ ping.good
  <2>1. d \in Down /\ h \in Healthy
    BY <1>1, NewCallsComeFromEvaluate DEF RoundInv
  <2>2. /\ states[d].Status = "down" /\ states[h].Status = "healthy"
        /\ states[d] \in TransportState /\ states[h] \in TransportState
        /\ states[d].FailCount >= 2 /\ states[h].FailCount = 0
    BY <1>1, <2>1, ThresholdAssumption
       DEF RoundInv, TypeOK, StatusMatchesFailCount, Down, Healthy, TransportState,
           ThresholdAssumption
  <2>3. pc = "update"
    BY <1>1, <2>2 DEF RoundInv, RoundsAreUniform, Agree
  <2>4. ping.good
    BY <1>1, <2>2, <2>3 DEF RoundInv, RoundsAreUniform, Agree, TransportState
  <2>5. QED
    BY <2>3, <2>4
<1>2. RoundInv /\ [MonitoringNext]_mvars
        => [(\E d, h \in Transports : failoverCalls'[d][h] > failoverCalls[d][h])
              => pc = "update" /\ ping.good]_mvars
  BY <1>1, MonitoringStepIsEngineStep, NextIsHealthStep
<1>3. QED
  BY <1>2, RoundInit, RoundStep, PTL DEF MonitoringSpec, EvaluatorActsOnRecoveryOnly

\* The loop's local best stays a best path until the loop uses it, although
\* the callbacks may move current meanwhile: only the loop writes the paths.
BestInv == pc \in {"current", "switch"} => best \in BestPaths

\* Every switch of the monitoring loop goes to a path that no other beats.
THEOREM LoopSwitchTheorem == MonitoringSpec => LoopSwitchesToBest
<1>1. MonitoringInit => BestInv
  BY DEF MonitoringInit, BestInv
<1>2. BestInv /\ [MonitoringNext]_mvars => BestInv'
  <2> SUFFICES ASSUME BestInv, [MonitoringNext]_mvars PROVE BestInv'
    OBVIOUS
  <2>1. \/ UNCHANGED <<pc, best, paths>>
        \/ pc' \notin {"current", "switch"}
        \/ PickBest
        \/ ReadCurrent
    BY DEF MonitoringNext, BeginRound, EndMonitoring, ListReturns, SwitchToBest, CountSwitch, UpdateOne,
           StartEvaluator, EvaluatorStep, CallbackSwitch, CallbackCount, RecoverCallback,
           Shutdown, TunnelFails
  <2>2. QED
    BY <2>1 DEF BestInv, BestPaths, PickBest, ReadCurrent
<1>3. BestInv /\ [MonitoringNext]_mvars
        => [pc = "switch" /\ pc' = "count" => current' \in BestPaths]_mvars
  BY DEF BestInv, MonitoringNext, BeginRound, EndMonitoring, ListReturns, PickBest, ReadCurrent,
         SwitchToBest, CountSwitch, UpdateOne, StartEvaluator, EvaluatorStep, CallbackSwitch,
         CallbackCount, RecoverCallback, Shutdown, TunnelFails
<1>4. QED
  BY <1>1, <1>2, <1>3, PTL DEF MonitoringSpec, LoopSwitchesToBest

\* The recordings still owed: by callbacks, and by the loop for its last
\* switch, which it records twice.
Owed == counting + (IF pc = "count" THEN 2 ELSE IF pc = "recount" THEN 1 ELSE 0)

\* The inductive form of SwitchesAreCounted.  Once the switches have reached
\* the bound they are not counted further, and the upper bound is trivial.
CountInv ==
  /\ failoverCount \in 0 .. MaxCount
  /\ switches \in 0 .. MaxCount
  /\ counting \in Nat
  /\ switches <= failoverCount + Uncounted
  /\ switches = MaxCount \/ failoverCount + Owed <= 2 * switches

LEMMA CountInitInv == MonitoringInit => CountInv
  BY CountAssumption DEF MonitoringInit, CountInv, Uncounted, Owed, CountAssumption

LEMMA CountStep == CountInv /\ [MonitoringNext]_mvars => CountInv'
<1> SUFFICES ASSUME CountInv, [MonitoringNext]_mvars PROVE CountInv'
  OBVIOUS
<1> USE CountAssumption DEF CountAssumption, CountInv, Uncounted, Owed, Saturate
<1>1. CASE SwitchToBest
  BY <1>1 DEF SwitchToBest
<1>2. CASE CountSwitch
  BY <1>2 DEF CountSwitch
<1>3. ASSUME NEW d \in Transports, NEW h \in Transports, CallbackSwitch(d, h)
      PROVE  CountInv'
  <2>1. pc' = pc
    BY <1>3 DEF CallbackSwitch
  <2>2. QED
    BY <1>3, <2>1 DEF CallbackSwitch
<1>4. CASE CallbackCount
  BY <1>4 DEF CallbackCount
<1>5. CASE \/ BeginRound \/ EndMonitoring \/ ListReturns \/ PickBest \/ ReadCurrent
           \/ \E t \in Transports : UpdateOne(t)
  <2>1. /\ UNCHANGED <<failoverCount, counting, switches>>
        /\ pc \notin {"count", "recount"}
        /\ pc' \notin {"count", "recount"}
    BY <1>5 DEF BeginRound, EndMonitoring, ListReturns, PickBest, ReadCurrent, UpdateOne
  <2>2. QED
    BY <2>1
<1>6. CASE \/ \E l \in Loops : StartEvaluator(l) \/ EvaluatorStep(l)
           \/ \E t \in Transports : RecoverCallback(t)
           \/ Shutdown
           \/ \E t \in MayFail : TunnelFails(t)
           \/ UNCHANGED mvars
  <2>1. UNCHANGED <<pc, failoverCount, counting, switches>>
    BY <1>6 DEF StartEvaluator, EvaluatorStep, RecoverCallback, Shutdown, TunnelFails
  <2>2. QED
    BY <2>1
<1>7. QED
  BY <1>1, <1>2, <1>3, <1>4, <1>5, <1>6 DEF MonitoringNext

\* Every switch of the current path is recorded at least once, and no failover
\* is recorded more than twice, for every bound on the counters.
THEOREM SwitchesCountedTheorem == MonitoringSpec => []SwitchesAreCounted
<1>1. CountInv => SwitchesAreCounted
  BY CountAssumption DEF CountInv, SwitchesAreCounted, Owed, Uncounted, CountAssumption
<1>2. QED
  BY <1>1, CountInitInv, CountStep, PTL DEF MonitoringSpec

-----------------------------------------------------------------------------

\* The types of what the loop and the callbacks share.
RouteTypeOK ==
  /\ up \in BOOLEAN
  /\ best \in Transports
  /\ paths \in [Transports -> Nat \cup {NoScore}]
  /\ current \in Transports
  /\ failed \subseteq Transports /\ hanging \subseteq MayHang

\* A score is a natural number, whatever the ping found.
LEMMA ScoreIsNat ==
  ASSUME NEW p \in Pings, NEW q \in Qualities
  PROVE  Score(p, q) \in Nat
<1> USE ScoreAssumption DEF ScoreAssumption
<1>1. CASE p \in [lost : {FALSE}, good : BOOLEAN, base : Bases]
  <2>1. p.lost = FALSE /\ p.base \in Nat /\ q \in Nat
    BY <1>1
  <2>2. p.base + q \in Nat
    BY <2>1
  <2>3. QED
    BY <2>1, <2>2 DEF Score
<1>2. CASE p = [lost |-> TRUE, good |-> FALSE, base |-> 0]
  BY <1>2 DEF Score
<1>3. QED
  BY <1>1, <1>2 DEF Pings

LEMMA RouteTypeStep == RoundInv /\ RouteTypeOK /\ [MonitoringNext]_mvars => RouteTypeOK'
<1> SUFFICES ASSUME RoundInv, RouteTypeOK, [MonitoringNext]_mvars PROVE RouteTypeOK'
  OBVIOUS
<1>1. CASE BeginRound \/ EndMonitoring \/ ListReturns \/ ReadCurrent \/ CountSwitch \/ CallbackCount
           \/ UNCHANGED mvars
  BY <1>1 DEF RouteTypeOK, BeginRound, EndMonitoring, ListReturns, ReadCurrent, CountSwitch, CallbackCount
<1>2. CASE PickBest
  BY <1>2 DEF RouteTypeOK, PickBest, BestPaths
<1>3. CASE SwitchToBest
  BY <1>3 DEF RouteTypeOK, SwitchToBest
<1>4. ASSUME NEW t \in Transports, UpdateOne(t) PROVE RouteTypeOK'
  <2>1. PICK q \in Qualities : paths' = [paths EXCEPT ![t] = Score(ping, q)]
    BY <1>4 DEF UpdateOne
  <2>2. Score(ping, q) \in Nat
    BY ScoreIsNat DEF RoundInv, LoopTypeOK
  <2>3. UNCHANGED <<up, best, current, failed, hanging>>
    BY <1>4 DEF UpdateOne
  <2>4. QED
    BY <2>1, <2>2, <2>3 DEF RouteTypeOK
<1>5. ASSUME NEW d \in Transports, NEW h \in Transports, CallbackSwitch(d, h)
      PROVE  RouteTypeOK'
  BY <1>5 DEF RouteTypeOK, CallbackSwitch
<1>6. CASE \/ \E l \in Loops : StartEvaluator(l) \/ EvaluatorStep(l)
           \/ \E t \in Transports : RecoverCallback(t)
           \/ Shutdown
  BY <1>6 DEF RouteTypeOK, StartEvaluator, EvaluatorStep, RecoverCallback, Shutdown
<1>7. ASSUME NEW t \in MayFail, TunnelFails(t) PROVE RouteTypeOK'
  BY <1>7, MayFailAssumption DEF RouteTypeOK, TunnelFails, MayFailAssumption
<1>8. QED
  BY <1>1, <1>2, <1>3, <1>4, <1>5, <1>6, <1>7 DEF MonitoringNext

\* The loop, the evaluator and the callbacks keep every variable in its type, for
\* every set of transports and every scoring in the natural numbers.
THEOREM MonitoringTypeTheorem == MonitoringSpec => []MonitoringTypeOK
<1>1. MonitoringInit => RouteTypeOK
  BY PrimaryAssumption DEF MonitoringInit, RouteTypeOK, PrimaryAssumption
<1>2. RoundInv /\ RouteTypeOK /\ CountInv => MonitoringTypeOK
  BY DEF RoundInv, LoopTypeOK, RouteTypeOK, CountInv, MonitoringTypeOK
<1>3. QED
  BY <1>1, <1>2, RoundInit, RoundStep, RouteTypeStep, CountInitInv, CountStep, PTL
     DEF MonitoringSpec
=============================================================================
