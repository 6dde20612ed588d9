--------------------------- MODULE FailoverProofs ----------------------------
(* Theorems about Failover, for every set of transports, every threshold   *)
(* and every bound.                                                        *)
EXTENDS Failover, TLAPS

USE DEF healthVars, lifecycleVars, vars

\* What a step may do to the health part of the state: nothing, one of the
\* two halves of Update, one evaluation, or one callback running.  Every
\* other action leaves it alone.
HealthStep ==
  \/ UNCHANGED healthVars
  \/ \E t \in Transports : UpdateGood(t) \/ UpdateBad(t)
  \/ EvaluateStates /\ UNCHANGED <<states, recoverCalls>>
  \/ \E d, h \in Transports : TakeFailoverCall(d, h) /\ UNCHANGED <<states, recoverCalls>>
  \/ \E t \in Transports :
       /\ recoverCalls[t] > 0
       /\ recoverCalls' = [recoverCalls EXCEPT ![t] = recoverCalls[t] - 1]
       /\ UNCHANGED <<states, failoverCalls>>

\* Each action of the engine (failover.go) is one of those health steps.
LEMMA NextIsHealthStep == [Next]_vars => HealthStep
<1> SUFFICES ASSUME [Next]_vars PROVE HealthStep
  OBVIOUS
<1>1. CASE OnFailover \/ OnRecover \/ Stop \/ UNCHANGED vars
  BY <1>1 DEF OnFailover, OnRecover, Stop, HealthStep
<1>2. CASE \E l \in Loops : Start(l) \/ LoopExit(l)
  BY <1>2 DEF Start, LoopExit, HealthStep
<1>3. CASE \E l \in Loops : Evaluate(l)
  BY <1>3 DEF Evaluate, HealthStep
<1>4. CASE \E t \in Transports, good \in BOOLEAN : Update(t, good)
  BY <1>4 DEF Update, HealthStep
<1>5. CASE \E d, h \in Transports : RunFailoverCall(d, h)
  BY <1>5 DEF RunFailoverCall, HealthStep
<1>6. CASE \E t \in Transports : RunRecoverCall(t)
  BY <1>6 DEF RunRecoverCall, HealthStep
<1>7. QED
  BY <1>1, <1>2, <1>3, <1>4, <1>5, <1>6 DEF Next

\* The part of TypeOK about the health variables.
HealthTypeOK ==
  /\ states \in [Transports -> TransportState]
  /\ failoverCalls \in [Transports -> [Transports -> Nat]]
  /\ recoverCalls \in [Transports -> Nat]

\* Health steps keep the health variables well typed.
LEMMA HealthTypes == HealthTypeOK /\ HealthStep => HealthTypeOK'
<1> SUFFICES ASSUME HealthTypeOK, HealthStep PROVE HealthTypeOK'
  OBVIOUS
<1>1. CASE UNCHANGED healthVars
  BY <1>1 DEF HealthTypeOK
<1>2. ASSUME NEW t \in Transports, UpdateGood(t) PROVE HealthTypeOK'
  BY <1>2 DEF HealthTypeOK, UpdateGood, Entry, NewEntry, Absent, TransportState, Statuses
<1>3. ASSUME NEW t \in Transports, UpdateBad(t) PROVE HealthTypeOK'
  BY <1>3 DEF HealthTypeOK, UpdateBad, Entry, NewEntry, Absent, TransportState, Statuses
<1>4. CASE EvaluateStates /\ UNCHANGED <<states, recoverCalls>>
  BY <1>4 DEF HealthTypeOK, EvaluateStates, CallsTowards
<1>5. ASSUME NEW d \in Transports, NEW h \in Transports,
             TakeFailoverCall(d, h), UNCHANGED <<states, recoverCalls>>
      PROVE  HealthTypeOK'
  BY <1>5 DEF HealthTypeOK, TakeFailoverCall
<1>6. ASSUME NEW t \in Transports, recoverCalls[t] > 0,
             recoverCalls' = [recoverCalls EXCEPT ![t] = recoverCalls[t] - 1],
             UNCHANGED <<states, failoverCalls>>
      PROVE  HealthTypeOK'
  BY <1>6 DEF HealthTypeOK
<1>7. QED
  BY <1>1, <1>2, <1>3, <1>4, <1>5, <1>6 DEF HealthStep

\* A step of the engine keeps every variable's type.
LEMMA TypeStep == TypeOK /\ [Next]_vars => TypeOK'
<1> SUFFICES ASSUME TypeOK, [Next]_vars PROVE TypeOK'
  OBVIOUS
<1>1. HealthTypeOK'
  BY NextIsHealthStep, HealthTypes DEF TypeOK, HealthTypeOK
<1>2. (/\ onFailoverCb \in BOOLEAN
       /\ onRecoverCb \in BOOLEAN
       /\ running \in BOOLEAN
       /\ stopCh \in {"open", "closed"}
       /\ loops \in [Loops -> {"unborn", "select", "last", "done"}]
       /\ panicked \in BOOLEAN)'
  BY DEF TypeOK, Next, OnFailover, OnRecover, Start, Stop, Evaluate, LoopExit,
         Selecting, Update, RunFailoverCall, RunRecoverCall
<1>3. QED
  BY <1>1, <1>2 DEF TypeOK, HealthTypeOK

\* Every variable of failover.go's Failover keeps its type.
THEOREM TypeCorrect == Spec => []TypeOK
<1>1. Init => TypeOK
  <2> SUFFICES ASSUME Init PROVE TypeOK
    OBVIOUS
  <2>1. Absent \in TransportState
    BY DEF Absent, TransportState, Statuses
  <2>2. HealthTypeOK
    BY <2>1 DEF Init, NewFailover, HealthTypeOK
  <2>3. QED
    BY <2>2 DEF Init, NewFailover, TypeOK, HealthTypeOK
<1>2. QED
  BY <1>1, TypeStep, PTL DEF Spec

\* One health step keeps the agreement of Status and FailCount: the evaluator
\* and the callbacks do not touch it, Update re-establishes it for the one
\* transport it writes.
LEMMA HealthStepKeepsStatus ==
  HealthTypeOK /\ StatusMatchesFailCount /\ HealthStep => StatusMatchesFailCount'
<1> SUFFICES ASSUME HealthTypeOK, StatusMatchesFailCount, HealthStep
             PROVE  StatusMatchesFailCount'
  OBVIOUS
<1>1. CASE UNCHANGED states
  BY <1>1 DEF StatusMatchesFailCount
<1>2. ASSUME NEW t \in Transports, UpdateGood(t) PROVE StatusMatchesFailCount'
  BY <1>2, ThresholdAssumption
     DEF StatusMatchesFailCount, HealthTypeOK, UpdateGood, Entry, NewEntry, Absent,
         TransportState, Statuses
<1>3. ASSUME NEW t \in Transports, UpdateBad(t) PROVE StatusMatchesFailCount'
  BY <1>3, ThresholdAssumption
     DEF StatusMatchesFailCount, HealthTypeOK, UpdateBad, Entry, NewEntry, Absent,
         TransportState, Statuses
<1>4. QED
  BY <1>1, <1>2, <1>3 DEF HealthStep

\* A step of the engine keeps the agreement.
LEMMA StatusStep == TypeOK /\ StatusMatchesFailCount /\ [Next]_vars => StatusMatchesFailCount'
BY NextIsHealthStep, HealthStepKeepsStatus DEF TypeOK, HealthTypeOK

\* Status and FailCount, which Update (failover.go) stores and resets
\* separately, always agree, for every threshold.
THEOREM StatusAgreement == Spec => []StatusMatchesFailCount
<1>1. Init => StatusMatchesFailCount
  <2> SUFFICES ASSUME Init, NEW t \in Transports
               PROVE  /\ states[t].Status \in {"absent", "healthy"} <=> states[t].FailCount = 0
                      /\ states[t].Status = "down" <=> states[t].FailCount >= MaxFailCount
    BY DEF StatusMatchesFailCount
  <2>1. states[t].Status = "absent" /\ states[t].FailCount = 0
    BY DEF Init, NewFailover, Absent
  <2>2. QED
    BY <2>1, ThresholdAssumption DEF ThresholdAssumption
<1>2. QED
  BY <1>1, StatusStep, TypeCorrect, PTL DEF Spec

\* A recover callback is started exactly when an outage of a transport ends.
THEOREM RecoverTheorem == Spec => OneRecoverPerOutage
<1> DEFINE Ended(t) == states[t].Status \in {"degraded", "down"}
                       /\ states'[t].Status = "healthy"
           Reported == \A t \in Transports :
                         (recoverCalls'[t] > recoverCalls[t]) <=> (Ended(t) /\ onRecoverCb)
<1>1. TypeOK /\ StatusMatchesFailCount /\ [Next]_vars => Reported
  <2> SUFFICES ASSUME TypeOK, StatusMatchesFailCount, HealthStep PROVE Reported
    BY NextIsHealthStep
  <2>1. CASE UNCHANGED <<states, recoverCalls>>
    BY <2>1 DEF TypeOK
  <2>2. ASSUME NEW u \in Transports, UpdateGood(u) PROVE Reported
    BY <2>2, ThresholdAssumption
       DEF TypeOK, StatusMatchesFailCount, UpdateGood, Entry, NewEntry, Absent,
           TransportState, Statuses
  <2>3. ASSUME NEW u \in Transports, UpdateBad(u) PROVE Reported
    BY <2>3 DEF TypeOK, UpdateBad, TransportState, Statuses
  <2>4. ASSUME NEW u \in Transports, recoverCalls[u] > 0,
               recoverCalls' = [recoverCalls EXCEPT ![u] = recoverCalls[u] - 1],
               UNCHANGED states
        PROVE  Reported
    BY <2>4 DEF TypeOK
  <2>5. QED
    BY <2>1, <2>2, <2>3, <2>4 DEF HealthStep
<1>2. QED
  BY <1>1, TypeCorrect, StatusAgreement, PTL DEF Spec, OneRecoverPerOutage

\* The engine implements the abstract failure detector: every health step is
\* a step of the detector on the mapped state, or changes nothing it can see.
THEOREM ImplementsDetectorTheorem == Spec => ImplementsDetector
<1>1. Init => Detector!Init
  BY DEF Init, NewFailover, Absent, Detector!Init
<1>2. /\ TypeOK /\ StatusMatchesFailCount
      /\ [Next]_vars
      => [Detector!Next]_(Detector!vars)
  <2> SUFFICES ASSUME TypeOK, StatusMatchesFailCount, HealthStep
               PROVE  Detector!Next \/ UNCHANGED Detector!vars
    BY NextIsHealthStep
  <2> USE DEF Detector!vars
  <2>1. CASE UNCHANGED <<states, failoverCalls>>
    BY <2>1
  <2>2. ASSUME NEW t \in Transports, UpdateGood(t) PROVE Detector!Answer(t)
    BY <2>2 DEF TypeOK, StatusMatchesFailCount, UpdateGood, Entry, NewEntry, Absent,
                TransportState, Statuses, Detector!Answer
  <2>3. ASSUME NEW t \in Transports, UpdateBad(t) PROVE Detector!Miss(t)
    <3>1. /\ states'[t].Status # "absent"
          /\ states'[t].FailCount = states[t].FailCount + 1
          /\ \A u \in Transports \ {t} : states'[u] = states[u]
      BY <2>3 DEF TypeOK, UpdateBad, Entry, NewEntry, Absent, TransportState, Statuses
    <3>2. QED
      BY <2>3, <3>1 DEF TypeOK, UpdateBad, TransportState, Detector!Miss
  <2>4. ASSUME EvaluateStates, UNCHANGED states
        PROVE  (\E h \in Transports : Detector!Announce(h)) \/ UNCHANGED Detector!vars
    <3>1. /\ Healthy = Detector!Trusted
          /\ Down = Detector!Suspected
      BY ThresholdAssumption
         DEF TypeOK, StatusMatchesFailCount, Healthy, Down, Detector!Trusted,
             Detector!Suspected, TransportState, Statuses
    <3>2. CASE onFailoverCb /\ Down # {} /\ Healthy # {}
      <4>1. PICK h \in Healthy : failoverCalls' = CallsTowards(h)
        BY <2>4, <3>2 DEF EvaluateStates
      <4>2. Detector!Announce(h)
        BY <2>4, <3>1, <3>2, <4>1 DEF CallsTowards, Detector!Announce
      <4>3. QED
        BY <4>2 DEF Healthy
    <3>3. CASE ~(onFailoverCb /\ Down # {} /\ Healthy # {})
      BY <2>4, <3>3 DEF EvaluateStates
    <3>4. QED
      BY <3>2, <3>3
  <2>5. ASSUME NEW d \in Transports, NEW h \in Transports,
               TakeFailoverCall(d, h), UNCHANGED states
        PROVE  Detector!Deliver(d, h)
    BY <2>5 DEF TakeFailoverCall, Detector!Deliver
  <2>6. QED
    BY <2>1, <2>2, <2>3, <2>4, <2>5 DEF HealthStep, Detector!Next
<1>3. QED
  BY <1>1, <1>2, TypeCorrect, StatusAgreement, PTL
     DEF Spec, ImplementsDetector, Detector!Spec
==============================================================================
