---------------------------- MODULE ManagerProofs ----------------------------
(* Theorems about Manager, for every set of transports and every scoring.  *)
EXTENDS Manager, TLAPS

USE DEF probe, mvars, NoResult, Failed

TaskStates == {"none", "spawned", "skipped", "connecting", "scoring", "done"}
StatusSet  == {"inactive", "testing", "active", "failed"}

\* A goroutine's step changes only its own task, result and status, and of the
\* statuses it sets to active only that of a transport it then scores.
LEMMA TaskStepFrame ==
  ASSUME ManagerTypeOK, NEW t \in Transports, TaskStep(t)
  PROVE  /\ UNCHANGED <<lock, expired, allActive, active, direct, outside>>
         /\ ManagerTypeOK'
         /\ \A u \in Transports \ {t} :
              task'[u] = task[u] /\ result'[u] = result[u] /\ status'[u] = status[u]
         /\ task[t] \in {"spawned", "connecting", "scoring"}
<1>1. CASE TaskSkip(t)
  BY <1>1 DEF TaskSkip, ManagerTypeOK
<1>2. CASE TaskConnect(t)
  BY <1>2 DEF TaskConnect, ManagerTypeOK
<1>3. CASE TaskConnected(t)
  BY <1>3 DEF TaskConnected, ManagerTypeOK
<1>4. CASE TaskFailed(t)
  BY <1>4 DEF TaskFailed, ManagerTypeOK
<1>5. CASE TaskScored(t)
  BY <1>5, ManagerAssumption DEF TaskScored, ManagerTypeOK, ManagerAssumption
<1>6. QED
  BY <1>1, <1>2, <1>3, <1>4, <1>5 DEF TaskStep

LEMMA ManagerTypeInit == NewManager => ManagerTypeOK
  BY DEF NewManager, ManagerTypeOK

LEMMA CollectKeepsSubset == \A kept \in Selections : kept \subseteq Transports
  BY DEF Selections, Candidates, Top

LEMMA ManagerTypeStep == ManagerTypeOK /\ [ManagerNext]_mvars => ManagerTypeOK'
<1> SUFFICES ASSUME ManagerTypeOK, [ManagerNext]_mvars PROVE ManagerTypeOK'
  OBVIOUS
<1>1. CASE ConnectAll
  BY <1>1 DEF ConnectAll, ManagerTypeOK
<1>2. CASE Expire
  BY <1>2 DEF Expire, ManagerTypeOK
<1>3. CASE Collect
  <2>1. active' \subseteq Transports /\ outside' \subseteq Transports
    BY <1>3, CollectKeepsSubset DEF Collect, ManagerTypeOK
  <2>2. status' \in [Transports -> StatusSet]
    BY <1>3 DEF Collect, ManagerTypeOK, StatusSet
  <2>3. QED
    BY <1>3, <2>1, <2>2 DEF Collect, ManagerTypeOK, StatusSet
<1>4. ASSUME NEW t \in Transports, TaskStep(t) PROVE ManagerTypeOK'
  BY <1>4, TaskStepFrame
<1>5. CASE SetAllActive
  BY <1>5 DEF SetAllActive, ManagerTypeOK
<1>6. CASE DisconnectAll
  BY <1>6 DEF DisconnectAll, ManagerTypeOK
<1>7. ASSUME NEW t \in ByHand, Activate(t) \/ Deactivate(t) PROVE ManagerTypeOK'
  BY <1>7 DEF Activate, Deactivate, ManagerTypeOK
<1>8. CASE DirectConnect
  BY <1>8 DEF DirectConnect, ManagerTypeOK
<1>9. CASE DirectReturn
  BY <1>9, ManagerAssumption DEF DirectReturn, ManagerTypeOK, ManagerAssumption
<1>10. CASE UNCHANGED mvars
  BY <1>10 DEF ManagerTypeOK
<1>11. QED
  BY <1>1, <1>2, <1>3, <1>4, <1>5, <1>6, <1>7, <1>8, <1>9, <1>10 DEF ManagerNext

\* The manager's variables keep their types, and its 30 s context lives no
\* longer than the ConnectAll that made it.
THEOREM ManagerTypeCorrect == ManagerSpec => []ManagerTypeOK
  BY ManagerTypeInit, ManagerTypeStep, PTL DEF ManagerSpec

------------------------------------------------------------------------------
\* A goroutine that has opened a connection nobody answers for yet: ConnectAll
\* will see its result, and decide.
Undecided(t) == task[t] = "scoring" \/ (task[t] = "done" /\ result[t] >= 0)

\* The inductive form of NoOrphans: while ConnectAll runs, the transports that
\* are up and that nobody answers for are exactly among the undecided ones.
OrphanInv ==
  /\ \A t \in Transports : status[t] = "active" => t \in active \cup outside \/ Undecided(t)
  /\ \A t \in Transports : lock = "free" => task[t] = "none"

LEMMA OrphanInit == NewManager => OrphanInv
  BY DEF NewManager, OrphanInv

LEMMA OrphanTaskStep ==
  ASSUME ManagerTypeOK, OrphanInv, NEW t \in Transports, TaskStep(t)
  PROVE  OrphanInv'
<1>1. \A u \in Transports \ {t} : Undecided(u)' <=> Undecided(u)
  BY TaskStepFrame DEF Undecided
<1>2. lock' = lock /\ lock # "free"
  BY TaskStepFrame DEF OrphanInv, ManagerTypeOK
<1>3. status'[t] = "active" => t \in active' \cup outside' \/ Undecided(t)'
  <2>1. CASE TaskSkip(t)
    BY <2>1 DEF TaskSkip, OrphanInv, Undecided, ManagerTypeOK
  <2>2. CASE TaskConnect(t)
    BY <2>2 DEF TaskConnect, ManagerTypeOK
  <2>3. CASE TaskConnected(t)
    BY <2>3 DEF TaskConnected, Undecided, ManagerTypeOK
  <2>4. CASE TaskFailed(t)
    BY <2>4 DEF TaskFailed, ManagerTypeOK
  <2>5. CASE TaskScored(t)
    BY <2>5, ManagerAssumption DEF TaskScored, Undecided, ManagerTypeOK, ManagerAssumption
  <2>6. QED
    BY <2>1, <2>2, <2>3, <2>4, <2>5 DEF TaskStep
<1>4. QED
  BY <1>1, <1>2, <1>3, TaskStepFrame DEF OrphanInv

\* When ConnectAll collects, an undecided transport is a candidate, and a
\* candidate is either kept, so active, or disconnected.
LEMMA OrphanCollect ==
  ASSUME ManagerTypeOK, OrphanInv, Collect
  PROVE  OrphanInv'
<1>1. PICK kept \in Selections :
        /\ active' = active \cup kept
        /\ status' = [t \in Transports |-> IF t \in Dropped(kept) THEN "inactive" ELSE status[t]]
        /\ outside' = outside \ Dropped(kept)
  BY DEF Collect
<1>2. ASSUME NEW t \in Transports, status'[t] = "active"
      PROVE  t \in active' \cup outside'
  <2>1. t \notin Dropped(kept) /\ status[t] = "active"
    BY <1>1, <1>2
  <2>2. CASE t \in active \cup outside
    BY <1>1, <2>1, <2>2
  <2>3. CASE Undecided(t)
    <3>1. t \in Candidates
      BY <2>3 DEF Collect, AllReturned, Undecided, Candidates
    <3>2. t \in kept
      BY <2>1, <3>1 DEF Dropped
    <3>3. QED
      BY <1>1, <3>2
  <2>4. QED
    BY <2>1, <2>2, <2>3 DEF OrphanInv
<1>3. \A t \in Transports : task'[t] = "none"
  BY DEF Collect
<1>4. QED
  BY <1>2, <1>3 DEF OrphanInv

LEMMA OrphanStep == ManagerTypeOK /\ OrphanInv /\ [ManagerNext]_mvars => OrphanInv'
<1> SUFFICES ASSUME ManagerTypeOK, OrphanInv, [ManagerNext]_mvars PROVE OrphanInv'
  OBVIOUS
<1>1. CASE ConnectAll
  <2>1. \A t \in Transports : ~Undecided(t)
    BY <1>1 DEF ConnectAll, OrphanInv, Undecided
  <2>2. QED
    BY <1>1, <2>1 DEF ConnectAll, OrphanInv
<1>2. CASE Expire \/ SetAllActive \/ UNCHANGED mvars
  BY <1>2 DEF Expire, SetAllActive, OrphanInv, Undecided
<1>3. CASE Collect
  BY <1>3, OrphanCollect
<1>4. ASSUME NEW t \in Transports, TaskStep(t) PROVE OrphanInv'
  BY <1>4, OrphanTaskStep
<1>5. CASE DisconnectAll
  BY <1>5 DEF DisconnectAll, OrphanInv, Undecided
<1>6. ASSUME NEW t \in ByHand, Activate(t) \/ Deactivate(t) PROVE OrphanInv'
  BY <1>6 DEF Activate, Deactivate, OrphanInv, Undecided
<1>7. CASE DirectConnect
  BY <1>7 DEF DirectConnect, OrphanInv, Undecided, ManagerTypeOK
<1>8. CASE DirectReturn
  BY <1>8 DEF DirectReturn, OrphanInv, Undecided, ManagerTypeOK
<1>9. QED
  BY <1>1, <1>2, <1>3, <1>4, <1>5, <1>6, <1>7, <1>8 DEF ManagerNext

\* Whatever fails, is skipped or races it, ConnectAll leaves no connection
\* open that nobody answers for: for any number of transports.
THEOREM NoOrphansTheorem == ManagerSpec => []NoOrphans
<1>1. OrphanInv => NoOrphans
  BY DEF OrphanInv, NoOrphans, Undecided
<1>2. QED
  BY <1>1, ManagerTypeInit, ManagerTypeStep, OrphanInit, OrphanStep, PTL DEF ManagerSpec

\* In best mode only a transport that no other beats stays up of those that
\* answered.
THEOREM BestModeTheorem == ManagerSpec => BestModeKeepsBest
<1>1. ManagerTypeOK /\ [ManagerNext]_mvars =>
        [(lock = "connecting" /\ lock' = "free" /\ ~allActive) =>
           \A t \in Candidates : status'[t] = "active" => t \in Top]_mvars
  <2> SUFFICES ASSUME ManagerTypeOK, [ManagerNext]_mvars,
                      lock = "connecting", lock' = "free", ~allActive,
                      NEW t \in Candidates, status'[t] = "active"
               PROVE  t \in Top
    OBVIOUS
  <2>1. Collect
    BY TaskStepFrame
       DEF ManagerNext, ConnectAll, Expire, SetAllActive, DisconnectAll, Activate, Deactivate,
           DirectConnect, DirectReturn
  <2>2. PICK kept \in Selections :
          status' = [u \in Transports |-> IF u \in Dropped(kept) THEN "inactive" ELSE status[u]]
    BY <2>1 DEF Collect
  <2>3. t \in Transports /\ t \notin Dropped(kept)
    BY <2>2 DEF Candidates
  <2>4. t \in kept
    BY <2>3 DEF Dropped
  <2>5. QED
    BY <2>4 DEF Selections
<1>2. QED
  BY <1>1, ManagerTypeInit, ManagerTypeStep, PTL DEF ManagerSpec, BestModeKeepsBest
==============================================================================
