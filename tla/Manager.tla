------------------------------- MODULE Manager -------------------------------
(***************************************************************************)
(* The transport manager, src/internal/transport/manager.go.               *)
(*                                                                         *)
(* ConnectAll tries every registered transport in a goroutine of its own   *)
(* and keeps all that answered, or the best one.  It holds m.mu from its   *)
(* first line to its return, so every other method waits for it.  Its 30 s *)
(* context is looked at once by each goroutine, before it calls Connect;   *)
(* nothing interrupts a Connect or a Score that does not return.           *)
(*                                                                         *)
(* ConnectToRemote (src/internal/orchestrator/connect.go) takes wireguard  *)
(* out of the manager with Get and calls Connect on it without the lock.   *)
(*                                                                         *)
(* A transport is its status: what Connect and Disconnect do to it is      *)
(* BaseConnectInit and BaseDisconnect of base.go.  All transports are      *)
(* registered before the model starts; weights are not modelled here.      *)
(***************************************************************************)
EXTENDS Integers

CONSTANTS
  Transports,   \* the registered transports
  Primary,      \* the one ConnectToRemote connects directly
  Scores,       \* what Score may return
  ByHand,       \* the transports a caller may Activate or Deactivate
  MayHang       \* transports whose Score does not return

ASSUME ManagerAssumption == Primary \in Transports /\ Scores \subseteq Nat

VARIABLES
  lock,         \* m.mu: "free", or "connecting" while ConnectAll holds it
  task,         \* the goroutine of each transport
  result,       \* what each goroutine has sent on resultChan
  expired,      \* the 30 s context is done
  allActive,    \* m.allActive
  active,       \* m.active
  status,       \* the status of each transport
  direct,       \* a Connect by ConnectToRemote is under way
  outside       \* ghost: transports the manager was never given to disconnect

probe == <<lock, task, result, expired>>
mvars == <<probe, allActive, active, status, direct, outside>>

NoResult == -2
Failed   == -1

ManagerTypeOK ==
  /\ lock \in {"free", "connecting"}
  /\ task \in [Transports -> {"none", "spawned", "skipped", "connecting", "scoring", "done"}]
  /\ result \in [Transports -> Nat \cup {NoResult, Failed}]
  /\ expired \in BOOLEAN
  /\ expired => lock = "connecting"
  /\ allActive \in BOOLEAN
  /\ active \subseteq Transports
  /\ status \in [Transports -> {"inactive", "testing", "active", "failed"}]
  /\ direct \in BOOLEAN
  /\ outside \subseteq Transports

NewManager ==
  /\ lock = "free"
  /\ task = [t \in Transports |-> "none"]
  /\ result = [t \in Transports |-> NoResult]
  /\ expired = FALSE
  /\ allActive \in BOOLEAN
  /\ active = {}
  /\ status = [t \in Transports |-> "inactive"]
  /\ direct = FALSE
  /\ outside = {}

------------------------------------------------------------------------------
(* ConnectAll.                                                             *)

\* The lock is taken and one goroutine per transport is spawned.
ConnectAll ==
  /\ lock = "free"
  /\ lock' = "connecting"
  /\ task' = [t \in Transports |-> "spawned"]
  /\ UNCHANGED <<result, expired, allActive, active, status, direct, outside>>

\* Mutant of Expire: the context outlives its ConnectAll.
ExpireAnytime ==
  /\ ~expired
  /\ expired' = TRUE
  /\ UNCHANGED <<lock, task, result, allActive, active, status, direct, outside>>

Expire ==
  /\ lock = "connecting"
  /\ ~expired
  /\ expired' = TRUE
  /\ UNCHANGED <<lock, task, result, allActive, active, status, direct, outside>>

\* A goroutine that starts late sends nothing at all.
TaskSkip(t) ==
  /\ task[t] = "spawned"
  /\ expired
  /\ task' = [task EXCEPT ![t] = "skipped"]
  /\ UNCHANGED <<lock, result, expired, allActive, active, status, direct, outside>>

TaskConnect(t) ==
  /\ task[t] = "spawned"
  /\ ~expired
  /\ task' = [task EXCEPT ![t] = "connecting"]
  /\ status' = [status EXCEPT ![t] = "testing"]
  /\ UNCHANGED <<lock, result, expired, allActive, active, direct, outside>>

TaskConnected(t) ==
  /\ task[t] = "connecting"
  /\ task' = [task EXCEPT ![t] = "scoring"]
  /\ status' = [status EXCEPT ![t] = "active"]
  /\ UNCHANGED <<lock, result, expired, allActive, active, direct, outside>>

TaskFailed(t) ==
  /\ task[t] = "connecting"
  /\ task' = [task EXCEPT ![t] = "done"]
  /\ result' = [result EXCEPT ![t] = Failed]
  /\ status' = [status EXCEPT ![t] = "failed"]
  /\ UNCHANGED <<lock, expired, allActive, active, direct, outside>>

TaskScored(t) ==
  /\ task[t] = "scoring"
  /\ t \notin MayHang
  /\ task' = [task EXCEPT ![t] = "done"]
  /\ \E s \in Scores : result' = [result EXCEPT ![t] = s]
  /\ UNCHANGED <<lock, expired, allActive, active, status, direct, outside>>

\* Mutant of AllReturned: one result per transport is awaited.
AllAnswered == \A t \in Transports : result[t] # NoResult

\* g.Wait: every goroutine has returned, with or without a result.
AllReturned == \A t \in Transports : task[t] \in {"skipped", "done"}

Failures   == {t \in Transports : result[t] = Failed}
Candidates == {t \in Transports : result[t] >= 0}
Top        == {b \in Candidates : \A t \in Candidates : result[t] <= result[b]}

\* Mutant of Selections: the first to answer is kept, the results unsorted.
SelectionsUnsorted ==
  IF allActive \/ Candidates = {} THEN {Candidates} ELSE {{b} : b \in Candidates}

\* What may be kept: everything, or one of the best (the sort is not stable).
Selections == IF allActive \/ Candidates = {} THEN {Candidates} ELSE {{b} : b \in Top}

\* Mutant of Dropped: what answered and is not kept stays connected.
DroppedFailures(kept) == Failures

\* What is disconnected: what failed, and what answered and is not kept.
Dropped(kept) == Failures \cup (Candidates \ kept)

\* After g.Wait, still under the lock.  active is only ever added to; with no
\* candidate at all nothing is kept and ConnectAll returns an error.
Collect ==
  /\ lock = "connecting"
  /\ AllReturned
  /\ \E kept \in Selections :
       /\ active' = active \cup kept
       /\ status' = [t \in Transports |-> IF t \in Dropped(kept) THEN "inactive" ELSE status[t]]
       /\ outside' = outside \ Dropped(kept)
  /\ lock' = "free"
  /\ expired' = FALSE
  /\ task' = [t \in Transports |-> "none"]
  /\ result' = [t \in Transports |-> NoResult]
  /\ UNCHANGED <<allActive, direct>>

------------------------------------------------------------------------------
(* The other methods, each one step under the lock.                        *)

SetAllActive ==
  /\ lock = "free"
  /\ allActive' = ~allActive
  /\ UNCHANGED <<probe, active, status, direct, outside>>

Activate(t) ==
  /\ lock = "free"
  /\ t \in Transports
  /\ active' = active \cup {t}
  /\ UNCHANGED <<probe, allActive, status, direct, outside>>

\* The transport stays connected; it is the caller's from now on.
Deactivate(t) ==
  /\ lock = "free"
  /\ t \in active
  /\ active' = active \ {t}
  /\ outside' = outside \cup {t}
  /\ UNCHANGED <<probe, allActive, status, direct>>

\* Only the transports in active are disconnected.
DisconnectAll ==
  /\ lock = "free"
  /\ active' = {}
  /\ status' = [t \in Transports |-> IF t \in active THEN "inactive" ELSE status[t]]
  /\ outside' = outside \ active
  /\ UNCHANGED <<probe, allActive, direct>>

------------------------------------------------------------------------------
(* ConnectToRemote's own Connect of wireguard.                             *)

\* Get needs the lock; Connect runs without it.
DirectConnect ==
  /\ lock = "free"
  /\ ~direct
  /\ direct' = TRUE
  /\ status' = [status EXCEPT ![Primary] = "testing"]
  /\ UNCHANGED <<probe, allActive, active, outside>>

\* The connected transport is not entered in active; a failed one is left as
\* it is.
DirectReturn ==
  /\ direct
  /\ direct' = FALSE
  /\ \/ /\ status' = [status EXCEPT ![Primary] = "active"]
        /\ outside' = outside \cup {Primary}
     \/ /\ status' = [status EXCEPT ![Primary] = "failed"]
        /\ UNCHANGED outside
  /\ UNCHANGED <<probe, allActive, active>>

------------------------------------------------------------------------------
TaskStep(t) ==
  TaskSkip(t) \/ TaskConnect(t) \/ TaskConnected(t) \/ TaskFailed(t) \/ TaskScored(t)

ManagerNext ==
  \/ ConnectAll \/ Expire \/ Collect
  \/ \E t \in Transports : TaskStep(t)
  \/ SetAllActive \/ DisconnectAll
  \/ \E t \in ByHand : Activate(t) \/ Deactivate(t)
  \/ DirectConnect \/ DirectReturn

ManagerSpec == NewManager /\ [][ManagerNext]_mvars

\* Goroutines that can run do, and the 30 s pass; that anybody calls a method
\* of the manager is not owed.
ManagerFairness ==
  /\ \A t \in Transports : WF_mvars(TaskStep(t))
  /\ WF_mvars(Collect)
  /\ WF_mvars(lock = "connecting" /\ Expire)

FairManagerSpec == ManagerSpec /\ ManagerFairness

------------------------------------------------------------------------------
(* Properties.                                                             *)

\* No orphans: outside ConnectAll, a transport that is up is one the manager
\* will disconnect, or one that was connected past it or taken from it.
\* ConnectAll opens connections in many goroutines and decides later which to
\* keep: whatever fails or is skipped, none is left open and forgotten.
NoOrphans ==
  lock = "free" => \A t \in Transports :
                     status[t] = "active" => t \in active \cup outside

\* In best mode ConnectAll leaves up, of those that answered, only one that no
\* other beats (a Connect past the manager may race it for Primary).
BestModeKeepsBest ==
  [][(lock = "connecting" /\ lock' = "free" /\ ~allActive) =>
        \A t \in Candidates : status'[t] = "active" => t \in Top]_mvars

\* ConnectAll returns and gives the lock back.
ConnectAllReturns == (lock = "connecting") ~> (lock = "free")
==============================================================================
