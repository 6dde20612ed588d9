---------------------------- MODULE TunnelProofs -----------------------------
(***************************************************************************)
(* Theorems about TunnelProcess, for any number of calls of Connect.       *)
(*                                                                         *)
(* Two facts carry them.  BaseConnectInit cancels the context that         *)
(* CancelContext has just made, so that whatever Connect leaves behind     *)
(* finds its context done (LeftBehindIsCancelled): no goroutine starts a   *)
(* program or reports one.  Therefore only the current command can have a  *)
(* running process, and KillOldProcess, which kills the current command    *)
(* only, leaves none (OnlyCurrentRuns, NoneRunsNow).                       *)
(***************************************************************************)
EXTENDS TunnelProcess, TLAPS

\* Once BaseConnectInit has begun, the context of the Connect under way is done.
InConnect == pc \in {"init", "choose", "launch", "activate", "arm"}

LeftBehindIsCancelled ==
  /\ InConnect => n \in cancelled
  /\ background \subseteq cancelled
  /\ waiters \subseteq cancelled

\* From SetCmd on, the command is the one of the latest Connect.
CommandIsLatest == pc \in {"launch", "arm"} => cmd = n

OnlyCurrentRuns == \A i \in Commands : proc[i] = "running" => i = cmd

\* Where the code relies on there being no process.
NoneRunsHere ==
  \/ pc \in {"killExisting", "init", "choose", "launch", "inactive"}
  \/ status = "inactive" /\ pc \in {"idle", "killOld", "dropCmd"}

NoneRunsNow == NoneRunsHere => \A i \in Commands : proc[i] # "running"

\* A Connect past its first steps has counted itself.
ConnectCounted == pc \in {"killOld", "killExisting", "init", "choose", "launch", "activate", "arm"}
                     => n \in Commands

ArmedIsStarted == pc = "arm" => proc[n] # "none"

ProcessInv ==
  /\ ProcessTypeOK
  /\ LeftBehindIsCancelled
  /\ CommandIsLatest
  /\ ConnectCounted
  /\ ArmedIsStarted
  /\ OnlyCurrentRuns
  /\ NoneRunsNow

USE DEF Contexts, Commands, Killed

\* A new transport (NewBase) has no context done, no command and no process.
LEMMA ProcessInvInit == NewBase => ProcessInv
  BY ProcessAssumption DEF ProcessAssumption, NewBase, ProcessInv, ProcessTypeOK,
     LeftBehindIsCancelled, InConnect, CommandIsLatest, ConnectCounted, ArmedIsStarted,
     OnlyCurrentRuns, NoneRunsNow, NoneRunsHere

\* KillOldProcess leaves no process running, whichever call it is part of: it
\* kills the current command, and no other can be running.
LEMMA KillOldProcessKills ==
  ASSUME ProcessTypeOK, OnlyCurrentRuns, NEW next, KillOldProcess(next)
  PROVE  /\ \A i \in Commands : proc'[i] # "running"
         /\ \A i \in Commands : proc'[i] = "none" <=> proc[i] = "none"
         /\ proc' \in [Commands -> {"none", "running", "dead"}]
         /\ cmd' \in Contexts
<1> USE ProcessAssumption DEF ProcessAssumption
<1>1. CASE cmd # 0 /\ proc[cmd] # "none"
  <2>1. cmd \in Commands
    BY <1>1 DEF ProcessTypeOK
  <2>2. proc' = [proc EXCEPT ![cmd] = "dead"] /\ cmd' = 0
    BY <1>1 DEF KillOldProcess
  <2>3. QED
    BY <1>1, <2>1, <2>2 DEF ProcessTypeOK, OnlyCurrentRuns
<1>2. CASE cmd = 0 \/ proc[cmd] = "none"
  <2>1. proc' = proc /\ cmd' = cmd
    BY <1>2 DEF KillOldProcess
  <2>2. QED
    BY <1>2, <2>1 DEF ProcessTypeOK, OnlyCurrentRuns
<1>3. QED
  BY <1>1, <1>2

\* Each step keeps each part; the parts that a step does not disturb follow from
\* what it leaves unchanged.
LEMMA ProcessInvStep == ProcessInv /\ [ProcessNext]_vars => ProcessInv'
<1> SUFFICES ASSUME ProcessInv, [ProcessNext]_vars PROVE ProcessInv'
  OBVIOUS
<1> USE ProcessAssumption
    DEF ProcessAssumption, ProcessInv, ProcessTypeOK, LeftBehindIsCancelled, InConnect,
        CommandIsLatest, ConnectCounted, ArmedIsStarted, OnlyCurrentRuns, NoneRunsNow, NoneRunsHere
<1>1. CASE CancelContext
  BY <1>1 DEF CancelContext
<1>2. CASE KillExisting
  BY <1>2 DEF KillExisting
<1>3. CASE Init
  BY <1>3 DEF Init
<1>4. CASE NoProgram
  BY <1>4 DEF NoProgram
<1>5. CASE SetCmd
  BY <1>5 DEF SetCmd
<1>6. CASE RunInBackground
  BY <1>6 DEF RunInBackground
<1>7. CASE SetStatusActive
  BY <1>7 DEF SetStatusActive
<1>8. CASE StartDirectly
  BY <1>8 DEF StartDirectly
<1>9. CASE StartFails
  BY <1>9 DEF StartFails
<1>10. CASE KillOnCancel
  BY <1>10 DEF KillOnCancel
<1>11. CASE CancelForGood
  BY <1>11 DEF CancelForGood
<1>12. CASE SetInactive
  BY <1>12 DEF SetInactive
<1>13. ASSUME NEW next \in {"killExisting", "inactive"}, pc \in {"killOld", "dropCmd"},
           pc = "killOld" <=> next = "killExisting", KillOldProcess(next)
      PROVE  ProcessInv'
  <2>1. /\ \A i \in Commands : proc'[i] # "running"
        /\ \A i \in Commands : proc'[i] = "none" <=> proc[i] = "none"
        /\ proc' \in [Commands -> {"none", "running", "dead"}]
        /\ cmd' \in Contexts
    BY <1>13, KillOldProcessKills
  <2>2. /\ pc' = next
        /\ UNCHANGED <<kind, n, cancelled, status, background, killers, waiters>>
    BY <1>13 DEF KillOldProcess
  <2>3. QED
    BY <1>13, <2>1, <2>2
<1>14. ASSUME NEW i \in Commands, RunBackground(i) PROVE ProcessInv'
  BY <1>14 DEF RunBackground
<1>15. ASSUME NEW i \in Commands, WaiterReturns(i) PROVE ProcessInv'
  BY <1>15 DEF WaiterReturns
<1>16. ASSUME NEW i \in Commands, Exit(i) PROVE ProcessInv'
  BY <1>16 DEF Exit
<1>17. ASSUME NEW j \in killers, KillAfterCancel(j) PROVE ProcessInv'
  BY <1>17 DEF KillAfterCancel
<1>18. CASE UNCHANGED vars
  BY <1>18 DEF vars
<1>19. QED
  <2>1. CASE Connect
    BY <2>1, <1>1, <1>2, <1>3, <1>4, <1>5, <1>6, <1>7, <1>8, <1>9, <1>10, <1>13 DEF Connect
  <2>2. CASE Disconnect
    BY <2>2, <1>11, <1>12, <1>13 DEF Disconnect
  <2>3. QED
    BY <2>1, <2>2, <1>14, <1>15, <1>16, <1>17, <1>18 DEF ProcessNext, Goroutines

\* The invariant holds in every reachable state, for any number of Connects.
THEOREM ProcessInvariant == ProcessSpec => []ProcessInv
<1>1. QED
  BY ProcessInvInit, ProcessInvStep, PTL DEF ProcessSpec

\* Type correctness, for every number of calls; only a started program is waited
\* for (ssh.go: a Start that fails returns before the waiter is made).
THEOREM ProcessTypeCorrect == ProcessSpec => []ProcessTypeOK
<1>1. ProcessInv => ProcessTypeOK
  BY DEF ProcessInv
<1>2. QED
  BY <1>1, ProcessInvariant, PTL

\* A disconnected transport leaves no process behind, whatever calls of Connect
\* came before and wherever they ended (BaseDisconnect and KillOldProcess).
THEOREM NoProcessLeftTheorem == ProcessSpec => []NoProcessLeft
<1>1. ProcessInv => NoProcessLeft
  BY DEF ProcessInv, NoneRunsNow, NoneRunsHere, NoProcessLeft
<1>2. QED
  BY <1>1, ProcessInvariant, PTL

\* What RunInBackground is given never runs: its context is always done, which
\* is why a tunnel that is started in the background never comes up.
THEOREM BackgroundNeverStarts ==
  ProcessSpec => [][\A i \in Commands : RunBackground(i) => UNCHANGED <<proc, status>>]_vars
<1>1. ProcessInv => [\A i \in Commands : RunBackground(i) => UNCHANGED <<proc, status>>]_vars
  BY DEF ProcessInv, LeftBehindIsCancelled, RunBackground
<1>2. QED
  BY <1>1, ProcessInvariant, PTL

\* After Disconnect, only the next Connect changes the status: no goroutine of
\* an earlier one does.
THEOREM DownStaysDownTheorem == ProcessSpec => DownStaysDown
<1> DEFINE Call == pc \in {"init", "choose", "activate", "arm"}
           Stays == (status = "inactive" /\ status' # "inactive") => Call
<1>1. ProcessInv /\ [ProcessNext]_vars => [Stays]_vars
  <2> SUFFICES ASSUME ProcessInv, ProcessNext, status = "inactive", status' # "inactive"
               PROVE  Call
    BY DEF vars
  <2>1. CASE Connect
    BY <2>1 DEF Connect, CancelContext, KillOldProcess, KillExisting, Init, NoProgram, SetCmd,
       RunInBackground, SetStatusActive, StartDirectly, StartFails, KillOnCancel,
       ProcessInv, LeftBehindIsCancelled, InConnect
  <2>2. CASE Disconnect
    BY <2>2 DEF Disconnect, CancelForGood, KillOldProcess, SetInactive
  <2>3. ASSUME NEW i \in Commands, Goroutines(i) \/ Exit(i) PROVE Call
    BY <2>3 DEF Goroutines, RunBackground, WaiterReturns, Exit, ProcessInv, LeftBehindIsCancelled
  <2>4. ASSUME NEW k \in killers, KillAfterCancel(k) PROVE Call
    BY <2>4 DEF KillAfterCancel
  <2>5. QED
    BY <2>1, <2>2, <2>3, <2>4 DEF ProcessNext
<1>2. QED
  BY <1>1, ProcessInvariant, PTL DEF ProcessSpec, DownStaysDown
==============================================================================
