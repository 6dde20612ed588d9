---------------------------- MODULE TunnelProcess ----------------------------
(***************************************************************************)
(* One tunnel transport that is backed by a program: the contexts, the     *)
(* process and the status of src/internal/transport/base.go, driven by a   *)
(* Connect that starts its program in the background (frp.go; rathole,     *)
(* shadowsocks, hysteria and backhaul have the same shape) or before it    *)
(* returns (ssh.go).                                                       *)
(*                                                                         *)
(* The manager's lock lets one Connect or Disconnect of a transport run at *)
(* a time; the goroutines earlier calls have left behind run beside it.    *)
(* The n-th Connect makes context n, and its command is command n; context *)
(* 0 is the one NewBase makes.  Each lock section of BaseTransport is a    *)
(* step.                                                                   *)
(***************************************************************************)
EXTENDS Integers

CONSTANTS
  Kinds,        \* how Connect may start its program: "background", "direct"
  MaxConnects   \* bound: calls of Connect

ASSUME ProcessAssumption ==
  /\ Kinds \subseteq {"background", "direct"}
  /\ MaxConnects \in Nat

VARIABLES
  kind,         \* how this transport starts its program
  pc,           \* where the Connect or Disconnect under way is
  n,            \* b.ctx: the context the latest Connect has made
  cancelled,    \* the contexts that are cancelled
  cmd,          \* b.cmd, 0 for nil
  proc,         \* proc[i]: the process of command i
  status,       \* b.status
  background,   \* goroutines of RunInBackground that have not run yet
  killers,      \* goroutines of KillOnCancel: <<command they kill, context they wait for>>
  waiters       \* goroutines that wait for a process: its command

vars == <<kind, pc, n, cancelled, cmd, proc, status, background, killers, waiters>>

Contexts == 0 .. MaxConnects
Commands == 1 .. MaxConnects

\* The types; only a process that was started is waited for.
ProcessTypeOK ==
  /\ kind \in Kinds
  /\ pc \in {"idle", "killOld", "killExisting", "init", "choose", "launch", "arm", "activate",
             "dropCmd", "inactive"}
  /\ n \in Contexts
  /\ cancelled \subseteq Contexts
  /\ cmd \in Contexts
  /\ proc \in [Commands -> {"none", "running", "dead"}]
  /\ status \in {"inactive", "testing", "active", "failed"}
  /\ background \subseteq Commands
  /\ killers \subseteq Contexts \X Contexts
  /\ waiters \subseteq {i \in Commands : proc[i] # "none"}

NewBase ==
  /\ kind \in Kinds
  /\ pc = "idle"
  /\ n = 0
  /\ cancelled = {}
  /\ cmd = 0
  /\ proc = [i \in Commands |-> "none"]
  /\ status = "inactive"
  /\ background = {}
  /\ killers = {}
  /\ waiters = {}

------------------------------------------------------------------------------
(* Connect.                                                                *)

\* A new context; the one before it is cancelled.
CancelContext ==
  /\ pc = "idle"
  /\ n < MaxConnects
  /\ n' = n + 1
  /\ cancelled' = cancelled \cup {n}
  /\ pc' = "killOld"
  /\ UNCHANGED <<kind, cmd, proc, status, background, killers, waiters>>

Killed(i) == [proc EXCEPT ![i] = "dead"]

\* Mutant of KillOldProcess: the command is dropped, its process is not killed.
DropOldProcess(next) ==
  /\ cmd' = IF cmd # 0 /\ proc[cmd] # "none" THEN 0 ELSE cmd
  /\ pc' = next
  /\ UNCHANGED <<kind, n, cancelled, proc, status, background, killers, waiters>>

\* A command that has no process yet is left in place.
KillOldProcess(next) ==
  /\ IF cmd # 0 /\ proc[cmd] # "none"
     THEN proc' = Killed(cmd) /\ cmd' = 0
     ELSE UNCHANGED <<proc, cmd>>
  /\ pc' = next
  /\ UNCHANGED <<kind, n, cancelled, status, background, killers, waiters>>

\* BaseConnectInit begins by cancelling b.ctx: the context just made.
KillExisting ==
  /\ pc = "killExisting"
  /\ cancelled' = cancelled \cup {n}
  /\ pc' = "init"
  /\ UNCHANGED <<kind, n, cmd, proc, status, background, killers, waiters>>

\* The ping, under the lock: too much loss fails the Connect.
Init ==
  /\ pc = "init"
  /\ \/ status' = "failed" /\ pc' = "idle"
     \/ status' = "testing" /\ pc' = "choose"
  /\ UNCHANGED <<kind, n, cancelled, cmd, proc, background, killers, waiters>>

\* Without its program the transport is active by its ping alone.
NoProgram ==
  /\ pc = "choose"
  /\ status' = "active"
  /\ pc' = "idle"
  /\ UNCHANGED <<kind, n, cancelled, cmd, proc, background, killers, waiters>>

SetCmd ==
  /\ pc = "choose"
  /\ cmd' = n
  /\ pc' = "launch"
  /\ UNCHANGED <<kind, n, cancelled, proc, status, background, killers, waiters>>

RunInBackground ==
  /\ kind = "background"
  /\ pc = "launch"
  /\ background' = background \cup {n}
  /\ pc' = "activate"
  /\ UNCHANGED <<kind, n, cancelled, cmd, proc, status, killers, waiters>>

SetStatusActive ==
  /\ pc = "activate"
  /\ status' = "active"
  /\ pc' = "idle"
  /\ UNCHANGED <<kind, n, cancelled, cmd, proc, background, killers, waiters>>

StartDirectly ==
  /\ kind = "direct"
  /\ pc = "launch"
  /\ proc' = [proc EXCEPT ![n] = "running"]
  /\ pc' = "arm"
  /\ UNCHANGED <<kind, n, cancelled, cmd, status, background, killers, waiters>>

\* A start that fails under a context that is done leaves the status alone.
StartFails ==
  /\ kind = "direct"
  /\ pc = "launch"
  /\ status' = IF n \in cancelled THEN status ELSE "failed"
  /\ pc' = "idle"
  /\ UNCHANGED <<kind, n, cancelled, cmd, proc, background, killers, waiters>>

\* The status is set, KillOnCancel and the waiter are started.
KillOnCancel ==
  /\ pc = "arm"
  /\ status' = "active"
  /\ killers' = killers \cup {<<cmd, n>>}
  /\ waiters' = waiters \cup {n}
  /\ pc' = "idle"
  /\ UNCHANGED <<kind, n, cancelled, cmd, proc, background>>

Connect ==
  \/ CancelContext
  \/ pc = "killOld" /\ KillOldProcess("killExisting")
  \/ KillExisting \/ Init \/ NoProgram \/ SetCmd
  \/ RunInBackground \/ SetStatusActive
  \/ StartDirectly \/ StartFails \/ KillOnCancel

------------------------------------------------------------------------------
(* Disconnect.                                                             *)

CancelForGood ==
  /\ pc = "idle"
  /\ cancelled' = cancelled \cup {n}
  /\ pc' = "dropCmd"
  /\ UNCHANGED <<kind, n, cmd, proc, status, background, killers, waiters>>

SetInactive ==
  /\ pc = "inactive"
  /\ status' = "inactive"
  /\ pc' = "idle"
  /\ UNCHANGED <<kind, n, cancelled, cmd, proc, background, killers, waiters>>

Disconnect ==
  \/ CancelForGood
  \/ pc = "dropCmd" /\ KillOldProcess("inactive")
  \/ SetInactive

------------------------------------------------------------------------------
(* What runs beside them.                                                  *)

\* The goroutine of RunInBackground looks at its context, once, and then
\* starts the program; if it starts, sets the status and arms the killer.
RunBackground(i) ==
  /\ i \in background
  /\ background' = background \ {i}
  /\ IF i \in cancelled
     THEN UNCHANGED <<proc, status, killers>>
     ELSE \E started \in BOOLEAN :
            /\ proc' = IF started THEN [proc EXCEPT ![i] = "running"] ELSE proc
            /\ status' = IF started THEN "active" ELSE status
            /\ killers' = IF started THEN killers \cup {<<cmd, n>>} ELSE killers
  /\ UNCHANGED <<kind, pc, n, cancelled, cmd, waiters>>

\* The context is done: the command is killed, if there is one and it has a
\* process.
KillAfterCancel(k) ==
  /\ k \in killers
  /\ k[2] \in cancelled
  /\ killers' = killers \ {k}
  /\ proc' = [i \in Commands |-> IF i = k[1] /\ proc[i] # "none" THEN "dead" ELSE proc[i]]
  /\ UNCHANGED <<kind, pc, n, cancelled, cmd, status, background, waiters>>

\* The program ends by itself.
Exit(i) ==
  /\ proc[i] = "running"
  /\ proc' = Killed(i)
  /\ UNCHANGED <<kind, pc, n, cancelled, cmd, status, background, killers, waiters>>

\* Mutant of WaiterReturns: the context is not looked at.
WaiterReports(i) ==
  /\ i \in waiters
  /\ proc[i] = "dead"
  /\ waiters' = waiters \ {i}
  /\ status' = "failed"
  /\ UNCHANGED <<kind, pc, n, cancelled, cmd, proc, background, killers>>

\* cmd.Wait returns: a program that has ended with an error, before its context
\* has, is a failure; one that ended well leaves the status alone.
WaiterReturns(i) ==
  /\ i \in waiters
  /\ proc[i] = "dead"
  /\ waiters' = waiters \ {i}
  /\ status' \in IF i \in cancelled THEN {status} ELSE {status, "failed"}
  /\ UNCHANGED <<kind, pc, n, cancelled, cmd, proc, background, killers>>

Goroutines(i) == RunBackground(i) \/ WaiterReturns(i)

ProcessNext ==
  \/ Connect \/ Disconnect
  \/ \E i \in Commands : Goroutines(i) \/ Exit(i)
  \/ \E k \in killers : KillAfterCancel(k)

ProcessSpec == NewBase /\ [][ProcessNext]_vars

\* A call that has begun goes on, and goroutines that can run do; calls and the
\* end of a program are not owed.
ProcessFairness ==
  /\ WF_vars(pc # "idle" /\ (Connect \/ Disconnect))
  /\ \A i \in Commands : WF_vars(Goroutines(i))
  /\ WF_vars(\E k \in killers : KillAfterCancel(k))

FairProcessSpec == ProcessSpec /\ ProcessFairness

------------------------------------------------------------------------------
(* Properties.                                                             *)

\* A transport that is disconnected, and not being connected again, has no
\* process left: not of the last Connect and not of any before it, though a
\* Connect may have failed or been repeated any number of times.
NoProcessLeft ==
  (pc = "idle" /\ status = "inactive") => \A i \in Commands : proc[i] # "running"

\* A disconnected transport stays so until the next Connect: nothing an earlier
\* Connect has left running changes the status any more.
DownStaysDown ==
  [][(status = "inactive" /\ status' # "inactive") => pc \in {"init", "choose", "activate", "arm"}]_vars

\* README: the transports are connected.  One that has launched its program and
\* is active has it running at some time, unless a new call intervenes.
ConnectedTunnelRuns ==
  (pc = "idle" /\ status = "active" /\ cmd # 0)
    ~> (pc # "idle" \/ cmd = 0 \/ proc[cmd] = "running")
==============================================================================
