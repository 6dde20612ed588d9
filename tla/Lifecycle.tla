----------------------------- MODULE Lifecycle -----------------------------
(***************************************************************************)
(* The life of one Orchestrator: calls of Start, Stop and ConnectToRemote  *)
(* on separate goroutines, the goroutines they leave behind, the local     *)
(* tunnels and what a connection leaves running on the remote machine.     *)
(*                                                                         *)
(* ConnectToRemote writes connected, phase, remoteHost and remoteIface     *)
(* without o.mu and takes that mutex only for an instant, in addStep; Stop *)
(* holds it from its first test to its last SSH command.  An attempt can   *)
(* therefore be stopped between any two of its steps, except that a step   *)
(* that is reported waits for the mutex.  Under it Stop takes the          *)
(* dashboard's mutex, the manager's and the Host's.                        *)
(*                                                                         *)
(* Names of attempts stand for the Host object each of them makes.         *)
(***************************************************************************)
EXTENDS Integers, FiniteSets

CONSTANTS
  Attempts,     (* Calls of ConnectToRemote.                               *)
  Machines,     (* Addresses they are given.                               *)
  Sessions,     (* Calls of Start.                                         *)
  Caller,       (* A goroutine that calls Stop itself.                     *)
  NServices,    (* Services provisioned on the remote, 1 .. NServices.     *)
  ConfigOnly,   (* Those that only get a config file (OpenVPN).            *)
  MinRAM,       (* The configured mode's minimum of RAM; 0 is no minimum.  *)
  None

Services == 1 .. NServices
WG       == 0              \* the remote WireGuard interface
Stoppers == Sessions \cup {Caller}

ASSUME LifecycleAssumption ==
  /\ NServices \in Nat \ {0}
  /\ ConfigOnly \subseteq Services
  /\ MinRAM \in Nat
  /\ Caller \notin Sessions
  /\ None \notin Attempts \cup Machines \cup Stoppers

VARIABLES
  olock, tlock, \* the holders of o.mu and of the dashboard's mutex
  mlock,        \* a writer of the manager holds m.mu, or waits for its readers
  hlock,        \* Hosts whose mutex a command that hangs never gives back
  running, connected, phase, host, riface,   \* fields of the Orchestrator
  apc, at, svc, \* attempts: next step, machine, service being provisioned,
  using,        \* and the Host that service's commands go to
  spc,          \* Start and Stop: next step
  down, target, named, \* teardown: service it is at, Host and whether the
                \* interface had a name
  lpc, pinged,  \* monitoring loop of each attempt, the Host it pings
  fail, tui,    \* failover evaluator, dashboard,
  render, asked, \* its drawing goroutine, the Host Status is to report on
  wg, others,   \* local tunnels: WireGuard's status, whether others are up
  managed,      \* WireGuard is in the manager's active set
  remoteUp,     \* what runs on each machine
  allActive,    \* cfg.AllTunnelsActive
  hasWg,        \* the wg tools are installed here
  hangs,        \* a registered transport's Score never returns (websocket)
  crashed,      \* a panic ended the process
  finished, missed \* history of the last Stop: the attempts that were over
                   \* when it began, what its SSH commands failed to stop

flags    == <<running, connected, phase, host, riface>>
attempts == <<apc, at, svc, using>>
teardown == <<down, target, named, finished, missed>>
stops    == <<spc, teardown>>
loops    == <<lpc, pinged>>
drawing  == <<render, asked>>
tasks    == <<loops, fail, tui, drawing>>
links    == <<wg, others, managed, remoteUp>>
locks    == <<olock, tlock, mlock, hlock>>
fixed    == <<allActive, hasWg, hangs>>
lvars    == <<flags, attempts, stops, tasks, links, locks, fixed, crashed>>

InFlight == {a \in Attempts : apc[a] \notin {"idle", "done", "failed"}}
Over     == {a \in Attempts : apc[a] \in {"done", "failed"}}

\* List holds m.mu for reading while it scores every transport.
NoReader == render # "listing" /\ \A a \in Attempts : lpc[a] # "listing"

LifecycleInit ==
  /\ olock = None /\ tlock = None /\ mlock = FALSE /\ hlock = {}
  /\ running = FALSE /\ connected = FALSE /\ phase = "init"
  /\ host = None /\ riface = FALSE
  /\ apc = [a \in Attempts |-> "idle"] /\ at = [a \in Attempts |-> None]
  /\ svc = [a \in Attempts |-> 1] /\ using = [a \in Attempts |-> None]
  /\ spc = [s \in Stoppers |-> "idle"]
  /\ down = 1 /\ target = None /\ named = FALSE
  /\ lpc = [a \in Attempts |-> "off"] /\ pinged = [a \in Attempts |-> None]
  /\ fail = [running |-> FALSE, closed |-> FALSE, pending |-> 0, loops |-> 0]
  /\ tui = [running |-> FALSE, closed |-> FALSE]
  /\ render = "off" /\ asked = None
  /\ wg = "inactive" /\ others = FALSE
  /\ managed = FALSE /\ remoteUp = [m \in Machines |-> {}]
  /\ allActive \in BOOLEAN /\ hasWg \in BOOLEAN /\ hangs \in BOOLEAN
  /\ crashed = FALSE
  /\ finished = {} /\ missed = {}

-----------------------------------------------------------------------------
(* ConnectToRemote.                                                        *)

AttemptAt(a, from, to) ==
  /\ ~crashed
  /\ apc[a] = from
  /\ apc' = [apc EXCEPT ![a] = to]

\* A reported step: addStep needs o.mu.
Reported(a, from, to) == olock = None /\ AttemptAt(a, from, to)

GiveUp(a, from) ==
  /\ Reported(a, from, "failed")
  /\ phase' = "failed"
  /\ UNCHANGED <<running, connected, host>>

\* NewHost, before anything is known of the machine.
BeginConnect(a, m) ==
  /\ AttemptAt(a, "idle", "ping")
  /\ phase' = "connecting" /\ host' = a
  /\ at' = [at EXCEPT ![a] = m]
  /\ UNCHANGED <<running, connected, riface, svc, using, stops, tasks, links,
                 locks, fixed, crashed>>

\* The Host an attempt's command goes to: the field's at that moment, or the
\* one the service's provisioning was called with.
Used(a) == IF apc[a] = "daemon" THEN using[a] ELSE host
HostFree(a) == Used(a) \notin hlock

\* What the machines may run after that command, whose failure may go unnoticed.
AfterCommand(a) ==
  LET m == at[Used(a)]
      ran == CASE apc[a] = "remoteWG" -> remoteUp[m] \cup {WG}
               [] apc[a] = "prepare"  -> remoteUp[m] \ {svc[a]}
               [] apc[a] = "daemon"   -> remoteUp[m] \cup {svc[a]}
               [] OTHER               -> remoteUp[m]
  IN  {remoteUp, [remoteUp EXCEPT ![m] = ran]}

\* SSHCommand holds the Host's mutex until the remote command ends, with a
\* timeout for the dial only: the attempt may wait for ever, and keep it.
HangInCommand(a) ==
  /\ apc[a] \in {"auth", "detect", "resources", "install", "remoteWG", "localWG",
                 "prepare", "daemon"}
  /\ HostFree(a) /\ hlock' = hlock \cup {Used(a)}
  /\ remoteUp' \in AfterCommand(a)
  /\ AttemptAt(a, apc[a], "hung")
  /\ UNCHANGED <<flags, at, svc, using, stops, tasks, wg, others, managed, olock,
                 tlock, mlock, fixed, crashed>>

\* A check that passes leads to the next step, one that fails ends the attempt.
CheckStep(a, ok, from, to, nextPhase) ==
  /\ IF ok THEN /\ Reported(a, from, to)
                /\ phase' = nextPhase
                /\ UNCHANGED <<running, connected, host>>
           ELSE GiveUp(a, from)
  /\ UNCHANGED <<riface, at, svc, using, stops, tasks, links, locks, fixed, crashed>>

\* Four echo requests; more than 80% lost is too much.
LossOf(replies, count) == ((count - replies) * 100) \div count

\* The measurement is stored under the Host's mutex, unless all are lost.
Ping(a) == \E replies \in 0 .. 4 :
  /\ replies > 0 => HostFree(a)
  /\ CheckStep(a, LossOf(replies, 4) <= 80, "ping", "auth", phase)

\* A TCP connection and a first SSH command.
CheckConnectivity(a) == \E dialled, echoed \in BOOLEAN :
  /\ dialled => HostFree(a)
  /\ CheckStep(a, dialled /\ echoed, "auth", "detect", "setup")

\* /etc/os-release, or uname -a when it cannot be read; the errors of the
\* commands that follow are not looked at.
DetectOS(a) == HostFree(a) /\ \E release, uname \in BOOLEAN :
  CheckStep(a, release \/ uname, "detect",
            IF MinRAM > 0 THEN "resources" ELSE "install", phase)

\* Commands that fail leave 0 MB of RAM.
CheckResources(a) == HostFree(a) /\ \E ram \in {0, MinRAM} :
  CheckStep(a, ram >= MinRAM, "resources", "install", phase)

\* A dependency that cannot be installed is a warning.
Install(a) ==
  /\ HostFree(a) /\ Reported(a, "install", "keys")
  /\ phase' = "tunnel"
  /\ UNCHANGED <<running, connected, host, riface, at, svc, using, stops, tasks,
                 links, locks, fixed, crashed>>

\* generateLocalWGKey returns "" without the wg tools and localPub[:16] panics.
Keys(a) ==
  /\ Reported(a, "keys", "remoteWG")
  /\ crashed' = ~hasWg
  /\ UNCHANGED <<flags, at, svc, using, stops, tasks, links, locks, fixed>>

\* SetupWireGuardRemote gives "" for the interface when a key or the config
\* file fails; wg-quick may fail unnoticed.
SetupWireGuardRemote(a, ok) ==
  /\ HostFree(a) /\ riface' = ok
  /\ remoteUp' \in IF ok THEN AfterCommand(a) ELSE {remoteUp}

RemoteWG(a) ==
  /\ \/ /\ Reported(a, "remoteWG", "localWG")
        /\ SetupWireGuardRemote(a, TRUE)
        /\ UNCHANGED <<running, connected, phase, host>>
     \/ SetupWireGuardRemote(a, FALSE) /\ GiveUp(a, "remoteWG")
  /\ UNCHANGED <<at, svc, using, stops, tasks, wg, others, managed, locks, fixed,
                 crashed>>

\* BaseConnectInit measures under the transport's mutex: others see "testing"
\* once that went well, "failed" if too much was lost.
BaseConnectInit(ok) == wg' = IF ok THEN "testing" ELSE "failed"

\* GetRemotePublicIP, Get (which reads under m.mu), and the first half of
\* WireGuard's Connect.
LocalWG(a) ==
  /\ HostFree(a) /\ ~mlock
  /\ \E ok \in BOOLEAN : /\ AttemptAt(a, "localWG", IF ok THEN "wgUp" ELSE "wgLost")
                         /\ BaseConnectInit(ok)
  /\ UNCHANGED <<flags, at, svc, using, stops, tasks, others, managed, remoteUp,
                 locks, fixed, crashed>>

\* Mutant: Connect forgets SetStatusActive.
ConnectWithoutStatus(a) ==
  /\ \/ AttemptAt(a, "wgUp", "wgReport") \/ AttemptAt(a, "allUp", "allDone")
  /\ UNCHANGED <<flags, at, svc, using, stops, tasks, links, locks, fixed, crashed>>

\* The second half, for the attempt or for ConnectAll: an unreachable port, a
\* config file that cannot be written and a wg-quick that fails are not errors.
WireGuardConnect(a) ==
  /\ \/ AttemptAt(a, "wgUp", "wgReport") \/ AttemptAt(a, "allUp", "allDone")
  /\ wg' = "active"
  /\ UNCHANGED <<flags, at, svc, using, stops, tasks, others, managed, remoteUp,
                 locks, fixed, crashed>>

ReportWG(a) ==
  /\ \/ Reported(a, "wgReport", "connected") /\ UNCHANGED <<running, connected, phase, host>>
     \/ GiveUp(a, "wgLost")
  /\ UNCHANGED <<riface, at, svc, using, stops, tasks, links, locks, fixed, crashed>>

SetConnected(a) ==
  /\ AttemptAt(a, "connected", "secrets")
  /\ connected' = TRUE /\ phase' = "multipath"
  /\ UNCHANGED <<running, host, riface, at, svc, using, stops, tasks, links, locks,
                 fixed, crashed>>

\* initTransportSecrets, which reads the manager's table, then the report that
\* provisioning has begun.
Secrets(a) ==
  /\ ~mlock /\ Reported(a, "secrets", "prepare")
  /\ svc' = [svc EXCEPT ![a] = 1]
  /\ UNCHANGED <<flags, at, using, stops, tasks, links, locks, fixed, crashed>>

\* Mutant: one service too many.
NextServiceLate(a) ==
  /\ svc' = [svc EXCEPT ![a] = @ + 1] /\ using' = [using EXCEPT ![a] = None]
  /\ AttemptAt(a, apc[a], IF svc[a] > NServices THEN "activate" ELSE "prepare")

NextService(a) ==
  /\ svc' = [svc EXCEPT ![a] = @ + 1] /\ using' = [using EXCEPT ![a] = None]
  /\ AttemptAt(a, apc[a], IF svc[a] = NServices THEN "activate" ELSE "prepare")

\* ProvisionOpenVPNServer: one command, which starts nothing and never fails.
ProvisionOpenVPN(a) ==
  /\ apc[a] = "prepare" /\ svc[a] \in ConfigOnly
  /\ HostFree(a) /\ NextService(a)
  /\ UNCHANGED <<flags, at, stops, tasks, links, locks, fixed, crashed>>

\* Kill the old daemon (an error is ignored), write its config (an error gives
\* the service up, with a warning) ...
Prepare(a) ==
  /\ apc[a] = "prepare" /\ svc[a] \notin ConfigOnly
  /\ HostFree(a) /\ remoteUp' \in AfterCommand(a)
  /\ \/ /\ AttemptAt(a, "prepare", "daemon") /\ UNCHANGED svc
        /\ using' = [using EXCEPT ![a] = host]
     \/ NextService(a)
  /\ UNCHANGED <<flags, at, stops, tasks, wg, others, managed, locks, fixed, crashed>>

\* ... and startDaemon, whose error is only logged.
Daemon(a) ==
  /\ apc[a] = "daemon"
  /\ HostFree(a) /\ remoteUp' \in AfterCommand(a)
  /\ NextService(a)
  /\ UNCHANGED <<flags, at, stops, tasks, wg, others, managed, locks, fixed, crashed>>

\* With all tunnels active ConnectAll connects every transport, WireGuard once
\* more.  Otherwise the tunnel of this attempt never enters the active set.
Activate(a) ==
  /\ Reported(a, "activate", IF allActive THEN "all" ELSE "monitor")
  /\ UNCHANGED <<flags, at, svc, using, stops, tasks, links, locks, fixed, crashed>>

\* It locks m.mu: other writers first, then no new reader comes in ...
ConnectAllLock(a) ==
  /\ AttemptAt(a, "all", "allWG") /\ ~mlock
  /\ mlock' = TRUE
  /\ UNCHANGED <<flags, at, svc, using, stops, tasks, links, olock, tlock, hlock,
                 fixed, crashed>>

\* ... and the readers that are in leave.
ConnectAllBegin(a) ==
  /\ NoReader
  /\ \E ok \in BOOLEAN : /\ AttemptAt(a, "allWG", IF ok THEN "allUp" ELSE "allLost")
                         /\ BaseConnectInit(ok)
  /\ UNCHANGED <<flags, at, svc, using, stops, tasks, others, managed, remoteUp,
                 locks, fixed, crashed>>

\* Those that connected enter the active set, WireGuard is disconnected if it
\* did not.  With m.mu locked it may wait for a Score for ever.
ConnectAllEnd(a) ==
  /\ \/ /\ AttemptAt(a, "allDone", "monitor")
        /\ managed' = TRUE /\ UNCHANGED wg
     \/ /\ AttemptAt(a, "allLost", "monitor")
        /\ wg' = "inactive" /\ UNCHANGED managed
  /\ others' \in BOOLEAN /\ mlock' = FALSE
  /\ UNCHANGED <<flags, at, svc, using, stops, tasks, remoteUp, olock, tlock, hlock,
                 fixed, crashed>>

ConnectAllHangs(a) ==
  /\ hangs /\ (AttemptAt(a, "allDone", "allHung") \/ AttemptAt(a, "allLost", "allHung"))
  /\ others' \in BOOLEAN
  /\ UNCHANGED <<flags, at, svc, using, stops, tasks, wg, managed, remoteUp, locks,
                 fixed, crashed>>

\* The last report names the Host, under its mutex.
StartMonitoring(a) ==
  /\ HostFree(a) /\ Reported(a, "monitor", "done")
  /\ lpc' = [lpc EXCEPT ![a] = "check"]
  /\ UNCHANGED <<flags, at, svc, using, stops, pinged, fail, tui, drawing, links,
                 locks, fixed, crashed>>

-----------------------------------------------------------------------------
(* startMonitoring: what a round computes is in Monitoring.                *)

LoopAt(a, from, to) ==
  /\ ~crashed
  /\ lpc[a] = from
  /\ lpc' = [lpc EXCEPT ![a] = to]
  /\ UNCHANGED <<flags, attempts, stops, fail, tui, drawing, links, olock, tlock,
                 hlock, fixed, crashed>>

\* Mutant: the loop asks the phase instead of the flags.
LoopExitOnPhase(a) ==
  /\ olock = None /\ phase = "failed"
  /\ LoopAt(a, "check", "off") /\ UNCHANGED <<pinged, mlock>>

\* The head of the loop reads running and connected under o.mu.
LoopExit(a) ==
  /\ olock = None /\ ~running /\ ~connected
  /\ LoopAt(a, "check", "off") /\ UNCHANGED <<pinged, mlock>>

\* It reads the Host too, which is pinged ...
LoopCheck(a) ==
  /\ olock = None /\ (running \/ connected)
  /\ pinged' = [pinged EXCEPT ![a] = host]
  /\ LoopAt(a, "check", "ping") /\ UNCHANGED mlock

\* ... and the measurement stored under its mutex, unless no ping was answered.
LoopLost(a) ==
  /\ ~mlock
  /\ pinged' = [pinged EXCEPT ![a] = None]
  /\ LoopAt(a, "ping", "listing") /\ UNCHANGED mlock

LoopList(a) == pinged[a] \notin hlock /\ LoopLost(a)

\* A Score that never returns keeps the loop in List, and m.mu with it.
LoopListed(a) ==
  /\ ~hangs
  /\ LoopAt(a, "listing", IF allActive THEN "weights" ELSE "check")
  /\ UNCHANGED <<pinged, mlock>>

\* SetWeight, of every tunnel: a writer of the manager.
LoopLock(a) ==
  /\ ~mlock /\ mlock' = TRUE
  /\ LoopAt(a, "weights", "setting") /\ UNCHANGED pinged

LoopSet(a) ==
  /\ NoReader /\ mlock' = FALSE
  /\ LoopAt(a, "setting", "check") /\ UNCHANGED pinged

-----------------------------------------------------------------------------
(* Start, and the goroutines it leaves.                                    *)

StopperAt(s, from, to) ==
  /\ ~crashed
  /\ spc[s] = from
  /\ spc' = [spc EXCEPT ![s] = to]

\* A second Start while one runs is refused.
Start(s) ==
  /\ olock = None
  /\ StopperAt(s, "idle", IF running THEN "done" ELSE "tui")
  /\ running' = TRUE
  /\ UNCHANGED <<connected, phase, host, riface, attempts, teardown, tasks, links,
                 locks, fixed, crashed>>

\* SetProvider and tui.Start, then go fail.Start().
StartTasks(s) ==
  /\ StopperAt(s, "tui", "signal")
  /\ tlock = None
  /\ tui' = [tui EXCEPT !.running = TRUE]
  /\ render' = IF tui.running \/ tui.closed THEN render ELSE "idle"
  /\ fail' = [fail EXCEPT !.pending = @ + 1]
  /\ UNCHANGED <<flags, attempts, teardown, loops, asked, links, locks, fixed, crashed>>

\* fail.Start on its goroutine: it may come after the Stop it should precede.
FailStart ==
  /\ ~crashed /\ fail.pending > 0
  /\ fail' = [fail EXCEPT !.pending = @ - 1, !.running = TRUE,
                          !.loops = @ + 1]
  /\ UNCHANGED <<flags, attempts, stops, loops, tui, drawing, links, locks, fixed,
                 crashed>>

FailExit ==
  /\ ~crashed /\ fail.closed /\ fail.loops > 0
  /\ fail' = [fail EXCEPT !.loops = @ - 1]
  /\ UNCHANGED <<flags, attempts, stops, loops, tui, drawing, links, locks, fixed,
                 crashed>>

RenderAt(from, to) ==
  /\ ~crashed
  /\ render = from /\ render' = to
  /\ UNCHANGED <<flags, attempts, stops, loops, fail, tui, links, olock, mlock, hlock,
                 fixed, crashed>>

\* render reads the provider under the dashboard's mutex, gives it back, and
\* then calls Status, which waits for o.mu.
RenderLock ==
  /\ ~tui.closed /\ tlock = None /\ tlock' = "render"
  /\ RenderAt("idle", "locked") /\ UNCHANGED asked

\* Mutant: Status is called under the dashboard's mutex.
RenderKeepsLock ==
  /\ olock = None /\ tlock' = None
  /\ RenderAt("locked", "idle") /\ UNCHANGED asked

RenderUnlock ==
  /\ tlock' = None
  /\ RenderAt("locked", "status") /\ UNCHANGED asked

\* Status reads the flags and the Host under o.mu ...
RenderStatus ==
  /\ olock = None /\ asked' = host
  /\ RenderAt("status", "query") /\ UNCHANGED tlock

\* ... the active set under m.mu, what is known of the Host under its mutex,
\* then calls List ...
RenderQuery ==
  /\ ~mlock /\ asked \notin hlock /\ asked' = None
  /\ RenderAt("query", "listing") /\ UNCHANGED tlock

\* ... which returns unless a Score hangs, and reads the steps under o.mu.
RenderListed ==
  /\ ~hangs
  /\ RenderAt("listing", "steps") /\ UNCHANGED <<asked, tlock>>

RenderSteps ==
  /\ olock = None
  /\ RenderAt("steps", "idle") /\ UNCHANGED <<asked, tlock>>

RenderExit ==
  /\ tui.closed
  /\ RenderAt("idle", "off") /\ UNCHANGED <<asked, tlock>>

-----------------------------------------------------------------------------
(* Stop, by a Start that was signalled or by another caller.               *)

CallStop(s) ==
  /\ StopperAt(s, IF s = Caller THEN "idle" ELSE "signal", "stop")
  /\ UNCHANGED <<flags, attempts, teardown, tasks, links, locks, fixed, crashed>>

\* The test and the two flags; an orchestrator that was connected but never
\* started is not running, and stays as it is.
StopBegin(s) ==
  /\ olock = None
  /\ StopperAt(s, "stop", IF running THEN "failover" ELSE "done")
  /\ IF running
     THEN /\ olock' = s /\ running' = FALSE /\ connected' = FALSE
          /\ finished' = Over /\ missed' = {}
     ELSE UNCHANGED <<olock, running, connected, finished, missed>>
  /\ UNCHANGED <<phase, host, riface, attempts, down, target, named, tasks, links,
                 tlock, mlock, hlock, fixed, crashed>>

\* fail.Stop, and mon.Stop, which finds a monitor nobody started.  A channel
\* that an earlier session closed is closed again: a panic.
StopFailover(s) ==
  /\ StopperAt(s, "failover", "dashboard")
  /\ fail' = [fail EXCEPT !.running = FALSE, !.closed = @ \/ fail.running]
  /\ crashed' = (fail.running /\ fail.closed)
  /\ UNCHANGED <<flags, attempts, teardown, loops, tui, drawing, links, locks, fixed>>

StopDashboard(s) ==
  /\ StopperAt(s, "dashboard", "disconnect")
  /\ tlock = None
  /\ tui' = [running |-> FALSE, closed |-> tui.closed \/ tui.running]
  /\ crashed' = (tui.running /\ tui.closed)
  /\ UNCHANGED <<flags, attempts, teardown, loops, fail, drawing, links, locks, fixed>>

\* DisconnectAll locks m.mu, which ConnectAll or a waiting writer may have ...
DisconnectLock(s) ==
  /\ StopperAt(s, "disconnect", "drain") /\ ~mlock
  /\ mlock' = TRUE
  /\ UNCHANGED <<flags, attempts, teardown, tasks, links, olock, tlock, hlock, fixed,
                 crashed>>

\* ... waits for List, and disconnects the active set.  Without a remote host
\* Stop ends here.
StopDisconnect(s) ==
  /\ NoReader /\ mlock' = FALSE
  /\ StopperAt(s, "drain", IF host = None THEN "unlock" ELSE "iface")
  /\ target' = host /\ named' = riface
  /\ wg' = IF managed THEN "inactive" ELSE wg
  /\ others' = FALSE /\ managed' = FALSE
  /\ UNCHANGED <<flags, attempts, down, finished, missed, tasks, remoteUp, olock, tlock,
                 hlock, fixed, crashed>>

\* Mutant: the command is not sent.
TeardownSkipped(s, to, what) ==
  StopperAt(s, spc[s], to) /\ UNCHANGED <<remoteUp, missed, hlock>>

\* One SSH command of the teardown waits for the Host's mutex.  It stops "what"
\* on its machine, or fails and nobody notices; and it may never return.
TeardownCommand(s, to, what) ==
  /\ target \notin hlock
  /\ \/ /\ remoteUp' = [remoteUp EXCEPT ![at[target]] = @ \ what]
        /\ UNCHANGED missed
     \/ missed' = missed \cup what /\ UNCHANGED remoteUp
  /\ \/ StopperAt(s, spc[s], to) /\ UNCHANGED hlock
     \/ StopperAt(s, spc[s], "hung") /\ hlock' = hlock \cup {target}

TeardownRemote(s) ==
  /\ spc[s] = "iface"
  /\ TeardownCommand(s, "services", IF named THEN {WG} ELSE {})
  /\ down' = 1 /\ target' = host
  /\ UNCHANGED <<flags, attempts, named, finished, tasks, wg, others, managed, olock,
                 tlock, mlock, fixed, crashed>>

TeardownProvisioned(s) ==
  /\ spc[s] = "services"
  /\ TeardownCommand(s, IF down = NServices THEN "unlock" ELSE "services",
                     {down} \ ConfigOnly)
  /\ down' = down + 1
  /\ UNCHANGED <<flags, attempts, target, named, finished, tasks, wg, others, managed,
                 olock, tlock, mlock, fixed, crashed>>

StopEnd(s) ==
  /\ StopperAt(s, "unlock", "done")
  /\ olock' = None
  /\ UNCHANGED <<flags, attempts, teardown, tasks, links, tlock, mlock, hlock, fixed,
                 crashed>>

-----------------------------------------------------------------------------

\* What is left of a Connect, and ConnectAll once it has m.mu.
TunnelStep(a) ==
  \/ WireGuardConnect(a) \/ ConnectAllBegin(a) \/ ConnectAllEnd(a)
  \/ ConnectAllHangs(a)

ConnectStep(a) ==
  \/ Ping(a) \/ CheckConnectivity(a) \/ DetectOS(a) \/ CheckResources(a)
  \/ Install(a) \/ Keys(a) \/ RemoteWG(a) \/ LocalWG(a) \/ ReportWG(a)
  \/ SetConnected(a) \/ Secrets(a) \/ ProvisionOpenVPN(a) \/ Prepare(a)
  \/ Daemon(a) \/ HangInCommand(a) \/ Activate(a) \/ ConnectAllLock(a)
  \/ TunnelStep(a) \/ StartMonitoring(a)

LoopStep(a) ==
  \/ LoopExit(a) \/ LoopCheck(a) \/ LoopList(a) \/ LoopListed(a) \/ LoopLock(a)
  \/ LoopSet(a)

StopStep(s) ==
  \/ StopBegin(s) \/ StopFailover(s) \/ StopDashboard(s) \/ DisconnectLock(s)
  \/ StopDisconnect(s) \/ TeardownRemote(s) \/ TeardownProvisioned(s) \/ StopEnd(s)

RenderStep ==
  \/ RenderLock \/ RenderUnlock \/ RenderStatus \/ RenderQuery \/ RenderListed
  \/ RenderSteps \/ RenderExit

LifecycleNext ==
  \/ \E a \in Attempts : (\E m \in Machines : BeginConnect(a, m))
                          \/ ConnectStep(a) \/ LoopStep(a) \/ LoopLost(a)
  \/ \E s \in Sessions : Start(s) \/ StartTasks(s)
  \/ \E s \in Stoppers : CallStop(s) \/ StopStep(s)
  \/ FailStart \/ FailExit \/ RenderStep

\* Goroutines run.  What a Stop and the evaluators still have to do is finite,
\* and so is what ConnectAll and the loops can do while a Stop holds o.mu or
\* after it: one condition covers each group.  The dashboard takes and gives back
\* its mutex for ever, and sync.Mutex hands over to a starved waiter: strong
\* fairness of the Stop that waits for it.  Nobody has to call Start, Stop or
\* ConnectToRemote, and the rest of an attempt may take for ever.
LifecycleFairness ==
  /\ WF_lvars((\E s \in Stoppers : StopStep(s)) \/ FailExit)
  /\ SF_lvars(\E s \in Stoppers : StopDashboard(s))
  /\ WF_lvars(\E a \in Attempts : TunnelStep(a) \/ LoopStep(a))
  /\ WF_lvars(RenderStep)

LifecycleSpec == LifecycleInit /\ [][LifecycleNext]_lvars /\ LifecycleFairness

-----------------------------------------------------------------------------

AttemptSteps ==
  {"idle", "ping", "auth", "detect", "resources", "install", "keys", "remoteWG",
   "localWG", "wgUp", "wgLost", "wgReport", "connected", "secrets", "prepare",
   "daemon", "activate", "all", "allWG", "allUp", "allLost", "allDone", "allHung",
   "hung", "monitor", "done", "failed"}

StopSteps ==
  {"idle", "tui", "signal", "stop", "failover", "dashboard", "disconnect", "drain",
   "iface", "services", "hung", "unlock", "done"}

FlagTypes ==
  /\ running \in BOOLEAN /\ connected \in BOOLEAN /\ riface \in BOOLEAN
  /\ phase \in {"init", "connecting", "setup", "tunnel", "multipath", "failed"}
  /\ host \in Attempts \cup {None}

LockTypes ==
  /\ olock \in Stoppers \cup {None} /\ tlock \in {"render", None}
  /\ mlock \in BOOLEAN /\ hlock \subseteq Attempts

CallTypes ==
  /\ apc \in [Attempts -> AttemptSteps]
  /\ at \in [Attempts -> Machines \cup {None}]
  /\ svc \in [Attempts -> 1 .. NServices + 1]
  /\ using \in [Attempts -> Attempts \cup {None}]
  /\ spc \in [Stoppers -> StopSteps]
  /\ down \in 1 .. NServices + 1
  /\ target \in Attempts \cup {None} /\ named \in BOOLEAN
  /\ finished \subseteq Attempts /\ missed \subseteq Services \cup {WG}

TaskTypes ==
  /\ lpc \in [Attempts -> {"off", "check", "ping", "listing", "weights", "setting"}]
  /\ pinged \in [Attempts -> Attempts \cup {None}]
  /\ fail \in [running : BOOLEAN, closed : BOOLEAN, pending : Nat, loops : Nat]
  /\ tui \in [running : BOOLEAN, closed : BOOLEAN]
  /\ render \in {"off", "idle", "locked", "status", "query", "listing", "steps"}
  /\ asked \in Attempts \cup {None}

LinkTypes ==
  /\ wg \in {"inactive", "testing", "active", "failed"}
  /\ others \in BOOLEAN /\ managed \in BOOLEAN
  /\ remoteUp \in [Machines -> SUBSET (Services \cup {WG})]
  /\ allActive \in BOOLEAN /\ hasWg \in BOOLEAN /\ hangs \in BOOLEAN
  /\ crashed \in BOOLEAN

\* Every variable has its type; the holder of o.mu is a call of Stop.
LifecycleTypeOK == FlagTypes /\ LockTypes /\ CallTypes /\ TaskTypes /\ LinkTypes

\* A Stop has ended and every attempt was over when it began or has not begun.
Quiet ==
  /\ olock = None
  /\ \E s \in Stoppers : spc[s] = "done"
  /\ finished # {}
  /\ \A a \in Attempts : a \in finished \/ apc[a] = "idle"

\* Stop brings down what ended attempts brought up: once it has returned, the
\* orchestrator is not connected, the tunnels of the manager's active set are
\* down (WireGuard stays up, and active, if it is not in it), and on the machine
\* of the last attempt nothing runs but what an SSH command failed to stop and
\* the interface whose name a failed attempt has wiped.
CleanStop ==
  Quiet => /\ ~connected /\ ~others /\ ~managed
           /\ allActive /\ (\A a \in Attempts : apc[a] # "failed")
                => wg = "inactive"
           /\ remoteUp[at[host]]
                \subseteq missed \cup (IF riface THEN {} ELSE {WG})

\* While no Stop has run and no connection of WireGuard or attempt has failed,
\* connected implies a host to ping and an active WireGuard transport, or one
\* under test in another attempt, until ConnectAll connects it anew.
ConnectedHasTunnel ==
  connected /\ (\A s \in Stoppers : spc[s] \in {"idle", "tui", "signal"})
            /\ (\A a \in Attempts : apc[a] \notin {"wgLost", "failed"})
            /\ (allActive => \A a \in Attempts :
                  apc[a] \notin {"allUp", "allLost", "allDone", "allHung", "monitor",
                                 "done"})
    => /\ host # None
       /\ \/ wg = "active"
          \/ wg = "testing" /\ \E a \in Attempts : apc[a] = "wgUp"

\* What Stop can wait for in vain: its own SSH command, the mutex of a Host
\* that a hung command keeps, and m.mu under a Score that does not return.
Stuck ==
  \/ \E s \in Stoppers : spc[s] = "hung"
  \/ target \in hlock /\ \E s \in Stoppers : spc[s] \in {"iface", "services"}
  \/ hangs /\ (~NoReader \/ \E a \in Attempts : apc[a] = "allHung")

\* Stop returns unless one of these keeps it.  Nothing else does: the dashboard,
\* which waits for o.mu in Status, never keeps its own mutex or m.mu from a Stop
\* that holds o.mu, nor do the loops that wait for it, nor ConnectAll.
StopReturns ==
  \A s \in Stoppers : spc[s] = "stop" ~> (spc[s] = "done" \/ crashed \/ Stuck)

\* After a quiet Stop the goroutines end unless they are held up in List: the
\* monitoring loops, the drawing loop unless a foreign Stop came before Start
\* had made it, and the evaluator if its channel was closed.
ShutdownEnds ==
  (Quiet /\ ~running) ~>
    \/ /\ \A a \in Attempts : lpc[a] = "off" \/ (hangs /\ lpc[a] = "listing")
       /\ spc[Caller] = "idle" \/ tui.closed
            => render = "off" \/ (hangs /\ render = "listing")
       /\ fail.closed => fail.loops = 0
    \/ ~Quiet \/ running \/ crashed

=============================================================================
