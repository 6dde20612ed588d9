-------------------------- MODULE LifecycleProofs ---------------------------
(* Theorems about Lifecycle, for every set of attempts, machines and       *)
(* sessions and every number of services. Attempts may overlap here: the   *)
(* runs let them follow one another.                                       *)
EXTENDS Lifecycle, TLAPS

\* The steps of a Stop between its two uses of o.mu.
AtWork == {"failover", "dashboard", "disconnect", "drain", "iface", "services", "hung",
           "unlock"}

\* The steps of an attempt whose local WireGuard has been connected and is not in the
\* manager's active set; "hung" may be one of them.
Owning == {"wgUp", "wgLost", "wgReport", "connected", "secrets", "prepare", "daemon",
           "activate", "all", "allWG", "allUp", "allLost", "allDone", "allHung", "hung"}

\* The steps of an attempt that calls ConnectAll, and those from its connection of
\* WireGuard on.
InConnectAll == {"all", "allWG", "allUp", "allLost", "allDone", "allHung"}
Reconnecting == {"allUp", "allLost", "allDone", "allHung", "monitor", "done"}

\* A Stop holds o.mu exactly from its test to its last command.
LockHeldAtWork == \A s \in Stoppers : spc[s] \in AtWork <=> olock = s

\* Once an attempt has begun there is a remote host; a service is provisioned on, and
\* a teardown works on, a Host that has been made.
HostKnown ==
  /\ \A a \in Attempts : apc[a] # "idle" => host # None /\ at[a] \in Machines
  /\ host # None => apc[host] # "idle"
  /\ \A a \in Attempts : apc[a] = "daemon" => using[a] # None /\ apc[using[a]] # "idle"
  /\ \A s \in Stoppers :
       /\ spc[s] \in {"iface", "services"} => target # None /\ apc[target] # "idle"
       /\ spc[s] = "services" => down \in Services

\* The provisioning is at a service there is; one that only gets a config file
\* never runs.
ServicesTracked ==
  /\ \A a \in Attempts :
       /\ apc[a] \in {"prepare", "daemon"} => svc[a] \in Services
       /\ apc[a] = "daemon" => svc[a] \notin ConfigOnly
  /\ \A m \in Machines : remoteUp[m] \cap ConfigOnly = {}

NoneFailed == \A a \in Attempts : apc[a] # "failed"
NoneLost   == \A a \in Attempts : apc[a] \notin {"wgLost", "failed"}
NotStopped == \A s \in Stoppers : spc[s] \in {"idle", "tui", "signal"}
NoneAgain  == allActive => \A a \in Attempts : apc[a] \notin Reconnecting

\* ConnectedHasTunnel, which must already hold when an attempt has its WireGuard.
TunnelUp ==
  /\ connected => host # None
  /\ ~allActive => \A a \in Attempts : apc[a] \notin InConnectAll
  /\   /\ NotStopped /\ NoneLost /\ NoneAgain
       /\ connected \/ \E a \in Attempts : apc[a] \in {"wgReport", "connected"}
     => \/ wg = "active"
        \/ wg = "testing" /\ \E a \in Attempts : apc[a] = "wgUp"

\* With all tunnels active, WireGuard leaves the manager's active set only while
\* some attempt has still to end its ConnectAll.
ActiveIsManaged ==
  allActive /\ NoneFailed =>
    wg = "inactive" \/ managed \/ \E a \in Attempts : apc[a] \in Owning

\* No attempt overlaps or follows the last Stop.
Settled ==
  /\ finished # {}
  /\ \A a \in Attempts : a \in finished \/ apc[a] = "idle"

\* The interface whose name a failed attempt has wiped.
Unnamed == IF riface THEN {} ELSE {WG}

\* What is already down at each step of a Stop that no attempt overlaps.
StopProgress ==
  /\ finished \subseteq Over
  /\ Settled =>
       /\ ~connected
       /\ olock = None \/ spc[olock] \in {"iface", "services", "unlock"}
            => ~others /\ ~managed
       /\ olock # None /\ spc[olock] = "iface" => target = host /\ named = riface
       /\ olock # None /\ spc[olock] = "services"
            => /\ target = host
               /\ remoteUp[at[host]] \subseteq missed \cup (down .. NServices) \cup Unnamed
       /\ olock = None \/ spc[olock] = "unlock"
            => remoteUp[at[host]] \subseteq missed \cup Unnamed

LifecycleInv ==
  /\ LifecycleTypeOK
  /\ LockHeldAtWork
  /\ HostKnown
  /\ ServicesTracked
  /\ TunnelUp
  /\ ActiveIsManaged
  /\ StopProgress

\* The invariant is what the two properties need.
LEMMA LifecycleInvImplies == LifecycleInv => CleanStop /\ ConnectedHasTunnel
<1> SUFFICES ASSUME LifecycleInv PROVE CleanStop /\ ConnectedHasTunnel
  OBVIOUS
<1>1. ASSUME Quiet PROVE CleanStop
  <2>1. Settled
    BY <1>1 DEF Quiet, Settled
  <2>2. olock = None
    BY <1>1 DEF Quiet
  <2>3. allActive /\ NoneFailed => wg = "inactive"
    <3>1. ~managed
      BY <2>1, <2>2 DEF LifecycleInv, StopProgress
    <3>2. \A a \in Attempts : apc[a] \in {"done", "failed", "idle"}
      BY <2>1 DEF LifecycleInv, StopProgress, Settled, Over
    <3>3. QED
      BY <3>1, <3>2 DEF LifecycleInv, ActiveIsManaged, Owning
  <2>4. QED
    BY <2>1, <2>2, <2>3 DEF LifecycleInv, StopProgress, NoneFailed, CleanStop, Unnamed
<1>2. ConnectedHasTunnel
  BY DEF LifecycleInv, TunnelUp, NoneLost, NotStopped, NoneAgain, Reconnecting,
         ConnectedHasTunnel
<1>3. QED
  BY <1>1, <1>2 DEF CleanStop

\* It holds of a new orchestrator.
LEMMA LifecycleInitInv == LifecycleInit => LifecycleInv
<1> SUFFICES ASSUME LifecycleInit PROVE LifecycleInv
  OBVIOUS
<1> USE LifecycleAssumption DEF LifecycleAssumption, LifecycleInit
<1>1. LifecycleTypeOK
  <2>1. FlagTypes /\ LockTypes
    BY DEF FlagTypes, LockTypes
  <2>2. CallTypes
    <3>1. 1 \in 1 .. NServices + 1
      OBVIOUS
    <3>2. QED
      BY <3>1 DEF CallTypes, AttemptSteps, StopSteps
  <2>3. TaskTypes
    BY DEF TaskTypes
  <2>4. LinkTypes
    BY DEF LinkTypes
  <2>5. QED
    BY <2>1, <2>2, <2>3, <2>4 DEF LifecycleTypeOK
<1>2. LockHeldAtWork /\ HostKnown
  BY DEF LockHeldAtWork, HostKnown, AtWork
<1>3. ServicesTracked
  BY DEF ServicesTracked
<1>4. TunnelUp
  BY DEF TunnelUp, InConnectAll
<1>5. ActiveIsManaged
  BY DEF ActiveIsManaged
<1>6. StopProgress
  BY DEF StopProgress, Settled, Over
<1>7. QED
  BY <1>1, <1>2, <1>3, <1>4, <1>5, <1>6 DEF LifecycleInv

-----------------------------------------------------------------------------
(* What the steps of an attempt change. *)

\* The four checks move the attempt on or end it, and set the phase.
LEMMA CheckEffect ==
  ASSUME NEW a \in Attempts,
         Ping(a) \/ CheckConnectivity(a) \/ DetectOS(a) \/ CheckResources(a)
  PROVE  /\ apc[a] \in {"ping", "auth", "detect", "resources"}
         /\ \E to \in {"auth", "detect", "resources", "install", "failed"} :
              apc' = [apc EXCEPT ![a] = to]
         /\ phase' \in {"setup", "failed", phase}
         /\ UNCHANGED <<running, connected, host, riface, at, svc, using, stops, tasks,
                        links, locks, fixed, crashed>>
<1> USE DEF CheckStep, GiveUp, Reported, AttemptAt
<1>1. CASE Ping(a)
  BY <1>1 DEF Ping
<1>2. CASE CheckConnectivity(a)
  BY <1>2 DEF CheckConnectivity
<1>3. CASE DetectOS(a)
  BY <1>3 DEF DetectOS
<1>4. CASE CheckResources(a)
  BY <1>4 DEF CheckResources
<1>5. QED
  BY <1>1, <1>2, <1>3, <1>4

\* Those that only report, or only queue, change nothing but the attempt, the phase,
\* the flag of a connection and the service it begins with.
LEMMA ReportEffect ==
  ASSUME NEW a \in Attempts,
         \/ Install(a) \/ Keys(a) \/ ReportWG(a) \/ SetConnected(a) \/ Secrets(a)
         \/ Activate(a)
  PROVE  /\ \/ apc[a] = "install" /\ apc' = [apc EXCEPT ![a] = "keys"]
            \/ apc[a] = "keys" /\ apc' = [apc EXCEPT ![a] = "remoteWG"]
            \/ apc[a] = "wgReport" /\ apc' = [apc EXCEPT ![a] = "connected"]
            \/ apc[a] = "wgLost" /\ apc' = [apc EXCEPT ![a] = "failed"]
            \/ apc[a] = "connected" /\ apc' = [apc EXCEPT ![a] = "secrets"]
            \/ apc[a] = "secrets" /\ apc' = [apc EXCEPT ![a] = "prepare"]
            \/ /\ apc[a] = "activate"
               /\ apc' = [apc EXCEPT ![a] = IF allActive THEN "all" ELSE "monitor"]
         /\ apc[a] # "secrets" => svc' = svc
         /\ apc[a] = "secrets" => svc' = [svc EXCEPT ![a] = 1]
         /\ apc[a] # "connected" => connected' = connected
         /\ apc[a] = "connected" => connected'
         /\ phase' \in {"tunnel", "multipath", "failed", phase}
         /\ crashed' \in {~hasWg, crashed}
         /\ UNCHANGED <<running, host, riface, at, using, stops, tasks, links, locks,
                        fixed>>
<1> USE DEF GiveUp, Reported, AttemptAt, flags
<1>1. CASE Install(a)
  BY <1>1 DEF Install
<1>2. CASE Keys(a)
  BY <1>2 DEF Keys
<1>3. CASE ReportWG(a)
  BY <1>3 DEF ReportWG
<1>4. CASE SetConnected(a)
  BY <1>4 DEF SetConnected
<1>5. CASE Secrets(a)
  BY <1>5 DEF Secrets
<1>6. CASE Activate(a)
  BY <1>6 DEF Activate
<1>7. QED
  BY <1>1, <1>2, <1>3, <1>4, <1>5, <1>6

\* Those that connect WireGuard.
LEMMA TunnelEffect ==
  ASSUME NEW a \in Attempts, LocalWG(a) \/ ConnectAllLock(a) \/ TunnelStep(a)
  PROVE  /\ \/ /\ apc[a] = "localWG" /\ UNCHANGED managed
               /\ \/ apc' = [apc EXCEPT ![a] = "wgUp"] /\ wg' = "testing"
                  \/ apc' = [apc EXCEPT ![a] = "wgLost"] /\ wg' = "failed"
            \/ /\ apc[a] = "wgUp" /\ UNCHANGED managed
               /\ apc' = [apc EXCEPT ![a] = "wgReport"] /\ wg' = "active"
            \/ /\ apc[a] = "all" /\ UNCHANGED managed
               /\ apc' = [apc EXCEPT ![a] = "allWG"] /\ wg' = wg
            \/ /\ apc[a] = "allWG" /\ UNCHANGED managed
               /\ \/ apc' = [apc EXCEPT ![a] = "allUp"] /\ wg' = "testing"
                  \/ apc' = [apc EXCEPT ![a] = "allLost"] /\ wg' = "failed"
            \/ /\ apc[a] = "allUp" /\ UNCHANGED managed
               /\ apc' = [apc EXCEPT ![a] = "allDone"] /\ wg' = "active"
            \/ /\ apc[a] = "allDone" /\ managed' = TRUE
               /\ apc' = [apc EXCEPT ![a] = "monitor"] /\ wg' = wg
            \/ /\ apc[a] = "allLost" /\ UNCHANGED managed
               /\ apc' = [apc EXCEPT ![a] = "monitor"] /\ wg' = "inactive"
            \/ /\ apc[a] \in {"allDone", "allLost"} /\ UNCHANGED managed
               /\ apc' = [apc EXCEPT ![a] = "allHung"] /\ wg' = wg
         /\ others' \in {TRUE, FALSE, others} /\ mlock' \in {TRUE, FALSE, mlock}
         /\ UNCHANGED <<flags, at, svc, using, stops, tasks, remoteUp, olock, tlock, hlock,
                        fixed, crashed>>
<1> USE DEF AttemptAt, BaseConnectInit, links, locks
<1>1. CASE LocalWG(a)
  BY <1>1 DEF LocalWG
<1>2. CASE WireGuardConnect(a)
  BY <1>2 DEF WireGuardConnect
<1>3. CASE ConnectAllLock(a)
  BY <1>3 DEF ConnectAllLock
<1>4. CASE ConnectAllBegin(a)
  BY <1>4 DEF ConnectAllBegin
<1>5. CASE ConnectAllEnd(a)
  BY <1>5 DEF ConnectAllEnd
<1>6. CASE ConnectAllHangs(a)
  BY <1>6 DEF ConnectAllHangs
<1>7. QED
  BY <1>1, <1>2, <1>3, <1>4, <1>5, <1>6 DEF TunnelStep

\* Those that command the remote machine.
CommandStep(a) ==
  RemoteWG(a) \/ ProvisionOpenVPN(a) \/ Prepare(a) \/ Daemon(a) \/ HangInCommand(a)

\* What runs on the machines afterwards: at most the interface, or the service the
\* attempt is at, more than before.
LEMMA AfterCommandBounds ==
  ASSUME LifecycleTypeOK, HostKnown, ServicesTracked, NEW a \in Attempts,
         apc[a] # "idle", remoteUp' \in AfterCommand(a)
  PROVE  /\ remoteUp' \in [Machines -> SUBSET (Services \cup {WG})]
         /\ \A m \in Machines : remoteUp'[m] \cap ConfigOnly = {}
<1> USE LifecycleAssumption DEF LifecycleAssumption, LifecycleTypeOK, LinkTypes
<1> DEFINE m0 == at[Used(a)]
           ran == CASE apc[a] = "remoteWG" -> remoteUp[m0] \cup {WG}
                    [] apc[a] = "prepare"  -> remoteUp[m0] \ {svc[a]}
                    [] apc[a] = "daemon"   -> remoteUp[m0] \cup {svc[a]}
                    [] OTHER               -> remoteUp[m0]
<1>1. m0 \in Machines
  <2>1. Used(a) \in Attempts /\ apc[Used(a)] # "idle"
    BY DEF Used, HostKnown, FlagTypes, CallTypes
  <2>2. QED
    BY <2>1 DEF HostKnown
<1>2. ran \in SUBSET (Services \cup {WG}) /\ ran \cap ConfigOnly = {}
  <2>1. remoteUp[m0] \subseteq Services \cup {WG} /\ remoteUp[m0] \cap ConfigOnly = {}
    BY <1>1 DEF ServicesTracked
  <2>2. WG \notin ConfigOnly
    BY DEF WG, Services
  <2>3. apc[a] = "daemon" => svc[a] \in Services \ ConfigOnly
    BY DEF ServicesTracked
  <2>4. QED
    BY <2>1, <2>2, <2>3
<1>3. remoteUp' \in {remoteUp, [remoteUp EXCEPT ![m0] = ran]}
  BY DEF AfterCommand
<1> HIDE DEF ran, m0
<1>4. QED
  BY <1>1, <1>2, <1>3 DEF ServicesTracked

LEMMA CommandEffect ==
  ASSUME LifecycleTypeOK, HostKnown, ServicesTracked, NEW a \in Attempts, CommandStep(a)
  PROVE  /\ apc[a] \in {"auth", "detect", "resources", "install", "remoteWG", "localWG",
                        "prepare", "daemon"}
         /\ \E to \in {"localWG", "failed", "prepare", "daemon", "activate", "hung"} :
              /\ apc' = [apc EXCEPT ![a] = to]
              /\ to = "failed" => apc[a] = "remoteWG"
              /\ to = "localWG" => apc[a] = "remoteWG"
              /\ to \in {"prepare", "daemon", "activate"}
                   => apc[a] \in {"prepare", "daemon"}
              /\ to = "daemon" => /\ svc' = svc /\ svc[a] \notin ConfigOnly
                                  /\ using' = [using EXCEPT ![a] = host]
              /\ to \in {"prepare", "activate"}
                   => /\ svc' = [svc EXCEPT ![a] = @ + 1]
                      /\ using' = [using EXCEPT ![a] = None]
                      /\ to = "prepare" <=> svc[a] # NServices
              /\ to \in {"localWG", "failed", "hung"} => UNCHANGED <<svc, using>>
         /\ riface' \in {TRUE, FALSE, riface} /\ phase' \in {"failed", phase}
         /\ hlock' \in {hlock, hlock \cup {Used(a)}}
         /\ remoteUp' \in [Machines -> SUBSET (Services \cup {WG})]
         /\ \A m \in Machines : remoteUp'[m] \cap ConfigOnly = {}
         /\ UNCHANGED <<running, connected, host, at, stops, tasks, wg, others, managed,
                        olock, tlock, mlock, fixed, crashed>>
<1>1. remoteUp' = remoteUp \/ remoteUp' \in AfterCommand(a)
  BY DEF CommandStep, RemoteWG, SetupWireGuardRemote, ProvisionOpenVPN, Prepare, Daemon,
         HangInCommand, links
<1>2. /\ remoteUp' \in [Machines -> SUBSET (Services \cup {WG})]
      /\ \A m \in Machines : remoteUp'[m] \cap ConfigOnly = {}
  <2>1. apc[a] # "idle"
    BY DEF CommandStep, RemoteWG, Reported, GiveUp, AttemptAt, ProvisionOpenVPN, Prepare,
           Daemon, HangInCommand
  <2>2. QED
    BY <1>1, <2>1, AfterCommandBounds DEF LifecycleTypeOK, LinkTypes, ServicesTracked
<1> USE DEF AttemptAt, Reported, GiveUp, NextService, flags, links, locks
<1>3. CASE RemoteWG(a)
  BY <1>2, <1>3 DEF RemoteWG, SetupWireGuardRemote
<1>4. CASE ProvisionOpenVPN(a)
  BY <1>2, <1>4 DEF ProvisionOpenVPN
<1>5. CASE Prepare(a)
  BY <1>2, <1>5 DEF Prepare
<1>6. CASE Daemon(a)
  BY <1>2, <1>6 DEF Daemon
<1>7. CASE HangInCommand(a)
  BY <1>2, <1>7 DEF HangInCommand
<1>8. QED
  BY <1>3, <1>4, <1>5, <1>6, <1>7 DEF CommandStep

\* These are all the steps of an attempt but its last.
LEMMA AttemptSplit ==
  ASSUME NEW a \in Attempts, ConnectStep(a)
  PROVE  \/ Ping(a) \/ CheckConnectivity(a) \/ DetectOS(a) \/ CheckResources(a)
         \/ Install(a) \/ Keys(a) \/ ReportWG(a) \/ SetConnected(a) \/ Secrets(a)
         \/ Activate(a)
         \/ LocalWG(a) \/ ConnectAllLock(a) \/ TunnelStep(a)
         \/ CommandStep(a)
         \/ StartMonitoring(a)
BY DEF ConnectStep, CommandStep

\* All of them move the attempt on, from where it is neither new nor over.
LEMMA AttemptMoves ==
  ASSUME LifecycleTypeOK, HostKnown, ServicesTracked, NEW a \in Attempts, ConnectStep(a)
  PROVE  /\ apc[a] \notin {"idle", "done", "failed"}
         /\ \E to \in AttemptSteps \ {"idle"} : apc' = [apc EXCEPT ![a] = to]
<1>1. CASE Ping(a) \/ CheckConnectivity(a) \/ DetectOS(a) \/ CheckResources(a)
  BY <1>1, CheckEffect DEF AttemptSteps
<1>2. CASE \/ Install(a) \/ Keys(a) \/ ReportWG(a) \/ SetConnected(a) \/ Secrets(a)
           \/ Activate(a)
  BY <1>2, ReportEffect DEF AttemptSteps
<1>3. CASE LocalWG(a) \/ ConnectAllLock(a) \/ TunnelStep(a)
  BY <1>3, TunnelEffect DEF AttemptSteps
<1>4. CASE CommandStep(a)
  BY <1>4, CommandEffect DEF AttemptSteps
<1>5. CASE StartMonitoring(a)
  BY <1>5 DEF StartMonitoring, Reported, AttemptAt, AttemptSteps
<1>6. QED
  BY <1>1, <1>2, <1>3, <1>4, <1>5, AttemptSplit

-----------------------------------------------------------------------------
(* Types. *)

\* The steps of an attempt keep the types.
LEMMA ConnectKeepsTypes ==
  ASSUME LifecycleTypeOK, ServicesTracked, HostKnown, NEW a \in Attempts, ConnectStep(a)
  PROVE  LifecycleTypeOK'
<1> USE LifecycleAssumption
    DEF LifecycleAssumption, LifecycleTypeOK, FlagTypes, LockTypes, CallTypes, TaskTypes,
        LinkTypes, AttemptSteps, flags, attempts, teardown, stops, loops, drawing, tasks,
        links, locks, fixed
<1>0. apc' \in [Attempts -> AttemptSteps]
  <2>1. PICK to \in AttemptSteps : apc' = [apc EXCEPT ![a] = to]
    BY AttemptMoves
  <2>2. QED
    BY <2>1
<1>1. CASE Ping(a) \/ CheckConnectivity(a) \/ DetectOS(a) \/ CheckResources(a)
  BY <1>0, <1>1, CheckEffect
<1>2. CASE \/ Install(a) \/ Keys(a) \/ ReportWG(a) \/ SetConnected(a) \/ Secrets(a)
           \/ Activate(a)
  <2>1. /\ apc' \in [Attempts -> AttemptSteps]
        /\ svc' \in [Attempts -> 1 .. NServices + 1]
    <3>1. 1 \in 1 .. NServices + 1
      OBVIOUS
    <3>2. QED
      BY <1>2, <3>1, ReportEffect
  <2>2. connected' \in BOOLEAN /\ crashed' \in BOOLEAN
    <3>1. connected' = TRUE \/ connected' = connected
      BY <1>2 DEF Install, Keys, ReportWG, GiveUp, SetConnected, Secrets, Activate
    <3>2. QED
      BY <1>2, <3>1, ReportEffect
  <2>3. /\ phase' \in {"tunnel", "multipath", "failed", phase}
        /\ UNCHANGED <<running, host, riface, at, using, stops, tasks, links, locks,
                       fixed>>
    BY <1>2, ReportEffect
  <2>4. QED
    BY <2>1, <2>2, <2>3
<1>3. CASE LocalWG(a) \/ ConnectAllLock(a) \/ TunnelStep(a)
  <2>1. /\ UNCHANGED <<flags, at, svc, using, stops, tasks, remoteUp, olock, tlock, hlock,
                       fixed, crashed>>
        /\ others' \in BOOLEAN /\ mlock' \in BOOLEAN
    BY <1>3, TunnelEffect
  <2>2. /\ wg' \in {"inactive", "testing", "active", "failed"}
        /\ managed' \in BOOLEAN
    BY <1>3, TunnelEffect
  <2>3. QED
    BY <1>0, <2>1, <2>2
<1>4. CASE CommandStep(a)
  <2>1. /\ UNCHANGED <<running, connected, host, at, stops, tasks, wg, others, managed,
                       olock, tlock, mlock, fixed, crashed>>
        /\ riface' \in BOOLEAN /\ phase' \in {"failed", phase}
        /\ remoteUp' \in [Machines -> SUBSET (Services \cup {WG})]
    BY <1>4, CommandEffect
  <2>2. apc[a] # "idle" /\ hlock' \in {hlock, hlock \cup {Used(a)}}
    BY <1>4, CommandEffect
  <2>3. \/ /\ apc[a] \in {"prepare", "daemon"}
           /\ svc' = [svc EXCEPT ![a] = @ + 1] /\ using' = [using EXCEPT ![a] = None]
        \/ svc' = svc /\ using' = [using EXCEPT ![a] = host]
        \/ UNCHANGED <<svc, using>>
    BY <1>4, CommandEffect
  <2>4. apc[a] \in {"prepare", "daemon"} => svc[a] + 1 \in 1 .. NServices + 1
    BY DEF ServicesTracked, Services
  <2>5. /\ svc' \in [Attempts -> 1 .. NServices + 1]
        /\ using' \in [Attempts -> Attempts \cup {None}]
    BY <2>3, <2>4
  <2>6. Used(a) \in Attempts
    BY <2>2 DEF Used, HostKnown
  <2>7. hlock' \subseteq Attempts
    BY <2>2, <2>6
  <2>8. QED
    BY <1>0, <2>1, <2>5, <2>7
<1>5. CASE StartMonitoring(a)
  BY <1>5 DEF StartMonitoring, Reported, AttemptAt
<1>6. QED
  BY <1>1, <1>2, <1>3, <1>4, <1>5, AttemptSplit

\* So do the steps of Stop.
LEMMA StopKeepsTypes ==
  ASSUME LifecycleTypeOK, HostKnown, NEW s \in Stoppers, CallStop(s) \/ StopStep(s)
  PROVE  LifecycleTypeOK'
<1> USE LifecycleAssumption
    DEF LifecycleAssumption, LifecycleTypeOK, FlagTypes, LockTypes, CallTypes, TaskTypes,
        LinkTypes, StopSteps, StopperAt, flags, attempts, teardown, stops, loops, drawing,
        tasks, links, locks, fixed
<1>1. CASE CallStop(s)
  BY <1>1 DEF CallStop
<1>2. CASE StopBegin(s)
  <2>1. CASE running
    <3>1. Over \subseteq Attempts
      BY DEF Over
    <3>2. spc' \in [Stoppers -> StopSteps]
      BY <1>2, <2>1 DEF StopBegin
    <3>3. /\ olock' = s /\ running' = FALSE /\ connected' = FALSE
          /\ finished' = Over /\ missed' = {}
          /\ UNCHANGED <<phase, host, riface, attempts, down, target, named, tasks, links,
                         tlock, mlock, hlock, fixed, crashed>>
      BY <1>2, <2>1 DEF StopBegin
    <3>4. FlagTypes' /\ LockTypes'
      BY <3>3
    <3>5. TaskTypes'
      BY <3>3
    <3>6. LinkTypes'
      BY <3>3
    <3>7. CallTypes'
      BY <3>1, <3>2, <3>3
    <3>8. QED
      BY <3>4, <3>5, <3>6, <3>7
  <2>2. CASE ~running
    BY <1>2, <2>2 DEF StopBegin
  <2>3. QED
    BY <2>1, <2>2
<1>3. CASE StopFailover(s)
  <2>1. /\ fail.running \in BOOLEAN /\ fail.closed \in BOOLEAN
        /\ fail.pending \in Nat /\ fail.loops \in Nat
    OBVIOUS
  <2>2. fail' \in [running : BOOLEAN, closed : BOOLEAN, pending : Nat, loops : Nat]
    BY <1>3, <2>1 DEF StopFailover
  <2>3. crashed' \in BOOLEAN
    BY <1>3, <2>1 DEF StopFailover
  <2>4. QED
    BY <1>3, <2>2, <2>3 DEF StopFailover
<1>4. CASE StopDashboard(s)
  BY <1>4 DEF StopDashboard
<1>5. CASE DisconnectLock(s)
  BY <1>5 DEF DisconnectLock
<1>6. CASE StopDisconnect(s)
  <2>1. wg' \in {"inactive", "testing", "active", "failed"}
    BY <1>6 DEF StopDisconnect
  <2>2. spc' \in [Stoppers -> StopSteps]
    BY <1>6 DEF StopDisconnect
  <2>3. /\ mlock' = FALSE /\ target' = host /\ named' = riface
        /\ others' = FALSE /\ managed' = FALSE
        /\ UNCHANGED <<flags, attempts, down, finished, missed, tasks, remoteUp, olock,
                       tlock, hlock, fixed, crashed>>
    BY <1>6 DEF StopDisconnect
  <2>4. FlagTypes'
    BY <2>3
  <2>5. LockTypes'
    BY <2>3
  <2>6. TaskTypes'
    BY <2>3
  <2>7. CallTypes'
    BY <2>2, <2>3
  <2>8. LinkTypes'
    BY <2>1, <2>3
  <2>9. QED
    BY <2>4, <2>5, <2>6, <2>7, <2>8
<1>7. ASSUME NEW what \in SUBSET (Services \cup {WG}),
             NEW to \in {"services", "unlock"},
             TeardownCommand(s, to, what), spc[s] \in {"iface", "services"}
      PROVE  /\ remoteUp' \in [Machines -> SUBSET (Services \cup {WG})]
             /\ missed' \subseteq Services \cup {WG}
             /\ spc' \in [Stoppers -> StopSteps]
             /\ hlock' \subseteq Attempts
  <2>1. target \in Attempts /\ at[target] \in Machines
    BY <1>7 DEF HostKnown
  <2>2. remoteUp' \in [Machines -> SUBSET (Services \cup {WG})]
    BY <1>7, <2>1 DEF TeardownCommand
  <2>3. QED
    BY <1>7, <2>1, <2>2 DEF TeardownCommand
<1>8. CASE TeardownRemote(s)
  <2>1. (IF named THEN {WG} ELSE {}) \in SUBSET (Services \cup {WG})
    OBVIOUS
  <2>2. /\ TeardownCommand(s, "services", IF named THEN {WG} ELSE {})
        /\ spc[s] \in {"iface", "services"}
    BY <1>8 DEF TeardownRemote
  <2>3. /\ remoteUp' \in [Machines -> SUBSET (Services \cup {WG})]
        /\ missed' \subseteq Services \cup {WG}
        /\ spc' \in [Stoppers -> StopSteps]
        /\ hlock' \subseteq Attempts
    BY <1>7, <2>1, <2>2
  <2>4. /\ down' = 1 /\ target' = host
        /\ UNCHANGED <<flags, attempts, named, finished, tasks, wg, others, managed, olock,
                       tlock, mlock, fixed, crashed>>
    BY <1>8 DEF TeardownRemote
  <2>5. 1 \in 1 .. NServices + 1
    OBVIOUS
  <2>6. QED
    BY <2>3, <2>4, <2>5
<1>9. CASE TeardownProvisioned(s)
  <2>1. {down} \ ConfigOnly \in SUBSET (Services \cup {WG}) /\ down \in Services
    BY <1>9 DEF TeardownProvisioned, HostKnown
  <2>2. /\ TeardownCommand(s, IF down = NServices THEN "unlock" ELSE "services",
                           {down} \ ConfigOnly)
        /\ spc[s] \in {"iface", "services"}
    BY <1>9 DEF TeardownProvisioned
  <2>3. /\ remoteUp' \in [Machines -> SUBSET (Services \cup {WG})]
        /\ missed' \subseteq Services \cup {WG}
        /\ spc' \in [Stoppers -> StopSteps]
        /\ hlock' \subseteq Attempts
    BY <1>7, <2>1, <2>2
  <2>4. /\ down' = down + 1
        /\ UNCHANGED <<flags, attempts, target, named, finished, tasks, wg, others, managed,
                       olock, tlock, mlock, fixed, crashed>>
    BY <1>9 DEF TeardownProvisioned
  <2>5. down + 1 \in 1 .. NServices + 1
    BY <2>1 DEF Services
  <2>6. QED
    BY <2>3, <2>4, <2>5
<1>10. CASE StopEnd(s)
  BY <1>10 DEF StopEnd
<1>11. QED
  BY <1>1, <1>2, <1>3, <1>4, <1>5, <1>6, <1>8, <1>9, <1>10 DEF StopStep

\* The steps that are neither of an attempt nor of a Stop.
TaskStep ==
  \/ \E a \in Attempts : LoopStep(a) \/ LoopLost(a)
  \/ \E s \in Sessions : Start(s) \/ StartTasks(s)
  \/ FailStart \/ FailExit \/ RenderStep

\* So do these, and the first step of an attempt.
LEMMA TasksKeepTypes ==
  ASSUME LifecycleTypeOK,
         (\E a \in Attempts, m \in Machines : BeginConnect(a, m)) \/ TaskStep
  PROVE  LifecycleTypeOK'
<1> USE LifecycleAssumption
    DEF LifecycleAssumption, LifecycleTypeOK, FlagTypes, LockTypes, CallTypes, TaskTypes,
        LinkTypes, AttemptSteps, StopSteps, StopperAt, Stoppers, flags, attempts, teardown,
        stops, loops, drawing, tasks, links, locks, fixed
<1>1. ASSUME NEW a \in Attempts, NEW m \in Machines, BeginConnect(a, m)
      PROVE  LifecycleTypeOK'
  BY <1>1 DEF BeginConnect, AttemptAt
<1>2. ASSUME NEW a \in Attempts, LoopStep(a) \/ LoopLost(a)
      PROVE  LifecycleTypeOK'
  <2>1. /\ UNCHANGED <<flags, attempts, stops, fail, tui, drawing, links, olock, tlock,
                       hlock, fixed, crashed>>
        /\ mlock' \in {TRUE, FALSE, mlock}
        /\ pinged' \in {pinged, [pinged EXCEPT ![a] = None], [pinged EXCEPT ![a] = host]}
    BY <1>2 DEF LoopStep, LoopExit, LoopCheck, LoopLost, LoopList, LoopListed, LoopLock,
                LoopSet, LoopAt
  <2>2. \E to \in {"off", "check", "ping", "listing", "weights", "setting"} :
          lpc' = [lpc EXCEPT ![a] = to]
    BY <1>2 DEF LoopStep, LoopExit, LoopCheck, LoopLost, LoopList, LoopListed, LoopLock,
                LoopSet, LoopAt
  <2>3. lpc' \in [Attempts -> {"off", "check", "ping", "listing", "weights", "setting"}]
    BY <2>2
  <2>4. pinged' \in [Attempts -> Attempts \cup {None}]
    BY <2>1
  <2>5. FlagTypes' /\ LockTypes'
    BY <2>1
  <2>6. CallTypes' /\ LinkTypes'
    BY <2>1
  <2>7. TaskTypes'
    BY <2>1, <2>3, <2>4
  <2>8. QED
    BY <2>5, <2>6, <2>7
<1>3. ASSUME NEW s \in Sessions, Start(s)
      PROVE  LifecycleTypeOK'
  BY <1>3 DEF Start
<1>. DEFINE Fails == [running : BOOLEAN, closed : BOOLEAN, pending : Nat, loops : Nat]
<1>a. /\ fail.running \in BOOLEAN /\ fail.closed \in BOOLEAN
      /\ fail.pending \in Nat /\ fail.loops \in Nat
  OBVIOUS
<1>4. ASSUME NEW s \in Sessions, StartTasks(s)
      PROVE  LifecycleTypeOK'
  <2>1. fail' \in Fails
    BY <1>4, <1>a DEF StartTasks
  <2>2. tui' \in [running : BOOLEAN, closed : BOOLEAN]
    BY <1>4 DEF StartTasks
  <2>3. spc' \in [Stoppers -> StopSteps]
    BY <1>4 DEF StartTasks
  <2>4. /\ render' \in {render, "idle"}
        /\ UNCHANGED <<flags, attempts, teardown, loops, asked, links, locks, fixed, crashed>>
    BY <1>4 DEF StartTasks
  <2>5. QED
    BY <2>1, <2>2, <2>3, <2>4
<1>5. CASE FailStart
  <2>1. fail.pending - 1 \in Nat /\ fail.loops + 1 \in Nat
    BY <1>5, <1>a DEF FailStart
  <2>2. fail' = [fail EXCEPT !.pending = fail.pending - 1, !.running = TRUE,
                             !.loops = fail.loops + 1]
    BY <1>5 DEF FailStart
  <2>3. fail' \in Fails
    BY <2>1, <2>2
  <2>4. QED
    BY <1>5, <2>3 DEF FailStart
<1>6. CASE FailExit
  <2>1. fail' \in Fails
    BY <1>6, <1>a DEF FailExit
  <2>2. QED
    BY <1>6, <2>1 DEF FailExit
<1>7. CASE RenderStep
  BY <1>7 DEF RenderStep, RenderLock, RenderUnlock, RenderStatus, RenderQuery,
              RenderListed, RenderSteps, RenderExit, RenderAt
<1>8. QED
  BY <1>1, <1>2, <1>3, <1>4, <1>5, <1>6, <1>7 DEF TaskStep

-----------------------------------------------------------------------------
(* What the steps leave alone. *)

\* A step of an attempt moves that attempt only, and no Stop.
LEMMA ConnectFrame ==
  ASSUME LifecycleTypeOK, HostKnown, ServicesTracked, NEW a \in Attempts, ConnectStep(a)
  PROVE  /\ apc[a] \notin {"idle", "done", "failed"}
         /\ apc'[a] \in AttemptSteps \ {"idle"}
         /\ \A b \in Attempts \ {a} : apc'[b] = apc[b]
         /\ UNCHANGED <<olock, stops, at, host, running, fixed>>
<1> USE DEF LifecycleTypeOK, CallTypes, flags, locks
<1> DEFINE Frame == UNCHANGED <<olock, stops, at, host, running, fixed>>
<1>0. PICK to \in AttemptSteps \ {"idle"} : apc' = [apc EXCEPT ![a] = to]
  BY AttemptMoves
<1>1. ASSUME Ping(a) \/ CheckConnectivity(a) \/ DetectOS(a) \/ CheckResources(a) PROVE Frame
  BY <1>1, CheckEffect
<1>2. ASSUME \/ Install(a) \/ Keys(a) \/ ReportWG(a) \/ SetConnected(a) \/ Secrets(a)
             \/ Activate(a)
      PROVE  Frame
  BY <1>2, ReportEffect
<1>3. ASSUME LocalWG(a) \/ ConnectAllLock(a) \/ TunnelStep(a) PROVE Frame
  BY <1>3, TunnelEffect
<1>4. ASSUME CommandStep(a) PROVE Frame
  BY <1>4, CommandEffect
<1>5. ASSUME StartMonitoring(a) PROVE Frame
  BY <1>5 DEF StartMonitoring, Reported, AttemptAt
<1>6. Frame
  BY <1>1, <1>2, <1>3, <1>4, <1>5, AttemptSplit
<1>7. QED
  BY <1>0, <1>6, AttemptMoves

\* They leave the attempts, the teardown and the tunnels alone, and keep each
\* call of Stop on its side of the work.
LEMMA TaskFrame ==
  ASSUME LifecycleTypeOK, TaskStep
  PROVE  /\ UNCHANGED <<olock, connected, host, riface, attempts, teardown, links, fixed>>
         /\ \A s \in Stoppers :
              \/ spc'[s] = spc[s]
              \/ spc[s] = "idle" /\ spc'[s] \in {"tui", "done"}
              \/ spc[s] = "tui" /\ spc'[s] = "signal"
<1> USE DEF LifecycleTypeOK, CallTypes, StopperAt, Stoppers, flags, stops, locks
<1>1. ASSUME NEW a \in Attempts, LoopStep(a) \/ LoopLost(a)
      PROVE  UNCHANGED <<olock, connected, host, riface, attempts, stops, links, fixed>>
  BY <1>1 DEF LoopStep, LoopExit, LoopCheck, LoopLost, LoopList, LoopListed, LoopLock,
              LoopSet, LoopAt
<1>2. ASSUME NEW s \in Sessions, Start(s) \/ StartTasks(s)
      PROVE  /\ UNCHANGED <<olock, connected, host, riface, attempts, teardown, links,
                            fixed>>
             /\ \A r \in Stoppers :
                  \/ spc'[r] = spc[r]
                  \/ spc[r] = "idle" /\ spc'[r] \in {"tui", "done"}
                  \/ spc[r] = "tui" /\ spc'[r] = "signal"
  BY <1>2 DEF Start, StartTasks
<1>3. CASE FailStart \/ FailExit
  BY <1>3 DEF FailStart, FailExit
<1>4. CASE RenderStep
  BY <1>4 DEF RenderStep, RenderLock, RenderUnlock, RenderStatus, RenderQuery,
              RenderListed, RenderSteps, RenderExit, RenderAt
<1>5. QED
  BY <1>1, <1>2, <1>3, <1>4 DEF TaskStep

\* Every step of the specification is one of these.
LEMMA LifecycleSteps ==
  ASSUME LifecycleNext
  PROVE  \/ \E a \in Attempts, m \in Machines : BeginConnect(a, m)
         \/ \E a \in Attempts : ConnectStep(a)
         \/ \E s \in Stoppers : CallStop(s) \/ StopStep(s)
         \/ TaskStep
BY DEF LifecycleNext, TaskStep

-----------------------------------------------------------------------------
(* Who holds o.mu, and what is known of the host and of the services. *)

\* The steps of Stop leave the attempts alone, and what the orchestrator knows of
\* them; they start nothing.
LEMMA StopFrame ==
  ASSUME LifecycleTypeOK, HostKnown, NEW s \in Stoppers, CallStop(s) \/ StopStep(s)
  PROVE  /\ UNCHANGED <<host, riface, attempts, fixed>>
         /\ connected' => connected
         /\ spc[s] \notin {"hung", "done"}
         /\ \A r \in Stoppers \ {s} : spc'[r] = spc[r]
         /\ spc'[s] \notin {"idle", "tui", "signal"}
         /\ \A m \in Machines : remoteUp'[m] \subseteq remoteUp[m]
<1> USE DEF LifecycleTypeOK, FlagTypes, CallTypes, LinkTypes, StopperAt, flags, teardown,
            links
<1>1. CASE CallStop(s)
  BY <1>1 DEF CallStop
<1>2. CASE StopBegin(s)
  BY <1>2 DEF StopBegin
<1>3. CASE StopFailover(s) \/ StopDashboard(s) \/ DisconnectLock(s) \/ StopEnd(s)
  BY <1>3 DEF StopFailover, StopDashboard, DisconnectLock, StopEnd
<1>4. CASE StopDisconnect(s)
  BY <1>4 DEF StopDisconnect
<1>5. CASE TeardownRemote(s) \/ TeardownProvisioned(s)
  <2>1. target \in Attempts /\ at[target] \in Machines
    BY <1>5 DEF TeardownRemote, TeardownProvisioned, HostKnown
  <2>2. \A m \in Machines : remoteUp'[m] \subseteq remoteUp[m]
    BY <1>5, <2>1 DEF TeardownRemote, TeardownProvisioned, TeardownCommand
  <2>3. /\ UNCHANGED <<host, riface, connected, attempts, fixed>>
        /\ spc[s] \in {"iface", "services"}
        /\ \E to \in {"services", "unlock", "hung"} : spc' = [spc EXCEPT ![s] = to]
    BY <1>5 DEF TeardownRemote, TeardownProvisioned, TeardownCommand
  <2>4. QED
    BY <2>2, <2>3
<1>6. QED
  BY <1>1, <1>2, <1>3, <1>4, <1>5 DEF StopStep

LEMMA StepKeepsLock ==
  ASSUME LifecycleTypeOK, LockHeldAtWork, HostKnown, ServicesTracked, LifecycleNext
  PROVE  LockHeldAtWork'
<1> USE LifecycleAssumption DEF LifecycleAssumption, LockHeldAtWork, AtWork
<1>1. ASSUME NEW a \in Attempts, NEW m \in Machines, BeginConnect(a, m)
      PROVE  LockHeldAtWork'
  BY <1>1 DEF BeginConnect, stops, locks
<1>2. ASSUME NEW a \in Attempts, ConnectStep(a)
      PROVE  LockHeldAtWork'
  BY <1>2, ConnectFrame DEF stops
<1>3. ASSUME NEW s \in Stoppers, CallStop(s) \/ StopStep(s)
      PROVE  LockHeldAtWork'
  <2> USE DEF LifecycleTypeOK, CallTypes, StopperAt, locks
  <2>1. CASE CallStop(s)
    BY <1>3, <2>1 DEF CallStop
  <2>2. CASE StopBegin(s)
    BY <1>3, <2>2 DEF StopBegin
  <2>3. CASE StopFailover(s) \/ StopDashboard(s)
    BY <1>3, <2>3 DEF StopFailover, StopDashboard
  <2>4. CASE DisconnectLock(s) \/ StopDisconnect(s)
    BY <1>3, <2>4 DEF DisconnectLock, StopDisconnect
  <2>5. CASE TeardownRemote(s)
    BY <1>3, <2>5 DEF TeardownRemote, TeardownCommand
  <2>6. CASE TeardownProvisioned(s)
    BY <1>3, <2>6 DEF TeardownProvisioned, TeardownCommand
  <2>7. CASE StopEnd(s)
    BY <1>3, <2>7 DEF StopEnd
  <2>8. QED
    BY <1>3, <2>1, <2>2, <2>3, <2>4, <2>5, <2>6, <2>7 DEF StopStep
<1>4. ASSUME TaskStep
      PROVE  LockHeldAtWork'
  BY <1>4, TaskFrame DEF Stoppers
<1>5. QED
  BY <1>1, <1>2, <1>3, <1>4, LifecycleSteps

LEMMA StepKeepsHost ==
  ASSUME LifecycleTypeOK, LockHeldAtWork, HostKnown, ServicesTracked, LifecycleNext
  PROVE  HostKnown'
<1> USE LifecycleAssumption DEF LifecycleAssumption, HostKnown, LifecycleTypeOK, CallTypes
<1>1. ASSUME NEW a \in Attempts, NEW m \in Machines, BeginConnect(a, m)
      PROVE  HostKnown'
  <2>1. /\ host' = a /\ at' = [at EXCEPT ![a] = m] /\ apc' = [apc EXCEPT ![a] = "ping"]
        /\ UNCHANGED <<using, spc, target, down>>
    BY <1>1 DEF BeginConnect, AttemptAt, stops, teardown
  <2>2. a # None
    OBVIOUS
  <2>3. QED
    BY <2>1, <2>2
<1>2. ASSUME NEW a \in Attempts, ConnectStep(a)
      PROVE  HostKnown'
  <2>1. /\ apc[a] # "idle" /\ apc'[a] # "idle"
        /\ \A b \in Attempts \ {a} : apc'[b] = apc[b]
        /\ UNCHANGED <<at, host, spc, down, target>>
    BY <1>2, ConnectFrame DEF stops, teardown
  <2>2. host # None => host \in Attempts
    BY DEF FlagTypes
  <2>3. /\ \A b \in Attempts \ {a} : using'[b] = using[b]
        /\ apc'[a] = "daemon" => using'[a] = host
    <3>1. CASE Ping(a) \/ CheckConnectivity(a) \/ DetectOS(a) \/ CheckResources(a)
      BY <3>1, CheckEffect
    <3>2. CASE \/ Install(a) \/ Keys(a) \/ ReportWG(a) \/ SetConnected(a) \/ Secrets(a)
               \/ Activate(a)
      BY <3>2, ReportEffect
    <3>3. CASE LocalWG(a) \/ ConnectAllLock(a) \/ TunnelStep(a)
      <4>1. \E to \in AttemptSteps \ {"daemon"} : apc' = [apc EXCEPT ![a] = to]
        BY <3>3, TunnelEffect DEF AttemptSteps
      <4>2. using' = using
        BY <3>3, TunnelEffect
      <4>3. QED
        BY <4>1, <4>2
    <3>4. CASE CommandStep(a)
      <4>1. PICK to \in {"localWG", "failed", "prepare", "daemon", "activate", "hung"} :
              /\ apc' = [apc EXCEPT ![a] = to]
              /\ to = "daemon" => using' = [using EXCEPT ![a] = host]
              /\ to \in {"prepare", "activate"} => using' = [using EXCEPT ![a] = None]
              /\ to \in {"localWG", "failed", "hung"} => using' = using
        BY <3>4, CommandEffect
      <4>2. QED
        BY <4>1
    <3>5. CASE StartMonitoring(a)
      BY <3>5 DEF StartMonitoring, Reported, AttemptAt
    <3>6. QED
      BY <1>2, <3>1, <3>2, <3>3, <3>4, <3>5, AttemptSplit
  <2>4. QED
    BY <2>1, <2>2, <2>3
<1>3. ASSUME NEW s \in Stoppers, CallStop(s) \/ StopStep(s)
      PROVE  HostKnown'
  <2>0. UNCHANGED <<host, apc, at, using>>
    BY <1>3, StopFrame DEF attempts
  <2> USE DEF StopperAt, teardown
  <2>1. CASE CallStop(s)
    BY <2>0, <2>1 DEF CallStop
  <2>2. CASE StopBegin(s)
    BY <2>0, <2>2 DEF StopBegin
  <2>3. CASE StopFailover(s) \/ StopDashboard(s) \/ DisconnectLock(s)
    BY <2>0, <2>3 DEF StopFailover, StopDashboard, DisconnectLock
  <2>4. CASE StopDisconnect(s)
    <3>1. olock = s /\ \A r \in Stoppers \ {s} : spc[r] \notin {"iface", "services"}
      BY <2>4 DEF StopDisconnect, LockHeldAtWork, AtWork
    <3>2. QED
      BY <2>0, <2>4, <3>1 DEF StopDisconnect
  <2>5. CASE TeardownRemote(s)
    <3>1. olock = s /\ \A r \in Stoppers \ {s} : spc[r] \notin {"iface", "services"}
      BY <2>5 DEF TeardownRemote, LockHeldAtWork, AtWork
    <3>2. 1 \in Services
      BY DEF Services
    <3>3. host # None
      BY <2>5 DEF TeardownRemote, CallTypes
    <3>4. QED
      BY <2>0, <2>5, <3>1, <3>2, <3>3 DEF TeardownRemote, TeardownCommand
  <2>6. CASE TeardownProvisioned(s)
    <3>1. olock = s /\ \A r \in Stoppers \ {s} : spc[r] # "services"
      BY <2>6 DEF TeardownProvisioned, LockHeldAtWork, AtWork
    <3>2. down # NServices => down + 1 \in Services
      BY <2>6 DEF TeardownProvisioned, Services
    <3>3. QED
      BY <2>0, <2>6, <3>1, <3>2 DEF TeardownProvisioned, TeardownCommand
  <2>7. CASE StopEnd(s)
    BY <2>0, <2>7 DEF StopEnd
  <2>8. QED
    BY <1>3, <2>1, <2>2, <2>3, <2>4, <2>5, <2>6, <2>7 DEF StopStep
<1>4. ASSUME TaskStep
      PROVE  HostKnown'
  BY <1>4, TaskFrame DEF attempts, teardown
<1>5. QED
  BY <1>1, <1>2, <1>3, <1>4, LifecycleSteps

LEMMA StepKeepsServices ==
  ASSUME LifecycleTypeOK, HostKnown, ServicesTracked, LifecycleNext
  PROVE  ServicesTracked'
<1> USE LifecycleAssumption
    DEF LifecycleAssumption, ServicesTracked, LifecycleTypeOK, CallTypes, LinkTypes
<1>1. ASSUME NEW a \in Attempts, NEW m \in Machines, BeginConnect(a, m)
      PROVE  ServicesTracked'
  BY <1>1 DEF BeginConnect, AttemptAt, links
<1>2. ASSUME NEW a \in Attempts, ConnectStep(a)
      PROVE  ServicesTracked'
  <2>1. CASE Ping(a) \/ CheckConnectivity(a) \/ DetectOS(a) \/ CheckResources(a)
    BY <2>1, CheckEffect DEF links
  <2>2. CASE \/ Install(a) \/ Keys(a) \/ ReportWG(a) \/ SetConnected(a) \/ Secrets(a)
             \/ Activate(a)
    <3>1. 1 \in Services
      BY DEF Services
    <3>2. /\ remoteUp' = remoteUp
          /\ \E to \in AttemptSteps \ {"daemon"} : apc' = [apc EXCEPT ![a] = to]
      BY <2>2, ReportEffect DEF AttemptSteps, links
    <3>3. apc'[a] = "prepare" => svc' = [svc EXCEPT ![a] = 1]
      BY <2>2, ReportEffect
    <3>4. svc' = svc \/ svc' = [svc EXCEPT ![a] = 1]
      BY <2>2, ReportEffect
    <3>5. QED
      BY <3>1, <3>2, <3>3, <3>4
  <2>3. CASE LocalWG(a) \/ ConnectAllLock(a) \/ TunnelStep(a)
    <3>1. \E to \in AttemptSteps \ {"prepare", "daemon"} : apc' = [apc EXCEPT ![a] = to]
      BY <2>3, TunnelEffect DEF AttemptSteps
    <3>2. UNCHANGED <<svc, remoteUp>>
      BY <2>3, TunnelEffect
    <3>3. QED
      BY <3>1, <3>2
  <2>4. CASE CommandStep(a)
    <3>1. \A m \in Machines : remoteUp'[m] \cap ConfigOnly = {}
      BY <2>4, CommandEffect
    <3>2. PICK to \in {"localWG", "failed", "prepare", "daemon", "activate", "hung"} :
            /\ apc' = [apc EXCEPT ![a] = to]
            /\ to \in {"prepare", "daemon", "activate"} => apc[a] \in {"prepare", "daemon"}
            /\ to = "daemon" => svc' = svc /\ svc[a] \notin ConfigOnly
            /\ to \in {"prepare", "activate"} => /\ svc' = [svc EXCEPT ![a] = @ + 1]
                                                 /\ to = "prepare" <=> svc[a] # NServices
            /\ to \in {"localWG", "failed", "hung"} => svc' = svc
      BY <2>4, CommandEffect
    <3>3. svc[a] \in Services /\ svc[a] # NServices => svc[a] + 1 \in Services
      BY DEF Services
    <3>4. QED
      BY <3>1, <3>2, <3>3
  <2>5. CASE StartMonitoring(a)
    BY <2>5 DEF StartMonitoring, Reported, AttemptAt, links
  <2>6. QED
    BY <1>2, <2>1, <2>2, <2>3, <2>4, <2>5, AttemptSplit
<1>3. ASSUME NEW s \in Stoppers, CallStop(s) \/ StopStep(s)
      PROVE  ServicesTracked'
  <2>1. (\A m \in Machines : remoteUp'[m] \subseteq remoteUp[m]) /\ UNCHANGED <<apc, svc>>
    BY <1>3, StopFrame DEF attempts
  <2>2. QED
    BY <2>1
<1>4. ASSUME TaskStep
      PROVE  ServicesTracked'
  BY <1>4, TaskFrame DEF attempts, links
<1>5. QED
  BY <1>1, <1>2, <1>3, <1>4, LifecycleSteps

-----------------------------------------------------------------------------
(* The local WireGuard tunnel. *)

\* What the steps of an attempt do to its place, to the tunnel and to the flag of a
\* connection.
LEMMA TunnelMoves ==
  ASSUME LifecycleTypeOK, HostKnown, ServicesTracked, NEW a \in Attempts, ConnectStep(a)
  PROVE  \/ /\ UNCHANGED <<wg, managed>>
            /\ \/ /\ apc[a] \notin Owning \cup Reconnecting /\ connected' = connected
                  /\ apc'[a] \notin InConnectAll \cup {"wgUp", "wgReport", "connected"}
               \/ apc[a] = "wgReport" /\ apc'[a] = "connected" /\ connected' = connected
               \/ apc[a] = "wgLost" /\ apc'[a] = "failed"
               \/ apc[a] = "connected" /\ apc'[a] = "secrets" /\ connected'
               \/ /\ apc[a] \in {"secrets", "prepare", "daemon"} /\ connected' = connected
                  /\ apc'[a] \in {"prepare", "daemon", "activate", "hung"}
               \/ /\ apc[a] = "activate" /\ connected' = connected
                  /\ apc'[a] = IF allActive THEN "all" ELSE "monitor"
               \/ apc[a] = "all" /\ apc'[a] = "allWG" /\ connected' = connected
               \/ /\ apc[a] \in {"allDone", "allLost"} /\ apc'[a] = "allHung"
                  /\ connected' = connected
               \/ apc[a] = "monitor" /\ apc'[a] = "done" /\ connected' = connected
         \/ /\ UNCHANGED <<managed, connected>>
            /\ \/ apc[a] = "localWG" /\ apc'[a] = "wgUp" /\ wg' = "testing"
               \/ apc[a] = "localWG" /\ apc'[a] = "wgLost" /\ wg' = "failed"
               \/ apc[a] = "wgUp" /\ apc'[a] = "wgReport" /\ wg' = "active"
               \/ apc[a] = "allWG" /\ apc'[a] = "allUp" /\ wg' = "testing"
               \/ apc[a] = "allWG" /\ apc'[a] = "allLost" /\ wg' = "failed"
               \/ apc[a] = "allUp" /\ apc'[a] = "allDone" /\ wg' = "active"
               \/ apc[a] = "allLost" /\ apc'[a] = "monitor" /\ wg' = "inactive"
         \/ /\ apc[a] = "allDone" /\ apc'[a] = "monitor" /\ managed' /\ wg' = wg
            /\ connected' = connected
<1> USE DEF LifecycleTypeOK, CallTypes, Owning, Reconnecting, InConnectAll
<1>1. CASE Ping(a) \/ CheckConnectivity(a) \/ DetectOS(a) \/ CheckResources(a)
  BY <1>1, CheckEffect DEF links
<1>2. CASE \/ Install(a) \/ Keys(a) \/ ReportWG(a) \/ SetConnected(a) \/ Secrets(a)
           \/ Activate(a)
  BY <1>2, ReportEffect DEF links
<1>3. CASE LocalWG(a) \/ ConnectAllLock(a) \/ TunnelStep(a)
  <2>1. connected' = connected
    BY <1>3, TunnelEffect DEF flags
  <2>2. QED
    BY <1>3, <2>1, TunnelEffect
<1>4. CASE CommandStep(a)
  <2>1. /\ UNCHANGED <<wg, managed, connected>>
        /\ apc[a] \in {"auth", "detect", "resources", "install", "remoteWG", "localWG",
                       "prepare", "daemon"}
    BY <1>4, CommandEffect
  <2>2. PICK to \in {"localWG", "failed", "prepare", "daemon", "activate", "hung"} :
          /\ apc' = [apc EXCEPT ![a] = to]
          /\ to = "failed" => apc[a] = "remoteWG"
          /\ to = "localWG" => apc[a] = "remoteWG"
          /\ to \in {"prepare", "daemon", "activate"} => apc[a] \in {"prepare", "daemon"}
    BY <1>4, CommandEffect
  <2>3. QED
    BY <2>1, <2>2
<1>5. CASE StartMonitoring(a)
  BY <1>5 DEF StartMonitoring, Reported, AttemptAt, flags, links
<1>6. QED
  BY <1>1, <1>2, <1>3, <1>4, <1>5, AttemptSplit

LEMMA StepKeepsTunnel ==
  ASSUME LifecycleTypeOK, HostKnown, ServicesTracked, TunnelUp, LifecycleNext
  PROVE  TunnelUp'
<1> USE DEF TunnelUp, NotStopped, NoneLost, NoneAgain, InConnectAll, Reconnecting
<1>1. ASSUME NEW a \in Attempts, NEW m \in Machines, BeginConnect(a, m)
      PROVE  TunnelUp'
  <2>1. /\ apc[a] = "idle" /\ apc' = [apc EXCEPT ![a] = "ping"] /\ host' = a
        /\ UNCHANGED <<connected, wg, spc, fixed>>
    BY <1>1 DEF BeginConnect, AttemptAt, stops, links
  <2>2. a # None
    BY LifecycleAssumption DEF LifecycleAssumption
  <2>3. QED
    BY <2>1, <2>2 DEF LifecycleTypeOK, CallTypes, fixed
<1>2. ASSUME NEW a \in Attempts, ConnectStep(a)
      PROVE  TunnelUp'
  <2>1. /\ apc[a] \notin {"idle", "done", "failed"}
        /\ \A b \in Attempts \ {a} : apc'[b] = apc[b]
        /\ UNCHANGED <<spc, host, allActive>>
    BY <1>2, ConnectFrame DEF stops, fixed
  <2>2. host # None
    BY <2>1 DEF HostKnown
  <2>3. QED
    BY <1>2, <2>1, <2>2, TunnelMoves DEF Owning
<1>3. ASSUME NEW s \in Stoppers, CallStop(s) \/ StopStep(s)
      PROVE  TunnelUp'
  <2>1. /\ ~NotStopped'
        /\ connected' => connected
        /\ UNCHANGED <<apc, host, allActive>>
    BY <1>3, StopFrame DEF attempts, fixed
  <2>2. QED
    BY <2>1
<1>4. ASSUME TaskStep
      PROVE  TunnelUp'
  <2>1. UNCHANGED <<connected, host, apc, wg, allActive>> /\ (NotStopped' => NotStopped)
    BY <1>4, TaskFrame DEF attempts, links, fixed
  <2>2. QED
    BY <2>1
<1>5. QED
  BY <1>1, <1>2, <1>3, <1>4, LifecycleSteps

LEMMA StepKeepsManaged ==
  ASSUME LifecycleTypeOK, HostKnown, ServicesTracked, ActiveIsManaged, LifecycleNext
  PROVE  ActiveIsManaged'
<1> USE DEF ActiveIsManaged, NoneFailed
<1>1. ASSUME NEW a \in Attempts, NEW m \in Machines, BeginConnect(a, m)
      PROVE  ActiveIsManaged'
  <2>1. /\ apc[a] = "idle" /\ apc' = [apc EXCEPT ![a] = "ping"]
        /\ UNCHANGED <<wg, managed, allActive>>
    BY <1>1 DEF BeginConnect, AttemptAt, links, fixed
  <2>2. NoneFailed' => NoneFailed
    BY <2>1 DEF LifecycleTypeOK, CallTypes
  <2>3. ASSUME NEW b \in Attempts, apc[b] \in Owning PROVE apc'[b] \in Owning
    BY <2>1, <2>3 DEF LifecycleTypeOK, CallTypes, Owning
  <2>4. QED
    BY <2>1, <2>2, <2>3
<1>2. ASSUME NEW a \in Attempts, ConnectStep(a)
      PROVE  ActiveIsManaged'
  <2>1. /\ apc[a] \notin {"idle", "done", "failed"}
        /\ \A b \in Attempts \ {a} : apc'[b] = apc[b]
        /\ allActive' = allActive
    BY <1>2, ConnectFrame DEF fixed
  <2>2. QED
    BY <1>2, <2>1, TunnelMoves DEF Owning, InConnectAll, Reconnecting
<1>3. ASSUME NEW s \in Stoppers, CallStop(s) \/ StopStep(s)
      PROVE  ActiveIsManaged'
  <2>0. UNCHANGED <<apc, allActive>>
    BY <1>3, StopFrame DEF attempts, fixed
  <2>1. CASE StopDisconnect(s)
    BY <2>0, <2>1 DEF StopDisconnect
  <2>2. CASE ~StopDisconnect(s)
    <3>1. UNCHANGED <<wg, managed>>
      BY <1>3, <2>2 DEF CallStop, StopStep, StopBegin, StopFailover, StopDashboard,
                DisconnectLock, TeardownRemote, TeardownProvisioned, StopEnd, links
    <3>2. QED
      BY <2>0, <3>1
  <2>3. QED
    BY <2>1, <2>2
<1>4. ASSUME TaskStep
      PROVE  ActiveIsManaged'
  <2>1. UNCHANGED <<apc, wg, managed, allActive>>
    BY <1>4, TaskFrame DEF attempts, links, fixed
  <2>2. QED
    BY <2>1
<1>5. QED
  BY <1>1, <1>2, <1>3, <1>4, LifecycleSteps

-----------------------------------------------------------------------------
(* What a Stop that no attempt overlaps has brought down. *)

LEMMA StepKeepsProgress ==
  ASSUME LifecycleTypeOK, LockHeldAtWork, HostKnown, ServicesTracked, StopProgress,
         LifecycleNext
  PROVE  StopProgress'
<1> USE LifecycleAssumption DEF LifecycleAssumption
<1>1. ASSUME NEW a \in Attempts, NEW m \in Machines, BeginConnect(a, m)
      PROVE  StopProgress'
  <2>1. /\ apc[a] = "idle" /\ apc'[a] = "ping"
        /\ \A b \in Attempts \ {a} : apc'[b] = apc[b]
        /\ finished' = finished
    BY <1>1 DEF BeginConnect, AttemptAt, stops, teardown, LifecycleTypeOK, CallTypes
  <2>2. finished \subseteq Over' /\ ~Settled'
    BY <2>1 DEF StopProgress, Over, Settled
  <2>3. QED
    BY <2>1, <2>2 DEF StopProgress
<1>2. ASSUME NEW a \in Attempts, ConnectStep(a)
      PROVE  StopProgress'
  <2>1. /\ apc[a] \notin {"idle", "done", "failed"} /\ apc'[a] # "idle"
        /\ \A b \in Attempts \ {a} : apc'[b] = apc[b]
        /\ finished' = finished
    BY <1>2, ConnectFrame DEF stops, teardown
  <2>2. finished \subseteq Over' /\ ~Settled'
    BY <2>1 DEF StopProgress, Over, Settled
  <2>3. QED
    BY <2>1, <2>2 DEF StopProgress
<1>3. ASSUME NEW s \in Stoppers, CallStop(s) \/ StopStep(s)
      PROVE  StopProgress'
  <2> USE DEF StopProgress, Settled, StopperAt, LifecycleTypeOK, FlagTypes, CallTypes,
              LockTypes, flags, attempts, teardown, links, LockHeldAtWork, AtWork
  <2>1. CASE CallStop(s)
    <3>1. olock # s /\ spc' = [spc EXCEPT ![s] = "stop"]
      BY <2>1 DEF CallStop
    <3>2. UNCHANGED <<flags, attempts, teardown, links, olock>>
      BY <2>1 DEF CallStop, locks
    <3>3. Over' = Over /\ Unnamed' = Unnamed /\ (olock # None => spc'[olock] = spc[olock])
      BY <3>1, <3>2 DEF Over, Unnamed
    <3>4. QED
      BY <3>2, <3>3
  <2>2. CASE StopBegin(s)
    <3>1. CASE running
      <4>1. finished' = Over /\ Over' = Over /\ connected' = FALSE
            /\ olock' = s /\ spc'[s] = "failover" /\ olock' # None
        BY <2>2, <3>1 DEF StopBegin, Over
      <4>2. QED
        BY <4>1
    <3>2. CASE ~running
      <4>1. /\ olock = None /\ Over' = Over /\ Unnamed' = Unnamed
            /\ UNCHANGED <<flags, attempts, teardown, links, olock>>
        BY <2>2, <3>2 DEF StopBegin, Over, Unnamed
      <4>2. QED
        BY <4>1
    <3>3. QED
      BY <3>1, <3>2
  <2>3. CASE StopFailover(s) \/ StopDashboard(s) \/ DisconnectLock(s)
    <3>1. /\ olock = s /\ spc'[s] \in {"dashboard", "disconnect", "drain"}
          /\ UNCHANGED <<connected, apc, finished, olock>>
      BY <2>3 DEF StopFailover, StopDashboard, DisconnectLock, locks
    <3>2. Over' = Over
      BY <3>1 DEF Over
    <3>3. QED
      BY <3>1, <3>2
  <2>4. CASE StopDisconnect(s)
    <3>1. /\ olock = s /\ spc'[s] = (IF host = None THEN "unlock" ELSE "iface")
          /\ others' = FALSE /\ managed' = FALSE /\ target' = host /\ named' = riface
          /\ UNCHANGED <<connected, host, riface, apc, finished, olock>>
      BY <2>4 DEF StopDisconnect
    <3>2. Over' = Over
      BY <3>1 DEF Over
    <3>3. Settled' => host # None
      BY <3>1 DEF HostKnown, Over
    <3>4. QED
      BY <3>1, <3>2, <3>3
  <2>5. CASE TeardownRemote(s)
    <3>1. /\ olock = s /\ spc[s] = "iface" /\ spc'[s] \in {"services", "hung"}
          /\ down' = 1 /\ target' = host
          /\ UNCHANGED <<flags, apc, at, named, finished, others, managed, olock>>
      BY <2>5 DEF TeardownRemote, TeardownCommand
    <3>2. Over' = Over
      BY <3>1 DEF Over
    <3>3. ASSUME Settled
          PROVE  remoteUp'[at[host]] \subseteq missed' \cup Services \cup Unnamed
      <4>1. target = host /\ named = riface /\ at[host] \in Machines
        BY <3>1, <3>3 DEF HostKnown
      <4>2. remoteUp[at[host]] \subseteq Services \cup {WG}
        BY <4>1 DEF LinkTypes
      <4>3. \/ remoteUp' = [remoteUp EXCEPT ![at[host]] = @ \ (IF riface THEN {WG} ELSE {})]
            \/ remoteUp' = remoteUp /\ (IF riface THEN {WG} ELSE {}) \subseteq missed'
        BY <2>5, <4>1 DEF TeardownRemote, TeardownCommand
      <4>4. QED
        BY <4>1, <4>2, <4>3 DEF Unnamed, LinkTypes
    <3>4. QED
      BY <3>1, <3>2, <3>3 DEF Unnamed, Services
  <2>6. CASE TeardownProvisioned(s)
    <3>1. /\ olock = s /\ spc[s] = "services"
          /\ spc'[s] \in {IF down = NServices THEN "unlock" ELSE "services", "hung"}
          /\ down' = down + 1
          /\ UNCHANGED <<flags, apc, at, target, finished, others, managed, olock>>
      BY <2>6 DEF TeardownProvisioned, TeardownCommand
    <3>2. Over' = Over /\ down \in Services /\ target # None /\ at[target] \in Machines
      BY <3>1 DEF Over, HostKnown
    <3>3. ASSUME remoteUp[at[target]] \subseteq missed \cup (down .. NServices) \cup Unnamed
          PROVE  remoteUp'[at[target]]
                   \subseteq missed' \cup (down + 1 .. NServices) \cup Unnamed
      <4>1. down .. NServices \subseteq {down} \cup (down + 1 .. NServices)
        BY <3>2 DEF Services
      <4>2. remoteUp[at[target]] \cap ConfigOnly = {}
        BY <3>2 DEF ServicesTracked
      <4>3. \/ /\ remoteUp' = [remoteUp EXCEPT ![at[target]] = @ \ ({down} \ ConfigOnly)]
               /\ missed' = missed
            \/ remoteUp' = remoteUp /\ missed' = missed \cup ({down} \ ConfigOnly)
        BY <2>6 DEF TeardownProvisioned, TeardownCommand
      <4>4. QED
        BY <3>2, <3>3, <4>1, <4>2, <4>3 DEF LinkTypes
    <3>4. down = NServices => (down + 1 .. NServices) = {}
      BY <3>2 DEF Services
    <3>5. QED
      BY <3>1, <3>2, <3>3, <3>4 DEF Unnamed
  <2>7. CASE StopEnd(s)
    <3>1. /\ olock = s /\ spc[s] = "unlock" /\ olock' = None
          /\ UNCHANGED <<flags, attempts, teardown, links>>
      BY <2>7 DEF StopEnd
    <3>2. Over' = Over /\ Unnamed' = Unnamed
      BY <3>1 DEF Over, Unnamed
    <3>3. QED
      BY <3>1, <3>2
  <2>8. QED
    BY <1>3, <2>1, <2>2, <2>3, <2>4, <2>5, <2>6, <2>7 DEF StopStep
<1>4. ASSUME TaskStep
      PROVE  StopProgress'
  <2>1. /\ UNCHANGED <<olock, connected, host, riface, attempts, teardown, links>>
        /\ \A s \in Stoppers : spc'[s] = spc[s] \/ spc[s] \in {"idle", "tui"}
    BY <1>4, TaskFrame
  <2>2. olock # None => spc'[olock] = spc[olock]
    BY <2>1 DEF LockHeldAtWork, AtWork, LifecycleTypeOK, LockTypes
  <2>3. Over' = Over /\ Unnamed' = Unnamed /\ Settled' = Settled
    BY <2>1 DEF Over, Unnamed, Settled, attempts, teardown
  <2>4. QED
    BY <2>1, <2>2, <2>3 DEF StopProgress, attempts, links, teardown
<1>5. QED
  BY <1>1, <1>2, <1>3, <1>4, LifecycleSteps

-----------------------------------------------------------------------------

\* A step that changes nothing keeps the invariant.
LEMMA StutterKeepsLifecycle == LifecycleInv /\ UNCHANGED lvars => LifecycleInv'
<1> SUFFICES ASSUME LifecycleInv, UNCHANGED lvars PROVE LifecycleInv'
  OBVIOUS
<1> USE DEF lvars, flags, attempts, teardown, stops, loops, drawing, tasks, links, locks,
            fixed
<1>1. LifecycleTypeOK'
  BY DEF LifecycleInv, LifecycleTypeOK, FlagTypes, LockTypes, CallTypes, TaskTypes, LinkTypes
<1>2. LockHeldAtWork' /\ HostKnown' /\ ServicesTracked'
  BY DEF LifecycleInv, LockHeldAtWork, HostKnown, ServicesTracked
<1>3. TunnelUp' /\ ActiveIsManaged'
  BY DEF LifecycleInv, TunnelUp, ActiveIsManaged, NoneFailed, NoneLost, NoneAgain, NotStopped
<1>4. StopProgress'
  BY DEF LifecycleInv, StopProgress, Settled, Over, Unnamed
<1>5. QED
  BY <1>1, <1>2, <1>3, <1>4 DEF LifecycleInv

LEMMA StepKeepsLifecycle == LifecycleInv /\ [LifecycleNext]_lvars => LifecycleInv'
<1> SUFFICES ASSUME LifecycleInv, LifecycleNext PROVE LifecycleInv'
  BY StutterKeepsLifecycle
<1>1. LifecycleTypeOK'
  BY LifecycleSteps, ConnectKeepsTypes, StopKeepsTypes, TasksKeepTypes DEF LifecycleInv
<1>2. QED
  BY <1>1, StepKeepsLock, StepKeepsHost, StepKeepsServices, StepKeepsTunnel,
     StepKeepsManaged, StepKeepsProgress
     DEF LifecycleInv

\* Whatever calls of Start, Stop and ConnectToRemote overlap, the invariant holds.
THEOREM LifecycleInvTheorem == LifecycleSpec => []LifecycleInv
  BY LifecycleInitInv, StepKeepsLifecycle, PTL DEF LifecycleSpec

\* The variables of an Orchestrator have their types; o.mu is held by no one but a
\* call of Stop.
THEOREM LifecycleTypeTheorem == LifecycleSpec => []LifecycleTypeOK
<1>1. LifecycleInv => LifecycleTypeOK
  BY DEF LifecycleInv
<1>2. QED
  BY <1>1, LifecycleInvTheorem, PTL

\* Stop (orchestrator/lifecycle.go), once it has returned, has brought down what the
\* attempts that were over when it began had brought up, but for what its SSH commands
\* failed to stop and an interface whose name was wiped.
THEOREM CleanStopTheorem == LifecycleSpec => []CleanStop
<1>1. LifecycleInv => CleanStop
  BY LifecycleInvImplies
<1>2. QED
  BY <1>1, LifecycleInvTheorem, PTL

\* While nothing has been stopped, no attempt and no connection of WireGuard has failed
\* and ConnectAll has not begun to connect it again, a connected orchestrator has a host
\* to ping and a WireGuard that is active, or under test in another attempt
\* (orchestrator/connect.go, transport/base.go).
THEOREM ConnectedHasTunnelTheorem == LifecycleSpec => []ConnectedHasTunnel
<1>1. LifecycleInv => ConnectedHasTunnel
  BY LifecycleInvImplies
<1>2. QED
  BY <1>1, LifecycleInvTheorem, PTL

=============================================================================
