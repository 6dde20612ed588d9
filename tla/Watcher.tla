------------------------------ MODULE Watcher ------------------------------
(***************************************************************************)
(* The configuration file, which Save writes in two steps and Load reads   *)
(* and validates, and the watcher: a loop that compares the file's time of *)
(* modification with the one it saw last and hands a new configuration to  *)
(* a callback.                                                             *)
(***************************************************************************)
EXTENDS Integers, FiniteSets

CONSTANTS
  Configs,     \* what is saved: records of mode, transports, ports
  Partial,     \* the text of a file between the two steps of a write
  NoConfig,
  MaxSaves,    \* bound: calls of Save
  MaxLoops     \* bound: calls of Start

ASSUME WatcherAssumption ==
  /\ Partial \notin Configs /\ NoConfig \notin Configs
  /\ MaxSaves \in Nat /\ MaxLoops \in Nat

VARIABLES
  file,        \* its time of modification and its text
  saving,      \* what Save is about to write, or NoConfig
  lastMod, wrunning,
  wstop,       \* stopCh: "open", "closed", or closed twice, which panics
  wloops,      \* the goroutines of Start
  handed,      \* what the callback was handed last, or NoConfig
  news         \* history: the latest Save has left the file a time later than any that the
               \* watcher had taken by then

wvars == <<file, saving, lastMod, wrunning, wstop, wloops, handed, news>>

ValidModes == {"", "full", "lite", "minimal"}

AllTransports == {"ssh", "shadowsocks", "quic", "tcp", "frp", "websocket", "wireguard",
                  "openvpn", "rathole", "ipsec", "hysteria", "backhaul"}

\* Each overridden port belongs to a known transport, and to one only.
ValidatePortOverrides(ports) ==
  /\ DOMAIN ports \subseteq AllTransports
  /\ \A t \in DOMAIN ports : ports[t] \in 1 .. 65535
  /\ \A t, u \in DOMAIN ports : ports[t] = ports[u] => t = u

Validate(c) ==
  /\ c.mode \in ValidModes
  /\ c.transports \subseteq AllTransports
  /\ ValidatePortOverrides(c.ports)

\* A text cut short does not parse.
Loads(text) == text # Partial /\ Validate(text)

Loop(at, mod, config) == [at |-> at, mod |-> mod, config |-> config]

NewWatcher ==
  /\ \E c \in Configs : file = [mod |-> 0, text |-> c]
  /\ saving = NoConfig /\ handed = NoConfig /\ news = FALSE
  /\ lastMod = 0 /\ wrunning = FALSE /\ wstop = "open"
  /\ wloops = [i \in 1 .. MaxLoops |-> Loop("none", 0, NoConfig)]

-----------------------------------------------------------------------------

\* WriteFile truncates the file ...
BeginSave(c) ==
  /\ saving = NoConfig /\ file.mod < 2 * MaxSaves
  /\ saving' = c
  /\ file' = [mod |-> file.mod + 1, text |-> Partial]
  /\ UNCHANGED <<lastMod, wrunning, wstop, wloops, handed, news>>

\* ... and then writes it, within the grain of the clock or later.
EndSave ==
  /\ saving # NoConfig
  /\ \E mod \in {file.mod, file.mod + 1} :
       /\ file' = [mod |-> mod, text |-> saving]
       /\ news' = /\ mod > lastMod /\ \E i \in 1 .. MaxLoops : wloops[i].at # "none"
                  /\ \A i \in 1 .. MaxLoops : wloops[i].at = "start" => mod > wloops[i].mod
  /\ saving' = NoConfig
  /\ UNCHANGED <<lastMod, wrunning, wstop, wloops, handed>>

\* Start takes the file's time (a file that is not there is an error, and nothing is
\* started) ...
WatcherStart(i) ==
  /\ wstop # "panicked"
  /\ wloops[i].at = "none" /\ \A j \in 1 .. i - 1 : wloops[j].at # "none"
  /\ wloops' = [wloops EXCEPT ![i] = Loop("start", file.mod, NoConfig)]
  /\ UNCHANGED <<file, saving, lastMod, wrunning, wstop, handed, news>>

\* ... and makes it the time seen last, without a look at what the file holds.
WatcherRuns(i) ==
  /\ wloops[i].at = "start"
  /\ lastMod' = wloops[i].mod /\ wrunning' = TRUE
  /\ wloops' = [wloops EXCEPT ![i] = Loop("wait", 0, NoConfig)]
  /\ UNCHANGED <<file, saving, wstop, handed, news>>

\* The channel is made once: it is closed a second time by the Stop after a restart.
WatcherStop ==
  /\ wrunning
  /\ IF wstop = "closed"
     THEN /\ wstop' = "panicked"
          /\ wloops' = [i \in DOMAIN wloops |-> Loop("ended", 0, NoConfig)]
     ELSE wstop' = "closed" /\ UNCHANGED wloops
  /\ wrunning' = FALSE
  /\ UNCHANGED <<file, saving, lastMod, handed, news>>

\* check, in the steps between which the file may change.
Stat(i) ==
  /\ wloops[i].at = "wait" /\ file.mod > lastMod
  /\ wloops' = [wloops EXCEPT ![i] = Loop("due", file.mod, NoConfig)]
  /\ UNCHANGED <<file, saving, lastMod, wrunning, wstop, handed, news>>

Advance(i) ==
  /\ wloops[i].at = "due"
  /\ lastMod' = wloops[i].mod
  /\ wloops' = [wloops EXCEPT ![i].at = "load"]
  /\ UNCHANGED <<file, saving, wrunning, wstop, handed, news>>

\* A file that does not load is left until its time moves again.
Reload(i) ==
  /\ wloops[i].at = "load"
  /\ wloops' = [wloops EXCEPT ![i] =
       IF Loads(file.text) THEN Loop("call", 0, file.text) ELSE Loop("wait", 0, NoConfig)]
  /\ UNCHANGED <<file, saving, lastMod, wrunning, wstop, handed, news>>

\* Mutant: the time of the file is taken once more when it has been loaded.
OnChangeRestat(i) ==
  /\ wloops[i].at = "call"
  /\ handed' = wloops[i].config /\ lastMod' = file.mod
  /\ wloops' = [wloops EXCEPT ![i] = Loop("wait", 0, NoConfig)]
  /\ UNCHANGED <<file, saving, wrunning, wstop, news>>

OnChange(i) ==
  /\ wloops[i].at = "call"
  /\ handed' = wloops[i].config
  /\ wloops' = [wloops EXCEPT ![i] = Loop("wait", 0, NoConfig)]
  /\ UNCHANGED <<file, saving, lastMod, wrunning, wstop, news>>

WatcherExit(i) ==
  /\ wloops[i].at = "wait" /\ wstop = "closed"
  /\ wloops' = [wloops EXCEPT ![i].at = "ended"]
  /\ UNCHANGED <<file, saving, lastMod, wrunning, wstop, handed, news>>

LoopStep(i) == Stat(i) \/ Advance(i) \/ Reload(i) \/ OnChange(i) \/ WatcherExit(i)

WatcherNext ==
  \/ \E c \in Configs : BeginSave(c)
  \/ EndSave \/ WatcherStop
  \/ \E i \in 1 .. MaxLoops : WatcherStart(i) \/ WatcherRuns(i) \/ LoopStep(i)

\* The ticker of a loop ticks for ever, and no step of check waits for another.
WatcherFairness == \A i \in 1 .. MaxLoops : WF_wvars(LoopStep(i))

WatcherSpec == NewWatcher /\ [][WatcherNext]_wvars /\ WatcherFairness

-----------------------------------------------------------------------------

\* The types; what a loop has to hand over, or has handed over, is loaded and validated.
WatcherTypeOK ==
  /\ file.mod \in 0 .. 2 * MaxSaves + 1 /\ file.text \in Configs \cup {Partial}
  /\ saving \in Configs \cup {NoConfig} /\ (file.text = Partial <=> saving # NoConfig)
  /\ lastMod \in 0 .. file.mod /\ wrunning \in BOOLEAN /\ news \in BOOLEAN
  /\ wstop \in {"open", "closed", "panicked"}
  /\ \A i \in 1 .. MaxLoops :
       /\ wloops[i].at \in {"none", "start", "wait", "due", "load", "call", "ended"}
       /\ wloops[i].at = "call" => Validate(wloops[i].config)
  /\ handed # NoConfig => Validate(handed)

Starts == Cardinality({i \in 1 .. MaxLoops : wloops[i].at # "none"})

\* What the last Save has written is handed over, if it is valid, by a watcher that was
\* started once and not stopped, however its checks and Start itself fell among the steps
\* of the writes: unless it left the file with a time that had been taken already.  That
\* excuses the two losses the code has: of a Save that ended before Start took the time,
\* and of a write that ends within the grain of the clock, when a check has read the time,
\* and the beginning of the text, before.
ChangeIsApplied ==
  ([](Starts <= 1) /\ <>[](wrunning /\ saving = NoConfig))
    => <>[](news /\ Loads(file.text) => handed = file.text)
=============================================================================
