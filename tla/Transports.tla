----------------------------- MODULE Transports -----------------------------
(***************************************************************************)
(* The tunnel transports that hand a config file to an external program:   *)
(* what their Connect, Disconnect and Score do to the status, the metrics  *)
(* and the files on disk.  The transports differ in a few respects, which  *)
(* one record for each source file names; the rest is one Connect.  The    *)
(* manager's lock makes each call one step here; the processes and the     *)
(* goroutines they start are the subject of TunnelProcess.                 *)
(***************************************************************************)
EXTENDS Integers, FiniteSets, Sequences, SequencesExt

CONSTANTS
  Addrs,        \* remote addresses
  RTTs,         \* round trips of a ping, in ms
  MaxFiles      \* bound: config files written

ASSUME TransportsAssumption == RTTs \subseteq Nat /\ MaxFiles \in Nat

VARIABLES
  tunnel,       \* the transport
  installed,    \* its program is on this machine
  cached,       \* what CommandExists remembers of it: "unknown", "yes", "no"
  tstatus,      \* its status
  result,       \* of the latest call of Connect: "none", "nil" or "error"
  tmpFiles,     \* the files it will remove
  disk,         \* the config files it has written
  partial,      \* those of which it has written no more than a beginning
  unremoved,    \* history: what Disconnect has failed to remove since it was written
  metrics,      \* loss, in per cent, and stability, in 1/20: what later calls
                \* overwrite without reading, latency and jitter, is left out
  files         \* config files written so far

onDisk == <<disk, partial, unremoved>>
tvars  == <<tunnel, installed, cached, tstatus, result, tmpFiles, onDisk, metrics, files>>

\* path: what the file's path depends on; kept: the file is not registered;
\* unwritten: the status when it cannot be written, which is an error if failed.
FRP         == [name |-> "frp",         path |-> "addr",  kept |-> FALSE, unwritten |-> "active"]
Rathole     == [name |-> "rathole",     path |-> "addr",  kept |-> FALSE, unwritten |-> "active"]
ShadowSOCKS == [name |-> "shadowsocks", path |-> "addr",  kept |-> FALSE, unwritten |-> "active"]
Hysteria    == [name |-> "hysteria",    path |-> "addr",  kept |-> FALSE, unwritten |-> "active"]
Backhaul    == [name |-> "backhaul",    path |-> "fixed", kept |-> FALSE, unwritten |-> "failed"]
OpenVPN     == [name |-> "openvpn",     path |-> "time",  kept |-> FALSE, unwritten |-> "failed"]
IPsec       == [name |-> "ipsec",       path |-> "fixed", kept |-> TRUE,  unwritten |-> "active"]
WireGuard   == [name |-> "wireguard",   path |-> "fixed", kept |-> TRUE,  unwritten |-> "active"]

Tunnels == {FRP, Rathole, ShadowSOCKS, Hysteria, Backhaul, OpenVPN, IPsec, WireGuard}

\* A path is named by what it depends on; 0 is the path that is always the same.
Paths == Addrs \cup 0 .. MaxFiles

Path(addr) ==
  IF tunnel.path = "addr" THEN addr
  ELSE IF tunnel.path = "time" THEN files + 1 ELSE 0

Distance(a, b) == IF a < b THEN b - a ELSE a - b

\* The mean of the round trips, the share of pings without an answer, and the
\* mean distance of successive round trips.
MeasureLatency(rtts, count) ==
  LET answered == Len(rtts)
      sum      == FoldLeft(LAMBDA t, r : t + r, 0, rtts)
      steps    == FoldLeft(LAMBDA t, i : t + Distance(rtts[i], rtts[i + 1]), 0,
                           [i \in 1 .. answered - 1 |-> i])
  IN IF answered = 0
     THEN [latency |-> 999, loss |-> 100, jitter |-> 999]
     ELSE [latency |-> sum \div answered,
           loss    |-> ((count - answered) * 100) \div count,
           jitter  |-> IF answered > 1 THEN steps \div (answered - 1) ELSE 0]

\* What a ping of three may answer.
Measurements == {MeasureLatency(r, 3) : r \in UNION {[1 .. k -> RTTs] : k \in 0 .. 3}}

\* Mutant: the stability has no lower limit.
UpdateStabilityUnlimited(stability, m) ==
  IF m.loss < 10 /\ m.latency < 200
  THEN IF stability = 20 THEN 20 ELSE stability + 1
  ELSE stability - 2

\* Up by 0.05, down by 0.10, between 0 and 1.
UpdateStability(stability, m) ==
  IF m.loss < 10 /\ m.latency < 200
  THEN IF stability = 20 THEN 20 ELSE stability + 1
  ELSE IF stability < 2 THEN 0 ELSE stability - 2

With(m, stability) == [loss |-> m.loss, stability |-> stability]

NewTransport ==
  /\ tunnel \in Tunnels
  /\ installed \in BOOLEAN /\ cached = "unknown"
  /\ tstatus = "inactive" /\ result = "none"
  /\ tmpFiles = <<>> /\ disk = {} /\ partial = {} /\ unremoved = {} /\ files = 0
  /\ metrics = [loss |-> 0, stability |-> 0]

-----------------------------------------------------------------------------

\* The program comes or goes: the user installs packages.
InstallProgram ==
  /\ installed' = ~installed
  /\ UNCHANGED <<tunnel, cached, tstatus, result, tmpFiles, onDisk, metrics, files>>

\* The first answer is kept for the life of the process.
CommandExists == IF cached = "unknown" THEN installed ELSE cached = "yes"

\* BaseConnectInit: too much loss is an error.
ConnectUnreachable(m) ==
  /\ m.loss > 80
  /\ metrics' = With(m, metrics.stability)
  /\ tstatus' = "failed" /\ result' = "error"
  /\ UNCHANGED <<tunnel, installed, cached, tmpFiles, onDisk, files>>

\* Without the program the ping alone makes the transport active.
ConnectPingOnly(m) ==
  /\ m.loss <= 80 /\ ~CommandExists
  /\ metrics' = With(m, metrics.stability)
  /\ cached' = "no"
  /\ tstatus' = "active" /\ result' = "nil"
  /\ UNCHANGED <<tunnel, installed, tmpFiles, onDisk, files>>

\* Mutant: a path that is new takes the place of those before it.
AddTmpFileOnly(path) ==
  tmpFiles' = IF tunnel.kept THEN tmpFiles ELSE <<path>>

AddTmpFile(path) ==
  tmpFiles' = IF tunnel.kept THEN tmpFiles ELSE Append(tmpFiles, path)

\* The config is written, registered, and the program started.
ConnectWithConfig(m, addr) ==
  /\ m.loss <= 80 /\ CommandExists /\ files < MaxFiles
  /\ metrics' = With(m, metrics.stability)
  /\ cached' = "yes"
  /\ disk' = disk \cup {Path(addr)} /\ partial' = partial \ {Path(addr)}
  /\ files' = files + 1
  /\ AddTmpFile(Path(addr))
  /\ tstatus' = "active" /\ result' = "nil"
  /\ UNCHANGED <<tunnel, installed, unremoved>>

\* The config cannot be written: some transports fail, the others go on, and
\* none registers the path.  The write fails before the file is opened, or after
\* that has truncated what was there.
WriteFails(m, addr) ==
  /\ m.loss <= 80 /\ CommandExists
  /\ metrics' = With(m, metrics.stability)
  /\ cached' = "yes"
  /\ tstatus' = tunnel.unwritten
  /\ result' = IF tunnel.unwritten = "failed" THEN "error" ELSE "nil"
  /\ \/ UNCHANGED <<disk, partial, files>>
     \/ /\ files < MaxFiles /\ files' = files + 1
        /\ disk' = disk \ {Path(addr)} /\ partial' = partial \cup {Path(addr)}
  /\ UNCHANGED <<tunnel, installed, tmpFiles, unremoved>>

\* BaseDisconnect with CleanTmpFiles, which forgets what rm does not remove.
DisconnectTunnel ==
  /\ tstatus' = "inactive"
  /\ \E removed \in SUBSET ToSet(tmpFiles) :
       /\ disk' = disk \ removed /\ partial' = partial \ removed
       /\ unremoved' = (unremoved \cup ToSet(tmpFiles)) \ removed
  /\ tmpFiles' = <<>>
  /\ UNCHANGED <<tunnel, installed, cached, result, metrics, files>>

\* BaseScore measures the address of the latest Connect; without one it finds
\* nothing but loss.
BaseScore(m) ==
  /\ result = "none" => m.loss = 100
  /\ metrics' = With(m, UpdateStability(metrics.stability, m))
  /\ UNCHANGED <<tunnel, installed, cached, tstatus, result, tmpFiles, onDisk, files>>

TransportsNext ==
  \/ InstallProgram \/ DisconnectTunnel
  \/ \E m \in Measurements :
       \/ ConnectUnreachable(m) \/ ConnectPingOnly(m) \/ BaseScore(m)
       \/ \E addr \in Addrs : ConnectWithConfig(m, addr) \/ WriteFails(m, addr)

TransportsSpec == NewTransport /\ [][TransportsNext]_tvars

-----------------------------------------------------------------------------

\* The types; stability stays between 0 and 1, loss between 0 and 100.
TransportsTypeOK ==
  /\ tunnel \in Tunnels
  /\ installed \in BOOLEAN /\ cached \in {"unknown", "yes", "no"}
  /\ tstatus \in {"inactive", "active", "failed"} /\ result \in {"none", "nil", "error"}
  /\ tmpFiles \in Seq(Paths) /\ disk \subseteq Paths /\ partial \subseteq Paths
  /\ unremoved \subseteq Paths /\ disk \cap partial = {} /\ files \in 0 .. MaxFiles
  /\ metrics.loss \in 0 .. 100 /\ metrics.stability \in 0 .. 20

\* The config files hold tokens and passwords.  A disconnected transport has
\* left none behind that was written, but what rm has failed to remove,
\* however often Connect was called, for however many addresses, wherever it
\* failed, and whatever a write that failed did to an earlier file; ipsec and
\* wireguard keep theirs.  The beginning of a file whose write failed may stay.
NoConfigLeft ==
  tstatus = "inactive" /\ ~tunnel.kept => disk \subseteq unremoved
=============================================================================
