------------------------------ MODULE Proxies ------------------------------
(***************************************************************************)
(* The transports that are proxies in this process: tcp.go, quic.go and    *)
(* websocket.go.  Who closes a connection or a listener: the goroutine     *)
(* that serves it, Disconnect, or both.                                    *)
(*                                                                         *)
(* BaseConnectInit cancels the context Connect has just made, so each of   *)
(* the goroutines that look at it finds it done.  Connect and Disconnect   *)
(* run under the manager's lock, one at a time; goroutines and, for        *)
(* websocket, the handlers of incoming requests run beside them.           *)
(***************************************************************************)
EXTENDS Integers, FiniteSets

CONSTANTS
  Conns,        \* bound: connections
  Servers       \* bound: websocket servers, each with its listener

ASSUME ProxiesAssumption == 0 \notin Servers   \* 0 is no server

VARIABLES
  proxy,        \* "tcp", "quic" or "websocket"
  xstatus,      \* the transport's status
  conn,         \* connections: "none", "open", "closed"
  worker,       \* its goroutine: "none", "accepted", "listed", "done"
  connections,  \* the field: connections Disconnect is to close
  lsn,          \* listeners: "none", "open", "closed"
  serve,        \* the Serve goroutine: "none", "started", "tracked", "done"
  shut,         \* servers that are closed
  closers,      \* goroutines that close a server when the context is done
  server,       \* the field: the current server, 0 for nil
  taken         \* what a Disconnect that is under way has to close

xvars == <<proxy, xstatus, conn, worker, connections, lsn, serve, shut, closers, server, taken>>

Nothing == [busy |-> FALSE, conns |-> {}, server |-> 0]

NewProxy ==
  /\ proxy \in {"tcp", "quic", "websocket"}
  /\ xstatus = "inactive"
  /\ conn = [c \in Conns |-> "none"] /\ worker = [c \in Conns |-> "none"]
  /\ connections = {}
  /\ lsn = [s \in Servers |-> "none"] /\ serve = [s \in Servers |-> "none"]
  /\ shut = {} /\ closers = {} /\ server = 0 /\ taken = Nothing

Idle == ~taken.busy

-----------------------------------------------------------------------------

\* The ping fails, or the websocket cannot listen.
ConnectFails ==
  /\ Idle /\ xstatus' = "failed"
  /\ UNCHANGED <<proxy, conn, worker, connections, lsn, serve, shut, closers, server, taken>>

\* Nobody answers the dial: ping-only mode.
DialFails ==
  /\ Idle /\ xstatus' = "active"
  /\ UNCHANGED <<proxy, conn, worker, connections, lsn, serve, shut, closers, server, taken>>

\* Mutant: the connection is left to its goroutine.
DialUnlisted(c) ==
  /\ Idle /\ conn[c] = "none" /\ xstatus' = "active"
  /\ conn' = [conn EXCEPT ![c] = "open"] /\ worker' = [worker EXCEPT ![c] = "listed"]
  /\ UNCHANGED <<proxy, connections, lsn, serve, shut, closers, server, taken>>

\* Connect of tcp and quic, ConnectClient of websocket: the connection is
\* listed, its goroutine started.
Dial(c) ==
  /\ Idle /\ conn[c] = "none" /\ xstatus' = "active"
  /\ conn' = [conn EXCEPT ![c] = "open"] /\ worker' = [worker EXCEPT ![c] = "listed"]
  /\ connections' = connections \cup {c}
  /\ UNCHANGED <<proxy, lsn, serve, shut, closers, server, taken>>

\* proxy of tcp.go: the context is done, the connection is closed; it stays
\* listed.
TcpWorker(c) ==
  /\ proxy = "tcp" /\ worker[c] = "listed"
  /\ conn' = [conn EXCEPT ![c] = "closed"] /\ worker' = [worker EXCEPT ![c] = "done"]
  /\ UNCHANGED <<proxy, xstatus, connections, lsn, serve, shut, closers, server, taken>>

\* acceptStreams of quic.go returns and leaves the connection open, which its
\* peer or the idle timeout may close.
QuicWorker(c) ==
  /\ proxy = "quic" /\ worker[c] = "listed"
  /\ worker' = [worker EXCEPT ![c] = "done"]
  /\ UNCHANGED <<proxy, xstatus, conn, connections, lsn, serve, shut, closers, server, taken>>

IdleTimeout(c) ==
  /\ proxy = "quic" /\ conn[c] = "open"
  /\ conn' = [conn EXCEPT ![c] = "closed"]
  /\ UNCHANGED <<proxy, xstatus, worker, connections, lsn, serve, shut, closers, server, taken>>

\* Connect of websocket.go takes the place of a server before it.  An address
\* that is still listened on cannot be listened on again.
Listen(s) ==
  /\ proxy = "websocket" /\ Idle
  /\ lsn[s] = "none" /\ \A t \in Servers : lsn[t] # "open"
  /\ lsn' = [lsn EXCEPT ![s] = "open"] /\ serve' = [serve EXCEPT ![s] = "started"]
  /\ server' = s /\ closers' = closers \cup {s} /\ xstatus' = "active"
  /\ UNCHANGED <<proxy, conn, worker, connections, shut, taken>>

\* Serve: on a closed server it closes the listener and returns, at the start
\* or as soon as its listener is closed.
Serve(s) ==
  /\ \/ /\ serve[s] = "started" /\ s \notin shut
        /\ serve' = [serve EXCEPT ![s] = "tracked"] /\ UNCHANGED lsn
     \/ /\ \/ serve[s] = "started" /\ s \in shut
           \/ serve[s] = "tracked" /\ lsn[s] = "closed"
        /\ serve' = [serve EXCEPT ![s] = "done"] /\ lsn' = [lsn EXCEPT ![s] = "closed"]
  /\ UNCHANGED <<proxy, xstatus, conn, worker, connections, shut, closers, server, taken>>

\* srv.Close closes the listener if Serve has got it; not the connections that
\* were upgraded.
CloseServer(s) ==
  /\ shut' = shut \cup {s}
  /\ lsn' = IF serve[s] = "tracked" THEN [lsn EXCEPT ![s] = "closed"] ELSE lsn

\* The goroutine that waits for the context.
Closer(s) ==
  /\ s \in closers
  /\ closers' = closers \ {s}
  /\ CloseServer(s)
  /\ UNCHANGED <<proxy, xstatus, conn, worker, connections, serve, server, taken>>

\* A request of a client is accepted and upgraded: handleUpgrade.
Upgrade(s, c) ==
  /\ serve[s] = "tracked" /\ lsn[s] = "open" /\ conn[c] = "none"
  /\ conn' = [conn EXCEPT ![c] = "open"] /\ worker' = [worker EXCEPT ![c] = "accepted"]
  /\ UNCHANGED <<proxy, xstatus, connections, lsn, serve, shut, closers, server, taken>>

HandleUpgrade(c) ==
  /\ worker[c] = "accepted"
  /\ worker' = [worker EXCEPT ![c] = "listed"] /\ connections' = connections \cup {c}
  /\ UNCHANGED <<proxy, xstatus, conn, lsn, serve, shut, closers, server, taken>>

\* handleConn: the context is done, the connection is closed and unlisted.
HandleConn(c) ==
  /\ proxy = "websocket" /\ worker[c] = "listed"
  /\ conn' = [conn EXCEPT ![c] = "closed"] /\ worker' = [worker EXCEPT ![c] = "done"]
  /\ connections' = connections \ {c}
  /\ UNCHANGED <<proxy, xstatus, lsn, serve, shut, closers, server, taken>>

-----------------------------------------------------------------------------

\* Mutant: only the server is taken.
TakeServer ==
  /\ Idle
  /\ taken' = [busy |-> TRUE, conns |-> {}, server |-> server]
  /\ server' = 0
  /\ xstatus' = IF proxy = "websocket" THEN xstatus ELSE "inactive"
  /\ UNCHANGED <<proxy, conn, worker, connections, lsn, serve, shut, closers>>

\* Disconnect takes what is listed, under the lock ...
Take ==
  /\ Idle
  /\ taken' = [busy |-> TRUE, conns |-> connections, server |-> server]
  /\ connections' = {} /\ server' = 0
  /\ xstatus' = IF proxy = "websocket" THEN xstatus ELSE "inactive"
  /\ UNCHANGED <<proxy, conn, worker, lsn, serve, shut, closers>>

\* ... and closes it; websocket closes its server, its listener, and calls
\* BaseDisconnect last.
CloseTaken ==
  /\ ~Idle
  /\ conn' = [c \in Conns |-> IF c \in taken.conns THEN "closed" ELSE conn[c]]
  /\ shut' = shut \cup ({taken.server} \ {0})
  /\ lsn' = [s \in Servers |-> IF s = taken.server THEN "closed" ELSE lsn[s]]
  /\ xstatus' = "inactive" /\ taken' = Nothing
  /\ UNCHANGED <<proxy, worker, connections, serve, closers, server>>

Goroutine ==
  \/ \E c \in Conns : TcpWorker(c) \/ QuicWorker(c) \/ HandleUpgrade(c) \/ HandleConn(c)
  \/ \E s \in Servers : Serve(s) \/ Closer(s)

ProxiesNext ==
  \/ ConnectFails \/ DialFails \/ Take \/ CloseTaken \/ Goroutine
  \/ \E c \in Conns : Dial(c) \/ IdleTimeout(c) \/ \E s \in Servers : Upgrade(s, c)
  \/ \E s \in Servers : Listen(s)

\* A Disconnect that has begun goes on and goroutines run: between them they
\* have finitely much to do, so one condition covers them all.
ProxiesFairness == WF_xvars(Goroutine) /\ WF_xvars(CloseTaken)

ProxiesSpec == NewProxy /\ [][ProxiesNext]_xvars /\ ProxiesFairness

-----------------------------------------------------------------------------

\* The types; a Disconnect takes no more than there is.
ProxiesTypeOK ==
  /\ xstatus \in {"inactive", "active", "failed"}
  /\ connections \subseteq {c \in Conns : conn[c] # "none"}
  /\ server \in Servers \cup {0}
  /\ \A s \in Servers : lsn[s] = "none" <=> serve[s] = "none"

\* Nothing leaks: an open connection is listed, or somebody who holds it is
\* about to close it; so is a listener.
NothingUnowned ==
  /\ \A c \in Conns : conn[c] = "open" =>
       \/ c \in connections \cup taken.conns
       \/ worker[c] \in {"accepted", "listed"} /\ proxy # "quic"
  /\ \A s \in Servers : lsn[s] = "open" =>
       s \in {server, taken.server} \cup closers \/ serve[s] = "started"

\* A disconnected proxy comes to rest with everything closed, unless Connect is
\* called again: a request accepted while Disconnect ran is no exception.
ProxiesClose ==
  xstatus = "inactive" ~>
    \/ xstatus # "inactive"
    \/ /\ \A c \in Conns : conn[c] # "open"
       /\ \A s \in Servers : lsn[s] # "open"
=============================================================================
