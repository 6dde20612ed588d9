------------------------------ MODULE Streams ------------------------------
(***************************************************************************)
(* The transports that are streams to a proxy protocol's server: vless.go, *)
(* whose TLS connection keeps its own keys, and reality.go, whose keys are *)
(* fields of the transport that each handshake overwrites.  Connect and    *)
(* Disconnect are called by one owner, Write by others at any time.        *)
(*                                                                         *)
(* One call of Write of VLESS is one write to its TLS connection.  Reality *)
(* seals the frame under a lock and then writes its length and its body to *)
(* the connection, one after the other, under none: between the two, parts *)
(* of another writer's frame may go out.  What the server at the other end *)
(* makes of the parts is in expects and lost: it reads a length, then that *)
(* many bytes, which it opens with the keys of its own handshake.          *)
(***************************************************************************)
EXTENDS Integers

CONSTANTS
  Links,       \* bound: connections dialed, numbered from 1
  Writers      \* goroutines that call Write

ASSUME StreamsAssumption == Links \subseteq Nat \ {0}

VARIABLES
  stream,      \* "vless" or "reality"
  keyObject,   \* privateKey is set: it is not if the key was given by the config
  sstatus,     \* the transport's status
  step,        \* how far Connect is: "idle", "dial", "shake", "adopt", "panicked"
  link,        \* the connection that Connect has dialed, 0 for none
  sconn,       \* the field conn, 0 for nil
  up,          \* connections that are open
  used,        \* connections dialed so far
  keys,        \* the connection whose handshake has set the keys, 0 for none
  writing,     \* each writer's call: the connection read from the field, 0 for none,
               \* what is next ("none", "seal", "length", "body"), the keys it sealed with
  expects,     \* whose body the server of a connection has to read next, if any
  lost,        \* connections whose server got something it cannot read
  replaced,    \* history: connections that a Connect has found in the field conn
  concurrent   \* history: connections on which two calls of Write were under way

received == <<expects, lost>>
svars  == <<stream, keyObject, sstatus, step, link, sconn, up, used, keys, writing, received,
            replaced, concurrent>>

NoWrite == [conn |-> 0, at |-> "none", keys |-> 0]

\* Init of VLESS demands the uuid; Init of Reality makes a key if it is given none.
NewStream ==
  /\ stream \in {"vless", "reality"}
  /\ keyObject \in BOOLEAN /\ (stream = "vless" => keyObject)
  /\ sstatus = "inactive" /\ step = "idle" /\ link = 0 /\ sconn = 0
  /\ up = {} /\ used = {} /\ keys = 0
  /\ writing = [w \in Writers |-> NoWrite]
  /\ expects = [l \in Links |-> {}] /\ lost = {} /\ replaced = {} /\ concurrent = {}

-----------------------------------------------------------------------------

\* BaseConnectInit: too much loss.
StreamUnreachable ==
  /\ step = "idle" /\ sstatus' = "failed"
  /\ UNCHANGED <<stream, keyObject, step, link, sconn, up, used, keys, writing, received, replaced, concurrent>>

\* Connect does not look at a connection that it may have made before.
StreamConnect ==
  /\ step = "idle" /\ step' = "dial" /\ sstatus' = "testing"
  /\ replaced' = replaced \cup ({sconn} \ {0})
  /\ UNCHANGED <<stream, keyObject, link, sconn, up, used, keys, writing, received, concurrent>>

StreamDial(l) ==
  /\ step = "dial" /\ l \notin used /\ \A k \in Links : k < l => k \in used
  /\ step' = "shake" /\ link' = l
  /\ up' = up \cup {l} /\ used' = used \cup {l}
  /\ UNCHANGED <<stream, keyObject, sstatus, sconn, keys, writing, received, replaced, concurrent>>

StreamDialFails ==
  /\ step = "dial" /\ step' = "idle" /\ sstatus' = "failed"
  /\ UNCHANGED <<stream, keyObject, link, sconn, up, used, keys, writing, received, replaced, concurrent>>

\* performHandshake authenticates with the key object, there or not.
HandshakePanics ==
  /\ step = "shake" /\ ~keyObject /\ step' = "panicked"
  /\ UNCHANGED <<stream, keyObject, sstatus, link, sconn, up, used, keys, writing, received, replaced, concurrent>>

\* Mutant: the keys of the first handshake are kept.
DeriveKeysOnce ==
  /\ step = "shake" /\ keyObject
  /\ step' = "adopt"
  /\ keys' = IF stream = "reality" /\ keys = 0 THEN link ELSE keys
  /\ UNCHANGED <<stream, keyObject, sstatus, link, sconn, up, used, writing, received, replaced, concurrent>>

\* The answer is used for new keys, or comes to nothing before; then it is verified.
DeriveKeys ==
  /\ step = "shake" /\ keyObject
  /\ step' = "adopt"
  /\ keys' = IF stream = "reality" THEN link ELSE keys
  /\ UNCHANGED <<stream, keyObject, sstatus, link, sconn, up, used, writing, received, replaced, concurrent>>

\* An error at either point closes the connection; the keys stay as they are.
HandshakeFails ==
  /\ step \in {"shake", "adopt"} /\ keyObject
  /\ step' = "idle" /\ sstatus' = "failed"
  /\ up' = up \ {link} /\ link' = 0
  /\ UNCHANGED <<stream, keyObject, sconn, used, keys, writing, received, replaced, concurrent>>

Adopt ==
  /\ step = "adopt" /\ step' = "idle" /\ sstatus' = "active"
  /\ sconn' = link /\ link' = 0
  /\ UNCHANGED <<stream, keyObject, up, used, keys, writing, received, replaced, concurrent>>

StreamDisconnect ==
  /\ step = "idle" /\ sstatus' = "inactive"
  /\ up' = up \ {sconn} /\ sconn' = 0
  /\ UNCHANGED <<stream, keyObject, step, link, used, keys, writing, received, replaced, concurrent>>

\* Write reads the field under the lock ...
BeginWrite(w) ==
  /\ step # "panicked" /\ writing[w] = NoWrite /\ sconn # 0
  /\ writing' = [writing EXCEPT ![w] =
       IF stream = "reality" THEN [conn |-> sconn, at |-> "seal", keys |-> 0]
                             ELSE [conn |-> sconn, at |-> "body", keys |-> sconn]]
  /\ concurrent' = IF \E u \in Writers : writing[u].conn = sconn
                   THEN concurrent \cup {sconn} ELSE concurrent
  /\ UNCHANGED <<stream, keyObject, sstatus, step, link, sconn, up, used, keys, received, replaced>>

\* ... seals what it was given with the keys there are by then ...
Seal(w) ==
  /\ step # "panicked" /\ writing[w].at = "seal"
  /\ writing' = [writing EXCEPT ![w] = [conn |-> @.conn, at |-> "length", keys |-> keys]]
  /\ UNCHANGED <<stream, keyObject, sstatus, step, link, sconn, up, used, keys, received,
                 replaced, concurrent>>

\* ... and sends the length, if the connection is still open; a server that has
\* another body to read takes it for a part of that ...
SendLength(w) ==
  /\ step # "panicked" /\ writing[w].at = "length"
  /\ LET l == writing[w].conn IN
     IF l \in up
     THEN /\ expects' = [expects EXCEPT ![l] = {w}]
          /\ lost' = IF expects[l] = {} THEN lost ELSE lost \cup {l}
          /\ writing' = [writing EXCEPT ![w].at = "body"]
     ELSE writing' = [writing EXCEPT ![w] = NoWrite] /\ UNCHANGED received
  /\ UNCHANGED <<stream, keyObject, sstatus, step, link, sconn, up, used, keys, replaced,
                 concurrent>>

\* ... and then the body, or all there is in the case of VLESS.
SendFrame(w) ==
  /\ step # "panicked" /\ writing[w].at = "body"
  /\ LET l     == writing[w].conn
         turn  == IF stream = "reality" THEN {w} ELSE {}
     IN IF l \in up
        THEN /\ expects' = [expects EXCEPT ![l] = {}]
             /\ lost' = IF expects[l] = turn /\ writing[w].keys = l THEN lost
                        ELSE lost \cup {l}
        ELSE UNCHANGED received
  /\ writing' = [writing EXCEPT ![w] = NoWrite]
  /\ UNCHANGED <<stream, keyObject, sstatus, step, link, sconn, up, used, keys, replaced,
                 concurrent>>

WriteStep(w) == BeginWrite(w) \/ Seal(w) \/ SendLength(w) \/ SendFrame(w)

StreamsNext ==
  \/ StreamUnreachable \/ StreamConnect \/ StreamDialFails \/ \E l \in Links : StreamDial(l)
  \/ HandshakePanics \/ DeriveKeys \/ HandshakeFails \/ Adopt \/ StreamDisconnect
  \/ \E w \in Writers : WriteStep(w)

StreamsSpec == NewStream /\ [][StreamsNext]_svars

-----------------------------------------------------------------------------

\* The types; a Connect that is not under way has left none but adopted connections.
StreamsTypeOK ==
  /\ stream \in {"vless", "reality"} /\ keyObject \in BOOLEAN
  /\ sstatus \in {"inactive", "testing", "active", "failed"}
  /\ step \in {"idle", "dial", "shake", "adopt", "panicked"}
  /\ up \subseteq used /\ used \subseteq Links
  /\ sconn \in up \cup {0} /\ keys \in used \cup {0}
  /\ link \in up \cup {0} /\ (step \in {"shake", "adopt", "panicked"} <=> link # 0)
  /\ writing \in [Writers -> [conn : used \cup {0}, at : {"none", "seal", "length", "body"},
                              keys : used \cup {0}]]
  /\ \A w \in Writers : writing[w].conn = 0 <=> writing[w] = NoWrite
  /\ expects \in [Links -> SUBSET Writers]
  /\ lost \subseteq used /\ replaced \subseteq used /\ concurrent \subseteq used

\* Only two things make what is written to a connection unreadable for its server, at
\* whatever point of a Connect or a Disconnect the steps of a Write fall: a Connect that
\* began while the connection was in the field, whose handshake takes the keys away, or
\* two calls of Write on it at the same time, whose parts may mix; and neither does for
\* VLESS.
FramesReadable ==
  \A l \in lost : stream = "reality" /\ l \in replaced \cup concurrent
=============================================================================
