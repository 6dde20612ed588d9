-------------------------- MODULE TransportsProofs --------------------------
(* Theorems about Streams, Proxies and Transports, each by itself, and      *)
(* about MCTunnels, which has them side by side with TunnelProcess.         *)
EXTENDS MCTunnels, TunnelProofs

-----------------------------------------------------------------------------
(***************************************************************************)
(* Streams, for any number of connections and writers.                     *)
(*                                                                         *)
(* FramesReadable alone is not inductive.  Of a connection that no Connect *)
(* has found in the field, the keys are right: it is open only while it is *)
(* in the field or being dialed (OneOpen, DialedUnread), so a Write that   *)
(* has read it and can still send is at work on the one in the field       *)
(* (WritersHoldCurrent), whose handshake was the last (KeysAreLatest), and *)
(* has sealed with its keys (SealedRight).  Of one on which no two Writes  *)
(* have met (Alone), the server expects just what that Write sends next    *)
(* (InTurn).                                                               *)
(***************************************************************************)

OneOpen ==
  /\ up \subseteq {sconn, link} \cup replaced
  /\ step # "idle" => sconn \in {0} \cup replaced

DialedUnread == link # 0 => link # sconn /\ \A w \in Writers : writing[w].conn # link

\* Whose keys the transport holds: of the connection in the field, and of the
\* one about to be put there.
KeysAreLatest ==
  stream = "reality" =>
    /\ sconn \notin {0} \cup replaced => keys = sconn
    /\ step = "adopt" => keys = link

\* What a Write still at work has read is in the field, or closed.
WritersHoldCurrent ==
  \A w \in Writers : writing[w].conn \in up \ replaced => writing[w].conn = sconn

SealedRight ==
  \A w \in Writers :
    writing[w].at \in {"length", "body"} /\ writing[w].conn \in up \ replaced
      => writing[w].keys = writing[w].conn

Alone ==
  \A u, w \in Writers :
    writing[u].conn = writing[w].conn /\ writing[w].conn \notin {0} \cup concurrent => u = w

\* The server of a connection on which one Write at a time is at work waits for
\* the body of the Write that has sent its length; that of VLESS for none.
InTurn ==
  /\ \A l \in Links \ used : expects[l] = {}
  /\ \A w \in Writers : stream = "vless" => writing[w].at \in {"none", "body"}
  /\ \A w \in Writers : writing[w].at = "none" => writing[w].conn = 0
  /\ \A l \in up : stream = "vless" => expects[l] = {}
  /\ \A w \in Writers, l \in up \ concurrent :
       stream = "reality" => (w \in expects[l] <=> writing[w].conn = l /\ writing[w].at = "body")

VlessKeys ==
  stream = "vless" => \A w \in Writers : writing[w].keys = writing[w].conn

StreamsInv ==
  /\ StreamsTypeOK
  /\ OneOpen /\ DialedUnread /\ KeysAreLatest /\ WritersHoldCurrent
  /\ SealedRight /\ Alone /\ InTurn /\ VlessKeys
  /\ FramesReadable

\* What a step of Connect or Disconnect leaves to the parts about Write.
WriteParts == SealedRight /\ Alone /\ InTurn /\ VlessKeys /\ FramesReadable

USE DEF StreamsTypeOK, NoWrite, received

LEMMA StreamsInvInit == NewStream => StreamsInv
<1> SUFFICES ASSUME NewStream PROVE StreamsInv
  OBVIOUS
<1>1. StreamsTypeOK
  BY StreamsAssumption DEF StreamsAssumption, NewStream
<1>2. OneOpen /\ DialedUnread /\ KeysAreLatest /\ WritersHoldCurrent
  BY DEF NewStream, OneOpen, DialedUnread, KeysAreLatest, WritersHoldCurrent
<1>3. SealedRight /\ Alone /\ InTurn /\ VlessKeys /\ FramesReadable
  BY DEF NewStream, SealedRight, Alone, InTurn, VlessKeys, FramesReadable
<1>4. QED
  BY <1>1, <1>2, <1>3 DEF StreamsInv

\* No Write is touched, and no connection it may be at work on is opened: what is said
\* of the Writes stays true.
LEMMA WritePartsKept ==
  ASSUME StreamsInv, StreamsTypeOK',
         UNCHANGED <<stream, writing, received, concurrent>>,
         replaced \subseteq replaced', used \subseteq used', up' \subseteq up
  PROVE  WriteParts'
<1>1. SealedRight' /\ Alone' /\ VlessKeys'
  BY DEF StreamsInv, SealedRight, Alone, VlessKeys
<1>2. InTurn'
  BY DEF StreamsInv, InTurn
<1>3. FramesReadable'
  BY DEF StreamsInv, FramesReadable
<1>4. QED
  BY <1>1, <1>2, <1>3 DEF WriteParts

\* A dialed connection is new: nobody has read it, and nothing else is open.
LEMMA DialKeepsInv ==
  ASSUME StreamsInv, NEW l \in Links, StreamDial(l)
  PROVE  StreamsInv'
<1> USE StreamsAssumption DEF StreamsAssumption, StreamDial
<1>1. StreamsTypeOK'
  BY DEF StreamsInv
<1>2. \A w \in Writers : writing[w].conn # l
  BY DEF StreamsInv
<1>3. OneOpen' /\ DialedUnread'
  BY <1>2 DEF StreamsInv, OneOpen, DialedUnread
<1>4. KeysAreLatest' /\ WritersHoldCurrent' /\ FramesReadable'
  BY <1>2 DEF StreamsInv, OneOpen, KeysAreLatest, WritersHoldCurrent, FramesReadable
<1>5. SealedRight' /\ Alone' /\ VlessKeys'
  BY <1>2 DEF StreamsInv, SealedRight, Alone, VlessKeys
<1>6. InTurn'
  BY <1>2 DEF StreamsInv, InTurn
<1>7. QED
  BY <1>1, <1>3, <1>4, <1>5, <1>6 DEF StreamsInv

\* The steps of Connect after the dial.
LEMMA HandshakeKeepsInv ==
  ASSUME StreamsInv, DeriveKeys \/ HandshakePanics \/ HandshakeFails \/ Adopt
  PROVE  StreamsInv'
<1> USE StreamsAssumption DEF StreamsAssumption
<1>1. StreamsTypeOK' /\ OneOpen' /\ DialedUnread'
  BY DEF DeriveKeys, HandshakePanics, HandshakeFails, Adopt, StreamsInv, OneOpen, DialedUnread
<1>2. WriteParts'
  <2>1. /\ UNCHANGED <<stream, writing, received, concurrent, replaced, used>>
        /\ up' \subseteq up
    BY DEF DeriveKeys, HandshakePanics, HandshakeFails, Adopt
  <2>2. QED
    BY <1>1, <2>1, WritePartsKept
<1>3. KeysAreLatest'
  BY DEF DeriveKeys, HandshakePanics, HandshakeFails, Adopt, StreamsInv, OneOpen, KeysAreLatest
<1>4. WritersHoldCurrent'
  BY DEF DeriveKeys, HandshakePanics, HandshakeFails, Adopt, StreamsInv, OneOpen,
     WritersHoldCurrent
<1>5. QED
  BY <1>1, <1>2, <1>3, <1>4 DEF StreamsInv, WriteParts

\* Write reads the connection in the field: the only one that is at work on it, or one of two.
LEMMA BeginKeepsInv ==
  ASSUME StreamsInv, NEW w \in Writers, BeginWrite(w)
  PROVE  StreamsInv'
<1> USE StreamsAssumption DEF StreamsAssumption, BeginWrite
<1>1. StreamsTypeOK'
  <2>1. PICK call \in [conn : used, at : {"seal", "body"}, keys : used \cup {0}] :
          call.conn = sconn /\ writing' = [writing EXCEPT ![w] = call]
    <3>1. sconn \in used
      BY DEF StreamsInv
    <3> DEFINE fresh == IF stream = "reality" THEN [conn |-> sconn, at |-> "seal", keys |-> 0]
                        ELSE [conn |-> sconn, at |-> "body", keys |-> sconn]
    <3>2. fresh \in [conn : used, at : {"seal", "body"}, keys : used \cup {0}]
      BY <3>1
    <3>3. fresh.conn = sconn /\ writing' = [writing EXCEPT ![w] = fresh]
      OBVIOUS
    <3>4. QED
      BY <3>2, <3>3
  <2>2. \A u \in Writers : writing'[u] = IF u = w THEN call ELSE writing[u]
    BY <2>1 DEF StreamsInv
  <2>3. concurrent' \subseteq used
    BY DEF StreamsInv
  <2>4. writing' \in [Writers -> [conn : used \cup {0}, at : {"none", "seal", "length", "body"},
                                  keys : used \cup {0}]]
    BY <2>1 DEF StreamsInv
  <2>5. \A u \in Writers : writing'[u].conn = 0 <=> writing'[u] = NoWrite
    BY <2>1, <2>2 DEF StreamsInv
  <2>6. QED
    BY <2>3, <2>4, <2>5 DEF StreamsInv
<1>2. OneOpen' /\ DialedUnread' /\ KeysAreLatest' /\ WritersHoldCurrent'
  BY DEF StreamsInv, OneOpen, DialedUnread, KeysAreLatest, WritersHoldCurrent
<1>3. SealedRight' /\ VlessKeys' /\ FramesReadable'
  BY DEF StreamsInv, SealedRight, VlessKeys, FramesReadable
<1>4. Alone'
  BY DEF StreamsInv, Alone
<1>5. InTurn'
  BY DEF StreamsInv, InTurn
<1>6. QED
  BY <1>1, <1>2, <1>3, <1>4, <1>5 DEF StreamsInv

LEMMA SealKeepsInv ==
  ASSUME StreamsInv, NEW w \in Writers, Seal(w)
  PROVE  StreamsInv'
<1> USE StreamsAssumption DEF StreamsAssumption, Seal
<1>1. StreamsTypeOK'
  <2> DEFINE call == [conn |-> writing[w].conn, at |-> "length", keys |-> keys]
  <2>1. writing' = [writing EXCEPT ![w] = call]
    OBVIOUS
  <2>2. writing[w].conn # 0
    <3>1. writing[w] # NoWrite
      OBVIOUS
    <3>2. QED
      BY <3>1 DEF StreamsInv
  <2>6. call \in [conn : used, at : {"length"}, keys : used \cup {0}]
    BY <2>2 DEF StreamsInv
  <2>7. \A u \in Writers : writing'[u] = IF u = w THEN call ELSE writing[u]
    BY <2>1 DEF StreamsInv
  <2> HIDE DEF call
  <2>3. writing' \in [Writers -> [conn : used \cup {0}, at : {"none", "seal", "length", "body"},
                                  keys : used \cup {0}]]
    BY <2>1, <2>6 DEF StreamsInv
  <2>4. \A u \in Writers : writing'[u].conn = 0 <=> writing'[u] = NoWrite
    BY <2>6, <2>7 DEF StreamsInv
  <2>5. QED
    BY <2>3, <2>4 DEF StreamsInv
<1>2. OneOpen' /\ DialedUnread' /\ KeysAreLatest' /\ WritersHoldCurrent'
  BY DEF StreamsInv, OneOpen, DialedUnread, KeysAreLatest, WritersHoldCurrent
<1>3. stream = "reality"
  BY DEF StreamsInv, InTurn
<1>4. SealedRight'
  BY <1>3 DEF StreamsInv, SealedRight, WritersHoldCurrent, KeysAreLatest
<1>5. Alone' /\ InTurn' /\ VlessKeys' /\ FramesReadable'
  BY <1>3 DEF StreamsInv, Alone, InTurn, VlessKeys, FramesReadable
<1>6. QED
  BY <1>1, <1>2, <1>4, <1>5 DEF StreamsInv

\* A length goes out when the server expects one, if no other Write is at work.
LEMMA LengthKeepsInv ==
  ASSUME StreamsInv, NEW w \in Writers, SendLength(w)
  PROVE  StreamsInv'
<1> USE StreamsAssumption DEF StreamsAssumption, SendLength
<1> DEFINE l == writing[w].conn
<1>1. stream = "reality" /\ l \in Links
  BY DEF StreamsInv, InTurn
<1>2. CASE l \notin up
  <2>1. writing' = [writing EXCEPT ![w] = NoWrite] /\ UNCHANGED received
    BY <1>2
  <2>2. StreamsTypeOK'
    BY <2>1 DEF StreamsInv
  <2>3. OneOpen' /\ DialedUnread' /\ KeysAreLatest' /\ WritersHoldCurrent'
    BY <2>1 DEF StreamsInv, OneOpen, DialedUnread, KeysAreLatest, WritersHoldCurrent
  <2>4. SealedRight' /\ Alone' /\ VlessKeys' /\ FramesReadable'
    BY <2>1 DEF StreamsInv, SealedRight, Alone, VlessKeys, FramesReadable
  <2>5. InTurn'
    BY <1>2, <2>1 DEF StreamsInv, InTurn
  <2>6. QED
    BY <2>2, <2>3, <2>4, <2>5 DEF StreamsInv
<1>3. CASE l \in up
  <2>1. /\ expects' = [expects EXCEPT ![l] = {w}]
        /\ lost' = IF expects[l] = {} THEN lost ELSE lost \cup {l}
        /\ writing' = [writing EXCEPT ![w].at = "body"]
    BY <1>3
  <2>2. StreamsTypeOK'
    BY <1>1, <2>1 DEF StreamsInv
  <2>3. OneOpen' /\ DialedUnread' /\ KeysAreLatest' /\ WritersHoldCurrent'
    BY <2>1 DEF StreamsInv, OneOpen, DialedUnread, KeysAreLatest, WritersHoldCurrent
  <2>4. SealedRight' /\ Alone' /\ VlessKeys'
    BY <1>1, <2>1 DEF StreamsInv, SealedRight, Alone, VlessKeys
  <2>5. l \notin concurrent => expects[l] = {}
    BY <1>1, <1>3 DEF StreamsInv, Alone, InTurn
  <2>6. FramesReadable'
    BY <1>1, <2>1, <2>5 DEF StreamsInv, FramesReadable
  <2>7. InTurn'
    <3>1. \A u \in Writers, k \in up \ concurrent :
            u \in expects'[k] <=> writing'[u].conn = k /\ writing'[u].at = "body"
      <4> TAKE u \in Writers, k \in up \ concurrent
      <4>1. CASE k = l
        BY <1>1, <2>1, <4>1 DEF StreamsInv, Alone
      <4>2. CASE k # l
        BY <1>1, <2>1, <4>2 DEF StreamsInv, InTurn
      <4>3. QED
        BY <4>1, <4>2
    <3>2. QED
      BY <1>1, <1>3, <2>1, <3>1 DEF StreamsInv, InTurn
  <2>8. QED
    BY <2>2, <2>3, <2>4, <2>6, <2>7 DEF StreamsInv
<1>4. QED
  BY <1>2, <1>3

\* A body goes out when the server expects it, sealed with its keys.
LEMMA FrameKeepsInv ==
  ASSUME StreamsInv, NEW w \in Writers, SendFrame(w)
  PROVE  StreamsInv'
<1> USE StreamsAssumption DEF StreamsAssumption, SendFrame
<1> DEFINE l == writing[w].conn
<1>1. l \in Links /\ writing' = [writing EXCEPT ![w] = NoWrite]
  <2>1. writing[w] # NoWrite
    OBVIOUS
  <2>2. QED
    BY <2>1 DEF StreamsInv
<1>2. /\ expects' = IF l \in up THEN [expects EXCEPT ![l] = {}] ELSE expects
      /\ lost' \in {lost, lost \cup {l}}
      /\ lost' # lost => l \in up
  OBVIOUS
<1>3. StreamsTypeOK'
  BY <1>1, <1>2 DEF StreamsInv
<1>4. OneOpen' /\ DialedUnread' /\ KeysAreLatest' /\ WritersHoldCurrent'
  BY <1>1 DEF StreamsInv, OneOpen, DialedUnread, KeysAreLatest, WritersHoldCurrent
<1>5. SealedRight' /\ Alone' /\ VlessKeys'
  BY <1>1 DEF StreamsInv, SealedRight, Alone, VlessKeys
<1>6. FramesReadable'
  <2>1. ASSUME lost' # lost
        PROVE  stream = "reality" /\ l \in replaced \cup concurrent
    <3>1. CASE stream = "vless"
      BY <1>2, <2>1, <3>1 DEF StreamsInv, InTurn, VlessKeys
    <3>2. CASE stream = "reality" /\ l \notin replaced \cup concurrent
      <4>1. writing[w].keys = l
        BY <1>2, <2>1, <3>2 DEF StreamsInv, SealedRight
      <4>2. \A u \in Writers : u \in expects[l] <=> u = w
        <5>1. l \in up \ concurrent /\ l \notin {0} \cup concurrent
          BY <1>1, <1>2, <2>1, <3>2
        <5>2. \A u \in Writers : u \in expects[l] <=> writing[u].conn = l /\ writing[u].at = "body"
          BY <3>2, <5>1 DEF StreamsInv, InTurn
        <5>3. \A u \in Writers : writing[u].conn = l => u = w
          BY <5>1 DEF StreamsInv, Alone
        <5>4. QED
          BY <5>2, <5>3
      <4>4. expects[l] = {w}
        <5>1. expects[l] \subseteq Writers
          BY <1>1 DEF StreamsInv
        <5>2. QED
          BY <4>2, <5>1
      <4>3. QED
        BY <2>1, <3>2, <4>1, <4>4
    <3>3. QED
      BY <3>1, <3>2 DEF StreamsInv
  <2>2. QED
    BY <1>2, <2>1 DEF StreamsInv, FramesReadable
<1>7. InTurn'
  <2>1. \A u \in Writers, k \in up \ concurrent : stream = "reality" =>
          (u \in expects'[k] <=> writing'[u].conn = k /\ writing'[u].at = "body")
    <3> TAKE u \in Writers, k \in up \ concurrent
    <3>1. CASE k = l
      BY <1>1, <1>2, <3>1 DEF StreamsInv, Alone
    <3>2. CASE k # l
      BY <1>1, <1>2, <3>2 DEF StreamsInv, InTurn
    <3>3. QED
      BY <3>1, <3>2
  <2>2. QED
    BY <1>1, <1>2, <2>1 DEF StreamsInv, InTurn
<1>8. QED
  BY <1>3, <1>4, <1>5, <1>6, <1>7 DEF StreamsInv

LEMMA StreamsInvNext ==
  ASSUME StreamsInv, [StreamsNext]_svars
  PROVE  StreamsInv'
<1> USE StreamsAssumption DEF StreamsAssumption
<1>1. CASE StreamUnreachable \/ StreamConnect \/ StreamDialFails \/ StreamDisconnect
  <2>1. StreamsTypeOK' /\ OneOpen' /\ DialedUnread'
    BY <1>1 DEF StreamUnreachable, StreamConnect, StreamDialFails, StreamDisconnect,
       StreamsInv, OneOpen, DialedUnread
  <2>2. WriteParts'
    <3>1. /\ UNCHANGED <<stream, writing, received, concurrent, used>>
          /\ replaced \subseteq replaced' /\ up' \subseteq up
      BY <1>1 DEF StreamUnreachable, StreamConnect, StreamDialFails, StreamDisconnect
    <3>2. QED
      BY <2>1, <3>1, WritePartsKept
  <2>3. KeysAreLatest' /\ WritersHoldCurrent'
    BY <1>1 DEF StreamUnreachable, StreamConnect, StreamDialFails, StreamDisconnect,
       StreamsInv, KeysAreLatest, WritersHoldCurrent
  <2>4. QED
    BY <2>1, <2>2, <2>3 DEF StreamsInv, WriteParts
<1>2. CASE UNCHANGED svars
  BY <1>2 DEF svars, StreamsInv, OneOpen, DialedUnread, KeysAreLatest, WritersHoldCurrent,
     SealedRight, Alone, InTurn, VlessKeys, FramesReadable
<1>3. QED
  BY <1>1, <1>2, DialKeepsInv, HandshakeKeepsInv, BeginKeepsInv, SealKeepsInv, LengthKeepsInv,
     FrameKeepsInv DEF StreamsNext, WriteStep

LEMMA StreamsInvHolds == StreamsSpec => []StreamsInv
  BY StreamsInvInit, StreamsInvNext, PTL DEF StreamsSpec

\* The types: a Connect that is not under way has left none but adopted connections open
\* (Connect of vless.go and reality.go).
THEOREM StreamsTypeCorrect == StreamsSpec => []StreamsTypeOK
  BY StreamsInvHolds, PTL DEF StreamsInv

\* Whatever the steps of a Write fall between, only a Connect over a connection that is
\* still in use, or two Writes on it at once, can make it unreadable for its server
\* (Write and performHandshake of reality.go).
THEOREM FramesReadableTheorem == StreamsSpec => []FramesReadable
  BY StreamsInvHolds, PTL DEF StreamsInv

HIDE DEF StreamsTypeOK, NoWrite, received

-----------------------------------------------------------------------------
(***************************************************************************)
(* Proxies, for any number of connections and servers.                     *)
(*                                                                         *)
(* Who owns a listener changes hands: Connect's goroutine, the server that *)
(* Serve has told of it, Disconnect.  NothingUnowned is inductive with     *)
(* what each of them may rely on (ServerInv): a server that was made is    *)
(* waited for or closed, one that is closed has closed what it tracks, and *)
(* a Disconnect that is not under way holds nothing.                       *)
(***************************************************************************)

Places ==
  /\ proxy \in {"tcp", "quic", "websocket"}
  /\ conn \in [Conns -> {"none", "open", "closed"}]
  /\ worker \in [Conns -> {"none", "accepted", "listed", "done"}]
  /\ lsn \in [Servers -> {"none", "open", "closed"}]
  /\ serve \in [Servers -> {"none", "started", "tracked", "done"}]
  /\ taken \in [busy : BOOLEAN, conns : SUBSET Conns, server : Servers \cup {0}]

\* What is served, or taken to be closed, was opened.
Opened ==
  /\ \A c \in Conns : worker[c] # "none" \/ c \in taken.conns => conn[c] # "none"
  /\ \A s \in {server, taken.server} \cap Servers : serve[s] # "none"

ServerInv ==
  /\ Idle => taken.conns = {} /\ taken.server = 0
  /\ \A s \in Servers :
       /\ serve[s] # "none" => proxy = "websocket" /\ s \in closers \cup shut
       /\ serve[s] = "tracked" /\ s \in shut => lsn[s] = "closed"
       /\ serve[s] = "done" => lsn[s] = "closed"

ProxiesInv == Places /\ Opened /\ ProxiesTypeOK /\ ServerInv /\ NothingUnowned

USE ProxiesAssumption DEF ProxiesAssumption, Places, Opened, Idle

LEMMA ProxiesInvInit == NewProxy => ProxiesInv
  BY DEF NewProxy, Nothing, ProxiesInv, ProxiesTypeOK, ServerInv, NothingUnowned

\* The steps of Connect leave what there was as it was, and list what they add.
LEMMA ConnectKeepsInv ==
  ASSUME ProxiesInv,
         ConnectFails \/ DialFails \/ (\E c \in Conns : Dial(c)) \/ (\E s \in Servers : Listen(s))
  PROVE  ProxiesInv'
<1>1. CASE ConnectFails \/ DialFails
  BY <1>1 DEF ConnectFails, DialFails, ProxiesInv, ProxiesTypeOK, ServerInv, NothingUnowned
<1>2. ASSUME NEW c \in Conns, Dial(c)
      PROVE  ProxiesInv'
  <2>1. Places' /\ Opened' /\ ProxiesTypeOK'
    BY <1>2 DEF Dial, ProxiesInv, ProxiesTypeOK
  <2>2. ServerInv'
    BY <1>2 DEF Dial, ProxiesInv, ServerInv
  <2>3. NothingUnowned'
    BY <1>2 DEF Dial, ProxiesInv, NothingUnowned
  <2>4. QED
    BY <2>1, <2>2, <2>3 DEF ProxiesInv
<1>3. ASSUME NEW s \in Servers, Listen(s)
      PROVE  ProxiesInv'
  <2>1. Places' /\ Opened' /\ ProxiesTypeOK'
    BY <1>3 DEF Listen, ProxiesInv, ProxiesTypeOK
  <2>2. ServerInv'
    BY <1>3 DEF Listen, ProxiesInv, ServerInv
  <2>3. NothingUnowned'
    BY <1>3 DEF Listen, ProxiesInv, NothingUnowned
  <2>4. QED
    BY <2>1, <2>2, <2>3 DEF ProxiesInv
<1>4. QED
  BY <1>1, <1>2, <1>3

\* A goroutine that serves a connection closes it or leaves it listed.
LEMMA WorkerKeepsInv ==
  ASSUME ProxiesInv, NEW c \in Conns,
         \/ TcpWorker(c) \/ QuicWorker(c) \/ IdleTimeout(c)
         \/ HandleUpgrade(c) \/ HandleConn(c) \/ (\E s \in Servers : Upgrade(s, c))
  PROVE  ProxiesInv'
<1> USE DEF ProxiesInv, ProxiesTypeOK, ServerInv, NothingUnowned
<1>1. CASE TcpWorker(c)
  BY <1>1 DEF TcpWorker
<1>2. CASE QuicWorker(c)
  BY <1>2 DEF QuicWorker
<1>3. CASE IdleTimeout(c)
  BY <1>3 DEF IdleTimeout
<1>4. CASE HandleUpgrade(c)
  <2>1. worker' = [worker EXCEPT ![c] = "listed"]
    BY <1>4 DEF HandleUpgrade
  <2>2. conn[c] # "none"
    BY <1>4 DEF HandleUpgrade
  <2>3. Places' /\ Opened' /\ ProxiesTypeOK'
    BY <1>4, <2>1, <2>2 DEF HandleUpgrade
  <2>4. ServerInv' /\ NothingUnowned'
    BY <1>4, <2>1 DEF HandleUpgrade
  <2>5. QED
    BY <2>3, <2>4
<1>5. CASE HandleConn(c)
  BY <1>5 DEF HandleConn
<1>6. ASSUME NEW s \in Servers, Upgrade(s, c)
      PROVE  ProxiesInv'
  BY <1>6 DEF Upgrade
<1>7. QED
  BY <1>1, <1>2, <1>3, <1>4, <1>5, <1>6

\* The goroutines of a server: what one no longer owns, the other has.
LEMMA ServerKeepsInv ==
  ASSUME ProxiesInv, NEW s \in Servers, Serve(s) \/ Closer(s)
  PROVE  ProxiesInv'
<1>1. Places' /\ Opened' /\ ProxiesTypeOK'
  BY DEF Serve, Closer, CloseServer, ProxiesInv, ProxiesTypeOK
<1>2. ServerInv'
  BY DEF Serve, Closer, CloseServer, ProxiesInv, ServerInv
<1>3. NothingUnowned'
  <2>1. \A c \in Conns : conn'[c] = "open" =>
          \/ c \in connections' \cup taken'.conns
          \/ worker'[c] \in {"accepted", "listed"} /\ proxy' # "quic"
    BY DEF Serve, Closer, ProxiesInv, NothingUnowned
  <2>2. CASE Serve(s)
    BY <2>1, <2>2 DEF Serve, ProxiesInv, ServerInv, ProxiesTypeOK, NothingUnowned
  <2>3. CASE Closer(s)
    BY <2>1, <2>3 DEF Closer, CloseServer, ProxiesInv, ServerInv, ProxiesTypeOK, NothingUnowned
  <2>4. QED
    BY <2>2, <2>3
<1>4. QED
  BY <1>1, <1>2, <1>3 DEF ProxiesInv

\* Disconnect holds what it has taken off the lists until it has closed it.
LEMMA DisconnectKeepsInv ==
  ASSUME ProxiesInv, Take \/ CloseTaken
  PROVE  ProxiesInv'
<1>1. CASE Take
  <2>1. Places' /\ Opened' /\ ProxiesTypeOK' /\ ServerInv'
    BY <1>1 DEF Take, ProxiesInv, ProxiesTypeOK, ServerInv
  <2>2. NothingUnowned'
    BY <1>1 DEF Take, ProxiesInv, ServerInv, NothingUnowned
  <2>3. QED
    BY <2>1, <2>2 DEF ProxiesInv
<1>2. CASE CloseTaken
  <2>1. Places' /\ Opened'
    <3>1. Places'
      BY <1>2 DEF CloseTaken, Nothing, ProxiesInv
    <3>2. Opened'
      BY <1>2 DEF CloseTaken, Nothing, ProxiesInv, ProxiesTypeOK
    <3>3. QED
      BY <3>1, <3>2
  <2>5. ProxiesTypeOK'
    <3>1. \A c \in Conns : conn'[c] # "none" <=> conn[c] # "none"
      BY <1>2 DEF CloseTaken, ProxiesInv
    <3>2. QED
      BY <1>2, <3>1 DEF CloseTaken, ProxiesInv, ProxiesTypeOK, ServerInv
  <2>2. ServerInv'
    BY <1>2 DEF CloseTaken, Nothing, ProxiesInv, ServerInv
  <2>3. NothingUnowned'
    BY <1>2 DEF CloseTaken, Nothing, ProxiesInv, NothingUnowned
  <2>4. QED
    BY <2>1, <2>5, <2>2, <2>3 DEF ProxiesInv
<1>3. QED
  BY <1>1, <1>2

LEMMA ProxiesInvNext ==
  ASSUME ProxiesInv, [ProxiesNext]_xvars
  PROVE  ProxiesInv'
<1>1. CASE UNCHANGED xvars
  BY <1>1 DEF xvars, ProxiesInv, ProxiesTypeOK, ServerInv, NothingUnowned
<1>2. QED
  BY <1>1, ConnectKeepsInv, WorkerKeepsInv, ServerKeepsInv, DisconnectKeepsInv
  DEF ProxiesNext, Goroutine

LEMMA ProxiesInvHolds == ProxiesSpec => []ProxiesInv
  BY ProxiesInvInit, ProxiesInvNext, PTL DEF ProxiesSpec

\* The types: a listener exists exactly if somebody has been told to serve it (Connect of
\* websocket.go), and what is listed was opened.
THEOREM ProxiesTypeCorrect == ProxiesSpec => []ProxiesTypeOK
  BY ProxiesInvHolds, PTL DEF ProxiesInv

\* No connection or listener of tcp.go, quic.go and websocket.go is open that nobody is
\* going to close, wherever requests, goroutines and Disconnect meet.
THEOREM NothingUnownedTheorem == ProxiesSpec => []NothingUnowned
  BY ProxiesInvHolds, PTL DEF ProxiesInv

HIDE ProxiesAssumption DEF ProxiesAssumption, Places, Opened, Idle

-----------------------------------------------------------------------------
(***************************************************************************)
(* Transports, for any number of addresses and of files written.           *)
(*                                                                         *)
(* NoConfigLeft rests on one fact: unless the transport keeps its file,    *)
(* whatever it has written is on the list that Disconnect goes through, or *)
(* has outlived a Disconnect that failed to remove it, however many        *)
(* Connects have added to the list (DiskIsListed).                         *)
(***************************************************************************)

DiskIsListed == ~tunnel.kept => disk \subseteq ToSet(tmpFiles) \cup unremoved

TransportsInv == TransportsTypeOK /\ DiskIsListed /\ NoConfigLeft

\* The loss of three pings is a percentage.
LEMMA LossIsPercentage ==
  ASSUME NEW m \in Measurements
  PROVE  m.loss \in 0 .. 100
<1>1. PICK k \in 0 .. 3 : \E r \in [1 .. k -> RTTs] : m = MeasureLatency(r, 3)
  BY DEF Measurements
<1>2. PICK r \in [1 .. k -> RTTs] : m = MeasureLatency(r, 3)
  BY <1>1
<1>3. Len(r) = k
  BY <1>2
<1>4. m.loss = IF k = 0 THEN 100 ELSE ((3 - k) * 100) \div 3
  BY <1>2, <1>3 DEF MeasureLatency
<1>5. QED
  BY <1>4

\* UpdateStability stays between 0 and 1, in steps of 0.05.
LEMMA StabilityIsBounded ==
  ASSUME NEW stability \in 0 .. 20, NEW m
  PROVE  UpdateStability(stability, m) \in 0 .. 20
BY DEF UpdateStability

LEMMA PathIsPath ==
  ASSUME TransportsTypeOK, files < MaxFiles, NEW addr \in Addrs
  PROVE  Path(addr) \in Paths
BY TransportsAssumption DEF TransportsAssumption, TransportsTypeOK, Path, Paths

LEMMA TransportsInvInit == NewTransport => TransportsInv
<1> SUFFICES ASSUME NewTransport PROVE TransportsInv
  OBVIOUS
<1>1. TransportsTypeOK
  BY TransportsAssumption DEF TransportsAssumption, NewTransport, TransportsTypeOK, Paths
<1>2. DiskIsListed /\ NoConfigLeft
  BY DEF NewTransport, DiskIsListed, NoConfigLeft
<1>3. QED
  BY <1>1, <1>2 DEF TransportsInv

\* A Connect that writes its config adds it to the list, unless it is kept.
LEMMA ConfigKeepsInv ==
  ASSUME TransportsInv, NEW m \in Measurements, NEW addr \in Addrs, ConnectWithConfig(m, addr)
  PROVE  TransportsInv'
<1>1. Path(addr) \in Paths /\ m.loss \in 0 .. 100
  BY PathIsPath, LossIsPercentage DEF TransportsInv, ConnectWithConfig
<1>2. tmpFiles' \in Seq(Paths)
  BY <1>1 DEF ConnectWithConfig, AddTmpFile, TransportsInv, TransportsTypeOK
<1>3. TransportsTypeOK'
  BY <1>1, <1>2, TransportsAssumption
     DEF TransportsAssumption, ConnectWithConfig, With, TransportsInv, TransportsTypeOK
<1>4. DiskIsListed'
  <2>1. CASE tunnel.kept
    BY <2>1 DEF ConnectWithConfig, DiskIsListed
  <2>2. CASE ~tunnel.kept
    <3>1. tmpFiles \in Seq(Paths) /\ tmpFiles' = Append(tmpFiles, Path(addr))
      BY <2>2 DEF ConnectWithConfig, AddTmpFile, TransportsInv, TransportsTypeOK
    <3>2. ToSet(tmpFiles) \cup {Path(addr)} \subseteq ToSet(tmpFiles')
      BY <1>1, <3>1 DEF ToSet
    <3>3. QED
      BY <2>2, <3>2 DEF ConnectWithConfig, DiskIsListed, TransportsInv
  <2>3. QED
    BY <2>1, <2>2
<1>5. NoConfigLeft'
  BY DEF ConnectWithConfig, NoConfigLeft
<1>6. QED
  BY <1>3, <1>4, <1>5 DEF TransportsInv

LEMMA TransportsInvNext ==
  ASSUME TransportsInv, [TransportsNext]_tvars
  PROVE  TransportsInv'
<1>1. CASE DisconnectTunnel
  <2>1. PICK removed \in SUBSET ToSet(tmpFiles) :
          /\ disk' = disk \ removed /\ partial' = partial \ removed
          /\ unremoved' = (unremoved \cup ToSet(tmpFiles)) \ removed
    BY <1>1 DEF DisconnectTunnel
  <2>2. ToSet(tmpFiles) \subseteq Paths
    BY DEF ToSet, TransportsInv, TransportsTypeOK
  <2>3. TransportsTypeOK'
    BY <1>1, <2>1, <2>2 DEF DisconnectTunnel, TransportsInv, TransportsTypeOK
  <2>4. DiskIsListed' /\ NoConfigLeft'
    BY <1>1, <2>1 DEF DisconnectTunnel, TransportsInv, DiskIsListed, NoConfigLeft
  <2>5. QED
    BY <2>3, <2>4 DEF TransportsInv
<1>2. CASE InstallProgram \/ UNCHANGED tvars
  BY <1>2 DEF InstallProgram, tvars, onDisk, TransportsInv, TransportsTypeOK, DiskIsListed, NoConfigLeft
<1>3. ASSUME NEW m \in Measurements,
             \/ ConnectUnreachable(m) \/ ConnectPingOnly(m) \/ BaseScore(m)
             \/ \E addr \in Addrs : WriteFails(m, addr)
      PROVE  TransportsInv'
  <2>1. m.loss \in 0 .. 100
    BY LossIsPercentage
  <2>2. /\ metrics' \in {With(m, metrics.stability),
                        With(m, UpdateStability(metrics.stability, m))}
        /\ UNCHANGED <<tunnel, installed, tmpFiles, unremoved>>
    BY <1>3 DEF onDisk, ConnectUnreachable, ConnectPingOnly, WriteFails, BaseScore
  <2>3. metrics'.loss \in 0 .. 100 /\ metrics'.stability \in 0 .. 20
    <3>1. metrics.stability \in 0 .. 20
      BY DEF TransportsInv, TransportsTypeOK
    <3>2. UpdateStability(metrics.stability, m) \in 0 .. 20
      BY <3>1, StabilityIsBounded
    <3>3. QED
      BY <2>1, <2>2, <3>1, <3>2 DEF With
  <2>4. /\ cached' \in {cached, "yes", "no"}
        /\ tstatus' \in {tstatus, "failed", "active"} /\ result' \in {result, "nil", "error"}
    BY <1>3 DEF ConnectUnreachable, ConnectPingOnly, WriteFails, BaseScore, TransportsInv,
       TransportsTypeOK, Tunnels, FRP, Rathole, ShadowSOCKS, Hysteria, Backhaul, OpenVPN,
       IPsec, WireGuard
  <2>5. /\ disk' \subseteq disk /\ partial' \subseteq Paths /\ disk' \cap partial' = {}
        /\ files' \in 0 .. MaxFiles
    <3>1. CASE ConnectUnreachable(m) \/ ConnectPingOnly(m) \/ BaseScore(m)
      BY <3>1 DEF onDisk, ConnectUnreachable, ConnectPingOnly, BaseScore, TransportsInv,
         TransportsTypeOK
    <3>2. ASSUME NEW addr \in Addrs, WriteFails(m, addr)
          PROVE  /\ disk' \subseteq disk /\ partial' \subseteq Paths /\ disk' \cap partial' = {}
                 /\ files' \in 0 .. MaxFiles
      <4>1. files < MaxFiles => Path(addr) \in Paths
        BY PathIsPath DEF TransportsInv
      <4>2. QED
        BY <3>2, <4>1, TransportsAssumption
           DEF TransportsAssumption, WriteFails, TransportsInv, TransportsTypeOK
    <3>3. QED
      BY <1>3, <3>1, <3>2
  <2>6. TransportsTypeOK'
    BY <2>2, <2>3, <2>4, <2>5 DEF TransportsInv, TransportsTypeOK
  <2>7. DiskIsListed' /\ NoConfigLeft'
    <3>1. tstatus' = "inactive" => tstatus = "inactive"
      BY <2>4
    <3>2. QED
      BY <2>2, <2>5, <3>1 DEF TransportsInv, DiskIsListed, NoConfigLeft
  <2>8. QED
    BY <2>6, <2>7 DEF TransportsInv
<1>4. QED
  BY <1>1, <1>2, <1>3, ConfigKeepsInv DEF TransportsNext

LEMMA TransportsInvHolds == TransportsSpec => []TransportsInv
  BY TransportsInvInit, TransportsInvNext, PTL DEF TransportsSpec

\* The types: stability and loss stay in their ranges (UpdateMetrics of base.go).
THEOREM TransportsTypeCorrect == TransportsSpec => []TransportsTypeOK
  BY TransportsInvHolds, PTL DEF TransportsInv

\* A disconnected transport has left no config file behind, for any number of calls of
\* Connect and of addresses (AddTmpFile and CleanTmpFiles of base.go).
THEOREM NoConfigLeftTheorem == TransportsSpec => []NoConfigLeft
  BY TransportsInvHolds, PTL DEF TransportsInv

-----------------------------------------------------------------------------
(* All four side by side. *)

TunnelsInv == ProcessInv /\ TransportsInv /\ ProxiesInv /\ StreamsInv

\* The types of all the transports, side by side.
THEOREM TunnelsTypeTheorem == MCTunnelsSpec => []TunnelsTypeOK
<1>1. MCTunnelsInit => TunnelsInv
  BY ProcessInvInit, TransportsInvInit, ProxiesInvInit, StreamsInvInit
     DEF MCTunnelsInit, TunnelsInv
<1>2. TunnelsInv /\ [MCTunnelsNext]_<<part, vars, tvars, xvars, svars>> => TunnelsInv'
  <2> SUFFICES ASSUME TunnelsInv, [MCTunnelsNext]_<<part, vars, tvars, xvars, svars>>
               PROVE  TunnelsInv'
    OBVIOUS
  <2>1. [ProcessNext]_vars /\ [TransportsNext]_tvars /\ [ProxiesNext]_xvars /\ [StreamsNext]_svars
    BY DEF MCTunnelsNext
  <2>2. QED
    BY <2>1, ProcessInvStep, TransportsInvNext, ProxiesInvNext, StreamsInvNext DEF TunnelsInv
<1>3. TunnelsInv => TunnelsTypeOK
  BY DEF TunnelsInv, ProcessInv, TransportsInv, ProxiesInv, StreamsInv, TunnelsTypeOK
<1>4. QED
  BY <1>1, <1>2, <1>3, PTL DEF MCTunnelsSpec
=============================================================================
