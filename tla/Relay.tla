-------------------------------- MODULE Relay --------------------------------
(***************************************************************************)
(* The relay server (relay-server/src) and the clients that keep a         *)
(* connection to it (node/src/relay.rs).                                   *)
(*                                                                         *)
(* A client dials, proves that it has its key, announces itself with       *)
(* ClientInfo and is registered in the hub under its key; the hub routes   *)
(* SendPacket frames to the connection that is registered for their        *)
(* destination.  Each end of a connection is one task that alternates      *)
(* between reading and writing.  Clients dial again whenever their         *)
(* connection ends, so that the server may still be busy with an earlier   *)
(* connection of the same key.                                             *)
(*                                                                         *)
(* A connection is plain TCP or a bond of TCP links.  A plain connection   *)
(* delivers in order, a write waits for room in the socket buffers, and    *)
(* the end of one side is an end of file for the other.  A bond delivers   *)
(* in any order, a send that finds no room fails, and the receiving side   *)
(* never learns that its links are gone (BondGroup keeps a sender of its   *)
(* own channel).                                                           *)
(*                                                                         *)
(* Payloads are left out.  Whether the token bucket has a token, and when  *)
(* a timeout fires, is left open.                                          *)
(***************************************************************************)
EXTENDS Naturals, Sequences, FiniteSets

CONSTANTS
    Keys,       \* public keys, one client each
    Bonded,     \* keys of the clients that dial a bond
    Conns,      \* connections
    None,       \* an empty Option
    QueueCap,   \* depth of a connection's outbound queue in the hub
    Buf,        \* frames that the socket buffers of one direction hold
    BondBuf,    \* the same for the links of a bond
    MaxSends,   \* bound on the frames that clients send
    MaxCuts     \* bound on the network paths that die

ASSUME ConstantsAssumption ==
    /\ Bonded \subseteq Keys
    /\ Conns \subseteq Nat
    /\ None \notin Conns \cup Keys
    /\ QueueCap \in Nat \ {0}
    /\ Buf \in Nat \ {0}
    /\ BondBuf \in Nat \ {0}
    /\ MaxSends \in Nat
    /\ MaxCuts \in Nat

VARIABLES
    key,        \* the key of the client that dialled a connection
    cli,        \* where the client's task of a connection is
    srv,        \* where the server's task of a connection is
    active,     \* connections whose session key has not been revoked
    peers,      \* the hub: the connection registered for each key
    queue,      \* outbound queue of a connection in the hub
    up, down,   \* frames on their way to the server, to the client
    cliOut,     \* the frame that the client's task waits to write
    srvOut,     \* the frame that the server's task waits to write
    cut,        \* connections whose network path has died
    retired,    \* history: connections that were registered and no longer are
    sends       \* frames sent so far after the handshakes

vars == <<key, cli, srv, active, peers, queue, up, down, cliOut, srvOut, cut,
          retired, sends>>

\* Proof stands for the client's part of the identity exchange: key, then the
\* answer to the server's challenge.
Message == [t : {"Proof", "Confirm", "ClientInfo", "ServerInfo", "Ping", "Pong"}]
\* via is not part of the wire format: the connection a packet was routed from.
Packet == [t : {"SendPacket"}, dst : Keys]
             \cup [t : {"RecvPacket"}, src : Keys, via : Conns]
             \cup [t : {"PeerGone"}, dst : Keys]
Frame == Message \cup Packet

Msg(t) == [t |-> t]

Dialling == {"confirm", "hello"}
Pumping == {"select", "write"}

-----------------------------------------------------------------------------
(* Channels *)

IsBond(c) == key[c] \in Bonded

\* The frames of s that a reader may take next: a bond's links reorder.
Readable(c, s) == IF IsBond(c) THEN 1 .. Len(s) ELSE 1 .. (IF s = <<>> THEN 0 ELSE 1)

Without(s, i) == SubSeq(s, 1, i - 1) \o SubSeq(s, i + 1, Len(s))

Capacity(c) == IF IsBond(c) THEN BondBuf ELSE Buf

HasRoom(c, s) == Len(s) < Capacity(c)

BugTrySend(q, f) == IF Len(q) <= QueueCap THEN Append(q, f) ELSE q

\* try_send on a bounded channel
TrySend(q, f) == IF Len(q) < QueueCap THEN Append(q, f) ELSE q

-----------------------------------------------------------------------------
\* Types; no queue of the hub and no buffer outgrows its capacity.
TypeOK ==
    /\ key \in [Conns -> Keys \cup {None}]
    /\ cli \in [Conns -> Dialling \cup {"none", "up", "write", "closed"}]
    /\ srv \in [Conns -> Pumping \cup {"none", "auth", "hello", "ack", "done"}]
    /\ active \subseteq Conns
    /\ peers \in [Keys -> Conns \cup {None}]
    /\ queue \in [Conns -> Seq(Frame)]
    /\ up \in [Conns -> Seq(Frame)]
    /\ down \in [Conns -> Seq(Frame)]
    /\ cliOut \in [Conns -> Frame \cup {None}]
    /\ srvOut \in [Conns -> Frame \cup {None}]
    /\ cut \subseteq Conns
    /\ retired \subseteq Conns
    /\ sends \in 0 .. MaxSends
    /\ \A c \in Conns : /\ Len(queue[c]) <= QueueCap
                       /\ Len(up[c]) <= Capacity(c)
                       /\ Len(down[c]) <= Capacity(c)

Init ==
    /\ key = [c \in Conns |-> None]
    /\ cli = [c \in Conns |-> "none"]
    /\ srv = [c \in Conns |-> "none"]
    /\ active = {}
    /\ peers = [k \in Keys |-> None]
    /\ queue = [c \in Conns |-> <<>>]
    /\ up = [c \in Conns |-> <<>>]
    /\ down = [c \in Conns |-> <<>>]
    /\ cliOut = [c \in Conns |-> None]
    /\ srvOut = [c \in Conns |-> None]
    /\ cut = {}
    /\ retired = {}
    /\ sends = 0

-----------------------------------------------------------------------------
(* The client: supervisor and connection task *)

serverVars == <<srv, active, peers, queue, srvOut, retired>>

\* relay_supervisor: a new dial only after the last connection has ended.
Dial(k, c) ==
    /\ \A d \in Conns : key[d] = k => cli[d] = "closed"
    /\ key[c] = None
    /\ \A d \in Conns : d < c => key[d] # None
    /\ key' = [key EXCEPT ![c] = k]
    /\ cli' = [cli EXCEPT ![c] = "confirm"]
    /\ srv' = [srv EXCEPT ![c] = "auth"]
    /\ up' = [up EXCEPT ![c] = <<Msg("Proof")>>]
    /\ UNCHANGED <<active, peers, queue, down, cliOut, srvOut, cut, retired, sends>>

\* A handshake step of the client: at phase p it reads r, writes w and is at q.
ClientStep(c, p, r, w, q) ==
    /\ cli[c] = p
    /\ c \notin cut
    /\ down[c] # <<>> /\ Head(down[c]) = Msg(r)
    /\ down' = [down EXCEPT ![c] = Tail(@)]
    /\ up' = [up EXCEPT ![c] = IF srv[c] = "done" THEN @ ELSE @ \o w]
    /\ cli' = [cli EXCEPT ![c] = q]
    /\ UNCHANGED <<serverVars, key, cliOut, cut, sends>>

ClientHello(c) == ClientStep(c, "confirm", "Confirm", <<Msg("ClientInfo")>>, "hello")
ClientReady(c) ==
    /\ ~IsBond(c)
    /\ ClientStep(c, "hello", "ServerInfo", <<>>, "up")

\* The task ends; what it has written stays on its way.
CloseClient(c) ==
    /\ cli' = [cli EXCEPT ![c] = "closed"]
    /\ cliOut' = [cliOut EXCEPT ![c] = None]
    /\ down' = [down EXCEPT ![c] = IF srv[c] = "done" THEN <<>> ELSE @]
    /\ UNCHANGED <<serverVars, key, up, cut>>

\* The first frame that a bond delivers has to be ServerInfo.
BondReady(c) ==
    /\ cli[c] = "hello"
    /\ IsBond(c)
    /\ c \notin cut
    /\ \E i \in Readable(c, down[c]) :
          /\ down' = [down EXCEPT ![c] = Without(@, i)]
          /\ cli' = [cli EXCEPT ![c] = IF down[c][i] = Msg("ServerInfo")
                                        THEN "up" ELSE "closed"]
    /\ UNCHANGED <<serverVars, key, up, cliOut, cut, sends>>

DialTimeout(c) == cli[c] \in Dialling /\ CloseClient(c) /\ UNCHANGED sends

\* The node stops, the kernel gives up on a dead path, or the read ends.
ClientEnd(c) ==
    /\ \/ cli[c] \in {"up", "write"}
       \/ cli[c] \in Dialling /\ srv[c] = "done" /\ ~IsBond(c) /\ c \notin cut
    /\ CloseClient(c)
    /\ UNCHANGED sends

\* Write f to a plain connection; the task waits while there is no room.
WriteUp(c, f) ==
    /\ \/ /\ srv[c] = "done"
          /\ UNCHANGED <<up, cli, cliOut>>
       \/ /\ srv[c] # "done" /\ HasRoom(c, up[c])
          /\ up' = [up EXCEPT ![c] = Append(@, f)]
          /\ UNCHANGED <<cli, cliOut>>
       \/ /\ srv[c] # "done" /\ ~HasRoom(c, up[c])
          /\ cli' = [cli EXCEPT ![c] = "write"]
          /\ cliOut' = [cliOut EXCEPT ![c] = f]
          /\ UNCHANGED up
    /\ UNCHANGED <<serverVars, key, down, cut>>

\* BondGroup::send: no room, or no link whose send task lives, ends the task.
BondUp(c, f) ==
    \/ /\ HasRoom(c, up[c])
       /\ up' = [up EXCEPT ![c] = IF srv[c] = "done" THEN @ ELSE Append(@, f)]
       /\ UNCHANGED <<serverVars, key, cli, down, cliOut, cut>>
    \/ /\ ~HasRoom(c, up[c]) \/ srv[c] = "done" \/ c \in cut
       /\ CloseClient(c)

ClientSend(c, d) ==
    /\ cli[c] = "up"
    /\ d # key[c]
    /\ sends < MaxSends
    /\ sends' = sends + 1
    /\ LET f == [t |-> "SendPacket", dst |-> d]
       IN  IF IsBond(c) THEN BondUp(c, f) ELSE WriteUp(c, f)

\* The keepalive of a plain connection; a bond has none.
ClientPing(c) ==
    /\ cli[c] = "up"
    /\ ~IsBond(c)
    /\ sends < MaxSends
    /\ sends' = sends + 1
    /\ WriteUp(c, Msg("Ping"))

ClientWrite(c) ==
    /\ cli[c] = "write"
    /\ HasRoom(c, up[c])
    /\ up' = [up EXCEPT ![c] = IF srv[c] = "done" THEN @ ELSE Append(@, cliOut[c])]
    /\ cli' = [cli EXCEPT ![c] = "up"]
    /\ cliOut' = [cliOut EXCEPT ![c] = None]
    /\ UNCHANGED <<serverVars, key, down, cut, sends>>

ClientRead(c) ==
    /\ cli[c] = "up"
    /\ c \notin cut
    /\ \E i \in Readable(c, down[c]) : down' = [down EXCEPT ![c] = Without(@, i)]
    /\ UNCHANGED <<serverVars, key, cli, up, cliOut, cut, sends>>

-----------------------------------------------------------------------------
(* The server: connection task and hub *)

clientVars == <<key, cli, cliOut, sends, cut>>

\* A handshake step of the server: at phase p it reads r, writes w and is at q.
ServerStep(c, p, r, w, q) ==
    /\ srv[c] = p
    /\ c \notin cut
    /\ up[c] # <<>> /\ Head(up[c]) = Msg(r)
    /\ up' = [up EXCEPT ![c] = Tail(@)]
    /\ down' = [down EXCEPT ![c] = Append(@, Msg(w))]
    /\ srv' = [srv EXCEPT ![c] = q]
    /\ UNCHANGED <<clientVars, peers, queue, srvOut, retired>>

\* The identity is proven: the session exists from here on.
ServerConfirm(c) ==
    /\ ServerStep(c, "auth", "Proof", "Confirm", "hello")
    /\ active' = active \cup {c}

ServerInfo(c) ==
    ServerStep(c, "hello", "ClientInfo", "ServerInfo", "ack") /\ UNCHANGED active

\* the entry that was there keeps its session
BugRegister(c) ==
    /\ srv[c] = "ack"
    /\ srv' = [srv EXCEPT ![c] = "select"]
    /\ peers' = [peers EXCEPT ![key[c]] = c]
    /\ retired' = retired \cup ({peers[key[c]]} \ {None})
    /\ UNCHANGED <<clientVars, active, queue, up, down, srvOut>>

\* Hub::connect_authenticated: dropping the entry that was there revokes its
\* session.
Register(c) ==
    /\ srv[c] = "ack"
    /\ srv' = [srv EXCEPT ![c] = "select"]
    /\ peers' = [peers EXCEPT ![key[c]] = c]
    /\ active' = active \ {peers[key[c]]}
    /\ retired' = retired \cup ({peers[key[c]]} \ {None})
    /\ UNCHANGED <<clientVars, queue, up, down, srvOut>>

\* Hub::disconnect instead of disconnect_session
BugUnregistered(c) == [peers EXCEPT ![key[c]] = None]

\* The task ends: Hub::disconnect_session, then its lease revokes the session.
Unregistered(c) == [peers EXCEPT ![key[c]] = IF @ = c THEN None ELSE @]

EndServer(c) ==
    /\ srv' = [srv EXCEPT ![c] = "done"]
    /\ peers' = Unregistered(c)
    /\ active' = active \ {c}
    /\ retired' = IF peers[key[c]] = c THEN retired \cup {c} ELSE retired
    /\ queue' = [queue EXCEPT ![c] = <<>>]
    /\ srvOut' = [srvOut EXCEPT ![c] = None]
    /\ up' = [up EXCEPT ![c] = <<>>]
    /\ down' = [down EXCEPT ![c] = IF cli[c] = "closed" THEN <<>> ELSE @]
    /\ UNCHANGED clientVars

\* An error, a refusal or one of the timeouts before registration.
HandshakeEnd(c) ==
    /\ \/ srv[c] \in {"auth", "hello"}
       \/ srv[c] = "ack" /\ (c \in cut \/ cli[c] = "closed")
    /\ EndServer(c)

\* Hub::route instead of route_session
BugRoute(c, f) ==
    LET to == peers[f.dst]
    IN  IF to = None
        THEN [queue EXCEPT ![c] = TrySend(@, [t |-> "PeerGone", dst |-> f.dst])]
        ELSE [queue EXCEPT ![to] = TrySend(@, [t |-> "RecvPacket",
                                               src |-> key[c], via |-> c])]

\* Hub::route_session
Route(c, f) ==
    LET to == peers[f.dst]
    IN  IF peers[key[c]] # c THEN queue
        ELSE IF to = None
             THEN [queue EXCEPT ![c] = TrySend(@, [t |-> "PeerGone", dst |-> f.dst])]
             ELSE [queue EXCEPT ![to] = TrySend(@, [t |-> "RecvPacket",
                                                    src |-> key[c], via |-> c])]

\* RelayServer::handle_inbound; the token bucket may drop a packet.
ServerRead(c) ==
    /\ srv[c] = "select"
    /\ c \notin cut
    /\ \E i \in Readable(c, up[c]) :
          LET f == up[c][i]
          IN  /\ up' = [up EXCEPT ![c] = Without(@, i)]
              /\ \/ f.t = "SendPacket" /\ queue' = Route(c, f)
                 \/ f.t = "SendPacket" /\ queue' = queue
                 \/ f.t = "Ping" /\ queue' = [queue EXCEPT ![c] = TrySend(@, Msg("Pong"))]
    /\ UNCHANGED <<clientVars, srv, active, peers, down, srvOut, retired>>

\* A bond refuses to send for a revoked session, without room, or without links.
BondFails(c) ==
    \/ c \notin active
    \/ ~HasRoom(c, down[c])
    \/ c \in cut
    \/ cli[c] = "closed"

\* The outbound arm of the pump takes a frame from the queue.
ServerTake(c) ==
    /\ srv[c] = "select"
    /\ queue[c] # <<>>
    /\ \/ /\ HasRoom(c, down[c]) /\ (IsBond(c) => c \in active)
          /\ queue' = [queue EXCEPT ![c] = Tail(@)]
          /\ down' = [down EXCEPT ![c] = Append(@, Head(queue[c]))]
          /\ UNCHANGED <<clientVars, srv, active, peers, up, srvOut, retired>>
       \/ /\ ~IsBond(c) /\ ~HasRoom(c, down[c])
          /\ queue' = [queue EXCEPT ![c] = Tail(@)]
          /\ srv' = [srv EXCEPT ![c] = "write"]
          /\ srvOut' = [srvOut EXCEPT ![c] = Head(queue[c])]
          /\ UNCHANGED <<clientVars, active, peers, up, down, retired>>
       \/ /\ IsBond(c) /\ BondFails(c)
          /\ EndServer(c)

ServerWrite(c) ==
    /\ srv[c] = "write"
    /\ HasRoom(c, down[c])
    /\ down' = [down EXCEPT ![c] = Append(@, srvOut[c])]
    /\ srv' = [srv EXCEPT ![c] = "select"]
    /\ srvOut' = [srvOut EXCEPT ![c] = None]
    /\ UNCHANGED <<clientVars, active, peers, queue, up, retired>>

\* A plain connection: end of file or reset from the client, or the kernel has
\* sent a frame in vain for too long.
ServerEof(c) ==
    /\ srv[c] \in Pumping
    /\ ~IsBond(c)
    /\ \/ cli[c] = "closed" /\ c \notin cut
       \/ c \in cut /\ down[c] # <<>>
    /\ EndServer(c)

\* no idle timeout for bonds
BugServerIdle(c) ==
    /\ srv[c] = "select"
    /\ ~IsBond(c)
    /\ c \in cut \/ cli[c] = "closed"
    /\ EndServer(c)

\* PLAIN_TCP_IDLE_TIMEOUT: runs only while the task waits for a frame.  A plain
\* client that is there sends its pings, a bonded one sends nothing by itself.
ServerIdle(c) ==
    /\ srv[c] = "select"
    /\ \/ c \in cut
       \/ cli[c] = "closed"
       \/ IsBond(c) /\ (up[c] = <<>> \/ c \notin active)
    /\ EndServer(c)

-----------------------------------------------------------------------------
\* A NAT forgets the mapping, a host loses power: nothing passes any more.
\* (During the handshake that shows as a timeout, which is there already.)
Cut(c) ==
    /\ srv[c] \in Pumping
    /\ c \notin cut
    /\ Cardinality(cut) < MaxCuts
    /\ cut' = cut \cup {c}
    /\ UNCHANGED <<serverVars, key, cli, cliOut, up, down, sends>>

ServerTask(c) ==
    \/ Register(c)
    \/ ServerRead(c)
    \/ ServerTake(c)
    \/ ServerWrite(c)
    \/ ServerEof(c)
    \/ ServerIdle(c)

ClientTask(c) == ClientRead(c) \/ ClientWrite(c)

Next ==
    \/ \E k \in Keys, c \in Conns : Dial(k, c) \/ ClientSend(c, k)
    \/ \E c \in Conns :
          \/ ClientHello(c) \/ ClientReady(c) \/ BondReady(c)
          \/ DialTimeout(c) \/ ClientEnd(c) \/ ClientPing(c) \/ ClientTask(c)
          \/ ServerConfirm(c) \/ ServerInfo(c)
          \/ HandshakeEnd(c) \/ ServerTask(c)
          \/ Cut(c)

Spec == Init /\ [][Next]_vars

\* The tasks of both ends are scheduled, and the idle timeout and the kernel's
\* retransmission timeout fire once nothing else happens.
FairSpec == Spec /\ \A c \in Conns : WF_vars(ServerTask(c)) /\ WF_vars(ClientTask(c))

-----------------------------------------------------------------------------
(* Properties *)

\* hub.rs and auth.rs: the hub only names connections whose task is pumping
\* frames for that very key, and such a task has a session that was not revoked
\* exactly as long as the hub names it.  So a connection that was replaced can
\* neither route nor add links to its bond, and the registered one can.
RegisteredIsActive ==
    /\ \A k \in Keys : peers[k] # None => key[peers[k]] = k /\ srv[peers[k]] \in Pumping
    /\ \A c \in Conns : srv[c] \in Pumping => (c \in active <=> peers[key[c]] = c)

\* Hub::route_session checks the sender's registration under the lock: in every
\* outbound queue no packet of a connection that has been replaced follows a
\* packet of the one that replaced it.
OldPacketsFirst ==
    \A c \in Conns : \A i, j \in DOMAIN queue[c] :
        LET f == queue[c][i]
            g == queue[c][j]
        IN  i < j /\ f.t = "RecvPacket" /\ g.t = "RecvPacket" /\ f.src = g.src
                /\ g.via \in retired => f.via \in retired

\* The hub implements the registry: one connection per key, the newest
\* registration wins, and nobody comes back.
Registry == INSTANCE RelayRegistry WITH serving <- peers

ImplementsRegistry == Registry!Spec

\* serve_conn and serve_bonded_conn: the registration of a client that is gone,
\* or whose path is dead, is given up by end of file, a write error or the idle
\* timeout, also when the server's task is stuck in a write.
Holds(k, c) == peers[k] = c
DeadHolds(k, c) == Holds(k, c) /\ (c \in cut \/ cli[c] = "closed")

\* server.rs:14 says that a client from which no frame arrives for the idle time
\* is dropped.  The clock only runs while the task reads, so this needs that a
\* write of the server's task comes to an end.
WriteEnds == \A c \in Conns : srv[c] = "write" ~> srv[c] # "write"

=============================================================================
