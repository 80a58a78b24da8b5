----------------------------- MODULE UdpListener ----------------------------
(***************************************************************************)
(* The UDP listener of the engine (fp-transport-udp/listener.rs): one socket *)
(* for all peers.  A dispatcher task hands each datagram to the channel of   *)
(* its address, or to accept() when the address has none; accept() registers *)
(* a channel and returns the connection.  The table is behind a lock that    *)
(* the dispatcher holds while it waits for room in a channel.                *)
(***************************************************************************)
EXTENDS Naturals, Sequences

CONSTANTS
    None,
    Addrs,
    Channel, NewPeers,           \* the capacity of the channels, 256 and 64 in the code
    MaxDatagrams, MaxConns       \* bounds of the instance

VARIABLES
    socket,      \* datagrams received by the socket: [n, addr], n their order
    sent,        \* how many there have been
    peers,       \* Listener::peers: the connection whose channel an address has
    lock,        \* who holds the lock of peers
    disp,        \* the dispatcher: where it is and with which datagram
    news,        \* the channel of first packets to accept()
    acc,         \* accept(), in its loop
    conn,        \* the connections made: [addr, open], open until the receiver is dropped
    queue,       \* what is in each connection's channel
    got          \* what each connection has been given, its first packet included

udpVars == <<socket, sent, peers, lock, disp, news, acc, conn, queue, got>>

Datagrams == [n : 1..MaxDatagrams, addr : Addrs]
Conns == 1..Len(conn)

UdpTypeOK ==
    /\ socket \in Seq(Datagrams) /\ sent \in 0..MaxDatagrams /\ lock \in {None, "dispatcher"}
    /\ peers \in [Addrs -> 0..MaxConns] /\ Len(conn) <= MaxConns
    /\ disp.at \in {"recv", "lookup", "send", "new", "ended"} /\ acc.at \in {"wait", "register", "ended"}
    /\ Len(news) <= NewPeers /\ \A c \in Conns : Len(queue[c]) <= Channel

UdpInit ==
    /\ socket = <<>> /\ sent = 0 /\ peers = [a \in Addrs |-> 0] /\ lock = None
    /\ disp = [at |-> "recv", msg |-> None] /\ acc = [at |-> "wait", msg |-> None]
    /\ news = <<>> /\ conn = <<>> /\ queue = <<>> /\ got = <<>>

Arrive(a) ==
    /\ sent < MaxDatagrams /\ sent' = sent + 1
    /\ socket' = Append(socket, [n |-> sent + 1, addr |-> a])
    /\ UNCHANGED <<peers, lock, disp, news, acc, conn, queue, got>>

-----------------------------------------------------------------------------
(* The dispatcher; an error of the socket ends it. *)
RecvFrom ==
    /\ disp.at = "recv"
    /\ \/ socket # <<>> /\ socket' = Tail(socket) /\ disp' = [at |-> "lookup", msg |-> Head(socket)]
       \/ disp' = [at |-> "ended", msg |-> None] /\ UNCHANGED socket
    /\ UNCHANGED <<sent, peers, lock, news, acc, conn, queue, got>>

\* Mutant of Lookup: the lock is given back before the datagram is passed on.
BugLookup ==
    /\ disp.at = "lookup" /\ lock = None
    /\ LET c == peers[disp.msg.addr] IN
       disp' = IF c = 0 THEN [disp EXCEPT !.at = "new"] ELSE [at |-> "send", msg |-> disp.msg, to |-> c]
    /\ UNCHANGED <<socket, sent, peers, lock, news, acc, conn, queue, got>>

Lookup ==
    /\ disp.at = "lookup" /\ lock = None
    /\ LET c == peers[disp.msg.addr] IN
       IF c = 0 THEN disp' = [disp EXCEPT !.at = "new"] /\ UNCHANGED lock
       ELSE disp' = [at |-> "send", msg |-> disp.msg, to |-> c] /\ lock' = "dispatcher"
    /\ UNCHANGED <<socket, sent, peers, news, acc, conn, queue, got>>

(* A channel whose receiver is gone is forgotten, with the datagram. *)
Send ==
    /\ disp.at = "send"
    /\ LET c == disp.to IN
       \/ /\ conn[c].open /\ Len(queue[c]) < Channel
          /\ queue' = [queue EXCEPT ![c] = Append(@, disp.msg)] /\ UNCHANGED peers
       \/ ~conn[c].open /\ peers' = [peers EXCEPT ![disp.msg.addr] = 0] /\ UNCHANGED queue
    /\ lock' = None /\ disp' = [at |-> "recv", msg |-> None]
    /\ UNCHANGED <<socket, sent, news, acc, conn, got>>

(* Without a listener there is nobody to tell, and the dispatcher ends. *)
NotifyAccept ==
    /\ disp.at = "new"
    /\ \/ /\ acc.at # "ended" /\ Len(news) < NewPeers
          /\ news' = Append(news, disp.msg) /\ disp' = [at |-> "recv", msg |-> None]
       \/ acc.at = "ended" /\ disp' = [at |-> "ended", msg |-> None] /\ UNCHANGED news
    /\ UNCHANGED <<socket, sent, peers, lock, acc, conn, queue, got>>

-----------------------------------------------------------------------------
(* accept: the first packet of a peer, or the end of the listener by its closer or
   because the dispatcher has ended.  A timeout only comes back here. *)
AcceptRecv ==
    /\ acc.at = "wait"
    /\ \/ news # <<>> /\ news' = Tail(news) /\ acc' = [at |-> "register", msg |-> Head(news)]
       \/ acc' = [at |-> "ended", msg |-> None] /\ news' = <<>>
    /\ UNCHANGED <<socket, sent, peers, lock, disp, conn, queue, got>>

(* accept: a channel takes the place of the one the address may have. *)
Register ==
    /\ acc.at = "register" /\ lock = None /\ Len(conn) < MaxConns
    /\ conn' = Append(conn, [addr |-> acc.msg.addr, open |-> TRUE])
    /\ queue' = Append(queue, <<>>) /\ got' = Append(got, <<acc.msg>>)
    /\ peers' = [peers EXCEPT ![acc.msg.addr] = Len(conn) + 1]
    /\ acc' = [at |-> "wait", msg |-> None]
    /\ UNCHANGED <<socket, sent, lock, disp, news>>

(* ChannelReceiver::recv, which also after close gives out what is left in the channel *)
Recv(c) ==
    /\ queue[c] # <<>>
    /\ got' = [got EXCEPT ![c] = Append(@, Head(queue[c]))] /\ queue' = [queue EXCEPT ![c] = Tail(@)]
    /\ UNCHANGED <<socket, sent, peers, lock, disp, news, acc, conn>>

(* ChannelReceiver::close, or the handshake is refused and both halves are dropped. *)
Close(c) ==
    /\ conn[c].open /\ conn' = [conn EXCEPT ![c].open = FALSE]
    /\ UNCHANGED <<socket, sent, peers, lock, disp, news, acc, queue, got>>

UdpNext ==
    \/ \E a \in Addrs : Arrive(a)
    \/ RecvFrom \/ Lookup \/ Send \/ NotifyAccept \/ AcceptRecv \/ Register
    \/ \E c \in Conns : Recv(c) \/ Close(c)

UdpSpec == UdpInit /\ [][UdpNext]_udpVars

-----------------------------------------------------------------------------
Newest(c) == \A d \in Conns : conn[d].addr = conn[c].addr => d <= c

(* The table leads to the last connection accepted from an address as long as its
   receiver is there: an older connection that ends meanwhile, also one the dispatcher
   finds gone, never takes the entry of the new one along (Listener::new, accept). *)
NewestRegistered == \A c \in Conns : conn[c].open /\ Newest(c) => peers[conn[c].addr] = c

(* A connection is given datagrams of its own address in the order they came, and no
   datagram is given to two connections, although first packets take another way than
   the others and an address may be accepted twice. *)
InOrder ==
    \A c \in Conns :
        LET all == got[c] \o queue[c] IN
        /\ \A i \in 1..Len(all) : all[i].addr = conn[c].addr
        /\ \A i, j \in 1..Len(all) : i < j => all[i].n < all[j].n
        /\ \A d \in Conns \ {c} : \A i \in 1..Len(all), j \in 1..Len(got[d]) : all[i] # got[d][j]
=============================================================================
