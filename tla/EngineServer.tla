---------------------------- MODULE EngineServer ----------------------------
(***************************************************************************)
(* The gateway engine: a dispatcher task that owns the interface, the key,  *)
(* the listeners and the routing table, and one worker task per core that   *)
(* owns the transports and the cryptors of the peers consistent hashing     *)
(* gives it.  Workers are fed by three kinds of task: the dispatcher, the   *)
(* accept loop of each listener, and the reader of each connection.         *)
(*                                                                         *)
(* The dispatcher takes the operators' requests one at a time, so a request *)
(* is one action.  A worker's mailbox is a queue.  Peers have address       *)
(* ranges of their own, so the routing table is the set of routed keys.     *)
(* Byte counters, callbacks and the payload of data packets are left out.   *)
(***************************************************************************)
EXTENDS Naturals, Sequences

CONSTANTS Keys,      \* public keys of peers
          WorkerOf,  \* [Keys -> workers]: the ring of fp_conhash
          Ports,
          Protos,    \* transport protocols, "udp" among them
          MaxConns,  \* connections that complete a handshake
          MaxMail,   \* requests a worker may have waiting
          MaxOps,    \* requests of operators
          None       \* no key, for a request to every worker

VARIABLES keyed,     \* Inner.key_pair is set
          iface,     \* Inner.iface is set
          listener,  \* keys of Inner.listener: <<port, proto>>
          static,    \* Inner.static_ports
          routed,    \* keys that Inner.peer_by_ip maps some range to
          socket,    \* <<port, family>> -> state of the accept loop that holds it
          wmail,     \* worker -> requests waiting
          peers,     \* keys of the workers' Inner.peers
          inner,     \* key -> connection of Peer.inner, 0 for none
          crypto,    \* key -> connection whose handshake made its cryptor, 0 for none
          byPort,    \* Inner.peer_by_port, of all workers
          conn,      \* connection -> [key, port, reader, closed]
          ops

engineVars == <<keyed, iface, listener, static, routed, socket, wmail, peers, inner, crypto, byPort, conn, ops>>
dispVars   == <<keyed, iface, listener, static, routed>>
peerVars   == <<peers, inner, crypto, byPort>>

Workers  == {WorkerOf[k] : k \in Keys}
Families == {"tcp", "udp"}
Loops    == {"free", "open", "dead", "told"}
Readers  == {"none", "queued", "running", "done"}

l4_family(proto) == IF proto = "udp" THEN "udp" ELSE "tcp"

(* Mailbox::process, to the worker of one key and to every worker.          *)
Room        == \A w \in Workers : Len(wmail[w]) < MaxMail
Post(k, ev) == wmail' = [wmail EXCEPT ![WorkerOf[k]] = Append(@, ev)]
PostAll(ev) == wmail' = [w \in Workers |-> Append(wmail[w], ev)]

Ev(kind, key, port, c) == [kind |-> kind, key |-> key, port |-> port, conn |-> c]

EngineInit ==
    /\ keyed = FALSE /\ iface = FALSE /\ listener = {} /\ static = {} /\ routed = {}
    /\ socket = [s \in Ports \X Families |-> "free"]
    /\ wmail = [w \in Workers |-> <<>>]
    /\ peers = {} /\ inner = [k \in Keys |-> 0] /\ crypto = [k \in Keys |-> 0]
    /\ byPort = [p \in Ports |-> {}]
    /\ conn = <<>> /\ ops = 0

Request == ops < MaxOps /\ Room /\ ops' = ops + 1

-----------------------------------------------------------------------------
(* The dispatcher.                                                          *)

(* start: set_key, then assign_iface, which may fail and leave the key set. *)
set_key == keyed' = TRUE
assign_iface == iface' \in {TRUE, iface}

Start ==
    /\ Request
    /\ set_key /\ assign_iface
    /\ UNCHANGED <<listener, static, routed, socket, wmail, conn, peerVars>>

(* ListenerController::drop: the accept loops of dropped listeners are told *)
(* to end.                                                                  *)
Drop(gone) ==
    /\ listener' = listener \ gone
    /\ socket' = [s \in Ports \X Families |->
                    IF \E g \in gone : s = <<g[1], l4_family(g[2])>> THEN "told" ELSE socket[s]]

\* Mutant of new_listener: listeners are told apart by the protocol's name alone.
Bugnew_listener(port, proto) ==
    LET s == <<port, l4_family(proto)>>
    IN  \/ <<port, proto>> \in listener /\ UNCHANGED <<listener, socket>>
        \/ <<port, proto>> \notin listener /\ UNCHANGED <<listener, socket>>
        \/ /\ <<port, proto>> \notin listener /\ keyed
           /\ listener' = listener \cup {<<port, proto>>}
           /\ socket' = [socket EXCEPT ![s] = "open"]

(* new_listener: a port served in the same L4 family is reused.  Otherwise  *)
(* the key must be set and the bind succeed, which it cannot while an       *)
(* accept loop still holds the socket.                                      *)
new_listener(port, proto) ==
    LET s == <<port, l4_family(proto)>>
        served == \E l \in listener : l[1] = port /\ l4_family(l[2]) = l4_family(proto)
    IN  \/ UNCHANGED <<listener, socket>>
        \/ /\ ~served /\ keyed /\ socket[s] = "free"
           /\ listener' = listener \cup {<<port, proto>>}
           /\ socket' = [socket EXCEPT ![s] = "open"]

NewListener(port, proto) ==
    /\ Request
    /\ new_listener(port, proto)
    /\ UNCHANGED <<keyed, iface, static, routed, wmail, conn, peerVars>>

(* AddPeer: a listener for the peer's port (its failure is only logged),    *)
(* the routing table, then the worker.                                      *)
AddPeer(k, port, proto) ==
    /\ Request
    /\ new_listener(port, proto)
    /\ routed' = routed \cup {k}
    /\ Post(k, Ev("add", k, port, 0))
    /\ UNCHANGED <<keyed, iface, static, conn, peerVars>>

RemovePeer(k) ==
    /\ Request
    /\ routed' = routed \ {k}
    /\ Post(k, Ev("remove", k, 0, 0))
    /\ UNCHANGED <<keyed, iface, listener, static, socket, conn, peerVars>>

(* remove_listener: every listener of the port, and the peers that came by  *)
(* it, or an error.                                                         *)
RemoveListener(port) ==
    LET gone == {l \in listener : l[1] = port}
    IN  /\ Request
        /\ gone # {}
        /\ Drop(gone)
        /\ PostAll(Ev("byport", None, port, 0))
        /\ UNCHANGED <<keyed, iface, static, routed, conn, peerVars>>

RetainListener(ports) ==
    /\ Request
    /\ Drop({l \in listener : l[1] \notin ports \cup static})
    /\ UNCHANGED <<keyed, iface, static, routed, wmail, conn, peerVars>>

MarkStaticPorts(ports) ==
    /\ Request
    /\ static' = static \cup ports
    /\ UNCHANGED <<keyed, iface, listener, routed, socket, wmail, conn, peerVars>>

(* stop: nothing happens without an interface.                              *)
RemoveIface ==
    /\ Request
    /\ iface
    /\ iface' = FALSE /\ keyed' = FALSE
    /\ Drop(listener)
    /\ PostAll(Ev("clear", None, 0, 0))
    /\ UNCHANGED <<static, routed, conn, peerVars>>

(* iface_handler, then get_pkey: a packet of the interface for a routed key.*)
FromIface(k) ==
    /\ iface /\ k \in routed /\ Room
    /\ Post(k, Ev("send", k, 0, 0))
    /\ UNCHANGED <<dispVars, socket, conn, ops, peerVars>>

-----------------------------------------------------------------------------
(* The accept loop of a listener: a handshake that verifies is answered and *)
(* handed to the worker of the key it proved; a loop that was told ends.    *)
Accept(port, fam, k) ==
    /\ socket[<<port, fam>>] \in {"open", "told"} /\ Room /\ Len(conn) < MaxConns
    /\ conn' = Append(conn, [key |-> k, port |-> port, reader |-> "queued", closed |-> FALSE])
    /\ Post(k, Ev("transport", k, port, Len(conn) + 1))
    /\ UNCHANGED <<dispVars, socket, ops, peerVars>>

(* The accept loop of a UDP listener also ends by itself: an error of recv  *)
(* ends the listener's dispatcher, accept then reports a closed listener,   *)
(* and nobody takes it out of the table.                                    *)
LoopBreaks(port) ==
    /\ socket[<<port, "udp">>] = "open"
    /\ socket' = [socket EXCEPT ![<<port, "udp">>] = "dead"]
    /\ UNCHANGED <<dispVars, wmail, conn, ops, peerVars>>

LoopEnds(s) ==
    /\ socket[s] = "told"
    /\ socket' = [socket EXCEPT ![s] = "free"]
    /\ UNCHANGED <<dispVars, wmail, conn, ops, peerVars>>

-----------------------------------------------------------------------------
(* A worker takes the request at the head of its mailbox.                   *)

(* PeerInner::close and Peer::drop: the readers of cs get the close signal. *)
Close(cs) == conn' = [c \in DOMAIN conn |-> IF c \in cs THEN [conn[c] EXCEPT !.closed = TRUE] ELSE conn[c]]

(* The peers ks leave the maps, all but peer_by_port.                       *)
Forget(ks) ==
    /\ peers' = peers \ ks
    /\ inner' = [k \in Keys |-> IF k \in ks THEN 0 ELSE inner[k]]
    /\ crypto' = [k \in Keys |-> IF k \in ks THEN 0 ELSE crypto[k]]
    /\ Close({inner[k] : k \in ks})

Refuse(c) == conn' = [conn EXCEPT ![c].reader = "done", ![c].closed = TRUE]

\* Mutant of set_transport: the cryptor of a key that is no peer is kept.
Bugset_transport(e) ==
    /\ e.kind = "transport"
    /\ crypto' = [crypto EXCEPT ![e.key] = e.conn]
    /\ IF e.key \in peers
         THEN /\ inner' = [inner EXCEPT ![e.key] = e.conn]
              /\ byPort' = [byPort EXCEPT ![e.port] = @ \cup {e.key}]
              /\ conn' = [conn EXCEPT ![e.conn].reader = "running"]
         ELSE Refuse(e.conn) /\ UNCHANGED <<inner, byPort>>
    /\ UNCHANGED peers

(* set_transport: the connection replaces the peer's transport and cryptor; *)
(* the old transport is dropped without a close signal.  A key that is no   *)
(* peer is closed.                                                          *)
set_transport(e) ==
    /\ e.kind = "transport"
    /\ IF e.key \in peers
         THEN /\ inner' = [inner EXCEPT ![e.key] = e.conn]
              /\ crypto' = [crypto EXCEPT ![e.key] = e.conn]
              /\ byPort' = [byPort EXCEPT ![e.port] = @ \cup {e.key}]
              /\ conn' = [conn EXCEPT ![e.conn].reader = "running"]
         ELSE Refuse(e.conn) /\ UNCHANGED <<inner, crypto, byPort>>
    /\ UNCHANGED peers

(* transport_send: a send that fails closes the transport, which stays in   *)
(* place.                                                                   *)
transport_send(e) ==
    /\ e.kind = "send"
    /\ \/ UNCHANGED conn
       \/ e.key \in peers /\ inner[e.key] # 0 /\ crypto[e.key] # 0 /\ Close({inner[e.key]})
    /\ UNCHANGED peerVars

add_peer(e) ==
    /\ e.kind = "add"
    /\ peers' = peers \cup {e.key}
    /\ UNCHANGED <<inner, crypto, byPort, conn>>

(* remove_peer: a key that is no peer is an error and nothing is cleaned.   *)
remove_peer(e) ==
    /\ e.kind = "remove"
    /\ IF e.key \in peers
         THEN Forget({e.key}) /\ byPort' = [p \in Ports |-> byPort[p] \ {e.key}]
         ELSE UNCHANGED <<conn, peerVars>>

(* remove_peer_by_port: the keys listed under the port, wherever their      *)
(* transport is by now; lists of other ports keep them.                     *)
remove_peer_by_port(w, e) ==
    LET gone == {k \in byPort[e.port] : WorkerOf[k] = w}
    IN  /\ e.kind = "byport"
        /\ Forget(gone)
        /\ byPort' = [byPort EXCEPT ![e.port] = @ \ gone]

clear_peer(w, e) ==
    LET own == {k \in Keys : WorkerOf[k] = w}
    IN  /\ e.kind = "clear"
        /\ Forget(own)
        /\ byPort' = [p \in Ports |-> byPort[p] \ own]

(* iface_send: decrypted by the key's cryptor and passed on to the          *)
(* dispatcher, which writes it to the interface.                            *)
worker_iface_send(e) == e.kind = "data" /\ UNCHANGED <<conn, peerVars>>

Work(w) ==
    /\ wmail[w] # <<>>
    /\ LET e == Head(wmail[w])
       IN  \/ set_transport(e) \/ transport_send(e) \/ add_peer(e) \/ remove_peer(e)
           \/ remove_peer_by_port(w, e) \/ clear_peer(w, e) \/ worker_iface_send(e)
    /\ wmail' = [wmail EXCEPT ![w] = Tail(@)]
    /\ UNCHANGED <<dispVars, socket, ops>>

-----------------------------------------------------------------------------
(* spawn_reader: data goes to the worker, a Disconnect asks it to remove    *)
(* the key; the reader ends on the close signal, which its own end sends    *)
(* too, or when the transport ends or sends what cannot be parsed.          *)
ReaderPosts(c, kind) ==
    /\ conn[c].reader = "running" /\ Room
    /\ Post(conn[c].key, Ev(kind, conn[c].key, 0, c))
    /\ UNCHANGED <<dispVars, socket, conn, ops, peerVars>>

ReaderEnds(c) ==
    /\ conn[c].reader = "running"
    /\ Refuse(c)
    /\ UNCHANGED <<dispVars, socket, wmail, ops, peerVars>>

EngineNext ==
    \/ Start \/ RemoveIface
    \/ \E port \in Ports :
         \/ RemoveListener(port) \/ LoopBreaks(port)
         \/ \E proto \in Protos : NewListener(port, proto) \/ \E k \in Keys : AddPeer(k, port, proto)
         \/ \E fam \in Families, k \in Keys : Accept(port, fam, k)
    \/ \E k \in Keys : RemovePeer(k) \/ FromIface(k)
    \/ \E ports \in SUBSET Ports : RetainListener(ports) \/ MarkStaticPorts(ports)
    \/ \E s \in Ports \X Families : LoopEnds(s)
    \/ \E w \in Workers : Work(w)
    \/ \E c \in DOMAIN conn : ReaderEnds(c) \/ \E kind \in {"data", "remove"} : ReaderPosts(c, kind)

EngineTypeOK ==
    /\ keyed \in BOOLEAN /\ iface \in BOOLEAN
    /\ listener \subseteq Ports \X Protos /\ static \subseteq Ports
    /\ routed \subseteq Keys /\ peers \subseteq Keys
    /\ socket \in [Ports \X Families -> Loops]
    /\ inner \in [Keys -> 0 .. Len(conn)] /\ crypto \in [Keys -> 0 .. Len(conn)]
    /\ byPort \in [Ports -> SUBSET Keys]
    /\ \A c \in DOMAIN conn : conn[c].reader \in Readers /\ conn[c].closed \in BOOLEAN
    /\ ops \in 0 .. MaxOps

(* The packets of a key are encrypted and decrypted with the cryptor of the *)
(* handshake that its current transport came from, and a key that is no     *)
(* peer has neither (set_transport, remove_peer, remove_peer_by_port).      *)
CryptorFitsTransport == crypto = inner /\ \A k \in Keys \ peers : inner[k] = 0

(* Each listener of the table has an accept loop of its own that nobody     *)
(* told to end, and each such loop is in the table: two transports never    *)
(* share a socket, and a dropped listener is no longer served               *)
(* (new_listener, remove_listener, retain_listener, remove_iface).  Only a  *)
(* UDP listener may be in the table and serve nobody, once its socket has   *)
(* failed: it holds its port until an operator removes it.                  *)
ListenersServed ==
    /\ \A s \in Ports \X Families :
         /\ socket[s] \in {"open", "dead"} <=> \E l \in listener : s = <<l[1], l4_family(l[2])>>
         /\ socket[s] = "dead" => s[2] = "udp"
    /\ \A l, m \in listener : l # m => <<l[1], l4_family(l[2])>> # <<m[1], l4_family(m[2])>>

(* A worker knows a key that the dispatcher no longer routes only while the *)
(* key's removal waits in the worker's mailbox, whatever readers and accept *)
(* loops post meanwhile (get_pkey, then the mailbox).                       *)
RemovalReachesWorker ==
    \A k \in peers \ routed : \E i \in DOMAIN wmail[WorkerOf[k]] :
        wmail[WorkerOf[k]][i].kind = "remove" /\ wmail[WorkerOf[k]][i].key = k
=============================================================================
