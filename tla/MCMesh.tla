------------------------------- MODULE MCMesh -------------------------------
(***************************************************************************)
(* Small instances, for TLC, of the data plane, of the connections under it  *)
(* and of the in-memory store, side by side with the instances of MCControl: *)
(* `sys' names the component a behaviour is of, its variables are the first  *)
(* of x1, x2, ... and the others are None for good.                          *)
(***************************************************************************)
EXTENDS MCControl, TLC

CONSTANTS Gone, m1, m2, Lefts, Rights

(* Two prefixes, one within the other, and three configurations of two peers *)
(* that trade them, one of which revokes a peer.                             *)
MCPrefixes == [wide |-> {"a", "b"}, host |-> {"a"}]
Gives(one, two) == [p \in {1, 2} |-> IF p = 1 THEN one ELSE two]
MCConfs == {Gives({"wide"}, {"host"}), Gives({"wide", "host"}, None), Gives(None, {"wide"})}

Session_ == INSTANCE Session WITH
    N_SESSIONS <- 2, IndexMod <- 4, MaxInits <- 3, MaxAccepts <- 3, MaxResets <- 1,
    noise <- x1, table <- x2, handshaked <- x3, lastInit <- x4, bases <- x5, lives <- x6,
    net <- x7, inits <- x8, accepts <- x9, resets <- x10, late <- x11
ReplayWindow_ == INSTANCE ReplayWindow WITH
    WORD_SIZE <- 2, N_WORDS <- 3, MaxCounter <- 12, next <- x1, bitmap <- x2, received <- x3
Shards_ == INSTANCE Shards WITH
    Peers <- {1, 2}, N <- 2, Addrs <- {"a"}, Prefixes <- MCPrefixes, Confs <- MCConfs,
    Mailbox <- 1, MaxSessions <- 4, MaxConfs <- 3, conf <- x1, confs <- x2, known <- x3,
    ordinal <- x4, peer_to_wid <- x5, allowed <- x6, rec <- x7, mail <- x8, peers <- x9,
    index_owner <- x10, sessions <- x11, status <- x12, tun_rx <- x13, udp_rx <- x14,
    out <- x15
GsoBatch_ == INSTANCE GsoBatch WITH
    Dsts <- {m1, m2}, Sizes <- {1, 2}, MaxBatchBytes <- 4, RecvBatch <- 2, MaxSent <- 3,
    MaxArrivals <- 3, buf <- x1, seg <- x2, dst <- x3, gso_ok <- x4, disabled <- x5,
    awake <- x6, made <- x7, wire <- x8, lost <- x9, queue <- x10, arrived <- x11,
    slots <- x12, count <- x13, next <- x14, got <- x15
Framing_ == INSTANCE Framing WITH
    Payload <- {3}, MAX_PACKET_SIZE <- 1, MaxFrames <- 2, sent <- x1, queued <- x2,
    outq <- x3, up <- x4, down <- x5, buf <- x6, client_buf <- x7, routed <- x8, got <- x9
Paths_ == INSTANCE Paths WITH
    Dead <- 2, FlapWindow <- 3, MaxFlaps <- 1, Retries <- 2,
    Changeable <- {"udp", "tcp", "relay"}, AtFirst <- {"udp", "relay"}, MaxChanges <- 2,
    links <- x1, changes <- x2, peer <- x3, flight <- x4, turn <- x5, unheard <- x6
Disco_ == INSTANCE Disco WITH
    DISCO_REPLAY_WINDOW_SECS <- 1, CAPACITY <- 1, Skew <- 1, MaxTime <- 3, MaxProbes <- 3,
    MaxMoves <- 1, time <- x1, at <- x2, seen <- x3, pending <- x4, routes <- x5,
    direct <- x6, net <- x7, made <- x8, answered <- x9, adopted <- x10, moves <- x11
TcpDirect_ == INSTANCE TcpDirect WITH
    MaxConns <- 2, MaxFaults <- 1, IdleLimit <- 2, stage <- x1, deaf <- x2, idle <- x3,
    events <- x4, member <- x5, tcp_out <- x6, tcp_gen <- x7, faults <- x8
BondJoin_ == INSTANCE BondJoin WITH
    Conns <- Lefts \cup Rights, Primary <- Lefts, registry <- x1, reserved <- x2,
    revoked <- x3, pending <- x4, links <- x5, conn <- x6, served <- x7
AnytlsServer_ == INSTANCE AnytlsServer WITH
    Conns <- {m1, m2}, Primary <- {m1}, Inbox <- 1, Modes <- BOOLEAN, auth <- x1,
    registry <- x2, revoked <- x3, pending <- x4, cn <- x5, grp <- x6, links <- x7,
    ready <- x8, owned <- x9, given <- x10, raced <- x11
AnytlsClient_ == INSTANCE AnytlsClient WITH
    Ids <- {0, 1}, Target <- 1, MaxFailures <- 2, Full <- 2, MaxFaults <- 2,
    Modes <- BOOLEAN, proven <- x1, task <- x2, link <- x3, at <- x4, pong <- x5, next <- x6,
    closed <- x7, active <- x8, woken <- x9, permit <- x10, unseen <- x11, faults <- x12
MemStore_ == INSTANCE MemStore WITH
    Nets <- Lefts, Keys <- Rights, Hosts <- {1, 2}, Ids <- {1, 2}, RouteIds <- {1},
    Prefixes <- {"p"}, MaxEpoch <- 3, Watched <- {1}, epoch <- x1, devices <- x2, byKey <- x3, used <- x4,
    uses <- x5, routes <- x6, relay <- x7, endpoints <- x8, again <- x9, clash <- x10,
    watch <- x11
EngineServer_ == INSTANCE EngineServer WITH
    Keys <- {m1}, WorkerOf <- [k \in {m1} |-> "w"], Ports <- {1},
    Protos <- {"tcp", "anytls", "udp"}, MaxConns <- 2, MaxMail <- 2, MaxOps <- 4,
    keyed <- x1, iface <- x2, listener <- x3, static <- x4, routed <- x5, socket <- x6,
    wmail <- x7, peers <- x8, inner <- x9, crypto <- x10, byPort <- x11, conn <- x12,
    ops <- x13
UdpListener_ == INSTANCE UdpListener WITH
    Addrs <- {1, 2}, Channel <- 1, NewPeers <- 1, MaxDatagrams <- 4, MaxConns <- 3,
    socket <- x1, sent <- x2, peers <- x3, lock <- x4, disp <- x5, news <- x6, acc <- x7,
    conn <- x8, queue <- x9, got <- x10
ConHash_ == INSTANCE ConHash WITH
    Nodes <- {1, 2, 3}, Size <- 6, MaxReplicas <- 2, hash <- x1, nodes <- x2, replicas <- x3
EngineClient_ == INSTANCE EngineClient WITH
    Leaks <- FALSE, MaxConns <- 2, MaxIfaces <- 2, MaxMail <- 2, pending <- x1, heart <- x2,
    call <- x3, reply <- x4, last <- x5, mail <- x6, iface <- x7, tun <- x8, peer <- x9,
    cryptor <- x10, conn <- x11

Init ==
    \/ ControlInit
    \/ sys = "session" /\ Session_!Init /\ None11
    \/ sys = "replay" /\ ReplayWindow_!Init /\ None3
    \/ sys = "shards" /\ Shards_!ShardInit
    \/ sys = "gso" /\ GsoBatch_!GsoInit
    \/ sys = "framing" /\ Framing_!FramingInit /\ None9
    \/ sys = "paths" /\ Paths_!Init /\ None6
    \/ sys = "disco" /\ Disco_!DiscoInit /\ None11
    \/ sys = "tcp" /\ TcpDirect_!TcpInit /\ None8
    \/ sys = "join" /\ BondJoin_!JoinInit /\ None7
    \/ sys = "accept" /\ AnytlsServer_!AcceptInit /\ None11
    \/ sys = "bond" /\ AnytlsClient_!BondInit /\ None12
    \/ sys = "mem" /\ MemStore_!MemInit /\ None11
    \/ sys = "server" /\ EngineServer_!EngineInit /\ None13
    \/ sys = "udp" /\ UdpListener_!UdpInit /\ None10
    \/ sys = "ring" /\ ConHash_!HashInit /\ None3
    \/ sys = "client" /\ EngineClient_!ClientInit /\ None11

Next ==
    /\ UNCHANGED sys
    /\ \/ ControlNext
       \/ sys = "session" /\ Session_!Next /\ UNCHANGED After11
       \/ sys = "replay" /\ ReplayWindow_!Next /\ UNCHANGED After3
       \/ sys = "shards" /\ Shards_!ShardNext
       \/ sys = "gso" /\ GsoBatch_!GsoNext
       \/ sys = "framing" /\ Framing_!FramingNext /\ UNCHANGED After9
       \/ sys = "paths" /\ Paths_!Next /\ UNCHANGED After6
       \/ sys = "disco" /\ Disco_!DiscoNext /\ UNCHANGED After11
       \/ sys = "tcp" /\ TcpDirect_!TcpNext /\ UNCHANGED After8
       \/ sys = "join" /\ BondJoin_!JoinNext /\ UNCHANGED After7
       \/ sys = "accept" /\ AnytlsServer_!AcceptNext /\ UNCHANGED After11
       \/ sys = "bond" /\ AnytlsClient_!BondNext /\ UNCHANGED After12
       \/ sys = "mem" /\ MemStore_!MemNext /\ UNCHANGED After11
       \/ sys = "server" /\ EngineServer_!EngineNext /\ UNCHANGED After13
       \/ sys = "udp" /\ UdpListener_!UdpNext /\ UNCHANGED After10
       \/ sys = "ring" /\ ConHash_!HashNext /\ UNCHANGED After3
       \/ sys = "client" /\ EngineClient_!ClientNext /\ UNCHANGED After11

Spec == Init /\ [][Next]_mcVars

(* Every other set of model values in Mesh.cfg is a union of these, or is    *)
(* disjoint from them, and so is mapped to itself by each permutation.       *)
Symmetry == Permutations(Lefts) \cup Permutations(Rights)

-----------------------------------------------------------------------------
(* Every component keeps to the types of its state.                          *)
TypeOK ==
    /\ ControlTypeOK
    /\ sys = "session" => Session_!SessionTypeOK
    /\ sys = "replay" => ReplayWindow_!ReplayTypeOK
    /\ sys = "shards" => Shards_!ShardTypeOK
    /\ sys = "gso" => GsoBatch_!GsoTypeOK
    /\ sys = "framing" => Framing_!FramingTypeOK
    /\ sys = "paths" => Paths_!PathsTypeOK
    /\ sys = "disco" => Disco_!DiscoTypeOK
    /\ sys = "tcp" => TcpDirect_!TcpTypeOK
    /\ sys = "join" => BondJoin_!JoinTypeOK
    /\ sys = "accept" => AnytlsServer_!AcceptTypeOK
    /\ sys = "bond" => AnytlsClient_!BondTypeOK
    /\ sys = "mem" => MemStore_!MemTypeOK
    /\ sys = "server" => EngineServer_!EngineTypeOK
    /\ sys = "udp" => UdpListener_!UdpTypeOK
    /\ sys = "ring" => ConHash_!HashTypeOK
    /\ sys = "client" => EngineClient_!ClientTypeOK

(* A node never goes back to an older key to send with, however messages of  *)
(* the handshake are delayed, doubled and reordered; what it sends, its peer *)
(* can open, and the worker routes it by the session index unless a newer    *)
(* handshake is under way (noise.rs with the IndexTable of worker.rs).       *)
SessionRouted ==
    [][sys = "session" => /\ Session_!NoRollback
                          /\ Session_!Gapless' /\ Session_!RoutedUnlessPending']_mcVars

(* The workers agree on who owns a peer: a revoked peer is silent once the   *)
(* removal is through, each index and address leads to the worker that has   *)
(* the peer, and the routing table is that of the known peers, with packets  *)
(* and changes under way in every mailbox (lib.rs, worker.rs).               *)
ShardsAgree ==
    sys = "shards" => /\ Shards_!RevokedSilent /\ Shards_!ShardsAgree
                      /\ Shards_!IndexesRouted /\ Shards_!TableIsKnown

(* Packets come out as they went in: the ring of bitmap words accepts a      *)
(* counter exactly when it is new and within the window (session.rs); a      *)
(* batch puts on the wire what single sends would, holds nothing back and    *)
(* reads nothing twice (gso.rs); frames survive any cut of the stream and    *)
(* any read that is dropped (proto.rs, server.rs, relay.rs).                 *)
PacketsIntact ==
    /\ sys = "replay" => ReplayWindow_!WindowExact
    /\ sys = "gso" => GsoBatch_!SameWire /\ GsoBatch_!NothingHeldBack /\ GsoBatch_!ReadOnce
    /\ sys = "framing" => Framing_!FramesIntact

(* Two peers whose relay works hear each other again within the fallback's   *)
(* time, whatever direct paths come and go (worker.rs on_tick), and no       *)
(* worker keeps a TCP connection that has ended and will not be told of it   *)
(* (on_tcp_conn, tcp_direct.rs).  A ping is answered once and a probe's      *)
(* answer chooses a path once, however delayed and doubled and with clocks   *)
(* that differ (disco.rs).                                                   *)
NoBlackHole ==
    /\ sys = "paths" => Paths_!NoBlackHole
    /\ sys = "tcp" => TcpDirect_!DownStillComes
    /\ sys = "disco" => Disco_!AnsweredOnce /\ Disco_!ProbesSpent

(* All links of a bond that is served belong to one authenticated session,   *)
(* and a reservation of the registry always has an owner that will end it    *)
(* (relay-server auth.rs, tcp-bond connector.rs).  Over anytls, a bond that  *)
(* was handed out stays registered, one that is not is closed, and the       *)
(* client's task never sleeps over a link that died (acceptor.rs,            *)
(* connector.rs).                                                            *)
BondJoined ==
    /\ sys = "join" => BondJoin_!LinksShareSession /\ BondJoin_!ReservationOwned
    /\ sys = "accept" => AnytlsServer_!PromotedStays /\ AnytlsServer_!NoZombie
    /\ sys = "bond" => AnytlsClient_!DeathNoticed

(* The in-memory store (state.rs, ipam.rs): its allocator and its devices    *)
(* agree on addresses, and no change to a device's configuration goes        *)
(* without a rise of the epoch that tells the device; a watch that sleeps    *)
(* has sent the current one.                                                 *)
(* Of the engine's ring of workers: one that comes or goes moves no key of   *)
(* the others (ConsistentHash).                                              *)
StoreConsistent ==
    [][/\ sys = "mem" => /\ MemStore_!AddressesApart' /\ MemStore_!EpochTracksConfig
                      /\ MemStore_!WatchCurrent'
       /\ sys = "ring" => ConHash_!OthersStay]_mcVars

(* The engine's actors keep their tables in step over mailboxes: a peer's    *)
(* cryptor fits its transport, a listener is served unless its UDP socket    *)
(* has failed, a removal reaches the worker (fp-node-server-sys); a client's *)
(* session is whole, no transport is forgotten and a disconnect is final     *)
(* (fp-node-client-sys).  A UDP address leads to its newest connection and   *)
(* each gets its datagrams in order (listener.rs); a peer's key has the      *)
(* worker nearest on the ring (fp-conhash).                                  *)
EngineAccounted ==
    /\ sys = "server" => /\ EngineServer_!CryptorFitsTransport /\ EngineServer_!ListenersServed
                         /\ EngineServer_!RemovalReachesWorker
    /\ sys = "client" => /\ EngineClient_!NoForgottenTransport /\ EngineClient_!SessionWhole
                         /\ EngineClient_!DisconnectIsFinal
    /\ sys = "udp" => UdpListener_!NewestRegistered /\ UdpListener_!InOrder
    /\ sys = "ring" => ConHash_!NearestServes
=============================================================================
