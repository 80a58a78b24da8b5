-------------------------------- MODULE Shards --------------------------------
(***************************************************************************)
(* The data plane of a node as run_with sets it up: peers are sharded over  *)
(* workers, the readers look a packet's worker up in shared tables and send *)
(* it to that worker's mailbox, waiting if it is full.  The reconciler      *)
(* changes the tables and sends AddPeer and RemovePeer into the same        *)
(* mailboxes.  Tables, mailboxes and the workers' own state change at       *)
(* different times, on different threads.                                   *)
(*                                                                         *)
(* A session's handshake is Session's, its path Paths'; here a session is   *)
(* there as soon as the worker has the peer, under a number of its own (the *)
(* index we assigned), and the reconciler's order of work is HostEffects'.  *)
(***************************************************************************)
EXTENDS Naturals, Sequences, FiniteSets, FiniteSetsExt

CONSTANTS Peers,            \* a set of numbers: the order of the public keys
          N,                \* workers
          Addrs,            \* addresses inside the overlay
          Prefixes,         \* prefix -> set of addresses; a longer one is smaller
          Confs,            \* configurations: peer -> None or its allowed prefixes
          Mailbox,          \* capacity of a worker's mailbox
          MaxSessions, MaxConfs,
          None

VARIABLES conf, confs,      \* configuration to apply, and how many there were
          known,            \* Reconciler.known: peer -> None or [wid, aips]
          ordinal,          \* Reconciler.ordinal
          peer_to_wid,      \* peer -> worker or None
          allowed,          \* RouteTable: set of [prefix, peer, worker]
          rec,              \* what the reconciler is at: [at, pk, wid]
          mail,             \* worker -> mailbox
          peers,            \* worker -> peer -> session or None
          index_owner,      \* session -> worker or None
          sessions,         \* the peer of every session made so far, in order
          status,           \* the status registry: peers it lists
          tun_rx, udp_rx,   \* packet a reader has routed and not yet sent
          out               \* what the last step put on the wire or on the TUN

tables == <<known, ordinal, peer_to_wid, allowed>>
workers == <<peers, index_owner, sessions, status>>
shardVars == <<conf, confs, tables, rec, mail, workers, tun_rx, udp_rx, out>>

Workers == 0..(N - 1)
Idle == [at |-> "idle", pk |-> None, wid |-> None]
Quiet == out' = None

(* RouteTable::with_peer: all of the peer's entries are replaced.           *)
with_peer(t, pk, wid, aips) ==
    {e \in t : e.peer # pk} \cup {[prefix |-> p, peer |-> pk, worker |-> wid] : p \in aips}

(* The sorted table's first match: the longest prefix, then the least key.  *)
Match(t, addr) ==
    LET hits == {e \in t : addr \in Prefixes[e.prefix]}
        Before(a, b) == \/ Cardinality(Prefixes[a.prefix]) < Cardinality(Prefixes[b.prefix])
                        \/ a.prefix = b.prefix /\ a.peer <= b.peer
    IN  IF hits = {} THEN None ELSE CHOOSE a \in hits : \A b \in hits : a = b \/ Before(a, b)

accepts_source(pk, addr) == LET e == Match(allowed, addr) IN IF e = None THEN FALSE ELSE e.peer = pk

Members(c) == {p \in Peers : c[p] # None}

(* run_with: peers in the order of the configuration, one worker after the  *)
(* other, each with its session begun and its entries in the tables.  There *)
(* are never more workers than peers to begin with.                         *)
ShardInit ==
    /\ conf \in Confs /\ Cardinality(Members(conf)) >= N /\ confs = 1
    /\ LET ms == Members(conf)
           Rank(p) == Cardinality({q \in ms : q < p})
       IN  /\ known = [p \in Peers |-> IF p \in ms THEN [wid |-> Rank(p) % N, aips |-> conf[p]] ELSE None]
           /\ ordinal = Cardinality(ms)
           /\ sessions = [s \in 1..Cardinality(ms) |-> CHOOSE p \in ms : Rank(p) + 1 = s]
           /\ peer_to_wid = [p \in Peers |-> IF p \in ms THEN Rank(p) % N ELSE None]
           /\ allowed = UNION {{[prefix |-> x, peer |-> p, worker |-> Rank(p) % N] : x \in conf[p]} : p \in ms}
           /\ status = ms
           /\ peers = [w \in Workers |-> [p \in Peers |->
                         IF p \in ms /\ Rank(p) % N = w THEN Rank(p) + 1 ELSE None]]
           /\ index_owner = [s \in 1..MaxSessions |-> IF s <= Cardinality(ms) THEN (s - 1) % N ELSE None]
    /\ rec = Idle /\ mail = [w \in Workers |-> <<>>]
    /\ tun_rx = None /\ udp_rx = None /\ out = None

-----------------------------------------------------------------------------
(* The control plane hands out another configuration.                       *)
Configure ==
    /\ rec = Idle /\ confs < MaxConfs /\ confs' = confs + 1 /\ conf' \in Confs \ {conf} /\ Quiet
    /\ UNCHANGED <<tables, rec, mail, workers, tun_rx, udp_rx>>

Room(w) == Len(mail[w]) < Mailbox
Post(w, m) == mail' = [mail EXCEPT ![w] = Append(@, m)]

(* peer_changes: peers that left, peers that came, peers with other routes. *)
Leaving == {p \in Peers : known[p] # None /\ conf[p] = None}
Joining == {p \in Peers : known[p] = None /\ conf[p] # None}
Rerouted == {p \in Peers : known[p] # None /\ conf[p] # None /\ known[p].aips # conf[p]}

(* remove_peer: out of the routing table at once; then the worker is told   *)
(* (wait for room), then the other tables follow.                           *)
\* Mutant of remove_peer: the routes go last.
Bugremove_peer(p) ==
    /\ rec = Idle /\ p \in Leaving
    /\ rec' = [at |-> "remove", pk |-> p, wid |-> known[p].wid] /\ Quiet
    /\ UNCHANGED <<conf, confs, tables, mail, workers, tun_rx, udp_rx>>

remove_peer(p) ==
    /\ rec = Idle /\ p \in Leaving
    /\ allowed' = with_peer(allowed, p, known[p].wid, {})
    /\ rec' = [at |-> "remove", pk |-> p, wid |-> known[p].wid] /\ Quiet
    /\ UNCHANGED <<conf, confs, known, ordinal, peer_to_wid, mail, workers, tun_rx, udp_rx>>

SendRemove ==
    /\ rec.at = "remove" /\ Room(rec.wid) /\ Post(rec.wid, [kind |-> "remove", pk |-> rec.pk])
    /\ rec' = [rec EXCEPT !.at = "purge"] /\ Quiet
    /\ UNCHANGED <<conf, confs, tables, workers, tun_rx, udp_rx>>

route_remove ==
    /\ rec.at = "purge" /\ rec' = Idle /\ Quiet
    /\ known' = [known EXCEPT ![rec.pk] = None]
    /\ peer_to_wid' = [peer_to_wid EXCEPT ![rec.pk] = None]
    /\ allowed' = with_peer(allowed, rec.pk, rec.wid, {})
    /\ UNCHANGED <<conf, confs, ordinal, mail, workers, tun_rx, udp_rx>>

(* add_peer: the worker first, then the tables.  The worker may have the    *)
(* peer before the tables do.                                               *)
add_peer(p) ==
    /\ rec = Idle /\ Leaving = {} /\ p \in Joining /\ Room(ordinal % N)
    /\ Post(ordinal % N, [kind |-> "add", pk |-> p])
    /\ rec' = [at |-> "add", pk |-> p, wid |-> ordinal % N] /\ Quiet
    /\ UNCHANGED <<conf, confs, tables, workers, tun_rx, udp_rx>>

\* Mutant of route_add: counts before it takes the worker.
Bugroute_add ==
    LET p == rec.pk
        wid == (ordinal + 1) % N IN
    /\ rec.at = "add" /\ rec' = Idle /\ Quiet /\ ordinal' = ordinal + 1
    /\ peer_to_wid' = [peer_to_wid EXCEPT ![p] = wid]
    /\ allowed' = with_peer(allowed, p, wid, conf[p])
    /\ known' = [known EXCEPT ![p] = [wid |-> wid, aips |-> conf[p]]]
    /\ UNCHANGED <<conf, confs, mail, workers, tun_rx, udp_rx>>

route_add ==
    LET p == rec.pk IN
    /\ rec.at = "add" /\ rec' = Idle /\ Quiet /\ ordinal' = ordinal + 1
    /\ peer_to_wid' = [peer_to_wid EXCEPT ![p] = ordinal % N]
    /\ allowed' = with_peer(allowed, p, ordinal % N, conf[p])
    /\ known' = [known EXCEPT ![p] = [wid |-> ordinal % N, aips |-> conf[p]]]
    /\ UNCHANGED <<conf, confs, mail, workers, tun_rx, udp_rx>>

update_routes(p) ==
    /\ rec = Idle /\ Leaving = {} /\ p \in Rerouted /\ Quiet
    /\ allowed' = with_peer(allowed, p, known[p].wid, conf[p])
    /\ known' = [known EXCEPT ![p].aips = conf[p]]
    /\ UNCHANGED <<conf, confs, ordinal, peer_to_wid, rec, mail, workers, tun_rx, udp_rx>>

-----------------------------------------------------------------------------
(* The TUN reader: route_tun on a snapshot of the table, then the mailbox.  *)
route_tun(addr) ==
    LET e == Match(allowed, addr) IN
    /\ tun_rx = None /\ e # None /\ Quiet
    /\ tun_rx' = [wid |-> e.worker, msg |-> [kind |-> "egress", pk |-> e.peer]]
    /\ UNCHANGED <<conf, confs, tables, rec, mail, workers, udp_rx>>

TunSend ==
    /\ tun_rx # None /\ Room(tun_rx.wid) /\ Post(tun_rx.wid, tun_rx.msg)
    /\ tun_rx' = None /\ Quiet
    /\ UNCHANGED <<conf, confs, tables, rec, workers, udp_rx>>

(* The UDP reader goes by the session's index, the readers of the relay and *)
(* of TCP by the peer's key.  A peer may use any session it ever had.       *)
Arrives(s, addr, wid) ==
    /\ udp_rx = None /\ wid # None /\ Quiet
    /\ udp_rx' = [wid |-> wid, msg |-> [kind |-> "data", session |-> s, addr |-> addr]]
    /\ UNCHANGED <<conf, confs, tables, rec, mail, workers, tun_rx>>

route_udp(s, addr) == Arrives(s, addr, index_owner[s])
route_framed(s, addr) == Arrives(s, addr, peer_to_wid[sessions[s]])

UdpSend ==
    /\ udp_rx # None /\ Room(udp_rx.wid) /\ Post(udp_rx.wid, udp_rx.msg)
    /\ udp_rx' = None /\ Quiet
    /\ UNCHANGED <<conf, confs, tables, rec, workers, tun_rx>>

-----------------------------------------------------------------------------
(* A worker takes one message at a time.                                    *)
Took(w, kind) == mail[w] # <<>> /\ Head(mail[w]).kind = kind /\ mail' = [mail EXCEPT ![w] = Tail(@)]
Rest == UNCHANGED <<conf, confs, tables, rec, tun_rx, udp_rx>>

on_add_peer(w) ==
    LET p == Head(mail[w]).pk IN
    /\ Took(w, "add") /\ Quiet /\ Rest
    /\ IF peers[w][p] # None THEN UNCHANGED workers
       ELSE /\ Len(sessions) < MaxSessions /\ sessions' = Append(sessions, p)
            /\ peers' = [peers EXCEPT ![w][p] = Len(sessions) + 1]
            /\ index_owner' = [index_owner EXCEPT ![Len(sessions) + 1] = w]
            /\ status' = status \cup {p}

\* Mutant of on_remove_peer: the index stays routed.
Bugon_remove_peer(w) ==
    /\ Took(w, "remove") /\ Quiet /\ Rest
    /\ peers' = [peers EXCEPT ![w][Head(mail[w]).pk] = None]
    /\ UNCHANGED <<index_owner, sessions, status>>

on_remove_peer(w) ==
    LET p == Head(mail[w]).pk IN
    /\ Took(w, "remove") /\ Quiet /\ Rest
    /\ peers' = [peers EXCEPT ![w][p] = None]
    /\ IF peers[w][p] = None THEN UNCHANGED <<index_owner, status>>
       ELSE index_owner' = [index_owner EXCEPT ![peers[w][p]] = None] /\ status' = status \ {p}
    /\ UNCHANGED sessions

on_tun_egress(w) ==
    LET m == Head(mail[w]) IN
    /\ Took(w, "egress") /\ Rest /\ UNCHANGED workers
    /\ out' = IF peers[w][m.pk] = None THEN None ELSE [to |-> "wire", pk |-> m.pk]

(* on_udp_in and on_relay_in: the session decides; deliver_wg lets a packet *)
(* in only from an address that is the peer's by the table of this moment.  *)
deliver_wg(w) ==
    LET m == Head(mail[w])
        p == sessions[m.session] IN
    /\ Took(w, "data") /\ Rest /\ UNCHANGED workers
    /\ out' = IF peers[w][p] = m.session /\ accepts_source(p, m.addr)
                THEN [to |-> "tun", pk |-> p] ELSE None

ShardNext ==
    \/ Configure
    \/ \E p \in Peers : remove_peer(p) \/ add_peer(p) \/ update_routes(p)
    \/ SendRemove \/ route_remove \/ route_add
    \/ \E a \in Addrs : route_tun(a)
    \/ \E s \in DOMAIN sessions, a \in Addrs : route_udp(s, a) \/ route_framed(s, a)
    \/ TunSend \/ UdpSend
    \/ \E w \in Workers : on_add_peer(w) \/ on_remove_peer(w) \/ on_tun_egress(w) \/ deliver_wg(w)

ShardSpec == ShardInit /\ [][ShardNext]_shardVars

-----------------------------------------------------------------------------
ShardTypeOK ==
    /\ known \in [Peers -> {None} \cup [wid : Workers, aips : SUBSET DOMAIN Prefixes]]
    /\ peer_to_wid \in [Peers -> {None} \cup Workers]
    /\ allowed \subseteq [prefix : DOMAIN Prefixes, peer : Peers, worker : Workers]
    /\ peers \in [Workers -> [Peers -> {None} \cup 1..MaxSessions]]
    /\ index_owner \in [1..MaxSessions -> {None} \cup Workers] /\ status \subseteq Peers
    /\ \A w \in Workers : Len(mail[w]) <= Mailbox

(* From the moment the reconciler turns to a revoked peer, before its       *)
(* worker knows, no packet of that peer is let through to the TUN's writer; *)
(* nor is one of a new peer before it is in the tables (REVOKE-1, fail      *)
(* closed).                                                                 *)
RevokedSilent ==
    out # None /\ out.to = "tun" =>
        known[out.pk] # None /\ ~(rec.at \in {"remove", "purge"} /\ rec.pk = out.pk)

LastOf(w, p) ==
    LET about == SelectSeq(mail[w], LAMBDA m : m.kind \in {"add", "remove"} /\ m.pk = p)
    IN  IF about = <<>> THEN None ELSE about[Len(about)].kind

(* A worker holds a peer that the tables give to another worker, or to      *)
(* none, only while its RemovePeer is still in the mailbox, or the peer is  *)
(* just being added or removed; and whoever the tables name has it or will. *)
ShardsAgree ==
    \A p \in Peers, w \in Workers :
        LET busy == rec # Idle /\ rec.pk = p /\ rec.wid = w
            mine == known[p] # None /\ known[p].wid = w
            will == LastOf(w, p) = "add" \/ (LastOf(w, p) = None /\ peers[w][p] # None)
        IN  ~busy => will = mine

(* The index of a session leads to the worker that has it, and an index     *)
(* nobody has leads nowhere (IndexTable, on_remove_peer).                   *)
IndexesRouted ==
    \A s \in 1..MaxSessions, w \in Workers :
        (index_owner[s] = w) = (\E p \in Peers : peers[w][p] = s)

(* The routing table says what the reconciler believes, entry by entry and  *)
(* with the right worker, whatever order peers came and went in.            *)
TableIsKnown ==
    rec = Idle =>
        /\ allowed = UNION {{[prefix |-> x, peer |-> p, worker |-> known[p].wid] : x \in known[p].aips} :
                              p \in {q \in Peers : known[q] # None}}
        /\ \A p \in Peers : peer_to_wid[p] = IF known[p] = None THEN None ELSE known[p].wid
=============================================================================
