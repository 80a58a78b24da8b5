------------------------------- MODULE Disco --------------------------------
(***************************************************************************)
(* Path probes between two nodes (disco.rs, worker.rs on_disco): each pings *)
(* the addresses it knows of the other, answers a ping once, challenges the *)
(* source of a ping it does not use yet, and uses an address only after the *)
(* answer to a probe it sent there.  Datagrams are lost, doubled, delayed   *)
(* and reordered; a node's address changes; the two clocks differ.  All     *)
(* datagrams carry the MAC of the pair, so forged ones are dropped and are  *)
(* left out.                                                                *)
(***************************************************************************)
EXTENDS Naturals, FiniteSets

CONSTANTS
    None,
    DISCO_REPLAY_WINDOW_SECS,
    CAPACITY,
    Skew,         \* by how much node 2's clock is ahead of node 1's
    MaxTime, MaxProbes, MaxMoves

VARIABLES
    time,
    at,           \* the address each node sends from and receives at
    seen,         \* Probes::seen: pings answered and when they may be forgotten
    pending,      \* Probes::pending: probes with their targets and expiry
    routes,       \* Routes: the probes for which a pong finds its worker
    direct,       \* direct_addr once it is validated (disco_validated), else None
    net,          \* the datagrams ever sent
    made,         \* the number of probes each node has made
    answered,     \* how often each ping was answered
    adopted,      \* how often each probe's answer chose the path
    moves

Nodes == {1, 2}
Peer(n) == 3 - n
Addrs == {1, 2}
Now(n) == IF n = 2 THEN time + Skew ELSE time
Ids == [by : Nodes, sent : 0..(MaxTime + Skew), n : 1..MaxProbes]
Later == 0..(MaxTime + 2 * (Skew + DISCO_REPLAY_WINDOW_SECS))

discoVars == <<time, at, seen, pending, routes, direct, net, made, answered, adopted, moves>>

DiscoTypeOK ==
    /\ time \in 0..MaxTime /\ at \in [Nodes -> Addrs] /\ made \in [Nodes -> 0..MaxProbes]
    /\ \A n \in Nodes :
          /\ seen[n] \subseteq [id : Ids, expires : Later] /\ Cardinality(seen[n]) <= CAPACITY
          /\ pending[n] \subseteq [id : Ids, targets : SUBSET Addrs, expires : Later]
          /\ Cardinality(pending[n]) <= CAPACITY
          /\ routes[n] \subseteq [id : Ids, expires : Later]
          /\ direct[n] \in Addrs \cup {None}
    /\ net \subseteq [kind : {"ping", "pong"}, id : Ids, from : Addrs, to : Addrs]
    /\ answered \in [Ids -> 0..2] /\ adopted \in [Ids -> 0..2] /\ moves \in 0..MaxMoves

DiscoInit ==
    /\ time = 0 /\ at = [n \in Nodes |-> 1] /\ net = {} /\ moves = 0
    /\ seen = [n \in Nodes |-> {}] /\ pending = [n \in Nodes |-> {}] /\ routes = [n \in Nodes |-> {}]
    /\ direct = [n \in Nodes |-> None] /\ made = [n \in Nodes |-> 0]
    /\ answered = [id \in Ids |-> 0] /\ adopted = [id \in Ids |-> 0]

Abs(a, b) == IF a > b THEN a - b ELSE b - a
Live(entries, now) == {e \in entries : e.expires >= now}

-----------------------------------------------------------------------------
(* Probes::start: a fresh id with the time in it, known to the peer and to the router. *)
Room(n) == Cardinality(Live(pending[n], Now(n))) < CAPACITY /\ made[n] < MaxProbes
NewId(n) == [by |-> n, sent |-> Now(n), n |-> made[n] + 1]
Expiry(n) == Now(n) + DISCO_REPLAY_WINDOW_SECS

start(n, targets) ==
    /\ made' = [made EXCEPT ![n] = @ + 1]
    /\ pending' = [pending EXCEPT ![n] =
          Live(@, Now(n)) \cup {[id |-> NewId(n), targets |-> targets, expires |-> Expiry(n)]}]
    /\ routes' = [routes EXCEPT ![n] = Live(@, Now(n)) \cup {[id |-> NewId(n), expires |-> Expiry(n)]}]

Pings(n, targets) ==
    {[kind |-> "ping", id |-> NewId(n), from |-> at[n], to |-> a] : a \in targets}

(* disco_ping: the candidate of the configuration and the address in use. *)
Probe(n) ==
    LET targets == {1} \cup ({direct[n]} \ {None}) IN
    /\ Room(n)
    /\ start(n, targets) /\ net' = net \cup Pings(n, targets)
    /\ UNCHANGED <<time, at, seen, direct, answered, adopted, moves>>

\* Mutant of Remembered: a ping is remembered for a window from now.
BugRemembered(n, id) == [id |-> id, expires |-> Now(n) + DISCO_REPLAY_WINDOW_SECS]

(* accept_ping: remembered until its own time leaves the window, also when the
   sender's clock is ahead.  A ping that is not accepted only drops entries that no
   longer count. *)
Remembered(n, id) == [id |-> id, expires |-> id.sent + DISCO_REPLAY_WINDOW_SECS]

Accepts(n, id) ==
    /\ Abs(Now(n), id.sent) <= DISCO_REPLAY_WINDOW_SECS
    /\ \A e \in Live(seen[n], Now(n)) : e.id # id
    /\ Cardinality(Live(seen[n], Now(n))) < CAPACITY

(* on_disco, Ping: answered at its source; a source that is not in use is probed. *)
RecvPing(n, m) ==
    /\ m \in net /\ m.kind = "ping" /\ m.id.by = Peer(n) /\ m.to = at[n]
    /\ Accepts(n, m.id)
    /\ seen' = [seen EXCEPT ![n] = Live(@, Now(n)) \cup {Remembered(n, m.id)}]
    /\ answered' = [answered EXCEPT ![m.id] = @ + 1]
    /\ LET pong == [kind |-> "pong", id |-> m.id, from |-> at[n], to |-> m.from] IN
       IF direct[n] # m.from /\ Room(n)
       THEN start(n, {m.from}) /\ net' = net \cup {pong} \cup Pings(n, {m.from})
       ELSE net' = net \cup {pong} /\ UNCHANGED <<made, pending, routes>>
    /\ UNCHANGED <<time, at, direct, adopted, moves>>

(* route_udp, Probes::pending: the pong reaches the worker and answers a live probe
   from an address the probe went to. *)
Awaits(n, m) ==
    /\ \E r \in routes[n] : r.id = m.id /\ r.expires >= Now(n)
    /\ \E p \in pending[n] : p.id = m.id /\ p.expires >= Now(n) /\ m.from \in p.targets
    /\ Abs(Now(n), m.id.sent) <= DISCO_REPLAY_WINDOW_SECS

\* Mutant of finish: the probe stays pending.
Bugfinish(n, id) == UNCHANGED <<pending, routes>>

(* Probes::finish *)
finish(n, id) ==
    /\ pending' = [pending EXCEPT ![n] = {p \in @ : p.id # id}]
    /\ routes' = [routes EXCEPT ![n] = {r \in @ : r.id # id}]

(* on_disco, Pong *)
RecvPong(n, m) ==
    /\ m \in net /\ m.kind = "pong" /\ m.id.by = n /\ m.to = at[n]
    /\ Awaits(n, m) /\ finish(n, m.id)
    /\ direct' = [direct EXCEPT ![n] = m.from]
    /\ adopted' = [adopted EXCEPT ![m.id] = @ + 1]
    /\ UNCHANGED <<time, at, seen, net, made, answered, moves>>

Moves(n) ==
    /\ moves < MaxMoves /\ moves' = moves + 1 /\ at' = [at EXCEPT ![n] = 3 - @]
    /\ UNCHANGED <<time, seen, pending, routes, direct, net, made, answered, adopted>>

Passes ==
    /\ time < MaxTime /\ time' = time + 1
    /\ UNCHANGED <<at, seen, pending, routes, direct, net, made, answered, adopted, moves>>

DiscoNext ==
    \/ \E n \in Nodes : Probe(n) \/ Moves(n) \/ \E m \in net : RecvPing(n, m) \/ RecvPong(n, m)
    \/ Passes

DiscoSpec == DiscoInit /\ [][DiscoNext]_discoVars

-----------------------------------------------------------------------------
(* A ping is answered once, however often and late it arrives, with the sender's clock
   ahead or behind and the table at its limit (accept_ping: "Never evict still-valid
   seen entries"). *)
AnsweredOnce == \A id \in Ids : answered[id] <= 1

(* The answer to a probe chooses the path once, so a doubled pong that arrives late does
   not undo a newer choice; and as long as a probe is pending its answer finds the
   worker that waits for it (finish, owner). *)
ProbesSpent ==
    /\ \A id \in Ids : adopted[id] <= 1
    /\ \A n \in Nodes : \A p \in Live(pending[n], Now(n)) :
          \E r \in routes[n] : r.id = p.id /\ r.expires = p.expires
=============================================================================
