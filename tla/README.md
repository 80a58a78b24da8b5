# A TLA+ verification of fluxpeer

This directory holds TLA+ specifications of fluxpeer, the TLC configurations that
model-check them on small instances, and TLAPS proofs of the most important
properties. Every definition is translated from the code under `src/`; `PROJECT.json`
maps each of them to the lines it stands for, lists the runs, the theorems, the
hazards, and for every checked property a mutation of the model that violates it.

## The system and its parts

fluxpeer is a WireGuard-compatible mesh. A **control server** keeps networks, devices,
invites, routes and relays in a database and publishes each network's configuration
under an epoch. A **node** joins with an invite, follows its network's configuration
and carries traffic to its peers, directly or over a **relay server**. On the host, a
daemon runs one process for each network the machine is a member of, and these
processes install routes, DNS servers, firewall rules and a kill switch.

| Part | Source | Module |
|---|---|---|
| Control store: tables, handlers, transactions | `control-server/src/{sql_store,persistence,integrity,device_routes}.rs` | `ControlStore`, `ControlStoreProofs` |
| Epoch watch, configuration push and poll | `control-server/src/{sql_store,lib}.rs`, `node/src/control.rs` | `ConfigPush`, `MCControl`, `ControlProofs` |
| HTTP handlers, tokens | `control-server/src/{lib,device_routes,http_limits}.rs` | `DeviceApi`, `ControlProofs` |
| In-memory store, its watch and address allocator | `control-server/src/{state,ipam,lib}.rs` | `MemStore` |
| Proof of possession, admin accounts and sessions | `control-server/src/{pop,auth}.rs` | `EnrolPop`, `ControlAccess`, `ControlProofs` |
| DNS ownership journal; OpenWrt's resolver | `node/src/dns/managed.rs`; `node/src/dns.rs` | `DnsJournal`, `DnsJournalSteps`, `DnsStateProofs`, `DnsJournalProofs`; `UciDns` |
| Host effects: bypasses, routes, exit, DNS, retries, cleanup | `node/src/{lib,apply,route,bypass}.rs`, `node/src/route/windows*` | `HostEffects`, `ExitRoutes`, `RouteBook` |
| Forwarding leases and NAT rules; pf | `node/src/firewall.rs`, `node/src/firewall/{forwarding,pf}.rs` | `Provider`; `PfAnchor` |
| Kill switch and carrier cache | `node/src/firewall/client.rs`, `node/src/carriers.rs` | `KillSwitch` |
| Daemon, start and end of a node | `node/src/{daemon,daemon_process,lib}.rs` | `Daemon`, `NodeRun` |
| Relay directory, STUN | `node/src/{lib,control,relay}.rs` | `RelayDirectory` |
| Workers, paths, disco, TCP-direct, batches | `node/src/{lib,worker,peer,disco,tcp_direct,gso}.rs` | `Shards`, `Paths`, `Disco`, `TcpDirect`, `GsoBatch` |
| Noise sessions, replay window | `engine/crypto/fp-crypto-noise` | `Session`, `ReplayWindow` |
| Relay server and its clients | `relay-server/src`, `node/src/relay.rs` | `Relay`, `RelayRegistry`, `RelayProofs`, `Framing` |
| Bonded TCP | `engine/transport/fp-transport-tcp-bond`, `relay-server/src/auth.rs` | `BondLinks`, `BondJoin` |
| AnyTLS; UDP listener | `engine/transport/fp-transport-{anytls,udp}` | `AnytlsServer`, `AnytlsClient`; `UdpListener` |
| Engine actors, hash ring | `engine/sys/fp-node-{server,client}-sys`, `engine/net/fp-conhash` | `EngineServer`, `EngineClient`, `ConHash` |
| Mobile bindings | `engine/sys/fp-node-mobile-sys`, `node/src/mobile.rs` | `MobileEngine` |
| TUN devices, vendored code, join, CLI, SDK | `engine/{vendor,net/fp-tun}`, `node/src/join.rs`, `cli`, `sdk` | not modelled, see below |

`PROJECT.json` gives every part with its state and reason under `components`.

## Control store

`ControlStore` has the database tables as functions from row ids to records (`nets`,
`invites`, `devices`, `routes`, `relays`, `stats`), the id sequence `seq`, the number
`rnd` of random values (invite codes, tokens) drawn, and `ops`, the next statement of
each running HTTP handler.

* An operation that runs in a transaction (`enroll`, `import`, `revoke_device`,
  `delete_network`, `advertise_route`, the device's own route changes, relay
  registration...) takes the write lock first (`integrity::begin`), so it is one
  action. An operation that fails rolls back and is no step. The retry on contention
  runs the same transaction again and is no step either.
* `create_network`, `approve_route`, `delete_route` and `set_device_settings` use no
  transaction. Each of their statements is a step (`CreateNetwork`/`InsertNetwork`,
  `ApproveRoute`/`SetRouteApproved`/`BumpAndNotify`, ...). Other handlers run between
  them, and `DropHandler` models the request deadline of `http_limits.rs` and a client
  that disconnects.
* A random draw is always fresh, an idealisation of 128 and 256 random bits.

Properties: keys and IPv4 addresses of active devices are unique in their network,
although imports choose addresses of their own and revoked devices return theirs; no
credential outlives its device or network; an invite is used once per device it
created and never beyond its limit; no row refers to a network or device that is gone,
whatever runs while a network is deleted; ids are never recycled; a change of the
configuration bumps the epoch or leaves a handler that is about to; a device cannot
withdraw a route that has just been approved.

### Runs

| Run | Instance | Shows |
|---|---|---|
| `control_devices` | two keys, two subnets, two octets, one network at a time, four ids, three random values, one handler, imports of up to two rows | device, address, invite and id properties |
| `control_routes` | one key, two handlers, two routes, one relay, two values of a column | references, announcements, approved routes |
| `route_delete_race` | one route, two handlers | **violation**, see Findings |

The bounds let each of these happen: an octet is freed and taken again, the pool is
exhausted, an import takes an address inside and outside the pool, an invite is used up, a
network is deleted between two statements of a handler, and a second network is created
after it. `MaxEpoch` is never reached: the views (`View`, `DevicesView`) drop the epochs,
which no guard but that bound reads, and TLC still compares the epochs before and after
each step. Keys and handlers are symmetric. Deadlock is not checked: when the bounded ids
are used up and every row is deleted, nothing is left to do (in the code the sequence ends
at `i64::MAX`). No liveness is claimed here: the store promises nothing about when
requests arrive.

### Proofs

`ControlStoreProofs` proves for all values of the constants that satisfy
`ConstantsAssumption` (arbitrary sets of keys, subnets, prefixes and handlers, the pool's
hosts among the octets, natural bounds): `TypeCorrect`, `KeysUnique`, `AddrsUnique`,
`CredentialsEnd`, `NothingDangles`, `BudgetKept`, and the action properties `IdsOnce` and
`ApprovalsStay`.

The properties are not inductive one by one. `IInv` adds to them `FreshIds` (the id
that a `create_network` has drawn and not yet inserted is one of the sequence and is
used by no row and no other handler) and `ViaDrawn` (a device names an invite code
that was drawn); the type invariant says that every id and code in use was drawn.
They depend on each other: a new invite has budget only because no
device can name its code yet; a new device does not clash only because its id is new;
a route refers to a device of its own network only because devices keep their network.
The argument has three layers. Lemmas `...Writers` say which actions write which
table; `DeviceFate` and `NewDevices` say what any step does to an existing device row
and what a new one looks like; then one lemma per conjunct of `IInv` shows that a step
keeps it, by cases over the few actions that write the tables it reads.

`ChangesAnnounced` is model-checked only.

## DNS ownership journal

Each member process may take over the host's resolver: per link with
`systemd-resolved`, or by replacing `/etc/resolv.conf`. All processes share a journal
behind a file lock. It keeps the original file, the stack of owners (the top one is in
force), the last two bodies written, and what each link's settings were.

`DnsJournal` has the resolver files by target, the link `/etc/resolv.conf`, the settings
of each link, the journal on disk, and `holder`: the operation that has the lock, with its
copy of the journal, its next decision and the effects still to come. `set_mode_with`,
`verify_file_with` and `clear_with` start with `Open`, run through `prune` (`PruneOwners`,
`PruneFile`, `PruneLinks`, `PruneLink`) and then take their own steps (`Begin`,
`QueryLink`, `SetLink`, `SetFile`, `ClearLink`, `ClearFile`). Between a decision and its
effects, and between a save and a write, the process may die (`Stop`), the host may
reboot, an effect may fail before or after its rename (`Fail`), and other programs may
write the file or point the link elsewhere. A list of servers stands for the file body
made of it. Whether the drift backoff is over is left open. `moved` and `slipped` are
history variables of the properties.

Properties: `OriginalKept`, the original is in the file or in the journal unless the
file was released while it held a body of ours that the journal no longer knew;
`NoLeftover`, after a release none of our bodies is left behind; `LinkAccounted`, the
journal has a link's former settings, never our own, while ours may be in force;
`OrderKept`, whoever gets above an owner does so by its own set of servers that the
journal does not have for it, so a verify, a repeated set, a repair or the exit of a third
member never changes the order (a member that was pruned has no servers in the journal:
its first set after a restart does put it on top, and the property says no more);
`DriftRepaired`, while a member in full-tunnel mode (`Full`) owns the file, the top owner's
servers come into force again and again.

| Run | Instance | Shows |
|---|---|---|
| `dns_journal` | two members (one prefers resolved), three server lists, three process lifetimes, two failed effects | types, original, links, order |
| `dns_takeover` | two members, one server list, a foreign write or retarget, a reboot, one failed effect, files under `/etc`, `/run` and a manager's directory | original across the reboot, no leftovers, repair of drift |
| `dns_original_lost` | one member, three server lists | **violation**, see Findings |

Three lists are the fewest for a body that is neither of the last two. Fairness in
`dns_takeover`: the operation that holds the lock goes on (it is straight-line code
with command timeouts), the reconcile tick of a running member of `Full` that owns the
file gets the lock again and again (`Locked::open` polls it, each tick anew), and the
backoff, at most 60 s, ends. The tick is a set or a verify (`Reconciles`); as
`sync_dns_mode_with` verifies only in full-tunnel mode, nothing is assumed of a member in
split mode: of the two members of `dns_takeover` one is in `Full`, and drift is not repaired
while only the other one runs.
Failures and foreign changes are finitely many. If a command on a dead member's link
failed for ever with an unexpected error, `prune` would abort every operation and the
repair would not happen; the code chooses that on purpose. Deadlock is not checked:
when all processes have stopped, the host may stay as it is.

### Proofs

The theorems of `DnsJournalProofs` hold for any interfaces, servers, files, process
lifetimes, failures and foreign changes, assuming `ConstantsAssumption` and that the
marker `None` is no journal entry and no operation (`NoneAssumption`): `JournalTyped`,
`LinksAccounted`, `NothingLeft`, `OriginalSafe` and the action property `PrecedenceKept`.

* `DnsJournalSteps` says once, for each action, which fields of the operation under the
  lock it sets, and proves the types and the shape of an operation (`Holding`).
* `DnsStateProofs` has the inductive invariants of the state. `LinkInv`: both the journal
  on disk and the copy in memory have the former settings of every link that may have
  ours, the entries still to be pruned belong to dead processes, and the entry for the own
  link is the operation's own. It is about both copies, since a process dies between the
  change of one and the save of the other. `FileInv`: what is saved as the original is
  none of our bodies, no body of ours is in a file the journal does not account for, and
  each effect still to come finds what it relies on (`ToCome`: a restore writes before
  the journal forgets, a set saves before it overwrites). `OrigInv`: while nobody else
  touched the resolver, there is no third body anywhere.
* `OrderInv` is about stacks of owners of any length. `Retain`, the model of `Vec::retain`,
  lists the kept positions in their order. That such a list exists takes induction over
  sets, and the prover cannot use the library's induction rule; `LeastNat` (a set of
  numbers has a least one, from the facts on well-founded relations) takes its place.

`OriginalSafe` keeps the exception of `OriginalKept`; `dns_original_lost` shows that it is
needed. `DriftRepaired` is liveness and stays with TLC.

Not in this model: the in-place write that `write_file_with` uses for files with a
security label or a mount point, which is not atomic; failures to read or to parse the
journal, which end an operation before it changes anything.

## Relay

A client dials the relay, proves its key, sends `ClientInfo`, and the hub registers the
connection under that key; packets for a key go to the queue of the connection that is
registered for it. Both ends of a connection are one task that selects between reading
and writing. A client dials again when its connection ends or its dial times out, so the
server often works on two connections of one key, and may finish their handshakes in
either order.

`Relay` has for each connection the phase of the client's task (`cli`) and of the
server's task (`srv`), the frames under way (`up`, `down`), the hub's outbound queue,
the frame a task waits to write, and whether the session key still stands (`active`).
`peers` is the hub's map. `Register` is `connect_authenticated` (the entry that is
replaced is dropped, which revokes its session), `EndServer` is the end of a task
(`disconnect_session`, then the lease), `Route` is `route_session`, and `ServerRead`,
`ServerTake`, `ServerWrite`, `ServerEof` and `ServerIdle` are the arms of the two pumps.
A plain connection delivers in order, blocks on a full buffer and ends with an end of
file. A bond delivers in any order, fails on a full buffer or a revoked session, and
never reports an end. `Cut` is a path that dies silently. The challenge round of the
identity exchange is part of `Proof`. The token bucket may drop any packet. `retired`
and the field `via` are history for the properties.

`RelayRegistry` is the promise: each key is served by at most one connection, the newest
registration wins, and a connection that stopped serving never serves again.

Properties: `RegisteredIsActive`, the hub names a connection exactly while its task pumps
with a session that stands; `OldPacketsFirst`, a replaced connection adds nothing behind
its successor's packets; `ImplementsRegistry`; `DeadIsFreed`, the registration of a
client that is gone is given up; `TypeOK` includes the capacities.

| Run | Instance | Shows |
|---|---|---|
| `relay` | a plain and a bonded client, three connections, one path dies, two frames, queues of two | registration, order, refinement |
| `relay_freed` | two connections, one path dies, queues of one; see Liveness | capacities, dead registrations are freed |
| `relay_stuck` | two plain clients, four frames, buffers of one | **violation**, see Findings |

Three connections are the fewest with two generations of one client and a peer that
sends to it or receives from it. A queue of two holds a packet of each generation; a
queue of one overflows with two frames. Fairness: the tasks of both ends are scheduled,
and the idle timeout and the kernel's retransmission timeout fire. The application is
assumed to take what the client's task reads. Dials, frames and the death of paths are
not fair. Deadlock is not checked: with all connections used up nothing need happen.

`RelayProofs` proves `RegisteredActive`, `Implements` and `PacketsInOrder` for any sets
of keys and connections and any capacities. The inductive invariant `IInv` adds to
`RegisteredIsActive` that a connection has a key as soon as the server has a task for it
(`Owned`), that a connection in its handshake has never been in the hub, and from the
proof of its identity on has a session (`Newcomers`), and that a retired connection is
not registered (`NoReturn`). A session is revoked when its connection is replaced, long
before the replaced task ends, so the equivalence between `active` and `peers` depends
on all of them. Lemma `HubSteps` sorts all actions into the six things that can happen
to the hub, and the proofs about the registry only look at those. `QInv` adds the types
of the frames and that a packet in a queue came from a connection that is registered for
its source or is retired (`Origins`); lemma `QueueStepInv` rests on what a step can do to
one queue: take from it, or add one packet of a registered connection.

Seen while modelling, without a run of their own: a bonded client sends no pings, so a
live one that is idle for 20 s is dropped as "silently-dead" and learns of it only when
it sends; a dial given up after its `ClientInfo` may register after the next one and
displace it, which leaves a plain client connected but unregistered until its connection
ends; a bond's first frame may be a packet that overtook `ServerInfo`, and then the dial
fails (`BondReady`); the comment on `BondGroup::send` says that a packet is dropped when
all links are full, but the error it returns ends the relay session.

Not in this module: the links of a bond one by one (`BondLinks`, `BondJoin`), rotation
over targets and STUN (`RelayDirectory`), the bytes of a frame (`Framing`), backoff.

## Instances side by side

Most components need only a small state space each, so they share runs. `MCHost` and
`MCMesh` instantiate one component after the other over the same variables `x1`, `x2`,
...; `MCMesh` extends `MCControl`, which does so for the four components whose properties
are proved, with their bounds as constants; the variable `sys` names the component a
behaviour belongs to and never changes. TLC visits the sum of the state spaces, not their
product. A property of such a run is a conjunction with one part per component (`sys =
"uci" => ...`), and each part is defined, with its comment, in the component's own module.
`MCLiveness` does the same for the components with a liveness property and adds the
fairness conditions.

Names that a component treats alike (interfaces, clients, requests, exits) are taken from
the symmetric sets `Lefts` and `Rights`. Deadlock is not checked: with faults and
requests used up, a component may rest.

## The host (`host`, `bypass_dropped`)

| Module | Code | State and actions | Properties |
|---|---|---|---|
| `HostEffects` | `lib.rs` `Reconciler`, `HostEffects`; `apply.rs` `Retry`; `bypass.rs` | the configuration pulled and applied, bypasses, host routes, exit, resolver, the retry of each; one action per effect of a tick, a cleanup between any two | `CarriersBypassed`, `CarriersPermitted`, `NothingAfterCleanup`, `Converged` |
| `ExitRoutes` | `route.rs` `exit_up_with`, `v6_block_up`, `cleanup_exit_with` | the table's four halves, the progress list; one action per route command, which may fail, or time out after its effect | `RowsAccounted`, `ExitWhole` |
| `RouteBook` | `route/windows.rs`, `windows/native.rs` | journal and routing table on Windows, other members' journals, foreign rows | `OwnRowsOnly`, `RowsJournaled`, `BypassOutlivesRedirect` |
| `Provider` | `firewall.rs`, `firewall/forwarding.rs`, `lib.rs` `sync_nat` | sysctls, baseline, leases, rules of three backends, one job per process under the file lock | `ForwardingRestored`, `RulesUnderLease` |
| `PfAnchor` | `firewall/pf.rs` | pf tokens, receipt, journal, rules, the pfctl that outlives its parent | `PfReferenceAccounted`, `PfRulesBacked` |
| `UciDns` | `dns.rs` | staged, committed and running dnsmasq options, the state file | `NoresolvKept`, `ServersInForce` |
| `KillSwitch` | `firewall/client.rs`, `carriers.rs` | plan, rules by family, cache mode, pins, lookups under way | `RulesPlanned`, `NoGap`, `PinsApproved` |
| `RelayDirectory` | `lib.rs` `refresh_directory`, `reconcile_tick`, `refresh_stun`; `control.rs`; `relay.rs` | directory, names, targets published, addresses let past the tunnel, the dial, STUN queries | `DialsExempt`, `AnswerFresh` |
| `Daemon` | `daemon.rs`, `daemon_process.rs` | processes, reservations, admission, the supervisor, shutdown | `ChildrenListed`, `Exclusive`, `ShutdownClean` |
| `NodeRun` | `lib.rs` `run`, `run_with` | where the start or the loop is, the signal task, gate, policy, what is on the host, the exit code | `HostRestored`, `SwitchTakenDown`, `NotLockedOut`, `TerminalOnRecord` |
| `MobileEngine` | `fp-node-mobile-sys`, `mobile.rs` | calls of the platform, engine threads, the descriptor's owner, events | `FdClosedOnce`, `OneEngine`, `QuietAfterStop`, `ExitKnown` |

Run `host` checks them as `HostAccounted` (what is changed on the host can be undone),
`EffectsHold` (order of effects), `KillSwitchHolds`, `DirectoryFollowed` and
`ProcessesEndClean`. Bounds: two members, interfaces, clients, exits or servers; one to
three faults, the smallest number with which every error path and the retry after it
happen; three configurations in which an exit moves, another disappears and the directory
lists a relay that the node has no target for; in
`RelayDirectory` two relays, one of them without a key, whose names change addresses.
Durable writes and commands are steps of their own, so a crash falls between any two.

`MCHost` has the set of `Components` a run is about, and the configurations and faults of
`HostEffects`, as constants. `bypass_dropped` uses `HostEffects` alone with two faults and
a configuration without an exit; see Findings. It is the case that `EffectsHold`, checked
with one fault, leaves out.

## The data plane and the control server (`mesh`)

| Module | Code | State and actions | Properties |
|---|---|---|---|
| `Session` | `fp-crypto-noise` `noise.rs`, `handshake.rs`, `crypto.rs`; `peer.rs`; `worker.rs` `IndexTable` | handshake state, session slots, index table; `net` keeps every message ever sent | `NoRollback`, `Gapless`, `RoutedUnlessPending` |
| `ReplayWindow` | `session.rs` | the bitmap of words as it is, against the set of counters received | `WindowExact` |
| `Shards` | `lib.rs`, `worker.rs` | shared tables, mailboxes, workers; packets and changes under way | `RevokedSilent`, `ShardsAgree`, `IndexesRouted`, `TableIsKnown` |
| `GsoBatch` | `gso.rs` | the send buffer, the receive slots | `SameWire`, `NothingHeldBack`, `ReadOnce` |
| `Framing` | `relay-server` `proto.rs`, `server.rs`; `relay.rs` | byte streams cut anywhere, reads dropped by the select | `FramesIntact` |
| `Paths` | `worker.rs` `on_tick`, `peer.rs` | paths of both ends, ages, the pin and its backoff, links that come and go, in 1 Hz ticks | `NoBlackHole` |
| `Disco` | `disco.rs`, `worker.rs` `on_disco` | replay cache, probes, two clocks that differ, datagrams doubled and delayed | `AnsweredOnce`, `ProbesSpent` |
| `TcpDirect` | `tcp_direct.rs`, `worker.rs` `on_tcp_conn` | connections at both ends, reports to the worker, revocation | `DownStillComes`, `Settled` |
| `BondJoin` | `relay-server/auth.rs`, `fp-transport-tcp-bond` `connector.rs`, `bond.rs` | registry, pending groups, links that authenticate | `LinksShareSession`, `ReservationOwned` |
| `BondLinks` | `fp-transport-tcp-bond` `bond.rs`, `conn.rs`, `health.rs` | links with driver, reader, writer, health | `Retired` (in `relay_freed`) |
| `AnytlsServer`, `AnytlsClient` | `fp-transport-anytls` `acceptor.rs`; `bond.rs`, `health.rs`, `connector.rs` | pending groups, two tasks per new group; the background task and its notifications | `PromotedStays`, `NoZombie`; `DeathNoticed`, `Stopped` |
| `UdpListener` | `fp-transport-udp` `listener.rs` | socket, table, lock, dispatcher, accept, connections | `NewestRegistered`, `InOrder` |
| `ConHash` | `fp-conhash` | ring and replicas, for any hash function without clashes | `NearestServes`, `OthersStay` |
| `EngineServer`, `EngineClient` | `fp-node-server-sys`, `fp-node-client-sys`, `fp-node-core` | dispatcher, workers, accept loops, readers and their mailboxes | `CryptorFitsTransport`, `ListenersServed`, `RemovalReachesWorker`; `NoForgottenTransport`, `SessionWhole`, `DisconnectIsFinal` |
| `ConfigPush` | `sql_store.rs`, `lib.rs` of the control server | versions of the parts of a configuration, handlers, the channel, the watch loop | `EpochCovers`, `CredentialFenced`, `WokenOrCurrent`, `UpToDate` |
| `ControlAccess`, `EnrolPop` | `auth.rs`, `pop.rs` | accounts, sessions, requests await by await; challenges | `StaleSessionDenied`; `ChallengeSpentOnce` |
| `DeviceApi` | `lib.rs`, `device_routes.rs`, `http_limits.rs` of the control server | one request statement by statement, others' transactions in between | `TokenConfined`, `RowsHaveNetwork` |
| `MemStore` | `state.rs`, `ipam.rs`, `lib.rs` (`watch_device`, `watch_loop`, `send_config`) | the in-memory store and its allocator, a device's watch | `AddressesApart`, `EpochTracksConfig`, `WatchCurrent` |

The run groups them as `SessionRouted`, `ShardsAgree`, `PacketsIntact`, `NoBlackHole`,
`BondJoined`, `PushFaithful`, `CredentialsHold`, `StoreConsistent` and `EngineAccounted`.

Bounds (in `MCMesh`, and in `Mesh.cfg` for the components of `MCControl`): `Shards` has
two peers on two workers, a mailbox of one, four session indexes and three configurations
that trade two nested prefixes, one of which revokes a peer. `Session` has two slots,
indexes modulo 4, three INITs and three accepted handshakes, so that an index comes again
and a slot is reused. `ReplayWindow` has three words of two bits and counters up to 12,
twice the bitmap. In `Paths` a path is dead after two ticks, and two of the links UDP, TCP
and relay change. Connections, handlers and requests come in twos and threes, so that an
old and a new one of the same kind meet. `Disco` has a cache of one, so that it overflows,
and clocks one second apart. `ConHash` has three nodes with up to two replicas on a ring
of six, under every hash function without clashes. `EngineServer` has one key and one
port, so what two keys do to each other is outside its instance; its four operations and
two connections are enough for a peer to be removed while its successor is being accepted.
`EngineClient` is checked for platforms that give the interface up when told (`Leaks` is
FALSE).

## Exceptions stated in the properties

Some properties hold only outside a named situation. The model has the situation, and a
history variable or a guard takes it out of the property, so the exception is exact:

| Property | Does not cover |
|---|---|
| `ForwardingRestored` | a process killed between removing the last lease and the baseline, followed by a change by the owner (`stale`) |
| `OwnRowsOnly` | a member whose intent could not be saved (`unsaved`) |
| `RowsAccounted`, `ExitWhole` | a route command killed by its timeout after its effect (`unsure`); IPv6 switched while the exit is up (`steady`) |
| `NoresolvKept`, `ServersInForce` | a torn state file (`torn`), an owner's server that is also ours (`swapped`), an apply skipped after an interrupted clear (`cut`) |
| `NoGap` | rules another tool removed |
| `HostRestored` | a signal task that looked for the host effects just before they were published (`saw`) |
| `CarriersBypassed` | a second failure; `bypass_dropped` shows it |
| `RoutedUnlessPending` | an answer for an index that was pruned, over relay or TCP (`late`) |
| `PromotedStays` | a bond promoted while its eviction was under way (`raced`), a second group of the same id, no authenticator |
| `AddressesApart` | a device revoked twice (`again`), an import of a taken address (`clash`) |
| `WokenOrCurrent` | a handler dropped before it announces, and a route that `delete_route` takes away without a bump because it read it before its approval (`route_delete_race`); the heartbeat is for both (`PushConverges`) |
| `Exclusive` | a member whose configuration was changed between its admission and the moment its process read it (`strayed`) |
| `TerminalOnRecord` | a process that could not read its configuration or write the record (`unrecorded`), and one that a signal ends first |
| `ListenersServed` | a UDP listener whose socket failed: it stays in the table, and holds its port, without an accept loop (`dead`) |
| `SameWire` | a datagram whose own `send_to` failed, and a batch given up with its socket (`lost`) |
| `OrderKept` | a member that comes back after it was pruned: its servers are new to the journal |
| `NoBlackHole` (`Paths`) | peers before their first handshake |

Each is also described under Observations.

## Liveness (`relay_freed`)

`DeadIsFreed`, `LostLinkRetired`, `PushConverges` and `ConfigConverges` say that a state
is reached and kept once faults have ceased. Faults are finitely many by the bounds.
`LostLinkRetired` has three parts: a lost link of a TCP bond ends up retired, the
background task of a closed anytls bond stops, and the two ends of TCP-direct settle on a
connection that works.

Fairness is weak fairness of the steps the code schedules by itself:

| Component | Fair steps | Why |
|---|---|---|
| `Relay` | the tasks of both ends of each connection | tokio runs tasks that are ready; the idle timeout and TCP's own timeout fire |
| `BondLinks` | the ping loop; the end of each link's driver and reader; each link's writer | intervals tick, a closed socket wakes its tasks |
| `ConfigPush` | the handler that has a change to announce, the watch's reads and its heartbeat | `sql_watch_loop_with_idle` wakes on its idle timer |
| `HostEffects` | the reconcile loop, the end of each retry delay (`retire`, `routes`, `exit`, `dns`) | the loop has an interval, `Retry` a deadline; commands are killed by a timeout |
| `AnytlsClient` | the bond's background task | it selects over timers and notifications |
| `TcpDirect` | dialler, timer, reader and writer tasks, the workers' reports and re-admission | as above |

The conditions of the six components are zipped into ten (`Fair1` to `Fair10`), each with
at most one step of each component: as `sys` never changes, that is the same as one
condition for each of them. Nothing is assumed about requests, signals, new connections of
clients, the death of paths, or handlers that are dropped.

Bounds: `Relay` two connections, one of which dies, and queues of one; two links with one
cut; two changes and one dropped handler; two faults of `HostEffects` and a configuration
in which no exit is left; one fault of TCP-direct and of the anytls bond.

## Findings

* `route_delete_race` (`sql_store.rs:517`): `delete_route` decides from an earlier read
  whether to bump the epoch, so a route that is approved in between disappears from the
  configuration without an epoch, while `domain.rs:19` says that the epoch "bumps on any
  config change".
* `dns_original_lost` (`managed.rs:237`): the journal remembers two bodies, both
  recorded before they are written. After a failed write and an interrupted second
  change, the file holds an older body of ours, recovery takes it for a foreign one and
  gives up the original. With two owners one crash inside `restore_file` suffices.
* `relay_stuck` (`server.rs:316`): the server's and the client's task of a plain
  connection both write inside a select arm. With both directions full each waits for
  the other to read, and the idle timeout of `server.rs:14` ("Drop a plain-TCP client
  that hasn't sent ANY frame") does not run, because it belongs to the other arm.
* `bypass_dropped` (`lib.rs:302`): `prepare_bypass` wants no bypass once no exit is
  selected and `exit_state` is empty. If an earlier step failed, the redirect is still on
  the host, and `tick` removes the bypasses before `sync_exit` removes it, so the carriers
  are routed into the tunnel; the comment at `route.rs:220` says the opposite.

## Observations

Seen while modelling; none has a run of its own. Each is in the model as the code has it,
unless marked (not modelled), and the properties are stated so that they say what does
hold.

Control server:
* `state.rs`: revoking a device twice recycles the address its key was given since; an
  import may bring an address that is taken.
* `auth.rs`: two concurrent deletions of accounts each count the accounts before the
  delete, so both may go though the documentation of `delete_admin` says "not the last".
* `sql_store.rs`: an enrolment with a key that is active replaces the token and calls
  `notify`, but bumps no epoch, so a sleeping watch on the old token learns of it only with
  the next change or heartbeat.
* `lib.rs`: `set_endpoints`, `report_stats`, the watch and the gateway authorise before
  the store call, so a token rotated in between still counts for that call; only route
  changes check it again. An audit entry is lost when the handler is dropped after its
  commit.

Host:
* `forwarding.rs`: a baseline that outlives its last lease is taken for the original
  later. `windows.rs`: an intent that could not be saved stays in memory, and a row another
  member creates later is then taken for ours. A bypass's gateway is cached for good.
* `route.rs`: a row whose command was killed after its effect is on no list; for the IPv6
  halves each later attempt then fails with "File exists". IPv6 that is switched off and
  on while an exit is up leaves the tunnel without its guard. The IPv6 guard is taken down
  even if an IPv4 half could not be removed.
* `dns.rs`: `clear` leaves `applied` in the state file until the file is removed, so after
  a clear that failed in between, a set of the same server skips its commands, unlike the
  comment "Only a completed apply can skip commands" (`dns.rs:114`). `uci delete` of a
  retried clear fails for good. A change of servers without a clear leaves the old one.
* `lib.rs:1148`: the signal task looks for the host effects and closes the gate in two
  steps; effects published in between are not cleaned up although the exit code is 0. The
  first `guard_carriers` can fail after bypasses were added, without a cleanup.
* `lib.rs:1037`: a terminal error whose record cannot be written is only logged, so the
  daemon restarts the node. `bootstrap_directory_with` returns the error of
  `record_failure` instead of trying again (`lib.rs:99`).
* `daemon.rs:203`, `lib.rs:1028`: `edit_configs` looks for other members by their status
  endpoints, which a starting process does not have yet, and a process reads its
  configuration itself: the one it runs with may not be the one the daemon admitted.
* `dns/managed.rs`, `lib.rs:260`: only an owner in full-tunnel mode repairs drift.
* `firewall.rs:392`: with fw4 the helper removes the zone before `recover_with` takes the
  lock.
* `carriers.rs`: a failed fsync of a record leaves the disk newer than the memory.
* `relay.rs`, `lib.rs`: an unanswered STUN query is not tried again before the next
  change; the supervisor keeps a connection to a relay that left the directory, while the
  next refresh drops its address from the bypasses.
* Mobile: when `runNode` is refused, the descriptor stays with the caller; Android's
  `stopNode` has no generation; an engine that ended occupies its slot until it is stopped.
* `join.rs` (not modelled): two concurrent joins can choose the same slot and lose one
  membership; a reservation left by a killed daemon blocks its slot.

Data plane:
* `worker.rs`: one end can be pinned to the relay while the other follows it there through
  `set_path` without a pin, so that neither sends the direct keepalive that
  `worker.rs:284` relies on ("both ends do this"); traffic then stays on the relay. An
  initiator with a validated path but no handshake does not fall back if UDP dies.
* `noise.rs`, `worker.rs`: an answer over relay or TCP for an index that was pruned makes
  a session whose datagrams are not routed over UDP until the next rekey. A delayed older
  INIT builds a new cryptor, although the comment says "Only a genuinely NEW peer
  rebuilds". `crypto.rs` shifts `next_session_base` twice.
* `on_tcp_conn` takes any "up" without comparing generations, although its comment says
  "a newer connection wins". The first tick of the pump's interval comes at once, so the
  first idle timeout is a tick shorter than documented.
* `worker.rs:756`: a late `RemovePeer` at the old worker removes the status entry of a
  peer that was added on another worker.
* `gso.rs`: a batch of very many small packets is refused by the kernel and turns
  segmentation off for good; the branch for a packet shorter than the segment is dead.
* `relay.rs`: the node's reader takes any decode error for "need more bytes", so an
  unknown frame type stops it reading without a disconnect; the server closes instead.

Transports and engine:
* `fp-transport-tcp-bond`: `links` never shrinks; a late pong revives a dead link for a
  while; `BondGroup::recv` never ends, so a bonded client notices a restarted relay only
  when it sends.
* `fp-transport-anytls`: the eviction task's look at `promoted` and its close are two
  steps, and the promotion may come between; the eviction removes whatever entry has its
  bond id; without an authenticator a replenished link after the join timeout makes a
  group of its own; `close` does not wake a pending `recv`.
* `fp-transport-udp`: several first datagrams of one address are accepted as several
  connections, the last of which is registered; a full channel of one peer holds the lock
  and with it all others; the datagram that finds a closed receiver is lost.
* `fp-node-server-sys`: the end of an old connection's reader removes a peer that has
  since connected again; `peer_by_port` keeps a peer under a former port; a listener added
  again while its old accept loop holds the socket fails to bind, which is only logged. A
  receive error ends a UDP listener's dispatcher and its accept loop, but the listener
  stays in the table, and `new_listener` refuses its port until an operator removes it.
* `fp-node-client-sys`: the end of an old reader posts an untagged `RemoveIface`, which
  tears down the new session; a failed `new_transport` overwrites the live cryptor; a log
  line announces a teardown on an exhausted nonce that does not follow.

## What is proved

Each theorem holds for every value of the constants that satisfies the named assumptions.
The three larger ones are described with their components above: `ControlStoreProofs`,
`RelayProofs`, `DnsJournalProofs`.

### The guards of the control server: `ControlProofs`

`PushesFaithful` and `CredentialsSafe` are the properties `PushFaithful` and
`CredentialsHold` of run `mesh`, for any number of handlers, accounts, requests, devices
and challenges. Of routes, `PushesFaithful` says that a sleeping watch has sent what was
announced, and of everything else that it has sent what the database holds.
`ControlAssumption` says that times, tokens and hashes are numbers and that sessions, the
master key and `None` are not. Each component has an inductive invariant of its own:

* `ConfigPush!PInv` (proved in `ConfigPush` itself). That a pushed configuration holds
  what its epoch announces is not inductive: the snapshot is read part by part while
  handlers commit. `ReadSoFar` says it of the parts already read, `LogTrue` that what was
  announced was committed before, `Behind` that nothing read is newer than the database,
  or than the token's rotation once the bearer was checked after it. `Awaited` is for the
  watch that sleeps: what was read and has changed since is signalled, or some handler
  will still send a signal that the channel takes (`Signals`). A handler whose `notify`
  is kept back, because the channel is ahead of its epoch, does not count; the one that
  moved the channel does.
* `AccessInv`: what a request remembers of its account and session at each await, and
  that the hashes it saw retired stay retired. A request that was let through holds a
  session whose hash was not retired when it arrived.
* `ApiInv`: rows and tokens (a token has one owner for good, a token that was replaced is
  never a row's again), and what the request has established at each of its stages.
  `CallOK` has to survive every transaction of the others between two of its statements;
  lemma `CallMoves` says so once for all that only add tokens and owners (`StoreGrows`).
* `PopInv`: a challenge in the table was never answered, and the id of one that is being
  minted is in no table and in no other hands. The bound on the table needs the
  cardinality of finite sets and is kept apart (`PopBound`): a step removes entries, or
  adds one where there is room (`TableMoves`).

### pf on macOS: `PfAnchor`

`ReferenceAccounted` and `RulesBacked`, proved in `PfAnchor` itself, are parts of
`HostAccounted` for any number of tokens, crashes and failing commands (`PfConstants`).
Their invariant `PfInv` says at each step of `up_with` and `cleanup` what the steps before
have established (`AtStep`), and what journal, receipt and references say of each other
in between (`Journaled`): while an acquisition is under way the receipt names the one
reference, and after it the journal does.

## What is only model-checked

* Liveness (`WriteEnds`, `DeadIsFreed`, `LostLinkRetired`, `PushConverges`,
  `ConfigConverges`, `DriftRepaired`): fairness and ENABLED are out of the prover's reach.
* `ChangesAnnounced`, and the properties of `MCHost`, `MCMesh` and `MCLiveness` about the
  components not named above (`ShardsAgree`, `PacketsIntact`, `NoBlackHole`, `BondJoined`,
  `EngineAccounted`, `SessionRouted`, `DirectoryFollowed`, `ProcessesEndClean`,
  `EffectsHold`, `KillSwitchHolds`, the rest of `HostAccounted` and `StoreConsistent`, and
  their type invariants, which contain bounds of the instance). `PacketsIntact` and
  `WindowExact` are about byte streams, batches and bitmaps of any length and would take
  induction over data; the others each need an inductive invariant of their own.
* `TypeOK` of `Relay`: its part about keys, phases and frames is proved inside `IInv` and
  `QInv`, the capacities are not.


## Not modelled

* `engine/vendor`: third-party code. TUN devices, connectors and the socket protection
  hook: calls of the operating system without a protocol of their own.
* `fp-path`, `fp-netcheck`, the session pool of `fp-transport-anytls`: no code of the
  workspace calls them.
* `ip_table.rs`: a wrapper of an external prefix table. The length codec of plain TCP is
  a pure decode under tokio's framed stream.
* `join.rs`, `membership.rs`, CLI and SDK: argument parsing, file formats, HTTP calls.
* Cryptography (ideal), SQL (each statement by its meaning), the token bucket's
  arithmetic (any packet may be dropped), lengths of delays (a timer may fire whenever it
  is armed), steps of the wall clock in `disco.rs`.
