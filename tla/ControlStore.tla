----------------------------- MODULE ControlStore -----------------------------
(***************************************************************************)
(* The control plane's database, as SqlStore (control-server/src/          *)
(* sql_store.rs) and device_routes.rs drive it.                            *)
(*                                                                         *)
(* Every table is a function whose domain is the set of row ids.  Most     *)
(* operations run in a transaction that first takes the write lock of      *)
(* integrity::begin; such an operation is one action, enabled when the     *)
(* transaction commits.  An operation that returns an error rolls back and *)
(* changes nothing, so it is no step.  create_network, approve_route,      *)
(* delete_route and set_device_settings use no transaction: each statement *)
(* is a step of the handler that runs it, and between two statements other *)
(* handlers run, or the HTTP deadline (http_limits.rs) or a disconnecting  *)
(* client drops the handler.                                               *)
(*                                                                         *)
(* Names, regions, IPv6 addresses and traffic counters do not influence    *)
(* any of these operations and are left out.                               *)
(***************************************************************************)
EXTENDS Integers, FiniteSets

CONSTANTS
    Keys,       \* normalised WireGuard public keys
    Subnets,    \* the /24 networks IPv4 addresses are taken from
    Pool,       \* the subnet of a network's own address pool
    Octets,     \* last octets of IPv4 addresses
    HostMin, HostMax,   \* DEVICE_HOST_MIN .. DEVICE_HOST_MAX
    Prefixes,   \* normalised route prefixes
    Values,     \* contents of the endpoints, settings and relay url columns
    Empty,      \* the contents of a column that was never set
    Times,      \* readings of the wall clock
    Limits,     \* values of an invite's max_uses
    Handlers,   \* concurrently running HTTP handlers
    Null,       \* SQL NULL
    MaxSeq,     \* the largest value of the id sequence (i64::MAX in the code)
    MaxRnd,     \* bound: random values (invite codes and tokens) drawn
    MaxEpoch,   \* bound: largest configuration epoch
    MaxBatch,   \* bound: devices created by one import
    MaxNets, MaxRoutes, MaxRelays   \* bounds: rows of each table

Addrs == Subnets \X Octets

ASSUME ConstantsAssumption ==
    /\ Pool \in Subnets /\ Empty \in Values
    /\ Octets \subseteq Nat
    /\ HostMin \in Nat /\ HostMax \in Nat /\ HostMin .. HostMax \subseteq Octets
    /\ Limits \subseteq Nat /\ Times \subseteq Int
    /\ Null \notin Int /\ Null \notin Addrs
    /\ {MaxSeq, MaxRnd, MaxEpoch, MaxBatch, MaxNets, MaxRoutes, MaxRelays} \subseteq Nat

VARIABLES
    seq,        \* control_sequence: the last id handed out
    rnd,        \* how many random values were drawn; a draw is always fresh
    nets,       \* network:  id -> config_epoch
    invites,    \* invite:   code -> record
    devices,    \* device:   id -> record; rows are never removed
    routes,     \* route:    id -> record
    relays,     \* relay:    id -> record
    stats,      \* device_stats: the devices that have a row
    ops         \* handler -> the next statement of the operation it is running

vars == <<seq, rnd, nets, invites, devices, routes, relays, stats, ops>>

Invite == [net : Nat, expires : Times \cup {Null}, max : Limits \cup {Null}, uses : Nat]

\* "via" is a history field: the code of the invite that created the device, 0
\* for an imported one.
Device == [net : Nat, key : Keys, addr : Addrs \cup {Null},
           status : {"active", "revoked"}, token : Nat \cup {Null},
           endpoints : Values, settings : Values, via : Nat]

Route == [net : Nat, device : Nat, prefix : Prefixes, approved : BOOLEAN]

Relay == [net : Nat \cup {Null}, url : Values]

\* The rest of an operation that runs without a transaction: the statement to
\* execute next, the row and the network it is about, and the values it carries.
Op == [next : {"idle", "insert_network", "set_approved", "delete_row",
               "set_settings", "bump"},
       row : Nat, net : Nat, seen : BOOLEAN, val : Values \cup {Null}]

Idle == [next |-> "idle", row |-> 0, net |-> 0, seen |-> FALSE, val |-> Null]

-----------------------------------------------------------------------------
(* Rows. *)

Insert(table, id, row) ==
    [x \in DOMAIN table \cup {id} |-> IF x = id THEN row ELSE table[x]]

Remove(table, ids) ==
    [x \in DOMAIN table \ ids |-> table[x]]

\* db::bump_network_epoch, for every network of ns that has a row.
BumpEpochs(ns) ==
    /\ \A n \in DOMAIN nets \cap ns : nets[n] < MaxEpoch
    /\ nets' = [n \in DOMAIN nets |-> IF n \in ns THEN nets[n] + 1 ELSE nets[n]]

Active(n) ==
    {d \in DOMAIN devices : devices[d].net = n /\ devices[d].status = "active"}

\* An active device of a network that still exists: what lock_active_device and
\* get_device_token require.
Live(d) ==
    /\ d \in DOMAIN devices
    /\ devices[d].status = "active"
    /\ devices[d].net \in DOMAIN nets

\* Mutant of ActiveKeys: looks at enrolled devices only, not at imported ones.
BugEnrolledKeys(n) == {devices[d].key : d \in {e \in Active(n) : devices[e].token # Null}}

ActiveKeys(n) == {devices[d].key : d \in Active(n)}

ActiveAddrs(n) == {devices[d].addr : d \in Active(n)} \ {Null}

\* Mutant of UsedOctets: looks at enrolled devices only, not at imported ones.
BugEnrolledOctets(n) == {devices[d].addr[2] : d \in {e \in Active(n) : devices[e].token # Null}}

UsedOctets(n) == {a[2] : a \in ActiveAddrs(n)}

\* SqlStore::allocate_address picks the lowest octet of the device range that no
\* active device's address ends in.
IsAllocated(n, h) ==
    /\ h \in HostMin .. HostMax
    /\ h \notin UsedOctets(n)
    /\ \A g \in HostMin .. (h - 1) : g \in UsedOctets(n)

-----------------------------------------------------------------------------
(* Networks and invites. *)

\* Mutant of CreateNetwork: reads the next id without drawing it.
BugCreateUndrawn(h) ==
    /\ ops[h] = Idle
    /\ seq < MaxSeq
    /\ ops' = [ops EXCEPT ![h] = [next |-> "insert_network", row |-> seq + 1, net |-> 0,
                                  seen |-> FALSE, val |-> Null]]
    /\ UNCHANGED <<seq, rnd, nets, invites, devices, routes, relays, stats>>

\* create_network draws the id in a transaction of its own...
CreateNetwork(h) ==
    /\ ops[h] = Idle
    /\ Cardinality(DOMAIN nets) < MaxNets
    /\ seq < MaxSeq
    /\ seq' = seq + 1
    /\ ops' = [ops EXCEPT ![h] = [next |-> "insert_network", row |-> seq + 1, net |-> 0,
                                  seen |-> FALSE, val |-> Null]]
    /\ UNCHANGED <<rnd, nets, invites, devices, routes, relays, stats>>

\* ... and then inserts the row.
InsertNetwork(h) ==
    /\ ops[h].next = "insert_network"
    /\ nets' = Insert(nets, ops[h].row, 0)
    /\ ops' = [ops EXCEPT ![h] = Idle]
    /\ UNCHANGED <<seq, rnd, invites, devices, routes, relays, stats>>

CreateInvite(n, expires, max) ==
    /\ n \in DOMAIN nets
    /\ rnd < MaxRnd
    /\ rnd' = rnd + 1
    /\ invites' = Insert(invites, rnd + 1,
                         [net |-> n, expires |-> expires, max |-> max, uses |-> 0])
    /\ UNCHANGED <<seq, nets, devices, routes, relays, stats, ops>>

RevokeInvite(c) ==
    /\ c \in DOMAIN invites
    /\ invites[c].net \in DOMAIN nets
    /\ invites' = Remove(invites, {c})
    /\ UNCHANGED <<seq, rnd, nets, devices, routes, relays, stats, ops>>

\* Mutant of Tombstone: leaves the token.
BugTokenKept(dev) == [dev EXCEPT !.status = "revoked", !.addr = Null]

\* A device loses its address and its token when it is revoked; the row stays.
Tombstone(dev) ==
    [dev EXCEPT !.status = "revoked", !.addr = Null, !.token = Null]

\* delete_network revokes the network's devices and removes everything that
\* refers to the network, in one transaction.
DeleteNetwork(n) ==
    /\ n \in DOMAIN nets
    /\ devices' = [d \in DOMAIN devices |->
                     IF devices[d].net = n THEN Tombstone(devices[d]) ELSE devices[d]]
    /\ stats' = {d \in stats : devices[d].net # n}
    /\ invites' = Remove(invites, {c \in DOMAIN invites : invites[c].net = n})
    /\ routes' = Remove(routes, {r \in DOMAIN routes : routes[r].net = n})
    /\ relays' = Remove(relays, {r \in DOMAIN relays : relays[r].net = n})
    /\ nets' = Remove(nets, {n})
    /\ UNCHANGED <<seq, rnd, ops>>

-----------------------------------------------------------------------------
(* Devices. *)

\* What enroll_once requires of the invite before it looks at the key.  now is
\* read before the transaction waits for its lock, so it is any clock reading.
InviteOpen(c, now) ==
    /\ c \in DOMAIN invites
    /\ invites[c].expires # Null => now < invites[c].expires
    /\ invites[c].net \in DOMAIN nets

\* Mutant of EnrollAgain: charges the invite for a repeated enrolment.
BugAgainCharged(c, k, now) ==
    /\ InviteOpen(c, now)
    /\ rnd < MaxRnd
    /\ rnd' = rnd + 1
    /\ invites' = [invites EXCEPT ![c].uses = @ + 1]
    /\ \E d \in Active(invites[c].net) :
          devices[d].key = k /\ devices' = [devices EXCEPT ![d].token = rnd + 1]
    /\ UNCHANGED <<seq, nets, routes, relays, stats, ops>>

\* enroll for a key that is already active: only the token is replaced.
EnrollAgain(c, k, now) ==
    /\ InviteOpen(c, now)
    /\ rnd < MaxRnd
    /\ rnd' = rnd + 1
    /\ \E d \in Active(invites[c].net) :
          /\ devices[d].key = k
          /\ devices' = [devices EXCEPT ![d].token = rnd + 1]
    /\ UNCHANGED <<seq, nets, invites, routes, relays, stats, ops>>

\* enroll for a new key: it uses up one redemption and allocates an address.
\* The unique indexes of integrity::migrate are deliberately not a guard here:
\* ActiveKeysUnique and ActiveAddrsUnique show that enroll never relies on them.
EnrollNew(c, k, now) ==
    LET n == invites[c].net IN
    /\ InviteOpen(c, now)
    /\ k \notin ActiveKeys(n)
    /\ invites[c].max # Null => invites[c].uses < invites[c].max
    /\ seq < MaxSeq /\ rnd < MaxRnd
    /\ seq' = seq + 1 /\ rnd' = rnd + 1
    /\ invites' = [invites EXCEPT ![c].uses = @ + 1]
    /\ \E h \in HostMin .. HostMax :
          /\ IsAllocated(n, h)
          /\ devices' = Insert(devices, seq + 1,
                 [net |-> n, key |-> k, addr |-> <<Pool, h>>, status |-> "active",
                  token |-> rnd + 1, endpoints |-> Empty, settings |-> Empty, via |-> c])
    /\ BumpEpochs({n})
    /\ UNCHANGED <<routes, relays, stats, ops>>

\* The rows import_once inserts, in order: it skips a key that is active or that
\* came earlier in the list.  Nothing but the unique index on (network_id,
\* address_v4) stops an address that is taken; it aborts the whole batch.
ImportRow == [key : Keys, addr : Addrs \cup {Null}, endpoints : Values]

Importable(n, batch) ==
    /\ \A i \in DOMAIN batch : batch[i].key \notin ActiveKeys(n)
    /\ \A i, j \in DOMAIN batch : i # j => batch[i].key # batch[j].key
    /\ \A i \in DOMAIN batch : batch[i].addr \notin ActiveAddrs(n)
    /\ \A i, j \in DOMAIN batch :
          i # j /\ batch[i].addr # Null => batch[i].addr # batch[j].addr

ImportDevices(n, m, batch) ==
    /\ n \in DOMAIN nets
    /\ seq + m <= MaxSeq
    /\ Importable(n, batch)
    /\ seq' = seq + m
    /\ devices' = [d \in DOMAIN devices \cup (seq + 1) .. (seq + m) |->
          IF d \in DOMAIN devices THEN devices[d]
          ELSE [net |-> n, key |-> batch[d - seq].key, addr |-> batch[d - seq].addr,
                status |-> "active", token |-> Null,
                endpoints |-> batch[d - seq].endpoints, settings |-> Empty, via |-> 0]]
    /\ BumpEpochs({n})
    /\ UNCHANGED <<rnd, invites, routes, relays, stats, ops>>

\* Mutant of RevokeDevice: deletes the row instead of keeping a tombstone.
BugRevokeDeletes(d) ==
    /\ d \in DOMAIN devices
    /\ devices' = Remove(devices, {d})
    /\ BumpEpochs({devices[d].net})
    /\ stats' = stats \ {d}
    /\ UNCHANGED <<seq, rnd, invites, routes, relays, ops>>

\* revoke_device does not look at the status: a tombstone can be revoked again.
RevokeDevice(d) ==
    /\ d \in DOMAIN devices
    /\ devices' = [devices EXCEPT ![d] = Tombstone(@)]
    /\ BumpEpochs({devices[d].net})
    /\ UNCHANGED <<seq, rnd, invites, routes, relays, stats, ops>>

SetEndpoints(d, v) ==
    /\ Live(d)
    /\ devices' = [devices EXCEPT ![d].endpoints = v]
    /\ BumpEpochs({devices[d].net})
    /\ UNCHANGED <<seq, rnd, invites, routes, relays, stats, ops>>

ReportStats(d) ==
    /\ Live(d)
    /\ stats' = stats \cup {d}
    /\ UNCHANGED <<seq, rnd, nets, invites, devices, routes, relays, ops>>

-----------------------------------------------------------------------------
(* Routes. *)

RoutesOf(d, p) == {r \in DOMAIN routes : routes[r].device = d /\ routes[r].prefix = p}

InsertRoute(d, p) ==
    /\ Cardinality(DOMAIN routes) < MaxRoutes
    /\ seq < MaxSeq
    /\ seq' = seq + 1
    /\ routes' = Insert(routes, seq + 1, [net |-> devices[d].net, device |-> d,
                                          prefix |-> p, approved |-> FALSE])
    /\ UNCHANGED <<rnd, nets, invites, devices, relays, stats, ops>>

\* Mutant of AdvertiseRoute: accepts a revoked device.
BugAdvertiseRevoked(d, p) == d \in DOMAIN devices /\ InsertRoute(d, p)

\* advertise_route, the administrator's: a second row for a prefix is allowed.
AdvertiseRoute(d, p) ==
    /\ Live(d)
    /\ InsertRoute(d, p)

\* device_route_change, advertising: the device presents its own token.
DeviceAdvertise(d, p) ==
    /\ Live(d) /\ devices[d].token # Null
    /\ RoutesOf(d, p) = {}
    /\ InsertRoute(d, p)

\* Mutant of DeviceWithdraw: withdraws approved routes, too.
BugWithdrawApproved(d, p) ==
    /\ Live(d) /\ devices[d].token # Null
    /\ routes' = Remove(routes, RoutesOf(d, p))
    /\ UNCHANGED <<seq, rnd, nets, invites, devices, relays, stats, ops>>

\* device_route_change, withdrawing: refused once the prefix is approved.
DeviceWithdraw(d, p) ==
    /\ Live(d) /\ devices[d].token # Null
    /\ \A r \in RoutesOf(d, p) : ~routes[r].approved
    /\ routes' = Remove(routes, RoutesOf(d, p))
    /\ UNCHANGED <<seq, rnd, nets, invites, devices, relays, stats, ops>>

\* approve_route and delete_route begin by reading the row...
ApproveRoute(h, r) ==
    /\ ops[h] = Idle
    /\ r \in DOMAIN routes
    /\ ops' = [ops EXCEPT ![h] = [next |-> "set_approved", row |-> r, net |-> routes[r].net,
                                  seen |-> routes[r].approved, val |-> Null]]
    /\ UNCHANGED <<seq, rnd, nets, invites, devices, routes, relays, stats>>

DeleteRoute(h, r) ==
    /\ ops[h] = Idle
    /\ r \in DOMAIN routes
    /\ ops' = [ops EXCEPT ![h] = [next |-> "delete_row", row |-> r, net |-> routes[r].net,
                                  seen |-> routes[r].approved, val |-> Null]]
    /\ UNCHANGED <<seq, rnd, nets, invites, devices, routes, relays, stats>>

\* ... then change it, if it is still there...
SetRouteApproved(h) ==
    /\ ops[h].next = "set_approved"
    /\ routes' = [r \in DOMAIN routes |->
                    IF r = ops[h].row THEN [routes[r] EXCEPT !.approved = TRUE] ELSE routes[r]]
    /\ ops' = [ops EXCEPT ![h].next = "bump"]
    /\ UNCHANGED <<seq, rnd, nets, invites, devices, relays, stats>>

\* ... and announce the change.  delete_route goes by the approval it read.
DeleteRouteRow(h) ==
    /\ ops[h].next = "delete_row"
    /\ routes' = Remove(routes, {ops[h].row})
    /\ ops' = [ops EXCEPT ![h] = IF @.seen THEN [@ EXCEPT !.next = "bump"] ELSE Idle]
    /\ UNCHANGED <<seq, rnd, nets, invites, devices, relays, stats>>

-----------------------------------------------------------------------------
(* Device settings, relays, and the statements the handlers share. *)

SetDeviceSettings(h, d, v) ==
    /\ ops[h] = Idle
    /\ d \in DOMAIN devices
    /\ ops' = [ops EXCEPT ![h] = [next |-> "set_settings", row |-> d, net |-> devices[d].net,
                                  seen |-> FALSE, val |-> v]]
    /\ UNCHANGED <<seq, rnd, nets, invites, devices, routes, relays, stats>>

SetSettingsRow(h) ==
    /\ ops[h].next = "set_settings"
    /\ devices' = [devices EXCEPT ![ops[h].row].settings = ops[h].val]
    /\ ops' = [ops EXCEPT ![h].next = "bump"]
    /\ UNCHANGED <<seq, rnd, nets, invites, routes, relays, stats>>

\* The UPDATE of bump_and_notify.
BumpAndNotify(h) ==
    /\ ops[h].next = "bump"
    /\ BumpEpochs({ops[h].net})
    /\ ops' = [ops EXCEPT ![h] = Idle]
    /\ UNCHANGED <<seq, rnd, invites, devices, routes, relays, stats>>

\* The handler's future is dropped: by the request deadline, by a client that
\* went away, or because the process stopped.
DropHandler(h) ==
    /\ ops[h] # Idle
    /\ ops' = [ops EXCEPT ![h] = Idle]
    /\ UNCHANGED <<seq, rnd, nets, invites, devices, routes, relays, stats>>

\* The networks a relay with this scope is listed for.
InScope(scope) == IF scope = Null THEN DOMAIN nets ELSE {scope}

RegisterRelay(scope, v) ==
    /\ Cardinality(DOMAIN relays) < MaxRelays
    /\ scope # Null => scope \in DOMAIN nets
    /\ seq < MaxSeq
    /\ seq' = seq + 1
    /\ relays' = Insert(relays, seq + 1, [net |-> scope, url |-> v])
    /\ BumpEpochs(InScope(scope))
    /\ UNCHANGED <<rnd, invites, devices, routes, stats, ops>>

\* Mutant of UpdateRelay: bumps only the networks of the new scope.
BugBumpNewScope(r, scope, v) ==
    /\ r \in DOMAIN relays
    /\ scope # Null => scope \in DOMAIN nets
    /\ relays' = [relays EXCEPT ![r] = [net |-> scope, url |-> v]]
    /\ BumpEpochs(InScope(scope))
    /\ UNCHANGED <<seq, rnd, invites, devices, routes, stats, ops>>

UpdateRelay(r, scope, v) ==
    /\ r \in DOMAIN relays
    /\ scope # Null => scope \in DOMAIN nets
    /\ relays' = [relays EXCEPT ![r] = [net |-> scope, url |-> v]]
    /\ BumpEpochs(InScope(relays[r].net) \cup InScope(scope))
    /\ UNCHANGED <<seq, rnd, invites, devices, routes, stats, ops>>

-----------------------------------------------------------------------------
Init ==
    /\ seq = 0 /\ rnd = 0
    /\ nets = [n \in {} |-> 0]
    /\ invites = [c \in {} |-> 0]
    /\ devices = [d \in {} |-> 0]
    /\ routes = [r \in {} |-> 0]
    /\ relays = [r \in {} |-> 0]
    /\ stats = {}
    /\ ops = [h \in Handlers |-> Idle]

HandlerStep(h) ==
    \/ CreateNetwork(h)
    \/ InsertNetwork(h)
    \/ \E r \in DOMAIN routes : ApproveRoute(h, r) \/ DeleteRoute(h, r)
    \/ SetRouteApproved(h)
    \/ DeleteRouteRow(h)
    \/ \E d \in DOMAIN devices, v \in Values : SetDeviceSettings(h, d, v)
    \/ SetSettingsRow(h)
    \/ BumpAndNotify(h)
    \/ DropHandler(h)

DeviceStep(d) ==
    \/ RevokeDevice(d)
    \/ \E v \in Values : SetEndpoints(d, v)
    \/ ReportStats(d)
    \/ \E p \in Prefixes :
          AdvertiseRoute(d, p) \/ DeviceAdvertise(d, p) \/ DeviceWithdraw(d, p)

Next ==
    \/ \E h \in Handlers : HandlerStep(h)
    \/ \E n \in DOMAIN nets, expires \in Times \cup {Null}, max \in Limits \cup {Null} :
          CreateInvite(n, expires, max)
    \/ \E c \in DOMAIN invites : RevokeInvite(c)
    \/ \E n \in DOMAIN nets : DeleteNetwork(n)
    \/ \E c \in DOMAIN invites, k \in Keys, now \in Times :
          EnrollAgain(c, k, now) \/ EnrollNew(c, k, now)
    \/ \E n \in DOMAIN nets, m \in 1 .. MaxBatch :
          \E batch \in [1 .. m -> ImportRow] : ImportDevices(n, m, batch)
    \/ \E d \in DOMAIN devices : DeviceStep(d)
    \/ \E scope \in DOMAIN nets \cup {Null}, v \in Values :
          \/ RegisterRelay(scope, v)
          \/ \E r \in DOMAIN relays : UpdateRelay(r, scope, v)

Spec == Init /\ [][Next]_vars

-----------------------------------------------------------------------------
(* Properties. *)

CountersType == seq \in 0 .. MaxSeq /\ rnd \in 0 .. MaxRnd

NetsType == DOMAIN nets \subseteq 1 .. seq /\ \A n \in DOMAIN nets : nets[n] \in Nat

InvitesType == DOMAIN invites \subseteq 1 .. rnd /\ \A c \in DOMAIN invites : invites[c] \in Invite

DevicesType == DOMAIN devices \subseteq 1 .. seq /\ \A d \in DOMAIN devices : devices[d] \in Device

RoutesType == DOMAIN routes \subseteq 1 .. seq /\ \A r \in DOMAIN routes : routes[r] \in Route

RelaysType == DOMAIN relays \subseteq 1 .. seq /\ \A r \in DOMAIN relays : relays[r] \in Relay

\* What set_device_settings is about to write has the type of the column.
OpsType ==
    /\ ops \in [Handlers -> Op]
    /\ \A h \in Handlers : ops[h].next = "set_settings" => ops[h].val \in Values

\* The type invariant: every row has its type and an id or a code that was drawn.
TypeOK ==
    /\ CountersType
    /\ NetsType /\ InvitesType /\ DevicesType /\ RoutesType /\ RelaysType
    /\ stats \subseteq DOMAIN devices
    /\ OpsType

\* No two active devices of a network have the same WireGuard key, however
\* enrolments, imports, revocations and re-enrolments follow one another.
ActiveKeysUnique ==
    \A d, e \in DOMAIN devices :
        /\ devices[d].status = "active" /\ devices[e].status = "active"
        /\ devices[d].net = devices[e].net
        /\ devices[d].key = devices[e].key
        => d = e

\* No two active devices of a network have the same IPv4 address: allocate_address
\* steers clear of imported addresses too, also of those outside the pool.
ActiveAddrsUnique ==
    \A d, e \in DOMAIN devices :
        /\ devices[d].status = "active" /\ devices[e].status = "active"
        /\ devices[d].net = devices[e].net
        /\ devices[d].addr # Null /\ devices[d].addr = devices[e].addr
        => d = e

\* A revoked device keeps neither its address nor its token, and a device whose
\* network was deleted is revoked: no credential outlives either.
NoCredentialOutlives ==
    \A d \in DOMAIN devices :
        \/ devices[d].status = "active" /\ devices[d].net \in DOMAIN nets
        \/ devices[d].status = "revoked" /\ devices[d].addr = Null /\ devices[d].token = Null

\* An invite was used exactly once for each device it created and never more often
\* than max_uses: neither a repeated enrolment nor a token rotation uses it up.
InviteBudget ==
    \A c \in DOMAIN invites :
        /\ invites[c].uses = Cardinality({d \in DOMAIN devices : devices[d].via = c})
        /\ invites[c].max # Null => invites[c].uses <= invites[c].max

\* delete_network leaves nothing behind that refers to the network, and nothing that
\* runs concurrently puts it back: rows refer to networks and devices that exist.
NoDanglingRows ==
    /\ \A c \in DOMAIN invites : invites[c].net \in DOMAIN nets
    /\ \A r \in DOMAIN routes :
          /\ routes[r].net \in DOMAIN nets
          /\ routes[r].device \in DOMAIN devices
          /\ devices[routes[r].device].net = routes[r].net
    /\ \A r \in DOMAIN relays : relays[r].net \in DOMAIN nets \cup {Null}
    /\ \A d \in stats : devices[d].net \in DOMAIN nets

\* What device_config shows of a network: its peers, approved routes and relays.
Peers(n) ==
    {[id |-> d, key |-> devices[d].key, addr |-> devices[d].addr,
      endpoints |-> devices[d].endpoints, settings |-> devices[d].settings] : d \in Active(n)}

ApprovedRoutes(n) == {r \in DOMAIN routes : routes[r].net = n /\ routes[r].approved}

Relays(n) ==
    {[id |-> r, relay |-> relays[r]] : r \in {x \in DOMAIN relays : n \in InScope(relays[x].net)}}

\* Some handler is about to bump the epoch of n.
Owed(n) == \E h \in Handlers : ops[h].next = "bump" /\ ops[h].net = n

Announced(n) == nets'[n] > nets[n] \/ Owed(n)'

\* Whatever changes the peers or the relays in a network's configuration, or adds
\* a route to it, bumps the epoch in the same transaction or in its next statement.
ChangesAnnounced ==
    [][\A n \in DOMAIN nets \cap DOMAIN nets' :
          \/ Peers(n)' # Peers(n)
          \/ Relays(n)' # Relays(n)
          \/ ~(ApprovedRoutes(n)' \subseteq ApprovedRoutes(n))
          => Announced(n)]_vars

\* The same for every change of the configuration.  domain.rs says of the epoch that
\* it "bumps on any config change".
AnyChangeAnnounced ==
    [][\A n \in DOMAIN nets \cap DOMAIN nets' :
          ApprovedRoutes(n)' # ApprovedRoutes(n) => Announced(n)]_vars

\* The rows that have an id of the sequence.
UsedIds == DOMAIN nets \cup DOMAIN devices \cup DOMAIN routes \cup DOMAIN relays

\* A device keeps its row, network and key; a tombstone never comes back to life; and
\* a new row's id is above the sequence, or the one that create_network drew earlier.
RowsKeepIdentity ==
    /\ \A d \in DOMAIN devices :
          /\ d \in DOMAIN devices'
          /\ devices'[d].net = devices[d].net /\ devices'[d].key = devices[d].key
          /\ devices[d].status = "revoked" => devices'[d].status = "revoked"
    /\ \A x \in (DOMAIN nets' \ DOMAIN nets) \cup (DOMAIN devices' \ DOMAIN devices)
                  \cup (DOMAIN routes' \ DOMAIN routes) \cup (DOMAIN relays' \ DOMAIN relays) :
          /\ x \notin UsedIds
          /\ x > seq \/ \E h \in Handlers : ops[h].next = "insert_network" /\ ops[h].row = x

\* Ids are never recycled, whatever was deleted in between and whatever handlers run
\* between the two statements of create_network.
IdsNeverRecycled == [][RowsKeepIdentity]_vars

\* A step that removes an approved route deletes its network or is delete_route's.
RemovedByAdmin ==
    \A r \in DOMAIN routes \ DOMAIN routes' :
        routes[r].approved =>
            \/ routes[r].net \notin DOMAIN nets'
            \/ \E h \in Handlers : ops[h].next = "delete_row" /\ ops[h].row = r

\* An approved route leaves the configuration only by an administrator's hand: a
\* device's withdrawal, racing with the approval, never removes it.
ApprovedRoutesStay == [][RemovedByAdmin]_vars

-----------------------------------------------------------------------------
(* For TLC: keys and handlers are interchangeable. *)
LOCAL INSTANCE TLC
Symmetry == Permutations(Keys) \cup Permutations(Handlers)

(* No guard but the bound MaxEpoch reads an epoch, and no property compares *)
(* epochs but those of a state and its successor: states that differ in     *)
(* epochs alone are one.  Nothing but NoDanglingRows reads stats, either.   *)
View == <<seq, rnd, DOMAIN nets, invites, devices, routes, relays, stats, ops>>
DevicesView == <<seq, rnd, DOMAIN nets, invites, devices, routes, relays, ops>>

=============================================================================
