------------------------------- MODULE MemStore -------------------------------
(***************************************************************************)
(* The in-memory store of the control server (state.rs) with its address     *)
(* allocator (ipam.rs), the counterpart of ControlStore for a router without *)
(* a database.  Every operation holds the one lock, so each is one step.     *)
(***************************************************************************)
EXTENDS Naturals, FiniteSets, FiniteSetsExt, Functions

CONSTANTS Nets, Keys, Hosts,   \* Hosts: octets, DEVICE_HOST_MIN..DEVICE_HOST_MAX
          Ids, RouteIds,       \* device and route ids, 1..n, given out in order
          Prefixes, None, Gone, MaxEpoch,
          Watched              \* ids of the devices that watch

VARIABLES epoch,     \* network -> config_epoch
          devices,   \* id -> [net, key, host or None, active], None before
          byKey,     \* network -> key -> host, Ipam.by_key
          used,      \* network -> hosts, Ipam.used
          uses,      \* network -> uses left of its invite
          routes,    \* id -> [dev, prefix, approved], None before, Gone after
          relay,     \* scope of the one relay: a network, All, or None before
          endpoints, \* id -> version of the reported endpoints
          again,     \* a device that was revoked has been revoked again
          clash,     \* an import was given an address that was taken
          watch      \* a device's watch: [dev, unseen, sent, pc], or None; unseen: its
                     \* receiver has a change to see, sent: what it has sent since then

storeVars == <<epoch, devices, byKey, used, uses, routes, relay, endpoints, again, clash>>
memVars   == <<storeVars, watch>>

All == "all"
Known == {i \in Ids : devices[i] # None}
Active(n) == {i \in Known : devices[i].net = n /\ devices[i].active}
Keyed(n, k) == {i \in Active(n) : devices[i].key = k}
NextId == IF Known = Ids THEN None ELSE Min(Ids \ Known)
Listed == {r \in RouteIds : routes[r] \notin {None, Gone}}
NextRoute == LET new == {r \in RouteIds : routes[r] = None} IN IF new = {} THEN None ELSE Min(new)

(* bump_epoch of every network of a set, which tells those who watch.        *)
BumpEpoch(nets) ==
    /\ \A n \in nets : epoch[n] < MaxEpoch
    /\ epoch' = [n \in Nets |-> IF n \in nets THEN epoch[n] + 1 ELSE epoch[n]]
    /\ watch' = IF watch # None /\ devices[watch.dev].net \in nets
                   THEN [watch EXCEPT !.unseen = TRUE, !.sent = None] ELSE watch

-----------------------------------------------------------------------------
(* Ipam::allocate, the first free host; Ipam::reserve and Ipam::recycle.     *)
Free(n) == Hosts \ used[n]
HostFor(n, k) ==
    IF byKey[n][k] # None THEN byKey[n][k] ELSE IF Free(n) = {} THEN None ELSE Min(Free(n))
Hold(n, k, h) ==
    /\ byKey' = [byKey EXCEPT ![n][k] = h]
    /\ used' = [used EXCEPT ![n] = @ \cup {h}]
\* Mutant of Recycle: the key keeps the host it gives back.
BugRecycle(n, k) ==
    used' = [used EXCEPT ![n] = @ \ {byKey[n][k]}] /\ UNCHANGED byKey
Recycle(n, k) ==
    IF byKey[n][k] = None THEN UNCHANGED <<byKey, used>>
    ELSE /\ byKey' = [byKey EXCEPT ![n][k] = None]
         /\ used' = [used EXCEPT ![n] = @ \ {byKey[n][k]}]

NewDevice(n, k, h) ==
    /\ NextId # None
    /\ devices' = [devices EXCEPT ![NextId] = [net |-> n, key |-> k, host |-> h, active |-> TRUE]]

(* enroll: a key that is active gets its device back, otherwise the invite   *)
(* must have a use left and the pool a host.                                 *)
Enroll(n, k) ==
    /\ Keyed(n, k) = {} /\ uses[n] > 0 /\ HostFor(n, k) # None
    /\ Hold(n, k, HostFor(n, k))
    /\ NewDevice(n, k, HostFor(n, k))
    /\ uses' = [uses EXCEPT ![n] = @ - 1]
    /\ BumpEpoch({n})
    /\ UNCHANGED <<routes, relay, endpoints, again, clash>>

(* import_devices, one row.  A reservation that fails is ignored and the     *)
(* device takes the address all the same; a row without an address, or with  *)
(* one that does not parse (None), is taken as it is and reserves nothing.   *)
Import(n, k, h) ==
    /\ Keyed(n, k) = {}
    /\ IF h = None \/ byKey[n][k] = h \/ h \in used[n]
       THEN UNCHANGED <<byKey, used>> ELSE Hold(n, k, h)
    /\ clash' = (clash \/ (h \in used[n] /\ byKey[n][k] # h))
    /\ NewDevice(n, k, h)
    /\ BumpEpoch({n})
    /\ UNCHANGED <<uses, routes, relay, endpoints, again>>

(* revoke_device does not ask whether the device is active.                  *)
RevokeDevice(i) ==
    /\ i \in Known
    /\ Recycle(devices[i].net, devices[i].key)
    /\ devices' = [devices EXCEPT ![i].active = FALSE]
    /\ again' = (again \/ ~devices[i].active)
    /\ BumpEpoch({devices[i].net})
    /\ UNCHANGED <<uses, routes, relay, endpoints, clash>>

SetEndpoints(i) ==
    /\ i \in Known /\ endpoints[i] = 0
    /\ endpoints' = [endpoints EXCEPT ![i] = 1]
    /\ BumpEpoch({devices[i].net})
    /\ UNCHANGED <<devices, byKey, used, uses, routes, relay, again, clash>>

AdvertiseRoute(i, p) ==
    /\ i \in Known /\ NextRoute # None
    /\ routes' = [routes EXCEPT ![NextRoute] = [dev |-> i, prefix |-> p, approved |-> FALSE]]
    /\ UNCHANGED <<epoch, devices, byKey, used, uses, relay, endpoints, again, clash, watch>>

ApproveRoute(r) ==
    /\ r \in Listed
    /\ routes' = [routes EXCEPT ![r].approved = TRUE]
    /\ BumpEpoch({devices[routes[r].dev].net})
    /\ UNCHANGED <<devices, byKey, used, uses, relay, endpoints, again, clash>>

DeleteRoute(r) ==
    /\ r \in Listed
    /\ routes' = [routes EXCEPT ![r] = Gone]
    /\ BumpEpoch(IF routes[r].approved THEN {devices[routes[r].dev].net} ELSE {})
    /\ UNCHANGED <<devices, byKey, used, uses, relay, endpoints, again, clash>>

InScope(n, scope) == scope \in {n, All}
RegisterRelay(scope) ==
    /\ relay = None /\ relay' = scope
    /\ BumpEpoch({n \in Nets : InScope(n, scope)})
    /\ UNCHANGED <<devices, byKey, used, uses, routes, endpoints, again, clash>>

UpdateRelay(scope) ==
    /\ relay # None /\ relay' = scope
    /\ BumpEpoch({n \in Nets : InScope(n, relay) \/ InScope(n, scope)})
    /\ UNCHANGED <<devices, byKey, used, uses, routes, endpoints, again, clash>>

-----------------------------------------------------------------------------
(* device_config: what an active device is given, the epoch aside.           *)
DeviceConfig(i) ==
    LET n == devices[i].net
        approved(d) == {routes[r].prefix : r \in {r \in Listed : routes[r].dev = d /\ routes[r].approved}}
        peer(d) == [key |-> devices[d].key, host |-> devices[d].host, endpoints |-> endpoints[d],
                    allowed |-> approved(d)]
    IN  [peers |-> {peer(d) : d \in Active(n) \ {i}}, own |-> approved(i), relays |-> InScope(n, relay)]

(* watch_device subscribes to the epoch, then watch_loop sends a snapshot,   *)
(* and another after every rise of the epoch; a device that is revoked, or a *)
(* socket that fails, ends it.  The store may change between the steps.      *)
WatchDevice(i) ==
    /\ watch = None /\ i \in Watched \cap Known
    /\ watch' = [dev |-> i, unseen |-> FALSE, sent |-> None, pc |-> "send"]
    /\ UNCHANGED storeVars

\* Mutant of SendConfig: the watch of a revoked device is not closed.
BugSendConfig ==
    /\ watch # None /\ watch.pc = "send"
    /\ watch' = IF devices[watch.dev].active
                   THEN [watch EXCEPT !.sent = DeviceConfig(watch.dev), !.pc = "wait"]
                   ELSE [watch EXCEPT !.pc = "wait"]
    /\ UNCHANGED storeVars
SendConfig ==
    /\ watch # None /\ watch.pc = "send"
    /\ \/ /\ devices[watch.dev].active
          /\ watch' = [watch EXCEPT !.sent = DeviceConfig(watch.dev), !.pc = "wait"]
       \/ watch' = None
    /\ UNCHANGED storeVars

watch_loop ==
    /\ watch # None /\ watch.pc = "wait" /\ watch.unseen
    /\ watch' = [watch EXCEPT !.unseen = FALSE, !.pc = "send"]
    /\ UNCHANGED storeVars

MemInit ==
    /\ epoch = [n \in Nets |-> 0] /\ devices = [i \in Ids |-> None]
    /\ byKey = [n \in Nets |-> [k \in Keys |-> None]] /\ used = [n \in Nets |-> {}]
    /\ uses = [n \in Nets |-> Cardinality(Ids)]
    /\ routes = [r \in RouteIds |-> None] /\ relay = None
    /\ endpoints = [i \in Ids |-> 0]
    /\ again = FALSE /\ clash = FALSE /\ watch = None

(* A request handler of the in-memory router makes one call to the store and *)
(* never awaits, so it is one step; the listing handlers change nothing.     *)
DeviceRequest ==
    \/ \E n \in Nets, k \in Keys : Enroll(n, k) \/ \E h \in Hosts \cup {None} : Import(n, k, h)
    \/ \E i \in Ids : RevokeDevice(i)

RouteRequest ==
    \/ \E i \in Ids : SetEndpoints(i) \/ \E p \in Prefixes : AdvertiseRoute(i, p)
    \/ \E r \in RouteIds : ApproveRoute(r) \/ DeleteRoute(r)

RelayRequest == \E scope \in Nets \cup {All} : RegisterRelay(scope) \/ UpdateRelay(scope)

MemNext ==
    \/ DeviceRequest \/ RouteRequest \/ RelayRequest
    \/ SendConfig \/ watch_loop \/ \E i \in Ids : WatchDevice(i)

MemSpec == MemInit /\ [][MemNext]_memVars

-----------------------------------------------------------------------------
MemTypeOK ==
    /\ epoch \in [Nets -> 0..MaxEpoch] /\ uses \in [Nets -> 0..Cardinality(Ids)]
    /\ byKey \in [Nets -> [Keys -> Hosts \cup {None}]] /\ used \in [Nets -> SUBSET Hosts]
    /\ \A i \in Ids : devices[i] = None \/ devices[i] \in [net : Nets, key : Keys, host : Hosts \cup {None}, active : BOOLEAN]
    /\ relay \in Nets \cup {All, None}
    /\ watch # None => watch.dev \in Known /\ watch.unseen \in BOOLEAN /\ watch.pc \in {"send", "wait"}

(* The allocator holds one key per used host, and active devices of a        *)
(* network never share an address of its pool, unless an import was given a  *)
(* taken one or a device was revoked twice, which recycles the address its   *)
(* key has been given since (Ipam::allocate, Store::import_devices,          *)
(* Store::revoke_device).                                                    *)
AddressesApart ==
    \A n \in Nets :
      /\ used[n] = {byKey[n][k] : k \in {k \in Keys : byKey[n][k] # None}}
      /\ \A k, l \in Keys : k # l /\ byKey[n][k] # None => byKey[n][k] # byKey[n][l]
      /\ ~again /\ ~clash =>
           \A i, j \in Active(n) :
               i # j /\ devices[i].host # None => devices[i].host # devices[j].host

(* Whatever changes the configuration of a device that stays active raises   *)
(* the epoch of its network, or the device would not be told (bump_epoch in  *)
(* every operation of Store; device_config).                                 *)
EpochTracksConfig ==
    \A i \in Ids : (/\ i \in Known /\ devices[i].active /\ devices'[i].active
                    /\ DeviceConfig(i)' # DeviceConfig(i))
                   => epoch'[devices[i].net] > epoch[devices[i].net]

(* A watch that sleeps, with no rise of the epoch to wake it, has sent its   *)
(* device the configuration of this moment: a change between the             *)
(* subscription and a snapshot, or while one is sent, is never missed, and   *)
(* the watch of a revoked device does not sleep (watch_loop, bump_epoch).    *)
WatchCurrent ==
    watch # None /\ watch.pc = "wait" /\ ~watch.unseen =>
        devices[watch.dev].active /\ watch.sent = DeviceConfig(watch.dev)

=============================================================================
