--------------------------- MODULE ControlStoreProofs ---------------------------
(***************************************************************************)
(* Proofs about ControlStore: for every set of keys, addresses, handlers   *)
(* and so on, and every bound, the invariants that the runs check on small *)
(* instances hold.                                                         *)
(***************************************************************************)
EXTENDS ControlStore, FiniteSetTheorems, TLAPS

\* A handler between the two statements of create_network holds an id that was
\* drawn and that no row and no other handler has.
FreshIds ==
    \A h \in Handlers : ops[h].next = "insert_network" =>
        /\ ops[h].row \in 1 .. seq
        /\ ops[h].row \notin DOMAIN nets \cup DOMAIN routes \cup DOMAIN relays \cup DOMAIN devices
        /\ \A g \in Handlers \ {h} :
              ops[g].next = "insert_network" => ops[g].row # ops[h].row

-----------------------------------------------------------------------------
(* Which actions write which table. *)

\* Only these write the network table.
LEMMA NetWriters ==
  ASSUME Next
  PROVE  \/ UNCHANGED nets
         \/ \E ns : BumpEpochs(ns)
         \/ \E n \in DOMAIN nets : DeleteNetwork(n)
         \/ \E h \in Handlers : InsertNetwork(h)
<1>1. ASSUME NEW h \in Handlers, HandlerStep(h), ~InsertNetwork(h)
      PROVE  UNCHANGED nets \/ \E ns : BumpEpochs(ns)
  BY <1>1 DEF HandlerStep, CreateNetwork, ApproveRoute, DeleteRoute, SetRouteApproved,
       DeleteRouteRow, SetDeviceSettings, SetSettingsRow, BumpAndNotify, DropHandler
<1>2. ASSUME NEW d \in DOMAIN devices, DeviceStep(d)
      PROVE  UNCHANGED nets \/ \E ns : BumpEpochs(ns)
  BY <1>2, Zenon DEF DeviceStep, RevokeDevice, SetEndpoints, ReportStats, AdvertiseRoute,
       DeviceAdvertise, DeviceWithdraw, InsertRoute
<1> QED
  BY <1>1, <1>2, Zenon DEF Next, CreateInvite, RevokeInvite, EnrollAgain, EnrollNew,
       ImportDevices, RegisterRelay, UpdateRelay

\* Only these write the invite table.
LEMMA InviteWriters ==
  ASSUME Next
  PROVE  \/ UNCHANGED invites
         \/ \E n \in DOMAIN nets, expires \in Times \cup {Null}, max \in Limits \cup {Null} :
               CreateInvite(n, expires, max)
         \/ \E c \in DOMAIN invites : RevokeInvite(c)
         \/ \E n \in DOMAIN nets : DeleteNetwork(n)
         \/ \E c \in DOMAIN invites, k \in Keys, now \in Times : EnrollNew(c, k, now)
<1>1. ASSUME NEW h \in Handlers, HandlerStep(h)
      PROVE  UNCHANGED invites
  BY <1>1 DEF HandlerStep, CreateNetwork, InsertNetwork, ApproveRoute, DeleteRoute,
       SetRouteApproved, DeleteRouteRow, SetDeviceSettings, SetSettingsRow, BumpAndNotify,
       DropHandler
<1>2. ASSUME NEW d \in DOMAIN devices, DeviceStep(d)
      PROVE  UNCHANGED invites
  BY <1>2, Zenon DEF DeviceStep, RevokeDevice, SetEndpoints, ReportStats, AdvertiseRoute,
       DeviceAdvertise, DeviceWithdraw, InsertRoute
<1> QED
  BY <1>1, <1>2, Zenon DEF Next, EnrollAgain, ImportDevices, RegisterRelay, UpdateRelay

\* Only these write the device table.
LEMMA DeviceWriters ==
  ASSUME Next
  PROVE  \/ UNCHANGED devices
         \/ \E n \in DOMAIN nets : DeleteNetwork(n)
         \/ \E c \in DOMAIN invites, k \in Keys, now \in Times :
               EnrollAgain(c, k, now) \/ EnrollNew(c, k, now)
         \/ \E n \in DOMAIN nets, m \in 1 .. MaxBatch :
               \E batch \in [1 .. m -> ImportRow] : ImportDevices(n, m, batch)
         \/ \E d \in DOMAIN devices : RevokeDevice(d) \/ \E v \in Values : SetEndpoints(d, v)
         \/ \E h \in Handlers : SetSettingsRow(h)
<1>1. ASSUME NEW h \in Handlers, HandlerStep(h), ~SetSettingsRow(h)
      PROVE  UNCHANGED devices
  BY <1>1 DEF HandlerStep, CreateNetwork, InsertNetwork, ApproveRoute, DeleteRoute,
       SetRouteApproved, DeleteRouteRow, SetDeviceSettings, BumpAndNotify, DropHandler
<1>2. ASSUME NEW d \in DOMAIN devices, DeviceStep(d)
      PROVE  UNCHANGED devices \/ RevokeDevice(d) \/ \E v \in Values : SetEndpoints(d, v)
  BY <1>2, Zenon
     DEF DeviceStep, ReportStats, AdvertiseRoute, DeviceAdvertise, DeviceWithdraw, InsertRoute
<1> QED
  BY <1>1, <1>2, Zenon DEF Next, CreateInvite, RevokeInvite, RegisterRelay, UpdateRelay

\* Only these write the route table.
LEMMA RouteWriters ==
  ASSUME Next
  PROVE  \/ UNCHANGED routes
         \/ \E n \in DOMAIN nets : DeleteNetwork(n)
         \/ \E d \in DOMAIN devices, p \in Prefixes :
               (Live(d) /\ InsertRoute(d, p)) \/ DeviceWithdraw(d, p)
         \/ \E h \in Handlers : SetRouteApproved(h) \/ DeleteRouteRow(h)
<1>1. ASSUME NEW h \in Handlers, HandlerStep(h), ~SetRouteApproved(h), ~DeleteRouteRow(h)
      PROVE  UNCHANGED routes
  BY <1>1 DEF HandlerStep, CreateNetwork, InsertNetwork, ApproveRoute, DeleteRoute,
       SetDeviceSettings, SetSettingsRow, BumpAndNotify, DropHandler
<1>2. ASSUME NEW d \in DOMAIN devices, DeviceStep(d)
      PROVE  \/ UNCHANGED routes
             \/ \E p \in Prefixes : (Live(d) /\ InsertRoute(d, p)) \/ DeviceWithdraw(d, p)
  BY <1>2 DEF DeviceStep, RevokeDevice, SetEndpoints, ReportStats, AdvertiseRoute, DeviceAdvertise
<1> QED
  BY <1>1, <1>2, ZenonT(40) DEF Next, CreateInvite, RevokeInvite, EnrollAgain, EnrollNew,
       ImportDevices, RegisterRelay, UpdateRelay

\* Only these write the relay table.
LEMMA RelayWriters ==
  ASSUME Next
  PROVE  \/ UNCHANGED relays
         \/ \E n \in DOMAIN nets : DeleteNetwork(n)
         \/ \E scope \in DOMAIN nets \cup {Null}, v \in Values :
               \/ RegisterRelay(scope, v)
               \/ \E r \in DOMAIN relays : UpdateRelay(r, scope, v)
<1>1. ASSUME NEW h \in Handlers, HandlerStep(h)
      PROVE  UNCHANGED relays
  BY <1>1 DEF HandlerStep, CreateNetwork, InsertNetwork, ApproveRoute, DeleteRoute,
       SetRouteApproved, DeleteRouteRow, SetDeviceSettings, SetSettingsRow, BumpAndNotify,
       DropHandler
<1>2. ASSUME NEW d \in DOMAIN devices, DeviceStep(d)
      PROVE  UNCHANGED relays
  BY <1>2, Zenon DEF DeviceStep, RevokeDevice, SetEndpoints, ReportStats, AdvertiseRoute,
       DeviceAdvertise, DeviceWithdraw, InsertRoute
<1> QED
  BY <1>1, <1>2, Zenon
     DEF Next, CreateInvite, RevokeInvite, EnrollAgain, EnrollNew, ImportDevices

\* The handlers' control state is written by the handlers' own steps only.
LEMMA OpsWriters ==
  ASSUME Next
  PROVE  UNCHANGED ops \/ \E h \in Handlers : HandlerStep(h)
<1>1. ASSUME NEW d \in DOMAIN devices, DeviceStep(d)
      PROVE  UNCHANGED ops
  BY <1>1, Zenon DEF DeviceStep, RevokeDevice, SetEndpoints, ReportStats, AdvertiseRoute,
       DeviceAdvertise, DeviceWithdraw, InsertRoute
<1> QED
  BY <1>1, ZenonT(40)
     DEF Next, CreateInvite, RevokeInvite, DeleteNetwork, EnrollAgain, EnrollNew,
       ImportDevices, RegisterRelay, UpdateRelay

\* The sequence and the count of random draws never go back, and stay in range.
LEMMA CountersGrow ==
  ASSUME TypeOK, Next
  PROVE  CountersType' /\ seq <= seq' /\ rnd <= rnd'
<1> DEFINE Goal == CountersType' /\ seq <= seq' /\ rnd <= rnd'
<1> SUFFICES Goal
  OBVIOUS
<1>1. /\ seq \in Nat /\ seq <= MaxSeq /\ MaxSeq \in Nat
      /\ rnd \in Nat /\ rnd <= MaxRnd /\ MaxRnd \in Nat /\ MaxBatch \in Nat
  BY ConstantsAssumption DEF TypeOK, CountersType
<1>2. CASE UNCHANGED <<seq, rnd>>
  BY <1>1, <1>2 DEF CountersType
<1>3. CASE UNCHANGED rnd /\ seq < MaxSeq /\ seq' = seq + 1
  BY <1>1, <1>3 DEF CountersType
<1>4. CASE UNCHANGED seq /\ rnd < MaxRnd /\ rnd' = rnd + 1
  BY <1>1, <1>4 DEF CountersType
<1>5. ASSUME NEW h \in Handlers, HandlerStep(h)
      PROVE  Goal
  BY <1>2, <1>3, <1>5 DEF HandlerStep, CreateNetwork, InsertNetwork, ApproveRoute, DeleteRoute,
       SetRouteApproved, DeleteRouteRow, SetDeviceSettings, SetSettingsRow, BumpAndNotify,
       DropHandler
<1>6. ASSUME NEW d \in DOMAIN devices, DeviceStep(d)
      PROVE  Goal
  BY <1>2, <1>3, <1>6, Zenon
     DEF DeviceStep, RevokeDevice, SetEndpoints, ReportStats, AdvertiseRoute,
       DeviceAdvertise, DeviceWithdraw, InsertRoute
<1>7. ASSUME NEW c, NEW k, NEW now, EnrollNew(c, k, now)
      PROVE  Goal
  BY <1>1, <1>7 DEF EnrollNew, CountersType
<1>8. ASSUME NEW n, NEW m \in 1 .. MaxBatch, NEW batch, ImportDevices(n, m, batch)
      PROVE  Goal
  BY <1>1, <1>8 DEF ImportDevices, CountersType
<1>9. ASSUME NEW scope, NEW v, NEW r, RegisterRelay(scope, v) \/ UpdateRelay(r, scope, v)
      PROVE  Goal
  BY <1>2, <1>3, <1>9 DEF RegisterRelay, UpdateRelay
<1> HIDE DEF Goal
<1> QED
  BY <1>2, <1>4, <1>5, <1>6, <1>7, <1>8, <1>9
    , Zenon DEF Next, CreateInvite, RevokeInvite, DeleteNetwork, EnrollAgain

-----------------------------------------------------------------------------
(* Types. *)

\* A handler that runs nothing has a well-typed control state.
LEMMA IdleType == Idle \in Op
  BY DEF Idle, Op

\* The empty database has the right types.
LEMMA InitTypes == Init => TypeOK /\ FreshIds
  BY ConstantsAssumption, IdleType
     DEF Init, TypeOK, CountersType, NetsType, InvitesType, DevicesType, RoutesType, RelaysType,
         OpsType, FreshIds, Idle

\* Every step keeps the types of the network table.
LEMMA NetsTypeStep ==
  ASSUME TypeOK, FreshIds, Next
  PROVE  NetsType'
<1> USE DEF NetsType
<1>1. NetsType /\ seq \in Nat /\ seq' \in Nat /\ seq <= seq'
  BY CountersGrow, ConstantsAssumption DEF TypeOK, CountersType
<1>2. CASE UNCHANGED nets
  BY <1>1, <1>2
<1>3. ASSUME NEW ns, BumpEpochs(ns)
      PROVE  NetsType'
  BY <1>1, <1>3 DEF BumpEpochs
<1>4. ASSUME NEW n \in DOMAIN nets, DeleteNetwork(n)
      PROVE  NetsType'
  BY <1>1, <1>4 DEF DeleteNetwork, Remove
<1>5. ASSUME NEW h \in Handlers, InsertNetwork(h)
      PROVE  NetsType'
  BY <1>1, <1>5 DEF InsertNetwork, Insert, FreshIds
<1> QED BY <1>2, <1>3, <1>4, <1>5, NetWriters

\* Every step keeps the types of the invite table.
LEMMA InvitesTypeStep ==
  ASSUME TypeOK, Next
  PROVE  InvitesType'
<1> USE DEF InvitesType
<1>1. InvitesType /\ NetsType /\ rnd \in Nat /\ rnd' \in Nat /\ rnd <= rnd'
  BY CountersGrow, ConstantsAssumption DEF TypeOK, CountersType
<1>2. CASE UNCHANGED invites
  BY <1>1, <1>2
<1>3. ASSUME NEW n \in DOMAIN nets, NEW expires \in Times \cup {Null},
             NEW max \in Limits \cup {Null}, CreateInvite(n, expires, max)
      PROVE  InvitesType'
  BY <1>1, <1>3 DEF CreateInvite, Insert, Invite, NetsType
<1>4. ASSUME NEW c \in DOMAIN invites, RevokeInvite(c)
      PROVE  InvitesType'
  BY <1>1, <1>4 DEF RevokeInvite, Remove
<1>5. ASSUME NEW n \in DOMAIN nets, DeleteNetwork(n)
      PROVE  InvitesType'
  BY <1>1, <1>5 DEF DeleteNetwork, Remove
<1>6. ASSUME NEW c \in DOMAIN invites, NEW k \in Keys, NEW now \in Times, EnrollNew(c, k, now)
      PROVE  InvitesType'
  BY <1>1, <1>6 DEF EnrollNew, Invite
<1> QED BY <1>2, <1>3, <1>4, <1>5, <1>6, InviteWriters

\* Every step keeps the types of the device table.
LEMMA DevicesTypeStep ==
  ASSUME TypeOK, Next
  PROVE  DevicesType'
<1> USE DEF DevicesType
<1>1. /\ DevicesType /\ InvitesType /\ NetsType
      /\ seq \in Nat /\ rnd \in Nat /\ seq' \in Nat /\ rnd' \in Nat /\ seq <= seq' /\ rnd <= rnd'
  BY CountersGrow, ConstantsAssumption DEF TypeOK, CountersType
<1>2. CASE UNCHANGED devices
  BY <1>1, <1>2
<1>3. ASSUME NEW dev \in Device
      PROVE  Tombstone(dev) \in Device
  BY Zenon DEF Tombstone, Device
<1>4. ASSUME NEW n \in DOMAIN nets, DeleteNetwork(n)
      PROVE  DevicesType'
  BY <1>1, <1>3, <1>4 DEF DeleteNetwork
<1>5. ASSUME NEW c \in DOMAIN invites, NEW k \in Keys, NEW now \in Times, EnrollAgain(c, k, now)
      PROVE  DevicesType'
  <2>1. PICK d \in DOMAIN devices : devices' = [devices EXCEPT ![d].token = rnd + 1]
    BY <1>5, Zenon DEF EnrollAgain, Active
  <2>2. [devices[d] EXCEPT !.token = rnd + 1] \in Device
    BY <1>1 DEF Device
  <2> QED BY <1>1, <2>1, <2>2
<1>6. ASSUME NEW c \in DOMAIN invites, NEW k \in Keys, NEW now \in Times, EnrollNew(c, k, now)
      PROVE  DevicesType'
  <2>1. c \in Nat /\ invites[c].net \in Nat
    BY <1>1 DEF InvitesType, Invite
  <2>2. PICK h \in HostMin .. HostMax :
           devices' = Insert(devices, seq + 1,
                 [net |-> invites[c].net, key |-> k, addr |-> <<Pool, h>>, status |-> "active",
                  token |-> rnd + 1, endpoints |-> Empty, settings |-> Empty, via |-> c])
    BY <1>6 DEF EnrollNew
  <2>3. <<Pool, h>> \in Addrs
    BY ConstantsAssumption DEF Addrs
  <2>4. [net |-> invites[c].net, key |-> k, addr |-> <<Pool, h>>, status |-> "active",
         token |-> rnd + 1, endpoints |-> Empty, settings |-> Empty, via |-> c] \in Device
    BY <1>1, <2>1, <2>3, ConstantsAssumption DEF Device
  <2>5. seq' = seq + 1
    BY <1>6 DEF EnrollNew
  <2> QED BY <1>1, <2>2, <2>4, <2>5 DEF Insert
<1>7. ASSUME NEW n \in DOMAIN nets, NEW m \in 1 .. MaxBatch, NEW batch \in [1 .. m -> ImportRow],
             ImportDevices(n, m, batch)
      PROVE  DevicesType'
  <2>1. n \in Nat /\ m \in Nat /\ seq' = seq + m
    BY <1>1, <1>7 DEF NetsType, ImportDevices
  <2>2. ASSUME NEW d \in DOMAIN devices', d \notin DOMAIN devices
        PROVE  d \in (seq + 1) .. (seq + m) /\ devices'[d] \in Device
    <3>1. d \in (seq + 1) .. (seq + m) /\ d - seq \in 1 .. m
      BY <1>1, <1>7, <2>1, <2>2 DEF ImportDevices
    <3>2. batch[d - seq] \in ImportRow
      BY <3>1
    <3>3. devices'[d] = [net |-> n, key |-> batch[d - seq].key, addr |-> batch[d - seq].addr,
                status |-> "active", token |-> Null,
                endpoints |-> batch[d - seq].endpoints, settings |-> Empty, via |-> 0]
      BY <1>7, <2>2, <3>1, Zenon DEF ImportDevices
    <3> QED BY <3>1, <3>2, <3>3, <2>1, ConstantsAssumption DEF ImportRow, Device
  <2>3. \A d \in DOMAIN devices : d \in DOMAIN devices' /\ devices'[d] = devices[d]
    BY <1>7 DEF ImportDevices
  <2> QED BY <1>1, <2>1, <2>2, <2>3
<1>8. ASSUME NEW d \in DOMAIN devices, RevokeDevice(d)
      PROVE  DevicesType'
  BY <1>1, <1>3, <1>8 DEF RevokeDevice
<1>9. ASSUME NEW d \in DOMAIN devices, NEW v \in Values, SetEndpoints(d, v)
      PROVE  DevicesType'
  BY <1>1, <1>9 DEF SetEndpoints, Device
<1>10. ASSUME NEW h \in Handlers, SetSettingsRow(h)
      PROVE  DevicesType'
  <2>1. [devices[ops[h].row] EXCEPT !.settings = ops[h].val] \in Device
           \/ ops[h].row \notin DOMAIN devices
    BY <1>1, <1>10 DEF SetSettingsRow, Device, TypeOK, OpsType
  <2> QED BY <1>1, <1>10, <2>1 DEF SetSettingsRow
<1> QED BY <1>2, <1>4, <1>5, <1>6, <1>7, <1>8, <1>9, <1>10, DeviceWriters, Zenon

\* Every step keeps the types of the route table.
LEMMA RoutesTypeStep ==
  ASSUME TypeOK, Next
  PROVE  RoutesType'
<1> USE DEF RoutesType
<1>1. /\ RoutesType /\ DevicesType /\ seq \in Nat /\ seq' \in Nat /\ seq <= seq'
  BY CountersGrow, ConstantsAssumption DEF TypeOK, CountersType
<1>2. CASE UNCHANGED routes
  BY <1>1, <1>2
<1>3. ASSUME NEW n \in DOMAIN nets, DeleteNetwork(n)
      PROVE  RoutesType'
  BY <1>1, <1>3 DEF DeleteNetwork, Remove
<1>4. ASSUME NEW d \in DOMAIN devices, NEW p \in Prefixes, InsertRoute(d, p)
      PROVE  RoutesType'
  <2>1. [net |-> devices[d].net, device |-> d, prefix |-> p, approved |-> FALSE] \in Route
    BY <1>1 DEF DevicesType, Device, Route
  <2> QED BY <1>1, <1>4, <2>1 DEF InsertRoute, Insert
<1>5. ASSUME NEW d \in DOMAIN devices, NEW p \in Prefixes, DeviceWithdraw(d, p)
      PROVE  RoutesType'
  BY <1>1, <1>5 DEF DeviceWithdraw, Remove
<1>6. ASSUME NEW h \in Handlers, SetRouteApproved(h)
      PROVE  RoutesType'
  <2>1. \A r \in DOMAIN routes : [routes[r] EXCEPT !.approved = TRUE] \in Route
    BY <1>1, Zenon DEF Route
  <2> QED BY <1>1, <1>6, <2>1 DEF SetRouteApproved
<1>7. ASSUME NEW h \in Handlers, DeleteRouteRow(h)
      PROVE  RoutesType'
  BY <1>1, <1>7 DEF DeleteRouteRow, Remove
<1> QED BY <1>2, <1>3, <1>4, <1>5, <1>6, <1>7, RouteWriters

\* Every step keeps the types of the relay table.
LEMMA RelaysTypeStep ==
  ASSUME TypeOK, Next
  PROVE  RelaysType'
<1> USE DEF RelaysType
<1>1. /\ RelaysType /\ NetsType /\ seq \in Nat /\ seq' \in Nat /\ seq <= seq'
  BY CountersGrow, ConstantsAssumption DEF TypeOK, CountersType
<1>2. CASE UNCHANGED relays
  BY <1>1, <1>2
<1>3. ASSUME NEW n \in DOMAIN nets, DeleteNetwork(n)
      PROVE  RelaysType'
  BY <1>1, <1>3 DEF DeleteNetwork, Remove
<1>4. ASSUME NEW scope \in DOMAIN nets \cup {Null}, NEW v \in Values
      PROVE  [net |-> scope, url |-> v] \in Relay
  BY <1>1 DEF NetsType, Relay
<1>5. ASSUME NEW scope \in DOMAIN nets \cup {Null}, NEW v \in Values, RegisterRelay(scope, v)
      PROVE  RelaysType'
  BY <1>1, <1>4, <1>5 DEF RegisterRelay, Insert
<1>6. ASSUME NEW scope \in DOMAIN nets \cup {Null}, NEW v \in Values, NEW r \in DOMAIN relays,
             UpdateRelay(r, scope, v)
      PROVE  RelaysType'
  BY <1>1, <1>4, <1>6 DEF UpdateRelay
<1> QED BY <1>2, <1>3, <1>5, <1>6, RelayWriters

\* Every step keeps the types of the handlers' control states.
LEMMA OpsTypeStep ==
  ASSUME TypeOK, Next
  PROVE  OpsType'
<1> USE DEF OpsType
<1>1. OpsType /\ DevicesType /\ RoutesType /\ seq \in Nat
  BY ConstantsAssumption DEF TypeOK, CountersType
<1>2. CASE UNCHANGED ops
  BY <1>1, <1>2
<1>3. ASSUME NEW h \in Handlers, NEW op \in Op, ops' = [ops EXCEPT ![h] = op],
             op.next = "set_settings" => op.val \in Values
      PROVE  OpsType'
  BY <1>1, <1>3, Zenon
<1>4. ASSUME NEW h \in Handlers, HandlerStep(h)
      PROVE  OpsType'
  <2>1. CASE ops' = [ops EXCEPT ![h] = Idle]
    BY <1>3, <2>1, IdleType, Zenon DEF Idle
  <2>2. CASE ops' = [ops EXCEPT ![h].next = "bump"]
    <3>1. [ops[h] EXCEPT !.next = "bump"] \in Op /\ [ops[h] EXCEPT !.next = "bump"].next = "bump"
      BY <1>1 DEF Op
    <3>2. ops' = [ops EXCEPT ![h] = [ops[h] EXCEPT !.next = "bump"]]
      BY <2>2
    <3> QED BY <1>3, <3>1, <3>2, Zenon
  <2>3. CASE CreateNetwork(h)
    <3>1. [next |-> "insert_network", row |-> seq + 1, net |-> 0, seen |-> FALSE, val |-> Null] \in Op
      BY <1>1 DEF Op
    <3> QED BY <1>3, <2>3, <3>1, Zenon DEF CreateNetwork
  <2>4. ASSUME NEW r \in DOMAIN routes, ApproveRoute(h, r) \/ DeleteRoute(h, r)
        PROVE  OpsType'
    <3>1. r \in Nat /\ routes[r].net \in Nat /\ routes[r].approved \in BOOLEAN
      BY <1>1 DEF RoutesType, Route
    <3>2. CASE ApproveRoute(h, r)
      BY <1>3, <3>1, <3>2, Zenon DEF ApproveRoute, Op
    <3>3. CASE DeleteRoute(h, r)
      BY <1>3, <3>1, <3>3, Zenon DEF DeleteRoute, Op
    <3> QED BY <2>4, <3>2, <3>3
  <2>5. CASE DeleteRouteRow(h)
    BY <2>1, <2>2, <2>5, Zenon DEF DeleteRouteRow
  <2>6. ASSUME NEW d \in DOMAIN devices, NEW v \in Values, SetDeviceSettings(h, d, v)
        PROVE  OpsType'
    <3>1. [next |-> "set_settings", row |-> d, net |-> devices[d].net,
           seen |-> FALSE, val |-> v] \in Op
      BY <1>1 DEF DevicesType, Device, Op
    <3> QED BY <1>3, <2>6, <3>1, Zenon DEF SetDeviceSettings
  <2> QED
    BY <1>4, <2>1, <2>2, <2>3, <2>4, <2>5, <2>6
       DEF HandlerStep, InsertNetwork, SetRouteApproved, SetSettingsRow, BumpAndNotify, DropHandler
<1> QED BY <1>2, <1>4, OpsWriters

\* A revoked or deleted device's row stays, so its statistics never lose their device.
LEMMA StatsStep ==
  ASSUME TypeOK, Next
  PROVE  stats' \subseteq DOMAIN devices'
<1>1. DOMAIN devices \subseteq DOMAIN devices'
  BY DeviceWriters, ZenonT(40)
     DEF DeleteNetwork, EnrollAgain, EnrollNew, Insert, ImportDevices, RevokeDevice,
       SetEndpoints, SetSettingsRow
<1>2. stats' \subseteq DOMAIN devices
  <2>1. stats \subseteq DOMAIN devices
    BY DEF TypeOK
  <2>2. ASSUME NEW h \in Handlers, HandlerStep(h)
        PROVE  UNCHANGED stats
    BY <2>2 DEF HandlerStep, CreateNetwork, InsertNetwork, ApproveRoute, DeleteRoute,
       SetRouteApproved, DeleteRouteRow, SetDeviceSettings, SetSettingsRow, BumpAndNotify,
       DropHandler
  <2>3. ASSUME NEW d \in DOMAIN devices, DeviceStep(d)
        PROVE  stats' \subseteq stats \cup {d}
    BY <2>3, Zenon DEF DeviceStep, RevokeDevice, SetEndpoints, ReportStats, AdvertiseRoute,
       DeviceAdvertise, DeviceWithdraw, InsertRoute
  <2> QED
    BY <2>1, <2>2, <2>3, Zenon
       DEF Next, CreateInvite, RevokeInvite, DeleteNetwork, EnrollAgain,
       EnrollNew, ImportDevices, RegisterRelay, UpdateRelay
<1> QED BY <1>1, <1>2

\* A device never loses its row, its key or its network, and a new row's id was not
\* in use: it is above the sequence, or the one create_network drew for a network.
LEMMA NewIds ==
  ASSUME TypeOK, FreshIds, Next
  PROVE  /\ \A x \in DOMAIN devices' \ DOMAIN devices : x > seq
         /\ \A x \in DOMAIN routes' \ DOMAIN routes : x > seq
         /\ \A x \in DOMAIN relays' \ DOMAIN relays : x > seq
         /\ \A x \in DOMAIN nets' \ DOMAIN nets :
               \E h \in Handlers : InsertNetwork(h) /\ ops[h].row = x
<1>1. seq \in Nat
  BY ConstantsAssumption DEF TypeOK, CountersType
<1>2. ASSUME NEW x \in DOMAIN devices', x \notin DOMAIN devices
      PROVE  x > seq
  <2>1. ~\E n \in DOMAIN nets : DeleteNetwork(n)
    BY <1>2, Zenon DEF DeleteNetwork
  <2>2. ~\E d \in DOMAIN devices : RevokeDevice(d) \/ \E v \in Values : SetEndpoints(d, v)
    BY <1>2, Zenon DEF RevokeDevice, SetEndpoints
  <2>3. ~\E h \in Handlers : SetSettingsRow(h)
    BY <1>2, Zenon DEF SetSettingsRow
  <2>4. ~\E c \in DOMAIN invites, k \in Keys, now \in Times : EnrollAgain(c, k, now)
    BY <1>2 DEF EnrollAgain
  <2>5. ASSUME NEW c, NEW k, NEW now, EnrollNew(c, k, now)
        PROVE  x > seq
    BY <1>1, <1>2, <2>5 DEF EnrollNew, Insert
  <2>6. ASSUME NEW n, NEW m \in 1 .. MaxBatch, NEW batch, ImportDevices(n, m, batch)
        PROVE  x > seq
    BY <1>1, <1>2, <2>6 DEF ImportDevices
  <2> QED BY <1>2, <2>1, <2>2, <2>3, <2>4, <2>5, <2>6, DeviceWriters
<1>3. ASSUME NEW x \in DOMAIN routes', x \notin DOMAIN routes
      PROVE  x > seq
  <2>1. ~\E n \in DOMAIN nets : DeleteNetwork(n)
    BY <1>3, Zenon DEF DeleteNetwork, Remove
  <2>2. ~\E d \in DOMAIN devices, p \in Prefixes : DeviceWithdraw(d, p)
    BY <1>3, Zenon DEF DeviceWithdraw, Remove
  <2>3. ~\E h \in Handlers : SetRouteApproved(h) \/ DeleteRouteRow(h)
    BY <1>3, Zenon DEF SetRouteApproved, DeleteRouteRow, Remove
  <2>4. ASSUME NEW d, NEW p, InsertRoute(d, p)
        PROVE  x > seq
    BY <1>1, <1>3, <2>4 DEF InsertRoute, Insert
  <2> QED BY <1>3, <2>1, <2>2, <2>3, <2>4, RouteWriters
<1>4. ASSUME NEW x \in DOMAIN relays', x \notin DOMAIN relays
      PROVE  x > seq
  <2>1. ~\E n \in DOMAIN nets : DeleteNetwork(n)
    BY <1>4, Zenon DEF DeleteNetwork, Remove
  <2>2. ASSUME NEW scope, NEW v, RegisterRelay(scope, v)
        PROVE  x > seq
    BY <1>1, <1>4, <2>2 DEF RegisterRelay, Insert
  <2>3. ASSUME NEW scope, NEW v, NEW r, UpdateRelay(r, scope, v)
        PROVE  FALSE
    BY <1>4, <2>3 DEF UpdateRelay
  <2> QED BY <1>4, <2>1, <2>2, <2>3, RelayWriters
<1>5. ASSUME NEW x \in DOMAIN nets', x \notin DOMAIN nets
      PROVE  \E h \in Handlers : InsertNetwork(h) /\ ops[h].row = x
  <2>1. ~\E n \in DOMAIN nets : DeleteNetwork(n)
    BY <1>5, Zenon DEF DeleteNetwork, Remove
  <2>2. ~\E ns : BumpEpochs(ns)
    BY <1>5 DEF BumpEpochs
  <2>3. ASSUME NEW h \in Handlers, InsertNetwork(h)
        PROVE  ops[h].row = x
    BY <1>5, <2>3 DEF InsertNetwork, Insert
  <2> QED BY <1>5, <2>1, <2>2, <2>3, NetWriters
<1> QED BY <1>2, <1>3, <1>4, <1>5

\* A handler enters "insert_network" only with the id it draws, and leaves the other
\* handlers alone.
LEMMA FreshIdsStep ==
  ASSUME TypeOK, FreshIds, Next
  PROVE  FreshIds'
<1>1. /\ seq \in Nat /\ seq' \in Nat /\ seq <= seq' /\ ops \in [Handlers -> Op]
      /\ NetsType /\ DevicesType /\ RoutesType /\ RelaysType
  BY CountersGrow, ConstantsAssumption DEF TypeOK, CountersType, OpsType
<1> DEFINE Used == DOMAIN nets \cup DOMAIN routes \cup DOMAIN relays \cup DOMAIN devices
<1>2. ASSUME NEW g \in Handlers, CreateNetwork(g)
      PROVE  FreshIds'
  BY <1>1, <1>2 DEF CreateNetwork, FreshIds, Idle, NetsType, DevicesType, RoutesType, RelaysType
<1>3. CASE \A g \in Handlers : ~CreateNetwork(g)
  <2>1. ASSUME NEW h \in Handlers, ops'[h].next = "insert_network"
        PROVE  ops'[h] = ops[h]
    <3>1. CASE UNCHANGED ops
      BY <3>1
    <3>2. ASSUME NEW g \in Handlers, HandlerStep(g)
          PROVE  ops'[h] = ops[h]
      BY <1>1, <1>3, <2>1, <3>2 DEF HandlerStep, InsertNetwork, ApproveRoute, DeleteRoute,
           SetRouteApproved, DeleteRouteRow, SetDeviceSettings, SetSettingsRow, BumpAndNotify,
           DropHandler, Idle, Op
    <3> QED BY <3>1, <3>2, OpsWriters
  <2>2. ASSUME NEW h \in Handlers, ops'[h].next = "insert_network", ops'[h].row \in Used'
        PROVE  FALSE
    <3>1. ops[h].next = "insert_network" /\ ops[h].row \notin Used /\ ops[h].row \in 1 .. seq
          /\ ops[h].row \in Used'
      BY <2>1, <2>2 DEF FreshIds
    <3>2. PICK g \in Handlers : InsertNetwork(g) /\ ops[g].row = ops[h].row
      BY <1>1, <3>1, NewIds
    <3>3. g = h
      BY <3>1, <3>2 DEF FreshIds, InsertNetwork
    <3> QED BY <1>1, <2>2, <3>2, <3>3 DEF InsertNetwork, Idle
  <2> QED BY <1>1, <2>1, <2>2 DEF FreshIds
<1> QED BY <1>2, <1>3

\* The inductive step of type correctness.
LEMMA TypeOKStep ==
  ASSUME TypeOK, FreshIds, [Next]_vars
  PROVE  TypeOK' /\ FreshIds'
<1>1. CASE Next
  BY <1>1, CountersGrow, NetsTypeStep, InvitesTypeStep, DevicesTypeStep, RoutesTypeStep,
     RelaysTypeStep, StatsStep, OpsTypeStep, FreshIdsStep, Zenon DEF TypeOK
<1>2. CASE UNCHANGED vars
  BY <1>2 DEF vars, TypeOK, CountersType, NetsType, InvitesType, DevicesType, RoutesType,
     RelaysType, OpsType, FreshIds
<1> QED BY <1>1, <1>2

\* Type correctness: every row of every table always has its type and an id or a code
\* that integrity::next or the random generator handed out.
THEOREM TypeCorrect == Spec => []TypeOK
<1>1. Init => TypeOK /\ FreshIds
  BY InitTypes
<1>2. TypeOK /\ FreshIds /\ [Next]_vars => (TypeOK /\ FreshIds)'
  BY TypeOKStep
<1> QED BY <1>1, <1>2, PTL DEF Spec

-----------------------------------------------------------------------------
(* What becomes of a device. *)

\* A device keeps its row, network, key and invite; it may be revoked, and while it
\* is active it keeps its address.
LEMMA DeviceFate ==
  ASSUME TypeOK, Next, NEW d \in DOMAIN devices
  PROVE  /\ d \in DOMAIN devices'
         /\ devices'[d].net = devices[d].net
         /\ devices'[d].key = devices[d].key
         /\ devices'[d].via = devices[d].via
         /\ \/ devices'[d].status = devices[d].status /\ devices'[d].addr = devices[d].addr
            \/ devices'[d] = Tombstone(devices[d])
<1> DEFINE Goal == /\ d \in DOMAIN devices'
                   /\ devices'[d].net = devices[d].net
                   /\ devices'[d].key = devices[d].key
                   /\ devices'[d].via = devices[d].via
                   /\ \/ devices'[d].status = devices[d].status /\ devices'[d].addr = devices[d].addr
                      \/ devices'[d] = Tombstone(devices[d])
<1> SUFFICES Goal
  OBVIOUS
<1>1. devices[d] \in Device
  BY DEF TypeOK, DevicesType
<1>2. ASSUME d \in DOMAIN devices',
             devices'[d] = devices[d] \/ devices'[d] = Tombstone(devices[d])
      PROVE  Goal
  BY <1>1, <1>2, Zenon DEF Tombstone, Device
<1>3. ASSUME NEW c \in DOMAIN invites, NEW k \in Keys, NEW now \in Times, EnrollAgain(c, k, now)
      PROVE  Goal
  BY <1>1, <1>3 DEF EnrollAgain, Active, Device
<1>4. ASSUME NEW c \in DOMAIN invites, NEW k \in Keys, NEW now \in Times, EnrollNew(c, k, now)
      PROVE  d \in DOMAIN devices' /\ devices'[d] = devices[d]
  <2>1. d # seq + 1
    BY ConstantsAssumption DEF TypeOK, CountersType, DevicesType
  <2> QED BY <1>4, <2>1 DEF EnrollNew, Insert
<1>5. ASSUME NEW n \in DOMAIN nets, NEW m \in 1 .. MaxBatch, NEW batch \in [1 .. m -> ImportRow],
             ImportDevices(n, m, batch)
      PROVE  d \in DOMAIN devices' /\ devices'[d] = devices[d]
  BY <1>5 DEF ImportDevices
<1>6. ASSUME NEW n \in DOMAIN nets, DeleteNetwork(n)
      PROVE  d \in DOMAIN devices' /\ (devices'[d] = devices[d] \/ devices'[d] = Tombstone(devices[d]))
  BY <1>6 DEF DeleteNetwork
<1>7. ASSUME NEW e \in DOMAIN devices, RevokeDevice(e)
      PROVE  d \in DOMAIN devices' /\ (devices'[d] = devices[d] \/ devices'[d] = Tombstone(devices[d]))
  BY <1>7 DEF RevokeDevice
<1>8. ASSUME NEW e \in DOMAIN devices, NEW v \in Values, SetEndpoints(e, v)
      PROVE  Goal
  BY <1>1, <1>8, SMTT(30) DEF SetEndpoints, Device
<1>9. ASSUME NEW h \in Handlers, SetSettingsRow(h)
      PROVE  Goal
  BY <1>1, <1>9 DEF SetSettingsRow, Device
<1>10. CASE UNCHANGED devices
  BY <1>2, <1>10
<1> HIDE DEF Goal
<1> QED BY <1>2, <1>3, <1>4, <1>5, <1>6, <1>7, <1>8, <1>9, <1>10, DeviceWriters, ZenonT(40)

\* A device is created active, in a network that stays, with a key that no active
\* device of the network has and an address that none has either; this goes for the
\* devices of one import among themselves, too.
LEMMA NewDevices ==
  ASSUME TypeOK, Next, NEW d \in DOMAIN devices', d \notin DOMAIN devices
  PROVE  /\ devices'[d].status = "active"
         /\ devices'[d].net \in DOMAIN nets /\ DOMAIN nets' = DOMAIN nets
         /\ devices'[d].key \notin ActiveKeys(devices'[d].net)
         /\ devices'[d].addr \notin ActiveAddrs(devices'[d].net)
         /\ \A e \in DOMAIN devices' \ DOMAIN devices :
               d # e => /\ devices'[d].key # devices'[e].key
                        /\ devices'[d].addr # Null => devices'[d].addr # devices'[e].addr
         /\ \A e \in DOMAIN devices : devices'[e] = devices[e]
<1> DEFINE Goal == /\ devices'[d].status = "active"
                   /\ devices'[d].net \in DOMAIN nets /\ DOMAIN nets' = DOMAIN nets
                   /\ devices'[d].key \notin ActiveKeys(devices'[d].net)
                   /\ devices'[d].addr \notin ActiveAddrs(devices'[d].net)
                   /\ \A e \in DOMAIN devices' \ DOMAIN devices :
                         d # e => /\ devices'[d].key # devices'[e].key
                                  /\ devices'[d].addr # Null => devices'[d].addr # devices'[e].addr
                   /\ \A e \in DOMAIN devices : devices'[e] = devices[e]
<1> SUFFICES Goal
  OBVIOUS
<1>1. /\ seq \in Nat /\ DevicesType /\ seq + 1 \notin DOMAIN devices
      /\ \A m \in Nat : DOMAIN devices \cap ((seq + 1) .. (seq + m)) = {}
  BY ConstantsAssumption, SMTT(30) DEF TypeOK, CountersType, DevicesType
<1>2. ASSUME NEW c \in DOMAIN invites, NEW k \in Keys, NEW now \in Times, EnrollNew(c, k, now)
      PROVE  Goal
  <2>1. PICK h \in HostMin .. HostMax :
           /\ IsAllocated(invites[c].net, h)
           /\ devices' = Insert(devices, seq + 1,
                 [net |-> invites[c].net, key |-> k, addr |-> <<Pool, h>>, status |-> "active",
                  token |-> rnd + 1, endpoints |-> Empty, settings |-> Empty, via |-> c])
    BY <1>2, Zenon DEF EnrollNew
  <2>2. /\ d = seq + 1 /\ DOMAIN devices' \ DOMAIN devices = {d}
        /\ \A e \in DOMAIN devices : devices'[e] = devices[e]
        /\ devices'[d] = [net |-> invites[c].net, key |-> k, addr |-> <<Pool, h>>,
                  status |-> "active", token |-> rnd + 1, endpoints |-> Empty,
                  settings |-> Empty, via |-> c]
    BY <1>1, <2>1, Zenon DEF Insert
  <2>3. <<Pool, h>> \notin ActiveAddrs(invites[c].net)
    BY <2>1 DEF IsAllocated, UsedOctets
  <2>4. invites[c].net \in DOMAIN nets /\ DOMAIN nets' = DOMAIN nets
        /\ k \notin ActiveKeys(invites[c].net)
    BY <1>2, Zenon DEF EnrollNew, InviteOpen, BumpEpochs
  <2> QED BY <2>2, <2>3, <2>4
<1>3. ASSUME NEW n \in DOMAIN nets, NEW m \in 1 .. MaxBatch, NEW batch \in [1 .. m -> ImportRow],
             ImportDevices(n, m, batch)
      PROVE  Goal
  <2>1. ASSUME NEW e \in DOMAIN devices', e \notin DOMAIN devices
        PROVE  /\ e - seq \in 1 .. m /\ e \in Int
               /\ devices'[e] = [net |-> n, key |-> batch[e - seq].key, addr |-> batch[e - seq].addr,
                     status |-> "active", token |-> Null,
                     endpoints |-> batch[e - seq].endpoints, settings |-> Empty, via |-> 0]
    <3>1. DOMAIN devices' = DOMAIN devices \cup (seq + 1) .. (seq + m)
      BY <1>3, Zenon DEF ImportDevices
    <3>2. e \in (seq + 1) .. (seq + m)
      BY <2>1, <3>1, Zenon
    <3>3. e - seq \in 1 .. m /\ e \in Int
      BY <1>1, <3>2
    <3> QED BY <1>3, <2>1, <3>1, <3>3, Zenon DEF ImportDevices
  <2>2. \A e \in DOMAIN devices : devices'[e] = devices[e]
    BY <1>3 DEF ImportDevices
  <2>3. DOMAIN nets' = DOMAIN nets /\ Importable(n, batch)
    BY <1>3 DEF ImportDevices, BumpEpochs
  <2>4. /\ devices'[d].key \notin ActiveKeys(n) /\ devices'[d].addr \notin ActiveAddrs(n)
        /\ devices'[d].status = "active" /\ devices'[d].net = n
    BY <2>1, <2>3 DEF Importable
  <2>5. ASSUME NEW e \in DOMAIN devices' \ DOMAIN devices, d # e
        PROVE  /\ devices'[d].key # devices'[e].key
               /\ devices'[d].addr # Null => devices'[d].addr # devices'[e].addr
    <3>1. d - seq # e - seq /\ d - seq \in DOMAIN batch /\ e - seq \in DOMAIN batch
      BY <1>1, <2>1, <2>5
    <3> QED BY <2>1, <2>3, <2>5, <3>1 DEF Importable
  <2> QED BY <2>2, <2>3, <2>4, <2>5, Zenon
<1>4. ~\E n \in DOMAIN nets : DeleteNetwork(n)
  BY Zenon DEF DeleteNetwork
<1>5. ~\E e \in DOMAIN devices : RevokeDevice(e) \/ \E v \in Values : SetEndpoints(e, v)
  BY Zenon DEF RevokeDevice, SetEndpoints
<1>6. ~\E h \in Handlers : SetSettingsRow(h)
  BY Zenon DEF SetSettingsRow
<1>7. ~\E c \in DOMAIN invites, k \in Keys, now \in Times : EnrollAgain(c, k, now)
  BY DEF EnrollAgain
<1> HIDE DEF Goal
<1> QED BY <1>2, <1>3, <1>4, <1>5, <1>6, <1>7, DeviceWriters, Zenon

-----------------------------------------------------------------------------
(* The safety invariants. *)

\* Every device that came from an invite names a code that was drawn, so a new
\* invite's code has created no device yet.
ViaDrawn == \A d \in DOMAIN devices : devices[d].via \in 0 .. rnd

\* The inductive invariant.
IInv ==
    /\ TypeOK /\ FreshIds /\ ViaDrawn
    /\ ActiveKeysUnique /\ ActiveAddrsUnique
    /\ NoCredentialOutlives /\ NoDanglingRows /\ InviteBudget

\* It holds of the empty database that migrate creates.
LEMMA InitIInv == Init => IInv
<1> SUFFICES ASSUME Init PROVE IInv
  OBVIOUS
<1>1. DOMAIN devices = {} /\ DOMAIN invites = {} /\ DOMAIN routes = {} /\ DOMAIN relays = {} /\ stats = {}
  BY SMTT(30) DEF Init
<1> QED
  BY <1>1, InitTypes DEF IInv, ViaDrawn, ActiveKeysUnique, ActiveAddrsUnique,
     NoCredentialOutlives, NoDanglingRows, InviteBudget

\* No step gives two active devices of a network one key.
LEMMA KeysStep ==
  ASSUME IInv, Next
  PROVE  ActiveKeysUnique'
<1> SUFFICES ASSUME NEW d \in DOMAIN devices', NEW e \in DOMAIN devices', d # e,
                    devices'[d].status = "active", devices'[e].status = "active",
                    devices'[d].net = devices'[e].net, devices'[d].key = devices'[e].key
             PROVE  FALSE
  BY DEF ActiveKeysUnique
<1>1. TypeOK /\ ActiveKeysUnique
  BY DEF IInv
<1>2. ASSUME NEW x \in DOMAIN devices, devices'[x].status = "active"
      PROVE  /\ devices[x].status = "active"
             /\ devices'[x].net = devices[x].net /\ devices'[x].key = devices[x].key
  BY <1>1, <1>2, DeviceFate, ZenonT(40) DEF Tombstone, TypeOK, DevicesType, Device
<1>3. CASE d \in DOMAIN devices /\ e \in DOMAIN devices
  BY <1>1, <1>2, <1>3 DEF ActiveKeysUnique
<1>4. ASSUME NEW x \in DOMAIN devices', NEW y \in DOMAIN devices, x \notin DOMAIN devices,
             devices'[y].status = "active", devices'[x].net = devices'[y].net
      PROVE  devices'[x].key # devices'[y].key
  <2>1. devices'[x].key \notin ActiveKeys(devices'[x].net)
    BY <1>1, <1>4, NewDevices
  <2> QED BY <1>2, <1>4, <2>1 DEF ActiveKeys, Active
<1>5. CASE d \notin DOMAIN devices /\ e \notin DOMAIN devices
  BY <1>1, <1>5, NewDevices
<1> QED BY <1>3, <1>4, <1>5

\* No step gives two active devices of a network one address.
LEMMA AddrsStep ==
  ASSUME IInv, Next
  PROVE  ActiveAddrsUnique'
<1> SUFFICES ASSUME NEW d \in DOMAIN devices', NEW e \in DOMAIN devices', d # e,
                    devices'[d].status = "active", devices'[e].status = "active",
                    devices'[d].net = devices'[e].net,
                    devices'[d].addr # Null, devices'[d].addr = devices'[e].addr
             PROVE  FALSE
  BY DEF ActiveAddrsUnique
<1>1. TypeOK /\ ActiveAddrsUnique
  BY Zenon DEF IInv
<1>2. ASSUME NEW x \in DOMAIN devices, devices'[x].status = "active"
      PROVE  /\ devices[x].status = "active"
             /\ devices'[x].net = devices[x].net /\ devices'[x].addr = devices[x].addr
  BY <1>1, <1>2, DeviceFate, ZenonT(40) DEF Tombstone, TypeOK, DevicesType, Device
<1>3. CASE d \in DOMAIN devices /\ e \in DOMAIN devices
  BY <1>1, <1>2, <1>3 DEF ActiveAddrsUnique
<1>4. ASSUME NEW x \in DOMAIN devices', NEW y \in DOMAIN devices, x \notin DOMAIN devices,
             devices'[y].status = "active", devices'[x].net = devices'[y].net,
             devices'[y].addr # Null
      PROVE  devices'[x].addr # devices'[y].addr
  <2>1. devices'[x].addr \notin ActiveAddrs(devices'[x].net)
    BY <1>1, <1>4, NewDevices, Zenon
  <2> QED BY <1>2, <1>4, <2>1, SMTT(30) DEF ActiveAddrs, Active
<1>5. CASE d \notin DOMAIN devices /\ e \notin DOMAIN devices
  BY <1>1, <1>5, NewDevices
<1> QED BY <1>3, <1>4, <1>5

\* A step that removes a network's row is its deletion.
LEMMA NetsStay ==
  ASSUME Next, NEW n \in DOMAIN nets, n \notin DOMAIN nets'
  PROVE  DeleteNetwork(n)
<1>1. ~\E ns : BumpEpochs(ns)
  BY DEF BumpEpochs
<1>2. ~\E h \in Handlers : InsertNetwork(h)
  BY ZenonT(40) DEF InsertNetwork, Insert
<1>3. ASSUME NEW m \in DOMAIN nets, DeleteNetwork(m)
      PROVE  m = n
  BY <1>3 DEF DeleteNetwork, Remove
<1> QED BY <1>1, <1>2, <1>3, NetWriters

\* Revocation and the deletion of a network take the address and the token away.
LEMMA CredentialsStep ==
  ASSUME IInv, Next
  PROVE  NoCredentialOutlives'
<1> SUFFICES ASSUME NEW d \in DOMAIN devices'
             PROVE  \/ devices'[d].status = "active" /\ devices'[d].net \in DOMAIN nets'
                    \/ /\ devices'[d].status = "revoked"
                       /\ devices'[d].addr = Null /\ devices'[d].token = Null
  BY DEF NoCredentialOutlives
<1>1. TypeOK /\ NoCredentialOutlives
  BY DEF IInv
<1>2. CASE d \notin DOMAIN devices
  BY <1>1, <1>2, NewDevices
<1>3. CASE d \in DOMAIN devices /\ devices'[d] = Tombstone(devices[d])
  BY <1>1, <1>3 DEF Tombstone, TypeOK, DevicesType, Device
<1>4. CASE d \in DOMAIN devices /\ devices'[d] # Tombstone(devices[d]) /\ devices[d].status = "active"
  <2>1. devices'[d].status = "active" /\ devices'[d].net = devices[d].net
    BY <1>1, <1>4, DeviceFate
  <2>2. devices[d].net \in DOMAIN nets
    BY <1>1, <1>4, Zenon DEF NoCredentialOutlives
  <2>3. ~DeleteNetwork(devices[d].net)
    BY <1>4 DEF DeleteNetwork
  <2> QED BY <2>1, <2>2, <2>3, NetsStay, Zenon
<1>5. CASE d \in DOMAIN devices /\ devices'[d] # Tombstone(devices[d]) /\ devices[d].status = "revoked"
  <2>1. devices'[d].status = "revoked" /\ devices'[d].addr = Null
    BY <1>1, <1>5, DeviceFate DEF NoCredentialOutlives
  <2>2. devices[d].token = Null
    BY <1>1, <1>5 DEF NoCredentialOutlives
  <2>3. devices'[d].token = devices[d].token
    <3>1. devices[d] \in Device
      BY <1>1, <1>5 DEF TypeOK, DevicesType
    <3>2. ASSUME NEW c \in DOMAIN invites, NEW k \in Keys, NEW now \in Times, EnrollAgain(c, k, now)
          PROVE  devices'[d] = devices[d]
      BY <1>5, <3>2 DEF EnrollAgain, Active
    <3>3. ASSUME NEW e \in DOMAIN devices, NEW v \in Values, SetEndpoints(e, v)
          PROVE  devices'[d].token = devices[d].token
      BY <1>5, <3>1, <3>3 DEF SetEndpoints, Device
    <3>4. ASSUME NEW h \in Handlers, SetSettingsRow(h)
          PROVE  devices'[d].token = devices[d].token
      BY <1>5, <3>1, <3>4, Zenon DEF SetSettingsRow, Device
    <3>5. ASSUME NEW n \in DOMAIN nets, DeleteNetwork(n)
          PROVE  devices'[d] = devices[d]
      BY <1>5, <3>5 DEF DeleteNetwork
    <3>6. ASSUME NEW e \in DOMAIN devices, RevokeDevice(e)
          PROVE  devices'[d] = devices[d]
      BY <1>5, <3>6 DEF RevokeDevice
    <3>7. CASE DOMAIN devices' # DOMAIN devices
      <4>1. PICK x \in DOMAIN devices' : x \notin DOMAIN devices
        BY <1>1, <3>7, DeviceFate, Zenon
      <4> QED BY <1>1, <1>5, <4>1, NewDevices, Zenon
    <3>8. CASE DOMAIN devices' = DOMAIN devices
      <4>0. seq + 1 \notin DOMAIN devices
        BY <1>1, ConstantsAssumption DEF TypeOK, CountersType, DevicesType
      <4>1. ~\E c \in DOMAIN invites, k \in Keys, now \in Times : EnrollNew(c, k, now)
        BY <3>8, <4>0, ZenonT(40) DEF EnrollNew, Insert
      <4>2. ASSUME NEW n \in DOMAIN nets, NEW m \in 1 .. MaxBatch,
                   NEW batch \in [1 .. m -> ImportRow], ImportDevices(n, m, batch)
            PROVE  devices'[d] = devices[d]
        BY <1>5, <4>2 DEF ImportDevices
      <4> QED BY <3>2, <3>3, <3>4, <3>5, <3>6, <4>1, <4>2, DeviceWriters, SMTT(30)
    <3> QED BY <3>7, <3>8
  <2> QED BY <2>1, <2>2, <2>3, Zenon
<1>6. d \in DOMAIN devices => devices[d].status \in {"active", "revoked"}
  BY <1>1, SMTT(30) DEF TypeOK, DevicesType, Device
<1> QED BY <1>2, <1>3, <1>4, <1>5, <1>6

\* A network's invites, routes, relays and statistics go in the transaction that
\* deletes it; what a step writes refers to networks and devices that were there.
LEMMA DanglingStep ==
  ASSUME IInv, Next
  PROVE  NoDanglingRows'
<1>1. TypeOK /\ NoDanglingRows
  BY DEF IInv
<1>2. ASSUME NEW c \in DOMAIN invites'
      PROVE  invites'[c].net \in DOMAIN nets'
  <2>1. invites'[c].net \in DOMAIN nets
    <3>1. ASSUME NEW n \in DOMAIN nets, NEW expires \in Times \cup {Null},
                 NEW max \in Limits \cup {Null}, CreateInvite(n, expires, max)
          PROVE  invites'[c].net \in DOMAIN nets
      BY <1>1, <1>2, <3>1 DEF CreateInvite, Insert, NoDanglingRows
    <3>2. ASSUME NEW b \in DOMAIN invites, NEW k \in Keys, NEW now \in Times, EnrollNew(b, k, now)
          PROVE  c \in DOMAIN invites /\ invites'[c].net = invites[c].net
      BY <1>1, <1>2, <3>2 DEF EnrollNew, TypeOK, InvitesType, Invite
    <3>3. ASSUME NEW b \in DOMAIN invites, RevokeInvite(b)
          PROVE  c \in DOMAIN invites /\ invites'[c].net = invites[c].net
      BY <1>2, <3>3, Zenon DEF RevokeInvite, Remove
    <3>4. ASSUME NEW n \in DOMAIN nets, DeleteNetwork(n)
          PROVE  c \in DOMAIN invites /\ invites'[c].net = invites[c].net
      BY <1>2, <3>4, Zenon DEF DeleteNetwork, Remove
    <3> QED BY <1>1, <1>2, <3>1, <3>2, <3>3, <3>4, InviteWriters, ZenonT(40)
       DEF NoDanglingRows
  <2>2. ~DeleteNetwork(invites'[c].net)
    BY <1>2, Zenon DEF DeleteNetwork, Remove
  <2> QED BY <2>1, <2>2, NetsStay, Zenon
<1>3. ASSUME NEW r \in DOMAIN routes'
      PROVE  /\ routes'[r].net \in DOMAIN nets'
             /\ routes'[r].device \in DOMAIN devices'
             /\ devices'[routes'[r].device].net = routes'[r].net
  <2>1. /\ routes'[r].net \in DOMAIN nets
        /\ routes'[r].device \in DOMAIN devices
        /\ devices[routes'[r].device].net = routes'[r].net
    <3>1. ASSUME r \in DOMAIN routes, routes'[r].net = routes[r].net,
                 routes'[r].device = routes[r].device
          PROVE  /\ routes'[r].net \in DOMAIN nets
                 /\ routes'[r].device \in DOMAIN devices
                 /\ devices[routes'[r].device].net = routes'[r].net
      BY <1>1, <3>1 DEF NoDanglingRows
    <3>2. ASSUME NEW n \in DOMAIN nets, DeleteNetwork(n)
          PROVE  r \in DOMAIN routes /\ routes'[r] = routes[r]
      BY <1>3, <3>2 DEF DeleteNetwork, Remove
    <3>3. ASSUME NEW d \in DOMAIN devices, NEW p \in Prefixes, DeviceWithdraw(d, p)
          PROVE  r \in DOMAIN routes /\ routes'[r] = routes[r]
      BY <1>3, <3>3, Zenon DEF DeviceWithdraw, Remove
    <3>4. ASSUME NEW d \in DOMAIN devices, NEW p \in Prefixes, Live(d), InsertRoute(d, p)
          PROVE  \/ r \in DOMAIN routes /\ routes'[r] = routes[r]
                 \/ routes'[r].device = d /\ routes'[r].net = devices[d].net
                    /\ devices[d].net \in DOMAIN nets
      BY <1>3, <3>4 DEF InsertRoute, Insert, Live
    <3>5. ASSUME NEW h \in Handlers, SetRouteApproved(h)
          PROVE  r \in DOMAIN routes /\ routes'[r].net = routes[r].net
                 /\ routes'[r].device = routes[r].device
      BY <1>1, <1>3, <3>5 DEF SetRouteApproved, TypeOK, RoutesType, Route
    <3>6. ASSUME NEW h \in Handlers, DeleteRouteRow(h)
          PROVE  r \in DOMAIN routes /\ routes'[r] = routes[r]
      BY <1>3, <3>6, Zenon DEF DeleteRouteRow, Remove
    <3> QED BY <1>3, <3>1, <3>2, <3>3, <3>4, <3>5, <3>6, RouteWriters, ZenonT(40)
  <2>2. ~DeleteNetwork(routes'[r].net)
    BY <1>3 DEF DeleteNetwork, Remove
  <2> QED BY <1>1, <2>1, <2>2, NetsStay, DeviceFate, Zenon
<1>4. ASSUME NEW r \in DOMAIN relays'
      PROVE  relays'[r].net \in DOMAIN nets' \cup {Null}
  <2>1. relays'[r].net \in DOMAIN nets \cup {Null}
    <3>1. ASSUME NEW n \in DOMAIN nets, DeleteNetwork(n)
          PROVE  r \in DOMAIN relays /\ relays'[r] = relays[r]
      BY <1>4, <3>1, Zenon DEF DeleteNetwork, Remove
    <3>2. ASSUME NEW scope \in DOMAIN nets \cup {Null}, NEW v \in Values, RegisterRelay(scope, v)
          PROVE  (r \in DOMAIN relays /\ relays'[r] = relays[r]) \/ relays'[r].net = scope
      BY <1>4, <3>2 DEF RegisterRelay, Insert
    <3>3. ASSUME NEW scope \in DOMAIN nets \cup {Null}, NEW v \in Values, NEW q \in DOMAIN relays,
                 UpdateRelay(q, scope, v)
          PROVE  (r \in DOMAIN relays /\ relays'[r] = relays[r]) \/ relays'[r].net = scope
      BY <1>4, <3>3, Zenon DEF UpdateRelay
    <3> QED BY <1>1, <1>4, <3>1, <3>2, <3>3, RelayWriters, Zenon DEF NoDanglingRows
  <2>2. relays'[r].net \in DOMAIN nets => ~DeleteNetwork(relays'[r].net)
    BY <1>4, Zenon DEF DeleteNetwork, Remove
  <2> QED BY <2>1, <2>2, NetsStay, Zenon
<1>5. ASSUME NEW d \in stats'
      PROVE  devices'[d].net \in DOMAIN nets'
  <2>1. d \in DOMAIN devices /\ devices[d].net \in DOMAIN nets
    <3>1. ASSUME NEW h \in Handlers, HandlerStep(h)
          PROVE  UNCHANGED stats
      BY <3>1 DEF HandlerStep, CreateNetwork, InsertNetwork, ApproveRoute, DeleteRoute,
         SetRouteApproved, DeleteRouteRow, SetDeviceSettings, SetSettingsRow, BumpAndNotify,
         DropHandler
    <3>2. ASSUME NEW e \in DOMAIN devices, DeviceStep(e)
          PROVE  UNCHANGED stats \/ (stats' = stats \cup {e} /\ Live(e))
      BY <3>2, Zenon
         DEF DeviceStep, RevokeDevice, SetEndpoints, ReportStats, AdvertiseRoute,
         DeviceAdvertise, DeviceWithdraw, InsertRoute
    <3>3. stats' \subseteq stats \/ \E e \in DOMAIN devices : stats' = stats \cup {e} /\ Live(e)
      BY <3>1, <3>2, ZenonT(40)
         DEF Next, CreateInvite, RevokeInvite, DeleteNetwork, EnrollAgain,
         EnrollNew, ImportDevices, RegisterRelay, UpdateRelay
    <3> QED BY <1>1, <1>5, <3>3, Zenon DEF NoDanglingRows, TypeOK, Live
  <2>2. ~DeleteNetwork(devices[d].net)
    BY <1>5 DEF DeleteNetwork
  <2> QED BY <1>1, <2>1, <2>2, NetsStay, DeviceFate, Zenon
<1> QED BY <1>2, <1>3, <1>4, <1>5 DEF NoDanglingRows

\* A new device comes from an import or from the one enrolment that this step is.
LEMMA NewVia ==
  ASSUME TypeOK, Next, NEW d \in DOMAIN devices', d \notin DOMAIN devices
  PROVE  \/ devices'[d].via = 0
            /\ ~\E c \in DOMAIN invites, k \in Keys, now \in Times : EnrollNew(c, k, now)
         \/ \E c \in DOMAIN invites, k \in Keys, now \in Times :
               EnrollNew(c, k, now) /\ d = seq + 1 /\ devices'[d].via = c
<1>1. seq \in Nat
  BY ConstantsAssumption DEF TypeOK, CountersType
<1>2. ASSUME NEW c \in DOMAIN invites, NEW k \in Keys, NEW now \in Times, EnrollNew(c, k, now)
      PROVE  d = seq + 1 /\ devices'[d].via = c
  BY <1>2, SMTT(30) DEF EnrollNew, Insert
<1>3. ASSUME NEW n \in DOMAIN nets, NEW m \in 1 .. MaxBatch, NEW batch \in [1 .. m -> ImportRow],
             ImportDevices(n, m, batch)
      PROVE  devices'[d].via = 0
  BY <1>3, Zenon DEF ImportDevices
<1>4. ~\E n \in DOMAIN nets : DeleteNetwork(n)
  BY Zenon DEF DeleteNetwork
<1>5. ~\E e \in DOMAIN devices : RevokeDevice(e) \/ \E v \in Values : SetEndpoints(e, v)
  BY Zenon DEF RevokeDevice, SetEndpoints
<1>6. ~\E h \in Handlers : SetSettingsRow(h)
  BY Zenon DEF SetSettingsRow
<1>7. ~\E c \in DOMAIN invites, k \in Keys, now \in Times : EnrollAgain(c, k, now)
  BY DEF EnrollAgain
<1> QED BY <1>2, <1>3, <1>4, <1>5, <1>6, <1>7, DeviceWriters, Zenon

\* No step lets a device name a code that was not drawn.
LEMMA ViaStep ==
  ASSUME IInv, Next
  PROVE  ViaDrawn'
<1>1. TypeOK /\ ViaDrawn
  BY DEF IInv
<1>2. rnd \in Nat /\ rnd' \in Nat /\ rnd <= rnd' /\ InvitesType
  BY <1>1, CountersGrow, ConstantsAssumption, SMTT(30) DEF TypeOK, CountersType
<1>3. ASSUME NEW d \in DOMAIN devices', d \in DOMAIN devices
      PROVE  devices'[d].via \in 0 .. rnd'
  BY <1>1, <1>2, <1>3, DeviceFate, SMTT(30) DEF ViaDrawn
<1>4. ASSUME NEW d \in DOMAIN devices', d \notin DOMAIN devices
      PROVE  devices'[d].via \in 0 .. rnd'
  BY <1>1, <1>2, <1>4, NewVia, SMTT(30) DEF InvitesType
<1> QED BY <1>3, <1>4 DEF ViaDrawn

\* An invite's uses and the devices it created change together.
LEMMA BudgetStep ==
  ASSUME IInv, Next
  PROVE  InviteBudget'
<1> DEFINE Made(c) == {d \in DOMAIN devices : devices[d].via = c}
           MadeNext(c) == {d \in DOMAIN devices' : devices'[d].via = c}
<1>1. TypeOK /\ ViaDrawn /\ InviteBudget
  BY DEF IInv
<1>2. seq \in Nat /\ rnd \in Nat /\ InvitesType /\ DevicesType
  BY <1>1, ConstantsAssumption DEF TypeOK, CountersType
<1>3. ASSUME NEW c
      PROVE  IsFiniteSet(Made(c)) /\ Cardinality(Made(c)) \in Nat
  <2>1. IsFiniteSet(1 .. seq)
    BY <1>2, FS_Interval
  <2>2. Made(c) \subseteq 1 .. seq
    BY <1>2 DEF DevicesType
  <2> QED BY <2>1, <2>2, FS_Subset, FS_CardinalityType, Zenon
<1>4. ASSUME NEW b \in DOMAIN invites, NEW k \in Keys, NEW now \in Times, EnrollNew(b, k, now),
             NEW c \in DOMAIN invites'
      PROVE  /\ invites'[c].uses = Cardinality(MadeNext(c))
             /\ invites'[c].max # Null => invites'[c].uses <= invites'[c].max
  <2>1. c \in DOMAIN invites /\ invites[c] \in Invite
    BY <1>2, <1>4 DEF EnrollNew, InvitesType
  <2>2. CASE c # b
    <3>1. invites'[c] = invites[c]
      BY <1>4, <2>1, <2>2 DEF EnrollNew
    <3>2. MadeNext(c) = Made(c)
      BY <1>1, <1>4, <2>2, DeviceFate, SMTT(30) DEF EnrollNew, Insert
    <3> QED BY <1>1, <2>1, <3>1, <3>2 DEF InviteBudget
  <2>3. CASE c = b
    <3>1. /\ invites'[c].uses = invites[c].uses + 1 /\ invites'[c].max = invites[c].max
          /\ invites[c].max # Null => invites[c].uses < invites[c].max
      BY <1>4, <2>1, <2>3 DEF EnrollNew, Invite
    <3>2. seq + 1 \notin Made(c)
      BY <1>2 DEF DevicesType
    <3>3. MadeNext(c) = Made(c) \cup {seq + 1}
      BY <1>1, <1>4, <2>3, DeviceFate, SMTT(30) DEF EnrollNew, Insert
    <3>4. invites[c].uses = Cardinality(Made(c))
      BY <1>1, <2>1, Zenon DEF InviteBudget
    <3> HIDE DEF Made, MadeNext
    <3>5. Cardinality(MadeNext(c)) = Cardinality(Made(c)) + 1
      BY <1>3, <3>2, <3>3, FS_AddElement, Zenon
    <3>6. invites[c].max \in Nat \cup {Null} /\ invites[c].uses \in Nat
      BY <2>1, ConstantsAssumption, Zenon DEF Invite
    <3> QED BY <3>1, <3>4, <3>5, <3>6
  <2> QED BY <2>2, <2>3
<1>5. ASSUME ~\E b \in DOMAIN invites, k \in Keys, now \in Times : EnrollNew(b, k, now),
             NEW c \in DOMAIN invites'
      PROVE  /\ invites'[c].uses = Cardinality(MadeNext(c))
             /\ invites'[c].max # Null => invites'[c].uses <= invites'[c].max
  <2>1. c \in DOMAIN invites => c # 0
    BY <1>2, SMTT(30) DEF InvitesType
  <2>2. c # 0 => MadeNext(c) = Made(c)
    BY <1>1, <1>5, DeviceFate, NewVia, Zenon
  <2>3. CASE c \in DOMAIN invites
    <3>1. invites'[c] = invites[c]
      <4>1. ASSUME NEW n \in DOMAIN nets, NEW expires \in Times \cup {Null},
                   NEW max \in Limits \cup {Null}, CreateInvite(n, expires, max)
            PROVE  invites'[c] = invites[c]
        <5>1. c # rnd + 1
          BY <1>2, <2>3, SMTT(30) DEF InvitesType
        <5> QED BY <2>3, <4>1, <5>1 DEF CreateInvite, Insert
      <4>2. ASSUME NEW b \in DOMAIN invites, RevokeInvite(b)
            PROVE  invites'[c] = invites[c]
        BY <1>5, <4>2, Zenon DEF RevokeInvite, Remove
      <4>3. ASSUME NEW n \in DOMAIN nets, DeleteNetwork(n)
            PROVE  invites'[c] = invites[c]
        BY <1>5, <4>3, Zenon DEF DeleteNetwork, Remove
      <4> QED BY <1>5, <4>1, <4>2, <4>3, InviteWriters, ZenonT(40)
    <3> QED BY <1>1, <2>1, <2>2, <2>3, <3>1, Zenon DEF InviteBudget
  <2>4. CASE c \notin DOMAIN invites
    <3>1. c = rnd + 1 /\ invites'[c].uses = 0 /\ invites'[c].max \in Limits \cup {Null}
      <4>1. ASSUME NEW n \in DOMAIN nets, NEW expires \in Times \cup {Null},
                   NEW max \in Limits \cup {Null}, CreateInvite(n, expires, max)
            PROVE  c = rnd + 1 /\ invites'[c].uses = 0 /\ invites'[c].max \in Limits \cup {Null}
        BY <1>5, <2>4, <4>1, Zenon DEF CreateInvite, Insert
      <4>2. ~\E b \in DOMAIN invites : RevokeInvite(b)
        BY <1>5, <2>4, Zenon DEF RevokeInvite, Remove
      <4>3. ~\E n \in DOMAIN nets : DeleteNetwork(n)
        BY <1>5, <2>4, Zenon DEF DeleteNetwork, Remove
      <4> QED BY <1>5, <2>4, <4>1, <4>2, <4>3, InviteWriters, Zenon
    <3>2. Made(c) = {}
      BY <1>1, <1>2, <3>1 DEF ViaDrawn
    <3> HIDE DEF Made, MadeNext
    <3>3. Cardinality(MadeNext(c)) = 0
      BY <1>2, <2>2, <3>1, <3>2, FS_EmptySet
    <3>4. invites'[c].max \in Nat \cup {Null}
      BY <3>1, ConstantsAssumption, ZenonT(40)
    <3> QED BY <3>1, <3>3, <3>4, SMTT(30)
  <2> QED BY <2>3, <2>4
<1>6. ASSUME NEW c \in DOMAIN invites'
      PROVE  /\ invites'[c].uses = Cardinality(MadeNext(c))
             /\ invites'[c].max # Null => invites'[c].uses <= invites'[c].max
  BY <1>4, <1>5, <1>6
<1> QED BY <1>6 DEF InviteBudget

-----------------------------------------------------------------------------
(* The theorems. *)

\* The invariant is inductive.
LEMMA IInvStep ==
  ASSUME IInv, [Next]_vars
  PROVE  IInv'
<1>1. CASE Next
  <2>1. TypeOK' /\ FreshIds'
    BY <1>1, TypeOKStep, SMTT(30) DEF IInv
  <2> QED BY <1>1, <2>1, ViaStep, KeysStep, AddrsStep, CredentialsStep, DanglingStep, BudgetStep DEF IInv
<1>2. CASE UNCHANGED vars
  <2>1. TypeOK' /\ FreshIds'
    BY <1>2, TypeOKStep DEF IInv
  <2> QED
    BY <1>2, <2>1 DEF vars, IInv, ViaDrawn, ActiveKeysUnique, ActiveAddrsUnique,
       NoCredentialOutlives, NoDanglingRows, InviteBudget
<1> QED BY <1>1, <1>2

\* IInv holds in every reachable state.
THEOREM Invariance == Spec => []IInv
  BY InitIInv, IInvStep, PTL DEF Spec

\* However enrolments, imports, revocations, deletions and the statements of unfinished
\* handlers interleave: no two active devices of a network share a key...
THEOREM KeysUnique == Spec => []ActiveKeysUnique
<1>1. IInv => ActiveKeysUnique
  BY DEF IInv
<1> QED BY <1>1, Invariance, PTL

\* ... or an IPv4 address, although enroll does not rely on the unique indexes...
THEOREM AddrsUnique == Spec => []ActiveAddrsUnique
<1>1. IInv => ActiveAddrsUnique
  BY DEF IInv
<1> QED BY <1>1, Invariance, PTL

\* ... a revoked device, and a device of a deleted network, has no address and no token...
THEOREM CredentialsEnd == Spec => []NoCredentialOutlives
<1>1. IInv => NoCredentialOutlives
  BY DEF IInv
<1> QED BY <1>1, Invariance, PTL

\* ... no row refers to a network or a device that is gone...
THEOREM NothingDangles == Spec => []NoDanglingRows
<1>1. IInv => NoDanglingRows
  BY DEF IInv
<1> QED BY <1>1, Invariance, PTL

\* ... and an invite is used exactly once per device it created, within its limit.
THEOREM BudgetKept == Spec => []InviteBudget
<1>1. IInv => InviteBudget
  BY DEF IInv
<1> QED BY <1>1, Invariance, PTL

\* Ids are never recycled: integrity::next hands each out once, and no step revives
\* or rewrites a device.
THEOREM IdsOnce == Spec => IdsNeverRecycled
<1>1. ASSUME IInv, Next
      PROVE  RowsKeepIdentity
  <2>1. TypeOK /\ FreshIds
    BY <1>1, Zenon DEF IInv
  <2>2. ASSUME NEW d \in DOMAIN devices
        PROVE  /\ d \in DOMAIN devices'
               /\ devices'[d].net = devices[d].net /\ devices'[d].key = devices[d].key
               /\ devices[d].status = "revoked" => devices'[d].status = "revoked"
    BY <1>1, <2>1, DeviceFate, Zenon DEF Tombstone, TypeOK, DevicesType, Device
  <2>3. \A x \in UsedIds : x \in Int /\ ~(x > seq)
    BY <2>1, ConstantsAssumption
      , SMTT(30)
         DEF UsedIds, TypeOK, CountersType, NetsType, DevicesType, RoutesType, RelaysType
  <2>4. ASSUME NEW x \in (DOMAIN devices' \ DOMAIN devices) \cup (DOMAIN routes' \ DOMAIN routes)
                            \cup (DOMAIN relays' \ DOMAIN relays)
        PROVE  x \notin UsedIds /\ x > seq
    BY <1>1, <2>1, <2>3, <2>4, NewIds, Zenon
  <2>5. ASSUME NEW x \in DOMAIN nets' \ DOMAIN nets
        PROVE  /\ x \notin UsedIds
               /\ \E h \in Handlers : ops[h].next = "insert_network" /\ ops[h].row = x
    <3>1. PICK h \in Handlers : InsertNetwork(h) /\ ops[h].row = x
      BY <1>1, <2>1, <2>5, NewIds
    <3> QED BY <2>1, <3>1 DEF InsertNetwork, FreshIds, UsedIds
  <2> QED BY <2>2, <2>4, <2>5 DEF RowsKeepIdentity
<1>2. IInv /\ [Next]_vars => [RowsKeepIdentity]_vars
  BY <1>1
<1> QED BY <1>2, Invariance, PTL DEF Spec, IdsNeverRecycled

\* No device can withdraw a route that has been approved.
THEOREM ApprovalsStay == Spec => ApprovedRoutesStay
<1>1. ASSUME Next
      PROVE  RemovedByAdmin
  <2> SUFFICES ASSUME NEW r \in DOMAIN routes, r \notin DOMAIN routes', routes[r].approved
               PROVE  \/ routes[r].net \notin DOMAIN nets'
                      \/ \E h \in Handlers : ops[h].next = "delete_row" /\ ops[h].row = r
    BY ZenonT(40) DEF RemovedByAdmin
  <2>1. ASSUME NEW n \in DOMAIN nets, DeleteNetwork(n)
        PROVE  routes[r].net \notin DOMAIN nets'
    BY <2>1, SMTT(30) DEF DeleteNetwork, Remove
  <2>2. ~\E d \in DOMAIN devices, p \in Prefixes : InsertRoute(d, p)
    BY DEF InsertRoute, Insert
  <2>3. ~\E d \in DOMAIN devices, p \in Prefixes : DeviceWithdraw(d, p)
    BY Zenon DEF DeviceWithdraw, Remove
  <2>4. ~\E h \in Handlers : SetRouteApproved(h)
    BY DEF SetRouteApproved
  <2>5. ASSUME NEW h \in Handlers, DeleteRouteRow(h)
        PROVE  ops[h].next = "delete_row" /\ ops[h].row = r
    BY <2>5 DEF DeleteRouteRow, Remove
  <2> QED BY <1>1, <2>1, <2>2, <2>3, <2>4, <2>5, RouteWriters, Zenon
<1> QED BY <1>1, PTL DEF Spec, ApprovedRoutesStay

=============================================================================
