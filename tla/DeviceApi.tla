------------------------------ MODULE DeviceApi ------------------------------
(***************************************************************************)
(* The handlers of sql_router: who may call them, and what becomes of a     *)
(* call whose authority changes while it runs.  A handler authorises the    *)
(* bearer with reads of its own and then calls the store; other handlers    *)
(* run between the two.  One request is followed statement by statement;    *)
(* of all the others only the store operations that change anybody's        *)
(* authority matter to it, and those are transactions (`Elsewhere').        *)
(*                                                                         *)
(* ControlStore has what the store's operations do to the tables; here a    *)
(* device keeps only what authority depends on: its status, its token, and  *)
(* whether it has routes and a row of statistics.                           *)
(***************************************************************************)
EXTENDS Naturals, FiniteSets

CONSTANTS Devices, NetOf,   \* devices and the network each belongs to
          Sessions,         \* bearers of valid administrator sessions (ControlAccess has how they end)
          Master,           \* FLUXPEER_ADMIN_PASSWORD
          MaxTokens,        \* bound on tokens handed out; a token is a number
          None

VARIABLES dev,      \* device -> [status, token, route, stats]
          nets,     \* networks that exist
          tokens,   \* tokens handed out so far
          owner,    \* history: token -> the device it was given to
          retired,  \* history: tokens that are no longer a device's
          req       \* the request: [pc, op, by, dev, stale]

apiVars == <<dev, nets, tokens, owner, retired, req>>

(* The routes, by what guards them.                                         *)
DeviceOps == {"set_endpoints", "report_stats", "device_gateway", "watch_device"}
ReadOps == {"device_config", "get_device_stats", "get_device_settings", "list_device_routes"}
OwnOps == {"device_advertise", "device_unadvertise"}
AdminOps == {"revoke", "rename_device", "set_device_settings", "advertise_route", "approve_route",
             "delete_route", "delete_network"}
Ops == DeviceOps \cup ReadOps \cup OwnOps \cup AdminOps \cup {"resolve_name", "enroll"}

Live(d) == dev[d].status = "active" /\ NetOf[d] \in nets

(* device_token, token_network and has_device_token: rows of active devices *)
(* of existing networks, the last one of active devices.                    *)
DeviceToken(d) == IF Live(d) THEN dev[d].token ELSE None
TokenNetworks(b) == {NetOf[d] : d \in {e \in Devices : b # None /\ DeviceToken(e) = b}}
HasDeviceToken(b) == \E d \in Devices : b # None /\ dev[d].status = "active" /\ dev[d].token = b

ValidBearer(b) == b = Master \/ b \in Sessions

Free == [pc |-> "idle", op |-> None, by |-> None, dev |-> None, stale |-> FALSE]
Go(pc) == req' = [req EXCEPT !.pc = pc]
Fails == req' = Free               \* an error status; nothing was written
store == <<dev, nets, tokens, owner, retired>>

(* A request comes in at the router.                                        *)
Arrive(op, b, d) ==
    /\ req.pc = "idle"
    /\ req' = [pc |-> CASE op \in DeviceOps -> "device" [] op \in AdminOps -> "admin"
                         [] op \in OwnOps \cup {"enroll"} -> "run" [] OTHER -> "read",
               op |-> op, by |-> b, dev |-> d, stale |-> b \in retired]
    /\ UNCHANGED store

\* Mutant of require_device: any device's token will do.
Bugrequire_device ==
    /\ req.pc = "device"
    /\ IF req.by = Master \/ HasDeviceToken(req.by) THEN Go("run") ELSE Fails
    /\ UNCHANGED store

(* The caller has the master key or the token of this very device.          *)
require_device ==
    /\ req.pc = "device"
    /\ IF req.by = Master \/ (req.by # None /\ DeviceToken(req.dev) = req.by)
         THEN Go("run") ELSE Fails
    /\ UNCHANGED store

(* require_device_read and sql_resolve_name ask for an administrator first, *)
(* for the token later, and last whether the token is anybody's.            *)
require_device_read ==
    /\ req.pc = "read"
    /\ IF req.by = None THEN Fails
       ELSE Go(IF ValidBearer(req.by) THEN "run" ELSE "match")
    /\ UNCHANGED store

MatchToken ==
    /\ req.pc = "match" /\ req.op \in ReadOps
    /\ Go(IF DeviceToken(req.dev) = req.by THEN "run" ELSE "known")
    /\ UNCHANGED store

KnownToken ==
    /\ req.pc = "known"
    /\ Fails      \* 403 or 401
    /\ UNCHANGED store

MatchNetwork ==
    /\ req.pc = "match" /\ req.op = "resolve_name"
    /\ IF NetOf[req.dev] \in TokenNetworks(req.by) THEN Go("run") ELSE Fails
    /\ UNCHANGED store

(* The layer around every management route.                                 *)
require_admin ==
    /\ req.pc = "admin"
    /\ IF ValidBearer(req.by) THEN Go("run") ELSE Fails
    /\ UNCHANGED store

-----------------------------------------------------------------------------
(* The handlers behind the guards.  A successful mutation of an             *)
(* administrator leaves an audit entry after it.                            *)
Running(op) == req.pc = "run" /\ req.op = op
Done(d) ==
    /\ dev' = d /\ Go(IF req.op \in AdminOps THEN "audit" ELSE "ok")
    /\ UNCHANGED <<nets, tokens, owner, retired>>
Refuse == Fails /\ UNCHANGED store

record_audit == req.pc = "audit" /\ Go("ok") /\ UNCHANGED store
Reply == req.pc = "ok" /\ req' = Free /\ UNCHANGED store

(* lock_active_device, then the write, in one transaction.                  *)
set_endpoints ==
    /\ Running("set_endpoints")
    /\ IF Live(req.dev) THEN Done(dev) ELSE Refuse

\* Mutant of report_stats: writes the row without locking the active device.
Bugreport_stats ==
    /\ Running("report_stats")
    /\ Done([dev EXCEPT ![req.dev].stats = TRUE])

report_stats ==
    /\ Running("report_stats")
    /\ IF Live(req.dev) THEN Done([dev EXCEPT ![req.dev].stats = TRUE]) ELSE Refuse

(* select_gateway finds none when no peer advertises an endpoint.           *)
device_gateway ==
    /\ Running("device_gateway")
    /\ Refuse \/ (Live(req.dev) /\ Done(dev))

watch_device ==
    /\ Running("watch_device")
    /\ IF dev[req.dev].status # "absent" THEN Done(dev) ELSE Refuse

device_config ==
    /\ Running("device_config")
    /\ IF Live(req.dev) THEN Done(dev) ELSE Refuse

get_device_settings ==
    /\ Running("get_device_settings")
    /\ IF dev[req.dev].status # "absent" THEN Done(dev) ELSE Refuse

get_device_stats == Running("get_device_stats") /\ Done(dev)

list_device_routes == Running("list_device_routes") /\ Done(dev)

resolve_name ==
    /\ Running("resolve_name")
    /\ IF Live(req.dev) THEN Done(dev) ELSE Refuse

\* Mutant of OwnToken: the transaction looks at the device, not at its token again.
BugOwnToken == Live(req.dev)

(* device_route_change authorises in the transaction that makes the change. *)
OwnToken == req.by # None /\ DeviceToken(req.dev) = req.by

device_advertise ==
    /\ Running("device_advertise")
    /\ IF OwnToken
         THEN Done([dev EXCEPT ![req.dev].route = IF @ = "none" THEN "pending" ELSE @])
         ELSE Refuse

device_unadvertise ==
    /\ Running("device_unadvertise")
    /\ CASE ~OwnToken -> Refuse
         [] OwnToken /\ dev[req.dev].route = "approved" -> Refuse
         [] OTHER -> Done([dev EXCEPT ![req.dev].route = "none"])

-----------------------------------------------------------------------------
(* Management.                                                              *)
Retire(ds) == retired' = retired \cup ({dev[d].token : d \in ds} \ {None})

Revoked(d) ==
    /\ dev[d].status # "absent"
    /\ dev' = [dev EXCEPT ![d] = [@ EXCEPT !.status = "revoked", !.token = None]]
    /\ Retire({d}) /\ UNCHANGED <<nets, tokens, owner>>

revoke ==
    /\ Running("revoke")
    /\ \/ Revoked(req.dev) /\ Go("audit")
       \/ dev[req.dev].status = "absent" /\ Refuse

(* Neither of the two asks whether the device is active.                    *)
rename_device ==
    /\ Running("rename_device")
    /\ Refuse \/ (IF dev[req.dev].status # "absent" THEN Done(dev) ELSE Refuse)

set_device_settings ==
    /\ Running("set_device_settings")
    /\ IF dev[req.dev].status # "absent" THEN Done(dev) ELSE Refuse

advertise_route ==
    /\ Running("advertise_route")
    /\ IF Live(req.dev)
         THEN Done([dev EXCEPT ![req.dev].route = IF @ = "none" THEN "pending" ELSE @])
         ELSE Refuse

approve_route ==
    /\ Running("approve_route")
    /\ IF dev[req.dev].route = "none" THEN Refuse
       ELSE Done([dev EXCEPT ![req.dev].route = "approved"])

delete_route ==
    /\ Running("delete_route")
    /\ IF dev[req.dev].route = "none" THEN Refuse
       ELSE Done([dev EXCEPT ![req.dev].route = "none"])

Deleted(n) ==
    LET ds == {d \in Devices : NetOf[d] = n /\ dev[d].status # "absent"}
    IN  /\ n \in nets /\ nets' = nets \ {n}
        /\ dev' = [d \in Devices |-> IF d \in ds
                     THEN [status |-> "revoked", token |-> None, route |-> "none", stats |-> FALSE]
                     ELSE dev[d]]
        /\ Retire(ds) /\ UNCHANGED <<tokens, owner>>

delete_network ==
    /\ Running("delete_network")
    /\ \/ Deleted(NetOf[req.dev]) /\ Go("audit")
       \/ NetOf[req.dev] \notin nets /\ Refuse

(* sql_enroll, past the invite and the proof of possession: a new token, to *)
(* a new device or in place of the one an active device has.                *)
Enrolled(d) ==
    /\ NetOf[d] \in nets /\ dev[d].status # "revoked" /\ tokens < MaxTokens
    /\ tokens' = tokens + 1 /\ owner' = [owner EXCEPT ![tokens + 1] = d]
    /\ dev' = [dev EXCEPT ![d] = [@ EXCEPT !.status = "active", !.token = tokens + 1]]
    /\ Retire({d}) /\ UNCHANGED nets

enroll ==
    /\ Running("enroll")
    /\ \/ Enrolled(req.dev) /\ Go("ok")
       \/ Refuse

(* What the handlers of other requests do while this one is under way.      *)
Elsewhere ==
    /\ req.pc \notin {"idle", "ok"} /\ UNCHANGED req
    /\ \/ \E d \in Devices : Revoked(d) \/ Enrolled(d)
       \/ \E n \in nets : Deleted(n)

(* http_limits::deadline, or a client that hangs up, drops the handler.     *)
Deadline == req.pc # "idle" /\ Fails /\ UNCHANGED store

Handler ==
    \/ set_endpoints \/ report_stats \/ device_gateway \/ watch_device \/ device_config
    \/ get_device_settings \/ get_device_stats \/ list_device_routes \/ resolve_name
    \/ device_advertise \/ device_unadvertise \/ revoke \/ rename_device
    \/ set_device_settings \/ advertise_route \/ approve_route \/ delete_route
    \/ delete_network \/ enroll \/ record_audit \/ Reply

ApiInit ==
    /\ dev = [d \in Devices |-> [status |-> "absent", token |-> None, route |-> "none", stats |-> FALSE]]
    /\ nets = {NetOf[d] : d \in Devices}
    /\ tokens = 0 /\ owner = [t \in 1..MaxTokens |-> None] /\ retired = {}
    /\ req = Free

ApiNext ==
    \/ \E op \in Ops, b \in {None, Master} \cup Sessions \cup 1..tokens, d \in Devices : Arrive(op, b, d)
    \/ require_device \/ require_device_read \/ MatchToken \/ KnownToken
    \/ MatchNetwork \/ require_admin \/ Handler \/ Deadline \/ Elsewhere

ApiSpec == ApiInit /\ [][ApiNext]_apiVars

-----------------------------------------------------------------------------
ApiTypeOK ==
    /\ dev \in [Devices -> [status : {"absent", "active", "revoked"}, token : {None} \cup 1..MaxTokens,
                            route : {"none", "pending", "approved"}, stats : BOOLEAN]]
    /\ nets \subseteq {NetOf[d] : d \in Devices}
    /\ tokens \in 0..MaxTokens /\ owner \in [1..MaxTokens -> Devices \cup {None}] /\ retired \subseteq 1..MaxTokens
    /\ req.pc \in {"idle", "device", "read", "match", "known", "admin", "run", "audit", "ok"}
    /\ req.op \in Ops \cup {None} /\ req.dev \in Devices \cup {None}

(* A device's token serves requests about that device only, and none that   *)
(* came in after the token was replaced or revoked, however enrolment,      *)
(* revocation and the deletion of the network interleave with the handler's *)
(* reads (require_device, require_device_read, device_route_change).        *)
TokenConfined ==
    req.pc = "ok" /\ req.by \in 1..MaxTokens /\ req.op \in DeviceOps \cup ReadOps \cup OwnOps =>
        owner[req.by] = req.dev /\ ~req.stale

(* No route and no row of statistics outlives its network, though a report  *)
(* may have been authorised before delete_network ran (lock_active_device). *)
RowsHaveNetwork ==
    \A d \in Devices : NetOf[d] \notin nets => dev[d].route = "none" /\ ~dev[d].stats
=============================================================================
