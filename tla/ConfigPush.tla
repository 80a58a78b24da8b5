----------------------------- MODULE ConfigPush -----------------------------
(***************************************************************************)
(* How a change of the control database reaches the device that watches its *)
(* configuration: handlers commit a change, announce its epoch on the       *)
(* network's watch channel, and the watch loop of a WebSocket reads a fresh *)
(* configuration part by part, checks the bearer again and sends it.        *)
(* The parts of a configuration are counted by version.                     *)
(***************************************************************************)
EXTENDS Naturals, Sequences, Functions, TLAPS

CONSTANTS Handlers,    \* requests that change something, each used again and again
          MaxChanges, MaxDrops

(* The order in which device_config reads, after the epoch of the network.  *)
ReadOrder == <<"routes", "settings", "devices", "relays">>
Parts == Range(ReadOrder)

(* These are changed in the transaction that bumps the epoch (enroll_once,  *)
(* revoke_device_once, set_endpoints_once, update_relay_once); the others in *)
(* a statement of their own before it (approve_route, set_device_settings). *)
Atomic == {"devices", "relays"}

VARIABLES content,  \* part -> version in the database
          epoch,    \* network.config_epoch
          token,    \* device.auth_token, counted by rotation; the watcher holds 0
          active,   \* status of the watching device
          handler,  \* handler -> [pc, part, e]
          chan,     \* value of the network's watch channel
          watcher,  \* [pc, next, cfg, unseen]
          pushed,   \* the last configuration sent
          log,      \* <<epoch, part, version>> of every announced change
          fence,    \* content when the token was rotated
          changes, drops

pushVars == <<content, epoch, token, active, handler, chan, watcher, pushed, log, fence, changes, drops>>

Nothing == [p \in Parts |-> 0]
Idle == [pc |-> "idle", part |-> "none", e |-> 0]

Announced(e, p, v) == log' = log \cup {<<e, p, v>>}

(* A handler commits a change; a part that is not Atomic still has its      *)
(* epoch to bump.                                                           *)
Change(h, p) ==
    /\ handler[h].pc = "idle" /\ changes < MaxChanges
    /\ changes' = changes + 1
    /\ content' = [content EXCEPT ![p] = @ + 1]
    /\ IF p \in Atomic
       THEN /\ epoch' = epoch + 1 /\ Announced(epoch', p, content'[p])
            /\ handler' = [handler EXCEPT ![h] = [pc |-> "read", part |-> p, e |-> 0]]
       ELSE /\ handler' = [handler EXCEPT ![h] = [pc |-> "bump", part |-> p, e |-> content'[p]]]
            /\ UNCHANGED <<epoch, log>>
    /\ UNCHANGED <<token, active, chan, watcher, pushed, fence, drops>>

(* delete_route, of a route that is not approved when it is read: nothing   *)
(* will be announced.  The row is deleted whatever it is by then, so a      *)
(* device loses a route that was approved in between.                       *)
DeleteRead(h) ==
    /\ handler[h].pc = "idle"
    /\ handler' = [handler EXCEPT ![h] = [pc |-> "delete", part |-> "routes", e |-> content["routes"]]]
    /\ UNCHANGED <<content, epoch, token, active, chan, watcher, pushed, log, fence, changes, drops>>

DeleteRow(h) ==
    /\ handler[h].pc = "delete"
    /\ \/ UNCHANGED <<content, changes>>
       \/ /\ content["routes"] > handler[h].e /\ changes < MaxChanges
          /\ changes' = changes + 1
          /\ content' = [content EXCEPT !["routes"] = @ + 1]
    /\ handler' = [handler EXCEPT ![h] = Idle]
    /\ UNCHANGED <<epoch, token, active, chan, watcher, pushed, log, fence, drops>>

(* The device enrolls again with its key: it gets a new token; no epoch is  *)
(* bumped, but notify is called.                                            *)
Rotate(h) ==
    /\ handler[h].pc = "idle" /\ changes < MaxChanges /\ token = 0 /\ active
    /\ changes' = changes + 1 /\ token' = 1
    /\ fence' = content
    /\ handler' = [handler EXCEPT ![h] = [pc |-> "read", part |-> "devices", e |-> 0]]
    /\ UNCHANGED <<content, epoch, active, chan, watcher, pushed, log, drops>>

(* The watching device is revoked.                                          *)
Revoked(h) ==
    /\ handler[h].pc = "idle" /\ changes < MaxChanges /\ active
    /\ changes' = changes + 1 /\ active' = FALSE /\ epoch' = epoch + 1
    /\ handler' = [handler EXCEPT ![h] = [pc |-> "read", part |-> "devices", e |-> 0]]
    /\ UNCHANGED <<content, token, chan, watcher, pushed, log, fence, drops>>

(* bump_and_notify, first statement.                                        *)
Bump(h) ==
    /\ handler[h].pc = "bump"
    /\ epoch' = epoch + 1
    /\ Announced(epoch', handler[h].part, handler[h].e)
    /\ handler' = [handler EXCEPT ![h].pc = "read"]
    /\ UNCHANGED <<content, token, active, chan, watcher, pushed, fence, changes, drops>>

(* get_network of bump_and_notify and of notify.                            *)
ReadEpoch(h) ==
    /\ handler[h].pc = "read"
    /\ handler' = [handler EXCEPT ![h].pc = "send", ![h].e = epoch]
    /\ UNCHANGED <<content, epoch, token, active, chan, watcher, pushed, log, fence, changes, drops>>

(* bump_and_notify sends whatever it read; notify sends only a newer epoch. *)
Notify(h) ==
    /\ handler[h].pc = "send"
    /\ IF handler[h].part \in Atomic /\ chan >= handler[h].e
       THEN UNCHANGED <<chan, watcher>>
       ELSE /\ chan' = handler[h].e
            /\ watcher' = [watcher EXCEPT !.unseen = watcher.pc # "off"]
    /\ handler' = [handler EXCEPT ![h] = Idle]
    /\ UNCHANGED <<content, epoch, token, active, pushed, log, fence, changes, drops>>

(* The request's deadline drops the handler, its notification fails, or the *)
(* change was made by another instance of the server.                       *)
Drop(h) ==
    /\ handler[h].pc # "idle" /\ drops < MaxDrops
    /\ drops' = drops + 1
    /\ handler' = [handler EXCEPT ![h] = Idle]
    /\ UNCHANGED <<content, epoch, token, active, chan, watcher, pushed, log, fence, changes>>

-----------------------------------------------------------------------------
(* sql_watch_device: the bearer is checked, the receiver subscribed (its    *)
(* current value counts as seen), then the first configuration is sent.     *)
Watch ==
    /\ watcher.pc = "off" /\ token = 0 /\ active
    /\ watcher' = [watcher EXCEPT !.pc = "me"]
    /\ UNCHANGED <<content, epoch, token, active, handler, chan, pushed, log, fence, changes, drops>>

(* The select of sql_watch_loop_with_idle: a changed channel or a heartbeat.*)
Wake ==
    /\ watcher.pc = "wait"
    /\ watcher' = [watcher EXCEPT !.pc = "me", !.unseen = FALSE]
    /\ UNCHANGED <<content, epoch, token, active, handler, chan, pushed, log, fence, changes, drops>>
Changed == watcher.unseen /\ Wake

\* Mutant of Heartbeat: it only keeps the socket alive.
BugHeartbeat == watcher.pc = "wait" /\ UNCHANGED pushVars

(* A heartbeat leaves a change that was signalled for the next turn.        *)
Heartbeat ==
    /\ watcher.pc = "wait"
    /\ watcher' = [watcher EXCEPT !.pc = "me"]
    /\ UNCHANGED <<content, epoch, token, active, handler, chan, pushed, log, fence, changes, drops>>

(* device_config: the device, then the epoch of its network ...             *)
ReadNetwork ==
    /\ watcher.pc \in {"me", "epoch"}
    /\ watcher' = IF watcher.pc = "me" THEN [watcher EXCEPT !.pc = IF active THEN "epoch" ELSE "ended"]
                  ELSE [watcher EXCEPT !.pc = "read", !.next = 1, !.cfg.epoch = epoch]
    /\ UNCHANGED <<content, epoch, token, active, handler, chan, pushed, log, fence, changes, drops>>

\* Mutant of ReadPart: the epoch is read with the last part.
BugReadPart ==
    /\ watcher.pc = "read"
    /\ LET p == ReadOrder[watcher.next]
       IN  watcher' = [watcher EXCEPT !.cfg.content[p] = content[p], !.cfg.epoch = epoch, !.next = @ + 1,
                                      !.pc = IF watcher.next = Len(ReadOrder) THEN "check" ELSE @]
    /\ UNCHANGED <<content, epoch, token, active, handler, chan, pushed, log, fence, changes, drops>>

(* ... then part after part.                                                *)
ReadPart ==
    /\ watcher.pc = "read"
    /\ LET p == ReadOrder[watcher.next]
       IN  watcher' = [watcher EXCEPT !.cfg.content[p] = content[p], !.next = @ + 1,
                                      !.pc = IF watcher.next = Len(ReadOrder) THEN "check" ELSE @]
    /\ UNCHANGED <<content, epoch, token, active, handler, chan, pushed, log, fence, changes, drops>>

(* sql_send_config_inner: the bearer must still be the device's token, of   *)
(* which a revoked device has none.                                         *)
CheckToken ==
    /\ watcher.pc = "check"
    /\ watcher' = [watcher EXCEPT !.pc = IF token = 0 /\ active THEN "send" ELSE "ended"]
    /\ UNCHANGED <<content, epoch, token, active, handler, chan, pushed, log, fence, changes, drops>>

Push ==
    /\ watcher.pc = "send"
    /\ pushed' = watcher.cfg
    /\ watcher' = [watcher EXCEPT !.pc = "wait"]
    /\ UNCHANGED <<content, epoch, token, active, handler, chan, log, fence, changes, drops>>

(* The socket is closed or silent, or a push takes more than ten seconds.   *)
Hangup ==
    /\ watcher.pc \notin {"off", "ended"} /\ drops < MaxDrops
    /\ drops' = drops + 1
    /\ watcher' = [watcher EXCEPT !.pc = "ended"]
    /\ UNCHANGED <<content, epoch, token, active, handler, chan, pushed, log, fence, changes>>

-----------------------------------------------------------------------------
PushInit ==
    /\ content = Nothing /\ epoch = 0 /\ token = 0 /\ active = TRUE
    /\ handler = [h \in Handlers |-> Idle]
    /\ chan = 0
    /\ watcher = [pc |-> "off", next |-> 1, cfg |-> [epoch |-> 0, content |-> Nothing], unseen |-> FALSE]
    /\ pushed = [epoch |-> 0, content |-> Nothing]
    /\ log = {} /\ fence = Nothing /\ changes = 0 /\ drops = 0

Handle(h) == Bump(h) \/ ReadEpoch(h) \/ Notify(h) \/ DeleteRow(h)
Read == ReadNetwork \/ ReadPart \/ CheckToken \/ Push

OfHandler(h) ==
    \/ \E p \in Parts : Change(h, p)
    \/ DeleteRead(h) \/ Rotate(h) \/ Revoked(h) \/ Handle(h) \/ Drop(h)

PushNext ==
    \/ \E h \in Handlers : OfHandler(h)
    \/ Watch \/ Changed \/ Heartbeat \/ Read \/ Hangup

(* Handlers and the watch loop run, and the heartbeat's interval ticks.     *)
PushFair == WF_pushVars(Heartbeat) /\ WF_pushVars(Read) /\ \A h \in Handlers : WF_pushVars(Handle(h))

PushSpec == PushInit /\ [][PushNext]_pushVars /\ PushFair

-----------------------------------------------------------------------------
Config == [epoch : 0..MaxChanges, content : [Parts -> 0..MaxChanges]]
PushTypeOK ==
    /\ content \in [Parts -> 0..MaxChanges] /\ epoch \in 0..MaxChanges /\ chan \in 0..MaxChanges
    /\ handler \in [Handlers -> [pc : {"idle", "bump", "read", "send", "delete"}, part : Parts \cup {"none"}, e : 0..MaxChanges]]
    /\ watcher \in [pc : {"off", "me", "epoch", "read", "check", "send", "wait", "ended"},
                    next : 1..(Len(ReadOrder) + 1), cfg : Config, unseen : BOOLEAN]
    /\ pushed \in Config

(* A configuration that carries epoch e holds every change that was         *)
(* announced with an epoch up to e, whatever committed between its reads    *)
(* (SqlStore::device_config reads the epoch before every part).             *)
EpochCovers ==
    \A a \in log : a[1] <= pushed.epoch => pushed.content[a[2]] >= a[3]

(* Nothing that was committed after the device's token was rotated is sent  *)
(* on a socket opened with the old token (sql_send_config_inner checks the  *)
(* bearer after the snapshot).                                              *)
CredentialFenced ==
    token # 0 => \A p \in Parts : pushed.content[p] <= fence[p]

(* Unless a handler was dropped, a loop that waits without a signal, while  *)
(* no handler has one to give, has sent what the database holds, though     *)
(* bump_and_notify may set the channel back to an older epoch.  Of routes   *)
(* it has sent every change that was announced: one that was approved while *)
(* delete_route took it for unapproved goes without, until the heartbeat.   *)
WokenOrCurrent ==
    (/\ drops = 0 /\ watcher.pc = "wait" /\ ~watcher.unseen
     /\ \A h \in Handlers : handler[h].pc = "idle"
     /\ token = 0 /\ active)
    => /\ \A p \in Parts \ {"routes"} : pushed.content[p] = content[p]
       /\ \A a \in log : pushed.content[a[2]] >= a[3]

(* While the watch lasts, the device ends up with what the database holds,  *)
(* even when the announcement of a change was lost (the heartbeat of        *)
(* sql_watch_loop_with_idle).                                               *)
UpToDate == watcher.pc \in {"off", "ended"} \/ pushed.content = content

-----------------------------------------------------------------------------
(* The proof that the properties hold for any number of handlers and of       *)
(* changes: the inductive invariant PInv, a lemma for each of its parts, and  *)
(* what follows from it.                                                      *)

(* Types, without the bounds of an instance. *)
Versions == [Parts -> Nat]
Types ==
    /\ content \in Versions /\ epoch \in Nat /\ fence \in Versions /\ token \in Nat
    /\ chan \in Nat /\ drops \in Nat
    /\ handler \in [Handlers -> [pc : {"idle", "bump", "read", "send", "delete"}, part : Parts \cup {"none"}, e : Nat]]
    /\ watcher \in [pc : {"off", "me", "epoch", "read", "check", "send", "wait", "ended"},
                    next : Nat, cfg : [epoch : Nat, content : Versions], unseen : BOOLEAN]
    /\ pushed \in [epoch : Nat, content : Versions]
    /\ log \subseteq Nat \X Parts \X Nat

(* An announced change is in the database and its epoch has been reached; a change
   still to be announced is in the database too. *)
LogTrue ==
    /\ \A a \in log : a[1] <= epoch /\ a[3] <= content[a[2]]
    /\ \A h \in Handlers : handler[h].pc = "bump" =>
           handler[h].part \in Parts \ Atomic /\ handler[h].e <= content[handler[h].part]

(* The parts read so far hold what was announced up to the epoch read before them. *)
ReadSoFar ==
    /\ watcher.cfg.epoch <= epoch /\ pushed.epoch <= epoch
    /\ watcher.pc = "read" => watcher.next \in 1..4
    /\ \A a \in log : a[1] <= watcher.cfg.epoch =>
         /\ watcher.pc \in {"check", "send"} => watcher.cfg.content[a[2]] >= a[3]
         /\ watcher.pc = "read" => \A i \in 1..4 :
              i < watcher.next /\ ReadOrder[i] = a[2] => watcher.cfg.content[a[2]] >= a[3]
    /\ EpochCovers

(* Nothing read or sent is newer than the database, or than the fence once the token was
   rotated, with the check of the bearer in between. *)
Behind ==
    /\ token = 0 => \A p \in Parts :
         watcher.cfg.content[p] <= content[p] /\ pushed.content[p] <= content[p]
    /\ token # 0 /\ watcher.pc = "send" => \A p \in Parts : watcher.cfg.content[p] <= fence[p]
    /\ CredentialFenced

(* The parts that the snapshot under way, or the last one sent, has read. *)
Taken ==
    IF watcher.pc \in {"check", "send", "wait"} THEN Parts
    ELSE {p \in Parts : watcher.pc = "read" /\ \E i \in 1..4 : i < watcher.next /\ ReadOrder[i] = p}

(* A handler whose notification will be given: bump_and_notify always sends, notify when
   the channel is behind the epoch that it read or will read. *)
Signals(h) ==
    /\ handler[h].pc \notin {"idle", "delete"}
    /\ \/ handler[h].part \notin Atomic
       \/ handler[h].pc = "read" /\ chan < epoch
       \/ handler[h].pc = "send" /\ chan < handler[h].e

(* The channel, and what a handler is about to send to it, is an epoch that was reached. *)
Channel == chan <= epoch /\ \A h \in Handlers : handler[h].pc = "send" => handler[h].e <= epoch

(* A snapshot's part is that of the database; of routes it has what was announced. *)
Fresh(p) ==
    IF p = "routes" THEN \A a \in log : a[2] = p => watcher.cfg.content[p] >= a[3]
    ELSE watcher.cfg.content[p] = content[p]

(* What was read and has changed since is signalled, or will be. *)
Awaited ==
    /\ Channel
    /\ watcher.pc = "wait" => pushed = watcher.cfg
    /\ drops = 0 /\ ~watcher.unseen =>
         \A p \in Taken : Fresh(p) \/ \E h \in Handlers : Signals(h)

PInv == Types /\ LogTrue /\ ReadSoFar /\ Behind /\ Awaited

(* device_config reads each part once. *)
LEMMA Order ==
    /\ Len(ReadOrder) = 4
    /\ \A i \in 1..4 : ReadOrder[i] \in Parts
    /\ \A p \in Parts : \E i \in 1..4 : ReadOrder[i] = p
    /\ Parts = {"routes", "settings", "devices", "relays"}
<1>1. DOMAIN ReadOrder = 1..4 /\ Len(ReadOrder) = 4
  BY DEF ReadOrder
<1>2. /\ ReadOrder[1] = "routes" /\ ReadOrder[2] = "settings"
      /\ ReadOrder[3] = "devices" /\ ReadOrder[4] = "relays"
  BY DEF ReadOrder
<1>3. Parts = {ReadOrder[i] : i \in 1..4}
  BY <1>1 DEF Parts, Range
<1>4. 1..4 = {1, 2, 3, 4}
  OBVIOUS
<1> QED BY <1>1, <1>2, <1>3, <1>4

(* Every step keeps the types. *)
LEMMA TypesStep ==
    ASSUME PInv, PushNext
    PROVE  Types'
<1> USE DEF Types, Versions
<1>1. Types
  BY DEF PInv
<1>2. ASSUME NEW h \in Handlers, NEW p \in Parts, Change(h, p) PROVE Types'
  <2>1. content' \in Versions /\ content'[p] \in Nat
    BY <1>1, <1>2 DEF Change
  <2>2. UNCHANGED <<fence, token, chan, drops, watcher, pushed>>
    BY <1>2 DEF Change
  <2>3. CASE p \in Atomic
    BY <1>1, <1>2, <2>1, <2>2, <2>3 DEF Change, Announced
  <2>4. CASE p \notin Atomic
    BY <1>1, <1>2, <2>1, <2>2, <2>4 DEF Change
  <2> QED BY <2>3, <2>4
<1>3. ASSUME NEW h \in Handlers, Rotate(h) PROVE Types'
  BY <1>1, <1>3, Order DEF Rotate
<1>4. ASSUME NEW h \in Handlers, Revoked(h) PROVE Types'
  BY <1>1, <1>4, Order DEF Revoked
<1>5. ASSUME NEW h \in Handlers, Bump(h) PROVE Types'
  <2>1. handler[h].part \in Parts
    BY <1>5 DEF PInv, LogTrue, Bump
  <2>2. log' \subseteq Nat \X Parts \X Nat
    BY <1>1, <1>5, <2>1 DEF Bump, Announced
  <2> QED BY <1>1, <1>5, <2>2 DEF Bump
<1>6. ASSUME NEW h \in Handlers, ReadEpoch(h) PROVE Types'
  <2>1. handler' = [handler EXCEPT ![h] = [handler[h] EXCEPT !.pc = "send", !.e = epoch]]
    BY <1>1, <1>6 DEF ReadEpoch
  <2> QED BY <1>1, <1>6, <2>1 DEF ReadEpoch
<1>7. ASSUME NEW h \in Handlers, Notify(h) PROVE Types'
  <2>1. handler' \in [Handlers -> [pc : {"idle", "bump", "read", "send", "delete"}, part : Parts \cup {"none"}, e : Nat]]
    BY <1>1, <1>7 DEF Notify, Idle
  <2>2. CASE UNCHANGED <<chan, watcher>>
    BY <1>1, <1>7, <2>1, <2>2 DEF Notify
  <2>3. CASE chan' = handler[h].e /\ watcher' = [watcher EXCEPT !.unseen = watcher.pc # "off"]
    <3>1. watcher' \in [pc : {"off", "me", "epoch", "read", "check", "send", "wait", "ended"},
                        next : Nat, cfg : [epoch : Nat, content : Versions], unseen : BOOLEAN]
      BY <1>1, <2>3
    <3>2. chan' \in Nat
      BY <1>1, <2>3
    <3> QED BY <1>1, <1>7, <2>1, <3>1, <3>2 DEF Notify
  <2> QED BY <1>7, <2>2, <2>3 DEF Notify
<1>8. ASSUME NEW h \in Handlers, Drop(h) PROVE Types'
  BY <1>1, <1>8 DEF Drop, Idle
<1>17. ASSUME NEW h \in Handlers, DeleteRead(h) PROVE Types'
  BY <1>1, <1>17, Order DEF DeleteRead
<1>18. ASSUME NEW h \in Handlers, DeleteRow(h) PROVE Types'
  <2>1. content' \in Versions
    BY <1>1, <1>18, Order DEF DeleteRow
  <2> QED BY <1>1, <1>18, <2>1 DEF DeleteRow, Idle
<1>9. CASE Watch
  BY <1>1, <1>9 DEF Watch
<1>10. CASE Changed
  BY <1>1, <1>10 DEF Changed, Wake
<1>11. CASE Heartbeat
  BY <1>1, <1>11 DEF Heartbeat
<1>12. CASE ReadNetwork
  BY <1>1, <1>12 DEF ReadNetwork
<1>13. CASE ReadPart
  <2> DEFINE p == ReadOrder[watcher.next]
             w == [watcher.cfg.content EXCEPT ![p] = content[p]]
             c == [watcher.cfg EXCEPT !.content = w]
  <2>1. watcher.next \in 1..4 /\ p \in Parts
    BY <1>13, Order DEF PInv, ReadSoFar, ReadPart
  <2>2. w \in Versions
    BY <1>1, <2>1
  <2>3. c \in [epoch : Nat, content : Versions]
    BY <1>1, <2>2
  <2>4. watcher' = [watcher EXCEPT !.cfg = c, !.next = @ + 1,
                                   !.pc = IF watcher.next = Len(ReadOrder) THEN "check" ELSE @]
    BY <1>13 DEF ReadPart
  <2>5. watcher' \in [pc : {"off", "me", "epoch", "read", "check", "send", "wait", "ended"},
                      next : Nat, cfg : [epoch : Nat, content : Versions], unseen : BOOLEAN]
    <3>1. watcher \in [pc : {"off", "me", "epoch", "read", "check", "send", "wait", "ended"},
                       next : Nat, cfg : [epoch : Nat, content : Versions], unseen : BOOLEAN]
          /\ watcher.pc = "read"
      BY <1>1, <1>13 DEF ReadPart
    <3> DEFINE pc == IF watcher.next = Len(ReadOrder) THEN "check" ELSE watcher.pc
    <3>2. watcher.next + 1 \in Nat /\ pc \in {"check", "read"}
      BY <3>1
    <3> HIDE DEF c, Versions, Types, pc
    <3>3. watcher' = [watcher EXCEPT !.cfg = c, !.next = watcher.next + 1, !.pc = pc]
      BY <2>4, <3>1 DEF pc
    <3>4. watcher' = [pc |-> pc, next |-> watcher.next + 1, cfg |-> c, unseen |-> watcher.unseen]
      BY <3>1, <3>3
    <3> QED BY <2>3, <3>1, <3>2, <3>4
  <2> QED BY <1>1, <1>13, <2>5 DEF ReadPart
<1>14. CASE CheckToken
  BY <1>1, <1>14 DEF CheckToken
<1>15. CASE Push
  BY <1>1, <1>15 DEF Push
<1>16. CASE Hangup
  BY <1>1, <1>16 DEF Hangup
<1> QED BY <1>2, <1>3, <1>4, <1>5, <1>6, <1>7, <1>8, <1>9, <1>10, <1>11, <1>12, <1>13, <1>14, <1>15,
            <1>16, <1>17, <1>18 DEF PushNext, OfHandler, Handle, Read

(* The database and its log only grow; what is announced has the new epoch. *)
Grown ==
    /\ epoch <= epoch' /\ \A p \in Parts : content[p] <= content'[p]
    /\ log \subseteq log'
    /\ \A a \in log' \ log : a[1] = epoch + 1 /\ epoch' = epoch + 1
                             /\ a[2] \in Parts /\ a[3] <= content'[a[2]]

(* Every step leaves the database, its epoch and what was announced as they are or adds
   to them. *)
LEMMA Grows ==
    ASSUME PInv, PushNext
    PROVE  Grown
<1> USE DEF Grown
<1>1. /\ content \in [Parts -> Nat] /\ epoch \in Nat
      /\ \A h \in Handlers : handler[h].pc = "bump" =>
           handler[h].part \in Parts /\ handler[h].e <= content[handler[h].part]
  BY DEF PInv, Types, Versions, LogTrue
<1>2. ASSUME NEW h \in Handlers, NEW p \in Parts, Change(h, p) PROVE Grown
  <2>1. content' \in [Parts -> Nat] /\ content'[p] = content[p] + 1
        /\ \A q \in Parts : q # p => content'[q] = content[q]
    BY <1>1, <1>2 DEF Change
  <2>2. CASE p \in Atomic
    BY <1>1, <1>2, <2>1, <2>2 DEF Change, Announced
  <2>3. CASE p \notin Atomic
    BY <1>1, <1>2, <2>1, <2>3 DEF Change
  <2> QED BY <2>2, <2>3
<1>3. ASSUME NEW h \in Handlers, Bump(h) PROVE Grown
  BY <1>1, <1>3 DEF Bump, Announced
<1>4. ASSUME NEW h \in Handlers,
             DeleteRead(h) \/ Rotate(h) \/ Revoked(h) \/ ReadEpoch(h) \/ Notify(h) \/ Drop(h)
      PROVE  Grown
  BY <1>1, <1>4 DEF DeleteRead, Rotate, Revoked, ReadEpoch, Notify, Drop
<1>6. ASSUME NEW h \in Handlers, DeleteRow(h) PROVE Grown
  <2>1. \A q \in Parts : content[q] <= content'[q]
    BY <1>1, <1>6, Order DEF DeleteRow
  <2> QED BY <1>1, <1>6, <2>1 DEF DeleteRow
<1>5. CASE Watch \/ Changed \/ Heartbeat \/ Read \/ Hangup
  BY <1>1, <1>5 DEF Watch, Changed, Wake, Heartbeat, Read, ReadNetwork, ReadPart, CheckToken, Push, Hangup
<1> QED BY <1>2, <1>3, <1>4, <1>5, <1>6 DEF PushNext, OfHandler, Handle

(* Handlers leave the watch's snapshot and what was sent alone. *)
SnapshotKept ==
    /\ watcher'.pc = watcher.pc /\ watcher'.next = watcher.next /\ watcher'.cfg = watcher.cfg
    /\ pushed' = pushed

(* A handler touches only the signal of the watch. *)
LEMMA HandlersApart ==
    ASSUME PInv, NEW h \in Handlers, OfHandler(h)
    PROVE  SnapshotKept
<1>1. watcher \in [pc : {"off", "me", "epoch", "read", "check", "send", "wait", "ended"},
                    next : Nat, cfg : [epoch : Nat, content : Versions], unseen : BOOLEAN]
  BY DEF PInv, Types
<1>2. CASE Notify(h)
  BY <1>1, <1>2 DEF Notify, SnapshotKept
<1>3. CASE ~Notify(h)
  BY <1>3 DEF OfHandler, Handle, Change, DeleteRead, DeleteRow, Rotate, Revoked, Bump, ReadEpoch, Drop,
              SnapshotKept
<1> QED BY <1>2, <1>3

(* What is announced is in the database (bump, bump_and_notify). *)
LEMMA LogStep ==
    ASSUME PInv, PushNext, Types'
    PROVE  LogTrue'
<1>1. Grown
  BY Grows
<1>2. \A a \in log' : a[1] <= epoch' /\ a[3] <= content'[a[2]]
  <2> SUFFICES ASSUME NEW a \in log' PROVE a[1] <= epoch' /\ a[3] <= content'[a[2]]
    OBVIOUS
  <2>1. CASE a \in log
    <3>1. a[1] \in Nat /\ a[2] \in Parts /\ a[3] \in Nat /\ a[1] <= epoch /\ a[3] <= content[a[2]]
      BY <2>1 DEF PInv, Types, LogTrue
    <3>2. epoch \in Nat /\ epoch' \in Nat /\ content[a[2]] \in Nat /\ content'[a[2]] \in Nat
      BY <3>1 DEF PInv, Types, Versions
    <3> QED BY <1>1, <3>1, <3>2 DEF Grown
  <2>2. CASE a \notin log
    BY <1>1, <2>2 DEF Grown, PInv, Types
  <2> QED BY <2>1, <2>2
<1>3. ASSUME NEW k \in Handlers, handler'[k].pc = "bump"
      PROVE  handler'[k].part \in Parts \ Atomic /\ handler'[k].e <= content'[handler'[k].part]
  <2>1. handler \in [Handlers -> [pc : {"idle", "bump", "read", "send", "delete"}, part : Parts \cup {"none"}, e : Nat]]
        /\ content \in [Parts -> Nat] /\ content' \in [Parts -> Nat]
    BY DEF PInv, Types, Versions
  <2>2. CASE handler'[k] = handler[k]
    <3>1. handler[k].part \in Parts \ Atomic /\ handler[k].e <= content[handler[k].part]
      BY <1>3, <2>2 DEF PInv, LogTrue
    <3>2. handler[k].e \in Nat /\ content[handler[k].part] \in Nat /\ content'[handler[k].part] \in Nat
      BY <2>1, <3>1
    <3> QED BY <1>1, <2>2, <3>1, <3>2 DEF Grown
  <2>3. CASE handler'[k] # handler[k]
    <3>1. ASSUME NEW h \in Handlers, NEW p \in Parts, Change(h, p)
          PROVE  handler'[k].part \in Parts \ Atomic /\ handler'[k].e <= content'[handler'[k].part]
      <4>1. h = k
        BY <2>1, <2>3, <3>1 DEF Change
      <4>2. p \notin Atomic
        BY <1>3, <2>1, <3>1, <4>1 DEF Change
      <4>3. handler'[k].part = p /\ handler'[k].e = content'[p]
        BY <2>1, <3>1, <4>1, <4>2 DEF Change
      <4> QED BY <2>1, <4>2, <4>3
    <3>2. ASSUME NEW h \in Handlers, DeleteRead(h) \/ Rotate(h) \/ Revoked(h) \/ Handle(h) \/ Drop(h)
          PROVE  FALSE
      <4>1. h = k
        BY <2>1, <2>3, <3>2 DEF DeleteRead, DeleteRow, Rotate, Revoked, Handle, Bump, ReadEpoch, Notify, Drop
      <4> QED BY <1>3, <2>1, <3>2, <4>1
              DEF DeleteRead, DeleteRow, Rotate, Revoked, Handle, Bump, ReadEpoch, Notify, Drop, Idle
    <3>3. CASE Watch \/ Changed \/ Heartbeat \/ Read \/ Hangup
      BY <2>3, <3>3 DEF Watch, Changed, Wake, Heartbeat, Read, ReadNetwork, ReadPart, CheckToken, Push, Hangup
    <3> QED BY <3>1, <3>2, <3>3 DEF PushNext, OfHandler
  <2> QED BY <2>2, <2>3
<1> QED BY <1>2, <1>3 DEF LogTrue

(* What device_config has read covers what was announced up to its epoch. *)
LEMMA ReadStep ==
    ASSUME PInv, PushNext, Types'
    PROVE  ReadSoFar'
<1>1. /\ epoch \in Nat /\ epoch' \in Nat /\ content \in [Parts -> Nat]
      /\ watcher.cfg.epoch \in Nat /\ pushed.epoch \in Nat /\ watcher.next \in Nat
      /\ watcher.cfg.content \in [Parts -> Nat] /\ pushed.content \in [Parts -> Nat]
      /\ \A a \in log : a[1] \in Nat /\ a[2] \in Parts /\ a[3] \in Nat
      /\ watcher \in [pc : {"off", "me", "epoch", "read", "check", "send", "wait", "ended"},
                       next : Nat, cfg : [epoch : Nat, content : Versions], unseen : BOOLEAN]
  BY DEF PInv, Types, Versions
<1>2. ReadSoFar /\ LogTrue
  BY DEF PInv
<1>3. ASSUME NEW h \in Handlers, OfHandler(h)
      PROVE  ReadSoFar'
  <2>1. SnapshotKept
    BY <1>3, HandlersApart
  <2>2. Grown
    BY Grows
  <2>3. \A a \in log' : a[1] <= watcher.cfg.epoch \/ a[1] <= pushed.epoch => a \in log
    BY <1>1, <1>2, <2>2 DEF Grown, ReadSoFar
  <2>4. watcher.cfg.epoch <= epoch' /\ pushed.epoch <= epoch'
    BY <1>1, <1>2, <2>2 DEF Grown, ReadSoFar
  <2>5. EpochCovers'
    BY <1>2, <2>1, <2>3 DEF SnapshotKept, ReadSoFar, EpochCovers
  <2> QED BY <1>2, <2>1, <2>3, <2>4, <2>5 DEF SnapshotKept, ReadSoFar
<1>4. CASE Watch \/ Changed \/ Heartbeat \/ CheckToken \/ Hangup
  <2>1. /\ watcher'.cfg = watcher.cfg /\ UNCHANGED <<pushed, log, epoch>>
        /\ watcher'.pc \notin {"read", "check"}
        /\ watcher'.pc = "send" => watcher.pc = "check"
    BY <1>1, <1>4 DEF Watch, Changed, Wake, Heartbeat, CheckToken, Hangup
  <2> QED BY <1>2, <2>1 DEF ReadSoFar, EpochCovers
<1>5. CASE ReadNetwork
  <2>1. UNCHANGED <<pushed, log, epoch>>
    BY <1>5 DEF ReadNetwork
  <2>2. CASE watcher.pc = "me"
    <3>1. watcher'.cfg = watcher.cfg /\ watcher'.pc \in {"epoch", "ended"}
      BY <1>1, <1>5, <2>2 DEF ReadNetwork
    <3> QED BY <1>2, <2>1, <3>1 DEF ReadSoFar, EpochCovers
  <2>3. CASE watcher.pc = "epoch"
    <3>1. watcher'.cfg.epoch = epoch /\ watcher'.pc = "read" /\ watcher'.next = 1
      BY <1>1, <1>5, <2>3 DEF ReadNetwork
    <3> QED BY <1>1, <1>2, <2>1, <3>1 DEF ReadSoFar, EpochCovers
  <2> QED BY <1>5, <2>2, <2>3 DEF ReadNetwork
<1>6. CASE ReadPart
  <2> DEFINE p == ReadOrder[watcher.next]
  <2>1. UNCHANGED <<pushed, log, epoch, content>> /\ watcher.pc = "read" /\ watcher.next \in 1..4
    BY <1>2, <1>6 DEF ReadPart, ReadSoFar
  <2>2. p \in Parts
    BY <2>1, Order
  <2>3. /\ watcher'.cfg.epoch = watcher.cfg.epoch
        /\ watcher'.cfg.content = [watcher.cfg.content EXCEPT ![p] = content[p]]
        /\ watcher'.next = watcher.next + 1
        /\ watcher'.pc = IF watcher.next = 4 THEN "check" ELSE "read"
    BY <1>1, <1>6, <2>1, Order DEF ReadPart
  <2>4. watcher'.cfg.content[p] = content[p]
        /\ \A q \in Parts : q # p => watcher'.cfg.content[q] = watcher.cfg.content[q]
    BY <1>1, <2>2, <2>3
  <2>5. ASSUME NEW a \in log, a[1] <= watcher.cfg.epoch, NEW i \in 1..4,
               i < watcher.next + 1, ReadOrder[i] = a[2]
        PROVE  watcher'.cfg.content[a[2]] >= a[3]
    <3>1. CASE a[2] = p
      BY <1>1, <1>2, <2>4, <2>5, <3>1 DEF LogTrue
    <3>2. CASE a[2] # p
      <4>1. i < watcher.next
        BY <1>1, <2>5, <3>2
      <4>2. watcher.cfg.content[a[2]] >= a[3]
        BY <1>2, <2>1, <2>5, <4>1 DEF ReadSoFar
      <4> QED BY <1>1, <2>4, <2>5, <3>2, <4>2
    <3> QED BY <3>1, <3>2
  <2>6. CASE watcher.next = 4
    <3>1. ASSUME NEW a \in log, a[1] <= watcher.cfg.epoch PROVE watcher'.cfg.content[a[2]] >= a[3]
      <4>1. PICK i \in 1..4 : ReadOrder[i] = a[2]
        BY <1>1, Order
      <4>2. i < watcher.next + 1
        BY <2>6
      <4> QED BY <2>5, <3>1, <4>1, <4>2
    <3> QED BY <1>2, <2>1, <2>3, <2>6, <3>1 DEF ReadSoFar, EpochCovers
  <2>7. CASE watcher.next # 4
    <3>1. watcher.next + 1 \in 1..4
      BY <2>1, <2>7
    <3> HIDE DEF p
    <3> QED BY <1>2, <2>1, <2>3, <2>5, <2>7, <3>1 DEF ReadSoFar, EpochCovers
  <2> QED BY <2>6, <2>7
<1>7. CASE Push
  <2>1. /\ UNCHANGED <<log, epoch>> /\ pushed' = watcher.cfg /\ watcher.pc = "send"
        /\ watcher'.pc = "wait" /\ watcher'.cfg = watcher.cfg
    BY <1>1, <1>7 DEF Push
  <2> QED BY <1>2, <2>1 DEF ReadSoFar, EpochCovers
<1> QED BY <1>3, <1>4, <1>5, <1>6, <1>7 DEF PushNext, Read

(* Nothing newer than the fence is sent after the token was rotated. *)
LEMMA BehindStep ==
    ASSUME PInv, PushNext, Types'
    PROVE  Behind'
<1>1. /\ content \in [Parts -> Nat] /\ content' \in [Parts -> Nat] /\ fence \in [Parts -> Nat]
      /\ token \in Nat /\ watcher.cfg.content \in [Parts -> Nat] /\ pushed.content \in [Parts -> Nat]
      /\ watcher \in [pc : {"off", "me", "epoch", "read", "check", "send", "wait", "ended"},
                       next : Nat, cfg : [epoch : Nat, content : Versions], unseen : BOOLEAN]
  BY DEF PInv, Types, Versions
<1>2. Behind /\ ReadSoFar
  BY DEF PInv
<1>3. ASSUME NEW h \in Handlers, OfHandler(h)
      PROVE  Behind'
  <2>1. SnapshotKept
    BY <1>3, HandlersApart
  <2>2. \A p \in Parts : content[p] <= content'[p]
    BY Grows DEF Grown
  <2>3. CASE Rotate(h)
    <3>1. token = 0 /\ token' = 1 /\ fence' = content
      BY <2>3 DEF Rotate
    <3> QED BY <1>2, <2>1, <3>1 DEF SnapshotKept, Behind, CredentialFenced
  <2>4. CASE ~Rotate(h)
    <3>1. UNCHANGED <<token, fence>>
      BY <1>3, <2>4 DEF OfHandler, Change, DeleteRead, DeleteRow, Revoked, Handle, Bump, ReadEpoch, Notify, Drop
    <3>2. token = 0 => \A p \in Parts :
             watcher.cfg.content[p] <= content'[p] /\ pushed.content[p] <= content'[p]
      BY <1>1, <1>2, <2>2 DEF Behind
    <3> QED BY <1>2, <2>1, <3>1, <3>2 DEF SnapshotKept, Behind, CredentialFenced
  <2> QED BY <2>3, <2>4
<1>4. CASE Watch \/ Changed \/ Heartbeat \/ ReadNetwork \/ Hangup
  <2>1. /\ watcher'.cfg.content = watcher.cfg.content /\ watcher'.pc # "send"
        /\ UNCHANGED <<pushed, token, fence, content>>
    <3>1. CASE ReadNetwork /\ watcher.pc = "me"
      BY <1>1, <3>1 DEF ReadNetwork
    <3>2. CASE ReadNetwork /\ watcher.pc = "epoch"
      BY <1>1, <3>2 DEF ReadNetwork
    <3>3. CASE Watch \/ Changed \/ Heartbeat \/ Hangup
      BY <1>1, <3>3 DEF Watch, Changed, Wake, Heartbeat, Hangup
    <3> QED BY <1>4, <3>1, <3>2, <3>3 DEF ReadNetwork
  <2> QED BY <1>2, <2>1 DEF Behind, CredentialFenced
<1>5. CASE CheckToken
  <2>1. /\ watcher'.cfg = watcher.cfg
        /\ watcher'.pc = "send" => token = 0
        /\ UNCHANGED <<pushed, token, fence, content>>
    BY <1>1, <1>5 DEF CheckToken
  <2> QED BY <1>2, <2>1 DEF Behind, CredentialFenced
<1>6. CASE ReadPart
  <2> DEFINE p == ReadOrder[watcher.next]
  <2>1. UNCHANGED <<pushed, token, fence, content>> /\ watcher.pc = "read" /\ watcher.next \in 1..4
    BY <1>2, <1>6 DEF ReadPart, ReadSoFar
  <2>2. p \in Parts
    BY <2>1, Order
  <2>3. /\ watcher'.cfg.content = [watcher.cfg.content EXCEPT ![p] = content[p]]
        /\ watcher'.pc # "send"
    BY <1>1, <1>6, <2>1, Order DEF ReadPart
  <2>4. watcher'.cfg.content[p] = content[p]
        /\ \A q \in Parts : q # p => watcher'.cfg.content[q] = watcher.cfg.content[q]
    BY <1>1, <2>2, <2>3
  <2>5. token = 0 => \A q \in Parts : watcher'.cfg.content[q] <= content[q]
    BY <1>1, <1>2, <2>4 DEF Behind
  <2> HIDE DEF p
  <2> QED BY <1>2, <2>1, <2>3, <2>5 DEF Behind, CredentialFenced
<1>7. CASE Push
  <2>1. /\ UNCHANGED <<token, fence, content>> /\ pushed' = watcher.cfg /\ watcher.pc = "send"
        /\ watcher'.pc = "wait" /\ watcher'.cfg = watcher.cfg
    BY <1>1, <1>7 DEF Push
  <2> QED BY <1>2, <2>1 DEF Behind, CredentialFenced
<1> QED BY <1>3, <1>4, <1>5, <1>6, <1>7 DEF PushNext, Read

(* A notification that is still to come is not overtaken: only the one that wakes the
   watch changes the channel. *)
LEMMA AwaitedStep ==
    ASSUME PInv, PushNext, Types'
    PROVE  Awaited'
<1>1. /\ content \in [Parts -> Nat] /\ content' \in [Parts -> Nat]
      /\ epoch \in Nat /\ epoch' \in Nat /\ chan \in Nat /\ drops \in Nat
      /\ handler \in [Handlers -> [pc : {"idle", "bump", "read", "send", "delete"}, part : Parts \cup {"none"}, e : Nat]]
      /\ watcher \in [pc : {"off", "me", "epoch", "read", "check", "send", "wait", "ended"},
                       next : Nat, cfg : [epoch : Nat, content : Versions], unseen : BOOLEAN]
      /\ watcher.cfg.content \in [Parts -> Nat]
  BY DEF PInv, Types, Versions
<1>2. Awaited /\ ReadSoFar
  BY DEF PInv
<1>3. Channel'
  <2> USE DEF Channel
  <2>1. ASSUME NEW h \in Handlers, NEW q \in Parts, Change(h, q) PROVE Channel'
    <3>1. chan' = chan /\ epoch <= epoch' /\ \A g \in Handlers : g # h => handler'[g] = handler[g]
      BY <1>1, <2>1 DEF Change
    <3>2. handler'[h].pc # "send"
      BY <1>1, <2>1 DEF Change
    <3> QED BY <1>1, <1>2, <3>1, <3>2 DEF Awaited
  <2>2. ASSUME NEW h \in Handlers,
               DeleteRead(h) \/ DeleteRow(h) \/ Rotate(h) \/ Revoked(h) \/ Bump(h) \/ Drop(h)
        PROVE  Channel'
    <3>1. chan' = chan /\ epoch <= epoch' /\ \A g \in Handlers : g # h => handler'[g] = handler[g]
      BY <1>1, <2>2 DEF DeleteRead, DeleteRow, Rotate, Revoked, Bump, Drop
    <3>2. handler'[h].pc # "send"
      BY <1>1, <2>2 DEF DeleteRead, DeleteRow, Rotate, Revoked, Bump, Drop, Idle
    <3> QED BY <1>1, <1>2, <3>1, <3>2 DEF Awaited
  <2>3. ASSUME NEW h \in Handlers, ReadEpoch(h) PROVE Channel'
    <3>1. /\ chan' = chan /\ epoch' = epoch /\ \A g \in Handlers : g # h => handler'[g] = handler[g]
          /\ handler'[h].e = epoch
      BY <1>1, <2>3 DEF ReadEpoch
    <3> QED BY <1>1, <1>2, <3>1 DEF Awaited
  <2>4. ASSUME NEW h \in Handlers, Notify(h) PROVE Channel'
    <3>1. /\ epoch' = epoch /\ \A g \in Handlers : g # h => handler'[g] = handler[g]
          /\ handler'[h].pc # "send" /\ chan' \in {chan, handler[h].e} /\ handler[h].pc = "send"
      BY <1>1, <2>4 DEF Notify, Idle
    <3> QED BY <1>1, <1>2, <3>1 DEF Awaited
  <2>5. CASE Watch \/ Changed \/ Heartbeat \/ Read \/ Hangup
    <3>1. UNCHANGED <<chan, epoch, handler>>
      BY <2>5 DEF Watch, Changed, Wake, Heartbeat, Read, ReadNetwork, ReadPart, CheckToken, Push, Hangup
    <3> QED BY <1>2, <3>1 DEF Awaited
  <2> QED BY <2>1, <2>2, <2>3, <2>4, <2>5 DEF PushNext, OfHandler, Handle
<1>4. watcher'.pc = "wait" => pushed' = watcher'.cfg
  <2>1. ASSUME NEW h \in Handlers, OfHandler(h)
        PROVE  watcher'.pc = "wait" => pushed' = watcher'.cfg
    BY <1>2, <2>1, HandlersApart DEF SnapshotKept, Awaited
  <2>2. CASE Push
    BY <1>1, <2>2 DEF Push
  <2>3. CASE Watch \/ Changed \/ Heartbeat \/ Hangup
    <3>1. watcher'.pc \in {"me", "ended"}
      BY <1>1, <2>3 DEF Watch, Changed, Wake, Heartbeat, Hangup
    <3> QED BY <3>1
  <2>4. CASE ReadNetwork
    BY <1>1, <2>4 DEF ReadNetwork
  <2>5. CASE CheckToken
    BY <1>1, <2>5 DEF CheckToken
  <2>6. CASE ReadPart
    BY <1>1, <2>6 DEF ReadPart
  <2> QED BY <2>1, <2>2, <2>3, <2>4, <2>5, <2>6 DEF PushNext, Read
<1>5. ASSUME drops' = 0, ~watcher'.unseen, NEW p \in Taken', ~Fresh(p)'
      PROVE  \E h \in Handlers : Signals(h)'
  <2>1. ASSUME UNCHANGED <<watcher, content, drops, log>>
        PROVE  \E g \in Handlers : Signals(g)
    BY <1>2, <1>5, <2>1 DEF Awaited, Taken, Fresh
  <2>2. ASSUME NEW h \in Handlers, NEW q \in Parts, Change(h, q) PROVE Signals(h)'
    <3>1. CASE q \in Atomic
      BY <1>1, <1>2, <2>2, <3>1 DEF Change, Signals, Awaited, Channel
    <3>2. CASE q \notin Atomic
      BY <1>1, <2>2, <3>2 DEF Change, Signals
    <3> QED BY <3>1, <3>2
  <2>3. ASSUME NEW h \in Handlers, Revoked(h) PROVE Signals(h)'
    BY <1>1, <1>2, <2>3 DEF Revoked, Signals, Awaited, Channel
  <2>12. ASSUME NEW h \in Handlers, Rotate(h) PROVE \E g \in Handlers : Signals(g)'
    <3>1. PICK g \in Handlers : Signals(g)
      BY <2>1, <2>12 DEF Rotate
    <3> QED BY <1>1, <1>2, <2>12, <3>1 DEF Rotate, Signals
  <2>10. ASSUME NEW h \in Handlers, Bump(h) PROVE Signals(h)'
    <3>1. handler[h].part \notin Atomic
      BY <2>10 DEF PInv, LogTrue, Bump
    <3> QED BY <1>1, <2>10, <3>1 DEF Bump, Signals
  <2>4. ASSUME NEW h \in Handlers, ReadEpoch(h)
        PROVE  \E g \in Handlers : Signals(g)'
    <3>1. PICK g \in Handlers : Signals(g)
      BY <2>1, <2>4 DEF ReadEpoch
    <3>2. CASE g = h
      BY <1>1, <1>2, <2>4, <3>1, <3>2 DEF ReadEpoch, Signals
    <3>3. CASE g # h
      BY <1>1, <1>2, <2>4, <3>1, <3>3 DEF ReadEpoch, Signals
    <3> QED BY <3>2, <3>3
  <2>11. ASSUME NEW h \in Handlers, DeleteRead(h) \/ DeleteRow(h)
         PROVE  \E g \in Handlers : Signals(g)'
    <3>1. /\ UNCHANGED <<watcher, drops, log, chan, epoch>> /\ handler[h].pc \in {"idle", "delete"}
          /\ \A q \in Parts : q # "routes" => content'[q] = content[q]
      BY <1>1, <2>11 DEF DeleteRead, DeleteRow
    <3>2. p \in Taken /\ p \in Parts
      BY <1>5, <3>1 DEF Taken
    <3>3. ~Fresh(p)
      BY <1>5, <3>1, <3>2 DEF Fresh
    <3>4. PICK g \in Handlers : Signals(g)
      BY <1>2, <1>5, <3>1, <3>2, <3>3 DEF Awaited
    <3>5. handler'[g] = handler[g]
      BY <1>1, <2>11, <3>1, <3>4 DEF Signals, DeleteRead, DeleteRow
    <3> QED BY <3>1, <3>4, <3>5 DEF Signals
  <2>5. ASSUME NEW h \in Handlers, Notify(h)
        PROVE  \E g \in Handlers : Signals(g)'
    <3>1. CASE handler[h].part \in Atomic /\ chan >= handler[h].e
      <4>1. PICK g \in Handlers : Signals(g)
        BY <2>1, <2>5, <3>1 DEF Notify
      <4>2. g # h
        BY <1>1, <2>5, <3>1, <4>1 DEF Notify, Signals
      <4> QED BY <1>1, <2>5, <3>1, <4>1, <4>2 DEF Notify, Signals
    <3>2. CASE ~(handler[h].part \in Atomic /\ chan >= handler[h].e)
      BY <1>1, <1>5, <2>5, <3>2 DEF Notify, Taken
    <3> QED BY <3>1, <3>2
  <2>6. ASSUME NEW h \in Handlers, Drop(h) PROVE FALSE
    BY <1>1, <1>5, <2>6 DEF Drop
  <2>7. CASE Watch \/ Changed \/ Heartbeat \/ Hangup
    <3>1. watcher'.pc \in {"me", "ended"}
      BY <1>1, <2>7 DEF Watch, Changed, Wake, Heartbeat, Hangup
    <3> QED BY <1>5, <3>1 DEF Taken
  <2>8. CASE ReadNetwork
    BY <1>1, <1>5, <2>8 DEF ReadNetwork, Taken
  <2>9. CASE Read /\ ~ReadNetwork
    <3>1. UNCHANGED <<content, drops, handler, chan, epoch, log>> /\ watcher'.unseen = watcher.unseen
      BY <1>1, <2>9 DEF Read, ReadPart, CheckToken, Push
    <3>2. p \in Taken /\ ~Fresh(p)
      <4>1. CASE CheckToken \/ Push
        BY <1>1, <1>5, <4>1 DEF CheckToken, Push, Taken, Fresh
      <4>2. CASE ReadPart
        <5> DEFINE q == ReadOrder[watcher.next]
        <5>1. watcher.pc = "read" /\ watcher.next \in 1..4 /\ q \in Parts /\ p \in Parts
          BY <1>2, <1>5, <4>2, Order DEF ReadPart, ReadSoFar, Taken
        <5>2. /\ watcher'.cfg.content = [watcher.cfg.content EXCEPT ![q] = content[q]]
              /\ watcher'.next = watcher.next + 1
              /\ watcher'.pc = IF watcher.next = 4 THEN "check" ELSE "read"
          BY <1>1, <4>2, <5>1, Order DEF ReadPart
        <5>3. p # q
          <6>1. watcher'.cfg.content[q] = content[q]
            BY <1>1, <5>1, <5>2
          <6>2. \A a \in log : a[2] = q => content[q] >= a[3]
            BY <1>1, <5>1 DEF PInv, LogTrue, Types
          <6> HIDE DEF q
          <6> QED BY <1>5, <3>1, <6>1, <6>2 DEF Fresh
        <5>4. watcher'.cfg.content[p] = watcher.cfg.content[p]
          BY <1>1, <5>1, <5>2, <5>3
        <5>5. PICK i \in 1..4 : i < watcher.next + 1 /\ ReadOrder[i] = p
          BY <1>5, <5>1, <5>2, Order DEF Taken
        <5>6. i < watcher.next
          BY <1>1, <5>1, <5>3, <5>5
        <5>7. p \in Taken
          BY <5>1, <5>5, <5>6 DEF Taken
        <5> HIDE DEF q
        <5> QED BY <1>5, <3>1, <5>4, <5>7 DEF Fresh
      <4> QED BY <2>9, <4>1, <4>2 DEF Read
    <3> QED BY <1>2, <1>5, <3>1, <3>2 DEF Awaited, Signals
  <2> QED BY <2>2, <2>3, <2>4, <2>5, <2>6, <2>7, <2>8, <2>9, <2>10, <2>11, <2>12 DEF PushNext, OfHandler, Handle
<1> QED BY <1>3, <1>4, <1>5 DEF Awaited

(* The invariant, at the start. *)
LEMMA PushStart ==
    ASSUME PushInit
    PROVE  PInv
<1>1. Nothing \in Versions /\ \A p \in Parts : Nothing[p] = 0
  BY DEF Nothing, Versions
<1>2. Types
  BY <1>1 DEF PushInit, Types, Idle
<1>3. LogTrue /\ ReadSoFar /\ Behind
  BY <1>1 DEF PushInit, LogTrue, ReadSoFar, Behind, EpochCovers, CredentialFenced, Idle
<1>4. Awaited
  BY DEF PushInit, Awaited, Channel, Taken, Idle
<1> QED BY <1>2, <1>3, <1>4 DEF PInv

(* Every step keeps the invariant. *)
LEMMA PushStep ==
    ASSUME PInv, [PushNext]_pushVars
    PROVE  PInv'
<1>1. CASE PushNext
  BY <1>1, TypesStep, LogStep, ReadStep, BehindStep, AwaitedStep DEF PInv
<1>2. CASE UNCHANGED pushVars
  BY <1>2 DEF PInv, pushVars, Types, LogTrue, ReadSoFar, Behind, EpochCovers, CredentialFenced,
              Awaited, Channel, Taken, Fresh, Signals
<1> QED BY <1>1, <1>2

(* The invariant says what a pushed configuration must hold, for any number of handlers and
   changes: every change announced up to its epoch (device_config), nothing committed after
   a rotation (sql_send_config_inner); and a watch that sleeps without a signal has sent all
   that was announced unless a handler still has one to give (notify,
   sql_watch_loop_with_idle). *)
LEMMA PushSafe ==
    ASSUME PInv
    PROVE  EpochCovers /\ CredentialFenced /\ WokenOrCurrent
<1>1. EpochCovers /\ CredentialFenced
  BY DEF PInv, ReadSoFar, Behind
<1>2. WokenOrCurrent
  <2> SUFFICES ASSUME drops = 0, watcher.pc = "wait", ~watcher.unseen,
                      \A h \in Handlers : handler[h].pc = "idle"
               PROVE  /\ \A p \in Parts \ {"routes"} : pushed.content[p] = content[p]
                      /\ \A a \in log : pushed.content[a[2]] >= a[3]
    BY DEF WokenOrCurrent
  <2>1. pushed = watcher.cfg /\ \A p \in Parts : Fresh(p)
    BY DEF PInv, Awaited, Taken, Signals
  <2>2. \A a \in log : a[2] \in Parts /\ a[3] <= content[a[2]] /\ a[3] \in Nat
    BY DEF PInv, Types, LogTrue
  <2>3. \A p \in Parts : content[p] \in Nat
    BY DEF PInv, Types, Versions
  <2> QED BY <2>1, <2>2, <2>3 DEF Fresh
<1> QED BY <1>1, <1>2

=============================================================================
