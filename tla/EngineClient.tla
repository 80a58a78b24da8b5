---------------------------- MODULE EngineClient ----------------------------
(***************************************************************************)
(* The client engine behind the C interface of the mobile app.  The app     *)
(* makes one blocking call at a time: connect (transport and handshake),    *)
(* attach (the interface whose descriptor the OS gave), disconnect.  Each   *)
(* call is a request to the dispatcher task, which takes its mailbox in     *)
(* order; the reader of every transport, the reader of every interface and  *)
(* the heartbeat task post to the same mailbox.                             *)
(*                                                                         *)
(* A handshake that is tried is a member of conn, whether it completes or   *)
(* not, and names the cryptor it made.  What packets carry is left out.     *)
(***************************************************************************)
EXTENDS Naturals, Sequences

CONSTANTS Leaks,     \* TRUE on iOS, where a removed interface is leaked
          MaxConns,  \* handshakes tried
          MaxIfaces, \* interfaces attached
          MaxMail    \* requests waiting in the mailbox

VARIABLES pending,   \* PENDING_IFACE is set
          heart,     \* HEARTBEAT: "off", "idle" between ticks, "waiting" for an answer
          call,      \* the app's call in progress, or "idle"
          reply,     \* the answer to it, or "none"
          last,      \* the last call that returned
          mail,      \* Dispatcher's mailbox
          iface,     \* Inner.iface: an interface, 0 for none
          tun,       \* interface -> its handler task: "running" or "done"
          peer,      \* Inner.peer: a connection, 0 for none
          cryptor,   \* Inner.cryptor: the handshake it belongs to, 0 for none
          conn       \* handshake -> [reader, closed]

clientVars == <<pending, heart, call, reply, last, mail, iface, tun, peer, cryptor, conn>>
innerVars  == <<iface, tun, peer, cryptor, conn>>
ffiVars    == <<pending, heart, call, reply, last>>

Room  == Len(mail) < MaxMail
Kinds == {"handshake", "attach", "remove", "send", "beat", "data"}

(* Requests: of the app's call, and of the tasks, which wait for no answer. *)
Asked(kind)   == [kind |-> kind, asked |-> TRUE, conn |-> 0]
Told(kind, c) == [kind |-> kind, asked |-> FALSE, conn |-> c]
Post(req)     == mail' = Append(mail, req)

ClientInit ==
    /\ pending = FALSE /\ heart = "off" /\ call = "idle" /\ reply = "none" /\ last = "none"
    /\ mail = <<>> /\ iface = 0 /\ tun = <<>> /\ peer = 0 /\ cryptor = 0 /\ conn = <<>>

-----------------------------------------------------------------------------
(* The calls of the app.                                                    *)

Calls(name) == call = "idle" /\ Room /\ call' = name /\ UNCHANGED <<reply, last, innerVars>>

(* fp_connect_handshake_only: the interface's parameters are kept for the   *)
(* attach before the handshake is asked for.                                *)
Connect == Calls("connect") /\ pending' = TRUE /\ Post(Asked("handshake")) /\ UNCHANGED heart

(* fp_attach_tun: without parameters an error, else they are taken.         *)
Attach == Calls("attach") /\ pending /\ pending' = FALSE /\ Post(Asked("attach")) /\ UNCHANGED heart

(* A heartbeat whose task was aborted is still sent, but nobody waits.      *)
Orphaned == [n \in DOMAIN mail |-> IF mail[n].kind = "beat" THEN Told("send", 0) ELSE mail[n]]

(* fp_disconnect.                                                           *)
Disconnect ==
    /\ Calls("stop")
    /\ pending' = FALSE /\ heart' = "off"
    /\ mail' = Append(Orphaned, Asked("remove"))

(* The answer comes: a failed handshake forgets the parameters, an attached *)
(* interface starts the heartbeat, in the place of the one before.          *)
Returns ==
    /\ reply # "none"
    /\ pending' = (pending /\ ~(call = "connect" /\ reply = "err"))
    /\ IF call = "attach" /\ reply = "ok" THEN heart' = "idle" /\ mail' = Orphaned
                                        ELSE UNCHANGED <<heart, mail>>
    /\ last' = call /\ call' = "idle" /\ reply' = "none"
    /\ UNCHANGED innerVars

(* spawn_heartbeat: a tick asks and waits; an error ends the task.          *)
Beat ==
    /\ heart = "idle" /\ Room
    /\ heart' = "waiting"
    /\ Post(Told("beat", 0))
    /\ UNCHANGED <<pending, call, reply, last, innerVars>>

-----------------------------------------------------------------------------
(* The dispatcher.                                                          *)

Closed(cs) == [c \in DOMAIN conn |-> IF c \in cs THEN [conn[c] EXCEPT !.closed = TRUE] ELSE conn[c]]

Answer(r, a)    == reply' = IF r.asked THEN a ELSE reply
NoAnswer        == UNCHANGED reply
Tried(s, alive) == Append(s, [reader |-> IF alive THEN "running" ELSE "done", closed |-> ~alive])

(* ClientStartReq::split: keys, address or port do not parse.               *)
Rejected(r) == UNCHANGED innerVars /\ Answer(r, "err")

\* Mutant of new_transport: the transport that is replaced is not closed.
Bugnew_transport(r) ==
    /\ r.kind = "handshake"
    /\ \/ Rejected(r)
       \/ /\ Len(conn) < MaxConns
          /\ cryptor' = Len(conn) + 1
          /\ \/ conn' = Tried(conn, FALSE) /\ Answer(r, "err") /\ UNCHANGED peer
             \/ conn' = Tried(conn, TRUE) /\ Answer(r, "ok") /\ peer' = Len(conn) + 1
          /\ UNCHANGED <<iface, tun>>
    /\ UNCHANGED heart

(* new_transport, of start_handshake_only.  A request that does not parse   *)
(* or names an unknown protocol changes nothing.  Otherwise the cryptor is  *)
(* replaced before the connection is tried; three timeouts, an error of the *)
(* transport or a bad answer leave it at that.  A handshake that completes  *)
(* has its reader started, and takes the place of the transport before,     *)
(* which is closed.                                                         *)
new_transport(r) ==
    /\ r.kind = "handshake"
    /\ \/ Rejected(r)
       \/ /\ Len(conn) < MaxConns
          /\ cryptor' = Len(conn) + 1
          /\ \/ conn' = Tried(conn, FALSE) /\ Answer(r, "err") /\ UNCHANGED peer
             \/ conn' = Tried(Closed({peer}), TRUE) /\ Answer(r, "ok") /\ peer' = Len(conn) + 1
          /\ UNCHANGED <<iface, tun>>
    /\ UNCHANGED heart

(* Iface::drop aborts the handler.                                          *)
Aborted(i) == IF i = 0 THEN tun ELSE [tun EXCEPT ![i] = "done"]

(* assign_iface: a device that cannot be opened changes nothing; else the   *)
(* new interface takes the place of the old one, which is dropped.          *)
assign_iface(r) ==
    /\ r.kind = "attach"
    /\ \/ UNCHANGED innerVars /\ Answer(r, "err")
       \/ /\ Len(tun) < MaxIfaces
          /\ tun' = Append(Aborted(iface), "running")
          /\ iface' = Len(tun) + 1
          /\ Answer(r, "ok")
          /\ UNCHANGED <<peer, cryptor, conn>>
    /\ UNCHANGED heart

\* Mutant of remove_iface: a session without an interface is left alone.
Bugremove_iface(r) ==
    /\ r.kind = "remove"
    /\ Answer(r, "ok")
    /\ IF iface = 0 THEN UNCHANGED innerVars
       ELSE /\ tun' = IF Leaks THEN tun ELSE Aborted(iface)
            /\ iface' = 0 /\ peer' = 0 /\ cryptor' = 0
            /\ conn' = Closed({peer})
    /\ UNCHANGED heart

(* remove_iface: the interface is dropped, or leaked; the transport is      *)
(* closed even when there was none; the cryptor goes.                       *)
remove_iface(r) ==
    /\ r.kind = "remove"
    /\ tun' = IF Leaks THEN tun ELSE Aborted(iface)
    /\ iface' = 0 /\ peer' = 0 /\ cryptor' = 0
    /\ conn' = Closed({peer})
    /\ Answer(r, "ok")
    /\ UNCHANGED heart

(* send_endpoint, for a packet of the interface and for a heartbeat: an     *)
(* error without a transport or a cryptor; a transport that was told to     *)
(* close, or fails, is closed and stays in place.  A cryptor that fails     *)
(* drops the packet.                                                        *)
Heard(r, ok) == heart' = IF r.kind = "beat" THEN IF ok THEN "idle" ELSE "off" ELSE heart

PeerSend(r) ==
    \/ conn' = Closed({peer}) /\ Heard(r, FALSE)
    \/ ~conn[peer].closed /\ Heard(r, TRUE) /\ UNCHANGED conn

send_endpoint(r) ==
    /\ r.kind \in {"send", "beat"}
    /\ IF peer = 0 \/ cryptor = 0 THEN Heard(r, FALSE) /\ UNCHANGED conn
                                  ELSE PeerSend(r)
    /\ NoAnswer
    /\ UNCHANGED <<iface, tun, peer, cryptor>>

(* iface_send: decrypted by the cryptor, if there is one, and written to    *)
(* the interface, if there is one.                                          *)
iface_send(r) == r.kind = "data" /\ NoAnswer /\ UNCHANGED <<heart, innerVars>>

Dispatch ==
    /\ mail # <<>>
    /\ mail' = Tail(mail)
    /\ LET r == Head(mail)
       IN  new_transport(r) \/ assign_iface(r) \/ remove_iface(r) \/ send_endpoint(r) \/ iface_send(r)
    /\ UNCHANGED <<pending, call, last>>

-----------------------------------------------------------------------------
(* spawn_reader: data and a Disconnect are passed on; the reader ends on    *)
(* the close signal or with the transport, and then asks for the interface  *)
(* to be removed.                                                           *)
ReaderPosts(c, kind) ==
    /\ conn[c].reader = "running" /\ Room
    /\ Post(Told(kind, c))
    /\ UNCHANGED <<ffiVars, innerVars>>

ReaderEnds(c) ==
    /\ conn[c].reader = "running" /\ Room
    /\ conn' = [conn EXCEPT ![c] = [reader |-> "done", closed |-> TRUE]]
    /\ Post(Told("remove", c))
    /\ UNCHANGED <<ffiVars, iface, tun, peer, cryptor>>

(* iface_handler: packets of the interface; at its end the removal.         *)
TunPosts(i) ==
    /\ tun[i] = "running" /\ Room
    /\ Post(Told("send", 0))
    /\ UNCHANGED <<ffiVars, innerVars>>

TunEnds(i) ==
    /\ tun[i] = "running" /\ Room
    /\ tun' = [tun EXCEPT ![i] = "done"]
    /\ Post(Told("remove", 0))
    /\ UNCHANGED <<ffiVars, iface, peer, cryptor, conn>>

ClientNext ==
    \/ Connect \/ Attach \/ Disconnect \/ Returns \/ Beat \/ Dispatch
    \/ \E c \in DOMAIN conn : ReaderEnds(c) \/ \E kind \in {"data", "remove"} : ReaderPosts(c, kind)
    \/ \E i \in DOMAIN tun : TunPosts(i) \/ TunEnds(i)

ClientTypeOK ==
    /\ pending \in BOOLEAN /\ heart \in {"off", "idle", "waiting"}
    /\ call \in {"idle", "connect", "attach", "stop"} /\ reply \in {"none", "ok", "err"}
    /\ \A n \in DOMAIN mail : mail[n].kind \in Kinds /\ (mail[n].asked => call # "idle")
    /\ iface \in 0 .. Len(tun) /\ peer \in 0 .. Len(conn) /\ cryptor \in 0 .. Len(conn)
    /\ \A c \in DOMAIN conn : conn[c].reader \in {"running", "done"} /\ conn[c].closed \in BOOLEAN

(* Of the transports that are read, only the current one has not been told  *)
(* to close: reconnecting, a failed attempt and a teardown in any order     *)
(* leave no forgotten connection behind (new_transport, remove_iface).      *)
NoForgottenTransport == \A c \in DOMAIN conn : conn[c].reader = "running" /\ ~conn[c].closed => c = peer

(* A transport is never kept without a cryptor, and an interface that is    *)
(* not leaked is read only while it is the current one (remove_iface).      *)
SessionWhole ==
    /\ peer # 0 => cryptor # 0
    /\ ~Leaks => \A i \in DOMAIN tun : tun[i] = "running" => i = iface

(* After fp_disconnect has returned, and until the next call, there is no   *)
(* session: no interface, no transport, no cryptor, no heartbeat, nothing   *)
(* to attach - whatever the tasks of the session still post.                *)
DisconnectIsFinal ==
    call = "idle" /\ last = "stop" =>
        iface = 0 /\ peer = 0 /\ cryptor = 0 /\ heart = "off" /\ ~pending
=============================================================================
