------------------------------- MODULE Paths -------------------------------
(***************************************************************************)
(* Which way the two ends of a session send: UDP-direct, TCP-direct or the *)
(* relay (node/src/worker.rs, on_tick, on_disco, on_tcp_conn and           *)
(* node/src/peer.rs, send_to_peer, set_path).                              *)
(*                                                                         *)
(* Time is counted in 1 Hz ticks.  The two workers tick in turn.  A packet *)
(* on a direct link arrives before its receiver's next tick, one over the  *)
(* relay before the tick after that; a packet on a dead link is lost.      *)
(* Links change at most MaxChanges times.  The thresholds are scaled:      *)
(* Dead for LIVENESS_DEAD_SECS, FlapWindow for 20 s, MaxFlaps for 5,       *)
(* Retries for 6.                                                          *)
(***************************************************************************)
EXTENDS Integers, FiniteSets

CONSTANTS Dead, FlapWindow, MaxFlaps, Retries,
          Changeable,   \* the links that may go up and down
          AtFirst,      \* the links that are up at the start
          MaxChanges

VARIABLES
    links,          \* the links that carry packets
    changes,
    peer,           \* each end's struct Peer
    flight,         \* packets on their way, and whether a tick has passed
    turn,           \* the worker that ticks next
    unheard         \* ticks since each end last heard from the other, or the relay came up

vars == <<links, changes, peer, flight, turn, unheard>>

Nodes == {"i", "r"}
Other(n) == IF n = "i" THEN "r" ELSE "i"
MaxUnheard == 2 * Dead + 1
Cap(x, max) == IF x > max THEN max ELSE x
RelayUp == "relay" \in links
MinPin(p) == 2 ^ p.flaps

(* Peer::fresh.  The age of the last direct packet stops at Dead, which also stands
   for None.  keyed: the cryptor has a session to seal with. *)
Fresh ==
    [handshaked |-> FALSE, keyed |-> FALSE, relay |-> FALSE, tcp |-> FALSE, pinned |-> FALSE, validated |-> FALSE,
     direct |-> Dead, pin |-> 0, up |-> FlapWindow, flaps |-> 0, retries |-> 0, out |-> FALSE]

PathsTypeOK ==
    /\ links \subseteq {"udp", "tcp", "relay"} /\ changes \in 0..MaxChanges /\ turn \in Nodes
    /\ unheard \in [Nodes -> 0..MaxUnheard]
    /\ \A n \in Nodes : /\ peer[n].direct \in 0..Dead /\ peer[n].flaps \in 0..MaxFlaps
                        /\ peer[n].retries \in 0..Retries /\ peer[n].up \in 0..FlapWindow
                        /\ peer[n].pin \in 0..(2 ^ MaxFlaps)
    /\ \A f \in flight : f.to \in Nodes /\ f.via \in {"udp", "tcp", "relay"}

Init ==
    /\ links = AtFirst /\ changes = 0 /\ peer = [n \in Nodes |-> Fresh]
    /\ flight = {} /\ turn = "i" /\ unheard = [n \in Nodes |-> 0]

(* send_to_peer *)
Route(p) ==
    IF ~p.relay /\ ~p.tcp THEN "udp"
    ELSE IF ~p.relay /\ p.out THEN "tcp"
    ELSE IF RelayUp THEN "relay" ELSE "udp"

Packet(to, kind, via) == {f \in {[to |-> to, kind |-> kind, via |-> via, old |-> FALSE]} : via \in links}
SendTo(n, p, kind) == Packet(Other(n), kind, Route(p))

(* disco_ping: what comes back is the answer to the probe. *)
Ping(n) == Packet(n, "pong", "udp")

(* set_path *)
SetPath(p, via) ==
    CASE via = "udp" -> [p EXCEPT !.direct = 0, !.tcp = FALSE, !.relay = p.pinned /\ @]
      [] via = "tcp" -> [p EXCEPT !.direct = 0, !.tcp = TRUE, !.relay = p.pinned /\ @]
      [] OTHER -> [p EXCEPT !.relay = TRUE]

-----------------------------------------------------------------------------
Aged(p) ==
    [p EXCEPT !.direct = Cap(@ + 1, Dead), !.pin = Cap(@ + 1, 2 ^ MaxFlaps), !.up = Cap(@ + 1, FlapWindow)]

(* The half of on_tick before a handshake: after enough tries the relay is used. *)
Unready(p) ==
    LET tries == Cap(p.retries + 1, Retries)
    IN  [p EXCEPT !.retries = tries, !.relay = @ \/ (~p.validated /\ RelayUp /\ tries = Retries)]

\* Mutant of Silent: a direct path that answered a probe once is trusted for good.
BugSilent(p) == p.direct = Dead /\ ~p.relay /\ RelayUp /\ ~p.validated

(* A direct path that has been silent for too long is given up for the relay. *)
Silent(p) == p.direct = Dead /\ ~p.relay /\ RelayUp

Pin(p) ==
    [p EXCEPT !.relay = TRUE, !.pinned = TRUE, !.pin = 0, !.direct = Dead,
              !.flaps = IF p.up < FlapWindow THEN Cap(@ + 1, MaxFlaps) ELSE 0]

(* A pinned peer that hears over the direct path again leaves the relay. *)
Upgrade(p) ==
    IF p.pinned /\ p.direct < Dead /\ p.pin >= MinPin(p)
    THEN [p EXCEPT !.pinned = FALSE, !.relay = FALSE, !.up = 0] ELSE p

(* on_tick: probes, then an INIT or, with a session, a keepalive; a pinned peer's keepalive also goes
   out directly, with a probe.  Then the silence and the upgrade checks. *)
Tick(n) ==
    LET p == Aged(peer[n])
        q == IF ~p.handshaked THEN Unready(p) ELSE IF Silent(p) THEN Pin(p) ELSE p
        probes == IF p.validated THEN {} ELSE Ping(n)
        again == IF p.pinned THEN Ping(n) \cup Packet(Other(n), "data", "udp") ELSE {}
        sent == IF ~p.handshaked THEN IF n = "i" THEN SendTo(n, q, "init") ELSE {}
                ELSE (IF p.keyed THEN SendTo(n, p, "data") \cup again ELSE {})
                       \cup IF Silent(p) /\ n = "i" THEN SendTo(n, q, "init") ELSE {}
    IN  /\ turn = n /\ turn' = Other(n)
        /\ \A f \in flight : f.to = n => f.via = "relay" /\ ~f.old
        /\ peer' = [peer EXCEPT ![n] = IF p.handshaked THEN Upgrade(q) ELSE q]
        /\ flight' = {IF f.to = n THEN [f EXCEPT !.old = TRUE] ELSE f : f \in flight} \cup probes \cup sent
        /\ unheard' = [unheard EXCEPT ![n] = Cap(@ + 1, MaxUnheard)]
        /\ UNCHANGED <<links, changes>>

Arrive(f, p, sent) ==
    /\ f \in flight /\ peer' = [peer EXCEPT ![f.to] = p]
    /\ flight' = (flight \ {f}) \cup sent
    /\ unheard' = [unheard EXCEPT ![f.to] = IF f.kind \in {"data", "init", "resp"} THEN 0 ELSE @]
    /\ UNCHANGED <<links, changes, turn>>

(* accept_init: answered the way it came. *)
RecvInit(f) ==
    LET p == [SetPath(peer[f.to], f.via) EXCEPT !.handshaked = TRUE]
    IN  f.kind = "init" /\ Arrive(f, p, SendTo(f.to, p, "resp"))

(* handle_wg.  The initiator can send once it has the response, the responder once
   it has heard from the initiator. *)
RecvResp(f) ==
    LET p == [SetPath(peer[f.to], f.via) EXCEPT !.handshaked = TRUE, !.keyed = TRUE]
    IN  f.kind = "resp" /\ Arrive(f, p, SendTo(f.to, p, "data"))

RecvData(f) == f.kind = "data" /\ Arrive(f, [SetPath(peer[f.to], f.via) EXCEPT !.keyed = TRUE], {})

(* on_disco: the answer proves the direct path; the end that was probed probes back
   while it has no proof of its own. *)
RecvPong(f) ==
    /\ f.kind = "pong"
    /\ Arrive(f, [peer[f.to] EXCEPT !.validated = TRUE, !.relay = peer[f.to].pinned /\ @],
              IF peer[Other(f.to)].validated THEN {} ELSE Ping(Other(f.to)))

(* on_tcp_conn: the connection manager reports what became of the TCP connection. *)
TcpConn(n) ==
    /\ peer[n].out # ("tcp" \in links)
    /\ peer' = [peer EXCEPT ![n].out = ~@]
    /\ UNCHANGED <<links, changes, flight, turn, unheard>>

(* on_update_candidates: the peer reported other endpoints; they are probed. *)
UpdateCandidates(n) ==
    /\ changes < MaxChanges /\ changes' = changes + 1
    /\ peer' = [peer EXCEPT ![n].validated = FALSE]
    /\ flight' = flight \cup Ping(n) /\ UNCHANGED <<links, turn, unheard>>

Change(link) ==
    /\ changes < MaxChanges /\ changes' = changes + 1
    /\ links' = IF link \in links THEN links \ {link} ELSE links \cup {link}
    /\ flight' = {f \in flight : f.via # link}
    /\ unheard' = [n \in Nodes |-> IF link = "relay" THEN 0 ELSE unheard[n]]
    /\ UNCHANGED <<peer, turn>>

Deliver(f) == RecvInit(f) \/ RecvResp(f) \/ RecvData(f) \/ RecvPong(f)

Next ==
    \/ \E n \in Nodes : Tick(n) \/ TcpConn(n) \/ UpdateCandidates(n)
    \/ \E f \in flight : Deliver(f)
    \/ \E link \in Changeable : Change(link)

Spec == Init /\ [][Next]_vars

-----------------------------------------------------------------------------
(* While the relay is up neither end stays deaf: whatever the direct links do, each
   end hears from the other within a bounded number of ticks (worker.rs, on_tick:
   silence is measured on the direct path alone). *)
NoBlackHole ==
    RelayUp /\ (\A n \in Nodes : peer[n].handshaked) => \A n \in Nodes : unheard[n] < MaxUnheard
=============================================================================
