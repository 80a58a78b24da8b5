------------------------------ MODULE Session ------------------------------
(***************************************************************************)
(* One pair of nodes and the session between them: the Noise state machine *)
(* (fp-crypto-noise) and the worker's use of it (node/src/peer.rs and the  *)
(* index table of node/src/worker.rs).                                     *)
(*                                                                         *)
(* "i" has the smaller public key and is the only one that sends INITs;    *)
(* "r" answers them.  A packet may be lost, delayed, reordered and         *)
(* delivered again: net keeps all that was ever sent.  Over UDP a RESP or  *)
(* DATA packet finds its session by the receiver index; over the relay or  *)
(* a direct TCP connection it finds it by the sender.                      *)
(*                                                                         *)
(* A key is <<INIT it answers, RESP that made it, cryptor of r>>: both     *)
(* ends derive the same one from the same two messages and no other.       *)
(***************************************************************************)
EXTENDS Integers, FiniteSets

CONSTANTS N_SESSIONS,   \* slots of the session ring (8)
          IndexMod,     \* values of the per-peer session counter (256)
          None, MaxInits, MaxAccepts, MaxResets

VARIABLES noise,        \* the cryptor of each node; None before a handshake
          table,        \* worker.rs: IndexTable, the slots and what is routed
          handshaked,
          lastInit,     \* r: the INIT it answered last
          bases,        \* PEER_INDEX of each process
          lives,        \* cryptors each node ever made
          net, inits, accepts, resets,
          late          \* a RESP was accepted whose index was no longer routed

vars == <<noise, table, handshaked, lastInit, bases, lives, net, inits, accepts, resets, late>>

Nodes == {"i", "r"}
Other(n) == IF n = "i" THEN "r" ELSE "i"
Slots == 0..(N_SESSIONS - 1)
Slot(index) == index[2] % N_SESSIONS

-----------------------------------------------------------------------------
(* The cryptor *)

NewNoise(base) ==
    [base |-> base, counter |-> 0, sent |-> None, previous |-> None,
     sessions |-> [k \in Slots |-> None], current |-> <<0, 0>>, next |-> None, stamp |-> 0]

IncIndex(z) == (z.counter + 1) % IndexMod

FormatInit(z, ts) ==
    [z EXCEPT !.counter = IncIndex(z), !.previous = z.sent,
              !.sent = [index |-> <<z.base, IncIndex(z)>>, ts |-> ts]]

Store(z, s) == [z EXCEPT !.sessions[Slot(s.local)] = s]

(* Accepts(z, m) first: an INIT that is not newer than the last is refused. *)
Accepts(z, m) == m.ts > z.stamp

ReceiveInit(z, m, key) ==
    LET index == <<z.base, IncIndex(z)>>
    IN  [Store(z, [local |-> index, remote |-> m.index, key |-> key])
            EXCEPT !.counter = IncIndex(z), !.previous = z.sent, !.sent = None,
                   !.stamp = m.ts, !.next = index]

Awaits(hs, m) == IF hs = None THEN FALSE ELSE hs.index = m.to /\ hs.ts = m.key[1]
Expects(z, m) == Awaits(z.sent, m) \/ Awaits(z.previous, m)

Live(z) == LET s == z.sessions[Slot(z.current)] IN IF s = None THEN FALSE ELSE s.local = z.current

\* Mutant of ReceiveResp: any other index than the current one counts as newer.
BugReceiveResp(z, m) ==
    [Store(z, [local |-> m.to, remote |-> m.index, key |-> m.key])
        EXCEPT !.sent = IF Awaits(z.sent, m) THEN None ELSE z.sent,
               !.previous = IF Awaits(z.sent, m) THEN z.previous ELSE None,
               !.current = m.to, !.next = None]

ReceiveResp(z, m) ==
    LET w == [Store(z, [local |-> m.to, remote |-> m.index, key |-> m.key])
                EXCEPT !.sent = IF Awaits(z.sent, m) THEN None ELSE z.sent,
                       !.previous = IF Awaits(z.sent, m) THEN z.previous ELSE None]
        distance == (m.to[2] - z.current[2]) % IndexMod
    IN  IF ~Live(w) \/ (distance # 0 /\ distance < IndexMod \div 2)
        THEN [w EXCEPT !.current = m.to, !.next = None] ELSE w

Opens(z, m) ==
    LET s == z.sessions[Slot(m.to)] IN IF s = None THEN FALSE ELSE s.local = m.to /\ s.key = m.key

ReceiveData(z, m) ==
    IF z.next = m.to THEN [z EXCEPT !.current = m.to, !.next = None] ELSE z

(* The session encapsulate seals with: whatever the slot of current holds. *)
Sending(z) == IF z = None THEN None ELSE z.sessions[Slot(z.current)]

-----------------------------------------------------------------------------
(* The index table *)

NoIndex == [current |-> None, previous |-> None, pending |-> None, local |-> {}]

Prune(t) == [t EXCEPT !.local = @ \cap {t.current, t.previous, t.pending}]

Insert(t, index) ==
    LET p == Prune([t EXCEPT !.pending = index]) IN [p EXCEPT !.local = @ \cup {index}]

\* Mutant of Confirm: the index that was current is not kept as the previous one.
BugConfirm(t, index) ==
    IF t.pending = index THEN Prune([t EXCEPT !.current = index, !.pending = None]) ELSE t

Confirm(t, index) ==
    IF t.pending = index
    THEN Prune([t EXCEPT !.previous = t.current, !.current = index, !.pending = None]) ELSE t

-----------------------------------------------------------------------------
(* Packets *)

InitMsg(ts, index) == [type |-> "init", dst |-> "r", ts |-> ts, index |-> index]
RespMsg(to, index, key) == [type |-> "resp", dst |-> "i", to |-> to, index |-> index, key |-> key]
DataMsg(n, s) == [type |-> "data", dst |-> Other(n), to |-> s.remote, key |-> s.key]

(* route_udp and on_udp_in: by index; on_relay_in and on_tcp_in: by sender. *)
Routed(n, m, via) == via = "udp" => m.to \in table[n].local

SessionTypeOK ==
    /\ handshaked \in [Nodes -> BOOLEAN] /\ lastInit \in 0..MaxInits
    /\ bases \in [Nodes -> Nat] /\ lives \in [Nodes -> Nat] /\ late \in BOOLEAN
    /\ inits \in 0..MaxInits /\ accepts \in 0..MaxAccepts /\ resets \in 0..MaxResets
    /\ \A n \in Nodes : noise[n] # None =>
          /\ noise[n].counter \in 0..(IndexMod - 1) /\ DOMAIN noise[n].sessions = Slots
          /\ \A k \in Slots : noise[n].sessions[k] # None => Slot(noise[n].sessions[k].local) = k

(* fresh, then the first init of the initiator (on_add_peer). *)
Begin(ts, base) == FormatInit(NewNoise(base), ts)

Init ==
    LET z == Begin(1, 1)
    IN  /\ noise = [n \in Nodes |-> IF n = "i" THEN z ELSE None]
        /\ table = [n \in Nodes |-> IF n = "i" THEN Insert(NoIndex, z.sent.index) ELSE NoIndex]
        /\ handshaked = [n \in Nodes |-> FALSE] /\ lastInit = 0
        /\ bases = [i |-> 1, r |-> 0] /\ lives = [i |-> 1, r |-> 0]
        /\ net = {InitMsg(1, z.sent.index)} /\ inits = 1 /\ accepts = 0 /\ resets = 0
        /\ late = FALSE

(* The node restarts, and PEER_INDEX with it, or reconciliation removes and adds
   the peer in the same process.  Nothing of the session survives either. *)
Reset(n, restart) ==
    LET base == (IF restart THEN 0 ELSE bases[n]) + 1
        z == Begin(inits + 1, base)
    IN  /\ resets < MaxResets /\ resets' = resets + 1 /\ inits < MaxInits
        /\ handshaked' = [handshaked EXCEPT ![n] = FALSE]
        /\ IF n = "i"
           THEN /\ noise' = [noise EXCEPT ![n] = z]
                /\ table' = [table EXCEPT ![n] = Insert(NoIndex, z.sent.index)]
                /\ bases' = [bases EXCEPT ![n] = base] /\ lives' = [lives EXCEPT ![n] = @ + 1]
                /\ net' = net \cup {InitMsg(inits + 1, z.sent.index)}
                /\ inits' = inits + 1 /\ UNCHANGED lastInit
           ELSE /\ noise' = [noise EXCEPT ![n] = None]
                /\ table' = [table EXCEPT ![n] = NoIndex] /\ lastInit' = 0
                /\ bases' = [bases EXCEPT ![n] = base - 1] /\ lives' = [lives EXCEPT ![n] = @ + 1]
                /\ UNCHANGED <<net, inits>>
        /\ UNCHANGED <<accepts, late>>

(* emit_rekey: the live session keeps sealing until the response arrives. *)
Rekey ==
    LET z == FormatInit(noise["i"], inits + 1)
    IN  /\ handshaked["i"] /\ inits < MaxInits /\ inits' = inits + 1
        /\ noise' = [noise EXCEPT !["i"] = z]
        /\ table' = [table EXCEPT !["i"] = Insert(@, z.sent.index)]
        /\ net' = net \cup {InitMsg(inits + 1, z.sent.index)}
        /\ UNCHANGED <<handshaked, lastInit, bases, lives, accepts, resets, late>>

(* on_tick and on_tun_egress: DATA down the sending session.  Without one on_send
   makes an INIT, which advances the index; the responder drops it. *)
Send(n) ==
    LET s == Sending(noise[n])
    IN  /\ handshaked[n]
        /\ IF s # None THEN /\ net' = net \cup {DataMsg(n, s)} /\ UNCHANGED noise
           ELSE /\ n = "r" /\ UNCHANGED net
                /\ noise' = [noise EXCEPT ![n] = FormatInit(@, 0)]
        /\ UNCHANGED <<table, handshaked, lastInit, bases, lives, inits, accepts, resets, late>>

(* accept_init.  An INIT it answered last is answered again and changes nothing; a
   newer one extends the session; any other is taken for a new peer's. *)
AcceptInit(m) ==
    LET same == handshaked["r"] /\ Accepts(noise["r"], m)
        base == bases["r"] + 1
        life == IF same THEN lives["r"] ELSE lives["r"] + 1
        key  == <<m.ts, accepts + 1, life>>
        z    == ReceiveInit(IF same THEN noise["r"] ELSE NewNoise(base), m, key)
    IN  /\ m.type = "init" /\ m.ts # lastInit /\ accepts < MaxAccepts
        /\ noise' = [noise EXCEPT !["r"] = z]
        /\ table' = [table EXCEPT !["r"] = Insert(IF same THEN @ ELSE NoIndex, z.next)]
        /\ bases' = [bases EXCEPT !["r"] = IF same THEN @ ELSE base]
        /\ lives' = [lives EXCEPT !["r"] = life]
        /\ handshaked' = [handshaked EXCEPT !["r"] = TRUE] /\ lastInit' = m.ts
        /\ net' = net \cup {RespMsg(m.index, z.next, key)} /\ accepts' = accepts + 1
        /\ UNCHANGED <<inits, resets, late>>

(* handle_wg, RESP: the initiator confirms with a keepalive. *)
Respond(m, via) ==
    LET z == ReceiveResp(noise["i"], m)
    IN  /\ m.type = "resp" /\ Routed("i", m, via) /\ Expects(noise["i"], m)
        /\ noise' = [noise EXCEPT !["i"] = z]
        /\ table' = [table EXCEPT !["i"] = Confirm(@, m.to)]
        /\ handshaked' = [handshaked EXCEPT !["i"] = TRUE]
        /\ net' = net \cup {DataMsg("i", Sending(z))}
        /\ late' = (late \/ m.to \notin table["i"].local)
        /\ UNCHANGED <<lastInit, bases, lives, inits, accepts, resets>>

(* handle_wg, DATA. *)
Data(m, via) ==
    LET n == m.dst
    IN  /\ m.type = "data" /\ noise[n] # None /\ Routed(n, m, via) /\ Opens(noise[n], m)
        /\ noise' = [noise EXCEPT ![n] = ReceiveData(@, m)]
        /\ table' = [table EXCEPT ![n] = Confirm(@, m.to)]
        /\ UNCHANGED <<handshaked, lastInit, bases, lives, net, inits, accepts, resets, late>>

Next ==
    \/ \E n \in Nodes, restart \in BOOLEAN : Reset(n, restart)
    \/ Rekey
    \/ \E n \in Nodes : Send(n)
    \/ \E m \in net : AcceptInit(m)
    \/ \E m \in net, via \in {"udp", "framed"} : Respond(m, via) \/ Data(m, via)

Spec == Init /\ [][Next]_vars

-----------------------------------------------------------------------------
(* A node never goes back to an older key to send with while it keeps its cryptor,
   however late a response or a packet arrives (noise.rs, handle_handshake_response
   and handle_data). *)
NoRollback ==
    \A n \in Nodes :
          LET s == Sending(noise[n])
              t == Sending(noise'[n])
          IN  s # None /\ t # None /\ lives'[n] = lives[n] => t.key[1] >= s.key[1]

(* What the initiator sends can be opened by the responder, unless the responder
   has started over or its ring has wrapped round to a newer session in that slot:
   a rekey never leaves a gap (peer.rs, accept_init). *)
Gapless ==
    LET s == Sending(noise["i"])
    IN  s # None /\ noise["r"] # None /\ lives["r"] = s.key[3] =>
          LET t == noise["r"].sessions[Slot(s.remote)]
          IN  t # None /\ (t.key = s.key \/ t.key[1] > s.key[1])

(* The index a node's packets carry is one the other end routes, except while the
   responder holds a newer session that no packet has confirmed yet (two handshakes
   newer, for the responder's own packets), or after a response came in over the
   relay for an index the table had dropped (worker.rs, IndexTable). *)
RoutedUnlessPending ==
    \A n \in Nodes :
       LET s == Sending(noise[n])
           o == Other(n)
       IN  s # None /\ Live(noise[n]) /\ noise[o] # None /\ ~late
             /\ Opens(noise[o], DataMsg(n, s)) /\ s.remote \notin table[o].local
           => /\ noise["r"].next # None
              /\ n = "r" => noise[n].sessions[Slot(noise[n].next)].key[1] > s.key[1] + 1
=============================================================================
