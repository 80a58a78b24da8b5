------------------------------ MODULE TcpDirect ------------------------------
(***************************************************************************)
(* TCP-direct, the rung between UDP and the relay: the node with the        *)
(* smaller key keeps dialling the other, which accepts; each end pumps      *)
(* frames until the connection ends and reports "up" and "down" to the      *)
(* worker that owns the peer, which keeps the sending half in tcp_out.  A   *)
(* connection can die without either end hearing of it, an old connection's *)
(* reports can arrive late, and the peer can be revoked and come back.      *)
(***************************************************************************)
EXTENDS Naturals, Sequences, SequencesExt

CONSTANTS MaxConns, MaxFaults, IdleLimit, None

Nodes == {"dialer", "acceptor"}
Other(n) == CHOOSE m \in Nodes : m # n
Conns == 1..MaxConns

VARIABLES stage,       \* [node][conn]: the connection's task at that node
          deaf,        \* [node][conn]: nothing sent reaches that end any more
          idle,        \* [node][conn]: frame_pump's idle_ticks
          events,      \* [node]: reports on their way to the worker: [conn, up]
          member,      \* [node]: the worker has the other as a peer
          tcp_out, tcp_gen,
          faults

tcpVars == <<stage, deaf, idle, events, member, tcp_out, tcp_gen, faults>>

TcpInit ==
    /\ faults = 0
    /\ stage = [n \in Nodes |-> [c \in Conns |-> "none"]]
    /\ deaf = [n \in Nodes |-> [c \in Conns |-> FALSE]]
    /\ idle = [n \in Nodes |-> [c \in Conns |-> 0]]
    /\ events = [n \in Nodes |-> <<>>] /\ member = [n \in Nodes |-> TRUE]
    /\ tcp_out = [n \in Nodes |-> None] /\ tcp_gen = [n \in Nodes |-> 0]

Stage(n, c, s) == stage' = [stage EXCEPT ![n][c] = s]
Report(n, c, up) == events' = [events EXCEPT ![n] = Append(@, [conn |-> c, up |-> up])]

(* The dial loop: a new connection only once the previous one's pump has    *)
(* ended and been reported.  It says who it is and is accepted.  Its number *)
(* stands for its generation, which is only ever compared for equality: one *)
(* that nothing refers to any more is used again.                           *)
Forgotten(n, c) == stage[n][c] = "none" /\ tcp_gen[n] # c /\ \A e \in Range(events[n]) : e.conn # c
Dial ==
    /\ \A c \in Conns : stage["dialer"][c] = "none"
    /\ LET free == {c \in Conns : \A n \in Nodes : Forgotten(n, c)} IN
       /\ free # {}
       /\ LET new == CHOOSE c \in free : \A d \in free : c <= d IN
          stage' = [n \in Nodes |-> [stage[n] EXCEPT ![new] = "new"]]
    /\ UNCHANGED <<deaf, idle, events, member, tcp_out, tcp_gen, faults>>

(* Either end's task, at its own pace: report up, pump, report down.        *)
ReportUp(n, c) ==
    /\ stage[n][c] = "new" /\ Stage(n, c, "pump") /\ Report(n, c, TRUE)
    /\ UNCHANGED <<deaf, idle, member, tcp_out, tcp_gen, faults>>

ReportDown(n, c) ==
    /\ stage[n][c] = "ended" /\ Stage(n, c, "none") /\ Report(n, c, FALSE)
    /\ deaf' = [deaf EXCEPT ![n][c] = FALSE]
    /\ UNCHANGED <<idle, member, tcp_out, tcp_gen, faults>>

(* The worker, or a report still on its way, holds the sending half.        *)
Held(n, c) == tcp_out[n] = c \/ [conn |-> c, up |-> TRUE] \in Range(events[n])

(* The pump ends when the other end has closed and that can be heard, or    *)
(* when nobody holds its sending half.                                      *)
PumpEnds(n, c) ==
    /\ stage[n][c] = "pump"
    /\ \/ stage[Other(n)][c] \in {"ended", "none"} /\ ~deaf[n][c]
       \/ ~Held(n, c)
    /\ Stage(n, c, "ended")
    /\ UNCHANGED <<deaf, idle, events, member, tcp_out, tcp_gen, faults>>

(* One keepalive period of every pump: an end that is being written to has  *)
(* its count set back, the others give up at the limit.  A period is long   *)
(* enough for an accepted connection to be reported and start pumping.      *)
Hears(n, c) == stage[Other(n)][c] \in {"new", "pump"} /\ ~deaf[n][c]

\* Mutant of Idle: writing a keepalive counts as a sign of life.
BugIdle(n, c) == 0

Idle(n, c) == IF stage[n][c] # "pump" \/ Hears(n, c) THEN 0 ELSE idle[n][c] + 1

Tick ==
    /\ \E n \in Nodes, c \in Conns : Idle(n, c) # idle[n][c]
    /\ idle' = [n \in Nodes |-> [c \in Conns |-> IF Idle(n, c) < IdleLimit THEN Idle(n, c) ELSE 0]]
    /\ stage' = [n \in Nodes |-> [c \in Conns |-> IF Idle(n, c) < IdleLimit THEN stage[n][c] ELSE "ended"]]
    /\ UNCHANGED <<deaf, events, member, tcp_out, tcp_gen, faults>>

-----------------------------------------------------------------------------
(* on_tcp_conn, after the forwarder found the peer's worker: a report about *)
(* a peer that is gone is dropped, with the sending half in it.  (A         *)
(* generation whose "down" has come is forgotten: no other report has it.)  *)
\* Mutant of on_tcp_conn: the generation is not taken over.
Bugon_tcp_conn(n) ==
    LET e == Head(events[n]) IN
    /\ events[n] # <<>> /\ events' = [events EXCEPT ![n] = Tail(@)]
    /\ tcp_out' = [tcp_out EXCEPT ![n] = IF ~member[n] THEN @
                                         ELSE IF e.up THEN e.conn
                                         ELSE IF tcp_gen[n] = e.conn THEN None ELSE @]
    /\ UNCHANGED <<stage, deaf, idle, member, tcp_gen, faults>>

on_tcp_conn(n) ==
    LET e == Head(events[n]) IN
    /\ events[n] # <<>> /\ events' = [events EXCEPT ![n] = Tail(@)]
    /\ tcp_out' = [tcp_out EXCEPT ![n] = IF ~member[n] THEN @
                                         ELSE IF e.up THEN e.conn
                                         ELSE IF tcp_gen[n] = e.conn THEN None ELSE @]
    /\ tcp_gen' = [tcp_gen EXCEPT ![n] = IF ~member[n] THEN @
                                         ELSE IF e.up THEN e.conn
                                         ELSE IF @ = e.conn THEN 0 ELSE @]
    /\ UNCHANGED <<stage, deaf, idle, member, faults>>

-----------------------------------------------------------------------------
Fault == faults < MaxFaults /\ faults' = faults + 1

(* A NAT forgets a connection: one direction, or both, lead nowhere.        *)
GoesDeaf(c, ns) ==
    /\ Fault /\ \E n \in ns : stage[n][c] \in {"new", "pump"}
    /\ deaf' = [n \in Nodes |-> [deaf[n] EXCEPT ![c] = @ \/ (n \in ns /\ stage[n][c] # "none")]]
    /\ UNCHANGED <<stage, idle, events, member, tcp_out, tcp_gen>>

(* A pump's socket fails.                                                   *)
Breaks(n, c) ==
    /\ Fault /\ stage[n][c] = "pump" /\ Stage(n, c, "ended")
    /\ UNCHANGED <<deaf, idle, events, member, tcp_out, tcp_gen>>

(* on_remove_peer and on_add_peer: the peer's state goes, tcp_out with it.  *)
Revoke(n) ==
    /\ Fault /\ member[n] /\ member' = [member EXCEPT ![n] = FALSE]
    /\ tcp_out' = [tcp_out EXCEPT ![n] = None] /\ tcp_gen' = [tcp_gen EXCEPT ![n] = 0]
    /\ UNCHANGED <<stage, deaf, idle, events>>
Readmit(n) ==
    /\ ~member[n] /\ member' = [member EXCEPT ![n] = TRUE]
    /\ UNCHANGED <<stage, deaf, idle, events, tcp_out, tcp_gen, faults>>

TcpFaults ==
    \/ \E c \in Conns, ns \in (SUBSET Nodes) \ {{}} : GoesDeaf(c, ns)
    \/ \E n \in Nodes : Revoke(n) \/ \E c \in Conns : Breaks(n, c)
TcpTask(n, c) == ReportUp(n, c) \/ PumpEnds(n, c) \/ ReportDown(n, c)

TcpNext ==
    \/ Dial \/ Tick \/ TcpFaults
    \/ \E n \in Nodes : on_tcp_conn(n) \/ Readmit(n) \/ \E c \in Conns : TcpTask(n, c)

(* The tasks, the timers and the workers run; nothing says a fault occurs.  *)
TcpFair ==
    /\ WF_tcpVars(Dial) /\ WF_tcpVars(Tick)
    /\ \A n \in Nodes : WF_tcpVars(on_tcp_conn(n)) /\ WF_tcpVars(Readmit(n))
    /\ \A n \in Nodes, c \in Conns : WF_tcpVars(TcpTask(n, c))

TcpSpec == TcpInit /\ [][TcpNext]_tcpVars /\ TcpFair

-----------------------------------------------------------------------------
TcpTypeOK ==
    /\ faults \in 0..MaxFaults
    /\ stage \in [Nodes -> [Conns -> {"none", "new", "pump", "ended"}]]
    /\ deaf \in [Nodes -> [Conns -> BOOLEAN]] /\ idle \in [Nodes -> [Conns -> 0..IdleLimit - 1]]
    /\ \A n \in Nodes : events[n] \in Seq([conn : Conns, up : BOOLEAN])
    /\ member \in [Nodes -> BOOLEAN]
    /\ tcp_out \in [Nodes -> Conns \cup {None}] /\ tcp_gen \in [Nodes -> Conns \cup {0}]

(* A worker never keeps the sending half of a connection that has ended     *)
(* without its "down" still to come, in whatever order the reports of old   *)
(* and new connections reach it (on_tcp_conn's generations): packets put    *)
(* there would go nowhere while the relay stands by.                        *)
DownStillComes ==
    \A n \in Nodes : tcp_out[n] # None =>
        \/ stage[n][tcp_out[n]] \in {"pump", "ended"}
        \/ [conn |-> tcp_out[n], up |-> FALSE] \in Range(events[n])

(* Once connections stop failing, both ends settle on one that works, even  *)
(* when the last one died unheard in one direction (frame_pump: "a NAT can  *)
(* black-hole one direction").                                              *)
Settled == \E c \in Conns : \A n \in Nodes : tcp_out[n] = c /\ stage[n][c] = "pump" /\ ~deaf[n][c]
=============================================================================
