------------------------------ MODULE BondLinks ------------------------------
(***************************************************************************)
(* The client's side of a bonded connection: every link has a yamux driver, *)
(* a reader and a writer task and health counters that all three and the    *)
(* ping loop update, and a background loop replaces links that are dead.    *)
(* Weights go by the literals of health.rs: FullWeight stands for 100, Gain *)
(* for the 10 a good round trip adds, Loss for the 20 a bad one takes.      *)
(***************************************************************************)
EXTENDS Naturals, FiniteSets

CONSTANTS Links,        \* 1..n, the ids the background loop may give out
          Target,       \* effective_bond_connections
          MaxFailures,  \* max_consecutive_failures
          FullWeight, Gain, Loss,
          LinkQueue,    \* LINK_QUEUE
          MaxCuts, MaxSlow

VARIABLES link,    \* link -> [on, path, driver, reader, writer, queue, fails, weight, pong]
          bg,      \* link the loop pings next, 0 while it waits for the interval
          cursor,  \* BondGroup.spray
          active,  \* the session of the bond
          cuts, slow

bondVars == <<link, bg, cursor, active, cuts, slow>>

None0 == [on |-> FALSE, path |-> FALSE, driver |-> FALSE, reader |-> FALSE, writer |-> FALSE,
          queue |-> 0, fails |-> 0, weight |-> FullWeight, pong |-> FALSE]
NewLink == [None0 EXCEPT !.on = TRUE, !.path = TRUE, !.driver = TRUE, !.reader = TRUE, !.writer = TRUE]

On == {i \in Links : link[i].on}
Set(i, l) == link' = [link EXCEPT ![i] = l]
Least(a, b) == IF a < b THEN a ELSE b
Minus(a, b) == IF a < b THEN 0 ELSE a - b

(* ConnHealth::record_failure *)
RecordFailure(l) ==
    LET f == Least(l.fails + 1, MaxFailures)
    IN  [l EXCEPT !.fails = f, !.weight = IF f >= MaxFailures THEN 0 ELSE @]

(* ConnHealth::record_rtt: the failures are forgotten, a fast answer earns  *)
(* weight and a slow one costs it.                                          *)
RecordRtt(l, rtt) ==
    [l EXCEPT !.fails = 0,
              !.weight = CASE rtt = "fast" -> Least(@ + Gain, FullWeight)
                           [] rtt = "slow" -> Minus(@, Loss)
                           [] OTHER -> @]

IsDead(l) == l.weight = 0
AliveCount == Cardinality({i \in On : ~IsDead(link[i])})

(* The network loses the TCP connection of a link.                          *)
Cut(i) ==
    /\ i \in On /\ link[i].path /\ cuts < MaxCuts
    /\ cuts' = cuts + 1
    /\ Set(i, [link[i] EXCEPT !.path = FALSE])
    /\ UNCHANGED <<bg, cursor, active, slow>>

(* spawn_yamux_driver: the connection is closed or in error.                *)
DriverEnds(i) ==
    /\ i \in On /\ ~link[i].path /\ link[i].driver
    /\ Set(i, RecordFailure([link[i] EXCEPT !.driver = FALSE]))
    /\ UNCHANGED <<bg, cursor, active, cuts, slow>>

(* The reader task of add_stream: it counts a failure when the stream ends, *)
(* none when it stops because the session is revoked.                       *)
ReaderEnds(i) ==
    /\ i \in On /\ link[i].reader
    /\ \/ ~link[i].path /\ Set(i, RecordFailure([link[i] EXCEPT !.reader = FALSE]))
       \/ link[i].path /\ ~active /\ Set(i, [link[i] EXCEPT !.reader = FALSE])
    /\ UNCHANGED <<bg, cursor, active, cuts, slow>>

(* The send task of add_stream drains the whole queue before it flushes.    *)
Write(i) ==
    /\ i \in On /\ link[i].writer /\ link[i].queue > 0
    /\ Set(i, IF link[i].path THEN [link[i] EXCEPT !.queue = 0]
              ELSE RecordFailure([link[i] EXCEPT !.queue = 0, !.writer = FALSE]))
    /\ UNCHANGED <<bg, cursor, active, cuts, slow>>

(* BondGroup::send: from a rotating cursor, the first link that is not dead *)
(* and takes the frame.  Without one the caller ends the connection, which  *)
(* invalidates the session (connect_relay_bonded, BondedSender::drop).      *)
Takes(l) == ~IsDead(l) /\ l.writer /\ l.queue < LinkQueue
Send ==
    LET n == Cardinality(On)
        at(k) == ((cursor + k) % n) + 1
        ks == {k \in 0..(n - 1) : Takes(link[at(k)])}
    IN  /\ active
        /\ cursor' = (cursor + 1) % n
        /\ IF ks = {} THEN active' = FALSE /\ UNCHANGED link
           ELSE LET i == at(CHOOSE k \in ks : \A j \in ks : k <= j)
                IN  Set(i, [link[i] EXCEPT !.queue = @ + 1]) /\ UNCHANGED active
        /\ UNCHANGED <<bg, cuts, slow>>

(* The loop of build_client_bond wakes up, unless the session is revoked.   *)
Tick ==
    /\ bg = 0 /\ active
    /\ bg' = 1
    /\ UNCHANGED <<link, cursor, active, cuts, slow>>

\* Mutant of Ping: a stream that cannot be opened counts for nothing.
BugPing ==
    /\ bg \in On /\ ~link[bg].pong
    /\ \/ link[bg].driver /\ Set(bg, [link[bg] EXCEPT !.pong = TRUE]) /\ UNCHANGED bg
       \/ ~link[bg].driver /\ bg' = bg + 1 /\ UNCHANGED link
    /\ UNCHANGED <<cursor, active, cuts, slow>>

(* ManagedConnection::ping: opening a stream needs the driver, which may be *)
(* gone or take too long; the answer is recorded in a later step.           *)
Ping ==
    /\ bg \in On /\ ~link[bg].pong
    /\ \/ link[bg].driver /\ Set(bg, [link[bg] EXCEPT !.pong = TRUE]) /\ UNCHANGED <<bg, slow>>
       \/ /\ ~link[bg].driver
          /\ Set(bg, RecordFailure(link[bg])) /\ bg' = bg + 1 /\ UNCHANGED slow
       \/ /\ link[bg].driver /\ slow < MaxSlow /\ slow' = slow + 1
          /\ Set(bg, RecordFailure(link[bg])) /\ bg' = bg + 1
    /\ UNCHANGED <<cursor, active, cuts>>

Pong ==
    /\ bg \in On /\ link[bg].pong
    /\ \E rtt \in {"fast", "mid", "slow"} :
         /\ rtt # "fast" => slow < MaxSlow
         /\ slow' = IF rtt = "fast" THEN slow ELSE slow + 1
         /\ Set(bg, RecordRtt([link[bg] EXCEPT !.pong = FALSE], rtt))
    /\ bg' = bg + 1
    /\ UNCHANGED <<cursor, active, cuts>>

(* Below target one link is dialled; ids are given out in order.            *)
Replenish ==
    /\ bg # 0 /\ bg \notin On
    /\ \/ /\ AliveCount < Target /\ bg \in Links
          /\ Set(bg, NewLink)
       \/ UNCHANGED link                       \* enough links, or the dial fails
    /\ bg' = 0
    /\ UNCHANGED <<cursor, active, cuts, slow>>

(* The relay revokes the session, or the connection is closed.              *)
Revoke ==
    /\ active /\ active' = FALSE
    /\ UNCHANGED <<link, bg, cursor, cuts, slow>>

(* build_client_bond succeeds with one link at least; the first is up.      *)
BondInit ==
    /\ \E n \in 1..Target : link = [i \in Links |-> IF i <= n THEN NewLink ELSE None0]
    /\ bg = 0 /\ cursor = 0 /\ active = TRUE /\ cuts = 0 /\ slow = 0

Loop == Tick \/ Ping \/ Pong \/ Replenish

BondNext ==
    \/ \E i \in Links : Cut(i) \/ DriverEnds(i) \/ ReaderEnds(i) \/ Write(i)
    \/ Send \/ Loop \/ Revoke

(* Tasks run, the loop's interval ticks.  Nothing makes the application     *)
(* send, the network fail or the relay revoke.                              *)
BondFair ==
    /\ WF_bondVars(Loop)
    /\ \A i \in Links : WF_bondVars(DriverEnds(i)) /\ WF_bondVars(ReaderEnds(i)) /\ WF_bondVars(Write(i))

BondSpec == BondInit /\ [][BondNext]_bondVars /\ BondFair

-----------------------------------------------------------------------------
BondTypeOK ==
    /\ link \in [Links -> [on : BOOLEAN, path : BOOLEAN, driver : BOOLEAN, reader : BOOLEAN, writer : BOOLEAN,
                           queue : 0..LinkQueue, fails : 0..MaxFailures, weight : 0..FullWeight, pong : BOOLEAN]]
    /\ bg \in 0..(Cardinality(Links) + 1) /\ cursor \in Nat /\ active \in BOOLEAN

(* A link whose connection is gone is counted as dead for good in the end,  *)
(* though the pong of a ping that was under way may clear its failures and  *)
(* even lift it from weight 0 again; only then does the loop replace it     *)
(* (ConnHealth::record_rtt, record_failure, build_client_bond).             *)
Retired(i) == active /\ link[i].on /\ ~link[i].path => IsDead(link[i])

=============================================================================
