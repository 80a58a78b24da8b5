---------------------------- MODULE AnytlsClient ----------------------------
(***************************************************************************)
(* build_client_bond of the AnyTLS transport: the links of a bond are       *)
(* dialled, and a background task pings them and dials replacements until   *)
(* the bond is closed.  The task sleeps in a select over close_notify,      *)
(* reader_dead_notify and an interval.  notify_waiters wakes it only if it  *)
(* sleeps at that moment; notify_one leaves a permit behind.                *)
(*                                                                         *)
(* Weights go by the literals of health.rs in tens: Full stands for 100, a  *)
(* good round trip adds 1 and a bad one takes 2.                            *)
(***************************************************************************)
EXTENDS Naturals, FiniteSets

CONSTANTS Ids,          \* 0..n, link ids in the order they are given out
          Target,       \* effective_bond_connections
          MaxFailures,  \* max_consecutive_failures
          Full,         \* the weight of a new link
          MaxFaults,    \* bound on connections cut and pings that are slow
          Modes         \* whether the links authenticate: a subset of BOOLEAN

VARIABLES proven,   \* there is an authenticator
          task,     \* where build_client_bond and its task are
          link,     \* id -> [on, path, driver, reader, writer, fails, weight]
          at,       \* link the task pings
          pong,     \* its stream is open, the answer not yet recorded
          next,     \* next_id
          closed,   \* BondGroup.closed
          active,   \* the session of the bond
          woken,    \* close_notify reached the sleeping task
          permit,   \* reader_dead_notify
          unseen,   \* history: readers that died since the task last woke
          faults

clientBondVars == <<proven, task, link, at, pong, next, closed, active, woken, permit, unseen, faults>>

Unused == [on |-> FALSE, path |-> FALSE, driver |-> FALSE, reader |-> FALSE, writer |-> FALSE,
        fails |-> 0, weight |-> Full]

(* connect_authenticated has spawned the driver, add_stream the two tasks.  *)
Fresh == [Unused EXCEPT !.on = TRUE, !.path = TRUE, !.driver = TRUE, !.reader = TRUE, !.writer = TRUE]

On == {i \in Ids : link[i].on}
Added(S) == [i \in Ids |-> IF i \in S THEN Fresh ELSE link[i]]

RecordFailure(l) ==
    [l EXCEPT !.fails = IF @ < MaxFailures THEN @ + 1 ELSE @,
              !.weight = IF l.fails + 1 >= MaxFailures THEN 0 ELSE @]

RecordRtt(l, slow) ==
    [l EXCEPT !.fails = 0,
              !.weight = IF slow THEN (IF @ < 2 THEN 0 ELSE @ - 2) ELSE (IF @ < Full THEN @ + 1 ELSE @)]

IsDead(l) == l.weight = 0
AliveCount == Cardinality({i \in On : ~IsDead(link[i])})

(* With an authenticator link 0 is proven before any other is dialled, and  *)
(* its failure fails the bond.                                              *)
BuildPrimary ==
    /\ task = "primary"
    /\ \/ link' = Added({0}) /\ task' = "rest"
       \/ UNCHANGED link /\ task' = "failed"
    /\ UNCHANGED <<proven, at, pong, next, closed, active, woken, permit, unseen, faults>>

(* join_all: any of the others may fail; one link is enough.                *)
BuildRest ==
    /\ task = "rest"
    /\ \E S \in SUBSET ((IF proven THEN 1 ELSE 0)..(Target - 1)) :
         /\ link' = Added(S)
         /\ task' = IF S # {} \/ proven THEN "sleep" ELSE "failed"
    /\ UNCHANGED <<proven, at, pong, next, closed, active, woken, permit, unseen, faults>>

(* The network loses the connection of a link.                              *)
Cut(i) ==
    /\ i \in On /\ link[i].path /\ faults < MaxFaults
    /\ faults' = faults + 1
    /\ link' = [link EXCEPT ![i].path = FALSE]
    /\ UNCHANGED <<proven, task, at, pong, next, closed, active, woken, permit, unseen>>

(* spawn_yamux_driver ends with its connection, not with the bond.          *)
DriverEnds(i) ==
    /\ i \in On /\ ~link[i].path /\ link[i].driver
    /\ link' = [link EXCEPT ![i] = RecordFailure([@ EXCEPT !.driver = FALSE])]
    /\ UNCHANGED <<proven, task, at, pong, next, closed, active, woken, permit, unseen, faults>>

\* Mutant of ReaderEnds: the health loop is woken only if it sleeps right now.
BugReaderEnds(i) ==
    /\ i \in On /\ link[i].reader
    /\ \/ /\ ~link[i].path
          /\ link' = [link EXCEPT ![i] = RecordFailure([@ EXCEPT !.reader = FALSE])]
          /\ permit' = (permit \/ task = "sleep") /\ unseen' = unseen \cup {i}
       \/ /\ link[i].path /\ ~active
          /\ link' = [link EXCEPT ![i].reader = FALSE]
          /\ UNCHANGED <<permit, unseen>>
    /\ UNCHANGED <<proven, task, at, pong, next, closed, active, woken, faults>>

(* The reader task of add_stream: an error counts as a failure and wakes    *)
(* the health loop; a revoked session ends it silently.                     *)
ReaderEnds(i) ==
    /\ i \in On /\ link[i].reader
    /\ \/ /\ ~link[i].path
          /\ link' = [link EXCEPT ![i] = RecordFailure([@ EXCEPT !.reader = FALSE])]
          /\ permit' = TRUE /\ unseen' = unseen \cup {i}
       \/ /\ link[i].path /\ ~active
          /\ link' = [link EXCEPT ![i].reader = FALSE]
          /\ UNCHANGED <<permit, unseen>>
    /\ UNCHANGED <<proven, task, at, pong, next, closed, active, woken, faults>>

(* BondGroup::send hands a frame to a link that is not dead; its send task  *)
(* fails on a lost connection.                                              *)
WriterFails(i) ==
    /\ ~closed /\ active /\ i \in On /\ link[i].writer /\ ~IsDead(link[i]) /\ ~link[i].path
    /\ link' = [link EXCEPT ![i] = RecordFailure([@ EXCEPT !.writer = FALSE])]
    /\ UNCHANGED <<proven, task, at, pong, next, closed, active, woken, permit, unseen, faults>>

(* BondGroup::close *)
Close ==
    /\ task \notin {"primary", "rest", "failed"} /\ ~closed
    /\ closed' = TRUE
    /\ active' = (active /\ ~proven)
    /\ woken' = (task = "sleep")
    /\ UNCHANGED <<proven, task, link, at, pong, next, permit, unseen, faults>>

(* BondedSender::drop takes the session along and closes nothing.           *)
DropSender ==
    /\ task \notin {"primary", "rest", "failed"} /\ proven /\ active
    /\ active' = FALSE
    /\ UNCHANGED <<proven, task, link, at, pong, next, closed, woken, permit, unseen, faults>>

(* One of the three branches of the select is taken.                        *)
Wake ==
    /\ task = "sleep"
    /\ \/ woken /\ task' = "done" /\ UNCHANGED <<permit, unseen>>
       \/ permit /\ task' = "check" /\ permit' = FALSE /\ unseen' = {}
       \/ task' = "check" /\ unseen' = {} /\ UNCHANGED permit        \* interval.tick
    /\ UNCHANGED <<proven, link, at, pong, next, closed, active, woken, faults>>

\* Mutant of Check: the task relies on close_notify alone.
BugCheck ==
    /\ task = "check"
    /\ task' = "ping" /\ at' = 0
    /\ UNCHANGED <<proven, link, pong, next, closed, active, woken, permit, unseen, faults>>

Check ==
    /\ task = "check"
    /\ IF closed \/ ~active THEN task' = "done" /\ UNCHANGED at ELSE task' = "ping" /\ at' = 0
    /\ UNCHANGED <<proven, link, pong, next, closed, active, woken, permit, unseen, faults>>

(* ManagedConnection::ping of every managed link in turn: it fails without  *)
(* a driver or when the driver is slow, and the answer is recorded later.   *)
Ping ==
    /\ task = "ping" /\ at \in Ids /\ ~pong
    /\ \/ at \notin On /\ at' = at + 1 /\ UNCHANGED <<link, pong, faults>>
       \/ at \in On /\ link[at].driver /\ pong' = TRUE /\ UNCHANGED <<link, at, faults>>
       \/ /\ at \in On
          /\ \/ ~link[at].driver /\ UNCHANGED faults
             \/ link[at].driver /\ faults < MaxFaults /\ faults' = faults + 1
          /\ link' = [link EXCEPT ![at] = RecordFailure(@)]
          /\ at' = at + 1 /\ UNCHANGED pong
    /\ UNCHANGED <<proven, task, next, closed, active, woken, permit, unseen>>

Pong ==
    /\ task = "ping" /\ pong
    /\ \E slow \in BOOLEAN :
         /\ slow => faults < MaxFaults
         /\ faults' = IF slow THEN faults + 1 ELSE faults
         /\ link' = [link EXCEPT ![at] = RecordRtt(@, slow)]
    /\ pong' = FALSE /\ at' = at + 1
    /\ UNCHANGED <<proven, task, next, closed, active, woken, permit, unseen>>

Count ==
    /\ task = "ping" /\ at \notin Ids
    /\ task' = IF AliveCount < Target THEN "dial" ELSE "sleep"
    /\ UNCHANGED <<proven, link, at, pong, next, closed, active, woken, permit, unseen, faults>>

(* The dial takes its time; add_stream drops the stream of a bond closed    *)
(* meanwhile.  The connection itself stays with the managed ones.           *)
Dial ==
    /\ task = "dial"
    /\ \/ /\ next \in Ids
          /\ link' = IF closed THEN link ELSE Added({next})
          /\ next' = next + 1
       \/ UNCHANGED <<link, next>>
    /\ task' = "sleep"
    /\ UNCHANGED <<proven, at, pong, closed, active, woken, permit, unseen, faults>>

BondInit ==
    /\ proven \in Modes /\ task = (IF proven THEN "primary" ELSE "rest")
    /\ link = [i \in Ids |-> Unused] /\ at = 0 /\ pong = FALSE /\ next = Target
    /\ closed = FALSE /\ active = TRUE /\ woken = FALSE /\ permit = FALSE /\ unseen = {} /\ faults = 0

Loop == Wake \/ Check \/ Ping \/ Pong \/ Count \/ Dial

BondNext ==
    \/ BuildPrimary \/ BuildRest \/ Loop \/ Close \/ DropSender
    \/ \E i \in Ids : Cut(i) \/ DriverEnds(i) \/ ReaderEnds(i) \/ WriterFails(i)

(* The task and the readers run; nothing makes the bond be closed.          *)
BondFair == WF_clientBondVars(Loop)

BondSpec == BondInit /\ [][BondNext]_clientBondVars /\ BondFair

-----------------------------------------------------------------------------
BondTypeOK ==
    /\ task \in {"primary", "rest", "failed", "sleep", "check", "ping", "dial", "done"}
    /\ link \in [Ids -> [on : BOOLEAN, path : BOOLEAN, driver : BOOLEAN, reader : BOOLEAN, writer : BOOLEAN,
                         fails : 0..MaxFailures, weight : 0..Full]]
    /\ at \in 0..Cardinality(Ids) /\ next \in 0..Cardinality(Ids) /\ unseen \subseteq Ids
    /\ {proven, pong, closed, active, woken, permit} \subseteq BOOLEAN /\ faults \in 0..MaxFaults

(* The health loop never goes to sleep on the death of a reader it has not  *)
(* looked at: whenever the reader dies, be it while the loop pings or       *)
(* dials, the next select returns at once (reader_dead_notify).             *)
DeathNoticed == task = "sleep" /\ unseen # {} => permit

(* Closing the bond ends the background task, also when close_notify finds  *)
(* it pinging or dialling and wakes nobody (is_closed after the select).    *)
is_closed == closed
Stopped == task \in {"done", "failed"}

=============================================================================
