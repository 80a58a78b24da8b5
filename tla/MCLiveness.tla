----------------------------- MODULE MCLiveness -----------------------------
(***************************************************************************)
(* Small instances, side by side, of the components whose liveness is        *)
(* checked.  As in MCHost, `sys' names the component a behaviour is of, its  *)
(* variables are the first of x1, x2, ... and the others are None.           *)
(***************************************************************************)
EXTENDS Naturals, TLC

CONSTANTS None, Off, Auto, k1, k2

VARIABLES sys, x1, x2, x3, x4, x5, x6, x7, x8, x9, x10, x11, x12, x13, x14, x15, x16, x17, x18,
          x19, x20, x21, x22, x23

After13 == <<x14, x15, x16, x17, x18, x19, x20, x21, x22, x23>>
None13 == x14 = None /\ x15 = None /\ x16 = None /\ x17 = None /\ x18 = None /\ x19 = None /\ x20 = None /\ x21 = None /\ x22 = None /\ x23 = None
After12 == <<x13, After13>>
None12 == x13 = None /\ None13
After8 == <<x9, x10, x11, x12, After12>>
None8 == x9 = None /\ x10 = None /\ x11 = None /\ x12 = None /\ None12
After6 == <<x7, x8, After8>>
None6 == x7 = None /\ x8 = None /\ None8

mcVars == <<sys, x1, x2, x3, x4, x5, x6, x7, x8, x9, x10, x11, x12, x13, x14, x15, x16, x17, x18,
            x19, x20, x21, x22, x23>>

(* Two configurations: both peers are exits behind a relay; no exit is left. *)
Conf(ms, c1, c2, ex, rs) ==
    [members |-> ms, cand |-> (1 :> c1 @@ 2 :> c2), exits |-> ex, relays |-> rs, listed |-> {}]
MCConfs == {Conf({1, 2}, {"a1"}, {"a2"}, {1, 2}, {"r1"}), Conf({2}, {}, {"a2"}, {}, {})}

Relay_ == INSTANCE Relay WITH
    Keys <- {k1, k2}, Bonded <- {k2}, Conns <- {1, 2}, QueueCap <- 1, Buf <- 1, BondBuf <- 2,
    MaxSends <- 2, MaxCuts <- 1, key <- x1, cli <- x2, srv <- x3, active <- x4, peers <- x5,
    queue <- x6, up <- x7, down <- x8, cliOut <- x9, srvOut <- x10, cut <- x11,
    retired <- x12, sends <- x13
BondLinks_ == INSTANCE BondLinks WITH
    Links <- {1, 2}, Target <- 2, MaxFailures <- 2, FullWeight <- 3, Gain <- 1, Loss <- 2,
    LinkQueue <- 1, MaxCuts <- 1, MaxSlow <- 1, link <- x1, bg <- x2, cursor <- x3,
    active <- x4, cuts <- x5, slow <- x6
ConfigPush_ == INSTANCE ConfigPush WITH
    Handlers <- {1}, MaxChanges <- 2, MaxDrops <- 1, content <- x1, epoch <- x2, token <- x3,
    active <- x4, handler <- x5, chan <- x6, watcher <- x7, pushed <- x8, log <- x9,
    fence <- x10, changes <- x11, drops <- x12
HostEffects_ == INSTANCE HostEffects WITH
    Peers <- {1, 2}, Confs <- MCConfs, UseExit <- Auto, Answers <- {"c1"}, MaxEpoch <- 2,
    MaxFaults <- 2, kill <- x1, server <- x2, answer <- x3, pins <- x4, known <- x5,
    pending <- x6, desired <- x7, applied <- x8, relayIps <- x9, published <- x10,
    targets <- x11, exit <- x12, left <- x13, bypass <- x14, plan <- x15, guard <- x16,
    routes <- x17, dns <- x18, stopped <- x19, held <- x20, pc <- x21, t <- x22,
    faults <- x23
AnytlsClient_ == INSTANCE AnytlsClient WITH
    Ids <- {0, 1}, Target <- 2, MaxFailures <- 2, Full <- 2, MaxFaults <- 1,
    Modes <- BOOLEAN, proven <- x1, task <- x2, link <- x3, at <- x4, pong <- x5, next <- x6,
    closed <- x7, active <- x8, woken <- x9, permit <- x10, unseen <- x11, faults <- x12
TcpDirect_ == INSTANCE TcpDirect WITH
    MaxConns <- 2, MaxFaults <- 1, IdleLimit <- 2, stage <- x1, deaf <- x2, idle <- x3,
    events <- x4, member <- x5, tcp_out <- x6, tcp_gen <- x7, faults <- x8

Init ==
    \/ sys = "relay" /\ Relay_!Init /\ None13
    \/ sys = "bond" /\ BondLinks_!BondInit /\ None6
    \/ sys = "push" /\ ConfigPush_!PushInit /\ None12
    \/ sys = "host" /\ HostEffects_!Init
    \/ sys = "anytls" /\ AnytlsClient_!BondInit /\ None12
    \/ sys = "tcp" /\ TcpDirect_!TcpInit /\ None8

Next ==
    /\ UNCHANGED sys
    /\ \/ sys = "relay" /\ Relay_!Next /\ UNCHANGED After13
       \/ sys = "bond" /\ BondLinks_!BondNext /\ UNCHANGED After6
       \/ sys = "push" /\ ConfigPush_!PushNext /\ UNCHANGED After12
       \/ sys = "host" /\ HostEffects_!Next
       \/ sys = "anytls" /\ AnytlsClient_!BondNext /\ UNCHANGED After12
       \/ sys = "tcp" /\ TcpDirect_!TcpNext /\ UNCHANGED After8

(* The fairness of each component, of its steps: the tasks of a connection,  *)
(* the ping loop and the tasks of a link, the handlers, the reads and the    *)
(* heartbeat of a watch, the reconcile loop and the end of its delays, the   *)
(* bond's task, the dialler, the timer, the tasks and workers of TCP-direct. *)
(* As sys never changes, one WF stands for one step of each component.       *)
Fair1 ==
    /\ UNCHANGED sys
    /\ \/ sys = "relay" /\ Relay_!ServerTask(1) /\ UNCHANGED After13
       \/ sys = "bond" /\ BondLinks_!Loop /\ UNCHANGED After6
       \/ sys = "push" /\ ConfigPush_!Handle(1) /\ UNCHANGED After12
       \/ sys = "host" /\ HostEffects_!Step
       \/ sys = "anytls" /\ AnytlsClient_!Loop /\ UNCHANGED After12
       \/ sys = "tcp" /\ TcpDirect_!Dial /\ UNCHANGED After8
Fair2 ==
    /\ UNCHANGED sys
    /\ \/ sys = "relay" /\ Relay_!ServerTask(2) /\ UNCHANGED After13
       \/ sys = "bond" /\ BondLinks_!DriverEnds(1) /\ UNCHANGED After6
       \/ sys = "host" /\ HostEffects_!Elapse("retire")
       \/ sys = "tcp" /\ TcpDirect_!Tick /\ UNCHANGED After8
Fair3 ==
    /\ UNCHANGED sys
    /\ \/ sys = "relay" /\ Relay_!ClientTask(1) /\ UNCHANGED After13
       \/ sys = "bond" /\ BondLinks_!DriverEnds(2) /\ UNCHANGED After6
       \/ sys = "push" /\ ConfigPush_!Heartbeat /\ UNCHANGED After12
       \/ sys = "host" /\ HostEffects_!Elapse("routes")
       \/ sys = "tcp" /\ TcpDirect_!on_tcp_conn("dialer") /\ UNCHANGED After8
Fair4 ==
    /\ UNCHANGED sys
    /\ \/ sys = "relay" /\ Relay_!ClientTask(2) /\ UNCHANGED After13
       \/ sys = "bond" /\ BondLinks_!ReaderEnds(1) /\ UNCHANGED After6
       \/ sys = "push" /\ ConfigPush_!Read /\ UNCHANGED After12
       \/ sys = "host" /\ HostEffects_!Elapse("exit")
       \/ sys = "tcp" /\ TcpDirect_!on_tcp_conn("acceptor") /\ UNCHANGED After8
Fair5 ==
    /\ UNCHANGED sys
    /\ \/ sys = "bond" /\ BondLinks_!ReaderEnds(2) /\ UNCHANGED After6
       \/ sys = "host" /\ HostEffects_!Elapse("dns")
       \/ sys = "tcp" /\ TcpDirect_!Readmit("dialer") /\ UNCHANGED After8
Fair6 ==
    /\ UNCHANGED sys
    /\ \/ sys = "bond" /\ BondLinks_!Write(1) /\ UNCHANGED After6
       \/ sys = "tcp" /\ TcpDirect_!Readmit("acceptor") /\ UNCHANGED After8
Fair7 ==
    /\ UNCHANGED sys
    /\ \/ sys = "bond" /\ BondLinks_!Write(2) /\ UNCHANGED After6
       \/ sys = "tcp" /\ TcpDirect_!TcpTask("dialer", 1) /\ UNCHANGED After8
Fair8 ==
    /\ UNCHANGED sys
    /\ \/ sys = "tcp" /\ TcpDirect_!TcpTask("dialer", 2) /\ UNCHANGED After8
Fair9 ==
    /\ UNCHANGED sys
    /\ \/ sys = "tcp" /\ TcpDirect_!TcpTask("acceptor", 1) /\ UNCHANGED After8
Fair10 ==
    /\ UNCHANGED sys
    /\ \/ sys = "tcp" /\ TcpDirect_!TcpTask("acceptor", 2) /\ UNCHANGED After8
Fairness == /\ WF_mcVars(Fair1)
            /\ WF_mcVars(Fair2)
            /\ WF_mcVars(Fair3)
            /\ WF_mcVars(Fair4)
            /\ WF_mcVars(Fair5)
            /\ WF_mcVars(Fair6)
            /\ WF_mcVars(Fair7)
            /\ WF_mcVars(Fair8)
            /\ WF_mcVars(Fair9)
            /\ WF_mcVars(Fair10)

FairSpec == Init /\ [][Next]_mcVars /\ Fairness

-----------------------------------------------------------------------------
(* Every component keeps to the types of its state.                          *)
TypeOK ==
    /\ sys = "relay" => Relay_!TypeOK
    /\ sys = "bond" => BondLinks_!BondTypeOK
    /\ sys = "push" => ConfigPush_!PushTypeOK
    /\ sys = "host" => HostEffects_!HostTypeOK
    /\ sys = "anytls" => AnytlsClient_!BondTypeOK
    /\ sys = "tcp" => TcpDirect_!TcpTypeOK

(* However a connection dies, and the sessions of its key come and go, no    *)
(* registration is left with it: the server notices (idle timeout, end of    *)
(* file) and the hub forgets it (server.rs, hub.rs).                         *)
DeadIsFreed ==
    <>[](sys = "relay" => \A k \in {k1, k2}, c \in {1, 2} : ~Relay_!DeadHolds(k, c))

(* A connection that is gone is given up and replaced.  A bonded link ends   *)
(* up dead for good, though a pong that was under way may revive it for a    *)
(* while (tcp-bond health.rs, conn.rs); the task of a bond over anytls stops *)
(* once the bond is closed (connector.rs); the two ends of TCP-direct settle *)
(* on a connection that works, even when the last one died unheard in one    *)
(* direction (tcp_direct.rs, on_tcp_conn).                                   *)
LostLinkRetired ==
    <>[](/\ sys = "bond" => \A i \in {1, 2} : BondLinks_!Retired(i)
         /\ sys = "anytls" => (AnytlsClient_!is_closed => AnytlsClient_!Stopped)
         /\ sys = "tcp" => TcpDirect_!Settled)

(* A device that keeps watching gets what the database holds, even when the  *)
(* announcement of a change was lost (lib.rs sql_watch_loop_with_idle).      *)
PushConverges == <>[](sys = "push" => ConfigPush_!UpToDate)

(* The configuration of the control plane is applied in the end unless the   *)
(* node is stopped, whichever effects fail on the way: each is tried again   *)
(* (lib.rs reconcile_tick, apply.rs Retry).                                  *)
ConfigConverges == <>[](sys = "host" => HostEffects_!Converged)

=============================================================================
