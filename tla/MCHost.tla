------------------------------- MODULE MCHost -------------------------------
(***************************************************************************)
(* Small instances, for TLC, of what a node does to its host and of the      *)
(* processes it runs in, side by side.  A behaviour is one of the component  *)
(* that `sys' names: it is chosen in the initial state, the component's      *)
(* variables are the first of x1, x2, ... in the order of their declaration, *)
(* and the others are None for good.  So TLC visits the states of each       *)
(* component once, never their product.  Lefts and Rights are                *)
(* interchangeable names (interfaces; clients, exits, DNS servers), which    *)
(* makes the symmetry sound.                                                 *)
(***************************************************************************)
EXTENDS Naturals, TLC

CONSTANTS None, Off, Auto, Reserved, Foreign, m1, m2, g1, g2, Lefts, Rights,
          Components,            \* the components of this run
          HostConfs, HostFaults  \* what HostEffects is given: configurations, failures

VARIABLES sys, x1, x2, x3, x4, x5, x6, x7, x8, x9, x10, x11, x12, x13, x14, x15, x16, x17, x18,
          x19, x20, x21, x22, x23

(* The variables after the n-th, unused by a component that has n of them.   *)
After18 == <<x19, x20, x21, x22, x23>>
None18 == x19 = None /\ x20 = None /\ x21 = None /\ x22 = None /\ x23 = None
After17 == <<x18, After18>>
None17 == x18 = None /\ None18
After16 == <<x17, After17>>
None16 == x17 = None /\ None17
After15 == <<x16, After16>>
None15 == x16 = None /\ None16
After14 == <<x15, After15>>
None14 == x15 = None /\ None15
After13 == <<x14, After14>>
None13 == x14 = None /\ None14
After12 == <<x13, After13>>
None12 == x13 = None /\ None13
After11 == <<x12, After12>>
None11 == x12 = None /\ None12
After10 == <<x11, After11>>
None10 == x11 = None /\ None11
After8 == <<x9, x10, After10>>
None8 == x9 = None /\ x10 = None /\ None10

mcVars == <<sys, x1, x2, x3, x4, x5, x6, x7, x8, x9, x10, x11, x12, x13, x14, x15, x16, x17, x18,
            x19, x20, x21, x22, x23>>

(* The configurations: both peers are exits behind one relay; then one exit  *)
(* is left, because a peer moves and the relay is another, or because there  *)
(* is no relay any more and a peer has no endpoint; or no exit is left.      *)
Conf(ms, c1, c2, ex, rs, ls) ==
    [members |-> ms, cand |-> (1 :> c1 @@ 2 :> c2), exits |-> ex, relays |-> rs, listed |-> ls]
BothExits == Conf({1, 2}, {"a1"}, {"a2"}, {1, 2}, {"r1"}, {})
OneExitLeft == {BothExits, Conf({1, 2}, {"b1"}, {"a2"}, {1}, {"r2"}, {}),
                Conf({1, 2}, {}, {"a2"}, {1, 2}, {}, {"s1"})}
NoExitLeft == {BothExits, Conf({2}, {}, {"a2"}, {}, {}, {})}

(* A host without IPv6 at first (it may come), two with it, one per backend. *)
MCKernels == {<<FALSE, "nft">>, <<TRUE, "iptables">>, <<TRUE, "fw4">>}
MCOwned == [nft |-> {"v6"}, iptables |-> {"v4"}, fw4 |-> {"v4"}]

(* A relay with a STUN server on another name, and one without a key there.  *)
MCRelays == {[name |-> "r", stun |-> "s", key |-> TRUE],
             [name |-> "s", stun |-> None, key |-> FALSE]}

Provider_ == INSTANCE Provider WITH
    Members <- {m1, m2}, Vetoed <- {}, Forced <- {m1}, Kernels <- MCKernels,
    Owned <- MCOwned, MaxFaults <- 1, sysctl <- x1, ipv6 <- x2, backend <- x3,
    baseline <- x4, leases <- x5, rules <- x6, lock <- x7, alive <- x8, stopping <- x9,
    approved <- x10, nat <- x11, job <- x12, admin <- x13, stale <- x14, faults <- x15
PfAnchor_ == INSTANCE PfAnchor WITH
    MaxTokens <- 3, MaxFaults <- 3, journal <- x1, receipt <- x2, refs <- x3, rules <- x4,
    lease <- x5, op <- x6, at <- x7, orphan <- x8, issued <- x9, faults <- x10
RouteBook_ == INSTANCE RouteBook WITH
    Members <- {m1, m2}, Redirects <- {"tun"}, Bypasses <- {"bypass"}, Gateways <- {g1, g2},
    Contested <- {<<"bypass", g1>>}, MaxFaults <- 1, table <- x1, disk <- x2, book <- x3,
    open <- x4, task <- x5, holder <- x6, unsaved <- x7, faults <- x8
HostEffects_ == INSTANCE HostEffects WITH
    Peers <- {1, 2}, Confs <- HostConfs, UseExit <- Auto, Answers <- {"c1", "c2"},
    MaxEpoch <- 2, MaxFaults <- HostFaults, kill <- x1, server <- x2, answer <- x3, pins <- x4,
    known <- x5, pending <- x6, desired <- x7, applied <- x8, relayIps <- x9,
    published <- x10, targets <- x11, exit <- x12, left <- x13, bypass <- x14, plan <- x15,
    guard <- x16, routes <- x17, dns <- x18, stopped <- x19, held <- x20, pc <- x21,
    t <- x22, faults <- x23
KillSwitch_ == INSTANCE KillSwitch WITH
    Hosts <- {"h1"}, Addrs <- {"a", "b"}, MaxFaults <- 2, wanted <- x1, backend <- x2,
    plan <- x3, cache <- x4, rules <- x5, run <- x6, mode <- x7, pins <- x8, asked <- x9,
    job <- x10, faults <- x11
Daemon_ == INSTANCE Daemon WITH
    Ifaces <- Lefts, Clients <- Rights, MaxFaults <- 1, cfg <- x1, members <- x2, proc <- x3,
    shielded <- x4, strayed <- x5, failed <- x6, cleanup <- x7, journal <- x8,
    protected <- x9, terminal <- x10, busy <- x11, closing <- x12, admission <- x13,
    op <- x14, up <- x15, todo <- x16, faults <- x17
NodeRun_ == INSTANCE NodeRun WITH
    MaxFaults <- 2, kill <- x1, retained <- x2, policy <- x3, gate <- x4, slot <- x5,
    host <- x6, cleaned <- x7, record <- x8, pc <- x9, outcome <- x10, serving <- x11,
    sig <- x12, aborted <- x13, down <- x14, saw <- x15, code <- x16, faults <- x17
MobileEngine_ == INSTANCE MobileEngine WITH
    Gens <- {1, 2}, Callers <- {m1, m2}, Systems <- {"android", "ios"}, os <- x1, slot <- x2,
    lock <- x3, call <- x4, started <- x5, thread <- x6, holds <- x7, closes <- x8,
    asked <- x9, stopped <- x10, told <- x11, event <- x12
RelayDirectory_ == INSTANCE RelayDirectory WITH
    Relays <- MCRelays, Names <- {"r", "s"}, Addrs <- {1, 2}, MaxFaults <- 1,
    MaxChanges <- 2, MaxQueries <- 2, served <- x1, dns <- x2, protected <- x3, pc <- x4,
    ctl <- x5, entries <- x6, targets <- x7, pending <- x8, stun_pending <- x9,
    relay_ips <- x10, exempt <- x11, dialed <- x12, query <- x13, waiting <- x14,
    replies <- x15, answer <- x16, faults <- x17, changes <- x18
ExitRoutes_ == INSTANCE ExitRoutes WITH
    Exits <- Rights, Systems <- {"linux", "macos"}, MaxFaults <- 2, MaxChanges <- 1,
    os <- x1, table <- x2, legacy <- x3, ipv6 <- x4, steady <- x5, progress <- x6,
    exit <- x7, stopped <- x8, selected <- x9, pc <- x10, result <- x11, unsure <- x12,
    faults <- x13, changes <- x14
UciDns_ == INSTANCE UciDns WITH
    Servers <- Rights, MaxFaults <- 2, orig <- x1, staged <- x2, committed <- x3,
    running <- x4, file <- x5, state <- x6, todo <- x7, want <- x8, install <- x9,
    swapped <- x10, cut <- x11, torn <- x12, faults <- x13

Init ==
    /\ sys \in Components
    /\ \/ sys = "provider" /\ Provider_!Init /\ None15
       \/ sys = "pf" /\ PfAnchor_!Init /\ None10
       \/ sys = "book" /\ RouteBook_!Init /\ None8
       \/ sys = "host" /\ HostEffects_!Init
       \/ sys = "kill" /\ KillSwitch_!Init /\ None11
       \/ sys = "daemon" /\ Daemon_!Init /\ None17
       \/ sys = "run" /\ NodeRun_!RunInit /\ None17
       \/ sys = "mobile" /\ MobileEngine_!MobileInit /\ None12
       \/ sys = "directory" /\ RelayDirectory_!DirInit /\ None18
       \/ sys = "exits" /\ ExitRoutes_!ExitInit /\ None14
       \/ sys = "uci" /\ UciDns_!UciInit /\ None13

Next ==
    /\ UNCHANGED sys
    /\ \/ sys = "provider" /\ Provider_!Next /\ UNCHANGED After15
       \/ sys = "pf" /\ PfAnchor_!Next /\ UNCHANGED After10
       \/ sys = "book" /\ RouteBook_!Next /\ UNCHANGED After8
       \/ sys = "host" /\ HostEffects_!Next
       \/ sys = "kill" /\ KillSwitch_!Next /\ UNCHANGED After11
       \/ sys = "daemon" /\ Daemon_!Next /\ UNCHANGED After17
       \/ sys = "run" /\ NodeRun_!RunNext /\ UNCHANGED After17
       \/ sys = "mobile" /\ MobileEngine_!MobileNext /\ UNCHANGED After12
       \/ sys = "directory" /\ RelayDirectory_!RelayDirNext /\ UNCHANGED After18
       \/ sys = "exits" /\ ExitRoutes_!ExitNext /\ UNCHANGED After14
       \/ sys = "uci" /\ UciDns_!UciNext /\ UNCHANGED After13

Spec == Init /\ [][Next]_mcVars

Symmetry == Permutations(Lefts) \cup Permutations(Rights)

-----------------------------------------------------------------------------
(* Every component keeps to the types of its state.                          *)
TypeOK ==
    /\ sys = "provider" => Provider_!TypeOK
    /\ sys = "pf" => PfAnchor_!PfTypeOK
    /\ sys = "book" => RouteBook_!BookTypeOK
    /\ sys = "host" => HostEffects_!HostTypeOK
    /\ sys = "kill" => KillSwitch_!KillTypeOK
    /\ sys = "daemon" => Daemon_!DaemonTypeOK
    /\ sys = "run" => NodeRun_!RunTypeOK
    /\ sys = "mobile" => MobileEngine_!MobileTypeOK
    /\ sys = "directory" => RelayDirectory_!RelayDirTypeOK
    /\ sys = "exits" => ExitRoutes_!ExitTypeOK
    /\ sys = "uci" => UciDns_!UciTypeOK

(* A node accounts for all it changes on a host, whatever fails or dies in   *)
(* between.  The forwarding switches are the owner's once the last lease and *)
(* the baseline are gone, and rules are under a lease (Linux, forwarding.rs, *)
(* firewall.rs).  A pf enable reference can be found and given back, with    *)
(* the rules only while it is held (macOS, pf.rs).  The route journal lists  *)
(* every row a member created, no member deletes a row that is not its own,  *)
(* and a cleanup deletes a bypass after the last redirect (route/windows.rs).*)
(* A row of a full tunnel is on the list that will remove it (route.rs), and *)
(* OpenWrt's resolver settings are the owner's after a clear and ours, in    *)
(* force, after a set (dns.rs).                                              *)
HostAccounted ==
    [][/\ sys = "provider" => Provider_!ForwardingRestored' /\ Provider_!RulesUnderLease'
       /\ sys = "pf" => PfAnchor_!PfReferenceAccounted' /\ PfAnchor_!PfRulesBacked'
       /\ sys = "book" => /\ RouteBook_!OwnRowsOnly /\ RouteBook_!BypassOutlivesRedirect
                          /\ RouteBook_!RowsJournaled'
       /\ sys = "exits" => ExitRoutes_!RowsAccounted'
       /\ sys = "uci" => UciDns_!NoresolvKept' /\ UciDns_!ServersInForce']_mcVars

(* While the default route points into the tunnel, every address the tunnel  *)
(* is carried by has a bypass, and under the kill switch a permission, with  *)
(* any one effect failing (apply_pending, HostRuntime::tick in lib.rs); and  *)
(* cleanup is final: no step of a tick that was under way, or that starts    *)
(* late, installs anything after it.  The tunnel's routes go up as a whole:  *)
(* an exit that is up has both IPv4 halves and an IPv6 guard (exit_up_with,  *)
(* v6_block_up in route.rs).                                                 *)
EffectsHold ==
    [][/\ sys = "host" => /\ HostEffects_!CarriersBypassed' /\ HostEffects_!CarriersPermitted'
                          /\ HostEffects_!NothingAfterCleanup
       /\ sys = "exits" => ExitRoutes_!ExitWhole']_mcVars

(* Whatever a directory change or a failure on the way is at, the relay the  *)
(* supervisor may dial is let past the tunnel, and a public address is only  *)
(* reported from the answer to the current query (refresh_directory,         *)
(* reconcile_tick and refresh_stun in lib.rs, StunRefresh in control.rs).    *)
DirectoryFollowed == sys = "directory" => RelayDirectory_!DialsExempt /\ RelayDirectory_!AnswerFresh

(* The kill switch (client.rs, carriers.rs): rules are never on the host     *)
(* without the plan that repairs and removes them, a process that runs       *)
(* protected has them all, and no lookup that was under way changes a pinned *)
(* name once the cache is locked.                                            *)
KillSwitchHolds ==
    [][sys = "kill" => /\ KillSwitch_!RulesPlanned' /\ KillSwitch_!NoGap'
                       /\ KillSwitch_!PinsApproved]_mcVars

(* route.rs keeps the bypasses "until every redirect is gone"; that includes *)
(* the redirects a failed set-up and a failed rollback left (tick in lib.rs).*)
RedirectsBypassed == sys = "host" => HostEffects_!RedirectsBypassed

(* Processes end clean.  The daemon lists every process, runs a protected    *)
(* network alone, and leaves neither process nor protection behind a         *)
(* shutdown it acknowledged (daemon.rs).  A node that ends, at any point of  *)
(* its start or of a tick, leaves the host and the kill switch as it         *)
(* promises, is never locked out of the control server, and puts a final     *)
(* error on record (run_with in lib.rs).  Daemon and NodeRun state what each *)
(* leaves out: a configuration edited before its process read it, a record   *)
(* that could not be written.  On a phone there is one engine, its           *)
(* descriptor is closed once, nothing is called back after a stop, and the   *)
(* way an engine ended is known (fp-node-mobile-sys).                        *)
ProcessesEndClean ==
    /\ sys = "daemon" => Daemon_!ChildrenListed /\ Daemon_!Exclusive /\ Daemon_!ShutdownClean
    /\ sys = "run" => /\ NodeRun_!HostRestored /\ NodeRun_!SwitchTakenDown
                      /\ NodeRun_!NotLockedOut /\ NodeRun_!TerminalOnRecord
    /\ sys = "mobile" => /\ MobileEngine_!FdClosedOnce /\ MobileEngine_!OneEngine
                         /\ MobileEngine_!QuietAfterStop /\ MobileEngine_!ExitKnown
=============================================================================
