------------------------------ MODULE Provider ------------------------------
(***************************************************************************)
(* The exit provider of a Linux host (node/src/lib.rs sync_nat and         *)
(* reconcile_nat, node/src/firewall.rs, node/src/firewall/forwarding.rs):  *)
(* several members, each a process of its own, turn forwarding and NAT on  *)
(* and off.  The forwarding sysctls are shared: each member leaves a lease *)
(* on disk, the first one saves the values it found (the baseline), the    *)
(* last one puts them back.  The disk outlives the processes, and a        *)
(* process may die between any two steps.  A file lock serialises the      *)
(* operations; the kernel drops it with its holder.                        *)
(*                                                                         *)
(* The forward-guard tables of fw-selftest are left out: no node installs  *)
(* them.  Whether the preflight finds a foreign drop is a fault.           *)
(***************************************************************************)
EXTENDS Integers, Sequences, FiniteSets

CONSTANTS
    Members,        \* the memberships of the host, one TUN interface each
    Vetoed,         \* members whose local configuration has exit_veto
    Forced,         \* members whose local configuration forces exit_node
    Kernels,        \* the hosts: IPv6 is there from the start, what detect() finds
    Owned,          \* the switches that the host's owner changes, for each backend
    None,           \* no baseline, no holder of the lock
    MaxFaults       \* failing commands and killed processes

VARIABLES
    sysctl,         \* the forwarding switches of the kernel
    ipv6,           \* the kernel has IPv6
    backend,        \* what detect() finds on this host
    baseline,       \* baseline.json
    leases,         \* members with a .lease file
    rules,          \* the owned firewall rules of each member
    lock,           \* who holds the lock file
    alive,          \* running member processes
    stopping,       \* those whose shutdown gate is set
    approved,       \* self_exit of the member's configuration
    nat,            \* NatInstall of each process
    job,            \* the operation in progress in each process
    admin,          \* history: the switches as the host's owner set them
    stale,          \* history: the owner changed them under a left baseline
    faults

host == <<sysctl, ipv6, backend, admin, stale>>
disk == <<baseline, leases, rules>>
procs == <<alive, stopping, approved, nat, job>>
vars == <<host, disk, procs, lock, faults>>

Families == {"v4", "v6"}
Kinds == {"forward", "nat", "zone"}

Backends == {"nft", "iptables", "fw4"}

(* The order in which a backend installs, and removes, its rules: one nft  *)
(* transaction; rule by rule with iptables; the helper's zone, then the    *)
(* NAT table, under fw4.                                                   *)
NftSteps == << {"forward", "nat"} >>
IptablesSteps == << {"forward"}, {"nat"} >>
Fw4Steps == << {"zone"}, {"nat"} >>
RuleSteps(b) == [nft |-> NftSteps, iptables |-> IptablesSteps, fw4 |-> Fw4Steps][b]

NatInstall == [recovered : BOOLEAN, deferred : BOOLEAN,
               applied : BOOLEAN, dirty : BOOLEAN]
FreshNat == [recovered |-> FALSE, deferred |-> FALSE,
             applied |-> FALSE, dirty |-> FALSE]

Ops == {"none", "recover", "undirty", "up", "down"}
Points == {"lock", "check", "base", "lease", "v4", "v6", "rules",
           "release", "back4", "back6", "unlease", "unbase"}
Job == [op : Ops, at : Points, step : 1..2, defer : BOOLEAN, bad : BOOLEAN]
Idle == [op |-> "none", at |-> "lock", step |-> 1, defer |-> FALSE, bad |-> FALSE]

TypeOK ==
    /\ sysctl \in [Families -> BOOLEAN] /\ admin \in [Families -> BOOLEAN]
    /\ ipv6 \in BOOLEAN /\ stale \in BOOLEAN
    /\ backend \in Backends
    /\ baseline \in {None} \cup [v4 : BOOLEAN, v6 : BOOLEAN \cup {None}]
    /\ leases \subseteq Members
    /\ rules \in [Members -> SUBSET Kinds]
    /\ lock \in Members \cup {None}
    /\ alive \subseteq Members /\ stopping \subseteq alive
    /\ approved \in [Members -> BOOLEAN]
    /\ nat \in [Members -> NatInstall]
    /\ job \in [Members -> Job]
    /\ faults \in 0..MaxFaults

Init ==
    /\ sysctl = [f \in Families |-> FALSE]
    /\ \E k \in Kernels : ipv6 = k[1] /\ backend = k[2]
    /\ admin = sysctl /\ stale = FALSE
    /\ baseline = None /\ leases = {} /\ lock = None
    /\ rules = [m \in Members |-> {}]
    /\ alive = {} /\ stopping = {}
    /\ approved = [m \in Members |-> FALSE]
    /\ nat = [m \in Members |-> FreshNat]
    /\ job = [m \in Members |-> Idle]
    /\ faults = 0

-----------------------------------------------------------------------------
(* A veto wins over the local switch, that over the control plane. *)
NatOn(m) == m \notin Vetoed /\ (m \in Forced \/ approved[m])

(* A process that stops only takes down what it has. *)
Wanted(m) == m \notin stopping /\ NatOn(m)

(* What a tick does next, given the process's record n: recover what an    *)
(* earlier process left, take down a half-made setup, follow the policy.   *)
(* A lease, or a wish to be an exit, forbids putting the recovery off.     *)
Defers(m) == ~Wanted(m) /\ m \notin leases
NextOp(m, n) ==
    CASE ~n.recovered /\ m \notin stopping /\ ~(Defers(m) /\ n.deferred) -> "recover"
      [] n.dirty -> "undirty"
      [] Wanted(m) /\ ~n.applied /\ ~n.dirty -> "up"
      [] ~Wanted(m) /\ n.applied /\ ~n.dirty -> "down"
      [] OTHER -> "none"

AtLock(m, op) == [Idle EXCEPT !.op = op, !.defer = (op = "recover" /\ Defers(m))]

(* The node's two-second tick, or the shutdown: enter the blocking work. *)
Tick(m) ==
    /\ m \in alive /\ job[m].op = "none"
    /\ NextOp(m, nat[m]) # "none"
    /\ job' = [job EXCEPT ![m] = AtLock(m, NextOp(m, nat[m]))]
    /\ UNCHANGED <<host, disk, alive, stopping, approved, nat, lock, faults>>

(* reconcile_nat's and recover_nat's record of how the operation ended. *)
Ended(m, ok) ==
    LET n == nat[m]  op == job[m].op IN
    CASE op = "recover" /\ ok -> [n EXCEPT !.recovered = TRUE, !.deferred = FALSE]
      [] op = "recover" /\ ~ok -> [n EXCEPT !.deferred = n.deferred \/ job[m].defer]
      [] op = "undirty" /\ ok -> [n EXCEPT !.dirty = FALSE]
      [] op = "up" /\ ok -> [n EXCEPT !.applied = TRUE]
      [] op = "up" /\ ~ok -> [n EXCEPT !.dirty = TRUE]
      [] op = "down" /\ ok -> [n EXCEPT !.applied = FALSE]
      [] OTHER -> n

(* The operation ends and lets go of the lock.  A finished clean-up of a   *)
(* half-made setup goes on to follow the policy, still inside the gate of  *)
(* the shutdown; after a recovery the gate is left and entered again,      *)
(* which is the next Tick.                                                 *)
Finish(m, ok) ==
    LET n == Ended(m, ok)
        next == IF ok /\ job[m].op = "undirty" THEN NextOp(m, n) ELSE "none"
    IN  /\ nat' = [nat EXCEPT ![m] = n]
        /\ job' = [job EXCEPT ![m] = IF next = "none" THEN Idle ELSE AtLock(m, next)]
        /\ lock' = IF lock = m THEN None ELSE lock

Goto(m, at) == job' = [job EXCEPT ![m].at = at] /\ UNCHANGED <<nat, lock>>

(* A command or a write of the operation fails: the error ends it. *)
Fault(m) ==
    /\ faults < MaxFaults /\ job[m].op # "none"
    /\ job[m].at \notin {"back4", "back6"}      \* those two are both tried
    /\ lock = m \/ job[m].at = "lock"           \* or the lock is not had in time
    /\ faults' = faults + 1
    /\ Finish(m, FALSE)
    /\ UNCHANGED <<host, disk, alive, stopping, approved>>

Busy(m, at) == m \in alive /\ job[m].op # "none" /\ job[m].at = at /\ lock = m
Rest == UNCHANGED <<alive, stopping, approved, faults>>

(* recover, under fw4: the helper takes the member's zone down before the  *)
(* lock is asked for, beside whatever another member does under it.        *)
HelperFirst(m) == job[m].op = "recover" /\ backend = "fw4" /\ job[m].step = 1
RecoverZone(m) ==
    /\ m \in alive /\ job[m].at = "lock" /\ HelperFirst(m)
    /\ rules' = [rules EXCEPT ![m] = @ \ Fw4Steps[1]]
    /\ job' = [job EXCEPT ![m].step = 2]
    /\ UNCHANGED <<host, baseline, leases, nat, lock>> /\ Rest

\* Mutant of Lock: under fw4 the helper runs before the lease is written.
BugLock(m) ==
    /\ m \in alive /\ job[m].op # "none" /\ job[m].at = "lock" /\ lock = None
    /\ ~HelperFirst(m)
    /\ lock' = m
    /\ job' = [job EXCEPT ![m].at = IF job[m].op # "up" \/ backend = "fw4" THEN "rules" ELSE "check"]
    /\ UNCHANGED <<host, disk, nat>> /\ Rest

Lock(m) ==
    /\ m \in alive /\ job[m].op # "none" /\ job[m].at = "lock" /\ lock = None
    /\ ~HelperFirst(m)
    /\ lock' = m
    /\ job' = [job EXCEPT ![m].at = IF job[m].op # "up" THEN "rules"
                                    ELSE IF backend = "fw4" THEN "base" ELSE "check"]
    /\ UNCHANGED <<host, disk, nat>> /\ Rest

(* The preflight of the foreign rules: before anything is changed, except  *)
(* under fw4, which looks after its helper ran.  What it finds may end the *)
(* operation, see Fault.                                                   *)
Passed(m, at) == Busy(m, "check") /\ Goto(m, at) /\ UNCHANGED <<host, disk>> /\ Rest
CheckNft(m) == backend = "nft" /\ Passed(m, "base")
CheckIptables(m) == backend = "iptables" /\ Passed(m, "base")
CheckFw4(m) == backend = "fw4" /\ Passed(m, "rules")
Check(m) == CheckNft(m) \/ CheckIptables(m) \/ CheckFw4(m)

(* acquire_with: the baseline first, if there is none; an unknown IPv6     *)
(* value is filled in as soon as IPv6 is there.                            *)
Base(m) ==
    LET v6 == IF ipv6 THEN sysctl["v6"] ELSE None IN
    /\ Busy(m, "base")
    /\ baseline = None => leases = {}       \* else it refuses, see Fault
    /\ baseline' = IF baseline = None THEN [v4 |-> sysctl["v4"], v6 |-> v6]
                   ELSE IF baseline.v6 = None THEN [baseline EXCEPT !.v6 = v6]
                   ELSE baseline
    /\ Goto(m, "lease")
    /\ UNCHANGED <<host, leases, rules>> /\ Rest

Lease(m) ==
    /\ Busy(m, "lease")
    /\ leases' = leases \cup {m}
    /\ Goto(m, "v4")
    /\ UNCHANGED <<host, baseline, rules>> /\ Rest

SetFamily(f, on) == sysctl' = [sysctl EXCEPT ![f] = IF f = "v6" /\ ~ipv6 THEN @ ELSE on]

Enable4(m) ==
    /\ Busy(m, "v4")
    /\ SetFamily("v4", TRUE)
    /\ Goto(m, "v6")
    /\ UNCHANGED <<disk, ipv6, backend, admin, stale>> /\ Rest

Enable6(m) ==
    /\ Busy(m, "v6")
    /\ IF baseline.v6 # None THEN SetFamily("v6", TRUE) ELSE UNCHANGED sysctl
    /\ Goto(m, "rules")
    /\ UNCHANGED <<disk, ipv6, backend, admin, stale>> /\ Rest

(* One command on the owned rules; after the last one an "up" has           *)
(* succeeded and everything else gives up its lease.                       *)
Rules(m) ==
    LET steps == RuleSteps(backend)
        i == job[m].step
        upward == job[m].op = "up"
    IN
    /\ Busy(m, "rules")
    /\ rules' = [rules EXCEPT ![m] = IF upward THEN @ \cup steps[i] ELSE @ \ steps[i]]
    /\ CASE i < Len(steps) ->
              /\ job' = [job EXCEPT ![m].step = i + 1,
                                    ![m].at = IF upward /\ backend = "fw4" THEN "check" ELSE "rules"]
              /\ UNCHANGED <<nat, lock>>
         [] i = Len(steps) /\ upward -> Finish(m, TRUE)
         [] OTHER -> Goto(m, "release")
    /\ UNCHANGED <<host, baseline, leases>> /\ Rest

(* release_with: only the last lease restores the switches. *)
Release(m) ==
    /\ Busy(m, "release")
    /\ CASE m \notin leases -> Finish(m, TRUE) /\ UNCHANGED leases
         [] m \in leases /\ leases # {m} -> Finish(m, TRUE) /\ leases' = leases \ {m}
         [] OTHER -> Goto(m, "back4") /\ UNCHANGED leases
    /\ UNCHANGED <<host, baseline, rules>> /\ Rest

(* Both switches are tried; a failure of either keeps lease and baseline. *)
Restore4(m) ==
    /\ Busy(m, "back4")
    /\ \/ /\ SetFamily("v4", baseline.v4) /\ UNCHANGED faults
          /\ job' = [job EXCEPT ![m].at = "back6"]
       \/ /\ faults < MaxFaults /\ faults' = faults + 1 /\ UNCHANGED sysctl
          /\ job' = [job EXCEPT ![m].at = "back6", ![m].bad = TRUE]
    /\ UNCHANGED <<disk, ipv6, backend, admin, stale, nat, lock, alive, stopping, approved>>

Restore6(m) ==
    /\ Busy(m, "back6")
    /\ \/ /\ IF baseline.v6 # None THEN SetFamily("v6", baseline.v6) ELSE UNCHANGED sysctl
          /\ UNCHANGED faults
          /\ IF job[m].bad THEN Finish(m, FALSE) ELSE Goto(m, "unlease")
       \/ /\ faults < MaxFaults /\ faults' = faults + 1 /\ UNCHANGED sysctl
          /\ Finish(m, FALSE)
    /\ UNCHANGED <<disk, ipv6, backend, admin, stale, alive, stopping, approved>>

RemoveLease(m) ==
    /\ Busy(m, "unlease")
    /\ leases' = leases \ {m}
    /\ Goto(m, "unbase")
    /\ UNCHANGED <<host, baseline, rules>> /\ Rest

RemoveBaseline(m) ==
    /\ Busy(m, "unbase")
    /\ baseline' = None
    /\ Finish(m, TRUE)
    /\ UNCHANGED <<host, leases, rules>> /\ Rest

-----------------------------------------------------------------------------
Start(m) ==
    /\ m \notin alive
    /\ alive' = alive \cup {m}
    /\ nat' = [nat EXCEPT ![m] = FreshNat]
    /\ UNCHANGED <<host, disk, stopping, approved, job, lock, faults>>

Gone(m) ==
    /\ alive' = alive \ {m} /\ stopping' = stopping \ {m}
    /\ nat' = [nat EXCEPT ![m] = FreshNat]
    /\ job' = [job EXCEPT ![m] = Idle]
    /\ lock' = IF lock = m THEN None ELSE lock

(* SIGKILL, or a panic, at any point. *)
Crash(m) ==
    /\ m \in alive /\ faults < MaxFaults
    /\ faults' = faults + 1
    /\ Gone(m)
    /\ UNCHANGED <<host, disk, approved>>

(* cleanup takes the gate that every effect holds: it waits for the one in *)
(* progress, and afterwards none starts.  remove_nat is one attempt, and   *)
(* the process ends whether it succeeded or not.                           *)
Stop(m) ==
    /\ m \in alive \ stopping /\ job[m].op = "none"
    /\ stopping' = stopping \cup {m}
    /\ job' = [job EXCEPT ![m] = IF nat[m].dirty THEN AtLock(m, "undirty")
                                 ELSE IF nat[m].applied THEN AtLock(m, "down") ELSE Idle]
    /\ UNCHANGED <<host, disk, alive, approved, nat, lock, faults>>

Exit(m) ==
    /\ m \in stopping /\ job[m].op = "none"
    /\ Gone(m)
    /\ UNCHANGED <<host, disk, approved, faults>>

(* The control plane approves the device as an exit, or takes it back;     *)
(* only where the local configuration leaves it the say.                   *)
Approve(m) ==
    /\ m \notin Vetoed \cup Forced
    /\ approved' = [approved EXCEPT ![m] = ~@]
    /\ UNCHANGED <<host, disk, alive, stopping, nat, job, lock, faults>>

(* The owner of the host sets a switch while no member has a lease. *)
AdminSet(f) ==
    /\ f \in Owned[backend] /\ leases = {} /\ lock = None /\ (f = "v6" => ipv6)
    /\ sysctl' = [sysctl EXCEPT ![f] = ~@]
    /\ admin' = sysctl'
    /\ stale' = (baseline # None)
    /\ UNCHANGED <<ipv6, backend, disk, procs, lock, faults>>

(* The IPv6 module is loaded. *)
LoadIPv6 ==
    /\ ~ipv6 /\ ipv6' = TRUE
    /\ UNCHANGED <<sysctl, backend, admin, stale, disk, procs, lock, faults>>

Next ==
    \/ \E m \in Members :
        \/ Tick(m) \/ RecoverZone(m) \/ Lock(m) \/ Check(m) \/ Base(m) \/ Lease(m) \/ Enable4(m) \/ Enable6(m)
        \/ Rules(m) \/ Release(m) \/ Restore4(m) \/ Restore6(m)
        \/ RemoveLease(m) \/ RemoveBaseline(m)
        \/ Fault(m) \/ Start(m) \/ Crash(m) \/ Stop(m) \/ Exit(m) \/ Approve(m)
    \/ \E f \in Families : AdminSet(f)
    \/ LoadIPv6

Spec == Init /\ [][Next]_vars

-----------------------------------------------------------------------------
(* Once the last member has given up its lease and the baseline is gone,   *)
(* the forwarding switches are as the host's owner set them, whatever      *)
(* members came, failed, were killed and came again in between.  The one   *)
(* exception: a process killed between the removal of the last lease and   *)
(* that of the baseline leaves a baseline that a later change by the owner *)
(* outdates, and acquire_with takes it for the original.                   *)
ForwardingRestored == baseline = None /\ ~stale => sysctl = admin

(* A member whose firewall rules are on the host has a lease on disk, so   *)
(* that recover_nat may not put their removal off: the lease is written    *)
(* before the first rule and removed after the last.                       *)
RulesUnderLease == \A m \in Members : rules[m] # {} => m \in leases
=============================================================================
