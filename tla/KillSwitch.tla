----------------------------- MODULE KillSwitch -----------------------------
(***************************************************************************)
(* The client kill switch of one membership (node/src/firewall/client.rs)  *)
(* and the name cache that goes with it (node/src/carriers.rs).  Both live *)
(* in /run: they outlive the process, not the machine.                     *)
(*                                                                         *)
(*   - sync_with saves the plan (the addresses OUTPUT may reach) before it *)
(*     touches the rules; nft replaces them in one go, iptables family by  *)
(*     family; only an explicit clear removes them, the plan last;         *)
(*   - names are resolved freely before the switch is armed and while an   *)
(*     authenticated exit is up; otherwise only from what is pinned.       *)
(*                                                                         *)
(* The daemon repairs rules that somebody else removed.  Whoever works on  *)
(* the rules holds one lock.                                               *)
(***************************************************************************)
EXTENDS Integers, FiniteSets, Sequences

CONSTANTS Hosts, Addrs, None, MaxFaults

VARIABLES
    wanted,         \* kill_switch and use_exit in the configuration
    backend,        \* nft or iptables
    plan, cache,    \* the files in /run/fluxpeer-firewall
    rules,          \* the addresses each family's rules permit; None: no rules
    run,            \* the membership's process
    mode, pins,     \* carriers::Cache
    asked,          \* lookups: None, "sent", or the answer to be recorded
    job,            \* who holds the lock, and the families still to do
    faults

disk == <<plan, cache, rules>>
memory == <<run, mode, pins, asked>>
vars == <<wanted, backend, disk, memory, job, faults>>

Families == IF backend = "nft" THEN <<"inet">> ELSE <<"v4", "v6">>
AllFamilies == {"inet", "v4", "v6"}
NoPins == [h \in Hosts |-> None]
Idle == [who |-> "none", todo |-> <<>>]
Pinned(p) == {p[h] : h \in {x \in Hosts : p[x] # None}}
Healthy == \A i \in DOMAIN Families : rules[Families[i]] = plan

KillTypeOK ==
    /\ wanted \in BOOLEAN /\ backend \in {"nft", "iptables"}
    /\ plan = None \/ plan \subseteq Addrs
    /\ cache = None \/ cache \in [Hosts -> Addrs \cup {None}]
    /\ \A f \in AllFamilies : rules[f] = None \/ rules[f] \subseteq Addrs
    /\ run \in {"down", "clearing", "restoring", "boot", "arming", "up", "plain"}
    /\ mode \in {"bootstrap", "locked", "exit"} /\ pins \in [Hosts -> Addrs \cup {None}]
    /\ asked \in [Hosts -> Addrs \cup {None, "sent"}]
    /\ job.who \in {"none", "sync", "repair", "clear"} /\ faults \in 0..MaxFaults

Init ==
    /\ wanted \in BOOLEAN /\ backend \in {"nft", "iptables"}
    /\ plan = None /\ cache = None /\ rules = [f \in AllFamilies |-> None]
    /\ run = "down" /\ mode = "bootstrap" /\ pins = NoPins
    /\ asked = [h \in Hosts |-> None] /\ job = Idle /\ faults = 0

Fault == faults < MaxFaults /\ faults' = faults + 1
Free == job = Idle

-----------------------------------------------------------------------------
(* start_client_guard.  A retained plan locks the cache and is restored    *)
(* before anything is looked up; without one the old cache is ignored.     *)
Start ==
    /\ run = "down"
    /\ asked' = [h \in Hosts |-> None]
    /\ IF ~wanted THEN run' = "clearing" /\ UNCHANGED <<mode, pins>>
       ELSE /\ mode' = IF plan # None THEN "locked" ELSE "bootstrap"
            /\ pins' = IF plan # None /\ cache # None THEN cache ELSE NoPins
            /\ run' = IF plan # None THEN "restoring" ELSE "boot"
    /\ UNCHANGED <<wanted, backend, disk, job, faults>>

(* sync_with: the plan is saved, then the rules are replaced if they are   *)
(* not the plan's.  The process goes on when the job is done.              *)
Sync(addresses, retain) ==
    LET goal == addresses \cup (IF retain /\ plan # None THEN plan ELSE {}) IN
    /\ Free /\ plan' = goal
    /\ job' = [who |-> "sync",
               todo |-> IF goal = plan /\ Healthy THEN <<>> ELSE Families]

Restore ==
    /\ run = "restoring" /\ Sync(Pinned(pins), TRUE)
    /\ UNCHANGED <<wanted, backend, cache, rules, memory, faults>>

(* bootstrap_carriers_with: all names are known, then the rules, then the  *)
(* cache is locked (Done).                                                 *)
Arm ==
    /\ run = "boot" /\ asked = [h \in Hosts |-> None] /\ \A h \in Hosts : pins[h] # None
    /\ run' = "arming" /\ Sync(Pinned(pins), TRUE)
    /\ UNCHANGED <<wanted, backend, cache, rules, mode, pins, asked, faults>>

(* guard_carriers, in the loop. *)
Refresh(retain) ==
    /\ run = "up" /\ Sync(Pinned(pins), retain)
    /\ UNCHANGED <<wanted, backend, cache, rules, memory, faults>>

(* repair_with, by the daemon every thirty seconds. *)
Repair ==
    /\ Free /\ plan # None /\ ~Healthy
    /\ job' = [who |-> "repair", todo |-> Families]
    /\ UNCHANGED <<wanted, backend, disk, memory, faults>>

(* install, one family of it. *)
Install ==
    /\ job.who \in {"sync", "repair"} /\ job.todo # <<>>
    /\ \/ /\ rules' = [rules EXCEPT ![Head(job.todo)] = plan]
          /\ job' = [job EXCEPT !.todo = Tail(@)] /\ UNCHANGED <<run, faults>>
       \/ /\ Fault /\ job' = Idle /\ UNCHANGED rules
          /\ run' = IF job.who = "sync" /\ run # "up" THEN "down" ELSE run
    /\ UNCHANGED <<wanted, backend, plan, cache, mode, pins, asked>>

Done ==
    /\ job.who \in {"sync", "repair"} /\ job.todo = <<>> /\ job' = Idle
    /\ run' = IF job.who = "sync" /\ run \in {"arming", "restoring"} THEN "up" ELSE run
    /\ mode' = IF job.who = "sync" /\ run = "arming" THEN "locked" ELSE mode
    /\ UNCHANGED <<wanted, backend, disk, pins, asked, faults>>

(* clear_with: rules, cache, plan, by a start without the switch, by the   *)
(* interrupt of a running process, or by the daemon for a stopped one.     *)
Clear ==
    /\ Free /\ run = "clearing"
    /\ \/ plan # None /\ job' = [who |-> "clear", todo |-> Families]
          /\ UNCHANGED <<cache, run>>
       \/ plan = None /\ cache' = None /\ run' = "plain" /\ UNCHANGED job
    /\ UNCHANGED <<wanted, backend, plan, rules, mode, pins, asked, faults>>

ClearStep ==
    /\ job.who = "clear"
    /\ \/ /\ job.todo # <<>> /\ rules' = [rules EXCEPT ![Head(job.todo)] = None]
          /\ job' = [job EXCEPT !.todo = Tail(@)] /\ UNCHANGED <<plan, cache, run, faults>>
       \/ /\ job.todo = <<>> /\ cache # None /\ cache' = None
          /\ UNCHANGED <<rules, plan, run, job, faults>>
       \/ /\ job.todo = <<>> /\ cache = None /\ plan' = None /\ job' = Idle
          /\ run' = (IF wanted THEN "down" ELSE "plain") /\ UNCHANGED <<rules, cache, faults>>
       \/ Fault /\ job' = Idle /\ run' = "down" /\ UNCHANGED disk
    /\ UNCHANGED <<wanted, backend, mode, pins, asked>>

-----------------------------------------------------------------------------
(* Cache::resolve_with: locked, the pins answer; else the name is looked   *)
(* up, and the mode looked at again before the answer goes to be recorded. *)
Running == run \in {"boot", "up"}
Resolve(h) ==
    /\ Running /\ mode # "locked" /\ asked[h] = None
    /\ asked' = [asked EXCEPT ![h] = "sent"]
    /\ UNCHANGED <<wanted, backend, disk, run, mode, pins, job, faults>>

Answered(h) ==
    /\ Running /\ asked[h] = "sent"
    /\ \/ mode # "locked" /\ \E a \in Addrs : asked' = [asked EXCEPT ![h] = a]
       \/ asked' = [asked EXCEPT ![h] = None]      \* locked, or a failed lookup
    /\ UNCHANGED <<wanted, backend, disk, run, mode, pins, job, faults>>

\* Mutant of Record: does not look at the mode again under the lock.
BugRecord(h) ==
    /\ Running /\ asked[h] \in Addrs /\ asked' = [asked EXCEPT ![h] = None]
    /\ pins' = [pins EXCEPT ![h] = asked[h]] /\ cache' = pins'
    /\ UNCHANGED <<wanted, backend, plan, rules, run, mode, job, faults>>

(* Cache::record, on another thread: memory and disk under the pins' lock, *)
(* which exit_ready takes too.  A failed write takes the pin back.         *)
Record(h) ==
    /\ Running /\ asked[h] \in Addrs /\ asked' = [asked EXCEPT ![h] = None]
    /\ \/ /\ mode # "locked" /\ UNCHANGED faults
          /\ pins' = [pins EXCEPT ![h] = asked[h]] /\ cache' = pins'
       \/ mode = "locked" /\ UNCHANGED <<pins, cache, faults>>
       \/ mode # "locked" /\ Fault /\ UNCHANGED <<pins, cache>>
    /\ UNCHANGED <<wanted, backend, plan, rules, run, mode, job>>

(* exit_ready: an authenticated exit, its routes and resolver are up; or   *)
(* no longer.                                                              *)
ExitReady(b) ==
    /\ run = "up" /\ mode' = (IF b THEN "exit" ELSE "locked") /\ mode' # mode
    /\ UNCHANGED <<wanted, backend, disk, run, pins, asked, job, faults>>

-----------------------------------------------------------------------------
(* The process ends, killed or terminated, in the middle of anything; or   *)
(* it is interrupted or taken down, and the protection is to go.           *)
End ==
    /\ run # "down" /\ run' = "down"
    /\ job' = IF job.who = "repair" THEN job ELSE Idle
    /\ UNCHANGED <<wanted, backend, disk, mode, pins, asked, faults>>

TakeDown ==
    /\ run \in {"down", "up", "plain"} /\ job.who \in {"none", "repair"} /\ run' = "clearing"
    /\ UNCHANGED <<wanted, backend, disk, mode, pins, asked, job, faults>>

Configure ==
    /\ run = "down" /\ wanted' = ~wanted
    /\ UNCHANGED <<backend, disk, memory, job, faults>>

(* Another tool removes rules; the machine restarts. *)
Flush ==
    /\ Fault /\ \E f \in AllFamilies : rules[f] # None /\ rules' = [rules EXCEPT ![f] = None]
    /\ UNCHANGED <<wanted, backend, plan, cache, memory, job>>

Reboot ==
    /\ plan' = None /\ cache' = None /\ rules' = [f \in AllFamilies |-> None]
    /\ run' = "down" /\ job' = Idle /\ UNCHANGED <<wanted, backend, mode, pins, asked, faults>>

Next ==
    \/ Start \/ Restore \/ Arm \/ Repair \/ Install \/ Done \/ Clear \/ ClearStep
    \/ \E b \in BOOLEAN : Refresh(b) \/ ExitReady(b)
    \/ \E h \in Hosts : Resolve(h) \/ Answered(h) \/ Record(h)
    \/ End \/ TakeDown \/ Configure \/ Flush \/ Reboot

Spec == Init /\ [][Next]_vars

-----------------------------------------------------------------------------
(* Rules are never on the host without the plan that says how to repair    *)
(* and how to remove them: "Keep a durable removal/repair obligation       *)
(* before the first host mutation", and the plan goes last.                *)
RulesPlanned == (\E f \in AllFamilies : rules[f] # None) => plan # None

(* While the cache is locked no lookup changes what names are pinned to,   *)
(* not even one that was under way when the exit went: "No caller can      *)
(* publish unapproved physical DNS data after this transition".            *)
PinsApproved == run = "up" /\ mode = "locked" /\ run' = "up" => pins' = pins

(* A process that runs protected is protected: the rules are all there     *)
(* unless another tool has removed one since.                              *)
NoGap == run = "up" /\ faults = 0 => \A i \in DOMAIN Families : rules[Families[i]] # None
=============================================================================
