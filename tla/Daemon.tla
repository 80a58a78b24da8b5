------------------------------- MODULE Daemon -------------------------------
(***************************************************************************)
(* The node daemon (node/src/daemon.rs, daemon_process.rs): one process    *)
(* per joined network, started, stopped, reconfigured and left by local    *)
(* clients that run side by side.  An operation reserves its interface;    *)
(* admission is for one at a time and never waited for; shutdown excludes  *)
(* them all.  A supervisor per process reaps it.                           *)
(*                                                                         *)
(* At most one network may protect OUTPUT (the kill switch): its journal   *)
(* outlives the process until the network is taken down.                   *)
(***************************************************************************)
EXTENDS Integers, FiniteSets

CONSTANTS Ifaces, Clients, None, Reserved, MaxFaults

VARIABLES
    cfg,        \* the configuration file: None, Reserved (empty) or a record
    members,    \* Processes.members: iface -> None or has stop been requested
    proc,       \* the processes: none, born (no configuration read yet), alive,
                \* serving (its status endpoint answers), dead (not reaped)
    shielded,   \* is the kill switch active in the configuration it was started
                \* with, and once it has read one, in that (FALSE without a process)
    strayed,    \* networks that have read, or will, what the daemon did not admit
    failed,     \* Processes.exits: did the last exit leave a failed clean-up
    cleanup,    \* Processes.cleanup
    journal,    \* the kill switch's journals on disk
    protected,  \* protected_members
    terminal,   \* networks whose last failure, on disk, was terminal
    busy, closing, admission,
    op,         \* what each client has the daemon do
    up, todo,   \* the daemon starts, runs or has ended; networks to start
    faults

files == <<cfg, journal, terminal>>
table == <<members, failed, cleanup, protected>>
locks == <<busy, closing, admission>>
procs == <<proc, shielded, strayed>>
vars == <<files, table, procs, locks, op, up, todo, faults>>

(* kill_switch and use_exit; an exit without the switch is like no exit. *)
Configs == {c \in [kill : BOOLEAN, exit : BOOLEAN] : c.exit => c.kill}
Requested(c) == c.kill /\ c.exit                 \* client::requested
Joined(i) == cfg[i] \notin {None, Reserved}      \* member_config
Live(i) == proc[i] \in {"born", "alive", "serving"}

DaemonTypeOK ==
    /\ \A i \in Ifaces : cfg[i] \in {None, Reserved} \/ cfg[i] \in Configs
    /\ members \in [Ifaces -> {"none", "running", "stopping"}]
    /\ proc \in [Ifaces -> {"none", "born", "alive", "serving", "dead"}]
    /\ shielded \in [Ifaces -> BOOLEAN] /\ failed \in [Ifaces -> BOOLEAN]
    /\ cleanup \subseteq Ifaces /\ journal \subseteq Ifaces /\ protected \subseteq Ifaces
    /\ strayed \subseteq Ifaces
    /\ terminal \subseteq Ifaces /\ busy \subseteq Ifaces
    /\ closing \in {"no", "yes", "done"} /\ admission \in Clients \cup {None}
    /\ up \in {"boot", "yes", "no"} /\ faults \in 0..MaxFaults

Init ==
    /\ cfg \in [Ifaces -> {None} \cup Configs]
    /\ members = [i \in Ifaces |-> "none"] /\ proc = [i \in Ifaces |-> "none"]
    /\ shielded = [i \in Ifaces |-> FALSE] /\ failed = [i \in Ifaces |-> FALSE]
    /\ cleanup = {} /\ journal = {} /\ protected = {} /\ terminal = {} /\ strayed = {}
    /\ busy = {} /\ closing = "no" /\ admission = None
    /\ op = [r \in Clients |-> None] /\ faults = 0
    /\ up = "boot" /\ todo = {i \in Ifaces : Joined(i)}

-----------------------------------------------------------------------------
Fault == faults < MaxFaults /\ faults' = faults + 1
Free(i) == closing = "no" /\ i \notin busy

\* Mutant of Admits: goes by the journals alone, which a starting member has not written yet.
BugAdmits(i, c) == journal \subseteq {i}

(* check_member: nobody else's journal; nobody else running, if this one   *)
(* asks for protection; nobody else protected or about to be.              *)
Admits(i, c) ==
    /\ journal \subseteq {i}
    /\ \A j \in Ifaces \ {i} : members[j] # "none" =>
        /\ ~c.kill
        /\ j \notin protected
        /\ Joined(j) /\ ~Requested(cfg[j])

(* spawn_net_locked, and Processes::spawn under the table's lock. *)
Spawns(i) == Joined(i) /\ Admits(i, cfg[i]) /\ closing = "no" /\ members[i] = "none"
Spawn(i) ==
    /\ members' = [members EXCEPT ![i] = "running"] /\ cleanup' = cleanup \cup {i}
    /\ failed' = [failed EXCEPT ![i] = FALSE]
    /\ proc' = [proc EXCEPT ![i] = "born"]
    /\ shielded' = [shielded EXCEPT ![i] = Requested(cfg[i])]
    /\ protected' = IF Requested(cfg[i]) THEN protected \cup {i} ELSE protected \ {i}
    /\ strayed' = IF Requested(cfg[i]) THEN strayed \ {i} ELSE strayed
NoSpawn == UNCHANGED <<table, procs>>
MaybeSpawn(i) == IF Spawns(i) THEN Spawn(i) ELSE NoSpawn

(* daemon(): every configured network is tried once, except those that     *)
(* ended with a terminal failure; then requests are served.                *)
Boot ==
    /\ up = "boot"
    /\ \/ \E i \in todo :
            /\ todo' = todo \ {i} /\ UNCHANGED up
            /\ IF i \in terminal THEN NoSpawn ELSE MaybeSpawn(i)
       \/ todo = {} /\ up' = "yes" /\ NoSpawn /\ UNCHANGED todo
    /\ UNCHANGED <<files, locks, op, faults>>

-----------------------------------------------------------------------------
Ask(r) == up = "yes" /\ op[r] = None
Doing(r, at) == op[r] # None /\ op[r].at = at
Goto(r, at) == op' = [op EXCEPT ![r].at = at]
Take(r, i) == busy' = busy \cup {i} /\ admission' = r /\ UNCHANGED closing
(* The reply; dropping the operation and the admission. *)
Reply(r) ==
    /\ op' = [op EXCEPT ![r] = None]
    /\ busy' = busy \ {op[r].i} /\ UNCHANGED closing
    /\ admission' = IF admission = r THEN None ELSE admission

(* set_iface(up): no step of it waits. *)
Up(r, i) ==
    /\ Ask(r) /\ Free(i) /\ admission = None /\ Spawns(i) /\ Spawn(i)
    /\ UNCHANGED <<files, locks, op, up, todo, faults>>

(* Processes::stop asks the supervisor, and waits for it. *)
Stop(i) == members' = [members EXCEPT ![i] = IF @ = "running" THEN "stopping" ELSE @]

(* set_iface(down), leave (without admission). *)
Down(r, i, kind) ==
    /\ Ask(r) /\ Free(i)
    /\ Joined(i) \/ members[i] # "none" \/ i \in cleanup
    /\ \/ kind = "down" /\ admission = None /\ Take(r, i)
       \/ kind = "leave" /\ busy' = busy \cup {i} /\ UNCHANGED <<closing, admission>>
    /\ op' = [op EXCEPT ![r] = [kind |-> kind, i |-> i, at |-> "stop", release |-> TRUE,
                                rest |-> {}, bad |-> FALSE]]
    /\ Stop(i)
    /\ UNCHANGED <<files, failed, cleanup, protected, procs, up, todo, faults>>

(* settings, set_config: the new file is written before the restart; a     *)
(* restart into protection does not lift what protects now.                *)
Settings(r, i) ==
    /\ Ask(r) /\ Free(i) /\ admission = None /\ Joined(i)
    /\ \E c \in Configs :
        /\ Admits(i, c)
        /\ cfg' = [cfg EXCEPT ![i] = c]
        /\ op' = [op EXCEPT ![r] = [kind |-> "settings", i |-> i, at |-> "stop",
                                    release |-> ~Requested(c), rest |-> {}, bad |-> FALSE]]
    /\ Take(r, i) /\ Stop(i)
    /\ UNCHANGED <<journal, terminal, failed, cleanup, protected, procs, up, todo, faults>>

(* shutdown: every network, one after the other. *)
Shutdown(r) ==
    /\ Ask(r) /\ closing = "no" /\ busy = {} /\ closing' = "yes"
    /\ op' = [op EXCEPT ![r] = [kind |-> "shutdown", i |-> None, at |-> "next", release |-> TRUE,
                                rest |-> cleanup \cup {i \in Ifaces : Joined(i)}, bad |-> FALSE]]
    /\ UNCHANGED <<files, table, procs, busy, admission, up, todo, faults>>

ShutdownNext(r) ==
    /\ Doing(r, "next")
    /\ \/ \E i \in op[r].rest :
            /\ op' = [op EXCEPT ![r].i = i, ![r].rest = @ \ {i}, ![r].at = "stop"]
            /\ Stop(i) /\ UNCHANGED <<cfg, locks, up>>
       \/ /\ op[r].rest = {} /\ op[r].bad
          /\ op' = [op EXCEPT ![r] = None] /\ closing' = "no"
          /\ UNCHANGED <<cfg, members, busy, admission, up>>
       \/ /\ op[r].rest = {} /\ ~op[r].bad
          /\ closing' = "done" /\ up' = "no"         \* and all its tasks with it
          /\ op' = [q \in Clients |-> None]
          /\ cfg' = [i \in Ifaces |-> IF cfg[i] = Reserved THEN None ELSE cfg[i]]
          /\ UNCHANGED <<members, busy, admission>>
    /\ UNCHANGED <<journal, terminal, failed, cleanup, protected, procs, todo, faults>>

(* stop_iface_with_policy, after the process has been reaped: lift the     *)
(* protection, remove the status socket and the link; a clean-up that      *)
(* failed is reported, and the interface stays in "cleanup".               *)
Abort(r) ==
    IF op[r].kind = "shutdown"
    THEN op' = [op EXCEPT ![r].at = "next", ![r].bad = TRUE] /\ UNCHANGED locks
    ELSE Reply(r)

Stopped(r) ==
    LET i == op[r].i IN
    /\ Doing(r, "stop") /\ members[i] = "none"
    /\ \/ /\ op[r].release /\ Goto(r, "clear") /\ UNCHANGED <<locks, faults>>
          /\ journal' = journal \ {i} /\ strayed' = strayed \ {i}
       \/ ~op[r].release /\ Goto(r, "clear") /\ UNCHANGED <<locks, faults, journal, strayed>>
       \/ op[r].release /\ Fault /\ Abort(r) /\ UNCHANGED <<journal, strayed>>
    /\ UNCHANGED <<cfg, terminal, table, proc, shielded, up, todo>>

Clear(r) ==
    LET i == op[r].i IN
    /\ Doing(r, "clear")
    /\ \/ /\ failed[i] /\ Abort(r) /\ UNCHANGED <<cleanup, faults>>
       \/ Fault /\ Abort(r) /\ UNCHANGED cleanup                    \* the link
       \/ /\ ~failed[i] /\ cleanup' = cleanup \ {i} /\ UNCHANGED faults
          /\ \/ op[r].kind = "shutdown" /\ Goto(r, "next") /\ UNCHANGED locks
             \/ op[r].kind = "down" /\ Reply(r)
             \/ op[r].kind \in {"settings", "leave"} /\ Goto(r, "finish") /\ UNCHANGED locks
    /\ UNCHANGED <<files, members, failed, protected, procs, up, todo>>

(* restart: start it again; leave: forget it. *)
Finish(r) ==
    LET i == op[r].i IN
    /\ Doing(r, "finish") /\ Reply(r)
    /\ \/ op[r].kind = "settings" /\ MaybeSpawn(i) /\ UNCHANGED <<cfg, terminal>>
       \/ /\ op[r].kind = "leave" /\ NoSpawn
          /\ cfg' = [cfg EXCEPT ![i] = None] /\ terminal' = terminal \ {i}
    /\ UNCHANGED <<journal, up, todo, faults>>

(* join: the slot is reserved before the invitation is used, and freed if  *)
(* that fails; the network is then started like any other.                 *)
Join(r, i) ==
    /\ Ask(r) /\ cfg[i] = None
    /\ cfg' = [cfg EXCEPT ![i] = Reserved]
    /\ op' = [op EXCEPT ![r] = [kind |-> "join", i |-> i, at |-> "enrol", release |-> FALSE,
                                rest |-> {}, bad |-> FALSE]]
    /\ UNCHANGED <<journal, terminal, table, procs, locks, up, todo, faults>>

Enrolled(r) ==
    LET i == op[r].i IN
    /\ Doing(r, "enrol")
    /\ \/ /\ Goto(r, "start") /\ UNCHANGED faults
          /\ cfg' = [cfg EXCEPT ![i] = [kill |-> FALSE, exit |-> FALSE]]
       \/ Fault /\ cfg' = [cfg EXCEPT ![i] = None] /\ op' = [op EXCEPT ![r] = None]
    /\ UNCHANGED <<journal, terminal, table, procs, locks, up, todo>>

StartJoined(r) ==
    LET i == op[r].i IN
    /\ Doing(r, "start") /\ op' = [op EXCEPT ![r] = None]
    /\ IF Free(i) /\ admission = None THEN MaybeSpawn(i) ELSE NoSpawn
    /\ UNCHANGED <<files, locks, up, todo, faults>>

(* edit_configs: the command line edits a configuration without the daemon. *)
(* It asks for the running networks only if protection is being asked for, *)
(* and then only finds those whose status endpoint answers.                *)
Edit(i) ==
    /\ Joined(i)
    /\ \E c \in Configs \ {cfg[i]} :
        /\ c.kill /\ (~cfg[i].kill \/ Requested(c)) => \A j \in Ifaces \ {i} : proc[j] # "serving"
        /\ cfg' = [cfg EXCEPT ![i] = c]
    /\ strayed' = IF proc[i] = "born" THEN strayed \cup {i} ELSE strayed
    /\ UNCHANGED <<journal, terminal, table, proc, shielded, locks, op, up, todo, faults>>

-----------------------------------------------------------------------------
(* A process, in run: it reads its configuration file, whatever that is by *)
(* now, and refuses to run beside another network's journal.               *)
ReadConfig(i) ==
    /\ proc[i] = "born"
    /\ proc' = [proc EXCEPT ![i] = IF journal \subseteq {i} THEN "alive" ELSE "dead"]
    /\ shielded' = [shielded EXCEPT ![i] = Requested(cfg[i])]
    /\ UNCHANGED <<files, table, strayed, locks, op, up, todo, faults>>

(* With protection it then writes the journal before anything else, without *)
(* it removes its own.                                                     *)
Arm(i) ==
    /\ proc[i] = "alive"
    /\ journal' = IF shielded[i] THEN journal \cup {i} ELSE journal \ {i}
    /\ journal' # journal
    /\ strayed' = IF shielded[i] THEN strayed ELSE strayed \ {i}
    /\ UNCHANGED <<cfg, terminal, table, proc, shielded, locks, op, up, todo, faults>>

(* statusd::serve, much later, removes the record of the last failure and  *)
(* binds the status endpoint, if it can.                                   *)
Serve(i) ==
    /\ proc[i] = "alive" /\ shielded[i] = (i \in journal)
    /\ proc' = [proc EXCEPT ![i] = "serving"] /\ terminal' = terminal \ {i}
    /\ UNCHANGED <<cfg, journal, table, shielded, strayed, locks, op, up, todo, faults>>

(* It ends by itself, on request or killed after three seconds, and is     *)
(* reaped by its supervisor, which takes it off the table.                 *)
End(i) ==
    /\ Live(i) /\ proc' = [proc EXCEPT ![i] = "dead"]
    /\ \/ UNCHANGED <<terminal, faults>>
       \/ Fault /\ terminal' = terminal \cup {i}
    /\ UNCHANGED <<cfg, journal, table, shielded, strayed, locks, op, up, todo>>

Reap(i) ==
    /\ proc[i] = "dead" /\ proc' = [proc EXCEPT ![i] = "none"]
    /\ members' = [members EXCEPT ![i] = "none"] /\ shielded' = [shielded EXCEPT ![i] = FALSE]
    /\ \/ failed' = [failed EXCEPT ![i] = FALSE] /\ UNCHANGED faults
       \/ Fault /\ failed' = [failed EXCEPT ![i] = TRUE]
    /\ strayed' = IF i \in journal THEN strayed ELSE strayed \ {i}
    /\ UNCHANGED <<files, cleanup, protected, locks, op, up, todo>>

(* The next daemon, after a shutdown. *)
Restart ==
    /\ up = "no" /\ up' = "boot" /\ closing' = "no"
    /\ todo' = {i \in Ifaces : Joined(i)}
    /\ failed' = [i \in Ifaces |-> FALSE] /\ cleanup' = {} /\ protected' = {}
    /\ UNCHANGED <<files, members, procs, busy, admission, op, faults>>

Work(r) == Stopped(r) \/ Clear(r) \/ Finish(r) \/ ShutdownNext(r) \/ Enrolled(r) \/ StartJoined(r)
Request(r) ==
    \/ Shutdown(r)
    \/ \E i \in Ifaces : Up(r, i) \/ Down(r, i, "down") \/ Down(r, i, "leave")
                         \/ Settings(r, i) \/ Join(r, i)
Next ==
    \/ Boot \/ Restart
    \/ \E r \in Clients : Request(r) \/ Work(r)
    \/ \E i \in Ifaces : Edit(i) \/ ReadConfig(i) \/ Arm(i) \/ Serve(i) \/ End(i) \/ Reap(i)

Spec == Init /\ [][Next]_vars

-----------------------------------------------------------------------------
(* Protection is exclusive: while a network's process was started with the *)
(* kill switch, or its journal is on disk, no other network's process runs. *)
(* daemon.rs: "a second iface must not pass before a newly started         *)
(* protected member has written its firewall journal".  The daemon's own   *)
(* operations keep to it.  The exception is a network whose configuration  *)
(* the command line edited after the daemon had admitted it and before its *)
(* process read it: the process goes by what it reads, and finds only      *)
(* journals in its way.                                                    *)
Exclusive ==
    LET shields(i) == i \in journal \/ (Live(i) /\ shielded[i]) IN
    \A i, j \in Ifaces : i # j /\ shields(i) /\ i \notin strayed => ~Live(j)

(* An acknowledged shutdown leaves no process and no protection behind,    *)
(* whatever the other clients were doing.                                  *)
ShutdownClean == closing = "done" => \A i \in Ifaces : proc[i] = "none" /\ i \notin journal

(* No process runs that the table does not list: a restart cannot start a  *)
(* second one, a shutdown cannot miss one.                                 *)
ChildrenListed == \A i \in Ifaces : proc[i] # "none" <=> members[i] # "none"
=============================================================================
