------------------------------- MODULE NodeRun -------------------------------
(***************************************************************************)
(* The life of one node process (node/src/lib.rs run, run_with): the kill   *)
(* switch is restored, the control plane is reached, the interface and the  *)
(* host effects come up, the reconcile loop serves; and a signal may come   *)
(* at any of these points.  The signal task does its work on a thread of    *)
(* its own: it cleans up through the host effects if it finds them in       *)
(* shutdown_host, and only closes the gate otherwise.  Every change of the  *)
(* firewall or of the host happens under that gate, so it is one step here. *)
(*                                                                         *)
(* HostEffects has the loop and what it does to the host, KillSwitch the    *)
(* rules and the name cache, Daemon what starts and restarts the process.   *)
(***************************************************************************)
EXTENDS Naturals, FiniteSets

CONSTANTS MaxFaults,        \* bound on the failures of one life
          None

VARIABLES
    kill,           \* a kill switch is requested
    retained,       \* local of start_client_guard: a policy was there already
    policy,         \* what OUTPUT lets through; None: no policy
    gate,           \* the shutdown gate's flag
    slot,           \* shutdown_host holds the host effects
    host,           \* what of this node is on the host: bypasses, other effects
    cleaned,        \* some cleanup has removed all of it
    record,         \* the file of the last failure: None, "failed", "terminal"
    pc, outcome,    \* run_with, and the error it is about to return
    serving,        \* the task of statusd::serve: None, "new", "up"
    sig,            \* the signal task and its thread
    aborted,        \* the task, not the thread, is gone
    down,           \* its signal was SIGINT, which takes the kill switch down
    saw,            \* it found the host effects
    code,           \* exit status of the process
    faults

hostVars == <<policy, gate, slot, host, cleaned>>
sigVars == <<sig, aborted, down, saw>>
mainVars == <<kill, retained, pc, outcome, serving, record>>
runVars == <<hostVars, sigVars, mainVars, code, faults>>

Carried == {"cached", "control", "relay", "peers"}
Fault == faults < MaxFaults /\ faults' = faults + 1
Alive == code = None

At(point) == Alive /\ pc = point
Goto(point) == pc' = point /\ UNCHANGED <<outcome, faults>>
Returns(error) == pc' = "returned" /\ outcome' = error
FailsWith(error) == Fault /\ Returns(error)
Fails == FailsWith("failed")

(* A step that failed, and is tried again once record_failure has put it on *)
(* record; if the record cannot be written, that error is returned instead. *)
RetryOnRecord ==
    /\ Fault
    /\ \/ record' = "failed" /\ UNCHANGED <<pc, outcome>>
       \/ Returns("failed") /\ UNCHANGED record

RunInit ==
    /\ kill \in BOOLEAN /\ retained = FALSE /\ policy \in {None, {"cached"}}
    /\ gate = FALSE /\ slot = FALSE /\ host = {} /\ cleaned = FALSE
    /\ record \in {None, "failed"} /\ pc = "begin" /\ outcome = None /\ serving = None
    /\ sig = None /\ aborted = FALSE /\ down = FALSE /\ saw = FALSE /\ code = None /\ faults = 0

-----------------------------------------------------------------------------
(* run: without the file with the configuration there is no record either.  *)
Unreadable == Fault /\ pc' = "unrecorded" /\ outcome' = "failed"

(* run_with: no other membership's policy, a good key, then the signal task. *)
Begin ==
    /\ At("begin")
    /\ \/ Goto("guard") /\ sig' = "wait"
       \/ (Fails \/ Unreadable) /\ UNCHANGED sig
    /\ UNCHANGED <<hostVars, aborted, down, saw, kill, retained, serving, record, code>>

(* start_client_guard: without a kill switch its leftovers go.              *)
StartGuard ==
    /\ At("guard")
    /\ \/ ~kill /\ Goto("bind") /\ policy' = None /\ UNCHANGED retained
       \/ /\ kill /\ retained' = (policy # None) /\ UNCHANGED policy
          /\ Goto(IF retained' THEN "restore" ELSE "resolve")
       \/ Fails /\ UNCHANGED <<policy, retained>>
    /\ UNCHANGED <<gate, slot, host, cleaned, sigVars, kill, serving, record, code>>

(* sync under the gate: once it is closed, nothing is done.                 *)
Allow(ips) ==
    policy' = IF gate THEN policy ELSE (IF policy = None THEN {} ELSE policy) \cup ips

Restore ==
    /\ At("restore")
    /\ \/ Goto("resolve") /\ Allow({"cached"})
       \/ ~gate /\ Fails /\ UNCHANGED policy
    /\ UNCHANGED <<gate, slot, host, cleaned, sigVars, kill, retained, serving, record, code>>

(* The names of the control server, the relay and the STUN server; from the *)
(* cache if they must.  Retried for ever, each failure on record.           *)
ResolveNames ==
    /\ At("resolve")
    /\ \/ Goto(IF retained THEN "allow" ELSE "bind") /\ UNCHANGED record
       \/ RetryOnRecord
    /\ UNCHANGED <<hostVars, sigVars, kill, retained, serving, code>>

\* Mutant of AllowControl: the retained policy is taken to be enough.
BugAllowControl ==
    /\ At("allow") /\ Goto("bind")
    /\ UNCHANGED <<hostVars, sigVars, kill, retained, serving, record, code>>

AllowControl ==
    /\ At("allow")
    /\ \/ Goto("bind") /\ Allow({"control"})
       \/ ~gate /\ Fails /\ UNCHANGED policy
    /\ UNCHANGED <<gate, slot, host, cleaned, sigVars, kill, retained, serving, record, code>>

(* bind_reuse_udp.                                                          *)
BindUdp ==
    /\ At("bind")
    /\ Goto("directory") \/ Fails
    /\ UNCHANGED <<hostVars, sigVars, kill, retained, serving, record, code>>

(* A request gets through only where the policy lets it.                    *)
Reaches(ip) == policy # None => ip \in policy

(* bootstrap_directory_with: with a kill switch there is no going on        *)
(* without the directory.                                                   *)
Directory ==
    /\ At("directory")
    /\ \/ /\ Reaches("control") /\ Goto(IF kill THEN "install" ELSE "advertise")
          /\ UNCHANGED record
       \/ kill /\ RetryOnRecord
       \/ Fault /\ ~kill /\ pc' = "advertise" /\ UNCHANGED <<outcome, record>>
       \/ Reaches("control") /\ FailsWith("terminal") /\ UNCHANGED record
    /\ UNCHANGED <<hostVars, sigVars, kill, retained, serving, code>>

\* Mutant of Install: does not look at the gate.
BugInstall ==
    /\ At("install") /\ Goto("advertise")
    /\ policy' = (IF policy = None THEN {} ELSE policy) \cup {"cached", "control", "relay"}
    /\ UNCHANGED <<gate, slot, host, cleaned, sigVars, kill, retained, serving, record, code>>

(* bootstrap_carriers_with: every name is resolved, the policy goes in.     *)
Install ==
    /\ At("install")
    /\ \/ ~gate /\ Goto("advertise") /\ Allow({"cached", "control", "relay"})
       \/ gate /\ Returns("failed") /\ UNCHANGED <<policy, faults>>       \* Interrupted
       \/ ~gate /\ Fails /\ UNCHANGED policy
    /\ UNCHANGED <<gate, slot, host, cleaned, sigVars, kill, retained, serving, record, code>>

(* The reflexive and the local address.                                     *)
Advertise ==
    /\ At("advertise")
    /\ Goto("config") \/ Fails
    /\ UNCHANGED <<hostVars, sigVars, kill, retained, serving, record, code>>

(* resolve_from_control reports the endpoints and asks, for a while, for a  *)
(* configuration with an address; retry_control asks again after any error  *)
(* that is not terminal, that of a record which cannot be written included. *)
resolve_from_control(result) ==
    CASE result = "config" -> Reaches("control") /\ UNCHANGED faults
      [] result = "error" -> Fault
      [] result = "terminal" -> Reaches("control") /\ Fault

FirstConfig ==
    /\ At("config")
    /\ \/ resolve_from_control("config") /\ pc' = "tun" /\ UNCHANGED <<outcome, record>>
       \/ resolve_from_control("error") /\ record' \in {record, "failed"} /\ UNCHANGED <<pc, outcome>>
       \/ resolve_from_control("terminal") /\ Returns("terminal") /\ UNCHANGED record
    /\ UNCHANGED <<hostVars, sigVars, kill, retained, serving, code>>

CreateTun ==
    /\ At("tun")
    /\ Goto("publish") \/ Fails
    /\ UNCHANGED <<hostVars, sigVars, kill, retained, serving, record, code>>

PublishHost ==
    /\ At("publish") /\ slot' = TRUE /\ Goto("carriers")
    /\ UNCHANGED <<policy, gate, host, cleaned, sigVars, kill, retained, serving, record, code>>

(* guard_carriers: widens the policy, adds bypass routes, narrows.  If the  *)
(* last of these fails, the routes stay where they are.                     *)
GuardCarriers ==
    /\ At("carriers")
    /\ \/ (~kill \/ gate) /\ Goto("apply") /\ UNCHANGED <<policy, host>>
       \/ kill /\ ~gate /\ Goto("apply") /\ Allow(Carried) /\ host' = host \cup {"bypass"}
       \/ /\ kill /\ ~gate /\ Fails
          /\ \/ UNCHANGED <<policy, host>>
             \/ Allow(Carried) /\ host' \in {host, host \cup {"bypass"}}
    /\ UNCHANGED <<gate, slot, cleaned, sigVars, kill, retained, serving, record, code>>

\* Mutant of Effects: does not look at the gate.
BugEffects == host' \in SUBSET {"bypass", "effects"} /\ UNCHANGED policy

(* HostEffects::apply; what fails is retried and does not end the node.     *)
Effects ==
    /\ host' \in IF gate THEN {host} ELSE SUBSET {"bypass", "effects"}
    /\ UNCHANGED policy

FirstApply ==
    /\ At("apply") /\ Effects /\ Goto("spawn")
    /\ UNCHANGED <<gate, slot, cleaned, sigVars, kill, retained, serving, record, code>>

(* The relay supervisor, readers, workers, status socket, stats, reconciler. *)
SpawnTasks ==
    /\ At("spawn") /\ Goto("serve") /\ serving' = "new"
    /\ UNCHANGED <<hostVars, sigVars, kill, retained, record, code>>

(* statusd::serve removes the record of an earlier failure.                 *)
ServeStatus ==
    /\ Alive /\ serving = "new" /\ serving' = "up" /\ record' = None
    /\ UNCHANGED <<hostVars, sigVars, kill, retained, pc, outcome, code, faults>>

(* Reconciler::run: a tick; the end if the gate is closed, or if the        *)
(* control plane says so for good.                                          *)
ReconcileTick ==
    /\ At("serve") /\ ~gate /\ Effects /\ Goto("serve")
    /\ UNCHANGED <<gate, slot, cleaned, sigVars, kill, retained, serving, record, code>>

ReconcilerEnds ==
    /\ At("serve") /\ pc' = "stopping"
    /\ \/ gate /\ UNCHANGED <<outcome, faults>>
       \/ ~gate /\ Fault /\ outcome' = "terminal"
    /\ UNCHANGED <<hostVars, sigVars, kill, retained, serving, record, code>>

\* Mutant of StopTasks: the status task is left running.
BugStopTasks ==
    /\ At("stopping") /\ Goto("cleanup") /\ aborted' = TRUE
    /\ UNCHANGED <<hostVars, sig, down, saw, kill, retained, serving, record, code>>

(* stop_tasks_and_cleanup: the tasks, the signal task among them.  What it  *)
(* has begun on a thread goes on.                                           *)
StopTasks ==
    /\ At("stopping") /\ Goto("cleanup") /\ serving' = None /\ aborted' = TRUE
    /\ UNCHANGED <<hostVars, sig, down, saw, kill, retained, record, code>>

(* HostEffects::cleanup, under the gate.                                    *)
Cleanup ==
    /\ gate' = TRUE
    /\ \/ host' = {} /\ cleaned' = TRUE /\ UNCHANGED faults
       \/ Fault /\ host # {} /\ host' \in SUBSET host \ {{}} /\ UNCHANGED cleaned

MainCleanup ==
    /\ At("cleanup") /\ Cleanup /\ pc' = "returned"
    /\ outcome' = IF faults' = faults THEN outcome
                  ELSE IF outcome = None THEN "failed" ELSE outcome
    /\ UNCHANGED <<policy, slot, sigVars, kill, retained, serving, record, code>>

(* With run_with its tasks are gone; run leaves a record of the error, or   *)
(* only logs that it could not.  The runtime that is dropped then waits for *)
(* threads that are busy.                                                   *)
Recorded ==
    /\ At("returned") /\ aborted' = TRUE
    /\ \/ /\ record' = IF outcome = None THEN record ELSE outcome
          /\ pc' = "dropping" /\ UNCHANGED faults
       \/ outcome # None /\ Fault /\ pc' = "unrecorded" /\ UNCHANGED record
    /\ UNCHANGED <<hostVars, sig, down, saw, kill, retained, serving, outcome, code>>

ProcessEnds ==
    /\ At("dropping") \/ At("unrecorded")
    /\ sig \in {None, "wait", "ok", "bad"}
    /\ code' = (IF outcome = None THEN 0 ELSE 1) /\ serving' = None
    /\ UNCHANGED <<hostVars, sigVars, kill, retained, pc, outcome, record, faults>>

-----------------------------------------------------------------------------
(* The signal task.                                                         *)
Signal(interrupt) ==
    /\ Alive /\ sig = "wait" /\ ~aborted /\ sig' = "signal" /\ down' = interrupt
    /\ UNCHANGED <<hostVars, aborted, saw, mainVars, code, faults>>

ReadSlot ==
    /\ Alive /\ sig = "signal" /\ saw' = slot /\ sig' = IF slot THEN "clean" ELSE "close"
    /\ UNCHANGED <<hostVars, aborted, down, mainVars, code, faults>>

Then == IF down THEN "clear" ELSE "ok"

CloseGate ==
    /\ Alive /\ sig = "close" /\ gate' = TRUE /\ sig' = Then
    /\ UNCHANGED <<policy, slot, host, cleaned, aborted, down, saw, mainVars, code, faults>>

SignalCleanup ==
    /\ Alive /\ sig = "clean" /\ Cleanup
    /\ sig' = IF faults' = faults THEN Then ELSE "bad"
    /\ UNCHANGED <<policy, slot, aborted, down, saw, mainVars, code>>

ClearSwitch ==
    /\ Alive /\ sig = "clear"
    /\ \/ policy' = None /\ sig' = "ok" /\ UNCHANGED faults
       \/ Fault /\ sig' = "bad" /\ UNCHANGED policy
    /\ UNCHANGED <<gate, slot, host, cleaned, aborted, down, saw, mainVars, code>>

(* The task, unless it has been aborted by now, ends the process.           *)
Exit ==
    /\ Alive /\ sig \in {"ok", "bad"} /\ ~aborted
    /\ code' = (IF sig = "ok" THEN 0 ELSE 1)
    /\ UNCHANGED <<hostVars, sigVars, mainVars, faults>>

RunNext ==
    \/ Begin \/ StartGuard \/ Restore \/ ResolveNames \/ AllowControl \/ BindUdp \/ Directory
    \/ Install \/ Advertise \/ FirstConfig \/ CreateTun \/ PublishHost \/ GuardCarriers
    \/ FirstApply \/ SpawnTasks \/ ServeStatus \/ ReconcileTick \/ ReconcilerEnds \/ StopTasks
    \/ MainCleanup \/ Recorded \/ ProcessEnds
    \/ \E interrupt \in BOOLEAN : Signal(interrupt)
    \/ ReadSlot \/ CloseGate \/ SignalCleanup \/ ClearSwitch \/ Exit

RunSpec == RunInit /\ [][RunNext]_runVars

-----------------------------------------------------------------------------
RunTypeOK ==
    /\ policy \in {None} \cup SUBSET Carried /\ host \subseteq {"bypass", "effects"}
    /\ record \in {None, "failed", "terminal"} /\ outcome \in {None, "failed", "terminal"}
    /\ serving \in {None, "new", "up"} /\ code \in {None, 0, 1} /\ faults \in 0..MaxFaults
    /\ sig \in {None, "wait", "signal", "close", "clean", "clear", "ok", "bad"}

(* A cleanup that succeeded is final: no tick in progress and no step of    *)
(* the start puts anything on the host again.  And a process that reports   *)
(* success leaves nothing on it, unless the signal task looked for the host *)
(* effects just before they were published.                                 *)
HostRestored ==
    /\ cleaned => host = {}
    /\ code = 0 /\ (sig \in {None, "wait"} \/ saw) => host = {}

(* A process that SIGINT ended well leaves no kill switch behind, wherever  *)
(* in the start it came: a sync that waits for the gate does nothing.       *)
SwitchTakenDown == ~Alive /\ down /\ sig = "ok" => policy = None

(* A node does not lock itself out: whenever it is about to ask the control *)
(* server, the policy in force lets it through, and once it serves, also    *)
(* the relays and the peers (start_client_guard, bootstrap_carriers_with).  *)
NotLockedOut ==
    policy # None /\ ~gate =>
        /\ pc \in {"directory", "config"} => "control" \in policy
        /\ kill /\ pc \in {"apply", "spawn", "serve"} => policy = Carried

(* The daemon does not restart a node whose last record is terminal, so a   *)
(* node that gives up leaves that record: the status task of the same run,  *)
(* which removes older ones, has stopped by then (stop_tasks_and_cleanup).  *)
(* The exceptions: run only logs a record it could not write ("unrecorded"),*)
(* and a signal that comes first ends the process without one.              *)
TerminalOnRecord == code = 1 /\ outcome = "terminal" /\ pc = "dropping" => record = "terminal"
=============================================================================
