----------------------------- MODULE ExitRoutes -----------------------------
(***************************************************************************)
(* The routes of a full tunnel, command by command (route.rs): two halves   *)
(* of the IPv4 space into the TUN, two of the IPv6 space to block what the  *)
(* tunnel does not carry.  A host tick retires the exit that is no longer   *)
(* selected, cleans up what an earlier attempt left, blocks IPv6 and adds   *)
(* the IPv4 halves; what fails is rolled back and what cannot be rolled     *)
(* back is kept in a list for the next tick.  A command may fail without an *)
(* effect, or be killed by its timeout after the effect (apply.rs); other   *)
(* programs add rows, and IPv6 is switched off and on.  The bypass routes   *)
(* of exit_up are not here: sync_exit passes none (they are bypass.rs's).   *)
(***************************************************************************)
EXTENDS Naturals, FiniteSets

CONSTANTS
    None,
    Exits,       \* the peers that may be selected as exit
    Systems,     \* of {"linux", "macos"}
    MaxFaults,   \* commands that fail although nothing stands in their way
    MaxChanges   \* changes by other programs

VARIABLES
    os,
    table,       \* the kernel's row for each half
    legacy,      \* halves that a previous version blocked with unreachable routes
    ipv6,        \* IPv6 is enabled
    steady,      \* ... and has been since the guard was last installed
    progress,    \* HostEffects::exit_progress: rows to remove
    exit,        \* HostEffects::exit_state
    stopped,     \* the shutdown gate
    selected,    \* selected_exit of the tick under way
    pc,          \* its next step
    result,      \* what the last tick or cleanup returned
    unsure,      \* rows added by commands that were killed by their timeout
    faults, changes

V4 == {"0.0.0.0/1", "128.0.0.0/1"}
V6_HALVES == {"::/1", "8000::/1"}
Rows == V4 \cup V6_HALVES

host == <<os, table, legacy, ipv6, steady, unsure>>
exitVars == <<host, progress, exit, stopped, selected, pc, result, faults, changes>>

ExitTypeOK ==
    /\ os \in Systems /\ table \in [Rows -> {"none", "ours", "foreign"}]
    /\ legacy \subseteq V6_HALVES /\ ipv6 \in BOOLEAN /\ steady \in BOOLEAN /\ stopped \in BOOLEAN
    /\ progress \subseteq Rows /\ unsure \subseteq Rows
    /\ exit # None => exit.peer \in Exits /\ exit.rows \subseteq Rows /\ exit.teardown \in BOOLEAN
    /\ selected \in Exits \cup {None}
    /\ pc \in {"idle", "retire", "cleanup", "up", "legacy", "rollback"} \cup Rows
    /\ result \in {"ok", "failed"} /\ faults \in 0..MaxFaults /\ changes \in 0..MaxChanges

ExitInit ==
    /\ os \in Systems /\ table = [p \in Rows |-> "none"] /\ ipv6 \in BOOLEAN /\ steady = FALSE
    /\ legacy \in (IF os = "linux" THEN {{}, V6_HALVES} ELSE {{}})
    /\ progress = {} /\ exit = None /\ stopped = FALSE /\ selected = None
    /\ pc = "idle" /\ result = "ok" /\ unsure = {} /\ faults = 0 /\ changes = 0

-----------------------------------------------------------------------------
(* run_captured: n more commands fail. *)
Fails(n) == faults' = faults + n /\ faults' <= MaxFaults

Ends(outcome) == pc' = "idle" /\ result' = outcome
Goes(to) == pc' = to /\ UNCHANGED result

(* route_change_with, v6_unblock_cmds: a deletion names the device, but for IPv4 on macOS. *)
Deleted(rows) ==
    [p \in Rows |-> IF p \in rows /\ (table[p] = "ours" \/ (os = "macos" /\ p \in V4))
                    THEN "none" ELSE table[p]]

(* cleanup_exit_with, v6_cleanup_with: every row is tried, a missing one counts as
   removed, those that fail stay in the list.  A deletion that timed out may have
   happened. *)
Removes(rows, kept) ==
    /\ kept \subseteq rows
    /\ Fails(Cardinality(kept))
    /\ \E late \in SUBSET kept : table' = Deleted((rows \ kept) \cup late)
    /\ UNCHANGED <<os, legacy, ipv6, steady, unsure, changes>>

Tick(peer) ==
    /\ pc = "idle" /\ ~stopped
    /\ selected' = peer
    /\ Goes("retire")
    /\ UNCHANGED <<host, progress, exit, stopped, faults, changes>>

\* Mutant of Retires: the same peer selected again revives an exit that is half removed.
BugRetires == exit # None /\ exit.peer # selected

(* retire_exit: a removal that has begun is finished before anything is installed,
   also if the same peer is selected again. *)
Retires == exit # None /\ (exit.peer # selected \/ exit.teardown)

Retire ==
    /\ pc = "retire"
    /\ IF Retires
       THEN \E kept \in SUBSET exit.rows :
               /\ Removes(exit.rows, kept)
               /\ exit' = IF kept = {} THEN None ELSE [exit EXCEPT !.rows = kept, !.teardown = TRUE]
               /\ IF kept = {} THEN Goes("cleanup") ELSE Ends("failed")
       ELSE Goes("cleanup") /\ UNCHANGED <<host, exit, faults, changes>>
    /\ UNCHANGED <<progress, stopped, selected>>

(* sync_exit: the leftovers of an earlier attempt first; an exit that is up stays. *)
SyncExit ==
    /\ pc = "cleanup"
    /\ \E kept \in SUBSET progress :
          /\ Removes(progress, kept)
          /\ progress' = kept
          /\ IF kept # {} THEN Ends("failed")
             ELSE IF exit = None /\ selected # None THEN Goes("up")
             ELSE Ends("ok")
    /\ UNCHANGED <<exit, stopped, selected>>

(* apply_exit: without a physical default route, or when it cannot be read, nothing is
   done. *)
NoGateway ==
    /\ pc = "up" /\ Fails(1) /\ Ends("failed")
    /\ UNCHANGED <<host, progress, exit, stopped, selected, changes>>

(* v6_block_up: with IPv6 switched off there is nothing to block. *)
BlockUp ==
    /\ pc = "up"
    /\ steady' = ipv6
    /\ Goes(IF ipv6 THEN "legacy" ELSE "0.0.0.0/1")
    /\ UNCHANGED <<os, table, legacy, ipv6, unsure, progress, exit, stopped, selected, faults, changes>>

(* v6_legacy_cleanup_cmds: on Linux, the unreachable routes of the previous version.
   v6_guard_result: if IPv6 went away meanwhile, the tunnel goes on without the guard. *)
Legacy ==
    /\ pc = "legacy"
    /\ \/ (ipv6 \/ os = "macos") /\ legacy' = {} /\ Goes("::/1") /\ UNCHANGED faults
       \/ ~ipv6 /\ os = "linux" /\ Goes("0.0.0.0/1") /\ UNCHANGED <<legacy, faults>>
       \/ os = "linux" /\ Fails(1) /\ legacy' \in {legacy, legacy \ {"::/1"}} /\ Goes("rollback")
    /\ UNCHANGED <<os, table, ipv6, steady, unsure, progress, exit, stopped, selected, changes>>
After(p) == CASE p = "::/1" -> "8000::/1" [] p = "8000::/1" -> "0.0.0.0/1" [] p = "0.0.0.0/1" -> "128.0.0.0/1"

Added(p) == [table EXCEPT ![p] = "ours"]

(* v6_block_tracked: the row is added, never replaced, and listed once it is there.
   After a failure the half that was added is taken back (here with the rollback); if
   the failure was that IPv6 is unavailable, the tunnel goes on without the guard. *)
BlockHalf(p) ==
    /\ pc = p
    /\ \/ /\ ipv6 /\ table[p] = "none"
          /\ table' = Added(p) /\ progress' = progress \cup {p}
          /\ Goes(After(p)) /\ UNCHANGED <<unsure, faults>>
       \/ /\ ~ipv6
          /\ table' = Deleted(progress) /\ progress' = {}
          /\ Goes("0.0.0.0/1") /\ UNCHANGED <<unsure, faults>>
       \/ /\ ipv6 /\ table[p] # "none"
          /\ Goes("rollback") /\ UNCHANGED <<table, progress, unsure, faults>>
       \/ /\ Fails(1)
          /\ \/ table' = table /\ UNCHANGED unsure
             \/ ipv6 /\ table[p] = "none" /\ table' = Added(p) /\ unsure' = unsure \cup {p}
          /\ Goes("rollback") /\ UNCHANGED progress
    /\ UNCHANGED <<os, legacy, ipv6, steady, exit, stopped, selected, changes>>

(* exit_up_with, exit_effect: Linux replaces a row that is there, macOS deletes it and
   adds ours, which may fail in between. *)
AddHalf(p) ==
    /\ pc = p
    /\ \/ /\ table' = Added(p)
          /\ IF p = "128.0.0.0/1"
             THEN /\ exit' = [peer |-> selected, rows |-> progress \cup {p}, teardown |-> FALSE]
                  /\ progress' = {} /\ Ends("ok")
             ELSE progress' = progress \cup {p} /\ Goes(After(p)) /\ UNCHANGED exit
          /\ UNCHANGED <<unsure, faults>>
       \/ /\ Fails(1)
          /\ \/ table' \in {table, IF os = "macos" THEN Deleted({p}) ELSE table} /\ UNCHANGED unsure
             \/ table' = Added(p) /\ unsure' = unsure \cup {p}
          /\ Goes("rollback") /\ UNCHANGED <<progress, exit>>
    /\ UNCHANGED <<os, legacy, ipv6, steady, stopped, selected, changes>>

\* Mutant of Rollback: what could not be rolled back is forgotten.
BugRollback ==
    /\ pc = "rollback"
    /\ \E kept \in SUBSET progress : Removes(progress, kept) /\ progress' = {}
    /\ Ends("failed")
    /\ UNCHANGED <<exit, stopped, selected>>

(* exit_up_with: the error is returned whether or not the rollback is complete. *)
Rollback ==
    /\ pc = "rollback"
    /\ \E kept \in SUBSET progress : Removes(progress, kept) /\ progress' = kept
    /\ Ends("failed")
    /\ UNCHANGED <<exit, stopped, selected>>

(* HostEffects::cleanup: the gate is closed for good; both lists are tried. *)
Cleanup ==
    /\ pc = "idle" /\ ~stopped
    /\ stopped' = TRUE
    /\ LET rows == progress \cup (IF exit = None THEN {} ELSE exit.rows) IN
       \E kept \in SUBSET rows :
          /\ Removes(rows, kept)
          /\ progress' = progress \cap kept
          /\ exit' = IF exit = None THEN None ELSE [exit EXCEPT !.rows = @ \cap kept, !.teardown = TRUE]
          /\ result' = IF kept = {} THEN "ok" ELSE "failed"
    /\ UNCHANGED <<selected, pc>>

-----------------------------------------------------------------------------
(* Another program takes a half that is free, or switches IPv6 (which drops its rows). *)
TakesRow(p) ==
    /\ table[p] = "none" /\ (p \in V6_HALVES => ipv6)
    /\ table' = [table EXCEPT ![p] = "foreign"] /\ UNCHANGED <<legacy, ipv6, steady>>

SwitchesIpv6 ==
    /\ os = "linux"
    /\ ipv6' = ~ipv6 /\ steady' = FALSE /\ legacy' = IF ipv6 THEN {} ELSE legacy
    /\ table' = [p \in Rows |-> IF ipv6 /\ p \in V6_HALVES THEN "none" ELSE table[p]]

HostChanges ==
    /\ changes < MaxChanges /\ changes' = changes + 1
    /\ (\E p \in Rows : TakesRow(p)) \/ SwitchesIpv6
    /\ UNCHANGED <<os, unsure, progress, exit, stopped, selected, pc, result, faults>>

ExitNext ==
    \/ \E peer \in Exits \cup {None} : Tick(peer)
    \/ Retire \/ SyncExit \/ NoGateway \/ BlockUp \/ Legacy \/ Rollback \/ Cleanup
    \/ \E p \in V6_HALVES : BlockHalf(p)
    \/ \E p \in V4 : AddHalf(p)
    \/ HostChanges

ExitSpec == ExitInit /\ [][ExitNext]_exitVars

-----------------------------------------------------------------------------
Ours == {p \in Rows : table[p] = "ours"}
Listed == progress \cup (IF exit = None THEN {} ELSE exit.rows)

(* Every row of ours is on a list that a later cleanup goes through, whichever commands
   fail on the way in and on the way out, unless the command that added it timed out;
   so a tick or a cleanup that succeeds with no exit leaves none (route.rs,
   ExitProgress: "failed teardown retains only remaining work"). *)
RowsAccounted ==
    /\ Ours \subseteq Listed \cup unsure
    /\ pc = "idle" /\ result = "ok" /\ (stopped \/ selected = None) => Ours \subseteq unsure

(* A tick that succeeds has the selected exit up, and an exit that is up is whole: both
   halves of IPv4 go into the TUN and, if IPv6 has been on since the guard was
   installed, both of its halves are blocked (apply_exit, v6_block_up, retire_exit). *)
ExitWhole ==
    /\ pc = "idle" /\ result = "ok" /\ ~stopped /\ selected # None
          => exit # None /\ exit.peer = selected /\ ~exit.teardown
    /\ exit # None /\ ~exit.teardown
          => \A p \in V4 \cup (IF ipv6 /\ steady THEN V6_HALVES ELSE {}) : table[p] = "ours"
=============================================================================
