------------------------------- MODULE UciDns -------------------------------
(***************************************************************************)
(* The resolver on OpenWrt (dns.rs, OpenWrtDnsmasq): the node puts its DNS  *)
(* server into dnsmasq's uci configuration, switches the upstream resolvers *)
(* off (noresolv), commits and restarts dnsmasq; a state file in /run keeps *)
(* what noresolv was.  Every command may fail and the process may die       *)
(* between any two of them.  One node at a time uses the state file, the    *)
(* owner leaves the two options alone, and the host does not reboot.        *)
(***************************************************************************)
EXTENDS Naturals, Sequences

CONSTANTS
    None,
    Servers,     \* the DNS servers an exit or the administrator may ask for
    MaxFaults    \* failed commands and deaths of the process

VARIABLES
    orig,        \* the owner's noresolv
    staged,      \* what uci shows: the configuration with uncommitted changes
    committed,   \* what is on flash
    running,     \* what dnsmasq was last started with
    file,        \* the state file; Empty when there is none
    state,       \* the copy of the operation under way
    todo,        \* the commands it still has to run
    want,        \* the servers it sets, None for a clear
    install,     \* DnsInstall of the process, None while there is none
    swapped,     \* servers that a set replaced by others without a clear
    cut,         \* a clear was begun, and neither it nor a later set was completed
    torn,        \* the process died while it wrote the state file
    faults

uciVars == <<orig, staged, committed, running, file, state, todo, want, install, swapped, cut, torn, faults>>

Empty == [had |-> FALSE, noresolv |-> None, dns |-> None, applied |-> FALSE]
Noresolv == {None, "0", "1"}
Config == [noresolv : Noresolv, servers : SUBSET Servers]
State == [had : BOOLEAN, noresolv : Noresolv, dns : Servers \cup {None}, applied : BOOLEAN]
SetSteps == <<"save", "noresolv", "server", "commit", "restart", "applied">>
ClearSteps == <<"server", "noresolv", "commit", "restart", "remove">>

UciTypeOK ==
    /\ orig \in Noresolv /\ staged \in Config /\ committed \in Config /\ running \in Config
    /\ file \in State /\ state \in State
    /\ \E n \in 0..6 : todo \in {SubSeq(SetSteps, n + 1, 6), SubSeq(ClearSteps, n + 1, 5)}
    /\ want \in Servers \cup {None} /\ swapped \subseteq Servers
    /\ install # None => install.applied \in Servers \cup {None} /\ install.dirty \in BOOLEAN
    /\ cut \in BOOLEAN /\ torn \in BOOLEAN /\ faults \in 0..MaxFaults

UciInit ==
    /\ orig \in Noresolv
    /\ staged = [noresolv |-> orig, servers |-> {}] /\ committed = staged /\ running = staged
    /\ file = Empty /\ state = Empty /\ todo = <<>> /\ want = None /\ install = None
    /\ swapped = {} /\ cut = FALSE /\ torn = FALSE /\ faults = 0

Idle == install # None /\ todo = <<>>

(* tick: at the first reconcile of a process, a state file means there is something to
   undo or to finish. *)
Start ==
    /\ install = None
    /\ install' = [applied |-> None, dirty |-> file # Empty]
    /\ UNCHANGED <<orig, staged, committed, running, file, state, todo, want, swapped, cut, torn, faults>>

\* Mutant of Unchanged: a set that was saved but not completed counts.
BugUnchanged(dns) == file.dns = dns

(* openwrt_unchanged *)
Unchanged(dns) == file.applied /\ file.dns = dns

\* Mutant of Recorded: the option is read again by every set.
BugRecorded == [file EXCEPT !.had = TRUE, !.noresolv = staged.noresolv]

(* set_openwrt_with: noresolv is recorded once, before it is first changed. *)
Recorded == IF file.had THEN file ELSE [file EXCEPT !.had = TRUE, !.noresolv = staged.noresolv]

(* sync_dns_with: set, unless these servers are known to be in force. *)
Set(dns) ==
    /\ Idle /\ (install.applied # dns \/ install.dirty)
    /\ want' = dns
    /\ IF Unchanged(dns)
       THEN /\ install' = [applied |-> dns, dirty |-> FALSE]
            /\ UNCHANGED <<state, todo, swapped>>
       ELSE /\ install' = [install EXCEPT !.dirty = TRUE]
            /\ state' = [Recorded EXCEPT !.dns = dns, !.applied = FALSE]
            /\ todo' = SetSteps
            /\ swapped' = swapped \cup ({file.dns} \ {dns, None})
    /\ UNCHANGED <<orig, staged, committed, running, file, cut, torn, faults>>

(* sync_dns_with: clear, if anything may be in force. *)
Clear ==
    /\ Idle /\ (install.applied # None \/ install.dirty)
    /\ want' = None
    /\ IF file = Empty
       THEN install' = [applied |-> None, dirty |-> FALSE] /\ UNCHANGED <<state, todo, cut>>
       ELSE state' = file /\ todo' = ClearSteps /\ cut' = TRUE /\ UNCHANGED install
    /\ UNCHANGED <<orig, staged, committed, running, file, swapped, torn, faults>>

-----------------------------------------------------------------------------
Runs(command) ==
    /\ todo # <<>> /\ Head(todo) = command /\ todo' = Tail(todo)
    /\ UNCHANGED <<orig, want, swapped, torn, faults>>

Uci(config) == staged' = config /\ UNCHANGED <<committed, running, file, state, install, cut>>

(* uci delete fails if there is no such entry. *)
NoEntry == want = None /\ state.noresolv = None /\ staged.noresolv = None

SetNoresolv ==
    /\ Runs("noresolv") /\ ~NoEntry
    /\ Uci([staged EXCEPT !.noresolv = IF want # None THEN "1" ELSE state.noresolv])

SetServer ==
    /\ Runs("server")
    /\ Uci([staged EXCEPT !.servers = IF want # None THEN @ \cup {want} ELSE @ \ {state.dns}])

Commit ==
    /\ Runs("commit")
    /\ committed' = staged /\ UNCHANGED <<staged, running, file, state, install, cut>>

Restart ==
    /\ Runs("restart")
    /\ running' = committed /\ UNCHANGED <<staged, committed, file, state, install, cut>>

(* write_state: before the first command, and when the set is complete. *)
Save ==
    /\ Runs("save")
    /\ file' = state /\ UNCHANGED <<staged, committed, running, state, install, cut>>

SaveApplied ==
    /\ Runs("applied")
    /\ state' = [state EXCEPT !.applied = TRUE] /\ file' = state'
    /\ install' = [applied |-> want, dirty |-> FALSE] /\ cut' = FALSE
    /\ UNCHANGED <<staged, committed, running>>

RemoveState ==
    /\ Runs("remove")
    /\ file' = Empty /\ install' = [applied |-> None, dirty |-> FALSE] /\ cut' = FALSE
    /\ UNCHANGED <<staged, committed, running, state>>

(* The first error ends the operation; what was done stays done. *)
Fail ==
    /\ todo # <<>> /\ todo' = <<>>
    /\ \/ Head(todo) = "noresolv" /\ NoEntry /\ UNCHANGED faults
       \/ faults < MaxFaults /\ faults' = faults + 1
    /\ UNCHANGED <<orig, staged, committed, running, file, state, want, install, swapped, cut, torn>>

(* fs::write truncates the file first, so a death while it is written loses it. *)
Die ==
    /\ install # None /\ install' = None /\ todo' = <<>>
    /\ faults < MaxFaults /\ faults' = faults + 1
    /\ \/ UNCHANGED <<file, torn>>
       \/ todo # <<>> /\ Head(todo) \in {"save", "applied"} /\ file' = Empty /\ torn' = TRUE
    /\ UNCHANGED <<orig, staged, committed, running, state, want, swapped, cut>>

UciNext ==
    \/ Start \/ Clear \/ \E dns \in Servers : Set(dns)
    \/ SetNoresolv \/ SetServer \/ Commit \/ Restart \/ Save \/ SaveApplied \/ RemoveState
    \/ Fail \/ Die

UciSpec == UciInit /\ [][UciNext]_uciVars

-----------------------------------------------------------------------------
(* While noresolv is not the owner's, anywhere, the state file has the owner's value,
   whichever command failed or was the last before a death, unless the state file
   itself was lost; and once the file is gone the owner's value is back and, unless a
   set replaced other servers, none of ours is left (set_openwrt_with,
   clear_openwrt_with). *)
NoresolvKept ==
    ~torn => /\ \A c \in {staged, committed, running} :
                   c.noresolv # orig => file.had /\ file.noresolv = orig
             /\ file = Empty => \A c \in {staged, committed, running} :
                   c.noresolv = orig /\ c.servers \subseteq swapped

(* Servers that count as applied are those dnsmasq runs with, unless a clear that did
   not get through came before (openwrt_unchanged: "Only a completed apply can skip
   commands"). *)
ServersInForce ==
    install # None /\ install.applied # None /\ ~install.dirty /\ ~cut
        => running.noresolv = "1" /\ install.applied \in running.servers
=============================================================================
