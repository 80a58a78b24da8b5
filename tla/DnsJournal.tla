------------------------------ MODULE DnsJournal ------------------------------
(***************************************************************************)
(* Ownership of the host's resolver settings (node/src/dns/managed.rs).    *)
(*                                                                         *)
(* Every member interface is run by a process of its own, which may ask    *)
(* for its DNS servers: per link, from systemd-resolved, or, where that is *)
(* not available, by taking over /etc/resolv.conf.  The processes share a  *)
(* journal (state.json), guarded by a file lock, that remembers what the   *)
(* host looked like before and who owns the file; the owners form a stack  *)
(* whose top is in force.                                                  *)
(*                                                                         *)
(* An operation locks the journal and then alternates decisions, which     *)
(* read the journal, the file and the process table, with effects, each of *)
(* which replaces the journal or the resolver file atomically.  Between    *)
(* any two of these the process may die, an effect may fail, and other     *)
(* programs may change the resolver file or where it points to.            *)
(*                                                                         *)
(* A list of DNS servers stands for the file body that file_body makes of  *)
(* it.  Whether the clock is within the drift backoff is left open.        *)
(***************************************************************************)
EXTENDS Integers, Sequences, FiniteSets

CONSTANTS
    Ifaces,     \* member interfaces
    Prefer,     \* those whose backend tries systemd-resolved first
    Full,       \* those that stay in full-tunnel mode and want their servers in force
    Dns,        \* lists of DNS servers, and the file bodies made of them
    Orig,       \* the contents of the resolver file before anything ran
    Foreign,    \* contents that other programs write
    Rejected,   \* those of them that NetworkManager generated
    Absent,     \* no such file
    Targets,    \* files /etc/resolv.conf may resolve to
    Volatile,   \* those of them under /run
    Guarded,    \* those of them that a resolver manager owns
    None,       \* an empty Option
    MaxProcs, MaxBoots, MaxExternal, MaxFaults
                \* bounds on starts, boots, foreign changes and failed effects

Contents == Dns \cup Foreign \cup {Orig, Absent}

ASSUME ConstantsAssumption ==
    /\ Prefer \subseteq Ifaces /\ Full \subseteq Ifaces /\ Rejected \subseteq Foreign
    /\ Volatile \subseteq Targets /\ Guarded \subseteq Targets
    /\ Dns \cap (Foreign \cup {Orig, Absent}) = {}
    /\ Absent \notin Foreign \cup {Orig}
    /\ {MaxProcs, MaxBoots, MaxExternal, MaxFaults} \subseteq Nat

VARIABLES
    file,       \* the contents of each target
    link,       \* the target /etc/resolv.conf resolves to
    res,        \* whose servers and whose domains resolved applies to each link
    journal,    \* state.json
    holder,     \* the operation that holds the lock, or None
    running,    \* the process of each interface, 0 if there is none
    procs,      \* processes started so far
    boot,       \* the current boot
    external,   \* foreign changes so far
    faults,     \* failed effects so far
    moved,      \* history: the resolver link was pointed elsewhere
    slipped     \* history: the file was released with a forgotten body of ours in it

vars == <<file, link, res, journal, holder, running, procs, boot, external, faults,
          moved, slipped>>
host == <<link, running, procs, boot, external, moved>>
still == <<faults, slipped, host>>

Setting == [dns : {"prior", "ours"}, domain : {"prior", "ours"}]
Prior == [dns |-> "prior", domain |-> "prior"]

\* OriginalFile: the contents before the first owner, the last two bodies written,
\* and whether a drift backoff was started.  A None body is an absent file.
OriginalFile == [target : Targets, bytes : Contents, boot : Nat,
                 last : Contents, prev : Contents, drift : BOOLEAN]

Owner == [iface : Ifaces, dns : Dns, proc : Nat]
Resolved == [saved : Setting, proc : Nat, boot : Nat]

Journal == [file : OriginalFile \cup {None}, owners : Seq(Owner), pending : BOOLEAN,
            resolved : [Ifaces -> Resolved \cup {None}]]

\* An operation under the lock: its next decision, its copy of the journal, and
\* the effects of its last decision that are still to come.
Operation == [iface : Ifaces, op : {"set", "verify", "clear"}, dns : Dns \cup {None},
              at : {"prune", "restore", "stale", "links", "op", "set_resolved", "set_file",
                    "clear_file", "done"},
              mem : Journal, todo : Seq({"save", "write"}),
              target : Targets, body : Contents, stale : SUBSET Ifaces]

ASSUME NoneAssumption == None \notin OriginalFile \cup Resolved \cup Operation

-----------------------------------------------------------------------------
(* The journal. *)

Alive(i, proc) == running[i] = proc

Owns(j, i) == \E k \in DOMAIN j.owners : j.owners[k].iface = i

Top(j) == j.owners[Len(j.owners)]

\* Vec::retain: the elements at the positions K, in their order.
Retain(s, K) ==
    LET n == Cardinality(K)
        at == CHOOSE f \in [1 .. n -> K] : \A a, b \in 1 .. n : a < b => f[a] < f[b]
    IN  [a \in 1 .. n |-> s[at[a]]]

Living(owners) ==
    Retain(owners, {k \in DOMAIN owners : Alive(owners[k].iface, owners[k].proc)})
Others(owners, i) == Retain(owners, {k \in DOMAIN owners : owners[k].iface # i})

\* stage_write: recovery recognises both the staged body and the one before it.
Stage(f, body) ==
    IF f.last = body THEN f
    ELSE [f EXCEPT !.last = body, !.prev = IF f.last = Absent THEN f.bytes ELSE f.last]

\* release_file
Released(j) == [j EXCEPT !.file = None, !.owners = <<>>, !.pending = FALSE]

\* The file still is what this journal says it should be, or was one write ago.
Recognised(j) ==
    link = j.file.target /\ file[link] \in {j.file.last, j.file.prev}

\* What restore_file puts in place: the next owner's body, or the original.
Underneath(j) == IF j.owners = <<>> THEN j.file.bytes ELSE Top(j).dns

\* Mutant of AfterRestore: keeps the entry when the last owner is gone.
BugAfterRestore(j) ==
    [j EXCEPT !.file.last = IF j.owners = <<>> THEN None ELSE Top(j).dns,
              !.pending = FALSE]

AfterRestore(j) ==
    [j EXCEPT !.file = IF j.owners = <<>> THEN None ELSE [@ EXCEPT !.last = Top(j).dns],
              !.pending = FALSE]

-----------------------------------------------------------------------------
(* Steps of the operation that holds the lock. *)

At(stage) == holder # None /\ holder.at = stage /\ holder.todo = <<>>

Continue(stage, j) ==
    holder' = [holder EXCEPT !.at = stage, !.mem = j]

Then(stage, j, todo, target, body) ==
    holder' = [holder EXCEPT !.at = stage, !.mem = j, !.todo = todo,
                             !.target = target, !.body = body]

Save(stage, j) == Then(stage, j, <<"save">>, link, Absent)

Return == holder' = None

\* restore_file: it relinquishes the file to whoever changed it.
Restore(stage, j) ==
    IF j.file = None THEN Continue(stage, j)
    ELSE IF ~Recognised(j) THEN Save(stage, Released(j))
    ELSE Then(stage, AfterRestore(j), <<"write", "save">>, j.file.target, Underneath(j))

\* Locked::open, at the start of set_mode_with, verify_file_with and clear_with.
\* verify_file and clear look at the journal first and may have nothing to do.
Open(i, op, dns) ==
    /\ running[i] # 0 /\ holder = None
    /\ op = "verify" => Owns(journal, i)
    /\ holder' = [iface |-> i, op |-> op, dns |-> dns, at |-> "prune", mem |-> journal,
                  todo |-> <<>>, target |-> link, body |-> Absent, stale |-> {}]
    /\ UNCHANGED <<file, res, journal, still>>

\* The file holds a body of ours that neither write of the journal accounts for.
Slip ==
    /\ journal.file # None
    /\ file[journal.file.target] \in Dns \ {journal.file.last, journal.file.prev}

Pending(effect) == holder # None /\ holder.todo # <<>> /\ Head(holder.todo) = effect

\* Locked::save: the rename replaces the journal atomically.
Saved ==
    /\ Pending("save")
    /\ journal' = holder.mem
    /\ slipped' = (slipped \/ (Slip /\ holder.mem.file = None))
    /\ UNCHANGED <<file, res, host>>

\* replace_file: so does the rename of the resolver file.
Written ==
    /\ Pending("write")
    /\ file' = [file EXCEPT ![holder.target] = holder.body]
    /\ UNCHANGED <<res, journal, slipped, host>>

Perform ==
    /\ Saved \/ Written
    /\ holder' = [holder EXCEPT !.todo = Tail(@)]
    /\ UNCHANGED faults

\* An effect fails, before the rename or after it, in the sync of the directory.  The
\* operation returns the error, except that clear goes on with the file when it could
\* not save the journal without its link.
Fail ==
    /\ faults < MaxFaults /\ faults' = faults + 1
    /\ \/ Saved \/ Written
       \/ /\ Pending("save") \/ Pending("write")
          /\ UNCHANGED <<file, res, journal, slipped, host>>
    /\ holder' = IF holder.at = "clear_file" THEN [holder EXCEPT !.todo = <<>>] ELSE None

\* Mutant of PruneOwners: no snapshot outlives the boot.
BugPruneOwners ==
    LET j == IF /\ holder.mem.file # None
                /\ holder.mem.file.boot # boot
             THEN Released(holder.mem) ELSE holder.mem
        left == Living(j.owners)
        gone == left # j.owners /\ (left = <<>> \/ left[Len(left)].iface # Top(j).iface)
        pruned == [j EXCEPT !.owners = left, !.pending = @ \/ gone]
    IN  /\ At("prune")
        /\ IF pruned = holder.mem THEN Continue("restore", pruned) ELSE Save("restore", pruned)
        /\ UNCHANGED <<file, res, journal, still>>

\* prune: a snapshot of /run does not outlive the boot; dead owners go, and if the
\* top was one of them, the journal says that the file has to be restored.
PruneOwners ==
    LET j == IF /\ holder.mem.file # None
                /\ holder.mem.file.boot # boot /\ holder.mem.file.target \in Volatile
             THEN Released(holder.mem) ELSE holder.mem
        left == Living(j.owners)
        gone == left # j.owners /\ (left = <<>> \/ left[Len(left)].iface # Top(j).iface)
        pruned == [j EXCEPT !.owners = left, !.pending = @ \/ gone]
    IN  /\ At("prune")
        /\ IF pruned = holder.mem THEN Continue("restore", pruned) ELSE Save("restore", pruned)
        /\ UNCHANGED <<file, res, journal, still>>

PruneFile ==
    /\ At("restore")
    /\ LET j == holder.mem IN
       IF j.pending \/ (j.owners = <<>> /\ j.file # None)
       THEN Restore("stale", j) ELSE Continue("stale", j)
    /\ UNCHANGED <<file, res, journal, still>>

\* What resolvectl leaves of our settings on a link when one of its two calls fails.
PartlyRestored(i, saved) ==
    {res, [res EXCEPT ![i].dns = saved.dns], [res EXCEPT ![i].domain = saved.domain]}

\* prune, of the links whose processes are dead by now.
PruneLinks ==
    /\ At("stale")
    /\ holder' = [holder EXCEPT !.at = "links",
                     !.stale = {i \in Ifaces : /\ holder.mem.resolved[i] # None
                                               /\ ~Alive(i, holder.mem.resolved[i].proc)}]
    /\ UNCHANGED <<file, res, journal, still>>

\* The settings of this boot are put back, unless the link or resolved is gone.
PruneLink(i) ==
    LET saved == holder.mem.resolved[i]
        dropped == [holder EXCEPT !.mem.resolved[i] = None, !.todo = <<"save">>,
                                  !.stale = @ \ {i}] IN
    /\ At("links") /\ i \in holder.stale
    /\ \/ /\ res' = IF saved.boot = boot THEN [res EXCEPT ![i] = saved.saved] ELSE res
          /\ holder' = dropped
          /\ UNCHANGED faults
       \/ /\ saved.boot = boot      \* gone
          /\ res' \in PartlyRestored(i, saved.saved)
          /\ holder' = dropped
          /\ UNCHANGED faults
       \/ /\ saved.boot = boot      \* another error
          /\ faults < MaxFaults /\ faults' = faults + 1
          /\ res' \in PartlyRestored(i, saved.saved)
          /\ Return
    /\ UNCHANGED <<file, journal, slipped, host>>

-----------------------------------------------------------------------------
(* What the operations do once the journal is pruned. *)

\* An interface that owns the file keeps to it; verify repeats its owner's servers.
Begin ==
    LET i == holder.iface
        j == holder.mem IN
    /\ At("links") /\ holder.stale = {}
    /\ \/ /\ holder.op = "clear" /\ Continue("op", j)
       \/ /\ holder.op = "set"
          /\ Continue(IF i \notin Prefer \/ Owns(j, i) THEN "set_file" ELSE "op", j)
       \/ /\ holder.op = "verify" /\ ~Owns(j, i) /\ Return
       \/ /\ holder.op = "verify"
          /\ \E k \in DOMAIN j.owners :
                /\ j.owners[k].iface = i
                /\ holder' = [holder EXCEPT !.at = "set_file", !.dns = j.owners[k].dns]
    /\ UNCHANGED <<file, res, journal, still>>

\* Mutant of QueryLink: saves the link's settings every time.
BugQueryLink ==
    LET i == holder.iface
        saved == [saved |-> res[i], proc |-> running[i], boot |-> boot] IN
    /\ At("op") /\ holder.op = "set"
    /\ Save("set_resolved", [holder.mem EXCEPT !.resolved[i] = saved])
    /\ UNCHANGED <<file, res, journal, still>>

\* set_mode_with, before the first set: it saves what resolved applies to the link.
QueryLink ==
    LET i == holder.iface
        saved == [saved |-> res[i], proc |-> running[i], boot |-> boot] IN
    /\ At("op") /\ holder.op = "set"
    /\ IF holder.mem.resolved[i] # None THEN Continue("set_resolved", holder.mem)
       ELSE \/ Save("set_resolved", [holder.mem EXCEPT !.resolved[i] = saved])
            \/ Continue("set_file", holder.mem)     \* resolved is unavailable
            \/ Return                               \* another error
    /\ UNCHANGED <<file, res, journal, still>>

\* set_mode_with, setting the link's servers and then its domains.
SetLink ==
    /\ At("set_resolved")
    /\ \/ /\ res' = [res EXCEPT ![holder.iface] = [dns |-> "ours", domain |-> "ours"]]
          /\ Return
       \/ /\ res' \in {res, [res EXCEPT ![holder.iface].dns = "ours"]}
          /\ Continue("set_file", holder.mem) \/ Return     \* unavailable; other error
    /\ UNCHANGED <<file, journal, still>>

\* Mutant of Original: adopts what it is about to overwrite as the baseline.
BugOriginal ==
    IF holder.mem.file # None THEN [holder.mem.file EXCEPT !.bytes = file[link]]
    ELSE [target |-> link, bytes |-> file[link], boot |-> boot,
          last |-> Absent, prev |-> Absent, drift |-> FALSE]

\* set_file_at.  It takes the file's contents down unless somebody owns the file.
Original ==
    IF holder.mem.file # None THEN holder.mem.file
    ELSE [target |-> link, bytes |-> file[link], boot |-> boot,
          last |-> Absent, prev |-> Absent, drift |-> FALSE]

Retargeted == holder.mem.file # None /\ holder.mem.file.target # link

\* A resolver manager owns the file, or wrote it.
Refused == link \in Guarded \/ file[link] \in Rejected

\* Mutant of Unchanged: only the top owner is left where it is.
BugUnchanged ==
    /\ Owns(holder.mem, holder.iface)
    /\ Top(holder.mem).iface = holder.iface /\ Top(holder.mem).dns = holder.dns

Unchanged == \E k \in DOMAIN holder.mem.owners :
    holder.mem.owners[k].iface = holder.iface /\ holder.mem.owners[k].dns = holder.dns

ReleaseFile ==
    /\ At("set_file") /\ Retargeted
    /\ Save("set_file", Released(holder.mem))
    /\ UNCHANGED <<file, res, journal, still>>

RefuseFile ==
    /\ At("set_file") /\ ~Retargeted /\ Refused
    /\ Return
    /\ UNCHANGED <<file, res, journal, still>>

\* An unchanged owner only sees to it that the top's body is in force; a repair waits
\* for the backoff of the one before it.
KeepFile ==
    /\ At("set_file") /\ ~Retargeted /\ ~Refused /\ Unchanged
    /\ file[link] = Top(holder.mem).dns \/ Original.drift
    /\ Return
    /\ UNCHANGED <<file, res, journal, still>>

\* Mutant of RepairFile: stages the repair and does not write it.
BugRepairFile ==
    LET body == Top(holder.mem).dns
        f == [Stage(Original, body) EXCEPT !.drift = TRUE] IN
    /\ At("set_file") /\ ~Retargeted /\ ~Refused /\ Unchanged
    /\ file[link] # body
    /\ Then("done", [holder.mem EXCEPT !.file = f], <<"save">>, link, body)
    /\ UNCHANGED <<file, res, journal, still>>

RepairFile ==
    LET body == Top(holder.mem).dns
        f == [Stage(Original, body) EXCEPT !.drift = TRUE] IN
    /\ At("set_file") /\ ~Retargeted /\ ~Refused /\ Unchanged
    /\ file[link] # body
    /\ Then("done", [holder.mem EXCEPT !.file = f], <<"save", "write">>, link, body)
    /\ UNCHANGED <<file, res, journal, still>>

\* A new or changed owner goes to the top.
TakeFile ==
    LET owner == [iface |-> holder.iface, dns |-> holder.dns, proc |-> running[holder.iface]]
        others == Others(holder.mem.owners, holder.iface)
        f == [Stage(Original, holder.dns) EXCEPT !.drift = FALSE] IN
    /\ At("set_file") /\ ~Retargeted /\ ~Refused /\ ~Unchanged
    /\ Then("done", [holder.mem EXCEPT !.owners = Append(others, owner), !.file = f],
            <<"save", "write">>, link, holder.dns)
    /\ UNCHANGED <<file, res, journal, still>>

SetFile == ReleaseFile \/ RefuseFile \/ KeepFile \/ RepairFile \/ TakeFile

\* clear_with, of the link.  A failure is reported after the file was seen to.
ClearLink ==
    LET i == holder.iface
        saved == holder.mem.resolved[i] IN
    /\ At("op") /\ holder.op = "clear"
    /\ IF saved = None THEN Continue("clear_file", holder.mem) /\ UNCHANGED res
       ELSE \/ /\ res' = [res EXCEPT ![i] = saved.saved]
               /\ Save("clear_file", [holder.mem EXCEPT !.resolved[i] = None])
            \/ /\ res' \in PartlyRestored(i, saved.saved)
               /\ Continue("clear_file", holder.mem)
    /\ UNCHANGED <<file, journal, still>>

\* clear_with, of the file.  If the restore fails, the owner stays in the journal; the
\* save after a restore writes what the restore saved.
ClearFile ==
    LET i == holder.iface
        j == [holder.mem EXCEPT !.owners = Others(@, i)] IN
    /\ At("clear_file")
    /\ \/ ~Owns(holder.mem, i) /\ Return
       \/ Owns(holder.mem, i) /\ Top(holder.mem).iface # i /\ Save("done", j)
       \/ Owns(holder.mem, i) /\ Top(holder.mem).iface = i /\ Restore("done", j)
    /\ UNCHANGED <<file, res, journal, still>>

Close == At("done") /\ Return /\ UNCHANGED <<file, res, journal, still>>

-----------------------------------------------------------------------------
(* The host: processes come and go, and other programs change the resolver. *)

Start(i) ==
    /\ running[i] = 0 /\ procs < MaxProcs
    /\ procs' = procs + 1
    /\ running' = [running EXCEPT ![i] = procs + 1]
    /\ UNCHANGED <<file, link, res, journal, holder, boot, external, faults, moved, slipped>>

\* The process exits or is killed; its tunnel link goes with it.
Stop(i) ==
    /\ running[i] # 0
    /\ running' = [running EXCEPT ![i] = 0]
    /\ res' = [res EXCEPT ![i] = Prior]
    /\ IF holder # None /\ holder.iface = i
       THEN holder' = None ELSE UNCHANGED holder
    /\ UNCHANGED <<file, link, journal, procs, boot, external, faults, moved, slipped>>

Reboot ==
    /\ boot < MaxBoots
    /\ boot' = boot + 1
    /\ running' = [i \in Ifaces |-> 0]
    /\ res' = [i \in Ifaces |-> Prior]
    /\ holder' = None
    /\ \E c \in Foreign \cup {Absent} :
          file' = [t \in Targets |-> IF t \in Volatile THEN c ELSE file[t]]
    /\ UNCHANGED <<link, journal, procs, external, faults, moved, slipped>>

ForeignWrite(c) ==
    /\ external < MaxExternal
    /\ external' = external + 1
    /\ file' = [file EXCEPT ![link] = c]
    /\ UNCHANGED <<link, res, journal, holder, running, procs, boot, faults, moved, slipped>>

Retarget(t) ==
    /\ external < MaxExternal
    /\ external' = external + 1
    /\ t # link /\ link' = t
    /\ moved' = TRUE
    /\ UNCHANGED <<file, res, journal, holder, running, procs, boot, faults, slipped>>

-----------------------------------------------------------------------------
\* The resolver file is the original one and nothing has run yet.
Init ==
    /\ link \in Targets
    /\ file = [t \in Targets |-> IF t = link THEN Orig ELSE Absent]
    /\ res = [i \in Ifaces |-> Prior]
    /\ journal = [file |-> None, owners |-> <<>>, pending |-> FALSE,
                  resolved |-> [i \in Ifaces |-> None]]
    /\ holder = None
    /\ running = [i \in Ifaces |-> 0]
    /\ procs = 0 /\ boot = 0 /\ external = 0 /\ faults = 0
    /\ moved = FALSE /\ slipped = FALSE

Decide ==
    \/ PruneOwners \/ PruneFile \/ PruneLinks \/ \E i \in Ifaces : PruneLink(i)
    \/ Begin \/ QueryLink \/ SetLink \/ SetFile \/ ClearLink \/ ClearFile \/ Close

Next ==
    \/ \E i \in Ifaces :
          (\E dns \in Dns : Open(i, "set", dns)) \/ Open(i, "verify", None) \/ Open(i, "clear", None)
    \/ Decide \/ Perform \/ Fail
    \/ \E i \in Ifaces : Start(i) \/ Stop(i)
    \/ Reboot
    \/ \E c \in Foreign : ForeignWrite(c)
    \/ \E t \in Targets : Retarget(t)

Spec == Init /\ [][Next]_vars

-----------------------------------------------------------------------------
(* Properties. *)

TypeOK ==
    /\ file \in [Targets -> Contents] /\ link \in Targets
    /\ res \in [Ifaces -> Setting]
    /\ journal \in Journal /\ holder \in Operation \cup {None}
    /\ running \in [Ifaces -> 0 .. procs]
    /\ procs \in 0 .. MaxProcs /\ boot \in 0 .. MaxBoots /\ external \in 0 .. MaxExternal
    /\ faults \in 0 .. MaxFaults
    /\ moved \in BOOLEAN /\ slipped \in BOOLEAN

\* Where the original is while nobody else changes the resolver.
Kept == external = 0 /\ link \notin Volatile =>
    IF journal.file = None THEN file[link] = Orig ELSE journal.file.bytes = Orig

\* The original of /etc is in the file or in the journal, across crashes, reboots and
\* failures before and after a rename.  It gets lost in one way only: the file holds a
\* body of ours that neither last_written nor previous_written remembers, and
\* restore_file takes it for somebody else's.
OriginalKept == slipped \/ Kept

\* "/etc originals survive for recovery" (prune), without that exception.
OriginalAlwaysKept == Kept

\* Once the journal is released, no body of ours is left in a resolver file that the
\* host still uses, however foreign changes and drift repairs came in between: the
\* baseline restored is never one of our own bodies (restore_file, set_file_at).
NoLeftover ==
    journal.file = None /\ ~moved /\ ~slipped => file[link] \notin Dns

\* For as long as any of our settings may be in force on a link, the journal has the
\* settings the link had before, and never our own (set_mode_with, clear_with).
LinkAccounted ==
    \A i \in Ifaces :
        IF journal.resolved[i] = None THEN res[i] = Prior
        ELSE journal.resolved[i].saved = Prior

\* Whether i is below k in the stack of owners.
Below(j, i, k) ==
    \E a, b \in DOMAIN j.owners : a < b /\ j.owners[a].iface = i /\ j.owners[b].iface = k

\* i gets above an owner k that it was below, or that owned the file without it.
Overtakes(i, k) == Owns(journal, k) /\ ~Below(journal, k, i) /\ Below(journal', k, i)

\* The step is of i's own set of servers that the journal does not have for it.
SetsNew(i) ==
    /\ holder # None /\ holder.op = "set" /\ holder.iface = i
    /\ ~\E a \in DOMAIN journal.owners : /\ journal.owners[a].iface = i
                                         /\ journal.owners[a].dns = holder.dns

\* Whoever gets above an owner does so by its own set of servers that the journal does not
\* have for it: a verify, a set of the servers it holds ("must not promote every instance
\* on every tick", set_file_at), a drift repair, or the exit of a third member never
\* changes who takes precedence over whom.  A member that was pruned has no servers in
\* the journal, so its set after a restart does put it on top.
OrderKept == [][\A i, k \in Ifaces : Overtakes(i, k) => SetsNew(i)]_vars

-----------------------------------------------------------------------------
\* The reconcile tick of a member that owns the file: a set if its servers or its mode
\* have changed or the last one failed, and otherwise a verify (sync_dns_mode_with).
Reconciles(i) ==
    /\ Owns(journal, i)
    /\ Open(i, "verify", None) \/ \E dns \in Dns : Open(i, "set", dns)

\* The operation that holds the lock goes on, the reconcile tick comes back to each
\* member in full-tunnel mode over and over, and the backoff after a repair ends.
\* Nothing is assumed of the others: an owner in split mode is never verified.
FairSpec ==
    /\ Spec
    /\ WF_vars(Decide) /\ WF_vars(Perform)
    /\ SF_vars(RepairFile)
    /\ \A i \in Full : SF_vars(Reconciles(i))

\* While a member in full-tunnel mode owns the file, at whatever place in the stack, the
\* servers of the top owner are in force again and again after whatever foreign change,
\* failed write or crash of another member, although the top may be an owner in split
\* mode that never looks; only a resolver manager's file is left alone
\* (sync_dns_mode_with, verify_file_with).
DriftRepaired ==
    \A i \in Full :
        <>[](running[i] # 0 /\ Owns(journal, i)) =>
            []<>(Refused \/ (journal.owners # <<>> /\ file[link] = Top(journal).dns))

-----------------------------------------------------------------------------
(* For TLC: lists of servers are interchangeable. *)
LOCAL INSTANCE TLC
Symmetry == Permutations(Dns)

=============================================================================
