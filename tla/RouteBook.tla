----------------------------- MODULE RouteBook ------------------------------
(***************************************************************************)
(* The route journal of a Windows member (node/src/route/windows.rs and    *)
(* windows/native.rs).  Members share the routing table with each other    *)
(* and with other programs; a member may only ever delete a row it created *)
(* itself, so it writes what it is about to create into its own journal    *)
(* first.  A row's identity is (prefix, gateway, interface): a redirect    *)
(* over the member's own TUN is a row of its own, two members' bypasses of *)
(* one carrier are the same row.                                           *)
(***************************************************************************)
EXTENDS Integers, FiniteSets

CONSTANTS
    Members,
    Redirects,      \* journal keys of routes over the TUN
    Bypasses,       \* journal keys of bypass routes
    Gateways,       \* physical gateways a bypass may go through
    Contested,      \* the rows other programs touch
    None, Foreign,  \* no row; a row of another program
    MaxFaults

VARIABLES
    table,          \* whose row the table holds under each identity
    disk,           \* the journals as saved
    book,           \* the journal in the memory of the owning process
    open,           \* members whose journal lock is held, by a live process
    task,           \* the operation of each process
    holder,         \* who holds the table lock
    unsaved,        \* history: members that ever failed to save an intent
    faults

vars == <<table, disk, book, open, task, holder, unsaved, faults>>

Keys == Redirects \cup Bypasses
Rows == (Redirects \X Members) \cup (Bypasses \X Gateways)
RowsFor(m, k) == IF k \in Redirects THEN {<<k, m>>} ELSE {k} \X Gateways
Journals == [Keys -> Rows \cup {None}]
Blank == [k \in Keys |-> None]

(* kind: what the process was asked; key, row: what it adds; todo: the     *)
(* keys to remove (before that); gone: the key whose row is deleted.       *)
Tasks == [kind : {"none", "begin", "add", "remove", "cleanup"},
          key : Keys \cup {None}, row : Rows \cup {None},
          todo : SUBSET Keys, gone : Keys \cup {None}, bad : BOOLEAN,
          at : {"start", "forget", "create"}]
NoTask == [kind |-> "none", key |-> None, row |-> None, todo |-> {}, gone |-> None,
           bad |-> FALSE, at |-> "start"]

BookTypeOK ==
    /\ table \in [Rows -> Members \cup {None, Foreign}]
    /\ disk \in [Members -> Journals] /\ book \in [Members -> Journals]
    /\ open \subseteq Members /\ unsaved \subseteq Members /\ holder \in Members \cup {None}
    /\ task \in [Members -> Tasks]
    /\ faults \in 0..MaxFaults

Init ==
    /\ table = [r \in Rows |-> None]
    /\ disk = [m \in Members |-> Blank] /\ book = [m \in Members |-> Blank]
    /\ open = {} /\ holder = None /\ unsaved = {} /\ faults = 0
    /\ task = [m \in Members |-> NoTask]

-----------------------------------------------------------------------------
Held(b) == {k \in Keys : b[k] # None}
Working(m, at) == holder = m /\ task[m].kind # "none" /\ task[m].at = at
End(m) == task' = [task EXCEPT ![m] = NoTask] /\ holder' = None

(* begin opens the journal and cleans up after an earlier process before   *)
(* the member uses the book; a daemon's recover does no more than that.    *)
Begin(m) ==
    /\ m \notin open /\ holder = None
    /\ open' = open \cup {m} /\ holder' = m
    /\ book' = [book EXCEPT ![m] = disk[m]]
    /\ task' = [task EXCEPT ![m] = [NoTask EXCEPT !.kind = "begin", !.todo = Held(disk[m])]]
    /\ UNCHANGED <<table, disk, unsaved, faults>>

reserved_elsewhere(m, r) == \E n \in Members \ {m}, k \in Keys : disk[n][k] = r

(* An add of the row that is there already is done; another row under the  *)
(* key is removed first.                                                   *)
Add(m, k, r) ==
    /\ m \in open /\ task[m].kind = "none" /\ holder = None
    /\ ~reserved_elsewhere(m, r)
    /\ ~(book[m][k] = r /\ table[r] = m)
    /\ holder' = m
    /\ task' = [task EXCEPT ![m] = [NoTask EXCEPT !.kind = "add", !.key = k, !.row = r,
                                    !.todo = {k} \cap Held(book[m])]]
    /\ UNCHANGED <<table, disk, book, open, unsaved, faults>>

Remove(m, k) ==
    /\ m \in open /\ task[m].kind = "none" /\ holder = None
    /\ k \in Held(book[m])
    /\ holder' = m
    /\ task' = [task EXCEPT ![m] = [NoTask EXCEPT !.kind = "remove", !.todo = {k}]]
    /\ UNCHANGED <<table, disk, book, open, unsaved, faults>>

Cleanup(m) ==
    /\ m \in open /\ task[m].kind = "none" /\ holder = None
    /\ holder' = m
    /\ task' = [task EXCEPT ![m] = [NoTask EXCEPT !.kind = "cleanup", !.todo = Held(book[m])]]
    /\ UNCHANGED <<table, disk, book, open, unsaved, faults>>

(* A removal ends: a failed one leaves its key in the journal, ends an     *)
(* add or a remove, and keeps a cleanup from touching the bypasses.        *)
Removed(m, k, ok) ==
    IF ok \/ task[m].kind \in {"begin", "cleanup"}
    THEN LET bad == task[m].bad \/ ~ok
             rest == task[m].todo \ {k}
             todo == IF bad /\ k \in Redirects THEN rest \ Bypasses ELSE rest
         IN  /\ task' = [task EXCEPT ![m].todo = todo, ![m].gone = None,
                                     ![m].bad = bad, ![m].at = "start"]
             /\ UNCHANGED holder
    ELSE End(m)

(* The keys a cleanup may remove now: redirects before bypasses. *)
Due(todo) == IF todo \cap Redirects # {} THEN todo \cap Redirects ELSE todo

(* remove_locked: look the row up and delete it, unless it has changed.    *)
(* The rows of two members look the same: METRIC and NETMGMT mark them.    *)
Delete(m) ==
    /\ Working(m, "start")
    /\ \E k \in Due(task[m].todo) :
        LET r == book[m][k] IN
        \/ /\ table[r] # Foreign
           /\ table' = [table EXCEPT ![r] = None]
           /\ task' = [task EXCEPT ![m].at = "forget", ![m].gone = k]
           /\ UNCHANGED <<holder, faults>>
        \/ /\ table[r] = Foreign
           /\ Removed(m, k, FALSE)
           /\ UNCHANGED <<table, faults>>
        \/ /\ faults < MaxFaults /\ faults' = faults + 1
           /\ Removed(m, k, FALSE)
           /\ UNCHANGED table
    /\ UNCHANGED <<disk, book, open, unsaved>>

(* ... then save the journal without it, or keep it there. *)
Forget(m) ==
    LET k == task[m].gone IN
    /\ Working(m, "forget")
    /\ \/ /\ book' = [book EXCEPT ![m][k] = None]
          /\ disk' = [disk EXCEPT ![m] = book'[m]]
          /\ Removed(m, k, TRUE)
          /\ UNCHANGED faults
       \/ /\ faults < MaxFaults /\ faults' = faults + 1
          /\ Removed(m, k, FALSE)
          /\ UNCHANGED <<book, disk>>
    /\ UNCHANGED <<table, open, unsaved>>

\* Mutant of Intend: the row is created before its intent is on disk.
BugIntend(m) ==
    LET k == task[m].key  r == task[m].row IN
    /\ Working(m, "start") /\ task[m].kind = "add" /\ task[m].todo = {}
    /\ \/ table[r] # None /\ End(m) /\ UNCHANGED book
       \/ /\ table[r] = None
          /\ book' = [book EXCEPT ![m][k] = r]
          /\ task' = [task EXCEPT ![m].at = "create"] /\ UNCHANGED holder
    /\ UNCHANGED <<table, disk, open, unsaved, faults>>

(* The intent is saved before the row is created; a row that is there is   *)
(* another program's (used, not owned) or has our metric (an error).       *)
Intend(m) ==
    LET k == task[m].key  r == task[m].row IN
    /\ Working(m, "start") /\ task[m].kind = "add" /\ task[m].todo = {}
    /\ \/ table[r] # None /\ End(m) /\ UNCHANGED <<book, disk, faults>>
       \/ /\ table[r] = None
          /\ book' = [book EXCEPT ![m][k] = r]
          /\ \/ /\ disk' = [disk EXCEPT ![m] = book'[m]] /\ UNCHANGED faults
                /\ task' = [task EXCEPT ![m].at = "create"] /\ UNCHANGED holder
             \/ /\ faults < MaxFaults /\ faults' = faults + 1 /\ UNCHANGED disk
                /\ End(m)
    /\ unsaved' = IF disk' = disk /\ book' # book THEN unsaved \cup {m} ELSE unsaved
    /\ UNCHANGED <<table, open>>

(* A create that fails, or that lost a race to another program, takes the  *)
(* intent back; if even that is not saved it stays on disk.                *)
Create(m) ==
    LET k == task[m].key  r == task[m].row IN
    /\ Working(m, "create")
    /\ \/ /\ table[r] = None /\ table' = [table EXCEPT ![r] = m]
          /\ End(m) /\ UNCHANGED <<book, disk, faults>>
       \/ /\ UNCHANGED table
          /\ \/ table[r] # None /\ UNCHANGED faults
             \/ faults < MaxFaults /\ faults' = faults + 1
          /\ book' = [book EXCEPT ![m][k] = None]
          /\ disk' \in {disk, [disk EXCEPT ![m] = book'[m]]}
          /\ End(m)
    /\ UNCHANGED <<open, unsaved>>

(* A cleanup or a removal is through; a failed begin gives the book up. *)
Finish(m) ==
    /\ Working(m, "start") /\ task[m].kind # "add" /\ task[m].todo = {}
    /\ End(m)
    /\ IF task[m].kind = "begin" /\ task[m].bad
       THEN open' = open \ {m} /\ book' = [book EXCEPT ![m] = Blank]
       ELSE UNCHANGED <<open, book>>
    /\ UNCHANGED <<table, disk, unsaved, faults>>

-----------------------------------------------------------------------------
Leave(m) ==
    /\ open' = open \ {m}
    /\ book' = [book EXCEPT ![m] = Blank]
    /\ task' = [task EXCEPT ![m] = NoTask]
    /\ holder' = IF holder = m THEN None ELSE holder

Exit(m) ==
    /\ m \in open /\ task[m].kind = "none"
    /\ Leave(m)
    /\ UNCHANGED <<table, disk, unsaved, faults>>

Crash(m) ==
    /\ m \in open /\ faults < MaxFaults /\ faults' = faults + 1
    /\ Leave(m)
    /\ UNCHANGED <<table, disk, unsaved>>

(* Another program adds a row, or deletes any row. *)
Other(r) ==
    /\ \/ table[r] = None /\ table' = [table EXCEPT ![r] = Foreign]
       \/ table[r] # None /\ table' = [table EXCEPT ![r] = None]
    /\ UNCHANGED <<disk, book, open, task, holder, unsaved, faults>>

Next ==
    \/ \E m \in Members :
        \/ Begin(m) \/ Cleanup(m) \/ Delete(m) \/ Forget(m) \/ Intend(m) \/ Create(m)
        \/ Finish(m) \/ Exit(m) \/ Crash(m)
        \/ \E k \in Keys : Remove(m, k) \/ \E r \in RowsFor(m, k) : Add(m, k, r)
    \/ \E r \in Contested : Other(r)

Spec == Init /\ [][Next]_vars

-----------------------------------------------------------------------------
(* Every row a member has created and not deleted is in its saved journal, *)
(* so the next process of that member, or the daemon, finds it.            *)
RowsJournaled ==
    \A m \in Members, r \in Rows : table[r] = m => \E k \in Keys : disk[m][k] = r

(* A member deletes only rows it created itself: not another program's,    *)
(* and not those of another member, which look the same.  The exception is *)
(* a member that failed to save an intent: add leaves the key in memory    *)
(* (and a later save on disk), another member may meanwhile create that    *)
(* row, and remove_locked takes it for ours.                               *)
OwnRowsOnly ==
    \A m \in Members, r \in Rows :
         /\ holder = m /\ task[m].at = "start" /\ task'[m].at = "forget"
         /\ m \notin unsaved /\ table[r] # None /\ table'[r] = None
         => table[r] = m

(* A cleanup deletes a bypass only when no redirect of the member is left: *)
(* until then the carriers need the bypass to reach the peers.             *)
BypassOutlivesRedirect ==
    \A m \in Members, k \in Bypasses :
         /\ holder = m /\ task[m].kind \in {"begin", "cleanup"}
         /\ task[m].gone # k /\ task'[m].gone = k
         => \A j \in Redirects : table[<<j, m>>] # m
=============================================================================
