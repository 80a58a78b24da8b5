---------------------------- MODULE RelayDirectory ----------------------------
(***************************************************************************)
(* How a node keeps up with the relay directory: the reconciler pulls it,   *)
(* resolves its names, has the host let the addresses past the tunnel, and  *)
(* only then hands the targets to the relay supervisor; afterwards it asks  *)
(* the directory's STUN server for the node's public address, over the      *)
(* socket that carries the data plane.  The supervisor dials meanwhile.     *)
(***************************************************************************)
EXTENDS Naturals, FiniteSets

CONSTANTS Relays,          \* directory entries: [name, stun, key]
          Names, Addrs,    \* host names and the addresses they may have
          MaxFaults, MaxChanges, MaxQueries,
          None

VARIABLES served,          \* the directory the control server hands out
          dns,             \* name -> address, or None: no answer
          protected,       \* the kill switch is on: names come from its cache
          pc, ctl,         \* what the reconciler is at; was control all right
          entries,         \* DirectoryRefresh: resolved entries [addr, stun, key]
          targets,         \* addresses published to the supervisor
          pending,         \* None, or those to publish when the host is ready
          stun_pending,
          relay_ips,       \* addresses the host is to let past the tunnel
          exempt,          \* addresses it does let past
          dialed,          \* address the supervisor is dialling or connected to
          query,           \* STUN queries made so far
          waiting,         \* StunRefresh.pending: None or [server, id]
          replies,         \* answers on their way: [server, id]
          answer,          \* answer taken for the current query
          faults, changes

dirVars == <<entries, targets, pending, stun_pending, relay_ips>>
stunVars == <<query, waiting, replies, answer>>
worldVars == <<served, dns, protected, changes>>
relayDirVars == <<worldVars, pc, ctl, dirVars, exempt, dialed, stunVars, faults>>

Fault == faults < MaxFaults /\ faults' = faults + 1

-----------------------------------------------------------------------------
(* resolve_relay_entry.                                                     *)
Resolved(r) == [addr |-> dns[r.name], key |-> r.key,
                stun |-> IF r.stun = None THEN None ELSE dns[r.stun]]
NoRelay(r) == dns[r.name] = None
NoStun(r) == r.stun # None /\ dns[r.stun] = None

(* resolve_directory_policy: with the kill switch on every name must        *)
(* resolve; otherwise, once running, every relay, and at the start one.     *)
Unresolvable(strict) ==
    \/ \E r \in served : protected /\ (NoRelay(r) \/ NoStun(r))
    \/ (\E r \in served : NoRelay(r)) /\ (strict \/ \A r \in served : NoRelay(r))
\* Mutant of resolve_directory: an entry whose name has no address is kept.
Bugresolve_directory == {Resolved(r) : r \in served}

resolve_directory == {Resolved(r) : r \in {x \in served : ~NoRelay(x)}}

(* relay_candidates: a relay without a key cannot be used.                  *)
relay_candidates(es) == {e.addr : e \in {x \in es : x.key}}
Stuns(es) == {e.stun : e \in es} \ {None}

(* run_with: the directory is resolved, what it names let past, then used.  *)
DirInit ==
    /\ served \in SUBSET Relays /\ dns \in [Names -> Addrs \cup {None}] /\ protected \in BOOLEAN
    /\ entries = IF Unresolvable(FALSE) THEN {} ELSE resolve_directory
    /\ protected => ~Unresolvable(FALSE)
    /\ targets = relay_candidates(entries) /\ pending = None /\ stun_pending = FALSE
    /\ relay_ips = {e.addr : e \in entries} \cup Stuns(entries) /\ exempt = relay_ips
    /\ pc = "idle" /\ ctl = TRUE /\ dialed = None
    /\ query = 0 /\ waiting = None /\ replies = {} /\ answer = None
    /\ faults = 0 /\ changes = 0

(* The operator edits the directory, names move, lookups fail and recover.  *)
World ==
    /\ changes < MaxChanges /\ changes' = changes + 1
    /\ \/ served' \in SUBSET Relays /\ UNCHANGED dns
       \/ \E n \in Names, a \in Addrs \cup {None} : dns' = [dns EXCEPT ![n] = a] /\ UNCHANGED served
    /\ UNCHANGED <<protected, pc, ctl, dirVars, exempt, dialed, stunVars, faults>>

-----------------------------------------------------------------------------
Others == UNCHANGED <<worldVars, dialed>>

PollFails ==
    /\ pc = "idle" /\ Fault /\ ctl' = FALSE /\ pc' = "effects"
    /\ UNCHANGED <<dirVars, exempt, stunVars>> /\ Others

(* refresh_directory.  Addresses the supervisor may still dial stay let     *)
(* past until the new targets are published.                                *)
\* Mutant of RelayIps: only the new ones.
BugRelayIps(es, ts) == {e.addr : e \in es} \cup Stuns(es) \cup ts

RelayIps(es, ts) == {e.addr : e \in es} \cup Stuns(es) \cup ts \cup targets

refresh_directory ==
    LET es == resolve_directory
        ts == relay_candidates(es) IN
    /\ pc = "idle" /\ pc' = "effects" /\ UNCHANGED <<exempt, stunVars, targets, faults>> /\ Others
    /\ \/ Unresolvable(TRUE) /\ ctl' = FALSE /\ UNCHANGED dirVars
       \/ /\ ~Unresolvable(TRUE) /\ ctl' = TRUE /\ entries' = es
          /\ stun_pending' = (stun_pending \/ es # entries)
          /\ relay_ips' = RelayIps(es, ts)
          /\ pending' = IF ts = targets THEN None ELSE ts

(* reconcile_effects: what goes wrong leaves the old addresses let past,    *)
(* with or without the new ones.                                            *)
Effects ==
    /\ pc = "effects" /\ UNCHANGED <<dirVars, stunVars, ctl>> /\ Others
    /\ \/ exempt' = relay_ips /\ pc' = "publish" /\ UNCHANGED faults
       \/ Fault /\ exempt' \in {exempt, exempt \cup relay_ips} /\ pc' = "idle"

Publish ==
    /\ pc = "publish" /\ pc' = (IF ctl /\ stun_pending THEN "stun" ELSE "idle")
    /\ targets' = IF ctl /\ pending # None THEN pending ELSE targets
    /\ pending' = IF ctl THEN None ELSE pending
    /\ UNCHANGED <<ctl, entries, stun_pending, relay_ips, exempt, stunVars, faults>> /\ Others

-----------------------------------------------------------------------------
(* refresh_stun, with StunRefresh::query: no server, nothing to do.  A      *)
(* query has a number of its own and is sent several times.                 *)
refresh_stun ==
    /\ pc = "stun" /\ UNCHANGED <<ctl, entries, targets, pending, relay_ips, exempt, replies, faults>> /\ Others
    /\ \/ /\ Stuns(entries) = {} /\ pc' = "idle" /\ stun_pending' = FALSE
          /\ UNCHANGED <<query, waiting, answer>>
       \/ /\ query < MaxQueries /\ query' = query + 1 /\ pc' = "asking"
          /\ \E s \in Stuns(entries) : waiting' = [server |-> s, id |-> query + 1]
          /\ answer' = None /\ UNCHANGED stun_pending

(* The server's answer, to any of the pings, at any later time.             *)
StunReply ==
    /\ pc = "asking" /\ waiting # None /\ waiting \notin replies /\ replies' = replies \cup {waiting}
    /\ UNCHANGED <<pc, ctl, dirVars, exempt, query, waiting, answer, faults>> /\ Others

(* StunRefresh::receive, in the data plane's reader: an answer nobody waits *)
(* for is a datagram like any other.  It may be delivered again.            *)
\* Mutant of Awaited: any answer of the server will do.
BugAwaited(r) == waiting # None /\ waiting.server = r.server

Awaited(r) == waiting = r
receive(r) ==
    /\ Awaited(r) /\ waiting' = None /\ answer' = r
    /\ UNCHANGED <<pc, ctl, dirVars, exempt, query, replies, faults>> /\ Others

(* The query ends with its answer or its last timeout.  Without an answer   *)
(* the refresh counts as done; with one, the endpoints are reported.        *)
QueryEnds ==
    /\ pc = "asking" /\ waiting' = None /\ UNCHANGED <<ctl, entries, targets, pending, relay_ips, exempt, query, replies>>
    /\ Others
    /\ \/ answer = None /\ pc' = "idle" /\ stun_pending' = FALSE /\ UNCHANGED <<answer, faults>>
       \/ answer # None /\ pc' = "idle" /\ answer' = None
          /\ \/ stun_pending' = FALSE /\ UNCHANGED faults
             \/ Fault /\ UNCHANGED stun_pending

-----------------------------------------------------------------------------
(* relay_supervisor: one target after the other, from the list of the       *)
(* moment; while it is connected it does not look at the list again.        *)
Dial ==
    /\ dialed = None /\ dialed' \in targets
    /\ UNCHANGED <<worldVars, pc, ctl, dirVars, exempt, stunVars, faults>>
Dropped ==
    /\ dialed # None /\ dialed' = None
    /\ UNCHANGED <<worldVars, pc, ctl, dirVars, exempt, stunVars, faults>>

RelayDirNext ==
    \/ World \/ PollFails \/ refresh_directory \/ Effects \/ Publish \/ refresh_stun \/ StunReply
    \/ \E r \in replies : receive(r)
    \/ QueryEnds \/ Dial \/ Dropped

RelayDirSpec == DirInit /\ [][RelayDirNext]_relayDirVars

-----------------------------------------------------------------------------
RelayDirTypeOK ==
    /\ pc \in {"idle", "effects", "publish", "stun", "asking"} /\ ctl \in BOOLEAN
    /\ targets \subseteq Addrs /\ relay_ips \subseteq Addrs /\ exempt \subseteq Addrs
    /\ pending # None => pending \subseteq Addrs
    /\ dialed \in Addrs \cup {None} /\ stun_pending \in BOOLEAN

(* Whatever relay the supervisor may dial next is let past the tunnel, at   *)
(* every moment of a directory change and of one that fails half way; so is *)
(* the STUN server that is asked (lib.rs: "Retain published dialer          *)
(* addresses until the new targets are applied").                           *)
DialsExempt ==
    /\ targets \subseteq exempt
    /\ pc \in {"publish", "stun", "asking"} /\ ctl => Stuns(entries) \subseteq exempt

(* The public address a node reports was observed for the query it belongs  *)
(* to, never for an earlier one whose answer came late.                     *)
AnswerFresh == answer # None => answer.id = query /\ pc = "asking"
=============================================================================
