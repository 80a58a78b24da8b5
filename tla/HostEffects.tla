---------------------------- MODULE HostEffects -----------------------------
(***************************************************************************)
(* The reconcile loop of a node (node/src/lib.rs Reconciler, HostEffects)  *)
(* and what it does to the host: every two seconds it pulls the device's   *)
(* configuration, moves the peers of the workers towards it, and then the  *)
(* carrier bypasses, the host routes, the split default over the exit and  *)
(* the resolver.  Each effect may fail, alone; failed ones are retried     *)
(* under a delay of their own.  A signal cleans up at any time: effects    *)
(* hold the shutdown gate, so it falls between two of them.                *)
(*                                                                         *)
(* NAT is modelled in Provider, the resolver files in DnsJournal, what the *)
(* kill switch and its name cache keep on disk in KillSwitch.  A bypass    *)
(* that an existing route makes needless counts as there; the resolver is  *)
(* managed only for the exit (FLUXPEER_MANAGE_DNS unset).                  *)
(***************************************************************************)
EXTENDS Integers, FiniteSets, FiniteSetsExt

CONSTANTS
    Peers,          \* a set of numbers: the order of the public keys
    Confs,          \* the configurations the control plane may hand out
    UseExit,        \* the local use_exit: Off, Auto or a peer
    Off, Auto, None,
    Answers,        \* what the control server's name may resolve to
    MaxEpoch, MaxFaults

VARIABLES
    kill,           \* the kill switch is configured
    server,         \* epoch and configuration of the control plane
    answer, pins,   \* the control server's addresses: in DNS, in CarrierDns
    known,          \* the workers' peers and their endpoints
    pending, desired, applied,      \* Reconciler
    relayIps, published, targets,   \* HostEffects.relay_ips, DirectoryRefresh
    exit,           \* exit_state
    left,           \* exit_progress: what a failed set-up left behind
    bypass,         \* the bypass routes on the host
    plan, guard,    \* what OUTPUT is to let through, and what it does
    routes,         \* peers whose routes are on the host
    dns,            \* DnsInstall and dns_full_tunnel
    stopped,        \* the shutdown gate's flag
    held,           \* effects that wait for their retry delay
    pc, t,          \* the tick in progress and its locals
    faults

control == <<kill, server, answer, known, pending, desired, applied, relayIps, published, targets>>
effects == <<exit, left, bypass, routes, dns, plan, guard, pins>>
vars == <<control, effects, stopped, held, pc, t, faults>>

(* A configuration: members, their endpoints, the approved exits, relays to *)
(* dial, and what else the directory lists (STUN, relays without a key).    *)
Addresses ==
    Answers \cup UNION {c.relays \cup c.listed \cup UNION {c.cand[p] : p \in Peers} : c \in Confs}
Parts == {"v6", "low", "high"}      \* IPv6 guard, 0.0.0.0/1, 128.0.0.0/1
Effects == {"retire", "routes", "exit", "dns"}

(* use_exit against the configuration; never another exit than the pinned. *)
SelectExit(c, relay) ==
    LET usable == {p \in c.members \cap c.exits : relay \/ c.cand[p] # {}} IN
    CASE UseExit = Off -> None
      [] UseExit = Auto -> IF usable = {} THEN None ELSE Min(usable)
      [] OTHER -> IF UseExit \in c.members \cap c.exits THEN UseExit ELSE None

Fresh == [retire |-> TRUE, carriers |-> TRUE, member |-> TRUE, prepared |-> {},
          exit |-> TRUE, ok |-> TRUE, polled |-> TRUE]
Points == {"idle", "member1", "member2", "member3", "member4", "guard", "prepare", "retire", "bypass",
           "routes", "exit", "dns", "publish"}

HostTypeOK ==
    /\ server.epoch \in 1..MaxEpoch /\ server.conf \in Confs
    /\ known \in [Peers -> {None} \cup SUBSET Addresses]
    /\ applied \in 0..MaxEpoch /\ desired.epoch \in 1..MaxEpoch
    /\ {answer, pins} \subseteq Answers
    /\ plan \subseteq Addresses /\ guard \subseteq Addresses
    /\ bypass \subseteq Addresses /\ relayIps \subseteq Addresses /\ published \subseteq Addresses
    /\ exit # None => exit.peer \in Peers /\ exit.parts \subseteq Parts
    /\ left \subseteq Parts /\ routes \subseteq Peers
    /\ stopped \in BOOLEAN /\ held \subseteq Effects /\ pc \in Points
    /\ faults \in 0..MaxFaults

(* run_with, once the interface is up: the peers of the first configuration *)
(* are the workers', the guard lets their carriers through; the first pass  *)
(* over the host effects has no poll.                                       *)
Init ==
    \E c \in Confs :
    LET ips == {answer} \cup c.relays \cup c.listed \cup UNION {c.cand[p] : p \in c.members} IN
    /\ server = [epoch |-> 1, conf |-> c]
    /\ kill \in BOOLEAN /\ answer \in Answers /\ pins = answer
    /\ known = [p \in Peers |-> IF p \in c.members THEN c.cand[p] ELSE None]
    /\ pending = None /\ applied = 0
    /\ desired = [epoch |-> 1, members |-> c.members, cand |-> c.cand,
                  exit |-> SelectExit(c, c.relays # {})]
    /\ relayIps = c.relays \cup c.listed /\ published = c.relays /\ targets = None
    /\ plan = (IF kill THEN ips ELSE {}) /\ guard = plan /\ bypass = plan
    /\ exit = None /\ left = {} /\ routes = {}
    /\ dns = [applied |-> FALSE, full |-> FALSE, dirty |-> FALSE]
    /\ stopped = FALSE /\ held = {} /\ pc = "guard" /\ t = Fresh /\ faults = 0

-----------------------------------------------------------------------------
Fails(n) == faults + n <= MaxFaults /\ faults' = faults + n
Runs(at) == pc = at
Then(at, locals) == pc' = at /\ t' = locals

\* Mutant of Elapse: every look at the delay starts it again.
BugElapse(e) == e \in held /\ UNCHANGED vars

(* Retry::run: an effect that failed is not tried again before its delay   *)
(* has passed (Elapse), or the epoch has changed; its error stands.        *)
Elapse(e) ==
    /\ e \in held /\ held' = held \ {e}
    /\ UNCHANGED <<control, effects, stopped, pc, t, faults>>

(* The control plane changes; the poll of a tick sees it or fails. *)
Configure ==
    /\ server.epoch < MaxEpoch
    /\ \E c \in Confs : server' = [epoch |-> server.epoch + 1, conf |-> c]
    /\ UNCHANGED <<kill, answer, known, pending, desired, applied, relayIps, published,
                   targets, effects, stopped, held, pc, t, faults>>

(* The control server's name gets another address. *)
Rename ==
    /\ kill /\ answer' \in Answers \ {answer}
    /\ UNCHANGED <<kill, server, known, pending, desired, applied, relayIps, published,
                   targets, effects, stopped, held, pc, t, faults>>

(* refresh_directory: the addresses of the directory and of the targets    *)
(* still in use; the new ones are published when the tick has succeeded.   *)
Poll ==
    LET c == server.conf
        failed == [Fresh EXCEPT !.polled = FALSE] IN
    /\ Runs("idle") /\ ~stopped
    /\ \/ /\ pending' = server
          /\ relayIps' = c.relays \cup c.listed \cup published
          /\ targets' = IF c.relays # published THEN c.relays ELSE None
          /\ Then("member1", Fresh) /\ UNCHANGED faults
       \/ /\ Fails(1) /\ UNCHANGED <<relayIps, targets>>
          /\ \/ pending' = server /\ Then("member1", failed)      \* the directory
             \/ UNCHANGED pending                                 \* the request
                /\ Then(IF pending = None THEN "guard" ELSE "member1", failed)
    /\ UNCHANGED <<kill, server, answer, known, desired, applied, published, effects,
                   stopped, held>>

(* relay_available: the last directory has a relay to dial, published or not. *)
RelayAvailable == (IF targets = None THEN published ELSE targets) # {}

Selected == SelectExit(pending.conf, RelayAvailable)

(* retire: an exit no longer selected, or half torn down, goes first.  All *)
(* its parts are tried, the defaults first; what fails stays, to be retried *)
(* as an exit that is being torn down.                                     *)
Retiring(selected) == exit # None /\ (exit.peer # selected \/ exit.torn)
Retire(selected, delayed, at, locals) ==
    \/ /\ ~Retiring(selected) \/ stopped
       /\ Then(at, [locals EXCEPT !.retire = TRUE])
       /\ held' = delayed /\ UNCHANGED <<exit, faults>>
    \/ /\ Retiring(selected) /\ ~stopped /\ "retire" \in delayed
       /\ Then(at, [locals EXCEPT !.retire = FALSE])
       /\ held' = delayed /\ UNCHANGED <<exit, faults>>
    \/ /\ Retiring(selected) /\ ~stopped /\ "retire" \notin delayed
       /\ \/ /\ exit' = None /\ held' = delayed /\ UNCHANGED faults
             /\ Then(at, [locals EXCEPT !.retire = TRUE])
          \/ /\ Fails(1) /\ held' = delayed \cup {"retire"}
             /\ \E rest \in SUBSET exit.parts :
                  exit' = [exit EXCEPT !.parts = rest, !.torn = TRUE]
             /\ Then(at, [locals EXCEPT !.retire = FALSE])

Carriers(c) == relayIps \cup UNION {c.cand[p] : p \in c.members}

(* prepare_bypass: what must not go through the tunnel.  Without an exit   *)
(* selected or set up, nothing.                                            *)
Candidates(c, selected) ==
    IF selected = None /\ exit = None THEN {}
    ELSE {IF kill THEN pins ELSE answer} \cup Carriers(c)

(* bypass::State::sync adds before it removes.  A failure is rolled back;  *)
(* a second one leaves part of it.                                         *)
SyncBypass(want, retain, at, good, bad) ==
    LET goal == IF retain THEN bypass \cup want ELSE want IN
    \/ /\ stopped /\ Then(at, good) /\ UNCHANGED <<bypass, faults>>
    \/ /\ ~stopped /\ bypass' = goal /\ Then(at, good) /\ UNCHANGED faults
    \/ /\ ~stopped /\ Fails(1) /\ UNCHANGED bypass /\ Then(at, bad)
    \/ /\ ~stopped /\ Fails(2) /\ Then(at, bad)
       /\ bypass' \in {(bypass \ (a \ goal)) \cup (a \cap goal) : a \in SUBSET (bypass \cup goal)}

(* guard_carriers, in one critical section: let the new addresses through, *)
(* give them bypasses, use the new pins, then narrow to what is wanted     *)
(* (all of it, and what was, when retaining).  The plan is saved before    *)
(* the rules change.                                                       *)
Guard(c, retain, at, good, bad) ==
    LET ips == {answer} \cup Carriers(c)
        wide == plan \cup ips IN
    \/ /\ ~kill \/ stopped
       /\ Then(at, good) /\ UNCHANGED <<plan, guard, bypass, pins, faults>>
    \/ /\ kill /\ ~stopped
       /\ bypass' = bypass \cup ips /\ pins' = answer
       /\ plan' = (IF retain THEN wide ELSE ips) /\ guard' = plan'
       /\ Then(at, good) /\ UNCHANGED faults
    \/ /\ kill /\ ~stopped /\ Fails(1) /\ bad
       /\ \/ UNCHANGED <<plan, guard, bypass, pins>>                      \* the name
          \/ plan' = wide /\ UNCHANGED <<guard, bypass, pins>>
          \/ plan' = wide /\ guard' = wide /\ UNCHANGED <<bypass, pins>>
          \/ /\ plan' = (IF retain THEN wide ELSE ips) /\ guard' = wide
             /\ bypass' = bypass \cup ips /\ pins' = answer

(* apply_pending: retire, protect the new carriers, then move the peers.   *)
Member1 ==
    /\ Runs("member1")
    /\ Retire(Selected, IF pending.epoch = desired.epoch THEN held ELSE {}, "member2", t)
    /\ UNCHANGED <<control, left, bypass, routes, dns, plan, guard, pins, stopped>>

Member2 ==
    /\ Runs("member2")
    /\ \/ SyncBypass(Candidates(pending.conf, Selected), TRUE, "member3",
                     t, [t EXCEPT !.carriers = FALSE])
       \/ /\ Fails(1) /\ UNCHANGED bypass                     \* a name
          /\ Then("member3", [t EXCEPT !.carriers = FALSE])
    /\ UNCHANGED <<control, exit, left, routes, dns, plan, guard, pins, stopped, held>>

Member3 ==
    /\ Runs("member3")
    /\ Guard(pending.conf, TRUE, "member4", t, Then("member4", [t EXCEPT !.carriers = FALSE]))
    /\ UNCHANGED <<control, exit, left, routes, dns, stopped, held>>

\* Mutant of Moved: the peers move though their carriers are not protected.
BugMoved(c, lost) ==
    [p \in Peers |-> IF p \in lost THEN known[p] ELSE IF p \in c.members THEN c.cand[p] ELSE None]

(* Peers are always removed; added or moved only if their carriers are     *)
(* protected.  A worker that does not take the change leaves it undone.    *)
Moved(c, lost) ==
    [p \in Peers |->
        IF p \in lost THEN known[p]
        ELSE IF p \notin c.members THEN None
        ELSE IF t.carriers THEN c.cand[p] ELSE known[p]]

Member4 ==
    LET c == pending.conf IN
    /\ Runs("member4")
    /\ \E lost \in {{}} \cup {{p} : p \in Peers} :
        /\ IF lost = {} THEN UNCHANGED faults ELSE Fails(1)
        /\ known' = Moved(c, lost)
        /\ desired' = [epoch |-> pending.epoch, members |-> c.members, cand |-> c.cand,
                       exit |-> Selected]
        /\ pending' = IF t.carriers /\ lost = {} THEN None ELSE pending
        /\ Then("guard", [t EXCEPT !.member = t.retire /\ t.carriers /\ lost = {}])
    /\ UNCHANGED <<kill, server, answer, applied, relayIps, published, targets, effects,
                   stopped, held>>

(* HostEffects::apply: without the guard nothing else is done; the names   *)
(* are resolved before the blocking part.                                  *)
GuardAgain ==
    /\ Runs("guard")
    /\ Guard(desired, ~t.member, "prepare", t, Then("publish", [t EXCEPT !.ok = FALSE]))
    /\ UNCHANGED <<control, exit, left, routes, dns, stopped, held>>

Prepare ==
    /\ Runs("prepare")
    /\ \/ /\ Then("retire", [t EXCEPT !.carriers = TRUE,
                                      !.prepared = Candidates(desired, desired.exit)])
          /\ UNCHANGED faults
       \/ Fails(1) /\ Then("retire", [t EXCEPT !.carriers = FALSE])
    /\ UNCHANGED <<control, effects, stopped, held>>

(* tick: retirement, bypasses, host routes, exit, resolver. *)
RetireAgain ==
    /\ Runs("retire")
    /\ Retire(desired.exit, held, "bypass", t)
    /\ UNCHANGED <<control, left, bypass, routes, dns, plan, guard, pins, stopped>>

Bypass ==
    /\ Runs("bypass")
    /\ IF ~t.carriers THEN Then("routes", t) /\ UNCHANGED <<bypass, faults>>
       ELSE SyncBypass(t.prepared, ~t.member \/ ~t.retire, "routes",
                       t, [t EXCEPT !.carriers = FALSE])
    /\ UNCHANGED <<control, exit, left, routes, dns, plan, guard, pins, stopped, held>>

(* An effect e under its Retry: do what Good says, or fail. *)
Waiting(e) == e \in held /\ ~stopped

\* Mutant of Routes: does not look at the shutdown gate.
BugRoutes ==
    /\ Runs("routes") /\ ~Waiting("routes")
    /\ routes' = desired.members /\ Then("exit", t)
    /\ UNCHANGED <<control, exit, left, bypass, dns, plan, guard, pins, stopped, held, faults>>

Routes ==
    /\ Runs("routes")
    /\ \/ /\ Waiting("routes") /\ Then("exit", [t EXCEPT !.ok = FALSE])
          /\ UNCHANGED <<routes, held, faults>>
       \/ /\ ~Waiting("routes") /\ Then("exit", t) /\ UNCHANGED <<held, faults>>
          /\ routes' = IF stopped THEN routes ELSE desired.members
       \/ /\ ~Waiting("routes") /\ ~stopped /\ Fails(1)
          /\ held' = held \cup {"routes"} /\ Then("exit", [t EXCEPT !.ok = FALSE])
          /\ \E some \in SUBSET (routes \cup desired.members) :
                /\ routes \cap desired.members \subseteq some /\ routes' = some
    /\ UNCHANGED <<control, exit, left, bypass, dns, plan, guard, pins, stopped>>

(* sync_exit: what an earlier failure left goes first; a failed set-up is  *)
(* rolled back, and what the rollback does not get rid of is remembered.   *)
Exit ==
    LET failed(locals) == Then("dns", [locals EXCEPT !.exit = FALSE, !.ok = FALSE]) IN
    /\ Runs("exit")
    /\ \/ /\ ~(t.retire /\ t.carriers) \/ Waiting("exit")
          /\ failed(t) /\ UNCHANGED <<exit, left, held, faults>>
       \/ /\ t.retire /\ t.carriers /\ stopped
          /\ Then("dns", t) /\ UNCHANGED <<exit, left, held, faults>>
       \/ /\ t.retire /\ t.carriers /\ ~stopped /\ ~Waiting("exit")
          /\ \/ /\ left' = {} /\ Then("dns", t) /\ UNCHANGED <<held, faults>>
                /\ exit' = IF desired.exit = None THEN None
                           ELSE IF exit # None /\ exit.peer = desired.exit THEN exit
                           ELSE [peer |-> desired.exit, parts |-> Parts, torn |-> FALSE]
             \/ /\ left # {} /\ Fails(1) /\ left' \in SUBSET left \ {{}}
                /\ held' = held \cup {"exit"} /\ failed(t) /\ UNCHANGED exit
             \/ /\ desired.exit # None /\ exit = None /\ held' = held \cup {"exit"}
                /\ UNCHANGED exit /\ failed(t)
                /\ \/ Fails(1) /\ left' = {}
                   \/ Fails(2) /\ left' \in {{"v6"}, {"low"}, {"v6", "low"}}
    /\ UNCHANGED <<control, bypass, routes, dns, plan, guard, pins, stopped>>

(* sync_dns_mode_with: the exit's resolver is set only with the exit up. *)
Ready == t.exit /\ exit # None /\ exit.peer = desired.exit /\ ~exit.torn

Dns ==
    /\ Runs("dns")
    /\ \/ /\ Waiting("dns") \/ stopped
          /\ Then("publish", [t EXCEPT !.ok = t.ok /\ stopped])
          /\ UNCHANGED <<dns, held, faults>>
       \/ /\ ~Waiting("dns") /\ ~stopped
          /\ dns' = [applied |-> Ready, full |-> Ready, dirty |-> FALSE]
          /\ Then("publish", t) /\ UNCHANGED <<held, faults>>
       \/ /\ ~Waiting("dns") /\ ~stopped
          /\ Fails(1) /\ held' = held \cup {"dns"}
          /\ \/ /\ dns.dirty \/ dns.applied # Ready
                /\ dns' = [dns EXCEPT !.full = Ready, !.dirty = @ \/ Ready]
             \/ /\ Ready                                      \* verify_file
                /\ dns' = [applied |-> TRUE, full |-> TRUE, dirty |-> FALSE]
          /\ Then("publish", [t EXCEPT !.ok = FALSE])
    /\ UNCHANGED <<control, exit, left, bypass, routes, plan, guard, pins, stopped>>

(* The end of the tick: only a wholly applied configuration is acknowledged *)
(* and only then do the dialers get the new relays.                        *)
Publish ==
    LET good == t.ok /\ t.member /\ t.polled IN
    /\ Runs("publish")
    /\ published' = IF good /\ targets # None THEN targets ELSE published
    /\ targets' = IF good THEN None ELSE targets
    /\ applied' = IF good THEN desired.epoch ELSE applied
    /\ Then("idle", Fresh)
    /\ UNCHANGED <<kill, server, answer, known, pending, desired, relayIps, effects, stopped,
                   held, faults>>

-----------------------------------------------------------------------------
(* cleanup, once, under the gate: the exit, what was left of one, the      *)
(* resolver; the bypasses only after the redirects.                        *)
Cleanup ==
    LET redirects == (IF exit = None THEN {} ELSE exit.parts) \cup left IN
    /\ ~stopped /\ stopped' = TRUE
    /\ \E rest \in SUBSET redirects, badDns, badBypass \in BOOLEAN :
        /\ badDns => dns.applied \/ dns.dirty
        /\ badBypass => rest = {}
        /\ IF rest # {} \/ badDns \/ badBypass THEN Fails(1) ELSE UNCHANGED faults
        /\ left' = left \cap rest
        /\ exit' = IF exit = None \/ exit.parts \cap rest = {} THEN None
                   ELSE [exit EXCEPT !.parts = @ \cap rest, !.torn = TRUE]
        /\ dns' = IF badDns THEN dns ELSE [dns EXCEPT !.applied = FALSE, !.dirty = FALSE]
        /\ bypass' = IF rest # {} \/ badBypass THEN bypass ELSE {}
    /\ UNCHANGED <<control, routes, plan, guard, pins, held, pc, t>>

Step == \/ Poll \/ Member1 \/ Member2 \/ Member3 \/ Member4 \/ GuardAgain \/ Prepare \/ RetireAgain \/ Bypass
        \/ Routes \/ Exit \/ Dns \/ Publish
Next == Step \/ Configure \/ Rename \/ Cleanup \/ \E e \in Effects : Elapse(e)

(* The loop never waits for ever, and delays end. *)
Fairness == WF_vars(Step) /\ \A e \in Effects : WF_vars(Elapse(e))
Spec == Init /\ [][Next]_vars /\ Fairness

-----------------------------------------------------------------------------
Dialled == UNION {known[p] : p \in {q \in Peers : known[q] # None}}
InUse == {pins} \cup (IF stopped THEN {} ELSE published \cup Dialled)

(* While the host's default is redirected into the tunnel, every address   *)
(* the tunnel itself is carried by (control server, published relays, the  *)
(* peers' endpoints) has a bypass.  The order of apply_pending and tick is *)
(* for this: add before the peers move, remove after, whatever fails.  A   *)
(* shutdown that cannot remove the redirect keeps them too.                *)
CarriersBypassed == exit # None /\ exit.parts # {} => InUse \subseteq bypass

(* The kill switch lets every address through that the tunnel is carried by: *)
(* the narrowing sync of guard_carriers comes only after the workers have    *)
(* left an address, the widening before they use it.                         *)
CarriersPermitted == kill => InUse \subseteq guard

(* route.rs keeps the bypasses "until every redirect is gone"; that        *)
(* includes the redirects a failed set-up and a failed rollback left.      *)
RedirectsBypassed == left # {} => InUse \subseteq bypass

(* Nothing is installed after the clean-up of a shutdown, by a tick that   *)
(* was in progress or one that starts late.                                *)
NothingAfterCleanup ==
    stopped => /\ bypass' \subseteq bypass /\ routes' \subseteq routes
               /\ left' \subseteq left
               /\ exit' = exit /\ dns' = dns

(* The configuration of the control plane is applied in the end, unless    *)
(* the node is stopped: every failed effect is tried again.                *)
Converged == stopped \/ (applied = server.epoch /\ (exit # None) = (desired.exit # None))
=============================================================================
