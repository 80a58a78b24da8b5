---------------------------- MODULE AnytlsServer ----------------------------
(***************************************************************************)
(* AnytlsAcceptor: the connections of one bond id arrive in any order, join *)
(* one BondGroup through the `pending' registry, and the group is handed to *)
(* the listener once its first packet came.  A group is named after the     *)
(* connection that made it, and so is the session of an authenticated one.  *)
(*                                                                         *)
(* `pending' holds a weak reference: `Held' says whether a group still has  *)
(* an owner.  Two tasks decide over a new group, both after                 *)
(* bond_join_timeout: one evicts it from `pending', one waits for the       *)
(* packet.                                                                  *)
(***************************************************************************)
EXTENDS Naturals, FiniteSets, Sequences

CONSTANTS Conns,    \* connections of the bond id
          Primary,  \* those whose header carries link index 0
          Inbox,    \* bound on packets of a group not yet read
          Modes,    \* whether there is an authenticator: a subset of BOOLEAN
          None

VARIABLES auth,     \* the acceptor has an authenticator
          registry, \* the authenticator's session of the bond
          revoked,  \* sessions that are no longer active
          pending,  \* PendingBond of the bond id, or None
          cn,       \* connection -> [pc, sess, group]
          grp,      \* group -> [closed, promoted, first, clean, inbox]
          links,    \* group -> connections whose stream was added
          ready,    \* primary_tx
          owned,    \* groups the listener's caller holds as a transport
          given,    \* history: groups the caller or the relay gave up
          raced     \* history: promoted while the eviction was under way

acceptVars == <<auth, registry, revoked, pending, cn, grp, links, ready, owned, given, raced>>

Groups == {g \in Conns : grp[g].first # "none"}
InReady(g) == \E i \in 1..Len(ready) : ready[i] = g
Driving(c) == cn[c].pc \in {"joined", "stream"}

(* Who keeps the Arc of group g: its first-packet task, the ready queue,    *)
(* the transport, and the driver task of every connection that joined it.   *)
HeldBut(g, c) ==
    \/ grp[g].first \in {"start", "recv", "got", "enqueue"} \/ InReady(g) \/ g \in owned
    \/ \E d \in Conns \ {c} : Driving(d) /\ cn[d].group = g
Held(g) == g # None /\ HeldBut(g, None)

Valid(g) == ~auth \/ g \notin revoked

(* BondGroup::close and BondGroup::drop take the session along.             *)
Invalidate(g) == IF auth THEN revoked \cup {g} ELSE revoked
Closed(g) == [grp EXCEPT ![g].closed = TRUE]

(* accept_server_connection: TLS, password, header, and the link proof when *)
(* there is an authenticator: it opens a session for link 0 of a bond that  *)
(* has none, and finds the session of the bond for every other link.        *)
Authenticate(c) ==
    /\ cn[c].pc = "new"
    /\ LET live == registry # None /\ registry \notin revoked
           s == CASE ~auth -> None [] auth /\ c \in Primary -> c [] OTHER -> registry
           passes == ~auth \/ (c \in Primary <=> ~live)
       IN  \/ /\ passes
              /\ cn' = [cn EXCEPT ![c].pc = "authed", ![c].sess = s]
              /\ registry' = IF auth THEN s ELSE registry
           \/ cn' = [cn EXCEPT ![c].pc = "end"] /\ UNCHANGED registry
    /\ UNCHANGED <<auth, revoked, pending, grp, links, ready, owned, given, raced>>

(* A proven secondary polls until the group is published.                   *)
Published(c) ==
    /\ auth /\ c \notin Primary /\ cn[c].pc = "authed"
    /\ \/ cn[c].sess \notin revoked /\ Held(pending) /\ cn' = [cn EXCEPT ![c].pc = "ready"]
       \/ cn' = [cn EXCEPT ![c].pc = "end"]          \* revoked, or bond_join_timeout
    /\ UNCHANGED <<auth, registry, revoked, pending, grp, links, ready, owned, given, raced>>

NewGroup == [closed |-> FALSE, promoted |-> FALSE, first |-> "start", clean |-> "sleep", inbox |-> 0]

(* Membership, under the write lock: entries without owner or session are   *)
(* dropped first; the first connection makes the group and starts its two   *)
(* tasks, a later one must bring the session of the group.                  *)
Join(c) ==
    /\ cn[c].pc = IF auth /\ c \notin Primary THEN "ready" ELSE "authed"
    /\ LET g == IF Held(pending) /\ Valid(pending) THEN pending ELSE None
       IN  \/ /\ g # None
              /\ cn' = [cn EXCEPT ![c] = IF auth /\ (@.sess \in revoked \/ @.sess # g)
                                           THEN [@ EXCEPT !.pc = "end"]
                                           ELSE [@ EXCEPT !.pc = "joined", !.group = g]]
              /\ pending' = g /\ UNCHANGED grp
           \/ /\ g = None /\ auth /\ c \notin Primary
              /\ cn' = [cn EXCEPT ![c].pc = "end"] /\ pending' = None /\ UNCHANGED grp
           \/ /\ g = None /\ (auth => c \in Primary)
              /\ cn' = [cn EXCEPT ![c] = [@ EXCEPT !.pc = "joined", !.group = c]]
              /\ grp' = [grp EXCEPT ![c] = NewGroup] /\ pending' = c
    /\ UNCHANGED <<auth, registry, revoked, links, ready, owned, given, raced>>

(* The driver task: the first inbound stream joins the data path of the     *)
(* group unless it is closed, later ones are dropped.                       *)
AddStream(c) ==
    /\ cn[c].pc = "joined"
    /\ cn' = [cn EXCEPT ![c].pc = "stream"]
    /\ links' = IF grp[cn[c].group].closed THEN links
                ELSE [links EXCEPT ![cn[c].group] = @ \cup {c}]
    /\ UNCHANGED <<auth, registry, revoked, pending, grp, ready, owned, given, raced>>

(* The reader task: a packet goes to the channel all links of the group     *)
(* share; a revoked session ends the reader instead.  Only the packets      *)
(* before the hand-over are followed.                                       *)
Read(c) ==
    LET g == cn[c].group
    IN  /\ cn[c].pc = "stream" /\ c \in links[g]
        /\ Valid(g) => grp[g].inbox < Inbox /\ grp[g].first \in {"start", "recv"}
        /\ IF Valid(g) THEN grp' = [grp EXCEPT ![g].inbox = @ + 1] /\ UNCHANGED links
                       ELSE links' = [links EXCEPT ![g] = @ \ {c}] /\ UNCHANGED grp
        /\ UNCHANGED <<auth, registry, revoked, pending, cn, ready, owned, given, raced>>

(* The connection ends: its driver drops the group, the reader its stream.  *)
LinkEnds(c) ==
    LET g == cn[c].group
    IN  /\ Driving(c)
        /\ cn' = [cn EXCEPT ![c].pc = "end"]
        /\ links' = [links EXCEPT ![g] = @ \ {c}]
        /\ revoked' = IF HeldBut(g, c) THEN revoked ELSE Invalidate(g)
        /\ UNCHANGED <<auth, registry, pending, grp, ready, owned, given, raced>>

(* The first-packet task.  recv looks at `closed' only when it starts.      *)
FirstRecv(g) ==
    /\ grp[g].first = "start"
    /\ grp' = [grp EXCEPT ![g].first = IF grp[g].closed THEN "end" ELSE "recv"]
    /\ UNCHANGED <<auth, registry, revoked, pending, cn, links, ready, owned, given, raced>>

FirstPacket(g) ==
    /\ grp[g].first = "recv" /\ grp[g].inbox > 0
    /\ grp' = [grp EXCEPT ![g].first = "got", ![g].inbox = @ - 1]
    /\ UNCHANGED <<auth, registry, revoked, pending, cn, links, ready, owned, given, raced>>

FirstTimeout(g) ==
    /\ grp[g].first = "recv"
    /\ grp' = [Closed(g) EXCEPT ![g].first = "end"]
    /\ revoked' = Invalidate(g)
    /\ UNCHANGED <<auth, registry, pending, cn, links, ready, owned, given, raced>>

(* `promoted' is set before the group is handed over.                       *)
Promote(g) ==
    /\ grp[g].first = "got"
    /\ grp' = [grp EXCEPT ![g].first = "enqueue", ![g].promoted = TRUE]
    /\ raced' = IF grp[g].clean = "sleep" THEN raced ELSE raced \cup {g}
    /\ UNCHANGED <<auth, registry, revoked, pending, cn, links, ready, owned, given>>

Enqueue(g) ==
    /\ grp[g].first = "enqueue"
    /\ grp' = [grp EXCEPT ![g].first = "end"]
    /\ ready' = Append(ready, g)
    /\ UNCHANGED <<auth, registry, revoked, pending, cn, links, owned, given, raced>>

\* Mutant of CleanupWake: an authenticated bond leaves the registry at the join timeout, promoted or not.
BugCleanupWake(g) ==
    /\ grp[g].clean = "sleep" /\ g \in Groups
    /\ grp' = [grp EXCEPT ![g].clean = "evict"]
    /\ UNCHANGED <<auth, registry, revoked, pending, cn, links, ready, owned, given, raced>>

(* The eviction task after its sleep: an authenticated, promoted bond stays *)
(* in the registry, so that replacements of its links can join.             *)
CleanupWake(g) ==
    /\ grp[g].clean = "sleep" /\ g \in Groups
    /\ grp' = [grp EXCEPT ![g].clean = IF auth /\ grp[g].promoted THEN "end" ELSE "evict"]
    /\ UNCHANGED <<auth, registry, revoked, pending, cn, links, ready, owned, given, raced>>

(* It removes the entry of the bond id, whichever group has it, and reads   *)
(* the flag of its own.                                                     *)
CleanupEvict(g) ==
    /\ grp[g].clean = "evict"
    /\ pending' = None
    /\ grp' = [grp EXCEPT ![g].clean = IF pending # None /\ ~grp[g].promoted THEN pending ELSE "end"]
    /\ UNCHANGED <<auth, registry, revoked, cn, links, ready, owned, given, raced>>

CleanupClose(g) ==
    LET victim == grp[g].clean
    IN  /\ victim \in Conns
        /\ grp' = [(IF Held(victim) THEN Closed(victim) ELSE grp) EXCEPT ![g].clean = "end"]
        /\ revoked' = IF Held(victim) THEN Invalidate(victim) ELSE revoked
        /\ UNCHANGED <<auth, registry, pending, cn, links, ready, owned, given, raced>>

(* accept_ready *)
Accept ==
    /\ ready # <<>>
    /\ owned' = owned \cup {Head(ready)}
    /\ ready' = Tail(ready)
    /\ UNCHANGED <<auth, registry, revoked, pending, cn, grp, links, given, raced>>

(* BondedSender: the caller closes the transport and drops it, or the relay *)
(* revokes the session.                                                     *)
GiveUp(g) ==
    /\ g \in owned
    /\ given' = given \cup {g}
    /\ revoked' = Invalidate(g)
    /\ \/ owned' = owned \ {g} /\ grp' = Closed(g)
       \/ auth /\ g \notin revoked /\ UNCHANGED <<owned, grp>>
    /\ UNCHANGED <<auth, registry, pending, cn, links, ready, raced>>

AcceptInit ==
    /\ auth \in Modes /\ registry = None /\ revoked = {} /\ pending = None
    /\ cn = [c \in Conns |-> [pc |-> "new", sess |-> None, group |-> None]]
    /\ grp = [g \in Conns |-> [NewGroup EXCEPT !.first = "none"]]
    /\ links = [g \in Conns |-> {}]
    /\ ready = <<>> /\ owned = {} /\ given = {} /\ raced = {}

AcceptNext ==
    \/ \E c \in Conns :
         \/ Authenticate(c) \/ Published(c) \/ Join(c) \/ AddStream(c) \/ Read(c) \/ LinkEnds(c)
         \/ FirstRecv(c) \/ FirstPacket(c) \/ FirstTimeout(c) \/ Promote(c) \/ Enqueue(c)
         \/ CleanupWake(c) \/ CleanupEvict(c) \/ CleanupClose(c) \/ GiveUp(c)
    \/ Accept

AcceptSpec == AcceptInit /\ [][AcceptNext]_acceptVars

-----------------------------------------------------------------------------
AcceptTypeOK ==
    /\ auth \in BOOLEAN /\ registry \in Conns \cup {None} /\ pending \in Conns \cup {None}
    /\ revoked \subseteq Conns /\ owned \subseteq Conns /\ given \subseteq Conns /\ raced \subseteq Conns
    /\ \A c \in Conns :
         /\ cn[c].pc \in {"new", "authed", "ready", "joined", "stream", "end"}
         /\ cn[c].sess \in Conns \cup {None} /\ cn[c].group \in Conns \cup {None}
         /\ grp[c].closed \in BOOLEAN /\ grp[c].promoted \in BOOLEAN /\ grp[c].inbox \in 0..Inbox
         /\ grp[c].first \in {"none", "start", "recv", "got", "enqueue", "end"}
    /\ links \in [Conns -> SUBSET Conns] /\ ready \in Seq(Conns)

(* A bond that was promoted before its eviction began is open and, with an  *)
(* authenticator, still in the registry for as long as the caller holds it: *)
(* no timeout of it, and nothing the bond's other connections do, ends it   *)
(* or shuts replacements out (the comment above the eviction task).  A      *)
(* client makes a bond id for one primary: a second group of the same id    *)
(* would meet the eviction task of the first.                               *)
PromotedStays ==
    \A g \in Groups : auth /\ Groups = {g} /\ grp[g].promoted /\ g \notin raced \cup given =>
        ~grp[g].closed /\ g \notin revoked /\ pending = g

(* A bond that never got its first packet is closed once that task is over: *)
(* it cannot linger with its streams open (FirstTimeout, CleanupClose).     *)
NoZombie == \A g \in Groups : grp[g].first = "end" => grp[g].promoted \/ grp[g].closed

=============================================================================
