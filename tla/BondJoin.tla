------------------------------ MODULE BondJoin ------------------------------
(***************************************************************************)
(* The server's side of a bonded connection: links of one bond arrive on    *)
(* connections of their own, authenticate against the registry of the       *)
(* relay's ServerAuth, and gather in a BondGroup that the listener hands to *)
(* the relay once its first packet has come.                                *)
(*                                                                         *)
(* A session is named after the connection that opened it, and so is a      *)
(* group.  The registry and the table of pending groups hold weak           *)
(* references: `Held' says which sessions and groups still have an owner.   *)
(***************************************************************************)
EXTENDS Naturals, FiniteSets

CONSTANTS Conns,     \* connections of one bond id
          Primary,   \* those whose header carries link index 0
          None

VARIABLES registry,  \* Registry.groups: session of the bond, or None
          reserved,  \* Registry.pending: the bond is authenticating
          revoked,   \* sessions whose key was taken by invalidate
          pending,   \* PendingBond: group of the bond, or None
          links,     \* group -> connections whose stream was added
          conn,      \* connection -> [pc, sess, group]
          served     \* groups the listener has handed over and not dropped

joinVars == <<registry, reserved, revoked, pending, links, conn, served>>

Phases == {"new", "proof", "confirm", "authed", "ready", "stream", "listed", "done", "end"}

Step(c, pc) == conn' = [conn EXCEPT ![c].pc = pc]

(* What still holds an Arc of session s: the handlers that authenticated    *)
(* with it, and the groups that are not dropped.                            *)
GroupHeld(g) == g \in served \/ \E c \in Conns : conn[c].group = g /\ conn[c].pc \in {"stream", "listed"}

Held(s) == \/ \E c \in Conns : conn[c].sess = s /\ conn[c].pc \in {"proof", "confirm", "authed", "ready", "stream"}
           \/ GroupHeld(s)

Active(s) == s # None /\ s \notin revoked /\ Held(s)

(* BondGroup::drop: the last owner of a group takes its session along.      *)
DropGroup(g) == revoked' = revoked \cup {g}

(* Connection c lets go of its reference to the group it joined.            *)
LetGo(c) ==
    LET g == conn[c].group
    IN  IF g = None \/ g \in served \/ \E d \in Conns \ {c} : conn[d].group = g /\ conn[d].pc \in {"stream", "listed"}
          THEN UNCHANGED revoked ELSE DropGroup(g)

\* Mutant of HelloPrimary: a bond whose first link is still authenticating is not refused.
BugHelloPrimary(c) ==
    /\ conn[c].pc = "new" /\ c \in Primary
    /\ LET known == IF Active(registry) THEN registry ELSE None
       IN  /\ registry' = known
           /\ IF known # None THEN Step(c, "end") /\ UNCHANGED reserved
                              ELSE Step(c, "proof") /\ reserved' = TRUE
    /\ UNCHANGED <<revoked, pending, links, served>>

(* accept, link index 0: refuse a bond that has a live session or is being  *)
(* authenticated, else reserve it for the time of the proof.                *)
HelloPrimary(c) ==
    /\ conn[c].pc = "new" /\ c \in Primary
    /\ LET known == IF Active(registry) THEN registry ELSE None
       IN  /\ registry' = known
           /\ IF known # None \/ reserved
                THEN Step(c, "end") /\ UNCHANGED reserved
                ELSE Step(c, "proof") /\ reserved' = TRUE
    /\ UNCHANGED <<revoked, pending, links, served>>

(* accept, link index > 0: take the session of the registry, if it is live. *)
HelloSecondary(c) ==
    /\ conn[c].pc = "new" /\ c \notin Primary
    /\ conn' = [conn EXCEPT ![c] = IF Active(registry) THEN [@ EXCEPT !.pc = "proof", !.sess = registry]
                                                       ELSE [@ EXCEPT !.pc = "end"]]
    /\ UNCHANGED <<registry, reserved, revoked, pending, links, served>>

(* The proof is right.  A primary enters its new session in the registry    *)
(* before it writes the confirmation; the reservation lasts until then.     *)
Proof(c) ==
    /\ conn[c].pc = "proof"
    /\ IF c \in Primary
         THEN /\ registry' = c
              /\ conn' = [conn EXCEPT ![c].pc = "confirm", ![c].sess = c]
         ELSE /\ registry' = registry
              /\ Step(c, IF conn[c].sess \in revoked THEN "end" ELSE "confirm")
    /\ UNCHANGED <<reserved, revoked, pending, links, served>>

(* confirmation fails once the key is gone; else the hook returns the       *)
(* session and drops the reservation.                                       *)
Confirm(c) ==
    /\ conn[c].pc = "confirm"
    /\ Step(c, IF conn[c].sess \in revoked THEN "end" ELSE "authed")
    /\ reserved' = (reserved /\ c \notin Primary)
    /\ UNCHANGED <<registry, revoked, pending, links, served>>

LiveGroup(g) == g # None /\ GroupHeld(g) /\ g \notin revoked

(* handle_connection: a proven secondary polls until the group of its bond  *)
(* is published, and gives up when its session is revoked.                  *)
Published(c) ==
    /\ conn[c].pc = "authed" /\ c \notin Primary
    /\ \/ conn[c].sess \in revoked /\ Step(c, "end")
       \/ conn[c].sess \notin revoked /\ pending # None /\ GroupHeld(pending) /\ Step(c, "ready")
    /\ UNCHANGED <<registry, reserved, revoked, pending, links, served>>

(* Membership is decided under the write lock: the first link makes the     *)
(* group, a later one joins it if it authenticated with the very session of *)
(* the group and that session is still active.                              *)
Join(c) ==
    /\ conn[c].pc = IF c \in Primary THEN "authed" ELSE "ready"
    /\ LET g == IF LiveGroup(pending) THEN pending ELSE None
       IN  \/ /\ g # None
              /\ pending' = g
              /\ conn' = [conn EXCEPT ![c] =
                   IF @.sess \in revoked \/ @.sess # g THEN [@ EXCEPT !.pc = "end"]
                                                       ELSE [@ EXCEPT !.pc = "stream", !.group = g]]
           \/ /\ g = None /\ c \in Primary
              /\ pending' = c
              /\ conn' = [conn EXCEPT ![c].pc = "stream", ![c].group = c]
           \/ /\ g = None /\ c \notin Primary
              /\ pending' = None
              /\ Step(c, "end")
    /\ UNCHANGED <<registry, reserved, revoked, links, served>>

(* The first yamux stream of the link arrives and joins the group; the      *)
(* primary then hands the group to the listener.                            *)
AddStream(c) ==
    /\ conn[c].pc = "stream"
    /\ links' = [links EXCEPT ![conn[c].group] = @ \cup {c}]
    /\ Step(c, IF c = conn[c].group THEN "listed" ELSE "done")
    /\ IF c = conn[c].group THEN UNCHANGED revoked ELSE LetGo(c)
    /\ UNCHANGED <<registry, reserved, pending, served>>

(* A handler ends early: its proof is wrong, its peer hangs up, or one of   *)
(* its timeouts strikes.  What it owned is dropped; the primary also takes  *)
(* the entry of its group away when the stream could not be accepted.       *)
Abort(c) ==
    /\ conn[c].pc \in {"proof", "confirm", "authed", "ready", "stream"}
    /\ Step(c, "end")
    /\ reserved' = (reserved /\ ~(c \in Primary /\ conn[c].pc \in {"proof", "confirm"}))
    /\ \/ pending' = pending                \* the `?' of a timeout leaves the entry behind
       \/ conn[c].pc = "stream" /\ c = conn[c].group /\ pending' = None
    /\ LetGo(c)
    /\ UNCHANGED <<registry, links, served>>

(* TcpBondListener::accept waits ten seconds for the first packet; without  *)
(* one the group is dropped.                                                *)
Accept(c) ==
    /\ conn[c].pc = "listed"
    /\ Step(c, "done")
    /\ \/ served' = served \cup {c} /\ UNCHANGED revoked
       \/ UNCHANGED served /\ DropGroup(c)
    /\ UNCHANGED <<registry, reserved, pending, links>>

(* The relay drops the sender of a served group: BondedSender::drop.        *)
Close(g) ==
    /\ g \in served
    /\ served' = served \ {g}
    /\ DropGroup(g)
    /\ UNCHANGED <<registry, reserved, pending, links, conn>>

(* Another connection of the same key takes over and the hub invalidates    *)
(* the session while the group is still being served.                       *)
Revoke(g) ==
    /\ g \in served /\ g \notin revoked
    /\ revoked' = revoked \cup {g}
    /\ UNCHANGED <<registry, reserved, pending, links, conn, served>>

JoinInit ==
    /\ registry = None /\ reserved = FALSE /\ revoked = {} /\ pending = None
    /\ links = [g \in Conns |-> {}]
    /\ conn = [c \in Conns |-> [pc |-> "new", sess |-> None, group |-> None]]
    /\ served = {}

JoinNext == \E c \in Conns :
    \/ HelloPrimary(c) \/ HelloSecondary(c) \/ Proof(c) \/ Confirm(c) \/ Published(c) \/ Join(c)
    \/ AddStream(c) \/ Abort(c) \/ Accept(c) \/ Close(c) \/ Revoke(c)

JoinSpec == JoinInit /\ [][JoinNext]_joinVars

-----------------------------------------------------------------------------
JoinTypeOK ==
    /\ registry \in Conns \cup {None} /\ pending \in Conns \cup {None}
    /\ reserved \in BOOLEAN /\ revoked \subseteq Conns /\ served \subseteq Conns
    /\ links \in [Conns -> SUBSET Conns]
    /\ conn \in [Conns -> [pc : Phases, sess : Conns \cup {None}, group : Conns \cup {None}]]

(* A group gathers only links that authenticated with its own session, and  *)
(* at most one group of a bond is live at a time, however the primaries,    *)
(* the secondaries, their timeouts and the revocations interleave           *)
(* (ServerAuth::accept, handle_connection).                                 *)
LinksShareSession ==
    /\ \A g \in Conns : \A c \in links[g] : conn[c].sess = g
    /\ \A g, h \in Conns : LiveGroup(g) /\ LiveGroup(h) => g = h

(* The bond is reserved exactly while a primary is between its hello and    *)
(* its confirmation: a reservation left behind would refuse the bond for    *)
(* ever (Reservation::drop).                                                *)
ReservationOwned ==
    reserved <=> \E c \in Primary : conn[c].pc \in {"proof", "confirm"}

=============================================================================
