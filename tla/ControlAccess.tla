---------------------------- MODULE ControlAccess ----------------------------
(***************************************************************************)
(* Administrator accounts and sessions of the control server (auth.rs).    *)
(* Every await of a handler is a step of its own.  A password hash is        *)
(* salted, so each hash_password gives a version never seen before.          *)
(***************************************************************************)
EXTENDS Naturals, FiniteSets

CONSTANTS Accounts, Requests, None, MaxHashes

VARIABLES hash,      \* admin table: account -> hash, None without a row
          hashes,    \* hashes made so far
          sessions,  \* Auth.sessions: [user, hash]; tokens with the same contents are one
          req,       \* request -> [pc, op, user, sess, hash, before]
          retired    \* hashes that are no longer an account's

accessVars == <<hash, hashes, sessions, req, retired>>

Free == [pc |-> "idle", op |-> None, user |-> None, sess |-> None, hash |-> None, before |-> {}]
Go(r, q) == req' = [req EXCEPT ![r] = q]
Retire(u) == retired' = retired \cup ({hash[u]} \ {None})

-----------------------------------------------------------------------------
(* Auth::login: the hash is read and verified, the session inserted later.   *)
LoginRead(r, u) ==
    /\ req[r].pc = "idle" /\ hash[u] # None
    /\ Go(r, [Free EXCEPT !.pc = "login", !.user = u, !.hash = hash[u]])
    /\ UNCHANGED <<hash, hashes, sessions, retired>>

LoginInsert(r) ==
    /\ req[r].pc = "login"
    /\ sessions' = sessions \cup {[user |-> req[r].user, hash |-> req[r].hash]}
    /\ Go(r, Free)
    /\ UNCHANGED <<hash, hashes, retired>>

(* require_admin: the token is looked up, then session_user asks for the     *)
(* account's hash; a token that does not match, or has expired, is removed.  *)
Request(r, s, op, u) ==
    /\ req[r].pc = "idle"
    /\ Go(r, [Free EXCEPT !.pc = "auth", !.op = op, !.user = u, !.sess = s, !.before = retired])
    /\ UNCHANGED <<hash, hashes, sessions, retired>>

Current(s) == hash[s.user] = s.hash

\* Mutant of SessionUser: a session is good as long as its account exists.
BugSessionUser(r) ==
    /\ req[r].pc = "auth" /\ hash[req[r].sess.user] # None
    /\ Go(r, [req[r] EXCEPT !.pc = "acting"])
    /\ UNCHANGED <<hash, hashes, sessions, retired>>

SessionUser(r) ==
    /\ req[r].pc = "auth"
    /\ \/ /\ Current(req[r].sess)
          /\ Go(r, [req[r] EXCEPT !.pc = "acting"])
          /\ UNCHANGED sessions
       \/ /\ sessions' = sessions \ {req[r].sess}
          /\ Go(r, Free)
    /\ UNCHANGED <<hash, hashes, retired>>

(* acting_user of the handler: the session may be gone by now.  Changing a   *)
(* password then stops; deleting an account goes on as the master key would, *)
(* and only refuses one's own.                                               *)
Acting(r) ==
    LET q == req[r]
        live == q.sess \in sessions /\ Current(q.sess)
        next == CASE q.op = "change" -> IF live THEN "hash" ELSE "idle"
                  [] q.op = "delete" -> IF live /\ q.sess.user = q.user THEN "idle" ELSE "count"
                  [] q.op = "create" -> IF hash[q.user] # None THEN "idle" ELSE "insert"
    IN  /\ q.pc = "acting"
        /\ Go(r, IF next = "idle" THEN Free ELSE [q EXCEPT !.pc = next])
        /\ UNCHANGED <<hash, hashes, sessions, retired>>

(* admin_change_password: the stored hash is read and the old password       *)
(* verified; the update comes later and is not tied to what was read.        *)
ReadHash(r) ==
    /\ req[r].pc = "hash"
    /\ \/ Go(r, Free)                                         \* no account, or a wrong password
       \/ /\ hash[req[r].sess.user] # None
          /\ Go(r, [req[r] EXCEPT !.pc = "update", !.user = req[r].sess.user])
    /\ UNCHANGED <<hash, hashes, sessions, retired>>

Update(r) ==
    /\ req[r].pc = "update" /\ hashes < MaxHashes
    /\ hashes' = hashes + 1
    /\ Retire(req[r].user)
    /\ hash' = [hash EXCEPT ![req[r].user] = IF @ = None THEN None ELSE hashes + 1]
    /\ Go(r, [req[r] EXCEPT !.pc = "revoke"])
    /\ UNCHANGED sessions

(* delete_admin: count, then delete.                                         *)
Count(r) ==
    /\ req[r].pc = "count"
    /\ Go(r, IF Cardinality({u \in Accounts : hash[u] # None}) <= 1 THEN Free
             ELSE [req[r] EXCEPT !.pc = "delete"])
    /\ UNCHANGED <<hash, hashes, sessions, retired>>

Delete(r) ==
    /\ req[r].pc = "delete"
    /\ Retire(req[r].user)
    /\ hash' = [hash EXCEPT ![req[r].user] = None]
    /\ Go(r, [req[r] EXCEPT !.pc = "revoke"])
    /\ UNCHANGED <<hashes, sessions>>

(* revoke_sessions                                                           *)
RevokeSessions(r) ==
    /\ req[r].pc = "revoke"
    /\ sessions' = {s \in sessions : s.user # req[r].user}
    /\ Go(r, Free)
    /\ UNCHANGED <<hash, hashes, retired>>

(* create_admin inserts; the key of the table refuses a second row.          *)
Insert(r) ==
    /\ req[r].pc = "insert" /\ hashes < MaxHashes
    /\ hashes' = hashes + 1
    /\ hash' = [hash EXCEPT ![req[r].user] = IF @ = None THEN hashes + 1 ELSE @]
    /\ Go(r, Free)
    /\ UNCHANGED <<sessions, retired>>

Account(r) ==
    \/ \E u \in Accounts : LoginRead(r, u)
    \/ \E s \in sessions, op \in {"change", "delete", "create"}, u \in Accounts : Request(r, s, op, u)
    \/ LoginInsert(r) \/ SessionUser(r) \/ Acting(r) \/ ReadHash(r) \/ Update(r)
    \/ Count(r) \/ Delete(r) \/ RevokeSessions(r) \/ Insert(r)

-----------------------------------------------------------------------------
(* ensure_default_admin has seeded one account.                              *)
AccessInit ==
    /\ \E u \in Accounts : hash = [a \in Accounts |-> IF a = u THEN 1 ELSE None]
    /\ hashes = 1 /\ sessions = {} /\ retired = {}
    /\ req = [r \in Requests |-> Free]

AccessNext == \E r \in Requests : Account(r)
AccessSpec == AccessInit /\ [][AccessNext]_accessVars

-----------------------------------------------------------------------------
AccessTypeOK ==
    /\ hash \in [Accounts -> {None} \cup 1..MaxHashes] /\ hashes \in 1..MaxHashes
    /\ sessions \subseteq [user : Accounts, hash : 1..MaxHashes]
    /\ retired \subseteq 1..MaxHashes
    /\ \A r \in Requests : req[r].pc \in {"idle", "login", "auth", "acting", "hash", "update",
                                         "count", "delete", "revoke", "insert"}

(* A request is let through only with a session whose hash was still the     *)
(* account's when the request came in: not one from before a password change *)
(* or a deletion, even when its login raced the change and entered its       *)
(* session after the account's sessions were revoked (Auth::session_user).   *)
StaleSessionDenied ==
    \A r \in Requests : req[r].pc = "acting" => req[r].sess.hash \notin req[r].before

=============================================================================
