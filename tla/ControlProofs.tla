---------------------------- MODULE ControlProofs ----------------------------
(***************************************************************************)
(* Proofs about the control server's instances (MCControl), for any number  *)
(* of handlers, requests, accounts, devices and challenges and for every    *)
(* value of the bounds: what a pushed configuration holds (from the lemmas  *)
(* of ConfigPush), and whom sessions, challenges and device tokens let in   *)
(* (ControlAccess, EnrolPop, DeviceApi).  Each part has its inductive       *)
(* invariant, a lemma that the start satisfies it and one for a step; the   *)
(* theorems at the end of the module put them together.                     *)
(***************************************************************************)
EXTENDS MCControl, Sequences, TLAPS

-----------------------------------------------------------------------------
(* EnrolPop, by the names of its state. *)
clock == x1
pending == x2
request == x3
spent == x4

USE DEF clock, pending, request, spent

Answer == [c : Challenges, op : {"mint", "right", "wrong"}, now : Nat]
Waiting == {c \in Challenges : pending[c] # None}

(* How the table may change: it loses entries, or there is room for one in what is left.     *)
Fills ==
    \E L \in SUBSET Waiting, c \in Challenges :
        /\ ~(Pop!Cardinality(L) >= MAX_PENDING)
        /\ c \notin L /\ Waiting' = L \cup {c}
TableMoves == Waiting' \subseteq Waiting \/ Fills

(* A challenge in the table was never answered; the id of one that is being *)
(* minted is in no table and in no other hands.                             *)
PopInv ==
    /\ clock \in Nat /\ pending \in [Challenges -> Nat \cup {None}]
    /\ request \in [Requests -> Answer \cup {None}]
    /\ spent \in [Challenges -> Nat]
    /\ \A c \in Challenges : spent[c] <= 1 /\ (pending[c] # None => spent[c] = 0)
    /\ \A r \in Requests : request[r] # None /\ request[r].op = "mint" =>
          /\ pending[request[r].c] = None /\ spent[request[r].c] = 0
          /\ \A q \in Requests \ {r} :
                ~(request[q] # None /\ request[q].op = "mint" /\ request[q].c = request[r].c)

(* At the start nothing is pending. *)
LEMMA PopStart ==
    ASSUME Pop!PopInit
    PROVE  PopInv
BY ControlAssumption DEF Pop!PopInit, PopInv

(* Every step keeps the invariant, and changes the table in one of the two ways. *)
LEMMA PopStep ==
    ASSUME PopInv, [Pop!PopNext]_Pop!popVars
    PROVE  PopInv' /\ TableMoves
<1>1. ASSUME NEW r \in Requests, NEW c \in Challenges, NEW op \in {"mint", "right", "wrong"},
             Pop!Begin(r, c, op)
      PROVE  PopInv' /\ TableMoves
  <2>1. request' = [request EXCEPT ![r] = [c |-> c, op |-> op, now |-> clock]]
        /\ UNCHANGED <<clock, pending, spent>> /\ Waiting' = Waiting
    BY <1>1 DEF Pop!Begin, Waiting
  <2>2. request' \in [Requests -> Answer \cup {None}]
    BY <2>1 DEF PopInv, Answer
  <2>3. ASSUME NEW s \in Requests, request'[s] # None, request'[s].op = "mint"
        PROVE  /\ pending[request'[s].c] = None /\ spent[request'[s].c] = 0
               /\ \A q \in Requests \ {s} : ~(request'[q] # None /\ request'[q].op = "mint"
                                              /\ request'[q].c = request'[s].c)
    BY <1>1, <2>1, <2>3, SMTT(30) DEF Pop!Begin, PopInv, Answer
  <2> QED BY <2>1, <2>2, <2>3 DEF PopInv, TableMoves
<1>2. ASSUME NEW r \in Requests, Pop!NewChallenge(r) PROVE PopInv' /\ TableMoves
  <2> DEFINE q == request[r]
             L == Pop!Live(q.now)
  <2>1. q \in Answer /\ q.op = "mint" /\ q.c \in Challenges /\ q.now \in Nat
    BY <1>2 DEF Pop!NewChallenge, PopInv, Answer
  <2>2. pending[q.c] = None /\ spent[q.c] = 0
    BY <1>2, <2>1 DEF Pop!NewChallenge, PopInv
  <2>3. L \subseteq Waiting /\ q.c \notin L
    BY <2>2 DEF Pop!Live, Waiting
  <2>4. UNCHANGED <<clock, spent>> /\ request' = [request EXCEPT ![r] = None]
    BY <1>2 DEF Pop!NewChallenge
  <2>5. /\ pending' \in [Challenges -> Nat \cup {None}]
        /\ \A d \in Challenges \ {q.c} : pending'[d] \in {None, pending[d]}
    BY ControlAssumption, <1>2, <2>1 DEF Pop!NewChallenge, Pop!Table, PopInv
  <2>6. TableMoves
    <3> DEFINE Entered(e) == [d \in Challenges |-> IF d = q.c THEN e
                                                  ELSE IF d \in L THEN pending[d] ELSE None]
    <3>a. IF Pop!Cardinality(L) >= MAX_PENDING THEN pending' = Entered(None)
          ELSE pending' = Entered(q.now + CHALLENGE_TTL)
      BY <1>2 DEF Pop!NewChallenge, Pop!Table
    <3>1. CASE Pop!Cardinality(L) >= MAX_PENDING
      BY <2>3, <3>a, <3>1 DEF Waiting, TableMoves
    <3>2. CASE ~(Pop!Cardinality(L) >= MAX_PENDING)
      <4>1. q.now + CHALLENGE_TTL # None
        BY ControlAssumption, <2>1
      <4>2. pending' = Entered(q.now + CHALLENGE_TTL)
        BY <3>a, <3>2
      <4>3. Waiting' = L \cup {q.c}
        BY <2>1, <4>1, <4>2 DEF Waiting, Pop!Live
      <4> HIDE DEF L, q
      <4> QED BY <2>1, <2>3, <3>2, <4>3 DEF TableMoves, Fills
    <3> QED BY <3>1, <3>2
  <2>7. request' \in [Requests -> Answer \cup {None}]
    BY <2>4 DEF PopInv
  <2>8. \A c \in Challenges : spent[c] <= 1 /\ (pending'[c] # None => spent[c] = 0)
    BY <2>2, <2>5 DEF PopInv
  <2>9. ASSUME NEW s \in Requests, request'[s] # None, request'[s].op = "mint"
        PROVE  /\ pending'[request'[s].c] = None /\ spent[request'[s].c] = 0
               /\ \A p \in Requests \ {s} : ~(request'[p] # None /\ request'[p].op = "mint"
                                              /\ request'[p].c = request'[s].c)
    <3>1. s # r /\ request'[s] = request[s] /\ request[s].c \in Challenges
      BY <2>4, <2>9 DEF PopInv, Answer
    <3>2. request[s].c # q.c
      BY <1>2, <2>9, <3>1 DEF Pop!NewChallenge, PopInv
    <3> QED BY <2>4, <2>5, <2>9, <3>1, <3>2 DEF PopInv
  <2> QED BY <2>4, <2>5, <2>6, <2>7, <2>8, <2>9 DEF PopInv
<1>3. ASSUME NEW r \in Requests, Pop!Verify(r) PROVE PopInv' /\ TableMoves
  <2> DEFINE q == request[r]
             L == Pop!Live(q.now)
  <2>1. q \in Answer /\ q.c \in Challenges /\ q.now \in Nat
    BY <1>3 DEF Pop!Verify, PopInv, Answer
  <2>2. UNCHANGED clock /\ request' = [request EXCEPT ![r] = None]
    BY <1>3 DEF Pop!Verify
  <2>3. /\ pending' \in [Challenges -> Nat \cup {None}] /\ pending'[q.c] = None
        /\ \A d \in Challenges : pending'[d] \in {None, pending[d]}
    BY <1>3, <2>1 DEF Pop!Verify, Pop!Table, PopInv
  <2>4. Waiting' \subseteq Waiting
    BY <2>3 DEF Waiting
  <2>5. /\ spent' \in [Challenges -> Nat]
        /\ \A d \in Challenges : \/ spent'[d] = spent[d]
                                 \/ d = q.c /\ pending[d] # None /\ spent'[d] = spent[d] + 1
    BY <1>3, <2>1, SMTT(30) DEF Pop!Verify, Pop!Live, PopInv
  <2>7. request' \in [Requests -> Answer \cup {None}]
    BY <2>2 DEF PopInv
  <2>8. \A c \in Challenges : spent'[c] <= 1 /\ (pending'[c] # None => spent'[c] = 0)
    BY <2>3, <2>5 DEF PopInv
  <2>9. ASSUME NEW s \in Requests, request'[s] # None, request'[s].op = "mint"
        PROVE  /\ pending'[request'[s].c] = None /\ spent'[request'[s].c] = 0
               /\ \A p \in Requests \ {s} : ~(request'[p] # None /\ request'[p].op = "mint"
                                              /\ request'[p].c = request'[s].c)
    <3>1. s # r /\ request'[s] = request[s] /\ request[s].c \in Challenges
      BY <2>2, <2>9 DEF PopInv, Answer
    <3>2. pending[request[s].c] = None /\ spent[request[s].c] = 0
      BY <2>9, <3>1 DEF PopInv
    <3> QED BY <2>2, <2>3, <2>5, <2>9, <3>1, <3>2 DEF PopInv
  <2> QED BY <2>2, <2>3, <2>4, <2>5, <2>7, <2>8, <2>9 DEF PopInv, TableMoves
<1>4. CASE Pop!Pass
  <2>1. UNCHANGED <<pending, request, spent>> /\ clock' \in Nat /\ Waiting' = Waiting
    BY <1>4, SMTT(30) DEF Pop!Pass, PopInv, Waiting
  <2> QED BY <2>1 DEF PopInv, TableMoves
<1>5. CASE UNCHANGED Pop!popVars
  BY <1>5 DEF Pop!popVars, PopInv, Waiting, TableMoves
<1> QED BY <1>1, <1>2, <1>3, <1>4, <1>5 DEF Pop!PopNext

-----------------------------------------------------------------------------
(* ControlAccess, by the names of its state. *)
hash == x1
hashes == x2
sessions == x3
req == x4
retired == x5

USE DEF hash, hashes, sessions, req, retired

(* What a request knows: a session is a hash that was made, and the account *)
(* a handler is about to change is one of the table's.                      *)
Steps == {"idle", "login", "auth", "acting", "hash", "update", "count", "delete", "revoke",
          "insert"}
Bearer == [user : Accounts, hash : Nat]
RequestOK(q) ==
    /\ q.pc \notin {"idle", "hash", "revoke"} => q.user \in Accounts
    /\ q.pc = "login" => q.hash \in Nat
    /\ q.pc \in {"auth", "acting"} => q.op \in {"change", "delete", "create"}
    /\ q.pc \in {"auth", "acting", "hash"} => q.sess \in Bearer

(* What a request is: its fields, what it knows of the account and of its   *)
(* session, and that the hashes it remembers as retired still are.  Once it *)
(* is let through, its session's hash is not among them.                    *)
RequestRec == [pc : Steps, op : {None, "change", "delete", "create"},
               user : Accounts \cup {None}, sess : Bearer \cup {None},
               hash : Nat \cup {None}, before : SUBSET Nat]
Good(q, gone) ==
    /\ q \in RequestRec /\ RequestOK(q)
    /\ q.pc = "auth" => q.before \subseteq gone
    /\ q.pc = "acting" => q.sess.hash \notin q.before

(* A hash belongs to one account, and to none once it is retired. *)
Hashes ==
    /\ hashes \in Nat /\ hash \in [Accounts -> {None} \cup 1..hashes] /\ retired \subseteq 1..hashes
    /\ \A u \in Accounts : hash[u] # None =>
          hash[u] \notin retired /\ \A v \in Accounts \ {u} : hash[v] # hash[u]

AccessInv ==
    /\ Hashes
    /\ sessions \subseteq Bearer
    /\ req \in [Requests -> RequestRec]
    /\ \A r \in Requests : Good(req[r], retired)

(* Only the seeded account has a hash at the start. *)
LEMMA AccessStart ==
    ASSUME Access!AccessInit
    PROVE  AccessInv
BY DEF Access!AccessInit, AccessInv, Hashes, Good, RequestRec, Bearer, Steps, RequestOK, Access!Free

(* A step that retires no hash it should keep, and leaves one request good, *)
(* keeps the invariant.                                                     *)
LEMMA RequestMoves ==
    ASSUME AccessInv, NEW r \in Requests, NEW q, req' = [req EXCEPT ![r] = q],
           Hashes', retired \subseteq retired', sessions' \subseteq Bearer, Good(q, retired')
    PROVE  AccessInv'
<1>1. q \in RequestRec
  BY DEF Good
<1>2. req' \in [Requests -> RequestRec]
  BY <1>1 DEF AccessInv
<1>3. ASSUME NEW s \in Requests PROVE Good(req'[s], retired')
  <2>1. CASE s = r
    BY <2>1 DEF AccessInv, Good, RequestOK
  <2>2. CASE s # r
    BY <2>2 DEF AccessInv, Good, RequestOK
  <2> QED BY <2>1, <2>2
<1> QED BY <1>2, <1>3 DEF AccessInv

(* Every await of a handler keeps the invariant, whatever ran before it. *)
LEMMA AccessStep ==
    ASSUME AccessInv, [Access!AccessNext]_Access!accessVars
    PROVE  AccessInv'
<1> DEFINE Same == /\ hash' = hash /\ hashes' = hashes /\ retired' = retired
<1>a. ASSUME Same PROVE Hashes' /\ retired \subseteq retired'
  BY <1>a DEF AccessInv, Hashes
<1>b. Good(Access!Free, retired')
  BY DEF Good, RequestRec, RequestOK, Steps, Access!Free
<1>c. \A r \in Requests : Good(req[r], retired)
  BY DEF AccessInv
<1>1. ASSUME NEW r \in Requests, NEW u \in Accounts, Access!LoginRead(r, u)
      PROVE  AccessInv'
  <2> DEFINE q == [Access!Free EXCEPT !.pc = "login", !.user = u, !.hash = hash[u]]
  <2>1. hash[u] \in Nat
    BY <1>1 DEF Access!LoginRead, AccessInv, Hashes
  <2>3. Good(q, retired')
    BY <2>1, Zenon DEF Good, RequestRec, RequestOK, Steps, Access!Free
  <2>2. req' = [req EXCEPT ![r] = q] /\ Same /\ sessions' = sessions
    BY <1>1 DEF Access!LoginRead, Access!Go
  <2> HIDE DEF q
  <2> QED BY <1>a, <2>2, <2>3, RequestMoves, Zenon DEF AccessInv
<1>2. ASSUME NEW r \in Requests, NEW s \in sessions, NEW op \in {"change", "delete", "create"},
             NEW u \in Accounts, Access!Request(r, s, op, u)
      PROVE  AccessInv'
  <2> DEFINE q == [Access!Free EXCEPT !.pc = "auth", !.op = op, !.user = u, !.sess = s,
                                      !.before = retired]
  <2>1. s \in Bearer /\ retired \in SUBSET Nat /\ retired' = retired
    BY <1>2 DEF Access!Request, AccessInv, Hashes
  <2>2. Good(q, retired')
    BY <2>1, Zenon DEF Good, RequestRec, RequestOK, Steps, Access!Free
  <2>3. req' = [req EXCEPT ![r] = q] /\ Same /\ sessions' = sessions
    BY <1>2 DEF Access!Request, Access!Go
  <2> HIDE DEF q
  <2> QED BY <1>a, <2>2, <2>3, RequestMoves, Zenon DEF AccessInv
<1>3. ASSUME NEW r \in Requests, Access!LoginInsert(r) PROVE AccessInv'
  <2>1. req' = [req EXCEPT ![r] = Access!Free] /\ Same
    BY <1>3 DEF Access!LoginInsert, Access!Go
  <2>2. sessions' \subseteq Bearer
    BY <1>3, <1>c, SMTT(30) DEF Access!LoginInsert, AccessInv, Good, RequestOK, Bearer
  <2> QED BY <1>a, <1>b, <2>1, <2>2, RequestMoves, Zenon
<1>4. ASSUME NEW r \in Requests, Access!SessionUser(r) PROVE AccessInv'
  <2> DEFINE q == [req[r] EXCEPT !.pc = "acting"]
  <2>1. Same /\ sessions' \subseteq Bearer
    BY <1>4 DEF Access!SessionUser, AccessInv
  <2>2. CASE Access!Current(req[r].sess) /\ req' = [req EXCEPT ![r] = q]
    <3>1. req[r].sess \in Bearer /\ req[r].user \in Accounts /\ req[r].before \subseteq retired
      BY <1>4, <1>c DEF Access!SessionUser, Good, RequestOK, Steps
    <3>2. req[r].sess.hash \notin req[r].before
      <4>1. req[r].sess.user \in Accounts /\ req[r].sess.hash \in Nat
        BY <3>1 DEF Bearer
      <4>2. hash[req[r].sess.user] = req[r].sess.hash
        BY <2>2 DEF Access!Current
      <4>3. req[r].sess.hash \notin retired
        BY <4>1, <4>2, ControlAssumption DEF AccessInv, Hashes
      <4> QED BY <3>1, <4>3
    <3>3. req[r] \in RequestRec /\ req[r].op \in {"change", "delete", "create"}
      BY <1>4, <1>c DEF Access!SessionUser, Good, RequestOK
    <3>4. /\ q \in RequestRec /\ q.pc = "acting"
          /\ q.user = req[r].user /\ q.op = req[r].op /\ q.sess = req[r].sess
          /\ q.before = req[r].before
      BY <3>3 DEF RequestRec, Steps
    <3>5. Good(q, retired')
      BY <3>1, <3>2, <3>3, <3>4 DEF Good, RequestOK
    <3> HIDE DEF q
    <3> QED BY <1>a, <2>1, <2>2, <3>5, RequestMoves, Zenon
  <2>3. CASE req' = [req EXCEPT ![r] = Access!Free]
    BY <1>a, <1>b, <2>1, <2>3, RequestMoves, Zenon
  <2> QED BY <1>4, <2>2, <2>3 DEF Access!SessionUser, Access!Go
<1>d. ASSUME NEW r \in Requests, NEW pc \in Steps \ {"idle", "login", "auth", "acting"},
             pc \notin {"hash", "revoke"} => req[r].user \in Accounts,
             pc = "hash" => req[r].sess \in Bearer
      PROVE  Good([req[r] EXCEPT !.pc = pc], retired')
  BY <1>c, <1>d DEF Good, RequestRec, RequestOK, Steps
<1>e. ASSUME NEW r \in Requests, sessions' \subseteq Bearer, Hashes', retired \subseteq retired',
             NEW pc \in Steps \ {"idle", "login", "auth", "acting"},
             pc \notin {"hash", "revoke"} => req[r].user \in Accounts,
             pc = "hash" => req[r].sess \in Bearer,
             req' = [req EXCEPT ![r] = [req[r] EXCEPT !.pc = pc]]
      PROVE  AccessInv'
  <2> DEFINE q == [req[r] EXCEPT !.pc = pc]
  <2>1. Good(q, retired') /\ req' = [req EXCEPT ![r] = q]
    BY <1>d, <1>e
  <2> HIDE DEF q
  <2> QED BY <1>e, <2>1, RequestMoves, Zenon
<1>f. ASSUME NEW r \in Requests, sessions' \subseteq Bearer, Hashes', retired \subseteq retired',
             req' = [req EXCEPT ![r] = Access!Free]
      PROVE  AccessInv'
  BY <1>b, <1>f, RequestMoves, Zenon
<1>g. sessions \subseteq Bearer
  BY DEF AccessInv
<1>5. ASSUME NEW r \in Requests, Access!Acting(r) PROVE AccessInv'
  <2>1. Same /\ sessions' = sessions
    BY <1>5 DEF Access!Acting
  <2>2. /\ req[r].user \in Accounts /\ req[r].sess \in Bearer
        /\ req[r].op \in {"change", "delete", "create"}
    BY <1>5, <1>c DEF Access!Acting, Good, RequestRec, RequestOK
  <2>3. \/ req' = [req EXCEPT ![r] = Access!Free]
        \/ \E pc \in {"hash", "count", "insert"} : req' = [req EXCEPT ![r] = [req[r] EXCEPT !.pc = pc]]
    BY <1>5, <2>2, Zenon DEF Access!Acting, Access!Go
  <2> QED BY <1>a, <1>e, <1>f, <1>g, <2>1, <2>2, <2>3 DEF Steps
<1>6. ASSUME NEW r \in Requests, Access!ReadHash(r) PROVE AccessInv'
  <2>1. Same /\ sessions' = sessions
    BY <1>6 DEF Access!ReadHash
  <2>2. CASE req' = [req EXCEPT ![r] = Access!Free]
    BY <1>a, <1>f, <1>g, <2>1, <2>2, Zenon
  <2> DEFINE q == [req[r] EXCEPT !.pc = "update", !.user = req[r].sess.user]
  <2>3. CASE req' = [req EXCEPT ![r] = q]
    <3>1. req[r].sess.user \in Accounts
      BY <1>6, <1>c DEF Access!ReadHash, Good, RequestOK, Bearer
    <3>2. Good(q, retired')
      BY <1>c, <3>1, Zenon DEF Good, RequestRec, RequestOK, Steps
    <3> HIDE DEF q
    <3> QED BY <1>a, <1>g, <2>1, <2>3, <3>2, RequestMoves, Zenon
  <2> QED BY <1>6, <2>2, <2>3 DEF Access!ReadHash, Access!Go
<1>7. ASSUME NEW r \in Requests, Access!Update(r) PROVE AccessInv'
  <2>1. req[r].user \in Accounts
    BY <1>7, <1>c DEF Access!Update, Good, RequestOK
  <2>2. retired \subseteq retired' /\ sessions' = sessions
    BY <1>7 DEF Access!Update, Access!Retire
  <2>3. Hashes'
    BY <1>7, <2>1 DEF Access!Update, Access!Retire, AccessInv, Hashes
  <2> QED BY <1>7, <1>e, <1>g, <2>1, <2>2, <2>3, Zenon DEF Access!Update, Access!Go, Steps
<1>8. ASSUME NEW r \in Requests, Access!Count(r) PROVE AccessInv'
  <2>1. Same /\ sessions' = sessions /\ req[r].user \in Accounts
    BY <1>8, <1>c DEF Access!Count, Good, RequestOK
  <2> QED BY <1>8, <1>a, <1>e, <1>f, <1>g, <2>1 DEF Access!Count, Access!Go, Steps
<1>9. ASSUME NEW r \in Requests, Access!Delete(r) PROVE AccessInv'
  <2>1. req[r].user \in Accounts
    BY <1>9, <1>c DEF Access!Delete, Good, RequestOK
  <2>2. retired \subseteq retired' /\ sessions' = sessions
    BY <1>9 DEF Access!Delete, Access!Retire
  <2>3. Hashes'
    BY <1>9, <2>1 DEF Access!Delete, Access!Retire, AccessInv, Hashes
  <2> QED BY <1>9, <1>e, <1>g, <2>1, <2>2, <2>3, Zenon DEF Access!Delete, Access!Go, Steps
<1>10. ASSUME NEW r \in Requests, Access!RevokeSessions(r) PROVE AccessInv'
  <2>1. Same /\ sessions' \subseteq Bearer
    BY <1>10, <1>g DEF Access!RevokeSessions
  <2> QED BY <1>10, <1>a, <1>f, <2>1, Zenon DEF Access!RevokeSessions, Access!Go
<1>11. ASSUME NEW r \in Requests, Access!Insert(r) PROVE AccessInv'
  <2>1. req[r].user \in Accounts
    BY <1>11, <1>c DEF Access!Insert, Good, RequestOK
  <2>2. retired' = retired /\ sessions' = sessions
    BY <1>11 DEF Access!Insert
  <2>3. Hashes'
    BY <1>11, <2>1, <2>2 DEF Access!Insert, AccessInv, Hashes
  <2> QED BY <1>11, <1>f, <1>g, <2>2, <2>3, Zenon DEF Access!Insert, Access!Go
<1>12. CASE UNCHANGED Access!accessVars
  BY <1>12 DEF Access!accessVars, AccessInv, Hashes, Good, RequestOK
<1> QED BY <1>1, <1>2, <1>3, <1>4, <1>5, <1>6, <1>7, <1>8, <1>9, <1>10, <1>11, <1>12
        DEF Access!AccessNext, Access!Account

-----------------------------------------------------------------------------
(* DeviceApi, by the names of its state; `dead' is its `retired', `call' its `req'. *)
dev == x1
nets == x2
tokens == x3
owner == x4
dead == x5
call == x6

USE DEF dev, nets, tokens, owner, dead, call

Row == [status : {"absent", "active", "revoked"}, token : Nat \cup {None},
        route : {"none", "pending", "approved"}, stats : BOOLEAN]
Stages == {"idle", "device", "read", "match", "known", "admin", "run", "audit", "ok"}
Guarded == Api!DeviceOps \cup Api!ReadOps

(* A token is its owner's and not dead; a row without a network, or a    *)
(* device that never was, has nothing.                                      *)
RowsOK ==
    /\ dev \in [Devices -> Row]
    /\ tokens \in 0..MaxTokens /\ dead \subseteq 1..tokens
    /\ owner \in [1..MaxTokens -> Devices \cup {None}]
    /\ \A d \in Devices : dev[d].token # None =>
          /\ dev[d].token \in 1..tokens /\ owner[dev[d].token] = d
          /\ dev[d].token \notin dead
    /\ \A d \in Devices : dev[d].status = "absent" => dev[d].route = "none" /\ ~dev[d].stats
    /\ Api!RowsHaveNetwork

(* A request is where its route's guard puts it, and once it has passed a   *)
(* guard for tokens, its token is the device's own and was so on arrival.   *)
CallOK(q) ==
    /\ q.pc \in Stages
    /\ q.pc = "device" => q.op \in Api!DeviceOps
    /\ q.pc \in {"read", "match"} => q.op \in Api!ReadOps \cup {"resolve_name"}
    /\ q.pc = "admin" => q.op \in Api!AdminOps
    /\ q.pc # "idle" => q.dev \in Devices /\ q.op \in Api!Ops
    /\ q.by \in Nat => q.by \in 1..tokens
    /\ q.by \in Nat /\ q.stale => q.by \in dead
    /\ q.by \in Nat /\ q.pc \in {"run", "audit", "ok"} /\ q.op \in Guarded =>
          owner[q.by] = q.dev /\ ~q.stale
    /\ q.by \in Nat /\ q.pc \in {"audit", "ok"} /\ q.op \in Api!OwnOps => owner[q.by] = q.dev /\ ~q.stale

CallRec == [pc : Stages, op : Api!Ops \cup {None}, by : {None, Master} \cup Sessions \cup Nat,
            dev : Devices \cup {None}, stale : BOOLEAN]
ApiInv == RowsOK /\ call \in CallRec /\ CallOK(call)

(* What no operation of the store does: bring a token back, or give it to   *)
(* another device.                                                          *)
StoreGrows ==
    /\ dead \subseteq dead' /\ 1..tokens \subseteq 1..tokens'
    /\ \A t \in 1..tokens : owner'[t] = owner[t]

(* At the start there are no devices and no tokens. *)
LEMMA ApiStart ==
    ASSUME Api!ApiInit
    PROVE  ApiInv
<1>1. RowsOK
  BY ControlAssumption DEF Api!ApiInit, RowsOK, Row, Api!RowsHaveNetwork
<1>2. CallOK(call)
  BY ControlAssumption DEF Api!ApiInit, CallOK, Stages, Api!Free
<1>3. call \in CallRec
  BY DEF Api!ApiInit, CallRec, Stages, Api!Free
<1> QED BY <1>1, <1>2, <1>3 DEF ApiInv

(* revoke retires the token of one device. *)
LEMMA RevokedRows ==
    ASSUME RowsOK, NEW d \in Devices, Api!Revoked(d)
    PROVE  RowsOK' /\ StoreGrows
<1>1. StoreGrows
  BY DEF Api!Revoked, Api!Retire, StoreGrows
<1>2. dev' \in [Devices -> Row]
  <2>1. dev[d] \in Row
    BY DEF RowsOK
  <2>2. [dev[d] EXCEPT !.status = "revoked", !.token = None] \in Row
    BY <2>1, Zenon DEF Row
  <2> QED BY <2>2 DEF RowsOK, Api!Revoked
<1>3. dead' \subseteq 1..tokens
  BY DEF RowsOK, Api!Revoked, Api!Retire
<1>4. ASSUME NEW e \in Devices, dev'[e].token # None
      PROVE  dev'[e].token \in 1..tokens /\ owner[dev'[e].token] = e /\ dev'[e].token \notin dead'
  BY <1>4 DEF RowsOK, Row, Api!Revoked, Api!Retire
<1>5. ASSUME NEW e \in Devices
      PROVE  /\ dev'[e].status = "absent" => dev'[e].route = "none" /\ ~dev'[e].stats
             /\ NetOf[e] \notin nets => dev'[e].route = "none" /\ ~dev'[e].stats
  BY DEF RowsOK, Row, Api!Revoked, Api!RowsHaveNetwork
<1>6. tokens' = tokens /\ owner' = owner /\ nets' = nets
  BY DEF Api!Revoked
<1> QED BY <1>1, <1>2, <1>3, <1>4, <1>5, <1>6 DEF RowsOK, Api!RowsHaveNetwork

(* sql_enroll hands out a token nobody had, and retires the one before it. *)
LEMMA EnrolledRows ==
    ASSUME RowsOK, NEW d \in Devices, Api!Enrolled(d)
    PROVE  RowsOK' /\ StoreGrows
<1>1. /\ tokens \in Nat /\ tokens' = tokens + 1 /\ tokens + 1 \in 1..MaxTokens /\ nets' = nets
      /\ NetOf[d] \in nets
      /\ owner' = [owner EXCEPT ![tokens + 1] = d]
  BY ControlAssumption DEF RowsOK, Api!Enrolled
<1>2. StoreGrows
  BY <1>1 DEF RowsOK, Api!Enrolled, Api!Retire, StoreGrows
<1>3. /\ dev' \in [Devices -> Row]
      /\ \A e \in Devices \ {d} : dev'[e] = dev[e]
      /\ dev'[d].token = tokens + 1 /\ dev'[d].status = "active"
      /\ dev'[d].route = dev[d].route /\ dev'[d].stats = dev[d].stats
  <2> DEFINE row == [dev[d] EXCEPT !.status = "active", !.token = tokens + 1]
  <2>a. dev[d] \in Row
    BY DEF RowsOK
  <2>1. dev' = [dev EXCEPT ![d] = row]
    BY DEF Api!Enrolled
  <2>2. tokens + 1 \in Nat
    BY <1>1
  <2>3. row \in Row
    BY <2>a, <2>2, Zenon DEF Row
  <2>4. /\ row.token = tokens + 1 /\ row.status = "active"
        /\ row.route = dev[d].route /\ row.stats = dev[d].stats
    BY <2>a DEF Row
  <2> HIDE DEF row
  <2> QED BY <2>1, <2>3, <2>4 DEF RowsOK
<1>4. dead' = dead \cup ({dev[d].token} \ {None})
  BY DEF Api!Enrolled, Api!Retire
<1>5. dead' \subseteq 1..tokens'
  <2>1. dead \subseteq 1..tokens /\ (dev[d].token # None => dev[d].token \in 1..tokens)
    BY DEF RowsOK
  <2>2. 1..tokens \subseteq 1..(tokens + 1)
    BY <1>1
  <2> QED BY <1>1, <1>4, <2>1, <2>2, Zenon
<1>6. owner' \in [1..MaxTokens -> Devices \cup {None}]
  BY <1>1 DEF RowsOK
<1>7. ASSUME NEW e \in Devices, dev'[e].token # None
      PROVE  dev'[e].token \in 1..tokens' /\ owner'[dev'[e].token] = e /\ dev'[e].token \notin dead'
  <2>1. CASE e = d
    BY <1>1, <1>3, <1>4, <2>1 DEF RowsOK
  <2>2. CASE e # d
    BY <1>1, <1>3, <1>4, <1>7, <2>2 DEF RowsOK
  <2> QED BY <2>1, <2>2
<1>8. ASSUME NEW e \in Devices
      PROVE  /\ dev'[e].status = "absent" => dev'[e].route = "none" /\ ~dev'[e].stats
             /\ NetOf[e] \notin nets => dev'[e].route = "none" /\ ~dev'[e].stats
  BY <1>1, <1>3 DEF RowsOK, Api!RowsHaveNetwork
<1>9. tokens' \in 0..MaxTokens
  BY <1>1
<1> QED BY <1>1, <1>2, <1>3, <1>5, <1>6, <1>7, <1>8, <1>9 DEF RowsOK, Api!RowsHaveNetwork

(* delete_network empties the rows of its devices and retires their tokens. *)
LEMMA DeletedRows ==
    ASSUME RowsOK, NEW n, Api!Deleted(n)
    PROVE  RowsOK' /\ StoreGrows
<1> DEFINE ds == {d \in Devices : NetOf[d] = n /\ dev[d].status # "absent"}
<1>1. /\ tokens' = tokens /\ owner' = owner /\ nets' = nets \ {n}
      /\ dead' = dead \cup ({dev[d].token : d \in ds} \ {None})
      /\ dev' = [d \in Devices |-> IF d \in ds
                     THEN [status |-> "revoked", token |-> None, route |-> "none", stats |-> FALSE]
                     ELSE dev[d]]
  BY DEF Api!Deleted, Api!Retire
<1>2. StoreGrows
  BY <1>1 DEF StoreGrows
<1>3. dev' \in [Devices -> Row]
  BY <1>1 DEF RowsOK, Row
<1>4. dead' \subseteq 1..tokens
  <2>1. dead \subseteq 1..tokens /\ \A d \in Devices : dev[d].token # None => dev[d].token \in 1..tokens
    BY DEF RowsOK
  <2> QED BY <1>1, <2>1, Zenon
<1>5. ASSUME NEW e \in Devices, dev'[e].token # None
      PROVE  dev'[e].token \in 1..tokens /\ owner[dev'[e].token] = e /\ dev'[e].token \notin dead'
  BY <1>1, <1>5 DEF RowsOK
<1>6. ASSUME NEW e \in Devices
      PROVE  /\ dev'[e].status = "absent" => dev'[e].route = "none" /\ ~dev'[e].stats
             /\ NetOf[e] \notin nets' => dev'[e].route = "none" /\ ~dev'[e].stats
  BY <1>1 DEF RowsOK, Api!RowsHaveNetwork
<1> QED BY <1>1, <1>2, <1>3, <1>4, <1>5, <1>6, Zenon DEF RowsOK, Api!RowsHaveNetwork

(* A request that stays, or moves on, keeps what it knows of its token. *)
LEMMA CallMoves ==
    ASSUME ApiInv, StoreGrows, NEW pc \in {"match", "known", "run", "audit", "ok"},
           call.pc # "idle", call' = [call EXCEPT !.pc = pc],
           pc = "match" => call.op \in Api!ReadOps \cup {"resolve_name"},
           pc \in {"run", "audit", "ok"} /\ call.by \in Nat /\ call.op \in Guarded =>
               owner[call.by] = call.dev /\ ~call.stale,
           pc \in {"audit", "ok"} /\ call.by \in Nat /\ call.op \in Api!OwnOps => owner[call.by] = call.dev /\ ~call.stale
    PROVE  call' \in CallRec /\ CallOK(call)'
<1>1. call' \in CallRec
  BY DEF ApiInv, CallRec, Stages
<1>2. /\ call'.pc = pc /\ call'.op = call.op /\ call'.by = call.by /\ call'.dev = call.dev
      /\ call'.stale = call.stale
  BY DEF ApiInv, CallRec
<1>3. call.dev \in Devices /\ call.op \in Api!Ops
  BY DEF ApiInv, CallOK
<1>4. call.by \in Nat => call.by \in 1..tokens /\ call.by \in 1..tokens' /\ owner'[call.by] = owner[call.by]
  BY DEF ApiInv, CallOK, StoreGrows
<1>5. call.by \in Nat /\ call.stale => call.by \in dead'
  BY DEF ApiInv, CallOK, StoreGrows
<1> QED BY <1>1, <1>2, <1>3, <1>4, <1>5 DEF CallOK, Stages

(* The same for a request that waits while others change the store. *)
LEMMA CallWaits ==
    ASSUME ApiInv, StoreGrows, call' = call
    PROVE  call' \in CallRec /\ CallOK(call)'
<1>1. call.by \in Nat => call.by \in 1..tokens /\ call.by \in 1..tokens' /\ owner'[call.by] = owner[call.by]
  BY DEF ApiInv, CallOK, StoreGrows
<1>2. call.by \in Nat /\ call.stale => call.by \in dead'
  BY DEF ApiInv, CallOK, StoreGrows
<1> QED BY <1>1, <1>2 DEF ApiInv, CallOK

(* A bearer that is the token a live device has now is that device's, and   *)
(* was not dead when the request came in.                                *)
LEMMA TokenIsOwn ==
    ASSUME ApiInv, call.dev \in Devices, call.by # None, Api!DeviceToken(call.dev) = call.by
    PROVE  /\ Api!Live(call.dev)
           /\ call.by \in Nat => owner[call.by] = call.dev /\ ~call.stale
BY ControlAssumption DEF ApiInv, RowsOK, CallOK, Api!DeviceToken, Api!Live
(* An error status leaves everything as it was. *)
LEMMA Refused ==
    ASSUME ApiInv, Api!Fails, UNCHANGED Api!store
    PROVE  ApiInv'
<1>1. RowsOK'
  BY DEF ApiInv, RowsOK, Api!store, Api!RowsHaveNetwork
<1>2. call' \in CallRec /\ CallOK(call)'
  BY ControlAssumption DEF CallRec, CallOK, Stages, Api!Fails, Api!Free
<1> QED BY <1>1, <1>2 DEF ApiInv

(* A guard lets the request on without a change of the store. *)
LEMMA LetOn ==
    ASSUME ApiInv, NEW pc \in {"match", "known", "run", "audit", "ok"},
           call.pc # "idle", Api!Go(pc), UNCHANGED Api!store,
           pc = "match" => call.op \in Api!ReadOps \cup {"resolve_name"},
           pc \in {"run", "audit", "ok"} /\ call.by \in Nat /\ call.op \in Guarded =>
               owner[call.by] = call.dev /\ ~call.stale,
           pc \in {"audit", "ok"} /\ call.by \in Nat /\ call.op \in Api!OwnOps => owner[call.by] = call.dev /\ ~call.stale
    PROVE  ApiInv'
<1>1. RowsOK' /\ StoreGrows
  BY DEF ApiInv, RowsOK, StoreGrows, Api!store, Api!RowsHaveNetwork
<1>2. call' \in CallRec /\ CallOK(call)'
  BY <1>1, CallMoves DEF Api!Go
<1> QED BY <1>1, <1>2 DEF ApiInv

(* A handler that writes rows of a device ends well. *)
LEMMA Finished ==
    ASSUME ApiInv, call.pc = "run", NEW e, Api!Done(e), e \in [Devices -> Row],
           \A d \in Devices :
              /\ e[d].token = dev[d].token /\ e[d].status = dev[d].status
              /\ \/ e[d].route = dev[d].route /\ e[d].stats = dev[d].stats
                 \/ e[d].route = "none" /\ e[d].stats = dev[d].stats
                 \/ e[d].status # "absent" /\ NetOf[d] \in nets,
           call.op \in Api!OwnOps => Api!OwnToken
    PROVE  ApiInv'
<1>1. dev' = e /\ nets' = nets /\ tokens' = tokens /\ owner' = owner /\ dead' = dead
  BY DEF Api!Done
<1>2. RowsOK' /\ StoreGrows
  BY <1>1 DEF ApiInv, RowsOK, StoreGrows, Api!RowsHaveNetwork
<1>3. call.dev \in Devices
  BY DEF ApiInv, CallOK
<1>4. call.op \in Api!OwnOps /\ call.by \in Nat => owner[call.by] = call.dev /\ ~call.stale
  BY <1>3, TokenIsOwn DEF Api!OwnToken
<1>5. call.by \in Nat /\ call.op \in Guarded => owner[call.by] = call.dev /\ ~call.stale
  BY DEF ApiInv, CallOK
<1>6. \E pc \in {"audit", "ok"} : call' = [call EXCEPT !.pc = pc]
  BY DEF Api!Done, Api!Go
<1>7. call' \in CallRec /\ CallOK(call)'
  BY <1>2, <1>4, <1>5, <1>6, CallMoves
<1> QED BY <1>2, <1>7 DEF ApiInv

(* Rows that a handler leaves as they are. *)
LEMMA FinishedSame ==
    ASSUME ApiInv, call.pc = "run", Api!Done(dev), call.op \notin Api!OwnOps
    PROVE  ApiInv'
<1>1. dev \in [Devices -> Row]
  BY DEF ApiInv, RowsOK
<1> QED BY <1>1, Finished

(* The route of one device. *)
LEMMA RouteSet ==
    ASSUME ApiInv, call.pc = "run", call.dev \in Devices,
           NEW route \in {"none", "pending", "approved"}, Api!Done([dev EXCEPT ![call.dev].route = route]),
           \/ route = "none" \/ route = dev[call.dev].route
           \/ dev[call.dev].status # "absent" /\ NetOf[call.dev] \in nets,
           call.op \in Api!OwnOps => Api!OwnToken
    PROVE  ApiInv'
<1> DEFINE e == [dev EXCEPT ![call.dev].route = route]
<1>1. dev \in [Devices -> Row] /\ dev[call.dev] \in Row
  BY DEF ApiInv, RowsOK
<1>2. e \in [Devices -> Row]
  BY <1>1 DEF Row
<1>3. \A d \in Devices : /\ e[d].token = dev[d].token /\ e[d].status = dev[d].status
                         /\ e[d].stats = dev[d].stats
                         /\ d # call.dev => e[d].route = dev[d].route
                         /\ d = call.dev => e[d].route = route
  BY <1>1 DEF Row
<1> HIDE DEF e
<1>4. Api!Done(e)
  BY DEF e
<1> QED BY <1>2, <1>3, <1>4, Finished
(* The guards: who is let on to a handler. *)
LEMMA GuardStep ==
    ASSUME ApiInv,
           \/ Api!require_device \/ Api!require_device_read \/ Api!MatchToken \/ Api!KnownToken
           \/ Api!MatchNetwork \/ Api!require_admin
    PROVE  ApiInv'
<1> USE DEF Api!DeviceOps, Api!ReadOps, Api!OwnOps, Api!AdminOps, Guarded
<1>a. call.pc # "idle" => call.dev \in Devices
  BY DEF ApiInv, CallOK
<1>b. call.by \in Nat => ~Api!ValidBearer(call.by)
  BY ControlAssumption DEF Api!ValidBearer
<1>1. CASE Api!require_device
  <2>1. call.pc = "device" /\ UNCHANGED Api!store
    BY <1>1 DEF Api!require_device
  <2>2. CASE Api!Fails
    BY <2>1, <2>2, Refused
  <2>3. CASE Api!Go("run") /\ (call.by = Master \/ (call.by # None /\ Api!DeviceToken(call.dev) = call.by))
    <3>1. call.op \in Api!DeviceOps
      BY <2>1 DEF ApiInv, CallOK
    <3>2. call.by \in Nat => owner[call.by] = call.dev /\ ~call.stale
      BY ControlAssumption, <1>a, <2>1, <2>3, TokenIsOwn
    <3> QED BY <2>1, <2>3, <3>1, <3>2, LetOn
  <2> QED BY <1>1, <2>2, <2>3 DEF Api!require_device
<1>2. CASE Api!require_device_read
  <2>1. call.pc = "read" /\ UNCHANGED Api!store /\ call.op \in Api!ReadOps \cup {"resolve_name"}
    BY <1>2 DEF Api!require_device_read, ApiInv, CallOK
  <2>2. CASE Api!Fails
    BY <2>1, <2>2, Refused
  <2>3. CASE Api!Go("run") /\ Api!ValidBearer(call.by)
    BY <1>b, <2>1, <2>3, LetOn
  <2>4. CASE Api!Go("match")
    BY <2>1, <2>4, LetOn
  <2> QED BY <1>2, <2>2, <2>3, <2>4 DEF Api!require_device_read
<1>3. CASE Api!MatchToken
  <2>1. call.pc = "match" /\ UNCHANGED Api!store /\ call.op \in Api!ReadOps
    BY <1>3 DEF Api!MatchToken
  <2>2. CASE Api!Go("run") /\ Api!DeviceToken(call.dev) = call.by
    <3>1. call.by \in Nat => owner[call.by] = call.dev /\ ~call.stale
      BY ControlAssumption, <1>a, <2>1, <2>2, TokenIsOwn
    <3> QED BY <2>1, <2>2, <3>1, LetOn
  <2>3. CASE Api!Go("known")
    BY <2>1, <2>3, LetOn
  <2> QED BY <1>3, <2>2, <2>3 DEF Api!MatchToken
<1>4. CASE Api!KnownToken
  BY <1>4, Refused DEF Api!KnownToken
<1>5. CASE Api!MatchNetwork
  <2>1. call.pc = "match" /\ UNCHANGED Api!store /\ call.op = "resolve_name" /\ (Api!Go("run") \/ Api!Fails)
    BY <1>5 DEF Api!MatchNetwork
  <2> QED BY <2>1, Refused, LetOn
<1>6. CASE Api!require_admin
  <2>1. call.pc = "admin" /\ UNCHANGED Api!store /\ call.op \in Api!AdminOps /\ (Api!Go("run") \/ Api!Fails)
    BY <1>6 DEF Api!require_admin, ApiInv, CallOK
  <2> QED BY <2>1, Refused, LetOn
<1> QED BY <1>1, <1>2, <1>3, <1>4, <1>5, <1>6

(* The handlers behind them. *)
LEMMA HandlerStep ==
    ASSUME ApiInv, Api!Handler
    PROVE  ApiInv'
<1> USE DEF Api!Running, Api!OwnOps
<1>a. call.pc = "run" => call.dev \in Devices
  BY DEF ApiInv, CallOK
<1>b. Api!Refuse => ApiInv'
  BY Refused DEF Api!Refuse
<1>c. \A d \in Devices : Api!Live(d) => dev[d].status # "absent" /\ NetOf[d] \in nets
  BY DEF Api!Live
<1>d. \A d \in Devices : dev[d] \in Row
  BY DEF ApiInv, RowsOK
<1>1. CASE \/ Api!set_endpoints \/ Api!device_gateway \/ Api!watch_device \/ Api!device_config
           \/ Api!get_device_settings \/ Api!get_device_stats \/ Api!list_device_routes
           \/ Api!resolve_name \/ Api!rename_device \/ Api!set_device_settings
  <2>1. call.pc = "run" /\ call.op \notin Api!OwnOps /\ (Api!Done(dev) \/ Api!Refuse)
    BY <1>1 DEF Api!set_endpoints, Api!device_gateway, Api!watch_device, Api!device_config,
                Api!get_device_settings, Api!get_device_stats, Api!list_device_routes,
                Api!resolve_name, Api!rename_device, Api!set_device_settings
  <2> QED BY <1>b, <2>1, FinishedSame
<1>2. CASE Api!report_stats
  <2>1. call.pc = "run" /\ call.op \notin Api!OwnOps /\ call.dev \in Devices
    BY <1>2, <1>a DEF Api!report_stats
  <2> DEFINE e == [dev EXCEPT ![call.dev].stats = TRUE]
  <2>2. CASE Api!Live(call.dev) /\ Api!Done(e)
    <3>1. dev \in [Devices -> Row]
      BY DEF ApiInv, RowsOK
    <3>2. e \in [Devices -> Row]
      BY <3>1, Zenon DEF Row
    <3>3. \A d \in Devices : /\ e[d].token = dev[d].token /\ e[d].status = dev[d].status
                             /\ e[d].route = dev[d].route
                             /\ d # call.dev => e[d].stats = dev[d].stats
      BY <3>1, Zenon DEF Row
    <3> HIDE DEF e
    <3> QED BY <1>c, <2>1, <2>2, <3>2, <3>3, Finished
  <2> QED BY <1>2, <1>b, <2>2 DEF Api!report_stats
<1>3. CASE Api!device_advertise
  <2>1. call.pc = "run" /\ call.dev \in Devices
    BY <1>3, <1>a DEF Api!device_advertise
  <2> DEFINE route == IF dev[call.dev].route = "none" THEN "pending" ELSE dev[call.dev].route
  <2>2. CASE Api!OwnToken /\ Api!Done([dev EXCEPT ![call.dev].route = route])
    <3>1. Api!Live(call.dev)
      BY <2>1, <2>2, TokenIsOwn DEF Api!OwnToken
    <3>2. route \in {"none", "pending", "approved"}
      BY <1>d, <2>1 DEF Row
    <3> HIDE DEF route
    <3> QED BY <1>c, <2>1, <2>2, <3>1, <3>2, RouteSet, Zenon
  <2> QED BY <1>3, <1>b, <2>2 DEF Api!device_advertise
<1>4. CASE Api!device_unadvertise
  <2>1. call.pc = "run" /\ call.dev \in Devices
    BY <1>4, <1>a DEF Api!device_unadvertise
  <2>2. CASE Api!OwnToken /\ Api!Done([dev EXCEPT ![call.dev].route = "none"])
    BY <2>1, <2>2, RouteSet
  <2> QED BY <1>4, <1>b, <2>2 DEF Api!device_unadvertise
<1>5. CASE Api!advertise_route
  <2>1. call.pc = "run" /\ call.dev \in Devices /\ call.op \notin Api!OwnOps
    BY <1>5, <1>a DEF Api!advertise_route
  <2> DEFINE route == IF dev[call.dev].route = "none" THEN "pending" ELSE dev[call.dev].route
  <2>2. CASE Api!Live(call.dev) /\ Api!Done([dev EXCEPT ![call.dev].route = route])
    <3>1. route \in {"none", "pending", "approved"}
      BY <1>d, <2>1 DEF Row
    <3> HIDE DEF route
    <3> QED BY <1>c, <2>1, <2>2, <3>1, RouteSet, Zenon
  <2> QED BY <1>5, <1>b, <2>2 DEF Api!advertise_route
<1>6. CASE Api!approve_route
  <2>1. call.pc = "run" /\ call.dev \in Devices /\ call.op \notin Api!OwnOps
    BY <1>6, <1>a DEF Api!approve_route
  <2>2. CASE dev[call.dev].route # "none" /\ Api!Done([dev EXCEPT ![call.dev].route = "approved"])
    <3>1. dev[call.dev].status # "absent" /\ NetOf[call.dev] \in nets
      BY <2>1, <2>2 DEF ApiInv, RowsOK, Api!RowsHaveNetwork
    <3> QED BY <2>1, <2>2, <3>1, RouteSet
  <2> QED BY <1>6, <1>b, <2>2 DEF Api!approve_route
<1>7. CASE Api!delete_route
  <2>1. call.pc = "run" /\ call.dev \in Devices /\ call.op \notin Api!OwnOps
    BY <1>7, <1>a DEF Api!delete_route
  <2>2. CASE Api!Done([dev EXCEPT ![call.dev].route = "none"])
    BY <2>1, <2>2, RouteSet
  <2> QED BY <1>7, <1>b, <2>2 DEF Api!delete_route
<1>e. ASSUME call.pc = "run", RowsOK', StoreGrows, call.op \notin Api!OwnOps,
             Api!Go("audit") \/ Api!Go("ok")
      PROVE  ApiInv'
  <2>1. call.by \in Nat /\ call.op \in Guarded => owner[call.by] = call.dev /\ ~call.stale
    BY <1>e DEF ApiInv, CallOK
  <2>2. call' \in CallRec /\ CallOK(call)'
    BY <1>e, <2>1, CallMoves DEF Api!Go
  <2> QED BY <1>e, <2>2 DEF ApiInv
<1>f. RowsOK
  BY DEF ApiInv
<1>8. CASE Api!revoke
  BY <1>8, <1>a, <1>b, <1>e, <1>f, RevokedRows DEF Api!revoke
<1>9. CASE Api!delete_network
  BY <1>9, <1>a, <1>b, <1>e, <1>f, DeletedRows DEF Api!delete_network
<1>10. CASE Api!enroll
  BY <1>10, <1>a, <1>b, <1>e, <1>f, EnrolledRows DEF Api!enroll
<1>11. CASE Api!record_audit
  <2>1. call.pc = "audit" /\ Api!Go("ok") /\ UNCHANGED Api!store
    BY <1>11 DEF Api!record_audit
  <2>2. call.by \in Nat /\ call.op \in Guarded \cup Api!OwnOps => owner[call.by] = call.dev /\ ~call.stale
    BY <2>1 DEF ApiInv, CallOK
  <2> QED BY <2>1, <2>2, LetOn
<1>12. CASE Api!Reply
  BY <1>12, Refused DEF Api!Reply, Api!Fails
<1> QED BY <1>1, <1>2, <1>3, <1>4, <1>5, <1>6, <1>7, <1>8, <1>9, <1>10, <1>11, <1>12 DEF Api!Handler

(* Every step keeps the invariant. *)
LEMMA ApiStep ==
    ASSUME ApiInv, [Api!ApiNext]_Api!apiVars
    PROVE  ApiInv'
<1>1. ASSUME NEW op \in Api!Ops, NEW b \in {None, Master} \cup Sessions \cup 1..tokens,
             NEW d \in Devices, Api!Arrive(op, b, d)
      PROVE  ApiInv'
  <2>1. RowsOK'
    BY <1>1 DEF Api!Arrive, Api!store, ApiInv, RowsOK, Api!RowsHaveNetwork
  <2>2. tokens' = tokens /\ dead' = dead /\ tokens \in Nat
    BY <1>1 DEF Api!Arrive, Api!store, ApiInv, RowsOK
  <2>3. /\ call'.op = op /\ call'.by = b /\ call'.dev = d /\ call'.stale = (b \in dead)
        /\ call'.pc = CASE op \in Api!DeviceOps -> "device" [] op \in Api!AdminOps -> "admin"
                       [] op \in Api!OwnOps \cup {"enroll"} -> "run" [] OTHER -> "read"
    BY <1>1 DEF Api!Arrive
  <2>4. /\ call'.pc \in {"device", "admin", "run", "read"}
        /\ call'.pc = "device" => op \in Api!DeviceOps
        /\ call'.pc = "admin" => op \in Api!AdminOps
        /\ call'.pc = "run" => op \notin Guarded
        /\ call'.pc = "read" => op \in Api!ReadOps \cup {"resolve_name"}
    BY <2>3 DEF Api!Ops, Api!DeviceOps, Api!AdminOps, Api!OwnOps, Api!ReadOps, Guarded
  <2>5. b \in {None, Master} \cup Sessions \cup Nat /\ (b \in Nat => b \in 1..tokens)
    BY ControlAssumption, <2>2
  <2>6. call' \in CallRec
    BY <1>1, <2>4, <2>5 DEF Api!Arrive, CallRec, Stages
  <2>7. CallOK(call)'
    BY <2>2, <2>3, <2>4, <2>5, Zenon DEF CallOK, Stages
  <2> QED BY <2>1, <2>6, <2>7 DEF ApiInv
<1>2. CASE Api!Deadline
  BY <1>2, Refused DEF Api!Deadline
<1>3. CASE Api!Elsewhere
  <2>1. RowsOK' /\ StoreGrows /\ call' = call
    BY <1>3, RevokedRows, EnrolledRows, DeletedRows DEF Api!Elsewhere, ApiInv
  <2> QED BY <2>1, CallWaits DEF ApiInv
<1>4. CASE UNCHANGED Api!apiVars
  <2>1. RowsOK' /\ StoreGrows /\ call' = call
    BY <1>4 DEF Api!apiVars, ApiInv, RowsOK, StoreGrows, Api!RowsHaveNetwork
  <2> QED BY <2>1, CallWaits DEF ApiInv
<1> QED BY <1>1, <1>2, <1>3, <1>4, GuardStep, HandlerStep DEF Api!ApiNext

(* What the invariant says of a request that was served. *)
LEMMA ApiSafe ==
    ASSUME ApiInv
    PROVE  Api!TokenConfined /\ Api!RowsHaveNetwork
BY ControlAssumption DEF ApiInv, RowsOK, CallOK, Guarded, Api!TokenConfined

-----------------------------------------------------------------------------
(* A step of the four is a step of the component that the behaviour is of. *)
LEMMA OneSteps ==
    ASSUME [ControlNext /\ UNCHANGED sys]_mcVars
    PROVE  /\ sys' = sys
           /\ sys = "push" => [Push!PushNext]_Push!pushVars
           /\ sys = "access" => [Access!AccessNext]_Access!accessVars
           /\ sys = "api" => [Api!ApiNext]_Api!apiVars
           /\ sys = "pop" => [Pop!PopNext]_Pop!popVars
BY DEF ControlNext, mcVars, Push!pushVars, Access!accessVars, Api!apiVars,
       Pop!popVars

(* What a pushed configuration holds, for any number of handlers, changes and lost
   announcements: every change announced up to its epoch, since device_config reads the
   epoch before the parts; nothing committed after the token was rotated, since
   sql_send_config_inner checks the bearer after it has read them; and a watch that sleeps
   has sent all that was announced, and of everything but routes all there is, unless a
   handler still has its signal to give, although notify keeps a signal back when the
   channel is ahead of it and bump_and_notify may set it back. *)
THEOREM PushesFaithful == ControlSpec => []PushFaithful
<1> DEFINE Inv == sys = "push" => Push!PInv
<1>1. ControlInit => Inv
  BY Push!PushStart DEF ControlInit
<1>2. Inv /\ [ControlNext /\ UNCHANGED sys]_mcVars => Inv'
  BY OneSteps, Push!PushStep
<1>3. Inv => PushFaithful
  BY Push!PushSafe DEF PushFaithful
<1> QED BY <1>1, <1>2, <1>3, PTL DEF ControlSpec

(* Each of the three keeps its invariant, in whichever of them the behaviour is. *)
CredentialsInv ==
    /\ sys = "access" => AccessInv
    /\ sys = "api" => ApiInv
    /\ sys = "pop" => PopInv

(* The three invariants hold in every reachable state. *)
LEMMA CredentialsKept == ControlSpec => []CredentialsInv
<1>1. ControlInit => CredentialsInv
  BY AccessStart, ApiStart, PopStart DEF ControlInit, CredentialsInv
<1>2. CredentialsInv /\ [ControlNext /\ UNCHANGED sys]_mcVars => CredentialsInv'
  BY OneSteps, AccessStep, ApiStep, PopStep DEF CredentialsInv
<1> QED BY <1>1, <1>2, PTL DEF ControlSpec

-----------------------------------------------------------------------------
(* The bound on the table, which takes the library's facts about finite sets. *)
INSTANCE FiniteSetTheorems

PopBound == IsFiniteSet(Waiting) /\ Pop!Cardinality(Waiting) <= MAX_PENDING

(* The cardinality of the instance is the standard one. *)
LEMMA SameCount == \A S : Pop!Cardinality(S) = Cardinality(S)
BY Zenon DEF Pop!Cardinality, Cardinality

(* An empty table is within the bound, and a step of the table keeps it there. *)
LEMMA PopBoundKept ==
    /\ Pop!PopInit => PopBound
    /\ PopBound /\ TableMoves => PopBound'
<1>1. ASSUME Pop!PopInit PROVE PopBound
  <2>1. Waiting = {}
    BY <1>1 DEF Pop!PopInit, Waiting
  <2> QED BY <2>1, ControlAssumption, SameCount, FS_EmptySet DEF PopBound
<1>2. ASSUME PopBound, Waiting' \subseteq Waiting PROVE PopBound'
  <2>1. IsFiniteSet(Waiting') /\ Cardinality(Waiting') <= Cardinality(Waiting)
    BY <1>2, FS_Subset DEF PopBound
  <2>2. Cardinality(Waiting) \in Nat /\ Cardinality(Waiting') \in Nat
    BY <1>2, <2>1, FS_CardinalityType DEF PopBound
  <2> QED BY <1>2, <2>1, <2>2, ControlAssumption, SameCount DEF PopBound
<1>3. ASSUME PopBound, Fills PROVE PopBound'
  <2>1. PICK L \in SUBSET Waiting, c \in Challenges :
            /\ ~(Pop!Cardinality(L) >= MAX_PENDING)
            /\ c \notin L /\ Waiting' = L \cup {c}
    BY <1>3 DEF Fills
  <2>2. IsFiniteSet(L) /\ Cardinality(L) \in Nat
    BY <1>3, FS_Subset, FS_CardinalityType DEF PopBound
  <2>3. IsFiniteSet(L \cup {c}) /\ Cardinality(L \cup {c}) = Cardinality(L) + 1
    BY <2>1, <2>2, FS_AddElement
  <2>4. Cardinality(L) + 1 <= MAX_PENDING
    BY <2>1, <2>2, ControlAssumption, SameCount
  <2> QED BY <2>1, <2>3, <2>4, SameCount DEF PopBound
<1> QED BY <1>1, <1>2, <1>3 DEF TableMoves

(* Whom the control server lets in, for any number of accounts, requests, devices and
   challenges: no session older than a password change or a deletion that came before the
   request (session_user); no challenge twice, and no more than MAX_PENDING of
   them (pop.rs); no device's token for another device or once it was replaced, and no row
   without a network (require_device, require_device_read, device_route_change). *)
THEOREM CredentialsSafe == ControlSpec => []CredentialsHold
<1>1. AccessInv => Access!StaleSessionDenied
  BY DEF AccessInv, Good, Access!StaleSessionDenied
<1>2. PopInv /\ PopBound => Pop!ChallengeSpentOnce
  <2>1. PopInv => \A c \in Challenges : spent[c] <= 1
    BY DEF PopInv
  <2> QED BY <2>1, Zenon DEF PopBound, Waiting, Pop!ChallengeSpentOnce
<1> DEFINE Bound == sys = "pop" => PopBound
<1>3. ControlInit => Bound
  BY PopBoundKept DEF ControlInit
<1>4. CredentialsInv /\ Bound /\ [ControlNext /\ UNCHANGED sys]_mcVars => Bound'
  BY OneSteps, PopStep, PopBoundKept DEF CredentialsInv
<1>5. CredentialsInv /\ Bound => CredentialsHold
  BY <1>1, <1>2, ApiSafe DEF CredentialsInv, CredentialsHold
<1> QED BY <1>3, <1>4, <1>5, CredentialsKept, PTL DEF ControlSpec
=============================================================================
