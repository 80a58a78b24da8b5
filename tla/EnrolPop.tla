------------------------------- MODULE EnrolPop -------------------------------
(***************************************************************************)
(* The challenges of an enrolment (pop.rs): proof of possession of a key.    *)
(* Requests mint a challenge or answer one; each reads the clock before it   *)
(* takes the lock of the table.                                              *)
(***************************************************************************)
EXTENDS Naturals, FiniteSets

CONSTANTS Challenges, MAX_PENDING, CHALLENGE_TTL, Requests, MaxTime, None

VARIABLES clock,
          pending,   \* the table: challenge -> expiry, None when it is not in it
          request,   \* request -> [c, op, now], None between two
          spent      \* challenge -> proofs compared with it

popVars == <<clock, pending, request, spent>>

Live(now) == {c \in Challenges : pending[c] # None /\ pending[c] > now}
(* prune, then the change made under the same lock                           *)
Table(now, keep, c, expiry) ==
    pending' = [d \in Challenges |-> IF d = c THEN expiry ELSE IF d \in keep THEN pending[d] ELSE None]

(* A request comes in and reads the clock.  Ids are random: a new challenge  *)
(* has one that was never used.                                              *)
Begin(r, c, op) ==
    /\ request[r] = None
    /\ op = "mint" => /\ pending[c] = None /\ spent[c] = 0
                      /\ \A q \in Requests : request[q] # None => request[q].c # c
    /\ request' = [request EXCEPT ![r] = [c |-> c, op |-> op, now |-> clock]]
    /\ UNCHANGED <<clock, pending, spent>>

(* new_challenge *)
NewChallenge(r) ==
    LET q == request[r]
    IN  /\ q # None /\ q.op = "mint"
        /\ IF Cardinality(Live(q.now)) >= MAX_PENDING THEN Table(q.now, Live(q.now), q.c, None)
           ELSE Table(q.now, Live(q.now), q.c, q.now + CHALLENGE_TTL)
        /\ request' = [request EXCEPT ![r] = None]
        /\ UNCHANGED <<clock, spent>>

\* Mutant of Verify: only a right proof uses the challenge up.
BugVerify(r) ==
    LET q == request[r]
    IN  /\ q # None /\ q.op \in {"right", "wrong"}
        /\ IF q.op = "right" THEN Table(q.now, Live(q.now), q.c, None) ELSE UNCHANGED pending
        /\ spent' = IF q.c \in Live(q.now) THEN [spent EXCEPT ![q.c] = @ + 1] ELSE spent
        /\ request' = [request EXCEPT ![r] = None]
        /\ UNCHANGED clock

(* verify: the entry is taken out before the proof is looked at, so that it  *)
(* is gone whether or not the proof is right.                                *)
Verify(r) ==
    LET q == request[r]
    IN  /\ q # None /\ q.op \in {"right", "wrong"}
        /\ Table(q.now, Live(q.now), q.c, None)
        /\ spent' = IF q.c \in Live(q.now) THEN [spent EXCEPT ![q.c] = @ + 1] ELSE spent
        /\ request' = [request EXCEPT ![r] = None]
        /\ UNCHANGED clock

Pass == clock < MaxTime /\ clock' = clock + 1 /\ UNCHANGED <<pending, request, spent>>

PopInit ==
    /\ clock = 0 /\ pending = [c \in Challenges |-> None] /\ request = [r \in Requests |-> None]
    /\ spent = [c \in Challenges |-> 0]
PopNext ==
    \/ \E r \in Requests : \/ \E c \in Challenges, op \in {"mint", "right", "wrong"} : Begin(r, c, op)
                           \/ NewChallenge(r) \/ Verify(r)
    \/ Pass
PopSpec == PopInit /\ [][PopNext]_popVars

PopTypeOK ==
    /\ clock \in 0..MaxTime /\ spent \in [Challenges -> Nat]
    /\ \A c \in Challenges : pending[c] \in {None} \cup 0..(MaxTime + CHALLENGE_TTL)

(* A challenge is compared with one proof at most, right or wrong, and no    *)
(* more than MAX_PENDING of them wait, however requests that read the clock  *)
(* at different times take the lock (pop::new_challenge, pop::verify).       *)
ChallengeSpentOnce ==
    /\ \A c \in Challenges : spent[c] <= 1
    /\ Cardinality({c \in Challenges : pending[c] # None}) <= MAX_PENDING

=============================================================================
