------------------------------ MODULE ConHash -------------------------------
(***************************************************************************)
(* Consistent hashing (fp-conhash): the ring that gives each peer's key to a *)
(* worker of the engine.  A node has replicas on the ring; a key belongs to  *)
(* the node of the first replica at or after its hash, or of the first one   *)
(* of all.  Hashes are positions 0 .. Size - 1; no two replicas have the     *)
(* same one (they are MD5 digests of different names).                       *)
(***************************************************************************)
EXTENDS Naturals, FiniteSets, FiniteSetsExt

CONSTANTS None, Nodes, Size, MaxReplicas

VARIABLES
    hash,        \* hash_fn on the names of replicas, any function without clashes
    nodes,       \* ConsistentHash::nodes: position -> node, None where there is no entry
    replicas     \* ConsistentHash::replicas: node -> count, None for a node not added

hashVars == <<hash, nodes, replicas>>

Ring == 0..(Size - 1)
Idents == Nodes \X (0..(MaxReplicas - 1))

HashTypeOK ==
    /\ hash \in [Idents -> Ring] /\ nodes \in [Ring -> Nodes \cup {None}]
    /\ replicas \in [Nodes -> 0..MaxReplicas \cup {None}]

HashInit ==
    /\ hash \in {h \in [Idents -> Ring] : \A i, j \in Idents : h[i] = h[j] => i = j}
    /\ nodes = [p \in Ring |-> None] /\ replicas = [n \in Nodes |-> None]

Entries(n, count) == {hash[<<n, r>>] : r \in 0..(count - 1)}

\* Mutant of Without: one replica stays behind.
BugWithout(n) ==
    [p \in Ring |-> IF replicas[n] # None /\ replicas[n] > 1 /\ p \in Entries(n, replicas[n] - 1) THEN None ELSE nodes[p]]

(* remove: the entries of the replicas the node was added with. *)
Without(n) == [p \in Ring |-> IF replicas[n] # None /\ p \in Entries(n, replicas[n]) THEN None ELSE nodes[p]]

(* add: removed first, so that it may be added again with another count. *)
add(n, count) ==
    /\ nodes' = [p \in Ring |-> IF p \in Entries(n, count) THEN n ELSE Without(n)[p]]
    /\ replicas' = [replicas EXCEPT ![n] = count]
    /\ UNCHANGED hash

remove(n) ==
    /\ nodes' = Without(n)
    /\ replicas' = [replicas EXCEPT ![n] = None]
    /\ UNCHANGED hash

HashNext == \E n \in Nodes : remove(n) \/ \E count \in 1..MaxReplicas : add(n, count)

HashSpec == HashInit /\ [][HashNext]_hashVars

(* get: the first entry from the key's hash on, else the first of the map. *)
get(key) ==
    LET used == {p \in Ring : nodes[p] # None}
        after == {p \in used : p >= key} IN
    IF used = {} THEN None ELSE nodes[IF after = {} THEN Min(used) ELSE Min(after)]

-----------------------------------------------------------------------------
(* A key belongs to the node that has the nearest of all replicas clockwise, whatever
   was added, added again with another count and removed before (ConsistentHash::get). *)
NearestServes ==
    LET all == UNION {Entries(n, replicas[n]) : n \in {m \in Nodes : replicas[m] # None}} IN
    \A key \in Ring :
        IF all = {} THEN get(key) = None
        ELSE \E n \in Nodes : \E p \in all :
                /\ get(key) = n /\ replicas[n] # None /\ p \in Entries(n, replicas[n])
                /\ \A q \in all : (p + Size - key) % Size <= (q + Size - key) % Size

(* A node that comes takes keys from others, one that goes gives its own away, and no
   other key moves, so the other peers keep their worker (ConsistentHash::add, remove). *)
OthersStay ==
    \A n \in Nodes :
        /\ replicas[n] = None /\ replicas'[n] # None
              => \A key \in Ring : get(key)' \in {get(key), n}
        /\ replicas[n] # None /\ replicas'[n] = None
              => \A key \in Ring : get(key) # n => get(key)' = get(key)
=============================================================================
