---------------------------- MODULE RelayRegistry ----------------------------
(***************************************************************************)
(* What the relay promises about the keys it routes for: a key is served   *)
(* by at most one connection, a new connection of the key takes it over,   *)
(* and a connection that has lost its key never gets one again.            *)
(***************************************************************************)
CONSTANTS Keys, Conns, None

VARIABLES
    serving,    \* the connection each key is routed to, or None
    retired     \* connections that have had a key and lost it

Init ==
    /\ serving = [k \in Keys |-> None]
    /\ retired = {}

Served == {serving[k] : k \in Keys} \ {None}

TakeOver(k, c) ==
    /\ c \notin Served \cup retired
    /\ serving' = [serving EXCEPT ![k] = c]
    /\ retired' = retired \cup ({serving[k]} \ {None})

GiveUp(k) ==
    /\ serving[k] # None
    /\ serving' = [serving EXCEPT ![k] = None]
    /\ retired' = retired \cup {serving[k]}

Next == \E k \in Keys : GiveUp(k) \/ \E c \in Conns : TakeOver(k, c)

Spec == Init /\ [][Next]_<<serving, retired>>

=============================================================================
