---------------------------- MODULE ReplayWindow ----------------------------
(***************************************************************************)
(* The replay filter of a session (fp-crypto-noise, session.rs): a bitmap  *)
(* of N_BITS received counters below the highest one, cleared a bit or a   *)
(* word at a time when the counter jumps ahead.                            *)
(***************************************************************************)
EXTENDS Integers

CONSTANTS WORD_SIZE, N_WORDS, MaxCounter

VARIABLES next, bitmap, received   \* received: every counter accepted so far (history)

vars == <<next, bitmap, received>>

N_BITS == WORD_SIZE * N_WORDS
\* Mutant of Bit: the index is not taken round the ring.
BugBit(c) == c
Bit(c) == c % N_BITS
Word(c) == Bit(c) \div WORD_SIZE
Bits(w) == {b \in 0..(N_BITS - 1) : b \div WORD_SIZE = w}

WillAccept(c) == c >= next \/ (c + N_BITS >= next /\ Bit(c) \notin bitmap)

\* Mutant of Cleared: whole words are cleared up to and over the new counter.
BugCleared(i, c) ==
    {Bit(k) : k \in i..(c - 1)} \cup UNION {Bits(Word(k)) : k \in i..c}

(* The bits that mark_did_receive clears for a jump from i to c: single bits up to
   a word boundary, whole words, single bits again. *)
Cleared(i, c) ==
    LET aligned[k \in Nat] == IF k % WORD_SIZE # 0 /\ k < c THEN aligned[k + 1] ELSE k
        words[k \in Nat] ==
            IF k + WORD_SIZE < c THEN words[((k + WORD_SIZE) \div WORD_SIZE) * WORD_SIZE] ELSE k
        a == aligned[i]
        b == words[a]
    IN  {Bit(k) : k \in i..(a - 1)} \cup {Bit(k) : k \in b..(c - 1)}
          \cup UNION {Bits(Word(k)) : k \in {x \in a..(b - 1) : (x - a) % WORD_SIZE = 0}}

ReplayTypeOK ==
    next \in 0..(MaxCounter + 1) /\ bitmap \subseteq 0..(N_BITS - 1) /\ received \subseteq 0..MaxCounter

Init == next = 0 /\ bitmap = {} /\ received = {}

(* receive_packet_data: the quick check, then the mark. *)
Receive(c) ==
    /\ WillAccept(c) /\ received' = received \cup {c}
    /\ IF c < next THEN bitmap' = bitmap \cup {Bit(c)} /\ UNCHANGED next
       ELSE /\ next' = c + 1
            /\ bitmap' = (IF c = next THEN bitmap
                          ELSE IF c - next >= N_BITS THEN {}
                          ELSE bitmap \ Cleared(next, c)) \cup {Bit(c)}

Next == \E c \in 0..MaxCounter : Receive(c)

Spec == Init /\ [][Next]_vars

-----------------------------------------------------------------------------
(* A counter is accepted exactly when it was never accepted before and lies no more
   than a window below the highest: the bitmap forgets nothing it must remember and
   refuses nothing that is new, whatever the jumps (session.rs, will_accept and
   mark_did_receive). *)
WindowExact ==
    \A c \in 0..MaxCounter : WillAccept(c) <=> c \notin received /\ c + N_BITS >= next
=============================================================================
