------------------------------- MODULE GsoBatch -------------------------------
(***************************************************************************)
(* Batched datagrams of a worker and of the UDP reader (node/src/gso.rs).   *)
(* Outgoing datagrams of one size for one address are put together in one   *)
(* buffer that the kernel, or send_split when the kernel refuses, cuts up   *)
(* again; incoming ones fill reusable slots, several per call.              *)
(*                                                                         *)
(* A byte is the number of the datagram it came from, so that cutting the   *)
(* buffer in the wrong place shows.                                         *)
(***************************************************************************)
EXTENDS Naturals, Sequences, SequencesExt

CONSTANTS Dsts, Sizes,
          MaxBatchBytes,     \* MAX_BATCH_BYTES
          RecvBatch,         \* RECV_BATCH
          MaxSent, MaxArrivals,
          None

VARIABLES buf, seg, dst,     \* GsoBatch: bytes, segment size, address or None
          gso_ok, disabled,
          awake,             \* the worker is in a burst of messages
          made,              \* datagrams handed over so far: [dst, size]
          wire,              \* what left the socket: [dst, bytes]
          lost,              \* datagrams given up: a send failed, or the socket is gone
          queue, arrived,    \* datagrams in the socket, and how many ever came
          slots, count, next, \* RecvBatch, datagrams in it, the next to hand on
          got                \* datagrams the reader handed on

txVars == <<buf, seg, dst, gso_ok, disabled, awake, made, wire, lost>>
rxVars == <<queue, arrived, slots, count, next, got>>
gsoVars == <<txVars, rxVars>>

Datagram(i, size) == [k \in 1..size |-> i]

(* buf.chunks(seg), which is also what the kernel does with UDP_SEGMENT.    *)
Chunks(bytes, size) ==
    [k \in 1..((Len(bytes) + size - 1) \div size) |->
        SubSeq(bytes, (k - 1) * size + 1, IF k * size < Len(bytes) THEN k * size ELSE Len(bytes))]
Segments(to, bytes, size) ==
    LET cs == Chunks(bytes, size) IN [k \in 1..Len(cs) |-> [dst |-> to, bytes |-> cs[k]]]

GsoInit ==
    /\ buf = <<>> /\ seg = 0 /\ dst = None /\ gso_ok = TRUE /\ disabled \in BOOLEAN
    /\ awake = FALSE /\ made = <<>> /\ wire = <<>> /\ lost = {}
    /\ queue = <<>> /\ arrived = 0 /\ count = 0 /\ next = 1 /\ got = <<>>
    /\ slots = [k \in 1..RecvBatch |-> 0]

-----------------------------------------------------------------------------
\* The elements of s at the positions K, in their order.
At(s, K) ==
    LET ks == SelectSeq([k \in 1..Len(s) |-> k], LAMBDA k : k \in K)
    IN  [n \in 1..Len(ks) |-> s[ks[n]]]

(* send_to, of one datagram after the other: the outcomes, as [wire, ok,    *)
(* lost] after them.  A failure is ignored, and the next one is sent.       *)
send_to(f, ds) ==
    {[f EXCEPT !.wire = @ \o At(ds, DOMAIN ds \ bad),
               !.lost = @ \cup UNION {ToSet(ds[k].bytes) : k \in bad}] : bad \in SUBSET DOMAIN ds}

(* flush: one datagram is sent plainly; more by the kernel, or, once it has *)
(* refused, one by one.  If the socket is gone the batch is given up.       *)
send_split(f) == send_to(f, Segments(dst, buf, seg))
flushed ==
    LET f == [wire |-> wire, ok |-> gso_ok, lost |-> lost] IN
    IF buf = <<>> THEN {f}
    ELSE IF Len(buf) = seg THEN send_to(f, <<[dst |-> dst, bytes |-> buf]>>)
    ELSE send_split([f EXCEPT !.ok = FALSE])
         \cup IF ~gso_ok THEN {}
              ELSE {[f EXCEPT !.wire = @ \o Segments(dst, buf, seg)],
                    [f EXCEPT !.lost = @ \cup ToSet(buf)]}

Becomes(f) == wire' = f.wire /\ gso_ok' = f.ok /\ lost' = f.lost

(* push: flush what cannot be extended, then take the datagram.             *)
\* Mutant of Fits: a shorter datagram may follow, and more after it.
BugFits(to, size) == dst = to /\ (buf = <<>> \/ size <= seg) /\ Len(buf) + size <= MaxBatchBytes

Fits(to, size) == dst = to /\ (buf = <<>> \/ size = seg) /\ Len(buf) + size <= MaxBatchBytes

push(to, size) ==
    LET d == Datagram(Len(made) + 1, size) IN
    /\ Len(made) < MaxSent /\ made' = Append(made, [dst |-> to, size |-> size])
    /\ awake' = TRUE /\ UNCHANGED <<rxVars, disabled>>
    /\ \/ /\ disabled
          /\ \E f \in send_to([wire |-> wire, ok |-> gso_ok, lost |-> lost],
                             <<[dst |-> to, bytes |-> d]>>) : Becomes(f)
          /\ UNCHANGED <<buf, seg, dst>>
       \/ /\ ~disabled /\ buf # <<>> /\ Fits(to, size) /\ buf' = buf \o d
          /\ UNCHANGED <<seg, dst, gso_ok, wire, lost>>
       \/ /\ ~disabled /\ (buf # <<>> => ~Fits(to, size))
          /\ \E f \in flushed : Becomes(f)
          /\ buf' = d /\ seg' = size /\ dst' = to

(* A message that sends by itself, an init or an answer, flushes first.     *)
Direct(to, size) ==
    LET d == Datagram(Len(made) + 1, size) IN
    /\ Len(made) < MaxSent /\ made' = Append(made, [dst |-> to, size |-> size])
    /\ \E f \in flushed : \E g \in send_to(f, <<[dst |-> to, bytes |-> d]>>) : Becomes(g)
    /\ buf' = <<>> /\ seg' = 0 /\ dst' = None /\ awake' = TRUE /\ UNCHANGED <<rxVars, disabled>>

(* The burst is over: flush, then wait for the next message.                *)
flush ==
    /\ awake /\ awake' = FALSE /\ \E f \in flushed : Becomes(f)
    /\ buf' = <<>> /\ seg' = 0 /\ dst' = None /\ UNCHANGED <<rxVars, made, disabled>>

-----------------------------------------------------------------------------
Arrive ==
    /\ arrived < MaxArrivals /\ arrived' = arrived + 1 /\ queue' = Append(queue, arrived + 1)
    /\ UNCHANGED <<txVars, slots, count, next, got>>

(* recv: as many as are there and as there are slots (one if batching is    *)
(* off); the other slots keep what they had.                                *)
recv ==
    LET n == IF disabled THEN 1 ELSE IF Len(queue) < RecvBatch THEN Len(queue) ELSE RecvBatch IN
    /\ next > count /\ queue # <<>> /\ count' = n /\ next' = 1
    /\ slots' = [k \in 1..RecvBatch |-> IF k <= n THEN queue[k] ELSE slots[k]]
    /\ queue' = SubSeq(queue, n + 1, Len(queue)) /\ UNCHANGED <<txVars, arrived, got>>

\* Mutant of Left: every slot counts.
BugLeft == next <= RecvBatch /\ count > 0

Left == next <= count
get ==
    /\ Left /\ got' = Append(got, slots[next]) /\ next' = next + 1
    /\ UNCHANGED <<txVars, queue, arrived, slots, count>>

GsoNext ==
    \/ \E to \in Dsts, size \in Sizes : push(to, size) \/ Direct(to, size)
    \/ flush \/ Arrive \/ recv \/ get

GsoSpec == GsoInit /\ [][GsoNext]_gsoVars

-----------------------------------------------------------------------------
GsoTypeOK ==
    /\ Len(buf) <= MaxBatchBytes /\ dst \in Dsts \cup {None} /\ (buf = <<>>) = (dst = None)
    /\ gso_ok \in BOOLEAN /\ disabled \in BOOLEAN /\ awake \in BOOLEAN
    /\ next \in 1..(RecvBatch + 1) /\ count \in 0..RecvBatch

(* What leaves the socket is what was handed over, each datagram whole, to  *)
(* its own address and in order, whether the kernel segments or not, except *)
(* for those whose own send failed or that went with the socket (gso.rs:    *)
(* "same wire result").                                                     *)
SameWire ==
    wire \o (IF buf = <<>> THEN <<>> ELSE Segments(dst, buf, seg)) =
        At([i \in 1..Len(made) |-> [dst |-> made[i].dst, bytes |-> Datagram(i, made[i].size)]],
           1..Len(made) \ lost)

(* A worker that waits for messages has nothing unsent.                     *)
NothingHeldBack == ~awake => buf = <<>>

(* The reader hands on every datagram once and in order; a slot that the    *)
(* last call did not fill is not read again.                                *)
ReadOnce == got \o SubSeq(slots, next, count) \o queue = [i \in 1..arrived |-> i]
=============================================================================
