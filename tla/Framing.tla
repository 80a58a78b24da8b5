------------------------------- MODULE Framing -------------------------------
(***************************************************************************)
(* The relay's wire format on a byte stream.  Frames are written one after  *)
(* the other as type, length and body; the reader gets the bytes in pieces  *)
(* of any size.  On both sides one task reads and writes: whenever it has   *)
(* something to write, the read it was waiting for is dropped.  A unit of   *)
(* the model stands for the type byte, for the four bytes of the length,    *)
(* for a key, for a ping's eight bytes or for one byte of payload.          *)
(***************************************************************************)
EXTENDS Naturals, Sequences, SequencesExt

CONSTANTS Payload,           \* the values of a byte of payload
          MAX_PACKET_SIZE, MaxFrames

VARIABLES sent, queued,      \* frames written by the client; queued for it
          outq,              \* of those queued, the ones not written yet
          up, down,          \* bytes on their way
          buf, client_buf,   \* bytes read and not yet decoded
          routed, got        \* packets the relay routed; the client delivered

framingVars == <<sent, queued, outq, up, down, buf, client_buf, routed, got>>

T_SEND_PACKET == 3
T_RECV_PACKET == 4
T_PING == 5
T_PONG == 6
HEADER_LEN == 2
KEY_LEN == 1
PING_LEN == 1

Packets(type) == {[type |-> type, body |-> <<0>> \o p] : p \in BoundedSeq(Payload, MAX_PACKET_SIZE)}
Ping == [type |-> T_PING, body |-> <<0>>]
Pong == [type |-> T_PONG, body |-> <<0>>]
IsPacket(f) == f.type \in {T_SEND_PACKET, T_RECV_PACKET}

encode(f) == <<f.type, Len(f.body)>> \o f.body

(* decode: a frame and its length, more bytes needed, or a protocol error.  *)
Short == [is |-> "short"]
Bad == [is |-> "bad"]

Whole(b) == Len(b) >= HEADER_LEN + b[2]

WellFormed(type, body) ==
    CASE type \in {T_SEND_PACKET, T_RECV_PACKET} ->
             Len(body) >= KEY_LEN /\ Len(body) - KEY_LEN <= MAX_PACKET_SIZE
      [] type \in {T_PING, T_PONG} -> Len(body) = PING_LEN
      [] OTHER -> FALSE

decode(b) ==
    IF Len(b) < HEADER_LEN THEN Short
    ELSE IF b[2] > MAX_PACKET_SIZE + KEY_LEN THEN Bad
    ELSE IF ~Whole(b) THEN Short
    ELSE LET body == SubSeq(b, HEADER_LEN + 1, HEADER_LEN + b[2]) IN
         IF WellFormed(b[1], body)
         THEN [is |-> "frame", frame |-> [type |-> b[1], body |-> body], used |-> HEADER_LEN + b[2]]
         ELSE Bad
Rest(b) == SubSeq(b, decode(b).used + 1, Len(b))

FramingInit ==
    /\ sent = <<>> /\ queued = <<>> /\ outq = <<>> /\ up = <<>> /\ down = <<>>
    /\ buf = <<>> /\ client_buf = <<>> /\ routed = <<>> /\ got = <<>>

(* The read a task was waiting for is dropped when it writes: what had been *)
(* read before is in the task's buffer, not in the read.                    *)
\* Mutant of Cancelled: bytes gathered for the next frame go with the read.
BugCancelled(b) == <<>>

Cancelled(b) == b

-----------------------------------------------------------------------------
(* connect_relay's task: a keepalive or a packet of the node's.             *)
ClientWrite(f) ==
    /\ Len(sent) < MaxFrames /\ sent' = Append(sent, f) /\ up' = up \o encode(f)
    /\ decode(client_buf).is # "frame" /\ client_buf' = Cancelled(client_buf)
    /\ UNCHANGED <<queued, outq, down, buf, routed, got>>

(* Its reads: every complete frame at once, packets delivered, the rest     *)
(* ignored; an error is taken for an incomplete frame.                      *)
ClientRead(n) ==
    /\ decode(client_buf).is # "frame" /\ n \in 1..Len(down)
    /\ client_buf' = client_buf \o SubSeq(down, 1, n) /\ down' = SubSeq(down, n + 1, Len(down))
    /\ UNCHANGED <<sent, queued, outq, up, buf, routed, got>>
ClientFrame ==
    LET d == decode(client_buf) IN
    /\ d.is = "frame" /\ client_buf' = Rest(client_buf)
    /\ got' = IF d.frame.type = T_RECV_PACKET THEN Append(got, d.frame) ELSE got
    /\ UNCHANGED <<sent, queued, outq, up, down, buf, routed>>

-----------------------------------------------------------------------------
(* Another session's packet for this client.                                *)
Enqueue(f) ==
    /\ Len(queued) < MaxFrames
    /\ queued' = Append(queued, f) /\ outq' = Append(outq, f)
    /\ UNCHANGED <<sent, up, down, buf, client_buf, routed, got>>

(* FrameReader::next_frame, and handle_inbound on what it returns.          *)
next_frame(n) ==
    /\ decode(buf).is = "short" /\ n \in 1..Len(up)
    /\ buf' = buf \o SubSeq(up, 1, n) /\ up' = SubSeq(up, n + 1, Len(up))
    /\ UNCHANGED <<sent, queued, outq, down, client_buf, routed, got>>
handle_inbound ==
    LET d == decode(buf) IN
    /\ d.is = "frame" /\ buf' = Rest(buf)
    /\ routed' = IF d.frame.type = T_SEND_PACKET THEN Append(routed, d.frame) ELSE routed
    /\ outq' = IF d.frame.type = T_PING THEN Append(outq, Pong) ELSE outq
    /\ UNCHANGED <<sent, queued, up, down, client_buf, got>>

(* The session's loop writes a frame; the call to next_frame is dropped.    *)
ServerWrite ==
    /\ outq # <<>> /\ outq' = Tail(outq) /\ down' = down \o encode(Head(outq))
    /\ decode(buf).is = "short" /\ buf' = Cancelled(buf)
    /\ UNCHANGED <<sent, queued, up, client_buf, routed, got>>

FramingNext ==
    \/ \E f \in Packets(T_SEND_PACKET) \cup {Ping} : ClientWrite(f)
    \/ \E f \in Packets(T_RECV_PACKET) : Enqueue(f)
    \/ \E n \in 1..Len(down) : ClientRead(n)
    \/ \E n \in 1..Len(up) : next_frame(n)
    \/ ClientFrame \/ handle_inbound \/ ServerWrite

FramingSpec == FramingInit /\ [][FramingNext]_framingVars

-----------------------------------------------------------------------------
FramingTypeOK ==
    /\ sent \in Seq(Packets(T_SEND_PACKET) \cup {Ping}) /\ queued \in Seq(Packets(T_RECV_PACKET))
    /\ up \in Seq(Nat) /\ down \in Seq(Nat) /\ buf \in Seq(Nat) /\ client_buf \in Seq(Nat)

(* However the bytes are cut into reads, and whichever reads are dropped    *)
(* half way through a frame, the packets that come out are those that went  *)
(* in, in order, in both directions; no reader takes the stream for         *)
(* malformed; and when a reader has all the bytes, it has all the frames.   *)
FramesIntact ==
    /\ IsPrefix(routed, SelectSeq(sent, IsPacket)) /\ IsPrefix(got, queued)
    /\ decode(buf).is # "bad" /\ decode(client_buf).is # "bad"
    /\ up = <<>> /\ decode(buf).is = "short" => buf = <<>> /\ routed = SelectSeq(sent, IsPacket)
    /\ outq = <<>> /\ down = <<>> /\ decode(client_buf).is = "short" => client_buf = <<>> /\ got = queued
=============================================================================
