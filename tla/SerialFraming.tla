---------------------------- MODULE SerialFraming ----------------------------
(***************************************************************************)
(* Framing on the serial line between host and router: a frame is a node   *)
(* id and a packet, the packet a magic number of two bytes, a command, a   *)
(* length and that many bytes of payload.  Both ends write frames alike    *)
(* (send_packet and encode on the host, serial_bridge_emit on the router)  *)
(* and read them with a parser of their own: command_parser_feed on the    *)
(* router, _process_buffer on the host.                                    *)
(*                                                                         *)
(* The line has neither flow control nor checksum.  Bytes are lost when a  *)
(* receive buffer overflows, and noise comes between frames, as the boot   *)
(* messages of the router do.  What is put on the line here is read by     *)
(* both parsers, so that they can be compared on the same bytes.           *)
(*                                                                         *)
(* The model is scaled down: BYTE values for 256, MAX_PACKET for           *)
(* KLIP_MAX_PACKET_SIZE.  A frame's command is its number, so that every   *)
(* frame is another one.                                                   *)
(***************************************************************************)
EXTENDS Naturals, Sequences, SequencesExt

CONSTANTS
    BYTE,           \* the values of a byte
    MAGIC_LO, MAGIC_HI,
    Ids,            \* the node ids that are written to
    Payloads,       \* the payloads
    Noise,          \* the bytes that come between frames
    MAX_PACKET,     \* the size of rx_buffer
    MAX_LINE,       \* the bound of the bytes on the way,
    MAX_FRAMES,     \* of the frames sent,
    MAX_NOISE,      \* of the bytes of noise,
    MAX_LOST,       \* and of the losses,
    LOSSY,          \* which happen among the first LOSSY frames
    RESYNC          \* the frames a loss may damage

ASSUME FramingAssumption ==
    /\ BYTE \in Nat
    /\ {MAGIC_LO, MAGIC_HI} \cup Ids \cup Noise \subseteq 0..(BYTE - 1)
    /\ \A p \in Payloads : p \in Seq(0..(BYTE - 1)) /\ Len(p) < BYTE
    /\ {MAGIC_LO, MAGIC_HI} \cap (1..MAX_FRAMES) = {}
    /\ MAX_FRAMES < BYTE
    /\ {MAX_PACKET, MAX_LINE, MAX_FRAMES, MAX_NOISE, MAX_LOST, LOSSY, RESYNC}
          \subseteq Nat

VARIABLES
    sent,       \* the frames sent
    line,       \* the bytes on the way
    noise,      \* the bytes of noise so far
    lost,       \* the losses so far
    fresh,      \* the frames sent since the last loss
    rx,         \* the parser of the router: rx_node_id, rx_buffer,
    data,       \* what it was given to parse and has not reached yet,
    dispatched, \* the frames it passed on
    buffer,     \* the parser of the host: self._buffer
    delivered   \* the frames it passed on

vars == <<sent, line, noise, lost, fresh, rx, data, dispatched, buffer, delivered>>

HEADER == 4

\* Every payload fits into rx_buffer, whose size fits into a byte.
ASSUME PayloadsFit ==
    /\ HEADER <= MAX_PACKET /\ MAX_PACKET < BYTE
    /\ \A p \in Payloads : HEADER + Len(p) <= MAX_PACKET

\* Noise does not look like the magic number, nor does what comes before an id
\* with it.
ASSUME NoFalseMagic ==
    /\ MAGIC_LO # MAGIC_HI
    /\ MAGIC_HI \notin Ids
    /\ MAGIC_LO \in Noise => MAGIC_HI \notin Noise

\* RESYNC frames are longer than what a parser takes at once, be it damaged: the
\* host a frame of any length, the router, which may take the next frame's node id
\* for a part of it besides, what fits into rx_buffer.
ASSUME EnoughFrames ==
    /\ BYTE + HEADER - 1 <= (HEADER + 1) * RESYNC
    /\ MAX_PACKET + 1 <= (HEADER + 1) * (RESYNC - 1)

Byte == 0..(BYTE - 1)

\* rx_node_id when rx_have_nid is false
NoId == BYTE

\* klip_packet_t
Packet(cmd, payload) == <<MAGIC_LO, MAGIC_HI, cmd, Len(payload)>> \o payload
Frame == [id : Byte, packet : Seq(Byte)]

\* The types of the variables; what the router holds fits into rx_buffer.
TypeOK ==
    /\ sent \in Seq(Frame) /\ dispatched \in Seq(Frame) /\ delivered \in Seq(Frame)
    /\ line \in Seq(Byte) /\ data \in Seq(Byte) /\ buffer \in Seq(Byte)
    /\ noise \in 0..MAX_NOISE
    /\ lost \in 0..MAX_LOST
    /\ fresh \in 0..MAX_FRAMES
    /\ rx.id \in Byte \cup {NoId}
    /\ rx.buf \in Seq(Byte) /\ Len(rx.buf) <= MAX_PACKET
    /\ \A i \in DOMAIN dispatched : Len(dispatched[i].packet) <= MAX_PACKET

Init ==
    /\ sent = <<>>
    /\ line = <<>>
    /\ noise = 0
    /\ lost = 0
    /\ fresh = 0
    /\ rx = [id |-> NoId, buf |-> <<>>]
    /\ data = <<>>
    /\ dispatched = <<>>
    /\ buffer = <<>>
    /\ delivered = <<>>

-----------------------------------------------------------------------------
(***************************************************************************)
(* The router's parser, one byte at a time.  A state of it is the node id, *)
(* the buffer and the frames passed on so far.                             *)
(***************************************************************************)
Cleared(s) == [s EXCEPT !.id = NoId, !.buf = <<>>]

HasMagic(buf) == buf[1] = MAGIC_LO /\ buf[2] = MAGIC_HI

\* uint8_t total_len
TotalLen(buf) == (HEADER + buf[4]) % BYTE

\* Mutants of Buffered: a bad magic number clears the buffer, a frame that is
\* passed on leaves the node id.
BufferedCleared(s, buf) ==
    IF Len(buf) < HEADER THEN [s EXCEPT !.buf = buf]
    ELSE IF ~HasMagic(buf) THEN [s EXCEPT !.buf = <<>>]
    ELSE IF Len(buf) < TotalLen(buf) THEN [s EXCEPT !.buf = buf]
    ELSE [Cleared(s) EXCEPT
             !.out = Append(@, [id |-> s.id, packet |-> SubSeq(buf, 1, TotalLen(buf))])]
BufferedKeepingId(s, buf) ==
    IF Len(buf) < HEADER THEN [s EXCEPT !.buf = buf]
    ELSE IF ~HasMagic(buf) THEN [s EXCEPT !.buf = Tail(buf)]
    ELSE IF Len(buf) < TotalLen(buf) THEN [s EXCEPT !.buf = buf]
    ELSE [s EXCEPT
             !.buf = <<>>,
             !.out = Append(@, [id |-> s.id, packet |-> SubSeq(buf, 1, TotalLen(buf))])]

\* A byte was added to the buffer.
Buffered(s, buf) ==
    IF Len(buf) < HEADER THEN [s EXCEPT !.buf = buf]
    ELSE IF ~HasMagic(buf) THEN [s EXCEPT !.buf = Tail(buf)]
    ELSE IF Len(buf) < TotalLen(buf) THEN [s EXCEPT !.buf = buf]
    ELSE [Cleared(s) EXCEPT
             !.out = Append(@, [id |-> s.id, packet |-> SubSeq(buf, 1, TotalLen(buf))])]

\* Mutant of Feed: the buffer is not checked for an overflow.
FeedUnchecked(s, byte) ==
    IF s.id = NoId THEN [s EXCEPT !.id = byte, !.buf = <<>>]
    ELSE Buffered(s, Append(s.buf, byte))

Feed(s, byte) ==
    IF s.id = NoId THEN [s EXCEPT !.id = byte, !.buf = <<>>]
    ELSE IF Len(s.buf) >= MAX_PACKET THEN Cleared(s)
    ELSE Buffered(s, Append(s.buf, byte))

\* One turn of the loop.
command_parser_feed ==
    /\ data # <<>>
    /\ LET s == Feed([id |-> rx.id, buf |-> rx.buf, out |-> dispatched], Head(data))
       IN  /\ rx' = [id |-> s.id, buf |-> s.buf]
           /\ dispatched' = s.out
    /\ data' = Tail(data)
    /\ UNCHANGED <<sent, line, noise, lost, fresh, buffer, delivered>>

-----------------------------------------------------------------------------
(***************************************************************************)
(* The host's parser: the turns of the loop of _process_buffer.            *)
(***************************************************************************)
\* Where the frame at the head of the buffer ends.
FrameLen == HEADER + 1 + buffer[5]

Discards == Len(buffer) > HEADER /\ ~HasMagic(Tail(buffer))
Delivers == Len(buffer) > HEADER /\ HasMagic(Tail(buffer)) /\ Len(buffer) >= FrameLen

\* The loop ended, and poll with it.
HostIdle == ~Discards /\ ~Delivers

\* Mutant of Unframed: the whole header is discarded.
UnframedHeader(buf) == SubSeq(buf, HEADER + 2, Len(buf))

\* What is left when the first byte is discarded.
Unframed(buf) == Tail(buf)

Discard ==
    /\ Discards
    /\ buffer' = Unframed(buffer)
    /\ UNCHANGED <<sent, line, noise, lost, fresh, rx, data, dispatched, delivered>>

Deliver ==
    /\ Delivers
    /\ delivered' = Append(delivered, [id |-> buffer[1], packet |-> SubSeq(buffer, 2, FrameLen)])
    /\ buffer' = SubSeq(buffer, FrameLen + 1, Len(buffer))
    /\ UNCHANGED <<sent, line, noise, lost, fresh, rx, data, dispatched>>

-----------------------------------------------------------------------------
\* send_packet, serial_bridge_emit
Send(id, payload) ==
    /\ Len(sent) < MAX_FRAMES
    /\ LET packet == Packet(Len(sent) + 1, payload)
       IN  /\ Len(line) + 1 + Len(packet) <= MAX_LINE
           /\ sent' = Append(sent, [id |-> id, packet |-> packet])
           /\ line' = line \o <<id>> \o packet
    /\ fresh' = fresh + 1
    /\ UNCHANGED <<noise, lost, rx, data, dispatched, buffer, delivered>>

\* Both ends have parsed what they read before and read the first n bytes on
\* the line: rx_task into a buffer of its own, poll into self._buffer.
Read(n) ==
    /\ data = <<>>
    /\ HostIdle
    /\ data' = SubSeq(line, 1, n)
    /\ buffer' = buffer \o SubSeq(line, 1, n)
    /\ line' = SubSeq(line, n + 1, Len(line))
    /\ UNCHANGED <<sent, noise, lost, fresh, rx, dispatched, delivered>>

\* Noise comes after a frame, before the next one.  (A behaviour has noise or
\* losses: no property is about both.)
AddNoise(b) ==
    /\ noise < MAX_NOISE
    /\ Len(line) < MAX_LINE
    /\ lost = 0
    /\ noise' = noise + 1
    /\ line' = Append(line, b)
    /\ UNCHANGED <<sent, lost, fresh, rx, data, dispatched, buffer, delivered>>

\* Bytes first..last of the line are lost.
Lose(first, last) ==
    /\ lost < MAX_LOST
    /\ noise = 0
    /\ Len(sent) <= LOSSY
    /\ lost' = lost + 1
    /\ fresh' = 0
    /\ line' = SubSeq(line, 1, first - 1) \o SubSeq(line, last + 1, Len(line))
    /\ UNCHANGED <<sent, noise, rx, data, dispatched, buffer, delivered>>

Next ==
    \/ \E id \in Ids, p \in Payloads : Send(id, p)
    \/ \E n \in 1..Len(line) : Read(n)
    \/ command_parser_feed
    \/ Discard \/ Deliver
    \/ \E b \in Noise : AddNoise(b)
    \/ \E first \in DOMAIN line, last \in DOMAIN line : first <= last /\ Lose(first, last)

Spec == Init /\ [][Next]_vars

-----------------------------------------------------------------------------
(***************************************************************************)
(* Properties.                                                             *)
(***************************************************************************)
Packets(frames) == [i \in DOMAIN frames |-> frames[i].packet]

\* Whatever noise comes between frames, the host delivers every frame, in
\* order, under its node id, as soon as it was read (_process_buffer).
HostExact ==
    lost = 0 => /\ IsPrefix(delivered, sent)
                /\ line = <<>> /\ HostIdle => delivered = sent

\* Whatever noise comes between frames, the router passes on every packet, in
\* order, as soon as it was read - if not to which node (command_parser_feed).
RouterKeepsPackets ==
    lost = 0 => /\ IsPrefix(Packets(dispatched), Packets(sent))
                /\ line = <<>> /\ data = <<>> => Packets(dispatched) = Packets(sent)

\* A loss damages a bounded number of frames: a frame that is preceded by
\* enough whole ones is passed on by both parsers, by the router to the right
\* node - unless a packet holds the magic number elsewhere than at its head: then
\* each may take the inside of a frame for a frame, time and again.
Resynchronised(frames) == frames # <<>> /\ Last(frames) = Last(sent)

Unmistakable(packet) ==
    \A i \in 2..(Len(packet) - 1) : ~HasMagic(SubSeq(packet, i, i + 1))

Resync ==
    line = <<>> /\ data = <<>> /\ HostIdle /\ lost > 0 /\ fresh > RESYNC
      /\ (\A i \in DOMAIN sent : Unmistakable(sent[i].packet))
    => Resynchronised(delivered) /\ Resynchronised(dispatched)
=============================================================================
