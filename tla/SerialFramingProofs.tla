------------------------ MODULE SerialFramingProofs ------------------------
(***************************************************************************)
(* Proofs about SerialFraming, for any bytes, payloads and bounds: the     *)
(* parser of the router stays within its buffer, without losses both       *)
(* parsers pass on what was sent, whatever noise comes between frames, and *)
(* after a loss both are in step again once RESYNC whole frames came.      *)
(***************************************************************************)
EXTENDS SerialFraming, SequenceTheorems, TLAPS

-----------------------------------------------------------------------------
(***************************************************************************)
(* Constants and frames.                                                   *)
(***************************************************************************)

\* What is assumed of the constants, one by one.
LEMMA ConstantTypes ==
    /\ BYTE \in Nat \ {0}
    /\ MAGIC_LO \in Byte /\ MAGIC_HI \in Byte
    /\ Ids \subseteq Byte /\ Noise \subseteq Byte
    /\ MAX_PACKET \in Nat /\ MAX_LINE \in Nat /\ MAX_FRAMES \in Nat
    /\ MAX_NOISE \in Nat /\ MAX_LOST \in Nat
    /\ MAX_FRAMES < BYTE
<1>1. BYTE \in Nat /\ MAGIC_LO \in 0..(BYTE - 1)
  BY FramingAssumption
<1> QED
  BY <1>1, FramingAssumption DEF Byte

\* The frames that are sent: a node id that is written to and a packet.
Sendable ==
    {f \in [id : Ids, packet : Seq(Byte)] :
        /\ HEADER <= Len(f.packet) /\ Len(f.packet) <= MAX_PACKET
        /\ HasMagic(f.packet)
        /\ f.packet[4] = Len(f.packet) - HEADER}

Size(f) == Len(f.packet)

LEMMA SendableFacts ==
    ASSUME NEW f \in Sendable
    PROVE  /\ f \in Frame
           /\ f.id \in Ids
           /\ f.packet \in Seq(Byte)
           /\ Size(f) \in Nat /\ Size(f) >= 4 /\ Size(f) <= MAX_PACKET
           /\ Len(f.packet) = Size(f)
           /\ f.packet[1] = MAGIC_LO /\ f.packet[2] = MAGIC_HI
           /\ f.packet[4] = Size(f) - 4
<1>1. Ids \subseteq Byte
  BY ConstantTypes
<1> QED
  BY <1>1 DEF Sendable, Frame, HasMagic, HEADER, Size

LEMMA PacketSendable ==
    ASSUME NEW id \in Ids, NEW p \in Payloads, NEW n \in Nat, n < MAX_FRAMES
    PROVE  [id |-> id, packet |-> Packet(n + 1, p)] \in Sendable
<1> DEFINE h == <<MAGIC_LO, MAGIC_HI, n + 1, Len(p)>>
<1>1. /\ p \in Seq(Byte) /\ Len(p) \in Nat /\ Len(p) < BYTE
      /\ HEADER + Len(p) <= MAX_PACKET
  BY FramingAssumption, PayloadsFit DEF Byte
<1>2. n + 1 \in Byte /\ Len(p) \in Byte
  BY <1>1, ConstantTypes DEF Byte
<1>3. /\ h \in Seq(Byte) /\ Len(h) = 4
      /\ h[1] = MAGIC_LO /\ h[2] = MAGIC_HI /\ h[4] = Len(p)
  BY <1>2, ConstantTypes
<1>4. Packet(n + 1, p) = h \o p
  BY DEF Packet
<1> HIDE DEF h
<1>5. /\ h \o p \in Seq(Byte) /\ Len(h \o p) = 4 + Len(p)
      /\ (h \o p)[1] = h[1] /\ (h \o p)[2] = h[2] /\ (h \o p)[4] = h[4]
  <2>1. /\ h \o p \in Seq(Byte) /\ Len(h \o p) = Len(h) + Len(p)
        /\ \A i \in 1..(Len(h) + Len(p)) : (h \o p)[i] =
                       IF i <= Len(h) THEN h[i] ELSE p[i - Len(h)]
    BY <1>1, <1>3, ConcatProperties
  <2> QED
    BY <1>1, <1>3, <2>1
<1> DEFINE q == h \o p
<1>6. /\ q \in Seq(Byte) /\ Len(q) = 4 + Len(p)
      /\ q[1] = MAGIC_LO /\ q[2] = MAGIC_HI /\ q[4] = Len(p)
  BY <1>3, <1>5
<1>7. Packet(n + 1, p) = q
  BY <1>4
<1> HIDE DEF q
<1>8. [id |-> id, packet |-> q] \in Sendable
  BY <1>1, <1>6 DEF Sendable, HasMagic, HEADER
<1> QED
  BY <1>7, <1>8

-----------------------------------------------------------------------------
(***************************************************************************)
(* What lies on a stretch of the line: S, from the first byte a parser     *)
(* still holds to the last on the way.  Its bytes are counted from the     *)
(* first byte of all: the first of S is byte off + 1.                      *)
(***************************************************************************)
FrameByte(f, i) == IF i = 0 THEN f.id ELSE f.packet[i]

\* The k-th frame takes the bytes from at[k] to this one.
End(frames, at, k) == at[k] + Size(frames[k])

\* The frames from the (m+1)-th on lie in S, in order and apart, and all else is
\* noise, whatever the first byte of S is and, when `from' is 2, also if it is
\* taken for the node id of the first frame.
Placed(S, off, frames, m, at, from) ==
    LET todo == (m + 1)..Len(frames)
    IN  /\ off \in Nat
        /\ \A k \in todo :
              /\ at[k] \in Nat /\ off < at[k]
              /\ End(frames, at, k) \in Nat /\ End(frames, at, k) <= off + Len(S)
              /\ \A p \in at[k]..End(frames, at, k) :
                    p >= off + from => S[p - off] = FrameByte(frames[k], p - at[k])
        /\ \A j, k \in todo : j < k => End(frames, at, j) < at[k]
        /\ \A p \in (off + 2)..(off + Len(S)) :
              \/ S[p - off] \in Noise
              \/ \E k \in todo : p \in at[k]..End(frames, at, k)

\* T is what is left of S when the bytes up to off2 are taken - all but the very
\* first byte of S, when `from' is 2.
Taken(S, off, T, off2, from) ==
    /\ Len(S) \in Nat /\ Len(T) \in Nat
    /\ off2 \in Nat /\ off <= off2
    /\ off2 + Len(T) = off + Len(S)
    /\ \A p \in (off2 + from)..(off2 + Len(T)) : T[p - off2] = S[p - off]

\* Of the frames from the (m+1)-th on, those before the (n+1)-th lie within the
\* bytes up to off2, and the others behind them.
Parted(frames, at, m, n, off2) ==
    /\ m \in Nat /\ n \in Nat /\ m <= n
    /\ \A k \in (n + 1)..Len(frames) : off2 < at[k]
    /\ \A k \in (m + 1)..Len(frames) : k <= n => End(frames, at, k) <= off2 + 1

\* The frames stay where they are when bytes are taken from the head of the
\* stretch, and the frames before the (n+1)-th with them.
LEMMA PlacedTaken ==
    ASSUME NEW frames, Len(frames) \in Nat, NEW S, NEW T, NEW off, NEW off2,
           NEW m, NEW n, NEW at, NEW from \in {1, 2},
           Placed(S, off, frames, m, at, from),
           Taken(S, off, T, off2, from),
           Parted(frames, at, m, n, off2)
    PROVE  Placed(T, off2, frames, n, at, from)
<1>a. m \in Nat /\ n \in Nat /\ m <= n
  BY DEF Parted
<1>0. /\ off \in Nat /\ off2 \in Nat /\ Len(S) \in Nat /\ Len(T) \in Nat /\ off <= off2
      /\ off2 + Len(T) = off + Len(S)
  BY DEF Placed, Taken
<1>1. ASSUME NEW k \in (n + 1)..Len(frames)
      PROVE  k \in (m + 1)..Len(frames)
  BY <1>a
<1>2. ASSUME NEW k \in (n + 1)..Len(frames)
      PROVE  /\ at[k] \in Nat /\ off2 < at[k]
             /\ End(frames, at, k) \in Nat /\ End(frames, at, k) <= off2 + Len(T)
             /\ \A p \in at[k]..End(frames, at, k) :
                   p >= off2 + from => T[p - off2] = FrameByte(frames[k], p - at[k])
  <2>1. k \in (m + 1)..Len(frames)
    BY <1>1
  <2>2. /\ at[k] \in Nat /\ End(frames, at, k) \in Nat
        /\ End(frames, at, k) <= off2 + Len(T)
    <3>1. /\ at[k] \in Nat /\ End(frames, at, k) \in Nat
          /\ End(frames, at, k) <= off + Len(S)
      BY <2>1 DEF Placed
    <3> QED
      BY <1>0, <3>1
  <2>4. off2 < at[k]
    BY DEF Parted
  <2>3. ASSUME NEW p \in at[k]..End(frames, at, k), p >= off2 + from
        PROVE  T[p - off2] = FrameByte(frames[k], p - at[k])
    <3>1. p \in (off2 + from)..(off2 + Len(T)) /\ p >= off + from
      BY <1>0, <2>2, <2>3
    <3>2. T[p - off2] = S[p - off]
      BY <3>1 DEF Taken
    <3>3. S[p - off] = FrameByte(frames[k], p - at[k])
      BY <2>1, <3>1 DEF Placed
    <3> QED
      BY <3>2, <3>3
  <2> QED
    BY <2>2, <2>3, <2>4
<1>3. ASSUME NEW j \in (n + 1)..Len(frames), NEW k \in (n + 1)..Len(frames), j < k
      PROVE  End(frames, at, j) < at[k]
  BY <1>1, <1>3 DEF Placed
<1>4. ASSUME NEW p \in (off2 + 2)..(off2 + Len(T))
      PROVE  \/ T[p - off2] \in Noise
             \/ \E k \in (n + 1)..Len(frames) : p \in at[k]..End(frames, at, k)
  <2>1. /\ p \in (off + 2)..(off + Len(S)) /\ p \in (off2 + from)..(off2 + Len(T))
        /\ p > off2 + 1 /\ p \in Nat
    BY <1>0
  <2>2. T[p - off2] = S[p - off]
    BY <2>1 DEF Taken
  <2>3. CASE S[p - off] \in Noise
    BY <2>2, <2>3
  <2>4. ASSUME NEW k \in (m + 1)..Len(frames), p \in at[k]..End(frames, at, k)
        PROVE  k \in (n + 1)..Len(frames)
    <3>1. End(frames, at, k) \in Nat /\ p <= End(frames, at, k)
      BY <2>4 DEF Placed
    <3>2. k <= n => End(frames, at, k) <= off2 + 1
      BY DEF Parted
    <3>3. ~(k <= n)
      BY <1>0, <2>1, <3>1, <3>2
    <3> QED
      BY <1>a, <3>3
  <2> QED
    BY <2>1, <2>3, <2>4 DEF Placed
<1> QED
  BY <1>0, <1>2, <1>3, <1>4 DEF Placed

\* Noise that is added to the line is noise of the stretch.
LEMMA PlacedNoise ==
    ASSUME NEW frames, Len(frames) \in Nat, NEW S, NEW T, NEW off,
           NEW m \in Nat, NEW at, NEW from \in {1, 2},
           Placed(S, off, frames, m, at, from),
           Len(S) \in Nat, Len(T) = Len(S) + 1,
           \A i \in 1..Len(S) : T[i] = S[i], T[Len(S) + 1] \in Noise
    PROVE  Placed(T, off, frames, m, at, from)
<1>0. off \in Nat
  BY DEF Placed
<1>1. ASSUME NEW p \in (off + 1)..(off + Len(S))
      PROVE  T[p - off] = S[p - off]
  <2>1. p - off \in 1..Len(S)
    BY <1>0
  <2> QED
    BY <2>1
<1>2. ASSUME NEW k \in (m + 1)..Len(frames)
      PROVE  /\ at[k] \in Nat /\ off < at[k]
             /\ End(frames, at, k) \in Nat /\ End(frames, at, k) <= off + Len(T)
             /\ \A p \in at[k]..End(frames, at, k) :
                   p >= off + from => T[p - off] = FrameByte(frames[k], p - at[k])
  <2>1. /\ at[k] \in Nat /\ off < at[k] /\ End(frames, at, k) \in Nat
        /\ End(frames, at, k) <= off + Len(S)
    BY DEF Placed
  <2>2. ASSUME NEW p \in at[k]..End(frames, at, k), p >= off + from
        PROVE  T[p - off] = FrameByte(frames[k], p - at[k])
    <3>1. p \in (off + 1)..(off + Len(S))
      BY <1>0, <2>1
    <3>2. S[p - off] = FrameByte(frames[k], p - at[k])
      BY <2>2 DEF Placed
    <3> QED
      BY <1>1, <3>1, <3>2
  <2>3. End(frames, at, k) <= off + Len(T)
    BY <1>0, <2>1
  <2> QED
    BY <2>1, <2>2, <2>3
<1>3. ASSUME NEW p \in (off + 2)..(off + Len(T))
      PROVE  \/ T[p - off] \in Noise
             \/ \E k \in (m + 1)..Len(frames) : p \in at[k]..End(frames, at, k)
  <2>1. CASE p = off + (Len(S) + 1)
    <3>1. p - off = Len(S) + 1
      BY <1>0, <2>1
    <3> QED
      BY <3>1
  <2>2. CASE p # off + (Len(S) + 1)
    <3>1. p \in (off + 2)..(off + Len(S)) /\ p \in (off + 1)..(off + Len(S))
      BY <1>0, <2>2
    <3> QED
      BY <1>1, <3>1 DEF Placed
  <2> QED
    BY <2>1, <2>2
<1> QED
  BY <1>0, <1>2, <1>3 DEF Placed

\* T is S with the bytes of a frame behind it.
Written(S, T, f) ==
    /\ Len(S) \in Nat /\ Size(f) \in Nat
    /\ Len(T) = Len(S) + 1 + Size(f)
    /\ \A i \in 1..Len(S) : T[i] = S[i]
    /\ \A i \in 0..Size(f) : T[Len(S) + 1 + i] = FrameByte(f, i)

LEMMA WrittenBytes ==
    ASSUME NEW S, NEW T, NEW f, Written(S, T, f)
    PROVE  \A i \in 1..Len(S) : T[i] = S[i]
BY DEF Written

LEMMA PlacedByte ==
    ASSUME NEW frames, NEW S, NEW off, NEW m, NEW at, NEW from,
           Placed(S, off, frames, m, at, from), NEW k \in (m + 1)..Len(frames),
           NEW p \in at[k]..End(frames, at, k), p >= off + from
    PROVE  S[p - off] = FrameByte(frames[k], p - at[k])
BY DEF Placed

\* A frame that is sent lies behind all that was on the line.
LEMMA PlacedSent ==
    ASSUME NEW frames, Len(frames) \in Nat, NEW S, NEW T, NEW off,
           NEW m \in Nat, m <= Len(frames), NEW at, NEW from \in {1, 2},
           Placed(S, off, frames, m, at, from),
           NEW f, Written(S, T, f),
           NEW more, Len(more) = Len(frames) + 1,
           \A k \in 1..Len(frames) : more[k] = frames[k],
           more[Len(frames) + 1] = f
    PROVE  \E to : Placed(T, off, more, m, to, from)
<1>a. PICK to : to = [k \in (m + 1)..Len(more) |->
                         IF k <= Len(frames) THEN at[k] ELSE off + Len(S) + 1]
  OBVIOUS
<1>0. /\ off \in Nat /\ Len(S) \in Nat /\ Len(T) \in Nat
      /\ Size(f) \in Nat
      /\ Len(S) + 1 <= Len(T) /\ off + Len(S) + 1 + Size(f) = off + Len(T)
  <2>1. off \in Nat
    BY DEF Placed
  <2>2. /\ Len(S) \in Nat /\ Size(f) \in Nat
        /\ Len(T) = Len(S) + 1 + Size(f)
    BY DEF Written
  <2> QED
    BY <2>1, <2>2
<1>1. ASSUME NEW k \in (m + 1)..Len(frames)
      PROVE  /\ k \in (m + 1)..Len(more)
             /\ to[k] = at[k] /\ more[k] = frames[k]
             /\ End(more, to, k) = End(frames, at, k)
             /\ at[k] \in Nat /\ off < at[k] /\ End(frames, at, k) \in Nat
             /\ End(frames, at, k) <= off + Len(S)
  <2>1. k \in (m + 1)..Len(more) /\ k <= Len(frames) /\ k \in 1..Len(frames)
    OBVIOUS
  <2>2. to[k] = at[k]
    BY <1>a, <2>1
  <2>3. more[k] = frames[k]
    BY <2>1
  <2>4. End(more, to, k) = End(frames, at, k)
    BY <2>2, <2>3 DEF End
  <2>5. /\ at[k] \in Nat /\ off < at[k] /\ End(frames, at, k) \in Nat
        /\ End(frames, at, k) <= off + Len(S)
    BY DEF Placed
  <2> QED
    BY <2>1, <2>2, <2>3, <2>4, <2>5
<1> DEFINE l == Len(frames) + 1
<1>2. /\ l \in (m + 1)..Len(more)
      /\ to[l] = off + Len(S) + 1 /\ more[l] = f
      /\ End(more, to, l) = off + Len(S) + 1 + Size(f)
      /\ End(more, to, l) = off + Len(T)
  <2>1. l \in (m + 1)..Len(more) /\ ~(l <= Len(frames))
    OBVIOUS
  <2>2. to[l] = off + Len(S) + 1
    BY <1>a, <2>1
  <2>3. End(more, to, l) = off + Len(S) + 1 + Size(f)
    BY <2>2 DEF End
  <2> QED
    BY <1>0, <2>1, <2>2, <2>3
<1>3. \A k \in (m + 1)..Len(more) : k = l \/ k \in (m + 1)..Len(frames)
  OBVIOUS
<1> HIDE DEF l
<1>4. ASSUME NEW p \in (off + 1)..(off + Len(S))
      PROVE  T[p - off] = S[p - off]
  <2>1. p - off \in 1..Len(S)
    BY <1>0
  <2>2. \A i \in 1..Len(S) : T[i] = S[i]
    BY WrittenBytes, Zenon
  <2> QED
    BY <2>1, <2>2, Zenon
<1>5. ASSUME NEW k \in (m + 1)..Len(more)
      PROVE  /\ to[k] \in Nat /\ off < to[k]
             /\ End(more, to, k) \in Nat /\ End(more, to, k) <= off + Len(T)
             /\ \A p \in to[k]..End(more, to, k) :
                   p >= off + from => T[p - off] = FrameByte(more[k], p - to[k])
  <2>1. CASE k \in (m + 1)..Len(frames)
    <3>1. /\ to[k] = at[k] /\ more[k] = frames[k]
          /\ End(more, to, k) = End(frames, at, k)
          /\ at[k] \in Nat /\ off < at[k] /\ End(frames, at, k) \in Nat
          /\ End(frames, at, k) <= off + Len(S)
      BY <1>1, <2>1
    <3>2. ASSUME NEW p \in at[k]..End(frames, at, k), p >= off + from
          PROVE  T[p - off] = FrameByte(frames[k], p - at[k])
      <4>1. p \in (off + 1)..(off + Len(S))
        BY <1>0, <3>1, <3>2, SMTT(30)
      <4>2. S[p - off] = FrameByte(frames[k], p - at[k])
        BY <2>1, <3>2, PlacedByte
      <4> QED
        BY <1>4, <4>1, <4>2
    <3>3. End(frames, at, k) <= off + Len(T)
      BY SMTT(30), <1>0, <3>1
    <3> QED
      BY <3>1, <3>2, <3>3
  <2>2. CASE k = l
    <3>1. ASSUME NEW p \in (off + Len(S) + 1)..(off + Len(S) + 1 + Size(f))
          PROVE  T[p - off] = FrameByte(f, p - (off + Len(S) + 1))
      <4>1. p - (off + Len(S) + 1) \in 0..Size(f)
        BY SMTT(30), <1>0
      <4>2. Len(S) + 1 + (p - (off + Len(S) + 1)) = p - off
        BY <1>0
      <4>3. T[Len(S) + 1 + (p - (off + Len(S) + 1))] = FrameByte(f, p - (off + Len(S) + 1))
        BY <4>1 DEF Written
      <4> QED
        BY <4>2, <4>3
    <3>2. /\ off + Len(S) + 1 \in Nat /\ off < off + Len(S) + 1
          /\ off + Len(T) \in Nat /\ off + Len(T) <= off + Len(T)
      BY <1>0
    <3> QED
      BY <1>2, <2>2, <3>1, <3>2
  <2> QED
    BY <1>3, <2>1, <2>2
<1>6. ASSUME NEW j \in (m + 1)..Len(more), NEW k \in (m + 1)..Len(more), j < k
      PROVE  End(more, to, j) < to[k]
  <2>1. j \in (m + 1)..Len(frames)
    BY <1>6
  <2>2. CASE k \in (m + 1)..Len(frames)
    <3>1. End(frames, at, j) < at[k]
      BY <1>6, <2>1, <2>2 DEF Placed
    <3> QED
      BY <1>1, <2>1, <2>2, <3>1
  <2>3. CASE k = l
    <3>1. /\ End(more, to, j) = End(frames, at, j) /\ End(frames, at, j) \in Nat
          /\ End(frames, at, j) <= off + Len(S)
      BY <1>1, <2>1
    <3> QED
      BY SMTT(30), <1>0, <1>2, <2>3, <3>1
  <2> QED
    BY <1>3, <2>2, <2>3
<1>7. ASSUME NEW p \in (off + 2)..(off + Len(T))
      PROVE  \/ T[p - off] \in Noise
             \/ \E k \in (m + 1)..Len(more) : p \in to[k]..End(more, to, k)
  <2>1. CASE p <= off + Len(S)
    <3>1. p \in (off + 2)..(off + Len(S)) /\ p \in (off + 1)..(off + Len(S))
      BY <1>0, <2>1
    <3>2. \/ S[p - off] \in Noise
          \/ \E k \in (m + 1)..Len(frames) : p \in at[k]..End(frames, at, k)
      BY <3>1 DEF Placed
    <3>3. ASSUME NEW k \in (m + 1)..Len(frames), p \in at[k]..End(frames, at, k)
          PROVE  k \in (m + 1)..Len(more) /\ p \in to[k]..End(more, to, k)
      BY <1>1, <3>3
    <3> QED
      BY <1>4, <3>1, <3>2, <3>3
  <2>2. CASE ~(p <= off + Len(S))
    <3>1. p \in (off + Len(S) + 1)..(off + Len(T))
      BY <1>0, <2>2
    <3>2. p \in to[l]..End(more, to, l)
      BY <1>2, <3>1
    <3> QED
      BY <1>2, <3>2
  <2> QED
    BY <2>1, <2>2
<1>8. Placed(T, off, more, m, to, from)
  BY <1>0, <1>5, <1>6, <1>7 DEF Placed
<1> QED
  BY <1>8

\* The first frame to come lies at the head of the stretch when the magic number
\* is where the parsers look for it: noise does not look like it.
LEMMA MagicAtHead ==
    ASSUME NEW frames, Len(frames) \in Nat, NEW S, NEW off,
           NEW m \in Nat, NEW at, NEW from \in {1, 2},
           Placed(S, off, frames, m, at, from),
           \A k \in 1..Len(frames) : frames[k] \in Sendable,
           Len(S) \in Nat, Len(S) >= 3, S[2] = MAGIC_LO, S[3] = MAGIC_HI
    PROVE  m < Len(frames) /\ at[m + 1] = off + 1
<1>0. /\ off \in Nat
      /\ off + 2 \in (off + 2)..(off + Len(S)) /\ (off + 2) - off = 2
      /\ off + 3 \in (off + 2)..(off + Len(S)) /\ (off + 3) - off = 3
      /\ off + 2 >= off + from
  BY DEF Placed
<1>1. ASSUME NEW k \in (m + 1)..Len(frames)
      PROVE  /\ frames[k] \in Sendable
             /\ at[k] \in Nat /\ off < at[k]
             /\ End(frames, at, k) \in Nat /\ at[k] + 4 <= End(frames, at, k)
  <2>1. frames[k] \in Sendable
    OBVIOUS
  <2>2. Size(frames[k]) \in Nat /\ Size(frames[k]) >= 4
    BY <2>1, SendableFacts
  <2>3. at[k] \in Nat /\ off < at[k]
    BY DEF Placed
  <2> QED
    BY <2>1, <2>2, <2>3 DEF End
<1>2. ASSUME NEW k \in (m + 1)..Len(frames), NEW i \in {2, 3},
             off + i \in at[k]..End(frames, at, k)
      PROVE  S[i] = FrameByte(frames[k], (off + i) - at[k])
  <2>1. off + i >= off + from /\ (off + i) - off = i
    BY <1>0
  <2>2. S[(off + i) - off] = FrameByte(frames[k], (off + i) - at[k])
    BY <1>2, <2>1 DEF Placed
  <2> QED
    BY <2>1, <2>2
<1>3. ASSUME NEW k \in (m + 1)..Len(frames)
      PROVE  /\ FrameByte(frames[k], 0) \in Ids
             /\ FrameByte(frames[k], 1) = MAGIC_LO
  BY <1>1, SendableFacts DEF FrameByte
<1>4. MAGIC_LO # MAGIC_HI /\ (MAGIC_LO \in Noise => MAGIC_HI \notin Noise \cup Ids)
  BY NoFalseMagic
\* No frame begins at the first byte of the magic number.
<1>5. ASSUME NEW k \in (m + 1)..Len(frames)
      PROVE  at[k] # off + 2
  <2> SUFFICES ASSUME at[k] = off + 2 PROVE FALSE
    OBVIOUS
  <2>1. off + 3 \in at[k]..End(frames, at, k) /\ (off + 3) - at[k] = 1
    BY <1>0, <1>1
  <2>2. S[3] = FrameByte(frames[k], 1)
    BY <1>2, <2>1
  <2> QED
    BY <1>3, <1>4, <2>2
<1>6. \E k \in (m + 1)..Len(frames) : at[k] = off + 1
  <2>1. CASE S[2] \in Noise
    <3>1. S[3] \notin Noise /\ MAGIC_HI \notin Ids
      BY <1>4, <2>1
    <3>2. PICK k \in (m + 1)..Len(frames) : off + 3 \in at[k]..End(frames, at, k)
      BY <1>0, <3>1 DEF Placed
    <3>3. at[k] # off + 3
      <4> SUFFICES ASSUME at[k] = off + 3 PROVE FALSE
        OBVIOUS
      <4>1. (off + 3) - at[k] = 0
        BY <1>0
      <4>2. S[3] = FrameByte(frames[k], 0)
        BY <1>2, <3>2, <4>1
      <4> QED
        BY <1>3, <3>1, <4>2
    <3>4. at[k] = off + 1
      BY <1>0, <1>1, <1>5, <3>2, <3>3, SMTT(30)
    <3> QED
      BY <3>4
  <2>2. CASE S[2] \notin Noise
    <3>1. PICK k \in (m + 1)..Len(frames) : off + 2 \in at[k]..End(frames, at, k)
      BY <1>0, <2>2 DEF Placed
    <3>2. at[k] \in Nat /\ off < at[k] /\ at[k] # off + 2 /\ at[k] <= off + 2
      BY <1>1, <1>5, <3>1
    <3>3. at[k] = off + 1
      BY <1>0, <3>2
    <3> QED
      BY <3>3
  <2> QED
    BY <2>1, <2>2
<1>7. PICK k \in (m + 1)..Len(frames) : at[k] = off + 1
  BY <1>6
<1>8. m + 1 \in (m + 1)..Len(frames)
  OBVIOUS
<1>9. ~(m + 1 < k)
  <2> SUFFICES ASSUME m + 1 < k PROVE FALSE
    OBVIOUS
  <2>1. End(frames, at, m + 1) < at[k]
    BY <1>8 DEF Placed
  <2>2. /\ at[m + 1] \in Nat /\ off < at[m + 1]
        /\ End(frames, at, m + 1) \in Nat /\ at[m + 1] + 4 <= End(frames, at, m + 1)
    BY <1>1, <1>8
  <2> QED
    BY <1>0, <1>7, <2>1, <2>2
<1>10. k = m + 1
  BY <1>9
<1> QED
  BY <1>7, <1>8, <1>10

\* The frame at the head of the stretch, byte by byte.
LEMMA FrameAtHead ==
    ASSUME NEW frames, Len(frames) \in Nat, NEW S, Len(S) \in Nat, NEW off,
           NEW m \in Nat, m < Len(frames), NEW at, NEW from \in {1, 2},
           Placed(S, off, frames, m, at, from),
           frames[m + 1] \in Sendable, at[m + 1] = off + 1
    PROVE  /\ 1 + Size(frames[m + 1]) <= Len(S)
           /\ End(frames, at, m + 1) = off + 1 + Size(frames[m + 1])
           /\ from = 1 => S[1] = frames[m + 1].id
           /\ \A i \in 1..Size(frames[m + 1]) : S[i + 1] = frames[m + 1].packet[i]
<1>0. off \in Nat /\ m + 1 \in (m + 1)..Len(frames)
  BY DEF Placed
<1>1. Size(frames[m + 1]) \in Nat
  BY SendableFacts
<1>2. End(frames, at, m + 1) = off + 1 + Size(frames[m + 1])
  BY DEF End
<1>3. End(frames, at, m + 1) <= off + Len(S)
  BY <1>0 DEF Placed
<1>4. ASSUME NEW i \in 0..Size(frames[m + 1]), i + 1 >= from
      PROVE  S[i + 1] = FrameByte(frames[m + 1], i)
  <2> DEFINE p == off + 1 + i
  <2>1. /\ p \in at[m + 1]..End(frames, at, m + 1) /\ p >= off + from
        /\ p - off = i + 1 /\ p - at[m + 1] = i
    BY <1>0, <1>1, <1>2, <1>4
  <2>2. S[p - off] = FrameByte(frames[m + 1], p - at[m + 1])
    BY <1>0, <2>1 DEF Placed
  <2> QED
    BY <2>1, <2>2
<1>5. from = 1 => S[1] = frames[m + 1].id
  <2> SUFFICES ASSUME from = 1 PROVE S[1] = frames[m + 1].id
    OBVIOUS
  <2>1. 0 \in 0..Size(frames[m + 1]) /\ 0 + 1 >= from /\ 0 + 1 = 1
    BY <1>1
  <2>2. S[0 + 1] = FrameByte(frames[m + 1], 0)
    BY <1>4, <2>1
  <2> QED
    BY <2>1, <2>2 DEF FrameByte
<1>6. ASSUME NEW i \in 1..Size(frames[m + 1])
      PROVE  S[i + 1] = frames[m + 1].packet[i]
  <2>1. i \in 0..Size(frames[m + 1]) /\ i + 1 >= from /\ i # 0
    BY <1>1
  <2> QED
    BY <1>4, <2>1 DEF FrameByte
<1>7. 1 + Size(frames[m + 1]) <= Len(S)
  BY <1>0, <1>1, <1>2, <1>3
<1> QED
  BY <1>2, <1>5, <1>6, <1>7

-----------------------------------------------------------------------------
(***************************************************************************)
(* The steps of the router's parser and the types.                         *)
(***************************************************************************)

\* The outcomes of a turn of command_parser_feed.
Started(byte) ==
    rx.id = NoId /\ rx' = [id |-> byte, buf |-> <<>>] /\ dispatched' = dispatched
Overflowed ==
    /\ rx.id # NoId /\ Len(rx.buf) >= MAX_PACKET
    /\ rx' = [id |-> NoId, buf |-> <<>>] /\ dispatched' = dispatched
Kept(buf) ==
    /\ rx.id # NoId /\ ~(Len(rx.buf) >= MAX_PACKET)
    /\ ~(Len(buf) < HEADER) => HasMagic(buf) /\ Len(buf) < TotalLen(buf)
    /\ rx' = [id |-> rx.id, buf |-> buf] /\ dispatched' = dispatched
Skipped(buf) ==
    /\ rx.id # NoId /\ ~(Len(rx.buf) >= MAX_PACKET)
    /\ ~(Len(buf) < HEADER) /\ ~HasMagic(buf)
    /\ rx' = [id |-> rx.id, buf |-> Tail(buf)] /\ dispatched' = dispatched
Passed(buf) ==
    /\ rx.id # NoId /\ ~(Len(rx.buf) >= MAX_PACKET)
    /\ ~(Len(buf) < HEADER) /\ HasMagic(buf) /\ ~(Len(buf) < TotalLen(buf))
    /\ rx' = [id |-> NoId, buf |-> <<>>]
    /\ dispatched' = Append(dispatched, [id |-> rx.id, packet |-> SubSeq(buf, 1, TotalLen(buf))])

LEMMA FeedOutcomes ==
    ASSUME command_parser_feed
    PROVE  \/ Started(Head(data)) \/ Overflowed
           \/ \E buf : /\ buf = Append(rx.buf, Head(data))
                       /\ Kept(buf) \/ Skipped(buf) \/ Passed(buf)
<1> DEFINE s == [id |-> rx.id, buf |-> rx.buf, out |-> dispatched]
           buf == Append(rx.buf, Head(data))
           r == Feed(s, Head(data))
<1>1. rx' = [id |-> r.id, buf |-> r.buf] /\ dispatched' = r.out
  BY DEF command_parser_feed
<1>2. CASE rx.id = NoId
  <2>1. r = [id |-> Head(data), buf |-> <<>>, out |-> dispatched]
    BY <1>2 DEF Feed
  <2> HIDE DEF r
  <2> QED
    BY <1>1, <1>2, <2>1 DEF Started
<1>3. CASE rx.id # NoId /\ Len(rx.buf) >= MAX_PACKET
  <2>1. r = [id |-> NoId, buf |-> <<>>, out |-> dispatched]
    BY <1>3 DEF Feed, Cleared
  <2> HIDE DEF r
  <2> QED
    BY <1>1, <1>3, <2>1 DEF Overflowed
<1>4. CASE rx.id # NoId /\ ~(Len(rx.buf) >= MAX_PACKET)
  <2>0. r = Buffered(s, buf)
    BY <1>4 DEF Feed
  <2> HIDE DEF buf
  <2>1. CASE Len(buf) < HEADER
    <3>1. r = [id |-> rx.id, buf |-> buf, out |-> dispatched]
      BY <2>0, <2>1 DEF Buffered
    <3> HIDE DEF r
    <3>2. Kept(buf)
      BY <1>1, <1>4, <2>1, <3>1 DEF Kept
    <3> QED
      BY <3>2 DEF buf
  <2>2. CASE ~(Len(buf) < HEADER) /\ ~HasMagic(buf)
    <3>1. r = [id |-> rx.id, buf |-> Tail(buf), out |-> dispatched]
      BY <2>0, <2>2 DEF Buffered
    <3> HIDE DEF r
    <3>2. Skipped(buf)
      BY <1>1, <1>4, <2>2, <3>1 DEF Skipped
    <3> QED
      BY <3>2 DEF buf
  <2>3. CASE ~(Len(buf) < HEADER) /\ HasMagic(buf) /\ Len(buf) < TotalLen(buf)
    <3>1. r = [id |-> rx.id, buf |-> buf, out |-> dispatched]
      BY <2>0, <2>3 DEF Buffered
    <3> HIDE DEF r
    <3>2. Kept(buf)
      BY <1>1, <1>4, <2>3, <3>1 DEF Kept
    <3> QED
      BY <3>2 DEF buf
  <2>4. CASE ~(Len(buf) < HEADER) /\ HasMagic(buf) /\ ~(Len(buf) < TotalLen(buf))
    <3>1. r = [id |-> NoId, buf |-> <<>>,
               out |-> Append(dispatched, [id |-> rx.id, packet |-> SubSeq(buf, 1, TotalLen(buf))])]
      BY <2>0, <2>4 DEF Buffered, Cleared
    <3> HIDE DEF r
    <3>2. Passed(buf)
      BY <1>1, <1>4, <2>4, <3>1 DEF Passed
    <3> QED
      BY <3>2 DEF buf
  <2> QED
    BY <2>1, <2>2, <2>3, <2>4
<1> QED
  BY <1>2, <1>3, <1>4

\* The type of a stretch of bytes and of its parts.
LEMMA Bytes ==
    ASSUME NEW s \in Seq(Byte)
    PROVE  /\ \A n \in Nat : SubSeq(s, 1, n) \in Seq(Byte) \/ n > Len(s)
           /\ \A n \in Nat : SubSeq(s, n + 1, Len(s)) \in Seq(Byte)
           /\ s # <<>> => Head(s) \in Byte /\ Tail(s) \in Seq(Byte)
<1>1. \A n \in Nat : SubSeq(s, 1, n) \in Seq(Byte) \/ n > Len(s)
  <2> SUFFICES ASSUME NEW n \in Nat, ~(n > Len(s)) PROVE SubSeq(s, 1, n) \in Seq(Byte)
    OBVIOUS
  <2>1. \A i \in 1..n : s[i] \in Byte
    BY ElementOfSeq
  <2> QED
    BY <2>1, SubSeqProperties
<1>2. \A n \in Nat : SubSeq(s, n + 1, Len(s)) \in Seq(Byte)
  <2> SUFFICES ASSUME NEW n \in Nat PROVE SubSeq(s, n + 1, Len(s)) \in Seq(Byte)
    OBVIOUS
  <2>1. \A i \in (n + 1)..Len(s) : s[i] \in Byte
    BY ElementOfSeq
  <2> QED
    BY <2>1, SubSeqProperties
<1> QED
  BY <1>1, <1>2

\* Of a packet that has begun in rx_buffer, the end is yet to come.
BufferWaits ==
    /\ rx.id = NoId => rx.buf = <<>>
    /\ ~(Len(rx.buf) < HEADER) => HasMagic(rx.buf) /\ Len(rx.buf) < TotalLen(rx.buf)

SentOK ==
    /\ sent \in Seq(Sendable)
    /\ Len(sent) <= MAX_FRAMES
    /\ fresh <= Len(sent)

TypeInv == TypeOK /\ SentOK

LEMMA InitTyped == Init => TypeInv /\ BufferWaits
<1> SUFFICES ASSUME Init PROVE TypeInv /\ BufferWaits
  OBVIOUS
<1>1. BYTE \in Nat /\ MAX_NOISE \in Nat /\ MAX_LOST \in Nat /\ MAX_FRAMES \in Nat /\ MAX_PACKET \in Nat
  BY ConstantTypes
<1>2. TypeOK
  BY <1>1 DEF Init, TypeOK
<1>3. SentOK
  BY <1>1 DEF Init, SentOK
<1>4. BufferWaits
  BY DEF Init, BufferWaits, HEADER
<1> QED
  BY <1>2, <1>3, <1>4 DEF TypeInv

RouterTyped(r, out) ==
    /\ r.id \in Byte \cup {NoId} /\ r.buf \in Seq(Byte) /\ Len(r.buf) <= MAX_PACKET
    /\ out \in Seq(Frame)
    /\ \A i \in DOMAIN out : Len(out[i].packet) <= MAX_PACKET

\* What a turn of the router's parser leaves is typed and fits.
LEMMA FeedTyped ==
    ASSUME TypeOK, command_parser_feed
    PROVE  TypeOK'
<1>0. /\ data \in Seq(Byte) /\ data # <<>> /\ rx.buf \in Seq(Byte) /\ Len(rx.buf) <= MAX_PACKET
      /\ rx.id \in Byte \cup {NoId} /\ dispatched \in Seq(Frame)
      /\ \A i \in DOMAIN dispatched : Len(dispatched[i].packet) <= MAX_PACKET
  BY DEF TypeOK, command_parser_feed
<1>1. Head(data) \in Byte /\ Tail(data) \in Seq(Byte)
  BY <1>0, Bytes
<1>2. MAX_PACKET \in Nat /\ BYTE \in Nat \ {0}
  BY ConstantTypes
<1>3. RouterTyped(rx', dispatched')
  <2>1. CASE Started(Head(data))
    BY <1>0, <1>1, <1>2, <2>1 DEF Started, RouterTyped
  <2>2. CASE Overflowed
    BY <1>0, <1>2, <2>2 DEF Overflowed, RouterTyped
  <2>3. ASSUME NEW buf, buf = Append(rx.buf, Head(data)), Kept(buf) \/ Skipped(buf) \/ Passed(buf)
        PROVE  RouterTyped(rx', dispatched')
    <3>1. buf \in Seq(Byte) /\ Len(buf) = Len(rx.buf) + 1 /\ buf # <<>>
      BY <1>0, <1>1, <2>3, AppendProperties
    <3>2. ~(Len(rx.buf) >= MAX_PACKET) /\ rx.id # NoId
      BY <2>3 DEF Kept, Skipped, Passed
    <3>3. Len(buf) \in Nat /\ Len(buf) <= MAX_PACKET
      BY <1>0, <1>2, <3>1, <3>2
    <3>4. CASE Kept(buf)
      BY <1>0, <3>1, <3>3, <3>4 DEF Kept, RouterTyped
    <3>5. CASE Skipped(buf)
      <4>1. Tail(buf) \in Seq(Byte) /\ Len(Tail(buf)) = Len(buf) - 1
        BY <3>1, HeadTailProperties
      <4> QED
        BY <1>0, <1>2, <3>3, <3>5, <4>1 DEF Skipped, RouterTyped
    <3>6. CASE Passed(buf)
      <4> DEFINE n == TotalLen(buf)
                 f == [id |-> rx.id, packet |-> SubSeq(buf, 1, n)]
      <4>1. ~(Len(buf) < HEADER) /\ ~(Len(buf) < n)
        BY <3>6 DEF Passed
      <4>2. n \in Nat /\ n <= Len(buf)
        <5>0. 4 \in 1..Len(buf)
          BY <3>3, <4>1 DEF HEADER
        <5>1. buf[4] \in Byte
          BY <3>1, <5>0, ElementOfSeq
        <5>2. HEADER + buf[4] \in Nat
          BY <1>2, <5>1 DEF HEADER, Byte
        <5>3. n \in Nat
          BY <1>2, <5>2 DEF TotalLen
        <5> HIDE DEF n
        <5> QED
          BY <3>3, <4>1, <5>3
      <4> HIDE DEF n
      <4>3. SubSeq(buf, 1, n) \in Seq(Byte) /\ Len(SubSeq(buf, 1, n)) = n
        <5>1. \A i \in 1..n : buf[i] \in Byte
          BY <3>1, <4>2, ElementOfSeq
        <5> QED
          BY <4>2, <5>1, SubSeqProperties
      <4>4. f \in Frame /\ Len(f.packet) <= MAX_PACKET
        BY <1>0, <1>2, <3>2, <3>3, <4>2, <4>3 DEF Frame
      <4>5. dispatched' = Append(dispatched, f) /\ rx' = [id |-> NoId, buf |-> <<>>]
        BY <3>6 DEF Passed, n
      <4> HIDE DEF f
      <4>6. /\ dispatched' \in Seq(Frame) /\ Len(dispatched') = Len(dispatched) + 1
            /\ \A i \in 1..Len(dispatched) : dispatched'[i] = dispatched[i]
            /\ dispatched'[Len(dispatched) + 1] = f
        BY <1>0, <4>4, <4>5, AppendProperties
      <4>7. ASSUME NEW i \in DOMAIN dispatched'
            PROVE  Len(dispatched'[i].packet) <= MAX_PACKET
        <5>1. i \in 1..Len(dispatched) \/ i = Len(dispatched) + 1
          BY <1>0, <4>6
        <5> QED
          BY <1>0, <4>4, <4>6, <5>1
      <4> QED
        BY <1>2, <4>5, <4>6, <4>7 DEF RouterTyped
    <3> QED
      BY <2>3, <3>4, <3>5, <3>6
  <2> QED
    BY <2>1, <2>2, <2>3, FeedOutcomes
<1>4. /\ UNCHANGED <<sent, line, noise, lost, fresh, buffer, delivered>>
      /\ data' = Tail(data)
  BY DEF command_parser_feed
<1> QED
  BY <1>1, <1>3, <1>4 DEF TypeOK, RouterTyped

\* The fields the host reads when it passes a frame on.
LEMMA DeliverFacts ==
    ASSUME buffer \in Seq(Byte), Delivers
    PROVE  /\ buffer[1] \in Byte
           /\ FrameLen \in Nat /\ FrameLen >= 5 /\ FrameLen <= Len(buffer)
           /\ SubSeq(buffer, 2, FrameLen) \in Seq(Byte)
           /\ Len(SubSeq(buffer, 2, FrameLen)) = FrameLen - 1
           /\ \A i \in 1..(FrameLen - 1) : SubSeq(buffer, 2, FrameLen)[i] = buffer[i + 1]
           /\ SubSeq(buffer, FrameLen + 1, Len(buffer)) \in Seq(Byte)
           /\ Len(SubSeq(buffer, FrameLen + 1, Len(buffer))) = Len(buffer) - FrameLen
           /\ \A i \in 1..(Len(buffer) - FrameLen) :
                 SubSeq(buffer, FrameLen + 1, Len(buffer))[i] = buffer[i + FrameLen]
<1>1. Len(buffer) \in Nat /\ Len(buffer) >= 5 /\ Len(buffer) >= FrameLen
  BY DEF Delivers, HEADER
<1>2. buffer[1] \in Byte /\ buffer[5] \in Byte
  BY <1>1, ElementOfSeq
<1>3. FrameLen \in Nat /\ FrameLen >= 5
  BY <1>2 DEF FrameLen, HEADER, Byte
<1> DEFINE n == FrameLen
<1>4. n \in Nat /\ n >= 5 /\ n <= Len(buffer)
  BY <1>1, <1>3
<1> HIDE DEF n
<1>5. /\ SubSeq(buffer, 2, n) \in Seq(Byte) /\ Len(SubSeq(buffer, 2, n)) = n - 1
      /\ \A i \in 1..(n - 1) : SubSeq(buffer, 2, n)[i] = buffer[i + 1]
  <2>1. \A i \in 2..n : buffer[i] \in Byte
    BY <1>1, <1>4, ElementOfSeq
  <2>2. /\ SubSeq(buffer, 2, n) \in Seq(Byte)
        /\ Len(SubSeq(buffer, 2, n)) = IF 2 <= n THEN n - 2 + 1 ELSE 0
        /\ \A i \in 1..(n - 2 + 1) : SubSeq(buffer, 2, n)[i] = buffer[2 + i - 1]
    BY <1>4, <2>1, SubSeqProperties
  <2> QED
    BY <1>4, <2>2
<1>6. /\ SubSeq(buffer, n + 1, Len(buffer)) \in Seq(Byte)
      /\ Len(SubSeq(buffer, n + 1, Len(buffer))) = Len(buffer) - n
      /\ \A i \in 1..(Len(buffer) - n) : SubSeq(buffer, n + 1, Len(buffer))[i] = buffer[i + n]
  <2> DEFINE l == Len(buffer)
  <2>1. \A i \in (n + 1)..l : buffer[i] \in Byte
    BY <1>1, <1>4, ElementOfSeq
  <2>0. l \in Nat /\ n <= l
    BY <1>1, <1>4
  <2> HIDE DEF l
  <2>2. /\ SubSeq(buffer, n + 1, l) \in Seq(Byte)
        /\ Len(SubSeq(buffer, n + 1, l)) = IF n + 1 <= l THEN l - (n + 1) + 1 ELSE 0
        /\ \A i \in 1..(l - (n + 1) + 1) : SubSeq(buffer, n + 1, l)[i] = buffer[(n + 1) + i - 1]
    BY <1>4, <2>0, <2>1, SubSeqProperties
  <2>3. /\ SubSeq(buffer, n + 1, l) \in Seq(Byte)
        /\ Len(SubSeq(buffer, n + 1, l)) = l - n
        /\ \A i \in 1..(l - n) : SubSeq(buffer, n + 1, l)[i] = buffer[i + n]
    BY <1>4, <2>0, <2>2
  <2> QED
    BY <2>3 DEF l
<1> QED
  BY <1>2, <1>4, <1>5, <1>6 DEF n

\* What a frame adds to the line.
LEMMA SendTyped ==
    ASSUME TypeInv, NEW id \in Ids, NEW p \in Payloads, Send(id, p)
    PROVE  TypeInv'
<1> DEFINE f == [id |-> id, packet |-> Packet(Len(sent) + 1, p)]
<1>0. /\ sent \in Seq(Sendable) /\ Len(sent) <= MAX_FRAMES /\ fresh <= Len(sent)
      /\ sent \in Seq(Frame) /\ line \in Seq(Byte) /\ fresh \in 0..MAX_FRAMES
  BY DEF TypeInv, TypeOK, SentOK
<1>1. Len(sent) \in Nat /\ Len(sent) < MAX_FRAMES /\ MAX_FRAMES \in Nat
  BY <1>0, ConstantTypes DEF Send
<1>2. f \in Sendable
  BY <1>1, PacketSendable
<1>3. f \in Frame /\ f.packet \in Seq(Byte) /\ f.id \in Byte
  BY <1>2, ConstantTypes, SendableFacts
<1>4. /\ sent' = Append(sent, f) /\ line' = line \o <<f.id>> \o f.packet /\ fresh' = fresh + 1
      /\ UNCHANGED <<noise, lost, rx, data, dispatched, buffer, delivered>>
  BY DEF Send
<1> HIDE DEF f
<1>5. sent' \in Seq(Sendable) /\ sent' \in Seq(Frame) /\ Len(sent') = Len(sent) + 1
  BY <1>0, <1>2, <1>3, <1>4, AppendProperties
<1>6. line' \in Seq(Byte)
  BY <1>0, <1>3, <1>4, ConcatProperties
<1>7. fresh' \in 0..MAX_FRAMES /\ fresh' <= Len(sent') /\ Len(sent') <= MAX_FRAMES
  BY <1>0, <1>1, <1>4, <1>5
<1> QED
  BY <1>4, <1>5, <1>6, <1>7 DEF TypeInv, TypeOK, SentOK

LEMMA ReadTyped ==
    ASSUME TypeInv, NEW n \in 1..Len(line), Read(n)
    PROVE  TypeInv'
<1>1. line \in Seq(Byte) /\ buffer \in Seq(Byte) /\ n \in Nat /\ ~(n > Len(line))
  BY DEF TypeInv, TypeOK
<1>2. SubSeq(line, 1, n) \in Seq(Byte) /\ SubSeq(line, n + 1, Len(line)) \in Seq(Byte)
  BY <1>1, Bytes
<1>3. buffer \o SubSeq(line, 1, n) \in Seq(Byte)
  BY <1>1, <1>2, ConcatProperties
<1>4. data' \in Seq(Byte) /\ buffer' \in Seq(Byte) /\ line' \in Seq(Byte)
  BY <1>2, <1>3 DEF Read
<1>5. UNCHANGED <<sent, noise, lost, fresh, rx, dispatched, delivered>>
  BY DEF Read
<1> QED
  BY <1>4, <1>5 DEF TypeInv, TypeOK, SentOK

LEMMA DiscardTyped ==
    ASSUME TypeInv, Discard
    PROVE  TypeInv' /\ buffer # <<>> /\ buffer' = Tail(buffer)
<1>1. buffer \in Seq(Byte)
  BY DEF TypeInv, TypeOK
<1>2. buffer # <<>>
  BY DEF Discard, Discards, HEADER
<1>3. buffer' = Tail(buffer) /\ buffer' \in Seq(Byte)
  BY <1>1, <1>2, Bytes DEF Discard, Unframed
<1>4. UNCHANGED <<sent, line, noise, lost, fresh, rx, data, dispatched, delivered>>
  BY DEF Discard
<1> QED
  BY <1>2, <1>3, <1>4 DEF TypeInv, TypeOK, SentOK

LEMMA DeliverTyped ==
    ASSUME TypeInv, Deliver
    PROVE  TypeInv'
<1>1. buffer \in Seq(Byte) /\ delivered \in Seq(Frame) /\ Delivers
  BY DEF TypeInv, TypeOK, Deliver
<1>2. [id |-> buffer[1], packet |-> SubSeq(buffer, 2, FrameLen)] \in Frame
  BY <1>1, DeliverFacts DEF Frame
<1>3. delivered' \in Seq(Frame) /\ buffer' \in Seq(Byte)
  BY <1>1, <1>2, DeliverFacts, AppendProperties DEF Deliver
<1>4. UNCHANGED <<sent, line, noise, lost, fresh, rx, data, dispatched>>
  BY DEF Deliver
<1> QED
  BY <1>3, <1>4 DEF TypeInv, TypeOK, SentOK

LEMMA NoiseTyped ==
    ASSUME TypeInv, NEW b \in Noise, AddNoise(b)
    PROVE  TypeInv'
<1>1. line \in Seq(Byte) /\ b \in Byte /\ noise \in 0..MAX_NOISE /\ MAX_NOISE \in Nat
  BY ConstantTypes DEF TypeInv, TypeOK
<1>2. line' \in Seq(Byte) /\ noise' \in 0..MAX_NOISE
  BY <1>1, AppendProperties DEF AddNoise
<1>3. UNCHANGED <<sent, lost, fresh, rx, data, dispatched, buffer, delivered>>
  BY DEF AddNoise
<1> QED
  BY <1>2, <1>3 DEF TypeInv, TypeOK, SentOK

LEMMA LoseTyped ==
    ASSUME TypeInv, NEW first \in DOMAIN line, NEW last \in DOMAIN line, first <= last,
           Lose(first, last)
    PROVE  TypeInv' /\ lost' > 0
<1>1. line \in Seq(Byte) /\ lost \in 0..MAX_LOST /\ MAX_LOST \in Nat /\ MAX_FRAMES \in Nat
      /\ sent \in Seq(Sendable)
  BY ConstantTypes DEF TypeInv, TypeOK, SentOK
<1>2. first \in 1..Len(line) /\ last \in 1..Len(line) /\ Len(line) \in Nat
  BY <1>1
<1>3. first - 1 \in Nat /\ ~(first - 1 > Len(line)) /\ last \in Nat
  BY <1>2
<1>4. SubSeq(line, 1, first - 1) \in Seq(Byte) /\ SubSeq(line, last + 1, Len(line)) \in Seq(Byte)
  BY <1>1, <1>3, Bytes
<1>5. line' \in Seq(Byte)
  BY <1>4, ConcatProperties DEF Lose
<1>6. lost' \in 0..MAX_LOST /\ lost' > 0 /\ fresh' = 0 /\ fresh' \in 0..MAX_FRAMES /\ fresh' <= Len(sent)
  BY <1>1 DEF Lose
<1>7. UNCHANGED <<sent, noise, rx, data, dispatched, buffer, delivered>>
  BY DEF Lose
<1> QED
  BY <1>5, <1>6, <1>7 DEF TypeInv, TypeOK, SentOK

LEMMA FeedKeepsSent ==
    ASSUME TypeInv, command_parser_feed
    PROVE  TypeInv'
<1>1. TypeOK'
  BY FeedTyped DEF TypeInv
<1>2. UNCHANGED <<sent, fresh>>
  BY DEF command_parser_feed
<1> QED
  BY <1>1, <1>2 DEF TypeInv, SentOK

LEMMA TypeInvariant == Spec => []TypeInv
<1>1. Init => TypeInv
  BY InitTyped
<1>2. TypeInv /\ [Next]_vars => TypeInv'
  <2> SUFFICES ASSUME TypeInv, [Next]_vars PROVE TypeInv'
    OBVIOUS
  <2>1. ASSUME NEW id \in Ids, NEW p \in Payloads, Send(id, p) PROVE TypeInv'
    BY <2>1, SendTyped
  <2>2. ASSUME NEW n \in 1..Len(line), Read(n) PROVE TypeInv'
    BY <2>2, ReadTyped
  <2>3. CASE command_parser_feed
    BY <2>3, FeedKeepsSent
  <2>4. CASE Discard
    BY <2>4, DiscardTyped
  <2>5. CASE Deliver
    BY <2>5, DeliverTyped
  <2>6. ASSUME NEW b \in Noise, AddNoise(b) PROVE TypeInv'
    BY <2>6, NoiseTyped
  <2>7. ASSUME NEW first \in DOMAIN line, NEW last \in DOMAIN line, first <= last, Lose(first, last)
        PROVE  TypeInv'
    BY <2>7, LoseTyped
  <2>8. CASE UNCHANGED vars
    BY <2>8 DEF vars, TypeInv, TypeOK, SentOK
  <2> QED
    BY <2>1, <2>2, <2>3, <2>4, <2>5, <2>6, <2>7, <2>8 DEF Next
<1> QED
  BY <1>1, <1>2, PTL DEF Spec

\* Whatever comes over the line, damaged or not, the router's parser writes
\* within rx_buffer and passes on no more than it holds (command_parser_feed).
THEOREM TypesKept == Spec => []TypeOK
<1>1. TypeInv => TypeOK
  BY DEF TypeInv
<1> QED
  BY <1>1, TypeInvariant, PTL

-----------------------------------------------------------------------------
(***************************************************************************)
(* The parsers in step with what was sent, as long as nothing was lost.    *)
(***************************************************************************)
\* From the first byte the host holds to the last on the way.
HostStream == buffer \o line

HostInStep ==
    /\ Len(delivered) <= Len(sent)
    /\ \A i \in 1..Len(delivered) : delivered[i] = sent[i]
    /\ \E off, at : Placed(HostStream, off, sent, Len(delivered), at, 1)

\* From the first byte the router holds to the last on the way.
Held == IF rx.id = NoId THEN <<>> ELSE <<rx.id>> \o rx.buf
RouterStream == (Held \o data) \o line

RouterInStep ==
    /\ Len(dispatched) <= Len(sent)
    /\ \A i \in 1..Len(dispatched) : dispatched[i].packet = sent[i].packet
    /\ \E off, at : Placed(RouterStream, off, sent, Len(dispatched), at, 2)

IInv == TypeInv /\ BufferWaits /\ (lost = 0 => HostInStep /\ RouterInStep)

LEMMA InitInStep == Init => HostInStep /\ RouterInStep
<1> SUFFICES ASSUME Init PROVE HostInStep /\ RouterInStep
  OBVIOUS
<1>1. /\ sent = <<>> /\ line = <<>> /\ buffer = <<>> /\ data = <<>>
      /\ delivered = <<>> /\ dispatched = <<>> /\ rx.id = NoId
  BY DEF Init
<1>2. HostStream = <<>> /\ RouterStream = <<>>
  BY <1>1 DEF HostStream, RouterStream, Held
<1>3. ASSUME NEW from \in {1, 2} PROVE Placed(<<>>, 0, <<>>, 0, 0, from)
  BY DEF Placed
<1>4. Placed(HostStream, 0, sent, Len(delivered), 0, 1)
  BY <1>1, <1>2, <1>3
<1>5. Placed(RouterStream, 0, sent, Len(dispatched), 0, 2)
  BY <1>1, <1>2, <1>3
<1> QED
  BY <1>1, <1>4, <1>5 DEF HostInStep, RouterInStep

LEMMA BytesAssociative ==
    \A s, t, u \in Seq(Byte) : (s \o t) \o u = s \o (t \o u)
BY ConcatAssociative

\* Bytes that go from the line to a parser leave the stretch as it was.
LEMMA StreamRead ==
    ASSUME NEW s \in Seq(Byte), NEW l \in Seq(Byte), NEW n \in 1..Len(l)
    PROVE  (s \o SubSeq(l, 1, n)) \o SubSeq(l, n + 1, Len(l)) = s \o l
<1>1. n \in Nat /\ ~(n > Len(l)) /\ Len(l) \in Nat
  OBVIOUS
<1>2. SubSeq(l, 1, n) \in Seq(Byte) /\ SubSeq(l, n + 1, Len(l)) \in Seq(Byte)
  BY <1>1, Bytes
<1>3. SubSeq(l, 1, n) \o SubSeq(l, n + 1, Len(l)) = SubSeq(l, 1, Len(l))
  <2>1. /\ 1 \in 1..(Len(l) + 1) /\ n \in (1 - 1)..Len(l) /\ Len(l) \in n..Len(l)
    BY <1>1
  <2> QED
    BY <2>1, ConcatAdjacentSubSeq
<1>4. SubSeq(l, 1, Len(l)) = l
  BY SubSeqFull
<1>5. s \o (SubSeq(l, 1, n) \o SubSeq(l, n + 1, Len(l))) = s \o l
  BY <1>3, <1>4
<1> QED
  BY <1>2, <1>5, BytesAssociative, Zenon

\* A frame behind the line lies behind the stretch.
LEMMA StreamSent ==
    ASSUME NEW s \in Seq(Byte), NEW l \in Seq(Byte), NEW f \in Sendable
    PROVE  Written(s \o l, s \o (l \o <<f.id>> \o f.packet), f)
<1>1. f.packet \in Seq(Byte) /\ f.id \in Byte /\ Size(f) \in Nat /\ Len(f.packet) = Size(f)
  BY SendableFacts, ConstantTypes
<1> DEFINE S == s \o l
           h == <<f.id>> \o f.packet
           T == s \o (l \o <<f.id>> \o f.packet)
<1>2. /\ h \in Seq(Byte) /\ Len(h) = 1 + Size(f)
      /\ \A i \in 0..Size(f) : h[1 + i] = FrameByte(f, i)
  <2>1. <<f.id>> \in Seq(Byte) /\ Len(<<f.id>>) = 1 /\ <<f.id>>[1] = f.id
    BY <1>1
  <2>2. /\ h \in Seq(Byte) /\ Len(h) = 1 + Size(f)
        /\ \A i \in 1..(1 + Size(f)) : h[i] = IF i <= 1 THEN <<f.id>>[i] ELSE f.packet[i - 1]
    BY <1>1, <2>1, ConcatProperties
  <2> HIDE DEF h
  <2>3. ASSUME NEW i \in 0..Size(f) PROVE h[1 + i] = FrameByte(f, i)
    <3>1. 1 + i \in 1..(1 + Size(f)) /\ (1 + i) - 1 = i /\ (1 + i <= 1 <=> i = 0)
      BY <1>1
    <3>2. h[1 + i] = IF i = 0 THEN <<f.id>>[1] ELSE f.packet[i]
      BY <2>2, <3>1
    <3> QED
      BY <2>1, <3>2 DEF FrameByte
  <2> QED
    BY <2>2, <2>3
<1>3. T = S \o h
  <2>1. <<f.id>> \in Seq(Byte)
    BY <1>1
  <2>2. (l \o <<f.id>>) \o f.packet = l \o h
    BY <1>1, <2>1, BytesAssociative, Zenon
  <2> HIDE DEF h
  <2>3. s \o (l \o h) = (s \o l) \o h
    BY <1>2, BytesAssociative, Zenon
  <2> QED
    BY <2>2, <2>3
<1>4. S \in Seq(Byte)
  BY ConcatProperties
<1> HIDE DEF S, h, T
<1>5. /\ Len(T) = Len(S) + Len(h) /\ Len(S) \in Nat
      /\ \A i \in 1..(Len(S) + Len(h)) : T[i] = IF i <= Len(S) THEN S[i] ELSE h[i - Len(S)]
  <2>1. \A s1, s2 \in Seq(Byte) :
           /\ Len(s1 \o s2) = Len(s1) + Len(s2) /\ Len(s1) \in Nat
           /\ \A i \in 1..(Len(s1) + Len(s2)) :
                 (s1 \o s2)[i] = IF i <= Len(s1) THEN s1[i] ELSE s2[i - Len(s1)]
    BY ConcatProperties
  <2> QED
    BY <1>2, <1>3, <1>4, <2>1, Zenon
<1>6. Len(T) = Len(S) + 1 + Size(f)
  BY <1>1, <1>2, <1>5
<1>7. ASSUME NEW i \in 1..Len(S) PROVE T[i] = S[i]
  BY <1>1, <1>2, <1>5
<1>8. ASSUME NEW i \in 0..Size(f) PROVE T[Len(S) + 1 + i] = FrameByte(f, i)
  <2>1. /\ Len(S) + 1 + i \in 1..(Len(S) + Len(h)) /\ ~(Len(S) + 1 + i <= Len(S))
        /\ (Len(S) + 1 + i) - Len(S) = 1 + i
    BY <1>1, <1>2, <1>5
  <2>2. T[Len(S) + 1 + i] = h[1 + i]
    BY <1>5, <2>1
  <2> QED
    BY <1>2, <2>2
<1>9. Written(S, T, f)
  BY <1>1, <1>5, <1>6, <1>7, <1>8 DEF Written
<1> QED
  BY <1>9 DEF S, T

\* A byte of noise behind the line.
LEMMA StreamNoise ==
    ASSUME NEW s \in Seq(Byte), NEW l \in Seq(Byte), NEW b \in Byte
    PROVE  s \o Append(l, b) = Append(s \o l, b)
<1>1. <<b>> \in Seq(Byte)
  OBVIOUS
<1>2. s \o l \in Seq(Byte)
  BY ConcatProperties
<1>3. Append(l, b) = l \o <<b>> /\ Append(s \o l, b) = (s \o l) \o <<b>>
  BY <1>2, AppendIsConcat
<1>4. (s \o l) \o <<b>> = s \o (l \o <<b>>)
  BY <1>1, BytesAssociative, Zenon
<1> QED
  BY <1>3, <1>4

\* What the parsers hold is typed.
LEMMA StreamTyped ==
    ASSUME TypeOK
    PROVE  /\ buffer \in Seq(Byte) /\ line \in Seq(Byte) /\ data \in Seq(Byte)
           /\ Held \in Seq(Byte) /\ Held \o data \in Seq(Byte)
           /\ HostStream \in Seq(Byte) /\ RouterStream \in Seq(Byte)
<1>1. /\ buffer \in Seq(Byte) /\ line \in Seq(Byte) /\ data \in Seq(Byte)
      /\ rx.id \in Byte \cup {NoId} /\ rx.buf \in Seq(Byte)
  BY DEF TypeOK
<1>2. Held \in Seq(Byte)
  <2>1. CASE rx.id = NoId
    BY <2>1 DEF Held
  <2>2. CASE rx.id # NoId
    <3>1. <<rx.id>> \in Seq(Byte)
      BY <1>1, <2>2
    <3> QED
      BY <1>1, <2>2, <3>1, ConcatProperties DEF Held
  <2> QED
    BY <2>1, <2>2
<1>3. Held \o data \in Seq(Byte) /\ HostStream \in Seq(Byte)
  BY <1>1, <1>2, ConcatProperties DEF HostStream
<1>4. RouterStream \in Seq(Byte)
  BY <1>1, <1>3, ConcatProperties DEF RouterStream
<1> QED
  BY <1>1, <1>2, <1>3, <1>4

\* The frame that is sent goes behind both stretches.
LEMMA SentBehind ==
    ASSUME TypeInv, NEW id \in Ids, NEW p \in Payloads, Send(id, p)
    PROVE  /\ \E f : /\ sent' = Append(sent, f) /\ f \in Sendable
                     /\ Written(HostStream, HostStream', f)
                     /\ Written(RouterStream, RouterStream', f)
           /\ delivered' = delivered /\ dispatched' = dispatched
<1> DEFINE f == [id |-> id, packet |-> Packet(Len(sent) + 1, p)]
<1>0. TypeOK /\ Len(sent) \in Nat
  BY DEF TypeInv, TypeOK
<1>1. Len(sent) < MAX_FRAMES
  BY DEF Send
<1>2. f \in Sendable
  BY <1>0, <1>1, PacketSendable
<1>3. /\ sent' = Append(sent, f) /\ line' = line \o <<f.id>> \o f.packet
      /\ rx' = rx /\ data' = data /\ dispatched' = dispatched /\ buffer' = buffer
      /\ delivered' = delivered
  BY DEF Send
<1> HIDE DEF f
<1>4. /\ buffer \in Seq(Byte) /\ line \in Seq(Byte) /\ Held \o data \in Seq(Byte)
  BY <1>0, StreamTyped
<1>5. /\ HostStream' = buffer \o (line \o <<f.id>> \o f.packet)
      /\ RouterStream' = (Held \o data) \o (line \o <<f.id>> \o f.packet)
  BY <1>3 DEF HostStream, RouterStream, Held
<1>6. /\ Written(HostStream, HostStream', f)
      /\ Written(RouterStream, RouterStream', f)
  BY <1>2, <1>4, <1>5, StreamSent DEF HostStream, RouterStream
<1> QED
  BY <1>2, <1>3, <1>6

LEMMA SendInStep ==
    ASSUME TypeInv, HostInStep, RouterInStep, NEW id \in Ids, NEW p \in Payloads, Send(id, p)
    PROVE  HostInStep' /\ RouterInStep'
<1>0. /\ sent \in Seq(Sendable) /\ Len(sent) \in Nat
      /\ delivered \in Seq(Frame) /\ dispatched \in Seq(Frame)
  BY DEF TypeInv, SentOK, TypeOK
<1>1. PICK f : /\ sent' = Append(sent, f) /\ f \in Sendable
               /\ Written(HostStream, HostStream', f)
               /\ Written(RouterStream, RouterStream', f)
  BY SentBehind
<1>2. delivered' = delivered /\ dispatched' = dispatched
  BY SentBehind
<1>4. /\ Len(sent') = Len(sent) + 1 /\ sent'[Len(sent) + 1] = f
      /\ \A k \in 1..Len(sent) : sent'[k] = sent[k]
  BY <1>0, <1>1, AppendProperties
<1>8. ASSUME NEW S, NEW T, Written(S, T, f), NEW m \in Nat, m <= Len(sent), NEW from \in {1, 2},
             NEW off, NEW at, Placed(S, off, sent, m, at, from)
      PROVE  \E to : Placed(T, off, sent', m, to, from)
  BY <1>0, <1>4, <1>8, PlacedSent
<1>9. HostInStep'
  <2>1. PICK off, at : Placed(HostStream, off, sent, Len(delivered), at, 1)
    BY DEF HostInStep
  <2>2. Len(delivered) \in Nat /\ Len(delivered) <= Len(sent)
    BY <1>0 DEF HostInStep
  <2>3. \E to : Placed(HostStream', off, sent', Len(delivered), to, 1)
    BY <1>1, <1>8, <2>1, <2>2
  <2>4. \A i \in 1..Len(delivered) : delivered[i] = sent'[i]
    BY <1>0, <1>4, <2>2 DEF HostInStep
  <2> QED
    BY <1>0, <1>2, <1>4, <2>2, <2>3, <2>4 DEF HostInStep
<1>10. RouterInStep'
  <2>1. PICK off, at : Placed(RouterStream, off, sent, Len(dispatched), at, 2)
    BY DEF RouterInStep
  <2>2. Len(dispatched) \in Nat /\ Len(dispatched) <= Len(sent)
    BY <1>0 DEF RouterInStep
  <2>3. \E to : Placed(RouterStream', off, sent', Len(dispatched), to, 2)
    BY <1>1, <1>8, <2>1, <2>2
  <2>4. \A i \in 1..Len(dispatched) : dispatched[i].packet = sent'[i].packet
    BY <1>0, <1>4, <2>2 DEF RouterInStep
  <2> QED
    BY <1>0, <1>2, <1>4, <2>2, <2>3, <2>4 DEF RouterInStep
<1> QED
  BY <1>9, <1>10

\* Reading leaves both stretches as they are.
LEMMA ReadTakes ==
    ASSUME TypeInv, NEW n \in 1..Len(line), Read(n)
    PROVE  /\ HostStream' = HostStream /\ RouterStream' = RouterStream
           /\ sent' = sent /\ dispatched' = dispatched /\ delivered' = delivered
<1>1. /\ buffer \in Seq(Byte) /\ line \in Seq(Byte) /\ Held \in Seq(Byte)
  BY StreamTyped DEF TypeInv
<1>2. /\ data = <<>> /\ data' = SubSeq(line, 1, n)
      /\ buffer' = buffer \o SubSeq(line, 1, n) /\ line' = SubSeq(line, n + 1, Len(line))
      /\ sent' = sent /\ rx' = rx /\ dispatched' = dispatched /\ delivered' = delivered
  BY DEF Read
<1>3. HostStream' = HostStream
  BY <1>1, <1>2, StreamRead DEF HostStream
<1>4. Held' = Held
  BY <1>2 DEF Held
<1>5. RouterStream = Held \o line
  <2>1. Held \o data = Held
    BY <1>1, <1>2, ConcatEmptySeq
  <2> QED
    BY <2>1 DEF RouterStream
<1>6. RouterStream' = (Held \o SubSeq(line, 1, n)) \o SubSeq(line, n + 1, Len(line))
  BY <1>2, <1>4 DEF RouterStream
<1>7. RouterStream' = RouterStream
  BY <1>1, <1>5, <1>6, StreamRead
<1> QED
  BY <1>2, <1>3, <1>7

LEMMA ReadInStep ==
    ASSUME TypeInv, HostInStep, RouterInStep, NEW n \in 1..Len(line), Read(n)
    PROVE  HostInStep' /\ RouterInStep'
BY ReadTakes DEF HostInStep, RouterInStep

LEMMA NoiseInStep ==
    ASSUME TypeInv, HostInStep, RouterInStep, NEW b \in Noise, AddNoise(b)
    PROVE  HostInStep' /\ RouterInStep'
<1>0. /\ TypeOK /\ sent \in Seq(Sendable) /\ Len(sent) \in Nat
      /\ delivered \in Seq(Frame) /\ dispatched \in Seq(Frame)
      /\ Len(delivered) \in Nat /\ Len(dispatched) \in Nat
  BY DEF TypeInv, SentOK, TypeOK
<1>1. /\ buffer \in Seq(Byte) /\ line \in Seq(Byte) /\ Held \o data \in Seq(Byte) /\ b \in Byte
      /\ HostStream \in Seq(Byte) /\ RouterStream \in Seq(Byte)
  BY <1>0, StreamTyped, ConstantTypes
<1>2. /\ line' = Append(line, b) /\ sent' = sent /\ rx' = rx /\ data' = data /\ buffer' = buffer
      /\ dispatched' = dispatched /\ delivered' = delivered
  BY DEF AddNoise
<1>3. HostStream' = Append(HostStream, b) /\ RouterStream' = Append(RouterStream, b)
  BY <1>1, <1>2, StreamNoise DEF HostStream, RouterStream, Held
<1>4. ASSUME NEW S \in Seq(Byte), NEW m \in Nat, NEW from \in {1, 2}, NEW off, NEW at,
             Placed(S, off, sent, m, at, from)
      PROVE  Placed(Append(S, b), off, sent, m, at, from)
  <2>1. /\ Len(S) \in Nat /\ Len(Append(S, b)) = Len(S) + 1
        /\ \A i \in 1..Len(S) : Append(S, b)[i] = S[i]
        /\ Append(S, b)[Len(S) + 1] \in Noise
    BY <1>1, AppendProperties
  <2> QED
    BY <1>0, <1>4, <2>1, PlacedNoise
<1>5. HostInStep'
  BY <1>0, <1>1, <1>2, <1>3, <1>4 DEF HostInStep
<1>6. RouterInStep'
  BY <1>0, <1>1, <1>2, <1>3, <1>4 DEF RouterInStep
<1> QED
  BY <1>5, <1>6

\* What is left when bytes are taken from what a parser holds.
LEMMA StreamTaken ==
    ASSUME NEW s \in Seq(Byte), NEW t \in Seq(Byte), NEW l \in Seq(Byte),
           NEW d \in Nat, NEW from \in {1, 2}, NEW off \in Nat,
           Len(s) = Len(t) + d, \A i \in from..Len(t) : t[i] = s[i + d],
           from = 1 \/ Len(t) > 0
    PROVE  Taken(s \o l, off, t \o l, off + d, from)
<1> DEFINE S == s \o l
           T == t \o l
<1>1. /\ Len(s) \in Nat /\ Len(t) \in Nat /\ Len(l) \in Nat
      /\ S \in Seq(Byte) /\ Len(S) = Len(s) + Len(l)
      /\ \A i \in 1..(Len(s) + Len(l)) : S[i] = IF i <= Len(s) THEN s[i] ELSE l[i - Len(s)]
      /\ T \in Seq(Byte) /\ Len(T) = Len(t) + Len(l)
      /\ \A i \in 1..(Len(t) + Len(l)) : T[i] = IF i <= Len(t) THEN t[i] ELSE l[i - Len(t)]
  <2>1. \A s1, s2 \in Seq(Byte) :
           /\ s1 \o s2 \in Seq(Byte) /\ Len(s1 \o s2) = Len(s1) + Len(s2) /\ Len(s1) \in Nat
           /\ \A i \in 1..(Len(s1) + Len(s2)) :
                 (s1 \o s2)[i] = IF i <= Len(s1) THEN s1[i] ELSE s2[i - Len(s1)]
    BY ConcatProperties
  <2> QED
    BY <2>1, Zenon
<1> HIDE DEF S, T
<1>2. ASSUME NEW i \in from..Len(T) PROVE T[i] = S[i + d]
  <2>0. i \in 1..(Len(t) + Len(l)) /\ i + d \in 1..(Len(s) + Len(l))
    BY <1>1
  <2>1. CASE i <= Len(t)
    <3>1. T[i] = t[i] /\ t[i] = s[i + d]
      BY <1>1, <2>0, <2>1
    <3>2. i + d <= Len(s)
      BY <1>1, <2>1
    <3> QED
      BY <1>1, <2>0, <3>1, <3>2
  <2>2. CASE ~(i <= Len(t))
    <3>1. ~(i + d <= Len(s)) /\ (i + d) - Len(s) = i - Len(t)
      BY <1>1, <2>2
    <3>2. S[i + d] = l[(i + d) - Len(s)]
      BY <1>1, <2>0, <3>1
    <3>3. T[i] = l[i - Len(t)]
      BY <1>1, <2>0, <2>2
    <3> QED
      BY <3>1, <3>2, <3>3
  <2> QED
    BY <2>1, <2>2
<1>3. ASSUME NEW p \in ((off + d) + from)..((off + d) + Len(T))
      PROVE  T[p - (off + d)] = S[p - off]
  <2>1. p - (off + d) \in from..Len(T) /\ (p - (off + d)) + d = p - off
    BY <1>1
  <2>2. T[p - (off + d)] = S[(p - (off + d)) + d]
    BY <1>2, <2>1
  <2> QED
    BY <2>1, <2>2
<1>4. /\ Len(S) \in Nat /\ Len(T) \in Nat /\ off + d \in Nat /\ off <= off + d
      /\ (off + d) + Len(T) = off + Len(S)
  BY <1>1
<1>5. Taken(S, off, T, off + d, from)
  BY <1>3, <1>4 DEF Taken
<1> QED
  BY <1>5 DEF S, T

\* A byte is skipped: it was not the first of a frame.
LEMMA PlacedSkipped ==
    ASSUME NEW frames, Len(frames) \in Nat, NEW S, NEW T, NEW off, NEW m \in Nat,
           NEW at, NEW from \in {1, 2},
           Placed(S, off, frames, m, at, from), Taken(S, off, T, off + 1, from),
           \A k \in 1..Len(frames) : frames[k] \in Sendable,
           ~(S[2] = MAGIC_LO /\ S[3] = MAGIC_HI)
    PROVE  Placed(T, off + 1, frames, m, at, from)
<1>0. off \in Nat
  BY DEF Placed
<1>1. ASSUME NEW k \in (m + 1)..Len(frames)
      PROVE  off + 1 < at[k]
  <2>0. frames[k] \in Sendable
    OBVIOUS
  <2>1. /\ at[k] \in Nat /\ off < at[k]
        /\ \A p \in at[k]..End(frames, at, k) :
              p >= off + from => S[p - off] = FrameByte(frames[k], p - at[k])
    BY DEF Placed
  <2>2. Size(frames[k]) \in Nat /\ Size(frames[k]) >= 4
    BY <2>0, SendableFacts
  <2>3. at[k] # off + 1
    <3> SUFFICES ASSUME at[k] = off + 1 PROVE FALSE
      OBVIOUS
    <3>1. End(frames, at, k) = off + 1 + Size(frames[k])
      BY DEF End
    <3>2. /\ off + 2 \in at[k]..End(frames, at, k) /\ off + 2 >= off + from
          /\ off + 3 \in at[k]..End(frames, at, k) /\ off + 3 >= off + from
          /\ (off + 2) - off = 2 /\ (off + 2) - at[k] = 1
          /\ (off + 3) - off = 3 /\ (off + 3) - at[k] = 2
      BY <1>0, <2>2, <3>1
    <3>3. S[(off + 2) - off] = FrameByte(frames[k], (off + 2) - at[k])
      BY <2>1, <3>2
    <3>4. S[(off + 3) - off] = FrameByte(frames[k], (off + 3) - at[k])
      BY <2>1, <3>2
    <3>5. S[2] = FrameByte(frames[k], 1) /\ S[3] = FrameByte(frames[k], 2)
      BY <3>2, <3>3, <3>4
    <3> QED
      BY <2>0, <3>5, SendableFacts DEF FrameByte
  <2> QED
    BY <1>0, <2>1, <2>3
<1>2. Parted(frames, at, m, m, off + 1)
  BY <1>1 DEF Parted
<1> QED
  BY <1>2, PlacedTaken

\* The frame at the head of the stretch is taken as a whole.
LEMMA PlacedNext ==
    ASSUME NEW frames, Len(frames) \in Nat, NEW S, NEW T, NEW off, NEW m \in Nat,
           m < Len(frames), NEW at, NEW from \in {1, 2}, NEW off2,
           Placed(S, off, frames, m, at, from),
           off2 = End(frames, at, m + 1), Taken(S, off, T, off2, from)
    PROVE  Placed(T, off2, frames, m + 1, at, from)
<1>0. m + 1 \in (m + 1)..Len(frames) /\ m + 1 \in Nat /\ m <= m + 1
  OBVIOUS
<1>1. ASSUME NEW k \in ((m + 1) + 1)..Len(frames)
      PROVE  off2 < at[k]
  <2>1. k \in (m + 1)..Len(frames) /\ m + 1 < k
    OBVIOUS
  <2> QED
    BY <1>0, <2>1 DEF Placed
<1>2. ASSUME NEW k \in (m + 1)..Len(frames), k <= m + 1
      PROVE  End(frames, at, k) <= off2 + 1
  <2>1. k = m + 1
    BY <1>2
  <2>2. off2 \in Nat
    BY DEF Taken
  <2> QED
    BY <2>1, <2>2
<1>3. Parted(frames, at, m, m + 1, off2)
  BY <1>0, <1>1, <1>2 DEF Parted
<1>4. \A n : Parted(frames, at, m, n, off2) => Placed(T, off2, frames, n, at, from)
  BY PlacedTaken
<1> QED
  BY <1>3, <1>4, Zenon

\* The bytes in buf follow the first of S.
Seen(S, buf) ==
    /\ Len(S) \in Nat /\ Len(buf) \in Nat /\ Len(buf) >= 4
    /\ 1 + Len(buf) <= Len(S)
    /\ \A i \in 1..Len(buf) : S[i + 1] = buf[i]

LEMMA SmallRemainder ==
    ASSUME NEW a \in Nat, NEW b \in Nat, a < b
    PROVE  a % b = a
OBVIOUS

\* The (m+1)-th frame is the one at the head of S.
AtHead(S, off, frames, m, at, from, buf) ==
    /\ m < Len(frames) /\ at[m + 1] = off + 1
    /\ frames[m + 1] \in Sendable
    /\ 1 + Size(frames[m + 1]) <= Len(S)
    /\ End(frames, at, m + 1) = off + 1 + Size(frames[m + 1])
    /\ from = 1 => S[1] = frames[m + 1].id
    /\ \A i \in 1..Size(frames[m + 1]) : S[i + 1] = frames[m + 1].packet[i]
    /\ buf[4] = Size(frames[m + 1]) - 4
    /\ TotalLen(buf) = Size(frames[m + 1])

\* What a parser reads of the header of the frame at the head of S.
LEMMA HeadFields ==
    ASSUME NEW frames, NEW S, NEW off, NEW m \in Nat, NEW at, NEW from,
           NEW buf, Seen(S, buf),
           m < Len(frames), at[m + 1] = off + 1, frames[m + 1] \in Sendable,
           1 + Size(frames[m + 1]) <= Len(S),
           End(frames, at, m + 1) = off + 1 + Size(frames[m + 1]),
           from = 1 => S[1] = frames[m + 1].id,
           \A i \in 1..Size(frames[m + 1]) : S[i + 1] = frames[m + 1].packet[i]
    PROVE  AtHead(S, off, frames, m, at, from, buf)
<1>1. S[5] = buf[4]
  <2>1. 4 \in 1..Len(buf)
    BY DEF Seen
  <2>2. S[4 + 1] = buf[4]
    BY <2>1 DEF Seen
  <2> QED
    BY <2>2
<1>5. /\ Size(frames[m + 1]) \in Nat /\ Size(frames[m + 1]) >= 4
      /\ Size(frames[m + 1]) <= MAX_PACKET
      /\ frames[m + 1].packet[4] = Size(frames[m + 1]) - 4
  BY SendableFacts
<1>6. buf[4] = Size(frames[m + 1]) - 4
  <2>1. 4 \in 1..Size(frames[m + 1])
    BY <1>5
  <2>2. S[4 + 1] = frames[m + 1].packet[4]
    BY <2>1
  <2> QED
    BY <1>1, <1>5, <2>2
<1>7. TotalLen(buf) = Size(frames[m + 1])
  <2>1. HEADER + buf[4] = Size(frames[m + 1])
    BY <1>5, <1>6 DEF HEADER
  <2>2. Size(frames[m + 1]) < BYTE /\ BYTE \in Nat
    BY <1>5, PayloadsFit, ConstantTypes
  <2>3. Size(frames[m + 1]) % BYTE = Size(frames[m + 1])
    BY <1>5, <2>2, SmallRemainder
  <2> QED
    BY <2>1, <2>3 DEF TotalLen
<1> QED
  BY <1>6, <1>7 DEF AtHead

\* The magic number in buf is that of the stretch.
LEMMA MagicSeen ==
    ASSUME NEW S, NEW buf, Seen(S, buf), HasMagic(buf)
    PROVE  S[2] = MAGIC_LO /\ S[3] = MAGIC_HI /\ Len(S) \in Nat /\ Len(S) >= 3
<1>1. 1 \in 1..Len(buf) /\ 2 \in 1..Len(buf)
  BY DEF Seen
<1>2. S[1 + 1] = buf[1] /\ S[2 + 1] = buf[2]
  BY <1>1 DEF Seen
<1>3. Len(S) \in Nat /\ Len(S) >= 3
  BY DEF Seen
<1> QED
  BY <1>2, <1>3 DEF HasMagic

LEMMA NoMagicSeen ==
    ASSUME NEW S, NEW buf, Seen(S, buf), ~HasMagic(buf)
    PROVE  ~(S[2] = MAGIC_LO /\ S[3] = MAGIC_HI)
<1>1. 1 \in 1..Len(buf) /\ 2 \in 1..Len(buf) /\ 1 + 1 = 2 /\ 2 + 1 = 3
  BY DEF Seen
<1>2. S[1 + 1] = buf[1] /\ S[2 + 1] = buf[2]
  BY <1>1 DEF Seen
<1> QED
  BY <1>1, <1>2 DEF HasMagic

\* A parser that sees the magic number has the first frame to come at its head,
\* and reads that frame's length and bytes.
LEMMA HeadKnown ==
    ASSUME NEW frames \in Seq(Sendable), NEW S, NEW off, NEW m \in Nat,
           NEW at, NEW from \in {1, 2},
           Placed(S, off, frames, m, at, from),
           NEW buf, Seen(S, buf), HasMagic(buf)
    PROVE  AtHead(S, off, frames, m, at, from, buf)
<1>0. Len(frames) \in Nat /\ \A k \in 1..Len(frames) : frames[k] \in Sendable
  OBVIOUS
<1>1. S[2] = MAGIC_LO /\ S[3] = MAGIC_HI /\ Len(S) \in Nat /\ Len(S) >= 3
  BY MagicSeen
<1>2. m < Len(frames) /\ at[m + 1] = off + 1
  BY <1>0, <1>1, MagicAtHead
<1>3. frames[m + 1] \in Sendable
  BY <1>0, <1>2
<1>4. /\ 1 + Size(frames[m + 1]) <= Len(S)
      /\ End(frames, at, m + 1) = off + 1 + Size(frames[m + 1])
      /\ from = 1 => S[1] = frames[m + 1].id
      /\ \A i \in 1..Size(frames[m + 1]) : S[i + 1] = frames[m + 1].packet[i]
  BY <1>0, <1>1, <1>2, <1>3, FrameAtHead
<1> QED
  BY <1>2, <1>3, <1>4, HeadFields

\* The length in the header of a packet.
Declared(buf) == buf[4]

\* What the host holds is seen in the stretch.
LEMMA HostSees ==
    ASSUME TypeOK
    PROVE  /\ Len(buffer) \in Nat /\ Len(HostStream) \in Nat /\ Len(buffer) <= Len(HostStream)
           /\ \A i \in 1..Len(buffer) : HostStream[i] = buffer[i]
           /\ Len(buffer) > HEADER =>
                 /\ Seen(HostStream, Tail(buffer))
                 /\ FrameLen = 5 + Declared(Tail(buffer))
                 /\ FrameLen \in Nat /\ FrameLen <= BYTE + 4
<1>1. buffer \in Seq(Byte) /\ line \in Seq(Byte) /\ HostStream \in Seq(Byte)
  BY StreamTyped
<1>2. /\ Len(buffer) \in Nat /\ Len(HostStream) \in Nat /\ Len(buffer) <= Len(HostStream)
      /\ \A i \in 1..Len(buffer) : HostStream[i] = buffer[i]
  BY <1>1, ConcatProperties DEF HostStream
<1>3. ASSUME Len(buffer) > HEADER
      PROVE  /\ Seen(HostStream, Tail(buffer))
             /\ FrameLen = 5 + Declared(Tail(buffer))
             /\ FrameLen \in Nat /\ FrameLen <= BYTE + 4
  <2>1. Len(buffer) > 4 /\ buffer # <<>>
    BY <1>1, <1>3 DEF HEADER
  <2> DEFINE buf == Tail(buffer)
  <2>2. /\ buf \in Seq(Byte) /\ Len(buf) = Len(buffer) - 1
        /\ \A i \in 1..Len(buf) : buf[i] = buffer[i + 1]
    BY <1>1, <2>1, HeadTailProperties
  <2> HIDE DEF buf
  <2>3. Len(buf) \in Nat /\ Len(buf) >= 4 /\ 1 + Len(buf) <= Len(HostStream)
    BY <1>2, <2>1, <2>2
  <2>4. ASSUME NEW i \in 1..Len(buf) PROVE HostStream[i + 1] = buf[i]
    <3>1. i + 1 \in 1..Len(buffer)
      BY <1>2, <2>2
    <3> QED
      BY <1>2, <2>2, <3>1
  <2>5. Seen(HostStream, buf)
    BY <1>2, <2>3, <2>4 DEF Seen
  <2>6. buf[4] = buffer[5] /\ buf[4] \in Byte
    BY <2>2, <2>3
  <2>7. FrameLen = 5 + Declared(buf) /\ FrameLen \in Nat /\ FrameLen <= BYTE + 4
    BY <2>6, ConstantTypes DEF FrameLen, HEADER, Byte, Declared
  <2> QED
    BY <2>5, <2>6, <2>7 DEF buf
<1> QED
  BY <1>2, <1>3

\* What the host takes from the stretch when it discards a byte.
LEMMA DiscardTakes ==
    ASSUME TypeInv, Discard
    PROVE  /\ \A off \in Nat : Taken(HostStream, off, HostStream', off + 1, 1)
           /\ ~(HostStream[2] = MAGIC_LO /\ HostStream[3] = MAGIC_HI)
           /\ Len(HostStream) \in Nat /\ Len(HostStream) >= 1
           /\ sent' = sent /\ line' = line /\ delivered' = delivered
<1>0. TypeOK
  BY DEF TypeInv
<1>1. buffer \in Seq(Byte) /\ line \in Seq(Byte)
  BY <1>0, StreamTyped
<1>2. /\ buffer # <<>> /\ buffer' = Tail(buffer)
      /\ sent' = sent /\ line' = line /\ delivered' = delivered
  BY DiscardTyped DEF Discard
<1>3. /\ Tail(buffer) \in Seq(Byte) /\ Len(buffer) = Len(Tail(buffer)) + 1
      /\ \A i \in 1..Len(Tail(buffer)) : Tail(buffer)[i] = buffer[i + 1]
  <2>1. /\ Tail(buffer) \in Seq(Byte) /\ Len(Tail(buffer)) = Len(buffer) - 1
        /\ \A i \in 1..Len(Tail(buffer)) : Tail(buffer)[i] = buffer[i + 1]
    BY <1>1, <1>2, HeadTailProperties
  <2> QED
    BY <1>1, <2>1
<1>4. ASSUME NEW off \in Nat PROVE Taken(HostStream, off, HostStream', off + 1, 1)
  BY <1>1, <1>2, <1>3, <1>4, StreamTaken DEF HostStream
<1>5. Len(buffer) \in Nat /\ Len(buffer) > HEADER /\ Len(buffer) > 4 /\ ~HasMagic(Tail(buffer))
  BY <1>1 DEF Discard, Discards, HEADER
<1>6. Seen(HostStream, Tail(buffer))
  BY <1>0, <1>5, HostSees
<1>7. ~(HostStream[2] = MAGIC_LO /\ HostStream[3] = MAGIC_HI)
  BY <1>5, <1>6, NoMagicSeen
<1> QED
  BY <1>2, <1>4, <1>6, <1>7 DEF Seen

\* The host discards a byte.
LEMMA DiscardInStep ==
    ASSUME TypeInv, HostInStep, Discard
    PROVE  HostInStep'
<1>1. /\ sent \in Seq(Sendable) /\ Len(sent) \in Nat /\ Len(delivered) \in Nat
      /\ \A k \in 1..Len(sent) : sent[k] \in Sendable
  BY DEF TypeInv, SentOK, TypeOK
<1>2. PICK off, at : Placed(HostStream, off, sent, Len(delivered), at, 1)
  BY DEF HostInStep
<1>3. off \in Nat
  BY <1>2 DEF Placed
<1>4. /\ Taken(HostStream, off, HostStream', off + 1, 1)
      /\ ~(HostStream[2] = MAGIC_LO /\ HostStream[3] = MAGIC_HI)
      /\ sent' = sent /\ delivered' = delivered
  BY <1>3, DiscardTakes
<1>5. Placed(HostStream', off + 1, sent, Len(delivered), at, 1)
  BY <1>1, <1>2, <1>4, PlacedSkipped
<1> QED
  BY <1>4, <1>5 DEF HostInStep

\* What a parser passes on is the frame at the head of S, if it has its length.
LEMMA FrameEqual ==
    ASSUME NEW g \in Sendable, NEW f, f = [id |-> f.id, packet |-> f.packet],
           f.packet \in Seq(Byte), Len(f.packet) = Size(g),
           \A i \in 1..Size(g) : f.packet[i] = g.packet[i]
    PROVE  f.packet = g.packet /\ (f.id = g.id => f = g)
<1>1. /\ g \in Frame /\ g.packet \in Seq(Byte) /\ Len(g.packet) = Size(g)
  BY SendableFacts
<1>2. f.packet = g.packet
  BY <1>1, SeqEqual
<1>3. g = [id |-> g.id, packet |-> g.packet]
  BY <1>1 DEF Frame
<1> QED
  BY <1>2, <1>3

\* What the host takes from the stretch when it passes a frame on.
LEMMA DeliverTakes ==
    ASSUME TypeInv, Deliver
    PROVE  /\ Seen(HostStream, Tail(buffer)) /\ HasMagic(Tail(buffer))
           /\ FrameLen = 5 + Declared(Tail(buffer)) /\ FrameLen \in Nat /\ FrameLen <= BYTE + 4
           /\ \A off \in Nat : Taken(HostStream, off, HostStream', off + FrameLen, 1)
           /\ sent' = sent /\ line' = line
           /\ \E f \in Frame :
                 /\ delivered' = Append(delivered, f)
                 /\ f.id = HostStream[1] /\ Len(f.packet) = FrameLen - 1
                 /\ \A i \in 1..(FrameLen - 1) : f.packet[i] = HostStream[i + 1]
<1>0. TypeOK
  BY DEF TypeInv
<1>1. buffer \in Seq(Byte) /\ line \in Seq(Byte)
  BY <1>0, StreamTyped
<1>2. Delivers /\ Len(buffer) > HEADER /\ HasMagic(Tail(buffer))
  BY DEF Deliver, Delivers
<1>3. /\ Len(buffer) \in Nat /\ Len(HostStream) \in Nat /\ Len(buffer) <= Len(HostStream)
      /\ \A i \in 1..Len(buffer) : HostStream[i] = buffer[i]
      /\ Seen(HostStream, Tail(buffer))
      /\ FrameLen = 5 + Declared(Tail(buffer))
  BY <1>0, <1>2, HostSees
<1>4. FrameLen \in Nat /\ FrameLen <= BYTE + 4
  BY <1>0, <1>2, HostSees
<1> DEFINE f == [id |-> buffer[1], packet |-> SubSeq(buffer, 2, FrameLen)]
           T == SubSeq(buffer, FrameLen + 1, Len(buffer))
<1>5. /\ buffer[1] \in Byte
      /\ FrameLen >= 5 /\ FrameLen <= Len(buffer)
      /\ f.packet \in Seq(Byte) /\ Len(f.packet) = FrameLen - 1
      /\ \A i \in 1..(FrameLen - 1) : f.packet[i] = buffer[i + 1]
      /\ T \in Seq(Byte) /\ Len(T) = Len(buffer) - FrameLen
      /\ \A i \in 1..(Len(buffer) - FrameLen) : T[i] = buffer[i + FrameLen]
  BY <1>1, <1>2, DeliverFacts
<1>6. /\ delivered' = Append(delivered, f) /\ buffer' = T
      /\ sent' = sent /\ line' = line
  BY DEF Deliver
<1>7. f \in Frame /\ f.id = buffer[1]
  BY <1>5 DEF Frame
<1> HIDE DEF f, T
<1>b. /\ Len(buffer) \in Nat /\ FrameLen \in Nat
      /\ FrameLen >= 5 /\ FrameLen <= Len(buffer)
  BY <1>3, <1>4, <1>5
<1>8. f.id = HostStream[1]
  <2>1. 1 \in 1..Len(buffer)
    BY <1>b
  <2> QED
    BY <1>3, <1>7, <2>1
<1>9. ASSUME NEW i \in 1..(FrameLen - 1) PROVE f.packet[i] = HostStream[i + 1]
  <2>1. i + 1 \in 1..Len(buffer)
    BY <1>b
  <2> QED
    BY <1>3, <1>5, <2>1
<1>10. ASSUME NEW off \in Nat PROVE Taken(HostStream, off, HostStream', off + FrameLen, 1)
  <2>1. Len(buffer) = Len(T) + FrameLen
    <3>1. Len(T) = Len(buffer) - FrameLen
      BY <1>5
    <3> QED
      BY <1>b, <3>1
  <2>2. \A i \in 1..Len(T) : T[i] = buffer[i + FrameLen]
    BY <1>5
  <2> QED
    BY <1>1, <1>4, <1>5, <1>6, <1>10, <2>1, <2>2, StreamTaken DEF HostStream
<1> QED
  BY <1>2, <1>3, <1>4, <1>5, <1>6, <1>7, <1>8, <1>9, <1>10

\* The host passes on the next frame.
LEMMA DeliverInStep ==
    ASSUME TypeInv, HostInStep, Deliver
    PROVE  HostInStep'
<1>0. /\ sent \in Seq(Sendable) /\ Len(sent) \in Nat
      /\ delivered \in Seq(Frame) /\ Len(delivered) \in Nat
  BY DEF TypeInv, SentOK, TypeOK
<1>1. /\ Seen(HostStream, Tail(buffer)) /\ HasMagic(Tail(buffer))
      /\ FrameLen = 5 + Declared(Tail(buffer)) /\ FrameLen \in Nat
      /\ \A off \in Nat : Taken(HostStream, off, HostStream', off + FrameLen, 1)
      /\ sent' = sent /\ line' = line
  BY DeliverTakes
<1>2. PICK f \in Frame : /\ delivered' = Append(delivered, f)
                         /\ f.id = HostStream[1] /\ Len(f.packet) = FrameLen - 1
                         /\ \A i \in 1..(FrameLen - 1) : f.packet[i] = HostStream[i + 1]
  BY DeliverTakes
<1>3. PICK off, at : Placed(HostStream, off, sent, Len(delivered), at, 1)
  BY DEF HostInStep
<1> DEFINE k == Len(delivered) + 1
<1>4. AtHead(HostStream, off, sent, Len(delivered), at, 1, Tail(buffer))
  <2>1. 1 \in {1, 2}
    OBVIOUS
  <2> QED
    BY <1>0, <1>1, <1>3, <2>1, HeadKnown
<1>5. /\ Len(delivered) < Len(sent) /\ sent[k] \in Sendable
      /\ End(sent, at, k) = off + 1 + Size(sent[k])
      /\ HostStream[1] = sent[k].id
      /\ \A i \in 1..Size(sent[k]) : HostStream[i + 1] = sent[k].packet[i]
      /\ Declared(Tail(buffer)) = Size(sent[k]) - 4
  BY <1>4 DEF AtHead, Declared
<1>6. Size(sent[k]) \in Nat /\ off \in Nat
  BY <1>3, <1>5, SendableFacts DEF Placed
<1>7. FrameLen = 1 + Size(sent[k]) /\ FrameLen - 1 = Size(sent[k])
  <2>1. PICK z \in Nat : z = Size(sent[k])
    BY <1>6
  <2>2. FrameLen = 5 + (z - 4)
    BY <1>1, <1>5, <2>1, Zenon
  <2>3. FrameLen = 1 + z /\ FrameLen - 1 = z
    BY <2>2
  <2> QED
    BY <2>1, <2>3
<1>8. off + FrameLen = End(sent, at, k)
  BY <1>5, <1>6, <1>7
<1>9. f = sent[k]
  <2>1. /\ f.packet \in Seq(Byte) /\ f = [id |-> f.id, packet |-> f.packet]
    BY DEF Frame
  <2>2. Len(f.packet) = Size(sent[k]) /\ f.id = sent[k].id
    BY <1>2, <1>5, <1>7
  <2>3. \A i \in 1..Size(sent[k]) : f.packet[i] = sent[k].packet[i]
    BY <1>2, <1>5, <1>7
  <2> QED
    BY <1>5, <2>1, <2>2, <2>3, FrameEqual
<1>10. Taken(HostStream, off, HostStream', off + FrameLen, 1)
  BY <1>1, <1>6
<1>11. Placed(HostStream', off + FrameLen, sent, k, at, 1)
  BY <1>0, <1>3, <1>5, <1>8, <1>10, PlacedNext
<1>12. /\ Len(delivered') = k /\ delivered'[k] = f
       /\ \A i \in 1..Len(delivered) : delivered'[i] = delivered[i]
  BY <1>0, <1>2, AppendProperties
<1>13. \A i \in 1..Len(delivered') : delivered'[i] = sent[i]
  <2> SUFFICES ASSUME NEW i \in 1..Len(delivered') PROVE delivered'[i] = sent[i]
    OBVIOUS
  <2>1. CASE i = k
    BY <1>9, <1>12, <2>1
  <2>2. CASE i # k
    <3>1. i \in 1..Len(delivered)
      BY <1>0, <1>12, <2>2
    <3> QED
      BY <1>12, <3>1 DEF HostInStep
  <2> QED
    BY <2>1, <2>2
<1>14. Len(delivered') <= Len(sent)
  BY <1>0, <1>5, <1>12
<1>15. Placed(HostStream', off + FrameLen, sent, Len(delivered'), at, 1)
  BY <1>11, <1>12
<1> QED
  BY <1>1, <1>13, <1>14, <1>15 DEF HostInStep

-----------------------------------------------------------------------------
\* What a turn of the router's parser does to BufferWaits.
LEMMA FeedWaits ==
    ASSUME TypeOK, BufferWaits, command_parser_feed
    PROVE  BufferWaits'
<1>0. data \in Seq(Byte) /\ data # <<>> /\ rx.buf \in Seq(Byte)
  BY DEF TypeOK, command_parser_feed
<1>1. Head(data) \in Byte /\ NoId \notin Byte
  BY <1>0, Bytes, ConstantTypes DEF Byte, NoId
<1>2. CASE Started(Head(data))
  BY <1>1, <1>2 DEF Started, BufferWaits, HEADER
<1>3. CASE Overflowed
  BY <1>3 DEF Overflowed, BufferWaits, HEADER
<1>4. ASSUME NEW buf, buf = Append(rx.buf, Head(data)), Kept(buf) \/ Skipped(buf) \/ Passed(buf)
      PROVE  BufferWaits'
  <2>1. CASE Kept(buf)
    BY <2>1 DEF Kept, BufferWaits
  <2>2. CASE Skipped(buf)
    <3>1. /\ buf \in Seq(Byte) /\ buf # <<>> /\ Len(buf) = Len(rx.buf) + 1 /\ Len(rx.buf) \in Nat
          /\ \A i \in 1..Len(rx.buf) : buf[i] = rx.buf[i]
      BY SMTT(30), <1>0, <1>1, <1>4, AppendProperties
    <3>2. Len(rx.buf) < HEADER
      <4> SUFFICES ASSUME ~(Len(rx.buf) < HEADER) PROVE FALSE
        OBVIOUS
      <4>1. HasMagic(rx.buf)
        BY DEF BufferWaits
      <4>2. buf[1] = rx.buf[1] /\ buf[2] = rx.buf[2]
        BY <3>1 DEF HEADER
      <4> QED
        BY <2>2, <4>1, <4>2 DEF Skipped, HasMagic
    <3>3. Len(Tail(buf)) = Len(rx.buf)
      BY <3>1, HeadTailProperties
    <3> QED
      BY <2>2, <3>2, <3>3 DEF Skipped, BufferWaits
  <2>3. CASE Passed(buf)
    BY <2>3 DEF Passed, BufferWaits, HEADER
  <2> QED
    BY <1>4, <2>1, <2>2, <2>3
<1> QED
  BY <1>2, <1>3, <1>4, FeedOutcomes

\* The byte the router's parser takes and the bytes it holds before it.
LEMMA RouterFeeds ==
    ASSUME TypeOK, data # <<>>
    PROVE  LET rest == Tail(data) \o line
           IN  /\ rest \in Seq(Byte) /\ Head(data) \in Byte
               /\ RouterStream = (Held \o <<Head(data)>>) \o rest
<1>0. /\ data \in Seq(Byte) /\ line \in Seq(Byte) /\ Held \in Seq(Byte)
  BY StreamTyped
<1>1. /\ Head(data) \in Byte /\ Tail(data) \in Seq(Byte) /\ <<Head(data)>> \in Seq(Byte)
  BY <1>0, HeadTailProperties
<1> DEFINE b == <<Head(data)>>
           t == Tail(data)
<1>2. data = b \o t
  <2>1. b \o t \in Seq(Byte) /\ Len(b \o t) = 1 + Len(t)
        /\ \A i \in 1..(1 + Len(t)) : (b \o t)[i] = IF i <= 1 THEN b[i] ELSE t[i - 1]
    BY <1>1, ConcatProperties
  <2>2. /\ Len(t) = Len(data) - 1 /\ Len(data) \in Nat
        /\ \A i \in 1..Len(t) : t[i] = data[i + 1]
    BY <1>0, HeadTailProperties
  <2>3. b[1] = data[1]
    OBVIOUS
  <2>4. Len(t) \in Nat
    BY <1>1
  <2> HIDE DEF b, t
  <2>5. ASSUME NEW i \in 1..Len(data) PROVE (b \o t)[i] = data[i]
    <3>1. CASE i = 1
      BY <2>1, <2>3, <2>4, <3>1
    <3>2. CASE i # 1
      <4>1. i \in 1..(1 + Len(t)) /\ ~(i <= 1) /\ i - 1 \in 1..Len(t) /\ (i - 1) + 1 = i
        BY <2>2, <2>4, <3>2
      <4>2. (b \o t)[i] = t[i - 1] /\ t[i - 1] = data[(i - 1) + 1]
        BY <2>1, <2>2, <4>1
      <4> QED
        BY <4>1, <4>2
    <3> QED
      BY <3>1, <3>2
  <2>6. Len(b \o t) = Len(data)
    BY <2>1, <2>2, <2>4
  <2> QED
    BY <1>0, <2>1, <2>5, <2>6, SeqEqual
<1>3. t \o line \in Seq(Byte)
  BY <1>0, <1>1, ConcatProperties
<1>4. b \in Seq(Byte) /\ t \in Seq(Byte)
  BY <1>1
<1> HIDE DEF b, t
<1>5. (Held \o (b \o t)) \o line = (Held \o b) \o (t \o line)
  <2>1. Held \o (b \o t) = (Held \o b) \o t
    BY <1>0, <1>4, BytesAssociative, Zenon
  <2>2. Held \o b \in Seq(Byte)
    BY <1>0, <1>4, ConcatProperties
  <2>3. ((Held \o b) \o t) \o line = (Held \o b) \o (t \o line)
    BY <1>0, <1>4, <2>2, BytesAssociative, Zenon
  <2> QED
    BY <2>1, <2>3
<1>6. RouterStream = (Held \o b) \o (t \o line)
  BY <1>2, <1>5 DEF RouterStream
<1> QED
  BY <1>1, <1>3, <1>6 DEF b, t

\* What the router holds with the byte it takes: a node id, if it has one, and
\* the bytes after it.
LEMMA HeldWith ==
    ASSUME TypeOK, NEW byte \in Byte, rx.id # NoId
    PROVE  LET s == Held \o <<byte>>
               buf == Append(rx.buf, byte)
           IN  /\ s = <<rx.id>> \o buf
               /\ s \in Seq(Byte) /\ buf \in Seq(Byte)
               /\ Len(buf) = Len(rx.buf) + 1 /\ Len(rx.buf) \in Nat
               /\ Len(s) = Len(buf) + 1 /\ s[1] = rx.id
               /\ \A i \in 1..Len(buf) : s[i + 1] = buf[i]
               /\ \A i \in 1..Len(rx.buf) : buf[i] = rx.buf[i]
<1>1. /\ rx.buf \in Seq(Byte) /\ rx.id \in Byte /\ <<rx.id>> \in Seq(Byte) /\ <<byte>> \in Seq(Byte)
  BY DEF TypeOK
<1> DEFINE s == Held \o <<byte>>
           buf == Append(rx.buf, byte)
<1>2. Held = <<rx.id>> \o rx.buf
  BY DEF Held
<1>3. /\ buf \in Seq(Byte) /\ Len(buf) = Len(rx.buf) + 1 /\ Len(rx.buf) \in Nat
      /\ buf = rx.buf \o <<byte>>
      /\ \A i \in 1..Len(rx.buf) : buf[i] = rx.buf[i]
  BY <1>1, AppendProperties, AppendIsConcat
<1>4. s = <<rx.id>> \o buf
  <2>1. (<<rx.id>> \o rx.buf) \o <<byte>> = <<rx.id>> \o (rx.buf \o <<byte>>)
    BY <1>1, BytesAssociative, Zenon
  <2> QED
    BY <1>2, <1>3, <2>1
<1> HIDE DEF s, buf
<1>5. /\ s \in Seq(Byte) /\ Len(s) = 1 + Len(buf)
      /\ \A i \in 1..(1 + Len(buf)) : s[i] = IF i <= 1 THEN <<rx.id>>[i] ELSE buf[i - 1]
  <2>1. \A s1, s2 \in Seq(Byte) :
           /\ s1 \o s2 \in Seq(Byte) /\ Len(s1 \o s2) = Len(s1) + Len(s2)
           /\ \A i \in 1..(Len(s1) + Len(s2)) :
                 (s1 \o s2)[i] = IF i <= Len(s1) THEN s1[i] ELSE s2[i - Len(s1)]
    BY ConcatProperties
  <2>2. Len(<<rx.id>>) = 1
    OBVIOUS
  <2>3. /\ s \in Seq(Byte) /\ Len(s) = Len(<<rx.id>>) + Len(buf)
        /\ \A i \in 1..(Len(<<rx.id>>) + Len(buf)) :
              s[i] = IF i <= Len(<<rx.id>>) THEN <<rx.id>>[i] ELSE buf[i - Len(<<rx.id>>)]
    BY <1>1, <1>3, <1>4, <2>1, Zenon
  <2> QED
    BY <2>2, <2>3
<1>6. s[1] = rx.id
  <2>1. 1 \in 1..(1 + Len(buf)) /\ 1 <= 1 /\ <<rx.id>>[1] = rx.id
    BY <1>3
  <2>2. s[1] = <<rx.id>>[1]
    BY <1>5, <2>1
  <2> QED
    BY <2>1, <2>2
<1>7. ASSUME NEW i \in 1..Len(buf) PROVE s[i + 1] = buf[i]
  <2>1. i + 1 \in 1..(1 + Len(buf)) /\ ~(i + 1 <= 1) /\ (i + 1) - 1 = i
    BY <1>3
  <2> QED
    BY <1>5, <2>1
<1>8. Len(s) = Len(buf) + 1
  BY <1>3, <1>5
<1> QED
  BY <1>3, <1>4, <1>5, <1>6, <1>7, <1>8 DEF s, buf
\* The stretch of the router, cut behind the byte it takes.
Cut(s, rest) ==
    /\ s \in Seq(Byte) /\ rest \in Seq(Byte)
    /\ RouterStream = s \o rest
    /\ Len(RouterStream) \in Nat /\ Len(s) <= Len(RouterStream)
    /\ \A i \in 1..Len(s) : RouterStream[i] = s[i]

LEMMA StreamCut ==
    ASSUME NEW s \in Seq(Byte), NEW rest \in Seq(Byte), RouterStream = s \o rest
    PROVE  Cut(s, rest)
<1> DEFINE S == s \o rest
<1>1. /\ S \in Seq(Byte) /\ Len(S) = Len(s) + Len(rest)
      /\ \A i \in 1..(Len(s) + Len(rest)) :
            S[i] = IF i <= Len(s) THEN s[i] ELSE rest[i - Len(s)]
  <2>1. \A s1, s2 \in Seq(Byte) :
           /\ s1 \o s2 \in Seq(Byte) /\ Len(s1 \o s2) = Len(s1) + Len(s2)
           /\ \A i \in 1..(Len(s1) + Len(s2)) :
                 (s1 \o s2)[i] = IF i <= Len(s1) THEN s1[i] ELSE s2[i - Len(s1)]
    BY ConcatProperties
  <2> QED
    BY <2>1, Zenon
<1>2. Len(s) \in Nat /\ Len(rest) \in Nat
  OBVIOUS
<1>3. RouterStream = S
  OBVIOUS
<1> HIDE DEF S
<1>4. Len(S) \in Nat /\ Len(s) <= Len(S)
  BY <1>1, <1>2
<1>5. ASSUME NEW i \in 1..Len(s) PROVE S[i] = s[i]
  BY <1>1, <1>2
<1> QED
  BY <1>3, <1>4, <1>5 DEF Cut

\* What the router's parser takes from the stretch and what it leaves.
LEMMA FeedStream ==
    ASSUME TypeOK, command_parser_feed
    PROVE  LET s == Held \o <<Head(data)>>
               rest == Tail(data) \o line
           IN  /\ Cut(s, rest) /\ Head(data) \in Byte
               /\ \A h \in Seq(Byte) : Held' = h => RouterStream' = h \o rest
<1> DEFINE rest == Tail(data) \o line
           s == Held \o <<Head(data)>>
<1>1. data # <<>> /\ data' = Tail(data) /\ line' = line
  BY DEF command_parser_feed
<1>2. /\ rest \in Seq(Byte) /\ Head(data) \in Byte /\ RouterStream = s \o rest
  BY <1>1, RouterFeeds
<1>3. /\ Held \in Seq(Byte) /\ line \in Seq(Byte) /\ Tail(data) \in Seq(Byte)
  BY <1>1, StreamTyped, HeadTailProperties
<1>4. s \in Seq(Byte)
  <2>1. <<Head(data)>> \in Seq(Byte)
    BY <1>2
  <2> QED
    BY <1>3, <2>1, ConcatProperties
<1>5. Cut(s, rest)
  BY <1>2, <1>4, StreamCut
<1>6. ASSUME NEW h \in Seq(Byte), Held' = h PROVE RouterStream' = h \o rest
  <2>1. RouterStream' = (Held' \o Tail(data)) \o line
    BY <1>1 DEF RouterStream
  <2>2. (h \o Tail(data)) \o line = h \o (Tail(data) \o line)
    BY <1>3, BytesAssociative, Zenon
  <2> QED
    BY <1>6, <2>1, <2>2
<1> QED
  BY <1>2, <1>5, <1>6

\* The bytes the router holds are seen in the stretch.
LEMMA HeldSeen ==
    ASSUME TypeOK, NEW byte \in Byte, NEW rest, rx.id # NoId,
           Cut(Held \o <<byte>>, rest)
    PROVE  /\ Len(rx.buf) >= 4 => Seen(RouterStream, rx.buf)
           /\ Len(Append(rx.buf, byte)) >= 4 => Seen(RouterStream, Append(rx.buf, byte))
<1> DEFINE s == Held \o <<byte>>
           buf == Append(rx.buf, byte)
<1>1. /\ Len(buf) = Len(rx.buf) + 1 /\ Len(rx.buf) \in Nat
      /\ Len(s) = Len(buf) + 1
      /\ \A i \in 1..Len(buf) : s[i + 1] = buf[i]
      /\ \A i \in 1..Len(rx.buf) : buf[i] = rx.buf[i]
  BY HeldWith
<1>2. Cut(s, rest)
  OBVIOUS
<1> HIDE DEF s, buf
<1>3. /\ Len(RouterStream) \in Nat /\ Len(s) <= Len(RouterStream)
      /\ \A i \in 1..Len(s) : RouterStream[i] = s[i]
  BY <1>2 DEF Cut
<1>4. ASSUME NEW i \in 1..Len(buf) PROVE RouterStream[i + 1] = buf[i]
  <2>1. i + 1 \in 1..Len(s)
    BY <1>1
  <2> QED
    BY <1>1, <1>3, <2>1
<1>5. ASSUME NEW i \in 1..Len(rx.buf) PROVE RouterStream[i + 1] = rx.buf[i]
  <2>1. i \in 1..Len(buf)
    BY <1>1
  <2> QED
    BY <1>1, <1>4, <2>1
<1>6. Len(rx.buf) >= 4 => Seen(RouterStream, rx.buf)
  BY <1>1, <1>3, <1>5 DEF Seen
<1>7. Len(buf) >= 4 => Seen(RouterStream, buf)
  BY <1>1, <1>3, <1>4 DEF Seen
<1> QED
  BY <1>6, <1>7 DEF buf

\* A turn that passes nothing on and leaves the stretch as it was.
LEMMA SameInStep ==
    ASSUME RouterInStep, RouterStream' = RouterStream, sent' = sent,
           dispatched' = dispatched
    PROVE  RouterInStep'
BY DEF RouterInStep

\* The parser starts with a node id.
LEMMA StartedTakes ==
    ASSUME TypeInv, command_parser_feed, Started(Head(data))
    PROVE  /\ RouterStream' = RouterStream
           /\ sent' = sent /\ dispatched' = dispatched
<1>1. TypeOK /\ sent' = sent /\ dispatched' = dispatched /\ rx.id = NoId
  BY DEF TypeInv, Started, command_parser_feed
<1> DEFINE s == Held \o <<Head(data)>>
           rest == Tail(data) \o line
<1>2. /\ Cut(s, rest) /\ Head(data) \in Byte
      /\ \A h \in Seq(Byte) : Held' = h => RouterStream' = h \o rest
  BY <1>1, FeedStream
<1>3. <<Head(data)>> \in Seq(Byte)
  BY <1>2
<1>4. s = <<Head(data)>>
  BY <1>1, <1>3, ConcatEmptySeq DEF Held
<1>5. Held' = <<Head(data)>>
  <2>1. rx'.id = Head(data) /\ rx'.buf = <<>> /\ Head(data) # NoId
    BY <1>2, ConstantTypes DEF Started, Byte, NoId
  <2>2. Held' = <<Head(data)>> \o <<>>
    BY <2>1 DEF Held
  <2> QED
    BY <1>3, <2>2, ConcatEmptySeq
<1> HIDE DEF s, rest
<1>6. RouterStream' = s \o rest
  BY <1>2, <1>3, <1>4, <1>5
<1>7. RouterStream = s \o rest
  BY <1>2 DEF Cut
<1> QED
  BY <1>1, <1>6, <1>7

\* The parser keeps a byte.
LEMMA KeptTakes ==
    ASSUME TypeInv, command_parser_feed, Kept(Append(rx.buf, Head(data)))
    PROVE  /\ RouterStream' = RouterStream
           /\ sent' = sent /\ dispatched' = dispatched
<1> DEFINE s == Held \o <<Head(data)>>
           rest == Tail(data) \o line
           buf == Append(rx.buf, Head(data))
<1>1. /\ TypeOK /\ sent' = sent /\ dispatched' = dispatched /\ rx.id # NoId
      /\ rx' = [id |-> rx.id, buf |-> buf]
  BY DEF TypeInv, Kept, command_parser_feed
<1>2. /\ Cut(s, rest) /\ Head(data) \in Byte
      /\ \A h \in Seq(Byte) : Held' = h => RouterStream' = h \o rest
  BY <1>1, FeedStream
<1>3. s = <<rx.id>> \o buf /\ s \in Seq(Byte)
  BY <1>1, <1>2, HeldWith
<1> HIDE DEF s, rest, buf
<1>4. Held' = s
  <2>1. rx'.id = rx.id /\ rx'.buf = buf
    BY <1>1
  <2>2. Held' = <<rx.id>> \o buf
    BY <1>1, <2>1 DEF Held
  <2> QED
    BY <1>3, <2>2
<1>5. RouterStream' = s \o rest
  BY <1>2, <1>3, <1>4
<1>6. RouterStream = s \o rest
  BY <1>2 DEF Cut
<1> QED
  BY <1>1, <1>5, <1>6

\* The parser clears its buffer: all it held is taken.
LEMMA ClearedTakes ==
    ASSUME NEW s, NEW rest, Cut(s, rest), RouterStream' = <<>> \o rest
    PROVE  \A off \in Nat : Taken(RouterStream, off, RouterStream', off + Len(s), 1)
<1> SUFFICES ASSUME NEW off \in Nat
             PROVE  Taken(RouterStream, off, RouterStream', off + Len(s), 1)
  OBVIOUS
<1>1. RouterStream = s \o rest /\ s \in Seq(Byte) /\ rest \in Seq(Byte)
  BY DEF Cut
<1>2. 1 \in {1, 2} /\ <<>> \in Seq(Byte) /\ Len(s) \in Nat /\ Len(<<>>) = 0
  BY <1>1
<1>3. Len(s) = Len(<<>>) + Len(s) /\ \A i \in 1..Len(<<>>) : <<>>[i] = s[i + Len(s)]
  BY <1>2
<1>4. Taken(s \o rest, off, <<>> \o rest, off + Len(s), 1)
  BY <1>1, <1>2, <1>3, StreamTaken
<1> QED
  BY <1>1, <1>4

LEMMA TakenLess ==
    ASSUME NEW S, NEW T, NEW off, NEW off2, Taken(S, off, T, off2, 1)
    PROVE  Taken(S, off, T, off2, 2)
BY DEF Taken

\* The buffer overflows: the parser drops what it holds and the byte it takes.
LEMMA OverflowTakes ==
    ASSUME TypeInv, BufferWaits, command_parser_feed, Overflowed
    PROVE  /\ \A off \in Nat :
                 Taken(RouterStream, off, RouterStream', off + (MAX_PACKET + 2), 1)
           /\ Seen(RouterStream, rx.buf) /\ HasMagic(rx.buf) /\ MAX_PACKET < TotalLen(rx.buf)
           /\ sent' = sent /\ dispatched' = dispatched
<1> DEFINE s == Held \o <<Head(data)>>
           rest == Tail(data) \o line
           buf == Append(rx.buf, Head(data))
<1>0. /\ TypeOK /\ rx.id # NoId /\ rx.buf \in Seq(Byte)
      /\ sent' = sent /\ dispatched' = dispatched
  BY DEF TypeInv, TypeOK, Overflowed, command_parser_feed
<1>1. /\ Cut(s, rest) /\ Head(data) \in Byte
      /\ \A h \in Seq(Byte) : Held' = h => RouterStream' = h \o rest
  BY <1>0, FeedStream
<1>2. /\ Len(rx.buf) \in Nat /\ Len(rx.buf) = MAX_PACKET /\ MAX_PACKET \in Nat
      /\ MAX_PACKET >= 4
  BY <1>0, ConstantTypes, PayloadsFit DEF Overflowed, HEADER, TypeOK
<1>3. ~(Len(rx.buf) < HEADER) /\ Len(rx.buf) >= 4
  BY <1>2 DEF HEADER
<1>4. HasMagic(rx.buf) /\ Len(rx.buf) < TotalLen(rx.buf)
  BY <1>3 DEF BufferWaits
<1>5. Seen(RouterStream, rx.buf)
  BY <1>0, <1>1, <1>3, HeldSeen
<1>6. Len(s) = MAX_PACKET + 2
  <2>1. Len(s) = Len(buf) + 1 /\ Len(buf) = Len(rx.buf) + 1
    BY <1>0, <1>1, HeldWith
  <2> HIDE DEF s, buf
  <2> QED
    BY <1>2, <2>1
<1> HIDE DEF s, rest
<1>7. RouterStream' = <<>> \o rest
  <2>1. Held' = <<>>
    BY DEF Held, Overflowed
  <2>2. <<>> \in Seq(Byte)
    OBVIOUS
  <2> QED
    BY <1>1, <2>1, <2>2, Zenon
<1>8. \A off \in Nat : Taken(RouterStream, off, RouterStream', off + Len(s), 1)
  BY <1>1, <1>7, ClearedTakes
<1> QED
  BY <1>0, <1>2, <1>4, <1>5, <1>6, <1>8

\* The buffer does not overflow: what it holds would be a frame longer than any.
LEMMA NeverOverflowed ==
    ASSUME TypeInv, BufferWaits, RouterInStep, command_parser_feed, Overflowed
    PROVE  FALSE
<1>1. sent \in Seq(Sendable) /\ Len(dispatched) \in Nat
  BY DEF TypeInv, SentOK, TypeOK
<1>2. /\ Seen(RouterStream, rx.buf) /\ HasMagic(rx.buf) /\ MAX_PACKET < TotalLen(rx.buf)
  BY OverflowTakes
<1>3. PICK off, at : Placed(RouterStream, off, sent, Len(dispatched), at, 2)
  BY DEF RouterInStep
<1>4. AtHead(RouterStream, off, sent, Len(dispatched), at, 2, rx.buf)
  <2>1. 2 \in {1, 2}
    OBVIOUS
  <2> QED
    BY <1>1, <1>2, <1>3, <2>1, HeadKnown
<1> DEFINE f == sent[Len(dispatched) + 1]
<1>5. f \in Sendable /\ TotalLen(rx.buf) = Size(f)
  BY <1>4 DEF AtHead
<1> HIDE DEF f
<1>6. Size(f) \in Nat /\ Size(f) <= MAX_PACKET /\ MAX_PACKET \in Nat
  BY <1>5, SendableFacts, ConstantTypes
<1> QED
  BY <1>2, <1>5, <1>6

\* The parser shifts its buffer: the byte behind the node id is dropped.
LEMMA SkippedTakes ==
    ASSUME TypeInv, command_parser_feed, Skipped(Append(rx.buf, Head(data)))
    PROVE  /\ \A off \in Nat : Taken(RouterStream, off, RouterStream', off + 1, 2)
           /\ ~(RouterStream[2] = MAGIC_LO /\ RouterStream[3] = MAGIC_HI)
           /\ Len(RouterStream) \in Nat /\ Len(RouterStream) >= 1
           /\ sent' = sent /\ dispatched' = dispatched
<1> DEFINE s == Held \o <<Head(data)>>
           rest == Tail(data) \o line
           buf == Append(rx.buf, Head(data))
           t == <<rx.id>> \o Tail(buf)
<1>0. /\ TypeOK /\ sent \in Seq(Sendable) /\ Len(sent) \in Nat
      /\ dispatched \in Seq(Frame) /\ Len(dispatched) \in Nat
      /\ \A k \in 1..Len(sent) : sent[k] \in Sendable
  BY DEF TypeInv, SentOK, TypeOK
<1>1. /\ sent' = sent /\ dispatched' = dispatched /\ rx.id # NoId
      /\ rx' = [id |-> rx.id, buf |-> Tail(buf)]
      /\ ~(Len(buf) < HEADER) /\ ~HasMagic(buf)
  BY DEF Skipped, command_parser_feed
<1>2. /\ Cut(s, rest) /\ Head(data) \in Byte
      /\ \A h \in Seq(Byte) : Held' = h => RouterStream' = h \o rest
  BY <1>0, FeedStream
<1>3. /\ s = <<rx.id>> \o buf /\ s \in Seq(Byte) /\ buf \in Seq(Byte)
      /\ Len(s) = Len(buf) + 1
      /\ \A i \in 1..Len(buf) : s[i + 1] = buf[i]
  BY <1>0, <1>1, <1>2, HeldWith
<1>4. Len(buf) >= 4 => Seen(RouterStream, buf)
  BY <1>0, <1>1, <1>2, HeldSeen
<1> HIDE DEF s, rest, buf, t
<1>5. Len(buf) \in Nat /\ Len(buf) >= 4 /\ buf # <<>>
  BY <1>1, <1>3 DEF HEADER
<1>6. /\ Tail(buf) \in Seq(Byte) /\ Len(Tail(buf)) = Len(buf) - 1
      /\ \A i \in 1..Len(Tail(buf)) : Tail(buf)[i] = buf[i + 1]
  BY <1>3, <1>5, HeadTailProperties
<1>7. <<rx.id>> \in Seq(Byte) /\ Len(<<rx.id>>) = 1
  BY <1>0, <1>1 DEF TypeOK
<1>8. /\ t \in Seq(Byte) /\ Len(t) = 1 + Len(Tail(buf))
      /\ \A i \in 1..(1 + Len(Tail(buf))) :
            t[i] = IF i <= 1 THEN <<rx.id>>[i] ELSE Tail(buf)[i - 1]
  <2>1. \A s1, s2 \in Seq(Byte) :
           /\ s1 \o s2 \in Seq(Byte) /\ Len(s1 \o s2) = Len(s1) + Len(s2)
           /\ \A i \in 1..(Len(s1) + Len(s2)) :
                 (s1 \o s2)[i] = IF i <= Len(s1) THEN s1[i] ELSE s2[i - Len(s1)]
    BY ConcatProperties
  <2>2. /\ t \in Seq(Byte) /\ Len(t) = Len(<<rx.id>>) + Len(Tail(buf))
        /\ \A i \in 1..(Len(<<rx.id>>) + Len(Tail(buf))) :
              t[i] = IF i <= Len(<<rx.id>>) THEN <<rx.id>>[i]
                     ELSE Tail(buf)[i - Len(<<rx.id>>)]
    BY <1>6, <1>7, <2>1, Zenon DEF t
  <2> QED
    BY <1>7, <2>2
<1>9. Held' = t
  <2>1. rx'.id = rx.id /\ rx'.buf = Tail(buf)
    BY <1>1
  <2> QED
    BY <1>1, <2>1 DEF Held, t
<1>10. RouterStream' = t \o rest
  BY <1>2, <1>8, <1>9
<1>11. Len(t) = Len(buf) /\ Len(t) > 0 /\ Len(s) = Len(t) + 1
  BY <1>3, <1>5, <1>6, <1>8
<1>12. ASSUME NEW i \in 2..Len(t) PROVE t[i] = s[i + 1]
  <2>1. /\ i \in 1..(1 + Len(Tail(buf))) /\ ~(i <= 1)
        /\ i - 1 \in 1..Len(Tail(buf)) /\ (i - 1) + 1 = i /\ i \in 1..Len(buf)
    BY <1>5, <1>6, <1>8, <1>11
  <2>2. t[i] = Tail(buf)[i - 1]
    BY <1>8, <2>1
  <2>3. Tail(buf)[i - 1] = buf[(i - 1) + 1]
    BY <1>6, <2>1
  <2>4. s[i + 1] = buf[i]
    BY <1>3, <2>1
  <2> QED
    BY <2>1, <2>2, <2>3, <2>4
<1>13. RouterStream = s \o rest /\ rest \in Seq(Byte)
  BY <1>2 DEF Cut
<1>14. ASSUME NEW off \in Nat PROVE Taken(RouterStream, off, RouterStream', off + 1, 2)
  <2>1. 1 \in Nat /\ 2 \in {1, 2}
    OBVIOUS
  <2>2. Taken(s \o rest, off, t \o rest, off + 1, 2)
    BY <1>3, <1>8, <1>11, <1>12, <1>13, <1>14, <2>1, StreamTaken
  <2> QED
    BY <1>10, <1>13, <2>2
<1>15. ~(RouterStream[2] = MAGIC_LO /\ RouterStream[3] = MAGIC_HI)
  BY <1>1, <1>4, <1>5, NoMagicSeen
<1>16. Len(RouterStream) \in Nat /\ Len(RouterStream) >= 1
  BY <1>4, <1>5 DEF Seen
<1> QED
  BY <1>1, <1>14, <1>15, <1>16

LEMMA SkippedInStep ==
    ASSUME TypeInv, RouterInStep, command_parser_feed,
           Skipped(Append(rx.buf, Head(data)))
    PROVE  RouterInStep'
<1>1. /\ sent \in Seq(Sendable) /\ Len(sent) \in Nat /\ Len(dispatched) \in Nat
      /\ \A k \in 1..Len(sent) : sent[k] \in Sendable
  BY DEF TypeInv, SentOK, TypeOK
<1>2. PICK off, at : Placed(RouterStream, off, sent, Len(dispatched), at, 2)
  BY DEF RouterInStep
<1>3. off \in Nat
  BY <1>2 DEF Placed
<1>4. /\ Taken(RouterStream, off, RouterStream', off + 1, 2)
      /\ ~(RouterStream[2] = MAGIC_LO /\ RouterStream[3] = MAGIC_HI)
      /\ sent' = sent /\ dispatched' = dispatched
  BY <1>3, SkippedTakes
<1>5. Placed(RouterStream', off + 1, sent, Len(dispatched), at, 2)
  <2>1. 2 \in {1, 2}
    OBVIOUS
  <2> QED
    BY <1>1, <1>2, <1>4, <2>1, PlacedSkipped
<1> QED
  BY <1>4, <1>5 DEF RouterInStep

\* What the router's parser takes from the stretch when it passes a packet on.
LEMMA PassedTakes ==
    ASSUME TypeInv, BufferWaits, command_parser_feed, Passed(Append(rx.buf, Head(data)))
    PROVE  \E buf, f :
              /\ buf \in Seq(Byte)
              /\ Seen(RouterStream, buf) /\ HasMagic(buf) /\ Len(buf) <= MAX_PACKET
              /\ \A off \in Nat :
                    Taken(RouterStream, off, RouterStream', off + (Len(buf) + 1), 1)
              /\ sent' = sent /\ dispatched' = Append(dispatched, f)
              /\ f = [id |-> f.id, packet |-> f.packet]
              /\ f.id = RouterStream[1] /\ f.id \in Byte
              /\ \A z \in Nat : TotalLen(buf) = z /\ z >= 4 => f.packet = buf /\ Len(buf) = z
<1> DEFINE s == Held \o <<Head(data)>>
           rest == Tail(data) \o line
           buf == Append(rx.buf, Head(data))
           f == [id |-> rx.id, packet |-> SubSeq(buf, 1, TotalLen(buf))]
<1>0. /\ TypeOK /\ rx.buf \in Seq(Byte) /\ rx.id \in Byte \cup {NoId}
      /\ Len(rx.buf) <= MAX_PACKET
  BY DEF TypeInv, TypeOK
<1>1. /\ sent' = sent /\ dispatched' = Append(dispatched, f) /\ rx.id # NoId
      /\ rx' = [id |-> NoId, buf |-> <<>>] /\ ~(Len(rx.buf) >= MAX_PACKET)
      /\ ~(Len(buf) < HEADER) /\ HasMagic(buf) /\ ~(Len(buf) < TotalLen(buf))
  BY DEF Passed, command_parser_feed
<1>2. /\ Cut(s, rest) /\ Head(data) \in Byte
      /\ \A h \in Seq(Byte) : Held' = h => RouterStream' = h \o rest
  BY <1>0, FeedStream
<1>3. /\ s \in Seq(Byte) /\ buf \in Seq(Byte)
      /\ Len(buf) = Len(rx.buf) + 1 /\ Len(rx.buf) \in Nat
      /\ Len(s) = Len(buf) + 1 /\ s[1] = rx.id
      /\ \A i \in 1..Len(rx.buf) : buf[i] = rx.buf[i]
  BY <1>0, <1>1, <1>2, HeldWith
<1>4. Len(buf) >= 4 => Seen(RouterStream, buf)
  BY <1>0, <1>1, <1>2, HeldSeen
<1>5. f.id = rx.id /\ f.packet = SubSeq(buf, 1, TotalLen(buf)) /\ f = [id |-> f.id, packet |-> f.packet]
  OBVIOUS
<1> HIDE DEF s, rest, buf, f
<1>6. Len(buf) \in Nat /\ Len(buf) >= 4
  BY <1>1, <1>3 DEF HEADER
<1>7. Len(buf) <= MAX_PACKET /\ Len(s) = Len(buf) + 1
  BY <1>1, <1>3, ConstantTypes
<1>8. ASSUME NEW z \in Nat, TotalLen(buf) = z, z >= 4 PROVE f.packet = buf /\ Len(buf) = z
  <2>1. Len(buf) = z
    <3>1. CASE Len(rx.buf) < HEADER
      BY <1>1, <1>3, <1>6, <1>8, <3>1 DEF HEADER
    <3>2. CASE ~(Len(rx.buf) < HEADER)
      <4>1. Len(rx.buf) < TotalLen(rx.buf)
        BY <3>2 DEF BufferWaits
      <4>2. 4 \in 1..Len(rx.buf)
        BY <1>3, <3>2 DEF HEADER
      <4>3. TotalLen(rx.buf) = TotalLen(buf)
        BY <1>3, <4>2 DEF TotalLen
      <4> QED
        BY <1>1, <1>3, <1>6, <1>8, <4>1, <4>3
    <3> QED
      BY <3>1, <3>2
  <2>2. f.packet = SubSeq(buf, 1, Len(buf))
    BY <1>5, <1>8, <2>1
  <2>3. SubSeq(buf, 1, Len(buf)) = buf
    BY <1>3, SubSeqFull
  <2> QED
    BY <2>1, <2>2, <2>3
<1>9. RouterStream' = <<>> \o rest
  <2>1. Held' = <<>>
    BY <1>1 DEF Held
  <2>2. <<>> \in Seq(Byte)
    OBVIOUS
  <2> QED
    BY <1>2, <2>1, <2>2, Zenon
<1>10. \A off \in Nat : Taken(RouterStream, off, RouterStream', off + (Len(buf) + 1), 1)
  BY <1>2, <1>7, <1>9, ClearedTakes
<1>11. f.id = RouterStream[1] /\ f.id \in Byte
  <2>1. 1 \in 1..Len(s)
    BY <1>6, <1>7
  <2> QED
    BY <1>0, <1>1, <1>2, <1>3, <1>5, <2>1 DEF Cut
<1>12. Seen(RouterStream, buf)
  BY <1>4, <1>6
<1> QED
  BY <1>1, <1>3, <1>5, <1>7, <1>8, <1>10, <1>11, <1>12

\* The parser passes on the packet of the next frame.
LEMMA PassedInStep ==
    ASSUME TypeInv, BufferWaits, RouterInStep, command_parser_feed,
           Passed(Append(rx.buf, Head(data)))
    PROVE  RouterInStep'
<1> DEFINE k == Len(dispatched) + 1
<1>0. /\ sent \in Seq(Sendable) /\ Len(sent) \in Nat
      /\ dispatched \in Seq(Frame) /\ Len(dispatched) \in Nat
  BY DEF TypeInv, SentOK, TypeOK
<1>1. PICK buf, f :
         /\ buf \in Seq(Byte)
         /\ Seen(RouterStream, buf) /\ HasMagic(buf)
         /\ \A off \in Nat :
               Taken(RouterStream, off, RouterStream', off + (Len(buf) + 1), 1)
         /\ sent' = sent /\ dispatched' = Append(dispatched, f)
         /\ f = [id |-> f.id, packet |-> f.packet] /\ f.id \in Byte
         /\ \A z \in Nat : TotalLen(buf) = z /\ z >= 4 => f.packet = buf /\ Len(buf) = z
  BY PassedTakes
<1>2. PICK off, at : Placed(RouterStream, off, sent, Len(dispatched), at, 2)
  BY DEF RouterInStep
<1>3. off \in Nat
  BY <1>2 DEF Placed
<1>4. AtHead(RouterStream, off, sent, Len(dispatched), at, 2, buf)
  <2>1. 2 \in {1, 2}
    OBVIOUS
  <2> QED
    BY <1>0, <1>1, <1>2, <2>1, HeadKnown
<1>5. /\ Len(dispatched) < Len(sent) /\ sent[k] \in Sendable
      /\ End(sent, at, k) = off + 1 + Size(sent[k])
      /\ \A i \in 1..Size(sent[k]) : RouterStream[i + 1] = sent[k].packet[i]
      /\ TotalLen(buf) = Size(sent[k])
  BY <1>4 DEF AtHead
<1>6. Size(sent[k]) \in Nat /\ Size(sent[k]) >= 4
  BY <1>5, SendableFacts
<1>7. f.packet = buf /\ Len(buf) = Size(sent[k])
  BY <1>1, <1>5, <1>6
<1>8. f \in Frame
  BY <1>1, <1>7 DEF Frame
<1>9. f.packet = sent[k].packet
  <2>1. ASSUME NEW i \in 1..Size(sent[k]) PROVE f.packet[i] = sent[k].packet[i]
    <3>1. RouterStream[i + 1] = buf[i]
      BY <1>1, <1>7 DEF Seen
    <3> QED
      BY <1>5, <1>7, <3>1
  <2>2. f.packet \in Seq(Byte) /\ Len(f.packet) = Size(sent[k])
    BY <1>1, <1>7
  <2> QED
    BY <1>1, <1>5, <2>1, <2>2, FrameEqual
<1>10. Taken(RouterStream, off, RouterStream', End(sent, at, k), 2)
  <2>1. off + (Len(buf) + 1) = End(sent, at, k)
    <3> HIDE DEF k
    <3> QED
      BY <1>3, <1>5, <1>6, <1>7
  <2>2. Taken(RouterStream, off, RouterStream', End(sent, at, k), 1)
    BY <1>1, <1>3, <2>1
  <2> QED
    BY <2>2, TakenLess
<1>11. Placed(RouterStream', End(sent, at, k), sent, k, at, 2)
  <2>1. 2 \in {1, 2}
    OBVIOUS
  <2> QED
    BY <1>0, <1>2, <1>5, <1>10, <2>1, PlacedNext
<1>12. /\ Len(dispatched') = k /\ dispatched'[k] = f
       /\ \A i \in 1..Len(dispatched) : dispatched'[i] = dispatched[i]
  BY <1>0, <1>1, <1>8, AppendProperties
<1>13. ASSUME NEW i \in 1..Len(dispatched') PROVE dispatched'[i].packet = sent[i].packet
  <2>1. CASE i = k
    BY <1>9, <1>12, <2>1
  <2>2. CASE i # k
    <3>1. i \in 1..Len(dispatched)
      BY <1>0, <1>12, <2>2
    <3> QED
      BY <1>12, <3>1 DEF RouterInStep
  <2> QED
    BY <2>1, <2>2
<1>14. Len(dispatched') <= Len(sent)
  BY <1>0, <1>5, <1>12
<1>15. Placed(RouterStream', End(sent, at, k), sent, Len(dispatched'), at, 2)
  BY <1>11, <1>12
<1> QED
  BY <1>1, <1>13, <1>14, <1>15 DEF RouterInStep

LEMMA FeedInStep ==
    ASSUME TypeInv, BufferWaits, RouterInStep, command_parser_feed
    PROVE  RouterInStep'
BY FeedOutcomes, StartedTakes, KeptTakes, SameInStep, NeverOverflowed, SkippedInStep,
   PassedInStep
-----------------------------------------------------------------------------
(***************************************************************************)
(* The invariant, step by step.                                            *)
(***************************************************************************)
\* The steps of the other parser and of the line leave a parser in step.
LEMMA HostLeft ==
    ASSUME HostInStep, UNCHANGED <<buffer, line, sent, delivered>>
    PROVE  HostInStep'
<1>1. HostStream' = HostStream
  BY DEF HostStream
<1> QED
  BY <1>1 DEF HostInStep

LEMMA RouterLeft ==
    ASSUME RouterInStep, UNCHANGED <<rx, data, line, sent, dispatched>>
    PROVE  RouterInStep'
<1>1. Held' = Held
  BY DEF Held
<1>2. RouterStream' = RouterStream
  BY <1>1 DEF RouterStream
<1> QED
  BY <1>2 DEF RouterInStep

\* The invariant holds after a step that keeps each of its parts.
LEMMA KeptIInv ==
    ASSUME TypeInv', BufferWaits', lost' = lost,
           lost = 0 => HostInStep' /\ RouterInStep'
    PROVE  IInv'
BY DEF IInv

LEMMA WaitsLeft ==
    ASSUME BufferWaits, rx' = rx
    PROVE  BufferWaits'
BY DEF BufferWaits, TotalLen, HasMagic

LEMMA InitIInv == Init => IInv
BY InitTyped, InitInStep DEF IInv

LEMMA NextIInv == IInv /\ [Next]_vars => IInv'
<1> SUFFICES ASSUME IInv, [Next]_vars PROVE IInv'
  OBVIOUS
<1>0. TypeInv /\ BufferWaits /\ (lost = 0 => HostInStep /\ RouterInStep)
  BY DEF IInv
<1>1. ASSUME NEW id \in Ids, NEW p \in Payloads, Send(id, p) PROVE IInv'
  <2>1. rx' = rx /\ lost' = lost
    BY <1>1 DEF Send
  <2>2. TypeInv'
    BY <1>0, <1>1, SendTyped
  <2>3. lost = 0 => HostInStep' /\ RouterInStep'
    BY <1>0, <1>1, SendInStep
  <2> QED
    BY <1>0, <2>1, <2>2, <2>3, WaitsLeft, KeptIInv
<1>2. ASSUME NEW n \in 1..Len(line), Read(n) PROVE IInv'
  <2>1. rx' = rx /\ lost' = lost
    BY <1>2 DEF Read
  <2>2. TypeInv'
    BY <1>0, <1>2, ReadTyped
  <2>3. lost = 0 => HostInStep' /\ RouterInStep'
    BY <1>0, <1>2, ReadInStep
  <2> QED
    BY <1>0, <2>1, <2>2, <2>3, WaitsLeft, KeptIInv
<1>3. CASE command_parser_feed
  <2>1. /\ lost' = lost
        /\ UNCHANGED <<buffer, line, sent, delivered>>
    BY <1>3 DEF command_parser_feed
  <2>2. TypeInv'
    BY <1>0, <1>3, FeedKeepsSent
  <2>3. BufferWaits'
    BY <1>0, <1>3, FeedWaits DEF TypeInv
  <2>4. lost = 0 => HostInStep' /\ RouterInStep'
    BY <1>0, <1>3, <2>1, HostLeft, FeedInStep
  <2> QED
    BY <2>1, <2>2, <2>3, <2>4, KeptIInv
<1>4. CASE Discard
  <2>1. lost' = lost /\ UNCHANGED <<rx, data, line, sent, dispatched>>
    BY <1>4 DEF Discard
  <2>2. TypeInv'
    BY <1>0, <1>4, DiscardTyped
  <2>3. lost = 0 => HostInStep' /\ RouterInStep'
    BY <1>0, <1>4, <2>1, RouterLeft, DiscardInStep
  <2> QED
    BY <1>0, <2>1, <2>2, <2>3, WaitsLeft, KeptIInv
<1>5. CASE Deliver
  <2>1. lost' = lost /\ UNCHANGED <<rx, data, line, sent, dispatched>>
    BY <1>5 DEF Deliver
  <2>2. TypeInv'
    BY <1>0, <1>5, DeliverTyped
  <2>3. lost = 0 => HostInStep' /\ RouterInStep'
    BY <1>0, <1>5, <2>1, RouterLeft, DeliverInStep
  <2> QED
    BY <1>0, <2>1, <2>2, <2>3, WaitsLeft, KeptIInv
<1>6. ASSUME NEW b \in Noise, AddNoise(b) PROVE IInv'
  <2>1. rx' = rx /\ lost' = lost
    BY <1>6 DEF AddNoise
  <2>2. TypeInv'
    BY <1>0, <1>6, NoiseTyped
  <2>3. lost = 0 => HostInStep' /\ RouterInStep'
    BY <1>0, <1>6, NoiseInStep
  <2> QED
    BY <1>0, <2>1, <2>2, <2>3, WaitsLeft, KeptIInv
<1>7. ASSUME NEW first \in DOMAIN line, NEW last \in DOMAIN line, first <= last,
             Lose(first, last)
      PROVE  IInv'
  <2>1. rx' = rx
    BY <1>7 DEF Lose
  <2>2. TypeInv' /\ lost' > 0
    BY <1>0, <1>7, LoseTyped
  <2>3. lost' # 0
    BY <2>2
  <2>4. BufferWaits'
    BY <1>0, <2>1, WaitsLeft
  <2> QED
    BY <2>2, <2>3, <2>4 DEF IInv
<1>8. CASE UNCHANGED vars
  <2>1. lost' = lost /\ rx' = rx
    BY <1>8 DEF vars
  <2>2. TypeInv'
    BY <1>0, <1>8 DEF vars, TypeInv, TypeOK, SentOK
  <2>3. UNCHANGED <<buffer, line, sent, delivered>> /\ UNCHANGED <<rx, data, line, sent, dispatched>>
    BY <1>8 DEF vars
  <2>4. lost = 0 => HostInStep' /\ RouterInStep'
    BY <1>0, <2>3, HostLeft, RouterLeft
  <2> QED
    BY <1>0, <2>1, <2>2, <2>4, WaitsLeft, KeptIInv
<1> QED
  BY <1>1, <1>2, <1>3, <1>4, <1>5, <1>6, <1>7, <1>8 DEF Next

LEMMA StreamInvariant == Spec => []IInv
BY InitIInv, NextIInv, PTL DEF Spec

-----------------------------------------------------------------------------
(***************************************************************************)
(* What the invariant says when all was read.                              *)
(***************************************************************************)
LEMMA PrefixByItems ==
    ASSUME NEW A, NEW s \in Seq(A), NEW t \in Seq(A), Len(s) <= Len(t),
           \A i \in 1..Len(s) : s[i] = t[i]
    PROVE  IsPrefix(s, t)
<1>1. Len(s) \in Nat /\ Len(t) \in Nat
  OBVIOUS
<1>2. \A i \in 1..Len(s) : t[i] \in A
  <2> SUFFICES ASSUME NEW i \in 1..Len(s) PROVE t[i] \in A
    OBVIOUS
  <2>1. i \in 1..Len(t)
    BY <1>1
  <2> QED
    BY <2>1, ElementOfSeq
<1>3. /\ SubSeq(t, 1, Len(s)) \in Seq(A)
      /\ Len(SubSeq(t, 1, Len(s))) = Len(s)
      /\ \A i \in 1..Len(s) : SubSeq(t, 1, Len(s))[i] = t[i]
  BY <1>1, <1>2, SubSeqProperties
<1>4. s = SubSeq(t, 1, Len(s))
  BY <1>3, SeqEqual
<1>5. SubSeq(s, 1, Len(s)) = s
  BY SubSeqFull
<1> QED
  BY <1>4, <1>5 DEF IsPrefix

LEMMA PacketsTyped ==
    ASSUME NEW frames \in Seq(Frame)
    PROVE  /\ Packets(frames) \in Seq(Seq(Byte))
           /\ Len(Packets(frames)) = Len(frames)
           /\ \A i \in 1..Len(frames) : Packets(frames)[i] = frames[i].packet
<1>1. DOMAIN frames = 1..Len(frames) /\ Len(frames) \in Nat
  OBVIOUS
<1>2. Packets(frames) = [i \in 1..Len(frames) |-> frames[i].packet]
  BY <1>1 DEF Packets
<1>3. \A i \in 1..Len(frames) : frames[i].packet \in Seq(Byte)
  <2> SUFFICES ASSUME NEW i \in 1..Len(frames) PROVE frames[i].packet \in Seq(Byte)
    OBVIOUS
  <2>1. frames[i] \in Frame
    BY ElementOfSeq
  <2> QED
    BY <2>1 DEF Frame
<1> QED
  BY <1>1, <1>2, <1>3

\* A frame that is still to come takes five bytes at least.
LEMMA SomethingLeft ==
    ASSUME NEW frames \in Seq(Sendable), NEW S, NEW off, NEW m \in Nat, m < Len(frames),
           NEW at, NEW from, Len(S) \in Nat, Placed(S, off, frames, m, at, from)
    PROVE  Len(S) >= 5
<1>1. m + 1 \in (m + 1)..Len(frames) /\ m + 1 \in 1..Len(frames)
  OBVIOUS
<1>2. /\ off \in Nat /\ at[m + 1] \in Nat /\ off < at[m + 1]
      /\ End(frames, at, m + 1) <= off + Len(S)
  BY <1>1 DEF Placed
<1>3. frames[m + 1] \in Sendable
  BY <1>1
<1>4. Size(frames[m + 1]) \in Nat /\ Size(frames[m + 1]) >= 4
  BY <1>3, SendableFacts
<1> QED
  BY <1>2, <1>4 DEF End

LEMMA HostComplete == IInv => HostExact
<1> SUFFICES ASSUME IInv, lost = 0
             PROVE  /\ IsPrefix(delivered, sent)
                    /\ line = <<>> /\ HostIdle => delivered = sent
  BY DEF HostExact
<1>0. /\ TypeInv /\ HostInStep /\ TypeOK /\ sent \in Seq(Sendable)
      /\ sent \in Seq(Frame) /\ delivered \in Seq(Frame)
      /\ Len(sent) \in Nat /\ Len(delivered) \in Nat
  BY DEF IInv, TypeInv, SentOK, TypeOK
<1>1. /\ Len(delivered) <= Len(sent)
      /\ \A i \in 1..Len(delivered) : delivered[i] = sent[i]
  BY <1>0 DEF HostInStep
<1>2. IsPrefix(delivered, sent)
  BY <1>0, <1>1, PrefixByItems
<1>3. ASSUME line = <<>>, HostIdle PROVE delivered = sent
  <2>1. PICK off, at : Placed(HostStream, off, sent, Len(delivered), at, 1)
    BY <1>0 DEF HostInStep
  <2>2. buffer \in Seq(Byte) /\ HostStream = buffer
    BY <1>0, <1>3, StreamTyped, ConcatEmptySeq DEF HostStream
  <2>3. ~(Len(delivered) < Len(sent))
    <3> SUFFICES ASSUME Len(delivered) < Len(sent) PROVE FALSE
      OBVIOUS
    <3>1. Len(buffer) \in Nat /\ Len(buffer) >= 5
      BY <1>0, <2>1, <2>2, SomethingLeft
    <3>2. Len(buffer) > HEADER
      BY <3>1 DEF HEADER
    <3>3. HasMagic(Tail(buffer))
      BY <1>3, <3>2 DEF HostIdle, Discards
    <3>4. FrameLen <= Len(buffer) /\ FrameLen \in Nat
      <4> DEFINE f == sent[Len(delivered) + 1]
      <4>1. Seen(HostStream, Tail(buffer)) /\ FrameLen = 5 + Declared(Tail(buffer))
        BY <1>0, <3>2, HostSees
      <4>2. AtHead(HostStream, off, sent, Len(delivered), at, 1, Tail(buffer))
        <5>1. 1 \in {1, 2}
          OBVIOUS
        <5> QED
          BY <1>0, <2>1, <3>3, <4>1, <5>1, HeadKnown
      <4>3. /\ f \in Sendable /\ 1 + Size(f) <= Len(HostStream)
            /\ Declared(Tail(buffer)) = Size(f) - 4
        BY <4>2 DEF AtHead, Declared
      <4> HIDE DEF f
      <4>4. Size(f) \in Nat
        BY <4>3, SendableFacts
      <4> QED
        BY <2>2, <4>1, <4>3, <4>4
    <3>5. Len(buffer) >= FrameLen
      BY <3>1, <3>4
    <3> QED
      BY <1>3, <3>2, <3>3, <3>5 DEF HostIdle, Delivers
  <2>4. Len(delivered) = Len(sent)
    BY <1>0, <1>1, <2>3
  <2> QED
    BY <1>0, <1>1, <2>4, SeqEqual
<1> QED
  BY <1>2, <1>3

\* What the parsers hold at most, once they cannot go on: a part of the longest
\* frame.
HostReach == BYTE + 3
RouterReach == MAX_PACKET + 1

\* All that is left to the router is what it holds: less than a frame, as it
\* reads its length, and no more than fits into rx_buffer.
LEMMA RouterHolds ==
    ASSUME TypeOK, BufferWaits, line = <<>>, data = <<>>
    PROVE  /\ Len(RouterStream) \in Nat /\ Len(RouterStream) <= RouterReach
           /\ Len(RouterStream) >= 5 =>
                 /\ Seen(RouterStream, rx.buf) /\ HasMagic(rx.buf)
                 /\ Len(rx.buf) < TotalLen(rx.buf) /\ Len(RouterStream) = 1 + Len(rx.buf)
<1>0. /\ rx.buf \in Seq(Byte) /\ rx.id \in Byte \cup {NoId} /\ Len(rx.buf) <= MAX_PACKET
      /\ Len(rx.buf) \in Nat /\ MAX_PACKET \in Nat
  BY ConstantTypes DEF TypeOK
<1>1. RouterStream = Held /\ Held \in Seq(Byte)
  <2>1. Held \in Seq(Byte)
    BY StreamTyped
  <2>2. Held \o <<>> = Held
    BY <2>1, ConcatEmptySeq
  <2> QED
    BY <2>1, <2>2 DEF RouterStream
<1>2. CASE rx.id = NoId
  <2>1. Held = <<>> /\ Len(<<>>) = 0
    BY <1>2 DEF Held
  <2>2. Len(RouterStream) = 0
    BY <1>1, <2>1
  <2> QED
    BY <1>0, <2>2 DEF RouterReach
<1>3. CASE rx.id # NoId
  <2>1. <<rx.id>> \in Seq(Byte) /\ Len(<<rx.id>>) = 1
    BY <1>0, <1>3
  <2>2. /\ Len(Held) = 1 + Len(rx.buf)
        /\ \A i \in 1..(1 + Len(rx.buf)) : Held[i] = IF i <= 1 THEN <<rx.id>>[i] ELSE rx.buf[i - 1]
    <3>1. \A s1, s2 \in Seq(Byte) :
             /\ Len(s1 \o s2) = Len(s1) + Len(s2)
             /\ \A i \in 1..(Len(s1) + Len(s2)) :
                   (s1 \o s2)[i] = IF i <= Len(s1) THEN s1[i] ELSE s2[i - Len(s1)]
      BY ConcatProperties
    <3>2. Held = <<rx.id>> \o rx.buf
      BY <1>3 DEF Held
    <3>3. /\ Len(Held) = Len(<<rx.id>>) + Len(rx.buf)
          /\ \A i \in 1..(Len(<<rx.id>>) + Len(rx.buf)) :
                Held[i] = IF i <= Len(<<rx.id>>) THEN <<rx.id>>[i]
                          ELSE rx.buf[i - Len(<<rx.id>>)]
      BY <1>0, <2>1, <3>1, <3>2, Zenon
    <3> QED
      BY <2>1, <3>3
  <2>3. /\ Len(RouterStream) = 1 + Len(rx.buf) /\ Len(RouterStream) \in Nat
        /\ Len(RouterStream) <= RouterReach
    BY <1>0, <1>1, <2>2 DEF RouterReach
  <2>4. ASSUME NEW i \in 1..Len(rx.buf) PROVE RouterStream[i + 1] = rx.buf[i]
    <3>1. i + 1 \in 1..(1 + Len(rx.buf)) /\ ~(i + 1 <= 1) /\ (i + 1) - 1 = i
      BY <1>0
    <3> QED
      BY <1>1, <2>2, <3>1
  <2>5. ASSUME Len(RouterStream) >= 5
        PROVE  /\ Seen(RouterStream, rx.buf) /\ HasMagic(rx.buf)
               /\ Len(rx.buf) < TotalLen(rx.buf)
    <3>1. Len(rx.buf) >= 4
      BY <1>0, <2>3, <2>5
    <3>2. Seen(RouterStream, rx.buf)
      BY <1>0, <2>3, <2>4, <3>1 DEF Seen
    <3>3. ~(Len(rx.buf) < HEADER)
      BY <1>0, <3>1 DEF HEADER
    <3> QED
      BY <1>3, <3>2, <3>3 DEF BufferWaits
  <2> QED
    BY <2>3, <2>5
<1> QED
  BY <1>2, <1>3

LEMMA RouterComplete == IInv => RouterKeepsPackets
<1> SUFFICES ASSUME IInv, lost = 0
             PROVE  /\ IsPrefix(Packets(dispatched), Packets(sent))
                    /\ line = <<>> /\ data = <<>> => Packets(dispatched) = Packets(sent)
  BY DEF RouterKeepsPackets
<1>0. /\ TypeInv /\ RouterInStep /\ BufferWaits /\ TypeOK /\ sent \in Seq(Sendable)
      /\ sent \in Seq(Frame) /\ dispatched \in Seq(Frame)
      /\ Len(sent) \in Nat /\ Len(dispatched) \in Nat
      /\ rx.buf \in Seq(Byte) /\ rx.id \in Byte \cup {NoId}
  BY DEF IInv, TypeInv, SentOK, TypeOK
<1>1. /\ Len(dispatched) <= Len(sent)
      /\ \A i \in 1..Len(dispatched) : dispatched[i].packet = sent[i].packet
  BY <1>0 DEF RouterInStep
<1> DEFINE P == Packets(dispatched)
           Q == Packets(sent)
<1>2. /\ P \in Seq(Seq(Byte)) /\ Len(P) = Len(dispatched)
      /\ Q \in Seq(Seq(Byte)) /\ Len(Q) = Len(sent)
      /\ \A i \in 1..Len(dispatched) : P[i] = dispatched[i].packet
      /\ \A i \in 1..Len(sent) : Q[i] = sent[i].packet
  BY <1>0, PacketsTyped
<1> HIDE DEF P, Q
<1>3. \A i \in 1..Len(P) : P[i] = Q[i]
  <2> SUFFICES ASSUME NEW i \in 1..Len(P) PROVE P[i] = Q[i]
    OBVIOUS
  <2>1. i \in 1..Len(dispatched) /\ i \in 1..Len(sent)
    BY <1>0, <1>1, <1>2
  <2> QED
    BY <1>1, <1>2, <2>1
<1>4. IsPrefix(P, Q)
  <2>1. Len(P) <= Len(Q)
    BY <1>1, <1>2
  <2> QED
    BY <1>2, <1>3, <2>1, PrefixByItems
<1>5. ASSUME line = <<>>, data = <<>> PROVE P = Q
  <2>1. PICK off, at : Placed(RouterStream, off, sent, Len(dispatched), at, 2)
    BY <1>0 DEF RouterInStep
  <2>2. /\ Len(RouterStream) \in Nat
        /\ Len(RouterStream) >= 5 =>
              /\ Seen(RouterStream, rx.buf) /\ HasMagic(rx.buf)
              /\ Len(rx.buf) < TotalLen(rx.buf) /\ Len(RouterStream) = 1 + Len(rx.buf)
    BY <1>0, <1>5, RouterHolds
  <2>3. ~(Len(dispatched) < Len(sent))
    <3> SUFFICES ASSUME Len(dispatched) < Len(sent) PROVE FALSE
      OBVIOUS
    <3>1. Len(RouterStream) >= 5
      <4>1. RouterStream \in Seq(Byte)
        BY <1>0, StreamTyped
      <4> QED
        BY <1>0, <2>1, <4>1, SomethingLeft
    <3>2. /\ Seen(RouterStream, rx.buf) /\ HasMagic(rx.buf)
          /\ Len(rx.buf) < TotalLen(rx.buf) /\ Len(RouterStream) = 1 + Len(rx.buf)
      BY <2>2, <3>1
    <3>3. AtHead(RouterStream, off, sent, Len(dispatched), at, 2, rx.buf)
      <4>1. 2 \in {1, 2}
        OBVIOUS
      <4> QED
        BY <1>0, <2>1, <3>2, <4>1, HeadKnown
    <3> DEFINE f == sent[Len(dispatched) + 1]
    <3>4. f \in Sendable /\ 1 + Size(f) <= Len(RouterStream) /\ TotalLen(rx.buf) = Size(f)
      BY <3>3 DEF AtHead
    <3> HIDE DEF f
    <3>5. Size(f) \in Nat
      BY <3>4, SendableFacts
    <3>6. Len(rx.buf) \in Nat
      BY <1>0
    <3> QED
      BY <2>2, <3>2, <3>4, <3>5, <3>6
  <2>4. Len(P) = Len(Q)
    BY <1>0, <1>1, <1>2, <2>3
  <2> QED
    BY <1>2, <1>3, <2>4, SeqEqual
<1> QED
  BY <1>4, <1>5 DEF P, Q

-----------------------------------------------------------------------------
(***************************************************************************)
(* After a loss.  What was on the line then ends with byte c; behind it    *)
(* lie the frames sent since, one after the other, and nothing else.       *)
(***************************************************************************)
\* The frames from the (m+1)-th on cover S behind byte c.  A frame takes five
\* bytes at least.
Train(S, off, frames, m, c, at, from) ==
    LET todo == (m + 1)..Len(frames)
    IN  /\ off \in Nat /\ c \in Nat /\ c <= off + Len(S)
        /\ \A k \in todo :
              /\ at[k] \in Nat /\ c + 1 + 5 * (k - (m + 1)) <= at[k]
              /\ End(frames, at, k) \in Nat /\ End(frames, at, k) <= off + Len(S)
              /\ \A p \in at[k]..End(frames, at, k) :
                    p >= off + from => S[p - off] = FrameByte(frames[k], p - at[k])
        /\ \A j, k \in todo : j < k => End(frames, at, j) < at[k]
        /\ \A p \in (c + 1)..(off + Len(S)) :
              \E k \in todo : p \in at[k]..End(frames, at, k)

LEMMA TrainByte ==
    ASSUME NEW frames, NEW S, NEW off, NEW m, NEW c, NEW at, NEW from,
           Train(S, off, frames, m, c, at, from), NEW k \in (m + 1)..Len(frames),
           NEW p \in at[k]..End(frames, at, k), p >= off + from
    PROVE  S[p - off] = FrameByte(frames[k], p - at[k])
BY DEF Train

\* Where a frame of the train lies.
LEMMA TrainPlace ==
    ASSUME NEW frames, NEW S, NEW off, NEW m \in Nat, NEW c, NEW at, NEW from,
           Train(S, off, frames, m, c, at, from), NEW k \in (m + 1)..Len(frames)
    PROVE  /\ off \in Nat /\ c \in Nat /\ at[k] \in Nat /\ End(frames, at, k) \in Nat
           /\ c < at[k] /\ c + 1 + 5 * (k - (m + 1)) <= at[k]
           /\ End(frames, at, k) <= off + Len(S)
<1>1. /\ off \in Nat /\ c \in Nat /\ at[k] \in Nat /\ End(frames, at, k) \in Nat
      /\ c + 1 + 5 * (k - (m + 1)) <= at[k]
      /\ End(frames, at, k) <= off + Len(S)
  BY DEF Train
<1>2. k - (m + 1) \in Nat
  OBVIOUS
<1>3. c < at[k]
  BY <1>1, <1>2
<1> QED
  BY <1>1, <1>3

\* A frame of the train takes a byte more than its packet.
LEMMA TrainSize ==
    ASSUME NEW frames \in Seq(Sendable), NEW S, NEW off, NEW m \in Nat, NEW c, NEW at, NEW from,
           Train(S, off, frames, m, c, at, from), NEW k \in (m + 1)..Len(frames)
    PROVE  /\ k \in 1..Len(frames) /\ frames[k] \in Sendable
           /\ Size(frames[k]) \in Nat /\ Size(frames[k]) >= 4 /\ Size(frames[k]) <= MAX_PACKET
           /\ End(frames, at, k) = at[k] + Size(frames[k])
<1>1. k \in 1..Len(frames)
  OBVIOUS
<1>2. frames[k] \in Sendable
  BY <1>1
<1> QED
  BY <1>1, <1>2, SendableFacts DEF End

\* The train stays where it is when bytes are taken from its head.
LEMMA TrainTaken ==
    ASSUME NEW frames, NEW S, NEW T, NEW off, NEW off2, NEW m, NEW c, NEW at,
           NEW from \in {1, 2}, NEW to \in {1, 2},
           Train(S, off, frames, m, c, at, from),
           Taken(S, off, T, off2, to), off + from <= off2 + to
    PROVE  Train(T, off2, frames, m, c, at, to)
<1>0. /\ off \in Nat /\ off2 \in Nat /\ Len(S) \in Nat /\ Len(T) \in Nat /\ off <= off2
      /\ off2 + Len(T) = off + Len(S)
  BY DEF Train, Taken
<1>1. ASSUME NEW k \in (m + 1)..Len(frames), NEW p \in at[k]..End(frames, at, k), p >= off2 + to
      PROVE  T[p - off2] = FrameByte(frames[k], p - at[k])
  <2>1. at[k] \in Nat /\ End(frames, at, k) \in Nat /\ End(frames, at, k) <= off + Len(S)
    BY DEF Train
  <2>2. p >= off + from /\ p \in (off2 + to)..(off2 + Len(T))
    BY <1>0, <1>1, <2>1
  <2>3. S[p - off] = FrameByte(frames[k], p - at[k])
    BY <2>2, TrainByte
  <2>4. T[p - off2] = S[p - off]
    BY <2>2 DEF Taken
  <2> QED
    BY <2>3, <2>4
<1> QED
  BY <1>0, <1>1 DEF Train

LEMMA TrainLess ==
    ASSUME NEW frames, NEW S, NEW off, NEW m, NEW c, NEW at, Train(S, off, frames, m, c, at, 1)
    PROVE  Train(S, off, frames, m, c, at, 2)
<1>1. ASSUME NEW k \in (m + 1)..Len(frames), NEW p \in at[k]..End(frames, at, k), p >= off + 2
      PROVE  S[p - off] = FrameByte(frames[k], p - at[k])
  <2>1. off \in Nat /\ at[k] \in Nat /\ End(frames, at, k) \in Nat
    BY DEF Train
  <2>2. p >= off + 1
    BY <1>1, <2>1
  <2> QED
    BY <2>2, TrainByte
<1> QED
  BY <1>1 DEF Train

\* Nothing was sent yet.
LEMMA TrainEmpty ==
    ASSUME NEW frames, Len(frames) \in Nat, NEW S, Len(S) \in Nat, NEW at, NEW from
    PROVE  Train(S, 0, frames, Len(frames), Len(S), at, from)
BY DEF Train

\* The train ends where the next frame may begin.
LEMMA TrainRoom ==
    ASSUME NEW frames \in Seq(Sendable), NEW S, Len(S) \in Nat, NEW off,
           NEW m \in Nat, m <= Len(frames), NEW c, NEW at, NEW from,
           Train(S, off, frames, m, c, at, from)
    PROVE  c + 1 + 5 * ((Len(frames) + 1) - (m + 1)) <= off + Len(S) + 1
<1>1. off \in Nat /\ c \in Nat /\ c <= off + Len(S) /\ Len(frames) \in Nat
  BY DEF Train
<1>2. CASE m = Len(frames)
  BY <1>1, <1>2
<1>3. CASE m # Len(frames)
  <2>1. PICK n \in Nat : n = Len(frames)
    BY <1>1
  <2>2. n \in (m + 1)..Len(frames)
    BY <1>3, <2>1
  <2>3. /\ Size(frames[n]) >= 4 /\ Size(frames[n]) \in Nat
        /\ End(frames, at, n) = at[n] + Size(frames[n])
    BY <2>2, TrainSize
  <2>4. /\ at[n] \in Nat /\ c + 1 + 5 * (n - (m + 1)) <= at[n]
        /\ End(frames, at, n) <= off + Len(S)
    BY <2>2, TrainPlace
  <2>5. at[n] + 4 <= off + Len(S)
    BY <1>1, <2>3, <2>4
  <2>6. 5 * ((n + 1) - (m + 1)) = 5 * (n - (m + 1)) + 5 /\ 5 * (n - (m + 1)) \in Int
    OBVIOUS
  <2>7. c + 1 + 5 * ((n + 1) - (m + 1)) <= off + Len(S) + 1
    BY <1>1, <2>4, <2>5, <2>6
  <2> QED
    BY <2>1, <2>7
<1> QED
  BY <1>2, <1>3

\* A frame more, and the places with its place.
Extends(more, frames, f) ==
    /\ Len(more) = Len(frames) + 1 /\ more[Len(frames) + 1] = f
    /\ \A k \in 1..Len(frames) : more[k] = frames[k]

Moves(to, at, m, n, last) ==
    /\ \A k \in (m + 1)..n : to[k] = at[k]
    /\ to[n + 1] = last

\* The next frame goes to the end of the train.
LEMMA TrainSent ==
    ASSUME NEW frames \in Seq(Sendable), NEW S, NEW T, NEW off,
           NEW m \in Nat, m <= Len(frames), NEW c, NEW at, NEW from \in {1, 2},
           Train(S, off, frames, m, c, at, from),
           NEW f, Written(S, T, f), NEW more, Extends(more, frames, f),
           NEW to, Moves(to, at, m, Len(frames), off + Len(S) + 1)
    PROVE  Train(T, off, more, m, c, to, from)
<1>e. /\ Len(more) = Len(frames) + 1 /\ more[Len(frames) + 1] = f
      /\ \A k \in 1..Len(frames) : more[k] = frames[k]
  BY DEF Extends
<1>m. /\ \A k \in (m + 1)..Len(frames) : to[k] = at[k]
      /\ to[Len(frames) + 1] = off + Len(S) + 1
  BY DEF Moves
<1> DEFINE l == Len(frames) + 1
<1>0. /\ off \in Nat /\ c \in Nat /\ Len(S) \in Nat /\ Len(T) \in Nat
      /\ Size(f) \in Nat /\ c <= off + Len(S) /\ Len(frames) \in Nat
      /\ Len(S) + 1 <= Len(T) /\ off + Len(S) + 1 + Size(f) = off + Len(T)
  <2>1. off \in Nat /\ c \in Nat /\ c <= off + Len(S)
    BY DEF Train
  <2>2. /\ Len(S) \in Nat /\ Size(f) \in Nat
        /\ Len(T) = Len(S) + 1 + Size(f)
    BY DEF Written
  <2> QED
    BY SMTT(30), <2>1, <2>2
<1>1. ASSUME NEW k \in (m + 1)..Len(frames)
      PROVE  /\ to[k] = at[k] /\ more[k] = frames[k]
             /\ End(more, to, k) = End(frames, at, k)
             /\ at[k] \in Nat /\ End(frames, at, k) \in Nat
             /\ c + 1 + 5 * (k - (m + 1)) <= at[k]
             /\ End(frames, at, k) <= off + Len(S)
  <2>1. k \in 1..Len(frames)
    OBVIOUS
  <2>2. to[k] = at[k] /\ more[k] = frames[k]
    BY <1>e, <1>m, <2>1
  <2>3. End(more, to, k) = End(frames, at, k)
    BY <2>2 DEF End
  <2>4. /\ at[k] \in Nat /\ End(frames, at, k) \in Nat
        /\ c + 1 + 5 * (k - (m + 1)) <= at[k]
        /\ End(frames, at, k) <= off + Len(S)
    BY DEF Train
  <2> QED
    BY <2>2, <2>3, <2>4
<1>2. /\ l \in (m + 1)..Len(more)
      /\ to[l] = off + Len(S) + 1 /\ more[l] = f
      /\ End(more, to, l) = off + Len(S) + 1 + Size(f)
      /\ End(more, to, l) = off + Len(T)
  <2>1. l \in (m + 1)..Len(more)
    BY <1>0, <1>e
  <2>2. End(more, to, l) = off + Len(S) + 1 + Size(f)
    BY <1>e, <1>m DEF End
  <2> QED
    BY <1>0, <1>e, <1>m, <2>1, <2>2
<1>3. \A k \in (m + 1)..Len(more) : k = l \/ k \in (m + 1)..Len(frames)
  BY SMTT(30), <1>0, <1>e
<1>4. c + 1 + 5 * (l - (m + 1)) <= to[l]
  <2>1. c + 1 + 5 * (l - (m + 1)) <= off + Len(S) + 1
    BY <1>0, TrainRoom
  <2> QED
    BY <1>m, <2>1
<1> HIDE DEF l
<1>5. ASSUME NEW k \in (m + 1)..Len(more)
      PROVE  /\ to[k] \in Nat /\ c + 1 + 5 * (k - (m + 1)) <= to[k]
             /\ End(more, to, k) \in Nat /\ End(more, to, k) <= off + Len(T)
  <2>1. CASE k \in (m + 1)..Len(frames)
    <3>1. /\ to[k] = at[k] /\ End(more, to, k) = End(frames, at, k)
          /\ at[k] \in Nat /\ End(frames, at, k) \in Nat
          /\ c + 1 + 5 * (k - (m + 1)) <= at[k]
          /\ End(frames, at, k) <= off + Len(S)
      BY <1>1, <2>1
    <3>2. End(frames, at, k) <= off + Len(T)
      BY SMTT(30), <1>0, <3>1
    <3> QED
      BY <3>1, <3>2
  <2>2. CASE k = l
    BY SMTT(30), <1>0, <1>2, <1>4, <2>2
  <2> QED
    BY <1>3, <2>1, <2>2
<1>6. ASSUME NEW k \in (m + 1)..Len(more), NEW p \in to[k]..End(more, to, k), p >= off + from
      PROVE  T[p - off] = FrameByte(more[k], p - to[k])
  <2>1. CASE k \in (m + 1)..Len(frames)
    <3>1. /\ to[k] = at[k] /\ more[k] = frames[k]
          /\ End(more, to, k) = End(frames, at, k)
          /\ at[k] \in Nat /\ End(frames, at, k) \in Nat
          /\ End(frames, at, k) <= off + Len(S)
      BY <1>1, <2>1
    <3>2. p \in at[k]..End(frames, at, k)
      BY <1>6, <3>1
    <3>5. p - off \in 1..Len(S)
      <4>1. p \in Int /\ p <= off + Len(S) /\ p >= off + 1
        <5>1. p \in Int /\ p <= off + Len(S)
          BY SMTT(30), <1>0, <3>1, <3>2
        <5>2. p >= off + 1
          BY SMTT(30), <1>0, <1>6, <5>1
        <5> QED
          BY <5>1, <5>2
      <4> QED
        BY SMTT(30), <1>0, <4>1
    <3>3. S[p - off] = FrameByte(frames[k], p - at[k])
      BY <1>6, <2>1, <3>2, TrainByte
    <3>4. T[p - off] = S[p - off]
      <4>1. \A i \in 1..Len(S) : T[i] = S[i]
        BY WrittenBytes, Zenon
      <4> QED
        BY <3>5, <4>1, Zenon
    <3> QED
      BY <3>1, <3>3, <3>4
  <2>2. CASE k = l
    <3>1. p \in (off + Len(S) + 1)..(off + Len(S) + 1 + Size(f))
      BY <1>2, <2>2
    <3>2. /\ p - (off + Len(S) + 1) \in 0..Size(f)
          /\ Len(S) + 1 + (p - (off + Len(S) + 1)) = p - off
      BY SMTT(30), <1>0, <3>1
    <3>3. \A i \in 0..Size(f) : T[Len(S) + 1 + i] = FrameByte(f, i)
      BY DEF Written
    <3>4. T[Len(S) + 1 + (p - (off + Len(S) + 1))] = FrameByte(f, p - (off + Len(S) + 1))
      BY <3>2, <3>3, Zenon
    <3> QED
      BY <1>2, <2>2, <3>2, <3>4
  <2> QED
    BY <1>3, <2>1, <2>2
<1>7. ASSUME NEW j \in (m + 1)..Len(more), NEW k \in (m + 1)..Len(more), j < k
      PROVE  End(more, to, j) < to[k]
  <2>1. j \in (m + 1)..Len(frames)
    BY <1>0, <1>7, <1>e
  <2>2. CASE k \in (m + 1)..Len(frames)
    <3>1. End(frames, at, j) < at[k]
      BY <1>7, <2>1, <2>2 DEF Train
    <3> QED
      BY <1>1, <2>1, <2>2, <3>1
  <2>3. CASE k = l
    <3>1. /\ End(more, to, j) = End(frames, at, j) /\ End(frames, at, j) \in Nat
          /\ End(frames, at, j) <= off + Len(S)
      BY <1>1, <2>1
    <3> QED
      BY SMTT(30), <1>0, <1>2, <2>3, <3>1
  <2> QED
    BY <1>3, <2>2, <2>3
<1>8. ASSUME NEW p \in (c + 1)..(off + Len(T))
      PROVE  \E k \in (m + 1)..Len(more) : p \in to[k]..End(more, to, k)
  <2>1. CASE p <= off + Len(S)
    <3>1. p \in (c + 1)..(off + Len(S))
      BY <1>0, <2>1
    <3>2. PICK k \in (m + 1)..Len(frames) : p \in at[k]..End(frames, at, k)
      BY <3>1 DEF Train
    <3>3. k \in (m + 1)..Len(more)
      BY <1>0, <1>e, <3>2
    <3>4. to[k] = at[k] /\ End(more, to, k) = End(frames, at, k)
      BY <1>1, <3>2
    <3> QED
      BY <3>2, <3>3, <3>4
  <2>2. CASE ~(p <= off + Len(S))
    <3>1. p \in (off + Len(S) + 1)..(off + Len(T))
      BY <1>0, <2>2
    <3>2. p \in to[l]..End(more, to, l)
      BY <1>2, <3>1
    <3> QED
      BY <1>2, <3>2
  <2> QED
    BY <2>1, <2>2
<1>9. c <= off + Len(T)
  BY <1>0
<1> QED
  BY <1>0, <1>5, <1>6, <1>7, <1>8, <1>9 DEF Train

\* The k-th frame and its place, as TrainSize and TrainPlace say.
InPlace(S, off, frames, c, at, k) ==
    /\ k \in 1..Len(frames) /\ frames[k] \in Sendable
    /\ Size(frames[k]) \in Nat /\ Size(frames[k]) >= 4 /\ Size(frames[k]) <= MAX_PACKET
    /\ End(frames, at, k) = at[k] + Size(frames[k])
    /\ off \in Nat /\ c \in Nat /\ at[k] \in Nat /\ End(frames, at, k) \in Nat
    /\ c < at[k] /\ End(frames, at, k) <= off + Len(S)

LEMMA TrainInPlace ==
    ASSUME NEW frames \in Seq(Sendable), NEW S, NEW off, NEW m \in Nat, NEW c, NEW at, NEW from,
           Train(S, off, frames, m, c, at, from)
    PROVE  \A k \in (m + 1)..Len(frames) : InPlace(S, off, frames, c, at, k)
<1> SUFFICES ASSUME NEW k \in (m + 1)..Len(frames) PROVE InPlace(S, off, frames, c, at, k)
  OBVIOUS
<1>1. /\ k \in 1..Len(frames) /\ frames[k] \in Sendable
      /\ Size(frames[k]) \in Nat /\ Size(frames[k]) >= 4 /\ Size(frames[k]) <= MAX_PACKET
      /\ End(frames, at, k) = at[k] + Size(frames[k])
  BY TrainSize
<1>2. /\ off \in Nat /\ c \in Nat /\ at[k] \in Nat /\ End(frames, at, k) \in Nat
      /\ c < at[k] /\ End(frames, at, k) <= off + Len(S)
  BY TrainPlace
<1> QED
  BY <1>1, <1>2 DEF InPlace

\* The order of the frames of a train.
LEMMA TrainOrder ==
    ASSUME NEW frames, NEW S, NEW off, NEW m, NEW c, NEW at, NEW from,
           Train(S, off, frames, m, c, at, from)
    PROVE  \A j, k \in (m + 1)..Len(frames) : j < k => End(frames, at, j) < at[k]
BY DEF Train

\* Every byte of a train belongs to a frame.
LEMMA TrainCovers ==
    ASSUME NEW frames, NEW S, NEW off, NEW m, NEW c, NEW at, NEW from,
           Train(S, off, frames, m, c, at, from)
    PROVE  \A p \in (c + 1)..(off + Len(S)) :
              \E k \in (m + 1)..Len(frames) : p \in at[k]..End(frames, at, k)
BY DEF Train

\* No packet holds the magic number elsewhere than at its head.
AllUnmistakable(frames) == \A k \in 1..Len(frames) : Unmistakable(frames[k].packet)

\* The two bytes of a packet behind its head are not the magic number.
LEMMA NotMagic ==
    ASSUME NEW frames, AllUnmistakable(frames), NEW k \in 1..Len(frames),
           frames[k].packet \in Seq(Byte),
           NEW i \in Nat, i >= 2, i + 1 <= Len(frames[k].packet)
    PROVE  ~(frames[k].packet[i] = MAGIC_LO /\ frames[k].packet[i + 1] = MAGIC_HI)
<1> DEFINE p == frames[k].packet
<1>1. p \in Seq(Byte) /\ Len(p) \in Nat
  OBVIOUS
<1>2. i \in 2..(Len(p) - 1)
  BY <1>1
<1>3. ~HasMagic(SubSeq(p, i, i + 1))
  BY <1>2 DEF Unmistakable, AllUnmistakable
<1> HIDE DEF p
<1>4. SubSeq(p, i, i + 1)[1] = p[i] /\ SubSeq(p, i, i + 1)[2] = p[i + 1]
  <2>1. 1 <= i /\ i + 1 <= Len(p)
    BY <1>1, <1>2
  <2>2. \A x \in i..(i + 1) : p[x] \in Byte
    BY <1>1, <2>1
  <2>3. \A x \in 1..((i + 1) - i + 1) : SubSeq(p, i, i + 1)[x] = p[i + x - 1]
    BY <2>2, SubSeqProperties
  <2>4. /\ 1 \in 1..((i + 1) - i + 1) /\ i + 1 - 1 = i
        /\ 2 \in 1..((i + 1) - i + 1) /\ i + 2 - 1 = i + 1
    OBVIOUS
  <2>5. SubSeq(p, i, i + 1)[1] = p[i + 1 - 1] /\ SubSeq(p, i, i + 1)[2] = p[i + 2 - 1]
    BY <2>3, <2>4, Zenon
  <2> QED
    BY <2>4, <2>5
<1>5. ~(p[i] = MAGIC_LO /\ p[i + 1] = MAGIC_HI)
  BY <1>3, <1>4 DEF HasMagic
<1> QED
  BY <1>5 DEF p

\* Behind byte c the magic number stands only at the head of a frame.
LEMMA TrainMagic ==
    ASSUME NEW frames \in Seq(Sendable), AllUnmistakable(frames),
           NEW S, NEW off, NEW m \in Nat, NEW c, NEW at, NEW from \in {1, 2},
           Train(S, off, frames, m, c, at, from), c <= off,
           Len(S) \in Nat, Len(S) >= 3, S[2] = MAGIC_LO, S[3] = MAGIC_HI
    PROVE  \E k \in (m + 1)..Len(frames) : at[k] = off + 1
<1>0. off \in Nat /\ c \in Nat
  BY DEF Train
<1>1. off + 2 \in (c + 1)..(off + Len(S)) /\ off + 3 \in (c + 1)..(off + Len(S))
  BY <1>0
<1>2. PICK k \in (m + 1)..Len(frames) : off + 2 \in at[k]..End(frames, at, k)
  BY <1>1, TrainCovers
<1>3. PICK j \in (m + 1)..Len(frames) : off + 3 \in at[j]..End(frames, at, j)
  BY <1>1, TrainCovers
<1>i. \A x \in (m + 1)..Len(frames) : InPlace(S, off, frames, c, at, x)
  BY TrainInPlace
<1>4. /\ k \in 1..Len(frames) /\ frames[k] \in Sendable
      /\ Size(frames[k]) \in Nat /\ Size(frames[k]) >= 4
      /\ End(frames, at, k) = at[k] + Size(frames[k])
      /\ at[k] \in Nat /\ End(frames, at, k) \in Nat
  BY <1>i DEF InPlace
<1>5. frames[j] \in Sendable /\ at[j] \in Nat /\ End(frames, at, j) \in Nat
  BY <1>i DEF InPlace
<1>6. S[2] = FrameByte(frames[k], (off + 2) - at[k])
  <2>1. off + 2 >= off + from /\ (off + 2) - off = 2
    BY <1>0
  <2>2. S[(off + 2) - off] = FrameByte(frames[k], (off + 2) - at[k])
    BY <1>2, <2>1, TrainByte
  <2> QED
    BY <2>1, <2>2, Zenon
<1>7. S[3] = FrameByte(frames[j], (off + 3) - at[j])
  <2>1. off + 3 >= off + from /\ (off + 3) - off = 3
    BY <1>0
  <2>2. S[(off + 3) - off] = FrameByte(frames[j], (off + 3) - at[j])
    BY <1>3, <2>1, TrainByte
  <2> QED
    BY <2>1, <2>2, Zenon
<1>8. /\ frames[k].packet[1] = MAGIC_LO /\ frames[k].packet[2] = MAGIC_HI
      /\ MAGIC_LO # MAGIC_HI
  BY <1>4, SendableFacts, NoFalseMagic
<1>9. j = k
  <2>1. k < j \/ j < k \/ j = k
    OBVIOUS
  <2>2. CASE j < k
    <3>1. End(frames, at, j) < at[k]
      BY <2>2, TrainOrder
    <3> QED
      BY SMTT(30), <1>0, <1>2, <1>3, <1>4, <1>5, <3>1
  <2>3. CASE k < j
    <3>1. End(frames, at, k) < at[j]
      BY <2>3, TrainOrder
    <3>2. at[j] = off + 3
      BY SMTT(30), <1>0, <1>2, <1>3, <1>4, <1>5, <3>1
    <3>3. (off + 3) - at[j] = 0
      BY <1>0, <3>2
    <3>4. frames[j].id = MAGIC_HI
      BY <1>7, <3>3 DEF FrameByte
    <3>5. frames[j].id \in Ids
      BY <1>5, SendableFacts
    <3> QED
      BY <3>4, <3>5, NoFalseMagic
  <2> QED
    BY <2>1, <2>2, <2>3
<1>10. PICK i \in Nat : i = (off + 2) - at[k]
  BY SMTT(30), <1>0, <1>2, <1>4
<1>11. i + 1 = (off + 3) - at[k] /\ (i = 1 => at[k] = off + 1)
  <2>1. off \in Nat /\ at[k] \in Nat
    BY <1>0, <1>4
  <2>2. \A a \in Nat : i = (off + 2) - a => i + 1 = (off + 3) - a /\ (i = 1 => a = off + 1)
    BY <2>1
  <2> QED
    BY <1>10, <2>1, <2>2
<1>12. off + 3 <= End(frames, at, k)
  BY <1>0, <1>3, <1>4, <1>9
<1>13. i + 1 <= Size(frames[k])
  BY SMTT(30), <1>0, <1>4, <1>11, <1>12
<1>14. FrameByte(frames[k], i) = MAGIC_LO /\ FrameByte(frames[k], i + 1) = MAGIC_HI
  <2>1. FrameByte(frames[k], i) = MAGIC_LO
    BY <1>6, <1>10
  <2>2. FrameByte(frames[k], i + 1) = MAGIC_HI
    BY <1>7, <1>9, <1>11
  <2> QED
    BY <2>1, <2>2
<1>15. i # 0
  <2> SUFFICES ASSUME i = 0 PROVE FALSE
    OBVIOUS
  <2>1. i + 1 = 1 /\ FrameByte(frames[k], 1) = frames[k].packet[1]
    BY DEF FrameByte
  <2> QED
    BY <1>8, <1>14, <2>1
<1>16. ~(i >= 2)
  <2> SUFFICES ASSUME i >= 2 PROVE FALSE
    OBVIOUS
  <2>1. frames[k].packet \in Seq(Byte) /\ Len(frames[k].packet) = Size(frames[k])
    BY <1>4, SendableFacts
  <2>2. frames[k].packet[i] = MAGIC_LO /\ frames[k].packet[i + 1] = MAGIC_HI
    BY <1>14 DEF FrameByte
  <2> QED
    BY <1>4, <1>13, <2>1, <2>2, NotMagic
<1> QED
  BY <1>11, <1>15, <1>16

\* Behind a frame begins the next one.
LEMMA TrainNext ==
    ASSUME NEW frames \in Seq(Sendable), NEW S, NEW off, NEW m \in Nat, NEW c, NEW at,
           NEW from \in {1, 2},
           Train(S, off, frames, m, c, at, from), Len(S) \in Nat, Len(S) >= 1,
           NEW k \in (m + 1)..Len(frames), off = End(frames, at, k)
    PROVE  \E j \in (m + 1)..Len(frames) : at[j] = off + 1
<1>i. \A x \in (m + 1)..Len(frames) : InPlace(S, off, frames, c, at, x)
  BY TrainInPlace
<1>1. /\ off \in Nat /\ c \in Nat /\ at[k] \in Nat /\ c < at[k]
      /\ End(frames, at, k) = at[k] + Size(frames[k]) /\ Size(frames[k]) \in Nat
  BY <1>i DEF InPlace
<1>2. off + 1 \in (c + 1)..(off + Len(S))
  BY SMTT(30), <1>1
<1>3. PICK j \in (m + 1)..Len(frames) : off + 1 \in at[j]..End(frames, at, j)
  BY <1>2, TrainCovers
<1>4. at[j] \in Nat /\ End(frames, at, j) \in Nat
  BY <1>i DEF InPlace
<1>5. k < j \/ j < k \/ j = k
  OBVIOUS
<1>6. CASE j = k
  BY <1>1, <1>3, <1>6
<1>7. CASE j < k
  <2>1. End(frames, at, j) < at[k]
    BY <1>7, TrainOrder
  <2> QED
    BY SMTT(30), <1>1, <1>3, <1>4, <2>1
<1>8. CASE k < j
  <2>1. End(frames, at, k) < at[j]
    BY <1>8, TrainOrder
  <2>2. at[j] = off + 1
    BY SMTT(30), <1>1, <1>3, <1>4, <2>1
  <2> QED
    BY <2>2
<1> QED
  BY <1>5, <1>6, <1>7, <1>8

\* The bytes of the frame of the train at the head of S.
LEMMA TrainAtHead ==
    ASSUME NEW frames \in Seq(Sendable), NEW S, Len(S) \in Nat, NEW off, NEW m \in Nat, NEW c,
           NEW at, NEW from \in {1, 2}, Train(S, off, frames, m, c, at, from),
           NEW k \in (m + 1)..Len(frames), at[k] = off + 1
    PROVE  /\ 1 + Size(frames[k]) <= Len(S)
           /\ End(frames, at, k) = off + 1 + Size(frames[k])
           /\ from = 1 => S[1] = frames[k].id
           /\ \A i \in 1..Size(frames[k]) : S[i + 1] = frames[k].packet[i]
<1>0. /\ off \in Nat /\ Size(frames[k]) \in Nat
      /\ End(frames, at, k) = off + 1 + Size(frames[k])
      /\ End(frames, at, k) <= off + Len(S)
  <2>1. InPlace(S, off, frames, c, at, k)
    BY TrainInPlace
  <2> QED
    BY <2>1 DEF InPlace
<1>4. ASSUME NEW i \in 0..Size(frames[k]), i + 1 >= from
      PROVE  S[i + 1] = FrameByte(frames[k], i)
  <2>1. /\ off + 1 + i \in at[k]..End(frames, at, k) /\ off + 1 + i >= off + from
        /\ (off + 1 + i) - off = i + 1 /\ (off + 1 + i) - at[k] = i
    BY <1>0, <1>4
  <2>2. S[(off + 1 + i) - off] = FrameByte(frames[k], (off + 1 + i) - at[k])
    BY <2>1, TrainByte
  <2> QED
    BY <2>1, <2>2
<1>5. from = 1 => S[1] = frames[k].id
  <2> SUFFICES ASSUME from = 1 PROVE S[1] = frames[k].id
    OBVIOUS
  <2>1. 0 \in 0..Size(frames[k]) /\ 0 + 1 >= from /\ 0 + 1 = 1
    BY <1>0
  <2>2. S[0 + 1] = FrameByte(frames[k], 0)
    BY <1>4, <2>1
  <2> QED
    BY <2>1, <2>2 DEF FrameByte
<1>6. ASSUME NEW i \in 1..Size(frames[k])
      PROVE  S[i + 1] = frames[k].packet[i]
  <2>1. i \in 0..Size(frames[k]) /\ i + 1 >= from /\ i # 0
    BY <1>0
  <2> QED
    BY <1>4, <2>1 DEF FrameByte
<1>7. 1 + Size(frames[k]) <= Len(S)
  BY <1>0
<1> QED
  BY <1>0, <1>5, <1>6, <1>7

\* The k-th frame is the one at the head of S, and buf begins it.
FrameHere(S, off, frames, k, at, from, buf) ==
    /\ at[k] = off + 1
    /\ 1 + Size(frames[k]) <= Len(S)
    /\ End(frames, at, k) = off + 1 + Size(frames[k])
    /\ from = 1 => S[1] = frames[k].id
    /\ \A i \in 1..Size(frames[k]) : S[i + 1] = frames[k].packet[i]
    /\ buf[4] = Size(frames[k]) - 4
    /\ TotalLen(buf) = Size(frames[k])

\* Behind byte c a parser that sees the magic number has a frame at its head.
LEMMA TrainKnown ==
    ASSUME NEW frames \in Seq(Sendable), AllUnmistakable(frames),
           NEW S, NEW off, NEW m \in Nat, NEW c, NEW at, NEW from \in {1, 2},
           Train(S, off, frames, m, c, at, from), c <= off,
           NEW buf, Seen(S, buf), HasMagic(buf)
    PROVE  \E k \in (m + 1)..Len(frames) : FrameHere(S, off, frames, k, at, from, buf)
<1>1. S[2] = MAGIC_LO /\ S[3] = MAGIC_HI /\ Len(S) \in Nat /\ Len(S) >= 3
  BY MagicSeen
<1>2. PICK k \in (m + 1)..Len(frames) : at[k] = off + 1
  BY <1>1, TrainMagic
<1>3. /\ 1 + Size(frames[k]) <= Len(S)
      /\ End(frames, at, k) = off + 1 + Size(frames[k])
      /\ from = 1 => S[1] = frames[k].id
      /\ \A i \in 1..Size(frames[k]) : S[i + 1] = frames[k].packet[i]
  BY SMTT(30), <1>1, <1>2, TrainAtHead
<1>4. frames[k] \in Sendable
  BY TrainSize
<1>5. PICK n \in Nat : k = n + 1 /\ n < Len(frames)
  <2>1. k - 1 \in Nat /\ k = (k - 1) + 1 /\ k - 1 < Len(frames)
    OBVIOUS
  <2> QED
    BY <2>1
<1>6. AtHead(S, off, frames, n, at, from, buf)
  BY <1>2, <1>3, <1>4, <1>5, HeadFields
<1> QED
  BY <1>2, <1>3, <1>5, <1>6 DEF AtHead, FrameHere

-----------------------------------------------------------------------------
(***************************************************************************)
(* Where a parser is after a loss: in what was on the line before, or      *)
(* behind it.  There it may have begun within a frame, but soon it is in   *)
(* step.                                                                   *)
(***************************************************************************)
\* The parser has not come to byte c yet; or it has passed byte x, and every
\* frame that begins behind x is still ahead, or one of them, of T, is the last
\* it passed on.
Where(frames, m, off, c, at, x, T) ==
    \/ off < c
    \/ /\ c <= x /\ x <= off
       /\ \/ \A k \in (m + 1)..Len(frames) : x < at[k] => off < at[k]
          \/ \E k \in (m + 1)..Len(frames) : x < at[k] /\ off = End(frames, at, k) /\ k \in T

LEMMA WhereMore ==
    ASSUME NEW frames, NEW m, NEW off, NEW c, NEW at, NEW x, NEW T, NEW T2, T \subseteq T2,
           Where(frames, m, off, c, at, x, T)
    PROVE  Where(frames, m, off, c, at, x, T2)
BY DEF Where

\* From before byte c a parser comes anywhere within its reach.
LEMMA WhereJumped ==
    ASSUME NEW frames, NEW m, NEW c \in Nat, NEW at, NEW reach \in Nat,
           NEW off \in Nat, off <= c + reach
    PROVE  \E x \in c..(c + reach) : Where(frames, m, off, c, at, x, {})
<1>1. CASE off < c
  <2>1. c \in c..(c + reach)
    OBVIOUS
  <2>2. Where(frames, m, off, c, at, c, {})
    BY <1>1 DEF Where
  <2> QED
    BY <2>1, <2>2
<1>2. CASE c <= off
  <2>1. off \in c..(c + reach)
    BY <1>2
  <2>2. Where(frames, m, off, c, at, off, {})
    BY <1>2 DEF Where
  <2> QED
    BY <2>1, <2>2
<1> QED
  BY <1>1, <1>2

\* A parser that sees no magic number skips no frame's first byte.
LEMMA NoHead ==
    ASSUME NEW frames \in Seq(Sendable), NEW S, Len(S) \in Nat, NEW off, NEW m \in Nat, NEW c,
           NEW at, NEW from \in {1, 2}, Train(S, off, frames, m, c, at, from),
           ~(S[2] = MAGIC_LO /\ S[3] = MAGIC_HI),
           NEW k \in (m + 1)..Len(frames)
    PROVE  at[k] # off + 1
<1> SUFFICES ASSUME at[k] = off + 1 PROVE FALSE
  OBVIOUS
<1>1. InPlace(S, off, frames, c, at, k)
  BY TrainInPlace
<1>2. frames[k] \in Sendable /\ Size(frames[k]) \in Nat /\ Size(frames[k]) >= 4
  BY <1>1 DEF InPlace
<1>3. \A i \in 1..Size(frames[k]) : S[i + 1] = frames[k].packet[i]
  BY TrainAtHead
<1>4. 1 \in 1..Size(frames[k]) /\ 2 \in 1..Size(frames[k]) /\ 1 + 1 = 2 /\ 2 + 1 = 3
  BY <1>2
<1>5. S[1 + 1] = frames[k].packet[1] /\ S[2 + 1] = frames[k].packet[2]
  BY <1>3, <1>4, Zenon
<1>6. frames[k].packet[1] = MAGIC_LO /\ frames[k].packet[2] = MAGIC_HI
  BY <1>2, SendableFacts
<1> QED
  BY <1>4, <1>5, <1>6

\* A parser skips a byte.
LEMMA WhereSkipped ==
    ASSUME NEW frames \in Seq(Sendable), NEW S, Len(S) \in Nat, Len(S) >= 1, NEW off,
           NEW m \in Nat, NEW c, NEW at, NEW from \in {1, 2},
           Train(S, off, frames, m, c, at, from),
           ~(S[2] = MAGIC_LO /\ S[3] = MAGIC_HI),
           NEW reach \in Nat, NEW x \in c..(c + reach), NEW T,
           Where(frames, m, off, c, at, x, T)
    PROVE  \E y \in c..(c + reach) : Where(frames, m, off + 1, c, at, y, {})
<1>0. off \in Nat /\ c \in Nat
  BY DEF Train
<1>1. CASE off < c
  <2>1. off + 1 \in Nat /\ off + 1 <= c + reach
    BY <1>0, <1>1
  <2> QED
    BY <1>0, <2>1, WhereJumped
<1>2. CASE c <= off
  <2>1. x \in Nat /\ x <= off /\ c <= x
    BY <1>0, <1>2 DEF Where
  <2>2. \A k \in (m + 1)..Len(frames) : at[k] \in Nat /\ at[k] # off + 1
    <3> TAKE k \in (m + 1)..Len(frames)
    <3>1. at[k] # off + 1
      BY NoHead
    <3>2. InPlace(S, off, frames, c, at, k)
      BY TrainInPlace
    <3> QED
      BY <3>1, <3>2 DEF InPlace
  <2>3. \A k \in (m + 1)..Len(frames) : x < at[k] => off < at[k]
    <3>1. ASSUME NEW k \in (m + 1)..Len(frames), off = End(frames, at, k) PROVE FALSE
      <4>1. \E j \in (m + 1)..Len(frames) : at[j] = off + 1
        BY <3>1, TrainNext
      <4> QED
        BY <2>2, <4>1
    <3> QED
      BY <1>0, <1>2, <3>1 DEF Where
  <2>4. \A k \in (m + 1)..Len(frames) : x < at[k] => off + 1 < at[k]
    <3> TAKE k \in (m + 1)..Len(frames)
    <3>1. at[k] \in Nat /\ at[k] # off + 1 /\ (x < at[k] => off < at[k])
      BY <2>2, <2>3
    <3> QED
      BY <1>0, <3>1
  <2>5. x <= off + 1
    BY <1>0, <2>1
  <2>6. Where(frames, m, off + 1, c, at, x, {})
    BY <2>1, <2>4, <2>5 DEF Where
  <2> QED
    BY <2>6
<1> QED
  BY <1>0, <1>1, <1>2

\* A parser passes on the frame at its head.
LEMMA WherePassed ==
    ASSUME NEW frames \in Seq(Sendable), NEW S, NEW off,
           NEW m \in Nat, NEW c, NEW at, NEW from, Train(S, off, frames, m, c, at, from), c <= off,
           NEW x \in Nat, NEW T, Where(frames, m, off, c, at, x, T),
           NEW k \in (m + 1)..Len(frames), at[k] = off + 1, NEW T2, k \in T2
    PROVE  Where(frames, m, End(frames, at, k), c, at, x, T2)
<1>0. off \in Nat /\ c \in Nat
  BY DEF Train
<1>1. c <= x /\ x <= off
  BY <1>0 DEF Where
<1>2. InPlace(S, off, frames, c, at, k)
  BY TrainInPlace
<1>3. End(frames, at, k) = at[k] + Size(frames[k]) /\ Size(frames[k]) \in Nat
  BY <1>2 DEF InPlace
<1>4. x < at[k] /\ x <= End(frames, at, k)
  BY <1>0, <1>1, <1>3
<1> QED
  BY <1>1, <1>4 DEF Where

\* The frame before the one at the head did not begin behind x, or was passed on.
LEMMA WhereBefore ==
    ASSUME NEW frames \in Seq(Sendable), NEW S, NEW off,
           NEW m \in Nat, NEW c, NEW at, NEW from, Train(S, off, frames, m, c, at, from), c <= off,
           NEW x \in Nat, NEW T, Where(frames, m, off, c, at, x, T),
           NEW k \in (m + 1)..Len(frames), at[k] = off + 1,
           m + 1 < k, x < at[k - 1]
    PROVE  T # {}
<1>0. off \in Nat /\ c \in Nat
  BY DEF Train
<1>1. k - 1 \in (m + 1)..Len(frames) /\ k - 1 < k
  OBVIOUS
<1>2. End(frames, at, k - 1) < at[k]
  BY <1>1, TrainOrder
<1>3. InPlace(S, off, frames, c, at, k - 1)
  BY <1>1, TrainInPlace
<1>4. /\ End(frames, at, k - 1) = at[k - 1] + Size(frames[k - 1]) /\ Size(frames[k - 1]) \in Nat
      /\ at[k - 1] \in Nat /\ Size(frames[k - 1]) >= 4
  BY <1>3 DEF InPlace
<1>5. ~(off < at[k - 1])
  BY <1>0, <1>2, <1>4
<1>6. ~(\A j \in (m + 1)..Len(frames) : x < at[j] => off < at[j])
  BY <1>1, <1>5
<1>7. ~(off < c)
  BY <1>0
<1> QED
  BY <1>6, <1>7 DEF Where

\* A parser that cannot go on has passed on the last frame, if enough were sent.
LEMMA WhereDone ==
    ASSUME NEW frames \in Seq(Sendable), NEW S, Len(S) \in Nat, NEW off,
           NEW m \in Nat, NEW c, NEW at, NEW from, Train(S, off, frames, m, c, at, from),
           NEW reach \in Nat, NEW x \in c..(c + reach), NEW T, Where(frames, m, off, c, at, x, T),
           NEW n \in Nat, n = Len(frames), m + 1 <= n, reach <= 5 * (n - (m + 1)),
           c <= off => Len(S) < 5, off < c => Len(S) <= reach + 5
    PROVE  n \in T
<1>0. off \in Nat /\ c \in Nat
  BY DEF Train
<1>1. n \in (m + 1)..Len(frames)
  OBVIOUS
<1>2. InPlace(S, off, frames, c, at, n)
  BY <1>1, TrainInPlace
<1>3. /\ End(frames, at, n) = at[n] + Size(frames[n]) /\ Size(frames[n]) \in Nat
      /\ at[n] \in Nat /\ Size(frames[n]) >= 4
      /\ End(frames, at, n) <= off + Len(S)
  BY <1>2 DEF InPlace
<1>4. c + 1 + 5 * (n - (m + 1)) <= at[n]
  BY <1>1, TrainPlace
<1>5. c + 1 + reach <= at[n] /\ x < at[n]
  <2>1. n - (m + 1) \in Nat /\ 5 * (n - (m + 1)) \in Nat
    OBVIOUS
  <2> QED
    BY SMTT(30), <1>0, <1>3, <1>4, <2>1
<1>6. ~(off < c)
  BY SMTT(30), <1>0, <1>3, <1>5
<1>7. ~(off < at[n])
  BY <1>0, <1>3, <1>6
<1>8. PICK k \in (m + 1)..Len(frames) : off = End(frames, at, k) /\ k \in T
  BY <1>1, <1>5, <1>6, <1>7 DEF Where
<1>9. k = n
  <2> SUFFICES ASSUME k < n PROVE FALSE
    OBVIOUS
  <2>1. End(frames, at, k) < at[n]
    BY <1>1, TrainOrder
  <2> QED
    BY <1>7, <1>8, <2>1
<1> QED
  BY <1>8, <1>9

\* A frame that is sent is ahead.
LEMMA WhereSent ==
    ASSUME NEW frames, Len(frames) \in Nat, NEW S, Len(S) \in Nat, NEW off,
           NEW m \in Nat, m <= Len(frames), NEW c, NEW at, NEW from,
           Train(S, off, frames, m, c, at, from),
           NEW x, NEW T, NEW T2, T \subseteq T2, Where(frames, m, off, c, at, x, T),
           NEW more, Len(more) = Len(frames) + 1,
           \A k \in 1..Len(frames) : more[k] = frames[k],
           NEW to, \A k \in (m + 1)..Len(frames) : to[k] = at[k],
           to[Len(frames) + 1] = off + Len(S) + 1
    PROVE  Where(more, m, off, c, to, x, T2)
<1>1. off \in Nat
  BY DEF Train
<1>2. CASE off < c
  BY <1>2 DEF Where
<1>3. CASE \A k \in (m + 1)..Len(frames) : x < at[k] => off < at[k]
  <2>1. ASSUME NEW k \in (m + 1)..Len(more), x < to[k] PROVE off < to[k]
    <3>1. CASE k = Len(frames) + 1
      BY <1>1, <3>1
    <3>2. CASE k # Len(frames) + 1
      <4>1. k \in (m + 1)..Len(frames)
        BY <3>2
      <4> QED
        BY <1>3, <2>1, <4>1
    <3> QED
      BY <3>1, <3>2
  <2> QED
    BY <2>1 DEF Where
<1>4. ASSUME NEW k \in (m + 1)..Len(frames), x < at[k], off = End(frames, at, k), k \in T
      PROVE  Where(more, m, off, c, to, x, T2)
  <2>1. k \in (m + 1)..Len(more) /\ k \in 1..Len(frames) /\ k \in T2
    BY <1>4
  <2>2. to[k] = at[k] /\ End(more, to, k) = End(frames, at, k)
    BY <2>1 DEF End
  <2>3. x < to[k] /\ off = End(more, to, k)
    BY <1>4, <2>2
  <2>4. off < c \/ (c <= x /\ x <= off)
    BY DEF Where
  <2> QED
    BY <2>1, <2>3, <2>4 DEF Where
<1> QED
  BY <1>2, <1>3, <1>4 DEF Where

-----------------------------------------------------------------------------
(***************************************************************************)
(* The parsers after a loss.                                               *)
(***************************************************************************)
\* The frames that were sent before the last loss.
Old == Len(sent) - fresh

HostTold == {k \in 1..Len(sent) : delivered # <<>> /\ Last(delivered) = sent[k]}

HostSync ==
    \E off, c, at : \E x \in c..(c + HostReach) :
        /\ Train(HostStream, off, sent, Old, c, at, 1)
        /\ Where(sent, Old, off, c, at, x, HostTold)

\* What the router's parser starts with is the node id of the next frame; it
\* has passed on the last one under its own, if not what came before that.
RouterTold(off, c, at, x) ==
    {k \in 1..Len(sent) :
        /\ Train(RouterStream, off, sent, Old, c, at, 1)
        /\ dispatched # <<>> /\ Last(dispatched).packet = sent[k].packet
        /\ Old + 1 < k /\ x < at[k - 1] => Last(dispatched) = sent[k]}

RouterSync ==
    \E off, c, at : \E x \in c..(c + RouterReach) :
        /\ Train(RouterStream, off, sent, Old, c, at, 2)
        /\ Where(sent, Old, off, c, at, x, RouterTold(off, c, at, x))

LEMMA SyncTypes ==
    ASSUME TypeInv
    PROVE  /\ Old \in Nat /\ Old <= Len(sent) /\ Len(sent) \in Nat /\ sent \in Seq(Sendable)
           /\ Len(HostStream) \in Nat /\ Len(RouterStream) \in Nat
           /\ HostReach \in Nat /\ RouterReach \in Nat
           /\ delivered \in Seq(Frame) /\ dispatched \in Seq(Frame)
<1>1. /\ TypeOK /\ sent \in Seq(Sendable) /\ fresh <= Len(sent) /\ fresh \in Nat
      /\ delivered \in Seq(Frame) /\ dispatched \in Seq(Frame)
  BY ConstantTypes DEF TypeInv, SentOK, TypeOK
<1>2. Len(sent) \in Nat
  BY <1>1
<1>3. Old \in Nat /\ Old <= Len(sent)
  BY <1>1, <1>2 DEF Old
<1>4. HostStream \in Seq(Byte) /\ RouterStream \in Seq(Byte)
  BY <1>1, StreamTyped
<1>5. HostReach \in Nat /\ RouterReach \in Nat
  BY ConstantTypes DEF HostReach, RouterReach
<1> QED
  BY <1>1, <1>2, <1>3, <1>4, <1>5

\* A loss: whatever is left is what came before.
LEMMA LossSync ==
    ASSUME TypeInv, TypeInv', NEW first \in DOMAIN line, NEW last \in DOMAIN line,
           Lose(first, last)
    PROVE  HostSync' /\ RouterSync'
<1>1. /\ sent' = sent /\ buffer' = buffer /\ rx' = rx /\ data' = data /\ fresh' = 0
  BY DEF Lose
<1>2. /\ sent \in Seq(Sendable) /\ Len(sent) \in Nat /\ HostReach \in Nat /\ RouterReach \in Nat
  BY SyncTypes
<1>3. Old' = Len(sent)
  BY <1>1, <1>2 DEF Old
<1>4. /\ buffer \in Seq(Byte) /\ Held \o data \in Seq(Byte) /\ line' \in Seq(Byte)
  BY StreamTyped DEF TypeInv, TypeOK
<1>5. /\ HostStream' = buffer \o line'
      /\ RouterStream' = (Held \o data) \o line'
  BY <1>1 DEF HostStream, RouterStream, Held
<1>6. \A s, t \in Seq(Byte) : Len(s \o t) \in Nat
  BY ConcatProperties
<1>7. Len(HostStream') \in Nat /\ Len(RouterStream') \in Nat
  BY <1>4, <1>5, <1>6
<1>8. ASSUME NEW S, Len(S) \in Nat, NEW at, NEW reach \in Nat, NEW from
      PROVE  \E x \in Len(S)..(Len(S) + reach) :
                /\ Train(S, 0, sent, Len(sent), Len(S), at, from)
                /\ Where(sent, Len(sent), 0, Len(S), at, x, {})
  <2>1. Train(S, 0, sent, Len(sent), Len(S), at, from)
    BY <1>2, <1>8, TrainEmpty
  <2>2. 0 \in Nat /\ 0 <= Len(S) + reach
    BY <1>8
  <2>3. \E x \in Len(S)..(Len(S) + reach) : Where(sent, Len(sent), 0, Len(S), at, x, {})
    BY <1>8, <2>2, WhereJumped
  <2> QED
    BY <2>1, <2>3
<1> DEFINE at == <<>>
<1> HIDE DEF at
<1>9. HostSync'
  <2>1. PICK x \in Len(HostStream')..(Len(HostStream') + HostReach) :
           /\ Train(HostStream', 0, sent, Len(sent), Len(HostStream'), at, 1)
           /\ Where(sent, Len(sent), 0, Len(HostStream'), at, x, {})
    BY <1>2, <1>7, <1>8
  <2>2. Where(sent, Len(sent), 0, Len(HostStream'), at, x, HostTold')
    BY <2>1, WhereMore
  <2> QED
    BY <1>1, <1>3, <2>1, <2>2 DEF HostSync, HostReach
<1>10. RouterSync'
  <2>1. PICK c \in Nat : c = Len(RouterStream')
    BY <1>7
  <2>2. PICK x \in c..(c + RouterReach) :
           /\ Train(RouterStream', 0, sent, Len(sent), c, at, 2)
           /\ Where(sent, Len(sent), 0, c, at, x, {})
    BY <1>2, <1>7, <1>8, <2>1
  <2>3. Where(sent, Len(sent), 0, c, at, x, RouterTold(0, c, at, x)')
    BY <2>2, WhereMore
  <2>4. RouterReach' = RouterReach
    BY DEF RouterReach
  <2> QED
    BY <1>1, <1>3, <2>2, <2>3, <2>4 DEF RouterSync
<1> QED
  BY <1>9, <1>10

\* The last frame passed on is one of those.
LEMMA LastAppended ==
    ASSUME NEW s \in Seq(Frame), NEW f \in Frame
    PROVE  Append(s, f) # <<>> /\ Last(Append(s, f)) = f
<1>1. Append(s, f) \in Seq(Frame) /\ Len(Append(s, f)) = Len(s) + 1 /\ Append(s, f)[Len(s) + 1] = f
  BY AppendProperties
<1> QED
  BY <1>1 DEF Last

\* A step that leaves a stretch and what was passed on as they were.
LEMMA HostSyncLeft ==
    ASSUME HostSync, HostStream' = HostStream, sent' = sent, fresh' = fresh,
           delivered' = delivered
    PROVE  HostSync'
BY DEF HostSync, Old, HostReach, HostTold

LEMMA RouterSyncLeft ==
    ASSUME RouterSync, RouterStream' = RouterStream, sent' = sent, fresh' = fresh,
           dispatched' = dispatched
    PROVE  RouterSync'
<1>1. Old' = Old /\ RouterReach' = RouterReach
  BY DEF Old, RouterReach
<1>2. \A off, c, at, x : RouterTold(off, c, at, x)' = RouterTold(off, c, at, x)
  BY <1>1 DEF RouterTold
<1>3. PICK off, c, at : \E x \in c..(c + RouterReach) :
         /\ Train(RouterStream, off, sent, Old, c, at, 2)
         /\ Where(sent, Old, off, c, at, x, RouterTold(off, c, at, x))
  BY DEF RouterSync
<1>4. PICK x \in c..(c + RouterReach) :
         /\ Train(RouterStream, off, sent, Old, c, at, 2)
         /\ Where(sent, Old, off, c, at, x, RouterTold(off, c, at, x))
  BY <1>3
<1>5. Where(sent, Old, off, c, at, x, RouterTold(off, c, at, x)')
  BY <1>2, <1>4
<1> QED
  BY <1>1, <1>4, <1>5 DEF RouterSync

\* The host discards a byte.
LEMMA DiscardSync ==
    ASSUME TypeInv, HostSync, Discard
    PROVE  HostSync'
<1>0. /\ Old \in Nat /\ sent \in Seq(Sendable) /\ HostReach \in Nat
  BY SyncTypes
<1>1. /\ \A off \in Nat : Taken(HostStream, off, HostStream', off + 1, 1)
      /\ ~(HostStream[2] = MAGIC_LO /\ HostStream[3] = MAGIC_HI)
      /\ Len(HostStream) \in Nat /\ Len(HostStream) >= 1
      /\ sent' = sent
  BY DiscardTakes
<1>2. Old' = Old /\ HostReach' = HostReach
  BY <1>1 DEF Old, HostReach, Discard
<1>3. PICK off, c, at : \E x \in c..(c + HostReach) :
         /\ Train(HostStream, off, sent, Old, c, at, 1)
         /\ Where(sent, Old, off, c, at, x, HostTold)
  BY DEF HostSync
<1>4. PICK x \in c..(c + HostReach) :
         /\ Train(HostStream, off, sent, Old, c, at, 1)
         /\ Where(sent, Old, off, c, at, x, HostTold)
  BY <1>3
<1>5. off \in Nat
  BY <1>4 DEF Train
<1>6. Train(HostStream', off + 1, sent, Old, c, at, 1)
  <2>1. 1 \in {1, 2} /\ off + 1 <= (off + 1) + 1
    BY <1>5
  <2>2. Taken(HostStream, off, HostStream', off + 1, 1)
    BY <1>1, <1>5
  <2> QED
    BY <1>4, <2>1, <2>2, TrainTaken
<1>7. PICK y \in c..(c + HostReach) : Where(sent, Old, off + 1, c, at, y, {})
  <2>1. 1 \in {1, 2}
    OBVIOUS
  <2> QED
    BY <1>0, <1>1, <1>4, <2>1, WhereSkipped
<1>8. Where(sent, Old, off + 1, c, at, y, HostTold')
  BY <1>7, WhereMore
<1> QED
  BY <1>1, <1>2, <1>6, <1>7, <1>8 DEF HostSync

\* The host passes a frame on: any one, while it has not come to byte c, then
\* the one at its head.
LEMMA DeliverSync ==
    ASSUME TypeInv, HostSync, AllUnmistakable(sent), Deliver
    PROVE  HostSync'
<1>0. /\ Old \in Nat /\ sent \in Seq(Sendable) /\ HostReach \in Nat /\ Len(sent) \in Nat
      /\ delivered \in Seq(Frame)
  BY SyncTypes
<1>1. /\ Seen(HostStream, Tail(buffer)) /\ HasMagic(Tail(buffer))
      /\ FrameLen = 5 + Declared(Tail(buffer)) /\ FrameLen \in Nat /\ FrameLen <= BYTE + 4
      /\ \A off \in Nat : Taken(HostStream, off, HostStream', off + FrameLen, 1)
      /\ sent' = sent
  BY DeliverTakes
<1>2. PICK f \in Frame : /\ delivered' = Append(delivered, f)
                         /\ f.id = HostStream[1] /\ Len(f.packet) = FrameLen - 1
                         /\ \A i \in 1..(FrameLen - 1) : f.packet[i] = HostStream[i + 1]
  BY DeliverTakes
<1>3. Old' = Old /\ HostReach' = HostReach
  BY <1>1 DEF Old, HostReach, Deliver
<1>4. PICK off, c, at : \E x \in c..(c + HostReach) :
         /\ Train(HostStream, off, sent, Old, c, at, 1)
         /\ Where(sent, Old, off, c, at, x, HostTold)
  BY DEF HostSync
<1>5. PICK x \in c..(c + HostReach) :
         /\ Train(HostStream, off, sent, Old, c, at, 1)
         /\ Where(sent, Old, off, c, at, x, HostTold)
  BY <1>4
<1>6. off \in Nat /\ c \in Nat
  BY <1>5 DEF Train
<1>7. Train(HostStream', off + FrameLen, sent, Old, c, at, 1)
  <2>1. 1 \in {1, 2} /\ off + 1 <= (off + FrameLen) + 1
    BY <1>1, <1>6
  <2>2. Taken(HostStream, off, HostStream', off + FrameLen, 1)
    BY <1>1, <1>6
  <2> QED
    BY <1>5, <2>1, <2>2, TrainTaken
<1>8. \E y \in c..(c + HostReach) : Where(sent, Old, off + FrameLen, c, at, y, HostTold')
  <2>1. CASE off < c
    <3>1. off + FrameLen \in Nat /\ off + FrameLen <= c + HostReach
      BY <1>1, <1>6, <2>1, ConstantTypes DEF HostReach
    <3>2. PICK y \in c..(c + HostReach) : Where(sent, Old, off + FrameLen, c, at, y, {})
      BY <1>0, <1>6, <3>1, WhereJumped
    <3>3. Where(sent, Old, off + FrameLen, c, at, y, HostTold')
      BY <3>2, WhereMore
    <3> QED
      BY <3>2, <3>3
  <2>2. CASE c <= off
    <3>1. PICK k \in (Old + 1)..Len(sent) : FrameHere(HostStream, off, sent, k, at, 1, Tail(buffer))
      <4>1. 1 \in {1, 2}
        OBVIOUS
      <4> QED
        BY <1>0, <1>1, <1>5, <2>2, <4>1, TrainKnown
    <3>2. /\ at[k] = off + 1 /\ End(sent, at, k) = off + 1 + Size(sent[k])
          /\ HostStream[1] = sent[k].id
          /\ \A i \in 1..Size(sent[k]) : HostStream[i + 1] = sent[k].packet[i]
          /\ Declared(Tail(buffer)) = Size(sent[k]) - 4
      BY <3>1 DEF FrameHere, Declared
    <3>3. k \in 1..Len(sent) /\ sent[k] \in Sendable /\ Size(sent[k]) \in Nat
      <4>1. InPlace(HostStream, off, sent, c, at, k)
        BY <1>0, <1>5, TrainInPlace
      <4> QED
        BY <4>1 DEF InPlace
    <3>4. FrameLen = 1 + Size(sent[k]) /\ FrameLen - 1 = Size(sent[k])
      <4>1. PICK z \in Nat : z = Size(sent[k])
        BY <3>3
      <4>2. FrameLen = 5 + (z - 4)
        BY <1>1, <3>2, <4>1, Zenon
      <4>3. FrameLen = 1 + z /\ FrameLen - 1 = z
        BY <4>2
      <4> QED
        BY <4>1, <4>3
    <3>5. f = sent[k]
      <4>1. f.packet \in Seq(Byte) /\ f = [id |-> f.id, packet |-> f.packet]
        BY DEF Frame
      <4>2. Len(f.packet) = Size(sent[k]) /\ f.id = sent[k].id
        BY <1>2, <3>2, <3>4
      <4>3. \A i \in 1..Size(sent[k]) : f.packet[i] = sent[k].packet[i]
        BY <1>2, <3>2, <3>4
      <4> QED
        BY <3>3, <4>1, <4>2, <4>3, FrameEqual
    <3>6. k \in HostTold'
      BY <1>0, <1>1, <1>2, <3>3, <3>5, LastAppended DEF HostTold
    <3>7. End(sent, at, k) = off + FrameLen
      BY <1>6, <3>2, <3>3, <3>4
    <3>8. Where(sent, Old, End(sent, at, k), c, at, x, HostTold')
      <4>1. x \in Nat
        BY <1>0, <1>6
      <4> QED
        BY <1>0, <1>5, <2>2, <3>2, <3>6, <4>1, WherePassed
    <3>9. Where(sent, Old, off + FrameLen, c, at, x, HostTold')
      BY <3>7, <3>8
    <3> QED
      BY <3>9
  <2> QED
    BY <1>6, <2>1, <2>2
<1> QED
  BY <1>1, <1>3, <1>7, <1>8 DEF HostSync

\* A frame is sent after a loss: it is behind both parsers.
LEMMA SendSync ==
    ASSUME TypeInv, HostSync, RouterSync, NEW id \in Ids, NEW p \in Payloads, Send(id, p)
    PROVE  HostSync' /\ RouterSync'
<1>0. /\ Old \in Nat /\ Old <= Len(sent) /\ Len(sent) \in Nat /\ sent \in Seq(Sendable)
      /\ Len(HostStream) \in Nat /\ Len(RouterStream) \in Nat /\ fresh \in Nat
  BY SyncTypes DEF TypeInv, TypeOK
<1>1. PICK f : /\ sent' = Append(sent, f) /\ f \in Sendable
               /\ Written(HostStream, HostStream', f)
               /\ Written(RouterStream, RouterStream', f)
  BY SentBehind
<1>2. delivered' = delivered /\ dispatched' = dispatched
  BY SentBehind
<1>3. /\ Len(sent') = Len(sent) + 1 /\ sent'[Len(sent) + 1] = f
      /\ \A k \in 1..Len(sent) : sent'[k] = sent[k]
  BY <1>0, <1>1, AppendProperties
<1>4. Old' = Old
  <2>1. fresh' = fresh + 1
    BY DEF Send
  <2> QED
    BY <1>0, <1>3, <2>1 DEF Old
<1>5. HostReach' = HostReach /\ RouterReach' = RouterReach
  BY DEF HostReach, RouterReach
<1> DEFINE Moved(at, last) == [k \in Nat |-> IF k = Len(sent) + 1 THEN last ELSE at[k]]
<1>6. \A at, last : /\ \A k \in (Old + 1)..Len(sent) : Moved(at, last)[k] = at[k]
                    /\ Moved(at, last)[Len(sent) + 1] = last
  BY <1>0
<1> HIDE DEF Moved
<1>7. ASSUME NEW S, NEW T, Len(S) \in Nat, Written(S, T, f), NEW off, NEW c, NEW at,
             NEW from \in {1, 2}, Train(S, off, sent, Old, c, at, from)
      PROVE  Train(T, off, sent', Old, c, Moved(at, off + Len(S) + 1), from)
  <2>1. PICK to : to = Moved(at, off + Len(S) + 1)
    OBVIOUS
  <2>2. /\ \A k \in (Old + 1)..Len(sent) : to[k] = at[k]
        /\ to[Len(sent) + 1] = off + Len(S) + 1
    BY <1>6, <2>1
  <2>3. Train(T, off, sent', Old, c, to, from)
    <3>1. Extends(sent', sent, f) /\ Moves(to, at, Old, Len(sent), off + Len(S) + 1)
      BY <1>3, <2>2 DEF Extends, Moves
    <3> QED
      BY <1>0, <1>7, <3>1, TrainSent
  <2> QED
    BY <2>1, <2>3
<1>8. ASSUME NEW S, Len(S) \in Nat, NEW off, NEW c, NEW at, NEW from,
             Train(S, off, sent, Old, c, at, from), NEW x, NEW T, NEW T2, T \subseteq T2,
             Where(sent, Old, off, c, at, x, T)
      PROVE  Where(sent', Old, off, c, Moved(at, off + Len(S) + 1), x, T2)
  BY <1>0, <1>3, <1>6, <1>8, WhereSent
<1>9. HostSync'
  <2>1. PICK off, c, at : \E x \in c..(c + HostReach) :
           /\ Train(HostStream, off, sent, Old, c, at, 1)
           /\ Where(sent, Old, off, c, at, x, HostTold)
    BY DEF HostSync
  <2>2. PICK x \in c..(c + HostReach) :
           /\ Train(HostStream, off, sent, Old, c, at, 1)
           /\ Where(sent, Old, off, c, at, x, HostTold)
    BY <2>1
  <2>3. PICK to : to = Moved(at, off + Len(HostStream) + 1)
    OBVIOUS
  <2>4. Train(HostStream', off, sent', Old, c, to, 1)
    <3>1. 1 \in {1, 2}
      OBVIOUS
    <3> QED
      BY <1>0, <1>1, <1>7, <2>2, <2>3, <3>1
  <2>5. HostTold \subseteq HostTold'
    BY <1>0, <1>2, <1>3 DEF HostTold
  <2>6. Where(sent', Old, off, c, to, x, HostTold')
    BY <1>0, <1>8, <2>2, <2>3, <2>5
  <2> QED
    BY <1>4, <1>5, <2>2, <2>4, <2>6 DEF HostSync
<1>10. RouterSync'
  <2>1. PICK off, c, at : \E x \in c..(c + RouterReach) :
           /\ Train(RouterStream, off, sent, Old, c, at, 2)
           /\ Where(sent, Old, off, c, at, x, RouterTold(off, c, at, x))
    BY DEF RouterSync
  <2>2. PICK x \in c..(c + RouterReach) :
           /\ Train(RouterStream, off, sent, Old, c, at, 2)
           /\ Where(sent, Old, off, c, at, x, RouterTold(off, c, at, x))
    BY <2>1
  <2>3. PICK to : to = Moved(at, off + Len(RouterStream) + 1)
    OBVIOUS
  <2>4. Train(RouterStream', off, sent', Old, c, to, 2)
    <3>1. 2 \in {1, 2}
      OBVIOUS
    <3> QED
      BY <1>0, <1>1, <1>7, <2>2, <2>3, <3>1
  <2>5. ASSUME NEW k \in RouterTold(off, c, at, x) PROVE k \in RouterTold(off, c, to, x)'
    <3>1. /\ k \in 1..Len(sent) /\ Train(RouterStream, off, sent, Old, c, at, 1)
          /\ dispatched # <<>> /\ Last(dispatched).packet = sent[k].packet
          /\ Old + 1 < k /\ x < at[k - 1] => Last(dispatched) = sent[k]
      BY DEF RouterTold
    <3>2. Train(RouterStream', off, sent', Old', c, to, 1)
      <4>1. 1 \in {1, 2}
        OBVIOUS
      <4> QED
        BY <1>0, <1>1, <1>4, <1>7, <2>3, <3>1, <4>1
    <3>3. k \in 1..Len(sent') /\ sent'[k] = sent[k]
      BY <1>0, <1>3, <3>1
    <3>4. Old + 1 < k => to[k - 1] = at[k - 1]
      <4>1. Old + 1 < k => k - 1 \in (Old + 1)..Len(sent)
        BY <1>0, <3>1
      <4> QED
        BY <1>6, <2>3, <4>1
    <3>5. Old' + 1 < k /\ x < to[k - 1] => Last(dispatched) = sent'[k]
      BY <1>4, <3>1, <3>3, <3>4
    <3> QED
      BY <1>2, <3>1, <3>2, <3>3, <3>5 DEF RouterTold
  <2>6. Where(sent', Old, off, c, to, x, RouterTold(off, c, to, x)')
    BY <1>0, <1>8, <2>2, <2>3, <2>5
  <2> QED
    BY <1>4, <1>5, <2>2, <2>4, <2>6 DEF RouterSync
<1> QED
  BY <1>9, <1>10

\* The router's buffer overflows: only before byte c.
LEMMA OverflowSync ==
    ASSUME TypeInv, BufferWaits, RouterSync, AllUnmistakable(sent),
           command_parser_feed, Overflowed
    PROVE  RouterSync'
<1>0. /\ Old \in Nat /\ sent \in Seq(Sendable) /\ RouterReach \in Nat /\ MAX_PACKET \in Nat
  BY SyncTypes, ConstantTypes
<1>1. /\ \A off \in Nat : Taken(RouterStream, off, RouterStream', off + (MAX_PACKET + 2), 1)
      /\ Seen(RouterStream, rx.buf) /\ HasMagic(rx.buf) /\ MAX_PACKET < TotalLen(rx.buf)
      /\ sent' = sent
  BY OverflowTakes
<1>2. Old' = Old /\ RouterReach' = RouterReach
  BY <1>1 DEF Old, RouterReach, command_parser_feed
<1>3. PICK off, c, at : \E x \in c..(c + RouterReach) :
         /\ Train(RouterStream, off, sent, Old, c, at, 2)
         /\ Where(sent, Old, off, c, at, x, RouterTold(off, c, at, x))
  BY DEF RouterSync
<1>4. Train(RouterStream, off, sent, Old, c, at, 2)
  BY <1>3
<1>5. off \in Nat /\ c \in Nat
  BY <1>4 DEF Train
<1>6. off < c
  <2> SUFFICES ASSUME c <= off PROVE FALSE
    BY <1>5
  <2>1. PICK k \in (Old + 1)..Len(sent) : FrameHere(RouterStream, off, sent, k, at, 2, rx.buf)
    <3>1. 2 \in {1, 2}
      OBVIOUS
    <3> QED
      BY <1>0, <1>1, <1>4, <3>1, TrainKnown
  <2>2. TotalLen(rx.buf) = Size(sent[k])
    BY <2>1 DEF FrameHere
  <2>3. InPlace(RouterStream, off, sent, c, at, k)
    BY <1>0, <1>4, TrainInPlace
  <2>4. Size(sent[k]) \in Nat /\ Size(sent[k]) <= MAX_PACKET
    BY <2>3 DEF InPlace
  <2> QED
    BY <1>0, <1>1, <2>2, <2>4
<1>7. Train(RouterStream', off + (MAX_PACKET + 2), sent, Old, c, at, 2)
  <2>1. 2 \in {1, 2} /\ off + 2 <= (off + (MAX_PACKET + 2)) + 2
    BY <1>0, <1>5
  <2>2. Taken(RouterStream, off, RouterStream', off + (MAX_PACKET + 2), 2)
    BY <1>1, <1>5, TakenLess
  <2> QED
    BY <1>4, <2>1, <2>2, TrainTaken
<1>8. PICK y \in c..(c + RouterReach) :
         Where(sent, Old, off + (MAX_PACKET + 2), c, at, y, {})
  <2>1. off + (MAX_PACKET + 2) \in Nat /\ off + (MAX_PACKET + 2) <= c + RouterReach
    BY <1>0, <1>5, <1>6 DEF RouterReach
  <2> QED
    BY <1>0, <1>5, <2>1, WhereJumped
<1>9. Where(sent, Old, off + (MAX_PACKET + 2), c, at, y,
            RouterTold(off + (MAX_PACKET + 2), c, at, y)')
  BY <1>8, WhereMore
<1> QED
  BY <1>1, <1>2, <1>7, <1>8, <1>9 DEF RouterSync

\* The router skips a byte.
LEMMA SkippedSync ==
    ASSUME TypeInv, RouterSync, command_parser_feed, Skipped(Append(rx.buf, Head(data)))
    PROVE  RouterSync'
<1>0. /\ Old \in Nat /\ sent \in Seq(Sendable) /\ RouterReach \in Nat
  BY SyncTypes
<1>1. /\ \A off \in Nat : Taken(RouterStream, off, RouterStream', off + 1, 2)
      /\ ~(RouterStream[2] = MAGIC_LO /\ RouterStream[3] = MAGIC_HI)
      /\ Len(RouterStream) \in Nat /\ Len(RouterStream) >= 1
      /\ sent' = sent
  BY SkippedTakes
<1>2. Old' = Old /\ RouterReach' = RouterReach
  BY <1>1 DEF Old, RouterReach, command_parser_feed
<1>3. PICK off, c, at : \E x \in c..(c + RouterReach) :
         /\ Train(RouterStream, off, sent, Old, c, at, 2)
         /\ Where(sent, Old, off, c, at, x, RouterTold(off, c, at, x))
  BY DEF RouterSync
<1>4. PICK x \in c..(c + RouterReach) :
         /\ Train(RouterStream, off, sent, Old, c, at, 2)
         /\ Where(sent, Old, off, c, at, x, RouterTold(off, c, at, x))
  BY <1>3
<1>5. off \in Nat
  BY <1>4 DEF Train
<1>6. Train(RouterStream', off + 1, sent, Old, c, at, 2)
  <2>1. 2 \in {1, 2} /\ off + 2 <= (off + 1) + 2
    BY <1>5
  <2>2. Taken(RouterStream, off, RouterStream', off + 1, 2)
    BY <1>1, <1>5
  <2> QED
    BY <1>4, <2>1, <2>2, TrainTaken
<1>7. PICK y \in c..(c + RouterReach) : Where(sent, Old, off + 1, c, at, y, {})
  <2>1. 2 \in {1, 2}
    OBVIOUS
  <2> QED
    BY <1>0, <1>1, <1>4, <2>1, WhereSkipped
<1>8. Where(sent, Old, off + 1, c, at, y, RouterTold(off + 1, c, at, y)')
  BY <1>7, WhereMore
<1> QED
  BY <1>1, <1>2, <1>6, <1>7, <1>8 DEF RouterSync

\* The router passes on the packet at its head, under the id of its node unless
\* the frame before began no later than x.
LEMMA PassedInSync ==
    ASSUME TypeInv, command_parser_feed,
           NEW buf \in Seq(Byte), NEW f, Seen(RouterStream, buf), HasMagic(buf),
           sent' = sent, dispatched' = Append(dispatched, f),
           f = [id |-> f.id, packet |-> f.packet], f.id = RouterStream[1], f.id \in Byte,
           \A z \in Nat : TotalLen(buf) = z /\ z >= 4 => f.packet = buf /\ Len(buf) = z,
           AllUnmistakable(sent),
           NEW off, NEW c, NEW at, NEW x \in Nat,
           Train(RouterStream, off, sent, Old, c, at, 2), c <= off,
           Where(sent, Old, off, c, at, x, RouterTold(off, c, at, x)),
           Train(RouterStream', off + (Len(buf) + 1), sent, Old, c, at, 1)
    PROVE  Where(sent, Old, off + (Len(buf) + 1), c, at, x,
                 RouterTold(off + (Len(buf) + 1), c, at, x)')
<1>0. /\ Old \in Nat /\ sent \in Seq(Sendable) /\ Len(sent) \in Nat
      /\ dispatched \in Seq(Frame)
  BY SyncTypes
<1>1. Old' = Old
  BY DEF Old, command_parser_feed
<1>2. off \in Nat /\ c \in Nat
  BY DEF Train
<1>3. PICK k \in (Old + 1)..Len(sent) : FrameHere(RouterStream, off, sent, k, at, 2, buf)
  <2>1. 2 \in {1, 2}
    OBVIOUS
  <2> QED
    BY <1>0, <2>1, TrainKnown
<1>4. /\ at[k] = off + 1 /\ End(sent, at, k) = off + 1 + Size(sent[k])
      /\ \A i \in 1..Size(sent[k]) : RouterStream[i + 1] = sent[k].packet[i]
      /\ TotalLen(buf) = Size(sent[k])
  BY <1>3 DEF FrameHere
<1>5. k \in 1..Len(sent) /\ sent[k] \in Sendable /\ Size(sent[k]) \in Nat /\ Size(sent[k]) >= 4
  <2>1. InPlace(RouterStream, off, sent, c, at, k)
    BY <1>0, TrainInPlace
  <2> QED
    BY <2>1 DEF InPlace
<1>6. f.packet = buf /\ Len(buf) = Size(sent[k])
  BY <1>4, <1>5
<1>7. f \in Frame
  BY <1>6 DEF Frame
<1>8. f.packet = sent[k].packet /\ (f.id = sent[k].id => f = sent[k])
  <2>1. ASSUME NEW i \in 1..Size(sent[k]) PROVE f.packet[i] = sent[k].packet[i]
    <3>1. RouterStream[i + 1] = buf[i]
      BY <1>6 DEF Seen
    <3> QED
      BY <1>4, <1>6, <3>1
  <2>2. f.packet \in Seq(Byte) /\ Len(f.packet) = Size(sent[k])
    BY <1>6
  <2> QED
    BY <1>5, <2>1, <2>2, FrameEqual
<1>9. off + (Len(buf) + 1) = End(sent, at, k)
  BY <1>2, <1>4, <1>5, <1>6
<1>10. ASSUME Old + 1 < k, x < at[k - 1] PROVE f = sent[k]
  <2>1. RouterTold(off, c, at, x) # {}
    <3>1. PICK T : T = RouterTold(off, c, at, x)
      OBVIOUS
    <3>2. Where(sent, Old, off, c, at, x, T) /\ at[k] = off + 1
      BY <1>4, <3>1
    <3>3. T # {}
      BY <1>0, <1>10, <3>2, WhereBefore
    <3> QED
      BY <3>1, <3>3
  <2>2. Train(RouterStream, off, sent, Old, c, at, 1)
    BY <2>1 DEF RouterTold
  <2>3. RouterStream[1] = sent[k].id
    <3>1. 1 \in {1, 2} /\ Len(RouterStream) \in Nat
      BY SyncTypes
    <3> QED
      BY SMTT(30), <1>0, <1>4, <2>2, <3>1, TrainAtHead
  <2> QED
    BY <1>8, <2>3
<1>11. k \in RouterTold(off + (Len(buf) + 1), c, at, x)'
  <2>1. dispatched' # <<>> /\ Last(dispatched') = f
    BY <1>0, <1>7, LastAppended
  <2>2. /\ k \in 1..Len(sent') /\ Train(RouterStream', off + (Len(buf) + 1), sent', Old', c, at, 1)
        /\ Last(dispatched').packet = sent'[k].packet
        /\ Old' + 1 < k /\ x < at[k - 1] => Last(dispatched') = sent'[k]
    BY <1>1, <1>5, <1>8, <1>10, <2>1
  <2> QED
    BY <2>1, <2>2 DEF RouterTold
<1>12. Where(sent, Old, End(sent, at, k), c, at, x, RouterTold(off + (Len(buf) + 1), c, at, x)')
  BY <1>0, <1>4, <1>11, WherePassed
<1> QED
  BY <1>9, <1>12

LEMMA PassedSync ==
    ASSUME TypeInv, BufferWaits, RouterSync, AllUnmistakable(sent),
           command_parser_feed, Passed(Append(rx.buf, Head(data)))
    PROVE  RouterSync'
<1>0. /\ Old \in Nat /\ sent \in Seq(Sendable) /\ RouterReach \in Nat /\ MAX_PACKET \in Nat
  BY SyncTypes, ConstantTypes
<1>1. PICK buf, f :
         /\ buf \in Seq(Byte)
         /\ Seen(RouterStream, buf) /\ HasMagic(buf) /\ Len(buf) <= MAX_PACKET
         /\ \A off \in Nat :
               Taken(RouterStream, off, RouterStream', off + (Len(buf) + 1), 1)
         /\ sent' = sent /\ dispatched' = Append(dispatched, f)
         /\ f = [id |-> f.id, packet |-> f.packet]
         /\ f.id = RouterStream[1] /\ f.id \in Byte
         /\ \A z \in Nat : TotalLen(buf) = z /\ z >= 4 => f.packet = buf /\ Len(buf) = z
  BY PassedTakes
<1>2. Old' = Old /\ RouterReach' = RouterReach
  BY <1>1 DEF Old, RouterReach, command_parser_feed
<1>3. PICK off, c, at : \E x \in c..(c + RouterReach) :
         /\ Train(RouterStream, off, sent, Old, c, at, 2)
         /\ Where(sent, Old, off, c, at, x, RouterTold(off, c, at, x))
  BY DEF RouterSync
<1>4. PICK x \in c..(c + RouterReach) :
         /\ Train(RouterStream, off, sent, Old, c, at, 2)
         /\ Where(sent, Old, off, c, at, x, RouterTold(off, c, at, x))
  BY <1>3
<1>5. off \in Nat /\ c \in Nat /\ Len(buf) \in Nat /\ Len(buf) <= MAX_PACKET
  BY <1>1, <1>4 DEF Train
<1> DEFINE off2 == off + (Len(buf) + 1)
<1>6. Train(RouterStream', off2, sent, Old, c, at, 1)
  <2>1. 2 \in {1, 2} /\ 1 \in {1, 2} /\ off + 2 <= off2 + 1
    BY <1>5
  <2>2. Taken(RouterStream, off, RouterStream', off2, 1)
    BY <1>1, <1>5
  <2> HIDE DEF off2
  <2> QED
    BY <1>4, <2>1, <2>2, TrainTaken
<1>7. \E y \in c..(c + RouterReach) : Where(sent, Old, off2, c, at, y, RouterTold(off2, c, at, y)')
  <2>1. CASE off < c
    <3>1. off2 \in Nat /\ off2 <= c + RouterReach
      BY <1>0, <1>5, <2>1 DEF RouterReach
    <3> HIDE DEF off2
    <3>2. PICK y \in c..(c + RouterReach) : Where(sent, Old, off2, c, at, y, {})
      BY <1>0, <1>5, <3>1, WhereJumped
    <3>3. Where(sent, Old, off2, c, at, y, RouterTold(off2, c, at, y)')
      BY <3>2, WhereMore
    <3> QED
      BY <3>2, <3>3
  <2>2. CASE c <= off
    <3>1. x \in Nat
      BY <1>0, <1>5
    <3>2. Where(sent, Old, off2, c, at, x, RouterTold(off2, c, at, x)')
      BY <1>1, <1>4, <1>6, <2>2, <3>1, PassedInSync
    <3> QED
      BY <3>2
  <2> QED
    BY <1>5, <2>1, <2>2
<1>8. Train(RouterStream', off2, sent, Old, c, at, 2)
  BY <1>5, <1>6, TrainLess
<1> HIDE DEF off2
<1> QED
  BY <1>1, <1>2, <1>7, <1>8 DEF RouterSync

LEMMA FeedSync ==
    ASSUME TypeInv, BufferWaits, RouterSync, AllUnmistakable(sent), command_parser_feed
    PROVE  RouterSync'
<1>1. fresh' = fresh
  BY DEF command_parser_feed
<1>2. ASSUME Started(Head(data)) PROVE RouterSync'
  BY <1>1, <1>2, StartedTakes, RouterSyncLeft
<1>3. ASSUME Kept(Append(rx.buf, Head(data))) PROVE RouterSync'
  BY <1>1, <1>3, KeptTakes, RouterSyncLeft
<1> QED
  BY <1>2, <1>3, FeedOutcomes, OverflowSync, SkippedSync, PassedSync

\* Once something was lost.
AfterLoss == lost > 0 /\ AllUnmistakable(sent) => HostSync /\ RouterSync

\* The frames sent before one more are unmistakable when all are.
LEMMA UnmistakableBefore ==
    ASSUME NEW frames \in Seq(Sendable), NEW f, AllUnmistakable(Append(frames, f))
    PROVE  AllUnmistakable(frames)
<1>1. /\ Len(frames) \in Nat /\ Len(Append(frames, f)) = Len(frames) + 1
      /\ \A k \in 1..Len(frames) : Append(frames, f)[k] = frames[k]
  OBVIOUS
<1> SUFFICES ASSUME NEW k \in 1..Len(frames) PROVE Unmistakable(frames[k].packet)
  BY DEF AllUnmistakable
<1>2. k \in 1..Len(Append(frames, f)) /\ Append(frames, f)[k] = frames[k]
  BY <1>1
<1> QED
  BY <1>2 DEF AllUnmistakable

\* A step that changes neither what was sent nor the losses.
LEMMA AfterLossLeft ==
    ASSUME lost' = lost, sent' = sent,
           lost > 0 /\ AllUnmistakable(sent) => HostSync' /\ RouterSync'
    PROVE  AfterLoss'
BY DEF AfterLoss

LEMMA NextAfterLoss ==
    ASSUME IInv, IInv', AfterLoss, [Next]_vars
    PROVE  AfterLoss'
<1>0. TypeInv /\ TypeInv' /\ BufferWaits
  BY DEF IInv
<1>1. lost > 0 /\ AllUnmistakable(sent) => HostSync /\ RouterSync
  BY DEF AfterLoss
<1>2. ASSUME NEW id \in Ids, NEW p \in Payloads, Send(id, p) PROVE AfterLoss'
  <2>1. lost' = lost
    BY <1>2 DEF Send
  <2>2. PICK f : sent' = Append(sent, f)
    BY <1>0, <1>2, SentBehind
  <2>3. AllUnmistakable(sent') => AllUnmistakable(sent)
    BY <1>0, <2>2, SyncTypes, UnmistakableBefore
  <2>4. HostSync /\ RouterSync => HostSync' /\ RouterSync'
    BY <1>0, <1>2, SendSync
  <2> QED
    BY <1>1, <2>1, <2>3, <2>4 DEF AfterLoss
<1>3. ASSUME NEW n \in 1..Len(line), Read(n) PROVE AfterLoss'
  <2>1. lost' = lost /\ fresh' = fresh
    BY <1>3 DEF Read
  <2>2. /\ HostStream' = HostStream /\ RouterStream' = RouterStream
        /\ sent' = sent /\ dispatched' = dispatched /\ delivered' = delivered
    BY <1>0, <1>3, ReadTakes
  <2> QED
    BY <1>1, <2>1, <2>2, HostSyncLeft, RouterSyncLeft, AfterLossLeft
<1>4. CASE command_parser_feed
  <2>1. /\ lost' = lost /\ sent' = sent /\ fresh' = fresh /\ delivered' = delivered
        /\ buffer' = buffer /\ line' = line
    BY <1>4 DEF command_parser_feed
  <2>2. HostStream' = HostStream
    BY <2>1 DEF HostStream
  <2> QED
    BY <1>0, <1>1, <1>4, <2>1, <2>2, HostSyncLeft, FeedSync, AfterLossLeft
<1>5. ASSUME Discard \/ Deliver PROVE AfterLoss'
  <2>1. /\ lost' = lost /\ sent' = sent /\ fresh' = fresh /\ dispatched' = dispatched
        /\ rx' = rx /\ data' = data /\ line' = line
    BY <1>5 DEF Discard, Deliver
  <2>2. RouterStream' = RouterStream
    BY <2>1 DEF RouterStream, Held
  <2> QED
    BY <1>0, <1>1, <1>5, <2>1, <2>2, RouterSyncLeft, DiscardSync, DeliverSync, AfterLossLeft
<1>6. ASSUME NEW b \in Noise, AddNoise(b) PROVE AfterLoss'
  <2>1. lost' = lost /\ lost = 0
    BY <1>6 DEF AddNoise
  <2>2. ~(lost' > 0)
    BY <2>1
  <2> QED
    BY <2>2 DEF AfterLoss
<1>7. ASSUME NEW first \in DOMAIN line, NEW last \in DOMAIN line, Lose(first, last)
      PROVE  AfterLoss'
  <2>1. HostSync' /\ RouterSync'
    BY <1>0, <1>7, LossSync
  <2> QED
    BY <2>1 DEF AfterLoss
<1>8. CASE UNCHANGED vars
  <2>1. /\ lost' = lost /\ sent' = sent /\ fresh' = fresh /\ dispatched' = dispatched
        /\ rx' = rx /\ data' = data /\ line' = line /\ buffer' = buffer
        /\ delivered' = delivered
    BY <1>8 DEF vars
  <2>2. RouterStream' = RouterStream /\ HostStream' = HostStream
    BY <2>1 DEF RouterStream, Held, HostStream
  <2> QED
    BY <1>1, <2>1, <2>2, RouterSyncLeft, HostSyncLeft, AfterLossLeft
<1> QED
  BY <1>2, <1>3, <1>4, <1>5, <1>6, <1>7, <1>8 DEF Next

LEMMA SyncInvariant == Spec => [](IInv /\ AfterLoss)
<1>1. Init => AfterLoss
  <2> SUFFICES ASSUME Init PROVE AfterLoss
    OBVIOUS
  <2>1. lost = 0
    BY DEF Init
  <2>2. ~(lost > 0)
    BY <2>1
  <2> QED
    BY <2>2 DEF AfterLoss
<1> QED
  BY <1>1, InitIInv, NextIInv, NextAfterLoss, PTL DEF Spec

-----------------------------------------------------------------------------
(***************************************************************************)
(* What this says when all was read.                                       *)
(***************************************************************************)
\* All that is left to the host is what it holds: not a whole frame, or, before
\* byte c, a part of one.
LEMMA HostRests ==
    ASSUME TypeInv, AllUnmistakable(sent), line = <<>>, HostIdle, NEW off, NEW c, NEW at,
           Train(HostStream, off, sent, Old, c, at, 1)
    PROVE  /\ c <= off => Len(HostStream) < 5
           /\ Len(HostStream) <= HostReach + 5
<1>0. /\ TypeOK /\ Old \in Nat /\ sent \in Seq(Sendable) /\ HostReach \in Nat
  BY SyncTypes DEF TypeInv
<1>1. buffer \in Seq(Byte) /\ HostStream = buffer /\ Len(buffer) \in Nat
  BY <1>0, StreamTyped, ConcatEmptySeq DEF HostStream
<1>2. CASE Len(buffer) <= HEADER
  <2>1. Len(buffer) <= 4
    BY <1>2 DEF HEADER
  <2> QED
    BY <1>0, <1>1, <2>1
<1>3. CASE Len(buffer) > HEADER
  <2>1. HasMagic(Tail(buffer)) /\ ~(Len(buffer) >= FrameLen)
    BY <1>3 DEF HostIdle, Discards, Delivers
  <2>2. /\ Seen(HostStream, Tail(buffer)) /\ FrameLen = 5 + Declared(Tail(buffer))
        /\ FrameLen \in Nat /\ FrameLen <= BYTE + 4
    BY <1>0, <1>3, HostSees
  <2>3. Len(HostStream) <= HostReach + 5
    BY <1>1, <2>1, <2>2, ConstantTypes DEF HostReach
  <2>4. ASSUME c <= off PROVE FALSE
    <3>1. PICK k \in (Old + 1)..Len(sent) : FrameHere(HostStream, off, sent, k, at, 1, Tail(buffer))
      <4>1. 1 \in {1, 2}
        OBVIOUS
      <4> QED
        BY <1>0, <2>1, <2>2, <2>4, <4>1, TrainKnown
    <3>2. 1 + Size(sent[k]) <= Len(HostStream) /\ Declared(Tail(buffer)) = Size(sent[k]) - 4
      BY <3>1 DEF FrameHere, Declared
    <3>3. Size(sent[k]) \in Nat
      <4>1. InPlace(HostStream, off, sent, c, at, k)
        BY <1>0, TrainInPlace
      <4> QED
        BY <4>1 DEF InPlace
    <3>4. PICK z \in Nat : z = Size(sent[k])
      BY <3>3
    <3>5. FrameLen = 5 + (z - 4) /\ 1 + z <= Len(buffer)
      BY <1>1, <2>2, <3>2, <3>4, Zenon
    <3> QED
      BY <1>1, <2>1, <3>5
  <2> QED
    BY <2>3, <2>4
<1> QED
  BY <1>1, <1>2, <1>3 DEF HEADER

LEMMA RouterRests ==
    ASSUME TypeInv, BufferWaits, AllUnmistakable(sent), line = <<>>, data = <<>>,
           NEW off, NEW c, NEW at, Train(RouterStream, off, sent, Old, c, at, 2)
    PROVE  /\ c <= off => Len(RouterStream) < 5
           /\ Len(RouterStream) <= RouterReach + 5
<1>0. /\ TypeOK /\ Old \in Nat /\ sent \in Seq(Sendable) /\ RouterReach \in Nat
  BY SyncTypes DEF TypeInv
<1>1. /\ Len(RouterStream) \in Nat /\ Len(RouterStream) <= RouterReach
      /\ Len(RouterStream) >= 5 =>
            /\ Seen(RouterStream, rx.buf) /\ HasMagic(rx.buf)
            /\ Len(rx.buf) < TotalLen(rx.buf) /\ Len(RouterStream) = 1 + Len(rx.buf)
  BY <1>0, RouterHolds
<1>2. ASSUME c <= off, Len(RouterStream) >= 5 PROVE FALSE
  <2>1. PICK k \in (Old + 1)..Len(sent) : FrameHere(RouterStream, off, sent, k, at, 2, rx.buf)
    <3>1. 2 \in {1, 2}
      OBVIOUS
    <3> QED
      BY <1>0, <1>1, <1>2, <3>1, TrainKnown
  <2>2. 1 + Size(sent[k]) <= Len(RouterStream) /\ TotalLen(rx.buf) = Size(sent[k])
    BY <2>1 DEF FrameHere
  <2>3. Size(sent[k]) \in Nat
    <3>1. InPlace(RouterStream, off, sent, c, at, k)
      BY <1>0, TrainInPlace
    <3> QED
      BY <3>1 DEF InPlace
  <2>4. Len(rx.buf) \in Nat
    BY <1>0 DEF TypeOK
  <2>5. Len(rx.buf) < Size(sent[k]) /\ 1 + Size(sent[k]) <= 1 + Len(rx.buf)
    BY <1>1, <1>2, <2>2
  <2> QED
    BY <2>3, <2>4, <2>5
<1>3. Len(RouterStream) < 5 \/ Len(RouterStream) >= 5
  BY <1>1
<1> QED
  BY <1>0, <1>1, <1>2, <1>3

\* RESYNC frames are longer than the parsers reach.
LEMMA LongEnough ==
    ASSUME TypeInv, fresh > RESYNC, NEW n \in Nat, n = Len(sent)
    PROVE  /\ Old + 2 < n + 1 /\ Old + 1 <= n
           /\ HostReach <= 5 * (n - (Old + 1))
           /\ RouterReach <= 5 * (n - (Old + 1))
           /\ RouterReach <= 5 * ((n - 1) - (Old + 1))
<1>1. Old \in Nat /\ fresh \in Nat /\ RESYNC \in Nat /\ BYTE \in Nat /\ MAX_PACKET \in Nat
  BY SyncTypes, ConstantTypes, FramingAssumption DEF TypeInv, TypeOK
<1>2. Old = n - fresh
  BY DEF Old
<1>3. BYTE + 3 <= 5 * RESYNC /\ MAX_PACKET + 1 <= 5 * (RESYNC - 1)
  <2>1. /\ BYTE + HEADER - 1 <= (HEADER + 1) * RESYNC
        /\ MAX_PACKET + 1 <= (HEADER + 1) * (RESYNC - 1)
    BY EnoughFrames
  <2>2. HEADER = 4 /\ HEADER + 1 = 5 /\ BYTE + HEADER - 1 = BYTE + 3
    BY <1>1 DEF HEADER
  <2> QED
    BY <2>1, <2>2
<1>4. RESYNC >= 2
  BY <1>1, <1>3
<1>5. n - (Old + 1) = fresh - 1 /\ (n - 1) - (Old + 1) = fresh - 2
  BY <1>1, <1>2
<1>6. RESYNC <= fresh - 1 /\ RESYNC - 1 <= fresh - 2
  BY <1>1
<1>7. 5 * RESYNC <= 5 * (fresh - 1) /\ 5 * (RESYNC - 1) <= 5 * (fresh - 2)
  BY <1>1, <1>6
<1> QED
  BY <1>1, <1>2, <1>3, <1>4, <1>5, <1>7 DEF HostReach, RouterReach

LEMMA HostResyncs ==
    ASSUME TypeInv, HostSync, AllUnmistakable(sent), line = <<>>, HostIdle, fresh > RESYNC
    PROVE  Resynchronised(delivered)
<1>0. /\ Old \in Nat /\ sent \in Seq(Sendable) /\ HostReach \in Nat /\ Len(HostStream) \in Nat
      /\ Len(sent) \in Nat
  BY SyncTypes
<1>1. PICK n \in Nat : n = Len(sent)
  BY <1>0
<1>2. PICK off, c, at : \E x \in c..(c + HostReach) :
         /\ Train(HostStream, off, sent, Old, c, at, 1)
         /\ Where(sent, Old, off, c, at, x, HostTold)
  BY DEF HostSync
<1>3. PICK x \in c..(c + HostReach) :
         /\ Train(HostStream, off, sent, Old, c, at, 1)
         /\ Where(sent, Old, off, c, at, x, HostTold)
  BY <1>2
<1>4. /\ c <= off => Len(HostStream) < 5
      /\ Len(HostStream) <= HostReach + 5
  BY <1>3, HostRests
<1>5. Old + 1 <= n /\ HostReach <= 5 * (n - (Old + 1))
  BY <1>1, LongEnough
<1>6. n \in HostTold
  BY <1>0, <1>1, <1>3, <1>4, <1>5, WhereDone
<1>7. Last(sent) = sent[n]
  BY <1>1 DEF Last
<1> QED
  BY <1>6, <1>7 DEF HostTold, Resynchronised

LEMMA RouterResyncs ==
    ASSUME TypeInv, BufferWaits, RouterSync, AllUnmistakable(sent), line = <<>>, data = <<>>,
           fresh > RESYNC
    PROVE  Resynchronised(dispatched)
<1>0. /\ Old \in Nat /\ sent \in Seq(Sendable) /\ RouterReach \in Nat
      /\ Len(RouterStream) \in Nat /\ Len(sent) \in Nat
  BY SyncTypes
<1>1. PICK n \in Nat : n = Len(sent)
  BY <1>0
<1>2. PICK off, c, at : \E x \in c..(c + RouterReach) :
         /\ Train(RouterStream, off, sent, Old, c, at, 2)
         /\ Where(sent, Old, off, c, at, x, RouterTold(off, c, at, x))
  BY DEF RouterSync
<1>3. PICK x \in c..(c + RouterReach) :
         /\ Train(RouterStream, off, sent, Old, c, at, 2)
         /\ Where(sent, Old, off, c, at, x, RouterTold(off, c, at, x))
  BY <1>2
<1>4. /\ c <= off => Len(RouterStream) < 5
      /\ Len(RouterStream) <= RouterReach + 5
  BY <1>3, RouterRests
<1>5. /\ Old + 2 < n + 1 /\ Old + 1 <= n /\ RouterReach <= 5 * (n - (Old + 1))
      /\ RouterReach <= 5 * ((n - 1) - (Old + 1))
  BY <1>1, LongEnough
<1>6. n \in RouterTold(off, c, at, x)
  BY <1>0, <1>1, <1>3, <1>4, <1>5, WhereDone
<1>7. PICK j \in Nat : j = n - 1 /\ j \in (Old + 1)..Len(sent) /\ Old + 1 < n
  <2>1. n - 1 \in Nat /\ n - 1 \in (Old + 1)..Len(sent) /\ Old + 1 < n
    BY <1>0, <1>1, <1>5
  <2> QED
    BY <2>1
<1>8. /\ at[j] \in Nat /\ c \in Nat /\ c + 1 + 5 * (j - (Old + 1)) <= at[j]
  BY <1>0, <1>3, <1>7, TrainPlace
<1>9. x < at[n - 1]
  <2>1. RouterReach <= 5 * (j - (Old + 1)) /\ 5 * (j - (Old + 1)) \in Nat
    BY <1>0, <1>5, <1>7
  <2>2. x \in Nat /\ x <= c + RouterReach
    BY <1>0, <1>8
  <2>3. x < at[j]
    BY <1>0, <1>8, <2>1, <2>2
  <2> QED
    BY <1>7, <2>3
<1>10. dispatched # <<>> /\ Last(dispatched) = sent[n]
  BY <1>6, <1>7, <1>9 DEF RouterTold
<1>11. Last(sent) = sent[n]
  BY <1>1 DEF Last
<1> QED
  BY <1>10, <1>11 DEF Resynchronised

LEMMA ResyncComplete == IInv /\ AfterLoss => Resync
<1> SUFFICES ASSUME IInv, AfterLoss, line = <<>>, data = <<>>, HostIdle, lost > 0,
                    fresh > RESYNC, \A i \in DOMAIN sent : Unmistakable(sent[i].packet)
             PROVE  Resynchronised(delivered) /\ Resynchronised(dispatched)
  BY DEF Resync
<1>1. TypeInv /\ BufferWaits
  BY DEF IInv
<1>2. AllUnmistakable(sent)
  <2>1. sent \in Seq(Sendable)
    BY <1>1, SyncTypes
  <2>2. DOMAIN sent = 1..Len(sent)
    BY <2>1
  <2> QED
    BY <2>2 DEF AllUnmistakable
<1>3. HostSync /\ RouterSync
  BY <1>2 DEF AfterLoss
<1> QED
  BY <1>1, <1>2, <1>3, HostResyncs, RouterResyncs

\* After a loss both parsers recover by themselves: once more than RESYNC whole
\* frames were sent and all was read, the last one was passed on by the host and
\* by the router, by the router to its node, as long as no packet holds the magic
\* number but at its head (_process_buffer, command_parser_feed).
THEOREM Resynchronisation == Spec => []Resync
BY SyncInvariant, ResyncComplete, PTL

\* Whatever noise comes between frames and however the bytes are split into
\* reads, the host delivers every frame that was sent, in order and under its
\* node id, and none besides; none waits once it was read (_process_buffer).
THEOREM HostExactness == Spec => []HostExact
BY StreamInvariant, HostComplete, PTL

\* Whatever noise comes between frames and however the bytes are split into
\* reads, the router passes on every packet that was sent, in order, and none
\* besides; none waits once it was parsed (command_parser_feed).
THEOREM RouterPacketsKept == Spec => []RouterKeepsPackets
BY StreamInvariant, RouterComplete, PTL
=============================================================================
