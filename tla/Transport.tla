----------------------------- MODULE Transport -----------------------------
(***************************************************************************)
(* How frames are cut out of the byte stream between the two machines.     *)
(* pty_bridge passes bytes on piece by piece (ByteFramer); towards the     *)
(* host, safety-linkd cuts frames out of what arrives (LinkFramer) and     *)
(* pushes them to the driver, which may refuse them, and                   *)
(* safety-supervisord parses what it reads from the driver                 *)
(* (FrameAssembler); towards the firmware, the UART interrupt feeds a      *)
(* state machine (rx_feed_byte).  Every read returns an arbitrary part of  *)
(* what has arrived.                                                       *)
(*                                                                         *)
(* A header is the two bytes of the magic, the payload length, the version *)
(* and the bytes after it.  Version, type, sequence number, time and       *)
(* checksum play no part in cutting; only the driver looks at the version. *)
(* The other fields and the result of the checksum test are left out: the  *)
(* bytes cut are passed on whatever they are.                              *)
(* A definition with an underscore and a suffix (Hunt_EmptiesBuffer) is a  *)
(* variant with a plausible mistake; the specification does not use it.    *)
(***************************************************************************)
EXTENDS Naturals, Sequences, FiniteSetsExt, SequencesExt

CONSTANTS Byte,         \* the values of a byte, numbers
          MagicLo,      \* first byte of the magic on the line
          MagicHi,      \* second byte of the magic
          HeaderSize,   \* SAFETY_HEADER_SIZE
          MaxPayload,   \* SAFETY_MAX_PAYLOAD
          SAFETY_PROTO_VERSION,
          Depth,        \* capacity of the driver's rx_fifo, in frames
          Streams,      \* bound: what the sender may emit, byte sequences
          MaxCuts       \* bound: how many pieces the bridge fails to write whole

ASSUME TransportAssumption ==
    /\ Byte \subseteq Nat /\ {MagicLo, MagicHi} \subseteq Byte
    /\ MagicLo # MagicHi
    /\ HeaderSize \in Nat /\ HeaderSize > 3
    /\ SAFETY_PROTO_VERSION \in Byte
    /\ MaxPayload \in Nat /\ MaxCuts \in Nat /\ Depth \in Nat \ {0}
    /\ \A s \in Streams : s \in Seq(Byte)

MaxFrame == HeaderSize + MaxPayload

VARIABLES
    receiver,   \* which way the bytes go: "host" or "firmware"
    stream,     \* the bytes of the sender
    read,       \* how many of them the bridge has read
    bridge,     \* buf_ of the bridge's ByteFramer
    cuts,       \* how many pieces were not written whole
    wire,       \* all bytes the bridge has written
    taken,      \* how many of them the receiver has read
    link,       \* buf_ of safety-linkd's LinkFramer
    frames,     \* frames safety-linkd has cut and not yet pushed
    rx_fifo,    \* frames in the driver, to be read by the supervisor
    full,       \* history: for every push so far, whether rx_fifo was full
    assembler,  \* buf_ of the supervisor's FrameAssembler
    parsed,     \* what the FrameAssembler has put out
    rxs,        \* the receive state of the firmware
    completed   \* frames the firmware has received completely

hostVars == <<link, frames, rx_fifo, full, assembler, parsed>>
vars == <<receiver, stream, read, bridge, cuts, wire, taken, hostVars, rxs,
          completed>>

-----------------------------------------------------------------------------
(* The framers of the bridge, safety-linkd and the supervisor. *)

Magic(b, p) == b[p] = MagicLo /\ b[p + 1] = MagicHi
PayloadLength(b, p) == b[p + 2]
Version(b, p) == b[p + 3]
Slice(b, p, n) == SubSeq(b, p, p + n - 1)

\* The first magic at or after p; without one, the last byte is kept, which
\* may be the first half of a magic.
Hunt_EmptiesBuffer(b, p) ==
    LET found == {q \in p..(Len(b) - 1) : Magic(b, q)}
    IN  IF found = {} THEN Len(b) + 1 ELSE Min(found)
Hunt(b, p) ==
    LET found == {q \in p..(Len(b) - 1) : Magic(b, q)}
    IN  IF found = {} THEN Max({p, Len(b)}) ELSE Min(found)

\* What a framer puts out for the bytes before the magic, and for a header
\* with an impossible length at q: the bridge passes everything on, the
\* supervisor reports the header, safety-linkd says nothing.
Noise_Swallowed(who, b, p, q) == <<>>
Noise(who, b, p, q) ==
    IF who = "bridge" /\ q > p THEN <<Slice(b, p, q - p)>> ELSE <<>>
BadLength(who, b, q) ==
    CASE who = "bridge"    -> <<Slice(b, q, 1)>>
      [] who = "assembler" -> <<Slice(b, q, HeaderSize)>>
      [] who = "link"      -> <<>>

\* The loop of feed(): out is what was put out so far, p the position.
RECURSIVE Scan(_, _, _, _)
Scan(who, b, p, out) ==
    LET q == Hunt(b, p)
        seen == out \o Noise(who, b, p, q)
        total == HeaderSize + PayloadLength(b, q)
        stop == [out |-> seen, buf |-> Slice(b, q, Len(b) - q + 1)]
    IN  IF q + HeaderSize > Len(b) + 1 THEN stop
        ELSE IF PayloadLength(b, q) > MaxPayload
             THEN Scan(who, b, q + 1, seen \o BadLength(who, b, q))
        ELSE IF q + total > Len(b) + 1 THEN stop
        ELSE Scan(who, b, q + total, Append(seen, Slice(b, q, total)))

ByteFeed(buf, data) == Scan("bridge", buf \o data, 1, <<>>)
LinkFeed(buf, data) == Scan("link", buf \o data, 1, <<>>)
AssemblerFeed(buf, data) == Scan("assembler", buf \o data, 1, <<>>)

-----------------------------------------------------------------------------
(* The receiver of the firmware; got is Len(buf). *)

RxReset == [phase |-> "MAGIC_LO", buf |-> <<>>, need |-> 0]

\* The test of the complete header.
TooLong_Never(b) == FALSE
TooLong(b) == PayloadLength(b, 1) > MaxPayload

\* A byte after MagicLo that is not MagicHi may itself be MagicLo.
AfterLo_Forgets(r, b) == RxReset
AfterLo(r, b) == IF b = MagicLo THEN [r EXCEPT !.buf = <<b>>] ELSE RxReset

\* The state after one byte; the phase "COMPLETE" is the label frame_complete.
RxFeedByte(r, b) ==
    LET got == Append(r.buf, b) IN
    CASE r.phase = "MAGIC_LO" ->
           IF b = MagicLo THEN [r EXCEPT !.phase = "MAGIC_HI", !.buf = <<b>>] ELSE r
      [] r.phase = "MAGIC_HI" ->
           IF b = MagicHi
           THEN [phase |-> "HEADER", buf |-> got, need |-> HeaderSize - 2]
           ELSE AfterLo(r, b)
      [] r.phase \in {"HEADER", "PAYLOAD"} /\ r.need > 1 ->
           [r EXCEPT !.buf = got, !.need = @ - 1]
      [] r.phase = "HEADER" /\ r.need = 1 ->
           IF TooLong(got) THEN RxReset
           ELSE IF PayloadLength(got, 1) = 0
           THEN [phase |-> "COMPLETE", buf |-> got, need |-> 0]
           ELSE [phase |-> "PAYLOAD", buf |-> got, need |-> PayloadLength(got, 1)]
      [] r.phase = "PAYLOAD" /\ r.need = 1 ->
           [phase |-> "COMPLETE", buf |-> got, need |-> 0]

-----------------------------------------------------------------------------
Init ==
    /\ receiver \in {"host", "firmware"}
    /\ stream \in Streams
    /\ read = 0 /\ taken = 0 /\ cuts = 0
    /\ bridge = <<>> /\ wire = <<>> /\ link = <<>> /\ assembler = <<>>
    /\ frames = <<>> /\ rx_fifo = <<>> /\ full = <<>>
    /\ parsed = <<>> /\ completed = <<>>
    /\ rxs = RxReset

\* forward(): the bridge reads n bytes and writes the pieces its framer puts
\* out.  When write() fails, the rest of that piece is given up, and the next
\* piece is written; a piece the fault injector drops is given up whole.
Forward(n) ==
    /\ read + n <= Len(stream)
    /\ LET r == ByteFeed(bridge, Slice(stream, read + 1, n))
       IN  /\ bridge' = r.buf
           /\ \/ /\ wire' = wire \o FlattenSeq(r.out)
                 /\ UNCHANGED cuts
              \/ \E i \in 1..Len(r.out) : \E k \in 0..(Len(r.out[i]) - 1) :
                   /\ cuts < MaxCuts
                   /\ wire' = wire \o FlattenSeq([r.out EXCEPT ![i] = Slice(@, 1, k)])
                   /\ cuts' = cuts + 1
    /\ read' = read + n
    /\ UNCHANGED <<receiver, stream, taken, hostVars, rxs, completed>>

\* safety-linkd reads n bytes from the UART and cuts out the frames they
\* complete; it reads again when all of them have been pushed.
LinkRead(n) ==
    /\ receiver = "host"
    /\ frames = <<>>
    /\ taken + n <= Len(wire)
    /\ LET r == LinkFeed(link, Slice(wire, taken + 1, n))
       IN  link' = r.buf /\ frames' = r.out
    /\ taken' = taken + n
    /\ UNCHANGED <<receiver, stream, read, bridge, cuts, wire, rx_fifo, full,
                   assembler, parsed, rxs, completed>>

\* The tests of queue_rx_from_linkd before the queue.
Wellformed(f) ==
    /\ Len(f) >= HeaderSize /\ Len(f) <= MaxFrame
    /\ Magic(f, 1) /\ Version(f, 1) = SAFETY_PROTO_VERSION
    /\ PayloadLength(f, 1) <= MaxPayload
    /\ Len(f) = HeaderSize + PayloadLength(f, 1)

\* PUSH_RX_FRAME for the next frame: the driver refuses it when it is not
\* well-formed or when rx_fifo is full.  Also after a push that failed,
\* safety-linkd goes on with the next frame.
PushRx ==
    /\ frames # <<>>
    /\ rx_fifo' = IF Wellformed(Head(frames)) /\ Len(rx_fifo) < Depth
                  THEN Append(rx_fifo, Head(frames)) ELSE rx_fifo
    /\ frames' = Tail(frames)
    /\ full' = Append(full, Len(rx_fifo) = Depth)
    /\ UNCHANGED <<receiver, stream, read, bridge, cuts, wire, taken, link,
                   assembler, parsed, rxs, completed>>

\* The supervisor reads one frame from the driver and parses it.
DeviceRead ==
    /\ rx_fifo # <<>>
    /\ LET r == AssemblerFeed(assembler, Head(rx_fifo))
       IN  assembler' = r.buf /\ parsed' = parsed \o r.out
    /\ rx_fifo' = Tail(rx_fifo)
    /\ UNCHANGED <<receiver, stream, read, bridge, cuts, wire, taken, link, frames,
                   full, rxs, completed>>

\* The state after frame_complete.
AfterFrame(r) == RxReset

\* The UART interrupt feeds the next byte; a complete frame is validated and
\* queued, and the state reset.
UartIsr ==
    /\ receiver = "firmware"
    /\ taken < Len(wire)
    /\ LET r == RxFeedByte(rxs, wire[taken + 1])
       IN  IF r.phase = "COMPLETE"
           THEN rxs' = AfterFrame(r) /\ completed' = Append(completed, r.buf)
           ELSE rxs' = r /\ UNCHANGED completed
    /\ taken' = taken + 1
    /\ UNCHANGED <<receiver, stream, read, bridge, cuts, wire, hostVars>>

Next ==
    \/ \E n \in 1..Len(stream) : Forward(n) \/ LinkRead(n)
    \/ PushRx
    \/ DeviceRead
    \/ UartIsr

Spec == Init /\ [][Next]_vars

-----------------------------------------------------------------------------
(* The reference: the frames of a byte sequence, read as a whole. *)

\* A header that can start a frame, and one that cannot.
Start(s, q) == q + HeaderSize <= Len(s) + 1 /\ Magic(s, q) /\ PayloadLength(s, q) <= MaxPayload
Broken(s, q) == q + HeaderSize <= Len(s) + 1 /\ Magic(s, q) /\ PayloadLength(s, q) > MaxPayload

\* The frames of s from p on, a header with an impossible length costing
\* `skip` bytes.
RECURSIVE FramesOf(_, _, _)
FramesOf(s, p, skip) ==
    LET heads == {q \in p..Len(s) : Start(s, q) \/ Broken(s, q)}
        q == Min(heads)
        end == q + HeaderSize + PayloadLength(s, q)
    IN  IF heads = {} THEN <<>>
        ELSE IF Broken(s, q) THEN FramesOf(s, q + skip, skip)
        ELSE IF end > Len(s) + 1 THEN <<>>
        ELSE <<SubSeq(s, q, end - 1)>> \o FramesOf(s, end, skip)

Received == SubSeq(wire, 1, taken)

-----------------------------------------------------------------------------
\* Buffers hold bytes, queues hold frames, and the receiver is in a phase.
TypeOK ==
    /\ receiver \in {"host", "firmware"}
    /\ read \in 0..Len(stream) /\ taken \in 0..Len(wire) /\ cuts \in 0..MaxCuts
    /\ stream \in Streams
    /\ \A s \in {bridge, wire, link, assembler, rxs.buf} : s \in Seq(Byte)
    /\ \A fs \in {frames, rx_fifo, parsed, completed} :
         \A i \in 1..Len(fs) : fs[i] \in Seq(Byte)
    /\ Len(rx_fifo) <= Depth /\ full \in Seq(BOOLEAN)
    /\ rxs.phase \in {"MAGIC_LO", "MAGIC_HI", "HEADER", "PAYLOAD"}
    /\ rxs.need \in 0..MaxFrame

\* pty_bridge is transparent: as long as every write succeeds, the bytes it
\* has written, followed by those its framer holds back, are the bytes it has
\* read, noise and broken headers included, however the reads cut the stream.
BridgeTransparent ==
    cuts = 0 => wire \o bridge = SubSeq(stream, 1, read)

\* Whatever the reads of safety-linkd return, and whatever the bridge lost,
\* the frames cut are those of the bytes that arrived.  The supervisor parses
\* the pushed ones, in order, one for each read of the device, without those
\* of another version and those pushed while rx_fifo was full; nothing else is
\* refused, a refusal takes no other frame with it, and the assembler never
\* holds anything back.  (safety-linkd logs push_rx_failed and goes on.)
HostExact ==
    LET cut == FramesOf(Received, 1, 1)
        Kept(i) == Version(cut[i], 1) = SAFETY_PROTO_VERSION /\ ~full[i]
        kept == SelectSeq([i \in 1..Len(full) |-> i], Kept)
    IN  receiver = "host" =>
            /\ frames = SubSeq(cut, Len(full) + 1, Len(cut))
            /\ parsed \o rx_fifo = [k \in 1..Len(kept) |-> cut[kept[k]]]
            /\ assembler = <<>>

\* The firmware receives exactly the frames of the bytes that arrived, where,
\* unlike on the host, a header with an impossible length is given up whole,
\* with anything that started inside it.
FirmwareExact ==
    receiver = "firmware" => completed = FramesOf(Received, 1, HeaderSize)

\* No receiver holds a whole frame back: what is kept between two reads is
\* shorter than the longest frame (the size of rxs.buf in the firmware).
BuffersBounded ==
    \A s \in {bridge, link, rxs.buf} : Len(s) < MaxFrame
=============================================================================
