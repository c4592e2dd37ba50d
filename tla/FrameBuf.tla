------------------------------- MODULE FrameBuf -------------------------------
(***************************************************************************)
(* The streaming reassembler of river2_packet.c (river2_framebuf_t) and    *)
(* the way its two callers use it: append one notification, then extract   *)
(* until there is nothing more to extract.  Notifications cut the byte     *)
(* stream anywhere.  One pass of the loop in river2_framebuf_extract is    *)
(* one step; both allocations may fail.  The handshake has a reassembler   *)
(* of its own: with the frame that ends it in hand it frees it, and the    *)
(* telemetry task starts an empty one in the middle of the stream.         *)
(***************************************************************************)
EXTENDS PacketCodec, SequencesExt

CONSTANTS
  MaxField,       \* largest plausible length field (4096 in the code)
  Streams,        \* what may arrive: [bytes, sent, at, starts], sent the frames
                  \* inside, at their offsets, starts the offsets of all pieces
  MaxChunk,       \* longest notification
  MaxFailures     \* bound on failing allocations

Frame == [type : 0..15, payload : Seq(0..255)]
Stream == [bytes : Seq(0..255), sent : Seq(Frame), at : Seq(Nat), starts : SUBSET Nat]

ASSUME FrameBufAssumption ==
    /\ MaxField \in Nat /\ MaxField >= 2
    /\ MaxChunk \in Nat \ {0} /\ MaxFailures \in Nat
    /\ \A s \in Streams : s \in Stream

VARIABLES
  data,           \* fb->data[0 .. fb->len)
  scratch_cap,    \* fb->scratch_cap
  pc,             \* "wait": for a notification; "extract": in the loop of
                  \* river2_framebuf_extract; "got": it has returned a frame;
                  \* "ended": the handshake has given up
  script,         \* the stream under way, a member of Streams
  pending,        \* bytes of it that have not been delivered
  cut,            \* history: bytes that went to the handshake's reassembler
  received,       \* history: all bytes appended to this reassembler
  frames,         \* history: frames it has handed to the caller, [type, payload]
  passes,         \* history: passes of the loop since the last notification
  failures        \* allocations that failed so far

vars == <<data, scratch_cap, pc, script, pending, cut, received, frames, passes, failures>>

------------------------------------------------------------------------------
(* Looking at a run of bytes *)

PrefixAt(bytes, i) == i + 1 <= Len(bytes) /\ bytes[i] = 90 /\ bytes[i + 1] = 90

\* The bytes from the first prefix on, if there is one: at most one element.
FromPrefix(bytes) ==
    {SubSeq(bytes, i, Len(bytes)) :
        i \in {i \in 1..Len(bytes) : /\ PrefixAt(bytes, i)
                                     /\ \A j \in 1..(i - 1) : ~PrefixAt(bytes, j)}}

Drop(bytes, n) == SubSeq(bytes, n + 1, Len(bytes))

\* For bytes that begin with a prefix.
HeaderComplete(bytes) == Len(bytes) >= 6
Field(bytes)          == RdU16Le(bytes, 5)
\* Seeded fault: any length is believed.
PlausibleAlways(bytes) == Field(bytes) >= 2

Plausible(bytes)      == Field(bytes) >= 2 /\ Field(bytes) <= MaxField
DataEnd(bytes)        == 6 + Field(bytes)
Complete(bytes)       == HeaderComplete(bytes) /\ Plausible(bytes)
                         /\ DataEnd(bytes) <= Len(bytes)
CrcMatches(bytes)     ==
    RdU16Le(bytes, DataEnd(bytes) - 1) = Crc16(SubSeq(bytes, 1, DataEnd(bytes) - 2))

\* Three verdicts on bytes that begin with a prefix.
WaitForMore(bytes) == \/ ~HeaderComplete(bytes)
                      \/ /\ HeaderComplete(bytes) /\ Plausible(bytes)
                         /\ DataEnd(bytes) > Len(bytes)
Spurious(bytes)    == \/ HeaderComplete(bytes) /\ ~Plausible(bytes)
                      \/ Complete(bytes) /\ ~CrcMatches(bytes)
WholeFrame(bytes)  == Complete(bytes) /\ CrcMatches(bytes)

\* Seeded fault: the type is not shifted down.
FrameOfUnshifted(bytes) ==
    [type |-> bytes[3], payload |-> SubSeq(bytes, 7, DataEnd(bytes) - 2)]

FrameOf(bytes) ==
    [type |-> bytes[3] \div 16, payload |-> SubSeq(bytes, 7, DataEnd(bytes) - 2)]

------------------------------------------------------------------------------
(* What may arrive: frames as river2_outer_build builds them, and noise *)

\* A frame on the wire.
Wire(frame) == OuterBuild(frame.type, frame.payload, OUTER_OVERHEAD + Len(frame.payload))

\* The piece that begins at an offset ends where the next one begins.
NextStart(s, a) == Min({b \in s.starts : b > a})
Piece(s, a)     == SubSeq(s.bytes, a + 1, NextStart(s, a))

\* A header without a frame: its length is out of range or its checksum wrong.
FalseHeader(bytes) ==
    /\ PrefixAt(bytes, 1) /\ HeaderComplete(bytes)
    /\ \/ Field(bytes) \notin 2..MaxField
       \/ DataEnd(bytes) <= Len(bytes) /\ ~CrcMatches(bytes)

\* Noise holds no 0x5A, which could begin a prefix, but for those of a false header.
IsNoise(bytes) ==
    \/ 90 \notin ToSet(bytes)
    \/ FalseHeader(bytes) /\ 90 \notin ToSet(Drop(bytes, 2))

\* The pieces of a stream are the frames sent, in order, and noise.
IsClean(s) ==
    /\ {0, Len(s.bytes)} \subseteq s.starts /\ s.starts \subseteq 0..Len(s.bytes)
    /\ DOMAIN s.at = DOMAIN s.sent
    /\ \A i \in DOMAIN s.at : \A j \in 1..(i - 1) : s.at[j] < s.at[i]
    /\ \A i \in DOMAIN s.at :
          /\ s.at[i] \in s.starts /\ s.at[i] < Len(s.bytes)
          /\ Piece(s, s.at[i]) = Wire(s.sent[i])
          /\ Len(s.sent[i].payload) + 2 <= MaxField
    /\ \A a \in s.starts :
          a < Len(s.bytes) /\ a \notin ToSet(s.at) => IsNoise(Piece(s, a))

\* The values of a uint16_t: length field and checksum of a frame.
UInt16 == 0..(256 * 256 - 1)

ASSUME StreamAssumption ==
    /\ MaxField \in UInt16
    /\ \A s \in Streams :
          /\ IsClean(s)
          /\ \A i \in DOMAIN s.sent :
                Crc16(SubSeq(Wire(s.sent[i]), 1, Len(s.sent[i].payload) + 6)) \in UInt16

------------------------------------------------------------------------------
Init ==
    /\ data = <<>> /\ scratch_cap = 0
    /\ pc = "wait"
    /\ script \in Streams
    /\ pending = script.bytes /\ cut = 0
    /\ received = <<>> /\ frames = <<>>
    /\ passes = 0 /\ failures = 0

\* A notification arrives and is appended; an empty one changes nothing.
FramebufAppend(n) ==
    /\ pc = "wait"
    /\ n <= Len(pending)
    /\ LET chunk == SubSeq(pending, 1, n)
       IN  data' = data \o chunk /\ received' = received \o chunk
    /\ pending' = Drop(pending, n)
    /\ pc' = "extract"
    /\ passes' = 0
    /\ UNCHANGED <<scratch_cap, script, cut, frames, failures>>

\* realloc fails in river2_framebuf_append: the notification is lost.  The
\* telemetry task goes back to waiting; the handshake fails, and nobody looks
\* into its reassembler again.
FramebufAppendFails(n) ==
    /\ pc = "wait"
    /\ n <= Len(pending)
    /\ failures < MaxFailures
    /\ failures' = failures + 1
    /\ pending' = Drop(pending, n)
    /\ pc' = IF cut = 0 THEN "ended" ELSE "wait"
    /\ UNCHANGED <<data, scratch_cap, script, cut, received, frames, passes>>

Extracting(rest) ==
    /\ pc \in {"extract", "got"}
    /\ data' = rest
    /\ passes' = passes + 1
    /\ UNCHANGED <<script, pending, cut, received>>

\* Seeded fault: the first byte is kept where the last should be.
ExtractNoPrefixFirst ==
    /\ FromPrefix(data) = {}
    /\ Extracting(IF Len(data) < 2 THEN data ELSE <<Head(data)>>)
    /\ pc' = "wait"
    /\ UNCHANGED <<scratch_cap, frames, failures>>

\* Seeded fault: nothing is kept.
ExtractNoPrefixNone ==
    /\ FromPrefix(data) = {}
    /\ Extracting(<<>>)
    /\ pc' = "wait"
    /\ UNCHANGED <<scratch_cap, frames, failures>>

\* No prefix: only the last byte may still become one.
ExtractNoPrefix ==
    /\ FromPrefix(data) = {}
    /\ Extracting(IF Len(data) < 2 THEN data ELSE <<Last(data)>>)
    /\ pc' = "wait"
    /\ UNCHANGED <<scratch_cap, frames, failures>>

ExtractIncomplete == \E bytes \in FromPrefix(data) :
    /\ WaitForMore(bytes)
    /\ Extracting(bytes)
    /\ pc' = "wait"
    /\ UNCHANGED <<scratch_cap, frames, failures>>

\* Seeded fault: the length of a spurious frame is believed.
ExtractSpuriousWhole == \E bytes \in FromPrefix(data) :
    /\ Spurious(bytes)
    /\ Extracting(Drop(bytes, DataEnd(bytes)))
    /\ pc' = "extract"
    /\ UNCHANGED <<scratch_cap, frames, failures>>

\* Seeded fault: the loop goes on without consuming anything.
ExtractSpuriousKept == \E bytes \in FromPrefix(data) :
    /\ Spurious(bytes)
    /\ Extracting(bytes)
    /\ pc' = "extract"
    /\ UNCHANGED <<scratch_cap, frames, failures>>

ExtractSpurious == \E bytes \in FromPrefix(data) :
    /\ Spurious(bytes)
    /\ Extracting(Drop(bytes, 2))
    /\ pc' = "extract"
    /\ UNCHANGED <<scratch_cap, frames, failures>>

PayloadLen(bytes) == Field(bytes) - 2

\* Seeded fault: the frame stays in the buffer.
ExtractFrameKept == \E bytes \in FromPrefix(data) :
    /\ WholeFrame(bytes)
    /\ Extracting(bytes)
    /\ frames' = Append(frames, FrameOf(bytes))
    /\ pc' = "got"
    /\ UNCHANGED <<scratch_cap, failures>>

ExtractFrame == \E bytes \in FromPrefix(data) :
    /\ WholeFrame(bytes)
    /\ Extracting(Drop(bytes, DataEnd(bytes)))
    /\ frames' = Append(frames, FrameOf(bytes))
    /\ scratch_cap' = IF PayloadLen(bytes) > scratch_cap THEN PayloadLen(bytes)
                      ELSE scratch_cap
    /\ pc' = "got"
    /\ UNCHANGED failures

\* realloc of the scratch buffer fails: the frame stays in the buffer.
ExtractScratchFails == \E bytes \in FromPrefix(data) :
    /\ WholeFrame(bytes)
    /\ PayloadLen(bytes) > scratch_cap
    /\ failures < MaxFailures
    /\ failures' = failures + 1
    /\ Extracting(bytes)
    /\ pc' = "wait"
    /\ UNCHANGED <<scratch_cap, frames>>

FramebufExtract ==
    \/ ExtractNoPrefix
    \/ ExtractIncomplete
    \/ ExtractSpurious
    \/ ExtractFrame
    \/ ExtractScratchFails

\* The end of the handshake: river2_framebuf_free, whatever is left in the
\* buffer, and river2_framebuf_init in the telemetry task.
Handover ==
    /\ pc = "got" /\ cut = 0
    /\ cut' = Len(script.bytes) - Len(pending)
    /\ data' = <<>> /\ scratch_cap' = 0
    /\ pc' = "wait"
    /\ received' = <<>> /\ frames' = <<>> /\ passes' = 0
    /\ UNCHANGED <<script, pending, failures>>

Next ==
    \/ \E n \in 1..MaxChunk : FramebufAppend(n) \/ FramebufAppendFails(n)
    \/ FramebufExtract
    \/ Handover

Spec == Init /\ [][Next]_vars

------------------------------------------------------------------------------
(* Properties *)

TypeOK ==
    /\ data \in Seq(0..255) /\ pending \in Seq(0..255) /\ received \in Seq(0..255)
    /\ scratch_cap \in 0..MaxField
    /\ pc \in {"wait", "extract", "got", "ended"}
    /\ script \in Stream /\ frames \in Seq(Frame)
    /\ Len(pending) <= Len(script.bytes) /\ cut \in Nat
    /\ passes \in Nat /\ failures \in 0..MaxFailures

\* The buffer is always the newest part of what has been appended: no byte is
\* duplicated, reordered or taken out of the middle by the memmoves.
BufferIsSuffix == \E k \in 0..Len(received) : data = Drop(received, k)

\* While the caller waits the buffer holds less than one frame of the largest
\* plausible size, unless an allocation failed, however long garbage goes on.
BufferBounded ==
    pc = "wait" /\ failures = 0 => Len(data) < 6 + MaxField

\* The drain loop ends: every pass that does not return has taken at least two
\* bytes out of the buffer.
DrainBounded == pc \in {"extract", "got"} => 2 * passes + Len(data) <= Len(received)

\* One look at the front of the bytes that are left: from[n] are the frames in
\* the last n of them.
ScanStep(rest, from) ==
    IF ~PrefixAt(rest, 1) THEN IF rest = <<>> THEN <<>> ELSE from[Len(rest) - 1]
    ELSE IF WaitForMore(rest) THEN <<>>
    ELSE IF WholeFrame(rest) THEN <<FrameOf(rest)>> \o from[Len(rest) - DataEnd(rest)]
    ELSE from[Len(rest) - 2]

\* The frames in a run of bytes, read in one go from left to right.
Scan(bytes) ==
    LET from[n \in 0..Len(bytes)] == ScanStep(Drop(bytes, Len(bytes) - n), from)
    IN  from[Len(bytes)]

\* What has been extracted, with what a scan of the buffer still finds, is
\* what one scan of all received bytes finds: how notifications cut the
\* stream, and when scratch allocations fail, makes no difference.
ChunkingIrrelevant == frames \o Scan(data) = Scan(received)

\* The reassembler implements the abstract frame stream: frames come out one by
\* one, and neither a later notification nor a failure takes one back.
Abstract == INSTANCE FrameStream WITH stream <- received, out <- frames, FramesIn <- Scan
ImplementsFrameStream == Abstract!StreamSpec

\* Of the piece the handover cut, the part the telemetry task gets to see.
CutTail ==
    SubSeq(script.bytes, cut + 1, Min({s \in script.starts : s >= cut}))

\* The frames that begin at an offset or behind it.
SentFrom(s, a) ==
    SubSeq(s.sent, 1 + Cardinality({i \in DOMAIN s.at : s.at[i] < a}), Len(s.sent))

\* When everything has been delivered and no allocation failed, the caller has
\* got exactly the frames the station sent, in order.  After the handover these
\* are the frames that begin behind it: the remains of the one it cut are
\* skipped and never taken for a frame, unless they hold the byte 0x5A.
SentArrives ==
    pending = <<>> /\ pc = "wait" /\ failures = 0 /\ 90 \notin ToSet(CutTail) =>
        frames = SentFrom(script, cut)
==============================================================================
