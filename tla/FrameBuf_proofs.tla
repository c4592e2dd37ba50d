---------------------------- MODULE FrameBuf_proofs ----------------------------
(***************************************************************************)
(* Proofs about FrameBuf, for every stream of bytes cut in every way, any  *)
(* largest length field, any number of failing allocations, and any two    *)
(* checksum functions.  Only FramesArrive, about what the station sends,   *)
(* needs streams of frames and noise (StreamAssumption).                   *)
(***************************************************************************)
EXTENDS FrameBuf, DataLemmas

Byte  == 0..255
Bytes == Seq(Byte)

------------------------------------------------------------------------------
(* Taking bytes off the front: framebuf_consume *)

LEMMA DropElements ==
    ASSUME NEW S, NEW s \in Seq(S), NEW k \in 0..Len(s)
    PROVE  /\ Drop(s, k) \in Seq(S)
           /\ Len(Drop(s, k)) = Len(s) - k
           /\ \A i \in 1..(Len(s) - k) : Drop(s, k)[i] = s[k + i]
<1>1. /\ Len(s) \in Nat
      /\ \A i \in (k + 1)..Len(s) : s[i] \in S
  BY LenProperties, ElementOfSeq
<1>2. /\ SubSeq(s, k + 1, Len(s)) \in Seq(S)
      /\ Len(SubSeq(s, k + 1, Len(s))) = IF k + 1 <= Len(s) THEN Len(s) - (k + 1) + 1 ELSE 0
      /\ \A i \in 1..(Len(s) - (k + 1) + 1) : SubSeq(s, k + 1, Len(s))[i] = s[k + 1 + i - 1]
  <2>1. k + 1 \in Int /\ Len(s) \in Int
    BY <1>1
  <2>2. QED BY <1>1, <2>1, SubSeqProperties
<1>3. QED BY <1>1, <1>2 DEF Drop

LEMMA DropDrop ==
    ASSUME NEW S, NEW s \in Seq(S), NEW j \in 0..Len(s), NEW k \in 0..(Len(s) - j)
    PROVE  Drop(Drop(s, j), k) = Drop(s, j + k)
<1>1. /\ Len(s) \in Nat /\ j + k \in 0..Len(s)
  BY LenProperties
<1>2. /\ Drop(s, j) \in Seq(S) /\ Len(Drop(s, j)) = Len(s) - j
      /\ \A i \in 1..(Len(s) - j) : Drop(s, j)[i] = s[j + i]
  BY DropElements
<1>3. /\ Drop(s, j + k) \in Seq(S) /\ Len(Drop(s, j + k)) = Len(s) - (j + k)
      /\ \A i \in 1..(Len(s) - (j + k)) : Drop(s, j + k)[i] = s[j + k + i]
  BY <1>1, DropElements
<1>4. k \in 0..Len(Drop(s, j))
  BY <1>2
<1>5. /\ Drop(Drop(s, j), k) \in Seq(S) /\ Len(Drop(Drop(s, j), k)) = Len(s) - j - k
      /\ \A i \in 1..(Len(s) - j - k) : Drop(Drop(s, j), k)[i] = Drop(s, j)[k + i]
  BY <1>2, <1>4, DropElements
<1>6. ASSUME NEW i \in 1..(Len(s) - j - k)
      PROVE  Drop(Drop(s, j), k)[i] = Drop(s, j + k)[i]
  <2>1. k + i \in 1..(Len(s) - j) /\ i \in 1..(Len(s) - (j + k)) /\ j + (k + i) = j + k + i
    BY <1>1
  <2>2. Drop(Drop(s, j), k)[i] = Drop(s, j)[k + i]
    BY <1>5
  <2>3. Drop(s, j)[k + i] = s[j + (k + i)]
    BY <1>2, <2>1
  <2>4. Drop(s, j + k)[i] = s[j + k + i]
    BY <1>3, <2>1
  <2>5. QED BY <2>1, <2>2, <2>3, <2>4
<1>7. QED BY <1>1, <1>3, <1>5, <1>6, SeqEqual

LEMMA DropConcat ==
    ASSUME NEW S, NEW s \in Seq(S), NEW t \in Seq(S), NEW k \in 0..Len(s)
    PROVE  /\ k \in 0..Len(s \o t)
           /\ Drop(s, k) \o t = Drop(s \o t, k)
<1>1. /\ Len(s) \in Nat /\ Len(t) \in Nat
      /\ s \o t \in Seq(S) /\ Len(s \o t) = Len(s) + Len(t)
      /\ \A i \in 1..(Len(s) + Len(t)) :
            (s \o t)[i] = IF i <= Len(s) THEN s[i] ELSE t[i - Len(s)]
  BY LenProperties, ConcatProperties
<1>2. k \in 0..Len(s \o t)
  BY <1>1
<1>3. /\ Drop(s, k) \in Seq(S) /\ Len(Drop(s, k)) = Len(s) - k
      /\ \A i \in 1..(Len(s) - k) : Drop(s, k)[i] = s[k + i]
  BY DropElements
<1>4. /\ Drop(s \o t, k) \in Seq(S) /\ Len(Drop(s \o t, k)) = Len(s \o t) - k
      /\ \A i \in 1..(Len(s \o t) - k) : Drop(s \o t, k)[i] = (s \o t)[k + i]
  BY <1>1, <1>2, DropElements
<1>5. /\ Drop(s, k) \o t \in Seq(S)
      /\ Len(Drop(s, k) \o t) = Len(Drop(s, k)) + Len(t)
      /\ \A i \in 1..(Len(Drop(s, k)) + Len(t)) : (Drop(s, k) \o t)[i] =
            IF i <= Len(Drop(s, k)) THEN Drop(s, k)[i] ELSE t[i - Len(Drop(s, k))]
  BY <1>3, ConcatProperties
<1>6. Len(Drop(s, k) \o t) = Len(Drop(s \o t, k))
  BY <1>1, <1>3, <1>4, <1>5
<1>7. ASSUME NEW i \in 1..Len(Drop(s, k) \o t)
      PROVE  (Drop(s, k) \o t)[i] = Drop(s \o t, k)[i]
  <2>1. /\ i \in 1..(Len(Drop(s, k)) + Len(t)) /\ i \in 1..(Len(s \o t) - k)
        /\ k + i \in 1..(Len(s) + Len(t))
    BY <1>1, <1>3, <1>5
  <2>2. Drop(s \o t, k)[i] = IF k + i <= Len(s) THEN s[k + i] ELSE t[k + i - Len(s)]
    <3>1. Drop(s \o t, k)[i] = (s \o t)[k + i]
      BY <1>4, <2>1
    <3>2. (s \o t)[k + i] = IF k + i <= Len(s) THEN s[k + i] ELSE t[k + i - Len(s)]
      BY <1>1, <2>1
    <3>3. QED BY <3>1, <3>2
  <2>3. CASE i <= Len(s) - k
    <3>1. /\ k + i <= Len(s) /\ i \in 1..(Len(s) - k)
      BY <1>1, <2>1, <2>3
    <3>2. (Drop(s, k) \o t)[i] = Drop(s, k)[i]
      BY <1>3, <1>5, <2>1, <2>3
    <3>3. QED BY <1>3, <2>2, <3>1, <3>2
  <2>4. CASE ~(i <= Len(s) - k)
    <3>1. ~(k + i <= Len(s)) /\ k + i - Len(s) = i - (Len(s) - k)
      BY <1>1, <2>1, <2>4
    <3>2. (Drop(s, k) \o t)[i] = t[i - (Len(s) - k)]
      BY <1>3, <1>5, <2>1, <2>4
    <3>3. QED BY <2>2, <3>1, <3>2
  <2>5. QED BY <2>3, <2>4
<1>8. QED BY <1>2, <1>4, <1>5, <1>6, <1>7, SeqEqual

------------------------------------------------------------------------------
(* What the loop finds in the buffer *)

\* The run from the first prefix on is the buffer without its beginning.
LEMMA PrefixFound ==
    ASSUME data \in Bytes, NEW bytes \in FromPrefix(data)
    PROVE  /\ \E i \in 0..Len(data) : bytes = Drop(data, i)
           /\ bytes \in Bytes /\ Len(bytes) \in 2..Len(data)
<1>1. PICK i \in 1..Len(data) : PrefixAt(data, i) /\ bytes = SubSeq(data, i, Len(data))
  BY DEF FromPrefix
<1>2. Len(data) \in Nat /\ i - 1 \in 0..Len(data) /\ i + 1 <= Len(data)
  BY <1>1, LenProperties DEF Bytes, PrefixAt
<1>3. bytes = Drop(data, i - 1)
  <2>1. (i - 1) + 1 = i
    BY <1>2
  <2>2. QED BY <1>1, <2>1 DEF Drop
<1>4. bytes \in Seq(Byte) /\ Len(bytes) = Len(data) - (i - 1)
  BY <1>2, <1>3, DropElements DEF Bytes
<1>5. Len(bytes) \in 2..Len(data)
  BY <1>2, <1>4
<1>6. \E k \in 0..Len(data) : bytes = Drop(data, k)
  BY <1>2, <1>3
<1>7. bytes \in Bytes
  BY <1>4 DEF Bytes
<1>8. QED BY <1>5, <1>6, <1>7

LEMMA FieldType ==
    ASSUME NEW bytes \in Bytes, Len(bytes) >= 6
    PROVE  Field(bytes) \in Nat
<1>1. bytes[5] \in Byte /\ bytes[6] \in Byte
  <2>1. 5 \in 1..Len(bytes) /\ 6 \in 1..Len(bytes)
    BY LenProperties DEF Bytes
  <2>2. QED BY <2>1, ElementOfSeq DEF Bytes
<1>2. \A a, b \in Byte : a + 256 * b \in Nat
  BY DEF Byte
<1>3. Field(bytes) = bytes[5] + 256 * bytes[6]
  BY DEF Field, RdU16Le
<1>4. QED BY <1>1, <1>2, <1>3

\* A complete frame takes at least eight bytes and no more than there are.
LEMMA CompleteFits ==
    ASSUME NEW bytes \in Bytes, Complete(bytes)
    PROVE  /\ Field(bytes) \in 2..MaxField
           /\ DataEnd(bytes) \in 8..Len(bytes)
<1>1. Len(bytes) \in Nat /\ Len(bytes) >= 6 /\ Field(bytes) \in Nat
  BY FieldType, LenProperties DEF Complete, HeaderComplete, Bytes
<1>2. QED BY <1>1, FrameBufAssumption DEF Complete, Plausible, DataEnd

LEMMA FrameType ==
    ASSUME NEW bytes \in Bytes, Complete(bytes)
    PROVE  FrameOf(bytes) \in Frame
<1>1. DataEnd(bytes) \in 8..Len(bytes) /\ Len(bytes) \in Nat
  BY CompleteFits, LenProperties DEF Bytes
<1>2. bytes[3] \in Byte /\ \A i \in 7..(DataEnd(bytes) - 2) : bytes[i] \in Byte
  BY <1>1, ElementOfSeq DEF Bytes
<1>3. bytes[3] \div 16 \in 0..15
  BY <1>2 DEF Byte
<1>4. SubSeq(bytes, 7, DataEnd(bytes) - 2) \in Seq(Byte)
  BY <1>1, <1>2, SubSeqProperties
<1>5. QED BY <1>3, <1>4 DEF FrameOf, Frame, Byte

------------------------------------------------------------------------------
(* The steps of the reassembler *)

LEMMA NotificationType ==
    ASSUME TypeOK, NEW k \in 1..MaxChunk, k <= Len(pending)
    PROVE  /\ SubSeq(pending, 1, k) \in Bytes /\ Len(SubSeq(pending, 1, k)) = k
           /\ Drop(pending, k) \in Bytes /\ Len(Drop(pending, k)) \in 0..Len(pending)
<1>1. /\ pending \in Bytes /\ Len(pending) \in Nat /\ k \in 0..Len(pending) /\ k \in 1..Len(pending)
  BY FrameBufAssumption, LenProperties DEF TypeOK, Bytes, Byte
<1>2. \A i \in 1..k : pending[i] \in Byte
  BY <1>1, ElementOfSeq DEF Bytes
<1>3. SubSeq(pending, 1, k) \in Seq(Byte) /\ Len(SubSeq(pending, 1, k)) = k
  BY <1>1, <1>2, SubSeqProperties
<1>4. Drop(pending, k) \in Seq(Byte) /\ Len(Drop(pending, k)) = Len(pending) - k
  BY <1>1, DropElements DEF Bytes
<1>5. QED BY <1>1, <1>3, <1>4 DEF Bytes

\* What each pass of the loop leaves in the buffer: the buffer without its
\* beginning.
LEMMA PassDrops ==
    ASSUME TypeOK, FramebufExtract
    PROVE  /\ \E k \in 0..Len(data) : data' = Drop(data, k)
           /\ data' \in Bytes
           /\ UNCHANGED <<script, pending, cut, received>>
           /\ pc \in {"extract", "got"} /\ passes' = passes + 1
<1>1. data \in Bytes /\ Len(data) \in Nat
  BY LenProperties DEF TypeOK, Bytes, Byte
<1>2. /\ UNCHANGED <<script, pending, cut, received>>
      /\ pc \in {"extract", "got"} /\ passes' = passes + 1
  BY DEF FramebufExtract, ExtractNoPrefix, ExtractIncomplete, ExtractSpurious, ExtractFrame,
         ExtractScratchFails, Extracting
<1>3. CASE ExtractNoPrefix
  <2>1. CASE Len(data) < 2
    <3>1. data' = data
      BY <1>3, <2>1 DEF ExtractNoPrefix, Extracting
    <3>2. data = Drop(data, 0)
      BY <1>1, SubSeqFull DEF Drop, Bytes
    <3>3. \E k \in 0..Len(data) : data' = Drop(data, k)
      BY <1>1, <3>1, <3>2
    <3>4. QED BY <1>1, <1>2, <3>1, <3>3
  <2>2. CASE ~(Len(data) < 2)
    <3> DEFINE rest == Drop(data, Len(data) - 1)
    <3>1. data' = <<data[Len(data)]>>
      BY <1>3, <2>2 DEF ExtractNoPrefix, Extracting, Last
    <3>2. Len(data) - 1 \in 0..Len(data)
      BY <1>1, <2>2
    <3>3. /\ rest \in Seq(Byte) /\ Len(rest) = Len(data) - (Len(data) - 1)
          /\ \A i \in 1..(Len(data) - (Len(data) - 1)) : rest[i] = data[Len(data) - 1 + i]
      BY <3>2, <1>1, DropElements DEF Bytes
    <3>4. /\ rest \in Seq(Byte) /\ Len(rest) = 1 /\ rest[1] = data[Len(data)]
      <4> HIDE DEF rest
      <4>1. QED BY <1>1, <3>3
    <3>5. data[Len(data)] \in Byte
      BY <1>1, <2>2, ElementOfSeq DEF Bytes
    <3>6. rest = <<data[Len(data)]>>
      <4> HIDE DEF rest
      <4>1. QED BY <3>4, <3>5, SeqEqual
    <3>7. QED BY <1>2, <3>1, <3>2, <3>4, <3>6 DEF Bytes
  <2>3. QED BY <2>1, <2>2
<1>4. ASSUME NEW bytes \in FromPrefix(data), NEW j \in 0..Len(bytes),
             data' = Drop(bytes, j)
      PROVE  data' \in Bytes /\ \E k \in 0..Len(data) : data' = Drop(data, k)
  <2>1. PICK i \in 0..Len(data) : bytes = Drop(data, i)
    BY <1>1, PrefixFound
  <2>2. Len(bytes) = Len(data) - i
    BY <1>1, <2>1, DropElements DEF Bytes
  <2>3. i + j \in 0..Len(data) /\ j \in 0..(Len(data) - i)
    BY <1>1, <2>2
  <2>4. data' = Drop(data, i + j)
    BY <1>1, <1>4, <2>1, <2>3, DropDrop DEF Bytes
  <2>5. data' \in Bytes
    BY <1>1, <2>3, <2>4, DropElements DEF Bytes
  <2>6. QED BY <2>3, <2>4, <2>5
<1>5. ASSUME NEW bytes \in FromPrefix(data)
      PROVE  /\ bytes \in Bytes /\ Len(bytes) \in Nat /\ Len(bytes) >= 2
             /\ bytes = Drop(bytes, 0)
  BY <1>1, PrefixFound, SubSeqFull DEF Drop, Bytes
<1>6. CASE ExtractIncomplete
  <2>1. PICK bytes \in FromPrefix(data) : data' = bytes
    BY <1>6 DEF ExtractIncomplete, Extracting
  <2>2. data' = Drop(bytes, 0) /\ 0 \in 0..Len(bytes)
    BY <1>5, <2>1
  <2>3. QED BY <1>2, <1>4, <2>2
<1>7. CASE ExtractSpurious
  <2>1. PICK bytes \in FromPrefix(data) : data' = Drop(bytes, 2)
    BY <1>7 DEF ExtractSpurious, Extracting
  <2>2. 2 \in 0..Len(bytes)
    BY <1>5
  <2>3. QED BY <1>2, <1>4, <2>1, <2>2
<1>8. CASE ExtractFrame
  <2>1. PICK bytes \in FromPrefix(data) : WholeFrame(bytes) /\ data' = Drop(bytes, DataEnd(bytes))
    BY <1>8 DEF ExtractFrame, Extracting
  <2>2. DataEnd(bytes) \in 0..Len(bytes)
    BY <1>5, <2>1, CompleteFits DEF WholeFrame
  <2>3. QED BY <1>2, <1>4, <2>1, <2>2
<1>9. CASE ExtractScratchFails
  <2>1. PICK bytes \in FromPrefix(data) : data' = bytes
    BY <1>9 DEF ExtractScratchFails, Extracting
  <2>2. data' = Drop(bytes, 0) /\ 0 \in 0..Len(bytes)
    BY <1>5, <2>1
  <2>3. QED BY <1>2, <1>4, <2>2
<1>10. QED BY <1>3, <1>6, <1>7, <1>8, <1>9 DEF FramebufExtract

------------------------------------------------------------------------------
(* Type correctness *)

LEMMA InitType == Init => TypeOK
<1> SUFFICES ASSUME Init PROVE TypeOK
  OBVIOUS
<1>1. script \in Stream
  BY FrameBufAssumption DEF Init
<1>2. script.bytes \in Bytes /\ Len(script.bytes) \in Nat
  BY <1>1, LenProperties DEF Stream, Bytes, Byte
<1>3. <<>> \in Bytes /\ <<>> \in Seq(Frame)
  BY EmptySeq DEF Bytes
<1>4. 0 \in 0..MaxField /\ 0 \in 0..MaxFailures
  BY FrameBufAssumption
<1>5. QED BY <1>1, <1>2, <1>3, <1>4 DEF Init, TypeOK, Bytes, Byte

LEMMA AppendType ==
    ASSUME TypeOK, NEW k \in 1..MaxChunk, FramebufAppend(k)
    PROVE  /\ TypeOK'
           /\ received' = received \o SubSeq(pending, 1, k)
           /\ data' = data \o SubSeq(pending, 1, k)
           /\ SubSeq(pending, 1, k) \in Bytes /\ passes' = 0
<1>1. /\ SubSeq(pending, 1, k) \in Bytes
      /\ Drop(pending, k) \in Bytes /\ Len(Drop(pending, k)) \in 0..Len(pending)
  BY NotificationType DEF FramebufAppend
<1>2. /\ data' = data \o SubSeq(pending, 1, k) /\ received' = received \o SubSeq(pending, 1, k)
      /\ pending' = Drop(pending, k) /\ pc' = "extract" /\ passes' = 0
      /\ UNCHANGED <<scratch_cap, script, cut, frames, failures>>
  BY DEF FramebufAppend
<1>3. data' \in Bytes /\ received' \in Bytes
  BY <1>1, <1>2, ConcatProperties DEF TypeOK, Bytes, Byte
<1>4. Len(pending') <= Len(script'.bytes)
  <2>1. Len(pending) \in Nat /\ Len(script.bytes) \in Nat /\ Len(pending) <= Len(script.bytes)
    BY LenProperties DEF TypeOK, Stream
  <2>2. Len(pending') \in 0..Len(pending) /\ script' = script
    BY <1>1, <1>2
  <2>3. QED BY <2>1, <2>2
<1>5. TypeOK'
  BY <1>1, <1>2, <1>3, <1>4 DEF TypeOK, Bytes, Byte
<1>6. QED BY <1>1, <1>2, <1>5

LEMMA AppendFailsType ==
    ASSUME TypeOK, NEW k \in 1..MaxChunk, FramebufAppendFails(k)
    PROVE  TypeOK'
<1>1. Drop(pending, k) \in Bytes /\ Len(Drop(pending, k)) \in 0..Len(pending)
  BY NotificationType DEF FramebufAppendFails
<1>2. /\ pending' = Drop(pending, k) /\ failures < MaxFailures /\ failures' = failures + 1
      /\ pc' \in {"wait", "ended"}
      /\ UNCHANGED <<data, scratch_cap, script, cut, received, frames, passes>>
  BY DEF FramebufAppendFails
<1>3. Len(pending') <= Len(script'.bytes)
  <2>1. Len(pending) \in Nat /\ Len(script.bytes) \in Nat /\ Len(pending) <= Len(script.bytes)
    BY LenProperties DEF TypeOK, Stream
  <2>2. Len(pending') \in 0..Len(pending) /\ script' = script
    BY <1>1, <1>2
  <2>3. QED BY <2>1, <2>2
<1>4. failures' \in 0..MaxFailures
  BY <1>2, FrameBufAssumption DEF TypeOK
<1>5. QED BY <1>1, <1>2, <1>3, <1>4 DEF TypeOK, Bytes, Byte

\* What a pass does to the scratch buffer, the frames and the failures.
LEMMA PassTypes ==
    ASSUME TypeOK, FramebufExtract
    PROVE  /\ scratch_cap' \in 0..MaxField /\ frames' \in Seq(Frame)
           /\ failures' \in 0..MaxFailures
           /\ pc' \in {"wait", "extract", "got"}
<1>1. /\ scratch_cap \in 0..MaxField /\ frames \in Seq(Frame) /\ failures \in 0..MaxFailures
      /\ data \in Bytes
  BY DEF TypeOK, Bytes, Byte
<1>2. CASE ExtractFrame
  <2>1. PICK bytes \in FromPrefix(data) :
           /\ WholeFrame(bytes)
           /\ frames' = Append(frames, FrameOf(bytes))
           /\ scratch_cap' = IF PayloadLen(bytes) > scratch_cap THEN PayloadLen(bytes)
                             ELSE scratch_cap
           /\ pc' = "got" /\ failures' = failures
    BY <1>2 DEF ExtractFrame
  <2>2. bytes \in Bytes /\ Complete(bytes)
    BY <1>1, <2>1, PrefixFound DEF WholeFrame
  <2>3. FrameOf(bytes) \in Frame /\ Field(bytes) \in 2..MaxField
    BY <2>2, FrameType, CompleteFits
  <2>4. PayloadLen(bytes) \in 0..MaxField
    BY <2>3, FrameBufAssumption DEF PayloadLen
  <2>5. frames' \in Seq(Frame)
    BY <1>1, <2>1, <2>3, AppendProperties
  <2>6. QED BY <1>1, <2>1, <2>4, <2>5
<1>3. CASE ExtractScratchFails
  <2>1. /\ failures < MaxFailures /\ failures' = failures + 1 /\ pc' = "wait"
        /\ scratch_cap' = scratch_cap /\ frames' = frames
    BY <1>3 DEF ExtractScratchFails
  <2>2. QED BY <1>1, <2>1, FrameBufAssumption
<1>4. CASE ExtractNoPrefix
  BY <1>1, <1>4 DEF ExtractNoPrefix
<1>5. CASE ExtractIncomplete
  BY <1>1, <1>5 DEF ExtractIncomplete
<1>6. CASE ExtractSpurious
  BY <1>1, <1>6 DEF ExtractSpurious
<1>7. QED BY <1>2, <1>3, <1>4, <1>5, <1>6 DEF FramebufExtract

LEMMA PassType == TypeOK /\ FramebufExtract => TypeOK'
<1> SUFFICES ASSUME TypeOK, FramebufExtract PROVE TypeOK'
  OBVIOUS
<1>1. /\ data' \in Bytes /\ UNCHANGED <<script, pending, cut, received>>
      /\ passes' = passes + 1
  BY PassDrops
<1>2. /\ scratch_cap' \in 0..MaxField /\ frames' \in Seq(Frame)
      /\ failures' \in 0..MaxFailures /\ pc' \in {"wait", "extract", "got"}
  BY PassTypes
<1>3. passes' \in Nat
  BY <1>1 DEF TypeOK
<1>4. QED BY <1>1, <1>2, <1>3 DEF TypeOK, Bytes, Byte

LEMMA HandoverType == TypeOK /\ Handover => TypeOK'
<1> SUFFICES ASSUME TypeOK, Handover PROVE TypeOK'
  OBVIOUS
<1>1. cut' \in Nat
  <2>1. Len(pending) \in Nat /\ Len(script.bytes) \in Nat /\ Len(pending) <= Len(script.bytes)
    BY LenProperties DEF TypeOK, Stream
  <2>2. QED BY <2>1 DEF Handover
<1>2. <<>> \in Bytes /\ <<>> \in Seq(Frame) /\ 0 \in 0..MaxField
  BY EmptySeq, FrameBufAssumption DEF Bytes
<1>3. QED BY <1>1, <1>2 DEF TypeOK, Handover, Bytes, Byte

\* The state of the reassembler has the types its declarations claim; frames
\* handed to the caller carry bytes, with a type of four bits.
THEOREM TypeCorrect == Spec => []TypeOK
<1>1. Init => TypeOK
  BY InitType
<1>2. TypeOK /\ [Next]_vars => TypeOK'
  <2> SUFFICES ASSUME TypeOK, [Next]_vars PROVE TypeOK'
    OBVIOUS
  <2>1. CASE \E n \in 1..MaxChunk : FramebufAppend(n)
    BY <2>1, AppendType
  <2>2. CASE \E n \in 1..MaxChunk : FramebufAppendFails(n)
    BY <2>2, AppendFailsType
  <2>3. CASE FramebufExtract
    BY <2>3, PassType
  <2>4. CASE Handover
    BY <2>4, HandoverType
  <2>5. CASE UNCHANGED vars
    BY <2>5 DEF TypeOK, vars
  <2>6. QED BY <2>1, <2>2, <2>3, <2>4, <2>5 DEF Next
<1>3. QED BY <1>1, <1>2, PTL DEF Spec

------------------------------------------------------------------------------
(* The bytes in the buffer and the bytes received *)

\* DrainBounded is inductive once every pass that goes on takes two bytes.
BufferInv == TypeOK /\ BufferIsSuffix /\ DrainBounded

LEMMA SuffixLength ==
    ASSUME TypeOK, BufferIsSuffix
    PROVE  Len(data) \in 0..Len(received) /\ Len(received) \in Nat
<1>1. received \in Bytes /\ Len(received) \in Nat
  BY LenProperties DEF TypeOK, Bytes, Byte
<1>2. PICK k \in 0..Len(received) : data = Drop(received, k)
  BY DEF BufferIsSuffix
<1>3. Len(data) = Len(received) - k
  BY <1>1, <1>2, DropElements DEF Bytes
<1>4. QED BY <1>1, <1>2, <1>3

LEMMA AppendSuffix ==
    ASSUME BufferInv, NEW n \in 1..MaxChunk, FramebufAppend(n)
    PROVE  BufferIsSuffix' /\ DrainBounded'
<1> DEFINE chunk == SubSeq(pending, 1, n)
<1>1. /\ TypeOK' /\ chunk \in Bytes /\ passes' = 0
      /\ received' = received \o chunk /\ data' = data \o chunk
  BY AppendType DEF BufferInv
<1>2. PICK k \in 0..Len(received) : data = Drop(received, k)
  BY DEF BufferInv, BufferIsSuffix
<1>3. received \in Bytes
  BY DEF BufferInv, TypeOK, Bytes, Byte
<1>4. k \in 0..Len(received \o chunk) /\ Drop(received, k) \o chunk = Drop(received \o chunk, k)
  <2> HIDE DEF chunk
  <2>1. QED BY <1>1, <1>2, <1>3, DropConcat DEF Bytes
<1>5. BufferIsSuffix'
  <2> HIDE DEF chunk
  <2>1. data' = Drop(received', k) /\ k \in 0..Len(received')
    BY <1>1, <1>2, <1>4
  <2>2. QED BY <2>1 DEF BufferIsSuffix
<1>6. Len(data') \in 0..Len(received') /\ Len(received') \in Nat
  <2>1. received' \in Bytes /\ Len(received') \in Nat
    BY <1>1, LenProperties DEF TypeOK, Bytes, Byte
  <2>2. PICK m \in 0..Len(received') : data' = Drop(received', m)
    BY <1>5 DEF BufferIsSuffix
  <2>3. Len(data') = Len(received') - m
    BY <2>1, <2>2, DropElements DEF Bytes
  <2>4. QED BY <2>1, <2>2, <2>3
<1>7. DrainBounded'
  BY <1>1, <1>6 DEF DrainBounded
<1>8. QED BY <1>5, <1>7

LEMMA PassSuffix == BufferInv /\ FramebufExtract => BufferIsSuffix'
<1> SUFFICES ASSUME BufferInv, FramebufExtract PROVE BufferIsSuffix'
  OBVIOUS
<1>1. received \in Bytes /\ Len(received) \in Nat
  BY LenProperties DEF BufferInv, TypeOK, Bytes, Byte
<1>2. PICK j \in 0..Len(received) : data = Drop(received, j)
  BY DEF BufferInv, BufferIsSuffix
<1>3. PICK k \in 0..Len(data) : data' = Drop(data, k) /\ received' = received
  BY PassDrops DEF BufferInv
<1>4. Len(data) = Len(received) - j
  BY <1>1, <1>2, DropElements DEF Bytes
<1>5. k \in 0..(Len(received) - j) /\ j + k \in 0..Len(received)
  BY <1>1, <1>2, <1>3, <1>4
<1>6. data' = Drop(received', j + k)
  BY <1>1, <1>2, <1>3, <1>5, DropDrop DEF Bytes
<1>7. QED BY <1>3, <1>5, <1>6 DEF BufferIsSuffix

\* A pass that goes on has taken a false prefix or a whole frame.
LEMMA PassConsumes ==
    ASSUME TypeOK, FramebufExtract, pc' # "wait"
    PROVE  Len(data') \in Nat /\ Len(data') + 2 <= Len(data)
<1>1. data \in Bytes /\ Len(data) \in Nat
  BY LenProperties DEF TypeOK, Bytes, Byte
<1>2. PICK bytes \in FromPrefix(data) :
          \E k \in {2, DataEnd(bytes)} : data' = Drop(bytes, k) /\ (k = 2 \/ Complete(bytes))
  BY DEF FramebufExtract, ExtractNoPrefix, ExtractIncomplete, ExtractSpurious, ExtractFrame,
         ExtractScratchFails, Extracting, WholeFrame
<1>3. bytes \in Bytes /\ Len(bytes) \in 2..Len(data)
  BY <1>1, PrefixFound
<1>4. PICK k \in 2..Len(bytes) : data' = Drop(bytes, k)
  BY <1>1, <1>2, <1>3, CompleteFits
<1>5. Len(data') = Len(bytes) - k
  BY <1>1, <1>2, <1>3, <1>4, DropElements DEF Bytes
<1>6. QED BY <1>1, <1>3, <1>4, <1>5

LEMMA PassDrains == BufferInv /\ FramebufExtract => DrainBounded'
<1> SUFFICES ASSUME BufferInv, FramebufExtract, pc' \in {"extract", "got"}
             PROVE  2 * passes' + Len(data') <= Len(received')
  BY DEF DrainBounded
<1>1. Len(data') \in Nat /\ Len(data') + 2 <= Len(data)
  BY PassConsumes DEF BufferInv
<1>2. /\ passes' = passes + 1 /\ received' = received /\ pc \in {"extract", "got"}
      /\ passes \in Nat
  BY PassDrops DEF BufferInv, TypeOK
<1>3. /\ Len(data) \in Nat /\ Len(received) \in Nat
      /\ 2 * passes + Len(data) <= Len(received)
  BY <1>2, SuffixLength DEF BufferInv, DrainBounded
<1>4. QED BY <1>1, <1>2, <1>3

LEMMA HandoverSuffix == BufferInv /\ Handover => BufferIsSuffix' /\ DrainBounded'
<1> SUFFICES ASSUME Handover PROVE BufferIsSuffix' /\ DrainBounded'
  OBVIOUS
<1>1. data' = <<>> /\ received' = <<>> /\ pc' = "wait"
  BY DEF Handover
<1>2. <<>> = Drop(<<>>, 0) /\ 0 \in 0..Len(<<>>)
  <2>1. <<>> \in Seq(Byte) /\ Len(<<>>) = 0
    BY EmptySeq
  <2>2. QED BY <2>1, SubSeqFull DEF Drop
<1>3. QED BY <1>1, <1>2 DEF BufferIsSuffix, DrainBounded

THEOREM BufferInvariant == Spec => []BufferInv
<1>1. Init => BufferInv
  <2> SUFFICES ASSUME Init PROVE BufferInv
    OBVIOUS
  <2>1. data = <<>> /\ received = <<>> /\ pc = "wait"
    BY DEF Init
  <2>2. <<>> = Drop(<<>>, 0) /\ 0 \in 0..Len(<<>>)
    <3>1. <<>> \in Seq(Byte) /\ Len(<<>>) = 0
      BY EmptySeq
    <3>2. QED BY <3>1, SubSeqFull DEF Drop
  <2>3. QED BY <2>1, <2>2, InitType DEF BufferInv, BufferIsSuffix, DrainBounded
<1>2. BufferInv /\ [Next]_vars => BufferInv'
  <2> SUFFICES ASSUME BufferInv, [Next]_vars PROVE BufferInv'
    OBVIOUS
  <2>1. CASE \E n \in 1..MaxChunk : FramebufAppend(n)
    BY <2>1, AppendType, AppendSuffix DEF BufferInv
  <2>2. CASE \E n \in 1..MaxChunk : FramebufAppendFails(n)
    BY <2>2, AppendFailsType
    DEF BufferInv, BufferIsSuffix, DrainBounded, FramebufAppendFails
  <2>3. CASE FramebufExtract
    BY <2>3, PassType, PassSuffix, PassDrains DEF BufferInv
  <2>4. CASE Handover
    BY <2>4, HandoverType, HandoverSuffix DEF BufferInv
  <2>5. CASE UNCHANGED vars
    BY <2>5 DEF BufferInv, TypeOK, BufferIsSuffix, DrainBounded, vars
  <2>6. QED BY <2>1, <2>2, <2>3, <2>4, <2>5 DEF Next
<1>3. QED BY <1>1, <1>2, PTL DEF Spec

\* Whatever arrives in whatever pieces, the memmoves of framebuf_consume and
\* the realloc of river2_framebuf_append leave the newest bytes in the buffer,
\* all of them in order.
THEOREM SuffixKept == Spec => []BufferIsSuffix
BY BufferInvariant, PTL DEF BufferInv

\* A call that drains the buffer ends after at most half as many passes as
\* bytes have arrived.
THEOREM DrainEnds == Spec => []DrainBounded
BY BufferInvariant, PTL DEF BufferInv

------------------------------------------------------------------------------
(* How long the buffer gets *)

BoundInv == TypeOK /\ BufferBounded

\* A pass that waits for more has seen less than the largest frame.
LEMMA PassBounds == TypeOK /\ FramebufExtract => BufferBounded'
<1> SUFFICES ASSUME TypeOK, FramebufExtract, pc' = "wait", failures' = 0
             PROVE  Len(data') < 6 + MaxField
  BY DEF BufferBounded
<1>1. data \in Bytes /\ Len(data) \in Nat /\ failures \in Nat /\ MaxField \in Nat /\ MaxField >= 2
  BY LenProperties, FrameBufAssumption DEF TypeOK, Bytes, Byte
<1>2. CASE ExtractNoPrefix
  <2>1. CASE Len(data) < 2
    BY <1>1, <1>2, <2>1 DEF ExtractNoPrefix, Extracting
  <2>2. CASE ~(Len(data) < 2)
    <3>1. data' = <<Last(data)>>
      BY <1>2, <2>2 DEF ExtractNoPrefix, Extracting
    <3>2. Len(<<Last(data)>>) = 1
      OBVIOUS
    <3>3. QED BY <1>1, <3>1, <3>2
  <2>3. QED BY <2>1, <2>2
<1>3. CASE ExtractIncomplete
  <2>1. PICK bytes \in FromPrefix(data) : WaitForMore(bytes) /\ data' = bytes
    BY <1>3 DEF ExtractIncomplete, Extracting
  <2>2. bytes \in Bytes /\ Len(bytes) \in Nat
    BY <1>1, <2>1, PrefixFound
  <2>3. CASE ~HeaderComplete(bytes)
    BY <1>1, <2>1, <2>2, <2>3 DEF HeaderComplete
  <2>4. CASE HeaderComplete(bytes) /\ Plausible(bytes) /\ DataEnd(bytes) > Len(bytes)
    <3>1. Field(bytes) \in Nat /\ Field(bytes) <= MaxField
      BY <2>2, <2>4, FieldType DEF HeaderComplete, Plausible
    <3>2. QED BY <1>1, <2>1, <2>2, <2>4, <3>1 DEF DataEnd
  <2>5. QED BY <2>1, <2>3, <2>4 DEF WaitForMore
<1>4. ~ExtractSpurious /\ ~ExtractFrame
  BY DEF ExtractSpurious, ExtractFrame
<1>5. ~ExtractScratchFails
  BY <1>1 DEF ExtractScratchFails
<1>6. QED BY <1>2, <1>3, <1>4, <1>5 DEF FramebufExtract

\* Garbage without end, or a length field that promises bytes that never come,
\* cannot make a caller that waits hold more than one largest frame.
THEOREM WaitingBufferBounded == Spec => []BufferBounded
<1>1. Init => BoundInv
  <2> SUFFICES ASSUME Init PROVE BoundInv
    OBVIOUS
  <2>1. Len(<<>>) = 0
    OBVIOUS
  <2>2. data = <<>> /\ 0 < 6 + MaxField
    BY FrameBufAssumption DEF Init
  <2>3. QED BY <2>1, <2>2, InitType DEF BoundInv, BufferBounded
<1>2. BoundInv /\ [Next]_vars => BoundInv'
  <2> SUFFICES ASSUME BoundInv, [Next]_vars PROVE BoundInv'
    OBVIOUS
  <2>1. CASE \E n \in 1..MaxChunk : FramebufAppend(n)
    BY <2>1, AppendType DEF BoundInv, BufferBounded, FramebufAppend
  <2>2. CASE \E n \in 1..MaxChunk : FramebufAppendFails(n)
    <3>1. failures' # 0
      BY <2>2 DEF FramebufAppendFails, BoundInv, TypeOK
    <3>2. QED BY <2>2, <3>1, AppendFailsType DEF BoundInv, BufferBounded
  <2>3. CASE FramebufExtract
    BY <2>3, PassType, PassBounds DEF BoundInv
  <2>4. CASE Handover
    <3>1. Len(<<>>) = 0 /\ 0 < 6 + MaxField
      BY FrameBufAssumption
    <3>2. data' = <<>>
      BY <2>4 DEF Handover
    <3>3. QED BY <2>4, <3>1, <3>2, HandoverType DEF BoundInv, BufferBounded
  <2>5. CASE UNCHANGED vars
    BY <2>5 DEF BoundInv, TypeOK, BufferBounded, vars
  <2>6. QED BY <2>1, <2>2, <2>3, <2>4, <2>5 DEF Next
<1>3. QED BY <1>1, <1>2, PTL DEF Spec, BoundInv

------------------------------------------------------------------------------
(* A scan of a run of bytes *)

\* A scan of the last n bytes, from a function that knows the shorter ones.
ScanIs(bytes, n, f) == f[n] = ScanStep(Drop(bytes, Len(bytes) - n), f)

LEMMA StepFrame ==
    ASSUME NEW rest \in Bytes, NEW f, \A m \in 0..(Len(rest) - 1) : f[m] \in Seq(Frame)
    PROVE  ScanStep(rest, f) \in Seq(Frame)
<1>1. Len(rest) \in Nat /\ (rest # <<>> => Len(rest) >= 1)
  BY LenProperties, EmptySeq DEF Bytes
<1>2. CASE ~PrefixAt(rest, 1)
  <2>1. CASE rest = <<>>
    BY <1>2, <2>1 DEF ScanStep
  <2>2. CASE rest # <<>>
    <3>1. Len(rest) - 1 \in 0..(Len(rest) - 1)
      BY <1>1, <2>2
    <3>2. QED BY <1>2, <2>2, <3>1 DEF ScanStep
  <2>3. QED BY <2>1, <2>2
<1>3. CASE PrefixAt(rest, 1) /\ WaitForMore(rest)
  BY <1>3 DEF ScanStep
<1>4. CASE PrefixAt(rest, 1) /\ ~WaitForMore(rest)
  <2>1. Len(rest) >= 2
    BY <1>1, <1>4 DEF PrefixAt
  <2>2. CASE WholeFrame(rest)
    <3>1. DataEnd(rest) \in 8..Len(rest) /\ FrameOf(rest) \in Frame
      BY <2>2, CompleteFits, FrameType DEF WholeFrame
    <3>2. Len(rest) - DataEnd(rest) \in 0..(Len(rest) - 1)
      BY <1>1, <3>1
    <3>3. f[Len(rest) - DataEnd(rest)] \in Seq(Frame)
      BY <3>2
    <3>4. <<FrameOf(rest)>> \o f[Len(rest) - DataEnd(rest)] \in Seq(Frame)
      BY <3>1, <3>3
    <3>5. QED BY <1>4, <2>2, <3>4 DEF ScanStep
  <2>3. CASE ~WholeFrame(rest)
    <3>1. Len(rest) - 2 \in 0..(Len(rest) - 1)
      BY <1>1, <2>1
    <3>2. QED BY <1>4, <2>3, <3>1 DEF ScanStep
  <2>4. QED BY <2>2, <2>3
<1>5. QED BY <1>2, <1>3, <1>4

\* A step looks at the scans of shorter remainders only.
LEMMA StepDepends ==
    ASSUME NEW rest \in Bytes, NEW f, NEW g, \A m \in 0..(Len(rest) - 1) : f[m] = g[m]
    PROVE  ScanStep(rest, f) = ScanStep(rest, g)
<1>1. Len(rest) \in Nat /\ (rest # <<>> => Len(rest) >= 1)
  BY LenProperties, EmptySeq DEF Bytes
<1>2. CASE ~PrefixAt(rest, 1)
  <2>1. CASE rest = <<>>
    BY <1>2, <2>1 DEF ScanStep
  <2>2. CASE rest # <<>>
    <3>1. Len(rest) - 1 \in 0..(Len(rest) - 1)
      BY <1>1, <2>2
    <3>2. QED BY <1>2, <2>2, <3>1 DEF ScanStep
  <2>3. QED BY <2>1, <2>2
<1>3. CASE PrefixAt(rest, 1) /\ WaitForMore(rest)
  BY <1>3 DEF ScanStep
<1>4. CASE PrefixAt(rest, 1) /\ ~WaitForMore(rest)
  <2>1. Len(rest) >= 2
    BY <1>1, <1>4 DEF PrefixAt
  <2>2. CASE WholeFrame(rest)
    <3>1. DataEnd(rest) \in 8..Len(rest)
      BY <2>2, CompleteFits DEF WholeFrame
    <3>2. Len(rest) - DataEnd(rest) \in 0..(Len(rest) - 1)
      BY <1>1, <3>1
    <3>3. f[Len(rest) - DataEnd(rest)] = g[Len(rest) - DataEnd(rest)]
      BY <3>2
    <3>5. QED BY <1>4, <2>2, <3>3 DEF ScanStep
  <2>3. CASE ~WholeFrame(rest)
    <3>1. Len(rest) - 2 \in 0..(Len(rest) - 1)
      BY <1>1, <2>1
    <3>2. QED BY <1>4, <2>3, <3>1 DEF ScanStep
  <2>4. QED BY <2>2, <2>3
<1>5. QED BY <1>2, <1>3, <1>4

LEMMA RestType ==
    ASSUME NEW bytes \in Bytes, NEW n \in 0..Len(bytes)
    PROVE  /\ Drop(bytes, Len(bytes) - n) \in Bytes
           /\ Len(Drop(bytes, Len(bytes) - n)) = n
<1>1. Len(bytes) \in Nat
  BY LenProperties DEF Bytes
<1>2. Len(bytes) - n \in 0..Len(bytes)
  BY <1>1
<1>3. /\ Drop(bytes, Len(bytes) - n) \in Seq(Byte)
      /\ Len(Drop(bytes, Len(bytes) - n)) = Len(bytes) - (Len(bytes) - n)
  BY <1>2, DropElements DEF Bytes
<1>4. QED BY <1>1, <1>3 DEF Bytes

\* The recursion of Scan is well-founded: there is a function that obeys it.
LEMMA ScanExists ==
    ASSUME NEW bytes \in Bytes
    PROVE  \E f \in [0..Len(bytes) -> Seq(Frame)] :
              f = [n \in 0..Len(bytes) |-> ScanStep(Drop(bytes, Len(bytes) - n), f)]
<1> DEFINE Upto(k) == \E f \in [0..k -> Seq(Frame)] : \A n \in 0..k : ScanIs(bytes, n, f)
           Bad == {k \in 0..Len(bytes) : ~Upto(k)}
<1>1. Len(bytes) \in Nat
  BY LenProperties DEF Bytes
<1>2. ASSUME NEW k \in 0..Len(bytes), NEW f,
             \A m \in 0..(k - 1) : f[m] \in Seq(Frame) /\ ScanIs(bytes, m, f)
      PROVE  Upto(k)
  <2> DEFINE g == [n \in 0..k |-> IF n = k THEN ScanStep(Drop(bytes, Len(bytes) - k), f) ELSE f[n]]
  <2>1. \A m \in 0..(k - 1) : g[m] = f[m] /\ g[k] = ScanStep(Drop(bytes, Len(bytes) - k), f)
    OBVIOUS
  <2>2. \A m \in 0..k : Drop(bytes, Len(bytes) - m) \in Bytes /\ Len(Drop(bytes, Len(bytes) - m)) = m
    BY <1>1, RestType
  <2>3. g \in [0..k -> Seq(Frame)]
    <3>1. ScanStep(Drop(bytes, Len(bytes) - k), f) \in Seq(Frame)
      BY <1>1, <1>2, <2>2, StepFrame
    <3>2. \A m \in 0..k : m = k \/ m \in 0..(k - 1)
      OBVIOUS
    <3>3. QED BY <1>2, <3>1, <3>2
  <2>4. ASSUME NEW n \in 0..k PROVE ScanIs(bytes, n, g)
    <3>1. \A m \in 0..(n - 1) : f[m] = g[m]
      BY <2>1
    <3>2. ScanStep(Drop(bytes, Len(bytes) - n), f) = ScanStep(Drop(bytes, Len(bytes) - n), g)
      <4> HIDE DEF g
      <4>1. QED BY <2>2, <3>1, StepDepends
    <3>3. g[n] = ScanStep(Drop(bytes, Len(bytes) - n), f)
      <4>1. CASE n = k
        BY <4>1
      <4>2. CASE n # k
        <5>1. n \in 0..(k - 1) /\ g[n] = f[n]
          BY <4>2
        <5>2. QED BY <1>2, <5>1 DEF ScanIs
      <4>3. QED BY <4>1, <4>2
    <3>4. QED BY <3>2, <3>3 DEF ScanIs
  <2>5. QED
    <3> HIDE DEF g
    <3>1. QED BY <2>3, <2>4
<1>3. Bad = {}
  <2> SUFFICES ASSUME Bad # {} PROVE FALSE
    OBVIOUS
  <2>1. PICK k \in Bad : \A j \in Bad : k <= j
    <3>1. Bad \in SUBSET Nat
      BY <1>1
    <3> HIDE DEF Bad
    <3>2. QED BY <3>1, LeastOf
  <2>2. k \in 0..Len(bytes) /\ ~Upto(k)
    OBVIOUS
  <2>3. CASE k = 0
    <3> DEFINE f == <<>>
    <3>1. \A m \in 0..(k - 1) : f[m] \in Seq(Frame) /\ ScanIs(bytes, m, f)
      BY <2>3
    <3> HIDE DEF Upto, f
    <3>2. QED BY <1>2, <2>2, <3>1
  <2>4. CASE k # 0
    <3>1. k - 1 \in 0..Len(bytes) /\ k - 1 \notin Bad
      <4> HIDE DEF Bad
      <4>1. QED BY <1>1, <2>1, <2>2, <2>4
    <3>2. PICK f \in [0..(k - 1) -> Seq(Frame)] : \A n \in 0..(k - 1) : ScanIs(bytes, n, f)
      BY <3>1
    <3> HIDE DEF Upto
    <3>3. QED BY <1>2, <2>2, <3>2
  <2>5. QED BY <2>3, <2>4
<1>4. PICK f \in [0..Len(bytes) -> Seq(Frame)] : \A n \in 0..Len(bytes) : ScanIs(bytes, n, f)
  <2>1. Len(bytes) \in 0..Len(bytes)
    BY <1>1
  <2>2. QED BY <1>3, <2>1
<1>5. f = [n \in 0..Len(bytes) |-> ScanStep(Drop(bytes, Len(bytes) - n), f)]
  BY <1>4 DEF ScanIs
<1>6. QED BY <1>4, <1>5

\* What Scan computes with, and what it obeys.
LEMMA ScanFunction ==
    ASSUME NEW bytes \in Bytes
    PROVE  \E f \in [0..Len(bytes) -> Seq(Frame)] :
              /\ \A n \in 0..Len(bytes) : ScanIs(bytes, n, f)
              /\ Scan(bytes) = f[Len(bytes)]
<1> DEFINE Obeys(f) == f = [n \in 0..Len(bytes) |-> ScanStep(Drop(bytes, Len(bytes) - n), f)]
           from == CHOOSE f : Obeys(f)
<1>1. Scan(bytes) = from[Len(bytes)]
  BY DEF Scan
<1>2. \E f : Obeys(f)
  BY ScanExists
<1>3. Obeys(from)
  <2> HIDE DEF Obeys
  <2>1. QED BY <1>2
<1>4. \A n \in 0..Len(bytes) : ScanIs(bytes, n, from)
  <2> DEFINE F == [n \in 0..Len(bytes) |-> ScanStep(Drop(bytes, Len(bytes) - n), from)]
  <2>1. from = F
    BY <1>3
  <2>2. \A n \in 0..Len(bytes) : F[n] = ScanStep(Drop(bytes, Len(bytes) - n), from)
    <3> HIDE DEF from
    <3>1. QED OBVIOUS
  <2> HIDE DEF F, from
  <2>3. QED BY <2>1, <2>2 DEF ScanIs
<1>5. DOMAIN from = 0..Len(bytes) /\ from = [n \in 0..Len(bytes) |-> from[n]]
  <2> DEFINE F == [n \in 0..Len(bytes) |-> ScanStep(Drop(bytes, Len(bytes) - n), from)]
  <2>1. from = F
    BY <1>3
  <2>2. DOMAIN F = 0..Len(bytes) /\ F = [n \in 0..Len(bytes) |-> F[n]]
    <3> HIDE DEF from
    <3>1. QED OBVIOUS
  <2> HIDE DEF F, from
  <2>3. QED BY <2>1, <2>2
<1>6. \A n \in 0..Len(bytes) : from[n] \in Seq(Frame)
  <2> HIDE DEF from
  <2> DEFINE Bad == {n \in 0..Len(bytes) : from[n] \notin Seq(Frame)}
  <2> SUFFICES ASSUME Bad # {} PROVE FALSE
    OBVIOUS
  <2>1. PICK n \in Bad : \A j \in Bad : n <= j
    <3>1. Bad \in SUBSET Nat
      BY LenProperties DEF Bytes
    <3> HIDE DEF Bad
    <3>2. QED BY <3>1, LeastOf
  <2>2. n \in 0..Len(bytes) /\ Len(bytes) \in Nat
    BY LenProperties DEF Bytes
  <2>3. \A m \in 0..(n - 1) : from[m] \in Seq(Frame)
    <3> SUFFICES ASSUME NEW m \in 0..(n - 1), m \in Bad PROVE FALSE
      BY <2>2
    <3> HIDE DEF Bad
    <3>1. n <= m
      BY <2>1
    <3>2. QED BY <2>2, <3>1
  <2>4. from[n] \in Seq(Frame)
    <3>1. Drop(bytes, Len(bytes) - n) \in Bytes /\ Len(Drop(bytes, Len(bytes) - n)) = n
      BY <2>2, RestType
    <3>2. ScanStep(Drop(bytes, Len(bytes) - n), from) \in Seq(Frame)
      BY <2>3, <3>1, StepFrame
    <3>3. QED BY <1>4, <2>2, <3>2 DEF ScanIs
  <2>5. QED BY <2>4
<1>7. from \in [0..Len(bytes) -> Seq(Frame)]
  <2> HIDE DEF from
  <2>1. QED BY <1>5, <1>6
<1>8. QED
  <2> HIDE DEF from
  <2>1. QED BY <1>1, <1>4, <1>7

\* The scan of the last n bytes is the same whatever came before them.
LEMMA ScanOfRest ==
    ASSUME NEW bytes \in Bytes, NEW f, NEW n \in 0..Len(bytes),
           \A m \in 0..Len(bytes) : ScanIs(bytes, m, f)
    PROVE  f[n] = Scan(Drop(bytes, Len(bytes) - n))
<1> DEFINE rest == Drop(bytes, Len(bytes) - n)
<1>1. rest \in Bytes /\ Len(rest) = n /\ Len(bytes) \in Nat
  BY RestType, LenProperties DEF Bytes
<1>2. PICK g \in [0..n -> Seq(Frame)] : /\ \A m \in 0..n : ScanIs(rest, m, g)
                                        /\ Scan(rest) = g[n]
  <2> HIDE DEF rest
  <2>1. QED BY <1>1, ScanFunction
<1>3. ASSUME NEW m \in 0..n
      PROVE  Drop(rest, Len(rest) - m) = Drop(bytes, Len(bytes) - m)
  <2>1. /\ Len(bytes) - n \in 0..Len(bytes) /\ n - m \in 0..(Len(bytes) - (Len(bytes) - n))
        /\ (Len(bytes) - n) + (n - m) = Len(bytes) - m
    BY <1>1
  <2>2. Drop(Drop(bytes, Len(bytes) - n), n - m) = Drop(bytes, (Len(bytes) - n) + (n - m))
    BY <2>1, DropDrop DEF Bytes
  <2>3. QED BY <1>1, <2>1, <2>2
<1> DEFINE Bad == {m \in 0..n : f[m] # g[m]}
<1>4. Bad = {}
  <2> SUFFICES ASSUME Bad # {} PROVE FALSE
    OBVIOUS
  <2>1. PICK k \in Bad : \A j \in Bad : k <= j
    <3>1. Bad \in SUBSET Nat
      BY <1>1
    <3> HIDE DEF Bad
    <3>2. QED BY <3>1, LeastOf
  <2>2. k \in 0..n /\ k \in 0..Len(bytes) /\ f[k] # g[k]
    BY <1>1
  <2>3. \A m \in 0..(k - 1) : f[m] = g[m]
    <3> SUFFICES ASSUME NEW m \in 0..(k - 1), m \in Bad PROVE FALSE
      BY <2>2
    <3> HIDE DEF Bad
    <3>1. k <= m
      BY <2>1
    <3>2. QED BY <2>2, <3>1
  <2> HIDE DEF Bad, rest
  <2>4. f[k] = ScanStep(Drop(bytes, Len(bytes) - k), f)
    BY <2>2 DEF ScanIs
  <2>5. g[k] = ScanStep(Drop(bytes, Len(bytes) - k), g)
    BY <1>2, <1>3, <2>2 DEF ScanIs
  <2>6. ScanStep(Drop(bytes, Len(bytes) - k), f) = ScanStep(Drop(bytes, Len(bytes) - k), g)
    <3>1. Drop(bytes, Len(bytes) - k) \in Bytes /\ Len(Drop(bytes, Len(bytes) - k)) = k
      BY <2>2, RestType
    <3>2. \A m \in 0..(Len(Drop(bytes, Len(bytes) - k)) - 1) : f[m] = g[m]
      BY <2>3, <3>1
    <3>3. QED BY <3>1, <3>2, StepDepends
  <2>7. QED BY <2>2, <2>4, <2>5, <2>6
<1>5. f[n] = g[n]
  <2>1. n \in 0..n
    OBVIOUS
  <2>2. QED BY <1>4, <2>1
<1>6. QED BY <1>2, <1>5

\* Scan, without the function it is computed with.
LEMMA ScanEquation ==
    ASSUME NEW bytes \in Bytes
    PROVE  /\ Scan(bytes) \in Seq(Frame)
           /\ bytes = <<>> => Scan(bytes) = <<>>
           /\ bytes # <<>> /\ ~PrefixAt(bytes, 1) => Scan(bytes) = Scan(Drop(bytes, 1))
           /\ PrefixAt(bytes, 1) /\ WholeFrame(bytes) =>
                 Scan(bytes) = <<FrameOf(bytes)>> \o Scan(Drop(bytes, DataEnd(bytes)))
           /\ PrefixAt(bytes, 1) /\ Spurious(bytes) => Scan(bytes) = Scan(Drop(bytes, 2))
<1>1. Len(bytes) \in Nat /\ (bytes # <<>> => Len(bytes) >= 1) /\ (bytes = <<>> => Len(bytes) = 0)
  BY LenProperties, EmptySeq DEF Bytes
<1>2. PICK f \in [0..Len(bytes) -> Seq(Frame)] :
              /\ \A n \in 0..Len(bytes) : ScanIs(bytes, n, f)
              /\ Scan(bytes) = f[Len(bytes)]
  BY ScanFunction
<1>3. Scan(bytes) \in Seq(Frame)
  <2>1. Len(bytes) \in 0..Len(bytes)
    BY <1>1
  <2>2. QED BY <1>2, <2>1
<1>4. Scan(bytes) = ScanStep(bytes, f)
  <2>1. Len(bytes) \in 0..Len(bytes) /\ Len(bytes) - Len(bytes) = 0
    BY <1>1
  <2>2. Drop(bytes, 0) = bytes
    BY SubSeqFull DEF Drop, Bytes
  <2>3. QED BY <1>2, <2>1, <2>2 DEF ScanIs
<1>5. ASSUME NEW k \in 0..Len(bytes) PROVE f[Len(bytes) - k] = Scan(Drop(bytes, k))
  <2>1. Len(bytes) - k \in 0..Len(bytes) /\ Len(bytes) - (Len(bytes) - k) = k
    BY <1>1
  <2>2. f[Len(bytes) - k] = Scan(Drop(bytes, Len(bytes) - (Len(bytes) - k)))
    BY <1>2, <2>1, ScanOfRest
  <2>3. QED BY <2>1, <2>2
<1>6. ASSUME bytes = <<>> PROVE Scan(bytes) = <<>>
  <2>1. ~PrefixAt(bytes, 1)
    BY <1>1, <1>6 DEF PrefixAt
  <2>2. QED BY <1>4, <1>6, <2>1 DEF ScanStep
<1>7. ASSUME bytes # <<>>, ~PrefixAt(bytes, 1) PROVE Scan(bytes) = Scan(Drop(bytes, 1))
  <2>1. 1 \in 0..Len(bytes)
    BY <1>1, <1>7
  <2>2. QED BY <1>4, <1>5, <1>7, <2>1 DEF ScanStep
<1>8. ASSUME PrefixAt(bytes, 1), WholeFrame(bytes)
      PROVE  Scan(bytes) = <<FrameOf(bytes)>> \o Scan(Drop(bytes, DataEnd(bytes)))
  <2>1. DataEnd(bytes) \in 0..Len(bytes) /\ ~WaitForMore(bytes)
    BY <1>1, <1>8, CompleteFits DEF WholeFrame, WaitForMore, Complete
  <2>2. QED BY <1>4, <1>5, <1>8, <2>1 DEF ScanStep
<1>9. ASSUME PrefixAt(bytes, 1), Spurious(bytes) PROVE Scan(bytes) = Scan(Drop(bytes, 2))
  <2>1. 2 \in 0..Len(bytes)
    BY <1>1, <1>9 DEF PrefixAt
  <2>2. ~WaitForMore(bytes) /\ ~WholeFrame(bytes)
    BY <1>9, CompleteFits DEF WholeFrame, WaitForMore, Complete, Spurious
  <2>3. QED BY <1>4, <1>5, <1>9, <2>1, <2>2 DEF ScanStep
<1>10. QED BY <1>3, <1>6, <1>7, <1>8, <1>9

------------------------------------------------------------------------------
(* Bytes that arrive later *)

LEMMA ConcatElements ==
    ASSUME NEW s \in Bytes, NEW t \in Bytes
    PROVE  /\ s \o t \in Bytes /\ Len(s \o t) = Len(s) + Len(t)
           /\ Len(s) \in Nat /\ Len(t) \in Nat
           /\ \A i \in 1..Len(s) : (s \o t)[i] = s[i]
<1>1. Len(s) \in Nat /\ Len(t) \in Nat
  BY LenProperties DEF Bytes
<1>2. /\ s \o t \in Seq(Byte) /\ Len(s \o t) = Len(s) + Len(t)
      /\ \A i \in 1..(Len(s) + Len(t)) :
            (s \o t)[i] = IF i <= Len(s) THEN s[i] ELSE t[i - Len(s)]
  BY ConcatProperties DEF Bytes
<1>3. \A i \in 1..Len(s) : i \in 1..(Len(s) + Len(t)) /\ i <= Len(s)
  BY <1>1
<1>4. QED BY <1>1, <1>2, <1>3 DEF Bytes

\* Bytes that arrive later change no part of what is there.
LEMMA PartKept ==
    ASSUME NEW s \in Bytes, NEW t \in Bytes, NEW a \in 1..(Len(s) + 1), NEW b \in 0..Len(s)
    PROVE  SubSeq(s \o t, a, b) = SubSeq(s, a, b)
<1>1. /\ s \o t \in Bytes /\ Len(s \o t) = Len(s) + Len(t)
      /\ Len(s) \in Nat /\ Len(t) \in Nat
      /\ \A i \in 1..Len(s) : (s \o t)[i] = s[i]
  BY ConcatElements
<1>2. \A i \in a..b : i \in 1..Len(s) /\ s[i] \in Byte /\ (s \o t)[i] = s[i]
  BY <1>1, ElementOfSeq DEF Bytes
<1>3. a \in Int /\ b \in Int
  BY <1>1
<1>4. /\ SubSeq(s, a, b) \in Seq(Byte)
      /\ Len(SubSeq(s, a, b)) = IF a <= b THEN b - a + 1 ELSE 0
      /\ \A i \in 1..(b - a + 1) : SubSeq(s, a, b)[i] = s[a + i - 1]
  BY <1>2, <1>3, SubSeqProperties
<1>5. /\ SubSeq(s \o t, a, b) \in Seq(Byte)
      /\ Len(SubSeq(s \o t, a, b)) = IF a <= b THEN b - a + 1 ELSE 0
      /\ \A i \in 1..(b - a + 1) : SubSeq(s \o t, a, b)[i] = (s \o t)[a + i - 1]
  BY <1>2, <1>3, SubSeqProperties
<1>6. ASSUME NEW i \in 1..Len(SubSeq(s, a, b))
      PROVE  SubSeq(s \o t, a, b)[i] = SubSeq(s, a, b)[i]
  <2>1. i \in 1..(b - a + 1) /\ a + i - 1 \in a..b
    BY <1>1, <1>4
  <2>2. QED BY <1>2, <1>4, <1>5, <2>1
<1>7. QED BY <1>4, <1>5, <1>6, SeqEqual

\* A verdict other than "wait for more" stands, whatever arrives later.
LEMMA VerdictKept ==
    ASSUME NEW s \in Bytes, NEW t \in Bytes, PrefixAt(s, 1)
    PROVE  /\ PrefixAt(s \o t, 1)
           /\ Spurious(s) => Spurious(s \o t)
           /\ WholeFrame(s) => /\ WholeFrame(s \o t)
                               /\ FrameOf(s \o t) = FrameOf(s)
                               /\ DataEnd(s \o t) = DataEnd(s)
<1>1. /\ s \o t \in Bytes /\ Len(s \o t) = Len(s) + Len(t)
      /\ Len(s) \in Nat /\ Len(t) \in Nat
      /\ \A i \in 1..Len(s) : (s \o t)[i] = s[i]
  BY ConcatElements
<1>2. PrefixAt(s \o t, 1)
  BY <1>1 DEF PrefixAt
<1>3. ASSUME HeaderComplete(s)
      PROVE  /\ HeaderComplete(s \o t) /\ Field(s \o t) = Field(s)
             /\ DataEnd(s \o t) = DataEnd(s) /\ (Plausible(s \o t) <=> Plausible(s))
  <2>1. 5 \in 1..Len(s) /\ 6 \in 1..Len(s) /\ HeaderComplete(s \o t)
    BY <1>1, <1>3 DEF HeaderComplete
  <2>2. Field(s \o t) = Field(s)
    <3>1. (s \o t)[5] = s[5] /\ (s \o t)[6] = s[6]
      BY <1>1, <2>1
    <3>2. Field(s) = s[5] + 256 * s[6] /\ Field(s \o t) = (s \o t)[5] + 256 * (s \o t)[6]
      BY DEF Field, RdU16Le
    <3>3. QED BY <3>1, <3>2
  <2>3. QED BY <2>1, <2>2 DEF DataEnd, Plausible
<1>4. ASSUME Complete(s)
      PROVE  /\ Complete(s \o t) /\ (CrcMatches(s \o t) <=> CrcMatches(s))
             /\ FrameOf(s \o t) = FrameOf(s) /\ DataEnd(s \o t) = DataEnd(s)
  <2>1. DataEnd(s) \in 8..Len(s) /\ HeaderComplete(s) /\ Plausible(s)
    BY <1>4, CompleteFits DEF Complete
  <2>2. /\ HeaderComplete(s \o t) /\ DataEnd(s \o t) = DataEnd(s) /\ Plausible(s \o t)
    BY <1>3, <2>1
  <2>3. Complete(s \o t)
    BY <1>1, <2>1, <2>2 DEF Complete
  <2>4. CrcMatches(s \o t) <=> CrcMatches(s)
    <3>1. /\ 1 \in 1..(Len(s) + 1) /\ DataEnd(s) - 2 \in 0..Len(s)
          /\ DataEnd(s) - 1 \in 1..Len(s) /\ (DataEnd(s) - 1) + 1 \in 1..Len(s)
      BY <1>1, <2>1
    <3>2. SubSeq(s \o t, 1, DataEnd(s) - 2) = SubSeq(s, 1, DataEnd(s) - 2)
      BY <3>1, PartKept
    <3>3. RdU16Le(s \o t, DataEnd(s) - 1) = RdU16Le(s, DataEnd(s) - 1)
      <4>1. /\ (s \o t)[DataEnd(s) - 1] = s[DataEnd(s) - 1]
            /\ (s \o t)[(DataEnd(s) - 1) + 1] = s[(DataEnd(s) - 1) + 1]
        BY <1>1, <3>1
      <4>2. QED BY <4>1 DEF RdU16Le
    <3>4. QED BY <2>2, <3>2, <3>3 DEF CrcMatches
  <2>5. FrameOf(s \o t) = FrameOf(s)
    <3>1. 3 \in 1..Len(s) /\ 7 \in 1..(Len(s) + 1) /\ DataEnd(s) - 2 \in 0..Len(s)
      BY <1>1, <2>1
    <3>2. (s \o t)[3] = s[3]
      BY <1>1, <3>1
    <3>3. SubSeq(s \o t, 7, DataEnd(s) - 2) = SubSeq(s, 7, DataEnd(s) - 2)
      BY <3>1, PartKept
    <3>4. QED BY <2>2, <3>2, <3>3 DEF FrameOf
  <2>6. QED BY <2>2, <2>3, <2>4, <2>5
<1>5. Spurious(s) => Spurious(s \o t)
  BY <1>3, <1>4 DEF Spurious
<1>6. WholeFrame(s) => /\ WholeFrame(s \o t)
                       /\ FrameOf(s \o t) = FrameOf(s)
                       /\ DataEnd(s \o t) = DataEnd(s)
  BY <1>4 DEF WholeFrame
<1>7. QED BY <1>2, <1>5, <1>6

\* Bytes at which no prefix begins are of no interest to a scan.
LEMMA ScanSkips ==
    ASSUME NEW s \in Bytes, NEW k \in 0..Len(s), \A j \in 1..k : ~PrefixAt(s, j)
    PROVE  Scan(s) = Scan(Drop(s, k))
<1> DEFINE Bad == {i \in 0..k : Scan(s) # Scan(Drop(s, i))}
<1>1. Len(s) \in Nat
  BY LenProperties DEF Bytes
<1>2. Bad = {}
  <2> SUFFICES ASSUME Bad # {} PROVE FALSE
    OBVIOUS
  <2>1. PICK i \in Bad : \A j \in Bad : i <= j
    <3>1. Bad \in SUBSET Nat
      BY <1>1
    <3> HIDE DEF Bad
    <3>2. QED BY <3>1, LeastOf
  <2>2. i \in 0..k /\ Scan(s) # Scan(Drop(s, i))
    OBVIOUS
  <2>3. i # 0
    <3>1. Drop(s, 0) = s
      BY SubSeqFull DEF Drop, Bytes
    <3>2. QED BY <2>2, <3>1
  <2>4. i - 1 \in 0..k /\ i - 1 \in 0..Len(s) /\ 1 \in 0..(Len(s) - (i - 1)) /\ (i - 1) + 1 = i
        /\ i \in 1..k /\ i \in 1..Len(s)
    BY <1>1, <2>2, <2>3
  <2>5. Scan(s) = Scan(Drop(s, i - 1))
    <3>1. i - 1 \notin Bad
      <4> HIDE DEF Bad
      <4>1. QED BY <2>1, <2>4
    <3>2. QED BY <2>4, <3>1
  <2> DEFINE rest == Drop(s, i - 1)
  <2>6. /\ rest \in Bytes /\ Len(rest) = Len(s) - (i - 1)
        /\ \A j \in 1..(Len(s) - (i - 1)) : rest[j] = s[(i - 1) + j]
    BY <2>4, DropElements DEF Bytes
  <2>7. ~PrefixAt(rest, 1)
    <3> SUFFICES ASSUME PrefixAt(rest, 1) PROVE FALSE
      OBVIOUS
    <3> HIDE DEF rest
    <3>1. 2 <= Len(s) - (i - 1) /\ rest[1] = 90 /\ rest[2] = 90
      BY <2>6 DEF PrefixAt
    <3>2. 1 \in 1..(Len(s) - (i - 1)) /\ 2 \in 1..(Len(s) - (i - 1))
      BY <1>1, <2>4, <3>1
    <3>3. s[(i - 1) + 1] = 90 /\ s[(i - 1) + 2] = 90
      BY <2>6, <3>1, <3>2
    <3>4. s[i] = 90 /\ s[i + 1] = 90 /\ i + 1 <= Len(s)
      <4>1. (i - 1) + 1 = i /\ (i - 1) + 2 = i + 1 /\ i + 1 <= Len(s)
        BY <1>1, <2>4, <3>1
      <4>2. QED BY <3>3, <4>1
    <3>5. QED BY <2>4, <3>4 DEF PrefixAt
  <2>8. rest # <<>>
    <3> HIDE DEF rest
    <3>1. QED BY <1>1, <2>4, <2>6, EmptySeq
  <2>9. Scan(rest) = Scan(Drop(rest, 1))
    <3> HIDE DEF rest
    <3>1. QED BY <2>6, <2>7, <2>8, ScanEquation
  <2>10. Drop(rest, 1) = Drop(s, (i - 1) + 1)
    BY <2>4, DropDrop DEF Bytes
  <2>11. QED BY <2>2, <2>4, <2>5, <2>9, <2>10
<1>3. k \in 0..k
  BY <1>1
<1>4. QED BY <1>2, <1>3

\* ... even if more bytes follow the ones looked at.
LEMMA ScanSkipsBefore ==
    ASSUME NEW s \in Bytes, NEW t \in Bytes, NEW k \in 0..Len(s), k < Len(s) \/ k = 0,
           \A j \in 1..k : ~PrefixAt(s, j)
    PROVE  Scan(s \o t) = Scan(Drop(s, k) \o t)
<1>1. /\ s \o t \in Bytes /\ Len(s \o t) = Len(s) + Len(t)
      /\ Len(s) \in Nat /\ Len(t) \in Nat
      /\ \A i \in 1..Len(s) : (s \o t)[i] = s[i]
  BY ConcatElements
<1>2. ASSUME NEW j \in 1..k PROVE ~PrefixAt(s \o t, j)
  <2>1. j \in 1..Len(s) /\ j + 1 \in 1..Len(s)
    BY <1>1
  <2>2. (s \o t)[j] = s[j] /\ (s \o t)[j + 1] = s[j + 1] /\ j + 1 <= Len(s)
    BY <1>1, <2>1
  <2>3. QED BY <2>2 DEF PrefixAt
<1>3. k \in 0..Len(s \o t) /\ Drop(s, k) \o t = Drop(s \o t, k)
  BY DropConcat DEF Bytes
<1>4. QED BY <1>1, <1>2, <1>3, ScanSkips

------------------------------------------------------------------------------
(* What has come out, and what a scan still finds *)

\* What a pass takes out of the buffer is what a scan would take off the front
\* of it: frames' \o Scan(data' \o later) is what it was.
LEMMA PrefixScan ==
    ASSUME data \in Bytes, NEW bytes \in FromPrefix(data), NEW later \in Bytes
    PROVE  /\ bytes \in Bytes /\ PrefixAt(bytes, 1)
           /\ Scan(data \o later) = Scan(bytes \o later)
<1>1. PICK i \in 1..Len(data) : /\ PrefixAt(data, i) /\ bytes = SubSeq(data, i, Len(data))
                                /\ \A j \in 1..(i - 1) : ~PrefixAt(data, j)
  BY DEF FromPrefix
<1>2. Len(data) \in Nat /\ i - 1 \in 0..Len(data) /\ i + 1 <= Len(data) /\ i - 1 < Len(data)
  BY <1>1, LenProperties DEF Bytes, PrefixAt
<1>3. bytes = Drop(data, i - 1)
  <2>1. (i - 1) + 1 = i
    BY <1>2
  <2>2. QED BY <1>1, <2>1 DEF Drop
<1>4. /\ bytes \in Seq(Byte) /\ Len(bytes) = Len(data) - (i - 1)
      /\ \A j \in 1..(Len(data) - (i - 1)) : bytes[j] = data[(i - 1) + j]
  BY <1>2, <1>3, DropElements DEF Bytes
<1>5. PrefixAt(bytes, 1)
  <2>1. /\ 1 \in 1..(Len(data) - (i - 1)) /\ 2 \in 1..(Len(data) - (i - 1))
        /\ (i - 1) + 1 = i /\ (i - 1) + 2 = i + 1 /\ 2 <= Len(bytes) /\ 1 + 1 = 2
    BY <1>2, <1>4
  <2>2. data[i] = 90 /\ data[i + 1] = 90
    BY <1>1 DEF PrefixAt
  <2>3. bytes[1] = data[(i - 1) + 1] /\ bytes[2] = data[(i - 1) + 2]
    BY <1>4, <2>1
  <2>4. bytes[1] = 90 /\ bytes[2] = 90
    BY <2>1, <2>2, <2>3
  <2>5. QED BY <2>1, <2>4 DEF PrefixAt
<1>6. Scan(data \o later) = Scan(bytes \o later)
  BY <1>1, <1>2, <1>3, ScanSkipsBefore
<1>7. QED BY <1>4, <1>5, <1>6 DEF Bytes

\* frames, and the frames a scan still finds in the buffer and what follows.
Promise(later) == frames \o Scan(data \o later)

LEMMA PassScan ==
    ASSUME TypeOK, FramebufExtract, NEW later \in Bytes
    PROVE  Promise(later)' = Promise(later)
<1>1. data \in Bytes /\ Len(data) \in Nat /\ frames \in Seq(Frame)
  BY LenProperties DEF TypeOK, Bytes, Byte
<1>2. CASE ExtractNoPrefix
  <2>1. CASE Len(data) < 2
    <3>1. data' = data /\ frames' = frames
      BY <1>2, <2>1 DEF ExtractNoPrefix, Extracting
    <3>2. QED BY <3>1 DEF Promise
  <2>2. CASE ~(Len(data) < 2)
    <3> DEFINE rest == Drop(data, Len(data) - 1)
    <3>1. data' = <<data[Len(data)]>> /\ frames' = frames /\ FromPrefix(data) = {}
      BY <1>2, <2>2 DEF ExtractNoPrefix, Extracting, Last
    <3>2. Len(data) - 1 \in 0..Len(data) /\ Len(data) - 1 < Len(data)
      BY <1>1, <2>2
    <3>3. /\ rest \in Seq(Byte) /\ Len(rest) = Len(data) - (Len(data) - 1)
          /\ \A i \in 1..(Len(data) - (Len(data) - 1)) : rest[i] = data[Len(data) - 1 + i]
      BY <3>2, <1>1, DropElements DEF Bytes
    <3>4. /\ rest \in Seq(Byte) /\ Len(rest) = 1 /\ rest[1] = data[Len(data)]
      <4> HIDE DEF rest
      <4>1. QED BY <1>1, <3>3
    <3>5. data[Len(data)] \in Byte
      BY <1>1, <2>2, ElementOfSeq DEF Bytes
    <3>6. rest = <<data[Len(data)]>>
      <4> HIDE DEF rest
      <4>1. QED BY <3>4, <3>5, SeqEqual
    <3>7. \A j \in 1..Len(data) : ~PrefixAt(data, j)
      <4> DEFINE At == {j \in 1..Len(data) : PrefixAt(data, j)}
      <4> SUFFICES ASSUME At # {} PROVE FALSE
        OBVIOUS
      <4>1. PICK i \in At : \A j \in At : i <= j
        <5>1. At \in SUBSET Nat
          BY <1>1
        <5> HIDE DEF At
        <5>2. QED BY <5>1, LeastOf
      <4>2. i \in 1..Len(data) /\ PrefixAt(data, i)
        OBVIOUS
      <4>3. \A j \in 1..(i - 1) : ~PrefixAt(data, j)
        <5> SUFFICES ASSUME NEW j \in 1..(i - 1), j \in At PROVE FALSE
          BY <1>1, <4>2
        <5> HIDE DEF At
        <5>1. i <= j
          BY <4>1
        <5>2. QED BY <4>2, <5>1
      <4>4. SubSeq(data, i, Len(data)) \in FromPrefix(data)
        BY <4>2, <4>3 DEF FromPrefix
      <4>5. QED BY <3>1, <4>4
    <3>8. Scan(data \o later) = Scan(rest \o later)
      <4>1. \A j \in 1..(Len(data) - 1) : ~PrefixAt(data, j)
        BY <1>1, <3>7
      <4>2. QED BY <1>1, <3>2, <4>1, ScanSkipsBefore
    <3>9. QED
      <4> HIDE DEF rest
      <4>1. QED BY <3>1, <3>6, <3>8 DEF Promise
  <2>3. QED BY <2>1, <2>2
<1>3. ASSUME NEW bytes \in FromPrefix(data)
      PROVE  /\ bytes \in Bytes /\ PrefixAt(bytes, 1) /\ Len(bytes) \in 2..Len(data)
             /\ Scan(data \o later) = Scan(bytes \o later) /\ bytes \o later \in Bytes
             /\ PrefixAt(bytes \o later, 1)
  <2>1. bytes \in Bytes /\ PrefixAt(bytes, 1) /\ Scan(data \o later) = Scan(bytes \o later)
    BY <1>1, PrefixScan
  <2>2. Len(bytes) \in 2..Len(data)
    BY <1>1, PrefixFound
  <2>3. bytes \o later \in Bytes /\ PrefixAt(bytes \o later, 1)
    BY <2>1, ConcatElements, VerdictKept
  <2>4. QED BY <2>1, <2>2, <2>3
<1>4. CASE ExtractIncomplete
  <2>1. PICK bytes \in FromPrefix(data) : data' = bytes /\ frames' = frames
    BY <1>4 DEF ExtractIncomplete, Extracting
  <2>2. QED BY <1>3, <2>1 DEF Promise
<1>5. CASE ExtractSpurious
  <2>1. PICK bytes \in FromPrefix(data) :
           Spurious(bytes) /\ data' = Drop(bytes, 2) /\ frames' = frames
    BY <1>5 DEF ExtractSpurious, Extracting
  <2>2. 2 \in 0..Len(bytes)
    BY <1>1, <1>3
  <2>3. Spurious(bytes \o later)
    BY <1>3, <2>1, VerdictKept
  <2>4. Scan(bytes \o later) = Scan(Drop(bytes \o later, 2))
    BY <1>3, <2>3, ScanEquation
  <2>5. Drop(bytes, 2) \o later = Drop(bytes \o later, 2)
    BY <1>3, <2>2, DropConcat DEF Bytes
  <2>6. QED BY <1>3, <2>1, <2>4, <2>5 DEF Promise
<1>6. CASE ExtractFrame
  <2>1. PICK bytes \in FromPrefix(data) :
           /\ WholeFrame(bytes) /\ data' = Drop(bytes, DataEnd(bytes))
           /\ frames' = Append(frames, FrameOf(bytes))
    BY <1>6 DEF ExtractFrame, Extracting
  <2> DEFINE frame == FrameOf(bytes)
             rest  == Scan(Drop(bytes, DataEnd(bytes)) \o later)
  <2>2. DataEnd(bytes) \in 0..Len(bytes) /\ frame \in Frame
    BY <1>3, <2>1, CompleteFits, FrameType DEF WholeFrame
  <2>3. /\ WholeFrame(bytes \o later) /\ FrameOf(bytes \o later) = frame
        /\ DataEnd(bytes \o later) = DataEnd(bytes)
    BY <1>3, <2>1, VerdictKept
  <2>4. Scan(bytes \o later) = <<frame>> \o Scan(Drop(bytes \o later, DataEnd(bytes)))
    BY <1>3, <2>3, ScanEquation
  <2>5. /\ Drop(bytes, DataEnd(bytes)) \o later = Drop(bytes \o later, DataEnd(bytes))
    BY <1>3, <2>2, DropConcat DEF Bytes
  <2>6. rest \in Seq(Frame)
    <3>1. Drop(bytes, DataEnd(bytes)) \in Bytes
      BY <1>3, <2>2, DropElements DEF Bytes
    <3>2. QED BY <3>1, ConcatElements, ScanEquation
  <2>7. Append(frames, frame) = frames \o <<frame>>
    <3> HIDE DEF frame
    <3>1. QED BY <1>1, <2>2, AppendIsConcat
  <2>8. (frames \o <<frame>>) \o rest = frames \o (<<frame>> \o rest)
    <3>1. <<frame>> \in Seq(Frame)
      BY <2>2
    <3> HIDE DEF frame, rest
    <3>2. QED BY <1>1, <2>6, <3>1, ConcatAssociative
  <2>9. Promise(later)' = (frames \o <<frame>>) \o rest
    BY <2>1, <2>7 DEF Promise
  <2>10. Promise(later) = frames \o (<<frame>> \o rest)
    BY <1>3, <2>4, <2>5 DEF Promise
  <2>11. QED BY <2>8, <2>9, <2>10
<1>7. CASE ExtractScratchFails
  <2>1. PICK bytes \in FromPrefix(data) : data' = bytes /\ frames' = frames
    BY <1>7 DEF ExtractScratchFails, Extracting
  <2>2. QED BY <1>3, <2>1 DEF Promise
<1>8. QED BY <1>2, <1>4, <1>5, <1>6, <1>7 DEF FramebufExtract

\* ChunkingIrrelevant alone is not inductive: it says nothing of the frames
\* that later bytes complete.  It holds for every continuation of the stream.
ChunkInv == TypeOK /\ \A later \in Bytes : Promise(later) = Scan(received \o later)

LEMMA InitChunk == Init => ChunkInv
<1> SUFFICES ASSUME Init PROVE ChunkInv
  OBVIOUS
<1>1. TypeOK /\ data = <<>> /\ received = <<>> /\ frames = <<>>
  BY InitType DEF Init
<1>2. ASSUME NEW later \in Bytes PROVE <<>> \o Scan(<<>> \o later) = Scan(<<>> \o later)
  <2>1. <<>> \o later \in Bytes
    BY EmptySeq, ConcatProperties DEF Bytes
  <2>2. QED BY <2>1, ScanEquation, ConcatEmptySeq
<1>3. QED BY <1>1, <1>2 DEF ChunkInv, Promise

LEMMA AppendChunk ==
    ASSUME ChunkInv, NEW n \in 1..MaxChunk, FramebufAppend(n)
    PROVE  ChunkInv'
<1> DEFINE chunk == SubSeq(pending, 1, n)
<1>1. /\ TypeOK' /\ chunk \in Bytes /\ frames' = frames
      /\ received' = received \o chunk /\ data' = data \o chunk
  BY AppendType DEF ChunkInv, FramebufAppend
<1>2. data \in Bytes /\ received \in Bytes
  BY DEF ChunkInv, TypeOK, Bytes, Byte
<1> HIDE DEF chunk
<1>3. ASSUME NEW later \in Bytes PROVE Promise(later)' = Scan(received' \o later)
  <2>1. chunk \o later \in Bytes
    BY <1>1, ConcatElements
  <2>2. frames \o Scan(data \o (chunk \o later)) = Scan(received \o (chunk \o later))
    BY <2>1 DEF ChunkInv, Promise
  <2>3. /\ (data \o chunk) \o later = data \o (chunk \o later)
        /\ (received \o chunk) \o later = received \o (chunk \o later)
    <3>1. /\ data \in Seq(Byte) /\ received \in Seq(Byte)
          /\ chunk \in Seq(Byte) /\ later \in Seq(Byte)
      BY <1>1, <1>2 DEF Bytes
    <3>2. (data \o chunk) \o later = data \o (chunk \o later)
      BY <3>1, ConcatAssociative, SMTT(30)
    <3>3. (received \o chunk) \o later = received \o (chunk \o later)
      BY <3>1, ConcatAssociative
    <3>4. QED BY <3>2, <3>3
  <2>4. QED BY <1>1, <2>2, <2>3 DEF Promise
<1>4. QED BY <1>1, <1>3 DEF ChunkInv

LEMMA ChunkStep == ChunkInv /\ [Next]_vars => ChunkInv'
<1> SUFFICES ASSUME ChunkInv, [Next]_vars PROVE ChunkInv'
  OBVIOUS
<1>1. CASE \E n \in 1..MaxChunk : FramebufAppend(n)
  BY <1>1, AppendChunk
<1>2. CASE \E n \in 1..MaxChunk : FramebufAppendFails(n)
  <2>1. TypeOK'
    BY <1>2, AppendFailsType DEF ChunkInv
  <2>2. UNCHANGED <<frames, data, received>>
    BY <1>2 DEF FramebufAppendFails
  <2>3. QED BY <2>1, <2>2 DEF ChunkInv, Promise
<1>3. CASE FramebufExtract
  <2>1. TypeOK' /\ received' = received
    BY <1>3, PassType, PassDrops DEF ChunkInv
  <2>2. \A later \in Bytes : Promise(later)' = Promise(later)
    BY <1>3, PassScan DEF ChunkInv
  <2>3. QED BY <2>1, <2>2 DEF ChunkInv
<1>4. CASE Handover
  <2>1. TypeOK' /\ data' = <<>> /\ received' = <<>> /\ frames' = <<>>
    BY <1>4, HandoverType DEF ChunkInv, Handover
  <2>2. ASSUME NEW later \in Bytes PROVE <<>> \o Scan(<<>> \o later) = Scan(<<>> \o later)
    <3>1. <<>> \o later \in Bytes
      BY EmptySeq, ConcatProperties DEF Bytes
    <3>2. QED BY <3>1, ScanEquation, ConcatEmptySeq
  <2>3. QED BY <2>1, <2>2 DEF ChunkInv, Promise
<1>5. CASE UNCHANGED vars
  BY <1>5 DEF ChunkInv, TypeOK, Promise, vars
<1>6. QED BY <1>1, <1>2, <1>3, <1>4, <1>5 DEF Next

LEMMA ChunkSuffices == ChunkInv => ChunkingIrrelevant
<1> SUFFICES ASSUME ChunkInv PROVE ChunkingIrrelevant
  OBVIOUS
<1>1. data \in Bytes /\ received \in Bytes /\ <<>> \in Bytes
  BY EmptySeq DEF ChunkInv, TypeOK, Bytes, Byte
<1>2. data \o <<>> = data /\ received \o <<>> = received
  BY <1>1, ConcatEmptySeq DEF Bytes
<1>3. QED BY <1>1, <1>2 DEF ChunkInv, Promise, ChunkingIrrelevant

THEOREM ChunkInvariant == Spec => []ChunkInv
BY InitChunk, ChunkStep, PTL DEF Spec

\* However notifications cut the stream, and whichever allocations fail, the
\* frames handed out so far, followed by the frames still in the buffer, are
\* the frames that one scan finds in all received bytes.
THEOREM CutsDoNotMatter == Spec => []ChunkingIrrelevant
BY ChunkInvariant, ChunkSuffices, PTL

------------------------------------------------------------------------------
(* The reassembler implements FrameStream *)

LEMMA InitRefines == Init => Abstract!StreamInit
BY DEF Init, Abstract!StreamInit

LEMMA AppendRefines ==
    ASSUME TypeOK, NEW n \in 1..MaxChunk, FramebufAppend(n)
    PROVE  Abstract!Arrive
<1> DEFINE chunk == SubSeq(pending, 1, n)
<1>1. /\ chunk \in Bytes /\ frames' = frames /\ Len(chunk) = n
      /\ received' = received \o chunk
  BY AppendType, NotificationType DEF FramebufAppend
<1>2. received \in Bytes
  BY DEF TypeOK, Bytes, Byte
<1> HIDE DEF chunk
<1>3. Len(received') = Len(received) + n /\ Len(received) \in Nat
  BY <1>1, <1>2, ConcatElements
<1>4. SubSeq(received', 1, Len(received)) = received
  <2>1. 1 \in 1..(Len(received) + 1) /\ Len(received) \in 0..Len(received)
    BY <1>3
  <2>2. SubSeq(received \o chunk, 1, Len(received)) = SubSeq(received, 1, Len(received))
    BY <1>1, <1>2, <2>1, PartKept
  <2>3. QED BY <1>1, <1>2, <2>2, SubSeqFull DEF Bytes
<1>5. QED BY <1>1, <1>3, <1>4 DEF Abstract!Arrive

\* The frame a pass hands out is the next one of the stream.
LEMMA FrameRefines ==
    ASSUME TypeOK, ExtractFrame, received' \in Bytes, data' \in Bytes, ChunkingIrrelevant'
    PROVE  Abstract!Emit
<1>1. PICK frame : frames' = Append(frames, frame) /\ received' = received /\ frame \in Frame
  <2>1. PICK bytes \in FromPrefix(data) :
           WholeFrame(bytes) /\ frames' = Append(frames, FrameOf(bytes))
    BY DEF ExtractFrame
  <2>2. bytes \in Bytes
    BY PrefixFound DEF TypeOK, Bytes, Byte
  <2>3. FrameOf(bytes) \in Frame
    BY <2>1, <2>2, FrameType DEF WholeFrame
  <2>4. received' = received
    BY DEF ExtractFrame, Extracting
  <2>5. QED BY <2>1, <2>3, <2>4
<1> DEFINE rest == Scan(data')
<1>2. rest \in Seq(Frame) /\ Scan(received) \in Seq(Frame)
  BY <1>1, ScanEquation
<1>3. Scan(received) = frames' \o rest
  BY <1>1 DEF ChunkingIrrelevant
<1>4. /\ frames \in Seq(Frame) /\ Len(frames) \in Nat
      /\ frames' \in Seq(Frame) /\ Len(frames') = Len(frames) + 1
      /\ frames'[Len(frames) + 1] = frame
  <2>1. frames \in Seq(Frame) /\ Len(frames) \in Nat
    BY LenProperties DEF TypeOK
  <2>2. QED BY <1>1, <2>1, AppendProperties
<1> HIDE DEF rest
<1>5. /\ Len(Scan(received)) = Len(frames') + Len(rest) /\ Len(rest) \in Nat
      /\ \A i \in 1..(Len(frames') + Len(rest)) :
            Scan(received)[i] = IF i <= Len(frames') THEN frames'[i] ELSE rest[i - Len(frames')]
  <2>1. Len(rest) \in Nat
    BY <1>2, LenProperties
  <2>2. /\ Len(frames' \o rest) = Len(frames') + Len(rest)
        /\ \A i \in 1..(Len(frames') + Len(rest)) :
              (frames' \o rest)[i] = IF i <= Len(frames') THEN frames'[i] ELSE rest[i - Len(frames')]
    BY <1>2, <1>4, ConcatProperties
  <2>3. QED BY <1>3, <2>1, <2>2
<1>6. Len(frames) < Len(Scan(received)) /\ Scan(received)[Len(frames) + 1] = frame
  <2>1. /\ Len(frames) + 1 \in 1..(Len(frames') + Len(rest)) /\ Len(frames) + 1 <= Len(frames')
        /\ Len(frames) < Len(Scan(received))
    BY <1>4, <1>5
  <2>2. QED BY <1>4, <1>5, <2>1
<1>7. QED BY <1>1, <1>6 DEF Abstract!Emit

LEMMA StepRefines ==
    ChunkInv /\ ChunkInv' /\ ChunkingIrrelevant' /\ [Next]_vars =>
        [Abstract!Arrive \/ Abstract!Emit \/ Abstract!StartOver]_Abstract!streamVars
<1> SUFFICES ASSUME ChunkInv, ChunkInv', ChunkingIrrelevant', [Next]_vars
             PROVE  \/ Abstract!Arrive \/ Abstract!Emit \/ Abstract!StartOver
                    \/ UNCHANGED Abstract!streamVars
  OBVIOUS
<1>1. CASE \E n \in 1..MaxChunk : FramebufAppend(n)
  BY <1>1, AppendRefines DEF ChunkInv
<1>2. CASE \E n \in 1..MaxChunk : FramebufAppendFails(n)
  BY <1>2 DEF FramebufAppendFails, Abstract!streamVars
<1>3. CASE FramebufExtract
  <2>1. CASE ExtractFrame
    <3>1. data' \in Bytes /\ received' \in Bytes
      BY DEF ChunkInv, TypeOK, Bytes, Byte
    <3>2. QED BY <2>1, <3>1, FrameRefines DEF ChunkInv
  <2>2. CASE ~ExtractFrame
    <3>1. UNCHANGED <<received, frames>>
      BY <1>3, <2>2
      DEF FramebufExtract, ExtractNoPrefix, ExtractIncomplete, ExtractSpurious,
          ExtractScratchFails, Extracting
    <3>2. QED BY <3>1 DEF Abstract!streamVars
  <2>3. QED BY <2>1, <2>2
<1>4. CASE Handover
  BY <1>4 DEF Handover, Abstract!StartOver
<1>5. CASE UNCHANGED vars
  BY <1>5 DEF vars, Abstract!streamVars
<1>6. QED BY <1>1, <1>2, <1>3, <1>4, <1>5 DEF Next

\* Every step of the reassembler is a step of the abstract frame stream: no
\* frame is handed out twice, left out, or taken back, whatever happens to the
\* buffer in between.
THEOREM ReassemblerRefines == Spec => ImplementsFrameStream
<1>1. Spec => [](ChunkInv /\ ChunkingIrrelevant)
  BY ChunkInvariant, CutsDoNotMatter, PTL
<1>2. QED BY <1>1, InitRefines, StepRefines, PTL
      DEF Spec, ImplementsFrameStream, Abstract!StreamSpec

------------------------------------------------------------------------------
(* What a clean stream holds *)

LEMMA LeastIs ==
    ASSUME NEW T \in SUBSET Nat, T # {}
    PROVE  Min(T) \in T /\ \A y \in T : Min(T) <= y
<1>1. \E x \in T : \A y \in T : x <= y
  BY LeastOf
<1> QED BY <1>1 DEF Min

LEMMA BytesAgree == 0..255 = Byte /\ Seq(0..255) = Bytes
BY DEF Bytes, Byte

LEMMA WordRange == \E max \in Nat : UInt16 = 0..max
<1> DEFINE top == 256 * 256 - 1
<1>1. top \in Nat
  OBVIOUS
<1>2. UInt16 = 0..top
  BY DEF UInt16
<1> HIDE DEF top
<1> QED BY <1>1, <1>2

\* The fields of a frame are wide enough for its length and checksum.
FieldsFit(frame) ==
    /\ Len(frame.payload) + 2 <= MaxField /\ MaxField \in UInt16
    /\ Crc16(SubSeq(Wire(frame), 1, Len(frame.payload) + 6)) \in UInt16

\* The parts of a stream, and what is said of its pieces.
LEMMA StreamShape ==
    ASSUME NEW s \in Streams
    PROVE  /\ s.bytes \in Bytes /\ Len(s.bytes) \in Nat
           /\ s.sent \in Seq(Frame) /\ s.at \in Seq(Nat)
           /\ Len(s.sent) \in Nat /\ Len(s.at) = Len(s.sent)
           /\ s.starts \in SUBSET (0..Len(s.bytes))
           /\ 0 \in s.starts /\ Len(s.bytes) \in s.starts
           /\ \A i \in 1..Len(s.sent) :
                 /\ s.sent[i] \in Frame /\ s.at[i] \in s.starts /\ s.at[i] < Len(s.bytes)
                 /\ Piece(s, s.at[i]) = Wire(s.sent[i]) /\ FieldsFit(s.sent[i])
                 /\ \A j \in 1..(i - 1) : s.at[j] < s.at[i]
           /\ \A a \in s.starts : \/ a = Len(s.bytes)
                                  \/ \E i \in 1..Len(s.sent) : s.at[i] = a
                                  \/ /\ \A i \in 1..Len(s.sent) : s.at[i] # a
                                     /\ IsNoise(Piece(s, a))
<1>1. /\ s \in [bytes : Seq(0..255), sent : Seq(Frame), at : Seq(Nat), starts : SUBSET Nat]
      /\ IsClean(s)
  <2>1. s \in Stream
    BY FrameBufAssumption
  <2>2. IsClean(s)
    BY StreamAssumption, Zenon
  <2> QED BY <2>1, <2>2 DEF Stream
<1>2. /\ s.bytes \in Seq(0..255) /\ s.sent \in Seq(Frame) /\ s.at \in Seq(Nat)
  BY <1>1
<1>3. s.bytes \in Bytes /\ Len(s.bytes) \in Nat /\ Len(s.sent) \in Nat /\ Len(s.at) \in Nat
      /\ DOMAIN s.at = 1..Len(s.at) /\ DOMAIN s.sent = 1..Len(s.sent)
  BY <1>2, BytesAgree, LenProperties
<1>4. DOMAIN s.at = DOMAIN s.sent
  BY <1>1 DEF IsClean
<1>5. Len(s.at) = Len(s.sent) /\ DOMAIN s.at = 1..Len(s.sent)
  BY <1>3, <1>4
<1>6. /\ s.starts \in SUBSET (0..Len(s.bytes)) /\ 0 \in s.starts /\ Len(s.bytes) \in s.starts
  BY <1>1 DEF IsClean
<1>7. ASSUME NEW i \in 1..Len(s.sent)
      PROVE  /\ s.sent[i] \in Frame /\ s.at[i] \in s.starts /\ s.at[i] < Len(s.bytes)
             /\ Piece(s, s.at[i]) = Wire(s.sent[i]) /\ FieldsFit(s.sent[i])
             /\ \A j \in 1..(i - 1) : s.at[j] < s.at[i]
  <2>1. i \in DOMAIN s.at
    BY <1>5
  <2>2. /\ s.at[i] \in s.starts /\ s.at[i] < Len(s.bytes)
        /\ Piece(s, s.at[i]) = Wire(s.sent[i])
        /\ \A j \in 1..(i - 1) : s.at[j] < s.at[i]
    BY <1>1, <2>1 DEF IsClean
  <2>3. s.sent[i] \in Frame
    BY <1>2, ElementOfSeq
  <2>4. FieldsFit(s.sent[i])
    <3>1. Len(s.sent[i].payload) + 2 <= MaxField
      BY <1>1, <2>1 DEF IsClean
    <3>2. i \in DOMAIN s.sent
      BY <1>4, <2>1
    <3>3. /\ MaxField \in UInt16
          /\ Crc16(SubSeq(Wire(s.sent[i]), 1, Len(s.sent[i].payload) + 6)) \in UInt16
      BY <3>2, StreamAssumption
    <3> QED BY <3>1, <3>3 DEF FieldsFit
  <2> QED BY <2>2, <2>3, <2>4
<1>8. ASSUME NEW a \in s.starts, a # Len(s.bytes), \A i \in 1..Len(s.sent) : s.at[i] # a
      PROVE  IsNoise(Piece(s, a))
  <2>1. a \notin ToSet(s.at)
    BY <1>5, <1>8 DEF ToSet
  <2>2. a < Len(s.bytes)
    BY <1>3, <1>6, <1>8
  <2> QED BY <1>1, <2>1, <2>2 DEF IsClean
<1> QED BY <1>2, <1>3, <1>5, <1>6, <1>7, <1>8

\* A number of 16 bits is read back from the two bytes written for it.
LEMMA LittleEndian ==
    ASSUME NEW v \in UInt16
    PROVE  /\ WrU16Le(v) \in Seq(Byte) /\ Len(WrU16Le(v)) = 2
           /\ WrU16Le(v)[1] + 256 * WrU16Le(v)[2] = v
<1> DEFINE lo == v % 256
           hi == (v \div 256) % 256
<1>1. lo \in 0..255 /\ hi \in 0..255 /\ lo + 256 * hi = v
  <2>1. v \in Nat /\ v < 65536
    BY SMTT(30) DEF UInt16
  <2> HIDE DEF lo, hi
  <2> QED BY <2>1, TwoBytes DEF lo, hi
<1>2. WrU16Le(v) = <<lo, hi>>
  BY DEF WrU16Le
<1> HIDE DEF lo, hi
<1>3. lo \in Byte /\ hi \in Byte
  BY <1>1 DEF Byte
<1> QED BY <1>1, <1>2, <1>3

\* A frame as it is built is found whole: type, length and checksum are read
\* where they were written.
LEMMA WireFound ==
    ASSUME NEW frame \in Frame, FieldsFit(frame)
    PROVE  /\ Wire(frame) \in Bytes /\ PrefixAt(Wire(frame), 1) /\ WholeFrame(Wire(frame))
           /\ DataEnd(Wire(frame)) = Len(Wire(frame)) /\ FrameOf(Wire(frame)) = frame
<1>p0. PICK wire : wire = Wire(frame)
  OBVIOUS
<1>1. /\ Len(frame.payload) + 2 <= MaxField /\ MaxField \in UInt16
      /\ Crc16(SubSeq(wire, 1, Len(frame.payload) + 6)) \in UInt16
  BY <1>p0 DEF FieldsFit
<1>2. /\ frame.type \in 0..15 /\ frame.payload \in Seq(Byte) /\ Len(frame.payload) \in Nat
      /\ frame = [type |-> frame.type, payload |-> frame.payload]
  <2>1. frame \in [type : 0..15, payload : Seq(0..255)]
    BY DEF Frame
  <2>2. frame.payload \in Seq(Byte)
    BY <2>1, BytesAgree
  <2> QED BY <2>1, <2>2, LenProperties
<1>p1. PICK load : load = frame.payload
  OBVIOUS
<1>p2. PICK start : start = <<90, 90, (16 * frame.type) % 256, 1>>
  OBVIOUS
<1>p3. PICK len : len = WrU16Le(Len(load) + 2)
  OBVIOUS
<1>p4. PICK covered : covered = (start \o len) \o load
  OBVIOUS
<1>p5. PICK check : check = WrU16Le(Crc16(covered))
  OBVIOUS
<1>p6. PICK S : S = Byte \cup {check[1], check[2]}
  OBVIOUS
<1>3. wire = covered \o check
  <2>1. ~(OUTER_OVERHEAD + Len(frame.payload) < OUTER_OVERHEAD + Len(frame.payload))
    BY <1>2 DEF OUTER_OVERHEAD
  <2> QED BY <1>p0, <1>p1, <1>p2, <1>p3, <1>p4, <1>p5, <2>1, ZenonT(40) DEF Wire, OuterBuild
<1>4. /\ start \in Seq(Byte) /\ Len(start) = 4 /\ start[1] = 90 /\ start[2] = 90
      /\ start[3] \div 16 = frame.type
  <2>1. PICK third \in Byte : third = (16 * frame.type) % 256 /\ third \div 16 = frame.type
    <3>1. \A t \in 0..15 : (16 * t) % 256 = 16 * t /\ 16 * t \in 0..255 /\ (16 * t) \div 16 = t
      OBVIOUS
    <3> QED BY <1>2, <3>1 DEF Byte
  <2>2. start = <<90, 90, third, 1>> /\ 90 \in Byte /\ 1 \in Byte
    BY <1>p2, <2>1 DEF Byte
  <2> QED BY <2>1, <2>2
<1>5. len \in Seq(Byte) /\ Len(len) = 2 /\ len[1] + 256 * len[2] = Len(load) + 2
  <2>1. Len(load) + 2 \in UInt16
    <3>1. Len(load) \in Nat /\ Len(load) + 2 <= MaxField /\ MaxField \in UInt16
      BY <1>1, <1>2, <1>p1
    <3>2. PICK max \in Nat : UInt16 = 0..max
      BY WordRange
    <3> QED BY <3>1, <3>2
  <2>2. PICK v : v = Len(load) + 2
    OBVIOUS
  <2>3. v \in UInt16 /\ len = WrU16Le(v)
    BY <1>p3, <2>1, <2>2
  <2> QED BY <2>2, <2>3, LittleEndian
<1>6. start \in Seq(S) /\ len \in Seq(S) /\ load \in Seq(S) /\ check \in Seq(S) /\ Len(check) = 2
  <2>1. Byte \subseteq S
    BY <1>p6
  <2>2. start \in Seq(S) /\ len \in Seq(S) /\ load \in Seq(S)
    BY <1>2, <1>4, <1>5, <1>p1, <2>1, SeqMonotonic
  <2>3. PICK lo \in S, hi \in S : check = <<lo, hi>>
    <3>1. check[1] \in S /\ check[2] \in S /\ check = <<check[1], check[2]>>
      BY <1>p5, <1>p6 DEF WrU16Le
    <3> QED BY <3>1
  <2>4. check \in Seq(S) /\ Len(check) = 2
    BY <2>3
  <2> QED BY <2>2, <2>4
<1>7. /\ wire \in Seq(S) /\ Len(start) \in Nat /\ Len(len) \in Nat /\ Len(load) \in Nat
      /\ Len(check) \in Nat /\ Len(wire) = Len(covered) + Len(check)
      /\ Len(covered) = (Len(start) + Len(len)) + Len(load)
      /\ \A j \in 1..Len(start) : wire[j] = start[j]
      /\ \A j \in 1..Len(len) : wire[Len(start) + j] = len[j]
      /\ \A j \in 1..Len(check) : wire[Len(covered) + j] = check[j]
      /\ SubSeq(wire, 1, Len(covered)) = covered
      /\ SubSeq(wire, (Len(start) + Len(len)) + 1, Len(covered)) = load
  <2>1. start \in Seq(S) /\ len \in Seq(S) /\ load \in Seq(S) /\ check \in Seq(S)
    BY <1>6
  <2>2. /\ wire \in Seq(S) /\ Len(start) \in Nat /\ Len(len) \in Nat /\ Len(load) \in Nat
        /\ Len(check) \in Nat /\ Len(wire) = Len(covered) + Len(check)
        /\ Len(covered) = (Len(start) + Len(len)) + Len(load)
    BY <1>3, <1>p4, <2>1, FourJoined
  <2>3. /\ \A j \in 1..Len(start) : wire[j] = start[j]
        /\ \A j \in 1..Len(len) : wire[Len(start) + j] = len[j]
        /\ \A j \in 1..Len(check) : wire[Len(covered) + j] = check[j]
    BY <1>3, <1>p4, <2>1, FourJoined
  <2>4. /\ SubSeq(wire, 1, Len(covered)) = covered
        /\ SubSeq(wire, (Len(start) + Len(len)) + 1, Len(covered)) = load
    BY <1>3, <1>p4, <2>1, FourJoined
  <2> QED BY <2>2, <2>3, <2>4
<1>8. /\ Len(covered) = 6 + Len(load) /\ Len(wire) = 8 + Len(load)
      /\ Len(start) + Len(len) = 6
  BY <1>4, <1>5, <1>6, <1>7
<1>9. /\ check \in Seq(Byte) /\ check[1] + 256 * check[2] = Crc16(covered)
  <2>1. Crc16(covered) \in UInt16
    <3>1. Len(frame.payload) + 6 = Len(covered)
      BY <1>2, <1>8, <1>p1
    <3>2. SubSeq(wire, 1, Len(frame.payload) + 6) = covered
      BY <1>7, <3>1
    <3>3. Crc16(SubSeq(wire, 1, Len(frame.payload) + 6)) \in UInt16
      BY <1>1
    <3> QED BY <3>2, <3>3, Zenon
  <2>2. PICK v : v = Crc16(covered)
    OBVIOUS
  <2>3. v \in UInt16 /\ check = WrU16Le(v)
    BY <1>p5, <2>1, <2>2
  <2> QED BY <2>2, <2>3, LittleEndian
<1>10. wire \in Bytes
  <2>1. check[1] \in Byte /\ check[2] \in Byte
    <3>1. 1 \in 1..Len(check) /\ 2 \in 1..Len(check)
      BY <1>6
    <3> QED BY <1>9, <3>1, ElementOfSeq
  <2>2. S = Byte
    BY <1>p6, <2>1
  <2> QED BY <1>7, <2>2 DEF Bytes
<1>11. /\ wire[1] = 90 /\ wire[2] = 90 /\ wire[3] = start[3]
       /\ wire[5] = len[1] /\ wire[6] = len[2]
  <2>1. 1 \in 1..Len(start) /\ 2 \in 1..Len(start) /\ 3 \in 1..Len(start)
        /\ 1 \in 1..Len(len) /\ 2 \in 1..Len(len) /\ Len(start) + 1 = 5 /\ Len(start) + 2 = 6
    BY <1>4, <1>5
  <2>2. wire[1] = start[1] /\ wire[2] = start[2] /\ wire[3] = start[3]
    BY <1>7, <2>1
  <2>3. wire[Len(start) + 1] = len[1] /\ wire[Len(start) + 2] = len[2]
    BY <1>7, <2>1
  <2> QED BY <1>4, <2>1, <2>2, <2>3
<1>12. Field(wire) = Len(load) + 2 /\ DataEnd(wire) = Len(wire)
  <2>1. Field(wire) = wire[5] + 256 * wire[6]
    BY DEF Field, RdU16Le
  <2>2. Field(wire) = Len(load) + 2
    BY <1>5, <1>11, <2>1
  <2> QED BY <1>7, <1>8, <2>2 DEF DataEnd
<1>13. PrefixAt(wire, 1)
  BY <1>7, <1>8, <1>11 DEF PrefixAt
<1>14. Complete(wire)
  <2>1. Field(wire) >= 2 /\ Field(wire) <= MaxField /\ Len(wire) >= 6 /\ DataEnd(wire) <= Len(wire)
    <3>1. Len(load) + 2 <= MaxField
      BY <1>1, <1>p1
    <3> QED BY <1>7, <1>8, <1>12, <3>1
  <2> QED BY <2>1 DEF Complete, HeaderComplete, Plausible
<1>15. CrcMatches(wire)
  <2>1. /\ DataEnd(wire) - 2 = Len(covered) /\ DataEnd(wire) - 1 = Len(covered) + 1
        /\ (DataEnd(wire) - 1) + 1 = Len(covered) + 2
        /\ 1 \in 1..Len(check) /\ 2 \in 1..Len(check)
    BY <1>6, <1>7, <1>8, <1>12
  <2>2. wire[Len(covered) + 1] = check[1] /\ wire[Len(covered) + 2] = check[2]
    BY <1>7, <2>1
  <2>3. RdU16Le(wire, DataEnd(wire) - 1) = Crc16(covered)
    BY <1>9, <2>1, <2>2 DEF RdU16Le
  <2> QED BY <1>7, <2>1, <2>3 DEF CrcMatches
<1>16. FrameOf(wire) = frame
  <2>1. DataEnd(wire) - 2 = Len(covered) /\ (Len(start) + Len(len)) + 1 = 7
    <3>1. (6 + Len(load)) + 2 - 2 = 6 + Len(load) /\ Len(load) \in Nat
      BY <1>7
    <3> QED BY <1>8, <1>12, <3>1
  <2>2. SubSeq(wire, 7, DataEnd(wire) - 2) = load
    BY <1>7, <2>1
  <2>3. wire[3] \div 16 = frame.type
    BY <1>4, <1>11
  <2> QED BY <1>2, <1>p1, <2>2, <2>3 DEF FrameOf
<1> QED BY <1>10, <1>12, <1>13, <1>14, <1>15, <1>16, <1>p0 DEF WholeFrame

LEMMA SplitAt ==
    ASSUME NEW S, NEW s \in Seq(S), NEW a \in 0..Len(s), NEW b \in a..Len(s)
    PROVE  /\ SubSeq(s, a + 1, b) \in Seq(S) /\ Drop(s, b) \in Seq(S)
           /\ Drop(s, a) = SubSeq(s, a + 1, b) \o Drop(s, b)
<1>1. Len(s) \in Nat
  BY LenProperties
<1>2. PICK part : part = SubSeq(s, a + 1, b)
  OBVIOUS
<1>3. part \in Seq(S) /\ Len(part) = b - a /\ \A i \in 1..(b - a) : part[i] = s[a + i]
  <2>1. a + 1 \in 1..(Len(s) + 1) /\ b \in ((a + 1) - 1)..Len(s) /\ b - (a + 1) + 1 = b - a
    BY <1>1
  <2>2. /\ part \in Seq(S) /\ Len(part) = b - a
        /\ \A i \in 1..(b - a) : part[i] = s[(a + 1) + i - 1]
    BY <1>2, <2>1, PartOf
  <2>3. \A i \in 1..(b - a) : (a + 1) + i - 1 = a + i
    BY <1>1
  <2> QED BY <2>2, <2>3
<1>4. PICK rest : rest = Drop(s, b)
  OBVIOUS
<1>5. rest \in Seq(S) /\ Len(rest) = Len(s) - b /\ \A i \in 1..(Len(s) - b) : rest[i] = s[b + i]
  <2>1. b \in 0..Len(s)
    BY <1>1
  <2> QED BY <1>4, <2>1, DropElements
<1>6. PICK all : all = Drop(s, a)
  OBVIOUS
<1>7. all \in Seq(S) /\ Len(all) = Len(s) - a /\ \A i \in 1..(Len(s) - a) : all[i] = s[a + i]
  BY <1>6, DropElements
<1>8. PICK both : both = part \o rest
  OBVIOUS
<1>9. /\ both \in Seq(S) /\ Len(both) = Len(part) + Len(rest)
      /\ \A i \in 1..Len(part) : both[i] = part[i]
      /\ \A i \in 1..Len(rest) : both[Len(part) + i] = rest[i]
  <2>1. part \in Seq(S) /\ rest \in Seq(S)
    BY <1>3, <1>5
  <2> QED BY <1>8, <2>1, Joined
<1>10. ASSUME NEW i \in 1..(Len(s) - a) PROVE all[i] = both[i]
  <2>1. CASE i <= b - a
    <3>1. i \in 1..(b - a) /\ i \in 1..Len(part)
      BY <1>1, <1>3, <2>1
    <3> QED BY <1>3, <1>7, <1>9, <3>1
  <2>2. CASE ~(i <= b - a)
    <3>1. PICK j : j = i - (b - a)
      OBVIOUS
    <3>2. j \in 1..(Len(s) - b) /\ b + j = a + i /\ Len(part) + j = i /\ j \in 1..Len(rest)
      BY <1>1, <1>3, <1>5, <2>2, <3>1, SMTT(30)
    <3>3. rest[j] = s[b + j] /\ both[Len(part) + j] = rest[j]
      BY <1>5, <1>9, <3>2
    <3>4. both[i] = s[a + i]
      BY <3>2, <3>3
    <3> QED BY <1>7, <3>4
  <2> QED BY <2>1, <2>2
<1>11. Len(all) = Len(both) /\ \A i \in 1..Len(all) : all[i] = both[i]
  BY <1>1, <1>3, <1>5, <1>7, <1>9, <1>10
<1>12. all = both
  BY <1>7, <1>9, <1>11, SeqEqual
<1> QED BY <1>2, <1>3, <1>4, <1>5, <1>6, <1>8, <1>12

\* The stream from a start on is a piece, then the stream from the next start on.
LEMMA NextPiece ==
    ASSUME NEW s \in Streams, NEW a \in s.starts, a # Len(s.bytes)
    PROVE  /\ NextStart(s, a) \in s.starts /\ a < NextStart(s, a)
           /\ \A c \in s.starts : c <= a \/ NextStart(s, a) <= c
           /\ Piece(s, a) \in Bytes /\ Drop(s.bytes, NextStart(s, a)) \in Bytes
           /\ Drop(s.bytes, a) = Piece(s, a) \o Drop(s.bytes, NextStart(s, a))
<1>1. /\ s.bytes \in Bytes /\ Len(s.bytes) \in Nat
      /\ s.starts \in SUBSET (0..Len(s.bytes)) /\ Len(s.bytes) \in s.starts
  BY StreamShape
<1>2. PICK T : T = {b \in s.starts : b > a}
  OBVIOUS
<1>3. T \in SUBSET Nat /\ T # {}
  <2>1. Len(s.bytes) \in T
    BY <1>1, <1>2
  <2> QED BY <1>1, <1>2, <2>1
<1>4. PICK b : b = NextStart(s, a)
  OBVIOUS
<1>5. b \in T /\ \A y \in T : b <= y
  BY <1>2, <1>3, <1>4, LeastIs DEF NextStart
<1>6. b \in s.starts /\ a < b /\ a \in 0..Len(s.bytes) /\ b \in a..Len(s.bytes)
  BY <1>1, <1>2, <1>5
<1>7. \A c \in s.starts : c <= a \/ b <= c
  BY <1>1, <1>2, <1>5
<1>8. /\ SubSeq(s.bytes, a + 1, b) \in Bytes /\ Drop(s.bytes, b) \in Bytes
      /\ Drop(s.bytes, a) = SubSeq(s.bytes, a + 1, b) \o Drop(s.bytes, b)
  BY <1>1, <1>6, SplitAt DEF Bytes
<1> QED BY <1>4, <1>6, <1>7, <1>8 DEF Piece

------------------------------------------------------------------------------
(* A scan of what comes next *)

\* Both parts of a byte string, the second as what is left without the first.
LEMMA RestIs ==
    ASSUME NEW p \in Bytes, NEW t \in Bytes, NEW all, all = p \o t
    PROVE  /\ all \in Bytes /\ Len(p) \in 0..Len(all) /\ Drop(all, Len(p)) = t
           /\ \A i \in 1..Len(p) : all[i] = p[i]
<1>1. /\ all \in Bytes /\ Len(p) \in Nat /\ Len(t) \in Nat /\ Len(all) = Len(p) + Len(t)
      /\ \A i \in 1..Len(p) : all[i] = p[i]
      /\ SubSeq(all, Len(p) + 1, Len(all)) = t
  BY Joined DEF Bytes
<1> QED BY <1>1 DEF Drop

\* Bytes among which there is no 0x5A are skipped,
LEMMA QuietSkipped ==
    ASSUME NEW p \in Bytes, NEW t \in Bytes, 90 \notin ToSet(p)
    PROVE  Scan(p \o t) = Scan(t)
<1>1. PICK all : all = p \o t
  OBVIOUS
<1>2. /\ all \in Bytes /\ Len(p) \in 0..Len(all) /\ Drop(all, Len(p)) = t
      /\ \A i \in 1..Len(p) : all[i] = p[i]
  BY <1>1, RestIs, ZenonT(40)
<1>3. \A j \in 1..Len(p) : ~PrefixAt(all, j)
  <2>1. \A j \in 1..Len(p) : p[j] # 90
    BY LenProperties DEF ToSet, Bytes
  <2> QED BY <1>2, <2>1 DEF PrefixAt
<1>4. Scan(all) = Scan(Drop(all, Len(p)))
  BY <1>2, <1>3, ScanSkips
<1> QED BY <1>1, <1>2, <1>4

\* ... noise is,
LEMMA NoiseSkipped ==
    ASSUME NEW p \in Bytes, NEW t \in Bytes, IsNoise(p)
    PROVE  Scan(p \o t) = Scan(t)
<1>1. CASE 90 \notin ToSet(p)
  BY <1>1, QuietSkipped
<1>2. CASE FalseHeader(p) /\ 90 \notin ToSet(Drop(p, 2))
  <2>1. PrefixAt(p, 1) /\ Spurious(p) /\ 2 \in 0..Len(p)
    <3>1. PrefixAt(p, 1) /\ HeaderComplete(p) /\ Len(p) \in Nat
      BY <1>2, LenProperties DEF FalseHeader, Bytes
    <3>2. Field(p) \in Nat /\ Len(p) >= 6
      BY <3>1, FieldType DEF HeaderComplete
    <3>3. CASE Plausible(p)
      <4>1. Field(p) \in 2..MaxField
        BY <3>2, <3>3, FrameBufAssumption DEF Plausible
      <4>2. DataEnd(p) <= Len(p) /\ ~CrcMatches(p)
        BY <1>2, <4>1 DEF FalseHeader
      <4>3. Spurious(p)
        BY <3>1, <3>3, <4>2 DEF Spurious, Complete
      <4> QED BY <3>1, <3>2, <4>3
    <3>4. CASE ~Plausible(p)
      BY <3>1, <3>2, <3>4 DEF Spurious
    <3> QED BY <3>3, <3>4
  <2>2. PICK all : all = p \o t
    OBVIOUS
  <2>3. all \in Bytes /\ PrefixAt(all, 1) /\ Spurious(all)
    BY <2>1, <2>2, RestIs, VerdictKept
  <2>4. Scan(all) = Scan(Drop(all, 2))
    BY <2>3, ScanEquation
  <2>5. Drop(p, 2) \in Bytes /\ Drop(all, 2) = Drop(p, 2) \o t
    BY <2>1, <2>2, DropConcat, DropElements DEF Bytes
  <2>6. Scan(Drop(p, 2) \o t) = Scan(t)
    BY <1>2, <2>5, QuietSkipped
  <2> QED BY <2>2, <2>4, <2>5, <2>6
<1> QED BY <1>1, <1>2 DEF IsNoise

\* ... and a frame is read.
LEMMA FrameRead ==
    ASSUME NEW frame \in Frame, FieldsFit(frame), NEW t \in Bytes
    PROVE  Scan(Wire(frame) \o t) = <<frame>> \o Scan(t)
<1>1. PICK wire : wire = Wire(frame)
  OBVIOUS
<1>2. /\ wire \in Bytes /\ PrefixAt(wire, 1) /\ WholeFrame(wire)
      /\ DataEnd(wire) = Len(wire) /\ FrameOf(wire) = frame
  BY <1>1, WireFound
<1>3. PICK all : all = wire \o t
  OBVIOUS
<1>4. all \in Bytes /\ Drop(all, Len(wire)) = t
  BY <1>2, <1>3, RestIs
<1>5. PrefixAt(all, 1) /\ WholeFrame(all) /\ FrameOf(all) = frame /\ DataEnd(all) = Len(wire)
  BY <1>2, <1>3, VerdictKept
<1>6. Scan(all) = <<FrameOf(all)>> \o Scan(Drop(all, DataEnd(all)))
  BY <1>4, <1>5, ScanEquation
<1> QED BY <1>1, <1>3, <1>4, <1>5, <1>6

------------------------------------------------------------------------------
(* A scan that starts where a piece does *)

\* The frames that begin before an offset.
Before(s, a) == {i \in DOMAIN s.at : s.at[i] < a}

LEMMA FirstSent ==
    ASSUME NEW S, NEW sent \in Seq(S), NEW i \in 1..Len(sent)
    PROVE  SubSeq(sent, i, Len(sent)) = <<sent[i]>> \o SubSeq(sent, i + 1, Len(sent))
<1>1. Len(sent) \in Nat /\ sent[i] \in S
  BY LenProperties, ElementOfSeq
<1>2. i - 1 \in 0..Len(sent) /\ i \in (i - 1)..Len(sent) /\ (i - 1) + 1 = i
  BY <1>1
<1>3. Drop(sent, i - 1) = SubSeq(sent, (i - 1) + 1, i) \o Drop(sent, i)
  BY <1>2, SplitAt
<1>4. PICK one : one = SubSeq(sent, i, i)
  OBVIOUS
<1>5. one \in Seq(S) /\ Len(one) = 1 /\ one[1] = sent[i]
  <2>1. i \in 1..(Len(sent) + 1) /\ i \in (i - 1)..Len(sent) /\ i - i + 1 = 1 /\ i + 1 - 1 = i
    BY <1>1
  <2>2. one \in Seq(S) /\ Len(one) = 1 /\ \A j \in 1..1 : one[j] = sent[i + j - 1]
    BY <1>4, <2>1, PartOf
  <2>3. 1 \in 1..1
    OBVIOUS
  <2>4. one[1] = sent[i + 1 - 1]
    BY <2>2, <2>3
  <2> QED BY <2>1, <2>2, <2>4
<1>6. one = <<sent[i]>>
  BY <1>1, <1>5, SeqEqual
<1> QED BY <1>2, <1>3, <1>4, <1>6 DEF Drop

\* Behind the last piece there is nothing, and all frames began before it.
LEMMA ScanAtEnd ==
    ASSUME NEW s \in Streams
    PROVE  Scan(Drop(s.bytes, Len(s.bytes))) = SentFrom(s, Len(s.bytes))
<1>1. /\ s.bytes \in Bytes /\ Len(s.bytes) \in Nat /\ s.sent \in Seq(Frame)
      /\ s.at \in Seq(Nat) /\ Len(s.sent) \in Nat /\ Len(s.at) = Len(s.sent)
      /\ \A i \in 1..Len(s.sent) : s.at[i] < Len(s.bytes)
  BY StreamShape
<1>2. Drop(s.bytes, Len(s.bytes)) = <<>>
  <2>1. Len(s.bytes) \in 0..Len(s.bytes)
    BY <1>1
  <2>2. /\ Drop(s.bytes, Len(s.bytes)) \in Seq(Byte)
        /\ Len(Drop(s.bytes, Len(s.bytes))) = Len(s.bytes) - Len(s.bytes)
    BY <1>1, <2>1, DropElements DEF Bytes
  <2> QED BY <1>1, <2>2, EmptySeq
<1>3. Scan(<<>>) = <<>>
  <2>1. <<>> \in Bytes
    BY EmptySeq DEF Bytes
  <2> QED BY <2>1, ScanEquation
<1>4. Before(s, Len(s.bytes)) = 1..Len(s.sent)
  <2>1. DOMAIN s.at = 1..Len(s.sent)
    BY <1>1, LenProperties
  <2> QED BY <1>1, <2>1 DEF Before
<1>5. Cardinality(1..Len(s.sent)) = Len(s.sent)
  BY <1>1, FS_Interval
<1>6. SentFrom(s, Len(s.bytes)) = SubSeq(s.sent, 1 + Len(s.sent), Len(s.sent))
  BY <1>4, <1>5 DEF SentFrom, Before
<1>7. SubSeq(s.sent, 1 + Len(s.sent), Len(s.sent)) = <<>>
  <2>1. /\ 1 + Len(s.sent) \in 1..(Len(s.sent) + 1)
        /\ Len(s.sent) \in ((1 + Len(s.sent)) - 1)..Len(s.sent)
        /\ Len(s.sent) - (1 + Len(s.sent)) + 1 = 0
    BY <1>1
  <2>2. /\ SubSeq(s.sent, 1 + Len(s.sent), Len(s.sent)) \in Seq(Frame)
        /\ Len(SubSeq(s.sent, 1 + Len(s.sent), Len(s.sent))) = 0
    BY <1>1, <2>1, PartOf
  <2> QED BY <2>2, EmptySeq
<1> QED BY <1>2, <1>3, <1>6, <1>7

\* From one start to the next: a frame comes first of those that follow, noise
\* adds nothing.
LEMMA ScanPiece ==
    ASSUME NEW s \in Streams, NEW a \in s.starts, a # Len(s.bytes),
           Scan(Drop(s.bytes, NextStart(s, a))) = SentFrom(s, NextStart(s, a))
    PROVE  Scan(Drop(s.bytes, a)) = SentFrom(s, a)
<1>1. /\ s.sent \in Seq(Frame) /\ s.at \in Seq(Nat)
      /\ Len(s.sent) \in Nat /\ Len(s.at) = Len(s.sent)
      /\ s.starts \in SUBSET (0..Len(s.bytes))
      /\ \A i \in 1..Len(s.sent) :
            /\ s.sent[i] \in Frame /\ s.at[i] \in s.starts
            /\ Piece(s, s.at[i]) = Wire(s.sent[i]) /\ FieldsFit(s.sent[i])
            /\ \A j \in 1..(i - 1) : s.at[j] < s.at[i]
  BY StreamShape
<1>2. /\ \/ \E i \in 1..Len(s.sent) : s.at[i] = a
         \/ (\A i \in 1..Len(s.sent) : s.at[i] # a) /\ IsNoise(Piece(s, a))
  BY StreamShape
<1>3. PICK b : b = NextStart(s, a)
  OBVIOUS
<1>4. PICK rest : rest = Drop(s.bytes, b)
  OBVIOUS
<1>5. PICK piece : piece = Piece(s, a)
  OBVIOUS
<1>6. /\ b \in s.starts /\ a < b /\ \A c \in s.starts : c <= a \/ b <= c
      /\ piece \in Bytes /\ rest \in Bytes /\ Drop(s.bytes, a) = piece \o rest
  BY <1>3, <1>4, <1>5, NextPiece
<1>7. a \in Nat /\ b \in Nat /\ DOMAIN s.at = 1..Len(s.sent)
      /\ \A i \in 1..Len(s.sent) : s.at[i] \in Nat
  <2>1. \A i \in 1..Len(s.sent) : s.at[i] \in Nat
    BY <1>1, ElementOfSeq
  <2>2. DOMAIN s.at = 1..Len(s.sent)
    BY <1>1, LenProperties
  <2>3. a \in Nat /\ b \in Nat
    BY <1>1, <1>6
  <2> QED BY <2>1, <2>2, <2>3
<1>8. CASE \E i \in 1..Len(s.sent) : s.at[i] = a
  <2>1. PICK i \in 1..Len(s.sent) : s.at[i] = a
    BY <1>8
  <2>2. Before(s, a) = 1..(i - 1) /\ Before(s, b) = 1..i
    <3>1. ASSUME NEW j \in 1..Len(s.sent)
          PROVE  /\ s.at[j] < a <=> j \in 1..(i - 1)
                 /\ s.at[j] < b <=> j \in 1..i
      <4>1. CASE j < i
        <5>1. j \in 1..(i - 1)
          BY <1>1, <4>1
        <5>2. s.at[j] < s.at[i]
          BY <1>1, <5>1
        <5> QED BY <1>1, <1>6, <1>7, <2>1, <4>1, <5>1, <5>2
      <4>2. CASE j = i
        BY <1>1, <1>6, <1>7, <2>1, <4>2
      <4>3. CASE j > i
        <5>1. i \in 1..(j - 1)
          BY <1>1, <4>3
        <5>2. s.at[i] < s.at[j] /\ s.at[j] \in s.starts
          BY <1>1, <5>1
        <5>3. b <= s.at[j]
          BY <1>6, <1>7, <2>1, <5>2
        <5> QED BY <1>1, <1>6, <1>7, <2>1, <4>3, <5>2, <5>3, SMTT(30)
      <4> QED BY <1>1, <4>1, <4>2, <4>3
    <3>2. \A j \in 1..i : j \in 1..Len(s.sent)
      BY <1>1
    <3>3. \A j \in 1..(i - 1) : j \in 1..Len(s.sent)
      BY <1>1
    <3> QED BY <1>7, <3>1, <3>2, <3>3 DEF Before
  <2>3. Cardinality(1..(i - 1)) = i - 1 /\ Cardinality(1..i) = i
    <3>1. i - 1 \in Int /\ i \in Int /\ 1 \in Int /\ i >= 1
      BY <1>1
    <3>2. Cardinality(1..(i - 1)) = IF 1 > i - 1 THEN 0 ELSE (i - 1) - 1 + 1
      BY <3>1, FS_Interval
    <3>3. Cardinality(1..i) = IF 1 > i THEN 0 ELSE i - 1 + 1
      BY <3>1, FS_Interval
    <3> QED BY <3>1, <3>2, <3>3
  <2>4. SentFrom(s, a) = SubSeq(s.sent, i, Len(s.sent))
    <3>1. 1 + (i - 1) = i
      BY <1>1
    <3> QED BY <2>2, <2>3, <3>1 DEF SentFrom, Before
  <2>5. SentFrom(s, b) = SubSeq(s.sent, i + 1, Len(s.sent))
    <3>1. 1 + i = i + 1
      BY <1>1
    <3> QED BY <2>2, <2>3, <3>1 DEF SentFrom, Before
  <2>6. SentFrom(s, a) = <<s.sent[i]>> \o SentFrom(s, b)
    BY <1>1, <2>4, <2>5, FirstSent
  <2>7. Scan(piece \o rest) = <<s.sent[i]>> \o Scan(rest)
    <3>1. PICK frame : frame = s.sent[i]
      OBVIOUS
    <3>2. frame \in Frame /\ FieldsFit(frame) /\ piece = Wire(frame)
      BY <1>1, <1>5, <2>1, <3>1
    <3>3. Scan(Wire(frame) \o rest) = <<frame>> \o Scan(rest)
      BY <1>6, <3>2, FrameRead
    <3> QED BY <3>1, <3>2, <3>3
  <2> QED BY <1>3, <1>4, <1>6, <2>6, <2>7
<1>9. CASE (\A i \in 1..Len(s.sent) : s.at[i] # a) /\ IsNoise(Piece(s, a))
  <2>1. Before(s, a) = Before(s, b)
    <3>1. ASSUME NEW i \in 1..Len(s.sent) PROVE s.at[i] < a <=> s.at[i] < b
      <4>1. s.at[i] # a /\ s.at[i] \in s.starts
        BY <1>1, <1>9
      <4>2. s.at[i] <= a \/ b <= s.at[i]
        BY <1>6, <4>1
      <4> QED BY <1>6, <1>7, <4>1, <4>2
    <3> QED BY <1>7, <3>1 DEF Before
  <2>2. SentFrom(s, a) = SentFrom(s, b)
    BY <2>1 DEF SentFrom, Before
  <2>3. Scan(piece \o rest) = Scan(rest)
    BY <1>5, <1>6, <1>9, NoiseSkipped
  <2> QED BY <1>3, <1>4, <1>6, <2>2, <2>3
<1> QED BY <1>2, <1>8, <1>9

\* By induction from the end of the stream.
LEMMA ScanFromStart ==
    ASSUME NEW s \in Streams, NEW a \in s.starts
    PROVE  Scan(Drop(s.bytes, a)) = SentFrom(s, a)
<1> DEFINE Good(c) == Scan(Drop(s.bytes, c)) = SentFrom(s, c)
           Bad == {n \in 0..Len(s.bytes) : /\ Len(s.bytes) - n \in s.starts
                                           /\ ~Good(Len(s.bytes) - n)}
<1>1. Len(s.bytes) \in Nat /\ s.starts \in SUBSET (0..Len(s.bytes))
  BY StreamShape
<1>2. Bad = {}
  <2> SUFFICES ASSUME Bad # {} PROVE FALSE
    OBVIOUS
  <2>1. PICK n \in Bad : \A m \in Bad : n <= m
    <3>1. Bad \in SUBSET Nat
      BY <1>1
    <3> HIDE DEF Bad
    <3> QED BY <3>1, LeastOf
  <2>2. PICK c : c = Len(s.bytes) - n
    OBVIOUS
  <2>3. n \in 0..Len(s.bytes) /\ c \in s.starts /\ ~Good(c)
    BY <2>2
  <2>4. c # Len(s.bytes)
    BY <2>3, ScanAtEnd
  <2>5. PICK b : b = NextStart(s, c)
    OBVIOUS
  <2>6. b \in s.starts /\ c < b
    BY <2>3, <2>4, <2>5, NextPiece
  <2>7. ~Good(b)
    <3> SUFFICES ASSUME Good(b) PROVE FALSE
      OBVIOUS
    <3>1. Scan(Drop(s.bytes, NextStart(s, c))) = SentFrom(s, NextStart(s, c))
      BY <2>5
    <3>2. Good(c)
      BY <2>3, <2>4, <3>1, ScanPiece
    <3> QED BY <2>3, <3>2
  <2> HIDE DEF Good
  <2>8. PICK m : m = Len(s.bytes) - b
    OBVIOUS
  <2>9. m \in 0..Len(s.bytes) /\ Len(s.bytes) - m = b /\ m < n
    <3>1. b \in 0..Len(s.bytes) /\ n \in 0..Len(s.bytes) /\ Len(s.bytes) \in Nat
      BY <1>1, <2>3, <2>6
    <3>2. Len(s.bytes) - n < b
      BY <2>2, <2>6
    <3> QED BY <2>8, <3>1, <3>2
  <2>10. m \in Bad
    BY <2>6, <2>7, <2>9
  <2> HIDE DEF Bad
  <2>11. n <= m
    BY <2>1, <2>10
  <2> QED BY <2>3, <2>9, <2>11
<1>3. Len(s.bytes) - a \in 0..Len(s.bytes) /\ Len(s.bytes) - (Len(s.bytes) - a) = a
  BY <1>1
<1>4. Good(a)
  <2> HIDE DEF Good
  <2> QED BY <1>2, <1>3
<1> QED BY <1>4

\* The handover may cut a piece: what is left of it is skipped if it holds no 0x5A.
LEMMA ScanFromCut ==
    ASSUME NEW s \in Streams, NEW c \in 0..Len(s.bytes),
           90 \notin ToSet(SubSeq(s.bytes, c + 1, Min({a \in s.starts : a >= c})))
    PROVE  Scan(Drop(s.bytes, c)) = SentFrom(s, c)
<1>1. /\ s.bytes \in Bytes /\ Len(s.bytes) \in Nat
      /\ s.starts \in SUBSET (0..Len(s.bytes)) /\ Len(s.bytes) \in s.starts
      /\ s.at \in Seq(Nat) /\ Len(s.sent) \in Nat /\ Len(s.at) = Len(s.sent)
      /\ \A i \in 1..Len(s.sent) : s.at[i] \in s.starts
  BY StreamShape
<1>2. PICK T : T = {a \in s.starts : a >= c}
  OBVIOUS
<1>3. PICK b : b = Min(T)
  OBVIOUS
<1>4. b \in T /\ \A y \in T : b <= y
  <2>1. T \in SUBSET Nat /\ T # {}
    <3>1. Len(s.bytes) \in T
      BY <1>1, <1>2
    <3> QED BY <1>1, <1>2, <3>1
  <2> QED BY <1>3, <2>1, LeastIs
<1>5. /\ b \in s.starts /\ c <= b /\ b \in c..Len(s.bytes)
      /\ \A a \in s.starts : a < c \/ b <= a
  BY <1>1, <1>2, <1>4
<1>6. PICK tail : tail = SubSeq(s.bytes, c + 1, b)
  OBVIOUS
<1>7. PICK rest : rest = Drop(s.bytes, b)
  OBVIOUS
<1>8. tail \in Bytes /\ rest \in Bytes /\ Drop(s.bytes, c) = tail \o rest
  <2>1. s.bytes \in Seq(Byte) /\ b \in c..Len(s.bytes)
    BY <1>1, <1>5 DEF Bytes
  <2>2. /\ SubSeq(s.bytes, c + 1, b) \in Seq(Byte) /\ Drop(s.bytes, b) \in Seq(Byte)
        /\ Drop(s.bytes, c) = SubSeq(s.bytes, c + 1, b) \o Drop(s.bytes, b)
    BY <2>1, SplitAt
  <2> QED BY <1>6, <1>7, <2>2 DEF Bytes
<1>9. 90 \notin ToSet(tail)
  BY <1>2, <1>3, <1>6
<1>10. Scan(tail \o rest) = Scan(rest)
  BY <1>8, <1>9, QuietSkipped
<1>11. Scan(rest) = SentFrom(s, b)
  BY <1>5, <1>7, ScanFromStart
<1>12. Before(s, b) = Before(s, c)
  <2>1. ASSUME NEW i \in 1..Len(s.sent) PROVE s.at[i] < b <=> s.at[i] < c
    <3>1. s.at[i] \in s.starts /\ s.at[i] \in Nat /\ b \in Nat /\ c \in Nat
      BY <1>1, <1>5
    <3> QED BY <1>5, <3>1
  <2>2. DOMAIN s.at = 1..Len(s.sent)
    BY <1>1, LenProperties
  <2> QED BY <2>1, <2>2 DEF Before
<1>13. SentFrom(s, b) = SentFrom(s, c)
  BY <1>12 DEF SentFrom, Before
<1> QED BY <1>8, <1>10, <1>11, <1>13

------------------------------------------------------------------------------
(* What has been delivered, and what is still to come *)

\* Unless an append failed, what this reassembler got and what is still under
\* way are the stream behind the cut; while the caller waits the buffer holds
\* no frame, unless a scratch allocation failed.
SentInv ==
    /\ script \in Streams /\ cut <= Len(script.bytes)
    /\ pending = Drop(script.bytes, Len(script.bytes) - Len(pending))
    /\ failures = 0 => received \o pending = Drop(script.bytes, cut)
    /\ pc = "wait" /\ failures = 0 => Scan(data) = <<>>

LEMMA NothingIn ==
    ASSUME NEW s \in Bytes, Len(s) < 2
    PROVE  Scan(s) = <<>>
<1>1. Len(s) \in Nat /\ (s = <<>> \/ Len(s) >= 1)
  BY LenProperties, EmptySeq DEF Bytes
<1>2. CASE s = <<>>
  BY <1>2, ScanEquation
<1>3. CASE s # <<>>
  <2>1. ~PrefixAt(s, 1) /\ 1 \in 0..Len(s) /\ Len(s) = 1
    <3>1. Len(s) = 1 /\ ~(1 + 1 <= Len(s))
      BY <1>1, <1>3
    <3> QED BY <3>1 DEF PrefixAt
  <2>2. Scan(s) = Scan(Drop(s, 1))
    BY <1>3, <2>1, ScanEquation
  <2>3. Drop(s, 1) \in Bytes /\ Len(Drop(s, 1)) = Len(s) - 1
    BY <2>1, DropElements DEF Bytes
  <2>4. Drop(s, 1) = <<>>
    BY <2>1, <2>3, EmptySeq DEF Bytes
  <2>5. Scan(Drop(s, 1)) = <<>>
    BY <2>3, <2>4, ScanEquation
  <2> QED BY <2>2, <2>5
<1> QED BY <1>2, <1>3

\* A prefix whose frame is not complete hides all that follows.
LEMMA WaitsForMore ==
    ASSUME NEW s \in Bytes, PrefixAt(s, 1), WaitForMore(s)
    PROVE  Scan(s) = <<>>
<1>1. PICK f \in [0..Len(s) -> Seq(Frame)] :
          /\ \A n \in 0..Len(s) : ScanIs(s, n, f)
          /\ Scan(s) = f[Len(s)]
  BY ScanFunction
<1>2. Len(s) \in 0..Len(s) /\ Len(s) - Len(s) = 0
  BY LenProperties DEF Bytes
<1>3. Drop(s, 0) = s
  BY SubSeqFull DEF Drop, Bytes
<1>4. Scan(s) = ScanStep(s, f)
  BY <1>1, <1>2, <1>3 DEF ScanIs
<1> QED BY <1>4 DEF ScanStep

\* A caller that goes back to waiting has taken out every frame there was.
LEMMA NothingLeft ==
    ASSUME TypeOK, FramebufExtract, pc' = "wait", failures' = 0
    PROVE  Scan(data') = <<>>
<1>1. data \in Bytes /\ data' \in Bytes /\ Len(data) \in Nat
  BY PassDrops, LenProperties DEF TypeOK, Bytes, Byte
<1>2. CASE ExtractNoPrefix
  <2>1. Len(data') < 2
    <3>1. CASE Len(data) < 2
      BY <1>2, <3>1 DEF ExtractNoPrefix, Extracting
    <3>2. CASE ~(Len(data) < 2)
      <4>1. data' = <<Last(data)>>
        BY <1>2, <3>2 DEF ExtractNoPrefix, Extracting
      <4>2. Len(<<Last(data)>>) = 1
        OBVIOUS
      <4> QED BY <4>1, <4>2
    <3> QED BY <3>1, <3>2
  <2> QED BY <1>1, <2>1, NothingIn
<1>3. CASE ExtractIncomplete
  <2>1. PICK bytes \in FromPrefix(data) : WaitForMore(bytes) /\ data' = bytes
    BY <1>3 DEF ExtractIncomplete, Extracting
  <2>2. bytes \in Bytes /\ PrefixAt(bytes, 1)
    <3>1. <<>> \in Bytes
      BY EmptySeq DEF Bytes
    <3> QED BY <1>1, <2>1, <3>1, PrefixScan
  <2> QED BY <2>1, <2>2, WaitsForMore
<1>4. ~ExtractSpurious /\ ~ExtractFrame
  BY DEF ExtractSpurious, ExtractFrame
<1>5. ~ExtractScratchFails
  BY DEF ExtractScratchFails, TypeOK
<1> QED BY <1>2, <1>3, <1>4, <1>5 DEF FramebufExtract

LEMMA PendingKept ==
    ASSUME TypeOK, SentInv, NEW n \in 1..MaxChunk, n <= Len(pending)
    PROVE  /\ Drop(pending, n) = Drop(script.bytes, Len(script.bytes) - Len(Drop(pending, n)))
           /\ SubSeq(pending, 1, n) \in Bytes /\ Drop(pending, n) \in Bytes
           /\ pending = SubSeq(pending, 1, n) \o Drop(pending, n)
<1>1. /\ pending \in Bytes /\ Len(pending) \in Nat /\ n \in 0..Len(pending)
      /\ script.bytes \in Bytes /\ Len(script.bytes) \in Nat /\ Len(pending) <= Len(script.bytes)
  <2>1. pending \in Bytes /\ script.bytes \in Seq(0..255) /\ Len(pending) <= Len(script.bytes)
    BY BytesAgree DEF TypeOK, Stream
  <2>2. script.bytes \in Bytes
    BY <2>1, BytesAgree
  <2>3. n \in Nat
    BY FrameBufAssumption
  <2> QED BY <2>1, <2>2, <2>3, LenProperties DEF Bytes
<1>2. PICK gone : gone = Len(script.bytes) - Len(pending)
  OBVIOUS
<1>3. gone \in 0..Len(script.bytes) /\ n \in 0..(Len(script.bytes) - gone)
      /\ pending = Drop(script.bytes, gone)
  BY <1>1, <1>2 DEF SentInv
<1>4. Drop(Drop(script.bytes, gone), n) = Drop(script.bytes, gone + n)
  BY <1>1, <1>3, DropDrop DEF Bytes
<1>5. Drop(pending, n) \in Bytes /\ Len(Drop(pending, n)) = Len(pending) - n
  BY <1>1, DropElements DEF Bytes
<1>6. gone + n = Len(script.bytes) - Len(Drop(pending, n))
  BY <1>1, <1>2, <1>5
<1>7. /\ SubSeq(pending, 0 + 1, n) \in Bytes
      /\ Drop(pending, 0) = SubSeq(pending, 0 + 1, n) \o Drop(pending, n)
  <2>1. 0 \in 0..Len(pending) /\ n \in 0..Len(pending)
    BY <1>1
  <2> QED BY <1>1, <2>1, SplitAt DEF Bytes
<1>8. Drop(pending, 0) = pending /\ 0 + 1 = 1
  BY <1>1, SubSeqFull DEF Drop, Bytes
<1> QED BY <1>3, <1>4, <1>5, <1>6, <1>7, <1>8

LEMMA InitSent == Init => SentInv
<1> SUFFICES ASSUME Init PROVE SentInv
  OBVIOUS
<1>1. /\ script \in Streams /\ pending = script.bytes /\ cut = 0 /\ received = <<>> /\ data = <<>>
  BY DEF Init
<1>2. script.bytes \in Bytes /\ Len(script.bytes) \in Nat
  BY <1>1, StreamShape
<1>3. Drop(script.bytes, 0) = script.bytes /\ <<>> \o script.bytes = script.bytes
  BY <1>2, SubSeqFull, ConcatEmptySeq DEF Drop, Bytes
<1>4. Len(script.bytes) - Len(pending) = 0 /\ cut <= Len(script.bytes)
  BY <1>1, <1>2
<1>5. Scan(<<>>) = <<>>
  <2>1. <<>> \in Bytes
    BY EmptySeq DEF Bytes
  <2> QED BY <2>1, ScanEquation
<1> QED BY <1>1, <1>3, <1>4, <1>5 DEF SentInv

LEMMA StepSent == TypeOK /\ SentInv /\ [Next]_vars => SentInv'
<1> SUFFICES ASSUME TypeOK, SentInv, [Next]_vars PROVE SentInv'
  OBVIOUS
<1>1. ASSUME NEW n \in 1..MaxChunk, FramebufAppend(n) PROVE SentInv'
  <2>1. /\ received' = received \o SubSeq(pending, 1, n) /\ pending' = Drop(pending, n)
        /\ pc' = "extract" /\ UNCHANGED <<script, cut, failures>> /\ n <= Len(pending)
    BY <1>1 DEF FramebufAppend
  <2>2. PICK chunk : chunk = SubSeq(pending, 1, n)
    OBVIOUS
  <2>3. PICK rest : rest = Drop(pending, n)
    OBVIOUS
  <2>4. /\ rest = Drop(script.bytes, Len(script.bytes) - Len(rest))
        /\ chunk \in Bytes /\ rest \in Bytes /\ pending = chunk \o rest
    BY <2>1, <2>2, <2>3, PendingKept
  <2>5. (received \o chunk) \o rest = received \o pending
    <3>1. received \in Seq(Byte) /\ chunk \in Seq(Byte) /\ rest \in Seq(Byte)
      BY <2>4 DEF TypeOK, Bytes, Byte
    <3>2. (received \o chunk) \o rest = received \o (chunk \o rest)
      BY <3>1, ConcatAssociative, SMTT(30)
    <3> QED BY <2>4, <3>2
  <2>6. received' \o pending' = received \o pending
    BY <2>1, <2>2, <2>3, <2>5
  <2> QED BY <2>1, <2>3, <2>4, <2>6 DEF SentInv
<1>2. ASSUME NEW n \in 1..MaxChunk, FramebufAppendFails(n) PROVE SentInv'
  <2>1. /\ pending' = Drop(pending, n) /\ failures' = failures + 1
        /\ UNCHANGED <<script, cut>> /\ n <= Len(pending)
    BY <1>2 DEF FramebufAppendFails
  <2>2. failures' # 0
    BY <2>1 DEF TypeOK
  <2>3. Drop(pending, n) = Drop(script.bytes, Len(script.bytes) - Len(Drop(pending, n)))
    BY <2>1, PendingKept
  <2> QED BY <2>1, <2>2, <2>3 DEF SentInv
<1>3. CASE FramebufExtract
  <2>1. UNCHANGED <<script, pending, cut, received>>
    BY <1>3, PassDrops
  <2>2. failures' = 0 => failures = 0
    <3>1. failures' = failures \/ failures' = failures + 1
      BY <1>3 DEF FramebufExtract, ExtractNoPrefix, ExtractIncomplete, ExtractSpurious,
                  ExtractFrame, ExtractScratchFails
    <3> QED BY <3>1 DEF TypeOK
  <2>3. pc' = "wait" /\ failures' = 0 => Scan(data') = <<>>
    BY <1>3, NothingLeft
  <2> QED BY <2>1, <2>2, <2>3 DEF SentInv
<1>4. CASE Handover
  <2>1. /\ cut' = Len(script.bytes) - Len(pending) /\ data' = <<>> /\ received' = <<>>
        /\ UNCHANGED <<script, pending, failures>>
    BY <1>4 DEF Handover
  <2>2. pending \in Seq(Byte) /\ Len(pending) \in Nat /\ Len(script.bytes) \in Nat
    <3>1. pending \in Seq(Byte) /\ script.bytes \in Seq(0..255)
      BY DEF TypeOK, Stream, Byte
    <3> QED BY <3>1, LenProperties
  <2>3. cut' <= Len(script.bytes)
    BY <2>1, <2>2
  <2>4. <<>> \o pending = pending
    BY <2>2, ConcatEmptySeq
  <2>5. Scan(<<>>) = <<>>
    <3>1. <<>> \in Bytes
      BY EmptySeq DEF Bytes
    <3> QED BY <3>1, ScanEquation
  <2>6. pending = Drop(script.bytes, cut')
    BY <2>1 DEF SentInv
  <2> QED BY <2>1, <2>3, <2>4, <2>5, <2>6 DEF SentInv
<1>5. CASE UNCHANGED vars
  BY <1>5 DEF SentInv, vars
<1> QED BY <1>1, <1>2, <1>3, <1>4, <1>5 DEF Next

LEMMA SentSuffices == TypeOK /\ ChunkingIrrelevant /\ SentInv => SentArrives
<1> SUFFICES ASSUME TypeOK, ChunkingIrrelevant, SentInv,
                    pending = <<>>, pc = "wait", failures = 0, 90 \notin ToSet(CutTail)
             PROVE  frames = SentFrom(script, cut)
  BY DEF SentArrives
<1>1. script \in Streams /\ cut \in 0..Len(script.bytes)
  <2>1. script \in Streams /\ cut \in Nat /\ cut <= Len(script.bytes)
    BY DEF SentInv, TypeOK
  <2>2. Len(script.bytes) \in Nat
    BY <2>1, StreamShape
  <2> QED BY <2>1, <2>2
<1>2. received = Drop(script.bytes, cut)
  <2>1. received \o <<>> = received
    <3>1. received \in Seq(Byte)
      BY DEF TypeOK, Byte
    <3> QED BY <3>1, ConcatEmptySeq
  <2> QED BY <2>1 DEF SentInv
<1>3. frames = Scan(received)
  <2>1. Scan(data) = <<>>
    BY DEF SentInv
  <2>2. frames \o <<>> = frames
    <3>1. frames \in Seq(Frame)
      BY DEF TypeOK
    <3> QED BY <3>1, ConcatEmptySeq
  <2> QED BY <2>1, <2>2 DEF ChunkingIrrelevant
<1>4. Scan(Drop(script.bytes, cut)) = SentFrom(script, cut)
  <2>1. 90 \notin ToSet(SubSeq(script.bytes, cut + 1, Min({a \in script.starts : a >= cut})))
    BY Zenon DEF CutTail
  <2> QED BY <1>1, <2>1, ScanFromCut
<1> QED BY <1>2, <1>3, <1>4

\* From a stream of frames, built as river2_outer_build builds them, with noise
\* between, the caller gets every frame sent, once and in order, however the
\* stream is cut; after the handover, every frame that begins behind it.
THEOREM FramesArrive == Spec => []SentArrives
<1>1. Init => TypeOK /\ SentInv
  BY InitType, InitSent
<1>2. (TypeOK /\ SentInv) /\ TypeOK' /\ [Next]_vars => (TypeOK /\ SentInv)'
  BY StepSent
<1>3. Spec => []SentInv
  BY <1>1, <1>2, TypeCorrect, PTL DEF Spec
<1> QED BY <1>3, TypeCorrect, CutsDoNotMatter, SentSuffices, PTL
==============================================================================
