------------------------------ MODULE FrameStream ------------------------------
(***************************************************************************)
(* What a reassembler promises, without a buffer: bytes arrive, and the    *)
(* frames in all that has arrived come out one by one, each once and in    *)
(* order, no matter where the deliveries were cut.  The consumer may start *)
(* over, and then the stream begins with the next delivery.                *)
(***************************************************************************)
EXTENDS Naturals, Sequences

CONSTANT FramesIn(_)       \* the frames in a run of bytes

VARIABLES stream,          \* the bytes that have arrived
          out              \* the frames that have come out

streamVars == <<stream, out>>

StreamInit == stream = <<>> /\ out = <<>>

Arrive ==
    /\ Len(stream') > Len(stream) /\ SubSeq(stream', 1, Len(stream)) = stream
    /\ UNCHANGED out

Emit ==
    /\ Len(out) < Len(FramesIn(stream))
    /\ out' = Append(out, FramesIn(stream)[Len(out) + 1])
    /\ UNCHANGED stream

StartOver == stream' = <<>> /\ out' = <<>>

StreamSpec == StreamInit /\ [][Arrive \/ Emit \/ StartOver]_streamVars
==============================================================================
