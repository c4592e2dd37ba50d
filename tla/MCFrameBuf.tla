------------------------------ MODULE MCFrameBuf ------------------------------
(* Streams for FrameBuf: sequences of pieces, some frames and some noise. *)
EXTENDS FrameBuf, Crc

Sent(type, payload) ==
    [bytes |-> OuterBuild(type, payload, 64), sent |-> <<[type |-> type, payload |-> payload]>>]
Noise(bytes) == [bytes |-> bytes, sent |-> <<>>]

Reply    == Sent(0, <<>>)
Short    == Sent(1, <<7>>)
Prefix2  == Sent(1, <<90, 90, 16>>)     \* a payload that looks like a prefix
Largest  == Sent(1, <<1, 2, 3, 4>>)      \* as long as MaxField allows

Garbage  == Noise(<<0, 19, 55>>)
Damaged  == Noise(<<90, 90, 16, 1, 3, 0, 8, 0, 0>>)     \* wrong CRC
TooLong  == Noise(<<90, 90, 16, 1, 7, 0, 1>>)           \* MaxField + 1

Pieces == {Reply, Short, Prefix2, Largest, Garbage, Damaged, TooLong}

\* The offset of the i-th piece; of the end for i = Len(ps) + 1.
Offset(ps, i) == Len(FlattenSeq([j \in 1..(i - 1) |-> ps[j].bytes]))

Join(ps) ==
    [bytes  |-> FlattenSeq([i \in DOMAIN ps |-> ps[i].bytes]),
     sent   |-> FlattenSeq([i \in DOMAIN ps |-> ps[i].sent]),
     at     |-> FlattenSeq([i \in DOMAIN ps |->
                    IF ps[i].sent = <<>> THEN <<>> ELSE <<Offset(ps, i)>>]),
     starts |-> {Offset(ps, i) : i \in 1..(Len(ps) + 1)}]

\* All pairs, and triples in which the handover can cut the second frame.
CleanStreams  ==
    {Join(<<p, q>>) : p, q \in Pieces}
    \cup {Join(<<Short, q, Reply>>) : q \in {Short, Largest, Prefix2}}
==============================================================================
