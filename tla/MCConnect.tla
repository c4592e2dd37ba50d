------------------------------ MODULE MCConnect ------------------------------
(* GATT tables for Connect. *)
EXTENDS Connect

Chr(uuid, has) == [uuid |-> uuid, cccd |-> has]

Gap      == <<Chr("other", FALSE)>>
Gatt     == <<Chr("other", TRUE)>>
Rfcomm   == <<Chr("RFCOMM_WRITE", FALSE), Chr("RFCOMM_NOTIFY", TRUE)>>
Nus      == <<Chr("NUS_NOTIFY", TRUE), Chr("other", TRUE), Chr("NUS_WRITE", FALSE)>>
Crowded  == <<Chr("other", TRUE), Chr("RFCOMM_NOTIFY", TRUE), Chr("RFCOMM_WRITE", FALSE)>>
NoNotify == <<Chr("RFCOMM_WRITE", FALSE)>>
NoCccd   == <<Chr("NUS_WRITE", FALSE), Chr("NUS_NOTIFY", FALSE)>>

GoodTables == {<<Gap, Rfcomm>>, <<Gatt, Nus>>, <<Nus, Rfcomm>>, <<Rfcomm, Nus, Gap>>,
               <<Crowded>>, <<Gap, Rfcomm, Gatt, Gap>>}     \* the last one: MaxServices + 1

Mixed  == <<Chr("RFCOMM_NOTIFY", TRUE), Chr("NUS_WRITE", FALSE)>>
Astray == <<Chr("NUS_NOTIFY", FALSE), Chr("NUS_WRITE", TRUE)>>

\* Tables some of the promises are not made for: a variant spread over two
\* services, two variants in one, a CCCD that belongs to another
\* characteristic, a service beyond the last there is room for.
OddTables  == {<<NoNotify, Nus>>, <<Mixed>>, <<Astray>>, <<NoCccd, Rfcomm>>, <<Gap, Gap, Gap, Nus>>}
BadTables  == {<<>>, <<Gap, Gatt>>, <<NoNotify>>, <<Gap, NoCccd>>}
AllTables  == GoodTables \cup OddTables \cup BadTables
==============================================================================
