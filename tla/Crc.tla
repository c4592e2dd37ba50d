--------------------------------- MODULE Crc ---------------------------------
(***************************************************************************)
(* river2_crc.c: the CRC-8 and CRC-16 of the protocol, computed from two   *)
(* lookup tables.                                                          *)
(***************************************************************************)
EXTENDS Naturals, Sequences, Bitwise

\* Seeded fault: the CRC-8 shifts the other way.
Crc8RoundReflected(c) == IF c % 2 = 1 THEN (c \div 2) ^^ 7 ELSE c \div 2

\* One round of the inner loops of build_tables, for a uint8_t and a uint16_t.
Crc8Round(c)  == IF c >= 128 THEN ((2 * c) % 256) ^^ 7 ELSE 2 * c
Crc16Round(c) == IF c % 2 = 1 THEN (c \div 2) ^^ 40961 ELSE c \div 2

EightRounds(Round(_), i) ==
    LET c[b \in 0..8] == IF b = 0 THEN i ELSE Round(c[b - 1]) IN c[8]

s_crc8_table  == [i \in 0..255 |-> EightRounds(Crc8Round, i)]
s_crc16_table == [i \in 0..255 |-> EightRounds(Crc16Round, i)]

\* One byte, as in the loops over data.
Crc8Step(crc, byte)  == s_crc8_table[crc ^^ byte]
Crc16Step(crc, byte) == s_crc16_table[(crc ^^ byte) % 256] ^^ (crc \div 256)

River2Crc8(data) ==
    LET crc[i \in 0..Len(data)] == IF i = 0 THEN 0 ELSE Crc8Step(crc[i - 1], data[i])
    IN  crc[Len(data)]

River2Crc16(data) ==
    LET crc[i \in 0..Len(data)] == IF i = 0 THEN 0 ELSE Crc16Step(crc[i - 1], data[i])
    IN  crc[Len(data)]
==============================================================================
