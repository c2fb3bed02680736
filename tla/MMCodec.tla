-------------------------------- MODULE MMCodec --------------------------------
(***************************************************************************)
(* The conversions of mm_util.c that the packets and tables of mm_manager  *)
(* go through: the checksum, the packed phone numbers, and what the type   *)
(* of a terminal says about it.  A byte is a number below 256, a string of *)
(* digits a sequence of numbers: a character stands for its distance from  *)
(* '0', as in all of this code.                                            *)
(***************************************************************************)
EXTENDS Naturals, Sequences
LOCAL INSTANCE FiniteSetsExt

UINT8_MAX == 255
UINT16_MAX == 65535
Byte == 0..UINT8_MAX
Checksum == 0..UINT16_MAX
Decimal == 0..9

---------------------------------------------------------------------------
(* crc16: the bits of the bytes, lowest first, through the polynomial 0xA001 (bits 15, 13
   and 0).  Shifting the checksum right leaves bit 15 clear, so it is set, and bits 13 and
   0 are flipped. *)

POLY(crc) ==
    crc + 32768
        + (IF (crc \div 8192) % 2 = 0 THEN 8192 ELSE 0) + (IF crc % 2 = 0 THEN 1 ELSE 0)
        - (IF (crc \div 8192) % 2 = 1 THEN 8192 ELSE 0) - (IF crc % 2 = 1 THEN 1 ELSE 0)

Shift(crc, byte) == IF (crc + byte) % 2 = 1 THEN POLY(crc \div 2) ELSE crc \div 2

\* The eight bits of a byte, and the bytes.
Shifted(crc, byte) ==
    LET bits[n \in 0..8] ==
            IF n = 0 THEN <<crc, byte>>
            ELSE LET b == bits[n - 1] IN <<Shift(b[1], b[2]), b[2] \div 2>>
    IN  bits[8][1]

crc16(crc, bytes) ==
    LET from[i \in 1..Len(bytes) + 1] ==
            [c \in Checksum |-> IF i > Len(bytes) THEN c ELSE from[i + 1][Shifted(c, bytes[i])]]
    IN  from[1][crc]

---------------------------------------------------------------------------
(* Packed phone numbers: two digits in a byte, the first in its upper half. *)

Nibble(bytes, i) == LET b == bytes[(i + 1) \div 2] IN IF i % 2 = 1 THEN b \div 16 ELSE b % 16

Pack(digits) == [i \in 1..Len(digits) \div 2 |-> digits[2 * i - 1] * 16 + digits[2 * i]]

END_OF_NUMBER == 14

\* phone_num_to_string: the digits up to a nibble 0xe, as many as the string has room for.
phone_num_to_string(bytes, room) ==
    LET ends == {i \in 1..2 * Len(bytes) : Nibble(bytes, i) = END_OF_NUMBER}
        length == Min({2 * Len(bytes), room - 1} \cup {i - 1 : i \in ends})
    IN  [i \in 1..length |-> Nibble(bytes, i)]

TerminalBytes_Swapped(number) == [i \in 1..5 |-> number[2 * i] * 16 + number[2 * i - 1]]

\* The number of a terminal put back into bytes: send_mm_packet, and the generators of
\* DLOG_MT_NCC_TERM_PARAMS.
TerminalBytes(number) == Pack(SubSeq(number, 1, 10))

string_to_bcd_a_Zero(digits, room) ==
    LET Digit(i) == IF i > Len(digits) THEN 0 ELSE digits[i]
    IN  Pack([i \in 1..2 * room |-> Digit(i)])

\* string_to_bcd_a: a 0 becomes 0xa, for a nibble 0 ends the number.  What the buffer has
\* no room for is left out.
string_to_bcd_a(digits, room) ==
    LET Digit(i) == IF i > Len(digits) THEN 0 ELSE IF digits[i] = 0 THEN 10 ELSE digits[i]
    IN  Pack([i \in 1..2 * room |-> Digit(i)])

\* callscrn_num_to_string: how a number so packed is read.
pn_lut(nibble) == IF nibble = 10 THEN 0 ELSE nibble
callscrn_num_to_string(bytes, room) ==
    LET ends == {i \in 1..2 * Len(bytes) : Nibble(bytes, i) = 0}
        length == Min({2 * Len(bytes), room - 1} \cup {i - 1 : i \in ends})
    IN  [i \in 1..length |-> pn_lut(Nibble(bytes, i))]

---------------------------------------------------------------------------
(* The type of a terminal, from its control ROM: the version of its tables and its model. *)

TERM_TYPE_MAX == 60
MTR_UNKNOWN == 0
MTR_1_6 == 1060
MTR_1_7 == 1070
MTR_1_7_INTL == 1080
MTR_1_9 == 1090
MTR_1_10 == 1100
MTR_1_11 == 1110
MTR_1_13 == 1130
MTR_1_20 == 1200
MTR_2_X == 2000

Versions == {MTR_1_6, MTR_1_7, MTR_1_7_INTL, MTR_1_9, MTR_1_10, MTR_1_11, MTR_1_13, MTR_1_20, MTR_2_X}
OfVersion ==
    [v \in Versions |->
        CASE v = MTR_1_6 -> {8, 9}
          [] v = MTR_1_7 -> {11, 12, 13, 14, 15, 16, 19, 21, 23, 24, 25, 26}
          [] v = MTR_1_7_INTL -> {32} [] v = MTR_1_9 -> {6, 27, 28, 29, 30, 31, 33, 42, 46}
          [] v = MTR_1_10 -> {44} [] v = MTR_1_11 -> {45} [] v = MTR_1_13 -> {10, 36, 37}
          [] v = MTR_1_20 -> {18, 20, 58}
          [] v = MTR_2_X -> {1, 2, 3, 5, 7, 17, 22, 34, 35, 38, 39, 40, 51, 56, 57, 59, 60}]

term_type_to_mtr(type) ==
    LET versions == {v \in Versions : type \in OfVersion[v]}
    IN  IF versions = {} THEN MTR_UNKNOWN ELSE CHOOSE v \in versions : TRUE

TERM_INVALID == 0
TERM_CARD == 1
TERM_MULTIPAY == 2
TERM_COIN_BASIC == 3
TERM_INMATE == 4
TERM_DESK == 17

Models == {TERM_COIN_BASIC, TERM_INMATE, TERM_DESK, TERM_CARD}
OfModel ==
    [m \in Models |->
        CASE m = TERM_COIN_BASIC -> {1, 2, 18, 19, 38, 42, 56} [] m = TERM_INMATE -> {8, 16}
          [] m = TERM_DESK -> {9, 11, 15, 25, 29, 45} [] m = TERM_CARD -> {12, 23, 27, 32, 35, 37, 39, 58}]

term_type_to_model(type) ==
    LET models == {m \in Models : type \in OfModel[m]}
    IN  IF type = 0 \/ type > TERM_TYPE_MAX THEN TERM_INVALID
        ELSE IF models = {} THEN TERM_MULTIPAY ELSE CHOOSE m \in models : TRUE
================================================================================
