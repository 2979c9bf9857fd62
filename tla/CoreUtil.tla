------------------------------ MODULE CoreUtil ------------------------------
(***************************************************************************)
(* The 16-bit arithmetic of src/coremark/src and the functions of          *)
(* core_util.c.  A 16-bit value is a number in 0 .. 65535; Signed gives    *)
(* the ee_s16 with the same bits.                                          *)
(***************************************************************************)
EXTENDS Integers, Sequences, FiniteSets, Bitwise, TLC

\* The function f itself; TLC's @@ tabulates it instead of keeping its body.
Table(f) == f @@ <<>>

U16(x) == x % 65536
Signed(x) == IF U16(x) < 32768 THEN U16(x) ELSE U16(x) - 65536
Bit(x, n) == (x \div 2^n) % 2
\* C's remainder and division by a positive number.
CRem(a, b) == IF a < 0 THEN -((-a) % b) ELSE a % b

\* Invert the bit of weight b.
Flip(x, b) == IF (x \div b) % 2 = 1 THEN x - b ELSE x + b

\* One round of crcu8: the next data bit enters the crc.
Feed(bit, crc) ==
    IF (bit + crc) % 2 = 1
    THEN 32768 + Flip(Flip(crc, 2), 16384) \div 2
    ELSE crc \div 2
crcu8(data, crc) ==
    LET round[n \in 0 .. 8, c \in 0 .. 65535] ==
            IF n = 8 THEN c ELSE round[n + 1, Feed(Bit(data, n), c)]
    IN round[0, crc]
crcu16(newval, crc) == crcu8(newval \div 256, crcu8(newval % 256, crc))
crc16(newval, crc) == crcu16(U16(newval), crc)
crcu32(newval, crc) == crc16(newval \div 65536, crc16(newval, crc))

\* The rest of core_util.c: the port's volatile seeds, by number.
get_seed_32(seeds, i) == IF i \in DOMAIN seeds THEN seeds[i] ELSE 0

\* The data types of the port have the sizes the benchmark wants.
TypeSizes == [ee_u8 |-> 1, ee_u16 |-> 2, ee_s16 |-> 2, ee_s32 |-> 4, ee_u32 |-> 4, ee_ptr_int |-> 4]
Wanted    == [ee_u8 |-> 1, ee_u16 |-> 2, ee_s16 |-> 2, ee_s32 |-> 4, ee_u32 |-> 4, ee_ptr_int |-> 4]
check_data_types == Cardinality({t \in DOMAIN Wanted : TypeSizes[t] # Wanted[t]})
=============================================================================
