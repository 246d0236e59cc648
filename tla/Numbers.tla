--------------------------------- MODULE Numbers ---------------------------------
(***************************************************************************)
(* The numbers that bytes, words and flags stand for, for the properties   *)
(* of the arithmetic.                                                      *)
(***************************************************************************)
EXTENDS Alu

(* A byte or a word as a number of two's complement.                       *)
AsSigned(v, bits) == IF v >= 2^(bits - 1) THEN v - 2^bits ELSE v

(* The branches that look at the order of two numbers: BHI to BCS, BNE,    *)
(* BEQ, and BGE to BLE.                                                    *)
Conditions == (2..7) \cup (12..15)

(* The order that a condition stands for, between the register and the     *)
(* operand of the comparison before.                                       *)
Meant(n, l, r, bits) ==
    LET sl == AsSigned(l, bits)
        sr == AsSigned(r, bits)
    IN  CASE n = 2 -> l > r [] n = 3 -> l <= r [] n = 4 -> l >= r [] n = 5 -> l < r
          [] n = 6 -> l # r [] n = 7 -> l = r
          [] n = 12 -> sl >= sr [] n = 13 -> sl < sr [] n = 14 -> sl > sr [] n = 15 -> sl <= sr

(* The number that a byte of two decimal digits stands for, and back.      *)
Digits(v) == 10 * (v \div 16) + (v % 16)
Bcd(d) == 16 * ((d \div 10) % 10) + (d % 10)
Decimal(v) == v \div 16 <= 9 /\ v % 16 <= 9
=============================================================================
