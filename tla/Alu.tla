---------------------------------- MODULE Alu ----------------------------------
(***************************************************************************)
(* Arithmetic of engine.c: what each instruction computes and which flags  *)
(* of CC it leaves, without where the operands come from.  A condition     *)
(* code register is the set of the flags that are one in it.               *)
(***************************************************************************)
EXTENDS Integers, FiniteSets

Byte == 0..255
Word == 0..65535

Flags == {"C", "V", "Z", "N", "I", "H", "F", "E"}
FlagMask == [C |-> 1, V |-> 2, Z |-> 4, N |-> 8, I |-> 16, H |-> 32, F |-> 64, E |-> 128]

(* x & m for a mask m of one bit, as 0 or 1. *)
Bit(x, m) == (x \div m) % 2

Masks == {1, 2, 4, 8, 16, 32, 64, 128}
Bits(x) == {m \in Masks : Bit(x, m) = 1}
Weight(s) ==
    LET w(m) == IF m \in s THEN m ELSE 0
    IN  w(1) + w(2) + w(4) + w(8) + w(16) + w(32) + w(64) + w(128)

CcByte(cc) == Weight({FlagMask[f] : f \in cc})
ByteCc(b) == {f \in Flags : Bit(b, FlagMask[f]) = 1}

And(a, b) == Weight(Bits(a) \cap Bits(b))
Or(a, b) == Weight(Bits(a) \cup Bits(b))
Xor(a, b) == Weight((Bits(a) \cup Bits(b)) \ (Bits(a) \cap Bits(b)))

(* SIGNED: a byte as a word of two's complement.                           *)
Signed(b) == IF b >= 128 THEN b + 65280 ELSE b

Hi(w) == w \div 256
Lo(w) == w % 256

Put(cc, f, on) == IF on THEN cc \cup {f} ELSE cc \ {f}

SetNZ8(cc, r) == Put(Put(cc, "Z", r = 0), "N", r >= 128)
SetNZ16(cc, r) == Put(Put(cc, "Z", r = 0), "N", r >= 32768)

(* Mutant: the half carry is not kept for DAA. *)
StatusNoHalf(cc, a, b, res) ==
    LET v == Bit(a, 128) + Bit(b, 128) + Bit(res, 128) + Bit(res, 256)
    IN  SetNZ8(Put(Put(cc, "V", v % 2 = 1), "C", Bit(res, 256) = 1), res % 256)

(* SETSTATUS: a and b are bytes and res a word, the whole sum or           *)
(* difference; V compares the carries into and out of bit 7.               *)
SetStatus(cc, a, b, res) ==
    LET h == Bit(a, 16) + Bit(b, 16) + Bit(res, 16)
        v == Bit(a, 128) + Bit(b, 128) + Bit(res, 128) + Bit(res, 256)
    IN  SetNZ8(Put(Put(Put(cc, "H", h % 2 = 1), "V", v % 2 = 1),
                   "C", Bit(res, 256) = 1), res % 256)

(* SETSTATUSD: the same for words and a res of 32 bits; H stays.           *)
SetStatusD(cc, a, b, res) ==
    LET v == Bit(a, 32768) + Bit(b, 32768) + Bit(res, 32768) + Bit(res, 65536)
    IN  SetNZ16(Put(Put(cc, "V", v % 2 = 1), "C", Bit(res, 65536) = 1), res % 65536)

Carry(cc) == IF "C" \in cc THEN 1 ELSE 0

-----------------------------------------------------------------------------
(* Mutants of definitions below. *)

(* The sign of B goes beyond D. *)
SexWide(b, cc) == [r |-> IF b >= 128 THEN b + 16776960 ELSE b, cc |-> SetNZ16(cc, Signed(b))]

(* NXORV of v09s.c: V is not moved to the place of N. *)
TakenUnshifted(n, cc) ==
    LET less == "N" \in cc \/ "V" \in cc
        c == CASE n \div 2 = 0 -> TRUE
               [] n \div 2 = 1 -> ~("C" \in cc \/ "Z" \in cc)
               [] n \div 2 = 2 -> "C" \notin cc
               [] n \div 2 = 3 -> "Z" \notin cc
               [] n \div 2 = 4 -> "V" \notin cc
               [] n \div 2 = 5 -> "N" \notin cc
               [] n \div 2 = 6 -> ~less
               [] n \div 2 = 7 -> ~(less \/ "Z" \in cc)
    IN  IF n % 2 = 0 THEN c ELSE ~c

-----------------------------------------------------------------------------
(* Instructions on one byte, NEG to CLR; TST keeps the byte.               *)
Unary(op, b, cc) ==
    LET shifted(r) == [r |-> r, cc |-> SetNZ8(Put(cc, "C", b % 2 = 1), r)]
        halved(r) == [r |-> r, cc |-> SetNZ8(Put(Put(cc, "C", b % 2 = 1),
                                                 "H", Bit(b, 16) = 1), r)]
        stepped(r, edge) == [r |-> r, cc |-> SetNZ8(Put(cc, "V", r = edge), r)]
        neg == (65536 - b) % 65536
        rol == ((2 * b) % 256) + Carry(cc)
    IN  CASE op = "NEG" -> [r |-> Lo(neg), cc |-> SetStatus(cc, 0, b, neg)]
          [] op = "COM" -> [r |-> 255 - b, cc |-> SetNZ8(cc \cup {"C"}, 255 - b) \ {"V"}]
          [] op = "LSR" -> halved(b \div 2)
          [] op = "ROR" -> shifted(b \div 2 + 128 * Carry(cc))
          [] op = "ASR" -> halved(b \div 2 + 128 * Bit(b, 128))
          [] op = "ASL" -> [r |-> Lo(2 * b), cc |-> SetStatus(cc, b, b, 2 * b)]
          [] op = "ROL" -> [r |-> rol,
                            cc |-> SetNZ8(Put(Put(cc, "C", b >= 128),
                                     "V", Bit(b, 128) # Bit(b, 64)), rol)]
          [] op = "DEC" -> stepped((b + 255) % 256, 127)
          [] op = "INC" -> stepped((b + 1) % 256, 128)
          [] op = "TST" -> [r |-> b, cc |-> SetNZ8(cc, b)]
          [] op = "CLR" -> [r |-> 0, cc |-> (cc \ {"N", "V", "C"}) \cup {"Z"}]

(* Instructions on an accumulator and a byte.  CMP and BIT have no r.      *)
Binary(op, a, b, cc) ==
    LET sum(x) == [r |-> Lo(x), cc |-> SetStatus(cc, a, b, x)]
        logic(x) == [r |-> x, cc |-> SetNZ8(cc \ {"V"}, x)]
    IN  CASE op = "SUB" -> sum((65536 + a - b) % 65536)
          [] op = "CMP" -> [sum((65536 + a - b) % 65536) EXCEPT !.r = a]
          [] op = "SBC" -> sum((65536 + a - b - Carry(cc)) % 65536)
          [] op = "ADC" -> sum(a + b + Carry(cc))
          [] op = "ADD" -> sum(a + b)
          [] op = "AND" -> logic(And(a, b))
          [] op = "BIT" -> [logic(And(a, b)) EXCEPT !.r = a]
          [] op = "LD" -> logic(b)
          [] op = "EOR" -> logic(Xor(a, b))
          [] op = "OR" -> logic(Or(a, b))

(* SUBD and its comparisons, and ADDD. *)
Sub16(a, b, cc) ==
    LET res == (131072 + a - b) % 131072
    IN  [r |-> res % 65536, cc |-> SetStatusD(cc, a, b, res)]
Add16(a, b, cc) == [r |-> (a + b) % 65536, cc |-> SetStatusD(cc, a, b, a + b)]

(* Words loaded and stored. *)
Move16(w, cc) == SetNZ16(cc \ {"V"}, w)

(* DAA: A and CC; the adjusted value has nine bits, and a carry is only    *)
(* ever set.                                                               *)
Adjusted(a, cc) ==
    LET t1 == IF "H" \in cc THEN a + 6 ELSE a
        t2 == IF t1 % 16 > 9 THEN t1 + 6 ELSE t1
        t3 == IF "C" \in cc THEN t2 + 96 ELSE t2
    IN  IF (t3 \div 16) % 16 > 9 THEN t3 + 96 ELSE t3
Daa(a, cc) == LET t == Adjusted(a, cc)
              IN  [r |-> Lo(t), cc |-> IF Bit(t, 256) = 1 THEN cc \cup {"C"} ELSE cc]

Mul(a, b, cc) ==
    [r |-> a * b, cc |-> Put(Put(cc, "Z", a * b = 0), "C", Bit(a * b, 128) = 1)]

Sex(b, cc) == [r |-> Signed(b), cc |-> SetNZ16(cc, Signed(b))]

(* The conditions of BRA to BLE, 0 to 15. *)
Taken(n, cc) ==
    LET less == ("N" \in cc) # ("V" \in cc)      \* NXORV
        c == CASE n \div 2 = 0 -> TRUE
               [] n \div 2 = 1 -> ~("C" \in cc \/ "Z" \in cc)
               [] n \div 2 = 2 -> "C" \notin cc
               [] n \div 2 = 3 -> "Z" \notin cc
               [] n \div 2 = 4 -> "V" \notin cc
               [] n \div 2 = 5 -> "N" \notin cc
               [] n \div 2 = 6 -> ~less
               [] n \div 2 = 7 -> ~(less \/ "Z" \in cc)
    IN  IF n % 2 = 0 THEN c ELSE ~c
=============================================================================
