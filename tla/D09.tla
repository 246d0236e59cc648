---------------------------------- MODULE D09 ----------------------------------
(***************************************************************************)
(* The disassembler d09.c, as the debugger of trace.c calls it: adoffset   *)
(* is 0 and prog is the memory of the processor.  Of a line of the listing *)
(* there is how many bytes it stands for, whether it names an instruction, *)
(* and the address it shows for an operand relative to the program counter.*)
(***************************************************************************)
EXTENDS Integers, Sequences

CONSTANT MaxPrefix
INSTANCE Cpu WITH RomStart <- 65536

Unary16 == {0, 3, 4, 6, 7, 8, 9, 10, 12, 13, 14, 15}     \* low digits of NEG to CLR

Entry(display, bytes) == [display |-> display, bytes |-> bytes]
Illegal(bytes) == Entry("Illegal", bytes)

-----------------------------------------------------------------------------
(* The tables: the low and the high half of each. *)

OptableLow(op) ==
    LET n == op % 16
        row == op \div 16
        if(set, e) == IF n \in set THEN e ELSE Illegal(1)
    IN  CASE row = 0 -> if(Unary16, Entry("Direct", 2))
          [] row = 1 -> CASE n = 0 -> Entry("Page10", 1)
                          [] n = 1 -> Entry("Page11", 1)
                          [] n \in {6, 7} -> Entry("RelativeL", 3)
                          [] n \in {10, 12} -> Entry("Immediat", 2)
                          [] n \in {14, 15} -> Entry("Register", 2)
                          [] OTHER -> if({2, 3, 9, 13}, Entry("Inherent", 1))
          [] row = 2 -> Entry("Relative", 2)
          [] row = 3 -> CASE n < 4 -> Entry("Indexed", 2)
                          [] n \in 4..7 -> Entry("Register", 2)
                          [] n = 12 -> Entry("Inherent", 2)
                          [] OTHER -> if({9, 10, 11, 13, 15}, Entry("Inherent", 1))
          [] row \in {4, 5} -> if(Unary16 \ {14}, Entry("Inherent", 1))
          [] row = 6 -> IF n \in Unary16 THEN Entry("Indexed", 2)
                        ELSE IF n = 5 THEN Entry("Nameless", 2) ELSE Illegal(2)
          [] row = 7 -> if(Unary16, Entry("Extended", 3))

OptableHigh(op) ==
    LET n == op % 16
        row == op \div 16
    IN  CASE row = 8 /\ n \in {7, 15} -> Illegal(2)
          [] row = 12 /\ n \in {7, 13, 15} -> Illegal(1)
          [] row = 8 /\ n = 13 -> Entry("Relative", 2)
          [] row \in {8, 12} /\ n \in {3, 12, 14} -> Entry("ImmediatL", 3)
          [] row \in {8, 12} /\ n \notin {3, 7, 12, 13, 14, 15} -> Entry("Immediat", 2)
          [] row % 4 = 1 -> Entry("Direct", 2)
          [] row % 4 = 2 -> Entry("Indexed", 2)
          [] row % 4 = 3 -> Entry("Extended", 3)

(* Instructions that a prefix makes others of; the bytes count the prefix. *)
Prefixed(op, imm, other) ==
    CASE op \in imm -> Entry("ImmediatL", 4)
      [] op - 16 \in other -> Entry("Direct", 3)
      [] op - 32 \in other -> Entry("Indexed", 3)
      [] op - 48 \in other -> Entry("Extended", 4)
      [] OTHER -> Illegal(1)

Optable10Low(op) == CASE op \in 33..47 -> Entry("RelativeL", 4)
                      [] op = 63 -> Entry("OS9", 3)
                      [] OTHER -> Illegal(1)
Optable10High(op) == IF op < 192 THEN Prefixed(op, {131, 140, 142}, {131, 140, 142, 143})
                                 ELSE Prefixed(op, {206}, {206, 207})
Optable11Low(op) == IF op = 63 THEN Entry("Inherent", 2) ELSE Illegal(1)
Optable11High(op) == IF op < 192 THEN Prefixed(op, {131, 140}, {131, 140}) ELSE Illegal(1)

optable(op) == IF op < 128 THEN OptableLow(op) ELSE OptableHigh(op)
optable10(op) == IF op < 128 THEN Optable10Low(op) ELSE Optable10High(op)
optable11(op) == IF op < 128 THEN Optable11Low(op) ELSE Optable11High(op)

-----------------------------------------------------------------------------
(* The functions that write a line; address is -1 where the line has none. *)

Line(bytes, named, address) == [bytes |-> bytes, named |-> named, address |-> address]

(* D_Relative takes an offset of 127 for a negative one, and D_RelativeL   *)
(* one of 32767.                                                           *)
D_Relative(m, q, e) ==
    LET offset == At(m, q + 1)
    IN  Line(e.bytes, TRUE, (q + 2 + offset - IF offset < 127 THEN 0 ELSE 256) % 65536)
D_RelativeL(m, q, e) ==
    LET offset == WordAt(m, q + 1)
    IN  Line(e.bytes, TRUE, (q + 3 + offset - IF offset < 32767 THEN 0 ELSE 65536) % 65536)

(* D_Indexed up to the modes with indirection: bytes after the postbyte,   *)
(* whether it prints an operand, and the address for PCR.                  *)
Direct16(m, q, b) ==
    CASE b % 32 \in {8} -> Line(1, TRUE, -1)
      [] b % 32 \in {9} -> Line(2, TRUE, -1)
      [] b % 32 = 12 -> Line(1, TRUE, (q + 3 + Signed(At(m, q + 2))) % 65536)
      [] b % 32 = 13 -> Line(2, TRUE, (q + 4 + WordAt(m, q + 2)) % 65536)
      [] OTHER -> Line(0, b % 32 \notin {7, 10, 14, 15}, -1)

(* The modes with indirection: a negative offset of 16 bits loses $8001    *)
(* where it should lose $10000.                                            *)
Indirect16(m, q, b) ==
    LET offset == WordAt(m, q + 2)
    IN  CASE b % 32 = 24 -> Line(1, TRUE, -1)
          [] b % 32 \in {25, 31} -> Line(2, TRUE, -1)
          [] b % 32 = 28 -> Line(1, TRUE, (q + 3 + Signed(At(m, q + 2))) % 65536)
          [] b % 32 = 29 -> Line(2, TRUE,
                                 (q + 4 + offset - IF offset > 32767 THEN 32769 ELSE 0) % 65536)
          [] OTHER -> Line(0, b % 32 \notin {16, 18, 23, 26, 30}, -1)

D_Indexed(m, q, e) ==
    LET b == At(m, q + 1)
        i == CASE b < 128 -> Line(0, TRUE, -1)
               [] b >= 128 /\ Bit(b, 16) = 0 -> Direct16(m, q, b)
               [] OTHER -> Indirect16(m, q, b)
    IN  Line(e.bytes + i.bytes, i.named /\ e.display = "Indexed", i.address)

(* The lines that take their length from the table. *)
Plain(e) == Line(e.bytes, e.display # "Illegal", -1)

Display(m, q, e) == CASE e.display = "Relative" -> D_Relative(m, q, e)
                      [] e.display = "RelativeL" -> D_RelativeL(m, q, e)
                      [] e.display \in {"Indexed", "Nameless"} -> D_Indexed(m, q, e)
                      [] OTHER -> Plain(e)

(* D_Page10 and D_Page11 write the line of the byte after the prefix.      *)
D_Page10(m, q) == Display(m, q + 1, optable10(At(m, q + 1)))
D_Page11(m, q) == Display(m, q + 1, optable11(At(m, q + 1)))

(* One turn of disasm: the line at q. *)
Disassembled(m, q) ==
    LET e == optable(At(m, q))
    IN  CASE e.display = "Page10" -> D_Page10(m, q)
          [] e.display = "Page11" -> D_Page11(m, q)
          [] OTHER -> Display(m, q, e)

(* disasm(q, q) for the debugger: at the first of the addresses where a    *)
(* table of texts is supposed the bytes are dumped.                        *)
FirstText == 49953                                            \* $C321
disasm(m, q) == IF q = FirstText THEN Line(16, FALSE, -1) ELSE Disassembled(m, q)
=============================================================================
