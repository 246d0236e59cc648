------------------------------ MODULE AgreementProps ------------------------------
(***************************************************************************)
(* What the programs of Agreement must show.                               *)
(***************************************************************************)
EXTENDS Agreement, Numbers

MachineOK(m) == /\ m.a \in Byte /\ m.b \in Byte /\ m.dp \in Byte /\ m.cc \subseteq Flags
                /\ {m.x, m.y, m.u, m.s, m.pc} \subseteq Word
                /\ DOMAIN m.mem \subseteq Word
                /\ \A q \in DOMAIN m.mem : m.mem[q] \in Byte

(* No instruction leaves a register or a byte of memory beyond its width.  *)
TypeOK == /\ MachineOK(cpu)
          /\ done \in 0..program.steps

Running == done < program.steps

-----------------------------------------------------------------------------
(* What v09s.c and v09st.c do otherwise than engine.c, instruction by      *)
(* instruction.                                                            *)

Op == Opcode(cpu)
Low == Op % 16
Row == Op \div 16
Behind == Skip(cpu, PrefixCount(cpu) + 1)         \* past the opcode
Next1 == At(Behind, Behind.pc)                    \* the byte after it

OneByteOp == Row \in {0, 4, 5, 6, 7}
HasPostbyte == Row \in {6, 10, 14} \/ Op \in 48..51
AutoMode == Row = 10 /\ Next1 >= 128 /\ Next1 % 16 < 4
Compared == CASE Low = 3 /\ Flag(cpu) = 2 -> "u"
              [] Low = 12 -> <<"x", "y", "s">>[Flag(cpu) + 1]
              [] OTHER -> "none"
Word16Move == \/ Row >= 8 /\ Low \in {14, 15}
              \/ Row >= 12 /\ Low \in {12, 13}

(* The byte that a one-byte instruction works on. *)
WorkedAt == CASE Row = 0 -> DIRECT(Behind) [] Row = 6 -> INDEXED(Behind)
           [] OTHER -> EXTENDED(Behind)
Worked == CASE Row = 4 -> cpu.a [] Row = 5 -> cpu.b [] OTHER -> At(WorkedAt.m, WorkedAt.ea)

IllegalInRow6 == Row = 6 /\ UnaryOp[Low + 1] = "ill"
IllegalIndirect == HasPostbyte /\ Next1 >= 128 /\ Bit(Next1, 16) = 1
                               /\ Next1 % 16 \in IllegalModes
KeepsV == "V" \in cpu.cc /\ (Word16Move \/ (OneByteOp /\ Low = 13))
SignedBranch == Row = 2 /\ Low >= 12 /\ {"N", "V"} \subseteq cpu.cc
ComparesMoved == Row = 10 /\ Low \in {3, 12} /\ AutoMode /\ IndexReg(Next1) = Compared
PullsOtherE == Op = 59 /\ ("E" \in cpu.cc) # (At(cpu, cpu.s) >= 128)
UserStack == Op \in {54, 55} /\ Bit(Next1, 64) = 1
Reserved(code) == RegCode[code + 1] = "none"
TransferMixed == /\ Op \in {30, 31}
                 /\ \/ Reserved(Next1 \div 16) \/ Reserved(Next1 % 16)
                    \/ (Next1 >= 128) # (Bit(Next1, 8) = 1)

(* What the two have in common. *)
Otherwise == \/ IllegalInRow6 \/ IllegalIndirect \/ KeepsV \/ SignedBranch
             \/ ComparesMoved \/ PullsOtherE \/ TransferMixed
             \/ Op \in {19, 60, 63}                          \* SYNC, CWAI, SWI
             \/ PrefixCount(cpu) > 1

OtherwiseS == Otherwise \/ UserStack

OtherwiseT ==
    LET w == cpu.a * cpu.b
    IN  \/ Otherwise
        \/ OneByteOp /\ Low = 3
        \/ OneByteOp /\ Low \in {4, 7} /\ ("H" \in cpu.cc) # (Bit(Worked, 16) = 1)
        \/ OneByteOp /\ Low = 9 /\ ("V" \in cpu.cc) # (Bit(Worked, 128) # Bit(Worked, 64))
        \/ Op = 25 /\ "C" \in cpu.cc
        \/ Op = 61 /\ (w >= 256) # (Bit(w, 128) = 1)

Ram(m) == [m EXCEPT !.mem = [q \in {p \in DOMAIN @ : p < RomStart} |-> @[q]]]

(* An instruction leaves the registers and the memory below romstart the   *)
(* same in engine.c, v09s.c and v09st.c, whatever it is, but for the ones  *)
(* listed above: three decoders written apart, with the length of every    *)
(* postbyte, the order of reads and increments, and every flag. Prefixes   *)
(* alone (more than MaxPrefix) are no instruction.                         *)
OldSimulatorsAgree ==
    LET e == Ram(Exec(cpu, 0))
    IN  Running /\ Decodable(cpu) => /\ OtherwiseS \/ Ram(S!Run(cpu, -1)) = e
                                     /\ OtherwiseT \/ Ram(T!RunSt(cpu, -1)) = e

-----------------------------------------------------------------------------
(* Instructions that go on behind themselves. *)
Straight == /\ Row # 2
            /\ ~(Low = 14 /\ Row \in {0, 6, 7})
            /\ Op \notin {22, 23, 57, 59, 60, 63, 141, 157, 173, 189}
            /\ ~(Op \in {53, 55} /\ Next1 >= 128)
            /\ ~(Op = 30 /\ 5 \in {Next1 \div 16, Next1 % 16})
            /\ ~(Op = 31 /\ Next1 % 16 = 5)

Short == Flag(cpu) = 0 /\ Op \notin {22, 23}
Jumps == Op \in {22, 23, 141} \/ (Row = 2 /\ Taken(Low, cpu.cc))
StaysInRow2 == Row = 2 /\ ~Taken(Low, cpu.cc)
PcRelative == Op = 48 /\ Next1 >= 128 /\ Next1 % 16 \in {12, 13}       \* LEAX n,PCR
LateIndirect == Next1 % 32 = 29 /\ WordAt(Behind, Behind.pc + 1) > 32767

(* What the disassembler gives a name to it shows with the length that     *)
(* the processor gives it, and a branch and an operand of LEA relative to  *)
(* the program counter with the address the processor takes; except an     *)
(* offset of 127 of a short branch, a negative one of [n,PCR], and code at *)
(* the place of its first text.  (D_RelativeL takes an offset of 32767 for *)
(* a negative one, but the address it prints is masked to 16 bits.)        *)
ListingAgrees ==
    LET line == L!disasm(cpu, cpu.pc)
        e == Exec(cpu, 0)
        shown == IF Bit(Next1, 16) = 1 THEN WordAt(cpu, line.address) ELSE line.address
    IN  Running /\ line.named =>
          /\ (Straight \/ StaysInRow2 => e.pc = (cpu.pc + line.bytes) % 65536)
          /\ (Jumps /\ ~(Short /\ Next1 = 127) => e.pc = line.address)
          /\ (PcRelative /\ ~LateIndirect => e.x = shown)

Calls == \/ (PrefixCount(cpu) = 0 /\ Op \in {23, 63, 141, 157, 173, 189})
         \/ (PrefixCount(cpu) = 1 /\ Op = 63)

(* Step over stops where the call comes back: the breakpoint that nexti    *)
(* sets is at the return address which the instruction pushes, for every   *)
(* call without a prefix, whatever its postbyte; a system call of OS-9     *)
(* comes back one byte behind that address.                                *)
StepOverReturns ==
    LET e == Exec(cpu, 0)
        frame == IF Op = 63 THEN e.s + 10 ELSE e.s
        os9 == IF Op = 63 /\ Flag(cpu) = 1 THEN 1 ELSE 0
    IN  Running /\ Calls => /\ nexti(cpu) > 0
                            /\ WordAt(e, frame) + os9 = cpu.pc + nexti(cpu)

-----------------------------------------------------------------------------
(* The programs that the properties below are about, by their bytes: CMPA  *)
(* or CMPX and a branch, ADDB and ADCA, SUBB and SBCA, ADCA or ADDA and    *)
(* DAA, PSH and PUL of the same postbyte, and SWI to SWI3.                 *)
ComparesByte(c) == Len(c) = 4 /\ c[1] = 129 /\ c[3] - 32 \in Conditions /\ c[4] = 16
ComparesWord(c) == /\ Len(c) = 7 /\ c[1] = 140
                   /\ c[4] = 16 /\ c[5] - 32 \in Conditions /\ c[6] = 1 /\ c[7] = 0
Adds(c) == Len(c) = 4 /\ c[1] = 203 /\ c[3] = 137
Subtracts(c) == Len(c) = 4 /\ c[1] = 192 /\ c[3] = 130
Adjusts(c) == Len(c) = 3 /\ c[1] \in {137, 139} /\ Decimal(c[2]) /\ c[3] = 25

PushesPulls(c) == Len(c) = 4 /\ c[1] \in {52, 54} /\ c[3] = c[1] + 1 /\ c[4] = c[2]
Interrupts(c) == c \in {<<63>>, <<16, 63>>, <<17, 63>>}

(* A whole frame fits below top, in RAM, and apart from the addresses used. *)
StackClear(top, used) == /\ 12 <= top /\ top <= RomStart
                         /\ used \cap (top - 12)..(top - 1) = {}

(* The vector of the interrupt leads to an RTI, and the frame to neither.  *)
VectorOf(c) == CASE c[1] = 63 -> 65530 [] c[1] = 16 -> 65524 [] c[1] = 17 -> 65522
Handled(c, r) ==
    LET v == VectorOf(c)
        m == Loaded([code |-> c, regs |-> r])
        h == WordAt(m, v)
    IN  At(m, h) = 59 /\ StackClear(r.s, {v, v + 1, h})

ASSUME ShapesAssumption ==
    /\ Place <= 65528 /\ MaxPrefix >= 1
    /\ \A p \in Programs : \A c \in p.codes, r \in p.regs :
          /\ r.a \in Byte /\ r.b \in Byte /\ r.x \in Word /\ r.cc \in SUBSET Flags
          /\ p.kind = "CMPA" => p.steps = 2 /\ ComparesByte(c)
          /\ p.kind = "CMPX" => p.steps = 2 /\ ComparesWord(c)
          /\ p.kind = "ADD" => p.steps = 2 /\ Adds(c)
          /\ p.kind = "SUB" => p.steps = 2 /\ Subtracts(c)
          /\ p.kind = "DAA" => p.steps = 2 /\ Adjusts(c) /\ Decimal(r.a)
          /\ p.kind = "PSH" => /\ p.steps = 2 /\ PushesPulls(c)
                               /\ StackClear(IF c[1] = 52 THEN r.s ELSE r.u, Place..Place + 3)
          /\ p.kind = "SWI" => p.steps = 2 /\ Interrupts(c) /\ Handled(c, r)

Ended(kind) == program.kind = kind /\ done = program.steps
First == Loaded(program)

(* The operand of the first instruction, of one byte or of two.            *)
Operand1 == At(First, First.pc + 1)
OperandW == WordAt(First, First.pc + 1)

(* After CMPA or CMPX a conditional branch is taken exactly when the two   *)
(* numbers are in the order it is named for, signed or unsigned, also      *)
(* where the difference overflows.                                         *)
BranchOrder ==
    LET short == At(First, First.pc + 2) % 16
        long == At(First, First.pc + 4) % 16
    IN  /\ (Ended("CMPA") => (cpu.pc # First.pc + 4 <=> Meant(short, First.a, Operand1, 8)))
        /\ (Ended("CMPX") => (cpu.pc # First.pc + 7 <=> Meant(long, First.x, OperandW, 16)))

(* ADDB and ADCA add as ADDD does, SUBB and SBCA subtract as SUBD does,    *)
(* with the carry, the overflow and the sign; and DAA makes the decimal    *)
(* sum and carry of an ADDA or ADCA of decimal digits, except where the    *)
(* binary sum is 250 to 255: its second correction carries out of the      *)
(* byte, and the third, which looks at bits 4 to 7, is not made.           *)
SumsRight ==
    LET lo == Operand1
        hi == At(First, First.pc + 3)
        wide == IF program.kind = "ADD" THEN Add16(D(First), 256 * hi + lo, First.cc)
                ELSE Sub16(D(First), 256 * hi + lo, First.cc)
        carried == IF At(First, First.pc) = 137 THEN Carry(First.cc) ELSE 0      \* ADCA
        binary == First.a + Operand1 + carried
        decimal == Digits(First.a) + Digits(Operand1) + carried
        lost == IF binary \in 250..255 THEN 160 ELSE 0
    IN  /\ (Ended("ADD") \/ Ended("SUB") =>
               /\ D(cpu) = wide.r
               /\ cpu.cc \cap {"C", "V", "N"} = wide.cc \cap {"C", "V", "N"})
        /\ (Ended("DAA") => /\ "C" \in cpu.cc <=> decimal >= 100
                            /\ cpu.a = (Bcd(decimal) + lost) % 256)

(* Pushing registers and pulling the same ones restores every register and *)
(* the stack, whatever the mask, on either stack, and so does an interrupt *)
(* by SWI and the RTI of its handler, which leaves E set.                  *)
StackRestores ==
    LET same(cc) == [First EXCEPT !.pc = cpu.pc, !.mem = cpu.mem, !.cc = cc]
    IN  /\ (Ended("PSH") => cpu = same(First.cc))
        /\ (Ended("SWI") => /\ cpu = same(First.cc \cup {"E"})
                            /\ cpu.pc = First.pc + PrefixCount(First) + 1)
=============================================================================
