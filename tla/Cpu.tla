---------------------------------- MODULE Cpu ----------------------------------
(***************************************************************************)
(* The instructions of engine.c, built without the MMU: a machine is a     *)
(* record of the registers and of the memory, and Exec gives the machine   *)
(* after the instruction at its program counter.  Devices, interrupts,     *)
(* SYNC and CWAI are the matter of Engine.                                 *)
(***************************************************************************)
EXTENDS Alu, Sequences

CONSTANTS RomStart,     \* romstart: writes from here on are dropped
          MaxPrefix     \* bytes $10 and $11 before an opcode, at most

ASSUME RomAssumption == RomStart \in 0..65536 /\ MaxPrefix \in Nat

(* mem holds the bytes that are not 0, or were written. *)
Machine == [a : Byte, b : Byte, dp : Byte, cc : SUBSET Flags,
            x : Word, y : Word, u : Word, s : Word, pc : Word,
            mem : UNION {[q -> Byte] : q \in SUBSET Word}]

-----------------------------------------------------------------------------
(* Memory and registers. *)

At(m, q) == IF q % 65536 \in DOMAIN m.mem THEN m.mem[q % 65536] ELSE 0
WordAt(m, q) == 256 * At(m, q) + At(m, q + 1)

SetByte(m, q, v) ==
    IF q >= RomStart THEN m
    ELSE [m EXCEPT !.mem = [p \in DOMAIN m.mem \cup {q} |-> IF p = q THEN v ELSE m.mem[p]]]

SetWord(m, q, w) == SetByte(SetByte(m, q, Hi(w)), (q + 1) % 65536, Lo(w))

Skip(m, n) == [m EXCEPT !.pc = (@ + n) % 65536]
Jump(m, q) == [m EXCEPT !.pc = q % 65536]

D(m) == 256 * m.a + m.b
SetD(m, w) == [m EXCEPT !.a = Hi(w), !.b = Lo(w)]

ByteRegs == {"a", "b", "dp", "cc"}
Reg(m, r) == CASE r = "d" -> D(m) [] r = "cc" -> CcByte(m.cc) [] OTHER -> m[r]
SetReg(m, r, v) ==
    CASE r = "d" -> SetD(m, v)
      [] r = "cc" -> [m EXCEPT !.cc = ByteCc(v % 256)]
      [] r \in ByteRegs \ {"cc"} -> [m EXCEPT ![r] = v % 256]
      [] OTHER -> [m EXCEPT ![r] = v]

(* GETREG and SETREG: a code that stands for no register leaves the value  *)
(* (junk: what the C variable happened to hold) and sets nothing.          *)
RegCode == <<"d", "x", "y", "u", "s", "pc", "none", "none",
             "a", "b", "cc", "dp", "none", "none", "none", "none">>
GETREG(m, code, junk) ==
    IF RegCode[code + 1] = "none" THEN junk ELSE Reg(m, RegCode[code + 1])
SETREG(m, code, v) ==
    IF RegCode[code + 1] = "none" THEN m ELSE SetReg(m, RegCode[code + 1], v)

-----------------------------------------------------------------------------
(* Stacks: st is the register that points to the stack. *)

Push(m, st, r) ==
    IF r \in ByteRegs
      THEN LET p == (m[st] + 65535) % 65536
           IN  SetByte([m EXCEPT ![st] = p], p, Reg(m, r))
      ELSE LET p == (m[st] + 65534) % 65536
               n == [m EXCEPT ![st] = p]
           IN  SetWord(n, p, n[r])
Pull(m, st, r) ==
    IF r \in ByteRegs
      THEN SetReg([m EXCEPT ![st] = (@ + 1) % 65536], r, At(m, m[st]))
      ELSE [[m EXCEPT ![st] = (@ + 2) % 65536] EXCEPT ![r] = WordAt(m, m[st])]

(* A frame holds the stack pointer that is not st as other.  A register is *)
(* pushed or pulled if it is one of regs, and the frame has the order of   *)
(* the statements: PULS begins with what PSHS ends with.                   *)
Other(st) == IF st = "s" THEN "u" ELSE "s"
Frame(other) == {"pc", other, "y", "x", "dp", "b", "a", "cc"}

PushIn(m, st, regs, r) == IF r \in regs THEN Push(m, st, r) ELSE m
PullIn(m, st, regs, r) == IF r \in regs THEN Pull(m, st, r) ELSE m

PushAll(m, st, other, regs) ==
    LET push(n, r) == PushIn(n, st, regs, r)
        words == push(push(push(push(m, "pc"), other), "y"), "x")
    IN  push(push(push(push(words, "dp"), "b"), "a"), "cc")

PullAll(m, st, other, regs) ==
    LET pull(n, r) == PullIn(n, st, regs, r)
        bytes == pull(pull(pull(pull(m, "cc"), "a"), "b"), "dp")
    IN  pull(pull(pull(pull(bytes, "x"), "y"), other), "pc")

(* The registers that a postbyte of PSHS (st = "s") or PSHU names.         *)
StackMask == [pc |-> 128, u |-> 64, s |-> 64, y |-> 32, x |-> 16,
              dp |-> 8, b |-> 4, a |-> 2, cc |-> 1]
Listed(b, other) == {r \in Frame(other) : Bit(b, StackMask[r]) = 1}

(* Mutant: the words are pulled before the bytes. *)
PulledWordsFirst(m, st) ==
    LET regs == Listed(At(m, m.pc), Other(st))
        words == PullAll(Skip(m, 1), st, Other(st), regs \ ByteRegs)
    IN  PullAll(words, st, Other(st), regs \cap ByteRegs)

(* Mutant: the postbyte is not skipped before pc is pushed. *)
PushedEarly(m, st) ==
    Skip(PushAll(m, st, Other(st), Listed(At(m, m.pc), Other(st))), 1)

Pushed(m, st) == PushAll(Skip(m, 1), st, Other(st), Listed(At(m, m.pc), Other(st)))
Pulled(m, st) == PullAll(Skip(m, 1), st, Other(st), Listed(At(m, m.pc), Other(st)))

-----------------------------------------------------------------------------
(* Addressing modes: the machine past the operand, and the address of it.  *)

Operand(m, q) == [m |-> m, ea |-> q % 65536]

IMM8(m) == Operand(Skip(m, 1), m.pc)
IMM16(m) == Operand(Skip(m, 2), m.pc)
DIRECT(m) == Operand(Skip(m, 1), 256 * m.dp + At(m, m.pc))
EXTENDED(m) == Operand(Skip(m, 2), WordAt(m, m.pc))

(* Postbytes below $80: an offset of five bits. *)
IndexReg(b) == <<"x", "y", "u", "s">>[((b \div 32) % 4) + 1]
Offset5(m, b) == LET n == b % 32
                 IN  Operand(m, m[IndexReg(b)] + (IF n < 16 THEN n ELSE 65504 + n))

(* Postbytes from $80 on, without the bit for indirection; the ones that   *)
(* stand for no mode give the address 0.                                   *)
IllegalModes == {7, 10, 14}
IndexedMode(m, b) ==
    LET r == IndexReg(b)
        to(d) == [m EXCEPT ![r] = (@ + d) % 65536]
        n == b % 16
    IN  CASE n = 0 -> Operand(to(1), m[r])
          [] n = 1 -> Operand(to(2), m[r])
          [] n = 2 -> Operand(to(65535), m[r] + 65535)
          [] n = 3 -> Operand(to(65534), m[r] + 65534)
          [] n = 4 -> Operand(m, m[r])
          [] n = 5 -> Operand(m, m[r] + Signed(m.b))
          [] n = 6 -> Operand(m, m[r] + Signed(m.a))
          [] n = 8 -> Operand(Skip(m, 1), m[r] + Signed(At(m, m.pc)))
          [] n = 9 -> Operand(Skip(m, 2), m[r] + WordAt(m, m.pc))
          [] n = 11 -> Operand(m, m[r] + D(m))
          [] n = 12 -> Operand(Skip(m, 1), m.pc + 1 + Signed(At(m, m.pc)))
          [] n = 13 -> Operand(Skip(m, 2), m.pc + 2 + WordAt(m, m.pc))
          [] n = 15 -> EXTENDED(m)
          [] n \in IllegalModes -> Operand(m, 0)

Indirect(o) == Operand(o.m, WordAt(o.m, o.ea))

INDEXED(m) ==
    LET b == At(m, m.pc)
        i == IndexedMode(Skip(m, 1), b)
    IN  CASE b < 128 -> Offset5(Skip(m, 1), b)
          [] b >= 128 /\ (Bit(b, 16) = 0 \/ b % 16 \in IllegalModes) -> i
          [] OTHER -> Indirect(i)

-----------------------------------------------------------------------------
(* The rows of the table of opcodes: n is the low digit of the opcode.     *)

UnaryOp == <<"NEG", "ill", "ill", "COM", "LSR", "ill", "ROR", "ASR",
             "ASL", "ROL", "DEC", "ill", "INC", "TST", "JMP", "CLR">>

(* A result and its flags, in a register, in memory and in D. *)
Into(m, r, t) == [m EXCEPT ![r] = t.r, !.cc = t.cc]
IntoByte(m, q, t) == [SetByte(m, q, t.r) EXCEPT !.cc = t.cc]
IntoD(m, t) == [SetD(m, t.r) EXCEPT !.cc = t.cc]

AtAddress(n, o) ==
    LET op == UnaryOp[n + 1]
        u == Unary(op, At(o.m, o.ea), o.m.cc)
    IN  CASE op = "ill" -> o.m
          [] op = "JMP" -> Jump(o.m, o.ea)
          [] op = "TST" -> [o.m EXCEPT !.cc = u.cc]
          [] OTHER -> IntoByte(o.m, o.ea, u)

OnRegister(m, n, r) ==
    IF UnaryOp[n + 1] \in {"ill", "JMP"} THEN m
    ELSE Into(m, r, Unary(UnaryOp[n + 1], m[r], m.cc))

Row0(m, n) == IF UnaryOp[n + 1] = "ill" THEN m ELSE AtAddress(n, DIRECT(m))
Row4(m, n) == OnRegister(m, n, "a")
Row5(m, n) == OnRegister(m, n, "b")
Row6(m, n) == AtAddress(n, INDEXED(m))
Row7(m, n) == IF UnaryOp[n + 1] = "ill" THEN m ELSE AtAddress(n, EXTENDED(m))

Subroutine(m, q) == Jump(Push(m, "s", "pc"), q)

Row1(m, n, junk) ==
    LET b == At(m, m.pc)
        w == WordAt(m, m.pc)
        i == Skip(m, 1)
        l == Skip(m, 2)
    IN  CASE n = 6 -> Jump(l, l.pc + w)                          \* LBRA
          [] n = 7 -> Subroutine(l, l.pc + w)                     \* LBSR
          [] n = 9 -> Into(m, "a", Daa(m.a, m.cc))
          [] n = 10 -> [i EXCEPT !.cc = ByteCc(Or(CcByte(@), b))]
          [] n = 12 -> [i EXCEPT !.cc = ByteCc(And(CcByte(@), b))]
          [] n = 13 -> IntoD(m, Sex(m.b, m.cc))
          [] n = 14 -> SETREG(SETREG(i, b \div 16, GETREG(i, b % 16, junk)),
                              b % 16, GETREG(i, b \div 16, junk))  \* EXG
          [] n = 15 -> SETREG(i, b % 16, GETREG(i, b \div 16, junk))
          [] n \in {0, 1, 2, 3, 4, 5, 8, 11} -> m                 \* NOP, SYNC; illegal

(* Mutant: the offset of a long branch is counted from its own place. *)
BranchEarly(m, n, flag) ==
    LET next == Skip(m, IF flag = 0 THEN 1 ELSE 2)
        d == IF flag = 0 THEN Signed(At(m, m.pc)) ELSE WordAt(m, m.pc)
    IN  IF Taken(n, m.cc) THEN Jump(next, m.pc + 1 + d) ELSE next

Row2(m, n, flag) ==
    LET next == Skip(m, IF flag = 0 THEN 1 ELSE 2)
        d == IF flag = 0 THEN Signed(At(m, m.pc)) ELSE WordAt(m, m.pc)
    IN  IF Taken(n, m.cc) THEN Jump(next, next.pc + d) ELSE next

RTI(m) ==
    LET c == Pull(m, "s", "cc")
    IN  PullAll(c, "s", "u", IF "E" \in c.cc THEN Frame("u") \ {"cc"} ELSE {"pc"})
SWI(m, flag) ==
    LET p == PushAll([m EXCEPT !.cc = @ \cup {"E"}], "s", "u", Frame("u"))
    IN  CASE flag = 0 -> Jump([p EXCEPT !.cc = @ \cup {"I", "F"}], WordAt(p, 65530))
          [] flag = 1 -> Jump(p, WordAt(p, 65524))
          [] flag = 2 -> Jump(p, WordAt(p, 65522))

(* LEAX and LEAY set Z, LEAS and LEAU do not. *)
LEA(n, o) ==
    LET r == <<"x", "y", "s", "u">>[n + 1]
    IN  [o.m EXCEPT ![r] = o.ea, !.cc = IF n < 2 THEN Put(@, "Z", o.ea = 0) ELSE @]

Row3(m, n, flag) ==
    CASE n \in 0..3 -> LEA(n, INDEXED(m))
      [] n = 4 -> Pushed(m, "s")
      [] n = 5 -> Pulled(m, "s")
      [] n = 6 -> Pushed(m, "u")
      [] n = 7 -> Pulled(m, "u")
      [] n = 9 -> Pull(m, "s", "pc")                          \* RTS
      [] n = 10 -> [m EXCEPT !.x = (@ + m.b) % 65536]          \* ABX
      [] n = 11 -> RTI(m)
      [] n = 13 -> IntoD(m, Mul(m.a, m.b, m.cc))
      [] n = 15 -> SWI(m, flag)
      [] n \in {8, 12, 14} -> m                              \* CWAI; illegal

-----------------------------------------------------------------------------
BinaryOp == <<"SUB", "CMP", "SBC", "16", "AND", "BIT", "LD", "ST",
              "EOR", "ADC", "OR", "ADD", "16", "16", "16", "16">>

Accumulator(n, o, r) ==
    IF n = 7 THEN [SetByte(o.m, o.ea, o.m[r]) EXCEPT !.cc = SetNZ8(@ \ {"V"}, o.m[r])]
    ELSE Into(o.m, r, Binary(BinaryOp[n + 1], o.m[r], At(o.m, o.ea), o.m.cc))

Load16(o, r) == LET w == WordAt(o.m, o.ea)
                IN  [SetReg(o.m, r, w) EXCEPT !.cc = Move16(w, @)]
Store16(o, r) == LET w == Reg(o.m, r)
                 IN  [SetWord(o.m, o.ea, w) EXCEPT !.cc = Move16(w, @)]
Compare16(o, r) == [o.m EXCEPT !.cc = Sub16(Reg(o.m, r), WordAt(o.m, o.ea), @).cc]

(* Opcodes $80 to $BF: A, D, and X or what a prefix makes of it.           *)
ColumnA(n, o, flag) ==
    CASE n = 3 /\ flag = 0 -> IntoD(o.m, Sub16(D(o.m), WordAt(o.m, o.ea), o.m.cc))
      [] n = 3 /\ flag # 0 -> Compare16(o, IF flag = 2 THEN "u" ELSE "d")
      [] n = 12 -> Compare16(o, <<"x", "y", "s">>[flag + 1])
      [] n = 13 -> Subroutine(o.m, o.ea)
      [] n = 14 -> Load16(o, IF flag = 0 THEN "x" ELSE "y")
      [] n = 15 -> Store16(o, IF flag = 0 THEN "x" ELSE "y")
      [] OTHER -> Accumulator(n, o, "a")

(* Opcodes $C0 to $FF: B, D, and U or S.                                   *)
ColumnB(n, o, flag) ==
    CASE n = 3 -> IntoD(o.m, Add16(D(o.m), WordAt(o.m, o.ea), o.m.cc))
      [] n = 12 -> Load16(o, "d")
      [] n = 13 -> Store16(o, "d")
      [] n = 14 -> Load16(o, IF flag = 0 THEN "u" ELSE "s")
      [] n = 15 -> Store16(o, IF flag = 0 THEN "u" ELSE "s")
      [] OTHER -> Accumulator(n, o, "b")

Row8(m, n, flag) ==
    IF n = 13 THEN Subroutine(Skip(m, 1), m.pc + 1 + Signed(At(m, m.pc)))     \* BSR
    ELSE ColumnA(n, IF BinaryOp[n + 1] = "16" THEN IMM16(m) ELSE IMM8(m), flag)
Row9(m, n, flag) == ColumnA(n, DIRECT(m), flag)
RowA(m, n, flag) == ColumnA(n, INDEXED(m), flag)
RowB(m, n, flag) == ColumnA(n, EXTENDED(m), flag)
RowC(m, n, flag) == ColumnB(n, IF BinaryOp[n + 1] = "16" THEN IMM16(m) ELSE IMM8(m), flag)
RowD(m, n, flag) == ColumnB(n, DIRECT(m), flag)
RowE(m, n, flag) == ColumnB(n, INDEXED(m), flag)
RowF(m, n, flag) == ColumnB(n, EXTENDED(m), flag)

(* flaginstr: the last of the prefixes counts. *)
PrefixCount(m) == CHOOSE k \in 0..MaxPrefix :
                 /\ At(m, m.pc + k) \notin {16, 17}
                 /\ \A i \in 0..k-1 : At(m, m.pc + i) \in {16, 17}
Flag(m) == LET k == PrefixCount(m) IN IF k = 0 THEN 0 ELSE At(m, m.pc + k - 1) - 15
Opcode(m) == At(m, m.pc + PrefixCount(m))

(* The instruction at pc; junk is what an uninitialized variable holds.    *)
Exec(m, junk) ==
    LET n == Opcode(m) % 16
        flag == Flag(m)
        i == Skip(m, PrefixCount(m) + 1)
        row == Opcode(m) \div 16
    IN  CASE row = 0 -> Row0(i, n)
          [] row = 1 -> Row1(i, n, junk)
          [] row = 2 -> Row2(i, n, flag)
          [] row = 3 -> Row3(i, n, flag)
          [] row = 4 -> Row4(i, n)
          [] row = 5 -> Row5(i, n)
          [] row = 6 -> Row6(i, n)
          [] row = 7 -> Row7(i, n)
          [] row = 8 -> Row8(i, n, flag)
          [] row = 9 -> Row9(i, n, flag)
          [] row = 10 -> RowA(i, n, flag)
          [] row = 11 -> RowB(i, n, flag)
          [] row = 12 -> RowC(i, n, flag)
          [] row = 13 -> RowD(i, n, flag)
          [] row = 14 -> RowE(i, n, flag)
          [] row = 15 -> RowF(i, n, flag)
=============================================================================
