---------------------------------- MODULE V09s ----------------------------------
(***************************************************************************)
(* The instructions of v09s.c, the simulator in one file: a table of       *)
(* functions over the same machine as Cpu's, without devices and           *)
(* interrupts.  Every byte of memory can be written.  What the functions   *)
(* share with engine.c is taken from Cpu, what they do otherwise is        *)
(* written out.                                                            *)
(***************************************************************************)
EXTENDS Integers, Sequences

INSTANCE Cpu WITH RomStart <- 65536, MaxPrefix <- 1

-----------------------------------------------------------------------------
(* The functions of pbtable, and postbyte: a postbyte with the bit for     *)
(* indirection always reads a word, also where its mode is illegal.        *)

Mode(m, b) == IndexedMode(m, b)

postbyte(m) ==
    LET b == At(m, m.pc)
        i == Mode(Skip(m, 1), b)
    IN  CASE b < 128 -> Offset5(Skip(m, 1), b)
          [] b >= 128 /\ Bit(b, 16) = 0 -> i
          [] OTHER -> Indirect(i)

(* eaddr8 and eaddr16: q is bits 4 and 5 of the opcode. *)
eaddr8(m, q) == CASE q = 0 -> IMM8(m) [] q = 1 -> DIRECT(m)
                  [] q = 2 -> postbyte(m) [] q = 3 -> EXTENDED(m)
eaddr16(m, q) == IF q = 0 THEN IMM16(m) ELSE eaddr8(m, q)

-----------------------------------------------------------------------------
(* add to bit, ld, st: r is the accumulator. *)
Dyadic(m, n, q, r) == Accumulator(n, eaddr8(m, q), r)

jsr(m, q) == LET o == eaddr8(m, q) IN Subroutine(o.m, o.ea)
bsr(m) == Subroutine(Skip(m, 1), m.pc + 1 + Signed(At(m, m.pc)))

(* neg to clr, with eaddr0: row is bits 4 to 6 of the opcode.  An illegal  *)
(* opcode takes no postbyte.                                               *)
Monadic(m, n, row) ==
    LET done == CASE row = 0 -> AtAddress(n, DIRECT(m))
                  [] row = 4 -> OnRegister(m, n, "a")
                  [] row = 5 -> OnRegister(m, n, "b")
                  [] row = 6 -> AtAddress(n, postbyte(m))
                  [] row = 7 -> AtAddress(n, EXTENDED(m))
    IN  CASE UnaryOp[n + 1] = "ill" -> m
          [] UnaryOp[n + 1] = "TST" -> [done EXCEPT !.cc = @ \ {"V"}]
          [] OTHER -> done

-----------------------------------------------------------------------------
(* tfr and exg: a byte register read as a word is filled with ones, and    *)
(* the reserved codes read as ones.                                        *)
ByteReg == <<"a", "b", "cc", "dp">>
WordReg == <<"d", "x", "y", "u", "s", "pc">>
Known(code) == code % 8 < IF code >= 8 THEN 4 ELSE 6
Named(code) == IF code >= 8 THEN ByteReg[code - 7] ELSE WordReg[code + 1]

Filled(m, code) == CASE ~Known(code) -> 65535
                     [] code >= 8 -> 65280 + Reg(m, Named(code))
                     [] OTHER -> Reg(m, Named(code))
Assign(m, code, w) == IF Known(code) THEN SetReg(m, Named(code), w) ELSE m

tfr(m) == LET b == At(m, m.pc)
              i == Skip(m, 1)
          IN  Assign(i, b % 16, Filled(i, b \div 16))
exg(m) == LET b == At(m, m.pc)
              i == Skip(m, 1)
          IN  Assign(Assign(i, b \div 16, Filled(i, b % 16)), b % 16, Filled(i, b \div 16))

(* rti looks at E before it pulls CC.                                      *)
rti(m) == PullAll(m, "s", "u", IF "E" \in m.cc THEN Frame("u") ELSE {"cc", "pc"})

(* swi pushes CC as it is; with a prefix it prints B, or reads a key into  *)
(* it: key is -1 at the end of the input.                                  *)
swi(m, flag, key) ==
    LET p == PushAll(m, "s", "u", Frame("u"))
    IN  CASE flag = 0 -> Jump([p EXCEPT !.cc = @ \cup {"E", "I", "F"}], WordAt(p, 65530))
          [] flag = 1 -> m
          [] flag = 2 -> [m EXCEPT !.b = key % 256, !.cc = Put(@, "C", key = -1)]

(* lbra to sex, exg and tfr. *)
Inherent(m, n) == CASE n = 14 -> exg(m) [] n = 15 -> tfr(m) [] OTHER -> Row1(m, n, 0)

-----------------------------------------------------------------------------
(* br and the conditions; NXORV does not move V to the place of N.         *)
Branch(m, n, flag) ==
    LET less == "N" \in m.cc \/ "V" \in m.cc
        next == Skip(m, IF flag = 0 THEN 1 ELSE 2)
        d == IF flag = 0 THEN Signed(At(m, m.pc)) ELSE WordAt(m, m.pc)
        f == CASE n = 12 -> ~less
               [] n = 13 -> less
               [] n = 14 -> ~(less \/ "Z" \in m.cc)
               [] n = 15 -> less \/ "Z" \in m.cc
               [] OTHER -> Taken(n, m.cc)
    IN  IF f THEN Jump(next, next.pc + d) ELSE next

lea(m, n) == LEA(n, postbyte(m))

(* pshs and puls; pshu and pulu name U where the processor has S.          *)
UFrame(m) == Listed(At(m, m.pc), "u")

pshu(m) == PushAll(Skip(m, 1), "u", "u", UFrame(m))
pulu(m) ==
    LET low == PullAll(Skip(m, 1), "u", "u", UFrame(m) \ {"u", "pc"})
        own == IF "u" \in UFrame(m) THEN [low EXCEPT !.u = (WordAt(low, @) + 2) % 65536]
               ELSE low
    IN  PullAll(own, "u", "u", UFrame(m) \cap {"pc"})

Stacked(m, n) ==
    CASE n = 4 -> Pushed(m, "s")
      [] n = 5 -> Pulled(m, "s")
      [] n = 6 -> pshu(m)
      [] n = 7 -> pulu(m)

-----------------------------------------------------------------------------
(* addd, subd and cmpx: the register is read before the address is worked  *)
(* out.                                                                    *)
SumD(m, q) == LET o == eaddr16(m, q)
              IN  IntoD(o.m, Add16(D(m), WordAt(o.m, o.ea), m.cc))
Difference(m, q, r, keep) ==
    LET o == eaddr16(m, q)
        t == Sub16(Reg(m, r), WordAt(o.m, o.ea), m.cc)
    IN  [(IF keep THEN SetD(o.m, t.r) ELSE o.m) EXCEPT !.cc = t.cc]
subd(m, q, flag) == Difference(m, q, <<"d", "d", "u">>[flag + 1], flag = 0)
cmpx(m, q, flag) == Difference(m, q, <<"x", "y", "s">>[flag + 1], FALSE)

(* ldd to stu leave V alone. *)
KeepV(m, old) == [m EXCEPT !.cc = Put(@, "V", "V" \in old.cc)]
Load(m, q, r) == KeepV(Load16(eaddr16(m, q), r), m)
Store(m, q, r) == KeepV(Store16(eaddr16(m, q), r), m)

(* The table from $80 on: q is bits 4 and 5 of the opcode.                 *)
Columns(m, n, q, low, flag) ==
    LET one(a, b) == IF flag = 0 THEN a ELSE b
    IN  CASE n = 3 -> IF low THEN subd(m, q, flag) ELSE SumD(m, q)
          [] n = 12 -> IF low THEN cmpx(m, q, flag) ELSE Load(m, q, "d")
          [] n = 13 /\ low -> IF q = 0 THEN bsr(m) ELSE jsr(m, q)
          [] n = 13 /\ ~low -> Store(m, q, "d")
          [] n = 14 -> Load(m, q, IF low THEN one("x", "y") ELSE one("u", "s"))
          [] n = 15 -> Store(m, q, IF low THEN one("x", "y") ELSE one("u", "s"))
          [] OTHER -> Dyadic(m, n, q, IF low THEN "a" ELSE "b")

Misc(m, n, flag, key) ==
    CASE n < 4 -> lea(m, n)
      [] n \in 4..7 -> Stacked(m, n)
      [] n = 11 -> rti(m)
      [] n = 15 -> swi(m, flag, key)
      [] OTHER -> Row3(m, n, flag)                              \* rts, abx, mul

(* instrtable. *)
Perform(m, op, flag, key) ==
    LET n == op % 16
        row == op \div 16
    IN  CASE row = 1 -> Inherent(m, n)
          [] row = 2 -> Branch(m, n, flag)
          [] row = 3 -> Misc(m, n, flag, key)
          [] row \in {0, 4, 5, 6, 7} -> Monadic(m, n, row)
          [] OTHER -> Columns(m, n, row % 4, row < 12, flag)

(* sync and cwai end the program. *)
Halts(m) == Opcode(m) \in {19, 60}

(* flag0 and flag1: a second prefix ends the instruction before it.        *)
Repeated(m) == At(m, m.pc) \in {16, 17} /\ At(m, m.pc + 1) \in {16, 17}

Run(m, key) ==
    LET b == At(m, m.pc)
    IN  IF b \notin {16, 17} THEN Perform(Skip(m, 1), b, 0, key)
        ELSE IF Repeated(m) THEN Skip(m, 1)
        ELSE Perform(Skip(m, 2), At(m, m.pc + 1), b - 15, key)
=============================================================================
