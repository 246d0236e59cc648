---------------------------------- MODULE V09st ----------------------------------
(***************************************************************************)
(* The instructions of v09st.c, the simulator for Turbo C that v09s.c grew *)
(* out of.  A function that computes what its namesake of v09s.c computes  *)
(* is that one; the others are written out.                                *)
(***************************************************************************)
EXTENDS Integers, Sequences

INSTANCE V09s

(* postbyte with its modes, eaddr8 and eaddr16. *)
ByPostbyte(m) == postbyte(m)
Operand8(m, q) == eaddr8(m, q)
Operand16(m, q) == eaddr16(m, q)

(* add to bsr. *)
Arithmetic(m, n, q, r) == Accumulator(n, Operand8(m, q), r)
Call(m, q) == IF q = 0 THEN bsr(m)
              ELSE LET o == Operand8(m, q) IN Subroutine(o.m, o.ea)

(* neg to clr: com is 0^x, which changes nothing but the flags; lsr and    *)
(* asr leave H, rol leaves V.                                              *)
Kept(op) == CASE op \in {"LSR", "ASR"} -> {"H"} [] op = "ROL" -> {"V"} [] OTHER -> {}
OneByte(op, b, cc) ==
    LET u == Unary(op, b, cc)
    IN  CASE op = "COM" -> [r |-> b, cc |-> SetNZ8(cc \cup {"C"}, b) \ {"V"}]
          [] op = "TST" -> [r |-> b, cc |-> u.cc \ {"V"}]
          [] OTHER -> [r |-> u.r, cc |-> (u.cc \ Kept(op)) \cup (cc \cap Kept(op))]

Single(m, n, row) ==
    LET op == UnaryOp[n + 1]
        o == CASE row = 0 -> DIRECT(m) [] row = 6 -> ByPostbyte(m) [] OTHER -> EXTENDED(m)
        r == IF row = 4 THEN "a" ELSE "b"
        inMem == OneByte(op, At(o.m, o.ea), o.m.cc)
    IN  IF row \in {4, 5}
          THEN IF op \in {"ill", "JMP"} THEN m ELSE Into(m, r, OneByte(op, m[r], m.cc))
          ELSE CASE op = "ill" -> m
                 [] op = "JMP" -> Jump(o.m, o.ea)
                 [] op = "TST" -> [o.m EXCEPT !.cc = inMem.cc]
                 [] OTHER -> IntoByte(o.m, o.ea, inMem)

-----------------------------------------------------------------------------
(* daa clears C where there is no carry; mul sets it where A is not 0.     *)
daa(m) == LET t == Adjusted(m.a, m.cc)
          IN  [m EXCEPT !.a = Lo(t), !.cc = Put(@, "C", Bit(t, 256) = 1)]
mul(m) == LET w == m.a * m.b
          IN  [SetD(m, w) EXCEPT !.cc = Put(Put(@, "Z", w = 0), "C", w >= 256)]

(* tfr and exg: the top bit of the postbyte tells bytes from words, and    *)
(* codes 6 and 7 are S and PC again.                                       *)
Pair(b) == IF b >= 128
             THEN <<ByteReg[((b \div 16) % 4) + 1], ByteReg[(b % 4) + 1]>>
             ELSE LET w == <<"d", "x", "y", "u", "s", "pc", "s", "pc">>
                  IN  <<w[((b \div 16) % 8) + 1], w[(b % 8) + 1]>>
Transfer(m) == LET p == Pair(At(m, m.pc))
                   i == Skip(m, 1)
               IN  SetReg(i, p[2], Reg(i, p[1]))
Exchange(m) == LET p == Pair(At(m, m.pc))
                   i == Skip(m, 1)
               IN  SetReg(SetReg(i, p[2], Reg(i, p[1])), p[1], Reg(i, p[2]))

(* lbra to sex, abx, rts, rti and swi. *)
Simple(m, n) == CASE n = 9 -> daa(m) [] n = 14 -> Exchange(m) [] n = 15 -> Transfer(m)
                  [] OTHER -> Row1(m, n, 0)
Interrupts(m, n, flag, key) == IF n = 11 THEN rti(m) ELSE swi(m, flag, key)

Conditional(m, n, flag) == Branch(m, n, flag)
LoadAddress(m, n) == lea(m, n)

(* pshs to pulu: with U and S swapped, so that U's stack takes S.          *)
Stack(m, n) == CASE n = 4 -> Pushed(m, "s") [] n = 5 -> Pulled(m, "s")
                 [] n = 6 -> Pushed(m, "u") [] n = 7 -> Pulled(m, "u")

(* addd to cmpx, ldd to stu. *)
Sums(m, n, q, low, flag) == CASE n = 12 -> cmpx(m, q, flag)
                              [] n = 3 /\ low -> subd(m, q, flag)
                              [] n = 3 /\ ~low -> SumD(m, q)
Moves(m, n, q, r) == IF n \in {12, 14} THEN KeepV(Load16(Operand16(m, q), r), m)
                     ELSE KeepV(Store16(Operand16(m, q), r), m)

(* instrtable. *)
PerformSt(m, op, flag, key) ==
    LET n == op % 16
        row == op \div 16
        low == row < 12
        word == IF low THEN <<"x", "y">> ELSE <<"u", "s">>
    IN  CASE row = 1 -> Simple(m, n)
          [] row = 2 -> Conditional(m, n, flag)
          [] row = 3 -> CASE n < 4 -> LoadAddress(m, n) [] n \in 4..7 -> Stack(m, n)
                          [] n \in {11, 15} -> Interrupts(m, n, flag, key)
                          [] n = 13 -> mul(m) [] OTHER -> Row3(m, n, flag)
          [] row < 8 /\ row \notin 1..3 -> Single(m, n, row)
          [] row >= 8 /\ (n = 3 \/ (n = 12 /\ low)) -> Sums(m, n, row % 4, low, flag)
          [] row >= 8 /\ n = 13 /\ low -> Call(m, row % 4)
          [] row >= 8 /\ n \in {12, 13} /\ ~low -> Moves(m, n, row % 4, "d")
          [] row >= 8 /\ n \in {14, 15} -> Moves(m, n, row % 4, word[IF flag = 0 THEN 1 ELSE 2])
          [] OTHER -> Arithmetic(m, n, row % 4, IF low THEN "a" ELSE "b")

RunSt(m, key) ==
    LET b == At(m, m.pc)
    IN  IF b \notin {16, 17} THEN PerformSt(Skip(m, 1), b, 0, key)
        ELSE IF Repeated(m) THEN Skip(m, 1)
        ELSE PerformSt(Skip(m, 2), At(m, m.pc + 1), b - 15, key)
=============================================================================
