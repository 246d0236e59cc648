------------------------------- MODULE MCAgreement -------------------------------
(***************************************************************************)
(* Programs for Agreement: every opcode behind every prefix and every      *)
(* postbyte once, and the programs the properties of several instructions  *)
(* are about, on numbers at the edges.                                     *)
(***************************************************************************)
EXTENDS AgreementProps, TLC

MCPlace == 4096

(* Data around the registers, under the direct page and under EXTENDED     *)
(* operands of the programs; the vectors of SWI3, SWI2 and SWI.            *)
Pattern(q) == (37 * q + 200) % 256
Around == UNION {p - 3 .. p + 3 : p \in {8192, 8208, 8224, 8448, 8704, 8960}} \cup 9216..9228
MCData == [q \in Around |-> Pattern(q)] @@ [q \in {65522, 65524, 65530} |-> 48]
          @@ [q \in {12288} |-> 59]

Registers(a, b, cc) == [a |-> a, b |-> b, dp |-> 32, cc |-> cc,
                        x |-> 8448, y |-> 8704, u |-> 8960, s |-> 9216]

Kind(kind, steps, codes, regs) == [kind |-> kind, steps |-> steps, codes |-> codes, regs |-> regs]

-----------------------------------------------------------------------------
Prefixes0 == {<<>>, <<16>>, <<17>>}
Plain0 == Registers(18, 52, {})
Full0 == Registers(200, 141, Flags \ {"C"})
Carry0 == [Registers(129, 128, {"C", "H"}) EXCEPT !.s = 9218]

Operands == {<<32, 16, 33, 64>>, <<159, 32, 16, 1>>, <<140, 240, 2, 3>>}
Every == {p \o <<op>> \o o : p \in Prefixes0, op \in (0..255) \ {16, 17}, o \in Operands}

Indexers == {<<48>>, <<101>>, <<109>>, <<163>>, <<172>>, <<173>>, <<174>>, <<175>>, <<227>>,
             <<16, 172>>, <<17, 163>>, <<17, 172>>}
Postbytes == {op \o <<b>> \o o : op \in Indexers, b \in 0..255, o \in {<<32, 16>>, <<240, 0>>}}

PushMasks == {<<op, b>> : op \in {30, 31, 52, 53, 54, 55}, b \in 0..255}
Repeats == {<<p, q, op, 32, 16>> : p \in {16, 17}, q \in {16, 17}, op \in {142, 131, 38, 63}}

-----------------------------------------------------------------------------
Edges8 == {0, 1, 2, 64, 126, 127, 128, 129, 192, 254, 255}
Edges16 == {0, 1, 32767, 32768, 65535}

Compares == {<<129, v, 32 + n, 16>> : v \in Edges8, n \in Conditions}
Compares16 == {<<140, v \div 256, v % 256, 16, 32 + n, 1, 0>> : v \in Edges16, n \in Conditions}

Words == {0, 1, 255, 256, 32767, 32768, 65535, 4660}
Wide(op1, op2) == {<<op1, w % 256, op2, w \div 256>> : w \in Words}

Decimals == {16 * t + u : t \in {0, 1, 4, 5, 6, 9}, u \in {0, 1, 5, 9}}
DecimalSums == {<<op, v, 25>> : op \in {137, 139}, v \in Decimals}

PushPull == {<<op, b, op + 1, b>> : op \in {52, 54}, b \in 0..255}
Returns == {p \o <<63>> : p \in Prefixes0}

WithA(set, cc) == {Registers(a, 0, cc) : a \in set}
WithX(set) == {[Plain0 EXCEPT !.x = w] : w \in set}
WithD(set) == {Registers(w \div 256, w % 256, {"C"}) : w \in set}

MCPrograms ==
    {Kind("one", 1, Every, {Plain0, Full0, Carry0}),
     Kind("one", 1, Postbytes, {Plain0}),
     Kind("one", 1, PushMasks, {Full0}),
     Kind("one", 1, Repeats, {Plain0}),
     Kind("CMPA", 2, Compares, WithA(Edges8, {"V", "N"})),
     Kind("CMPX", 2, Compares16, WithX(Edges16)),
     Kind("ADD", 2, Wide(203, 137), WithD(Words)),
     Kind("SUB", 2, Wide(192, 130), WithD(Words)),
     Kind("DAA", 2, DecimalSums, WithA(Decimals, {})),
     Kind("DAA", 2, DecimalSums, WithA(Decimals, {"C", "H"})),
     Kind("PSH", 2, PushPull, {Full0}),
     Kind("SWI", 2, Returns, {Full0})}

MCJunk == {0, 4660}
=============================================================================
