-------------------------------- MODULE Agreement --------------------------------
(***************************************************************************)
(* Short programs on the processor of engine.c, beside the two old         *)
(* simulators and the disassembler, which are asked about every state the  *)
(* processor comes through.                                                *)
(***************************************************************************)
EXTENDS Cpu

CONSTANTS Programs,     \* kinds of programs: steps, and sets of codes and of registers
          Place,        \* where a program is loaded
          Data,         \* the other bytes of memory
          Junk          \* values an uninitialized word may hold

(* Programs fit behind Place, and all that is loaded is bytes and words.   *)
ASSUME ProgramsAssumption ==
    \A p \in Programs :
        /\ p.steps \in Nat
        /\ p.codes \subseteq Seq(Byte)
        /\ \A code \in p.codes : Place + Len(code) <= 65536
        /\ p.regs \subseteq [a : Byte, b : Byte, dp : Byte, cc : SUBSET Flags,
                             x : Word, y : Word, u : Word, s : Word]
ASSUME DataAssumption == /\ Place \in Word
                         /\ Data \in [DOMAIN Data -> Byte] /\ DOMAIN Data \subseteq Word
ASSUME JunkAssumption == Junk \subseteq Word /\ Junk # {}

VARIABLES program,      \* the program that runs
          cpu,          \* the machine
          done          \* instructions executed

vars == <<program, cpu, done>>

S == INSTANCE V09s
T == INSTANCE V09st
L == INSTANCE D09

(* Mutant: an indexed call has one offset byte, or none. *)
NextiByte(m) ==
    LET op == At(m, m.pc)
        b == At(m, m.pc + 1)
    IN  CASE op \in {23, 189} -> 3
          [] op = 16 /\ b = 63 -> 3
          [] op = 17 /\ b = 63 -> 2
          [] op = 63 -> 1
          [] op \in {60, 141, 157} -> 2
          [] op = 173 -> IF b >= 128 /\ b % 16 \in {8, 9, 12, 13, 15} THEN 3 ELSE 2
          [] OTHER -> 0

(* nexti: how far behind pc the debugger puts the breakpoint of step over, *)
(* or 0 where it takes the instruction for one that calls nothing.         *)
nexti(m) ==
    LET op == At(m, m.pc)
        b == At(m, m.pc + 1)
        n == b % 16
    IN  CASE op \in {23, 189} -> 3                              \* LBSR, JSR extended
          [] op = 16 /\ b = 63 -> 3                             \* SWI2, as OS-9 has it
          [] op = 17 /\ b = 63 -> 2
          [] op = 63 -> 1
          [] op \in {60, 141, 157} -> 2                         \* CWAI, BSR, JSR direct
          [] op = 173 -> CASE b < 128 -> 2
                           [] b >= 128 /\ n \in {8, 12} -> 3
                           [] b >= 128 /\ n \in {9, 13, 15} -> 4
                           [] OTHER -> 2
          [] OTHER -> 0

-----------------------------------------------------------------------------
Loaded(p) ==
    LET code == [q \in Place..(Place + Len(p.code) - 1) |-> p.code[q - Place + 1]]
        all == [q \in DOMAIN code \cup DOMAIN Data |-> IF q \in DOMAIN code THEN code[q] ELSE Data[q]]
    IN  [a |-> p.regs.a, b |-> p.regs.b, dp |-> p.regs.dp, cc |-> p.regs.cc,
         x |-> p.regs.x, y |-> p.regs.y, u |-> p.regs.u, s |-> p.regs.s,
         pc |-> Place, mem |-> all]

Init == /\ \E p \in Programs :
              \E code \in p.codes, regs \in p.regs :
                 program = [kind |-> p.kind, steps |-> p.steps, code |-> code, regs |-> regs]
        /\ cpu = Loaded(program)
        /\ done = 0

(* An opcode comes behind MaxPrefix prefixes at most; the code would go on *)
(* from prefix to prefix.                                                  *)
Decodable(m) == ~(\A k \in 0..MaxPrefix : At(m, m.pc + k) \in {16, 17})

Step == /\ done < program.steps
        /\ Decodable(cpu)
        /\ \E junk \in Junk : cpu' = Exec(cpu, junk)
        /\ done' = done + 1
        /\ UNCHANGED program

Next == Step

Spec == Init /\ [][Next]_vars
=============================================================================
