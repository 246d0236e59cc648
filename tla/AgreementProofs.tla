------------------------------- MODULE AgreementProofs -------------------------------
(***************************************************************************)
(* What AgreementProps says of the programs of Agreement, proved for every *)
(* program of their shapes or for every program whatever. BranchOrder and  *)
(* SumsRight: the machine is the loaded one after as many instructions as  *)
(* are done, and these are decoded. TypeOK: every instruction makes a      *)
(* machine of a machine. StackRestores: what is pushed is pulled.          *)
(* StepOverReturns: the debugger knows where calls come back.              *)
(* ListingAgrees: the disassembler knows the lengths and the addresses.    *)
(* OldSimulatorsAgree: v09s.c and v09st.c do what engine.c does.           *)
(***************************************************************************)
EXTENDS AgreementProps, CpuProofs

-----------------------------------------------------------------------------
(* The programs of Agreement.                                              *)

ProgramInv == \E p \in Programs : /\ program.kind = p.kind /\ program.steps = p.steps
                                  /\ program.code \in p.codes /\ program.regs \in p.regs

(* The machine is the loaded one after as many instructions as are done.   *)
ExecutedInv ==
    /\ ProgramInv
    /\ done \in Nat
    /\ (done = 0 => cpu = First)
    /\ (done = 1 => \E i \in Junk : cpu = Exec(First, i))
    /\ (done = 2 => \E i, j \in Junk : cpu = Exec(Exec(First, i), j))

(* Every reachable state is that of its program at that instruction.       *)
THEOREM ExecutedHolds == Spec => []ExecutedInv
<1>1. Init => ExecutedInv
  <2> SUFFICES ASSUME Init PROVE ExecutedInv
    OBVIOUS
  <2>1. ProgramInv
    BY DEF Init, ProgramInv
  <2>2. done = 0 /\ cpu = First
    BY DEF Init, First
  <2> QED BY <2>1, <2>2, SMT DEF ExecutedInv
<1>2. ExecutedInv /\ [Next]_vars => ExecutedInv'
  <2> SUFFICES ASSUME ExecutedInv, [Next]_vars PROVE ExecutedInv'
    OBVIOUS
  <2>1. CASE Step
    <3>1. program' = program /\ First' = First /\ ProgramInv'
      BY <2>1 DEF Step, First, ExecutedInv, ProgramInv
    <3>2. PICK j \in Junk : cpu' = Exec(cpu, j)
      BY <2>1 DEF Step
    <3>3. done' = done + 1 /\ done \in Nat
      BY <2>1 DEF Step, ExecutedInv
    <3>4. done' \in Nat /\ done' # 0 /\ (done' = 1 <=> done = 0) /\ (done' = 2 <=> done = 1)
      BY <3>3, SMT
    <3>5. done' = 1 => \E i \in Junk : cpu' = Exec(First', i)
      BY <3>1, <3>2, <3>4 DEF ExecutedInv
    <3>6. done' = 2 => \E i, k \in Junk : cpu' = Exec(Exec(First', i), k)
      <4> SUFFICES ASSUME done = 1 PROVE \E i, k \in Junk : cpu' = Exec(Exec(First, i), k)
        BY <3>1, <3>4
      <4>1. PICK i \in Junk : cpu = Exec(First, i)
        BY DEF ExecutedInv
      <4> QED BY <3>2, <4>1
    <3> QED BY <3>1, <3>4, <3>5, <3>6 DEF ExecutedInv
  <2>2. CASE UNCHANGED vars
    BY <2>2 DEF vars, ExecutedInv, ProgramInv, First
  <2> QED BY <2>1, <2>2 DEF Next
<1> QED BY <1>1, <1>2, PTL DEF Spec

(* The bytes of the program are in memory, from Place on. *)
LEMMA CodeInMemory ==
  ASSUME ExecutedInv, NEW n \in Nat, Len(program.code) = n, n <= 7
  PROVE  /\ Ready(First, 7) /\ First.pc = Place
         /\ First.a = program.regs.a /\ First.b = program.regs.b
         /\ First.x = program.regs.x /\ First.cc = program.regs.cc
         /\ \A i \in 1..n : /\ program.code[i] \in Byte
                            /\ At(First, Place + (i - 1)) = program.code[i]
<1> DEFINE code == program.code
<1> DEFINE bytes == [q \in Place..(Place + Len(code) - 1) |-> code[q - Place + 1]]
<1> DEFINE all == [q \in DOMAIN bytes \cup DOMAIN Data |->
                  IF q \in DOMAIN bytes THEN bytes[q] ELSE Data[q]]
<1>1. PICK p \in Programs : code \in p.codes
  BY DEF ExecutedInv, ProgramInv
<1>2. code \in Seq(Byte)
  BY <1>1, ProgramsAssumption
<1>3. Place \in Int /\ 0 <= Place /\ Place <= 65528
  BY DataAssumption, WordDef, ShapesAssumption
<1>4. First = [a |-> program.regs.a, b |-> program.regs.b, dp |-> program.regs.dp,
               cc |-> program.regs.cc, x |-> program.regs.x, y |-> program.regs.y,
               u |-> program.regs.u, s |-> program.regs.s, pc |-> Place, mem |-> all]
  BY DEF First, Loaded
<1>5. Ready(First, 7) /\ First.pc = Place
  BY <1>3, <1>4, SMT DEF Ready, Fields
<1>6. /\ First.a = program.regs.a /\ First.b = program.regs.b
      /\ First.x = program.regs.x /\ First.cc = program.regs.cc /\ First.mem = all
  BY <1>4
<1>7. ASSUME NEW i \in 1..n
      PROVE  code[i] \in Byte /\ At(First, Place + (i - 1)) = code[i]
  <2> DEFINE q == Place + (i - 1)
  <2>1. code[i] \in Byte
    BY <1>2
  <2>2. q % 65536 = q /\ q \in Place..(Place + n - 1) /\ q - Place + 1 = i
    BY <1>3, SMT
  <2> HIDE DEF q
  <2>3. q \in DOMAIN bytes /\ bytes[q] = code[i]
    BY <2>2
  <2> HIDE DEF bytes
  <2>4. q \in DOMAIN all /\ all[q] = bytes[q]
    BY <2>3
  <2> HIDE DEF all
  <2>5. At(First, q) = code[i]
    BY <1>6, <2>2, <2>3, <2>4 DEF At
  <2> QED BY <2>1, <2>5 DEF q
<1> QED BY <1>5, <1>6, <1>7

(* What is known of a program of each kind. *)
LEMMA Shapes ==
  ASSUME ExecutedInv
  PROVE  /\ program.regs.a \in Byte /\ program.regs.b \in Byte
         /\ program.regs.x \in Word /\ program.regs.cc \in SUBSET Flags
         /\ program.kind = "CMPA" => program.steps = 2 /\ ComparesByte(program.code)
         /\ program.kind = "CMPX" => program.steps = 2 /\ ComparesWord(program.code)
         /\ program.kind = "ADD" => program.steps = 2 /\ Adds(program.code)
         /\ program.kind = "SUB" => program.steps = 2 /\ Subtracts(program.code)
         /\ program.kind = "DAA" => /\ program.steps = 2 /\ Adjusts(program.code)
                                    /\ Decimal(program.regs.a)
<1>1. PICK p \in Programs : /\ program.kind = p.kind /\ program.steps = p.steps
                            /\ program.code \in p.codes /\ program.regs \in p.regs
  BY DEF ExecutedInv, ProgramInv
<1> QED BY <1>1, ShapesAssumption

(* Where a comparison and a branch leave the program counter, and what     *)
(* numbers BranchOrder then compares.                                      *)
LEMMA AfterCompareA ==
  ASSUME ExecutedInv, Ended("CMPA")
  PROVE  cpu.pc # First.pc + 4
            <=> Meant(At(First, First.pc + 2) % 16, First.a, Operand1, 8)
<1> DEFINE c == program.code
<1>1. done = 2 /\ ComparesByte(c)
  BY Shapes DEF Ended
<1>2. PICK i \in Junk, j \in Junk : cpu = Exec(Exec(First, i), j)
  BY <1>1 DEF ExecutedInv
<1> DEFINE v == Operand1
<1> DEFINE n == c[3] - 32
<1>3. n \in Conditions /\ n \in 0..15 /\ c[3] = 32 + n /\ c[3] % 16 = n
  <2>1. Len(c) = 4 /\ c[3] \in Byte
    <3>1. Len(c) = 4 /\ 4 \in Nat /\ 4 <= 7 /\ 3 \in 1..4
      BY <1>1, SMT DEF ComparesByte
    <3> QED BY <3>1, CodeInMemory
  <2>2. n \in Conditions
    BY <1>1 DEF ComparesByte
  <2> QED BY <2>1, <2>2, ByteDef, SMT DEF Conditions
<1>4. /\ Ready(First, 7) /\ First.a \in Byte /\ First.cc \in SUBSET Flags
      /\ At(First, First.pc) = 129 /\ v \in Byte
      /\ At(First, First.pc + 2) = 32 + n /\ At(First, First.pc + 3) = 16
  <2>1. Len(c) = 4 /\ 4 \in Nat /\ 4 <= 7 /\ 1 \in 1..4 /\ 2 \in 1..4 /\ 3 \in 1..4 /\ 4 \in 1..4
    BY <1>1, SMT DEF ComparesByte
  <2>2. /\ Ready(First, 7) /\ First.pc = Place
        /\ First.a = program.regs.a /\ First.cc = program.regs.cc
        /\ At(First, Place + (1 - 1)) = c[1] /\ At(First, Place + (2 - 1)) = c[2] /\ c[2] \in Byte
        /\ At(First, Place + (3 - 1)) = c[3] /\ At(First, Place + (4 - 1)) = c[4]
    BY <2>1, CodeInMemory
  <2>3. Place + (1 - 1) = Place /\ Place + (2 - 1) = Place + 1 /\ Place + (3 - 1) = Place + 2
        /\ Place + (4 - 1) = Place + 3
    BY <2>2, SMT DEF Ready
  <2>4. c[1] = 129 /\ c[4] = 16
    BY <1>1 DEF ComparesByte
  <2>5. First.a \in Byte /\ First.cc \in SUBSET Flags
    BY <2>2, Shapes
  <2> QED BY <1>3, <2>2, <2>3, <2>4, <2>5 DEF Operand1
<1> DEFINE m == First
<1> DEFINE e == Exec(m, i)
<1> DEFINE t == Binary("CMP", m.a, v, m.cc)
<1>5. DOMAIN e = Fields /\ e.pc = m.pc + 2 /\ e.mem = m.mem /\ e.cc = t.cc
  <2>1. Ready(m, 2)
    BY <1>4, SMT DEF Ready
  <2>2. 1 \in {1, 2, 9, 11} /\ 128 + 1 = 129
    BY SMT
  <2>3. BinaryOp[1 + 1] = "CMP"
    BY OperationNames
  <2> HIDE DEF m
  <2>4. LET u == Binary(BinaryOp[1 + 1], m.a, At(m, m.pc + 1), m.cc)
        IN  DOMAIN e = Fields /\ e.pc = m.pc + 2 /\ e.mem = m.mem /\ e.cc = u.cc
    BY <1>4, <2>1, <2>2, ImmediateA DEF m
  <2> QED BY <2>3, <2>4 DEF m, Operand1
<1> HIDE DEF m, e, t
<1>6. cpu = Exec(e, j)
  BY <1>2 DEF e, m
<1>7. /\ Ready(e, 2) /\ e.pc + 1 = m.pc + 3 /\ e.pc + 2 = m.pc + 4
      /\ At(e, e.pc) = 32 + n /\ At(e, e.pc + 1) = 16
  <2>1. Ready(e, 2) /\ e.pc + 1 = m.pc + 3 /\ e.pc + 2 = m.pc + 4
    BY <1>4, <1>5, SMT DEF Ready, m
  <2>2. \A q : At(e, q) = At(m, q)
    BY <1>5 DEF At
  <2> QED BY <1>4, <1>5, <2>1, <2>2 DEF m
<1> HIDE DEF n, v
<1>8. /\ Taken(n, e.cc) => cpu.pc = (e.pc + 2 + 16) % 65536
      /\ ~Taken(n, e.cc) => cpu.pc = e.pc + 2
  <2>1. Ready(e, 2) /\ At(e, e.pc) = 32 + n /\ n \in 0..15
    BY <1>3, <1>7
  <2> QED BY <1>6, <1>7, <2>1, ShortBranch
<1>9. (m.pc + 4 + 16) % 65536 # m.pc + 4
  BY <1>4, SMT DEF Ready, m
<1>10. cpu.pc # m.pc + 4 <=> Taken(n, t.cc)
  BY <1>5, <1>7, <1>8, <1>9
<1>11. Taken(n, t.cc) <=> Meant(n, m.a, v, 8)
  BY <1>3, <1>4, CompareOrder8 DEF Conditions, m, t
<1>12. At(First, First.pc + 2) % 16 = n
  BY <1>3, <1>4
<1> QED BY <1>10, <1>11, <1>12 DEF m, v

(* The same for CMPX and a long branch. *)
LEMMA AfterCompareX ==
  ASSUME ExecutedInv, Ended("CMPX")
  PROVE  cpu.pc # First.pc + 7
            <=> Meant(At(First, First.pc + 4) % 16, First.x, OperandW, 16)
<1> DEFINE c == program.code
<1>1. done = 2 /\ ComparesWord(c)
  BY Shapes DEF Ended
<1>2. PICK i \in Junk, j \in Junk : cpu = Exec(Exec(First, i), j)
  BY <1>1 DEF ExecutedInv
<1> DEFINE v == OperandW
<1> DEFINE n == c[5] - 32
<1>3. n \in Conditions /\ n \in 0..15 /\ c[5] = 32 + n /\ c[5] % 16 = n
  <2>1. Len(c) = 7 /\ c[5] \in Byte
    <3>1. Len(c) = 7 /\ 7 \in Nat /\ 7 <= 7 /\ 5 \in 1..7
      BY <1>1, SMT DEF ComparesWord
    <3> QED BY <3>1, CodeInMemory
  <2>2. n \in Conditions
    BY <1>1 DEF ComparesWord
  <2> QED BY <2>1, <2>2, ByteDef, SMT DEF Conditions
<1> DEFINE m == First
<1>4. /\ Ready(m, 7) /\ m.x \in Word /\ m.cc \in SUBSET Flags
      /\ At(m, m.pc) = 140 /\ v \in Word
      /\ At(m, m.pc + 3) = 16 /\ At(m, m.pc + 4) = 32 + n
      /\ At(m, m.pc + 5) = 1 /\ At(m, m.pc + 6) = 0
  <2>1. /\ Len(c) = 7 /\ 7 \in Nat /\ 7 <= 7 /\ 1 \in 1..7 /\ 2 \in 1..7 /\ 3 \in 1..7
        /\ 4 \in 1..7 /\ 5 \in 1..7 /\ 6 \in 1..7 /\ 7 \in 1..7
    BY <1>1, SMT DEF ComparesWord
  <2>2. /\ Ready(m, 7) /\ m.pc = Place /\ m.x = program.regs.x /\ m.cc = program.regs.cc
        /\ At(m, Place + (1 - 1)) = c[1] /\ At(m, Place + (2 - 1)) = c[2]
        /\ At(m, Place + (3 - 1)) = c[3] /\ At(m, Place + (4 - 1)) = c[4]
        /\ At(m, Place + (5 - 1)) = c[5] /\ At(m, Place + (6 - 1)) = c[6]
        /\ At(m, Place + (7 - 1)) = c[7] /\ c[2] \in Byte /\ c[3] \in Byte
    BY <2>1, CodeInMemory
  <2>3. /\ Place + (1 - 1) = Place /\ Place + (2 - 1) = Place + 1 /\ Place + (3 - 1) = Place + 1 + 1
        /\ Place + (4 - 1) = Place + 3 /\ Place + (5 - 1) = Place + 4
        /\ Place + (6 - 1) = Place + 5 /\ Place + (7 - 1) = Place + 6
    BY <2>2, SMT DEF Ready
  <2>4. c[1] = 140 /\ c[4] = 16 /\ c[6] = 1 /\ c[7] = 0
    BY <1>1 DEF ComparesWord
  <2>5. m.x \in Word /\ m.cc \in SUBSET Flags
    BY <2>2, Shapes
  <2>6. v = 256 * c[2] + c[3]
    BY <2>2, <2>3 DEF OperandW, WordAt
  <2>7. v \in Word
    BY <2>2, <2>6, TwoBytes
  <2> HIDE DEF v
  <2> QED BY <1>3, <2>2, <2>3, <2>4, <2>5, <2>7
<1> DEFINE e == Exec(m, i)
<1> DEFINE d == Sub16(m.x, v, m.cc).cc
<1>5. DOMAIN e = Fields /\ e.pc = m.pc + 3 /\ e.mem = m.mem /\ e.cc = d
  <2>1. Ready(m, 3)
    BY <1>4, SMT DEF Ready
  <2> HIDE DEF m
  <2>2. LET u == Sub16(m.x, WordAt(m, m.pc + 1), m.cc).cc
        IN  DOMAIN e = Fields /\ e.pc = m.pc + 3 /\ e.mem = m.mem /\ e.cc = u
    BY <1>4, <2>1, CompareX DEF m
  <2> QED BY <2>2 DEF m, OperandW
<1>6. cpu = Exec(e, j)
  BY <1>2
<1> HIDE DEF m, e, d, n, v
<1>7. /\ Ready(e, 4) /\ e.pc + 1 = m.pc + 4 /\ e.pc + 2 = m.pc + 5 /\ e.pc + 2 + 1 = m.pc + 6
      /\ e.pc + 4 = m.pc + 7
  BY <1>4, <1>5, SMT DEF Ready
<1>8. At(e, e.pc) = 16 /\ At(e, e.pc + 1) = 32 + n /\ WordAt(e, e.pc + 2) = 256
  <2>1. \A q : At(e, q) = At(m, q)
    BY <1>5 DEF At
  <2>2. At(e, e.pc + 2) = 1 /\ At(e, e.pc + 2 + 1) = 0
    BY <1>4, <1>7, <2>1
  <2>3. WordAt(e, e.pc + 2) = 256 * 1 + 0
    BY <2>2 DEF WordAt
  <2> QED BY <1>4, <1>5, <1>7, <2>1, <2>3, SMT
<1>9. MaxPrefix >= 1
  BY ShapesAssumption
<1>10. cpu.pc = IF Taken(n, e.cc) THEN (e.pc + 4 + 256) % 65536 ELSE e.pc + 4
  BY <1>3, <1>6, <1>7, <1>8, <1>9, LongBranch
<1>11. (m.pc + 7 + 256) % 65536 # m.pc + 7
  BY <1>4, SMT DEF Ready
<1>12. cpu.pc # m.pc + 7 <=> Taken(n, d)
  BY <1>5, <1>7, <1>10, <1>11
<1>13. Taken(n, d) <=> Meant(n, m.x, v, 16)
  BY <1>3, <1>4, CompareOrder16 DEF Conditions, d
<1>14. At(m, m.pc + 4) % 16 = n
  BY <1>3, <1>4 DEF n
<1> QED BY <1>12, <1>13, <1>14 DEF m, v

(* BranchOrder holds of every program of its shapes, whatever its numbers. *)
THEOREM BranchOrderHolds == Spec => []BranchOrder
<1>1. ExecutedInv => BranchOrder
  BY AfterCompareA, AfterCompareX DEF BranchOrder
<1> QED BY <1>1, ExecutedHolds, PTL

(* The machine after the two instructions of a sum or a difference of two  *)
(* bytes each, on B with the opcode 192 + n and on A with 128 + k.         *)
LEMMA AfterTwoSums ==
  ASSUME ExecutedInv, done = 2, Len(program.code) = 4,
         NEW n \in {0, 11}, NEW k \in {1, 2, 9, 11},
         program.code[1] = 192 + n, program.code[3] = 128 + k
  PROVE  LET hi == At(First, First.pc + 3)
             low == Binary(BinaryOp[n + 1], First.b, Operand1, First.cc)
             high == Binary(BinaryOp[k + 1], First.a, hi, low.cc)
         IN  /\ Operand1 \in Byte /\ hi \in Byte
             /\ First.a \in Byte /\ First.b \in Byte /\ First.cc \in SUBSET Flags
             /\ cpu.a = high.r /\ cpu.b = low.r /\ cpu.cc = high.cc
<1> DEFINE c == program.code
<1> DEFINE m == First
<1> DEFINE hi == At(m, m.pc + 3)
<1> DEFINE low == Binary(BinaryOp[n + 1], m.b, Operand1, m.cc)
<1> DEFINE high == Binary(BinaryOp[k + 1], m.a, hi, low.cc)
<1>1. PICK i \in Junk, j \in Junk : cpu = Exec(Exec(m, i), j)
  BY DEF ExecutedInv
<1>2. /\ Ready(m, 7) /\ m.a \in Byte /\ m.b \in Byte /\ m.cc \in SUBSET Flags
      /\ At(m, m.pc) = 192 + n /\ Operand1 \in Byte
      /\ At(m, m.pc + 2) = 128 + k /\ hi \in Byte
  <2>1. 4 \in Nat /\ 4 <= 7 /\ 1 \in 1..4 /\ 2 \in 1..4 /\ 3 \in 1..4 /\ 4 \in 1..4
    BY SMT
  <2>2. /\ Ready(m, 7) /\ m.pc = Place
        /\ m.a = program.regs.a /\ m.b = program.regs.b /\ m.cc = program.regs.cc
        /\ At(m, Place + (1 - 1)) = c[1] /\ At(m, Place + (2 - 1)) = c[2] /\ c[2] \in Byte
        /\ At(m, Place + (3 - 1)) = c[3] /\ At(m, Place + (4 - 1)) = c[4] /\ c[4] \in Byte
    BY <2>1, CodeInMemory
  <2>3. Place + (1 - 1) = Place /\ Place + (2 - 1) = Place + 1 /\ Place + (3 - 1) = Place + 2
        /\ Place + (4 - 1) = Place + 3
    BY <2>2, SMT DEF Ready
  <2>4. m.a \in Byte /\ m.b \in Byte /\ m.cc \in SUBSET Flags
    BY <2>2, Shapes
  <2> QED BY <2>2, <2>3, <2>4 DEF Operand1
<1> DEFINE e == Exec(m, i)
<1>3. /\ DOMAIN e = Fields /\ e.pc = m.pc + 2 /\ e.mem = m.mem
      /\ e.a = m.a /\ e.b = low.r /\ e.cc = low.cc
  <2>1. Ready(m, 2)
    BY <1>2, SMT DEF Ready
  <2> HIDE DEF m
  <2>2. LET t == Binary(BinaryOp[n + 1], m.b, At(m, m.pc + 1), m.cc)
        IN  /\ DOMAIN e = Fields /\ e.pc = m.pc + 2 /\ e.mem = m.mem
            /\ e.a = m.a /\ e.b = t.r /\ e.cc = t.cc
    BY <1>2, <2>1, ImmediateB
  <2> QED BY <2>2 DEF m, Operand1
<1>4. cpu = Exec(e, j)
  BY <1>1
<1> HIDE DEF m, e, low, hi
<1>5. Ready(e, 2) /\ At(e, e.pc) = 128 + k /\ At(e, e.pc + 1) = hi
  <2>1. Ready(e, 2) /\ e.pc + 1 = m.pc + 3
    BY <1>2, <1>3, SMT DEF Ready
  <2>2. \A q : At(e, q) = At(m, q)
    BY <1>3 DEF At
  <2> QED BY <1>2, <1>3, <2>1, <2>2 DEF hi
<1>6. LET t == Binary(BinaryOp[k + 1], e.a, At(e, e.pc + 1), e.cc)
      IN  cpu.a = t.r /\ cpu.b = e.b /\ cpu.cc = t.cc
  BY <1>4, <1>5, ImmediateA
<1>7. cpu.a = high.r /\ cpu.b = low.r /\ cpu.cc = high.cc
  BY <1>3, <1>5, <1>6
<1> QED BY <1>2, <1>7 DEF m, hi, low

(* What SumsRight says of the sums and differences. *)
LEMMA AfterSums ==
  ASSUME ExecutedInv, Ended("ADD") \/ Ended("SUB")
  PROVE  LET hi == At(First, First.pc + 3)
             wide == IF program.kind = "ADD" THEN Add16(D(First), 256 * hi + Operand1, First.cc)
                     ELSE Sub16(D(First), 256 * hi + Operand1, First.cc)
         IN  /\ D(cpu) = wide.r
             /\ cpu.cc \cap {"C", "V", "N"} = wide.cc \cap {"C", "V", "N"}
<1> DEFINE a == First.a
<1> DEFINE b == First.b
<1> DEFINE cc == First.cc
<1> DEFINE lo == Operand1
<1> DEFINE hi == At(First, First.pc + 3)
<1>1. CASE Ended("ADD")
  <2>1. done = 2 /\ Adds(program.code) /\ program.kind = "ADD"
    BY <1>1, Shapes DEF Ended
  <2>2. /\ Len(program.code) = 4 /\ 11 \in {0, 11} /\ 9 \in {1, 2, 9, 11}
        /\ program.code[1] = 192 + 11 /\ program.code[3] = 128 + 9
    BY <2>1, SMT DEF Adds
  <2> DEFINE low == Binary("ADD", b, lo, cc)
  <2> DEFINE high == Binary("ADC", a, hi, low.cc)
  <2>3. /\ lo \in Byte /\ hi \in Byte /\ a \in Byte /\ b \in Byte /\ cc \in SUBSET Flags
        /\ cpu.a = high.r /\ cpu.b = low.r /\ cpu.cc = high.cc
    <3>1. LET l == Binary(BinaryOp[11 + 1], b, lo, cc)
              h == Binary(BinaryOp[9 + 1], a, hi, l.cc)
          IN  /\ lo \in Byte /\ hi \in Byte /\ a \in Byte /\ b \in Byte /\ cc \in SUBSET Flags
              /\ cpu.a = h.r /\ cpu.b = l.r /\ cpu.cc = h.cc
      BY <2>1, <2>2, AfterTwoSums
    <3> QED BY <3>1, OperationNames
  <2> DEFINE wide == Add16(256 * a + b, 256 * hi + lo, cc)
  <2>4. /\ 256 * high.r + low.r = wide.r
        /\ high.cc \cap {"C", "V", "N"} = wide.cc \cap {"C", "V", "N"}
    <3> HIDE DEF a, b, cc, lo, hi
    <3> QED BY <2>3, AddAddsWords
  <2>5. D(First) = 256 * a + b /\ D(cpu) = 256 * high.r + low.r
    BY <2>3 DEF D
  <2> HIDE DEF high, low
  <2> QED BY <2>1, <2>3, <2>4, <2>5
<1>2. CASE Ended("SUB")
  <2>1. done = 2 /\ Subtracts(program.code) /\ program.kind = "SUB"
    BY <1>2, Shapes DEF Ended
  <2>2. /\ Len(program.code) = 4 /\ 0 \in {0, 11} /\ 2 \in {1, 2, 9, 11}
        /\ program.code[1] = 192 + 0 /\ program.code[3] = 128 + 2
    BY <2>1, SMT DEF Subtracts
  <2> DEFINE low == Binary("SUB", b, lo, cc)
  <2> DEFINE high == Binary("SBC", a, hi, low.cc)
  <2>3. /\ lo \in Byte /\ hi \in Byte /\ a \in Byte /\ b \in Byte /\ cc \in SUBSET Flags
        /\ cpu.a = high.r /\ cpu.b = low.r /\ cpu.cc = high.cc
    <3>1. LET l == Binary(BinaryOp[0 + 1], b, lo, cc)
              h == Binary(BinaryOp[2 + 1], a, hi, l.cc)
          IN  /\ lo \in Byte /\ hi \in Byte /\ a \in Byte /\ b \in Byte /\ cc \in SUBSET Flags
              /\ cpu.a = h.r /\ cpu.b = l.r /\ cpu.cc = h.cc
      BY <2>1, <2>2, AfterTwoSums
    <3> QED BY <3>1, OperationNames
  <2> DEFINE wide == Sub16(256 * a + b, 256 * hi + lo, cc)
  <2>4. /\ 256 * high.r + low.r = wide.r
        /\ high.cc \cap {"C", "V", "N"} = wide.cc \cap {"C", "V", "N"}
    <3> HIDE DEF a, b, cc, lo, hi
    <3> QED BY <2>3, SubSubtractsWords
  <2>5. D(First) = 256 * a + b /\ D(cpu) = 256 * high.r + low.r
    BY <2>3 DEF D
  <2> HIDE DEF high, low
  <2> QED BY <2>1, <2>3, <2>4, <2>5
<1> QED BY <1>1, <1>2

(* What SumsRight says of DAA. *)
LEMMA AfterAdjust ==
  ASSUME ExecutedInv, Ended("DAA")
  PROVE  LET carried == IF At(First, First.pc) = 137 THEN Carry(First.cc) ELSE 0
             binary == First.a + Operand1 + carried
             decimal == Digits(First.a) + Digits(Operand1) + carried
         IN  /\ "C" \in cpu.cc <=> decimal >= 100
             /\ cpu.a = (Bcd(decimal) + (IF binary \in 250..255 THEN 160 ELSE 0)) % 256
<1> DEFINE c == program.code
<1> DEFINE m == First
<1> DEFINE v == Operand1
<1> DEFINE k == IF At(m, m.pc) = 137 THEN Carry(m.cc) ELSE 0
<1>1. done = 2 /\ Adjusts(c) /\ Decimal(program.regs.a)
  BY Shapes DEF Ended
<1>2. PICK i \in Junk, j \in Junk : cpu = Exec(Exec(m, i), j)
  BY <1>1 DEF ExecutedInv
<1>3. /\ Ready(m, 7) /\ m.a \in Byte /\ m.cc \in SUBSET Flags /\ Decimal(m.a)
      /\ At(m, m.pc) \in {137, 139} /\ v \in Byte /\ Decimal(v) /\ At(m, m.pc + 2) = 25
  <2>1. Len(c) = 3 /\ 3 \in Nat /\ 3 <= 7 /\ 1 \in 1..3 /\ 2 \in 1..3 /\ 3 \in 1..3
    BY <1>1, SMT DEF Adjusts
  <2>2. /\ Ready(m, 7) /\ m.pc = Place /\ m.a = program.regs.a /\ m.cc = program.regs.cc
        /\ At(m, Place + (1 - 1)) = c[1] /\ At(m, Place + (2 - 1)) = c[2] /\ c[2] \in Byte
        /\ At(m, Place + (3 - 1)) = c[3]
    BY <2>1, CodeInMemory
  <2>3. Place + (1 - 1) = Place /\ Place + (2 - 1) = Place + 1 /\ Place + (3 - 1) = Place + 2
    BY <2>2, SMT DEF Ready
  <2>4. c[1] \in {137, 139} /\ Decimal(c[2]) /\ c[3] = 25
    BY <1>1 DEF Adjusts
  <2>5. m.a \in Byte /\ m.cc \in SUBSET Flags
    BY <2>2, Shapes
  <2> QED BY <1>1, <2>2, <2>3, <2>4, <2>5 DEF Operand1
<1> DEFINE e == Exec(m, i)
<1> DEFINE x == m.a + v + k
<1> DEFINE s == SetStatus(m.cc, m.a, v, x)
<1>4. /\ DOMAIN e = Fields /\ e.pc = m.pc + 2 /\ e.mem = m.mem
      /\ e.a = Lo(x) /\ e.cc = s
  <2>1. Ready(m, 2) /\ m.a + v + 0 = m.a + v
    BY <1>3, ByteDef, SMT DEF Ready
  <2>2. CASE At(m, m.pc) = 137
    <3>1. 9 \in {1, 2, 9, 11} /\ 128 + 9 = 137
      BY SMT
    <3>2. LET t == Binary(BinaryOp[9 + 1], m.a, v, m.cc)
          IN  DOMAIN e = Fields /\ e.pc = m.pc + 2 /\ e.mem = m.mem /\ e.a = t.r /\ e.cc = t.cc
      <4> HIDE DEF m
      <4> QED BY <2>1, <2>2, <3>1, ImmediateA DEF Operand1, m
    <3>3. Binary(BinaryOp[9 + 1], m.a, v, m.cc) = [r |-> Lo(x), cc |-> s]
      BY <2>2, OperationNames DEF Binary
    <3> HIDE DEF e, m, x, s
    <3> QED BY <3>2, <3>3
  <2>3. CASE At(m, m.pc) = 139
    <3>1. 11 \in {1, 2, 9, 11} /\ 128 + 11 = 139 /\ 137 # 139
      BY SMT
    <3>2. LET t == Binary(BinaryOp[11 + 1], m.a, v, m.cc)
          IN  DOMAIN e = Fields /\ e.pc = m.pc + 2 /\ e.mem = m.mem /\ e.a = t.r /\ e.cc = t.cc
      <4> HIDE DEF m
      <4> QED BY <2>1, <2>3, <3>1, ImmediateA DEF Operand1, m
    <3>3. Binary(BinaryOp[11 + 1], m.a, v, m.cc) = [r |-> Lo(x), cc |-> s]
      BY <2>1, <2>3, <3>1, OperationNames DEF Binary
    <3> HIDE DEF e, m, x, s
    <3> QED BY <3>2, <3>3
  <2> QED BY <1>3, <2>2, <2>3
<1>5. cpu = Exec(e, j)
  BY <1>2
<1>6. k \in {0, 1}
  BY DEF Carry
<1> HIDE DEF m, e, k, s, x, v
<1>7. Ready(e, 1) /\ At(e, e.pc) = 25
  <2>1. Ready(e, 1)
    BY <1>3, <1>4, SMT DEF Ready
  <2>2. \A q : At(e, q) = At(m, q)
    BY <1>4 DEF At
  <2> QED BY <1>3, <1>4, <2>1, <2>2
<1>8. LET t == Daa(e.a, e.cc) IN cpu.a = t.r /\ cpu.cc = t.cc
  BY <1>5, <1>7, AdjustA
<1> DEFINE adjusted == Daa(Lo(x), s)
<1>9. cpu.a = adjusted.r /\ cpu.cc = adjusted.cc
  BY <1>4, <1>8
<1> DEFINE decimal == Digits(m.a) + Digits(v) + k
<1>10. /\ "C" \in adjusted.cc <=> decimal >= 100
       /\ adjusted.r = (Bcd(decimal) + (IF x \in 250..255 THEN 160 ELSE 0)) % 256
  BY <1>3, <1>6, DecimalSums DEF Decimal, x, s
<1> QED BY <1>9, <1>10 DEF m, v, k, x

(* SumsRight holds of every program of its shapes, whatever its numbers.   *)
THEOREM SumsRightHolds == Spec => []SumsRight
<1>1. ExecutedInv => SumsRight
  BY AfterSums, AfterAdjust DEF SumsRight
<1> QED BY <1>1, ExecutedHolds, PTL

-----------------------------------------------------------------------------
(* Widths.                                                                 *)

(* What is loaded is a machine. *)
LEMMA LoadedType ==
  ASSUME NEW p \in Programs, NEW code \in p.codes, NEW regs \in p.regs, NEW q,
         q.code = code, q.regs = regs
  PROVE  Loaded(q) \in Machine
<1> DEFINE bytes == [i \in Place..(Place + Len(code) - 1) |-> code[i - Place + 1]]
<1> DEFINE all == [i \in DOMAIN bytes \cup DOMAIN Data |->
                  IF i \in DOMAIN bytes THEN bytes[i] ELSE Data[i]]
<1>1. code \in Seq(Byte) /\ Len(code) \in Nat /\ Place \in Int /\ 0 <= Place
  BY ProgramsAssumption, DataAssumption, WordDef
<1>2. Place + Len(code) <= 65536
  BY ProgramsAssumption
<1>3. bytes \in [DOMAIN bytes -> Byte] /\ DOMAIN bytes \subseteq Word
  <2>1. ASSUME NEW i \in Place..(Place + Len(code) - 1)
        PROVE  i - Place + 1 \in 1..Len(code) /\ i \in Word
    BY <1>1, <1>2, WordDef, SMT
  <2>2. \A i \in Place..(Place + Len(code) - 1) : code[i - Place + 1] \in Byte
    BY <1>1, <2>1
  <2> QED BY <2>1, <2>2
<1> HIDE DEF bytes
<1>4. Data \in [DOMAIN Data -> Byte] /\ DOMAIN Data \subseteq Word
  BY DataAssumption
<1>5. all \in [DOMAIN all -> Byte] /\ DOMAIN all \subseteq Word
  BY <1>3, <1>4
<1>6. Loaded(q) = [a |-> regs.a, b |-> regs.b, dp |-> regs.dp, cc |-> regs.cc,
                   x |-> regs.x, y |-> regs.y, u |-> regs.u, s |-> regs.s,
                   pc |-> Place, mem |-> all]
  BY DEF Loaded, bytes
<1> HIDE DEF all
<1>7. all \in Mems
  BY <1>5, MachineFields
<1>8. regs \in [a : Byte, b : Byte, dp : Byte, cc : SUBSET Flags,
                x : Word, y : Word, u : Word, s : Word]
  BY ProgramsAssumption
<1>9. /\ regs.a \in Byte /\ regs.b \in Byte /\ regs.dp \in Byte /\ regs.cc \in SUBSET Flags
      /\ regs.x \in Word /\ regs.y \in Word /\ regs.u \in Word /\ regs.s \in Word
  BY <1>8
<1>10. Place \in Word
  BY DataAssumption
<1> QED BY <1>6, <1>7, <1>9, <1>10, MachineFields

(* The machine is one, and no more is done than there are steps. *)
WidthInv == /\ ProgramInv
            /\ cpu \in Machine
            /\ done \in 0..program.steps

(* No instruction leaves a register or a byte of memory beyond its width,  *)
(* whatever the program: the three columns of accumulators, index and      *)
(* stack registers, the postbytes, the stacks and the transfers.           *)
THEOREM WidthHolds == Spec => []WidthInv
<1>1. Init => WidthInv
  <2> SUFFICES ASSUME Init PROVE WidthInv
    OBVIOUS
  <2>1. PICK p \in Programs : \E code \in p.codes, regs \in p.regs :
                program = [kind |-> p.kind, steps |-> p.steps, code |-> code, regs |-> regs]
    BY DEF Init
  <2>2. PICK code \in p.codes, regs \in p.regs :
                program = [kind |-> p.kind, steps |-> p.steps, code |-> code, regs |-> regs]
    BY <2>1
  <2>3. /\ program.kind = p.kind /\ program.steps = p.steps
        /\ program.code = code /\ program.regs = regs
    BY <2>2
  <2>4. cpu \in Machine
    BY <2>3, LoadedType DEF Init
  <2>5. done = 0 /\ program.steps \in Nat
    BY <2>3, ProgramsAssumption DEF Init
  <2> QED BY <2>3, <2>4, <2>5 DEF WidthInv, ProgramInv
<1>2. WidthInv /\ [Next]_vars => WidthInv'
  <2> SUFFICES ASSUME WidthInv, [Next]_vars PROVE WidthInv'
    OBVIOUS
  <2>1. CASE Step
    <3>1. program' = program /\ ProgramInv'
      BY <2>1 DEF Step, WidthInv, ProgramInv
    <3>2. PICK j \in Junk : cpu' = Exec(cpu, j)
      BY <2>1 DEF Step
    <3>3. cpu \in Machine /\ j \in Word
      BY JunkAssumption DEF WidthInv
    <3>4. \E k \in 0..MaxPrefix : At(cpu, cpu.pc + k) \notin {16, 17}
      BY <2>1 DEF Step, Decodable
    <3>5. cpu' \in Machine
      BY <3>2, <3>3, <3>4, ExecType
    <3>6. program.steps \in Nat
      BY ProgramsAssumption DEF WidthInv, ProgramInv
    <3>7. done < program.steps /\ done' = done + 1 /\ done \in 0..program.steps
      BY <2>1 DEF Step, WidthInv
    <3>8. done' \in 0..program.steps
      BY <3>6, <3>7, SMT
    <3> QED BY <3>1, <3>5, <3>8 DEF WidthInv
  <2>2. CASE UNCHANGED vars
    BY <2>2 DEF vars, WidthInv, ProgramInv
  <2> QED BY <2>1, <2>2 DEF Next
<1> QED BY <1>1, <1>2, PTL DEF Spec

(* The widths of registers and memory, and the bound of the instructions   *)
(* done.                                                                   *)
THEOREM AgreementTypeCorrect == Spec => []TypeOK
<1>1. WidthInv => TypeOK
  <2> SUFFICES ASSUME WidthInv PROVE TypeOK
    OBVIOUS
  <2>1. cpu \in Machine
    BY DEF WidthInv
  <2>2. /\ cpu.a \in Byte /\ cpu.b \in Byte /\ cpu.dp \in Byte /\ cpu.cc \subseteq Flags
    BY <2>1, FieldType
  <2>3. {cpu.x, cpu.y, cpu.u, cpu.s, cpu.pc} \subseteq Word
    BY <2>1, FieldType DEF WordRegs
  <2>4. cpu.mem \in [DOMAIN cpu.mem -> Byte] /\ DOMAIN cpu.mem \subseteq Word
    BY <2>1, FieldType, MachineFields
  <2> QED BY <2>2, <2>3, <2>4 DEF TypeOK, MachineOK, WidthInv
<1> QED BY <1>1, WidthHolds, PTL

-----------------------------------------------------------------------------
(* PSH and PUL, SWI and RTI. *)

(* What is known of a program that pushes. *)
LEMMA StackShapes ==
  ASSUME ExecutedInv
  PROVE  LET c == program.code
             r == program.regs
         IN  /\ First \in Machine /\ First.s = r.s /\ First.u = r.u
             /\ First = Loaded([code |-> c, regs |-> r])
             /\ program.kind = "PSH" =>
                   /\ program.steps = 2 /\ PushesPulls(c)
                   /\ StackClear(IF c[1] = 52 THEN r.s ELSE r.u, Place..Place + 3)
             /\ program.kind = "SWI" => program.steps = 2 /\ Interrupts(c) /\ Handled(c, r)
<1>1. PICK p \in Programs : /\ program.kind = p.kind /\ program.steps = p.steps
                            /\ program.code \in p.codes /\ program.regs \in p.regs
  BY DEF ExecutedInv, ProgramInv
<1>2. First \in Machine
  BY <1>1, LoadedType DEF First
<1>3. First.s = program.regs.s /\ First.u = program.regs.u
  BY DEF First, Loaded
<1>4. First = Loaded([code |-> program.code, regs |-> program.regs])
  BY DEF First, Loaded
<1> DEFINE Pushing(c, r) ==
       PushesPulls(c) /\ StackClear(IF c[1] = 52 THEN r.s ELSE r.u, Place..Place + 3)
<1> DEFINE Interrupting(c, r) == Interrupts(c) /\ Handled(c, r)
<1>5. \A c \in p.codes, r \in p.regs :
         /\ p.kind = "PSH" => p.steps = 2 /\ Pushing(c, r)
         /\ p.kind = "SWI" => p.steps = 2 /\ Interrupting(c, r)
  BY ShapesAssumption
<1> HIDE DEF Pushing, Interrupting
<1>6. /\ program.kind = "PSH" => program.steps = 2 /\ Pushing(program.code, program.regs)
      /\ program.kind = "SWI" => program.steps = 2 /\ Interrupting(program.code, program.regs)
  BY <1>1, <1>5
<1> QED BY <1>2, <1>3, <1>4, <1>6 DEF Pushing, Interrupting

(* PSH and PUL of the same registers.                                      *)
LEMMA AfterPushPull ==
  ASSUME ExecutedInv, Ended("PSH")
  PROVE  cpu = [First EXCEPT !.pc = cpu.pc, !.mem = cpu.mem, !.cc = First.cc]
<1> DEFINE c == program.code
<1> DEFINE m == First
<1> DEFINE st == IF c[1] = 52 THEN "s" ELSE "u"
<1>1. done = 2 /\ PushesPulls(c)
  BY StackShapes DEF Ended
<1>2. PICK i \in Junk, j \in Junk : cpu = Exec(Exec(m, i), j)
  BY <1>1 DEF ExecutedInv
<1>3. /\ Ready(m, 7) /\ m.pc = Place
      /\ At(m, m.pc) = c[1] /\ At(m, m.pc + 1) = c[2]
      /\ At(m, m.pc + 2) = c[3] /\ At(m, m.pc + 3) = c[4]
  <2>1. Len(c) = 4 /\ 4 \in Nat /\ 4 <= 7 /\ 1 \in 1..4 /\ 2 \in 1..4 /\ 3 \in 1..4 /\ 4 \in 1..4
    BY <1>1, SMT DEF PushesPulls
  <2>2. /\ Ready(m, 7) /\ m.pc = Place
        /\ At(m, Place + (1 - 1)) = c[1] /\ At(m, Place + (2 - 1)) = c[2]
        /\ At(m, Place + (3 - 1)) = c[3] /\ At(m, Place + (4 - 1)) = c[4]
    BY <2>1, CodeInMemory
  <2>3. Place + (1 - 1) = Place /\ Place + (2 - 1) = Place + 1 /\ Place + (3 - 1) = Place + 2
        /\ Place + (4 - 1) = Place + 3
    BY <2>2, SMT DEF Ready
  <2> QED BY <2>2, <2>3
<1>4. m \in Machine /\ StackClear(m[st], Place..Place + 3)
  <2>1. /\ m \in Machine /\ m.s = program.regs.s /\ m.u = program.regs.u
        /\ StackClear(IF c[1] = 52 THEN program.regs.s ELSE program.regs.u, Place..Place + 3)
    BY StackShapes DEF Ended
  <2> QED BY <2>1
<1>5. /\ st \in {"s", "u"} /\ c[4] = c[2]
      /\ c[1] = (IF st = "s" THEN 52 ELSE 54) /\ c[3] = (IF st = "s" THEN 53 ELSE 55)
  BY <1>1, SMT DEF PushesPulls
<1> HIDE DEF m, st, c
<1> DEFINE regs == Listed(c[2], Other(st))
<1> DEFINE k == Skip(Skip(m, 1), 1)
<1> DEFINE l == PushAll(k, st, Other(st), regs)
<1>6. /\ k \in Machine /\ k.pc = m.pc + 2 /\ k.mem = m.mem
      /\ (\A f \in Fields \ {"pc"} : k[f] = m[f]) /\ Exec(m, i) = l
  <2>1. Ready(m, 2)
    BY <1>3, SMT DEF Ready
  <2> QED BY <1>3, <1>4, <1>5, <2>1, StackOpcodes
<1>7. regs \subseteq Frame(Other(st)) /\ 12 <= k[st] /\ k[st] <= RomStart /\ k[st] = m[st]
  <2>1. k[st] = m[st]
    BY <1>5, <1>6, FrameRegs DEF Fields
  <2>2. regs \subseteq Frame(Other(st))
    BY DEF Listed
  <2> QED BY <1>4, <2>1, <2>2 DEF StackClear
<1> HIDE DEF k
<1>8. /\ l \in Machine /\ Sunk(k, l, st) /\ k[st] - 12 <= l[st]
      /\ \A n \in Machine : n[st] = l[st] /\ n.mem = l.mem =>
            LET e == PullAll(n, st, Other(st), regs)
            IN  /\ e \in Machine /\ e[st] = k[st] /\ e.mem = n.mem
                /\ \A f \in Fields \ {st, "mem"} : n[f] = k[f] \/ f \in regs => e[f] = k[f]
  BY <1>5, <1>6, <1>7, PullAllUndoes
<1> HIDE DEF l, regs
<1>9. l.pc = m.pc + 2 /\ Ready(l, 2)
  <2>1. l.pc = k.pc
    BY <1>5, <1>8 DEF Sunk, Fields
  <2>2. DOMAIN l = Fields
    BY <1>8, MachineFields DEF Fields
  <2>3. k.pc = m.pc + 2 /\ m.pc \in Int /\ 0 <= m.pc /\ m.pc + 7 <= 65535
    BY <1>3, <1>6 DEF Ready
  <2> QED BY <2>1, <2>2, <2>3, SMT DEF Ready
<1>10. At(l, l.pc) = c[3] /\ At(l, l.pc + 1) = c[4]
  <2>1. \A q : At(k, q) = At(m, q)
    BY <1>6 DEF At
  <2>2. m.pc \in Int /\ 0 <= m.pc /\ m.pc + 7 <= 65535 /\ m.pc = Place
    BY <1>3 DEF Ready
  <2>3. l[st] \in Int /\ m[st] \in Int /\ k[st] = m[st] /\ k[st] - 12 <= l[st]
    <3>1. l[st] \in Word /\ m[st] \in Word
      BY <1>4, <1>5, <1>8, FieldType, FrameRegs
    <3> QED BY <1>7, <1>8, <3>1, WordDef
  <2>4. ASSUME NEW q \in Place..Place + 3 PROVE At(l, q) = At(m, q)
    <3>1. q \notin (m[st] - 12)..(m[st] - 1)
      BY <1>4, <2>4 DEF StackClear
    <3>2. q < l[st] \/ q >= k[st]
      BY <2>2, <2>3, <3>1, SMT
    <3>3. q \in Word
      BY <2>2, WordDef, SMT
    <3> QED BY <1>8, <2>1, <3>2, <3>3 DEF Sunk
  <2>5. m.pc + 2 \in Place..Place + 3 /\ m.pc + 3 \in Place..Place + 3 /\ m.pc + 2 + 1 = m.pc + 3
    BY <2>2, SMT
  <2> QED BY <1>3, <1>9, <2>4, <2>5
<1> DEFINE n == Skip(Skip(l, 1), 1)
<1>11. /\ n \in Machine /\ n.mem = l.mem /\ (\A f \in Fields \ {"pc"} : n[f] = l[f])
       /\ cpu = PullAll(n, st, Other(st), regs)
  <2>1. At(l, l.pc) = (IF st = "s" THEN 53 ELSE 55) /\ At(l, l.pc + 1) = c[2]
    BY <1>5, <1>10
  <2> QED BY <1>2, <1>5, <1>6, <1>8, <1>9, <2>1, StackOpcodes DEF regs
<1> HIDE DEF n
<1>12. /\ cpu \in Machine /\ cpu[st] = k[st]
       /\ \A f \in Fields \ {st, "mem"} : n[f] = k[f] \/ f \in regs => cpu[f] = k[f]
  <2>1. n[st] = l[st]
    BY <1>5, <1>11, FrameRegs DEF Fields
  <2> QED BY <1>8, <1>11, <2>1
<1>13. ASSUME NEW f \in Fields \ {"pc", "mem"} PROVE cpu[f] = m[f]
  <2>1. CASE f = st
    BY <1>7, <1>12, <2>1
  <2>2. CASE f # st
    <3>1. n[f] = k[f]
      BY <1>8, <1>11, <1>13, <2>2 DEF Sunk
    <3> QED BY <1>6, <1>12, <1>13, <2>2, <3>1
  <2> QED BY <2>1, <2>2
<1>14. cpu.cc = m.cc
  BY <1>13 DEF Fields
<1> DEFINE same(cc) == [m EXCEPT !.pc = cpu.pc, !.mem = cpu.mem, !.cc = cc]
<1>15. cpu = same(cpu.cc)
  <2>1. \A f \in Fields \ {"pc", "mem", "cc"} : cpu[f] = m[f]
    BY <1>13
  <2> QED BY <1>4, <1>12, <2>1, SameFields
<1> HIDE DEF same
<1>16. cpu = same(m.cc)
  BY <1>14, <1>15
<1> QED BY <1>16 DEF m, same

(* The instruction SWI, SWI2 or SWI3 at the beginning of a program.        *)
LEMMA InterruptOpcode ==
  ASSUME NEW m \in Machine, Ready(m, 7), NEW c, Interrupts(c),
         \A i \in 1..Len(c) : At(m, m.pc + (i - 1)) = c[i], NEW j
  PROVE  \E count \in {0, 1}, flag \in {0, 1, 2} :
            /\ PrefixCount(m) = count
            /\ Exec(m, j) = SWI(Skip(m, count + 1), flag)
            /\ VectorOf(c) = (CASE flag = 0 -> 65530 [] flag = 1 -> 65524 [] flag = 2 -> 65522)
<1>1. /\ m.pc \in Int /\ m.pc + (1 - 1) = m.pc /\ m.pc + (2 - 1) = m.pc + 1
      /\ 63 \div 16 = 3 /\ 63 % 16 = 15 /\ 63 \notin {16, 17} /\ 1 \in 1..1 /\ {1, 2} = 1..2
      /\ 16 - 15 = 1 /\ 17 - 15 = 2 /\ MaxPrefix >= 1
  BY ShapesAssumption, SMT DEF Ready
<1>2. ASSUME NEW count \in {0, 1}, NEW flag \in {0, 1, 2},
             PrefixCount(m) = count, Flag(m) = flag, Opcode(m) = 63
      PROVE  Exec(m, j) = SWI(Skip(m, count + 1), flag)
  <2>1. Exec(m, j) = Row3(Skip(m, count + 1), 15, flag)
    <3> DEFINE first == PrefixCount(m) + 1
    <3>1. Opcode(m) \div 16 = 3 => Exec(m, j) = Row3(Skip(m, first), Opcode(m) % 16, Flag(m))
      BY DEF Exec
    <3>2. first = count + 1
      BY <1>2
    <3> HIDE DEF first
    <3> QED BY <1>1, <1>2, <3>1, <3>2
  <2>2. \A k : Row3(k, 15, flag) = SWI(k, flag)
    BY SMT DEF Row3
  <2> QED BY <2>1, <2>2
<1>3. CASE c = <<63>>
  <2>1. At(m, m.pc) = 63
    <3>1. Len(c) = 1 /\ c[1] = 63
      BY <1>3
    <3> QED BY <1>1, <3>1
  <2>2. PrefixCount(m) = 0 /\ Flag(m) = 0 /\ Opcode(m) = 63
    BY <1>1, <2>1, NoPrefix
  <2>3. VectorOf(c) = 65530
    BY <1>3, SMT DEF VectorOf
  <2> QED BY <1>2, <2>2, <2>3, SMT
<1>4. ASSUME NEW p \in {16, 17}, c = <<p, 63>>
      PROVE  /\ PrefixCount(m) = 1 /\ Flag(m) = p - 15 /\ Opcode(m) = 63
  <2>1. Len(c) = 2 /\ c[1] = p /\ c[2] = 63
    BY <1>4
  <2>2. At(m, m.pc) = p /\ At(m, m.pc + 1) = 63
    BY <1>1, <2>1
  <2> QED BY <1>1, <2>2, OnePrefix
<1>5. CASE c = <<16, 63>>
  <2>1. PrefixCount(m) = 1 /\ Flag(m) = 1 /\ Opcode(m) = 63
    BY <1>1, <1>4, <1>5
  <2>2. VectorOf(c) = 65524
    BY <1>5, SMT DEF VectorOf
  <2> QED BY <1>2, <2>1, <2>2, SMT
<1>6. CASE c = <<17, 63>>
  <2>1. PrefixCount(m) = 1 /\ Flag(m) = 2 /\ Opcode(m) = 63
    BY <1>1, <1>4, <1>6
  <2>2. VectorOf(c) = 65522
    BY <1>6, SMT DEF VectorOf
  <2> QED BY <1>2, <2>1, <2>2, SMT
<1> QED BY <1>3, <1>5, <1>6 DEF Interrupts

(* RTI pulls the whole frame where the CC it finds has E set.              *)
LEMMA WholeFrame ==
  ASSUME NEW n, "E" \in PullIn(n, "s", Frame("u"), "cc").cc
  PROVE  RTI(n) = PullAll(n, "s", "u", Frame("u"))
<1> DEFINE all == Frame("u")
<1> DEFINE rest == all \ {"cc"}
<1> DEFINE k == Pull(n, "s", "cc")
<1>1. all = {"pc", "u", "y", "x", "dp", "b", "a", "cc"}
  BY DEF Frame
<1>2. k = PullIn(n, "s", all, "cc")
  BY <1>1 DEF PullIn
<1> HIDE DEF k
<1>3. RTI(n) = PullAll(k, "s", "u", rest)
  BY <1>2 DEF RTI, k
<1>4. PullIn(k, "s", rest, "cc") = k
  BY DEF PullIn
<1>5. \A q : \A r \in {"pc", "u", "y", "x", "dp", "b", "a"} :
         PullIn(q, "s", rest, r) = PullIn(q, "s", all, r)
  BY <1>1 DEF PullIn
<1> HIDE DEF all, rest
<1>6. PullAll(k, "s", "u", rest) = PullAll(n, "s", "u", all)
  BY <1>2, <1>4, <1>5 DEF PullAll
<1> QED BY <1>3, <1>6 DEF all

(* The machine in the handler: the whole frame is below, E is in it.       *)
LEMMA InterruptTaken ==
  ASSUME NEW i \in Machine, NEW flag \in {0, 1, 2}, NEW v,
         v = (CASE flag = 0 -> 65530 [] flag = 1 -> 65524 [] flag = 2 -> 65522)
  PROVE  LET x == [i EXCEPT !.cc = @ \cup {"E"}]
             p == PushAll(x, "s", "u", Frame("u"))
             e == SWI(i, flag)
         IN  /\ x \in Machine /\ x.cc = i.cc \cup {"E"}
             /\ \A f \in Fields \ {"cc"} : x[f] = i[f]
             /\ e \in Machine /\ e.s = p.s /\ e.mem = p.mem /\ e.pc = WordAt(p, v)
<1> DEFINE x == [i EXCEPT !.cc = @ \cup {"E"}]
<1> DEFINE p == PushAll(x, "s", "u", Frame("u"))
<1> DEFINE e == SWI(i, flag)
<1>1. x \in Machine
  <2>1. i.cc \cup {"E"} \in SUBSET Flags
    BY FieldType DEF Flags
  <2> QED BY <2>1, FieldType
<1>2. x.cc = i.cc \cup {"E"} /\ \A f \in Fields \ {"cc"} : x[f] = i[f]
  BY MachineFields DEF Fields
<1>3. e \in Machine
  BY InterruptType
<1> DEFINE t(s) == Jump(s, WordAt(p, v))
<1> DEFINE k == [p EXCEPT !.cc = @ \cup {"I", "F"}]
<1>4. e = t(p) \/ e = t(k)
  <2>1. CASE flag = 0
    BY <2>1, SMT DEF SWI
  <2>2. CASE flag = 1
    BY <2>2, SMT DEF SWI
  <2>3. CASE flag = 2
    BY <2>3, SMT DEF SWI
  <2> QED BY <2>1, <2>2, <2>3
<1> HIDE DEF x
<1>5. p \in Machine
  BY <1>1, PushAllType DEF Other
<1> HIDE DEF p, e
<1>6. k.s = p.s /\ k.mem = p.mem /\ DOMAIN k = Fields /\ DOMAIN p = Fields
  BY <1>5, MachineFields DEF Fields
<1> HIDE DEF k
<1>7. ASSUME NEW s, DOMAIN s = Fields
      PROVE  t(s).s = s.s /\ t(s).mem = s.mem /\ t(s).pc = WordAt(p, v)
  <2> DEFINE q == WordAt(p, v)
  <2>1. q \in Word
    BY <1>5, MemoryType
  <2> HIDE DEF q
  <2>2. q % 65536 = q
    BY <2>1, WordDef, SMT
  <2> DEFINE w == q % 65536
  <2>3. t(s) = [s EXCEPT !.pc = w]
    BY DEF Jump, q
  <2> HIDE DEF w
  <2>4. t(s).s = s.s /\ t(s).mem = s.mem /\ t(s).pc = w
    BY <1>7, <2>3 DEF Fields
  <2> QED BY <2>2, <2>4 DEF w, q
<1> QED BY <1>1, <1>2, <1>3, <1>4, <1>6, <1>7 DEF x, p, e

(* An interrupt by SWI and the RTI of its handler.                         *)
LEMMA AfterInterrupt ==
  ASSUME ExecutedInv, Ended("SWI")
  PROVE  /\ cpu = [First EXCEPT !.pc = cpu.pc, !.mem = cpu.mem, !.cc = First.cc \cup {"E"}]
         /\ cpu.pc = First.pc + PrefixCount(First) + 1
<1> DEFINE c == program.code
<1> DEFINE m == First
<1> DEFINE v == VectorOf(c)
<1> DEFINE h == WordAt(m, v)
<1>1. done = 2 /\ Interrupts(c) /\ m \in Machine /\ At(m, h) = 59 /\ StackClear(m.s, {v, v + 1, h})
  <2>1. done = 2 /\ Interrupts(c) /\ m \in Machine /\ Handled(c, program.regs)
    BY StackShapes DEF Ended
  <2>2. m = Loaded([code |-> c, regs |-> program.regs]) /\ m.s = program.regs.s
    BY StackShapes
  <2> QED BY <2>1, <2>2 DEF Handled
<1>2. PICK i \in Junk, j \in Junk : cpu = Exec(Exec(m, i), j)
  BY <1>1 DEF ExecutedInv
<1>3. Ready(m, 7) /\ \A q \in 1..Len(c) : At(m, m.pc + (q - 1)) = c[q]
  <2> DEFINE size == Len(c)
  <2>1. size = 1 \/ size = 2
    BY <1>1 DEF Interrupts
  <2>2. size \in Nat /\ size <= 7
    <3> HIDE DEF size
    <3> QED BY <2>1, SMT
  <2> QED BY <2>2, CodeInMemory
<1>4. PICK count \in {0, 1}, flag \in {0, 1, 2} :
         /\ PrefixCount(m) = count
         /\ Exec(m, i) = SWI(Skip(m, count + 1), flag)
         /\ v = (CASE flag = 0 -> 65530 [] flag = 1 -> 65524 [] flag = 2 -> 65522)
  BY <1>1, <1>3, InterruptOpcode
<1> HIDE DEF m, c, v, h
<1> DEFINE k == Skip(m, count + 1)
<1> DEFINE x == [k EXCEPT !.cc = @ \cup {"E"}]
<1> DEFINE all == Frame("u")
<1> DEFINE p == PushAll(x, "s", "u", all)
<1> DEFINE e == SWI(k, flag)
<1> DEFINE n == Skip(e, 1)
<1>5. /\ k \in Machine /\ k.pc = m.pc + (count + 1) /\ k.mem = m.mem
      /\ \A f \in Fields \ {"pc"} : k[f] = m[f]
  <2>1. count + 1 \in Nat /\ Ready(m, count + 1)
    BY <1>3, SMT DEF Ready
  <2> QED BY <1>1, <2>1, SkipFields
<1> HIDE DEF k
<1>6. /\ x \in Machine /\ x.cc = k.cc \cup {"E"} /\ (\A f \in Fields \ {"cc"} : x[f] = k[f])
      /\ e \in Machine /\ e.s = p.s /\ e.mem = p.mem /\ e.pc = WordAt(p, v)
  BY <1>4, <1>5, InterruptTaken
<1> HIDE DEF x, e
<1>7. x.cc = m.cc \cup {"E"} /\ x.s = m.s /\ x.mem = m.mem /\ x.pc = m.pc + (count + 1)
  BY <1>5, <1>6 DEF Fields
<1>8. 12 <= x.s /\ x.s <= RomStart /\ all \subseteq Frame(Other("s")) /\ Other("s") = "u"
  <2>1. 12 <= m.s /\ m.s <= RomStart
    BY <1>1 DEF StackClear
  <2> QED BY <1>7, <2>1 DEF Other
<1>9. /\ p \in Machine /\ Sunk(x, p, "s") /\ x.s - 12 <= p.s
      /\ \A l \in Machine : l.s = p.s /\ l.mem = p.mem =>
            LET r == PullAll(l, "s", "u", all)
            IN  /\ r \in Machine /\ r.s = x.s /\ r.mem = l.mem
                /\ \A f \in Fields \ {"s", "mem"} : l[f] = x[f] \/ f \in all => r[f] = x[f]
                /\ "cc" \in all => PullIn(l, "s", all, "cc").cc = x.cc
  BY <1>6, <1>8, PullAllUndoes
<1> HIDE DEF p, all
<1>10. ASSUME NEW q \in {v, v + 1, h}, q \in Word PROVE At(p, q) = At(m, q)
  <2>1. q \notin (m.s - 12)..(m.s - 1)
    BY <1>1 DEF StackClear
  <2>2. q \in Int /\ x.s \in Int /\ p.s \in Int
    <3>1. x.s \in Word /\ p.s \in Word
      BY <1>6, <1>9, FieldType DEF WordRegs
    <3> QED BY <1>10, <3>1, WordDef
  <2>3. q < p.s \/ q >= x.s
    BY <1>7, <1>9, <2>1, <2>2, SMT
  <2>4. At(p, q) = At(x, q)
    BY <1>9, <1>10, <2>3 DEF Sunk
  <2>5. At(x, q) = At(m, q)
    BY <1>7 DEF At
  <2> QED BY <2>4, <2>5
<1>11. e.pc = h /\ h \in Word
  <2>1. v \in Word /\ v + 1 \in Word
    <3>1. v \in {65522, 65524, 65530}
      BY <1>4, SMT
    <3>2. v \in Int /\ 0 <= v /\ v + 1 <= 65535
      BY <3>1, SMT
    <3> QED BY <3>2, WordDef, SMT
  <2>2. At(p, v) = At(m, v) /\ At(p, v + 1) = At(m, v + 1)
    BY <1>10, <2>1
  <2>3. WordAt(p, v) = h
    BY <2>2 DEF WordAt, h
  <2>4. h \in Word
    BY <1>1, MemoryType DEF h
  <2> QED BY <1>6, <2>3, <2>4
<1>12. At(e, e.pc) = 59
  <2>1. At(p, h) = At(m, h)
    BY <1>10, <1>11
  <2>2. At(e, h) = At(p, h)
    BY <1>6 DEF At
  <2> QED BY <1>1, <1>11, <2>1, <2>2
<1>13. cpu = RTI(n)
  <2>1. e.pc \in Int /\ At(e, e.pc) \notin {16, 17} /\ 59 \div 16 = 3 /\ 59 % 16 = 11
    <3>1. e.pc \in Int
      BY <1>11, WordDef
    <3> QED BY <1>12, <3>1, SMT
  <2>2. PrefixCount(e) = 0 /\ Flag(e) = 0 /\ Opcode(e) = 59
    BY <1>12, <2>1, NoPrefix
  <2>3. Exec(e, j) = Row3(n, 11, 0)
    <3> DEFINE first == PrefixCount(e) + 1
    <3>1. Opcode(e) \div 16 = 3 => Exec(e, j) = Row3(Skip(e, first), Opcode(e) % 16, Flag(e))
      BY DEF Exec
    <3>2. first = 1
      BY <2>2, SMT
    <3> HIDE DEF first
    <3> QED BY <2>1, <2>2, <3>1, <3>2
  <2>4. Row3(n, 11, 0) = RTI(n)
    BY SMT DEF Row3
  <2> HIDE DEF n
  <2>5. cpu = Exec(e, j)
    BY <1>2, <1>4 DEF e, k
  <2> QED BY <2>3, <2>4, <2>5
<1>14. n \in Machine /\ n.s = p.s /\ n.mem = p.mem
  <2>1. n \in Machine
    BY <1>6, SkipType, SMT
  <2>2. n.s = e.s /\ n.mem = e.mem
    BY <1>6, MachineFields DEF Skip
  <2> QED BY <1>6, <2>1, <2>2
<1> HIDE DEF n
<1>15. "cc" \in all /\ \A f \in Fields \ {"s", "mem"} : f \in all
  BY DEF all, Frame, Fields
<1>16. /\ PullAll(n, "s", "u", all) \in Machine
       /\ \A f \in Fields \ {"mem"} : PullAll(n, "s", "u", all)[f] = x[f]
       /\ PullIn(n, "s", all, "cc").cc = x.cc
  BY <1>9, <1>14, <1>15
<1>17. cpu = PullAll(n, "s", "u", all)
  <2>1. "E" \in PullIn(n, "s", all, "cc").cc
    BY <1>7, <1>16
  <2> QED BY <1>13, <2>1, WholeFrame DEF all
<1>18. cpu \in Machine /\ \A f \in Fields \ {"mem"} : cpu[f] = x[f]
  BY <1>16, <1>17
<1>19. cpu.pc = m.pc + (count + 1) /\ cpu.cc = m.cc \cup {"E"}
  BY <1>7, <1>18 DEF Fields
<1>20. cpu.pc = m.pc + PrefixCount(m) + 1
  <2>1. m.pc + (count + 1) = m.pc + count + 1
    BY <1>3, SMT DEF Ready
  <2> QED BY <1>4, <1>19, <2>1
<1> DEFINE same(cc) == [m EXCEPT !.pc = cpu.pc, !.mem = cpu.mem, !.cc = cc]
<1>21. cpu = same(cpu.cc)
  <2>1. \A f \in Fields \ {"pc", "mem", "cc"} : cpu[f] = m[f]
    BY <1>5, <1>6, <1>18
  <2> QED BY <1>1, <1>18, <2>1, SameFields
<1> HIDE DEF same
<1>22. cpu = same(m.cc \cup {"E"})
  BY <1>19, <1>21
<1> QED BY <1>20, <1>22 DEF m, same

(* Pushing registers and pulling the same ones restores every register and *)
(* the stack, for every postbyte, on both stacks, and so do SWI, SWI2 and  *)
(* SWI3 with the RTI of their handlers, wherever the frame has room.       *)
THEOREM StackRestoresHolds == Spec => []StackRestores
<1>1. ExecutedInv => StackRestores
  BY AfterPushPull, AfterInterrupt DEF StackRestores
<1> QED BY <1>1, ExecutedHolds, PTL

-----------------------------------------------------------------------------
(* Calls, and where they come back.                                        *)

(* Where the debugger puts its breakpoint. *)
LEMMA NextiOf ==
  ASSUME NEW m, At(m, m.pc) \in Byte, At(m, m.pc + 1) \in Byte
  PROVE  LET op == At(m, m.pc)
             b == At(m, m.pc + 1)
         IN  /\ op \in {23, 189} => nexti(m) = 3
             /\ op = 16 /\ b = 63 => nexti(m) = 3
             /\ op = 17 /\ b = 63 => nexti(m) = 2
             /\ op = 63 => nexti(m) = 1
             /\ op \in {141, 157} => nexti(m) = 2
             /\ op = 173 => nexti(m) = 2 + Extra(b)
<1> DEFINE op == At(m, m.pc)
<1> DEFINE b == At(m, m.pc + 1)
<1> DEFINE n == b % 16
<1> DEFINE Long == op \in {23, 189}
<1> DEFINE Two == op = 16 /\ b = 63
<1> DEFINE Three == op = 17 /\ b = 63
<1> DEFINE One == op = 63
<1> DEFINE Direct == op \in {60, 141, 157}
<1> DEFINE Index == op = 173
<1> DEFINE Plain == b < 128
<1> DEFINE Byte1 == b >= 128 /\ n \in {8, 12}
<1> DEFINE Byte2 == b >= 128 /\ n \in {9, 13, 15}
<1> DEFINE indexed == CASE Plain -> 2 [] Byte1 -> 3 [] Byte2 -> 4 [] OTHER -> 2
<1>1. nexti(m) = CASE Long -> 3 [] Two -> 3 [] Three -> 2 [] One -> 1 [] Direct -> 2
                   [] Index -> indexed [] OTHER -> 0
  BY DEF nexti
<1>2. /\ Long => ~Two /\ ~Three /\ ~One /\ ~Direct /\ ~Index
      /\ Two => ~Three /\ ~One /\ ~Direct /\ ~Index
      /\ Three => ~One /\ ~Direct /\ ~Index
      /\ One => ~Direct /\ ~Index
      /\ Direct => ~Index
  BY SMT
<1>3. /\ Plain => ~Byte1 /\ ~Byte2 /\ 2 + Extra(b) = 2
      /\ Byte1 => ~Byte2 /\ 2 + Extra(b) = 3
      /\ Byte2 => 2 + Extra(b) = 4
      /\ ~Plain /\ ~Byte1 /\ ~Byte2 => 2 + Extra(b) = 2
  BY SMT, ByteDef DEF Extra
<1>4. op \in {141, 157} => Direct
  BY SMT
<1> HIDE DEF Plain, Byte1, Byte2
<1>5. indexed = 2 + Extra(b)
  <2>1. CASE Plain
    BY <1>3, <2>1, Zenon
  <2>2. CASE Byte1
    BY <1>3, <2>2, Zenon
  <2>3. CASE Byte2
    BY <1>3, <2>3, Zenon
  <2>4. CASE ~Plain /\ ~Byte1 /\ ~Byte2
    BY <1>3, <2>4, Zenon
  <2> QED BY <2>1, <2>2, <2>3, <2>4
<1> HIDE DEF Long, Two, Three, One, Direct, Index, indexed
<1>6. Long => nexti(m) = 3
  BY <1>1, <1>2, Zenon
<1>7. Two => nexti(m) = 3
  BY <1>1, <1>2, Zenon
<1>8. Three => nexti(m) = 2
  BY <1>1, <1>2, Zenon
<1>9. One => nexti(m) = 1
  BY <1>1, <1>2, Zenon
<1>10. Direct => nexti(m) = 2
  BY <1>1, <1>2, Zenon
<1>11. Index => nexti(m) = indexed
  BY <1>1, <1>2, Zenon
<1> QED BY <1>4, <1>5, <1>6, <1>7, <1>8, <1>9, <1>10, <1>11 DEF Long, Two, Three, One, Index

(* Room for a call: the instruction does not wrap, and S has RAM for a     *)
(* frame below it and for what a postbyte adds.                            *)
CallRoom(m) == m.pc + 5 <= 65535 /\ 12 <= m.s /\ m.s + 2 < RomStart

(* A subroutine called with the program counter behind the instruction     *)
(* comes back where a breakpoint n bytes further would be.                 *)
LEMMA ComesBack ==
  ASSUME NEW pc \in Int, NEW s \in Int, 12 <= s, s + 2 < RomStart,
         NEW l \in Machine, NEW q \in Int, NEW n \in 1..5,
         l.pc = pc + n, l.s \in Int, s - 2 <= l.s, l.s <= s + 2,
         NEW e, e = Subroutine(l, q), NEW d, d = n
  PROVE  d > 0 /\ WordAt(e, e.s) = pc + d
<1>1. RomStart \in Int
  BY RomBound, SMT
<1>2. 2 <= l.s /\ l.s <= RomStart
  BY <1>1, SMT
<1>3. WordAt(e, e.s) = l.pc
  BY <1>2, SubroutinePushes
<1> QED BY <1>3, SMT

(* The calls of subroutines, and their return addresses. *)
LEMMA CallReturns ==
  ASSUME NEW m \in Machine, CallRoom(m), PrefixCount(m) = 0,
         Opcode(m) \in {23, 141, 157, 173, 189}, NEW j
  PROVE  LET e == Exec(m, j)
         IN  nexti(m) > 0 /\ WordAt(e, e.s) = m.pc + nexti(m)
<1> DEFINE e == Exec(m, j)
<1> DEFINE i == Skip(m, 1)
<1> DEFINE op == At(m, m.pc)
<1> DEFINE b == At(m, m.pc + 1)
<1>1. /\ m.pc \in Int /\ 0 <= m.pc /\ m.pc + 5 <= 65535
      /\ m.s \in Int /\ 12 <= m.s /\ m.s + 2 < RomStart
      /\ RomStart \in Int /\ RomStart <= 65536
      /\ op \in Byte /\ b \in Byte /\ DOMAIN m = Fields
  <2>1. m.pc \in Word /\ m.s \in Word
    BY FieldType DEF WordRegs
  <2>2. m.pc \in Int /\ 0 <= m.pc /\ m.s \in Int
    BY <2>1, WordDef
  <2>3. DOMAIN m = Fields
    BY MachineFields DEF Fields
  <2>4. RomStart \in Int /\ RomStart <= 65536
    BY RomBound, SMT
  <2>5. op \in Byte /\ b \in Byte
    BY MemoryType
  <2> QED BY <2>2, <2>3, <2>4, <2>5 DEF CallRoom
<1>2. Flag(m) = 0 /\ Opcode(m) = op
  <2>1. m.pc + 0 = m.pc
    BY <1>1, SMT
  <2> QED BY <2>1 DEF Flag, Opcode
<1>3. \A row \in 1..11 : Opcode(m) \div 16 = row =>
         /\ row = 1 => e = Row1(i, Opcode(m) % 16, j)
         /\ row = 8 => e = Row8(i, Opcode(m) % 16, 0)
         /\ row = 9 => e = Row9(i, Opcode(m) % 16, 0)
         /\ row = 10 => e = RowA(i, Opcode(m) % 16, 0)
         /\ row = 11 => e = RowB(i, Opcode(m) % 16, 0)
  <2> DEFINE first == PrefixCount(m) + 1
  <2> DEFINE k == Skip(m, first)
  <2>1. /\ Opcode(m) \div 16 = 1 => e = Row1(k, Opcode(m) % 16, j)
        /\ Opcode(m) \div 16 = 8 => e = Row8(k, Opcode(m) % 16, Flag(m))
        /\ Opcode(m) \div 16 = 9 => e = Row9(k, Opcode(m) % 16, Flag(m))
        /\ Opcode(m) \div 16 = 10 => e = RowA(k, Opcode(m) % 16, Flag(m))
        /\ Opcode(m) \div 16 = 11 => e = RowB(k, Opcode(m) % 16, Flag(m))
    BY SMT DEF Exec
  <2>2. first = 1
    BY SMT
  <2> HIDE DEF first, e
  <2> QED BY <1>2, <2>1, <2>2
<1>4. /\ i \in Machine /\ i.pc = m.pc + 1 /\ i.s = m.s
      /\ At(i, i.pc) = b
  <2>1. Ready(m, 1)
    BY <1>1, SMT DEF Ready
  <2> QED BY <2>1, SkipFields DEF Fields
<1> HIDE DEF e, i, op, b
<1>5. Ready(i, 4)
  <2>1. DOMAIN i = Fields
    BY <1>4, MachineFields DEF Fields
  <2> QED BY <1>1, <1>4, <2>1, SMT DEF Ready
<1>6. \A n \in {1, 2} : /\ Skip(i, n) \in Machine /\ Skip(i, n).pc = m.pc + 1 + n
                        /\ Skip(i, n).s = m.s
  <2> SUFFICES ASSUME NEW n \in {1, 2}
               PROVE  /\ Skip(i, n) \in Machine /\ Skip(i, n).pc = m.pc + 1 + n
                      /\ Skip(i, n).s = m.s
    OBVIOUS
  <2>1. Ready(i, n) /\ n \in Nat
    BY <1>5, SMT DEF Ready
  <2> QED BY <1>4, <2>1, SkipFields DEF Fields
<1> DEFINE Goal == nexti(m) > 0 /\ WordAt(e, e.s) = m.pc + nexti(m)
<1> SUFFICES Goal
  BY DEF e
<1>7. ASSUME NEW n \in {1, 2}, NEW q \in Int, e = Subroutine(Skip(i, n), q),
             nexti(m) = n + 1
      PROVE  Goal
  <2> DEFINE l == Skip(i, n)
  <2> DEFINE d == nexti(m)
  <2>1. l \in Machine /\ l.pc = m.pc + 1 + n /\ l.s = m.s
    BY <1>6
  <2>2. e = Subroutine(l, q) /\ d = n + 1
    BY <1>7
  <2> HIDE DEF l, d
  <2>3. l.pc = m.pc + (n + 1) /\ n + 1 \in 1..5
    BY <1>1, <2>1, SMT
  <2>4. l.s \in Int /\ m.s - 2 <= l.s /\ l.s <= m.s + 2
    BY <1>1, <2>1, SMT
  <2>5. d > 0 /\ WordAt(e, e.s) = m.pc + d
    BY <1>1, <2>1, <2>2, <2>3, <2>4, ComesBack
  <2> QED BY <2>5 DEF d
<1>8. CASE Opcode(m) = 23
  <2> DEFINE q == Skip(i, 2).pc + WordAt(i, i.pc)
  <2>1. 23 \div 16 = 1 /\ 23 % 16 = 7 /\ 1 \in 1..11
    BY SMT
  <2>2. e = Row1(i, 7, j)
    BY <1>3, <1>8, <2>1
  <2>3. Row1(i, 7, j) = Subroutine(Skip(i, 2), q)
    BY SMT DEF Row1
  <2>4. q \in Int
    <3>1. WordAt(i, i.pc) \in Word /\ Skip(i, 2).pc \in Word
      BY <1>4, <1>6, MemoryType, FieldType DEF WordRegs
    <3> QED BY <3>1, WordDef, SMT
  <2>5. op = 23
    BY <1>2, <1>8
  <2>6. nexti(m) = 3
    BY <1>1, <2>5, NextiOf DEF op, b
  <2>7. nexti(m) = 2 + 1
    BY <2>6, SMT
  <2> HIDE DEF q, Goal
  <2> QED BY <1>7, <2>2, <2>3, <2>4, <2>7
<1>9. CASE Opcode(m) = 141
  <2> DEFINE q == i.pc + 1 + Signed(At(i, i.pc))
  <2>1. 141 \div 16 = 8 /\ 141 % 16 = 13 /\ 8 \in 1..11
    BY SMT
  <2>2. e = Row8(i, 13, 0)
    BY <1>3, <1>9, <2>1
  <2>3. Row8(i, 13, 0) = Subroutine(Skip(i, 1), q)
    BY DEF Row8
  <2>4. q \in Int
    <3>1. At(i, i.pc) \in Byte /\ i.pc \in Word
      BY <1>4, MemoryType, FieldType DEF WordRegs
    <3> QED BY <3>1, ByteDef, WordDef, SMT DEF Signed
  <2>5. op = 141
    BY <1>2, <1>9
  <2>6. nexti(m) = 2
    BY <1>1, <2>5, NextiOf DEF op, b
  <2>7. nexti(m) = 1 + 1
    BY <2>6, SMT
  <2> HIDE DEF q, Goal
  <2> QED BY <1>7, <2>2, <2>3, <2>4, <2>7
<1>10. CASE Opcode(m) = 157
  <2> DEFINE q == DIRECT(i).ea
  <2>1. 157 \div 16 = 9 /\ 157 % 16 = 13 /\ 9 \in 1..11
    BY SMT
  <2>2. e = ColumnA(13, DIRECT(i), 0)
    BY <1>3, <1>10, <2>1 DEF Row9
  <2>3. DIRECT(i).m = Skip(i, 1) /\ q \in Int
    BY <1>4, DirectType, WordDef DEF DIRECT, Operand, OperandOK
  <2>4. e = Subroutine(Skip(i, 1), q)
    BY <2>2, <2>3, SMT DEF ColumnA
  <2>5. op = 157
    BY <1>2, <1>10
  <2>6. nexti(m) = 2
    BY <1>1, <2>5, NextiOf DEF op, b
  <2>7. nexti(m) = 1 + 1
    BY <2>6, SMT
  <2> HIDE DEF q, Goal
  <2> QED BY <1>7, <2>3, <2>4, <2>7
<1>11. CASE Opcode(m) = 189
  <2> DEFINE q == EXTENDED(i).ea
  <2>1. 189 \div 16 = 11 /\ 189 % 16 = 13 /\ 11 \in 1..11
    BY SMT
  <2>2. e = ColumnA(13, EXTENDED(i), 0)
    BY <1>3, <1>11, <2>1 DEF RowB
  <2>3. EXTENDED(i).m = Skip(i, 2) /\ q \in Int
    BY <1>4, DirectType, WordDef DEF EXTENDED, Operand, OperandOK
  <2>4. e = Subroutine(Skip(i, 2), q)
    BY <2>2, <2>3, SMT DEF ColumnA
  <2>5. op = 189
    BY <1>2, <1>11
  <2>6. nexti(m) = 3
    BY <1>1, <2>5, NextiOf DEF op, b
  <2>7. nexti(m) = 2 + 1
    BY <2>6, SMT
  <2> HIDE DEF q, Goal
  <2> QED BY <1>7, <2>3, <2>4, <2>7
<1>12. CASE Opcode(m) = 173
  <2> DEFINE o == INDEXED(i)
  <2> DEFINE l == o.m
  <2> DEFINE q == o.ea
  <2> DEFINE n == 2 + Extra(b)
  <2> DEFINE d == nexti(m)
  <2>1. 173 \div 16 = 10 /\ 173 % 16 = 13 /\ 10 \in 1..11
    BY SMT
  <2>2. e = ColumnA(13, o, 0)
    BY <1>3, <1>12, <2>1 DEF RowA
  <2>3. ColumnA(13, o, 0) = Subroutine(l, q)
    BY SMT DEF ColumnA
  <2>4. /\ l \in Machine /\ q \in Word /\ l.pc = i.pc + 1 + Extra(b)
        /\ l.s \in Int /\ m.s - 2 <= l.s /\ l.s <= m.s + 2
    <3>1. 2 <= i.s /\ i.s + 2 <= 65535
      BY <1>1, <1>4, SMT
    <3> QED BY <1>4, <1>5, <3>1, IndexedSteps
  <2>5. d = n
    <3>1. op = 173
      BY <1>2, <1>12
    <3> QED BY <1>1, <3>1, NextiOf DEF op, b
  <2>6. Extra(b) \in {0, 1, 2}
    BY DEF Extra
  <2>7. q \in Int
    BY <2>4, WordDef
  <2> HIDE DEF o, l, q, d
  <2>8. l.pc = m.pc + n /\ n \in 1..5
    BY <1>1, <1>4, <2>4, <2>6, SMT
  <2> HIDE DEF n
  <2>9. e = Subroutine(l, q)
    BY <2>2, <2>3
  <2>10. d > 0 /\ WordAt(e, e.s) = m.pc + d
    BY <1>1, <2>4, <2>5, <2>7, <2>8, <2>9, ComesBack
  <2> QED BY <2>10 DEF d
<1> QED BY <1>8, <1>9, <1>10, <1>11, <1>12

(* SWI, SWI2 and SWI3, and the return addresses in their frames. *)
LEMMA InterruptReturns ==
  ASSUME NEW m \in Machine, CallRoom(m), Opcode(m) = 63,
         PrefixCount(m) \in {0, 1}, NEW j
  PROVE  LET e == Exec(m, j)
             os9 == IF Flag(m) = 1 THEN 1 ELSE 0
         IN  nexti(m) > 0 /\ WordAt(e, e.s + 10) + os9 = m.pc + nexti(m)
<1> DEFINE e == Exec(m, j)
<1> DEFINE count == PrefixCount(m)
<1> DEFINE flag == Flag(m)
<1> DEFINE os9 == IF flag = 1 THEN 1 ELSE 0
<1> DEFINE d == nexti(m)
<1> DEFINE op == At(m, m.pc)
<1> DEFINE b == At(m, m.pc + 1)
<1> DEFINE k == Skip(m, count + 1)
<1>1. /\ m.pc \in Int /\ 0 <= m.pc /\ m.pc + 5 <= 65535
      /\ m.s \in Int /\ 12 <= m.s /\ m.s <= RomStart
      /\ op \in Byte /\ b \in Byte /\ DOMAIN m = Fields
  <2>1. m.pc \in Word /\ m.s \in Word
    BY FieldType DEF WordRegs
  <2>2. m.pc \in Int /\ 0 <= m.pc /\ m.s \in Int
    BY <2>1, WordDef
  <2>3. RomStart \in Int
    BY RomBound
  <2>4. op \in Byte /\ b \in Byte
    BY MemoryType
  <2>5. m.s <= RomStart
    BY <2>2, <2>3, SMT DEF CallRoom
  <2> QED BY <2>2, <2>4, <2>5, MachineFields DEF CallRoom, Fields
<1>2. /\ flag \in {0, 1, 2} /\ (count = 0 => op = 63 /\ flag = 0 /\ d = 1)
      /\ (count = 1 => (flag = 1 /\ d = 3) \/ (flag = 2 /\ d = 2))
  <2>1. m.pc + 0 = m.pc /\ m.pc + 1 - 1 = m.pc /\ 63 \notin {16, 17}
    BY <1>1, SMT
  <2>2. CASE count = 0
    <3>1. op = 63 /\ flag = 0
      BY <2>1, <2>2 DEF Flag, Opcode
    <3>2. d = 1
      BY <1>1, <3>1, NextiOf
    <3>3. ~(count = 1)
      BY <2>2, SMT
    <3> QED BY <3>1, <3>2, <3>3
  <2>3. CASE count = 1
    <3>1. b = 63 /\ 1 # 0
      BY <2>3, SMT DEF Opcode
    <3>2. 1 \in 0..MaxPrefix
      BY ShapesAssumption, SMT
    <3>3. flag \in {0, 1, 2} /\ flag # 0
      BY <2>1, <2>3, <3>1, <3>2, PrefixType
    <3>4. flag = op - 15
      BY <2>1, <2>3, <3>1 DEF Flag
    <3> HIDE DEF flag, count, op, b, d
    <3>5. (op = 16 /\ flag = 1) \/ (op = 17 /\ flag = 2)
      <4>1. op \in Int
        BY <1>1, ByteDef
      <4> QED BY <3>3, <3>4, <4>1, SMT
    <3>6. CASE op = 16 /\ flag = 1
      <4>1. d = 3
        BY <1>1, <3>1, <3>6, NextiOf DEF op, b, d
      <4> QED BY <2>3, <3>3, <3>6, <4>1, SMT
    <3>7. CASE op = 17 /\ flag = 2
      <4>1. d = 2
        BY <1>1, <3>1, <3>7, NextiOf DEF op, b, d
      <4> QED BY <2>3, <3>3, <3>7, <4>1, SMT
    <3> QED BY <3>5, <3>6, <3>7
  <2> QED BY <2>2, <2>3
<1>3. e = SWI(k, flag)
  <2>1. 63 \div 16 = 3 /\ 63 % 16 = 15
    BY SMT
  <2>2. e = Row3(k, 15, flag)
    <3>1. Opcode(m) \div 16 = 3 => e = Row3(k, Opcode(m) % 16, flag)
      BY DEF Exec
    <3> QED BY <2>1, <3>1
  <2> HIDE DEF flag
  <2>3. \A l : Row3(l, 15, flag) = SWI(l, flag)
    BY SMT DEF Row3
  <2> QED BY <2>2, <2>3
<1> HIDE DEF count, flag, d, e
<1>4. k \in Machine /\ k.pc = m.pc + (count + 1) /\ k.s = m.s
  <2>1. count + 1 \in Nat /\ Ready(m, count + 1)
    BY <1>1, SMT DEF Ready, count
  <2> QED BY <2>1, SkipFields DEF Fields
<1> HIDE DEF k
<1>5. PICK v : v = (CASE flag = 0 -> 65530 [] flag = 1 -> 65524 [] flag = 2 -> 65522)
  OBVIOUS
<1> DEFINE x == [k EXCEPT !.cc = @ \cup {"E"}]
<1> DEFINE all == Frame("u")
<1> DEFINE p == PushAll(x, "s", "u", all)
<1>6. /\ x \in Machine /\ (\A f \in Fields \ {"cc"} : x[f] = k[f])
      /\ e.s = p.s /\ e.mem = p.mem
  BY <1>5, <1>2, <1>3, <1>4, InterruptTaken
<1> HIDE DEF x
<1>7. x.s = m.s /\ x.pc = m.pc + (count + 1)
  BY <1>4, <1>6 DEF Fields
<1>8. p.s = x.s - 12 /\ WordAt(p, x.s - 2) = x.pc
  <2>1. all = Frame(Other("s")) /\ Other("s") = "u" /\ "pc" \in all
    BY DEF Other, Frame
  <2> QED BY <1>1, <1>6, <1>7, <2>1, PullAllUndoes
<1> HIDE DEF p
<1>9. e.s + 10 = x.s - 2
  BY <1>1, <1>6, <1>7, <1>8, SMT
<1>10. WordAt(e, e.s + 10) = m.pc + (count + 1)
  BY <1>6, <1>7, <1>8, <1>9 DEF WordAt, At
<1>11. d > 0 /\ m.pc + (count + 1) + os9 = m.pc + d
  BY <1>1, <1>2, SMT DEF count
<1> QED BY <1>10, <1>11 DEF e, d, flag, os9

(* Step over stops where a call comes back, for every machine in which the *)
(* call has room.                                                          *)
THEOREM StepOverReturnsHolds == Spec => [](CallRoom(cpu) => StepOverReturns)
<1>1. WidthInv => (CallRoom(cpu) => StepOverReturns)
  <2> SUFFICES ASSUME WidthInv, CallRoom(cpu), Calls PROVE StepOverReturns
    BY DEF StepOverReturns
  <2>1. cpu \in Machine
    BY DEF WidthInv
  <2>2. 63 \notin {23, 141, 157, 173, 189}
    BY SMT
  <2> DEFINE e == Exec(cpu, 0)
  <2>3. CASE Op = 63
    <3>1. PrefixCount(cpu) \in {0, 1}
      BY DEF Calls
    <3> DEFINE os9 == IF Flag(cpu) = 1 THEN 1 ELSE 0
    <3>2. nexti(cpu) > 0 /\ WordAt(e, e.s + 10) + os9 = cpu.pc + nexti(cpu)
      BY <2>1, <2>3, <3>1, InterruptReturns DEF Op
    <3> QED BY <2>3, <3>2 DEF StepOverReturns
  <2>4. CASE Op # 63
    <3>1. PrefixCount(cpu) = 0 /\ Op \in {23, 141, 157, 173, 189}
      BY <2>4 DEF Calls
    <3> DEFINE w == WordAt(e, e.s)
    <3>2. nexti(cpu) > 0 /\ w = cpu.pc + nexti(cpu)
      BY <2>1, <3>1, CallReturns DEF Op
    <3>3. w + 0 = w
      <4>1. cpu.pc \in Word
        BY <2>1, FieldType DEF WordRegs
      <4>2. e \in Machine
        <5>1. Opcode(cpu) \notin {16, 17}
          BY <3>1, SMT DEF Op
        <5>2. cpu.pc + 0 \in Int
          BY <4>1, WordDef, SMT
        <5>3. 0 \in 0..MaxPrefix /\ 0 \in Word
          BY PrefixBound, WordDef, SMT
        <5>4. At(cpu, cpu.pc + 0) \notin {16, 17}
          BY <3>1, <5>1 DEF Opcode
        <5> QED BY <2>1, <5>3, <5>4, ExecType
      <4>3. w \in Word
        BY <4>2, MemoryType
      <4> QED BY <4>3, WordDef, SMT
    <3> HIDE DEF w
    <3>4. w + (IF Op = 63 /\ Flag(cpu) = 1 THEN 1 ELSE 0) = cpu.pc + nexti(cpu)
      BY <2>4, <3>2, <3>3
    <3> QED BY <2>4, <3>2, <3>4 DEF StepOverReturns, w
  <2> QED BY <2>3, <2>4
<1> QED BY <1>1, WidthHolds, PTL

-----------------------------------------------------------------------------
(* Listings: where an instruction leaves the program counter, what the     *)
(* tables of the disassembler have, and that the two agree.                *)

(* What the other rows go on behind themselves by is the length of their   *)
(* operand.                                                                *)
RowsGoOn(m, n, flag) ==
    LET wide == IF n \in {3, 12, 13, 14, 15} THEN 2 ELSE 1
        indexed == 1 + Extra(At(m, m.pc))
    IN  /\ n \in L!Unary16 \ {14} => Row0(m, n).pc = Past(m, 1) /\ Row7(m, n).pc = Past(m, 2)
        /\ Row4(m, n).pc = m.pc /\ Row5(m, n).pc = m.pc
        /\ n # 14 => Row6(m, n).pc = Past(m, indexed)
        /\ n # 13 => /\ Row8(m, n, flag).pc = Past(m, wide)
                     /\ Row9(m, n, flag).pc = Past(m, 1)
                     /\ RowA(m, n, flag).pc = Past(m, indexed)
                     /\ RowB(m, n, flag).pc = Past(m, 2)
        /\ RowC(m, n, flag).pc = Past(m, wide) /\ RowD(m, n, flag).pc = Past(m, 1)
        /\ RowE(m, n, flag).pc = Past(m, indexed) /\ RowF(m, n, flag).pc = Past(m, 2)

(* They do.                                                                *)
LEMMA OtherRowsPc ==
  ASSUME NEW m \in Machine, NEW n \in 0..15, NEW flag \in {0, 1, 2}
  PROVE  RowsGoOn(m, n, flag)
<1> DEFINE past(k) == Past(m, k)
<1> DEFINE wide == IF n \in {3, 12, 13, 14, 15} THEN 2 ELSE 1
<1> DEFINE indexed == 1 + Extra(At(m, m.pc))
<1>1. /\ OperandOK(IMM8(m)) /\ OperandOK(IMM16(m)) /\ OperandOK(DIRECT(m))
      /\ OperandOK(EXTENDED(m)) /\ OperandOK(INDEXED(m))
  BY DirectType, IndexedType
<1>2. /\ IMM8(m).m.pc = past(1) /\ IMM16(m).m.pc = past(2)
      /\ DIRECT(m).m.pc = past(1) /\ EXTENDED(m).m.pc = past(2)
      /\ INDEXED(m).m.pc = past(indexed)
  <2>1. m.pc + 1 + Extra(At(m, m.pc)) = m.pc + indexed
    <3>1. m.pc \in Word
      BY FieldType DEF WordRegs
    <3>2. m.pc \in Int /\ Extra(At(m, m.pc)) \in Int
      BY <3>1, WordDef DEF Extra
    <3> QED BY <3>2, SMT
  <2> QED BY <2>1, OperandPc DEF Past
<1> HIDE DEF past, indexed
<1>3. n \in L!Unary16 => UnaryOp[n + 1] # "ill"
  <2>1. \A j \in 1..16 : j - 1 \in {0, 3, 4, 6, 7, 8, 9, 10, 12, 13, 14, 15} => UnaryOp[j] # "ill"
    BY SMT DEF UnaryOp
  <2>2. n + 1 \in 1..16 /\ (n + 1) - 1 = n
    BY SMT
  <2> QED BY <2>1, <2>2 DEF L!Unary16
<1>4. n \in L!Unary16 \ {14} => Row0(m, n).pc = past(1) /\ Row7(m, n).pc = past(2)
  BY <1>1, <1>2, <1>3, UnaryKeepsPc DEF Row0, Row7
<1>5. n # 14 => Row6(m, n).pc = past(indexed)
  BY <1>1, <1>2, UnaryKeepsPc DEF Row6
<1>6. Row4(m, n).pc = m.pc /\ Row5(m, n).pc = m.pc
  <2>1. CASE n = 14
    <3>1. UnaryOp[n + 1] = "JMP"
      BY <2>1, SMT DEF UnaryOp
    <3> QED BY <3>1 DEF Row4, Row5, OnRegister
  <2>2. CASE n # 14
    BY <2>2, UnaryKeepsPc DEF Row4, Row5
  <2> QED BY <2>1, <2>2
<1>7. /\ n # 13 => /\ Row9(m, n, flag).pc = past(1)
                   /\ RowA(m, n, flag).pc = past(indexed)
                   /\ RowB(m, n, flag).pc = past(2)
      /\ RowD(m, n, flag).pc = past(1)
      /\ RowE(m, n, flag).pc = past(indexed) /\ RowF(m, n, flag).pc = past(2)
  BY <1>1, <1>2, ColumnsKeepPc DEF Row9, RowA, RowB, RowD, RowE, RowF
<1>8. (n # 13 => Row8(m, n, flag).pc = past(wide)) /\ RowC(m, n, flag).pc = past(wide)
  <2> DEFINE o == IF BinaryOp[n + 1] = "16" THEN IMM16(m) ELSE IMM8(m)
  <2>1. BinaryOp[n + 1] = "16" <=> n \in {3, 12, 13, 14, 15}
    <3>1. \A j \in 1..16 : BinaryOp[j] = "16" <=> j - 1 \in {3, 12, 13, 14, 15}
      BY SMT DEF BinaryOp
    <3>2. n + 1 \in 1..16 /\ (n + 1) - 1 = n
      BY SMT
    <3> QED BY <3>1, <3>2
  <2>2. OperandOK(o) /\ o.m.pc = past(wide)
    BY <1>1, <1>2, <2>1
  <2>3. (n # 13 => Row8(m, n, flag) = ColumnA(n, o, flag)) /\ RowC(m, n, flag) = ColumnB(n, o, flag)
    BY DEF Row8, RowC
  <2> HIDE DEF o, wide
  <2> QED BY <2>2, <2>3, ColumnsKeepPc
<1> QED BY <1>4, <1>5, <1>6, <1>7, <1>8 DEF RowsGoOn, past, indexed

(* The bytes behind an opcode, row by row.                                 *)
LEMMA FollowingRows ==
  ASSUME NEW op \in Byte, NEW b, NEW flag
  PROVE  LET n == op % 16
             row == op \div 16
             t == Following(op, b, flag)
             indexed == 1 + Extra(b)
             wide == IF n \in {3, 12, 13, 14, 15} THEN 2 ELSE 1
         IN  /\ row \in {0, 9, 13} => t = 1
             /\ row = 1 => t = IF n \in {6, 7} THEN 2
                               ELSE IF n \in {10, 12, 14, 15} THEN 1 ELSE 0
             /\ row = 2 => t = IF flag = 0 THEN 1 ELSE 2
             /\ row = 3 => t = IF n \in 0..3 THEN indexed ELSE IF n \in 4..7 THEN 1 ELSE 0
             /\ row \in {4, 5} => t = 0
             /\ row \in {6, 10, 14} => t = indexed
             /\ row \in {7, 11, 15} => t = 2
             /\ row \in {8, 12} => t = wide
<1> DEFINE n == op % 16
<1> DEFINE row == op \div 16
<1> DEFINE indexed == 1 + Extra(b)
<1> DEFINE t == Following(op, b, flag)
<1>1. op \in Int /\ op = 16 * row + n /\ n \in 0..15 /\ row \in 0..15
  <2>1. op \in Int /\ 0 <= op /\ op <= 255
    BY ByteDef
  <2> QED BY <2>1, SMT
<1>2. t = IF row \in {6, 10, 14} \/ op \in 48..51 THEN indexed
          ELSE IF row \in {4, 5} \/ op \in 56..63 \/ (row = 1 /\ n \notin {6, 7, 10, 12, 14, 15})
                 THEN 0
          ELSE IF \/ row \in {7, 11, 15} \/ op \in {22, 23} \/ (row = 2 /\ flag # 0)
                  \/ (row \in {8, 12} /\ n \in {3, 12, 13, 14, 15})
                 THEN 2
          ELSE 1
  BY DEF Following
<1> HIDE DEF n, row, indexed, t
<1>3. /\ op \in 48..51 <=> row = 3 /\ n \in 0..3
      /\ op \in 56..63 <=> row = 3 /\ n \in 8..15
      /\ op \in {22, 23} <=> row = 1 /\ n \in {6, 7}
  BY <1>1, SMT
<1>4. /\ row \in {0, 9, 13} => t = 1
      /\ row \in {4, 5} => t = 0
      /\ row \in {6, 10, 14} => t = indexed
      /\ row \in {7, 11, 15} => t = 2
      /\ row = 2 => t = IF flag = 0 THEN 1 ELSE 2
  BY <1>1, <1>2, <1>3, SMT
<1>5. row = 1 => t = IF n \in {6, 7} THEN 2 ELSE IF n \in {10, 12, 14, 15} THEN 1 ELSE 0
  BY <1>1, <1>2, <1>3, SMT
<1>6. row = 3 => t = IF n \in 0..3 THEN indexed ELSE IF n \in 4..7 THEN 1 ELSE 0
  BY <1>1, <1>2, <1>3, SMT
<1>7. row \in {8, 12} => t = IF n \in {3, 12, 13, 14, 15} THEN 2 ELSE 1
  BY <1>1, <1>2, <1>3, SMT
<1> QED BY <1>4, <1>5, <1>6, <1>7 DEF n, row, indexed, t

(* An instruction that goes on behind itself: op the opcode, b the byte    *)
(* after it.                                                               *)
GoesOn(op, b, taken) ==
    LET n == op % 16
        row == op \div 16
    IN  /\ row \in {0, 7} => n \in L!Unary16
        /\ (row = 2 => ~taken)
        /\ ~(n = 14 /\ row \in {0, 6, 7})
        /\ op \notin {22, 23, 57, 59, 60, 63, 141, 157, 173, 189}
        /\ ~(op \in {53, 55} /\ b >= 128)
        /\ ~(op = 30 /\ 5 \in {b \div 16, b % 16})
        /\ ~(op = 31 /\ b % 16 = 5)

(* It leaves the program counter behind its bytes.                         *)
LEMMA ExecPc ==
  ASSUME NEW m \in Machine, NEW junk \in Word,
         \E k \in 0..MaxPrefix : At(m, m.pc + k) \notin {16, 17},
         NEW i, i = Skip(m, PrefixCount(m) + 1), NEW b, b = At(i, i.pc),
         GoesOn(Opcode(m), b, Taken(Opcode(m) % 16, m.cc))
  PROVE  Exec(m, junk).pc = Past(i, Following(Opcode(m), b, Flag(m)))
<1> DEFINE op == Opcode(m)
           n == op % 16
           flag == Flag(m)
           row == op \div 16
           e == Exec(m, junk)
           t == Following(op, b, flag)
           past(k) == Past(i, k)
           indexed == 1 + Extra(b)
           wide == IF n \in {3, 12, 13, 14, 15} THEN 2 ELSE 1
<1>1. PrefixCount(m) + 1 \in Int /\ flag \in {0, 1, 2} /\ op \in Byte /\ op \notin {16, 17}
  <2>1. PrefixCount(m) \in 0..MaxPrefix /\ flag \in {0, 1, 2} /\ op \in Byte /\ op \notin {16, 17}
    BY PrefixType
  <2>2. MaxPrefix \in Nat
    BY PrefixBound, Zenon
  <2> HIDE DEF flag, op
  <2> QED BY <2>1, <2>2, SMT
<1>2. n \in 0..15 /\ row \in 0..15 /\ op = 16 * row + n /\ op \in Int
  BY <1>1, ByteDef, SMT
<1>3. i \in Machine
  BY <1>1, SkipType
<1>4. i.cc = m.cc
  BY MachineFields DEF Skip
<1>5. b \in Byte
  BY <1>3, MemoryType
<1>6. i.pc = past(0)
  <2>1. i.pc \in Word
    BY <1>3, FieldType DEF WordRegs
  <2> QED BY <2>1, WordDef, SMT DEF Past
<1>7. \A k \in Int : (i.pc + 1 + k) = i.pc + (1 + k)
  <2>1. i.pc \in Word
    BY <1>3, FieldType DEF WordRegs
  <2> QED BY <2>1, WordDef, SMT
<1>8. /\ row \in {0, 9, 13} => t = 1
      /\ row = 1 => t = IF n \in {6, 7} THEN 2
                        ELSE IF n \in {10, 12, 14, 15} THEN 1 ELSE 0
      /\ row = 2 => t = IF flag = 0 THEN 1 ELSE 2
      /\ row = 3 => t = IF n \in 0..3 THEN indexed ELSE IF n \in 4..7 THEN 1 ELSE 0
      /\ row \in {4, 5} => t = 0
      /\ row \in {6, 10, 14} => t = indexed
      /\ row \in {7, 11, 15} => t = 2
      /\ row \in {8, 12} => t = wide
  <2> HIDE DEF op, flag
  <2> QED BY <1>1, FollowingRows DEF n, row, t, indexed, wide
<1>9. /\ row \in {0, 7} => n \in L!Unary16
      /\ (row = 2 => ~Taken(n, m.cc))
      /\ ~(n = 14 /\ row \in {0, 6, 7})
      /\ op \notin {22, 23, 57, 59, 60, 63, 141, 157, 173, 189}
      /\ ~(op \in {53, 55} /\ b >= 128)
      /\ ~(op = 30 /\ 5 \in {b \div 16, b % 16})
      /\ ~(op = 31 /\ b % 16 = 5)
  BY DEF GoesOn
<1>10. /\ row = 0 => e = Row0(i, n)
       /\ row = 1 => e = Row1(i, n, junk)
       /\ row = 2 => e = Row2(i, n, flag)
       /\ row = 3 => e = Row3(i, n, flag)
  <2> HIDE DEF n, row, e, op, flag
  <2>1. row = 0 => e = Row0(i, n) BY SMT DEF Exec, e, n, flag, row, op
  <2>2. row = 1 => e = Row1(i, n, junk) BY SMT DEF Exec, e, n, flag, row, op
  <2>3. row = 2 => e = Row2(i, n, flag) BY SMT DEF Exec, e, n, flag, row, op
  <2>4. row = 3 => e = Row3(i, n, flag) BY SMT DEF Exec, e, n, flag, row, op
  <2> QED BY <2>1, <2>2, <2>3, <2>4
<1>11. /\ row = 4 => e = Row4(i, n)
       /\ row = 5 => e = Row5(i, n)
       /\ row = 6 => e = Row6(i, n)
       /\ row = 7 => e = Row7(i, n)
  <2> HIDE DEF n, row, e, op, flag
  <2>1. row = 4 => e = Row4(i, n) BY SMT DEF Exec, e, n, flag, row, op
  <2>2. row = 5 => e = Row5(i, n) BY SMT DEF Exec, e, n, flag, row, op
  <2>3. row = 6 => e = Row6(i, n) BY SMT DEF Exec, e, n, flag, row, op
  <2>4. row = 7 => e = Row7(i, n) BY SMT DEF Exec, e, n, flag, row, op
  <2> QED BY <2>1, <2>2, <2>3, <2>4
<1>12. /\ row = 8 => e = Row8(i, n, flag)
       /\ row = 9 => e = Row9(i, n, flag)
       /\ row = 10 => e = RowA(i, n, flag)
       /\ row = 11 => e = RowB(i, n, flag)
  <2> HIDE DEF n, row, e, op, flag
  <2>1. row = 8 => e = Row8(i, n, flag) BY SMT DEF Exec, e, n, flag, row, op
  <2>2. row = 9 => e = Row9(i, n, flag) BY SMT DEF Exec, e, n, flag, row, op
  <2>3. row = 10 => e = RowA(i, n, flag) BY SMT DEF Exec, e, n, flag, row, op
  <2>4. row = 11 => e = RowB(i, n, flag) BY SMT DEF Exec, e, n, flag, row, op
  <2> QED BY <2>1, <2>2, <2>3, <2>4
<1>13. /\ row = 12 => e = RowC(i, n, flag)
       /\ row = 13 => e = RowD(i, n, flag)
       /\ row = 14 => e = RowE(i, n, flag)
       /\ row = 15 => e = RowF(i, n, flag)
  <2> HIDE DEF n, row, e, op, flag
  <2>1. row = 12 => e = RowC(i, n, flag) BY SMT DEF Exec, e, n, flag, row, op
  <2>2. row = 13 => e = RowD(i, n, flag) BY SMT DEF Exec, e, n, flag, row, op
  <2>3. row = 14 => e = RowE(i, n, flag) BY SMT DEF Exec, e, n, flag, row, op
  <2>4. row = 15 => e = RowF(i, n, flag) BY SMT DEF Exec, e, n, flag, row, op
  <2> QED BY <2>1, <2>2, <2>3, <2>4
<1> SUFFICES e.pc = past(t)
  BY DEF GoesOn
<1> HIDE DEF op, n, row, e, t, flag
<1>14. n \in L!Unary16 <=> n \in {0, 3, 4, 6, 7, 8, 9, 10, 12, 13, 14, 15}
  BY DEF L!Unary16
<1>15. /\ n \in L!Unary16 \ {14} => Row0(i, n).pc = past(1) /\ Row7(i, n).pc = past(2)
       /\ Row4(i, n).pc = i.pc /\ Row5(i, n).pc = i.pc
       /\ n # 14 => Row6(i, n).pc = past(indexed)
       /\ n # 13 => /\ Row8(i, n, flag).pc = past(wide)
                    /\ Row9(i, n, flag).pc = past(1)
                    /\ RowA(i, n, flag).pc = past(indexed)
                    /\ RowB(i, n, flag).pc = past(2)
       /\ RowC(i, n, flag).pc = past(wide) /\ RowD(i, n, flag).pc = past(1)
       /\ RowE(i, n, flag).pc = past(indexed) /\ RowF(i, n, flag).pc = past(2)
  <2>1. RowsGoOn(i, n, flag)
    BY <1>1, <1>2, <1>3, OtherRowsPc
  <2> QED BY <2>1 DEF RowsGoOn
<1> HIDE DEF past, indexed, wide
<1>16. CASE row = 0 \/ row \in {4, 5, 6, 7}
  <2>1. CASE row = 0
    <3>1. n \in L!Unary16 \ {14} /\ t = 1
      BY <1>8, <1>9, <2>1
    <3> QED BY <1>10, <1>15, <2>1, <3>1
  <2>2. CASE row \in {4, 5}
    <3>1. t = 0
      BY <1>8, <2>2
    <3> QED BY <1>6, <1>11, <1>15, <2>2, <3>1
  <2>3. CASE row = 6
    <3>1. n # 14 /\ t = indexed
      BY <1>8, <1>9, <2>3
    <3> QED BY <1>11, <1>15, <2>3, <3>1
  <2>4. CASE row = 7
    <3>1. n \in L!Unary16 \ {14} /\ t = 2
      BY <1>8, <1>9, <2>4
    <3> QED BY <1>11, <1>15, <2>4, <3>1
  <2> QED BY <1>16, <2>1, <2>2, <2>3, <2>4
<1>17. CASE row \in {8, 9, 10, 11}
  <2>1. n # 13
    BY <1>2, <1>9, <1>17, SMT
  <2>2. CASE row = 8
    <3>1. t = wide
      BY <1>8, <2>2
    <3> QED BY <1>12, <1>15, <2>1, <2>2, <3>1
  <2>3. CASE row = 9
    <3>1. t = 1
      BY <1>8, <2>3
    <3> QED BY <1>12, <1>15, <2>1, <2>3, <3>1
  <2>4. CASE row = 10
    <3>1. t = indexed
      BY <1>8, <2>4
    <3> QED BY <1>12, <1>15, <2>1, <2>4, <3>1
  <2>5. CASE row = 11
    <3>1. t = 2
      BY <1>8, <2>5
    <3> QED BY <1>12, <1>15, <2>1, <2>5, <3>1
  <2> QED BY <1>17, <2>2, <2>3, <2>4, <2>5
<1>18. CASE row \in {12, 13, 14, 15}
  <2>2. CASE row = 12
    <3>1. t = wide
      BY <1>8, <2>2
    <3> QED BY <1>13, <1>15, <2>2, <3>1
  <2>3. CASE row = 13
    <3>1. t = 1
      BY <1>8, <2>3
    <3> QED BY <1>13, <1>15, <2>3, <3>1
  <2>4. CASE row = 14
    <3>1. t = indexed
      BY <1>8, <2>4
    <3> QED BY <1>13, <1>15, <2>4, <3>1
  <2>5. CASE row = 15
    <3>1. t = 2
      BY <1>8, <2>5
    <3> QED BY <1>13, <1>15, <2>5, <3>1
  <2> QED BY <1>18, <2>2, <2>3, <2>4, <2>5
<1>19. CASE row = 1
  <2>1. n \notin {6, 7} /\ (n = 14 => op = 30) /\ (n = 15 => op = 31)
    BY <1>2, <1>9, <1>19, SMT
  <2>2. (n = 14 => b \div 16 # 5 /\ b % 16 # 5) /\ (n = 15 => b % 16 # 5)
    BY <1>9, <2>1
  <2>3. Row1(i, n, junk).pc = IF n \in {10, 12, 14, 15} THEN (i.pc + 1) % 65536 ELSE i.pc
    BY <1>2, <1>3, <2>1, <2>2, Row1Pc
  <2>4. past(1) = (i.pc + 1) % 65536
    BY DEF past, Past
  <2>5. t = IF n \in {10, 12, 14, 15} THEN 1 ELSE 0
    BY <1>8, <1>19, <2>1
  <2>6. e = Row1(i, n, junk)
    BY <1>10, <1>19
  <2> QED BY <1>6, <2>3, <2>4, <2>5, <2>6
<1>20. CASE row = 2
  <2> DEFINE len == IF flag = 0 THEN 1 ELSE 2
  <2> DEFINE d == IF flag = 0 THEN Signed(At(i, i.pc)) ELSE WordAt(i, i.pc)
  <2>1. ~Taken(n, i.cc)
    BY <1>4, <1>9, <1>20
  <2>2. e.pc = (i.pc + len + IF Taken(n, i.cc) THEN d ELSE 0) % 65536
    <3>1. e = Row2(i, n, flag)
      BY <1>10, <1>20
    <3> QED BY <1>3, <3>1, Row2Pc
  <2>3. i.pc + len + 0 = i.pc + len
    <3>1. i.pc \in Word
      BY <1>3, FieldType DEF WordRegs
    <3> QED BY <3>1, WordDef, SMT
  <2> QED BY <1>8, <1>20, <2>1, <2>2, <2>3 DEF past, Past
<1>21. CASE row = 3
  <2>1. n \notin {9, 11, 15} /\ (n = 5 => op = 53) /\ (n = 7 => op = 55)
    BY <1>2, <1>9, <1>21, SMT
  <2>2. n \in {5, 7} => b < 128
    BY <1>5, <1>9, <2>1, ByteDef, SMT
  <2>3. Row3(i, n, flag).pc = IF n \in 0..3 THEN (i.pc + 1 + Extra(b)) % 65536
                              ELSE IF n \in 4..7 THEN (i.pc + 1) % 65536 ELSE i.pc
    BY <1>2, <1>3, <2>1, <2>2, Row3Pc
  <2>4. past(1) = (i.pc + 1) % 65536
    BY DEF past, Past
  <2>5. past(indexed) = (i.pc + 1 + Extra(b)) % 65536
    <3>1. Extra(b) \in Int
      BY DEF Extra
    <3> QED BY <1>7, <3>1 DEF past, Past, indexed
  <2>6. t = IF n \in 0..3 THEN indexed ELSE IF n \in 4..7 THEN 1 ELSE 0
    BY <1>8, <1>21
  <2>7. e = Row3(i, n, flag)
    BY <1>10, <1>21
  <2> QED BY <1>6, <2>3, <2>4, <2>5, <2>6, <2>7
<1>22. row \in {0, 1, 2, 3} \/ row \in {4, 5, 6, 7} \/ row \in {8, 9, 10, 11}
       \/ row \in {12, 13, 14, 15}
  BY <1>2, SMT
<1>23. e.pc = past(t)
  BY <1>16, <1>17, <1>18, <1>19, <1>20, <1>21, <1>22
<1> QED BY <1>23

-----------------------------------------------------------------------------
(* The tables of the disassembler. *)

(* Opcodes $10 to $1F.                                                     *)
LEMMA TableRow1 ==
  ASSUME NEW op \in Byte, op \div 16 = 1
  PROVE  LET n == op % 16
             e == L!OptableLow(op)
         IN  /\ n \in {6, 7} => e = L!Entry("RelativeL", 3)
             /\ n \in {10, 12} => e = L!Entry("Immediat", 2)
             /\ n \in {14, 15} => e = L!Entry("Register", 2)
             /\ n \in {2, 3, 9, 13} => e = L!Entry("Inherent", 1)
             /\ n \in {4, 5, 8, 11} => e = L!Illegal(1)
             /\ n = 0 => e = L!Entry("Page10", 1)
             /\ n = 1 => e = L!Entry("Page11", 1)
<1> DEFINE n == op % 16
<1> DEFINE row == op \div 16
<1> DEFINE e == L!OptableLow(op)
<1> DEFINE Zero == n = 0
           One == n = 1
           Long == n \in {6, 7}
           Cc == n \in {10, 12}
           Two == n \in {14, 15}
           rest == IF n \in {2, 3, 9, 13} THEN L!Entry("Inherent", 1) ELSE L!Illegal(1)
           inner == CASE Zero -> L!Entry("Page10", 1) [] One -> L!Entry("Page11", 1)
                      [] Long -> L!Entry("RelativeL", 3) [] Cc -> L!Entry("Immediat", 2)
                      [] Two -> L!Entry("Register", 2) [] OTHER -> rest
           row0 == IF n \in L!Unary16 THEN L!Entry("Direct", 2) ELSE L!Illegal(1)
           row3 == CASE n < 4 -> L!Entry("Indexed", 2)
                     [] n \in 4..7 -> L!Entry("Register", 2)
                     [] n = 12 -> L!Entry("Inherent", 2)
                     [] OTHER -> IF n \in {9, 10, 11, 13, 15} THEN L!Entry("Inherent", 1)
                                 ELSE L!Illegal(1)
           row4 == IF n \in L!Unary16 \ {14} THEN L!Entry("Inherent", 1) ELSE L!Illegal(1)
           row6 == IF n \in L!Unary16 THEN L!Entry("Indexed", 2)
                   ELSE IF n = 5 THEN L!Entry("Nameless", 2) ELSE L!Illegal(2)
           row7 == IF n \in L!Unary16 THEN L!Entry("Extended", 3) ELSE L!Illegal(1)
<1>1. e = CASE row = 0 -> row0 [] row = 1 -> inner [] row = 2 -> L!Entry("Relative", 2)
            [] row = 3 -> row3 [] row \in {4, 5} -> row4 [] row = 6 -> row6 [] row = 7 -> row7
  BY DEF L!OptableLow
<1>2. /\ Zero => ~One /\ ~Long /\ ~Cc /\ ~Two
      /\ One => ~Zero /\ ~Long /\ ~Cc /\ ~Two
      /\ Long => ~Zero /\ ~One /\ ~Cc /\ ~Two
      /\ Cc => ~Zero /\ ~One /\ ~Long /\ ~Two
      /\ Two => ~Zero /\ ~One /\ ~Long /\ ~Cc
      /\ n \in {2, 3, 9, 13, 4, 5, 8, 11} => ~Zero /\ ~One /\ ~Long /\ ~Cc /\ ~Two
      /\ n \in {2, 3, 9, 13} => rest = L!Entry("Inherent", 1)
      /\ n \in {4, 5, 8, 11} => rest = L!Illegal(1)
  <2> HIDE DEF n
  <2> QED BY SMT
<1> HIDE DEF row0, row3, row4, row6, row7, inner, n, e, row
<1>3. row = 1
  BY DEF row
<1>4. e = inner
  BY <1>1, <1>3, SMT
<1> HIDE DEF Zero, One, Long, Cc, Two, rest
<1>5. /\ Zero => inner = L!Entry("Page10", 1)
      /\ One => inner = L!Entry("Page11", 1)
      /\ Long => inner = L!Entry("RelativeL", 3)
      /\ Cc => inner = L!Entry("Immediat", 2)
      /\ Two => inner = L!Entry("Register", 2)
      /\ ~Zero /\ ~One /\ ~Long /\ ~Cc /\ ~Two => inner = rest
  <2>1. Zero => inner = L!Entry("Page10", 1)
    BY <1>2, Zenon DEF inner
  <2>2. One => inner = L!Entry("Page11", 1)
    BY <1>2, Zenon DEF inner
  <2>3. Long => inner = L!Entry("RelativeL", 3)
    BY <1>2, Zenon DEF inner
  <2>4. Cc => inner = L!Entry("Immediat", 2)
    BY <1>2, Zenon DEF inner
  <2>5. Two => inner = L!Entry("Register", 2)
    BY <1>2, Zenon DEF inner
  <2>6. ~Zero /\ ~One /\ ~Long /\ ~Cc /\ ~Two => inner = rest
    BY <1>2, Zenon DEF inner
  <2> QED BY <2>1, <2>2, <2>3, <2>4, <2>5, <2>6
<1>6. n \in {2, 3, 9, 13, 4, 5, 8, 11} => inner = rest
  BY <1>2, <1>5
<1> QED BY <1>2, <1>4, <1>5, <1>6 DEF Zero, One, Long, Cc, Two, n, e

(* Opcodes $30 to $3F.                                                     *)
LEMMA TableRow3 ==
  ASSUME NEW op \in Byte, op \div 16 = 3
  PROVE  LET n == op % 16
             e == L!OptableLow(op)
         IN  /\ n < 4 => e = L!Entry("Indexed", 2)
             /\ n \in 4..7 => e = L!Entry("Register", 2)
             /\ n \in {9, 10, 11, 13, 15} => e = L!Entry("Inherent", 1)
             /\ n \in {8, 14} => e = L!Illegal(1)
             /\ n = 12 => e = L!Entry("Inherent", 2)
<1> DEFINE n == op % 16
<1> DEFINE row == op \div 16
<1> DEFINE e == L!OptableLow(op)
<1> DEFINE Lea == n < 4
           Stack == n \in 4..7
           Cwai == n = 12
           rest == IF n \in {9, 10, 11, 13, 15} THEN L!Entry("Inherent", 1) ELSE L!Illegal(1)
           inner == CASE Lea -> L!Entry("Indexed", 2) [] Stack -> L!Entry("Register", 2)
                      [] Cwai -> L!Entry("Inherent", 2) [] OTHER -> rest
           row0 == IF n \in L!Unary16 THEN L!Entry("Direct", 2) ELSE L!Illegal(1)
           row1 == CASE n = 0 -> L!Entry("Page10", 1)
                          [] n = 1 -> L!Entry("Page11", 1)
                          [] n \in {6, 7} -> L!Entry("RelativeL", 3)
                          [] n \in {10, 12} -> L!Entry("Immediat", 2)
                          [] n \in {14, 15} -> L!Entry("Register", 2)
                          [] OTHER -> IF n \in {2, 3, 9, 13} THEN L!Entry("Inherent", 1)
                                      ELSE L!Illegal(1)
           row4 == IF n \in L!Unary16 \ {14} THEN L!Entry("Inherent", 1) ELSE L!Illegal(1)
           row6 == IF n \in L!Unary16 THEN L!Entry("Indexed", 2)
                   ELSE IF n = 5 THEN L!Entry("Nameless", 2) ELSE L!Illegal(2)
           row7 == IF n \in L!Unary16 THEN L!Entry("Extended", 3) ELSE L!Illegal(1)
<1>1. e = CASE row = 0 -> row0 [] row = 1 -> row1 [] row = 2 -> L!Entry("Relative", 2)
            [] row = 3 -> inner [] row \in {4, 5} -> row4 [] row = 6 -> row6 [] row = 7 -> row7
  BY DEF L!OptableLow
<1>2. n \in Int
  BY ByteDef, SMT
<1>3. /\ Lea => ~Stack /\ ~Cwai
      /\ Stack => ~Lea /\ ~Cwai
      /\ Cwai => ~Lea /\ ~Stack
      /\ n \in {9, 10, 11, 13, 15, 8, 14} => ~Lea /\ ~Stack /\ ~Cwai
      /\ n \in {9, 10, 11, 13, 15} => rest = L!Entry("Inherent", 1)
      /\ n \in {8, 14} => rest = L!Illegal(1)
  <2> HIDE DEF n
  <2> QED BY <1>2, SMT
<1> HIDE DEF row0, row1, row4, row6, row7, inner, n, e, row
<1>4. e = inner
  <2>1. row = 3
    BY DEF row
  <2> QED BY <1>1, <2>1, SMT
<1> HIDE DEF Lea, Stack, Cwai, rest
<1>5. Lea => inner = L!Entry("Indexed", 2)
  BY <1>3, Zenon DEF inner
<1>6. Stack => inner = L!Entry("Register", 2)
  BY <1>3, Zenon DEF inner
<1>7. ~Lea /\ ~Stack /\ ~Cwai => inner = rest
  BY Zenon DEF inner
<1>9. Cwai => inner = L!Entry("Inherent", 2)
  BY <1>3, Zenon DEF inner
<1>8. n \in {9, 10, 11, 13, 15, 8, 14} => inner = rest
  BY <1>3, <1>7
<1> QED BY <1>3, <1>4, <1>5, <1>6, <1>8, <1>9 DEF Lea, Stack, Cwai, n, e

(* The other opcodes below $80.                                            *)
LEMMA TableLow ==
  ASSUME NEW op \in Byte
  PROVE  LET n == op % 16
             row == op \div 16
             e == L!OptableLow(op)
             known == n \in L!Unary16
         IN  /\ row = 0 => e = IF known THEN L!Entry("Direct", 2) ELSE L!Illegal(1)
             /\ row = 2 => e = L!Entry("Relative", 2)
             /\ row \in {4, 5} => e = IF known /\ n # 14 THEN L!Entry("Inherent", 1)
                                      ELSE L!Illegal(1)
             /\ row = 6 => e = IF known THEN L!Entry("Indexed", 2)
                              ELSE IF n = 5 THEN L!Entry("Nameless", 2) ELSE L!Illegal(2)
             /\ row = 7 => e = IF known THEN L!Entry("Extended", 3) ELSE L!Illegal(1)
<1> DEFINE n == op % 16
<1> DEFINE row == op \div 16
<1> DEFINE e == L!OptableLow(op)
<1> DEFINE known == n \in L!Unary16
<1> DEFINE row0 == IF known THEN L!Entry("Direct", 2) ELSE L!Illegal(1)
           row1 == CASE n = 0 -> L!Entry("Page10", 1)
                          [] n = 1 -> L!Entry("Page11", 1)
                          [] n \in {6, 7} -> L!Entry("RelativeL", 3)
                          [] n \in {10, 12} -> L!Entry("Immediat", 2)
                          [] n \in {14, 15} -> L!Entry("Register", 2)
                          [] OTHER -> IF n \in {2, 3, 9, 13} THEN L!Entry("Inherent", 1)
                                      ELSE L!Illegal(1)
           row3 == CASE n < 4 -> L!Entry("Indexed", 2)
                     [] n \in 4..7 -> L!Entry("Register", 2)
                     [] n = 12 -> L!Entry("Inherent", 2)
                     [] OTHER -> IF n \in {9, 10, 11, 13, 15} THEN L!Entry("Inherent", 1)
                                 ELSE L!Illegal(1)
           row4 == IF n \in L!Unary16 \ {14} THEN L!Entry("Inherent", 1) ELSE L!Illegal(1)
           row6 == IF known THEN L!Entry("Indexed", 2)
                   ELSE IF n = 5 THEN L!Entry("Nameless", 2) ELSE L!Illegal(2)
           row7 == IF known THEN L!Entry("Extended", 3) ELSE L!Illegal(1)
<1>1. e = CASE row = 0 -> row0 [] row = 1 -> row1 [] row = 2 -> L!Entry("Relative", 2)
            [] row = 3 -> row3 [] row \in {4, 5} -> row4 [] row = 6 -> row6 [] row = 7 -> row7
  BY DEF L!OptableLow
<1>2. row4 = IF known /\ n # 14 THEN L!Entry("Inherent", 1) ELSE L!Illegal(1)
  OBVIOUS
<1> HIDE DEF row0, row1, row3, row4, row6, row7, n, e, row, known
<1>3. (row = 0 => e = row0) /\ (row = 2 => e = L!Entry("Relative", 2))
  BY <1>1, SMT
<1>4. (row \in {4, 5} => e = row4) /\ (row = 6 => e = row6) /\ (row = 7 => e = row7)
  BY <1>1, SMT
<1> QED BY <1>2, <1>3, <1>4 DEF row0, row6, row7, n, e, row, known

(* The opcodes from $80 on.                                                *)
LEMMA TableHigh ==
  ASSUME NEW op \in Byte, op >= 128
  PROVE  LET n == op % 16
             row == op \div 16
             e == L!OptableHigh(op)
         IN  /\ row = 8 => e = IF n \in {7, 15} THEN L!Illegal(2)
                               ELSE IF n = 13 THEN L!Entry("Relative", 2)
                               ELSE IF n \in {3, 12, 14} THEN L!Entry("ImmediatL", 3)
                               ELSE L!Entry("Immediat", 2)
             /\ row = 12 => e = IF n \in {7, 13, 15} THEN L!Illegal(1)
                                ELSE IF n \in {3, 12, 14} THEN L!Entry("ImmediatL", 3)
                                ELSE L!Entry("Immediat", 2)
             /\ row \in {9, 13} => e = L!Entry("Direct", 2)
             /\ row \in {10, 14} => e = L!Entry("Indexed", 2)
             /\ row \in {11, 15} => e = L!Entry("Extended", 3)
<1> DEFINE n == op % 16
<1> DEFINE row == op \div 16
<1> DEFINE e == L!OptableHigh(op)
<1>1. e = CASE row = 8 /\ n \in {7, 15} -> L!Illegal(2)
            [] row = 12 /\ n \in {7, 13, 15} -> L!Illegal(1)
            [] row = 8 /\ n = 13 -> L!Entry("Relative", 2)
            [] row \in {8, 12} /\ n \in {3, 12, 14} -> L!Entry("ImmediatL", 3)
            [] row \in {8, 12} /\ n \notin {3, 7, 12, 13, 14, 15} -> L!Entry("Immediat", 2)
            [] row % 4 = 1 -> L!Entry("Direct", 2)
            [] row % 4 = 2 -> L!Entry("Indexed", 2)
            [] row % 4 = 3 -> L!Entry("Extended", 3)
  BY DEF L!OptableHigh
<1>7. n \in 0..15
  BY ByteDef, SMT
<1> HIDE DEF n, row, e
<1>2. row \in {9, 13} => e = L!Entry("Direct", 2)
  BY <1>1, SMT
<1>3. row \in {10, 14} => e = L!Entry("Indexed", 2)
  BY <1>1, SMT
<1>4. row \in {11, 15} => e = L!Entry("Extended", 3)
  BY <1>1, SMT
<1>5. row = 8 => e = IF n \in {7, 15} THEN L!Illegal(2)
                     ELSE IF n = 13 THEN L!Entry("Relative", 2)
                     ELSE IF n \in {3, 12, 14} THEN L!Entry("ImmediatL", 3)
                     ELSE L!Entry("Immediat", 2)
  BY <1>1, <1>7, SMT
<1>6. row = 12 => e = IF n \in {7, 13, 15} THEN L!Illegal(1)
                      ELSE IF n \in {3, 12, 14} THEN L!Entry("ImmediatL", 3)
                      ELSE L!Entry("Immediat", 2)
  BY <1>1, <1>7, SMT
<1> QED BY <1>2, <1>3, <1>4, <1>5, <1>6 DEF n, row, e

(* What the high half of a table of a prefix holds.                        *)
LEMMA TablePrefixed ==
  ASSUME NEW op, NEW imm, NEW other,
         op \in imm => op - 16 \notin other /\ op - 32 \notin other /\ op - 48 \notin other,
         op - 16 \in other => op - 32 \notin other /\ op - 48 \notin other,
         op - 32 \in other => op - 48 \notin other
  PROVE  L!Prefixed(op, imm, other) =
           IF op \in imm THEN L!Entry("ImmediatL", 4)
           ELSE IF op - 16 \in other THEN L!Entry("Direct", 3)
           ELSE IF op - 32 \in other THEN L!Entry("Indexed", 3)
           ELSE IF op - 48 \in other THEN L!Entry("Extended", 4)
           ELSE L!Illegal(1)
<1> DEFINE Imm == op \in imm
           Dir == op - 16 \in other
           Ind == op - 32 \in other
           Ext == op - 48 \in other
           e == L!Prefixed(op, imm, other)
           E(d, k) == L!Entry(d, k)
           bad == L!Illegal(1)
<1>1. e = CASE Imm -> E("ImmediatL", 4)
      [] Dir -> E("Direct", 3)
      [] Ind -> E("Indexed", 3)
      [] Ext -> E("Extended", 4)
      [] OTHER -> bad
  BY DEF L!Prefixed
<1>2. /\ Imm => ~Dir /\ ~Ind /\ ~Ext
      /\ Dir => ~Ind /\ ~Ext
      /\ Ind => ~Ext
  OBVIOUS
<1> HIDE DEF Imm, Dir, Ind, Ext, e, E, bad
<1>3. Imm => e = E("ImmediatL", 4)
  BY <1>1, <1>2, Zenon
<1>4. Dir => e = E("Direct", 3)
  BY <1>1, <1>2, Zenon
<1>5. Ind => e = E("Indexed", 3)
  BY <1>1, <1>2, Zenon
<1>6. Ext => e = E("Extended", 4)
  BY <1>1, <1>2, Zenon
<1>7. ~Imm /\ ~Dir /\ ~Ind /\ ~Ext => e = bad
  BY <1>1, Zenon
<1> QED BY <1>3, <1>4, <1>5, <1>6, <1>7 DEF Imm, Dir, Ind, Ext, e, E, bad

(* The table of the prefix $10.                                            *)
LEMMA TableTen ==
  ASSUME NEW op \in Byte
  PROVE  LET e == L!optable10(op)
         IN  e = IF op \in 33..47 THEN L!Entry("RelativeL", 4)
                 ELSE IF op = 63 THEN L!Entry("OS9", 3)
                 ELSE IF op \in {131, 140, 142, 206} THEN L!Entry("ImmediatL", 4)
                 ELSE IF op \in {147, 156, 158, 159, 222, 223} THEN L!Entry("Direct", 3)
                 ELSE IF op \in {163, 172, 174, 175, 238, 239} THEN L!Entry("Indexed", 3)
                 ELSE IF op \in {179, 188, 190, 191, 254, 255} THEN L!Entry("Extended", 4)
                 ELSE L!Illegal(1)
<1>1. op \in Int /\ 0 <= op /\ op <= 255
  BY ByteDef
<1>2. CASE op < 128
  <2> DEFINE Long == op \in 33..47
             Os9 == op = 63
             e == L!Optable10Low(op)
             E(d, k) == L!Entry(d, k)
             bad == L!Illegal(1)
  <2>1. L!optable10(op) = e
    BY <1>2 DEF L!optable10
  <2>2. e = CASE Long -> E("RelativeL", 4) [] Os9 -> E("OS9", 3) [] OTHER -> bad
    BY DEF L!Optable10Low
  <2>3. Long => ~Os9
    BY SMT
  <2> HIDE DEF Long, Os9, e, E, bad
  <2>4. Long => e = E("RelativeL", 4)
    BY <2>2, <2>3, Zenon
  <2>5. Os9 => e = E("OS9", 3)
    BY <2>2, <2>3, Zenon
  <2>6. ~Long /\ ~Os9 => e = bad
    BY <2>2, Zenon
  <2>7. e = IF Long THEN E("RelativeL", 4) ELSE IF Os9 THEN E("OS9", 3) ELSE bad
    BY <2>4, <2>5, <2>6
  <2>8. op \notin {131, 140, 142, 206, 147, 156, 158, 159, 222, 223, 163, 172, 174, 175, 238,
                   239, 179, 188, 190, 191, 254, 255}
    BY <1>1, <1>2, SMT
  <2> QED BY <2>1, <2>7, <2>8, SMT DEF Long, Os9, E, bad
<1>3. CASE op \in 128..191
  <2>1. L!optable10(op) = L!Prefixed(op, {131, 140, 142}, {131, 140, 142, 143})
    <3>1. ~(op < 128) /\ op < 192
      BY <1>3, SMT
    <3> QED BY <3>1 DEF L!optable10, L!Optable10High
  <2>2. L!Prefixed(op, {131, 140, 142}, {131, 140, 142, 143}) =
           IF op \in {131, 140, 142} THEN L!Entry("ImmediatL", 4)
           ELSE IF op - 16 \in {131, 140, 142, 143} THEN L!Entry("Direct", 3)
           ELSE IF op - 32 \in {131, 140, 142, 143} THEN L!Entry("Indexed", 3)
           ELSE IF op - 48 \in {131, 140, 142, 143} THEN L!Entry("Extended", 4)
           ELSE L!Illegal(1)
    <3> DEFINE imm == {131, 140, 142}
               other == {131, 140, 142, 143}
    <3>1. op \in imm => op - 16 \notin other /\ op - 32 \notin other /\ op - 48 \notin other
      BY <1>1, SMT
    <3>2. op - 16 \in other => op - 32 \notin other /\ op - 48 \notin other
      BY <1>1, SMT
    <3>3. op - 32 \in other => op - 48 \notin other
      BY <1>1, SMT
    <3> HIDE DEF imm, other
    <3>4. L!Prefixed(op, imm, other) =
           IF op \in imm THEN L!Entry("ImmediatL", 4)
           ELSE IF op - 16 \in other THEN L!Entry("Direct", 3)
           ELSE IF op - 32 \in other THEN L!Entry("Indexed", 3)
           ELSE IF op - 48 \in other THEN L!Entry("Extended", 4)
           ELSE L!Illegal(1)
      BY <3>1, <3>2, <3>3, TablePrefixed
    <3> QED BY <3>4 DEF imm, other
  <2> HIDE DEF L!Prefixed
  <2> QED BY <1>3, <2>1, <2>2, SMT
<1>4. CASE op >= 192
  <2>1. L!optable10(op) = L!Prefixed(op, {206}, {206, 207})
    <3>1. ~(op < 128) /\ ~(op < 192)
      BY <1>1, <1>4, SMT
    <3> QED BY <3>1 DEF L!optable10, L!Optable10High
  <2>2. L!Prefixed(op, {206}, {206, 207}) =
           IF op \in {206} THEN L!Entry("ImmediatL", 4)
           ELSE IF op - 16 \in {206, 207} THEN L!Entry("Direct", 3)
           ELSE IF op - 32 \in {206, 207} THEN L!Entry("Indexed", 3)
           ELSE IF op - 48 \in {206, 207} THEN L!Entry("Extended", 4)
           ELSE L!Illegal(1)
    <3> DEFINE imm == {206}
               other == {206, 207}
    <3>1. op \in imm => op - 16 \notin other /\ op - 32 \notin other /\ op - 48 \notin other
      BY <1>1, SMT
    <3>2. op - 16 \in other => op - 32 \notin other /\ op - 48 \notin other
      BY <1>1, SMT
    <3>3. op - 32 \in other => op - 48 \notin other
      BY <1>1, SMT
    <3> HIDE DEF imm, other
    <3>4. L!Prefixed(op, imm, other) =
           IF op \in imm THEN L!Entry("ImmediatL", 4)
           ELSE IF op - 16 \in other THEN L!Entry("Direct", 3)
           ELSE IF op - 32 \in other THEN L!Entry("Indexed", 3)
           ELSE IF op - 48 \in other THEN L!Entry("Extended", 4)
           ELSE L!Illegal(1)
      BY <3>1, <3>2, <3>3, TablePrefixed
    <3> QED BY <3>4 DEF imm, other
  <2> QED BY <1>1, <1>4, <2>1, <2>2, SMT
<1>5. op < 128 \/ op \in 128..191 \/ op >= 192
  BY <1>1, SMT
<1> QED BY <1>2, <1>3, <1>4, <1>5

(* The table of the prefix $11.                                            *)
LEMMA TableEleven ==
  ASSUME NEW op \in Byte
  PROVE  LET e == L!optable11(op)
         IN  e = IF op = 63 THEN L!Entry("Inherent", 2)
                 ELSE IF op \in {131, 140} THEN L!Entry("ImmediatL", 4)
                 ELSE IF op \in {147, 156} THEN L!Entry("Direct", 3)
                 ELSE IF op \in {163, 172} THEN L!Entry("Indexed", 3)
                 ELSE IF op \in {179, 188} THEN L!Entry("Extended", 4)
                 ELSE L!Illegal(1)
<1>1. op \in Int /\ 0 <= op /\ op <= 255
  BY ByteDef
<1>2. CASE op < 128
  <2>1. L!optable11(op) = IF op = 63 THEN L!Entry("Inherent", 2) ELSE L!Illegal(1)
    BY <1>2 DEF L!optable11, L!Optable11Low
  <2> QED BY <1>2, <2>1, SMT
<1>3. CASE op \in 128..191
  <2>1. L!optable11(op) = L!Prefixed(op, {131, 140}, {131, 140})
    <3>1. ~(op < 128) /\ op < 192
      BY <1>3, SMT
    <3> QED BY <3>1 DEF L!optable11, L!Optable11High
  <2>2. L!Prefixed(op, {131, 140}, {131, 140}) =
           IF op \in {131, 140} THEN L!Entry("ImmediatL", 4)
           ELSE IF op - 16 \in {131, 140} THEN L!Entry("Direct", 3)
           ELSE IF op - 32 \in {131, 140} THEN L!Entry("Indexed", 3)
           ELSE IF op - 48 \in {131, 140} THEN L!Entry("Extended", 4)
           ELSE L!Illegal(1)
    <3> DEFINE imm == {131, 140}
    <3>1. op \in imm => op - 16 \notin imm /\ op - 32 \notin imm /\ op - 48 \notin imm
      BY <1>1, SMT
    <3>2. op - 16 \in imm => op - 32 \notin imm /\ op - 48 \notin imm
      BY <1>1, SMT
    <3>3. op - 32 \in imm => op - 48 \notin imm
      BY <1>1, SMT
    <3> HIDE DEF imm
    <3>4. L!Prefixed(op, imm, imm) =
           IF op \in imm THEN L!Entry("ImmediatL", 4)
           ELSE IF op - 16 \in imm THEN L!Entry("Direct", 3)
           ELSE IF op - 32 \in imm THEN L!Entry("Indexed", 3)
           ELSE IF op - 48 \in imm THEN L!Entry("Extended", 4)
           ELSE L!Illegal(1)
      BY <3>1, <3>2, <3>3, TablePrefixed
    <3> QED BY <3>4 DEF imm
  <2> QED BY <1>3, <2>1, <2>2, SMT
<1>4. CASE op >= 192
  <2>1. L!optable11(op) = L!Illegal(1)
    <3>1. ~(op < 128) /\ ~(op < 192)
      BY <1>1, <1>4, SMT
    <3> QED BY <3>1 DEF L!optable11, L!Optable11High
  <2> QED BY <1>1, <1>4, <2>1, SMT
<1>5. op < 128 \/ op \in 128..191 \/ op >= 192
  BY <1>1, SMT
<1> QED BY <1>2, <1>3, <1>4, <1>5

(* An entry e is the one that the first table has in a row at n.           *)
TableRows(e, row, n) ==
    LET known == n \in L!Unary16
    IN  /\ row = 0 => e = IF known THEN L!Entry("Direct", 2) ELSE L!Illegal(1)
        /\ row = 1 => /\ n \in {6, 7} => e = L!Entry("RelativeL", 3)
                      /\ n \in {10, 12} => e = L!Entry("Immediat", 2)
                      /\ n \in {14, 15} => e = L!Entry("Register", 2)
                      /\ n \in {2, 3, 9, 13} => e = L!Entry("Inherent", 1)
                      /\ n \in {4, 5, 8, 11} => e = L!Illegal(1)
                      /\ n = 0 => e = L!Entry("Page10", 1)
                      /\ n = 1 => e = L!Entry("Page11", 1)
        /\ row = 2 => e = L!Entry("Relative", 2)
        /\ row = 3 => /\ n < 4 => e = L!Entry("Indexed", 2)
                      /\ n \in 4..7 => e = L!Entry("Register", 2)
                      /\ n \in {9, 10, 11, 13, 15} => e = L!Entry("Inherent", 1)
                      /\ n \in {8, 14} => e = L!Illegal(1)
                      /\ n = 12 => e = L!Entry("Inherent", 2)
        /\ row \in {4, 5} => e = IF known /\ n # 14 THEN L!Entry("Inherent", 1)
                                 ELSE L!Illegal(1)
        /\ row = 6 => e = IF known THEN L!Entry("Indexed", 2)
                          ELSE IF n = 5 THEN L!Entry("Nameless", 2) ELSE L!Illegal(2)
        /\ row = 7 => e = IF known THEN L!Entry("Extended", 3) ELSE L!Illegal(1)
        /\ row = 8 => e = IF n \in {7, 15} THEN L!Illegal(2)
                          ELSE IF n = 13 THEN L!Entry("Relative", 2)
                          ELSE IF n \in {3, 12, 14} THEN L!Entry("ImmediatL", 3)
                          ELSE L!Entry("Immediat", 2)
        /\ row = 12 => e = IF n \in {7, 13, 15} THEN L!Illegal(1)
                           ELSE IF n \in {3, 12, 14} THEN L!Entry("ImmediatL", 3)
                           ELSE L!Entry("Immediat", 2)
        /\ row \in {9, 13} => e = L!Entry("Direct", 2)
        /\ row \in {10, 14} => e = L!Entry("Indexed", 2)
        /\ row \in {11, 15} => e = L!Entry("Extended", 3)

(* It is so with the entry that optable finds.                             *)
LEMMA TableEntry ==
  ASSUME NEW op \in Byte
  PROVE  TableRows(L!optable(op), op \div 16, op % 16)
<1>1. op \in Int /\ 0 <= op /\ op <= 255
  BY ByteDef
<1>2. PICK row \in 0..15 : row = op \div 16
  BY <1>1, SMT
<1>3. CASE row < 8
  <2>1. PICK e : e = L!optable(op) /\ e = L!OptableLow(op)
    BY <1>1, <1>2, <1>3, SMT DEF L!optable
  <2>2. \A k \in {8, 9, 10, 11, 12, 13, 14, 15} : row # k
    BY <1>3, SMT
  <2>3. CASE row = 1
    BY <1>2, <2>1, <2>3, TableRow1 DEF TableRows
  <2>4. CASE row = 3
    BY <1>2, <2>1, <2>4, TableRow3 DEF TableRows
  <2>5. CASE row \notin {1, 3}
    BY <1>2, <2>1, <2>2, <2>5, TableLow DEF TableRows
  <2> QED BY <2>3, <2>4, <2>5
<1>4. CASE row >= 8
  <2>1. PICK e : e = L!optable(op) /\ e = L!OptableHigh(op)
    BY <1>1, <1>2, <1>4, SMT DEF L!optable
  <2>2. op >= 128 /\ \A k \in {0, 1, 2, 3, 4, 5, 6, 7} : row # k
    BY <1>1, <1>2, <1>4, SMT
  <2> QED BY <1>2, <2>1, <2>2, TableHigh DEF TableRows
<1> QED BY <1>3, <1>4, SMT

(* An entry e of a table fits the opcode op, behind a prefix if flag is    *)
(* not 0 and before a byte b: its length, and the kind of its operand.     *)
EntryFits(e, op, b, flag) ==
    LET n == op % 16
        row == op \div 16
        own == IF flag = 0 THEN 1 ELSE 2
        indexed == row \in {6, 10, 14} \/ op \in 48..51
    IN  /\ (e.display = "Indexed" <=> indexed)
        /\ indexed => e.bytes = own + 1
        /\ ~indexed /\ op \notin {60, 63, 141} => e.bytes = own + Following(op, b, flag)
        /\ (e.display = "Relative" <=> op = 141 \/ (row = 2 /\ flag = 0))
        /\ (e.display = "RelativeL" <=> op \in {22, 23} \/ (row = 2 /\ flag # 0))
        /\ row \in {0, 7} => n \in L!Unary16
        /\ flag # 0 => op \notin {22, 23, 48, 141}

Named(e) == e.display \notin {"Illegal", "Nameless"}

(* The entries of the first table do, if they stand for an instruction.    *)
LEMMA TableFits ==
  ASSUME NEW op \in Byte \ {16, 17}, NEW b, Named(L!optable(op))
  PROVE  EntryFits(L!optable(op), op, b, 0)
<1> DEFINE n == op % 16
<1> DEFINE row == op \div 16
<1> DEFINE e == L!optable(op)
<1> DEFINE t == Following(op, b, 0)
<1> DEFINE indexed == row \in {6, 10, 14} \/ op \in 48..51
<1> DEFINE known == n \in L!Unary16
<1>1. op \in Int /\ op = 16 * row + n /\ n \in 0..15 /\ row \in 0..15 /\ op \notin {16, 17}
  <2>1. op \in Int /\ 0 <= op /\ op <= 255 /\ op \notin {16, 17}
    BY ByteDef
  <2> QED BY <2>1, SMT
<1>2. /\ row \in {0, 9, 13} => t = 1
      /\ row = 1 => t = IF n \in {6, 7} THEN 2
                        ELSE IF n \in {10, 12, 14, 15} THEN 1 ELSE 0
      /\ row = 2 => t = 1
      /\ row = 3 => t = IF n \in 0..3 THEN 1 + Extra(b) ELSE IF n \in 4..7 THEN 1 ELSE 0
      /\ row \in {4, 5} => t = 0
      /\ row \in {7, 11, 15} => t = 2
      /\ row \in {8, 12} => t = IF n \in {3, 12, 13, 14, 15} THEN 2 ELSE 1
  BY FollowingRows
<1>3. TableRows(e, row, n)
  BY TableEntry
<1>5. e.display # "Illegal" /\ e.display # "Nameless"
  BY DEF Named
<1>6. /\ indexed <=> row \in {6, 10, 14} \/ (row = 3 /\ n \in 0..3)
      /\ op = 60 <=> row = 3 /\ n = 12
      /\ op = 63 <=> row = 3 /\ n = 15
      /\ op = 141 <=> row = 8 /\ n = 13
      /\ op \in {22, 23} <=> row = 1 /\ n \in {6, 7}
      /\ ~(row = 1 /\ n \in {0, 1})
  <2> HIDE DEF row, n
  <2> QED BY <1>1, SMT DEF indexed
<1> DEFINE Fits == /\ (e.display = "Indexed" <=> indexed)
                   /\ indexed => e.bytes = 2
                   /\ ~indexed /\ op \notin {60, 63, 141} => e.bytes = 1 + t
                   /\ (e.display = "Relative" <=> op = 141 \/ row = 2)
                   /\ (e.display = "RelativeL" <=> op \in {22, 23})
                   /\ row \in {0, 7} => known
<1> SUFFICES Fits
  BY SMT DEF EntryFits
<1> HIDE DEF e, t, row, n, indexed
<1>4. \A r \in 0..15 : row = r => Fits
  <2>1. row = 0 => Fits
    BY <1>1, <1>2, <1>3, <1>5, <1>6, SMT DEF TableRows, L!Entry, L!Illegal
  <2>2. row = 1 => Fits
    BY <1>1, <1>2, <1>3, <1>5, <1>6, SMT DEF TableRows, L!Entry, L!Illegal
  <2>3. row = 2 => Fits
    BY <1>1, <1>2, <1>3, <1>5, <1>6, SMT DEF TableRows, L!Entry, L!Illegal
  <2>4. row = 3 => Fits
    BY <1>1, <1>2, <1>3, <1>5, <1>6, SMT DEF TableRows, L!Entry, L!Illegal
  <2>5. row \in {4, 5} => Fits
    BY <1>1, <1>2, <1>3, <1>5, <1>6, SMT DEF TableRows, L!Entry, L!Illegal
  <2>6. row = 6 => Fits
    BY <1>1, <1>2, <1>3, <1>5, <1>6, SMT DEF TableRows, L!Entry, L!Illegal
  <2>7. row = 7 => Fits
    BY <1>1, <1>2, <1>3, <1>5, <1>6, SMT DEF TableRows, L!Entry, L!Illegal
  <2>8. row = 8 => Fits
    BY <1>1, <1>2, <1>3, <1>5, <1>6, SMT DEF TableRows, L!Entry, L!Illegal
  <2>9. row = 12 => Fits
    BY <1>1, <1>2, <1>3, <1>5, <1>6, SMT DEF TableRows, L!Entry, L!Illegal
  <2>10. row \in {9, 13} => Fits
    BY <1>1, <1>2, <1>3, <1>5, <1>6, SMT DEF TableRows, L!Entry, L!Illegal
  <2>11. row \in {10, 14} => Fits
    BY <1>1, <1>2, <1>3, <1>5, <1>6, SMT DEF TableRows, L!Entry, L!Illegal
  <2>12. row \in {11, 15} => Fits
    BY <1>1, <1>2, <1>3, <1>5, <1>6, SMT DEF TableRows, L!Entry, L!Illegal
  <2> QED BY <2>1, <2>2, <2>3, <2>4, <2>5, <2>6, <2>7, <2>8, <2>9, <2>10, <2>11, <2>12, SMT
<1> QED BY <1>1, <1>4

(* So do the entries of the tables of the prefixes.                        *)
LEMMA PrefixedFits ==
  ASSUME NEW op \in Byte, NEW b
  PROVE  /\ Named(L!optable10(op)) => EntryFits(L!optable10(op), op, b, 1)
         /\ Named(L!optable11(op)) => EntryFits(L!optable11(op), op, b, 2)
<1> DEFINE n == op % 16
<1> DEFINE row == op \div 16
<1> DEFINE t(flag) == Following(op, b, flag)
<1>1. op \in Int /\ op = 16 * row + n /\ n \in 0..15 /\ row \in 0..15
  <2>1. op \in Int /\ 0 <= op /\ op <= 255
    BY ByteDef
  <2> QED BY <2>1, SMT
<1>2. \A flag \in {1, 2} :
         /\ row \in {0, 9, 13} => t(flag) = 1
         /\ row = 2 => t(flag) = 2
         /\ row \in {7, 11, 15} => t(flag) = 2
         /\ row \in {8, 12} => t(flag) = IF n \in {3, 12, 13, 14, 15} THEN 2 ELSE 1
  <2>1. SUFFICES ASSUME NEW flag \in {1, 2}
                 PROVE  /\ row \in {0, 9, 13} => t(flag) = 1
                        /\ row = 2 => t(flag) = 2
                        /\ row \in {7, 11, 15} => t(flag) = 2
                        /\ row \in {8, 12} => t(flag) = IF n \in {3, 12, 13, 14, 15} THEN 2 ELSE 1
    OBVIOUS
  <2> QED BY FollowingRows
<1> DEFINE Fits(e, flag) ==
             LET indexed == row \in {6, 10, 14} \/ op \in 48..51
             IN  /\ (e.display = "Indexed" <=> indexed)
                 /\ indexed => e.bytes = 3
                 /\ ~indexed /\ op \notin {60, 63, 141} => e.bytes = 2 + t(flag)
                 /\ (e.display = "Relative" <=> op = 141)
                 /\ (e.display = "RelativeL" <=> op \in {22, 23} \/ row = 2)
                 /\ row \notin {0, 7}
                 /\ op \notin {22, 23, 48, 141}
<1>3. \A e : \A flag \in {1, 2} : Fits(e, flag) => EntryFits(e, op, b, flag)
  BY SMT DEF EntryFits
<1> HIDE DEF row, n, t
<1>4. ASSUME Named(L!optable10(op))
      PROVE  Fits(L!optable10(op), 1)
  <2> DEFINE e == L!optable10(op)
  <2>1. e.display # "Illegal"
    BY <1>4 DEF Named
  <2>2. e = IF op \in 33..47 THEN L!Entry("RelativeL", 4)
                 ELSE IF op = 63 THEN L!Entry("OS9", 3)
                 ELSE IF op \in {131, 140, 142, 206} THEN L!Entry("ImmediatL", 4)
                 ELSE IF op \in {147, 156, 158, 159, 222, 223} THEN L!Entry("Direct", 3)
                 ELSE IF op \in {163, 172, 174, 175, 238, 239} THEN L!Entry("Indexed", 3)
                 ELSE IF op \in {179, 188, 190, 191, 254, 255} THEN L!Entry("Extended", 4)
                 ELSE L!Illegal(1)
    BY TableTen
  <2> HIDE DEF e
  <2>3. op \in 33..47 => Fits(e, 1)
    BY <1>1, <1>2, <2>2, SMT DEF L!Entry
  <2>4. op = 63 => Fits(e, 1)
    BY <1>1, <1>2, <2>2, SMT DEF L!Entry
  <2>5. op \in {131, 140, 142, 206} => Fits(e, 1)
    BY <1>1, <1>2, <2>2, SMT DEF L!Entry
  <2>6. op \in {147, 156, 158, 159, 222, 223} => Fits(e, 1)
    BY <1>1, <1>2, <2>2, SMT DEF L!Entry
  <2>7. op \in {163, 172, 174, 175, 238, 239} => Fits(e, 1)
    BY <1>1, <1>2, <2>2, SMT DEF L!Entry
  <2>8. op \in {179, 188, 190, 191, 254, 255} => Fits(e, 1)
    BY <1>1, <1>2, <2>2, SMT DEF L!Entry
  <2>9. \/ op \in 33..47 \/ op = 63 \/ op \in {131, 140, 142, 206}
        \/ op \in {147, 156, 158, 159, 222, 223}
        \/ op \in {163, 172, 174, 175, 238, 239}
        \/ op \in {179, 188, 190, 191, 254, 255}
    BY <2>1, <2>2, SMT DEF L!Illegal, L!Entry
  <2> QED BY <2>3, <2>4, <2>5, <2>6, <2>7, <2>8, <2>9 DEF e
<1>5. ASSUME Named(L!optable11(op))
      PROVE  Fits(L!optable11(op), 2)
  <2> DEFINE e == L!optable11(op)
  <2>1. e.display # "Illegal"
    BY <1>5 DEF Named
  <2>2. e = IF op = 63 THEN L!Entry("Inherent", 2)
            ELSE IF op \in {131, 140} THEN L!Entry("ImmediatL", 4)
            ELSE IF op \in {147, 156} THEN L!Entry("Direct", 3)
            ELSE IF op \in {163, 172} THEN L!Entry("Indexed", 3)
            ELSE IF op \in {179, 188} THEN L!Entry("Extended", 4)
            ELSE L!Illegal(1)
    BY TableEleven
  <2> HIDE DEF e
  <2>4. op = 63 => Fits(e, 2)
    BY <1>1, <1>2, <2>2, SMT DEF L!Entry
  <2>5. op \in {131, 140} => Fits(e, 2)
    BY <1>1, <1>2, <2>2, SMT DEF L!Entry
  <2>6. op \in {147, 156} => Fits(e, 2)
    BY <1>1, <1>2, <2>2, SMT DEF L!Entry
  <2>7. op \in {163, 172} => Fits(e, 2)
    BY <1>1, <1>2, <2>2, SMT DEF L!Entry
  <2>8. op \in {179, 188} => Fits(e, 2)
    BY <1>1, <1>2, <2>2, SMT DEF L!Entry
  <2>9. \/ op = 63 \/ op \in {131, 140} \/ op \in {147, 156}
        \/ op \in {163, 172} \/ op \in {179, 188}
    BY <2>1, <2>2, SMT DEF L!Illegal, L!Entry
  <2> QED BY <2>4, <2>5, <2>6, <2>7, <2>8, <2>9 DEF e
<1> QED BY <1>3, <1>4, <1>5

(* The disassembler reads the same bytes.                                  *)
LEMMA SameBytes ==
  /\ \A m, q : L!At(m, q) = At(m, q) /\ L!WordAt(m, q) = WordAt(m, q)
  /\ \A b : L!Signed(b) = Signed(b)
  /\ \A x, n : L!Bit(x, n) = Bit(x, n)
BY DEF L!At, At, L!WordAt, WordAt, L!Signed, Signed, L!Bit, Bit

(* The address that is shown for an operand relative to the program        *)
(* counter, of one byte and of two.                                        *)
Shown8(m, q) == (q + 3 + Signed(At(m, q + 2))) % 65536
Shown16(m, q) == (q + 4 + WordAt(m, q + 2)) % 65536

(* What is shown for a postbyte without indirection.                       *)
LEMMA DirectLine ==
  ASSUME NEW m, NEW q, NEW b \in Byte, b >= 128, Bit(b, 16) = 0
  PROVE  LET line == L!Direct16(m, q, b)
         IN  line.named => /\ line.bytes = Extra(b)
                           /\ b % 16 = 12 => line.address = Shown8(m, q)
                           /\ b % 16 = 13 => line.address = Shown16(m, q)
<1> DEFINE n == b % 32
           line == L!Direct16(m, q, b)
           Byte1 == n \in {8}
           Word1 == n \in {9}
           Pc8 == n = 12
           Pc16 == n = 13
           rest == n \notin {7, 10, 14, 15}
           byte == L!Line(1, TRUE, -1)
           word == L!Line(2, TRUE, -1)
           pc8 == L!Line(1, TRUE, Shown8(m, q))
           pc16 == L!Line(2, TRUE, Shown16(m, q))
           none == L!Line(0, rest, -1)
<1>1. line = CASE Byte1 -> byte [] Word1 -> word [] Pc8 -> pc8 [] Pc16 -> pc16 [] OTHER -> none
  BY SameBytes DEF L!Direct16, Shown8, Shown16
<1>2. n \in Int /\ n = b % 16 /\ n \in 0..15 /\ ~(b < 128)
  <2>1. b \in Int /\ 0 <= b /\ b <= 255
    BY ByteDef
  <2> QED BY <2>1, SMT DEF Bit
<1>3. Extra(b) = IF n \in {8, 12} THEN 1 ELSE IF n \in {9, 13, 15} THEN 2 ELSE 0
  BY <1>2 DEF Extra
<1>4. /\ Byte1 => ~Word1 /\ ~Pc8 /\ ~Pc16
      /\ Word1 => ~Byte1 /\ ~Pc8 /\ ~Pc16
      /\ Pc8 => ~Byte1 /\ ~Word1 /\ ~Pc16
      /\ Pc16 => ~Byte1 /\ ~Word1 /\ ~Pc8
  <2> HIDE DEF n
  <2> QED BY <1>2, SMT
<1> HIDE DEF n, line, Byte1, Word1, Pc8, Pc16, byte, word, pc8, pc16, none
<1>5. Byte1 => line = byte
  BY <1>1, <1>4, Zenon
<1>6. Word1 => line = word
  BY <1>1, <1>4, Zenon
<1>7. Pc8 => line = pc8
  BY <1>1, <1>4, Zenon
<1>8. Pc16 => line = pc16
  BY <1>1, <1>4, Zenon
<1>9. ~Byte1 /\ ~Word1 /\ ~Pc8 /\ ~Pc16 => line = none
  BY <1>1, Zenon
<1> DEFINE Right == line.named => /\ line.bytes = Extra(b)
                                  /\ n = 12 => line.address = Shown8(m, q)
                                  /\ n = 13 => line.address = Shown16(m, q)
<1>10. n = 8 => Right
  BY <1>3, <1>5, SMT DEF Byte1, byte, L!Line
<1>11. n = 9 => Right
  BY <1>3, <1>6, SMT DEF Word1, word, L!Line
<1>12. n = 12 => Right
  BY <1>3, <1>7, SMT DEF Pc8, pc8, L!Line
<1>13. n = 13 => Right
  BY <1>3, <1>8, SMT DEF Pc16, pc16, L!Line
<1>14. n \notin {8, 9, 12, 13} => Right
  <2> SUFFICES ASSUME n \notin {8, 9, 12, 13} PROVE Right
    OBVIOUS
  <2>1. line = none
    BY <1>9 DEF Byte1, Word1, Pc8, Pc16
  <2>2. line.named => rest
    BY <2>1 DEF none, L!Line
  <2>3. line.bytes = 0
    BY <2>1 DEF none, L!Line
  <2>4. rest => Extra(b) = 0
    BY <1>2, <1>3, SMT
  <2> QED BY <2>2, <2>3, <2>4
<1> QED BY <1>2, <1>10, <1>11, <1>12, <1>13, <1>14 DEF line

(* The mode of a postbyte with the bit for indirection.                    *)
LEMMA PostbyteMode ==
  ASSUME NEW b \in Int, b >= 128, b <= 255, (b \div 16) % 2 # 0
  PROVE  b % 32 = 16 + (b % 16) /\ b % 32 \in 16..31
<1>1. (b \div 16) % 2 = 1
  BY SMT
<1> QED BY <1>1, SMT

(* And for one with indirection.                                           *)
LEMMA IndirectLine ==
  ASSUME NEW m \in Machine, NEW q \in Int, NEW b \in Byte, b >= 128, Bit(b, 16) # 0
  PROVE  LET line == L!Indirect16(m, q, b)
         IN  line.named => /\ line.bytes = Extra(b)
                           /\ b % 16 = 12 => line.address = Shown8(m, q)
                           /\ b % 16 = 13 /\ WordAt(m, q + 2) <= 32767
                                => line.address = Shown16(m, q)
<1> DEFINE n == b % 32
           line == L!Indirect16(m, q, b)
           Byte1 == n = 24
           Word1 == n \in {25, 31}
           Pc8 == n = 28
           Pc16 == n = 29
           rest == n \notin {16, 18, 23, 26, 30}
           offset == WordAt(m, q + 2)
           byte == L!Line(1, TRUE, -1)
           word == L!Line(2, TRUE, -1)
           pc8 == L!Line(1, TRUE, Shown8(m, q))
           pc16 == L!Line(2, TRUE, (q + 4 + offset - IF offset > 32767 THEN 32769 ELSE 0) % 65536)
           none == L!Line(0, rest, -1)
<1>1. line = CASE Byte1 -> byte [] Word1 -> word [] Pc8 -> pc8 [] Pc16 -> pc16 [] OTHER -> none
  BY SameBytes DEF L!Indirect16, Shown8
<1>2. n \in Int /\ n = 16 + (b % 16) /\ n \in 16..31 /\ ~(b < 128)
  <2>1. b \in Int /\ 0 <= b /\ b <= 255
    BY ByteDef
  <2>2. n = 16 + (b % 16) /\ n \in 16..31
    BY <2>1, PostbyteMode DEF Bit
  <2> QED BY <2>1, <2>2, SMT
<1>3. Extra(b) = IF n \in {24, 28} THEN 1 ELSE IF n \in {25, 29, 31} THEN 2 ELSE 0
  <2>1. b \in Int
    BY ByteDef
  <2>2. (b % 16 \in {8, 12} <=> n \in {24, 28}) /\ (b % 16 \in {9, 13, 15} <=> n \in {25, 29, 31})
    BY <1>2, <2>1, SMT
  <2> QED BY <1>2, <2>2 DEF Extra
<1>4. /\ Byte1 => ~Word1 /\ ~Pc8 /\ ~Pc16
      /\ Word1 => ~Byte1 /\ ~Pc8 /\ ~Pc16
      /\ Pc8 => ~Byte1 /\ ~Word1 /\ ~Pc16
      /\ Pc16 => ~Byte1 /\ ~Word1 /\ ~Pc8
  <2> HIDE DEF n
  <2> QED BY <1>2, SMT
<1>5. (b % 16 = 12 <=> n = 28) /\ (b % 16 = 13 <=> n = 29)
  <2>1. b \in Int
    BY ByteDef
  <2> QED BY <1>2, <2>1, SMT
<1> HIDE DEF n, line, Byte1, Word1, Pc8, Pc16, byte, word, pc8, pc16, none
<1>6. Byte1 => line = byte
  BY <1>1, <1>4, Zenon
<1>7. Word1 => line = word
  BY <1>1, <1>4, Zenon
<1>8. Pc8 => line = pc8
  BY <1>1, <1>4, Zenon
<1>9. Pc16 => line = pc16
  BY <1>1, <1>4, Zenon
<1>10. ~Byte1 /\ ~Word1 /\ ~Pc8 /\ ~Pc16 => line = none
  BY <1>1, Zenon
<1> DEFINE Right == line.named => /\ line.bytes = Extra(b)
                                  /\ n = 28 => line.address = Shown8(m, q)
                                  /\ n = 29 /\ offset <= 32767
                                       => line.address = Shown16(m, q)
<1>16. offset \in Int
  BY MemoryType, WordDef
<1> HIDE DEF offset
<1>11. n = 24 => Right
  BY <1>3, <1>6, SMT DEF Byte1, byte, L!Line
<1>12. n \in {25, 31} => Right
  BY <1>3, <1>7, SMT DEF Word1, word, L!Line
<1>13. n = 28 => Right
  BY <1>3, <1>8, SMT DEF Pc8, pc8, L!Line
<1>14. n = 29 => Right
  <2> SUFFICES ASSUME n = 29 PROVE Right
    OBVIOUS
  <2>1. line.bytes = 2 /\ line.address = (q + 4 + offset - IF offset > 32767 THEN 32769 ELSE 0) % 65536
    BY <1>9 DEF Pc16, pc16, L!Line
  <2>2. Extra(b) = 2 /\ n # 28
    BY <1>3, SMT
  <2>3. ASSUME offset <= 32767
        PROVE  (IF offset > 32767 THEN 32769 ELSE 0) = 0
    BY <1>16, <2>3, SMT
  <2>4. q + 4 + offset - 0 = q + 4 + offset
    BY <1>16, SMT
  <2>5. Shown16(m, q) = (q + 4 + offset) % 65536
    BY DEF Shown16, offset
  <2> QED BY <2>1, <2>2, <2>3, <2>4, <2>5
<1>15. n \notin {24, 25, 28, 29, 31} => Right
  <2> SUFFICES ASSUME n \notin {24, 25, 28, 29, 31} PROVE Right
    OBVIOUS
  <2>1. line = none
    BY <1>10 DEF Byte1, Word1, Pc8, Pc16
  <2>2. line.bytes = 0
    BY <2>1 DEF none, L!Line
  <2>3. Extra(b) = 0
    BY <1>2, <1>3, SMT
  <2> QED BY <2>2, <2>3, SMT
<1> QED BY <1>5, <1>11, <1>12, <1>13, <1>14, <1>15 DEF line, offset

(* What is shown for a postbyte.                                           *)
LEMMA IndexedLine ==
  ASSUME NEW m \in Machine, NEW q \in Int, NEW e, L!D_Indexed(m, q, e).named
  PROVE  LET line == L!D_Indexed(m, q, e)
             b == At(m, q + 1)
             late == b % 32 = 29 /\ WordAt(m, q + 2) > 32767
         IN  /\ e.display = "Indexed"
             /\ line.bytes = e.bytes + Extra(b)
             /\ b >= 128 /\ b % 16 = 12 => line.address = Shown8(m, q)
             /\ b >= 128 /\ b % 16 = 13 /\ ~late => line.address = Shown16(m, q)
<1>1. PICK b \in Byte : b = At(m, q + 1)
  BY MemoryType
<1>2. PICK w \in Word : w = WordAt(m, q + 2)
  BY MemoryType
<1> DEFINE Small == b < 128
           Plainly == b >= 128 /\ Bit(b, 16) = 0
           small == L!Line(0, TRUE, -1)
           direct == L!Direct16(m, q, b)
           indirect == L!Indirect16(m, q, b)
<1>3. PICK i : i = CASE Small -> small [] Plainly -> direct [] OTHER -> indirect
  OBVIOUS
<1>4. PICK line : line = L!D_Indexed(m, q, e)
  OBVIOUS
<1> DEFINE ok == i.named /\ e.display = "Indexed"
<1>5. line = L!Line(e.bytes + i.bytes, ok, i.address)
  BY <1>1, <1>3, <1>4, SameBytes DEF L!D_Indexed
<1> DEFINE Right == i.named => /\ i.bytes = Extra(b)
                               /\ b >= 128 /\ b % 16 = 12 => i.address = Shown8(m, q)
                               /\ b >= 128 /\ b % 16 = 13 /\ ~(b % 32 = 29 /\ w > 32767)
                                    => i.address = Shown16(m, q)
<1>6. b \in Int /\ w \in Int
  BY ByteDef, WordDef
<1>7. Small => ~Plainly
  BY <1>6, SMT
<1>8. ASSUME Small PROVE Right
  <2>1. i = small
    <3> HIDE DEF Small, Plainly, small, direct, indirect
    <3> QED BY <1>3, <1>7, <1>8, Zenon
  <2>2. i.bytes = 0
    BY <2>1 DEF L!Line
  <2>3. Extra(b) = 0 /\ ~(b >= 128)
    BY <1>6, <1>8, SMT DEF Extra
  <2> QED BY <2>2, <2>3
<1>9. ASSUME Plainly PROVE Right
  <2>1. i = direct
    <3> HIDE DEF Small, Plainly, small, direct, indirect
    <3> QED BY <1>3, <1>7, <1>9, Zenon
  <2>2. direct.named => /\ direct.bytes = Extra(b)
                        /\ b % 16 = 12 => direct.address = Shown8(m, q)
                        /\ b % 16 = 13 => direct.address = Shown16(m, q)
    BY <1>9, DirectLine
  <2> HIDE DEF direct
  <2> QED BY <2>1, <2>2
<1>10. ASSUME ~Small, ~Plainly PROVE Right
  <2>1. i = indirect
    <3> HIDE DEF Small, Plainly, small, direct, indirect
    <3> QED BY <1>3, <1>10, Zenon
  <2>2. b >= 128 /\ Bit(b, 16) # 0
    BY <1>6, <1>10, SMT
  <2>3. indirect.named => /\ indirect.bytes = Extra(b)
                          /\ b % 16 = 12 => indirect.address = Shown8(m, q)
                          /\ b % 16 = 13 /\ w <= 32767 => indirect.address = Shown16(m, q)
    BY <1>2, <2>2, IndirectLine
  <2>4. b % 16 = 13 /\ ~(b % 32 = 29 /\ w > 32767) => w <= 32767
    <3>1. b <= 255 /\ (b \div 16) % 2 # 0
      BY <2>2, ByteDef DEF Bit
    <3>2. b % 32 = 16 + (b % 16)
      BY <1>6, <2>2, <3>1, PostbyteMode
    <3>3. b % 16 = 13 => b % 32 = 29
      BY <3>2, SMT
    <3>4. w > 32767 \/ w <= 32767
      BY <1>6, SMT
    <3> QED BY <3>3, <3>4
  <2> HIDE DEF indirect
  <2> QED BY <2>1, <2>3, <2>4
<1>11. Right
  BY <1>8, <1>9, <1>10
<1>12. line.bytes = e.bytes + i.bytes /\ line.address = i.address
  BY <1>5 DEF L!Line
<1>13. ok
  <2>1. line.named
    BY <1>4
  <2> HIDE DEF ok
  <2> QED BY <1>5, <2>1 DEF L!Line
<1> QED BY <1>1, <1>2, <1>4, <1>11, <1>12, <1>13

(* What is shown for an entry of the tables at q.                          *)
LEMMA DisplayLine ==
  ASSUME NEW m \in Machine, NEW q \in Int, NEW e, L!Display(m, q, e).named
  PROVE  LET line == L!Display(m, q, e)
             b == At(m, q + 1)
             w == WordAt(m, q + 1)
             late == b % 32 = 29 /\ WordAt(m, q + 2) > 32767
         IN  /\ Named(e)
             /\ line.bytes = IF e.display = "Indexed" THEN e.bytes + Extra(b) ELSE e.bytes
             /\ e.display = "Relative" =>
                  line.address = (q + 2 + b - IF b < 127 THEN 0 ELSE 256) % 65536
             /\ e.display = "RelativeL" =>
                  line.address = (q + 3 + w - IF w < 32767 THEN 0 ELSE 65536) % 65536
             /\ e.display = "Indexed" /\ b >= 128 =>
                  /\ b % 16 = 12 => line.address = Shown8(m, q)
                  /\ b % 16 = 13 /\ ~late => line.address = Shown16(m, q)
<1> DEFINE d == e.display
           Short1 == d = "Relative"
           Long1 == d = "RelativeL"
           Postbyte == d \in {"Indexed", "Nameless"}
           short == L!D_Relative(m, q, e)
           long == L!D_RelativeL(m, q, e)
           indexed == L!D_Indexed(m, q, e)
           plain == L!Plain(e)
<1>1. PICK line : line = L!Display(m, q, e)
  OBVIOUS
<1>2. line = CASE Short1 -> short [] Long1 -> long [] Postbyte -> indexed [] OTHER -> plain
  BY <1>1 DEF L!Display
<1>3. /\ Short1 => ~Long1 /\ ~Postbyte
      /\ Long1 => ~Postbyte
  BY SMT
<1>4. /\ Short1 => line = short
      /\ Long1 => line = long
      /\ Postbyte => line = indexed
      /\ ~Short1 /\ ~Long1 /\ ~Postbyte => line = plain
  <2> HIDE DEF Short1, Long1, Postbyte, short, long, indexed, plain
  <2>1. Short1 => line = short
    BY <1>2, <1>3, Zenon
  <2>2. Long1 => line = long
    BY <1>2, <1>3, Zenon
  <2>3. Postbyte => line = indexed
    BY <1>2, <1>3, Zenon
  <2>4. ~Short1 /\ ~Long1 /\ ~Postbyte => line = plain
    BY <1>2, Zenon
  <2> QED BY <2>1, <2>2, <2>3, <2>4
<1>5. line.named
  BY <1>1
<1>6. CASE Short1
  <2>1. /\ line.bytes = e.bytes
        /\ line.address = (q + 2 + At(m, q + 1) - IF At(m, q + 1) < 127 THEN 0 ELSE 256) % 65536
    BY <1>4, <1>6, SameBytes DEF L!D_Relative, L!Line
  <2>2. Named(e) /\ d # "RelativeL" /\ d # "Indexed" /\ d = "Relative"
    BY <1>6, SMT DEF Named
  <2> QED BY <1>1, <2>1, <2>2
<1>7. CASE Long1
  <2>1. /\ line.bytes = e.bytes
        /\ line.address = (q + 3 + WordAt(m, q + 1) - IF WordAt(m, q + 1) < 32767 THEN 0 ELSE 65536)
                             % 65536
    BY <1>4, <1>7, SameBytes DEF L!D_RelativeL, L!Line
  <2>2. Named(e) /\ d # "Relative" /\ d # "Indexed" /\ d = "RelativeL"
    BY <1>7, SMT DEF Named
  <2> QED BY <1>1, <2>1, <2>2
<1>8. CASE Postbyte
  <2>1. indexed.named /\ line = indexed
    BY <1>4, <1>5, <1>8
  <2>2. /\ d = "Indexed"
        /\ indexed.bytes = e.bytes + Extra(At(m, q + 1))
        /\ At(m, q + 1) >= 128 /\ At(m, q + 1) % 16 = 12 => indexed.address = Shown8(m, q)
        /\ /\ At(m, q + 1) >= 128 /\ At(m, q + 1) % 16 = 13
           /\ ~(At(m, q + 1) % 32 = 29 /\ WordAt(m, q + 2) > 32767)
           => indexed.address = Shown16(m, q)
    BY <2>1, IndexedLine
  <2> HIDE DEF indexed
  <2> QED BY <1>1, <1>3, <2>1, <2>2 DEF Named
<1>9. CASE ~Short1 /\ ~Long1 /\ ~Postbyte
  <2>1. line.bytes = e.bytes
    BY <1>4, <1>9 DEF L!Plain, L!Line
  <2>2. d # "Illegal"
    <3> DEFINE ok == d # "Illegal"
    <3>1. line = L!Line(e.bytes, ok, -1)
      BY <1>4, <1>9 DEF L!Plain
    <3>2. ok
      <4> HIDE DEF ok
      <4> QED BY <1>5, <3>1 DEF L!Line
    <3> QED BY <3>2
  <2> QED BY <1>1, <1>9, <2>1, <2>2 DEF Named
<1> QED BY <1>6, <1>7, <1>8, <1>9

(* The prefixes lead to their tables, and no other opcode does.            *)
LEMMA TablePages ==
  ASSUME NEW op \in Byte
  PROVE  LET d == L!optable(op).display
         IN  /\ op = 16 => d = "Page10"
             /\ op = 17 => d = "Page11"
             /\ op \notin {16, 17} => d # "Page10" /\ d # "Page11"
<1> DEFINE n == op % 16
<1> DEFINE row == op \div 16
<1> DEFINE e == L!optable(op)
<1>1. op \in Int /\ op = (16 * row) + n /\ n \in 0..15 /\ row \in 0..15
  <2>1. op \in Int /\ 0 <= op /\ op <= 255
    BY ByteDef
  <2> QED BY <2>1, SMT
<1>2. TableRows(e, row, n)
  BY TableEntry
<1> DEFINE Fits == /\ op = 16 => e.display = "Page10"
                   /\ op = 17 => e.display = "Page11"
                   /\ op \notin {16, 17} => e.display # "Page10" /\ e.display # "Page11"
<1> SUFFICES Fits
  OBVIOUS
<1>4. op = 16 <=> row = 1 /\ n = 0
  <2> HIDE DEF row, n
  <2> QED BY <1>1, SMT
<1>5. op = 17 <=> row = 1 /\ n = 1
  <2> HIDE DEF row, n
  <2> QED BY <1>1, SMT
<1> HIDE DEF e, row, n
<1>7. CASE row \in 0..7
  BY <1>1, <1>2, <1>4, <1>5, <1>7, SMT DEF TableRows, L!Entry, L!Illegal
<1>8. CASE row \in 8..15
  BY <1>1, <1>2, <1>4, <1>5, <1>8, SMT DEF TableRows, L!Entry, L!Illegal
<1> QED BY <1>1, <1>7, <1>8, SMT

(* A line that names the instruction at the program counter is the line of *)
(* an entry that fits its opcode, behind one prefix or none.               *)
ListedBy(m, e) ==
    LET k == PrefixCount(m)
    IN  /\ k \in {0, 1} /\ (k = 0 <=> Flag(m) = 0) /\ Flag(m) \in {0, 1, 2}
        /\ \E i \in 0..MaxPrefix : At(m, m.pc + i) \notin {16, 17}
        /\ Opcode(m) \in Byte \ {16, 17}
        /\ \A b : EntryFits(e, Opcode(m), b, Flag(m))
        /\ L!disasm(m, m.pc) = L!Display(m, m.pc + k, e)

(* There is one.                                                           *)
LEMMA NamedLine ==
  ASSUME NEW m \in Machine, MaxPrefix >= 1, L!disasm(m, m.pc).named
  PROVE  \E e : ListedBy(m, e)
<1>1. m.pc \in Int
  <2>1. m.pc \in Word
    BY FieldType DEF WordRegs
  <2> QED BY <2>1, WordDef
<1>2. MaxPrefix \in Nat
  BY PrefixBound, Zenon
<1> DEFINE q == m.pc
           op == At(m, q)
           next == At(m, q + 1)
           first == L!optable(op)
           Page10 == first.display = "Page10"
           Page11 == first.display = "Page11"
           ten == L!D_Page10(m, q)
           eleven == L!D_Page11(m, q)
           own == L!Display(m, q, first)
<1>3. op \in Byte /\ next \in Byte
  BY MemoryType
<1>4. PICK line : line = L!disasm(m, q) /\ line.named
  OBVIOUS
<1>5. line = CASE Page10 -> ten [] Page11 -> eleven [] OTHER -> own
  <2>1. q # 49953
    <3> SUFFICES ASSUME q = 49953 PROVE FALSE
      OBVIOUS
    <3>1. line = L!Line(16, FALSE, -1)
      BY <1>4 DEF L!disasm, L!FirstText
    <3> QED BY <1>4, <3>1 DEF L!Line
  <2>2. line = L!Disassembled(m, q)
    BY <1>4, <2>1 DEF L!disasm, L!FirstText
  <2> QED BY <2>2, SameBytes DEF L!Disassembled
<1>6. /\ op = 16 => Page10
      /\ op = 17 => Page11
      /\ op \notin {16, 17} => ~Page10 /\ ~Page11
  <2> HIDE DEF op
  <2> QED BY <1>3, TablePages
<1>7. ~(Page10 /\ Page11)
  BY SMT
<1>8. /\ Page10 => line = ten
      /\ Page11 => line = eleven
      /\ ~Page10 /\ ~Page11 => line = own
  <2> HIDE DEF Page10, Page11, ten, eleven, own
  <2>1. Page10 => line = ten
    BY <1>5, <1>7, Zenon
  <2>2. Page11 => line = eleven
    BY <1>5, <1>7, Zenon
  <2>3. ~Page10 /\ ~Page11 => line = own
    BY <1>5, Zenon
  <2> QED BY <2>1, <2>2, <2>3
<1>9. CASE op \notin {16, 17}
  <2>1. PrefixCount(m) = 0 /\ Flag(m) = 0 /\ Opcode(m) = op
    BY <1>1, <1>9, NoPrefix
  <2>2. q + 0 = q /\ 0 \in 0..MaxPrefix
    BY <1>1, <1>2, SMT
  <2>3. line = own
    BY <1>6, <1>8, <1>9
  <2>4. Named(first)
    <3>1. own.named
      BY <1>4, <2>3
    <3> QED BY <1>1, <3>1, DisplayLine
  <2>5. \A b : EntryFits(first, op, b, 0)
    <3> HIDE DEF op
    <3> QED BY <1>3, <1>9, <2>4, TableFits
  <2>6. op \in Byte \ {16, 17}
    BY <1>3, <1>9
  <2> HIDE DEF first, own
  <2>7. ListedBy(m, first)
    BY <1>4, <1>9, <2>1, <2>2, <2>3, <2>5, <2>6 DEF ListedBy, own
  <2> QED BY <2>7
<1>10. CASE op \in {16, 17}
  <2>1. \E e : /\ line = L!Display(m, q + 1, e) /\ next \notin {16, 17}
               /\ \A b : EntryFits(e, next, b, op - 15)
    <3>1. CASE op = 16
      <4> DEFINE e == L!optable10(next)
      <4>1. line = L!Display(m, q + 1, e)
        BY <1>6, <1>8, <3>1, SameBytes DEF L!D_Page10
      <4>2. Named(e)
        <5>1. q + 1 \in Int
          BY <1>1
        <5> QED BY <1>4, <4>1, <5>1, DisplayLine
      <4>3. \A b : EntryFits(e, next, b, 1)
        <5> HIDE DEF next
        <5> QED BY <1>3, <4>2, PrefixedFits
      <4>4. next \notin {16, 17}
        <5> SUFFICES ASSUME next \in {16, 17} PROVE FALSE
          OBVIOUS
        <5> HIDE DEF next
        <5>1. e = L!Illegal(1)
          BY <1>3, TableTen, SMT
        <5> QED BY <4>2, <5>1 DEF Named, L!Illegal, L!Entry
      <4>5. op - 15 = 1
        BY <3>1, SMT
      <4> QED BY <4>1, <4>3, <4>4, <4>5
    <3>2. CASE op = 17
      <4> DEFINE e == L!optable11(next)
      <4>1. line = L!Display(m, q + 1, e)
        BY <1>6, <1>8, <3>2, SameBytes DEF L!D_Page11
      <4>2. Named(e)
        <5>1. q + 1 \in Int
          BY <1>1
        <5> QED BY <1>4, <4>1, <5>1, DisplayLine
      <4>3. \A b : EntryFits(e, next, b, 2)
        <5> HIDE DEF next
        <5> QED BY <1>3, <4>2, PrefixedFits
      <4>4. next \notin {16, 17}
        <5> SUFFICES ASSUME next \in {16, 17} PROVE FALSE
          OBVIOUS
        <5> HIDE DEF next
        <5>1. e = L!Illegal(1)
          BY <1>3, TableEleven, SMT
        <5> QED BY <4>2, <5>1 DEF Named, L!Illegal, L!Entry
      <4>5. op - 15 = 2
        BY <3>2, SMT
      <4> QED BY <4>1, <4>3, <4>4, <4>5
    <3> QED BY <1>10, <3>1, <3>2
  <2>2. PICK e : /\ line = L!Display(m, q + 1, e) /\ next \notin {16, 17}
                 /\ \A b : EntryFits(e, next, b, op - 15)
    BY <2>1
  <2>3. PrefixCount(m) = 1 /\ Flag(m) = op - 15 /\ Opcode(m) = next
    BY <1>1, <1>10, <2>2, OnePrefix
  <2>4. op - 15 \in {1, 2} /\ 1 \in 0..MaxPrefix
    BY <1>2, <1>10, SMT
  <2>5. next \in Byte \ {16, 17}
    BY <1>3, <2>2
  <2>6. ListedBy(m, e)
    <3> DEFINE fits == \A b : EntryFits(e, Opcode(m), b, Flag(m))
    <3>1. fits
      BY <2>2, <2>3
    <3>2. \E i \in 0..MaxPrefix : At(m, m.pc + i) \notin {16, 17}
      BY <2>2, <2>4
    <3>3. L!disasm(m, m.pc) = L!Display(m, m.pc + PrefixCount(m), e)
      BY <1>4, <2>2, <2>3
    <3>4. /\ PrefixCount(m) \in {0, 1} /\ (PrefixCount(m) = 0 <=> Flag(m) = 0)
          /\ Flag(m) \in {0, 1, 2} /\ Opcode(m) \in Byte \ {16, 17}
      BY <2>3, <2>4, <2>5, SMT
    <3> HIDE DEF fits
    <3> QED BY <3>1, <3>2, <3>3, <3>4 DEF ListedBy, fits
  <2> QED BY <2>6
<1> QED BY <1>9, <1>10

(* What is read past a skip is what is there in the machine it was.        *)
LEMMA PastBytes ==
  ASSUME NEW m \in Machine, NEW d \in Int, NEW n \in Int
  PROVE  LET i == Skip(m, d)
         IN  At(i, i.pc + n) = At(m, m.pc + d + n) /\ WordAt(i, i.pc + n) = WordAt(m, m.pc + d + n)
<1> DEFINE i == Skip(m, d)
<1>1. i \in Machine /\ i.pc = (m.pc + d) % 65536
  BY SkipPc
<1>2. m.pc \in Int
  <2>1. m.pc \in Word
    BY FieldType DEF WordRegs
  <2> QED BY <2>1, WordDef
<1>3. i.mem = m.mem
  BY MachineFields DEF Skip
<1>4. \A k \in Int : At(i, i.pc + k) = At(m, m.pc + d + k)
  <2> SUFFICES ASSUME NEW k \in Int PROVE At(i, i.pc + k) = At(m, m.pc + d + k)
    OBVIOUS
  <2>1. (((m.pc + d) % 65536) + k) % 65536 = (m.pc + d + k) % 65536
    BY <1>2, SMT
  <2>2. (i.pc + k) % 65536 = (m.pc + d + k) % 65536
    BY <1>1, <2>1
  <2> HIDE DEF i
  <2> QED BY <1>3, <2>2 DEF At
<1>5. i.pc + n + 1 = i.pc + (n + 1) /\ m.pc + d + n + 1 = m.pc + d + (n + 1)
  <2>1. i.pc \in Int
    BY <1>1, <1>2
  <2> HIDE DEF i
  <2> QED BY <1>2, <2>1, SMT
<1> HIDE DEF i
<1>6. At(i, i.pc + n + 1) = At(m, m.pc + d + n + 1)
  <2>1. n + 1 \in Int
    OBVIOUS
  <2> QED BY <1>4, <1>5, <2>1
<1> QED BY <1>4, <1>6 DEF WordAt, i

(* The operand of a listed instruction: its first byte and word, and the   *)
(* word behind that byte.                                                  *)
LEMMA ListedOperand ==
  ASSUME NEW m \in Machine, NEW k \in {0, 1}, NEW i, i = Skip(m, k + 1)
  PROVE  /\ i \in Machine /\ i.pc = (m.pc + k + 1) % 65536 /\ i.pc \in Int
         /\ At(i, i.pc) = At(m, m.pc + k + 1) /\ WordAt(i, i.pc) = WordAt(m, m.pc + k + 1)
         /\ WordAt(i, i.pc + 1) = WordAt(m, m.pc + k + 2)
         /\ m.pc \in Int
<1>1. k + 1 \in Int
  OBVIOUS
<1>2. i \in Machine /\ i.pc = (m.pc + (k + 1)) % 65536
  BY <1>1, SkipPc
<1>3. m.pc \in Int /\ i.pc \in Int
  <2>1. m.pc \in Word /\ i.pc \in Word
    BY <1>2, FieldType DEF WordRegs
  <2> QED BY <2>1, WordDef
<1>4. /\ At(i, i.pc + 0) = At(m, m.pc + (k + 1) + 0)
      /\ WordAt(i, i.pc + 0) = WordAt(m, m.pc + (k + 1) + 0)
      /\ WordAt(i, i.pc + 1) = WordAt(m, m.pc + (k + 1) + 1)
  BY <1>1, PastBytes
<1>5. /\ i.pc + 0 = i.pc /\ m.pc + (k + 1) + 0 = m.pc + k + 1
      /\ m.pc + (k + 1) + 1 = m.pc + k + 2 /\ m.pc + (k + 1) = m.pc + k + 1
  BY <1>3, SMT
<1> QED BY <1>2, <1>3, <1>4, <1>5

(* What the program counter leaves behind is what the line stands for.     *)
LEMMA StraightListed ==
  ASSUME NEW m \in Machine, NEW e, ListedBy(m, e), L!disasm(m, m.pc).named,
         NEW i, i = Skip(m, PrefixCount(m) + 1), NEW b, b = At(i, i.pc),
         GoesOn(Opcode(m), b, Taken(Opcode(m) % 16, m.cc))
  PROVE  Exec(m, 0).pc = (m.pc + L!disasm(m, m.pc).bytes) % 65536
<1> DEFINE op == Opcode(m)
           flag == Flag(m)
           row == op \div 16
           f == Following(op, b, flag)
           indexed == row \in {6, 10, 14} \/ op \in 48..51
<1>1. PICK k \in {0, 1} : k = PrefixCount(m)
  BY DEF ListedBy
<1>2. 0 \in Word
  BY WordDef
<1>3. Exec(m, 0).pc = Past(i, f)
  <2>1. \E l \in 0..MaxPrefix : At(m, m.pc + l) \notin {16, 17}
    BY DEF ListedBy
  <2> QED BY <1>2, <2>1, ExecPc
<1>4. /\ i.pc = (m.pc + k + 1) % 65536 /\ m.pc \in Int
      /\ b = At(m, m.pc + k + 1) /\ i \in Machine
  BY <1>1, ListedOperand
<1>5. PICK line : line = L!disasm(m, m.pc) /\ line.named
  OBVIOUS
<1>6. line.bytes = IF e.display = "Indexed" THEN e.bytes + Extra(b) ELSE e.bytes
  <2>1. line = L!Display(m, m.pc + k, e)
    BY <1>1, <1>5 DEF ListedBy
  <2>2. m.pc + k \in Int
    BY <1>4
  <2>3. m.pc + k + 1 = (m.pc + k) + 1
    OBVIOUS
  <2> QED BY <1>4, <1>5, <2>1, <2>2, DisplayLine
<1>7. f \in Int /\ Extra(b) \in Int
  BY DEF Following, Extra
<1>8. line.bytes = (k + 1) + f
  <2>1. flag = 0 <=> k = 0
    BY <1>1 DEF ListedBy
  <2>2. EntryFits(e, op, b, flag)
    BY DEF ListedBy
  <2>3. /\ e.display = "Indexed" <=> indexed
        /\ indexed => e.bytes = (k + 1) + 1
        /\ ~indexed /\ op \notin {60, 63, 141} => e.bytes = (k + 1) + f
    <3> HIDE DEF op, flag, f
    <3>1. (IF flag = 0 THEN 1 ELSE 2) = k + 1
      BY <2>1
    <3> QED BY <2>2, <3>1 DEF EntryFits, row, indexed, f
  <2>4. CASE indexed
    <3>1. f = 1 + Extra(b)
      <4> HIDE DEF op, flag
      <4> QED BY <2>4 DEF Following
    <3>2. line.bytes = ((k + 1) + 1) + Extra(b)
      BY <1>6, <2>3, <2>4
    <3> QED BY <1>7, <3>1, <3>2
  <2>5. CASE ~indexed
    <3>1. op \notin {60, 63, 141}
      BY DEF GoesOn
    <3> QED BY <1>6, <2>3, <2>5, <3>1
  <2> QED BY <2>4, <2>5
<1>9. (((m.pc + k + 1) % 65536) + f) % 65536 = (m.pc + ((k + 1) + f)) % 65536
  <2> HIDE DEF f
  <2> QED BY <1>4, <1>7, SMT
<1> QED BY <1>3, <1>4, <1>5, <1>8, <1>9 DEF Past

(* The target of a short branch, in engine.c and on the line.              *)
LEMMA ShortTarget ==
  ASSUME NEW p \in Int, NEW b \in Byte, b # 127
  PROVE  (((p + 0 + 1) % 65536) + 1 + Signed(b)) % 65536
           = (p + 0 + 2 + b - IF b < 127 THEN 0 ELSE 256) % 65536
<1>1. b \in Int /\ 0 <= b /\ b <= 255
  BY ByteDef
<1>2. CASE b < 127
  <2>1. Signed(b) = b
    BY <1>1, <1>2, SMT DEF Signed
  <2>2. (((p + 0 + 1) % 65536) + 1 + b) % 65536 = (p + 0 + 2 + b - 0) % 65536
    BY <1>1, SMT
  <2> QED BY <1>2, <2>1, <2>2
<1>3. CASE b > 127
  <2>1. Signed(b) = b + 65280 /\ ~(b < 127)
    BY <1>1, <1>3, SMT DEF Signed
  <2>2. (((p + 0 + 1) % 65536) + 1 + (b + 65280)) % 65536 = (p + 0 + 2 + b - 256) % 65536
    BY <1>1, SMT
  <2> QED BY <2>1, <2>2
<1>4. b < 127 \/ b > 127
  BY <1>1, SMT
<1> QED BY <1>2, <1>3, <1>4

(* LBRA and LBSR, and BSR: to the place they name.                         *)
LEMMA FarPc ==
  ASSUME NEW m \in Machine, NEW junk, NEW flag
  PROVE  /\ \A n \in {6, 7} : Row1(m, n, junk).pc = (m.pc + 2 + WordAt(m, m.pc)) % 65536
         /\ Row8(m, 13, flag).pc = (m.pc + 1 + Signed(At(m, m.pc))) % 65536
<1> DEFINE w == WordAt(m, m.pc)
<1>1. m.pc \in Int /\ w \in Int
  <2>1. m.pc \in Word /\ w \in Word
    BY FieldType, MemoryType DEF WordRegs
  <2> QED BY <2>1, WordDef
<1> HIDE DEF w
<1>2. ASSUME NEW k \in Machine, NEW q
      PROVE  Jump(k, q).pc = q % 65536 /\ Subroutine(k, q).pc = q % 65536
  <2>1. \A j \in Machine : Jump(j, q).pc = q % 65536
    BY MachineFields DEF Jump
  <2>2. Push(k, "s", "pc") \in Machine
    BY PushType DEF Fields, WordRegs
  <2> QED BY <2>1, <2>2 DEF Subroutine
<1>3. PICK k \in Machine : k = Skip(m, 2) /\ k.pc = (m.pc + 2) % 65536
  <2>1. Skip(m, 2) \in Machine /\ Skip(m, 2).pc = (m.pc + 2) % 65536
    BY SkipPc
  <2> QED BY <2>1
<1>4. \A n \in {6, 7} : Row1(m, n, junk).pc = (m.pc + 2 + w) % 65536
  <2>1. Row1(m, 6, junk) = Jump(k, k.pc + w)
    BY <1>3, SMT DEF Row1, w
  <2>2. Row1(m, 7, junk) = Subroutine(k, k.pc + w)
    BY <1>3, SMT DEF Row1, w
  <2>3. (((m.pc + 2) % 65536) + w) % 65536 = (m.pc + 2 + w) % 65536
    BY <1>1, SMT
  <2> QED BY <1>2, <1>3, <2>1, <2>2, <2>3
<1>5. Row8(m, 13, flag).pc = (m.pc + 1 + Signed(At(m, m.pc))) % 65536
  <2>1. Skip(m, 1) \in Machine
    BY SkipPc
  <2> QED BY <1>2, <2>1 DEF Row8
<1> QED BY <1>4, <1>5 DEF w

(* A jump goes where the line says.                                        *)
LEMMA JumpListed ==
  ASSUME NEW m \in Machine, NEW e, ListedBy(m, e), L!disasm(m, m.pc).named,
         NEW i, i = Skip(m, PrefixCount(m) + 1), NEW b, b = At(i, i.pc),
         \/ Opcode(m) \in {22, 23, 141}
         \/ Opcode(m) \div 16 = 2 /\ Taken(Opcode(m) % 16, m.cc),
         ~(Flag(m) = 0 /\ Opcode(m) \notin {22, 23} /\ b = 127)
  PROVE  Exec(m, 0).pc = L!disasm(m, m.pc).address
<1> DEFINE op == Opcode(m)
           n == op % 16
           row == op \div 16
           flag == Flag(m)
           x == Exec(m, 0)
<1>1. PICK k \in {0, 1} : k = PrefixCount(m)
  BY DEF ListedBy
<1>2. (flag = 0 <=> k = 0) /\ op \in Byte /\ flag \in {0, 1, 2}
  BY <1>1 DEF ListedBy
<1>3. /\ i.pc = (m.pc + k + 1) % 65536 /\ m.pc \in Int /\ i.pc \in Int /\ i \in Machine
      /\ b = At(m, m.pc + k + 1) /\ WordAt(i, i.pc) = WordAt(m, m.pc + k + 1)
  BY <1>1, ListedOperand
<1>4. PICK w \in Word : w = WordAt(i, i.pc)
  BY <1>3, MemoryType
<1>5. b \in Byte
  BY <1>3, MemoryType
<1>6. w \in Int /\ b \in Int /\ 0 <= b /\ b <= 255
  BY <1>4, <1>5, WordDef, ByteDef
<1>7. PICK line : line = L!disasm(m, m.pc) /\ line.named
  OBVIOUS
<1>8. PICK q \in Int : q = m.pc + k
  BY <1>3
<1>9. /\ e.display = "Relative" =>
           line.address = (q + 2 + b - IF b < 127 THEN 0 ELSE 256) % 65536
      /\ e.display = "RelativeL" =>
           line.address = (q + 3 + w - IF w < 32767 THEN 0 ELSE 65536) % 65536
  <2>1. line = L!Display(m, q, e)
    BY <1>1, <1>7, <1>8 DEF ListedBy
  <2>2. b = At(m, q + 1) /\ w = WordAt(m, q + 1)
    BY <1>3, <1>4, <1>8
  <2> QED BY <1>7, <2>1, <2>2, DisplayLine
<1>10. /\ e.display = "Relative" <=> op = 141 \/ (row = 2 /\ flag = 0)
       /\ e.display = "RelativeL" <=> op \in {22, 23} \/ (row = 2 /\ flag # 0)
       /\ flag # 0 => op \notin {22, 23, 48, 141}
  <2>1. EntryFits(e, op, b, flag)
    BY DEF ListedBy
  <2> HIDE DEF op, flag
  <2> QED BY <2>1 DEF EntryFits, row
<1>11. i.cc = m.cc
  BY MachineFields DEF Skip
<1>12. (row = 1 => x = Row1(i, n, 0)) /\ (row = 2 => x = Row2(i, n, flag))
       /\ (row = 8 => x = Row8(i, n, flag))
  <2> HIDE DEF n, row, x, op, flag
  <2>1. row = 1 => x = Row1(i, n, 0) BY SMT DEF Exec, x, n, flag, row, op
  <2>2. row = 2 => x = Row2(i, n, flag) BY SMT DEF Exec, x, n, flag, row, op
  <2>3. row = 8 => x = Row8(i, n, flag) BY SMT DEF Exec, x, n, flag, row, op
  <2> QED BY <2>1, <2>2, <2>3
<1>13. op \in Int
  BY <1>2, ByteDef
<1> SUFFICES x.pc = line.address
  BY <1>7
<1> HIDE DEF x, op, n, row, flag
<1>16. b # 127 => (((m.pc + 0 + 1) % 65536) + 1 + Signed(b)) % 65536
                   = (m.pc + 0 + 2 + b - IF b < 127 THEN 0 ELSE 256) % 65536
  BY <1>3, <1>5, ShortTarget
<1>17. CASE op \in {22, 23}
  <2>1. row = 1 /\ n \in {6, 7} /\ flag = 0
    BY <1>10, <1>13, <1>17, SMT DEF row, n
  <2>3. x.pc = (i.pc + 2 + w) % 65536
    BY <1>3, <1>4, <1>12, <2>1, FarPc
  <2>4. (((m.pc + 0 + 1) % 65536) + 2 + w) % 65536 = (m.pc + 3 + w) % 65536
    BY <1>3, <1>6, SMT
  <2>5. (m.pc + 3 + w) % 65536
          = (m.pc + 0 + 3 + w - IF w < 32767 THEN 0 ELSE 65536) % 65536
    BY <1>3, <1>6, SMT
  <2>6. k = 0
    BY <1>2, <2>1
  <2> QED BY <1>3, <1>8, <1>9, <1>10, <1>17, <2>3, <2>4, <2>5, <2>6
<1>18. CASE op = 141
  <2>1. row = 8 /\ n = 13 /\ flag = 0
    BY <1>10, <1>18, SMT DEF row, n
  <2>3. x.pc = (i.pc + 1 + Signed(b)) % 65536
    BY <1>3, <1>12, <2>1, FarPc
  <2>4. b # 127
    BY <1>18, <2>1 DEF op, flag
  <2>6. k = 0
    BY <1>2, <2>1
  <2> QED BY <1>3, <1>8, <1>9, <1>10, <1>16, <1>18, <2>3, <2>4, <2>6
<1>19. CASE row = 2 /\ Taken(n, m.cc)
  <2>1. x.pc = (i.pc + (IF flag = 0 THEN 1 ELSE 2) + IF flag = 0 THEN Signed(b) ELSE w) % 65536
    <3>1. x = Row2(i, n, flag)
      BY <1>12, <1>19
    <3> QED BY <1>3, <1>4, <1>11, <1>19, <3>1, Row2Pc
  <2>2. CASE flag = 0
    <3>1. k = 0 /\ op \notin {22, 23} /\ b # 127
      <4>1. op \notin {22, 23}
        BY <1>13, <1>19, SMT DEF row
      <4> QED BY <1>2, <2>2, <4>1 DEF op, flag
    <3> QED BY <1>3, <1>8, <1>9, <1>10, <1>16, <1>19, <2>1, <2>2, <3>1
  <2>3. CASE flag # 0
    <3>1. k = 1
      BY <1>2, <2>3
    <3>2. (((m.pc + 1 + 1) % 65536) + 2 + w) % 65536 = (m.pc + 1 + 3 + w) % 65536
      BY <1>3, <1>6, SMT
    <3>3. (m.pc + 1 + 3 + w) % 65536
            = (m.pc + 1 + 3 + w - IF w < 32767 THEN 0 ELSE 65536) % 65536
      BY <1>3, <1>6, SMT
    <3> QED BY <1>3, <1>8, <1>9, <1>10, <1>19, <2>1, <2>3, <3>1, <3>2, <3>3
  <2> QED BY <2>2, <2>3
<1>20. op \in {22, 23} \/ op = 141 \/ (row = 2 /\ Taken(n, m.cc))
  BY DEF op, row, n
<1> QED BY <1>17, <1>18, <1>19, <1>20

(* The address of an operand relative to the program counter, which is     *)
(* where the machine m has the postbyte.                                   *)
Relative12(m) == m.pc + 2 + Signed(At(m, m.pc + 1))
Relative13(m) == m.pc + 3 + WordAt(m, m.pc + 1)

(* Such an operand, without indirection.                                   *)
LEMMA RelativeMode ==
  ASSUME NEW m \in Machine, NEW b \in Byte
  PROVE  LET o == IndexedMode(Skip(m, 1), b)
         IN  /\ b % 16 = 12 => o.ea = Relative12(m) % 65536
             /\ b % 16 = 13 => o.ea = Relative13(m) % 65536
             /\ b % 16 \in {12, 13} => o.m.mem = m.mem
<1> DEFINE r == IndexReg(b)
           j == Skip(m, 1)
           o == IndexedMode(j, b)
<1>1. j \in Machine /\ j.pc = (m.pc + 1) % 65536 /\ m.pc \in Int
  <2>1. m.pc \in Word
    BY FieldType DEF WordRegs
  <2>2. j \in Machine /\ j.pc = (m.pc + 1) % 65536
    BY SkipPc
  <2> HIDE DEF j
  <2> QED BY <2>1, <2>2, WordDef
<1>2. /\ At(j, j.pc) = At(m, m.pc + 1)
      /\ WordAt(j, j.pc) = WordAt(m, m.pc + 1)
  <2>1. At(j, j.pc + 0) = At(m, m.pc + 1 + 0) /\ WordAt(j, j.pc + 0) = WordAt(m, m.pc + 1 + 0)
    BY PastBytes
  <2>2. j.pc \in Int
    BY <1>1
  <2>3. j.pc + 0 = j.pc /\ m.pc + 1 + 0 = m.pc + 1
    BY <1>1, <2>2
  <2> HIDE DEF j
  <2> QED BY <2>1, <2>3
<1>3. j.mem = m.mem /\ \A k, d : Skip(k, d).mem = k.mem
  BY MachineFields DEF Skip
<1>4. Signed(At(m, m.pc + 1)) \in Int /\ WordAt(m, m.pc + 1) \in Int
  BY MemoryType, ByteDef, WordDef, SMT DEF Signed
<1>5. PICK s \in Int : s = Signed(At(m, m.pc + 1))
  BY <1>4
<1>6. PICK w \in Int : w = WordAt(m, m.pc + 1)
  BY <1>4
<1> HIDE DEF j, r, o
<1>7. ASSUME b % 16 = 12
      PROVE  o.ea = Relative12(m) % 65536 /\ o.m.mem = m.mem
  <2>1. o = Operand(Skip(j, 1), j.pc + 1 + Signed(At(j, j.pc)))
    BY <1>7, SMT DEF IndexedMode, IllegalModes, o, r
  <2>2. o.m = Skip(j, 1) /\ o.ea = (j.pc + 1 + s) % 65536
    BY <1>2, <1>5, <2>1 DEF Operand
  <2>3. (((m.pc + 1) % 65536) + 1 + s) % 65536 = (m.pc + 2 + s) % 65536
    BY <1>1, SMT
  <2> QED BY <1>1, <1>3, <1>5, <2>2, <2>3 DEF Relative12
<1>8. ASSUME b % 16 = 13
      PROVE  o.ea = Relative13(m) % 65536 /\ o.m.mem = m.mem
  <2>1. o = Operand(Skip(j, 2), j.pc + 2 + WordAt(j, j.pc))
    BY <1>8, SMT DEF IndexedMode, IllegalModes, o, r
  <2>2. o.m = Skip(j, 2) /\ o.ea = (j.pc + 2 + w) % 65536
    BY <1>2, <1>6, <2>1 DEF Operand
  <2>3. (((m.pc + 1) % 65536) + 2 + w) % 65536 = (m.pc + 3 + w) % 65536
    BY <1>1, SMT
  <2> QED BY <1>1, <1>3, <1>6, <2>2, <2>3 DEF Relative13
<1> QED BY <1>7, <1>8 DEF o, j

(* And the operand itself: the word at that address, behind an indirection. *)
LEMMA RelativeOperand ==
  ASSUME NEW m \in Machine, NEW b \in Byte, b = At(m, m.pc), b >= 128, b % 16 \in {12, 13},
         NEW d \in Int, d = IF b % 16 = 12 THEN Relative12(m) ELSE Relative13(m)
  PROVE  INDEXED(m).ea = IF Bit(b, 16) = 1 THEN WordAt(m, d) ELSE d % 65536
<1> DEFINE j == Skip(m, 1)
<1>1. PICK o : o = IndexedMode(j, b)
  OBVIOUS
<1>2. o.ea = d % 65536 /\ o.m.mem = m.mem
  BY <1>1, RelativeMode
<1> HIDE DEF j
<1> DEFINE Small == b < 128
           Plainly == b >= 128 /\ (Bit(b, 16) = 0 \/ b % 16 \in IllegalModes)
           small == Offset5(j, b)
           indirect == Indirect(o)
<1>3. INDEXED(m) = CASE Small -> small [] Plainly -> o [] OTHER -> indirect
  BY <1>1 DEF INDEXED, j
<1>4. ~Small /\ (Plainly <=> Bit(b, 16) # 1)
  <2>1. b \in Int /\ ~(b % 16 \in IllegalModes)
    BY ByteDef, SMT DEF IllegalModes
  <2>2. Bit(b, 16) \in {0, 1}
    BY <2>1, SMT DEF Bit
  <2> QED BY <2>1, <2>2, SMT
<1>5. CASE Plainly
  <2>1. INDEXED(m) = o
    <3> HIDE DEF Small, Plainly, small, indirect
    <3> QED BY <1>3, <1>4, <1>5, Zenon
  <2> QED BY <1>2, <1>4, <1>5, <2>1
<1>6. CASE ~Plainly
  <2>1. INDEXED(m) = indirect
    <3> HIDE DEF Small, Plainly, small, indirect
    <3> QED BY <1>3, <1>4, <1>6, Zenon
  <2>2. indirect.ea = WordAt(o.m, o.ea) % 65536
    BY DEF Indirect, Operand
  <2>3. WordAt(o.m, d % 65536) = WordAt(m, d)
    <3>1. (d % 65536) % 65536 = d % 65536 /\ ((d % 65536) + 1) % 65536 = (d + 1) % 65536
      BY SMT
    <3> QED BY <1>2, <3>1 DEF WordAt, At
  <2>4. WordAt(m, d) % 65536 = WordAt(m, d)
    <3>1. PICK w \in Word : w = WordAt(m, d)
      BY MemoryType
    <3>2. w % 65536 = w
      BY WordDef, SMT
    <3> QED BY <3>1, <3>2
  <2> QED BY <1>2, <1>4, <1>6, <2>1, <2>2, <2>3, <2>4
<1> QED BY <1>5, <1>6

(* LEAX leaves the address in X.                                           *)
LEMMA LeaValue ==
  ASSUME NEW o, OperandOK(o)
  PROVE  LEA(0, o).x = o.ea
<1>1. o.m \in Machine /\ o.ea \in Word
  BY DEF OperandOK
<1>2. PICK n \in 0..3 : n = 0
  BY SMT
<1> DEFINE r == <<"x", "y", "s", "u">>[n + 1]
           k == [o.m EXCEPT ![r] = o.ea]
           c == IF n < 2 THEN Put(o.m.cc, "Z", o.ea = 0) ELSE o.m.cc
<1>3. LEA(n, o) = [k EXCEPT !.cc = c]
  BY DEF LEA
<1>4. r = "x"
  BY <1>2, SMT
<1> HIDE DEF r, c
<1>5. k \in Machine /\ k.x = o.ea
  BY <1>1, <1>4, MachineFields
<1> HIDE DEF k
<1>6. [k EXCEPT !.cc = c].x = k.x
  BY <1>5, MachineFields
<1> QED BY <1>2, <1>3, <1>5, <1>6

(* LEAX of an operand relative to the program counter takes the address    *)
(* of the line, or the word there.                                         *)
LEMMA LeaListed ==
  ASSUME NEW m \in Machine, NEW e, ListedBy(m, e), L!disasm(m, m.pc).named,
         NEW i, i = Skip(m, PrefixCount(m) + 1), NEW b, b = At(i, i.pc),
         Opcode(m) = 48, b >= 128, b % 16 \in {12, 13},
         ~(b % 32 = 29 /\ WordAt(i, i.pc + 1) > 32767)
  PROVE  Exec(m, 0).x = LET address == L!disasm(m, m.pc).address
                        IN  IF Bit(b, 16) = 1 THEN WordAt(m, address) ELSE address
<1>1. Flag(m) = 0 /\ e.display = "Indexed" /\ PrefixCount(m) = 0
  <2>1. PICK op : op = Opcode(m)
    OBVIOUS
  <2>2. EntryFits(e, op, b, Flag(m)) /\ op = 48
    BY <2>1 DEF ListedBy
  <2>3. Flag(m) = 0 /\ e.display = "Indexed"
    BY <2>2, SMT DEF EntryFits
  <2> QED BY <2>3 DEF ListedBy
<1>2. /\ i = Skip(m, 1) /\ i \in Machine /\ i.pc = (m.pc + 1) % 65536 /\ m.pc \in Int
      /\ b = At(m, m.pc + 1) /\ WordAt(i, i.pc + 1) = WordAt(m, m.pc + 2)
  <2>1. 0 \in {0, 1} /\ PrefixCount(m) + 1 = 0 + 1
    BY <1>1
  <2>2. /\ i \in Machine /\ i.pc = (m.pc + 0 + 1) % 65536
        /\ b = At(m, m.pc + 0 + 1) /\ WordAt(i, i.pc + 1) = WordAt(m, m.pc + 0 + 2)
        /\ m.pc \in Int
    BY <2>1, ListedOperand
  <2>3. m.pc + 0 + 1 = m.pc + 1 /\ m.pc + 0 + 2 = m.pc + 2
    BY <2>2
  <2> QED BY <2>1, <2>2, <2>3
<1>3. At(i, i.pc + 1) = At(m, m.pc + 2)
  <2>1. At(i, i.pc + 1) = At(m, m.pc + 1 + 1)
    BY <1>2, PastBytes
  <2> QED BY <1>2, <2>1
<1>4. b \in Byte
  BY <1>2, MemoryType
<1>5. PICK d \in Int : d = IF b % 16 = 12 THEN Relative12(i) ELSE Relative13(i)
  <2>1. At(i, i.pc + 1) \in Byte /\ WordAt(i, i.pc + 1) \in Word /\ i.pc \in Int
    BY <1>2, MemoryType
  <2>2. Signed(At(i, i.pc + 1)) \in Int /\ WordAt(i, i.pc + 1) \in Int
    BY <2>1, ByteDef, WordDef, SMT DEF Signed
  <2>3. Relative12(i) \in Int /\ Relative13(i) \in Int
    BY <2>1, <2>2 DEF Relative12, Relative13
  <2> QED BY <2>3
<1>6. L!disasm(m, m.pc).address = d % 65536
  <2>1. PICK line : line = L!disasm(m, m.pc) /\ line.named
    OBVIOUS
  <2>2. line = L!Display(m, m.pc, e)
    <3>1. m.pc + PrefixCount(m) = m.pc
      BY <1>1, <1>2
    <3> QED BY <2>1, <3>1 DEF ListedBy
  <2>3. /\ b % 16 = 12 => line.address = Shown8(m, m.pc)
        /\ b % 16 = 13 => line.address = Shown16(m, m.pc)
    BY <1>1, <1>2, <2>1, <2>2, DisplayLine
  <2>4. PICK s \in Int : s = Signed(At(m, m.pc + 2))
    <3>1. At(m, m.pc + 2) \in Byte
      BY MemoryType
    <3> QED BY <3>1, ByteDef, SMT DEF Signed
  <2>5. PICK w \in Int : w = WordAt(m, m.pc + 2)
    <3>1. WordAt(m, m.pc + 2) \in Word
      BY MemoryType
    <3> QED BY <3>1, WordDef
  <2>6. /\ (((m.pc + 1) % 65536) + 2 + s) % 65536 = (m.pc + 3 + s) % 65536
        /\ (((m.pc + 1) % 65536) + 3 + w) % 65536 = (m.pc + 4 + w) % 65536
    BY <1>2, SMT
  <2>7. CASE b % 16 = 12
    BY <1>2, <1>3, <1>5, <2>1, <2>3, <2>4, <2>6, <2>7 DEF Relative12, Shown8
  <2>8. CASE b % 16 = 13
    <3>1. b % 16 # 12
      BY <2>8
    <3> QED BY <1>2, <1>5, <2>1, <2>3, <2>5, <2>6, <2>8, <3>1 DEF Relative13, Shown16
  <2> QED BY <2>7, <2>8
<1>7. PICK o : o = INDEXED(i)
  OBVIOUS
<1>8. Exec(m, 0).x = o.ea
  <2>1. Exec(m, 0) = LEA(0, o)
    <3>1. 48 \div 16 = 3 /\ 48 % 16 = 0
      BY SMT
    <3>2. Exec(m, 0) = Row3(i, 0, 0)
      BY <1>1, <3>1, SMT DEF Exec
    <3> QED BY <1>7, <3>2, SMT DEF Row3
  <2>2. OperandOK(o)
    BY <1>2, <1>7, IndexedType
  <2>3. LEA(0, o).x = o.ea
    BY <2>2, LeaValue
  <2> QED BY <2>1, <2>3
<1>9. o.ea = IF Bit(b, 16) = 1 THEN WordAt(i, d) ELSE d % 65536
  BY <1>2, <1>4, <1>5, <1>7, RelativeOperand
<1>10. WordAt(i, d) = WordAt(m, d % 65536)
  <2>1. i.mem = m.mem
    BY MachineFields DEF Skip
  <2>2. (d % 65536) % 65536 = d % 65536 /\ ((d % 65536) + 1) % 65536 = (d + 1) % 65536
    BY SMT
  <2> QED BY <2>1, <2>2 DEF WordAt, At
<1> QED BY <1>6, <1>8, <1>9, <1>10

(* Listings are right, for every machine and every program.                *)
THEOREM ListingAgreesHolds == Spec => []ListingAgrees
<1>1. WidthInv => ListingAgrees
  <2> DEFINE line == L!disasm(cpu, cpu.pc)
             x == Exec(cpu, 0)
  <2> SUFFICES ASSUME WidthInv, line.named
               PROVE  /\ Straight \/ StaysInRow2 => x.pc = (cpu.pc + line.bytes) % 65536
                      /\ Jumps /\ ~(Short /\ Next1 = 127) => x.pc = line.address
                      /\ PcRelative /\ ~LateIndirect =>
                           x.x = IF Bit(Next1, 16) = 1 THEN WordAt(cpu, line.address)
                                 ELSE line.address
    BY DEF ListingAgrees
  <2>1. cpu \in Machine
    BY DEF WidthInv
  <2>2. PICK e : ListedBy(cpu, e)
    BY <2>1, ShapesAssumption, NamedLine
  <2>3. ASSUME Straight \/ StaysInRow2
        PROVE  GoesOn(Opcode(cpu), Next1, Taken(Opcode(cpu) % 16, cpu.cc))
    <3>1. Row \in {0, 7} => Low \in L!Unary16
      BY <2>2 DEF ListedBy, EntryFits, Row, Low, Op
    <3> HIDE DEF line, x
    <3> DEFINE taken == Taken(Low, cpu.cc)
    <3>2. PICK op : op = Op /\ Row = op \div 16 /\ Low = op % 16
      BY DEF Row, Low
    <3> HIDE DEF taken
    <3>3. CASE Straight
      <4>1. /\ op \notin {22, 23, 57, 59, 60, 63, 141, 157, 173, 189}
            /\ op \div 16 # 2 /\ ~(op % 16 = 14 /\ op \div 16 \in {0, 6, 7})
            /\ ~(op \in {53, 55} /\ Next1 >= 128)
            /\ ~(op = 30 /\ 5 \in {Next1 \div 16, Next1 % 16})
            /\ ~(op = 31 /\ Next1 % 16 = 5)
        BY <3>2, <3>3 DEF Straight
      <4>2. GoesOn(op, Next1, taken)
        BY <3>1, <3>2, <4>1 DEF GoesOn
      <4> QED BY <3>2, <4>2 DEF taken, Op
    <3>4. CASE StaysInRow2
      <4>1. op \div 16 = 2 /\ ~taken
        BY <3>2, <3>4 DEF StaysInRow2, taken
      <4>2. op \in Int
        BY <2>2, <3>2, ByteDef DEF ListedBy, Op
      <4>3. op \notin {22, 23, 30, 31, 53, 55, 57, 59, 60, 63, 141, 157, 173, 189}
        BY <4>1, <4>2, SMT
      <4>4. op \div 16 \notin {0, 6, 7}
        BY <4>1
      <4>5. GoesOn(op, Next1, taken)
        BY <4>1, <4>3, <4>4 DEF GoesOn
      <4> QED BY <3>2, <4>5 DEF taken, Op
    <3> QED BY <2>3, <3>3, <3>4
  <2>4. Straight \/ StaysInRow2 => x.pc = (cpu.pc + line.bytes) % 65536
    BY <2>1, <2>2, <2>3, StraightListed DEF Next1, Behind
  <2>5. Jumps /\ ~(Short /\ Next1 = 127) => x.pc = line.address
    <3> SUFFICES ASSUME Jumps, ~(Short /\ Next1 = 127) PROVE x.pc = line.address
      OBVIOUS
    <3>1. \/ Opcode(cpu) \in {22, 23, 141}
          \/ Opcode(cpu) \div 16 = 2 /\ Taken(Opcode(cpu) % 16, cpu.cc)
      BY DEF Jumps, Row, Low, Op
    <3>2. ~(Flag(cpu) = 0 /\ Opcode(cpu) \notin {22, 23} /\ Next1 = 127)
      BY DEF Short, Op
    <3> QED BY <2>1, <2>2, <3>1, <3>2, JumpListed DEF Next1, Behind
  <2>6. PcRelative /\ ~LateIndirect =>
          x.x = IF Bit(Next1, 16) = 1 THEN WordAt(cpu, line.address) ELSE line.address
    <3> SUFFICES ASSUME PcRelative, ~LateIndirect
                 PROVE  x.x = IF Bit(Next1, 16) = 1 THEN WordAt(cpu, line.address)
                              ELSE line.address
      OBVIOUS
    <3>1. Opcode(cpu) = 48 /\ Next1 >= 128 /\ Next1 % 16 \in {12, 13}
      BY DEF PcRelative, Op
    <3>2. ~(Next1 % 32 = 29 /\ WordAt(Behind, Behind.pc + 1) > 32767)
      BY DEF LateIndirect
    <3> QED BY <2>1, <2>2, <3>1, <3>2, LeaListed DEF Next1, Behind
  <2> QED BY <2>4, <2>5, <2>6
<1> QED BY <1>1, WidthHolds, PTL

-----------------------------------------------------------------------------
(* The old simulators.                                                    *)

(* Machines that are alike show the same registers and RAM. *)
LEMMA LikeRam ==
  ASSUME NEW m, NEW n, Like(m, n)
  PROVE  Ram(m) = Ram(n)
<1> DEFINE f == Below(m)
<1>1. \A k \in Machine : Ram(k) = [k EXCEPT !.mem = Below(k)]
  BY Zenon DEF Ram, Below
<1>2. m \in Machine /\ n \in Machine /\ Below(m) = f /\ Below(n) = f
  BY DEF Like
<1> HIDE DEF f
<1>3. \A k \in Machine : [k EXCEPT !.mem = f] =
        [a |-> k.a, b |-> k.b, dp |-> k.dp, cc |-> k.cc, x |-> k.x, y |-> k.y,
         u |-> k.u, s |-> k.s, pc |-> k.pc, mem |-> f]
  BY MachineFields
<1> DEFINE Rec(k) == [a |-> k.a, b |-> k.b, dp |-> k.dp, cc |-> k.cc, x |-> k.x, y |-> k.y,
                      u |-> k.u, s |-> k.s, pc |-> k.pc, mem |-> f]
<1>4. Ram(m) = Rec(m) /\ Ram(n) = Rec(n)
  BY <1>1, <1>2, <1>3, Zenon
<1>5. Rec(m) = Rec(n)
  BY Zenon DEF Like
<1> HIDE DEF Rec
<1> QED BY <1>4, <1>5

-----------------------------------------------------------------------------
(* Rows 1 and 2.                                                           *)

(* LBRA to SEX do the same in the three programs. *)
LEMMA SameRow1 ==
  ASSUME NEW m \in Machine, NEW n \in 0..13
  PROVE  /\ Like(S!Row1(m, n, 0), Row1(m, n, 0))
         /\ n # 9 => T!Row1(m, n, 0) = S!Row1(m, n, 0)
<1> DEFINE b == At(m, m.pc)
           w == WordAt(m, m.pc)
           i == Skip(m, 1)
           l == Skip(m, 2)
           e == Row1(m, n, 0)
           c == S!Row1(m, n, 0)
           t == T!Row1(m, n, 0)
<1>1. l \in Machine /\ e \in Machine /\ l.pc + w \in Int
  <2>1. 0 \in Word /\ n \in 0..15
    BY WordDef, SMT
  <2>2. l \in Machine /\ w \in Word
    BY SkipType, MemoryType
  <2> HIDE DEF l, w
  <2>3. l.pc \in Word
    BY <2>2, FieldType DEF WordRegs
  <2>4. l.pc + w \in Int
    BY <2>2, <2>3, WordDef, SMT
  <2> QED BY <2>1, <2>2, <2>4, Row1Type
<1>2. /\ S!At(m, m.pc) = b /\ T!At(m, m.pc) = b
      /\ S!WordAt(m, m.pc) = w /\ T!WordAt(m, m.pc) = w
      /\ S!Skip(m, 1) = i /\ T!Skip(m, 1) = i /\ S!Skip(m, 2) = l /\ T!Skip(m, 2) = l
  BY SameMemory, Zenon
<1>3. /\ \A k, q : S!Jump(k, q) = Jump(k, q) /\ T!Jump(k, q) = Jump(k, q)
      /\ \A k, q : T!Subroutine(k, q) = S!Subroutine(k, q)
      /\ \A k, r, v : S!Into(k, r, v) = Into(k, r, v)
      /\ \A k, v : S!IntoD(k, v) = IntoD(k, v) /\ T!IntoD(k, v) = IntoD(k, v)
      /\ \A a, cc : S!Daa(a, cc) = Daa(a, cc)
      /\ \A a, cc : S!Sex(a, cc) = Sex(a, cc) /\ T!Sex(a, cc) = Sex(a, cc)
  BY SameMemory, SameStores, SameResults, SameDecimal, SameWide, Zenon
<1>4. /\ \A x : S!ByteCc(x) = ByteCc(x) /\ T!ByteCc(x) = ByteCc(x)
      /\ \A x : S!CcByte(x) = CcByte(x) /\ T!CcByte(x) = CcByte(x)
      /\ \A x, y : S!And(x, y) = And(x, y) /\ T!And(x, y) = And(x, y)
      /\ \A x, y : S!Or(x, y) = Or(x, y) /\ T!Or(x, y) = Or(x, y)
  BY SameFlags, SameLogic, Zenon
<1> DEFINE o == [i EXCEPT !.cc = ByteCc(Or(CcByte(@), b))]
           a == [i EXCEPT !.cc = ByteCc(And(CcByte(@), b))]
<1>5. /\ n = 6 => e = Jump(l, l.pc + w)
      /\ n = 7 => e = Subroutine(l, l.pc + w)
      /\ n = 9 => e = Into(m, "a", Daa(m.a, m.cc))
      /\ n = 10 => e = o
      /\ n = 12 => e = a
      /\ n = 13 => e = IntoD(m, Sex(m.b, m.cc))
      /\ n \in {0, 1, 2, 3, 4, 5, 8, 11} => e = m
  BY SMT DEF Row1
<1>6. /\ n = 6 => c = S!Jump(l, l.pc + w)
      /\ n = 7 => c = S!Subroutine(l, l.pc + w)
      /\ n = 9 => c = S!Into(m, "a", S!Daa(m.a, m.cc))
      /\ n = 13 => c = S!IntoD(m, S!Sex(m.b, m.cc))
      /\ n \in {0, 1, 2, 3, 4, 5, 8, 11} => c = m
  <2> HIDE DEF b, w, i, l
  <2> QED BY <1>2, SMT DEF S!Row1, b, w, i, l
<1>7. /\ n = 6 => t = T!Jump(l, l.pc + w)
      /\ n = 7 => t = T!Subroutine(l, l.pc + w)
      /\ n = 13 => t = T!IntoD(m, T!Sex(m.b, m.cc))
      /\ n \in {0, 1, 2, 3, 4, 5, 8, 11} => t = m
  <2> HIDE DEF b, w, i, l
  <2> QED BY <1>2, SMT DEF T!Row1, b, w, i, l
<1>8. /\ n = 10 => c = o
      /\ n = 12 => c = a
  <2>1. n = 10 => c = [i EXCEPT !.cc = S!ByteCc(S!Or(S!CcByte(@), b))]
    BY <1>2, SMT DEF S!Row1
  <2>2. n = 12 => c = [i EXCEPT !.cc = S!ByteCc(S!And(S!CcByte(@), b))]
    BY <1>2, SMT DEF S!Row1
  <2> HIDE DEF i, b
  <2> QED BY <1>4, <2>1, <2>2
<1>9. /\ n = 10 => t = o
      /\ n = 12 => t = a
  <2>1. n = 10 => t = [i EXCEPT !.cc = T!ByteCc(T!Or(T!CcByte(@), b))]
    BY <1>2, SMT DEF T!Row1
  <2>2. n = 12 => t = [i EXCEPT !.cc = T!ByteCc(T!And(T!CcByte(@), b))]
    BY <1>2, SMT DEF T!Row1
  <2> HIDE DEF i, b
  <2> QED BY <1>4, <2>1, <2>2
<1> HIDE DEF b, w, i, l, e, c, t, o, a
<1>10. CASE n = 7
  <2>1. Like(S!Subroutine(l, l.pc + w), Subroutine(l, l.pc + w))
    BY <1>1, LikeSubroutine
  <2>2. Like(c, e) /\ t = c
    BY <1>3, <1>5, <1>6, <1>7, <1>10, <2>1
  <2> QED BY <2>2 DEF c, e, t
<1>11. CASE n # 7
  <2>1. n \in {6, 9, 10, 12, 13} \cup {0, 1, 2, 3, 4, 5, 8, 11}
    BY <1>11
  <2>2. c = e /\ (n # 9 => t = c)
    BY <1>3, <1>5, <1>6, <1>7, <1>8, <1>9, <2>1
  <2>3. Like(c, e)
    BY <1>1, <2>2, LikeSelf
  <2> QED BY <2>2, <2>3 DEF c, e, t
<1> QED BY <1>10, <1>11

(* daa of v09st.c clears a carry that is not set. *)
LEMMA DecimalSt ==
  ASSUME NEW m \in Machine, "C" \notin m.cc
  PROVE  T!daa(m) = Row1(m, 9, 0)
<1> DEFINE t == Adjusted(m.a, m.cc)
           f == IF Bit(t, 256) = 1 THEN m.cc \cup {"C"} ELSE m.cc
<1>1. Row1(m, 9, 0) = Into(m, "a", Daa(m.a, m.cc))
  BY SMT DEF Row1
<1>2. Daa(m.a, m.cc) = [r |-> Lo(t), cc |-> f]
  BY DEF Daa
<1>3. T!daa(m) = [m EXCEPT !.a = Lo(t), !.cc = f]
  <2> DEFINE s == T!Adjusted(m.a, m.cc)
  <2>1. T!daa(m) = [m EXCEPT !.a = T!Lo(s), !.cc = T!Put(@, "C", T!Bit(s, 256) = 1)]
    BY DEF T!daa
  <2>2. s = t
    BY SameDecimal
  <2> HIDE DEF s, t
  <2>3. T!Lo(s) = Lo(t) /\ T!Bit(s, 256) = Bit(t, 256)
    BY <2>2, SameFlags
  <2>4. T!Put(m.cc, "C", T!Bit(s, 256) = 1) = f
    BY <2>3 DEF T!Put
  <2> HIDE DEF f
  <2> QED BY <2>1, <2>3, <2>4
<1> HIDE DEF t, f
<1>5. Row1(m, 9, 0) = [m EXCEPT !.a = Lo(t), !.cc = f]
  <2> DEFINE d == Daa(m.a, m.cc)
  <2>1. d.r = Lo(t) /\ d.cc = f
    <3> HIDE DEF d
    <3> QED BY <1>2 DEF d
  <2>2. Row1(m, 9, 0) = [m EXCEPT !.a = d.r, !.cc = d.cc]
    BY <1>1 DEF Into
  <2> HIDE DEF d
  <2> QED BY <2>1, <2>2
<1> QED BY <1>3, <1>5

(* Two fields are set in any order. *)
LEMMA ExceptCommutes ==
  ASSUME NEW k, NEW p, NEW q, p # q, NEW v, NEW w
  PROVE  [[k EXCEPT ![p] = v] EXCEPT ![q] = w] = [[k EXCEPT ![q] = w] EXCEPT ![p] = v]
OBVIOUS

(* Registers that have nothing in common are set in any order. *)
LEMMA SetCommutes ==
  ASSUME NEW k, NEW p, NEW q, NEW v, NEW w, p # q,
         {p, q} \subseteq ByteRegs \/ {p, q} \subseteq WordRegs \cup {"d"}
  PROVE  SetReg(SetReg(k, p, v), q, w) = SetReg(SetReg(k, q, w), p, v)
<1>1. \A l, x : SetReg(l, "cc", x) = [l EXCEPT !["cc"] = ByteCc(x % 256)]
  BY DEF SetReg
<1>2. \A l, x : \A r \in {"a", "b", "dp"} : SetReg(l, r, x) = [l EXCEPT ![r] = x % 256]
  BY DEF SetReg, ByteRegs
<1>3. \A l, x : \A r \in WordRegs : SetReg(l, r, x) = [l EXCEPT ![r] = x]
  BY DEF SetReg, ByteRegs, WordRegs
<1>4. \A l, x : SetReg(l, "d", x) = [[l EXCEPT !["a"] = Hi(x)] EXCEPT !["b"] = Lo(x)]
  BY DEF SetReg, ByteRegs, SetD
<1>5. CASE {p, q} \subseteq ByteRegs
  <2>1. \A r \in ByteRegs : \A x : \E y : \A l : SetReg(l, r, x) = [l EXCEPT ![r] = y]
    BY <1>1, <1>2 DEF ByteRegs
  <2>2. PICK y : \A l : SetReg(l, p, v) = [l EXCEPT ![p] = y]
    BY <1>5, <2>1
  <2>3. PICK z : \A l : SetReg(l, q, w) = [l EXCEPT ![q] = z]
    BY <1>5, <2>1
  <2>4. [[k EXCEPT ![p] = y] EXCEPT ![q] = z] = [[k EXCEPT ![q] = z] EXCEPT ![p] = y]
    BY ExceptCommutes
  <2> QED BY <2>2, <2>3, <2>4, Zenon
<1>6. CASE {p, q} \subseteq WordRegs
  <2>1. [[k EXCEPT ![p] = v] EXCEPT ![q] = w] = [[k EXCEPT ![q] = w] EXCEPT ![p] = v]
    BY ExceptCommutes
  <2>2. p \in WordRegs /\ q \in WordRegs
    BY <1>6
  <2> DEFINE kp == [k EXCEPT ![p] = v]
             kq == [k EXCEPT ![q] = w]
  <2>3. SetReg(k, p, v) = kp /\ SetReg(k, q, w) = kq
    BY <1>3, <2>2
  <2> HIDE DEF kp, kq
  <2>4. SetReg(kp, q, w) = [kp EXCEPT ![q] = w] /\ SetReg(kq, p, v) = [kq EXCEPT ![p] = v]
    BY <1>3, <2>2
  <2>5. [kp EXCEPT ![q] = w] = [kq EXCEPT ![p] = v]
    BY <2>1 DEF kp, kq
  <2> QED BY <2>3, <2>4, <2>5
<1>7. ASSUME NEW r \in WordRegs, NEW x, NEW y
      PROVE  SetReg(SetReg(k, "d", x), r, y) = SetReg(SetReg(k, r, y), "d", x)
  <2>1. r # "a" /\ r # "b"
    BY DEF WordRegs
  <2> DEFINE ka == [k EXCEPT !["a"] = Hi(x)]
  <2>2. [[ka EXCEPT !["b"] = Lo(x)] EXCEPT ![r] = y] = [[ka EXCEPT ![r] = y] EXCEPT !["b"] = Lo(x)]
    <3> HIDE DEF ka
    <3> QED BY <2>1, ExceptCommutes
  <2>3. [ka EXCEPT ![r] = y] = [[k EXCEPT ![r] = y] EXCEPT !["a"] = Hi(x)]
    BY <2>1, ExceptCommutes
  <2>4. SetReg(k, "d", x) = [ka EXCEPT !["b"] = Lo(x)]
    BY <1>4, Zenon
  <2>5. SetReg(SetReg(k, "d", x), r, y) = [[ka EXCEPT !["b"] = Lo(x)] EXCEPT ![r] = y]
    <3> DEFINE kb == [ka EXCEPT !["b"] = Lo(x)]
    <3>1. SetReg(k, "d", x) = kb
      BY <2>4
    <3> HIDE DEF kb, ka
    <3>2. SetReg(kb, r, y) = [kb EXCEPT ![r] = y]
      BY <1>3
    <3> QED BY <3>1, <3>2 DEF kb
  <2> DEFINE kr == [k EXCEPT ![r] = y]
  <2>6. SetReg(k, r, y) = kr
    BY <1>3
  <2>7. SetReg(kr, "d", x) = [[kr EXCEPT !["a"] = Hi(x)] EXCEPT !["b"] = Lo(x)]
    <3> HIDE DEF kr
    <3> QED BY <1>4, Zenon
  <2> HIDE DEF ka, kr
  <2>8. [ka EXCEPT ![r] = y] = [kr EXCEPT !["a"] = Hi(x)]
    BY <2>3 DEF ka, kr
  <2> QED BY <2>2, <2>5, <2>6, <2>7, <2>8
<1>8. CASE p = "d" /\ q \in WordRegs
  BY <1>7, <1>8
<1>9. CASE q = "d" /\ p \in WordRegs
  BY <1>7, <1>9
<1> QED BY <1>5, <1>6, <1>8, <1>9

(* The codes of TFR and EXG that stand for a register stand for the same   *)
(* one.                                                                    *)
LEMMA CodeNames ==
  \A code \in 0..15 :
    /\ RegCode[code + 1] # "none" => code \in 0..5 \cup 8..11
    /\ code \in 0..5 =>
         /\ S!Known(code) /\ S!Named(code) = RegCode[code + 1]
         /\ RegCode[code + 1] \in WordRegs \cup {"d"}
         /\ <<"d", "x", "y", "u", "s", "pc", "s", "pc">>[(code % 8) + 1] = RegCode[code + 1]
    /\ code \in 8..11 =>
         /\ S!Known(code) /\ S!Named(code) = RegCode[code + 1]
         /\ RegCode[code + 1] \in ByteRegs
         /\ T!ByteReg[(code % 4) + 1] = RegCode[code + 1]
<1>1. /\ \A n \in 1..16 : RegCode[n] # "none" => n \in 1..6 \cup 9..12
      /\ \A n \in 1..6 : /\ S!WordReg[n] = RegCode[n]
                         /\ RegCode[n] \in {"d", "x", "y", "u", "s", "pc"}
                         /\ <<"d", "x", "y", "u", "s", "pc", "s", "pc">>[n] = RegCode[n]
      /\ \A n \in 9..12 : /\ RegCode[n] \in {"a", "b", "cc", "dp"}
                          /\ S!ByteReg[n - 8] = RegCode[n] /\ T!ByteReg[n - 8] = RegCode[n]
  BY SMT DEF RegCode, S!WordReg, S!ByteReg, T!ByteReg
<1>2. ASSUME NEW code \in 0..15
      PROVE  /\ code \in Int /\ code + 1 \in 1..16
             /\ code + 1 \in 1..6 \cup 9..12 => code \in 0..5 \cup 8..11
             /\ code \in 0..5 => code + 1 \in 1..6 /\ (code % 8) + 1 = code + 1 /\ ~(code >= 8)
                                 /\ code % 8 < 6
             /\ code \in 8..11 => code + 1 \in 9..12 /\ (code % 4) + 1 = code + 1 - 8 /\ code >= 8
                                 /\ code - 7 = code + 1 - 8 /\ code % 8 < 4
  BY SMT
<1>3. ASSUME NEW code \in 0..15, code \in 0..5
      PROVE  S!Known(code) /\ S!Named(code) = S!WordReg[code + 1]
  BY <1>2, <1>3 DEF S!Known, S!Named
<1>4. ASSUME NEW code \in 0..15, code \in 8..11
      PROVE  S!Known(code) /\ S!Named(code) = S!ByteReg[code + 1 - 8]
  BY <1>2, <1>4 DEF S!Known, S!Named
<1>5. {"d", "x", "y", "u", "s", "pc"} = WordRegs \cup {"d"} /\ {"a", "b", "cc", "dp"} = ByteRegs
  BY DEF WordRegs, ByteRegs
<1>6. \A code \in 0..15 : RegCode[code + 1] # "none" => code \in 0..5 \cup 8..11
  BY <1>1, <1>2
<1>7. ASSUME NEW code \in 0..15, code \in 0..5
      PROVE  /\ S!Known(code) /\ S!Named(code) = RegCode[code + 1]
             /\ RegCode[code + 1] \in WordRegs \cup {"d"}
             /\ <<"d", "x", "y", "u", "s", "pc", "s", "pc">>[(code % 8) + 1] = RegCode[code + 1]
  <2>1. code + 1 \in 1..6 /\ (code % 8) + 1 = code + 1
    BY <1>2, <1>7
  <2>2. /\ S!WordReg[code + 1] = RegCode[code + 1]
        /\ RegCode[code + 1] \in {"d", "x", "y", "u", "s", "pc"}
        /\ <<"d", "x", "y", "u", "s", "pc", "s", "pc">>[code + 1] = RegCode[code + 1]
    BY <1>1, <2>1
  <2> QED BY <1>3, <1>5, <1>7, <2>1, <2>2, Zenon
<1>8. ASSUME NEW code \in 0..15, code \in 8..11
      PROVE  /\ S!Known(code) /\ S!Named(code) = RegCode[code + 1]
             /\ RegCode[code + 1] \in ByteRegs
             /\ T!ByteReg[(code % 4) + 1] = RegCode[code + 1]
  <2>1. code + 1 \in 9..12 /\ (code % 4) + 1 = code + 1 - 8
    BY <1>2, <1>8
  <2>2. /\ S!ByteReg[code + 1 - 8] = RegCode[code + 1]
        /\ RegCode[code + 1] \in {"a", "b", "cc", "dp"}
        /\ T!ByteReg[code + 1 - 8] = RegCode[code + 1]
    BY <1>1, <2>1
  <2> QED BY <1>4, <1>5, <1>8, <2>1, <2>2, Zenon
<1> QED BY <1>6, <1>7, <1>8

(* A byte filled with ones is the byte again in a register of one byte. *)
LEMMA FilledAssigned ==
  ASSUME NEW i \in Machine, NEW code \in 0..15, NEW from \in 0..15,
         {code, from} \subseteq 0..5 \/ {code, from} \subseteq 8..11
  PROVE  \A k : S!Assign(k, code, S!Filled(i, from)) =
                  SetReg(k, RegCode[code + 1], Reg(i, RegCode[from + 1]))
<1> DEFINE r == RegCode[code + 1]
           v == Reg(i, RegCode[from + 1])
<1>1. /\ S!Known(code) /\ S!Known(from)
      /\ S!Named(code) = r /\ S!Named(from) = RegCode[from + 1]
  BY CodeNames
<1>2. \A k, w : S!Assign(k, code, w) = SetReg(k, r, w)
  BY <1>1, SameRegs DEF S!Assign
<1>3. S!Reg(i, S!Named(from)) = v
  BY <1>1, SameRegs
<1>4. CASE {code, from} \subseteq 0..5
  <2>1. ~(from >= 8)
    BY <1>4, SMT
  <2>2. S!Filled(i, from) = v
    <3> HIDE DEF v
    <3> DEFINE known == S!Known(from)
    <3>1. known
      BY <1>1
    <3>2. S!Filled(i, from) = CASE ~known -> 65535
                                [] from >= 8 -> 65280 + S!Reg(i, S!Named(from))
                                [] OTHER -> S!Reg(i, S!Named(from))
      BY DEF S!Filled
    <3> HIDE DEF known
    <3>3. S!Filled(i, from) = S!Reg(i, S!Named(from))
      BY <2>1, <3>1, <3>2
    <3> QED BY <1>3, <3>3
  <2> QED BY <1>2, <2>2
<1>5. CASE {code, from} \subseteq 8..11
  <2>1. from >= 8
    BY <1>5, SMT
  <2>2. S!Filled(i, from) = 65280 + v
    <3> HIDE DEF v
    <3> DEFINE known == S!Known(from)
    <3>1. known
      BY <1>1
    <3>2. S!Filled(i, from) = CASE ~known -> 65535
                                [] from >= 8 -> 65280 + S!Reg(i, S!Named(from))
                                [] OTHER -> S!Reg(i, S!Named(from))
      BY DEF S!Filled
    <3> HIDE DEF known
    <3>3. S!Filled(i, from) = 65280 + S!Reg(i, S!Named(from))
      BY <2>1, <3>1, <3>2
    <3> QED BY <1>3, <3>3
  <2>3. r \in ByteRegs /\ v \in Byte
    <3>1. r \in ByteRegs /\ RegCode[from + 1] \in ByteRegs
      BY <1>5, CodeNames
    <3> QED BY <3>1, RegType
  <2>4. (65280 + v) % 256 = v % 256
    <3> HIDE DEF v
    <3> QED BY <2>3, ByteDef, SMT
  <2> DEFINE f == 65280 + v
  <2>5. \A k : SetReg(k, r, f) = SetReg(k, r, v)
    <3> HIDE DEF r, v, f
    <3>1. f % 256 = v % 256
      BY <2>4 DEF f
    <3>2. CASE r = "cc"
      BY <3>1, <3>2 DEF SetReg
    <3>3. CASE r \in {"a", "b", "dp"}
      <4>1. r # "d" /\ r # "cc" /\ r \in ByteRegs \ {"cc"}
        BY <3>3 DEF ByteRegs
      <4>2. \A k, w : SetReg(k, r, w) = [k EXCEPT ![r] = w % 256]
        BY <4>1, Zenon DEF SetReg
      <4> QED BY <3>1, <4>2
    <3>4. r = "cc" \/ r \in {"a", "b", "dp"}
      BY <2>3 DEF ByteRegs
    <3> QED BY <3>2, <3>3, <3>4
  <2> QED BY <1>2, <2>2, <2>5
<1> QED BY <1>4, <1>5

(* TFR and EXG of two words, or of two bytes, do the same. *)
LEMMA SameTransfers ==
  ASSUME NEW m \in Machine, NEW hi, NEW lo,
         hi = At(m, m.pc) \div 16, lo = At(m, m.pc) % 16,
         {hi, lo} \subseteq 0..5 \/ {hi, lo} \subseteq 8..11
  PROVE  /\ S!tfr(m) = Row1(m, 15, 0) /\ T!Transfer(m) = Row1(m, 15, 0)
         /\ S!exg(m) = Row1(m, 14, 0) /\ T!Exchange(m) = Row1(m, 14, 0)
<1> DEFINE b == At(m, m.pc)
           i == Skip(m, 1)
           r1 == RegCode[hi + 1]
           r2 == RegCode[lo + 1]
           v1 == Reg(i, r1)
           v2 == Reg(i, r2)
<1>1. b \in Byte /\ i \in Machine /\ hi = b \div 16 /\ lo = b % 16
  BY MemoryType, SkipType
<1>2. hi \in 0..15 /\ lo \in 0..15
  OBVIOUS
<1>3. r1 # "none" /\ r2 # "none"
  BY CodeNames DEF ByteRegs, WordRegs
<1>4. /\ Row1(m, 15, 0) = SETREG(i, lo, GETREG(i, hi, 0))
      /\ Row1(m, 14, 0) = SETREG(SETREG(i, hi, GETREG(i, lo, 0)), lo, GETREG(i, hi, 0))
  <2> HIDE DEF b, i
  <2>1. Row1(m, 15, 0) = SETREG(i, b % 16, GETREG(i, b \div 16, 0))
    BY SMT DEF Row1, b, i
  <2>2. Row1(m, 14, 0) = SETREG(SETREG(i, b \div 16, GETREG(i, b % 16, 0)),
                                b % 16, GETREG(i, b \div 16, 0))
    BY SMT DEF Row1, b, i
  <2> QED BY <1>1, <2>1, <2>2, Zenon
<1>5. /\ \A k, v : SETREG(k, lo, v) = SetReg(k, r2, v) /\ SETREG(k, hi, v) = SetReg(k, r1, v)
      /\ GETREG(i, hi, 0) = v1 /\ GETREG(i, lo, 0) = v2
  BY <1>3 DEF SETREG, GETREG
<1>6. /\ Row1(m, 15, 0) = SetReg(i, r2, v1)
      /\ Row1(m, 14, 0) = SetReg(SetReg(i, r1, v2), r2, v1)
  <2> HIDE DEF i, r1, r2, v1, v2
  <2> QED BY <1>4, <1>5
<1>7. /\ \A k : S!Assign(k, lo, S!Filled(i, hi)) = SetReg(k, r2, v1)
      /\ \A k : S!Assign(k, hi, S!Filled(i, lo)) = SetReg(k, r1, v2)
  <2> HIDE DEF i
  <2>1. {lo, hi} \subseteq 0..5 \/ {lo, hi} \subseteq 8..11
    OBVIOUS
  <2> QED BY <1>1, <1>2, <2>1, FilledAssigned
<1>8. /\ S!tfr(m) = S!Assign(i, lo, S!Filled(i, hi))
      /\ S!exg(m) = S!Assign(S!Assign(i, hi, S!Filled(i, lo)), lo, S!Filled(i, hi))
  <2>1. S!At(m, m.pc) = b /\ S!Skip(m, 1) = i
    BY SameMemory
  <2> HIDE DEF b, i
  <2> QED BY <1>1, <2>1 DEF S!tfr, S!exg
<1>9. T!Pair(b) = <<r1, r2>>
  <2>1. CASE {hi, lo} \subseteq 0..5
    <3>1. ~(b >= 128) /\ (b \div 16) % 8 = hi % 8 /\ b % 8 = lo % 8
      <4> HIDE DEF b
      <4> QED BY <1>1, <2>1, ByteDef, SMT
    <3> DEFINE words == <<"d", "x", "y", "u", "s", "pc", "s", "pc">>
    <3>2. words[(hi % 8) + 1] = r1 /\ words[(lo % 8) + 1] = r2
      BY <2>1, <1>2, CodeNames
    <3>3. T!Pair(b) = <<words[((b \div 16) % 8) + 1], words[(b % 8) + 1]>>
      <4> HIDE DEF b
      <4> QED BY <3>1 DEF T!Pair
    <3> HIDE DEF words, b, r1, r2
    <3> QED BY <3>1, <3>2, <3>3
  <2>2. CASE {hi, lo} \subseteq 8..11
    <3>1. b >= 128 /\ (b \div 16) % 4 = hi % 4 /\ b % 4 = lo % 4
      <4> HIDE DEF b
      <4> QED BY <1>1, <2>2, ByteDef, SMT
    <3>2. T!ByteReg[(hi % 4) + 1] = r1 /\ T!ByteReg[(lo % 4) + 1] = r2
      BY <2>2, <1>2, CodeNames
    <3>3. T!Pair(b) = <<T!ByteReg[((b \div 16) % 4) + 1], T!ByteReg[(b % 4) + 1]>>
      <4> HIDE DEF b
      <4> QED BY <3>1 DEF T!Pair
    <3> HIDE DEF b, r1, r2
    <3> QED BY <3>1, <3>2, <3>3
  <2> QED BY <2>1, <2>2
<1>10. /\ T!Transfer(m) = SetReg(i, r2, v1)
       /\ T!Exchange(m) = SetReg(SetReg(i, r2, v1), r1, v2)
  <2>1. T!At(m, m.pc) = b /\ T!Skip(m, 1) = i
    BY SameMemory
  <2>2. \A k, r : T!Reg(k, r) = Reg(k, r)
    BY SameRegs
  <2>3. \A k, r, v : T!SetReg(k, r, v) = SetReg(k, r, v)
    BY SameRegs
  <2> DEFINE p == T!Pair(b)
  <2>4. p[1] = r1 /\ p[2] = r2
    <3> HIDE DEF p, r1, r2
    <3> QED BY <1>9 DEF p
  <2>5. /\ T!Transfer(m) = T!SetReg(i, p[2], T!Reg(i, p[1]))
        /\ T!Exchange(m) = T!SetReg(T!SetReg(i, p[2], T!Reg(i, p[1])), p[1], T!Reg(i, p[2]))
    <3> HIDE DEF i, b
    <3> QED BY <2>1 DEF T!Transfer, T!Exchange, p
  <2> HIDE DEF i, b, p, r1, r2
  <2> QED BY <2>2, <2>3, <2>4, <2>5
<1>11. SetReg(SetReg(i, r2, v1), r1, v2) = SetReg(SetReg(i, r1, v2), r2, v1)
  <2>1. CASE r1 = r2
    BY <2>1
  <2>2. CASE r1 # r2
    <3>1. {r2, r1} \subseteq ByteRegs \/ {r2, r1} \subseteq WordRegs \cup {"d"}
      BY <1>2, CodeNames
    <3> HIDE DEF i, r1, r2, v1, v2
    <3> QED BY <2>2, <3>1, SetCommutes
  <2> QED BY <2>1, <2>2
<1> HIDE DEF i, r1, r2, v1, v2
<1> QED BY <1>6, <1>7, <1>8, <1>10, <1>11

(* The whole of row 1. *)
LEMMA SameInherent ==
  ASSUME NEW m \in Machine, NEW n \in 0..15, NEW hi, NEW lo,
         hi = At(m, m.pc) \div 16, lo = At(m, m.pc) % 16,
         n \in {14, 15} => {hi, lo} \subseteq 0..5 \/ {hi, lo} \subseteq 8..11
  PROVE  /\ Like(S!Inherent(m, n), Row1(m, n, 0))
         /\ (n = 9 => "C" \notin m.cc) => Like(T!Simple(m, n), Row1(m, n, 0))
<1> DEFINE c == S!Inherent(m, n)
           t == T!Simple(m, n)
           e == Row1(m, n, 0)
<1>1. e \in Machine
  <2>1. 0 \in Word
    BY WordDef, SMT
  <2> QED BY <2>1, Row1Type
<1>2. c = CASE n = 14 -> S!exg(m) [] n = 15 -> S!tfr(m) [] OTHER -> S!Row1(m, n, 0)
  BY DEF S!Inherent
<1>3. t = CASE n = 9 -> T!daa(m) [] n = 14 -> T!Exchange(m) [] n = 15 -> T!Transfer(m)
            [] OTHER -> T!Row1(m, n, 0)
  BY DEF T!Simple
<1> HIDE DEF c, t, e
<1>4. CASE n = 14
  <2>1. n # 15 /\ n # 9
    BY <1>4
  <2>2. c = S!exg(m) /\ t = T!Exchange(m)
    BY <1>2, <1>3, <1>4, <2>1, Zenon
  <2>3. c = e /\ t = e
    BY <1>4, <2>2, SameTransfers DEF e
  <2> QED BY <1>1, <2>3, LikeSelf DEF c, t, e
<1>5. CASE n = 15
  <2>1. n # 14 /\ n # 9
    BY <1>5
  <2>2. c = S!tfr(m) /\ t = T!Transfer(m)
    BY <1>2, <1>3, <1>5, <2>1, Zenon
  <2>3. c = e /\ t = e
    BY <1>5, <2>2, SameTransfers DEF e
  <2> QED BY <1>1, <2>3, LikeSelf DEF c, t, e
<1>6. CASE n \in 0..13
  <2>1. n # 14 /\ n # 15
    BY <1>6
  <2>2. c = S!Row1(m, n, 0)
    BY <1>2, <2>1, Zenon
  <2>3. Like(c, e)
    BY <1>6, <2>2, SameRow1 DEF e
  <2>4. CASE n = 9
    <3>1. t = T!daa(m)
      BY <1>3, <2>1, <2>4, Zenon
    <3>2. "C" \notin m.cc => t = e
      BY <2>4, <3>1, DecimalSt DEF e
    <3>3. "C" \notin m.cc => Like(t, e)
      BY <1>1, <3>2, LikeSelf
    <3> QED BY <2>3, <2>4, <3>3 DEF c, t, e
  <2>5. CASE n # 9
    <3>1. t = T!Row1(m, n, 0)
      BY <1>3, <2>1, <2>5, Zenon
    <3>2. t = c
      BY <1>6, <2>2, <2>5, <3>1, SameRow1
    <3>3. Like(t, e)
      BY <2>3, <3>2
    <3> QED BY <2>3, <3>3 DEF c, t, e
  <2> QED BY <2>4, <2>5
<1> QED BY <1>4, <1>5, <1>6

(* The branches: the old simulators take N and V for less where engine.c   *)
(* takes one of them.                                                      *)
LEMMA SameBranches ==
  ASSUME NEW m \in Machine, NEW n \in 0..15, NEW flag \in {0, 1, 2},
         n >= 12 => ~({"N", "V"} \subseteq m.cc)
  PROVE  S!Branch(m, n, flag) = Row2(m, n, flag) /\ T!Conditional(m, n, flag) = Row2(m, n, flag)
<1> DEFINE less == "N" \in m.cc \/ "V" \in m.cc
           next == Skip(m, IF flag = 0 THEN 1 ELSE 2)
           d == IF flag = 0 THEN Signed(At(m, m.pc)) ELSE WordAt(m, m.pc)
           j == Jump(next, next.pc + d)
           taken == Taken(n, m.cc)
           f == CASE n = 12 -> ~less
                  [] n = 13 -> less
                  [] n = 14 -> ~(less \/ "Z" \in m.cc)
                  [] n = 15 -> less \/ "Z" \in m.cc
                  [] OTHER -> taken
<1>1. Row2(m, n, flag) = IF taken THEN j ELSE next
  BY DEF Row2
<1>2. S!Branch(m, n, flag) = IF f THEN j ELSE next
  BY SameMemory, SameFlags, SameTaken, Zenon DEF S!Branch
<1>3. T!Branch(m, n, flag) = IF f THEN j ELSE next
  BY SameMemory, SameFlags, SameTaken, Zenon DEF T!Branch
<1>4. f <=> taken
  <2>1. n >= 12 => (less <=> (("N" \in m.cc) # ("V" \in m.cc)))
    OBVIOUS
  <2>2. /\ n = 12 => (taken <=> ~(("N" \in m.cc) # ("V" \in m.cc)))
        /\ n = 13 => (taken <=> (("N" \in m.cc) # ("V" \in m.cc)))
        /\ n = 14 => (taken <=> ~((("N" \in m.cc) # ("V" \in m.cc)) \/ "Z" \in m.cc))
        /\ n = 15 => (taken <=> ((("N" \in m.cc) # ("V" \in m.cc)) \/ "Z" \in m.cc))
    BY TakenFlags
  <2>3. n \in {12, 13, 14, 15} => n >= 12
    BY SMT
  <2> HIDE DEF less, taken
  <2>4. CASE n = 12
    <3>1. n # 13 /\ n # 14 /\ n # 15
      BY <2>4
    <3>2. f <=> ~less
      BY <2>4, <3>1, Zenon
    <3> QED BY <2>1, <2>2, <2>3, <2>4, <3>2
  <2>5. CASE n = 13
    <3>1. n # 12 /\ n # 14 /\ n # 15
      BY <2>5
    <3>2. f <=> less
      BY <2>5, <3>1, Zenon
    <3> QED BY <2>1, <2>2, <2>3, <2>5, <3>2
  <2>6. CASE n = 14
    <3>1. n # 12 /\ n # 13 /\ n # 15
      BY <2>6
    <3>2. f <=> ~(less \/ "Z" \in m.cc)
      BY <2>6, <3>1, Zenon
    <3> QED BY <2>1, <2>2, <2>3, <2>6, <3>2
  <2>7. CASE n = 15
    <3>1. n # 12 /\ n # 13 /\ n # 14
      BY <2>7
    <3>2. f <=> (less \/ "Z" \in m.cc)
      BY <2>7, <3>1, Zenon
    <3> QED BY <2>1, <2>2, <2>3, <2>7, <3>2
  <2>8. CASE n \notin {12, 13, 14, 15}
    <3>1. n # 12 /\ n # 13 /\ n # 14 /\ n # 15
      BY <2>8
    <3> QED BY <3>1, Zenon
  <2> QED BY <2>4, <2>5, <2>6, <2>7, <2>8
<1> HIDE DEF f, taken, next, j
<1> QED BY <1>1, <1>2, <1>3, <1>4 DEF T!Conditional

-----------------------------------------------------------------------------
(* Row 3.                                                                  *)

(* PSHU and PULU with a postbyte that does not name S: v09s.c names U there. *)
LEMMA SameUserStack ==
  ASSUME NEW m \in Machine, Bit(At(m, m.pc), 64) = 0
  PROVE  Like(S!pshu(m), Pushed(m, "u")) /\ S!pulu(m) = Pulled(m, "u")
<1> DEFINE b == At(m, m.pc)
           k == Skip(m, 1)
           R == Listed(b, "s")
           P(l, r) == PullIn(l, "u", R, r)
<1>1. k \in Machine
  BY SkipType
<1>2. S!UFrame(m) = R /\ "u" \notin R /\ "s" \notin R /\ S!Skip(m, 1) = k
  <2>1. S!UFrame(m) = Listed(b, "u") /\ S!Skip(m, 1) = k
    BY SamePulls, SameMemory DEF S!UFrame
  <2>2. StackMask["u"] = 64 /\ StackMask["s"] = 64
    BY DEF StackMask
  <2>3. Bit(b, 64) = 0
    OBVIOUS
  <2>4. "u" \notin Listed(b, "u") /\ "u" \notin R /\ "s" \notin Listed(b, "u") /\ "s" \notin R
    <3>1. \A other : \A r \in Listed(b, other) : Bit(b, StackMask[r]) = 1
      BY DEF Listed
    <3> HIDE DEF b
    <3>2. Bit(b, 64) # 1
      BY <2>3
    <3> QED BY <2>2, <3>1, <3>2
  <2>5. \A r : r # "u" /\ r # "s" => (r \in Listed(b, "u") <=> r \in R)
    BY DEF Listed, Frame
  <2> QED BY <2>1, <2>4, <2>5
<1> HIDE DEF b, k, R
<1>3. Like(S!pshu(m), Pushed(m, "u"))
  <2>1. Other("u") = "s"
    BY DEF Other
  <2>2. Pushed(m, "u") = PushAll(k, "u", "s", R)
    BY <2>1 DEF Pushed, k, R, b
  <2>3. S!pshu(m) = S!PushAll(k, "u", "u", R)
    BY <1>2 DEF S!pshu
  <2>4. \A l : S!PushIn(l, "u", R, "u") = l /\ S!PushIn(l, "u", R, "s") = l
    BY <1>2 DEF S!PushIn
  <2>5. S!PushAll(k, "u", "u", R) = S!PushAll(k, "u", "s", R)
    BY <2>4 DEF S!PushAll
  <2>6. Like(S!PushAll(k, "u", "s", R), PushAll(k, "u", "s", R))
    BY <1>1, <2>1, LikeSelf, LikePushAll
  <2> QED BY <2>2, <2>3, <2>5, <2>6
<1>4. S!pulu(m) = Pulled(m, "u")
  <2> DEFINE low == PullAll(k, "u", "u", R \ {"u", "pc"})
             bytes == P(P(P(P(k, "cc"), "a"), "b"), "dp")
             words == P(P(bytes, "x"), "y")
  <2>1. Other("u") = "s"
    BY DEF Other
  <2>2. Pulled(m, "u") = PullAll(k, "u", "s", R)
    BY <2>1 DEF Pulled, k, R, b
  <2>3. S!pulu(m) = PullAll(low, "u", "u", R \cap {"pc"})
    BY <1>2, SamePulls DEF S!pulu
  <2>4. \A l : P(l, "s") = l
    BY <1>2 DEF PullIn
  <2>5. PullAll(k, "u", "s", R) = P(words, "pc")
    <3>1. PullAll(k, "u", "s", R) = P(P(words, "s"), "pc")
      BY DEF PullAll
    <3> HIDE DEF words
    <3> QED BY <2>4, <3>1, Zenon
  <2>6. low = words
    <3> DEFINE Q(l, r) == PullIn(l, "u", R \ {"u", "pc"}, r)
    <3>1. \A l : Q(l, "u") = l /\ Q(l, "pc") = l
      BY DEF PullIn
    <3>2. \A r : r # "u" /\ r # "pc" => \A l : Q(l, r) = P(l, r)
      BY DEF PullIn
    <3>3. /\ \A l : Q(l, "cc") = P(l, "cc")
          /\ \A l : Q(l, "a") = P(l, "a")
          /\ \A l : Q(l, "b") = P(l, "b")
          /\ \A l : Q(l, "dp") = P(l, "dp")
          /\ \A l : Q(l, "x") = P(l, "x")
          /\ \A l : Q(l, "y") = P(l, "y")
      BY <3>2
    <3>4. low = Q(Q(Q(Q(Q(Q(Q(Q(k, "cc"), "a"), "b"), "dp"), "x"), "y"), "u"), "pc")
      BY DEF PullAll
    <3> HIDE DEF Q, P, low
    <3> QED BY <3>1, <3>3, <3>4
  <2>7. PullAll(low, "u", "u", R \cap {"pc"}) = P(low, "pc")
    <3> DEFINE Q(l, r) == PullIn(l, "u", R \cap {"pc"}, r)
    <3>1. \A r : r # "pc" => \A l : Q(l, r) = l
      BY DEF PullIn
    <3>2. /\ \A l : Q(l, "cc") = l /\ Q(l, "a") = l /\ Q(l, "b") = l /\ Q(l, "dp") = l
          /\ \A l : Q(l, "x") = l /\ Q(l, "y") = l /\ Q(l, "u") = l
      BY <3>1
    <3>3. \A l : Q(l, "pc") = P(l, "pc")
      BY DEF PullIn
    <3> HIDE DEF low
    <3>4. PullAll(low, "u", "u", R \cap {"pc"}) =
            Q(Q(Q(Q(Q(Q(Q(Q(low, "cc"), "a"), "b"), "dp"), "x"), "y"), "u"), "pc")
      BY DEF PullAll
    <3> HIDE DEF Q, P
    <3> QED BY <3>2, <3>3, <3>4
  <2> HIDE DEF low, words, P
  <2> QED BY <2>2, <2>3, <2>5, <2>6, <2>7
<1> QED BY <1>3, <1>4

(* rti of the old simulators looks at E before it pulls CC. *)
LEMMA SameReturn ==
  ASSUME NEW m \in Machine, "E" \in m.cc <=> At(m, m.s) >= 128
  PROVE  S!rti(m) = RTI(m) /\ T!rti(m) = RTI(m)
<1> DEFINE c == Pull(m, "s", "cc")
           e == "E" \in m.cc
           regs == IF e THEN Frame("u") \ {"cc"} ELSE {"pc"}
           whole == IF e THEN Frame("u") ELSE {"cc", "pc"}
<1>1. "E" \in c.cc <=> e
  <2> DEFINE v == At(m, m.s)
             k == [m EXCEPT !.s = (@ + 1) % 65536]
  <2>1. v \in Byte /\ m.s \in Word
    BY MemoryType, FieldType DEF WordRegs
  <2>2. c = SetReg(k, "cc", v)
    BY DEF Pull, ByteRegs
  <2>3. k \in Machine
    <3>1. (m.s + 1) % 65536 \in Word
      BY <2>1, WordHalves
    <3>2. \A w \in Word : [m EXCEPT !.s = w] \in Machine
      BY FieldType DEF WordRegs
    <3> QED BY <3>1, <3>2
  <2> HIDE DEF k, v
  <2>4. c = [k EXCEPT !.cc = ByteCc(v % 256)]
    BY <2>2 DEF SetReg
  <2>5. c.cc = ByteCc(v % 256) /\ v % 256 = v
    <3>1. \A f : [k EXCEPT !.cc = f].cc = f
      BY <2>3, MachineFields
    <3>2. v % 256 = v
      BY <2>1, ByteDef, SMT
    <3> DEFINE f == ByteCc(v % 256)
    <3>3. c = [k EXCEPT !.cc = f]
      BY <2>4
    <3> HIDE DEF f, c
    <3>4. c.cc = f
      BY <3>1, <3>3
    <3> QED BY <3>2, <3>4 DEF f
  <2>6. "E" \in ByteCc(v) <=> v >= 128
    <3>1. Bit(v, 128) = IF v >= 128 THEN 1 ELSE 0
      BY <2>1, TopBits
    <3>2. FlagMask["E"] = 128 /\ "E" \in Flags
      BY DEF FlagMask, Flags
    <3>3. "E" \in ByteCc(v) <=> Bit(v, 128) = 1
      BY <3>2 DEF ByteCc
    <3> QED BY <3>1, <3>3
  <2> QED BY <2>5, <2>6 DEF v
<1>2. RTI(m) = PullAll(c, "s", "u", regs)
  <2> HIDE DEF c, e
  <2> QED BY <1>1 DEF RTI, c
<1>3. S!rti(m) = PullAll(m, "s", "u", whole) /\ T!rti(m) = PullAll(m, "s", "u", whole)
  <2>1. S!Frame("u") = Frame("u") /\ T!Frame("u") = Frame("u")
    BY DEF S!Frame, T!Frame, Frame
  <2> QED BY <2>1, SamePulls DEF S!rti, T!rti
<1>4. PullAll(m, "s", "u", whole) = PullAll(c, "s", "u", regs)
  <2> DEFINE P(l, r) == PullIn(l, "s", whole, r)
             Q(l, r) == PullIn(l, "s", regs, r)
  <2>1. P(m, "cc") = c
    BY DEF PullIn, Frame
  <2>2. \A l : Q(l, "cc") = l
    BY DEF PullIn, Frame
  <2>3. \A r : r # "cc" => \A l : P(l, r) = Q(l, r)
    BY DEF PullIn
  <2>4. /\ \A l : P(l, "a") = Q(l, "a") /\ P(l, "b") = Q(l, "b") /\ P(l, "dp") = Q(l, "dp")
        /\ \A l : P(l, "x") = Q(l, "x") /\ P(l, "y") = Q(l, "y")
        /\ \A l : P(l, "u") = Q(l, "u") /\ P(l, "pc") = Q(l, "pc")
    BY <2>3
  <2> HIDE DEF c, whole, regs
  <2>5. PullAll(m, "s", "u", whole) = P(P(P(P(P(P(P(P(m, "cc"), "a"), "b"), "dp"), "x"), "y"), "u"), "pc")
    BY DEF PullAll
  <2>6. PullAll(c, "s", "u", regs) = Q(Q(Q(Q(Q(Q(Q(Q(c, "cc"), "a"), "b"), "dp"), "x"), "y"), "u"), "pc")
    BY DEF PullAll
  <2> HIDE DEF P, Q
  <2> QED BY <2>1, <2>2, <2>4, <2>5, <2>6
<1> QED BY <1>2, <1>3, <1>4

(* Row 3 by its columns, and those that the three programs share. *)
LEMMA Row3Cases ==
  ASSUME NEW m \in Machine, NEW n \in 0..14, NEW flag \in {0, 1, 2}
  PROVE  /\ Row3(m, n, flag) \in Machine
         /\ n \in 0..3 => Row3(m, n, flag) = LEA(n, INDEXED(m))
         /\ n = 4 => Row3(m, n, flag) = Pushed(m, "s")
         /\ n = 5 => Row3(m, n, flag) = Pulled(m, "s")
         /\ n = 6 => Row3(m, n, flag) = Pushed(m, "u")
         /\ n = 7 => Row3(m, n, flag) = Pulled(m, "u")
         /\ n = 11 => Row3(m, n, flag) = RTI(m)
         /\ n = 13 => Row3(m, n, flag) = IntoD(m, Mul(m.a, m.b, m.cc))
         /\ n \in {8, 9, 10, 12, 13, 14} => S!Row3(m, n, flag) = Row3(m, n, flag)
         /\ n \in {8, 9, 10, 12, 14} => T!Row3(m, n, flag) = Row3(m, n, flag)
<1> DEFINE e == Row3(m, n, flag)
           k == Pull(m, "s", "pc")
           x == [m EXCEPT !.x = (@ + m.b) % 65536]
           d == IntoD(m, Mul(m.a, m.b, m.cc))
<1>1. e \in Machine
  BY Row3Type
<1>2. /\ n \in 0..3 => e = LEA(n, INDEXED(m))
      /\ n = 4 => e = Pushed(m, "s")
      /\ n = 5 => e = Pulled(m, "s")
      /\ n = 6 => e = Pushed(m, "u")
      /\ n = 7 => e = Pulled(m, "u")
  BY SMT DEF Row3
<1>3. /\ n = 11 => e = RTI(m)
      /\ n = 13 => e = d
      /\ n = 9 => e = k
      /\ n = 10 => e = x
      /\ n \in {8, 12, 14} => e = m
  BY SMT DEF Row3
<1>4. S!Pull(m, "s", "pc") = k /\ T!Pull(m, "s", "pc") = k /\ S!IntoD(m, S!Mul(m.a, m.b, m.cc)) = d
  BY SamePulls, SameResults, SameWide, Zenon
<1>5. /\ n = 13 => S!Row3(m, n, flag) = S!IntoD(m, S!Mul(m.a, m.b, m.cc))
      /\ n = 9 => S!Row3(m, n, flag) = S!Pull(m, "s", "pc")
      /\ n = 10 => S!Row3(m, n, flag) = x
      /\ n \in {8, 12, 14} => S!Row3(m, n, flag) = m
  BY SMT DEF S!Row3
<1>6. /\ n = 9 => T!Row3(m, n, flag) = T!Pull(m, "s", "pc")
      /\ n = 10 => T!Row3(m, n, flag) = x
      /\ n \in {8, 12, 14} => T!Row3(m, n, flag) = m
  BY SMT DEF T!Row3
<1> HIDE DEF e, k, x, d
<1>7. n \in {8, 9, 10, 12, 13, 14} => S!Row3(m, n, flag) = e
  BY <1>3, <1>4, <1>5
<1>8. n \in {8, 9, 10, 12, 14} => T!Row3(m, n, flag) = e
  BY <1>3, <1>4, <1>6
<1> QED BY <1>1, <1>2, <1>3, <1>7, <1>8 DEF e, d

(* LEA loads the same address. *)
LEMMA SameLea ==
  ASSUME NEW m \in Machine, NEW n \in 0..3, LegalMode(m)
  PROVE  S!lea(m, n) = LEA(n, INDEXED(m)) /\ T!lea(m, n) = LEA(n, INDEXED(m))
BY PlainPostbyte, SameResults, Zenon DEF S!lea, T!lea

(* The whole of row 3 of v09s.c, but for the calls of the system. *)
LEMMA SameMisc ==
  ASSUME NEW m \in Machine, NEW n \in 0..14, NEW flag \in {0, 1, 2}, NEW key,
         n \in 0..3 => LegalMode(m), n \in {6, 7} => Bit(At(m, m.pc), 64) = 0,
         n = 11 => ("E" \in m.cc <=> At(m, m.s) >= 128)
  PROVE  Like(S!Misc(m, n, flag, key), Row3(m, n, flag))
<1> DEFINE e == Row3(m, n, flag)
           c == S!Misc(m, n, flag, key)
           other == S!Row3(m, n, flag)
<1>1. c = CASE n < 4 -> S!lea(m, n)
            [] n \in 4..7 -> S!Stacked(m, n)
            [] n = 11 -> S!rti(m)
            [] n = 15 -> S!swi(m, flag, key)
            [] OTHER -> other
  BY DEF S!Misc
<1>2. e \in Machine
  BY Row3Cases
<1> HIDE DEF c, e, other
<1>3. n \in Int /\ (n < 4 <=> n \in 0..3) /\ n # 15
  BY SMT
<1>4. CASE n \in 0..3
  <2>1. ~(n \in 4..7) /\ n # 11 /\ n < 4
    BY <1>3, <1>4
  <2>2. c = S!lea(m, n)
    BY <1>1, <1>3, <2>1, Zenon
  <2>3. c = e
    BY <1>4, <2>2, SameLea, Row3Cases DEF e
  <2> QED BY <1>2, <2>3, LikeSelf DEF c, e
<1>5. CASE n \in 4..7
  <2>1. ~(n < 4) /\ n # 11
    BY <1>5, SMT
  <2>2. c = S!Stacked(m, n)
    BY <1>1, <1>3, <1>5, <2>1, Zenon
  <2>3. CASE n = 4
    <3>1. c = S!Pushed(m, "s") /\ e = Pushed(m, "s")
      BY <2>2, <2>3, Row3Cases DEF S!Stacked, e
    <3> QED BY <3>1, LikePushed DEF c, e
  <2>4. CASE n = 5
    <3>1. c = S!Pulled(m, "s") /\ e = Pulled(m, "s")
      BY <2>2, <2>4, Row3Cases DEF S!Stacked, e
    <3>2. c = e
      BY <3>1, SamePulls
    <3> QED BY <1>2, <3>2, LikeSelf DEF c, e
  <2>5. CASE n = 6
    <3>1. c = S!pshu(m) /\ e = Pushed(m, "u")
      BY <2>2, <2>5, Row3Cases DEF S!Stacked, e
    <3> QED BY <2>5, <3>1, SameUserStack DEF c, e
  <2>6. CASE n = 7
    <3>1. c = S!pulu(m) /\ e = Pulled(m, "u")
      BY <2>2, <2>6, Row3Cases DEF S!Stacked, e
    <3>2. c = e
      BY <2>6, <3>1, SameUserStack
    <3> QED BY <1>2, <3>2, LikeSelf DEF c, e
  <2>7. n \in {4, 5, 6, 7}
    BY <1>5, SMT
  <2> QED BY <2>3, <2>4, <2>5, <2>6, <2>7
<1>6. CASE n = 11
  <2>1. ~(n < 4) /\ ~(n \in 4..7)
    BY <1>6, SMT
  <2>2. c = S!rti(m)
    BY <1>1, <1>3, <1>6, <2>1, Zenon
  <2>3. c = e
    BY <1>6, <2>2, SameReturn, Row3Cases DEF e
  <2> QED BY <1>2, <2>3, LikeSelf DEF c, e
<1>7. CASE n \in {8, 9, 10, 12, 13, 14}
  <2>1. ~(n < 4) /\ ~(n \in 4..7) /\ n # 11
    BY <1>7, SMT
  <2>2. c = other
    BY <1>1, <1>3, <2>1, Zenon
  <2>3. c = e
    BY <1>7, <2>2, Row3Cases DEF e, other
  <2> QED BY <1>2, <2>3, LikeSelf DEF c, e
<1>8. n \in (0..3) \cup (4..7) \cup {8, 9, 10, 11, 12, 13, 14}
  BY SMT
<1> QED BY <1>4, <1>5, <1>6, <1>7, <1>8

(* mul of v09st.c sets C where A is not 0. *)
LEMMA SameMul ==
  ASSUME NEW m \in Machine, m.a * m.b >= 256 <=> Bit(m.a * m.b, 128) = 1
  PROVE  T!mul(m) = IntoD(m, Mul(m.a, m.b, m.cc))
<1> DEFINE w == m.a * m.b
           k == SetD(m, w)
           f == Put(Put(m.cc, "Z", w = 0), "C", Bit(w, 128) = 1)
           t == Mul(m.a, m.b, m.cc)
<1>1. t.r = w /\ t.cc = f
  <2>1. t = [r |-> w, cc |-> f]
    BY DEF Mul
  <2> HIDE DEF t, w, f
  <2> QED BY <2>1
<1>2. IntoD(m, t) = [k EXCEPT !.cc = f]
  <2> HIDE DEF t, w, f
  <2> QED BY <1>1 DEF IntoD
<1>3. k.cc = m.cc
  <2> HIDE DEF w
  <2> QED BY MachineFields DEF SetD
<1>4. T!mul(m) = [k EXCEPT !.cc = Put(Put(k.cc, "Z", w = 0), "C", w >= 256)]
  BY SameMemory, SameFlags, Zenon DEF T!mul
<1>5. Put(Put(m.cc, "Z", w = 0), "C", w >= 256) = f
  <2> HIDE DEF w
  <2> QED BY DEF Put, w
<1> HIDE DEF k, w, f
<1>6. T!mul(m) = [k EXCEPT !.cc = f]
  BY <1>3, <1>4, <1>5
<1> QED BY <1>2, <1>6

(* The rows of opcodes from $80 on, by the columns. *)
ColumnRow(m, n, row, flag) ==
    CASE row = 8 -> Row8(m, n, flag) [] row = 9 -> Row9(m, n, flag)
      [] row = 10 -> RowA(m, n, flag) [] row = 11 -> RowB(m, n, flag)
      [] row = 12 -> RowC(m, n, flag) [] row = 13 -> RowD(m, n, flag)
      [] row = 14 -> RowE(m, n, flag) [] row = 15 -> RowF(m, n, flag)

(* What v09st.c does with an opcode $30 to $3F. *)
MiscSt(m, n, flag, key) ==
    CASE n < 4 -> T!LoadAddress(m, n) [] n \in 4..7 -> T!Stack(m, n)
      [] n \in {11, 15} -> T!Interrupts(m, n, flag, key)
      [] n = 13 -> T!mul(m) [] OTHER -> T!Row3(m, n, flag)

(* LEA to MUL of v09st.c do what the rows of engine.c do.                  *)
LEMMA SameMiscSt ==
  ASSUME NEW m \in Machine, NEW n \in 0..14, NEW flag \in {0, 1, 2}, NEW key,
         n \in 0..3 => LegalMode(m), n = 11 => ("E" \in m.cc <=> At(m, m.s) >= 128),
         n = 13 => (m.a * m.b >= 256 <=> Bit(m.a * m.b, 128) = 1)
  PROVE  Like(MiscSt(m, n, flag, key), Row3(m, n, flag))
<1> DEFINE e == Row3(m, n, flag)
           c == MiscSt(m, n, flag, key)
           stack == T!Stack(m, n)
<1>1. c = CASE n < 4 -> T!LoadAddress(m, n) [] n \in 4..7 -> stack
            [] n \in {11, 15} -> T!Interrupts(m, n, flag, key)
            [] n = 13 -> T!mul(m) [] OTHER -> T!Row3(m, n, flag)
  BY DEF MiscSt
<1>2. e \in Machine
  BY Row3Cases
<1>0. /\ n = 4 => stack = T!Pushed(m, "s")
      /\ n = 5 => stack = T!Pulled(m, "s")
      /\ n = 6 => stack = T!Pushed(m, "u")
      /\ n = 7 => stack = T!Pulled(m, "u")
  BY SMT DEF T!Stack
<1> HIDE DEF c, e, stack
<1>3. n \in Int /\ (n < 4 <=> n \in 0..3) /\ n # 15
  BY SMT
<1>4. CASE n \in 0..3
  <2>1. ~(n \in 4..7) /\ ~(n \in {11, 15}) /\ n # 13 /\ n < 4
    BY <1>3, <1>4
  <2>2. c = T!lea(m, n)
    BY <1>1, <2>1, Zenon DEF T!LoadAddress
  <2>3. c = e
    BY <1>4, <2>2, SameLea, Row3Cases DEF e
  <2> QED BY <1>2, <2>3, LikeSelf DEF c, e
<1>5. CASE n \in 4..7
  <2>1. ~(n < 4) /\ ~(n \in {11, 15}) /\ n # 13 /\ n \in {4, 5, 6, 7}
    BY <1>5, SMT
  <2>2. c = stack
    BY <1>1, <1>5, <2>1, Zenon
  <2>3. CASE n \in {4, 6}
    <3>1. PICK st \in {"s", "u"} : c = S!Pushed(m, st) /\ e = Pushed(m, st)
      BY <1>0, <2>2, <2>3, SameStores, Row3Cases DEF e
    <3> QED BY <3>1, LikePushed DEF c, e
  <2>4. CASE n \in {5, 7}
    <3>1. c = e
      BY <1>0, <2>2, <2>4, SamePulls, Row3Cases DEF e
    <3> QED BY <1>2, <3>1, LikeSelf DEF c, e
  <2> QED BY <2>1, <2>3, <2>4
<1>6. CASE n = 11
  <2>1. ~(n < 4) /\ ~(n \in 4..7) /\ n # 13 /\ n \in {11, 15}
    BY <1>6, SMT
  <2>2. c = T!rti(m)
    BY <1>1, <1>6, <2>1, Zenon DEF T!Interrupts
  <2>3. c = e
    BY <1>6, <2>2, SameReturn, Row3Cases DEF e
  <2> QED BY <1>2, <2>3, LikeSelf DEF c, e
<1>7. CASE n = 13
  <2>1. ~(n < 4) /\ ~(n \in 4..7) /\ ~(n \in {11, 15})
    BY <1>7, SMT
  <2>2. c = T!mul(m)
    BY <1>1, <1>7, <2>1, Zenon
  <2>3. c = e
    BY <1>7, <2>2, SameMul, Row3Cases DEF e
  <2> QED BY <1>2, <2>3, LikeSelf DEF c, e
<1>8. CASE n \in {8, 9, 10, 12, 14}
  <2>1. ~(n < 4) /\ ~(n \in 4..7) /\ n # 13 /\ ~(n \in {11, 15})
    BY <1>8, SMT
  <2>2. c = T!Row3(m, n, flag)
    BY <1>1, <2>1, Zenon
  <2>3. c = e
    BY <1>8, <2>2, Row3Cases DEF e
  <2> QED BY <1>2, <2>3, LikeSelf DEF c, e
<1>9. n \in (0..3) \cup (4..7) \cup {8, 9, 10, 11, 12, 13, 14}
  BY SMT
<1> QED BY <1>4, <1>5, <1>6, <1>7, <1>8, <1>9

(* BSR, by the table of v09s.c. *)
LEMMA SameBsr ==
  ASSUME NEW m \in Machine, NEW flag \in {0, 1, 2}
  PROVE  Like(S!Columns(m, 13, 0, TRUE, flag), Row8(m, 13, flag))
<1> DEFINE i == Skip(m, 1)
           q == m.pc + 1 + Signed(At(m, m.pc))
           c == S!Columns(m, 13, 0, TRUE, flag)
<1>1. i \in Machine /\ q \in Int
  <2>1. m.pc \in Word /\ At(m, m.pc) \in Byte
    BY FieldType, MemoryType DEF WordRegs
  <2>2. Signed(At(m, m.pc)) \in Int /\ m.pc \in Int
    BY <2>1, WordDef, ByteDef, SMT DEF Signed
  <2> QED BY <2>2, SkipType
<1>2. S!Signed(At(m, m.pc)) = Signed(At(m, m.pc))
  BY DEF S!Signed, Signed
<1>3. S!bsr(m) = S!Subroutine(i, q)
  BY <1>2, SameMemory, Zenon DEF S!bsr
<1>4. c = S!bsr(m)
  BY SMT DEF S!Columns
<1>5. Row8(m, 13, flag) = Subroutine(i, q)
  BY DEF Row8
<1> HIDE DEF i, q, c
<1>6. Like(S!Subroutine(i, q), Subroutine(i, q))
  BY <1>1, LikeSubroutine
<1> QED BY <1>3, <1>4, <1>5, <1>6 DEF c

(* The two tables from $80 on. *)
LEMMA SameColumnRow ==
  ASSUME NEW m \in Machine, NEW n \in 0..15, NEW row \in 8..15, NEW flag \in {0, 1, 2},
         row \in {10, 14} => LegalMode(m),
         n \in {14, 15} \/ (row >= 12 /\ n \in {12, 13}) => "V" \notin m.cc,
         row = 10 => ComparesStill(m, n, 2, flag)
  PROVE  Like(S!Columns(m, n, row % 4, row < 12, flag), ColumnRow(m, n, row, flag))
<1> DEFINE e == ColumnRow(m, n, row, flag)
           q == row % 4
           low == row < 12
           b == BinaryOp[n + 1] = "16"
           imm == IF b THEN IMM16(m) ELSE IMM8(m)
           oo == OperandOf(m, n, q)
<1>1. /\ row = 8 => e = IF n = 13 THEN Row8(m, n, flag) ELSE ColumnA(n, imm, flag)
      /\ row = 9 => e = ColumnA(n, DIRECT(m), flag)
      /\ row = 10 => e = ColumnA(n, INDEXED(m), flag)
      /\ row = 11 => e = ColumnA(n, EXTENDED(m), flag)
  <2>1. row = 8 => e = Row8(m, n, flag) BY SMT DEF ColumnRow
  <2>2. row = 9 => e = Row9(m, n, flag) BY SMT DEF ColumnRow
  <2>3. row = 10 => e = RowA(m, n, flag) BY SMT DEF ColumnRow
  <2>4. row = 11 => e = RowB(m, n, flag) BY SMT DEF ColumnRow
  <2> HIDE DEF e
  <2> QED BY <2>1, <2>2, <2>3, <2>4 DEF Row8, Row9, RowA, RowB
<1>2. /\ row = 12 => e = ColumnB(n, imm, flag)
      /\ row = 13 => e = ColumnB(n, DIRECT(m), flag)
      /\ row = 14 => e = ColumnB(n, INDEXED(m), flag)
      /\ row = 15 => e = ColumnB(n, EXTENDED(m), flag)
  <2>1. row = 12 => e = RowC(m, n, flag) BY SMT DEF ColumnRow
  <2>2. row = 13 => e = RowD(m, n, flag) BY SMT DEF ColumnRow
  <2>3. row = 14 => e = RowE(m, n, flag) BY SMT DEF ColumnRow
  <2>4. row = 15 => e = RowF(m, n, flag) BY SMT DEF ColumnRow
  <2> HIDE DEF e
  <2> QED BY <2>1, <2>2, <2>3, <2>4 DEF RowC, RowD, RowE, RowF
<1>3. /\ q \in 0..3 /\ (row \in {8, 12} => q = 0) /\ (row \in {9, 13} => q = 1)
      /\ (row \in {10, 14} => q = 2) /\ (row \in {11, 15} => q = 3)
      /\ (low <=> row \in {8, 9, 10, 11}) /\ (row >= 12 <=> ~low)
      /\ row \in {8, 9, 10, 11, 12, 13, 14, 15} /\ (q = 0 => row \in {8, 12})
      /\ (q = 2 => row \in {10, 14})
  BY SMT
<1> HIDE DEF e
<1>4. /\ q = 0 => oo = imm
      /\ q = 1 => oo = DIRECT(m)
      /\ q = 2 => oo = INDEXED(m)
      /\ q = 3 => oo = EXTENDED(m)
  <2>1. oo = IF b THEN ModeOf16(m, q) ELSE ModeOf(m, q)
    BY DEF OperandOf
  <2>2. ModeOf16(m, q) = IF q = 0 THEN IMM16(m) ELSE ModeOf(m, q)
    BY DEF ModeOf16
  <2>3. /\ q = 0 => ModeOf(m, q) = IMM8(m)
        /\ q = 1 => ModeOf(m, q) = DIRECT(m)
        /\ q = 2 => ModeOf(m, q) = INDEXED(m)
        /\ q = 3 => ModeOf(m, q) = EXTENDED(m)
    <3> HIDE DEF q
    <3> QED BY SMT DEF ModeOf
  <2> HIDE DEF q, oo, b
  <2> QED BY <2>1, <2>2, <2>3
<1> HIDE DEF q, oo, imm, b
<1>5. CASE row \in {8, 9, 10, 11} /\ ~(row = 8 /\ n = 13)
  <2>1. e = ColumnA(n, oo, flag)
    BY <1>1, <1>3, <1>4, <1>5
  <2>2. ~(n = 13 /\ q = 0) /\ (q = 2 => LegalMode(m))
    BY <1>3, <1>5
  <2>3. ComparesStill(m, n, q, flag)
    <3>1. CASE q = 2
      BY <1>3, <1>5, <3>1
    <3>2. CASE q # 2
      BY <3>2 DEF ComparesStill
    <3> QED BY <3>1, <3>2
  <2>4. Like(S!Columns(m, n, q, TRUE, flag), ColumnA(n, oo, flag))
    BY <1>3, <2>2, <2>3, SameColumnA DEF oo
  <2>5. low = TRUE
    BY <1>3, <1>5
  <2> HIDE DEF low
  <2> QED BY <2>1, <2>4, <2>5 DEF e, q, low
<1>6. CASE row = 8 /\ n = 13
  <2>1. e = Row8(m, 13, flag) /\ q = 0 /\ low = TRUE
    BY <1>1, <1>3, <1>6
  <2> HIDE DEF low
  <2>2. Like(S!Columns(m, n, q, low, flag), e)
    BY <1>6, <2>1, SameBsr
  <2> QED BY <2>2 DEF e, q, low
<1>7. CASE row \in {12, 13, 14, 15}
  <2>1. e = ColumnB(n, oo, flag)
    BY <1>2, <1>3, <1>4, <1>7
  <2>2. (q = 2 => LegalMode(m)) /\ (n \in {12, 13, 14, 15} => "V" \notin m.cc)
    BY <1>3, <1>7
  <2>4. Like(S!Columns(m, n, q, FALSE, flag), ColumnB(n, oo, flag))
    BY <1>3, <2>2, SameColumnB DEF oo
  <2>5. low = FALSE
    BY <1>3, <1>7
  <2> HIDE DEF low
  <2> QED BY <2>1, <2>4, <2>5 DEF e, q, low
<1> QED BY <1>3, <1>5, <1>6, <1>7

-----------------------------------------------------------------------------
(* The three tables.                                                       *)

(* Exec, by the row of the opcode, once the opcode is read. *)
RowOf(m, op, flag) ==
    LET n == op % 16
        row == op \div 16
    IN  CASE row = 1 -> Row1(m, n, 0) [] row = 2 -> Row2(m, n, flag)
          [] row = 3 -> Row3(m, n, flag) [] row \in {0, 4, 5, 6, 7} -> OneByteRow(m, n, row)
          [] row >= 8 -> ColumnRow(m, n, row, flag)

(* Exec, by the row of the opcode. *)
LEMMA ExecRowOf ==
  ASSUME NEW m \in Machine, \E k \in 0..MaxPrefix : At(m, m.pc + k) \notin {16, 17}
  PROVE  Exec(m, 0) = RowOf(Skip(m, PrefixCount(m) + 1), Opcode(m), Flag(m))
<1> DEFINE n == Opcode(m) % 16
           flag == Flag(m)
           i == Skip(m, PrefixCount(m) + 1)
           row == Opcode(m) \div 16
           e == Exec(m, 0)
           g == RowOf(i, Opcode(m), flag)
<1>1. Opcode(m) \in Byte
  BY PrefixType
<1>2. row \in 0..15
  BY <1>1, ByteDef, SMT
<1>3. g = CASE row = 1 -> Row1(i, n, 0) [] row = 2 -> Row2(i, n, flag)
            [] row = 3 -> Row3(i, n, flag) [] row \in {0, 4, 5, 6, 7} -> OneByteRow(i, n, row)
            [] row >= 8 -> ColumnRow(i, n, row, flag)
  BY DEF RowOf
<1>4. /\ row = 0 => e = Row0(i, n)
      /\ row = 1 => e = Row1(i, n, 0)
      /\ row = 2 => e = Row2(i, n, flag)
      /\ row = 3 => e = Row3(i, n, flag)
  <2>1. row = 0 => e = Row0(i, n) BY SMT DEF Exec
  <2>2. row = 1 => e = Row1(i, n, 0) BY SMT DEF Exec
  <2>3. row = 2 => e = Row2(i, n, flag) BY SMT DEF Exec
  <2>4. row = 3 => e = Row3(i, n, flag) BY SMT DEF Exec
  <2> QED BY <2>1, <2>2, <2>3, <2>4
<1>5. /\ row = 4 => e = Row4(i, n)
      /\ row = 5 => e = Row5(i, n)
      /\ row = 6 => e = Row6(i, n)
      /\ row = 7 => e = Row7(i, n)
  <2>1. row = 4 => e = Row4(i, n) BY SMT DEF Exec
  <2>2. row = 5 => e = Row5(i, n) BY SMT DEF Exec
  <2>3. row = 6 => e = Row6(i, n) BY SMT DEF Exec
  <2>4. row = 7 => e = Row7(i, n) BY SMT DEF Exec
  <2> QED BY <2>1, <2>2, <2>3, <2>4
<1>6. /\ row = 8 => e = Row8(i, n, flag)
      /\ row = 9 => e = Row9(i, n, flag)
      /\ row = 10 => e = RowA(i, n, flag)
      /\ row = 11 => e = RowB(i, n, flag)
  <2>1. row = 8 => e = Row8(i, n, flag) BY SMT DEF Exec
  <2>2. row = 9 => e = Row9(i, n, flag) BY SMT DEF Exec
  <2>3. row = 10 => e = RowA(i, n, flag) BY SMT DEF Exec
  <2>4. row = 11 => e = RowB(i, n, flag) BY SMT DEF Exec
  <2> QED BY <2>1, <2>2, <2>3, <2>4
<1>7. /\ row = 12 => e = RowC(i, n, flag)
      /\ row = 13 => e = RowD(i, n, flag)
      /\ row = 14 => e = RowE(i, n, flag)
      /\ row = 15 => e = RowF(i, n, flag)
  <2>1. row = 12 => e = RowC(i, n, flag) BY SMT DEF Exec
  <2>2. row = 13 => e = RowD(i, n, flag) BY SMT DEF Exec
  <2>3. row = 14 => e = RowE(i, n, flag) BY SMT DEF Exec
  <2>4. row = 15 => e = RowF(i, n, flag) BY SMT DEF Exec
  <2> QED BY <2>1, <2>2, <2>3, <2>4
<1> HIDE DEF row, i, flag, n, e, g
<1>8. CASE row \in {1, 2, 3}
  <2>1. ~(row \in {0, 4, 5, 6, 7}) /\ ~(row >= 8)
    BY <1>8, SMT
  <2>2. g = e
    BY <1>3, <1>4, <1>8, <2>1, SMT
  <2> QED BY <2>2 DEF g, e, i, flag
<1>9. CASE row \in {0, 4, 5, 6, 7}
  <2>1. ~(row \in {1, 2, 3}) /\ ~(row >= 8)
    BY <1>9, SMT
  <2>2. g = OneByteRow(i, n, row)
    BY <1>3, <1>9, <2>1, SMT
  <2>3. OneByteRow(i, n, row) = e
    <3>1. row = 0 => OneByteRow(i, n, row) = Row0(i, n) BY SMT DEF OneByteRow
    <3>2. row = 4 => OneByteRow(i, n, row) = Row4(i, n) BY SMT DEF OneByteRow
    <3>3. row = 5 => OneByteRow(i, n, row) = Row5(i, n) BY SMT DEF OneByteRow
    <3>4. row = 6 => OneByteRow(i, n, row) = Row6(i, n) BY SMT DEF OneByteRow
    <3>5. row = 7 => OneByteRow(i, n, row) = Row7(i, n) BY SMT DEF OneByteRow
    <3> QED BY <1>4, <1>5, <1>9, <3>1, <3>2, <3>3, <3>4, <3>5
  <2> QED BY <2>2, <2>3 DEF g, e, i, flag
<1>10. CASE row >= 8
  <2>1. ~(row \in {1, 2, 3}) /\ ~(row \in {0, 4, 5, 6, 7}) /\ row \in {8, 9, 10, 11} \cup {12, 13, 14, 15}
    BY <1>2, <1>10, SMT
  <2>2. g = ColumnRow(i, n, row, flag)
    BY <1>3, <1>10, <2>1, SMT
  <2>3. /\ row = 8 => ColumnRow(i, n, row, flag) = Row8(i, n, flag)
        /\ row = 9 => ColumnRow(i, n, row, flag) = Row9(i, n, flag)
        /\ row = 10 => ColumnRow(i, n, row, flag) = RowA(i, n, flag)
        /\ row = 11 => ColumnRow(i, n, row, flag) = RowB(i, n, flag)
    BY SMT DEF ColumnRow
  <2>4. /\ row = 12 => ColumnRow(i, n, row, flag) = RowC(i, n, flag)
        /\ row = 13 => ColumnRow(i, n, row, flag) = RowD(i, n, flag)
        /\ row = 14 => ColumnRow(i, n, row, flag) = RowE(i, n, flag)
        /\ row = 15 => ColumnRow(i, n, row, flag) = RowF(i, n, flag)
    BY SMT DEF ColumnRow
  <2>5. g = e
    BY <1>6, <1>7, <2>1, <2>2, <2>3, <2>4
  <2> QED BY <2>5 DEF g, e, i, flag
<1>11. row \in {1, 2, 3} \/ row \in {0, 4, 5, 6, 7} \/ row >= 8
  BY <1>2, SMT
<1> QED BY <1>8, <1>9, <1>10, <1>11

(* Where none of what all three do otherwise is met: hi and lo are the     *)
(* codes of the postbyte of TFR and EXG.                                   *)
Common(m, op, flag) ==
    LET n == op % 16
        row == op \div 16
        hi == At(m, m.pc) \div 16
        lo == At(m, m.pc) % 16
    IN  /\ op \notin {19, 60, 63}
        /\ row \in {6, 10, 14} \/ op \in 48..51 => LegalMode(m)
        /\ row = 6 => UnaryOp[n + 1] # "ill"
        /\ row \in {0, 4, 5, 6, 7} /\ n = 13 => "V" \notin m.cc
        /\ row >= 8 /\ (n \in {14, 15} \/ (row >= 12 /\ n \in {12, 13})) => "V" \notin m.cc
        /\ row = 2 /\ n >= 12 => ~({"N", "V"} \subseteq m.cc)
        /\ row = 10 => ComparesStill(m, n, 2, flag)
        /\ op = 59 => ("E" \in m.cc <=> At(m, m.s) >= 128)
        /\ op \in {30, 31} => {hi, lo} \subseteq 0..5 \/ {hi, lo} \subseteq 8..11

(* The table of v09s.c does what the rows of engine.c do. *)
LEMMA SamePerform ==
  ASSUME NEW m \in Machine, NEW op \in Byte, NEW flag \in {0, 1, 2}, NEW key,
         Common(m, op, flag), op \in {54, 55} => Bit(At(m, m.pc), 64) = 0
  PROVE  Like(S!Perform(m, op, flag, key), RowOf(m, op, flag))
<1> DEFINE n == op % 16
           row == op \div 16
           low == row < 12
           g == RowOf(m, op, flag)
           c == S!Perform(m, op, flag, key)
           hi == At(m, m.pc) \div 16
           lo == At(m, m.pc) % 16
<1>1. op \in Int /\ op >= 0 /\ n \in 0..15 /\ row \in 0..15 /\ op = 16 * row + n
  BY ByteDef, SMT
<1>2. g = CASE row = 1 -> Row1(m, n, 0) [] row = 2 -> Row2(m, n, flag)
            [] row = 3 -> Row3(m, n, flag) [] row \in {0, 4, 5, 6, 7} -> OneByteRow(m, n, row)
            [] row >= 8 -> ColumnRow(m, n, row, flag)
  BY DEF RowOf
<1>3. c = CASE row = 1 -> S!Inherent(m, n)
            [] row = 2 -> S!Branch(m, n, flag)
            [] row = 3 -> S!Misc(m, n, flag, key)
            [] row \in {0, 4, 5, 6, 7} -> S!Monadic(m, n, row)
            [] OTHER -> S!Columns(m, n, row % 4, low, flag)
  BY DEF S!Perform
<1>4. /\ op \notin {19, 60, 63}
      /\ row \in {6, 10, 14} \/ op \in 48..51 => LegalMode(m)
      /\ row = 6 => UnaryOp[n + 1] # "ill"
      /\ row \in {0, 4, 5, 6, 7} /\ n = 13 => "V" \notin m.cc
      /\ row >= 8 /\ (n \in {14, 15} \/ (row >= 12 /\ n \in {12, 13})) => "V" \notin m.cc
      /\ row = 2 /\ n >= 12 => ~({"N", "V"} \subseteq m.cc)
      /\ row = 10 => ComparesStill(m, n, 2, flag)
      /\ op = 59 => ("E" \in m.cc <=> At(m, m.s) >= 128)
      /\ op \in {30, 31} => {hi, lo} \subseteq 0..5 \/ {hi, lo} \subseteq 8..11
  BY DEF Common
<1> HIDE DEF n, row, low, g, c, hi, lo
<1>5. /\ row = 1 => row # 2 /\ row # 3 /\ ~(row \in {0, 4, 5, 6, 7}) /\ ~(row >= 8)
      /\ row = 2 => row # 1 /\ row # 3 /\ ~(row \in {0, 4, 5, 6, 7}) /\ ~(row >= 8)
      /\ row = 3 => row # 1 /\ row # 2 /\ ~(row \in {0, 4, 5, 6, 7}) /\ ~(row >= 8)
      /\ row \in {0, 4, 5, 6, 7} => row # 1 /\ row # 2 /\ row # 3 /\ ~(row >= 8)
      /\ row >= 8 => row # 1 /\ row # 2 /\ row # 3 /\ ~(row \in {0, 4, 5, 6, 7})
  BY <1>1, SMT
<1>6. CASE row = 1
  <2>1. c = S!Inherent(m, n) /\ g = Row1(m, n, 0)
    BY <1>2, <1>3, <1>5, <1>6, Zenon
  <2>2. n \in {14, 15} => op \in {30, 31}
    BY <1>1, <1>6, SMT
  <2>3. n \in {14, 15} => {hi, lo} \subseteq 0..5 \/ {hi, lo} \subseteq 8..11
    BY <1>4, <2>2
  <2>4. Like(S!Inherent(m, n), Row1(m, n, 0))
    BY <1>1, <2>3, SameInherent DEF hi, lo
  <2> QED BY <2>1, <2>4 DEF c, g
<1>7. CASE row = 2
  <2>1. c = S!Branch(m, n, flag) /\ g = Row2(m, n, flag)
    BY <1>2, <1>3, <1>5, <1>7, Zenon
  <2>2. c = g
    BY <1>1, <1>4, <1>7, <2>1, SameBranches
  <2>3. g \in Machine
    BY <1>1, <2>1, Row2Type
  <2> QED BY <2>2, <2>3, LikeSelf DEF c, g
<1>8. CASE row = 3
  <2>1. c = S!Misc(m, n, flag, key) /\ g = Row3(m, n, flag)
    BY <1>2, <1>3, <1>5, <1>8, Zenon
  <2>2. /\ n \in 0..14 /\ (n \in 0..3 => op \in 48..51)
        /\ (n \in {6, 7} => op \in {54, 55}) /\ (n = 11 => op = 59)
    BY <1>1, <1>4, <1>8, SMT
  <2>3. Like(S!Misc(m, n, flag, key), Row3(m, n, flag))
    BY <1>4, <2>2, SameMisc
  <2> QED BY <2>1, <2>3 DEF c, g
<1>9. CASE row \in {0, 4, 5, 6, 7}
  <2>1. c = S!Monadic(m, n, row) /\ g = OneByteRow(m, n, row)
    BY <1>2, <1>3, <1>5, <1>9, Zenon
  <2>2. Like(S!Monadic(m, n, row), OneByteRow(m, n, row))
    BY <1>1, <1>4, <1>9, SameMonadic
  <2> QED BY <2>1, <2>2 DEF c, g
<1>10. CASE row >= 8
  <2>1. c = S!Columns(m, n, row % 4, low, flag) /\ g = ColumnRow(m, n, row, flag)
    BY <1>2, <1>3, <1>5, <1>10, Zenon
  <2>2. row \in 8..15
    BY <1>1, <1>10, SMT
  <2>3. Like(S!Columns(m, n, row % 4, row < 12, flag), ColumnRow(m, n, row, flag))
    BY <1>1, <1>4, <1>10, <2>2, SameColumnRow
  <2> QED BY <2>1, <2>3 DEF c, g, low
<1>11. row \in {1, 2, 3} \cup {0, 4, 5, 6, 7} \/ row >= 8
  BY <1>1, SMT
<1> QED BY <1>6, <1>7, <1>8, <1>9, <1>10, <1>11

(* Where v09st.c does not do otherwise either. *)
CommonSt(m, op, flag) ==
    LET n == op % 16
        row == op \div 16
        one == row \in {0, 4, 5, 6, 7}
        w == WorkedByte(m, row)
    IN  /\ one => n # 3
        /\ one /\ n \in {4, 7} => ("H" \in m.cc <=> Bit(w, 16) = 1)
        /\ one /\ n = 9 => ("V" \in m.cc <=> Bit(w, 128) # Bit(w, 64))
        /\ op = 25 => "C" \notin m.cc
        /\ op = 61 => (m.a * m.b >= 256 <=> Bit(m.a * m.b, 128) = 1)

(* So does that of v09st.c. *)
LEMMA SamePerformSt ==
  ASSUME NEW m \in Machine, NEW op \in Byte, NEW flag \in {0, 1, 2}, NEW key,
         Common(m, op, flag), CommonSt(m, op, flag)
  PROVE  Like(T!PerformSt(m, op, flag, key), RowOf(m, op, flag))
<1> DEFINE n == op % 16
           row == op \div 16
           low == row < 12
           g == RowOf(m, op, flag)
           c == T!PerformSt(m, op, flag, key)
           hi == At(m, m.pc) \div 16
           lo == At(m, m.pc) % 16
           w == WorkedByte(m, row)
           a3 == MiscSt(m, n, flag, key)
           a5 == T!Sums(m, n, row % 4, low, flag)
           a6 == T!Call(m, row % 4)
           a7 == T!Moves(m, n, row % 4, "d")
           word == IF low THEN <<"x", "y">> ELSE <<"u", "s">>
           a8 == T!Moves(m, n, row % 4, word[IF flag = 0 THEN 1 ELSE 2])
           a9 == T!Arithmetic(m, n, row % 4, IF low THEN "a" ELSE "b")
<1>1. op \in Int /\ op >= 0 /\ n \in 0..15 /\ row \in 0..15 /\ op = 16 * row + n
  BY ByteDef, SMT
<1>2. g = CASE row = 1 -> Row1(m, n, 0) [] row = 2 -> Row2(m, n, flag)
            [] row = 3 -> Row3(m, n, flag) [] row \in {0, 4, 5, 6, 7} -> OneByteRow(m, n, row)
            [] row >= 8 -> ColumnRow(m, n, row, flag)
  BY DEF RowOf
<1>3. c = CASE row = 1 -> T!Simple(m, n)
            [] row = 2 -> T!Conditional(m, n, flag)
            [] row = 3 -> a3
            [] row < 8 /\ row \notin 1..3 -> T!Single(m, n, row)
            [] row >= 8 /\ (n = 3 \/ (n = 12 /\ low)) -> a5
            [] row >= 8 /\ n = 13 /\ low -> a6
            [] row >= 8 /\ n \in {12, 13} /\ ~low -> a7
            [] row >= 8 /\ n \in {14, 15} -> a8
            [] OTHER -> a9
  BY DEF T!PerformSt, MiscSt
<1>4. /\ op \notin {19, 60, 63}
      /\ row \in {6, 10, 14} \/ op \in 48..51 => LegalMode(m)
      /\ row = 6 => UnaryOp[n + 1] # "ill"
      /\ row \in {0, 4, 5, 6, 7} /\ n = 13 => "V" \notin m.cc
      /\ row >= 8 /\ (n \in {14, 15} \/ (row >= 12 /\ n \in {12, 13})) => "V" \notin m.cc
      /\ row = 2 /\ n >= 12 => ~({"N", "V"} \subseteq m.cc)
      /\ row = 10 => ComparesStill(m, n, 2, flag)
      /\ op = 59 => ("E" \in m.cc <=> At(m, m.s) >= 128)
      /\ op \in {30, 31} => {hi, lo} \subseteq 0..5 \/ {hi, lo} \subseteq 8..11
  BY DEF Common
<1>5. /\ row \in {0, 4, 5, 6, 7} => n # 3
      /\ row \in {0, 4, 5, 6, 7} /\ n \in {4, 7} => ("H" \in m.cc <=> Bit(w, 16) = 1)
      /\ row \in {0, 4, 5, 6, 7} /\ n = 9 => ("V" \in m.cc <=> Bit(w, 128) # Bit(w, 64))
      /\ op = 25 => "C" \notin m.cc
      /\ op = 61 => (m.a * m.b >= 256 <=> Bit(m.a * m.b, 128) = 1)
  BY DEF CommonSt
<1> HIDE DEF n, row, low, g, c, hi, lo, w, a3, a5, a6, a7, a8, a9
<1>6. /\ row = 1 => row # 2 /\ row # 3 /\ ~(row \in {0, 4, 5, 6, 7}) /\ ~(row >= 8)
      /\ row = 2 => row # 1 /\ row # 3 /\ ~(row \in {0, 4, 5, 6, 7}) /\ ~(row >= 8)
      /\ row = 3 => row # 1 /\ row # 2 /\ ~(row \in {0, 4, 5, 6, 7}) /\ ~(row >= 8)
      /\ row \in {0, 4, 5, 6, 7} => row # 1 /\ row # 2 /\ row # 3 /\ ~(row >= 8)
      /\ row >= 8 => row # 1 /\ row # 2 /\ row # 3 /\ ~(row \in {0, 4, 5, 6, 7})
      /\ row < 8 /\ row \notin 1..3 <=> row \in {0, 4, 5, 6, 7}
  BY <1>1, SMT
<1>7. CASE row = 1
  <2>1. c = T!Simple(m, n) /\ g = Row1(m, n, 0)
    BY <1>2, <1>3, <1>6, <1>7, Zenon
  <2>2. (n \in {14, 15} => op \in {30, 31}) /\ (n = 9 => op = 25)
    BY <1>1, <1>7, SMT
  <2>3. n \in {14, 15} => {hi, lo} \subseteq 0..5 \/ {hi, lo} \subseteq 8..11
    BY <1>4, <2>2
  <2>4. Like(T!Simple(m, n), Row1(m, n, 0))
    BY <1>1, <1>5, <2>2, <2>3, SameInherent DEF hi, lo
  <2> QED BY <2>1, <2>4 DEF c, g
<1>8. CASE row = 2
  <2>1. c = T!Conditional(m, n, flag) /\ g = Row2(m, n, flag)
    BY <1>2, <1>3, <1>6, <1>8, Zenon
  <2>2. c = g
    BY <1>1, <1>4, <1>8, <2>1, SameBranches
  <2>3. g \in Machine
    BY <1>1, <2>1, Row2Type
  <2> QED BY <2>2, <2>3, LikeSelf DEF c, g
<1>9. CASE row = 3
  <2>1. c = a3 /\ g = Row3(m, n, flag)
    BY <1>2, <1>3, <1>6, <1>9, Zenon
  <2>2. /\ n \in 0..14 /\ (n \in 0..3 => op \in 48..51)
        /\ (n = 13 => op = 61) /\ (n = 11 => op = 59)
    BY <1>1, <1>4, <1>9, SMT
  <2>3. Like(a3, Row3(m, n, flag))
    BY <1>4, <1>5, <2>2, SameMiscSt DEF a3
  <2> QED BY <2>1, <2>3 DEF c, g
<1>10. CASE row \in {0, 4, 5, 6, 7}
  <2>1. c = T!Single(m, n, row) /\ g = OneByteRow(m, n, row)
    BY <1>2, <1>3, <1>6, <1>10, Zenon
  <2>2. Like(T!Single(m, n, row), OneByteRow(m, n, row))
    BY <1>1, <1>4, <1>5, <1>10, SameSingle DEF w
  <2> QED BY <2>1, <2>2 DEF c, g
<1>11. CASE row >= 8
  <2>1. g = ColumnRow(m, n, row, flag)
    BY <1>2, <1>6, <1>11, Zenon
  <2>2. row \in 8..15
    BY <1>1, <1>11, SMT
  <2>3. Like(S!Columns(m, n, row % 4, row < 12, flag), ColumnRow(m, n, row, flag))
    BY <1>1, <1>4, <1>11, <2>2, SameColumnRow
  <2>4. c = S!Columns(m, n, row % 4, row < 12, flag)
    BY <1>11, TwinColumns DEF c, n, row
  <2> QED BY <2>1, <2>3, <2>4 DEF c, g
<1>12. row \in {1, 2, 3} \cup {0, 4, 5, 6, 7} \/ row >= 8
  BY <1>1, SMT
<1> QED BY <1>7, <1>8, <1>9, <1>10, <1>11, <1>12

(* The machine past the opcode, and how the two read it.                   *)
LEMMA PastOpcode ==
  ASSUME NEW m \in Machine, \E k \in 0..MaxPrefix : At(m, m.pc + k) \notin {16, 17},
         PrefixCount(m) \in {0, 1}
  PROVE  LET i == Skip(m, PrefixCount(m) + 1)
         IN  /\ i \in Machine
             /\ i.a = m.a /\ i.b = m.b /\ i.s = m.s /\ i.cc = m.cc
             /\ \A q : At(i, q) = At(m, q)
             /\ S!Run(m, -1) = S!Perform(i, Opcode(m), Flag(m), -1)
             /\ T!RunSt(m, -1) = T!PerformSt(i, Opcode(m), Flag(m), -1)
<1> DEFINE k == PrefixCount(m)
           i == Skip(m, k + 1)
           op == Opcode(m)
           flag == Flag(m)
           b == At(m, m.pc)
           c == At(m, m.pc + 1)
<1>1. m.pc \in Int /\ k + 1 \in Int
  BY FieldType, WordDef, SMT DEF WordRegs
<1>2. i \in Machine
  BY <1>1, SkipType
<1>3. /\ i.a = m.a /\ i.b = m.b /\ i.s = m.s /\ i.cc = m.cc /\ i.mem = m.mem
  BY MachineFields DEF Skip
<1>4. \A q : At(i, q) = At(m, q)
  BY <1>3 DEF At
<1>5. op \notin {16, 17} /\ op \in Int /\ flag \in {0, 1, 2} /\ (k # 0 => flag # 0)
  BY PrefixType, ByteDef
<1>6. op = At(m, m.pc + k) /\ flag = IF k = 0 THEN 0 ELSE At(m, m.pc + k - 1) - 15
  BY DEF Opcode, Flag
<1>7. /\ S!Run(m, -1) = IF b \notin {16, 17} THEN S!Perform(Skip(m, 1), b, 0, -1)
                        ELSE IF b \in {16, 17} /\ c \in {16, 17} THEN Skip(m, 1)
                        ELSE S!Perform(Skip(m, 2), c, b - 15, -1)
      /\ T!RunSt(m, -1) = IF b \notin {16, 17} THEN T!PerformSt(Skip(m, 1), b, 0, -1)
                          ELSE IF b \in {16, 17} /\ c \in {16, 17} THEN Skip(m, 1)
                          ELSE T!PerformSt(Skip(m, 2), c, b - 15, -1)
  BY SameMemory, Zenon DEF S!Run, T!RunSt, S!Repeated, T!Repeated
<1>8. b \in Int /\ c \in Int
  BY <1>1, MemoryType, ByteDef
<1> HIDE DEF op, flag
<1>9. CASE k = 0
  <2>1. m.pc + k = m.pc /\ k + 1 = 1
    BY <1>1, <1>9
  <2>2. op = b /\ flag = 0 /\ i = Skip(m, 1)
    BY <1>6, <1>9, <2>1
  <2>3. b \notin {16, 17}
    BY <1>5, <2>2
  <2>4. S!Run(m, -1) = S!Perform(i, op, flag, -1) /\ T!RunSt(m, -1) = T!PerformSt(i, op, flag, -1)
    BY <1>7, <2>2, <2>3
  <2> QED BY <1>2, <1>3, <1>4, <2>4 DEF op, flag
<1>10. CASE k = 1
  <2>1. m.pc + k - 1 = m.pc /\ m.pc + k = m.pc + 1 /\ k + 1 = 2
    BY <1>1, <1>10
  <2>2. op = c /\ flag = b - 15 /\ i = Skip(m, 2) /\ flag # 0
    BY <1>5, <1>6, <1>10, <2>1
  <2>3. b \in {16, 17} /\ c \notin {16, 17}
    BY <1>5, <1>8, <2>2
  <2>4. S!Run(m, -1) = S!Perform(i, op, flag, -1) /\ T!RunSt(m, -1) = T!PerformSt(i, op, flag, -1)
    BY <1>7, <2>2, <2>3
  <2> QED BY <1>2, <1>3, <1>4, <2>4 DEF op, flag
<1> QED BY <1>9, <1>10

(* The codes of TFR and EXG that all three take for the same registers.    *)
LEMMA PairedCodes ==
  ASSUME NEW b \in Byte, RegCode[(b \div 16) + 1] # "none", RegCode[(b % 16) + 1] # "none",
         b >= 128 <=> Bit(b, 8) = 1
  PROVE  {b \div 16, b % 16} \subseteq 0..5 \/ {b \div 16, b % 16} \subseteq 8..11
<1> DEFINE hi == b \div 16
           lo == b % 16
<1>1. /\ hi \in 0..15 /\ lo \in 0..15 /\ (b >= 128 <=> hi >= 8)
      /\ (Bit(b, 8) = 1 <=> lo >= 8)
  BY ByteDef, SMT DEF Bit
<1>2. hi \in 0..5 \cup 8..11 /\ lo \in 0..5 \cup 8..11
  BY <1>1, CodeNames
<1> HIDE DEF hi, lo
<1>3. (hi \in 0..5 /\ lo \in 0..5) \/ (hi \in 8..11 /\ lo \in 8..11)
  BY <1>1, <1>2, SMT
<1> QED BY <1>3 DEF hi, lo

(* What the conditions of OldSimulatorsAgree leave. *)
LEMMA CommonLeft ==
  ASSUME cpu \in Machine, \E k \in 0..MaxPrefix : At(cpu, cpu.pc + k) \notin {16, 17},
         ~Otherwise
  PROVE  /\ PrefixCount(cpu) \in {0, 1}
         /\ Common(Behind, Op, Flag(cpu))
<1> DEFINE hi == Next1 \div 16
           lo == Next1 % 16
           flag == Flag(cpu)
           m == Behind
<1>1. /\ ~IllegalInRow6 /\ ~IllegalIndirect /\ ~KeepsV /\ ~SignedBranch /\ ~ComparesMoved
      /\ ~PullsOtherE /\ ~TransferMixed /\ Op \notin {19, 60, 63} /\ ~(PrefixCount(cpu) > 1)
  BY DEF Otherwise
<1>2. PrefixCount(cpu) \in {0, 1} /\ Op \in Byte /\ flag \in {0, 1, 2}
  <2>1. PrefixCount(cpu) \in 0..MaxPrefix /\ Op \in Byte /\ flag \in {0, 1, 2}
    BY PrefixType DEF Op
  <2>2. MaxPrefix \in Nat
    BY PrefixBound, Zenon
  <2> HIDE DEF flag
  <2> QED BY <1>1, <2>1, <2>2, SMT
<1>3. m \in Machine /\ m.cc = cpu.cc /\ m.s = cpu.s /\ (\A q : At(m, q) = At(cpu, q))
  BY <1>2, PastOpcode DEF Behind
<1>4. Next1 \in Byte /\ Next1 = At(m, m.pc)
  <2>1. m.pc \in Int
    BY <1>3, FieldType, WordDef DEF WordRegs
  <2> QED BY <1>3, <2>1, MemoryType DEF Next1
<1> HIDE DEF m, flag, hi, lo
<1>5. Row \in {6, 10, 14} \/ Op \in 48..51 => LegalMode(m)
  BY <1>1, <1>4 DEF IllegalIndirect, HasPostbyte, LegalMode
<1>6. Row = 6 => UnaryOp[Low + 1] # "ill"
  BY <1>1 DEF IllegalInRow6
<1>7. /\ Row \in {0, 4, 5, 6, 7} /\ Low = 13 => "V" \notin m.cc
      /\ Row >= 8 /\ (Low \in {14, 15} \/ (Row >= 12 /\ Low \in {12, 13})) => "V" \notin m.cc
  <2>1. Row >= 12 => Row >= 8
    BY <1>2, ByteDef, SMT DEF Row
  <2> QED BY <1>1, <1>3, <2>1 DEF KeepsV, Word16Move, OneByteOp
<1>8. Row = 2 /\ Low >= 12 => ~({"N", "V"} \subseteq m.cc)
  BY <1>1, <1>3 DEF SignedBranch
<1>9. Row = 10 => ComparesStill(m, Low, 2, flag)
  <2> SUFFICES ASSUME Row = 10, NEW r \in {"x", "y", "u", "s"},
                      (Low = 3 /\ flag = 2 /\ r = "u") \/ (Low = 12 /\ r = <<"x", "y", "s">>[flag + 1]),
                      Moves(m, r)
               PROVE  FALSE
    BY DEF ComparesStill
  <2>1. AutoMode /\ IndexReg(Next1) = r
    BY <1>4 DEF Moves, AutoMode
  <2>2. Compared = r
    <3>1. Compared = CASE Low = 3 /\ flag = 2 -> "u" [] Low = 12 -> <<"x", "y", "s">>[flag + 1]
                       [] OTHER -> "none"
      BY DEF Compared, flag
    <3>2. CASE Low = 3 /\ flag = 2 /\ r = "u"
      <4>1. Low # 12
        BY <3>2
      <4> QED BY <3>1, <3>2, <4>1, Zenon
    <3>3. CASE Low = 12 /\ r = <<"x", "y", "s">>[flag + 1]
      <4>1. Low # 3
        BY <3>3
      <4> QED BY <3>1, <3>3, <4>1, Zenon
    <3> QED BY <3>2, <3>3
  <2>3. Low \in {3, 12}
    OBVIOUS
  <2> QED BY <1>1, <2>1, <2>2, <2>3 DEF ComparesMoved
<1>10. Op = 59 => ("E" \in m.cc <=> At(m, m.s) >= 128)
  BY <1>1, <1>3 DEF PullsOtherE
<1>11. Op \in {30, 31} => {hi, lo} \subseteq 0..5 \/ {hi, lo} \subseteq 8..11
  <2> SUFFICES ASSUME Op \in {30, 31}
               PROVE  {hi, lo} \subseteq 0..5 \/ {hi, lo} \subseteq 8..11
    OBVIOUS
  <2>1. /\ RegCode[(Next1 \div 16) + 1] # "none" /\ RegCode[(Next1 % 16) + 1] # "none"
        /\ Next1 >= 128 <=> Bit(Next1, 8) = 1
    BY <1>1 DEF TransferMixed, Reserved
  <2> QED BY <1>4, <2>1, PairedCodes DEF hi, lo
<1>12. /\ hi = At(m, m.pc) \div 16 /\ lo = At(m, m.pc) % 16
       /\ Low = Op % 16 /\ Row = Op \div 16
  BY <1>4 DEF hi, lo, Low, Row
<1>13. Common(m, Op, flag)
  <2> DEFINE n == Op % 16
             row == Op \div 16
             h == At(m, m.pc) \div 16
             l == At(m, m.pc) % 16
  <2>1. Low = n /\ Row = row /\ hi = h /\ lo = l
    BY <1>12
  <2> HIDE DEF n, row, h, l
  <2>2. row \in {6, 10, 14} \/ Op \in 48..51 => LegalMode(m)
    BY <1>5, <2>1, Zenon
  <2>3. row = 6 => UnaryOp[n + 1] # "ill"
    BY <1>6, <2>1, Zenon
  <2>4. row \in {0, 4, 5, 6, 7} /\ n = 13 => "V" \notin m.cc
    BY <1>7, <2>1, Zenon
  <2>5. row >= 8 /\ (n \in {14, 15} \/ (row >= 12 /\ n \in {12, 13})) => "V" \notin m.cc
    BY <1>7, <2>1, Zenon
  <2>6. row = 2 /\ n >= 12 => ~({"N", "V"} \subseteq m.cc)
    BY <1>8, <2>1, Zenon
  <2>7. row = 10 => ComparesStill(m, n, 2, flag)
    BY <1>9, <2>1, Zenon
  <2>8. Op \in {30, 31} => {h, l} \subseteq 0..5 \/ {h, l} \subseteq 8..11
    BY <1>11, <2>1, Zenon
  <2> QED BY <1>1, <1>10, <2>2, <2>3, <2>4, <2>5, <2>6, <2>7, <2>8, Zenon
          DEF Common, n, row, h, l
<1> QED BY <1>2, <1>13 DEF m, flag

(* What the conditions on v09st.c leave. *)
LEMMA CommonLeftSt ==
  ASSUME cpu \in Machine, \E k \in 0..MaxPrefix : At(cpu, cpu.pc + k) \notin {16, 17},
         ~OtherwiseT
  PROVE  CommonSt(Behind, Op, Flag(cpu))
<1> DEFINE w == cpu.a * cpu.b
           m == Behind
           v == WorkedByte(m, Row)
<1>1. /\ ~Otherwise
      /\ ~(OneByteOp /\ Low = 3)
      /\ ~(OneByteOp /\ Low \in {4, 7} /\ ("H" \in cpu.cc) # (Bit(Worked, 16) = 1))
      /\ ~(OneByteOp /\ Low = 9 /\ ("V" \in cpu.cc) # (Bit(Worked, 128) # Bit(Worked, 64)))
      /\ ~(Op = 25 /\ "C" \in cpu.cc)
      /\ ~(Op = 61 /\ (w >= 256) # (Bit(w, 128) = 1))
  BY DEF OtherwiseT
<1>2. m.cc = cpu.cc /\ m.a = cpu.a /\ m.b = cpu.b
  <2>1. PrefixCount(cpu) \in {0, 1}
    BY <1>1, CommonLeft
  <2> QED BY <2>1, PastOpcode DEF Behind
<1>3. OneByteOp => v = Worked
  <2> SUFFICES ASSUME Row \in {0, 4, 5, 6, 7} PROVE v = Worked
    BY DEF OneByteOp
  <2> DEFINE o == OneByteMode(m, Row)
             x == WorkedAt
  <2>1. v = CASE Row = 4 -> m.a [] Row = 5 -> m.b [] OTHER -> At(o.m, o.ea)
    BY DEF WorkedByte
  <2>2. Worked = CASE Row = 4 -> cpu.a [] Row = 5 -> cpu.b [] OTHER -> At(x.m, x.ea)
    BY DEF Worked
  <2>3. x = CASE Row = 0 -> DIRECT(m) [] Row = 6 -> INDEXED(m) [] OTHER -> EXTENDED(m)
    BY DEF WorkedAt
  <2>4. o = CASE Row = 0 -> DIRECT(m) [] Row = 6 -> INDEXED(m) [] Row = 7 -> EXTENDED(m)
    BY DEF OneByteMode
  <2> HIDE DEF v, x, o, m
  <2>5. CASE Row = 4
    BY <1>2, <2>1, <2>2, <2>5
  <2>6. CASE Row = 5
    <3>1. Row # 4
      BY <2>6
    <3> QED BY <1>2, <2>1, <2>2, <2>6, <3>1
  <2>7. CASE Row \in {0, 6, 7}
    <3>1. Row # 4 /\ Row # 5
      BY <2>7
    <3>2. x = o
      <4>1. CASE Row = 0
        BY <2>3, <2>4, <4>1
      <4>2. CASE Row = 6
        <5>1. Row # 0 /\ Row # 7
          BY <4>2
        <5> QED BY <2>3, <2>4, <4>2, <5>1
      <4>3. CASE Row = 7
        <5>1. Row # 0 /\ Row # 6
          BY <4>3
        <5> QED BY <2>3, <2>4, <4>3, <5>1
      <4> QED BY <2>7, <4>1, <4>2, <4>3
    <3> QED BY <2>1, <2>2, <3>1, <3>2, Zenon
  <2> QED BY <2>5, <2>6, <2>7
<1> HIDE DEF m, v
<1>4. /\ OneByteOp => Low # 3
      /\ OneByteOp /\ Low \in {4, 7} => ("H" \in m.cc <=> Bit(v, 16) = 1)
      /\ OneByteOp /\ Low = 9 => ("V" \in m.cc <=> Bit(v, 128) # Bit(v, 64))
      /\ Op = 25 => "C" \notin m.cc
      /\ Op = 61 => (m.a * m.b >= 256 <=> Bit(m.a * m.b, 128) = 1)
  <2>1. OneByteOp => Low # 3
    BY <1>1
  <2>2. OneByteOp /\ Low \in {4, 7} => ("H" \in m.cc <=> Bit(v, 16) = 1)
    BY <1>1, <1>2, <1>3
  <2>3. OneByteOp /\ Low = 9 => ("V" \in m.cc <=> Bit(v, 128) # Bit(v, 64))
    BY <1>1, <1>2, <1>3
  <2>4. Op = 25 => "C" \notin m.cc
    BY <1>1, <1>2
  <2>5. Op = 61 => (m.a * m.b >= 256 <=> Bit(m.a * m.b, 128) = 1)
    BY <1>1, <1>2
  <2> QED BY <2>1, <2>2, <2>3, <2>4, <2>5
<1>5. Low = Op % 16 /\ Row = Op \div 16
  BY DEF Low, Row
<1>6. CommonSt(m, Op, Flag(cpu))
  <2> DEFINE n == Op % 16
             row == Op \div 16
             one == row \in {0, 4, 5, 6, 7}
             z == WorkedByte(m, row)
  <2>1. n = Low /\ one = OneByteOp /\ z = v
    BY <1>5 DEF OneByteOp, v
  <2> HIDE DEF n, one, z
  <2>2. one => n # 3
    BY <1>4, <2>1, Zenon
  <2>3. one /\ n \in {4, 7} => ("H" \in m.cc <=> Bit(z, 16) = 1)
    BY <1>4, <2>1, Zenon
  <2>4. one /\ n = 9 => ("V" \in m.cc <=> Bit(z, 128) # Bit(z, 64))
    BY <1>4, <2>1, Zenon
  <2> QED BY <1>4, <2>2, <2>3, <2>4, Zenon DEF CommonSt, n, one, z
<1> QED BY <1>6 DEF m

(* Three decoders that were written apart leave the same registers and the *)
(* same memory below romstart, for every opcode, postbyte and operand: each *)
(* function of v09s.c and v09st.c computes what the row of engine.c does,   *)
(* except where OtherwiseS and OtherwiseT say so.                          *)
THEOREM OldSimulatorsAgreeHolds == Spec => []OldSimulatorsAgree
<1>1. WidthInv => OldSimulatorsAgree
  <2> DEFINE i == Behind
             op == Op
             flag == Flag(cpu)
             e == Exec(cpu, 0)
             s == S!Run(cpu, -1)
             t == T!RunSt(cpu, -1)
  <2> SUFFICES ASSUME WidthInv, Decodable(cpu), ~Otherwise
               PROVE  /\ OtherwiseS \/ Ram(s) = Ram(e)
                      /\ OtherwiseT \/ Ram(t) = Ram(e)
    BY DEF OldSimulatorsAgree, OtherwiseS, OtherwiseT
  <2>1. cpu \in Machine
    BY DEF WidthInv
  <2>2. \E k \in 0..MaxPrefix : At(cpu, cpu.pc + k) \notin {16, 17}
    BY DEF Decodable
  <2>3. PrefixCount(cpu) \in {0, 1} /\ Common(i, op, flag)
    BY <2>1, <2>2, CommonLeft
  <2>4. /\ i \in Machine /\ (\A q : At(i, q) = At(cpu, q))
        /\ s = S!Perform(i, op, flag, -1) /\ t = T!PerformSt(i, op, flag, -1)
    BY <2>1, <2>2, <2>3, PastOpcode DEF Behind, Op
  <2>5. op \in Byte /\ flag \in {0, 1, 2}
    BY <2>1, <2>2, PrefixType DEF Op
  <2>6. e = RowOf(i, op, flag)
    BY <2>1, <2>2, ExecRowOf DEF Behind, Op
  <2>7. ASSUME ~OtherwiseT PROVE Ram(t) = Ram(e)
    <3>1. CommonSt(i, op, flag)
      BY <2>1, <2>2, <2>7, CommonLeftSt
    <3> HIDE DEF i, op, flag, e, s, t
    <3>2. Like(t, e)
      BY <2>3, <2>4, <2>5, <2>6, <3>1, SamePerformSt
    <3> QED BY <3>2, LikeRam
  <2>8. ASSUME ~OtherwiseS PROVE Ram(s) = Ram(e)
    <3>1. ~UserStack
      BY <2>8 DEF OtherwiseS
    <3>2. op \in {54, 55} => Bit(At(i, i.pc), 64) = 0
      <4>1. At(i, i.pc) \in Int
        <5>1. i.pc \in Int
          BY <2>4, FieldType, WordDef DEF WordRegs
        <5> QED BY <2>4, <5>1, MemoryType, ByteDef
      <4>2. Bit(At(i, i.pc), 64) \in {0, 1}
        BY <4>1, SMT DEF Bit
      <4> QED BY <3>1, <4>2 DEF UserStack, Next1
    <3> HIDE DEF i, op, flag, e, s, t
    <3>3. Like(s, e)
      BY <2>3, <2>4, <2>5, <2>6, <3>2, SamePerform
    <3> QED BY <3>3, LikeRam
  <2> QED BY <2>7, <2>8
<1> QED BY <1>1, WidthHolds, PTL
=============================================================================
