---------------------------- MODULE EngineProofs ----------------------------
(***************************************************************************)
(* Proofs about the simulator's loop and its debugger, for every machine   *)
(* and every argument of the debugger's commands.                          *)
(***************************************************************************)
EXTENDS EngineInv, FiniteSetTheorems, TLAPS

-----------------------------------------------------------------------------
(* The loop implements Guest. Each step of the loop is a step of Guest or  *)
(* none: no invariant is needed.                                           *)

LEMMA SamePlain == Plain => G!Plain
  BY DEF Plain, G!Plain, Nop, G!Nop, Bra, G!Bra, PollBit, G!PollBit, Poke,
         G!Poke, AndCC, G!AndCC, OrCC, G!OrCC, Lds, G!Lds, Bsr, G!Bsr, Rts,
         G!Rts, Rti, G!Rti, Swi, G!Swi, Swi2, G!Swi2, Branch, G!Branch, Push,
         G!Push, Pull, G!Pull, Op, G!Op, Arg, G!Arg, Next1, G!Next1, Size,
         G!Size, Bits, G!Bits, Lost, G!Lost

LEMMA SameFrames == /\ TakeIrq => G!TakeIrq
                    /\ TakeFirq => G!TakeFirq
                    /\ CwaiPush => G!CwaiPush
                    /\ Puls => G!Puls
                    /\ MInit => G!MInit
  BY DEF TakeIrq, G!TakeIrq, TakeFirq, G!TakeFirq, CwaiPush, G!CwaiPush, Puls,
         G!Puls, MInit, G!MInit, Push, G!Push, Pull, G!Pull, Op, G!Op, Arg,
         G!Arg, Next1, G!Next1, Size, G!Size, Lost, G!Lost

LEMMA SameTimer == /\ \A a : Branch(a) => G!Branch(a)
                   /\ Op = G!Op
                   /\ Next1 = G!Next1
  BY DEF Branch, G!Branch, Op, G!Op, Next1, G!Next1

(* The substituted variables of Guest. *)
Raised == IF at \in {"attn", "clr", "cwaiclr"} \/ (at = "irq2" /\ irq = 1)
            THEN 0 ELSE irq
Mode == CASE at \in {"sync", "store"} -> at
          [] at \in {"cwai", "cwaivec"} -> "cwai"
          [] OTHER -> "run"

LEMMA Quiet ==
  ASSUME UNCHANGED mvars, Raised' = Raised, Mode' = Mode
  PROVE  UNCHANGED G!gvars
  BY DEF G!gvars, G!mvars, mvars, Raised, Mode

LEMMA LoopStep == Loop => [G!GNext]_(G!gvars)
<1> SUFFICES ASSUME Loop PROVE G!GNext \/ UNCHANGED G!gvars
  OBVIOUS
<1> USE DEF Goto
<1>1. CASE Top \/ IrqTest \/ EscapeTest \/ ClearAttention \/ ClearIrq
  <2>1. UNCHANGED mvars /\ Raised' = Raised /\ Mode' = Mode
    BY <1>1 DEF Top, IrqTest, EscapeTest, ClearAttention, ClearIrq, signals,
                Raised, Mode
  <2> QED BY <2>1, Quiet
<1>2. CASE Irq1
  <2>1. irq' = irq /\ at = "irq1" /\ at' = "irq2"
    BY <1>2 DEF Irq1, signals
  <2>2. Mode = "run" /\ Mode' = "run" /\ Raised = irq
        /\ Raised' = (IF irq = 1 THEN 0 ELSE irq)
    BY <2>1 DEF Mode, Raised
  <2>3. CASE irq = 1 /\ "I" \notin iccreg
    <3>1. G!TakeIrq BY <1>2, <2>3, SameFrames DEF Irq1
    <3> QED BY <3>1, <2>2, <2>3 DEF G!GNext, G!Interrupt, Raised, Mode
  <2>4. CASE ~(irq = 1 /\ "I" \notin iccreg)
    <3>1. UNCHANGED mvars BY <1>2, <2>4 DEF Irq1
    <3>2. CASE irq = 1
      BY <3>1, <3>2, <2>2 DEF G!GNext, G!Drop, G!mvars, mvars, Raised, Mode
    <3>3. CASE irq # 1 BY <3>1, <3>3, <2>2, Quiet
    <3> QED BY <3>2, <3>3
  <2> QED BY <2>3, <2>4
<1>3. CASE Irq2
  <2>1. at = "irq2" /\ at' = "attn" /\ Mode = "run" /\ Mode' = "run"
        /\ Raised' = 0 /\ (irq = 2 => Raised = 2)
    BY <1>3 DEF Irq2, Mode, Raised
  <2>2. CASE irq = 2 /\ "F" \notin iccreg
    <3>1. G!TakeFirq BY <1>3, <2>2, SameFrames DEF Irq2
    <3> QED BY <3>1, <2>1, <2>2 DEF G!GNext, G!Interrupt, Raised, Mode
  <2>3. CASE ~(irq = 2 /\ "F" \notin iccreg)
    <3>1. UNCHANGED mvars BY <1>3, <2>3 DEF Irq2
    <3> QED BY <3>1, <2>1 DEF G!GNext, G!Drop, G!mvars, mvars, Raised, Mode
  <2> QED BY <2>2, <2>3
<1> QED BY <1>1, <1>2, <1>3 DEF Loop

LEMMA ExecuteStep == Execute => [G!GNext]_(G!gvars)
<1> SUFFICES ASSUME Execute PROVE G!GNext \/ UNCHANGED G!gvars
  OBVIOUS
<1> USE DEF Goto
<1>1. ASSUME Executing PROVE Mode = "run" /\ Raised = irq
  BY <1>1 DEF Executing, Mode, Raised
<1>2. CASE ExecPlain
  <2>1. G!Plain BY <1>2, SamePlain DEF ExecPlain
  <2>2. Mode = "run" /\ Mode' = "run" /\ Raised' = Raised
    BY <1>1, <1>2 DEF ExecPlain, Mode, Raised, signals
  <2> QED BY <2>1, <2>2 DEF G!GNext, G!Instruction, Mode, Raised
<1>3. CASE ExecPuls
  <2>1. G!Puls /\ UNCHANGED <<machine, tick>>
    BY <1>3, SameFrames DEF ExecPuls
  <2>2. Mode = "run" /\ Mode' = "run" /\ Raised' \in {Raised, 2}
    BY <1>1, <1>3 DEF ExecPuls, Mode, Raised
  <2> QED BY <2>1, <2>2 DEF G!GNext, G!ReturnAll, Mode, Raised
<1>4. CASE ExecTimer
  <2>1. G!Branch(G!Next1) /\ G!Op \in {"start", "stop"}
        /\ UNCHANGED <<machine, tick, cell>>
    BY <1>4, SameTimer DEF ExecTimer
  <2>2. Mode = "run" /\ Mode' \in {"run", "store"} /\ Raised' = Raised
    BY <1>1, <1>4 DEF ExecTimer, Mode, Raised, signals
  <2> QED BY <2>1, <2>2 DEF G!GNext, G!TimerStore, Mode, Raised
<1>5. CASE TimerStore
  <2>1. Mode = "store" /\ Mode' = "run" /\ Raised' = Raised
    BY <1>5 DEF TimerStore, Mode, Raised, signals
  <2>2. tick' = 0 /\ UNCHANGED <<machine, ipcreg, iccreg, isreg, stack, cell>>
    BY <1>5 DEF TimerStore
  <2> QED BY <2>1, <2>2 DEF G!GNext, G!TimerStore, Mode, Raised
<1>6. CASE ExecSync
  <2>1. G!Branch(G!Next1) /\ G!Op = "sync" /\ UNCHANGED <<machine, tick, cell>>
    BY <1>6, SameTimer DEF ExecSync
  <2>2. Mode = "run" /\ Mode' = "sync" /\ Raised' = Raised
    BY <1>1, <1>6 DEF ExecSync, Mode, Raised, signals
  <2> QED BY <2>1, <2>2 DEF G!GNext, G!Wait, Mode, Raised
<1>7. CASE SyncEnds
  <2>1. UNCHANGED mvars /\ Mode = "sync" /\ Mode' = "run" /\ Raised' = Raised
    BY <1>7 DEF SyncEnds, Mode, Raised, signals
  <2> QED BY <2>1 DEF G!GNext, G!Wait, G!mvars, mvars, Mode, Raised
<1>8. CASE ExecCwai
  <2>1. G!CwaiPush BY <1>8, SameFrames DEF ExecCwai
  <2>2. Mode = "run" /\ Mode' = "cwai" /\ Raised' = Raised
    BY <1>1, <1>8 DEF ExecCwai, Mode, Raised, signals
  <2> QED BY <2>1, <2>2 DEF G!GNext, G!Wait, Mode, Raised
<1>9. CASE CwaiVector
  <2>1. Mode = "cwai" /\ Mode' = "run" /\ Raised' = 0
    BY <1>9 DEF CwaiVector, Mode, Raised
  <2>2. /\ ipcreg' \in {machine.irqv, machine.firqv}
        /\ UNCHANGED <<machine, iccreg, isreg, stack, tick, cell>>
    BY <1>9 DEF CwaiVector
  <2> QED BY <2>1, <2>2 DEF G!GNext, G!Wait, Mode, Raised
<1>10. CASE CwaiWait \/ CwaiClearIrq \/ CwaiClearAttention
  <2>1. UNCHANGED mvars /\ Raised' = Raised /\ Mode' = Mode
    BY <1>10 DEF CwaiWait, CwaiClearIrq, CwaiClearAttention, signals, Raised,
                 Mode
  <2> QED BY <2>1, Quiet
<1> QED BY <1>2, <1>3, <1>4, <1>5, <1>6, <1>7, <1>8, <1>9, <1>10 DEF Execute

LEMMA DebuggerStep == DoEscape \/ Command => [G!GNext]_(G!gvars)
<1> SUFFICES ASSUME DoEscape \/ Command PROVE G!GNext \/ UNCHANGED G!gvars
  OBVIOUS
<1> USE DEF Goto
<1>1. CASE DoEscape
  <2>1. UNCHANGED mvars /\ Raised' = Raised /\ Mode' = Mode
    BY <1>1 DEF DoEscape, BpskipTest, Decrement, WalkList, StkTest, Stop,
                LeaveDebugger, SetTerm, signals, Raised, Mode
  <2> QED BY <2>1, Quiet
<1>2. CASE Command /\ ~CommandR
  <2>1. UNCHANGED mvars /\ irq' = irq /\ at = "prompt" /\ at' \in {"leave", "prompt"}
    BY <1>2 DEF Command, CommandS, CommandN, CommandF, CommandC, CommandB,
                CommandD, Leave, Stay
  <2>2. Raised' = Raised /\ Mode' = Mode
    BY <2>1 DEF Raised, Mode
  <2> QED BY <2>1, <2>2, Quiet
<1>3. CASE CommandR
  <2>1. Raised' = Raised /\ Mode' = Mode
    BY <1>3 DEF CommandR, Stay, Raised, Mode
  <2>2. /\ ipcreg' = machine.resetv
        /\ UNCHANGED <<machine, iccreg, isreg, stack, tick, cell>>
    BY <1>3 DEF CommandR
  <2> QED BY <2>1, <2>2 DEF G!GNext, G!Reset, Raised, Mode
<1> QED BY <1>1, <1>2, <1>3

LEMMA SignalStep == TimeHandler \/ Handler => [G!GNext]_(G!gvars)
<1> SUFFICES ASSUME TimeHandler \/ Handler PROVE G!GNext \/ UNCHANGED G!gvars
  OBVIOUS
<1>1. CASE TimeHandler
  <2>1. Mode' = Mode /\ Raised' \in {machine.timerirq, 0}
    BY <1>1 DEF TimeHandler, Raised, Mode
  <2>2. tick' = 1 /\ UNCHANGED <<machine, ipcreg, iccreg, isreg, stack, cell>>
    BY <1>1 DEF TimeHandler
  <2> QED BY <2>1, <2>2 DEF G!GNext, G!Tick, Raised, Mode
<1>2. CASE Handler
  <2>1. UNCHANGED mvars /\ Raised' = Raised /\ Mode' = Mode
    BY <1>2 DEF Handler, Raised, Mode
  <2> QED BY <2>1, Quiet
<1> QED BY <1>1, <1>2

(* EngineImplementsGuest: the debugger and the signal handlers change      *)
(* nothing the program can see but what R resets, and an interrupt comes   *)
(* between two instructions, unmasked, and once for each time irq was set. *)
THEOREM EngineRefinesGuest == Spec => EngineImplementsGuest
<1>1. Init => G!GInit
  <2> SUFFICES ASSUME Init PROVE G!GInit
    OBVIOUS
  <2>1. G!MInit BY SameFrames DEF Init
  <2>2. Raised = 0 /\ Mode = "run" BY DEF Init, Raised, Mode
  <2> QED BY <2>1, <2>2 DEF G!GInit, Raised, Mode
<1>2. [Next]_vars => [G!GNext]_(G!gvars)
  <2>1. CASE UNCHANGED vars
    <3>1. UNCHANGED mvars /\ Raised' = Raised /\ Mode' = Mode
      BY <2>1 DEF vars, signals, Raised, Mode
    <3> QED BY <3>1, Quiet
  <2>2. CASE Next
    BY <2>2, LoopStep, ExecuteStep, DebuggerStep, SignalStep DEF Next, Interpr
  <2> QED BY <2>1, <2>2
<1> QED BY <1>1, <1>2, PTL DEF Spec, EngineImplementsGuest, G!GSpec

-----------------------------------------------------------------------------
(* Types. *)

LEMMA CodeType ==
  ASSUME MachineType, ipcreg \in DOMAIN machine.code
  PROVE  /\ Op \in {"bra", "bsr", "poll"} => Arg \in Int
         /\ Op \in {"andcc", "orcc", "cwai"} => Arg \in SUBSET Bits
  BY MachinesAssumption DEF MachineType, MachineOK, Op, Arg, Bits

LEMMA VectorType ==
  ASSUME MachineType
  PROVE  /\ {machine.irqv, machine.firqv, machine.swiv, machine.swi2v,
             machine.resetv} \subseteq Int
         /\ machine.timerirq \in {1, 2}
         /\ machine.tracing \in BOOLEAN /\ machine.start \in BOOLEAN
  BY MachinesAssumption DEF MachineType, MachineOK

LEMMA PushType ==
  ASSUME MachineType, NEW k \in DOMAIN Size, NEW cc \in SUBSET Bits,
         NEW p \in Int, Push(k, cc, p)
  PROVE  stack' \in Seq(Frames) /\ isreg' \in Int
<1>1. [kind |-> k, cc |-> cc, pc |-> p] \in Frames
  BY DEF Frames
<1>2. stack' = <<[kind |-> k, cc |-> cc, pc |-> p]>> \o stack
  BY DEF Push
<1>3. stack' \in Seq(Frames)
  BY <1>1, <1>2 DEF MachineType
<1>4. Size[k] \in Int /\ isreg' = isreg - Size[k]
  BY DEF Size, Push
<1> QED BY <1>3, <1>4 DEF MachineType

LEMMA PullType ==
  ASSUME MachineType, NEW k \in DOMAIN Size, NEW cc, Pull(k, cc),
         stack # <<>> => cc \in SUBSET Bits
  PROVE  /\ stack' \in Seq(Frames) /\ isreg' \in Int
         /\ ipcreg' \in Int /\ iccreg' \in SUBSET Bits
<1>1. CASE stack # <<>> /\ Head(stack).kind = k
  <2>1. Head(stack) \in Frames /\ Tail(stack) \in Seq(Frames)
    BY <1>1 DEF MachineType
  <2>2. Size[k] \in Int BY DEF Size
  <2>3. Head(stack).pc \in Int BY <2>1 DEF Frames
  <2>4. /\ stack' = Tail(stack) /\ isreg' = isreg + Size[k]
        /\ ipcreg' = Head(stack).pc /\ iccreg' = cc
    BY <1>1 DEF Pull
  <2>5. isreg' \in Int BY <2>2, <2>4 DEF MachineType
  <2> QED BY <1>1, <2>1, <2>3, <2>4, <2>5
<1>2. CASE ~(stack # <<>> /\ Head(stack).kind = k)
  BY <1>2 DEF Pull, MachineType, Lost
<1> QED BY <1>1, <1>2

LEMMA HeadType ==
  ASSUME MachineType, stack # <<>>
  PROVE  Head(stack).cc \in SUBSET Bits
<1>1. Head(stack) \in Frames BY DEF MachineType
<1> QED BY <1>1 DEF Frames

LEMMA BranchType ==
  ASSUME MachineType, NEW a \in Int, Branch(a), UNCHANGED <<machine, tick, cell>>
  PROVE  MachineType'
  BY DEF MachineType, Branch

LEMMA Next1Type == MachineType => Next1 \in Int
  BY DEF MachineType, Next1

LEMMA PlainType ==
  ASSUME MachineType, ipcreg \in DOMAIN machine.code, Plain
  PROVE  MachineType'
<1>0. UNCHANGED <<machine, tick>> BY DEF Plain
<1>1. CASE Nop \/ Bra \/ PollBit \/ Poke
  <2>1. cell' \in {0, 1} BY <1>1 DEF Nop, Bra, PollBit, Poke, MachineType
  <2>2. UNCHANGED <<iccreg, isreg, stack>> /\ ipcreg' \in Int
    BY <1>1, CodeType, Next1Type DEF Nop, Bra, PollBit, Poke, Branch
  <2> QED BY <1>0, <2>1, <2>2 DEF MachineType
<1>2. CASE AndCC \/ OrCC
  <2>1. Arg \in SUBSET Bits BY <1>2, CodeType DEF AndCC, OrCC
  <2>2. iccreg' \in SUBSET Bits BY <1>2, <2>1 DEF AndCC, OrCC, MachineType
  <2> QED BY <1>0, <1>2, <2>2, Next1Type DEF AndCC, OrCC, MachineType
<1>3. CASE Lds
  BY <1>0, <1>3, Next1Type, AddressAssumption DEF Lds, MachineType
<1>4. CASE Bsr
  <2>1. Push("call", {}, Next1) /\ ipcreg' = Arg /\ Arg \in Int
    BY <1>4, CodeType DEF Bsr
  <2>2. stack' \in Seq(Frames) /\ isreg' \in Int
    BY <2>1, PushType, Next1Type DEF Size, Bits
  <2> QED BY <1>0, <1>4, <2>1, <2>2 DEF Bsr, MachineType
<1>5. CASE Rts
  <2>1. Pull("call", iccreg) BY <1>5 DEF Rts
  <2>2. /\ stack' \in Seq(Frames) /\ isreg' \in Int
        /\ ipcreg' \in Int /\ iccreg' \in SUBSET Bits
    BY <2>1, PullType DEF Size, MachineType
  <2> QED BY <1>0, <1>5, <2>2 DEF Rts, MachineType
<1>6. CASE Rti
  <2> DEFINE cc == Head(stack).cc
             k == IF stack # <<>> /\ "E" \in cc THEN "long" ELSE "short"
  <2>1. Pull(k, cc) BY <1>6 DEF Rti
  <2>2. k \in DOMAIN Size BY DEF Size
  <2>3. stack # <<>> => cc \in SUBSET Bits BY HeadType
  <2> HIDE DEF cc, k
  <2>4. /\ stack' \in Seq(Frames) /\ isreg' \in Int
        /\ ipcreg' \in Int /\ iccreg' \in SUBSET Bits
    BY <2>1, <2>2, <2>3, PullType
  <2> QED BY <1>0, <1>6, <2>4 DEF Rti, MachineType
<1>7. CASE Swi \/ Swi2
  <2>1. Push("long", iccreg \cup {"E"}, Next1) BY <1>7 DEF Swi, Swi2
  <2>2. iccreg \cup {"E"} \in SUBSET Bits BY DEF MachineType, Bits
  <2>3. stack' \in Seq(Frames) /\ isreg' \in Int
    BY <2>1, <2>2, PushType, Next1Type DEF Size
  <2>4. ipcreg' \in Int /\ iccreg' \in SUBSET Bits
    BY <1>7, VectorType DEF Swi, Swi2, MachineType, Bits
  <2>5. cell' = cell BY <1>7 DEF Swi, Swi2
  <2> QED BY <1>0, <2>3, <2>4, <2>5 DEF MachineType
<1> QED BY <1>1, <1>2, <1>3, <1>4, <1>5, <1>6, <1>7 DEF Plain

LEMMA PulsType ==
  ASSUME MachineType, Puls, UNCHANGED <<machine, tick>>
  PROVE  MachineType'
<1>1. Pull("long", Head(stack).cc) BY DEF Puls
<1>2. /\ stack' \in Seq(Frames) /\ isreg' \in Int
      /\ ipcreg' \in Int /\ iccreg' \in SUBSET Bits
  BY <1>1, PullType, HeadType DEF Size
<1> QED BY <1>2 DEF Puls, MachineType

LEMMA CwaiType ==
  ASSUME MachineType, ipcreg \in DOMAIN machine.code, CwaiPush
  PROVE  MachineType'
<1>1. stack' \in Seq(Frames) /\ isreg' \in Int
  BY PushType, Next1Type DEF CwaiPush, Size, MachineType
<1>2. iccreg' \in SUBSET Bits
  BY CodeType DEF CwaiPush, MachineType, Bits
<1> QED BY <1>1, <1>2, Next1Type DEF CwaiPush, MachineType

LEMMA InterruptType ==
  ASSUME MachineType, TakeIrq \/ TakeFirq
  PROVE  MachineType'
<1>1. ipcreg \in Int BY DEF MachineType
<1>2. CASE TakeIrq
  <2>1. iccreg \cup {"E"} \in SUBSET Bits BY DEF MachineType, Bits
  <2>2. stack' \in Seq(Frames) /\ isreg' \in Int
    BY <1>1, <1>2, <2>1, PushType DEF TakeIrq, Size
  <2>3. iccreg' \in SUBSET Bits /\ ipcreg' \in Int
    BY <1>2, VectorType DEF TakeIrq, MachineType, Bits
  <2> QED BY <1>2, <2>2, <2>3 DEF TakeIrq, MachineType
<1>3. CASE TakeFirq
  <2>1. iccreg \ {"E"} \in SUBSET Bits BY DEF MachineType, Bits
  <2>2. stack' \in Seq(Frames) /\ isreg' \in Int
    BY <1>1, <1>3, <2>1, PushType DEF TakeFirq, Size
  <2>3. iccreg' \in SUBSET Bits /\ ipcreg' \in Int
    BY <1>3, VectorType DEF TakeFirq, MachineType, Bits
  <2> QED BY <1>3, <2>2, <2>3 DEF TakeFirq, MachineType
<1> QED BY <1>2, <1>3

LEMMA MachineKept == MachineType /\ UNCHANGED mvars => MachineType'
  BY DEF MachineType, mvars

LEMMA LoopType == TypeOK /\ Loop => TypeOK'
<1> SUFFICES ASSUME TypeOK, Loop PROVE TypeOK'
  OBVIOUS
<1> USE DEF Goto
<1>1. MachineType'
  <2>1. UNCHANGED mvars \/ TakeIrq \/ TakeFirq
    BY DEF Loop, Top, IrqTest, Irq1, Irq2, ClearAttention, ClearIrq, EscapeTest
  <2> QED BY <2>1, MachineKept, InterruptType DEF TypeOK
<1>2. SignalType'
  BY DEF TypeOK, SignalType, Loop, Top, IrqTest, Irq1, Irq2, ClearAttention,
         ClearIrq, EscapeTest, signals, timers, Locations
<1>3. DebugType'
  BY DEF TypeOK, DebugType, Loop, Top, IrqTest, Irq1, Irq2, ClearAttention,
         ClearIrq, EscapeTest, debug, history
<1> QED BY <1>1, <1>2, <1>3 DEF TypeOK

LEMMA CountedType ==
  ASSUME DebugType, Counted, UNCHANGED debug
  PROVE  DebugType'
  BY DEF DebugType, Counted, debug

LEMMA ExecuteType == TypeOK /\ Execute => TypeOK'
<1> SUFFICES ASSUME TypeOK, Execute PROVE TypeOK'
  OBVIOUS
<1> USE DEF Goto
<1>1. MachineType'
  <2>1. CASE ExecPlain BY <2>1, PlainType DEF ExecPlain, Executing, TypeOK
  <2>2. CASE ExecPuls BY <2>2, PulsType DEF ExecPuls, TypeOK
  <2>3. CASE ExecTimer \/ ExecSync
    BY <2>3, BranchType, Next1Type DEF ExecTimer, ExecSync, TypeOK
  <2>4. CASE TimerStore BY <2>4 DEF TimerStore, TypeOK, MachineType
  <2>5. CASE ExecCwai BY <2>5, CwaiType DEF ExecCwai, Executing, TypeOK
  <2>6. CASE CwaiVector
    <3>1. ipcreg' \in Int BY <2>6, VectorType DEF CwaiVector, TypeOK
    <3> QED BY <2>6, <3>1 DEF CwaiVector, TypeOK, MachineType
  <2>7. CASE SyncEnds \/ CwaiWait \/ CwaiClearIrq \/ CwaiClearAttention
    BY <2>7, MachineKept DEF SyncEnds, CwaiWait, CwaiClearIrq,
                             CwaiClearAttention, TypeOK
  <2> QED BY <2>1, <2>2, <2>3, <2>4, <2>5, <2>6, <2>7 DEF Execute
<1>2. SignalType'
  <2> USE DEF TypeOK, SignalType, signals, timers, Locations
  <2>1. CASE ExecPlain BY <2>1 DEF ExecPlain
  <2>2. CASE ExecPuls BY <2>2, SMTT(20) DEF ExecPuls
  <2>3. CASE ExecTimer BY <2>3 DEF ExecTimer
  <2>4. CASE TimerStore BY <2>4 DEF TimerStore
  <2>5. CASE ExecSync \/ SyncEnds BY <2>5 DEF ExecSync, SyncEnds
  <2>6. CASE ExecCwai \/ CwaiWait BY <2>6 DEF ExecCwai, CwaiWait
  <2>7. CASE CwaiVector BY <2>7 DEF CwaiVector
  <2>8. CASE CwaiClearIrq \/ CwaiClearAttention
    BY <2>8 DEF CwaiClearIrq, CwaiClearAttention
  <2> QED BY <2>1, <2>2, <2>3, <2>4, <2>5, <2>6, <2>7, <2>8 DEF Execute
<1>3. DebugType'
  <2>1. CASE ExecPlain \/ ExecPuls \/ ExecTimer \/ ExecSync \/ ExecCwai
    BY <2>1, CountedType DEF TypeOK, ExecPlain, ExecPuls, ExecTimer, ExecSync,
                             ExecCwai
  <2>2. CASE UNCHANGED <<debug, history>>
    BY <2>2 DEF TypeOK, DebugType, debug, history
  <2> QED BY <2>1, <2>2 DEF Execute, TimerStore, SyncEnds, CwaiWait, CwaiVector,
                            CwaiClearIrq, CwaiClearAttention
<1> QED BY <1>1, <1>2, <1>3 DEF TypeOK

(* The list of breakpoints. *)
LEMMA BreakType ==
  ASSUME TypeOK, NEW a \in Int, NEW n \in Int
  PROVE  Break(a, n) \in Seq(Breakpoints)
<1>1. [adr |-> a, count |-> n, watch |-> Mem(a)] \in Breakpoints
  BY DEF Breakpoints, Mem, TypeOK, MachineType
<1> QED BY <1>1 DEF Break, TypeOK, DebugType

LEMMA WithoutType ==
  ASSUME NEW S, NEW s \in Seq(S), NEW k \in DOMAIN s
  PROVE  Without(s, k) \in Seq(S)
<1>1. k \in 1..Len(s) /\ Len(s) \in Nat
  OBVIOUS
<1>2. SubSeq(s, 1, k - 1) \in Seq(S) /\ SubSeq(s, k + 1, Len(s)) \in Seq(S)
  BY <1>1
<1> QED BY <1>2 DEF Without

LEMMA PassedType ==
  ASSUME TypeOK, NEW b \in Breakpoints
  PROVE  Passed(b) \in Breakpoints
<1>1. Mem(b.adr) \in {0, 1}
  BY DEF Mem, TypeOK, MachineType
<1>2. b.adr \in Int /\ b.count \in Int
  BY DEF Breakpoints
<1> QED BY <1>1, <1>2 DEF Passed, Breakpoints

LEMMA WalkedType ==
  ASSUME TypeOK, NEW k
  PROVE  /\ Walked(k) \in Seq(Breakpoints)
         /\ DOMAIN Walked(k) = DOMAIN breakpoint
<1>1. breakpoint \in Seq(Breakpoints)
  BY DEF TypeOK, DebugType
<1>2. \A i \in DOMAIN breakpoint : breakpoint[i] \in Breakpoints
  BY <1>1
<1>3. DOMAIN breakpoint = 1..Len(breakpoint) /\ Len(breakpoint) \in Nat
  BY <1>1
<1>4. DOMAIN Walked(k) = DOMAIN breakpoint
  BY DEF Walked
<1>5. \A i \in 1..Len(breakpoint) : Walked(k)[i] \in Breakpoints
  BY <1>2, <1>3, PassedType DEF Walked
<1>6. Walked(k) = [i \in 1..Len(breakpoint) |-> Walked(k)[i]]
  BY <1>3 DEF Walked
<1>7. Walked(k) \in [1..Len(breakpoint) -> Breakpoints]
  BY <1>5, <1>6
<1> QED BY <1>3, <1>4, <1>7

(* A set of naturals has a least element: the intervals below its elements *)
(* are well-founded under inclusion.                                       *)
LEMMA LeastOf ==
  ASSUME NEW T \in SUBSET Nat, T # {}
  PROVE  \E n \in T : \A m \in T : n <= m
<1> DEFINE Below == {1..n : n \in T}
           R == StrictSubsetOrdering(Nat)
<1>1. Below \subseteq FiniteSubsetsOf(Nat) /\ Below # {}
  <2>1. \A n \in T : 1..n \in SUBSET Nat /\ IsFiniteSet(1..n)
    <3> TAKE n \in T
    <3>1. 1 \in Int /\ n \in Int OBVIOUS
    <3>2. IsFiniteSet(1..n) BY <3>1, FS_Interval
    <3> QED BY <3>2
  <2>2. \A s \in Below : s \in FiniteSubsetsOf(Nat)
    BY <2>1 DEF FiniteSubsetsOf
  <2>3. Below # {}
    OBVIOUS
  <2> QED BY <2>2, <2>3
<1>2. IsWellFoundedOn(R, FiniteSubsetsOf(Nat))
  BY FS_StrictSubsetOrderingWellFounded
<1>3. PICK s \in Below : \A t \in Below : <<t, s>> \notin R
  <2> HIDE DEF Below, R
  <2> QED BY <1>1, <1>2, WFMin
<1>4. PICK n \in T : s = 1..n
  OBVIOUS
<1>5. ASSUME NEW m \in T, m < n PROVE FALSE
  <2>1. 1..m \in SUBSET Nat /\ 1..n \in SUBSET Nat
    OBVIOUS
  <2>2. 1..m \subseteq 1..n /\ n \in 1..n /\ n \notin 1..m
    BY <1>5
  <2>3. 1..m # 1..n
    BY <2>2
  <2>4. <<1..m, 1..n>> \in R
    BY <2>1, <2>2, <2>3 DEF StrictSubsetOrdering
  <2> QED BY <1>3, <1>4, <2>4
<1>6. \A m \in T : n <= m
  BY <1>5
<1> QED BY <1>6

LEMMA FirstStopType ==
  ASSUME TypeOK, \E i \in DOMAIN breakpoint : Stops(breakpoint[i])
  PROVE  /\ FirstStop \in DOMAIN breakpoint
         /\ Stops(breakpoint[FirstStop])
         /\ \A j \in 1..FirstStop-1 : ~Stops(breakpoint[j])
<1> DEFINE T == {i \in DOMAIN breakpoint : Stops(breakpoint[i])}
<1>1. DOMAIN breakpoint = 1..Len(breakpoint) /\ Len(breakpoint) \in Nat
  BY DEF TypeOK, DebugType
<1>2. T \in SUBSET Nat /\ T # {}
  BY <1>1
<1>3. PICK n \in T : \A m \in T : n <= m
  <2> HIDE DEF T
  <2> QED BY <1>2, LeastOf
<1>4. \A j \in 1..n-1 : j \in DOMAIN breakpoint /\ ~Stops(breakpoint[j])
  BY <1>1, <1>3
<1> QED BY <1>3, <1>4 DEF FirstStop

LEMMA WalkType ==
  ASSUME TypeOK, WalkList
  PROVE  breakpoint' \in Seq(Breakpoints)
<1>1. CASE \E i \in DOMAIN breakpoint : Stops(breakpoint[i])
  <2>1. FirstStop \in DOMAIN Walked(FirstStop)
    BY <1>1, FirstStopType, WalkedType
  <2>2. Without(Walked(FirstStop), FirstStop) \in Seq(Breakpoints)
    BY <2>1, WalkedType, WithoutType
  <2> QED BY <1>1, <2>2, WalkedType DEF WalkList
<1>2. CASE ~\E i \in DOMAIN breakpoint : Stops(breakpoint[i])
  BY <1>2, WalkedType DEF WalkList
<1> QED BY <1>1, <1>2

LEMMA DoEscapeType == TypeOK /\ DoEscape => TypeOK'
<1> SUFFICES ASSUME TypeOK, DoEscape PROVE TypeOK'
  OBVIOUS
<1> USE DEF Goto
<1>1. MachineType'
  BY MachineKept DEF DoEscape, BpskipTest, Decrement, WalkList, StkTest, Stop,
                     LeaveDebugger, SetTerm, TypeOK
<1>2. SignalType'
  <2> USE DEF TypeOK, SignalType, signals, timers, Locations
  <2>1. CASE BpskipTest \/ Decrement BY <2>1 DEF BpskipTest, Decrement
  <2>2. CASE WalkList BY <2>2 DEF WalkList
  <2>3. CASE StkTest BY <2>3 DEF StkTest
  <2>4. CASE Stop BY <2>4 DEF Stop
  <2>5. CASE LeaveDebugger \/ SetTerm BY <2>5 DEF LeaveDebugger, SetTerm
  <2> QED BY <2>1, <2>2, <2>3, <2>4, <2>5 DEF DoEscape
<1>3. DebugType'
  <2> USE DEF TypeOK, DebugType, debug, history
  <2>1. CASE BpskipTest BY <2>1 DEF BpskipTest
  <2>2. CASE Decrement BY <2>2 DEF Decrement, Less
  <2>3. CASE WalkList
    <3>1. breakpoint' \in Seq(Breakpoints) BY <2>3, WalkType
    <3> QED BY <2>3, <3>1 DEF WalkList
  <2>4. CASE Stop BY <2>4 DEF Stop
  <2>5. CASE StkTest \/ LeaveDebugger \/ SetTerm
    BY <2>5 DEF StkTest, LeaveDebugger, SetTerm
  <2> QED BY <2>1, <2>2, <2>3, <2>4, <2>5 DEF DoEscape
<1> QED BY <1>1, <1>2, <1>3 DEF TypeOK

LEMMA SignalHandlerType == TypeOK /\ (TimeHandler \/ Handler) => TypeOK'
<1> SUFFICES ASSUME TypeOK, TimeHandler \/ Handler PROVE TypeOK'
  OBVIOUS
<1>1. machine.timerirq \in {1, 2}
  BY MachinesAssumption DEF MachineOK, TypeOK, MachineType
<1>2. MachineType'
  BY DEF TimeHandler, Handler, TypeOK, MachineType, mvars
<1>3. SignalType'
  BY <1>1 DEF TimeHandler, Handler, TypeOK, SignalType, timers
<1>4. DebugType'
  BY DEF TimeHandler, Handler, TypeOK, DebugType, debug, history
<1> QED BY <1>2, <1>3, <1>4 DEF TypeOK

LEMMA LeaveType ==
  ASSUME TypeOK, NEW c \in Commands, NEW n \in Int, Leave(c, n)
  PROVE  cmd' \in [c : Commands, n : Int] /\ since' = 0
         /\ pressed' \in {"no", "dec", "yes"} /\ held' \in Int
  BY DEF Leave, TypeOK, DebugType

LEMMA PopType == MachineType => isreg + 2 \in Int
  BY DEF MachineType

LEMMA CommandType == TypeOK /\ Command => TypeOK'
<1> SUFFICES ASSUME TypeOK, Command PROVE TypeOK'
  OBVIOUS
<1> USE DEF Goto
<1>1. MachineType'
  <2>1. CASE CommandR
    BY <2>1, VectorType DEF CommandR, TypeOK, MachineType
  <2>2. CASE UNCHANGED mvars BY <2>2, MachineKept DEF TypeOK
  <2> QED BY <2>1, <2>2 DEF Command, CommandS, CommandN, CommandF, CommandC,
                            CommandB, CommandD, Leave, Stay
<1>2. SignalType'
  <2> USE DEF TypeOK, SignalType, timers, Locations
  <2>1. CASE \E n \in StepCounts : CommandS(n)
    BY <2>1 DEF CommandS, Leave
  <2>2. CASE CommandN BY <2>2 DEF CommandN, Leave, Stay
  <2>3. CASE CommandF BY <2>3 DEF CommandF, Leave
  <2>4. CASE \E n \in ContinueCounts : CommandC(n)
    BY <2>4 DEF CommandC, Leave
  <2>5. CASE \E a \in BreakAdrs \cup Written, n \in BreakCounts : CommandB(a, n)
    BY <2>5 DEF CommandB, Stay
  <2>6. CASE \E k \in DOMAIN breakpoint : CommandD(k)
    BY <2>6 DEF CommandD, Stay
  <2>7. CASE CommandR BY <2>7 DEF CommandR, Stay
  <2> QED BY <2>1, <2>2, <2>3, <2>4, <2>5, <2>6, <2>7 DEF Command
<1>3. DebugType'
  <2>1. ASSUME NEW n \in StepCounts, CommandS(n) PROVE DebugType'
    <3>1. Leave("s", n) /\ "s" \in Commands /\ n \in Nat
      BY <2>1, OperatorAssumption DEF CommandS, Commands
    <3>2. UNCHANGED <<stkskip, breakpoint>> /\ bpskip' = 0 /\ trskip' = n
      BY <2>1 DEF CommandS
    <3> QED BY <3>1, <3>2, LeaveType DEF TypeOK, DebugType
  <2>2. CASE CommandN
    <3>1. Leave("n", 0) /\ "n" \in Commands
      BY <2>2 DEF CommandN, Commands
    <3>2. Break(Next1, -1) \in Seq(Breakpoints)
      <4>1. Next1 \in Int /\ -1 \in Int
        BY Next1Type DEF TypeOK
      <4> QED BY <4>1, BreakType
    <3>3. /\ UNCHANGED <<stkskip, trskip>> /\ bpskip' = -1
          /\ breakpoint' = Break(Next1, -1)
      BY <2>2 DEF CommandN
    <3> QED BY <3>1, <3>2, <3>3, LeaveType DEF TypeOK, DebugType
  <2>3. CASE CommandF
    <3>1. isreg \in Int
      BY DEF TypeOK, MachineType
    <3>2. PICK c \in {"f", "f skipping"} : Leave(c, isreg)
      BY <2>3 DEF CommandF
    <3>3. c \in Commands
      BY DEF Commands
    <3>4. UNCHANGED <<bpskip, trskip, breakpoint>> /\ stkskip' = isreg + 2
      BY <2>3 DEF CommandF
    <3>5. /\ cmd' \in [c : Commands, n : Int] /\ since' = 0
          /\ pressed' \in {"no", "dec", "yes"} /\ held' \in Int
      BY <3>1, <3>2, <3>3 DEF Leave, TypeOK, DebugType
    <3>6. stkskip' \in Int
      <4>1. stkskip' = isreg + 2
        BY <2>3 DEF CommandF
      <4>2. isreg + 2 \in Int
        BY PopType DEF TypeOK
      <4> QED BY <4>1, <4>2
    <3>7. /\ bpskip' \in Int /\ trskip' \in Nat
          /\ breakpoint' \in Seq(Breakpoints)
      BY <3>4 DEF TypeOK, DebugType
    <3> QED BY <3>5, <3>6, <3>7 DEF DebugType
  <2>4. ASSUME NEW n \in ContinueCounts, CommandC(n) PROVE DebugType'
    <3>1. Leave("c", 0) /\ "c" \in Commands /\ n \in Int
      BY <2>4, OperatorAssumption DEF CommandC, Commands
    <3>2. UNCHANGED <<stkskip, trskip, breakpoint>> /\ bpskip' = n
      BY <2>4 DEF CommandC
    <3> QED BY <3>1, <3>2, LeaveType DEF TypeOK, DebugType
  <2>5. ASSUME NEW a \in BreakAdrs \cup Written, NEW n \in BreakCounts,
               CommandB(a, n)
        PROVE  DebugType'
    <3>1. a \in Int /\ n \in Int
      BY OperatorAssumption, AddressAssumption DEF Written
    <3>2. Break(a, n) \in Seq(Breakpoints)
      BY <3>1, BreakType
    <3> QED BY <2>5, <3>2 DEF CommandB, Stay, history, TypeOK, DebugType
  <2>6. ASSUME NEW k \in DOMAIN breakpoint, CommandD(k) PROVE DebugType'
    <3>1. Without(breakpoint, k) \in Seq(Breakpoints)
      BY WithoutType DEF TypeOK, DebugType
    <3> QED BY <2>6, <3>1 DEF CommandD, Stay, history, TypeOK, DebugType
  <2>7. CASE CommandR
    BY <2>7 DEF CommandR, Stay, history, TypeOK, DebugType
  <2> QED BY <2>1, <2>2, <2>3, <2>4, <2>5, <2>6, <2>7 DEF Command
<1> QED BY <1>1, <1>2, <1>3 DEF TypeOK

LEMMA InitType == Init => TypeOK
<1> SUFFICES ASSUME Init PROVE TypeOK
  OBVIOUS
<1>1. MachineType
  BY MachinesAssumption, AddressAssumption
     DEF Init, MInit, MachineOK, MachineType, Bits
<1>2. SignalType
  BY DEF Init, SignalType, Locations
<1>3. DebugType
  BY DEF Init, DebugType, NoCmd, Commands
<1> QED BY <1>1, <1>2, <1>3 DEF TypeOK

LEMMA NextType == TypeOK /\ [Next]_vars => TypeOK'
<1>1. TypeOK /\ UNCHANGED vars => TypeOK'
  BY DEF TypeOK, MachineType, SignalType, DebugType, vars, mvars, signals,
         timers, debug, history
<1> QED BY <1>1, LoopType, ExecuteType, DoEscapeType, CommandType,
           SignalHandlerType DEF Next, Interpr

(* The variables keep to their ranges, whatever program runs, whenever the *)
(* signals come and whatever the operator enters.                          *)
THEOREM EngineTypeCorrect == Spec => []TypeOK
<1> QED BY InitType, NextType, PTL DEF Spec

-----------------------------------------------------------------------------
(* The debugger's variables: TypeOK and SkipInv keep SkipInv, and with it  *)
(* StepInv, BreakStops and FinishInv are kept.                             *)

LEMMA SkipKept == TypeOK /\ SkipInv /\ [Next]_vars => SkipInv'
<1> SUFFICES ASSUME TypeOK, SkipInv, [Next]_vars PROVE SkipInv'
  OBVIOUS
<1> USE DEF SkipInv, InDebugger, Goto
<1>1. CASE Loop
  BY <1>1 DEF Loop, Top, IrqTest, Irq1, Irq2, ClearAttention, ClearIrq,
              EscapeTest, signals, debug, history, TypeOK, SignalType
<1>2. CASE Execute
  BY <1>2 DEF Execute, ExecPlain, ExecPuls, ExecTimer, TimerStore, ExecSync,
              SyncEnds, ExecCwai, CwaiWait, CwaiVector, CwaiClearIrq,
              CwaiClearAttention, Executing, Counted, signals, debug, history
<1>3. CASE DoEscape
  <2> USE DEF signals, debug, history, TypeOK, DebugType
  <2>1. CASE BpskipTest BY <2>1 DEF BpskipTest
  <2>2. CASE Decrement BY <2>2 DEF Decrement
  <2>3. CASE WalkList BY <2>3 DEF WalkList
  <2>4. CASE StkTest BY <2>4 DEF StkTest
  <2>5. CASE Stop BY <2>5 DEF Stop
  <2>6. CASE LeaveDebugger BY <2>6 DEF LeaveDebugger
  <2>7. CASE SetTerm BY <2>7 DEF SetTerm
  <2> QED BY <1>3, <2>1, <2>2, <2>3, <2>4, <2>5, <2>6, <2>7 DEF DoEscape
<1>4. CASE Command
  <2>1. at = "prompt" /\ escape = 1 /\ stkskip = 0 /\ trskip \in Nat
        /\ trskip <= 1
    BY <1>4 DEF Command, CommandS, CommandN, CommandF, CommandC, CommandB,
                CommandD, CommandR, Leave, Stay, TypeOK, DebugType
  <2>2. ASSUME NEW n \in StepCounts, CommandS(n) PROVE SkipInv'
    BY <2>1, <2>2 DEF CommandS, Leave
  <2>3. CASE CommandN BY <2>1, <2>3 DEF CommandN, Leave
  <2>4. CASE CommandF BY <2>1, <2>4 DEF CommandF, Leave
  <2>5. ASSUME NEW n \in ContinueCounts, CommandC(n) PROVE SkipInv'
    BY <2>1, <2>5 DEF CommandC, Leave
  <2>6. CASE at' = "prompt" /\ escape' = 1 /\ UNCHANGED <<stkskip, trskip>>
    BY <2>1, <2>6
  <2>7. ASSUME NEW a, NEW n, CommandB(a, n) PROVE SkipInv'
    BY <2>1, <2>6, <2>7 DEF CommandB, Stay
  <2>8. ASSUME NEW k, CommandD(k) PROVE SkipInv'
    BY <2>1, <2>6, <2>8 DEF CommandD, Stay
  <2>9. CASE CommandR BY <2>1, <2>6, <2>9 DEF CommandR, Stay
  <2> QED BY <1>4, <2>2, <2>3, <2>4, <2>5, <2>7, <2>8, <2>9 DEF Command
<1>5. CASE TimeHandler \/ Handler
  BY <1>5 DEF TimeHandler, Handler, debug, history
<1>6. CASE UNCHANGED vars
  BY <1>6 DEF vars, signals, debug, history
<1> QED BY <1>1, <1>2, <1>3, <1>4, <1>5, <1>6 DEF Next, Interpr

LEMMA StepKept == TypeOK /\ SkipInv /\ StepInv /\ [Next]_vars => StepInv'
<1> SUFFICES ASSUME TypeOK, SkipInv, StepInv, [Next]_vars PROVE StepInv'
  OBVIOUS
<1> USE DEF StepInv, Goto
<1>1. CASE Loop
  BY <1>1 DEF Loop, Top, IrqTest, Irq1, Irq2, ClearAttention, ClearIrq,
              EscapeTest, signals, debug, history
<1>2. CASE Execute
  <2>1. CASE Counted /\ at \in {"exec", "next"}
             /\ at' \notin {"leave", "term", "exec", "prompt", "dec", "list", "stk"}
             /\ UNCHANGED <<trskip, bpskip, stkskip, escape>>
    BY <2>1 DEF Counted, Enough, TypeOK, DebugType
  <2>2. CASE /\ at \in {"store", "sync", "cwai", "cwaivec", "cwaiclr", "cwaiattn"}
             /\ at' \in {"top", "cwaivec", "cwaiclr", "cwaiattn"}
             /\ UNCHANGED <<trskip, bpskip, stkskip, escape, cmd, since>>
    BY <2>2
  <2> QED BY <1>2, <2>1, <2>2
          DEF Execute, ExecPlain, ExecPuls, ExecTimer, TimerStore, ExecSync,
              SyncEnds, ExecCwai, CwaiWait, CwaiVector, CwaiClearIrq,
              CwaiClearAttention, Executing, signals, debug, history
<1>3. CASE DoEscape
  <2> USE DEF signals, debug, history
  <2>1. CASE BpskipTest BY <2>1 DEF BpskipTest
  <2>2. CASE Decrement BY <2>2 DEF Decrement
  <2>3. CASE WalkList BY <2>3 DEF WalkList
  <2>4. CASE StkTest BY <2>4 DEF StkTest
  <2>5. CASE Stop BY <2>5 DEF Stop, TypeOK, DebugType
  <2>6. CASE LeaveDebugger BY <2>6 DEF LeaveDebugger
  <2>7. CASE SetTerm BY <2>7 DEF SetTerm
  <2> QED BY <1>3, <2>1, <2>2, <2>3, <2>4, <2>5, <2>6, <2>7 DEF DoEscape
<1>4. CASE Command
  <2>1. ASSUME NEW n \in StepCounts, CommandS(n) PROVE StepInv'
    BY <2>1, OperatorAssumption DEF CommandS, Leave, SkipInv
  <2>2. CASE cmd'.c # "s"
    BY <2>2
  <2>3. CASE CommandN \/ CommandF \/ \E n \in ContinueCounts : CommandC(n)
    <3>1. CASE CommandN BY <2>2, <3>1 DEF CommandN, Leave
    <3>2. CASE CommandF BY <2>2, <3>2 DEF CommandF, Leave
    <3>3. ASSUME NEW n \in ContinueCounts, CommandC(n) PROVE StepInv'
      BY <2>2, <3>3 DEF CommandC, Leave
    <3> QED BY <2>3, <3>1, <3>2, <3>3
  <2>4. CASE at = "prompt" /\ UNCHANGED <<at, trskip, cmd, since>>
    BY <2>4
  <2> QED BY <1>4, <2>1, <2>3, <2>4
          DEF Command, CommandB, CommandD, CommandR, Stay, history
<1>5. CASE TimeHandler \/ Handler
  BY <1>5 DEF TimeHandler, Handler, debug, history
<1>6. CASE UNCHANGED vars
  BY <1>6 DEF vars, signals, debug, history
<1> QED BY <1>1, <1>2, <1>3, <1>4, <1>5, <1>6 DEF Next, Interpr

(* Behind a walk that nothing stops no entry is due: those that were hit   *)
(* still count, or count no more.                                          *)
LEMMA NothingDue ==
  ASSUME TypeOK, WalkList, at' = "exec"
  PROVE  \A i \in DOMAIN breakpoint' :
           breakpoint'[i].count \in {-1, 0} => ~Hit(breakpoint[i])'
<1>1. /\ breakpoint' = Walked(Len(breakpoint))
      /\ \A i \in DOMAIN breakpoint : ~Stops(breakpoint[i])
  BY DEF WalkList, Goto
<1>2. UNCHANGED <<ipcreg, cell>>
  BY DEF WalkList, mvars
<1>3. DOMAIN breakpoint = 1..Len(breakpoint)
  BY DEF TypeOK, DebugType
<1> TAKE i \in DOMAIN breakpoint'
<1>4. i \in DOMAIN breakpoint /\ breakpoint'[i] = Passed(breakpoint[i])
  BY <1>1, <1>3 DEF Walked
<1>5. breakpoint[i].count \in Int
  <2>1. breakpoint[i] \in Breakpoints
    BY <1>4 DEF TypeOK, DebugType
  <2> QED BY <2>1 DEF Breakpoints
<1>6. CASE Hit(breakpoint[i])
  <2>1. breakpoint[i].count \notin {-1, 0, 1}
    BY <1>1, <1>4, <1>6 DEF Stops
  <2>2. breakpoint'[i].count = IF breakpoint[i].count > 0
                                 THEN breakpoint[i].count - 1
                                 ELSE breakpoint[i].count
    BY <1>4, <1>6 DEF Passed
  <2> QED BY <1>5, <2>1, <2>2
<1>7. CASE ~Hit(breakpoint[i])
  BY <1>2, <1>4, <1>7 DEF Passed, Hit, Mem
<1> QED BY <1>6, <1>7

LEMMA BreakStopsKept ==
  TypeOK /\ SkipInv /\ BreakStops /\ [Next]_vars => BreakStops'
<1> SUFFICES ASSUME TypeOK, SkipInv, BreakStops, [Next]_vars,
                    at' = "exec", bpskip' # 0, since' > 0
             PROVE  \A i \in DOMAIN breakpoint' :
                      breakpoint'[i].count \in {-1, 0} => ~Hit(breakpoint[i])'
  BY DEF BreakStops
<1> USE DEF Goto
<1>1. CASE WalkList
  BY <1>1, NothingDue
<1>2. CASE UNCHANGED <<at, bpskip, since, breakpoint, ipcreg, cell>>
  BY <1>2 DEF BreakStops, Hit, Mem
<1>3. ~Loop
  BY DEF Loop, Top, IrqTest, Irq1, Irq2, ClearAttention, ClearIrq, EscapeTest,
         debug, SkipInv
<1>4. ~Execute
  BY DEF Execute, ExecPlain, ExecPuls, ExecTimer, TimerStore, ExecSync,
         SyncEnds, ExecCwai, CwaiWait, CwaiVector, CwaiClearIrq,
         CwaiClearAttention
<1>5. DoEscape => WalkList
  BY DEF DoEscape, BpskipTest, Decrement, StkTest, Stop, LeaveDebugger, SetTerm,
         debug, history, SkipInv
<1>6. ~Command
  BY DEF Command, CommandS, CommandN, CommandF, CommandC, CommandB, CommandD,
         CommandR, Leave, Stay
<1>7. ~Handler
  BY DEF Handler
<1>8. TimeHandler \/ UNCHANGED vars =>
        UNCHANGED <<at, bpskip, since, breakpoint, ipcreg, cell>>
  BY DEF TimeHandler, vars, mvars, debug, history
<1> QED BY <1>1, <1>2, <1>3, <1>4, <1>5, <1>6, <1>7, <1>8 DEF Next, Interpr

LEMMA FinishKept == TypeOK /\ SkipInv /\ FinishInv /\ [Next]_vars => FinishInv'
<1> SUFFICES ASSUME TypeOK, SkipInv, FinishInv, [Next]_vars PROVE FinishInv'
  OBVIOUS
<1> USE DEF FinishInv, Goto
<1>1. CASE Loop
  <2>1. /\ at \in {"top", "irq", "irq1", "irq2", "attn", "clr", "esc"}
        /\ at' \in {"irq", "esc", "irq1", "irq2", "attn", "clr", "bpskip", "exec"}
        /\ at' = "exec" => at = "esc" /\ escape # 1
        /\ UNCHANGED <<bpskip, escape, trskip, stkskip, cmd, since>>
    BY <1>1 DEF Loop, Top, IrqTest, Irq1, Irq2, ClearAttention, ClearIrq,
                EscapeTest, signals, debug, history
  <2> QED BY <2>1
<1>2. CASE Execute
  <2>1. /\ at \notin {"prompt", "leave", "term", "dec", "list"}
        /\ at' \notin {"leave", "term", "exec", "prompt", "dec", "list"}
        /\ UNCHANGED <<bpskip, escape, trskip, stkskip, cmd>>
    BY <1>2
       DEF Execute, ExecPlain, ExecPuls, ExecTimer, TimerStore, ExecSync,
           SyncEnds, ExecCwai, CwaiWait, CwaiVector, CwaiClearIrq, Counted,
           CwaiClearAttention, Executing, signals, debug, history
  <2> QED BY <2>1
<1>3. CASE DoEscape
  <2> USE DEF mvars, signals, debug, history
  <2>1. CASE BpskipTest BY <2>1 DEF BpskipTest
  <2>2. CASE Decrement BY <2>2 DEF Decrement
  <2>3. CASE WalkList BY <2>3 DEF WalkList
  <2>4. CASE StkTest
    BY <2>4 DEF StkTest, TypeOK, MachineType, DebugType
  <2>5. CASE Stop BY <2>5 DEF Stop, TypeOK, DebugType
  <2>6. CASE LeaveDebugger BY <2>6 DEF LeaveDebugger
  <2>7. CASE SetTerm BY <2>7 DEF SetTerm
  <2> QED BY <1>3, <2>1, <2>2, <2>3, <2>4, <2>5, <2>6, <2>7 DEF DoEscape
<1>4. CASE Command
  <2>1. CASE CommandF
    BY <2>1 DEF CommandF, Leave, SkipInv, TypeOK, MachineType
  <2>2. CASE cmd'.c # "f"
    BY <2>2
  <2>3. CASE at' = "prompt" /\ UNCHANGED cmd
    BY <2>3
  <2> QED BY <1>4, <2>1, <2>2, <2>3
          DEF Command, CommandS, CommandN, CommandC, CommandB, CommandD,
              CommandR, Leave, Stay, history
<1>5. CASE TimeHandler \/ Handler
  BY <1>5 DEF TimeHandler, Handler, mvars, debug, history
<1>6. CASE UNCHANGED vars
  BY <1>6 DEF vars, mvars, signals, debug, history
<1> QED BY <1>1, <1>2, <1>3, <1>4, <1>5, <1>6 DEF Next, Interpr

LEMMA InitDebugger == Init => SkipInv /\ StepInv /\ BreakStops /\ FinishInv
  BY DEF Init, SkipInv, StepInv, BreakStops, FinishInv, InDebugger, NoCmd

(* What the debugger's variables say about each other holds throughout.    *)
THEOREM DebuggerInvariant == Spec => []DebuggerInv
<1>1. Init => DebuggerInv
  BY InitType, InitDebugger DEF DebuggerInv
<1>2. DebuggerInv /\ [Next]_vars => DebuggerInv'
  BY NextType, SkipKept, StepKept, BreakStopsKept, FinishKept DEF DebuggerInv
<1> QED BY <1>1, <1>2, PTL DEF Spec

(* A program that is continued does not get past a breakpoint that is due. *)
THEOREM BreakStopsHolds == Spec => []BreakStops
<1>1. DebuggerInv => BreakStops
  BY DEF DebuggerInv
<1> QED BY <1>1, DebuggerInvariant, PTL

(* s N comes back after N instructions.                                    *)
THEOREM StepsExactHolds == Spec => []StepsExact
<1>1. DebuggerInv => StepsExact
  BY DEF DebuggerInv, TypeOK, DebugType, SkipInv, StepInv, StepsExact
<1> QED BY <1>1, DebuggerInvariant, PTL

-----------------------------------------------------------------------------
(* Frames: a stack whose frames lead back into the plan stays one.         *)

LEMMA SizeIs == \A k \in DOMAIN Size : Size[k] \in Nat
  BY DEF Size

LEMMA StackEmpty ==
  ASSUME NEW m, NEW s \in Int
  PROVE  Framed(m, <<>>, s)
<1>1. <<s>> \in Seq(Int) /\ <<s>>[1] = s /\ Len(<<s>>) = Len(<<>>) + 1
  OBVIOUS
<1>2. 1..Len(<<>>) = {}
  OBVIOUS
<1>3. FramesAt(m, <<>>, <<s>>)
  BY <1>1, <1>2 DEF FramesAt
<1> QED BY <1>1, <1>3 DEF Framed

LEMMA StackPush ==
  ASSUME NEW m, NEW st \in Seq(Frames), NEW s \in Int, Framed(m, st, s),
         NEW f \in Frames, Resumes(m, f, KindAt(st, 1), s)
  PROVE  Framed(m, <<f>> \o st, s - Size[f.kind])
<1> DEFINE new == <<f>> \o st
<1>1. PICK sps \in Seq(Int) : sps[1] = s /\ FramesAt(m, st, sps)
  BY DEF Framed
<1>2. PICK z \in Nat : z = Size[f.kind]
  BY SizeIs DEF Frames
<1> DEFINE q == <<s - z>> \o sps
<1>3. /\ new \in Seq(Frames) /\ Len(new) = Len(st) + 1 /\ new[1] = f
      /\ \A j \in 1..Len(st) : new[j + 1] = st[j]
  OBVIOUS
<1>4. Len(sps) = Len(st) + 1 /\ Len(st) \in Nat
  BY <1>1 DEF FramesAt
<1>5. /\ q \in Seq(Int) /\ Len(q) = Len(sps) + 1 /\ q[1] = s - z
      /\ \A j \in 1..Len(sps) : q[j + 1] = sps[j]
  BY <1>2
<1>6. \A i \in 1..Len(new) : KindAt(new, i + 1) = KindAt(st, i)
  BY <1>3, <1>4 DEF KindAt
<1> HIDE DEF q, new
<1>7. ASSUME NEW i \in 1..Len(new)
      PROVE  /\ q[i + 1] = q[i] + Size[new[i].kind]
             /\ Resumes(m, new[i], KindAt(new, i + 1), q[i + 1])
  <2>1. CASE i = 1
    <3>1. q[2] = s /\ q[1] = s - z /\ new[1] = f
      BY <1>1, <1>3, <1>4, <1>5
    <3>2. q[1] + z = s
      BY <1>2, <3>1
    <3> QED BY <1>2, <1>6, <2>1, <3>1, <3>2
  <2>2. CASE i # 1
    <3>1. PICK j \in 1..Len(st) : i = j + 1
      <4>1. i - 1 \in 1..Len(st) /\ i = (i - 1) + 1
        BY <1>3, <1>4, <2>2
      <4> QED BY <4>1
    <3>2. new[i] = st[j] /\ q[i] = sps[j] /\ q[i + 1] = sps[j + 1]
      <4>1. j \in 1..Len(sps) /\ j + 1 \in 1..Len(sps)
        BY <1>4
      <4>2. q[(j + 1) + 1] = sps[j + 1] /\ q[j + 1] = sps[j]
        BY <1>5, <4>1
      <4> QED BY <1>3, <3>1, <4>2
    <3>3. KindAt(new, i + 1) = KindAt(st, j + 1)
      BY <1>6, <3>1
    <3>4. /\ sps[j + 1] = sps[j] + Size[st[j].kind]
          /\ Resumes(m, st[j], KindAt(st, j + 1), sps[j + 1])
      BY <1>1 DEF FramesAt
    <3> QED BY <3>2, <3>3, <3>4
  <2> QED BY <2>1, <2>2
<1>8. FramesAt(m, new, q)
  BY <1>3, <1>4, <1>5, <1>7 DEF FramesAt
<1> QED BY <1>2, <1>5, <1>8 DEF Framed, new

LEMMA StackPop ==
  ASSUME NEW m, NEW st \in Seq(Frames), NEW s \in Int, Framed(m, st, s),
         st # <<>>
  PROVE  LET f == Head(st)
             b == s + Size[f.kind]
         IN  /\ Resumes(m, f, KindAt(Tail(st), 1), b)
             /\ Framed(m, Tail(st), b)
<1>1. PICK sps \in Seq(Int) : sps[1] = s /\ FramesAt(m, st, sps)
  BY DEF Framed
<1> DEFINE rest == Tail(st)
           q == Tail(sps)
<1>2. /\ rest \in Seq(Frames) /\ Len(rest) = Len(st) - 1 /\ Len(st) \in Nat \ {0}
      /\ \A i \in 1..Len(rest) : rest[i] = st[i + 1]
      /\ Head(st) = st[1]
  OBVIOUS
<1>3. Len(sps) = Len(st) + 1
  BY <1>1 DEF FramesAt
<1>4. /\ q \in Seq(Int) /\ Len(q) = Len(st)
      /\ \A i \in 1..Len(q) : q[i] = sps[i + 1]
  BY <1>2, <1>3
<1>5. \A i \in 1..Len(st) : KindAt(st, i + 1) = KindAt(rest, i)
  BY <1>2 DEF KindAt
<1>6. \A i \in 1..Len(st) :
         /\ sps[i + 1] = sps[i] + Size[st[i].kind]
         /\ Resumes(m, st[i], KindAt(st, i + 1), sps[i + 1])
  BY <1>1 DEF FramesAt
<1> HIDE DEF q, rest
<1>7. ASSUME NEW i \in 1..Len(rest)
      PROVE  /\ q[i + 1] = q[i] + Size[rest[i].kind]
             /\ Resumes(m, rest[i], KindAt(rest, i + 1), q[i + 1])
  <2>1. PICK j \in 1..Len(st) : j = i + 1
    BY <1>2
  <2>2. rest[i] = st[j] /\ q[i] = sps[j] /\ q[i + 1] = sps[j + 1]
    <3>1. i \in 1..Len(q) /\ j \in 1..Len(q)
      BY <1>2, <1>4
    <3>2. q[i] = sps[i + 1] /\ q[j] = sps[j + 1]
      BY <1>4, <3>1
    <3> QED BY <1>2, <2>1, <3>2
  <2>3. KindAt(rest, i + 1) = KindAt(st, j + 1)
    BY <1>5, <2>1
  <2> QED BY <1>6, <2>2, <2>3
<1>8. FramesAt(m, rest, q)
  BY <1>2, <1>4, <1>7 DEF FramesAt
<1>9. q[1] = s + Size[st[1].kind]
  <2>1. 1 \in 1..Len(q) /\ 1 \in 1..Len(st)
    BY <1>2, <1>4
  <2>2. q[1] = sps[1 + 1]
    BY <1>4, <2>1
  <2> QED BY <1>1, <1>6, <2>1, <2>2
<1>10. Framed(m, rest, s + Size[st[1].kind])
  BY <1>4, <1>8, <1>9 DEF Framed
<1>11. Resumes(m, st[1], KindAt(rest, 1), s + Size[st[1].kind])
  BY <1>1, <1>2, <1>5, <1>6
<1> QED BY <1>2, <1>10, <1>11 DEF rest

-----------------------------------------------------------------------------
(* Plans. *)

LEMMA Planned ==
  ASSUME NEW m \in Machines, NEW c \in Plan[m]
  PROVE  Sound(m, c) /\ After(m, Plan[m], c) \subseteq Plan[m]
  BY PlanAssumption DEF Covers

LEMMA SituationIs ==
  ASSUME NEW p, NEW cc, NEW k, NEW s, NEW t
  PROVE  LET c == Situation(p, cc, k, s, t)
         IN  c.pc = p /\ c.cc = cc /\ c.top = k /\ c.sp = s /\ c.told = t
  BY DEF Situation

(* What a plan says of a situation in it, by instruction. *)
LEMMA PlanSound ==
  ASSUME NEW m \in Machines, NEW p, NEW cc, NEW k, NEW s, NEW t,
         Situation(p, cc, k, s, t) \in Plan[m]
  PROVE  /\ p \in DOMAIN m.code /\ s \in 0..SpInit
         /\ m.code[p].op \in Instructions
         /\ m.code[p].op = "rts" => k = "call"
         /\ m.code[p].op = "rti" => k \in {"short", "long"}
         /\ m.code[p].op = "puls" => k = "long"
         /\ m.code[p].op = "cwai" => "E" \in cc /\ ~Polls(m)
         /\ m.code[p].op = "poll" => t = 1
         /\ m.code[p].op \in {"start", "stop"} /\ Polls(m) => "I" \in cc
  BY Planned, SituationIs DEF Sound

LEMMA PlanGoes ==
  ASSUME NEW m \in Machines, NEW p, NEW cc, NEW k, NEW s, NEW t,
         Situation(p, cc, k, s, t) \in Plan[m],
         NEW o, NEW arg, o = m.code[p].op, arg = m.code[p].arg
  PROVE  /\ o \in {"nop", "poke", "sync"} =>
              Situation(p + 1, cc, k, s, t) \in Plan[m]
         /\ o \in {"start", "stop"} =>
              Situation(p + 1, cc, k, s, 0) \in Plan[m]
         /\ o = "bra" => Situation(arg, cc, k, s, t) \in Plan[m]
         /\ o = "poll" => /\ Situation(p + 1, cc, k, s, t) \in Plan[m]
                          /\ Situation(arg, cc, k, s, t) \in Plan[m]
         /\ o = "andcc" => Situation(p + 1, cc \cap arg, k, s, t) \in Plan[m]
         /\ o = "orcc" => Situation(p + 1, cc \cup arg, k, s, t) \in Plan[m]
         /\ o = "lds" => Situation(p + 1, cc, "none", SpInit, t) \in Plan[m]
<1> DEFINE c == Situation(p, cc, k, s, t)
<1>1. Done(m, Plan[m], c) \subseteq Plan[m]
  BY Planned DEF After
<1>2. c.pc = p /\ c.cc = cc /\ c.top = k /\ c.sp = s /\ c.told = t
  BY SituationIs
<1> HIDE DEF c
<1> USE DEF Done, Goes
<1>3. o \in {"nop", "poke", "sync"} => Situation(p + 1, cc, k, s, t) \in Plan[m]
  BY <1>1, <1>2
<1>4. o \in {"start", "stop"} => Situation(p + 1, cc, k, s, 0) \in Plan[m]
  BY <1>1, <1>2
<1>5. o = "bra" => Situation(arg, cc, k, s, t) \in Plan[m]
  BY <1>1, <1>2
<1>6. o = "poll" => /\ Situation(p + 1, cc, k, s, t) \in Plan[m]
                    /\ Situation(arg, cc, k, s, t) \in Plan[m]
  BY <1>1, <1>2
<1>7. o = "andcc" => Situation(p + 1, cc \cap arg, k, s, t) \in Plan[m]
  BY <1>1, <1>2
<1>8. o = "orcc" => Situation(p + 1, cc \cup arg, k, s, t) \in Plan[m]
  BY <1>1, <1>2
<1>9. o = "lds" => Situation(p + 1, cc, "none", SpInit, t) \in Plan[m]
  BY <1>1, <1>2
<1> QED BY <1>3, <1>4, <1>5, <1>6, <1>7, <1>8, <1>9

LEMMA PlanEnters ==
  ASSUME NEW m \in Machines, NEW p, NEW cc, NEW k, NEW s, NEW t,
         Situation(p, cc, k, s, t) \in Plan[m],
         NEW o, NEW arg, o = m.code[p].op, arg = m.code[p].arg
  PROVE  /\ o = "bsr" =>
              /\ Situation(arg, cc, "call", s - Size["call"], t) \in Plan[m]
              /\ \A d \in Plan[m] : m.code[d.pc].op = "rts" =>
                    Situation(p + 1, d.cc, k, s, 0) \in Plan[m]
         /\ o = "swi" =>
              /\ Situation(m.swiv, cc \cup Bits, "long", s - Size["long"], t)
                   \in Plan[m]
              /\ Situation(p + 1, cc \cup {"E"}, k, s, 0) \in Plan[m]
         /\ o = "swi2" =>
              /\ Situation(m.swi2v, cc \cup {"E"}, "long", s - Size["long"], t)
                   \in Plan[m]
              /\ Situation(p + 1, cc \cup {"E"}, k, s, 0) \in Plan[m]
         /\ o = "cwai" =>
              /\ \A v \in CwaiVectors(m) :
                   Situation(v, (cc \cap arg) \cup {"E"}, "long",
                             s - Size["long"], 0) \in Plan[m]
              /\ Situation(p + 1, cc, k, s, 0) \in Plan[m]
<1> DEFINE c == Situation(p, cc, k, s, t)
<1>1. Done(m, Plan[m], c) \subseteq Plan[m]
  BY Planned DEF After
<1>2. c.pc = p /\ c.cc = cc /\ c.top = k /\ c.sp = s /\ c.told = t
  BY SituationIs
<1> HIDE DEF c
<1> USE DEF Done, Enters, Back
<1>3. o = "bsr" =>
        /\ Situation(arg, cc, "call", s - Size["call"], t) \in Plan[m]
        /\ \A d \in Plan[m] : m.code[d.pc].op = "rts" =>
              Situation(p + 1, d.cc, k, s, 0) \in Plan[m]
  BY <1>1, <1>2
<1>4. o = "swi" =>
        /\ Situation(m.swiv, cc \cup Bits, "long", s - Size["long"], t) \in Plan[m]
        /\ Situation(p + 1, cc \cup {"E"}, k, s, 0) \in Plan[m]
  BY <1>1, <1>2
<1>5. o = "swi2" =>
        /\ Situation(m.swi2v, cc \cup {"E"}, "long", s - Size["long"], t)
             \in Plan[m]
        /\ Situation(p + 1, cc \cup {"E"}, k, s, 0) \in Plan[m]
  BY <1>1, <1>2
<1>6. o = "cwai" =>
        /\ \A v \in CwaiVectors(m) :
             Situation(v, (cc \cap arg) \cup {"E"}, "long", s - Size["long"], 0)
               \in Plan[m]
        /\ Situation(p + 1, cc, k, s, 0) \in Plan[m]
  BY <1>1, <1>2
<1> QED BY <1>3, <1>4, <1>5, <1>6

LEMMA PlanInterrupted ==
  ASSUME NEW m \in Machines, NEW p, NEW cc, NEW k, NEW s, NEW t,
         Situation(p, cc, k, s, t) \in Plan[m]
  PROVE  /\ MayIrq(m) /\ "I" \notin cc =>
              /\ Situation(m.irqv, cc \cup {"E", "I"}, "long",
                           s - Size["long"], 1) \in Plan[m]
              /\ Situation(p, cc \cup {"E"}, k, s, 0) \in Plan[m]
         /\ MayFirq(m) /\ "F" \notin cc =>
              /\ Situation(m.firqv, (cc \ {"E"}) \cup {"F", "I"}, "short",
                           s - Size["short"], 0) \in Plan[m]
              /\ Situation(p, cc \ {"E"}, k, s, 0) \in Plan[m]
         /\ Situation(m.resetv, cc, k, s, 0) \in Plan[m]
<1> DEFINE c == Situation(p, cc, k, s, t)
<1>1. /\ Interrupted(m, c) \subseteq Plan[m]
      /\ Resets(m, c) \in Plan[m]
  BY Planned DEF After
<1>2. c.pc = p /\ c.cc = cc /\ c.top = k /\ c.sp = s /\ c.told = t
  BY SituationIs
<1> HIDE DEF c
<1>3. MayIrq(m) /\ "I" \notin cc =>
        {Enters(c, "long", m.irqv, cc \cup {"E", "I"}, 1),
         Back(c, p, cc \cup {"E"})} \subseteq Plan[m]
  BY <1>1, <1>2 DEF Interrupted
<1>4. MayFirq(m) /\ "F" \notin cc =>
        {Enters(c, "short", m.firqv, (cc \ {"E"}) \cup {"F", "I"}, 0),
         Back(c, p, cc \ {"E"})} \subseteq Plan[m]
  BY <1>1, <1>2 DEF Interrupted
<1> QED BY <1>1, <1>2, <1>3, <1>4 DEF Enters, Back, Resets

-----------------------------------------------------------------------------
(* Each instruction and each interrupt keeps to the plan of the program.   *)

LEMMA PushKept ==
  ASSUME MachineType, FramesInv, UNCHANGED machine,
         NEW f \in Frames, Push(f.kind, f.cc, f.pc),
         Resumes(machine, f, KindAt(stack, 1), isreg)
  PROVE  /\ FramesInv'
         /\ KindAt(stack', 1) = f.kind
         /\ isreg' = isreg - Size[f.kind]
<1>1. [kind |-> f.kind, cc |-> f.cc, pc |-> f.pc] = f
  BY DEF Frames
<1>2. stack' = <<f>> \o stack /\ isreg' = isreg - Size[f.kind]
  BY <1>1 DEF Push
<1>3. stack \in Seq(Frames) /\ isreg \in Int
  BY DEF MachineType
<1>4. Framed(machine, <<f>> \o stack, isreg - Size[f.kind])
  BY <1>3, StackPush DEF FramesInv
<1>5. KindAt(<<f>> \o stack, 1) = f.kind
  BY <1>3 DEF KindAt
<1> QED BY <1>2, <1>4, <1>5 DEF FramesInv

(* A return that finds its frame comes to where the frame leads. *)
LEMMA PullKept ==
  ASSUME MachineType, FramesInv, UNCHANGED machine, NEW k, NEW cc,
         KindAt(stack, 1) = k, k # "none", Pull(k, cc)
  PROVE  /\ stack # <<>> /\ Head(stack) \in Frames /\ Head(stack).kind = k
         /\ FramesInv'
         /\ ipcreg' = Head(stack).pc /\ iccreg' = cc
         /\ Resumes(machine, Head(stack), KindAt(stack', 1), isreg')
<1>1. stack \in Seq(Frames) /\ isreg \in Int
  BY DEF MachineType
<1>2. stack # <<>> /\ Head(stack) = stack[1] /\ stack[1].kind = k
      /\ Head(stack) \in Frames
  BY <1>1 DEF KindAt
<1>3. /\ ipcreg' = Head(stack).pc /\ iccreg' = cc
      /\ stack' = Tail(stack) /\ isreg' = isreg + Size[Head(stack).kind]
  BY <1>2 DEF Pull
<1> QED BY <1>1, <1>2, <1>3, StackPop DEF FramesInv

LEMMA FramesUnchanged ==
  ASSUME FramesInv, UNCHANGED <<machine, stack, isreg>>
  PROVE  FramesInv'
  BY DEF FramesInv

LEMMA CallPlanned ==
  ASSUME MachineType, FramesInv, NEW t \in {0, 1},
         Here(ipcreg, t) \in Plan[machine], UNCHANGED machine, Bsr
  PROVE  FramesInv' /\ Here(ipcreg, t)' \in Plan[machine]
<1> DEFINE f == [kind |-> "call", cc |-> {}, pc |-> Next1]
<1>1. machine \in Machines
  BY DEF MachineType
<1>2. f \in Frames /\ f.kind = "call" /\ f.cc = {} /\ f.pc = Next1
  BY Next1Type DEF Frames, Size, Bits
<1>3. Op = "bsr" /\ Push("call", {}, Next1) /\ ipcreg' = Arg /\ iccreg' = iccreg
  BY DEF Bsr
<1>4. /\ Situation(Arg, iccreg, "call", isreg - Size["call"], t) \in Plan[machine]
      /\ \A d \in Plan[machine] : machine.code[d.pc].op = "rts" =>
            Situation(Next1, d.cc, KindAt(stack, 1), isreg, 0) \in Plan[machine]
  BY <1>1, <1>3, PlanEnters DEF Here, Op, Arg, Next1
<1>5. Resumes(machine, f, KindAt(stack, 1), isreg)
  BY <1>2, <1>4 DEF Resumes
<1> HIDE DEF f
<1>6. FramesInv' /\ KindAt(stack', 1) = "call" /\ isreg' = isreg - Size["call"]
  BY <1>2, <1>3, <1>5, PushKept
<1>7. Here(ipcreg, t)' = Situation(ipcreg', iccreg', KindAt(stack', 1), isreg', t)
  BY DEF Here
<1> QED BY <1>3, <1>4, <1>6, <1>7

(* SWI, SWI2, CWAI and IRQ push a long frame, FIRQ a short one, each with  *)
(* the condition codes that lead back.                                     *)
LEMMA RegistersPushed ==
  ASSUME MachineType, FramesInv, UNCHANGED machine,
         NEW k \in {"short", "long"}, NEW cc \in SUBSET Bits, NEW p \in Int,
         Push(k, cc, p), "E" \in cc <=> k = "long",
         Situation(p, cc, KindAt(stack, 1), isreg, 0) \in Plan[machine]
  PROVE  /\ FramesInv'
         /\ KindAt(stack', 1) = k
         /\ isreg' = isreg - Size[k]
<1> DEFINE f == [kind |-> k, cc |-> cc, pc |-> p]
<1>1. f \in Frames /\ f.kind = k /\ f.cc = cc /\ f.pc = p
  BY DEF Frames, Size
<1>2. Resumes(machine, f, KindAt(stack, 1), isreg)
  BY <1>1 DEF Resumes
<1> HIDE DEF f
<1> QED BY <1>1, <1>2, PushKept

LEMMA SwiPlanned ==
  ASSUME MachineType, FramesInv, NEW t \in {0, 1},
         Here(ipcreg, t) \in Plan[machine], UNCHANGED machine, Swi \/ Swi2
  PROVE  FramesInv' /\ Here(ipcreg, t)' \in Plan[machine]
<1>1. machine \in Machines /\ Next1 \in Int
  BY Next1Type DEF MachineType
<1>2. /\ Push("long", iccreg \cup {"E"}, Next1) /\ Op \in {"swi", "swi2"}
      /\ Op = "swi" => iccreg' = iccreg \cup Bits /\ ipcreg' = machine.swiv
      /\ Op = "swi2" => iccreg' = iccreg \cup {"E"} /\ ipcreg' = machine.swi2v
  BY DEF Swi, Swi2
<1>3. iccreg \cup {"E"} \in SUBSET Bits
  BY DEF MachineType, Bits
<1>4. /\ Op = "swi" => Situation(machine.swiv, iccreg \cup Bits, "long",
                                 isreg - Size["long"], t) \in Plan[machine]
      /\ Op = "swi2" => Situation(machine.swi2v, iccreg \cup {"E"}, "long",
                                  isreg - Size["long"], t) \in Plan[machine]
      /\ Situation(Next1, iccreg \cup {"E"}, KindAt(stack, 1), isreg, 0)
           \in Plan[machine]
  BY <1>1, <1>2, PlanEnters DEF Here, Op, Next1
<1>5. FramesInv' /\ KindAt(stack', 1) = "long" /\ isreg' = isreg - Size["long"]
  BY <1>1, <1>2, <1>3, <1>4, RegistersPushed
<1>6. Here(ipcreg, t)' = Situation(ipcreg', iccreg', KindAt(stack', 1), isreg', t)
  BY DEF Here
<1> QED BY <1>2, <1>4, <1>5, <1>6

LEMMA CwaiPlanned ==
  ASSUME MachineType, FramesInv, NEW t \in {0, 1},
         Here(ipcreg, t) \in Plan[machine], CwaiPush
  PROVE  /\ FramesInv'
         /\ ipcreg' \in DOMAIN machine.code
         /\ \A v \in CwaiVectors(machine) : Here(v, 0)' \in Plan[machine]
<1>1. machine \in Machines /\ Next1 \in Int /\ iccreg \in SUBSET Bits
  BY Next1Type DEF MachineType
<1>2. /\ Op = "cwai" /\ Push("long", iccreg, Next1) /\ UNCHANGED machine
      /\ iccreg' = (iccreg \cap Arg) \cup {"E"} /\ ipcreg' = Next1
  BY DEF CwaiPush
<1>3. "E" \in iccreg
  BY <1>1, <1>2, PlanSound DEF Here, Op
<1>4. /\ \A v \in CwaiVectors(machine) :
           Situation(v, (iccreg \cap Arg) \cup {"E"}, "long",
                     isreg - Size["long"], 0) \in Plan[machine]
      /\ Situation(Next1, iccreg, KindAt(stack, 1), isreg, 0) \in Plan[machine]
  BY <1>1, <1>2, PlanEnters DEF Here, Op, Arg, Next1
<1>5. FramesInv' /\ KindAt(stack', 1) = "long" /\ isreg' = isreg - Size["long"]
  BY <1>1, <1>2, <1>3, <1>4, RegistersPushed
<1>6. Next1 \in DOMAIN machine.code
  BY <1>1, <1>4, PlanSound
<1>7. \A v : Here(v, 0)' = Situation(v, iccreg', KindAt(stack', 1), isreg', 0)
  BY DEF Here
<1> QED BY <1>2, <1>4, <1>5, <1>6, <1>7

LEMMA InterruptPlanned ==
  ASSUME MachineType, FramesInv, NEW t \in {0, 1},
         Here(ipcreg, t) \in Plan[machine]
  PROVE  /\ TakeIrq /\ MayIrq(machine) =>
              FramesInv' /\ Here(ipcreg, 1)' \in Plan[machine]
         /\ TakeFirq /\ MayFirq(machine) =>
              FramesInv' /\ Here(ipcreg, 0)' \in Plan[machine]
<1>1. machine \in Machines /\ ipcreg \in Int /\ iccreg \in SUBSET Bits
  BY DEF MachineType
<1>2. iccreg \cup {"E"} \in SUBSET Bits /\ iccreg \ {"E"} \in SUBSET Bits
  BY <1>1 DEF Bits
<1>3. \A u : Here(ipcreg, u)'
               = Situation(ipcreg', iccreg', KindAt(stack', 1), isreg', u)
  BY DEF Here
<1>4. ASSUME TakeIrq, MayIrq(machine)
      PROVE  FramesInv' /\ Here(ipcreg, 1)' \in Plan[machine]
  <2>1. /\ "I" \notin iccreg /\ Push("long", iccreg \cup {"E"}, ipcreg)
        /\ iccreg' = iccreg \cup {"E", "I"} /\ ipcreg' = machine.irqv
        /\ UNCHANGED machine
    BY <1>4 DEF TakeIrq
  <2>2. /\ Situation(machine.irqv, iccreg \cup {"E", "I"}, "long",
                     isreg - Size["long"], 1) \in Plan[machine]
        /\ Situation(ipcreg, iccreg \cup {"E"}, KindAt(stack, 1), isreg, 0)
             \in Plan[machine]
    BY <1>1, <1>4, <2>1, PlanInterrupted DEF Here
  <2>3. FramesInv' /\ KindAt(stack', 1) = "long" /\ isreg' = isreg - Size["long"]
    BY <1>1, <1>2, <2>1, <2>2, RegistersPushed
  <2> QED BY <1>3, <2>1, <2>2, <2>3
<1>5. ASSUME TakeFirq, MayFirq(machine)
      PROVE  FramesInv' /\ Here(ipcreg, 0)' \in Plan[machine]
  <2>1. /\ "F" \notin iccreg /\ Push("short", iccreg \ {"E"}, ipcreg)
        /\ iccreg' = (iccreg \ {"E"}) \cup {"F", "I"} /\ ipcreg' = machine.firqv
        /\ UNCHANGED machine
    BY <1>5 DEF TakeFirq
  <2>2. /\ Situation(machine.firqv, (iccreg \ {"E"}) \cup {"F", "I"}, "short",
                     isreg - Size["short"], 0) \in Plan[machine]
        /\ Situation(ipcreg, iccreg \ {"E"}, KindAt(stack, 1), isreg, 0)
             \in Plan[machine]
    BY <1>1, <1>5, <2>1, PlanInterrupted DEF Here
  <2>3. FramesInv' /\ KindAt(stack', 1) = "short" /\ isreg' = isreg - Size["short"]
    BY <1>1, <1>2, <2>1, <2>2, RegistersPushed
  <2> QED BY <1>3, <2>1, <2>2, <2>3
<1> QED BY <1>4, <1>5

LEMMA ReturnPlanned ==
  ASSUME MachineType, FramesInv, NEW t \in {0, 1},
         Here(ipcreg, t) \in Plan[machine], UNCHANGED machine, Rts \/ Rti \/ Puls
  PROVE  FramesInv' /\ Here(ipcreg, 0)' \in Plan[machine]
<1>1. machine \in Machines
  BY DEF MachineType
<1>2. Here(ipcreg, 0)' = Situation(ipcreg', iccreg', KindAt(stack', 1), isreg', 0)
  BY DEF Here
<1>3. /\ Op = "rts" => KindAt(stack, 1) = "call"
      /\ Op = "rti" => KindAt(stack, 1) \in {"short", "long"}
      /\ Op = "puls" => KindAt(stack, 1) = "long"
  BY <1>1, PlanSound DEF Here, Op
<1>4. CASE Rts
  <2>1. Op = "rts" /\ Pull("call", iccreg)
    BY <1>4 DEF Rts
  <2>2. /\ FramesInv' /\ Head(stack).kind = "call"
        /\ ipcreg' = Head(stack).pc /\ iccreg' = iccreg
        /\ Resumes(machine, Head(stack), KindAt(stack', 1), isreg')
    BY <1>3, <2>1, PullKept
  <2>3. Here(ipcreg, t).pc = ipcreg /\ Here(ipcreg, t).cc = iccreg
    BY DEF Here, Situation
  <2>4. machine.code[ipcreg].op = "rts"
    BY <2>1 DEF Op
  <2> QED BY <1>2, <2>2, <2>3, <2>4 DEF Resumes
<1>5. CASE Rti \/ Puls
  <2>1. PICK k \in {"short", "long"} :
          Pull(k, Head(stack).cc) /\ KindAt(stack, 1) = k
    <3>1. CASE Puls
      BY <1>3, <3>1 DEF Puls
    <3>2. CASE Rti
      <4>1. stack \in Seq(Frames) /\ KindAt(stack, 1) \in {"short", "long"}
        BY <1>3, <3>2 DEF Rti, MachineType
      <4>2. stack # <<>> /\ Head(stack).kind = KindAt(stack, 1)
        BY <4>1 DEF KindAt
      <4>3. Resumes(machine, Head(stack), KindAt(Tail(stack), 1),
                    isreg + Size[Head(stack).kind])
        BY <4>1, <4>2, StackPop DEF FramesInv, MachineType
      <4>4. "E" \in Head(stack).cc <=> Head(stack).kind = "long"
        BY <4>1, <4>2, <4>3 DEF Resumes
      <4>5. Pull(IF stack # <<>> /\ "E" \in Head(stack).cc THEN "long" ELSE "short",
                 Head(stack).cc)
        BY <3>2 DEF Rti
      <4>6. CASE Head(stack).kind = "long"
        <5>1. Pull("long", Head(stack).cc)
          BY <4>2, <4>4, <4>5, <4>6
        <5> QED BY <4>2, <4>6, <5>1
      <4>7. CASE Head(stack).kind = "short"
        <5>1. Pull("short", Head(stack).cc)
          BY <4>2, <4>4, <4>5, <4>7
        <5> QED BY <4>2, <4>7, <5>1
      <4> QED BY <4>1, <4>2, <4>6, <4>7
    <3> QED BY <1>5, <3>1, <3>2
  <2>2. /\ FramesInv' /\ Head(stack).kind = k
        /\ ipcreg' = Head(stack).pc /\ iccreg' = Head(stack).cc
        /\ Resumes(machine, Head(stack), KindAt(stack', 1), isreg')
    BY <2>1, PullKept
  <2> QED BY <1>2, <2>2 DEF Resumes
<1> QED BY <1>4, <1>5

(* An instruction that has no part in the interrupt signals keeps to the   *)
(* plan.                                                                   *)
LEMMA PlainPlanned ==
  ASSUME MachineType, FramesInv, NEW t \in {0, 1},
         Here(ipcreg, t) \in Plan[machine], Plain
  PROVE  /\ FramesInv'
         /\ \E u \in {0, t} : Here(ipcreg, u)' \in Plan[machine]
<1>1. machine \in Machines /\ UNCHANGED machine
  BY DEF MachineType, Plain
<1>2. \A u : Here(ipcreg, u)'
               = Situation(ipcreg', iccreg', KindAt(stack', 1), isreg', u)
  BY DEF Here
<1>3. CASE Nop \/ Bra \/ PollBit \/ Poke
  <2>1. UNCHANGED <<iccreg, isreg, stack>>
    BY <1>3 DEF Nop, Bra, PollBit, Poke, Branch
  <2>2. Situation(ipcreg', iccreg, KindAt(stack, 1), isreg, t) \in Plan[machine]
    BY <1>1, <1>3, PlanGoes
       DEF Nop, Bra, PollBit, Poke, Branch, Here, Op, Arg, Next1
  <2> QED BY <1>1, <1>2, <2>1, <2>2, FramesUnchanged
<1>4. CASE AndCC \/ OrCC
  <2>1. UNCHANGED <<isreg, stack>>
    BY <1>4 DEF AndCC, OrCC
  <2>2. Situation(ipcreg', iccreg', KindAt(stack, 1), isreg, t) \in Plan[machine]
    BY <1>1, <1>4, PlanGoes DEF AndCC, OrCC, Here, Op, Arg, Next1
  <2> QED BY <1>1, <1>2, <2>1, <2>2, FramesUnchanged
<1>5. CASE Lds
  <2>1. stack' = <<>> /\ isreg' = SpInit /\ UNCHANGED iccreg
    BY <1>5 DEF Lds
  <2>2. KindAt(stack', 1) = "none"
    BY <2>1 DEF KindAt
  <2>3. Situation(ipcreg', iccreg, "none", SpInit, t) \in Plan[machine]
    BY <1>1, <1>5, PlanGoes DEF Lds, Here, Op, Next1
  <2>4. FramesInv'
    BY <1>1, <2>1, StackEmpty, AddressAssumption DEF FramesInv
  <2> QED BY <1>2, <2>1, <2>2, <2>3, <2>4
<1>6. CASE Bsr \/ Swi \/ Swi2
  BY <1>1, <1>6, CallPlanned, SwiPlanned
<1>7. CASE Rts \/ Rti
  BY <1>1, <1>7, ReturnPlanned
<1> QED BY <1>3, <1>4, <1>5, <1>6, <1>7 DEF Plain

-----------------------------------------------------------------------------
(* Each step of the loop, of the debugger and of the handlers keeps to it. *)

LEMMA PunctualSame ==
  ASSUME UNCHANGED machine
  PROVE  /\ Punctual' = Punctual
         /\ MayIrq(machine') = MayIrq(machine)
         /\ MayFirq(machine') = MayFirq(machine)
         /\ Ticks(machine') = Ticks(machine)
  BY DEF Punctual

LEMMA PlanInitial == Init => PlanInv
<1> SUFFICES ASSUME Init PROVE PlanInv
  OBVIOUS
<1>1. machine \in Machines /\ stack = <<>> /\ isreg = SpInit /\ iccreg = {}
      /\ ipcreg = machine.resetv /\ tick = 0
  BY DEF Init, MInit
<1>2. FramesInv
  BY <1>1, StackEmpty, AddressAssumption DEF FramesInv
<1>3. PlaceInv
  <2>1. Start(machine) \in Plan[machine]
    BY <1>1, PlanAssumption DEF Covers
  <2>2. KindAt(stack, 1) = "none"
    BY <1>1 DEF KindAt
  <2>3. Here(ipcreg, 0) \in Plan[machine]
    BY <1>1, <2>1, <2>2 DEF Start, Here
  <2> QED BY <1>1, <2>3 DEF PlaceInv, Init
<1>4. IrqInv
  <2>1. timeron => machine.timer = 0
    BY Zenon DEF Init
  <2> QED BY <2>1 DEF Init, IrqInv, Ticks
<1> QED BY <1>2, <1>3, <1>4 DEF PlanInv

(* Where a step goes that the plan follows. *)
LEMMA Placed ==
  ASSUME UNCHANGED machine, at' \notin {"cwai", "cwaivec"},
         NEW u \in {0, 1}, Here(ipcreg, u)' \in Plan[machine],
         Punctual => u <= tick', at' = "store" => u = 0
  PROVE  PlaceInv'
<1>1. Punctual' = Punctual
  BY DEF Punctual
<1> QED BY <1>1 DEF PlaceInv

LEMMA Standing ==
  ASSUME PlanInv, UNCHANGED mvars, at' # "store",
         at' \in {"cwai", "cwaivec"} <=> at \in {"cwai", "cwaivec"}
  PROVE  FramesInv' /\ PlaceInv'
<1>1. FramesInv'
  BY FramesUnchanged DEF PlanInv, mvars
<1>2. UNCHANGED <<machine, ipcreg, tick>> /\ \A p, t : Here(p, t)' = Here(p, t)
  BY DEF mvars, Here
<1>3. CASE at \in {"cwai", "cwaivec"}
  <2>1. at' \in {"cwai", "cwaivec"}
    BY <1>3
  <2> QED BY <1>1, <1>2, <1>3, <2>1 DEF PlanInv, PlaceInv
<1>4. CASE at \notin {"cwai", "cwaivec"}
  <2>1. PICK t \in {0, 1} : Here(ipcreg, t) \in Plan[machine]
                            /\ (Punctual => t <= tick)
    BY <1>4 DEF PlanInv, PlaceInv
  <2>2. at' \notin {"cwai", "cwaivec"}
    BY <1>4
  <2>3. Here(ipcreg, t)' \in Plan[machine]
    BY <1>2, <2>1
  <2> QED BY <1>1, <1>2, <2>1, <2>2, <2>3, Placed
<1> QED BY <1>1, <1>3, <1>4

LEMMA LoopPlace ==
  ASSUME TypeOK, PlanInv, Loop
  PROVE  FramesInv' /\ PlaceInv'
<1> USE DEF Goto
<1>1. CASE Top \/ IrqTest \/ ClearAttention \/ ClearIrq \/ EscapeTest
  <2>1. /\ UNCHANGED mvars /\ at' # "store"
        /\ at \notin {"cwai", "cwaivec"} /\ at' \notin {"cwai", "cwaivec"}
    BY <1>1 DEF Top, IrqTest, ClearAttention, ClearIrq, EscapeTest
  <2> QED BY <2>1, Standing
<1>2. CASE Irq1 \/ Irq2
  <2>1. at \in {"irq1", "irq2"} /\ at' \in {"irq2", "attn"}
    BY <1>2 DEF Irq1, Irq2
  <2>2. CASE UNCHANGED mvars
    BY <2>1, <2>2, Standing
  <2>3. PICK t \in {0, 1} : Here(ipcreg, t) \in Plan[machine]
    BY <2>1 DEF PlanInv, PlaceInv
  <2>4. MachineType /\ FramesInv
    BY DEF TypeOK, PlanInv
  <2>5. CASE at = "irq1" /\ irq = 1 /\ TakeIrq
    <3>1. MayIrq(machine)
      BY <2>5 DEF PlanInv, IrqInv
    <3>2. FramesInv' /\ Here(ipcreg, 1)' \in Plan[machine]
      BY <2>3, <2>4, <2>5, <3>1, InterruptPlanned
    <3>3. "I" \notin iccreg /\ UNCHANGED <<machine, tick>>
      BY <2>5 DEF TakeIrq
    <3>4. Punctual => 1 <= tick'
      BY <2>5, <3>3, <2>4 DEF PlanInv, IrqInv, MachineType
    <3> QED BY <2>1, <3>2, <3>3, <3>4, Placed
  <2>6. CASE irq = 2 /\ TakeFirq
    <3>1. MayFirq(machine)
      BY <2>6 DEF PlanInv, IrqInv
    <3>2. FramesInv' /\ Here(ipcreg, 0)' \in Plan[machine]
      BY <2>3, <2>4, <2>6, <3>1, InterruptPlanned
    <3>3. UNCHANGED <<machine, tick>>
      BY <2>6 DEF TakeFirq
    <3> QED BY <2>1, <2>4, <3>2, <3>3, Placed DEF MachineType
  <2> QED BY <1>2, <2>2, <2>5, <2>6 DEF Irq1, Irq2
<1> QED BY <1>1, <1>2 DEF Loop

LEMMA ExecutePlace ==
  ASSUME TypeOK, PlanInv, Execute
  PROVE  FramesInv' /\ PlaceInv'
<1> USE DEF Goto
<1>0. MachineType /\ FramesInv /\ machine \in Machines /\ tick \in {0, 1}
  BY DEF TypeOK, PlanInv, MachineType
<1>1. CASE Executing /\ (ExecPlain \/ ExecPuls \/ ExecTimer \/ ExecSync \/ ExecCwai)
  <2>1. at \in {"exec", "next"}
    BY <1>1 DEF Executing
  <2>2. PICK t \in {0, 1} : Here(ipcreg, t) \in Plan[machine]
                            /\ (Punctual => t <= tick)
    BY <2>1 DEF PlanInv, PlaceInv
  <2>3. \A u : Here(ipcreg, u)'
                 = Situation(ipcreg', iccreg', KindAt(stack', 1), isreg', u)
    BY DEF Here
  <2>4. CASE ExecPlain
    <3>1. Plain /\ at' = "top" /\ UNCHANGED <<machine, tick>>
      BY <2>4 DEF ExecPlain, Plain
    <3>2. FramesInv' /\ \E u \in {0, t} : Here(ipcreg, u)' \in Plan[machine]
      BY <1>0, <2>2, <3>1, PlainPlanned
    <3> QED BY <1>0, <2>2, <3>1, <3>2, Placed
  <2>5. CASE ExecPuls
    <3>1. Puls /\ at' \in {"top", "next"} /\ UNCHANGED <<machine, tick>>
      BY <2>5 DEF ExecPuls
    <3>2. FramesInv' /\ Here(ipcreg, 0)' \in Plan[machine]
      BY <1>0, <2>2, <3>1, ReturnPlanned
    <3> QED BY <1>0, <3>1, <3>2, Placed
  <2>6. CASE ExecTimer
    <3>1. Branch(Next1) /\ Op \in {"start", "stop"} /\ at' \in {"top", "store"}
          /\ UNCHANGED <<machine, tick>>
      BY <2>6 DEF ExecTimer
    <3>2. Situation(ipcreg', iccreg, KindAt(stack, 1), isreg, 0) \in Plan[machine]
      BY <1>0, <2>2, <3>1, PlanGoes DEF Branch, Here, Op, Next1
    <3>3. Here(ipcreg, 0)' \in Plan[machine]
      BY <2>3, <3>1, <3>2 DEF Branch
    <3>4. FramesInv'
      BY <1>0, <3>1, FramesUnchanged DEF Branch
    <3> QED BY <1>0, <3>1, <3>3, <3>4, Placed
  <2>7. CASE ExecSync
    <3>1. Branch(Next1) /\ Op = "sync" /\ at' = "sync"
          /\ UNCHANGED <<machine, tick>>
      BY <2>7 DEF ExecSync
    <3>2. Situation(ipcreg', iccreg, KindAt(stack, 1), isreg, t) \in Plan[machine]
      BY <1>0, <2>2, <3>1, PlanGoes DEF Branch, Here, Op, Next1
    <3>3. Here(ipcreg, t)' \in Plan[machine]
      BY <2>3, <3>1, <3>2 DEF Branch
    <3>4. FramesInv'
      BY <1>0, <3>1, FramesUnchanged DEF Branch
    <3> QED BY <1>0, <2>2, <3>1, <3>3, <3>4, Placed
  <2>8. CASE ExecCwai
    <3>1. CwaiPush /\ at' = "cwai"
      BY <2>8 DEF ExecCwai
    <3>2. UNCHANGED machine
      BY <3>1 DEF CwaiPush
    <3>3. /\ FramesInv' /\ ipcreg' \in DOMAIN machine.code
          /\ \A v \in CwaiVectors(machine) : Here(v, 0)' \in Plan[machine]
      BY <1>0, <2>2, <3>1, CwaiPlanned
    <3> QED BY <3>1, <3>2, <3>3 DEF PlaceInv
  <2> QED BY <1>1, <2>4, <2>5, <2>6, <2>7, <2>8
<1>2. CASE TimerStore
  <2>1. /\ at = "store" /\ at' = "top"
        /\ UNCHANGED <<machine, ipcreg, iccreg, isreg, stack>> /\ tick' = 0
    BY <1>2 DEF TimerStore
  <2>2. Here(ipcreg, 0) \in Plan[machine]
    BY <2>1 DEF PlanInv, PlaceInv
  <2>3. Here(ipcreg, 0)' \in Plan[machine]
    BY <2>1, <2>2 DEF Here
  <2> QED BY <1>0, <2>1, <2>3, Placed, FramesUnchanged
<1>3. CASE SyncEnds \/ CwaiWait \/ CwaiClearIrq \/ CwaiClearAttention
  <2>1. /\ UNCHANGED mvars /\ at' # "store"
        /\ at' \in {"cwai", "cwaivec"} <=> at \in {"cwai", "cwaivec"}
    BY <1>3 DEF SyncEnds, CwaiWait, CwaiClearIrq, CwaiClearAttention
  <2> QED BY <2>1, Standing
<1>4. CASE CwaiVector
  <2>1. /\ at = "cwaivec" /\ at' = "cwaiclr"
        /\ ipcreg' = IF irq = 1 THEN machine.irqv ELSE machine.firqv
        /\ UNCHANGED <<machine, iccreg, isreg, stack, tick>>
    BY <1>4 DEF CwaiVector
  <2>2. ipcreg' \in CwaiVectors(machine)
    BY <2>1 DEF PlanInv, IrqInv, CwaiVectors
  <2>3. Here(ipcreg', 0) \in Plan[machine]
    BY <2>1, <2>2 DEF PlanInv, PlaceInv
  <2>4. Here(ipcreg, 0)' \in Plan[machine]
    BY <2>1, <2>3 DEF Here
  <2> QED BY <1>0, <2>1, <2>4, Placed, FramesUnchanged
<1>5. ExecPlain \/ ExecPuls \/ ExecTimer \/ ExecSync \/ ExecCwai => Executing
  BY DEF ExecPlain, ExecPuls, ExecTimer, ExecSync, ExecCwai
<1> QED BY <1>1, <1>2, <1>3, <1>4, <1>5 DEF Execute

LEMMA DebuggerPlace ==
  ASSUME TypeOK, PlanInv, DoEscape \/ Command
  PROVE  FramesInv' /\ PlaceInv'
<1> USE DEF Goto
<1>1. CASE DoEscape \/ (Command /\ ~CommandR)
  <2>1. /\ UNCHANGED mvars /\ at' # "store"
        /\ at \notin {"cwai", "cwaivec"} /\ at' \notin {"cwai", "cwaivec"}
    BY <1>1 DEF DoEscape, BpskipTest, Decrement, WalkList, StkTest, Stop,
                LeaveDebugger, SetTerm, Command, CommandS, CommandN, CommandF,
                CommandC, CommandB, CommandD, Leave, Stay
  <2> QED BY <2>1, Standing
<1>2. CASE CommandR
  <2>1. /\ at = "prompt" /\ at' = "prompt" /\ ipcreg' = machine.resetv
        /\ UNCHANGED <<machine, iccreg, isreg, stack, tick>>
    BY <1>2 DEF CommandR, Stay
  <2>2. PICK t \in {0, 1} : Here(ipcreg, t) \in Plan[machine]
    BY <2>1 DEF PlanInv, PlaceInv
  <2>3. machine \in Machines /\ tick \in {0, 1}
    BY DEF TypeOK, MachineType
  <2>4. Situation(machine.resetv, iccreg, KindAt(stack, 1), isreg, 0)
          \in Plan[machine]
    BY <2>2, <2>3, PlanInterrupted DEF Here
  <2>5. Here(ipcreg, 0)' \in Plan[machine]
    BY <2>1, <2>4 DEF Here
  <2>6. FramesInv'
    BY <2>1, FramesUnchanged DEF PlanInv
  <2> QED BY <2>1, <2>3, <2>5, <2>6, Placed
<1> QED BY <1>1, <1>2

LEMMA SignalPlace ==
  ASSUME TypeOK, PlanInv, TimeHandler \/ Handler
  PROVE  FramesInv' /\ PlaceInv'
<1>1. at' = at /\ UNCHANGED <<machine, ipcreg, iccreg, isreg, stack>>
      /\ tick' \in {1, tick}
  BY DEF TimeHandler, Handler, mvars
<1>2. \A p, t : Here(p, t)' = Here(p, t)
  BY <1>1 DEF Here
<1>3. FramesInv'
  BY <1>1, FramesUnchanged DEF PlanInv
<1>4. CASE at \in {"cwai", "cwaivec"}
  BY <1>1, <1>2, <1>3, <1>4 DEF PlanInv, PlaceInv
<1>5. CASE at \notin {"cwai", "cwaivec"}
  <2>1. PICK t \in {0, 1} : /\ Here(ipcreg, t) \in Plan[machine]
                            /\ Punctual => t <= tick
                            /\ at = "store" => t = 0
    BY <1>5 DEF PlanInv, PlaceInv
  <2>2. Punctual => t <= tick'
    BY <1>1, <2>1
  <2>3. Here(ipcreg, t)' \in Plan[machine]
    BY <1>1, <1>2, <2>1
  <2> QED BY <1>1, <1>3, <1>5, <2>1, <2>2, <2>3, Placed
<1> QED BY <1>4, <1>5

LEMMA LoopIrq ==
  ASSUME TypeOK, PlanInv, Loop
  PROVE  IrqInv'
<1> USE DEF Goto
<1>1. UNCHANGED <<machine, tick, timeron>> /\ irq' \in {irq, 0}
      /\ Punctual' = Punctual
  BY DEF Loop, Top, IrqTest, Irq1, Irq2, ClearAttention, ClearIrq, EscapeTest,
         TakeIrq, TakeFirq, mvars, signals, timers, Punctual
<1>2. /\ timeron' => Ticks(machine')
      /\ irq' = 1 => MayIrq(machine')
      /\ irq' = 2 => MayFirq(machine')
  BY <1>1 DEF PlanInv, IrqInv
<1>3. ASSUME Punctual, irq = 1, tick = 0, irq' = 1
      PROVE  "I" \in iccreg' /\ at' \in {"irq", "irq1", "irq2", "attn", "clr"}
  BY <1>3 DEF Loop, Top, IrqTest, Irq1, Irq2, ClearAttention, ClearIrq,
              EscapeTest, mvars, signals, PlanInv, IrqInv
<1>4. ASSUME Punctual, irq' # 0
      PROVE  attention' = 1 \/ at' = "clr"
  BY <1>4 DEF Loop, Top, IrqTest, Irq1, Irq2, ClearAttention, ClearIrq,
              EscapeTest, signals, PlanInv, IrqInv
<1>5. at' \notin {"leave", "store", "cwai", "cwaivec", "cwaiclr", "cwaiattn"}
  BY DEF Loop, Top, IrqTest, Irq1, Irq2, ClearAttention, ClearIrq, EscapeTest
<1> QED BY <1>1, <1>2, <1>3, <1>4, <1>5 DEF IrqInv

LEMMA ExecuteIrq ==
  ASSUME TypeOK, PlanInv, Execute
  PROVE  IrqInv'
<1> USE DEF Goto
<1>0. machine \in Machines /\ MachineType /\ FramesInv /\ PlaceInv /\ IrqInv
  BY DEF TypeOK, PlanInv, MachineType
<1>1. CASE Executing /\ (ExecPlain \/ ExecPuls \/ ExecTimer \/ ExecSync \/ ExecCwai)
  <2>1. at \in {"exec", "next"} /\ ipcreg \in DOMAIN machine.code
    BY <1>1 DEF Executing
  <2>2. UNCHANGED <<machine, tick>> /\ Punctual' = Punctual
    BY <1>1 DEF ExecPlain, Plain, ExecPuls, ExecTimer, ExecSync, ExecCwai,
                CwaiPush, Punctual
  <2>3. PICK t \in {0, 1} : Here(ipcreg, t) \in Plan[machine]
    BY <1>0, <2>1 DEF PlaceInv
  <2>4. /\ Op = "cwai" => ~Polls(machine)
        /\ Op \in {"start", "stop"} /\ Polls(machine) => "I" \in iccreg
    BY <1>0, <2>3, PlanSound DEF Here, Op
  <2>5. CASE ExecPlain \/ ExecSync
    <3>1. UNCHANGED <<irq, attention, timeron>> /\ at' \in {"top", "sync"}
      BY <2>5 DEF ExecPlain, ExecSync, signals, timers
    <3> QED BY <1>0, <2>1, <2>2, <3>1 DEF IrqInv
  <2>6. CASE ExecPuls
    <3>1. /\ UNCHANGED timeron /\ at' \in {"top", "next"}
          /\ UNCHANGED <<irq, attention>> \/ (irq' = 2 /\ attention' = 1)
          /\ Op = "puls"
      BY <2>6 DEF ExecPuls, Puls, timers
    <3>2. MayFirq(machine)
      BY <2>1, <3>1 DEF MayFirq, InCode, Op
    <3> QED BY <1>0, <2>1, <2>2, <3>1, <3>2 DEF IrqInv
  <2>7. CASE ExecTimer
    <3>1. /\ UNCHANGED <<irq, attention, iccreg>> /\ at' \in {"top", "store"}
          /\ Op \in {"start", "stop"}
      BY <2>7 DEF ExecTimer, Branch, signals
    <3>2. timeron' => Ticks(machine)
      BY <1>0, <2>7 DEF ExecTimer, IrqInv, Ticks
    <3>3. Punctual => "I" \in iccreg
      BY <2>4, <3>1 DEF Punctual
    <3> QED BY <1>0, <2>1, <2>2, <3>1, <3>2, <3>3 DEF IrqInv
  <2>8. CASE ExecCwai
    <3>1. UNCHANGED <<irq, timeron>> /\ Op = "cwai"
      BY <2>8 DEF ExecCwai, CwaiPush, signals, timers
    <3>2. ~Punctual
      BY <2>4, <3>1 DEF Punctual
    <3> QED BY <1>0, <2>2, <3>1, <3>2 DEF IrqInv
  <2> QED BY <1>1, <2>5, <2>6, <2>7, <2>8
<1>2. CASE TimerStore
  <2>1. /\ at = "store" /\ at' = "top"
        /\ UNCHANGED <<machine, iccreg, irq, attention, timeron>>
    BY <1>2 DEF TimerStore, signals, timers
  <2>2. Punctual' = Punctual
    BY <2>1 DEF Punctual
  <2> QED BY <1>0, <2>1, <2>2 DEF IrqInv
<1>3. CASE SyncEnds
  <2>1. /\ at = "sync" /\ at' = "top" /\ UNCHANGED mvars
        /\ UNCHANGED <<irq, attention, timeron>>
    BY <1>3 DEF SyncEnds, signals, timers
  <2>2. Punctual' = Punctual
    BY <2>1 DEF Punctual, mvars
  <2> QED BY <1>0, <2>1, <2>2 DEF IrqInv, mvars
<1>4. CASE CwaiWait \/ CwaiVector \/ CwaiClearIrq \/ CwaiClearAttention
  <2>1. /\ at \in {"cwai", "cwaivec", "cwaiclr", "cwaiattn"}
        /\ UNCHANGED <<machine, timeron>> /\ irq' \in {irq, 0}
    BY <1>4 DEF CwaiWait, CwaiVector, CwaiClearIrq, CwaiClearAttention, mvars,
                signals, timers
  <2>2. ~Punctual /\ Punctual' = Punctual
    BY <1>0, <2>1 DEF IrqInv, Punctual
  <2> QED BY <1>0, <2>1, <2>2 DEF IrqInv
<1>5. ExecPlain \/ ExecPuls \/ ExecTimer \/ ExecSync \/ ExecCwai => Executing
  BY DEF ExecPlain, ExecPuls, ExecTimer, ExecSync, ExecCwai
<1> QED BY <1>1, <1>2, <1>3, <1>4, <1>5 DEF Execute

(* While the debugger has the machine, irq goes with a tick bit that is    *)
(* set, and the command leaves something for attention to stay set for.    *)
LEMMA DebuggerIrq ==
  ASSUME TypeOK, PlanInv, DoEscape \/ Command
  PROVE  IrqInv'
<1> USE DEF Goto
<1>0. IrqInv /\ isreg \in Int
  BY DEF PlanInv, TypeOK, MachineType
<1>1. /\ UNCHANGED <<machine, tick, irq, iccreg>> /\ Punctual' = Punctual
      /\ at \in {"bpskip", "dec", "list", "stk", "stop", "prompt", "leave", "term"}
      /\ at' \notin {"store", "cwai", "cwaivec", "cwaiclr", "cwaiattn"}
  BY DEF DoEscape, BpskipTest, Decrement, WalkList, StkTest, Stop,
         LeaveDebugger, SetTerm, Command, CommandS, CommandN, CommandF,
         CommandC, CommandB, CommandD, CommandR, Leave, Stay, mvars, signals,
         Punctual
<1>2. timeron' => Ticks(machine)
  <2>1. CASE SetTerm
    BY <1>0, <2>1 DEF SetTerm, IrqInv, Ticks
  <2>2. CASE UNCHANGED timeron
    BY <1>0, <2>2 DEF IrqInv
  <2> QED BY <2>1, <2>2
          DEF DoEscape, BpskipTest, Decrement, WalkList, StkTest, Stop,
              LeaveDebugger, Command, CommandS, CommandN, CommandF,
              CommandC, CommandB, CommandD, CommandR, Leave, Stay, timers
<1>3. ASSUME Punctual, irq # 0
      PROVE  attention' = 1
  BY <1>0, <1>1, <1>3
     DEF IrqInv, DoEscape, BpskipTest, Decrement, WalkList, StkTest, Stop,
         LeaveDebugger, SetTerm, Command, CommandS, CommandN, CommandF,
         CommandC, CommandB, CommandD, CommandR, signals
<1>4. ASSUME Punctual, at' = "leave"
      PROVE  trskip' # 0 \/ bpskip' # 0 \/ stkskip' # 0
  <2>1. Command
    BY <1>4 DEF DoEscape, BpskipTest, Decrement, WalkList, StkTest, Stop,
                LeaveDebugger, SetTerm
  <2>2. isreg >= 0
    <3>1. at = "prompt" /\ machine \in Machines
      BY <2>1 DEF Command, CommandS, CommandN, CommandF, CommandC, CommandB,
                  CommandD, CommandR, Leave, Stay, TypeOK, MachineType
    <3>2. PICK t \in {0, 1} : Here(ipcreg, t) \in Plan[machine]
      BY <3>1 DEF PlanInv, PlaceInv
    <3>3. isreg \in 0..SpInit
      BY <3>1, <3>2, PlanSound DEF Here
    <3> QED BY <3>3, AddressAssumption
  <2>3. CommandF => stkskip' # 0
    <3>1. CommandF => stkskip' = isreg + 2
      BY DEF CommandF
    <3>2. isreg + 2 # 0
      BY <1>0, <2>2
    <3> QED BY <3>1, <3>2
  <2>4. CommandN => bpskip' # 0
    BY DEF CommandN
  <2>5. \A n \in StepCounts : CommandS(n) => trskip' # 0
    BY OperatorAssumption DEF CommandS
  <2>6. \A n \in ContinueCounts : CommandC(n) => bpskip' # 0
    BY <1>4 DEF CommandC, Punctual
  <2> QED BY <1>4, <2>1, <2>3, <2>4, <2>5, <2>6
          DEF Command, CommandB, CommandD, CommandR, Stay
<1> QED BY <1>0, <1>1, <1>2, <1>3, <1>4 DEF IrqInv

LEMMA SignalIrq ==
  ASSUME TypeOK, PlanInv, TimeHandler \/ Handler
  PROVE  IrqInv'
<1>0. IrqInv
  BY DEF PlanInv
<1>1. CASE TimeHandler
  <2>1. /\ timeron /\ irq' = machine.timerirq /\ attention' = 1 /\ tick' = 1
        /\ UNCHANGED <<machine, iccreg, at, timeron, trskip, bpskip, stkskip>>
    BY <1>1 DEF TimeHandler, timers, debug
  <2>2. Punctual' = Punctual
    BY <2>1 DEF Punctual
  <2> QED BY <1>0, <2>1, <2>2 DEF IrqInv, MayIrq, MayFirq
<1>2. CASE Handler
  <2>1. /\ attention' = 1 /\ at # "leave"
        /\ UNCHANGED <<machine, iccreg, tick, irq, at, timeron>>
    BY <1>2 DEF Handler, mvars, timers
  <2>2. Punctual' = Punctual
    BY <2>1 DEF Punctual
  <2> QED BY <1>0, <2>1, <2>2 DEF IrqInv
<1> QED BY <1>1, <1>2

LEMMA PlanKept == TypeOK /\ PlanInv /\ [Next]_vars => PlanInv'
<1>1. CASE UNCHANGED vars
  BY <1>1 DEF vars, mvars, signals, timers, debug, history, PlanInv, FramesInv,
              PlaceInv, IrqInv, Here, Punctual
<1>2. CASE Next
  BY <1>2, LoopPlace, LoopIrq, ExecutePlace, ExecuteIrq, DebuggerPlace,
     DebuggerIrq, SignalPlace, SignalIrq DEF Next, Interpr, PlanInv
<1> QED BY <1>1, <1>2

(* The program keeps to its plan. *)
THEOREM KeepsToPlan == Spec => [](TypeOK /\ PlanInv)
<1> QED BY InitType, NextType, PlanInitial, PlanKept, PTL DEF Spec

LEMMA PlanNotDerailed == TypeOK /\ PlanInv => NotDerailed
<1> SUFFICES ASSUME TypeOK, PlanInv PROVE NotDerailed
  OBVIOUS
<1>0. machine \in Machines
  BY DEF TypeOK, MachineType
<1>1. CASE at \in {"cwai", "cwaivec"}
  <2>1. Here(machine.firqv, 0) \in Plan[machine] /\ ipcreg \in DOMAIN machine.code
    BY <1>1 DEF PlanInv, PlaceInv, CwaiVectors
  <2> QED BY <1>0, <2>1, PlanSound DEF Here, NotDerailed
<1>2. CASE at \notin {"cwai", "cwaivec"}
  <2>1. PICK t \in {0, 1} : Here(ipcreg, t) \in Plan[machine]
    BY <1>2 DEF PlanInv, PlaceInv
  <2> QED BY <1>0, <2>1, PlanSound DEF Here, NotDerailed
<1> QED BY <1>1, <1>2

(* No return meets the frame of another kind of call, whenever interrupts  *)
(* come and whatever the operator enters.                                  *)
THEOREM NotDerailedHolds == Spec => []NotDerailed
<1> QED BY KeepsToPlan, PlanNotDerailed, PTL

(* The IRQ handler finds the tick bit set, unless the operator enters c 0. *)
THEOREM TickBitAtPollHolds ==
  ASSUME 0 \notin ContinueCounts
  PROVE  Spec => []TickBitAtPoll
<1>1. TypeOK /\ PlanInv => TickBitAtPoll
  <2> SUFFICES ASSUME TypeOK, PlanInv, Executing, Op = "poll" PROVE tick = 1
    BY DEF TickBitAtPoll
  <2>1. machine \in Machines /\ tick \in {0, 1}
    BY DEF TypeOK, MachineType
  <2>2. at \in {"exec", "next"} /\ ipcreg \in DOMAIN machine.code
    BY DEF Executing
  <2>3. Punctual
    BY <2>2 DEF Punctual, Polls, InCode, Op
  <2>4. PICK t \in {0, 1} : Here(ipcreg, t) \in Plan[machine] /\ t <= tick
    BY <2>2, <2>3 DEF PlanInv, PlaceInv
  <2>5. t = 1
    BY <2>1, <2>4, PlanSound DEF Here, Op
  <2> QED BY <2>1, <2>4, <2>5
<1> QED BY <1>1, KeepsToPlan, PTL

(* f given after s comes back as soon as the stack has been popped. *)
THEOREM FinishStopsAfterStepHolds == Spec => []FinishStopsAfterStep
<1>1. NotDerailed => isreg >= 0
  BY AddressAssumption DEF NotDerailed
<1>2. DebuggerInv /\ isreg >= 0 => FinishStopsAfterStep
  BY DEF DebuggerInv, FinishInv, FinishStopsAfterStep, Finishing
<1> QED BY <1>1, <1>2, DebuggerInvariant, NotDerailedHolds, PTL
=============================================================================
