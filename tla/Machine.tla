------------------------------ MODULE Machine ------------------------------
(***************************************************************************)
(* The simulated 6809 as far as control goes (src/src/engine.c): program   *)
(* counter, the condition code bits that matter to interrupts, and the     *)
(* frames on the hardware stack. A machine is a program, its vectors and   *)
(* the options the simulator was started with. An instruction takes one    *)
(* address; the arithmetic of the instructions is left out.                *)
(***************************************************************************)
EXTENDS Integers, Sequences

CONSTANTS
    Machines,   \* what may be run
    SpInit,     \* the stack pointer at the start
    CellAdr     \* address of the one data byte that programs write

(* code: the instructions by address; irqv, firqv, swiv, swi2v, resetv:    *)
(* the vectors; timerirq: 1 IRQ, 2 FIRQ; timer: the option -rom or -nt     *)
(* set, 0 if the timer runs from the start; start: the debugger is entered *)
(* at the start; tracing: -t was given.                                    *)
MachineOK(m) ==
    /\ {m.irqv, m.firqv, m.swiv, m.swi2v, m.resetv} \subseteq Int
    /\ m.timerirq \in {1, 2}
    /\ m.tracing \in BOOLEAN /\ m.start \in BOOLEAN
    /\ DOMAIN m.code \subseteq Int
    /\ \A a \in DOMAIN m.code :
         /\ m.code[a].op \in {"bra", "bsr", "poll"} => m.code[a].arg \in Int
         /\ m.code[a].op \in {"andcc", "orcc", "cwai"} =>
              m.code[a].arg \in SUBSET {"E", "F", "I"}

ASSUME MachinesAssumption == \A m \in Machines : MachineOK(m)
ASSUME AddressAssumption == SpInit \in Int /\ CellAdr \in Int

VARIABLES
    machine,    \* the element of Machines that runs
    ipcreg,
    iccreg,     \* the set of those of E, F and I that are set
    isreg,
    stack,      \* the frames on the stack, innermost first
    tick,       \* bit 0x10 of the timer's register $E030
    cell        \* the data byte

mvars == <<machine, ipcreg, iccreg, isreg, stack, tick, cell>>

Bits == {"E", "F", "I"}
Lost == -1      \* where a return without its frame leads: no known address

Op == machine.code[ipcreg].op
Arg == machine.code[ipcreg].arg
Next1 == ipcreg + 1

-----------------------------------------------------------------------------
(* Frames: a call pushes PC, FIRQ the PC and CC, the others all registers. *)

Size == [call |-> 2, short |-> 3, long |-> 12]

Push(kind, cc, pc) ==
    /\ stack' = <<[kind |-> kind, cc |-> cc, pc |-> pc]>> \o stack
    /\ isreg' = isreg - Size[kind]

(* Pull a frame of this kind; when the innermost is of another, PC is      *)
(* pulled from the wrong bytes.                                            *)
Pull(kind, cc) ==
    IF stack # <<>> /\ Head(stack).kind = kind
      THEN /\ ipcreg' = Head(stack).pc
           /\ iccreg' = cc
           /\ stack' = Tail(stack)
           /\ isreg' = isreg + Size[kind]
      ELSE ipcreg' = Lost /\ UNCHANGED <<iccreg, stack, isreg>>

Branch(a) == ipcreg' = a /\ UNCHANGED <<iccreg, isreg, stack>>

(* IRQ and FIRQ, at the head of interpr's loop. *)
TakeIrq == /\ "I" \notin iccreg
           /\ Push("long", iccreg \cup {"E"}, ipcreg)
           /\ iccreg' = iccreg \cup {"E", "I"}
           /\ ipcreg' = machine.irqv
           /\ UNCHANGED <<machine, tick, cell>>

(* Mutant: FIRQ pushes CC with E as it is. *)
TakeFirqWithE == /\ "F" \notin iccreg
                 /\ Push("short", iccreg, ipcreg)
                 /\ iccreg' = (iccreg \ {"E"}) \cup {"F", "I"}
                 /\ ipcreg' = machine.firqv
                 /\ UNCHANGED <<machine, tick, cell>>

TakeFirq == /\ "F" \notin iccreg
            /\ Push("short", iccreg \ {"E"}, ipcreg)
            /\ iccreg' = (iccreg \ {"E"}) \cup {"F", "I"}
            /\ ipcreg' = machine.firqv
            /\ UNCHANGED <<machine, tick, cell>>

-----------------------------------------------------------------------------
(* The instructions that have no part in the interrupt signals. poll reads *)
(* the timer's register and goes to Arg unless the tick bit is set, poke   *)
(* writes the data byte.                                                   *)

Nop == Op = "nop" /\ Branch(Next1) /\ UNCHANGED cell
Bra == Op = "bra" /\ Branch(Arg) /\ UNCHANGED cell
PollBit == /\ Op = "poll"
           /\ Branch(IF tick = 1 THEN Next1 ELSE Arg) /\ UNCHANGED cell
Poke == Op = "poke" /\ Branch(Next1) /\ cell' = 1 - cell
AndCC == /\ Op = "andcc" /\ ipcreg' = Next1 /\ iccreg' = iccreg \cap Arg
         /\ UNCHANGED <<isreg, stack, cell>>
OrCC == /\ Op = "orcc" /\ ipcreg' = Next1 /\ iccreg' = iccreg \cup Arg
        /\ UNCHANGED <<isreg, stack, cell>>
Bsr == /\ Op = "bsr" /\ Push("call", {}, Next1) /\ ipcreg' = Arg
       /\ UNCHANGED <<iccreg, cell>>
(* LDS: a new stack. *)
Lds == /\ Op = "lds" /\ ipcreg' = Next1 /\ isreg' = SpInit /\ stack' = <<>>
       /\ UNCHANGED <<iccreg, cell>>
Rts == Op = "rts" /\ Pull("call", iccreg) /\ UNCHANGED cell
(* RTI looks at the E it has just pulled. *)
Rti == /\ Op = "rti"
       /\ LET cc == Head(stack).cc
          IN  Pull(IF stack # <<>> /\ "E" \in cc THEN "long" ELSE "short", cc)
       /\ UNCHANGED cell
Swi == /\ Op = "swi" /\ Push("long", iccreg \cup {"E"}, Next1)
       /\ iccreg' = iccreg \cup Bits /\ ipcreg' = machine.swiv
       /\ UNCHANGED cell
Swi2 == /\ Op = "swi2" /\ Push("long", iccreg \cup {"E"}, Next1)
        /\ iccreg' = iccreg \cup {"E"} /\ ipcreg' = machine.swi2v
        /\ UNCHANGED cell
(* PULS with all registers. *)
Puls == Op = "puls" /\ Pull("long", Head(stack).cc) /\ UNCHANGED cell

Plain == /\ \/ Nop \/ Bra \/ PollBit \/ Poke \/ AndCC \/ OrCC
            \/ Lds \/ Bsr \/ Rts \/ Rti \/ Swi \/ Swi2
         /\ UNCHANGED <<machine, tick>>

(* CWAI pushes CC before it sets E. *)
CwaiPush == /\ Op = "cwai"
            /\ Push("long", iccreg, Next1)
            /\ iccreg' = (iccreg \cap Arg) \cup {"E"}
            /\ ipcreg' = Next1
            /\ UNCHANGED <<machine, tick, cell>>

-----------------------------------------------------------------------------
MInit == /\ machine \in Machines
         /\ ipcreg = machine.resetv
         /\ iccreg = {} /\ isreg = SpInit /\ stack = <<>>
         /\ tick = 0 /\ cell = 0
=============================================================================
