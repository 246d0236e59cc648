------------------------------- MODULE Guest -------------------------------
(***************************************************************************)
(* What the program in the simulator may count on, with no host in sight:  *)
(* instructions are executed one after the other; an interrupt comes       *)
(* between two of them, where it is not masked, and at most once each time *)
(* a source has raised it; the timer's register shows every tick until the *)
(* program writes it. An interrupt that was raised may be dropped.         *)
(***************************************************************************)
EXTENDS Machine

VARIABLES
    raised,     \* 0 none, 1 IRQ, 2 FIRQ
    mode        \* "run", "sync", "cwai", or "store": writing the timer

gvars == <<mvars, raised, mode>>

Instruction ==
    /\ mode = "run" /\ mode' = mode
    /\ Plain
    /\ UNCHANGED raised

(* The trick that traces a single instruction raises FIRQ.                 *)
ReturnAll ==
    /\ mode = "run" /\ mode' = mode
    /\ Puls /\ UNCHANGED <<machine, tick>>
    /\ raised' \in {raised, 2}

TimerStore ==
    \/ /\ mode = "run" /\ Op \in {"start", "stop"}
       /\ Branch(Next1) /\ mode' \in {"run", "store"}
       /\ UNCHANGED <<machine, tick, cell, raised>>
    \/ /\ mode = "store" /\ mode' = "run"
       /\ tick' = 0
       /\ UNCHANGED <<machine, ipcreg, iccreg, isreg, stack, cell, raised>>

(* CWAI ends at either vector.                                             *)
Wait ==
    \/ /\ mode = "run" /\ Op = "sync" /\ mode' = "sync"
       /\ Branch(Next1) /\ UNCHANGED <<machine, tick, cell, raised>>
    \/ mode = "run" /\ CwaiPush /\ mode' = "cwai" /\ UNCHANGED raised
    \/ mode = "sync" /\ mode' = "run" /\ UNCHANGED <<mvars, raised>>
    \/ /\ mode = "cwai" /\ mode' = "run"
       /\ ipcreg' \in {machine.irqv, machine.firqv}
       /\ raised' = 0
       /\ UNCHANGED <<machine, iccreg, isreg, stack, tick, cell>>

Interrupt ==
    /\ mode = "run" /\ mode' = mode
    /\ (raised = 1 /\ TakeIrq) \/ (raised = 2 /\ TakeFirq)
    /\ raised' = 0

Drop == raised' = 0 /\ UNCHANGED <<mvars, mode>>

Tick == /\ tick' = 1
        /\ raised' \in {machine.timerirq, 0}
        /\ UNCHANGED <<machine, ipcreg, iccreg, isreg, stack, cell, mode>>

Reset == /\ ipcreg' = machine.resetv
         /\ UNCHANGED <<machine, iccreg, isreg, stack, tick, cell, raised,
                        mode>>

GInit == MInit /\ raised = 0 /\ mode = "run"

GNext == \/ Instruction \/ ReturnAll \/ TimerStore \/ Wait \/ Interrupt
         \/ Drop \/ Tick \/ Reset

GSpec == GInit /\ [][GNext]_gvars
=============================================================================
