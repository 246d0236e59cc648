------------------------------ MODULE MCEngine ------------------------------
(***************************************************************************)
(* The machines that TLC runs the simulator on.                            *)
(***************************************************************************)
EXTENDS EngineInv, TLC

Insn(o) == [op |-> o, arg |-> 0]
InsnA(o, a) == [op |-> o, arg |-> a]

(* Like OS-9 (v09 -rom): boot with interrupts masked, start the timer,     *)
(* then a loop with a system call and an idle wait. 7: clock interrupt,    *)
(* 10: the end of the polling table, 11: system call.                      *)
Os9 == [code |-> 0 :> InsnA("orcc", {"F", "I"}) @@ 1 :> Insn("lds")
              @@ 2 :> Insn("start") @@ 3 :> InsnA("andcc", {"E"})
              @@ 4 :> Insn("swi2") @@ 5 :> Insn("sync") @@ 6 :> InsnA("bra", 4)
              @@ 7 :> InsnA("poll", 10) @@ 8 :> Insn("start") @@ 9 :> Insn("rti")
              @@ 10 :> InsnA("bra", 10) @@ 11 :> Insn("rti"),
        irqv |-> 7, firqv |-> 9, swiv |-> 11, swi2v |-> 11, resetv |-> 0,
        timerirq |-> 1, timer |-> 3, start |-> FALSE, tracing |-> FALSE]

(* Like the monitor: SWI returns to it, and it goes on by one instruction  *)
(* with SYNC and PULS (monitor.asm). 6: the timer's FIRQ.                  *)
Monitor == [code |-> 0 :> Insn("lds") @@ 1 :> Insn("swi") @@ 2 :> Insn("nop")
                  @@ 3 :> InsnA("bra", 1)
                  @@ 4 :> Insn("sync") @@ 5 :> Insn("puls")
                  @@ 6 :> Insn("rti"),
            irqv |-> 6, firqv |-> 6, swiv |-> 4, swi2v |-> 6, resetv |-> 0,
            timerirq |-> 2, timer |-> 0, start |-> FALSE, tracing |-> TRUE]

(* A program in the debugger from the start (-nt): nested calls and a byte *)
(* that is written.                                                        *)
Calls == [code |-> 0 :> Insn("lds") @@ 1 :> InsnA("bsr", 4) @@ 2 :> Insn("poke")
                @@ 3 :> InsnA("bra", 1)
                @@ 4 :> InsnA("bsr", 6) @@ 5 :> Insn("stop") @@ 6 :> Insn("start")
                @@ 7 :> Insn("rts"),
          irqv |-> 7, firqv |-> 7, swiv |-> 7, swi2v |-> 7, resetv |-> 0,
          timerirq |-> 2, timer |-> 1, start |-> TRUE, tracing |-> FALSE]

(* CWAI with E set beforehand, so that RTI finds it in the frame.          *)
Cwai == [code |-> 0 :> Insn("lds") @@ 1 :> Insn("start") @@ 2 :> InsnA("orcc", {"E"})
               @@ 3 :> InsnA("cwai", {"E"}) @@ 4 :> InsnA("bra", 3)
               @@ 5 :> Insn("start") @@ 6 :> Insn("rti"),
         irqv |-> 5, firqv |-> 6, swiv |-> 6, swi2v |-> 6, resetv |-> 0,
         timerirq |-> 1, timer |-> 3, start |-> FALSE, tracing |-> FALSE]

(* The least plan of a machine, from a part of it. *)
RECURSIVE Grown(_, _)
Grown(m, P) == LET Q == P \cup UNION {After(m, P, c) : c \in P}
               IN  IF Q = P THEN P ELSE Grown(m, Q)
MCPlan == [m \in {Os9, Monitor, Calls, Cwai} |-> Grown(m, {Start(m)})]

MCMachines == {Os9, Monitor, Calls, Cwai}
MCCalls == {Calls}
MCCwai == {Cwai}
MCAdrs == {4}
MCCounts == {1}
MCSteps == {1, 2}
MCContinues == {-1, 1}
=============================================================================
