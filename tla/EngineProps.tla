----------------------------- MODULE EngineProps -----------------------------
(***************************************************************************)
(* What is claimed of the simulator's loop and its debugger (Engine).      *)
(***************************************************************************)
EXTENDS Engine

Locations == {"top", "irq", "irq1", "irq2", "attn", "clr", "esc", "exec", "next",
              "store", "sync", "cwai", "cwaivec", "cwaiclr", "cwaiattn",
              "bpskip", "dec", "list", "stk", "stop", "prompt", "leave", "term"}

Commands == {"none", "s", "n", "c", "f", "f skipping"}
Frames == [kind : DOMAIN Size, cc : SUBSET Bits, pc : Int]
Breakpoints == [adr : Int, count : Int, watch : {0, 1}]

(* Every variable stays in its range; trskip never falls below zero.       *)
MachineType ==
    /\ machine \in Machines
    /\ ipcreg \in Int /\ isreg \in Int
    /\ iccreg \in SUBSET Bits
    /\ stack \in Seq(Frames)
    /\ tick \in {0, 1} /\ cell \in {0, 1}

SignalType ==
    /\ at \in Locations
    /\ attention \in {0, 1} /\ irq \in {0, 1, 2} /\ escape \in {0, 1}
    /\ timeron \in BOOLEAN /\ sigalrm \in BOOLEAN
    /\ tracetrick \in {0, 1}

DebugType ==
    /\ bpskip \in Int /\ held \in Int /\ stkskip \in Int /\ trskip \in Nat
    /\ breakpoint \in Seq(Breakpoints)
    /\ cmd \in [c : Commands, n : Int]
    /\ since \in Nat
    /\ pressed \in {"no", "dec", "yes"}

TypeOK == MachineType /\ SignalType /\ DebugType

(* No return meets the frame of another kind of call, and what is pushed   *)
(* is pulled: an interrupt is transparent to the program whether IRQ or    *)
(* FIRQ, and wherever it comes.                                            *)
NotDerailed == ipcreg \in DOMAIN machine.code /\ isreg \in 0..SpInit

(* Where the timer's IRQ handler looks at the timer's register, it finds   *)
(* the tick bit set, or it would pass the interrupt on as another device's *)
(* (ClockIRQ of os9/level1/clock.asm). A tick that comes while the handler *)
(* acknowledges the one before is dropped with its bit.                    *)
TickBitAtPoll == Executing /\ Op = "poll" => tick = 1

(* A program that runs after c, or after n at a call, does not get past a  *)
(* breakpoint that is due or a watched byte that has changed, except for   *)
(* the instruction the prompt has shown.                                   *)
BreakStops ==
    at = "exec" /\ bpskip # 0 /\ since > 0 =>
        \A i \in DOMAIN breakpoint :
            breakpoint[i].count \in {-1, 0} => ~Hit(breakpoint[i])

(* s N comes back to the prompt after N instructions, whatever interrupts  *)
(* and breakpoints there are and whatever key is pressed.                  *)
StepsExact ==
    cmd.c = "s" => since <= cmd.n /\ (at = "prompt" => since = cmd.n)

(* After f no instruction is executed once the stack has been popped:      *)
(* "f finish this call (until stack pop)" (trace.c:119).                   *)
Finishing == at = "exec" /\ since > 0 => isreg < cmd.n + 2
FinishStops == cmd.c \in {"f", "f skipping"} => Finishing

(* It is so when f is given with bpskip at 0, as it is after s.            *)
FinishStopsAfterStep == cmd.c = "f" => Finishing

(* The escape key leads to the prompt: "If you press the escape char, you  *)
(* get the v09 prompt" (doc/sbc09.creole:202).                             *)
EscapeGetsPrompt == (pressed # "no") ~> (at = "prompt")

(* It does, unless it is pressed between do_escape's test of bpskip and    *)
(* its decrement.                                                          *)
EscapeHeard == (pressed = "yes") ~> (at = "prompt")

(* The loop implements the machine the program relies on: the debugger and *)
(* the handlers change nothing the program can see but what R resets, and  *)
(* an interrupt comes once for each time that irq has been set.            *)
G == INSTANCE Guest WITH
        raised <- IF at \in {"attn", "clr", "cwaiclr"} \/ (at = "irq2" /\ irq = 1)
                    THEN 0 ELSE irq,
        mode <- CASE at \in {"sync", "store"} -> at
                  [] at \in {"cwai", "cwaivec"} -> "cwai"
                  [] OTHER -> "run"
EngineImplementsGuest == G!GSpec

(* "Wait for IRQ" (engine.c:700): CWAI ends with an interrupt that is not  *)
(* masked.                                                                 *)
CwaiTakesInterrupt ==
    [][at = "cwaivec" /\ at' = "cwaiclr" =>
         \/ irq = 1 /\ "I" \notin iccreg
         \/ irq = 2 /\ "F" \notin iccreg]_vars
=============================================================================
