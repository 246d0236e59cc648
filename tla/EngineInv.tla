------------------------------ MODULE EngineInv ------------------------------
(***************************************************************************)
(* Two inductive invariants. DebuggerInv, behind BreakStops and StepsExact *)
(* (and, with the next, FinishStopsAfterStep), says what the debugger's    *)
(* variables say about each other on the way from one prompt to the next.  *)
(* PlanInv, behind NotDerailed and TickBitAtPoll, says that the program    *)
(* keeps to its plan.                                                      *)
(***************************************************************************)
EXTENDS EngineProps

InDebugger == {"bpskip", "dec", "list", "stk", "stop", "prompt", "leave", "term"}

(* escape is never cleared, so that once bpskip counts every instruction   *)
(* comes by the breakpoints; while s counts there is no bpskip.            *)
SkipInv ==
    /\ at \in InDebugger \/ bpskip # 0 => escape = 1
    /\ at = "stk" => bpskip = 0
    /\ at = "prompt" => stkskip = 0 /\ trskip <= 1
    /\ trskip > 1 => bpskip = 0 /\ at \notin {"dec", "list"}
    /\ at = "leave" \/ (at = "term" /\ bpskip # 0) => since = 0

(* What s has done and what it has left make up its argument.              *)
StepInv ==
    cmd.c = "s" =>
        /\ 1 <= trskip /\ trskip <= cmd.n
        /\ since = cmd.n - trskip
                     + (IF at \in {"leave", "term", "exec"} THEN 0 ELSE 1)
        /\ at \notin {"dec", "list", "stk"}
        /\ at # "prompt" => bpskip = 0 /\ stkskip = 0 /\ escape = 1

(* After f, given with bpskip at 0, the loop comes by the debugger before  *)
(* each instruction, and stkskip is what f has set or 0, which the escape  *)
(* key makes of it and which every stack pointer but a negative one meets. *)
FinishInv ==
    cmd.c = "f" =>
        /\ at # "prompt" => /\ bpskip = 0 /\ escape = 1 /\ trskip <= 1
                            /\ stkskip \in {0, cmd.n + 2}
        /\ at \notin {"dec", "list"}
        /\ at \in {"leave", "term"} => since = 0
        /\ at = "exec" /\ since > 0 /\ isreg >= 0 => isreg < cmd.n + 2

DebuggerInv == TypeOK /\ SkipInv /\ StepInv /\ BreakStops /\ FinishInv

-----------------------------------------------------------------------------
(* Why no program is derailed. A plan of a program is a set of the         *)
(* situations that it may be in before an instruction: where it is, the    *)
(* condition codes, the kind of the innermost frame, the stack pointer,    *)
(* and whether the timer's tick bit is known to be set (told).             *)

CONSTANT Plan   \* a plan for each machine

Situation(p, cc, k, s, t) ==
    [pc |-> p, cc |-> cc, top |-> k, sp |-> s, told |-> t]

InCode(m, o) == \E a \in DOMAIN m.code : m.code[a].op = o
Polls(m) == InCode(m, "poll")
Ticks(m) == m.timer \in {0, 2, 3}
MayIrq(m) == Ticks(m) /\ m.timerirq = 1
MayFirq(m) == (Ticks(m) /\ m.timerirq = 2) \/ InCode(m, "puls")
CwaiVectors(m) == {m.firqv} \cup (IF MayIrq(m) THEN {m.irqv} ELSE {})

(* What follows situation c of machine m: the instruction goes on, enters  *)
(* a routine, or comes back from one, when what the routine has made of    *)
(* the tick bit is not known.                                              *)
Goes(c, p, cc, t) == Situation(p, cc, c.top, c.sp, t)
Enters(c, k, p, cc, t) == Situation(p, cc, k, c.sp - Size[k], t)
Back(c, p, cc) == Situation(p, cc, c.top, c.sp, 0)

Done(m, P, c) ==
    LET o == m.code[c.pc].op
        arg == m.code[c.pc].arg
        next == c.pc + 1
    IN  CASE o \in {"nop", "poke", "sync"} -> {Goes(c, next, c.cc, c.told)}
          [] o \in {"start", "stop"} -> {Goes(c, next, c.cc, 0)}
          [] o = "bra" -> {Goes(c, arg, c.cc, c.told)}
          [] o = "poll" -> {Goes(c, p, c.cc, c.told) : p \in {next, arg}}
          [] o = "andcc" -> {Goes(c, next, c.cc \cap arg, c.told)}
          [] o = "orcc" -> {Goes(c, next, c.cc \cup arg, c.told)}
          [] o = "lds" -> {Situation(next, c.cc, "none", SpInit, c.told)}
          [] o = "bsr" -> {Enters(c, "call", arg, c.cc, c.told)} \cup
                          {Back(c, next, d.cc) :
                              d \in {r \in P : m.code[r.pc].op = "rts"}}
          [] o = "swi" -> {Enters(c, "long", m.swiv, c.cc \cup Bits, c.told),
                           Back(c, next, c.cc \cup {"E"})}
          [] o = "swi2" -> {Enters(c, "long", m.swi2v, c.cc \cup {"E"}, c.told),
                            Back(c, next, c.cc \cup {"E"})}
          [] o = "cwai" -> {Enters(c, "long", v, (c.cc \cap arg) \cup {"E"}, 0) :
                               v \in CwaiVectors(m)} \cup {Back(c, next, c.cc)}
          [] o \in {"rts", "rti", "puls"} -> {}

(* An interrupt comes, and returns; and R of the debugger.                 *)
Interrupted(m, c) ==
    (IF MayIrq(m) /\ "I" \notin c.cc
       THEN {Enters(c, "long", m.irqv, c.cc \cup {"E", "I"}, 1),
             Back(c, c.pc, c.cc \cup {"E"})}
       ELSE {}) \cup
    (IF MayFirq(m) /\ "F" \notin c.cc
       THEN {Enters(c, "short", m.firqv, (c.cc \ {"E"}) \cup {"F", "I"}, 0),
             Back(c, c.pc, c.cc \ {"E"})}
       ELSE {})
Resets(m, c) == Back(c, m.resetv, c.cc)

After(m, P, c) == Done(m, P, c) \cup Interrupted(m, c) \cup {Resets(m, c)}
Start(m) == Situation(m.resetv, {}, "none", SpInit, 0)

(* A return has its frame, CWAI has E set beforehand, and a program that   *)
(* looks for the tick bit does so where it is told, writes the timer with  *)
(* IRQ masked and has no CWAI, which drops attention.                      *)
Instructions == {"nop", "poke", "sync", "start", "stop", "bra", "poll", "andcc",
                 "orcc", "lds", "bsr", "swi", "swi2", "cwai", "rts", "rti", "puls"}
Sound(m, c) ==
    /\ c.pc \in DOMAIN m.code /\ c.sp \in 0..SpInit
    /\ LET o == m.code[c.pc].op
       IN  /\ o \in Instructions
           /\ o = "rts" => c.top = "call"
           /\ o = "rti" => c.top \in {"short", "long"}
           /\ o = "puls" => c.top = "long"
           /\ o = "cwai" => "E" \in c.cc /\ ~Polls(m)
           /\ o = "poll" => c.told = 1
           /\ o \in {"start", "stop"} /\ Polls(m) => "I" \in c.cc

Covers(m, P) ==
    /\ Start(m) \in P
    /\ \A c \in P : Sound(m, c) /\ After(m, P, c) \subseteq P

(* The programs are those that have a plan.                                *)
ASSUME PlanAssumption == \A m \in Machines : Covers(m, Plan[m])

(* A frame leads back into the plan, k and s being what is innermost and   *)
(* where the stack pointer is without it.                                  *)
Resumes(m, f, k, s) ==
    IF f.kind = "call"
      THEN \A d \in Plan[m] : m.code[d.pc].op = "rts" =>
                                 Situation(f.pc, d.cc, k, s, 0) \in Plan[m]
      ELSE /\ Situation(f.pc, f.cc, k, s, 0) \in Plan[m]
           /\ "E" \in f.cc <=> f.kind = "long"

KindAt(st, i) == IF i \in DOMAIN st THEN st[i].kind ELSE "none"

(* sps: the stack pointer above each frame, and at last below all.         *)
FramesAt(m, st, sps) ==
    /\ Len(sps) = Len(st) + 1
    /\ \A i \in 1..Len(st) :
         /\ sps[i + 1] = sps[i] + Size[st[i].kind]
         /\ Resumes(m, st[i], KindAt(st, i + 1), sps[i + 1])
Framed(m, st, s) == \E sps \in Seq(Int) : sps[1] = s /\ FramesAt(m, st, sps)
FramesInv == Framed(machine, stack, isreg)

(* A polling program whose operator does not enter c 0: c 0 leaves         *)
(* attention at 0 while irq may be set.                                    *)
Punctual == Polls(machine) /\ 0 \notin ContinueCounts

Here(p, t) == Situation(p, iccreg, KindAt(stack, 1), isreg, t)
PlaceInv ==
    IF at \in {"cwai", "cwaivec"}
      THEN /\ ipcreg \in DOMAIN machine.code
           /\ \A v \in CwaiVectors(machine) : Here(v, 0) \in Plan[machine]
      ELSE \E t \in {0, 1} : /\ Here(ipcreg, t) \in Plan[machine]
                             /\ Punctual => t <= tick
                             /\ at = "store" => t = 0

(* An interrupt has a source; it is forgotten soon after its tick bit.     *)
IrqInv ==
    /\ timeron => Ticks(machine)
    /\ irq = 1 => MayIrq(machine)
    /\ irq = 2 => MayFirq(machine)
    /\ Punctual =>
         /\ irq # 0 => attention = 1 \/ at = "clr"
         /\ at = "leave" => trskip # 0 \/ bpskip # 0 \/ stkskip # 0
         /\ at = "store" => "I" \in iccreg
         /\ at \notin {"cwai", "cwaivec", "cwaiclr", "cwaiattn"}
         /\ irq = 1 /\ tick = 0 =>
              "I" \in iccreg /\ at \in {"top", "irq", "irq1", "irq2", "attn", "clr"}

PlanInv == FramesInv /\ PlaceInv /\ IrqInv
=============================================================================
