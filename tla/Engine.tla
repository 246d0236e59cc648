------------------------------- MODULE Engine -------------------------------
(***************************************************************************)
(* interpr, the simulator's loop (src/src/engine.c), with the two signal   *)
(* handlers of src/src/io.c that may run between any two of its steps, and *)
(* the debugger do_escape (src/src/trace.c) that the loop calls before an  *)
(* instruction.                                                            *)
(*                                                                         *)
(* at names the statement that comes next; a step is the code between two  *)
(* accesses to what the handlers write: attention, irq, escape, bpskip,    *)
(* stkskip and the timer's register. An instruction is one step, except    *)
(* SYNC and CWAI, which wait, and writes to the timer.                     *)
(***************************************************************************)
EXTENDS Machine

CONSTANTS
    BreakAdrs, BreakCounts,     \* what the operator may give with b: addresses
                                \* in the program, and counts
    StepCounts, ContinueCounts, \* and with s and c; -1 for c alone
    MaxBreaks, MaxTemps         \* bounds on the list of breakpoints

ASSUME OperatorAssumption ==
    /\ BreakAdrs \subseteq Int /\ BreakCounts \subseteq Int
    /\ StepCounts \subseteq Nat \ {0} /\ ContinueCounts \subseteq Int
    /\ MaxBreaks \in Nat /\ MaxTemps \in Nat

VARIABLES
    at,
    attention, irq, escape,
    timeron,    \* the interval timer runs
    sigalrm,    \* SIGALRM is handled, not ignored
    tracetrick,
    bpskip,     \* instructions to run with breakpoints, -1 for ever
    held,       \* bpskip as read by do_escape's test
    stkskip,    \* 0, or the stack pointer at which f stops
    trskip,     \* instructions that s has left
    breakpoint, \* the list, newest first
    cmd,        \* history: the last command that left the prompt, with its
                \* argument; for f the stack pointer
    since,      \* history: instructions since then, as far as of interest;
                \* PULS and the instruction that follows at once are one
    pressed     \* history: whether the escape key was pressed since the last
                \* prompt: "no", "yes", or "dec": while bpskip was counted

signals == <<attention, irq, escape>>
timers == <<timeron, sigalrm>>
debug == <<bpskip, held, stkskip, trskip, breakpoint>>
history == <<cmd, since, pressed>>
vars == <<mvars, at, signals, timers, tracetrick, debug, history>>

NoCmd == [c |-> "none", n |-> 0]

Goto(l) == at' = l

-----------------------------------------------------------------------------
(* The head of the loop: attention, then irq, read three times. *)

Top == /\ at = "top"
       /\ Goto(IF attention = 1 THEN "irq" ELSE "esc")
       /\ UNCHANGED <<mvars, signals, timers, tracetrick, debug, history>>

(* Mutant: an interrupt that is masked is kept. *)
IrqTestUnmasked ==
    /\ at = "irq"
    /\ Goto(IF \/ irq = 1 /\ "I" \in iccreg
               \/ irq = 2 /\ "F" \in iccreg
              THEN "esc" ELSE IF irq # 0 THEN "irq1" ELSE "esc")
    /\ UNCHANGED <<mvars, signals, timers, tracetrick, debug, history>>

IrqTest == /\ at = "irq"
           /\ Goto(IF irq # 0 THEN "irq1" ELSE "esc")
           /\ UNCHANGED <<mvars, signals, timers, tracetrick, debug, history>>

Irq1 == /\ at = "irq1"
        /\ IF irq = 1 /\ "I" \notin iccreg THEN TakeIrq ELSE UNCHANGED mvars
        /\ Goto("irq2")
        /\ UNCHANGED <<signals, timers, tracetrick, debug, history>>

Irq2 == /\ at = "irq2"
        /\ IF irq = 2 /\ "F" \notin iccreg THEN TakeFirq ELSE UNCHANGED mvars
        /\ Goto("attn")
        /\ UNCHANGED <<signals, timers, tracetrick, debug, history>>

(* Taken or masked, the interrupt is over. *)
ClearAttention ==
    /\ at = "attn"
    /\ attention' = IF machine.tracing THEN attention ELSE 0
    /\ Goto("clr")
    /\ UNCHANGED <<mvars, irq, escape, timers, tracetrick, debug, history>>

(* Mutant: irq stays set. *)
ClearIrqNot ==
    /\ at = "clr"
    /\ Goto("esc")
    /\ UNCHANGED <<mvars, signals, timers, tracetrick, debug, history>>

ClearIrq ==
    /\ at = "clr"
    /\ irq' = 0
    /\ Goto("esc")
    /\ UNCHANGED <<mvars, attention, escape, timers, tracetrick, debug, history>>

EscapeTest ==
    /\ at = "esc"
    /\ Goto(IF escape = 1 THEN "bpskip" ELSE "exec")
    /\ UNCHANGED <<mvars, signals, timers, tracetrick, debug, history>>

-----------------------------------------------------------------------------
(* Instructions. At "next" one is executed without a look at the signals.  *)

Executing == at \in {"exec", "next"} /\ ipcreg \in DOMAIN machine.code

Enough == IF cmd.c = "s" THEN cmd.n + 1 ELSE 1
Counted == /\ since' = IF at = "exec" /\ since < Enough THEN since + 1 ELSE since
           /\ UNCHANGED <<cmd, pressed>>

ExecPlain == /\ Executing /\ Plain
             /\ Goto("top") /\ Counted
             /\ UNCHANGED <<signals, timers, tracetrick, debug>>

(* PULS of everything after SYNC with FIRQ masked: irq is set for after    *)
(* the next instruction, which follows at once.                            *)
ExecPuls ==
    /\ Executing /\ Puls
    /\ IF tracetrick = 1
         THEN /\ tracetrick' = 0 /\ irq' = 2 /\ attention' = 1 /\ Goto("next")
         ELSE Goto("top") /\ UNCHANGED <<tracetrick, irq, attention>>
    /\ Counted
    /\ UNCHANGED <<machine, tick, escape, timers, debug>>

(* do_timer: the write of 0x8f is ignored unless the timer option allows   *)
(* it. The system call comes before the store.                             *)
ExecTimer ==
    /\ Executing /\ Op \in {"start", "stop"}
    /\ Branch(Next1)
    /\ IF Op = "start" /\ machine.timer \notin {2, 3}
         THEN Goto("top") /\ UNCHANGED timeron
         ELSE Goto("store") /\ timeron' = (Op = "start")
    /\ Counted
    /\ UNCHANGED <<machine, tick, cell, signals, sigalrm, tracetrick, debug>>

TimerStore ==
    /\ at = "store"
    /\ tick' = 0
    /\ Goto("top")
    /\ UNCHANGED <<machine, ipcreg, iccreg, isreg, stack, cell, signals, timers,
                   tracetrick, debug, history>>

ExecSync ==
    /\ Executing /\ Op = "sync"
    /\ Branch(Next1) /\ Goto("sync") /\ Counted
    /\ UNCHANGED <<machine, tick, cell, signals, timers, tracetrick, debug>>

SyncEnds ==
    /\ at = "sync"
    /\ irq # 0 \/ attention = 1
    /\ tracetrick' = IF "F" \in iccreg THEN 1 ELSE tracetrick
    /\ Goto("top")
    /\ UNCHANGED <<mvars, signals, timers, debug, history>>

ExecCwai ==
    /\ Executing /\ CwaiPush
    /\ Goto("cwai") /\ Counted
    /\ UNCHANGED <<signals, timers, tracetrick, debug>>

CwaiWait ==
    /\ at = "cwai"
    /\ \/ attention = 1
       \/ irq = 1 /\ "I" \notin iccreg
       \/ irq = 2 /\ "F" \notin iccreg
    /\ Goto("cwaivec")
    /\ UNCHANGED <<mvars, signals, timers, tracetrick, debug, history>>

CwaiVector ==
    /\ at = "cwaivec"
    /\ ipcreg' = IF irq = 1 THEN machine.irqv ELSE machine.firqv
    /\ Goto("cwaiclr")
    /\ UNCHANGED <<machine, iccreg, isreg, stack, tick, cell, signals, timers,
                   tracetrick, debug, history>>

CwaiClearIrq ==
    /\ at = "cwaiclr"
    /\ irq' = 0
    /\ Goto("cwaiattn")
    /\ UNCHANGED <<mvars, attention, escape, timers, tracetrick, debug, history>>

CwaiClearAttention ==
    /\ at = "cwaiattn"
    /\ attention' = IF machine.tracing THEN attention ELSE 0
    /\ Goto("top")
    /\ UNCHANGED <<mvars, irq, escape, timers, tracetrick, debug, history>>

-----------------------------------------------------------------------------
(* do_escape, before the prompt. *)

Mem(a) == IF a = CellAdr THEN cell ELSE 0
Less(n) == IF n = -1 THEN -1 ELSE n - 1

BpskipTest ==
    /\ at = "bpskip"
    /\ held' = bpskip
    /\ Goto(CASE bpskip # 0 -> "dec"
              [] bpskip = 0 /\ stkskip # 0 -> "stk"
              [] OTHER -> "stop")
    /\ UNCHANGED <<mvars, signals, timers, tracetrick, bpskip, stkskip, trskip,
                   breakpoint, history>>

(* bpskip--, which the compiler may do on the value that the test read.    *)
Decrement ==
    /\ at = "dec"
    /\ bpskip' \in {Less(held), IF bpskip = 0 THEN -1 ELSE Less(bpskip)}
    /\ held' = 0
    /\ Goto("list")
    /\ UNCHANGED <<mvars, signals, timers, tracetrick, stkskip, trskip,
                   breakpoint, history>>

Hit(b) == b.adr = ipcreg \/ b.watch # Mem(b.adr)
(* Mutant: a count stops one hit late. *)
StopsLate(b) == Hit(b) /\ b.count \in {-1, 0}

Stops(b) == Hit(b) /\ b.count \in {-1, 0, 1}
Passed(b) ==
    IF Hit(b) THEN [adr |-> b.adr, watch |-> Mem(b.adr),
                    count |-> IF b.count > 0 THEN b.count - 1 ELSE b.count]
              ELSE b

(* The walk along the list ends at the first entry that stops; a temporary *)
(* one is taken out.                                                       *)
FirstStop == CHOOSE i \in DOMAIN breakpoint :
                 /\ Stops(breakpoint[i])
                 /\ \A j \in 1..i-1 : ~Stops(breakpoint[j])
Walked(k) == [i \in DOMAIN breakpoint |->
                 IF i <= k THEN Passed(breakpoint[i]) ELSE breakpoint[i]]
Without(s, k) == SubSeq(s, 1, k - 1) \o SubSeq(s, k + 1, Len(s))

WalkList ==
    /\ at = "list"
    /\ IF \E i \in DOMAIN breakpoint : Stops(breakpoint[i])
         THEN /\ Goto("stop")
              /\ breakpoint' = IF breakpoint[FirstStop].count = -1
                                 THEN Without(Walked(FirstStop), FirstStop)
                                 ELSE Walked(FirstStop)
         ELSE Goto("exec") /\ breakpoint' = Walked(Len(breakpoint))
    /\ UNCHANGED <<mvars, signals, timers, tracetrick, bpskip, held, stkskip,
                   trskip, history>>

(* Mutant: the stack pointer must be beyond the call's. *)
StkTestBeyond ==
    /\ at = "stk"
    /\ Goto(IF Op \in {"rti", "swi2"} \/ isreg > stkskip THEN "stop" ELSE "exec")
    /\ UNCHANGED <<mvars, signals, timers, tracetrick, debug, history>>

StkTest ==
    /\ at = "stk"
    /\ Goto(IF Op \in {"rti", "swi2"} \/ isreg >= stkskip THEN "stop" ELSE "exec")
    /\ UNCHANGED <<mvars, signals, timers, tracetrick, debug, history>>

(* Mutant: one instruction more. *)
StopLater ==
    /\ at = "stop"
    /\ stkskip' = 0 /\ sigalrm' = FALSE
    /\ IF trskip > 0 THEN Goto("term") /\ trskip' = trskip - 1
                     ELSE Goto("prompt") /\ UNCHANGED trskip
    /\ pressed' = IF trskip > 0 THEN pressed ELSE "no"
    /\ UNCHANGED <<mvars, signals, timeron, tracetrick, bpskip, held,
                   breakpoint, cmd, since>>

(* Mutant: the last step is counted at the prompt too. *)
StopCounts ==
    /\ at = "stop"
    /\ stkskip' = 0 /\ sigalrm' = FALSE
    /\ trskip' = trskip - 1
    /\ Goto(IF trskip > 1 THEN "term" ELSE "prompt")
    /\ pressed' = IF trskip > 1 THEN pressed ELSE "no"
    /\ UNCHANGED <<mvars, signals, timeron, tracetrick, bpskip, held,
                   breakpoint, cmd, since>>

(* restart0: restore_term ignores SIGALRM. While s has instructions left   *)
(* there is no prompt.                                                     *)
Stop ==
    /\ at = "stop"
    /\ stkskip' = 0 /\ sigalrm' = FALSE
    /\ IF trskip > 1 THEN Goto("term") /\ trskip' = trskip - 1
                     ELSE Goto("prompt") /\ UNCHANGED trskip
    /\ pressed' = IF trskip > 1 THEN pressed ELSE "no"
    /\ UNCHANGED <<mvars, signals, timeron, tracetrick, bpskip, held,
                   breakpoint, cmd, since>>

-----------------------------------------------------------------------------
(* The prompt. *)

Leave(c, n) == /\ at = "prompt" /\ Goto("leave")
               /\ cmd' = [c |-> c, n |-> n]
               /\ since' = 0 /\ UNCHANGED pressed
               /\ UNCHANGED <<mvars, timers, tracetrick, irq, held>>
Stay == /\ at = "prompt" /\ at' = at
        /\ UNCHANGED <<timers, tracetrick, irq, held, history>>

Break(a, n) == <<[adr |-> a, count |-> n, watch |-> Mem(a)]>> \o breakpoint
Temps == SelectSeq(breakpoint, LAMBDA b : b.count = -1)

(* s [count], which is also what n does where there is no call and what an *)
(* unknown command does.                                                   *)
CommandS(n) ==
    /\ Leave("s", n)
    /\ trskip' = n /\ bpskip' = 0
    /\ attention' = 1 /\ escape' = 1
    /\ UNCHANGED <<stkskip, breakpoint>>

(* nexti: the instructions that n steps over. *)
AtCall == ipcreg \in DOMAIN machine.code /\ Op \in {"bsr", "swi", "swi2", "cwai"}

(* n at a call: a temporary breakpoint behind it. *)
CommandN ==
    /\ AtCall
    /\ Len(Temps) < MaxTemps
    /\ Leave("n", 0)
    /\ breakpoint' = Break(Next1, -1)
    /\ bpskip' = -1
    /\ UNCHANGED <<attention, escape, stkskip, trskip>>

CommandF ==
    /\ Leave(IF bpskip = 0 THEN "f" ELSE "f skipping", isreg)
    /\ stkskip' = isreg + 2
    /\ attention' = 1 /\ escape' = 1
    /\ UNCHANGED <<bpskip, trskip, breakpoint>>

CommandC(n) ==
    /\ Leave("c", 0)
    /\ bpskip' = n
    /\ attention' = 1 /\ escape' = 1
    /\ UNCHANGED <<stkskip, trskip, breakpoint>>

(* The operator watches a byte only if the program writes it. *)
Written == {CellAdr : a \in {p \in DOMAIN machine.code :
                                machine.code[p].op = "poke"}}

CommandB(a, n) ==
    /\ Stay
    /\ Len(breakpoint) - Len(Temps) < MaxBreaks
    /\ breakpoint' = Break(a, n)
    /\ bpskip' = -1
    /\ UNCHANGED <<mvars, attention, escape, stkskip, trskip>>

CommandD(k) ==
    /\ Stay
    /\ breakpoint' = Without(breakpoint, k)
    /\ UNCHANGED <<mvars, attention, escape, bpskip, stkskip, trskip>>

CommandR ==
    /\ Stay
    /\ ipcreg' = machine.resetv
    /\ bpskip' = 0
    /\ attention' = 1 /\ escape' = 1
    /\ UNCHANGED <<machine, iccreg, isreg, stack, tick, cell, stkskip, trskip,
                   breakpoint>>

(* The end of do_escape. *)
LeaveDebugger ==
    /\ at = "leave"
    /\ IF \/ machine.tracing \/ breakpoint # <<>>
          \/ trskip # 0 \/ bpskip # 0 \/ stkskip # 0
         THEN attention' = 1 /\ escape' = 1
         ELSE attention' = 0 /\ UNCHANGED escape
    /\ Goto("term")
    /\ UNCHANGED <<mvars, irq, timers, tracetrick, debug, history>>

(* set_term. *)
SetTerm ==
    /\ at = "term"
    /\ sigalrm' = TRUE
    /\ timeron' = (timeron \/ machine.timer = 0)
    /\ Goto("exec")
    /\ UNCHANGED <<mvars, signals, tracetrick, debug, history>>

-----------------------------------------------------------------------------
(* The signal handlers: SIGALRM, and SIGINT from the escape key, which is  *)
(* an interrupt character only while the terminal is set to raw.           *)

TimeHandler ==
    /\ timeron /\ sigalrm
    /\ attention' = 1 /\ irq' = machine.timerirq
    /\ tick' = 1
    /\ UNCHANGED <<machine, ipcreg, iccreg, isreg, stack, cell, at, escape,
                   timers, tracetrick, debug, history>>

(* Mutant: c is not broken off. *)
HandlerKeepsSkip ==
    /\ at \notin {"prompt", "leave"}
    /\ escape' = 1 /\ attention' = 1
    /\ stkskip' = 0
    /\ pressed' = IF at = "dec" THEN "dec" ELSE "yes"
    /\ UNCHANGED <<mvars, at, irq, timers, tracetrick, bpskip, held, trskip,
                   breakpoint, cmd, since>>

Handler ==
    /\ at \notin {"prompt", "leave"}
    /\ escape' = 1 /\ attention' = 1
    /\ bpskip' = 0 /\ stkskip' = 0
    /\ pressed' = IF at = "dec" THEN "dec" ELSE "yes"
    /\ UNCHANGED <<mvars, at, irq, timers, tracetrick, held, trskip, breakpoint,
                   cmd, since>>

-----------------------------------------------------------------------------
Init ==
    /\ MInit
    /\ at = "top" /\ irq = 0
    /\ attention = (IF machine.start \/ machine.tracing THEN 1 ELSE 0)
    /\ escape = (IF machine.start THEN 1 ELSE 0)
    /\ sigalrm = TRUE /\ timeron = (machine.timer = 0)
    /\ tracetrick = 0
    /\ bpskip = 0 /\ held = 0 /\ stkskip = 0 /\ trskip = 0
    /\ breakpoint = <<>>
    /\ cmd = NoCmd /\ since = 0 /\ pressed = "no"

Loop == \/ Top \/ IrqTest \/ Irq1 \/ Irq2 \/ ClearAttention \/ ClearIrq
        \/ EscapeTest
Execute == \/ ExecPlain \/ ExecPuls \/ ExecTimer \/ TimerStore \/ ExecSync
           \/ SyncEnds \/ ExecCwai \/ CwaiWait \/ CwaiVector \/ CwaiClearIrq
           \/ CwaiClearAttention
DoEscape == \/ BpskipTest \/ Decrement \/ WalkList \/ StkTest \/ Stop
            \/ LeaveDebugger \/ SetTerm
Command == \/ \E n \in StepCounts : CommandS(n)
           \/ CommandN \/ CommandF \/ CommandR
           \/ \E n \in ContinueCounts : CommandC(n)
           \/ \E a \in BreakAdrs \cup Written, n \in BreakCounts : CommandB(a, n)
           \/ \E k \in DOMAIN breakpoint : CommandD(k)

Interpr == Loop \/ Execute \/ DoEscape
Next == Interpr \/ Command \/ TimeHandler \/ Handler

Spec == Init /\ [][Next]_vars

(* The process runs, and while the interval timer runs it expires.         *)
FairSpec == Spec /\ WF_vars(Interpr) /\ WF_vars(TimeHandler)
=============================================================================
