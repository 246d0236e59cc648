# Verification of sbc09: the v09 simulator and its monitor

TLA+ modules, TLC configurations and TLAPS proofs for shinji-kono/sbc09: the
6809 simulator `v09` (`src/src/`), the monitor program that runs on it
(`src/src/monitor.asm`) and the devices between the two. Paths below are
relative to `src/`, so `src/io.c` is the file `src/src/io.c` of the tree.

Each module is translated from the code, and `PROJECT.json` names the lines each
definition stands for. A definition under the comment "Mutant:" is a plausible
bug kept next to the code's version; no specification uses it, and each property
is checked to fail when the mutant takes the place of the original.

    tlc -workers 2 -config Engine.cfg MCEngine.tla
    tlapm EngineProofs.tla

## 1. Inventory

### The simulator process

| part | state | operations | correct when |
|---|---|---|---|
| loop `interpr` (`src/engine.c`) | registers, memory, `attention`, `irq`, `tracetrick` | the head of the loop takes interrupts and calls the debugger; one instruction per round; SYNC and CWAI wait inside one | an interrupt is transparent, comes at most once per request and where it is not masked; a return finds the frame of its call |
| signal handlers (`src/io.c:371-403`) | write `attention`, `irq`, `escape` (`volatile`), `bpskip`, `stkskip` (not `volatile`) and the timer's register | `timehandler` on SIGALRM every 20 ms; `handler` on SIGINT, which is the escape key | no handler derails the loop, whichever two accesses it comes between; the key is heard |
| debugger `do_escape` (`src/trace.c`) | `bpskip`, `stkskip`, `trskip`, the list of breakpoints and watches | called before an instruction when `escape` is set; commands s n f b d c R U D X and dumps | breakpoints stop, counts are exact, `f` stops at the pop, the program sees nothing of it |
| terminal and ACIA (`src/io.c`) | `f`, the one character of look-ahead; `xmstat`, `xfile`, `xmbuf`, `xidx`, `acknak`, `rcvdnak`, `blocknum` | `do_input`, `do_output`, `char_input`: during a transfer they are one end of XMODEM | the file gets through once, in order and whole; the file is closed when the transfer is over |
| disk controller (`do_disk`) | seven device registers, two images | a write to the command register reads or writes a sector through the MMU; 0 and 1 in the debugger exchange an image | the sector goes where the guest's map said; the status is that of the transfer |
| virtual disk (`src/vdisk.c`) | path descriptors, the table of current directories | the calls of an OS-9 file manager, done on the host's files | a path is used only while open; an error is reported as an error |
| MMU (`paddr`, `do_mmu`) | two maps, and which is active, kept three times: in a register, in `mmu` and in the loop's `immu` | every memory access | the copies agree; a byte written is the byte read under the same map |
| instructions (`src/engine.c`) | registers, memory | arithmetic, flags, addressing modes, stacks | the 6809's definition, which three interpreters of the repository write down apart |
| disassembler (`src/d09.c`), step over (`nexti`) | tables | the length of an instruction and the addresses it names | they agree with the interpreter |

### The guest's side

| part | state | operations | correct when |
|---|---|---|---|
| monitor's XMODEM receiver (`src/monitor.asm:1145-1355`) | `xmode`, `xpacknum`, `xsum`, `lastok`, `xcount`, `buf0` | XL reads through `getchar`, which is `xgetc`; `xrcvbuf` receives a block; `xabtin`, `xclsin` | what the program reads is the file |
| monitor's XMODEM sender (`src/monitor.asm:996-1143`) | `xpacknum`, `xcount`, `buf0` | XS writes through `putchar`, which is `xputc`; `xsendbuf`, `xsendeot`, `xclsout` | what is written is what was put |
| monitor's trace (`src/monitor.asm`, `T`) | the SWI frame | SYNC, then PULS of every register: the simulator (`-t`) raises FIRQ after one instruction | control comes back after one instruction |
| disk driver (`os9/level1/pdisk.asm`), file manager `vrbf` (`os9/level2/vrbf.asm`) | device registers; `P$DIO`, the current directories of a process | READ and WRITE of a sector; the calls of the virtual disk, interrupts masked | the caller gets what it asked for, and hears of a failure |
| rest of the monitor, other OS-9 boot modules, languages and games | | sequential programs that run on the simulator | |

### Tools

Assembler `a09`, disassembler `d09` as a program, ROM and OS-9 image tools.
Sequential, from file to file. The older single-file simulators `v09s.c` and
`v09st.c` interpret the same instructions without devices; `make` builds the
binary `v09st` from `v09s.c` with `-DTRACE` and never compiles `v09st.c`.

### How the parts interact

The process has one thread. The loop calls the devices (`GETBYTE`/`SETBYTE` on
`IOPAGE`), the debugger and, in OS-9 builds, the virtual disk. Signals interrupt
it between any two machine instructions and share plain `int` variables with it.
Host and guest ends of XMODEM share no queue: a guest read of the ACIA calls
`char_input`, a guest write calls `do_output`; what lies between them is
`acknak`, `rcvdnak` and `f`. The operator starts the guest's end at the monitor's
prompt and then the host's end at the debugger's (with the host's end first, the
prompt would get the file instead of keys), and may give U, D and X again, or type,
at any time. The debugger and the loop share
`escape` and `attention`; `set_term` changes what SIGINT and SIGALRM do.

### What is hard here

Signals between the three reads of `irq` at one interrupt, and between a test
and a decrement in the debugger; the pair (`acknak`, `rcvdnak`), which decides
whether a block is released, repeated or skipped; operators who give U, D or X in
the middle of a block; senders without timeouts; counters with special values -1,
0 and 1; block numbers that wrap; frames of three kinds on one stack; bytes that
name directories in a table that goes round; descriptors of failed calls that are used
again; eight accesses to a device that make one transfer; copies of the map; flags at
the edges of a byte, and the order of reads, increments and pushes in one instruction.
`PROJECT.json` lists these hazards line by line with the properties for them.

## 2. Modules

    Transfer        what a transfer promises                     (abstract)
    XmodemHost      host end: io.c and the commands U, D, X
     +- XmodemLoad      + monitor's receiver    (guest loads: XL and U)
     |   +- XmodemLoadProps, XmodemLoadInv, MCXmodemLoad
     |   +- XmodemHostProofs, XmodemLoadProofs
     +- XmodemSave      + monitor's sender      (guest saves: XS and D)
         +- XmodemSaveProps, XmodemSaveInv, MCXmodemSave
         +- XmodemSaveProofs
    Machine         the control part of the 6809
     +- Guest           what a program may count on              (abstract)
     +- Engine          the loop, the handlers, the debugger
         +- EngineProps, EngineInv, MCEngine
         +- EngineProofs
    Alu             arithmetic and flags of a byte and a word
     +- Numbers         what the numbers mean: signed, decimal         (abstract)
     +- Cpu             the instructions of engine.c
         +- CpuProofs
         +- Agreement       with V09s, V09st, D09, and nexti of trace.c
             +- AgreementProps, MCAgreement
             +- AgreementProofs
    Vdisk           the virtual disk: descriptors, directories, the host's names
    VdiskLines      I$ReadLn and I$WritLn on the bytes of a line
     +- VdiskProps, MCVdisk, VdiskProofs
    Board           what a guest may count on of memory and disks      (abstract)
    Disk            registers, maps, do_disk and the driver
     +- DiskProps, MCDisk, DiskProofs       (HostFile: read and write of the host)

### XmodemHost, XmodemLoad, XmodemSave

`XmodemHost` keeps the variables of `io.c` under their names. Its operators are
the branches of `char_input` and `do_output` (`FirstBlock`, `NextBlock`,
`Retransmit`, `EndOfFile`, `StoreByte`, `StoreBlock`, ...) and the debugger
commands. A write of the answer while a block is under way, the reset of
`rcvdnak` when its last byte leaves, the zeros behind a short `fread`, and the
block that is written although its checksum is wrong are as in the code.

`XmodemLoad` and `XmodemSave` compose it with one end of the monitor. `pc` names
the routine; a step is one access to the ACIA with the code up to the next one.
Three things about the accesses matter and are kept:

- `osgetc` and the timed reads look at the status register first, and read the
  data register in a later step: `Poll`, then the routine's own action.
- A status read fetches a character into `f`. `osputc` reads the status too, to
  see whether it can send, and so fetches characters as well (`StatusRead`).
- Entering the debugger throws away what has been typed (`tcsetattr` with
  `TCSAFLUSH`), so `kbd` is emptied by U, D and X.

Time is abstracted: a timed read may time out when there is nothing in `f` and
nothing to fetch. A character that is there is always seen first, because the
host answers at once: the line does not lose or delay anything.

The data are bytes of a small modulus, and a file is a member of a small set.
The program behind XL may stop at any byte (`XAbortIn`, `XCloseIn`), as the
loader of S records does.

Left out: the input file of the command S and the log file of L, which sit in
front of the terminal; what the console echoes; `XO`, the monitor's line-end
options; XS with length 0, which means 65536 bytes. XL without U times out and asks
again for ever, XS without D waits.

The debugger takes U, D and X at any time (`src/trace.c:382-425`), and so do `Upload`,
`Download` and `Cancel`: in the middle of a block, after an acknowledged one, with an
answer on the line. Two histories note what became of it. `orderly` (`XmodemLoad`) is
FALSE from a U or a key on that the protocol cannot survive until the next XL; `inStep`
(`XmodemSave`) is FALSE from a D on that leaves the host at another character or block than
the monitor until the next D or XS that does not. See "The operator's discipline".

### Machine, Engine, Guest

`Machine` is the part of the 6809 that interrupts touch: program counter, the E,
F and I bits, the stack. A program is a function from addresses to instructions
of one address each. A frame is a record of its kind (2, 3 or 12 bytes) with the
bits it saved, and `isreg` counts bytes, because `f` and PULS compare it. A
return that meets a frame of another kind goes to `Lost`, outside every program.
Arithmetic, the MMU and the second stack are not there. One data byte (`cell`)
is, so that watches have something to watch; the timer's register is there as
its tick bit.

`Engine` is the loop. `at` names the next statement, and a step reaches to the
next access to a variable that a handler writes; so the three reads of `irq`
(`src/engine.c:251-275`) are three steps with SIGALRM possible between
them, as are the test and the decrement of `bpskip` (`src/trace.c:152-153`). `held`
is the value the test read: `bpskip` is not `volatile`, so the compiler may
decrement what it has in a register. `TimeHandler` and `Handler` are the signal
handlers. At the prompt SIGALRM is ignored and the terminal is in its ordinary
mode, so neither can come. Writes to the timer run `do_output` first and store
the byte in a second step (`TimerStore`).

`Guest` is what a program relies on: instructions in order, an interrupt between
two of them, at most once each time a source has raised it, never where masked
(CWAI aside, see 4), a tick bit that stays until it is written. It has no
handlers, no `attention`, no debugger. `EngineProps` maps `Engine` to it: the
guest's `mode` is read from `at`, and a request that is being taken is no longer
`raised`.

The machines in `MCEngine`:

- `Os9` (`v09 -rom`): masked start, timer started by the program, system calls,
  SYNC as the idle loop, a clock routine that polls the tick bit as
  `os9/level1/clock.asm:42-52` does.
- `Monitor` (`v09`, `-t`): a program that returns to the monitor by SWI and is
  traced by SYNC and PULS, with the timer on FIRQ.
- `Calls` (`v09 -nt`): nested calls under the debugger, a byte that is written, and
  a program that stops and starts the timer.
- `Cwai`: CWAI with E set beforehand.

### Alu, Cpu, V09s, V09st, D09, Agreement

`Cpu` is one round of `interpr` for every opcode, prefix and postbyte of the build
without the MMU: `Exec(m, junk)` is the machine after an instruction of the machine
`m`. The macros of the code (`SETNZ8`, `ADD`, `SUB`, `DAA`, ...) are the operators of
`Alu`. Condition codes are a set of letters, memory is a function. `junk` is what the
code's uninitialized word holds when TFR or EXG names a register that does not exist.
`V09s` and `V09st` are the same for the two old simulators, written as what they do,
opcode by opcode where they differ in structure. `D09` is the disassembler: the
tables, the length of a line and the address it shows. `nexti` is the length by which
the debugger steps over a call.

`Agreement` loads a short program, runs it on `Cpu` and asks the others about every
state it comes to. The translation was also compared by hand with the compiled C:
ten thousand random instructions through `engine.c`, and thousands through each of
`v09s.c`, `v09st.c` and `d09.c`, gave the same registers, memory and listing.

### Vdisk, VdiskLines

`Vdisk` has the descriptors `pdv`, the table `cdt` of current directories with its
index `cdtptr`, and the byte `dio` by which the kernel keeps a directory for a process.
An action is one call, because `vrbf.asm` runs with interrupts masked. A name is
resolved by `checkFileName` from an absolute or a relative path list; it may fail and
leave the name of the call before. The host may refuse a call (`host`). Files and
directories are inodes: `fs` maps paths to them, so that a file removed while open
stays what the stream reads. `goal`, `want` and `taken` are histories: what the process
meant, and how many entries of `cdt` have been used. `VdiskLines` is about the
bytes of a line, CR in OS-9 and LF on the host, with `fgets` and its final 0.

What a directory shows is not what is in it. `os9opendir` writes each entry with
24 bits of its inode and 29 characters of its name, and `filedescriptor` reads the name
again from there: behind 29 characters it goes on into the inode's bytes, and a name of
one letter is refused. `Low` is what is left of an inode, `EntryName` what is read of a
name, and `Listing` the image that a stream on a directory has. "." (refused too) and ".." are in
it; `Above` is the inode of the directory that the drive's root lies in. `FdInfo` takes any
entry of the number asked for, in the first open directory that has one: their order is
that of `readdir`.

`drv` is the directory given to `-v`, as a path relative to where the simulator runs, and
empty for ".". A descriptor's name begins with it, against the comment at `src/vdisk.c:46`,
and `Fd` puts the current directory's name and `drv` before that once more. So SS.FD finds
nothing when the Makefiles' `-v os9/level1` is in use, or another file if there
is an `os9/level1` below the current directory. An absolute `-v` is left out: there
`filedescriptor` reads `drv` of a local descriptor that nothing has set
(`src/vdisk.c:383-390`).

File contents, positions, sizes, dates and modes are left out, and so is a ReadLn of a
line without an end.

### Board, Disk

`Disk` composes the device page, SETBYTE, `do_mmu`, `do_disk`, the debugger's 0, 1 and R
and the driver, of which each instruction that touches a register is a step; stores,
task switches, changes of a map and the debugger come between any two. A sector goes
through `mmu`, the map pointer that `do_mmu` sets; stores go through `immu`, local to the
loop, which follows it because SETBYTE returns the pointer after a write to the device.
Without the MMU, SETBYTE stores the byte also behind the device, over the status that
`do_disk` has just put there, unless the ROM covers the address.

`Board` has none of this: one map, selected or changed in a step; a call of the driver
notes what is asked and where the buffer is at that time, and one later step moves the
sector. `HostFile` is what `lseek`, `read` and `write` do to a file, external to the
code: a read beyond the end gives what there is, a write extends the file.

The kernel is not in the repository. What is assumed of it: it calls the driver in the
system's map, changes that map only between calls, and code that interrupts the driver
selects it again before it returns. Buffers are aligned to sectors, as `rbf` allocates
them: a sector is read to consecutive physical addresses, and one that crossed a
block of the map would not follow it. Sector numbers from 2^23 on, whose byte
position overflows an `int`, are left out.

## 3. Runs

| run | what it asks | states |
|---|---|---|
| `XmodemLoad` | safety, liveness and refinement of loading | 477 108 |
| `XmodemSave` | the same of saving | 345 263 |
| `Engine` | the loop on the four machines | 865 165 |
| `Vdisk` | descriptors, current directories and lines of the virtual disk | 29 427 |
| `Agreement` | every instruction on four interpreters; programs of comparisons, sums, stacks | 42 527 |
| `Disk` | memory map, MMU, controller and driver | 225 890 |
| `XmodemLoadPrev`, `XmodemLoadClose`, `EngineFinish`, `EngineEscape`, `EngineCwai`, `VdiskChgDir` | what a comment, the help or the manual says and the code does not do | |

Loading, in an orderly session. `LoadPrefix`: what the program has read is the beginning
of the file, then zeros, whatever the operator cancels, restarts or types. `InStep`: in the
middle of a block both ends are at the same character, as nothing would
resynchronise them; and when U came in the middle of a block, the host is silent until the
monitor has given that block up. `EndComplete`: an ACK left from a block never ends a transfer.
`IInv`: the inductive invariant (5); a part of it is `FileOpen`, that `xfile` is open
exactly while a transfer runs. `LoadEnds`: a transfer ends. `LoadTransfers`: the
protocol implements `Transfer`.

Saving, after a D in step. `SavePrefix`: each block is in the file once and in order, although a NAK
makes the monitor send it again. `AckedWritten`: what the monitor believes
acknowledged is in the file. `NotBothWaiting`: the monitor, which has no
timeouts, never waits for a host that has nothing to say. `SaveInv`: the inductive
invariant (5). `EndComplete`, `SaveEnds`, `SaveTransfers` as above.

Simulator. `NotDerailed`: interrupts are transparent, wherever they come.
`TickBitAtPoll`: the clock routine never finds the tick bit clear, where it would
take the interrupt for another device's. `BreakStops`: a breakpoint that is due,
or a changed watch, is not passed. `StepsExact`: s N comes back after exactly N
instructions. `FinishStopsAfterStep`: f stops at the pop when `bpskip` is 0.
`EscapeHeard`: the escape key leads to the prompt, unless pressed between test and
decrement. `EngineImplementsGuest`: refinement. `DebuggerInv`: the inductive
invariant (5).

Virtual disk. `CurDirNames`: the byte the kernel keeps still stands for the directory a
process changed to last, whatever others do and whatever fails. `OpenIsMeant`: an open
path has a stream, of the file that was meant. `DirFlag`: the flag tells directories from
files. `OnlyMeant`: no call makes or removes another file than the one meant, but for
Create with a refused path list. `InfoRight`: SS.FDInf answers with a file of
the number asked for or with none, when the directories that are open are the caller's
current one, unchanged, and no name in it is cut; SS.FD answers with the open file itself when
`-v` is ".", the caller is in the root and the file still has its name. `LineKept`: a line written is read back the same.
Several hold only while `setcd` has taken no more entries than a byte can name
(`taken`): the table has 512, the 257th cannot be told from the first.

Instructions. `OldSimulatorsAgree`: the three interpreters leave the same registers, flags
and memory, except in the cases that `AgreementProps` names one by one (`Otherwise`).
`ListingAgrees`: what the disassembler shows has the length and the target that the
processor gives it, but for a branch by 127 and `[n,PCR]` with n negative. `StepOverReturns`: the
breakpoint of n is at the return address. `BranchOrder`: after a comparison a branch goes by the order
of the numbers. `SumsRight`: wide and decimal sums. `StackRestores`: PSH and PUL, SWI and RTI.

Memory and disk. `BoardRefined`: the guest sees `Board`; where the ROM starts above the
registers, all but the status.

### Bounds

- `Vdisk`: `CdtSize` 3 and `ByteSize` 2 for 512 and 256: as in the code the table is longer
  than the byte can name, and both go round. One process, in two systems: three directories
  and one path, where the index wraps, with `-v .`; two paths and two directories, where
  descriptors are reused and xy is a file or a directory, with a `-v` that is also a name below the root. One directory has a name of one
  letter, one a name that is cut to that of a file, and the two files agree in 24 bits.
- `Agreement`: all 256 opcodes behind no prefix, $10, $11 and both, with three operands and
  three sets of registers at the edges; twelve indexed instructions with all 256 postbytes;
  all 256 masks of PSH and PUL; comparisons and sums of numbers around the edges of a byte
  and a word (the theorems are for all). `MaxPrefix` 3: the code goes on from prefix to
  prefix for ever, and the last one counts; memory with no opcode behind three stops the run.
- `Disk`: two blocks of four bytes in a map of four, sectors of two; a byte has four values, so
  that sector and buffer need all the digits; two drives and one that does not exist, an
  image that ends within a sector and an empty one; two calls and two other steps.

- Bytes modulo 8 (256 in the code), blocks of 2 bytes (128). The control
  characters are five of the eight, so the files contain them as data. The
  files of 17 bytes take nine blocks and wrap the block number; others are
  empty, part of a block, and not a whole number of blocks.
- Two sessions at the guest's end and two at the host's, one cancellation and one key:
  enough for a transfer to be cancelled, started again with any file and at any character,
  and disturbed by a key that is a control character. The proofs have no bound on these.
- A list of breakpoints with `MaxBreaks` = 1 given by b and `MaxTemps` = 1 made by n; counts
  1 (the boundary value) and -1; steps 1 and 2. The proofs have no bound on these.
- `since` counts instructions since the prompt up to one more than s asked for, or
  up to 1.
- `bpskip` = -1, for ever, stays -1. In the code it counts down and is 0 after
  2^32 instructions.
- `CHECK_DEADLOCK FALSE`: with the operator's bounds used up the system may stop,
  at the monitor's prompt or waiting for a terminal where nobody types.

### The operator's discipline

The operator may do everything at any time, but the protocol does not survive everything.
What follows is explored, and then nothing but the types, and in loading `FileOpen`, is claimed.

Loading, `orderly` becomes FALSE with:

- a U that does not begin the session (`Begins`): the monitor has accepted data of another
  file, or something that can be taken for a block or for the end is on its way. A second U
  starts at block 1, which the monitor takes for the previous block at best; the run
  `XmodemLoadPrev` shows what happens then. A U in the middle of a first block is in order: the
  host says nothing until it is asked, and the monitor gives the block up by its timeout.
- the key SOH, or any key outside a transfer while the monitor is in a block or has SOH or
  EOT on its line (`Quiet`). Outside a transfer the receiver reads the console, and cannot
  tell what is typed there from the file. Other keys are in order.

Saving, `inStep` becomes FALSE with a D in the middle of a block, or after a block was
acknowledged, or with an ACK on the line (`Quiet`; a typed one counts). The host begins at
block 1 and at the first character of a frame. If it is one character off, a NAK answers each copy of the
block for ever, unless the second character it sees is SOH, which is 1 and so is the block
number it expects: then it writes a block that is shifted by one (`src/io.c:283-291`). If blocks
were acknowledged before, the host acknowledges those that follow without writing them, until the
number wraps, and the transfer ends as complete (`src/io.c:204-209`) with a file that lacks them.
Nothing in the code keeps the operator from this or reports it.

### Fairness

`XmodemLoad`: weak fairness of `Receive`, the receiver's steps: the simulator
interprets without pause and its timer goes on ticking. `XCloseIn` is fair while it
is between characters, because it is a loop of the monitor's own. No fairness of the
program that reads (it may stop reading) and none of the operator. `XmodemSave`: weak
fairness of `Guest`. `Engine`: weak fairness of `Interpr`, the process, and of
`TimeHandler`, the interval timer while it runs; none of the operator's commands or
of the escape key.

## 4. Findings

- `XmodemLoadPrev` (`src/monitor.asm:1193`): the branch for a repeated block is never
  reached. B is incremented before it is stored for the complement check, so the complement
  of a previous block never matches, and it is answered with NAK for ever.
- `XmodemLoadClose` (`src/monitor.asm:1329`): `xclsin` "gobbles up the remaining bytes"
  with `putchar`, which is a no-op while input is open; it loops for ever.
- `EngineFinish` (`src/trace.c:152`): f given after b or c does not stop at the pop,
  because `bpskip` is looked at first and the function returns.
- `EngineEscape` (`src/trace.c:153`): the escape key pressed between test and decrement
  of `bpskip` is lost: `bpskip` goes from 0 to -1. `EscapeHeard` says it is heard otherwise.
- `EngineCwai` (`src/engine.c:701`): CWAI ends on any `attention`, also for a masked
  interrupt or none, and takes the FIRQ vector if `irq` is not 1.

- `VdiskChgDir` (`os9/level2/vrbf.asm:206`): a ChgDir to a directory that does not exist
  returns without an error.

The exceptions that `AgreementProps` and `VdiskProps` name are differences too, which no text
of the repository contradicts: DAA is wrong for binary sums 250 to 255 without a carry (`SumsRight`),
TST and the 16-bit moves leave V, `v09s.c` has the branches BGE to BLE test N and V unshifted, both
old simulators read the register of CMPX ,X++ before the increment and PSHU stores U instead of S in
`v09s.c`. The disk driver (`os9/level1/pdisk.asm:80`) returns the status in B and leaves the carry alone.

Two more are excluded by a hypothesis. `c 0` at the debugger's prompt (`src/trace.c:278`) leaves
`bpskip` at 0, and on the way out `attention` is cleared (`src/trace.c:437`) although an interrupt may be
pending from before the prompt. It is taken when something else sets `attention`, and a clock routine
may then find the tick bit clear and take the interrupt for another device's. The proof of
`TickBitAtPollHolds` needs that 0 is not among `ContinueCounts`; TLC shows the case when it is added to
those of the run. The other is a file of no bytes. The monitor's
first NAK makes the host send EOT and is then taken for the answer to it, so the host
sends a block of zeros over and over (`src/io.c:195-198`); `LoadEnds` is about files
that are not empty.

## 5. Proofs

All proofs are checked by tlapm from the modules' assumptions on their constants
alone: `ByteModAssumption`, `BlkLenAssumption`, `ControlsAssumption` (`XmodemHost`),
`FilesAssumption`, `KeysAssumption`, `OperatorAssumption` (`XmodemLoad`),
`MemoriesAssumption`, `FillerAssumption`, `KeysAssumption`, `OperatorAssumption` (`XmodemSave`),
`MachinesAssumption`, `AddressAssumption` (`Machine`), `OperatorAssumption` (`Engine`), `PlanAssumption` (`EngineInv`),
`SizeAssumption`, `ModeAssumption`, `NodeAssumption`, `PathAssumption`, `EntryAssumption`, `SystemAssumption`
(`Vdisk`), `LetterAssumption` (`VdiskLines`), `RomAssumption` (`Cpu`), `ProgramsAssumption`, `DataAssumption`, `JunkAssumption` (`Agreement`),
`ShapesAssumption` (`AgreementProps`), `CodesAssumption`, `BoardsAssumption`,
`GuestAssumption` (`Disk`). TLC evaluates each of them in the run of its module.

Loading (`XmodemLoadProofs`, on lemmas about bytes and blocks in
`XmodemHostProofs`), for every block length, byte size, set of files and operator:

- `LoadTypeCorrect`: `TypeOK`, with no condition on the operator.
- `LoadInvariant`: `IInv`, whatever the operator does: one part is unconditional, the
  other, `Session`, is for orderly sessions. From it `LoadPrefixHolds`, `InStepHolds`,
  `FileOpenHolds`, `EndCompleteHolds`, and `LoadImplementsTransfer`, in which a session that
  stops being orderly counts as broken off.

`LoadPrefix` is not inductive: whether the next byte is right depends on what the
host thinks it has sent, which the monitor cannot see. `IInv` adds the four phases of
a transfer (`PhaseInv`): `Fresh`, U given and nothing sent; `InFlight`, a block on its way
or broken off, with the file position one block ahead; `Taken`, the monitor has the
block and the ACK is due; `Ended`, EOT is sent. Each phase fixes `acknak`, the
possible `rcvdnak`, the file position and the block number relative to what the
monitor has accepted. `BlockInv` says that the block being read is the one the monitor
expects and that what it has read is stored, also after a cancellation in the middle;
`DataInv` places `buf0` in the file.

Saving (`XmodemSaveProofs`, on the same lemmas), for every block length, byte size and
operator:

- `SaveTypeCorrect`: `TypeOK`.
- `SaveInvariant`: `SaveInv`. What it says of the file, the frame and the answers (`StepInv`)
  holds while `inStep` does, and each XS and each D in step establishes it anew, whatever went
  before. From it `SavePrefixHolds`, `AckedWrittenHolds`,
  `NotBothWaitingHolds`, `SaveCompleteHolds` (`EndComplete`) and `SaveImplementsTransfer`.

Neither `SavePrefix` nor `AckedWritten` is inductive, because a block is written before
the monitor knows it. `FileInv` says that the file is what is acknowledged, or one block
ahead, and then the block number is ahead too: the second copy of a block, sent after a
NAK, is the one the host drops. That a file which is not ahead has no ACK waiting needs
`AnswerInv`: which answer is in `f` or in `acknak` at each place of the monitor. `FrameInv`
says that the host is at the same byte of the frame and has what was sent of it, `DataInv` that
`buf0` is what was put since the last ACK. The host writes a block whatever its checksum is, so
nothing about checksums is needed.

Simulator (`EngineProofs`), for every program, vector and command argument:

- `EngineRefinesGuest`: refinement, step by step, needing no invariant: in each step of
  `Engine` the guest stutters or makes one step of `Guest`.
- `EngineTypeCorrect`, `DebuggerInvariant`, `BreakStopsHolds`, `StepsExactHolds`,
  `FinishStopsAfterStepHolds`.
- `KeepsToPlan`, `NotDerailedHolds`, `TickBitAtPollHolds`, for every program that has a plan.

`BreakStops` needs to know that the debugger is entered at all: `escape` is set
whenever `bpskip` counts, and while s counts `bpskip` is 0 (`SkipInv`). `StepsExact`
needs the sum of what is done and what is left (`StepInv`). The walk through the list stops at
the first entry that is due; that there is a first one is the lemma `LeastOf`.
`FinishInv` carries that the loop comes by the debugger before each instruction after f, and
that `stkskip` is what f set, or 0, which the escape key makes of it. From it and `NotDerailed`
(the stack pointer is never below 0) follows `FinishStopsAfterStepHolds`.

`NotDerailedHolds` and `TickBitAtPollHolds` are about programs that have a plan (`Plan`,
`PlanAssumption`): a program may derail itself, and the theorems say that nothing else does. A plan
is a set of situations before an instruction: the place, the condition codes, the kind of the innermost
frame, the stack pointer, and whether the tick bit is known to be set (`told`). It covers the
program (`Covers`) when it holds the start and is closed under the instructions (`Done`),
interrupts (`Interrupted`) and the debugger's R, and each situation in it is `Sound`: RTS
stands on the frame of a call, RTI on one of an interrupt, CWAI has E set beforehand, the tick bit is polled
where it is told. It knows nothing of the frames below the innermost one, nor of when an interrupt comes,
so it is small where the runs are not: TLC computes the least one of each machine (`MCPlan`,
12 to 30 situations) and checks the assumption. `KeepsToPlan` is the invariant: `FramesInv`, every frame on the
stack leads back into the plan, whatever has been pushed above it; `PlaceInv`, the program is
in a situation of the plan, at every access to a shared variable inside an instruction;
`IrqInv`, an interrupt has a source that the plan knows, and in a program that polls it is
taken before its tick bit can be cleared. A program that polls may write the timer only with IRQ masked
and has no CWAI, which drops `attention` after a tick.

Virtual disk (`VdiskProofs`), for tables and bytes of any size and any number of processes,
paths and files: `TypeHolds`, `CurDirHolds`, `OpenHolds`, `DirFlagHolds`, `OnlyMeantHolds`, `InfoRightHolds`.
`CurDirNames` is not inductive: that no entry in use is taken again follows from the
order in which entries are taken, so the invariant relates `cdtptr`, `taken` and the bytes
handed out: before the table has gone round, the entries in use are those below the index.
`InfoRightHolds` needs little of the state but its types: every entry of a listing that is
still right leads back to a file of its number, by its name or by ".." to the parent directory, and
two inodes that agree in 24 bits have the same number.
`LineKeptHolds` is about lines of any length, whatever is behind them in the buffer and in the
file: where the first CR, the first LF and the final 0 are, and so that both ends count the
same characters.

Instructions. `CpuProofs` is about the operators of `Alu` and `Cpu` alone, for all bytes, words, flags
and machines: among others
`CompareOrder8` and `CompareOrder16` (a branch after a comparison goes by the order of the numbers,
where V and N are computed from bits of a wider difference), `AddAddsWords` and `SubSubtractsWords`
(two byte operations make a word operation, with its flags), `DecimalSums` (DAA). `AgreementProofs`
carries them to programs: `ExecutedHolds` is the invariant that a state is the loaded machine
after as many instructions as are done, and `BranchOrderHolds` and `SumsRightHolds` follow by decoding
the two instructions symbolically, for every operand, register, flag and place. `ShapesAssumption` says which
bytes the programs of each kind consist of; it holds for the programs of the run and is as
wide as the opcodes allow.
`AgreementTypeCorrect` is `TypeOK` for every program whatever: every opcode, row by row of the
table, behind any number of prefixes up to `MaxPrefix`, with every postbyte, on both stacks and
with the value that a transfer from no register reads, makes a `Machine` of a `Machine`
(`ExecType`). The C code keeps bytes in `Byte` and words in `Word` variables, which wrap; the
model writes every wrap down, and this theorem says that none was forgotten.
`StackRestoresHolds` is about every postbyte of PSH and PUL, on both stacks, and about SWI, SWI2 and
SWI3 with their handlers' RTI, for every register file, memory and place. What is pushed stays readable
while the stack sinks further (`PushInKept`), and `PullAll` undoes the pushes in the opposite order
(`PullAllUndoes`), although the postbyte it goes by, the handler and the vector are in the same memory:
`ShapesAssumption` asks that S or U has twelve bytes of RAM below it and that none of these is in them.
`StepOverReturnsHolds` compares two decoders: `nexti` of the debugger, which guesses from the opcode
and the postbyte where a call comes back, and the processor, which skips the operand and pushes its
program counter. It is about every machine and not about the programs of the run only; an operand such
as `,S++` moves the stack before the return address is pushed. Its hypothesis
`CallRoom` says that the instruction does not wrap around $FFFF, where the simulator's program counter
wraps and the debugger's sum does not, and that the address is pushed into RAM: into a ROM it is not
written.
`ListingAgreesHolds` compares the disassembler with the processor, for every machine: 256 opcodes
behind no prefix or either of the two, every postbyte and every place in memory, the last bytes
included. Three lemmas meet in it. `ExecPc`: how far `Exec` moves the program counter, row by row, with
`Following` for the bytes behind the opcode and `Extra` for those behind a postbyte. `EntryFits`: what
the three tables hold, length and kind of operand, which `TableFits` and `PrefixedFits` prove for every
entry that has a name. `DisplayLine`: what a line adds to its entry, and the address it shows. An
opcode that stands for nothing has no name, and nothing is claimed of it. The run allowed for an
offset of 32767 of a long branch, because `D_RelativeL` takes it for a negative one; the proof went
through without that exception, as the address is masked to 16 bits when it is printed, and
`ListingAgrees` no longer makes it.

`OldSimulatorsAgreeHolds` compares three interpreters, for every machine: each function of
`V09s` and `V09st` with the row of `Exec` for its opcode, behind every prefix and postbyte.
`SamePerform` and `SamePerformSt` are the two long lemmas, with one lemma below them per row or group
of functions. An old simulator stores into what is a ROM to the new one, so the memories
are the same below `romstart` only (`LikeRam`). What an opcode and its operand must be for the rows to
agree is said by `Common` and `CommonSt`, and `CommonLeft` and `CommonLeftSt` prove that the exceptions of
the property (`Otherwise`, `OtherwiseT`) leave nothing else.

Memory and disk (`DiskProofs`), for every board, map, image, request and guest, with no bound on
calls: `DiskInvariant` and from it `DiskImplementsBoard`, the refinement. The invariant has
three parts. `CopiesInv`: both pointers are the map of the code that runs. `LoadedInv`: the
registers written so far hold what the call asked for. `PlaceInv`: the system's map still sends the
buffer where it was at the call, although the sector moves eight accesses later.
`DiskTypeCorrect` is `TypeOK`: memory and images keep their kind whatever address and sector the
guest gives, where a read beyond the end of an image leaves the rest of the buffer and a write there
fills the gap. It needs that each map entry has memory (2 MByte with the MMU) and that a request's
buffer is below the registers and inside one block (`BoardsAssumption`).

### Only model-checked

- Liveness: `LoadEnds`, `SaveEnds`, `EscapeHeard` (fairness and ENABLED are outside
  what the prover handles).
- That the checksum of a block detects a change: the sum is a fold over data, and
  induction over data is outside what the prover handles.

The one RECURSIVE operator (`Grown` in `MCEngine`, which computes the plans) is used by TLC only.

## 6. Not modelled

- The assembler `a09` and the compilers of `mc09/` (`mc.c`, `mc2.c`): text to code without
  interaction.
- The rest of the monitor: S records, its own assembler and disassembler, its breakpoints.
  Sequential code with the operator as its only partner. The alternative monitor is a
  variant with the same XMODEM routines.
- The host's end for the other direction: D while XL runs, and U while XS runs. Each of the two
  modules has the commands of its own direction, and X.
- The image tools and the text of dumps and listings; the terminal, the memory dump and the
  trace output of `v09s.c`; the debugger's L and S and the log file.
- The timer's calendar registers; `gettimeout` and `osdly`, whose comparison of a running
  timer for equality is abstracted to an expiry at any time.
- Instructions under the MMU build, which differ in memory access only (`Disk` has that), and a
  word access at $FFFF, where `v09s.c` reads behind its array.
- The languages and games (programs on the simulator) and the OS-9 kernel (not in the repository;
  what is assumed of it is said with each module).
