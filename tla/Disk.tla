-------------------------------- MODULE Disk --------------------------------
(***************************************************************************)
(* Memory map, MMU and disk controller of v09 and v09c, with the driver    *)
(* os9/level1/pdisk.asm (level2's is the same). A step is one instruction  *)
(* of the guest that accesses the device, or a store.                      *)
(*                                                                         *)
(* The map in use is kept three times: as the byte in the device register, *)
(* as the global mmu that do_mmu sets and pmem reads, and as immu, local   *)
(* to interpr, through which instructions go.                              *)
(*                                                                         *)
(* The kernel is not in the repository. What is assumed of it: it calls    *)
(* the driver with the system map selected, does not change that map       *)
(* during the call, and code that interrupts the driver selects the system *)
(* map again before it returns; a sector's buffer does not cross a block.  *)
(***************************************************************************)
EXTENDS HostFile

CONSTANTS Data, ByteMod, Blocks, BlockSize, SectorSize, IoBlock, Images, NoDisk,
          Boards,               \* as in Board
          ReadCode, WriteCode,  \* the commands $81 and $55
          Stores, Maps,         \* stores and map entries the guest writes
          MaxCalls, MaxMoves    \* bounds: calls of the driver; other steps

VARIABLES board,
          ram,      \* phymem (mem without the MMU), below the device page
          dev,      \* registers of the device page
          dat,      \* the two maps, registers too
          mmu,      \* io.c: 0 when it points to $FFA0, 1 when to $FFA8
          immu,     \* interpr's copy
          files, disk,
          pc,       \* next instruction of the driver, 0 when it is not called
          req,      \* what it was called for
          place,    \* history: physical address of the buffer at the call
          b,        \* register B when it returns
          mode,     \* "system" or "user": what the kernel runs
          calls, moves
vars == <<board, ram, dev, dat, mmu, immu, files, disk, pc, req, place, b, mode,
          calls, moves>>

Byte == 0..ByteMod-1
Error == ByteMod - 1
IoPage == Blocks * BlockSize
Registers == {"status", "drive", "lsn2", "lsn1", "lsn0", "adr2", "adr1", "task"}

paddr(map, a) == BlockSize * map[a \div BlockSize] + (a % BlockSize)
(* Where an instruction finds the byte at a, and where do_disk does.       *)
mem0(a) == IF board.mmu THEN paddr(dat[immu], a) ELSE a
pmem(a) == IF board.mmu THEN paddr(dat[mmu], a) ELSE a

(* The codes $81 and $55 are neither 0 nor $FF. A gap in a file is bytes.  *)
ASSUME CodesAssumption ==
    /\ {ByteMod, Blocks, BlockSize} \subseteq Nat \ {0}
    /\ {SectorSize, MaxCalls, MaxMoves} \subseteq Nat
    /\ Blank \in Data
    /\ {ReadCode, WriteCode} \subseteq 1..ByteMod-2
    /\ ReadCode # WriteCode
    /\ IoBlock \in Byte
    /\ NoDisk \notin Images

(* With the MMU there is memory for every map entry, 2 MByte. Drive,       *)
(* sector and buffer are handed to the driver byte by byte; the buffer is  *)
(* below the I/O page and inside one block, as those of the kernel are.    *)
ASSUME BoardsAssumption ==
    \A bd \in Boards :
        /\ bd.mmu \in BOOLEAN
        /\ bd.rom \in Nat
        /\ bd.ram \in [0..(IF bd.mmu THEN ByteMod * BlockSize ELSE IoPage)-1 -> Data]
        /\ bd.files \in [Images -> Seq(Data)]
        /\ bd.dat \in [{0, 1} -> [0..Blocks-1 -> Byte]]
        /\ bd.disk \in [{0, 1} -> Images \cup {NoDisk}]
        /\ bd.requests \subseteq [op : {"read", "write"}, drive : Byte,
                                  lsn : Byte \X Byte \X Byte, buf : Byte \X Byte]
        /\ \A r \in bd.requests :
               LET a == ByteMod * r.buf[1] + r.buf[2]
               IN  a < IoPage /\ (a % BlockSize) + SectorSize <= BlockSize

(* The guest stores below the I/O page; a map entry is a byte.             *)
ASSUME GuestAssumption ==
    /\ Stores \subseteq (0..IoPage-1) \X Data
    /\ Maps \subseteq {0, 1} \X (0..Blocks-1) \X Byte

Init ==
    /\ board \in Boards
    /\ ram = board.ram
    /\ dev \in [Registers -> {0}]
    /\ dat = board.dat
    /\ mmu = 0
    /\ immu = 0
    /\ files = board.files
    /\ disk = board.disk
    /\ pc = 0
    /\ req \in board.requests
    /\ place = mem0(ByteMod * req.buf[1] + req.buf[2])
    /\ b = 0
    /\ mode = "system"
    /\ calls = 0
    /\ moves = 0

-----------------------------------------------------------------------------
(* SETBYTE1 of RAM, and of a register once do_output has done its part:    *)
(* with the MMU immu follows mmu, without it the byte is stored as well    *)
(* unless the ROM reaches down to the registers.                           *)
StoreRam(a, d) ==
    ram' = IF mem0(a) < board.rom THEN [ram EXCEPT ![mem0(a)] = d] ELSE ram

(* Mutant: the instruction goes on with the map it began with.             *)
FollowMapKept(map) == UNCHANGED immu
FollowMap(map) == immu' = IF board.mmu THEN map ELSE immu
Behind(registers, r, n) ==
    IF ~board.mmu /\ board.rom > IoPage THEN [registers EXCEPT ![r] = n] ELSE registers

WriteRegister(r, n) ==
    /\ dev' = Behind([dev EXCEPT ![r] = n], r, n)
    /\ FollowMap(mmu)
    /\ UNCHANGED <<ram, dat, mmu, files>>

(* do_disk, for the command register.                                      *)
Lsn == ByteMod * ByteMod * dev.lsn2 + ByteMod * dev.lsn1 + dev.lsn0
Phy == pmem(ByteMod * dev.adr2 + dev.adr1)
NoDrive == dev.drive > 1 \/ disk[dev.drive] = NoDisk

WriteCommand(c) ==
    LET drv == dev.drive
    IN  /\ dev' = Behind([dev EXCEPT !.status = IF NoDrive THEN Error ELSE 0], "status", c)
        /\ ram' = IF c = ReadCode /\ ~NoDrive
                  THEN Put(ram, Phy, ReadAt(files[disk[drv]], SectorSize * Lsn, SectorSize))
                  ELSE ram
        /\ files' = IF c = WriteCode /\ ~NoDrive
                    THEN [files EXCEPT ![disk[drv]] =
                             WriteAt(@, SectorSize * Lsn, Taken(ram, Phy, SectorSize))]
                    ELSE files
        /\ FollowMap(mmu)
        /\ UNCHANGED <<dat, mmu>>

(* do_mmu: the task register selects a map, the others are the maps.       *)
WriteTask(n) ==
    /\ dev' = [dev EXCEPT !.task = n]
    /\ mmu' = n % 2
    /\ FollowMap(n % 2)
    /\ UNCHANGED <<ram, dat, files>>

(* Mutant: blocks are counted from mem, which is inside phymem.            *)
WriteMapFromMem(t, l, n) ==
    /\ dat' = [dat EXCEPT ![t][l] = n + IoBlock]
    /\ FollowMap(mmu)
    /\ UNCHANGED <<ram, dev, mmu, files>>
WriteMap(t, l, n) ==
    /\ dat' = [dat EXCEPT ![t][l] = n]
    /\ FollowMap(mmu)
    /\ UNCHANGED <<ram, dev, mmu, files>>

-----------------------------------------------------------------------------
(* The driver. SETUPDT writes six registers; then the command; then the    *)
(* status is loaded into B.                                                *)
Order == <<"drive", "lsn2", "lsn1", "lsn0", "adr2", "adr1">>
Argument(i) == <<req.drive, req.lsn[1], req.lsn[2], req.lsn[3], req.buf[1], req.buf[2]>>[i]
Running(i) == mode = "system" /\ pc = i

CallDriver(r) ==
    /\ Running(0)
    /\ calls < MaxCalls
    /\ calls' = calls + 1
    /\ req' = r
    /\ place' = mem0(ByteMod * r.buf[1] + r.buf[2])
    /\ pc' = 1
    /\ UNCHANGED <<board, ram, dev, dat, mmu, immu, files, disk, b, mode, moves>>

SETUPDT ==
    \E i \in 1..6 :
        /\ Running(i)
        /\ WriteRegister(Order[i], Argument(i))
        /\ pc' = i + 1
        /\ UNCHANGED <<board, disk, req, place, b, mode, calls, moves>>

COMMAND ==
    /\ Running(7)
    /\ WriteCommand(IF req.op = "read" THEN ReadCode ELSE WriteCode)
    /\ pc' = 8
    /\ UNCHANGED <<board, disk, req, place, b, mode, calls, moves>>

STATUS ==
    /\ Running(8)
    /\ b' = dev.status
    /\ pc' = 0
    /\ UNCHANGED <<board, ram, dev, dat, mmu, immu, files, disk, req, place, mode,
                   calls, moves>>

-----------------------------------------------------------------------------
(* The rest of the guest, between any two instructions of the driver.      *)
Move == moves < MaxMoves /\ moves' = moves + 1

StoreByte(a, d) ==
    /\ Move
    /\ StoreRam(a, d)
    /\ UNCHANGED <<board, dev, dat, mmu, immu, files, disk, pc, req, place, b, mode, calls>>

SwitchTask(to) ==
    /\ Move
    /\ board.mmu
    /\ mode # to
    /\ mode' = to
    /\ WriteTask(IF to = "user" THEN 1 ELSE 0)
    /\ UNCHANGED <<board, disk, pc, req, place, b, calls>>

ChangeMap(t, l, n) ==
    /\ Move
    /\ board.mmu
    /\ mode = "system"
    /\ t = 0 => pc = 0
    /\ WriteMap(t, l, n)
    /\ UNCHANGED <<board, disk, pc, req, place, b, mode, calls>>

-----------------------------------------------------------------------------
(* The debugger, between SAVEREGS and LOADREGS: 0 and 1 close an image and *)
(* open another, if it can be opened; R starts the guest again.            *)
ChangeDisk(d, image) ==
    /\ Move
    /\ disk' = [disk EXCEPT ![d] = image]
    /\ mmu' = immu
    /\ immu' = mmu'
    /\ UNCHANGED <<board, ram, dev, dat, files, pc, req, place, b, mode, calls>>

ResetGuest ==
    /\ Move
    /\ mmu' = IF board.mmu THEN 0 ELSE immu
    /\ immu' = mmu'
    /\ dat' = IF board.mmu THEN [dat EXCEPT ![0][Blocks - 1] = IoBlock] ELSE dat
    /\ pc' = 0
    /\ mode' = "system"
    /\ UNCHANGED <<board, ram, dev, files, disk, req, place, b, calls>>

Next ==
    \/ \E r \in board.requests : CallDriver(r)
    \/ SETUPDT
    \/ COMMAND
    \/ STATUS
    \/ \E s \in Stores : StoreByte(s[1], s[2])
    \/ \E to \in {"user", "system"} : SwitchTask(to)
    \/ \E m \in Maps : ChangeMap(m[1], m[2], m[3])
    \/ \E d \in {0, 1}, image \in Images \cup {NoDisk} : ChangeDisk(d, image)
    \/ ResetGuest

Spec == Init /\ [][Next]_vars
=============================================================================
