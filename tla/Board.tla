------------------------------- MODULE Board -------------------------------
(***************************************************************************)
(* What an operating system may count on when it uses memory and disks of  *)
(* the simulated board: a store goes where the selected map says, and a    *)
(* call of the disk driver moves one sector, in one step, between the      *)
(* drive and the place its buffer had when the driver was called.          *)
(* There are no device registers here, no interrupts between the writes    *)
(* to them and no copies of the map register.                              *)
(***************************************************************************)
EXTENDS HostFile

CONSTANTS Data,        \* what a byte of memory or of an image may hold
          ByteMod,     \* values of a byte (256)
          Blocks,      \* blocks of the address space below the I/O page
          BlockSize,   \* 8K
          SectorSize,  \* 256
          IoBlock,     \* block of the I/O page ($3F)
          Images,      \* the host's disk images
          NoDisk,
          Boards       \* the boards looked at: mmu, whether there is one; rom, the
                       \* limit of what a store reaches; ram, dat, files and disk,
                       \* their contents at the start; requests of the driver

VARIABLES board, ram, task, maps, files, disk, req, place, answer
vars == <<board, ram, task, maps, files, disk, req, place, answer>>

IoPage == Blocks * BlockSize

Address(buf) == ByteMod * buf[1] + buf[2]
Sector(lsn) == ByteMod * ByteMod * lsn[1] + ByteMod * lsn[2] + lsn[3]

Where(a) ==
    IF board.mmu THEN BlockSize * maps[task][a \div BlockSize] + (a % BlockSize) ELSE a

(* The status survives unless the board has RAM behind the registers.      *)
Tells == board.mmu \/ board.rom <= IoPage
Answers == {"ok", "error", "unknown"}

Init ==
    /\ board \in Boards
    /\ ram = board.ram
    /\ task = 0
    /\ maps = board.dat
    /\ files = board.files
    /\ disk = board.disk
    /\ answer \in Answers
    /\ req \in board.requests
    /\ place = Where(Address(req.buf))

Store(a, d) ==
    /\ ram' = IF Where(a) < board.rom THEN [ram EXCEPT ![Where(a)] = d] ELSE ram
    /\ UNCHANGED <<board, task, maps, files, disk, req, place, answer>>

Select(t) ==
    /\ board.mmu
    /\ task' = t
    /\ UNCHANGED <<board, ram, maps, files, disk, req, place, answer>>

SetMap(t, l, block) ==
    /\ board.mmu
    /\ maps' = [maps EXCEPT ![t][l] = block]
    /\ UNCHANGED <<board, ram, task, files, disk, req, place, answer>>

Call(r) ==
    /\ answer # "pending"
    /\ req' = r
    /\ place' = Where(Address(r.buf))
    /\ answer' = "pending"
    /\ UNCHANGED <<board, ram, task, maps, files, disk>>

Served == req.drive \in {0, 1} /\ disk[req.drive] # NoDisk
Position == SectorSize * Sector(req.lsn)

Transfer ==
    /\ answer = "pending"
    /\ answer' = IF ~Tells THEN "unknown" ELSE IF Served THEN "ok" ELSE "error"
    /\ ram' = IF Served /\ req.op = "read"
              THEN Put(ram, place, ReadAt(files[disk[req.drive]], Position, SectorSize))
              ELSE ram
    /\ files' = IF Served /\ req.op = "write"
                THEN [files EXCEPT ![disk[req.drive]] =
                         WriteAt(@, Position, Taken(ram, place, SectorSize))]
                ELSE files
    /\ UNCHANGED <<board, task, maps, disk, req, place>>

Insert(d, image) ==
    /\ disk' = [disk EXCEPT ![d] = image]
    /\ UNCHANGED <<board, ram, task, maps, files, req, place, answer>>

(* A reset abandons the call, selects map 0 and maps the I/O page.         *)
Reset ==
    /\ task' = 0
    /\ maps' = IF board.mmu THEN [maps EXCEPT ![0][Blocks - 1] = IoBlock] ELSE maps
    /\ answer' \in Answers
    /\ UNCHANGED <<board, ram, files, disk, req, place>>

Next ==
    \/ \E a \in 0..IoPage-1, d \in Data : Store(a, d)
    \/ \E t \in {0, 1} : Select(t)
    \/ \E t \in {0, 1}, l \in 0..Blocks-1, block \in 0..ByteMod-1 : SetMap(t, l, block)
    \/ \E r \in board.requests : Call(r)
    \/ Transfer
    \/ \E d \in {0, 1}, image \in Images \cup {NoDisk} : Insert(d, image)
    \/ Reset

Spec == Init /\ [][Next]_vars
=============================================================================
