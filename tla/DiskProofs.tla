----------------------------- MODULE DiskProofs -----------------------------
(***************************************************************************)
(* The registers, the three copies of the map and the driver implement the *)
(* board of module Board, for every board, image, request and guest.       *)
(***************************************************************************)
EXTENDS DiskProps, TLAPS

(* What keeps the mapping right between two steps: both copies are the map *)
(* of the code that runs, each register the driver has written holds what  *)
(* the call asked for, and the map still sends the buffer to its place.    *)
ShapeInv ==
    /\ board \in Boards
    /\ req \in board.requests
    /\ dev \in [Registers -> Byte]
    /\ dat \in [{0, 1} -> [0..Blocks-1 -> Byte]]
    /\ disk \in [{0, 1} -> Images \cup {NoDisk}]
    /\ pc \in 0..8
    /\ mode \in {"system", "user"}
    /\ ~board.mmu => mode = "system"
CopiesInv == mmu = Task /\ immu = Task
LoadedInv ==
    /\ pc > 1 => dev.drive = req.drive
    /\ pc > 2 => dev.lsn2 = req.lsn[1]
    /\ pc > 3 => dev.lsn1 = req.lsn[2]
    /\ pc > 4 => dev.lsn0 = req.lsn[3]
    /\ pc > 5 => dev.adr2 = req.buf[1]
    /\ pc > 6 => dev.adr1 = req.buf[2]
BufferAddress == ByteMod * req.buf[1] + req.buf[2]
PlaceInv ==
    pc # 0 => place = IF board.mmu THEN paddr(dat[0], BufferAddress) ELSE BufferAddress
DiskInv == ShapeInv /\ CopiesInv /\ LoadedInv /\ PlaceInv

(* Each write of SETUPDT, on its own.                                      *)
LEMMA OneRegister ==
    ASSUME NEW i \in 1..6
    PROVE  /\ i = 1 => Order[i] = "drive" /\ Argument(i) = req.drive
           /\ i = 2 => Order[i] = "lsn2" /\ Argument(i) = req.lsn[1]
           /\ i = 3 => Order[i] = "lsn1" /\ Argument(i) = req.lsn[2]
           /\ i = 4 => Order[i] = "lsn0" /\ Argument(i) = req.lsn[3]
           /\ i = 5 => Order[i] = "adr2" /\ Argument(i) = req.buf[1]
           /\ i = 6 => Order[i] = "adr1" /\ Argument(i) = req.buf[2]
BY DEF Order, Argument

(* A write of a register is that, whatever is stored behind it.            *)
LEMMA RegisterWritten ==
    ASSUME ShapeInv, CopiesInv, NEW r \in Registers, NEW n \in Byte, WriteRegister(r, n)
    PROVE  /\ dev' = [dev EXCEPT ![r] = n]
           /\ immu' = immu
           /\ UNCHANGED <<ram, dat, mmu, files>>
<1>1. Behind([dev EXCEPT ![r] = n], r, n) = [dev EXCEPT ![r] = n]
  BY DEF Behind, ShapeInv
<1>2. board.mmu \in BOOLEAN
  BY BoardsAssumption DEF ShapeInv
<1> QED BY <1>1, <1>2 DEF WriteRegister, FollowMap, CopiesInv

(* What a call asks for are bytes.                                         *)
LEMMA ArgumentTypes ==
    ASSUME ShapeInv
    PROVE  /\ req.drive \in Byte
           /\ req.lsn[1] \in Byte /\ req.lsn[2] \in Byte /\ req.lsn[3] \in Byte
           /\ req.buf[1] \in Byte /\ req.buf[2] \in Byte
           /\ req.op \in {"read", "write"}
BY BoardsAssumption DEF ShapeInv

(* The board starts with the system map in all three places.               *)
LEMMA InitHolds == Init => DiskInv
<1> SUFFICES ASSUME Init PROVE DiskInv
  OBVIOUS
<1>1. 0 \in Byte
  BY CodesAssumption DEF Byte
<1>2. ShapeInv
  BY <1>1, BoardsAssumption DEF Init, ShapeInv
<1> QED BY <1>2 DEF Init, DiskInv, CopiesInv, Task, LoadedInv, PlaceInv

(* The steps keep the invariant, one lemma each.                           *)
LEMMA SetupKeeps == DiskInv /\ SETUPDT => DiskInv'
<1> SUFFICES ASSUME DiskInv, NEW i \in 1..6, Running(i),
                    WriteRegister(Order[i], Argument(i)), pc' = i + 1,
                    UNCHANGED <<board, disk, req, place, b, mode, calls, moves>>
             PROVE  DiskInv'
  BY DEF SETUPDT
<1>1. ShapeInv /\ CopiesInv /\ LoadedInv /\ PlaceInv /\ pc = i
  BY DEF DiskInv, Running
<1>2. Order[i] \in Registers /\ Argument(i) \in Byte
  BY <1>1, OneRegister, ArgumentTypes DEF Registers
<1>3. dev' = [dev EXCEPT ![Order[i]] = Argument(i)] /\ immu' = immu
      /\ UNCHANGED <<ram, dat, mmu, files>>
  BY <1>1, <1>2, RegisterWritten
<1>4. ShapeInv'
  BY <1>1, <1>2, <1>3 DEF ShapeInv
<1>5. LoadedInv'
  <2> USE <1>1, <1>3, OneRegister DEF LoadedInv, ShapeInv, Registers
  <2>1. CASE i = 1
    BY <2>1
  <2>2. CASE i = 2
    BY <2>2
  <2>3. CASE i = 3
    BY <2>3
  <2>4. CASE i = 4
    BY <2>4
  <2>5. CASE i = 5
    BY <2>5
  <2>6. CASE i = 6
    BY <2>6
  <2> QED BY <2>1, <2>2, <2>3, <2>4, <2>5, <2>6
<1>6. CopiesInv' /\ PlaceInv'
  BY <1>1, <1>3 DEF CopiesInv, Task, PlaceInv, BufferAddress, paddr
<1> QED BY <1>4, <1>5, <1>6 DEF DiskInv

(* The command fills in the status and touches no other register.          *)
LEMMA CommandWritten ==
    ASSUME DiskInv, COMMAND
    PROVE  /\ dev' = [dev EXCEPT !.status = dev'.status]
           /\ dev'.status = IF ~board.mmu /\ board.rom > IoPage
                            THEN IF req.op = "read" THEN ReadCode ELSE WriteCode
                            ELSE IF NoDrive THEN Error ELSE 0
           /\ dev'.status \in Byte
           /\ pc = 7 /\ pc' = 8 /\ mode = "system" /\ immu' = immu
           /\ UNCHANGED <<board, dat, mmu, disk, req, place, b, mode, calls, moves>>
<1> DEFINE c == IF req.op = "read" THEN ReadCode ELSE WriteCode
<1> DEFINE n == IF NoDrive THEN Error ELSE 0
<1>1. WriteCommand(c) /\ pc = 7 /\ pc' = 8 /\ mode = "system"
      /\ UNCHANGED <<board, disk, req, place, b, mode, calls, moves>>
  BY DEF COMMAND, Running
<1>2. dev' = Behind([dev EXCEPT !.status = n], "status", c) /\ UNCHANGED <<dat, mmu>>
      /\ FollowMap(mmu)
  BY <1>1 DEF WriteCommand
<1>3. dev \in [Registers -> Byte] /\ "status" \in Registers
  BY DEF DiskInv, ShapeInv, Registers
<1>4. n \in Byte /\ c \in Byte
  BY CodesAssumption DEF Byte, Error
<1>5. immu' = immu
  BY <1>2 DEF FollowMap, DiskInv, CopiesInv
<1> HIDE DEF c, n
<1>6. /\ dev' = [dev EXCEPT !.status = dev'.status]
      /\ dev'.status = IF ~board.mmu /\ board.rom > IoPage THEN c ELSE n
  BY <1>2, <1>3 DEF Behind
<1> QED BY <1>1, <1>2, <1>4, <1>5, <1>6 DEF c, n

LEMMA CommandKeeps == DiskInv /\ COMMAND => DiskInv'
<1> SUFFICES ASSUME DiskInv, COMMAND PROVE DiskInv'
  OBVIOUS
<1>1. ShapeInv /\ CopiesInv /\ LoadedInv /\ PlaceInv
  BY DEF DiskInv
<1>2. ShapeInv'
  BY <1>1, CommandWritten DEF ShapeInv, Registers
<1>3. LoadedInv'
  BY <1>1, CommandWritten DEF LoadedInv, ShapeInv, Registers
<1>4. CopiesInv' /\ PlaceInv'
  BY <1>1, CommandWritten DEF CopiesInv, Task, PlaceInv, BufferAddress, paddr
<1> QED BY <1>2, <1>3, <1>4 DEF DiskInv

LEMMA CallKeeps == ASSUME DiskInv, NEW r \in board.requests, CallDriver(r) PROVE DiskInv'
<1>1. ShapeInv /\ CopiesInv /\ pc = 0 /\ pc' = 1 /\ mode = "system" /\ req' = r
      /\ place' = mem0(ByteMod * r.buf[1] + r.buf[2])
      /\ UNCHANGED <<board, ram, dev, dat, mmu, immu, files, disk, b, mode, moves>>
  BY DEF CallDriver, Running, DiskInv
<1>2. ShapeInv' /\ CopiesInv' /\ LoadedInv'
  BY <1>1 DEF ShapeInv, CopiesInv, Task, LoadedInv
<1>3. PlaceInv'
  BY <1>1 DEF PlaceInv, BufferAddress, mem0, CopiesInv, Task, paddr
<1> QED BY <1>2, <1>3 DEF DiskInv

LEMMA SwitchKeeps ==
    ASSUME DiskInv, NEW to \in {"user", "system"}, SwitchTask(to)
    PROVE  /\ DiskInv'
           /\ dev' = [dev EXCEPT !.task = dev'.task]
           /\ Task' = IF to = "user" THEN 1 ELSE 0
           /\ board.mmu
           /\ UNCHANGED <<board, ram, dat, files, disk, pc, req, place, b>>
<1> DEFINE n == IF to = "user" THEN 1 ELSE 0
<1>1. ShapeInv /\ CopiesInv /\ LoadedInv /\ PlaceInv /\ board.mmu /\ mode' = to
      /\ WriteTask(n) /\ UNCHANGED <<board, disk, pc, req, place, b, calls>>
  BY DEF SwitchTask, DiskInv
<1>2. n \in Byte /\ n % 2 = n
  BY CodesAssumption DEF Byte
<1> HIDE DEF n
<1>3. dev' = [dev EXCEPT !.task = n] /\ mmu' = n /\ immu' = n /\ UNCHANGED <<ram, dat, files>>
  BY <1>1, <1>2 DEF WriteTask, FollowMap
<1>4. Task' = n
  BY <1>1 DEF Task, n
<1>5. ShapeInv'
  BY <1>1, <1>2, <1>3 DEF ShapeInv, Registers
<1>6. CopiesInv' /\ PlaceInv'
  BY <1>1, <1>3, <1>4 DEF CopiesInv, PlaceInv, BufferAddress, paddr
<1>7. LoadedInv' /\ dev' = [dev EXCEPT !.task = dev'.task]
  BY <1>1, <1>3 DEF LoadedInv, ShapeInv, Registers
<1> QED BY <1>1, <1>3, <1>4, <1>5, <1>6, <1>7 DEF DiskInv, n

LEMMA ChangeMapKeeps ==
    ASSUME DiskInv, NEW m \in Maps, ChangeMap(m[1], m[2], m[3])
    PROVE  /\ DiskInv'
           /\ dat' = [dat EXCEPT ![m[1]][m[2]] = m[3]]
           /\ board.mmu
           /\ UNCHANGED <<board, ram, dev, immu, mode, files, disk, pc, req, place, b>>
<1>1. ShapeInv /\ CopiesInv /\ LoadedInv /\ PlaceInv
  BY DEF DiskInv
<1>2. m[1] \in {0, 1} /\ m[2] \in 0..Blocks-1 /\ m[3] \in Byte
  BY GuestAssumption
<1>3. /\ m[1] = 0 => pc = 0
      /\ WriteMap(m[1], m[2], m[3])
      /\ UNCHANGED <<board, disk, pc, req, place, b, mode, calls>>
  BY DEF ChangeMap
<1>4. dat' = [dat EXCEPT ![m[1]][m[2]] = m[3]] /\ FollowMap(mmu)
      /\ UNCHANGED <<ram, dev, mmu, files>>
  BY <1>3 DEF WriteMap
<1>5. immu' = immu
  BY <1>1, <1>4 DEF FollowMap, CopiesInv
<1>6. ShapeInv'
  BY <1>1, <1>2, <1>3, <1>4 DEF ShapeInv
<1>7. CopiesInv' /\ LoadedInv'
  BY <1>1, <1>3, <1>4, <1>5 DEF CopiesInv, Task, LoadedInv
<1>8. PlaceInv'
  <2>1. CASE pc = 0
    BY <2>1, <1>3 DEF PlaceInv
  <2>2. CASE pc # 0
    <3>1. m[1] = 1
      BY <2>2, <1>2, <1>3
    <3>2. dat'[0] = dat[0]
      BY <3>1, <1>1, <1>4 DEF ShapeInv
    <3> QED BY <3>2, <1>1, <1>3 DEF PlaceInv, BufferAddress, paddr
  <2> QED BY <2>1, <2>2
<1>9. board.mmu
  BY DEF ChangeMap
<1> QED BY <1>3, <1>4, <1>5, <1>6, <1>7, <1>8, <1>9 DEF DiskInv

LEMMA DiskChangeKeeps ==
    ASSUME DiskInv, NEW d \in {0, 1}, NEW image \in Images \cup {NoDisk}, ChangeDisk(d, image)
    PROVE  DiskInv'
<1>1. ShapeInv /\ CopiesInv /\ LoadedInv /\ PlaceInv
  BY DEF DiskInv
<1>2. ShapeInv'
  BY <1>1 DEF ShapeInv, ChangeDisk
<1> QED BY <1>1, <1>2
        DEF ChangeDisk, DiskInv, CopiesInv, Task, LoadedInv, PlaceInv, BufferAddress, paddr

LEMMA ResetKeeps ==
    ASSUME DiskInv, ResetGuest
    PROVE  DiskInv'
<1>1. ShapeInv /\ CopiesInv
  BY DEF DiskInv
<1>2. board.mmu \in BOOLEAN
  BY <1>1, BoardsAssumption DEF ShapeInv
<1>3. dat' \in [{0, 1} -> [0..Blocks-1 -> Byte]]
  BY <1>1, <1>2, CodesAssumption DEF ShapeInv, ResetGuest
<1>4. ShapeInv'
  BY <1>1, <1>3 DEF ShapeInv, ResetGuest
<1>5. mmu' = 0 /\ immu' = 0 /\ mode' = "system" /\ pc' = 0
  BY <1>1, <1>2 DEF ResetGuest, ShapeInv, CopiesInv, Task
<1> QED BY <1>4, <1>5 DEF DiskInv, CopiesInv, Task, LoadedInv, PlaceInv

LEMMA StoreKeeps ==
    ASSUME DiskInv, NEW s \in Stores, StoreByte(s[1], s[2]) PROVE DiskInv'
<1>1. UNCHANGED <<board, dev, dat, mmu, immu, disk, pc, req, place, mode>>
  BY DEF StoreByte
<1> QED BY <1>1 DEF DiskInv, ShapeInv, CopiesInv, Task, LoadedInv, PlaceInv, BufferAddress, paddr

LEMMA StatusKeeps == ASSUME DiskInv, STATUS PROVE DiskInv'
<1>1. /\ pc' = 0
      /\ UNCHANGED <<board, ram, dev, dat, mmu, immu, files, disk, req, place, mode>>
  BY DEF STATUS
<1> QED BY <1>1 DEF DiskInv, ShapeInv, CopiesInv, Task, LoadedInv, PlaceInv

(* The copies of the map agree, the registers written so far are those of  *)
(* the call and the buffer is where it was, after every step.              *)
THEOREM DiskInvariant == Spec => []DiskInv
<1>1. DiskInv /\ [Next]_vars => DiskInv'
  <2> SUFFICES ASSUME DiskInv, [Next]_vars PROVE DiskInv'
    OBVIOUS
  <2>1. ASSUME NEW r \in board.requests, CallDriver(r) PROVE DiskInv'
    BY <2>1, CallKeeps
  <2>2. CASE SETUPDT
    BY <2>2, SetupKeeps
  <2>3. CASE COMMAND
    BY <2>3, CommandKeeps
  <2>4. CASE STATUS
    BY <2>4, StatusKeeps
  <2>5. ASSUME NEW s \in Stores, StoreByte(s[1], s[2]) PROVE DiskInv'
    BY <2>5, StoreKeeps
  <2>6. ASSUME NEW to \in {"user", "system"}, SwitchTask(to) PROVE DiskInv'
    BY <2>6, SwitchKeeps
  <2>7. ASSUME NEW m \in Maps, ChangeMap(m[1], m[2], m[3]) PROVE DiskInv'
    BY <2>7, ChangeMapKeeps
  <2>8. ASSUME NEW d \in {0, 1}, NEW image \in Images \cup {NoDisk}, ChangeDisk(d, image)
        PROVE  DiskInv'
    BY <2>8, DiskChangeKeeps
  <2>9. CASE ResetGuest
    BY <2>9, ResetKeeps
  <2>10. CASE UNCHANGED vars
    BY <2>10 DEF vars, DiskInv, ShapeInv, CopiesInv, Task, LoadedInv, PlaceInv,
                 BufferAddress, paddr
  <2> QED BY <2>1, <2>2, <2>3, <2>4, <2>5, <2>6, <2>7, <2>8, <2>9, <2>10 DEF Next
<1> QED BY <1>1, InitHolds, PTL DEF Spec

-----------------------------------------------------------------------------
(* Memory and images hold bytes: a transfer stays inside the memory the    *)
(* board has and leaves a sequence of bytes in the file.                   *)

(* What is read is bytes, fewer than asked for where the file ends.        *)
LEMMA ReadAtType ==
    ASSUME NEW image \in Seq(Data), NEW pos \in Nat, NEW n \in Nat
    PROVE  ReadAt(image, pos, n) \in Seq(Data)
<1> DEFINE end == IF pos + n < Len(image) THEN pos + n ELSE Len(image)
<1>1. Len(image) \in Nat /\ end \in Nat /\ end <= Len(image)
  OBVIOUS
<1>2. \A i \in pos + 1..end : image[i] \in Data
  BY <1>1
<1> QED BY <1>1, <1>2 DEF ReadAt

(* A write leaves bytes, the gap included.                                 *)
LEMMA WriteAtType ==
    ASSUME NEW image \in Seq(Data), NEW pos \in Nat, NEW bytes \in Seq(Data)
    PROVE  WriteAt(image, pos, bytes) \in Seq(Data)
<1> DEFINE end == pos + Len(bytes)
           new == pos + 1..end
           At(i) == CASE i \in new -> bytes[i - pos]
                      [] i \notin new /\ i <= Len(image) -> image[i]
                      [] OTHER -> Blank
           size == IF Len(image) < end THEN end ELSE Len(image)
<1>1. Len(image) \in Nat /\ end \in Nat /\ size \in Nat
  OBVIOUS
<1>2. ASSUME NEW i \in 1..size PROVE At(i) \in Data
  <2>1. CASE i \in new
    <3>1. At(i) = bytes[i - pos]
      BY <2>1, Zenon
    <3>2. i - pos \in 1..Len(bytes)
      BY <2>1
    <3> QED BY <3>1, <3>2
  <2>2. CASE i \notin new /\ i <= Len(image)
    <3>1. At(i) = image[i]
      BY <2>2, Zenon
    <3> QED BY <3>1, <2>2, <1>1
  <2>3. CASE i \notin new /\ ~(i <= Len(image))
    <3>1. At(i) = Blank
      BY <2>3, Zenon
    <3> QED BY <3>1, CodesAssumption
  <2> QED BY <2>1, <2>2, <2>3
<1>3. WriteAt(image, pos, bytes) = [i \in 1..size |-> At(i)]
  BY Zenon DEF WriteAt
<1> HIDE DEF At, size
<1>4. [i \in 1..size |-> At(i)] \in Seq(Data)
  BY <1>1, <1>2
<1> QED BY <1>3, <1>4

(* Bytes put into a memory and bytes taken from it.                        *)
LEMMA PutType ==
    ASSUME NEW D, D \subseteq Int, NEW memory \in [D -> Data], NEW at \in Int,
           NEW bytes \in Seq(Data)
    PROVE  Put(memory, at, bytes) \in [D -> Data]
<1>1. \A p \in D : p - at \in 0..Len(bytes)-1 => bytes[p - at + 1] \in Data
  OBVIOUS
<1> QED BY <1>1 DEF Put

LEMMA TakenType ==
    ASSUME NEW D, NEW memory \in [D -> Data], NEW at \in Int, NEW n \in Nat,
           at..at + n - 1 \subseteq D
    PROVE  Taken(memory, at, n) \in Seq(Data)
<1>1. \A i \in 1..n : at + i - 1 \in at..at + n - 1
  OBVIOUS
<1> QED BY <1>1 DEF Taken

(* The buffer of a call is in memory, to its last byte.                    *)
MemorySize == IF board.mmu THEN ByteMod * BlockSize ELSE IoPage
LEMMA BufferInMemory ==
    ASSUME ShapeInv, NEW r \in board.requests
    PROVE  LET a == ByteMod * r.buf[1] + r.buf[2]
               at == IF board.mmu THEN paddr(dat[0], a) ELSE a
           IN  at \in Nat /\ at + SectorSize <= MemorySize
<1> DEFINE a == ByteMod * r.buf[1] + r.buf[2]
           l == a \div BlockSize
<1>1. /\ ByteMod \in Nat \ {0} /\ Blocks \in Nat \ {0} /\ BlockSize \in Nat \ {0}
      /\ SectorSize \in Nat /\ IoPage \in Nat
  BY CodesAssumption DEF IoPage
<1>2. r.buf[1] \in 0..ByteMod-1 /\ r.buf[2] \in 0..ByteMod-1
  BY BoardsAssumption DEF ShapeInv, Byte
<1>3. a \in Nat
  BY <1>1, <1>2
<1>4. a < Blocks * BlockSize /\ (a % BlockSize) + SectorSize <= BlockSize
  BY BoardsAssumption DEF ShapeInv, IoPage
<1> HIDE DEF a
<1>5. a = BlockSize * l + (a % BlockSize) /\ a % BlockSize \in 0..BlockSize-1 /\ l \in Nat
  BY <1>1, <1>3
<1> HIDE DEF l
<1>6. l \in 0..Blocks-1
  <2>1. SUFFICES ASSUME l >= Blocks PROVE FALSE
    BY <1>1, <1>5
  <2>2. BlockSize * l >= BlockSize * Blocks
    BY <2>1, <1>1, <1>5
  <2> QED BY <2>2, <1>1, <1>3, <1>4, <1>5
<1>7. CASE board.mmu
  <2> DEFINE m == dat[0][l]
  <2>1. m \in 0..ByteMod-1
    BY <1>6 DEF ShapeInv, Byte
  <2>2. paddr(dat[0], a) = BlockSize * m + (a % BlockSize)
    BY DEF paddr, l
  <2> HIDE DEF m
  <2>3. BlockSize * m \in Nat /\ BlockSize * m + BlockSize <= ByteMod * BlockSize
    <3>1. m + 1 <= ByteMod /\ m + 1 \in Nat
      BY <2>1, <1>1
    <3>2. BlockSize * (m + 1) <= BlockSize * ByteMod
      BY <3>1, <1>1
    <3> QED BY <3>2, <2>1, <1>1
  <2> QED BY <1>7, <2>2, <2>3, <1>1, <1>4, <1>5 DEF MemorySize, a
<1>8. CASE ~board.mmu
  <2>1. BlockSize * l + BlockSize <= Blocks * BlockSize
    <3>1. l + 1 <= Blocks /\ l + 1 \in Nat
      BY <1>1, <1>6
    <3>2. BlockSize * (l + 1) <= BlockSize * Blocks
      BY <3>1, <1>1
    <3> QED BY <3>2, <1>1, <1>5
  <2> QED BY <1>8, <2>1, <1>1, <1>3, <1>4, <1>5 DEF MemorySize, IoPage, a
<1> QED BY <1>7, <1>8

(* What the driver and the guest's stores keep.                            *)
BytesInv ==
    /\ ram \in [0..MemorySize-1 -> Data]
    /\ files \in [Images -> Seq(Data)]
    /\ place \in Int
    /\ b \in Byte
    /\ calls \in 0..MaxCalls
    /\ moves \in 0..MaxMoves

(* A command moves bytes between memory and a file, inside both.           *)
LEMMA CommandKeepsBytes ==
    ASSUME DiskInv, BytesInv, COMMAND PROVE BytesInv'
<1> DEFINE c == IF req.op = "read" THEN ReadCode ELSE WriteCode
           image == disk[dev.drive]
<1>1. ShapeInv /\ CopiesInv /\ LoadedInv /\ PlaceInv
  BY DEF DiskInv
<1>2. /\ WriteCommand(c) /\ pc = 7
      /\ UNCHANGED <<board, place, b, calls, moves>>
  BY DEF COMMAND, Running
<1>3. Phy \in Nat /\ Phy + SectorSize <= MemorySize /\ MemorySize \in Nat
  <2>1. mmu = 0 /\ dev.adr2 = req.buf[1] /\ dev.adr1 = req.buf[2]
    BY <1>1, CommandWritten DEF CopiesInv, Task, LoadedInv
  <2>2. Phy = IF board.mmu THEN paddr(dat[0], BufferAddress) ELSE BufferAddress
    BY <2>1 DEF Phy, pmem, BufferAddress
  <2>3. req \in board.requests /\ ByteMod * BlockSize \in Nat /\ IoPage \in Nat
    BY <1>1, CodesAssumption DEF ShapeInv, IoPage
  <2> QED BY <2>2, <2>3, <1>1, BufferInMemory DEF MemorySize, BufferAddress
<1>4. SectorSize * Lsn \in Nat /\ SectorSize \in Nat
  <2>1. dev.lsn2 \in Nat /\ dev.lsn1 \in Nat /\ dev.lsn0 \in Nat
    BY <1>1 DEF ShapeInv, Registers, Byte
  <2>2. ByteMod * ByteMod * dev.lsn2 \in Nat /\ ByteMod * dev.lsn1 \in Nat
    BY <2>1, CodesAssumption
  <2>3. Lsn \in Nat
    BY <2>1, <2>2 DEF Lsn
  <2> QED BY <2>3, CodesAssumption
<1>5. ~NoDrive => image \in Images
  <2>1. dev.drive \in Nat /\ disk \in [{0, 1} -> Images \cup {NoDisk}]
    BY <1>1 DEF ShapeInv, Registers, Byte
  <2> QED BY <2>1 DEF NoDrive
<1>6. ~NoDrive => files[image] \in Seq(Data)
  BY <1>5 DEF BytesInv
<1> HIDE DEF image, c
<1>7. ram' \in [0..MemorySize-1 -> Data]
  <2>1. CASE c = ReadCode /\ ~NoDrive
    <3> DEFINE bytes == ReadAt(files[image], SectorSize * Lsn, SectorSize)
    <3>1. bytes \in Seq(Data)
      BY <2>1, <1>4, <1>6, ReadAtType
    <3>2. ram' = Put(ram, Phy, bytes)
      BY <2>1, <1>2, Zenon DEF WriteCommand, image
    <3> HIDE DEF bytes
    <3> DEFINE D == 0..MemorySize-1
    <3>3. D \subseteq Int /\ ram \in [D -> Data] /\ Phy \in Int
      BY <1>3 DEF BytesInv
    <3> HIDE DEF D
    <3>4. Put(ram, Phy, bytes) \in [D -> Data]
      BY <3>1, <3>3, PutType
    <3> QED BY <3>2, <3>4 DEF D
  <2>2. CASE ~(c = ReadCode /\ ~NoDrive)
    <3>1. ram' = ram
      BY <2>2, <1>2, Zenon DEF WriteCommand
    <3> QED BY <3>1 DEF BytesInv
  <2> QED BY <2>1, <2>2
<1>8. files' \in [Images -> Seq(Data)]
  <2>1. CASE c = WriteCode /\ ~NoDrive
    <3> DEFINE bytes == Taken(ram, Phy, SectorSize)
               new == WriteAt(files[image], SectorSize * Lsn, bytes)
    <3>1. Phy..Phy + SectorSize - 1 \subseteq 0..MemorySize-1
      BY <1>3, <1>4
    <3> DEFINE D == 0..MemorySize-1
    <3>2. bytes \in Seq(Data)
      <4>1. Phy..Phy + SectorSize - 1 \subseteq D /\ ram \in [D -> Data]
            /\ Phy \in Int /\ SectorSize \in Nat
        BY <3>1, <1>3, <1>4 DEF BytesInv
      <4> HIDE DEF D
      <4> QED BY <4>1, TakenType
    <3> HIDE DEF bytes
    <3>3. new \in Seq(Data)
      BY <2>1, <3>2, <1>4, <1>6, WriteAtType
    <3>4. files' = [files EXCEPT ![image] = new]
      BY <2>1, <1>2, Zenon DEF WriteCommand, image, bytes
    <3> HIDE DEF new
    <3> QED BY <3>3, <3>4 DEF BytesInv
  <2>2. CASE ~(c = WriteCode /\ ~NoDrive)
    <3>1. files' = files
      BY <2>2, <1>2, Zenon DEF WriteCommand
    <3> QED BY <3>1 DEF BytesInv
  <2> QED BY <2>1, <2>2
<1> QED BY <1>2, <1>7, <1>8 DEF BytesInv, MemorySize

(* Where a call finds its buffer.                                          *)
LEMMA CallKeepsBytes ==
    ASSUME DiskInv, BytesInv, NEW r \in board.requests, CallDriver(r) PROVE BytesInv'
<1>1. /\ calls < MaxCalls /\ calls' = calls + 1 /\ pc' = 1 /\ req' = r
      /\ UNCHANGED <<board, ram, dat, files, b, moves>>
  BY DEF CallDriver
<1>2. ShapeInv /\ place' = mem0(ByteMod * r.buf[1] + r.buf[2]) /\ immu = 0
  BY DEF CallDriver, Running, DiskInv, CopiesInv, Task
<1>3. place' \in Int
  BY <1>2, BufferInMemory DEF mem0
<1> QED BY <1>1, <1>3, CodesAssumption DEF BytesInv, MemorySize

LEMMA StoreKeepsBytes ==
    ASSUME DiskInv, BytesInv, NEW s \in Stores, StoreByte(s[1], s[2]) PROVE BytesInv'
<1>1. /\ StoreRam(s[1], s[2]) /\ Move /\ s[2] \in Data
      /\ UNCHANGED <<board, files, place, b, calls>>
  BY GuestAssumption DEF StoreByte
<1>2. ram' \in [0..MemorySize-1 -> Data]
  BY <1>1 DEF StoreRam, BytesInv
<1> QED BY <1>1, <1>2, CodesAssumption DEF BytesInv, MemorySize, Move

LEMMA StatusKeepsBytes == ASSUME DiskInv, BytesInv, STATUS PROVE BytesInv'
<1>1. b' = dev.status /\ UNCHANGED <<board, ram, files, place, calls, moves>>
  BY DEF STATUS
<1>2. dev.status \in Byte
  BY DEF DiskInv, ShapeInv, Registers
<1> QED BY <1>1, <1>2 DEF BytesInv, MemorySize

(* What is left counts a move and touches neither memory nor images.       *)
LEMMA MoveKeepsBytes ==
    ASSUME BytesInv, Move, UNCHANGED <<board, ram, files, place, b, calls>> PROVE BytesInv'
BY CodesAssumption DEF BytesInv, MemorySize, Move

(* Every variable stays in its range: a transfer never leaves the memory   *)
(* of the board, and what it leaves in a file is a sequence of bytes,      *)
(* however short the file was and wherever the sector lies.                *)
THEOREM DiskTypeCorrect == Spec => []TypeOK
<1>1. Init => BytesInv
  <2> SUFFICES ASSUME Init PROVE BytesInv
    OBVIOUS
  <2>1. ShapeInv
    BY InitHolds DEF DiskInv
  <2>2. place \in Int
    BY <2>1, BufferInMemory DEF Init, mem0
  <2>3. 0 \in Byte /\ MaxCalls \in Nat /\ MaxMoves \in Nat
    BY CodesAssumption DEF Byte
  <2> QED BY <2>2, <2>3, BoardsAssumption DEF Init, BytesInv, MemorySize
<1>2. DiskInv /\ BytesInv /\ [Next]_vars => BytesInv'
  <2> SUFFICES ASSUME DiskInv, BytesInv, [Next]_vars PROVE BytesInv'
    OBVIOUS
  <2>1. ASSUME NEW r \in board.requests, CallDriver(r) PROVE BytesInv'
    BY <2>1, CallKeepsBytes
  <2>2. CASE SETUPDT
    BY <2>2 DEF SETUPDT, WriteRegister, BytesInv, MemorySize
  <2>3. CASE COMMAND
    BY <2>3, CommandKeepsBytes
  <2>4. CASE STATUS
    BY <2>4, StatusKeepsBytes
  <2>5. ASSUME NEW s \in Stores, StoreByte(s[1], s[2]) PROVE BytesInv'
    BY <2>5, StoreKeepsBytes
  <2>6. ASSUME NEW to \in {"user", "system"}, SwitchTask(to) PROVE BytesInv'
    BY <2>6, MoveKeepsBytes DEF SwitchTask, WriteTask
  <2>7. ASSUME NEW m \in Maps, ChangeMap(m[1], m[2], m[3]) PROVE BytesInv'
    BY <2>7, MoveKeepsBytes DEF ChangeMap, WriteMap
  <2>8. ASSUME NEW d \in {0, 1}, NEW image \in Images \cup {NoDisk}, ChangeDisk(d, image)
        PROVE  BytesInv'
    BY <2>8, MoveKeepsBytes DEF ChangeDisk
  <2>9. CASE ResetGuest
    BY <2>9, MoveKeepsBytes DEF ResetGuest
  <2>10. CASE UNCHANGED vars
    BY <2>10 DEF vars, BytesInv, MemorySize
  <2> QED BY <2>1, <2>2, <2>3, <2>4, <2>5, <2>6, <2>7, <2>8, <2>9, <2>10 DEF Next
<1>3. DiskInv /\ BytesInv => TypeOK
  <2> SUFFICES ASSUME DiskInv, BytesInv PROVE TypeOK
    OBVIOUS
  <2>1. DOMAIN board.ram = 0..MemorySize-1
    BY BoardsAssumption DEF DiskInv, ShapeInv, MemorySize
  <2> QED BY <2>1 DEF TypeOK, DiskInv, ShapeInv, CopiesInv, Task, BytesInv
<1> QED BY <1>1, <1>2, <1>3, DiskInvariant, PTL DEF Spec

-----------------------------------------------------------------------------
(* Each step of the device is a step of the board or changes nothing that  *)
(* the guest sees.                                                         *)

(* The same address means the same byte to the guest, to an instruction    *)
(* and to do_disk.                                                         *)
LEMMA SamePlace ==
    ASSUME DiskInv, NEW a
    PROVE  Guest!Where(a) = mem0(a) /\ Guest!Where(a) = pmem(a)
BY DEF Guest!Where, mem0, pmem, paddr, DiskInv, CopiesInv

(* Both modules read and write the host's files alike.                     *)
LEMMA SameHost ==
    /\ \A memory, at, bytes : Guest!Put(memory, at, bytes) = Put(memory, at, bytes)
    /\ \A memory, at, n : Guest!Taken(memory, at, n) = Taken(memory, at, n)
    /\ \A image, pos, n : Guest!ReadAt(image, pos, n) = ReadAt(image, pos, n)
    /\ \A image, pos, bytes : Guest!WriteAt(image, pos, bytes) = WriteAt(image, pos, bytes)
<1>1. \A memory, at, bytes : Guest!Put(memory, at, bytes) = Put(memory, at, bytes)
  BY DEF Put, Guest!Put
<1>2. \A memory, at, n : Guest!Taken(memory, at, n) = Taken(memory, at, n)
  BY DEF Taken, Guest!Taken
<1>3. \A image, pos, n : Guest!ReadAt(image, pos, n) = ReadAt(image, pos, n)
  BY DEF ReadAt, Guest!ReadAt
<1>4. \A image, pos, bytes : Guest!WriteAt(image, pos, bytes) = WriteAt(image, pos, bytes)
  BY Zenon DEF WriteAt, Guest!WriteAt
<1> QED BY <1>1, <1>2, <1>3, <1>4

(* The answer is out while the driver has not written the command.         *)
LEMMA NotPending ==
    /\ DiskInv => (Answer = "pending" <=> pc \in 1..7)
    /\ \A status : Meaning(status) \in Guest!Answers /\ Meaning(status) # "pending"
<1>1. \A status : Meaning(status) \in Guest!Answers /\ Meaning(status) # "pending"
  BY DEF Meaning, Guest!Answers
<1>2. ASSUME DiskInv PROVE Answer = "pending" <=> pc \in 1..7
  <2>1. pc \in 0..8
    BY <1>2 DEF DiskInv, ShapeInv
  <2>2. CASE pc = 0
    BY <2>2, <1>1 DEF Answer
  <2>3. CASE pc = 8
    BY <2>3, <1>1 DEF Answer
  <2>4. CASE pc \in 1..7
    BY <2>4 DEF Answer
  <2> QED BY <2>1, <2>2, <2>3, <2>4
<1> QED BY <1>1, <1>2

(* And the steps of the mapping, one lemma each.                           *)
LEMMA CallRefines ==
    ASSUME DiskInv, NEW r \in board.requests, CallDriver(r) PROVE Guest!Call(r)
<1>1. /\ pc = 0 /\ pc' = 1 /\ req' = r
      /\ place' = mem0(ByteMod * r.buf[1] + r.buf[2])
      /\ UNCHANGED <<board, ram, dat, files, disk, mode>>
  BY DEF CallDriver, Running
<1>2. Answer # "pending" /\ Answer' = "pending"
  BY <1>1, NotPending DEF Answer
<1>3. place' = Guest!Where(Guest!Address(r.buf))
  BY <1>1, SamePlace DEF Guest!Address
<1> QED BY <1>1, <1>2, <1>3 DEF Guest!Call, Task

LEMMA SetupRefines == ASSUME DiskInv, SETUPDT PROVE UNCHANGED Guest!vars
<1> SUFFICES ASSUME NEW i \in 1..6, Running(i),
                    WriteRegister(Order[i], Argument(i)), pc' = i + 1,
                    UNCHANGED <<board, disk, req, place, b, mode, calls, moves>>
             PROVE  UNCHANGED Guest!vars
  BY DEF SETUPDT
<1>1. UNCHANGED <<ram, dat, files>> /\ pc = i
  BY DEF WriteRegister, Running
<1>2. Answer = "pending" /\ Answer' = "pending"
  BY <1>1 DEF Answer
<1> QED BY <1>1, <1>2 DEF Guest!vars, Task

LEMMA CommandRefines == ASSUME DiskInv, COMMAND PROVE Guest!Transfer
<1> DEFINE c == IF req.op = "read" THEN ReadCode ELSE WriteCode
<1>1. ShapeInv /\ LoadedInv /\ PlaceInv /\ CopiesInv
  BY DEF DiskInv
<1>2. /\ dev.drive = req.drive
      /\ dev.lsn2 = req.lsn[1] /\ dev.lsn1 = req.lsn[2] /\ dev.lsn0 = req.lsn[3]
      /\ dev.adr2 = req.buf[1] /\ dev.adr1 = req.buf[2]
  BY <1>1, CommandWritten DEF LoadedInv
<1>3. Phy = place
  <2>1. mmu = 0
    BY <1>1, CommandWritten DEF CopiesInv, Task
  <2> QED BY <1>1, <1>2, <2>1, CommandWritten DEF Phy, pmem, PlaceInv, BufferAddress
<1>4. SectorSize * Lsn = Guest!Position
  BY <1>2 DEF Lsn, Guest!Position, Guest!Sector
<1>5. Guest!Served <=> ~NoDrive
  BY <1>1, <1>2, ArgumentTypes, CodesAssumption DEF Guest!Served, NoDrive, Byte
<1>6. /\ (c = ReadCode) <=> (req.op = "read")
      /\ (c = WriteCode) <=> (req.op = "write")
  BY <1>1, ArgumentTypes, CodesAssumption
<1>7. WriteCommand(c)
  BY DEF COMMAND
<1> HIDE DEF c
<1>8. ram' = IF Guest!Served /\ req.op = "read"
             THEN Guest!Put(ram, place, Guest!ReadAt(files[disk[req.drive]], Guest!Position,
                                                     SectorSize))
             ELSE ram
  BY <1>2, <1>3, <1>4, <1>5, <1>6, <1>7, SameHost, Zenon DEF WriteCommand
<1>9. files' = IF Guest!Served /\ req.op = "write"
               THEN [files EXCEPT ![disk[req.drive]] =
                        Guest!WriteAt(@, Guest!Position, Guest!Taken(ram, place, SectorSize))]
               ELSE files
  BY <1>2, <1>3, <1>4, <1>5, <1>6, <1>7, SameHost, Zenon DEF WriteCommand
<1>10. Answer = "pending" /\ Answer' = Meaning(dev'.status)
  BY CommandWritten DEF Answer
<1>11. Meaning(dev'.status) = IF ~Guest!Tells THEN "unknown"
                              ELSE IF Guest!Served THEN "ok" ELSE "error"
  <2>1. board.mmu \in BOOLEAN /\ board.rom \in Nat
    BY <1>1, BoardsAssumption DEF ShapeInv
  <2>2. IoPage = Guest!IoPage /\ IoPage \in Int
    BY CodesAssumption DEF IoPage, Guest!IoPage
  <2>3. CASE ~board.mmu /\ board.rom > IoPage
    <3>1. dev'.status \in {ReadCode, WriteCode}
      BY <2>3, CommandWritten
    <3>2. ReadCode \notin {0, Error} /\ WriteCode \notin {0, Error}
      BY CodesAssumption DEF Error
    <3>3. Meaning(dev'.status) = "unknown"
      BY <3>1, <3>2 DEF Meaning
    <3>4. ~Guest!Tells
      BY <2>1, <2>2, <2>3 DEF Guest!Tells
    <3> QED BY <3>3, <3>4
  <2>4. CASE ~(~board.mmu /\ board.rom > IoPage)
    <3>1. dev'.status = IF NoDrive THEN Error ELSE 0
      BY <2>4, CommandWritten
    <3>2. Error # 0
      BY CodesAssumption DEF Error
    <3>3. Meaning(dev'.status) = IF NoDrive THEN "error" ELSE "ok"
      BY <3>1, <3>2 DEF Meaning
    <3>4. Guest!Tells
      BY <2>1, <2>2, <2>4 DEF Guest!Tells
    <3> QED BY <3>3, <3>4, <1>5
  <2> QED BY <2>3, <2>4
<1>12. UNCHANGED <<board, Task, dat, disk, req, place>>
  BY CommandWritten DEF Task
<1> QED BY <1>8, <1>9, <1>10, <1>11, <1>12, Zenon DEF Guest!Transfer

LEMMA StatusRefines == ASSUME DiskInv, STATUS PROVE UNCHANGED Guest!vars
<1>1. /\ pc = 8 /\ pc' = 0 /\ b' = dev.status
      /\ UNCHANGED <<board, ram, dev, dat, files, disk, req, place, mode>>
  BY DEF STATUS, Running
<1>2. Answer' = Answer
  BY <1>1 DEF Answer
<1> QED BY <1>1, <1>2 DEF Guest!vars, Task

LEMMA StoreRefines ==
    ASSUME DiskInv, NEW s \in Stores, StoreByte(s[1], s[2])
    PROVE  Guest!Store(s[1], s[2])
<1>1. /\ StoreRam(s[1], s[2])
      /\ UNCHANGED <<board, dev, dat, files, disk, pc, req, place, b, mode>>
  BY DEF StoreByte
<1>2. Answer' = Answer /\ Task' = Task
  BY <1>1 DEF Answer, Task
<1> QED BY <1>1, <1>2, SamePlace DEF Guest!Store, StoreRam

LEMMA SwitchRefines ==
    ASSUME DiskInv, NEW to \in {"user", "system"}, SwitchTask(to)
    PROVE  \E t \in {0, 1} : Guest!Select(t)
<1> DEFINE t == IF to = "user" THEN 1 ELSE 0
<1>1. dev'.status = dev.status
  BY SwitchKeeps DEF DiskInv, ShapeInv, Registers
<1>2. Answer' = Answer
  BY <1>1, SwitchKeeps DEF Answer
<1>3. Guest!Select(t)
  BY <1>2, SwitchKeeps DEF Guest!Select
<1> QED BY <1>3

LEMMA ChangeMapRefines ==
    ASSUME DiskInv, NEW m \in Maps, ChangeMap(m[1], m[2], m[3])
    PROVE  Guest!SetMap(m[1], m[2], m[3])
<1>1. Answer' = Answer /\ Task' = Task
  BY ChangeMapKeeps DEF Answer, Task
<1> QED BY <1>1, ChangeMapKeeps DEF Guest!SetMap

LEMMA DiskChangeRefines ==
    ASSUME NEW d \in {0, 1}, NEW image \in Images \cup {NoDisk}, ChangeDisk(d, image)
    PROVE  Guest!Insert(d, image)
<1>1. /\ disk' = [disk EXCEPT ![d] = image]
      /\ UNCHANGED <<board, ram, dev, dat, files, pc, req, place, b, mode>>
  BY DEF ChangeDisk
<1>2. Answer' = Answer /\ Task' = Task
  BY <1>1 DEF Answer, Task
<1> QED BY <1>1, <1>2 DEF Guest!Insert

LEMMA ResetRefines == ASSUME ResetGuest PROVE Guest!Reset
<1>1. /\ dat' = IF board.mmu THEN [dat EXCEPT ![0][Blocks - 1] = IoBlock] ELSE dat
      /\ pc' = 0 /\ mode' = "system"
      /\ UNCHANGED <<board, ram, files, disk, req, place>>
  BY DEF ResetGuest
<1>2. Answer' \in Guest!Answers /\ Task' = 0
  BY <1>1, NotPending DEF Answer, Task
<1> QED BY <1>1, <1>2 DEF Guest!Reset

(* A board with registers, copies of the map and a driver of eight         *)
(* instructions is, to the guest, the board where a call is one step.      *)
THEOREM DiskImplementsBoard == Spec => BoardRefined
<1>1. Init => Guest!Init
  <2> SUFFICES ASSUME Init PROVE Guest!Init
    OBVIOUS
  <2>1. Answer \in Guest!Answers
    BY NotPending DEF Init, Answer
  <2>2. place = Guest!Where(Guest!Address(req.buf))
    BY InitHolds, SamePlace DEF Init, Guest!Address
  <2> QED BY <2>1, <2>2 DEF Init, Guest!Init, Task
<1>2. DiskInv /\ [Next]_vars => [Guest!Next]_(Guest!vars)
  <2> SUFFICES ASSUME DiskInv, [Next]_vars PROVE Guest!Next \/ UNCHANGED Guest!vars
    OBVIOUS
  <2>1. ASSUME NEW r \in board.requests, CallDriver(r) PROVE Guest!Next
    BY <2>1, CallRefines DEF Guest!Next
  <2>2. CASE SETUPDT
    BY <2>2, SetupRefines
  <2>3. CASE COMMAND
    BY <2>3, CommandRefines DEF Guest!Next
  <2>4. CASE STATUS
    BY <2>4, StatusRefines
  <2>5. ASSUME NEW s \in Stores, StoreByte(s[1], s[2]) PROVE Guest!Next
    <3>1. s[1] \in 0..Guest!IoPage-1 /\ s[2] \in Data
      BY GuestAssumption DEF IoPage, Guest!IoPage
    <3> QED BY <3>1, <2>5, StoreRefines DEF Guest!Next
  <2>6. ASSUME NEW to \in {"user", "system"}, SwitchTask(to) PROVE Guest!Next
    BY <2>6, SwitchRefines DEF Guest!Next
  <2>7. ASSUME NEW m \in Maps, ChangeMap(m[1], m[2], m[3]) PROVE Guest!Next
    <3>1. m[1] \in {0, 1} /\ m[2] \in 0..Blocks-1 /\ m[3] \in 0..ByteMod-1
      BY GuestAssumption DEF Byte
    <3> QED BY <3>1, <2>7, ChangeMapRefines DEF Guest!Next
  <2>8. ASSUME NEW d \in {0, 1}, NEW image \in Images \cup {NoDisk}, ChangeDisk(d, image)
        PROVE  Guest!Next
    BY <2>8, DiskChangeRefines DEF Guest!Next
  <2>9. CASE ResetGuest
    BY <2>9, ResetRefines DEF Guest!Next
  <2>10. CASE UNCHANGED vars
    BY <2>10 DEF vars, Guest!vars, Answer, Task
  <2> QED BY <2>1, <2>2, <2>3, <2>4, <2>5, <2>6, <2>7, <2>8, <2>9, <2>10 DEF Next
<1> QED BY <1>1, <1>2, DiskInvariant, PTL DEF Spec, BoardRefined, Guest!Spec
=============================================================================
