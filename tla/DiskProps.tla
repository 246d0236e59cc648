----------------------------- MODULE DiskProps -----------------------------
(***************************************************************************)
(* What is claimed of the disk controller and the memory map (module Disk).*)
(***************************************************************************)
EXTENDS Disk

(* Every variable stays in its range.                                      *)
TypeOK ==
    /\ board \in Boards
    /\ ram \in [DOMAIN board.ram -> Data]
    /\ dev \in [Registers -> Byte]
    /\ dat \in [{0, 1} -> [0..Blocks-1 -> Byte]]
    /\ mmu \in {0, 1}
    /\ immu \in {0, 1}
    /\ \A image \in Images : files[image] \in Seq(Data)
    /\ disk \in [{0, 1} -> Images \cup {NoDisk}]
    /\ pc \in 0..8
    /\ req \in board.requests
    /\ place \in Int
    /\ b \in Byte
    /\ mode \in {"system", "user"}
    /\ calls \in 0..MaxCalls
    /\ moves \in 0..MaxMoves

(* What the status register says, or B once the driver has returned.       *)
Meaning(status) ==
    CASE status = 0 -> "ok"
      [] status = Error -> "error"
      [] OTHER -> "unknown"
Answer == CASE pc = 0 -> Meaning(b)
            [] pc = 8 -> Meaning(dev.status)
            [] OTHER -> "pending"

(* The guest sees the board of module Board. A store and a transfer go     *)
(* where the map selected last says, although it is kept three times and   *)
(* the debugger copies it to and fro. A call of the driver moves exactly   *)
(* the sector asked for, to or from the place its buffer had when it was   *)
(* called, whatever comes between the eight accesses to the device, and    *)
(* leaves everything else alone. B is the status of that transfer, except  *)
(* on a board whose ROM starts above the registers.                        *)
Task == IF mode = "user" THEN 1 ELSE 0
Guest == INSTANCE Board WITH task <- Task, maps <- dat, answer <- Answer
BoardRefined == Guest!Spec
=============================================================================
