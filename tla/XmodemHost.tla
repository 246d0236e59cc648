----------------------------- MODULE XmodemHost -----------------------------
(***************************************************************************)
(* The host end of the simulator's XMODEM transfers: the terminal front    *)
(* end of src/src/io.c behind the guest's ACIA, and the debugger commands  *)
(* U, D and X of src/src/trace.c that start and stop a transfer.           *)
(*                                                                         *)
(* The line between the host and the guest is not a queue: a guest read    *)
(* of the ACIA calls char_input, a guest write calls do_output, and the    *)
(* only storage between the two is the register acknak (the host's answer  *)
(* when it receives), the register rcvdnak (the guest's last answer when   *)
(* the host sends) and the one character f that a status read has fetched  *)
(* and no data read has taken yet.                                         *)
(***************************************************************************)
EXTENDS Integers, Sequences, Functions

CONSTANTS
    ByteMod,                    \* 256 in the code
    BlkLen,                     \* 128 in the code: data bytes of a block
    SOH, EOT, ACK, NAK, CAN     \* the control characters 1, 4, 6, 21, 24

Byte == 0..ByteMod-1
NoChar == -1                    \* EOF: char_input has nothing to give

Controls == {SOH, EOT, ACK, NAK, CAN}

ASSUME ByteModAssumption == ByteMod \in Nat /\ ByteMod > 2
ASSUME BlkLenAssumption == BlkLen \in Nat \ {0}
ASSUME ControlsAssumption ==
    /\ Controls \subseteq Byte \ {0}
    /\ SOH # EOT /\ SOH # ACK /\ SOH # NAK /\ SOH # CAN
    /\ EOT # ACK /\ EOT # NAK /\ EOT # CAN
    /\ ACK # NAK /\ ACK # CAN /\ NAK # CAN

VARIABLES
    xmstat,     \* 0 no transfer, 1 the host sends, 2 the host receives
    xfile,      \* the FILE pointer: "null" or "open"
    xdata,      \* the bytes of the file behind xfile, read or written
    xpos,       \* how many bytes of xdata fread has been asked for
    xmbuf,      \* the block being sent or received, with its frame
    xidx,       \* index in xmbuf of the next character
    acknak,     \* sending: what ended the last block; receiving: the answer
    rcvdnak,    \* sending: the guest's last answer
    blocknum,   \* number of the next block to send or to write
    f,          \* the character do_input holds for the next data read
    kbd,        \* what was typed at the terminal and is not read yet
    xfate       \* history: how the latest transfer went

hostVars == <<xmstat, xfile, xdata, xpos, xmbuf, xidx, acknak, rcvdnak,
              blocknum, xfate>>

-----------------------------------------------------------------------------
(* Frames. xmbuf[0] is SOH, then the block number and its complement, the  *)
(* data and the check sum.                                                 *)

Last == BlkLen + 3
Frame == 0..Last
(* Mutant: the block number is kept in more than a byte. *)
IncWide(n) == n + 1

Inc(n) == (n + 1) % ByteMod
Comp(n) == ByteMod - 1 - n

DataOf(buf) == [i \in 1..BlkLen |-> buf[i + 2]]

(* The sum, modulo 256, of the data bytes. *)
CheckSum(d) == SumFunction(d) % ByteMod

(* What fread leaves in the cleared buffer: a short last read is followed  *)
(* by zeros.                                                               *)
PadByte(s, i) == IF i <= Len(s) THEN s[i] ELSE 0
Chunk(s, p) == [i \in 1..BlkLen |-> PadByte(s, p + i)]

ZeroBuf == [i \in Frame |-> 0]
Framed(n, d) ==
    [i \in Frame |-> CASE i = 0 -> SOH
                       [] i = 1 -> n
                       [] i = 2 -> Comp(n)
                       [] i \in 3..BlkLen+2 -> d[i - 2]
                       [] i = Last -> CheckSum(d)]

GoodFrame(buf) ==
    /\ buf[0] = SOH
    /\ buf[1] = Comp(buf[2])
    /\ buf[Last] = CheckSum(DataOf(buf))

-----------------------------------------------------------------------------
(* char_input: what the ACIA's receiver yields. One action per case, c is  *)
(* the character returned; where HasChar is false the result is EOF and    *)
(* nothing changes.                                                        *)

(* Mutant: any answer releases the next block. *)
ReleasedByAny == rcvdnak \in {ACK, NAK}

Released == \/ acknak = NAK /\ rcvdnak = NAK
            \/ acknak = ACK /\ rcvdnak = ACK

HasChar == \/ xmstat = 0 /\ kbd # <<>>
           \/ xmstat = 1 /\ (xidx # 0 \/ Released \/ rcvdnak = NAK)
           \/ xmstat = 2 /\ acknak # 0

ConsoleChar(c) ==
    /\ xmstat = 0
    /\ kbd # <<>>
    /\ c = Head(kbd)
    /\ kbd' = Tail(kbd)
    /\ UNCHANGED hostVars

SendNext(c) ==
    /\ xmstat = 1
    /\ xidx # 0
    /\ c = xmbuf[xidx]
    /\ IF xidx = Last
         THEN xidx' = 0 /\ rcvdnak' = NoChar /\ acknak' = ACK
         ELSE xidx' = xidx + 1 /\ UNCHANGED <<rcvdnak, acknak>>
    /\ UNCHANGED <<xmstat, xfile, xdata, xpos, xmbuf, blocknum, kbd, xfate>>

(* Mutant: xmbuf is not cleared before fread. *)
SendBlockUncleared(c) ==
    /\ xmstat = 1
    /\ xidx = 0
    /\ Released
    /\ xpos < Len(xdata)
    /\ c = SOH
    /\ xmbuf' = Framed(blocknum, [i \in 1..BlkLen |->
            IF xpos + i <= Len(xdata) THEN xdata[xpos + i] ELSE xmbuf[i + 2]])
    /\ xpos' = xpos + BlkLen
    /\ blocknum' = Inc(blocknum)
    /\ rcvdnak' = 0 /\ acknak' = ACK /\ xidx' = 1
    /\ UNCHANGED <<xmstat, xfile, xdata, kbd, xfate>>

SendBlock(c) ==
    /\ xmstat = 1
    /\ xidx = 0
    /\ Released
    /\ xpos < Len(xdata)
    /\ c = SOH
    /\ xmbuf' = Framed(blocknum, Chunk(xdata, xpos))
    /\ xpos' = xpos + BlkLen
    /\ blocknum' = Inc(blocknum)
    /\ rcvdnak' = 0 /\ acknak' = ACK /\ xidx' = 1
    /\ UNCHANGED <<xmstat, xfile, xdata, kbd, xfate>>

(* Mutant: that EOT has been sent is not noted. *)
SendEotUnmarked(c) ==
    /\ xmstat = 1
    /\ xidx = 0
    /\ Released
    /\ xpos >= Len(xdata)
    /\ c = EOT
    /\ xmbuf' = ZeroBuf
    /\ rcvdnak' = 0
    /\ UNCHANGED <<xmstat, xfile, xdata, xpos, xidx, acknak, blocknum, kbd,
                   xfate>>

SendEot(c) ==
    /\ xmstat = 1
    /\ xidx = 0
    /\ Released
    /\ xpos >= Len(xdata)
    /\ c = EOT
    /\ xmbuf' = ZeroBuf
    /\ rcvdnak' = 0 /\ acknak' = EOT
    /\ UNCHANGED <<xmstat, xfile, xdata, xpos, xidx, blocknum, kbd, xfate>>

Resend(c) ==
    /\ xmstat = 1
    /\ xidx = 0
    /\ ~Released
    /\ rcvdnak = NAK
    /\ c = xmbuf[0]
    /\ rcvdnak' = 0 /\ xidx' = 1
    /\ UNCHANGED <<xmstat, xfile, xdata, xpos, xmbuf, acknak, blocknum, kbd,
                   xfate>>

(* Mutant: the answer to EOT does not end the transfer. *)
ReplyEotStays(c) ==
    /\ xmstat = 2
    /\ acknak = EOT
    /\ c = ACK
    /\ acknak' = 0
    /\ UNCHANGED <<xmstat, xfile, xdata, xpos, xmbuf, xidx, rcvdnak, blocknum,
                   kbd, xfate>>

ReplyEot(c) ==
    /\ xmstat = 2
    /\ acknak = EOT
    /\ c = ACK
    /\ acknak' = 0 /\ xmstat' = 0 /\ xfile' = "null"
    /\ xfate' = "complete"
    /\ UNCHANGED <<xdata, xpos, xmbuf, xidx, rcvdnak, blocknum, kbd>>

Reply(c) ==
    /\ xmstat = 2
    /\ acknak \notin {0, EOT}
    /\ c = acknak
    /\ acknak' = 0
    /\ UNCHANGED <<xmstat, xfile, xdata, xpos, xmbuf, xidx, rcvdnak, blocknum,
                   kbd, xfate>>

CharInput(c) == \/ ConsoleChar(c)
                \/ SendNext(c) \/ SendBlock(c) \/ SendEot(c) \/ Resend(c)
                \/ ReplyEot(c) \/ Reply(c)

(* A read of the ACIA's status (do_input, address 0) fetches a character   *)
(* into f if it holds none; the bit it returns is f # NoChar.              *)
Fetch == /\ f = NoChar
         /\ \E c \in Byte : CharInput(c) /\ f' = c

-----------------------------------------------------------------------------
(* do_output to the ACIA's data port, by what the host is doing. *)

ToTerminal(c) == xmstat = 0 /\ UNCHANGED hostVars

(* Mutant: the ACK of a block ends the transfer. *)
TakeAnyAck(c) ==
    /\ xmstat = 1
    /\ rcvdnak' = c
    /\ IF c \in {CAN, ACK}
         THEN /\ xmstat' = 0 /\ xfile' = "null"
              /\ xfate' = IF c = CAN THEN "cancelled" ELSE "complete"
         ELSE UNCHANGED <<xmstat, xfile, xfate>>
    /\ UNCHANGED <<xdata, xpos, xmbuf, xidx, acknak, blocknum>>

TakeAnswer(c) ==
    /\ xmstat = 1
    /\ rcvdnak' = c
    /\ IF c = CAN \/ (c = ACK /\ acknak = EOT)
         THEN /\ xmstat' = 0 /\ xfile' = "null"
              /\ xfate' = IF c = CAN THEN "cancelled" ELSE "complete"
         ELSE UNCHANGED <<xmstat, xfile, xfate>>
    /\ UNCHANGED <<xdata, xpos, xmbuf, xidx, acknak, blocknum>>

(* Mutant: EOT ends the transfer wherever it comes. *)
StoreAnyEot(c) ==
    /\ xmstat = 2
    /\ xidx # Last
    /\ xmbuf' = [xmbuf EXCEPT ![xidx] = c]
    /\ xidx' = xidx + 1
    /\ acknak' = IF c = EOT THEN EOT ELSE acknak
    /\ UNCHANGED <<xmstat, xfile, xdata, xpos, rcvdnak, blocknum, xfate>>

StoreByte(c) ==
    /\ xmstat = 2
    /\ xidx # Last
    /\ xmbuf' = [xmbuf EXCEPT ![xidx] = c]
    /\ xidx' = xidx + 1
    /\ acknak' = IF xidx = 0 /\ c = EOT THEN EOT ELSE acknak
    /\ UNCHANGED <<xmstat, xfile, xdata, xpos, rcvdnak, blocknum, xfate>>

(* Mutants: a block is written whatever its number; its number is counted  *)
(* although it is not written.                                             *)
StoreAnyBlock(c) ==
    /\ xmstat = 2
    /\ xidx = Last
    /\ xmbuf' = [xmbuf EXCEPT ![xidx] = c]
    /\ xidx' = 0
    /\ acknak' = IF GoodFrame(xmbuf') THEN ACK ELSE NAK
    /\ xdata' = xdata \o DataOf(xmbuf) /\ blocknum' = Inc(blocknum)
    /\ UNCHANGED <<xmstat, xfile, xpos, rcvdnak, xfate>>

CountAnyBlock(c) ==
    /\ xmstat = 2
    /\ xidx = Last
    /\ xmbuf' = [xmbuf EXCEPT ![xidx] = c]
    /\ xidx' = 0
    /\ acknak' = IF GoodFrame(xmbuf') THEN ACK ELSE NAK
    /\ xdata' = IF blocknum = xmbuf[1] THEN xdata \o DataOf(xmbuf) ELSE xdata
    /\ blocknum' = Inc(blocknum)
    /\ UNCHANGED <<xmstat, xfile, xpos, rcvdnak, xfate>>

StoreBlock(c) ==
    /\ xmstat = 2
    /\ xidx = Last
    /\ xmbuf' = [xmbuf EXCEPT ![xidx] = c]
    /\ xidx' = 0
    /\ acknak' = IF GoodFrame(xmbuf') THEN ACK ELSE NAK
    /\ IF blocknum = xmbuf[1]
         THEN xdata' = xdata \o DataOf(xmbuf) /\ blocknum' = Inc(blocknum)
         ELSE UNCHANGED <<xdata, blocknum>>
    /\ UNCHANGED <<xmstat, xfile, xpos, rcvdnak, xfate>>

DataOut(c) == ToTerminal(c) \/ TakeAnswer(c) \/ StoreByte(c) \/ StoreBlock(c)

-----------------------------------------------------------------------------
(* The debugger's commands. Entering the debugger throws away what was     *)
(* typed and not read (TCSAFLUSH of restore_term).                         *)

(* Mutant: U does not go back to the start of a block. *)
CommandUMidway(opened, s) ==
    /\ IF opened THEN xfile' = "open" /\ xmstat' = 1 /\ xfate' = "running"
                 ELSE xfile' = "null" /\ xmstat' = 0 /\ xfate' = "cancelled"
    /\ xdata' = s /\ xpos' = 0
    /\ acknak' = NAK /\ rcvdnak' = NoChar /\ blocknum' = 1
    /\ kbd' = <<>>
    /\ UNCHANGED <<xidx, xmbuf, f>>

(* U file: opened says whether fopen succeeded, s is what is in the file. *)
CommandU(opened, s) ==
    /\ IF opened THEN xfile' = "open" /\ xmstat' = 1 /\ xfate' = "running"
                 ELSE xfile' = "null" /\ xmstat' = 0 /\ xfate' = "cancelled"
    /\ xdata' = s /\ xpos' = 0
    /\ xidx' = 0 /\ acknak' = NAK /\ rcvdnak' = NoChar /\ blocknum' = 1
    /\ kbd' = <<>>
    /\ UNCHANGED <<xmbuf, f>>

(* Mutant: the receiver does not ask for the first block. *)
CommandDSilent(opened) ==
    /\ IF opened THEN xfile' = "open" /\ xmstat' = 2 /\ xfate' = "running"
                 ELSE xfile' = "null" /\ xmstat' = 0 /\ xfate' = "cancelled"
    /\ xdata' = <<>> /\ xpos' = 0
    /\ xidx' = 0 /\ acknak' = 0 /\ blocknum' = 1
    /\ kbd' = <<>>
    /\ UNCHANGED <<xmbuf, rcvdnak, f>>

(* D file: the file is created empty. *)
CommandD(opened) ==
    /\ IF opened THEN xfile' = "open" /\ xmstat' = 2 /\ xfate' = "running"
                 ELSE xfile' = "null" /\ xmstat' = 0 /\ xfate' = "cancelled"
    /\ xdata' = <<>> /\ xpos' = 0
    /\ xidx' = 0 /\ acknak' = NAK /\ blocknum' = 1
    /\ kbd' = <<>>
    /\ UNCHANGED <<xmbuf, rcvdnak, f>>

(* Mutant: X forgets the file. *)
CommandXOpen ==
    /\ xmstat # 0
    /\ xmstat' = 0 /\ UNCHANGED xfile
    /\ xfate' = "cancelled"
    /\ kbd' = <<>>
    /\ UNCHANGED <<xdata, xpos, xmbuf, xidx, acknak, rcvdnak, blocknum, f>>

(* X during a transfer closes the file; at other times it leaves v09. *)
CommandX ==
    /\ xmstat # 0
    /\ xmstat' = 0 /\ xfile' = "null"
    /\ xfate' = "cancelled"
    /\ kbd' = <<>>
    /\ UNCHANGED <<xdata, xpos, xmbuf, xidx, acknak, rcvdnak, blocknum, f>>

HostInit ==
    /\ xmstat = 0 /\ xfile = "null" /\ xfate = "none"
    /\ xdata = <<>> /\ xpos = 0
    /\ xmbuf = ZeroBuf /\ xidx = 0
    /\ acknak = 0 /\ rcvdnak = 0 /\ blocknum = 0
    /\ f = NoChar /\ kbd = <<>>

CheckSums == {CheckSum(d) : d \in [1..BlkLen -> Byte]}

HostTypeOK ==
    /\ xmstat \in 0..2
    /\ xfile \in {"null", "open"}
    /\ xdata \in Seq(Byte)
    /\ xpos \in Nat
    /\ xmbuf \in [Frame -> Byte \cup CheckSums]
    /\ \A i \in Frame \ {Last} : xmbuf[i] \in Byte
    /\ xidx \in Frame
    /\ acknak \in {0, EOT, ACK, NAK}
    /\ rcvdnak \in Byte \cup {NoChar}
    /\ blocknum \in Byte
    /\ f \in Byte \cup {NoChar}
    /\ kbd \in Seq(Byte)
    /\ xfate \in {"none", "running", "complete", "cancelled"}
=============================================================================
