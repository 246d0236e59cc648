---------------------------- MODULE XmodemLoadInv ----------------------------
(***************************************************************************)
(* The inductive invariant behind the safety properties of XmodemLoad:     *)
(* what the host's registers, the look-ahead character f and the monitor's *)
(* place in the protocol say about each other at every moment.             *)
(***************************************************************************)
EXTENDS XmodemLoadProps

(* The counters of the monitor's loops, which TypeOK rests on. *)
Counters ==
    /\ pc = "data" => xptr < BlkLen
    /\ pc = "sum" => xptr = BlkLen
    /\ pc \in {"eotack", "abort"} => left > 0

(* Bytes taken over from the host: given to the program or still in buf0.  *)
Accepted == Len(delivered) + xcount

(* xmbuf holds the block that the monitor expects.                         *)
Current ==
    /\ xmbuf[1] = xpacknum
    /\ Accepted < Len(xdata)
    /\ \A i \in 1..BlkLen : xmbuf[i + 2] = PadByte(xdata, Accepted + i)

(* The stages of a transfer, by the host's registers. Fresh: U has been    *)
(* given and no NAK answered.                                              *)
Fresh ==
    /\ acknak = NAK /\ xidx = 0 /\ xpos = 0 /\ blocknum = 1
    /\ Accepted = 0
    /\ xmode = 2 => xpacknum = 1
    /\ f = EOT => Reading /\ pc # "start"
    /\ InBlock \/ f = SOH => rcvdnak = NoChar
    /\ rcvdnak = NAK => pc \in {"start", "purge"}
    /\ lastok = 1 => pc = "idle"

(* A block is on its way, or has been broken off and waits for a NAK.      *)
InFlight ==
    /\ acknak = ACK
    /\ xpos = Accepted + BlkLen /\ blocknum = Inc(xpacknum)
    /\ xmbuf[0] = SOH /\ Current
    /\ InBlock \/ pc \in {"start", "purge", "sendnak"}
    /\ InBlock => Together /\ (xidx = 0 => rcvdnak = NoChar)
    /\ pc = "start" => \/ xidx = 0 /\ f = NoChar /\ rcvdnak = NAK
                       \/ xidx = 1 /\ f = SOH
    /\ pc = "purge" /\ xidx = 0 => rcvdnak = NoChar
    /\ pc = "sendnak" => xidx = 0 /\ f = NoChar /\ rcvdnak = NoChar

(* The monitor has taken the block over; the ACK is due or on its way.     *)
Taken ==
    /\ acknak = ACK /\ xidx = 0
    /\ xpos = Accepted /\ blocknum = xpacknum
    /\ f = NoChar
    /\ \/ /\ rcvdnak = NoChar /\ lastok = 1
          /\ pc \in {"getc", "sendack", "abpurge", "abort", "closein", "gobble"}
       \/ rcvdnak = ACK /\ pc = "start"

(* EOT has been sent; once a NAK has come back the host sends the cleared  *)
(* block over and over.                                                    *)
Ended ==
    /\ acknak \in {EOT, ACK} /\ rcvdnak # ACK
    /\ xpos = Accepted /\ Len(xdata) <= xpos
    /\ \A i \in Frame : xmbuf[i] = 0
    /\ pc \in {"start", "purge", "sendnak", "eotack"}
    /\ pc = "start" => f \in {NoChar, EOT, 0}
    /\ f = EOT /\ pc = "start" => acknak = EOT /\ xidx = 0 /\ rcvdnak = 0
    /\ pc = "eotack" => acknak = EOT /\ xidx = 0 /\ rcvdnak = 0
    /\ pc = "sendnak" => xidx = 0 /\ f = NoChar /\ rcvdnak # NAK

HostInv ==
    /\ xmstat \in {0, 1}
    /\ FileOpen
    /\ xfate = "running" <=> xmstat = 1

EndInv ==
    /\ xfate = "complete" => pc \in {"eotack", "idle"}
    /\ kbd \in Seq(Byte \ {SOH})

GuestInv ==
    /\ xmode = 2 <=> pc # "idle"
    /\ InBlock \/ pc \in {"start", "purge", "sendnak", "eotack"}
         => xcount = 0 /\ lastok = 0
    /\ pc = "sendack" => xcount = 0 /\ lastok = 1
    /\ xmode = 2 /\ Accepted = 0 => xpacknum = 1 /\ lastok = 0

(* What is delivered, and what buf0 still holds of the last block.         *)
DataInv ==
    /\ Prefix
    /\ Accepted < Len(xdata) + BlkLen
    /\ \A j \in 0..BlkLen-1 : BlkLen - xcount <= j =>
         buf0[j] = PadByte(xdata, Accepted - BlkLen + j + 1)

(* A block that the monitor has begun to read is the one it expects, what  *)
(* it has read is stored, and after a cancellation nothing else can come   *)
(* in between. SOH is never seen where it could be taken for another's. A  *)
(* block of the file before the last U (acknak is NAK) is never complete.  *)
BlockInv ==
    /\ f = SOH => InBlock \/ pc \in {"start", "purge"}
    /\ InBlock \/ (pc = "start" /\ f = SOH) =>
         /\ xmbuf[1] = xpacknum
         /\ xmstat = 0 => kbd = <<>>
         /\ InBlock /\ f # NoChar => f = xmbuf[NextIndex]
         /\ pc = "comp" => xsum = xpacknum
         /\ IF acknak = NAK THEN pc = "sum" => f = NoChar
            ELSE /\ Current
                 /\ pc \in {"data", "sum"} =>
                      \A j \in 0..BlkLen-1 : j < xptr => buf0[j] = xmbuf[j + 3]

PhaseInv == xmstat = 1 => Fresh \/ InFlight \/ Taken \/ Ended

TypeInv == TypeOK /\ Counters

(* What is so in an orderly session; a session is not orderly when U or a  *)
(* key came where the monitor takes it for part of what went before.       *)
Session == EndInv /\ GuestInv /\ DataInv /\ BlockInv /\ PhaseInv

IInv == TypeInv /\ HostInv /\ (orderly => Session)
=============================================================================
