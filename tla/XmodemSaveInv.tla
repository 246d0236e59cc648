---------------------------- MODULE XmodemSaveInv ----------------------------
(***************************************************************************)
(* The inductive invariant behind the safety properties of XmodemSave:     *)
(* how far the file, the host's registers and its one answer in f or in    *)
(* acknak may be ahead of the monitor's place in the protocol.             *)
(***************************************************************************)
EXTENDS XmodemSaveProps

InBlock == pc \in {"send", "waitack"}
Ending == pc \in {"eot", "waitack2"}

(* How much of what was put the monitor takes as acknowledged.             *)
Acked == Len(sent) - Unacknowledged

(* The monitor's own variables: which of them the place in the program     *)
(* determines. After the ACK of a full last block xclsloop has no filler   *)
(* left. Once two blocks are acknowledged their number is of no interest.  *)
GuestInv ==
    /\ xmode = 1 <=> pc \notin {"idle", "waitnak"}
    /\ ~Writing => txrdy = 0
    /\ pc # "send" => sidx = 0
    /\ pc = "waitnak" => sent = <<>> /\ xpacknum = 1
    /\ InBlock \/ Ending => xcount = 0
    /\ pc = "fill" => fill = IF xcount = 0 THEN 0 ELSE BlkLen - xcount
    /\ InBlock /\ ret = "fill" => fill = 0
    /\ xmode = 1 => \/ Acked = 0 /\ xpacknum = 1
                    \/ Acked = BlkLen /\ xpacknum = Inc(1)
                    \/ Acked >= 2 * BlkLen

(* buf0 holds what was put since the last acknowledged block.              *)
DataInv ==
    xmode = 1 => \A j \in 0..BlkLen-1 :
       j < Unacknowledged => buf0[j] = sent[Acked + j + 1]

HostInv ==
    /\ xmstat \in {0, 2}
    /\ xfate = "running" <=> xmstat = 2
    /\ xfile = "open" <=> xmstat = 2

(* From here on, what holds while the host is in step with the monitor.    *)

EndInv == xfate = "complete" => pc = "idle" \/ Ending

(* What the host has of the frame that the monitor is sending.             *)
FrameInv ==
    xmstat = 2 /\ pc # "idle" /\ ~Ending =>
      /\ xidx = sidx
      /\ xidx > 0 => xmbuf[0] = SOH
      /\ xidx > 1 => xmbuf[1] = xpacknum
      /\ \A j \in 0..BlkLen-1 : j + 3 < xidx => xmbuf[j + 3] = buf0[j]

(* The block the monitor is sending is not in the file yet, or it is there *)
(* and this is one more copy; otherwise the file is what is acknowledged.  *)
(* A block of which the host has not seen the end has no ACK to be read.   *)
FileInv ==
    xmstat = 2 /\ xmode = 1 =>
      \/ /\ Len(xdata) = Acked /\ blocknum = xpacknum
         /\ pc = "waitack" => f # ACK /\ acknak # ACK
      \/ InBlock /\ Len(xdata) = Acked + BlkLen /\ blocknum = Inc(xpacknum)

(* The host's answers. The monitor waits only where one is due or in f,    *)
(* and EOT is answered at the next look at the line.                       *)
AnswerInv ==
    xmstat = 2 =>
      /\ pc = "waitnak" => /\ Len(xdata) = 0 /\ blocknum = 1
                           /\ acknak = NAK \/ (acknak = 0 /\ f = NAK)
      /\ pc \in {"waitack", "waitack2"} /\ acknak = 0 => f \in {ACK, NAK}
      /\ Ending => xidx = IF acknak = EOT THEN 1 ELSE 0
      /\ acknak = EOT =>
           /\ pc = "idle" \/ Ending
           /\ xdata = sent
           /\ pc = "eot" => txrdy = 0 /\ f = NoChar

StepInv == inStep => SavePrefix /\ EndInv /\ FrameInv /\ FileInv /\ AnswerInv

SaveInv == TypeOK /\ GuestInv /\ DataInv /\ HostInv /\ StepInv
=============================================================================
