-------------------------- MODULE XmodemSaveProofs --------------------------
(***************************************************************************)
(* Proofs about saving memory to a file (module XmodemSave), for every     *)
(* block length, every byte width, every memory and every operator.        *)
(***************************************************************************)
EXTENDS XmodemSaveInv, XmodemHostProofs

USE ByteModAssumption, BlkLenAssumption, ControlsAssumption,
    MemoriesAssumption, FillerAssumption, KeysAssumption, OperatorAssumption

-----------------------------------------------------------------------------
(* Type correctness. The counters' ranges rest on GuestInv.                *)

(* What the monitor sends is a byte, wherever it is in the frame. *)
LEMMA FrameCharType ==
  ASSUME TypeOK
  PROVE  FrameChar \in Byte
<1> USE DEF TypeOK
<1>1. sidx \in 3..BlkLen+2 => buf0[sidx - 3] \in Byte
  OBVIOUS
<1>2. sidx = 0 \/ sidx = 1 \/ sidx = 2 \/ sidx \in 3..BlkLen+2 \/ sidx = Last
  BY DEF Frame, Last
<1>3. Comp(xpacknum) \in Byte /\ SOH \in Byte
  BY CompByte DEF Controls
<1>4. QED
  BY <1>1, <1>2, <1>3 DEF FrameChar

(* The host's variables in the steps that are no commands. *)
LEMMA HostType ==
  ASSUME TypeOK, Guest
  PROVE  HostTypeOK'
<1> USE DEF TypeOK
<1>1. CASE Fetch
  BY <1>1, FetchType
<1>2. CASE UNCHANGED <<hostVars, f, kbd>>
  BY <1>2 DEF HostTypeOK, hostVars
<1>3. CASE \E c \in Byte : Got(c)
  BY <1>3 DEF HostTypeOK, Got, hostVars
<1>4. CASE SendBuf
  <2>1. FrameChar \in Byte
    BY FrameCharType
  <2>2. QED
    BY <1>4, <2>1, DataOutType DEF SendBuf, Put
<1>5. CASE SendEotChar
  BY <1>5, DataOutType DEF SendEotChar, Put, Controls
<1>6. CASE SendInit \/ WaitAck \/ WaitAck2 \/ CmdLine
  BY <1>3, <1>6, ZenonT(20) DEF SendInit, WaitAck, WaitAck2, CmdLine
<1>7. CASE Poll \/ StatusRead
  BY <1>1, <1>2, <1>7 DEF Poll, StatusRead
<1>8. CASE PutChar \/ XCloseOut \/ XClsLoop
  BY <1>2, <1>8 DEF PutChar, XCloseOut, XClsLoop
<1>9. QED
  BY <1>4, <1>5, <1>6, <1>7, <1>8 DEF Guest

(* The running sum, character by character. *)
LEMMA SumNext ==
  ASSUME TypeOK, SendBuf
  PROVE  xsum' \in Byte
<1> USE DEF TypeOK
<1>1. /\ sidx < 3 \/ sidx \in 3..BlkLen+2 \/ sidx = Last
      /\ ~(sidx < 3 /\ sidx \in 3..BlkLen+2)
      /\ sidx = Last => ~(sidx < 3) /\ sidx \notin 3..BlkLen+2
  BY DEF Frame, Last
<1>2. xsum' = CASE sidx < 3 -> 0
                [] sidx \in 3..BlkLen+2 -> (xsum + buf0[sidx - 3]) % ByteMod
                [] sidx = Last -> xsum
  BY DEF SendBuf
<1>3. CASE sidx < 3
  <2>1. xsum' = 0
    BY <1>1, <1>2, <1>3, Zenon
  <2>2. QED
    BY <2>1 DEF Byte
<1>4. CASE sidx \in 3..BlkLen+2
  <2>1. xsum' = (xsum + buf0[sidx - 3]) % ByteMod
    BY <1>1, <1>2, <1>4, Zenon
  <2>2. buf0[sidx - 3] \in Byte
    BY <1>4
  <2>3. QED
    BY <2>1, <2>2, SumByte
<1>5. CASE sidx = Last
  <2>1. xsum' = xsum
    BY <1>1, <1>2, <1>5, Zenon
  <2>2. QED
    BY <2>1
<1>6. QED
  BY <1>1, <1>3, <1>4, <1>5

(* xputc keeps buf0, its index and what was put. *)
LEMMA PutType ==
  ASSUME TypeOK, NEW c \in Byte, NEW caller \in {"prog", "fill"}, XPutC(c, caller)
  PROVE  /\ buf0' \in [0..BlkLen-1 -> Byte]
         /\ sent' \in Seq(Byte)
         /\ xcount' \in 0..BlkLen-1
         /\ pc' \in {"send", caller} /\ sidx' \in Frame /\ ret' \in {"prog", "fill"}
<1> USE DEF TypeOK
<1>1. sent' \in Seq(Byte)
  BY AppendByte DEF XPutC
<1>2. CASE xcount = BlkLen - 1
  BY <1>1, <1>2 DEF XPutC, Goto, Frame, Last
<1>3. CASE xcount # BlkLen - 1
  BY <1>1, <1>3 DEF XPutC, Goto, Frame, Last
<1>4. QED
  BY <1>2, <1>3

LEMMA GuestType ==
  ASSUME TypeOK, Guest
  PROVE  TypeOK'
<1>1. HostTypeOK'
  BY HostType
<1> USE DEF TypeOK, operator
<1>2. CASE Poll \/ StatusRead
  BY <1>1, <1>2 DEF Poll, StatusRead, guestVars
<1>3. CASE SendInit
  BY <1>1, <1>3, SMTT(20) DEF SendInit, Goto
<1>4. CASE PutChar
  <2>1. Head(todo) \in Byte /\ todo' \in Seq(Byte)
    BY <1>4 DEF PutChar
  <2>2. XPutC(Head(todo), "prog")
    BY <1>4 DEF PutChar
  <2>3. QED
    BY <1>1, <1>4, <2>1, <2>2, PutType DEF PutChar
<1>5. CASE XCloseOut
  BY <1>1, <1>5 DEF XCloseOut, Goto
<1>6. CASE XClsLoop
  <2>1. CASE fill = 0
    BY <1>1, <1>6, <2>1 DEF XClsLoop, Goto
  <2>2. CASE fill # 0
    <3>1. XPutC(Filler, "fill") /\ fill' \in 0..BlkLen
      BY <1>6, <2>2 DEF XClsLoop
    <3>2. QED
      BY <1>1, <1>6, <3>1, PutType DEF XClsLoop
  <2>3. QED
    BY <2>1, <2>2
<1>7. CASE SendBuf
  <2>1. /\ pc = "send" /\ txrdy' = 0
        /\ IF sidx = Last THEN Goto("waitack") /\ sidx' = 0
                          ELSE sidx' = sidx + 1 /\ UNCHANGED pc
        /\ UNCHANGED <<xmode, xpacknum, xcount, buf0, ret, fill, todo, sent, inStep, ops>>
    BY <1>7 DEF SendBuf, Put, operator
  <2>2. sidx' \in Frame /\ pc' \in {"send", "waitack"}
    BY <2>1 DEF Goto, Frame, Last
  <2>3. xsum' \in Byte
    BY <1>7, SumNext
  <2>4. QED
    BY <1>1, <2>1, <2>2, <2>3
<1>8. CASE WaitAck
  <2>1. xpacknum' \in Byte
    BY <1>8, IncByte DEF WaitAck
  <2>2. QED
    BY <1>1, <1>8, <2>1, SMTT(20) DEF WaitAck, Goto
<1>9. CASE SendEotChar
  BY <1>1, <1>9 DEF SendEotChar, Goto, Put
<1>10. CASE WaitAck2
  BY <1>1, <1>10, SMTT(20) DEF WaitAck2, Goto
<1>11. CASE CmdLine
  BY <1>1, <1>11 DEF CmdLine, guestVars
<1>12. QED
  BY <1>2, <1>3, <1>4, <1>5, <1>6, <1>7, <1>8, <1>9, <1>10, <1>11 DEF Guest

LEMMA OperatorType ==
  ASSUME TypeOK, Operator
  PROVE  TypeOK'
<1> USE DEF TypeOK
<1>1. ops' \in [{"save", "download", "cancel", "key"} -> Nat]
  <2>1. PICK op \in {"save", "download", "cancel", "key"} :
          ops' = [ops EXCEPT ![op] = @ + 1]
    BY Zenon DEF Operator, XSave, Download, Cancel, Type, May
  <2>2. QED
    BY <2>1
<1>2. CASE XSave
  <2>1. HostTypeOK'
    <3>1. f' = NoChar /\ kbd' = <<>> /\ xfate' = "none"
          /\ UNCHANGED <<xmstat, xfile, xdata, xpos, xmbuf, xidx, acknak,
                         rcvdnak, blocknum>>
      BY <1>2 DEF XSave
    <3>2. HostTypeOK
      OBVIOUS
    <3>3. QED
      BY <3>1, <3>2 DEF HostTypeOK
  <2>2. todo' \in Seq(Byte) /\ xpacknum' \in Byte /\ sent' \in Seq(Byte)
    BY <1>2 DEF XSave, Byte
  <2>3. QED
    BY <1>1, <1>2, <2>1, <2>2 DEF XSave, Goto
<1>3. CASE Download
  <2>1. HostTypeOK'
    BY <1>3, CommandType, Zenon DEF Download
  <2>2. QED
    BY <1>1, <1>3, <2>1 DEF Download, Quiet, guestVars
<1>4. CASE Cancel
  <2>1. HostTypeOK'
    BY <1>4, CommandType DEF Cancel
  <2>2. QED
    BY <1>1, <1>4, <2>1 DEF Cancel, guestVars
<1>5. CASE Type
  BY <1>1, <1>5 DEF Type, guestVars, hostVars, HostTypeOK
<1>6. QED
  BY <1>2, <1>3, <1>4, <1>5 DEF Operator

LEMMA TypeInit == Init => TypeOK
  BY DEF Init, HostInit, TypeOK, HostTypeOK, ZeroBuf, Frame, Last, Byte

LEMMA TypeStep == TypeOK /\ [Next]_vars => TypeOK'
<1> SUFFICES ASSUME TypeOK, [Next]_vars
             PROVE  TypeOK'
  OBVIOUS
<1>1. CASE UNCHANGED vars
  BY <1>1 DEF TypeOK, HostTypeOK, vars, hostVars, guestVars, operator
<1>2. CASE Next
  BY <1>2, GuestType, OperatorType DEF Next
<1>3. QED
  BY <1>1, <1>2

(* Every variable of the saving model keeps its type, and no index leaves  *)
(* the buffer it points into: xidx stays inside xmbuf, xcount inside buf0, *)
(* whatever the operator does.                                             *)
THEOREM SaveTypeCorrect == Spec => []TypeOK
  BY TypeInit, TypeStep, PTL DEF Spec

-----------------------------------------------------------------------------
(* What the steps do, as far as the invariant is concerned.                *)

LEMMA FrameCharIs ==
  ASSUME TypeOK
  PROVE  /\ sidx = 0 => FrameChar = SOH
         /\ sidx = 1 => FrameChar = xpacknum
         /\ \A j \in 0..BlkLen-1 : sidx = j + 3 => FrameChar = buf0[j]
<1>1. CASE sidx \in 3..BlkLen+2
  <2>1. sidx # 0 /\ sidx # 1 /\ sidx # 2 /\ sidx # Last
    BY <1>1 DEF Last
  <2>2. FrameChar = buf0[sidx - 3]
    BY <1>1, <2>1, Zenon DEF FrameChar
  <2>3. QED
    BY <1>1, <2>2
<1>2. CASE sidx = 0 \/ sidx = 1
  <2>1. sidx \notin 3..BlkLen+2 /\ sidx # Last /\ sidx # 2 /\ ~(sidx = 0 /\ sidx = 1)
    BY <1>2 DEF Last
  <2>2. (sidx = 0 => FrameChar = SOH) /\ (sidx = 1 => FrameChar = xpacknum)
    BY <1>2, <2>1, Zenon DEF FrameChar
  <2>3. \A j \in 0..BlkLen-1 : sidx # j + 3
    BY <1>2
  <2>4. QED
    BY <2>2, <2>3
<1>3. CASE sidx \notin 3..BlkLen+2 /\ sidx # 0 /\ sidx # 1
  BY <1>3
<1>4. QED
  BY <1>1, <1>2, <1>3

(* A look at the line, while the host receives or has nothing to do with   *)
(* it: the answer moves from acknak to f, and the answer to EOT ends the   *)
(* transfer.                                                               *)
LEMMA FetchIs ==
  ASSUME TypeOK, HostInv, Fetch
  PROVE  /\ f = NoChar /\ UNCHANGED <<xdata, xmbuf, xidx, blocknum>>
         /\ \/ xmstat = 0 /\ UNCHANGED <<xmstat, xfate, xfile, acknak>>
            \/ /\ xmstat = 2 /\ acknak = EOT /\ f' = ACK
               /\ xmstat' = 0 /\ xfate' = "complete" /\ xfile' = "null"
            \/ /\ xmstat = 2 /\ acknak \in {ACK, NAK} /\ f' = acknak
               /\ acknak' = 0 /\ UNCHANGED <<xmstat, xfate, xfile>>
<1> PICK c \in Byte : CharInput(c) /\ f' = c
  BY DEF Fetch
<1>1. f = NoChar /\ xmstat \in {0, 2} /\ acknak \in {0, EOT, ACK, NAK}
  BY DEF Fetch, HostInv, TypeOK, HostTypeOK
<1>2. CASE ConsoleChar(c)
  BY <1>1, <1>2 DEF ConsoleChar, hostVars
<1>3. CASE ReplyEot(c)
  BY <1>1, <1>3 DEF ReplyEot
<1>4. CASE Reply(c)
  BY <1>1, <1>4 DEF Reply
<1>5. QED
  BY <1>1, <1>2, <1>3, <1>4 DEF CharInput, SendNext, SendBlock, SendEot, Resend

(* A character that the monitor writes. *)
LEMMA PutIs ==
  ASSUME TypeOK, HostInv, NEW c \in Byte, Put(c)
  PROVE  /\ txrdy = 1 /\ txrdy' = 0 /\ UNCHANGED <<f, xmstat, xfate, xfile>>
         /\ \/ xmstat = 0 /\ UNCHANGED <<xdata, xmbuf, xidx, blocknum, acknak>>
            \/ /\ xmstat = 2 /\ xidx # Last
               /\ xmbuf' = [xmbuf EXCEPT ![xidx] = c] /\ xidx' = xidx + 1
               /\ acknak' = IF xidx = 0 /\ c = EOT THEN EOT ELSE acknak
               /\ UNCHANGED <<xdata, blocknum>>
            \/ /\ xmstat = 2 /\ xidx = Last
               /\ xidx' = 0 /\ acknak' \in {ACK, NAK}
               /\ IF blocknum = xmbuf[1]
                    THEN xdata' = xdata \o DataOf(xmbuf) /\ blocknum' = Inc(blocknum)
                    ELSE UNCHANGED <<xdata, blocknum>>
<1>1. txrdy = 1 /\ txrdy' = 0 /\ DataOut(c) /\ UNCHANGED <<f, kbd>> /\ xmstat \in {0, 2}
  BY DEF Put, HostInv
<1>2. CASE ToTerminal(c)
  BY <1>1, <1>2 DEF ToTerminal, hostVars
<1>3. CASE StoreByte(c)
  BY <1>1, <1>3 DEF StoreByte
<1>4. CASE StoreBlock(c)
  BY <1>1, <1>4, Zenon DEF StoreBlock
<1>5. QED
  BY <1>1, <1>2, <1>3, <1>4 DEF DataOut, TakeAnswer

(* xputc: a character more in buf0, or the last one of a block.            *)
LEMMA PutCIs ==
  ASSUME TypeOK, NEW c \in Byte, NEW caller \in {"prog", "fill"}, XPutC(c, caller)
  PROVE  /\ Len(sent') = Len(sent) + 1 /\ sent'[Len(sent) + 1] = c
         /\ \A i \in 1..Len(sent) : sent'[i] = sent[i]
         /\ buf0'[xcount] = c
         /\ \A j \in 0..BlkLen-1 : j # xcount => buf0'[j] = buf0[j]
         /\ \/ xcount = BlkLen - 1 /\ xcount' = 0 /\ pc' = "send" /\ sidx' = 0
               /\ ret' = caller
            \/ xcount < BlkLen - 1 /\ xcount' = xcount + 1 /\ pc' = caller
               /\ UNCHANGED <<sidx, ret>>
<1> USE DEF TypeOK
<1>1. sent' = Append(sent, c) /\ buf0' = [buf0 EXCEPT ![xcount] = c]
  BY DEF XPutC
<1>2. QED
  BY <1>1, AppendByte DEF XPutC, Goto

-----------------------------------------------------------------------------
(* The monitor's own variables.                                            *)

LEMMA GuestPut ==
  ASSUME TypeOK, GuestInv, PutChar \/ (XClsLoop /\ fill # 0)
  PROVE  GuestInv'
<1> USE DEF GuestInv, InBlock, Ending, Writing, Acked, Unacknowledged
<1>0. Len(sent) \in Nat /\ xcount \in 0..BlkLen-1 /\ fill \in 0..BlkLen
  BY DEF TypeOK
<1>1. CASE PutChar
  <2>1. XPutC(Head(todo), "prog") /\ pc = "prog" /\ Head(todo) \in Byte
        /\ UNCHANGED <<txrdy, xmode, xpacknum, fill>>
    BY <1>1 DEF PutChar, TypeOK
  <2>2. /\ Len(sent') = Len(sent) + 1
        /\ \/ xcount = BlkLen - 1 /\ xcount' = 0 /\ pc' = "send" /\ ret' = "prog"
           \/ xcount < BlkLen - 1 /\ xcount' = xcount + 1 /\ pc' = "prog"
              /\ UNCHANGED <<sidx, ret>>
    BY <2>1, PutCIs
  <2>3. Acked' = Acked
    BY <1>0, <2>1, <2>2
  <2>4. QED
    BY <1>0, <2>1, <2>2, <2>3
<1>2. CASE XClsLoop /\ fill # 0
  <2>1. XPutC(Filler, "fill") /\ pc = "fill" /\ fill' = fill - 1
        /\ UNCHANGED <<txrdy, xmode, xpacknum>>
    BY <1>2 DEF XClsLoop
  <2>2. /\ Len(sent') = Len(sent) + 1
        /\ \/ xcount = BlkLen - 1 /\ xcount' = 0 /\ pc' = "send" /\ ret' = "fill"
           \/ xcount < BlkLen - 1 /\ xcount' = xcount + 1 /\ pc' = "fill"
              /\ UNCHANGED <<sidx, ret>>
    BY <2>1, PutCIs
  <2>3. Acked' = Acked
    BY <1>0, <2>1, <2>2
  <2>4. QED
    BY <1>0, <1>2, <2>1, <2>2, <2>3
<1>3. QED
  BY <1>1, <1>2

LEMMA GuestAck ==
  ASSUME TypeOK, GuestInv, WaitAck
  PROVE  GuestInv'
<1> USE DEF GuestInv, InBlock, Ending, Writing, Acked, Unacknowledged
<1>1. PICK c \in Byte :
        \/ c = CAN /\ Goto("idle") /\ xmode' = 0 /\ UNCHANGED xpacknum
        \/ c = NAK /\ Goto("send") /\ UNCHANGED <<xmode, xpacknum>>
        \/ c = ACK /\ Goto(ret) /\ xpacknum' = Inc(xpacknum) /\ UNCHANGED xmode
        \/ c \notin {CAN, NAK, ACK} /\ UNCHANGED <<pc, xmode, xpacknum>>
  BY DEF WaitAck
<1>2. pc = "waitack" /\ UNCHANGED <<txrdy, xsum, xcount, buf0, sidx, ret, fill, todo, sent>>
  BY DEF WaitAck
<1>3. QED
  BY <1>1, <1>2 DEF Goto, TypeOK

LEMMA GuestStep ==
  ASSUME TypeOK, GuestInv, Next
  PROVE  GuestInv'
<1> USE DEF GuestInv, InBlock, Ending, Writing, Acked, Unacknowledged
<1>1. CASE Poll \/ CmdLine \/ Download \/ Cancel \/ Type
  BY <1>1 DEF Poll, CmdLine, Download, Cancel, Type, guestVars
<1>2. CASE StatusRead
  BY <1>2 DEF StatusRead
<1>3. CASE SendInit
  BY <1>3 DEF SendInit, Goto, TypeOK
<1>4. CASE XCloseOut
  BY <1>4 DEF XCloseOut, Goto, TypeOK
<1>5. CASE XClsLoop /\ fill = 0
  BY <1>5 DEF XClsLoop, Goto, TypeOK
<1>6. CASE SendBuf
  <2>1. /\ pc = "send" /\ txrdy' = 0
        /\ IF sidx = Last THEN Goto("waitack") /\ sidx' = 0
                          ELSE sidx' = sidx + 1 /\ UNCHANGED pc
        /\ UNCHANGED <<xmode, xpacknum, xcount, buf0, ret, fill, todo, sent>>
    BY <1>6 DEF SendBuf, Put
  <2>2. QED
    BY <2>1 DEF Goto
<1>7. CASE SendEotChar
  BY <1>7 DEF SendEotChar, Put, Goto
<1>8. CASE WaitAck2
  BY <1>8 DEF WaitAck2, Goto
<1>9. CASE XSave
  BY <1>9 DEF XSave, Goto, TypeOK
<1>10. QED
  BY <1>1, <1>2, <1>3, <1>4, <1>5, <1>6, <1>7, <1>8, <1>9, GuestPut, GuestAck
  DEF Next, Guest, Operator

-----------------------------------------------------------------------------
(* The file, the host's registers and its answers.                         *)

LineInv == SavePrefix /\ EndInv /\ FrameInv /\ FileInv /\ AnswerInv

(* Only the operator brings the two ends in step or out of it.             *)
LEMMA InStepKept ==
  ASSUME Guest
  PROVE  inStep' = inStep
  BY ZenonT(20) DEF Guest, Poll, StatusRead, SendInit, PutChar, XCloseOut, XClsLoop,
     SendBuf, WaitAck, SendEotChar, WaitAck2, CmdLine, operator

(* The monitor reads a character: it waits for NAK, for the answer to a    *)
(* block or to EOT, or is at its prompt.                                   *)
LEMMA InitLine ==
  ASSUME SaveInv, inStep, SendInit
  PROVE  LineInv'
<1> USE DEF SaveInv, StepInv, GuestInv, LineInv, InBlock, Ending, Acked, Unacknowledged
<1>1. PICK c \in Byte :
        /\ f = c /\ f' = NoChar
        /\ \/ c = CAN /\ Goto("idle") /\ UNCHANGED <<xmode, xcount>>
           \/ c = NAK /\ Goto("prog") /\ xmode' = 1 /\ xcount' = 0
           \/ c \notin {CAN, NAK} /\ UNCHANGED <<pc, xmode, xcount>>
  BY DEF SendInit, Got
<1>2. /\ pc = "waitnak" /\ sent = <<>> /\ xpacknum = 1 /\ xmode = 0 /\ sidx = 0
      /\ UNCHANGED <<xmstat, xdata, xmbuf, xidx, acknak, blocknum, xfate, xfile, sent,
                     sidx, buf0, xpacknum>>
  BY DEF SendInit, Got, hostVars, TypeOK
<1>3. SavePrefix'
  BY <1>1, <1>2 DEF SavePrefix, Goto, TypeOK
<1>4. EndInv'
  BY <1>1, <1>2 DEF EndInv, Goto
<1>5. FrameInv'
  BY <1>1, <1>2 DEF FrameInv, Goto
<1>6. FileInv'
  BY <1>1, <1>2 DEF FileInv, AnswerInv, Goto
<1>7. AnswerInv'
  BY <1>1, <1>2 DEF AnswerInv, Goto
<1>8. QED
  BY <1>3, <1>4, <1>5, <1>6, <1>7

LEMMA AckLine ==
  ASSUME SaveInv, inStep, WaitAck
  PROVE  LineInv'
<1> USE DEF SaveInv, StepInv, GuestInv, LineInv, InBlock, Ending, Acked, Unacknowledged
<1>1. PICK c \in Byte :
        /\ f = c /\ f' = NoChar
        /\ \/ c = CAN /\ Goto("idle") /\ xmode' = 0 /\ UNCHANGED xpacknum
           \/ c = NAK /\ Goto("send") /\ UNCHANGED <<xmode, xpacknum>>
           \/ c = ACK /\ Goto(ret) /\ xpacknum' = Inc(xpacknum) /\ UNCHANGED xmode
           \/ c \notin {CAN, NAK, ACK} /\ UNCHANGED <<pc, xmode, xpacknum>>
  BY DEF WaitAck, Got
<1>2. /\ pc = "waitack" /\ sidx = 0 /\ xmode = 1 /\ xcount = 0 /\ ret \in {"prog", "fill"}
      /\ UNCHANGED <<xmstat, xdata, xmbuf, xidx, acknak, blocknum, xfate, xfile, sent,
                     sidx, buf0, xcount>>
  BY DEF WaitAck, Got, hostVars, TypeOK
<1>0. Len(sent) \in Nat /\ Len(xdata) \in Nat
  BY DEF TypeOK, HostTypeOK
<1>3. SavePrefix'
  BY <1>1, <1>2 DEF SavePrefix, Goto, TypeOK
<1>4. EndInv'
  BY <1>1, <1>2 DEF EndInv, Goto
<1>5. FrameInv'
  BY <1>1, <1>2 DEF FrameInv, Goto
<1>6. FileInv'
  BY <1>0, <1>1, <1>2, ControlBytes DEF FileInv, Goto
<1>7. AnswerInv'
  BY <1>1, <1>2 DEF AnswerInv, Goto, TypeOK, HostTypeOK
<1>8. QED
  BY <1>3, <1>4, <1>5, <1>6, <1>7

LEMMA EndLine ==
  ASSUME SaveInv, inStep, WaitAck2 \/ CmdLine
  PROVE  LineInv'
<1> USE DEF SaveInv, StepInv, GuestInv, LineInv, InBlock, Ending, Writing, Acked, Unacknowledged
<1>1. PICK c \in Byte :
        /\ f = c /\ f' = NoChar
        /\ \/ pc' = "idle" /\ xmode' = 0
           \/ c = NAK /\ pc = "waitack2" /\ pc' = "eot" /\ UNCHANGED xmode
           \/ c \notin {CAN, NAK, ACK} /\ UNCHANGED <<pc, xmode>>
  <2>1. CASE WaitAck2
    BY <2>1 DEF WaitAck2, Got, Goto
  <2>2. CASE CmdLine
    BY <2>2 DEF CmdLine, Got, guestVars, TypeOK
  <2>3. QED
    BY <2>1, <2>2
<1>2. /\ pc = "idle" \/ (pc = "waitack2" /\ xcount = 0)
      /\ sidx = 0 /\ txrdy = 0
      /\ UNCHANGED <<xmstat, xdata, xmbuf, xidx, acknak, blocknum, xfate, xfile, sent,
                     sidx, buf0, xcount, xpacknum, txrdy>>
  BY DEF WaitAck2, CmdLine, Got, hostVars, guestVars
<1>3. SavePrefix'
  BY <1>1, <1>2 DEF SavePrefix, TypeOK
<1>4. EndInv'
  BY <1>1, <1>2 DEF EndInv
<1>5. FrameInv'
  BY <1>1, <1>2 DEF FrameInv
<1>6. FileInv'
  BY <1>1, <1>2 DEF FileInv, TypeOK
<1>7. AnswerInv'
  <2>1. pc' = "waitack2" => pc = "waitack2" /\ f \notin {ACK, NAK}
    BY <1>1, <1>2
  <2>2. pc' = "eot" => pc = "waitack2" /\ txrdy' = 0 /\ f' = NoChar
    BY <1>1, <1>2
  <2>3. pc' \in {"idle", "waitack2", "eot"} /\ (pc = "idle" => pc' = "idle")
    BY <1>1, <1>2
  <2>4. QED
    BY <1>2, <2>1, <2>2, <2>3 DEF AnswerInv
<1>8. QED
  BY <1>3, <1>4, <1>5, <1>6, <1>7

(* A look at the line. *)
LEMMA PollLine ==
  ASSUME SaveInv, inStep, Poll \/ StatusRead
  PROVE  LineInv'
<1> USE DEF SaveInv, StepInv, GuestInv, LineInv, InBlock, Ending, Writing, Acked, Unacknowledged
<1>1. UNCHANGED <<pc, xmode, xpacknum, xcount, buf0, sidx, sent>>
  BY DEF Poll, StatusRead, guestVars
<1>2. \/ Reading /\ txrdy' = txrdy /\ Fetch
      \/ Writing /\ txrdy = 0 /\ txrdy' = 1
           /\ IF f = NoChar /\ HasChar THEN Fetch ELSE UNCHANGED <<hostVars, f>>
  BY DEF Poll, StatusRead, guestVars
<1>3. CASE Fetch
  <2>1. f = NoChar /\ UNCHANGED <<xdata, xmbuf, xidx, blocknum>>
    BY <1>3, FetchIs
  <2>2. CASE xmstat = 0 /\ UNCHANGED <<xmstat, xfate, xfile, acknak>>
    BY <1>1, <2>1, <2>2 DEF SavePrefix, EndInv, HostInv, FrameInv, FileInv, AnswerInv
  <2>3. CASE xmstat = 2 /\ acknak = EOT /\ xmstat' = 0 /\ xfate' = "complete"
            /\ xfile' = "null"
    BY <1>1, <2>1, <2>3 DEF SavePrefix, EndInv, HostInv, FrameInv, FileInv, AnswerInv
  <2>4. CASE /\ xmstat = 2 /\ acknak \in {ACK, NAK} /\ f' = acknak
             /\ acknak' = 0 /\ UNCHANGED <<xmstat, xfate, xfile>>
    <3>1. SavePrefix' /\ EndInv' /\ FrameInv'
      BY <1>1, <2>1, <2>4 DEF SavePrefix, EndInv, HostInv, FrameInv
    <3>2. FileInv'
      BY <1>1, <2>1, <2>4, ControlBytes DEF FileInv
    <3>3. AnswerInv'
      BY <1>1, <2>1, <2>4, ControlBytes DEF AnswerInv
    <3>4. QED
      BY <3>1, <3>2, <3>3
  <2>5. QED
    BY <1>3, <2>2, <2>3, <2>4, FetchIs
<1>4. CASE ~Fetch
  <2>1. /\ Writing /\ txrdy = 0 /\ ~(f = NoChar /\ HasChar)
        /\ UNCHANGED <<xmstat, xdata, xmbuf, xidx, acknak, blocknum, xfate, xfile, f>>
    BY <1>2, <1>4 DEF hostVars
  <2>2. xmstat = 2 /\ acknak = EOT => pc # "eot"
    BY <2>1, ControlBytes DEF HasChar, AnswerInv
  <2>3. SavePrefix' /\ EndInv' /\ FrameInv' /\ FileInv'
    BY <1>1, <2>1 DEF SavePrefix, EndInv, HostInv, FrameInv, FileInv
  <2>4. AnswerInv'
    BY <1>1, <2>1, <2>2 DEF AnswerInv
  <2>5. QED
    BY <2>3, <2>4
<1>5. QED
  BY <1>3, <1>4

(* A character is put: the file stays a beginning of what was put, and     *)
(* buf0 holds one character more of it.                                    *)
LEMMA PutLine ==
  ASSUME SaveInv, inStep, NEW c \in Byte, NEW caller \in {"prog", "fill"}, XPutC(c, caller),
         pc = caller, UNCHANGED <<hostVars, f, kbd, txrdy, xmode, xpacknum>>
  PROVE  LineInv'
<1> USE DEF SaveInv, StepInv, GuestInv, LineInv, InBlock, Ending, Acked, Unacknowledged
<1>0. /\ Len(sent) \in Nat /\ Len(xdata) \in Nat /\ xcount \in 0..BlkLen-1
      /\ sidx = 0 /\ xmode = 1 /\ pc \in {"prog", "fill"}
      /\ UNCHANGED <<xmstat, xdata, xmbuf, xidx, acknak, blocknum, xfate, xfile, f,
                     txrdy, xmode, xpacknum>>
  BY DEF TypeOK, HostTypeOK, hostVars
<1>1. /\ Len(sent') = Len(sent) + 1 /\ sent'[Len(sent) + 1] = c
      /\ \A i \in 1..Len(sent) : sent'[i] = sent[i]
      /\ buf0'[xcount] = c
      /\ \A j \in 0..BlkLen-1 : j # xcount => buf0'[j] = buf0[j]
  BY PutCIs
<1>2. \/ xcount = BlkLen - 1 /\ xcount' = 0 /\ pc' = "send" /\ sidx' = 0
      \/ xcount < BlkLen - 1 /\ xcount' = xcount + 1 /\ pc' = pc /\ sidx' = 0
  BY <1>0, PutCIs
<1>3. Acked' = Acked /\ Acked \in Nat /\ Acked + xcount = Len(sent)
  <2>1. Acked = Len(sent) - xcount
    BY <1>0
  <2>2. Acked \in Nat
    BY <1>0, <2>1
  <2> HIDE DEF SaveInv, StepInv, GuestInv, LineInv
  <2>3. Acked' = Len(sent) - xcount
    BY <1>0, <1>1, <1>2
  <2>4. QED
    BY <1>0, <2>1, <2>2, <2>3
<1>4. SavePrefix'
  BY <1>0, <1>1 DEF SavePrefix
<1>5. EndInv'
  BY <1>0, <1>2 DEF EndInv
<1>6. FrameInv'
  BY <1>0, <1>2 DEF FrameInv
<1>7. FileInv'
  <2>1. xmstat = 2 => Len(xdata) = Acked /\ blocknum = xpacknum
    BY <1>0 DEF FileInv
  <2>2. pc' # "waitack"
    BY <1>0, <1>2
  <2> HIDE DEF Acked, Unacknowledged
  <2>3. QED
    BY <1>0, <1>3, <2>1, <2>2 DEF FileInv
<1>8. AnswerInv'
  BY <1>0, <1>2 DEF AnswerInv
<1>9. QED
  BY <1>4, <1>5, <1>6, <1>7, <1>8

LEMMA ProgramLine ==
  ASSUME SaveInv, inStep, PutChar \/ XCloseOut \/ XClsLoop
  PROVE  LineInv'
<1>1. CASE PutChar
  <2>1. Head(todo) \in Byte
    BY <1>1 DEF PutChar, SaveInv, TypeOK
  <2>2. XPutC(Head(todo), "prog") /\ pc = "prog"
        /\ UNCHANGED <<hostVars, f, kbd, txrdy, xmode, xpacknum>>
    BY <1>1 DEF PutChar
  <2>3. QED
    BY <2>1, <2>2, PutLine
<1>2. CASE XClsLoop /\ fill # 0
  <2>1. XPutC(Filler, "fill") /\ pc = "fill"
        /\ UNCHANGED <<hostVars, f, kbd, txrdy, xmode, xpacknum>>
    BY <1>2 DEF XClsLoop
  <2>2. QED
    BY <2>1, PutLine
<1>3. CASE XCloseOut \/ (XClsLoop /\ fill = 0)
  <2> USE DEF SaveInv, StepInv, GuestInv, LineInv, InBlock, Ending, Acked, Unacknowledged
  <2>1. /\ pc \in {"prog", "fill"}
        /\ pc' \in {"eot", "fill"} /\ (pc' = "eot" => xcount = 0)
        /\ sidx = 0 /\ txrdy = 0 /\ xmode = 1
        /\ UNCHANGED <<xmstat, xdata, xmbuf, xidx, acknak, blocknum, xfate, xfile, f,
                       txrdy, xmode, xpacknum, xcount, buf0, sidx, sent>>
    BY <1>3 DEF XCloseOut, XClsLoop, Goto, hostVars, TypeOK, Writing
  <2>2. SavePrefix' /\ EndInv' /\ FrameInv' /\ FileInv'
    BY <2>1 DEF SavePrefix, EndInv, HostInv, FrameInv, FileInv
  <2>3. AnswerInv'
    BY <2>1 DEF AnswerInv, FrameInv
  <2>4. QED
    BY <2>2, <2>3
<1>4. QED
  BY <1>1, <1>2, <1>3

(* EOT: all that was put is in the file.                                   *)
LEMMA EotLine ==
  ASSUME SaveInv, inStep, SendEotChar
  PROVE  LineInv'
<1> USE DEF SaveInv, StepInv, GuestInv, LineInv, InBlock, Ending, Acked, Unacknowledged
<1>1. /\ pc = "eot" /\ Put(EOT) /\ pc' = "waitack2" /\ EOT \in Byte
      /\ UNCHANGED <<xmode, xpacknum, xcount, buf0, sidx, sent>>
  BY ControlBytes DEF SendEotChar, Goto
<1>2. txrdy = 1 /\ xmode = 1 /\ xcount = 0 /\ UNCHANGED <<f, xmstat, xfate, xfile>>
  BY <1>1, PutIs
<1>3. CASE xmstat = 0 /\ UNCHANGED <<xdata, xmbuf, xidx, blocknum, acknak>>
  BY <1>1, <1>2, <1>3 DEF SavePrefix, EndInv, HostInv, FrameInv, FileInv, AnswerInv
<1>4. CASE xmstat = 2
  <2>1. acknak # EOT /\ xidx = 0
    BY <1>1, <1>2, <1>4 DEF AnswerInv
  <2>2. xidx' = 1 /\ acknak' = EOT /\ UNCHANGED <<xdata, blocknum>>
    BY <1>1, <1>4, <2>1, PutIs DEF Last
  <2>3. Len(xdata) = Len(sent) /\ blocknum = xpacknum
    BY <1>1, <1>2, <1>4 DEF FileInv, TypeOK
  <2>4. xdata = sent
    <3>1. xdata \in Seq(Byte) /\ sent \in Seq(Byte)
      BY DEF TypeOK, HostTypeOK
    <3>2. \A i \in 1..Len(xdata) : xdata[i] = sent[i]
      BY <1>4, <2>3 DEF SavePrefix, EndInv, HostInv
    <3>3. QED
      BY <2>3, <3>1, <3>2
  <2>5. SavePrefix' /\ EndInv' /\ FrameInv' /\ FileInv'
    BY <1>1, <1>2, <1>4, <2>2, <2>3 DEF SavePrefix, EndInv, HostInv, FrameInv, FileInv
  <2>6. AnswerInv'
    BY <1>1, <2>2, <2>4, ControlBytes DEF AnswerInv
  <2>7. QED
    BY <2>5, <2>6
<1>5. QED
  BY <1>1, <1>3, <1>4, PutIs

(* What is behind the end of a sequence that another is appended to.       *)
LEMMA ConcatByte ==
  ASSUME NEW s \in Seq(Byte), NEW t \in Seq(Byte)
  PROVE  /\ s \o t \in Seq(Byte)
         /\ Len(s \o t) = Len(s) + Len(t)
         /\ \A i \in 1..Len(s) + Len(t) :
              (s \o t)[i] = IF i <= Len(s) THEN s[i] ELSE t[i - Len(s)]
  OBVIOUS

(* A character of the frame but the last: the host's copy stays in step.   *)
LEMMA FrameLine ==
  ASSUME SaveInv, inStep, SendBuf, xmstat = 2, sidx # Last
  PROVE  LineInv'
<1> USE DEF SaveInv, StepInv, GuestInv, LineInv, InBlock, Ending, Acked, Unacknowledged
<1>1. /\ pc = "send" /\ Put(FrameChar) /\ pc' = "send" /\ sidx' = sidx + 1
      /\ UNCHANGED <<xmode, xpacknum, xcount, buf0, sent>>
  BY Zenon DEF SendBuf, Goto
<1>2. /\ xidx = sidx /\ sidx \in 0..Last-1 /\ Last = BlkLen + 3 /\ xmode = 1
      /\ xidx > 0 => xmbuf[0] = SOH
      /\ xidx > 1 => xmbuf[1] = xpacknum
      /\ \A j \in 0..BlkLen-1 : j + 3 < xidx => xmbuf[j + 3] = buf0[j]
  BY <1>1 DEF FrameInv, TypeOK, Frame, Last
<1>3. FrameChar \in Byte
  BY FrameCharType
<1>4. /\ UNCHANGED <<xmstat, xfate, xfile, f, xdata, blocknum>>
      /\ xmbuf' = [xmbuf EXCEPT ![xidx] = FrameChar] /\ xidx' = xidx + 1
      /\ acknak' = IF xidx = 0 /\ FrameChar = EOT THEN EOT ELSE acknak
  BY <1>1, <1>2, <1>3, PutIs
<1>5. acknak' = acknak
  BY <1>2, <1>4, FrameCharIs
<1>6. xmbuf'[xidx] = FrameChar /\ \A i \in Frame : i # xidx => xmbuf'[i] = xmbuf[i]
  BY <1>2, <1>4 DEF TypeOK, HostTypeOK, Frame, Last
<1>7. SavePrefix' /\ EndInv' /\ FileInv' /\ AnswerInv'
  BY <1>1, <1>4, <1>5 DEF SavePrefix, EndInv, HostInv, FileInv, AnswerInv
<1>8. FrameInv'
  <2>1. xidx' > 0 => xmbuf'[0] = SOH
    <3>1. CASE xidx = 0
      BY <1>2, <1>6, <3>1, FrameCharIs
    <3>2. CASE xidx # 0
      BY <1>2, <1>6, <3>2 DEF Frame
    <3>3. QED
      BY <3>1, <3>2
  <2>2. xidx' > 1 => xmbuf'[1] = xpacknum
    BY <1>2, <1>4, <1>6, FrameCharIs DEF Frame
  <2>3. ASSUME NEW j \in 0..BlkLen-1, j + 3 < xidx'
        PROVE  xmbuf'[j + 3] = buf0[j]
    <3>1. CASE j + 3 = xidx
      BY <1>2, <1>6, <3>1, FrameCharIs
    <3>2. CASE j + 3 < xidx
      <4>1. j + 3 \in Frame /\ j + 3 # xidx
        BY <1>2, <3>2 DEF Frame
      <4>2. QED
        BY <1>2, <1>6, <3>2, <4>1
    <3>3. QED
      BY <1>2, <1>4, <2>3, <3>1, <3>2
  <2>4. QED
    BY <1>1, <1>2, <1>4, <2>1, <2>2, <2>3 DEF FrameInv
<1>9. QED
  BY <1>7, <1>8

(* The last character of the frame: a new block is written, a copy is not. *)
LEMMA LastLine ==
  ASSUME SaveInv, inStep, SendBuf, xmstat = 2, sidx = Last
  PROVE  LineInv'
<1> USE DEF SaveInv, StepInv, GuestInv, LineInv, InBlock, Ending, Acked, Unacknowledged
<1>1. /\ pc = "send" /\ Put(FrameChar) /\ pc' = "waitack" /\ sidx' = 0
      /\ UNCHANGED <<xmode, xpacknum, xcount, buf0, sent>>
  BY Zenon DEF SendBuf, Goto
<1>2. /\ xidx = Last /\ Last = BlkLen + 3 /\ xmode = 1
      /\ xmbuf[1] = xpacknum
      /\ \A j \in 0..BlkLen-1 : xmbuf[j + 3] = buf0[j]
  BY <1>1 DEF FrameInv, Last
<1>3. /\ UNCHANGED <<xmstat, xfate, xfile, f>>
      /\ xidx' = 0 /\ acknak' \in {ACK, NAK}
      /\ IF blocknum = xpacknum
           THEN xdata' = xdata \o DataOf(xmbuf) /\ blocknum' = Inc(blocknum)
           ELSE UNCHANGED <<xdata, blocknum>>
  BY <1>1, <1>2, FrameCharType, PutIs
<1>4. /\ Len(sent) \in Nat /\ Len(xdata) \in Nat /\ xdata \in Seq(Byte)
      /\ xpacknum \in Byte /\ xcount = 0 /\ Acked = Len(sent) - BlkLen /\ Acked' = Acked
      /\ Acked \in Nat
  <2>1. /\ Len(sent) \in Nat /\ Len(xdata) \in Nat /\ xdata \in Seq(Byte)
        /\ xpacknum \in Byte /\ xcount = 0
    BY <1>1 DEF TypeOK, HostTypeOK
  <2>2. Acked = 0 \/ Acked = BlkLen \/ Acked >= 2 * BlkLen
    BY <1>2
  <2> HIDE DEF SaveInv, StepInv, GuestInv, LineInv
  <2>3. Acked = Len(sent) - BlkLen /\ Acked' = Len(sent) - BlkLen
    BY <1>1
  <2> HIDE DEF Acked, Unacknowledged
  <2>4. QED
    BY <2>1, <2>2, <2>3
<1>5. Inc(xpacknum) # xpacknum
  <2> HIDE DEF SaveInv, StepInv, GuestInv, LineInv, Acked, Unacknowledged
  <2>1. xpacknum \in Byte
    BY <1>4
  <2>2. QED
    BY <2>1 DEF Inc, Byte
<1>6. /\ Len(xdata') = Acked + BlkLen /\ blocknum' = Inc(xpacknum)
      /\ \A i \in 1..Len(xdata') : xdata'[i] = sent[i]
  <2>1. \A i \in 1..Len(xdata) : xdata[i] = sent[i]
    BY DEF SavePrefix, EndInv, HostInv
  <2>2. CASE blocknum = xpacknum
    <3> DEFINE d == DataOf(xmbuf)
    <3>1. d \in Seq(Byte) /\ Len(d) = BlkLen /\ \A i \in 1..BlkLen : d[i] = buf0[i - 1]
      <4>1. \A i \in 1..BlkLen : xmbuf[i + 2] = buf0[i - 1]
        BY <1>2
      <4>2. \A i \in 1..BlkLen : buf0[i - 1] \in Byte
        BY DEF TypeOK
      <4>3. QED
        BY <4>1, <4>2 DEF DataOf
    <3>2. \A i \in 1..BlkLen : d[i] = sent[Acked + i]
      <4>1. \A j \in 0..BlkLen-1 : buf0[j] = sent[Acked + j + 1]
        BY <1>1, <1>2 DEF DataInv
      <4> HIDE DEF d, Acked
      <4>2. \A i \in 1..BlkLen : i - 1 \in 0..BlkLen-1 /\ Acked + (i - 1) + 1 = Acked + i
        BY <1>4
      <4>3. QED
        BY <3>1, <4>1, <4>2
    <3>3. xdata' = xdata \o d /\ Len(xdata) = Acked /\ blocknum' = Inc(xpacknum)
      BY <1>2, <1>3, <1>5, <2>2 DEF FileInv
    <3> HIDE DEF d, Acked
    <3>4. /\ Len(xdata') = Acked + BlkLen
          /\ \A i \in 1..Len(xdata') :
               xdata'[i] = IF i <= Acked THEN xdata[i] ELSE d[i - Acked]
      <4>1. /\ Len(xdata \o d) = Len(xdata) + Len(d)
            /\ \A i \in 1..Len(xdata) + Len(d) :
                 (xdata \o d)[i] = IF i <= Len(xdata) THEN xdata[i] ELSE d[i - Len(xdata)]
        BY <1>4, <3>1, ConcatByte
      <4>2. QED
        BY <3>1, <3>3, <4>1, Zenon
    <3>5. \A i \in 1..Len(xdata') : i > Acked => i - Acked \in 1..BlkLen
      BY <1>4, <3>4
    <3>6. ASSUME NEW i \in 1..Len(xdata')
          PROVE  xdata'[i] = sent[i]
      <4>1. CASE i <= Acked
        BY <1>4, <2>1, <3>3, <3>4, <4>1
      <4>2. CASE i > Acked
        <5>1. xdata'[i] = d[i - Acked] /\ i - Acked \in 1..BlkLen
          BY <1>4, <3>4, <3>5, <4>2
        <5>2. Acked + (i - Acked) = i
          BY <1>4, <3>4
        <5>3. QED
          BY <3>2, <5>1, <5>2
      <4>3. QED
        BY <1>4, <3>4, <4>1, <4>2
    <3>7. QED
      BY <3>3, <3>4, <3>6
  <2>3. CASE blocknum # xpacknum
    BY <1>2, <1>3, <2>1, <2>3 DEF FileInv
  <2>4. QED
    BY <2>2, <2>3
<1>7. SavePrefix'
  BY <1>1, <1>4, <1>6 DEF SavePrefix
<1>8. EndInv' /\ FileInv'
  BY <1>1, <1>3, <1>4, <1>6 DEF EndInv, FileInv
<1>9. FrameInv'
  BY <1>1, <1>3 DEF FrameInv
<1>10. AnswerInv'
  BY <1>1, <1>3, ControlBytes DEF AnswerInv
<1>11. QED
  BY <1>7, <1>8, <1>9, <1>10

LEMMA SendLine ==
  ASSUME SaveInv, inStep, SendBuf
  PROVE  LineInv'
<1> USE DEF SaveInv, StepInv, GuestInv, LineInv, InBlock, Ending, Acked, Unacknowledged
<1>1. CASE xmstat = 2
  BY <1>1, FrameLine, LastLine
<1>2. CASE xmstat = 0
  <2>1. /\ pc = "send" /\ Put(FrameChar) /\ pc' \in {"send", "waitack"}
        /\ UNCHANGED <<xmode, xpacknum, xcount, buf0, sent>>
    BY Zenon DEF SendBuf, Goto
  <2>2. UNCHANGED <<f, xmstat, xfate, xfile, xdata, xmbuf, xidx, blocknum, acknak>>
    BY <1>2, <2>1, FrameCharType, PutIs
  <2>3. QED
    BY <1>2, <2>1, <2>2 DEF SavePrefix, EndInv, HostInv, FrameInv, FileInv, AnswerInv
<1>3. QED
  BY <1>1, <1>2 DEF HostInv

(* D in step comes before the first block is acknowledged, so that the     *)
(* empty file is what the monitor takes as acknowledged. It does not       *)
(* matter what went before.                                                *)
LEMMA DownloadLine ==
  ASSUME TypeOK, GuestInv, Download, Quiet
  PROVE  LineInv'
<1> USE DEF GuestInv, LineInv, InBlock, Ending, Acked, Unacknowledged
<1>1. /\ UNCHANGED <<guestVars, xmbuf, f>>
      /\ xdata' = <<>> /\ xidx' = 0 /\ acknak' = NAK /\ blocknum' = 1
      /\ \/ xmstat' = 2 /\ xfate' = "running" /\ xfile' = "open"
         \/ xmstat' = 0 /\ xfate' = "cancelled" /\ xfile' = "null"
  BY DEF Download, CommandD
<1>2. UNCHANGED <<pc, txrdy, xmode, xpacknum, xcount, buf0, sidx, ret, fill, sent>>
  BY <1>1 DEF guestVars
<1>3. /\ Len(sent) \in Nat /\ Len(xdata') = 0 /\ xcount \in 0..BlkLen-1 /\ sidx = 0
  BY <1>1 DEF TypeOK, Quiet
<1>4. xmode = 1 => Acked = 0 /\ xpacknum = 1
  BY <1>1, <1>3 DEF Quiet, Inc
<1>5. SavePrefix' /\ EndInv'
  BY <1>1, <1>2, <1>3 DEF SavePrefix, EndInv
<1>6. FrameInv'
  BY <1>1, <1>2, <1>3 DEF FrameInv
<1>7. FileInv'
  BY <1>1, <1>2, <1>3, <1>4 DEF FileInv, Quiet
<1>8. AnswerInv'
  BY <1>1, <1>2, <1>3, ControlBytes DEF AnswerInv
<1>9. QED
  BY <1>5, <1>6, <1>7, <1>8

(* The other commands and keys. XS comes when the host is not receiving.   *)
LEMMA OperatorLine ==
  ASSUME SaveInv, XSave \/ (inStep /\ (Cancel \/ Type))
  PROVE  LineInv'
<1> USE DEF SaveInv, StepInv, GuestInv, LineInv, InBlock, Ending, Acked, Unacknowledged
<1>1. CASE XSave
  <2>1. /\ pc' = "waitnak" /\ xmstat' = 0 /\ xfate' = "none" /\ xmode' = 0
        /\ xmstat = 0 /\ xfile' = xfile
    BY <1>1 DEF XSave, Goto, TypeOK
  <2>2. QED
    BY <2>1 DEF SavePrefix, EndInv, FrameInv, FileInv, AnswerInv
<1>2. CASE inStep /\ Cancel
  <2>1. /\ xmstat' = 0 /\ xfate' = "cancelled" /\ xfate = "running"
        /\ xfile' = "null"
        /\ UNCHANGED <<pc, xmode, xcount, buf0, sent, xdata>>
    BY <1>2 DEF Cancel, CommandX, HostInv, guestVars
  <2>2. SavePrefix'
    BY <1>2, <2>1 DEF SavePrefix
  <2>3. EndInv' /\ FrameInv' /\ FileInv' /\ AnswerInv'
    BY <2>1 DEF EndInv, FrameInv, FileInv, AnswerInv
  <2>4. QED
    BY <2>2, <2>3
<1>3. CASE inStep /\ Type
  BY <1>3 DEF Type, hostVars, guestVars, SavePrefix, EndInv, FrameInv, FileInv,
     AnswerInv
<1>4. QED
  BY <1>1, <1>2, <1>3

(* The host's own variables, in step or not.                               *)
LEMMA HostStep ==
  ASSUME TypeOK, HostInv, Next
  PROVE  HostInv'
<1>1. CASE Fetch
  BY <1>1, FetchIs DEF HostInv
<1>2. ASSUME NEW c \in Byte, Put(c)
      PROVE  HostInv'
  BY <1>2, PutIs DEF HostInv
<1>3. CASE UNCHANGED hostVars
  BY <1>3 DEF hostVars, HostInv
<1>4. CASE Operator
  BY <1>4 DEF Operator, XSave, Download, CommandD, Cancel, CommandX, Type, hostVars,
     HostInv
<1>5. CASE SendBuf \/ SendEotChar
  BY <1>2, <1>5, FrameCharType, ControlBytes DEF SendBuf, SendEotChar
<1>6. CASE SendInit \/ WaitAck \/ WaitAck2 \/ CmdLine \/ PutChar \/ XCloseOut \/ XClsLoop
  BY <1>3, <1>6, ZenonT(20) DEF SendInit, WaitAck, WaitAck2, CmdLine, Got, PutChar,
     XCloseOut, XClsLoop
<1>7. CASE Poll \/ StatusRead
  BY <1>1, <1>3, <1>7 DEF Poll, StatusRead
<1>8. QED
  BY <1>4, <1>5, <1>6, <1>7 DEF Next, Guest

(* A character is put: buf0 holds one character more of what was put.      *)
LEMMA BufPut ==
  ASSUME TypeOK, GuestInv, DataInv, NEW c \in Byte, NEW caller \in {"prog", "fill"},
         XPutC(c, caller), pc = caller, xmode' = xmode
  PROVE  DataInv'
<1> USE DEF GuestInv, InBlock, Ending, Acked, Unacknowledged
<1>0. /\ Len(sent) \in Nat /\ xcount \in 0..BlkLen-1
      /\ sidx = 0 /\ xmode = 1 /\ pc \in {"prog", "fill"}
  BY DEF TypeOK
<1>1. /\ Len(sent') = Len(sent) + 1 /\ sent'[Len(sent) + 1] = c
      /\ \A i \in 1..Len(sent) : sent'[i] = sent[i]
      /\ buf0'[xcount] = c
      /\ \A j \in 0..BlkLen-1 : j # xcount => buf0'[j] = buf0[j]
  BY PutCIs
<1>2. \/ xcount = BlkLen - 1 /\ xcount' = 0 /\ pc' = "send"
      \/ xcount < BlkLen - 1 /\ xcount' = xcount + 1 /\ pc' = pc
  BY <1>0, PutCIs
<1>3. Acked' = Acked /\ Acked \in Nat /\ Acked + xcount = Len(sent)
  <2>1. Acked = Len(sent) - xcount
    BY <1>0
  <2>2. Acked \in Nat
    BY <1>0, <2>1
  <2>3. Acked' = Len(sent) - xcount
    BY <1>0, <1>1, <1>2
  <2>4. QED
    BY <1>0, <2>1, <2>2, <2>3
<1>4. ASSUME NEW j \in 0..BlkLen-1, j < Unacknowledged'
      PROVE  buf0'[j] = sent'[Acked + j + 1]
  <2>1. j <= xcount
    BY <1>0, <1>2, <1>4
  <2>2. CASE j = xcount
    BY <1>1, <1>3, <2>2
  <2>3. CASE j # xcount
    <3>1. buf0'[j] = buf0[j] /\ buf0[j] = sent[Acked + j + 1]
      BY <1>0, <1>1, <2>1, <2>3 DEF DataInv
    <3>2. Acked + j + 1 \in 1..Len(sent)
      <4> HIDE DEF Acked
      <4>1. QED
        BY <1>0, <1>3, <2>1, <2>3
    <3>3. QED
      BY <1>1, <3>1, <3>2
  <2>4. QED
    BY <2>2, <2>3
<1> HIDE DEF Acked, Unacknowledged
<1>5. QED
  BY <1>3, <1>4 DEF DataInv

(* The block being filled or sent, in step or not.                         *)
LEMMA BufStep ==
  ASSUME TypeOK, GuestInv, DataInv, Next
  PROVE  DataInv'
<1> USE DEF GuestInv, InBlock, Ending, Acked, Unacknowledged
<1>1. CASE PutChar
  <2>1. Head(todo) \in Byte
    BY <1>1 DEF PutChar, TypeOK
  <2>2. QED
    BY <1>1, <2>1, BufPut DEF PutChar
<1>2. CASE XClsLoop /\ fill # 0
  BY <1>2, BufPut DEF XClsLoop
<1>3. CASE SendInit
  BY <1>3 DEF SendInit, Goto, DataInv, TypeOK
<1>4. CASE WaitAck
  BY <1>4 DEF WaitAck, Goto, DataInv, TypeOK
<1>5. CASE XSave
  BY <1>5 DEF XSave, DataInv
<1>6. CASE Poll \/ StatusRead \/ CmdLine \/ Download \/ Cancel \/ Type
  BY <1>6 DEF Poll, StatusRead, CmdLine, Download, Cancel, Type, guestVars, DataInv
<1>7. CASE XCloseOut \/ (XClsLoop /\ fill = 0)
  BY <1>7 DEF XCloseOut, XClsLoop, Goto, DataInv
<1>8. CASE SendBuf
  <2>1. pc = "send" /\ pc' \in {"send", "waitack"} /\ UNCHANGED <<xmode, xcount, buf0, sent>>
    BY <1>8, Zenon DEF SendBuf, Goto
  <2>2. QED
    BY <2>1 DEF DataInv
<1>9. CASE SendEotChar \/ WaitAck2
  BY <1>9 DEF SendEotChar, WaitAck2, Goto, DataInv
<1>10. QED
  BY <1>1, <1>2, <1>3, <1>4, <1>5, <1>6, <1>7, <1>8, <1>9 DEF Next, Guest, Operator

LEMMA SaveInit == Init => SaveInv
<1> SUFFICES ASSUME Init
             PROVE  SaveInv
  OBVIOUS
<1>1. TypeOK
  BY TypeInit
<1>2. GuestInv
  BY DEF Init, GuestInv, InBlock, Ending, Writing
<1>3. QED
  BY <1>1, <1>2 DEF Init, HostInit, SaveInv, StepInv, DataInv, SavePrefix, HostInv,
     EndInv, FrameInv, FileInv, AnswerInv

LEMMA SaveStep == SaveInv /\ [Next]_vars => SaveInv'
<1> SUFFICES ASSUME SaveInv, [Next]_vars
             PROVE  SaveInv'
  OBVIOUS
<1>1. CASE UNCHANGED vars
  <2>1. TypeOK'
    BY TypeStep, <1>1 DEF SaveInv
  <2> USE <1>1 DEF SaveInv, Acked, Unacknowledged, InBlock, Ending, Writing,
             vars, hostVars, guestVars, operator
  <2>2. GuestInv' /\ DataInv' /\ HostInv'
    BY DEF GuestInv, DataInv, HostInv
  <2>3. StepInv'
    BY DEF StepInv, SavePrefix, EndInv, FrameInv, FileInv, AnswerInv
  <2>4. QED
    BY <2>1, <2>2, <2>3
<1>2. CASE Next
  <2>1. TypeOK'
    BY <1>2, TypeStep DEF SaveInv
  <2>2. GuestInv' /\ DataInv' /\ HostInv'
    BY <1>2, GuestStep, BufStep, HostStep DEF SaveInv
  <2>3. ASSUME inStep'
        PROVE  LineInv'
    <3>1. CASE Guest
      <4>1. inStep
        BY <2>3, <3>1, InStepKept
      <4>2. QED
        BY <3>1, <4>1, InitLine, AckLine, EndLine, PollLine, ProgramLine, EotLine,
           SendLine DEF Guest
    <3>2. CASE Download
      BY <2>3, <3>2, DownloadLine DEF Download, SaveInv
    <3>3. CASE XSave \/ Cancel \/ Type
      BY <2>3, <3>3, OperatorLine DEF Cancel, Type
    <3>4. QED
      BY <1>2, <3>1, <3>2, <3>3 DEF Next, Operator
  <2>4. QED
    BY <2>1, <2>2, <2>3 DEF SaveInv, StepInv, LineInv
<1>3. QED
  BY <1>1, <1>2

-----------------------------------------------------------------------------
(* The theorems. *)

(* The invariant that ties the file and the host's registers to the        *)
(* monitor's place in the protocol, after every D that comes in step,      *)
(* holds throughout, whatever the memory, the block length and the rest of *)
(* what the operator does.                                                 *)
THEOREM SaveInvariant == Spec => []SaveInv
  BY SaveInit, SaveStep, PTL DEF Spec

(* In step, the file is a beginning of what was put: no block is written   *)
(* twice, left out or out of order, past every wrap of the block number    *)
(* and with answers that are late by a copy of the block.                  *)
THEOREM SavePrefixHolds == Spec => []SavePrefix
<1>1. SaveInv => SavePrefix
  BY DEF SaveInv, StepInv, SavePrefix
<1>2. QED
  BY <1>1, SaveInvariant, PTL

(* In step, a block that the monitor takes as acknowledged is in the file, *)
(* also when the ACK it reads belongs to an earlier copy.                  *)
THEOREM AckedWrittenHolds == Spec => []AckedWritten
<1>1. SaveInv => AckedWritten
  <2> SUFFICES ASSUME SaveInv, inStep, xmstat = 2, xmode = 1
               PROVE  Len(sent) - Unacknowledged <= Len(xdata)
    BY DEF AckedWritten
  <2>1. /\ FileInv /\ Len(xdata) \in Nat /\ Len(sent) \in Nat
        /\ xcount \in 0..BlkLen-1
    BY DEF SaveInv, StepInv, TypeOK, HostTypeOK
  <2>2. Unacknowledged \in Nat
    BY <2>1 DEF Unacknowledged
  <2>3. QED
    BY <2>1, <2>2 DEF FileInv, Acked
<1>2. QED
  BY <1>1, SaveInvariant, PTL

(* In step, host and monitor never wait for each other.                    *)
THEOREM NotBothWaitingHolds == Spec => []NotBothWaiting
<1>1. SaveInv => NotBothWaiting
  BY ControlBytes DEF SaveInv, StepInv, AnswerInv, NotBothWaiting
<1>2. QED
  BY <1>1, SaveInvariant, PTL

(* Only a look at the line ends a transfer as complete, and only after EOT. *)
LEMMA EndStep ==
  ASSUME SaveInv, Next, xfate = "running", xfate' = "complete"
  PROVE  acknak = EOT /\ xmstat = 2
<1>1. HostInv /\ TypeOK
  BY DEF SaveInv
<1>2. ASSUME NEW c \in Byte, Put(c)
      PROVE  FALSE
  BY <1>1, <1>2, PutIs
<1>3. CASE Fetch
  BY <1>1, <1>3, FetchIs
<1>4. CASE ~Fetch
  <2>1. ~SendBuf /\ ~SendEotChar
    BY <1>1, <1>2, FrameCharType, ControlBytes DEF SendBuf, SendEotChar
  <2>2. ~Poll /\ ~StatusRead
    BY <1>4 DEF Poll, StatusRead, hostVars
  <2>3. ~SendInit /\ ~WaitAck /\ ~WaitAck2 /\ ~CmdLine
    BY DEF SendInit, WaitAck, WaitAck2, CmdLine, Got, hostVars
  <2>4. ~PutChar /\ ~XCloseOut /\ ~XClsLoop
    BY DEF PutChar, XCloseOut, XClsLoop, hostVars
  <2>5. ~Operator
    BY DEF Operator, XSave, Download, CommandD, Cancel, CommandX, Type, hostVars
  <2>6. QED
    BY <2>1, <2>2, <2>3, <2>4, <2>5 DEF Next, Guest
<1>5. QED
  BY <1>3, <1>4

(* In step, a file that the host closes as complete holds everything that  *)
(* was put.                                                                *)
THEOREM SaveCompleteHolds == Spec => EndComplete
<1> DEFINE Done == inStep /\ xfate = "running" /\ xfate' = "complete" => xdata = sent
<1>1. SaveInv /\ [Next]_vars => [Done]_vars
  BY EndStep DEF SaveInv, StepInv, AnswerInv
<1>2. QED
  BY <1>1, SaveInvariant, PTL DEF Spec, EndComplete

-----------------------------------------------------------------------------
(* The refinement of Transfer: what each kind of step does to what was put,*)
(* to the file and to the transfer's fate.                                 *)

Dst == IF inStep /\ xfate # "none" THEN xdata ELSE <<>>
Fate == IF inStep THEN xfate ELSE "cancelled"

LEMMA QuietSteps ==
  ASSUME SendInit \/ WaitAck \/ WaitAck2 \/ CmdLine \/ XCloseOut
           \/ (XClsLoop /\ fill = 0) \/ Type
  PROVE  UNCHANGED <<sent, Dst, Fate>>
<1>1. UNCHANGED <<sent, xdata, xfate, inStep>>
  BY DEF SendInit, WaitAck, WaitAck2, CmdLine, XCloseOut, XClsLoop, Type, Got,
     hostVars, guestVars, operator
<1>2. QED
  BY <1>1 DEF Dst, Fate

LEMMA SupplyStep ==
  ASSUME SaveInv, SaveInv', PutChar \/ (XClsLoop /\ fill # 0)
  PROVE  T!Supply
<1>1. PICK c \in Byte, caller \in {"prog", "fill"} :
        XPutC(c, caller) /\ pc = caller /\ UNCHANGED <<hostVars, operator>>
  <2>1. CASE PutChar
    <3>1. Head(todo) \in Byte
      BY <2>1 DEF PutChar, SaveInv, TypeOK
    <3>2. QED
      BY <2>1, <3>1 DEF PutChar
  <2>2. CASE XClsLoop /\ fill # 0
    BY <2>2 DEF XClsLoop
  <2>3. QED
    BY <2>1, <2>2
<1>2. sent \in Seq(Byte) /\ sent' \in Seq(Byte) /\ UNCHANGED <<Dst, Fate>>
  BY <1>1 DEF SaveInv, TypeOK, hostVars, operator, Dst, Fate
<1>3. T!Extends(sent', sent)
  BY <1>1, <1>2, PutCIs DEF SaveInv, T!Extends
<1>4. Fate # "complete"
  BY <1>1 DEF SaveInv, StepInv, EndInv, Ending, Fate
<1>5. QED
  BY <1>2, <1>3, <1>4 DEF T!Supply, Dst, Fate

LEMMA PollSteps ==
  ASSUME SaveInv, Poll \/ StatusRead
  PROVE  T!End \/ UNCHANGED <<sent, Dst, Fate>>
<1>1. UNCHANGED <<sent, xdata, inStep>>
  BY FetchIs DEF Poll, StatusRead, guestVars, hostVars, operator, SaveInv
<1>2. xfate' = xfate \/ (xmstat = 2 /\ acknak = EOT /\ xfate' = "complete")
  BY FetchIs DEF Poll, StatusRead, hostVars, SaveInv
<1>3. CASE xfate' = xfate \/ ~inStep
  <2>1. CASE ~inStep
    BY <1>1, <2>1 DEF Dst, Fate
  <2>2. CASE xfate' = xfate
    BY <1>1, <2>2 DEF Dst, Fate
  <2>3. QED
    BY <1>3, <2>1, <2>2
<1>4. CASE inStep /\ xmstat = 2 /\ acknak = EOT /\ xfate' = "complete"
  <2>1. xfate = "running" /\ xdata = sent /\ Len(sent) \in Nat
    BY <1>4 DEF SaveInv, StepInv, HostInv, AnswerInv, TypeOK
  <2>2. QED
    BY <1>1, <1>4, <2>1 DEF T!End, Dst, Fate
<1>5. QED
  BY <1>2, <1>3, <1>4

LEMMA DataOfType ==
  ASSUME HostTypeOK
  PROVE  DataOf(xmbuf) \in Seq(Byte)
<1>1. \A i \in 1..BlkLen : xmbuf[i + 2] \in Byte
  BY DEF HostTypeOK, Frame, Last
<1>2. QED
  BY <1>1 DEF DataOf

(* A block that is written is what arrives. *)
LEMMA ArriveStep ==
  ASSUME SaveInv, SaveInv', SendBuf \/ SendEotChar
  PROVE  T!Arrive \/ UNCHANGED <<sent, Dst, Fate>>
<1>0. /\ TypeOK /\ HostInv /\ xdata \in Seq(Byte) /\ xdata' \in Seq(Byte)
      /\ Len(sent) \in Nat
  <2>1. TypeOK /\ TypeOK' /\ HostInv
    BY DEF SaveInv
  <2>2. xdata \in Seq(Byte) /\ xdata' \in Seq(Byte) /\ sent \in Seq(Byte)
    BY <2>1 DEF TypeOK, HostTypeOK
  <2>3. QED
    BY <2>1, <2>2
<1>1. PICK c \in Byte : Put(c)
  BY FrameCharType, ControlBytes, <1>0 DEF SendBuf, SendEotChar
<1>2. UNCHANGED <<sent, xfate, inStep>>
  BY <1>0, <1>1, PutIs DEF SendBuf, SendEotChar, operator
<1>3. CASE xdata' = xdata \/ ~inStep
  <2>1. CASE ~inStep
    BY <1>2, <2>1 DEF Dst, Fate
  <2>2. CASE xdata' = xdata
    BY <1>2, <2>2 DEF Dst, Fate
  <2>3. QED
    BY <1>3, <2>1, <2>2
<1>4. CASE inStep /\ xdata' # xdata
  <2>1. xmstat = 2 /\ xdata' = xdata \o DataOf(xmbuf) /\ xidx = Last
    BY <1>0, <1>1, <1>4, PutIs
  <2>2. xfate = "running" /\ SavePrefix'
    BY <1>2, <1>4, <2>1 DEF SaveInv, StepInv, HostInv
  <2>3. DataOf(xmbuf) \in Seq(Byte)
    BY <1>0, DataOfType DEF TypeOK
  <2>4. T!Extends(xdata', xdata)
    <3> DEFINE d == DataOf(xmbuf)
    <3>1. d \in Seq(Byte) /\ xdata' = xdata \o d
      BY <2>1, <2>3
    <3> HIDE DEF d
    <3>2. QED
      BY <1>0, <3>1, ConcatByte DEF T!Extends
  <2>5. T!Arrived(xdata', sent)
    BY <1>0, <1>2, <1>4, <2>2 DEF SavePrefix, T!Arrived
  <2>6. QED
    BY <1>0, <1>2, <1>4, <2>2, <2>4, <2>5 DEF T!Arrive, Dst, Fate
<1>5. QED
  BY <1>3, <1>4

LEMMA OperatorSteps ==
  ASSUME SaveInv, SaveInv', XSave \/ Download \/ Cancel
  PROVE  T!Begin \/ T!Break \/ UNCHANGED <<sent, Dst, Fate>>
<1>0. sent \in Seq(Byte) /\ sent' \in Seq(Byte) /\ inStep' \in BOOLEAN
  BY DEF SaveInv, TypeOK
<1>1. CASE XSave
  BY <1>0, <1>1 DEF XSave, T!Begin, Dst, Fate
<1>2. CASE Download
  <2>1. xdata' = <<>> /\ xfate' \in {"running", "cancelled"} /\ sent' = sent
    BY <1>2 DEF Download, CommandD, guestVars
  <2>2. QED
    BY <1>0, <2>1 DEF T!Begin, Dst, Fate
<1>3. CASE Cancel
  <2>1. xfate = "running" /\ xfate' = "cancelled" /\ UNCHANGED <<sent, xdata, inStep>>
    BY <1>3 DEF Cancel, CommandX, guestVars, SaveInv, HostInv
  <2>2. CASE inStep
    BY <2>1, <2>2 DEF T!Break, Dst, Fate
  <2>3. CASE ~inStep
    BY <2>1, <2>3 DEF Dst, Fate
  <2>4. QED
    BY <2>2, <2>3
<1>4. QED
  BY <1>1, <1>2, <1>3

(* Saving implements the abstract transfer: the file grows by blocks of    *)
(* what has been put, and a transfer that ends as complete has left        *)
(* nothing behind. One that a D puts out of step is one broken off.        *)
THEOREM SaveImplementsTransfer == Spec => SaveTransfers
<1>1. Init => T!TInit
  BY DEF Init, HostInit, T!TInit
<1>2. SaveInv /\ SaveInv' /\ [Next]_vars => [T!TNext]_(T!tvars)
  <2> SUFFICES ASSUME SaveInv, SaveInv', [Next]_vars
               PROVE  T!TNext \/ UNCHANGED <<sent, Dst, Fate>>
    BY DEF T!tvars, Dst, Fate
  <2>1. CASE UNCHANGED vars
    BY <2>1 DEF vars, hostVars, guestVars, operator, Dst, Fate
  <2>2. CASE Next
    BY <2>2, QuietSteps, SupplyStep, PollSteps, ArriveStep, OperatorSteps
    DEF Next, Guest, Operator, T!TNext
  <2>3. QED
    BY <2>1, <2>2
<1>3. QED
  BY <1>1, <1>2, SaveInvariant, PTL DEF Spec, SaveTransfers, T!TSpec
=============================================================================
