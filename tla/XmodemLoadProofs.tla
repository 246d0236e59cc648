-------------------------- MODULE XmodemLoadProofs --------------------------
(***************************************************************************)
(* Proofs about loading a file (module XmodemLoad), for every block        *)
(* length, every byte width, every set of files and every operator.        *)
(***************************************************************************)
EXTENDS XmodemLoadInv, XmodemHostProofs

USE ByteModAssumption, BlkLenAssumption, ControlsAssumption,
    FilesAssumption, KeysAssumption, OperatorAssumption

-----------------------------------------------------------------------------
(* Type correctness. *)

(* A poll or a status read that fetches keeps the types. *)
LEMMA PollType ==
  ASSUME TypeInv, Poll \/ StatusRead
  PROVE  TypeInv'
<1>1. HostTypeOK'
  <2>1. CASE Fetch
    BY <2>1, FetchType DEF TypeInv, TypeOK
  <2>2. CASE UNCHANGED <<hostVars, f, kbd>>
    BY <2>2 DEF TypeInv, TypeOK, HostTypeOK, hostVars
  <2>3. QED
    BY <2>1, <2>2 DEF Poll, StatusRead
<1>2. /\ UNCHANGED <<pc, left, xmode, lastok, xpacknum, xsum, xcount, buf0,
                     xptr, delivered, orderly, ops>>
      /\ txrdy' \in {1, txrdy}
  BY DEF Poll, StatusRead, guestVars, operator
<1>3. QED
  BY <1>1, <1>2 DEF TypeInv, TypeOK, Counters

(* A character read, or a timeout, leaves the host's registers alone. *)
LEMMA GotType ==
  ASSUME HostTypeOK, TimedOut \/ \E c \in Byte : Got(c)
  PROVE  HostTypeOK'
  BY DEF HostTypeOK, TimedOut, Got, hostVars

LEMMA RcvType ==
  ASSUME TypeInv, RcvStart \/ RcvNum \/ RcvComp \/ RcvData \/ RcvSum \/ Purge
  PROVE  TypeInv'
<1> USE DEF TypeInv, TypeOK, Counters, operator
<1>1. HostTypeOK'
  <2>1. TimedOut \/ \E c \in Byte : Got(c)
    BY ZenonT(20) DEF RcvStart, RcvNum, RcvComp, RcvData, RcvSum, Purge
  <2>2. QED
    BY <2>1, GotType
<1>2. CASE RcvStart
  BY <1>1, <1>2, SMTT(20) DEF RcvStart, Goto, AckCount, CanCount
<1>3. CASE RcvNum
  BY <1>1, <1>3, SMTT(20) DEF RcvNum, Goto
<1>4. CASE RcvComp
  <2>1. 0 \in Byte /\ xsum' \in {0, xsum} /\ (xptr' = 0 \/ xptr' = xptr)
    BY <1>4, SMTT(20) DEF RcvComp, Byte
  <2>2. pc' = "data" => xptr' = 0
    BY <1>4 DEF RcvComp, Goto
  <2>3. pc' \in {"data", "purge"}
    BY <1>4 DEF RcvComp, Goto
  <2>4. QED
    BY <1>1, <1>4, <2>1, <2>2, <2>3 DEF RcvComp
<1>5. CASE RcvData
  <2>1. xsum' \in Byte
    BY <1>5, SumByte DEF RcvData
  <2>2. CASE TimedOut /\ Goto("purge") /\ UNCHANGED <<buf0, xptr, xsum>>
    BY <1>1, <1>5, <2>2 DEF RcvData, Goto
  <2>3. ASSUME NEW c \in Byte, buf0' = [buf0 EXCEPT ![xptr] = c],
               xptr' = xptr + 1, Goto(IF xptr + 1 = BlkLen THEN "sum" ELSE "data")
        PROVE TypeInv'
    <3>1. buf0' \in [0..BlkLen-1 -> Byte] /\ xptr' \in 0..BlkLen
      BY <1>5, <2>3 DEF RcvData
    <3>2. QED
      BY <1>1, <1>5, <2>1, <2>3, <3>1 DEF RcvData, Goto
  <2>4. QED
    BY <1>5, <2>2, <2>3 DEF RcvData
<1>6. CASE RcvSum
  <2>1. xpacknum' \in Byte
    BY <1>6, IncByte DEF RcvSum
  <2>2. QED
    BY <1>1, <1>6, <2>1, SMTT(20) DEF RcvSum, Goto
<1>7. CASE Purge
  BY <1>1, <1>7, SMTT(20) DEF Purge, Goto, CanCount
<1>8. QED
  BY <1>2, <1>3, <1>4, <1>5, <1>6, <1>7

LEMMA SendType ==
  ASSUME TypeInv, SendAnswer \/ SendLast
  PROVE  TypeInv'
<1> USE DEF TypeInv, TypeOK, Counters, operator
<1>1. HostTypeOK'
  BY DataOutType DEF SendAnswer, SendLast, Put, Controls
<1>2. CASE SendAnswer
  BY <1>1, <1>2 DEF SendAnswer, Put, Goto
<1>3. CASE SendLast
  BY <1>1, <1>3 DEF SendLast, Put, Goto, CanCount
<1>4. QED
  BY <1>2, <1>3

LEMMA ProgramType ==
  ASSUME TypeInv, GetChar \/ XAbortIn \/ XCloseIn
  PROVE  TypeInv'
<1> USE DEF TypeInv, TypeOK, Counters, operator
<1>1. HostTypeOK'
  BY DEF HostTypeOK, GetChar, XAbortIn, XCloseIn, hostVars
<1>2. CASE GetChar
  <2>1. CASE xcount = 0
    BY <1>1, <1>2, <2>1 DEF GetChar, Goto
  <2>2. CASE xcount # 0
    <3>1. BlkLen - xcount \in 0..BlkLen-1
      BY <2>2
    <3>2. buf0[BlkLen - xcount] \in Byte
      BY <3>1
    <3>3. delivered' \in Seq(Byte)
      <4>1. delivered' = Append(delivered, buf0[BlkLen - xcount])
        BY <1>2, <2>2 DEF GetChar
      <4>2. QED
        BY <3>2, <4>1, AppendByte
    <3>4. xcount' \in 0..BlkLen /\ pc' = pc
      BY <1>2, <2>2 DEF GetChar
    <3>5. QED
      BY <1>1, <1>2, <3>3, <3>4 DEF GetChar
  <2>3. QED
    BY <2>1, <2>2
<1>3. CASE XAbortIn
  BY <1>1, <1>3 DEF XAbortIn, Goto
<1>4. CASE XCloseIn
  BY <1>1, <1>4 DEF XCloseIn, Goto
<1>5. QED
  BY <1>2, <1>3, <1>4

LEMMA OperatorType ==
  ASSUME TypeInv, Operator
  PROVE  TypeInv'
<1> USE DEF TypeInv, TypeOK, Counters, operator
<1>1. /\ ops' \in [{"load", "upload", "cancel", "key"} -> Nat]
      /\ orderly' \in BOOLEAN
  <2>1. PICK op \in {"load", "upload", "cancel", "key"} :
          ops' = [ops EXCEPT ![op] = @ + 1]
    BY Zenon DEF Operator, XLoad, Upload, Cancel, Type, May
  <2>2. orderly' \in BOOLEAN
    BY Zenon DEF Operator, XLoad, Upload, Cancel, Type
  <2>3. QED
    BY <2>1, <2>2
<1>2. CASE XLoad
  <2>1. HostTypeOK'
    <3>1. f' = NoChar /\ kbd' = <<>> /\ xfate' = "none"
          /\ UNCHANGED <<xmstat, xfile, xdata, xpos, xmbuf, xidx, acknak,
                         rcvdnak, blocknum>>
      BY <1>2 DEF XLoad
    <3>2. HostTypeOK
      OBVIOUS
    <3>3. QED
      BY <3>1, <3>2 DEF HostTypeOK
  <2>2. QED
    BY <1>1, <1>2, <2>1, SMTT(20) DEF XLoad, Goto, Byte
<1>3. CASE Upload
  <2>1. HostTypeOK'
    <3>1. \E s \in Seq(Byte) : CommandU(TRUE, s) \/ CommandU(FALSE, s)
      <4>1. <<>> \in Seq(Byte)
        OBVIOUS
      <4>2. QED
        BY <1>3, <4>1, Zenon DEF Upload
    <3>2. QED
      BY <3>1, CommandType, Zenon
  <2>2. QED
    BY <1>1, <1>3, <2>1 DEF Upload, guestVars
<1>4. CASE Cancel
  <2>1. HostTypeOK'
    BY <1>4, CommandType DEF Cancel
  <2>2. QED
    BY <1>1, <1>4, <2>1 DEF Cancel, guestVars
<1>5. CASE Type
  BY <1>1, <1>5 DEF Type, guestVars, hostVars, HostTypeOK
<1>6. QED
  BY <1>2, <1>3, <1>4, <1>5 DEF Operator

LEMMA TypeInit == Init => TypeInv
  BY DEF Init, HostInit, TypeInv, TypeOK, Counters, HostTypeOK, ZeroBuf,
         Frame, Last, Byte, CanCount

LEMMA TypeStep == TypeInv /\ [Next]_vars => TypeInv'
<1> SUFFICES ASSUME TypeInv, [Next]_vars
             PROVE  TypeInv'
  OBVIOUS
<1>1. CASE UNCHANGED vars
  BY <1>1 DEF TypeInv, TypeOK, Counters, HostTypeOK, vars, hostVars, guestVars,
     operator
<1>2. CASE Next
  BY <1>2, PollType, RcvType, SendType, ProgramType, OperatorType
  DEF Next, Receive, Program
<1>3. QED
  BY <1>1, <1>2

(* Every variable of the loading model keeps its type, and no index leaves *)
(* the buffer it points into: xidx stays inside xmbuf, xptr and xcount     *)
(* inside buf0, whatever the operator does.                                *)
THEOREM LoadTypeCorrect == Spec => []TypeOK
<1>1. TypeInv => TypeOK
  BY DEF TypeInv
<1>2. QED
  BY <1>1, TypeInit, TypeStep, PTL DEF Spec

-----------------------------------------------------------------------------
(* The inductive invariant, one lemma for each kind of step. In these      *)
(* lemmas the session is orderly before and after the step.                *)

SInv == /\ TypeInv /\ HostInv /\ EndInv /\ GuestInv /\ DataInv /\ BlockInv
        /\ PhaseInv

(* Nothing else moves: the step touches f and the host's registers, the    *)
(* transmitter's flag or the console only.                                 *)
LEMMA DataKept ==
  ASSUME DataInv, UNCHANGED <<delivered, xcount, xdata>>,
         buf0' = buf0 \/ (xcount = 0 /\ BlkLen \in Nat)
  PROVE  DataInv'
  BY DEF DataInv, Prefix, Accepted, PadByte

LEMMA CurrentKept ==
  ASSUME UNCHANGED <<xmbuf, xpacknum, delivered, xcount, xdata>>, Current
  PROVE  Current'
  BY DEF Current, Accepted, PadByte

(* The block that SendBlock puts together is the one the monitor expects.  *)
LEMMA NewBlock ==
  ASSUME TypeInv, xpos = Accepted, blocknum = xpacknum, xpos < Len(xdata),
         xmbuf' = Framed(blocknum, Chunk(xdata, xpos)),
         UNCHANGED <<xpacknum, delivered, xcount, xdata>>
  PROVE  Current' /\ xmbuf'[0] = SOH
<1>1. xpos \in Nat /\ xdata \in Seq(Byte) /\ blocknum \in Byte
  BY DEF TypeInv, TypeOK, HostTypeOK
<1>2. /\ Chunk(xdata, xpos) \in [1..BlkLen -> Byte]
      /\ \A i \in 1..BlkLen : Chunk(xdata, xpos)[i] = PadByte(xdata, xpos + i)
  BY <1>1, ChunkType
<1>3. /\ xmbuf'[0] = SOH /\ xmbuf'[1] = blocknum
      /\ \A i \in 1..BlkLen : xmbuf'[i + 2] = Chunk(xdata, xpos)[i]
  BY <1>1, <1>2, FramedType
<1>4. QED
  BY <1>2, <1>3 DEF Current, Accepted, PadByte

(* A fetch: only the host's registers, f and the console change. *)
LEMMA FetchInv ==
  ASSUME SInv, Fetch, Reading \/ Writing,
         UNCHANGED <<pc, left, xmode, lastok, xpacknum, xsum, xcount, buf0,
                     xptr, delivered>>
  PROVE  HostInv' /\ EndInv' /\ GuestInv' /\ DataInv' /\ BlockInv' /\ PhaseInv'
<1> USE DEF SInv
<1> PICK c \in Byte : CharInput(c) /\ f = NoChar /\ f' = c
  BY DEF Fetch
<1>0. /\ c # NoChar /\ 0 \in Byte
      /\ \A a \in Controls : a \in Byte /\ a # 0 /\ a # NoChar
      /\ SOH # NoChar /\ NAK # NoChar /\ ACK # NoChar
  BY DEF NoChar, Byte, Controls
<1>1. CASE ConsoleChar(c)
  <2>1. kbd' \in Seq(Byte \ {SOH}) /\ c # SOH
    BY <1>1 DEF ConsoleChar, HostInv, EndInv
  <2>2. ~InBlock
    BY <1>1, <1>0 DEF ConsoleChar, BlockInv
  <2>3. HostInv' /\ EndInv' /\ GuestInv' /\ PhaseInv'
    BY <1>1, <2>1 DEF ConsoleChar, hostVars, HostInv, EndInv, GuestInv, PhaseInv,
       FileOpen, InBlock, Accepted
  <2>4. BlockInv'
    BY <2>1, <2>2 DEF BlockInv, InBlock
  <2>5. DataInv'
    BY <1>1, DataKept DEF ConsoleChar, hostVars
  <2>6. QED
    BY <2>3, <2>4, <2>5
<1>2. CASE SendNext(c)
  <2>1. HostInv' /\ EndInv' /\ GuestInv'
    BY <1>2 DEF SendNext, HostInv, EndInv, GuestInv, FileOpen, InBlock, Accepted
  <2>2. DataInv'
    BY <1>2, DataKept DEF SendNext
  <2>3. CASE InFlight
    <3>1. Current'
      BY <1>2, <2>3, CurrentKept DEF SendNext, InFlight
    <3>2. InFlight'
      <4>1. InBlock => Together' /\ (xidx' = 0 => rcvdnak' = NoChar)
        <5> SUFFICES ASSUME InBlock
                     PROVE  Together' /\ (xidx' = 0 => rcvdnak' = NoChar)
          OBVIOUS
        <5>1. NextIndex' = NextIndex
          BY DEF NextIndex, InBlock
        <5>2. xidx = NextIndex
          BY <1>2, <2>3 DEF SendNext, InFlight, Together
        <5>3. f' = xmbuf'[xidx] /\ f' # NoChar
          BY <1>0, <1>2 DEF SendNext
        <5>4. IF xidx = Last THEN xidx' = 0 /\ rcvdnak' = NoChar
                             ELSE xidx' = xidx + 1
          BY <1>2 DEF SendNext
        <5>5. xidx \in Nat
          BY DEF TypeInv, TypeOK, HostTypeOK, Frame, Last
        <5>6. QED
          BY <5>1, <5>2, <5>3, <5>4, <5>5 DEF Together
      <4>2. pc \notin {"start", "sendnak"}
        BY <1>0, <1>2, <2>3 DEF SendNext, InFlight
      <4>3. InBlock' <=> InBlock
        BY DEF InBlock
      <4>4. Accepted' = Accepted
        BY DEF Accepted
      <4>5. /\ acknak' = ACK /\ xpos' = Accepted' + BlkLen
            /\ blocknum' = Inc(xpacknum') /\ xmbuf'[0] = SOH
        BY <1>2, <2>3, <4>4 DEF SendNext, InFlight
      <4>6. pc' = "purge" /\ xidx' = 0 => rcvdnak' = NoChar
        BY <1>2, <2>3 DEF SendNext, InFlight, TypeInv, TypeOK, HostTypeOK,
           Frame
      <4>7. QED
        BY <2>3, <3>1, <4>1, <4>2, <4>3, <4>5, <4>6 DEF InFlight
    <3>3. BlockInv'
      BY <1>0, <1>2, <2>3, <3>1 DEF SendNext, InFlight, InBlock, Together,
         NextIndex, BlockInv
    <3>4. QED
      BY <2>1, <2>2, <3>2, <3>3 DEF PhaseInv
  <2>4. CASE Ended
    <3>1. c = 0
      BY <1>2, <2>4 DEF SendNext, Ended, TypeInv, TypeOK, HostTypeOK
    <3>2. Ended'
      BY <1>0, <1>2, <2>4, <3>1 DEF SendNext, Ended, Accepted, Controls
    <3>3. BlockInv'
      BY <1>0, <2>4, <3>1 DEF Ended, BlockInv, InBlock, Controls
    <3>4. QED
      BY <2>1, <2>2, <3>2, <3>3 DEF PhaseInv
  <2>5. QED
    BY <1>2, <2>3, <2>4 DEF SendNext, PhaseInv, Fresh, Taken
<1>3. CASE SendBlock(c)
  <2>1. HostInv' /\ EndInv' /\ GuestInv'
    BY <1>3 DEF SendBlock, HostInv, EndInv, GuestInv, FileOpen, InBlock, Accepted
  <2>2. DataInv'
    BY <1>3, DataKept DEF SendBlock
  <2>3. /\ Fresh \/ Taken
        /\ xpos = Accepted /\ blocknum = xpacknum /\ pc \in {"start", "purge"}
    BY <1>0, <1>3 DEF SendBlock, PhaseInv, Fresh, Taken, InFlight, Ended,
       Released, InBlock, Together, NextIndex, Controls, GuestInv, Last
  <2>4. Current' /\ xmbuf'[0] = SOH
    BY <1>3, <2>3, NewBlock DEF SendBlock
  <2>5. InFlight'
    BY <1>0, <1>3, <2>3, <2>4 DEF SendBlock, InFlight, Accepted, InBlock
  <2>6. BlockInv'
    BY <1>0, <1>3, <2>3, <2>4 DEF SendBlock, BlockInv, InBlock, Current
  <2>7. QED
    BY <2>1, <2>2, <2>5, <2>6 DEF PhaseInv
<1>4. CASE SendEot(c)
  <2>1. HostInv' /\ EndInv' /\ GuestInv'
    BY <1>4 DEF SendEot, HostInv, EndInv, GuestInv, FileOpen, InBlock, Accepted
  <2>2. DataInv'
    BY <1>4, DataKept DEF SendEot
  <2>3. /\ Fresh \/ Taken
        /\ xpos = Accepted /\ pc \in {"start", "purge"}
    BY <1>0, <1>4 DEF SendEot, PhaseInv, Fresh, Taken, InFlight, Ended,
       Released, InBlock, Together, NextIndex, Controls, GuestInv, Last
  <2>4. Ended'
    BY <1>0, <1>4, <2>3 DEF SendEot, Ended, Accepted, ZeroBuf, Controls
  <2>5. BlockInv'
    BY <1>0, <1>4, <2>3 DEF SendEot, BlockInv, InBlock, Controls
  <2>6. QED
    BY <2>1, <2>2, <2>4, <2>5 DEF PhaseInv
<1>5. CASE Resend(c)
  <2>1. HostInv' /\ EndInv' /\ GuestInv'
    BY <1>5 DEF Resend, HostInv, EndInv, GuestInv, FileOpen, InBlock, Accepted
  <2>2. DataInv'
    BY <1>5, DataKept DEF Resend
  <2>3. CASE InFlight
    <3>1. Current'
      BY <1>5, <2>3, CurrentKept DEF Resend, InFlight
    <3>2. pc = "start"
      BY <1>0, <1>5, <2>3 DEF Resend, InFlight, InBlock, Together, NextIndex,
         Controls
    <3>3. InFlight'
      BY <1>0, <1>5, <2>3, <3>1, <3>2 DEF Resend, InFlight, Accepted, InBlock
    <3>4. BlockInv'
      BY <1>0, <1>5, <2>3, <3>1, <3>2 DEF Resend, InFlight, InBlock, BlockInv,
         Current
    <3>5. QED
      BY <2>1, <2>2, <3>3, <3>4 DEF PhaseInv
  <2>4. CASE Ended
    <3>1. c = 0
      BY <1>5, <2>4 DEF Resend, Ended, Frame, Last
    <3>2. Ended'
      BY <1>0, <1>5, <2>4, <3>1 DEF Resend, Ended, Accepted, Controls
    <3>3. BlockInv'
      BY <1>0, <2>4, <3>1 DEF Ended, BlockInv, InBlock, Controls
    <3>4. QED
      BY <2>1, <2>2, <3>2, <3>3 DEF PhaseInv
  <2>5. QED
    BY <1>0, <1>5, <2>3, <2>4 DEF Resend, Released, PhaseInv, Fresh, Taken,
       Controls
<1>6. QED
  BY <1>1, <1>2, <1>3, <1>4, <1>5
  DEF CharInput, ReplyEot, Reply, HostInv, EndInv

LEMMA PollInv ==
  ASSUME SInv, Poll \/ StatusRead, TypeInv'
  PROVE  SInv'
<1>1. CASE Fetch
  BY <1>1, FetchInv DEF SInv, Poll, StatusRead, guestVars
<1>2. CASE UNCHANGED <<hostVars, f, kbd>> /\ StatusRead
  <2>1. DataInv'
    BY <1>2, DataKept DEF StatusRead, hostVars, SInv
  <2>2. Current => Current'
    BY <1>2, CurrentKept DEF StatusRead, hostVars, SInv
  <2>3. HostInv' /\ EndInv' /\ GuestInv' /\ BlockInv'
    BY <1>2, <2>2 DEF StatusRead, hostVars, SInv, HostInv, EndInv, GuestInv, BlockInv,
       FileOpen, InBlock, Accepted, NextIndex
  <2>4. PhaseInv'
    <3> USE <1>2 DEF StatusRead, hostVars, SInv, InBlock, Accepted
    <3>1. Fresh => Fresh'
      BY DEF Fresh, Reading
    <3>2. InFlight => InFlight'
      BY <2>2 DEF InFlight, Together, NextIndex
    <3>3. Taken => Taken'
      BY DEF Taken
    <3>4. Ended => Ended'
      BY DEF Ended
    <3>5. QED
      BY <3>1, <3>2, <3>3, <3>4 DEF PhaseInv
  <2>5. QED
    BY <2>1, <2>3, <2>4 DEF SInv
<1>3. QED
  BY <1>1, <1>2 DEF Poll, StatusRead

(* While a block is sent nothing times out inside it: the host has the     *)
(* next character ready. Only a block that U has broken off times out.     *)
LEMMA NoTimeOut ==
  ASSUME SInv, TimedOut, InBlock
  PROVE  xmstat = 0 \/ Fresh
<1>1. SUFFICES ASSUME xmstat = 1, ~Fresh PROVE FALSE
  BY DEF SInv, HostInv
<1>2. InFlight
  BY <1>1 DEF SInv, PhaseInv, Taken, Ended, InBlock
<1>3. xidx = NextIndex
  BY <1>1, <1>2 DEF TimedOut, InFlight, Together
<1>4. NextIndex # 0
  <2>1. xptr + 3 # 0
    BY DEF SInv, TypeInv, TypeOK
  <2>2. QED
    BY <2>1 DEF NextIndex, InBlock, Last
<1>5. QED
  BY <1>1, <1>3, <1>4 DEF TimedOut, HasChar

(* A block that is given up: the transfer has been cancelled or begun      *)
(* again.                                                                  *)
LEMMA GiveUp ==
  ASSUME SInv, TimedOut, InBlock, pc' = "purge",
         UNCHANGED <<xmode, lastok, xpacknum, xcount, delivered, buf0>>
  PROVE  HostInv' /\ EndInv' /\ GuestInv' /\ DataInv' /\ BlockInv' /\ PhaseInv'
<1>1. xmstat = 0 \/ Fresh
  BY NoTimeOut
<1>2. DataInv'
  BY DataKept DEF SInv, TimedOut, hostVars
<1>3. HostInv' /\ EndInv' /\ GuestInv' /\ BlockInv'
  BY ControlBytes DEF SInv, TimedOut, hostVars, HostInv, EndInv, GuestInv,
     BlockInv, FileOpen, InBlock, Accepted
<1>4. Fresh => Fresh'
  BY ControlBytes DEF Fresh, Reading, TimedOut, hostVars, InBlock, Accepted
<1>5. QED
  BY <1>1, <1>3, <1>2, <1>4 DEF PhaseInv, TimedOut, hostVars

LEMMA RcvStartInv ==
  ASSUME SInv, RcvStart, TypeInv'
  PROVE  SInv'
<1> USE DEF SInv
<1>0. SOH # NoChar /\ EOT # NoChar /\ NoChar # 0 /\ SOH # EOT /\ EOT # 0 /\ SOH # 0
  BY DEF NoChar, Byte, Controls
<1>1. DataInv'
  BY DataKept DEF RcvStart, Got, TimedOut, hostVars
<1>2. Current => Current'
  BY CurrentKept DEF RcvStart, Got, TimedOut, hostVars
<1>3. HostInv' /\ EndInv'
  BY DEF HostInv, EndInv, FileOpen, RcvStart, Got, TimedOut, hostVars
<1>4. GuestInv'
  BY DEF GuestInv, Accepted, InBlock, RcvStart, Goto
<1>5. CASE TimedOut /\ pc' = "sendnak"
  <2>1. PhaseInv'
    <3> USE <1>0, <1>5 DEF RcvStart, TimedOut, hostVars, HasChar, Released,
                           InBlock, Accepted
    <3>1. Fresh /\ xmstat = 1 => Fresh'
      BY DEF Fresh, Reading
    <3>2. InFlight => xmstat # 1
      BY DEF InFlight
    <3>3. Taken => xmstat # 1
      BY DEF Taken
    <3>4. Ended /\ xmstat = 1 => Ended'
      BY DEF Ended
    <3>5. QED
      BY <3>1, <3>2, <3>3, <3>4 DEF PhaseInv
  <2>2. QED
    BY <1>0, <1>1, <1>3, <1>4, <1>5, <2>1 DEF BlockInv, InBlock, TimedOut
<1>6. CASE Got(EOT) /\ pc' = "eotack"
  <2>1. PhaseInv'
    BY <1>0, <1>6 DEF RcvStart, Got, hostVars, PhaseInv, Fresh, InFlight, Taken,
       Ended, InBlock, Accepted
  <2>2. QED
    BY <1>0, <1>1, <1>3, <1>4, <1>6, <2>1 DEF BlockInv, InBlock, Got
<1>7. CASE Got(SOH) /\ pc' = "num"
  <2>1. acknak # NAK => Current'
    BY <1>2, <1>7 DEF RcvStart, Got, BlockInv
  <2>2. PhaseInv'
    <3> USE <1>0, <1>7 DEF RcvStart, Got, hostVars, InBlock, Accepted
    <3>1. Fresh => Fresh'
      BY ControlBytes DEF Fresh, Reading
    <3>2. InFlight => InFlight'
      BY <2>1, ControlBytes DEF InFlight, Together, NextIndex
    <3>3. ~Taken /\ ~Ended
      BY DEF Taken, Ended
    <3>4. QED
      BY <3>1, <3>2, <3>3 DEF PhaseInv
  <2>3. BlockInv'
    BY <1>7, <2>1 DEF RcvStart, Got, hostVars, BlockInv, InBlock
  <2>4. QED
    BY <1>1, <1>3, <1>4, <2>2, <2>3
<1>8. CASE pc' = "purge" /\ \E c \in Byte : Got(c) /\ c \notin {SOH, EOT}
  <2>1. PhaseInv'
    BY <1>0, <1>8 DEF RcvStart, Got, hostVars, PhaseInv, Fresh, InFlight, Taken,
       Ended, InBlock, Accepted
  <2>2. QED
    BY <1>1, <1>3, <1>4, <1>8, <2>1 DEF BlockInv, InBlock
<1>9. QED
  BY <1>5, <1>6, <1>7, <1>8 DEF RcvStart, Goto

(* Inside a block every character read is the one of xmbuf it is taken     *)
(* for, so that the block is never dropped while its transfer runs.        *)
LEMMA GotBlock ==
  ASSUME SInv, InBlock, NEW c \in Byte, Got(c)
  PROVE  /\ c = xmbuf[NextIndex] /\ xmbuf[1] = xpacknum
         /\ acknak # NAK => Current
         /\ xmstat = 1 =>
              \/ Fresh /\ acknak = NAK
              \/ /\ InFlight /\ acknak # NAK
                 /\ NextIndex # Last => xidx = NextIndex + 1
                 /\ NextIndex = Last => xidx = 0 /\ rcvdnak = NoChar
<1>1. c = xmbuf[NextIndex] /\ xmbuf[1] = xpacknum /\ (acknak # NAK => Current)
  BY DEF SInv, BlockInv, Got
<1>2. xmstat = 1 => Fresh \/ InFlight
  BY DEF SInv, PhaseInv, Taken, Ended, InBlock
<1>3. Fresh => acknak = NAK
  BY DEF Fresh
<1>4. InFlight => /\ acknak # NAK
                  /\ NextIndex # Last => xidx = NextIndex + 1
                  /\ NextIndex = Last => xidx = 0 /\ rcvdnak = NoChar
  BY ControlBytes DEF InFlight, Together, Got
<1>5. QED
  BY <1>1, <1>2, <1>3, <1>4

(* The block goes on: the monitor expects the character after. *)
LEMMA GoOn ==
  ASSUME SInv, InBlock, InBlock', NEW c \in Byte, Got(c),
         NextIndex' = NextIndex + 1, NextIndex' \in Nat, NextIndex # Last,
         UNCHANGED <<xmode, lastok, xpacknum, xcount, delivered>>
  PROVE  PhaseInv' /\ xmbuf'[1] = xpacknum' /\ (acknak' # NAK => Current')
<1>1. acknak # NAK => Current'
  BY GotBlock, CurrentKept DEF Got, hostVars
<1>2. xmstat = 1 /\ InFlight /\ acknak # NAK => InFlight'
  BY <1>1, GotBlock DEF Got, hostVars, InFlight, Together, Accepted, InBlock
<1>3. Fresh => Fresh'
  BY ControlBytes DEF Got, hostVars, Fresh, Accepted, InBlock
<1>4. QED
  BY <1>1, <1>2, <1>3, GotBlock DEF PhaseInv, Got, hostVars, SInv, HostInv

(* A block whose check fails is dropped; the host will send it again.      *)
LEMMA DropBlock ==
  ASSUME SInv, InBlock, NEW c \in Byte, Got(c), pc' = "purge",
         UNCHANGED <<xmode, lastok, xpacknum, xcount, delivered, buf0>>
  PROVE  HostInv' /\ EndInv' /\ GuestInv' /\ DataInv' /\ BlockInv' /\ PhaseInv'
<1>1. DataInv'
  BY DataKept DEF SInv, Got, hostVars
<1>2. HostInv' /\ EndInv' /\ GuestInv' /\ BlockInv'
  BY ControlBytes DEF SInv, Got, hostVars, HostInv, EndInv, GuestInv, BlockInv,
     FileOpen, InBlock, Accepted
<1>3. acknak # NAK => Current'
  BY GotBlock, CurrentKept DEF Got, hostVars
<1>4. xmstat = 1 /\ InFlight => (xidx = 0 => rcvdnak = NoChar)
  BY DEF InFlight
<1>5. xmstat = 1 /\ InFlight /\ acknak # NAK => InFlight'
  BY <1>3, <1>4 DEF Got, hostVars, InFlight, Accepted, InBlock
<1>6. Fresh => Fresh'
  BY ControlBytes DEF Got, hostVars, Fresh, Accepted, InBlock
<1>7. QED
  BY <1>1, <1>2, <1>5, <1>6, GotBlock DEF PhaseInv, Got, hostVars

LEMMA RcvNumInv ==
  ASSUME SInv, RcvNum, TypeInv'
  PROVE  SInv'
<1> USE DEF SInv
<1>0. InBlock /\ pc = "num" /\ NextIndex = 1 /\ Last # 1
  BY DEF RcvNum, InBlock, NextIndex, Last
<1>1. CASE TimedOut
  BY <1>0, <1>1, GiveUp DEF RcvNum, Goto, TimedOut, Got
<1>2. ASSUME NEW c \in Byte, Got(c) PROVE SInv'
  <2>1. c = xpacknum
    BY <1>0, <1>2, GotBlock
  <2>2. pc' = "comp" /\ xsum' = xpacknum /\ lastok' = lastok
    BY <1>2, <2>1 DEF RcvNum, Got, Goto, TimedOut
  <2>3. PhaseInv' /\ xmbuf'[1] = xpacknum' /\ (acknak' # NAK => Current')
    BY <1>0, <1>2, <2>2, GoOn DEF RcvNum, InBlock, NextIndex
  <2>4. DataInv'
    BY <1>2, DataKept DEF RcvNum, Got, hostVars
  <2>5. QED
    BY <1>0, <1>2, <2>2, <2>3, <2>4 DEF RcvNum, Got, hostVars, HostInv, EndInv,
       GuestInv, BlockInv, FileOpen, InBlock, Accepted
<1>3. QED
  BY <1>1, <1>2 DEF RcvNum

LEMMA RcvCompInv ==
  ASSUME SInv, RcvComp, TypeInv'
  PROVE  SInv'
<1> USE DEF SInv
<1>0. InBlock /\ pc = "comp" /\ NextIndex = 2 /\ Last # 2
  BY DEF RcvComp, InBlock, NextIndex, Last
<1>1. CASE TimedOut
  BY <1>0, <1>1, GiveUp DEF RcvComp, Goto, TimedOut, Got
<1>2. ASSUME NEW c \in Byte, Got(c) PROVE SInv'
  <2>1. DataInv'
    BY <1>2, DataKept DEF RcvComp, Got, hostVars
  <2>2. CASE Comp(c) = xsum
    <3>1. pc' = "data" /\ xptr' = 0
      BY <1>2, <2>2 DEF RcvComp, Got, Goto, TimedOut
    <3>2. PhaseInv' /\ xmbuf'[1] = xpacknum' /\ (acknak' # NAK => Current')
      BY <1>0, <1>2, <3>1, GoOn DEF RcvComp, InBlock, NextIndex
    <3>3. QED
      BY <1>0, <1>2, <2>1, <3>1, <3>2 DEF RcvComp, Got, hostVars, HostInv, EndInv,
         GuestInv, BlockInv, FileOpen, InBlock, Accepted
  <2>3. CASE Comp(c) # xsum
    BY <1>0, <1>2, <2>3, DropBlock DEF RcvComp, Goto, Got, TimedOut
  <2>4. QED
    BY <2>2, <2>3
<1>3. QED
  BY <1>1, <1>2 DEF RcvComp

LEMMA RcvDataInv ==
  ASSUME SInv, RcvData, TypeInv'
  PROVE  SInv'
<1> USE DEF SInv
<1>0. InBlock /\ pc = "data" /\ NextIndex = xptr + 3 /\ xcount = 0
      /\ xptr \in 0..BlkLen-1 /\ NextIndex # Last
  <2>1. pc = "data" /\ InBlock /\ NextIndex = xptr + 3
    BY DEF RcvData, InBlock, NextIndex
  <2>2. xptr \in 0..BlkLen-1
    BY <2>1 DEF TypeInv, TypeOK, Counters
  <2>3. xcount = 0
    BY <2>1 DEF GuestInv
  <2>4. QED
    BY <2>1, <2>2, <2>3 DEF Last
<1>1. CASE TimedOut /\ pc' = "purge" /\ UNCHANGED <<buf0, xptr, xsum>>
  BY <1>0, <1>1, GiveUp DEF RcvData
<1>2. ASSUME NEW c \in Byte, Got(c),
             buf0' = [buf0 EXCEPT ![xptr] = c], xptr' = xptr + 1,
             pc' = IF xptr + 1 = BlkLen THEN "sum" ELSE "data"
      PROVE SInv'
  <2>1. DataInv'
    BY <1>0, <1>2, DataKept DEF RcvData, Got, hostVars
  <2>2. InBlock' /\ NextIndex' = NextIndex + 1 /\ NextIndex' \in Nat
    BY <1>0, <1>2, SMTT(20) DEF InBlock, NextIndex, Last
  <2>3. PhaseInv' /\ xmbuf'[1] = xpacknum' /\ (acknak' # NAK => Current')
    BY <1>0, <1>2, <2>2, GoOn, SMTT(20) DEF RcvData
  <2>4. acknak' # NAK => \A j \in 0..BlkLen-1 : j < xptr' => buf0'[j] = xmbuf'[j + 3]
    <3>0. SUFFICES ASSUME acknak # NAK, NEW j \in 0..BlkLen-1, j < xptr'
                   PROVE  buf0'[j] = xmbuf'[j + 3]
      BY <1>2 DEF Got, hostVars
    <3>1. xmbuf' = xmbuf /\ c = xmbuf[xptr + 3]
      BY <1>0, <1>2, GotBlock DEF Got, hostVars
    <3>2. \A i \in 0..BlkLen-1 : i < xptr => buf0[i] = xmbuf[i + 3]
      BY <1>0, <3>0 DEF BlockInv
    <3>3. buf0 \in [0..BlkLen-1 -> Byte]
      BY DEF TypeInv, TypeOK
    <3>5. CASE j = xptr
      BY <1>0, <1>2, <3>1, <3>3, <3>5
    <3>6. CASE j # xptr
      BY <1>0, <1>2, <3>0, <3>1, <3>2, <3>3, <3>6
    <3>7. QED
      BY <3>5, <3>6
  <2>5. HostInv' /\ EndInv' /\ GuestInv'
    BY <1>0, <1>2, <2>2 DEF RcvData, Got, hostVars, HostInv, EndInv, GuestInv,
       FileOpen, InBlock, Accepted
  <2>6. BlockInv'
    <3>1. xmstat' = 0 => kbd' = <<>>
      BY <1>0, <1>2 DEF Got, hostVars, BlockInv
    <3>2. f' = NoChar /\ f' # SOH /\ pc' # "comp"
      BY <1>2, ControlBytes DEF Got
    <3>3. QED
      BY <2>3, <2>4, <3>1, <3>2 DEF BlockInv
  <2>7. QED
    BY <2>1, <2>3, <2>5, <2>6
<1>3. QED
  BY <1>1, <1>2 DEF RcvData, Goto

(* Taking a block over moves its bytes from xmbuf to buf0: Accepted grows  *)
(* by a block, to where the host has read.                                 *)
LEMMA RcvSumInv ==
  ASSUME SInv, RcvSum, TypeInv'
  PROVE  SInv'
<1> USE DEF SInv
<1>0. InBlock /\ pc = "sum" /\ NextIndex = Last /\ xcount = 0 /\ lastok = 0
      /\ xptr = BlkLen
  BY DEF RcvSum, InBlock, NextIndex, GuestInv, TypeInv, Counters
<1>1. CASE TimedOut /\ pc' = "purge" /\ UNCHANGED <<lastok, xpacknum, xcount>>
  BY <1>0, <1>1, GiveUp DEF RcvSum
<1>2. ASSUME NEW c \in Byte, Got(c), pc' = "purge",
             UNCHANGED <<lastok, xpacknum, xcount>>
      PROVE  SInv'
  BY <1>0, <1>2, DropBlock DEF RcvSum
<1>3. ASSUME NEW c \in Byte, Got(c), pc' = "getc", lastok' = 1,
             xpacknum' = Inc(xpacknum), xcount' = BlkLen
      PROVE  SInv'
  <2>0. acknak # NAK
    BY <1>0, <1>3, ControlBytes DEF BlockInv, Got
  <2>1. UNCHANGED <<hostVars, kbd, delivered, buf0, xmode>> /\ f' = NoChar
    BY <1>3 DEF RcvSum, Got
  <2>2. Accepted' = Accepted + BlkLen
    BY <1>0, <1>3, <2>1 DEF Accepted, TypeInv, TypeOK
  <2>3. DataInv'
    <3>1. /\ Accepted < Len(xdata)
          /\ \A i \in 1..BlkLen : xmbuf[i + 2] = PadByte(xdata, Accepted + i)
      BY <1>0, <1>3, <2>0, GotBlock DEF Current
    <3>2. \A j \in 0..BlkLen-1 : buf0[j] = xmbuf[j + 3]
      BY <1>0, <2>0 DEF BlockInv
    <3>3. \A j \in 0..BlkLen-1 :
            buf0[j] = PadByte(xdata, Accepted + BlkLen - BlkLen + j + 1)
      <4> TAKE j \in 0..BlkLen-1
      <4>1. j + 1 \in 1..BlkLen /\ (j + 1) + 2 = j + 3
        OBVIOUS
      <4>2. buf0[j] = PadByte(xdata, Accepted + (j + 1))
        BY <3>1, <3>2, <4>1
      <4>3. Accepted + (j + 1) = Accepted + BlkLen - BlkLen + j + 1
        BY DEF Accepted, TypeInv, TypeOK
      <4>4. QED
        BY <4>2, <4>3
    <3>4. Prefix' /\ Accepted' < Len(xdata') + BlkLen
      BY <2>1, <2>2, <3>1 DEF DataInv, Prefix, hostVars, PadByte, TypeInv,
         TypeOK, HostTypeOK, Accepted
    <3>5. \A j \in 0..BlkLen-1 :
            buf0'[j] = PadByte(xdata', Accepted' - BlkLen + j + 1)
      <4>1. xdata' = xdata /\ buf0' = buf0
        BY <2>1 DEF hostVars
      <4>2. Accepted' \in Nat /\ Accepted \in Nat
        BY SMTT(20) DEF Accepted, TypeInv, TypeOK
      <4>3. \A j \in 0..BlkLen-1 :
              Accepted' - BlkLen + j + 1 = Accepted + BlkLen - BlkLen + j + 1
        BY <2>2, <4>2
      <4>4. QED
        BY <3>3, <4>1, <4>3
    <3>6. QED
      BY <3>4, <3>5 DEF DataInv, Prefix
  <2>4. HostInv' /\ EndInv' /\ GuestInv' /\ BlockInv'
    <3>1. Accepted' # 0
      BY <2>2 DEF Accepted, TypeInv, TypeOK
    <3>2. QED
      BY <1>0, <1>3, <2>1, <3>1, ControlBytes DEF hostVars, HostInv, EndInv, GuestInv,
         BlockInv, FileOpen, InBlock
  <2>5. xmstat = 1 => Taken'
    BY <1>0, <1>3, <2>0, <2>1, <2>2, GotBlock DEF hostVars, Taken, InFlight
  <2>6. QED
    BY <2>1, <2>3, <2>4, <2>5 DEF PhaseInv, hostVars
<1>4. QED
  BY <1>0, <1>1, <1>2, <1>3 DEF RcvSum, Goto

LEMMA PurgeInv ==
  ASSUME SInv, Purge, TypeInv'
  PROVE  SInv'
<1> USE DEF SInv
<1>1. DataInv'
  BY DataKept DEF Purge, Got, TimedOut, hostVars
<1>2. Current => Current'
  BY CurrentKept DEF Purge, Got, TimedOut, hostVars
<1>3. HostInv' /\ EndInv' /\ GuestInv' /\ BlockInv'
  BY ControlBytes DEF HostInv, EndInv, FileOpen, GuestInv, BlockInv, Accepted, InBlock,
     Purge, Got, TimedOut, hostVars, Goto
<1>4. CASE (\E c \in Byte : Got(c)) /\ pc' = pc
  <2>1. PhaseInv'
    <3> USE <1>4 DEF Purge, Got, hostVars, InBlock, Accepted
    <3>1. Fresh => Fresh'
      BY DEF Fresh, Reading, NoChar, Controls, Byte
    <3>2. InFlight => InFlight'
      BY <1>2 DEF InFlight
    <3>3. Taken => xmstat # 1
      BY DEF Taken
    <3>4. Ended => Ended'
      BY DEF Ended
    <3>5. QED
      BY <3>1, <3>2, <3>3, <3>4 DEF PhaseInv
  <2>2. QED
    BY <1>1, <1>3, <2>1
<1>5. CASE TimedOut
  <2>1. PhaseInv'
    <3> USE <1>5 DEF Purge, TimedOut, hostVars, HasChar, Released, InBlock,
                     Accepted, Goto
    <3>1. Fresh /\ xmstat = 1 => Fresh'
      BY ControlBytes DEF Fresh, Reading
    <3>2. InFlight /\ xmstat = 1 => InFlight'
      BY <1>2 DEF InFlight
    <3>3. Taken /\ xmstat = 1 => Taken'
      BY DEF Taken
    <3>4. Ended /\ xmstat = 1 => Ended'
      BY DEF Ended
    <3>5. QED
      BY <3>1, <3>2, <3>3, <3>4 DEF PhaseInv
  <2>2. QED
    BY <1>1, <1>3, <2>1
<1>6. QED
  BY <1>4, <1>5 DEF Purge

LEMMA SendAnswerInv ==
  ASSUME SInv, SendAnswer, TypeInv'
  PROVE  SInv'
<1> USE DEF SInv
<1>0. ACK # NAK /\ ACK # CAN /\ NAK # CAN /\ ACK # EOT /\ NAK # EOT
      /\ ACK # NoChar /\ NAK # NoChar
  BY DEF Controls, NoChar, Byte
<1>1. PICK c \in {ACK, NAK} :
        /\ DataOut(c) /\ UNCHANGED <<f, kbd>> /\ pc' = "start"
        /\ c = ACK => pc = "sendack"
        /\ c = NAK => pc = "sendnak"
  BY <1>0 DEF SendAnswer, Put, Goto
<1>2. UNCHANGED <<xmbuf, xdata>> /\ (ToTerminal(c) \/ TakeAnswer(c))
  BY <1>1 DEF DataOut, ToTerminal, TakeAnswer, StoreByte, StoreBlock, hostVars,
     HostInv, EndInv
<1>3. DataInv'
  BY <1>1, <1>2, DataKept DEF SendAnswer, ToTerminal, hostVars, TakeAnswer
<1>4. Current => Current'
  BY <1>1, <1>2, CurrentKept DEF SendAnswer, ToTerminal, hostVars, TakeAnswer
<1>5. CASE ToTerminal(c)
  BY <1>1, <1>3, <1>5 DEF ToTerminal, hostVars, SendAnswer, HostInv, EndInv, GuestInv,
     BlockInv, PhaseInv, FileOpen, InBlock, Accepted
<1>6. CASE TakeAnswer(c)
  <2>1. acknak # EOT \/ c = NAK
    BY <1>0, <1>1, <1>6 DEF TakeAnswer, PhaseInv, Fresh, InFlight, Taken, Ended,
       InBlock
  <2>2. UNCHANGED <<xmstat, xfile, xfate>>
    BY <1>0, <1>6, <2>1 DEF TakeAnswer
  <2>3. HostInv' /\ EndInv' /\ GuestInv'
    BY <1>1, <1>6, <2>2 DEF SendAnswer, TakeAnswer, HostInv, EndInv, GuestInv, FileOpen,
       InBlock, Accepted
  <2>4. PhaseInv' /\ f # SOH
    <3> USE <1>0, <1>1, <1>6, <2>2 DEF TakeAnswer, SendAnswer, InBlock, Accepted
    <3>1. Fresh => Fresh' /\ f # SOH
      BY DEF Fresh, Reading, GuestInv, BlockInv
    <3>2. InFlight => InFlight' /\ f # SOH
      BY <1>4 DEF InFlight, NoChar, Controls, Byte
    <3>3. Taken => Taken' /\ f # SOH
      BY DEF Taken, NoChar, Controls, Byte
    <3>4. Ended => Ended' /\ f # SOH
      BY DEF Ended, NoChar, Controls, Byte
    <3>5. QED
      BY <3>1, <3>2, <3>3, <3>4 DEF PhaseInv
  <2>5. BlockInv'
    BY <1>1, <2>4 DEF BlockInv, InBlock
  <2>6. QED
    BY <1>3, <2>3, <2>4, <2>5
<1>7. QED
  BY <1>2, <1>5, <1>6

LEMMA SendLastInv ==
  ASSUME SInv, SendLast, TypeInv'
  PROVE  SInv'
<1> USE DEF SInv
<1>0. ACK # NAK /\ ACK # CAN /\ ACK # EOT /\ NAK # ACK
  BY DEF Controls
<1>1. PICK c \in {ACK, CAN} :
        /\ DataOut(c) /\ UNCHANGED <<f, kbd>>
        /\ c = ACK => pc = "eotack"
        /\ c = CAN => pc = "abort"
        /\ pc' \in {pc, "idle"} /\ (pc' = "idle" => xmode' = 0)
        /\ pc' = pc /\ pc # "idle" => xmode' = xmode
  BY <1>0 DEF SendLast, Put, Goto
<1>2. UNCHANGED <<xmbuf, xdata>> /\ (ToTerminal(c) \/ TakeAnswer(c))
  BY <1>1 DEF DataOut, ToTerminal, TakeAnswer, StoreByte, StoreBlock, hostVars,
     HostInv, EndInv
<1>3. DataInv'
  BY <1>1, <1>2, DataKept DEF SendLast, ToTerminal, hostVars, TakeAnswer
<1>4. GuestInv' /\ BlockInv' /\ ~InBlock
  BY <1>1 DEF SendLast, GuestInv, BlockInv, InBlock, Accepted
<1>5. CASE ToTerminal(c)
  BY <1>1, <1>3, <1>4, <1>5 DEF ToTerminal, hostVars, HostInv, EndInv, PhaseInv, FileOpen
<1>6. CASE TakeAnswer(c)
  <2>1. HostInv' /\ EndInv'
    BY <1>1, <1>6 DEF TakeAnswer, HostInv, EndInv, FileOpen
  <2>2. PhaseInv'
    <3> USE <1>0, <1>1, <1>6 DEF TakeAnswer, SendLast, InBlock, Accepted
    <3>1. Fresh => Fresh' \/ xmstat' = 0
      BY DEF Fresh, Reading, GuestInv, BlockInv
    <3>2. ~InFlight
      BY DEF InFlight
    <3>3. Taken => xmstat' = 0
      BY DEF Taken
    <3>4. Ended => xmstat' = 0
      BY DEF Ended
    <3>5. QED
      BY <3>1, <3>2, <3>3, <3>4, <2>1 DEF PhaseInv, HostInv, EndInv
  <2>3. QED
    BY <1>3, <1>4, <2>1, <2>2
<1>7. QED
  BY <1>2, <1>5, <1>6

LEMMA GetCharInv ==
  ASSUME SInv, GetChar, TypeInv'
  PROVE  SInv'
<1> USE DEF SInv
<1>1. UNCHANGED <<hostVars, f, kbd>> /\ pc = "getc" /\ ~InBlock /\ ~InBlock'
  BY DEF GetChar, InBlock, Goto
<1>2. HostInv' /\ EndInv'
  BY <1>1 DEF HostInv, EndInv, FileOpen, hostVars
<1>3. Accepted' = Accepted /\ DataInv'
  <2>1. CASE xcount = 0
    <3>1. UNCHANGED <<delivered, xcount, xdata, buf0>>
      BY <1>1, <2>1 DEF GetChar, hostVars
    <3>2. QED
      BY <3>1, DataKept DEF Accepted
  <2>2. CASE xcount # 0
    <3> DEFINE c == buf0[BlkLen - xcount]
    <3>1. /\ xcount \in 1..BlkLen /\ delivered \in Seq(Byte)
          /\ buf0 \in [0..BlkLen-1 -> Byte] /\ xdata \in Seq(Byte)
      BY <2>2 DEF TypeInv, TypeOK, HostTypeOK
    <3>2. c \in Byte /\ c = PadByte(xdata, Len(delivered) + 1)
      <4>1. BlkLen - xcount \in 0..BlkLen-1
        BY <3>1
      <4>2. c = PadByte(xdata, Accepted - BlkLen + (BlkLen - xcount) + 1)
        BY <4>1 DEF DataInv, Prefix
      <4>3. Accepted - BlkLen + (BlkLen - xcount) + 1 = Len(delivered) + 1
        BY <3>1 DEF Accepted
      <4>4. QED
        BY <3>1, <4>1, <4>2, <4>3
    <3> HIDE DEF c
    <3>3. /\ delivered' = Append(delivered, c) /\ xcount' = xcount - 1
          /\ xdata' = xdata /\ buf0' = buf0
      BY <1>1, <2>2 DEF GetChar, hostVars, c
    <3>4. /\ Len(delivered') = Len(delivered) + 1
          /\ \A i \in 1..Len(delivered) : delivered'[i] = delivered[i]
          /\ delivered'[Len(delivered) + 1] = c
      BY <3>1, <3>2, <3>3, AppendByte
    <3>5. Accepted' = Accepted
      BY <3>1, <3>3, <3>4 DEF Accepted
    <3>6. Prefix'
      <4>1. Len(delivered') < Len(xdata') + BlkLen
        BY <3>1, <3>3, <3>4 DEF DataInv, Prefix, Accepted
      <4>2. \A i \in 1..Len(delivered') : delivered'[i] = PadByte(xdata', i)
        <5>1. \A i \in 1..Len(delivered) : delivered[i] = PadByte(xdata, i)
          BY DEF DataInv, Prefix
        <5>2. \A i \in 1..Len(delivered') :
                i \in 1..Len(delivered) \/ i = Len(delivered) + 1
          BY <3>1, <3>4
        <5>3. QED
          BY <3>2, <3>3, <3>4, <5>1, <5>2
      <4>3. QED
        BY <4>1, <4>2 DEF Prefix
    <3>7. \A j \in 0..BlkLen-1 : BlkLen - xcount' <= j => BlkLen - xcount <= j
      BY <3>1, <3>3
    <3>8. QED
      BY <3>3, <3>5, <3>6, <3>7 DEF DataInv, Prefix
  <2>3. QED
    BY <2>1, <2>2
<1>4. GuestInv'
  BY <1>1, <1>3 DEF GetChar, GuestInv, Goto, InBlock, TypeInv, TypeOK
<1>5. BlockInv'
  BY <1>1 DEF GetChar, BlockInv, Goto
<1>6. PhaseInv'
  <2> USE <1>1, <1>3 DEF GetChar, hostVars, Goto
  <2>1. Fresh => Fresh'
    BY DEF Fresh, Reading, GuestInv, BlockInv, Accepted, InBlock, TypeInv,
       TypeOK
  <2>2. ~InFlight
    BY DEF InFlight
  <2>3. Taken => Taken'
    BY DEF Taken
  <2>4. ~Ended
    BY DEF Ended
  <2>5. QED
    BY <2>1, <2>2, <2>3, <2>4 DEF PhaseInv
<1>7. QED
  BY <1>2, <1>3, <1>4, <1>5, <1>6

LEMMA ProgramInv ==
  ASSUME SInv, Program, TypeInv'
  PROVE  SInv'
<1> USE DEF SInv
<1>1. /\ UNCHANGED <<hostVars, f, kbd, xmode, lastok, xpacknum, xcount, buf0,
                     delivered>>
      /\ pc \in {"getc", "closein", "gobble"}
      /\ pc' \in {"abpurge", "closein", "gobble"}
  BY DEF Program, XAbortIn, XCloseIn, Goto, GuestInv
<1>2. DataInv'
  BY <1>1, DataKept DEF hostVars
<1>3. HostInv' /\ EndInv' /\ GuestInv' /\ BlockInv'
  BY <1>1 DEF hostVars, HostInv, EndInv, GuestInv, BlockInv, FileOpen, InBlock, Accepted
<1>4. PhaseInv'
  <2> USE <1>1 DEF hostVars, InBlock, Accepted
  <2>1. Fresh => Fresh'
    BY DEF Fresh, Reading
  <2>2. ~InFlight
    BY DEF InFlight
  <2>3. Taken => Taken'
    BY DEF Taken
  <2>4. ~Ended
    BY DEF Ended
  <2>5. QED
    BY <2>1, <2>2, <2>3, <2>4 DEF PhaseInv
<1>5. QED
  BY <1>2, <1>3, <1>4

(* XL begins an orderly session whatever went before. *)
LEMMA XLoadInv ==
  ASSUME TypeInv, HostInv, XLoad, TypeInv'
  PROVE  SInv'
<1>1. UNCHANGED <<xmstat, xfile, xdata>> /\ pc' = "getc" /\ xmstat = 0
      /\ f' = NoChar /\ kbd' = <<>>
  BY DEF XLoad, Goto
<1>2. Accepted' = 0 /\ DataInv'
  <2>1. delivered' = <<>> /\ xcount' = 0 /\ xdata' \in Seq(Byte)
    BY DEF XLoad, TypeInv, TypeOK, HostTypeOK
  <2>2. Accepted' = 0
    BY <2>1 DEF Accepted
  <2>3. Len(xdata') \in Nat /\ Len(delivered') = 0
    BY <2>1
  <2>4. QED
    BY <2>1, <2>2, <2>3 DEF DataInv, Prefix
<1>3. HostInv' /\ EndInv' /\ GuestInv' /\ PhaseInv'
  BY <1>1, <1>2 DEF XLoad, HostInv, EndInv, GuestInv, PhaseInv, FileOpen, InBlock
<1>4. BlockInv'
  BY <1>1, ControlBytes DEF BlockInv, InBlock
<1>5. QED
  BY <1>2, <1>3, <1>4 DEF SInv

(* The operator. That U begins the session is what keeps a second file     *)
(* from being taken for the rest of the first.                             *)
LEMMA OperatorInv ==
  ASSUME SInv, Operator, orderly, orderly', TypeInv'
  PROVE  SInv'
<1> USE DEF SInv
<1>1. CASE XLoad
  BY <1>1, XLoadInv
<1>2. CASE Upload
  <2>1. PICK s \in Seq(Byte) : CommandU(TRUE, s) \/ CommandU(FALSE, s)
    <3>1. <<>> \in Seq(Byte)
      OBVIOUS
    <3>2. QED
      BY <1>2, <3>1, Zenon DEF Upload
  <2>2. /\ UNCHANGED <<guestVars, f>> /\ kbd' = <<>> /\ xdata' = s
        /\ pc # "idle" /\ delivered = <<>> /\ xcount = 0 /\ Accepted = 0
        /\ ~(pc = "sum" /\ f # NoChar)
        /\ f = EOT => Reading /\ pc # "start"
        /\ acknak' = NAK /\ xmbuf' = xmbuf
    <3>1. Begins /\ UNCHANGED guestVars
      BY <1>2 DEF Upload
    <3>2. UNCHANGED f /\ kbd' = <<>> /\ xdata' = s /\ acknak' = NAK
          /\ xmbuf' = xmbuf
      BY <2>1 DEF CommandU
    <3>3. QED
      BY <3>1, <3>2 DEF Begins, Accepted
  <2>3. DataInv' /\ Accepted' = 0
    BY <2>2 DEF guestVars, DataInv, Prefix, Accepted
  <2>4. BlockInv'
    BY <2>2 DEF guestVars, BlockInv, InBlock, NextIndex
  <2>5. HostInv' /\ EndInv' /\ GuestInv'
    BY <2>1, <2>2, <2>3 DEF CommandU, guestVars, HostInv, EndInv, GuestInv, FileOpen,
       InBlock
  <2>6. PhaseInv'
    BY <2>1, <2>2, <2>3, ControlBytes DEF CommandU, guestVars, PhaseInv, Fresh,
       GuestInv, InBlock, Reading, HostInv
  <2>7. QED
    BY <2>3, <2>4, <2>5, <2>6
<1>3. CASE Cancel
  <2>1. UNCHANGED <<guestVars, f, xmbuf, xdata, acknak>> /\ kbd' = <<>>
        /\ xmstat' = 0
    BY <1>3 DEF Cancel, CommandX
  <2>2. DataInv' /\ (Current => Current')
    BY <2>1, DataKept, CurrentKept DEF guestVars
  <2>3. HostInv' /\ EndInv' /\ GuestInv' /\ PhaseInv'
    BY <1>3, <2>1 DEF Cancel, CommandX, guestVars, HostInv, EndInv, GuestInv, PhaseInv,
       FileOpen, InBlock, Accepted
  <2>4. BlockInv'
    BY <2>1, <2>2 DEF guestVars, BlockInv, InBlock, NextIndex
  <2>5. QED
    BY <2>2, <2>3, <2>4
<1>4. CASE Type
  <2>1. UNCHANGED <<hostVars, f, guestVars>>
    BY <1>4 DEF Type
  <2>2. kbd' \in Seq(Byte \ {SOH})
    <3>1. PICK c \in Byte \ {SOH} : kbd' = Append(kbd, c)
      <4>1. PICK c \in Keys : kbd' = Append(kbd, c) /\ c # SOH
        BY <1>4 DEF Type
      <4>2. QED
        BY <4>1
    <3>2. kbd \in Seq(Byte \ {SOH})
      BY DEF HostInv, EndInv
    <3>3. QED
      BY <3>1, <3>2
  <2>3. DataInv' /\ (Current => Current')
    BY <2>1, DataKept, CurrentKept DEF hostVars, guestVars
  <2>4. HostInv' /\ EndInv' /\ GuestInv'
    BY <2>1, <2>2 DEF hostVars, guestVars, HostInv, EndInv, GuestInv, FileOpen, InBlock,
       Accepted
  <2>5. BlockInv'
    <3>1. InBlock \/ (pc = "start" /\ f = SOH) => xmstat = 1
      BY <1>4 DEF Type, Quiet
    <3>2. QED
      BY <2>1, <2>3, <3>1 DEF hostVars, guestVars, BlockInv, InBlock, NextIndex
  <2>6. PhaseInv'
    <3> USE <2>1 DEF hostVars, guestVars, InBlock, Accepted
    <3>1. Fresh => Fresh'
      BY DEF Fresh, Reading
    <3>2. InFlight => InFlight'
      BY <2>3 DEF InFlight, Together, NextIndex
    <3>3. Taken => Taken'
      BY DEF Taken
    <3>4. Ended => Ended'
      BY DEF Ended
    <3>5. QED
      BY <3>1, <3>2, <3>3, <3>4 DEF PhaseInv
  <2>7. QED
    BY <2>3, <2>4, <2>5, <2>6
<1>5. QED
  BY <1>1, <1>2, <1>3, <1>4 DEF Operator

LEMMA LoadInit == Init => IInv
  BY TypeInit, ControlBytes
  DEF Init, HostInit, IInv, Session, HostInv, EndInv, FileOpen, GuestInv,
      DataInv, Prefix, BlockInv, PhaseInv, InBlock, Accepted

(* The FILE pointer, xmstat and the transfer's fate move together,         *)
(* whatever the operator does.                                             *)
LEMMA HostStep ==
  ASSUME TypeInv, HostInv, Next
  PROVE  HostInv'
<1> USE DEF HostInv, FileOpen
<1>1. CASE Poll \/ StatusRead
  BY <1>1 DEF Poll, StatusRead, Fetch, CharInput, ConsoleChar, SendNext,
     SendBlock, SendEot, Resend, ReplyEot, Reply, hostVars
<1>2. CASE RcvStart \/ RcvNum \/ RcvComp \/ RcvData \/ RcvSum \/ Purge
  BY <1>2 DEF RcvStart, RcvNum, RcvComp, RcvData, RcvSum, Purge, Got, TimedOut,
     hostVars
<1>3. CASE GetChar \/ Program
  BY <1>3 DEF GetChar, Program, XAbortIn, XCloseIn, hostVars
<1>4. CASE SendAnswer \/ SendLast
  <2>1. PICK c \in {ACK, NAK, CAN} : DataOut(c)
    BY <1>4 DEF SendAnswer, SendLast, Put
  <2>2. QED
    BY <2>1 DEF DataOut, ToTerminal, TakeAnswer, StoreByte, StoreBlock, hostVars
<1>5. CASE Operator
  <2>1. CASE XLoad
    BY <2>1 DEF XLoad
  <2>2. CASE Upload
    BY <2>2 DEF Upload, CommandU
  <2>3. CASE Cancel
    BY <2>3 DEF Cancel, CommandX
  <2>4. CASE Type
    BY <2>4 DEF Type, hostVars
  <2>5. QED
    BY <1>5, <2>1, <2>2, <2>3, <2>4 DEF Operator
<1>6. QED
  BY <1>1, <1>2, <1>3, <1>4, <1>5 DEF Next, Receive

(* A session that is orderly after a step was so before it, or XL has      *)
(* begun it.                                                               *)
LEMMA OrderlyStep ==
  ASSUME Next, orderly', ~XLoad
  PROVE  orderly
<1>1. CASE Receive \/ Program
  BY <1>1 DEF Receive, Program, Poll, RcvStart, RcvNum, RcvComp, RcvData, RcvSum,
     Purge, StatusRead, SendAnswer, SendLast, GetChar, XAbortIn, XCloseIn,
     operator
<1>2. CASE Operator
  BY <1>2 DEF Operator, Upload, Cancel, Type
<1>3. QED
  BY <1>1, <1>2 DEF Next

LEMMA LoadStep == IInv /\ [Next]_vars => IInv'
<1> SUFFICES ASSUME IInv, [Next]_vars
             PROVE  IInv'
  OBVIOUS
<1>0. TypeInv'
  BY TypeStep DEF IInv
<1>1. CASE UNCHANGED vars
  <2>1. UNCHANGED <<pc, txrdy, left, xmode, lastok, xpacknum, xsum, xcount, buf0,
                    xptr, delivered, orderly, xmstat, xfile, xdata, xpos, xmbuf,
                    xidx, acknak, rcvdnak, blocknum, xfate, f, kbd>>
    BY <1>1 DEF vars, hostVars, guestVars, operator
  <2>2. HostInv'
    BY <2>1 DEF IInv, HostInv, FileOpen
  <2>3. SUFFICES ASSUME orderly, Session
                 PROVE  Session'
    BY <1>0, <2>1, <2>2 DEF IInv
  <2>4. DataInv' /\ (Current => Current')
    BY <2>1, <2>3, DataKept, CurrentKept DEF Session
  <2>5. EndInv' /\ GuestInv' /\ BlockInv'
    BY <2>1, <2>3, <2>4 DEF Session, EndInv, GuestInv, BlockInv, InBlock, Accepted,
       NextIndex
  <2>6. PhaseInv'
    BY <2>1, <2>3, <2>4 DEF Session, PhaseInv, Fresh, InFlight, Taken, Ended, Together,
       Reading, InBlock, Accepted, NextIndex
  <2>7. QED
    BY <2>4, <2>5, <2>6 DEF Session
<1>2. CASE Next
  <2>1. HostInv'
    BY <1>2, HostStep DEF IInv
  <2>2. CASE XLoad
    BY <1>0, <2>2, XLoadInv DEF IInv, SInv, Session
  <2>3. ASSUME ~XLoad, orderly'
        PROVE  Session'
    <3>1. orderly /\ SInv
      BY <1>2, <2>3, OrderlyStep DEF IInv, SInv, Session
    <3>2. SInv'
      BY <1>0, <1>2, <2>3, <3>1, PollInv, RcvStartInv, RcvNumInv, RcvCompInv,
         RcvDataInv, RcvSumInv, PurgeInv, SendAnswerInv, SendLastInv,
         GetCharInv, ProgramInv, OperatorInv
      DEF Next, Receive
    <3>3. QED
      BY <3>2 DEF SInv, Session
  <2>4. QED
    BY <1>0, <2>1, <2>2, <2>3 DEF IInv
<1>3. QED
  BY <1>1, <1>2

(* Only an ACK taken by the host after its EOT completes a transfer.       *)
LEMMA EndStep ==
  ASSUME IInv, orderly, Next, xmstat = 1, xfate = "running", xfate' = "complete"
  PROVE  Ended /\ xcount = 0
<1>1. SendAnswer \/ SendLast
  <2>1. CASE Poll \/ StatusRead
    BY <2>1 DEF Poll, StatusRead, Fetch, CharInput, ConsoleChar, SendNext,
       SendBlock, SendEot, Resend, ReplyEot, Reply, hostVars
  <2>2. CASE Operator
    BY <2>2 DEF Operator, XLoad, Upload, Cancel, Type, CommandU, CommandX,
       hostVars
  <2>3. CASE RcvStart \/ RcvNum \/ RcvComp \/ RcvData \/ RcvSum \/ Purge
    BY <2>3 DEF RcvStart, RcvNum, RcvComp, RcvData, RcvSum, Purge, Got,
       TimedOut, hostVars
  <2>4. CASE GetChar \/ Program
    BY <2>4 DEF GetChar, Program, XAbortIn, XCloseIn, hostVars
  <2>5. QED
    BY <2>1, <2>2, <2>3, <2>4 DEF Next, Receive
<1>2. PICK c \in {ACK, NAK, CAN} : TakeAnswer(c)
  BY <1>1 DEF SendAnswer, SendLast, Put, DataOut, ToTerminal, StoreByte,
     StoreBlock, hostVars
<1>3. acknak = EOT
  BY <1>2 DEF TakeAnswer
<1>4. Ended
  BY <1>3 DEF IInv, Session, PhaseInv, Fresh, InFlight, Taken, Controls
<1>5. pc \in {"sendnak", "eotack"}
  BY <1>1, <1>4 DEF SendAnswer, SendLast, Ended
<1>6. QED
  BY <1>4, <1>5 DEF IInv, Session, GuestInv

-----------------------------------------------------------------------------
(* The theorems. *)

(* The inductive invariant holds throughout, whatever the bounds on the    *)
(* operator and whatever is sent.                                          *)
THEOREM LoadInvariant == Spec => []IInv
<1>1. IInv /\ [Next]_vars => IInv'
  BY LoadStep
<1>2. QED
  BY <1>1, LoadInit, PTL DEF Spec

(* In an orderly session, what the program reads is the file and its       *)
(* padding: no byte is lost, repeated or taken from elsewhere, for every   *)
(* file and block length, past every wrap of the block number.             *)
THEOREM LoadPrefixHolds == Spec => []LoadPrefix
<1>1. IInv => LoadPrefix
  BY DEF IInv, Session, DataInv, LoadPrefix
<1>2. Spec => []IInv
  BY LoadInvariant
<1>3. QED
  BY <1>1, <1>2, PTL

(* In an orderly session, host and monitor agree on their place in the     *)
(* block throughout.                                                       *)
THEOREM InStepHolds == Spec => []InStep
<1>1. IInv => InStep
  <2> SUFFICES ASSUME IInv, orderly, InBlock, xmstat = 1
               PROVE  IF acknak = NAK
                      THEN ~HasChar /\ (pc = "sum" => f = NoChar)
                      ELSE Together
    BY DEF InStep
  <2>1. Fresh \/ InFlight
    BY DEF IInv, Session, PhaseInv, Taken, Ended, InBlock
  <2>2. CASE Fresh
    BY <2>2, ControlBytes DEF Fresh, IInv, Session, BlockInv, HasChar, Released
  <2>3. CASE InFlight
    BY <2>3, ControlBytes DEF InFlight
  <2>4. QED
    BY <2>1, <2>2, <2>3
<1>2. Spec => []IInv
  BY LoadInvariant
<1>3. QED
  BY <1>1, <1>2, PTL

(* The FILE pointer is open exactly while a transfer runs. *)
THEOREM FileOpenHolds == Spec => []FileOpen
<1>1. IInv => FileOpen
  BY DEF IInv, HostInv
<1>2. Spec => []IInv
  BY LoadInvariant
<1>3. QED
  BY <1>1, <1>2, PTL

(* In an orderly session, a transfer that the host ends as complete has    *)
(* delivered the whole file.                                               *)
THEOREM EndCompleteHolds == Spec => EndComplete
<1> DEFINE Done == orderly /\ xfate = "running" /\ xfate' = "complete"
                      => Len(delivered) >= Len(xdata)
<1>1. IInv /\ [Next]_vars => [Done]_vars
  <2> SUFFICES ASSUME IInv, Next, orderly, xfate = "running",
                      xfate' = "complete"
               PROVE  Len(delivered) >= Len(xdata)
    OBVIOUS
  <2>1. xmstat = 1
    BY DEF IInv, HostInv
  <2>2. Ended /\ xcount = 0
    BY <2>1, EndStep
  <2>3. QED
    BY <2>2 DEF Ended, Accepted, IInv, TypeInv, TypeOK, HostTypeOK
<1>2. Spec => []IInv
  BY LoadInvariant
<1>3. QED
  BY <1>1, <1>2, PTL DEF Spec, EndComplete

-----------------------------------------------------------------------------
(* The refinement of Transfer: what each kind of step does to the file,    *)
(* to what has been read and to the transfer's fate.                       *)

LEMMA QuietSteps ==
  ASSUME RcvStart \/ RcvNum \/ RcvComp \/ RcvData \/ RcvSum \/ Purge \/ Program
  PROVE  UNCHANGED <<xdata, delivered, xfate>>
  BY DEF RcvStart, RcvNum, RcvComp, RcvData, RcvSum, Purge, Got, TimedOut,
     Program, XAbortIn, XCloseIn, hostVars

LEMMA PollSteps ==
  ASSUME IInv, Poll \/ StatusRead
  PROVE  UNCHANGED <<xdata, delivered, xfate>>
  BY DEF Poll, StatusRead, Fetch, CharInput, ConsoleChar, SendNext, SendBlock,
     SendEot, Resend, ReplyEot, Reply, hostVars, guestVars, IInv, HostInv

LEMMA SendSteps ==
  ASSUME IInv, SendAnswer \/ SendLast
  PROVE  /\ UNCHANGED <<xdata, delivered>>
         /\ xfate' = xfate \/ (xfate = "running" /\ xfate' \in {"complete", "cancelled"})
  BY DEF SendAnswer, SendLast, Put, DataOut, ToTerminal, TakeAnswer, StoreByte,
     StoreBlock, hostVars, IInv, HostInv

(* A character read by the program is one that arrives. *)
LEMMA ArriveStep ==
  ASSUME IInv, IInv', orderly, orderly', GetChar
  PROVE  T!Arrive \/ UNCHANGED <<xdata, delivered, xfate>>
<1>1. UNCHANGED <<xdata, xfate>> /\ xfate # "complete"
  BY DEF GetChar, hostVars, IInv, Session, EndInv
<1>2. CASE xcount = 0
  BY <1>1, <1>2 DEF GetChar
<1>3. CASE xcount # 0
  <2>1. xcount \in 1..BlkLen /\ delivered \in Seq(Byte) /\ delivered' \in Seq(Byte)
        /\ buf0[BlkLen - xcount] \in Byte
    BY <1>3 DEF IInv, TypeInv, TypeOK
  <2>2. delivered' = Append(delivered, buf0[BlkLen - xcount])
    BY <1>3 DEF GetChar
  <2>3. Len(delivered') = Len(delivered) + 1
        /\ \A i \in 1..Len(delivered) : delivered'[i] = delivered[i]
    BY <2>1, <2>2, AppendByte
  <2>4. T!Extends(delivered', delivered)
    BY <2>1, <2>3 DEF T!Extends
  <2>5. T!Arrived(delivered', xdata)
    BY <1>1 DEF IInv, Session, DataInv, Prefix, PadByte, T!Arrived
  <2>6. QED
    BY <1>1, <2>1, <2>4, <2>5 DEF T!Arrive
<1>4. QED
  BY <1>2, <1>3

(* XL and U begin a transfer, X breaks one off. *)
LEMMA OperatorSteps ==
  ASSUME IInv, IInv', orderly, orderly', Operator
  PROVE  T!Begin \/ T!Break \/ UNCHANGED <<xdata, delivered, xfate>>
<1>0. xdata' \in Seq(Byte)
  BY DEF IInv, TypeInv, TypeOK, HostTypeOK
<1>1. CASE XLoad
  <2>1. delivered' = <<>> /\ xfate' = "none"
    BY <1>1 DEF XLoad
  <2>2. QED
    BY <1>0, <2>1 DEF T!Begin
<1>2. CASE Upload
  <2>1. delivered' = <<>> /\ xfate' \in {"running", "cancelled"}
    BY <1>2 DEF Upload, CommandU, guestVars, Begins
  <2>2. QED
    BY <1>0, <2>1 DEF T!Begin
<1>3. CASE Cancel
  <2>1. xmstat # 0 /\ xfate' = "cancelled" /\ UNCHANGED <<xdata, delivered>>
    BY <1>3 DEF Cancel, CommandX, guestVars
  <2>2. xfate = "running"
    BY <2>1 DEF IInv, HostInv
  <2>3. QED
    BY <2>1, <2>2 DEF T!Break
<1>4. CASE Type
  BY <1>4 DEF Type, hostVars, guestVars
<1>5. QED
  BY <1>1, <1>2, <1>3, <1>4 DEF Operator

(* A step within an orderly session. *)
LEMMA OrderlySteps ==
  ASSUME IInv, IInv', orderly, orderly', Next
  PROVE  T!TNext \/ UNCHANGED <<xdata, delivered, xfate>>
<1>1. CASE SendAnswer \/ SendLast
  <2>1. CASE xfate = "running" /\ xfate' = "complete"
    <3>1. xmstat = 1
      BY <2>1 DEF IInv, HostInv
    <3>2. Len(delivered) >= Len(xdata)
      <4>1. Ended /\ xcount = 0
        BY <2>1, <3>1, EndStep
      <4>2. QED
        BY <4>1 DEF Ended, Accepted, IInv, TypeInv, TypeOK, HostTypeOK
    <3>3. QED
      BY <1>1, <2>1, <3>2, SendSteps DEF T!End, T!TNext
  <2>2. CASE xfate = "running" /\ xfate' = "cancelled"
    BY <1>1, <2>2, SendSteps DEF T!Break, T!TNext
  <2>3. QED
    BY <1>1, <2>1, <2>2, SendSteps
<1>2. CASE GetChar
  BY <1>2, ArriveStep DEF T!TNext
<1>3. CASE Operator
  BY <1>3, OperatorSteps DEF T!TNext
<1>4. CASE ~(SendAnswer \/ SendLast \/ GetChar \/ Operator)
  BY <1>4, QuietSteps, PollSteps DEF Next, Receive
<1>5. QED
  BY <1>1, <1>2, <1>3, <1>4

(* Loading implements the abstract transfer: whatever happens on the line, *)
(* the program's data grow as a prefix of the padded file, and a transfer  *)
(* that ends as complete leaves nothing behind. A session that stops being *)
(* orderly is one broken off and left.                                     *)
THEOREM LoadImplementsTransfer == Spec => LoadTransfers
<1>1. Init => T!TInit
  BY DEF Init, HostInit, T!TInit
<1>2. IInv /\ IInv' /\ [Next]_vars => [T!TNext]_(T!tvars)
  <2> SUFFICES ASSUME IInv, IInv', [Next]_vars
               PROVE  T!TNext \/ UNCHANGED (T!tvars)
    OBVIOUS
  <2>0. orderly \in BOOLEAN /\ orderly' \in BOOLEAN /\ xdata' \in Seq(Byte)
    BY DEF IInv, TypeInv, TypeOK, HostTypeOK
  <2>1. CASE UNCHANGED vars
    BY <2>1 DEF vars, hostVars, guestVars, operator, T!tvars
  <2>2. CASE Next /\ ~orderly'
    <3>1. CASE ~orderly
      BY <2>2, <3>1 DEF T!tvars
    <3>2. CASE orderly
      BY <2>2, <3>2 DEF T!Begin, T!TNext
    <3>3. QED
      BY <3>1, <3>2
  <2>3. CASE Next /\ orderly /\ orderly'
    BY <2>3, OrderlySteps DEF T!tvars
  <2>4. CASE Next /\ ~orderly /\ orderly'
    <3>1. XLoad
      BY <2>4, OrderlyStep
    <3>2. delivered' = <<>> /\ xfate' = "none"
      BY <3>1 DEF XLoad
    <3>3. QED
      BY <2>0, <2>4, <3>2 DEF T!Begin, T!TNext
  <2>5. QED
    BY <2>0, <2>1, <2>2, <2>3, <2>4
<1>3. Spec => []IInv
  BY LoadInvariant
<1>4. QED
  BY <1>1, <1>2, <1>3, PTL DEF Spec, LoadTransfers, T!TSpec
=============================================================================
