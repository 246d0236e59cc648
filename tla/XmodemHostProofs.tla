-------------------------- MODULE XmodemHostProofs --------------------------
(***************************************************************************)
(* Lemmas about the host end of the XMODEM transfers (module XmodemHost):  *)
(* what its frames hold, and that its operations keep its registers in     *)
(* their ranges. They serve the proofs about loading and about saving.     *)
(***************************************************************************)
EXTENDS XmodemHost, TLAPS

USE ByteModAssumption, BlkLenAssumption, ControlsAssumption

(* Arithmetic modulo ByteMod stays in a byte. *)
LEMMA ModByte == \A n \in Nat : n % ByteMod \in Byte
  BY DEF Byte

LEMMA SumByte == \A m, n \in Byte : (m + n) % ByteMod \in Byte
  BY ModByte DEF Byte

LEMMA IncByte == \A n \in Byte : Inc(n) \in Byte
  BY ModByte DEF Inc, Byte

LEMMA CompByte == \A n \in Byte : Comp(n) \in Byte
  BY DEF Comp, Byte

(* The control characters are bytes other than 0, and none is NoChar. *)
LEMMA ControlBytes ==
  /\ NoChar \notin Byte /\ 0 \in Byte
  /\ \A c \in {SOH, EOT, ACK, NAK, CAN} : c \in Byte /\ c # 0 /\ c # NoChar
  /\ SOH # NoChar /\ EOT # NoChar /\ ACK # NoChar /\ NAK # NoChar
  BY DEF Byte, NoChar, Controls

(* What Append does to a sequence of bytes. *)
LEMMA AppendByte ==
  ASSUME NEW s \in Seq(Byte), NEW c \in Byte
  PROVE  /\ Append(s, c) \in Seq(Byte)
         /\ Len(Append(s, c)) = Len(s) + 1
         /\ \A i \in 1..Len(s) : Append(s, c)[i] = s[i]
         /\ Append(s, c)[Len(s) + 1] = c
  OBVIOUS

(* A padded chunk of a file consists of bytes. *)
LEMMA ChunkType ==
  ASSUME NEW s \in Seq(Byte), NEW p \in Nat
  PROVE  /\ Chunk(s, p) \in [1..BlkLen -> Byte]
         /\ \A i \in 1..BlkLen : Chunk(s, p)[i] = PadByte(s, p + i)
<1>1. \A i \in Nat \ {0} : PadByte(s, i) \in Byte
  BY DEF PadByte, Byte
<1>2. QED
  BY <1>1 DEF Chunk

(* What a frame holds. *)
LEMMA FramedType ==
  ASSUME NEW n \in Byte, NEW d \in [1..BlkLen -> Byte]
  PROVE  /\ Framed(n, d) \in [Frame -> Byte \cup CheckSums]
         /\ \A i \in Frame \ {Last} : Framed(n, d)[i] \in Byte
         /\ Framed(n, d)[0] = SOH
         /\ Framed(n, d)[1] = n
         /\ \A i \in 1..BlkLen : Framed(n, d)[i + 2] = d[i]
<1> DEFINE F == Framed(n, d)
<1>1. CheckSum(d) \in CheckSums
  BY DEF CheckSums
<1>2. F[0] = SOH /\ F[1] = n /\ F[2] = Comp(n) /\ F[Last] = CheckSum(d)
  BY DEF Framed, Frame, Last
<1>3. \A i \in 3..BlkLen+2 : F[i] = d[i - 2]
  BY DEF Framed, Frame, Last
<1>4. \A i \in Frame : i = 0 \/ i = 1 \/ i = 2 \/ i \in 3..BlkLen+2 \/ i = Last
  BY DEF Frame, Last
<1>5. Comp(n) \in Byte /\ SOH \in Byte
  BY CompByte DEF Controls
<1>6. \A i \in 3..BlkLen+2 : F[i] \in Byte
  BY <1>3
<1>7. \A i \in 1..BlkLen : F[i + 2] = d[i]
  BY <1>3
<1>8. F \in [Frame -> Byte \cup CheckSums]
  <2>1. \A i \in Frame : F[i] \in Byte \cup CheckSums
    BY <1>1, <1>2, <1>4, <1>5, <1>6
  <2>2. QED
    BY <2>1, Zenon DEF Framed
<1>9. \A i \in Frame \ {Last} : F[i] \in Byte
  BY <1>2, <1>4, <1>5, <1>6
<1>10. QED
  BY <1>2, <1>7, <1>8, <1>9

-----------------------------------------------------------------------------
(* A fetch keeps the types, and yields what one of char_input's cases does. *)
LEMMA FetchType ==
  ASSUME HostTypeOK, Fetch
  PROVE  HostTypeOK'
<1> USE DEF HostTypeOK
<1> PICK c \in Byte : CharInput(c) /\ f' = c
  BY DEF Fetch
<1>1. CASE ConsoleChar(c)
  BY <1>1 DEF ConsoleChar, hostVars
<1>2. CASE SendNext(c)
  BY <1>2 DEF SendNext, Frame, Last, Controls
<1>3. CASE SendBlock(c)
  <2>1. Chunk(xdata, xpos) \in [1..BlkLen -> Byte]
    BY ChunkType
  <2>2. xmbuf' \in [Frame -> Byte \cup CheckSums]
        /\ \A i \in Frame \ {Last} : xmbuf'[i] \in Byte
    BY <1>3, <2>1, FramedType DEF SendBlock
  <2>3. blocknum' \in Byte
    BY <1>3, IncByte DEF SendBlock
  <2>4. QED
    BY <1>3, <2>2, <2>3, SMTT(20) DEF SendBlock, Frame, Last, Byte, Controls
<1>4. CASE SendEot(c)
  BY <1>4 DEF SendEot, ZeroBuf, Frame, Last, Byte, Controls
<1>5. CASE Resend(c)
  BY <1>5 DEF Resend, Frame, Last, Byte
<1>6. CASE ReplyEot(c)
  BY <1>6 DEF ReplyEot
<1>7. CASE Reply(c)
  BY <1>7 DEF Reply
<1>8. QED
  BY <1>1, <1>2, <1>3, <1>4, <1>5, <1>6, <1>7 DEF CharInput

(* So does a character written to the ACIA. *)
LEMMA DataOutType ==
  ASSUME HostTypeOK, NEW c \in Byte, DataOut(c), UNCHANGED <<f, kbd>>
  PROVE  HostTypeOK'
<1> USE DEF HostTypeOK
<1>1. CASE ToTerminal(c)
  BY <1>1 DEF ToTerminal, hostVars
<1>2. CASE TakeAnswer(c)
  BY <1>2 DEF TakeAnswer
<1>3. CASE StoreByte(c)
  BY <1>3 DEF StoreByte, Frame, Last
<1>4. CASE StoreBlock(c)
  <2>1. DataOf(xmbuf) \in Seq(Byte)
    <3>1. \A i \in 1..BlkLen : xmbuf[i + 2] \in Byte
      BY DEF Frame, Last
    <3>2. QED
      BY <3>1 DEF DataOf
  <2>2. blocknum' \in Byte
    BY <1>4, IncByte DEF StoreBlock
  <2>5. xdata' \in Seq(Byte)
    <3>1. CASE blocknum = xmbuf[1]
      <4> DEFINE d == DataOf(xmbuf)
      <4>1. d \in Seq(Byte) /\ xdata' = xdata \o d
        BY <1>4, <2>1, <3>1 DEF StoreBlock
      <4> HIDE DEF d
      <4>2. QED
        BY <4>1
    <3>2. CASE blocknum # xmbuf[1]
      BY <1>4, <3>2 DEF StoreBlock
    <3>3. QED
      BY <3>1, <3>2
  <2>3. xmbuf' \in [Frame -> Byte \cup CheckSums]
        /\ \A i \in Frame \ {Last} : xmbuf'[i] \in Byte
    BY <1>4 DEF StoreBlock, Frame, Last
  <2>4. QED
    BY <1>4, <2>2, <2>3, <2>5 DEF StoreBlock, Frame, Last
<1>5. QED
  BY <1>1, <1>2, <1>3, <1>4 DEF DataOut

(* And the debugger's commands. *)
LEMMA CommandType ==
  ASSUME HostTypeOK
  PROVE  /\ CommandX => HostTypeOK'
         /\ \A s \in Seq(Byte) : CommandU(TRUE, s) => HostTypeOK'
         /\ \A s \in Seq(Byte) : CommandU(FALSE, s) => HostTypeOK'
         /\ CommandD(TRUE) => HostTypeOK'
         /\ CommandD(FALSE) => HostTypeOK'
<1> USE DEF HostTypeOK
<1>1. CommandX => HostTypeOK'
  BY DEF CommandX
<1>2. ASSUME NEW s \in Seq(Byte), CommandU(TRUE, s)
      PROVE  HostTypeOK'
  BY <1>2 DEF CommandU, Frame, Last, Byte
<1>3. ASSUME NEW s \in Seq(Byte), CommandU(FALSE, s)
      PROVE  HostTypeOK'
  BY <1>3 DEF CommandU, Frame, Last, Byte
<1>4. CommandD(TRUE) => HostTypeOK'
  BY DEF CommandD, Frame, Last, Byte
<1>5. CommandD(FALSE) => HostTypeOK'
  BY DEF CommandD, Frame, Last, Byte
<1>6. QED
  BY <1>1, <1>2, <1>3, <1>4, <1>5, Zenon
=============================================================================
