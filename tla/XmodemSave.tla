----------------------------- MODULE XmodemSave -----------------------------
(***************************************************************************)
(* Saving memory of the simulated machine to a file: the guest's monitor   *)
(* sends (src/src/monitor.asm, xopout, xputc, xsendbuf, xclsout and the XS *)
(* command's loop), the host end of XmodemHost receives (command D).       *)
(*                                                                         *)
(* As in XmodemLoad a step of the guest is the code from one access of the *)
(* ACIA to the next, named by pc. The guest has no timeouts here: osgetc   *)
(* polls until a character comes.                                          *)
(***************************************************************************)
EXTENDS XmodemHost

CONSTANTS
    Memories,   \* what the program may have to save
    Filler,     \* the character that fills the last block
    Keys,       \* the characters the operator may type
    MaxSaves, MaxDownloads, MaxCancels, MaxKeys     \* bounds on the operator

ASSUME MemoriesAssumption == Memories \subseteq Seq(Byte)
ASSUME FillerAssumption == Filler \in Byte
ASSUME KeysAssumption == Keys \subseteq Byte
ASSUME OperatorAssumption == /\ MaxSaves \in Nat /\ MaxDownloads \in Nat
                             /\ MaxCancels \in Nat /\ MaxKeys \in Nat

VARIABLES
    pc,
    txrdy,      \* osputc has seen the transmitter ready
    xmode,      \* 0 none, 1 out
    xpacknum,   \* number of the block being sent
    xsum,       \* its running sum
    xcount,     \* characters of buf0 that are filled
    buf0,       \* the block being filled or sent
    sidx,       \* how many characters of the frame have been sent
    ret,        \* where xputc returns to: the program or xclsloop
    fill,       \* filler characters still to be put (register A of xclsloop)
    todo,       \* what the program has yet to put
    sent,       \* history: what has been given to xputc
    inStep,     \* history: the last D was given when the monitor waited for it
    ops         \* how often the operator did each thing

guestVars == <<pc, txrdy, xmode, xpacknum, xsum, xcount, buf0, sidx, ret, fill,
               todo, sent>>
operator == <<inStep, ops>>
vars == <<hostVars, f, kbd, guestVars, operator>>

Reading == pc \in {"idle", "waitnak", "waitack", "waitack2"}
Writing == pc \in {"send", "eot"}

Goto(l) == pc' = l

-----------------------------------------------------------------------------
(* Access to the ACIA, as in XmodemLoad but without a timeout. *)

Poll == /\ Reading
        /\ Fetch
        /\ UNCHANGED <<guestVars, operator>>

Got(c) == f = c /\ c # NoChar /\ f' = NoChar /\ UNCHANGED <<hostVars, kbd>>

StatusRead ==
    /\ Writing /\ txrdy = 0
    /\ txrdy' = 1
    /\ IF f = NoChar /\ HasChar THEN Fetch ELSE UNCHANGED <<hostVars, f, kbd>>
    /\ UNCHANGED <<pc, xmode, xpacknum, xsum, xcount, buf0, sidx, ret, fill,
                   todo, sent, operator>>

Put(c) == txrdy = 1 /\ txrdy' = 0 /\ DataOut(c) /\ UNCHANGED <<f, kbd>>

-----------------------------------------------------------------------------
(* xsendinit: wait for the receiver's NAK. A CAN ends in xerror. *)
SendInit ==
    /\ pc = "waitnak"
    /\ \E c \in Byte :
          /\ Got(c)
          /\ \/ c = CAN /\ Goto("idle") /\ UNCHANGED <<xmode, xcount>>
             \/ c = NAK /\ Goto("prog") /\ xmode' = 1 /\ xcount' = 0
             \/ c \notin {CAN, NAK} /\ UNCHANGED <<pc, xmode, xcount>>
    /\ UNCHANGED <<txrdy, xpacknum, xsum, buf0, sidx, ret, fill, todo, sent,
                   operator>>

(* Mutant: the block is full one character later. *)
XPutCLate(c, caller) ==
    /\ buf0' = [buf0 EXCEPT ![xcount] = c]
    /\ sent' = Append(sent, c)
    /\ IF xcount = BlkLen
         THEN xcount' = 0 /\ Goto("send") /\ sidx' = 0 /\ ret' = caller
         ELSE xcount' = xcount + 1 /\ Goto(caller) /\ UNCHANGED <<sidx, ret>>

(* xputc: store a character; a full block is sent before xputc returns.    *)
XPutC(c, caller) ==
    /\ buf0' = [buf0 EXCEPT ![xcount] = c]
    /\ sent' = Append(sent, c)
    /\ IF xcount = BlkLen - 1
         THEN /\ xcount' = 0
              /\ Goto("send") /\ sidx' = 0 /\ ret' = caller
         ELSE xcount' = xcount + 1 /\ Goto(caller) /\ UNCHANGED <<sidx, ret>>

(* The program puts what it has to save, then closes the output. *)
PutChar ==
    /\ pc = "prog" /\ todo # <<>>
    /\ XPutC(Head(todo), "prog")
    /\ todo' = Tail(todo)
    /\ UNCHANGED <<hostVars, f, kbd, txrdy, xmode, xpacknum, xsum, fill,
                   operator>>

(* xclsout: fill the last block, if one was begun, then send EOT.          *)
XCloseOut ==
    /\ pc = "prog" /\ todo = <<>>
    /\ IF xcount = 0 THEN Goto("eot") /\ UNCHANGED fill
                     ELSE Goto("fill") /\ fill' = BlkLen - xcount
    /\ UNCHANGED <<hostVars, f, kbd, txrdy, xmode, xpacknum, xsum, xcount,
                   buf0, sidx, ret, todo, sent, operator>>

XClsLoop ==
    /\ pc = "fill"
    /\ IF fill = 0
         THEN /\ Goto("eot")
              /\ UNCHANGED <<fill, xcount, buf0, sidx, ret, sent>>
         ELSE XPutC(Filler, "fill") /\ fill' = fill - 1
    /\ UNCHANGED <<hostVars, f, kbd, txrdy, xmode, xpacknum, xsum, todo,
                   operator>>

(* xsendbuf: the frame, character by character. *)
FrameChar == CASE sidx = 0 -> SOH
               [] sidx = 1 -> xpacknum
               [] sidx = 2 -> Comp(xpacknum)
               [] sidx \in 3..BlkLen+2 -> buf0[sidx - 3]
               [] sidx = Last -> xsum

SendBuf ==
    /\ pc = "send"
    /\ Put(FrameChar)
    /\ xsum' = CASE sidx < 3 -> 0
                 [] sidx \in 3..BlkLen+2 -> (xsum + buf0[sidx - 3]) % ByteMod
                 [] sidx = Last -> xsum
    /\ IF sidx = Last THEN Goto("waitack") /\ sidx' = 0
                      ELSE sidx' = sidx + 1 /\ UNCHANGED pc
    /\ UNCHANGED <<xmode, xpacknum, xcount, buf0, ret, fill, todo, sent,
                   operator>>

(* Mutant: the block number also moves on when the block is sent again. *)
WaitAckCounts ==
    /\ pc = "waitack"
    /\ \E c \in Byte :
          /\ Got(c)
          /\ \/ c = CAN /\ Goto("idle") /\ xmode' = 0 /\ UNCHANGED xpacknum
             \/ c \in {NAK, ACK} /\ Goto(IF c = NAK THEN "send" ELSE ret)
                /\ xpacknum' = Inc(xpacknum) /\ UNCHANGED xmode
             \/ c \notin {CAN, NAK, ACK} /\ UNCHANGED <<pc, xmode, xpacknum>>
    /\ UNCHANGED <<txrdy, xsum, xcount, buf0, sidx, ret, fill, todo, sent,
                   operator>>

(* waitack: CAN ends in xerror, NAK sends the block again. *)
WaitAck ==
    /\ pc = "waitack"
    /\ \E c \in Byte :
          /\ Got(c)
          /\ \/ c = CAN /\ Goto("idle") /\ xmode' = 0 /\ UNCHANGED xpacknum
             \/ c = NAK /\ Goto("send") /\ UNCHANGED <<xmode, xpacknum>>
             \/ c = ACK /\ Goto(ret) /\ xpacknum' = Inc(xpacknum)
                /\ UNCHANGED xmode
             \/ c \notin {CAN, NAK, ACK} /\ UNCHANGED <<pc, xmode, xpacknum>>
    /\ UNCHANGED <<txrdy, xsum, xcount, buf0, sidx, ret, fill, todo, sent,
                   operator>>

(* xsendeot. *)
SendEotChar ==
    /\ pc = "eot"
    /\ Put(EOT)
    /\ Goto("waitack2")
    /\ UNCHANGED <<xmode, xpacknum, xsum, xcount, buf0, sidx, ret, fill, todo,
                   sent, operator>>

WaitAck2 ==
    /\ pc = "waitack2"
    /\ \E c \in Byte :
          /\ Got(c)
          /\ \/ c \in {CAN, ACK} /\ Goto("idle") /\ xmode' = 0
             \/ c = NAK /\ Goto("eot") /\ UNCHANGED xmode
             \/ c \notin {CAN, NAK, ACK} /\ UNCHANGED <<pc, xmode>>
    /\ UNCHANGED <<txrdy, xpacknum, xsum, xcount, buf0, sidx, ret, fill, todo,
                   sent, operator>>

(* Back at the prompt: getline ignores control characters. *)
CmdLine ==
    /\ pc = "idle"
    /\ \E c \in Byte : Got(c)
    /\ UNCHANGED <<guestVars, operator>>

-----------------------------------------------------------------------------
(* The operator. *)

May(op, max) == ops[op] < max /\ ops' = [ops EXCEPT ![op] = @ + 1]

(* XS typed at the monitor's prompt; xopout, up to xsendinit's first read. *)
XSave ==
    /\ pc = "idle" /\ xmstat = 0
    /\ May("save", MaxSaves)
    /\ \E m \in Memories : todo' = m
    /\ Goto("waitnak")
    /\ xpacknum' = 1 /\ sent' = <<>> /\ xfate' = "none" /\ inStep' = TRUE
    /\ f' = NoChar /\ kbd' = <<>>
    /\ UNCHANGED <<xmstat, xfile, xdata, xpos, xmbuf, xidx, acknak, rcvdnak,
                   blocknum, txrdy, xmode, xsum, xcount, buf0, sidx, ret, fill>>

(* The monitor waits for D: no block is half sent, and none has been       *)
(* acknowledged or is about to be.                                         *)
Quiet == /\ ~(pc = "send" /\ sidx # 0) /\ f # ACK
         /\ xpacknum = 1 /\ Len(sent) <= BlkLen

(* D is taken at any time, also during a transfer, whose file it closes.   *)
Download ==
    /\ May("download", MaxDownloads)
    /\ \E opened \in BOOLEAN : CommandD(opened)
    /\ inStep' = Quiet
    /\ UNCHANGED guestVars

Cancel ==
    /\ May("cancel", MaxCancels)
    /\ CommandX
    /\ UNCHANGED <<guestVars, inStep>>

Type ==
    /\ pc # "idle"
    /\ May("key", MaxKeys)
    /\ \E c \in Keys : kbd' = Append(kbd, c)
    /\ UNCHANGED <<hostVars, f, guestVars, inStep>>

-----------------------------------------------------------------------------
Init ==
    /\ HostInit
    /\ pc = "idle" /\ txrdy = 0 /\ xmode = 0
    /\ xpacknum = 0 /\ xsum = 0 /\ xcount = 0
    /\ buf0 = [i \in 0..BlkLen-1 |-> 0] /\ sidx = 0
    /\ ret = "prog" /\ fill = 0
    /\ todo = <<>> /\ sent = <<>>
    /\ inStep = TRUE
    /\ ops = [save |-> 0, download |-> 0, cancel |-> 0, key |-> 0]

Guest == \/ Poll \/ StatusRead \/ SendInit \/ PutChar \/ XCloseOut \/ XClsLoop
         \/ SendBuf \/ WaitAck \/ SendEotChar \/ WaitAck2 \/ CmdLine
Operator == XSave \/ Download \/ Cancel \/ Type

Next == Guest \/ Operator

Spec == Init /\ [][Next]_vars

(* The simulator interprets the guest without pause. *)
FairSpec == Spec /\ WF_vars(Guest)
=============================================================================
