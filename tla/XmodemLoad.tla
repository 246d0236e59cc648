----------------------------- MODULE XmodemLoad -----------------------------
(***************************************************************************)
(* Loading a file into the simulated machine: the host end of XmodemHost   *)
(* sends (command U), the guest's monitor receives (src/src/monitor.asm,   *)
(* xopin, xgetc, xrcvbuf and the XL command's loop).                       *)
(*                                                                         *)
(* A step of the guest is the code from one access of the ACIA to the      *)
(* next; commands of the operator and keystrokes come between any two.     *)
(* pc names the access the guest is about to make.                         *)
(***************************************************************************)
EXTENDS XmodemHost

CONSTANTS
    Files,      \* the contents of the files the operator may send
    Keys,       \* the characters the operator may type
    MaxLoads, MaxUploads, MaxCancels, MaxKeys,  \* bounds on the operator
    UsesClose   \* whether the program may call xclosein

ASSUME FilesAssumption == Files \subseteq Seq(Byte)
ASSUME KeysAssumption == Keys \subseteq Byte
ASSUME OperatorAssumption == /\ MaxLoads \in Nat /\ MaxUploads \in Nat
                             /\ MaxCancels \in Nat /\ MaxKeys \in Nat
                             /\ UsesClose \in BOOLEAN

VARIABLES
    pc,
    txrdy,      \* osputc has seen the transmitter ready
    left,       \* how many ACKs or CANs are still to be sent
    xmode,      \* 0 none, 2 in
    lastok,     \* the last block received was OK
    xpacknum,   \* number of the block expected
    xsum,       \* the number being checked, then the running sum
    xcount,     \* characters of buf0 not yet given to the program
    buf0,       \* the block being received
    xptr,       \* how many of its bytes are stored (register X)
    delivered,  \* history: what getchar has returned to the program
    orderly,    \* history: the operator has kept to Begins and Quiet below
    ops         \* how often the operator did each thing

guestVars == <<pc, txrdy, left, xmode, lastok, xpacknum, xsum, xcount, buf0,
               xptr, delivered>>
operator == <<orderly, ops>>
vars == <<hostVars, f, kbd, guestVars, operator>>

AckCount == 3
CanCount == 8

(* In the middle of a block, waiting for a character, about to send. *)
InBlock == pc \in {"num", "comp", "data", "sum"}
Reading == InBlock \/ pc \in {"start", "purge", "abpurge"}
Writing == pc \in {"sendack", "sendnak", "eotack", "abort"}

-----------------------------------------------------------------------------
(* The guest reads: osgetpoll and osgetc, under gettimeout. *)

(* gt1: poll. A poll that finds nothing changes nothing. *)
Poll == /\ Reading
        /\ Fetch
        /\ UNCHANGED <<guestVars, operator>>

(* gtexit: the character that a poll has found is read. *)
Got(c) == f = c /\ c # NoChar /\ f' = NoChar /\ UNCHANGED <<hostVars, kbd>>

(* The timer has reached the value gettimeout waits for, and no poll since *)
(* has found a character.                                                  *)
TimedOut == f = NoChar /\ ~HasChar /\ UNCHANGED <<hostVars, f, kbd>>

Goto(l) == pc' = l

(* xrcvbuf, startblock: the first character of a block. *)
RcvStart ==
    /\ pc = "start"
    /\ \/ \E c \in Byte :
             /\ Got(c)
             /\ \/ c = EOT /\ Goto("eotack") /\ left' = AckCount
                \/ c = SOH /\ Goto("num") /\ UNCHANGED left
                \/ c \notin {SOH, EOT} /\ Goto("purge") /\ UNCHANGED left
       \/ TimedOut /\ Goto("sendnak") /\ UNCHANGED left
    /\ UNCHANGED <<txrdy, xmode, lastok, xpacknum, xsum, xcount, buf0, xptr,
                   delivered, operator>>

(* The block number: the one expected, or the one before it. Register B    *)
(* holds the number plus one when it is stored for a previous block.       *)
RcvNum ==
    /\ pc = "num"
    /\ \/ \E c \in Byte :
             /\ Got(c)
             /\ \/ /\ c = xpacknum
                   /\ Goto("comp") /\ xsum' = c /\ UNCHANGED lastok
                \/ /\ c # xpacknum /\ Inc(c) = xpacknum
                   /\ Goto("comp") /\ xsum' = Inc(c) /\ lastok' = 1
                \/ /\ c # xpacknum /\ Inc(c) # xpacknum
                   /\ Goto("purge") /\ UNCHANGED <<xsum, lastok>>
       \/ TimedOut /\ Goto("purge") /\ UNCHANGED <<xsum, lastok>>
    /\ UNCHANGED <<txrdy, left, xmode, xpacknum, xcount, buf0, xptr, delivered,
                   operator>>

RcvComp ==
    /\ pc = "comp"
    /\ \/ \E c \in Byte :
             /\ Got(c)
             /\ \/ Comp(c) = xsum /\ Goto("data") /\ xsum' = 0 /\ xptr' = 0
                \/ Comp(c) # xsum /\ Goto("purge") /\ UNCHANGED <<xsum, xptr>>
       \/ TimedOut /\ Goto("purge") /\ UNCHANGED <<xsum, xptr>>
    /\ UNCHANGED <<txrdy, left, xmode, lastok, xpacknum, xcount, buf0,
                   delivered, operator>>

RcvData ==
    /\ pc = "data"
    /\ \/ \E c \in Byte :
             /\ Got(c)
             /\ buf0' = [buf0 EXCEPT ![xptr] = c]
             /\ xptr' = xptr + 1
             /\ xsum' = (xsum + c) % ByteMod
             /\ Goto(IF xptr + 1 = BlkLen THEN "sum" ELSE "data")
       \/ TimedOut /\ Goto("purge") /\ UNCHANGED <<buf0, xptr, xsum>>
    /\ UNCHANGED <<txrdy, left, xmode, lastok, xpacknum, xcount, delivered,
                   operator>>

(* The check sum. A previous block is acknowledged and the next one read;  *)
(* the block expected goes to the program.                                 *)
RcvSum ==
    /\ pc = "sum"
    /\ \/ \E c \in Byte :
             /\ Got(c)
             /\ \/ /\ c # xsum
                   /\ Goto("purge") /\ UNCHANGED <<lastok, xpacknum, xcount>>
                \/ /\ c = xsum /\ lastok = 1
                   /\ Goto("sendack") /\ UNCHANGED <<lastok, xpacknum, xcount>>
                \/ /\ c = xsum /\ lastok = 0
                   /\ Goto("getc") /\ lastok' = 1
                   /\ xpacknum' = Inc(xpacknum) /\ xcount' = BlkLen
       \/ TimedOut /\ Goto("purge") /\ UNCHANGED <<lastok, xpacknum, xcount>>
    /\ UNCHANGED <<txrdy, left, xmode, xsum, buf0, xptr, delivered, operator>>

(* purge: characters are dropped until the line is quiet; then purgeit     *)
(* sends NAK, or xabtin its eight CANs.                                    *)
Purge ==
    /\ pc \in {"purge", "abpurge"}
    /\ \/ (\E c \in Byte : Got(c)) /\ UNCHANGED <<pc, left>>
       \/ /\ TimedOut
          /\ IF pc = "purge" THEN Goto("sendnak") /\ UNCHANGED left
                             ELSE Goto("abort") /\ left' = CanCount
    /\ UNCHANGED <<txrdy, xmode, lastok, xpacknum, xsum, xcount, buf0, xptr,
                   delivered, operator>>

-----------------------------------------------------------------------------
(* The guest writes: osputc waits for the status, then stores the data.    *)
(* The status read fetches a character like any other.                     *)

StatusRead ==
    /\ Writing /\ txrdy = 0
    /\ txrdy' = 1
    /\ IF f = NoChar /\ HasChar THEN Fetch ELSE UNCHANGED <<hostVars, f, kbd>>
    /\ UNCHANGED <<pc, left, xmode, lastok, xpacknum, xsum, xcount, buf0, xptr,
                   delivered, operator>>

Put(c) == txrdy = 1 /\ txrdy' = 0 /\ DataOut(c) /\ UNCHANGED <<f, kbd>>

SendAnswer ==
    /\ \/ pc = "sendack" /\ Put(ACK)
       \/ pc = "sendnak" /\ Put(NAK)
    /\ Goto("start") /\ lastok' = 0
    /\ UNCHANGED <<left, xmode, xpacknum, xsum, xcount, buf0, xptr, delivered,
                   operator>>

(* xrcveot sends three ACKs and xgetcterm ends the session; xabtin sends   *)
(* eight CANs and ends it.                                                 *)
SendLast ==
    /\ \/ pc = "eotack" /\ Put(ACK)
       \/ pc = "abort" /\ Put(CAN)
    /\ left' = left - 1
    /\ IF left = 1 THEN Goto("idle") /\ xmode' = 0 ELSE UNCHANGED <<pc, xmode>>
    /\ UNCHANGED <<lastok, xpacknum, xsum, xcount, buf0, xptr, delivered,
                   operator>>

-----------------------------------------------------------------------------
(* The program: XL's loop of getchar, or a program that gives up. *)

(* xgetc: the next character of buf0, or a new block. *)
GetChar ==
    /\ pc = "getc"
    /\ IF xcount = 0
         THEN /\ Goto(IF lastok = 1 THEN "sendack" ELSE "sendnak")
              /\ UNCHANGED <<xcount, delivered>>
         ELSE /\ delivered' = Append(delivered, buf0[BlkLen - xcount])
              /\ xcount' = xcount - 1
              /\ UNCHANGED pc
    /\ UNCHANGED <<hostVars, f, kbd, txrdy, left, xmode, lastok, xpacknum, xsum,
                   buf0, xptr, operator>>

(* xabtin, which the monitor calls for an unknown command or a bad S       *)
(* record among the characters received.                                   *)
XAbortIn ==
    /\ pc = "getc"
    /\ Goto("abpurge")
    /\ UNCHANGED <<hostVars, f, kbd, txrdy, left, xmode, lastok, xpacknum, xsum,
                   xcount, buf0, xptr, delivered, operator>>

(* xclsin: while xmode is 2, call putchar, which xopin has made a no-op.   *)
XCloseIn ==
    /\ UsesClose
    /\ \/ pc = "getc" /\ Goto("closein")
       \/ pc = "closein" /\ Goto(IF xmode = 2 THEN "gobble" ELSE "idle")
       \/ pc = "gobble" /\ Goto("closein")
    /\ UNCHANGED <<hostVars, f, kbd, txrdy, left, xmode, lastok, xpacknum, xsum,
                   xcount, buf0, xptr, delivered, operator>>

-----------------------------------------------------------------------------
(* The operator. *)

May(op, max) == ops[op] < max /\ ops' = [ops EXCEPT ![op] = @ + 1]

(* Nothing has begun that the guest has not seen the end of.               *)
Quiet == ~InBlock /\ f \notin {SOH, EOT}

(* U begins the session: XL is waiting, nothing has been accepted from     *)
(* another file, and what that file has left on the line cannot be taken   *)
(* for a block or for the end. What is broken off in a block times out.    *)
Begins ==
    /\ pc # "idle" /\ delivered = <<>> /\ xcount = 0
    /\ ~(pc = "sum" /\ f # NoChar)
    /\ f = EOT => Reading /\ pc # "start"

(* Mutant: a new session begins with what is left of the last one's block. *)
XLoadLeftover ==
    /\ pc = "idle" /\ xmstat = 0
    /\ May("load", MaxLoads)
    /\ Goto("getc")
    /\ xmode' = 2 /\ lastok' = 0 /\ xpacknum' = 1
    /\ delivered' = <<>> /\ xfate' = "none" /\ orderly' = TRUE
    /\ f' = NoChar /\ kbd' = <<>>
    /\ UNCHANGED <<xmstat, xfile, xdata, xpos, xmbuf, xidx, acknak, rcvdnak,
                   blocknum, xcount, txrdy, left, xsum, buf0, xptr>>

(* XL typed at the monitor's prompt. xopin starts the session. *)
XLoad ==
    /\ pc = "idle" /\ xmstat = 0
    /\ May("load", MaxLoads)
    /\ Goto("getc")
    /\ xmode' = 2 /\ lastok' = 0 /\ xcount' = 0 /\ xpacknum' = 1
    /\ delivered' = <<>> /\ xfate' = "none" /\ orderly' = TRUE
    /\ f' = NoChar /\ kbd' = <<>>
    /\ UNCHANGED <<xmstat, xfile, xdata, xpos, xmbuf, xidx, acknak, rcvdnak,
                   blocknum, txrdy, left, xsum, buf0, xptr>>

(* U is taken at any time, also during a transfer, whose file it closes.   *)
Upload ==
    /\ May("upload", MaxUploads)
    /\ \/ \E s \in Files : CommandU(TRUE, s)
       \/ CommandU(FALSE, <<>>)
    /\ orderly' = (orderly /\ Begins)
    /\ UNCHANGED guestVars

Cancel ==
    /\ May("cancel", MaxCancels)
    /\ CommandX
    /\ UNCHANGED <<guestVars, orderly>>

(* What is typed at the monitor's prompt is another command, or XL.        *)
Type ==
    /\ pc # "idle"
    /\ May("key", MaxKeys)
    /\ \E c \in Keys : /\ kbd' = Append(kbd, c)
                      /\ orderly' = (/\ orderly /\ c # SOH
                                     /\ xmstat = 1 \/ Quiet)
    /\ UNCHANGED <<hostVars, f, guestVars>>

-----------------------------------------------------------------------------
Init ==
    /\ HostInit
    /\ pc = "idle" /\ txrdy = 0 /\ left = 0 /\ xmode = 0
    /\ lastok = 0 /\ xpacknum = 0 /\ xsum = 0 /\ xcount = 0
    /\ buf0 = [i \in 0..BlkLen-1 |-> 0] /\ xptr = 0
    /\ delivered = <<>> /\ orderly = TRUE
    /\ ops = [load |-> 0, upload |-> 0, cancel |-> 0, key |-> 0]

Receive == \/ Poll \/ RcvStart \/ RcvNum \/ RcvComp \/ RcvData \/ RcvSum
           \/ Purge \/ StatusRead \/ SendAnswer \/ SendLast \/ GetChar
Program == XAbortIn \/ XCloseIn
Operator == XLoad \/ Upload \/ Cancel \/ Type

Next == Receive \/ Program \/ Operator

Spec == Init /\ [][Next]_vars

(* The simulator interprets the guest without pause, and its timer ticks:  *)
(* a step of the receiver that can be made is made.                        *)
FairSpec == Spec /\ WF_vars(Receive) /\ WF_vars(XCloseIn /\ pc # "getc")
=============================================================================
