--------------------------- MODULE XmodemLoadProps ---------------------------
(***************************************************************************)
(* What is claimed of loading a file (module XmodemLoad).                  *)
(***************************************************************************)
EXTENDS XmodemLoad

(* Every variable stays in its range; in particular xidx stays inside      *)
(* xmbuf and xptr and xcount inside buf0.                                  *)
TypeOK ==
    /\ HostTypeOK
    /\ pc \in {"idle", "getc", "sendack", "sendnak", "start", "num", "comp",
               "data", "sum", "purge", "eotack", "abpurge", "abort", "closein",
               "gobble"}
    /\ txrdy \in {0, 1}
    /\ left \in 0..CanCount
    /\ xmode \in {0, 2}
    /\ lastok \in {0, 1}
    /\ xpacknum \in Byte
    /\ xsum \in Byte
    /\ xcount \in 0..BlkLen
    /\ buf0 \in [0..BlkLen-1 -> Byte]
    /\ xptr \in 0..BlkLen
    /\ delivered \in Seq(Byte)
    /\ orderly \in BOOLEAN
    /\ ops \in [{"load", "upload", "cancel", "key"} -> Nat]

(* What the program has read is the beginning of the file, then zeros, for *)
(* less than a block: no byte is lost, repeated, swapped or taken from the *)
(* console or from the file of an earlier U, whatever is cancelled, typed  *)
(* or started again, in the middle of a block too, in an orderly session.  *)
Prefix == /\ Len(delivered) < Len(xdata) + BlkLen
          /\ \A i \in 1..Len(delivered) : delivered[i] = PadByte(xdata, i)
LoadPrefix == orderly => Prefix

(* The host and the monitor agree on where in the block they are: while a  *)
(* transfer runs, the character the monitor is about to read is the one it *)
(* takes it for. There is nothing in the protocol that would resynchronise *)
(* them inside a block; so after a U in the middle of one (acknak is NAK   *)
(* until the monitor asks) the host is silent, and the block ends by the   *)
(* monitor's timeout, never by what was left of it.                        *)
NextIndex == CASE pc = "num" -> 1
               [] pc = "comp" -> 2
               [] pc = "data" -> xptr + 3
               [] pc = "sum" -> Last
Together ==
    IF f = NoChar THEN xidx = NextIndex
    ELSE /\ f = xmbuf[NextIndex]
         /\ xidx = IF NextIndex = Last THEN 0 ELSE NextIndex + 1
InStep ==
    orderly /\ InBlock /\ xmstat = 1 =>
        IF acknak = NAK THEN ~HasChar /\ (pc = "sum" => f = NoChar)
                        ELSE Together

(* The FILE pointer that char_input reads from is open during a transfer   *)
(* and closed otherwise.                                                   *)
FileOpen == xfile = "open" <=> xmstat # 0

(* The host ends a transfer as complete only when the program has read the *)
(* whole file: an ACK left over from a block is never taken for that of    *)
(* the EOT.                                                                *)
EndComplete ==
    [][orderly /\ xfate = "running" /\ xfate' = "complete"
         => Len(delivered) >= Len(xdata)]_vars

(* Once started with a monitor that is listening, a transfer of a file     *)
(* that is not empty ends, unless the program stops reading, the session   *)
(* is no longer orderly or another U puts an empty file in its place.      *)
LoadEnds ==
    (orderly /\ xmstat = 1 /\ xdata # <<>> /\ pc \notin {"idle", "eotack"}) ~>
        (\/ xmstat = 0 \/ pc \in {"closein", "gobble"}
         \/ ~orderly \/ xdata = <<>>)

(* Loading implements the abstract transfer: the file is the source, what  *)
(* the program has read is what has arrived. A session that is not orderly *)
(* counts as broken off.                                                   *)
T == INSTANCE Transfer WITH Data <- Byte, Unit <- BlkLen, Fill <- 0,
        src <- IF orderly THEN xdata ELSE <<>>,
        dst <- IF orderly THEN delivered ELSE <<>>,
        fate <- IF orderly THEN xfate ELSE "cancelled"
LoadTransfers == T!TSpec

(* "Was it the previous block" (monitor.asm:1194): a block numbered one    *)
(* less than expected, with the right complement, is read to its end.      *)
PreviousBlockRead ==
    [][pc = "comp" /\ lastok = 1 /\ f # NoChar /\ f' = NoChar
         /\ Inc(Comp(f)) = xpacknum
         => pc' = "data"]_vars

(* "O.S. routine to close input through XMODEM, by gobbling up the         *)
(* remaining bytes" (monitor.asm:1324): xclsin ends.                       *)
CloseInEnds == (pc = "closein") ~> (pc = "idle")
=============================================================================
