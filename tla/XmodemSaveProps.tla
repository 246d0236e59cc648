--------------------------- MODULE XmodemSaveProps ---------------------------
(***************************************************************************)
(* What is claimed of saving memory to a file (module XmodemSave). All but *)
(* the types is claimed of a transfer whose D came in step (inStep): with  *)
(* a D in the middle of a block, or after one has been acknowledged, the   *)
(* host counts its blocks and characters from a place that is not the      *)
(* monitor's, nothing in the protocol tells either, and the file may lack  *)
(* blocks or hold a shifted one.                                           *)
(***************************************************************************)
EXTENDS XmodemSave

(* Every variable stays in its range; in particular xidx stays inside      *)
(* xmbuf and xcount inside buf0.                                           *)
TypeOK ==
    /\ HostTypeOK
    /\ pc \in {"idle", "waitnak", "prog", "fill", "send", "waitack", "eot",
               "waitack2"}
    /\ txrdy \in {0, 1}
    /\ xmode \in {0, 1}
    /\ xpacknum \in Byte
    /\ xsum \in Byte
    /\ xcount \in 0..BlkLen-1
    /\ buf0 \in [0..BlkLen-1 -> Byte]
    /\ sidx \in Frame
    /\ ret \in {"prog", "fill"}
    /\ fill \in 0..BlkLen
    /\ todo \in Seq(Byte)
    /\ sent \in Seq(Byte)
    /\ inStep \in BOOLEAN
    /\ ops \in [{"save", "download", "cancel", "key"} -> Nat]

(* In step, the file holds the beginning of what was put, each block once  *)
(* and in order, although a NAK typed before D, or D's own NAK arriving    *)
(* late, makes the monitor send a block again.                             *)
SavePrefix ==
    inStep /\ xfate # "none" =>
        /\ Len(xdata) <= Len(sent)
        /\ \A i \in 1..Len(xdata) : xdata[i] = sent[i]

(* In step, what the monitor takes as acknowledged is in the file: all     *)
(* that was put but the block it is filling or sending. The answer it      *)
(* reads may be one to an earlier copy of the block.                       *)
Unacknowledged == IF pc \in {"send", "waitack"} THEN BlkLen ELSE xcount
AckedWritten ==
    inStep /\ xmstat = 2 /\ xmode = 1
        => Len(sent) - Unacknowledged <= Len(xdata)

(* In step, the host is never waiting for the monitor while the monitor,   *)
(* which has no timeouts, waits for the host.                              *)
NotBothWaiting ==
    ~(/\ inStep /\ xmstat = 2 /\ acknak = 0
      /\ pc \in {"waitnak", "waitack", "waitack2"} /\ f = NoChar)

(* In step, the host closes the file as complete only when it holds        *)
(* everything put.                                                         *)
EndComplete ==
    [][inStep /\ xfate = "running" /\ xfate' = "complete" => xdata = sent]_vars

(* Once started in step, with a monitor that has not been told to cancel,  *)
(* a transfer ends, unless another D puts the host out of step.            *)
SaveEnds == (inStep /\ xmstat = 2 /\ pc # "idle" /\ f # CAN) ~>
                (xmstat = 0 \/ ~inStep)

(* Saving implements the abstract transfer: what was put is the source,    *)
(* the file is what has arrived. A transfer out of step counts as broken   *)
(* off.                                                                    *)
T == INSTANCE Transfer WITH Data <- Byte, Unit <- BlkLen, Fill <- 0,
        src <- sent, dst <- IF inStep /\ xfate # "none" THEN xdata ELSE <<>>,
        fate <- IF inStep THEN xfate ELSE "cancelled"
SaveTransfers == T!TSpec
=============================================================================
