------------------------------ MODULE Transfer ------------------------------
(***************************************************************************)
(* What an XMODEM transfer promises, whichever end sends: what has arrived *)
(* is the beginning of what was sent, padded to whole blocks with Fill,    *)
(* and a transfer that ends as complete has left nothing behind. A         *)
(* transfer may be broken off at any time.                                 *)
(***************************************************************************)
EXTENDS Integers, Sequences

CONSTANTS Data, Unit, Fill      \* Unit: the length of a block

VARIABLES src, dst, fate

tvars == <<src, dst, fate>>

Fates == {"none", "running", "complete", "cancelled"}

Arrived(d, s) ==
    /\ Len(d) < Len(s) + Unit
    /\ \A i \in 1..Len(d) : d[i] = IF i <= Len(s) THEN s[i] ELSE Fill

Extends(t, s) == Len(s) <= Len(t) /\ \A i \in 1..Len(s) : t[i] = s[i]

TInit == fate = "none" /\ src = <<>> /\ dst = <<>>

(* A new session: the receiver has nothing yet, and the sender whatever it *)
(* will send. A transfer that was running is given up for it.              *)
Begin == /\ fate' \in {"none", "running", "cancelled"}
         /\ dst' = <<>>
         /\ src' \in Seq(Data)

Supply == /\ fate # "complete"
          /\ src' \in Seq(Data) /\ Extends(src', src)
          /\ UNCHANGED <<dst, fate>>

Arrive == /\ fate # "complete"
          /\ dst' \in Seq(Data) /\ Extends(dst', dst) /\ Arrived(dst', src)
          /\ UNCHANGED <<src, fate>>

End == /\ fate = "running" /\ fate' = "complete"
       /\ Len(dst) >= Len(src)
       /\ UNCHANGED <<src, dst>>

Break == /\ fate = "running" /\ fate' = "cancelled"
         /\ UNCHANGED <<src, dst>>

TNext == Begin \/ Supply \/ Arrive \/ End \/ Break

TSpec == TInit /\ [][TNext]_tvars
=============================================================================
