------------------------------ MODULE HostFile ------------------------------
(***************************************************************************)
(* The host's files as the disk controller uses them: lseek followed by    *)
(* read or write, which transfer what there is and extend what there is    *)
(* not. Positions count from 0.                                            *)
(***************************************************************************)
EXTENDS Integers, Sequences

CONSTANT Blank                    \* the byte in the gap a write leaves behind

(* read: the bytes of image from pos on, n of them if there are so many.   *)
ReadAt(image, pos, n) ==
    SubSeq(image, pos + 1, IF pos + n < Len(image) THEN pos + n ELSE Len(image))

(* write: image with bytes from pos on.                                    *)
WriteAt(image, pos, bytes) ==
    LET end == pos + Len(bytes)
        At(i) == CASE i \in pos + 1..end -> bytes[i - pos]
                   [] i \notin pos + 1..end /\ i <= Len(image) -> image[i]
                   [] OTHER -> Blank
    IN  [i \in 1..(IF Len(image) < end THEN end ELSE Len(image)) |-> At(i)]

(* A memory with bytes from at on, and the n bytes it has there.           *)
Put(memory, at, bytes) ==
    [p \in DOMAIN memory |->
        IF p - at \in 0..Len(bytes)-1 THEN bytes[p - at + 1] ELSE memory[p]]
Taken(memory, at, n) == [i \in 1..n |-> memory[at + i - 1]]
=============================================================================
