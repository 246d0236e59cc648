----------------------------- MODULE VdiskLines -----------------------------
(***************************************************************************)
(* Lines of text on the virtual disk (src/src/vdisk.c): OS-9 ends a line   *)
(* with CR, the host with LF. A character is a number, as in C; 0 ends a   *)
(* string of fgets.                                                        *)
(***************************************************************************)
EXTENDS Integers, Sequences

CONSTANTS Letters, MaxLine      \* bounds of the lines that are checked

CR == 13
LF == 10

ASSUME LetterAssumption == Letters \subseteq 1..255 \ {CR, LF} /\ MaxLine \in Nat

First(S, default) ==
    IF S = {} THEN default ELSE CHOOSE i \in S : \A j \in S : i <= j

(* I$WritLn: at most y characters, and the CR after them even when it is   *)
(* the one after the y-th. text: what is put to the host's file.           *)
WritLn(buf, y) ==
    LET n == First({i \in 0..y : i < Len(buf) /\ buf[i+1] = CR}, y)
        ends == n < Len(buf) /\ buf[n+1] = CR
    IN  [text |-> SubSeq(buf, 1, n) \o IF ends THEN <<LF>> ELSE <<>>,
         y |-> IF ends THEN n + 1 ELSE n]

(* Mutant: y is taken for the number of characters that fgets may read. *)
ReadLnLong(text, y) ==
    [b |-> 0, y |-> y, buf |-> SubSeq(text, 1, y), rest |-> SubSeq(text, y + 1, Len(text))]

(* I$ReadLn: fgets takes at most y-1 characters, up to LF; y is corrected  *)
(* only when the LF was reached. At the end of the file B stays 0xff: the  *)
(* test for it stands where it cannot be met.                              *)
ReadLn(text, y) ==
    LET n == First({i \in 1..Len(text) : text[i] = LF \/ i = y - 1}, Len(text))
        taken == SubSeq(text, 1, n)
        shown == First({i \in 0..n-1 : taken[i+1] = 0}, n)
        ends == shown > 0 /\ taken[shown] = LF
    IN  IF y = 0 \/ (n = 0 /\ y > 1)
          THEN [b |-> 255, y |-> y, buf |-> <<>>, rest |-> text]
        ELSE IF y = 1
          THEN [b |-> 0, y |-> 1, buf |-> <<0>>, rest |-> text]
        ELSE [b |-> 0, y |-> IF ends THEN shown ELSE y,
              buf |-> IF ends THEN [taken EXCEPT ![shown] = CR] ELSE taken \o <<0>>,
              rest |-> SubSeq(text, n + 1, Len(text))]

Lines == UNION {[1..n -> Letters] : n \in 0..MaxLine}
=============================================================================
