---------------------------- MODULE VdiskProofs ----------------------------
(***************************************************************************)
(* The current directories and the open files of the virtual disk, for any *)
(* number of processes, path numbers, files and table entries, and lines   *)
(* of text of any length.                                                  *)
(***************************************************************************)
EXTENDS VdiskProps, TLAPS

-----------------------------------------------------------------------------
(* Lines of text. *)

LEMMA FirstIs ==
    ASSUME NEW S \in SUBSET Int, NEW default, NEW n \in S, \A j \in S : n <= j
    PROVE  First(S, default) = n
<1> DEFINE P(i) == \A j \in S : i <= j
<1>1. ASSUME NEW i \in S, P(i) PROVE i = n
  <2>1. i <= n /\ n <= i
    BY <1>1
  <2> QED BY <2>1
<1>2. P(n)
  OBVIOUS
<1>3. S # {}
  OBVIOUS
<1>4. (CHOOSE i \in S : P(i)) \in S /\ P(CHOOSE i \in S : P(i))
  BY <1>2, Zenon
<1>5. First(S, default) = CHOOSE i \in S : P(i)
  BY <1>3, Zenon DEF First
<1> QED BY <1>1, <1>4, <1>5, Zenon

(* One sequence after another.                                             *)
LEMMA Concat ==
    ASSUME NEW S, NEW s \in Seq(S), NEW t \in Seq(S)
    PROVE  /\ s \o t \in Seq(S)
           /\ Len(s \o t) = Len(s) + Len(t)
           /\ \A i \in 1..Len(s) : (s \o t)[i] = s[i]
           /\ \A i \in 1..Len(t) : (s \o t)[Len(s) + i] = t[i]
           /\ SubSeq(s \o t, 1, Len(s)) = s
           /\ SubSeq(s \o t, Len(s) + 1, Len(s) + Len(t)) = t
<1>1. /\ s \o t \in Seq(S) /\ Len(s) \in Nat /\ Len(t) \in Nat
      /\ Len(s \o t) = Len(s) + Len(t)
  OBVIOUS
<1>2. \A i \in 1..Len(s) : (s \o t)[i] = s[i]
  OBVIOUS
<1>3. \A i \in 1..Len(t) : (s \o t)[Len(s) + i] = t[i]
  OBVIOUS
<1> DEFINE u == s \o t
<1> HIDE DEF u
<1>4. SubSeq(u, 1, Len(s)) = s
  BY <1>1, <1>2 DEF u
<1>5. SubSeq(u, Len(s) + 1, Len(s) + Len(t)) = t
  <2>1. Len(SubSeq(u, Len(s) + 1, Len(s) + Len(t))) = Len(t)
    BY <1>1 DEF u
  <2>2. \A i \in 1..Len(t) : SubSeq(u, Len(s) + 1, Len(s) + Len(t))[i] = t[i]
    BY <1>1, <1>3 DEF u
  <2> QED BY <1>1, <2>1, <2>2
<1> QED BY <1>1, <1>2, <1>3, <1>4, <1>5 DEF u

(* A line, what ends it and what follows.                                  *)
TwoLines(line, next, c) == (line \o <<c>>) \o next \o <<c>>
TextFacts(line, next, c) ==
    LET text == TwoLines(line, next, c)
    IN  /\ Len(text) = Len(line) + Len(next) + 2
        /\ \A i \in 1..Len(line) : text[i] = line[i]
        /\ text[Len(line) + 1] = c
        /\ SubSeq(text, 1, Len(line)) = line
        /\ SubSeq(text, 1, Len(line) + 1) = line \o <<c>>
        /\ SubSeq(text, Len(line) + 2, Len(text)) = next \o <<c>>
LEMMA TextOf ==
    ASSUME NEW S, NEW line \in Seq(S), NEW next \in Seq(S), NEW c \in S
    PROVE  TextFacts(line, next, c)
<1> DEFINE m == Len(line)
           end == <<c>>
           head == line \o end
           tail == next \o end
           text == head \o next \o end
<1>0. end \in Seq(S)
  OBVIOUS
<1>1. m \in Nat /\ Len(next) \in Nat /\ Len(end) = 1 /\ end[1] = c
  OBVIOUS
<1> HIDE DEF end
<1>2. head \in Seq(S) /\ Len(head) = m + 1 /\ SubSeq(head, 1, m) = line
      /\ (\A i \in 1..m : head[i] = line[i]) /\ head[m + 1] = c
  <2>1. /\ head \in Seq(S) /\ Len(head) = m + Len(end) /\ SubSeq(head, 1, m) = line
        /\ \A i \in 1..m : head[i] = line[i]
        /\ \A i \in 1..Len(end) : head[m + i] = end[i]
    BY <1>0, Concat
  <2> HIDE DEF head
  <2> QED BY <1>1, <2>1
<1>3. tail \in Seq(S) /\ Len(tail) = Len(next) + 1
  <2>1. tail \in Seq(S) /\ Len(tail) = Len(next) + Len(end)
    BY <1>0, Concat
  <2> QED BY <1>1, <2>1, Zenon
<1>4. text = head \o tail
  BY <1>0, <1>1, <1>2
<1> HIDE DEF head, tail
<1>5. head \o tail \in Seq(S) /\ Len(head \o tail) = m + 1 + (Len(next) + 1)
      /\ SubSeq(head \o tail, 1, m + 1) = head
      /\ (\A i \in 1..m + 1 : (head \o tail)[i] = head[i])
      /\ SubSeq(head \o tail, m + 1 + 1, m + 1 + (Len(next) + 1)) = tail
  <2>1. head \o tail \in Seq(S) /\ Len(head \o tail) = Len(head) + Len(tail)
        /\ SubSeq(head \o tail, 1, Len(head)) = head
        /\ (\A i \in 1..Len(head) : (head \o tail)[i] = head[i])
        /\ SubSeq(head \o tail, Len(head) + 1, Len(head) + Len(tail)) = tail
    <3>1. head \in Seq(S) /\ tail \in Seq(S)
      BY <1>2, <1>3
    <3> QED BY <3>1, Concat
  <2>2. Len(head) = m + 1 /\ Len(tail) = Len(next) + 1
    BY <1>2, <1>3
  <2> QED BY <2>1, <2>2, Zenon
<1> DEFINE u == head \o tail
<1>6. u = text
  BY <1>4
<1> HIDE DEF u, text
<1>7. m + 1 + 1 = m + 2 /\ m + 1 + (Len(next) + 1) = Len(u)
      /\ Len(u) = m + Len(next) + 2
  BY <1>1, <1>5 DEF u
<1>8. SubSeq(u, m + 2, Len(u)) = tail /\ SubSeq(u, 1, m + 1) = head
  BY <1>5, <1>7, Zenon DEF u
<1>9. u[m + 1] = c /\ \A i \in 1..m : u[i] = line[i]
  BY <1>1, <1>2, <1>5 DEF u
<1>10. SubSeq(u, 1, m) = line
  <2>1. u \in Seq(S) /\ m <= Len(u)
    BY <1>1, <1>5, <1>7 DEF u
  <2>2. Len(SubSeq(u, 1, m)) = m /\ \A i \in 1..m : SubSeq(u, 1, m)[i] = u[i]
    BY <1>1, <2>1
  <2>3. SubSeq(u, 1, m) \in Seq(S)
    BY <1>1, <2>1
  <2> QED BY <1>1, <1>9, <2>2, <2>3
<1> QED BY <1>5, <1>6, <1>7, <1>8, <1>9, <1>10 DEF u, text, head, tail, end, TwoLines, TextFacts

(* What I$WritLn makes of a line.                                          *)
LEMMA WritLnLine ==
    ASSUME NEW S, NEW line \in Seq(S), NEW next \in Seq(S), CR \in S, NEW y \in Nat,
           \A i \in 1..Len(line) : line[i] # CR, y > Len(line)
    PROVE  WritLn((line \o <<CR>>) \o next \o <<CR>>, y)
               = [text |-> line \o <<LF>>, y |-> Len(line) + 1]
<1> DEFINE m == Len(line)
           text == TwoLines(line, next, CR)
           Ends == {i \in 0..y : i < Len(text) /\ text[i+1] = CR}
<1>1. m \in Nat /\ Len(next) \in Nat
  OBVIOUS
<1>2. /\ Len(text) = m + Len(next) + 2
      /\ \A i \in 1..m : text[i] = line[i]
      /\ text[m + 1] = CR
      /\ SubSeq(text, 1, m) = line
  <2>1. TextFacts(line, next, CR)
    BY TextOf, Zenon
  <2> QED BY <2>1 DEF TextFacts
<1> HIDE DEF text
<1>3. /\ Len(text) \in Nat /\ m + 1 < Len(text) /\ m < Len(text)
      /\ \A i \in 1..m : text[i] # CR
  BY <1>1, <1>2
<1>4. m \in Ends /\ Ends \subseteq Int
  BY <1>1, <1>2, <1>3
<1>5. \A j \in Ends : m <= j
  <2> SUFFICES ASSUME NEW j \in Ends, j < m PROVE FALSE
    BY <1>1, <1>4
  <2>1. j + 1 \in 1..m /\ text[j + 1] = CR
    BY <1>1
  <2> QED BY <2>1, <1>3
<1>6. First(Ends, y) = m
  BY <1>4, <1>5, FirstIs
<1>7. WritLn(text, y) = [text |-> SubSeq(text, 1, m) \o <<LF>>, y |-> m + 1]
  BY <1>2, <1>3, <1>6, Zenon DEF WritLn
<1> QED BY <1>2, <1>7, Zenon DEF text, TwoLines

(* What I$ReadLn makes of a line that has room.                            *)
LEMMA ReadLnLine ==
    ASSUME NEW S, NEW line \in Seq(S), NEW next \in Seq(S), LF \in S, 0 \notin S,
           NEW y \in Nat,
           \A i \in 1..Len(line) : line[i] # LF, y > Len(line) + 1
    PROVE  ReadLn((line \o <<LF>>) \o next \o <<LF>>, y)
               = [b |-> 0, y |-> Len(line) + 1, buf |-> line \o <<CR>>,
                  rest |-> next \o <<LF>>]
<1> DEFINE m == Len(line)
           text == TwoLines(line, next, LF)
           got == line \o <<LF>>
           Ends == {i \in 1..Len(text) : text[i] = LF \/ i = y - 1}
           Zeros == {i \in 0..m+1-1 : got[i+1] = 0}
<1>1. m \in Nat /\ Len(next) \in Nat
  OBVIOUS
<1>2. /\ got \in Seq(S) /\ Len(got) = m + 1 /\ got[m + 1] = LF
      /\ \A i \in 1..m : got[i] = line[i]
  OBVIOUS
<1>3. [got EXCEPT ![m + 1] = CR] = line \o <<CR>>
  <2> HIDE DEF got
  <2> QED BY <1>1, <1>2
<1>4. /\ Len(text) = m + Len(next) + 2
      /\ \A i \in 1..m : text[i] = line[i]
      /\ text[m + 1] = LF
      /\ SubSeq(text, 1, m + 1) = got
      /\ SubSeq(text, m + 2, Len(text)) = next \o <<LF>>
  <2>1. TextFacts(line, next, LF)
    BY TextOf, Zenon
  <2> QED BY <2>1 DEF TextFacts
<1> HIDE DEF text, got
<1>5. Len(text) \in Nat /\ m + 1 < Len(text) /\ \A i \in 1..m : text[i] # LF
  <2>1. Len(text) = m + Len(next) + 2 /\ \A i \in 1..m : text[i] = line[i]
    BY <1>4
  <2> QED BY <1>1, <2>1
<1>6. m + 1 \in Ends /\ Ends \subseteq Int
  BY <1>1, <1>4, <1>5
<1>7. \A j \in Ends : m + 1 <= j
  BY <1>1, <1>5
<1>8. First(Ends, Len(text)) = m + 1
  BY <1>6, <1>7, FirstIs
<1>9. Zeros = {}
  <2> SUFFICES ASSUME NEW i \in Zeros PROVE FALSE
    OBVIOUS
  <2>1. i + 1 \in 1..Len(got) /\ got[i + 1] = 0
    BY <1>1, <1>2
  <2>2. got[i + 1] \in S
    BY <1>2, <2>1
  <2> QED BY <2>1, <2>2
<1>10. First(Zeros, m + 1) = m + 1
  BY <1>9, Zenon DEF First
<1> DEFINE Answer(n, in, shown) ==
             LET ends == shown > 0 /\ in[shown] = LF
             IN  IF y = 0 \/ (n = 0 /\ y > 1)
                   THEN [b |-> 255, y |-> y, buf |-> <<>>, rest |-> text]
                 ELSE IF y = 1
                   THEN [b |-> 0, y |-> 1, buf |-> <<0>>, rest |-> text]
                 ELSE [b |-> 0, y |-> IF ends THEN shown ELSE y,
                       buf |-> IF ends THEN [in EXCEPT ![shown] = CR] ELSE in \o <<0>>,
                       rest |-> SubSeq(text, n + 1, Len(text))]
<1>11. ReadLn(text, y) = Answer(m + 1, got, m + 1)
  <2> DEFINE n == First(Ends, Len(text))
             in == SubSeq(text, 1, n)
             shown == First({i \in 0..n-1 : in[i+1] = 0}, n)
  <2>1. ReadLn(text, y) = Answer(n, in, shown)
    BY Zenon DEF ReadLn
  <2> HIDE DEF Answer
  <2>2. n = m + 1
    BY <1>8
  <2> HIDE DEF n
  <2>3. in = got
    BY <1>4, <2>2
  <2> HIDE DEF in
  <2>4. shown = m + 1
    BY <1>10, <2>2, <2>3
  <2> HIDE DEF shown
  <2> QED BY <2>1, <2>2, <2>3, <2>4
<1>12. y # 0 /\ y # 1 /\ m + 1 # 0 /\ m + 1 > 0 /\ m + 1 + 1 = m + 2
  BY <1>1
<1>13. Answer(m + 1, got, m + 1)
         = [b |-> 0, y |-> m + 1, buf |-> [got EXCEPT ![m + 1] = CR],
            rest |-> SubSeq(text, m + 1 + 1, Len(text))]
  BY <1>2, <1>12, Zenon
<1> HIDE DEF Answer
<1>14. ReadLn(text, y) = [b |-> 0, y |-> m + 1, buf |-> line \o <<CR>>,
                          rest |-> next \o <<LF>>]
  BY <1>3, <1>4, <1>11, <1>12, <1>13, Zenon
<1> QED BY <1>14 DEF text, TwoLines

(* A line that is written is read as it was, for lines of any length: the  *)
(* two conversions of the end of line and the counts in Y cancel out.      *)
THEOREM LineKeptHolds == Spec => []LineKept
<1>1. LineKept
  <2> SUFFICES ASSUME NEW line \in Lines, NEW next \in Lines,
                      NEW extra \in 0..1, NEW room \in 0..1
               PROVE  LET buf == line \o <<CR>>
                          w == WritLn(buf \o next \o <<CR>>, Len(buf) + extra)
                          r == ReadLn(w.text \o next \o <<LF>>, Len(buf) + 1 + room)
                      IN  /\ w.y = Len(buf)
                          /\ r = [b |-> 0, y |-> Len(buf), buf |-> buf,
                                  rest |-> next \o <<LF>>]
    BY DEF LineKept
  <2> DEFINE Chars == Letters \cup {CR, LF}
             buf == line \o <<CR>>
             w == WritLn(buf \o next \o <<CR>>, Len(buf) + extra)
             r == ReadLn(w.text \o next \o <<LF>>, Len(buf) + 1 + room)
  <2>1. ASSUME NEW any \in Lines
        PROVE  any \in Seq(Chars) /\ \A i \in 1..Len(any) : any[i] # CR /\ any[i] # LF
    <3>1. PICK n \in 0..MaxLine : any \in [1..n -> Letters]
      BY DEF Lines
    <3>2. n \in Nat
      BY LetterAssumption
    <3>3. any \in Seq(Letters)
      BY <3>1, <3>2
    <3>4. \A x \in Letters : x \in Chars /\ x # CR /\ x # LF
      BY LetterAssumption
    <3> HIDE DEF Chars
    <3>5. any \in Seq(Chars)
      BY <3>3, <3>4
    <3> QED BY <3>3, <3>4, <3>5
  <2>2. CR \in Chars /\ LF \in Chars /\ 0 \notin Chars
    BY LetterAssumption DEF CR, LF
  <2> HIDE DEF Chars
  <2>3. Len(line) \in Nat /\ Len(buf) = Len(line) + 1
    BY <2>1
  <2>4. w = [text |-> line \o <<LF>>, y |-> Len(line) + 1]
    <3>1. Len(buf) + extra \in Nat /\ Len(buf) + extra > Len(line)
      BY <2>3
    <3> QED BY <2>1, <2>2, <3>1, WritLnLine
  <2>5. ReadLn((line \o <<LF>>) \o next \o <<LF>>, Len(buf) + 1 + room)
            = [b |-> 0, y |-> Len(line) + 1, buf |-> line \o <<CR>>, rest |-> next \o <<LF>>]
    <3>1. Len(buf) + 1 + room \in Nat /\ Len(buf) + 1 + room > Len(line) + 1
      BY <2>3
    <3> QED BY <2>1, <2>2, <3>1, ReadLnLine
  <2> HIDE DEF w
  <2>6. w.text = line \o <<LF>> /\ w.y = Len(line) + 1
    BY <2>4
  <2>7. r = [b |-> 0, y |-> Len(buf), buf |-> buf, rest |-> next \o <<LF>>]
    BY <2>3, <2>5, <2>6, Zenon
  <2> QED BY <2>3, <2>6, <2>7, Zenon DEF w
<1> QED BY <1>1, PTL

-----------------------------------------------------------------------------
(* Descriptors and current directories. *)

USE SizeAssumption, ModeAssumption, NodeAssumption, PathAssumption

LEMMA ModSmall == ASSUME NEW n \in Nat, NEW i \in 0..n-1 PROVE i % n = i
BY SMT
LEMMA ModRange == ASSUME NEW n \in Nat, n > 0, NEW i \in Nat PROVE i % n \in 0..n-1
BY SMT

-----------------------------------------------------------------------------
(* The types of what the helpers return. *)

LEMMA CurDirType ==
    ASSUME TypeOK, NEW p \in Procs, NEW exec \in BOOLEAN
    PROVE  /\ CurDir(p, exec) \in 0..ByteSize-1
           /\ CurDir(p, exec) \in 0..CdtSize-1
BY DEF TypeOK, CurDir, Dio

LEMMA HostNameType ==
    ASSUME TypeOK, NEW n \in PathList \cup {None}, NEW cur \in 0..CdtSize-1
    PROVE  HostName(n, cur) \in Seq(STRING) \cup {None}
<1>1. CASE n = None
  BY <1>1 DEF HostName
<1>2. CASE n # None
  <2>1. n.abs \in BOOLEAN /\ n.comps \in Seq(STRING)
    BY <1>2 DEF PathList
  <2>2. cdt[cur] \in Seq(STRING) \cup {None}
    BY DEF TypeOK
  <2>3. \A s \in Seq(STRING) : s \o n.comps \in Seq(STRING)
    BY <2>1
  <2> QED
    BY <1>2, <2>1, <2>2, <2>3 DEF HostName
<1> QED BY <1>1, <1>2

LEMMA MeantType ==
    ASSUME TypeOK, NEW p \in Procs, NEW n \in PathList \cup {None}, NEW exec \in BOOLEAN
    PROVE  Meant(p, n, exec) \in Seq(STRING) \cup {None}
<1>1. CASE n = None
  BY <1>1 DEF Meant
<1>2. CASE n # None
  <2>1. n.abs \in BOOLEAN /\ n.comps \in Seq(STRING)
    BY <1>2 DEF PathList
  <2>2. goal[p][IF exec THEN "cxd" ELSE "cwd"] \in Seq(STRING) \cup {None}
    BY DEF TypeOK, Dio
  <2>3. \A s \in Seq(STRING) : s \o n.comps \in Seq(STRING)
    BY <2>1
  <2> QED
    BY <1>2, <2>1, <2>2, <2>3 DEF Meant
<1> QED BY <1>1, <1>2

LEMMA StatType ==
    ASSUME TypeOK, NEW q PROVE Stat(q) \in Nodes \cup {None}
BY DEF TypeOK, Stat

LEMMA ParentType ==
    ASSUME TypeOK, NEW q PROVE Parent(q) \in Nodes \cup {Above}
BY DEF TypeOK, Parent, IsDir, Stat, Nodes

(* A path that has an inode is one of the host's paths. *)
LEMMA StatPath ==
    ASSUME NEW q, Stat(q) # None PROVE q \in Paths /\ q # None
BY DEF Stat

LEMMA ResultType ==
    ASSUME NEW call \in {"Create", "Open", "MakDir", "ChgDir", "Delete", "Close",
                         "Read", "Write", "SetStat", "FdInfo", "Fd"},
           NEW done \in BOOLEAN, NEW named \in Seq(STRING) \cup {None}
    PROVE  Result(call, done, named) \in Outcome
BY DEF Result, Outcome

LEMMA ClosedType ==
    ASSUME NEW d \in Descriptor PROVE Closed(d) \in Descriptor
BY DEF Closed, Descriptor

LEMMA ListingType ==
    ASSUME TypeOK, NEW q, Stat(q) # None
    PROVE  Listing(q) \in SUBSET (Readable \X Nat)
<1>1. ASSUME NEW e \in Entries(q)
      PROVE  <<EntryName[<<e[Len(e)], fs[e]>>], Low[fs[e]]>> \in Readable \X Nat
  <2>1. e \in Paths \ {<<>>} /\ fs[e] \in Nodes
    BY DEF Entries, TypeOK
  <2>2. <<e[Len(e)], fs[e]>> \in Names \X Nodes /\ Low[fs[e]] \in Nat
    BY <2>1, EntryAssumption DEF Names
  <2> QED BY <2>2 DEF Readable
<1>2. <<None, Low[fs[q]]>> \in Readable \X Nat
  BY EntryAssumption DEF Stat, TypeOK, Readable
<1>3. <<"..", Low[Parent(q)]>> \in Readable \X Nat
  BY ParentType, EntryAssumption DEF Readable
<1> QED BY <1>1, <1>2, <1>3 DEF Listing

LEMMA SetcdType ==
    ASSUME TypeOK, NEW name \in Seq(STRING)
    PROVE  /\ Setcd(name).byte \in 0..ByteSize-1
           /\ Setcd(name).cdt \in [0..CdtSize-1 -> Seq(STRING) \cup {None}]
           /\ Setcd(name).ptr \in 0..CdtSize
           /\ Setcd(name).new \in 0..1
<1> DEFINE entry == CHOOSE i \in 0..CdtSize-1 : cdt[i] = name
           ptr == cdtptr % CdtSize
<1>1. ptr \in 0..CdtSize-1 /\ ptr \in Nat
  BY ModRange DEF TypeOK
<1>2. ptr % ByteSize \in 0..ByteSize-1
  BY <1>1, ModRange
<1>3. CASE \E i \in 0..CdtSize-1 : cdt[i] = name
  <2>1. entry \in 0..CdtSize-1
    BY <1>3
  <2>2. entry % ByteSize \in 0..ByteSize-1
    BY <2>1, ModRange
  <2> QED BY <1>3, <2>2 DEF Setcd, TypeOK
<1>4. CASE ~ \E i \in 0..CdtSize-1 : cdt[i] = name
  BY <1>1, <1>2, <1>4 DEF Setcd, TypeOK
<1> QED BY <1>3, <1>4

-----------------------------------------------------------------------------
(* The inductive invariant. As long as setcd never took more entries than  *)
(* a Byte can name, entries are taken in order and the bytes of known      *)
(* directories point below the next one.                                   *)

DirInv ==
    taken <= ByteSize =>
      /\ cdtptr = taken
      /\ \A i \in 0..CdtSize-1 : i >= taken => cdt[i] = None
      /\ \A p \in Procs, d \in Dio : goal[p][d] # None =>
           dio[p][d] < taken /\ cdt[dio[p][d]] = goal[p][d]

(* The kernel's view and use agree; an open descriptor has its stream.     *)
HeldInv ==
    \A pd \in Pds :
      /\ held[pd] # None <=> pdv[pd].use
      /\ pdv[pd].use => /\ pdv[pd].fp # None
                        /\ taken <= ByteSize => pdv[pd].fp = want[pd]

(* A descriptor that is not in use is not marked as a directory.           *)
FlagInv ==
    \A pd \in Pds \ failed :
      /\ pdv[pd].use => /\ pdv[pd].dir <=> pdv[pd].fp \in DirNodes
                        /\ pdv[pd].dir => pdv[pd].dirfp # {}
      /\ ~pdv[pd].use => ~pdv[pd].dir

Inv == TypeOK /\ DirInv /\ HeldInv /\ FlagInv

LEMMA InitInv == Init => Inv
<1> SUFFICES ASSUME Init PROVE Inv
  OBVIOUS
<1>1. Result("", TRUE, None) \in Outcome
  BY DEF Result, Outcome
<1>2. system.fs \in [Paths -> Nodes \cup {None}]
  BY SystemAssumption DEF Init
<1>3. TypeOK
  <2>1. pdv \in [Pds -> Descriptor]
    BY DEF Init, Descriptor
  <2>2. cdt \in [0..CdtSize-1 -> Seq(STRING) \cup {None}]
    BY DEF Init
  <2>3. goal \in [Procs -> [Dio -> Seq(STRING) \cup {None}]]
    BY DEF Init
  <2>4. 0 \in 0..ByteSize-1 /\ 0 \in 0..CdtSize /\ 0 \in 0..ByteSize+1
    OBVIOUS
  <2>5. /\ dio \in [Procs -> [Dio -> 0..ByteSize-1]]
        /\ cdtptr \in 0..CdtSize /\ taken \in 0..ByteSize+1
    BY <2>4 DEF Init
  <2>6. fs \in [Paths -> Nodes \cup {None}]
    BY <1>2 DEF Init
  <2>7. held \in [Pds -> Procs \cup {None}] /\ want \in [Pds -> Nodes \cup {None}]
    BY DEF Init
  <2>8. failed \subseteq Pds /\ system \in Systems /\ last \in Outcome
    BY <1>1 DEF Init
  <2> QED BY <2>1, <2>2, <2>3, <2>4, <2>5, <2>6, <2>7, <2>8 DEF TypeOK
<1>4. DirInv /\ HeldInv /\ FlagInv
  BY DEF Init, DirInv, HeldInv, FlagInv
<1> QED BY <1>3, <1>4 DEF Inv

(* While the invariant holds, the host's path is the one that was meant.   *)
LEMMA HostNameMeant ==
    ASSUME Inv, taken <= ByteSize, NEW p \in Procs, NEW n \in PathList \cup {None},
           NEW exec \in BOOLEAN, Meant(p, n, exec) # None
    PROVE  HostName(n, CurDir(p, exec)) = Meant(p, n, exec)
BY DEF Inv, DirInv, Meant, HostName, CurDir, Dio

(* A call that leaves directories and descriptors alone.                   *)
LEMMA QuietInv ==
    ASSUME Inv, SameDirs, UNCHANGED <<pdv, held, fs, want, failed>>, last' \in Outcome
    PROVE  Inv'
<1>1. Pds' = Pds
  BY DEF SameDirs, Pds
<1>2. TypeOK'
  BY <1>1 DEF Inv, TypeOK, SameDirs
<1>3. DirInv' /\ HeldInv' /\ FlagInv'
  BY <1>1 DEF Inv, DirInv, HeldInv, FlagInv, SameDirs
<1> QED BY <1>2, <1>3 DEF Inv

LEMMA UseInv ==
    ASSUME Inv, NEW pd \in Pds, NEW op \in {"Read", "Write", "SetStat"}, Use(pd, op)
    PROVE  Inv'
<1>1. pdv[pd].dir \in BOOLEAN
  BY DEF Inv, TypeOK, Descriptor
<1>2. last' \in Outcome
  BY <1>1, ResultType DEF Use
<1> QED BY <1>2, QuietInv DEF Use

(* What SS.FDInf may answer. *)
LEMMA WalkType ==
    ASSUME TypeOK, NEW q, NEW name
    PROVE  Walk(q, name) \in Nodes \cup {Above, None}
BY ParentType, StatType DEF Walk

LEMMA FdInfoInv ==
    ASSUME Inv, NEW p \in Procs, NEW pd \in Pds, NEW node \in Nodes,
           NEW exec \in BOOLEAN, FdInfo(p, pd, node, exec)
    PROVE  Inv'
<1>1. cdt[CurDir(p, exec)] \in Seq(STRING) \cup {None}
  BY CurDirType DEF Inv, TypeOK
<1>2. PICK found \in Nodes \cup {Above, None} :
        last' = [Result("FdInfo", found # None, cdt[CurDir(p, exec)])
                   EXCEPT !.asked = node, !.found = found]
  BY WalkType DEF Inv, FdInfo
<1>3. last' \in Outcome
  BY <1>1, <1>2 DEF Result, Outcome
<1> QED BY <1>3, QuietInv DEF FdInfo

LEMMA FdInv ==
    ASSUME Inv, NEW p \in Procs, NEW pd \in Pds, NEW exec \in BOOLEAN, Fd(p, pd, exec)
    PROVE  Inv'
<1>1. cdt[CurDir(p, exec)] \in Seq(STRING) \cup {None}
  BY CurDirType DEF Inv, TypeOK
<1>2. PICK found \in Nodes \cup {None} :
        last' = [Result("Fd", found # None, cdt[CurDir(p, exec)])
                   EXCEPT !.asked = pdv[pd].fp, !.found = found]
  BY StatType DEF Inv, Fd
<1>3. pdv[pd].fp \in Nodes \cup {None}
  BY DEF Inv, TypeOK, Descriptor
<1>4. last' \in Outcome
  BY <1>1, <1>2, <1>3 DEF Result, Outcome
<1> QED BY <1>4, QuietInv DEF Fd

LEMMA CloseInv ==
    ASSUME Inv, NEW pd \in Pds, Close(pd)
    PROVE  Inv'
<1>1. Pds' = Pds /\ last' \in Outcome
  BY ResultType DEF Close, SameDirs, Pds
<1>2. pdv' \in [Pds -> Descriptor]
  BY ClosedType DEF Inv, TypeOK, Close
<1>3. TypeOK'
  BY <1>1, <1>2 DEF Inv, TypeOK, Close, SameDirs
<1>4. DirInv'
  BY DEF Inv, DirInv, Close, SameDirs
<1>5. pdv' = [pdv EXCEPT ![pd] = Closed(@)] /\ pdv[pd] \in Descriptor
  BY DEF Inv, TypeOK, Close
<1>6. HeldInv' /\ FlagInv'
  BY <1>1, <1>5 DEF Inv, HeldInv, FlagInv, Close, SameDirs, Closed, TypeOK, Descriptor
<1> QED BY <1>3, <1>4, <1>6 DEF Inv

LEMMA DeleteInv ==
    ASSUME Inv, NEW p \in Procs, NEW pd \in Pds, NEW n \in PathList \cup {None},
           NEW exec \in BOOLEAN, NEW host \in BOOLEAN, Delete(p, pd, n, exec, host)
    PROVE  Inv'
<1> DEFINE name == HostName(n, CurDir(p, exec))
<1>1. name \in Seq(STRING) \cup {None}
  BY CurDirType, HostNameType DEF Inv
<1>2. Pds' = Pds
  BY DEF Delete, SameDirs, Pds
<1>3. PICK done \in BOOLEAN : last' = Result("Delete", done, Meant(p, n, exec))
  <2>1. Meant(p, n, exec) \in Seq(STRING) \cup {None}
    BY MeantType DEF Inv
  <2> QED BY DEF Delete
<1>4. last' \in Outcome
  BY <1>3, MeantType, ResultType DEF Inv
<1>5. pdv[pd] \in Descriptor /\ pdv[pd].name \in Seq(STRING) \cup {None}
  BY DEF Inv, TypeOK, Descriptor
<1>6. PICK nm \in Seq(STRING) \cup {None} :
        pdv' = [pdv EXCEPT ![pd] = [pdv[pd] EXCEPT !.use = FALSE, !.name = nm]]
  <2>1. pdv' = [pdv EXCEPT ![pd] = [pdv[pd] EXCEPT !.use = FALSE,
                  !.name = IF name = None THEN pdv[pd].name ELSE name]]
    BY DEF Delete
  <2> HIDE DEF name
  <2> QED BY <1>1, <1>5, <2>1
<1>7. pdv' \in [Pds -> Descriptor]
  <2>1. [pdv[pd] EXCEPT !.use = FALSE, !.name = nm] \in Descriptor
    BY <1>5 DEF Descriptor
  <2> QED BY <1>6, <2>1 DEF Inv, TypeOK
<1>8. fs' \in [Paths -> Nodes \cup {None}]
  BY DEF Inv, TypeOK, Delete
<1>9. TypeOK'
  BY <1>2, <1>4, <1>7, <1>8 DEF Inv, TypeOK, Delete, SameDirs
<1>10. DirInv'
  BY DEF Inv, DirInv, Delete, SameDirs
<1>11. ~pdv[pd].use
  BY DEF Inv, HeldInv, Delete, Free
<1>12. HeldInv' /\ FlagInv'
  <2>1. \A q \in Pds : /\ pdv'[q].use = pdv[q].use /\ pdv'[q].fp = pdv[q].fp
                       /\ pdv'[q].dir = pdv[q].dir /\ pdv'[q].dirfp = pdv[q].dirfp
    BY <1>6, <1>11, <1>5 DEF Inv, TypeOK, Descriptor
  <2>2. UNCHANGED <<held, want, failed, taken>>
    BY DEF Delete, SameDirs
  <2> QED BY <1>2, <2>1, <2>2 DEF Inv, HeldInv, FlagInv
<1> QED BY <1>9, <1>10, <1>12 DEF Inv

LEMMA MakDirInv ==
    ASSUME Inv, NEW p \in Procs, NEW pd \in Pds, NEW n \in PathList \cup {None},
           NEW exec \in BOOLEAN, NEW host \in BOOLEAN, MakDir(p, pd, n, exec, host)
    PROVE  Inv'
<1>1. Pds' = Pds
  BY DEF MakDir, SameDirs, Pds
<1>2. PICK done \in BOOLEAN : last' = Result("MakDir", done, Meant(p, n, exec))
  BY DEF MakDir
<1>3. last' \in Outcome
  BY <1>2, MeantType, ResultType DEF Inv
<1>4. pdv[pd] \in Descriptor /\ pdv' = [pdv EXCEPT ![pd] = Closed(pdv[pd])]
  BY DEF Inv, TypeOK, MakDir
<1>5. pdv' \in [Pds -> Descriptor]
  BY <1>4, ClosedType DEF Inv, TypeOK
<1>6. fs' \in [Paths -> Nodes \cup {None}]
  BY DEF Inv, TypeOK, MakDir, Unused, Nodes
<1>7. TypeOK'
  BY <1>1, <1>3, <1>5, <1>6 DEF Inv, TypeOK, MakDir, SameDirs
<1>8. DirInv'
  BY DEF Inv, DirInv, MakDir, SameDirs
<1>9. HeldInv' /\ FlagInv'
  BY <1>1, <1>4 DEF Inv, HeldInv, FlagInv, TypeOK, MakDir, SameDirs, Closed, Free, Descriptor
<1> QED BY <1>7, <1>8, <1>9 DEF Inv

LEMMA ChgDirInv ==
    ASSUME Inv, NEW p \in Procs, NEW n \in PathList \cup {None},
           NEW kind \in {"data", "exec"}, ChgDir(p, n, kind)
    PROVE  Inv'
<1> DEFINE d == IF kind = "exec" THEN "cxd" ELSE "cwd"
           exec == kind = "exec"
           name == HostName(n, CurDir(p, exec))
           meant == Meant(p, n, exec)
           done == name # None /\ IsDir(name)
<1>1. Pds' = Pds /\ d \in Dio /\ exec \in BOOLEAN
  BY DEF ChgDir, Pds, Dio
<1>2. meant \in Seq(STRING) \cup {None}
  BY <1>1, MeantType DEF Inv
<1>3. last' \in Outcome
  <2>1. last' = [Result("ChgDir", done, meant) EXCEPT !.told = TRUE]
    BY DEF ChgDir
  <2>2. done \in BOOLEAN
    OBVIOUS
  <2> HIDE DEF done, meant
  <2>3. Result("ChgDir", done, meant) \in Outcome
    BY <1>2, <2>2, ResultType
  <2> QED BY <2>1, <2>3 DEF Outcome
<1>4. HeldInv' /\ FlagInv'
  <2>1. taken' <= ByteSize => taken <= ByteSize
    <3>1. taken \in 0..ByteSize+1
      BY DEF Inv, TypeOK
    <3>2. CASE taken > ByteSize
      BY <3>1, <3>2 DEF ChgDir
    <3>3. CASE taken <= ByteSize
      BY <3>3
    <3> QED BY <3>1, <3>2, <3>3
  <2> QED BY <1>1, <2>1 DEF Inv, HeldInv, FlagInv, ChgDir
<1>5. CASE ~done
  <2>1. /\ dio' = [dio EXCEPT ![p][d] = ModeByte[kind]]
        /\ goal' = [goal EXCEPT ![p][d] = None]
        /\ UNCHANGED <<cdt, cdtptr, taken>>
    BY <1>5 DEF ChgDir
  <2>2. TypeOK'
    BY <1>1, <1>3, <2>1 DEF Inv, TypeOK, ChgDir
  <2>3. DirInv'
    BY <1>1, <2>1 DEF Inv, TypeOK, DirInv
  <2> QED BY <1>4, <2>2, <2>3 DEF Inv
<1>6. CASE done
  <2> DEFINE set == Setcd(name)
  <2>1. /\ dio' = [dio EXCEPT ![p][d] = set.byte]
        /\ cdt' = set.cdt /\ cdtptr' = set.ptr
        /\ taken' = IF taken > ByteSize THEN taken ELSE taken + set.new
        /\ goal' = [goal EXCEPT ![p][d] = meant]
    BY <1>6 DEF ChgDir
  <2>2. name \in Seq(STRING) /\ name # None
    BY <1>6, StatPath DEF IsDir, Nodes
  <2>3. /\ set.byte \in 0..ByteSize-1 /\ set.ptr \in 0..CdtSize /\ set.new \in 0..1
        /\ set.cdt \in [0..CdtSize-1 -> Seq(STRING) \cup {None}]
    BY <2>2, SetcdType DEF Inv
  <2>4. TypeOK'
    <3> HIDE DEF set, d, meant
    <3>1. taken' \in 0..ByteSize+1
      <4>1. taken \in 0..ByteSize+1 /\ ByteSize \in Nat
        BY SizeAssumption DEF Inv, TypeOK
      <4>2. set.new \in 0..1 /\ taken' = IF taken > ByteSize THEN taken ELSE taken + set.new
        BY <2>1, <2>3
      <4> QED BY <4>1, <4>2
    <3>2. /\ dio' \in [Procs -> [Dio -> 0..ByteSize-1]]
          /\ goal' \in [Procs -> [Dio -> Seq(STRING) \cup {None}]]
      BY <1>1, <1>2, <2>1, <2>3 DEF Inv, TypeOK
    <3>3. /\ cdt' \in [0..CdtSize-1 -> Seq(STRING) \cup {None}]
          /\ cdtptr' \in 0..CdtSize
      BY <2>1, <2>3
    <3>4. UNCHANGED <<system, pdv, held, fs, want, failed>>
      BY DEF ChgDir
    <3> QED BY <1>1, <1>3, <3>1, <3>2, <3>3, <3>4 DEF Inv, TypeOK
  <2>5. ASSUME taken' <= ByteSize
        PROVE  /\ cdtptr' = taken'
               /\ \A i \in 0..CdtSize-1 : i >= taken' => cdt'[i] = None
               /\ set.byte < taken' /\ cdt'[set.byte] = name
               /\ \A i \in 0..CdtSize-1 : cdt[i] # None => cdt'[i] = cdt[i]
               /\ taken <= taken' /\ taken <= ByteSize
    <3>1. taken \in 0..ByteSize /\ taken' = taken + set.new
      BY <2>1, <2>3, <2>5 DEF Inv, TypeOK
    <3>2. /\ cdtptr = taken
          /\ \A i \in 0..CdtSize-1 : i >= taken => cdt[i] = None
          /\ cdt \in [0..CdtSize-1 -> Seq(STRING) \cup {None}]
      <4>1. taken <= ByteSize /\ DirInv /\ TypeOK
        BY <3>1, SizeAssumption DEF Inv
      <4> QED BY <4>1 DEF DirInv, TypeOK
    <3>3. CASE \E i \in 0..CdtSize-1 : cdt[i] = name
      <4> DEFINE entry == CHOOSE i \in 0..CdtSize-1 : cdt[i] = name
      <4>1. entry \in 0..CdtSize-1 /\ cdt[entry] = name
        BY <3>3
      <4>2. entry < taken
        BY <2>2, <3>2, <4>1, <3>1
      <4>3. entry % ByteSize = entry
        <5> HIDE DEF entry, set
        <5>1. entry \in Nat /\ taken \in 0..ByteSize /\ ByteSize \in Nat
          BY <3>1, <4>1, SizeAssumption
        <5>2. entry \in 0..ByteSize-1
          BY <4>2, <5>1
        <5> QED BY <5>2, ModSmall
      <4>4. set = [byte |-> entry % ByteSize, cdt |-> cdt, ptr |-> cdtptr, new |-> 0]
        BY <3>3 DEF Setcd
      <4>5. set.byte = entry /\ cdt' = cdt /\ cdtptr' = cdtptr /\ set.new = 0
        BY <2>1, <4>3, <4>4
      <4> HIDE DEF set, entry
      <4>6. taken' = taken
        BY <3>1, <4>5
      <4> QED BY <3>1, <3>2, <4>1, <4>2, <4>5, <4>6
    <3>4. CASE ~ \E i \in 0..CdtSize-1 : cdt[i] = name
      <4>1. set = [byte |-> (cdtptr % CdtSize) % ByteSize,
                   cdt |-> [cdt EXCEPT ![cdtptr % CdtSize] = name],
                   ptr |-> (cdtptr % CdtSize) + 1, new |-> 1]
        BY <3>4 DEF Setcd
      <4>2. taken' = taken + 1 /\ taken \in 0..ByteSize-1 /\ taken \in 0..CdtSize-1
        BY <2>5, <3>1, <4>1
      <4>3. cdtptr % CdtSize = taken /\ taken % ByteSize = taken
        <5>1. taken % CdtSize = taken
          BY <4>2, ModSmall
        <5>2. taken % ByteSize = taken
          BY <4>2, ModSmall
        <5> QED BY <3>2, <5>1, <5>2
      <4>4. /\ cdt' = [cdt EXCEPT ![taken] = name] /\ cdtptr' = taken + 1
            /\ set.byte = taken
        BY <2>1, <4>1, <4>3
      <4> HIDE DEF set, name
      <4> QED BY <3>1, <3>2, <4>2, <4>4
    <3> QED BY <3>3, <3>4
  <2>6. DirInv'
    <3> SUFFICES ASSUME taken' <= ByteSize
                 PROVE  \A q \in Procs, e \in Dio : goal'[q][e] # None =>
                          dio'[q][e] < taken' /\ cdt'[dio'[q][e]] = goal'[q][e]
      BY <2>5 DEF DirInv
    <3>1. /\ set.byte < taken' /\ cdt'[set.byte] = name
          /\ \A i \in 0..CdtSize-1 : cdt[i] # None => cdt'[i] = cdt[i]
          /\ taken <= taken' /\ taken <= ByteSize
      BY <2>5
    <3>2. meant # None => meant = name
      BY <1>1, <3>1, HostNameMeant
    <3> SUFFICES ASSUME NEW q \in Procs, NEW e \in Dio, goal'[q][e] # None
                 PROVE  dio'[q][e] < taken' /\ cdt'[dio'[q][e]] = goal'[q][e]
      OBVIOUS
    <3> HIDE DEF set, d, meant, name
    <3>3. CASE q = p /\ e = d
      BY <1>1, <2>1, <3>1, <3>2, <3>3 DEF Inv, TypeOK
    <3>4. CASE ~(q = p /\ e = d)
      <4>1. dio'[q][e] = dio[q][e] /\ goal'[q][e] = goal[q][e]
        BY <1>1, <2>1, <3>4 DEF Inv, TypeOK
      <4>2. /\ dio[q][e] \in 0..CdtSize-1 /\ dio[q][e] < taken
            /\ cdt[dio[q][e]] = goal[q][e]
        BY <3>1, <4>1 DEF Inv, DirInv, TypeOK
      <4>3. taken \in Int /\ taken' \in Int
        BY <2>4 DEF Inv, TypeOK
      <4> QED BY <3>1, <4>1, <4>2, <4>3
    <3> QED BY <3>3, <3>4
  <2> QED BY <1>4, <2>4, <2>6 DEF Inv
<1> QED BY <1>5, <1>6

LEMMA CreateInv ==
    ASSUME Inv, NEW p \in Procs, NEW pd \in Pds, NEW n \in PathList \cup {None},
           NEW exec \in BOOLEAN, NEW host \in BOOLEAN, Create(p, pd, n, exec, host)
    PROVE  Inv'
<1> DEFINE next == HostName(n, CurDir(p, exec))
           name == IF next # None THEN next ELSE pdv[pd].name
           old == IF name = None THEN None ELSE Stat(name)
           meant == Meant(p, n, exec)
<1>1. /\ next \in Seq(STRING) \cup {None} /\ meant \in Seq(STRING) \cup {None}
      /\ pdv[pd] \in Descriptor /\ pdv[pd].name \in Seq(STRING) \cup {None}
      /\ Pds' = Pds /\ ~pdv[pd].use
  <2>1. ~pdv[pd].use
    BY DEF Inv, HeldInv, Create, Free
  <2>2. pdv[pd] \in Descriptor /\ pdv[pd].name \in Seq(STRING) \cup {None}
    BY DEF Inv, TypeOK, Descriptor
  <2>3. Pds' = Pds
    BY DEF Create, SameDirs, Pds
  <2> QED BY <2>1, <2>2, <2>3, CurDirType, HostNameType, MeantType DEF Inv
<1>2. name \in Seq(STRING) \cup {None}
  BY <1>1
<1>3. DirInv'
  BY DEF Inv, DirInv, Create, SameDirs
<1>4. UNCHANGED <<system, cdt, cdtptr, dio, goal, taken, failed>>
  BY DEF Create, SameDirs
<1>5. CASE host /\ name # None /\ (old \in FileNodes \/ CanMake(name))
  <2>1. PICK node \in IF old = None THEN Unused(FileNodes) ELSE {old} :
          /\ fs' = [fs EXCEPT ![name] = node]
          /\ pdv' = [pdv EXCEPT ![pd] =
               [pdv[pd] EXCEPT !.name = name, !.fp = node, !.use = next # None]]
          /\ held' = [held EXCEPT ![pd] = IF next # None THEN p ELSE None]
          /\ want' = [want EXCEPT ![pd] =
               CASE next = None -> None
                 [] next # None /\ meant = None -> node
                 [] next # None /\ meant # None ->
                      IF meant \in Paths THEN fs'[meant] ELSE None]
          /\ last' = Result("Create", next # None, meant)
    BY <1>5 DEF Create
  <2>2. node \in FileNodes /\ name \in Paths /\ node # None
    <3>1. CASE old = None
      BY <1>5, <2>1, <3>1 DEF CanMake, Unused, Nodes
    <3>2. CASE old # None
      <4>1. ~CanMake(name)
        BY <1>5, <3>2 DEF CanMake, Stat
      <4> QED BY <1>5, <2>1, <3>2, <4>1, StatPath DEF Nodes
    <3> QED BY <3>1, <3>2
  <2>3. last' \in Outcome
    BY <1>1, <2>1, ResultType
  <2>4. fs' \in [Paths -> Nodes \cup {None}] /\ fs'[name] = node
    BY <2>1, <2>2 DEF Inv, TypeOK, Nodes
  <2> DEFINE wanted == CASE next = None -> None
                         [] next # None /\ meant = None -> node
                         [] next # None /\ meant # None ->
                              IF meant \in Paths THEN fs'[meant] ELSE None
             new == [pdv[pd] EXCEPT !.name = name, !.fp = node, !.use = next # None]
  <2>5. wanted \in Nodes \cup {None}
    <3>1. CASE next = None
      BY <3>1
    <3>2. CASE next # None /\ meant = None
      BY <2>2, <3>2 DEF Nodes
    <3>3. CASE next # None /\ meant # None
      BY <2>4, <3>3
    <3> QED BY <3>1, <3>2, <3>3
  <2>6. new \in Descriptor
    BY <1>1, <1>2, <2>2 DEF Descriptor, Nodes
  <2>7. new.use => (taken <= ByteSize => wanted = node)
    <3> SUFFICES ASSUME next # None, taken <= ByteSize, meant # None
                 PROVE  (IF meant \in Paths THEN fs'[meant] ELSE None) = node
      BY <1>1 DEF Descriptor
    <3>1. next = meant
      BY HostNameMeant
    <3> QED BY <2>2, <2>4, <3>1
  <2>8. TypeOK'
    <3> HIDE DEF new, wanted
    <3>1. pdv' = [pdv EXCEPT ![pd] = new] /\ want' = [want EXCEPT ![pd] = wanted]
      BY <2>1 DEF new, wanted
    <3>2. /\ pdv' \in [Pds -> Descriptor] /\ want' \in [Pds -> Nodes \cup {None}]
          /\ held' \in [Pds -> Procs \cup {None}]
      BY <2>1, <2>5, <2>6, <3>1 DEF Inv, TypeOK
    <3> QED BY <1>1, <1>4, <2>3, <2>4, <3>2 DEF Inv, TypeOK
  <2>9. HeldInv' /\ FlagInv'
    <3>1. /\ new.fp = node /\ (new.use <=> next # None) /\ new.dir = pdv[pd].dir
      BY <1>1 DEF Descriptor
    <3>2. /\ pdv' = [pdv EXCEPT ![pd] = new] /\ want' = [want EXCEPT ![pd] = wanted]
          /\ held' = [held EXCEPT ![pd] = IF next # None THEN p ELSE None]
      BY <2>1
    <3>3. node \notin DirNodes
      BY <2>2
    <3> HIDE DEF new, wanted, next
    <3> QED BY <1>1, <1>4, <2>2, <2>7, <3>1, <3>2, <3>3
            DEF Inv, TypeOK, HeldInv, FlagInv
  <2> QED BY <1>3, <2>8, <2>9 DEF Inv
<1>6. CASE ~(host /\ name # None /\ (old \in FileNodes \/ CanMake(name)))
  <2> DEFINE new == [pdv[pd] EXCEPT !.name = name, !.fp = None, !.use = FALSE]
  <2>1. /\ pdv' = [pdv EXCEPT ![pd] = new]
        /\ last' = Result("Create", FALSE, meant)
        /\ UNCHANGED <<fs, held, want>>
    BY <1>6 DEF Create
  <2>2. last' \in Outcome
    BY <1>1, <2>1, ResultType
  <2>3. new \in Descriptor /\ ~new.use /\ new.dir = pdv[pd].dir
    BY <1>1, <1>2 DEF Descriptor
  <2> HIDE DEF new
  <2>4. TypeOK'
    BY <1>1, <1>4, <2>1, <2>2, <2>3 DEF Inv, TypeOK
  <2>5. HeldInv' /\ FlagInv'
    BY <1>1, <1>4, <2>1, <2>3 DEF Inv, TypeOK, HeldInv, FlagInv
  <2> QED BY <1>3, <2>4, <2>5 DEF Inv
<1> QED BY <1>5, <1>6

LEMMA OpenInv ==
    ASSUME Inv, NEW p \in Procs, NEW pd \in Pds, NEW n \in PathList \cup {None},
           NEW exec \in BOOLEAN, NEW host \in {"ok", "noread", "nomem"},
           Open(p, pd, n, exec, host)
    PROVE  Inv'
<1> DEFINE name == HostName(n, CurDir(p, exec))
           d0 == [pdv[pd] EXCEPT !.fp = None, !.name = name]
           node == IF name = None THEN None ELSE Stat(name)
           meant == Meant(p, n, exec)
<1>1. /\ name \in Seq(STRING) \cup {None} /\ meant \in Seq(STRING) \cup {None}
      /\ pdv[pd] \in Descriptor /\ node \in Nodes \cup {None}
      /\ Pds' = Pds /\ ~pdv[pd].use
  <2>1. ~pdv[pd].use
    BY DEF Inv, HeldInv, Open, Free
  <2>2. pdv[pd] \in Descriptor
    BY DEF Inv, TypeOK
  <2>3. Pds' = Pds
    BY DEF Open, SameDirs, Pds
  <2>4. name \in Seq(STRING) \cup {None} /\ meant \in Seq(STRING) \cup {None}
    BY CurDirType, HostNameType, MeantType DEF Inv
  <2> QED BY <2>1, <2>2, <2>3, <2>4, StatType DEF Inv
<1>2. PICK d1 \in Descriptor :
        LET done == d1.fp # None
            new == IF node = None THEN d1 ELSE [d1 EXCEPT !.use = done]
        IN  /\ pdv' = [pdv EXCEPT ![pd] = new]
            /\ held' = [held EXCEPT ![pd] = IF done THEN p ELSE None]
            /\ want' = [want EXCEPT ![pd] =
                 IF meant = None \/ ~done THEN d1.fp ELSE Stat(meant)]
            /\ failed' = IF node \in DirNodes /\ ~done THEN failed \cup {pd} ELSE failed
            /\ last' = Result("Open", done, meant)
            /\ d1.fp \in {None, node} /\ (node = None => ~d1.use /\ d1.dir = pdv[pd].dir)
            /\ node \in FileNodes => ~d1.dir
            /\ node \in DirNodes => d1.dir /\ (done => d1.dirfp # {})
  <2> DEFINE d1 == CASE name = None -> [d0 EXCEPT !.use = FALSE]
                     [] name # None /\ node = None -> d0
                     [] node \in DirNodes -> Opendir([d0 EXCEPT !.dir = TRUE], host)
                     [] node \in FileNodes ->
                          [d0 EXCEPT !.dir = FALSE,
                                     !.fp = IF host = "ok" THEN node ELSE None]
  <2>1. /\ d1 \in Descriptor /\ d1.fp \in {None, node}
        /\ node = None => ~d1.use /\ d1.dir = pdv[pd].dir
        /\ node \in FileNodes => ~d1.dir
        /\ node \in DirNodes => d1.dir /\ (d1.fp # None => d1.dirfp # {})
    <3>0. d0 \in Descriptor /\ d0.fp = None /\ d0.use = pdv[pd].use
            /\ d0.dir = pdv[pd].dir /\ d0.name = name
      BY <1>1 DEF Descriptor
    <3>1. CASE name = None
      BY <1>1, <3>0, <3>1 DEF Descriptor, Nodes
    <3>2. CASE name # None /\ node = None
      BY <1>1, <3>0, <3>2 DEF Nodes
    <3>3. CASE node \in DirNodes
      <4> DEFINE d2 == [d0 EXCEPT !.dir = TRUE]
      <4>1. /\ d2 \in Descriptor /\ d2.fp = None /\ d2.dir /\ d2.name = name
        BY <3>0 DEF Descriptor
      <4>2. name # None /\ fs[name] = node
        BY <3>3, StatPath DEF Nodes, Stat
      <4>3. d1 = Opendir(d2, host)
        BY <3>3, <4>2 DEF Nodes
      <4> HIDE DEF d0, d2, d1
      <4>4. /\ Opendir(d2, host) \in Descriptor /\ Opendir(d2, host).fp \in {None, node}
            /\ Opendir(d2, host).dir
            /\ Opendir(d2, host).fp # None => Opendir(d2, host).dirfp # {}
        <5>1. Listing(name) \in SUBSET (Readable \X Nat)
          BY <3>3, ListingType DEF Inv, Nodes
        <5>2. CASE d2.dirfp # {} \/ host = "noread"
          BY <4>1, <5>2 DEF Opendir
        <5>3. CASE d2.dirfp = {} /\ host = "ok"
          <6>1. Opendir(d2, host) = [d2 EXCEPT !.dirfp = {Listing(name)}, !.fp = node]
            BY <4>1, <4>2, <5>3 DEF Opendir
          <6>2. {Listing(name)} \in SUBSET SUBSET (Readable \X Nat)
            BY <5>1
          <6>4. node \in Nodes
            BY <3>3 DEF Nodes
          <6> DEFINE d3 == [d2 EXCEPT !.dirfp = {Listing(name)}]
          <6>5. d3 \in Descriptor
            BY <4>1, <6>2 DEF Descriptor
          <6>6. Opendir(d2, host) = [d3 EXCEPT !.fp = node]
            BY <4>1, <6>1 DEF Descriptor
          <6> HIDE DEF d3
          <6>7. Opendir(d2, host) \in Descriptor
            BY <6>4, <6>5, <6>6 DEF Descriptor
          <6>3. /\ Opendir(d2, host).fp = node /\ Opendir(d2, host).dir
                /\ Opendir(d2, host).dirfp # {}
            BY <4>1, <6>1 DEF Descriptor
          <6> QED BY <6>7, <6>3
        <5>4. CASE d2.dirfp = {} /\ host = "nomem"
          <6>1. Opendir(d2, host) = [d2 EXCEPT !.dirfp = {Listing(name)}]
            BY <4>1, <5>4 DEF Opendir
          <6>2. Opendir(d2, host) \in Descriptor
            BY <4>1, <5>1, <6>1 DEF Descriptor
          <6>3. Opendir(d2, host).fp = None /\ Opendir(d2, host).dir
            BY <4>1, <6>1 DEF Descriptor
          <6> QED BY <6>2, <6>3
        <5> QED BY <5>2, <5>3, <5>4
      <4> QED BY <3>3, <4>3, <4>4 DEF Nodes
    <3>4. CASE node \in FileNodes
      BY <1>1, <3>0, <3>4 DEF Descriptor, Nodes
    <3> QED BY <1>1, <3>1, <3>2, <3>3, <3>4 DEF Nodes
  <2>2. /\ pdv' = [pdv EXCEPT ![pd] =
             IF node = None THEN d1 ELSE [d1 EXCEPT !.use = d1.fp # None]]
        /\ held' = [held EXCEPT ![pd] = IF d1.fp # None THEN p ELSE None]
        /\ want' = [want EXCEPT ![pd] =
             IF meant = None \/ ~(d1.fp # None) THEN d1.fp ELSE Stat(meant)]
        /\ failed' = IF node \in DirNodes /\ ~(d1.fp # None) THEN failed \cup {pd} ELSE failed
        /\ last' = Result("Open", d1.fp # None, meant)
    BY Zenon DEF Open
  <2> HIDE DEF d1, node, meant
  <2> QED BY <2>1, <2>2
<1> DEFINE done == d1.fp # None
           new == IF node = None THEN d1 ELSE [d1 EXCEPT !.use = done]
<1>3. /\ new \in Descriptor /\ new.fp = d1.fp /\ (new.use <=> done)
      /\ new.dir = d1.dir /\ new.dirfp = d1.dirfp
  BY <1>1, <1>2 DEF Descriptor
<1>4. UNCHANGED <<system, cdt, cdtptr, dio, goal, taken, fs>>
  BY DEF Open, SameDirs
<1>5. DirInv'
  BY <1>4 DEF Inv, DirInv
<1>6. Stat(meant) \in Nodes \cup {None} /\ last' \in Outcome
  BY <1>1, <1>2, ResultType, StatType DEF Inv
<1>7. TypeOK'
  <2> HIDE DEF new, node, meant
  <2>1. d1.fp \in Nodes \cup {None}
    BY <1>2 DEF Descriptor
  <2>2. /\ pdv' = [pdv EXCEPT ![pd] = new]
        /\ held' = [held EXCEPT ![pd] = IF done THEN p ELSE None]
        /\ want' = [want EXCEPT ![pd] =
                 IF meant = None \/ ~done THEN d1.fp ELSE Stat(meant)]
        /\ failed' = IF node \in DirNodes /\ ~done THEN failed \cup {pd} ELSE failed
    BY <1>2 DEF new
  <2> HIDE DEF done
  <2> QED BY <1>1, <1>3, <1>4, <1>6, <2>1, <2>2 DEF Inv, TypeOK
<1>8. ASSUME done, taken <= ByteSize, meant # None PROVE Stat(meant) = d1.fp
  <2>1. name = meant
    BY <1>8, HostNameMeant
  <2>2. d1.fp = node
    BY <1>2, <1>8
  <2> QED BY <1>8, <2>1, <2>2
<1>9. HeldInv' /\ FlagInv'
  <2>1. d1.fp \in {None, node} /\ (node \in DirNodes => d1.dir /\ (done => d1.dirfp # {}))
        /\ (node \in FileNodes => ~d1.dir) /\ (node = None => d1.dir = pdv[pd].dir)
    BY <1>2
  <2>2. /\ pdv' = [pdv EXCEPT ![pd] = new]
        /\ held' = [held EXCEPT ![pd] = IF done THEN p ELSE None]
        /\ want' = [want EXCEPT ![pd] =
                 IF meant = None \/ ~done THEN d1.fp ELSE Stat(meant)]
        /\ failed' = IF node \in DirNodes /\ ~done THEN failed \cup {pd} ELSE failed
    BY <1>2
  <2> HIDE DEF new, node, meant, name
  <2>3. HeldInv'
    BY <1>1, <1>3, <1>4, <1>8, <2>2 DEF Inv, TypeOK, HeldInv
  <2>4. FlagInv'
    <3> HIDE DEF done
    <3>1. ASSUME NEW q \in Pds, q # pd, q \notin failed'
          PROVE  pdv'[q] = pdv[q] /\ q \notin failed
      BY <2>2, <3>1 DEF Inv, TypeOK
    <3>2. ASSUME pd \notin failed'
          PROVE  pdv'[pd] = new /\ pd \notin failed /\ (node \in DirNodes => done)
      BY <1>1, <2>2, <3>2 DEF Inv, TypeOK
    <3>3. ASSUME pd \notin failed'
          PROVE  /\ new.use => /\ new.dir <=> new.fp \in DirNodes
                               /\ new.dir => new.dirfp # {}
                 /\ ~new.use => ~new.dir
      <4>1. d1.fp # None <=> done
        BY DEF done
      <4> QED BY <1>1, <1>3, <2>1, <3>2, <3>3, <4>1 DEF Inv, FlagInv, Nodes
    <3> QED BY <1>1, <3>1, <3>2, <3>3 DEF Inv, FlagInv
  <2> QED BY <2>3, <2>4
<1> QED BY <1>5, <1>7, <1>9 DEF Inv

LEMMA NextInv == Inv /\ [Next]_vars => Inv'
<1> SUFFICES ASSUME Inv, [Next]_vars PROVE Inv'
  OBVIOUS
<1>1. /\ system.names \subseteq PathList \cup {None}
      /\ system.dirs \subseteq (PathList \cup {None}) \X {"data", "exec"}
      /\ system.host \subseteq {"ok", "noread", "nomem"}
  BY SystemAssumption DEF Inv, TypeOK
<1>2. ASSUME NEW p \in Procs, NEW pd \in Pds, NEW n \in system.names,
             NEW exec \in BOOLEAN, NEW host \in BOOLEAN,
             \/ Create(p, pd, n, exec, host) \/ MakDir(p, pd, n, exec, host)
             \/ Delete(p, pd, n, exec, host)
      PROVE  Inv'
  <2>1. n \in PathList \cup {None}
    BY <1>1
  <2> QED BY <1>2, <2>1, CreateInv, MakDirInv, DeleteInv
<1>3. ASSUME NEW p \in Procs, NEW pd \in Pds, NEW n \in system.names,
             NEW exec \in BOOLEAN, NEW host \in system.host,
             Open(p, pd, n, exec, host)
      PROVE  Inv'
  <2>1. n \in PathList \cup {None} /\ host \in {"ok", "noread", "nomem"}
    BY <1>1
  <2> QED BY <1>3, <2>1, OpenInv
<1>4. ASSUME NEW p \in Procs, NEW e \in system.dirs, ChgDir(p, e[1], e[2])
      PROVE  Inv'
  <2>1. e[1] \in PathList \cup {None} /\ e[2] \in {"data", "exec"}
    BY <1>1
  <2> QED BY <1>4, <2>1, ChgDirInv
<1>5. ASSUME UNCHANGED vars PROVE Inv'
  <2>1. TypeOK'
    BY <1>5 DEF vars, Inv, TypeOK, Pds
  <2>2. DirInv'
    BY <1>5 DEF vars, Inv, DirInv
  <2>3. HeldInv'
    BY <1>5 DEF vars, Inv, HeldInv, Pds
  <2>4. FlagInv'
    BY <1>5 DEF vars, Inv, FlagInv, Pds
  <2> QED BY <2>1, <2>2, <2>3, <2>4 DEF Inv
<1> QED
  BY <1>2, <1>3, <1>4, <1>5, UseInv, CloseInv, FdInfoInv, FdInv DEF Next

LEMMA SpecInv == Spec => []Inv
BY InitInv, NextInv, PTL DEF Spec

(* The types hold, setcd's index and byte stay within their ranges.        *)
THEOREM TypeHolds == Spec => []TypeOK
<1>1. Inv => TypeOK
  BY DEF Inv
<1> QED BY <1>1, SpecInv, PTL

(* The bytes in P$DIO stand for the directories that the processes changed *)
(* to, until setcd has taken more entries than a Byte can name.            *)
THEOREM CurDirHolds == Spec => []CurDirNames
<1>1. Inv => CurDirNames
  BY DEF Inv, DirInv, CurDirNames
<1> QED BY <1>1, SpecInv, PTL

(* An open path number has a stream, of the file that was meant.           *)
THEOREM OpenHolds == Spec => []OpenIsMeant
<1>1. Inv => OpenIsMeant
  BY DEF Inv, HeldInv, OpenIsMeant
<1> QED BY <1>1, SpecInv, PTL

(* The dir flag of a descriptor in use tells directories from files.       *)
THEOREM DirFlagHolds == Spec => []DirFlag
<1>1. Inv => DirFlag
  BY DEF Inv, FlagInv, DirFlag
<1> QED BY <1>1, SpecInv, PTL

-----------------------------------------------------------------------------
(* What a call may change on the host. *)

LEMMA ChangeMeant ==
    ASSUME Inv, taken <= ByteSize, NEW p \in Procs, NEW n \in PathList \cup {None},
           NEW exec \in BOOLEAN, HostName(n, CurDir(p, exec)) # None
    PROVE  Meant(p, n, exec) \in {None, HostName(n, CurDir(p, exec))}
BY HostNameMeant

Change(q) ==
    \/ last'.done /\ last'.named \in {q, None}
    \/ /\ last'.call = "Create" /\ ~last'.done
       /\ \E pd \in Pds : held[pd] = None /\ pdv[pd].name = q

(* A call makes or removes only the file that was meant.                   *)
THEOREM OnlyMeantHolds == Spec => OnlyMeant
<1> DEFINE P == taken <= ByteSize => \A q \in Paths : fs'[q] # fs[q] => Change(q)
<1>1. Inv /\ [Next]_vars => P
  <2> SUFFICES ASSUME Inv, [Next]_vars, taken <= ByteSize, NEW q \in Paths,
                      fs'[q] # fs[q]
               PROVE  Change(q)
    OBVIOUS
  <2>1. system.names \subseteq PathList \cup {None} /\ fs \in [Paths -> Nodes \cup {None}]
    BY SystemAssumption DEF Inv, TypeOK
  <2>2. PICK p \in Procs, pd \in Pds, n \in system.names, exec \in BOOLEAN,
             host \in BOOLEAN :
          \/ Create(p, pd, n, exec, host) \/ MakDir(p, pd, n, exec, host)
          \/ Delete(p, pd, n, exec, host)
    <3>1. ~ UNCHANGED vars
      BY DEF vars
    <3>2. \A p \in Procs, pd \in Pds, n \in system.names, exec \in BOOLEAN,
            host \in system.host : ~ Open(p, pd, n, exec, host)
      <4> SUFFICES ASSUME NEW p \in Procs, NEW pd \in Pds, NEW n \in system.names,
                          NEW exec \in BOOLEAN, NEW host \in system.host,
                          Open(p, pd, n, exec, host)
                   PROVE  fs' = fs
        OBVIOUS
      <4> QED BY Zenon DEF Open
    <3>3. \A p \in Procs, d \in system.dirs : ~ ChgDir(p, d[1], d[2])
      <4> SUFFICES ASSUME NEW p \in Procs, NEW d \in system.dirs, ChgDir(p, d[1], d[2])
                   PROVE  fs' = fs
        OBVIOUS
      <4> QED BY DEF ChgDir
    <3>4. \A pd \in Pds : ~ Close(pd) /\ \A op \in {"Read", "Write", "SetStat"} : ~ Use(pd, op)
      BY DEF Use, Close
    <3>5. \A p \in Procs, pd \in Pds, exec \in BOOLEAN :
            ~ Fd(p, pd, exec) /\ \A node \in Nodes : ~ FdInfo(p, pd, node, exec)
      <4>1. ASSUME NEW p \in Procs, NEW pd \in Pds, NEW exec \in BOOLEAN, Fd(p, pd, exec)
            PROVE  fs' = fs
        BY <4>1 DEF Fd
      <4>2. ASSUME NEW p \in Procs, NEW pd \in Pds, NEW node \in Nodes,
                   NEW exec \in BOOLEAN, FdInfo(p, pd, node, exec)
            PROVE  fs' = fs
        BY <4>2 DEF FdInfo
      <4> QED BY <4>1, <4>2
    <3> QED BY <3>1, <3>2, <3>3, <3>4, <3>5 DEF Next
  <2> DEFINE name == HostName(n, CurDir(p, exec))
             meant == Meant(p, n, exec)
  <2>3. n \in PathList \cup {None} /\ (name # None => meant \in {None, name})
    BY <2>1, <2>2, ChangeMeant
  <2>4. CASE Create(p, pd, n, exec, host)
    <3>1. /\ last' = Result("Create", name # None, meant) /\ Free(pd)
          /\ q = IF name # None THEN name ELSE pdv[pd].name
      BY <2>1, <2>4 DEF Create
    <3> QED BY <2>3, <3>1 DEF Change, Result, Free
  <2>5. CASE MakDir(p, pd, n, exec, host)
    <3>1. last' = Result("MakDir", TRUE, meant) /\ q = name /\ name # None
      BY <2>1, <2>5 DEF MakDir
    <3> QED BY <2>3, <3>1 DEF Change, Result
  <2>6. CASE Delete(p, pd, n, exec, host)
    <3>1. last' = Result("Delete", TRUE, meant) /\ q = name /\ name # None
      BY <2>1, <2>6 DEF Delete
    <3> QED BY <2>3, <3>1 DEF Change, Result
  <2> QED BY <2>2, <2>4, <2>5, <2>6
<1>2. Inv /\ [Next]_vars => [P]_vars
  BY <1>1
<1>3. Spec => [][P]_vars
  BY <1>2, SpecInv, PTL DEF Spec
<1> QED BY <1>3 DEF OnlyMeant, Change

-----------------------------------------------------------------------------
(* What SS.FDInf and SS.FD answer. *)

LEMMA LastName ==
    ASSUME NEW q \in Seq(STRING), q # <<>>
    PROVE  Up(q) \o <<q[Len(q)]>> = q
BY DEF Up

LEMMA NumberIsFound ==
    ASSUME Inv, NEW p \in Procs, NEW pd \in Pds, NEW node \in Nodes,
           NEW exec \in BOOLEAN, FdInfo(p, pd, node, exec)
    PROVE  NumberFound
<1> DEFINE cur == cdt[CurDir(p, exec)]
           Of(q) == {e \in UNION pdv[q].dirfp : e[2] = Low[node]}
           listed == {q \in Pds : pdv[q].use /\ pdv[q].dir /\ Of(q) # {}}
           entries == UNION {Of(q) : q \in {r \in listed : \A s \in listed : r <= s}}
           Found(e) == IF None \in {cur, e[1]} THEN None ELSE Walk(cur, e[1])
<1>1. PICK e \in IF listed = {} THEN {<<None, Low[node]>>} ELSE entries :
        last' = [Result("FdInfo", Found(e) # None, cur)
                  EXCEPT !.asked = node, !.found = Found(e)]
  BY Zenon DEF FdInfo
<1>2. last'.named = cur /\ last'.asked = node /\ last'.found = Found(e)
  BY <1>1 DEF Result
<1> SUFFICES ASSUME IsDir(cur), Found(e) # None,
                    \A f \in Entries(cur) :
                      EntryName[<<f[Len(f)], fs[f]>>] \in {f[Len(f)], None},
                    \A q \in Pds : pdv[q].use /\ pdv[q].dir =>
                      pdv[q].dirfp = {Listing(cur)}
             PROVE  Low[Found(e)] = Low[node]
  BY <1>2 DEF NumberFound
<1>3. cur # None /\ e[1] # None /\ Found(e) = Walk(cur, e[1])
  OBVIOUS
<1>4. e \in entries
  <2> HIDE DEF entries, listed, Found
  <2>1. listed = {} => e = <<None, Low[node]>>
    BY <1>1
  <2>2. listed # {}
    BY <1>3, <2>1
  <2> QED BY <1>1, <2>2
<1>5. PICK q \in Pds : pdv[q].use /\ pdv[q].dir /\ e \in UNION pdv[q].dirfp
                      /\ e[2] = Low[node]
  BY <1>4
<1>6. e \in Listing(cur)
  BY <1>5
<1>7. CASE e \in {<<EntryName[<<f[Len(f)], fs[f]>>], Low[fs[f]]>> : f \in Entries(cur)}
  <2>1. PICK f \in Entries(cur) : e = <<EntryName[<<f[Len(f)], fs[f]>>], Low[fs[f]]>>
    BY <1>7
  <2>2. f \in Paths /\ f # <<>> /\ Up(f) = cur
    BY DEF Entries
  <2>3. e[1] = f[Len(f)] /\ e[1] # ".." /\ e[2] = Low[fs[f]]
    <3>1. e[1] = f[Len(f)] /\ e[2] = Low[fs[f]]
      BY <1>3, <2>1
    <3>2. f[Len(f)] \in Names
      BY <2>2 DEF Names
    <3> QED BY <3>1, <3>2, EntryAssumption
  <2>4. cur \o <<e[1]>> = f
    BY <2>2, <2>3, LastName
  <2>5. Found(e) = fs[f]
    BY <1>3, <2>2, <2>3, <2>4 DEF Walk, Stat
  <2> QED BY <1>5, <2>3, <2>5
<1>8. CASE e = <<None, Low[fs[cur]]>>
  BY <1>3, <1>8
<1>9. CASE e = <<"..", Low[Parent(cur)]>>
  <2>1. e[1] = ".." /\ e[2] = Low[Parent(cur)]
    BY <1>9
  <2> QED BY <1>3, <1>5, <2>1 DEF Walk
<1> QED BY <1>6, <1>7, <1>8, <1>9 DEF Listing

LEMMA FileIsFound ==
    ASSUME Inv, NEW p \in Procs, NEW pd \in Pds, NEW exec \in BOOLEAN, Fd(p, pd, exec)
    PROVE  FileFound
<1> DEFINE cur == cdt[CurDir(p, exec)]
           found == IF cur = None THEN None
                    ELSE Stat(cur \o system.drv \o pdv[pd].name)
<1>1. last'.named = cur /\ last'.asked = pdv[pd].fp /\ last'.found = found
  BY DEF Fd, Result
<1> SUFFICES ASSUME cur = <<>>, system.drv = <<>>, Stat(pdv[pd].name) = pdv[pd].fp
             PROVE  found = pdv[pd].fp
  BY <1>1 DEF FileFound
<1>2. pdv[pd].fp # None
  BY DEF Inv, HeldInv, Fd
<1>3. pdv[pd].name \in Seq(STRING)
  BY <1>2, StatPath
<1>4. <<>> \o <<>> \o pdv[pd].name = pdv[pd].name
  BY <1>3
<1>5. <<>> # None
  OBVIOUS
<1> QED BY <1>4, <1>5

(* Whatever is open and whatever calls have failed, SS.FDInf finds no file *)
(* of another number, not even by ".." or for two inodes that agree in 24  *)
(* bits, as long as the image it searches and the directory it looks in    *)
(* are the same and no name is cut; and SS.FD finds the open file when the *)
(* path it puts before the name is empty.                                  *)
THEOREM InfoRightHolds == Spec => InfoRight
<1> DEFINE P == NumberFound /\ FileFound
<1>1. ASSUME Inv, Next PROVE P
  <2>1. ASSUME last'.call \notin {"FdInfo", "Fd"} PROVE P
    BY <2>1 DEF NumberFound, FileFound
  <2>2. ASSUME NEW p \in Procs, NEW pd \in Pds, NEW n \in system.names,
               NEW exec \in BOOLEAN, NEW host \in BOOLEAN,
               \/ Create(p, pd, n, exec, host) \/ MakDir(p, pd, n, exec, host)
               \/ Delete(p, pd, n, exec, host)
        PROVE  P
    <3>1. ASSUME Create(p, pd, n, exec, host) PROVE last'.call = "Create"
      <4>1. \E done : last' = Result("Create", done, Meant(p, n, exec))
        BY <3>1, Zenon DEF Create
      <4> QED BY <4>1 DEF Result
    <3>2. ASSUME MakDir(p, pd, n, exec, host) PROVE last'.call = "MakDir"
      BY <3>2 DEF MakDir, Result
    <3>3. ASSUME Delete(p, pd, n, exec, host) PROVE last'.call = "Delete"
      BY <3>3 DEF Delete, Result
    <3> QED BY <2>1, <2>2, <3>1, <3>2, <3>3
  <2>3. ASSUME NEW p \in Procs, NEW pd \in Pds, NEW n \in system.names,
               NEW exec \in BOOLEAN, NEW host \in system.host,
               Open(p, pd, n, exec, host)
        PROVE  P
    <3>1. last'.call = "Open"
      BY <2>3 DEF Open, Result
    <3> QED BY <2>1, <3>1
  <2>4. ASSUME NEW p \in Procs, NEW d \in system.dirs, ChgDir(p, d[1], d[2])
        PROVE  P
    <3>1. last'.call = "ChgDir"
      BY <2>4 DEF ChgDir, Result
    <3> QED BY <2>1, <3>1
  <2>5. ASSUME NEW pd \in Pds,
               Close(pd) \/ \E op \in {"Read", "Write", "SetStat"} : Use(pd, op)
        PROVE  P
    <3>1. last'.call \in {"Close", "Read", "Write", "SetStat"}
      BY <2>5 DEF Close, Use, Result
    <3> QED BY <2>1, <3>1
  <2>6. ASSUME NEW p \in Procs, NEW pd \in Pds, NEW node \in Nodes,
               NEW exec \in BOOLEAN, FdInfo(p, pd, node, exec)
        PROVE  P
    <3>1. last'.call = "FdInfo"
      BY <2>6 DEF FdInfo, Result
    <3> QED BY <1>1, <2>6, <3>1, NumberIsFound DEF FileFound
  <2>7. ASSUME NEW p \in Procs, NEW pd \in Pds, NEW exec \in BOOLEAN, Fd(p, pd, exec)
        PROVE  P
    <3>1. last'.call = "Fd"
      BY <2>7 DEF Fd, Result
    <3> QED BY <1>1, <2>7, <3>1, FileIsFound DEF NumberFound
  <2> HIDE DEF P
  <2> QED BY <1>1, <2>2, <2>3, <2>4, <2>5, <2>6, <2>7 DEF Next
<1>2. Inv /\ [Next]_vars => [P]_vars
  BY <1>1
<1>3. Spec => [][P]_vars
  BY <1>2, SpecInv, PTL DEF Spec
<1> QED BY <1>3 DEF InfoRight
=============================================================================
