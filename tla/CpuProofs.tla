-------------------------------- MODULE CpuProofs ----------------------------------
(***************************************************************************)
(* What the arithmetic and the instructions of engine.c do, for all bytes, *)
(* words and machines. The arithmetic: the flags of sums and differences,  *)
(* the order that the branches see after a comparison, words added byte by *)
(* byte, decimal sums, and the widths of all results. The instructions:    *)
(* each makes a machine of a machine, what is pushed is pulled again, how  *)
(* far each moves the program counter, and which functions of v09s.c and   *)
(* v09st.c compute the same.                                               *)
(***************************************************************************)
EXTENDS Agreement, Numbers, FiniteSetTheorems, TLAPS

-----------------------------------------------------------------------------
(* Arithmetic of bytes and words.                                          *)

(* An interval by its bounds. *)
LEMMA RangeDef == \A n \in Nat : \A x : x \in 0..n <=> x \in Int /\ 0 <= x /\ x <= n
  BY SMT

(* Words by their bounds: the solver is slow on large intervals. *)
LEMMA WordDef == \A x : x \in Word <=> x \in Int /\ 0 <= x /\ x <= 65535
<1> DEFINE n == 65535
<1>1. n \in Nat
  BY SMT
<1>2. Word = 0..n
  BY DEF Word
<1> HIDE DEF n
<1>3. \A x : x \in Word <=> x \in Int /\ 0 <= x /\ x <= n
  BY <1>1, <1>2, RangeDef
<1> QED BY <1>3 DEF n

(* Bytes by their bounds. *)
LEMMA ByteDef == \A x : x \in Byte <=> x \in Int /\ 0 <= x /\ x <= 255
  BY SMT DEF Byte

(* The flags that SetStatus leaves, one by one. *)
LEMMA StatusFlags ==
  ASSUME NEW cc \in SUBSET Flags, NEW a, NEW b, NEW res
  PROVE  LET c == SetStatus(cc, a, b, res)
         IN  /\ "C" \in c <=> Bit(res, 256) = 1
             /\ "Z" \in c <=> res % 256 = 0
             /\ "N" \in c <=> res % 256 >= 128
             /\ "V" \in c <=> (Bit(a, 128) + Bit(b, 128) + Bit(res, 128) + Bit(res, 256)) % 2 = 1
             /\ "H" \in c <=> (Bit(a, 16) + Bit(b, 16) + Bit(res, 16)) % 2 = 1
             /\ c \in SUBSET Flags
  BY DEF SetStatus, SetNZ8, Put, Flags

(* And those of SetStatusD. *)
LEMMA StatusDFlags ==
  ASSUME NEW cc \in SUBSET Flags, NEW a, NEW b, NEW res
  PROVE  LET c == SetStatusD(cc, a, b, res)
         IN  /\ "C" \in c <=> Bit(res, 65536) = 1
             /\ "Z" \in c <=> res % 65536 = 0
             /\ "N" \in c <=> res % 65536 >= 32768
             /\ "V" \in c <=> (Bit(a, 32768) + Bit(b, 32768) + Bit(res, 32768)
                                             + Bit(res, 65536)) % 2 = 1
             /\ c \in SUBSET Flags
  BY DEF SetStatusD, SetNZ16, Put, Flags

(* The sign bits of bytes and words. *)
LEMMA TopBits ==
  /\ \A x \in Byte : Bit(x, 128) = (IF x >= 128 THEN 1 ELSE 0)
  /\ \A x \in Word : Bit(x, 32768) = (IF x >= 32768 THEN 1 ELSE 0)
  BY SMT DEF Bit, Byte, Word

(* A sum of nine bits. *)
LEMMA Nine ==
  ASSUME NEW x \in 0..511
  PROVE  /\ x % 256 = (IF x < 256 THEN x ELSE x - 256)
         /\ x % 256 \in Byte
         /\ Bit(x, 256) = (IF x < 256 THEN 0 ELSE 1)
         /\ Bit(x, 128) = (IF x % 256 >= 128 THEN 1 ELSE 0)
<1>1. CASE x < 256
  BY <1>1, SMT DEF Bit, Byte
<1>2. CASE x >= 256
  BY <1>2, SMT DEF Bit, Byte
<1> QED BY <1>1, <1>2, SMT

(* A difference of bytes, with a borrow, as a word. *)
LEMMA Borrowed ==
  ASSUME NEW x \in -256..255
  PROVE  LET res == (65536 + x) % 65536
         IN  /\ res % 256 = (IF x >= 0 THEN x ELSE 256 + x)
             /\ res % 256 \in Byte
             /\ Bit(res, 256) = (IF x >= 0 THEN 0 ELSE 1)
             /\ Bit(res, 128) = (IF res % 256 >= 128 THEN 1 ELSE 0)
<1> DEFINE res == (65536 + x) % 65536
<1>1. CASE x >= 0
  <2>1. res = x
    BY <1>1, SMT
  <2>2. x \in 0..511
    BY <1>1, SMT
  <2>3. QED BY <2>1, <2>2, <1>1, Nine, SMT
<1>2. CASE x < 0
  <2>1. res = 65536 + x
    BY <1>2, SMT
  <2> DEFINE k == 256 + x
  <2>2. k \in 0..255
    BY <1>2, SMT
  <2>3. res = 65280 + k
    BY <2>1, SMT
  <2> HIDE DEF res, k
  <2>4. res % 256 = k /\ Bit(res, 256) = 1
    BY <2>2, <2>3, SMT DEF Bit
  <2>5. Bit(res, 128) = Bit(k, 128)
    BY <2>2, <2>3, SMT DEF Bit
  <2>6. res % 256 = 256 + x
    BY <2>4 DEF k
  <2>7. k \in Byte
    BY <2>2 DEF Byte
  <2>8. Bit(k, 128) = IF k >= 128 THEN 1 ELSE 0
    BY <2>7, TopBits
  <2> QED BY <2>4, <2>5, <2>6, <2>7, <2>8, <1>2, SMT DEF res
<1> QED BY <1>1, <1>2, SMT

(* A sum of seventeen bits. *)
LEMMA Seventeen ==
  ASSUME NEW x \in Int, 0 <= x, x <= 131071
  PROVE  /\ x % 65536 = (IF x < 65536 THEN x ELSE x - 65536)
         /\ x % 65536 \in Word
         /\ Bit(x, 65536) = (IF x < 65536 THEN 0 ELSE 1)
         /\ Bit(x, 32768) = (IF x % 65536 >= 32768 THEN 1 ELSE 0)
<1>1. CASE x < 65536
  <2>1. x % 65536 = x /\ x \in Word
    BY <1>1, WordDef, SMT
  <2>2. Bit(x, 65536) = 0
    BY <1>1, SMT DEF Bit
  <2>3. QED BY <1>1, <2>1, <2>2, TopBits
<1>2. CASE x >= 65536
  <2> DEFINE k == x - 65536
  <2>1. k \in Word /\ x = 65536 + k
    BY <1>2, WordDef, SMT
  <2> HIDE DEF k
  <2>2. x % 65536 = k
    BY <2>1, WordDef, SMT
  <2>3. x \div 32768 = 2 + (k \div 32768) /\ k \div 32768 \in {0, 1}
    BY <2>1, WordDef, SMT
  <2>4. Bit(x, 32768) = Bit(k, 32768)
    BY <2>3, SMT DEF Bit
  <2>5. Bit(x, 65536) = 1
    BY <2>1, WordDef, SMT DEF Bit
  <2>6. Bit(k, 32768) = IF k >= 32768 THEN 1 ELSE 0
    BY <2>1, TopBits
  <2>7. ~(x < 65536) /\ k = x - 65536
    BY <2>1, WordDef, SMT
  <2> QED BY <2>1, <2>2, <2>4, <2>5, <2>6, <2>7
<1> QED BY <1>1, <1>2, SMT

(* A difference of words, as a number of seventeen bits. *)
LEMMA BorrowedD ==
  ASSUME NEW x \in Int, -65536 <= x, x <= 65535
  PROVE  LET res == (131072 + x) % 131072
         IN  /\ res % 65536 = (IF x >= 0 THEN x ELSE 65536 + x)
             /\ res % 65536 \in Word
             /\ Bit(res, 65536) = (IF x >= 0 THEN 0 ELSE 1)
             /\ Bit(res, 32768) = (IF res % 65536 >= 32768 THEN 1 ELSE 0)
<1> DEFINE res == (131072 + x) % 131072
<1>1. CASE x >= 0
  <2>1. res = x /\ x <= 131071 /\ x < 65536
    BY <1>1, SMT
  <2> HIDE DEF res
  <2>2. res % 65536 = x /\ res % 65536 \in Word /\ Bit(res, 65536) = 0
        /\ Bit(res, 32768) = (IF res % 65536 >= 32768 THEN 1 ELSE 0)
    BY <2>1, <1>1, Seventeen
  <2> QED BY <2>2, <1>1 DEF res
<1>2. CASE x < 0
  <2> DEFINE y == 131072 + x
  <2>1. res = y /\ y \in Int /\ 0 <= y /\ y <= 131071 /\ ~(y < 65536) /\ y - 65536 = 65536 + x
    BY <1>2, SMT
  <2> HIDE DEF res, y
  <2>2. res % 65536 = 65536 + x /\ res % 65536 \in Word /\ Bit(res, 65536) = 1
        /\ Bit(res, 32768) = (IF res % 65536 >= 32768 THEN 1 ELSE 0)
    BY <2>1, Seventeen
  <2>3. ~(x >= 0)
    BY <1>2, SMT
  <2> QED BY <2>2, <2>3 DEF res
<1> QED BY <1>1, <1>2, SMT

(* The powers of AsSigned. *)
LEMMA TwoPowers == 2^(8 - 1) = 128 /\ 2^8 = 256 /\ 2^(16 - 1) = 32768 /\ 2^16 = 65536
  BY SMT

-----------------------------------------------------------------------------
(* Comparisons.                                                            *)

(* What the branches look at. *)
LEMMA TakenFlags ==
  ASSUME NEW cc
  PROVE  LET less == ("N" \in cc) # ("V" \in cc)
         IN  /\ Taken(2, cc) <=> ~("C" \in cc \/ "Z" \in cc)
             /\ Taken(3, cc) <=> ("C" \in cc \/ "Z" \in cc)
             /\ Taken(4, cc) <=> "C" \notin cc
             /\ Taken(5, cc) <=> "C" \in cc
             /\ Taken(6, cc) <=> "Z" \notin cc
             /\ Taken(7, cc) <=> "Z" \in cc
             /\ Taken(12, cc) <=> ~less
             /\ Taken(13, cc) <=> less
             /\ Taken(14, cc) <=> ~(less \/ "Z" \in cc)
             /\ Taken(15, cc) <=> (less \/ "Z" \in cc)
<1> DEFINE less == ("N" \in cc) # ("V" \in cc)
<1>1. 2 \div 2 = 1 /\ 3 \div 2 = 1 /\ 4 \div 2 = 2 /\ 5 \div 2 = 2 /\ 6 \div 2 = 3 /\ 7 \div 2 = 3
  BY SMT
<1>2. 12 \div 2 = 6 /\ 13 \div 2 = 6 /\ 14 \div 2 = 7 /\ 15 \div 2 = 7
  BY SMT
<1>3. 2 % 2 = 0 /\ 3 % 2 = 1 /\ 4 % 2 = 0 /\ 5 % 2 = 1 /\ 6 % 2 = 0 /\ 7 % 2 = 1
  BY SMT
<1>4. 12 % 2 = 0 /\ 13 % 2 = 1 /\ 14 % 2 = 0 /\ 15 % 2 = 1
  BY SMT
<1>5. /\ Taken(2, cc) <=> ~("C" \in cc \/ "Z" \in cc)
      /\ Taken(3, cc) <=> ("C" \in cc \/ "Z" \in cc)
  BY <1>1, <1>3, SMT DEF Taken
<1>6. /\ Taken(4, cc) <=> "C" \notin cc
      /\ Taken(5, cc) <=> "C" \in cc
  BY <1>1, <1>3, SMT DEF Taken
<1>7. /\ Taken(6, cc) <=> "Z" \notin cc
      /\ Taken(7, cc) <=> "Z" \in cc
  BY <1>1, <1>3, SMT DEF Taken
<1>8. /\ Taken(12, cc) <=> ~less
      /\ Taken(13, cc) <=> less
  BY <1>2, <1>4, SMT DEF Taken
<1>9. /\ Taken(14, cc) <=> ~(less \/ "Z" \in cc)
      /\ Taken(15, cc) <=> (less \/ "Z" \in cc)
  BY <1>2, <1>4, SMT DEF Taken
<1> QED BY <1>5, <1>6, <1>7, <1>8, <1>9

(* The orders that the branches stand for, one by one. *)
LEMMA MeantOrders ==
  ASSUME NEW l, NEW r, NEW bits
  PROVE  LET sl == AsSigned(l, bits)
             sr == AsSigned(r, bits)
         IN  /\ Meant(2, l, r, bits) <=> l > r
             /\ Meant(3, l, r, bits) <=> l <= r
             /\ Meant(4, l, r, bits) <=> l >= r
             /\ Meant(5, l, r, bits) <=> l < r
             /\ Meant(6, l, r, bits) <=> l # r
             /\ Meant(7, l, r, bits) <=> l = r
             /\ Meant(12, l, r, bits) <=> sl >= sr
             /\ Meant(13, l, r, bits) <=> sl < sr
             /\ Meant(14, l, r, bits) <=> sl > sr
             /\ Meant(15, l, r, bits) <=> sl <= sr
<1> DEFINE sl == AsSigned(l, bits)
<1> DEFINE sr == AsSigned(r, bits)
<1>1. Meant(2, l, r, bits) <=> l > r
  BY SMT DEF Meant
<1>2. Meant(3, l, r, bits) <=> l <= r
  BY SMT DEF Meant
<1>3. Meant(4, l, r, bits) <=> l >= r
  BY SMT DEF Meant
<1>4. Meant(5, l, r, bits) <=> l < r
  BY SMT DEF Meant
<1>5. Meant(6, l, r, bits) <=> l # r
  BY SMT DEF Meant
<1>6. Meant(7, l, r, bits) <=> l = r
  BY SMT DEF Meant
<1>7. Meant(12, l, r, bits) <=> sl >= sr
  BY SMT DEF Meant
<1>8. Meant(13, l, r, bits) <=> sl < sr
  BY SMT DEF Meant
<1>9. Meant(14, l, r, bits) <=> sl > sr
  BY SMT DEF Meant
<1>10. Meant(15, l, r, bits) <=> sl <= sr
  BY SMT DEF Meant
<1> QED BY <1>1, <1>2, <1>3, <1>4, <1>5, <1>6, <1>7, <1>8, <1>9, <1>10

(* Three flags of a comparison decide its order. *)
LEMMA OrderByFlags ==
  ASSUME NEW cc, NEW l \in Int, NEW r \in Int, NEW bits,
         "C" \in cc <=> l < r,
         "Z" \in cc <=> l = r,
         (("N" \in cc) # ("V" \in cc)) <=> AsSigned(l, bits) < AsSigned(r, bits),
         AsSigned(l, bits) \in Int, AsSigned(r, bits) \in Int,
         AsSigned(l, bits) = AsSigned(r, bits) <=> l = r
  PROVE  \A n \in (2..7) \cup (12..15) : Taken(n, cc) <=> Meant(n, l, r, bits)
<1> DEFINE less == ("N" \in cc) # ("V" \in cc)
<1> DEFINE sl == AsSigned(l, bits)
<1> DEFINE sr == AsSigned(r, bits)
<1>1. /\ l > r <=> ~(l < r \/ l = r)
      /\ l <= r <=> (l < r \/ l = r)
      /\ l >= r <=> ~(l < r)
  BY SMT
<1>2. Taken(2, cc) <=> Meant(2, l, r, bits)
  BY <1>1, TakenFlags, MeantOrders
<1>3. Taken(3, cc) <=> Meant(3, l, r, bits)
  BY <1>1, TakenFlags, MeantOrders
<1>4. Taken(4, cc) <=> Meant(4, l, r, bits)
  BY <1>1, TakenFlags, MeantOrders
<1>5. Taken(5, cc) <=> Meant(5, l, r, bits)
  BY TakenFlags, MeantOrders
<1>6. Taken(6, cc) <=> Meant(6, l, r, bits)
  BY TakenFlags, MeantOrders
<1>7. Taken(7, cc) <=> Meant(7, l, r, bits)
  BY TakenFlags, MeantOrders
<1>8. sl \in Int /\ sr \in Int /\ (sl = sr <=> l = r) /\ (less <=> sl < sr)
  OBVIOUS
<1> HIDE DEF sl, sr, less
<1>9. /\ sl > sr <=> ~(sl < sr \/ sl = sr)
      /\ sl <= sr <=> (sl < sr \/ sl = sr)
      /\ sl >= sr <=> ~(sl < sr)
  BY <1>8, SMT
<1>10. Taken(12, cc) <=> Meant(12, l, r, bits)
  BY <1>8, <1>9, TakenFlags, MeantOrders DEF less, sl, sr
<1>11. Taken(13, cc) <=> Meant(13, l, r, bits)
  BY <1>8, <1>9, TakenFlags, MeantOrders DEF less, sl, sr
<1>12. Taken(14, cc) <=> Meant(14, l, r, bits)
  BY <1>8, <1>9, TakenFlags, MeantOrders DEF less, sl, sr
<1>13. Taken(15, cc) <=> Meant(15, l, r, bits)
  BY <1>8, <1>9, TakenFlags, MeantOrders DEF less, sl, sr
<1>14. \A n \in (2..7) \cup (12..15) : n \in {2, 3, 4, 5, 6, 7, 12, 13, 14, 15}
  BY SMT
<1> QED BY <1>2, <1>3, <1>4, <1>5, <1>6, <1>7, <1>10, <1>11, <1>12, <1>13, <1>14

(* After CMP every branch is taken exactly in the order it is named for.   *)
THEOREM CompareOrder8 ==
  ASSUME NEW l \in Byte, NEW r \in Byte, NEW cc \in SUBSET Flags
  PROVE  \A n \in (2..7) \cup (12..15) :
            Taken(n, Binary("CMP", l, r, cc).cc) <=> Meant(n, l, r, 8)
<1> DEFINE res == (65536 + (l - r)) % 65536
<1> DEFINE c == SetStatus(cc, l, r, res)
<1>1. Binary("CMP", l, r, cc).cc = c
  <2>1. 65536 + l - r = 65536 + (l - r)
    BY SMT DEF Byte
  <2> QED BY <2>1 DEF Binary
<1>2. l \in Int /\ r \in Int /\ 0 <= l /\ l <= 255 /\ 0 <= r /\ r <= 255 /\ l - r \in -256..255
  BY SMT DEF Byte
<1>3. /\ res % 256 = (IF l - r >= 0 THEN l - r ELSE 256 + (l - r))
      /\ Bit(res, 256) = (IF l - r >= 0 THEN 0 ELSE 1)
      /\ Bit(res, 128) = (IF res % 256 >= 128 THEN 1 ELSE 0)
  BY <1>2, Borrowed
<1>4. AsSigned(l, 8) = (IF l >= 128 THEN l - 256 ELSE l)
      /\ AsSigned(r, 8) = (IF r >= 128 THEN r - 256 ELSE r)
  BY TwoPowers DEF AsSigned
<1> DEFINE p == Bit(l, 128)
<1> DEFINE q == Bit(r, 128)
<1> DEFINE t == Bit(res, 128)
<1> DEFINE w == Bit(res, 256)
<1> DEFINE z == res % 256
<1>5. /\ "C" \in c <=> w = 1
      /\ "Z" \in c <=> z = 0
      /\ "N" \in c <=> z >= 128
      /\ "V" \in c <=> (p + q + t + w) % 2 = 1
  BY StatusFlags
<1>6. p = (IF l >= 128 THEN 1 ELSE 0) /\ q = (IF r >= 128 THEN 1 ELSE 0)
  BY TopBits
<1>7. z = (IF l - r >= 0 THEN l - r ELSE 256 + (l - r)) /\ w = (IF l - r >= 0 THEN 0 ELSE 1)
      /\ t = (IF z >= 128 THEN 1 ELSE 0)
  BY <1>3
<1> HIDE DEF res, c, p, q, t, w, z
<1>8. ("C" \in c <=> l < r) /\ ("Z" \in c <=> l = r)
  BY <1>2, <1>5, <1>7, SMT
<1>9. ((z >= 128) # ((p + q + t + w) % 2 = 1)) <=> AsSigned(l, 8) < AsSigned(r, 8)
  BY <1>2, <1>4, <1>6, <1>7, SMT
<1>10. (("N" \in c) # ("V" \in c)) <=> AsSigned(l, 8) < AsSigned(r, 8)
  BY <1>5, <1>9
<1>11. AsSigned(l, 8) \in Int /\ AsSigned(r, 8) \in Int /\ (AsSigned(l, 8) = AsSigned(r, 8) <=> l = r)
  BY <1>2, <1>4, SMT
<1> QED BY <1>1, <1>2, <1>8, <1>10, <1>11, OrderByFlags

(* After a comparison of words, CMPX and its kin, the branches are taken   *)
(* in that order too, also where the difference overflows sixteen bits.    *)
THEOREM CompareOrder16 ==
  ASSUME NEW l \in Word, NEW r \in Word, NEW cc \in SUBSET Flags
  PROVE  \A n \in (2..7) \cup (12..15) :
            Taken(n, Sub16(l, r, cc).cc) <=> Meant(n, l, r, 16)
<1> DEFINE res == (131072 + (l - r)) % 131072
<1> DEFINE c == SetStatusD(cc, l, r, res)
<1>1. l \in Int /\ r \in Int /\ 0 <= l /\ l <= 65535 /\ 0 <= r /\ r <= 65535
  BY WordDef
<1>2. Sub16(l, r, cc).cc = c
  <2>1. 131072 + l - r = 131072 + (l - r)
    BY <1>1, SMT
  <2> QED BY <2>1 DEF Sub16
<1> DEFINE d == l - r
<1>3. d \in Int /\ -65536 <= d /\ d <= 65535
  BY <1>1, SMT
<1>4. /\ res % 65536 = (IF d >= 0 THEN d ELSE 65536 + d)
      /\ Bit(res, 65536) = (IF d >= 0 THEN 0 ELSE 1)
      /\ Bit(res, 32768) = (IF res % 65536 >= 32768 THEN 1 ELSE 0)
  BY <1>3, BorrowedD
<1>5. AsSigned(l, 16) = (IF l >= 32768 THEN l - 65536 ELSE l)
      /\ AsSigned(r, 16) = (IF r >= 32768 THEN r - 65536 ELSE r)
  BY TwoPowers DEF AsSigned
<1> DEFINE p == Bit(l, 32768)
<1> DEFINE q == Bit(r, 32768)
<1> DEFINE t == Bit(res, 32768)
<1> DEFINE w == Bit(res, 65536)
<1> DEFINE z == res % 65536
<1>6. /\ "C" \in c <=> w = 1
      /\ "Z" \in c <=> z = 0
      /\ "N" \in c <=> z >= 32768
      /\ "V" \in c <=> (p + q + t + w) % 2 = 1
  BY StatusDFlags
<1>7. p = (IF l >= 32768 THEN 1 ELSE 0) /\ q = (IF r >= 32768 THEN 1 ELSE 0)
  BY TopBits
<1>8. z = (IF l - r >= 0 THEN l - r ELSE 65536 + (l - r)) /\ w = (IF l - r >= 0 THEN 0 ELSE 1)
      /\ t = (IF z >= 32768 THEN 1 ELSE 0)
  BY <1>4
<1> HIDE DEF res, c, p, q, t, w, z, d
<1>9. ("C" \in c <=> l < r) /\ ("Z" \in c <=> l = r)
  BY <1>1, <1>6, <1>8, SMT
<1>10. ((z >= 32768) # ((p + q + t + w) % 2 = 1)) <=> AsSigned(l, 16) < AsSigned(r, 16)
  BY <1>1, <1>5, <1>7, <1>8, SMT
<1>11. (("N" \in c) # ("V" \in c)) <=> AsSigned(l, 16) < AsSigned(r, 16)
  BY <1>6, <1>10
<1>12. AsSigned(l, 16) \in Int /\ AsSigned(r, 16) \in Int
       /\ (AsSigned(l, 16) = AsSigned(r, 16) <=> l = r)
  BY <1>1, <1>5, SMT
<1> QED BY <1>1, <1>2, <1>9, <1>11, <1>12, OrderByFlags

-----------------------------------------------------------------------------
(* Sums over two bytes.                                                    *)

(* The result of a sum of bytes and a carry. *)
LEMMA ByteTotal ==
  ASSUME NEW a \in Byte, NEW b \in Byte, NEW k \in {0, 1}
  PROVE  LET x == a + b + k
         IN  /\ x < 256 => Lo(x) = x
             /\ x >= 256 => Lo(x) = x - 256
             /\ Lo(x) \in Byte
<1> DEFINE x == a + b + k
<1>1. x \in 0..511 /\ x \in Int
  BY SMT DEF Byte
<1>2. Lo(x) = (IF x < 256 THEN x ELSE x - 256) /\ Lo(x) \in Byte
  BY <1>1, Nine DEF Lo
<1> QED BY <1>1, <1>2, SMT

(* V and C of a sum of bytes, of which the second has a carry k.           *)
LEMMA ByteSum ==
  ASSUME NEW a \in Byte, NEW b \in Byte, NEW k \in {0, 1}, NEW cc \in SUBSET Flags
  PROVE  LET x == a + b + k
             c == SetStatus(cc, a, b, x)
         IN  /\ x < 256 => Lo(x) = x
             /\ x >= 256 => Lo(x) = x - 256
             /\ Lo(x) \in Byte
             /\ Carry(c) = (IF x < 256 THEN 0 ELSE 1)
             /\ "C" \in c <=> x >= 256
             /\ "N" \in c <=> Lo(x) >= 128
             /\ "V" \in c <=> ((a >= 128 <=> b >= 128) /\ ~(a >= 128 <=> Lo(x) >= 128))
             /\ c \in SUBSET Flags
<1> DEFINE x == a + b + k
<1> DEFINE c == SetStatus(cc, a, b, x)
<1>1. x \in 0..511 /\ x \in Int
  BY SMT DEF Byte
<1>2. /\ Lo(x) = (IF x < 256 THEN x ELSE x - 256)
      /\ Lo(x) \in Byte
      /\ Bit(x, 256) = (IF x < 256 THEN 0 ELSE 1)
      /\ Bit(x, 128) = (IF Lo(x) >= 128 THEN 1 ELSE 0)
  BY <1>1, Nine DEF Lo
<1>3. /\ "C" \in c <=> Bit(x, 256) = 1
      /\ "N" \in c <=> Lo(x) >= 128
      /\ "V" \in c <=> (Bit(a, 128) + Bit(b, 128) + Bit(x, 128) + Bit(x, 256)) % 2 = 1
      /\ c \in SUBSET Flags
  BY StatusFlags DEF Lo
<1>4. Bit(a, 128) = (IF a >= 128 THEN 1 ELSE 0) /\ Bit(b, 128) = (IF b >= 128 THEN 1 ELSE 0)
  BY TopBits
<1>5. a \in Int /\ b \in Int /\ 0 <= a /\ 0 <= b /\ a <= 255 /\ b <= 255
  BY ByteDef
<1>6. x = a + b + k
  OBVIOUS
<1> HIDE DEF x, c
<1>7. "C" \in c <=> x >= 256
  BY <1>1, <1>2, <1>3, SMT
<1>8. Carry(c) = IF x < 256 THEN 0 ELSE 1
  BY <1>1, <1>7, SMT DEF Carry
<1> DEFINE y == Lo(x)
<1> DEFINE p == Bit(a, 128)
<1> DEFINE q == Bit(b, 128)
<1> DEFINE t == Bit(x, 128)
<1> DEFINE w == Bit(x, 256)
<1>9. /\ y = (IF x < 256 THEN x ELSE x - 256)
      /\ w = (IF x < 256 THEN 0 ELSE 1)
      /\ t = (IF y >= 128 THEN 1 ELSE 0)
      /\ p = (IF a >= 128 THEN 1 ELSE 0)
      /\ q = (IF b >= 128 THEN 1 ELSE 0)
  BY <1>2, <1>4
<1> HIDE DEF y, p, q, t, w
<1>10. (p + q + t + w) % 2 = 1 <=> ((a >= 128 <=> b >= 128) /\ ~(a >= 128 <=> y >= 128))
  BY <1>5, <1>6, <1>9, SMT
<1>11. "V" \in c <=> ((a >= 128 <=> b >= 128) /\ ~(a >= 128 <=> Lo(x) >= 128))
  BY <1>3, <1>10 DEF y, p, q, t, w
<1>12. (x < 256 => Lo(x) = x) /\ (x >= 256 => Lo(x) = x - 256)
  BY <1>1, <1>2, SMT
<1> QED BY <1>2, <1>3, <1>7, <1>8, <1>11, <1>12 DEF x, c

(* The flags of a sum of words. *)
LEMMA WordSum ==
  ASSUME NEW a \in Word, NEW b \in Word, NEW cc \in SUBSET Flags
  PROVE  LET x == a + b
             s == Add16(a, b, cc)
         IN  /\ s.r \in Word
             /\ "C" \in s.cc <=> x >= 65536
             /\ "N" \in s.cc <=> s.r >= 32768
             /\ "V" \in s.cc <=> ((a >= 32768 <=> b >= 32768) /\ ~(a >= 32768 <=> s.r >= 32768))
<1> DEFINE x == a + b
<1> DEFINE c == SetStatusD(cc, a, b, x)
<1> DEFINE y == x % 65536
<1>1. a \in Int /\ b \in Int /\ 0 <= a /\ 0 <= b /\ a <= 65535 /\ b <= 65535
  BY WordDef
<1>2. x \in Int /\ 0 <= x /\ x <= 131071 /\ x = a + b
  BY <1>1, SMT
<1>3. Add16(a, b, cc).r = y /\ Add16(a, b, cc).cc = c
  BY DEF Add16
<1>4. /\ "C" \in c <=> Bit(x, 65536) = 1
      /\ "N" \in c <=> y >= 32768
      /\ "V" \in c <=> (Bit(a, 32768) + Bit(b, 32768) + Bit(x, 32768) + Bit(x, 65536)) % 2 = 1
  BY StatusDFlags
<1> DEFINE p == Bit(a, 32768)
<1> DEFINE q == Bit(b, 32768)
<1> DEFINE t == Bit(x, 32768)
<1> DEFINE w == Bit(x, 65536)
<1> HIDE DEF x, c
<1>5. /\ y = (IF x < 65536 THEN x ELSE x - 65536)
      /\ y \in Word
      /\ w = (IF x < 65536 THEN 0 ELSE 1)
      /\ t = (IF y >= 32768 THEN 1 ELSE 0)
  BY <1>2, Seventeen
<1>6. p = (IF a >= 32768 THEN 1 ELSE 0) /\ q = (IF b >= 32768 THEN 1 ELSE 0)
  BY TopBits
<1>7. "V" \in c <=> (p + q + t + w) % 2 = 1
  BY <1>4
<1>8. "C" \in c <=> w = 1
  BY <1>4
<1>9. "N" \in c <=> y >= 32768
  BY <1>4
<1> HIDE DEF y, p, q, t, w
<1>10. (p + q + t + w) % 2 = 1 <=> ((a >= 32768 <=> b >= 32768) /\ ~(a >= 32768 <=> y >= 32768))
  BY <1>1, <1>2, <1>5, <1>6, SMT
<1>11. "C" \in c <=> x >= 65536
  BY <1>2, <1>5, <1>8, SMT
<1> QED BY <1>3, <1>5, <1>7, <1>9, <1>10, <1>11 DEF x

(* A word from its two bytes. *)
LEMMA TwoBytes ==
  ASSUME NEW h \in Byte, NEW l \in Byte
  PROVE  /\ 256 * h + l \in Word
         /\ (256 * h + l >= 32768) <=> h >= 128
  BY ByteDef, WordDef, SMT

(* ADDB of the low bytes and ADCA of the high ones leave in D, C, V and N  *)
(* what ADDD leaves.                                                       *)
THEOREM AddAddsWords ==
  ASSUME NEW a \in Byte, NEW b \in Byte, NEW hi \in Byte, NEW lo \in Byte,
         NEW cc \in SUBSET Flags
  PROVE  LET low == Binary("ADD", b, lo, cc)
             high == Binary("ADC", a, hi, low.cc)
             wide == Add16(256 * a + b, 256 * hi + lo, cc)
         IN  /\ 256 * high.r + low.r = wide.r
             /\ high.cc \cap {"C", "V", "N"} = wide.cc \cap {"C", "V", "N"}
<1> DEFINE c == SetStatus(cc, b, lo, b + lo)
<1> DEFINE x == b + lo
<1> DEFINE k == Carry(c)
<1> DEFINE y == a + hi + k
<1> DEFINE e == SetStatus(c, a, hi, y)
<1> DEFINE wide == Add16(256 * a + b, 256 * hi + lo, cc)
<1>1. Binary("ADD", b, lo, cc) = [r |-> Lo(x), cc |-> c]
  BY DEF Binary
<1>2. Binary("ADC", a, hi, c) = [r |-> Lo(y), cc |-> e]
  BY DEF Binary
<1>3. x + 0 = x
  BY ByteDef, SMT
<1>4. /\ (x < 256 => Lo(x) = x) /\ (x >= 256 => Lo(x) = x - 256)
      /\ Lo(x) \in Byte
      /\ k = (IF x < 256 THEN 0 ELSE 1)
      /\ c \in SUBSET Flags
  BY <1>3, ByteSum, SMT
<1>5. /\ (y < 256 => Lo(y) = y) /\ (y >= 256 => Lo(y) = y - 256)
      /\ Lo(y) \in Byte
      /\ "C" \in e <=> y >= 256
      /\ "N" \in e <=> Lo(y) >= 128
      /\ "V" \in e <=> ((a >= 128 <=> hi >= 128) /\ ~(a >= 128 <=> Lo(y) >= 128))
  <2>1. k \in {0, 1}
    BY <1>4
  <2> HIDE DEF k, c
  <2>2. (y < 256 => Lo(y) = y) /\ (y >= 256 => Lo(y) = y - 256) /\ Lo(y) \in Byte
    BY <2>1, ByteTotal
  <2>5. "C" \in e <=> y >= 256
    BY <2>1, <1>4, ByteSum
  <2>3. "N" \in e <=> Lo(y) >= 128
    BY <2>1, <1>4, ByteSum
  <2>4. "V" \in e <=> ((a >= 128 <=> hi >= 128) /\ ~(a >= 128 <=> Lo(y) >= 128))
    BY <2>1, <1>4, ByteSum
  <2> QED BY <2>2, <2>3, <2>4, <2>5
<1> DEFINE total == (256 * a + b) + (256 * hi + lo)
<1>6. /\ (total < 65536 => wide.r = total) /\ (total >= 65536 => wide.r = total - 65536)
      /\ "C" \in wide.cc <=> total >= 65536
      /\ "N" \in wide.cc <=> wide.r >= 32768
      /\ "V" \in wide.cc <=> ((a >= 128 <=> hi >= 128) /\ ~(a >= 128 <=> wide.r >= 32768))
  <2> DEFINE left == 256 * a + b
  <2> DEFINE right == 256 * hi + lo
  <2>1. /\ left \in Word /\ right \in Word
        /\ (left >= 32768 <=> a >= 128) /\ (right >= 32768 <=> hi >= 128)
    BY TwoBytes
  <2> HIDE DEF left, right
  <2> DEFINE s == Add16(left, right, cc)
  <2>2. s.r = (left + right) % 65536
    BY DEF Add16
  <2>6. "C" \in s.cc <=> left + right >= 65536
    BY <2>1, WordSum
  <2>3. "N" \in s.cc <=> s.r >= 32768
    BY <2>1, WordSum
  <2>4. "V" \in s.cc <=> ((left >= 32768 <=> right >= 32768) /\ ~(left >= 32768 <=> s.r >= 32768))
    BY <2>1, WordSum
  <2>5. wide = s /\ total = left + right
    BY DEF left, right
  <2>7. left + right \in Int /\ 0 <= left + right /\ left + right <= 131071
    BY <2>1, WordDef, SMT
  <2> HIDE DEF wide, total, s
  <2>11. total \in Int /\ 0 <= total /\ total <= 131071 /\ wide.r = total % 65536
    BY <2>2, <2>5, <2>7
  <2>12. total % 65536 = IF total < 65536 THEN total ELSE total - 65536
    BY <2>11, Seventeen
  <2>8. (total < 65536 => wide.r = total) /\ (total >= 65536 => wide.r = total - 65536)
    BY <2>11, <2>12, SMT
  <2>9. ("C" \in wide.cc <=> total >= 65536) /\ ("N" \in wide.cc <=> wide.r >= 32768)
    BY <2>3, <2>5, <2>6
  <2>10. "V" \in wide.cc <=> ((a >= 128 <=> hi >= 128) /\ ~(a >= 128 <=> wide.r >= 32768))
    BY <2>1, <2>4, <2>5
  <2> QED BY <2>8, <2>9, <2>10
<1>7. /\ a \in Int /\ b \in Int /\ hi \in Int /\ lo \in Int /\ x = b + lo /\ y = a + hi + k
      /\ 0 <= a /\ 0 <= b /\ 0 <= hi /\ 0 <= lo /\ a <= 255 /\ b <= 255 /\ hi <= 255 /\ lo <= 255
  BY ByteDef
<1> DEFINE u == Lo(x)
<1> DEFINE v == Lo(y)
<1> DEFINE z == wide.r
<1>8. /\ (x < 256 => u = x) /\ (x >= 256 => u = x - 256)
      /\ (y < 256 => v = y) /\ (y >= 256 => v = y - 256)
      /\ (total < 65536 => z = total) /\ (total >= 65536 => z = total - 65536)
      /\ k = (IF x < 256 THEN 0 ELSE 1)
  BY <1>4, <1>5, <1>6
<1>9. v \in Byte /\ u \in Byte
  BY <1>4, <1>5
<1> HIDE DEF c, x, k, y, e, wide, u, v, z
<1>10. total = 256 * y + u
  BY <1>7, <1>8, SMT
<1> HIDE DEF total
<1>11. total >= 65536 <=> y >= 256
  BY <1>7, <1>8, <1>9, <1>10, ByteDef, SMT
<1>12. 256 * v + u = z
  BY <1>7, <1>8, <1>9, <1>10, <1>11, ByteDef, SMT
<1>13. z >= 32768 <=> v >= 128
  BY <1>9, <1>12, TwoBytes
<1>14. ("C" \in e <=> "C" \in wide.cc) /\ ("N" \in e <=> "N" \in wide.cc) /\ ("V" \in e <=> "V" \in wide.cc)
  BY <1>5, <1>6, <1>11, <1>13 DEF z, v
<1>15. e \cap {"C", "V", "N"} = wide.cc \cap {"C", "V", "N"}
  BY <1>14
<1> QED BY <1>1, <1>2, <1>12, <1>15 DEF u, v, x, c, z, wide

(* The result of a difference of bytes and a borrow. *)
LEMMA ByteLeft ==
  ASSUME NEW a \in Byte, NEW b \in Byte, NEW k \in {0, 1}
  PROVE  LET x == a - b - k
             res == (65536 + x) % 65536
         IN  /\ x >= 0 => Lo(res) = x
             /\ x < 0 => Lo(res) = 256 + x
             /\ Lo(res) \in Byte
<1> DEFINE x == a - b - k
<1> DEFINE res == (65536 + x) % 65536
<1>1. x \in -256..255 /\ x \in Int
  BY SMT DEF Byte
<1>2. Lo(res) = (IF x >= 0 THEN x ELSE 256 + x) /\ Lo(res) \in Byte
  BY <1>1, Borrowed DEF Lo
<1> HIDE DEF x, res
<1>3. (x >= 0 => Lo(res) = x) /\ (x < 0 => Lo(res) = 256 + x)
  BY <1>1, <1>2, SMT
<1> QED BY <1>2, <1>3 DEF x, res

(* The flags of a difference of bytes and a borrow. *)
LEMMA ByteDifference ==
  ASSUME NEW a \in Byte, NEW b \in Byte, NEW k \in {0, 1}, NEW cc \in SUBSET Flags
  PROVE  LET x == a - b - k
             res == (65536 + x) % 65536
             c == SetStatus(cc, a, b, res)
         IN  /\ Carry(c) = (IF x < 0 THEN 1 ELSE 0)
             /\ "C" \in c <=> x < 0
             /\ "N" \in c <=> Lo(res) >= 128
             /\ "V" \in c <=> (~(a >= 128 <=> b >= 128) /\ ~(a >= 128 <=> Lo(res) >= 128))
             /\ c \in SUBSET Flags
<1> DEFINE x == a - b - k
<1> DEFINE res == (65536 + x) % 65536
<1> DEFINE c == SetStatus(cc, a, b, res)
<1>1. x \in -256..255 /\ x \in Int
  BY SMT DEF Byte
<1>2. /\ Lo(res) = (IF x >= 0 THEN x ELSE 256 + x)
      /\ Bit(res, 256) = (IF x >= 0 THEN 0 ELSE 1)
      /\ Bit(res, 128) = (IF Lo(res) >= 128 THEN 1 ELSE 0)
  BY <1>1, Borrowed DEF Lo
<1>3. /\ "C" \in c <=> Bit(res, 256) = 1
      /\ "N" \in c <=> Lo(res) >= 128
      /\ "V" \in c <=> (Bit(a, 128) + Bit(b, 128) + Bit(res, 128) + Bit(res, 256)) % 2 = 1
      /\ c \in SUBSET Flags
  BY StatusFlags DEF Lo
<1>4. Bit(a, 128) = (IF a >= 128 THEN 1 ELSE 0) /\ Bit(b, 128) = (IF b >= 128 THEN 1 ELSE 0)
  BY TopBits
<1>5. a \in Int /\ b \in Int /\ 0 <= a /\ 0 <= b /\ a <= 255 /\ b <= 255
  BY ByteDef
<1>6. x = a - b - k
  OBVIOUS
<1> HIDE DEF x, c, res
<1>7. "C" \in c <=> x < 0
  BY <1>1, <1>2, <1>3, SMT
<1>8. Carry(c) = IF x < 0 THEN 1 ELSE 0
  BY <1>1, <1>7, SMT DEF Carry
<1> DEFINE y == Lo(res)
<1> DEFINE p == Bit(a, 128)
<1> DEFINE q == Bit(b, 128)
<1> DEFINE t == Bit(res, 128)
<1> DEFINE w == Bit(res, 256)
<1>9. /\ y = (IF x >= 0 THEN x ELSE 256 + x)
      /\ w = (IF x >= 0 THEN 0 ELSE 1)
      /\ t = (IF y >= 128 THEN 1 ELSE 0)
      /\ p = (IF a >= 128 THEN 1 ELSE 0)
      /\ q = (IF b >= 128 THEN 1 ELSE 0)
  BY <1>2, <1>4
<1> HIDE DEF y, p, q, t, w
<1>10. (p + q + t + w) % 2 = 1 <=> (~(a >= 128 <=> b >= 128) /\ ~(a >= 128 <=> y >= 128))
  BY <1>5, <1>6, <1>9, SMT
<1>11. "V" \in c <=> (~(a >= 128 <=> b >= 128) /\ ~(a >= 128 <=> Lo(res) >= 128))
  BY <1>3, <1>10 DEF y, p, q, t, w
<1> QED BY <1>3, <1>7, <1>8, <1>11 DEF x, c, res

(* The flags of a difference of words. *)
LEMMA WordDifference ==
  ASSUME NEW a \in Word, NEW b \in Word, NEW cc \in SUBSET Flags
  PROVE  LET x == a - b
             s == Sub16(a, b, cc)
         IN  /\ s.r \in Word
             /\ "C" \in s.cc <=> x < 0
             /\ "N" \in s.cc <=> s.r >= 32768
             /\ "V" \in s.cc <=> (~(a >= 32768 <=> b >= 32768) /\ ~(a >= 32768 <=> s.r >= 32768))
<1> DEFINE x == a - b
<1> DEFINE res == (131072 + x) % 131072
<1> DEFINE c == SetStatusD(cc, a, b, res)
<1> DEFINE y == res % 65536
<1>1. a \in Int /\ b \in Int /\ 0 <= a /\ 0 <= b /\ a <= 65535 /\ b <= 65535
  BY WordDef
<1>2. x \in Int /\ -65536 <= x /\ x <= 65535 /\ x = a - b
  BY <1>1, SMT
<1>3. Sub16(a, b, cc).r = y /\ Sub16(a, b, cc).cc = c
  <2>1. 131072 + a - b = 131072 + (a - b)
    BY <1>1, SMT
  <2> QED BY <2>1 DEF Sub16
<1>4. /\ "C" \in c <=> Bit(res, 65536) = 1
      /\ "N" \in c <=> y >= 32768
      /\ "V" \in c <=> (Bit(a, 32768) + Bit(b, 32768) + Bit(res, 32768) + Bit(res, 65536)) % 2 = 1
  BY StatusDFlags
<1> DEFINE p == Bit(a, 32768)
<1> DEFINE q == Bit(b, 32768)
<1> DEFINE t == Bit(res, 32768)
<1> DEFINE w == Bit(res, 65536)
<1> HIDE DEF x, c
<1>5. /\ y = (IF x >= 0 THEN x ELSE 65536 + x)
      /\ y \in Word
      /\ w = (IF x >= 0 THEN 0 ELSE 1)
      /\ t = (IF y >= 32768 THEN 1 ELSE 0)
  BY <1>2, BorrowedD
<1>6. p = (IF a >= 32768 THEN 1 ELSE 0) /\ q = (IF b >= 32768 THEN 1 ELSE 0)
  BY TopBits
<1> HIDE DEF res
<1>7. "V" \in c <=> (p + q + t + w) % 2 = 1
  BY <1>4
<1>8. "C" \in c <=> w = 1
  BY <1>4
<1>9. "N" \in c <=> y >= 32768
  BY <1>4
<1> HIDE DEF y, p, q, t, w
<1>10. (p + q + t + w) % 2 = 1 <=> (~(a >= 32768 <=> b >= 32768) /\ ~(a >= 32768 <=> y >= 32768))
  BY <1>1, <1>2, <1>5, <1>6, SMT
<1>11. "C" \in c <=> x < 0
  BY <1>2, <1>5, <1>8, SMT
<1> QED BY <1>3, <1>5, <1>7, <1>9, <1>10, <1>11 DEF x

(* SUBB of the low bytes and SBCA of the high ones leave what SUBD leaves. *)
THEOREM SubSubtractsWords ==
  ASSUME NEW a \in Byte, NEW b \in Byte, NEW hi \in Byte, NEW lo \in Byte,
         NEW cc \in SUBSET Flags
  PROVE  LET low == Binary("SUB", b, lo, cc)
             high == Binary("SBC", a, hi, low.cc)
             wide == Sub16(256 * a + b, 256 * hi + lo, cc)
         IN  /\ 256 * high.r + low.r = wide.r
             /\ high.cc \cap {"C", "V", "N"} = wide.cc \cap {"C", "V", "N"}
<1> DEFINE x == b - lo - 0
<1> DEFINE xr == (65536 + x) % 65536
<1> DEFINE c == SetStatus(cc, b, lo, xr)
<1> DEFINE k == Carry(c)
<1> DEFINE y == a - hi - k
<1> DEFINE yr == (65536 + y) % 65536
<1> DEFINE e == SetStatus(c, a, hi, yr)
<1> DEFINE left == 256 * a + b
<1> DEFINE right == 256 * hi + lo
<1> DEFINE total == left - right
<1> DEFINE wide == Sub16(left, right, cc)
<1>1. /\ a \in Int /\ b \in Int /\ hi \in Int /\ lo \in Int
      /\ 0 <= a /\ 0 <= b /\ 0 <= hi /\ 0 <= lo /\ a <= 255 /\ b <= 255 /\ hi <= 255 /\ lo <= 255
  BY ByteDef
<1>2. k \in {0, 1}
  BY DEF Carry
<1>3. Binary("SUB", b, lo, cc) = [r |-> Lo(xr), cc |-> c]
  <2>1. 65536 + b - lo = 65536 + x
    BY <1>1, SMT
  <2> QED BY <2>1 DEF Binary
<1>4. Binary("SBC", a, hi, c) = [r |-> Lo(yr), cc |-> e]
  <2> HIDE DEF c
  <2>1. 65536 + a - hi - Carry(c) = 65536 + y
    BY <1>1, <1>2, SMT
  <2> QED BY <2>1 DEF Binary
<1>5. (x >= 0 => Lo(xr) = x) /\ (x < 0 => Lo(xr) = 256 + x) /\ Lo(xr) \in Byte
  BY ByteLeft, 0 \in {0, 1}
<1>6. k = (IF x < 0 THEN 1 ELSE 0) /\ c \in SUBSET Flags
  BY ByteDifference, 0 \in {0, 1}
<1>7. /\ (y >= 0 => Lo(yr) = y) /\ (y < 0 => Lo(yr) = 256 + y) /\ Lo(yr) \in Byte
  <2> HIDE DEF k
  <2> QED BY <1>2, ByteLeft
<1>8. /\ "C" \in e <=> y < 0
      /\ "N" \in e <=> Lo(yr) >= 128
      /\ "V" \in e <=> (~(a >= 128 <=> hi >= 128) /\ ~(a >= 128 <=> Lo(yr) >= 128))
  <2> HIDE DEF c, k
  <2>1. "C" \in e <=> y < 0
    BY <1>2, <1>6, ByteDifference
  <2>2. "N" \in e <=> Lo(yr) >= 128
    BY <1>2, <1>6, ByteDifference
  <2>3. "V" \in e <=> (~(a >= 128 <=> hi >= 128) /\ ~(a >= 128 <=> Lo(yr) >= 128))
    BY <1>2, <1>6, ByteDifference
  <2> QED BY <2>1, <2>2, <2>3
<1>9. /\ left \in Word /\ right \in Word
      /\ (left >= 32768 <=> a >= 128) /\ (right >= 32768 <=> hi >= 128)
  BY TwoBytes
<1>10. x = b - lo /\ y = a - hi - k /\ total = 256 * (a - hi) + (b - lo)
  BY <1>1, SMT
<1> DEFINE u == Lo(xr)
<1> DEFINE v == Lo(yr)
<1> DEFINE z == wide.r
<1> HIDE DEF left, right
<1>11. /\ "C" \in wide.cc <=> total < 0
       /\ "N" \in wide.cc <=> z >= 32768
       /\ "V" \in wide.cc <=> (~(a >= 128 <=> hi >= 128) /\ ~(a >= 128 <=> z >= 32768))
  <2>1. "C" \in wide.cc <=> total < 0
    BY <1>9, WordDifference
  <2>2. "N" \in wide.cc <=> z >= 32768
    BY <1>9, WordDifference
  <2>3. "V" \in wide.cc <=> (~(left >= 32768 <=> right >= 32768) /\ ~(left >= 32768 <=> z >= 32768))
    BY <1>9, WordDifference
  <2> HIDE DEF wide, total, z
  <2> QED BY <1>9, <2>1, <2>2, <2>3
<1>12. z = ((131072 + total) % 131072) % 65536
  <2>1. 131072 + left - right = 131072 + (left - right)
    BY <1>9, WordDef, SMT
  <2> QED BY <2>1 DEF Sub16
<1>13. total \in Int /\ -65536 <= total /\ total <= 65535
  BY <1>9, WordDef, SMT
<1> HIDE DEF c, x, xr, k, y, yr, e, wide, total, z
<1>14. z = IF total >= 0 THEN total ELSE 65536 + total
  BY <1>12, <1>13, BorrowedD
<1>15. (x >= 0 => u = x) /\ (x < 0 => u = 256 + x) /\ (y >= 0 => v = y) /\ (y < 0 => v = 256 + y)
       /\ u \in Byte /\ v \in Byte
  BY <1>5, <1>7
<1> HIDE DEF u, v
<1>16. total = 256 * y + u
  BY <1>1, <1>2, <1>6, <1>10, <1>15, SMT
<1>17. (total < 0 <=> y < 0) /\ 256 * v + u = z
  BY <1>1, <1>2, <1>10, <1>13, <1>14, <1>15, <1>16, ByteDef, SMT
<1>18. z >= 32768 <=> v >= 128
  BY <1>15, <1>17, TwoBytes
<1>19. ("C" \in e <=> "C" \in wide.cc) /\ ("N" \in e <=> "N" \in wide.cc) /\ ("V" \in e <=> "V" \in wide.cc)
  BY <1>8, <1>11, <1>17, <1>18 DEF v
<1>20. e \cap {"C", "V", "N"} = wide.cc \cap {"C", "V", "N"}
  BY <1>19
<1> QED BY <1>3, <1>4, <1>17, <1>20 DEF u, v, z, wide, left, right

-----------------------------------------------------------------------------
(* Decimal sums.                                                           *)

(* A byte of two decimal digits, and what the instructions see of it. *)
LEMMA TwoDigits ==
  ASSUME NEW v \in Byte
  PROVE  \E p, q \in 0..15 : /\ v = 16 * p + q
                             /\ v \div 16 = p /\ v % 16 = q
                             /\ Bit(v, 16) = p % 2
<1> DEFINE p == v \div 16
<1> DEFINE q == v % 16
<1>1. p \in 0..15 /\ q \in 0..15 /\ v = 16 * p + q
  BY SMT DEF Byte
<1>2. Bit(v, 16) = p % 2
  BY DEF Bit
<1> QED BY <1>1, <1>2

(* The half carry of a sum of bytes is the carry out of its low digit. *)
LEMMA HalfCarry ==
  ASSUME NEW p \in 0..9, NEW q \in 0..9, NEW u \in 0..9, NEW v \in 0..9, NEW k \in {0, 1}
  PROVE  LET x == 16 * p + q + (16 * u + v) + k
             o == IF q + v + k >= 16 THEN 1 ELSE 0
         IN  /\ x \div 16 = p + u + o
             /\ ((p % 2) + (u % 2) + ((p + u + o) % 2)) % 2 = o
             /\ x % 16 = q + v + k - 16 * o
<1> DEFINE o == IF q + v + k >= 16 THEN 1 ELSE 0
<1> DEFINE x == 16 * p + q + (16 * u + v) + k
<1> DEFINE d == q + v + k - 16 * o
<1>1. o \in {0, 1} /\ d \in 0..15 /\ x = 16 * (p + u + o) + d
  BY SMT
<1> HIDE DEF o, d
<1>2. x \div 16 = p + u + o /\ x % 16 = d
  BY <1>1, SMT
<1>3. ((p % 2) + (u % 2) + ((p + u + o) % 2)) % 2 = o
  BY <1>1, SMT
<1> QED BY <1>2, <1>3 DEF o, d

(* DAA after an ADDA or ADCA of decimal digits makes their decimal sum and *)
(* its carry, and 160 more than the sum where the binary one is 250 to 255.*)
THEOREM DecimalSums ==
  ASSUME NEW a \in Byte, NEW b \in Byte, NEW k \in {0, 1}, NEW cc \in SUBSET Flags,
         a \div 16 <= 9, a % 16 <= 9, b \div 16 <= 9, b % 16 <= 9
  PROVE  LET binary == a + b + k
             decimal == Digits(a) + Digits(b) + k
             adjusted == Daa(Lo(binary), SetStatus(cc, a, b, binary))
         IN  /\ "C" \in adjusted.cc <=> decimal >= 100
             /\ adjusted.r = (Bcd(decimal) + (IF binary \in 250..255 THEN 160 ELSE 0)) % 256
<1> DEFINE x == a + b + k
<1> DEFINE c == SetStatus(cc, a, b, x)
<1>1. PICK p \in 0..15, q \in 0..15 :
         a = 16 * p + q /\ a \div 16 = p /\ a % 16 = q /\ Bit(a, 16) = p % 2
  BY TwoDigits
<1>2. PICK u \in 0..15, v \in 0..15 :
         b = 16 * u + v /\ b \div 16 = u /\ b % 16 = v /\ Bit(b, 16) = u % 2
  BY TwoDigits
<1>3. p \in 0..9 /\ q \in 0..9 /\ u \in 0..9 /\ v \in 0..9
  BY <1>1, <1>2, SMT
<1> DEFINE o == IF q + v + k >= 16 THEN 1 ELSE 0
<1> DEFINE g == IF q + v + k > 9 THEN 1 ELSE 0
<1> DEFINE d == q + v + k - 16 * o
<1> DEFINE low == q + v + k - 10 * g
<1> DEFINE s == p + u + g
<1>4. x = 16 * p + q + (16 * u + v) + k
  BY <1>1, <1>2
<1>5. x \div 16 = p + u + o /\ x % 16 = d /\ ((p % 2) + (u % 2) + ((p + u + o) % 2)) % 2 = o
  BY <1>3, <1>4, HalfCarry
<1>6. /\ o \in {0, 1} /\ g \in {0, 1} /\ s \in 0..19 /\ low \in 0..9
      /\ x \in 0..511 /\ x = 16 * s + low - 6 * g /\ x \in Int
      /\ o = 1 => g = 1 /\ d <= 3 /\ d >= 0
      /\ o = 0 => (g = 1 <=> d > 9)
      /\ d \in 0..15
  BY <1>3, <1>4, SMT
<1>7. Bit(x, 16) = (p + u + o) % 2
  BY <1>5 DEF Bit
<1>8. Lo(x) = (IF x < 256 THEN x ELSE x - 256) /\ Bit(x, 256) = (IF x < 256 THEN 0 ELSE 1)
  BY <1>6, Nine DEF Lo
<1>9. /\ "C" \in c <=> Bit(x, 256) = 1
      /\ "H" \in c <=> (Bit(a, 16) + Bit(b, 16) + Bit(x, 16)) % 2 = 1
  BY StatusFlags
<1>10. "H" \in c <=> o = 1
  BY <1>1, <1>2, <1>5, <1>7, <1>9
<1>11. "C" \in c <=> x >= 256
  <2> HIDE DEF x, c
  <2> QED BY <1>6, <1>8, <1>9, SMT
<1> HIDE DEF c
<1> DEFINE l == Lo(x)
<1> DEFINE t1 == IF "H" \in c THEN l + 6 ELSE l
<1> DEFINE t2 == IF t1 % 16 > 9 THEN t1 + 6 ELSE t1
<1> DEFINE t3 == IF "C" \in c THEN t2 + 96 ELSE t2
<1> DEFINE y == IF (t3 \div 16) % 16 > 9 THEN t3 + 96 ELSE t3
<1>12. l % 16 = d /\ l \in 0..255
  <2>1. x \in 0..511 /\ x % 16 = d /\ l = (IF x < 256 THEN x ELSE x - 256)
    BY <1>5, <1>6, <1>8
  <2> HIDE DEF x, d, l
  <2>2. (x - 256) % 16 = x % 16
    BY <2>1, SMT
  <2> QED BY <2>1, <2>2, SMT
<1> HIDE DEF x, o, g, d, low, s, l
<1>13. t2 = l + 6 * g
  <2>1. CASE o = 1
    <3>1. (l + 6) % 16 = d + 6
      BY <1>6, <1>12, <2>1, SMT
    <3> QED BY <1>6, <1>10, <1>12, <2>1, <3>1, SMT
  <2>2. CASE o = 0 /\ d > 9
    BY <1>6, <1>10, <1>12, <2>2, SMT
  <2>3. CASE o = 0 /\ ~(d > 9)
    BY <1>6, <1>10, <1>12, <2>3, SMT
  <2> QED BY <1>6, <2>1, <2>2, <2>3
<1>14. t3 = (IF x >= 256 THEN x - 256 + 6 * g + 96 ELSE x + 6 * g)
  <2> HIDE DEF t2
  <2>1. l = (IF x < 256 THEN x ELSE x - 256)
    BY <1>8 DEF l
  <2> QED BY <1>6, <1>11, <1>13, <2>1, SMT
<1>15. Adjusted(l, c) = y
  BY DEF Adjusted
<1> HIDE DEF t1, t2, t3
<1>21. y = IF (t3 \div 16) % 16 > 9 THEN t3 + 96 ELSE t3
  OBVIOUS
<1>16. /\ (x >= 256 \/ Bit(y, 256) = 1) <=> s >= 10
       /\ Lo(y) = (16 * (s % 10) + low + (IF x \in 250..255 THEN 160 ELSE 0)) % 256
  <2> HIDE DEF y
  <2>1. CASE x >= 256
    <3>1. s \in 16..19 /\ t3 = 16 * (s - 10) + low
      BY <1>6, <1>14, <1>21, <2>1, SMT
    <3>2. t3 \div 16 = s - 10 /\ (t3 \div 16) % 16 = s - 10
      BY <1>6, <1>14, <1>21, <3>1, SMT
    <3>3. y = 16 * (s - 10) + low /\ y \in 0..153
      BY <1>6, <1>14, <1>21, <3>1, <3>2, SMT
    <3>4. Lo(y) = y /\ s % 10 = s - 10 /\ x \notin 250..255
      BY <1>6, <1>14, <1>21, <2>1, <3>1, <3>3, SMT DEF Lo
    <3>5. (16 * (s - 10) + low + 0) % 256 = 16 * (s - 10) + low
      BY <1>6, <1>14, <1>21, <3>1, SMT
    <3> QED BY <1>6, <1>14, <1>21, <2>1, <3>1, <3>3, <3>4, <3>5, SMT
  <2>2. CASE x < 256 /\ s <= 9
    <3>1. t3 = 16 * s + low /\ x \notin 250..255 /\ s \in 0..9
      BY <1>6, <1>14, <1>21, <2>2, SMT
    <3>2. t3 \div 16 = s /\ (t3 \div 16) % 16 = s
      BY <1>6, <1>14, <1>21, <3>1, SMT
    <3>3. y = 16 * s + low /\ y \in 0..153
      BY <1>6, <1>14, <1>21, <3>1, <3>2, SMT
    <3>4. Lo(y) = y /\ s % 10 = s /\ Bit(y, 256) = 0
      BY <1>6, <1>14, <1>21, <3>1, <3>3, SMT DEF Lo, Bit
    <3>5. (16 * s + low + 0) % 256 = 16 * s + low
      BY <1>6, <1>14, <1>21, <3>1, SMT
    <3> QED BY <1>6, <1>14, <1>21, <2>2, <3>1, <3>3, <3>4, <3>5, SMT
  <2>3. CASE x < 256 /\ s \in 10..15
    <3>1. t3 = 16 * s + low /\ x \notin 250..255
      BY <1>6, <1>14, <1>21, <2>3, SMT
    <3>2. t3 \div 16 = s /\ (t3 \div 16) % 16 = s
      BY <1>6, <1>14, <1>21, <2>3, <3>1, SMT
    <3>3. y = 256 + (16 * (s - 10) + low) /\ 16 * (s - 10) + low \in 0..153
      BY <1>6, <1>14, <1>21, <2>3, <3>1, <3>2, SMT
    <3>4. Lo(y) = 16 * (s - 10) + low /\ s % 10 = s - 10 /\ Bit(y, 256) = 1
      BY <1>6, <1>14, <1>21, <2>3, <3>3, SMT DEF Lo, Bit
    <3>5. (16 * (s - 10) + low + 0) % 256 = 16 * (s - 10) + low
      BY <1>6, <1>14, <1>21, <2>3, SMT
    <3> QED BY <1>6, <1>14, <1>21, <2>3, <3>1, <3>3, <3>4, <3>5, SMT
  <2>4. CASE x < 256 /\ s >= 16
    <3>1. s = 16 /\ g = 1 /\ low \in 0..5 /\ x \in 250..255 /\ t3 = 256 + low
      BY <1>6, <1>14, <1>21, <2>4, SMT
    <3>2. (t3 \div 16) % 16 = 0 /\ y = 256 + low
      BY <1>6, <1>14, <1>21, <3>1, SMT
    <3>3. Lo(y) = low /\ Bit(y, 256) = 1
      BY <1>6, <1>14, <1>21, <3>1, <3>2, SMT DEF Lo, Bit
    <3>4. s % 10 = 6 /\ (16 * 6 + low + 160) % 256 = low
      BY <1>6, <1>14, <1>21, <3>1, SMT
    <3> QED BY <1>6, <1>14, <1>21, <2>4, <3>1, <3>3, <3>4
  <2> QED BY <1>6, <1>14, <1>21, <2>1, <2>2, <2>3, <2>4, SMT
<1> HIDE DEF y
<1>17. /\ Daa(l, c).r = Lo(y)
       /\ "C" \in Daa(l, c).cc <=> ("C" \in c \/ Bit(y, 256) = 1)
  BY <1>15 DEF Daa
<1> DEFINE decimal == Digits(a) + Digits(b) + k
<1>18. decimal = 10 * s + low
  BY <1>1, <1>2, <1>3, <1>6, SMT DEF Digits, s, low
<1> HIDE DEF decimal
<1>19. decimal >= 100 <=> s >= 10
  BY <1>6, <1>18, SMT
<1>20. Bcd(decimal) = 16 * (s % 10) + low
  <2>1. decimal \div 10 = s /\ decimal % 10 = low
    BY <1>6, <1>18, SMT
  <2> QED BY <2>1 DEF Bcd
<1> QED BY <1>11, <1>16, <1>17, <1>19, <1>20 DEF decimal, l, x, c

-----------------------------------------------------------------------------
(* No operation leaves a byte, a word or the flags beyond their width.     *)

Result8 == [r : Byte, cc : SUBSET Flags]
Result16 == [r : Word, cc : SUBSET Flags]

(* What sets flags sets the eight flags of CC only.                        *)
LEMMA FlagsType ==
  /\ \A cc \in SUBSET Flags, f \in Flags : \A on : Put(cc, f, on) \in SUBSET Flags
  /\ \A cc \in SUBSET Flags : \A r : SetNZ8(cc, r) \in SUBSET Flags
  /\ \A cc \in SUBSET Flags : \A r : SetNZ16(cc, r) \in SUBSET Flags
  /\ \A cc \in SUBSET Flags : \A a, b, r : SetStatus(cc, a, b, r) \in SUBSET Flags
  /\ \A cc \in SUBSET Flags : \A a, b, r : SetStatusD(cc, a, b, r) \in SUBSET Flags
  /\ \A cc \in SUBSET Flags : \A r : Move16(r, cc) \in SUBSET Flags
<1>1. \A cc \in SUBSET Flags, f \in Flags : \A on : Put(cc, f, on) \in SUBSET Flags
  BY Zenon DEF Put
<1>2. {"C", "Z", "N", "V", "H"} \subseteq Flags
  BY DEF Flags
<1>3. \A cc \in SUBSET Flags : \A r : SetNZ8(cc, r) \in SUBSET Flags
  BY <1>1, <1>2 DEF SetNZ8
<1>4. \A cc \in SUBSET Flags : \A r : SetNZ16(cc, r) \in SUBSET Flags
  BY <1>1, <1>2 DEF SetNZ16
<1>5. \A cc \in SUBSET Flags : \A a, b, r : SetStatus(cc, a, b, r) \in SUBSET Flags
  BY <1>1, <1>2, <1>3 DEF SetStatus
<1>6. \A cc \in SUBSET Flags : \A a, b, r : SetStatusD(cc, a, b, r) \in SUBSET Flags
  BY <1>1, <1>2, <1>4 DEF SetStatusD
<1>7. \A cc \in SUBSET Flags : \A r : Move16(r, cc) \in SUBSET Flags
  <2>1. \A cc \in SUBSET Flags : cc \ {"V"} \in SUBSET Flags
    OBVIOUS
  <2> QED BY <2>1, <1>4 DEF Move16
<1> QED BY <1>1, <1>3, <1>4, <1>5, <1>6, <1>7

(* Eight bits weigh no more than a byte.                                   *)
LEMMA WeightType == \A s : Weight(s) \in Byte
  BY SMT DEF Weight, Byte

(* The values that the operations on a byte make are bytes.                *)
LEMMA ByteArithmetic ==
  ASSUME NEW b \in Byte, NEW c \in {0, 1}
  PROVE  /\ \A x \in Int : Lo(x) \in Byte /\ x % 65536 \in Word
         /\ 255 - b \in Byte /\ b \div 2 \in Byte /\ b \div 2 + 128 * c \in Byte
         /\ ((2 * b) % 256) + c \in Byte
         /\ (b + 255) % 256 \in Byte /\ (b + 1) % 256 \in Byte
         /\ Bit(b, 128) \in {0, 1} /\ Signed(b) \in Word
         /\ \A x \in Word : Hi(x) \in Byte
<1>1. \A x \in Int : Lo(x) \in Byte /\ x % 65536 \in Word
  BY ByteDef, WordDef, SMT DEF Lo
<1>2. b \in Int /\ 0 <= b /\ b <= 255
  BY ByteDef
<1>3. 255 - b \in Byte /\ b \div 2 \in Byte
  BY <1>2, ByteDef, SMT
<1>4. b \div 2 + 128 * c \in Byte
  BY <1>2, ByteDef, SMT
<1>5. ((2 * b) % 256) + c \in Byte
  <2>1. (2 * b) % 256 \in Int /\ 0 <= (2 * b) % 256 /\ (2 * b) % 256 <= 254
    BY <1>2, SMT
  <2> QED BY <2>1, ByteDef, SMT
<1>6. (b + 255) % 256 \in Byte /\ (b + 1) % 256 \in Byte
  BY <1>2, ByteDef, SMT
<1>7. Bit(b, 128) \in {0, 1}
  BY <1>2, SMT DEF Bit
<1>8. Signed(b) \in Word
  BY <1>2, WordDef, SMT DEF Signed
<1>9. \A x \in Word : Hi(x) \in Byte
  BY WordDef, ByteDef, SMT DEF Hi
<1> QED BY <1>1, <1>3, <1>4, <1>5, <1>6, <1>7, <1>8, <1>9

UnaryOps == {"NEG", "COM", "LSR", "ROR", "ASR", "ASL", "ROL", "DEC", "INC", "TST", "CLR"}

(* NEG to CLR.                                                             *)
LEMMA UnaryType ==
  ASSUME NEW op \in UnaryOps, NEW b \in Byte, NEW cc \in SUBSET Flags
  PROVE  Unary(op, b, cc) \in Result8
<1> DEFINE R(r, c) == [r |-> r, cc |-> c]
<1>0. \A r \in Byte, c \in SUBSET Flags : R(r, c) \in Result8
  BY DEF Result8
<1> DEFINE neg == (65536 - b) % 65536
<1> DEFINE rol == ((2 * b) % 256) + Carry(cc)
<1>1. Carry(cc) \in {0, 1}
  BY DEF Carry
<1>2. /\ \A x \in Int : Lo(x) \in Byte
      /\ 255 - b \in Byte /\ b \div 2 \in Byte /\ b \div 2 + 128 * Carry(cc) \in Byte
      /\ rol \in Byte
      /\ (b + 255) % 256 \in Byte /\ (b + 1) % 256 \in Byte
      /\ b \div 2 + 128 * Bit(b, 128) \in Byte
  BY <1>1, ByteArithmetic
<1>3. Lo(neg) \in Byte /\ Lo(2 * b) \in Byte /\ 0 \in Byte
  <2>1. neg \in Int /\ 2 * b \in Int
    BY ByteDef, SMT
  <2> QED BY <2>1, <1>2, ByteDef, SMT
<1>4. {"C", "Z", "N", "V", "H"} \subseteq Flags
  BY DEF Flags
<1>5. /\ SetNZ8(cc \cup {"C"}, 255 - b) \ {"V"} \in SUBSET Flags
      /\ (cc \ {"N", "V", "C"}) \cup {"Z"} \in SUBSET Flags
  BY <1>4, FlagsType
<1> HIDE DEF R, neg, rol
<1> DEFINE U(x) == Unary(x, b, cc)
<1> DEFINE shifted(r) == R(r, SetNZ8(Put(cc, "C", b % 2 = 1), r))
<1> DEFINE halved(r) == R(r, SetNZ8(Put(Put(cc, "C", b % 2 = 1), "H", Bit(b, 16) = 1), r))
<1> DEFINE stepped(r, edge) == R(r, SetNZ8(Put(cc, "V", r = edge), r))
<1>6. \A r \in Byte : shifted(r) \in Result8 /\ halved(r) \in Result8
  BY <1>0, <1>4, FlagsType
<1>7. \A r \in Byte : stepped(r, 127) \in Result8 /\ stepped(r, 128) \in Result8
  BY <1>0, <1>4, FlagsType
<1>8. (b + 255) % 256 \in Byte /\ (b + 1) % 256 \in Byte
  BY <1>2
<1>a. CASE op = "NEG"
  <2>1. U("NEG") = R(Lo(neg), SetStatus(cc, 0, b, neg))
    BY DEF Unary, R, neg
  <2> QED BY <2>1, <1>a, <1>0, <1>3, FlagsType
<1>b. CASE op = "COM"
  <2>1. U("COM") = R(255 - b, SetNZ8(cc \cup {"C"}, 255 - b) \ {"V"})
    BY DEF Unary, R
  <2>2. R(255 - b, SetNZ8(cc \cup {"C"}, 255 - b) \ {"V"}) \in Result8
    BY <1>0, <1>2, <1>5
  <2> QED BY <2>1, <2>2, <1>b
<1>c. CASE op = "LSR"
  <2>1. U("LSR") = halved(b \div 2)
    BY DEF Unary, R
  <2> QED BY <2>1, <1>c, <1>2, <1>6
<1>d. CASE op = "ROR"
  <2>1. U("ROR") = shifted(b \div 2 + 128 * Carry(cc))
    BY DEF Unary, R
  <2> QED BY <2>1, <1>d, <1>2, <1>6
<1>e. CASE op = "ASR"
  <2>1. U("ASR") = halved(b \div 2 + 128 * Bit(b, 128))
    BY DEF Unary, R
  <2> QED BY <2>1, <1>e, <1>2, <1>6
<1>f. CASE op = "ASL"
  <2>1. U("ASL") = R(Lo(2 * b), SetStatus(cc, b, b, 2 * b))
    BY DEF Unary, R
  <2> QED BY <2>1, <1>f, <1>0, <1>3, FlagsType
<1>g. CASE op = "ROL"
  <2>1. U("ROL") = R(rol, SetNZ8(Put(Put(cc, "C", b >= 128),
                                 "V", Bit(b, 128) # Bit(b, 64)), rol))
    BY DEF Unary, R, rol
  <2> QED BY <2>1, <1>g, <1>0, <1>2, <1>4, FlagsType
<1>h. CASE op = "DEC"
  <2>1. U("DEC") = stepped((b + 255) % 256, 127)
    BY DEF Unary, R
  <2> QED BY <2>1, <1>h, <1>8, <1>7
<1>i. CASE op = "INC"
  <2>1. U("INC") = stepped((b + 1) % 256, 128)
    BY DEF Unary, R
  <2> QED BY <2>1, <1>i, <1>8, <1>7
<1>j. CASE op = "TST"
  <2>1. U("TST") = R(b, SetNZ8(cc, b))
    BY DEF Unary, R
  <2> QED BY <2>1, <1>j, <1>0, FlagsType
<1>k. CASE op = "CLR"
  <2>1. U("CLR") = R(0, (cc \ {"N", "V", "C"}) \cup {"Z"})
    BY DEF Unary, R
  <2> QED BY <2>1, <1>k, <1>0, <1>3, <1>5
<1> QED BY <1>a, <1>b, <1>c, <1>d, <1>e, <1>f, <1>g, <1>h, <1>i, <1>j, <1>k DEF UnaryOps

BinaryOps == {"SUB", "CMP", "SBC", "ADC", "ADD", "AND", "BIT", "LD", "EOR", "OR"}

(* SUB to ADD.                                                             *)
LEMMA BinaryType ==
  ASSUME NEW op \in BinaryOps, NEW a \in Byte, NEW b \in Byte, NEW cc \in SUBSET Flags
  PROVE  Binary(op, a, b, cc) \in Result8
<1> DEFINE R(r, c) == [r |-> r, cc |-> c]
<1>0. \A r \in Byte, c \in SUBSET Flags : R(r, c) \in Result8
  BY DEF Result8
<1> DEFINE B(x) == Binary(x, a, b, cc)
<1> DEFINE res(x) == SetStatus(cc, a, b, x)
<1> DEFINE nz(x) == SetNZ8(cc \ {"V"}, x)
<1> DEFINE sub == (65536 + a - b) % 65536
<1> DEFINE sbc == (65536 + a - b - Carry(cc)) % 65536
<1>1. cc \ {"V"} \in SUBSET Flags
  OBVIOUS
<1>2. \A x : res(x) \in SUBSET Flags /\ nz(x) \in SUBSET Flags
  BY <1>1, FlagsType
<1>3. /\ Lo(sub) \in Byte /\ Lo(sbc) \in Byte
      /\ Lo(a + b) \in Byte /\ Lo(a + b + Carry(cc)) \in Byte
  <2>1. Carry(cc) \in {0, 1}
    BY DEF Carry
  <2>2. sub \in Int /\ sbc \in Int /\ a + b \in Int /\ a + b + Carry(cc) \in Int
    BY <2>1, ByteDef, SMT
  <2> QED BY <2>2, ByteArithmetic
<1>4. And(a, b) \in Byte /\ Or(a, b) \in Byte /\ Xor(a, b) \in Byte
  BY WeightType DEF And, Or, Xor
<1> HIDE DEF res, nz
<1>5. B("SUB") = R(Lo(sub), res(sub))
  BY DEF Binary, res
<1>6. B("CMP") = R(a, res(sub))
  BY DEF Binary, res
<1>7. B("SBC") = R(Lo(sbc), res(sbc))
  BY DEF Binary, res
<1>8. B("ADC") = R(Lo(a + b + Carry(cc)), res(a + b + Carry(cc)))
  BY DEF Binary, res
<1>9. B("ADD") = R(Lo(a + b), res(a + b))
  BY DEF Binary, res
<1>10. B("AND") = R(And(a, b), nz(And(a, b)))
  BY DEF Binary, nz
<1>11. B("BIT") = R(a, nz(And(a, b)))
  BY DEF Binary, nz
<1>12. B("LD") = R(b, nz(b))
  BY DEF Binary, nz
<1>13. B("EOR") = R(Xor(a, b), nz(Xor(a, b)))
  BY DEF Binary, nz
<1>14. B("OR") = R(Or(a, b), nz(Or(a, b)))
  BY DEF Binary, nz
<1> HIDE DEF R, B, sub, sbc
<1>15. B("SUB") \in Result8 /\ B("CMP") \in Result8 /\ B("SBC") \in Result8
  BY <1>0, <1>2, <1>3, <1>5, <1>6, <1>7
<1>16. B("ADC") \in Result8 /\ B("ADD") \in Result8
  BY <1>0, <1>2, <1>3, <1>8, <1>9
<1>17. B("AND") \in Result8 /\ B("BIT") \in Result8 /\ B("LD") \in Result8
  BY <1>0, <1>2, <1>4, <1>10, <1>11, <1>12
<1>18. B("EOR") \in Result8 /\ B("OR") \in Result8
  BY <1>0, <1>2, <1>4, <1>13, <1>14
<1>19. B(op) \in Result8
  BY <1>15, <1>16, <1>17, <1>18 DEF BinaryOps
<1> QED BY <1>19 DEF B

(* Arithmetic of words, DAA, MUL and SEX. *)
LEMMA WideType ==
  ASSUME NEW v \in Word, NEW w \in Word, NEW a \in Byte, NEW b \in Byte, NEW cc \in SUBSET Flags
  PROVE  /\ Sub16(v, w, cc) \in Result16 /\ Add16(v, w, cc) \in Result16
         /\ Daa(a, cc) \in Result8
         /\ Mul(a, b, cc) \in Result16 /\ Sex(b, cc) \in Result16
<1> DEFINE R(r, c) == [r |-> r, cc |-> c]
<1>0. /\ \A r \in Byte, c \in SUBSET Flags : R(r, c) \in Result8
      /\ \A r \in Word, c \in SUBSET Flags : R(r, c) \in Result16
  BY DEF Result8, Result16
<1>1. {"C", "Z", "N", "V", "H"} \subseteq Flags
  BY DEF Flags
<1>2. Sub16(v, w, cc) \in Result16
  <2> DEFINE res == (131072 + v - w) % 131072
  <2>1. Sub16(v, w, cc) = R(res % 65536, SetStatusD(cc, v, w, res))
    BY DEF Sub16
  <2>2. res % 65536 \in Word
    BY WordDef, SMT
  <2> HIDE DEF R, res
  <2> QED BY <1>0, <2>1, <2>2, FlagsType
<1>3. Add16(v, w, cc) \in Result16
  <2>1. Add16(v, w, cc) = R((v + w) % 65536, SetStatusD(cc, v, w, v + w))
    BY DEF Add16
  <2>2. (v + w) % 65536 \in Word
    BY WordDef, SMT
  <2> HIDE DEF R
  <2> QED BY <1>0, <2>1, <2>2, FlagsType
<1>4. Daa(a, cc) \in Result8
  <2> DEFINE t == Adjusted(a, cc)
  <2>1. t \in Int
    BY ByteDef, SMT DEF Adjusted
  <2>2. Lo(t) \in Byte
    <3> HIDE DEF t
    <3> QED BY <2>1, ByteDef, SMT DEF Lo
  <2>3. (IF Bit(t, 256) = 1 THEN cc \cup {"C"} ELSE cc) \in SUBSET Flags
    BY <1>1
  <2>4. Daa(a, cc) = R(Lo(t), IF Bit(t, 256) = 1 THEN cc \cup {"C"} ELSE cc)
    BY DEF Daa
  <2> HIDE DEF R, t
  <2> QED BY <1>0, <2>2, <2>3, <2>4
<1>5. Mul(a, b, cc) \in Result16
  <2>1. a * b \in Word
    <3>1. a \in Int /\ b \in Int /\ 0 <= a /\ a <= 255 /\ 0 <= b /\ b <= 255
      BY ByteDef
    <3>2. a * b \in Int /\ 0 <= a * b /\ a * b <= 255 * 255
      BY <3>1, SMT
    <3> QED BY <3>2, WordDef, SMT
  <2>2. Mul(a, b, cc) = R(a * b, Put(Put(cc, "Z", a * b = 0), "C", Bit(a * b, 128) = 1))
    BY DEF Mul
  <2>3. Put(Put(cc, "Z", a * b = 0), "C", Bit(a * b, 128) = 1) \in SUBSET Flags
    BY <1>1, FlagsType
  <2> HIDE DEF R
  <2> QED BY <1>0, <2>1, <2>2, <2>3
<1>6. Sex(b, cc) \in Result16
  <2>1. Sex(b, cc) = R(Signed(b), SetNZ16(cc, Signed(b)))
    BY DEF Sex
  <2>2. Signed(b) \in Word
    BY ByteDef, WordDef, SMT DEF Signed
  <2> HIDE DEF R
  <2> QED BY <1>0, <2>1, <2>2, FlagsType
<1> QED BY <1>2, <1>3, <1>4, <1>5, <1>6

-----------------------------------------------------------------------------
(* Instructions of the machine.                                            *)

Fields == {"a", "b", "dp", "cc", "x", "y", "u", "s", "pc", "mem"}

(* A machine whose program counter has room behind it. *)
Ready(m, room) == /\ DOMAIN m = Fields
                  /\ m.pc \in Int /\ 0 <= m.pc /\ m.pc + room <= 65535

(* Skipping over bytes moves the program counter only. *)
LEMMA SkipKeeps ==
  ASSUME NEW m, NEW n \in Nat, Ready(m, n)
  PROVE  LET s == Skip(m, n)
         IN  /\ DOMAIN s = Fields /\ s.pc = m.pc + n
             /\ s.a = m.a /\ s.b = m.b /\ s.cc = m.cc /\ s.x = m.x /\ s.mem = m.mem
             /\ \A q : At(s, q) = At(m, q)
             /\ \A q : WordAt(s, q) = WordAt(m, q)
<1> DEFINE s == Skip(m, n)
<1>1. (m.pc + n) % 65536 = m.pc + n
  BY SMT DEF Ready
<1>2. /\ DOMAIN s = Fields /\ s.pc = m.pc + n
      /\ s.a = m.a /\ s.b = m.b /\ s.cc = m.cc /\ s.x = m.x /\ s.mem = m.mem
  BY <1>1 DEF Ready, Skip, Fields
<1>3. \A q : At(s, q) = At(m, q)
  BY <1>2 DEF At
<1>4. \A q : WordAt(s, q) = WordAt(m, q)
  BY <1>3 DEF WordAt
<1> QED BY <1>2, <1>3, <1>4

(* The bound on prefixes is a number. *)
LEMMA PrefixBound == MaxPrefix \in Nat
BY RomAssumption, PTL

(* So is the place of the ROM: the solver is slow on large intervals. *)
LEMMA RomBound == RomStart \in Int /\ 0 <= RomStart /\ RomStart <= 65536
<1> DEFINE n == 65536
<1>1. n \in Nat
  BY SMT
<1>2. RomStart \in 0..n
  BY RomAssumption, PTL
<1> HIDE DEF n
<1>3. RomStart \in Int /\ 0 <= RomStart /\ RomStart <= n
  BY <1>1, <1>2, RangeDef
<1> QED BY <1>3 DEF n

(* An opcode that is no prefix is the opcode. *)
LEMMA NoPrefix ==
  ASSUME NEW m, m.pc \in Int, At(m, m.pc) \notin {16, 17}
  PROVE  PrefixCount(m) = 0 /\ Flag(m) = 0 /\ Opcode(m) = At(m, m.pc)
<1> DEFINE P(k) == /\ At(m, m.pc + k) \notin {16, 17}
                   /\ \A i \in 0..k-1 : At(m, m.pc + i) \in {16, 17}
<1>1. m.pc + 0 = m.pc
  BY SMT
<1>2. 0 \in 0..MaxPrefix /\ P(0)
  <2>1. MaxPrefix \in Nat
    BY PrefixBound, Zenon
  <2>2. 0 \in 0..MaxPrefix /\ \A i \in 0..0-1 : FALSE
    BY <2>1, SMT
  <2> QED BY <1>1, <2>2
<1>3. \A k \in 0..MaxPrefix : P(k) => k = 0
  <2> SUFFICES ASSUME NEW k \in 0..MaxPrefix, P(k), k # 0 PROVE FALSE
    OBVIOUS
  <2>0. MaxPrefix \in Nat
    BY PrefixBound, Zenon
  <2>1. 0 \in 0..k-1
    BY <2>0, SMT
  <2> QED BY <1>1, <2>1
<1>4. PrefixCount(m) = CHOOSE k \in 0..MaxPrefix : P(k)
  BY DEF PrefixCount
<1> HIDE DEF P
<1>5. PrefixCount(m) = 0
  BY <1>2, <1>3, <1>4
<1> QED BY <1>1, <1>5 DEF Flag, Opcode

(* And behind one prefix, $10 or $11, the flag is 1 or 2. *)
LEMMA OnePrefix ==
  ASSUME NEW m, m.pc \in Int, MaxPrefix >= 1,
         At(m, m.pc) \in {16, 17}, At(m, m.pc + 1) \notin {16, 17}
  PROVE  /\ PrefixCount(m) = 1 /\ Flag(m) = At(m, m.pc) - 15
         /\ Opcode(m) = At(m, m.pc + 1)
<1> DEFINE P(k) == /\ At(m, m.pc + k) \notin {16, 17}
                   /\ \A i \in 0..k-1 : At(m, m.pc + i) \in {16, 17}
<1>1. m.pc + 0 = m.pc /\ m.pc + 1 - 1 = m.pc
  BY SMT
<1>2. 1 \in 0..MaxPrefix /\ P(1)
  <2>1. \A i \in 0..1-1 : i = 0
    BY SMT
  <2>2. MaxPrefix \in Nat
    BY PrefixBound, Zenon
  <2>3. 1 \in 0..MaxPrefix
    BY <2>2, SMT
  <2> QED BY <1>1, <2>1, <2>3
<1>3. \A k \in 0..MaxPrefix : P(k) => k = 1
  <2> SUFFICES ASSUME NEW k \in 0..MaxPrefix, P(k), k # 1 PROVE FALSE
    OBVIOUS
  <2>0. MaxPrefix \in Nat
    BY PrefixBound, Zenon
  <2>1. k = 0 \/ 1 \in 0..k-1
    BY <2>0, SMT
  <2> QED BY <1>1, <2>1
<1>4. PrefixCount(m) = CHOOSE k \in 0..MaxPrefix : P(k)
  BY DEF PrefixCount
<1> HIDE DEF P
<1>5. PrefixCount(m) = 1
  BY <1>2, <1>3, <1>4
<1>6. Flag(m) = At(m, m.pc) - 15
  BY <1>1, <1>5 DEF Flag
<1> QED BY <1>5, <1>6, SMT DEF Opcode

(* The operand of an immediate byte behind a one-byte opcode. *)
LEMMA ImmediateOperand ==
  ASSUME NEW m, Ready(m, 2)
  PROVE  LET o == IMM8(Skip(m, 1))
         IN  /\ DOMAIN o.m = Fields /\ o.m.pc = m.pc + 2 /\ o.m.mem = m.mem
             /\ o.m.a = m.a /\ o.m.b = m.b /\ o.m.cc = m.cc
             /\ At(o.m, o.ea) = At(m, m.pc + 1)
<1> DEFINE i == Skip(m, 1)
<1> DEFINE o == IMM8(i)
<1>1. Ready(m, 1) /\ Ready(i, 1) /\ i.pc = m.pc + 1
  <2>1. Ready(m, 1)
    BY SMT DEF Ready
  <2>2. DOMAIN i = Fields /\ i.pc = m.pc + 1
    BY <2>1, SkipKeeps
  <2> HIDE DEF i
  <2> QED BY <2>1, <2>2, SMT DEF Ready
<1>2. o.m = Skip(i, 1) /\ o.ea = (m.pc + 1) % 65536
  BY <1>1 DEF IMM8, Operand
<1>3. /\ DOMAIN o.m = Fields /\ o.m.pc = m.pc + 2 /\ o.m.mem = m.mem
      /\ o.m.a = m.a /\ o.m.b = m.b /\ o.m.cc = m.cc
  <2>1. /\ i.mem = m.mem /\ i.a = m.a /\ i.b = m.b /\ i.cc = m.cc
    BY <1>1, SkipKeeps
  <2> HIDE DEF i, o
  <2>2. /\ DOMAIN o.m = Fields /\ o.m.pc = i.pc + 1 /\ o.m.mem = i.mem
        /\ o.m.a = i.a /\ o.m.b = i.b /\ o.m.cc = i.cc
    BY <1>1, <1>2, SkipKeeps
  <2>3. i.pc + 1 = m.pc + 2
    BY <1>1, SMT DEF Ready
  <2> QED BY <2>1, <2>2, <2>3
<1>4. At(o.m, o.ea) = At(m, m.pc + 1)
  <2>1. o.ea % 65536 = (m.pc + 1) % 65536
    BY <1>2, SMT DEF Ready
  <2> HIDE DEF o
  <2> QED BY <1>3, <2>1 DEF At
<1> HIDE DEF o
<1> QED BY <1>3, <1>4 DEF o

(* The names of the operations that the programs use. *)
LEMMA OperationNames ==
  /\ \A n \in {0, 1, 2, 9, 11} : BinaryOp[n + 1] # "16" /\ n \notin {3, 7, 12, 13, 14, 15}
  /\ BinaryOp[0 + 1] = "SUB" /\ BinaryOp[1 + 1] = "CMP" /\ BinaryOp[2 + 1] = "SBC"
  /\ BinaryOp[9 + 1] = "ADC" /\ BinaryOp[11 + 1] = "ADD" /\ BinaryOp[12 + 1] = "16"
<1>1. /\ BinaryOp[1] = "SUB" /\ BinaryOp[2] = "CMP" /\ BinaryOp[3] = "SBC"
      /\ BinaryOp[10] = "ADC" /\ BinaryOp[12] = "ADD" /\ BinaryOp[13] = "16"
  BY DEF BinaryOp
<1>2. \A n \in {0, 1, 2, 9, 11} : n + 1 \in {1, 2, 3, 10, 12}
  BY SMT
<1> QED BY <1>1, <1>2, SMT

(* The operations on an accumulator and an immediate byte that the         *)
(* programs use, on A.                                                     *)
LEMMA ImmediateA ==
  ASSUME NEW m, Ready(m, 2), NEW n \in {1, 2, 9, 11}, At(m, m.pc) = 128 + n, NEW j
  PROVE  LET t == Binary(BinaryOp[n + 1], m.a, At(m, m.pc + 1), m.cc)
             e == Exec(m, j)
         IN  /\ DOMAIN e = Fields /\ e.pc = m.pc + 2 /\ e.mem = m.mem
             /\ e.a = t.r /\ e.b = m.b /\ e.cc = t.cc
<1>1. Flag(m) = 0 /\ PrefixCount(m) = 0 /\ Opcode(m) \div 16 = 8 /\ Opcode(m) % 16 = n
  <2>1. At(m, m.pc) \notin {16, 17} /\ (128 + n) \div 16 = 8 /\ (128 + n) % 16 = n
    BY SMT
  <2> QED BY <2>1, NoPrefix DEF Ready
<1> DEFINE o == IMM8(Skip(m, 1))
<1>2. BinaryOp[n + 1] # "16" /\ n \notin {3, 7, 12, 13, 14, 15}
  BY OperationNames
<1>3. Exec(m, j) = Accumulator(n, o, "a")
  <2>1. Exec(m, j) = Row8(Skip(m, 1), n, 0)
    BY <1>1 DEF Exec
  <2>2. Row8(Skip(m, 1), n, 0) = ColumnA(n, o, 0)
    BY <1>2 DEF Row8
  <2>3. ColumnA(n, o, 0) = Accumulator(n, o, "a")
    BY <1>2 DEF ColumnA
  <2> QED BY <2>1, <2>2, <2>3
<1>4. /\ DOMAIN o.m = Fields /\ o.m.pc = m.pc + 2 /\ o.m.mem = m.mem
      /\ o.m.a = m.a /\ o.m.b = m.b /\ o.m.cc = m.cc
      /\ At(o.m, o.ea) = At(m, m.pc + 1)
  BY ImmediateOperand
<1> HIDE DEF o
<1> DEFINE t == Binary(BinaryOp[n + 1], m.a, At(m, m.pc + 1), m.cc)
<1>5. Accumulator(n, o, "a") = [o.m EXCEPT !["a"] = t.r, !.cc = t.cc]
  BY <1>2, <1>4 DEF Accumulator, Into
<1> HIDE DEF t
<1> DEFINE e == Exec(m, j)
<1>6. e = [o.m EXCEPT !["a"] = t.r, !.cc = t.cc]
  BY <1>3, <1>5
<1> HIDE DEF e
<1>7. /\ DOMAIN e = Fields /\ e.pc = m.pc + 2 /\ e.mem = m.mem
      /\ e.a = t.r /\ e.b = m.b /\ e.cc = t.cc
  BY <1>4, <1>6 DEF Fields
<1> QED BY <1>7 DEF e, t

(* The same on B. *)
LEMMA ImmediateB ==
  ASSUME NEW m, Ready(m, 2), NEW n \in {0, 11}, At(m, m.pc) = 192 + n, NEW j
  PROVE  LET t == Binary(BinaryOp[n + 1], m.b, At(m, m.pc + 1), m.cc)
             e == Exec(m, j)
         IN  /\ DOMAIN e = Fields /\ e.pc = m.pc + 2 /\ e.mem = m.mem
             /\ e.a = m.a /\ e.b = t.r /\ e.cc = t.cc
<1>1. Flag(m) = 0 /\ PrefixCount(m) = 0 /\ Opcode(m) \div 16 = 12 /\ Opcode(m) % 16 = n
  <2>1. At(m, m.pc) \notin {16, 17} /\ (192 + n) \div 16 = 12 /\ (192 + n) % 16 = n
    BY SMT
  <2> QED BY <2>1, NoPrefix DEF Ready
<1> DEFINE o == IMM8(Skip(m, 1))
<1>2. BinaryOp[n + 1] # "16" /\ n \notin {3, 7, 12, 13, 14, 15}
  BY OperationNames
<1>3. Exec(m, j) = Accumulator(n, o, "b")
  <2>1. Exec(m, j) = RowC(Skip(m, 1), n, 0)
    BY <1>1 DEF Exec
  <2>2. RowC(Skip(m, 1), n, 0) = ColumnB(n, o, 0)
    BY <1>2 DEF RowC
  <2>3. ColumnB(n, o, 0) = Accumulator(n, o, "b")
    BY <1>2 DEF ColumnB
  <2> QED BY <2>1, <2>2, <2>3
<1>4. /\ DOMAIN o.m = Fields /\ o.m.pc = m.pc + 2 /\ o.m.mem = m.mem
      /\ o.m.a = m.a /\ o.m.b = m.b /\ o.m.cc = m.cc
      /\ At(o.m, o.ea) = At(m, m.pc + 1)
  BY ImmediateOperand
<1> HIDE DEF o
<1> DEFINE t == Binary(BinaryOp[n + 1], m.b, At(m, m.pc + 1), m.cc)
<1>5. Accumulator(n, o, "b") = [o.m EXCEPT !["b"] = t.r, !.cc = t.cc]
  BY <1>2, <1>4 DEF Accumulator, Into
<1> HIDE DEF t
<1> DEFINE e == Exec(m, j)
<1>6. e = [o.m EXCEPT !["b"] = t.r, !.cc = t.cc]
  BY <1>3, <1>5
<1> HIDE DEF e
<1>7. /\ DOMAIN e = Fields /\ e.pc = m.pc + 2 /\ e.mem = m.mem
      /\ e.a = m.a /\ e.b = t.r /\ e.cc = t.cc
  BY <1>4, <1>6 DEF Fields
<1> QED BY <1>7 DEF e, t

(* CMPX with an immediate word. *)
LEMMA CompareX ==
  ASSUME NEW m, Ready(m, 3), At(m, m.pc) = 140, NEW j
  PROVE  LET e == Exec(m, j)
         IN  /\ DOMAIN e = Fields /\ e.pc = m.pc + 3 /\ e.mem = m.mem
             /\ e.cc = Sub16(m.x, WordAt(m, m.pc + 1), m.cc).cc
<1>1. Flag(m) = 0 /\ PrefixCount(m) = 0 /\ Opcode(m) \div 16 = 8 /\ Opcode(m) % 16 = 12
  <2>1. At(m, m.pc) \notin {16, 17} /\ 140 \div 16 = 8 /\ 140 % 16 = 12
    BY SMT
  <2> QED BY <2>1, NoPrefix DEF Ready
<1> DEFINE i == Skip(m, 1)
<1> DEFINE o == IMM16(i)
<1>2. Exec(m, j) = Compare16(o, "x")
  <2>1. Exec(m, j) = Row8(i, 12, 0)
    BY <1>1 DEF Exec
  <2>2. Row8(i, 12, 0) = ColumnA(12, o, 0)
    BY OperationNames DEF Row8
  <2>3. ColumnA(12, o, 0) = Compare16(o, <<"x", "y", "s">>[0 + 1])
    BY DEF ColumnA
  <2>4. <<"x", "y", "s">>[0 + 1] = "x"
    BY SMT
  <2> QED BY <2>1, <2>2, <2>3, <2>4
<1>3. Ready(m, 1) /\ Ready(i, 2) /\ i.pc = m.pc + 1
  <2>1. Ready(m, 1)
    BY SMT DEF Ready
  <2>2. DOMAIN i = Fields /\ i.pc = m.pc + 1
    BY <2>1, SkipKeeps
  <2> HIDE DEF i
  <2> QED BY <2>1, <2>2, SMT DEF Ready
<1>4. o.m = Skip(i, 2) /\ o.ea = (m.pc + 1) % 65536
  BY <1>3 DEF IMM16, Operand
<1>5. /\ DOMAIN o.m = Fields /\ o.m.pc = m.pc + 3 /\ o.m.mem = m.mem
      /\ o.m.x = m.x /\ o.m.cc = m.cc
  <2>1. /\ i.mem = m.mem /\ i.x = m.x /\ i.cc = m.cc
    BY <1>3, SkipKeeps
  <2> HIDE DEF i, o
  <2>2. /\ DOMAIN o.m = Fields /\ o.m.pc = i.pc + 2 /\ o.m.mem = i.mem
        /\ o.m.x = i.x /\ o.m.cc = i.cc
    BY <1>3, <1>4, SkipKeeps
  <2>3. i.pc + 2 = m.pc + 3
    BY <1>3, SMT DEF Ready
  <2> QED BY <2>1, <2>2, <2>3
<1>6. WordAt(o.m, o.ea) = WordAt(m, m.pc + 1)
  <2>1. o.ea = m.pc + 1
    BY <1>4, SMT DEF Ready
  <2> HIDE DEF o
  <2> QED BY <1>5, <2>1 DEF WordAt, At
<1> HIDE DEF o
<1>7. Reg(o.m, "x") = m.x
  BY <1>5 DEF Reg
<1>8. Compare16(o, "x") = [o.m EXCEPT !.cc = Sub16(m.x, WordAt(m, m.pc + 1), o.m.cc).cc]
  BY <1>5, <1>6, <1>7 DEF Compare16, Fields
<1> DEFINE c == Sub16(m.x, WordAt(m, m.pc + 1), m.cc).cc
<1>9. Compare16(o, "x") = [o.m EXCEPT !.cc = c]
  BY <1>5, <1>8
<1> HIDE DEF c
<1> QED BY <1>2, <1>5, <1>9 DEF Fields, c

(* DAA. *)
LEMMA AdjustA ==
  ASSUME NEW m, Ready(m, 1), At(m, m.pc) = 25, NEW j
  PROVE  LET t == Daa(m.a, m.cc)
             e == Exec(m, j)
         IN  e.a = t.r /\ e.cc = t.cc
<1>1. Flag(m) = 0 /\ PrefixCount(m) = 0 /\ Opcode(m) \div 16 = 1 /\ Opcode(m) % 16 = 9
  <2>1. At(m, m.pc) \notin {16, 17} /\ 25 \div 16 = 1 /\ 25 % 16 = 9
    BY SMT
  <2> QED BY <2>1, NoPrefix DEF Ready
<1> DEFINE i == Skip(m, 1)
<1> DEFINE t == Daa(m.a, m.cc)
<1>2. Exec(m, j) = Row1(i, 9, j)
  BY <1>1 DEF Exec
<1>3. DOMAIN i = Fields /\ i.a = m.a /\ i.cc = m.cc
  BY SkipKeeps
<1> HIDE DEF i
<1>4. Row1(i, 9, j) = [i EXCEPT !.a = t.r, !.cc = t.cc]
  <2>1. Row1(i, 9, j) = Into(i, "a", Daa(i.a, i.cc))
    BY SMT DEF Row1
  <2>2. Into(i, "a", Daa(i.a, i.cc)) = Into(i, "a", t)
    BY <1>3
  <2> HIDE DEF t
  <2>3. Into(i, "a", t) = [i EXCEPT !.a = t.r, !.cc = t.cc]
    BY Zenon DEF Into
  <2> QED BY <2>1, <2>2, <2>3
<1> HIDE DEF t
<1>5. Exec(m, j) = [i EXCEPT !.a = t.r, !.cc = t.cc]
  BY <1>2, <1>4
<1>6. [i EXCEPT !.a = t.r, !.cc = t.cc].a = t.r
  BY <1>3 DEF Fields
<1>7. [i EXCEPT !.a = t.r, !.cc = t.cc].cc = t.cc
  BY <1>3 DEF Fields
<1> QED BY <1>5, <1>6, <1>7 DEF t

(* A short branch, over the 16 bytes of the programs. *)
LEMMA ShortBranch ==
  ASSUME NEW m, Ready(m, 2), NEW n \in 0..15, At(m, m.pc) = 32 + n,
         At(m, m.pc + 1) = 16, NEW j
  PROVE  /\ Taken(n, m.cc) => Exec(m, j).pc = (m.pc + 2 + 16) % 65536
         /\ ~Taken(n, m.cc) => Exec(m, j).pc = m.pc + 2
<1>1. Flag(m) = 0 /\ PrefixCount(m) = 0 /\ Opcode(m) \div 16 = 2 /\ Opcode(m) % 16 = n
  <2>1. At(m, m.pc) \notin {16, 17} /\ (32 + n) \div 16 = 2 /\ (32 + n) % 16 = n
    BY SMT
  <2> QED BY <2>1, NoPrefix DEF Ready
<1> DEFINE i == Skip(m, 1)
<1> DEFINE next == Skip(i, 1)
<1>2. Exec(m, j) = Row2(i, n, 0)
  BY <1>1 DEF Exec
<1>3. Ready(m, 1) /\ Ready(i, 1) /\ i.pc = m.pc + 1 /\ i.cc = m.cc /\ At(i, i.pc) = 16
  <2>1. Ready(m, 1)
    BY SMT DEF Ready
  <2>2. /\ DOMAIN i = Fields /\ i.pc = m.pc + 1 /\ i.cc = m.cc
        /\ \A q : At(i, q) = At(m, q)
    BY <2>1, SkipKeeps
  <2> HIDE DEF i
  <2> QED BY <2>1, <2>2, SMT DEF Ready
<1>4. DOMAIN next = Fields /\ next.pc = m.pc + 2
  <2>1. DOMAIN next = Fields /\ next.pc = i.pc + 1
    BY <1>3, SkipKeeps
  <2> HIDE DEF i, next
  <2> QED BY <1>3, <2>1, SMT DEF Ready
<1>5. Signed(At(i, i.pc)) = 16
  BY <1>3, SMT DEF Signed
<1> HIDE DEF i
<1>6. Row2(i, n, 0) = IF Taken(n, m.cc) THEN Jump(next, next.pc + 16) ELSE next
  BY <1>3, <1>5 DEF Row2
<1> HIDE DEF next
<1> QED BY <1>2, <1>4, <1>6 DEF Jump, Fields

(* A long branch. *)
LEMMA LongBranch ==
  ASSUME NEW m, Ready(m, 4), NEW n \in 0..15, MaxPrefix >= 1,
         At(m, m.pc) = 16, At(m, m.pc + 1) = 32 + n, NEW j
  PROVE  Exec(m, j).pc = IF Taken(n, m.cc) THEN (m.pc + 4 + WordAt(m, m.pc + 2)) % 65536
                                           ELSE m.pc + 4
<1>1. Flag(m) = 1 /\ PrefixCount(m) = 1 /\ Opcode(m) \div 16 = 2 /\ Opcode(m) % 16 = n
  <2>1. At(m, m.pc + 1) \notin {16, 17} /\ (32 + n) \div 16 = 2 /\ (32 + n) % 16 = n
    BY SMT
  <2>2. At(m, m.pc) \in {16, 17} /\ At(m, m.pc) - 15 = 1
    BY SMT
  <2> QED BY <2>1, <2>2, OnePrefix DEF Ready
<1> DEFINE i == Skip(m, 2)
<1> DEFINE next == Skip(i, 2)
<1> DEFINE w == WordAt(m, m.pc + 2)
<1>2. Exec(m, j) = Row2(i, n, 1)
  BY <1>1 DEF Exec
<1>3. Ready(m, 2) /\ Ready(i, 2) /\ i.pc = m.pc + 2 /\ i.cc = m.cc /\ WordAt(i, i.pc) = w
  <2>1. Ready(m, 2)
    BY SMT DEF Ready
  <2>2. /\ DOMAIN i = Fields /\ i.pc = m.pc + 2 /\ i.cc = m.cc
        /\ \A q : WordAt(i, q) = WordAt(m, q)
    BY <2>1, SkipKeeps
  <2> HIDE DEF i
  <2> QED BY <2>1, <2>2, SMT DEF Ready
<1>4. DOMAIN next = Fields /\ next.pc = m.pc + 4
  <2>1. DOMAIN next = Fields /\ next.pc = i.pc + 2
    BY <1>3, SkipKeeps
  <2> HIDE DEF i, next
  <2> QED BY <1>3, <2>1, SMT DEF Ready
<1> HIDE DEF i
<1>5. Row2(i, n, 1) = IF Taken(n, m.cc) THEN Jump(next, next.pc + w) ELSE next
  BY <1>3 DEF Row2
<1> HIDE DEF next, w
<1> QED BY <1>2, <1>4, <1>5 DEF Jump, Fields, w

-----------------------------------------------------------------------------
(* No instruction leaves a register or a byte of memory beyond its width.  *)

Mems == UNION {[q -> Byte] : q \in SUBSET Word}
WordRegs == {"x", "y", "u", "s", "pc"}

(* A machine is a record, and its memory a function on addresses.          *)
LEMMA MachineFields ==
  /\ Machine = [a : Byte, b : Byte, dp : Byte, cc : SUBSET Flags,
                x : Word, y : Word, u : Word, s : Word, pc : Word, mem : Mems]
  /\ \A mem : mem \in Mems <=> mem \in [DOMAIN mem -> Byte] /\ DOMAIN mem \subseteq Word
<1>1. Machine = [a : Byte, b : Byte, dp : Byte, cc : SUBSET Flags,
                 x : Word, y : Word, u : Word, s : Word, pc : Word, mem : Mems]
  BY DEF Machine, Mems
<1>2. ASSUME NEW mem \in Mems PROVE mem \in [DOMAIN mem -> Byte] /\ DOMAIN mem \subseteq Word
  <2>1. PICK q \in SUBSET Word : mem \in [q -> Byte]
    BY <1>2 DEF Mems
  <2> QED BY <2>1
<1>3. ASSUME NEW mem, mem \in [DOMAIN mem -> Byte], DOMAIN mem \subseteq Word
      PROVE  mem \in Mems
  BY <1>3 DEF Mems
<1> QED BY <1>1, <1>2, <1>3, Zenon

(* A register or memory of the right width in the place of another.        *)
LEMMA FieldType ==
  ASSUME NEW m \in Machine
  PROVE  /\ m.a \in Byte /\ m.b \in Byte /\ m.dp \in Byte /\ m.cc \in SUBSET Flags
         /\ m.mem \in Mems
         /\ \A r \in WordRegs : m[r] \in Word
         /\ \A r \in {"a", "b", "dp"} : m[r] \in Byte
         /\ \A v \in Byte, r \in {"a", "b", "dp"} : [m EXCEPT ![r] = v] \in Machine
         /\ \A c \in SUBSET Flags : [m EXCEPT !.cc = c] \in Machine
         /\ \A w \in Word, r \in WordRegs : [m EXCEPT ![r] = w] \in Machine
         /\ \A mem \in Mems : [m EXCEPT !.mem = mem] \in Machine
<1> USE MachineFields
<1>1. m.a \in Byte /\ m.b \in Byte /\ m.dp \in Byte /\ m.cc \in SUBSET Flags /\ m.mem \in Mems
  OBVIOUS
<1>2. m.x \in Word /\ m.y \in Word /\ m.u \in Word /\ m.s \in Word /\ m.pc \in Word
  OBVIOUS
<1>3. \A r \in WordRegs : m[r] \in Word
  BY <1>2 DEF WordRegs
<1>4. \A r \in {"a", "b", "dp"} : m[r] \in Byte
  BY <1>1
<1>5. ASSUME NEW v \in Byte
      PROVE  /\ [m EXCEPT !.a = v] \in Machine
             /\ [m EXCEPT !.b = v] \in Machine
             /\ [m EXCEPT !.dp = v] \in Machine
  OBVIOUS
<1>6. \A v \in Byte, r \in {"a", "b", "dp"} : [m EXCEPT ![r] = v] \in Machine
  BY <1>5, Zenon
<1>7. \A c \in SUBSET Flags : [m EXCEPT !.cc = c] \in Machine
  OBVIOUS
<1>8. ASSUME NEW w \in Word
      PROVE  /\ [m EXCEPT !.x = w] \in Machine
             /\ [m EXCEPT !.y = w] \in Machine
             /\ [m EXCEPT !.u = w] \in Machine
             /\ [m EXCEPT !.s = w] \in Machine
             /\ [m EXCEPT !.pc = w] \in Machine
  OBVIOUS
<1>9. \A w \in Word, r \in WordRegs : [m EXCEPT ![r] = w] \in Machine
  BY <1>8, Zenon DEF WordRegs
<1>10. \A mem \in Mems : [m EXCEPT !.mem = mem] \in Machine
  OBVIOUS
<1> QED BY <1>1, <1>3, <1>4, <1>6, <1>7, <1>9, <1>10, Zenon

(* What is read from memory is a byte or a word.                           *)
LEMMA MemoryType ==
  ASSUME NEW m \in Machine
  PROVE  /\ \A q : At(m, q) \in Byte
         /\ \A q : WordAt(m, q) \in Word
<1>1. m.mem \in [DOMAIN m.mem -> Byte]
  BY FieldType, MachineFields
<1>2. \A q : At(m, q) \in Byte
  <2> SUFFICES ASSUME NEW q PROVE At(m, q) \in Byte
    OBVIOUS
  <2>1. CASE q % 65536 \in DOMAIN m.mem
    BY <1>1, <2>1 DEF At
  <2>2. CASE q % 65536 \notin DOMAIN m.mem
    BY <2>2, ByteDef DEF At
  <2> QED BY <2>1, <2>2
<1>3. \A q : WordAt(m, q) \in Word
  BY <1>2, TwoBytes DEF WordAt
<1> QED BY <1>2, <1>3

(* A store is to memory only, and leaves bytes there.                      *)
LEMMA SetByteType ==
  ASSUME NEW m \in Machine, NEW q \in Word, NEW v \in Byte
  PROVE  /\ SetByte(m, q, v) \in Machine
         /\ SetByte(m, q, v) = [m EXCEPT !.mem = SetByte(m, q, v).mem]
<1> DEFINE mem == [p \in DOMAIN m.mem \cup {q} |-> IF p = q THEN v ELSE m.mem[p]]
<1>1. m.mem \in [DOMAIN m.mem -> Byte] /\ DOMAIN m.mem \subseteq Word
  BY FieldType, MachineFields
<1>2. mem \in [DOMAIN mem -> Byte] /\ DOMAIN mem \subseteq Word
  BY <1>1
<1>3. mem \in Mems
  <2> HIDE DEF mem
  <2> QED BY <1>2, MachineFields
<1> HIDE DEF mem
<1>4. SetByte(m, q, v) = IF q >= RomStart THEN m ELSE [m EXCEPT !.mem = mem]
  BY DEF SetByte, mem
<1>5. [m EXCEPT !.mem = mem] \in Machine
  BY <1>3, FieldType
<1>6. m = [m EXCEPT !.mem = m.mem]
  BY MachineFields
<1>7. [m EXCEPT !.mem = mem].mem = mem
  BY MachineFields
<1> QED BY <1>4, <1>5, <1>6, <1>7

(* A word is two bytes, and addresses wrap.                                *)
LEMMA WordHalves ==
  ASSUME NEW w \in Word
  PROVE  /\ Hi(w) \in Byte /\ Lo(w) \in Byte /\ w % 256 \in Byte
         /\ \A n \in Int : (w + n) % 65536 \in Word
  BY WordDef, ByteDef, SMT DEF Hi, Lo

(* A store of a word.                                                      *)
LEMMA SetWordType ==
  ASSUME NEW m \in Machine, NEW q \in Word, NEW w \in Word
  PROVE  SetWord(m, q, w) \in Machine
<1>1. Hi(w) \in Byte /\ Lo(w) \in Byte
  BY WordHalves
<1>2. (q + 1) % 65536 \in Word
  BY WordDef, SMT
<1> QED BY <1>1, <1>2, SetByteType DEF SetWord

(* The program counter stays a word.                                       *)
LEMMA SkipType ==
  ASSUME NEW m \in Machine
  PROVE  /\ \A n \in Int : Skip(m, n) \in Machine
         /\ \A q \in Int : Jump(m, q) \in Machine
<1>1. m.pc \in Word /\ \A w \in Word : [m EXCEPT !.pc = w] \in Machine
  BY FieldType DEF WordRegs
<1>2. \A n \in Int : (m.pc + n) % 65536 \in Word
  BY <1>1, WordHalves
<1>3. \A q \in Int : q % 65536 \in Word
  BY WordDef, SMT
<1> QED BY <1>1, <1>2, <1>3 DEF Skip, Jump

(* What is read from a register, CC as a byte.                             *)
LEMMA RegType ==
  ASSUME NEW m \in Machine
  PROVE  /\ D(m) \in Word
         /\ \A r \in ByteRegs : Reg(m, r) \in Byte
         /\ \A r \in WordRegs \cup {"d"} : Reg(m, r) \in Word
<1>1. D(m) \in Word
  BY FieldType, TwoBytes DEF D
<1>2. CcByte(m.cc) \in Byte
  BY WeightType DEF CcByte
<1>3. Reg(m, "cc") = CcByte(m.cc) /\ Reg(m, "d") = D(m)
  BY DEF Reg
<1>4. \A r \in WordRegs \cup {"a", "b", "dp"} : Reg(m, r) = m[r]
  BY DEF Reg, WordRegs
<1> QED BY <1>1, <1>2, <1>3, <1>4, FieldType, Zenon DEF ByteRegs

(* D set.                                                                  *)
LEMMA SetDType ==
  ASSUME NEW m \in Machine, NEW w \in Word
  PROVE  SetD(m, w) \in Machine
<1>1. Hi(w) \in Byte /\ Lo(w) \in Byte
  BY WordHalves
<1>2. [m EXCEPT !.a = Hi(w), !.b = Lo(w)] \in Machine
  BY <1>1, MachineFields
<1> QED BY <1>2 DEF SetD

(* A register set.                                                         *)
LEMMA SetRegType ==
  ASSUME NEW m \in Machine, NEW w \in Word
  PROVE  \A r \in ByteRegs \cup WordRegs \cup {"d"} : SetReg(m, r, w) \in Machine
<1>1. w % 256 \in Byte
  BY WordHalves
<1>2. ByteCc(w % 256) \in SUBSET Flags
  BY DEF ByteCc
<1>3. SetReg(m, "d", w) = SetD(m, w)
  BY DEF SetReg, ByteRegs
<1>9. SetReg(m, "cc", w) = [m EXCEPT !.cc = ByteCc(w % 256)]
  BY DEF SetReg
<1>4. \A r \in {"a", "b", "dp"} : SetReg(m, r, w) = [m EXCEPT ![r] = w % 256]
  BY DEF SetReg, ByteRegs
<1>5. \A r \in WordRegs : SetReg(m, r, w) = [m EXCEPT ![r] = w]
  BY DEF SetReg, ByteRegs, WordRegs
<1>6. SetReg(m, "d", w) \in Machine /\ SetReg(m, "cc", w) \in Machine
  BY <1>2, <1>3, <1>9, SetDType, FieldType
<1>7. \A r \in {"a", "b", "dp"} : SetReg(m, r, w) \in Machine
  BY <1>1, <1>4, FieldType
<1>8. \A r \in WordRegs : SetReg(m, r, w) \in Machine
  BY <1>5, FieldType
<1> QED BY <1>6, <1>7, <1>8, Zenon DEF ByteRegs

-----------------------------------------------------------------------------
(* Stacks. *)

(* A register pushed.                                                      *)
LEMMA PushType ==
  ASSUME NEW m \in Machine, NEW st \in {"s", "u"}, NEW r \in ByteRegs \cup WordRegs
  PROVE  Push(m, st, r) \in Machine
<1>1. m[st] \in Word /\ \A w \in Word : [m EXCEPT ![st] = w] \in Machine
  BY FieldType DEF WordRegs
<1>2. (m[st] + 65535) % 65536 \in Word /\ (m[st] + 65534) % 65536 \in Word
  BY <1>1, WordHalves
<1>3. CASE r \in ByteRegs
  <2> DEFINE p == (m[st] + 65535) % 65536
  <2>1. Reg(m, r) \in Byte
    BY <1>3, RegType
  <2>2. Push(m, st, r) = SetByte([m EXCEPT ![st] = p], p, Reg(m, r))
    BY <1>3 DEF Push
  <2> HIDE DEF p
  <2> QED BY <1>1, <1>2, <2>1, <2>2, SetByteType DEF p
<1>4. CASE r \in WordRegs /\ r \notin ByteRegs
  <2> DEFINE p == (m[st] + 65534) % 65536
  <2> DEFINE n == [m EXCEPT ![st] = p]
  <2>1. Push(m, st, r) = SetWord(n, p, n[r])
    BY <1>4 DEF Push
  <2>2. n \in Machine
    BY <1>1, <1>2
  <2> HIDE DEF n
  <2>3. n[r] \in Word
    BY <2>2, <1>4, FieldType
  <2> QED BY <1>2, <2>1, <2>2, <2>3, SetWordType
<1> QED BY <1>3, <1>4

(* A register pulled.                                                      *)
LEMMA PullType ==
  ASSUME NEW m \in Machine, NEW st \in {"s", "u"}, NEW r \in ByteRegs \cup WordRegs
  PROVE  Pull(m, st, r) \in Machine
<1>1. m[st] \in Word /\ \A w \in Word : [m EXCEPT ![st] = w] \in Machine
  BY FieldType DEF WordRegs
<1>2. (m[st] + 1) % 65536 \in Word /\ (m[st] + 2) % 65536 \in Word
  BY <1>1, WordHalves
<1>3. CASE r \in ByteRegs
  <2> DEFINE n == [m EXCEPT ![st] = (m[st] + 1) % 65536]
  <2>1. Pull(m, st, r) = SetReg(n, r, At(m, m[st]))
    BY <1>3 DEF Pull
  <2>2. n \in Machine
    BY <1>1, <1>2
  <2>3. At(m, m[st]) \in Word
    BY MemoryType, ByteDef, WordDef, SMT
  <2> HIDE DEF n
  <2> QED BY <1>3, <2>1, <2>2, <2>3, SetRegType
<1>4. CASE r \in WordRegs /\ r \notin ByteRegs
  <2> DEFINE n == [m EXCEPT ![st] = (m[st] + 2) % 65536]
  <2>1. Pull(m, st, r) = [n EXCEPT ![r] = WordAt(m, m[st])]
    BY <1>4 DEF Pull
  <2>2. n \in Machine
    BY <1>1, <1>2
  <2>3. WordAt(m, m[st]) \in Word
    BY MemoryType
  <2> HIDE DEF n
  <2>4. \A w \in Word : [n EXCEPT ![r] = w] \in Machine
    BY <1>4, <2>2, FieldType
  <2> QED BY <2>1, <2>3, <2>4
<1> QED BY <1>3, <1>4

(* Several registers pushed or pulled.                                     *)
LEMMA PushAllType ==
  ASSUME NEW m \in Machine, NEW st \in {"s", "u"}, NEW regs
  PROVE  /\ PushAll(m, st, Other(st), regs) \in Machine
         /\ PullAll(m, st, Other(st), regs) \in Machine
<1> DEFINE Pushing(r) == \A n \in Machine : PushIn(n, st, regs, r) \in Machine
<1> DEFINE Pulling(r) == \A n \in Machine : PullIn(n, st, regs, r) \in Machine
<1>1. \A r \in ByteRegs \cup WordRegs : Pushing(r) /\ Pulling(r)
  BY PushType, PullType DEF PushIn, PullIn
<1>2. Other(st) \in WordRegs
  BY DEF Other, WordRegs
<1>3. /\ Pushing("pc") /\ Pushing(Other(st)) /\ Pushing("y") /\ Pushing("x")
      /\ Pushing("dp") /\ Pushing("b") /\ Pushing("a") /\ Pushing("cc")
  BY <1>1, <1>2 DEF ByteRegs, WordRegs
<1>4. /\ Pulling("pc") /\ Pulling(Other(st)) /\ Pulling("y") /\ Pulling("x")
      /\ Pulling("dp") /\ Pulling("b") /\ Pulling("a") /\ Pulling("cc")
  BY <1>1, <1>2 DEF ByteRegs, WordRegs
<1>5. PushAll(m, st, Other(st), regs) \in Machine
  BY <1>3 DEF PushAll
<1>6. PullAll(m, st, Other(st), regs) \in Machine
  BY <1>4 DEF PullAll
<1> QED BY <1>5, <1>6

(* PSHS, PULS, PSHU and PULU.                                              *)
LEMMA PushedType ==
  ASSUME NEW m \in Machine, NEW st \in {"s", "u"}
  PROVE  Pushed(m, st) \in Machine /\ Pulled(m, st) \in Machine
<1>1. Skip(m, 1) \in Machine
  BY SkipType
<1> QED BY <1>1, PushAllType DEF Pushed, Pulled

-----------------------------------------------------------------------------
(* Operands. *)

OperandOK(o) == o.m \in Machine /\ o.ea \in Word

(* An address is a word.                                                   *)
LEMMA OperandType ==
  ASSUME NEW m \in Machine, NEW q \in Int
  PROVE  OperandOK(Operand(m, q))
BY WordDef, SMT DEF OperandOK, Operand

(* Immediate, direct and extended operands.                                *)
LEMMA DirectType ==
  ASSUME NEW m \in Machine
  PROVE  /\ OperandOK(IMM8(m)) /\ OperandOK(IMM16(m))
         /\ OperandOK(DIRECT(m)) /\ OperandOK(EXTENDED(m))
<1>1. /\ m.pc \in Int /\ m.dp \in Byte
  BY FieldType, WordDef DEF WordRegs
<1>2. 256 * m.dp + At(m, m.pc) \in Int /\ WordAt(m, m.pc) \in Int
  BY <1>1, MemoryType, ByteDef, WordDef, SMT
<1>3. Skip(m, 1) \in Machine /\ Skip(m, 2) \in Machine
  BY SkipType
<1> QED BY <1>1, <1>2, <1>3, OperandType DEF IMM8, IMM16, DIRECT, EXTENDED

(* The register that a postbyte names.                                     *)
LEMMA IndexRegType == \A b \in Byte : IndexReg(b) \in {"x", "y", "u", "s"}
<1> SUFFICES ASSUME NEW b \in Byte PROVE IndexReg(b) \in {"x", "y", "u", "s"}
  OBVIOUS
<1>1. ((b \div 32) % 4) + 1 \in 1..4
  BY ByteDef, SMT
<1>2. \A n \in 1..4 : <<"x", "y", "u", "s">>[n] \in {"x", "y", "u", "s"}
  BY SMT
<1> QED BY <1>1, <1>2 DEF IndexReg

(* A register moved by a postbyte. *)
Moved(m, r, d) == [m EXCEPT ![r] = (m[r] + d) % 65536]

(* It wraps.                                                               *)
LEMMA MovedType ==
  ASSUME NEW m \in Machine, NEW r \in WordRegs, NEW d \in Int
  PROVE  Moved(m, r, d) \in Machine
<1>1. (m[r] + d) % 65536 \in Word
  BY FieldType, WordHalves
<1> QED BY <1>1, FieldType DEF Moved

(* Every postbyte, without the indirection.                                *)
LEMMA IndexedModeType ==
  ASSUME NEW m \in Machine, NEW b \in Byte
  PROVE  OperandOK(IndexedMode(m, b)) /\ OperandOK(Offset5(m, b))
<1> DEFINE r == IndexReg(b)
<1> DEFINE i == IndexedMode(m, b)
<1>1. r \in WordRegs
  BY IndexRegType DEF WordRegs
<1> HIDE DEF r, i
<1>2. m[r] \in Int /\ m.pc \in Int
  BY <1>1, FieldType, WordDef DEF WordRegs
<1>3. m[r] + 65535 \in Int /\ m[r] + 65534 \in Int /\ 0 \in Int
  BY <1>2, SMT
<1>4. m[r] + Signed(m.a) \in Int /\ m[r] + Signed(m.b) \in Int
  <2>1. m.a \in Byte /\ m.b \in Byte
    BY FieldType
  <2> QED BY <1>2, <2>1, ByteDef, SMT DEF Signed
<1>5. m[r] + Signed(At(m, m.pc)) \in Int /\ m[r] + WordAt(m, m.pc) \in Int
  <2>1. At(m, m.pc) \in Byte /\ WordAt(m, m.pc) \in Word
    BY MemoryType
  <2> QED BY <1>2, <2>1, ByteDef, WordDef, SMT DEF Signed
<1>6. m[r] + D(m) \in Int
  <2>1. D(m) \in Word
    BY RegType
  <2> QED BY <1>2, <2>1, WordDef, SMT
<1>7. m.pc + 1 + Signed(At(m, m.pc)) \in Int /\ m.pc + 2 + WordAt(m, m.pc) \in Int
  <2>1. At(m, m.pc) \in Byte /\ WordAt(m, m.pc) \in Word
    BY MemoryType
  <2> QED BY <1>2, <2>1, ByteDef, WordDef, SMT DEF Signed
<1>8. Skip(m, 1) \in Machine /\ Skip(m, 2) \in Machine
  BY SkipType
<1>9. /\ Moved(m, r, 1) \in Machine /\ Moved(m, r, 2) \in Machine
      /\ Moved(m, r, 65535) \in Machine /\ Moved(m, r, 65534) \in Machine
  BY <1>1, MovedType
<1>10. OperandOK(Offset5(m, b))
  <2> DEFINE d == IF b % 32 < 16 THEN b % 32 ELSE 65504 + (b % 32)
  <2>1. Offset5(m, b) = Operand(m, m[r] + d)
    BY DEF Offset5, r
  <2>2. m[r] + d \in Int
    BY <1>2, ByteDef, SMT
  <2> HIDE DEF d
  <2> QED BY <2>1, <2>2, OperandType
<1>11. CASE b % 16 = 0
  <2>1. i = Operand(Moved(m, r, 1), m[r])
    BY <1>11, SMT DEF IndexedMode, IllegalModes, Moved, i, r
  <2>2. OperandOK(Operand(Moved(m, r, 1), m[r]))
    BY <1>2, <1>8, <1>9, OperandType, SMT
  <2> QED BY <1>10, <2>1, <2>2, SMT DEF i
<1>12. CASE b % 16 = 1
  <2>1. i = Operand(Moved(m, r, 2), m[r])
    BY <1>12, SMT DEF IndexedMode, IllegalModes, Moved, i, r
  <2>2. OperandOK(Operand(Moved(m, r, 2), m[r]))
    BY <1>2, <1>8, <1>9, OperandType, SMT
  <2> QED BY <1>10, <2>1, <2>2, SMT DEF i
<1>13. CASE b % 16 = 2
  <2>1. i = Operand(Moved(m, r, 65535), m[r] + 65535)
    BY <1>13, SMT DEF IndexedMode, IllegalModes, Moved, i, r
  <2>2. OperandOK(Operand(Moved(m, r, 65535), m[r] + 65535))
    BY <1>3, <1>8, <1>9, OperandType, SMT
  <2> QED BY <1>10, <2>1, <2>2, SMT DEF i
<1>14. CASE b % 16 = 3
  <2>1. i = Operand(Moved(m, r, 65534), m[r] + 65534)
    BY <1>14, SMT DEF IndexedMode, IllegalModes, Moved, i, r
  <2>2. OperandOK(Operand(Moved(m, r, 65534), m[r] + 65534))
    BY <1>3, <1>8, <1>9, OperandType, SMT
  <2> QED BY <1>10, <2>1, <2>2, SMT DEF i
<1>15. CASE b % 16 = 4
  <2>1. i = Operand(m, m[r])
    BY <1>15, SMT DEF IndexedMode, IllegalModes, Moved, i, r
  <2>2. OperandOK(Operand(m, m[r]))
    BY <1>2, <1>8, <1>9, OperandType, SMT
  <2> QED BY <1>10, <2>1, <2>2, SMT DEF i
<1>16. CASE b % 16 = 5
  <2>1. i = Operand(m, m[r] + Signed(m.b))
    BY <1>16, SMT DEF IndexedMode, IllegalModes, Moved, i, r
  <2>2. OperandOK(Operand(m, m[r] + Signed(m.b)))
    BY <1>4, <1>8, <1>9, OperandType, SMT
  <2> QED BY <1>10, <2>1, <2>2, SMT DEF i
<1>17. CASE b % 16 = 6
  <2>1. i = Operand(m, m[r] + Signed(m.a))
    BY <1>17, SMT DEF IndexedMode, IllegalModes, Moved, i, r
  <2>2. OperandOK(Operand(m, m[r] + Signed(m.a)))
    BY <1>4, <1>8, <1>9, OperandType, SMT
  <2> QED BY <1>10, <2>1, <2>2, SMT DEF i
<1>18. CASE b % 16 = 8
  <2>1. i = Operand(Skip(m, 1), m[r] + Signed(At(m, m.pc)))
    BY <1>18, SMT DEF IndexedMode, IllegalModes, Moved, i, r
  <2>2. OperandOK(Operand(Skip(m, 1), m[r] + Signed(At(m, m.pc))))
    BY <1>5, <1>8, <1>9, OperandType, SMT
  <2> QED BY <1>10, <2>1, <2>2, SMT DEF i
<1>19. CASE b % 16 = 9
  <2>1. i = Operand(Skip(m, 2), m[r] + WordAt(m, m.pc))
    BY <1>19, SMT DEF IndexedMode, IllegalModes, Moved, i, r
  <2>2. OperandOK(Operand(Skip(m, 2), m[r] + WordAt(m, m.pc)))
    BY <1>5, <1>8, <1>9, OperandType, SMT
  <2> QED BY <1>10, <2>1, <2>2, SMT DEF i
<1>20. CASE b % 16 = 11
  <2>1. i = Operand(m, m[r] + D(m))
    BY <1>20, SMT DEF IndexedMode, IllegalModes, Moved, i, r
  <2>2. OperandOK(Operand(m, m[r] + D(m)))
    BY <1>6, <1>8, <1>9, OperandType, SMT
  <2> QED BY <1>10, <2>1, <2>2, SMT DEF i
<1>21. CASE b % 16 = 12
  <2>1. i = Operand(Skip(m, 1), m.pc + 1 + Signed(At(m, m.pc)))
    BY <1>21, SMT DEF IndexedMode, IllegalModes, Moved, i, r
  <2>2. OperandOK(Operand(Skip(m, 1), m.pc + 1 + Signed(At(m, m.pc))))
    BY <1>7, <1>8, <1>9, OperandType, SMT
  <2> QED BY <1>10, <2>1, <2>2, SMT DEF i
<1>22. CASE b % 16 = 13
  <2>1. i = Operand(Skip(m, 2), m.pc + 2 + WordAt(m, m.pc))
    BY <1>22, SMT DEF IndexedMode, IllegalModes, Moved, i, r
  <2>2. OperandOK(Operand(Skip(m, 2), m.pc + 2 + WordAt(m, m.pc)))
    BY <1>7, <1>8, <1>9, OperandType, SMT
  <2> QED BY <1>10, <2>1, <2>2, SMT DEF i
<1>23. CASE b % 16 = 15
  <2>1. i = EXTENDED(m)
    BY <1>23, SMT DEF IndexedMode, IllegalModes, Moved, i, r
  <2> QED BY <1>10, <2>1, DirectType DEF i
<1>24. CASE b % 16 \in {7, 10, 14}
  <2>1. i = Operand(m, 0)
    BY <1>24, SMT DEF IndexedMode, IllegalModes, Moved, i, r
  <2>2. OperandOK(Operand(m, 0))
    BY <1>3, <1>8, <1>9, OperandType, SMT
  <2> QED BY <1>10, <2>1, <2>2, SMT DEF i
<1>30. b % 16 \in {0, 1, 2, 3, 4, 5, 6, 8, 9, 11, 12, 13, 15, 7, 10, 14}
  BY ByteDef, SMT
<1> QED BY <1>30, <1>11, <1>12, <1>13, <1>14, <1>15, <1>16, <1>17, <1>18, <1>19, <1>20, <1>21, <1>22, <1>23, <1>24, SMT

(* And with it.                                                            *)
LEMMA IndexedType ==
  ASSUME NEW m \in Machine
  PROVE  OperandOK(INDEXED(m))
<1> DEFINE b == At(m, m.pc)
<1> DEFINE i == IndexedMode(Skip(m, 1), b)
<1>1. b \in Byte /\ Skip(m, 1) \in Machine
  BY MemoryType, SkipType
<1> HIDE DEF b
<1>2. OperandOK(i) /\ OperandOK(Offset5(Skip(m, 1), b))
  BY <1>1, IndexedModeType
<1> HIDE DEF i
<1>3. OperandOK(Operand(i.m, WordAt(i.m, i.ea)))
  BY <1>2, MemoryType, OperandType, WordDef DEF OperandOK
<1>4. INDEXED(m) \in {i, Offset5(Skip(m, 1), b), Operand(i.m, WordAt(i.m, i.ea))}
  <2>1. CASE b < 128
    <3>1. ~(b >= 128)
      BY <2>1, <1>1, ByteDef, SMT
    <3> QED BY <2>1, <3>1 DEF INDEXED, b
  <2>2. CASE b >= 128 /\ (Bit(b, 16) = 0 \/ b % 16 \in IllegalModes)
    <3>1. ~(b < 128)
      BY <2>2, <1>1, ByteDef, SMT
    <3> QED BY <2>2, <3>1 DEF INDEXED, b, i
  <2>3. CASE b >= 128 /\ ~(Bit(b, 16) = 0 \/ b % 16 \in IllegalModes)
    <3>1. ~(b < 128)
      BY <2>3, <1>1, ByteDef, SMT
    <3> QED BY <2>3, <3>1 DEF INDEXED, Indirect, b, i
  <2>4. b < 128 \/ b >= 128
    BY <1>1, ByteDef, SMT
  <2> QED BY <2>1, <2>2, <2>3, <2>4
<1> QED BY <1>2, <1>3, <1>4

-----------------------------------------------------------------------------
(* The rows of the table. *)

(* The operations of the rows 0 and 4 to 7.                                *)
LEMMA UnaryNames ==
  \A n \in 0..15 : UnaryOp[n + 1] \in UnaryOps \cup {"ill", "JMP"}
<1>1. \A n \in 1..16 : UnaryOp[n] \in UnaryOps \cup {"ill", "JMP"}
  BY SMT DEF UnaryOp, UnaryOps
<1>2. \A n \in 0..15 : n + 1 \in 1..16
  BY SMT
<1> QED BY <1>1, <1>2

(* A result in A or B, and in D. *)
LEMMA IntoType ==
  ASSUME NEW m \in Machine
  PROVE  /\ \A r \in {"a", "b"}, t \in Result8 : Into(m, r, t) \in Machine
         /\ \A t \in Result16 : IntoD(m, t) \in Machine
<1>1. ASSUME NEW r \in {"a", "b"}, NEW t \in Result8 PROVE Into(m, r, t) \in Machine
  <2> DEFINE k == [m EXCEPT ![r] = t.r]
  <2>1. t.r \in Byte /\ t.cc \in SUBSET Flags
    BY DEF Result8
  <2>2. k \in Machine
    BY <2>1, FieldType
  <2>3. Into(m, r, t) = [k EXCEPT !.cc = t.cc]
    BY DEF Into
  <2> HIDE DEF k
  <2> QED BY <2>1, <2>2, <2>3, FieldType
<1>2. ASSUME NEW t \in Result16 PROVE IntoD(m, t) \in Machine
  <2>1. SetD(m, t.r) \in Machine /\ t.cc \in SUBSET Flags
    BY SetDType DEF Result16
  <2> QED BY <2>1, FieldType DEF IntoD
<1> QED BY <1>1, <1>2

(* Rows 0, 6 and 7: the byte at an address.                                *)
LEMMA AtAddressType ==
  ASSUME NEW n \in 0..15, NEW o, OperandOK(o)
  PROVE  AtAddress(n, o) \in Machine
<1> DEFINE op == UnaryOp[n + 1]
<1> DEFINE u == Unary(op, At(o.m, o.ea), o.m.cc)
<1>1. op \in UnaryOps \cup {"ill", "JMP"}
  BY UnaryNames
<1>2. o.m \in Machine /\ o.ea \in Word /\ o.ea \in Int
  BY WordDef DEF OperandOK
<1>3. op \in UnaryOps => u \in Result8
  BY <1>2, FieldType, MemoryType, UnaryType
<1> HIDE DEF op, u
<1>4. CASE op = "ill"
  <2>1. AtAddress(n, o) = o.m
    BY <1>4 DEF AtAddress, op
  <2> QED BY <1>2, <2>1
<1>5. CASE op = "JMP"
  <2>1. AtAddress(n, o) = Jump(o.m, o.ea)
    BY <1>5 DEF AtAddress, op
  <2> QED BY <1>2, <2>1, SkipType
<1>6. CASE op = "TST"
  <2>1. AtAddress(n, o) = [o.m EXCEPT !.cc = u.cc]
    BY <1>6 DEF AtAddress, op, u
  <2>2. u.cc \in SUBSET Flags
    BY <1>3, <1>6 DEF Result8, UnaryOps
  <2> QED BY <1>2, <2>1, <2>2, FieldType
<1>7. CASE op \in UnaryOps /\ op # "TST"
  <2>1. op # "ill" /\ op # "JMP" /\ op # "TST"
    BY <1>7 DEF UnaryOps
  <2>2. AtAddress(n, o) = [SetByte(o.m, o.ea, u.r) EXCEPT !.cc = u.cc]
    BY <2>1 DEF AtAddress, IntoByte, op, u
  <2>3. u.cc \in SUBSET Flags /\ u.r \in Byte
    BY <1>3, <1>7 DEF Result8
  <2>4. SetByte(o.m, o.ea, u.r) \in Machine
    BY <1>2, <2>3, SetByteType
  <2> QED BY <2>2, <2>3, <2>4, FieldType
<1> QED BY <1>1, <1>4, <1>5, <1>6, <1>7

(* Rows 4 and 5: an accumulator.                                           *)
LEMMA OnRegisterType ==
  ASSUME NEW m \in Machine, NEW n \in 0..15, NEW r \in {"a", "b"}
  PROVE  OnRegister(m, n, r) \in Machine
<1> DEFINE op == UnaryOp[n + 1]
<1> DEFINE u == Unary(op, m[r], m.cc)
<1>1. op \in UnaryOps \cup {"ill", "JMP"}
  BY UnaryNames
<1>2. m[r] \in Byte /\ m.cc \in SUBSET Flags
  BY FieldType
<1>3. CASE op \in {"ill", "JMP"}
  BY <1>3 DEF OnRegister
<1>4. CASE op \in UnaryOps /\ op \notin {"ill", "JMP"}
  <2>1. u \in Result8
    BY <1>2, <1>4, UnaryType
  <2> HIDE DEF op, u
  <2>2. OnRegister(m, n, r) = Into(m, r, u)
    BY <1>4 DEF OnRegister, op, u
  <2> QED BY <2>1, <2>2, IntoType
<1> QED BY <1>1, <1>3, <1>4

(* JSR and BSR.                                                            *)
LEMMA SubroutineType ==
  ASSUME NEW m \in Machine, NEW q \in Int
  PROVE  Subroutine(m, q) \in Machine
<1>1. Push(m, "s", "pc") \in Machine
  BY PushType DEF WordRegs
<1> QED BY <1>1, SkipType DEF Subroutine

(* Transfers between registers. *)
LEMMA RegCodes ==
  \A code \in 0..15 : RegCode[code + 1] \in ByteRegs \cup WordRegs \cup {"d", "none"}
<1>1. \A n \in 1..16 : RegCode[n] \in ByteRegs \cup WordRegs \cup {"d", "none"}
  BY SMT DEF RegCode, ByteRegs, WordRegs
<1>2. \A n \in 0..15 : n + 1 \in 1..16
  BY SMT
<1> QED BY <1>1, <1>2

(* TFR and EXG, also with a code that stands for no register.              *)
LEMMA TransferType ==
  ASSUME NEW m \in Machine, NEW code \in 0..15
  PROVE  /\ \A junk \in Word : GETREG(m, code, junk) \in Word
         /\ \A w \in Word : SETREG(m, code, w) \in Machine
<1> DEFINE r == RegCode[code + 1]
<1>1. r \in ByteRegs \cup WordRegs \cup {"d", "none"}
  BY RegCodes
<1> HIDE DEF r
<1>2. Byte \subseteq Word
  BY ByteDef, WordDef, SMT
<1>3. r # "none" => Reg(m, r) \in Word /\ \A w \in Word : SetReg(m, r, w) \in Machine
  BY <1>1, <1>2, RegType, SetRegType
<1> QED BY <1>3 DEF GETREG, SETREG, r

(* LBRA to TFR.                                                            *)
LEMMA Row1Type ==
  ASSUME NEW m \in Machine, NEW n \in 0..15, NEW junk \in Word
  PROVE  Row1(m, n, junk) \in Machine
<1> DEFINE b == At(m, m.pc)
<1> DEFINE w == WordAt(m, m.pc)
<1> DEFINE i == Skip(m, 1)
<1> DEFINE l == Skip(m, 2)
<1> DEFINE row == Row1(m, n, junk)
<1>1. b \in Byte /\ w \in Word /\ i \in Machine /\ l \in Machine
  BY MemoryType, SkipType
<1> HIDE DEF b, w, i, l, row
<1>2. b \div 16 \in 0..15 /\ b % 16 \in 0..15
  BY <1>1, ByteDef, SMT
<1>3. l.pc + w \in Int
  <2>1. l.pc \in Word
    BY <1>1, FieldType DEF WordRegs
  <2> QED BY <1>1, <2>1, WordDef, SMT
<1>4. CASE n = 6
  <2>1. row = Jump(l, l.pc + w)
    BY <1>4, SMT DEF Row1, row, l, w
  <2> QED BY <1>1, <1>3, <2>1, SkipType DEF row
<1>5. CASE n = 7
  <2>1. row = Subroutine(l, l.pc + w)
    BY <1>5, SMT DEF Row1, row, l, w
  <2> QED BY <1>1, <1>3, <2>1, SubroutineType DEF row
<1>6. CASE n = 9
  <2> DEFINE t == Daa(m.a, m.cc)
  <2>1. t \in Result8
    <3>1. m.a \in Byte /\ m.cc \in SUBSET Flags /\ 0 \in Word
      BY FieldType, WordDef
    <3> QED BY <3>1, WideType
  <2>2. row = Into(m, "a", t)
    BY <1>6, SMT DEF Row1, row
  <2> QED BY <2>1, <2>2, IntoType DEF row
<1>7. CASE n \in {10, 12}
  <2>1. \A x : ByteCc(x) \in SUBSET Flags
    BY DEF ByteCc
  <2>2. \E x : row = [i EXCEPT !.cc = ByteCc(x)]
    <3>1. n = 10 => row = [i EXCEPT !.cc = ByteCc(Or(CcByte(@), b))]
      BY SMT DEF Row1, row, i, b
    <3>2. n = 12 => row = [i EXCEPT !.cc = ByteCc(And(CcByte(@), b))]
      BY SMT DEF Row1, row, i, b
    <3> QED BY <1>7, <3>1, <3>2
  <2> QED BY <1>1, <2>1, <2>2, FieldType DEF row
<1>8. CASE n = 13
  <2> DEFINE t == Sex(m.b, m.cc)
  <2>1. t \in Result16
    <3>1. m.b \in Byte /\ m.cc \in SUBSET Flags /\ 0 \in Word
      BY FieldType, WordDef
    <3> QED BY <3>1, WideType
  <2>2. row = IntoD(m, t)
    BY <1>8, SMT DEF Row1, row
  <2> QED BY <2>1, <2>2, IntoType DEF row
<1>9. CASE n = 14
  <2> DEFINE v1 == GETREG(i, b % 16, junk)
  <2> DEFINE v2 == GETREG(i, b \div 16, junk)
  <2>1. v1 \in Word /\ v2 \in Word
    BY <1>1, <1>2, TransferType
  <2>2. row = SETREG(SETREG(i, b \div 16, v1), b % 16, v2)
    BY <1>9, SMT DEF Row1, row, i, b
  <2> HIDE DEF v1, v2
  <2>3. SETREG(i, b \div 16, v1) \in Machine
    BY <1>1, <1>2, <2>1, TransferType
  <2> QED BY <1>2, <2>1, <2>2, <2>3, TransferType DEF row
<1>10. CASE n = 15
  <2>1. row = SETREG(i, b % 16, GETREG(i, b \div 16, junk))
    BY <1>10, SMT DEF Row1, row, i, b
  <2>2. GETREG(i, b \div 16, junk) \in Word
    BY <1>1, <1>2, TransferType
  <2> QED BY <1>1, <1>2, <2>1, <2>2, TransferType DEF row
<1>11. CASE n \in {0, 1, 2, 3, 4, 5, 8, 11}
  <2>1. row = m
    BY <1>11, SMT DEF Row1, row
  <2> QED BY <2>1 DEF row
<1> QED BY <1>4, <1>5, <1>6, <1>7, <1>8, <1>9, <1>10, <1>11, SMT

(* The branches.                                                           *)
LEMMA Row2Type ==
  ASSUME NEW m \in Machine, NEW n \in 0..15, NEW flag \in {0, 1, 2}
  PROVE  Row2(m, n, flag) \in Machine
<1> DEFINE next == Skip(m, IF flag = 0 THEN 1 ELSE 2)
<1> DEFINE d == IF flag = 0 THEN Signed(At(m, m.pc)) ELSE WordAt(m, m.pc)
<1>1. next \in Machine
  BY SkipType
<1>2. d \in Int
  <2>1. At(m, m.pc) \in Byte /\ WordAt(m, m.pc) \in Word
    BY MemoryType
  <2> QED BY <2>1, ByteDef, WordDef, SMT DEF Signed
<1> HIDE DEF next, d
<1>3. next.pc + d \in Int
  <2>1. next.pc \in Word
    BY <1>1, FieldType DEF WordRegs
  <2> QED BY <1>2, <2>1, WordDef, SMT
<1>4. Row2(m, n, flag) = IF Taken(n, m.cc) THEN Jump(next, next.pc + d) ELSE next
  BY DEF Row2, next, d
<1> QED BY <1>1, <1>3, <1>4, SkipType

(* RTI and the three software interrupts.                                  *)
LEMMA InterruptType ==
  ASSUME NEW m \in Machine, NEW flag \in {0, 1, 2}
  PROVE  RTI(m) \in Machine /\ SWI(m, flag) \in Machine
<1>1. RTI(m) \in Machine
  <2> DEFINE c == Pull(m, "s", "cc")
  <2>1. c \in Machine
    BY PullType DEF ByteRegs
  <2> HIDE DEF c
  <2>2. \A regs : PullAll(c, "s", "u", regs) \in Machine
    BY <2>1, PushAllType DEF Other
  <2> QED BY <2>2 DEF RTI, c
<1>2. SWI(m, flag) \in Machine
  <2> DEFINE e == [m EXCEPT !.cc = @ \cup {"E"}]
  <2> DEFINE p == PushAll(e, "s", "u", Frame("u"))
  <2>1. e \in Machine
    <3>1. m.cc \cup {"E"} \in SUBSET Flags
      BY FieldType DEF Flags
    <3> QED BY <3>1, FieldType
  <2> HIDE DEF e
  <2>2. p \in Machine
    BY <2>1, PushAllType DEF Other
  <2> HIDE DEF p
  <2>3. \A q : WordAt(p, q) \in Int
    BY <2>2, MemoryType, WordDef
  <2> DEFINE k == [p EXCEPT !.cc = @ \cup {"I", "F"}]
  <2>4. k \in Machine
    <3>1. p.cc \cup {"I", "F"} \in SUBSET Flags
      BY <2>2, FieldType DEF Flags
    <3> QED BY <2>2, <3>1, FieldType
  <2> HIDE DEF k
  <2>5. /\ \A q : Jump(p, WordAt(p, q)) \in Machine
        /\ \A q : Jump(k, WordAt(p, q)) \in Machine
    BY <2>2, <2>3, <2>4, SkipType
  <2>6. CASE flag = 0
    <3>1. SWI(m, flag) = Jump(k, WordAt(p, 65530))
      BY <2>6, SMT DEF SWI, p, e, k
    <3> QED BY <2>5, <3>1
  <2>7. CASE flag = 1
    <3>1. SWI(m, flag) = Jump(p, WordAt(p, 65524))
      BY <2>7, SMT DEF SWI, p, e
    <3> QED BY <2>5, <3>1
  <2>8. CASE flag = 2
    <3>1. SWI(m, flag) = Jump(p, WordAt(p, 65522))
      BY <2>8, SMT DEF SWI, p, e
    <3> QED BY <2>5, <3>1
  <2> QED BY <2>6, <2>7, <2>8
<1> QED BY <1>1, <1>2

(* LEAX to LEAU. *)
LEMMA LeaType ==
  ASSUME NEW n \in 0..3, NEW o, OperandOK(o)
  PROVE  LEA(n, o) \in Machine
<1> DEFINE r == <<"x", "y", "s", "u">>[n + 1]
<1> DEFINE k == [o.m EXCEPT ![r] = o.ea]
<1> DEFINE c == IF n < 2 THEN Put(o.m.cc, "Z", o.ea = 0) ELSE o.m.cc
<1>1. o.m \in Machine /\ o.ea \in Word
  BY DEF OperandOK
<1>2. r \in WordRegs
  <2>1. n + 1 \in 1..4 /\ \A i \in 1..4 : <<"x", "y", "s", "u">>[i] \in {"x", "y", "s", "u"}
    BY SMT
  <2> QED BY <2>1 DEF WordRegs
<1>3. LEA(n, o) = [k EXCEPT !.cc = c]
  BY DEF LEA
<1> HIDE DEF r
<1>4. k \in Machine
  BY <1>1, <1>2, FieldType
<1>5. c \in SUBSET Flags
  <2>1. o.m.cc \in SUBSET Flags /\ "Z" \in Flags
    BY <1>1, FieldType DEF Flags
  <2> QED BY <2>1, FlagsType
<1> HIDE DEF k, c
<1> QED BY <1>3, <1>4, <1>5, FieldType

(* LEA, the stacks, RTS, ABX, RTI, MUL and SWI.                            *)
LEMMA Row3Type ==
  ASSUME NEW m \in Machine, NEW n \in 0..15, NEW flag \in {0, 1, 2}
  PROVE  Row3(m, n, flag) \in Machine
<1> DEFINE row == Row3(m, n, flag)
<1> HIDE DEF row
<1>4. CASE n \in 0..3
  <2>1. row = LEA(n, INDEXED(m))
    BY <1>4, SMT DEF Row3, row
  <2> QED BY <1>4, <2>1, IndexedType, LeaType DEF row
<1>6. CASE n \in {4, 5, 6, 7}
  <2>1. n = 4 => row = Pushed(m, "s")
    BY SMT DEF Row3, row
  <2>2. n = 5 => row = Pulled(m, "s")
    BY SMT DEF Row3, row
  <2>3. n = 6 => row = Pushed(m, "u")
    BY SMT DEF Row3, row
  <2>4. n = 7 => row = Pulled(m, "u")
    BY SMT DEF Row3, row
  <2> QED BY <1>6, <2>1, <2>2, <2>3, <2>4, PushedType DEF row
<1>7. CASE n = 9
  <2>1. row = Pull(m, "s", "pc")
    BY <1>7, SMT DEF Row3, row
  <2> QED BY <2>1, PullType DEF row, WordRegs
<1>8. CASE n = 10
  <2> DEFINE w == (m.x + m.b) % 65536
  <2>1. row = [m EXCEPT !.x = w]
    BY <1>8, SMT DEF Row3, row
  <2>2. w \in Word
    <3>1. m.x \in Word /\ m.b \in Int
      BY FieldType, ByteDef DEF WordRegs
    <3> QED BY <3>1, WordHalves
  <2> HIDE DEF w
  <2> QED BY <2>1, <2>2, FieldType DEF row, WordRegs
<1>9. CASE n \in {11, 15}
  <2>1. n = 11 => row = RTI(m)
    BY SMT DEF Row3, row
  <2>2. n = 15 => row = SWI(m, flag)
    BY SMT DEF Row3, row
  <2> QED BY <1>9, <2>1, <2>2, InterruptType DEF row
<1>10. CASE n = 13
  <2> DEFINE t == Mul(m.a, m.b, m.cc)
  <2>1. t \in Result16
    <3>1. m.a \in Byte /\ m.b \in Byte /\ m.cc \in SUBSET Flags /\ 0 \in Word
      BY FieldType, WordDef
    <3> QED BY <3>1, WideType
  <2>2. row = IntoD(m, t)
    BY <1>10, SMT DEF Row3, row
  <2> QED BY <2>1, <2>2, IntoType DEF row
<1>11. CASE n \in {8, 12, 14}
  <2>1. row = m
    BY <1>11, SMT DEF Row3, row
  <2> QED BY <2>1 DEF row
<1> QED BY <1>4, <1>6, <1>7, <1>8, <1>9, <1>10, <1>11, SMT

(* The operations of the columns.                                          *)
LEMMA BinaryNames ==
  \A n \in 0..15 : n \notin {3, 7, 12, 13, 14, 15} => BinaryOp[n + 1] \in BinaryOps
<1>1. \A n \in 1..16 : n \notin {4, 8, 13, 14, 15, 16} => BinaryOp[n] \in BinaryOps
  BY SMT DEF BinaryOp, BinaryOps
<1>2. \A n \in 0..15 : /\ n + 1 \in 1..16
                       /\ n \notin {3, 7, 12, 13, 14, 15} => n + 1 \notin {4, 8, 13, 14, 15, 16}
  BY SMT
<1> QED BY <1>1, <1>2

(* The operations on A and B.                                              *)
LEMMA AccumulatorType ==
  ASSUME NEW n \in 0..15, n \notin {3, 12, 13, 14, 15},
         NEW o, OperandOK(o), NEW r \in {"a", "b"}
  PROVE  Accumulator(n, o, r) \in Machine
<1> DEFINE t == Binary(BinaryOp[n + 1], o.m[r], At(o.m, o.ea), o.m.cc)
<1>1. o.m \in Machine /\ o.ea \in Word
  BY DEF OperandOK
<1>2. o.m[r] \in Byte /\ o.m.cc \in SUBSET Flags /\ At(o.m, o.ea) \in Byte
  BY <1>1, FieldType, MemoryType
<1>3. CASE n = 7
  <2> DEFINE k == SetByte(o.m, o.ea, o.m[r])
  <2> DEFINE c == SetNZ8(k.cc \ {"V"}, o.m[r])
  <2>1. k \in Machine
    BY <1>1, <1>2, SetByteType
  <2>2. Accumulator(n, o, r) = [k EXCEPT !.cc = c]
    BY <1>3 DEF Accumulator
  <2> HIDE DEF k
  <2>3. c \in SUBSET Flags
    <3>1. k.cc \ {"V"} \in SUBSET Flags
      BY <2>1, FieldType
    <3> QED BY <3>1, FlagsType
  <2> HIDE DEF c
  <2> QED BY <2>1, <2>2, <2>3, FieldType
<1>4. CASE n # 7
  <2>1. t \in Result8
    BY <1>2, <1>4, BinaryNames, BinaryType
  <2>2. Accumulator(n, o, r) = Into(o.m, r, t)
    BY <1>4 DEF Accumulator
  <2> QED BY <1>1, <2>1, <2>2, IntoType
<1> QED BY <1>3, <1>4

(* Loads, stores and comparisons of words.                                 *)
LEMMA Word16Type ==
  ASSUME NEW o, OperandOK(o), NEW r \in WordRegs \cup {"d"}
  PROVE  /\ Load16(o, r) \in Machine /\ Store16(o, r) \in Machine
         /\ Compare16(o, r) \in Machine
<1>1. o.m \in Machine /\ o.ea \in Word
  BY DEF OperandOK
<1>2. /\ WordAt(o.m, o.ea) \in Word /\ Reg(o.m, r) \in Word /\ o.m.cc \in SUBSET Flags
      /\ o.m.a \in Byte
  BY <1>1, MemoryType, RegType, FieldType
<1>3. \A k \in Machine : \A w : [k EXCEPT !.cc = Move16(w, k.cc)] \in Machine
  <2> SUFFICES ASSUME NEW k \in Machine, NEW w
               PROVE  [k EXCEPT !.cc = Move16(w, k.cc)] \in Machine
    OBVIOUS
  <2>1. k.cc \in SUBSET Flags
    BY FieldType
  <2>2. Move16(w, k.cc) \in SUBSET Flags
    BY <2>1, FlagsType
  <2> QED BY <2>2, FieldType
<1>4. Load16(o, r) \in Machine
  <2> DEFINE k == SetReg(o.m, r, WordAt(o.m, o.ea))
  <2>1. k \in Machine
    BY <1>1, <1>2, SetRegType
  <2>2. Load16(o, r) = [k EXCEPT !.cc = Move16(WordAt(o.m, o.ea), k.cc)]
    BY DEF Load16
  <2> HIDE DEF k
  <2> QED BY <1>3, <2>1, <2>2
<1>5. Store16(o, r) \in Machine
  <2> DEFINE k == SetWord(o.m, o.ea, Reg(o.m, r))
  <2>1. k \in Machine
    BY <1>1, <1>2, SetWordType
  <2>2. Store16(o, r) = [k EXCEPT !.cc = Move16(Reg(o.m, r), k.cc)]
    BY DEF Store16
  <2> HIDE DEF k
  <2> QED BY <1>3, <2>1, <2>2
<1>6. Compare16(o, r) \in Machine
  <2> DEFINE t == Sub16(Reg(o.m, r), WordAt(o.m, o.ea), o.m.cc)
  <2>1. t \in Result16
    BY <1>2, WideType
  <2>2. Compare16(o, r) = [o.m EXCEPT !.cc = t.cc]
    BY DEF Compare16
  <2> HIDE DEF t
  <2>3. t.cc \in SUBSET Flags
    BY <2>1 DEF Result16
  <2> QED BY <1>1, <2>2, <2>3, FieldType
<1> QED BY <1>4, <1>5, <1>6

(* D after an addition or a subtraction. *)
LEMMA SumOfD ==
  ASSUME NEW o, OperandOK(o)
  PROVE  /\ IntoD(o.m, Sub16(D(o.m), WordAt(o.m, o.ea), o.m.cc)) \in Machine
         /\ IntoD(o.m, Add16(D(o.m), WordAt(o.m, o.ea), o.m.cc)) \in Machine
<1>1. o.m \in Machine
  BY DEF OperandOK
<1>2. D(o.m) \in Word /\ WordAt(o.m, o.ea) \in Word /\ o.m.cc \in SUBSET Flags /\ o.m.a \in Byte
  BY <1>1, MemoryType, RegType, FieldType
<1>3. /\ Sub16(D(o.m), WordAt(o.m, o.ea), o.m.cc) \in Result16
      /\ Add16(D(o.m), WordAt(o.m, o.ea), o.m.cc) \in Result16
  BY <1>2, WideType
<1> QED BY <1>1, <1>3, IntoType

(* Opcodes $80 to $BF.                                                     *)
LEMMA ColumnAType ==
  ASSUME NEW n \in 0..15, NEW o, OperandOK(o), NEW flag \in {0, 1, 2}
  PROVE  ColumnA(n, o, flag) \in Machine
<1>1. o.m \in Machine /\ o.ea \in Int
  BY WordDef, SMT DEF OperandOK
<1>2. CASE n = 3 /\ flag = 0
  <2> DEFINE t == Sub16(D(o.m), WordAt(o.m, o.ea), o.m.cc)
  <2>1. n # 12 /\ n # 13 /\ n # 14 /\ n # 15 /\ ~(flag # 0)
    BY <1>2
  <2>2. ColumnA(n, o, flag) = IntoD(o.m, t)
    BY <1>2, <2>1 DEF ColumnA
  <2> QED BY <2>2, SumOfD
<1>3. CASE n = 3 /\ flag # 0
  <2>1. n # 12 /\ n # 13 /\ n # 14 /\ n # 15 /\ ~(flag = 0)
    BY <1>3
  <2>2. ColumnA(n, o, flag) = Compare16(o, IF flag = 2 THEN "u" ELSE "d")
    BY <1>3, <2>1 DEF ColumnA
  <2> QED BY <2>2, Word16Type DEF WordRegs
<1>4. CASE n = 12
  <2>1. n # 3 /\ n # 13 /\ n # 14 /\ n # 15
    BY <1>4
  <2>2. ColumnA(n, o, flag) = Compare16(o, <<"x", "y", "s">>[flag + 1])
    BY <1>4, <2>1 DEF ColumnA
  <2>3. <<"x", "y", "s">>[flag + 1] \in {"x", "y", "s"}
    BY SMT
  <2> QED BY <2>2, <2>3, Word16Type DEF WordRegs
<1>5. CASE n = 13
  <2>1. n # 3 /\ n # 12 /\ n # 14 /\ n # 15
    BY <1>5
  <2>2. ColumnA(n, o, flag) = Subroutine(o.m, o.ea)
    BY <1>5, <2>1 DEF ColumnA
  <2> QED BY <1>1, <2>2, SubroutineType
<1>6. CASE n = 14
  <2>1. n # 3 /\ n # 12 /\ n # 13 /\ n # 15
    BY <1>6
  <2>2. ColumnA(n, o, flag) = Load16(o, IF flag = 0 THEN "x" ELSE "y")
    BY <1>6, <2>1 DEF ColumnA
  <2> QED BY <2>2, Word16Type DEF WordRegs
<1>7. CASE n = 15
  <2>1. n # 3 /\ n # 12 /\ n # 13 /\ n # 14
    BY <1>7
  <2>2. ColumnA(n, o, flag) = Store16(o, IF flag = 0 THEN "x" ELSE "y")
    BY <1>7, <2>1 DEF ColumnA
  <2> QED BY <2>2, Word16Type DEF WordRegs
<1>8. CASE n \notin {3, 12, 13, 14, 15}
  <2>1. n # 3 /\ n # 12 /\ n # 13 /\ n # 14 /\ n # 15
    BY <1>8
  <2>2. ColumnA(n, o, flag) = Accumulator(n, o, "a")
    BY <2>1 DEF ColumnA
  <2> QED BY <1>8, <2>2, AccumulatorType
<1> QED BY <1>2, <1>3, <1>4, <1>5, <1>6, <1>7, <1>8

(* Opcodes $C0 to $FF.                                                     *)
LEMMA ColumnBType ==
  ASSUME NEW n \in 0..15, NEW o, OperandOK(o), NEW flag \in {0, 1, 2}
  PROVE  ColumnB(n, o, flag) \in Machine
<1>2. CASE n = 3
  <2> DEFINE t == Add16(D(o.m), WordAt(o.m, o.ea), o.m.cc)
  <2>1. n # 12 /\ n # 13 /\ n # 14 /\ n # 15
    BY <1>2
  <2>2. ColumnB(n, o, flag) = IntoD(o.m, t)
    BY <1>2, <2>1 DEF ColumnB
  <2> QED BY <2>2, SumOfD
<1>4. CASE n = 12
  <2>1. n # 3 /\ n # 13 /\ n # 14 /\ n # 15
    BY <1>4
  <2>2. ColumnB(n, o, flag) = Load16(o, "d")
    BY <1>4, <2>1 DEF ColumnB
  <2> QED BY <2>2, Word16Type DEF WordRegs
<1>5. CASE n = 13
  <2>1. n # 3 /\ n # 12 /\ n # 14 /\ n # 15
    BY <1>5
  <2>2. ColumnB(n, o, flag) = Store16(o, "d")
    BY <1>5, <2>1 DEF ColumnB
  <2> QED BY <2>2, Word16Type DEF WordRegs
<1>6. CASE n = 14
  <2>1. n # 3 /\ n # 12 /\ n # 13 /\ n # 15
    BY <1>6
  <2>2. ColumnB(n, o, flag) = Load16(o, IF flag = 0 THEN "u" ELSE "s")
    BY <1>6, <2>1 DEF ColumnB
  <2> QED BY <2>2, Word16Type DEF WordRegs
<1>7. CASE n = 15
  <2>1. n # 3 /\ n # 12 /\ n # 13 /\ n # 14
    BY <1>7
  <2>2. ColumnB(n, o, flag) = Store16(o, IF flag = 0 THEN "u" ELSE "s")
    BY <1>7, <2>1 DEF ColumnB
  <2> QED BY <2>2, Word16Type DEF WordRegs
<1>8. CASE n \notin {3, 12, 13, 14, 15}
  <2>1. n # 3 /\ n # 12 /\ n # 13 /\ n # 14 /\ n # 15
    BY <1>8
  <2>2. ColumnB(n, o, flag) = Accumulator(n, o, "b")
    BY <2>1 DEF ColumnB
  <2> QED BY <1>8, <2>2, AccumulatorType
<1> QED BY <1>2, <1>4, <1>5, <1>6, <1>7, <1>8

(* The rows of one column of operations, by addressing mode.               *)
LEMMA RowTypes ==
  ASSUME NEW m \in Machine, NEW n \in 0..15, NEW flag \in {0, 1, 2}
  PROVE  /\ Row0(m, n) \in Machine /\ Row4(m, n) \in Machine /\ Row5(m, n) \in Machine
         /\ Row6(m, n) \in Machine /\ Row7(m, n) \in Machine
         /\ Row8(m, n, flag) \in Machine /\ Row9(m, n, flag) \in Machine
         /\ RowA(m, n, flag) \in Machine /\ RowB(m, n, flag) \in Machine
         /\ RowC(m, n, flag) \in Machine /\ RowD(m, n, flag) \in Machine
         /\ RowE(m, n, flag) \in Machine /\ RowF(m, n, flag) \in Machine
<1>1. /\ OperandOK(IMM8(m)) /\ OperandOK(IMM16(m)) /\ OperandOK(DIRECT(m))
      /\ OperandOK(EXTENDED(m)) /\ OperandOK(INDEXED(m))
  BY DirectType, IndexedType
<1>2. Row0(m, n) \in Machine /\ Row6(m, n) \in Machine /\ Row7(m, n) \in Machine
  BY <1>1, AtAddressType DEF Row0, Row6, Row7
<1>3. Row4(m, n) \in Machine /\ Row5(m, n) \in Machine
  BY OnRegisterType DEF Row4, Row5
<1>4. Row8(m, n, flag) \in Machine
  <2>1. CASE n = 13
    <3>1. m.pc \in Word /\ At(m, m.pc) \in Byte /\ Skip(m, 1) \in Machine
      BY FieldType, MemoryType, SkipType DEF WordRegs
    <3>2. m.pc + 1 + Signed(At(m, m.pc)) \in Int
      BY <3>1, ByteDef, WordDef, SMT DEF Signed
    <3> QED BY <2>1, <3>1, <3>2, SubroutineType DEF Row8
  <2>2. CASE n # 13
    <3> DEFINE o == IF BinaryOp[n + 1] = "16" THEN IMM16(m) ELSE IMM8(m)
    <3>1. OperandOK(o)
      BY <1>1
    <3>2. Row8(m, n, flag) = ColumnA(n, o, flag)
      BY <2>2 DEF Row8
    <3> HIDE DEF o
    <3> QED BY <3>1, <3>2, ColumnAType
  <2> QED BY <2>1, <2>2
<1>5. /\ Row9(m, n, flag) \in Machine /\ RowA(m, n, flag) \in Machine
      /\ RowB(m, n, flag) \in Machine
  BY <1>1, ColumnAType DEF Row9, RowA, RowB
<1>6. RowC(m, n, flag) \in Machine
  <2> DEFINE o == IF BinaryOp[n + 1] = "16" THEN IMM16(m) ELSE IMM8(m)
  <2>1. OperandOK(o)
    BY <1>1
  <2>2. RowC(m, n, flag) = ColumnB(n, o, flag)
    BY DEF RowC
  <2> HIDE DEF o
  <2> QED BY <2>1, <2>2, ColumnBType
<1>7. /\ RowD(m, n, flag) \in Machine /\ RowE(m, n, flag) \in Machine
      /\ RowF(m, n, flag) \in Machine
  BY <1>1, ColumnBType DEF RowD, RowE, RowF
<1> QED BY <1>2, <1>3, <1>4, <1>5, <1>6, <1>7

-----------------------------------------------------------------------------
(* Prefixes. *)

(* A set of naturals has a least element: the intervals below its elements *)
(* are well-founded under inclusion.                                       *)
LEMMA LeastOf ==
  ASSUME NEW set \in SUBSET Nat, set # {}
  PROVE  \E n \in set : \A m \in set : n <= m
<1> DEFINE Below == {1..n : n \in set}
           R == StrictSubsetOrdering(Nat)
<1>1. Below \subseteq FiniteSubsetsOf(Nat) /\ Below # {}
  <2>1. \A n \in set : 1..n \in SUBSET Nat /\ IsFiniteSet(1..n)
    <3> TAKE n \in set
    <3>1. 1 \in Int /\ n \in Int OBVIOUS
    <3>2. IsFiniteSet(1..n) BY <3>1, FS_Interval
    <3> QED BY <3>2
  <2>2. \A s \in Below : s \in FiniteSubsetsOf(Nat)
    BY <2>1 DEF FiniteSubsetsOf
  <2>3. Below # {}
    OBVIOUS
  <2> QED BY <2>2, <2>3
<1>2. IsWellFoundedOn(R, FiniteSubsetsOf(Nat))
  BY FS_StrictSubsetOrderingWellFounded
<1>3. PICK s \in Below : \A t \in Below : <<t, s>> \notin R
  <2> HIDE DEF Below, R
  <2> QED BY <1>1, <1>2, WFMin
<1>4. PICK n \in set : s = 1..n
  OBVIOUS
<1>5. ASSUME NEW m \in set, m < n PROVE FALSE
  <2>1. 1..m \in SUBSET Nat /\ 1..n \in SUBSET Nat
    OBVIOUS
  <2>2. 1..m \subseteq 1..n /\ n \in 1..n /\ n \notin 1..m
    BY <1>5
  <2>3. 1..m # 1..n
    BY <2>2
  <2>4. <<1..m, 1..n>> \in R
    BY <2>1, <2>2, <2>3 DEF StrictSubsetOrdering
  <2> QED BY <1>3, <1>4, <2>4
<1>6. \A m \in set : n <= m
  BY <1>5
<1> QED BY <1>6

(* An instruction that can be decoded has a count of prefixes, its flag is *)
(* 0, 1 or 2, and its opcode is a byte that is no prefix.                  *)
LEMMA PrefixType ==
  ASSUME NEW m \in Machine, \E k \in 0..MaxPrefix : At(m, m.pc + k) \notin {16, 17}
  PROVE  /\ PrefixCount(m) \in 0..MaxPrefix
         /\ Flag(m) \in {0, 1, 2} /\ (PrefixCount(m) # 0 => Flag(m) # 0)
         /\ Opcode(m) \in Byte /\ Opcode(m) \notin {16, 17}
<1> DEFINE P(k) == /\ At(m, m.pc + k) \notin {16, 17}
                   /\ \A i \in 0..k-1 : At(m, m.pc + i) \in {16, 17}
<1> DEFINE Opcodes == {k \in 0..MaxPrefix : At(m, m.pc + k) \notin {16, 17}}
<1>1. MaxPrefix \in Nat /\ m.pc \in Int
  <2>1. m.pc \in Word
    BY FieldType DEF WordRegs
  <2>2. MaxPrefix \in Nat
    BY PrefixBound, Zenon
  <2> QED BY <2>1, <2>2, WordDef, SMT
<1>2. Opcodes \in SUBSET Nat /\ Opcodes # {}
  BY <1>1
<1>3. PICK n \in Opcodes : \A k \in Opcodes : n <= k
  <2> HIDE DEF Opcodes
  <2> QED BY <1>2, LeastOf
<1>4. P(n)
  <2>1. \A i \in 0..n-1 : i \in 0..MaxPrefix /\ ~(n <= i)
    BY <1>1, <1>3, SMT
  <2>2. \A i \in 0..n-1 : i \notin Opcodes
    BY <1>3, <2>1
  <2> QED BY <1>3, <2>1, <2>2
<1>5. PrefixCount(m) = CHOOSE k \in 0..MaxPrefix : P(k)
  BY DEF PrefixCount
<1>6. \E k \in 0..MaxPrefix : P(k)
  BY <1>3, <1>4
<1> DEFINE c == PrefixCount(m)
<1>7. c \in 0..MaxPrefix /\ P(c)
  <2> HIDE DEF P
  <2> QED BY <1>5, <1>6
<1> HIDE DEF c
<1>8. Flag(m) \in {0, 1, 2} /\ (c # 0 => Flag(m) # 0)
  <2>1. CASE c = 0
    BY <2>1 DEF Flag, c
  <2>2. CASE c # 0
    <3>1. c - 1 \in 0..c-1 /\ m.pc + (c - 1) = m.pc + c - 1
      BY <1>1, <1>7, <2>2, SMT
    <3>2. At(m, m.pc + c - 1) \in {16, 17}
      BY <1>7, <3>1
    <3>3. Flag(m) = At(m, m.pc + c - 1) - 15
      BY <2>2 DEF Flag, c
    <3> QED BY <3>2, <3>3, SMT
  <2> QED BY <2>1, <2>2
<1>9. Opcode(m) = At(m, m.pc + c)
  BY DEF Opcode, c
<1> QED BY <1>7, <1>8, <1>9, MemoryType DEF c

(* An instruction makes a machine of a machine.                            *)
LEMMA ExecType ==
  ASSUME NEW m \in Machine, NEW junk \in Word,
         \E k \in 0..MaxPrefix : At(m, m.pc + k) \notin {16, 17}
  PROVE  Exec(m, junk) \in Machine
<1> DEFINE n == Opcode(m) % 16
           flag == Flag(m)
           i == Skip(m, PrefixCount(m) + 1)
           row == Opcode(m) \div 16
           e == Exec(m, junk)
<1>1. PrefixCount(m) + 1 \in Int /\ flag \in {0, 1, 2} /\ Opcode(m) \in Byte
  <2>1. PrefixCount(m) \in 0..MaxPrefix /\ flag \in {0, 1, 2} /\ Opcode(m) \in Byte
    BY PrefixType
  <2>2. MaxPrefix \in Nat
    BY PrefixBound, Zenon
  <2> HIDE DEF flag
  <2> QED BY <2>1, <2>2, SMT
<1>2. n \in 0..15 /\ row \in 0..15
  BY <1>1, ByteDef, SMT
<1>3. i \in Machine
  BY <1>1, SkipType
<1> HIDE DEF n, flag, i, row, e
<1>4. /\ Row1(i, n, junk) \in Machine /\ Row2(i, n, flag) \in Machine
      /\ Row3(i, n, flag) \in Machine
  BY <1>1, <1>2, <1>3, Row1Type, Row2Type, Row3Type
<1>5. /\ Row0(i, n) \in Machine /\ Row4(i, n) \in Machine /\ Row5(i, n) \in Machine
      /\ Row6(i, n) \in Machine /\ Row7(i, n) \in Machine
      /\ Row8(i, n, flag) \in Machine /\ Row9(i, n, flag) \in Machine
      /\ RowA(i, n, flag) \in Machine /\ RowB(i, n, flag) \in Machine
      /\ RowC(i, n, flag) \in Machine /\ RowD(i, n, flag) \in Machine
      /\ RowE(i, n, flag) \in Machine /\ RowF(i, n, flag) \in Machine
  BY <1>1, <1>2, <1>3, RowTypes
<1>6. /\ row = 0 => e = Row0(i, n)
      /\ row = 1 => e = Row1(i, n, junk)
      /\ row = 2 => e = Row2(i, n, flag)
      /\ row = 3 => e = Row3(i, n, flag)
  <2>1. row = 0 => e = Row0(i, n) BY SMT DEF Exec, e, n, flag, i, row
  <2>2. row = 1 => e = Row1(i, n, junk) BY SMT DEF Exec, e, n, flag, i, row
  <2>3. row = 2 => e = Row2(i, n, flag) BY SMT DEF Exec, e, n, flag, i, row
  <2>4. row = 3 => e = Row3(i, n, flag) BY SMT DEF Exec, e, n, flag, i, row
  <2> QED BY <2>1, <2>2, <2>3, <2>4
<1>7. /\ row = 4 => e = Row4(i, n)
      /\ row = 5 => e = Row5(i, n)
      /\ row = 6 => e = Row6(i, n)
      /\ row = 7 => e = Row7(i, n)
  <2>1. row = 4 => e = Row4(i, n) BY SMT DEF Exec, e, n, flag, i, row
  <2>2. row = 5 => e = Row5(i, n) BY SMT DEF Exec, e, n, flag, i, row
  <2>3. row = 6 => e = Row6(i, n) BY SMT DEF Exec, e, n, flag, i, row
  <2>4. row = 7 => e = Row7(i, n) BY SMT DEF Exec, e, n, flag, i, row
  <2> QED BY <2>1, <2>2, <2>3, <2>4
<1>8. /\ row = 8 => e = Row8(i, n, flag)
      /\ row = 9 => e = Row9(i, n, flag)
      /\ row = 10 => e = RowA(i, n, flag)
      /\ row = 11 => e = RowB(i, n, flag)
  <2>1. row = 8 => e = Row8(i, n, flag) BY SMT DEF Exec, e, n, flag, i, row
  <2>2. row = 9 => e = Row9(i, n, flag) BY SMT DEF Exec, e, n, flag, i, row
  <2>3. row = 10 => e = RowA(i, n, flag) BY SMT DEF Exec, e, n, flag, i, row
  <2>4. row = 11 => e = RowB(i, n, flag) BY SMT DEF Exec, e, n, flag, i, row
  <2> QED BY <2>1, <2>2, <2>3, <2>4
<1>9. /\ row = 12 => e = RowC(i, n, flag)
      /\ row = 13 => e = RowD(i, n, flag)
      /\ row = 14 => e = RowE(i, n, flag)
      /\ row = 15 => e = RowF(i, n, flag)
  <2>1. row = 12 => e = RowC(i, n, flag) BY SMT DEF Exec, e, n, flag, i, row
  <2>2. row = 13 => e = RowD(i, n, flag) BY SMT DEF Exec, e, n, flag, i, row
  <2>3. row = 14 => e = RowE(i, n, flag) BY SMT DEF Exec, e, n, flag, i, row
  <2>4. row = 15 => e = RowF(i, n, flag) BY SMT DEF Exec, e, n, flag, i, row
  <2> QED BY <2>1, <2>2, <2>3, <2>4
<1>10. row \in {0, 1, 2, 3} \/ row \in {4, 5, 6, 7} \/ row \in {8, 9, 10, 11}
       \/ row \in {12, 13, 14, 15}
  BY <1>2, SMT
<1> QED BY <1>4, <1>5, <1>6, <1>7, <1>8, <1>9, <1>10 DEF e

-----------------------------------------------------------------------------
(* What is pushed is pulled again.                                         *)

(* The eight bits of a sum of powers of two. *)
LEMMA EightBits ==
  ASSUME NEW c0 \in 0..1, NEW c1 \in 0..1, NEW c2 \in 0..1, NEW c3 \in 0..1,
         NEW c4 \in 0..1, NEW c5 \in 0..1, NEW c6 \in 0..1, NEW c7 \in 0..1
  PROVE  LET w == c0 + 2 * c1 + 4 * c2 + 8 * c3 + 16 * c4 + 32 * c5 + 64 * c6 + 128 * c7
         IN  /\ Bit(w, 1) = c0 /\ Bit(w, 2) = c1 /\ Bit(w, 4) = c2 /\ Bit(w, 8) = c3
             /\ Bit(w, 16) = c4 /\ Bit(w, 32) = c5 /\ Bit(w, 64) = c6 /\ Bit(w, 128) = c7
<1> DEFINE w == c0 + 2 * c1 + 4 * c2 + 8 * c3 + 16 * c4 + 32 * c5 + 64 * c6 + 128 * c7
<1>1. w \in 0..255
  BY SMT
<1>2. w \div 1 = w /\ w % 2 = c0
  BY SMT
<1>3. w \div 2 = c1 + 2 * c2 + 4 * c3 + 8 * c4 + 16 * c5 + 32 * c6 + 64 * c7
  BY SMT
<1>4. w \div 4 = c2 + 2 * c3 + 4 * c4 + 8 * c5 + 16 * c6 + 32 * c7
  BY SMT
<1>5. w \div 8 = c3 + 2 * c4 + 4 * c5 + 8 * c6 + 16 * c7
  BY SMT
<1>6. w \div 16 = c4 + 2 * c5 + 4 * c6 + 8 * c7
  BY SMT
<1>7. w \div 32 = c5 + 2 * c6 + 4 * c7
  BY SMT
<1>8. w \div 64 = c6 + 2 * c7
  BY SMT
<1>9. w \div 128 = c7
  BY SMT
<1> HIDE DEF w
<1>10. Bit(w, 1) = c0 /\ Bit(w, 2) = c1 /\ Bit(w, 4) = c2 /\ Bit(w, 8) = c3
  BY <1>2, <1>3, <1>4, <1>5, SMT DEF Bit
<1>11. Bit(w, 16) = c4 /\ Bit(w, 32) = c5 /\ Bit(w, 64) = c6 /\ Bit(w, 128) = c7
  BY <1>6, <1>7, <1>8, <1>9, SMT DEF Bit
<1> QED BY <1>10, <1>11 DEF w

(* CC survives being pushed as a byte and pulled again.                    *)
LEMMA FlagsKept ==
  ASSUME NEW cc \in SUBSET Flags
  PROVE  CcByte(cc) \in Byte /\ ByteCc(CcByte(cc) % 256) = cc
<1> DEFINE masks == {FlagMask[f] : f \in cc}
<1> DEFINE c(m) == IF m \in masks THEN 1 ELSE 0
<1> DEFINE sum == c(1) + 2 * c(2) + 4 * c(4) + 8 * c(8) + 16 * c(16) + 32 * c(32)
                  + 64 * c(64) + 128 * c(128)
<1>1. /\ FlagMask["C"] = 1 /\ FlagMask["V"] = 2 /\ FlagMask["Z"] = 4 /\ FlagMask["N"] = 8
      /\ FlagMask["I"] = 16 /\ FlagMask["H"] = 32 /\ FlagMask["F"] = 64 /\ FlagMask["E"] = 128
  BY DEF FlagMask
<1>2. \A f, g \in Flags : FlagMask[f] = FlagMask[g] => f = g
  BY <1>1, SMT DEF Flags
<1>3. \A f \in Flags : f \in cc <=> FlagMask[f] \in masks
  BY <1>2
<1>4. \A m : c(m) \in 0..1 /\ (c(m) = 1 <=> m \in masks)
  BY SMT
<1>5. CcByte(cc) = sum
  <2>1. CcByte(cc) = Weight(masks)
    BY DEF CcByte
  <2> HIDE DEF masks
  <2>2. \A m \in Int : (IF m \in masks THEN m ELSE 0) = m * c(m)
    BY SMT
  <2>3. Weight(masks) = sum
    BY SMT DEF Weight
  <2> QED BY <2>1, <2>3
<1> HIDE DEF masks, c
<1>6. /\ Bit(sum, 1) = c(1) /\ Bit(sum, 2) = c(2) /\ Bit(sum, 4) = c(4) /\ Bit(sum, 8) = c(8)
      /\ Bit(sum, 16) = c(16) /\ Bit(sum, 32) = c(32) /\ Bit(sum, 64) = c(64)
      /\ Bit(sum, 128) = c(128)
  BY <1>4, EightBits
<1>7. CcByte(cc) \in Byte
  BY WeightType DEF CcByte
<1>8. CcByte(cc) % 256 = CcByte(cc)
  BY <1>7, ByteDef, SMT
<1> HIDE DEF sum
<1>9. \A f \in Flags : f \in cc <=> Bit(sum, FlagMask[f]) = 1
  <2> SUFFICES ASSUME NEW f \in Flags PROVE f \in cc <=> Bit(sum, FlagMask[f]) = 1
    OBVIOUS
  <2>1. Bit(sum, FlagMask[f]) = c(FlagMask[f])
    BY <1>1, <1>6 DEF Flags
  <2> QED BY <1>3, <1>4, <2>1
<1>10. ByteCc(sum) = cc
  BY <1>9 DEF ByteCc
<1> QED BY <1>5, <1>7, <1>8, <1>10

-----------------------------------------------------------------------------
(* A store below romstart is read back, and leaves everything else alone.  *)
LEMMA SetByteEffect ==
  ASSUME NEW m \in Machine, NEW q \in Word, q < RomStart, NEW v \in Byte
  PROVE  LET n == SetByte(m, q, v)
         IN  /\ At(n, q) = v
             /\ \A p \in Word \ {q} : At(n, p) = At(m, p)
             /\ \A f \in Fields \ {"mem"} : n[f] = m[f]
<1> DEFINE mem == [p \in DOMAIN m.mem \cup {q} |-> IF p = q THEN v ELSE m.mem[p]]
<1> DEFINE n == [m EXCEPT !.mem = mem]
<1>1. ~(q >= RomStart)
  BY RomBound, WordDef, SMT
<1>2. SetByte(m, q, v) = n
  BY <1>1 DEF SetByte
<1>3. \A p \in Word : p % 65536 = p
  BY WordDef, SMT
<1>4. mem[q] = v /\ \A p \in DOMAIN m.mem : p # q => mem[p] = m.mem[p]
  OBVIOUS
<1>5. \A p : p # q => (p \in DOMAIN mem <=> p \in DOMAIN m.mem)
  OBVIOUS
<1>6. q \in DOMAIN mem
  OBVIOUS
<1> HIDE DEF mem
<1>7. n.mem = mem /\ \A f \in Fields \ {"mem"} : n[f] = m[f]
  BY MachineFields DEF Fields
<1> HIDE DEF n
<1>8. At(n, q) = v
  BY <1>3, <1>4, <1>6, <1>7 DEF At
<1>9. \A p \in Word \ {q} : At(n, p) = At(m, p)
  BY <1>3, <1>4, <1>5, <1>7 DEF At
<1> QED BY <1>2, <1>7, <1>8, <1>9

(* So is a word.                                                           *)
LEMMA SetWordEffect ==
  ASSUME NEW m \in Machine, NEW q \in Word, q + 1 < RomStart, NEW w \in Word
  PROVE  LET n == SetWord(m, q, w)
         IN  /\ WordAt(n, q) = w
             /\ \A p \in Word \ {q, q + 1} : At(n, p) = At(m, p)
             /\ \A f \in Fields \ {"mem"} : n[f] = m[f]
<1> DEFINE k == SetByte(m, q, Hi(w))
<1> DEFINE n == SetByte(k, q + 1, Lo(w))
<1>1. /\ q < RomStart /\ q + 1 \in Word /\ (q + 1) % 65536 = q + 1 /\ q # q + 1
  <2>1. q \in Int /\ 0 <= q /\ RomStart \in Int /\ RomStart <= 65536
    BY RomBound, WordDef, SMT
  <2>2. q + 1 \in Int /\ 0 <= q + 1 /\ q + 1 <= 65535
    BY <2>1, SMT
  <2> QED BY <2>1, <2>2, WordDef, SMT
<1>2. Hi(w) \in Byte /\ Lo(w) \in Byte
  BY WordHalves
<1>3. SetWord(m, q, w) = n
  BY <1>1 DEF SetWord
<1>4. /\ At(k, q) = Hi(w) /\ k \in Machine
      /\ \A p \in Word \ {q} : At(k, p) = At(m, p)
      /\ \A f \in Fields \ {"mem"} : k[f] = m[f]
  <2>1. k \in Machine
    BY <1>2, SetByteType
  <2> QED BY <1>1, <1>2, <2>1, SetByteEffect
<1> HIDE DEF k
<1>5. /\ At(n, q + 1) = Lo(w)
      /\ \A p \in Word \ {q + 1} : At(n, p) = At(k, p)
      /\ \A f \in Fields \ {"mem"} : n[f] = k[f]
  BY <1>1, <1>2, <1>4, SetByteEffect
<1> HIDE DEF n
<1>6. 256 * Hi(w) + Lo(w) = w
  BY WordDef, SMT DEF Hi, Lo
<1>7. At(n, q) = Hi(w)
  BY <1>1, <1>4, <1>5
<1>8. WordAt(n, q) = w
  BY <1>5, <1>6, <1>7 DEF WordAt
<1>9. \A p \in Word \ {q, q + 1} : At(n, p) = At(m, p)
  BY <1>4, <1>5
<1>10. \A f \in Fields \ {"mem"} : n[f] = m[f]
  BY <1>4, <1>5
<1> QED BY <1>3, <1>8, <1>9, <1>10

(* What one register takes of the stack, and that it is there.             *)
Taking(regs, r) == IF r \notin regs THEN 0 ELSE IF r \in ByteRegs THEN 1 ELSE 2
Holds(n, q, r, m) == IF r \in ByteRegs THEN At(n, q) = Reg(m, r) ELSE WordAt(n, q) = m[r]

(* n is m after pushing: only the stack pointer and the bytes between are others. *)
Sunk(m, n, st) ==
    /\ n[st] <= m[st]
    /\ \A f \in Fields \ {st, "mem"} : n[f] = m[f]
    /\ \A q \in Word : q < n[st] \/ q >= m[st] => At(n, q) = At(m, q)

(* The registers of a frame are not its stack pointer.                     *)
LEMMA FrameRegs ==
  ASSUME NEW st \in {"s", "u"}
  PROVE  /\ \A r \in Frame(Other(st)) : /\ r \in ByteRegs \cup WordRegs /\ r # st
                                        /\ r \in Fields \ {st, "mem"}
                                        /\ (r \in ByteRegs <=> r \in {"dp", "b", "a", "cc"})
         /\ st \in WordRegs /\ st \in Fields
  BY DEF Frame, Other, ByteRegs, WordRegs, Fields

(* A register pushed, with room in RAM. *)
LEMMA PushEffect ==
  ASSUME NEW m \in Machine, NEW st \in {"s", "u"}, NEW r \in Frame(Other(st)), NEW regs,
         r \in regs, Taking(regs, r) <= m[st], m[st] <= RomStart
  PROVE  LET n == Push(m, st, r)
         IN  n[st] = m[st] - Taking(regs, r) /\ Sunk(m, n, st) /\ Holds(n, n[st], r, m)
<1>1. m[st] \in Int /\ 0 <= m[st] /\ m[st] <= 65535 /\ RomStart \in Int
  <2>1. m[st] \in Word
    BY FieldType, FrameRegs
  <2>2. RomStart \in Int
    BY RomBound, SMT
  <2> QED BY <2>1, <2>2, WordDef
<1>2. \A w \in Word : [m EXCEPT ![st] = w] \in Machine
  BY FieldType DEF WordRegs
<1>3. ASSUME NEW w PROVE /\ [m EXCEPT ![st] = w][st] = w
                         /\ \A f \in Fields \ {st} : [m EXCEPT ![st] = w][f] = m[f]
  BY MachineFields DEF Fields
<1>4. CASE r \in ByteRegs
  <2> DEFINE p == m[st] - 1
  <2> DEFINE k == [m EXCEPT ![st] = p]
  <2> DEFINE n == SetByte(k, p, Reg(m, r))
  <2>1. Taking(regs, r) = 1 /\ 1 <= m[st]
    BY <1>4 DEF Taking
  <2>2. /\ (m[st] + 65535) % 65536 = p /\ p \in Word /\ p < RomStart /\ p + 1 = m[st] /\ p <= m[st]
    <3>1. m[st] <= RomStart /\ 1 <= m[st]
      BY <2>1
    <3>2. /\ (m[st] + 65535) % 65536 = p /\ p \in Int /\ 0 <= p /\ p <= 65535
          /\ p < RomStart /\ p + 1 = m[st] /\ p <= m[st]
      BY <1>1, <3>1, SMT
    <3> QED BY <3>2, WordDef
  <2>3. Push(m, st, r) = n
    <3> DEFINE top == (m[st] + 65535) % 65536
    <3>1. Push(m, st, r) = SetByte([m EXCEPT ![st] = top], top, Reg(m, r))
      BY <1>4 DEF Push
    <3>2. top = p
      BY <2>2
    <3> HIDE DEF top, p
    <3> QED BY <3>1, <3>2
  <2>4. Reg(m, r) \in Byte
    BY <1>4, RegType
  <2>5. k \in Machine /\ k[st] = p /\ \A f \in Fields \ {st} : k[f] = m[f]
    <3>1. p \in Word
      BY <2>2
    <3> HIDE DEF p
    <3> QED BY <1>2, <1>3, <3>1
  <2> HIDE DEF k
  <2>6. \A q \in Word : At(k, q) = At(m, q)
    BY <2>5 DEF At, Fields
  <2> HIDE DEF p
  <2>7. /\ At(n, p) = Reg(m, r)
        /\ \A q \in Word \ {p} : At(n, q) = At(k, q)
        /\ \A f \in Fields \ {"mem"} : n[f] = k[f]
    BY <2>2, <2>4, <2>5, SetByteEffect
  <2> HIDE DEF n
  <2>8. n[st] = p
    BY <2>5, <2>7, FrameRegs
  <2>9. \A q \in Word : q < p \/ q >= m[st] => q # p
    BY <2>2, WordDef, SMT
  <2>10. Sunk(m, n, st)
    BY <2>2, <2>5, <2>6, <2>7, <2>8, <2>9 DEF Sunk
  <2>11. Holds(n, p, r, m)
    BY <1>4, <2>7 DEF Holds
  <2> QED BY <2>1, <2>3, <2>8, <2>10, <2>11 DEF p
<1>5. CASE r \notin ByteRegs
  <2> DEFINE p == m[st] - 2
  <2> DEFINE k == [m EXCEPT ![st] = p]
  <2> DEFINE n == SetWord(k, p, k[r])
  <2>1. Taking(regs, r) = 2 /\ 2 <= m[st]
    BY <1>5 DEF Taking
  <2>2. /\ (m[st] + 65534) % 65536 = p /\ p \in Word /\ p + 1 < RomStart /\ p + 2 = m[st] /\ p <= m[st]
    <3>1. m[st] <= RomStart /\ 2 <= m[st]
      BY <2>1
    <3>2. /\ (m[st] + 65534) % 65536 = p /\ p \in Int /\ 0 <= p /\ p <= 65535
          /\ p + 1 < RomStart /\ p + 2 = m[st] /\ p <= m[st]
      BY <1>1, <3>1, SMT
    <3> QED BY <3>2, WordDef
  <2>3. Push(m, st, r) = n
    <3> DEFINE top == (m[st] + 65534) % 65536
    <3> DEFINE j == [m EXCEPT ![st] = top]
    <3>1. Push(m, st, r) = SetWord(j, top, j[r])
      BY <1>5 DEF Push
    <3>2. top = p
      BY <2>2
    <3> HIDE DEF top, p
    <3> QED BY <3>1, <3>2
  <2>5. k \in Machine /\ k[st] = p /\ \A f \in Fields \ {st} : k[f] = m[f]
    <3>1. p \in Word
      BY <2>2
    <3> HIDE DEF p
    <3> QED BY <1>2, <1>3, <3>1
  <2> HIDE DEF k
  <2>4. k[r] \in Word /\ k[r] = m[r]
    BY <1>5, <2>5, FieldType, FrameRegs
  <2>6. \A q \in Word : At(k, q) = At(m, q)
    BY <2>5 DEF At, Fields
  <2> HIDE DEF p
  <2>7. /\ WordAt(n, p) = k[r]
        /\ \A q \in Word \ {p, p + 1} : At(n, q) = At(k, q)
        /\ \A f \in Fields \ {"mem"} : n[f] = k[f]
    BY <2>2, <2>4, <2>5, SetWordEffect
  <2> HIDE DEF n
  <2>8. n[st] = p
    BY <2>5, <2>7, FrameRegs
  <2>9. \A q \in Word : q < p \/ q >= m[st] => q # p /\ q # p + 1
    BY <2>2, WordDef, SMT
  <2>10. Sunk(m, n, st)
    BY <2>2, <2>5, <2>6, <2>7, <2>8, <2>9 DEF Sunk
  <2>11. Holds(n, p, r, m)
    BY <1>5, <2>4, <2>7 DEF Holds
  <2> QED BY <2>1, <2>3, <2>8, <2>10, <2>11 DEF p
<1> QED BY <1>4, <1>5

(* The stack sinks further, and keeps what it holds. *)
LEMMA SunkFurther ==
  ASSUME NEW l \in Machine, NEW m \in Machine, NEW n \in Machine, NEW st \in {"s", "u"},
         Sunk(l, m, st), Sunk(m, n, st)
  PROVE  Sunk(l, n, st)
<1>1. l[st] \in Int /\ m[st] \in Int /\ n[st] \in Int
  BY FieldType, FrameRegs, WordDef
<1>2. n[st] <= l[st]
  BY <1>1, SMT DEF Sunk
<1>3. \A f \in Fields \ {st, "mem"} : n[f] = l[f]
  BY DEF Sunk
<1>4. ASSUME NEW q \in Word, q < n[st] \/ q >= l[st] PROVE At(n, q) = At(l, q)
  <2>1. (q < m[st] \/ q >= l[st]) /\ (q < n[st] \/ q >= m[st])
    BY <1>1, <1>4, WordDef, SMT DEF Sunk
  <2> QED BY <2>1 DEF Sunk
<1> QED BY <1>2, <1>3, <1>4 DEF Sunk

(* A register pushed if it is one of regs, on the stack of m as it is in n. *)
LEMMA PushInEffect ==
  ASSUME NEW m \in Machine, NEW n \in Machine, NEW st \in {"s", "u"},
         NEW r \in Frame(Other(st)), NEW regs,
         Sunk(m, n, st), Taking(regs, r) <= n[st], m[st] <= RomStart
  PROVE  LET l == PushIn(n, st, regs, r)
         IN  /\ l \in Machine /\ Sunk(n, l, st) /\ Sunk(m, l, st)
             /\ l[st] = n[st] - Taking(regs, r)
             /\ r \in regs => Holds(l, l[st], r, m)
<1> DEFINE l == PushIn(n, st, regs, r)
<1>1. m[st] \in Int /\ n[st] \in Int /\ RomStart \in Int /\ n[st] <= m[st]
  <2>1. m[st] \in Word /\ n[st] \in Word
    BY FieldType, FrameRegs
  <2>2. RomStart \in Int
    BY RomBound, SMT
  <2> QED BY <2>1, <2>2, WordDef DEF Sunk
<1>2. CASE r \notin regs
  <2>1. l = n /\ Taking(regs, r) = 0
    BY <1>2 DEF PushIn, Taking
  <2>2. Sunk(n, n, st)
    BY <1>1 DEF Sunk
  <2>3. n[st] = n[st] - 0
    BY <1>1, SMT
  <2> QED BY <1>2, <2>1, <2>2, <2>3
<1>3. CASE r \in regs
  <2>1. l = Push(n, st, r)
    BY <1>3 DEF PushIn
  <2> HIDE DEF l
  <2>2. n[st] <= RomStart
    BY <1>1, SMT
  <2>3. l \in Machine
    BY <2>1, PushType, FrameRegs
  <2>4. l[st] = n[st] - Taking(regs, r) /\ Sunk(n, l, st) /\ Holds(l, l[st], r, n)
    BY <1>3, <2>1, <2>2, PushEffect
  <2>5. Sunk(m, l, st)
    BY <2>3, <2>4, SunkFurther
  <2>6. n[r] = m[r] /\ n.cc = m.cc /\ n.a = m.a /\ n.b = m.b
    BY FrameRegs DEF Sunk, Fields
  <2>7. Reg(n, r) = Reg(m, r)
    BY <2>6 DEF Reg, D
  <2>8. Holds(l, l[st], r, m)
    BY <2>4, <2>6, <2>7 DEF Holds
  <2> QED BY <2>3, <2>4, <2>5, <2>8 DEF l
<1> QED BY <1>2, <1>3

(* What n holds a later machine still holds.                               *)
LEMMA HoldsKept ==
  ASSUME NEW l \in Machine, NEW n \in Machine, NEW st \in {"s", "u"},
         NEW r \in Frame(Other(st)), NEW m,
         n[st] < 65535, Sunk(n, l, st), Holds(n, n[st], r, m)
  PROVE  Holds(l, n[st], r, m)
<1>1. n[st] \in Word /\ n[st] \in Int /\ 0 <= n[st]
  BY FieldType, FrameRegs, WordDef
<1>2. n[st] + 1 \in Word /\ n[st] >= n[st] /\ n[st] + 1 >= n[st]
  BY <1>1, WordDef, SMT
<1>3. At(l, n[st]) = At(n, n[st]) /\ At(l, n[st] + 1) = At(n, n[st] + 1)
  BY <1>1, <1>2 DEF Sunk
<1> QED BY <1>3 DEF Holds, WordAt

(* A register pulled where the stack holds that of m: it is restored, and  *)
(* nothing else changes but the stack pointer.                             *)
LEMMA PullInUndoes ==
  ASSUME NEW m \in Machine, NEW n \in Machine, NEW st \in {"s", "u"},
         NEW r \in Frame(Other(st)), NEW regs,
         n[st] + Taking(regs, r) <= 65535, r \in regs => Holds(n, n[st], r, m)
  PROVE  LET l == PullIn(n, st, regs, r)
         IN  /\ l \in Machine /\ l[st] = n[st] + Taking(regs, r) /\ l.mem = n.mem
             /\ \A f \in Fields \ {st, "mem"} :
                   n[f] = m[f] \/ (f = r /\ r \in regs) => l[f] = m[f]
<1> DEFINE l == PullIn(n, st, regs, r)
<1>1. n[st] \in Int /\ 0 <= n[st]
  <2>1. n[st] \in Word
    BY FieldType, FrameRegs
  <2> QED BY <2>1, WordDef
<1>2. CASE r \notin regs
  <2>1. l = n /\ Taking(regs, r) = 0
    BY <1>2 DEF PullIn, Taking
  <2>2. n[st] = n[st] + 0
    BY <1>1, SMT
  <2> QED BY <1>2, <2>1, <2>2
<1>3. CASE r \in regs
  <2>1. l = Pull(n, st, r) /\ Holds(n, n[st], r, m)
    BY <1>3 DEF PullIn
  <2>2. r \in ByteRegs \cup WordRegs /\ r # st /\ st \in Fields /\ st # "mem"
    BY FrameRegs
  <2>3. l \in Machine
    BY <2>1, <2>2, PullType
  <2> HIDE DEF l
  <2> DEFINE p == n[st] + Taking(regs, r)
  <2> DEFINE k == [n EXCEPT ![st] = p]
  <2>4. /\ Taking(regs, r) = IF r \in ByteRegs THEN 1 ELSE 2
        /\ (n[st] + Taking(regs, r)) % 65536 = p
    <3>1. Taking(regs, r) = IF r \in ByteRegs THEN 1 ELSE 2
      BY <1>3 DEF Taking
    <3> QED BY <1>1, <3>1, SMT
  <2>5. k[st] = p /\ k.mem = n.mem /\ \A f \in Fields \ {st, "mem"} : k[f] = n[f]
    BY <2>2, MachineFields DEF Fields
  <2>6. DOMAIN k = Fields
    BY MachineFields DEF Fields
  <2>7. l = [k EXCEPT ![r] = m[r]]
    <3>1. CASE r \in ByteRegs
      <4> DEFINE top == (n[st] + 1) % 65536
      <4>1. l = SetReg([n EXCEPT ![st] = top], r, At(n, n[st])) /\ At(n, n[st]) = Reg(m, r)
        BY <2>1, <3>1 DEF Pull, Holds
      <4>2. top = p
        BY <2>4, <3>1
      <4> HIDE DEF top, p
      <4>3. l = SetReg(k, r, Reg(m, r))
        BY <4>1, <4>2
      <4> HIDE DEF k
      <4>4. CASE r = "cc"
        <5>1. SetReg(k, "cc", Reg(m, "cc")) = [k EXCEPT !.cc = ByteCc(CcByte(m.cc) % 256)]
          BY DEF SetReg, Reg
        <5>2. ByteCc(CcByte(m.cc) % 256) = m.cc
          BY FieldType, FlagsKept
        <5> QED BY <4>3, <4>4, <5>1, <5>2
      <4>5. CASE r # "cc"
        <5>1. r \in {"a", "b", "dp"}
          BY <3>1, <4>5 DEF ByteRegs
        <5>2. Reg(m, r) = m[r]
          BY <5>1 DEF Reg
        <5> DEFINE low == m[r] % 256
        <5>3. SetReg(k, r, m[r]) = [k EXCEPT ![r] = low]
          BY <5>1 DEF SetReg, ByteRegs
        <5>4. low = m[r]
          <6>1. m[r] \in Byte
            BY <5>1, FieldType
          <6> QED BY <6>1, ByteDef, SMT
        <5> HIDE DEF low
        <5> QED BY <4>3, <5>2, <5>3, <5>4
      <4> QED BY <4>4, <4>5
    <3>2. CASE r \notin ByteRegs
      <4> DEFINE top == (n[st] + 2) % 65536
      <4>1. l = [[n EXCEPT ![st] = top] EXCEPT ![r] = m[r]]
        <5> DEFINE read == WordAt(n, n[st])
        <5>1. read = m[r]
          BY <2>1, <3>2 DEF Holds
        <5>2. l = [[n EXCEPT ![st] = top] EXCEPT ![r] = read]
          BY <2>1, <3>2 DEF Pull
        <5> HIDE DEF read, top
        <5> QED BY <5>1, <5>2
      <4>2. top = p
        BY <2>4, <3>2
      <4> HIDE DEF top, p
      <4> QED BY <4>1, <4>2
    <3> QED BY <3>1, <3>2
  <2> HIDE DEF k, p
  <2>8. /\ l[st] = k[st] /\ l.mem = k.mem
        /\ \A f \in Fields \ {r} : l[f] = k[f]
        /\ l[r] = m[r]
    <3>1. r \in Fields /\ r # "mem"
      BY FrameRegs
    <3> QED BY <2>2, <2>6, <2>7, <3>1 DEF Fields
  <2>9. \A f \in Fields \ {st, "mem"} : n[f] = m[f] \/ (f = r /\ r \in regs) => l[f] = m[f]
    BY <2>5, <2>8
  <2> QED BY <2>3, <2>5, <2>8, <2>9 DEF l, p
<1> QED BY <1>2, <1>3

(* What is taken of the stack. *)
LEMMA TakingBytes ==
  ASSUME NEW st \in {"s", "u"}, NEW regs
  PROVE  /\ \A r : Taking(regs, r) \in {0, 1, 2} /\ (r \in regs => Taking(regs, r) >= 1)
         /\ \A r \in ByteRegs : Taking(regs, r) <= 1
  BY SMT DEF Taking

(* A register pushed stays readable while the stack sinks further. *)
LEMMA PushInKept ==
  ASSUME NEW m \in Machine, NEW n \in Machine, NEW st \in {"s", "u"},
         NEW r \in Frame(Other(st)), NEW regs,
         Sunk(m, n, st), Taking(regs, r) <= n[st], m[st] <= RomStart
  PROVE  LET k == PushIn(n, st, regs, r)
         IN  /\ k \in Machine /\ Sunk(m, k, st) /\ k[st] = n[st] - Taking(regs, r)
             /\ \A l \in Machine : Sunk(k, l, st) =>
                   Sunk(n, l, st) /\ (r \in regs => Holds(l, k[st], r, m))
<1> DEFINE k == PushIn(n, st, regs, r)
<1>1. /\ k \in Machine /\ Sunk(m, k, st) /\ Sunk(n, k, st)
      /\ k[st] = n[st] - Taking(regs, r) /\ (r \in regs => Holds(k, k[st], r, m))
  BY PushInEffect
<1> HIDE DEF k
<1>2. r \in regs => k[st] < 65535
  <2>1. n[st] \in Word
    BY FieldType, FrameRegs
  <2>2. n[st] \in Int /\ n[st] <= 65535
    BY <2>1, WordDef
  <2>3. Taking(regs, r) \in {0, 1, 2} /\ (r \in regs => Taking(regs, r) >= 1)
    BY TakingBytes
  <2> QED BY <1>1, <2>2, <2>3, SMT
<1>3. ASSUME NEW l \in Machine, Sunk(k, l, st)
      PROVE  Sunk(n, l, st) /\ (r \in regs => Holds(l, k[st], r, m))
  <2>1. Sunk(n, l, st)
    BY <1>1, <1>3, SunkFurther
  <2>2. r \in regs => Holds(l, k[st], r, m)
    BY <1>1, <1>2, <1>3, HoldsKept
  <2> QED BY <2>1, <2>2
<1> QED BY <1>1, <1>3 DEF k

(* Pulling what was pushed restores the registers pulled and the stack     *)
(* pointer, and changes nothing else.  The pushed pc is at the top, and a  *)
(* whole frame has 12 bytes.                                               *)
LEMMA PullAllUndoes ==
  ASSUME NEW m \in Machine, NEW st \in {"s", "u"}, NEW regs,
         regs \subseteq Frame(Other(st)), 12 <= m[st], m[st] <= RomStart
  PROVE  LET l == PushAll(m, st, Other(st), regs)
         IN  /\ l \in Machine /\ Sunk(m, l, st) /\ m[st] - 12 <= l[st]
             /\ "pc" \in regs => WordAt(l, m[st] - 2) = m.pc
             /\ regs = Frame(Other(st)) => l[st] = m[st] - 12
             /\ \A n \in Machine : n[st] = l[st] /\ n.mem = l.mem =>
                   LET e == PullAll(n, st, Other(st), regs)
                   IN  /\ e \in Machine /\ e[st] = m[st] /\ e.mem = n.mem
                       /\ \A f \in Fields \ {st, "mem"} :
                             n[f] = m[f] \/ f \in regs => e[f] = m[f]
                       /\ "cc" \in regs => PullIn(n, st, regs, "cc").cc = m.cc
<1> DEFINE other == Other(st)
<1> DEFINE Size(r) == Taking(regs, r)
<1> DEFINE k1 == PushIn(m, st, regs, "pc")
<1> DEFINE k2 == PushIn(k1, st, regs, other)
<1> DEFINE k3 == PushIn(k2, st, regs, "y")
<1> DEFINE k4 == PushIn(k3, st, regs, "x")
<1> DEFINE k5 == PushIn(k4, st, regs, "dp")
<1> DEFINE k6 == PushIn(k5, st, regs, "b")
<1> DEFINE k7 == PushIn(k6, st, regs, "a")
<1> DEFINE k8 == PushIn(k7, st, regs, "cc")
<1>1. PushAll(m, st, other, regs) = k8
  BY DEF PushAll
<1>2. Frame(other) = {"pc", other, "y", "x", "dp", "b", "a", "cc"}
  BY DEF Frame
<1>3. m[st] \in Int /\ 12 <= m[st] /\ m[st] <= 65535
  <2>1. m[st] \in Word
    BY FieldType, FrameRegs
  <2> QED BY <2>1, WordDef
<1>4. /\ Size("pc") \in 0..2 /\ Size(other) \in 0..2 /\ Size("y") \in 0..2 /\ Size("x") \in 0..2
      /\ Size("dp") \in 0..1 /\ Size("b") \in 0..1 /\ Size("a") \in 0..1 /\ Size("cc") \in 0..1
  <2>1. \A r : Size(r) \in {0, 1, 2}
    BY TakingBytes
  <2>2. Size("dp") <= 1 /\ Size("b") <= 1 /\ Size("a") <= 1 /\ Size("cc") <= 1
    BY TakingBytes DEF ByteRegs
  <2> HIDE DEF Size
  <2> QED BY <2>1, <2>2, SMT
<1> DEFINE Whole == regs = Frame(other)
<1>4a. Whole => /\ Size("pc") = 2 /\ Size(other) = 2 /\ Size("y") = 2 /\ Size("x") = 2
                /\ Size("dp") = 1 /\ Size("b") = 1 /\ Size("a") = 1 /\ Size("cc") = 1
  <2>1. other \notin ByteRegs
    BY DEF Other, ByteRegs
  <2> QED BY <1>2, <2>1 DEF Taking, ByteRegs
<1>5. Sunk(m, m, st)
  BY <1>3 DEF Sunk
<1> HIDE DEF other, Size, Whole
<1> DEFINE Deep(n, d) == /\ n \in Machine /\ Sunk(m, n, st)
                        /\ n[st] \in Int /\ m[st] <= n[st] + d
                        /\ (Whole => m[st] = n[st] + d)
<1> DEFINE Kept(n, k, r) == /\ k[st] = n[st] - Size(r)
                           /\ \A l \in Machine : Sunk(k, l, st) =>
                                Sunk(n, l, st) /\ (r \in regs => Holds(l, k[st], r, m))
<1>6. ASSUME NEW n, NEW r \in Frame(other), NEW d \in 0..12, NEW w \in {1, 2},
             Size(r) \in 0..w, Whole => Size(r) = w, d + w <= 12, Deep(n, d)
      PROVE  Deep(PushIn(n, st, regs, r), d + w) /\ Kept(n, PushIn(n, st, regs, r), r)
  <2> DEFINE k == PushIn(n, st, regs, r)
  <2>1. n \in Machine /\ Sunk(m, n, st) /\ Size(r) <= n[st]
    BY <1>3, <1>6, SMT
  <2>2. k \in Machine /\ Sunk(m, k, st) /\ Kept(n, k, r)
    BY <2>1, PushInKept DEF other, Size
  <2> HIDE DEF k
  <2>3. k[st] \in Int /\ m[st] <= k[st] + (d + w) /\ (Whole => m[st] = k[st] + (d + w))
    BY <1>3, <1>6, <2>2, SMT
  <2> QED BY <2>2, <2>3 DEF k
<1>7. Deep(m, 0)
  BY <1>3, <1>5, SMT
<1> HIDE DEF Deep, Kept, k1, k2, k3, k4, k5, k6, k7, k8
<1>8. Deep(k1, 2) /\ Kept(m, k1, "pc")
  <2>1. "pc" \in Frame(other) /\ Size("pc") \in 0..2 /\ (Whole => Size("pc") = 2)
    BY <1>2, <1>4, <1>4a
  <2>2. 0 \in 0..12 /\ 2 \in {1, 2} /\ 0 + 2 <= 12 /\ 0 + 2 = 2
    BY SMT
  <2> QED BY <1>6, <1>7, <2>1, <2>2 DEF k1
<1>9. Deep(k2, 4) /\ Kept(k1, k2, other)
  <2>1. other \in Frame(other) /\ Size(other) \in 0..2 /\ (Whole => Size(other) = 2)
    BY <1>2, <1>4, <1>4a
  <2>2. 2 \in 0..12 /\ 2 \in {1, 2} /\ 2 + 2 <= 12 /\ 2 + 2 = 4
    BY SMT
  <2> QED BY <1>6, <1>8, <2>1, <2>2 DEF k2
<1>10. Deep(k3, 6) /\ Kept(k2, k3, "y")
  <2>1. "y" \in Frame(other) /\ Size("y") \in 0..2 /\ (Whole => Size("y") = 2)
    BY <1>2, <1>4, <1>4a
  <2>2. 4 \in 0..12 /\ 2 \in {1, 2} /\ 4 + 2 <= 12 /\ 4 + 2 = 6
    BY SMT
  <2> QED BY <1>6, <1>9, <2>1, <2>2 DEF k3
<1>11. Deep(k4, 8) /\ Kept(k3, k4, "x")
  <2>1. "x" \in Frame(other) /\ Size("x") \in 0..2 /\ (Whole => Size("x") = 2)
    BY <1>2, <1>4, <1>4a
  <2>2. 6 \in 0..12 /\ 2 \in {1, 2} /\ 6 + 2 <= 12 /\ 6 + 2 = 8
    BY SMT
  <2> QED BY <1>6, <1>10, <2>1, <2>2 DEF k4
<1>12. Deep(k5, 9) /\ Kept(k4, k5, "dp")
  <2>1. "dp" \in Frame(other) /\ Size("dp") \in 0..1 /\ (Whole => Size("dp") = 1)
    BY <1>2, <1>4, <1>4a
  <2>2. 8 \in 0..12 /\ 1 \in {1, 2} /\ 8 + 1 <= 12 /\ 8 + 1 = 9
    BY SMT
  <2> QED BY <1>6, <1>11, <2>1, <2>2 DEF k5
<1>13. Deep(k6, 10) /\ Kept(k5, k6, "b")
  <2>1. "b" \in Frame(other) /\ Size("b") \in 0..1 /\ (Whole => Size("b") = 1)
    BY <1>2, <1>4, <1>4a
  <2>2. 9 \in 0..12 /\ 1 \in {1, 2} /\ 9 + 1 <= 12 /\ 9 + 1 = 10
    BY SMT
  <2> QED BY <1>6, <1>12, <2>1, <2>2 DEF k6
<1>14. Deep(k7, 11) /\ Kept(k6, k7, "a")
  <2>1. "a" \in Frame(other) /\ Size("a") \in 0..1 /\ (Whole => Size("a") = 1)
    BY <1>2, <1>4, <1>4a
  <2>2. 10 \in 0..12 /\ 1 \in {1, 2} /\ 10 + 1 <= 12 /\ 10 + 1 = 11
    BY SMT
  <2> QED BY <1>6, <1>13, <2>1, <2>2 DEF k7
<1>15. Deep(k8, 12) /\ Kept(k7, k8, "cc")
  <2>1. "cc" \in Frame(other) /\ Size("cc") \in 0..1 /\ (Whole => Size("cc") = 1)
    BY <1>2, <1>4, <1>4a
  <2>2. 11 \in 0..12 /\ 1 \in {1, 2} /\ 11 + 1 <= 12 /\ 11 + 1 = 12
    BY SMT
  <2> QED BY <1>6, <1>14, <2>1, <2>2 DEF k8
<1>16. k8 \in Machine /\ Sunk(m, k8, st) /\ m[st] - 12 <= k8[st]
  BY <1>3, <1>15, SMT DEF Deep
<1>17. k8[st] \in Int
  BY <1>15 DEF Deep
<1> DEFINE Left(k, n, r) == k[st] = n[st] - Size(r) /\ n[st] \in Int /\ n[st] <= 65535
<1>18. ASSUME NEW n, NEW k, NEW r, NEW d, NEW q, Deep(n, d), Kept(n, k, r), Sunk(k, k8, st)
       PROVE  Sunk(n, k8, st) /\ (r \in regs => Holds(k8, k[st], r, m)) /\ Left(k, n, r)
  <2>1. n[st] \in Int /\ n[st] <= 65535
    BY <1>3, <1>18, SMT DEF Deep, Sunk
  <2>2. k[st] = n[st] - Size(r)
    BY <1>18 DEF Kept
  <2>3. Sunk(n, k8, st) /\ (r \in regs => Holds(k8, k[st], r, m))
    BY <1>16, <1>18 DEF Kept
  <2> QED BY <2>1, <2>2, <2>3
<1>19. Sunk(k8, k8, st)
  BY <1>17 DEF Sunk
<1> HIDE DEF Left
<1>20. Sunk(k7, k8, st) /\ ("cc" \in regs => Holds(k8, k8[st], "cc", m)) /\ Left(k8, k7, "cc")
  BY <1>14, <1>15, <1>18, <1>19
<1>21. Sunk(k6, k8, st) /\ ("a" \in regs => Holds(k8, k7[st], "a", m)) /\ Left(k7, k6, "a")
  BY <1>13, <1>14, <1>18, <1>20
<1>22. Sunk(k5, k8, st) /\ ("b" \in regs => Holds(k8, k6[st], "b", m)) /\ Left(k6, k5, "b")
  BY <1>12, <1>13, <1>18, <1>21
<1>23. Sunk(k4, k8, st) /\ ("dp" \in regs => Holds(k8, k5[st], "dp", m)) /\ Left(k5, k4, "dp")
  BY <1>11, <1>12, <1>18, <1>22
<1>24. Sunk(k3, k8, st) /\ ("x" \in regs => Holds(k8, k4[st], "x", m)) /\ Left(k4, k3, "x")
  BY <1>10, <1>11, <1>18, <1>23
<1>25. Sunk(k2, k8, st) /\ ("y" \in regs => Holds(k8, k3[st], "y", m)) /\ Left(k3, k2, "y")
  BY <1>9, <1>10, <1>18, <1>24
<1>26. Sunk(k1, k8, st) /\ (other \in regs => Holds(k8, k2[st], other, m)) /\ Left(k2, k1, other)
  BY <1>8, <1>9, <1>18, <1>25
<1>27. Sunk(m, k8, st) /\ ("pc" \in regs => Holds(k8, k1[st], "pc", m)) /\ Left(k1, m, "pc")
  BY <1>7, <1>8, <1>18, <1>26
<1>28. ASSUME NEW n \in Machine, n[st] = k8[st], n.mem = k8.mem
       PROVE  LET e == PullAll(n, st, other, regs)
              IN  /\ e \in Machine /\ e[st] = m[st] /\ e.mem = n.mem
                  /\ \A f \in Fields \ {st, "mem"} :
                        n[f] = m[f] \/ f \in regs => e[f] = m[f]
                  /\ "cc" \in regs => PullIn(n, st, regs, "cc").cc = m.cc
  <2> DEFINE p7 == PullIn(n, st, regs, "cc")
  <2> DEFINE p6 == PullIn(p7, st, regs, "a")
  <2> DEFINE p5 == PullIn(p6, st, regs, "b")
  <2> DEFINE p4 == PullIn(p5, st, regs, "dp")
  <2> DEFINE p3 == PullIn(p4, st, regs, "x")
  <2> DEFINE p2 == PullIn(p3, st, regs, "y")
  <2> DEFINE p1 == PullIn(p2, st, regs, other)
  <2> DEFINE p0 == PullIn(p1, st, regs, "pc")
  <2>1. PullAll(n, st, other, regs) = p0
    BY DEF PullAll
  <2> DEFINE Back(p, k) == p \in Machine /\ p[st] = k[st] /\ p.mem = n.mem
  <2> DEFINE Restores(p, e, r) == \A f \in Fields \ {st, "mem"} :
                                    p[f] = m[f] \/ (f = r /\ r \in regs) => e[f] = m[f]
  <2>2. ASSUME NEW p, NEW k, NEW q, NEW r \in Frame(other), Back(p, k),
               r \in regs => Holds(k8, k[st], r, m), Left(k, q, r)
        PROVE  Back(PullIn(p, st, regs, r), q) /\ Restores(p, PullIn(p, st, regs, r), r)
    <3> DEFINE e == PullIn(p, st, regs, r)
    <3>1. r \in regs => Holds(p, p[st], r, m)
      <4>1. \A a : At(p, a) = At(k8, a)
        BY <1>28, <2>2 DEF At
      <4> QED BY <2>2, <4>1 DEF Holds, WordAt
    <3>2. /\ Size(r) \in {0, 1, 2}
          /\ q[st] \in Int /\ q[st] <= 65535 /\ p[st] = q[st] - Size(r)
      BY <2>2, TakingBytes DEF Left, Size
    <3>3. p[st] + Size(r) = q[st] /\ p[st] + Size(r) <= 65535
      BY <3>2, SMT
    <3>4. /\ e \in Machine /\ e[st] = p[st] + Size(r) /\ e.mem = p.mem /\ Restores(p, e, r)
      BY <2>2, <3>1, <3>3, PullInUndoes DEF other, Size
    <3> QED BY <2>2, <3>3, <3>4
  <2>3. Back(n, k8)
    BY <1>28
  <2> HIDE DEF Back, Restores, p0, p1, p2, p3, p4, p5, p6, p7
  <2>4. Back(p7, k7) /\ Restores(n, p7, "cc")
    BY <1>2, <1>20, <2>2, <2>3 DEF p7
  <2>5. Back(p6, k6) /\ Restores(p7, p6, "a")
    BY <1>2, <1>21, <2>2, <2>4 DEF p6
  <2>6. Back(p5, k5) /\ Restores(p6, p5, "b")
    BY <1>2, <1>22, <2>2, <2>5 DEF p5
  <2>7. Back(p4, k4) /\ Restores(p5, p4, "dp")
    BY <1>2, <1>23, <2>2, <2>6 DEF p4
  <2>8. Back(p3, k3) /\ Restores(p4, p3, "x")
    BY <1>2, <1>24, <2>2, <2>7 DEF p3
  <2>9. Back(p2, k2) /\ Restores(p3, p2, "y")
    BY <1>2, <1>25, <2>2, <2>8 DEF p2
  <2>10. Back(p1, k1) /\ Restores(p2, p1, other)
    BY <1>2, <1>26, <2>2, <2>9 DEF p1
  <2>11. Back(p0, m) /\ Restores(p1, p0, "pc")
    BY <1>2, <1>27, <2>2, <2>10 DEF p0
  <2>12. ASSUME NEW f \in Fields \ {st, "mem"}, n[f] = m[f] \/ f \in regs
         PROVE  p0[f] = m[f]
    <3>1. n[f] = m[f] \/ (f \in regs /\ f \in {"pc", other, "y", "x", "dp", "b", "a", "cc"})
      BY <1>2, <2>12 DEF other
    <3> QED BY <2>12, <3>1, <2>4, <2>5, <2>6, <2>7, <2>8, <2>9, <2>10, <2>11 DEF Restores
  <2>13. "cc" \in regs => p7.cc = m.cc
    BY <2>4, FrameRegs DEF Restores, Fields
  <2> QED BY <2>1, <2>11, <2>12, <2>13 DEF Back, p7
<1>29. "pc" \in regs => WordAt(k8, m[st] - 2) = m.pc
  <2> SUFFICES ASSUME "pc" \in regs PROVE WordAt(k8, m[st] - 2) = m.pc
    OBVIOUS
  <2>1. Size("pc") = 2 /\ "pc" \notin ByteRegs
    BY DEF Size, Taking, ByteRegs
  <2>2. k1[st] = m[st] - 2
    BY <1>27, <2>1 DEF Left
  <2> QED BY <1>27, <2>1, <2>2 DEF Holds
<1>30. Whole => k8[st] = m[st] - 12
  BY <1>3, <1>15, SMT DEF Deep
<1> QED BY <1>1, <1>16, <1>28, <1>29, <1>30 DEF other, Whole

(* Skipping, of a machine. *)
LEMMA SkipFields ==
  ASSUME NEW m \in Machine, NEW n \in Nat, Ready(m, n)
  PROVE  LET k == Skip(m, n)
         IN  /\ k \in Machine /\ k.pc = m.pc + n /\ k.mem = m.mem
             /\ \A f \in Fields \ {"pc"} : k[f] = m[f]
             /\ \A q : At(k, q) = At(m, q)
<1>1. Skip(m, n) \in Machine
  BY SkipType
<1>2. Skip(m, n).pc = m.pc + n /\ \A q : At(Skip(m, n), q) = At(m, q)
  BY SkipKeeps
<1>3. \A f \in Fields \ {"pc"} : Skip(m, n)[f] = m[f]
  BY MachineFields DEF Skip, Fields
<1> QED BY <1>1, <1>2, <1>3 DEF Fields

(* Two machines that differ in pc, in cc and in memory only. *)
LEMMA SameFields ==
  ASSUME NEW m \in Machine, NEW n \in Machine,
         \A f \in Fields \ {"pc", "mem", "cc"} : n[f] = m[f]
  PROVE  n = [m EXCEPT !.pc = n.pc, !.mem = n.mem, !.cc = n.cc]
<1>1. /\ n.a = m.a /\ n.b = m.b /\ n.dp = m.dp /\ n.x = m.x /\ n.y = m.y
      /\ n.u = m.u /\ n.s = m.s
  BY DEF Fields
<1> DEFINE k == [m EXCEPT !.pc = n.pc, !.mem = n.mem, !.cc = n.cc]
<1>2. \A l \in Machine : l = [a |-> l.a, b |-> l.b, dp |-> l.dp, cc |-> l.cc, x |-> l.x,
                              y |-> l.y, u |-> l.u, s |-> l.s, pc |-> l.pc, mem |-> l.mem]
  BY MachineFields
<1>3. k \in Machine
  <2>1. n.pc \in Word /\ n.mem \in Mems /\ n.cc \in SUBSET Flags
    BY FieldType DEF WordRegs
  <2> QED BY <2>1, MachineFields
<1>4. /\ k.a = m.a /\ k.b = m.b /\ k.dp = m.dp /\ k.x = m.x /\ k.y = m.y
      /\ k.u = m.u /\ k.s = m.s /\ k.pc = n.pc /\ k.mem = n.mem /\ k.cc = n.cc
  BY MachineFields
<1> HIDE DEF k
<1>5. k = n
  BY <1>1, <1>2, <1>3, <1>4
<1> QED BY <1>5 DEF k

(* The opcodes of PSH and PUL. *)
LEMMA StackOpcodes ==
  ASSUME NEW m \in Machine, Ready(m, 2), NEW st \in {"s", "u"}, NEW j
  PROVE  LET k == Skip(Skip(m, 1), 1)
             regs == Listed(At(m, m.pc + 1), Other(st))
         IN  /\ k \in Machine /\ k.pc = m.pc + 2 /\ k.mem = m.mem
             /\ \A f \in Fields \ {"pc"} : k[f] = m[f]
             /\ At(m, m.pc) = (IF st = "s" THEN 52 ELSE 54) =>
                   Exec(m, j) = PushAll(k, st, Other(st), regs)
             /\ At(m, m.pc) = (IF st = "s" THEN 53 ELSE 55) =>
                   Exec(m, j) = PullAll(k, st, Other(st), regs)
<1> DEFINE i == Skip(m, 1)
<1> DEFINE k == Skip(i, 1)
<1> DEFINE regs == Listed(At(m, m.pc + 1), Other(st))
<1>1. Ready(m, 1) /\ 1 \in Nat
  BY SMT DEF Ready
<1>2. /\ i \in Machine /\ i.pc = m.pc + 1 /\ i.mem = m.mem
      /\ \A f \in Fields \ {"pc"} : i[f] = m[f]
      /\ \A q : At(i, q) = At(m, q)
  BY <1>1, SkipFields
<1>3. PrefixCount(m) + 1 = 1 /\ Opcode(m) \div 16 = 3 =>
         Exec(m, j) = Row3(i, Opcode(m) % 16, Flag(m))
  <2> DEFINE first == PrefixCount(m) + 1
  <2>1. Opcode(m) \div 16 = 3 => Exec(m, j) = Row3(Skip(m, first), Opcode(m) % 16, Flag(m))
    BY DEF Exec
  <2> HIDE DEF first, i
  <2>2. first = 1 => Skip(m, first) = i
    BY DEF i
  <2> QED BY <2>1, <2>2 DEF first
<1> HIDE DEF i
<1>4. Ready(i, 1)
  <2>1. DOMAIN i = Fields
    BY <1>2, MachineFields DEF Fields
  <2> QED BY <1>2, <2>1, SMT DEF Ready
<1>5. /\ k \in Machine /\ k.pc = m.pc + 2 /\ k.mem = m.mem
      /\ \A f \in Fields \ {"pc"} : k[f] = m[f]
  <2>1. /\ k \in Machine /\ k.pc = i.pc + 1 /\ k.mem = i.mem
        /\ \A f \in Fields \ {"pc"} : k[f] = i[f]
    BY <1>1, <1>2, <1>4, SkipFields
  <2> HIDE DEF k
  <2>2. i.pc + 1 = m.pc + 2
    BY <1>2, SMT DEF Ready
  <2> QED BY <1>2, <2>1, <2>2
<1>6. Listed(At(i, i.pc), Other(st)) = regs
  BY <1>2
<1>7. Pushed(i, st) = PushAll(k, st, Other(st), regs)
  BY <1>6 DEF Pushed
<1>8. Pulled(i, st) = PullAll(k, st, Other(st), regs)
  BY <1>6 DEF Pulled
<1>9. ASSUME NEW n \in 4..7, At(m, m.pc) = 48 + n
      PROVE  Exec(m, j) = Row3(i, n, 0)
  <2>1. At(m, m.pc) \notin {16, 17} /\ (48 + n) \div 16 = 3 /\ (48 + n) % 16 = n
    BY <1>9, SMT
  <2>2. PrefixCount(m) = 0 /\ Flag(m) = 0 /\ Opcode(m) = 48 + n
    BY <1>9, <2>1, NoPrefix DEF Ready
  <2>3. PrefixCount(m) + 1 = 1 /\ Opcode(m) \div 16 = 3 /\ Opcode(m) % 16 = n
    BY <2>1, <2>2, SMT
  <2> QED BY <1>3, <2>2, <2>3
<1>10. /\ Row3(i, 4, 0) = Pushed(i, "s") /\ Row3(i, 5, 0) = Pulled(i, "s")
       /\ Row3(i, 6, 0) = Pushed(i, "u") /\ Row3(i, 7, 0) = Pulled(i, "u")
  BY SMT DEF Row3
<1>11. At(m, m.pc) = (IF st = "s" THEN 52 ELSE 54) => Exec(m, j) = Pushed(i, st)
  <2>1. 48 + 4 = 52 /\ 48 + 6 = 54 /\ 4 \in 4..7 /\ 6 \in 4..7
    BY SMT
  <2> QED BY <1>9, <1>10, <2>1
<1>12. At(m, m.pc) = (IF st = "s" THEN 53 ELSE 55) => Exec(m, j) = Pulled(i, st)
  <2>1. 48 + 5 = 53 /\ 48 + 7 = 55 /\ 5 \in 4..7 /\ 7 \in 4..7
    BY SMT
  <2> QED BY <1>9, <1>10, <2>1
<1> QED BY <1>5, <1>7, <1>8, <1>11, <1>12 DEF i

(* The bytes behind a postbyte. *)
Extra(b) == IF b < 128 THEN 0
            ELSE IF b % 16 \in {8, 12} THEN 1
            ELSE IF b % 16 \in {9, 13, 15} THEN 2 ELSE 0

(* What a postbyte makes of the machine, without the address.              *)
LEMMA IndexedMachine ==
  ASSUME NEW m, NEW b \in Byte
  PROVE  LET r == IndexReg(b)
             i == IndexedMode(m, b)
         IN  \/ b % 16 \in {8, 12} /\ i.m = Skip(m, 1)
             \/ b % 16 \in {9, 13, 15} /\ i.m = Skip(m, 2)
             \/ /\ b % 16 \notin {8, 9, 12, 13, 15}
                /\ \/ i.m = m
                   \/ b % 16 \in 0..3 /\ \E d \in {1, 2, 65534, 65535} : i.m = Moved(m, r, d)
<1> DEFINE r == IndexReg(b)
<1> DEFINE i == IndexedMode(m, b)
<1> HIDE DEF r, i
<1>1. CASE b % 16 = 0
  <2>1. i.m = Moved(m, r, 1)
    BY <1>1, SMT DEF IndexedMode, IllegalModes, Operand, Moved, i, r
  <2> QED BY <1>1, <2>1, SMT DEF i, r
<1>2. CASE b % 16 = 1
  <2>1. i.m = Moved(m, r, 2)
    BY <1>2, SMT DEF IndexedMode, IllegalModes, Operand, Moved, i, r
  <2> QED BY <1>2, <2>1, SMT DEF i, r
<1>3. CASE b % 16 = 2
  <2>1. i.m = Moved(m, r, 65535)
    BY <1>3, SMT DEF IndexedMode, IllegalModes, Operand, Moved, i, r
  <2> QED BY <1>3, <2>1, SMT DEF i, r
<1>4. CASE b % 16 = 3
  <2>1. i.m = Moved(m, r, 65534)
    BY <1>4, SMT DEF IndexedMode, IllegalModes, Operand, Moved, i, r
  <2> QED BY <1>4, <2>1, SMT DEF i, r
<1>5. CASE b % 16 \in {4, 5, 6, 7, 10, 11, 14}
  <2>1. i.m = m
    BY <1>5, SMT DEF IndexedMode, IllegalModes, Operand, i, r
  <2> QED BY <1>5, <2>1, SMT DEF i, r
<1>6. CASE b % 16 \in {8, 12}
  <2>1. i.m = Skip(m, 1)
    BY <1>6, SMT DEF IndexedMode, IllegalModes, Operand, i, r
  <2> QED BY <1>6, <2>1, SMT DEF i, r
<1>7. CASE b % 16 \in {9, 13, 15}
  <2>1. i.m = Skip(m, 2)
    BY <1>7, SMT DEF IndexedMode, IllegalModes, Operand, EXTENDED, i, r
  <2> QED BY <1>7, <2>1, SMT DEF i, r
<1>8. b % 16 \in {0, 1, 2, 3, 4, 5, 6, 7, 8, 9, 10, 11, 12, 13, 14, 15}
  BY ByteDef, SMT
<1> QED BY <1>1, <1>2, <1>3, <1>4, <1>5, <1>6, <1>7, <1>8, SMT

(* The return address of a subroutine. *)
LEMMA SubroutinePushes ==
  ASSUME NEW m \in Machine, 2 <= m.s, m.s <= RomStart, NEW q \in Int
  PROVE  LET e == Subroutine(m, q) IN WordAt(e, e.s) = m.pc
<1> DEFINE n == Push(m, "s", "pc")
<1>1. n.s = m.s - 2 /\ WordAt(n, n.s) = m.pc
  <2>1. "pc" \in Frame(Other("s")) /\ "pc" \notin ByteRegs /\ "s" \in {"s", "u"}
    BY DEF Frame, ByteRegs
  <2>2. Taking({"pc"}, "pc") = 2
    BY <2>1 DEF Taking
  <2>3. n.s = m.s - 2 /\ Holds(n, n.s, "pc", m)
    BY <2>1, <2>2, PushEffect
  <2> QED BY <2>1, <2>3 DEF Holds
<1>2. n \in Machine
  BY PushType DEF WordRegs
<1> HIDE DEF n
<1>3. Subroutine(m, q) = Jump(n, q)
  BY DEF Subroutine, n
<1>4. Jump(n, q).s = n.s /\ Jump(n, q).mem = n.mem
  BY <1>2, MachineFields DEF Jump
<1>5. WordAt(Jump(n, q), n.s) = WordAt(n, n.s)
  BY <1>4 DEF WordAt, At
<1> QED BY <1>1, <1>3, <1>4, <1>5

(* An indexed operand: how far it is to the next instruction, and how far  *)
(* S may move.                                                             *)
LEMMA IndexedSteps ==
  ASSUME NEW m \in Machine, Ready(m, 4), 2 <= m.s, m.s + 2 <= 65535
  PROVE  LET o == INDEXED(m)
         IN  /\ o.m \in Machine /\ o.ea \in Word
             /\ o.m.pc = m.pc + 1 + Extra(At(m, m.pc))
             /\ o.m.s \in Int /\ m.s - 2 <= o.m.s /\ o.m.s <= m.s + 2
<1> DEFINE b == At(m, m.pc)
<1> DEFINE k == Skip(m, 1)
<1> DEFINE o == INDEXED(m)
<1> DEFINE i == IndexedMode(k, b)
<1> DEFINE Near(l, n) == /\ l.pc = k.pc + n
                         /\ l.s \in Int /\ m.s - 2 <= l.s /\ l.s <= m.s + 2
<1>1. b \in Byte
  BY MemoryType
<1>2. m.s \in Int /\ 0 <= m.s /\ m.s <= 65535
  <2>1. m.s \in Word
    BY FieldType DEF WordRegs
  <2> QED BY <2>1, WordDef
<1>3. k \in Machine /\ k.pc = m.pc + 1 /\ k.s = m.s
  <2>1. Ready(m, 1)
    BY SMT DEF Ready
  <2> QED BY <2>1, SkipFields DEF Fields
<1> HIDE DEF b, k
<1>4. Near(k, 0)
  <2>1. k.pc \in Int
    <3>1. k.pc \in Word
      BY <1>3, FieldType DEF WordRegs
    <3> QED BY <3>1, WordDef
  <2> QED BY <1>2, <1>3, <2>1, SMT
<1>5. \A n \in {1, 2} : Near(Skip(k, n), n)
  <2> SUFFICES ASSUME NEW n \in {1, 2} PROVE Near(Skip(k, n), n)
    OBVIOUS
  <2>1. DOMAIN k = Fields
    BY <1>3, MachineFields DEF Fields
  <2>2. Ready(k, n) /\ n \in Nat
    BY <1>3, <2>1, SMT DEF Ready
  <2>3. Skip(k, n).pc = k.pc + n /\ Skip(k, n).s = k.s
    BY <1>3, <2>2, SkipFields DEF Fields
  <2> QED BY <1>4, <2>3
<1>6. ASSUME NEW r \in {"x", "y", "u", "s"}, NEW d \in {1, 2, 65534, 65535}
      PROVE  Near(Moved(k, r, d), 0)
  <2> DEFINE w == (k[r] + d) % 65536
  <2> DEFINE l == [k EXCEPT ![r] = w]
  <2>1. Moved(k, r, d) = l
    BY DEF Moved
  <2>2. r = "s" => w \in Int /\ m.s - 2 <= w /\ w <= m.s + 2
    <3>1. (m.s + d) % 65536 \in Int /\ m.s - 2 <= (m.s + d) % 65536 /\ (m.s + d) % 65536 <= m.s + 2
      BY <1>2, SMT
    <3> QED BY <1>3, <3>1
  <2> HIDE DEF w
  <2>3. l.pc = k.pc /\ (r = "s" => l.s = w) /\ (r # "s" => l.s = k.s)
    BY <1>3, MachineFields
  <2> HIDE DEF l
  <2>4. Near(l, 0)
    BY <1>4, <2>2, <2>3
  <2> QED BY <2>1, <2>4
<1>7. IndexReg(b) \in {"x", "y", "u", "s"}
  BY <1>1, IndexRegType
<1> HIDE DEF i
<1>8. b >= 128 => Near(i.m, Extra(b))
  <2> SUFFICES ASSUME b >= 128 PROVE Near(i.m, Extra(b))
    OBVIOUS
  <2>1. ~(b < 128)
    BY <1>1, ByteDef, SMT
  <2> DEFINE r == IndexReg(b)
  <2>2. \/ b % 16 \in {8, 12} /\ i.m = Skip(k, 1)
        \/ b % 16 \in {9, 13, 15} /\ i.m = Skip(k, 2)
        \/ /\ b % 16 \notin {8, 9, 12, 13, 15}
           /\ i.m = k \/ \E d \in {1, 2, 65534, 65535} : i.m = Moved(k, r, d)
    BY <1>1, IndexedMachine DEF i
  <2> HIDE DEF r, Near
  <2>3. CASE b % 16 \in {8, 12} /\ i.m = Skip(k, 1)
    <3>1. Extra(b) = 1
      BY <2>1, <2>3 DEF Extra
    <3> QED BY <1>5, <2>3, <3>1
  <2>4. CASE b % 16 \in {9, 13, 15} /\ i.m = Skip(k, 2)
    <3>1. Extra(b) = 2
      BY <2>1, <2>4, SMT DEF Extra
    <3> QED BY <1>5, <2>4, <3>1
  <2>5. CASE /\ b % 16 \notin {8, 9, 12, 13, 15}
             /\ i.m = k \/ \E d \in {1, 2, 65534, 65535} : i.m = Moved(k, r, d)
    <3>1. Extra(b) = 0
      BY <2>1, <2>5, SMT DEF Extra
    <3> QED BY <1>4, <1>6, <1>7, <2>5, <3>1 DEF r
  <2> QED BY <2>2, <2>3, <2>4, <2>5
<1>9. o.m = IF b < 128 THEN k ELSE i.m
  <2>1. CASE b < 128
    <3>1. ~(b >= 128)
      BY <2>1, <1>1, ByteDef, SMT
    <3>2. o = Offset5(k, b)
      BY <2>1, <3>1 DEF INDEXED, b, k
    <3> QED BY <2>1, <3>2 DEF Offset5, Operand
  <2>2. CASE b >= 128 /\ (Bit(b, 16) = 0 \/ b % 16 \in IllegalModes)
    <3>1. ~(b < 128)
      BY <2>2, <1>1, ByteDef, SMT
    <3> QED BY <2>2, <3>1 DEF INDEXED, b, i, k
  <2>3. CASE b >= 128 /\ ~(Bit(b, 16) = 0 \/ b % 16 \in IllegalModes)
    <3>1. ~(b < 128)
      BY <2>3, <1>1, ByteDef, SMT
    <3>2. o = Indirect(i)
      BY <2>3, <3>1 DEF INDEXED, b, i, k
    <3> QED BY <3>1, <3>2 DEF Indirect, Operand
  <2>4. b < 128 \/ b >= 128
    BY <1>1, ByteDef, SMT
  <2> QED BY <2>1, <2>2, <2>3, <2>4
<1>10. Near(o.m, Extra(b))
  <2>1. CASE b < 128
    <3>1. Extra(b) = 0
      BY <2>1 DEF Extra
    <3> QED BY <1>4, <1>9, <2>1, <3>1
  <2>2. CASE ~(b < 128)
    <3>1. b >= 128
      BY <2>2, <1>1, ByteDef, SMT
    <3> QED BY <1>8, <1>9, <2>2, <3>1
  <2> QED BY <2>1, <2>2
<1>11. o.m \in Machine /\ o.ea \in Word
  BY IndexedType DEF OperandOK
<1> QED BY <1>3, <1>10, <1>11 DEF b

-----------------------------------------------------------------------------
(* The program counter behind an instruction. *)

(* A register other than the program counter, or the memory, replaced.     *)
LEMMA KeepsPc ==
  ASSUME NEW m \in Machine
  PROVE  /\ m.pc \in Word
         /\ \A f \in Fields \ {"pc"} : \A v : [m EXCEPT ![f] = v].pc = m.pc
         /\ \A q, v : SetByte(m, q, v).pc = m.pc
         /\ \A w : SetD(m, w).pc = m.pc
<1>1. DOMAIN m = Fields /\ m.pc \in Word
  BY MachineFields DEF Fields
<1>2. \A f \in Fields \ {"pc"} : \A v : [m EXCEPT ![f] = v].pc = m.pc
  BY <1>1 DEF Fields
<1>3. \A q, v : SetByte(m, q, v).pc = m.pc
  <2> SUFFICES ASSUME NEW q, NEW v PROVE SetByte(m, q, v).pc = m.pc
    OBVIOUS
  <2> DEFINE mem == [p \in DOMAIN m.mem \cup {q} |-> IF p = q THEN v ELSE m.mem[p]]
  <2>1. SetByte(m, q, v) = IF q >= RomStart THEN m ELSE [m EXCEPT !.mem = mem]
    BY DEF SetByte
  <2> HIDE DEF mem
  <2>2. [m EXCEPT !.mem = mem].pc = m.pc
    BY <1>2 DEF Fields
  <2> QED BY <2>1, <2>2
<1>4. \A w : SetD(m, w).pc = m.pc
  <2> SUFFICES ASSUME NEW w PROVE SetD(m, w).pc = m.pc
    OBVIOUS
  <2> DEFINE hi == Hi(w) 
             lo == Lo(w)
  <2>1. SetD(m, w) = [m EXCEPT !.a = hi, !.b = lo]
    BY DEF SetD
  <2> HIDE DEF hi, lo
  <2> QED BY <1>1, <2>1 DEF Fields
<1> QED BY <1>1, <1>2, <1>3, <1>4

(* A register other than the program counter set, a word stored.           *)
LEMMA SetKeepsPc ==
  ASSUME NEW m \in Machine, NEW w \in Word
  PROVE  /\ \A r \in ByteRegs \cup WordRegs \cup {"d"} : r # "pc" => SetReg(m, r, w).pc = m.pc
         /\ \A q \in Word : SetWord(m, q, w).pc = m.pc
<1>1. SetReg(m, "d", w) = SetD(m, w)
  BY DEF SetReg, ByteRegs
<1>2. SetReg(m, "cc", w) = [m EXCEPT !.cc = ByteCc(w % 256)]
  BY DEF SetReg
<1>3. \A r \in {"a", "b", "dp"} : SetReg(m, r, w) = [m EXCEPT ![r] = w % 256]
  BY DEF SetReg, ByteRegs
<1>4. \A r \in WordRegs : SetReg(m, r, w) = [m EXCEPT ![r] = w]
  BY DEF SetReg, ByteRegs, WordRegs
<1>5. \A r \in {"a", "b", "dp", "x", "y", "u", "s"} : \A v : [m EXCEPT ![r] = v].pc = m.pc
  <2>1. {"a", "b", "dp", "x", "y", "u", "s"} \subseteq Fields \ {"pc"}
    BY DEF Fields
  <2> QED BY <2>1, KeepsPc
<1>6. SetReg(m, "d", w).pc = m.pc /\ SetReg(m, "cc", w).pc = m.pc
  <2>1. \A c : [m EXCEPT !.cc = c].pc = m.pc
    BY KeepsPc DEF Fields
  <2>2. SetD(m, w).pc = m.pc
    BY KeepsPc
  <2> QED BY <1>1, <1>2, <2>1, <2>2
<1>7. \A r \in {"a", "b", "dp"} : SetReg(m, r, w).pc = m.pc
  <2> SUFFICES ASSUME NEW r \in {"a", "b", "dp"} PROVE SetReg(m, r, w).pc = m.pc
    OBVIOUS
  <2> DEFINE v == w % 256
  <2>1. SetReg(m, r, w) = [m EXCEPT ![r] = v]
    BY <1>3
  <2> HIDE DEF v
  <2> QED BY <1>5, <2>1
<1>8. \A r \in {"x", "y", "u", "s"} : SetReg(m, r, w).pc = m.pc
  <2> SUFFICES ASSUME NEW r \in {"x", "y", "u", "s"} PROVE SetReg(m, r, w).pc = m.pc
    OBVIOUS
  <2>1. SetReg(m, r, w) = [m EXCEPT ![r] = w]
    BY <1>4 DEF WordRegs
  <2> QED BY <1>5, <2>1
<1>9. \A r \in ByteRegs \cup WordRegs \cup {"d"} : r # "pc" => SetReg(m, r, w).pc = m.pc
  BY <1>6, <1>7, <1>8, Zenon DEF ByteRegs, WordRegs
<1>10. ASSUME NEW q \in Word PROVE SetWord(m, q, w).pc = m.pc
  <2> DEFINE k == SetByte(m, q, Hi(w))
  <2>1. k \in Machine /\ k.pc = m.pc
    BY WordHalves, SetByteType, KeepsPc
  <2>2. SetWord(m, q, w) = SetByte(k, (q + 1) % 65536, Lo(w))
    BY DEF SetWord
  <2> HIDE DEF k
  <2> QED BY <2>1, <2>2, KeepsPc
<1> QED BY <1>9, <1>10

(* What is pushed, and pulled into another register.                       *)
LEMMA StackKeepsPc ==
  ASSUME NEW m \in Machine, NEW st \in {"s", "u"}, NEW r \in ByteRegs \cup WordRegs
  PROVE  /\ Push(m, st, r).pc = m.pc
         /\ r # "pc" => Pull(m, st, r).pc = m.pc
<1>1. /\ m[st] \in Word
      /\ \A w \in Word : [m EXCEPT ![st] = w] \in Machine /\ [m EXCEPT ![st] = w].pc = m.pc
  BY FieldType, KeepsPc DEF WordRegs, Fields
<1>2. \A d \in Int : (m[st] + d) % 65536 \in Word
  BY <1>1, WordHalves
<1>3. ASSUME r \in ByteRegs PROVE Push(m, st, r).pc = m.pc
  <2> DEFINE p == (m[st] + 65535) % 65536
  <2> DEFINE n == [m EXCEPT ![st] = p]
  <2>1. Push(m, st, r) = SetByte(n, p, Reg(m, r))
    BY <1>3 DEF Push
  <2>2. p \in Word
    BY <1>2
  <2> HIDE DEF p
  <2>3. n \in Machine /\ n.pc = m.pc
    BY <1>1, <2>2
  <2> HIDE DEF n
  <2> QED BY <2>1, <2>3, KeepsPc
<1>4. ASSUME r \notin ByteRegs PROVE Push(m, st, r).pc = m.pc
  <2> DEFINE p == (m[st] + 65534) % 65536
  <2> DEFINE n == [m EXCEPT ![st] = p]
  <2>1. Push(m, st, r) = SetWord(n, p, n[r])
    BY <1>4 DEF Push
  <2>2. p \in Word
    BY <1>2
  <2> HIDE DEF p
  <2>3. n \in Machine /\ n.pc = m.pc
    BY <1>1, <2>2
  <2> HIDE DEF n
  <2>4. n[r] \in Word
    BY <1>4, <2>3, FieldType
  <2> QED BY <2>1, <2>2, <2>3, <2>4, SetKeepsPc
<1>5. ASSUME r \in ByteRegs PROVE Pull(m, st, r).pc = m.pc
  <2> DEFINE n == [m EXCEPT ![st] = (m[st] + 1) % 65536]
  <2>1. Pull(m, st, r) = SetReg(n, r, At(m, m[st]))
    BY <1>5 DEF Pull
  <2>2. n \in Machine /\ n.pc = m.pc
    BY <1>1, <1>2
  <2>3. At(m, m[st]) \in Word
    BY MemoryType, ByteDef, WordDef, SMT
  <2>4. r # "pc"
    BY <1>5 DEF ByteRegs
  <2> HIDE DEF n
  <2> QED BY <1>5, <2>1, <2>2, <2>3, <2>4, SetKeepsPc
<1>6. ASSUME r \notin ByteRegs, r # "pc" PROVE Pull(m, st, r).pc = m.pc
  <2> DEFINE n == [m EXCEPT ![st] = (m[st] + 2) % 65536]
  <2>1. Pull(m, st, r) = [n EXCEPT ![r] = WordAt(m, m[st])]
    BY <1>6 DEF Pull
  <2>2. n \in Machine /\ n.pc = m.pc
    BY <1>1, <1>2
  <2>3. r \in Fields \ {"pc"}
    BY <1>6 DEF WordRegs, Fields
  <2> HIDE DEF n
  <2> QED BY <2>1, <2>2, <2>3, KeepsPc
<1> QED BY <1>3, <1>4, <1>5, <1>6

(* Several registers.                                                      *)
LEMMA FrameKeepsPc ==
  ASSUME NEW m \in Machine, NEW st \in {"s", "u"}, NEW regs
  PROVE  /\ PushAll(m, st, Other(st), regs).pc = m.pc
         /\ "pc" \notin regs => PullAll(m, st, Other(st), regs).pc = m.pc
<1> DEFINE Kept(n) == n \in Machine /\ n.pc = m.pc
<1> DEFINE Pushing(r) == \A n : Kept(n) => Kept(PushIn(n, st, regs, r))
<1> DEFINE Pulling(r) == \A n : Kept(n) => Kept(PullIn(n, st, regs, r))
<1>1. \A r \in ByteRegs \cup WordRegs : Pushing(r)
  BY PushType, StackKeepsPc DEF PushIn
<1>2. ASSUME "pc" \notin regs PROVE \A r \in ByteRegs \cup WordRegs : Pulling(r)
  BY <1>2, PullType, StackKeepsPc DEF PullIn
<1>3. Other(st) \in WordRegs
  BY DEF Other, WordRegs
<1>4. {"pc", Other(st), "y", "x", "dp", "b", "a", "cc"} \subseteq ByteRegs \cup WordRegs
  BY <1>3 DEF ByteRegs, WordRegs
<1>5. Kept(PushAll(m, st, Other(st), regs))
  <2>1. /\ Pushing("pc") /\ Pushing(Other(st)) /\ Pushing("y") /\ Pushing("x")
        /\ Pushing("dp") /\ Pushing("b") /\ Pushing("a") /\ Pushing("cc")
    BY <1>1, <1>4
  <2>2. Kept(m)
    OBVIOUS
  <2> HIDE DEF Kept
  <2> QED BY <2>1, <2>2 DEF PushAll
<1>6. ASSUME "pc" \notin regs PROVE Kept(PullAll(m, st, Other(st), regs))
  <2>1. /\ Pulling("pc") /\ Pulling(Other(st)) /\ Pulling("y") /\ Pulling("x")
        /\ Pulling("dp") /\ Pulling("b") /\ Pulling("a") /\ Pulling("cc")
    BY <1>2, <1>4, <1>6
  <2>2. Kept(m)
    OBVIOUS
  <2> HIDE DEF Kept
  <2> QED BY <2>1, <2>2 DEF PullAll
<1> QED BY <1>5, <1>6

(* Results in registers and in memory.                                     *)
LEMMA IntoKeepsPc ==
  ASSUME NEW m \in Machine
  PROVE  /\ \A r \in {"a", "b"}, t \in Result8 : Into(m, r, t).pc = m.pc
         /\ \A q \in Word, t \in Result8 : IntoByte(m, q, t).pc = m.pc
         /\ \A t \in Result16 : IntoD(m, t).pc = m.pc
         /\ \A c : [m EXCEPT !.cc = c].pc = m.pc
<1>0. \A k \in Machine : \A c : [k EXCEPT !.cc = c].pc = k.pc
  BY KeepsPc DEF Fields
<1>1. ASSUME NEW r \in {"a", "b"}, NEW t \in Result8 PROVE Into(m, r, t).pc = m.pc
  <2> DEFINE k == [m EXCEPT ![r] = t.r]
  <2>1. t.r \in Byte
    BY DEF Result8
  <2>2. k \in Machine /\ k.pc = m.pc
    BY <2>1, FieldType, KeepsPc DEF Fields
  <2>3. Into(m, r, t) = [k EXCEPT !.cc = t.cc]
    BY DEF Into
  <2> HIDE DEF k
  <2> QED BY <1>0, <2>2, <2>3
<1>2. ASSUME NEW q \in Word, NEW t \in Result8 PROVE IntoByte(m, q, t).pc = m.pc
  <2> DEFINE k == SetByte(m, q, t.r)
  <2>1. t.r \in Byte
    BY DEF Result8
  <2>2. k \in Machine /\ k.pc = m.pc
    BY <2>1, SetByteType, KeepsPc
  <2>3. IntoByte(m, q, t) = [k EXCEPT !.cc = t.cc]
    BY DEF IntoByte
  <2> HIDE DEF k
  <2> QED BY <1>0, <2>2, <2>3
<1>3. ASSUME NEW t \in Result16 PROVE IntoD(m, t).pc = m.pc
  <2> DEFINE k == SetD(m, t.r)
  <2>1. t.r \in Word
    BY DEF Result16
  <2>2. k \in Machine /\ k.pc = m.pc
    BY <2>1, SetDType, KeepsPc
  <2>3. IntoD(m, t) = [k EXCEPT !.cc = t.cc]
    BY DEF IntoD
  <2> HIDE DEF k
  <2> QED BY <1>0, <2>2, <2>3
<1> QED BY <1>0, <1>1, <1>2, <1>3

(* Rows 0, 6 and 7, and the accumulators: all but JMP.                     *)
LEMMA UnaryKeepsPc ==
  ASSUME NEW n \in 0..15, n # 14
  PROVE  /\ \A o : OperandOK(o) => AtAddress(n, o).pc = o.m.pc
         /\ \A m \in Machine, r \in {"a", "b"} : OnRegister(m, n, r).pc = m.pc
<1> DEFINE op == UnaryOp[n + 1]
<1>0. op \in UnaryOps \cup {"ill", "JMP"}
  BY UnaryNames
<1>1. op \in UnaryOps \cup {"ill"}
  <2>1. \A j \in 1..16 : j # 15 => UnaryOp[j] # "JMP"
    BY SMT DEF UnaryOp
  <2>2. n + 1 \in 1..16 /\ n + 1 # 15
    BY SMT
  <2> QED BY <1>0, <2>1, <2>2
<1> HIDE DEF op
<1>2. ASSUME NEW o, OperandOK(o) PROVE AtAddress(n, o).pc = o.m.pc
  <2> DEFINE u == Unary(op, At(o.m, o.ea), o.m.cc)
  <2>1. o.m \in Machine /\ o.ea \in Word
    BY <1>2 DEF OperandOK
  <2>2. op \in UnaryOps => u \in Result8
    BY <2>1, FieldType, MemoryType, UnaryType
  <2>3. CASE op = "ill"
    <3>1. AtAddress(n, o) = o.m
      BY <2>3 DEF AtAddress, op
    <3> QED BY <3>1
  <2>4. CASE op = "TST"
    <3>1. AtAddress(n, o) = [o.m EXCEPT !.cc = u.cc]
      BY <2>4 DEF AtAddress, op
    <3> QED BY <2>1, <3>1, IntoKeepsPc
  <2>5. CASE op \in UnaryOps /\ op # "TST"
    <3>1. op # "ill" /\ op # "JMP" /\ op # "TST"
      BY <2>5 DEF UnaryOps
    <3>2. AtAddress(n, o) = IntoByte(o.m, o.ea, u)
      BY <3>1 DEF AtAddress, op
    <3> HIDE DEF u
    <3> QED BY <2>1, <2>2, <2>5, <3>2, IntoKeepsPc
  <2> QED BY <1>1, <2>3, <2>4, <2>5
<1>3. ASSUME NEW m \in Machine, NEW r \in {"a", "b"} PROVE OnRegister(m, n, r).pc = m.pc
  <2> DEFINE u == Unary(op, m[r], m.cc)
  <2>1. m[r] \in Byte /\ m.cc \in SUBSET Flags
    BY FieldType
  <2>2. CASE op = "ill"
    BY <2>2 DEF OnRegister, op
  <2>3. CASE op \in UnaryOps
    <3>1. u \in Result8
      BY <2>1, <2>3, UnaryType
    <3>2. op # "ill" /\ op # "JMP"
      BY <2>3 DEF UnaryOps
    <3>3. OnRegister(m, n, r) = Into(m, r, u)
      BY <3>2 DEF OnRegister, op
    <3> HIDE DEF u
    <3> QED BY <3>1, <3>3, IntoKeepsPc
  <2> QED BY <1>1, <2>2, <2>3
<1> QED BY <1>2, <1>3

(* The operations on A and B.                                              *)
LEMMA AccumulatorKeepsPc ==
  ASSUME NEW n \in 0..15, n \notin {3, 12, 13, 14, 15},
         NEW o, OperandOK(o), NEW r \in {"a", "b"}
  PROVE  Accumulator(n, o, r).pc = o.m.pc
<1>1. o.m \in Machine /\ o.ea \in Word
  BY DEF OperandOK
<1>2. o.m[r] \in Byte /\ o.m.cc \in SUBSET Flags /\ At(o.m, o.ea) \in Byte
  BY <1>1, FieldType, MemoryType
<1>3. CASE n = 7
  <2> DEFINE k == SetByte(o.m, o.ea, o.m[r])
  <2> DEFINE c == SetNZ8(k.cc \ {"V"}, o.m[r])
  <2>1. k \in Machine /\ k.pc = o.m.pc
    BY <1>1, <1>2, SetByteType, KeepsPc
  <2>2. Accumulator(n, o, r) = [k EXCEPT !.cc = c]
    BY <1>3 DEF Accumulator
  <2> HIDE DEF k, c
  <2> QED BY <2>1, <2>2, IntoKeepsPc
<1>4. CASE n # 7
  <2> DEFINE t == Binary(BinaryOp[n + 1], o.m[r], At(o.m, o.ea), o.m.cc)
  <2>1. t \in Result8
    BY <1>2, <1>4, BinaryNames, BinaryType
  <2>2. Accumulator(n, o, r) = Into(o.m, r, t)
    BY <1>4 DEF Accumulator
  <2> HIDE DEF t
  <2> QED BY <1>1, <2>1, <2>2, IntoKeepsPc
<1> QED BY <1>3, <1>4

(* Loads, stores and comparisons of words, and sums of D.                  *)
LEMMA Word16KeepsPc ==
  ASSUME NEW o, OperandOK(o)
  PROVE  /\ \A r \in {"x", "y", "u", "s", "d"} :
              /\ Load16(o, r).pc = o.m.pc /\ Store16(o, r).pc = o.m.pc
              /\ Compare16(o, r).pc = o.m.pc
         /\ IntoD(o.m, Sub16(D(o.m), WordAt(o.m, o.ea), o.m.cc)).pc = o.m.pc
         /\ IntoD(o.m, Add16(D(o.m), WordAt(o.m, o.ea), o.m.cc)).pc = o.m.pc
<1>1. o.m \in Machine /\ o.ea \in Word
  BY DEF OperandOK
<1>2. ASSUME NEW r \in {"x", "y", "u", "s", "d"}
      PROVE  /\ Load16(o, r).pc = o.m.pc /\ Store16(o, r).pc = o.m.pc
             /\ Compare16(o, r).pc = o.m.pc
  <2>1. r \in WordRegs \cup {"d"} /\ r # "pc"
    BY DEF WordRegs
  <2>2. WordAt(o.m, o.ea) \in Word /\ Reg(o.m, r) \in Word
    BY <1>1, <2>1, MemoryType, RegType
  <2>3. Load16(o, r).pc = o.m.pc
    <3> DEFINE k == SetReg(o.m, r, WordAt(o.m, o.ea))
    <3> DEFINE c == Move16(WordAt(o.m, o.ea), k.cc)
    <3>1. k \in Machine /\ k.pc = o.m.pc
      BY <1>1, <2>1, <2>2, SetRegType, SetKeepsPc
    <3>2. Load16(o, r) = [k EXCEPT !.cc = c]
      BY DEF Load16
    <3> HIDE DEF k, c
    <3> QED BY <3>1, <3>2, IntoKeepsPc
  <2>4. Store16(o, r).pc = o.m.pc
    <3> DEFINE k == SetWord(o.m, o.ea, Reg(o.m, r))
    <3> DEFINE c == Move16(Reg(o.m, r), k.cc)
    <3>1. k \in Machine /\ k.pc = o.m.pc
      BY <1>1, <2>2, SetWordType, SetKeepsPc
    <3>2. Store16(o, r) = [k EXCEPT !.cc = c]
      BY DEF Store16
    <3> HIDE DEF k, c
    <3> QED BY <3>1, <3>2, IntoKeepsPc
  <2>5. Compare16(o, r).pc = o.m.pc
    <3> DEFINE c == Sub16(Reg(o.m, r), WordAt(o.m, o.ea), o.m.cc).cc
    <3>1. Compare16(o, r) = [o.m EXCEPT !.cc = c]
      BY DEF Compare16
    <3> HIDE DEF c
    <3> QED BY <1>1, <3>1, IntoKeepsPc
  <2> QED BY <2>3, <2>4, <2>5
<1>3. D(o.m) \in Word /\ WordAt(o.m, o.ea) \in Word /\ o.m.cc \in SUBSET Flags /\ o.m.a \in Byte
  BY <1>1, MemoryType, RegType, FieldType
<1>4. /\ Sub16(D(o.m), WordAt(o.m, o.ea), o.m.cc) \in Result16
      /\ Add16(D(o.m), WordAt(o.m, o.ea), o.m.cc) \in Result16
  BY <1>3, WideType
<1> QED BY <1>1, <1>2, <1>4, IntoKeepsPc

(* Opcodes $80 to $FF, but for the calls.                                  *)
LEMMA ColumnsKeepPc ==
  ASSUME NEW n \in 0..15, NEW o, OperandOK(o), NEW flag \in {0, 1, 2}
  PROVE  /\ n # 13 => ColumnA(n, o, flag).pc = o.m.pc
         /\ ColumnB(n, o, flag).pc = o.m.pc
<1>1. /\ \A r \in {"x", "y", "u", "s", "d"} :
           /\ Load16(o, r).pc = o.m.pc /\ Store16(o, r).pc = o.m.pc
           /\ Compare16(o, r).pc = o.m.pc
      /\ IntoD(o.m, Sub16(D(o.m), WordAt(o.m, o.ea), o.m.cc)).pc = o.m.pc
      /\ IntoD(o.m, Add16(D(o.m), WordAt(o.m, o.ea), o.m.cc)).pc = o.m.pc
  BY Word16KeepsPc
<1>2. CASE n = 3
  <2>1. n # 12 /\ n # 13 /\ n # 14 /\ n # 15
    BY <1>2
  <2>2. ColumnB(n, o, flag) = IntoD(o.m, Add16(D(o.m), WordAt(o.m, o.ea), o.m.cc))
    BY <1>2, <2>1 DEF ColumnB
  <2>3. CASE flag = 0
    <3>1. ~(flag # 0)
      BY <2>3
    <3>2. ColumnA(n, o, flag) = IntoD(o.m, Sub16(D(o.m), WordAt(o.m, o.ea), o.m.cc))
      BY <1>2, <2>1, <2>3, <3>1 DEF ColumnA
    <3> QED BY <1>1, <2>2, <3>2
  <2>4. CASE flag # 0
    <3>1. ~(flag = 0)
      BY <2>4
    <3>2. ColumnA(n, o, flag) = Compare16(o, IF flag = 2 THEN "u" ELSE "d")
      BY <1>2, <2>1, <2>4, <3>1 DEF ColumnA
    <3> QED BY <1>1, <2>2, <3>2
  <2> QED BY <2>3, <2>4
<1>3. CASE n = 12
  <2>1. n # 3 /\ n # 13 /\ n # 14 /\ n # 15
    BY <1>3
  <2>2. ColumnA(n, o, flag) = Compare16(o, <<"x", "y", "s">>[flag + 1])
    BY <1>3, <2>1 DEF ColumnA
  <2>3. <<"x", "y", "s">>[flag + 1] \in {"x", "y", "u", "s", "d"}
    BY SMT
  <2>4. ColumnB(n, o, flag) = Load16(o, "d")
    BY <1>3, <2>1 DEF ColumnB
  <2> QED BY <1>1, <2>2, <2>3, <2>4
<1>4. CASE n = 13
  <2>1. n # 3 /\ n # 12 /\ n # 14 /\ n # 15
    BY <1>4
  <2>2. ColumnB(n, o, flag) = Store16(o, "d")
    BY <1>4, <2>1 DEF ColumnB
  <2> QED BY <1>1, <1>4, <2>2
<1>5. CASE n = 14
  <2>1. n # 3 /\ n # 12 /\ n # 13 /\ n # 15
    BY <1>5
  <2>2. ColumnA(n, o, flag) = Load16(o, IF flag = 0 THEN "x" ELSE "y")
    BY <1>5, <2>1 DEF ColumnA
  <2>3. ColumnB(n, o, flag) = Load16(o, IF flag = 0 THEN "u" ELSE "s")
    BY <1>5, <2>1 DEF ColumnB
  <2> QED BY <1>1, <2>2, <2>3
<1>6. CASE n = 15
  <2>1. n # 3 /\ n # 12 /\ n # 13 /\ n # 14
    BY <1>6
  <2>2. ColumnA(n, o, flag) = Store16(o, IF flag = 0 THEN "x" ELSE "y")
    BY <1>6, <2>1 DEF ColumnA
  <2>3. ColumnB(n, o, flag) = Store16(o, IF flag = 0 THEN "u" ELSE "s")
    BY <1>6, <2>1 DEF ColumnB
  <2> QED BY <1>1, <2>2, <2>3
<1>7. CASE n \notin {3, 12, 13, 14, 15}
  <2>1. n # 3 /\ n # 12 /\ n # 13 /\ n # 14 /\ n # 15
    BY <1>7
  <2>2. ColumnA(n, o, flag) = Accumulator(n, o, "a")
    BY <2>1 DEF ColumnA
  <2>3. ColumnB(n, o, flag) = Accumulator(n, o, "b")
    BY <2>1 DEF ColumnB
  <2> QED BY <1>7, <2>2, <2>3, AccumulatorKeepsPc
<1> QED BY <1>2, <1>3, <1>4, <1>5, <1>6, <1>7

(* How far a skip goes, modulo the address space.                          *)
LEMMA SkipPc ==
  ASSUME NEW m \in Machine, NEW d \in Int
  PROVE  Skip(m, d) \in Machine /\ Skip(m, d).pc = (m.pc + d) % 65536
<1> DEFINE w == (m.pc + d) % 65536
<1>1. Skip(m, d) = [m EXCEPT !.pc = w]
  BY DEF Skip
<1> HIDE DEF w
<1>2. Skip(m, d).pc = w
  BY <1>1, MachineFields
<1> QED BY <1>2, SkipType DEF w

(* What an operand leaves behind itself, modulo the address space.         *)
LEMMA OperandPc ==
  ASSUME NEW m \in Machine
  PROVE  /\ IMM8(m).m.pc = (m.pc + 1) % 65536 /\ IMM16(m).m.pc = (m.pc + 2) % 65536
         /\ DIRECT(m).m.pc = (m.pc + 1) % 65536 /\ EXTENDED(m).m.pc = (m.pc + 2) % 65536
         /\ INDEXED(m).m.pc = (m.pc + 1 + Extra(At(m, m.pc))) % 65536
<1>1. /\ IMM8(m).m = Skip(m, 1) /\ IMM16(m).m = Skip(m, 2)
      /\ DIRECT(m).m = Skip(m, 1) /\ EXTENDED(m).m = Skip(m, 2)
  BY DEF IMM8, IMM16, DIRECT, EXTENDED, Operand
<1> DEFINE b == At(m, m.pc)
<1> DEFINE k == Skip(m, 1)
<1> DEFINE o == INDEXED(m)
<1> DEFINE i == IndexedMode(k, b)
<1>2. b \in Byte
  BY MemoryType
<1>3. k \in Machine /\ k.pc = (m.pc + 1) % 65536
  BY SkipPc
<1>4. m.pc \in Int /\ k.pc \in Int /\ 0 <= k.pc /\ k.pc <= 65535
  <2>1. m.pc \in Word /\ k.pc \in Word
    BY <1>3, FieldType DEF WordRegs
  <2> QED BY <2>1, WordDef
<1> HIDE DEF b, k
<1>11. Skip(k, 1).pc = (k.pc + 1) % 65536 /\ Skip(k, 2).pc = (k.pc + 2) % 65536
  <2>0. k \in Machine
    BY <1>3
  <2>1. ASSUME NEW d \in Int PROVE Skip(k, d).pc = (k.pc + d) % 65536
    BY <2>0, SkipPc
  <2>2. 1 \in Int /\ 2 \in Int
    OBVIOUS
  <2> QED BY <2>1, <2>2
<1>5. \A r \in {"x", "y", "u", "s"}, d \in Int : Moved(k, r, d).pc = k.pc
  <2>1. \A r \in {"x", "y", "u", "s"} : \A v : [k EXCEPT ![r] = v].pc = k.pc
    BY <1>3, KeepsPc DEF Fields
  <2> QED BY <2>1 DEF Moved
<1>6. IndexReg(b) \in {"x", "y", "u", "s"}
  BY <1>2, IndexRegType
<1> HIDE DEF i
<1>7. b >= 128 => i.m.pc = (k.pc + Extra(b)) % 65536
  <2> SUFFICES ASSUME b >= 128 PROVE i.m.pc = (k.pc + Extra(b)) % 65536
    OBVIOUS
  <2>1. ~(b < 128)
    BY <1>2, ByteDef, SMT
  <2> DEFINE r == IndexReg(b)
  <2>2. \/ b % 16 \in {8, 12} /\ i.m = Skip(k, 1)
        \/ b % 16 \in {9, 13, 15} /\ i.m = Skip(k, 2)
        \/ /\ b % 16 \notin {8, 9, 12, 13, 15}
           /\ i.m = k \/ \E d \in {1, 2, 65534, 65535} : i.m = Moved(k, r, d)
    BY <1>2, IndexedMachine DEF i
  <2> HIDE DEF r
  <2>3. CASE b % 16 \in {8, 12} /\ i.m = Skip(k, 1)
    <3>1. Extra(b) = 1
      BY <2>1, <2>3 DEF Extra
    <3> QED BY <1>11, <2>3, <3>1
  <2>4. CASE b % 16 \in {9, 13, 15} /\ i.m = Skip(k, 2)
    <3>1. Extra(b) = 2
      BY <2>1, <2>4, SMT DEF Extra
    <3> QED BY <1>11, <2>4, <3>1
  <2>5. CASE /\ b % 16 \notin {8, 9, 12, 13, 15}
             /\ i.m = k \/ \E d \in {1, 2, 65534, 65535} : i.m = Moved(k, r, d)
    <3>1. Extra(b) = 0
      BY <2>1, <2>5, SMT DEF Extra
    <3>2. i.m.pc = k.pc
      BY <1>5, <1>6, <2>5 DEF r
    <3>3. k.pc = (k.pc + 0) % 65536
      BY <1>4, SMT
    <3> QED BY <3>1, <3>2, <3>3
  <2> QED BY <2>2, <2>3, <2>4, <2>5
<1>8. o.m = IF b < 128 THEN k ELSE i.m
  <2>1. CASE b < 128
    <3>1. ~(b >= 128)
      BY <2>1, <1>2, ByteDef, SMT
    <3>2. o = Offset5(k, b)
      BY <2>1, <3>1 DEF INDEXED, b, k
    <3> QED BY <2>1, <3>2 DEF Offset5, Operand
  <2>2. CASE b >= 128 /\ (Bit(b, 16) = 0 \/ b % 16 \in IllegalModes)
    <3>1. ~(b < 128)
      BY <2>2, <1>2, ByteDef, SMT
    <3> QED BY <2>2, <3>1 DEF INDEXED, b, i, k
  <2>3. CASE b >= 128 /\ ~(Bit(b, 16) = 0 \/ b % 16 \in IllegalModes)
    <3>1. ~(b < 128)
      BY <2>3, <1>2, ByteDef, SMT
    <3>2. o = Indirect(i)
      BY <2>3, <3>1 DEF INDEXED, b, i, k
    <3> QED BY <3>1, <3>2 DEF Indirect, Operand
  <2>4. b < 128 \/ b >= 128
    BY <1>2, ByteDef, SMT
  <2> QED BY <2>1, <2>2, <2>3, <2>4
<1>9. o.m.pc = (k.pc + Extra(b)) % 65536
  <2>1. CASE b < 128
    <3>1. Extra(b) = 0
      BY <2>1 DEF Extra
    <3>2. k.pc = (k.pc + 0) % 65536
      BY <1>4, SMT
    <3> QED BY <1>8, <2>1, <3>1, <3>2
  <2>2. CASE ~(b < 128)
    <3>1. b >= 128
      BY <2>2, <1>2, ByteDef, SMT
    <3> QED BY <1>7, <1>8, <2>2, <3>1
  <2> QED BY <2>1, <2>2
<1>10. o.m.pc = (m.pc + 1 + Extra(b)) % 65536
  <2>1. Extra(b) \in {0, 1, 2}
    BY DEF Extra
  <2> HIDE DEF o
  <2> QED BY <1>3, <1>4, <1>9, <2>1, SMT
<1> QED BY <1>1, <1>10, SkipPc DEF b

(* The bytes behind an opcode: what they are decoded as in engine.c, but   *)
(* for opcodes of the rows 0 and 7 that stand for no instruction.          *)
Following(op, b, flag) ==
    LET n == op % 16
        row == op \div 16
    IN  IF row \in {6, 10, 14} \/ op \in 48..51 THEN 1 + Extra(b)
        ELSE IF row \in {4, 5} \/ op \in 56..63 \/ (row = 1 /\ n \notin {6, 7, 10, 12, 14, 15})
               THEN 0
        ELSE IF \/ row \in {7, 11, 15} \/ op \in {22, 23} \/ (row = 2 /\ flag # 0)
                \/ (row \in {8, 12} /\ n \in {3, 12, 13, 14, 15})
               THEN 2
        ELSE 1

(* So many bytes behind the program counter.                               *)
Past(m, k) == (m.pc + k) % 65536

(* What sets a register that is not the program counter.                   *)
LEMMA TransferKeepsPc ==
  ASSUME NEW m \in Machine, NEW code \in (0..15) \ {5}, NEW w \in Word
  PROVE  SETREG(m, code, w) \in Machine /\ SETREG(m, code, w).pc = m.pc
<1> DEFINE r == RegCode[code + 1]
<1>1. r \in ByteRegs \cup WordRegs \cup {"d", "none"}
  BY RegCodes
<1>2. r # "pc"
  <2>1. \A n \in 1..16 : n # 6 => RegCode[n] # "pc"
    BY SMT DEF RegCode
  <2>2. code + 1 \in 1..16 /\ code + 1 # 6
    BY SMT
  <2> QED BY <2>1, <2>2
<1> HIDE DEF r
<1>3. r # "none" => SetReg(m, r, w).pc = m.pc
  BY <1>1, <1>2, SetKeepsPc
<1> QED BY <1>3, TransferType DEF SETREG, r

(* What TFR and EXG move.                                                  *)
LEMMA MovedWord ==
  ASSUME NEW m \in Machine, NEW junk \in Word, NEW code \in 0..15
  PROVE  GETREG(m, code, junk) \in Word
BY TransferType

(* LBRA to TFR, but for the branches and what sets the program counter.    *)
LEMMA Row1Pc ==
  ASSUME NEW m \in Machine, NEW n \in 0..15, NEW junk \in Word, n \notin {6, 7},
         n = 14 => At(m, m.pc) \div 16 # 5 /\ At(m, m.pc) % 16 # 5,
         n = 15 => At(m, m.pc) % 16 # 5
  PROVE  Row1(m, n, junk).pc = IF n \in {10, 12, 14, 15} THEN (m.pc + 1) % 65536 ELSE m.pc
<1> DEFINE b == At(m, m.pc)
<1> DEFINE i == Skip(m, 1)
<1> DEFINE row == Row1(m, n, junk)
<1>1. b \in Byte /\ i \in Machine /\ i.pc = (m.pc + 1) % 65536
  BY MemoryType, SkipPc
<1> HIDE DEF b, i, row
<1> DEFINE hi == b \div 16
<1> DEFINE lo == b % 16
<1>2. hi \in 0..15 /\ lo \in 0..15
  BY <1>1, ByteDef, SMT
<1> HIDE DEF hi, lo
<1>3. CASE n \in {10, 12, 14, 15}
  <2>1. row.pc = i.pc
    <3>1. CASE n \in {10, 12}
      <4>1. \E x : row = [i EXCEPT !.cc = ByteCc(x)]
        <5>1. n = 10 => row = [i EXCEPT !.cc = ByteCc(Or(CcByte(@), b))]
          BY SMT DEF Row1, row, i, b
        <5>2. n = 12 => row = [i EXCEPT !.cc = ByteCc(And(CcByte(@), b))]
          BY SMT DEF Row1, row, i, b
        <5> QED BY <3>1, <5>1, <5>2
      <4> QED BY <1>1, <4>1, IntoKeepsPc
    <3>2. CASE n = 14
      <4>1. row = SETREG(SETREG(i, hi, GETREG(i, lo, junk)), lo, GETREG(i, hi, junk))
        BY <3>2, SMT DEF Row1, row, i, b, hi, lo
      <4>2. hi \in (0..15) \ {5} /\ lo \in (0..15) \ {5}
        BY <1>2, <3>2 DEF b, hi, lo
      <4>3. PICK v1 \in Word : v1 = GETREG(i, lo, junk)
        BY <1>1, <1>2, MovedWord
      <4>4. PICK v2 \in Word : v2 = GETREG(i, hi, junk)
        BY <1>1, <1>2, MovedWord
      <4>5. PICK k \in Machine : k = SETREG(i, hi, v1) /\ k.pc = i.pc
        <5>1. SETREG(i, hi, v1) \in Machine
          BY <1>1, <4>2, TransferKeepsPc
        <5>2. SETREG(i, hi, v1).pc = i.pc
          BY <1>1, <4>2, TransferKeepsPc
        <5> QED BY <5>1, <5>2
      <4>6. row = SETREG(k, lo, v2)
        BY <4>1, <4>3, <4>4, <4>5
      <4> QED BY <1>2, <4>2, <4>5, <4>6, TransferKeepsPc
    <3>3. CASE n = 15
      <4>1. row = SETREG(i, lo, GETREG(i, hi, junk))
        BY <3>3, SMT DEF Row1, row, i, b, hi, lo
      <4>2. lo \in (0..15) \ {5}
        BY <1>2, <3>3 DEF b, lo
      <4>3. PICK v \in Word : v = GETREG(i, hi, junk)
        BY <1>1, <1>2, MovedWord
      <4> QED BY <1>1, <1>2, <4>1, <4>2, <4>3, TransferKeepsPc
    <3> QED BY <1>3, <3>1, <3>2, <3>3
  <2> QED BY <1>1, <1>3, <2>1 DEF row
<1>4. CASE n \notin {10, 12, 14, 15}
  <2>1. row.pc = m.pc
    <3>1. CASE n = 9
      <4> DEFINE t == Daa(m.a, m.cc)
      <4>1. t \in Result8
        <5>1. m.a \in Byte /\ m.cc \in SUBSET Flags /\ 0 \in Word
          BY FieldType, WordDef
        <5> QED BY <5>1, WideType
      <4>2. row = Into(m, "a", t)
        BY <3>1, SMT DEF Row1, row
      <4> HIDE DEF t
      <4> QED BY <4>1, <4>2, IntoKeepsPc
    <3>2. CASE n = 13
      <4> DEFINE t == Sex(m.b, m.cc)
      <4>1. t \in Result16
        <5>1. m.b \in Byte /\ m.cc \in SUBSET Flags /\ 0 \in Word
          BY FieldType, WordDef
        <5> QED BY <5>1, WideType
      <4>2. row = IntoD(m, t)
        BY <3>2, SMT DEF Row1, row
      <4> HIDE DEF t
      <4> QED BY <4>1, <4>2, IntoKeepsPc
    <3>3. CASE n \in {0, 1, 2, 3, 4, 5, 8, 11}
      <4>1. row = m
        BY <3>3, SMT DEF Row1, row
      <4> QED BY <4>1
    <3> QED BY <1>4, <3>1, <3>2, <3>3, SMT
  <2> QED BY <1>4, <2>1 DEF row
<1> QED BY <1>3, <1>4

(* The branches: to the place they name, or to the next instruction.       *)
LEMMA Row2Pc ==
  ASSUME NEW m \in Machine, NEW n, NEW flag
  PROVE  LET len == IF flag = 0 THEN 1 ELSE 2
             d == IF flag = 0 THEN Signed(At(m, m.pc)) ELSE WordAt(m, m.pc)
         IN  Row2(m, n, flag).pc =
               (m.pc + len + IF Taken(n, m.cc) THEN d ELSE 0) % 65536
<1> DEFINE len == IF flag = 0 THEN 1 ELSE 2
<1> DEFINE next == Skip(m, len)
<1> DEFINE d == IF flag = 0 THEN Signed(At(m, m.pc)) ELSE WordAt(m, m.pc)
<1>1. len \in {1, 2}
  OBVIOUS
<1>2. d \in Int
  <2>1. At(m, m.pc) \in Byte /\ WordAt(m, m.pc) \in Word
    BY MemoryType
  <2> QED BY <2>1, ByteDef, WordDef, SMT DEF Signed
<1>3. m.pc \in Int
  <2>1. m.pc \in Word
    BY FieldType DEF WordRegs
  <2> QED BY <2>1, WordDef
<1>4. Row2(m, n, flag) = IF Taken(n, m.cc) THEN Jump(next, next.pc + d) ELSE next
  BY DEF Row2
<1> HIDE DEF len, d
<1>5. next \in Machine /\ next.pc = (m.pc + len) % 65536
  BY <1>1, SkipPc
<1> HIDE DEF next
<1>6. \A q : Jump(next, q).pc = q % 65536
  BY <1>5, MachineFields DEF Jump
<1>7. CASE Taken(n, m.cc)
  <2>1. Row2(m, n, flag).pc = (((m.pc + len) % 65536) + d) % 65536
    BY <1>4, <1>5, <1>6, <1>7
  <2>2. (((m.pc + len) % 65536) + d) % 65536 = (m.pc + len + d) % 65536
    BY <1>1, <1>2, <1>3, SMT
  <2> QED BY <1>7, <2>1, <2>2 DEF len, d
<1>8. CASE ~Taken(n, m.cc)
  <2>1. Row2(m, n, flag).pc = (m.pc + len) % 65536
    BY <1>4, <1>5, <1>8
  <2>2. m.pc + len = m.pc + len + 0
    BY <1>1, <1>3, SMT
  <2> QED BY <1>8, <2>1, <2>2 DEF len, d
<1> QED BY <1>7, <1>8

(* LEA, the stacks, ABX and MUL; not what pulls the program counter.       *)
LEMMA Row3Pc ==
  ASSUME NEW m \in Machine, NEW n \in 0..15, NEW flag, n \notin {9, 11, 15},
         n \in {5, 7} => At(m, m.pc) < 128
  PROVE  Row3(m, n, flag).pc =
           IF n \in 0..3 THEN (m.pc + 1 + Extra(At(m, m.pc))) % 65536
           ELSE IF n \in 4..7 THEN (m.pc + 1) % 65536 ELSE m.pc
<1> DEFINE row == Row3(m, n, flag)
<1> HIDE DEF row
<1>1. CASE n \in 0..3
  <2> DEFINE o == INDEXED(m)
  <2> DEFINE r == <<"x", "y", "s", "u">>[n + 1]
  <2> DEFINE k == [o.m EXCEPT ![r] = o.ea]
  <2> DEFINE c == IF n < 2 THEN Put(o.m.cc, "Z", o.ea = 0) ELSE o.m.cc
  <2>1. row = LEA(n, o)
    BY <1>1, SMT DEF Row3, row
  <2>2. o.m \in Machine /\ o.ea \in Word
    BY IndexedType DEF OperandOK
  <2>3. r \in WordRegs /\ r \in Fields \ {"pc"}
    <3>1. n + 1 \in 1..4 /\ \A i \in 1..4 : <<"x", "y", "s", "u">>[i] \in {"x", "y", "s", "u"}
      BY <1>1, SMT
    <3> QED BY <3>1 DEF WordRegs, Fields
  <2>4. LEA(n, o) = [k EXCEPT !.cc = c]
    BY DEF LEA
  <2>5. o.m.pc = (m.pc + 1 + Extra(At(m, m.pc))) % 65536
    BY OperandPc
  <2> HIDE DEF r, o
  <2>6. k \in Machine /\ k.pc = o.m.pc
    BY <2>2, <2>3, FieldType, KeepsPc
  <2> HIDE DEF k, c
  <2>7. row.pc = o.m.pc
    BY <2>1, <2>4, <2>6, IntoKeepsPc
  <2> QED BY <1>1, <2>5, <2>7 DEF row
<1>2. CASE n \in 4..7
  <2> DEFINE i == Skip(m, 1)
  <2> DEFINE b == At(m, m.pc)
  <2>1. i \in Machine /\ i.pc = (m.pc + 1) % 65536 /\ b \in Byte
    BY SkipPc, MemoryType
  <2> HIDE DEF i, b
  <2>2. \A st \in {"s", "u"} : PushAll(i, st, Other(st), Listed(b, Other(st))).pc = i.pc
    BY <2>1, FrameKeepsPc
  <2>3. ASSUME b < 128
        PROVE  \A st \in {"s", "u"} : PullAll(i, st, Other(st), Listed(b, Other(st))).pc = i.pc
    <3>1. Bit(b, 128) # 1
      BY <2>1, <2>3, ByteDef, SMT DEF Bit
    <3>2. \A other : "pc" \notin Listed(b, other)
      BY <3>1 DEF Listed, StackMask
    <3> QED BY <2>1, <3>2, FrameKeepsPc
  <2>4. /\ n = 4 => row = Pushed(m, "s") /\ n # 5 /\ n # 6 /\ n # 7
        /\ n = 5 => row = Pulled(m, "s")
        /\ n = 6 => row = Pushed(m, "u")
        /\ n = 7 => row = Pulled(m, "u")
    BY SMT DEF Row3, row
  <2>5. /\ \A st : Pushed(m, st) = PushAll(i, st, Other(st), Listed(b, Other(st)))
        /\ \A st : Pulled(m, st) = PullAll(i, st, Other(st), Listed(b, Other(st)))
    BY DEF Pushed, Pulled, i, b
  <2>6. row.pc = i.pc
    <3>1. CASE n \in {4, 6}
      BY <2>2, <2>4, <2>5, <3>1
    <3>2. CASE n \in {5, 7}
      BY <2>3, <2>4, <2>5, <3>2 DEF b
    <3> QED BY <1>2, <3>1, <3>2
  <2>7. ~(n \in 0..3)
    BY <1>2
  <2> QED BY <1>2, <2>1, <2>6, <2>7 DEF row
<1>3. CASE n \in {8, 10, 12, 13, 14}
  <2>1. row.pc = m.pc
    <3>1. CASE n = 10
      <4> DEFINE w == (m.x + m.b) % 65536
      <4>1. row = [m EXCEPT !.x = w]
        BY <3>1, SMT DEF Row3, row
      <4> HIDE DEF w
      <4> QED BY <4>1, KeepsPc DEF Fields
    <3>2. CASE n = 13
      <4> DEFINE t == Mul(m.a, m.b, m.cc)
      <4>1. t \in Result16
        <5>1. m.a \in Byte /\ m.b \in Byte /\ m.cc \in SUBSET Flags /\ 0 \in Word
          BY FieldType, WordDef
        <5> QED BY <5>1, WideType
      <4>2. row = IntoD(m, t)
        BY <3>2, SMT DEF Row3, row
      <4> HIDE DEF t
      <4> QED BY <4>1, <4>2, IntoKeepsPc
    <3>3. CASE n \in {8, 12, 14}
      <4>1. row = m
        BY <3>3, SMT DEF Row3, row
      <4> QED BY <4>1
    <3> QED BY <1>3, <3>1, <3>2, <3>3
  <2>2. ~(n \in 0..3) /\ ~(n \in 4..7)
    BY <1>3
  <2> QED BY <2>1, <2>2 DEF row
<1>4. n \in 0..3 \/ n \in 4..7 \/ n \in {8, 10, 12, 13, 14}
  BY SMT
<1> QED BY <1>1, <1>2, <1>3, <1>4

-----------------------------------------------------------------------------
(* What the three programs share.                                          *)

(* Bits, bytes of words and flags are the same in the three programs. *)
LEMMA SameFlags ==
  /\ \A x, m : S!Bit(x, m) = Bit(x, m) /\ T!Bit(x, m) = Bit(x, m)
  /\ \A b : S!Signed(b) = Signed(b) /\ T!Signed(b) = Signed(b)
  /\ \A w : S!Hi(w) = Hi(w) /\ T!Hi(w) = Hi(w)
  /\ \A w : S!Lo(w) = Lo(w) /\ T!Lo(w) = Lo(w)
  /\ \A cc : S!Carry(cc) = Carry(cc) /\ T!Carry(cc) = Carry(cc)
  /\ \A cc, f, on : S!Put(cc, f, on) = Put(cc, f, on) /\ T!Put(cc, f, on) = Put(cc, f, on)
  /\ \A b : S!ByteCc(b) = ByteCc(b) /\ T!ByteCc(b) = ByteCc(b)
  /\ \A cc : S!CcByte(cc) = CcByte(cc) /\ T!CcByte(cc) = CcByte(cc)
<1>1. \A x, m : S!Bit(x, m) = Bit(x, m) /\ T!Bit(x, m) = Bit(x, m)
  BY DEF S!Bit, T!Bit, Bit
<1>2. \A b : S!Signed(b) = Signed(b) /\ T!Signed(b) = Signed(b)
  BY DEF S!Signed, T!Signed, Signed
<1>3. /\ \A w : S!Hi(w) = Hi(w) /\ T!Hi(w) = Hi(w)
      /\ \A w : S!Lo(w) = Lo(w) /\ T!Lo(w) = Lo(w)
  BY DEF S!Hi, S!Lo, T!Hi, T!Lo, Hi, Lo
<1>4. \A cc : S!Carry(cc) = Carry(cc) /\ T!Carry(cc) = Carry(cc)
  BY DEF S!Carry, T!Carry, Carry
<1>5. \A cc, f, on : S!Put(cc, f, on) = Put(cc, f, on) /\ T!Put(cc, f, on) = Put(cc, f, on)
  BY DEF S!Put, T!Put, Put
<1>6. \A b : S!ByteCc(b) = ByteCc(b) /\ T!ByteCc(b) = ByteCc(b)
  BY DEF S!ByteCc, T!ByteCc, ByteCc, S!Bit, T!Bit, Bit, S!Flags, T!Flags, Flags,
         S!FlagMask, T!FlagMask, FlagMask
<1>7. \A cc : S!CcByte(cc) = CcByte(cc) /\ T!CcByte(cc) = CcByte(cc)
  BY DEF S!CcByte, T!CcByte, CcByte, S!Weight, T!Weight, Weight,
         S!FlagMask, T!FlagMask, FlagMask
<1> QED BY <1>1, <1>2, <1>3, <1>4, <1>5, <1>6, <1>7, Zenon

(* So are AND, OR and EOR. *)
LEMMA SameLogic ==
  /\ \A a, b : S!And(a, b) = And(a, b) /\ T!And(a, b) = And(a, b)
  /\ \A a, b : S!Or(a, b) = Or(a, b) /\ T!Or(a, b) = Or(a, b)
  /\ \A a, b : S!Xor(a, b) = Xor(a, b) /\ T!Xor(a, b) = Xor(a, b)
<1>1. \A x : S!Bits(x) = Bits(x) /\ T!Bits(x) = Bits(x)
  BY DEF S!Bits, T!Bits, Bits, S!Bit, T!Bit, Bit, S!Masks, T!Masks, Masks
<1>2. \A s : S!Weight(s) = Weight(s) /\ T!Weight(s) = Weight(s)
  BY DEF S!Weight, T!Weight, Weight
<1> QED BY <1>1, <1>2, Zenon DEF S!And, T!And, And, S!Or, T!Or, Or, S!Xor, T!Xor, Xor

(* So are the flags of a result. *)
LEMMA SameStatus ==
  /\ \A cc, r : S!SetNZ8(cc, r) = SetNZ8(cc, r) /\ T!SetNZ8(cc, r) = SetNZ8(cc, r)
  /\ \A cc, r : S!SetNZ16(cc, r) = SetNZ16(cc, r) /\ T!SetNZ16(cc, r) = SetNZ16(cc, r)
  /\ \A cc, a, b, x : /\ S!SetStatus(cc, a, b, x) = SetStatus(cc, a, b, x)
                      /\ T!SetStatus(cc, a, b, x) = SetStatus(cc, a, b, x)
  /\ \A cc, a, b, x : /\ S!SetStatusD(cc, a, b, x) = SetStatusD(cc, a, b, x)
                      /\ T!SetStatusD(cc, a, b, x) = SetStatusD(cc, a, b, x)
<1>1. \A cc, r : S!SetNZ8(cc, r) = SetNZ8(cc, r) /\ T!SetNZ8(cc, r) = SetNZ8(cc, r)
  BY DEF S!SetNZ8, T!SetNZ8, SetNZ8, S!Put, T!Put, Put
<1>2. \A cc, r : S!SetNZ16(cc, r) = SetNZ16(cc, r) /\ T!SetNZ16(cc, r) = SetNZ16(cc, r)
  BY DEF S!SetNZ16, T!SetNZ16, SetNZ16, S!Put, T!Put, Put
<1>3. \A cc, a, b, x : /\ S!SetStatus(cc, a, b, x) = SetStatus(cc, a, b, x)
                       /\ T!SetStatus(cc, a, b, x) = SetStatus(cc, a, b, x)
  BY DEF S!SetStatus, T!SetStatus, SetStatus, S!SetNZ8, T!SetNZ8, SetNZ8,
         S!Put, T!Put, Put, S!Bit, T!Bit, Bit
<1>4. \A cc, a, b, x : /\ S!SetStatusD(cc, a, b, x) = SetStatusD(cc, a, b, x)
                       /\ T!SetStatusD(cc, a, b, x) = SetStatusD(cc, a, b, x)
  BY DEF S!SetStatusD, T!SetStatusD, SetStatusD, S!SetNZ16, T!SetNZ16, SetNZ16,
         S!Put, T!Put, Put, S!Bit, T!Bit, Bit
<1> QED BY <1>1, <1>2, <1>3, <1>4, Zenon

(* So is every operation on one byte. *)
LEMMA SameUnary ==
  \A op \in UnaryOps : \A b, cc : /\ S!Unary(op, b, cc) = Unary(op, b, cc)
                                /\ T!Unary(op, b, cc) = Unary(op, b, cc)
<1> DEFINE Same(op) == \A b, cc : /\ S!Unary(op, b, cc) = Unary(op, b, cc)
                                   /\ T!Unary(op, b, cc) = Unary(op, b, cc)
<1>1. \A op \in UnaryOps : Same(op)
  <2> USE SameFlags, SameStatus DEF S!Unary, T!Unary, Unary
  <2>1. Same("NEG") OBVIOUS
  <2>2. Same("COM") OBVIOUS
  <2>3. Same("LSR") OBVIOUS
  <2>4. Same("ROR") OBVIOUS
  <2>5. Same("ASR") OBVIOUS
  <2>6. Same("ASL") OBVIOUS
  <2>7. Same("ROL") OBVIOUS
  <2>8. Same("DEC") OBVIOUS
  <2>9. Same("INC") OBVIOUS
  <2>10. Same("TST") OBVIOUS
  <2>11. Same("CLR") OBVIOUS
  <2> HIDE DEF Same, S!Unary, T!Unary, Unary
  <2> QED BY <2>1, <2>2, <2>3, <2>4, <2>5, <2>6, <2>7, <2>8, <2>9, <2>10, <2>11, Zenon DEF UnaryOps
<1> QED BY <1>1, Zenon

(* So is every operation on two. *)
LEMMA SameBinary ==
  \A op \in BinaryOps : \A a, b, cc : /\ S!Binary(op, a, b, cc) = Binary(op, a, b, cc)
                                /\ T!Binary(op, a, b, cc) = Binary(op, a, b, cc)
<1> DEFINE Same(op) == \A a, b, cc : /\ S!Binary(op, a, b, cc) = Binary(op, a, b, cc)
                                   /\ T!Binary(op, a, b, cc) = Binary(op, a, b, cc)
<1>1. \A op \in BinaryOps : Same(op)
  <2> USE SameFlags, SameLogic, SameStatus DEF S!Binary, T!Binary, Binary
  <2>1. Same("SUB") OBVIOUS
  <2>2. Same("CMP") OBVIOUS
  <2>3. Same("SBC") OBVIOUS
  <2>4. Same("ADC") OBVIOUS
  <2>5. Same("ADD") OBVIOUS
  <2>6. Same("AND") OBVIOUS
  <2>7. Same("BIT") OBVIOUS
  <2>8. Same("LD") OBVIOUS
  <2>9. Same("EOR") OBVIOUS
  <2>10. Same("OR") OBVIOUS
  <2> HIDE DEF Same, S!Binary, T!Binary, Binary
  <2> QED BY <2>1, <2>2, <2>3, <2>4, <2>5, <2>6, <2>7, <2>8, <2>9, <2>10, Zenon DEF BinaryOps
<1> QED BY <1>1, Zenon

(* So are sums, differences and moves of words, MUL and SEX. *)
LEMMA SameWide ==
  /\ \A a, b, cc : S!Sub16(a, b, cc) = Sub16(a, b, cc) /\ T!Sub16(a, b, cc) = Sub16(a, b, cc)
  /\ \A a, b, cc : S!Add16(a, b, cc) = Add16(a, b, cc) /\ T!Add16(a, b, cc) = Add16(a, b, cc)
  /\ \A w, cc : S!Move16(w, cc) = Move16(w, cc) /\ T!Move16(w, cc) = Move16(w, cc)
  /\ \A a, b, cc : S!Mul(a, b, cc) = Mul(a, b, cc)
  /\ \A b, cc : S!Sex(b, cc) = Sex(b, cc) /\ T!Sex(b, cc) = Sex(b, cc)
<1>1. \A a, b, cc : S!Sub16(a, b, cc) = Sub16(a, b, cc) /\ T!Sub16(a, b, cc) = Sub16(a, b, cc)
  BY SameStatus DEF S!Sub16, T!Sub16, Sub16
<1>2. \A a, b, cc : S!Add16(a, b, cc) = Add16(a, b, cc) /\ T!Add16(a, b, cc) = Add16(a, b, cc)
  BY SameStatus DEF S!Add16, T!Add16, Add16
<1>3. \A w, cc : S!Move16(w, cc) = Move16(w, cc) /\ T!Move16(w, cc) = Move16(w, cc)
  BY SameStatus DEF S!Move16, T!Move16, Move16
<1>4. \A a, b, cc : S!Mul(a, b, cc) = Mul(a, b, cc)
  BY DEF S!Mul, Mul, S!Put, Put, S!Bit, Bit
<1>5. \A b, cc : S!Sex(b, cc) = Sex(b, cc) /\ T!Sex(b, cc) = Sex(b, cc)
  BY SameStatus DEF S!Sex, T!Sex, Sex, S!Signed, T!Signed, Signed
<1> QED BY <1>1, <1>2, <1>3, <1>4, <1>5, Zenon

(* So is DAA, but for the carry of v09st.c, which Adjusted leaves out. *)
LEMMA SameDecimal ==
  /\ \A a, cc : T!Adjusted(a, cc) = Adjusted(a, cc)
  /\ \A a, cc : S!Daa(a, cc) = Daa(a, cc)
<1>1. \A a, cc : S!Adjusted(a, cc) = Adjusted(a, cc) /\ T!Adjusted(a, cc) = Adjusted(a, cc)
  BY DEF S!Adjusted, T!Adjusted, Adjusted
<1> QED BY <1>1, SameFlags DEF S!Daa, Daa

(* So are the conditions of the branches. *)
LEMMA SameTaken ==
  \A n, cc : S!Taken(n, cc) = Taken(n, cc) /\ T!Taken(n, cc) = Taken(n, cc)
  BY DEF S!Taken, T!Taken, Taken

(* So are the names of the columns and the bits of the stack postbytes. *)
LEMMA SameTables ==
  /\ S!UnaryOp = UnaryOp /\ T!UnaryOp = UnaryOp
  /\ S!BinaryOp = BinaryOp /\ T!BinaryOp = BinaryOp
  /\ S!ByteRegs = ByteRegs /\ T!ByteRegs = ByteRegs
  /\ S!StackMask = StackMask /\ T!StackMask = StackMask
  BY DEF S!UnaryOp, T!UnaryOp, UnaryOp, S!BinaryOp, T!BinaryOp, BinaryOp,
         S!ByteRegs, T!ByteRegs, ByteRegs, S!StackMask, T!StackMask, StackMask

(* Memory is read, and the program counter moved, in the same way. *)
LEMMA SameMemory ==
  /\ \A m, q : S!At(m, q) = At(m, q) /\ T!At(m, q) = At(m, q)
  /\ \A m, q : S!WordAt(m, q) = WordAt(m, q) /\ T!WordAt(m, q) = WordAt(m, q)
  /\ \A m, n : S!Skip(m, n) = Skip(m, n) /\ T!Skip(m, n) = Skip(m, n)
  /\ \A m, q : S!Jump(m, q) = Jump(m, q) /\ T!Jump(m, q) = Jump(m, q)
  /\ \A m : S!D(m) = D(m) /\ T!D(m) = D(m)
  /\ \A m, w : S!SetD(m, w) = SetD(m, w) /\ T!SetD(m, w) = SetD(m, w)
<1>1. \A m, q : S!At(m, q) = At(m, q) /\ T!At(m, q) = At(m, q)
  BY DEF S!At, T!At, At
<1>2. \A m, q : S!WordAt(m, q) = WordAt(m, q) /\ T!WordAt(m, q) = WordAt(m, q)
  BY DEF S!WordAt, T!WordAt, WordAt, S!At, T!At, At
<1>3. \A m, n : S!Skip(m, n) = Skip(m, n) /\ T!Skip(m, n) = Skip(m, n)
  BY DEF S!Skip, T!Skip, Skip
<1>4. \A m, q : S!Jump(m, q) = Jump(m, q) /\ T!Jump(m, q) = Jump(m, q)
  BY DEF S!Jump, T!Jump, Jump
<1>5. \A m : S!D(m) = D(m) /\ T!D(m) = D(m)
  BY DEF S!D, T!D, D
<1>6. \A m, w : S!SetD(m, w) = SetD(m, w) /\ T!SetD(m, w) = SetD(m, w)
  BY DEF S!SetD, T!SetD, SetD, S!Hi, T!Hi, Hi, S!Lo, T!Lo, Lo
<1> QED BY <1>1, <1>2, <1>3, <1>4, <1>5, <1>6, Zenon

(* Registers are read and set in the same way. *)
LEMMA SameRegs ==
  /\ \A m, r : S!Reg(m, r) = Reg(m, r) /\ T!Reg(m, r) = Reg(m, r)
  /\ \A m, r, v : S!SetReg(m, r, v) = SetReg(m, r, v) /\ T!SetReg(m, r, v) = SetReg(m, r, v)
<1>1. \A m, r : S!Reg(m, r) = Reg(m, r) /\ T!Reg(m, r) = Reg(m, r)
  BY SameMemory, SameFlags DEF S!Reg, T!Reg, Reg
<1>2. \A m, r, v : S!SetReg(m, r, v) = SetReg(m, r, v) /\ T!SetReg(m, r, v) = SetReg(m, r, v)
  BY SameMemory, SameFlags, SameTables DEF S!SetReg, T!SetReg, SetReg
<1> QED BY <1>1, <1>2, Zenon

(* The modes find the same operand. *)
LEMMA SameModes ==
  /\ \A m : S!IMM8(m) = IMM8(m) /\ T!IMM8(m) = IMM8(m)
  /\ \A m : S!IMM16(m) = IMM16(m) /\ T!IMM16(m) = IMM16(m)
  /\ \A m : S!DIRECT(m) = DIRECT(m) /\ T!DIRECT(m) = DIRECT(m)
  /\ \A m : S!EXTENDED(m) = EXTENDED(m) /\ T!EXTENDED(m) = EXTENDED(m)
  /\ \A m, b : S!Offset5(m, b) = Offset5(m, b) /\ T!Offset5(m, b) = Offset5(m, b)
  /\ \A m, b : S!IndexedMode(m, b) = IndexedMode(m, b) /\ T!IndexedMode(m, b) = IndexedMode(m, b)
  /\ \A o : S!Indirect(o) = Indirect(o) /\ T!Indirect(o) = Indirect(o)
<1>1. \A m : S!IMM8(m) = IMM8(m) /\ T!IMM8(m) = IMM8(m)
  BY DEF S!IMM8, T!IMM8, IMM8, S!Operand, T!Operand, Operand, S!Skip, T!Skip, Skip
<1>2. \A m : S!IMM16(m) = IMM16(m) /\ T!IMM16(m) = IMM16(m)
  BY DEF S!IMM16, T!IMM16, IMM16, S!Operand, T!Operand, Operand, S!Skip, T!Skip, Skip
<1>3. \A m : S!DIRECT(m) = DIRECT(m) /\ T!DIRECT(m) = DIRECT(m)
  BY DEF S!DIRECT, T!DIRECT, DIRECT, S!Operand, T!Operand, Operand, S!Skip, T!Skip, Skip,
         S!At, T!At, At
<1>4. \A m : S!EXTENDED(m) = EXTENDED(m) /\ T!EXTENDED(m) = EXTENDED(m)
  BY DEF S!EXTENDED, T!EXTENDED, EXTENDED, S!Operand, T!Operand, Operand, S!Skip, T!Skip, Skip,
         S!WordAt, T!WordAt, WordAt, S!At, T!At, At
<1>5. \A b : S!IndexReg(b) = IndexReg(b) /\ T!IndexReg(b) = IndexReg(b)
  BY DEF S!IndexReg, T!IndexReg, IndexReg
<1>6. \A m, b : S!Offset5(m, b) = Offset5(m, b) /\ T!Offset5(m, b) = Offset5(m, b)
  BY <1>5 DEF S!Offset5, T!Offset5, Offset5, S!Operand, T!Operand, Operand
<1>7. \A m, b : S!IndexedMode(m, b) = IndexedMode(m, b)
  BY DEF S!IndexedMode, S!Operand, S!Skip, S!Signed, S!At, S!WordAt, S!D, S!EXTENDED,
         S!IllegalModes, S!IndexReg, IndexedMode, Operand, Skip, Signed, At, WordAt, D,
         EXTENDED, IllegalModes, IndexReg
<1>8. \A m, b : T!IndexedMode(m, b) = IndexedMode(m, b)
  BY DEF T!IndexedMode, T!Operand, T!Skip, T!Signed, T!At, T!WordAt, T!D, T!EXTENDED,
         T!IllegalModes, T!IndexReg, IndexedMode, Operand, Skip, Signed, At, WordAt, D,
         EXTENDED, IllegalModes, IndexReg
<1>9. \A o : S!Indirect(o) = Indirect(o) /\ T!Indirect(o) = Indirect(o)
  BY DEF S!Indirect, T!Indirect, Indirect, S!Operand, T!Operand, Operand,
         S!WordAt, T!WordAt, WordAt, S!At, T!At, At
<1> QED BY <1>1, <1>2, <1>3, <1>4, <1>6, <1>7, <1>8, <1>9, Zenon

(* The same registers are pulled, in the same order. *)
LEMMA SamePulls ==
  /\ \A b, other : S!Listed(b, other) = Listed(b, other) /\ T!Listed(b, other) = Listed(b, other)
  /\ \A m, st, r : S!Pull(m, st, r) = Pull(m, st, r) /\ T!Pull(m, st, r) = Pull(m, st, r)
  /\ \A m, st, other, regs : /\ S!PullAll(m, st, other, regs) = PullAll(m, st, other, regs)
                             /\ T!PullAll(m, st, other, regs) = PullAll(m, st, other, regs)
  /\ \A m, st : S!Pulled(m, st) = Pulled(m, st) /\ T!Pulled(m, st) = Pulled(m, st)
<1>1. \A b, other : S!Listed(b, other) = Listed(b, other) /\ T!Listed(b, other) = Listed(b, other)
  BY DEF S!Listed, T!Listed, Listed, S!Frame, T!Frame, Frame, S!Bit, T!Bit, Bit,
         S!StackMask, T!StackMask, StackMask
<1>2. \A m, st, r : S!Pull(m, st, r) = Pull(m, st, r) /\ T!Pull(m, st, r) = Pull(m, st, r)
  <2> SUFFICES ASSUME NEW m, NEW st, NEW r
               PROVE  S!Pull(m, st, r) = Pull(m, st, r) /\ T!Pull(m, st, r) = Pull(m, st, r)
    OBVIOUS
  <2>1. /\ S!ByteRegs = ByteRegs /\ T!ByteRegs = ByteRegs
        /\ S!At(m, m[st]) = At(m, m[st]) /\ T!At(m, m[st]) = At(m, m[st])
        /\ S!WordAt(m, m[st]) = WordAt(m, m[st]) /\ T!WordAt(m, m[st]) = WordAt(m, m[st])
    BY SameTables, SameMemory, Zenon
  <2>2. \A k, v : S!SetReg(k, r, v) = SetReg(k, r, v) /\ T!SetReg(k, r, v) = SetReg(k, r, v)
    BY SameRegs, Zenon
  <2> DEFINE mm == [m EXCEPT ![st] = (@ + 1) % 65536]
             v == At(m, m[st])
             w == WordAt(m, m[st])
             nn == [[m EXCEPT ![st] = (@ + 2) % 65536] EXCEPT ![r] = w]
  <2>3. S!Pull(m, st, r) = IF r \in ByteRegs THEN S!SetReg(mm, r, v) ELSE nn
    BY <2>1 DEF S!Pull
  <2>4. T!Pull(m, st, r) = IF r \in ByteRegs THEN T!SetReg(mm, r, v) ELSE nn
    BY <2>1 DEF T!Pull
  <2>5. Pull(m, st, r) = IF r \in ByteRegs THEN SetReg(mm, r, v) ELSE nn
    BY DEF Pull
  <2> HIDE DEF mm, nn, v, w
  <2> QED BY <2>2, <2>3, <2>4, <2>5
<1>3. \A m, st, regs, r : /\ S!PullIn(m, st, regs, r) = PullIn(m, st, regs, r)
                          /\ T!PullIn(m, st, regs, r) = PullIn(m, st, regs, r)
  BY <1>2 DEF S!PullIn, T!PullIn, PullIn
<1>4. \A m, st, other, regs : /\ S!PullAll(m, st, other, regs) = PullAll(m, st, other, regs)
                              /\ T!PullAll(m, st, other, regs) = PullAll(m, st, other, regs)
  BY <1>3 DEF S!PullAll, T!PullAll, PullAll
<1>5. \A st : S!Other(st) = Other(st) /\ T!Other(st) = Other(st)
  BY DEF S!Other, T!Other, Other
<1>6. \A m, st : S!Pulled(m, st) = Pulled(m, st) /\ T!Pulled(m, st) = Pulled(m, st)
  BY <1>1, <1>4, <1>5, SameMemory DEF S!Pulled, T!Pulled, Pulled
<1> QED BY <1>1, <1>2, <1>4, <1>6, Zenon

(* A result goes to the same register, with the same flags. *)
LEMMA SameResults ==
  /\ \A m, r, t : S!Into(m, r, t) = Into(m, r, t) /\ T!Into(m, r, t) = Into(m, r, t)
  /\ \A m, t : S!IntoD(m, t) = IntoD(m, t) /\ T!IntoD(m, t) = IntoD(m, t)
  /\ \A n, o : S!LEA(n, o) = LEA(n, o) /\ T!LEA(n, o) = LEA(n, o)
  /\ \A o, r : S!Load16(o, r) = Load16(o, r) /\ T!Load16(o, r) = Load16(o, r)
  /\ \A n \in 0..15 : \A m, r : S!OnRegister(m, n, r) = OnRegister(m, n, r)
<1>1. \A m, r, t : S!Into(m, r, t) = Into(m, r, t) /\ T!Into(m, r, t) = Into(m, r, t)
  BY DEF S!Into, T!Into, Into
<1>2. \A m, t : S!IntoD(m, t) = IntoD(m, t) /\ T!IntoD(m, t) = IntoD(m, t)
  BY SameMemory DEF S!IntoD, T!IntoD, IntoD
<1>3. \A n, o : S!LEA(n, o) = LEA(n, o) /\ T!LEA(n, o) = LEA(n, o)
  BY DEF S!LEA, T!LEA, LEA, S!Put, T!Put, Put
<1>4. \A o, r : S!Load16(o, r) = Load16(o, r) /\ T!Load16(o, r) = Load16(o, r)
  BY SameMemory, SameRegs, SameWide DEF S!Load16, T!Load16, Load16
<1>5. \A n \in 0..15 : \A m, r : S!OnRegister(m, n, r) = OnRegister(m, n, r)
  <2> SUFFICES ASSUME NEW n \in 0..15, NEW m, NEW r
               PROVE  S!OnRegister(m, n, r) = OnRegister(m, n, r)
    OBVIOUS
  <2> DEFINE op == UnaryOp[n + 1]
  <2>1. S!UnaryOp[n + 1] = op
    BY SameTables
  <2>2. op \in UnaryOps \/ op \in {"ill", "JMP"}
    BY UnaryNames
  <2>3. S!OnRegister(m, n, r) = IF op \in {"ill", "JMP"} THEN m ELSE S!Into(m, r, S!Unary(op, m[r], m.cc))
    BY <2>1 DEF S!OnRegister
  <2>4. OnRegister(m, n, r) = IF op \in {"ill", "JMP"} THEN m ELSE Into(m, r, Unary(op, m[r], m.cc))
    BY DEF OnRegister
  <2> HIDE DEF op
  <2>5. /\ \A t : S!Into(m, r, t) = Into(m, r, t)
        /\ op \in UnaryOps => S!Unary(op, m[r], m.cc) = Unary(op, m[r], m.cc)
    BY <1>1, SameUnary, Zenon
  <2> QED BY <2>2, <2>3, <2>4, <2>5
<1> QED BY <1>1, <1>2, <1>3, <1>4, <1>5, Zenon

-----------------------------------------------------------------------------
(* Machines that are alike below romstart.                                 *)

(* The two old programs store in the same way. *)
LEMMA SameStores ==
  /\ \A m, q, t : T!IntoByte(m, q, t) = S!IntoByte(m, q, t)
  /\ \A m, st : T!Pushed(m, st) = S!Pushed(m, st)
  /\ \A m, q : T!Subroutine(m, q) = S!Subroutine(m, q)
  /\ \A o, r : T!Store16(o, r) = S!Store16(o, r)
  /\ \A n \in 0..15 : \A o, r : n \notin {3, 12, 13, 14, 15} =>
        T!Accumulator(n, o, r) = S!Accumulator(n, o, r)
<1>1. \A m, q, v : T!SetByte(m, q, v) = S!SetByte(m, q, v)
  BY DEF T!SetByte, S!SetByte
<1>2. \A m, q, w : T!SetWord(m, q, w) = S!SetWord(m, q, w)
  BY <1>1, SameFlags DEF T!SetWord, S!SetWord
<1>3. \A m, st, r : T!Push(m, st, r) = S!Push(m, st, r)
  BY <1>1, <1>2, SameRegs, SameTables DEF T!Push, S!Push
<1>4. \A m, st, regs, r : T!PushIn(m, st, regs, r) = S!PushIn(m, st, regs, r)
  BY <1>3 DEF T!PushIn, S!PushIn
<1>5. \A m, st, other, regs : T!PushAll(m, st, other, regs) = S!PushAll(m, st, other, regs)
  BY <1>4 DEF T!PushAll, S!PushAll
<1>6. \A m, st : T!Pushed(m, st) = S!Pushed(m, st)
  <2>1. \A st : S!Other(st) = T!Other(st)
    BY DEF S!Other, T!Other
  <2> QED BY <1>5, <2>1, SamePulls, SameMemory DEF T!Pushed, S!Pushed
<1>7. \A m, q, t : T!IntoByte(m, q, t) = S!IntoByte(m, q, t)
  BY <1>1 DEF T!IntoByte, S!IntoByte
<1>8. \A m, q : T!Subroutine(m, q) = S!Subroutine(m, q)
  BY <1>3, SameMemory DEF T!Subroutine, S!Subroutine
<1>9. \A o, r : T!Store16(o, r) = S!Store16(o, r)
  BY <1>2, SameRegs, SameWide DEF T!Store16, S!Store16
<1>10. ASSUME NEW n \in 0..15, NEW o, NEW r, n \notin {3, 12, 13, 14, 15}
       PROVE  T!Accumulator(n, o, r) = S!Accumulator(n, o, r)
  <2>1. CASE n = 7
    BY <1>1, <2>1, SameStatus DEF T!Accumulator, S!Accumulator
  <2>2. CASE n # 7
    <3>1. BinaryOp[n + 1] \in BinaryOps
      BY <1>10, <2>2, BinaryNames
    <3> QED BY <2>2, <3>1, SameBinary, SameTables, SameMemory, SameResults
            DEF T!Accumulator, S!Accumulator
  <2> QED BY <2>1, <2>2
<1> QED BY <1>6, <1>7, <1>8, <1>9, <1>10

-----------------------------------------------------------------------------
(* Machines that differ in the ROM only. *)
Below(m) == [q \in {p \in DOMAIN m.mem : p < RomStart} |-> m.mem[q]]
Like(m, n) ==
    /\ m \in Machine /\ n \in Machine
    /\ m.a = n.a /\ m.b = n.b /\ m.dp = n.dp /\ m.cc = n.cc
    /\ m.x = n.x /\ m.y = n.y /\ m.u = n.u /\ m.s = n.s /\ m.pc = n.pc
    /\ Below(m) = Below(n)

(* A machine is like itself. *)
LEMMA LikeSelf == \A m \in Machine : Like(m, m)
BY DEF Like

(* Their registers are the same, and they stay alike when one is set. *)
LEMMA LikeFields ==
  ASSUME NEW m, NEW n, Like(m, n)
  PROVE  /\ D(m) = D(n)
         /\ \A r \in WordRegs \cup {"a", "b", "dp"} : m[r] = n[r]
         /\ \A r \in ByteRegs \cup WordRegs \cup {"d"} : Reg(m, r) = Reg(n, r)
         /\ \A w \in Word, r \in WordRegs : Like([m EXCEPT ![r] = w], [n EXCEPT ![r] = w])
         /\ \A c \in SUBSET Flags : Like([m EXCEPT !.cc = c], [n EXCEPT !.cc = c])
<1>1. m \in Machine /\ n \in Machine
  BY DEF Like
<1>2. D(m) = D(n)
  BY DEF Like, D
<1>3. \A r \in WordRegs \cup {"a", "b", "dp"} : m[r] = n[r]
  BY Zenon DEF Like, WordRegs
<1>4. \A r \in ByteRegs \cup WordRegs \cup {"d"} : Reg(m, r) = Reg(n, r)
  <2>1. Reg(m, "d") = Reg(n, "d")
    BY <1>2 DEF Reg
  <2>2. Reg(m, "cc") = Reg(n, "cc")
    BY DEF Reg, Like
  <2>3. \A r \in WordRegs \cup {"a", "b", "dp"} : Reg(m, r) = Reg(n, r)
    <3>1. \A r \in WordRegs \cup {"a", "b", "dp"} : r # "d" /\ r # "cc"
      BY DEF WordRegs
    <3> QED BY <1>3, <3>1 DEF Reg
  <2> QED BY <2>1, <2>2, <2>3, Zenon DEF ByteRegs
<1>5. \A k \in Machine : \A w \in Word : /\ Below([k EXCEPT !.x = w]) = Below(k)
                                          /\ Below([k EXCEPT !.y = w]) = Below(k)
                                          /\ Below([k EXCEPT !.u = w]) = Below(k)
                                          /\ Below([k EXCEPT !.s = w]) = Below(k)
                                          /\ Below([k EXCEPT !.pc = w]) = Below(k)
  <2> SUFFICES ASSUME NEW k \in Machine, NEW w \in Word
               PROVE  /\ [k EXCEPT !.x = w].mem = k.mem
                      /\ [k EXCEPT !.y = w].mem = k.mem
                      /\ [k EXCEPT !.u = w].mem = k.mem
                      /\ [k EXCEPT !.s = w].mem = k.mem
                      /\ [k EXCEPT !.pc = w].mem = k.mem
    BY DEF Below
  <2> QED BY MachineFields
<1>6. \A k \in Machine : \A c \in SUBSET Flags : Below([k EXCEPT !.cc = c]) = Below(k)
  <2> SUFFICES ASSUME NEW k \in Machine, NEW c \in SUBSET Flags
               PROVE  [k EXCEPT !.cc = c].mem = k.mem
    BY DEF Below
  <2> QED BY MachineFields
<1>7. ASSUME NEW w \in Word
      PROVE  \A r \in WordRegs : Like([m EXCEPT ![r] = w], [n EXCEPT ![r] = w])
  <2>0. \A r \in WordRegs : [m EXCEPT ![r] = w] \in Machine /\ [n EXCEPT ![r] = w] \in Machine
    BY <1>1, FieldType
  <2>1. Like([m EXCEPT !.x = w], [n EXCEPT !.x = w])
    BY <1>1, <1>5, <2>0, MachineFields DEF Like, WordRegs
  <2>2. Like([m EXCEPT !.y = w], [n EXCEPT !.y = w])
    BY <1>1, <1>5, <2>0, MachineFields DEF Like, WordRegs
  <2>3. Like([m EXCEPT !.u = w], [n EXCEPT !.u = w])
    BY <1>1, <1>5, <2>0, MachineFields DEF Like, WordRegs
  <2>4. Like([m EXCEPT !.s = w], [n EXCEPT !.s = w])
    BY <1>1, <1>5, <2>0, MachineFields DEF Like, WordRegs
  <2>5. Like([m EXCEPT !.pc = w], [n EXCEPT !.pc = w])
    BY <1>1, <1>5, <2>0, MachineFields DEF Like, WordRegs
  <2> QED BY <2>1, <2>2, <2>3, <2>4, <2>5, Zenon DEF WordRegs
<1>8. ASSUME NEW c \in SUBSET Flags
      PROVE  Like([m EXCEPT !.cc = c], [n EXCEPT !.cc = c])
  <2>1. [m EXCEPT !.cc = c] \in Machine /\ [n EXCEPT !.cc = c] \in Machine
    BY <1>1, FieldType
  <2> QED BY <1>1, <1>6, <2>1, MachineFields DEF Like
<1> QED BY <1>2, <1>3, <1>4, <1>7, <1>8

(* A byte stored in both leaves them alike: the old programs store it in   *)
(* the ROM too.                                                            *)
LEMMA LikeSetByte ==
  ASSUME NEW m, NEW n, Like(m, n), NEW q \in Word, NEW v \in Byte
  PROVE  Like(S!SetByte(m, q, v), SetByte(n, q, v))
<1> DEFINE Put1(f) == [p \in DOMAIN f \cup {q} |-> IF p = q THEN v ELSE f[p]]
<1> DEFINE f == m.mem
           g == n.mem
<1>1. m \in Machine /\ n \in Machine /\ Below(m) = Below(n)
  BY DEF Like
<1>2. q \in Int /\ ~(q >= 65536) /\ RomStart \in Int /\ \A p \in Word : p \in Int
  BY WordDef, RomBound, SMT
<1>3. /\ f \in [DOMAIN f -> Byte] /\ DOMAIN f \subseteq Word
      /\ g \in [DOMAIN g -> Byte] /\ DOMAIN g \subseteq Word
  BY <1>1, FieldType, MachineFields
<1>4. S!SetByte(m, q, v) = [m EXCEPT !.mem = Put1(f)]
  BY <1>2 DEF S!SetByte
<1>5. SetByte(n, q, v) = IF q >= RomStart THEN n ELSE [n EXCEPT !.mem = Put1(g)]
  BY DEF SetByte
<1>6. \A h : h \in [DOMAIN h -> Byte] /\ DOMAIN h \subseteq Word => Put1(h) \in Mems
  <2> SUFFICES ASSUME NEW h, h \in [DOMAIN h -> Byte], DOMAIN h \subseteq Word
               PROVE  Put1(h) \in Mems
    OBVIOUS
  <2> DEFINE k == Put1(h)
  <2>1. k \in [DOMAIN k -> Byte] /\ DOMAIN k \subseteq Word
    OBVIOUS
  <2> HIDE DEF k
  <2>2. k \in Mems
    BY <2>1, MachineFields
  <2> QED BY <2>2 DEF k
<1>7. Put1(f) \in Mems /\ Put1(g) \in Mems
  BY <1>3, <1>6
<1> DEFINE k == [m EXCEPT !.mem = Put1(f)]
           l == [n EXCEPT !.mem = Put1(g)]
<1>8. /\ k \in Machine /\ l \in Machine /\ k.mem = Put1(f) /\ l.mem = Put1(g)
      /\ k.a = m.a /\ k.b = m.b /\ k.dp = m.dp /\ k.cc = m.cc
      /\ k.x = m.x /\ k.y = m.y /\ k.u = m.u /\ k.s = m.s /\ k.pc = m.pc
      /\ l.a = n.a /\ l.b = n.b /\ l.dp = n.dp /\ l.cc = n.cc
      /\ l.x = n.x /\ l.y = n.y /\ l.u = n.u /\ l.s = n.s /\ l.pc = n.pc
  <2> DEFINE ff == Put1(f)
             gg == Put1(g)
  <2>1. ff \in Mems /\ gg \in Mems
    BY <1>7
  <2> HIDE DEF ff, gg
  <2>2. [m EXCEPT !.mem = ff] \in Machine /\ [n EXCEPT !.mem = gg] \in Machine
    BY <1>1, <2>1, FieldType
  <2>3. /\ [m EXCEPT !.mem = ff].mem = ff /\ [m EXCEPT !.mem = ff].a = m.a
        /\ [m EXCEPT !.mem = ff].b = m.b /\ [m EXCEPT !.mem = ff].dp = m.dp
        /\ [m EXCEPT !.mem = ff].cc = m.cc /\ [m EXCEPT !.mem = ff].x = m.x
        /\ [m EXCEPT !.mem = ff].y = m.y /\ [m EXCEPT !.mem = ff].u = m.u
        /\ [m EXCEPT !.mem = ff].s = m.s /\ [m EXCEPT !.mem = ff].pc = m.pc
    BY <1>1, MachineFields
  <2>4. /\ [n EXCEPT !.mem = gg].mem = gg /\ [n EXCEPT !.mem = gg].a = n.a
        /\ [n EXCEPT !.mem = gg].b = n.b /\ [n EXCEPT !.mem = gg].dp = n.dp
        /\ [n EXCEPT !.mem = gg].cc = n.cc /\ [n EXCEPT !.mem = gg].x = n.x
        /\ [n EXCEPT !.mem = gg].y = n.y /\ [n EXCEPT !.mem = gg].u = n.u
        /\ [n EXCEPT !.mem = gg].s = n.s /\ [n EXCEPT !.mem = gg].pc = n.pc
    BY <1>1, MachineFields
  <2>5. k = [m EXCEPT !.mem = ff] /\ l = [n EXCEPT !.mem = gg] /\ ff = Put1(f) /\ gg = Put1(g)
    BY DEF ff, gg
  <2> HIDE DEF k, l, Put1
  <2> QED BY <2>2, <2>3, <2>4, <2>5
<1> HIDE DEF k, l
<1>9. CASE q >= RomStart
  <2>1. SetByte(n, q, v) = n
    BY <1>5, <1>9
  <2>2. Below(k) = [p \in {p \in DOMAIN f \cup {q} : p < RomStart} |->
                      IF p = q THEN v ELSE f[p]]
    BY <1>8 DEF Below
  <2>3. {p \in DOMAIN f \cup {q} : p < RomStart} = {p \in DOMAIN f : p < RomStart}
    BY <1>9, <1>2
  <2>4. Below(k) = [p \in {p \in DOMAIN f : p < RomStart} |-> f[p]]
    <3>1. \A p \in {p \in DOMAIN f : p < RomStart} : (IF p = q THEN v ELSE f[p]) = f[p]
      BY <1>9, <1>2, <1>3
    <3> QED BY <2>2, <2>3, <3>1
  <2>5. Below(k) = Below(m)
    BY <2>4, Zenon DEF Below
  <2> QED BY <1>1, <1>4, <1>8, <2>1, <2>5 DEF Like, k
<1>10. CASE ~(q >= RomStart)
  <2> DEFINE Seen(h) == {p \in DOMAIN h : p < RomStart}
  <2>1. SetByte(n, q, v) = l
    BY <1>5, <1>10 DEF l
  <2>2. Seen(f) = Seen(g) /\ \A p \in Seen(f) : f[p] = g[p]
    <3>1. DOMAIN Below(m) = Seen(f) /\ DOMAIN Below(n) = Seen(g)
      BY DEF Below
    <3>2. \A p \in Seen(f) : Below(m)[p] = f[p]
      BY DEF Below
    <3>3. \A p \in Seen(g) : Below(n)[p] = g[p]
      BY DEF Below
    <3> QED BY <1>1, <3>1, <3>2, <3>3, Zenon
  <2>3. \A h : Seen(Put1(h)) = Seen(h) \cup {q}
    BY <1>2, <1>10
  <2>4. Below(k) = [p \in Seen(f) \cup {q} |-> IF p = q THEN v ELSE f[p]]
    <3>1. Below(k) = [p \in Seen(Put1(f)) |-> Put1(f)[p]]
      BY <1>8 DEF Below
    <3>2. \A p \in Seen(f) \cup {q} : Put1(f)[p] = IF p = q THEN v ELSE f[p]
      OBVIOUS
    <3> HIDE DEF Put1, Seen
    <3> QED BY <2>3, <3>1, <3>2
  <2>5. Below(l) = [p \in Seen(g) \cup {q} |-> IF p = q THEN v ELSE g[p]]
    <3>1. Below(l) = [p \in Seen(Put1(g)) |-> Put1(g)[p]]
      BY <1>8 DEF Below
    <3>2. \A p \in Seen(g) \cup {q} : Put1(g)[p] = IF p = q THEN v ELSE g[p]
      OBVIOUS
    <3> HIDE DEF Put1, Seen
    <3> QED BY <2>3, <3>1, <3>2
  <2>6. Below(k) = Below(l)
    <3> HIDE DEF Seen, f, g
    <3> QED BY <2>2, <2>4, <2>5
  <2> QED BY <1>4, <1>8, <2>1, <2>6 DEF Like, k
<1> QED BY <1>9, <1>10

(* So does a word. *)
LEMMA LikeSetWord ==
  ASSUME NEW m, NEW n, Like(m, n), NEW q \in Word, NEW w \in Word
  PROVE  Like(S!SetWord(m, q, w), SetWord(n, q, w))
<1>1. Hi(w) \in Byte /\ Lo(w) \in Byte
  BY WordHalves
<1>2. (q + 1) % 65536 \in Word
  BY WordDef, SMT
<1> DEFINE h == Hi(w)
           l == Lo(w)
           r == (q + 1) % 65536
           mm == S!SetByte(m, q, h)
           nn == SetByte(n, q, h)
<1>3. S!Hi(w) = h /\ S!Lo(w) = l
  BY SameFlags, Zenon
<1>4. S!SetWord(m, q, w) = S!SetByte(mm, r, l)
  BY <1>3 DEF S!SetWord
<1>5. SetWord(n, q, w) = SetByte(nn, r, l)
  BY DEF SetWord
<1>6. h \in Byte /\ l \in Byte /\ r \in Word
  BY <1>1, <1>2
<1> HIDE DEF h, l, r
<1>7. Like(mm, nn)
  BY <1>6, LikeSetByte
<1> HIDE DEF mm, nn
<1>8. Like(S!SetByte(mm, r, l), SetByte(nn, r, l))
  BY <1>6, <1>7, LikeSetByte
<1> QED BY <1>4, <1>5, <1>8

(* So does a register pushed. *)
LEMMA LikePush ==
  ASSUME NEW m, NEW n, Like(m, n), NEW st \in {"s", "u"}, NEW r \in ByteRegs \cup WordRegs
  PROVE  Like(S!Push(m, st, r), Push(n, st, r))
<1>1. m \in Machine /\ n \in Machine /\ m[st] = n[st] /\ m[st] \in Word
  BY LikeFields, FieldType, Zenon DEF Like, WordRegs
<1>2. (m[st] + 65535) % 65536 \in Word /\ (m[st] + 65534) % 65536 \in Word
  BY <1>1, WordHalves
<1>3. CASE r \in ByteRegs
  <2> DEFINE p == (m[st] + 65535) % 65536
  <2>1. /\ S!Push(m, st, r) = S!SetByte([m EXCEPT ![st] = p], p, Reg(m, r))
        /\ Push(n, st, r) = SetByte([n EXCEPT ![st] = p], p, Reg(n, r))
    BY <1>1, <1>3, SameRegs, SameTables DEF S!Push, Push
  <2>2. Reg(m, r) = Reg(n, r) /\ Reg(m, r) \in Byte
    BY <1>1, <1>3, LikeFields, RegType
  <2>3. p \in Word
    BY <1>2
  <2> HIDE DEF p
  <2>4. Like([m EXCEPT ![st] = p], [n EXCEPT ![st] = p])
    BY <2>3, LikeFields DEF WordRegs
  <2> QED BY <2>1, <2>2, <2>3, <2>4, LikeSetByte
<1>4. CASE r \in WordRegs /\ r \notin ByteRegs
  <2> DEFINE p == (m[st] + 65534) % 65536
             mm == [m EXCEPT ![st] = p]
             nn == [n EXCEPT ![st] = p]
  <2>1. /\ S!Push(m, st, r) = S!SetWord(mm, p, mm[r])
        /\ Push(n, st, r) = SetWord(nn, p, nn[r])
    BY <1>1, <1>4, SameTables DEF S!Push, Push
  <2>2. p \in Word
    BY <1>2
  <2> HIDE DEF p
  <2>3. Like(mm, nn)
    BY <2>2, LikeFields DEF WordRegs
  <2> HIDE DEF mm, nn
  <2>4. mm[r] = nn[r] /\ mm[r] \in Word
    <3>1. mm \in Machine
      BY <2>3 DEF Like
    <3> QED BY <1>4, <2>3, <3>1, LikeFields, FieldType
  <2> QED BY <2>1, <2>2, <2>3, <2>4, LikeSetWord
<1> QED BY <1>3, <1>4

(* So do all registers of a list, in the order of the frame. *)
LEMMA LikePushAll ==
  ASSUME NEW m, NEW n, Like(m, n), NEW st \in {"s", "u"}, NEW regs
  PROVE  Like(S!PushAll(m, st, Other(st), regs), PushAll(n, st, Other(st), regs))
<1> DEFINE Pushing(r) == \A k, l : Like(k, l) => Like(S!PushIn(k, st, regs, r), PushIn(l, st, regs, r))
<1>1. \A r \in ByteRegs \cup WordRegs : Pushing(r)
  BY LikePush DEF S!PushIn, PushIn
<1>2. Other(st) \in WordRegs
  BY DEF Other, WordRegs
<1>3. /\ Pushing("pc") /\ Pushing(Other(st)) /\ Pushing("y") /\ Pushing("x")
      /\ Pushing("dp") /\ Pushing("b") /\ Pushing("a") /\ Pushing("cc")
  BY <1>1, <1>2 DEF ByteRegs, WordRegs
<1> QED BY <1>3 DEF S!PushAll, PushAll

(* So does PSH. *)
LEMMA LikePushed ==
  ASSUME NEW m \in Machine, NEW st \in {"s", "u"}
  PROVE  Like(S!Pushed(m, st), Pushed(m, st))
<1>1. Skip(m, 1) \in Machine
  BY SkipType
<1>2. S!Other(st) = Other(st)
  BY DEF S!Other, Other
<1>3. S!Pushed(m, st) = S!PushAll(Skip(m, 1), st, Other(st), Listed(At(m, m.pc), Other(st)))
  BY <1>2, SamePulls, SameMemory, Zenon DEF S!Pushed
<1> QED BY <1>1, <1>3, LikeSelf, LikePushAll, Zenon DEF Pushed

(* So does a call. *)
LEMMA LikeSubroutine ==
  ASSUME NEW m \in Machine, NEW q \in Int
  PROVE  Like(S!Subroutine(m, q), Subroutine(m, q))
<1>1. Like(S!Push(m, "s", "pc"), Push(m, "s", "pc"))
  BY LikeSelf, LikePush DEF WordRegs
<1>2. q % 65536 \in Word
  BY WordDef, SMT
<1> DEFINE k == S!Push(m, "s", "pc")
           l == Push(m, "s", "pc")
<1>3. S!Subroutine(m, q) = [k EXCEPT !.pc = q % 65536]
  BY SameMemory DEF S!Subroutine, Jump
<1>4. Subroutine(m, q) = [l EXCEPT !.pc = q % 65536]
  BY DEF Subroutine, Jump
<1> HIDE DEF k, l
<1>5. Like(k, l)
  BY <1>1 DEF k, l
<1>6. \A w \in Word : Like([k EXCEPT !.pc = w], [l EXCEPT !.pc = w])
  <2>1. "pc" \in WordRegs
    BY DEF WordRegs
  <2> QED BY <1>5, <2>1, LikeFields
<1> QED BY <1>2, <1>3, <1>4, <1>6

(* So does a result stored in memory. *)
LEMMA LikeIntoByte ==
  ASSUME NEW m \in Machine, NEW q \in Word, NEW t \in Result8
  PROVE  Like(S!IntoByte(m, q, t), IntoByte(m, q, t))
<1>1. t.r \in Byte /\ t.cc \in SUBSET Flags
  BY DEF Result8
<1>2. Like(S!SetByte(m, q, t.r), SetByte(m, q, t.r))
  BY <1>1, LikeSelf, LikeSetByte
<1> QED BY <1>1, <1>2, LikeFields DEF S!IntoByte, IntoByte

(* So does an operation on an accumulator, ST among them. *)
LEMMA LikeAccumulator ==
  ASSUME NEW n \in 0..15, n \notin {3, 12, 13, 14, 15},
         NEW o, OperandOK(o), NEW r \in {"a", "b"}
  PROVE  Like(S!Accumulator(n, o, r), Accumulator(n, o, r))
<1>1. o.m \in Machine /\ o.ea \in Word /\ o.m[r] \in Byte
  BY FieldType DEF OperandOK
<1>2. CASE n = 7
  <2> DEFINE k == S!SetByte(o.m, o.ea, o.m[r])
             l == SetByte(o.m, o.ea, o.m[r])
  <2>1. Like(k, l)
    BY <1>1, LikeSelf, LikeSetByte
  <2>2. /\ S!Accumulator(n, o, r) = [k EXCEPT !.cc = SetNZ8(k.cc \ {"V"}, o.m[r])]
        /\ Accumulator(n, o, r) = [l EXCEPT !.cc = SetNZ8(l.cc \ {"V"}, o.m[r])]
    BY <1>2, SameStatus DEF S!Accumulator, Accumulator
  <2> HIDE DEF k, l
  <2>3. k.cc = l.cc /\ k.cc \ {"V"} \in SUBSET Flags
    <3>1. k \in Machine /\ k.cc = l.cc
      BY <2>1 DEF Like
    <3> QED BY <3>1, FieldType
  <2>4. SetNZ8(k.cc \ {"V"}, o.m[r]) \in SUBSET Flags
    BY <2>3, FlagsType
  <2>5. \A c \in SUBSET Flags : Like([k EXCEPT !.cc = c], [l EXCEPT !.cc = c])
    BY <2>1, LikeFields
  <2> QED BY <2>2, <2>3, <2>4, <2>5
<1>3. CASE n # 7
  <2>1. BinaryOp[n + 1] \in BinaryOps
    BY <1>3, BinaryNames
  <2>2. S!Accumulator(n, o, r) = Accumulator(n, o, r)
    BY <1>3, <2>1, SameBinary, SameTables, SameMemory, SameResults DEF S!Accumulator, Accumulator
  <2>3. Accumulator(n, o, r) \in Machine
    BY AccumulatorType
  <2> QED BY <2>2, <2>3, LikeSelf
<1> QED BY <1>2, <1>3

(* So does a word register stored. *)
LEMMA LikeStore16 ==
  ASSUME NEW o, OperandOK(o), NEW r \in WordRegs \cup {"d"}
  PROVE  Like(S!Store16(o, r), Store16(o, r))
<1> DEFINE w == Reg(o.m, r)
           k == S!SetWord(o.m, o.ea, w)
           l == SetWord(o.m, o.ea, w)
<1>1. o.m \in Machine /\ o.ea \in Word /\ w \in Word
  BY RegType DEF OperandOK
<1> HIDE DEF w
<1>2. Like(k, l)
  BY <1>1, LikeSelf, LikeSetWord
<1>3. /\ S!Store16(o, r) = [k EXCEPT !.cc = Move16(w, k.cc)]
      /\ Store16(o, r) = [l EXCEPT !.cc = Move16(w, l.cc)]
  BY SameRegs, SameWide DEF S!Store16, Store16, w
<1> HIDE DEF k, l
<1>4. k.cc = l.cc /\ k.cc \in SUBSET Flags
  <2>1. k \in Machine /\ k.cc = l.cc
    BY <1>2 DEF Like
  <2> QED BY <2>1, FieldType
<1>5. Move16(w, k.cc) \in SUBSET Flags
  BY <1>4, FlagsType
<1> QED BY <1>2, <1>3, <1>4, <1>5, LikeFields

-----------------------------------------------------------------------------
(* Operands of the three programs.                                         *)

(* A postbyte that is no illegal one with the bit for indirection. *)
LegalMode(m) == ~(At(m, m.pc) >= 128 /\ Bit(At(m, m.pc), 16) = 1 /\ At(m, m.pc) % 16 \in IllegalModes)

(* A postbyte that moves its register, and the register.                   *)
Moves(m, r) == At(m, m.pc) >= 128 /\ At(m, m.pc) % 16 < 4 /\ IndexReg(At(m, m.pc)) = r

(* The operand by bits 4 and 5 of the opcode. *)
ModeOf(m, q) == CASE q = 0 -> IMM8(m) [] q = 1 -> DIRECT(m)
                  [] q = 2 -> INDEXED(m) [] q = 3 -> EXTENDED(m)
ModeOf16(m, q) == IF q = 0 THEN IMM16(m) ELSE ModeOf(m, q)

(* The two old programs find the same indexed operand, but for an illegal  *)
(* mode with the bit for indirection.                                      *)
LEMMA PlainPostbyte ==
  ASSUME NEW m \in Machine, LegalMode(m)
  PROVE  S!postbyte(m) = INDEXED(m) /\ T!postbyte(m) = INDEXED(m)
<1> DEFINE b == At(m, m.pc)
           five == Offset5(Skip(m, 1), b)
           i == IndexedMode(Skip(m, 1), b)
<1>1. b \in Int
  BY MemoryType, ByteDef
<1>2. Bit(b, 16) = 0 \/ Bit(b, 16) = 1
  BY <1>1, SMT DEF Bit
<1>3. ~(b >= 128 /\ Bit(b, 16) = 1 /\ b % 16 \in IllegalModes)
  BY DEF LegalMode
<1>4. S!postbyte(m) = CASE b < 128 -> five [] b >= 128 /\ Bit(b, 16) = 0 -> i [] OTHER -> Indirect(i)
  BY SameFlags, SameMemory, SameModes, Zenon DEF S!postbyte, S!Mode
<1>5. T!postbyte(m) = CASE b < 128 -> five [] b >= 128 /\ Bit(b, 16) = 0 -> i [] OTHER -> Indirect(i)
  BY SameFlags, SameMemory, SameModes, Zenon DEF T!postbyte, T!Mode
<1>6. INDEXED(m) = CASE b < 128 -> five
                     [] b >= 128 /\ (Bit(b, 16) = 0 \/ b % 16 \in IllegalModes) -> i
                     [] OTHER -> Indirect(i)
  BY DEF INDEXED
<1> HIDE DEF b, five, i
<1>7. CASE b < 128
  <2>1. ~(b >= 128)
    BY <1>1, <1>7, SMT
  <2> QED BY <1>4, <1>5, <1>6, <1>7, <2>1
<1>8. CASE b >= 128 /\ Bit(b, 16) = 0
  <2>1. ~(b < 128)
    BY <1>1, <1>8, SMT
  <2> QED BY <1>4, <1>5, <1>6, <1>8, <2>1
<1>9. CASE b >= 128 /\ Bit(b, 16) = 1
  <2>1. ~(b < 128) /\ ~(Bit(b, 16) = 0) /\ ~(b % 16 \in IllegalModes)
    BY <1>1, <1>3, <1>9, SMT
  <2> QED BY <1>4, <1>5, <1>6, <1>9, <2>1
<1>10. b < 128 \/ b >= 128
  BY <1>1, SMT
<1> QED BY <1>2, <1>7, <1>8, <1>9, <1>10

(* They find the same operand by bits 4 and 5 of the opcode. *)
LEMMA SameOperand ==
  ASSUME NEW m \in Machine, NEW q \in 0..3, q = 2 => LegalMode(m)
  PROVE  /\ S!eaddr8(m, q) = ModeOf(m, q) /\ S!eaddr16(m, q) = ModeOf16(m, q)
         /\ T!eaddr8(m, q) = ModeOf(m, q) /\ T!eaddr16(m, q) = ModeOf16(m, q)
<1>1. q = 2 => S!postbyte(m) = INDEXED(m) /\ T!postbyte(m) = INDEXED(m)
  BY PlainPostbyte
<1>2. /\ S!IMM8(m) = IMM8(m) /\ T!IMM8(m) = IMM8(m)
      /\ S!IMM16(m) = IMM16(m) /\ T!IMM16(m) = IMM16(m)
      /\ S!DIRECT(m) = DIRECT(m) /\ T!DIRECT(m) = DIRECT(m)
      /\ S!EXTENDED(m) = EXTENDED(m) /\ T!EXTENDED(m) = EXTENDED(m)
  BY SameModes, Zenon
<1>3. S!eaddr8(m, q) = ModeOf(m, q)
  BY <1>1, <1>2 DEF S!eaddr8, ModeOf
<1>4. T!eaddr8(m, q) = ModeOf(m, q)
  BY <1>1, <1>2 DEF T!eaddr8, ModeOf
<1> QED BY <1>2, <1>3, <1>4 DEF S!eaddr16, T!eaddr16, ModeOf16

(* A mode leaves the flags, D and every register alone that its postbyte   *)
(* does not move.                                                          *)
LEMMA OperandKeeps ==
  ASSUME NEW m \in Machine, NEW q \in 0..3, NEW o \in {ModeOf(m, q), ModeOf16(m, q)}
  PROVE  /\ OperandOK(o)
         /\ o.m.cc = m.cc /\ D(o.m) = D(m)
         /\ \A r \in {"x", "y", "u", "s"} : ~(q = 2 /\ Moves(m, r)) => o.m[r] = m[r]
<1> DEFINE b == At(m, m.pc)
           Keeps(k) == /\ k.cc = m.cc /\ k.a = m.a /\ k.b = m.b
                       /\ \A r \in {"x", "y", "u", "s"} : ~(q = 2 /\ Moves(m, r)) => k[r] = m[r]
<1>1. \A k \in Machine : \A n : /\ Skip(k, n).cc = k.cc /\ Skip(k, n).a = k.a /\ Skip(k, n).b = k.b
                                /\ \A r \in {"x", "y", "u", "s"} : Skip(k, n)[r] = k[r]
  BY MachineFields DEF Skip
<1>2. CASE q # 2
  <2>1. o \in {IMM8(m), IMM16(m), DIRECT(m), EXTENDED(m)}
    <3>1. q \in {0, 1, 3}
      BY <1>2
    <3>2. q = 0 => ModeOf(m, q) = IMM8(m) /\ ModeOf16(m, q) = IMM16(m)
      BY DEF ModeOf, ModeOf16
    <3>3. q = 1 => ModeOf(m, q) = DIRECT(m) /\ ModeOf16(m, q) = DIRECT(m)
      BY DEF ModeOf, ModeOf16
    <3>4. q = 3 => ModeOf(m, q) = EXTENDED(m) /\ ModeOf16(m, q) = EXTENDED(m)
      BY DEF ModeOf, ModeOf16
    <3> QED BY <3>1, <3>2, <3>3, <3>4
  <2>2. OperandOK(o)
    BY <2>1, DirectType
  <2>3. o.m \in {Skip(m, 1), Skip(m, 2)}
    BY <2>1 DEF IMM8, IMM16, DIRECT, EXTENDED, Operand
  <2>4. Keeps(o.m)
    BY <1>1, <2>3
  <2> QED BY <2>2, <2>4 DEF D
<1>3. CASE q = 2
  <2>1. o = INDEXED(m)
    BY <1>3 DEF ModeOf, ModeOf16
  <2> DEFINE k == Skip(m, 1)
             i == IndexedMode(k, b)
             j == IndexReg(b)
  <2>2. b \in Byte /\ k \in Machine /\ Keeps(k)
    BY <1>1, MemoryType, SkipType
  <2>3. o.m = IF b < 128 THEN k ELSE i.m
    <3>1. b < 128 => INDEXED(m) = Offset5(k, b)
      BY <2>2, ByteDef, SMT DEF INDEXED
    <3>2. b >= 128 => INDEXED(m) \in {i, Indirect(i)}
      <4>1. b >= 128 => ~(b < 128)
        BY <2>2, ByteDef, SMT
      <4> HIDE DEF i
      <4> QED BY <4>1 DEF INDEXED, i
    <3>3. b < 128 \/ b >= 128
      BY <2>2, ByteDef, SMT
    <3>4. Offset5(k, b).m = k /\ Indirect(i).m = i.m
      BY DEF Offset5, Indirect, Operand
    <3>5. b >= 128 => ~(b < 128)
      BY <2>2, ByteDef, SMT
    <3> HIDE DEF i, k, b
    <3> QED BY <2>1, <3>1, <3>2, <3>3, <3>4, <3>5
  <2>4. b >= 128 => Keeps(i.m)
    <3> SUFFICES ASSUME b >= 128 PROVE Keeps(i.m)
      OBVIOUS
    <3>1. \/ i.m \in {k, Skip(k, 1), Skip(k, 2)}
          \/ b % 16 \in 0..3 /\ \E d \in {1, 2, 65534, 65535} : i.m = Moved(k, j, d)
      <4> HIDE DEF k, b
      <4> QED BY <2>2, IndexedMachine DEF j, i
    <3>2. CASE i.m \in {k, Skip(k, 1), Skip(k, 2)}
      BY <1>1, <2>2, <3>2
    <3>3. ASSUME b % 16 \in 0..3, NEW d, i.m = Moved(k, j, d) PROVE Keeps(i.m)
      <4>1. j \in {"x", "y", "u", "s"}
        BY <2>2, IndexRegType
      <4>2. Moves(m, j)
        <5>1. b % 16 < 4
          BY <3>3
        <5> QED BY <5>1 DEF Moves
      <4> DEFINE w == (k[j] + d) % 65536
      <4>3. i.m = [k EXCEPT ![j] = w]
        BY <3>3 DEF Moved
      <4> HIDE DEF w, j, i, k
      <4>4. /\ [k EXCEPT ![j] = w].cc = k.cc /\ [k EXCEPT ![j] = w].a = k.a
            /\ [k EXCEPT ![j] = w].b = k.b
            /\ \A r \in {"x", "y", "u", "s"} : r # j => [k EXCEPT ![j] = w][r] = k[r]
        BY <2>2, <4>1, MachineFields
      <4> HIDE DEF b
      <4> QED BY <1>3, <2>2, <4>2, <4>3, <4>4
    <3> QED BY <3>1, <3>2, <3>3
  <2>5. Keeps(o.m)
    <3> HIDE DEF k, i, b
    <3>1. b < 128 \/ b >= 128
      BY <2>2, ByteDef, SMT
    <3> QED BY <2>2, <2>3, <2>4, <3>1
  <2>6. OperandOK(o)
    BY <2>1, IndexedType
  <2> QED BY <2>5, <2>6 DEF D
<1> QED BY <1>2, <1>3

(* The operand of a column. *)
OperandOf(m, n, q) == IF BinaryOp[n + 1] = "16" THEN ModeOf16(m, q) ELSE ModeOf(m, q)

(* The columns with an operand of a word. *)
LEMMA OperandNames ==
  \A n \in 0..15 : BinaryOp[n + 1] = "16" <=> n \in {3, 12, 13, 14, 15}
<1>1. \A n \in 1..16 : BinaryOp[n] = "16" <=> n \in {4, 13, 14, 15, 16}
  BY SMT DEF BinaryOp
<1>2. \A n \in 0..15 : n + 1 \in 1..16 /\ (n + 1 \in {4, 13, 14, 15, 16} <=> n \in {3, 12, 13, 14, 15})
  BY SMT
<1> QED BY <1>1, <1>2

(* A word moved clears V. *)
LEMMA NoOverflow ==
  ASSUME NEW o, OperandOK(o), NEW r \in WordRegs \cup {"d"}
  PROVE  "V" \notin Load16(o, r).cc /\ "V" \notin S!Store16(o, r).cc
<1>1. \A w, cc : "V" \notin Move16(w, cc)
  BY DEF Move16, SetNZ16, Put
<1>2. \A k \in Machine : \A c : [k EXCEPT !.cc = c].cc = c
  BY MachineFields
<1>3. o.m \in Machine /\ o.ea \in Word
  BY DEF OperandOK
<1>4. "V" \notin Load16(o, r).cc
  <2> DEFINE w == WordAt(o.m, o.ea)
             k == SetReg(o.m, r, w)
             c == Move16(w, k.cc)
  <2>1. k \in Machine
    BY <1>3, MemoryType, SetRegType
  <2>2. Load16(o, r) = [k EXCEPT !.cc = c]
    BY DEF Load16
  <2>3. "V" \notin c
    BY <1>1
  <2> HIDE DEF k, c
  <2> QED BY <1>2, <2>1, <2>2, <2>3
<1>5. "V" \notin S!Store16(o, r).cc
  <2> DEFINE w == Reg(o.m, r)
             k == S!SetWord(o.m, o.ea, w)
             c == Move16(w, k.cc)
  <2>1. w \in Word
    BY <1>3, RegType
  <2>2. k \in Machine
    <3> HIDE DEF w
    <3> QED BY <1>3, <2>1, LikeSelf, LikeSetWord DEF Like
  <2>3. S!Store16(o, r) = [k EXCEPT !.cc = c]
    BY SameRegs, SameWide DEF S!Store16
  <2>4. "V" \notin c
    BY <1>1
  <2> HIDE DEF k, c
  <2> QED BY <1>2, <2>2, <2>3, <2>4
<1> QED BY <1>4, <1>5

(* To keep a V that is clear changes nothing. *)
LEMMA KeepsNoV ==
  ASSUME NEW k \in Machine, "V" \notin k.cc, NEW m, "V" \notin m.cc
  PROVE  S!KeepV(k, m) = k /\ T!KeepV(k, m) = k
<1>1. Put(k.cc, "V", "V" \in m.cc) = k.cc
  BY DEF Put
<1>2. [k EXCEPT !.cc = k.cc] = k
  BY MachineFields
<1>3. S!KeepV(k, m) = [k EXCEPT !.cc = Put(k.cc, "V", "V" \in m.cc)]
  BY DEF S!KeepV, S!Put, Put
<1>4. T!KeepV(k, m) = [k EXCEPT !.cc = Put(k.cc, "V", "V" \in m.cc)]
  BY DEF T!KeepV, T!Put, Put
<1> QED BY <1>1, <1>2, <1>3, <1>4

(* Words loaded and stored. *)
LEMMA SameWords ==
  ASSUME NEW m \in Machine, NEW q \in 0..3, q = 2 => LegalMode(m), "V" \notin m.cc,
         NEW r \in WordRegs \cup {"d"}
  PROVE  /\ Like(S!Load(m, q, r), Load16(ModeOf16(m, q), r))
         /\ Like(S!Store(m, q, r), Store16(ModeOf16(m, q), r))
         /\ Like(T!Moves(m, 14, q, r), Load16(ModeOf16(m, q), r))
         /\ Like(T!Moves(m, 12, q, r), Load16(ModeOf16(m, q), r))
         /\ Like(T!Moves(m, 13, q, r), Store16(ModeOf16(m, q), r))
         /\ Like(T!Moves(m, 15, q, r), Store16(ModeOf16(m, q), r))
<1> DEFINE o == ModeOf16(m, q)
           l == Load16(o, r)
           k == S!Store16(o, r)
<1>1. OperandOK(o)
  BY OperandKeeps
<1>2. S!eaddr16(m, q) = o /\ T!eaddr16(m, q) = o
  BY SameOperand
<1> HIDE DEF o
<1>3. l \in Machine
  BY <1>1, Word16Type
<1>4. k \in Machine /\ Like(k, Store16(o, r))
  BY <1>1, LikeStore16 DEF Like
<1>5. "V" \notin l.cc /\ "V" \notin k.cc
  BY <1>1, NoOverflow
<1>6. S!Load16(o, r) = l /\ T!Load16(o, r) = l /\ T!Store16(o, r) = k
  BY SameResults, SameStores, Zenon
<1> HIDE DEF l, k
<1>7. /\ S!KeepV(l, m) = l /\ S!KeepV(k, m) = k
      /\ T!KeepV(l, m) = l /\ T!KeepV(k, m) = k
  BY <1>3, <1>4, <1>5, KeepsNoV
<1>8. S!Load(m, q, r) = l /\ S!Store(m, q, r) = k
  BY <1>2, <1>6, <1>7 DEF S!Load, S!Store, k
<1>9. T!Operand16(m, q) = o
  BY <1>2 DEF T!Operand16
<1>10. /\ T!Moves(m, 14, q, r) = l /\ T!Moves(m, 12, q, r) = l
       /\ T!Moves(m, 13, q, r) = k /\ T!Moves(m, 15, q, r) = k
  BY <1>6, <1>7, <1>9 DEF T!Moves
<1>11. Like(l, l)
  BY <1>3, LikeSelf
<1> QED BY <1>4, <1>8, <1>10, <1>11 DEF l, o

(* Words added, subtracted and compared. *)
LEMMA SameSums ==
  ASSUME NEW m \in Machine, NEW q \in 0..3, q = 2 => LegalMode(m)
  PROVE  LET o == ModeOf16(m, q)
         IN  /\ S!SumD(m, q) = IntoD(o.m, Add16(D(o.m), WordAt(o.m, o.ea), o.m.cc))
             /\ T!SumD(m, q) = S!SumD(m, q)
             /\ S!Difference(m, q, "d", TRUE) = IntoD(o.m, Sub16(D(o.m), WordAt(o.m, o.ea), o.m.cc))
             /\ \A r \in {"d", "x", "y", "u", "s"} : (r # "d" => ~(q = 2 /\ Moves(m, r))) =>
                  S!Difference(m, q, r, FALSE) = Compare16(o, r)
             /\ \A r, keep : T!Difference(m, q, r, keep) = S!Difference(m, q, r, keep)
<1> DEFINE o == ModeOf16(m, q)
           w == WordAt(o.m, o.ea)
<1>1. o.m \in Machine /\ o.m.cc = m.cc /\ D(o.m) = D(m)
      /\ \A r \in {"x", "y", "u", "s"} : ~(q = 2 /\ Moves(m, r)) => o.m[r] = m[r]
  BY OperandKeeps DEF OperandOK
<1>2. S!eaddr16(m, q) = o /\ T!eaddr16(m, q) = o
  BY SameOperand
<1>3. /\ S!WordAt(o.m, o.ea) = w /\ T!WordAt(o.m, o.ea) = w
      /\ S!D(m) = D(m) /\ T!D(m) = D(m)
      /\ \A r : S!Reg(m, r) = Reg(m, r) /\ T!Reg(m, r) = Reg(m, r)
      /\ \A k, v : S!SetD(k, v) = SetD(k, v) /\ T!SetD(k, v) = SetD(k, v)
      /\ \A k, t : S!IntoD(k, t) = IntoD(k, t) /\ T!IntoD(k, t) = IntoD(k, t)
      /\ \A a, b, cc : S!Sub16(a, b, cc) = Sub16(a, b, cc) /\ T!Sub16(a, b, cc) = Sub16(a, b, cc)
      /\ \A a, b, cc : S!Add16(a, b, cc) = Add16(a, b, cc) /\ T!Add16(a, b, cc) = Add16(a, b, cc)
  BY SameMemory, SameRegs, SameResults, SameWide, Zenon
<1> HIDE DEF o, w
<1>4. S!SumD(m, q) = IntoD(o.m, Add16(D(o.m), w, o.m.cc)) /\ T!SumD(m, q) = S!SumD(m, q)
  BY <1>1, <1>2, <1>3 DEF S!SumD, T!SumD
<1> DEFINE t(r) == Sub16(Reg(m, r), w, m.cc)
           result(r, keep) == [(IF keep THEN SetD(o.m, t(r).r) ELSE o.m) EXCEPT !.cc = t(r).cc]
<1>5. \A r, keep : S!Difference(m, q, r, keep) = result(r, keep)
  BY <1>2, <1>3 DEF S!Difference
<1>6. \A r, keep : T!Difference(m, q, r, keep) = result(r, keep)
  BY <1>2, <1>3 DEF T!Difference
<1>7. result("d", TRUE) = IntoD(o.m, Sub16(D(o.m), w, o.m.cc))
  <2>1. Reg(m, "d") = D(m)
    BY DEF Reg
  <2> QED BY <1>1, <2>1 DEF IntoD
<1>8. ASSUME NEW r \in {"d", "x", "y", "u", "s"}, r # "d" => ~(q = 2 /\ Moves(m, r))
      PROVE  result(r, FALSE) = Compare16(o, r)
  <2>1. Reg(m, r) = Reg(o.m, r)
    <3>1. CASE r = "d"
      BY <1>1, <3>1 DEF Reg
    <3>2. CASE r # "d"
      <4>1. r \in {"x", "y", "u", "s"} /\ r # "cc"
        BY <3>2
      <4>2. o.m[r] = m[r]
        BY <1>1, <1>8, <3>2, <4>1
      <4> QED BY <3>2, <4>1, <4>2 DEF Reg
    <3> QED BY <3>1, <3>2
  <2> QED BY <1>1, <2>1 DEF Compare16, w
<1> HIDE DEF result
<1>9. \A r \in {"d", "x", "y", "u", "s"} : (r # "d" => ~(q = 2 /\ Moves(m, r))) =>
         S!Difference(m, q, r, FALSE) = Compare16(o, r)
  BY <1>5, <1>8
<1>10. \A r, keep : T!Difference(m, q, r, keep) = S!Difference(m, q, r, keep)
  BY <1>5, <1>6, Zenon
<1>11. S!Difference(m, q, "d", TRUE) = IntoD(o.m, Sub16(D(o.m), w, o.m.cc))
  BY <1>5, <1>7, Zenon
<1> QED BY <1>4, <1>9, <1>10, <1>11, Zenon DEF o, w

-----------------------------------------------------------------------------
(* The columns.                                                            *)

(* The register that is compared is not the one that the postbyte moves. *)
ComparesStill(m, n, q, flag) ==
    \A r \in {"x", "y", "u", "s"} :
      (n = 3 /\ flag = 2 /\ r = "u") \/ (n = 12 /\ r = <<"x", "y", "s">>[flag + 1]) =>
        ~(q = 2 /\ Moves(m, r))

(* SUBA to STX of v09s.c do what the columns of engine.c do. *)
LEMMA SameColumnA ==
  ASSUME NEW m \in Machine, NEW n \in 0..15, NEW q \in 0..3, NEW flag \in {0, 1, 2},
         q = 2 => LegalMode(m), ~(n = 13 /\ q = 0), n \in {14, 15} => "V" \notin m.cc,
         ComparesStill(m, n, q, flag)
  PROVE  Like(S!Columns(m, n, q, TRUE, flag), ColumnA(n, OperandOf(m, n, q), flag))
<1> DEFINE o == OperandOf(m, n, q)
           c == S!Columns(m, n, q, TRUE, flag)
           column == ColumnA(n, o, flag)
<1>1. OperandOK(o) /\ o \in {ModeOf(m, q), ModeOf16(m, q)}
  <2>1. o \in {ModeOf(m, q), ModeOf16(m, q)}
    BY DEF OperandOf
  <2> QED BY <2>1, OperandKeeps
<1>2. o = IF n \in {3, 12, 13, 14, 15} THEN ModeOf16(m, q) ELSE ModeOf(m, q)
  BY OperandNames DEF OperandOf
<1> HIDE DEF o
<1>3. column \in Machine
  BY <1>1, ColumnAType
<1> HIDE DEF column, c
<1>4. ASSUME n = 3 PROVE Like(c, column)
  <2>0. o = ModeOf16(m, q)
    BY <1>2, <1>4
  <2>1. c = S!subd(m, q, flag)
    BY <1>4 DEF c, S!Columns
  <2>2. S!subd(m, q, flag) = S!Difference(m, q, <<"d", "d", "u">>[flag + 1], flag = 0)
    BY DEF S!subd
  <2>3. CASE flag = 0
    <3>1. c = S!Difference(m, q, "d", TRUE)
      <4>1. <<"d", "d", "u">>[flag + 1] = "d"
        BY <2>3, SMT
      <4>2. (flag = 0) = TRUE
        BY <2>3
      <4> QED BY <2>1, <2>2, <4>1, <4>2, Zenon
    <3>2. n # 12 /\ n # 13 /\ n # 14 /\ n # 15 /\ ~(flag # 0)
      BY <1>4, <2>3
    <3>3. column = IntoD(o.m, Sub16(D(o.m), WordAt(o.m, o.ea), o.m.cc))
      BY <1>4, <2>3, <3>2 DEF ColumnA, column
    <3>4. c = column
      BY <2>0, <3>1, <3>3, SameSums
    <3> QED BY <1>3, <3>4, LikeSelf
  <2>4. CASE flag # 0
    <3> DEFINE r == IF flag = 2 THEN "u" ELSE "d"
    <3>1. <<"d", "d", "u">>[flag + 1] = r /\ ~(flag = 0)
      BY <2>4, SMT
    <3>2. n # 12 /\ n # 13 /\ n # 14 /\ n # 15 /\ ~(flag = 0)
      BY <1>4, <2>4
    <3>3. column = Compare16(o, r)
      BY <1>4, <2>4, <3>2 DEF ColumnA, column
    <3>4. r # "d" => ~(q = 2 /\ Moves(m, r))
      BY <1>4 DEF ComparesStill
    <3>5. r \in {"d", "x", "y", "u", "s"}
      OBVIOUS
    <3>6. c = S!Difference(m, q, r, FALSE)
      BY <2>1, <2>2, <3>1
    <3> HIDE DEF r
    <3>7. S!Difference(m, q, r, FALSE) = Compare16(o, r)
      BY <2>0, <3>4, <3>5, SameSums
    <3> QED BY <1>3, <3>3, <3>6, <3>7, LikeSelf
  <2> QED BY <2>3, <2>4
<1>5. ASSUME n = 12 PROVE Like(c, column)
  <2> DEFINE r == <<"x", "y", "s">>[flag + 1]
  <2>0. o = ModeOf16(m, q)
    BY <1>2, <1>5
  <2>1. c = S!Difference(m, q, r, FALSE)
    BY <1>5 DEF c, S!Columns, S!cmpx
  <2>2. n # 3 /\ n # 13 /\ n # 14 /\ n # 15
    BY <1>5
  <2>3. column = Compare16(o, r)
    BY <1>5, <2>2 DEF ColumnA, column
  <2>4. r \in {"x", "y", "s"}
    BY SMT
  <2>5. ~(q = 2 /\ Moves(m, r))
    <3>1. \A s \in {"x", "y", "s"} : s = <<"x", "y", "s">>[flag + 1] => ~(q = 2 /\ Moves(m, s))
      BY <1>5 DEF ComparesStill
    <3> QED BY <2>4, <3>1
  <2> HIDE DEF r
  <2>6. S!Difference(m, q, r, FALSE) = Compare16(o, r)
    BY <2>0, <2>4, <2>5, SameSums
  <2> QED BY <1>3, <2>1, <2>3, <2>6, LikeSelf
<1>6. ASSUME n = 13 PROVE Like(c, column)
  <2>0. q # 0 /\ S!eaddr8(m, q) = o
    <3>1. q # 0 /\ o = ModeOf(m, q)
      BY <1>2, <1>6 DEF ModeOf16
    <3> QED BY <3>1, SameOperand
  <2>1. c = S!jsr(m, q)
    BY <1>6, <2>0 DEF c, S!Columns
  <2>2. c = S!Subroutine(o.m, o.ea)
    BY <2>0, <2>1 DEF S!jsr
  <2>3. n # 3 /\ n # 12 /\ n # 14 /\ n # 15
    BY <1>6
  <2>4. column = Subroutine(o.m, o.ea)
    BY <1>6, <2>3 DEF ColumnA, column
  <2>5. o.m \in Machine /\ o.ea \in Int
    BY <1>1, WordDef DEF OperandOK
  <2> QED BY <2>2, <2>4, <2>5, LikeSubroutine
<1>7. ASSUME n = 14 PROVE Like(c, column)
  <2> DEFINE r == IF flag = 0 THEN "x" ELSE "y"
  <2>0. o = ModeOf16(m, q) /\ "V" \notin m.cc
    BY <1>2, <1>7
  <2>1. c = S!Load(m, q, r)
    BY <1>7 DEF c, S!Columns
  <2>2. n # 3 /\ n # 12 /\ n # 13 /\ n # 15
    BY <1>7
  <2>3. column = Load16(o, r)
    BY <1>7, <2>2 DEF ColumnA, column
  <2>4. r \in WordRegs \cup {"d"}
    BY DEF WordRegs
  <2> HIDE DEF r
  <2> QED BY <2>0, <2>1, <2>3, <2>4, SameWords
<1>8. ASSUME n = 15 PROVE Like(c, column)
  <2> DEFINE r == IF flag = 0 THEN "x" ELSE "y"
  <2>0. o = ModeOf16(m, q) /\ "V" \notin m.cc
    BY <1>2, <1>8
  <2>1. c = S!Store(m, q, r)
    BY <1>8 DEF c, S!Columns
  <2>2. n # 3 /\ n # 12 /\ n # 13 /\ n # 14
    BY <1>8
  <2>3. column = Store16(o, r)
    BY <1>8, <2>2 DEF ColumnA, column
  <2>4. r \in WordRegs \cup {"d"}
    BY DEF WordRegs
  <2> HIDE DEF r
  <2> QED BY <2>0, <2>1, <2>3, <2>4, SameWords
<1>9. ASSUME n \notin {3, 12, 13, 14, 15} PROVE Like(c, column)
  <2>0. S!eaddr8(m, q) = o
    BY <1>2, <1>9, SameOperand
  <2>1. n # 3 /\ n # 12 /\ n # 13 /\ n # 14 /\ n # 15
    BY <1>9
  <2>2. c = S!Dyadic(m, n, q, "a")
    BY <2>1 DEF c, S!Columns
  <2>3. c = S!Accumulator(n, o, "a")
    BY <2>0, <2>2 DEF S!Dyadic
  <2>4. column = Accumulator(n, o, "a")
    BY <2>1 DEF ColumnA, column
  <2> QED BY <1>1, <1>9, <2>3, <2>4, LikeAccumulator
<1>10. Like(c, column)
  BY <1>4, <1>5, <1>6, <1>7, <1>8, <1>9
<1> QED BY <1>10 DEF c, column, o

(* So do SUBB to STU. *)
LEMMA SameColumnB ==
  ASSUME NEW m \in Machine, NEW n \in 0..15, NEW q \in 0..3, NEW flag \in {0, 1, 2},
         q = 2 => LegalMode(m), n \in {12, 13, 14, 15} => "V" \notin m.cc
  PROVE  Like(S!Columns(m, n, q, FALSE, flag), ColumnB(n, OperandOf(m, n, q), flag))
<1> DEFINE o == OperandOf(m, n, q)
           c == S!Columns(m, n, q, FALSE, flag)
           column == ColumnB(n, o, flag)
<1>1. OperandOK(o) /\ o \in {ModeOf(m, q), ModeOf16(m, q)}
  <2>1. o \in {ModeOf(m, q), ModeOf16(m, q)}
    BY DEF OperandOf
  <2> QED BY <2>1, OperandKeeps
<1>2. o = IF n \in {3, 12, 13, 14, 15} THEN ModeOf16(m, q) ELSE ModeOf(m, q)
  BY OperandNames DEF OperandOf
<1> HIDE DEF o
<1>3. column \in Machine
  BY <1>1, ColumnBType
<1> HIDE DEF column, c
<1>4. ASSUME n = 3 PROVE Like(c, column)
  <2>0. o = ModeOf16(m, q)
    BY <1>2, <1>4
  <2>1. c = S!SumD(m, q)
    BY <1>4 DEF c, S!Columns
  <2>2. n # 12 /\ n # 13 /\ n # 14 /\ n # 15
    BY <1>4
  <2>3. column = IntoD(o.m, Add16(D(o.m), WordAt(o.m, o.ea), o.m.cc))
    BY <1>4, <2>2 DEF ColumnB, column
  <2>4. c = column
    BY <2>0, <2>1, <2>3, SameSums
  <2> QED BY <1>3, <2>4, LikeSelf
<1>5. ASSUME n = 12 PROVE Like(c, column)
  <2>0. o = ModeOf16(m, q) /\ "V" \notin m.cc /\ "d" \in WordRegs \cup {"d"}
    BY <1>2, <1>5
  <2>1. c = S!Load(m, q, "d")
    BY <1>5 DEF c, S!Columns
  <2>2. n # 3 /\ n # 13 /\ n # 14 /\ n # 15
    BY <1>5
  <2>3. column = Load16(o, "d")
    BY <1>5, <2>2 DEF ColumnB, column
  <2> QED BY <2>0, <2>1, <2>3, SameWords
<1>6. ASSUME n = 13 PROVE Like(c, column)
  <2>0. o = ModeOf16(m, q) /\ "V" \notin m.cc /\ "d" \in WordRegs \cup {"d"}
    BY <1>2, <1>6
  <2>1. c = S!Store(m, q, "d")
    BY <1>6 DEF c, S!Columns
  <2>2. n # 3 /\ n # 12 /\ n # 14 /\ n # 15
    BY <1>6
  <2>3. column = Store16(o, "d")
    BY <1>6, <2>2 DEF ColumnB, column
  <2> QED BY <2>0, <2>1, <2>3, SameWords
<1>7. ASSUME n = 14 PROVE Like(c, column)
  <2> DEFINE r == IF flag = 0 THEN "u" ELSE "s"
  <2>0. o = ModeOf16(m, q) /\ "V" \notin m.cc
    BY <1>2, <1>7
  <2>1. c = S!Load(m, q, r)
    BY <1>7 DEF c, S!Columns
  <2>2. n # 3 /\ n # 12 /\ n # 13 /\ n # 15
    BY <1>7
  <2>3. column = Load16(o, r)
    BY <1>7, <2>2 DEF ColumnB, column
  <2>4. r \in WordRegs \cup {"d"}
    BY DEF WordRegs
  <2> HIDE DEF r
  <2> QED BY <2>0, <2>1, <2>3, <2>4, SameWords
<1>8. ASSUME n = 15 PROVE Like(c, column)
  <2> DEFINE r == IF flag = 0 THEN "u" ELSE "s"
  <2>0. o = ModeOf16(m, q) /\ "V" \notin m.cc
    BY <1>2, <1>8
  <2>1. c = S!Store(m, q, r)
    BY <1>8 DEF c, S!Columns
  <2>2. n # 3 /\ n # 12 /\ n # 13 /\ n # 14
    BY <1>8
  <2>3. column = Store16(o, r)
    BY <1>8, <2>2 DEF ColumnB, column
  <2>4. r \in WordRegs \cup {"d"}
    BY DEF WordRegs
  <2> HIDE DEF r
  <2> QED BY <2>0, <2>1, <2>3, <2>4, SameWords
<1>9. ASSUME n \notin {3, 12, 13, 14, 15} PROVE Like(c, column)
  <2>0. S!eaddr8(m, q) = o
    BY <1>2, <1>9, SameOperand
  <2>1. n # 3 /\ n # 12 /\ n # 13 /\ n # 14 /\ n # 15
    BY <1>9
  <2>2. c = S!Dyadic(m, n, q, "b")
    BY <2>1 DEF c, S!Columns
  <2>3. c = S!Accumulator(n, o, "b")
    BY <2>0, <2>2 DEF S!Dyadic
  <2>4. column = Accumulator(n, o, "b")
    BY <2>1 DEF ColumnB, column
  <2> QED BY <1>1, <1>9, <2>3, <2>4, LikeAccumulator
<1>10. Like(c, column)
  BY <1>4, <1>5, <1>6, <1>7, <1>8, <1>9
<1> QED BY <1>10 DEF c, column, o

-----------------------------------------------------------------------------
(* One-byte instructions of the three programs.                            *)

(* The columns of TST, COM, LSR, ASR and ROL. *)
LEMMA TestNames ==
  \A n \in 0..15 : /\ UnaryOp[n + 1] = "TST" <=> n = 13
                   /\ UnaryOp[n + 1] = "COM" => n = 3
                   /\ UnaryOp[n + 1] \in {"LSR", "ASR"} => n \in {4, 7}
                   /\ UnaryOp[n + 1] = "ROL" => n = 9
<1>1. \A n \in 1..16 : /\ UnaryOp[n] = "TST" <=> n = 14
                       /\ UnaryOp[n] = "COM" => n = 4
                       /\ UnaryOp[n] \in {"LSR", "ASR"} => n \in {5, 8}
                       /\ UnaryOp[n] = "ROL" => n = 10
  BY SMT DEF UnaryOp
<1>2. \A n \in 0..15 : /\ n + 1 \in 1..16
                       /\ (n + 1 = 14 <=> n = 13) /\ (n + 1 = 4 <=> n = 3)
                       /\ (n + 1 \in {5, 8} <=> n \in {4, 7}) /\ (n + 1 = 10 <=> n = 9)
  BY SMT
<1> QED BY <1>1, <1>2

(* The byte at an address, with the memory of v09s.c. *)
LEMMA LikeAtAddress ==
  ASSUME NEW n \in 0..15, NEW o, OperandOK(o)
  PROVE  Like(S!AtAddress(n, o), AtAddress(n, o))
<1> DEFINE op == UnaryOp[n + 1]
           v == At(o.m, o.ea)
           u == Unary(op, v, o.m.cc)
           e == AtAddress(n, o)
<1>1. op \in UnaryOps \cup {"ill", "JMP"}
  BY UnaryNames
<1>2. o.m \in Machine /\ o.ea \in Word
  BY DEF OperandOK
<1>3. op \in UnaryOps => u \in Result8 /\ S!Unary(op, v, o.m.cc) = u
  BY <1>2, FieldType, MemoryType, UnaryType, SameUnary
<1>4. e \in Machine
  BY AtAddressType
<1>5. S!UnaryOp[n + 1] = op /\ S!At(o.m, o.ea) = v /\ S!Jump(o.m, o.ea) = Jump(o.m, o.ea)
  BY SameTables, SameMemory
<1> DEFINE su == S!Unary(op, v, o.m.cc)
<1>6. S!AtAddress(n, o) = CASE op = "ill" -> o.m
                            [] op = "JMP" -> Jump(o.m, o.ea)
                            [] op = "TST" -> [o.m EXCEPT !.cc = su.cc]
                            [] OTHER -> S!IntoByte(o.m, o.ea, su)
  BY <1>5, Zenon DEF S!AtAddress
<1>7. e = CASE op = "ill" -> o.m
            [] op = "JMP" -> Jump(o.m, o.ea)
            [] op = "TST" -> [o.m EXCEPT !.cc = u.cc]
            [] OTHER -> IntoByte(o.m, o.ea, u)
  BY Zenon DEF AtAddress
<1> HIDE DEF op, u, su, e
<1>8. CASE op \notin UnaryOps \/ op = "TST"
  <2>1. op \in {"ill", "JMP", "TST"} /\ (op = "TST" => su = u)
    BY <1>1, <1>3, <1>8 DEF UnaryOps, su
  <2>2. S!AtAddress(n, o) = e
    BY <1>6, <1>7, <2>1
  <2> QED BY <1>4, <2>2, LikeSelf DEF e
<1>9. CASE op \in UnaryOps /\ op # "TST"
  <2>1. op # "ill" /\ op # "JMP" /\ op # "TST" /\ su = u /\ u \in Result8
    BY <1>3, <1>9 DEF UnaryOps, su
  <2>2. S!AtAddress(n, o) = S!IntoByte(o.m, o.ea, u)
    BY <1>6, <2>1
  <2>3. e = IntoByte(o.m, o.ea, u)
    BY <1>7, <2>1
  <2> QED BY <1>2, <2>1, <2>2, <2>3, LikeIntoByte DEF e
<1> QED BY <1>8, <1>9

(* The rows of the instructions on one byte. *)
OneByteRow(m, n, row) == CASE row = 0 -> Row0(m, n) [] row = 4 -> Row4(m, n)
                           [] row = 5 -> Row5(m, n) [] row = 6 -> Row6(m, n)
                           [] row = 7 -> Row7(m, n)
OneByteMode(m, row) == CASE row = 0 -> DIRECT(m) [] row = 6 -> INDEXED(m) [] row = 7 -> EXTENDED(m)

(* A one-byte instruction works on a register or on memory, or is illegal. *)
LEMMA OneByteCases ==
  ASSUME NEW m \in Machine, NEW n \in 0..15, NEW row \in {0, 4, 5, 6, 7},
         row = 6 => UnaryOp[n + 1] # "ill"
  PROVE  /\ OneByteRow(m, n, row) \in Machine
         /\ row \in {0, 6, 7} => /\ OperandOK(OneByteMode(m, row))
                                 /\ OneByteMode(m, row).m.cc = m.cc
         /\ UnaryOp[n + 1] = "ill" => OneByteRow(m, n, row) = m
         /\ UnaryOp[n + 1] # "ill" /\ row \in {0, 6, 7} =>
              OneByteRow(m, n, row) = AtAddress(n, OneByteMode(m, row))
         /\ row \in {4, 5} => OneByteRow(m, n, row) = OnRegister(m, n, IF row = 4 THEN "a" ELSE "b")
<1> DEFINE e == OneByteRow(m, n, row)
<1>1. OperandOK(DIRECT(m)) /\ OperandOK(EXTENDED(m)) /\ OperandOK(INDEXED(m))
  BY DirectType, IndexedType
<1>2. DIRECT(m).m.cc = m.cc /\ EXTENDED(m).m.cc = m.cc /\ INDEXED(m).m.cc = m.cc
  <2>1. \A q \in 0..3 : ModeOf(m, q).m.cc = m.cc
    BY OperandKeeps
  <2>2. ModeOf(m, 1) = DIRECT(m) /\ ModeOf(m, 2) = INDEXED(m) /\ ModeOf(m, 3) = EXTENDED(m)
    BY DEF ModeOf
  <2>3. 1 \in 0..3 /\ 2 \in 0..3 /\ 3 \in 0..3
    OBVIOUS
  <2> QED BY <2>1, <2>2, <2>3
<1>3. /\ row = 0 => e = Row0(m, n) /\ OneByteMode(m, row) = DIRECT(m)
      /\ row = 4 => e = Row4(m, n)
      /\ row = 5 => e = Row5(m, n)
      /\ row = 6 => e = Row6(m, n) /\ OneByteMode(m, row) = INDEXED(m)
      /\ row = 7 => e = Row7(m, n) /\ OneByteMode(m, row) = EXTENDED(m)
  <2>1. row = 0 => e = Row0(m, n) /\ OneByteMode(m, row) = DIRECT(m)
    BY DEF OneByteRow, OneByteMode
  <2>2. row = 4 => e = Row4(m, n)
    BY DEF OneByteRow
  <2>3. row = 5 => e = Row5(m, n)
    BY DEF OneByteRow
  <2>4. row = 6 => e = Row6(m, n) /\ OneByteMode(m, row) = INDEXED(m)
    BY DEF OneByteRow, OneByteMode
  <2>5. row = 7 => e = Row7(m, n) /\ OneByteMode(m, row) = EXTENDED(m)
    BY DEF OneByteRow, OneByteMode
  <2> QED BY <2>1, <2>2, <2>3, <2>4, <2>5
<1> HIDE DEF e
<1>4. e \in Machine
  <2>1. /\ Row0(m, n) \in Machine /\ Row4(m, n) \in Machine /\ Row5(m, n) \in Machine
        /\ Row6(m, n) \in Machine /\ Row7(m, n) \in Machine
    <3>1. 0 \in {0, 1, 2}
      OBVIOUS
    <3> QED BY <3>1, RowTypes
  <2> QED BY <1>3, <2>1
<1>5. row \in {0, 6, 7} => /\ OperandOK(OneByteMode(m, row))
                           /\ OneByteMode(m, row).m.cc = m.cc
  BY <1>1, <1>2, <1>3
<1>6. UnaryOp[n + 1] = "ill" => e = m
  BY <1>3 DEF Row0, Row4, Row5, Row7, OnRegister
<1>7. UnaryOp[n + 1] # "ill" /\ row \in {0, 6, 7} => e = AtAddress(n, OneByteMode(m, row))
  BY <1>3 DEF Row0, Row6, Row7
<1>8. row \in {4, 5} => e = OnRegister(m, n, IF row = 4 THEN "a" ELSE "b")
  BY <1>3 DEF Row4, Row5
<1> QED BY <1>4, <1>5, <1>6, <1>7, <1>8 DEF e

(* TST leaves V, which is clear. *)
LEMMA TestLeavesV ==
  ASSUME NEW m \in Machine, "V" \notin m.cc
  PROVE  /\ \A o : OperandOK(o) /\ o.m.cc = m.cc => "V" \notin AtAddress(13, o).cc
         /\ \A r \in {"a", "b"} : "V" \notin OnRegister(m, 13, r).cc
<1>1. UnaryOp[13 + 1] = "TST"
  BY SMT DEF UnaryOp
<1>2. \A b : Unary("TST", b, m.cc).cc = SetNZ8(m.cc, b) /\ Unary("TST", b, m.cc).r = b
  <2> TAKE b
  <2> DEFINE c == SetNZ8(m.cc, b)
             u == Unary("TST", b, m.cc)
  <2>1. u = [r |-> b, cc |-> c]
    BY DEF Unary
  <2> HIDE DEF c, u
  <2>2. u.cc = c /\ u.r = b
    BY <2>1
  <2> QED BY <2>2 DEF c, u
<1>3. \A b : "V" \notin SetNZ8(m.cc, b)
  BY DEF SetNZ8, Put
<1>4. \A k \in Machine : \A c : [k EXCEPT !.cc = c].cc = c
  BY MachineFields
<1>5. ASSUME NEW o, OperandOK(o), o.m.cc = m.cc PROVE "V" \notin AtAddress(13, o).cc
  <2> DEFINE c == SetNZ8(m.cc, At(o.m, o.ea))
  <2>0. AtAddress(13, o) = [o.m EXCEPT !.cc = Unary("TST", At(o.m, o.ea), o.m.cc).cc]
    BY <1>1, Zenon DEF AtAddress
  <2>1. AtAddress(13, o) = [o.m EXCEPT !.cc = c]
    <3>1. Unary("TST", At(o.m, o.ea), o.m.cc).cc = c
      BY <1>2, <1>5, Zenon
    <3> HIDE DEF c
    <3> QED BY <2>0, <3>1, Zenon
  <2>2. "V" \notin c /\ o.m \in Machine
    BY <1>3, <1>5 DEF OperandOK
  <2> HIDE DEF c
  <2> QED BY <1>4, <2>1, <2>2
<1>6. ASSUME NEW r \in {"a", "b"} PROVE "V" \notin OnRegister(m, 13, r).cc
  <2> DEFINE c == SetNZ8(m.cc, m[r])
  <2>0. OnRegister(m, 13, r) = Into(m, r, Unary("TST", m[r], m.cc))
    BY <1>1 DEF OnRegister
  <2>1. OnRegister(m, 13, r) = [m EXCEPT ![r] = m[r], !.cc = c]
    <3>1. Unary("TST", m[r], m.cc).cc = c /\ Unary("TST", m[r], m.cc).r = m[r]
      BY <1>2, Zenon
    <3> HIDE DEF c
    <3> QED BY <2>0, <3>1, Zenon DEF Into
  <2>2. "V" \notin c
    BY <1>3
  <2> HIDE DEF c
  <2>3. [m EXCEPT ![r] = m[r], !.cc = c].cc = c
    BY MachineFields
  <2> QED BY <2>1, <2>2, <2>3
<1> QED BY <1>5, <1>6

(* NEG to CLR of v09s.c do what the rows of engine.c do. *)
LEMMA SameMonadic ==
  ASSUME NEW m \in Machine, NEW n \in 0..15, NEW row \in {0, 4, 5, 6, 7},
         row = 6 => LegalMode(m) /\ UnaryOp[n + 1] # "ill", n = 13 => "V" \notin m.cc
  PROVE  Like(S!Monadic(m, n, row), OneByteRow(m, n, row))
<1> DEFINE op == UnaryOp[n + 1]
           e == OneByteRow(m, n, row)
           result == CASE row = 0 -> S!AtAddress(n, S!DIRECT(m))
                     [] row = 4 -> S!OnRegister(m, n, "a")
                     [] row = 5 -> S!OnRegister(m, n, "b")
                     [] row = 6 -> S!AtAddress(n, S!postbyte(m))
                     [] row = 7 -> S!AtAddress(n, S!EXTENDED(m))
           c == S!Monadic(m, n, row)
<1>1. S!UnaryOp[n + 1] = op
  BY SameTables
<1>2. c = CASE op = "ill" -> m
            [] op = "TST" -> [result EXCEPT !.cc = @ \ {"V"}]
            [] OTHER -> result
  BY <1>1, Zenon DEF S!Monadic
<1>3. e \in Machine
  BY OneByteCases
<1>4. op # "ill" => Like(result, e)
  <2> SUFFICES ASSUME op # "ill" PROVE Like(result, e)
    OBVIOUS
  <2>1. CASE row \in {0, 6, 7}
    <3> DEFINE o == OneByteMode(m, row)
    <3>1. result = S!AtAddress(n, o)
      <4>1. row = 0 => result = S!AtAddress(n, o)
        BY SameModes DEF OneByteMode
      <4>2. row = 6 => result = S!AtAddress(n, o)
        BY PlainPostbyte DEF OneByteMode
      <4>3. row = 7 => result = S!AtAddress(n, o)
        BY SameModes DEF OneByteMode
      <4> QED BY <2>1, <4>1, <4>2, <4>3
    <3>2. OperandOK(o) /\ e = AtAddress(n, o)
      BY <2>1, OneByteCases
    <3> HIDE DEF o, e, result
    <3> QED BY <3>1, <3>2, LikeAtAddress
  <2>2. CASE row \in {4, 5}
    <3> DEFINE r == IF row = 4 THEN "a" ELSE "b"
    <3>1. result = S!OnRegister(m, n, r)
      <4>1. row = 4 => result = S!OnRegister(m, n, r)
        OBVIOUS
      <4>2. row = 5 => result = S!OnRegister(m, n, r)
        OBVIOUS
      <4> QED BY <2>2, <4>1, <4>2
    <3>2. e = OnRegister(m, n, r)
      BY <2>2, OneByteCases
    <3>3. S!OnRegister(m, n, r) = OnRegister(m, n, r)
      BY SameResults, Zenon
    <3>4. result = e
      BY <3>1, <3>2, <3>3
    <3> HIDE DEF result, e
    <3> QED BY <1>3, <3>4, LikeSelf
  <2> QED BY <2>1, <2>2
<1>5. op = "TST" => "V" \notin e.cc
  <2> SUFFICES ASSUME op = "TST" PROVE "V" \notin e.cc
    OBVIOUS
  <2>1. n = 13 /\ "V" \notin m.cc
    BY TestNames
  <2>2. CASE row \in {0, 6, 7}
    <3> DEFINE o == OneByteMode(m, row)
    <3>1. OperandOK(o) /\ o.m.cc = m.cc /\ e = AtAddress(n, o)
      BY <2>2, OneByteCases
    <3> HIDE DEF o, e
    <3> QED BY <2>1, <3>1, TestLeavesV
  <2>3. CASE row \in {4, 5}
    <3> DEFINE r == IF row = 4 THEN "a" ELSE "b"
    <3>1. e = OnRegister(m, n, r) /\ r \in {"a", "b"}
      BY <2>3, OneByteCases
    <3> HIDE DEF r, e
    <3> QED BY <2>1, <3>1, TestLeavesV
  <2> QED BY <2>2, <2>3
<1>6. op = "ill" => e = m
  BY OneByteCases
<1> HIDE DEF result, e, c, op
<1>7. CASE op = "ill"
  <2>1. c = e
    BY <1>2, <1>6, <1>7
  <2>2. Like(c, e)
    BY <1>3, <2>1, LikeSelf
  <2> QED BY <2>2 DEF c, e
<1>8. CASE op = "TST"
  <2>1. Like(result, e) /\ "V" \notin e.cc
    BY <1>4, <1>5, <1>8
  <2>2. result \in Machine /\ result.cc = e.cc
    BY <2>1 DEF Like
  <2>3. [result EXCEPT !.cc = @ \ {"V"}] = result
    <3>1. result.cc \ {"V"} = result.cc
      BY <2>1, <2>2
    <3>2. [result EXCEPT !.cc = result.cc] = result
      BY <2>2, MachineFields
    <3> QED BY <3>1, <3>2
  <2>4. c = result
    BY <1>2, <1>8, <2>3
  <2>5. Like(c, e)
    BY <2>1, <2>4
  <2> QED BY <2>5 DEF c, e
<1>9. CASE op # "ill" /\ op # "TST"
  <2>1. c = result
    BY <1>2, <1>9
  <2>2. Like(c, e)
    BY <1>4, <1>9, <2>1
  <2> QED BY <2>2 DEF c, e
<1> QED BY <1>7, <1>8, <1>9

(* What v09st.c makes of a byte. *)
LEMMA SameOneByte ==
  ASSUME NEW op \in UnaryOps, NEW b \in Byte, NEW cc \in SUBSET Flags, op # "COM",
         op \in {"LSR", "ASR"} => ("H" \in cc <=> Bit(b, 16) = 1),
         op = "ROL" => ("V" \in cc <=> Bit(b, 128) # Bit(b, 64)),
         op = "TST" => "V" \notin cc
  PROVE  T!OneByte(op, b, cc) = Unary(op, b, cc)
<1> DEFINE u == Unary(op, b, cc)
           keep == T!Kept(op)
<1>1. u \in Result8 /\ T!Unary(op, b, cc) = u
  BY UnaryType, SameUnary
<1>2. u = [r |-> u.r, cc |-> u.cc]
  BY <1>1 DEF Result8
<1>3. op = "TST" => T!OneByte(op, b, cc) = [r |-> b, cc |-> u.cc \ {"V"}]
  BY <1>1 DEF T!OneByte
<1>4. op # "TST" => T!OneByte(op, b, cc) = [r |-> u.r, cc |-> (u.cc \ keep) \cup (cc \cap keep)]
  <2> SUFFICES ASSUME op # "TST"
               PROVE  T!OneByte(op, b, cc) = [r |-> u.r, cc |-> (u.cc \ keep) \cup (cc \cap keep)]
    OBVIOUS
  <2> DEFINE x == T!Unary(op, b, cc)
             com == [r |-> b, cc |-> T!SetNZ8(cc \cup {"C"}, b) \ {"V"}]
             tst == [r |-> b, cc |-> x.cc \ {"V"}]
             any == [r |-> x.r, cc |-> (x.cc \ keep) \cup (cc \cap keep)]
  <2>1. T!OneByte(op, b, cc) = CASE op = "COM" -> com [] op = "TST" -> tst [] OTHER -> any
    BY DEF T!OneByte
  <2>2. any = [r |-> u.r, cc |-> (u.cc \ keep) \cup (cc \cap keep)]
    <3> HIDE DEF u, keep, x
    <3>1. x = u
      BY <1>1 DEF x
    <3> QED BY <3>1
  <2> HIDE DEF u, keep, com, tst, any
  <2>3. T!OneByte(op, b, cc) = any
    BY <2>1, Zenon
  <2> QED BY <2>2, <2>3
<1>5. CASE op = "TST"
  <2> DEFINE c == SetNZ8(cc, b)
  <2>1. u = [r |-> b, cc |-> c]
    BY <1>5 DEF Unary
  <2>2. "V" \notin c
    BY <1>5 DEF SetNZ8, Put
  <2> HIDE DEF c, u
  <2>3. u.r = b /\ u.cc \ {"V"} = u.cc
    BY <2>1, <2>2
  <2> QED BY <1>2, <1>3, <1>5, <2>3 DEF u
<1>6. CASE op \in {"LSR", "ASR"}
  <2>1. keep = {"H"}
    BY <1>6 DEF T!Kept
  <2>2. "H" \in u.cc <=> Bit(b, 16) = 1
    <3> DEFINE c(r) == SetNZ8(Put(Put(cc, "C", b % 2 = 1), "H", Bit(b, 16) = 1), r)
    <3>1. \A r : "H" \in c(r) <=> Bit(b, 16) = 1
      BY DEF SetNZ8, Put
    <3> DEFINE r1 == b \div 2
               r2 == b \div 2 + 128 * Bit(b, 128)
    <3>2. op = "LSR" => u = [r |-> r1, cc |-> c(r1)]
      BY DEF Unary
    <3>3. op = "ASR" => u = [r |-> r2, cc |-> c(r2)]
      BY DEF Unary
    <3> HIDE DEF c, u, r1, r2
    <3>4. u.cc \in {c(r1), c(r2)}
      BY <1>6, <3>2, <3>3
    <3> QED BY <3>1, <3>4
  <2>3. (u.cc \ keep) \cup (cc \cap keep) = u.cc
    BY <1>6, <2>1, <2>2
  <2> HIDE DEF u, keep
  <2> QED BY <1>2, <1>4, <1>6, <2>3 DEF u
<1>7. CASE op = "ROL"
  <2>1. keep = {"V"}
    BY <1>7 DEF T!Kept
  <2>2. "V" \in u.cc <=> Bit(b, 128) # Bit(b, 64)
    <3> DEFINE c(r) == SetNZ8(Put(Put(cc, "C", b >= 128), "V", Bit(b, 128) # Bit(b, 64)), r)
    <3>1. \A r : "V" \in c(r) <=> Bit(b, 128) # Bit(b, 64)
      BY DEF SetNZ8, Put
    <3> DEFINE r1 == ((2 * b) % 256) + Carry(cc)
    <3>2. u = [r |-> r1, cc |-> c(r1)]
      BY <1>7 DEF Unary
    <3> HIDE DEF c, u, r1
    <3>4. u.cc = c(r1)
      BY <3>2
    <3> QED BY <3>1, <3>4
  <2>3. (u.cc \ keep) \cup (cc \cap keep) = u.cc
    BY <1>7, <2>1, <2>2
  <2> HIDE DEF u, keep
  <2> QED BY <1>2, <1>4, <1>7, <2>3 DEF u
<1>8. CASE op \notin {"TST", "LSR", "ASR", "ROL"}
  <2>1. keep = {}
    BY <1>8 DEF T!Kept
  <2>2. (u.cc \ keep) \cup (cc \cap keep) = u.cc
    BY <2>1
  <2> HIDE DEF u, keep
  <2> QED BY <1>2, <1>4, <1>8, <2>2 DEF u
<1> QED BY <1>5, <1>6, <1>7, <1>8

(* The byte that a one-byte instruction works on. *)
WorkedByte(m, row) == CASE row = 4 -> m.a [] row = 5 -> m.b
                        [] OTHER -> At(OneByteMode(m, row).m, OneByteMode(m, row).ea)

(* So do those of v09st.c, where H and V are what the others make of them. *)
LEMMA SameSingle ==
  ASSUME NEW m \in Machine, NEW n \in 0..15, NEW row \in {0, 4, 5, 6, 7},
         row = 6 => LegalMode(m) /\ UnaryOp[n + 1] # "ill", n # 3, n = 13 => "V" \notin m.cc,
         n \in {4, 7} => ("H" \in m.cc <=> Bit(WorkedByte(m, row), 16) = 1),
         n = 9 => ("V" \in m.cc <=> Bit(WorkedByte(m, row), 128) # Bit(WorkedByte(m, row), 64))
  PROVE  Like(T!Single(m, n, row), OneByteRow(m, n, row))
<1> DEFINE op == UnaryOp[n + 1]
           e == OneByteRow(m, n, row)
           v == WorkedByte(m, row)
           o == CASE row = 0 -> T!DIRECT(m) [] row = 6 -> T!ByPostbyte(m) [] OTHER -> T!EXTENDED(m)
           r == IF row = 4 THEN "a" ELSE "b"
           inReg == T!OneByte(op, m[r], m.cc)
           inMem == T!OneByte(op, T!At(o.m, o.ea), o.m.cc)
           c == T!Single(m, n, row)
<1>1. op \in UnaryOps \cup {"ill", "JMP"} /\ (op \in UnaryOps => op # "ill" /\ op # "JMP")
  BY UnaryNames DEF UnaryOps
<1>2. e \in Machine
  BY OneByteCases
<1> DEFINE mem == CASE op = "ill" -> m
                    [] op = "JMP" -> T!Jump(o.m, o.ea)
                    [] op = "TST" -> [o.m EXCEPT !.cc = inMem.cc]
                    [] OTHER -> T!IntoByte(o.m, o.ea, inMem)
<1>3. c = IF row \in {4, 5} THEN IF op \in {"ill", "JMP"} THEN m ELSE T!Into(m, r, inReg)
          ELSE mem
  <2> DEFINE Alt(p) ==
               IF row \in {4, 5}
                 THEN IF p \in {"ill", "JMP"} THEN m ELSE T!Into(m, r, T!OneByte(p, m[r], m.cc))
                 ELSE CASE p = "ill" -> m
                        [] p = "JMP" -> T!Jump(o.m, o.ea)
                        [] p = "TST" -> [o.m EXCEPT !.cc = T!OneByte(p, T!At(o.m, o.ea), o.m.cc).cc]
                        [] OTHER -> T!IntoByte(o.m, o.ea, T!OneByte(p, T!At(o.m, o.ea), o.m.cc))
  <2>1. c = Alt(T!UnaryOp[n + 1])
    BY DEF T!Single
  <2>2. T!UnaryOp[n + 1] = op
    BY SameTables
  <2>3. c = Alt(op)
    <3> HIDE DEF Alt, op, c
    <3> QED BY <2>1, <2>2
  <2> QED BY <2>3
<1>4. op \in UnaryOps => T!OneByte(op, v, m.cc) = Unary(op, v, m.cc) /\ v \in Byte
  <2> SUFFICES ASSUME op \in UnaryOps
               PROVE  T!OneByte(op, v, m.cc) = Unary(op, v, m.cc) /\ v \in Byte
    OBVIOUS
  <2>1. m.cc \in SUBSET Flags /\ m.a \in Byte /\ m.b \in Byte
    BY FieldType
  <2>2. v \in Byte
    <3>1. row = 4 => v = m.a
      BY DEF WorkedByte
    <3>2. row = 5 => v = m.b
      BY DEF WorkedByte
    <3> DEFINE o1 == OneByteMode(m, row)
    <3>3. row \in {0, 6, 7} => v = At(o1.m, o1.ea)
      BY DEF WorkedByte
    <3>4. row \in {0, 6, 7} => o1.m \in Machine /\ o1.ea \in Word
      BY OneByteCases DEF OperandOK
    <3> HIDE DEF o1, v
    <3> QED BY <2>1, <3>1, <3>2, <3>3, <3>4, MemoryType
  <2>3. /\ op = "TST" <=> n = 13
        /\ op = "COM" => n = 3
        /\ op \in {"LSR", "ASR"} => n \in {4, 7}
        /\ op = "ROL" => n = 9
    BY TestNames
  <2> HIDE DEF v, op
  <2>4. /\ op # "COM"
        /\ op \in {"LSR", "ASR"} => ("H" \in m.cc <=> Bit(v, 16) = 1)
        /\ op = "ROL" => ("V" \in m.cc <=> Bit(v, 128) # Bit(v, 64))
        /\ op = "TST" => "V" \notin m.cc
    BY <2>3 DEF v
  <2> QED BY <2>1, <2>2, <2>4, SameOneByte
<1>5. CASE row \in {4, 5}
  <2>1. e = OnRegister(m, n, r)
    BY <1>5, OneByteCases
  <2>2. v = m[r]
    BY <1>5 DEF WorkedByte
  <2>3. CASE op \in {"ill", "JMP"}
    <3>1. e = m
      BY <2>1, <2>3 DEF OnRegister
    <3> HIDE DEF c, e, op, inReg, inMem, o, r, mem
    <3>3. c = m
      BY <1>3, <1>5, <2>3
    <3>4. Like(c, e)
      BY <1>2, <3>1, <3>3, LikeSelf
    <3> QED BY <3>4 DEF c, e
  <2>4. CASE op \in UnaryOps
    <3>1. e = Into(m, r, Unary(op, m[r], m.cc))
      BY <1>1, <2>1, <2>4 DEF OnRegister
    <3>2. inReg = Unary(op, m[r], m.cc)
      BY <1>4, <2>2, <2>4
    <3>3. T!Into(m, r, inReg) = Into(m, r, inReg)
      BY SameResults, Zenon
    <3>4. op # "ill" /\ op # "JMP"
      BY <1>1, <2>4
    <3> HIDE DEF c, e, op, inReg, inMem, o, r, mem
    <3>5. c = T!Into(m, r, inReg)
      BY <1>3, <1>5, <3>4
    <3>6. c = e
      BY <3>1, <3>2, <3>3, <3>5, Zenon
    <3>7. Like(c, e)
      BY <1>2, <3>6, LikeSelf
    <3> QED BY <3>7 DEF c, e
  <2> QED BY <1>1, <2>3, <2>4
<1>6. CASE row \in {0, 6, 7}
  <2>1. o = OneByteMode(m, row)
    <3>1. row = 0 => o = OneByteMode(m, row)
      BY SameModes DEF OneByteMode
    <3>2. row = 6 => o = OneByteMode(m, row)
      BY PlainPostbyte DEF OneByteMode, T!ByPostbyte
    <3>3. row = 7 => o = OneByteMode(m, row)
      BY SameModes DEF OneByteMode
    <3> QED BY <1>6, <3>1, <3>2, <3>3
  <2> HIDE DEF o
  <2>2. OperandOK(o) /\ o.m.cc = m.cc /\ o.m \in Machine /\ o.ea \in Word
    BY <1>6, <2>1, OneByteCases DEF OperandOK
  <2>3. v = At(o.m, o.ea) /\ T!At(o.m, o.ea) = At(o.m, o.ea)
    <3>1. row # 4 /\ row # 5
      BY <1>6
    <3> QED BY <2>1, <3>1, SameMemory DEF WorkedByte
  <2>4. op # "ill" => e = AtAddress(n, o)
    BY <1>6, <2>1, OneByteCases
  <2>5. op = "ill" => e = m
    BY OneByteCases
  <2> DEFINE u == Unary(op, At(o.m, o.ea), o.m.cc)
  <2>6. op \in UnaryOps => inMem = u /\ u \in Result8
    <3>1. op \in UnaryOps => inMem = u
      BY <1>4, <2>2, <2>3
    <3>2. op \in UnaryOps => u \in Result8
      BY <2>2, FieldType, MemoryType, UnaryType
    <3> QED BY <3>1, <3>2
  <2>7. op # "ill" => e = CASE op = "ill" -> o.m
                            [] op = "JMP" -> Jump(o.m, o.ea)
                            [] op = "TST" -> [o.m EXCEPT !.cc = u.cc]
                            [] OTHER -> IntoByte(o.m, o.ea, u)
    BY <2>4, Zenon DEF AtAddress
  <2>8. T!Jump(o.m, o.ea) = Jump(o.m, o.ea) /\ \A t : T!IntoByte(o.m, o.ea, t) = S!IntoByte(o.m, o.ea, t)
    BY SameMemory, SameStores, Zenon
  <2>9. c = mem
    <3>1. ~(row \in {4, 5})
      BY <1>6
    <3> HIDE DEF c, mem
    <3> QED BY <1>3, <3>1, Zenon
  <2> HIDE DEF c, e, op, inReg, inMem, r, u
  <2>10. CASE op = "ill"
    <3>1. c = e
      BY <2>5, <2>9, <2>10
    <3>2. Like(c, e)
      BY <1>2, <3>1, LikeSelf
    <3> QED BY <3>2 DEF c, e
  <2>11. CASE op = "JMP"
    <3>0. op # "ill"
      BY <2>11
    <3>1. c = Jump(o.m, o.ea)
      BY <2>8, <2>9, <2>11, <3>0
    <3>2. e = Jump(o.m, o.ea)
      BY <2>7, <2>11, <3>0
    <3>3. Like(c, e)
      BY <1>2, <3>1, <3>2, LikeSelf
    <3> QED BY <3>3 DEF c, e
  <2>12. CASE op \in UnaryOps /\ op = "TST"
    <3>0. op # "ill" /\ op # "JMP"
      BY <1>1, <2>12
    <3>1. c = [o.m EXCEPT !.cc = inMem.cc]
      BY <2>9, <2>12, <3>0
    <3>2. e = [o.m EXCEPT !.cc = u.cc]
      BY <2>7, <2>12, <3>0
    <3>3. c = e
      BY <2>6, <2>12, <3>1, <3>2
    <3>4. Like(c, e)
      BY <1>2, <3>3, LikeSelf
    <3> QED BY <3>4 DEF c, e
  <2>13. CASE op \in UnaryOps /\ op # "TST"
    <3>0. op # "ill" /\ op # "JMP"
      BY <1>1, <2>13
    <3>1. c = S!IntoByte(o.m, o.ea, u)
      <4>1. c = T!IntoByte(o.m, o.ea, inMem)
        BY <2>9, <2>13, <3>0
      <4> QED BY <2>6, <2>8, <2>13, <4>1
    <3>2. e = IntoByte(o.m, o.ea, u)
      BY <2>7, <2>13, <3>0
    <3>3. Like(c, e)
      BY <2>2, <2>6, <2>13, <3>1, <3>2, LikeIntoByte
    <3> QED BY <3>3 DEF c, e
  <2> QED BY <1>1, <2>10, <2>11, <2>12, <2>13
<1> QED BY <1>5, <1>6

-----------------------------------------------------------------------------
(* The tables from opcode $80 on.                                          *)

(* The two old simulators work out an operand alike. *)
LEMMA TwinOperands ==
  /\ \A m : T!postbyte(m) = S!postbyte(m)
  /\ \A m : \A q \in 0..3 : T!eaddr8(m, q) = S!eaddr8(m, q) /\ T!eaddr16(m, q) = S!eaddr16(m, q)
<1>1. ASSUME NEW m PROVE T!postbyte(m) = S!postbyte(m)
  <2> DEFINE b == At(m, m.pc)
             five == Offset5(Skip(m, 1), b)
             i == IndexedMode(Skip(m, 1), b)
  <2>1. S!postbyte(m) = CASE b < 128 -> five [] b >= 128 /\ Bit(b, 16) = 0 -> i [] OTHER -> Indirect(i)
    BY SameFlags, SameMemory, SameModes, Zenon DEF S!postbyte, S!Mode
  <2>2. T!postbyte(m) = CASE b < 128 -> five [] b >= 128 /\ Bit(b, 16) = 0 -> i [] OTHER -> Indirect(i)
    BY SameFlags, SameMemory, SameModes, Zenon DEF T!postbyte, T!Mode
  <2> HIDE DEF b, five, i
  <2> QED BY <2>1, <2>2, Zenon
<1>2. ASSUME NEW m, NEW q \in 0..3 PROVE T!eaddr8(m, q) = S!eaddr8(m, q)
  <2>1. /\ S!IMM8(m) = T!IMM8(m) /\ S!DIRECT(m) = T!DIRECT(m) /\ S!EXTENDED(m) = T!EXTENDED(m)
        /\ S!postbyte(m) = T!postbyte(m)
    BY <1>1, SameModes, Zenon
  <2> QED BY <2>1 DEF T!eaddr8, S!eaddr8
<1>3. ASSUME NEW m, NEW q \in 0..3 PROVE T!eaddr16(m, q) = S!eaddr16(m, q)
  <2>1. S!IMM16(m) = T!IMM16(m) /\ T!eaddr8(m, q) = S!eaddr8(m, q)
    BY <1>2, SameModes, Zenon
  <2> QED BY <2>1 DEF T!eaddr16, S!eaddr16
<1> QED BY <1>1, <1>2, <1>3

(* From $80 on the two old simulators do the same. *)
LEMMA TwinPieces ==
  ASSUME NEW m \in Machine, NEW q \in 0..3, NEW flag \in {0, 1, 2}
  PROVE  /\ T!subd(m, q, flag) = S!subd(m, q, flag)
         /\ T!cmpx(m, q, flag) = S!cmpx(m, q, flag)
         /\ T!SumD(m, q) = S!SumD(m, q)
         /\ q # 0 => T!Call(m, q) = S!jsr(m, q)
         /\ q = 0 => T!Call(m, q) = S!bsr(m)
         /\ \A r : /\ T!Moves(m, 12, q, r) = S!Load(m, q, r) /\ T!Moves(m, 14, q, r) = S!Load(m, q, r)
                   /\ T!Moves(m, 13, q, r) = S!Store(m, q, r) /\ T!Moves(m, 15, q, r) = S!Store(m, q, r)
         /\ \A n \in 0..15 : n \notin {3, 12, 13, 14, 15} =>
              \A r : T!Arithmetic(m, n, q, r) = S!Dyadic(m, n, q, r)
<1>1. /\ T!eaddr8(m, q) = S!eaddr8(m, q) /\ T!eaddr16(m, q) = S!eaddr16(m, q)
      /\ T!Operand8(m, q) = S!eaddr8(m, q) /\ T!Operand16(m, q) = S!eaddr16(m, q)
  BY TwinOperands DEF T!Operand8, T!Operand16
<1>2. /\ \A o : T!WordAt(o.m, o.ea) = S!WordAt(o.m, o.ea)
      /\ T!D(m) = S!D(m) /\ \A r : T!Reg(m, r) = S!Reg(m, r)
      /\ \A k, v : T!SetD(k, v) = S!SetD(k, v)
      /\ \A k, t : T!IntoD(k, t) = S!IntoD(k, t)
      /\ \A a, b, cc : T!Sub16(a, b, cc) = S!Sub16(a, b, cc)
      /\ \A a, b, cc : T!Add16(a, b, cc) = S!Add16(a, b, cc)
      /\ \A k, d : T!Subroutine(k, d) = S!Subroutine(k, d)
      /\ \A o, r : T!Load16(o, r) = S!Load16(o, r) /\ T!Store16(o, r) = S!Store16(o, r)
  BY SameMemory, SameRegs, SameResults, SameWide, SameStores, Zenon
<1>3. \A r, keep : T!Difference(m, q, r, keep) = S!Difference(m, q, r, keep)
  BY <1>1, <1>2 DEF T!Difference, S!Difference
<1>4. T!subd(m, q, flag) = S!subd(m, q, flag) /\ T!cmpx(m, q, flag) = S!cmpx(m, q, flag)
  BY <1>3, Zenon DEF T!subd, S!subd, T!cmpx, S!cmpx
<1>5. T!SumD(m, q) = S!SumD(m, q)
  BY <1>1, <1>2 DEF T!SumD, S!SumD
<1>6. q # 0 => T!Call(m, q) = S!jsr(m, q)
  BY <1>1, <1>2 DEF T!Call, S!jsr
<1>7. q = 0 => T!Call(m, q) = S!bsr(m)
  <2>1. T!bsr(m) = S!bsr(m)
    BY <1>2, SameMemory, SameFlags, Zenon DEF T!bsr, S!bsr
  <2> QED BY <2>1 DEF T!Call
<1>8. \A k : T!KeepV(k, m) = S!KeepV(k, m)
  BY SameFlags DEF T!KeepV, S!KeepV
<1>9. \A r : /\ T!Moves(m, 12, q, r) = S!Load(m, q, r) /\ T!Moves(m, 14, q, r) = S!Load(m, q, r)
             /\ T!Moves(m, 13, q, r) = S!Store(m, q, r) /\ T!Moves(m, 15, q, r) = S!Store(m, q, r)
  BY <1>1, <1>2, <1>8 DEF T!Moves, S!Load, S!Store
<1>10. \A n \in 0..15 : n \notin {3, 12, 13, 14, 15} =>
         \A r : T!Arithmetic(m, n, q, r) = S!Dyadic(m, n, q, r)
  BY <1>1, SameStores DEF T!Arithmetic, S!Dyadic
<1> QED BY <1>4, <1>5, <1>6, <1>7, <1>9, <1>10

(* v09s.c and v09st.c have the same table from opcode $80 on. *)
LEMMA TwinColumns ==
  ASSUME NEW m \in Machine, NEW op \in Byte, op \div 16 >= 8, NEW flag \in {0, 1, 2}, NEW key
  PROVE  T!PerformSt(m, op, flag, key) =
           S!Columns(m, op % 16, (op \div 16) % 4, op \div 16 < 12, flag)
<1> DEFINE n == op % 16
           row == op \div 16
           q == row % 4
           low == row < 12
           word == IF low THEN <<"x", "y">> ELSE <<"u", "s">>
           r1 == word[IF flag = 0 THEN 1 ELSE 2]
           r2 == IF low THEN "a" ELSE "b"
<1>1. op \in Int /\ n \in 0..15 /\ row \in 8..15 /\ q \in 0..3
  BY ByteDef, SMT
<1> DEFINE a1 == T!Simple(m, n)
           a2 == T!Conditional(m, n, flag)
           a3 == CASE n < 4 -> T!LoadAddress(m, n) [] n \in 4..7 -> T!Stack(m, n)
                   [] n \in {11, 15} -> T!Interrupts(m, n, flag, key)
                   [] n = 13 -> T!mul(m) [] OTHER -> T!Row3(m, n, flag)
           a4 == T!Single(m, n, row)
           a5 == T!Sums(m, n, q, low, flag)
           a6 == T!Call(m, q)
           a7 == T!Moves(m, n, q, "d")
           a8 == T!Moves(m, n, q, r1)
           a9 == T!Arithmetic(m, n, q, r2)
           p == T!PerformSt(m, op, flag, key)
           c == S!Columns(m, n, q, low, flag)
<1>2. p = CASE row = 1 -> a1
            [] row = 2 -> a2
            [] row = 3 -> a3
            [] row < 8 /\ row \notin 1..3 -> a4
            [] row >= 8 /\ (n = 3 \/ (n = 12 /\ low)) -> a5
            [] row >= 8 /\ n = 13 /\ low -> a6
            [] row >= 8 /\ n \in {12, 13} /\ ~low -> a7
            [] row >= 8 /\ n \in {14, 15} -> a8
            [] OTHER -> a9
  BY DEF T!PerformSt
<1>3. c = S!Columns(m, n, q, low, flag) /\ r1 = IF low THEN IF flag = 0 THEN "x" ELSE "y"
                                                ELSE IF flag = 0 THEN "u" ELSE "s"
  BY SMT
<1>4. row # 1 /\ row # 2 /\ row # 3 /\ ~(row < 8) /\ row >= 8
  BY <1>1, SMT
<1> DEFINE one(a, b) == IF flag = 0 THEN a ELSE b
           b14 == S!Load(m, q, IF low THEN one("x", "y") ELSE one("u", "s"))
           b15 == S!Store(m, q, IF low THEN one("x", "y") ELSE one("u", "s"))
<1>5. c = CASE n = 3 -> IF low THEN S!subd(m, q, flag) ELSE S!SumD(m, q)
            [] n = 12 -> IF low THEN S!cmpx(m, q, flag) ELSE S!Load(m, q, "d")
            [] n = 13 /\ low -> IF q = 0 THEN S!bsr(m) ELSE S!jsr(m, q)
            [] n = 13 /\ ~low -> S!Store(m, q, "d")
            [] n = 14 -> b14
            [] n = 15 -> b15
            [] OTHER -> S!Dyadic(m, n, q, r2)
  BY DEF S!Columns
<1>6. /\ a5 = CASE n = 12 -> T!cmpx(m, q, flag)
                [] n = 3 /\ low -> T!subd(m, q, flag)
                [] n = 3 /\ ~low -> T!SumD(m, q)
  BY DEF T!Sums
<1>7. b14 = S!Load(m, q, r1) /\ b15 = S!Store(m, q, r1)
  BY <1>3, Zenon
<1> HIDE DEF n, row, q, low, r1, r2, a1, a2, a3, a4, a5, a6, a7, a8, a9, p, c, b14, b15
<1>8. /\ T!subd(m, q, flag) = S!subd(m, q, flag)
      /\ T!cmpx(m, q, flag) = S!cmpx(m, q, flag)
      /\ T!SumD(m, q) = S!SumD(m, q)
      /\ a6 = IF q = 0 THEN S!bsr(m) ELSE S!jsr(m, q)
      /\ n = 12 => a7 = S!Load(m, q, "d")
      /\ n = 13 => a7 = S!Store(m, q, "d")
      /\ n = 14 => a8 = S!Load(m, q, r1)
      /\ n = 15 => a8 = S!Store(m, q, r1)
      /\ n \notin {3, 12, 13, 14, 15} => a9 = S!Dyadic(m, n, q, r2)
  BY <1>1, TwinPieces DEF a6, a7, a8, a9
<1>9. CASE n = 3
  <2>1. n # 12 /\ n # 13 /\ n # 14 /\ n # 15
    BY <1>9
  <2>2. p = a5
    BY <1>2, <1>4, <1>9, <2>1, Zenon
  <2>3. a5 = IF low THEN S!subd(m, q, flag) ELSE S!SumD(m, q)
    BY <1>6, <1>8, <1>9, <2>1
  <2>4. c = IF low THEN S!subd(m, q, flag) ELSE S!SumD(m, q)
    BY <1>5, <1>9, <2>1, Zenon
  <2> QED BY <2>2, <2>3, <2>4 DEF p, c, n, q, low, row
<1>10. CASE n = 12
  <2>1. n # 3 /\ n # 13 /\ n # 14 /\ n # 15
    BY <1>10
  <2>2. p = IF low THEN a5 ELSE a7
    <3>1. CASE low
      BY <1>2, <1>4, <1>10, <2>1, <3>1, Zenon
    <3>2. CASE ~low
      <4>1. n \in {12, 13}
        BY <1>10
      <4> QED BY <1>2, <1>4, <1>10, <2>1, <3>2, <4>1, Zenon
    <3> QED BY <3>1, <3>2
  <2>3. a5 = S!cmpx(m, q, flag)
    BY <1>6, <1>8, <1>10, <2>1
  <2>4. c = IF low THEN S!cmpx(m, q, flag) ELSE S!Load(m, q, "d")
    BY <1>5, <1>10, <2>1, Zenon
  <2> QED BY <1>8, <1>10, <2>2, <2>3, <2>4 DEF p, c, n, q, low, row
<1>11. CASE n = 13
  <2>1. n # 3 /\ n # 12 /\ n # 14 /\ n # 15
    BY <1>11
  <2>2. p = IF low THEN a6 ELSE a7
    <3>1. CASE low
      BY <1>2, <1>4, <1>11, <2>1, <3>1, Zenon
    <3>2. CASE ~low
      <4>1. n \in {12, 13}
        BY <1>11
      <4> QED BY <1>2, <1>4, <1>11, <2>1, <3>2, <4>1, Zenon
    <3> QED BY <3>1, <3>2
  <2>4. c = IF low THEN IF q = 0 THEN S!bsr(m) ELSE S!jsr(m, q) ELSE S!Store(m, q, "d")
    BY <1>5, <1>11, <2>1, Zenon
  <2> QED BY <1>8, <1>11, <2>2, <2>4 DEF p, c, n, q, low, row
<1>12. CASE n \in {14, 15}
  <2>1. n # 3 /\ n # 12 /\ n # 13
    BY <1>12
  <2>2. p = a8
    BY <1>2, <1>4, <1>12, <2>1, Zenon
  <2>4. c = IF n = 14 THEN b14 ELSE b15
    BY <1>5, <1>12, <2>1
  <2> QED BY <1>7, <1>8, <1>12, <2>2, <2>4 DEF p, c, n, q, low, row
<1>13. CASE n \notin {3, 12, 13, 14, 15}
  <2>1. n # 3 /\ n # 12 /\ n # 13 /\ n # 14 /\ n # 15
    BY <1>13
  <2>2. p = a9
    BY <1>2, <1>4, <2>1, Zenon
  <2>4. c = S!Dyadic(m, n, q, r2)
    BY <1>5, <2>1, Zenon
  <2> QED BY <1>8, <1>13, <2>2, <2>4 DEF p, c, n, q, low, row
<1> QED BY <1>9, <1>10, <1>11, <1>12, <1>13
=============================================================================
