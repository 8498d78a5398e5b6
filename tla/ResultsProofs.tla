--------------------------- MODULE ResultsProofs ---------------------------
(***************************************************************************)
(* Theorems about modules Codec and Results.                               *)
(***************************************************************************)
EXTENDS Results, SequenceTheorems, TLAPS

-----------------------------------------------------------------------------
(* Numbers and commands as bytes                                           *)

LEMMA BytesOfNumber ==
  ASSUME NEW n \in Nat, Four(n)
  PROVE  /\ Bytes4(n) \in Seq(Byte) /\ Len(Bytes4(n)) = 4
         /\ Number4(Bytes4(n)) = n
<1>. DEFINE a == n \div 256
            b == n \div 65536
            c == n \div 16777216
<1>1. /\ a \in Nat /\ b \in Nat /\ c \in Nat
      /\ n % 256 \in 0 .. 255 /\ a % 256 \in 0 .. 255 /\ b % 256 \in 0 .. 255 /\ c % 256 \in 0 .. 255
  OBVIOUS
<1>2. n = (n % 256) + 256 * a /\ a = (a % 256) + 256 * b /\ b = (b % 256) + 256 * c
  OBVIOUS
<1>3. c <= 255 /\ c % 256 = c
  BY DEF Four, Max8
<1>4. n = (n % 256) + 256 * (a % 256) + 65536 * (b % 256) + 16777216 * (c % 256)
  BY <1>1, <1>2, <1>3
<1>5. Bytes4(n) = <<n % 256, a % 256, b % 256, c % 256>>
  BY DEF Bytes4
<1>. HIDE DEF a, b, c
<1>. QED
  BY <1>1, <1>4, <1>5 DEF Number4, Byte, Max8

-----------------------------------------------------------------------------
(* Parts of concatenations                                                 *)

LEMMA Middle ==
  ASSUME NEW S, NEW s \in Seq(S), NEW t \in Seq(S), NEW u \in Seq(S)
  PROVE  SubSeq(s \o (t \o u), Len(s) + 1, Len(s) + Len(t)) = t
<1>. DEFINE b == s \o (t \o u)
<1>1. Len(s) \in Nat /\ Len(t) \in Nat /\ Len(u) \in Nat
  OBVIOUS
<1>2. /\ t \o u \in Seq(S) /\ Len(t \o u) = Len(t) + Len(u)
      /\ \A i \in 1 .. Len(t) + Len(u) : (t \o u)[i] = IF i <= Len(t) THEN t[i] ELSE u[i - Len(t)]
  BY ConcatProperties
<1>3. /\ b \in Seq(S) /\ Len(b) = Len(s) + Len(t) + Len(u)
      /\ \A i \in 1 .. Len(s) + (Len(t) + Len(u)) :
           b[i] = IF i <= Len(s) THEN s[i] ELSE (t \o u)[i - Len(s)]
  BY <1>1, <1>2, ConcatProperties
<1>. HIDE DEF b
<1>4. \A i \in Len(s) + 1 .. Len(s) + Len(t) : b[i] = t[i - Len(s)] /\ b[i] \in S
  BY <1>1, <1>2, <1>3
<1>. DEFINE v == SubSeq(b, Len(s) + 1, Len(s) + Len(t))
<1>5. v \in Seq(S) /\ Len(v) = Len(t) /\ \A i \in 1 .. Len(t) : v[i] = b[Len(s) + i]
  BY <1>1, <1>4, SubSeqProperties
<1>. HIDE DEF v
<1>6. \A i \in 1 .. Len(t) : v[i] = t[i]
  BY <1>1, <1>4, <1>5
<1>7. v = t
  BY <1>5, <1>6, SeqEqual
<1>. QED
  BY <1>7 DEF v, b

LEMMA Back ==
  ASSUME NEW S, NEW s \in Seq(S), NEW t \in Seq(S)
  PROVE  SubSeq(s \o t, Len(s) + 1, Len(s \o t)) = t
<1>1. <<>> \in Seq(S) /\ t \o <<>> = t
  BY ConcatEmptySeq, EmptySeq
<1>. QED
  BY <1>1, Middle, ConcatProperties

LEMMA Front ==
  ASSUME NEW S, NEW s \in Seq(S), NEW t \in Seq(S)
  PROVE  SubSeq(s \o t, 1, Len(s)) = s
<1>1. <<>> \in Seq(S) /\ <<>> \o (s \o t) = s \o t /\ s \o t \in Seq(S) /\ Len(<<>>) = 0
  BY ConcatProperties, ConcatEmptySeq, EmptySeq
<1>. QED
  BY <1>1, Middle

-----------------------------------------------------------------------------
(* Commands as bytes                                                       *)

\* A command as it is sent: arguments of a byte, a buffer whose length fits in four
\* bytes, and no more of buf1 than one byte counts.
Short == {s \in Seq(Byte) : Four(Len(s))}
Short1 == {s \in Seq(Byte) : Len(s) <= Max8}
Cmd == [cmd : Byte, arg1 : Byte, arg2 : Byte, buf : Short, buf1 : Short1]

\* The head of an encoded command: four bytes and the length of its buffer.
Counts(c) == <<c.cmd, c.arg1, c.arg2, Len(c.buf1)>>

LEMMA Parts ==
  ASSUME NEW c \in Cmd
  PROVE  /\ c.buf \in Seq(Byte) /\ Len(c.buf) \in Nat /\ Four(Len(c.buf))
         /\ c.buf1 \in Seq(Byte) /\ Len(c.buf1) \in Byte /\ Len(c.buf1) \in Nat
         /\ Counts(c) \in Seq(Byte) /\ Len(Counts(c)) = 4
         /\ Bytes4(Len(c.buf)) \in Seq(Byte) /\ Len(Bytes4(Len(c.buf))) = 4
         /\ Number4(Bytes4(Len(c.buf))) = Len(c.buf)
         /\ Encode(c) = Counts(c) \o Bytes4(Len(c.buf)) \o c.buf \o c.buf1
<1>1. c.cmd \in Byte /\ c.arg1 \in Byte /\ c.arg2 \in Byte /\ c.buf \in Short /\ c.buf1 \in Short1
  BY DEF Cmd
<1>2. c.buf \in Seq(Byte) /\ Four(Len(c.buf))
  BY <1>1 DEF Short
<1>3. c.buf1 \in Seq(Byte) /\ Len(c.buf1) <= Max8
  BY <1>1 DEF Short1
<1>4. Len(c.buf) \in Nat /\ Len(c.buf1) \in Nat
  BY <1>2, <1>3
<1>5. Len(c.buf1) \in Byte
  BY <1>3, <1>4 DEF Byte
<1>6. Counts(c) \in Seq(Byte) /\ Len(Counts(c)) = 4
  BY <1>1, <1>5 DEF Counts
<1>7. SubSeq(c.buf1, 1, Lower(Len(c.buf1), Max8)) = c.buf1
  BY <1>3, SubSeqFull DEF Lower
<1>8. Encode(c) = Counts(c) \o Bytes4(Len(c.buf)) \o c.buf \o c.buf1
  BY <1>7 DEF Encode, Counts
<1>. QED
  BY <1>2, <1>3, <1>4, <1>5, <1>6, <1>8, BytesOfNumber

LEMMA Longer ==
  \A s, t \in Seq(Byte) :
    s \o t \in Seq(Byte) /\ Len(s \o t) = Len(s) + Len(t) /\ Len(s \o t) \in Nat
BY ConcatProperties

LEMMA Regroup == \A s, t, u \in Seq(Byte) : (s \o t) \o u = s \o (t \o u)
BY ConcatAssociative

LEMMA EncodeBytes ==
  ASSUME NEW c \in Cmd
  PROVE  Encode(c) \in Seq(Byte) /\ Len(Encode(c)) = 8 + Len(c.buf) + Len(c.buf1)
<1>1. /\ Counts(c) \o Bytes4(Len(c.buf)) \in Seq(Byte)
      /\ Len(Counts(c) \o Bytes4(Len(c.buf))) = 8
  <2>1. Len(Counts(c)) = 4 /\ Len(Bytes4(Len(c.buf))) = 4
    BY Parts
  <2>2. Len(Counts(c) \o Bytes4(Len(c.buf))) = Len(Counts(c)) + Len(Bytes4(Len(c.buf)))
    BY Parts, Longer
  <2>3. Counts(c) \o Bytes4(Len(c.buf)) \in Seq(Byte)
    BY Parts, Longer
  <2>. QED
    BY <2>1, <2>2, <2>3
<1>2. /\ Counts(c) \o Bytes4(Len(c.buf)) \o c.buf \in Seq(Byte)
      /\ Len(Counts(c) \o Bytes4(Len(c.buf)) \o c.buf) = 8 + Len(c.buf)
  BY <1>1, Parts, Longer
<1>. QED
  BY <1>2, Parts, Longer

\* Where a command, followed by the bytes r, has what.
Lengths(c) == [buf |-> Len(c.buf), buf1 |-> Len(c.buf1)]
LEMMA Places ==
  ASSUME NEW c \in Cmd, NEW r \in Seq(Byte)
  PROVE  LET b == Encode(c) \o r
         IN  /\ HasHead(b) /\ DecodeHead(b) = Lengths(c)
             /\ Size(b) = Len(Encode(c)) /\ Size(b) <= Len(b) /\ Len(b) = Size(b) + Len(r)
             /\ b[1] = c.cmd /\ b[2] = c.arg1 /\ b[3] = c.arg2
             /\ SubSeq(b, 9, 8 + Len(c.buf)) = c.buf
             /\ SubSeq(b, 9 + Len(c.buf), 8 + Len(c.buf) + Len(c.buf1)) = c.buf1
             /\ Leading(b) = Encode(c) /\ Rest(b) = r
<1>. DEFINE b == Encode(c) \o r
            h == Counts(c)
            f == Bytes4(Len(c.buf))
            n == Len(c.buf)
            k == Len(c.buf1)
            u == c.buf
            v == c.buf1
<1>1. /\ u \in Seq(Byte) /\ v \in Seq(Byte) /\ h \in Seq(Byte) /\ f \in Seq(Byte)
      /\ Len(u) = n /\ Len(v) = k /\ Len(h) = 4 /\ Len(f) = 4 /\ Number4(f) = n
      /\ n \in Nat /\ k \in Nat
  BY Parts
<1>2. h[1] = c.cmd /\ h[2] = c.arg1 /\ h[3] = c.arg2 /\ h[4] = k
  BY DEF Counts
<1>3. Lengths(c) = [buf |-> n, buf1 |-> k] /\ n = Len(c.buf) /\ k = Len(c.buf1) /\ u = c.buf /\ v = c.buf1
  BY DEF Lengths
<1>4. Encode(c) = h \o f \o u \o v /\ Encode(c) \in Seq(Byte) /\ Len(Encode(c)) = 8 + n + k
  BY Parts, EncodeBytes
<1>5. b = Encode(c) \o r /\ Len(r) \in Nat
  OBVIOUS
<1>6. SubSeq(b, 8 + n + k + 1, Len(b)) = r /\ SubSeq(b, 1, 8 + n + k) = Encode(c)
  BY <1>4, Back, Front
<1>. HIDE DEF b, h, f, n, k, u, v
<1>18. b \in Seq(Byte) /\ Len(b) = 8 + n + k + Len(r)
  BY <1>1, <1>4, <1>5, Longer
<1>19. /\ h \o f \in Seq(Byte) /\ Len(h \o f) = 8
       /\ h \o f \o u \in Seq(Byte) /\ Len(h \o f \o u) = 8 + n
       /\ v \o r \in Seq(Byte) /\ u \o (v \o r) \in Seq(Byte)
  <2>1. h \o f \in Seq(Byte) /\ Len(h \o f) = Len(h) + Len(f)
    BY <1>1, Longer
  <2>2. h \o f \o u \in Seq(Byte) /\ Len(h \o f \o u) = Len(h \o f) + Len(u)
    BY <1>1, <2>1, Longer
  <2>3. v \o r \in Seq(Byte) /\ u \o (v \o r) \in Seq(Byte)
    BY <1>1, Longer
  <2>. QED
    BY <1>1, <2>1, <2>2, <2>3
<1>7. b = (h \o f \o u) \o (v \o r)
  <2>1. ((h \o f \o u) \o v) \o r = (h \o f \o u) \o (v \o r)
    <3>1. h \o f \o u \in Seq(Byte) /\ v \in Seq(Byte) /\ r \in Seq(Byte)
      BY <1>1, <1>19
    <3>. QED
      BY <3>1, Regroup, Zenon
  <2>. QED
    BY <1>4, <1>5, <2>1
<1>8. b = (h \o f) \o (u \o (v \o r))
  <2>1. ((h \o f) \o u) \o (v \o r) = (h \o f) \o (u \o (v \o r))
    <3>1. h \o f \in Seq(Byte) /\ u \in Seq(Byte) /\ v \o r \in Seq(Byte)
      BY <1>1, <1>19
    <3>. QED
      BY <3>1, Regroup, Zenon
  <2>. QED
    BY <1>7, <2>1
<1>9. b = h \o (f \o (u \o (v \o r)))
  <2>1. (h \o f) \o (u \o (v \o r)) = h \o (f \o (u \o (v \o r)))
    <3>1. h \in Seq(Byte) /\ f \in Seq(Byte) /\ u \o (v \o r) \in Seq(Byte)
      BY <1>1, <1>19
    <3>. QED
      BY <3>1, Regroup, Zenon
  <2>. QED
    BY <1>8, <2>1
<1>10. SubSeq(b, 5, 8) = f
  <2>1. SubSeq(b, Len(h) + 1, Len(h) + Len(f)) = f
    BY <1>1, <1>9, <1>19, Middle
  <2>. QED
    BY <1>1, <2>1
<1>11. SubSeq(b, 9, 8 + n) = u
  <2>1. SubSeq(b, Len(h \o f) + 1, Len(h \o f) + Len(u)) = u
    BY <1>1, <1>8, <1>19, Middle
  <2>. QED
    BY <1>1, <1>19, <2>1
<1>12. SubSeq(b, 9 + n, 8 + n + k) = v
  <2>1. SubSeq(b, Len(h \o f \o u) + 1, Len(h \o f \o u) + Len(v)) = v
    BY <1>1, <1>7, <1>19, Middle
  <2>2. 8 + n + 1 = 9 + n
    BY <1>1
  <2>. QED
    BY <1>1, <1>19, <2>1, <2>2
<1>13. b[1] = c.cmd /\ b[2] = c.arg1 /\ b[3] = c.arg2 /\ b[4] = k
  <2>1. f \o (u \o (v \o r)) \in Seq(Byte) /\ Len(f \o (u \o (v \o r))) \in Nat
    BY <1>1, <1>19, Longer
  <2>2. \A i \in 1 .. Len(h) + Len(f \o (u \o (v \o r))) : i <= Len(h) => b[i] = h[i]
    BY <1>1, <1>9, <1>19, <2>1, ConcatProperties
  <2>3. \A i \in 1 .. 4 : b[i] = h[i]
    <3>1. PICK g \in Nat : g = Len(f \o (u \o (v \o r)))
      BY <2>1
    <3>2. \A i \in 1 .. 4 + g : i <= 4 => b[i] = h[i]
      BY <1>1, <2>2, <3>1
    <3>. QED
      BY <3>2
  <2>. QED
    BY <1>2, <2>3
<1>14. DecodeHead(b) = [buf |-> n, buf1 |-> k] /\ Size(b) = 8 + n + k
  BY <1>1, <1>10, <1>13 DEF DecodeHead, Size
<1>15. HasHead(b) /\ Size(b) <= Len(b)
  BY <1>1, <1>5, <1>14, <1>18 DEF HasHead
<1>17. Leading(b) = Encode(c) /\ Rest(b) = r
  BY <1>6, <1>14 DEF Leading, Rest
<1>20. Size(b) = Len(Encode(c)) /\ Len(b) = Size(b) + Len(r)
  BY <1>1, <1>4, <1>14, <1>18
<1>21. DecodeHead(b) = Lengths(c) /\ SubSeq(b, 9, 8 + Len(c.buf)) = c.buf
  BY <1>3, <1>11, <1>14
<1>22. SubSeq(b, 9 + Len(c.buf), 8 + Len(c.buf) + Len(c.buf1)) = c.buf1
  BY <1>3, <1>12
<1>. QED
  BY <1>13, <1>15, <1>17, <1>20, <1>21, <1>22 DEF b

\* Alone, it is decoded as it was.
LEMMA DecodeSent ==
  ASSUME NEW c \in Cmd
  PROVE  Decodable(Encode(c)) /\ Decode(Encode(c)) = c
<1>1. PICK b : b = Encode(c)
  OBVIOUS
<1>2. PICK n \in Nat, k \in Nat : n = Len(c.buf) /\ k = Len(c.buf1)
  BY Parts
<1>3. <<>> \in Seq(Byte) /\ Len(<<>>) = 0 /\ b = Encode(c) \o <<>>
  BY <1>1, EncodeBytes, ConcatEmptySeq, EmptySeq
<1>4. /\ HasHead(b) /\ DecodeHead(b) = [buf |-> n, buf1 |-> k]
      /\ b[1] = c.cmd /\ b[2] = c.arg1 /\ b[3] = c.arg2
      /\ SubSeq(b, 9, 8 + n) = c.buf /\ SubSeq(b, 9 + n, 8 + n + k) = c.buf1
  BY <1>2, <1>3, Places DEF Lengths
<1>5. Len(b) = 8 + n + k
  BY <1>1, <1>2, EncodeBytes
<1>6. DecodeHead(b).buf = n /\ DecodeHead(b).buf1 = k
  BY <1>4
<1>7. Decodable(b)
  <2>1. HasHead(b)
    BY <1>4
  <2>2. 8 + n <= Len(b)
    <3>1. n \in Nat /\ k \in Nat
      BY <1>2, Parts
    <3>2. 8 + n <= 8 + n + k
      BY <3>1
    <3>. QED
      BY <1>5, <3>2
  <2>3. 8 + DecodeHead(b).buf <= Len(b)
    BY <1>6, <2>2
  <2>. QED
    BY <2>1, <2>3 DEF Decodable
<1>8. Decode(b) = [cmd |-> c.cmd, arg1 |-> c.arg1, arg2 |-> c.arg2, buf |-> c.buf, buf1 |-> c.buf1]
  <2>1. k = 0 => c.buf1 = <<>>
    BY <1>2, Parts, EmptySeq
  <2>2. Decode(b) = [cmd |-> b[1], arg1 |-> b[2], arg2 |-> b[3], buf |-> SubSeq(b, 9, 8 + n),
                     buf1 |-> IF k = 0 THEN <<>> ELSE SubSeq(b, 9 + n, 8 + n + k)]
    BY <1>5, <1>6 DEF Decode
  <2>. QED
    BY <1>4, <2>1, <2>2
<1>9. c = [cmd |-> c.cmd, arg1 |-> c.arg1, arg2 |-> c.arg2, buf |-> c.buf, buf1 |-> c.buf1]
  BY DEF Cmd
<1>. QED
  BY <1>1, <1>7, <1>8, <1>9

\* Any command whose buffer is shorter than 4 GB, and what is sent of it: of buf1 at
\* most 255 bytes.
Command == [cmd : Byte, arg1 : Byte, arg2 : Byte, buf : Short, buf1 : Seq(Byte)]
Kept(c) == [c EXCEPT !.buf1 = SubSeq(c.buf1, 1, Lower(Len(c.buf1), Max8))]

LEMMA KeptSent ==
  ASSUME NEW c \in Command
  PROVE  Kept(c) \in Cmd /\ Encode(Kept(c)) = Encode(c)
<1>1. PICK m \in Nat : m = Lower(Len(c.buf1), Max8) /\ m <= Max8 /\ m <= Len(c.buf1)
  BY DEF Lower, Max8, Command
<1>2. PICK v : v = SubSeq(c.buf1, 1, m)
  OBVIOUS
<1>3. v \in Seq(Byte) /\ Len(v) = m
  <2>1. c.buf1 \in Seq(Byte) /\ \A i \in 1 .. m : c.buf1[i] \in Byte
    BY <1>1 DEF Command
  <2>. QED
    BY <1>1, <1>2, <2>1, SubSeqProperties
<1>4. Kept(c) = [c EXCEPT !.buf1 = v]
  BY <1>1, <1>2 DEF Kept
<1>5. Kept(c) \in Cmd /\ Kept(c).buf1 = v
  BY <1>1, <1>3, <1>4 DEF Command, Cmd, Short1
<1>6. SubSeq(v, 1, Lower(Len(v), Max8)) = v
  BY <1>1, <1>3, SubSeqFull DEF Lower
<1>7. /\ Kept(c).cmd = c.cmd /\ Kept(c).arg1 = c.arg1 /\ Kept(c).arg2 = c.arg2
      /\ Kept(c).buf = c.buf
  BY <1>4 DEF Command
<1>8. SubSeq(c.buf1, 1, Lower(Len(c.buf1), Max8)) = v
  BY <1>1, <1>2
<1>9. Encode(Kept(c)) = Encode(c)
  BY <1>5, <1>6, <1>7, <1>8 DEF Encode
<1>. QED
  BY <1>5, <1>9

\* A command that is sent is decoded as it was, but for what its buf1 has beyond 255
\* bytes (Encode and Decode of cmd.go).  Of the bytes that follow it on the way
\* getResponse takes none.
THEOREM DecodeEncode ==
  ASSUME NEW c \in Command, NEW r \in Seq(Byte)
  PROVE  /\ Decodable(Encode(c)) /\ Decode(Encode(c)) = Kept(c)
         /\ HasHead(Encode(c) \o r) /\ Size(Encode(c) \o r) <= Len(Encode(c) \o r)
         /\ Leading(Encode(c) \o r) = Encode(c) /\ Rest(Encode(c) \o r) = r
<1>1. PICK d \in Cmd : d = Kept(c) /\ Encode(d) = Encode(c)
  BY KeptSent
<1>2. Decodable(Encode(d)) /\ Decode(Encode(d)) = d
  BY DecodeSent
<1>3. /\ HasHead(Encode(d) \o r) /\ Size(Encode(d) \o r) <= Len(Encode(d) \o r)
      /\ Leading(Encode(d) \o r) = Encode(d) /\ Rest(Encode(d) \o r) = r
  BY Places
<1>. QED
  BY <1>1, <1>2, <1>3

-----------------------------------------------------------------------------
(* Streams of commands                                                     *)

\* The bytes b are the commands cs, one after the other: at[i] bytes are those of
\* the first i.
Ends(b, cs, at) ==
  /\ at \in [0 .. Len(cs) -> 0 .. Len(b)]
  /\ at[0] = 0 /\ at[Len(cs)] = Len(b)
  /\ \A i, j \in 0 .. Len(cs) : i <= j => at[i] <= at[j]
  /\ \A i \in 1 .. Len(cs) : SubSeq(b, at[i - 1] + 1, at[i]) = Encode(cs[i])
Stream(b, cs) ==
  /\ b \in Seq(Byte) /\ cs \in Seq(Cmd)
  /\ \E at : Ends(b, cs, at)

LEMMA SubSeqOfFront ==
  ASSUME NEW s \in Seq(Byte), NEW t \in Seq(Byte), NEW m \in Nat, NEW n \in Nat, n <= Len(s)
  PROVE  SubSeq(s \o t, m + 1, n) = SubSeq(s, m + 1, n)
<1>. DEFINE b == s \o t
<1>1. /\ b \in Seq(Byte) /\ Len(s) \in Nat /\ Len(t) \in Nat
      /\ \A i \in 1 .. Len(s) + Len(t) : b[i] = IF i <= Len(s) THEN s[i] ELSE t[i - Len(s)]
  BY ConcatProperties
<1>. HIDE DEF b
<1>2. \A i \in m + 1 .. n : b[i] = s[i] /\ s[i] \in Byte
  BY <1>1
<1>. DEFINE v == SubSeq(b, m + 1, n)
            w == SubSeq(s, m + 1, n)
<1>3. /\ v \in Seq(Byte) /\ Len(v) = IF m + 1 <= n THEN n - (m + 1) + 1 ELSE 0
      /\ \A i \in 1 .. n - (m + 1) + 1 : v[i] = b[m + 1 + i - 1]
  BY <1>2, SubSeqProperties
<1>4. /\ w \in Seq(Byte) /\ Len(w) = IF m + 1 <= n THEN n - (m + 1) + 1 ELSE 0
      /\ \A i \in 1 .. n - (m + 1) + 1 : w[i] = s[m + 1 + i - 1]
  BY <1>2, SubSeqProperties
<1>. HIDE DEF v, w
<1>5. Len(v) = Len(w) /\ \A i \in 1 .. Len(v) : v[i] = w[i]
  BY <1>2, <1>3, <1>4
<1>6. v = w
  BY <1>3, <1>4, <1>5, SeqEqual
<1>. QED
  BY <1>6 DEF v, w, b

LEMMA SubSeqOfRest ==
  ASSUME NEW s \in Seq(Byte), NEW e \in 0 .. Len(s), NEW m \in Nat, NEW n \in 0 .. Len(s) - e
  PROVE  SubSeq(SubSeq(s, e + 1, Len(s)), m + 1, n) = SubSeq(s, e + m + 1, e + n)
<1>. DEFINE b == SubSeq(s, e + 1, Len(s))
<1>1. \A i \in e + 1 .. Len(s) : s[i] \in Byte
  OBVIOUS
<1>2. \A i \in 1 .. Len(s) - (e + 1) + 1 : b[i] = s[e + 1 + i - 1]
  BY <1>1, SubSeqProperties
<1>. HIDE DEF b
<1>3. \A i \in m + 1 .. n : b[i] = s[e + i] /\ s[e + i] \in Byte
  BY <1>2
<1>4. \A i \in e + m + 1 .. e + n : s[i] \in Byte
  OBVIOUS
<1>. DEFINE v == SubSeq(b, m + 1, n)
            w == SubSeq(s, e + m + 1, e + n)
<1>5. /\ v \in Seq(Byte) /\ Len(v) = IF m + 1 <= n THEN n - (m + 1) + 1 ELSE 0
      /\ \A i \in 1 .. n - (m + 1) + 1 : v[i] = b[m + 1 + i - 1]
  BY <1>3, SubSeqProperties, SMTT(60)
<1>6. /\ w \in Seq(Byte)
      /\ Len(w) = IF e + m + 1 <= e + n THEN e + n - (e + m + 1) + 1 ELSE 0
      /\ \A i \in 1 .. e + n - (e + m + 1) + 1 : w[i] = s[e + m + 1 + i - 1]
  BY <1>4, SubSeqProperties
<1>. HIDE DEF v, w
<1>7. Len(v) = Len(w) /\ \A i \in 1 .. Len(v) : v[i] = w[i]
  BY <1>3, <1>5, <1>6
<1>8. v = w
  BY <1>5, <1>6, <1>7, SeqEqual
<1>. QED
  BY <1>8 DEF v, w, b

LEMMA StreamEmpty == Stream(<<>>, <<>>)
<1>. DEFINE at == [i \in 0 .. 0 |-> 0]
<1>1. Len(<<>>) = 0 /\ <<>> \in Seq(Byte) /\ <<>> \in Seq(Cmd)
  OBVIOUS
<1>2. Ends(<<>>, <<>>, at)
  BY <1>1 DEF Ends
<1>. QED
  BY <1>1, <1>2 DEF Stream

\* What Ends says, point by point.
LEMMA EndsFacts ==
  ASSUME NEW b, NEW cs, NEW n \in Nat, n = Len(cs), NEW l \in Nat, l = Len(b),
         NEW at, Ends(b, cs, at)
  PROVE  /\ \A i \in 0 .. n : at[i] \in Nat /\ at[i] <= l
         /\ at[0] = 0 /\ at[n] = l
         /\ \A i, j \in 0 .. n : i <= j => at[i] <= at[j]
BY SMTT(60) DEF Ends

LEMMA StreamAppend ==
  ASSUME NEW b, NEW cs, Stream(b, cs), NEW c \in Cmd
  PROVE  Stream(b \o Encode(c), Append(cs, c))
<1>. DEFINE d == b \o Encode(c)
            ds == Append(cs, c)
            n == Len(cs)
            l == Len(b)
            k == Len(Encode(c))
<1>1. b \in Seq(Byte) /\ cs \in Seq(Cmd) /\ n \in Nat /\ l \in Nat
  BY DEF Stream
<1>2. PICK at : Ends(b, cs, at)
  BY DEF Stream
<1>3. Encode(c) \in Seq(Byte)
  BY EncodeBytes
<1>4. d \in Seq(Byte) /\ Len(d) = l + k /\ k \in Nat
  BY <1>1, <1>3, Longer
<1>5. ds \in Seq(Cmd) /\ Len(ds) = n + 1 /\ ds[n + 1] = c /\ \A i \in 1 .. n : ds[i] = cs[i]
  BY <1>1, AppendProperties
<1>6. /\ \A i \in 0 .. n : at[i] \in Nat /\ at[i] <= l
      /\ at[0] = 0 /\ at[n] = l
      /\ \A i, j \in 0 .. n : i <= j => at[i] <= at[j]
  BY <1>1, <1>2, EndsFacts
<1>7. \A i \in 1 .. n : SubSeq(b, at[i - 1] + 1, at[i]) = Encode(cs[i])
  BY <1>2 DEF Ends
<1>8. SubSeq(d, l + 1, l + k) = Encode(c)
  <2>1. SubSeq(d, Len(b) + 1, Len(d)) = Encode(c)
    BY <1>1, <1>3, Back
  <2>. QED
    BY <1>4, <2>1
<1>9. l = Len(b)
  OBVIOUS
<1>. HIDE DEF n, l, k
<1>10. \A i \in 1 .. n : SubSeq(d, at[i - 1] + 1, at[i]) = Encode(ds[i])
  <2>. SUFFICES ASSUME NEW i \in 1 .. n
                PROVE  SubSeq(d, at[i - 1] + 1, at[i]) = Encode(ds[i])
    OBVIOUS
  <2>1. at[i - 1] \in Nat /\ at[i] \in Nat /\ at[i] <= l
    BY <1>1, <1>6
  <2>2. SubSeq(d, at[i - 1] + 1, at[i]) = SubSeq(b, at[i - 1] + 1, at[i])
    <3>1. PICK p \in Nat : p = at[i - 1]
      BY <2>1
    <3>2. PICK q \in Nat : q = at[i] /\ q <= Len(b)
      BY <1>9, <2>1
    <3>3. SubSeq(b \o Encode(c), p + 1, q) = SubSeq(b, p + 1, q)
      BY <1>1, <1>3, <3>2, SubSeqOfFront
    <3>. QED
      BY <3>1, <3>2, <3>3
  <2>. QED
    BY <1>5, <1>7, <2>2
<1>. HIDE DEF d, ds
<1>. DEFINE to == [i \in 0 .. n + 1 |-> IF i <= n THEN at[i] ELSE l + k]
<1>11. /\ to[n + 1] = l + k /\ n + 1 \in 0 .. n + 1
       /\ \A i \in 0 .. n : to[i] = at[i]
  BY <1>1
<1>12. to \in [0 .. n + 1 -> 0 .. l + k]
  BY <1>1, <1>4, <1>6
<1>. HIDE DEF to
<1>13. to[0] = 0 /\ \A i, j \in 0 .. n + 1 : i <= j => to[i] <= to[j]
  <2>1. to[0] = 0
    BY <1>1, <1>6, <1>11
  <2>2. ASSUME NEW i \in 0 .. n + 1, NEW j \in 0 .. n + 1, i <= j PROVE to[i] <= to[j]
    <3>1. CASE j = n + 1 /\ i = n + 1
      BY <1>1, <1>4, <1>11, <3>1
    <3>2. CASE j = n + 1 /\ i \in 0 .. n
      <4>1. to[i] = at[i] /\ at[i] \in Nat /\ at[i] <= l
        BY <1>6, <1>11, <3>2
      <4>. QED
        BY <1>1, <1>4, <1>11, <3>2, <4>1
    <3>3. CASE j \in 0 .. n
      BY <1>1, <1>6, <1>11, <2>2, <3>3
    <3>. QED
      BY <1>1, <2>2, <3>1, <3>2, <3>3
  <2>. QED
    BY <2>1, <2>2
<1>14. ASSUME NEW i \in 1 .. n + 1 PROVE SubSeq(d, to[i - 1] + 1, to[i]) = Encode(ds[i])
  <2>1. CASE i = n + 1
    <3>1. to[i] = l + k /\ i - 1 = n /\ to[n] = l
      BY <1>1, <1>6, <1>11, <2>1
    <3>. QED
      BY <1>5, <1>8, <2>1, <3>1
  <2>2. CASE i \in 1 .. n
    <3>1. to[i] = at[i] /\ to[i - 1] = at[i - 1]
      BY <1>1, <1>11, <2>2
    <3>. QED
      BY <1>10, <2>2, <3>1
  <2>. QED
    BY <1>1, <2>1, <2>2
<1>15. Ends(d, ds, to)
  BY <1>4, <1>5, <1>11, <1>12, <1>13, <1>14 DEF Ends
<1>. QED
  BY <1>4, <1>5, <1>15 DEF Stream, d, ds

\* The first command of a stream can be read, and what follows it is the rest.
LEMMA StreamHead ==
  ASSUME NEW b, NEW cs, Stream(b, cs), cs # <<>>
  PROVE  /\ HasHead(b) /\ Size(b) <= Len(b) /\ Decodable(Leading(b))
         /\ Decode(Leading(b)) = Head(cs) /\ Head(cs) \in Cmd
         /\ Stream(Rest(b), Tail(cs))
<1>. DEFINE n == Len(cs)
            l == Len(b)
            c == Head(cs)
            ds == Tail(cs)
<1>1. b \in Seq(Byte) /\ cs \in Seq(Cmd) /\ n \in Nat /\ n >= 1 /\ l \in Nat
  BY EmptySeq DEF Stream
<1>2. PICK at : Ends(b, cs, at)
  BY DEF Stream
<1>3. /\ \A i \in 0 .. n : at[i] \in Nat /\ at[i] <= l
      /\ at[0] = 0 /\ at[n] = l
      /\ \A i, j \in 0 .. n : i <= j => at[i] <= at[j]
  BY <1>1, <1>2, EndsFacts
<1>4. \A i \in 1 .. n : SubSeq(b, at[i - 1] + 1, at[i]) = Encode(cs[i])
  BY <1>2 DEF Ends
<1>5. c = cs[1] /\ c \in Cmd /\ ds \in Seq(Cmd) /\ Len(ds) = n - 1 /\ \A i \in 1 .. n - 1 : ds[i] = cs[i + 1]
  BY <1>1, HeadTailProperties
<1>6. PICK e : e = at[1]
  OBVIOUS
<1>. DEFINE r == SubSeq(b, e + 1, l)
<1>7. l = Len(b)
  OBVIOUS
<1>. HIDE DEF n, l, c, ds
<1>8. e \in Nat /\ e <= l /\ \A i \in 1 .. n : e <= at[i]
  BY <1>1, <1>3, <1>6
<1>9. SubSeq(b, 1, e) = Encode(c)
  <2>1. 1 \in 1 .. n /\ 1 - 1 = 0 /\ 0 + 1 = 1
    BY <1>1
  <2>. QED
    BY <1>3, <1>4, <1>5, <1>6, <2>1
<1>10. b = Encode(c) \o r
  <2>1. SubSeq(b, 1, e) \o SubSeq(b, e + 1, l) = SubSeq(b, 1, l)
    <3>1. 1 \in 1 .. Len(b) + 1 /\ e \in 1 - 1 .. Len(b) /\ Len(b) \in e .. Len(b)
      BY <1>1, <1>7, <1>8
    <3>. QED
      BY <1>1, <1>7, <3>1, ConcatAdjacentSubSeq
  <2>2. SubSeq(b, 1, l) = b
    BY <1>1, <1>7, SubSeqFull
  <2>. QED
    BY <1>9, <2>1, <2>2
<1>11. r \in Seq(Byte) /\ Len(r) = l - e
  <2>1. \A i \in e + 1 .. l : b[i] \in Byte
    BY <1>1, <1>7, <1>8
  <2>. QED
    BY <1>1, <1>8, <2>1, SubSeqProperties
<1>12. ASSUME NEW i \in 1 .. n - 1
       PROVE  SubSeq(r, at[i] - e + 1, at[i + 1] - e) = Encode(ds[i])
  <2>1. /\ at[i] \in Nat /\ at[i + 1] \in Nat /\ e <= at[i] /\ e <= at[i + 1] /\ at[i + 1] <= l
    BY <1>1, <1>3, <1>8
  <2>2. at[i] - e \in Nat /\ at[i + 1] - e \in 0 .. l - e /\ e \in 0 .. l
    BY <1>1, <1>8, <2>1
  <2>3. SubSeq(r, (at[i] - e) + 1, at[i + 1] - e) = SubSeq(b, e + (at[i] - e) + 1, e + (at[i + 1] - e))
    BY <1>1, <1>7, <2>2, SubSeqOfRest
  <2>4. e + (at[i] - e) + 1 = at[i] + 1 /\ e + (at[i + 1] - e) = at[i + 1]
    BY <1>8, <2>1
  <2>5. SubSeq(b, at[i] + 1, at[i + 1]) = Encode(cs[i + 1])
    <3>1. i + 1 \in 1 .. n /\ i + 1 - 1 = i
      BY <1>1
    <3>. QED
      BY <1>4, <3>1
  <2>. QED
    BY <1>5, <2>3, <2>4, <2>5
<1>. HIDE DEF r
<1>13. /\ HasHead(b) /\ Size(b) <= Len(b) /\ Rest(b) = r
       /\ Decodable(Leading(b)) /\ Decode(Leading(b)) = c
  <2>1. HasHead(b) /\ Size(b) <= Len(b) /\ Leading(b) = Encode(c) /\ Rest(b) = r
    BY <1>5, <1>10, <1>11, Places
  <2>. QED
    BY <1>5, <2>1, DecodeSent
<1>. DEFINE to == [i \in 0 .. n - 1 |-> at[i + 1] - e]
<1>14. \A i \in 0 .. n - 1 : to[i] = at[i + 1] - e /\ i + 1 \in 1 .. n
  BY <1>1
<1>15. to \in [0 .. n - 1 -> 0 .. l - e]
  <2>1. \A i \in 0 .. n - 1 : at[i + 1] - e \in 0 .. l - e
    BY <1>1, <1>3, <1>8
  <2>. QED
    BY <2>1
<1>. HIDE DEF to
<1>16. to[0] = 0 /\ to[n - 1] = l - e
  BY <1>1, <1>3, <1>6, <1>8, <1>14
<1>17. \A i, j \in 0 .. n - 1 : i <= j => to[i] <= to[j]
  <2>. SUFFICES ASSUME NEW i \in 0 .. n - 1, NEW j \in 0 .. n - 1, i <= j
                PROVE  to[i] <= to[j]
    OBVIOUS
  <2>1. i + 1 \in 0 .. n /\ j + 1 \in 0 .. n /\ i + 1 <= j + 1
    BY <1>1
  <2>2. at[i + 1] <= at[j + 1] /\ at[i + 1] \in Nat /\ at[j + 1] \in Nat
    BY <1>3, <2>1
  <2>. QED
    BY <1>8, <1>14, <2>2
<1>18. ASSUME NEW i \in 1 .. n - 1 PROVE SubSeq(r, to[i - 1] + 1, to[i]) = Encode(ds[i])
  <2>1. to[i - 1] = at[i] - e /\ to[i] = at[i + 1] - e
    BY <1>1, <1>14
  <2>. QED
    BY <1>12, <2>1
<1>19. Ends(r, ds, to)
  BY <1>5, <1>11, <1>15, <1>16, <1>17, <1>18 DEF Ends
<1>. QED
  BY <1>5, <1>11, <1>13, <1>19 DEF Stream, c, ds

\* Nothing is the stream of no command, and of nothing else.
LEMMA StreamNone ==
  ASSUME NEW b, NEW cs, Stream(b, cs)
  PROVE  b = <<>> <=> cs = <<>>
<1>1. ASSUME b = <<>>, cs # <<>> PROVE FALSE
  <2>1. HasHead(b) /\ Len(b) = 0
    BY <1>1, StreamHead
  <2>. QED
    BY <2>1 DEF HasHead
<1>2. ASSUME cs = <<>> PROVE b = <<>>
  <2>1. Len(cs) = 0 /\ b \in Seq(Byte)
    BY <1>2 DEF Stream
  <2>2. PICK at : Ends(b, cs, at)
    BY DEF Stream
  <2>3. Len(b) = 0
    BY <2>1, <2>2 DEF Ends
  <2>. QED
    BY <2>1, <2>3, EmptySeq
<1>. QED
  BY <1>1, <1>2

-----------------------------------------------------------------------------
(* The last command about a setting                                        *)

\* The commands cs make the value v of a setting, now x: the last of them among the
\* commands K that set it is one of those in V, which set it to v; or none is in K
\* and it is v already.
Says(cs, K, V, x, v) ==
  \/ \E i \in 1 .. Len(cs) : cs[i] \in V /\ \A j \in i + 1 .. Len(cs) : cs[j] \notin K
  \/ (\A i \in 1 .. Len(cs) : cs[i] \notin K) /\ x = v

LEMMA SaysNone ==
  ASSUME NEW K, NEW V, NEW x, NEW v
  PROVE  Says(<<>>, K, V, x, v) <=> x = v
BY DEF Says

LEMMA SaysIt ==
  ASSUME NEW cs \in Seq(Cmd), NEW c \in Cmd, NEW K, NEW V, NEW x, NEW v, c \in V
  PROVE  Says(Append(cs, c), K, V, x, v)
<1>1. Len(cs) \in Nat /\ Len(Append(cs, c)) = Len(cs) + 1 /\ Append(cs, c)[Len(cs) + 1] = c
  BY AppendProperties
<1>. QED
  BY <1>1 DEF Says

LEMMA SaysOther ==
  ASSUME NEW cs \in Seq(Cmd), NEW c \in Cmd, NEW K, NEW V, NEW x, NEW v, c \notin K,
         Says(cs, K, V, x, v)
  PROVE  Says(Append(cs, c), K, V, x, v)
<1>. DEFINE ds == Append(cs, c)
            n == Len(cs)
<1>1. n \in Nat /\ Len(ds) = n + 1 /\ ds[n + 1] = c /\ \A i \in 1 .. n : ds[i] = cs[i]
  BY AppendProperties
<1>2. \/ \E i \in 1 .. n : cs[i] \in V /\ \A j \in i + 1 .. n : cs[j] \notin K
      \/ (\A i \in 1 .. n : cs[i] \notin K) /\ x = v
  BY DEF Says
<1>. HIDE DEF ds, n
<1>3. \/ \E i \in 1 .. n + 1 : ds[i] \in V /\ \A j \in i + 1 .. n + 1 : ds[j] \notin K
      \/ (\A i \in 1 .. n + 1 : ds[i] \notin K) /\ x = v
  <2>1. ASSUME NEW i \in 1 .. n, cs[i] \in V, \A j \in i + 1 .. n : cs[j] \notin K
        PROVE  i \in 1 .. n + 1 /\ ds[i] \in V /\ \A j \in i + 1 .. n + 1 : ds[j] \notin K
    BY <1>1, <2>1
  <2>2. ASSUME \A i \in 1 .. n : cs[i] \notin K PROVE \A i \in 1 .. n + 1 : ds[i] \notin K
    BY <1>1, <2>2
  <2>. QED
    BY <1>2, <2>1, <2>2
<1>. QED
  BY <1>1, <1>3 DEF Says, ds

LEMMA SaysTail ==
  ASSUME NEW cs \in Seq(Cmd), cs # <<>>, NEW K, NEW V, NEW x, NEW y, NEW v, V \subseteq K,
         Says(cs, K, V, x, v), Head(cs) \in V => y = v, Head(cs) \notin K => y = x
  PROVE  Says(Tail(cs), K, V, y, v)
<1>. DEFINE ds == Tail(cs)
            n == Len(ds)
<1>1. n \in Nat /\ Len(cs) = n + 1 /\ Head(cs) = cs[1] /\ \A i \in 1 .. n : ds[i] = cs[i + 1]
  BY HeadTailProperties, EmptySeq
<1>2. \/ \E i \in 1 .. n + 1 : cs[i] \in V /\ \A j \in i + 1 .. n + 1 : cs[j] \notin K
      \/ (\A i \in 1 .. n + 1 : cs[i] \notin K) /\ x = v
  BY <1>1 DEF Says
<1>. HIDE DEF ds, n
<1>3. \/ \E i \in 1 .. n : ds[i] \in V /\ \A j \in i + 1 .. n : ds[j] \notin K
      \/ (\A i \in 1 .. n : ds[i] \notin K) /\ y = v
  <2>1. CASE \E i \in 1 .. n + 1 : cs[i] \in V /\ \A j \in i + 1 .. n + 1 : cs[j] \notin K
    <3>1. PICK i \in 1 .. n + 1 : cs[i] \in V /\ \A j \in i + 1 .. n + 1 : cs[j] \notin K
      BY <2>1
    <3>2. CASE i = 1
      <4>1. \A j \in 1 .. n : ds[j] \notin K
        BY <1>1, <3>1, <3>2
      <4>. QED
        BY <1>1, <3>1, <3>2, <4>1
    <3>3. CASE i \in 2 .. n + 1
      <4>1. i - 1 \in 1 .. n /\ ds[i - 1] = cs[i]
        BY <1>1, <3>3
      <4>2. \A j \in (i - 1) + 1 .. n : ds[j] \notin K
        BY <1>1, <3>1, <3>3
      <4>. QED
        BY <3>1, <4>1, <4>2
    <3>. QED
      BY <1>1, <3>2, <3>3
  <2>2. CASE (\A i \in 1 .. n + 1 : cs[i] \notin K) /\ x = v
    BY <1>1, <2>2
  <2>. QED
    BY <1>2, <2>1, <2>2
<1>. QED
  BY <1>3 DEF Says, ds, n

-----------------------------------------------------------------------------
(* Reading a stream of responses                                           *)

Names == {Name(n) : n \in Byte}
DocRead == [meta : Short, fields : SUBSET (Names \X Short), matched : Seq(Seq(Byte))]
Step == {"idle", "begin", "items", "expand", "words"}
ReaderT == [step : Step, count : Nat, docs : Seq(DocRead), at : Nat, words : Seq(Short)]

\* The response c takes a call from a to b.
OkWith(c, arg) == c.cmd = 128 /\ GetArg(c) = arg
WithField(a, c) ==
  LET name == Name(GetArg(c) % 256)
  IN [a EXCEPT !.docs[a.at].fields = {v \in @ : v[1] # name} \cup {<<name, c.buf>>}]
WithDoc(a, c) == [a EXCEPT !.at = @ + 1, !.docs[a.at + 1] = NewDocument(c.buf)]
Counted(a, n) == [a EXCEPT !.step = "items", !.count = n, !.docs = Slice(n)]
Reads(a, c, b) ==
  \/ /\ a.step = "begin" /\ OkWith(c, 206) /\ Len(c.buf) = 4
     /\ b = Counted(a, UnPack4(c.buf, 1))
  \/ a.step = "expand" /\ OkWith(c, 206) /\ b = [a EXCEPT !.step = "words"]
  \/ a.step = "items" /\ c.cmd = 140 /\ a.at < Len(a.docs) /\ b = WithDoc(a, c)
  \/ a.step = "items" /\ c.cmd = 141 /\ a.at # 0 /\ b = WithField(a, c)
  \/ /\ a.step = "items" /\ c.cmd = 143 /\ a.at # 0
     /\ b = [a EXCEPT !.docs[a.at].matched = <<Space>>]
  \/ a.step = "words" /\ c.cmd = 141 /\ b = [a EXCEPT !.words = Append(@, c.buf)]
  \/ a.step \in {"items", "words"} /\ OkWith(c, 207) /\ b = [a EXCEPT !.step = "idle"]

\* The responses rs take a call from one of the states st to the next.
Chain(rs, st) ==
  /\ rs \in Seq(Cmd) /\ st \in [0 .. Len(rs) -> ReaderT]
  /\ \A i \in 1 .. Len(rs) : Reads(st[i - 1], rs[i], st[i])
Will(bs, a, b) ==
  \E rs, st : Stream(bs, rs) /\ Chain(rs, st) /\ st[0] = a /\ st[Len(rs)] = b

LEMMA WillNone ==
  ASSUME NEW a \in ReaderT
  PROVE  Will(<<>>, a, a)
<1>. DEFINE st == [i \in 0 .. 0 |-> a]
<1>1. Len(<<>>) = 0 /\ <<>> \in Seq(Cmd)
  OBVIOUS
<1>2. Chain(<<>>, st) /\ st[0] = a
  BY <1>1 DEF Chain
<1>. QED
  BY <1>1, <1>2, StreamEmpty DEF Will

LEMMA WillAppend ==
  ASSUME NEW bs, NEW a, NEW b, NEW d \in ReaderT, NEW c \in Cmd, Will(bs, a, b), Reads(b, c, d)
  PROVE  Will(bs \o Encode(c), a, d)
<1>1. PICK rs, st : Stream(bs, rs) /\ Chain(rs, st) /\ st[0] = a /\ st[Len(rs)] = b
  BY DEF Will
<1>. DEFINE n == Len(rs)
            ss == Append(rs, c)
<1>2. rs \in Seq(Cmd) /\ n \in Nat
  BY <1>1 DEF Chain
<1>3. ss \in Seq(Cmd) /\ Len(ss) = n + 1 /\ ss[n + 1] = c /\ \A i \in 1 .. n : ss[i] = rs[i]
  BY <1>2, AppendProperties
<1>4. st \in [0 .. n -> ReaderT] /\ \A i \in 1 .. n : Reads(st[i - 1], rs[i], st[i])
  BY <1>1 DEF Chain
<1>5. st[0] = a /\ st[n] = b /\ Stream(bs \o Encode(c), ss)
  BY <1>1, StreamAppend
<1>. HIDE DEF n, ss
<1>. DEFINE to == [i \in 0 .. n + 1 |-> IF i <= n THEN st[i] ELSE d]
<1>6. /\ to \in [0 .. n + 1 -> ReaderT]
      /\ to[0] = a /\ to[n] = b /\ to[n + 1] = d /\ \A i \in 0 .. n : to[i] = st[i]
  BY <1>2, <1>4, <1>5
<1>. HIDE DEF to
<1>7. ASSUME NEW i \in 1 .. n + 1 PROVE Reads(to[i - 1], ss[i], to[i])
  <2>1. CASE i = n + 1
    <3>1. i - 1 = n
      BY <1>2, <2>1
    <3>. QED
      BY <1>3, <1>6, <2>1, <3>1
  <2>2. CASE i \in 1 .. n
    <3>1. to[i - 1] = st[i - 1] /\ to[i] = st[i] /\ ss[i] = rs[i]
      BY <1>2, <1>3, <1>6, <2>2
    <3>. QED
      BY <1>4, <2>2, <3>1
  <2>. QED
    BY <1>2, <2>1, <2>2
<1>8. Chain(ss, to)
  BY <1>3, <1>6, <1>7 DEF Chain
<1>. QED
  BY <1>3, <1>5, <1>6, <1>8 DEF Will

LEMMA WillHead ==
  ASSUME NEW bs, NEW a, NEW b, Will(bs, a, b), bs # <<>>
  PROVE  /\ HasHead(bs) /\ Size(bs) <= Len(bs) /\ Decode(Leading(bs)) \in Cmd
         /\ \E d \in ReaderT : Reads(a, Decode(Leading(bs)), d) /\ Will(Rest(bs), d, b)
<1>1. PICK rs, st : Stream(bs, rs) /\ Chain(rs, st) /\ st[0] = a /\ st[Len(rs)] = b
  BY DEF Will
<1>. DEFINE n == Len(rs)
            ss == Tail(rs)
<1>2. rs \in Seq(Cmd) /\ rs # <<>>
  BY <1>1, StreamNone DEF Chain
<1>3. /\ HasHead(bs) /\ Size(bs) <= Len(bs) /\ Decode(Leading(bs)) = Head(rs) /\ Head(rs) \in Cmd
      /\ Stream(Rest(bs), ss)
  BY <1>1, <1>2, StreamHead
<1>4. /\ n \in Nat /\ n >= 1 /\ Head(rs) = rs[1]
      /\ ss \in Seq(Cmd) /\ Len(ss) = n - 1 /\ \A i \in 1 .. n - 1 : ss[i] = rs[i + 1]
  BY <1>2, HeadTailProperties, EmptySeq
<1>5. st \in [0 .. n -> ReaderT] /\ \A i \in 1 .. n : Reads(st[i - 1], rs[i], st[i])
  BY <1>1 DEF Chain
<1>6. st[0] = a /\ st[n] = b
  BY <1>1
<1>. HIDE DEF n, ss
<1>7. Reads(a, rs[1], st[1]) /\ st[1] \in ReaderT
  <2>1. 1 \in 1 .. n /\ 1 - 1 = 0
    BY <1>4
  <2>. QED
    BY <1>5, <1>6, <2>1
<1>. DEFINE to == [i \in 0 .. n - 1 |-> st[i + 1]]
<1>8. /\ to \in [0 .. n - 1 -> ReaderT]
      /\ to[0] = st[1] /\ to[n - 1] = b /\ \A i \in 0 .. n - 1 : to[i] = st[i + 1]
  <2>1. \A i \in 0 .. n - 1 : st[i + 1] \in ReaderT
    BY <1>4, <1>5
  <2>. QED
    BY <1>4, <1>6, <2>1
<1>. HIDE DEF to
<1>9. ASSUME NEW i \in 1 .. n - 1 PROVE Reads(to[i - 1], ss[i], to[i])
  <2>1. to[i - 1] = st[i] /\ to[i] = st[i + 1] /\ ss[i] = rs[i + 1] /\ i + 1 \in 1 .. n /\ i + 1 - 1 = i
    BY <1>4, <1>8
  <2>. QED
    BY <1>5, <2>1
<1>10. Chain(ss, to)
  BY <1>4, <1>8, <1>9 DEF Chain
<1>11. Will(Rest(bs), st[1], b)
  BY <1>3, <1>4, <1>8, <1>10 DEF Will
<1>. QED
  BY <1>3, <1>4, <1>7, <1>11

LEMMA WillEmpty ==
  ASSUME NEW a, NEW b, Will(<<>>, a, b)
  PROVE  a = b
<1>1. PICK rs, st : Stream(<<>>, rs) /\ Chain(rs, st) /\ st[0] = a /\ st[Len(rs)] = b
  BY DEF Will
<1>2. rs = <<>>
  BY <1>1, StreamNone
<1>. QED
  BY <1>1, <1>2

\* Nothing is read between two calls.
LEMMA WillIdle ==
  ASSUME NEW bs, NEW a, NEW b, Will(bs, a, b), a.step = "idle"
  PROVE  bs = <<>> /\ a = b
<1>1. ASSUME bs # <<>> PROVE FALSE
  <2>1. \E d : Reads(a, Decode(Leading(bs)), d)
    BY <1>1, WillHead
  <2>. QED
    BY <2>1 DEF Reads
<1>. QED
  BY <1>1, WillEmpty

-----------------------------------------------------------------------------
(* The inductive invariant                                                 *)

Settings == [percent : Nat, weight : Nat, matched : Nat, policy : Nat, scale : Nat,
             flags : Nat \X Nat]
Setter == {"scale", "two"}
DocSent == [meta : Meta, values : SUBSET (Vno \X Word), matched : Word \cup {<<>>}]
TypeInv ==
  /\ server \in Settings
  /\ chosen \in [set : Settings, past : SUBSET Setter]
  /\ chosen.set.policy = 2 => "two" \in chosen.past
  /\ reader \in ReaderT
  /\ answer \in [step : {"idle", "docs", "values", "words"}, left : Nat]
  /\ sent \in [count : Nat, docs : Seq(DocSent), words : Seq(Word)]

\* The commands that set something the server heeds, and what they set it to.
Cutoffs == {c \in Cmd : c.cmd = 199}
Matcheds == {c \in Cmd : c.cmd = 200 /\ c.arg1 = 2}
Policies == {c \in Cmd : c.cmd = 200 /\ c.arg1 = 3}
Flags == {c \in Cmd : c.cmd = 231}
IsSetting(c) == c \in Cutoffs \cup Matcheds \cup Policies \cup Flags

\* The scheme that was sent: 2 if it was ever chosen.
Scheme(past) == IF "two" \in past THEN 2 ELSE 0

CutoffIs(s) == {c \in Cutoffs : c.arg1 = s.percent /\ c.arg2 = s.weight}
MatchedIs(s) == {c \in Matcheds : c.arg2 = s.matched}
PolicyIs(past) == {c \in Policies : c.arg2 = Scheme(past)}
FlagsAre(s) == {c \in Flags : <<c.arg1, c.arg2>> = s.flags}

\* The commands cs will make the settings s of those in force, now: but for the
\* synonym scale, the cut-off if it was overwritten by one, and the scheme, which
\* will be the one that was sent.
WillSet(cs, now, s, past) ==
  /\ Says(cs, Matcheds, MatchedIs(s), now.matched, s.matched)
  /\ Says(cs, Flags, FlagsAre(s), now.flags, s.flags)
  /\ "scale" \notin past =>
       Says(cs, Cutoffs, CutoffIs(s), <<now.percent, now.weight>>, <<s.percent, s.weight>>)
  /\ Says(cs, Policies, PolicyIs(past), now.policy, Scheme(past))

\* The commands the server has not read: cached until there is a call, sent with it.
Unread(cs) ==
  IF reader.step = "idle" THEN wire = <<>> /\ Stream(cached, cs)
                          ELSE cached = <<>> /\ Stream(wire, cs)

\* The call that has read all there is, e, has what the server has sent, and places
\* for what it will send.
AsSent(x, y) == x.meta = y.meta /\ x.fields = Named(y.values)
Agrees(e) ==
  /\ e.count = sent.count /\ e.words = sent.words
  /\ Len(e.docs) = sent.count /\ e.at = Len(sent.docs) /\ e.at <= sent.count
  /\ \A i \in 1 .. e.at : AsSent(e.docs[i], sent.docs[i])
  /\ \A i \in e.at + 1 .. sent.count : e.docs[i] = Nil
  /\ answer.step = "values" => sent.docs # <<>>
  /\ answer.step \in {"docs", "values"} => e.at + answer.left <= sent.count

\* It waits for the answer to the last of the commands cs, which the server has not
\* begun; or for the rest of the answer the server is writing; or for nothing.
Asks(cs, step) ==
  /\ step \in {"begin", "expand"}
  /\ answer.step = "idle" /\ replies = <<>> /\ sent.count = 0
  /\ cs # <<>> /\ \A i \in 1 .. Len(cs) - 1 : IsSetting(cs[i])
  /\ cs[Len(cs)].cmd = IF step = "begin" THEN 66 ELSE 99
Awaits(cs, step) ==
  \/ Asks(cs, step)
  \/ step = "items" /\ answer.step \in {"docs", "values"} /\ cs = <<>>
  \/ step = "words" /\ answer.step = "words" /\ cs = <<>>
  \/ /\ step = "idle" /\ answer.step = "idle"
     /\ reader.step # "idle" => cs = <<>>
     /\ \A i \in 1 .. Len(cs) : IsSetting(cs[i])

Ahead(cs, e) ==
  /\ Unread(cs) /\ WillSet(cs, server, chosen.set, chosen.past)
  /\ e \in ReaderT /\ Will(replies, reader, e) /\ Agrees(e) /\ Awaits(cs, e.step)
IInv == TypeInv /\ \E cs, e : Ahead(cs, e)

-----------------------------------------------------------------------------
(* The properties follow                                                   *)

\* Between two calls: the commands cs are cached, nothing is on the way and nothing
\* being written.
LEMMA Between ==
  ASSUME NEW cs, NEW e, Ahead(cs, e), reader.step = "idle"
  PROVE  /\ replies = <<>> /\ e = reader /\ wire = <<>> /\ Stream(cached, cs)
         /\ answer.step = "idle" /\ \A i \in 1 .. Len(cs) : IsSetting(cs[i])
<1>1. replies = <<>> /\ e = reader
  BY WillIdle DEF Ahead
<1>2. wire = <<>> /\ Stream(cached, cs)
  BY DEF Ahead, Unread
<1>3. Awaits(cs, "idle")
  BY <1>1 DEF Ahead
<1>. QED
  BY <1>1, <1>2, <1>3 DEF Awaits, Asks

LEMMA InvInStep == IInv => InStep
BY Between DEF IInv, InStep

LEMMA InvSettings == IInv => SettingsInForce
<1>. SUFFICES ASSUME IInv, Arrived PROVE SettingsInForce
  BY DEF SettingsInForce
<1>1. PICK cs, e : Ahead(cs, e)
  BY DEF IInv
<1>2. Stream(<<>>, cs) /\ WillSet(cs, server, chosen.set, chosen.past)
  BY <1>1 DEF Ahead, Unread, Arrived
<1>3. WillSet(<<>>, server, chosen.set, chosen.past)
  BY <1>2, StreamNone
<1>4. server.matched = chosen.set.matched /\ server.flags = chosen.set.flags
  BY <1>3, SaysNone DEF WillSet
<1>5. ASSUME "scale" \notin chosen.past
      PROVE  server.percent = chosen.set.percent /\ server.weight = chosen.set.weight
  BY <1>3, <1>5, SaysNone DEF WillSet
<1>6. server.policy = Scheme(chosen.past)
  BY <1>3, SaysNone DEF WillSet
<1>7. chosen.set.policy = 2 => "two" \in chosen.past
  BY DEF IInv, TypeInv
<1>. QED
  BY <1>4, <1>5, <1>6, <1>7 DEF SettingsInForce, Scheme

LEMMA InvDocuments == IInv => DocumentsAsSent
<1>. SUFFICES ASSUME IInv PROVE DocumentsAsSent
  OBVIOUS
<1>1. reader.step # "panic"
  BY DEF IInv, TypeInv, ReaderT, Step
<1>2. ASSUME reader.step = "idle"
      PROVE  /\ reader.count = sent.count /\ Len(reader.docs) = sent.count
             /\ Len(sent.docs) <= Len(reader.docs) /\ reader.words = sent.words
             /\ \A i \in 1 .. Len(reader.docs) :
                  IF i <= Len(sent.docs) THEN AsSent(reader.docs[i], sent.docs[i])
                                         ELSE reader.docs[i] = Nil
  <2>1. PICK cs, e : Ahead(cs, e)
    BY DEF IInv
  <2>2. Agrees(reader)
    BY <1>2, <2>1, Between DEF Ahead
  <2>3. Len(sent.docs) \in Nat /\ sent.count \in Nat
    BY DEF IInv, TypeInv
  <2>. QED
    BY <2>2, <2>3 DEF Agrees
<1>. QED
  BY <1>1, <1>2 DEF DocumentsAsSent, AsSent

-----------------------------------------------------------------------------
(* Settings                                                                *)

\* A command that sets something to what the program now asks for, or is not about
\* it while the program asks for what it did.
Heeds(c, K, V, x, y) == c \in V \/ (c \notin K /\ x = y)
HeedsAll(c, s, old, t, new) ==
  /\ IsSetting(c)
  /\ Heeds(c, Matcheds, MatchedIs(t), t.matched, s.matched)
  /\ Heeds(c, Flags, FlagsAre(t), t.flags, s.flags)
  /\ "scale" \notin new =>
       \/ c \in CutoffIs(t)
       \/ "scale" \notin old /\ c \notin Cutoffs /\ t.percent = s.percent /\ t.weight = s.weight
  /\ Heeds(c, Policies, PolicyIs(new), Scheme(new), Scheme(old))

LEMMA WillSetMore ==
  ASSUME NEW cs \in Seq(Cmd), NEW now, NEW s, NEW t, NEW old, NEW new, NEW c \in Cmd,
         WillSet(cs, now, s, old), HeedsAll(c, s, old, t, new)
  PROVE  WillSet(Append(cs, c), now, t, new)
<1>1. Says(Append(cs, c), Matcheds, MatchedIs(t), now.matched, t.matched)
  <2>1. CASE c \in MatchedIs(t)
    BY <2>1, SaysIt
  <2>2. CASE c \notin Matcheds /\ t.matched = s.matched
    <3>1. Says(cs, Matcheds, MatchedIs(t), now.matched, t.matched)
      BY <2>2 DEF WillSet, MatchedIs
    <3>. QED
      BY <2>2, <3>1, SaysOther
  <2>. QED
    BY <2>1, <2>2 DEF HeedsAll, Heeds
<1>2. Says(Append(cs, c), Flags, FlagsAre(t), now.flags, t.flags)
  <2>1. CASE c \in FlagsAre(t)
    BY <2>1, SaysIt
  <2>2. CASE c \notin Flags /\ t.flags = s.flags
    <3>1. Says(cs, Flags, FlagsAre(t), now.flags, t.flags)
      BY <2>2 DEF WillSet, FlagsAre
    <3>. QED
      BY <2>2, <3>1, SaysOther
  <2>. QED
    BY <2>1, <2>2 DEF HeedsAll, Heeds
<1>3. ASSUME "scale" \notin new
      PROVE  Says(Append(cs, c), Cutoffs, CutoffIs(t), <<now.percent, now.weight>>, <<t.percent, t.weight>>)
  <2>1. CASE c \in CutoffIs(t)
    BY <2>1, SaysIt
  <2>2. CASE "scale" \notin old /\ c \notin Cutoffs /\ t.percent = s.percent /\ t.weight = s.weight
    <3>1. Says(cs, Cutoffs, CutoffIs(t), <<now.percent, now.weight>>, <<t.percent, t.weight>>)
      BY <1>3, <2>2 DEF WillSet, CutoffIs
    <3>. QED
      BY <2>2, <3>1, SaysOther
  <2>. QED
    BY <1>3, <2>1, <2>2 DEF HeedsAll, Heeds
<1>4. Says(Append(cs, c), Policies, PolicyIs(new), now.policy, Scheme(new))
  <2>1. CASE c \in PolicyIs(new)
    BY <2>1, SaysIt
  <2>2. CASE c \notin Policies /\ Scheme(new) = Scheme(old)
    <3>1. Says(cs, Policies, PolicyIs(new), now.policy, Scheme(new))
      BY <2>2 DEF WillSet, PolicyIs
    <3>. QED
      BY <2>2, <3>1, SaysOther
  <2>. QED
    BY <2>1, <2>2 DEF HeedsAll, Heeds
<1>. QED
  BY <1>1, <1>2, <1>3, <1>4 DEF WillSet

\* Whatever setter has its command cached, the settings asked for are ahead.
LEMMA ChooseStep ==
  ASSUME IInv, NEW t \in Settings, NEW new \in SUBSET Setter, NEW c \in Cmd, Choose(t, new, c),
         HeedsAll(c, chosen.set, chosen.past, t, new), t.policy = 2 => "two" \in new
  PROVE  IInv'
<1>1. PICK cs, e : Ahead(cs, e)
  BY DEF IInv
<1>2. /\ reader.step = "idle" /\ cached' = cached \o Encode(c)
      /\ chosen' = [set |-> t, past |-> new]
      /\ UNCHANGED <<wire, server, replies, answer, sent, reader>>
  BY DEF Choose, Begin, ClientOnly
<1>3. PICK s, old : s = chosen.set /\ old = chosen.past
  OBVIOUS
<1>4. chosen'.set = t /\ chosen'.past = new
  BY <1>2, <1>3
<1>5. /\ replies = <<>> /\ e = reader /\ wire = <<>> /\ Stream(cached, cs)
      /\ answer.step = "idle" /\ \A i \in 1 .. Len(cs) : IsSetting(cs[i])
  BY <1>1, <1>2, Between
<1>6. PICK ds : ds = Append(cs, c)
  OBVIOUS
<1>7. cs \in Seq(Cmd) /\ ds \in Seq(Cmd) /\ \A i \in 1 .. Len(ds) : IsSetting(ds[i])
  BY <1>5, <1>6, AppendProperties DEF Stream, HeedsAll
<1>8. Stream(cached', ds)
  BY <1>2, <1>5, <1>6, StreamAppend
<1>9. PICK now : now = server
  OBVIOUS
<1>10. WillSet(cs, now, s, old)
  BY <1>1, <1>3, <1>9 DEF Ahead
<1>11. WillSet(ds, now, t, new)
  <2>1. HeedsAll(c, s, old, t, new)
    BY <1>3
  <2>. QED
    BY <1>6, <1>7, <1>10, <2>1, WillSetMore
<1>12. e \in ReaderT /\ Will(replies, reader, e) /\ Agrees(e)
  BY <1>1 DEF Ahead
<1>13. Unread(ds)'
  BY <1>2, <1>5, <1>8 DEF Unread
<1>14. Agrees(e)' /\ Will(replies, reader, e)'
  BY <1>2, <1>12 DEF Agrees, Will
<1>15. Awaits(ds, e.step)'
  BY <1>2, <1>5, <1>7 DEF Awaits
<1>16. Ahead(ds, e)'
  BY <1>2, <1>4, <1>9, <1>11, <1>12, <1>13, <1>14, <1>15 DEF Ahead
<1>17. TypeInv'
  <2>1. chosen' \in [set : Settings, past : SUBSET Setter]
    BY <1>2
  <2>2. chosen'.set.policy = 2 => "two" \in chosen'.past
    BY <1>4
  <2>. QED
    BY <1>2, <2>1, <2>2 DEF IInv, TypeInv
<1>. QED
  BY <1>16, <1>17 DEF IInv

\* The commands of the setters are bytes.
LEMMA SettingCommand ==
  ASSUME NEW k \in Byte, NEW a1 \in Byte, NEW a2 \in Byte
  PROVE  NewCommand2(k, a1, a2, <<>>, <<>>) \in Cmd
<1>1. <<>> \in Seq(Byte) /\ Len(<<>>) = 0 /\ Four(0)
  BY DEF Four, Max8
<1>2. <<>> \in Short /\ <<>> \in Short1
  BY <1>1 DEF Short, Short1, Max8
<1>. QED
  BY <1>2 DEF NewCommand2, Cmd

LEMMA ByteNumbers ==
  /\ 0 \in Byte /\ 1 \in Byte /\ 2 \in Byte /\ 3 \in Byte /\ 6 \in Byte /\ 7 \in Byte
  /\ 199 \in Byte /\ 200 \in Byte /\ 231 \in Byte /\ Byte \subseteq Nat
BY DEF Byte, Max8

LEMMA LimitBytes ==
  /\ \A n \in Nat : Limited(n, 1, Max8) \in Byte /\ Limited(n, 1, Max8) \in Nat
  /\ \A n \in Byte : Lower(n, 100) \in Byte /\ Lower(n, 100) \in Nat
  /\ \A n \in Byte : n \div 10 \in Byte
BY DEF Limited, Lower, Byte, Max8

LEMMA SettingStep ==
  ASSUME IInv, Setting
  PROVE  IInv'
<1>1. PICK old, gone : /\ old = chosen.set /\ old \in Settings
                       /\ gone = chosen.past /\ gone \in SUBSET Setter
                       /\ old.policy = 2 => "two" \in gone
  BY DEF IInv, TypeInv
<1>. DEFINE Of(t) == t.percent = old.percent /\ t.weight = old.weight
<1>2. ASSUME NEW p \in Percent, NEW w \in Weight, SetCutOff(p, w) PROVE IInv'
  <2>12. PICK new : new = gone \ {"scale"}
    OBVIOUS
  <2>13. new \in SUBSET Setter /\ ("two" \in new <=> "two" \in gone)
    BY <1>1, <2>12 DEF Setter
  <2>1. PICK a : a = Lower(p, 100)
    OBVIOUS
  <2>2. PICK b : b = Limited(w, 1, Max8)
    OBVIOUS
  <2>3. a \in Byte /\ b \in Byte /\ a \in Nat /\ b \in Nat
    BY <2>1, <2>2, LimitBytes, ByteAssumption, NumberAssumption
  <2>4. PICK c : c = NewCommand2(199, a, b, <<>>, <<>>)
    OBVIOUS
  <2>5. c \in Cmd /\ c.cmd = 199 /\ c.arg1 = a /\ c.arg2 = b
    BY <2>3, <2>4, ByteNumbers, SettingCommand DEF NewCommand2
  <2>6. PICK t : t = [old EXCEPT !.percent = a, !.weight = b]
    OBVIOUS
  <2>7. /\ t \in Settings /\ t.percent = a /\ t.weight = b
        /\ t.matched = old.matched /\ t.flags = old.flags /\ t.policy = old.policy
    BY <1>1, <2>3, <2>6 DEF Settings
  <2>8. Choose(t, new, c)
    BY <2>12, <1>1, <1>2, <2>1, <2>2, <2>4, <2>6 DEF SetCutOff, Cutoff
  <2>9. /\ c \in CutoffIs(t) /\ IsSetting(c)
        /\ c \notin Matcheds /\ c \notin Flags /\ c \notin Policies
    BY <2>5, <2>7 DEF CutoffIs, Cutoffs, IsSetting, Matcheds, Flags, Policies
  <2>10. HeedsAll(c, old, gone, t, new)
    BY <2>12, <2>13, <2>7, <2>9 DEF HeedsAll, Heeds, IsSetting, Scheme
  <2>11. HeedsAll(c, chosen.set, chosen.past, t, new)
    BY <1>1, <2>10
  <2>14. t.policy = 2 => "two" \in new
    BY <1>1, <2>7, <2>13
  <2>. QED
    BY <2>5, <2>7, <2>8, <2>11, <2>13, <2>14, ChooseStep
<1>3. ASSUME NEW x \in Scale, SetSynonymScale(x) PROVE IInv'
  <2>12. PICK new : new = gone \cup {"scale"}
    OBVIOUS
  <2>13. new \in SUBSET Setter /\ ("two" \in new <=> "two" \in gone) /\ "scale" \in new
    BY <1>1, <2>12 DEF Setter
  <2>1. PICK b : b = Limited(x, 1, Max8)
    OBVIOUS
  <2>2. b \in Byte /\ b \in Nat /\ b \div 10 \in Byte
    BY <2>1, LimitBytes, NumberAssumption
  <2>3. PICK c : c = NewCommand2(199, 1, b \div 10, <<>>, <<>>)
    OBVIOUS
  <2>4. c \in Cmd /\ c.cmd = 199
    BY <2>2, <2>3, ByteNumbers, SettingCommand DEF NewCommand2
  <2>5. PICK t : t = [old EXCEPT !.scale = b]
    OBVIOUS
  <2>6. t \in Settings /\ t.matched = old.matched /\ t.flags = old.flags /\ t.policy = old.policy
    BY <1>1, <2>2, <2>5 DEF Settings
  <2>7. Choose(t, new, c)
    BY <2>12, <1>1, <1>3, <2>1, <2>3, <2>5 DEF SetSynonymScale, Cutoff
  <2>8. IsSetting(c) /\ c \notin Matcheds /\ c \notin Flags /\ c \notin Policies
    BY <2>4 DEF Cutoffs, IsSetting, Matcheds, Flags, Policies
  <2>10. HeedsAll(c, old, gone, t, new)
    BY <2>12, <2>13, <2>6, <2>8 DEF HeedsAll, Heeds, IsSetting, Scheme
  <2>11. HeedsAll(c, chosen.set, chosen.past, t, new)
    BY <1>1, <2>10
  <2>14. t.policy = 2 => "two" \in new
    BY <1>1, <2>6, <2>13
  <2>. QED
    BY <2>4, <2>6, <2>7, <2>11, <2>13, <2>14, ChooseStep
<1>4. ASSUME NEW on \in {0, 1}, SetRequireMatchedTerm(on) PROVE IInv'
  <2>12. PICK new : new = gone
    OBVIOUS
  <2>13. new \in SUBSET Setter /\ ("two" \in new <=> "two" \in gone)
    BY <1>1, <2>12 DEF Setter
  <2>1. PICK c : c = NewCommand2(200, 2, on, <<>>, <<>>)
    OBVIOUS
  <2>2. on \in Byte /\ on \in Nat
    BY ByteNumbers
  <2>3. c \in Cmd /\ c.cmd = 200 /\ c.arg1 = 2 /\ c.arg2 = on
    BY <2>1, <2>2, ByteNumbers, SettingCommand DEF NewCommand2
  <2>4. PICK t : t = [old EXCEPT !.matched = on]
    OBVIOUS
  <2>5. /\ t \in Settings /\ t.matched = on /\ Of(t)
        /\ t.flags = old.flags /\ t.policy = old.policy
    BY <1>1, <2>2, <2>4 DEF Settings
  <2>6. Choose(t, new, c)
    BY <2>12, <1>1, <1>4, <2>1, <2>4 DEF SetRequireMatchedTerm, Misc
  <2>7. /\ c \in MatchedIs(t) /\ IsSetting(c)
        /\ c \notin Cutoffs /\ c \notin Flags /\ c \notin Policies
    BY <2>3, <2>5 DEF MatchedIs, Cutoffs, IsSetting, Matcheds, Flags, Policies
  <2>10. HeedsAll(c, old, gone, t, new)
    BY <2>12, <2>13, <2>5, <2>7 DEF HeedsAll, Heeds, IsSetting, Scheme
  <2>11. HeedsAll(c, chosen.set, chosen.past, t, new)
    BY <1>1, <2>10
  <2>14. t.policy = 2 => "two" \in new
    BY <1>1, <2>5, <2>13
  <2>. QED
    BY <2>3, <2>5, <2>6, <2>11, <2>13, <2>14, ChooseStep
<1>5. ASSUME NEW n \in Policy, SetWeightingScheme(n), n = 2 PROVE IInv'
  <2>12. PICK new : new = gone \cup {"two"}
    OBVIOUS
  <2>13. new \in SUBSET Setter /\ "two" \in new /\ ("scale" \in new <=> "scale" \in gone)
    BY <1>1, <2>12 DEF Setter
  <2>1. PICK c : c = NewCommand2(200, 3, n, <<>>, <<>>)
    OBVIOUS
  <2>2. n \in Byte /\ n \in Nat
    BY <1>5, ByteNumbers
  <2>3. c \in Cmd /\ c.cmd = 200 /\ c.arg1 = 3 /\ c.arg2 = n
    BY <2>1, <2>2, ByteNumbers, SettingCommand DEF NewCommand2
  <2>4. PICK t : t = [old EXCEPT !.policy = n]
    OBVIOUS
  <2>5. /\ t \in Settings /\ t.policy = n /\ Of(t)
        /\ t.flags = old.flags /\ t.matched = old.matched
    BY <1>1, <2>2, <2>4 DEF Settings
  <2>6. Choose(t, new, c)
    BY <2>12, <1>1, <1>5, <2>1, <2>4 DEF SetWeightingScheme, Misc
  <2>7. /\ c \in PolicyIs(new) /\ IsSetting(c)
        /\ c \notin Cutoffs /\ c \notin Flags /\ c \notin Matcheds
    BY <1>5, <2>3, <2>5, <2>13 DEF Scheme, PolicyIs, Cutoffs, IsSetting, Matcheds, Flags, Policies
  <2>10. HeedsAll(c, old, gone, t, new)
    BY <2>12, <2>13, <2>5, <2>7 DEF HeedsAll, Heeds, IsSetting, Scheme
  <2>11. HeedsAll(c, chosen.set, chosen.past, t, new)
    BY <1>1, <2>10
  <2>14. t.policy = 2 => "two" \in new
    BY <1>1, <2>5, <2>13
  <2>. QED
    BY <2>3, <2>5, <2>6, <2>11, <2>13, <2>14, ChooseStep
<1>6. ASSUME NEW auto \in BOOLEAN, SetAutoSynonyms(auto) PROVE IInv'
  <2>12. PICK new : new = gone
    OBVIOUS
  <2>13. new \in SUBSET Setter /\ ("two" \in new <=> "two" \in gone)
    BY <1>1, <2>12 DEF Setter
  <2>1. PICK a \in {0, 6} : a = IF auto THEN 6 ELSE 0
    OBVIOUS
  <2>2. PICK c : c = NewCommand2(231, a, 7, <<>>, <<>>)
    OBVIOUS
  <2>3. a \in Byte /\ a \in Nat /\ 7 \in Byte
    BY ByteNumbers
  <2>4. c \in Cmd /\ c.cmd = 231 /\ c.arg1 = a /\ c.arg2 = 7
    BY <2>2, <2>3, ByteNumbers, SettingCommand DEF NewCommand2
  <2>5. PICK t : t = [old EXCEPT !.flags = <<a, 7>>]
    OBVIOUS
  <2>6. /\ t \in Settings /\ t.flags = <<a, 7>> /\ Of(t)
        /\ t.policy = old.policy /\ t.matched = old.matched
    BY <1>1, <2>3, <2>5 DEF Settings
  <2>7. c = NewCommand(231, a * 256 + 7, <<>>)
    <3>1. (a * 256 + 7) \div 256 = a /\ (a * 256 + 7) % 256 = 7
      OBVIOUS
    <3>. QED
      BY <2>2, <3>1 DEF NewCommand
  <2>8. Choose(t, new, c)
    <3>1. CASE auto
      BY <2>12, <1>1, <1>6, <2>1, <2>5, <2>7, <3>1 DEF SetAutoSynonyms
    <3>2. CASE ~auto
      BY <2>12, <1>1, <1>6, <2>1, <2>5, <2>7, <3>2 DEF SetAutoSynonyms
    <3>. QED
      BY <3>1, <3>2
  <2>9. /\ c \in FlagsAre(t) /\ IsSetting(c)
        /\ c \notin Cutoffs /\ c \notin Policies /\ c \notin Matcheds
    BY <2>4, <2>6 DEF FlagsAre, Cutoffs, IsSetting, Matcheds, Flags, Policies
  <2>10. HeedsAll(c, old, gone, t, new)
    BY <2>12, <2>13, <2>6, <2>9 DEF HeedsAll, Heeds, IsSetting, Scheme
  <2>11. HeedsAll(c, chosen.set, chosen.past, t, new)
    BY <1>1, <2>10
  <2>14. t.policy = 2 => "two" \in new
    BY <1>1, <2>6, <2>13
  <2>. QED
    BY <2>4, <2>6, <2>8, <2>11, <2>13, <2>14, ChooseStep
<1>7. ASSUME NEW n \in Policy, SetWeightingScheme(n), n # 2 PROVE IInv'
  <2>1. /\ UNCHANGED <<cached, reader, wire, server, replies, answer, sent>>
        /\ chosen' = IF n \in {0, 1}
                     THEN [set |-> [old EXCEPT !.policy = n], past |-> gone]
                     ELSE chosen
    <3>1. chosen \in [set : Settings, past : SUBSET Setter]
      BY DEF IInv, TypeInv
    <3>2. [chosen EXCEPT !.set.policy = n] = [set |-> [old EXCEPT !.policy = n], past |-> gone]
      BY <1>1, <3>1
    <3>. QED
      BY <1>1, <1>7, <3>2 DEF SetWeightingScheme, ClientOnly
  <2>2. PICK cs, e : Ahead(cs, e)
    BY DEF IInv
  <2>3. WillSet(cs, server, chosen'.set, chosen'.past)
    <3>1. WillSet(cs, server, old, gone)
      BY <1>1, <2>2 DEF Ahead
    <3>2. CASE n \notin {0, 1}
      BY <1>1, <2>1, <3>1, <3>2
    <3>3. CASE n \in {0, 1}
      <4>1. PICK t : t = [old EXCEPT !.policy = n]
        OBVIOUS
      <4>2. t.matched = old.matched /\ t.flags = old.flags /\ Of(t)
        BY <1>1, <4>1 DEF Settings
      <4>3. WillSet(cs, server, t, gone)
        BY <3>1, <4>2 DEF WillSet, MatchedIs, FlagsAre, CutoffIs
      <4>. QED
        BY <2>1, <3>3, <4>1, <4>3
    <3>. QED
      BY <3>2, <3>3
  <2>4. Ahead(cs, e)'
    BY <2>1, <2>2, <2>3 DEF Ahead, Unread, Will, Agrees, Awaits, Asks
  <2>5. /\ chosen' \in [set : Settings, past : SUBSET Setter]
        /\ chosen'.set.policy = 2 => "two" \in chosen'.past
    <3>1. CASE n \in {0, 1}
      <4>1. [old EXCEPT !.policy = n] \in Settings /\ [old EXCEPT !.policy = n].policy = n
        BY <1>1, <3>1 DEF Settings
      <4>. QED
        BY <1>1, <1>7, <2>1, <3>1, <4>1
    <3>2. CASE n \notin {0, 1}
      BY <2>1, <3>2 DEF IInv, TypeInv
    <3>. QED
      BY <3>1, <3>2
  <2>6. TypeInv'
    BY <2>1, <2>5 DEF IInv, TypeInv
  <2>. QED
    BY <2>4, <2>6 DEF IInv
<1>. QED
  BY <1>2, <1>3, <1>4, <1>5, <1>6, <1>7 DEF Setting

-----------------------------------------------------------------------------
(* The server reads a command                                              *)

\* The settings then are those of now with what c sets.
Obeys(c, now, then) ==
  /\ then.matched = IF c \in Matcheds THEN c.arg2 ELSE now.matched
  /\ then.flags = IF c \in Flags THEN <<c.arg1, c.arg2>> ELSE now.flags
  /\ then.percent = IF c \in Cutoffs THEN c.arg1 ELSE now.percent
  /\ then.weight = IF c \in Cutoffs THEN c.arg2 ELSE now.weight
  /\ then.policy = IF c \in Policies THEN c.arg2 ELSE now.policy

LEMMA WillSetLess ==
  ASSUME NEW cs \in Seq(Cmd), cs # <<>>, NEW now, NEW then, NEW s, NEW past,
         WillSet(cs, now, s, past), Obeys(Head(cs), now, then)
  PROVE  WillSet(Tail(cs), then, s, past)
<1>1. PICK c : c = Head(cs)
  OBVIOUS
<1>2. Obeys(c, now, then)
  BY <1>1
<1>3. Says(Tail(cs), Matcheds, MatchedIs(s), then.matched, s.matched)
  <2>1. MatchedIs(s) \subseteq Matcheds
    BY DEF MatchedIs
  <2>2. c \in MatchedIs(s) => then.matched = s.matched
    BY <1>2 DEF MatchedIs, Obeys
  <2>3. c \notin Matcheds => then.matched = now.matched
    BY <1>2 DEF Obeys
  <2>4. Says(cs, Matcheds, MatchedIs(s), now.matched, s.matched)
    BY DEF WillSet
  <2>. QED
    BY <1>1, <2>1, <2>2, <2>3, <2>4, SaysTail
<1>4. Says(Tail(cs), Flags, FlagsAre(s), then.flags, s.flags)
  <2>1. FlagsAre(s) \subseteq Flags
    BY DEF FlagsAre
  <2>2. c \in FlagsAre(s) => then.flags = s.flags
    BY <1>2 DEF FlagsAre, Obeys
  <2>3. c \notin Flags => then.flags = now.flags
    BY <1>2 DEF Obeys
  <2>4. Says(cs, Flags, FlagsAre(s), now.flags, s.flags)
    BY DEF WillSet
  <2>. QED
    BY <1>1, <2>1, <2>2, <2>3, <2>4, SaysTail
<1>5. ASSUME "scale" \notin past
      PROVE  Says(Tail(cs), Cutoffs, CutoffIs(s), <<then.percent, then.weight>>, <<s.percent, s.weight>>)
  <2>1. CutoffIs(s) \subseteq Cutoffs
    BY DEF CutoffIs
  <2>2. c \in CutoffIs(s) => <<then.percent, then.weight>> = <<s.percent, s.weight>>
    BY <1>2 DEF CutoffIs, Obeys
  <2>3. c \notin Cutoffs => <<then.percent, then.weight>> = <<now.percent, now.weight>>
    BY <1>2 DEF Obeys
  <2>4. Says(cs, Cutoffs, CutoffIs(s), <<now.percent, now.weight>>, <<s.percent, s.weight>>)
    BY <1>5 DEF WillSet
  <2>. QED
    BY <1>1, <2>1, <2>2, <2>3, <2>4, SaysTail
<1>6. Says(Tail(cs), Policies, PolicyIs(past), then.policy, Scheme(past))
  <2>1. PolicyIs(past) \subseteq Policies
    BY DEF PolicyIs
  <2>2. c \in PolicyIs(past) => then.policy = Scheme(past)
    BY <1>2 DEF PolicyIs, Obeys
  <2>3. c \notin Policies => then.policy = now.policy
    BY <1>2 DEF Obeys
  <2>4. Says(cs, Policies, PolicyIs(past), now.policy, Scheme(past))
    BY DEF WillSet
  <2>. QED
    BY <1>1, <2>1, <2>2, <2>3, <2>4, SaysTail
<1>. QED
  BY <1>3, <1>4, <1>5, <1>6 DEF WillSet

\* Responses are commands as they are sent, and their argument comes back.
LEMMA ResponseCommand ==
  ASSUME NEW k \in Byte, NEW arg \in Nat, arg <= 255, NEW buf \in Short
  PROVE  LET c == NewCommand(k, arg, buf)
         IN  c \in Cmd /\ c.cmd = k /\ GetArg(c) = arg /\ c.buf = buf
<1>1. <<>> \in Seq(Byte) /\ Len(<<>>) = 0
  OBVIOUS
<1>2. <<>> \in Short1
  BY <1>1 DEF Short1, Max8
<1>3. arg \div 256 = 0 /\ arg % 256 = arg
  OBVIOUS
<1>4. NewCommand(k, arg, buf) = [cmd |-> k, arg1 |-> 0, arg2 |-> arg, buf |-> buf, buf1 |-> <<>>]
  BY <1>3 DEF NewCommand, NewCommand2
<1>5. 0 \in Byte /\ arg \in Byte
  BY DEF Byte, Max8
<1>6. NewCommand(k, arg, buf) \in Cmd
  BY <1>2, <1>4, <1>5 DEF Cmd
<1>. QED
  BY <1>4, <1>6 DEF GetArg

\* The command the server reads is the first of those it has not read; a call waits
\* for the last of them.
LEMMA ServeFacts ==
  ASSUME NEW cs, NEW e, Ahead(cs, e), Serve
  PROVE  /\ cs \in Seq(Cmd) /\ cs # <<>> /\ reader.step # "idle" /\ cached = <<>>
         /\ Decode(Leading(wire)) = Head(cs) /\ Head(cs) \in Cmd
         /\ Stream(Rest(wire), Tail(cs)) /\ wire' = Rest(wire)
         /\ e = reader /\ Asks(cs, e.step)
         /\ UNCHANGED <<chosen, cached, reader, calls>>
<1>1. HasHead(wire) /\ wire' = Rest(wire) /\ UNCHANGED <<chosen, cached, reader, calls>>
  BY DEF Serve
<1>2. wire # <<>>
  BY <1>1 DEF HasHead
<1>3. reader.step # "idle" /\ cached = <<>> /\ Stream(wire, cs)
  BY <1>2 DEF Ahead, Unread
<1>4. cs # <<>> /\ cs \in Seq(Cmd)
  BY <1>2, <1>3, StreamNone DEF Stream
<1>5. Decode(Leading(wire)) = Head(cs) /\ Head(cs) \in Cmd /\ Stream(Rest(wire), Tail(cs))
  BY <1>3, <1>4, StreamHead
<1>6. Asks(cs, e.step)
  BY <1>3, <1>4 DEF Ahead, Awaits
<1>7. e = reader
  BY <1>6, WillEmpty DEF Ahead, Asks
<1>. QED
  BY <1>1, <1>3, <1>4, <1>5, <1>6, <1>7
-----------------------------------------------------------------------------
(* The first state, and calls                                              *)

LEMMA IdleReader ==
  ASSUME NEW step \in Step
  PROVE  Reader(step) \in ReaderT
BY EmptySeq DEF Reader, ReaderT

LEMMA EmptyShort == <<>> \in Short
<1>1. <<>> \in Seq(Byte) /\ Len(<<>>) = 0
  OBVIOUS
<1>2. Four(0)
  BY DEF Four, Max8
<1>. QED
  BY <1>1, <1>2 DEF Short

\* The places of the slice.
LEMMA NilRead ==
  /\ Nil \in DocRead
  /\ \A m \in Short :
       NewDocument(m) \in DocRead /\ NewDocument(m).meta = m /\ NewDocument(m).fields = {}
<1>1. <<>> \in Seq(Seq(Byte))
  OBVIOUS
<1>2. Nil \in DocRead
  BY <1>1, EmptyShort DEF Nil, DocRead
<1>3. ASSUME NEW m \in Short
      PROVE  NewDocument(m) \in DocRead /\ NewDocument(m).meta = m /\ NewDocument(m).fields = {}
  <2>1. NewDocument(m) \in DocRead
    BY <1>2 DEF NewDocument, DocRead
  <2>2. NewDocument(m).meta = m /\ NewDocument(m).fields = Nil.fields
    BY <1>2 DEF NewDocument, DocRead
  <2>3. Nil.fields = {}
    BY DEF Nil
  <2>. QED
    BY <2>1, <2>2, <2>3
<1>. QED
  BY <1>2, <1>3

LEMMA SliceRead ==
  ASSUME NEW n \in Nat
  PROVE  Slice(n) \in Seq(DocRead) /\ Len(Slice(n)) = n /\ \A i \in 1 .. n : Slice(n)[i] = Nil
<1>1. Slice(n) \in [1 .. n -> DocRead]
  BY NilRead DEF Slice
<1>2. Slice(n) \in Seq(DocRead) /\ Len(Slice(n)) = n
  BY <1>1, SeqDef, LenProperties
<1>. QED
  BY <1>2 DEF Slice

LEMMA NothingAgrees ==
  ASSUME NEW step \in Step, sent = Nothing, answer.step = "idle"
  PROVE  Agrees(Reader(step))
BY DEF Agrees, Reader, Nothing

LEMMA InitInv == Init => IInv
<1>. SUFFICES ASSUME Init PROVE IInv
  OBVIOUS
<1>1. /\ server = [percent |-> 0, weight |-> 0, matched |-> 0, policy |-> 0, scale |-> 100,
                   flags |-> <<0, 7>>]
      /\ chosen = [set |-> server, past |-> {}]
      /\ cached = <<>> /\ wire = <<>> /\ replies = <<>> /\ reader = Reader("idle")
      /\ answer = [step |-> "idle", left |-> 0] /\ sent = Nothing
  BY DEF Init
<1>2. server \in Settings
  BY <1>1 DEF Settings
<1>3. chosen \in [set : Settings, past : SUBSET Setter] /\ chosen.set.policy # 2
  BY <1>1, <1>2
<1>4. reader \in ReaderT /\ reader.step = "idle" /\ "idle" \in Step
  BY <1>1, IdleReader DEF Step, Reader
<1>5. answer \in [step : {"idle", "docs", "values", "words"}, left : Nat] /\ answer.step = "idle"
  BY <1>1
<1>6. sent \in [count : Nat, docs : Seq(DocSent), words : Seq(Word)]
  BY <1>1, EmptySeq DEF Nothing
<1>7. Unread(<<>>)
  BY <1>1, <1>4, StreamEmpty DEF Unread
<1>8. PICK now : now = server
  OBVIOUS
<1>9. WillSet(<<>>, now, now, {})
  BY <1>1, <1>8, SaysNone DEF WillSet, Scheme
<1>10. WillSet(<<>>, server, chosen.set, chosen.past)
  BY <1>1, <1>8, <1>9
<1>11. Will(replies, reader, reader)
  BY <1>1, <1>4, WillNone
<1>12. Agrees(reader)
  BY <1>1, <1>4, <1>5, NothingAgrees
<1>13. Awaits(<<>>, "idle")
  BY <1>4, <1>5 DEF Awaits
<1>14. Ahead(<<>>, reader)
  BY <1>4, <1>7, <1>10, <1>11, <1>12, <1>13 DEF Ahead
<1>. QED
  BY <1>2, <1>3, <1>4, <1>5, <1>6, <1>14 DEF IInv, TypeInv

\* A command that asks for an answer sets nothing.
LEMMA WillSetAsked ==
  ASSUME NEW cs \in Seq(Cmd), NEW now, NEW s, NEW past, NEW c \in Cmd, c.cmd \in {66, 99},
         WillSet(cs, now, s, past)
  PROVE  WillSet(Append(cs, c), now, s, past)
<1>1. c \notin Matcheds /\ c \notin Flags /\ c \notin Cutoffs /\ c \notin Policies
  BY DEF Matcheds, Flags, Cutoffs, Policies
<1>2. Says(Append(cs, c), Matcheds, MatchedIs(s), now.matched, s.matched)
  BY <1>1, SaysOther DEF WillSet
<1>3. Says(Append(cs, c), Flags, FlagsAre(s), now.flags, s.flags)
  BY <1>1, SaysOther DEF WillSet
<1>4. "scale" \notin past =>
        Says(Append(cs, c), Cutoffs, CutoffIs(s), <<now.percent, now.weight>>, <<s.percent, s.weight>>)
  BY <1>1, SaysOther DEF WillSet
<1>5. Says(Append(cs, c), Policies, PolicyIs(past), now.policy, Scheme(past))
  BY <1>1, SaysOther DEF WillSet
<1>. QED
  BY <1>2, <1>3, <1>4, <1>5 DEF WillSet

\* What is cached goes before the command of the call, which is the last.
LEMMA SendStep ==
  ASSUME IInv, NEW step \in {"begin", "expand"}, NEW c \in Cmd, Send(step, c),
         c.cmd = IF step = "begin" THEN 66 ELSE 99
  PROVE  IInv'
<1>1. PICK cs, e : Ahead(cs, e)
  BY DEF IInv
<1>2. /\ reader.step = "idle" /\ wire' = wire \o cached \o Encode(c) /\ cached' = <<>>
      /\ reader' = Reader(step) /\ sent' = Nothing
      /\ UNCHANGED <<chosen, server, replies, answer>>
  BY DEF Send, Begin
<1>3. /\ replies = <<>> /\ wire = <<>> /\ Stream(cached, cs)
      /\ answer.step = "idle" /\ \A i \in 1 .. Len(cs) : IsSetting(cs[i])
  BY <1>1, <1>2, Between
<1>4. cs \in Seq(Cmd) /\ cached \in Seq(Byte)
  BY <1>3 DEF Stream
<1>5. wire' = cached \o Encode(c)
  BY <1>2, <1>3, <1>4, ConcatEmptySeq
<1>6. PICK ds : ds = Append(cs, c)
  OBVIOUS
<1>7. /\ ds \in Seq(Cmd) /\ ds # <<>> /\ ds[Len(ds)] = c
      /\ \A i \in 1 .. Len(ds) - 1 : IsSetting(ds[i])
  <2>1. Len(cs) \in Nat /\ Len(ds) = Len(cs) + 1 /\ ds[Len(cs) + 1] = c /\ ds \in Seq(Cmd)
        /\ \A i \in 1 .. Len(cs) : ds[i] = cs[i]
    BY <1>4, <1>6, AppendProperties
  <2>. QED
    BY <1>3, <2>1
<1>8. Stream(wire', ds)
  BY <1>3, <1>5, <1>6, StreamAppend
<1>9. step \in Step /\ step # "idle"
  BY DEF Step
<1>10. PICK r : r = Reader(step)
  OBVIOUS
<1>11. r.step = step /\ r \in ReaderT /\ reader' = r
  BY <1>2, <1>9, <1>10, IdleReader DEF Reader
<1>12. Unread(ds)'
  BY <1>2, <1>8, <1>9, <1>11 DEF Unread
<1>13. PICK now, s, past : now = server /\ s = chosen.set /\ past = chosen.past
  OBVIOUS
<1>14. WillSet(ds, now, s, past)
  <2>1. WillSet(cs, now, s, past)
    BY <1>1, <1>13 DEF Ahead
  <2>. QED
    BY <1>4, <1>6, <2>1, WillSetAsked
<1>15. Will(<<>>, r, r)
  BY <1>11, WillNone
<1>16. replies' = <<>> /\ answer'.step = "idle"
  BY <1>2, <1>3
<1>17. Agrees(r)'
  BY <1>2, <1>10, <1>16 DEF Agrees, Reader, Nothing
<1>18. Asks(ds, step)'
  BY <1>2, <1>7, <1>16 DEF Asks, Nothing
<1>19. Ahead(ds, r)'
  BY <1>2, <1>11, <1>12, <1>13, <1>14, <1>15, <1>16, <1>17, <1>18 DEF Ahead, Awaits
<1>20. TypeInv'
  <2>1. sent' \in [count : Nat, docs : Seq(DocSent), words : Seq(Word)]
    BY <1>2, EmptySeq DEF Nothing
  <2>. QED
    BY <1>2, <1>11, <2>1 DEF IInv, TypeInv
<1>. QED
  BY <1>19, <1>20 DEF IInv

LEMMA QueryShort == \A q \in Query \cup Meta \cup Word : q \in Short
BY ByteAssumption DEF Short

\* The page of Search is as it is sent.
LEMMA PageShort == Bytes4(0) \o Bytes4(10) \in Short1
<1>. DEFINE a == Bytes4(0)
            b == Bytes4(10)
<1>1. Four(0) /\ Four(10)
  BY DEF Four, Max8
<1>2. a \in Seq(Byte) /\ Len(a) = 4 /\ b \in Seq(Byte) /\ Len(b) = 4
  BY <1>1, BytesOfNumber
<1>. HIDE DEF a, b
<1>3. a \o b \in Seq(Byte) /\ Len(a \o b) = Len(a) + Len(b)
  BY <1>2, Longer
<1>4. Len(a \o b) <= Max8
  BY <1>2, <1>3 DEF Max8
<1>5. a \o b \in Short1
  BY <1>3, <1>4 DEF Short1
<1>. QED
  BY <1>5 DEF a, b

LEMMA CallStep ==
  ASSUME IInv, NEW q \in Query, Search(q) \/ \E limits \in Limits : GetExpandedQuery(q, limits)
  PROVE  IInv'
<1>1. q \in Short
  BY QueryShort
<1>2. 66 \in Byte /\ 99 \in Byte /\ 0 \in Byte /\ 1 \in Byte /\ 10 \in Byte
  BY DEF Byte, Max8
<1>3. ASSUME Search(q) PROVE IInv'
  <2>2. PICK page : page = Bytes4(0) \o Bytes4(10)
    OBVIOUS
  <2>4. page \in Short1
    BY <2>2, PageShort
  <2>5. PICK c : c = NewCommand2(66, 0, 0, q, page)
    OBVIOUS
  <2>6. c \in Cmd /\ c.cmd = 66
    BY <1>1, <1>2, <2>4, <2>5 DEF NewCommand2, Cmd
  <2>7. Send("begin", c)
    BY <1>3, <2>2, <2>5 DEF Search
  <2>. QED
    BY <2>6, <2>7, SendStep
<1>4. ASSUME NEW limits \in Limits, GetExpandedQuery(q, limits) PROVE IInv'
  <2>1. PICK n \in Byte : n = MaxLimit(limits)
    <3>1. CASE limits = <<>>
      BY <1>2, <3>1 DEF MaxLimit
    <3>2. CASE limits = <<1>>
      <4>1. <<1>> # <<>> /\ <<1>>[1] = 1
        OBVIOUS
      <4>2. MaxLimit(limits) = 1
        BY <3>2, <4>1 DEF MaxLimit, Lower
      <4>. QED
        BY <1>2, <4>2
    <3>. QED
      BY <3>1, <3>2 DEF Limits
  <2>2. <<>> \in Seq(Byte) /\ Len(<<>>) = 0
    OBVIOUS
  <2>3. <<>> \in Short1
    BY <2>2 DEF Short1, Max8
  <2>4. PICK c : c = NewCommand2(99, n, 0, q, <<>>)
    OBVIOUS
  <2>5. c \in Cmd /\ c.cmd = 99
    BY <1>1, <1>2, <2>3, <2>4 DEF NewCommand2, Cmd
  <2>6. Send("expand", c)
    BY <1>4, <2>1, <2>4 DEF GetExpandedQuery
  <2>. QED
    BY <2>5, <2>6, SendStep
<1>. QED
  BY <1>3, <1>4

LEMMA ServeSetting ==
  ASSUME IInv, Serve, NEW cs, NEW e, Ahead(cs, e), Head(cs).cmd \notin {66, 99},
         NEW then \in Settings, Set(then), Obeys(Head(cs), server, then)
  PROVE  IInv'
<1>1. /\ cs \in Seq(Cmd) /\ cs # <<>> /\ reader.step # "idle" /\ cached = <<>>
      /\ Stream(Rest(wire), Tail(cs)) /\ wire' = Rest(wire)
      /\ e = reader /\ Asks(cs, e.step)
      /\ UNCHANGED <<chosen, cached, reader, calls>>
  BY ServeFacts
<1>2. server' = then /\ UNCHANGED <<replies, answer, sent>>
  BY DEF Set
<1>3. PICK ds : ds = Tail(cs)
  OBVIOUS
<1>4. PICK n \in Nat : n = Len(cs)
  BY <1>1
<1>5. /\ n >= 1 /\ Head(cs) = cs[1] /\ ds \in Seq(Cmd) /\ Len(ds) = n - 1
      /\ \A i \in 1 .. n - 1 : ds[i] = cs[i + 1]
  BY <1>1, <1>3, <1>4, HeadTailProperties, EmptySeq
<1>6. /\ e.step \in {"begin", "expand"} /\ cs[n].cmd = IF e.step = "begin" THEN 66 ELSE 99
      /\ \A i \in 1 .. n - 1 : IsSetting(cs[i])
      /\ answer.step = "idle" /\ replies = <<>> /\ sent.count = 0
  BY <1>1, <1>4 DEF Asks
<1>7. n # 1
  BY <1>5, <1>6
<1>8. ds # <<>> /\ ds[Len(ds)] = cs[n]
  BY <1>4, <1>5, <1>7
<1>9. \A i \in 1 .. Len(ds) - 1 : IsSetting(ds[i])
  BY <1>4, <1>5, <1>6
<1>10. Asks(ds, e.step)'
  BY <1>1, <1>2, <1>6, <1>8, <1>9 DEF Asks
<1>11. Unread(ds)'
  BY <1>1, <1>3 DEF Unread
<1>12. PICK now, s, past : now = server /\ s = chosen.set /\ past = chosen.past
  OBVIOUS
<1>13. WillSet(ds, then, s, past)
  <2>1. WillSet(cs, now, s, past)
    BY <1>12 DEF Ahead
  <2>2. Obeys(Head(cs), now, then)
    BY <1>12
  <2>. QED
    BY <1>1, <1>3, <2>1, <2>2, WillSetLess
<1>14. WillSet(ds, server, chosen.set, chosen.past)'
  BY <1>1, <1>2, <1>12, <1>13
<1>15. e \in ReaderT /\ Will(replies, reader, e) /\ Agrees(e)
  BY DEF Ahead
<1>16. Will(replies, reader, e)' /\ Agrees(e)'
  BY <1>1, <1>2, <1>15 DEF Agrees, Will
<1>17. Ahead(ds, e)'
  BY <1>10, <1>11, <1>14, <1>15, <1>16 DEF Ahead, Awaits
<1>18. TypeInv'
  BY <1>1, <1>2 DEF IInv, TypeInv
<1>. QED
  BY <1>17, <1>18 DEF IInv

LEMMA CountBack ==
  ASSUME NEW n \in Nat, Four(n)
  PROVE  Bytes4(n) \in Short /\ Len(Bytes4(n)) = 4 /\ UnPack4(Bytes4(n), 1) = n
<1>. DEFINE b == Bytes4(n)
<1>1. b \in Seq(Byte) /\ Len(b) = 4 /\ Number4(b) = n
  BY BytesOfNumber
<1>. HIDE DEF b
<1>2. SubSeq(b, 1, 4) = b
  BY <1>1, SubSeqFull
<1>3. 4 * 1 - 3 = 1 /\ 4 * 1 = 4
  OBVIOUS
<1>4. UnPack4(b, 1) = n
  BY <1>1, <1>2, <1>3 DEF UnPack4
<1>5. Four(4)
  BY DEF Four, Max8
<1>6. b \in Short
  BY <1>1, <1>5 DEF Short
<1>. QED
  BY <1>1, <1>4, <1>6 DEF b

LEMMA OkResponse ==
  ASSUME NEW arg \in {206, 207}, NEW buf \in Short
  PROVE  LET c == NewCommand(128, arg, buf)
         IN  c \in Cmd /\ OkWith(c, arg) /\ c.buf = buf
<1>1. 128 \in Byte /\ arg \in Nat /\ arg <= 255
  BY DEF Byte, Max8
<1>. QED
  BY <1>1, ResponseCommand DEF OkWith

\* The answer begins with the number of matches.
LEMMA BeginStep ==
  ASSUME IInv, Serve, NEW cs, NEW e, Ahead(cs, e), NEW step \in {"docs", "words"},
         Head(cs).cmd = IF step = "docs" THEN 66 ELSE 99,
         NEW n \in Nat, NEW count \in Nat, Four(count),
         IF step = "words" THEN count = 0 ELSE n <= count,
         Begins(step, n, count)
  PROVE  IInv'
<1>1. /\ cs \in Seq(Cmd) /\ cs # <<>> /\ reader.step # "idle" /\ cached = <<>>
      /\ Stream(Rest(wire), Tail(cs)) /\ wire' = Rest(wire) /\ Head(cs) \in Cmd
      /\ e = reader /\ Asks(cs, e.step)
      /\ UNCHANGED <<chosen, cached, reader, calls>>
  BY ServeFacts
<1>2. PICK r : r = NewCommand(128, 206, Bytes4(count))
  OBVIOUS
<1>3. /\ replies' = replies \o Encode(r) /\ answer' = [step |-> step, left |-> n]
      /\ sent' = [sent EXCEPT !.count = count] /\ UNCHANGED server
  BY <1>2 DEF Begins, Respond
<1>4. PICK l \in Nat : l = Len(cs)
  BY <1>1
<1>5. PICK c : c = Head(cs)
  OBVIOUS
<1>6. /\ l >= 1 /\ c = cs[1] /\ Tail(cs) \in Seq(Cmd) /\ Len(Tail(cs)) = l - 1
  BY <1>1, <1>4, <1>5, HeadTailProperties, EmptySeq
<1>7. /\ e.step \in {"begin", "expand"} /\ cs[l].cmd = IF e.step = "begin" THEN 66 ELSE 99
      /\ \A i \in 1 .. l - 1 : IsSetting(cs[i])
      /\ replies = <<>> /\ sent.count = 0
  BY <1>1, <1>4 DEF Asks
<1>8. c \in Cmd /\ c.cmd = (IF step = "docs" THEN 66 ELSE 99)
  BY <1>1, <1>5
<1>9. c \notin Matcheds /\ c \notin Flags /\ c \notin Cutoffs /\ c \notin Policies
  BY <1>8 DEF Matcheds, Flags, Cutoffs, Policies
<1>10. l = 1
  BY <1>6, <1>7, <1>9 DEF IsSetting
<1>11. Tail(cs) = <<>>
  <2>1. PICK ts : ts = Tail(cs)
    OBVIOUS
  <2>2. ts \in Seq(Cmd) /\ Len(ts) = 0
    BY <1>6, <1>10, <2>1
  <2>3. ts = <<>>
    BY <2>2, EmptySeq
  <2>. QED
    BY <2>1, <2>3
<1>12. e.step = IF step = "docs" THEN "begin" ELSE "expand"
  BY <1>6, <1>7, <1>8, <1>10
<1>13. Unread(<<>>)'
  BY <1>1, <1>11 DEF Unread
<1>14. PICK now, s, past : now = server /\ s = chosen.set /\ past = chosen.past
  OBVIOUS
<1>15. WillSet(<<>>, now, s, past)
  <2>1. WillSet(cs, now, s, past)
    BY <1>14 DEF Ahead
  <2>2. Obeys(Head(cs), now, now)
    BY <1>5, <1>9 DEF Obeys
  <2>3. WillSet(Tail(cs), now, s, past)
    BY <1>1, <2>1, <2>2, WillSetLess
  <2>. QED
    BY <1>11, <2>3
<1>16. WillSet(<<>>, server, chosen.set, chosen.past)'
  BY <1>1, <1>3, <1>14, <1>15
<1>17. r \in Cmd /\ OkWith(r, 206) /\ Len(r.buf) = 4 /\ UnPack4(r.buf, 1) = count
  BY <1>2, CountBack, OkResponse
<1>18. e \in ReaderT /\ Will(replies, reader, e) /\ Agrees(e)
  BY DEF Ahead
<1>19. PICK d : d = IF step = "docs" THEN Counted(e, count) ELSE [e EXCEPT !.step = "words"]
  OBVIOUS
<1>20. Reads(e, r, d)
  BY <1>12, <1>17, <1>19 DEF Reads
<1>21. /\ d \in ReaderT /\ d.words = e.words /\ d.at = e.at
       /\ d.docs = IF step = "docs" THEN Slice(count) ELSE e.docs
       /\ d.step = IF step = "docs" THEN "items" ELSE "words"
       /\ d.count = IF step = "docs" THEN count ELSE e.count
  BY <1>18, <1>19, SliceRead DEF ReaderT, Step, Counted
<1>22. Will(replies, reader, d)'
  <2>1. Will(replies \o Encode(r), reader, d)
    BY <1>17, <1>18, <1>20, <1>21, WillAppend
  <2>. QED
    BY <1>1, <1>3, <2>1 DEF Will
<1>23. sent \in [count : Nat, docs : Seq(DocSent), words : Seq(Word)]
  BY DEF IInv, TypeInv
<1>24. /\ sent' \in [count : Nat, docs : Seq(DocSent), words : Seq(Word)]
       /\ sent'.count = count /\ sent'.docs = sent.docs /\ sent'.words = sent.words
  BY <1>3, <1>23
<1>25. Agrees(d)'
  <2>1. /\ e.count = 0 /\ Len(e.docs) = 0 /\ e.at = 0 /\ e.words = sent.words
        /\ Len(sent.docs) = 0
    BY <1>7, <1>18, <1>23 DEF Agrees, ReaderT
  <2>2. d.count = count /\ Len(d.docs) = count /\ \A i \in 1 .. count : d.docs[i] = Nil
    <3>1. CASE step = "docs"
      BY <1>21, <3>1, SliceRead
    <3>2. CASE step = "words"
      BY <1>21, <2>1, <3>2
    <3>. QED
      BY <3>1, <3>2
  <2>3. answer'.step \in {"docs", "values"} => answer'.left <= count
    BY <1>3
  <2>. QED
    BY <1>3, <1>21, <1>24, <2>1, <2>2, <2>3 DEF Agrees
<1>26. Awaits(<<>>, d.step)'
  BY <1>3, <1>21 DEF Awaits
<1>27. Ahead(<<>>, d)'
  BY <1>13, <1>16, <1>22, <1>21, <1>25, <1>26 DEF Ahead
<1>28. TypeInv'
  BY <1>1, <1>3, <1>24 DEF IInv, TypeInv
<1>. QED
  BY <1>27, <1>28 DEF IInv

LEMMA FourLess ==
  ASSUME NEW m \in Nat, NEW n \in Nat, m <= n, Four(n)
  PROVE  Four(m)
<1>1. m \div 16777216 <= n \div 16777216
  BY SMT
<1>2. m \div 16777216 \in Nat /\ n \div 16777216 \in Nat
  BY SMT
<1>3. n \div 16777216 <= Max8
  BY SMT DEF Four
<1>4. Max8 \in Nat
  BY DEF Max8
<1>5. m \div 16777216 <= Max8
  BY <1>1, <1>2, <1>3, <1>4, SMT
<1>. QED
  BY <1>5, SMT DEF Four

LEMMA ServeStep ==
  ASSUME IInv, Serve
  PROVE  IInv'
<1>1. PICK cs, e : Ahead(cs, e)
  BY DEF IInv
<1>2. PICK c : c = Head(cs)
  OBVIOUS
<1>3. Decode(Leading(wire)) = c /\ c \in Cmd
  BY <1>1, <1>2, ServeFacts
<1>4. c.arg1 \in Nat /\ c.arg2 \in Nat /\ c.arg1 \in Byte /\ c.arg2 \in Byte
  BY <1>3, ByteNumbers DEF Cmd
<1>5. PICK now \in Settings : now = server
  BY DEF IInv, TypeInv
<1>6. ASSUME NEW then \in Settings, Set(then), Obeys(c, now, then), c.cmd \in {199, 200, 231}
      PROVE  IInv'
  <2>1. Head(cs).cmd \notin {66, 99} /\ Obeys(Head(cs), server, then)
    BY <1>2, <1>5, <1>6
  <2>. QED
    BY <1>1, <1>6, <2>1, ServeSetting
<1>7. ASSUME c.cmd = 199, Set([now EXCEPT !.percent = c.arg1, !.weight = c.arg2]) PROVE IInv'
  <2>1. PICK t : t = [now EXCEPT !.percent = c.arg1, !.weight = c.arg2]
    OBVIOUS
  <2>2. /\ t \in Settings /\ t.percent = c.arg1 /\ t.weight = c.arg2 /\ t.matched = now.matched
        /\ t.flags = now.flags /\ t.policy = now.policy
    BY <1>4, <2>1 DEF Settings
  <2>3. Obeys(c, now, t)
    BY <1>3, <1>7, <2>2 DEF Obeys, Cutoffs, Matcheds, Flags, Policies
  <2>. QED
    BY <1>6, <1>7, <2>1, <2>2, <2>3
<1>8. ASSUME c.cmd = 200, c.arg1 = 1, Set([now EXCEPT !.scale = c.arg2]) PROVE IInv'
  <2>1. PICK t : t = [now EXCEPT !.scale = c.arg2]
    OBVIOUS
  <2>2. /\ t \in Settings /\ t.percent = now.percent /\ t.weight = now.weight
        /\ t.matched = now.matched /\ t.flags = now.flags /\ t.policy = now.policy
    BY <1>4, <2>1 DEF Settings
  <2>3. Obeys(c, now, t)
    BY <1>3, <1>8, <2>2 DEF Obeys, Cutoffs, Matcheds, Flags, Policies
  <2>. QED
    BY <1>6, <1>8, <2>1, <2>2, <2>3
<1>9. ASSUME c.cmd = 200, c.arg1 = 2, Set([now EXCEPT !.matched = c.arg2]) PROVE IInv'
  <2>1. PICK t : t = [now EXCEPT !.matched = c.arg2]
    OBVIOUS
  <2>2. /\ t \in Settings /\ t.percent = now.percent /\ t.weight = now.weight
        /\ t.matched = c.arg2 /\ t.flags = now.flags /\ t.policy = now.policy
    BY <1>4, <2>1 DEF Settings
  <2>3. Obeys(c, now, t)
    BY <1>3, <1>9, <2>2 DEF Obeys, Cutoffs, Matcheds, Flags, Policies
  <2>. QED
    BY <1>6, <1>9, <2>1, <2>2, <2>3
<1>10. ASSUME c.cmd = 200, c.arg1 = 3, Set([now EXCEPT !.policy = c.arg2]) PROVE IInv'
  <2>1. PICK t : t = [now EXCEPT !.policy = c.arg2]
    OBVIOUS
  <2>2. /\ t \in Settings /\ t.percent = now.percent /\ t.weight = now.weight
        /\ t.matched = now.matched /\ t.flags = now.flags /\ t.policy = c.arg2
    BY <1>4, <2>1 DEF Settings
  <2>3. Obeys(c, now, t)
    BY <1>3, <1>10, <2>2 DEF Obeys, Cutoffs, Matcheds, Flags, Policies
  <2>. QED
    BY <1>6, <1>10, <2>1, <2>2, <2>3
<1>11. ASSUME c.cmd = 231, Set([now EXCEPT !.flags = <<c.arg1, c.arg2>>]) PROVE IInv'
  <2>1. PICK t : t = [now EXCEPT !.flags = <<c.arg1, c.arg2>>]
    OBVIOUS
  <2>2. /\ t \in Settings /\ t.percent = now.percent /\ t.weight = now.weight
        /\ t.matched = now.matched /\ t.flags = <<c.arg1, c.arg2>> /\ t.policy = now.policy
    BY <1>4, <2>1 DEF Settings
  <2>3. Obeys(c, now, t)
    BY <1>3, <1>11, <2>2 DEF Obeys, Cutoffs, Matcheds, Flags, Policies
  <2>. QED
    BY <1>6, <1>11, <2>1, <2>2, <2>3
<1>12. ASSUME c.cmd = 66, NEW n \in 0 .. MaxDocs, NEW more \in 0 .. MaxMore, Begins("docs", n, n + more)
       PROVE  IInv'
  <2>1. n \in Nat /\ n + more \in Nat /\ n + more <= MaxDocs + MaxMore /\ MaxDocs + MaxMore \in Nat
    BY BoundAssumption
  <2>2. Four(n + more)
    BY <2>1, FourLess, BoundAssumption
  <2>3. Head(cs).cmd = 66
    BY <1>2, <1>12
  <2>4. PICK step \in {"docs", "words"} : step = "docs"
    OBVIOUS
  <2>5. Begins(step, n, n + more) /\ Head(cs).cmd = (IF step = "docs" THEN 66 ELSE 99)
    BY <1>12, <2>3, <2>4
  <2>6. n <= n + more
    BY BoundAssumption
  <2>. QED
    BY <1>1, <2>1, <2>2, <2>4, <2>5, <2>6, BeginStep
<1>13. ASSUME c.cmd = 99, NEW n \in 0 .. Lower(c.arg1, MaxDocs), Begins("words", n, 0)
       PROVE  IInv'
  <2>1. n \in Nat /\ 0 \in Nat
    BY <1>4, BoundAssumption DEF Lower
  <2>2. Four(0)
    BY DEF Four, Max8
  <2>3. Head(cs).cmd = 99
    BY <1>2, <1>13
  <2>4. PICK step \in {"docs", "words"} : step = "words"
    OBVIOUS
  <2>5. Begins(step, n, 0) /\ Head(cs).cmd = (IF step = "docs" THEN 66 ELSE 99)
    BY <1>13, <2>3, <2>4
  <2>. QED
    BY <1>1, <2>1, <2>2, <2>4, <2>5, BeginStep
<1>. QED
  BY <1>3, <1>5, <1>7, <1>8, <1>9, <1>10, <1>11, <1>12, <1>13 DEF Serve

-----------------------------------------------------------------------------
(* The server writes an answer                                             *)

\* A response that takes the call that has read all there is to one that agrees
\* with what the server has sent then.
LEMMA WriteStep ==
  ASSUME IInv, NEW cs, NEW e, Ahead(cs, e), answer.step # "idle",
         NEW c \in Cmd, NEW d \in ReaderT, Reads(e, c, d), replies' = replies \o Encode(c),
         NEW step, NEW left \in Nat, Writes(step, left),
         sent' \in [count : Nat, docs : Seq(DocSent), words : Seq(Word)], Agrees(d)',
         \/ d.step = "items" /\ step \in {"docs", "values"}
         \/ d.step = "words" /\ step = "words"
         \/ d.step = "idle" /\ step = "idle"
  PROVE  IInv'
<1>1. /\ answer' = [step |-> step, left |-> left]
      /\ UNCHANGED <<chosen, cached, wire, server, reader, calls>>
  BY DEF Writes
<1>2. reader.step # "idle"
  BY Between
<1>3. cs = <<>>
  BY <1>2 DEF Ahead, Awaits, Asks
<1>4. Unread(cs)'
  BY <1>1 DEF Ahead, Unread
<1>5. Will(replies, reader, d)'
  <2>1. Will(replies \o Encode(c), reader, d)
    BY WillAppend DEF Ahead
  <2>. QED
    BY <1>1, <2>1 DEF Will
<1>6. WillSet(cs, server, chosen.set, chosen.past)'
  BY <1>1 DEF Ahead, WillSet
<1>7. Awaits(cs, d.step)'
  BY <1>1, <1>3 DEF Awaits
<1>8. Ahead(cs, d)'
  BY <1>4, <1>5, <1>6, <1>7 DEF Ahead
<1>9. TypeInv'
  <2>1. answer' \in [step : {"idle", "docs", "values", "words"}, left : Nat]
    BY <1>1
  <2>. QED
    BY <1>1, <2>1 DEF IInv, TypeInv
<1>. QED
  BY <1>8, <1>9 DEF IInv

\* What is known of it while the server writes.
LEMMA Written ==
  ASSUME IInv, NEW cs, NEW e, Ahead(cs, e), answer.step # "idle"
  PROVE  /\ e \in ReaderT /\ e.docs \in Seq(DocRead) /\ e.words \in Seq(Short)
         /\ e.count \in Nat /\ e.step \in Step
         /\ e.step = IF answer.step = "words" THEN "words" ELSE "items"
         /\ sent \in [count : Nat, docs : Seq(DocSent), words : Seq(Word)]
         /\ sent.docs \in Seq(DocSent) /\ sent.words \in Seq(Word) /\ sent.count \in Nat
         /\ answer.left \in Nat /\ e.at \in Nat /\ Agrees(e)
<1>1. e \in ReaderT /\ Agrees(e) /\ Awaits(cs, e.step)
  BY DEF Ahead
<1>2. sent \in [count : Nat, docs : Seq(DocSent), words : Seq(Word)]
      /\ answer \in [step : {"idle", "docs", "values", "words"}, left : Nat]
  BY DEF IInv, TypeInv
<1>3. sent.docs \in Seq(DocSent) /\ sent.words \in Seq(Word) /\ sent.count \in Nat /\ answer.left \in Nat
  BY <1>2
<1>4. /\ e.docs \in Seq(DocRead) /\ e.words \in Seq(Short) /\ e.count \in Nat /\ e.step \in Step
      /\ e.at \in Nat
  BY <1>1 DEF ReaderT
<1>5. e.step = IF answer.step = "words" THEN "words" ELSE "items"
  BY <1>1 DEF Awaits, Asks
<1>. QED
  BY <1>1, <1>2, <1>3, <1>4, <1>5

LEMMA WriteDocStep ==
  ASSUME IInv, WriteDoc
  PROVE  IInv'
<1>1. PICK cs, e : Ahead(cs, e)
  BY DEF IInv
<1>2. PICK m \in Meta :
        /\ Done /\ answer.left > 0 /\ Respond(140, 0, m)
        /\ sent' = [sent EXCEPT !.docs = Append(@, [meta |-> m, values |-> {}, matched |-> <<>>])]
        /\ Writes("values", answer.left - 1)
  BY DEF WriteDoc
<1>3. answer.step \in {"docs", "values"}
  BY <1>2 DEF Done
<1>4. /\ e \in ReaderT /\ e.docs \in Seq(DocRead) /\ e.step = "items" /\ e.at \in Nat
      /\ sent \in [count : Nat, docs : Seq(DocSent), words : Seq(Word)]
      /\ sent.docs \in Seq(DocSent) /\ answer.left \in Nat /\ sent.count \in Nat /\ Agrees(e)
  BY <1>1, <1>3, Written
<1>5. PICK n \in Nat, k \in Nat : n = e.at /\ k = sent.count
  BY <1>4
<1>6. /\ e.count = k /\ e.words = sent.words /\ Len(e.docs) = k /\ Len(sent.docs) = n
      /\ n + answer.left <= k /\ n + 1 <= k
      /\ \A i \in 1 .. n : AsSent(e.docs[i], sent.docs[i])
      /\ \A i \in n + 1 .. k : e.docs[i] = Nil
  BY <1>2, <1>3, <1>4, <1>5 DEF Agrees
<1>7. PICK c : c = NewCommand(140, 0, m)
  OBVIOUS
<1>8. m \in Short /\ c \in Cmd /\ c.cmd = 140 /\ c.buf = m /\ replies' = replies \o Encode(c)
  <2>1. m \in Short
    BY QueryShort
  <2>2. 140 \in Byte /\ 0 \in Nat /\ 0 <= 255
    BY DEF Byte, Max8
  <2>3. c \in Cmd /\ c.cmd = 140 /\ c.buf = m
    BY <1>7, <2>1, <2>2, ResponseCommand
  <2>. QED
    BY <1>2, <1>7, <2>1, <2>3 DEF Respond
<1>9. PICK x, y : x = NewDocument(m) /\ y = [meta |-> m, values |-> {}, matched |-> <<>>]
  OBVIOUS
<1>10. x \in DocRead /\ y \in DocSent /\ AsSent(x, y)
  <2>1. x \in DocRead /\ x.meta = m /\ x.fields = {}
    BY <1>8, <1>9, NilRead
  <2>2. y \in DocSent /\ y.meta = m /\ y.values = {}
    BY <1>9 DEF DocSent
  <2>3. Named({}) = {}
    BY DEF Named
  <2>. QED
    BY <2>1, <2>2, <2>3 DEF AsSent
<1>11. PICK xs, ys : xs = [e.docs EXCEPT ![n + 1] = x] /\ ys = Append(sent.docs, y)
  OBVIOUS
<1>12. /\ xs \in Seq(DocRead) /\ Len(xs) = k
       /\ \A i \in 1 .. k : xs[i] = IF i = n + 1 THEN x ELSE e.docs[i]
  <2>1. n + 1 \in 1 .. Len(e.docs)
    BY <1>6
  <2>. QED
    BY <1>4, <1>6, <1>10, <1>11, <2>1, ExceptSeq
<1>13. /\ ys \in Seq(DocSent) /\ Len(ys) = n + 1 /\ ys[n + 1] = y /\ \A i \in 1 .. n : ys[i] = sent.docs[i]
  BY <1>4, <1>6, <1>10, <1>11, AppendProperties
<1>14. PICK d : d = [e EXCEPT !.at = n + 1, !.docs = xs]
  OBVIOUS
<1>15. /\ d \in ReaderT /\ d.docs = xs /\ d.at = n + 1 /\ d.count = k
       /\ d.words = e.words /\ d.step = "items"
  <2>1. n + 1 \in Nat
    OBVIOUS
  <2>. QED
    BY <1>4, <1>6, <1>12, <1>14, <2>1 DEF ReaderT
<1>16. Reads(e, c, d)
  <2>1. d = WithDoc(e, c)
    BY <1>4, <1>5, <1>8, <1>9, <1>11, <1>14 DEF WithDoc, ReaderT
  <2>. QED
    BY <1>4, <1>5, <1>6, <1>8, <2>1 DEF Reads
<1>17. sent' = [sent EXCEPT !.docs = ys]
  BY <1>2, <1>9, <1>11
<1>18. /\ sent' \in [count : Nat, docs : Seq(DocSent), words : Seq(Word)]
       /\ sent'.docs = ys /\ sent'.count = k /\ sent'.words = sent.words
  BY <1>4, <1>5, <1>13, <1>17
<1>19. \A i \in 1 .. n + 1 : AsSent(xs[i], ys[i])
  <2>. SUFFICES ASSUME NEW i \in 1 .. n + 1 PROVE AsSent(xs[i], ys[i])
    OBVIOUS
  <2>1. CASE i = n + 1
    BY <1>6, <1>10, <1>12, <1>13, <2>1
  <2>2. CASE i \in 1 .. n
    BY <1>6, <1>12, <1>13, <2>2
  <2>. QED
    BY <2>1, <2>2
<1>20. \A i \in (n + 1) + 1 .. k : xs[i] = Nil
  BY <1>6, <1>12
<1>21. ys # <<>> /\ answer'.left = answer.left - 1
  BY <1>2, <1>13 DEF Writes
<1>22. (n + 1) + (answer.left - 1) <= k
  BY <1>4, <1>6
<1>23. Agrees(d)'
  BY <1>6, <1>12, <1>13, <1>15, <1>18, <1>19, <1>20, <1>21, <1>22 DEF Agrees
<1>24. answer.left - 1 \in Nat /\ answer.step # "idle"
  BY <1>2, <1>3, <1>4
<1>. QED
  BY <1>1, <1>2, <1>8, <1>15, <1>16, <1>18, <1>23, <1>24, WriteStep

\* Names tell numbers apart: the value replaces none of another number.
LEMMA NamedMore ==
  ASSUME NEW vs \in SUBSET (Vno \X Word), NEW n \in Vno, NEW w \in Word, \A v \in vs : v[1] # n
  PROVE  Named(vs \cup {<<n, w>>}) = {v \in Named(vs) : v[1] # Name(n)} \cup {<<Name(n), w>>}
<1>1. \A v \in vs : v[1] \in Vno /\ Name(v[1]) # Name(n)
  BY NameAssumption
<1>2. Named(vs \cup {<<n, w>>}) = Named(vs) \cup {<<Name(n), w>>}
  <2>1. PICK p : p = <<n, w>>
    OBVIOUS
  <2>2. p[1] = n /\ p[2] = w
    BY <2>1
  <2>3. Named(vs \cup {p}) = Named(vs) \cup {<<Name(p[1]), p[2]>>}
    BY Zenon DEF Named
  <2>. QED
    BY <2>1, <2>2, <2>3
<1>3. \A v \in Named(vs) : v[1] # Name(n)
  BY <1>1 DEF Named
<1>. QED
  BY <1>2, <1>3

LEMMA WriteValueStep ==
  ASSUME IInv, WriteValue
  PROVE  IInv'
<1>1. PICK cs, e : Ahead(cs, e)
  BY DEF IInv
<1>2. PICK n \in Vno, w \in Word :
        /\ answer.step = "values" /\ \A v \in sent.docs[Len(sent.docs)].values : v[1] # n
        /\ Respond(141, n, w)
        /\ sent' = [sent EXCEPT !.docs[Len(sent.docs)].values = @ \cup {<<n, w>>}]
        /\ Writes("values", answer.left)
  BY DEF WriteValue
<1>3. PICK k : k = Len(sent.docs)
  OBVIOUS
<1>4. /\ e \in ReaderT /\ e.docs \in Seq(DocRead) /\ e.step = "items" /\ e.at \in Nat
      /\ sent \in [count : Nat, docs : Seq(DocSent), words : Seq(Word)]
      /\ sent.docs \in Seq(DocSent) /\ answer.left \in Nat /\ sent.count \in Nat
      /\ k \in Nat /\ Agrees(e)
      /\ e.count = sent.count /\ e.words = sent.words /\ Len(e.docs) = sent.count
      /\ e.at = k /\ k <= sent.count /\ k + answer.left <= sent.count
      /\ \A i \in 1 .. k : AsSent(e.docs[i], sent.docs[i])
      /\ \A i \in k + 1 .. sent.count : e.docs[i] = Nil
      /\ sent.docs # <<>>
  <2>1. Agrees(e) /\ e.at \in Nat
    BY <1>1, <1>2, Written
  <2>2. k \in Nat /\ e.at = k
    BY <1>3, <2>1 DEF Agrees
  <2>. QED
    BY <1>1, <1>2, <1>3, <2>1, <2>2, Written DEF Agrees
<1>5. k \in 1 .. Len(e.docs) /\ k \in 1 .. Len(sent.docs) /\ k \in 1 .. k
      /\ e.docs[k] \in DocRead /\ sent.docs[k] \in DocSent
  <2>1. k # 0
    BY <1>3, <1>4, EmptySeq
  <2>. QED
    BY <1>3, <1>4, <2>1
<1>6. PICK c : c = NewCommand(141, n, w)
  OBVIOUS
<1>7. /\ w \in Short /\ c \in Cmd /\ c.cmd = 141 /\ c.buf = w /\ GetArg(c) % 256 = n /\ n \in Byte
      /\ replies' = replies \o Encode(c)
  <2>1. w \in Short /\ n \in Byte
    BY QueryShort, ByteAssumption
  <2>2. 141 \in Byte /\ n \in Nat /\ n <= 255
    BY <2>1 DEF Byte, Max8
  <2>3. c \in Cmd /\ c.cmd = 141 /\ c.buf = w /\ GetArg(c) = n
    BY <1>6, <2>1, <2>2, ResponseCommand
  <2>4. n % 256 = n
    BY <2>2
  <2>. QED
    BY <1>2, <1>6, <2>1, <2>3, <2>4 DEF Respond
<1>8. PICK a : a = Name(n)
  OBVIOUS
<1>9. PICK old : old = e.docs[k].fields
  OBVIOUS
<1>10. PICK f : f = {v \in old : v[1] # a} \cup {<<a, w>>}
  OBVIOUS
<1>11. f \in SUBSET (Names \X Short)
  <2>1. old \in SUBSET (Names \X Short)
    BY <1>5, <1>9 DEF DocRead
  <2>2. a \in Names
    BY <1>7, <1>8 DEF Names
  <2>. QED
    BY <1>7, <1>10, <2>1, <2>2
<1>12. PICK x : x = [e.docs[k] EXCEPT !.fields = f]
  OBVIOUS
<1>13. x \in DocRead /\ x.fields = f /\ x.meta = e.docs[k].meta
  BY <1>5, <1>11, <1>12 DEF DocRead
<1>14. PICK vs \in SUBSET (Vno \X Word) : vs = sent.docs[k].values
  BY <1>5 DEF DocSent
<1>15. PICK us : us = vs \cup {<<n, w>>}
  OBVIOUS
<1>16. PICK y : y = [sent.docs[k] EXCEPT !.values = us]
  OBVIOUS
<1>17. y \in DocSent /\ y.values = us /\ y.meta = sent.docs[k].meta
  <2>1. us \in SUBSET (Vno \X Word)
    BY <1>15
  <2>. QED
    BY <1>5, <1>16, <2>1 DEF DocSent
<1>18. AsSent(x, y)
  <2>1. old = Named(vs)
    BY <1>4, <1>5, <1>9, <1>14 DEF AsSent
  <2>2. \A v \in vs : v[1] # n
    BY <1>2, <1>3, <1>14
  <2>3. f = Named(us)
    BY <1>8, <1>10, <1>15, <2>1, <2>2, NamedMore
  <2>4. e.docs[k].meta = sent.docs[k].meta
    BY <1>4, <1>5 DEF AsSent
  <2>. QED
    BY <1>13, <1>17, <2>3, <2>4 DEF AsSent
<1>19. PICK xs, ys : xs = [e.docs EXCEPT ![k] = x] /\ ys = [sent.docs EXCEPT ![k] = y]
  OBVIOUS
<1>20. /\ xs \in Seq(DocRead) /\ Len(xs) = sent.count
       /\ \A i \in 1 .. sent.count : xs[i] = IF i = k THEN x ELSE e.docs[i]
  BY <1>4, <1>5, <1>13, <1>19, ExceptSeq
<1>21. /\ ys \in Seq(DocSent) /\ Len(ys) = k
       /\ \A i \in 1 .. k : ys[i] = IF i = k THEN y ELSE sent.docs[i]
  BY <1>3, <1>4, <1>5, <1>17, <1>19, ExceptSeq
<1>22. PICK d : d = [e EXCEPT !.docs = xs]
  OBVIOUS
<1>23. d \in ReaderT /\ d.docs = xs /\ d.at = k /\ d.count = e.count
       /\ d.words = e.words /\ d.step = "items"
  BY <1>4, <1>20, <1>22 DEF ReaderT
<1>24. d = WithField(e, c)
  <2>1. WithField(e, c) = [e EXCEPT !.docs[k].fields = {v \in @ : v[1] # a} \cup {<<a, w>>}]
    <3>1. e.at = k /\ Name(GetArg(c) % 256) = a /\ c.buf = w
      BY <1>4, <1>7, <1>8
    <3>. QED
      BY <3>1, ZenonT(60) DEF WithField
  <2>. QED
    BY <1>9, <1>10, <1>12, <1>19, <1>22, <2>1
<1>25. Reads(e, c, d)
  BY <1>4, <1>5, <1>7, <1>24 DEF Reads
<1>26. sent' = [sent EXCEPT !.docs = ys]
  BY <1>2, <1>3, <1>14, <1>15, <1>16, <1>19
<1>27. /\ sent' \in [count : Nat, docs : Seq(DocSent), words : Seq(Word)]
       /\ sent'.docs = ys /\ sent'.count = sent.count /\ sent'.words = sent.words
  BY <1>4, <1>21, <1>26
<1>28. /\ \A i \in 1 .. k : AsSent(xs[i], ys[i])
       /\ \A i \in k + 1 .. sent.count : xs[i] = Nil
  <2>1. PICK l \in Nat : l = sent.count
    BY <1>4
  <2>2. \A i \in k + 1 .. l : i \in 1 .. l /\ i # k /\ e.docs[i] = Nil
    BY <1>4, <2>1
  <2>3. ASSUME NEW i \in 1 .. k
        PROVE  AsSent(xs[i], ys[i])
    <3>1. i \in 1 .. sent.count
      BY <1>4
    <3>2. CASE i = k
      BY <1>18, <1>20, <1>21, <3>1, <3>2
    <3>3. CASE i # k
      <4>1. xs[i] = e.docs[i] /\ ys[i] = sent.docs[i]
        BY <1>20, <1>21, <3>1, <3>3
      <4>. QED
        BY <1>4, <4>1
    <3>. QED
      BY <3>2, <3>3
  <2>4. ASSUME NEW i \in k + 1 .. sent.count
        PROVE  xs[i] = Nil
    BY <1>20, <2>1, <2>2
  <2>. QED
    BY <2>3, <2>4
<1>29. ys # <<>> /\ answer'.left = answer.left
  BY <1>2, <1>5, <1>21 DEF Writes
<1>30. Agrees(d)'
  BY <1>4, <1>20, <1>21, <1>23, <1>27, <1>28, <1>29 DEF Agrees
<1>31. answer.step # "idle"
  BY <1>2
<1>. QED
  BY <1>1, <1>2, <1>4, <1>7, <1>23, <1>25, <1>27, <1>30, <1>31, WriteStep

LEMMA WriteMatchedStep ==
  ASSUME IInv, WriteMatched
  PROVE  IInv'
<1>1. PICK cs, e : Ahead(cs, e)
  BY DEF IInv
<1>2. PICK w \in Word :
        /\ answer.step = "values" /\ Respond(143, 0, w)
        /\ sent' = [sent EXCEPT !.docs[Len(sent.docs)].matched = w]
        /\ Writes("docs", answer.left)
  BY DEF WriteMatched
<1>3. PICK k : k = Len(sent.docs)
  OBVIOUS
<1>4. /\ e \in ReaderT /\ e.docs \in Seq(DocRead) /\ e.step = "items" /\ e.at \in Nat
      /\ sent \in [count : Nat, docs : Seq(DocSent), words : Seq(Word)]
      /\ sent.docs \in Seq(DocSent) /\ answer.left \in Nat /\ sent.count \in Nat
      /\ k \in Nat /\ Agrees(e)
      /\ e.count = sent.count /\ e.words = sent.words /\ Len(e.docs) = sent.count
      /\ e.at = k /\ k <= sent.count /\ k + answer.left <= sent.count
      /\ \A i \in 1 .. k : AsSent(e.docs[i], sent.docs[i])
      /\ \A i \in k + 1 .. sent.count : e.docs[i] = Nil
      /\ sent.docs # <<>>
  <2>1. Agrees(e) /\ e.at \in Nat
    BY <1>1, <1>2, Written
  <2>2. k \in Nat /\ e.at = k
    BY <1>3, <2>1 DEF Agrees
  <2>. QED
    BY <1>1, <1>2, <1>3, <2>1, <2>2, Written DEF Agrees
<1>5. k \in 1 .. Len(e.docs) /\ k \in 1 .. Len(sent.docs) /\ k \in 1 .. k
      /\ e.docs[k] \in DocRead /\ sent.docs[k] \in DocSent
  <2>1. k # 0
    BY <1>3, <1>4, EmptySeq
  <2>. QED
    BY <1>3, <1>4, <2>1
<1>6. PICK c : c = NewCommand(143, 0, w)
  OBVIOUS
<1>7. c \in Cmd /\ c.cmd = 143 /\ replies' = replies \o Encode(c)
  <2>1. w \in Short
    BY QueryShort
  <2>2. 143 \in Byte /\ 0 \in Nat /\ 0 <= 255
    BY DEF Byte, Max8
  <2>3. c \in Cmd /\ c.cmd = 143
    BY <1>6, <2>1, <2>2, ResponseCommand
  <2>. QED
    BY <1>2, <1>6, <2>3 DEF Respond
<1>8. PICK x : x = [e.docs[k] EXCEPT !.matched = <<Space>>]
  OBVIOUS
<1>9. x \in DocRead /\ x.fields = e.docs[k].fields /\ x.meta = e.docs[k].meta
  <2>1. <<Space>> \in Seq(Seq(Byte))
    BY DEF Space, Byte, Max8
  <2>. QED
    BY <1>5, <1>8, <2>1 DEF DocRead
<1>10. PICK y : y = [sent.docs[k] EXCEPT !.matched = w]
  OBVIOUS
<1>11. y \in DocSent /\ y.values = sent.docs[k].values /\ y.meta = sent.docs[k].meta
  BY <1>5, <1>10 DEF DocSent
<1>12. PICK xs, ys : xs = [e.docs EXCEPT ![k] = x] /\ ys = [sent.docs EXCEPT ![k] = y]
  OBVIOUS
<1>13. /\ xs \in Seq(DocRead) /\ Len(xs) = sent.count
       /\ \A i \in 1 .. sent.count : xs[i] = IF i = k THEN x ELSE e.docs[i]
  BY <1>4, <1>5, <1>9, <1>12, ExceptSeq
<1>14. /\ ys \in Seq(DocSent) /\ Len(ys) = k
       /\ \A i \in 1 .. k : ys[i] = IF i = k THEN y ELSE sent.docs[i]
  BY <1>3, <1>4, <1>5, <1>11, <1>12, ExceptSeq
<1>15. PICK d : d = [e EXCEPT !.docs = xs]
  OBVIOUS
<1>16. d \in ReaderT /\ d.docs = xs /\ d.at = k /\ d.count = e.count
       /\ d.words = e.words /\ d.step = "items"
  BY <1>4, <1>13, <1>15 DEF ReaderT
<1>17. Reads(e, c, d)
  <2>1. d = [e EXCEPT !.docs[k].matched = <<Space>>]
    BY <1>8, <1>12, <1>15
  <2>. QED
    BY <1>4, <1>5, <1>7, <2>1 DEF Reads
<1>18. sent' = [sent EXCEPT !.docs = ys]
  BY <1>2, <1>3, <1>10, <1>12
<1>19. /\ sent' \in [count : Nat, docs : Seq(DocSent), words : Seq(Word)]
       /\ sent'.docs = ys /\ sent'.count = sent.count /\ sent'.words = sent.words
  BY <1>4, <1>14, <1>18
<1>20. \A i \in 1 .. k : AsSent(xs[i], ys[i])
  <2>. SUFFICES ASSUME NEW i \in 1 .. k PROVE AsSent(xs[i], ys[i])
    OBVIOUS
  <2>1. AsSent(e.docs[i], sent.docs[i])
    BY <1>4
  <2>2. CASE i = k
    <3>1. AsSent(x, y)
      BY <1>9, <1>11, <2>1, <2>2 DEF AsSent
    <3>. QED
      BY <1>4, <1>13, <1>14, <2>2, <3>1
  <2>3. CASE i # k
    BY <1>4, <1>13, <1>14, <2>1, <2>3
  <2>. QED
    BY <2>2, <2>3
<1>21. \A i \in k + 1 .. sent.count : xs[i] = Nil
  <2>1. PICK l \in Nat : l = sent.count
    BY <1>4
  <2>2. \A i \in k + 1 .. l : i \in 1 .. l /\ i # k /\ e.docs[i] = Nil
    BY <1>4, <2>1
  <2>. QED
    BY <1>13, <2>1, <2>2
<1>22. ys # <<>> /\ answer'.left = answer.left
  BY <1>2, <1>5, <1>14 DEF Writes
<1>23. Agrees(d)'
  BY <1>4, <1>13, <1>14, <1>16, <1>19, <1>20, <1>21, <1>22 DEF Agrees
<1>24. answer.step # "idle"
  BY <1>2
<1>. QED
  BY <1>1, <1>2, <1>4, <1>7, <1>16, <1>17, <1>19, <1>23, <1>24, WriteStep

LEMMA WriteWordStep ==
  ASSUME IInv, WriteWord
  PROVE  IInv'
<1>1. PICK cs, e : Ahead(cs, e)
  BY DEF IInv
<1>2. PICK w \in Word :
        /\ answer.step = "words" /\ answer.left > 0 /\ Respond(141, 0, w)
        /\ sent' = [sent EXCEPT !.words = Append(@, w)]
        /\ Writes("words", answer.left - 1)
  BY DEF WriteWord
<1>3. /\ e \in ReaderT /\ e.words \in Seq(Short) /\ e.step = "words"
      /\ sent \in [count : Nat, docs : Seq(DocSent), words : Seq(Word)]
      /\ sent.words \in Seq(Word) /\ answer.left \in Nat /\ e.words = sent.words
  BY <1>1, <1>2, Written DEF Agrees
<1>4. PICK c : c = NewCommand(141, 0, w)
  OBVIOUS
<1>5. w \in Short /\ c \in Cmd /\ c.cmd = 141 /\ c.buf = w /\ replies' = replies \o Encode(c)
  <2>1. w \in Short
    BY QueryShort
  <2>2. 141 \in Byte /\ 0 \in Nat /\ 0 <= 255
    BY DEF Byte, Max8
  <2>3. c \in Cmd /\ c.cmd = 141 /\ c.buf = w
    BY <1>4, <2>1, <2>2, ResponseCommand
  <2>. QED
    BY <1>2, <1>4, <2>1, <2>3 DEF Respond
<1>6. PICK ws : ws = Append(e.words, w)
  OBVIOUS
<1>7. ws \in Seq(Short) /\ ws \in Seq(Word)
  BY <1>3, <1>5, <1>6, AppendProperties
<1>8. PICK d : d = [e EXCEPT !.words = ws]
  OBVIOUS
<1>9. /\ d \in ReaderT /\ d.words = ws /\ d.count = e.count /\ d.docs = e.docs /\ d.at = e.at
      /\ d.step = "words"
  BY <1>3, <1>7, <1>8 DEF ReaderT
<1>10. Reads(e, c, d)
  BY <1>3, <1>5, <1>6, <1>8 DEF Reads
<1>11. sent' = [sent EXCEPT !.words = ws]
  BY <1>2, <1>3, <1>6
<1>12. /\ sent' \in [count : Nat, docs : Seq(DocSent), words : Seq(Word)]
       /\ sent'.words = ws /\ sent'.count = sent.count /\ sent'.docs = sent.docs
  BY <1>3, <1>7, <1>11
<1>13. Agrees(d)'
  <2>1. Agrees(e) /\ answer'.step = "words"
    BY <1>1, <1>2 DEF Ahead, Writes
  <2>. QED
    BY <1>9, <1>12, <2>1 DEF Agrees
<1>14. answer.step # "idle" /\ answer.left - 1 \in Nat
  BY <1>2, <1>3
<1>. QED
  BY <1>1, <1>2, <1>5, <1>9, <1>10, <1>12, <1>13, <1>14, WriteStep

LEMMA WriteEndStep ==
  ASSUME IInv, WriteEnd
  PROVE  IInv'
<1>1. PICK cs, e : Ahead(cs, e)
  BY DEF IInv
<1>2. answer.step # "idle" /\ Respond(128, 207, <<>>) /\ Writes("idle", 0) /\ UNCHANGED sent
  BY DEF WriteEnd, Done
<1>3. /\ e \in ReaderT /\ e.step \in {"items", "words"}
      /\ sent \in [count : Nat, docs : Seq(DocSent), words : Seq(Word)]
  BY <1>1, <1>2, Written
<1>4. PICK c : c = NewCommand(128, 207, <<>>)
  OBVIOUS
<1>5. c \in Cmd /\ OkWith(c, 207) /\ replies' = replies \o Encode(c)
  BY <1>2, <1>4, EmptyShort, OkResponse DEF Respond
<1>6. PICK d : d = [e EXCEPT !.step = "idle"]
  OBVIOUS
<1>7. /\ d \in ReaderT /\ d.words = e.words /\ d.count = e.count /\ d.docs = e.docs /\ d.at = e.at
      /\ d.step = "idle"
  BY <1>3, <1>6 DEF ReaderT, Step
<1>8. Reads(e, c, d)
  BY <1>3, <1>5, <1>6 DEF Reads
<1>9. Agrees(d)'
  <2>1. Agrees(e) /\ answer'.step = "idle"
    BY <1>1, <1>2 DEF Ahead, Writes
  <2>. QED
    BY <1>2, <1>7, <2>1 DEF Agrees
<1>10. 0 \in Nat /\ sent' \in [count : Nat, docs : Seq(DocSent), words : Seq(Word)]
  BY <1>2, <1>3
<1>. QED
  BY <1>1, <1>2, <1>5, <1>7, <1>8, <1>9, <1>10, WriteStep

-----------------------------------------------------------------------------
(* The call reads a response                                               *)

\* The call does with the first response what brings it to where it has read all.
LEMMA ReadsOn ==
  ASSUME NEW d, Reads(reader, First, d), Reading
  PROVE  reader' = d
<1>1. ASSUME ReadCount PROVE reader' = d
  BY <1>1 DEF ReadCount, Gets, Reads, Counted
<1>2. ASSUME ReadBegin PROVE reader' = d
  BY <1>2 DEF ReadBegin, Gets, Reads
<1>3. ASSUME ReadDoc PROVE reader' = d
  <2>1. reader.step = "items" /\ First.cmd = 140
    BY <1>3 DEF ReadDoc, Gets
  <2>. QED
    BY <1>3, <2>1 DEF ReadDoc, Reads, OkWith, WithDoc
<1>4. ASSUME ReadField PROVE reader' = d
  <2>1. reader.step = "items" /\ First.cmd = 141
    BY <1>4 DEF ReadField, Gets
  <2>2. reader.at # 0 /\ d = WithField(reader, First)
    BY <2>1 DEF Reads, OkWith
  <2>3. reader' = WithField(reader, First)
    BY <1>4, <2>2, Zenon DEF ReadField, WithField
  <2>. QED
    BY <2>2, <2>3
<1>5. ASSUME ReadMatched PROVE reader' = d
  <2>1. reader.step = "items" /\ First.cmd = 143
    BY <1>5 DEF ReadMatched, Gets
  <2>. QED
    BY <1>5, <2>1 DEF ReadMatched, Reads, OkWith
<1>6. ASSUME ReadWord PROVE reader' = d
  <2>1. reader.step = "words" /\ First.cmd = 141
    BY <1>6 DEF ReadWord, Gets
  <2>. QED
    BY <1>6, <2>1 DEF ReadWord, Reads, OkWith
<1>7. ASSUME ReadEnd PROVE reader' = d
  <2>1. reader.step \in {"items", "words"} /\ First.cmd = 128 /\ GetArg(First) = 207
    BY <1>7 DEF ReadEnd, Gets
  <2>. QED
    BY <1>7, <2>1 DEF ReadEnd, Reads, OkWith
<1>. QED
  BY <1>1, <1>2, <1>3, <1>4, <1>5, <1>6, <1>7 DEF Reading

LEMMA ReadStep ==
  ASSUME IInv, Reading
  PROVE  IInv'
<1>1. PICK cs, e : Ahead(cs, e)
  BY DEF IInv
<1>2. /\ reader.step # "idle" /\ HasHead(replies) /\ replies' = Rest(replies)
      /\ UNCHANGED <<chosen, cached, wire, server, answer, sent, calls>>
  BY DEF Reading, ReadCount, ReadBegin, ReadDoc, ReadField, ReadMatched, ReadWord, ReadEnd, Gets
<1>3. replies # <<>>
  BY <1>2 DEF HasHead
<1>4. PICK d \in ReaderT : Reads(reader, First, d) /\ Will(Rest(replies), d, e)
  BY <1>1, <1>3, WillHead DEF Ahead, First
<1>5. reader' = d
  BY <1>4, ReadsOn
<1>6. cs = <<>> /\ Awaits(cs, e.step) /\ cached = <<>> /\ Stream(wire, cs)
  BY <1>1, <1>2, <1>3 DEF Ahead, Awaits, Asks, Unread
<1>7. wire = <<>>
  BY <1>6, StreamNone
<1>8. Unread(cs)'
  BY <1>2, <1>6, <1>7, StreamEmpty DEF Unread
<1>9. WillSet(cs, server, chosen.set, chosen.past)'
  BY <1>1, <1>2 DEF Ahead, WillSet
<1>10. e \in ReaderT /\ Agrees(e)
  BY <1>1 DEF Ahead
<1>11. Will(replies, reader, e)'
  BY <1>2, <1>4, <1>5 DEF Will
<1>12. Agrees(e)'
  BY <1>2, <1>10 DEF Agrees
<1>13. Awaits(cs, e.step)'
  BY <1>2, <1>3, <1>6 DEF Awaits, Asks
<1>14. Ahead(cs, e)'
  BY <1>8, <1>9, <1>10, <1>11, <1>12, <1>13 DEF Ahead
<1>15. TypeInv'
  BY <1>2, <1>4, <1>5 DEF IInv, TypeInv
<1>. QED
  BY <1>14, <1>15 DEF IInv

-----------------------------------------------------------------------------
(* The theorems                                                            *)

LEMMA Stutter ==
  ASSUME IInv, UNCHANGED vars
  PROVE  IInv'
<1>1. PICK cs, e : Ahead(cs, e)
  BY DEF IInv
<1>2. Ahead(cs, e)'
  BY <1>1 DEF vars, Ahead, Unread, WillSet, Will, Agrees, Awaits, Asks
<1>3. TypeInv'
  BY DEF vars, IInv, TypeInv
<1>. QED
  BY <1>2, <1>3 DEF IInv

LEMMA NextInv == IInv /\ [Next]_vars => IInv'
<1>. SUFFICES ASSUME IInv, [Next]_vars PROVE IInv'
  OBVIOUS
<1>1. ASSUME Writing PROVE IInv'
  BY <1>1, WriteDocStep, WriteValueStep, WriteMatchedStep, WriteWordStep, WriteEndStep DEF Writing
<1>2. ASSUME NEW q \in Query, Search(q) \/ \E limits \in Limits : GetExpandedQuery(q, limits)
      PROVE  IInv'
  BY <1>2, CallStep
<1>3. ASSUME Ended PROVE IInv'
  BY <1>3, Stutter DEF Ended
<1>. QED
  BY <1>1, <1>2, <1>3, SettingStep, ServeStep, ReadStep, Stutter DEF Next

LEMMA SpecInv == Spec => []IInv
BY InitInv, NextInv, PTL DEF Spec

\* A call that has returned leaves nothing of its answer unread and nothing unsent
\* but settings, whatever the numbers and the bytes of an answer: Exec and Search
\* read a response for each one written.
THEOREM AlwaysInStep == Spec => []InStep
BY SpecInv, InvInStep, PTL

\* What Search and GetExpandedQuery return is what the server wrote, in its order,
\* each value under the name of its number, for every schema that gives numbers
\* different names.  Search returns a slice as long as the number of matches, in which
\* nil follows the documents; it does not write outside it, as long as the server
\* sends no more documents than it says there are matches.
THEOREM AlwaysAsSent == Spec => []DocumentsAsSent
BY SpecInv, InvDocuments, PTL

\* The settings the program asked for last are in force when the server has all
\* commands, however many were cached before a call: but for a synonym scale, for a
\* cut-off that a synonym scale has overwritten since, and for the schemes that are
\* not sent, which are 1, and 0 once scheme 2 was chosen.
THEOREM AlwaysInForce == Spec => []SettingsInForce
BY SpecInv, InvSettings, PTL
=============================================================================
