------------------------------- MODULE Codec -------------------------------
(***************************************************************************)
(* Commands and responses as bytes (cmd/cmd.go).  Numbers are unsigned and *)
(* little endian: no code sets Connection.IsBigEndian.                     *)
(***************************************************************************)
EXTENDS Naturals, Sequences

Max8 == 255
Byte == 0 .. Max8
Lower(a, b) == IF a <= b THEN a ELSE b

\* XsCommand; SetArg distributes a number of two bytes over both arguments.
NewCommand2(c, a1, a2, buf, buf1) ==
  [cmd |-> c, arg1 |-> a1, arg2 |-> a2, buf |-> buf, buf1 |-> buf1]
NewCommand(c, arg, buf) == NewCommand2(c, arg \div 256, arg % 256, buf, <<>>)
GetArg(c) == c.arg1 * 256 + c.arg2

\* A number that four bytes hold.
Four(n) == n \div 16777216 <= Max8

\* An uint32 in four bytes (binary.Write, Pack "I") and back (binary.Read, UnPack "I").
Bytes4(n) == <<n % 256, (n \div 256) % 256, (n \div 65536) % 256, (n \div 16777216) % 256>>
Number4(b) == b[1] + 256 * b[2] + 65536 * b[3] + 16777216 * b[4]

\* The fields of a format like "Idocid/Irank": four bytes at each place.
UnPack4(b, place) == Number4(SubSeq(b, 4 * place - 3, 4 * place))

\* Of buf1 no more than 255 bytes are sent.
Encode(c) ==
  LET buf1 == SubSeq(c.buf1, 1, Lower(Len(c.buf1), Max8))
  IN <<c.cmd, c.arg1, c.arg2, Len(buf1)>> \o Bytes4(Len(c.buf)) \o c.buf \o buf1

\* The head of a command, if it is there; how many bytes it says the command has.
HasHead(b) == Len(b) >= 8
DecodeHead(b) == [buf |-> Number4(SubSeq(b, 5, 8)), buf1 |-> b[4]]
Size(b) == 8 + DecodeHead(b).buf + DecodeHead(b).buf1

\* Decode returns an error without a head, or with fewer bytes than buf should have;
\* buf1 is whatever follows buf, unless the head says that there is none.
Decodable(b) == HasHead(b) /\ 8 + DecodeHead(b).buf <= Len(b)
Decode(b) ==
  LET n == DecodeHead(b).buf
  IN [cmd |-> b[1], arg1 |-> b[2], arg2 |-> b[3], buf |-> SubSeq(b, 9, 8 + n),
      buf1 |-> IF DecodeHead(b).buf1 = 0 THEN <<>> ELSE SubSeq(b, 9 + n, Len(b))]

\* Of the bytes that have come getResponse reads as many as the head says, which it
\* has decoded, and leaves the rest.
Leading(b) == SubSeq(b, 1, Size(b))
Rest(b) == SubSeq(b, Size(b) + 1, Len(b))

\* MaxLimit: 10 without an argument, and no more than 20.
MaxLimit(limits) == IF limits = <<>> THEN 10 ELSE Lower(limits[1], 20)
=============================================================================
