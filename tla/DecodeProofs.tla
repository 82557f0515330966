---------------------------- MODULE DecodeProofs ----------------------------
(***************************************************************************)
(* Theorems about StringDecode for texts of every length: the text is      *)
(* decoded in place without harm, a text that the parser accepts is        *)
(* decoded to its end, and the result is the UTF-8 of what the text says.  *)
(***************************************************************************)
EXTENDS StringDecode, SequenceTheorems, WellFoundedInduction, TLAPS

\* What is written stays behind what is read, by one place more while the
\* backslash of an escape has been read and nothing written for it.
Behind == IF slash THEN writePos + 1 <= readPos ELSE writePos <= readPos

DecodeInv ==
  /\ TypeOK
  /\ outcome = "decoding" =>
       /\ Behind /\ readPos <= Len(text) + 1 /\ Len(buf) = Len(text) + 1
       /\ \A k \in readPos..Len(buf) : buf[k] = Append(text, 0)[k]
       /\ \A k \in 1..writePos - 1 : buf[k] # 0
  /\ NoNulInside

(***************************************************************************)
(* The bytes an escape is turned into.                                     *)
(***************************************************************************)

LEMMA HexDigit ==
  ASSUME NEW c \in Byte, IsHex(c)
  PROVE  c # 0 /\ hex2int(c) \in 0..15
BY SMT DEF IsHex, hex2int, toupper, Byte

\* One to three bytes, none of them NUL.
CodeUnit == {u \in Nat : u <= 65535}
Form(b)  == b \in Seq(Byte) /\ Len(b) \in 1..3 /\ \A i \in 1..Len(b) : b[i] # 0

LEMMA FormOf ==
  /\ \A x \in Byte \ {0} : Form(<<x>>)
  /\ \A x, y \in Byte \ {0} : Form(<<x, y>>)
  /\ \A x, y, z \in Byte \ {0} : Form(<<x, y, z>>)
<1> SUFFICES ASSUME NEW x \in Byte \ {0}, NEW y \in Byte \ {0}, NEW z \in Byte \ {0}
             PROVE  Form(<<x>>) /\ Form(<<x, y>>) /\ Form(<<x, y, z>>)
  OBVIOUS
<1>1. Form(<<x>>)
  <2>1. <<x>> \in Seq(Byte) /\ Len(<<x>>) = 1 /\ <<x>>[1] = x
    OBVIOUS
  <2>2. \A i \in 1..1 : i = 1
    BY SMT
  <2> QED
    BY <2>1, <2>2 DEF Form
<1>2. Form(<<x, y>>)
  <2>1. <<x, y>> \in Seq(Byte) /\ Len(<<x, y>>) = 2 /\ <<x, y>>[1] = x /\ <<x, y>>[2] = y
    OBVIOUS
  <2>2. \A i \in 1..2 : i = 1 \/ i = 2
    BY SMT
  <2> QED
    BY <2>1, <2>2 DEF Form
<1>3. Form(<<x, y, z>>)
  <2>1. /\ <<x, y, z>> \in Seq(Byte) /\ Len(<<x, y, z>>) = 3
        /\ <<x, y, z>>[1] = x /\ <<x, y, z>>[2] = y /\ <<x, y, z>>[3] = z
    OBVIOUS
  <2>2. \A i \in 1..3 : i = 1 \/ i = 2 \/ i = 3
    BY SMT
  <2> QED
    BY <2>1, <2>2 DEF Form
<1> QED
  BY <1>1, <1>2, <1>3

LEMMA Encoded ==
  ASSUME NEW u \in CodeUnit
  PROVE  Form(Encode(u))
<1> DEFINE low == 128 + (u % 64)  rest == u \div 64  mid == 128 + (rest % 64)  top == rest \div 64
<1>1. low \in 128..191 /\ mid \in 128..191
  BY SMT DEF CodeUnit
<1>2. rest \in 0..1023 /\ top \in 0..15 /\ (u <= 2047 => rest \in 0..31)
  <2>1. rest \in 0..1023 /\ (u <= 2047 => rest \in 0..31)
    BY SMT DEF CodeUnit
  <2> HIDE DEF rest
  <2> QED
    BY <2>1, SMT
<1>3. LongForm(u) = IF u <= 2047 THEN <<192 + rest, low>> ELSE <<224 + top, mid, low>>
  BY DEF LongForm
<1>4. /\ low \in Byte \ {0} /\ mid \in Byte \ {0} /\ 224 + top \in Byte \ {0}
      /\ 192 \in Byte \ {0} /\ 128 \in Byte \ {0}
      /\ u <= 2047 => 192 + rest \in Byte \ {0}
      /\ u # 0 /\ u <= 127 => u \in Byte \ {0}
  BY <1>1, <1>2 DEF Byte, CodeUnit
<1> HIDE DEF low, rest, mid, top
<1>5. Form(<<192, 128>>)
  BY <1>4, FormOf
<1>6. u # 0 /\ u <= 127 => Form(<<u>>)
  BY <1>4, FormOf
<1>7. Form(LongForm(u))
  <2>1. CASE u <= 2047
    <3>1. Form(<<192 + rest, low>>)
      BY <1>4, <2>1, FormOf
    <3> QED
      BY <1>3, <2>1, <3>1
  <2>2. CASE ~(u <= 2047)
    <3>1. Form(<<224 + top, mid, low>>)
      BY <1>4, FormOf
    <3> QED
      BY <1>3, <2>2, <3>1
  <2> QED
    BY <2>1, <2>2
<1> HIDE DEF Form
<1>8. Encode(u) = IF u = 0 THEN <<192, 128>> ELSE IF u <= 127 THEN <<u>> ELSE LongForm(u)
  BY DEF Encode
<1>9. CASE u = 0
  BY <1>5, <1>8, <1>9
<1>10. CASE u # 0 /\ u <= 127
  <2>1. Encode(u) = <<u>>
    BY <1>8, <1>10
  <2> QED
    BY <1>6, <1>10, <2>1
<1>11. CASE u # 0 /\ ~(u <= 127)
  BY <1>7, <1>8, <1>11
<1> QED
  BY <1>9, <1>10, <1>11

LEMMA EscapedByte ==
  ASSUME NEW c \in DOMAIN escapes
  PROVE  escapes[c] \in Byte /\ escapes[c] # 0
BY DEF escapes, Byte

(***************************************************************************)
(* Writing.                                                                *)
(***************************************************************************)

\* As many bytes as were read since the last ones were written, at most,
\* leave what is unread alone and what is written without a NUL.
LEMMA WriteKeeps ==
  ASSUME DecodeInv, outcome = "decoding", outcome' = outcome, text' = text,
         NEW bytes \in Seq(Byte), \A i \in 1..Len(bytes) : bytes[i] # 0,
         Len(bytes) \in Nat \ {0}, Write(bytes),
         NEW n \in Nat, readPos' = readPos + n, readPos' <= Len(text) + 1,
         slash' = FALSE, writePos + Len(bytes) <= readPos + n
  PROVE  DecodeInv'
<1>1. /\ buf \in Seq(Byte) /\ Len(buf) = Len(text) + 1 /\ text \in Texts
      /\ readPos \in Nat \ {0} /\ writePos \in Nat \ {0} /\ Len(text) \in Nat
      /\ DOMAIN buf = 1..Len(buf) /\ Len(buf) \in Nat
      /\ \A k \in 1..Len(buf) : buf[k] \in Byte
      /\ \A i \in 1..Len(bytes) : bytes[i] \in Byte
  BY StringAssumption, LenProperties, ElementOfSeq DEF DecodeInv, TypeOK
<1>2. writePos' = writePos + Len(bytes)
  BY DEF Write
<1>3. ASSUME NEW k \in 1..Len(buf)
      PROVE  /\ buf'[k] \in Byte
             /\ k - writePos \notin 0..Len(bytes) - 1 => buf'[k] = buf[k]
             /\ k - writePos \in 0..Len(bytes) - 1 => buf'[k] # 0
  <2>1. buf'[k] = IF k - writePos \in 0..Len(bytes) - 1
                  THEN bytes[k - writePos + 1] ELSE buf[k]
    BY <1>1 DEF Write
  <2>2. k - writePos \in 0..Len(bytes) - 1 => k - writePos + 1 \in 1..Len(bytes)
    BY <1>1
  <2> QED
    BY <1>1, <2>1, <2>2
<1>4. buf' \in Seq(Byte) /\ Len(buf') = Len(buf)
  <2>1. buf' = [k \in 1..Len(buf) |-> buf'[k]]
    BY <1>1 DEF Write
  <2>2. buf' \in [1..Len(buf) -> Byte]
    BY <1>3, <2>1
  <2>3. buf' \in Seq(Byte)
    <3>1. Len(buf) \in Nat
      BY <1>1
    <3> HIDE DEF DecodeInv
    <3> QED
      BY <2>2, <3>1, SeqDef
  <2>4. DOMAIN buf' = 1..Len(buf)
    BY <2>2
  <2> QED
    BY <1>1, <2>3, <2>4, LenProperties
<1>5. \A k \in readPos'..Len(buf') : buf'[k] = Append(text, 0)[k]
  <2> TAKE k \in readPos'..Len(buf')
  <2>1. k \in 1..Len(buf) /\ k \in readPos..Len(buf) /\ k - writePos \notin 0..Len(bytes) - 1
    BY <1>1, <1>4, SMT
  <2> QED
    BY <1>3, <2>1 DEF DecodeInv
<1>6. \A k \in 1..writePos' - 1 : buf'[k] # 0
  <2> TAKE k \in 1..writePos' - 1
  <2>1. k \in 1..Len(buf)
    BY <1>1, <1>2, SMT
  <2>2. k \in 1..writePos - 1 \/ k - writePos \in 0..Len(bytes) - 1
    BY <1>1, <1>2, SMT
  <2>3. k \in 1..writePos - 1 => k - writePos \notin 0..Len(bytes) - 1 /\ buf[k] # 0
    BY <1>1 DEF DecodeInv
  <2> QED
    BY <1>3, <2>1, <2>2, <2>3
<1>7. TypeOK'
  <2>1. readPos' \in Nat \ {0} /\ writePos' \in Nat \ {0}
    BY <1>1, <1>2
  <2>2. outcome' \in {"decoding", "decoded", "bad"} /\ text' \in Texts /\ slash' \in BOOLEAN
    BY <1>1
  <2> QED
    BY <1>4, <2>1, <2>2 DEF TypeOK
<1>8. Behind' /\ readPos' <= Len(text') + 1 /\ Len(buf') = Len(text') + 1
  BY <1>1, <1>2, <1>4 DEF Behind
<1>9. NoNulInside'
  BY DEF NoNulInside
<1> QED
  BY <1>5, <1>6, <1>7, <1>8, <1>9 DEF DecodeInv

\* The byte at readPos is one of the text, and not its end.
LEMMA InsideTheText ==
  ASSUME DecodeInv, Decoding
  PROVE  /\ readVal \in Byte \ {0} /\ readPos + 1 <= Len(text) + 1
         /\ \A n \in Nat : (readPos + n <= Len(text) + 1 /\ At(readPos + n) # 0)
                             => readPos + n + 1 <= Len(text) + 1
         /\ \A k : At(k) \in Byte
<1>1. /\ buf \in Seq(Byte) /\ Len(buf) = Len(text) + 1 /\ text \in Seq(Byte)
      /\ readPos \in Nat \ {0} /\ Len(text) \in Nat /\ readPos <= Len(text) + 1
      /\ DOMAIN buf = 1..Len(buf)
  BY StringAssumption, LenProperties DEF DecodeInv, TypeOK, Decoding
<1>2. \A k : At(k) \in Byte
  BY <1>1, StringAssumption, ElementOfSeq DEF At
<1>3. At(Len(text) + 1) = 0
  <2>1. Append(text, 0)[Len(text) + 1] = 0
    BY <1>1, AppendProperties
  <2>2. Len(text) + 1 \in readPos..Len(buf)
    BY <1>1
  <2> QED
    BY <1>1, <2>1, <2>2 DEF At, DecodeInv, Decoding
<1>4. \A n \in Nat : (readPos + n <= Len(text) + 1 /\ At(readPos + n) # 0)
                       => readPos + n + 1 <= Len(text) + 1
  <2> TAKE n \in Nat
  <2>1. At(readPos + n) # 0 => readPos + n # Len(text) + 1
    BY <1>3
  <2> QED
    BY <1>1, <2>1
<1>5. At(readPos) # 0 /\ readPos # Len(text) + 1
  BY <1>3 DEF Decoding, readVal
<1> QED
  BY <1>1, <1>2, <1>4, <1>5 DEF readVal

(***************************************************************************)
(* Every way round the loop keeps the invariant.                           *)
(***************************************************************************)

\* What the invariant says of the numbers.
LEMMA Numbers ==
  ASSUME DecodeInv, outcome = "decoding"
  PROVE  /\ readPos \in Nat \ {0} /\ writePos \in Nat \ {0} /\ slash \in BOOLEAN
         /\ Len(text) \in Nat /\ readPos <= Len(text) + 1
         /\ slash => writePos + 1 <= readPos
         /\ ~slash => writePos <= readPos
BY StringAssumption, LenProperties DEF DecodeInv, TypeOK, Behind

\* One byte read, one written.
LEMMA WriteOne ==
  ASSUME DecodeInv, Decoding, NEW b \in Byte, b # 0, Write(<<b>>),
         readPos' = readPos + 1, slash' = FALSE, UNCHANGED <<text, outcome>>
  PROVE  DecodeInv'
<1>1. <<b>> \in Seq(Byte) /\ Len(<<b>>) = 1 /\ <<b>>[1] = b
  OBVIOUS
<1>2. \A i \in 1..Len(<<b>>) : <<b>>[i] # 0
  BY <1>1
<1>3. outcome = "decoding" /\ readPos + 1 <= Len(text) + 1
  BY InsideTheText DEF Decoding
<1>4. writePos + Len(<<b>>) <= readPos + 1
  BY <1>1, <1>3, Numbers, SMT
<1>5. Len(<<b>>) \in Nat \ {0} /\ 1 \in Nat
  BY <1>1
<1> QED
  BY <1>1, <1>2, <1>3, <1>4, <1>5, WriteKeeps

\* The four digits of an escape are bytes of the text.
LEMMA DigitsInside ==
  ASSUME DecodeInv, Decoding, Digits
  PROVE  /\ readPos + 5 <= Len(text) + 1
         /\ \A i \in 1..4 : At(readPos + i) # 0
<1>1. \A i \in 1..4 : At(readPos + i) \in Byte \ {0}
  BY InsideTheText, HexDigit DEF Digits
<1>2. \A n \in Nat : (readPos + n <= Len(text) + 1 /\ At(readPos + n) # 0)
                       => readPos + n + 1 <= Len(text) + 1
  BY InsideTheText
<1>3. readPos \in Nat /\ readPos + 1 <= Len(text) + 1
  BY InsideTheText, Numbers DEF Decoding
<1>4. At(readPos + 1) # 0 /\ At(readPos + 2) # 0 /\ At(readPos + 3) # 0 /\ At(readPos + 4) # 0
  BY <1>1, SMT
<1>5. readPos + 2 <= Len(text) + 1
  <2>1. readPos + 1 + 1 <= Len(text) + 1
    BY <1>2, <1>3, <1>4
  <2> QED
    BY <1>3, <2>1
<1>6. readPos + 3 <= Len(text) + 1
  <2>1. readPos + 2 + 1 <= Len(text) + 1
    BY <1>2, <1>4, <1>5
  <2> QED
    BY <1>3, <2>1
<1>7. readPos + 4 <= Len(text) + 1
  <2>1. readPos + 3 + 1 <= Len(text) + 1
    BY <1>2, <1>4, <1>6
  <2> QED
    BY <1>3, <2>1
<1>8. readPos + 4 + 1 <= Len(text) + 1
  BY <1>2, <1>4, <1>7
<1> QED
  BY <1>1, <1>3, <1>8

\* Four digits name a code unit.
LEMMA CharValIsUnit ==
  ASSUME DecodeInv, Decoding, Digits
  PROVE  charVal \in CodeUnit
<1> DEFINE a == hex2int(At(readPos + 1))  b == hex2int(At(readPos + 2))
           c == hex2int(At(readPos + 3))  d == hex2int(At(readPos + 4))
<1>1. a \in 0..15 /\ b \in 0..15 /\ c \in 0..15 /\ d \in 0..15
  <2>1. \A i \in 1..4 : hex2int(At(readPos + i)) \in 0..15
    BY InsideTheText, HexDigit DEF Digits
  <2> QED
    BY <2>1, SMT
<1>2. charVal = a * 4096 + b * 256 + c * 16 + d
  BY DEF charVal
<1> HIDE DEF a, b, c, d
<1>3. a * 4096 + b * 256 + c * 16 + d <= 65535
  BY <1>1, SMT
<1>4. a * 4096 + b * 256 + c * 16 + d \in Nat
  BY <1>1, SMT
<1> QED
  BY <1>2, <1>3, <1>4 DEF CodeUnit

LEMMA UnicodeStep == ASSUME DecodeInv, parseUnicode PROVE DecodeInv'
<1>1. /\ Decoding /\ outcome = "decoding" /\ slash /\ Digits
      /\ readPos' = readPos + 5 /\ slash' = FALSE /\ Write(Encode(charVal))
      /\ text' = text /\ outcome' = outcome
  BY DEF parseUnicode, Decoding
<1>2. charVal \in CodeUnit
  BY <1>1, CharValIsUnit
<1>3. Form(Encode(charVal))
  BY <1>2, Encoded
<1>4. readPos + 5 <= Len(text) + 1
  BY <1>1, DigitsInside
<1>5. /\ Encode(charVal) \in Seq(Byte) /\ Len(Encode(charVal)) \in 1..3
      /\ \A i \in 1..Len(Encode(charVal)) : Encode(charVal)[i] # 0
  BY <1>3 DEF Form
<1>6. writePos + Len(Encode(charVal)) <= readPos + 5
  <2>1. writePos \in Nat /\ readPos \in Nat /\ writePos + 1 <= readPos
    BY <1>1, Numbers
  <2>2. \A n \in 1..3 : writePos + n <= readPos + 5
    BY <2>1, SMT
  <2> QED
    BY <1>5, <2>2
<1>7. readPos' <= Len(text) + 1
  BY <1>1, <1>4
<1>8. 5 \in Nat /\ Len(Encode(charVal)) \in Nat \ {0}
  BY <1>5
<1> QED
  BY <1>1, <1>5, <1>6, <1>7, <1>8, WriteKeeps

\* Only the flag and the place to read from move.
LEMMA NothingWritten ==
  ASSUME DecodeInv, Decoding, ReadSlash \/ OtherEscape
  PROVE  DecodeInv'
<1>1. outcome = "decoding" /\ UNCHANGED <<text, buf, writePos, outcome>>
  BY DEF Decoding, ReadSlash, OtherEscape
<1>2. \/ ~slash /\ slash' = TRUE /\ readPos' = readPos + 1
      \/ slash /\ slash' = FALSE /\ readPos' = readPos
  BY DEF ReadSlash, OtherEscape
<1>3. /\ readPos' \in Nat \ {0} /\ readPos' <= Len(text) + 1 /\ readPos <= readPos'
      /\ slash' \in BOOLEAN /\ Behind'
  <2>1. /\ readPos \in Nat \ {0} /\ writePos \in Nat \ {0} /\ Len(text) \in Nat
        /\ readPos + 1 <= Len(text) + 1 /\ readPos <= Len(text) + 1
        /\ slash => writePos + 1 <= readPos
        /\ ~slash => writePos <= readPos
    BY <1>1, Numbers, InsideTheText
  <2>2. CASE ~slash /\ slash' = TRUE /\ readPos' = readPos + 1
    <3>1. writePos' + 1 <= readPos'
      BY <1>1, <2>1, <2>2
    <3> QED
      BY <2>1, <2>2, <3>1 DEF Behind
  <2>3. CASE slash /\ slash' = FALSE /\ readPos' = readPos
    <3>1. writePos' <= readPos'
      BY <1>1, <2>1, <2>3
    <3>2. readPos' \in Nat \ {0} /\ readPos' <= Len(text) + 1 /\ readPos <= readPos'
      BY <2>1, <2>3
    <3>3. slash' \in BOOLEAN /\ Behind'
      BY <2>3, <3>1 DEF Behind
    <3> QED
      BY <3>2, <3>3
  <2> QED
    BY <1>2, <2>2, <2>3
<1>4. TypeOK'
  BY <1>1, <1>3 DEF DecodeInv, TypeOK
<1>5. \A k \in readPos'..Len(buf') : buf'[k] = Append(text', 0)[k]
  <2> TAKE k \in readPos'..Len(buf')
  <2>1. k \in readPos..Len(buf)
    BY <1>1, <1>3, Numbers
  <2> QED
    BY <1>1, <2>1 DEF DecodeInv
<1>6. Len(buf') = Len(text') + 1 /\ \A k \in 1..writePos' - 1 : buf'[k] # 0
  BY <1>1 DEF DecodeInv
<1>7. NoNulInside'
  BY <1>1 DEF NoNulInside
<1> QED
  BY <1>1, <1>3, <1>4, <1>5, <1>6, <1>7 DEF DecodeInv

LEMMA FinishStep == ASSUME DecodeInv, Finish PROVE DecodeInv'
<1>1. /\ outcome = "decoding" /\ outcome' = "decoded" /\ buf' = SubSeq(buf, 1, writePos - 1)
      /\ UNCHANGED <<text, readPos, writePos, slash>>
  BY DEF Finish
<1>2. /\ buf \in Seq(Byte) /\ writePos \in Nat \ {0} /\ writePos - 1 <= Len(buf)
      /\ \A k \in 1..writePos - 1 : buf[k] # 0
  BY <1>1, Numbers, SMT DEF DecodeInv, TypeOK
<1>3. \A k \in 1..writePos - 1 : k \in 1..Len(buf) /\ buf[k] \in Byte
  <2> TAKE k \in 1..writePos - 1
  <2>1. k \in 1..Len(buf)
    BY <1>2, LenProperties
  <2> QED
    BY <1>2, <2>1, ElementOfSeq
<1>4. /\ buf' \in Seq(Byte) /\ DOMAIN buf' = 1..writePos - 1
      /\ \A k \in 1..writePos - 1 : buf'[k] = buf[k]
  <2>1. 1 \in Int /\ writePos - 1 \in Int
    BY <1>2
  <2>2. /\ buf' \in Seq(Byte)
        /\ Len(buf') = IF 1 <= writePos - 1 THEN writePos - 1 - 1 + 1 ELSE 0
        /\ \A i \in 1..writePos - 1 - 1 + 1 : buf'[i] = buf[1 + i - 1]
    BY <1>1, <1>3, <2>1, SubSeqProperties
  <2>3. Len(buf') = writePos - 1 /\ 1..writePos - 1 - 1 + 1 = 1..writePos - 1
    BY <1>2, <2>2
  <2> QED
    BY <1>2, <2>2, <2>3, LenProperties
<1>5. NoNulInside'
  BY <1>2, <1>4 DEF NoNulInside
<1>6. TypeOK'
  BY <1>1, <1>4 DEF TypeOK, DecodeInv
<1> QED
  BY <1>1, <1>5, <1>6 DEF DecodeInv

LEMMA DecodeInvInductive ==
  /\ Init => DecodeInv
  /\ DecodeInv /\ [Next]_vars => DecodeInv'
<1>1. ASSUME Init PROVE DecodeInv
  <2>1. text \in Seq(Byte) /\ 0 \in Byte /\ outcome = "decoding" /\ buf = Append(text, 0)
        /\ readPos = 1 /\ writePos = 1 /\ slash = FALSE
    BY <1>1, StringAssumption DEF Init, Byte
  <2>2. buf \in Seq(Byte) /\ Len(buf) = Len(text) + 1 /\ Len(text) \in Nat
    BY <2>1, AppendProperties, LenProperties
  <2>3. TypeOK
    <3>1. 1 \in Nat \ {0} /\ FALSE \in BOOLEAN /\ text \in Texts
      BY <1>1 DEF Init
    <3> QED
      BY <2>1, <2>2, <3>1 DEF TypeOK
  <2>4. Behind /\ readPos <= Len(text) + 1 /\ \A k \in 1..writePos - 1 : buf[k] # 0
    BY <2>1, <2>2 DEF Behind
  <2> QED
    BY <2>1, <2>2, <2>3, <2>4 DEF DecodeInv, NoNulInside
<1>2. ASSUME DecodeInv, Next PROVE DecodeInv'
  <2>1. CASE ReadSlash \/ OtherEscape
    BY <1>2, <2>1, NothingWritten DEF ReadSlash, OtherEscape
  <2>2. CASE CopyByte
    <3>1. slash' = FALSE
      BY <1>2, <2>2 DEF CopyByte, DecodeInv, TypeOK
    <3> QED
      BY <1>2, <2>2, <3>1, InsideTheText, WriteOne DEF CopyByte
  <2>3. CASE Escape
    BY <1>2, <2>3, EscapedByte, WriteOne DEF Escape
  <2>4. CASE parseUnicode
    BY <1>2, <2>4, UnicodeStep
  <2>5. CASE BadUnicode
    <3>1. outcome' = "bad" /\ UNCHANGED <<text, buf, readPos, writePos, slash>>
      BY <2>5 DEF BadUnicode
    <3>2. TypeOK'
      BY <1>2, <3>1 DEF DecodeInv, TypeOK
    <3> QED
      BY <3>1, <3>2 DEF DecodeInv, NoNulInside
  <2>6. CASE Finish
    BY <1>2, <2>6, FinishStep
  <2> QED
    BY <1>2, <2>1, <2>2, <2>3, <2>4, <2>5, <2>6 DEF Next
<1>3. ASSUME DecodeInv, UNCHANGED vars PROVE DecodeInv'
  BY <1>3 DEF vars, DecodeInv, TypeOK, Behind, NoNulInside
<1> QED
  BY <1>1, <1>2, <1>3

(***************************************************************************)
(* The theorems.                                                           *)
(***************************************************************************)

\* The state is well formed.
THEOREM TypeCorrect == Spec => []TypeOK
<1>1. DecodeInv => TypeOK
  BY DEF DecodeInv
<1> QED
  BY <1>1, DecodeInvInductive, PTL DEF Spec

\* Decoding in place is safe for texts of every length: nothing unread is
\* written over, and nothing is read or written outside the storage, whatever
\* bytes lie there (parseUnicode, writeValue, string_t).
THEOREM DecodingInPlaceIsSafe == Spec => []UnreadIsUntouched
<1>1. ASSUME DecodeInv PROVE UnreadIsUntouched
  <2>1. CASE outcome = "decoding"
    <3>1. writePos <= readPos
      BY <1>1, <2>1, Numbers, SMT
    <3> QED
      BY <1>1, <2>1, <3>1 DEF DecodeInv, UnreadIsUntouched
  <2> QED
    BY <2>1 DEF UnreadIsUntouched
<1> QED
  BY <1>1, DecodeInvInductive, PTL DEF Spec

\* A decoded string has no NUL inside (JSONString::len).
THEOREM DecodedStringsHaveNoNul == Spec => []NoNulInside
<1>1. DecodeInv => NoNulInside
  BY DEF DecodeInv
<1> QED
  BY <1>1, DecodeInvInductive, PTL DEF Spec

(***************************************************************************)
(* The loop ends, though the turn after a backslash may read nothing.      *)
(***************************************************************************)
Turns == IF outcome = "decoding"
         THEN 2 * (Len(text) + 1 - readPos) + (IF slash THEN 2 ELSE 1) ELSE 0

LEMMA TurnsType ==
  ASSUME DecodeInv
  PROVE  /\ Turns \in Nat
         /\ outcome = "decoding" => readPos \in 1..Len(text) + 1 /\ Len(text) \in Nat
<1>1. CASE outcome = "decoding"
  <2>0. readPos \in Nat \ {0} /\ Len(text) \in Nat /\ readPos <= Len(text) + 1
    BY <1>1, Numbers
  <2>1. readPos \in 1..Len(text) + 1 /\ Len(text) \in Nat
    BY <2>0, SMT
  <2>2. (IF slash THEN 2 ELSE 1) \in {1, 2}
    OBVIOUS
  <2>3. \A n \in Nat, k \in {1, 2} : \A r \in 1..n + 1 : 2 * (n + 1 - r) + k \in Nat
    BY SMT
  <2> QED
    BY <1>1, <2>1, <2>2, <2>3 DEF Turns
<1> QED
  BY <1>1 DEF Turns

\* Every turn of the decoder's loop brings a natural number down, for texts of
\* every length (string_t).
THEOREM DecodingMakesProgress == Spec => [][Turns' \in 0..Turns - 1]_vars
<1>1. ASSUME DecodeInv, DecodeInv', Next PROVE Turns' < Turns
  <2>0. /\ outcome = "decoding" /\ Len(text) \in Nat /\ readPos \in 1..Len(text) + 1
        /\ text' = text
    BY <1>1, TurnsType DEF Next, ReadSlash, CopyByte, Escape, OtherEscape, parseUnicode,
                           BadUnicode, Finish, Decoding
  <2>1. Turns = 2 * (Len(text) + 1 - readPos) + (IF slash THEN 2 ELSE 1)
    BY <2>0 DEF Turns
  <2>2. CASE outcome' # "decoding"
    <3>1. Turns' = 0
      BY <2>2 DEF Turns
    <3> QED
      BY <2>0, <2>1, <3>1, SMT
  <2>3. CASE outcome' = "decoding"
    <3>1. Turns' = 2 * (Len(text) + 1 - readPos') + (IF slash' THEN 2 ELSE 1)
      BY <2>0, <2>3 DEF Turns
    <3>2. \/ readPos' \in {readPos + 1, readPos + 5}
          \/ readPos' = readPos /\ slash = TRUE /\ slash' = FALSE
      BY <1>1, <2>3 DEF Next, ReadSlash, CopyByte, Escape, OtherEscape, parseUnicode,
                        BadUnicode, Finish, Decoding
    <3>3. \A n, r \in Nat, d \in {1, 5}, k, m \in {1, 2} :
            2 * (n + 1 - (r + d)) + k < 2 * (n + 1 - r) + m
      BY SMT
    <3>4. (IF slash THEN 2 ELSE 1) \in {1, 2} /\ (IF slash' THEN 2 ELSE 1) \in {1, 2}
      OBVIOUS
    <3>5. CASE readPos' \in {readPos + 1, readPos + 5}
      BY <2>0, <2>1, <3>1, <3>3, <3>4, <3>5
    <3>6. CASE readPos' = readPos /\ slash = TRUE /\ slash' = FALSE
      BY <2>0, <2>1, <3>1, <3>6, SMT
    <3> QED
      BY <3>2, <3>5, <3>6
  <2> QED
    BY <2>2, <2>3
<1>2. DecodeInv => Turns \in Nat
  BY TurnsType
<1>3. DecodeInv /\ DecodeInv' /\ [Next]_vars => [Turns' < Turns]_vars
  BY <1>1
<1>4. Turns \in Nat /\ (Turns \in Nat)' /\ [Turns' < Turns]_vars => [Turns' \in 0..Turns - 1]_vars
  <2> SUFFICES ASSUME Turns \in Nat, Turns' \in Nat, Turns' < Turns
               PROVE  Turns' \in 0..Turns - 1
    OBVIOUS
  <2> QED
    BY SMT
<1> QED
  BY <1>2, <1>3, <1>4, DecodeInvInductive, PTL DEF Spec

(***************************************************************************)
(* Strings that the parser accepted.                                       *)
(***************************************************************************)

\* Every set of numbers that is not empty has a least one.
LEMMA Least ==
  ASSUME NEW T, T \subseteq Nat, T # {}
  PROVE  \E x \in T : \A y \in T : x <= y
<1> DEFINE R == OpToRel(<, Nat)
<1>1. IsWellFoundedOn(R, Nat)
  BY NatLessThanWellFounded
<1>2. \A x, y \in Nat : x < y => <<x, y>> \in R
  BY DEF OpToRel
<1> HIDE DEF R
<1>3. PICK x \in T : \A y \in T : ~(<<y, x>> \in R)
  BY <1>1, WFMin
<1>4. ASSUME NEW y \in T PROVE x <= y
  <2>1. x \in Nat /\ y \in Nat
    OBVIOUS
  <2>2. ~(y < x)
    BY <1>2, <1>3, <2>1
  <2> QED
    BY <2>1, <2>2
<1> QED
  BY <1>4

\* Where the run of backslashes before a position begins.
LEMMA RunBegins ==
  ASSUME NEW t, NEW i \in Nat \ {0}
  PROVE  \E j \in 0..i - 1 : /\ j = 0 \/ t[j] # Backslash
                             /\ \A k \in j + 1..i - 1 : t[k] = Backslash
<1> DEFINE Stops == {n \in 0..i - 1 : i - 1 - n = 0 \/ t[i - 1 - n] # Backslash}
<1>1. i - 1 \in Stops /\ Stops \subseteq Nat
  OBVIOUS
<1>2. PICK n \in Stops : \A m \in Stops : n <= m
  BY <1>1, Least
<1>3. ASSUME NEW k \in i - 1 - n + 1..i - 1 PROVE t[k] = Backslash
  <2> DEFINE m == i - 1 - k
  <2>1. m \in 0..i - 1 /\ i - 1 - m = k /\ m < n
    OBVIOUS
  <2>2. m \notin Stops
    <3>1. m \in Stops => n <= m
      BY <1>2
    <3>2. ~(n <= m)
      BY <1>1, <2>1
    <3> QED
      BY <3>1, <3>2
  <2>3. t[i - 1 - m] = Backslash
    BY <2>1, <2>2
  <2> HIDE DEF m
  <2> QED
    BY <2>1, <2>3
<1>4. i - 1 - n \in 0..i - 1 /\ (i - 1 - n = 0 \/ t[i - 1 - n] # Backslash)
  BY <1>2
<1> QED
  BY <1>3, <1>4

\* A byte is escaped if and only if a backslash that is not stands before it.
LEMMA EscapedNext ==
  ASSUME NEW t, NEW i \in Nat \ {0}
  PROVE  Escaped(t, i + 1) <=> (t[i] = Backslash /\ ~Escaped(t, i))
<1>1. PICK j \in 0..i - 1 : /\ j = 0 \/ t[j] # Backslash
                            /\ \A k \in j + 1..i - 1 : t[k] = Backslash
  BY RunBegins
<1>2. CASE t[i] # Backslash
  <2>1. ASSUME NEW m \in 0..(i + 1) - 1, \A k \in m + 1..(i + 1) - 1 : t[k] = Backslash,
               ((i + 1) - 1 - m) % 2 = 1
        PROVE  FALSE
    <3>1. CASE m = i
      BY <2>1, <3>1
    <3>2. CASE m # i
      <4>1. i \in m + 1..(i + 1) - 1
        BY <3>2
      <4> QED
        BY <1>2, <2>1, <4>1
    <3> QED
      BY <3>1, <3>2
  <2> QED
    BY <1>2, <2>1 DEF Escaped
<1>3. CASE t[i] = Backslash
  <2>1. ASSUME NEW m \in 0..i - 1, m = 0 \/ t[m] # Backslash,
               \A k \in m + 1..i - 1 : t[k] = Backslash
        PROVE  m = j
    <3>1. ~(m < j)
      <4>1. m < j => j \in m + 1..i - 1 /\ j # 0
        OBVIOUS
      <4> QED
        BY <1>1, <2>1, <4>1
    <3>2. ~(j < m)
      <4>1. j < m => m \in j + 1..i - 1 /\ m # 0
        OBVIOUS
      <4> QED
        BY <1>1, <2>1, <4>1
    <3> QED
      BY <3>1, <3>2
  <2>2. Escaped(t, i) <=> (i - 1 - j) % 2 = 1
    BY <1>1, <2>1 DEF Escaped
  <2>3. ASSUME NEW m \in 0..(i + 1) - 1, m = 0 \/ t[m] # Backslash,
               \A k \in m + 1..(i + 1) - 1 : t[k] = Backslash
        PROVE  m = j
    <3>1. m \in 0..i - 1 /\ \A k \in m + 1..i - 1 : k \in m + 1..(i + 1) - 1
      BY <1>3, <2>3
    <3> QED
      BY <2>1, <2>3, <3>1
  <2>4. \A k \in j + 1..(i + 1) - 1 : t[k] = Backslash
    <3>1. \A k \in j + 1..(i + 1) - 1 : k = i \/ k \in j + 1..i - 1
      OBVIOUS
    <3> QED
      BY <1>1, <1>3, <3>1
  <2>5. Escaped(t, i + 1) <=> ((i + 1) - 1 - j) % 2 = 1
    <3>1. j \in 0..(i + 1) - 1
      OBVIOUS
    <3> QED
      BY <1>1, <2>3, <2>4, <3>1 DEF Escaped
  <2>6. \A n \in Nat : (n + 1) % 2 = 1 <=> n % 2 # 1
    BY SMT
  <2>7. i - 1 - j \in Nat /\ (i - 1 - j) + 1 = (i + 1) - 1 - j
    OBVIOUS
  <2>8. ((i - 1 - j) + 1) % 2 = 1 <=> (i - 1 - j) % 2 # 1
    BY <2>6, <2>7
  <2> QED
    BY <1>3, <2>2, <2>5, <2>7, <2>8
<1> QED
  BY <1>2, <1>3

\* The decoder still reads what it was given.
LEMMA ReadsTheText ==
  ASSUME DecodeInv, outcome = "decoding"
  PROVE  /\ \A k \in readPos..Len(text) : At(k) = text[k]
         /\ At(Len(text) + 1) = 0 /\ text \in Seq(Byte)
         /\ Len(text) \in Nat /\ DOMAIN text = 1..Len(text)
<1>1. /\ buf \in Seq(Byte) /\ Len(buf) = Len(text) + 1 /\ text \in Seq(Byte)
      /\ readPos \in Nat \ {0} /\ Len(text) \in Nat /\ readPos <= Len(text) + 1
      /\ DOMAIN buf = 1..Len(buf) /\ DOMAIN text = 1..Len(text)
      /\ \A k \in readPos..Len(buf) : buf[k] = Append(text, 0)[k]
  BY StringAssumption, LenProperties DEF DecodeInv, TypeOK
<1>2. /\ Append(text, 0)[Len(text) + 1] = 0
      /\ \A k \in 1..Len(text) : Append(text, 0)[k] = text[k]
  BY <1>1, AppendProperties
<1>3. \A k \in readPos..Len(text) + 1 : k \in DOMAIN buf /\ At(k) = Append(text, 0)[k]
  BY <1>1 DEF At
<1> QED
  BY <1>1, <1>2, <1>3

\* The first byte is not escaped.
LEMMA FirstIsFree ==
  ASSUME NEW t
  PROVE  ~Escaped(t, 1)
<1>1. \A j \in 0..1 - 1 : j = 0
  OBVIOUS
<1>2. (1 - 1 - 0) % 2 # 1
  OBVIOUS
<1> QED
  BY <1>1, <1>2 DEF Escaped

\* What the parser let through after a backslash is an escape, and a whole one.
LEMMA EscapesAreKnown ==
  ASSUME NEW t \in Seq(Byte), Accepted(t), NEW i \in 1..Len(t) + 1, Escaped(t, i)
  PROVE  /\ i <= Len(t) /\ t[i] # 0 /\ t[i] \in DOMAIN escapes \cup {117}
         /\ t[i] = 117 => \A k \in i + 1..i + 4 :
              k <= Len(t) /\ IsHex(t[k]) /\ t[k] # Backslash
<1>1. Len(t) \in Nat /\ DOMAIN t = 1..Len(t)
  BY LenProperties
<1>2. i # 1
  BY FirstIsFree
<1> DEFINE h == i - 1
<1>3. h \in Nat \ {0} /\ h \in 1..Len(t) /\ h + 1 = i /\ h + 2 = i + 1 /\ h + 5 = i + 4
  BY <1>1, <1>2
<1> HIDE DEF h
<1>4. t[h] = Backslash /\ ~Escaped(t, h)
  <2>1. Escaped(t, h + 1)
    BY <1>3
  <2> QED
    BY <1>3, <2>1, EscapedNext
<1>5. /\ h < Len(t) /\ t[h + 1] \in {34, 92, 47, 98, 102, 110, 114, 116, 117}
      /\ t[h + 1] = 117 => \A k \in h + 2..h + 5 :
            k <= Len(t) /\ t[k] \in 48..57 \cup 65..70 \cup 97..102
  <2> DEFINE Known(j) ==
        /\ j < Len(t) /\ t[j + 1] \in {34, 92, 47, 98, 102, 110, 114, 116, 117}
        /\ t[j + 1] = 117 => \A k \in j + 2..j + 5 :
              k <= Len(t) /\ t[k] \in 48..57 \cup 65..70 \cup 97..102
  <2>1. \A j \in DOMAIN t : t[j] = Backslash /\ ~Escaped(t, j) => Known(j)
    BY Zenon DEF Accepted
  <2>2. h \in DOMAIN t
    BY <1>1, <1>3
  <2> HIDE DEF Known
  <2>3. Known(h)
    BY <1>4, <2>1, <2>2
  <2> QED
    BY <2>3 DEF Known
<1>6. \A c \in 48..57 \cup 65..70 \cup 97..102 : IsHex(c) /\ c # Backslash
  BY SMT DEF IsHex, toupper, Backslash
<1>7. t[i] \in {34, 92, 47, 98, 102, 110, 114, 116, 117}
  BY <1>3, <1>5
<1>8. i <= Len(t)
  BY <1>1, <1>3, <1>5
<1>9. t[i] # 0 /\ t[i] \in DOMAIN escapes \cup {117}
  BY <1>7 DEF escapes
<1>10. t[i] = 117 => \A k \in i + 1..i + 4 :
         k <= Len(t) /\ IsHex(t[k]) /\ t[k] # Backslash
  <2> SUFFICES ASSUME t[i] = 117, NEW k \in i + 1..i + 4
               PROVE  k <= Len(t) /\ IsHex(t[k]) /\ t[k] # Backslash
    OBVIOUS
  <2>1. k \in h + 2..h + 5 /\ t[h + 1] = 117
    BY <1>3
  <2>2. k <= Len(t) /\ t[k] \in 48..57 \cup 65..70 \cup 97..102
    BY <1>5, <2>1
  <2> QED
    BY <1>6, <2>2
<1> QED
  BY <1>8, <1>9, <1>10

\* The flag says of the next byte what the text says of it.
AcceptInv ==
  Accepted(text) =>
    /\ outcome # "bad"
    /\ outcome = "decoding" => (slash <=> Escaped(text, readPos))
    /\ outcome = "decoded" => readPos = Len(text) + 1

\* An escape the decoder looks at is a known one.
LEMMA EscapeAtHand ==
  ASSUME DecodeInv, AcceptInv, Accepted(text), outcome = "decoding", slash
  PROVE  /\ readVal # 0 /\ readVal \in DOMAIN escapes \cup {117}
         /\ readVal = 117 => /\ Digits /\ readPos + 4 <= Len(text)
                             /\ text[readPos + 4] # Backslash
<1>1. /\ readPos \in 1..Len(text) + 1 /\ Len(text) \in Nat
      /\ text \in Seq(Byte) /\ Escaped(text, readPos)
      /\ \A k \in readPos..Len(text) : At(k) = text[k]
  BY Numbers, ReadsTheText DEF AcceptInv
<1>2. /\ readPos <= Len(text) /\ text[readPos] # 0
      /\ text[readPos] \in DOMAIN escapes \cup {117}
      /\ text[readPos] = 117 => \A k \in readPos + 1..readPos + 4 :
           k <= Len(text) /\ IsHex(text[k]) /\ text[k] # Backslash
  BY <1>1, EscapesAreKnown
<1>3. readVal = text[readPos]
  BY <1>1, <1>2 DEF readVal
<1>4. ASSUME readVal = 117
      PROVE  Digits /\ readPos + 4 <= Len(text) /\ text[readPos + 4] # Backslash
  <2>1. \A i \in 1..4 : readPos + i \in readPos + 1..readPos + 4
    BY <1>1
  <2>2. \A i \in 1..4 : readPos + i <= Len(text) /\ IsHex(text[readPos + i])
    BY <1>2, <1>3, <1>4, <2>1
  <2>3. \A i \in 1..4 : readPos + i \in readPos..Len(text)
    BY <1>1, <2>2
  <2>4. Digits
    BY <1>1, <2>2, <2>3 DEF Digits
  <2>5. readPos + 4 \in readPos + 1..readPos + 4
    BY <1>1
  <2> QED
    BY <1>2, <1>3, <1>4, <2>4, <2>5
<1> QED
  BY <1>2, <1>3, <1>4

LEMMA AcceptInductive ==
  /\ Init => AcceptInv
  /\ DecodeInv /\ AcceptInv /\ [Next]_vars => AcceptInv'
<1>1. Init => AcceptInv
  BY FirstIsFree DEF Init, AcceptInv
<1>2. ASSUME DecodeInv, AcceptInv, Next, Accepted(text)
      PROVE  /\ text' = text /\ outcome' # "bad"
             /\ outcome' = "decoding" => (slash' <=> Escaped(text, readPos'))
             /\ outcome' = "decoded" => readPos' = Len(text) + 1
  <2>1. /\ outcome = "decoding" /\ readPos \in Nat \ {0} /\ slash \in BOOLEAN
        /\ slash <=> Escaped(text, readPos)
        /\ Escaped(text, readPos + 1) <=> (text[readPos] = Backslash /\ ~slash)
    <3>1. outcome = "decoding"
      BY <1>2 DEF Next, ReadSlash, CopyByte, Escape, OtherEscape, parseUnicode,
                  BadUnicode, Finish, Decoding
    <3>2. readPos \in Nat \ {0} /\ slash \in BOOLEAN /\ (slash <=> Escaped(text, readPos))
      BY <1>2, <3>1, Numbers DEF AcceptInv
    <3> QED
      BY <3>1, <3>2, EscapedNext
  <2>2. Len(text) \in Nat /\ readPos <= Len(text) + 1
    BY <1>2, <2>1, Numbers
  <2>3. readVal # 0 => readPos <= Len(text) /\ readVal = text[readPos]
    <3>1. /\ At(Len(text) + 1) = 0
          /\ \A k \in readPos..Len(text) : At(k) = text[k]
      BY <1>2, <2>1, ReadsTheText
    <3>2. readVal # 0 => readPos # Len(text) + 1
      BY <3>1 DEF readVal
    <3> QED
      BY <2>1, <2>2, <3>1, <3>2 DEF readVal
  <2>4. CASE ReadSlash
    BY <2>1, <2>3, <2>4 DEF ReadSlash, Decoding
  <2>5. CASE CopyByte
    BY <2>1, <2>3, <2>5 DEF CopyByte, Decoding
  <2>6. CASE Escape
    BY <2>1, <2>3, <2>6 DEF Escape, Decoding
  <2>7. CASE OtherEscape
    BY <1>2, <2>1, <2>7, EscapeAtHand DEF OtherEscape, Decoding
  <2>8. CASE parseUnicode
    <3>1. slash /\ readVal = 117 /\ readPos' = readPos + 5 /\ slash' = FALSE
          /\ UNCHANGED <<text, outcome>>
      BY <2>8 DEF parseUnicode
    <3>2. text[readPos + 4] # Backslash
      BY <1>2, <2>1, <3>1, EscapeAtHand
    <3> DEFINE p == readPos + 4
    <3>3. p \in Nat \ {0} /\ p + 1 = readPos + 5
      BY <2>1
    <3>4. ~Escaped(text, p + 1)
      BY <3>2, <3>3, EscapedNext
    <3> QED
      BY <2>1, <3>1, <3>3, <3>4
  <2>9. CASE BadUnicode
    BY <1>2, <2>1, <2>9, EscapeAtHand DEF BadUnicode
  <2>10. CASE Finish
    <3>1. readVal = 0 /\ outcome' = "decoded" /\ UNCHANGED <<text, readPos, slash>>
      BY <2>10 DEF Finish
    <3>2. /\ \A k \in readPos..Len(text) : At(k) = text[k]
          /\ DOMAIN text = 1..Len(text)
      BY <1>2, <2>1, ReadsTheText
    <3>3. \A k \in 1..Len(text) : text[k] # 0
      BY <1>2, <3>2 DEF Accepted
    <3>4. ~(readPos <= Len(text))
      BY <2>1, <2>2, <3>1, <3>2, <3>3 DEF readVal
    <3> QED
      BY <2>1, <2>2, <3>1, <3>4
  <2> QED
    BY <1>2, <2>4, <2>5, <2>6, <2>7, <2>8, <2>9, <2>10 DEF Next
<1>3. DecodeInv /\ AcceptInv /\ Next => AcceptInv'
  <2>1. Next => text' = text
    BY DEF Next, ReadSlash, CopyByte, Escape, OtherEscape, parseUnicode, BadUnicode, Finish
  <2> QED
    BY <1>2, <2>1 DEF AcceptInv
<1>4. AcceptInv /\ UNCHANGED vars => AcceptInv'
  BY DEF AcceptInv, vars
<1> QED
  BY <1>1, <1>3, <1>4

\* A text the parser accepts is decoded to its last byte, without an error and
\* without meeting an escape it does not know (JSONParser::string, string_t).
THEOREM AcceptedStringsAreDecoded == Spec => []AcceptedStringsDecode
<1>1. DecodeInv /\ AcceptInv => AcceptedStringsDecode
  <2> SUFFICES ASSUME DecodeInv, AcceptInv, Accepted(text)
               PROVE  /\ outcome # "bad"
                      /\ Decoding /\ slash => readVal \in DOMAIN escapes \cup {117}
                      /\ outcome = "decoded" => readPos = Len(text) + 1
    BY DEF AcceptedStringsDecode
  <2>1. Decoding /\ slash => readVal \in DOMAIN escapes \cup {117}
    BY EscapeAtHand DEF Decoding
  <2> QED
    BY <2>1 DEF AcceptInv
<1> QED
  BY <1>1, DecodeInvInductive, AcceptInductive, PTL DEF Spec

(***************************************************************************)
(* What a text says.                                                       *)
(***************************************************************************)

\* The value of a hexadecimal digit, and of the four from position i on.
DigitValue(c) ==
  CASE c \in 48..57 -> c - 48 [] c \in 65..70 -> c - 55 [] c \in 97..102 -> c - 87
HexDigits == 48..57 \cup 65..70 \cup 97..102
HexForm(t, i)  == \A k \in 0..3 : i + k <= Len(t) /\ t[i + k] \in HexDigits
HexValue(t, i) == DigitValue(t[i]) * 4096 + DigitValue(t[i + 1]) * 256
                    + DigitValue(t[i + 2]) * 16 + DigitValue(t[i + 3])

\* The code unit u in its shortest form, but for NUL, which has two bytes.
Short(u, x)      == u # 0 /\ u <= 127 /\ x = u
Middle(u, x, y)  == /\ u = 0 \/ (128 <= u /\ u <= 2047)
                    /\ x \in 192..223 /\ y \in 128..191
                    /\ u = (x - 192) * 64 + (y - 128)
Long(u, x, y, z) == /\ 2048 <= u /\ u <= 65535
                    /\ x \in 224..239 /\ y \in 128..191 /\ z \in 128..191
                    /\ u = (x - 224) * 4096 + (y - 128) * 64 + (z - 128)

\* The m bytes of b from o on are the code unit u.
Utf8(b, o, m, u) ==
  \/ m = 1 /\ Short(u, b[o])
  \/ m = 2 /\ Middle(u, b[o], b[o + 1])
  \/ m = 3 /\ Long(u, b[o], b[o + 1], b[o + 2])

\* What the letters after a backslash stand for.
Named == {<<110, 10>>, <<114, 13>>, <<116, 9>>, <<98, 8>>, <<102, 12>>,
          <<34, 34>>, <<92, 92>>, <<47, 47>>}

\* The n bytes of t from i on are one byte, one escape or the backslash of an
\* escape that there is not, and the m bytes of b from o on are what they say.
Says(t, i, n, b, o, m) ==
  \/ n = 1 /\ m = 1 /\ t[i] \notin {0, Backslash} /\ b[o] = t[i]
  \/ n = 2 /\ m = 1 /\ t[i] = Backslash /\ <<t[i + 1], b[o]>> \in Named
  \/ /\ n = 1 /\ m = 0 /\ i < Len(t) /\ t[i] = Backslash
     /\ t[i + 1] \notin {0, 117} /\ \A x : <<t[i + 1], x>> \notin Named
  \/ /\ n = 6 /\ t[i] = Backslash /\ t[i + 1] = 117 /\ HexForm(t, i + 2)
     /\ m \in 1..3 /\ Utf8(b, o, m, HexValue(t, i + 2))

Step(t, b, p, q) ==
  \E n \in 1..6, m \in 0..3 :
    /\ q = <<p[1] + n, p[2] + m>> /\ q[1] <= Len(t) + 1
    /\ Says(t, p[1], n, b, p[2], m)

Places == (Nat \ {0}) \X (Nat \ {0})

\* The bytes of b before position o say what those of t before i do: a walk
\* leads from the beginning of both to there.
SaysUpTo(t, i, b, o) ==
  \E W \in SUBSET Places :
    /\ <<1, 1>> \in W
    /\ \A p \in W : p = <<i, o>> \/ \E q \in W : q[2] <= o /\ Step(t, b, p, q)

\* The end of a C string; a backslash right before it says nothing.
EndsAt(t, i) ==
  LET nul(k) == k = Len(t) + 1 \/ (k \in DOMAIN t /\ t[k] = 0)
  IN  nul(i) \/ (i \in DOMAIN t /\ t[i] = Backslash /\ nul(i + 1))

\* A \u without its four digits.
BadAt(t, i) == i < Len(t) /\ t[i] = Backslash /\ t[i + 1] = 117 /\ ~HexForm(t, i + 2)

\* The result is what the whole text says, and only a bad \u is refused.
ResultIsWhatTheTextSays ==
  /\ outcome = "decoded" =>
       \E i \in 1..Len(text) + 1 : EndsAt(text, i) /\ SaysUpTo(text, i, buf, Len(buf) + 1)
  /\ outcome = "bad" =>
       \E i \in 1..Len(text) : BadAt(text, i) /\ SaysUpTo(text, i, buf, writePos)

LEMMA DigitOf ==
  ASSUME NEW c \in Byte
  PROVE  /\ IsHex(c) <=> c \in HexDigits
         /\ IsHex(c) => hex2int(c) = DigitValue(c)
<1>1. IsHex(c) <=> c \in HexDigits
  BY SMT DEF IsHex, toupper, HexDigits, Byte
<1>2. ASSUME c \in HexDigits PROVE hex2int(c) = DigitValue(c)
  <2>1. CASE c \in 48..57
    BY <2>1, SMT DEF hex2int, toupper, DigitValue
  <2>2. CASE c \in 65..70
    BY <2>2, SMT DEF hex2int, toupper, DigitValue
  <2>3. CASE c \in 97..102
    BY <2>3, SMT DEF hex2int, toupper, DigitValue
  <2> QED
    BY <1>2, <2>1, <2>2, <2>3 DEF HexDigits
<1> QED
  BY <1>1, <1>2

LEMMA EncodeIsUtf8 ==
  ASSUME NEW u \in CodeUnit
  PROVE  Utf8(Encode(u), 1, Len(Encode(u)), u)
<1> DEFINE low == 128 + (u % 64)  rest == u \div 64  mid == 128 + (rest % 64)  top == rest \div 64
<1>1. /\ low \in 128..191 /\ mid \in 128..191 /\ rest \in Nat /\ top \in Nat
      /\ u = rest * 64 + (low - 128) /\ rest = top * 64 + (mid - 128)
  <2>1. low \in 128..191 /\ rest \in Nat /\ u = rest * 64 + (low - 128)
    BY SMT DEF CodeUnit
  <2> HIDE DEF rest, low
  <2>2. mid \in 128..191 /\ top \in Nat /\ rest = top * 64 + (mid - 128)
    BY <2>1, SMT
  <2> QED
    BY <2>1, <2>2
<1>2. LongForm(u) = IF u <= 2047 THEN <<192 + rest, low>> ELSE <<224 + top, mid, low>>
  BY DEF LongForm
<1> HIDE DEF low, rest, mid, top
<1>3. Encode(u) = IF u = 0 THEN <<192, 128>> ELSE IF u <= 127 THEN <<u>> ELSE LongForm(u)
  BY DEF Encode
<1>4. u \in Nat /\ u <= 65535
  BY DEF CodeUnit
<1>5. CASE u = 0
  <2> DEFINE b == <<192, 128>>
  <2>1. Len(b) = 2 /\ b[1] = 192 /\ b[1 + 1] = 128
    OBVIOUS
  <2> HIDE DEF b
  <2>2. Middle(0, 192, 128)
    BY DEF Middle
  <2>3. Utf8(b, 1, 2, 0)
    BY <2>1, <2>2 DEF Utf8
  <2> QED
    BY <1>3, <1>5, <2>1, <2>3 DEF b
<1>6. CASE u # 0 /\ u <= 127
  <2>1. Len(<<u>>) = 1 /\ <<u>>[1] = u
    OBVIOUS
  <2>2. Short(u, u)
    BY <1>4, <1>6 DEF Short
  <2>3. Utf8(<<u>>, 1, 1, u)
    BY <2>1, <2>2 DEF Utf8
  <2> QED
    BY <1>3, <1>6, <2>1, <2>3
<1>7. CASE u > 127 /\ u <= 2047
  <2> DEFINE b == <<192 + rest, low>>
  <2>1. Len(b) = 2 /\ b[1] = 192 + rest /\ b[1 + 1] = low
    OBVIOUS
  <2> HIDE DEF b
  <2>2. Middle(u, 192 + rest, low)
    <3>1. \A r \in Nat, l \in 128..191, v \in Nat :
            v = r * 64 + (l - 128) /\ v <= 2047
              => 192 + r \in 192..223 /\ v = ((192 + r) - 192) * 64 + (l - 128)
      BY SMT
    <3>2. u = 0 \/ (128 <= u /\ u <= 2047)
      BY <1>4, <1>7
    <3> QED
      BY <1>1, <1>4, <1>7, <3>1, <3>2 DEF Middle
  <2>3. Utf8(b, 1, 2, u)
    BY <2>1, <2>2 DEF Utf8
  <2>4. Encode(u) = b
    BY <1>2, <1>3, <1>4, <1>7 DEF b
  <2> QED
    BY <2>1, <2>3, <2>4
<1>8. CASE u > 2047
  <2> DEFINE b == <<224 + top, mid, low>>
  <2>1. Len(b) = 3 /\ b[1] = 224 + top /\ b[1 + 1] = mid /\ b[1 + 2] = low
    OBVIOUS
  <2> HIDE DEF b
  <2>2. Long(u, 224 + top, mid, low)
    <3>1. u = (top * 64 + (mid - 128)) * 64 + (low - 128)
      BY <1>1
    <3>2. u = top * 4096 + (mid - 128) * 64 + (low - 128)
      BY <1>1, <3>1
    <3>3. top <= 15
      BY <1>1, <1>4, <3>2
    <3>4. 224 + top \in 224..239 /\ (224 + top) - 224 = top
      BY <1>1, <3>3
    <3> QED
      BY <1>1, <1>4, <1>8, <3>2, <3>4, SMT DEF Long
  <2>3. Utf8(b, 1, 3, u)
    BY <2>1, <2>2 DEF Utf8
  <2>4. Encode(u) = b
    BY <1>2, <1>3, <1>4, <1>8 DEF b
  <2> QED
    BY <2>1, <2>3, <2>4
<1> QED
  BY <1>4, <1>5, <1>6, <1>7, <1>8

LEMMA Utf8Moved ==
  ASSUME NEW a, NEW b, NEW o \in Nat, NEW k \in Nat, NEW m \in 1..3, NEW u,
         \A i \in 0..m - 1 : b[o + i] = a[k + i], Utf8(a, k, m, u)
  PROVE  Utf8(b, o, m, u)
<1>1. b[o] = a[k]
  <2>1. 0 \in 0..m - 1 /\ o + 0 = o /\ k + 0 = k
    OBVIOUS
  <2>2. b[o + 0] = a[k + 0]
    BY <2>1
  <2> QED
    BY <2>1, <2>2
<1>2. m \in {2, 3} => b[o + 1] = a[k + 1]
  OBVIOUS
<1>3. m = 3 => b[o + 2] = a[k + 2]
  OBVIOUS
<1>4. CASE m = 1
  BY <1>1, <1>4 DEF Utf8
<1>5. CASE m = 2
  BY <1>1, <1>2, <1>5 DEF Utf8
<1>6. CASE m = 3
  BY <1>1, <1>2, <1>3, <1>6 DEF Utf8
<1> QED
  BY <1>4, <1>5, <1>6

\* What was written stays true as long as the bytes written stay.
LEMMA SaysKept ==
  ASSUME NEW t, NEW a, NEW b, NEW i \in Nat, NEW o \in Nat, NEW n \in 1..6, NEW m \in 0..3,
         \A k \in o..o + m - 1 : b[k] = a[k], Says(t, i, n, a, o, m)
  PROVE  Says(t, i, n, b, o, m)
<1>1. m = 1 => b[o] = a[o]
  OBVIOUS
<1>2. \A u : m \in 1..3 /\ Utf8(a, o, m, u) => Utf8(b, o, m, u)
  <2> TAKE u
  <2>1. \A k \in 0..m - 1 : b[o + k] = a[o + k]
    <3> TAKE k \in 0..m - 1
    <3>1. o + k \in o..o + m - 1
      OBVIOUS
    <3> QED
      BY <3>1
  <2> QED
    BY <2>1, Utf8Moved
<1> QED
  BY <1>1, <1>2 DEF Says

LEMMA WalkKept ==
  ASSUME NEW t, NEW i, NEW a, NEW b, NEW o \in Nat \ {0},
         \A k \in 1..o - 1 : b[k] = a[k], SaysUpTo(t, i, a, o)
  PROVE  SaysUpTo(t, i, b, o)
<1>1. PICK W \in SUBSET Places :
        /\ <<1, 1>> \in W
        /\ \A p \in W : p = <<i, o>> \/ \E q \in W : q[2] <= o /\ Step(t, a, p, q)
  BY DEF SaysUpTo
<1>2. ASSUME NEW p \in W, NEW q \in W, q[2] <= o, Step(t, a, p, q)
      PROVE  Step(t, b, p, q)
  <2>1. PICK n \in 1..6, m \in 0..3 :
          /\ q = <<p[1] + n, p[2] + m>> /\ q[1] <= Len(t) + 1
          /\ Says(t, p[1], n, a, p[2], m)
    BY <1>2 DEF Step
  <2>2. p[1] \in Nat \ {0} /\ p[2] \in Nat \ {0} /\ p[2] + m <= o
    BY <1>2, <2>1 DEF Places
  <2>3. \A k \in p[2]..p[2] + m - 1 : k \in 1..o - 1
    BY <2>2
  <2>s. \A k \in p[2]..p[2] + m - 1 : b[k] = a[k]
    BY <2>3
  <2>4. Says(t, p[1], n, b, p[2], m)
    <3>1. p[1] \in Nat /\ p[2] \in Nat
      BY <2>2
    <3> QED
      BY <2>1, <2>s, <3>1, SaysKept
  <2> QED
    BY <2>1, <2>4 DEF Step
<1>3. \A p \in W : p = <<i, o>> \/ \E q \in W : q[2] <= o /\ Step(t, b, p, q)
  BY <1>1, <1>2
<1> QED
  BY <1>1, <1>3 DEF SaysUpTo

LEMMA WalkOn ==
  ASSUME NEW t, NEW a, NEW b, NEW i \in Nat \ {0}, NEW o \in Nat \ {0},
         NEW n \in 1..6, NEW m \in 0..3, SaysUpTo(t, i, a, o),
         \A k \in 1..o - 1 : b[k] = a[k],
         i + n <= Len(t) + 1, Says(t, i, n, b, o, m)
  PROVE  SaysUpTo(t, i + n, b, o + m)
<1>1. SaysUpTo(t, i, b, o)
  BY WalkKept
<1>2. PICK W \in SUBSET Places :
        /\ <<1, 1>> \in W
        /\ \A p \in W : p = <<i, o>> \/ \E q \in W : q[2] <= o /\ Step(t, b, p, q)
  BY <1>1 DEF SaysUpTo
<1> DEFINE last == <<i + n, o + m>>
           V == W \cup {last}
<1>3. V \in SUBSET Places /\ <<1, 1>> \in V
  BY <1>2 DEF Places
<1>4. Step(t, b, <<i, o>>, last) /\ last[2] <= o + m
  BY DEF Step
<1>5. ASSUME NEW p \in V
      PROVE  p = <<i + n, o + m>> \/ \E q \in V : q[2] <= o + m /\ Step(t, b, p, q)
  <2>1. CASE p = last
    BY <2>1
  <2>2. CASE p = <<i, o>>
    BY <1>4, <2>2
  <2>3. CASE p \in W /\ p # <<i, o>>
    <3>1. PICK q \in W : q[2] <= o /\ Step(t, b, p, q)
      BY <1>2, <2>3
    <3>2. q[2] \in Nat
      BY DEF Places
    <3>3. q \in V /\ q[2] <= o + m
      BY <3>1, <3>2
    <3> QED
      BY <3>1, <3>3
  <2> QED
    BY <2>1, <2>2, <2>3
<1> QED
  BY <1>3, <1>5 DEF SaysUpTo

(***************************************************************************)
(* The decoder walks the text.                                             *)
(***************************************************************************)

\* Where the byte or escape being read begins.
Start == IF slash THEN readPos - 1 ELSE readPos

SaysInv ==
  /\ outcome = "decoding" =>
       /\ slash => readPos > 1 /\ text[readPos - 1] = Backslash
       /\ SaysUpTo(text, Start, buf, writePos)
  /\ ResultIsWhatTheTextSays

\* What is written is there, and what was written stays.
LEMMA Written ==
  ASSUME DecodeInv, outcome = "decoding", NEW bytes \in Seq(Byte), Len(bytes) \in 1..3,
         writePos + Len(bytes) <= Len(text) + 2, Write(bytes)
  PROVE  /\ \A k \in 1..writePos - 1 : buf'[k] = buf[k]
         /\ \A i \in 1..Len(bytes) : buf'[writePos + (i - 1)] = bytes[i]
         /\ writePos' = writePos + Len(bytes)
<1>1. /\ writePos \in Nat \ {0} /\ Len(text) \in Nat /\ Len(bytes) \in Nat
      /\ DOMAIN buf = 1..Len(text) + 1
  BY Numbers, LenProperties DEF DecodeInv, TypeOK
<1>2. \A k \in DOMAIN buf : buf'[k] = IF k - writePos \in 0..Len(bytes) - 1
                                       THEN bytes[k - writePos + 1] ELSE buf[k]
  BY DEF Write
<1>3. ASSUME NEW k \in 1..writePos - 1 PROVE buf'[k] = buf[k]
  <2>1. k \in DOMAIN buf /\ k - writePos \notin 0..Len(bytes) - 1
    BY <1>1
  <2> QED
    BY <1>2, <2>1
<1>4. ASSUME NEW i \in 1..Len(bytes) PROVE buf'[writePos + (i - 1)] = bytes[i]
  <2> DEFINE k == writePos + (i - 1)
  <2>1. k \in DOMAIN buf /\ k - writePos \in 0..Len(bytes) - 1 /\ k - writePos + 1 = i
    BY <1>1
  <2> HIDE DEF k
  <2>2. buf'[k] = bytes[k - writePos + 1]
    BY <1>2, <2>1
  <2> QED
    BY <2>1, <2>2 DEF k
<1> QED
  BY <1>3, <1>4 DEF Write

\* The byte to be read, when there is one.
LEMMA ByteAtHand ==
  ASSUME DecodeInv, Decoding
  PROVE  /\ readPos \in Nat \ {0} /\ readPos <= Len(text) /\ Len(text) \in Nat
         /\ text \in Seq(Byte) /\ DOMAIN text = 1..Len(text)
         /\ readVal = text[readPos] /\ readVal # 0 /\ readVal \in Byte
         /\ \A k \in readPos..Len(text) : At(k) = text[k]
         /\ writePos \in Nat \ {0} /\ writePos <= readPos
         /\ slash => writePos + 1 <= readPos
<1>1. /\ readPos \in Nat \ {0} /\ readPos + 1 <= Len(text) + 1 /\ Len(text) \in Nat
      /\ writePos \in Nat \ {0} /\ writePos <= readPos
      /\ slash => writePos + 1 <= readPos
  BY Numbers, InsideTheText DEF Decoding
<1>2. /\ text \in Seq(Byte) /\ DOMAIN text = 1..Len(text)
      /\ \A k \in readPos..Len(text) : At(k) = text[k]
  BY ReadsTheText DEF Decoding
<1>3. readVal # 0 /\ readVal \in Byte
  BY InsideTheText
<1>4. readPos <= Len(text)
  BY <1>1
<1> QED
  BY <1>1, <1>2, <1>3, <1>4 DEF readVal

\* One byte is written for n that are read.
LEMMA OneSaid ==
  ASSUME DecodeInv, SaysInv, Decoding, NEW b \in Byte, Write(<<b>>),
         UNCHANGED <<text, outcome>>, readPos' = readPos + 1, slash' = FALSE,
         NEW n \in 1..6, Start + n = readPos + 1,
         \A a : a[writePos] = b => Says(text, Start, n, a, writePos, 1)
  PROVE  SaysInv'
<1>1. /\ readPos \in Nat \ {0} /\ readPos <= Len(text) /\ Len(text) \in Nat
      /\ writePos \in Nat \ {0} /\ writePos <= readPos /\ outcome = "decoding"
  BY ByteAtHand DEF Decoding
<1>2. <<b>> \in Seq(Byte) /\ Len(<<b>>) = 1 /\ <<b>>[1] = b
  OBVIOUS
<1>3. /\ \A k \in 1..writePos - 1 : buf'[k] = buf[k]
      /\ buf'[writePos] = b /\ writePos' = writePos + 1
  <2>1. Len(<<b>>) \in 1..3 /\ writePos + Len(<<b>>) <= Len(text) + 2
    BY <1>1, <1>2
  <2>2. /\ \A k \in 1..writePos - 1 : buf'[k] = buf[k]
        /\ \A i \in 1..Len(<<b>>) : buf'[writePos + (i - 1)] = <<b>>[i]
        /\ writePos' = writePos + Len(<<b>>)
    BY <1>1, <1>2, <2>1, Written
  <2>3. 1 \in 1..Len(<<b>>) /\ writePos + (1 - 1) = writePos
    BY <1>1, <1>2
  <2>4. buf'[writePos + (1 - 1)] = b
    BY <1>2, <2>2, <2>3
  <2> QED
    BY <1>2, <2>2, <2>3, <2>4
<1>4. Start \in Nat \ {0}
  <2>1. slash => readPos > 1
    BY <1>1 DEF SaysInv
  <2> QED
    BY <1>1, <2>1 DEF Start
<1>5. Says(text, Start, n, buf', writePos, 1)
  BY <1>3
<1>6. SaysUpTo(text, Start, buf, writePos)
  BY <1>1 DEF SaysInv
<1>7. Start + n <= Len(text) + 1 /\ 1 \in 0..3
  BY <1>1
<1>8. SaysUpTo(text, Start + n, buf', writePos + 1)
  BY <1>1, <1>3, <1>4, <1>5, <1>6, <1>7, WalkOn
<1>9. Start' = Start + n
  BY DEF Start
<1> QED
  BY <1>1, <1>3, <1>8, <1>9 DEF SaysInv, ResultIsWhatTheTextSays

LEMMA UnicodeSaid == ASSUME DecodeInv, SaysInv, parseUnicode PROVE SaysInv'
<1>1. /\ Decoding /\ outcome = "decoding" /\ slash /\ Digits /\ readVal = 117
      /\ readPos' = readPos + 5 /\ slash' = FALSE /\ Write(Encode(charVal))
      /\ text' = text /\ outcome' = outcome
  BY DEF parseUnicode, Decoding
<1>2. /\ readPos \in Nat \ {0} /\ readPos <= Len(text) /\ Len(text) \in Nat
      /\ text[readPos] = 117 /\ text \in Seq(Byte) /\ DOMAIN text = 1..Len(text)
      /\ \A k \in readPos..Len(text) : At(k) = text[k]
      /\ writePos \in Nat \ {0} /\ writePos + 1 <= readPos
  BY <1>1, ByteAtHand
<1>3. readPos + 5 <= Len(text) + 1
  BY <1>1, DigitsInside
<1> DEFINE p == readPos + 1  i == readPos - 1
<1>4. \A k \in 0..3 : p + k <= Len(text) /\ At(p + k) = text[p + k] /\ text[p + k] \in Byte
  <2> TAKE k \in 0..3
  <2>1. p + k \in readPos..Len(text) /\ p + k \in 1..Len(text)
    BY <1>2, <1>3
  <2> QED
    BY <1>2, <2>1, ElementOfSeq
<1>5. \A k \in 0..3 : IsHex(text[p + k])
  <2> TAKE k \in 0..3
  <2>1. k + 1 \in 1..4 /\ readPos + (k + 1) = p + k
    BY <1>2
  <2>2. IsHex(At(readPos + (k + 1)))
    BY <1>1, <2>1 DEF Digits
  <2> QED
    BY <1>4, <2>1, <2>2
<1>6. HexForm(text, p)
  BY <1>4, <1>5, DigitOf DEF HexForm
<1>7. \A k \in 0..3 : hex2int(At(p + k)) = DigitValue(text[p + k])
  BY <1>4, <1>5, DigitOf
<1>8. charVal = HexValue(text, p)
  <2>1. charVal = hex2int(At(readPos + 1)) * 4096 + hex2int(At(readPos + 2)) * 256
                    + hex2int(At(readPos + 3)) * 16 + hex2int(At(readPos + 4))
    BY DEF charVal
  <2>2. p + 0 = readPos + 1 /\ p + 1 = readPos + 2 /\ p + 2 = readPos + 3 /\ p + 3 = readPos + 4
    BY <1>2
  <2>3. 0 \in 0..3 /\ 1 \in 0..3 /\ 2 \in 0..3 /\ 3 \in 0..3 /\ p + 0 = p
    BY <1>2
  <2> HIDE DEF p
  <2>4. /\ hex2int(At(readPos + 1)) = DigitValue(text[p])
        /\ hex2int(At(readPos + 2)) = DigitValue(text[p + 1])
        /\ hex2int(At(readPos + 3)) = DigitValue(text[p + 2])
        /\ hex2int(At(readPos + 4)) = DigitValue(text[p + 3])
    BY <1>7, <2>2, <2>3
  <2> QED
    BY <2>1, <2>4 DEF HexValue
<1>9. charVal \in CodeUnit
  BY <1>1, CharValIsUnit
<1> DEFINE e == Encode(charVal)
<1>10. e \in Seq(Byte) /\ Len(e) \in 1..3 /\ Utf8(e, 1, Len(e), charVal)
  BY <1>9, Encoded, EncodeIsUtf8 DEF Form
<1>11. /\ \A k \in 1..writePos - 1 : buf'[k] = buf[k]
       /\ \A k \in 1..Len(e) : buf'[writePos + (k - 1)] = e[k]
       /\ writePos' = writePos + Len(e)
  <2>1. Write(e)
    BY <1>1
  <2> HIDE DEF e
  <2>2. \A m \in 1..3 : writePos + m <= Len(text) + 2
    BY <1>2, <1>3
  <2>3. writePos + Len(e) <= Len(text) + 2
    BY <1>10, <2>2
  <2> QED
    BY <1>1, <1>10, <2>1, <2>3, Written
<1> HIDE DEF e
<1>12. Utf8(buf', writePos, Len(e), charVal)
  <2>1. \A k \in 0..Len(e) - 1 : buf'[writePos + k] = e[1 + k]
    <3> TAKE k \in 0..Len(e) - 1
    <3>1. 1 + k \in 1..Len(e) /\ writePos + ((1 + k) - 1) = writePos + k
      BY <1>2, <1>10
    <3> QED
      BY <1>11, <3>1
  <2>2. writePos \in Nat /\ 1 \in Nat
    BY <1>2
  <2> QED
    BY <1>10, <2>1, <2>2, Utf8Moved
<1>13. /\ i \in Nat \ {0} /\ i + 1 = readPos /\ i + 2 = p /\ i + 6 = readPos + 5
       /\ Start = i /\ text[i] = Backslash
  BY <1>1, <1>2 DEF SaysInv, Start
<1> HIDE DEF p, i
<1>14. Says(text, i, 6, buf', writePos, Len(e))
  BY <1>2, <1>6, <1>8, <1>10, <1>12, <1>13 DEF Says
<1>15. SaysUpTo(text, i, buf, writePos)
  BY <1>1, <1>13 DEF SaysInv
<1>16. SaysUpTo(text, i + 6, buf', writePos + Len(e))
  <2>1. 6 \in 1..6 /\ Len(e) \in 0..3 /\ i + 6 <= Len(text) + 1
    BY <1>3, <1>10, <1>13
  <2>2. i \in Nat \ {0} /\ writePos \in Nat \ {0}
    BY <1>2, <1>13
  <2>3. \A k \in 1..writePos - 1 : buf'[k] = buf[k]
    BY <1>11
  <2> QED
    BY <1>14, <1>15, <2>1, <2>2, <2>3, WalkOn
<1>17. Start' = i + 6
  BY <1>1, <1>13 DEF Start
<1> QED
  BY <1>1, <1>11, <1>16, <1>17 DEF SaysInv, ResultIsWhatTheTextSays

\* Four bytes that are not all digits are none of a text either.
LEMMA BadDigits ==
  ASSUME DecodeInv, Decoding, ~Digits
  PROVE  ~HexForm(text, readPos + 1)
<1>1. PICK i \in 1..4 : ~IsHex(At(readPos + i))
  BY DEF Digits
<1>2. readPos \in Nat \ {0} /\ \A k \in readPos..Len(text) : At(k) = text[k]
  BY ByteAtHand
<1>3. Len(text) \in Nat /\ text \in Seq(Byte)
  BY ByteAtHand
<1> DEFINE k == i - 1  p == readPos + 1
<1>4. k \in 0..3 /\ p + k = readPos + i
  BY <1>2
<1> HIDE DEF k, p
<1>5. ASSUME p + k <= Len(text), text[p + k] \in HexDigits PROVE FALSE
  <2>1. p + k \in readPos..Len(text) /\ p + k \in 1..Len(text)
    BY <1>2, <1>3, <1>4, <1>5
  <2>2. At(p + k) = text[p + k] /\ text[p + k] \in Byte
    BY <1>2, <1>3, <2>1, ElementOfSeq
  <2> QED
    BY <1>1, <1>4, <1>5, <2>2, DigitOf
<1>6. ~HexForm(text, p)
  BY <1>4, <1>5 DEF HexForm
<1> QED
  BY <1>6 DEF p

LEMMA BadSaid == ASSUME DecodeInv, SaysInv, BadUnicode PROVE SaysInv'
<1>1. /\ Decoding /\ outcome = "decoding" /\ slash /\ readVal = 117 /\ ~Digits
      /\ outcome' = "bad" /\ UNCHANGED <<text, buf, readPos, writePos, slash>>
  BY DEF BadUnicode, Decoding
<1>2. /\ readPos \in Nat \ {0} /\ readPos <= Len(text) /\ Len(text) \in Nat
      /\ text[readPos] = 117
  BY <1>1, ByteAtHand
<1> DEFINE i == readPos - 1
<1>3. /\ i \in 1..Len(text) /\ i + 1 = readPos /\ i + 2 = readPos + 1 /\ i < Len(text)
      /\ Start = i /\ text[i] = Backslash
  BY <1>1, <1>2 DEF SaysInv, Start
<1> HIDE DEF i
<1>4. BadAt(text, i)
  BY <1>1, <1>2, <1>3, BadDigits DEF BadAt
<1>5. SaysUpTo(text, i, buf, writePos)
  BY <1>1, <1>3 DEF SaysInv
<1> QED
  BY <1>1, <1>3, <1>4, <1>5 DEF SaysInv, ResultIsWhatTheTextSays

LEMMA FinishSaid == ASSUME DecodeInv, SaysInv, Finish PROVE SaysInv'
<1>1. /\ outcome = "decoding" /\ readVal = 0 /\ outcome' = "decoded"
      /\ buf' = SubSeq(buf, 1, writePos - 1) /\ UNCHANGED <<text, readPos, writePos, slash>>
  BY DEF Finish
<1>2. /\ writePos \in Nat \ {0} /\ readPos \in Nat \ {0} /\ slash \in BOOLEAN
      /\ Len(text) \in Nat /\ readPos <= Len(text) + 1 /\ writePos - 1 <= Len(buf)
      /\ buf \in Seq(Byte) /\ Len(buf) \in Nat
  <2>1. buf \in Seq(Byte) /\ Len(buf) = Len(text) + 1
    BY <1>1 DEF DecodeInv, TypeOK
  <2> QED
    BY <1>1, <2>1, Numbers
<1>3. Len(buf') = writePos - 1 /\ \A k \in 1..writePos - 1 : buf'[k] = buf[k]
  <2>1. /\ Len(SubSeq(buf, 1, writePos - 1)) =
             IF 1 <= writePos - 1 THEN writePos - 1 - 1 + 1 ELSE 0
        /\ \A k \in 1..writePos - 1 - 1 + 1 :
             SubSeq(buf, 1, writePos - 1)[k] = buf[1 + k - 1]
    <3>1. \A k \in 1..writePos - 1 : buf[k] \in Byte
      BY <1>2, ElementOfSeq
    <3> QED
      BY <1>2, <3>1, SubSeqProperties
  <2>2. 1..writePos - 1 - 1 + 1 = 1..writePos - 1
    BY <1>2
  <2> QED
    BY <1>1, <1>2, <2>1, <2>2
<1>4. SaysUpTo(text, Start, buf', writePos) /\ writePos = Len(buf') + 1
  <2>1. SaysUpTo(text, Start, buf, writePos)
    BY <1>1 DEF SaysInv
  <2>2. SaysUpTo(text, Start, buf', writePos)
    BY <1>2, <1>3, <2>1, WalkKept
  <2> QED
    BY <1>2, <1>3, <2>2
<1>5. readPos = Len(text) + 1 \/ (readPos \in DOMAIN text /\ text[readPos] = 0)
  <2>1. /\ \A k \in readPos..Len(text) : At(k) = text[k]
        /\ DOMAIN text = 1..Len(text)
    BY <1>1, ReadsTheText
  <2> QED
    BY <1>1, <1>2, <2>1 DEF readVal
<1>6. EndsAt(text, Start) /\ Start \in 1..Len(text) + 1
  <2>1. CASE ~slash
    BY <1>2, <1>5, <2>1 DEF EndsAt, Start
  <2>2. CASE slash
    <3> DEFINE i == readPos - 1
    <3>1. /\ i \in 1..Len(text) /\ i + 1 = readPos /\ Start = i /\ text[i] = Backslash
          /\ i \in DOMAIN text
      BY <1>1, <1>2, <2>2, ReadsTheText DEF SaysInv, Start
    <3> HIDE DEF i
    <3>2. i \in 1..Len(text) + 1
      BY <1>2, <3>1
    <3> QED
      BY <1>5, <3>1, <3>2 DEF EndsAt
  <2> QED
    BY <1>2, <2>1, <2>2
<1>7. ResultIsWhatTheTextSays'
  BY <1>1, <1>4, <1>6 DEF ResultIsWhatTheTextSays
<1> QED
  BY <1>1, <1>7 DEF SaysInv

LEMMA SaysInductive ==
  /\ Init => SaysInv
  /\ DecodeInv /\ SaysInv /\ [Next]_vars => SaysInv'
<1>1. ASSUME Init PROVE SaysInv
  <2>1. outcome = "decoding" /\ ~slash /\ readPos = 1 /\ writePos = 1
    BY <1>1 DEF Init
  <2>2. SaysUpTo(text, 1, buf, 1)
    <3>1. {<<1, 1>>} \in SUBSET Places /\ \A p \in {<<1, 1>>} : p = <<1, 1>>
      BY DEF Places
    <3> QED
      BY <3>1 DEF SaysUpTo
  <2> QED
    BY <2>1, <2>2 DEF SaysInv, Start, ResultIsWhatTheTextSays
<1>2. ASSUME DecodeInv, SaysInv, Next PROVE SaysInv'
  <2>1. CASE ReadSlash
    <3>1. /\ Decoding /\ outcome = "decoding" /\ ~slash /\ readVal = Backslash
          /\ slash' = TRUE /\ readPos' = readPos + 1
          /\ UNCHANGED <<text, buf, writePos, outcome>>
      BY <2>1 DEF ReadSlash, Decoding
    <3>2. readPos \in Nat \ {0} /\ text[readPos] = Backslash
      BY <1>2, <3>1, ByteAtHand
    <3>3. readPos' - 1 = readPos /\ readPos' > 1
      BY <3>1, <3>2
    <3>4. Start = readPos /\ Start' = readPos
      BY <3>1, <3>3 DEF Start
    <3> QED
      BY <1>2, <3>1, <3>2, <3>3, <3>4 DEF SaysInv, ResultIsWhatTheTextSays
  <2>2. CASE CopyByte
    <3>1. /\ Decoding /\ ~slash /\ readVal # Backslash /\ Write(<<readVal>>)
          /\ readPos' = readPos + 1 /\ UNCHANGED <<text, slash, outcome>>
      BY <2>2 DEF CopyByte
    <3>2. /\ readVal \in Byte /\ readVal = text[readPos] /\ readVal # 0
          /\ readPos \in Nat \ {0}
      BY <1>2, <3>1, ByteAtHand
    <3>3. Start = readPos /\ slash' = FALSE
      BY <1>2, <3>1 DEF Start, DecodeInv, TypeOK
    <3>4. \A a : a[writePos] = readVal => Says(text, readPos, 1, a, writePos, 1)
      BY <3>1, <3>2 DEF Says
    <3>5. 1 \in 1..6
      OBVIOUS
    <3> QED
      BY <1>2, <3>1, <3>2, <3>3, <3>4, <3>5, OneSaid
  <2>3. CASE Escape
    <3>1. /\ Decoding /\ slash /\ readVal \in DOMAIN escapes
          /\ Write(<<escapes[readVal]>>) /\ readPos' = readPos + 1 /\ slash' = FALSE
          /\ UNCHANGED <<text, outcome>>
      BY <2>3 DEF Escape
    <3>2. readVal = text[readPos] /\ readPos \in Nat \ {0}
      BY <1>2, <3>1, ByteAtHand
    <3> DEFINE i == readPos - 1
    <3>3. i + 1 = readPos /\ i + 2 = readPos + 1 /\ Start = i /\ text[i] = Backslash
      BY <1>2, <3>1, <3>2 DEF SaysInv, Start, Decoding
    <3> HIDE DEF i
    <3>4. <<readVal, escapes[readVal]>> \in Named
      BY <3>1 DEF escapes, Named
    <3>5. \A a : a[writePos] = escapes[readVal] => Says(text, i, 2, a, writePos, 1)
      BY <3>2, <3>3, <3>4 DEF Says
    <3>6. escapes[readVal] \in Byte /\ 2 \in 1..6
      BY <3>1, EscapedByte
    <3> QED
      BY <1>2, <3>1, <3>3, <3>5, <3>6, OneSaid
  <2>4. CASE OtherEscape
    <3>1. /\ Decoding /\ outcome = "decoding" /\ slash
          /\ readVal \notin DOMAIN escapes \cup {117} /\ slash' = FALSE
          /\ UNCHANGED <<text, buf, readPos, writePos, outcome>>
      BY <2>4 DEF OtherEscape, Decoding
    <3>2. /\ readVal = text[readPos] /\ readVal # 0 /\ readPos \in Nat \ {0}
          /\ readPos <= Len(text) /\ Len(text) \in Nat /\ writePos \in Nat \ {0}
      BY <1>2, <3>1, ByteAtHand
    <3> DEFINE i == readPos - 1
    <3>3. /\ i \in Nat \ {0} /\ i + 1 = readPos /\ i < Len(text) /\ Start = i
          /\ text[i] = Backslash
      BY <1>2, <3>1, <3>2 DEF SaysInv, Start
    <3> HIDE DEF i
    <3>4. \A x : <<readVal, x>> \notin Named
      BY <3>1 DEF escapes, Named
    <3>5. Says(text, i, 1, buf, writePos, 0)
      BY <3>1, <3>2, <3>3, <3>4 DEF Says
    <3>6. SaysUpTo(text, i + 1, buf, writePos + 0)
      <4>1. 1 \in 1..6 /\ 0 \in 0..3 /\ i + 1 <= Len(text) + 1
        BY <3>2, <3>3
      <4>2. SaysUpTo(text, i, buf, writePos)
        BY <1>2, <3>1, <3>3 DEF SaysInv
      <4> QED
        BY <3>2, <3>3, <3>5, <4>1, <4>2, WalkOn
    <3>7. Start' = i + 1 /\ writePos + 0 = writePos
      BY <3>1, <3>2, <3>3 DEF Start
    <3> QED
      BY <3>1, <3>6, <3>7 DEF SaysInv, ResultIsWhatTheTextSays
  <2>5. CASE parseUnicode
    BY <1>2, <2>5, UnicodeSaid
  <2>6. CASE BadUnicode
    BY <1>2, <2>6, BadSaid
  <2>7. CASE Finish
    BY <1>2, <2>7, FinishSaid
  <2> QED
    BY <1>2, <2>1, <2>2, <2>3, <2>4, <2>5, <2>6, <2>7 DEF Next
<1>3. SaysInv /\ UNCHANGED vars => SaysInv'
  BY DEF SaysInv, Start, ResultIsWhatTheTextSays, vars
<1> QED
  BY <1>1, <1>2, <1>3

\* For texts of every length: a decoded string is what its text says, from its
\* first byte to the end of the C string, code units in UTF-8; and a text is
\* refused only at a \u that is not followed by four digits (string_t,
\* parseUnicode, hex2int, writeValue).
THEOREM DecodedIsWhatTheTextSays == Spec => []ResultIsWhatTheTextSays
<1>1. SaysInv => ResultIsWhatTheTextSays
  BY DEF SaysInv
<1> QED
  BY <1>1, DecodeInvInductive, SaysInductive, PTL DEF Spec
=============================================================================
