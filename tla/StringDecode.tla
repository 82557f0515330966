---------------------------- MODULE StringDecode ----------------------------
(***************************************************************************)
(* string_t(std::string &&) (src/jsonString.cxx): the escapes of a text    *)
(* are decoded in its own storage, behind the place the text is read from. *)
(* Bytes are numbers; positions count from 1.                              *)
(***************************************************************************)
EXTENDS Integers, Sequences

CONSTANTS Texts,   \* what the std::string given may hold
          outside  \* the byte found wherever the storage is not

Byte == 0..255

ASSUME StringAssumption == Texts \subseteq Seq(Byte) /\ outside \in Byte

VARIABLES text,      \* the bytes given
          buf,       \* the storage: those bytes and a NUL, then what is decoded
          readPos, writePos, slash,
          outcome    \* "decoding", "decoded" or "bad", the JSON_PARSER_BAD_JSON thrown

vars == <<text, buf, readPos, writePos, slash, outcome>>

Init ==
  /\ text \in Texts /\ buf = Append(text, 0)
  /\ readPos = 1 /\ writePos = 1 /\ slash = FALSE
  /\ outcome = "decoding"

At(k)   == IF k \in DOMAIN buf THEN buf[k] ELSE outside
readVal == At(readPos)

\* The loop goes on up to a NUL, the first one in the text or the one after it.
Decoding == outcome = "decoding" /\ readVal # 0

Backslash == 92

Write(bytes) ==
  /\ buf' = [k \in DOMAIN buf |-> IF k - writePos \in 0..Len(bytes) - 1
                                   THEN bytes[k - writePos + 1] ELSE buf[k]]
  /\ writePos' = writePos + Len(bytes)

ReadSlash ==
  /\ Decoding /\ ~slash /\ readVal = Backslash
  /\ slash' = TRUE /\ readPos' = readPos + 1
  /\ UNCHANGED <<text, buf, writePos, outcome>>

CopyByte ==
  /\ Decoding /\ ~slash /\ readVal # Backslash
  /\ Write(<<readVal>>) /\ readPos' = readPos + 1
  /\ UNCHANGED <<text, slash, outcome>>

-----------------------------------------------------------------------------
(* The byte after a backslash                                              *)

\* n r t b f become control characters, " \ / stand for themselves.
escapes == [c \in {110, 114, 116, 98, 102, 34, 92, 47} |->
              CASE c = 110 -> 10 [] c = 114 -> 13 [] c = 116 -> 9
                [] c = 98 -> 8 [] c = 102 -> 12 [] OTHER -> c]

Escape ==
  /\ Decoding /\ slash /\ readVal \in DOMAIN escapes
  /\ Write(<<escapes[readVal]>>) /\ readPos' = readPos + 1
  /\ slash' = FALSE
  /\ UNCHANGED <<text, outcome>>

\* Faulty variant: the byte is looked at again as what follows a backslash.
RetryOtherEscape ==
  /\ Decoding /\ slash /\ readVal \notin DOMAIN escapes \cup {117}
  /\ UNCHANGED <<text, buf, readPos, writePos, outcome, slash>>

\* No case of the switch: only the backslash is dropped.
OtherEscape ==
  /\ Decoding /\ slash /\ readVal \notin DOMAIN escapes \cup {117}
  /\ slash' = FALSE
  /\ UNCHANGED <<text, buf, readPos, writePos, outcome>>

\* Faulty variant: small letters are no digits.
toupperNot(c) == c

toupper(c) == IF c \in 97..122 THEN c - 32 ELSE c
IsHex(c)   == toupper(c) \in 48..57 \cup 65..70

\* Faulty variant: a small letter is worth 32 more than its capital.
hex2intSmall(c) == LET x == c - 48 IN IF x >= 10 THEN x - 7 ELSE x

hex2int(c) == LET x == toupper(c) - 48 IN IF x >= 10 THEN x - 7 ELSE x

\* A code unit beyond 7 bits as two bytes, beyond 11 as three.
LongForm(code) ==
  LET low == 128 + (code % 64)  rest == code \div 64
  IN  IF code <= 2047 THEN <<192 + rest, low>>
      ELSE <<224 + (rest \div 64), 128 + (rest % 64), low>>

\* Faulty variants: a NUL becomes a byte of its own; so does what needs 8 bits.
EncodePlainNul(code) == IF code <= 127 THEN <<code>> ELSE LongForm(code)
EncodeLatin(code) ==
  IF code \in 1..255 THEN <<code>> ELSE IF code = 0 THEN <<192, 128>> ELSE LongForm(code)

\* A NUL is written in the form of two bytes.
Encode(code) ==
  IF code = 0 THEN <<192, 128>>
  ELSE IF code <= 127 THEN <<code>> ELSE LongForm(code)

\* The digits are read up to the first that is none, on which hex2int throws.
Digits == \A i \in 1..4 : IsHex(At(readPos + i))
charVal == LET x(i) == hex2int(At(readPos + i))
           IN  x(1) * 4096 + x(2) * 256 + x(3) * 16 + x(4)

\* Faulty variant: the byte after the digits is taken for one of them.
parseUnicodeLong ==
  /\ Decoding /\ slash /\ readVal = 117 /\ Digits
  /\ Write(Encode(charVal)) /\ readPos' = readPos + 6
  /\ slash' = FALSE
  /\ UNCHANGED <<text, outcome>>

parseUnicode ==
  /\ Decoding /\ slash /\ readVal = 117 /\ Digits
  /\ Write(Encode(charVal)) /\ readPos' = readPos + 5
  /\ slash' = FALSE
  /\ UNCHANGED <<text, outcome>>

BadUnicode ==
  /\ Decoding /\ slash /\ readVal = 117 /\ ~Digits
  /\ outcome' = "bad"
  /\ UNCHANGED <<text, buf, readPos, writePos, slash>>

-----------------------------------------------------------------------------

\* The terminator is written and the storage cut to what was decoded.
Finish ==
  /\ outcome = "decoding" /\ readVal = 0
  /\ buf' = SubSeq(buf, 1, writePos - 1)
  /\ outcome' = "decoded"
  /\ UNCHANGED <<text, readPos, writePos, slash>>

Next == \/ ReadSlash \/ CopyByte \/ Escape \/ OtherEscape
        \/ parseUnicode \/ BadUnicode \/ Finish

Spec == Init /\ [][Next]_vars

\* A decode is one call of one thread: it goes on as long as it can.
FairSpec == Spec /\ WF_vars(Next)

-----------------------------------------------------------------------------
(* Properties                                                              *)

\* The state is well formed.
TypeOK ==
  /\ text \in Texts /\ buf \in Seq(Byte)
  /\ readPos \in Nat \ {0} /\ writePos \in Nat \ {0} /\ slash \in BOOLEAN
  /\ outcome \in {"decoding", "decoded", "bad"}

\* What is still to be read is as it was given, though each escape is written
\* over its own text, and no more is read or written than there is: no escape
\* grows, and one that is cut short ends at the NUL (parseUnicode, writeValue).
UnreadIsUntouched ==
  outcome = "decoding" =>
    /\ writePos <= readPos /\ readPos <= Len(text) + 1
    /\ Len(buf) = Len(text) + 1
    /\ \A k \in readPos..Len(buf) : buf[k] = Append(text, 0)[k]

\* A decoded string holds no NUL, so that len() is the length of the C string
\* as well: "this works specifically because we surrogate pair encode the NULL
\* byte" (JSONString::len).
NoNulInside == outcome = "decoded" => \A k \in DOMAIN buf : buf[k] # 0

\* An odd number of backslashes stands right before position i of t.
Escaped(t, i) ==
  \E j \in 0..i - 1 : /\ j = 0 \/ t[j] # Backslash
                      /\ \A k \in j + 1..i - 1 : t[k] = Backslash
                      /\ (i - 1 - j) % 2 = 1

\* What JSONParser::string lets through between its quotes.
Accepted(t) ==
  /\ \A i \in DOMAIN t : t[i] \notin 0..31 \cup {127} /\ (t[i] = 34 => Escaped(t, i))
  /\ \A i \in DOMAIN t : (t[i] = Backslash /\ ~Escaped(t, i)) =>
       /\ i < Len(t) /\ t[i + 1] \in {34, 92, 47, 98, 102, 110, 114, 116, 117}
       /\ t[i + 1] = 117 => \A k \in i + 2..i + 5 :
            k <= Len(t) /\ t[k] \in 48..57 \cup 65..70 \cup 97..102

\* A string that the parser accepted is decoded to its end without an error
\* and without an escape left unknown, so that parsing one never throws half
\* way (JSONParser::string and expression, string_t).
AcceptedStringsDecode ==
  Accepted(text) =>
    /\ outcome # "bad"
    /\ Decoding /\ slash => readVal \in DOMAIN escapes \cup {117}
    /\ outcome = "decoded" => readPos = Len(text) + 1

\* Every decode comes to an end, though one of the loop's ways consumes nothing.
DecodeEnds == <>(outcome # "decoding")
=============================================================================
