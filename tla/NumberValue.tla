---------------------------- MODULE NumberValue ----------------------------
(***************************************************************************)
(* The value that JSONParser::number and number(parser) (src/parser.cxx)   *)
(* give to the characters of a number, in words of Width bits: size_t and  *)
(* int64_t are as wide.  Overflow wraps, as it does in a size_t.           *)
(***************************************************************************)
EXTENDS JsonChars, Integers, SequencesExt

CONSTANT Width

ASSUME WidthAssumption == Width \in Nat /\ Width >= 4

Words == 2 ^ Width

\* A word read as an int64_t.
Signed(word) == IF word >= Words \div 2 THEN word - Words ELSE word

\* The characters of a number are taken from the front as long as they fit.
TakeWhile(s, P(_)) ==
  LET stops == {i \in DOMAIN s : ~P(s[i])}
  IN  IF stops = {} THEN s ELSE SubSeq(s, 1, Min(stops) - 1)
After(s, n) == SubSeq(s, n + 1, Len(s))
StartsWith(s, chars) == s # <<>> /\ s[1] \in chars

-----------------------------------------------------------------------------
(* JSONParser::number                                                      *)

HexDigits == <<"0", "1", "2", "3", "4", "5", "6", "7", "8", "9", "A", "B", "C", "D", "E", "F">>
SmallHex  == <<"a", "b", "c", "d", "e", "f">>

\* uint8_t(c - '0'), less 7 beyond the 9: the small letters come 32 later.
digit(c) == IF c \in LowerHex THEN 41 + (CHOOSE i \in DOMAIN SmallHex : SmallHex[i] = c)
            ELSE (CHOOSE i \in DOMAIN HexDigits : HexDigits[i] = c) - 1

Horner(digits, base) ==
  FoldLeft(LAMBDA num, c : (num * base + digit(c)) % Words, 0, digits)

Base(s) == IF ~(Len(s) > 1 /\ s[1] = "0") THEN 10
           ELSE CASE s[2] = "x" -> 16 [] s[2] = "o" -> 8 [] s[2] = "b" -> 2 [] OTHER -> 10

\* The characters of the natural number that s begins with.
NaturalText(s) ==
  CASE Base(s) = 16 -> SubSeq(s, 1, 2) \o TakeWhile(After(s, 2), isHex)
    [] Base(s) = 8  -> SubSeq(s, 1, 2) \o TakeWhile(After(s, 2), isOct)
    [] Base(s) = 2  -> SubSeq(s, 1, 2) \o TakeWhile(After(s, 2), isBin)
    [] OTHER -> IF s[1] = "0" THEN <<"0">> ELSE TakeWhile(s, isNumber)

naturalValue(s) == IF Base(s) = 10 THEN Horner(s, 10) ELSE Horner(After(s, 2), Base(s))

-----------------------------------------------------------------------------
(* number(parser)                                                          *)

\* Faulty variant: one factor too many.
power10Again(power) == FoldLeft(LAMBDA ret, i : (ret * 10) % Words, 1, [i \in 1..power + 1 |-> i])

power10(power) == FoldLeft(LAMBDA ret, i : (ret * 10) % Words, 1, [i \in 1..power |-> i])

\* The integer part, the decimals, which keep their number, and the exponent of an unsigned number.
Parts(s) ==
  LET integer == NaturalText(s)
      rest1   == After(s, Len(integer))
      decimal == IF StartsWith(rest1, {"."}) THEN TakeWhile(After(rest1, 1), isNumber) ELSE <<>>
      rest2   == IF StartsWith(rest1, {"."}) THEN After(rest1, Len(decimal) + 1) ELSE rest1
      minus   == Len(rest2) > 1 /\ rest2[2] = "-"
  IN  [integer |-> integer, decimal |-> decimal, mulSign |-> minus,
       multiplier |-> IF rest2 = <<>> THEN <<>>
                      ELSE NaturalText(After(rest2, IF rest2[2] \in {"-", "+"} THEN 2 ELSE 1))]

multiplier(parts) == IF parts.multiplier = <<>> THEN 0 ELSE naturalValue(parts.multiplier)

\* C++ division rounds towards zero.
Quotient(a, b) == LET size == (IF a < 0 THEN -a ELSE a) \div (IF b < 0 THEN -b ELSE b)
                  IN  IF (a < 0) = (b < 0) THEN size ELSE -size

\* integer /= mul or integer *= mul.
integerPart(parts) ==
  LET integer == Signed(naturalValue(parts.integer))
      mul == Signed(power10(multiplier(parts)))
  IN  IF parts.mulSign THEN Quotient(integer, mul) ELSE Signed((integer * mul) % Words)

\* The JSONInt that an integer's characters become.
IntValue(text) ==
  IF text[1] = "-" THEN Signed((-integerPart(Parts(After(text, 1)))) % Words)
                   ELSE integerPart(Parts(text))

decDigits(parts) == Len(parts.decimal)

\* The double that a number with decimals becomes, before it is rounded: a
\* numerator and a denominator.
FloatValue(text) ==
  LET parts   == Parts(IF text[1] = "-" THEN After(text, 1) ELSE text)
      integer == Signed(naturalValue(parts.integer))
      mul     == Signed(power10(multiplier(parts)))
      den     == power10(decDigits(parts))
      num     == Horner(parts.decimal, 10) + integer * den
      sign    == IF text[1] = "-" THEN -1 ELSE 1
  IN  IF parts.mulSign THEN <<sign * num, den * mul>> ELSE <<sign * num * mul, den>>
=============================================================================
