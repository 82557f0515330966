----------------------------- MODULE JsonChars -----------------------------
(***************************************************************************)
(* The characters the parser tells apart, and its recognisers              *)
(* (src/parser.cxx, "Recognise ..." functions).  A character is a string;  *)
(* the ones TLA+ strings cannot spell comfortably have a name.  "other"    *)
(* stands for every printable character, or byte above 0x7F, that no       *)
(* recognise function singles out.                                         *)
(***************************************************************************)
EXTENDS Naturals, Sequences

Digits     == {"0", "1", "2", "3", "4", "5", "6", "7", "8", "9"}
UpperHex   == {"A", "B", "C", "D", "E", "F"}
LowerHex   == {"a", "b", "c", "d", "e", "f"}
LowerAlpha == LowerHex \cup
              {"g", "h", "i", "j", "k", "l", "m", "n", "o", "p", "q", "r", "s",
               "t", "u", "v", "w", "x", "y", "z"}
WhiteSpace == {"space", "tab", "newline", "return"}
Control    == {"tab", "newline", "return", "nul", "control"}
Char       == Digits \cup UpperHex \cup LowerAlpha \cup WhiteSpace \cup Control
              \cup {"{", "}", "[", "]", ",", ":", ".", "-", "+", "/",
                    "quote", "backslash", "other"}

isLowerAlpha(x)   == x \in LowerAlpha
isControl(x)      == x \in Control
\* Faulty variant: control characters pass.
isAllowedAlphaAny(x) == x \notin {"quote", "backslash"}
isAllowedAlpha(x) == x \notin {"quote", "backslash"} /\ ~isControl(x)
isNumber(x)       == x \in Digits
isExponent(x)     == x \in {"e", "E"}
isWhiteSpace(x)   == x \in WhiteSpace
isHex(x)          == x \in Digits \cup UpperHex \cup LowerHex
isOct(x)          == x \in Digits \ {"8", "9"}
isBin(x)          == x \in {"0", "1"}
isBasePrefix(x)   == x \in {"x", "b", "o"}

\* The characters JSONParser::string accepts after a backslash, "u" aside.
SimpleEscapes == {"quote", "backslash", "/", "b", "f", "n", "r", "t"}

\* The literals that literal(parser) turns into an atom.
Literals == { <<"t", "r", "u", "e">>, <<"f", "a", "l", "s", "e">>,
              <<"n", "u", "l", "l">> }
=============================================================================
