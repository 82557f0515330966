--------------------------- MODULE MCStringDecode ---------------------------
(***************************************************************************)
(* Instances of StringDecode for TLC: all short texts of the bytes that    *)
(* the decoder tells apart, and escapes of every form between them.        *)
(***************************************************************************)
EXTENDS StringDecode, SequencesExt

\* \  "  n  u  q  a  0  NUL
Alphabet == {92, 34, 110, 117, 113, 97, 48, 0}

\* The digits 0 7 8 F f, which make the first and the last unit of each form
\* and those around them, and g, which is none.
UnicodeDigits == {48, 55, 56, 70, 102}
Unicode       == {<<92, 117>> \o d : d \in [1..4 -> UnicodeDigits]}
BadEscapes    == {<<92, 117, 48, 55, 103, 70>>, <<92, 117, 48, 55, 55, 103>>, <<92, 117, 70, 70>>}

\* \b \r \t \/
Sample == <<92, 98, 92, 114, 92, 116, 92, 47>>

MCTexts == SeqOf(Alphabet, 4) \cup {Sample}
           \cup {b \o u \o e : b \in {<<>>, <<92, 110>>}, u \in Unicode \cup BadEscapes,
                         e \in {<<>>, <<48>>, <<92, 92>>, <<92, 117, 48, 48, 52, 49>>}}

\* The value of a hexadecimal digit.
DigitValue(c) ==
  IF c \in 48..57 THEN c - 48 ELSE IF c \in 65..70 THEN c - 55
  ELSE IF c \in 97..102 THEN c - 87 ELSE -1

Units4(t, i) == {DigitValue(t[i + k]) : k \in {j \in 1..4 : i + j <= Len(t)}}

\* The code units that a text names, from its i-th byte on: <<-1>> at an escape
\* that is none.
RECURSIVE Named(_, _)
Named(t, i) ==
  IF i > Len(t) \/ (i <= Len(t) /\ t[i] = 0) THEN <<>>
  ELSE IF t[i] # 92 THEN <<t[i]>> \o Named(t, i + 1)
  ELSE IF i = Len(t) \/ (i < Len(t) /\ t[i + 1] = 0) THEN <<>>
  ELSE LET c == t[i + 1]
           v(k) == DigitValue(t[i + 1 + k])
       IN  CASE c = 117 -> IF i + 5 > Len(t) \/ -1 \in Units4(t, i + 1) THEN <<-1>>
                           ELSE <<((v(1) * 16 + v(2)) * 16 + v(3)) * 16 + v(4)>> \o Named(t, i + 6)
             [] c = 98  -> <<8>> \o Named(t, i + 2)
             [] c = 102 -> <<12>> \o Named(t, i + 2)
             [] c = 110 -> <<10>> \o Named(t, i + 2)
             [] c = 114 -> <<13>> \o Named(t, i + 2)
             [] c = 116 -> <<9>> \o Named(t, i + 2)
             [] OTHER   -> <<c>> \o Named(t, i + 2)

\* The code units that bytes encode, each in its shortest form but for NUL.
RECURSIVE Units(_)
Units(b) ==
  IF b = <<>> THEN <<>>
  ELSE IF b[1] < 128 THEN <<b[1]>> \o Units(Tail(b))
  ELSE IF b[1] \in 192..223 /\ Len(b) > 1
  THEN LET u == (b[1] - 192) * 64 + (b[2] - 128)
       IN  (IF u \in {0} \cup 128..2047 THEN <<u>> ELSE <<-2>>) \o Units(SubSeq(b, 3, Len(b)))
  ELSE IF b[1] \in 224..239 /\ Len(b) > 2
  THEN LET u == (b[1] - 224) * 4096 + (b[2] - 128) * 64 + (b[3] - 128)
       IN  (IF u \in 2048..65535 THEN <<u>> ELSE <<-2>>) \o Units(SubSeq(b, 4, Len(b)))
  ELSE <<-2>>

\* A decoded string is the UTF-8 of the code units its text names, a NUL in
\* its form of two bytes; only a text with a bad \u escape is refused
\* (string_t(std::string &&), parseUnicode, hex2int).
ResultSaysWhatTheTextNames ==
  LET named == Named(text, 1)
  IN  /\ outcome = "decoded" => Units(buf) = named
      /\ outcome = "bad" => \E i \in DOMAIN named : named[i] = -1
=============================================================================
