--------------------------- MODULE GrammarProofs ---------------------------
(***************************************************************************)
(* What parseJSON accepts is derived by the rules of JsonRules.  The       *)
(* invariant GrammarInv: there is a derivation of every value read so far, *)
(* and each place of the parser says what stands between the last of them  *)
(* and the current character.  A step that leaves the containers alone     *)
(* keeps the derivation (Steady), a value that was read is a fact added to *)
(* it, and so is a container with its next item.                           *)
(***************************************************************************)
EXTENDS ParserProofs, JsonRules

-----------------------------------------------------------------------------
(* The invariant                                                           *)

\* Where the last character parsed stands: the next one, if there is one, is
\* in next.
Taken == IF kind = "file" /\ eof THEN pos ELSE pos - 1

Parsing == stack # <<>> /\ Head(stack) \notin {"construct", "readSync"}

\* A value may begin at k, or the key of a member, where o says of each open
\* container where it opens and where its last value ends.
Begins(o, k) ==
  /\ partial = <<>> => k = start + 1
  /\ partial # <<>> =>
       SlotAt(data, partial[1].type, partial[1].key, o[1].from, o[1].to, k)

KeyBegins(o, k) ==
  partial # <<>> /\ partial[1].type = "object" /\ NextAt(data, o[1].from, o[1].to, k)

Spans == [from : Nat, to : Nat]

ContainersOK(F, o) ==
  /\ o \in Seq(Spans) /\ Len(o) = Len(partial)
  /\ \A k \in 1..Len(partial) :
       /\ start < o[k].from /\ o[k].from <= o[k].to /\ o[k].to <= Taken
       /\ Begun(o[k].from, o[k].to, <<partial[k].type, partial[k].items>>) \in F
       /\ k = Len(partial) => o[k].from = start + 1
       /\ k < Len(partial) =>
            SlotAt(data, partial[k + 1].type, partial[k + 1].key,
                   o[k + 1].from, o[k + 1].to, o[k].from)

\* A bracket stands where a value must: the parser will say so.
Lost == next \in {"}", "]"}

\* The value in atom goes from k to j.
ReadValue(F, o, k, j) == Begins(o, k) /\ Whole(k, j, atom) \in F

AtExpression(o) ==
  (Begins(o, Taken + 1) \/ Lost) /\ (Head(stack) = "skip" => partial # <<>>)

AtLoop(o) ==
  /\ partial # <<>>
  /\ ~lastWasComma => White(data, o[1].to + 1, Taken)
  /\ NextAt(data, o[1].from, o[1].to, Taken + 1) \/ Lost

AfterValue(F, o) ==
  \E k, j \in start + 1..Taken : ReadValue(F, o, k, j) /\ White(data, j + 1, Taken)

\* The value in atom goes from k to j, and what may follow it in its container
\* was read.
ItemAt(F, o, k, j) ==
  /\ ReadValue(F, o, k, j)
  /\ lastWasComma => Between(data, j, ",", Taken + 1)
  /\ ~lastWasComma => White(data, j + 1, Taken) /\ Lost

AtAdd(F, o) == \E k, j \in start + 1..Taken : ItemAt(F, o, k, j)

\* A string that is a key, or a value.
TextBegins(o, q) ==
  /\ stack[2] = "objKey" => KeyBegins(o, q)
  /\ stack[2] # "objKey" => Begins(o, q)

HexPart(q, u) == /\ BodyAt(data, q + 1, u - 1) /\ data[u - 1] = "backslash" /\ data[u] = "u"
                 /\ Run(data, u + 1, Taken, Hex)

StringPlaces == {"chars", "escape", "hex4", "hex3", "hex2", "hex1"}

\* A string was read from its quote at q on.
InString(o) ==
  \E q \in start + 1..Taken :
    /\ TextBegins(o, q) /\ data[q] = "quote" /\ text = SubSeq(data, q + 1, Taken)
    /\ Place = "chars"  => BodyAt(data, q + 1, Taken + 1)
    /\ Place = "escape" => BodyAt(data, q + 1, Taken) /\ data[Taken] = "backslash"
    /\ Place = "hex4"   => HexPart(q, Taken)
    /\ Place = "hex3"   => HexPart(q, Taken - 1)
    /\ Place = "hex2"   => HexPart(q, Taken - 2)
    /\ Place = "hex1"   => HexPart(q, Taken - 3)

ReadString(o) ==
  \E q, r \in start + 1..Taken :
    /\ Place = "objKey" => KeyBegins(o, q)
    /\ Place # "objKey" => Begins(o, q)
    /\ StringAt(data, q, r) /\ text = Inside(data, q, r) /\ White(data, r + 1, Taken)

\* An integer is due at m in the number that begins at q: the first part of
\* it, or its exponent.
DueAt(q, m) ==
  /\ stack[2] = "fraction" => SignAt(data, q, m)
  /\ stack[2] # "fraction" => \E c \in q..m : MantissaAt(data, q, c) /\ MarkAt(data, c + 1, m)

InDigits(q) ==
  \E m \in q..Taken + 1 :
    /\ DueAt(q, m) /\ Run(data, m, Taken, Digits)
    /\ m <= Taken => data[m] # "0"
    /\ m > Taken  => isNumber(next) /\ next # "0"

InBase(q, prefix, S) ==
  \E m \in q..Taken - 1 :
    DueAt(q, m) /\ data[m] = "0" /\ data[m + 1] = prefix /\ Run(data, m + 2, Taken, S)

\* A point at b + 1 follows the first part of a number.
PointAt(q, b) ==
  \E a \in q..b : SignAt(data, q, a) /\ IntegerAt(data, a, b) /\ data[b + 1] = "."

NumberPlaces == {"natural", "zero", "digits10", "digits16", "digits8", "digits2", "decimal",
                 "fraction", "exponent", "expSign", "numEnd"}

NumberPart(q) ==
  /\ Place = "natural"  => DueAt(q, Taken + 1)
  /\ Place = "zero"     => DueAt(q, Taken) /\ data[Taken] = "0"
  /\ Place = "digits16" => InBase(q, "x", Hex)
  /\ Place = "digits8"  => InBase(q, "o", Oct)
  /\ Place = "digits2"  => InBase(q, "b", Bin)
  /\ Place = "digits10" /\ stack[2] # "exponent" => InDigits(q)
  /\ Place = "digits10" /\ stack[2] = "exponent" =>
       \E b \in q..Taken - 1 : /\ PointAt(q, b) /\ Run(data, b + 2, Taken, Digits)
                               /\ b + 2 <= Taken \/ isNumber(next)
  /\ Place = "decimal"  => PointAt(q, Taken - 1)
  /\ Place = "fraction" => \E a \in q..Taken : SignAt(data, q, a) /\ IntegerAt(data, a, Taken)
  /\ Place = "exponent" => MantissaAt(data, q, Taken)
  /\ Place = "expSign"  => MantissaAt(data, q, Taken - 1) /\ isExponent(data[Taken])
  /\ Place = "numEnd"   => NumberAt(data, q, Taken)

InNumber(o) ==
  \E q \in start + 1..Taken + 1 : Begins(o, q) /\ text = SubSeq(data, q, Taken) /\ NumberPart(q)

ReadNumber(o) ==
  \E q, r \in start + 1..Taken : /\ Begins(o, q) /\ NumberAt(data, q, r)
                                 /\ text = SubSeq(data, q, r) /\ White(data, r + 1, Taken)

InLiteral(o) ==
  \E q \in start + 1..Taken + 1 : Begins(o, q) /\ text = SubSeq(data, q, Taken)
                                  /\ (q > Taken => isLowerAlpha(next))

ReadLiteral(o) ==
  \E q, r \in start + 1..Taken : /\ Begins(o, q) /\ text = SubSeq(data, q, r)
                                 /\ White(data, r + 1, Taken)

Here(F, o) ==
  /\ Place = "parseJSON"            => partial = <<>> /\ Taken = start
  /\ Place = "expr"                 => AtExpression(o)
  /\ Place \in Loops                => AtLoop(o)
  /\ Place \in {"exprEnd", "rootEnd"} => AfterValue(F, o)
  /\ Place \in {"objAdd", "arrAdd"} => AtAdd(F, o)
  /\ Place = "str"                  => TextBegins(o, Taken + 1) \/ Lost
  /\ Place \in StringPlaces         => InString(o)
  /\ Place \in {"strDone", "objKey"}  => ReadString(o)
  /\ Place \in NumberPlaces         => InNumber(o)
  /\ Place = "numDone"              => ReadNumber(o)
  /\ Place = "lit"                  => text = <<>> /\ (Begins(o, Taken + 1) \/ Lost)
  /\ Place = "letters"              => InLiteral(o)
  /\ Place = "litDone"              => ReadLiteral(o)

RootOK == data[start + 1] \in {"{", "["}

\* While a call parses, and as it begins and ends.
PartOK(F, o) ==
  /\ start <= Taken /\ (Place # "parseJSON" => RootOK)
  /\ Derivation(data, F) /\ ContainersOK(F, o) /\ Here(F, o)

\* What was parsed begins with a document, atom is its tree, and nothing but
\* white space was read behind it, one character aside; readSync() reads the
\* rest of a socket's line.
TreeIsDerived ==
  RootOK /\ \E j \in start + 1..Taken : /\ Derived(data, start + 1, j, atom)
                                        /\ kind # "rpc" => White(data, j + 1, pos - 1)

GrammarInv ==
  /\ CommaInv /\ FramesInv
  /\ At("construct") => partial = <<>> /\ pos = start /\ ~(kind = "file" /\ eof)
  /\ (~Returned /\ ~At("readSync")) => result = "none"
  /\ Parsing => \E F, o : PartOK(F, o)
  /\ (~Parsing /\ result = "tree") => TreeIsDerived

-----------------------------------------------------------------------------
(***************************************************************************)
(* Lemmas about the rules: how what was read becomes longer.               *)
(***************************************************************************)

LEMMA RunMore ==
  ASSUME NEW S, NEW t, NEW i \in Int, NEW j \in Int
  PROVE  /\ i > j => Run(t, i, j, S)
         /\ Run(t, i, j, S) /\ t[j + 1] \in S => Run(t, i, j + 1, S)
BY SMT DEF Run

LEMMA WhiteMore ==
  ASSUME NEW t, NEW i \in Int, NEW j \in Int
  PROVE  /\ i > j => White(t, i, j)
         /\ White(t, i, j) /\ isWhiteSpace(t[j + 1]) => White(t, i, j + 1)
BY SMT DEF White, Run, isWhiteSpace

LEMMA BetweenMore ==
  ASSUME NEW t, NEW i \in Int, NEW c, NEW j \in Int
  PROVE  /\ White(t, i + 1, j - 1) /\ i < j /\ t[j] = c => Between(t, i, c, j + 1)
         /\ Between(t, i, c, j) /\ isWhiteSpace(t[j]) => Between(t, i, c, j + 1)
<1>1. ASSUME White(t, i + 1, j - 1), i < j, t[j] = c PROVE Between(t, i, c, j + 1)
  <2>1. j \in i + 1..(j + 1) - 1 /\ White(t, j + 1, (j + 1) - 1)
    BY <1>1, SMT DEF White, Run
  <2> QED
    BY <1>1, <2>1 DEF Between
<1>2. ASSUME Between(t, i, c, j), isWhiteSpace(t[j]) PROVE Between(t, i, c, j + 1)
  <2>1. PICK m \in i + 1..j - 1 : t[m] = c /\ White(t, i + 1, m - 1) /\ White(t, m + 1, j - 1)
    BY <1>2 DEF Between
  <2>2. m \in i + 1..(j + 1) - 1 /\ White(t, m + 1, (j + 1) - 1)
    BY <1>2, <2>1, SMT DEF White, Run, isWhiteSpace
  <2> QED
    BY <2>1, <2>2 DEF Between
<1> QED
  BY <1>1, <1>2

LEMMA NextMore ==
  ASSUME NEW t, NEW i \in Int, NEW p \in Int, NEW k \in Int
  PROVE  /\ NextAt(t, i, i, i + 1)
         /\ NextAt(t, i, p, k) /\ isWhiteSpace(t[k]) => NextAt(t, i, p, k + 1)
<1>1. NextAt(t, i, i, i + 1)
  BY SMT DEF NextAt, White, Run
<1>2. ASSUME NextAt(t, i, p, k), isWhiteSpace(t[k]) PROVE NextAt(t, i, p, k + 1)
  <2>0. p < k
    BY <1>2 DEF NextAt
  <2>1. p < k + 1 /\ (k + 1) - 1 = (k - 1) + 1 /\ (k - 1) + 1 = k
    BY <2>0
  <2>2. CASE p = i
    <3>1. White(t, i + 1, (k - 1) + 1)
      BY <1>2, <2>1, <2>2, WhiteMore DEF NextAt
    <3> QED
      BY <2>1, <2>2, <3>1 DEF NextAt
  <2>3. CASE p # i
    BY <1>2, <2>1, <2>3, BetweenMore DEF NextAt
  <2> QED
    BY <2>2, <2>3
<1> QED
  BY <1>1, <1>2

LEMMA NextAfterComma ==
  ASSUME NEW t, NEW i \in Int, NEW p \in Int, NEW k \in Int
  PROVE  p # i /\ Between(t, p, ",", k) => NextAt(t, i, p, k)
<1>1. ASSUME p # i, Between(t, p, ",", k) PROVE NextAt(t, i, p, k)
  <2>1. PICK m \in p + 1..k - 1 : TRUE
    BY <1>1 DEF Between
  <2>2. p < k
    BY <2>1
  <2> QED
    BY <1>1, <2>2 DEF NextAt
<1> QED
  BY <1>1

LEMMA SlotMore ==
  ASSUME NEW t, NEW type, NEW key, NEW i \in Int, NEW p \in Int, NEW k \in Int
  PROVE  /\ SlotAt(t, type, key, i, p, k) => p < k
         /\ SlotAt(t, type, key, i, p, k) /\ isWhiteSpace(t[k]) => SlotAt(t, type, key, i, p, k + 1)
<1>1. ASSUME SlotAt(t, type, key, i, p, k) PROVE p < k
  <2>1. CASE NextAt(t, i, p, k)
    BY <2>1 DEF NextAt
  <2>2. CASE \E q, r \in p + 1..k - 1 : StringAt(t, q, r)
    <3>1. PICK q \in p + 1..k - 1 : TRUE
      BY <2>2
    <3> QED
      BY <3>1
  <2> QED
    BY <1>1, <2>1, <2>2 DEF SlotAt
<1>2. ASSUME SlotAt(t, type, key, i, p, k), isWhiteSpace(t[k])
      PROVE  SlotAt(t, type, key, i, p, k + 1)
  <2>1. CASE type = "array" /\ NextAt(t, i, p, k)
    BY <1>2, <2>1, NextMore DEF SlotAt
  <2>2. CASE /\ type = "object"
             /\ \E q, r \in p + 1..k - 1 : /\ NextAt(t, i, p, q) /\ StringAt(t, q, r)
                                           /\ key = Inside(t, q, r) /\ Between(t, r, ":", k)
    <3>1. PICK q, r \in p + 1..k - 1 : /\ NextAt(t, i, p, q) /\ StringAt(t, q, r)
                                       /\ key = Inside(t, q, r) /\ Between(t, r, ":", k)
      BY <2>2
    <3>2. q \in p + 1..(k + 1) - 1 /\ r \in p + 1..(k + 1) - 1
      BY <3>1, SMT
    <3>3. Between(t, r, ":", k + 1)
      BY <1>2, <3>1, BetweenMore
    <3> QED
      BY <2>2, <3>1, <3>2, <3>3 DEF SlotAt
  <2> QED
    BY <1>2, <2>1, <2>2 DEF SlotAt
<1> QED
  BY <1>1, <1>2

\* A string gets longer by a character or an escape.
LEMMA BodyMore ==
  ASSUME NEW t, NEW i \in Int, NEW j \in Int, NEW m \in Int
  PROVE  /\ BodyAt(t, i, i)
         /\ BodyAt(t, i, j) /\ PieceAt(t, j, m) => BodyAt(t, i, m)
<1>1. BodyAt(t, i, i)
  <2>1. {i} \in SUBSET (i..i) /\ i \in {i} /\ \A k \in {i} \ {i} : \E n \in {i} : PieceAt(t, k, n)
    OBVIOUS
  <2> QED
    BY <2>1 DEF BodyAt
<1>2. ASSUME BodyAt(t, i, j), PieceAt(t, j, m) PROVE BodyAt(t, i, m)
  <2>1. PICK S \in SUBSET (i..j) :
          i \in S /\ j \in S /\ \A k \in S \ {j} : \E n \in S : PieceAt(t, k, n)
    BY <1>2 DEF BodyAt
  <2>2. j < m
    BY <1>2, SMT DEF PieceAt
  <2>3. S \cup {m} \in SUBSET (i..m)
    BY <2>1, <2>2, SMT
  <2>4. ASSUME NEW k \in (S \cup {m}) \ {m} PROVE \E n \in S \cup {m} : PieceAt(t, k, n)
    BY <1>2, <2>1
  <2>5. i \in S \cup {m} /\ m \in S \cup {m}
    BY <2>1
  <2> QED
    BY <2>3, <2>4, <2>5 DEF BodyAt
<1> QED
  BY <1>1, <1>2

\* A lexeme gets longer by a character.
LEMMA TextMore ==
  ASSUME NEW t \in Seq(Char), NEW q \in Nat \ {0}, NEW j \in Nat, q <= j + 1
  PROVE  /\ q = j + 1 => SubSeq(t, q, j) = <<>>
         /\ j + 1 <= Len(t) => Append(SubSeq(t, q, j), t[j + 1]) = SubSeq(t, q, j + 1)
<1>0. Len(t) \in Nat /\ q \in Int /\ j \in Int
  BY LenProperties
<1>1. ASSUME q = j + 1 PROVE SubSeq(t, q, j) = <<>>
  <2>1. j < q
    BY <1>0, <1>1
  <2> QED
    BY <1>0, <2>1, SubSeqEmpty
<1>2. ASSUME j + 1 <= Len(t) PROVE Append(SubSeq(t, q, j), t[j + 1]) = SubSeq(t, q, j + 1)
  <2>1. /\ q \in 1..Len(t) /\ j + 1 \in q..Len(t) /\ (j + 1) - 1 = j
        /\ \A i \in q..j : i \in 1..Len(t)
        /\ j + 1 \in 1..Len(t)
    BY <1>0, <1>2
  <2>2. SubSeq(t, q, j + 1) = SubSeq(t, q, (j + 1) - 1) \o <<t[j + 1]>>
    BY <2>1, SubSeqRecursiveSecond
  <2>3. \A i \in 1..Len(t) : t[i] \in Char
    BY ElementOfSeq
  <2>4. SubSeq(t, q, j) \in Seq(Char)
    BY <1>0, <2>1, <2>3, SubSeqProperties
  <2>5. Append(SubSeq(t, q, j), t[j + 1]) = SubSeq(t, q, j) \o <<t[j + 1]>>
    BY <2>1, <2>3, <2>4, AppendIsConcat
  <2> QED
    BY <2>1, <2>2, <2>5
<1> QED
  BY <1>1, <1>2

\* More facts do not take a rule's grounds away.
LEMMA FactsMore ==
  ASSUME NEW t, NEW F, Derivation(t, F), NEW f, ByRule(t, F, f)
  PROVE  Derivation(t, F \cup {f})
<1> DEFINE G == F \cup {f}
<1>1. \A i, j, tree : Closes(t, F, i, j, tree) => Closes(t, G, i, j, tree)
  BY DEF Closes
<1>2. \A i, j, tree : Extends(t, F, i, j, tree) => Extends(t, G, i, j, tree)
  <2> SUFFICES ASSUME NEW i, NEW j, NEW tree, Extends(t, F, i, j, tree)
               PROVE  Extends(t, G, i, j, tree)
    OBVIOUS
  <2>1. PICK h, g \in F, q, r \in i..j :
          LET type == h[4][1]
              key  == Inside(t, q, r)
          IN  /\ h = Begun(i, h[3], h[4]) /\ g = Whole(g[2], j, g[4])
              /\ SlotAt(t, type, key, i, h[3], g[2])
              /\ tree = <<type, Extended(type, h[4][2], key, g[4])>>
    BY DEF Extends
  <2>2. h \in G /\ g \in G
    OBVIOUS
  <2> HIDE DEF G
  <2> QED
    BY <2>1, <2>2 DEF Extends
<1>3. \A g : ByRule(t, F, g) => ByRule(t, G, g)
  <2> HIDE DEF G
  <2> QED
    BY <1>1, <1>2 DEF ByRule
<1> QED
  BY <1>3 DEF Derivation

(***************************************************************************)
(* Lemmas about the place and what is there.                               *)
(***************************************************************************)

LEMMA HereIs ==
  ASSUME NEW F, NEW o
  PROVE  /\ Place' = "expr" /\ AtExpression(o)' => Here(F, o)'
         /\ Place' \in Loops /\ AtLoop(o)' => Here(F, o)'
         /\ Place' \in {"exprEnd", "rootEnd"} /\ AfterValue(F, o)' => Here(F, o)'
         /\ Place' \in {"objAdd", "arrAdd"} /\ AtAdd(F, o)' => Here(F, o)'
         /\ Place' = "str" /\ (TextBegins(o, Taken + 1) \/ Lost)' => Here(F, o)'
         /\ Place' \in StringPlaces /\ InString(o)' => Here(F, o)'
         /\ Place' \in {"strDone", "objKey"} /\ ReadString(o)' => Here(F, o)'
         /\ Place' \in NumberPlaces /\ InNumber(o)' => Here(F, o)'
         /\ Place' = "numDone" /\ ReadNumber(o)' => Here(F, o)'
         /\ Place' = "lit" /\ text' = <<>> /\ (Begins(o, Taken + 1) \/ Lost)' => Here(F, o)'
         /\ Place' = "letters" /\ InLiteral(o)' => Here(F, o)'
         /\ Place' = "litDone" /\ ReadLiteral(o)' => Here(F, o)'
BY DEF Here, Loops, StringPlaces, NumberPlaces

LEMMA SameSlots ==
  ASSUME UNCHANGED <<data, start, partial>>, NEW o, NEW k
  PROVE  (Begins(o, k)' <=> Begins(o, k)) /\ (KeyBegins(o, k)' <=> KeyBegins(o, k))
BY DEF Begins, KeyBegins

\* White space moves the place of what is to begin.
LEMMA SlotsMove ==
  ASSUME NEW F, NEW o, ContainersOK(F, o), start \in Nat, Len(partial) \in Nat,
         partial # <<>> => Len(partial) > 0, NEW k \in Int, isWhiteSpace(data[k])
  PROVE  /\ partial # <<>> /\ Begins(o, k) => Begins(o, k + 1)
         /\ KeyBegins(o, k) => KeyBegins(o, k + 1)
<1>1. ASSUME partial # <<>> PROVE o[1].from \in Int /\ o[1].to \in Int
  <2>1. o \in Seq(Spans) /\ 1 \in 1..Len(o)
    BY <1>1 DEF ContainersOK
  <2>2. o[1] \in Spans
    BY <2>1, ElementOfSeq
  <2> QED
    BY <2>2 DEF Spans
<1>2. ASSUME partial # <<>>, Begins(o, k) PROVE Begins(o, k + 1)
  BY <1>1, <1>2, SlotMore DEF Begins
<1>3. ASSUME KeyBegins(o, k) PROVE KeyBegins(o, k + 1)
  <2>1. NextAt(data, o[1].from, o[1].to, k + 1)
    BY <1>1, <1>3, NextMore DEF KeyBegins
  <2> QED
    BY <1>3, <2>1 DEF KeyBegins
<1> QED
  BY <1>2, <1>3

(***************************************************************************)
(* The cursor.                                                             *)
(***************************************************************************)

LEMMA Cursor ==
  ASSUME CommaInv, Parsing, start <= Taken
  PROVE  /\ data \in Seq(Char) /\ Len(data) \in Nat /\ start \in Nat /\ pos \in Nat
         /\ Taken \in Nat /\ Taken <= pos /\ pos <= Len(data) /\ next \in Char
         /\ stack \in Seq(Labels) /\ StackOK /\ stack # <<>>
<1>1. /\ data \in Seq(Char) /\ Len(data) \in Nat /\ start \in Nat /\ pos \in Nat
      /\ pos <= Len(data) /\ next \in Char /\ stack \in Seq(Labels) /\ StackOK /\ stack # <<>>
  BY LenProperties DEF CommaInv, MessageInv, TypeOK, Parsing
<1>2. Taken \in Nat /\ Taken <= pos
  BY <1>1 DEF Taken
<1> QED
  BY <1>1, <1>2

\* A character is passed, or none is.
Passed == /\ Taken' = Taken + 1 /\ next = data[Taken + 1] /\ Taken + 1 <= Len(data)
          /\ data' = data

LEMMA Passes ==
  ASSUME CommaInv, Parsing, start <= Taken, nextChar, ~AtEOF
  PROVE  Passed
<1>1. /\ pos \in 0..Len(data) /\ Len(data) \in Nat /\ start \in 0..pos
      /\ kind \in {"cstr", "view", "file", "rpc"}
  BY LenProperties DEF CommaInv, MessageInv, TypeOK, StreamKinds
<1>2. pos > start /\ next = data[pos]
  BY DEF CommaInv, NextIsCurrent, Reading, Parsing
<1>3. Taken + 1 = pos
  BY <1>1 DEF Taken, AtEOF
<1>4. Taken' = pos
  <2>0. eof' = (kind = "file" /\ pos = Len(data))
    BY DEF nextChar, ReadMoves
  <2>1. kind' = kind /\ data' = data /\ pos' = IF pos < Len(data) THEN pos + 1 ELSE pos
    BY DEF nextChar, ReadMoves
  <2>2. CASE kind = "file" /\ pos = Len(data)
    <3>0. eof'
      BY <2>0, <2>2
    <3>1. eof' /\ kind' = "file" /\ pos' = pos
      BY <1>1, <2>1, <2>2, <3>0
    <3> QED
      BY <3>1 DEF Taken
  <2>3. CASE kind = "file" /\ pos # Len(data)
    <3>0. ~eof'
      BY <2>0, <2>3
    <3>1. ~eof' /\ pos' = pos + 1
      BY <1>1, <2>1, <2>3, <3>0
    <3>2. Taken' = pos' - 1
      BY <3>1 DEF Taken
    <3> QED
      BY <1>1, <3>1, <3>2
  <2>4. CASE kind # "file"
    <3>1. pos < Len(data)
      <4>1. CASE kind \in {"cstr", "view"}
        BY <1>1, <4>1 DEF AtEOF
      <4>2. CASE kind = "rpc"
        <5>1. ~Returned /\ lastRead # "newline"
          BY <4>2 DEF AtEOF, Returned, Parsing
        <5>2. NoNewline(start + 1, pos) /\ data[Len(data)] = "newline"
          BY <4>2, <5>1 DEF CommaInv, MessageInv, MessageOK, DataComplete
        <5>3. pos \in start + 1..pos
          BY <1>1, <1>2
        <5>4. data[pos] # "newline"
          BY <5>2, <5>3 DEF NoNewline
        <5> QED
          BY <1>1, <5>2, <5>4
      <4> QED
        BY <1>1, <2>4, <4>1, <4>2
    <3>2. Taken' = pos
      <4>1. kind' # "file" /\ pos' = pos + 1
        BY <2>1, <2>4, <3>1
      <4>2. Taken' = pos' - 1
        BY <4>1 DEF Taken
      <4> QED
        BY <1>1, <4>1, <4>2
    <3> QED
      BY <3>2
  <2> QED
    BY <2>2, <2>3, <2>4
<1> QED
  BY <1>1, <1>2, <1>3, <1>4 DEF nextChar, ReadMoves, Passed

LEMMA Stays ==
  ASSUME UNCHANGED streamVars
  PROVE  Taken' = Taken /\ data' = data
BY DEF streamVars, Taken

LEMMA KeepContainers ==
  ASSUME NEW F, NEW o, ContainersOK(F, o), UNCHANGED <<data, start, partial>>,
         Taken \in Nat, Taken' \in Nat, Taken <= Taken', Len(partial) \in Nat
  PROVE  ContainersOK(F, o)'
<1>1. ASSUME NEW k \in 1..Len(partial) PROVE o[k].to <= Taken'
  <2>1. o[k] \in Spans /\ o[k].to <= Taken
    BY ElementOfSeq DEF ContainersOK
  <2> QED
    BY <2>1 DEF Spans
<1> QED
  BY <1>1 DEF ContainersOK

LEMMA Basics ==
  ASSUME CommaInv, FramesInv, Parsing, NEW F, NEW o, PartOK(F, o)
  PROVE  /\ data \in Seq(Char) /\ Len(data) \in Nat /\ start \in Nat /\ next \in Char
         /\ Taken \in Nat /\ Taken <= Len(data) /\ start <= Taken
         /\ stack \in Seq(Labels) /\ StackOK /\ stack # <<>> /\ Head(stack) \in Labels
         /\ partial \in Seq(Container) /\ Len(partial) \in Nat /\ (partial # <<>> => Len(partial) > 0)
         /\ ContainersOK(F, o) /\ Here(F, o) /\ Derivation(data, F)
<1>1. start <= Taken /\ ContainersOK(F, o) /\ Here(F, o) /\ Derivation(data, F)
  BY DEF PartOK
<1>2. /\ data \in Seq(Char) /\ Len(data) \in Nat /\ start \in Nat /\ next \in Char
      /\ Taken \in Nat /\ Taken <= pos /\ pos <= Len(data) /\ pos \in Nat
      /\ stack \in Seq(Labels) /\ StackOK /\ stack # <<>>
  BY <1>1, Cursor
<1>3. Taken <= Len(data)
  BY <1>2
<1>4. Head(stack) \in Labels
  BY <1>2, HeadTailProperties
<1>5. partial \in Seq(Container)
  BY DEF FramesInv
<1>6. Len(partial) \in Nat /\ (partial # <<>> => Len(partial) > 0)
  BY <1>5, LenProperties, EmptySeq
<1> QED
  BY <1>1, <1>2, <1>3, <1>4, <1>5, <1>6

\* Where a step leads that replaces the label at the head.
LEMMA GotoLabel ==
  ASSUME stack \in Seq(Labels), StackOK, stack # <<>>, Head(stack) \notin Roots
  PROVE  /\ \A l \in Labels \ {"skip"} :
              Goto(<<l>>) /\ Below(Head(stack)) \subseteq Below(l) =>
                stack' # <<>> /\ Head(stack') = l /\ Place' = l /\ stack'[2] = stack[2]
         /\ Goto(<<"skip">>) /\ Below(Head(stack)) \subseteq Below("skip") =>
              stack' # <<>> /\ Head(stack') = "skip" /\ Place' = stack[2]
         /\ UNCHANGED stack => stack' # <<>> /\ Head(stack') = Head(stack) /\ Place' = Place
                               /\ stack'[2] = stack[2]
<1>1. ASSUME NEW l \in Labels \ {"skip"}, Goto(<<l>>), Below(Head(stack)) \subseteq Below(l)
      PROVE  stack' # <<>> /\ Head(stack') = l /\ Place' = l /\ stack'[2] = stack[2]
  BY <1>1, GotoOne DEF Place
<1>2. ASSUME Goto(<<"skip">>), Below(Head(stack)) \subseteq Below("skip")
      PROVE  stack' # <<>> /\ Head(stack') = "skip" /\ Place' = stack[2]
  BY <1>2, PlaceAfter
<1>3. ASSUME UNCHANGED stack
      PROVE  stack' # <<>> /\ Head(stack') = Head(stack) /\ Place' = Place /\ stack'[2] = stack[2]
  BY <1>3 DEF Place
<1> QED
  BY <1>1, <1>2, <1>3

\* A step that leaves the containers alone.
Steady(F, o) == Here(F, o)' /\ (Passed \/ UNCHANGED streamVars) /\ UNCHANGED <<start, partial>>

LEMMA SteadyIsOK ==
  ASSUME CommaInv, FramesInv, Parsing, NEW F, NEW o, PartOK(F, o), Place # "parseJSON",
         Steady(F, o)
  PROVE  PartOK(F, o)'
<1>0. /\ start \in Nat /\ Taken \in Nat /\ start <= Taken /\ Len(partial) \in Nat
      /\ ContainersOK(F, o) /\ Derivation(data, F)
  BY Basics
<1>1. data' = data /\ Taken' \in Nat /\ Taken <= Taken' /\ start' = start /\ partial' = partial
  BY <1>0, Stays DEF Steady, Passed
<1>2. start' <= Taken'
  BY <1>0, <1>1
<1>3. ContainersOK(F, o)'
  BY <1>0, <1>1, KeepContainers
<1>4. RootOK'
  BY <1>1 DEF PartOK, RootOK
<1>5. Derivation(data, F)'
  BY <1>0, <1>1
<1> QED
  BY <1>2, <1>3, <1>4, <1>5 DEF PartOK, Steady

\* The lexeme queued gets longer with what was read.
LEMMA LexemeMore ==
  ASSUME data \in Seq(Char), Taken \in Nat, Passed, NEW q \in Nat \ {0}, q <= Taken + 1,
         text = SubSeq(data, q, Taken), text' = Append(text, next)
  PROVE  text' = SubSeq(data', q, Taken')
BY TextMore DEF Passed

(***************************************************************************)
(* Strings                                                                 *)
(***************************************************************************)

LEMMA BeginStringOK ==
  ASSUME CommaInv, FramesInv, Parsing, NEW F, NEW o, PartOK(F, o), BeginString
  PROVE  Steady(F, o)
<1>0. /\ data \in Seq(Char) /\ Len(data) \in Nat /\ start \in Nat
      /\ Taken \in Nat /\ Taken <= Len(data) /\ start <= Taken
      /\ stack \in Seq(Labels) /\ StackOK /\ stack # <<>>
      /\ Here(F, o)
  BY Basics
<1>1. /\ Head(stack) = "str" /\ ~AtEOF /\ next = "quote" /\ nextChar /\ Goto(<<"chars">>)
      /\ text' = <<>> /\ UNCHANGED <<start, partial>>
  BY DEF BeginString, On, At, match, callVars
<1>2. Passed
  BY <1>0, <1>1, Passes
<1>3. Place' = "chars" /\ stack'[2] = stack[2]
  BY <1>0, <1>1, GotoLabel, BelowValues, PlaceSets DEF Roots, Checked
<1>4. PICK q \in Nat : q = Taken + 1
  BY <1>0
<1>5. TextBegins(o, q)
  BY <1>0, <1>1, <1>4 DEF Here, Place, Lost
<1>6. TextBegins(o, q)'
  BY <1>1, <1>2, <1>3, <1>5, SameSlots DEF TextBegins, Passed
<1>7. /\ q = Taken' /\ q \in start' + 1..Taken' /\ data'[q] = "quote"
      /\ Taken' \in Nat /\ q \in Nat \ {0} /\ q + 1 \in Nat \ {0} /\ q + 1 = Taken' + 1
      /\ q + 1 \in Int
  BY <1>0, <1>1, <1>2, <1>4 DEF Passed
<1>8. SubSeq(data', q + 1, Taken') = <<>>
  BY <1>0, <1>2, <1>7, TextMore DEF Passed
<1>9. BodyAt(data', q + 1, Taken' + 1)
  BY <1>7, BodyMore
<1>10. InString(o)'
  BY <1>1, <1>3, <1>6, <1>7, <1>8, <1>9 DEF InString
<1> QED
  BY <1>1, <1>2, <1>3, <1>10, HereIs DEF StringPlaces, Steady

\* A character of a string is passed and queued.
LEMMA StringStays ==
  ASSUME CommaInv, FramesInv, Parsing, NEW F, NEW o, PartOK(F, o), Head(stack) \in StringPlaces,
         ~AtEOF, PushNext, NEW q \in start + 1..Taken, TextBegins(o, q), data[q] = "quote",
         text = SubSeq(data, q + 1, Taken), stack'[2] = stack[2]
  PROVE  /\ Passed /\ UNCHANGED <<start, partial>> /\ q \in Nat /\ Taken \in Nat /\ q <= Taken
         /\ q \in start' + 1..Taken' /\ TextBegins(o, q)' /\ data'[q] = "quote"
         /\ text' = SubSeq(data', q + 1, Taken')
<1>0. data \in Seq(Char) /\ start \in Nat /\ Taken \in Nat /\ start <= Taken
  BY Basics
<1>1. nextChar /\ text' = Append(text, next) /\ UNCHANGED <<start, partial>>
  BY DEF PushNext, Push, callVars
<1>2. Passed
  BY <1>0, <1>1, Passes
<1>3. /\ q \in Nat /\ q <= Taken /\ q + 1 \in Nat \ {0} /\ q + 1 <= Taken + 1
      /\ Taken' = Taken + 1 /\ data' = data /\ q \in start + 1..Taken + 1
  BY <1>0, <1>2 DEF Passed
<1>4. text' = SubSeq(data', q + 1, Taken')
  BY <1>0, <1>1, <1>2, <1>3, LexemeMore
<1>5. TextBegins(o, q)'
  BY <1>1, <1>3, SameSlots DEF TextBegins
<1> QED
  BY <1>0, <1>1, <1>2, <1>3, <1>4, <1>5

LEMMA StringCharOK ==
  ASSUME CommaInv, FramesInv, Parsing, NEW F, NEW o, PartOK(F, o), StringChar
  PROVE  Steady(F, o) \/ Throw("BAD_JSON")
<1>0. /\ data \in Seq(Char) /\ Len(data) \in Nat /\ start \in Nat
      /\ Taken \in Nat /\ Taken <= Len(data) /\ start <= Taken
      /\ stack \in Seq(Labels) /\ StackOK /\ stack # <<>> /\ Here(F, o)
  BY Basics
<1>1. Head(stack) = "chars" /\ Place = "chars" /\ ~AtEOF /\ Head(stack) \notin Roots
      /\ "escape" \in Labels
  BY PlaceSets DEF StringChar, On, At, Place, Roots, Checked
<1>2. PICK q \in start + 1..Taken :
        /\ TextBegins(o, q) /\ data[q] = "quote" /\ text = SubSeq(data, q + 1, Taken)
        /\ BodyAt(data, q + 1, Taken + 1)
  BY <1>0, <1>1 DEF Here, InString, StringPlaces
<1>3. Below("chars") = {"strDone", "objKey"} /\ Below("escape") = {"strDone", "objKey"}
      /\ stack[2] \in {"strDone", "objKey"} /\ Below("chars") \subseteq Below("skip")
  BY <1>0, <1>1, BelowValues, UnderHead
<1>4. CASE isAllowedAlpha(next) /\ PushNext /\ UNCHANGED stack
  <2>1. Place' = "chars" /\ stack'[2] = stack[2]
    BY <1>0, <1>1, <1>4, GotoLabel
  <2>2. /\ Passed /\ UNCHANGED <<start, partial>> /\ q \in Nat /\ q <= Taken
        /\ q \in start' + 1..Taken' /\ TextBegins(o, q)' /\ data'[q] = "quote"
        /\ text' = SubSeq(data', q + 1, Taken')
    BY <1>1, <1>2, <1>4, <2>1, StringStays DEF StringPlaces
  <2>3. /\ q + 1 \in Int /\ Taken + 1 \in Int /\ (Taken + 1) + 1 \in Int
        /\ data' = data /\ Taken' = Taken + 1 /\ next = data[Taken + 1]
    BY <1>0, <2>2 DEF Passed
  <2>4. PieceAt(data, Taken + 1, (Taken + 1) + 1)
    BY <1>4, <2>3 DEF PieceAt
  <2>5. BodyAt(data', q + 1, Taken' + 1)
    BY <1>2, <2>3, <2>4, BodyMore
  <2>6. InString(o)'
    BY <2>1, <2>2, <2>5 DEF InString
  <2> QED
    BY <2>1, <2>2, <2>6, HereIs DEF StringPlaces, Steady
<1>5. CASE next = "backslash" /\ PushNext /\ Goto(<<"escape">>)
  <2>1. Place' = "escape" /\ stack'[2] = stack[2]
    BY <1>0, <1>1, <1>3, <1>5, GotoLabel
  <2>2. /\ Passed /\ UNCHANGED <<start, partial>> /\ q \in Nat /\ q <= Taken
        /\ q \in start' + 1..Taken' /\ TextBegins(o, q)' /\ data'[q] = "quote"
        /\ text' = SubSeq(data', q + 1, Taken')
    BY <1>1, <1>2, <1>5, <2>1, StringStays DEF StringPlaces
  <2>3. data' = data /\ Taken' = Taken + 1 /\ next = data[Taken + 1]
    BY <2>2 DEF Passed
  <2>5. BodyAt(data', q + 1, Taken') /\ data'[Taken'] = "backslash"
    BY <1>2, <1>5, <2>3
  <2>6. InString(o)'
    BY <2>1, <2>2, <2>5 DEF InString
  <2> QED
    BY <2>1, <2>2, <2>6, HereIs DEF StringPlaces, Steady
<1>6. CASE next = "quote" /\ match /\ Goto(<<"skip">>) /\ UNCHANGED <<treeVars, callVars>>
  <2>1. Place' = stack[2] /\ nextChar /\ UNCHANGED <<start, partial, text>>
    BY <1>0, <1>1, <1>3, <1>6, GotoLabel DEF match, treeVars, callVars
  <2>2. Passed
    BY <1>0, <1>1, <2>1, Passes
  <2>3. PICK r \in Nat : r = Taken + 1
    BY <1>0
  <2>4. /\ q \in Nat /\ q < r /\ q \in start' + 1..Taken' /\ r \in start' + 1..Taken'
        /\ Taken' = r /\ data' = data /\ next = data[r] /\ r - 1 = Taken /\ r + 1 > r
        /\ r \in Int /\ r + 1 \in Int
    BY <1>0, <2>1, <2>2, <2>3 DEF Passed
  <2>5. StringAt(data', q, r) /\ text' = Inside(data', q, r)
    BY <1>2, <1>6, <2>1, <2>3, <2>4 DEF StringAt, Inside
  <2>6. White(data', r + 1, Taken')
    BY <2>4, WhiteMore
  <2>7. /\ Place' = "objKey" => KeyBegins(o, q)'
        /\ Place' # "objKey" => Begins(o, q)'
    BY <1>2, <2>1, <2>4, SameSlots DEF TextBegins
  <2>8. ReadString(o)'
    BY <2>4, <2>5, <2>6, <2>7 DEF ReadString
  <2> QED
    BY <1>3, <2>1, <2>2, <2>8, HereIs DEF Steady
<1> QED
  BY <1>4, <1>5, <1>6 DEF StringChar

LEMMA EscapeOK ==
  ASSUME CommaInv, FramesInv, Parsing, NEW F, NEW o, PartOK(F, o), Escape
  PROVE  Steady(F, o) \/ Throw("BAD_JSON")
<1>0. /\ start \in Nat /\ Taken \in Nat /\ start <= Taken
      /\ stack \in Seq(Labels) /\ StackOK /\ stack # <<>> /\ Here(F, o)
  BY Basics
<1>1. Head(stack) = "escape" /\ Place = "escape" /\ ~AtEOF /\ Head(stack) \notin Roots
      /\ {"chars", "hex4"} \subseteq Labels
  BY PlaceSets DEF Escape, On, At, Place, Roots, Checked
<1>2. PICK q \in start + 1..Taken :
        /\ TextBegins(o, q) /\ data[q] = "quote" /\ text = SubSeq(data, q + 1, Taken)
        /\ BodyAt(data, q + 1, Taken) /\ data[Taken] = "backslash"
  BY <1>0, <1>1 DEF Here, InString, StringPlaces
<1>3. /\ Below("escape") \subseteq Below("chars") /\ Below("escape") \subseteq Below("hex4")
  BY BelowValues
<1>4. CASE next \in SimpleEscapes /\ PushNext /\ Goto(<<"chars">>)
  <2>1. Place' = "chars" /\ stack'[2] = stack[2]
    BY <1>0, <1>1, <1>3, <1>4, GotoLabel
  <2>2. /\ Passed /\ UNCHANGED <<start, partial>> /\ q \in Nat /\ q <= Taken
        /\ q \in start' + 1..Taken' /\ TextBegins(o, q)' /\ data'[q] = "quote"
        /\ text' = SubSeq(data', q + 1, Taken')
    BY <1>1, <1>2, <1>4, <2>1, StringStays DEF StringPlaces
  <2>3. /\ q + 1 \in Int /\ Taken \in Int /\ Taken' + 1 = Taken + 2 /\ Taken + 2 \in Int
        /\ data' = data /\ next = data[Taken + 1]
    BY <1>0, <2>2 DEF Passed
  <2>4. PieceAt(data, Taken, Taken + 2)
    BY <1>2, <1>4, <2>3 DEF PieceAt
  <2>5. BodyAt(data', q + 1, Taken' + 1)
    BY <1>2, <2>3, <2>4, BodyMore
  <2>6. InString(o)'
    BY <2>1, <2>2, <2>5 DEF InString
  <2> QED
    BY <2>1, <2>2, <2>6, HereIs DEF StringPlaces, Steady
<1>5. CASE next = "u" /\ PushNext /\ Goto(<<"hex4">>)
  <2>1. Place' = "hex4" /\ stack'[2] = stack[2]
    BY <1>0, <1>1, <1>3, <1>5, GotoLabel
  <2>2. /\ Passed /\ UNCHANGED <<start, partial>> /\ q \in Nat /\ q <= Taken
        /\ q \in start' + 1..Taken' /\ TextBegins(o, q)' /\ data'[q] = "quote"
        /\ text' = SubSeq(data', q + 1, Taken')
    BY <1>1, <1>2, <1>5, <2>1, StringStays DEF StringPlaces
  <2>3. /\ data' = data /\ next = data'[Taken'] /\ Taken' - 1 = Taken
        /\ Taken' + 1 > Taken' /\ Taken' \in Int /\ Taken' + 1 \in Int
    BY <1>0, <2>2 DEF Passed
  <2>4. Run(data', Taken' + 1, Taken', Hex)
    BY <2>3, RunMore
  <2>5. HexPart(q, Taken)'
    BY <1>2, <1>5, <2>3, <2>4 DEF HexPart
  <2>6. InString(o)'
    BY <2>1, <2>2, <2>5 DEF InString
  <2> QED
    BY <2>1, <2>2, <2>6, HereIs DEF StringPlaces, Steady
<1> QED
  BY <1>4, <1>5 DEF Escape

LEMMA HexMore ==
  ASSUME Passed, Taken \in Nat, isHex(next), next \in Char, NEW q, NEW u \in Int, HexPart(q, u)
  PROVE  HexPart(q, u)'
<1>1. /\ data' = data /\ Taken' = Taken + 1 /\ Taken \in Int /\ u + 1 \in Int
      /\ data[Taken + 1] \in Hex
  BY DEF Passed, Hex
<1>2. Run(data, u + 1, Taken + 1, Hex)
  BY <1>1, RunMore DEF HexPart
<1> QED
  BY <1>1, <1>2 DEF HexPart

\* The digits after the "u" at Taken - n.
LEMMA HexDigitOK ==
  ASSUME CommaInv, FramesInv, Parsing, NEW F, NEW o, PartOK(F, o), NEW here, NEW there,
         <<here, there>> \in {<<"hex4", "hex3">>, <<"hex3", "hex2">>, <<"hex2", "hex1">>,
                              <<"hex1", "chars">>},
         HexDigit(here, there)
  PROVE  Steady(F, o) \/ Throw("BAD_JSON")
<1>0. /\ start \in Nat /\ Taken \in Nat /\ start <= Taken /\ next \in Char
      /\ stack \in Seq(Labels) /\ StackOK /\ stack # <<>> /\ Here(F, o)
  BY Basics
<1>h. /\ here \in {"hex4", "hex3", "hex2", "hex1"}
      /\ there \in {"hex3", "hex2", "hex1", "chars"}
      /\ here = "hex4" => there = "hex3"
      /\ here = "hex3" => there = "hex2"
      /\ here = "hex2" => there = "hex1"
      /\ here = "hex1" => there = "chars"
  OBVIOUS
<1>1. Head(stack) = here /\ Place = here /\ ~AtEOF /\ Head(stack) \notin Roots
      /\ there \in Labels /\ there # "skip" /\ here \in StringPlaces /\ there \in StringPlaces
  BY <1>h, PlaceSets DEF HexDigit, On, At, Place, Roots, Checked, StringPlaces
<1>2. PICK q \in start + 1..Taken :
        /\ TextBegins(o, q) /\ data[q] = "quote" /\ text = SubSeq(data, q + 1, Taken)
        /\ here = "hex4"   => HexPart(q, Taken)
        /\ here = "hex3"   => HexPart(q, Taken - 1)
        /\ here = "hex2"   => HexPart(q, Taken - 2)
        /\ here = "hex1"   => HexPart(q, Taken - 3)
  BY <1>0, <1>1 DEF Here, InString
<1>3. Below(here) \subseteq Below(there)
  BY <1>h, BelowValues
<1>4. CASE isHex(next) /\ PushNext /\ Goto(<<there>>)
  <2>1. Place' = there /\ stack'[2] = stack[2]
    BY <1>0, <1>1, <1>3, <1>4, GotoLabel
  <2>2. /\ Passed /\ UNCHANGED <<start, partial>> /\ q \in Nat /\ q <= Taken
        /\ q \in start' + 1..Taken' /\ TextBegins(o, q)' /\ data'[q] = "quote"
        /\ text' = SubSeq(data', q + 1, Taken')
    BY <1>1, <1>2, <1>4, <2>1, StringStays
  <2>3. PICK u \in Int : /\ here = "hex4" => u = Taken
                         /\ here = "hex3" => u = Taken - 1
                         /\ here = "hex2" => u = Taken - 2
                         /\ here = "hex1" => u = Taken - 3
    <3>1. CASE here = "hex4"
      BY <1>0, <3>1
    <3>2. CASE here = "hex3"
      <4>1. Taken - 1 \in Int
        BY <1>0
      <4> QED
        BY <3>2, <4>1
    <3>3. CASE here = "hex2"
      <4>1. Taken - 2 \in Int
        BY <1>0
      <4> QED
        BY <3>3, <4>1
    <3>4. CASE here = "hex1"
      <4>1. Taken - 3 \in Int
        BY <1>0
      <4> QED
        BY <3>4, <4>1
    <3> QED
      BY <1>h, <3>1, <3>2, <3>3, <3>4
  <2>4. HexPart(q, u)'
    <3>1. HexPart(q, u)
      BY <1>h, <1>2, <2>3
    <3> QED
      BY <1>0, <1>4, <2>2, <3>1, HexMore
  <2>5. data' = data /\ Taken' = Taken + 1 /\ Taken' \in Int
    BY <1>0, <2>2 DEF Passed
  <2>6. /\ there = "hex3" => HexPart(q, Taken - 1)'
        /\ there = "hex2" => HexPart(q, Taken - 2)'
        /\ there = "hex1" => HexPart(q, Taken - 3)'
    <3>1. there = "hex3" => u = Taken' - 1
      BY <1>0, <1>h, <2>3, <2>5
    <3>2. there = "hex2" => u = Taken' - 2
      BY <1>0, <1>h, <2>3, <2>5
    <3>3. there = "hex1" => u = Taken' - 3
      BY <1>0, <1>h, <2>3, <2>5
    <3> QED
      BY <2>4, <3>1, <3>2, <3>3 DEF HexPart
  <2>7. ASSUME there = "chars" PROVE BodyAt(data', q + 1, Taken' + 1)
    <3>1. u = Taken - 3
      BY <1>h, <2>3, <2>7
    <3>2. /\ (u - 1) + 6 = Taken' + 1 /\ (u - 1) + 1 = u /\ (u - 1) + 2 = u + 1
          /\ (u - 1) + 5 = Taken' /\ u - 1 \in Int /\ Taken' + 1 \in Int /\ q + 1 \in Int
      BY <1>0, <2>2, <2>5, <3>1
    <3>3. PieceAt(data', u - 1, Taken' + 1)
      BY <2>4, <3>2 DEF HexPart, PieceAt
    <3>4. BodyAt(data', q + 1, u - 1)
      BY <2>4 DEF HexPart
    <3> QED
      BY <3>2, <3>3, <3>4, BodyMore
  <2>8. InString(o)'
    BY <1>h, <2>1, <2>2, <2>6, <2>7 DEF InString
  <2> QED
    BY <1>1, <2>1, <2>2, <2>8, HereIs DEF Steady
<1> QED
  BY <1>4 DEF HexDigit

LEMMA StringStepsOK ==
  ASSUME CommaInv, FramesInv, Parsing, NEW F, NEW o, PartOK(F, o),
         BeginString \/ NotAString \/ StringChar \/ Escape \/ validateUnicodeSequence
  PROVE  PartOK(F, o)' \/ Throw("BAD_JSON")
<1>1. Place # "parseJSON"
  <2>1. Head(stack) \notin {"skip", "parseJSON"}
    BY DEF BeginString, NotAString, StringChar, Escape, validateUnicodeSequence, HexDigit, On, At
  <2> QED
    BY <2>1 DEF Place
<1>2. Steady(F, o) \/ Throw("BAD_JSON")
  BY BeginStringOK, StringCharOK, EscapeOK, HexDigitOK DEF NotAString, validateUnicodeSequence
<1> QED
  BY <1>1, <1>2, SteadyIsOK

(***************************************************************************)
(* A value was read                                                        *)
(***************************************************************************)

LEMMA FactAdded ==
  ASSUME NEW F, NEW o, ContainersOK(F, o)', Derivation(data, F), data' = data,
         NEW f, ByRule(data, F, f)
  PROVE  ContainersOK(F \cup {f}, o)' /\ Derivation(data, F \cup {f})'
<1>1. Derivation(data, F \cup {f})
  BY FactsMore
<1> DEFINE G == F \cup {f}
<1>2. \A k : Begun(o[k].from, o[k].to, <<partial[k].type, partial[k].items>>)' \in F
             => Begun(o[k].from, o[k].to, <<partial[k].type, partial[k].items>>)' \in G
  OBVIOUS
<1> HIDE DEF G
<1>3. ContainersOK(G, o)'
  BY <1>2 DEF ContainersOK
<1> QED
  BY <1>1, <1>3 DEF G

\* Where a scalar was read, it is a fact.
LEMMA ScalarDone ==
  ASSUME CommaInv, FramesInv, Parsing, NEW F, NEW o, PartOK(F, o),
         Head(stack) \in {"strDone", "numDone", "litDone"}, Return,
         UNCHANGED <<streamVars, start, partial>>,
         NEW q \in start + 1..Taken, NEW r \in start + 1..Taken, q <= r, Begins(o, q),
         White(data, r + 1, Taken), ScalarAt(data, q, r, atom')
  PROVE  \E G, tree : tree = atom' /\ Whole(q, r, tree) \in G /\ PartOK(G, o)'
<1>0. /\ start \in Nat /\ Taken \in Nat /\ start <= Taken /\ Taken <= Len(data) /\ Len(data) \in Nat
      /\ stack \in Seq(Labels) /\ StackOK /\ stack # <<>> /\ Derivation(data, F)
      /\ ContainersOK(F, o) /\ Len(partial) \in Nat
  BY Basics
<1>1. Taken' = Taken /\ data' = data /\ start' = start /\ partial' = partial
  BY Stays
<1>2. ContainersOK(F, o)'
  <2>1. Taken' \in Nat /\ Taken <= Taken' /\ UNCHANGED <<data, start, partial>>
    BY <1>0, <1>1
  <2> QED
    BY <1>0, <2>1, KeepContainers
<1>a. PICK tree : tree = atom'
  OBVIOUS
<1>f. PICK f : f = Whole(q, r, atom')
  OBVIOUS
<1>3. ByRule(data, F, f)
  <2>1. q \in 1..Len(data) /\ r \in 1..Len(data)
    BY <1>0
  <2>2. f[4] = atom' /\ f = Whole(q, r, f[4])
    BY <1>f DEF Whole
  <2> QED
    BY <2>1, <2>2 DEF ByRule
<1>4. Place' \in {"exprEnd", "rootEnd"}
  <2>1. Head(stack) \notin Roots /\ Below(Head(stack)) = {"exprEnd", "rootEnd"}
    BY BelowValues DEF Roots
  <2>2. stack[2] \in {"exprEnd", "rootEnd"} /\ Head(stack') = stack[2]
    BY <1>0, <2>1, UnderHead, ReturnPlace
  <2> QED
    BY <2>2 DEF Place
<1>g. PICK G : G = F \cup {f}
  OBVIOUS
<1>5. ContainersOK(G, o)' /\ Derivation(data, G)'
  BY <1>0, <1>1, <1>2, <1>3, <1>g, FactAdded
<1>6. Begins(o, q)'
  BY <1>1, SameSlots
<1>7. AfterValue(G, o)'
  BY <1>1, <1>6, <1>f, <1>g DEF AfterValue, ReadValue, Whole
<1>8. (start <= Taken)' /\ RootOK'
  <2>1. Place # "parseJSON"
    BY DEF Place
  <2> QED
    BY <1>0, <1>1, <2>1 DEF PartOK, RootOK
<1>9. Here(G, o)'
  BY <1>4, <1>7, HereIs
<1>10. PartOK(G, o)'
  BY <1>5, <1>8, <1>9 DEF PartOK
<1> QED
  BY <1>10, <1>a, <1>f, <1>g

LEMMA DoneOK ==
  ASSUME CommaInv, FramesInv, Parsing, NEW F, NEW o, PartOK(F, o),
         StringDone \/ NumberDone \/ LiteralDone
  PROVE  (\E G : PartOK(G, o)') \/ Throw("BAD_JSON")
<1>0. /\ start \in Nat /\ Taken \in Nat /\ start <= Taken /\ data \in Seq(Char) /\ Here(F, o)
  BY Basics
<1>1. CASE StringDone
  <2>1. /\ Head(stack) = "strDone" /\ Place = "strDone" /\ Return /\ atom' = <<"string", text>>
        /\ UNCHANGED <<streamVars, start, partial>>
    BY <1>1 DEF StringDone, At, Place, callVars
  <2>2. PICK q, r \in start + 1..Taken :
          /\ Begins(o, q) /\ StringAt(data, q, r) /\ text = Inside(data, q, r)
          /\ White(data, r + 1, Taken)
    BY <1>0, <2>1 DEF Here, ReadString
  <2>3. q <= r
    <3>1. q < r
      BY <2>2 DEF StringAt
    <3> QED
      BY <1>0, <3>1
  <2>4. ScalarAt(data, q, r, atom')
    BY <2>1, <2>2 DEF ScalarAt
  <2> QED
    BY <2>1, <2>2, <2>3, <2>4, ScalarDone
<1>2. CASE NumberDone
  <2>1. /\ Head(stack) = "numDone" /\ Place = "numDone" /\ Return
        /\ atom' = <<NumberSort(text), text>>
        /\ UNCHANGED <<streamVars, start, partial>>
    BY <1>2 DEF NumberDone, At, Place, callVars, NumberSort
  <2>2. PICK q, r \in start + 1..Taken : /\ Begins(o, q) /\ NumberAt(data, q, r)
                                         /\ text = SubSeq(data, q, r) /\ White(data, r + 1, Taken)
    BY <1>0, <2>1 DEF Here, ReadNumber
  <2>3. q <= r
    <3>1. \E n \in q..r : TRUE
      BY <2>2 DEF NumberAt, MantissaAt
    <3> QED
      BY <1>0, <3>1
  <2>4. ScalarAt(data, q, r, atom')
    BY <2>1, <2>2 DEF ScalarAt
  <2> QED
    BY <2>1, <2>2, <2>3, <2>4, ScalarDone
<1>3. CASE LiteralDone /\ text \in Literals
  <2>1. /\ Head(stack) = "litDone" /\ Place = "litDone" /\ Return
        /\ atom' = <<"literal", text>>
        /\ UNCHANGED <<streamVars, start, partial>> \/ Throw("BAD_JSON")
    BY <1>3 DEF LiteralDone, At, Place, callVars
  <2>2. PICK q, r \in start + 1..Taken :
          Begins(o, q) /\ text = SubSeq(data, q, r) /\ White(data, r + 1, Taken)
    BY <1>0, <2>1 DEF Here, ReadLiteral
  <2>3. q <= r
    <3>1. SUFFICES ASSUME r < q PROVE FALSE
      BY <1>0
    <3>2. text = <<>>
      BY <1>0, <2>2, <3>1, SubSeqEmpty
    <3> QED
      BY <1>3, <3>2, SMT DEF Literals
  <2>4. ScalarAt(data, q, r, atom')
    BY <1>3, <2>1, <2>2 DEF ScalarAt
  <2> QED
    BY <2>1, <2>2, <2>3, <2>4, ScalarDone
<1>4. CASE LiteralDone /\ text \notin Literals
  BY <1>4 DEF LiteralDone
<1> QED
  BY <1>1, <1>2, <1>3, <1>4

(***************************************************************************)
(* Numbers                                                                 *)
(***************************************************************************)

\* The number that begins at q goes on after a step that queues the character
\* it passes, or passes none.
NumberMoves == (nextChar /\ ~AtEOF /\ Push) \/ UNCHANGED <<streamVars, text>>

LEMMA NumberSteady ==
  ASSUME CommaInv, FramesInv, Parsing, NEW F, NEW o, PartOK(F, o), NumberMoves,
         UNCHANGED <<start, partial>>, NEW q \in start + 1..Taken + 1, Begins(o, q),
         text = SubSeq(data, q, Taken)
  PROVE  /\ Passed \/ (Taken' = Taken /\ data' = data /\ UNCHANGED streamVars)
         /\ Place' \in NumberPlaces /\ NumberPart(q)' => Steady(F, o)
<1>0. data \in Seq(Char) /\ start \in Nat /\ Taken \in Nat /\ start <= Taken
  BY Basics
<1>1. Passed \/ (Taken' = Taken /\ data' = data /\ UNCHANGED streamVars)
  BY <1>0, Passes, Stays DEF NumberMoves
<1>2. Taken' \in Nat /\ Taken <= Taken' /\ data' = data
  BY <1>0, <1>1 DEF Passed
<1>s. start' = start
  OBVIOUS
<1>3. q \in Nat \ {0} /\ q <= Taken + 1 /\ q \in start' + 1..Taken' + 1
  <2>1. q \in Nat \ {0} /\ q <= Taken + 1
    BY <1>0
  <2>2. q \in start + 1..Taken' + 1
    <3>1. Taken' = Taken \/ Taken' = Taken + 1
      BY <1>1 DEF Passed
    <3>2. start + 1 <= q /\ q <= Taken + 1 /\ q \in Int
      BY <1>0
    <3> QED
      BY <1>0, <3>1, <3>2
  <2> QED
    BY <1>s, <2>1, <2>2
<1>4. text' = SubSeq(data', q, Taken')
  <2>1. CASE UNCHANGED <<streamVars, text>>
    BY <2>1, Stays
  <2>2. CASE nextChar /\ ~AtEOF /\ Push
    <3>1. Passed
      BY <1>0, <2>2, Passes
    <3> QED
      BY <1>0, <1>3, <2>2, <3>1, LexemeMore DEF Push
  <2> QED
    BY <2>1, <2>2 DEF NumberMoves
<1>5. Begins(o, q)'
  BY <1>2, SameSlots
<1>6. ASSUME Place' \in NumberPlaces, NumberPart(q)' PROVE Steady(F, o)
  <2>1. InNumber(o)'
    BY <1>3, <1>4, <1>5, <1>6 DEF InNumber
  <2> QED
    BY <1>1, <1>6, <2>1, HereIs DEF Steady
<1> QED
  BY <1>1, <1>6

\* A part of a number lies from its begin on.
LEMMA DueFollows ==
  ASSUME NEW q \in Int, NEW m \in Int
  PROVE  /\ DueAt(q, m) => q <= m
         /\ MantissaAt(data, q, m) => q <= m
         /\ PointAt(q, m) => q <= m
<1>1. ASSUME DueAt(q, m) PROVE q <= m
  <2>1. CASE SignAt(data, q, m)
    BY <2>1 DEF SignAt
  <2>2. CASE \E c \in q..m : TRUE
    BY <2>2
  <2> QED
    BY <1>1, <2>1, <2>2 DEF DueAt
<1>2. ASSUME MantissaAt(data, q, m) PROVE q <= m
  <2>1. \E c \in q..m : TRUE
    BY <1>2 DEF MantissaAt
  <2> QED
    BY <2>1
<1>3. ASSUME PointAt(q, m) PROVE q <= m
  <2>1. \E c \in q..m : TRUE
    BY <1>3 DEF PointAt
  <2> QED
    BY <2>1
<1> QED
  BY <1>1, <1>2, <1>3

\* An integer that was due was read: number() returns.
LEMMA IntegerRead ==
  ASSUME CommaInv, FramesInv, Parsing, NEW F, NEW o, PartOK(F, o), Jump(<<>>),
         Head(stack) \notin Roots, stack[2] \in {"fraction", "numEnd"},
         NEW q \in start + 1..Taken + 1, NEW m \in q..Taken, Begins(o, q),
         text = SubSeq(data, q, Taken), DueAt(q, m), IntegerAt(data, m, Taken)
  PROVE  Steady(F, o)
<1>0. /\ start \in Nat /\ Taken \in Nat /\ start <= Taken
      /\ stack \in Seq(Labels) /\ StackOK /\ stack # <<>>
  BY Basics
<1>1. NumberMoves /\ UNCHANGED <<streamVars, start, partial>> /\ Goto(<<>>)
  BY DEF Jump, Peek, treeVars, callVars, NumberMoves
<1>2. Taken' = Taken /\ data' = data
  BY <1>1, Stays
<1>3. Place' = stack[2] /\ Place' \in NumberPlaces
  <2>1. Head(stack') = stack[2]
    BY <1>0, <1>1, PlaceAfter
  <2> QED
    BY <2>1 DEF Place, NumberPlaces
<1>4. stack[2] = "fraction" => \E a \in q..Taken : SignAt(data, q, a) /\ IntegerAt(data, a, Taken)
  BY DEF DueAt
<1>5. ASSUME stack[2] # "fraction" PROVE NumberAt(data, q, Taken)
  <2>1. PICK c \in q..m : MantissaAt(data, q, c) /\ MarkAt(data, c + 1, m)
    BY <1>5 DEF DueAt
  <2>2. c \in q..Taken /\ m \in q..Taken
    BY <1>0
  <2> QED
    BY <2>1, <2>2 DEF NumberAt
<1>6. NumberPart(q)'
  BY <1>2, <1>3, <1>4, <1>5 DEF NumberPart
<1> QED
  BY <1>1, <1>3, <1>6, NumberSteady

LEMMA NaturalOK ==
  ASSUME CommaInv, FramesInv, Parsing, NEW F, NEW o, PartOK(F, o), Natural
  PROVE  Steady(F, o) \/ Throw("BAD_JSON")
<1>0. /\ start \in Nat /\ Taken \in Nat /\ start <= Taken
      /\ stack \in Seq(Labels) /\ StackOK /\ stack # <<>> /\ Here(F, o)
  BY Basics
<1>1. Head(stack) = "natural" /\ Place = "natural" /\ ~AtEOF /\ Head(stack) \notin Roots
      /\ {"zero", "digits10"} \subseteq Labels
  BY PlaceSets DEF Natural, On, At, Place, Roots, Checked
<1>2. PICK q \in start + 1..Taken + 1 :
        Begins(o, q) /\ text = SubSeq(data, q, Taken) /\ DueAt(q, Taken + 1)
  BY <1>0, <1>1 DEF Here, InNumber, NumberPart, NumberPlaces
<1>3. /\ Below("natural") \subseteq Below("zero") /\ Below("natural") \subseteq Below("digits10")
      /\ stack[2] \in {"fraction", "numEnd"}
  BY <1>0, <1>1, BelowValues, UnderHead
<1>4. CASE next = "0" /\ PushNext /\ Goto(<<"zero">>)
  <2>1. Place' = "zero" /\ stack'[2] = stack[2]
    BY <1>0, <1>1, <1>3, <1>4, GotoLabel
  <2>2. nextChar /\ Push /\ UNCHANGED <<start, partial>>
    BY <1>4 DEF PushNext, callVars
  <2>3. Passed
    BY <1>0, <1>1, <2>2, Passes
  <2>4. DueAt(q, Taken)' /\ data'[Taken'] = "0"
    BY <1>2, <1>4, <2>1, <2>3 DEF DueAt, Passed
  <2>5. NumberPart(q)'
    BY <2>1, <2>4 DEF NumberPart
  <2> QED
    BY <1>1, <1>2, <2>1, <2>2, <2>5, NumberSteady DEF NumberMoves, NumberPlaces
<1>5. CASE isNumber(next) /\ next # "0" /\ Jump(<<"digits10">>)
  <2>1. Goto(<<"digits10">>) /\ UNCHANGED <<streamVars, next, text, start, partial>>
    BY <1>5 DEF Jump, Peek, treeVars, callVars
  <2>2. Place' = "digits10" /\ stack'[2] = stack[2]
    BY <1>0, <1>1, <1>3, <2>1, GotoLabel
  <2>3. PICK m \in Nat : m = Taken + 1
    BY <1>0
  <2>4. /\ m \in q..Taken + 1 /\ m > Taken /\ ~(m <= Taken) /\ m \in Int /\ Taken \in Int
        /\ Taken' = Taken /\ data' = data
    BY <1>0, <2>1, <2>3, Stays
  <2>5. Run(data, m, Taken, Digits)
    BY <2>4, RunMore
  <2>6. DueAt(q, m)'
    BY <1>2, <2>2, <2>3, <2>4 DEF DueAt
  <2>7. isNumber(next)' /\ next' # "0"
    BY <1>5, <2>1
  <2>8. InDigits(q)'
    BY <2>4, <2>5, <2>6, <2>7 DEF InDigits
  <2>9. NumberPart(q)'
    BY <1>3, <2>2, <2>8 DEF NumberPart
  <2> QED
    BY <1>2, <2>1, <2>2, <2>9, NumberSteady DEF NumberMoves, NumberPlaces
<1> QED
  BY <1>4, <1>5 DEF Natural

LEMMA AfterZeroOK ==
  ASSUME CommaInv, FramesInv, Parsing, NEW F, NEW o, PartOK(F, o), AfterZero
  PROVE  Steady(F, o) \/ Throw("BAD_JSON")
<1>0. /\ start \in Nat /\ Taken \in Nat /\ start <= Taken
      /\ stack \in Seq(Labels) /\ StackOK /\ stack # <<>> /\ Here(F, o)
  BY Basics
<1>1. Head(stack) = "zero" /\ Place = "zero" /\ ~AtEOF /\ Head(stack) \notin Roots
      /\ {"digits16", "digits8", "digits2"} \subseteq Labels
  BY PlaceSets DEF AfterZero, On, At, Place, Roots, Checked
<1>2. PICK q \in start + 1..Taken + 1 :
        /\ Begins(o, q) /\ text = SubSeq(data, q, Taken)
        /\ DueAt(q, Taken) /\ data[Taken] = "0"
  BY <1>0, <1>1 DEF Here, InNumber, NumberPart, NumberPlaces
<1>3. stack[2] \in {"fraction", "numEnd"} /\ q \in Int /\ Taken \in Int
  BY <1>0, <1>1, BelowValues, UnderHead
<1>4. q <= Taken
  BY <1>2, <1>3, DueFollows
<1>5. ASSUME NEW l \in {"digits16", "digits8", "digits2"}, PushNext, Goto(<<l>>),
             l = "digits16" => next = "x", l = "digits8" => next = "o", l = "digits2" => next = "b"
      PROVE  Steady(F, o)
  <2>0. l \in Labels \ {"skip"} /\ Below("zero") \subseteq Below(l) /\ l \in NumberPlaces
    BY <1>1, BelowValues DEF NumberPlaces
  <2>1. Place' = l /\ stack'[2] = stack[2]
    BY <1>0, <1>1, <1>5, <2>0, GotoLabel
  <2>2. nextChar /\ Push /\ UNCHANGED <<start, partial>>
    BY <1>5 DEF PushNext, callVars
  <2>3. Passed
    BY <1>0, <1>1, <2>2, Passes
  <2>4. PICK m \in Nat : m = Taken
    BY <1>0
  <2>5. /\ data' = data /\ m \in q..Taken' - 1 /\ m + 1 = Taken' /\ m + 2 > Taken'
        /\ m + 2 \in Int /\ Taken' \in Int /\ next = data'[m + 1]
    BY <1>0, <1>4, <2>3, <2>4 DEF Passed
  <2>6. \A S : Run(data', m + 2, Taken', S)
    BY <2>5, RunMore
  <2>7. DueAt(q, m)' /\ data'[m] = "0"
    BY <1>2, <2>1, <2>4, <2>5 DEF DueAt
  <2>8. /\ l = "digits16" => InBase(q, "x", Hex)'
        /\ l = "digits8"  => InBase(q, "o", Oct)'
        /\ l = "digits2"  => InBase(q, "b", Bin)'
    BY <1>5, <2>5, <2>6, <2>7 DEF InBase
  <2>9. NumberPart(q)'
    BY <2>1, <2>8 DEF NumberPart
  <2> QED
    BY <1>1, <1>2, <2>0, <2>1, <2>2, <2>9, NumberSteady DEF NumberMoves
<1>6. ASSUME Jump(<<>>) PROVE Steady(F, o)
  <2>1. IntegerAt(data, Taken, Taken) /\ Taken \in q..Taken
    BY <1>2, <1>3, <1>4 DEF IntegerAt
  <2> QED
    BY <1>1, <1>2, <1>3, <1>6, <2>1, IntegerRead
<1> QED
  BY <1>5, <1>6 DEF AfterZero

\* The digits of a base from its prefix on.
\* The next character, where there is one.
LEMMA Ahead ==
  ASSUME CommaInv, Parsing, start <= Taken, ~AtEOF
  PROVE  next = data[Taken + 1]
<1>1. pos \in Nat
  BY LenProperties, SMT DEF CommaInv, MessageInv, TypeOK
<1>2. pos = Taken + 1
  BY <1>1 DEF Taken, AtEOF
<1>3. next = data[pos]
  BY DEF CommaInv, NextIsCurrent, Reading, Parsing
<1> QED
  BY <1>2, <1>3

LEMMA BaseDigitsOK ==
  ASSUME CommaInv, FramesInv, Parsing, NEW F, NEW o, PartOK(F, o),
         NEW l, NEW prefix, NEW S, Head(stack) = l, ~AtEOF,
         <<l, prefix, S>> \in {<<"digits16", "x", Hex>>, <<"digits8", "o", Oct>>,
                               <<"digits2", "b", Bin>>},
         \/ next \in S /\ PushNext /\ UNCHANGED stack
         \/ next \notin S /\ Jump(<<>>)
  PROVE  Steady(F, o)
<1>h. /\ l \in {"digits16", "digits8", "digits2"}
      /\ l = "digits16" => prefix = "x" /\ S = Hex
      /\ l = "digits8"  => prefix = "o" /\ S = Oct
      /\ l = "digits2"  => prefix = "b" /\ S = Bin
  OBVIOUS
<1>0. /\ start \in Nat /\ Taken \in Nat /\ start <= Taken
      /\ stack \in Seq(Labels) /\ StackOK /\ stack # <<>> /\ Here(F, o)
  BY Basics
<1>1. Place = l /\ Head(stack) \notin Roots /\ l \in NumberPlaces
  BY <1>h DEF Place, Roots, NumberPlaces
<1>2. PICK q \in start + 1..Taken + 1 :
        Begins(o, q) /\ text = SubSeq(data, q, Taken) /\ InBase(q, prefix, S)
  BY <1>0, <1>1, <1>h DEF Here, InNumber, NumberPart
<1>3. PICK m \in q..Taken - 1 :
        DueAt(q, m) /\ data[m] = "0" /\ data[m + 1] = prefix /\ Run(data, m + 2, Taken, S)
  BY <1>2 DEF InBase
<1>4. stack[2] \in {"fraction", "numEnd"}
  BY <1>0, <1>1, <1>h, BelowValues, UnderHead
<1>m. /\ m \in Int /\ m \in q..Taken /\ m < Taken /\ m + 2 \in Int /\ Taken \in Int
      /\ m \in q..(Taken + 1) - 1
  BY <1>0
<1>5. CASE next \in S /\ PushNext /\ UNCHANGED stack
  <2>1. Place' = l /\ stack'[2] = stack[2]
    BY <1>0, <1>1, <1>5, GotoLabel
  <2>2. nextChar /\ Push /\ UNCHANGED <<start, partial>>
    BY <1>5 DEF PushNext, callVars
  <2>3. Passed
    BY <1>0, <2>2, Passes
  <2>4. data' = data /\ Taken' = Taken + 1 /\ data[Taken + 1] \in S
    BY <1>5, <2>3 DEF Passed
  <2>5. Run(data', m + 2, Taken', S)
    BY <1>3, <1>m, <2>4, RunMore
  <2>6. DueAt(q, m)'
    BY <1>3, <2>1, <2>4 DEF DueAt
  <2>7. m \in q..Taken' - 1
    BY <1>m, <2>4
  <2>8. InBase(q, prefix, S)'
    BY <1>3, <2>4, <2>5, <2>6, <2>7 DEF InBase
  <2>9. NumberPart(q)'
    BY <1>h, <2>1, <2>8 DEF NumberPart
  <2> QED
    BY <1>1, <1>2, <2>1, <2>2, <2>9, NumberSteady DEF NumberMoves
<1>6. CASE next \notin S /\ Jump(<<>>)
  <2>0. data[Taken + 1] \notin S
    BY <1>0, <1>6, Ahead
  <2>1. IntegerAt(data, m, Taken)
    BY <1>h, <1>3, <1>m, <2>0 DEF IntegerAt
  <2> QED
    BY <1>1, <1>2, <1>3, <1>4, <1>6, <1>m, <2>1, IntegerRead
<1> QED
  BY <1>5, <1>6

\* Decimal digits of an integer, or of the fraction.
LEMMA DigitsOK ==
  ASSUME CommaInv, FramesInv, Parsing, NEW F, NEW o, PartOK(F, o),
         Head(stack) = "digits10", ~AtEOF,
         \/ isNumber(next) /\ PushNext /\ UNCHANGED stack
         \/ ~isNumber(next) /\ Jump(<<>>)
  PROVE  Steady(F, o)
<1>0. /\ start \in Nat /\ Taken \in Nat /\ start <= Taken
      /\ stack \in Seq(Labels) /\ StackOK /\ stack # <<>> /\ Here(F, o)
  BY Basics
<1>1. Place = "digits10" /\ Head(stack) \notin Roots /\ "digits10" \in NumberPlaces
  BY DEF Place, Roots, NumberPlaces
<1>2. PICK q \in start + 1..Taken + 1 :
        /\ Begins(o, q) /\ text = SubSeq(data, q, Taken)
        /\ stack[2] # "exponent" => InDigits(q)
        /\ stack[2] = "exponent" =>
             \E b \in q..Taken - 1 : /\ PointAt(q, b) /\ Run(data, b + 2, Taken, Digits)
                                     /\ b + 2 <= Taken \/ isNumber(next)
  BY <1>0, <1>1 DEF Here, InNumber, NumberPart
<1>3. stack[2] \in {"fraction", "numEnd", "exponent"} /\ q \in Int /\ Taken \in Int
  BY <1>0, BelowValues, UnderHead
<1>4. ASSUME isNumber(next), PushNext, UNCHANGED stack
      PROVE  /\ Place' = "digits10" /\ stack'[2] = stack[2]
             /\ nextChar /\ Push /\ UNCHANGED <<start, partial>>
             /\ data' = data /\ Taken' = Taken + 1 /\ data[Taken + 1] \in Digits
             /\ next = data[Taken + 1]
  <2>1. nextChar /\ Push /\ UNCHANGED <<start, partial>>
    BY <1>4 DEF PushNext, callVars
  <2>2. Passed
    BY <1>0, <2>1, Passes
  <2> QED
    BY <1>0, <1>1, <1>4, <2>1, <2>2, GotoLabel DEF Passed, isNumber
<1>5. CASE stack[2] # "exponent"
  <2>1. PICK m \in q..Taken + 1 :
          /\ DueAt(q, m) /\ Run(data, m, Taken, Digits)
          /\ m <= Taken => data[m] # "0"
          /\ m > Taken  => isNumber(next) /\ next # "0"
    BY <1>2, <1>5 DEF InDigits
  <2>2. m \in Int
    BY <1>3
  <2>3. CASE isNumber(next) /\ PushNext /\ UNCHANGED stack
    <3>1. Run(data', m, Taken', Digits) /\ DueAt(q, m)'
      BY <1>3, <1>4, <2>1, <2>2, <2>3, RunMore DEF DueAt
    <3>2. m \in q..Taken' + 1 /\ ~(m > Taken')
      BY <1>3, <1>4, <2>1, <2>3
    <3>3. data'[m] # "0"
      <4>1. CASE m <= Taken
        BY <1>4, <2>1, <2>3, <4>1
      <4>2. CASE m > Taken
        <5>1. m = Taken + 1
          BY <1>3, <4>2
        <5> QED
          BY <1>4, <2>1, <2>3, <4>2, <5>1
      <4> QED
        BY <1>3, <2>2, <4>1, <4>2
    <3>4. InDigits(q)'
      BY <3>1, <3>2, <3>3 DEF InDigits
    <3>5. NumberPart(q)'
      BY <1>4, <1>5, <2>3, <3>4 DEF NumberPart
    <3> QED
      BY <1>1, <1>2, <1>4, <2>3, <3>5, NumberSteady DEF NumberMoves
  <2>4. CASE ~isNumber(next) /\ Jump(<<>>)
    <3>1. m <= Taken /\ m \in q..Taken
      BY <1>3, <2>1, <2>2, <2>4
    <3>2. IntegerAt(data, m, Taken)
      BY <2>1, <3>1 DEF IntegerAt
    <3> QED
      BY <1>1, <1>2, <1>3, <1>5, <2>1, <2>4, <3>1, <3>2, IntegerRead
  <2> QED
    BY <2>3, <2>4
<1>6. CASE stack[2] = "exponent"
  <2>1. PICK b \in q..Taken - 1 : /\ PointAt(q, b) /\ Run(data, b + 2, Taken, Digits)
                                  /\ b + 2 <= Taken \/ isNumber(next)
    BY <1>2, <1>6
  <2>2. b \in Int /\ b + 2 \in Int
    BY <1>3
  <2>3. CASE isNumber(next) /\ PushNext /\ UNCHANGED stack
    <3>1. Run(data', b + 2, Taken', Digits) /\ PointAt(q, b)'
      BY <1>3, <1>4, <2>1, <2>2, <2>3, RunMore DEF PointAt
    <3>2. b \in q..Taken' - 1 /\ b + 2 <= Taken'
      BY <1>3, <1>4, <2>1, <2>3
    <3>3. NumberPart(q)'
      BY <1>4, <1>6, <2>3, <3>1, <3>2 DEF NumberPart
    <3> QED
      BY <1>1, <1>2, <1>4, <2>3, <3>3, NumberSteady DEF NumberMoves
  <2>4. CASE ~isNumber(next) /\ Jump(<<>>)
    <3>0. Goto(<<>>) /\ UNCHANGED <<streamVars, text, start, partial>>
      BY <2>4 DEF Jump, Peek, treeVars, callVars
    <3>1. Place' = "exponent"
      <4>1. Head(stack') = stack[2]
        BY <1>0, <1>1, <3>0, PlaceAfter
      <4> QED
        BY <1>6, <4>1 DEF Place
    <3>2. PICK a \in q..b : SignAt(data, q, a) /\ IntegerAt(data, a, b) /\ data[b + 1] = "."
      BY <2>1 DEF PointAt
    <3>3. /\ b + 1 < Taken /\ (b + 1) + 1 = b + 2 /\ a \in q..Taken /\ b \in q..Taken
          /\ Taken' = Taken /\ data' = data
      BY <1>3, <2>1, <2>2, <2>4, <3>0, Stays
    <3>4. FractionAt(data, b + 1, Taken)
      BY <2>1, <3>2, <3>3 DEF FractionAt
    <3>5. MantissaAt(data', q, Taken')
      BY <3>2, <3>3, <3>4 DEF MantissaAt
    <3>6. NumberPart(q)'
      BY <3>1, <3>5 DEF NumberPart
    <3> QED
      BY <1>2, <3>0, <3>1, <3>6, NumberSteady DEF NumberMoves, NumberPlaces
  <2> QED
    BY <2>3, <2>4
<1> QED
  BY <1>5, <1>6

LEMMA MoreDigitsOK ==
  ASSUME CommaInv, FramesInv, Parsing, NEW F, NEW o, PartOK(F, o), MoreDigits
  PROVE  Steady(F, o)
<1>0. next \in Char
  BY Basics
<1>1. /\ isHex(next) <=> next \in Hex
      /\ isOct(next) <=> next \in Oct
      /\ isBin(next) <=> next \in Bin
  BY <1>0 DEF Hex, Oct, Bin
<1>2. CASE DigitsOf("digits10", isNumber)
  BY <1>2, DigitsOK DEF DigitsOf, On, At
<1>3. CASE DigitsOf("digits16", isHex)
  BY <1>1, <1>3, BaseDigitsOK DEF DigitsOf, On, At
<1>4. CASE DigitsOf("digits8", isOct)
  BY <1>1, <1>4, BaseDigitsOK DEF DigitsOf, On, At
<1>5. CASE DigitsOf("digits2", isBin)
  BY <1>1, <1>5, BaseDigitsOK DEF DigitsOf, On, At
<1> QED
  BY <1>2, <1>3, <1>4, <1>5 DEF MoreDigits

\* The steps of number(parser) around its integers.
LEMMA NumberPartsOK ==
  ASSUME CommaInv, FramesInv, Parsing, NEW F, NEW o, PartOK(F, o),
         Decimal \/ Fraction \/ Exponent \/ ExponentSign
  PROVE  Steady(F, o) \/ Throw("BAD_JSON")
<1>0. /\ start \in Nat /\ Taken \in Nat /\ start <= Taken
      /\ stack \in Seq(Labels) /\ StackOK /\ stack # <<>> /\ Here(F, o)
  BY Basics
<1>l. {"digits10", "decimal", "exponent", "expSign", "numEnd", "natural"} \subseteq Labels \ {"skip"}
  BY PlaceSets DEF Checked, Unchecked
<1>h. Head(stack) \in {"decimal", "fraction", "exponent", "expSign"} /\ ~AtEOF
  BY DEF Decimal, Fraction, Exponent, ExponentSign, On, At
<1>1. Place = Head(stack) /\ Head(stack) \notin Roots /\ Head(stack) \in NumberPlaces
  BY <1>h DEF Place, Roots, NumberPlaces
<1>2. PICK q \in start + 1..Taken + 1 :
        Begins(o, q) /\ text = SubSeq(data, q, Taken) /\ NumberPart(q)
  BY <1>0, <1>1 DEF Here, InNumber
<1>q. q \in Int /\ Taken \in Int /\ Taken - 1 \in Int /\ Taken + 1 \in Int
  BY <1>0
<1>j. ASSUME NEW labels, Jump(labels)
      PROVE  NumberMoves /\ UNCHANGED <<start, partial>> /\ Taken' = Taken /\ data' = data
             /\ next' = next /\ Goto(labels)
  BY <1>j, Stays DEF Jump, Peek, treeVars, callVars, NumberMoves
<1>p. ASSUME PushNext \/ PushMatch
      PROVE  NumberMoves /\ UNCHANGED <<start, partial>> /\ Taken' = Taken + 1 /\ data' = data
             /\ next = data[Taken + 1]
  <2>1. nextChar /\ Push /\ UNCHANGED <<start, partial>>
    BY <1>p DEF PushNext, PushMatch, match, callVars
  <2> QED
    BY <1>0, <1>h, <2>1, Passes DEF Passed, NumberMoves
<1>s. ASSUME NumberMoves, UNCHANGED <<start, partial>>, Place' \in NumberPlaces, NumberPart(q)'
      PROVE  Steady(F, o)
  BY <1>2, <1>s, NumberSteady
<1>3. CASE Decimal
  <2>1. Head(stack) = "decimal" /\ PointAt(q, Taken - 1) /\ stack[2] = "exponent"
        /\ Below("decimal") \subseteq Below("digits10")
    <3>1. Head(stack) = "decimal"
      BY <1>3 DEF Decimal, On, At
    <3> QED
      BY <1>0, <1>1, <1>2, <3>1, UnderHead, BelowValues DEF NumberPart
  <2>2. CASE isNumber(next) /\ Jump(<<"digits10">>)
    <3>1. Place' = "digits10" /\ stack'[2] = "exponent"
      BY <1>0, <1>1, <1>j, <1>l, <2>1, <2>2, GotoLabel
    <3>2. PICK b \in Int : b = Taken - 1
      BY <1>q
    <3>3. PointAt(q, b) /\ b \in q..Taken - 1 /\ b + 2 > Taken /\ b + 2 \in Int
      BY <1>q, <2>1, <3>2, DueFollows
    <3>4. Run(data, b + 2, Taken, Digits)
      BY <1>q, <3>3, RunMore
    <3>5. PointAt(q, b)' /\ isNumber(next)' /\ b \in q..Taken' - 1
          /\ Run(data', b + 2, Taken', Digits)
      BY <1>j, <2>2, <3>3, <3>4 DEF PointAt
    <3>6. NumberPart(q)'
      BY <3>1, <3>5 DEF NumberPart
    <3> QED
      BY <1>j, <1>s, <2>2, <3>1, <3>6 DEF NumberPlaces
  <2> QED
    BY <1>3, <2>2 DEF Decimal
<1>4. CASE Fraction
  <2>1. Head(stack) = "fraction"
    BY <1>4 DEF Fraction, On, At
  <2>2. PICK a \in q..Taken : SignAt(data, q, a) /\ IntegerAt(data, a, Taken)
    BY <1>1, <1>2, <2>1 DEF NumberPart
  <2>b. Below("fraction") \subseteq Below("exponent") /\ "exponent" \in Below("decimal")
    BY BelowValues
  <2>3. CASE next = "." /\ PushMatch /\ Goto(<<"decimal", "exponent">>)
    <3>1. Place' = "decimal"
      BY <1>0, <1>1, <1>l, <2>1, <2>3, <2>b, PlaceAfter
    <3>2. Taken' - 1 = Taken /\ data' = data
      BY <1>q, <1>p, <2>3
    <3>3. data[Taken + 1] = "."
      BY <1>p, <2>3
    <3>4. PointAt(q, Taken - 1)'
      BY <2>2, <3>2, <3>3 DEF PointAt
    <3>5. NumberPart(q)'
      BY <3>1, <3>4 DEF NumberPart
    <3> QED
      BY <1>p, <1>s, <2>3, <3>1, <3>5 DEF NumberPlaces
  <2>4. CASE Jump(<<"exponent">>)
    <3>1. Place' = "exponent"
      BY <1>0, <1>1, <1>j, <1>l, <2>1, <2>4, <2>b, GotoLabel
    <3>2. FractionAt(data, Taken + 1, Taken) /\ Taken \in q..Taken
      BY <1>q, <2>2 DEF FractionAt
    <3>3. MantissaAt(data, q, Taken)
      BY <2>2, <3>2 DEF MantissaAt
    <3>4. NumberPart(q)'
      BY <1>j, <2>4, <3>1, <3>3 DEF NumberPart
    <3> QED
      BY <1>j, <1>s, <2>4, <3>1, <3>4 DEF NumberPlaces
  <2> QED
    BY <1>4, <2>3, <2>4 DEF Fraction
<1>5. CASE Exponent
  <2>1. Head(stack) = "exponent" /\ MantissaAt(data, q, Taken)
        /\ Below("exponent") \subseteq Below("expSign") /\ Below("exponent") \subseteq Below("numEnd")
    <3>1. Head(stack) = "exponent"
      BY <1>5 DEF Exponent, On, At
    <3> QED
      BY <1>1, <1>2, <3>1, BelowValues DEF NumberPart
  <2>2. CASE isExponent(next) /\ PushNext /\ Goto(<<"expSign">>)
    <3>1. Place' = "expSign"
      BY <1>0, <1>1, <1>l, <2>1, <2>2, GotoLabel
    <3>2. Taken' - 1 = Taken /\ data' = data /\ isExponent(data'[Taken'])
      BY <1>q, <1>p, <2>2
    <3>3. NumberPart(q)'
      BY <2>1, <3>1, <3>2 DEF NumberPart
    <3> QED
      BY <1>p, <1>s, <2>2, <3>1, <3>3 DEF NumberPlaces
  <2>3. CASE Jump(<<"numEnd">>)
    <3>1. Place' = "numEnd"
      BY <1>0, <1>1, <1>j, <1>l, <2>1, <2>3, GotoLabel
    <3>2. NumberAt(data, q, Taken)
      BY <2>1 DEF NumberAt
    <3>3. NumberPart(q)'
      BY <1>j, <2>3, <3>1, <3>2 DEF NumberPart
    <3> QED
      BY <1>j, <1>s, <2>3, <3>1, <3>3 DEF NumberPlaces
  <2> QED
    BY <1>5, <2>2, <2>3 DEF Exponent
<1>6. CASE ExponentSign
  <2>1. /\ Head(stack) = "expSign" /\ MantissaAt(data, q, Taken - 1) /\ isExponent(data[Taken])
        /\ "numEnd" \in Below("natural") /\ Below("expSign") \subseteq Below("numEnd")
    <3>1. Head(stack) = "expSign"
      BY <1>6 DEF ExponentSign, On, At
    <3> QED
      BY <1>1, <1>2, <3>1, BelowValues DEF NumberPart
  <2>2. ASSUME Goto(<<"natural", "numEnd">>) PROVE Place' = "natural" /\ stack'[2] = "numEnd"
    BY <1>0, <1>1, <1>l, <2>1, <2>2, GotoTwo DEF Place
  <2>3. PICK c \in Int : c = Taken - 1
    BY <1>q
  <2>4. c + 1 = Taken /\ q <= c /\ MantissaAt(data, q, c)
    BY <1>q, <2>1, <2>3, DueFollows
  <2>5. CASE next \in {"-", "+"} /\ PushMatch /\ Goto(<<"natural", "numEnd">>)
    <3>1. Taken' + 1 = Taken + 2 /\ data' = data /\ c \in q..Taken' + 1
      BY <1>q, <1>p, <2>4, <2>5
    <3>2. data[Taken + 1] \in {"-", "+"}
      BY <1>p, <2>5
    <3>3. MarkAt(data, c + 1, Taken + 2)
      BY <2>1, <2>4, <3>2 DEF MarkAt
    <3>4. DueAt(q, Taken + 1)'
      BY <2>2, <2>4, <2>5, <3>1, <3>3 DEF DueAt
    <3>5. NumberPart(q)'
      BY <2>2, <2>5, <3>4 DEF NumberPart
    <3> QED
      BY <1>p, <1>s, <2>2, <2>5, <3>5 DEF NumberPlaces
  <2>6. CASE Jump(<<"natural", "numEnd">>)
    <3>1. Place' = "natural" /\ stack'[2] = "numEnd" /\ Taken' = Taken /\ data' = data
      BY <1>j, <2>2, <2>6
    <3>2. MarkAt(data, c + 1, Taken + 1) /\ c \in q..Taken + 1
      BY <1>q, <2>1, <2>4 DEF MarkAt
    <3>3. DueAt(q, Taken + 1)'
      BY <2>4, <3>1, <3>2 DEF DueAt
    <3>4. NumberPart(q)'
      BY <3>1, <3>3 DEF NumberPart
    <3> QED
      BY <1>j, <1>s, <2>6, <3>1, <3>4 DEF NumberPlaces
  <2> QED
    BY <1>6, <2>5, <2>6 DEF ExponentSign
<1> QED
  BY <1>3, <1>4, <1>5, <1>6

LEMMA NumberEndOK ==
  ASSUME CommaInv, FramesInv, Parsing, NEW F, NEW o, PartOK(F, o), NumberEnd
  PROVE  Steady(F, o)
<1>0. /\ start \in Nat /\ Taken \in Nat /\ start <= Taken
      /\ stack \in Seq(Labels) /\ StackOK /\ stack # <<>> /\ Here(F, o)
  BY Basics
<1>1. /\ Head(stack) = "numEnd" /\ Place = "numEnd" /\ Goto(<<"skip", "numDone">>)
      /\ UNCHANGED <<streamVars, text, start, partial>> /\ Head(stack) \notin Roots
  BY DEF NumberEnd, At, Place, Jump, Peek, treeVars, callVars, Roots
<1>2. PICK q \in start + 1..Taken + 1 :
        Begins(o, q) /\ text = SubSeq(data, q, Taken) /\ NumberAt(data, q, Taken)
  BY <1>0, <1>1 DEF Here, InNumber, NumberPart, NumberPlaces
<1>3. Place' = "numDone"
  <2>1. "skip" \in Labels /\ "numDone" \in Labels /\ "numDone" \in Below("skip")
        /\ Below("numEnd") \subseteq Below("numDone")
    BY PlaceSets, BelowValues DEF Unchecked
  <2> QED
    BY <1>0, <1>1, <2>1, PlaceAfter
<1>4. Taken' = Taken /\ data' = data /\ Begins(o, q)' /\ start' = start
  BY <1>1, <1>2, Stays, SameSlots
<1>5. PICK r \in Nat : r = Taken
  BY <1>0
<1>6. q \in start' + 1..Taken' /\ r \in start' + 1..Taken' /\ r + 1 > r /\ r + 1 \in Int /\ r \in Int
  <2>1. \E n \in q..Taken : TRUE
    BY <1>2 DEF NumberAt, MantissaAt
  <2> QED
    BY <1>0, <1>4, <1>5, <2>1
<1>7. White(data', r + 1, Taken')
  BY <1>4, <1>5, <1>6, WhiteMore
<1>8. ReadNumber(o)'
  BY <1>1, <1>2, <1>4, <1>5, <1>6, <1>7 DEF ReadNumber
<1> QED
  BY <1>1, <1>3, <1>8, HereIs DEF Steady

(***************************************************************************)
(* Literals                                                                *)
(***************************************************************************)

LEMMA BeginLiteralOK ==
  ASSUME CommaInv, FramesInv, Parsing, NEW F, NEW o, PartOK(F, o), BeginLiteral
  PROVE  Steady(F, o) \/ Throw("BAD_JSON")
<1>0. /\ start \in Nat /\ Taken \in Nat /\ start <= Taken /\ data \in Seq(Char)
      /\ stack \in Seq(Labels) /\ StackOK /\ stack # <<>> /\ Here(F, o)
  BY Basics
<1>1. Head(stack) = "lit" /\ Place = "lit" /\ Head(stack) \notin Roots /\ "letters" \in Labels
      /\ Below("lit") \subseteq Below("letters")
  BY PlaceSets, BelowValues DEF BeginLiteral, On, At, Place, Roots, Checked
<1>2. CASE isLowerAlpha(next) /\ Jump(<<"letters">>)
  <2>1. /\ Goto(<<"letters">>) /\ UNCHANGED <<streamVars, text, start, partial>> /\ next' = next
        /\ Taken' = Taken /\ data' = data
    BY <1>2, Stays DEF Jump, Peek, treeVars, callVars
  <2>2. Place' = "letters"
    BY <1>0, <1>1, <2>1, GotoLabel
  <2>3. text = <<>> /\ Begins(o, Taken + 1)
    <3>1. ~Lost
      BY <1>2 DEF Lost, isLowerAlpha, LowerAlpha, LowerHex
    <3> QED
      BY <1>0, <1>1, <3>1 DEF Here
  <2>4. PICK q \in Nat : q = Taken + 1
    BY <1>0
  <2>5. q \in start' + 1..Taken' + 1 /\ q \in Nat \ {0} /\ q <= Taken + 1
    BY <1>0, <2>1, <2>4
  <2>6. text' = SubSeq(data', q, Taken')
    BY <1>0, <2>1, <2>3, <2>4, <2>5, TextMore
  <2>7. Begins(o, q)' /\ isLowerAlpha(next)'
    BY <1>2, <2>1, <2>3, <2>4, SameSlots
  <2>8. InLiteral(o)'
    BY <2>5, <2>6, <2>7 DEF InLiteral
  <2> QED
    BY <2>1, <2>2, <2>8, HereIs DEF Steady
<1> QED
  BY <1>2 DEF BeginLiteral

LEMMA LettersOK ==
  ASSUME CommaInv, FramesInv, Parsing, NEW F, NEW o, PartOK(F, o), Letters
  PROVE  Steady(F, o)
<1>0. /\ start \in Nat /\ Taken \in Nat /\ start <= Taken /\ data \in Seq(Char)
      /\ stack \in Seq(Labels) /\ StackOK /\ stack # <<>> /\ Here(F, o)
  BY Basics
<1>1. Head(stack) = "letters" /\ Place = "letters" /\ ~AtEOF /\ Head(stack) \notin Roots
  BY DEF Letters, On, At, Place, Roots
<1>2. PICK q \in start + 1..Taken + 1 : /\ Begins(o, q) /\ text = SubSeq(data, q, Taken)
                                        /\ q > Taken => isLowerAlpha(next)
  BY <1>0, <1>1 DEF Here, InLiteral
<1>q. q \in Nat \ {0} /\ q <= Taken + 1 /\ start + 1 <= q
  BY <1>0
<1>3. CASE PushNext /\ UNCHANGED stack
  <2>1. nextChar /\ text' = Append(text, next) /\ UNCHANGED <<start, partial>>
    BY <1>3 DEF PushNext, Push, callVars
  <2>2. Passed
    BY <1>0, <1>1, <2>1, Passes
  <2>3. Place' = "letters"
    BY <1>0, <1>1, <1>3, GotoLabel
  <2>4. text' = SubSeq(data', q, Taken')
    BY <1>0, <1>2, <1>q, <2>1, <2>2, LexemeMore
  <2>5. Taken' = Taken + 1 /\ data' = data /\ start' = start
    BY <2>1, <2>2 DEF Passed
  <2>6. q \in start' + 1..Taken' + 1 /\ ~(q > Taken')
    BY <1>0, <1>q, <2>5
  <2>7. Begins(o, q)'
    BY <1>2, <2>1, <2>5, SameSlots
  <2>8. InLiteral(o)'
    BY <2>4, <2>6, <2>7 DEF InLiteral
  <2> QED
    BY <2>1, <2>2, <2>3, <2>8, HereIs DEF Steady
<1>4. CASE ~isLowerAlpha(next) /\ Jump(<<"skip", "litDone">>)
  <2>1. /\ Goto(<<"skip", "litDone">>) /\ UNCHANGED <<streamVars, text, start, partial>>
        /\ Taken' = Taken /\ data' = data /\ start' = start
    BY <1>4, Stays DEF Jump, Peek, treeVars, callVars
  <2>2. Place' = "litDone"
    <3>1. "skip" \in Labels /\ "litDone" \in Labels /\ "litDone" \in Below("skip")
          /\ Below("letters") \subseteq Below("litDone")
      BY PlaceSets, BelowValues DEF Unchecked
    <3> QED
      BY <1>0, <1>1, <2>1, <3>1, PlaceAfter
  <2>3. PICK r \in Nat : r = Taken
    BY <1>0
  <2>4. q \in start' + 1..Taken' /\ r \in start' + 1..Taken' /\ r + 1 > r /\ r + 1 \in Int
        /\ r \in Int
    BY <1>0, <1>2, <1>4, <1>q, <2>1, <2>3
  <2>5. White(data', r + 1, Taken')
    BY <2>1, <2>3, <2>4, WhiteMore
  <2>6. Begins(o, q)'
    BY <1>2, <2>1, SameSlots
  <2>7. ReadLiteral(o)'
    BY <1>2, <2>1, <2>3, <2>4, <2>5, <2>6 DEF ReadLiteral
  <2> QED
    BY <2>1, <2>2, <2>7, HereIs DEF Steady
<1> QED
  BY <1>3, <1>4 DEF Letters

LEMMA ScalarStepsOK ==
  ASSUME CommaInv, FramesInv, Parsing, NEW F, NEW o, PartOK(F, o),
         \/ Natural \/ AfterZero \/ MoreDigits \/ Decimal \/ Fraction \/ Exponent
         \/ ExponentSign \/ NumberEnd \/ BeginLiteral \/ Letters
  PROVE  PartOK(F, o)' \/ Throw("BAD_JSON")
<1>1. Place # "parseJSON"
  <2>1. Head(stack) \notin {"skip", "parseJSON"}
    BY DEF Natural, AfterZero, MoreDigits, DigitsOf, Decimal, Fraction, Exponent,
           ExponentSign, NumberEnd, BeginLiteral, Letters, On, At
  <2> QED
    BY <2>1 DEF Place
<1>2. Steady(F, o) \/ Throw("BAD_JSON")
  BY NaturalOK, AfterZeroOK, MoreDigitsOK, NumberPartsOK, NumberEndOK, BeginLiteralOK, LettersOK
<1> QED
  BY <1>1, <1>2, SteadyIsOK

(***************************************************************************)
(* White space                                                             *)
(***************************************************************************)

LEMMA SkipPlaces ==
  ASSUME stack \in Seq(Labels), StackOK, stack # <<>>, Head(stack) = "skip"
  PROVE  /\ Place = stack[2] /\ Place \in Below("skip") /\ Head(stack) \notin Roots
         /\ Place \notin StringPlaces \cup NumberPlaces \cup {"str", "parseJSON", "lit", "letters"}
<1>1. Head(stack) \notin Roots /\ Place = stack[2]
  BY DEF Roots, Place
<1>2. Place \in Below("skip")
  BY <1>1, UnderHead
<1> QED
  BY <1>1, <1>2, BelowValues DEF StringPlaces, NumberPlaces

LEMMA SkipOK ==
  ASSUME CommaInv, FramesInv, Parsing, NEW F, NEW o, PartOK(F, o), skipWhite
  PROVE  Steady(F, o) /\ Place # "parseJSON"
<1>0. /\ start \in Nat /\ Taken \in Nat /\ start <= Taken /\ Len(partial) \in Nat
      /\ (partial # <<>> => Len(partial) > 0) /\ ContainersOK(F, o)
      /\ stack \in Seq(Labels) /\ StackOK /\ stack # <<>> /\ Here(F, o)
  BY Basics
<1>1. /\ Head(stack) = "skip" /\ Head(stack) \notin Roots /\ Place = stack[2]
      /\ Place \in Below("skip")
      /\ Place \notin StringPlaces \cup NumberPlaces \cup {"str", "parseJSON", "lit", "letters"}
  BY <1>0, SkipPlaces DEF skipWhite, At
<1>2. CASE Jump(<<>>)
  <2>1. /\ UNCHANGED <<streamVars, next, lastWasComma, text, partial, atom, start>> /\ Goto(<<>>)
        /\ Taken' = Taken /\ data' = data
    BY <1>2, Stays DEF Jump, Peek, treeVars, callVars
  <2>2. Place' = Place /\ Head(stack') # "skip"
    <3>1. Head(stack') = stack[2] /\ stack[2] # "skip"
      BY <1>0, <1>1, <2>1, PlaceAfter, BelowValues
    <3> QED
      BY <1>1, <3>1 DEF Place
  <2>3. \A k : Begins(o, k)' = Begins(o, k) /\ KeyBegins(o, k)' = KeyBegins(o, k)
    BY <2>1 DEF Begins, KeyBegins
  <2>4. Here(F, o)'
    <3>1. Place \in {"strDone", "objKey"} => ReadString(o)'
      BY <1>0, <2>1, <2>2, <2>3 DEF Here, ReadString
    <3>2. Place = "numDone" => ReadNumber(o)'
      BY <1>0, <2>1, <2>3 DEF Here, ReadNumber
    <3>3. Place = "litDone" => ReadLiteral(o)'
      BY <1>0, <2>1, <2>3 DEF Here, ReadLiteral
    <3>4. Place \in {"exprEnd", "rootEnd"} => AfterValue(F, o)'
      BY <1>0, <2>1, <2>3 DEF Here, AfterValue, ReadValue
    <3>5. Place \in {"objAdd", "arrAdd"} => AtAdd(F, o)'
      BY <1>0, <2>1, <2>3 DEF Here, AtAdd, ItemAt, ReadValue, Lost
    <3>6. Place \in Loops => AtLoop(o)'
      BY <1>0, <2>1 DEF Here, AtLoop, Lost
    <3>7. Place = "expr" => AtExpression(o)'
      BY <1>0, <2>1, <2>2, <2>3 DEF Here, AtExpression, Lost
    <3> QED
      BY <1>1, <2>2, <3>1, <3>2, <3>3, <3>4, <3>5, <3>6, <3>7, HereIs, BelowValues DEF Loops
  <2> QED
    BY <1>1, <2>1, <2>4 DEF Steady
<1>3. CASE /\ ~AtEOF /\ isWhiteSpace(next) /\ nextChar
           /\ UNCHANGED <<lastWasComma, stack, treeVars, callVars>>
  <2>1. UNCHANGED <<lastWasComma, stack, text, partial, atom, start>> /\ Place' = Place
    BY <1>3 DEF treeVars, callVars, Place
  <2>2. Passed
    BY <1>0, <1>3, Passes
  <2>3. Taken' = Taken + 1 /\ data' = data /\ isWhiteSpace(data[Taken + 1]) /\ Taken \in Int
        /\ Taken + 1 \in Int /\ (Taken + 1) - 1 = Taken
    BY <1>0, <1>3, <2>2 DEF Passed
  <2>4. ~Lost
    BY <1>3 DEF Lost, isWhiteSpace, WhiteSpace
  <2>5. \A k : Begins(o, k)' = Begins(o, k) /\ KeyBegins(o, k)' = KeyBegins(o, k)
    BY <2>1, <2>3 DEF Begins, KeyBegins
  <2>6. \A k \in start + 1..Taken : k \in start' + 1..Taken' /\ k \in Int
    BY <1>0, <2>1, <2>3
  <2>7. \A i \in Int : White(data, i, Taken) => White(data', i, Taken')
    BY <2>3, WhiteMore
  <2>r. \A r \in start + 1..Taken : White(data, r + 1, Taken) => White(data', r + 1, Taken')
    <3>1. \A r \in start + 1..Taken : r + 1 \in Int
      BY <1>0
    <3> QED
      BY <2>7, <3>1
  <2>8. Here(F, o)'
    <3>1. ASSUME Place \in {"strDone", "objKey"} PROVE ReadString(o)'
      <4>1. PICK q, r \in start + 1..Taken :
              /\ Place = "objKey" => KeyBegins(o, q)
              /\ Place # "objKey" => Begins(o, q)
              /\ StringAt(data, q, r) /\ text = Inside(data, q, r) /\ White(data, r + 1, Taken)
        BY <1>0, <3>1 DEF Here, ReadString
      <4> QED
        BY <2>1, <2>3, <2>5, <2>6, <2>r, <4>1 DEF ReadString
    <3>2. ASSUME Place = "numDone" PROVE ReadNumber(o)'
      <4>1. PICK q, r \in start + 1..Taken : /\ Begins(o, q) /\ NumberAt(data, q, r)
                                 /\ text = SubSeq(data, q, r) /\ White(data, r + 1, Taken)
        BY <1>0, <3>2 DEF Here, ReadNumber
      <4> QED
        BY <2>1, <2>3, <2>5, <2>6, <2>r, <4>1 DEF ReadNumber
    <3>3. ASSUME Place = "litDone" PROVE ReadLiteral(o)'
      <4>1. PICK q, r \in start + 1..Taken : /\ Begins(o, q) /\ text = SubSeq(data, q, r)
                                             /\ White(data, r + 1, Taken)
        BY <1>0, <3>3 DEF Here, ReadLiteral
      <4> QED
        BY <2>1, <2>3, <2>5, <2>6, <2>r, <4>1 DEF ReadLiteral
    <3>4. ASSUME Place \in {"exprEnd", "rootEnd"} PROVE AfterValue(F, o)'
      <4>1. PICK k, j \in start + 1..Taken : ReadValue(F, o, k, j) /\ White(data, j + 1, Taken)
        BY <1>0, <3>4 DEF Here, AfterValue
      <4> QED
        BY <2>1, <2>5, <2>6, <2>r, <4>1 DEF AfterValue, ReadValue
    <3>5. ASSUME Place \in {"objAdd", "arrAdd"} PROVE AtAdd(F, o)'
      <4>1. PICK k, j \in start + 1..Taken :
              /\ ReadValue(F, o, k, j)
              /\ lastWasComma => Between(data, j, ",", Taken + 1)
              /\ ~lastWasComma => White(data, j + 1, Taken) /\ Lost
        BY <1>0, <3>5 DEF Here, AtAdd, ItemAt
      <4>2. lastWasComma' /\ Between(data', j, ",", Taken' + 1)
        BY <2>1, <2>3, <2>4, <2>6, <4>1, BetweenMore
      <4> QED
        BY <2>1, <2>5, <2>6, <4>1, <4>2 DEF AtAdd, ItemAt, ReadValue
    <3>s. ASSUME partial # <<>>
          PROVE  o[1].from \in Int /\ o[1].to \in Int /\ o[1].to + 1 \in Int
      <4>1. o \in Seq(Spans) /\ 1 \in 1..Len(o)
        BY <1>0, <3>s DEF ContainersOK
      <4>2. o[1] \in Spans
        BY <4>1, ElementOfSeq
      <4> QED
        BY <4>2 DEF Spans
    <3>6. ASSUME Place \in Loops PROVE AtLoop(o)'
      <4>1. /\ partial # <<>>
            /\ ~lastWasComma => White(data, o[1].to + 1, Taken)
            /\ NextAt(data, o[1].from, o[1].to, Taken + 1)
        BY <1>0, <2>4, <3>6 DEF Here, AtLoop
      <4>2. ~lastWasComma' => White(data', o[1].to + 1, Taken')
        BY <2>1, <2>7, <3>s, <4>1
      <4>3. NextAt(data', o[1].from, o[1].to, Taken' + 1)
        BY <2>3, <3>s, <4>1, NextMore
      <4> QED
        BY <2>1, <4>1, <4>2, <4>3 DEF AtLoop
    <3>7. ASSUME Place = "expr" PROVE AtExpression(o)'
      <4>1. Begins(o, Taken + 1) /\ partial # <<>>
        BY <1>0, <1>1, <2>4, <3>7 DEF Here, AtExpression
      <4>2. Begins(o, (Taken + 1) + 1)
        BY <1>0, <2>3, <4>1, SlotsMove
      <4>3. PICK n : n = Taken' + 1
        OBVIOUS
      <4>4. Begins(o, n)'
        BY <2>3, <2>5, <4>2, <4>3
      <4> QED
        BY <2>1, <4>1, <4>3, <4>4 DEF AtExpression
    <3> QED
      BY <1>1, <2>1, <3>1, <3>2, <3>3, <3>4, <3>5, <3>6, <3>7, HereIs, BelowValues DEF Loops
  <2> QED
    BY <1>1, <2>1, <2>2, <2>8 DEF Steady
<1> QED
  BY <1>2, <1>3 DEF skipWhite

(***************************************************************************)
(* Values and containers                                                   *)
(***************************************************************************)

\* The first loop on the stack owns the innermost container.
LEMMA InnermostLoop ==
  ASSUME Owned, partial \in Seq(Container), stack \in Seq(Labels), NEW i \in 1..Len(stack),
         stack[i] \in Loops, \A j \in 1..i - 1 : stack[j] \notin Loops
  PROVE  partial # <<>> /\ 1 \in 1..Len(partial) /\ stack[i] = LoopOf(partial[1])
<1>1. PICK place : OwnedBy(stack, partial, place)
  BY DEF Owned
<1>2. PICK k \in 1..Len(partial) : place[k] = i
  BY <1>1 DEF OwnedBy
<1>3. Len(partial) \in Nat /\ Len(stack) \in Nat
  BY LenProperties
<1>4. 1 \in 1..Len(partial) /\ partial # <<>>
  BY <1>2, <1>3, EmptySeq
<1>5. place[1] \in 1..Len(stack) /\ stack[place[1]] = LoopOf(partial[1])
  BY <1>1, <1>4 DEF OwnedBy
<1>6. k = 1
  <2>1. SUFFICES ASSUME k # 1 PROVE FALSE
    OBVIOUS
  <2>2. 1 < k
    BY <1>2, <1>3, <2>1
  <2>3. place[1] < place[k]
    BY <1>1, <1>2, <1>4, <2>2 DEF OwnedBy
  <2>4. place[1] \in 1..i - 1
    BY <1>2, <1>3, <1>5, <2>3
  <2>5. stack[place[1]] \in Loops
    BY <1>5 DEF LoopOf, Loops
  <2> QED
    BY <2>4, <2>5
<1> QED
  BY <1>2, <1>4, <1>5, <1>6

LEMMA InnermostContainer ==
  ASSUME FramesInv, stack # <<>>, StackOK, stack \in Seq(Labels),
         Head(stack) \in Loops \cup {"objAdd", "arrAdd"}
  PROVE  /\ partial # <<>> /\ 1 \in 1..Len(partial) /\ partial[1] \in Container
         /\ Head(stack) \in {"objLoop", "objAdd"} => partial[1].type = "object"
         /\ Head(stack) \in {"arrLoop", "arrAdd"} => partial[1].type = "array"
<1>0. Owned /\ partial \in Seq(Container) /\ Head(stack) \notin Roots
  BY DEF FramesInv, Loops, Roots
<1>1. Len(stack) > 1 /\ stack[2] \in Below(Head(stack)) /\ Head(stack) = stack[1] /\ Len(stack) \in Nat
  BY <1>0, UnderHead, LenProperties, SMT
<1>2. CASE Head(stack) \in Loops
  <2>1. 1 \in 1..Len(stack) /\ \A j \in 1..1 - 1 : FALSE
    BY <1>1
  <2>2. partial # <<>> /\ 1 \in 1..Len(partial) /\ Head(stack) = LoopOf(partial[1])
    BY <1>0, <1>1, <1>2, <2>1, InnermostLoop
  <2>3. partial[1] \in Container
    BY <1>0, <2>2, ElementOfSeq
  <2>4. partial[1].type \in {"object", "array"}
    BY <2>3 DEF Container
  <2> QED
    BY <1>2, <2>2, <2>3, <2>4 DEF LoopOf, Loops
<1>3. CASE Head(stack) \in {"objAdd", "arrAdd"}
  <2>1. 2 \in 1..Len(stack) /\ \A j \in 1..2 - 1 : j = 1
    BY <1>1
  <2>2. /\ stack[1] \notin Loops /\ stack[2] \in Loops
        /\ Head(stack) = "objAdd" => stack[2] = "objLoop"
        /\ Head(stack) = "arrAdd" => stack[2] = "arrLoop"
    BY <1>1, <1>3, BelowValues DEF Loops
  <2>3. partial # <<>> /\ 1 \in 1..Len(partial) /\ stack[2] = LoopOf(partial[1])
    BY <1>0, <2>1, <2>2, InnermostLoop
  <2>4. partial[1] \in Container
    BY <1>0, <2>3, ElementOfSeq
  <2>5. partial[1].type \in {"object", "array"}
    BY <2>4 DEF Container
  <2> QED
    BY <1>3, <2>2, <2>3, <2>4, <2>5 DEF LoopOf, Loops
<1> QED
  BY <1>2, <1>3

\* Where the innermost container opens and where its last value ends.
LEMMA InnermostSpan ==
  ASSUME NEW F, NEW o, ContainersOK(F, o), start \in Nat, Taken \in Nat, Len(partial) \in Nat,
         partial # <<>> => Len(partial) > 0, partial # <<>>
  PROVE  /\ o \in Seq(Spans) /\ o # <<>> /\ Len(o) = Len(partial) /\ 1 \in 1..Len(partial)
         /\ o[1].from \in Nat /\ o[1].to \in Nat /\ start < o[1].from
         /\ o[1].from <= o[1].to /\ o[1].to <= Taken
         /\ Begun(o[1].from, o[1].to, <<partial[1].type, partial[1].items>>) \in F
<1>1. o \in Seq(Spans) /\ Len(o) = Len(partial) /\ 1 \in 1..Len(partial)
  BY DEF ContainersOK
<1>2. o[1] \in Spans /\ o # <<>>
  BY <1>1, ElementOfSeq, EmptySeq
<1> QED
  BY <1>1, <1>2 DEF ContainersOK, Spans

LEMMA ConsProperties ==
  ASSUME NEW S, NEW s \in Seq(S), NEW c
  PROVE  /\ Len(<<c>> \o s) = Len(s) + 1 /\ Len(s) \in Nat /\ (<<c>> \o s)[1] = c
         /\ \A i \in 1..Len(s) : (<<c>> \o s)[i + 1] = s[i]
         /\ c \in S => <<c>> \o s \in Seq(S)
<1> DEFINE T == S \cup {c}
<1>1. s \in Seq(T) /\ <<c>> \in Seq(T) /\ Len(<<c>>) = 1 /\ <<c>>[1] = c
  <2>1. s \in [1..Len(s) -> S] /\ Len(s) \in Nat
    BY LenProperties
  <2>2. s \in [1..Len(s) -> T]
    BY <2>1
  <2>3. s \in Seq(T)
    BY <2>1, <2>2, SeqOf
  <2> QED
    BY <2>3
<1> HIDE DEF T
<1>2. Len(s) \in Nat
  BY LenProperties
<1>3. /\ Len(<<c>> \o s) = 1 + Len(s)
      /\ \A i \in 1..1 + Len(s) : (<<c>> \o s)[i] = IF i <= 1 THEN <<c>>[i] ELSE s[i - 1]
  BY <1>1, ConcatProperties
<1>4. (<<c>> \o s)[1] = c
  BY <1>1, <1>2, <1>3
<1>5. ASSUME NEW i \in 1..Len(s) PROVE (<<c>> \o s)[i + 1] = s[i]
  <2>1. i + 1 \in 1..1 + Len(s) /\ ~(i + 1 <= 1) /\ (i + 1) - 1 = i
    BY <1>2
  <2> QED
    BY <1>3, <2>1
<1>6. c \in S => <<c>> \o s \in Seq(S)
  BY ConcatProperties
<1> QED
  BY <1>2, <1>3, <1>4, <1>5, <1>6

LEMMA OpenOK ==
  ASSUME CommaInv, FramesInv, Parsing, NEW F, NEW o, PartOK(F, o), Head(stack) = "expr", ~AtEOF,
         NEW type \in {"object", "array"}, next = Opening(type),
         NEW loop \in Loops, Open(type, loop)
  PROVE  \E G, p : p = <<[from |-> Taken + 1, to |-> Taken + 1]>> \o o /\ PartOK(G, p)'
<1>0. /\ start \in Nat /\ Taken \in Nat /\ start <= Taken /\ Len(partial) \in Nat
      /\ partial \in Seq(Container) /\ (partial # <<>> => Len(partial) > 0)
      /\ ContainersOK(F, o) /\ Derivation(data, F) /\ Len(data) \in Nat
      /\ stack \in Seq(Labels) /\ StackOK /\ stack # <<>> /\ Here(F, o)
  BY Basics
<1>1. Place = "expr" /\ nextChar /\ Goto(<<"skip", loop>>) /\ UNCHANGED start
      /\ partial' = <<[type |-> type, key |-> <<>>, items |-> <<>>]>> \o partial
  BY DEF Open, match, Place, callVars
<1>2. Passed
  BY <1>0, <1>1, Passes
<1>3. PICK k \in Nat : k = Taken + 1
  BY <1>0
<1>4. /\ start < k /\ k = Taken' /\ k \in 1..Len(data) /\ data' = data /\ data[k] = Opening(type)
      /\ k <= k /\ k \in Int /\ start' = start
  BY <1>0, <1>1, <1>2, <1>3 DEF Passed
<1>5. Begins(o, k)
  <2>1. ~Lost
    BY DEF Lost, Opening
  <2> QED
    BY <1>0, <1>1, <1>3, <2>1 DEF Here, AtExpression
<1>6. Place' = loop /\ loop \in {"objLoop", "arrLoop"}
  <2>1. "skip" \in Labels /\ loop \in Labels /\ loop \in Below("skip")
        /\ Below("expr") \subseteq Below(loop)
    BY PlaceSets, BelowValues DEF Unchecked, Checked, Loops
  <2> QED
    BY <1>0, <1>1, <2>1, PlaceAfter DEF Roots, Loops
<1> DEFINE f == Begun(k, k, <<type, <<>> >>)
           s == [from |-> k, to |-> k]
           p == <<s>> \o o
           G == F \cup {f}
<1>7. ByRule(data, F, f)
  <2>1. f[4] = <<type, <<>> >> /\ f = Begun(k, k, f[4])
    BY DEF Begun
  <2>2. Opens(data, k, k, f[4])
    BY <1>4, <2>1 DEF Opens
  <2> QED
    BY <1>4, <2>1, <2>2 DEF ByRule
<1>8. Derivation(data, G)
  BY <1>0, <1>7, FactsMore
<1>9. o \in Seq(Spans) /\ Len(o) = Len(partial) /\ s \in Spans
  BY <1>0 DEF ContainersOK, Spans
<1>10. /\ Len(p) = Len(partial) + 1 /\ p[1] = s /\ p \in Seq(Spans)
       /\ \A i \in 1..Len(partial) : p[i + 1] = o[i]
  BY <1>9, ConsProperties
<1>11. /\ Len(partial') = Len(partial) + 1
       /\ partial'[1] = [type |-> type, key |-> <<>>, items |-> <<>>]
       /\ \A i \in 1..Len(partial) : partial'[i + 1] = partial[i]
  BY <1>0, <1>1, ConsProperties
<1>12. f \in G /\ F \subseteq G /\ s.from = k /\ s.to = k
  OBVIOUS
<1>13. partial'[1].type = type /\ partial'[1].items = <<>>
  BY <1>11
<1>f. f = Begun(k, k, <<type, <<>> >>)
  OBVIOUS
<1>p. p = <<[from |-> Taken + 1, to |-> Taken + 1]>> \o o
  BY <1>3
<1> HIDE DEF f, s, p, G
<1>14. ASSUME NEW i \in 1..Len(partial')
       PROVE  /\ start < p[i].from /\ p[i].from <= p[i].to /\ p[i].to <= Taken'
              /\ Begun(p[i].from, p[i].to, <<partial'[i].type, partial'[i].items>>) \in G
              /\ i = Len(partial') => p[i].from = start + 1
              /\ i < Len(partial') =>
                   SlotAt(data, partial'[i + 1].type, partial'[i + 1].key,
                          p[i + 1].from, p[i + 1].to, p[i].from)
  <2>1. CASE i = 1
    <3>1. Begun(p[i].from, p[i].to, <<partial'[i].type, partial'[i].items>>) \in G
      BY <1>10, <1>12, <1>13, <1>f, <2>1
    <3>2. i = Len(partial') => p[i].from = start + 1
      <4>1. SUFFICES ASSUME i = Len(partial') PROVE k = start + 1
        BY <1>10, <1>12, <2>1
      <4>2. partial = <<>>
        BY <1>0, <1>11, <2>1, <4>1
      <4> QED
        BY <1>5, <4>2 DEF Begins
    <3>3. ASSUME i < Len(partial')
          PROVE  SlotAt(data, partial'[i + 1].type, partial'[i + 1].key,
                        p[i + 1].from, p[i + 1].to, p[i].from)
      <4>1. 1 \in 1..Len(partial)
        BY <1>0, <1>11, <2>1, <3>3
      <4>2. partial # <<>>
        BY <1>0, <4>1, EmptySeq
      <4>3. p[i + 1] = o[1] /\ partial'[i + 1] = partial[1] /\ p[i].from = k
        BY <1>10, <1>11, <1>12, <2>1, <4>1
      <4> QED
        BY <1>5, <4>2, <4>3 DEF Begins
    <3>4. start < p[i].from /\ p[i].from <= p[i].to /\ p[i].to <= Taken'
      BY <1>4, <1>10, <1>12, <2>1
    <3> QED
      BY <3>1, <3>2, <3>3, <3>4
  <2>2. CASE i # 1
    <3>1. PICK n \in 1..Len(partial) : i = n + 1
      <4>1. i - 1 \in 1..Len(partial) /\ i = (i - 1) + 1
        BY <1>0, <1>11, <2>2
      <4> QED
        BY <4>1
    <3>2. p[i] = o[n] /\ partial'[i] = partial[n] /\ o[n] \in Spans /\ n \in Int
      BY <1>9, <1>10, <1>11, <3>1, ElementOfSeq
    <3>3. /\ start < o[n].from /\ o[n].from <= o[n].to /\ o[n].to <= Taken
          /\ Begun(o[n].from, o[n].to, <<partial[n].type, partial[n].items>>) \in F
          /\ n = Len(partial) => o[n].from = start + 1
          /\ n < Len(partial) =>
               SlotAt(data, partial[n + 1].type, partial[n + 1].key,
                      o[n + 1].from, o[n + 1].to, o[n].from)
      BY <1>0, <3>1 DEF ContainersOK
    <3>4. o[n].to <= Taken'
      BY <1>0, <1>3, <1>4, <3>2, <3>3 DEF Spans
    <3>5. i = Len(partial') <=> n = Len(partial)
      BY <1>0, <1>11, <3>1
    <3>6. ASSUME i < Len(partial')
          PROVE  SlotAt(data, partial'[i + 1].type, partial'[i + 1].key,
                        p[i + 1].from, p[i + 1].to, p[i].from)
      <4>1. n < Len(partial) /\ n + 1 \in 1..Len(partial) /\ i + 1 = (n + 1) + 1
        BY <1>0, <1>11, <3>1, <3>6
      <4>2. p[i + 1] = o[n + 1] /\ partial'[i + 1] = partial[n + 1]
        BY <1>10, <1>11, <4>1
      <4> QED
        BY <3>2, <3>3, <4>1, <4>2
    <3> QED
      BY <1>12, <3>2, <3>3, <3>4, <3>5, <3>6
  <2> QED
    BY <2>1, <2>2
<1>15. ContainersOK(G, p)'
  <2>1. Len(p) = Len(partial') /\ p \in Seq(Spans)
    BY <1>10, <1>11
  <2> QED
    BY <1>4, <1>14, <2>1 DEF ContainersOK, Spans
<1>16. AtLoop(p)'
  <2>1. partial' # <<>>
    BY <1>0, <1>11
  <2>2. White(data', p[1].to + 1, Taken')
    <3>1. k + 1 > k /\ k + 1 \in Int
      BY <1>3
    <3> QED
      BY <1>4, <1>10, <1>12, <3>1, WhiteMore
  <2>3. NextAt(data', p[1].from, p[1].to, Taken' + 1)
    BY <1>4, <1>10, <1>12, NextMore
  <2> QED
    BY <2>1, <2>2, <2>3 DEF AtLoop
<1>17. Here(G, p)'
  BY <1>6, <1>16, HereIs DEF Loops
<1>18. (start <= Taken)' /\ RootOK' /\ Derivation(data, G)'
  <2>1. RootOK'
    BY <1>1, <1>4 DEF PartOK, RootOK
  <2>2. (start <= Taken)'
    <3>1. start <= k
      BY <1>0, <1>4
    <3> QED
      BY <1>4, <3>1
  <2> QED
    BY <1>4, <1>8, <2>1, <2>2
<1>19. PartOK(G, p)'
  BY <1>15, <1>17, <1>18 DEF PartOK
<1> QED
  BY <1>19, <1>p

\* Where the parser stands after it calls for a value.
LEMMA ExpressionOK ==
  ASSUME CommaInv, FramesInv, Parsing, NEW F, NEW o, PartOK(F, o), Expression
  PROVE  PartOK(F, o)' \/ \E type \in {"object", "array"}, loop \in Loops :
                            next = Opening(type) /\ Open(type, loop)
<1>0. /\ start \in Nat /\ Taken \in Nat /\ start <= Taken /\ data \in Seq(Char)
      /\ Taken <= Len(data) /\ Len(data) \in Nat
      /\ stack \in Seq(Labels) /\ StackOK /\ stack # <<>> /\ Here(F, o)
  BY Basics
<1>1. Head(stack) = "expr" /\ ~AtEOF /\ Place = "expr" /\ Head(stack) \notin Roots
  BY DEF Expression, On, At, Place, Roots
<1>s. Steady(F, o) => PartOK(F, o)'
  BY <1>1, SteadyIsOK
<1>2. /\ {"str", "strDone", "natural", "fraction", "lit"} \subseteq Labels \ {"skip"}
      /\ "strDone" \in Below("str") /\ "fraction" \in Below("natural")
      /\ Below("expr") \subseteq Below("strDone") /\ Below("expr") \subseteq Below("fraction")
      /\ Below("expr") \subseteq Below("lit")
  BY PlaceSets, BelowValues DEF Checked, Unchecked
<1>3. CASE next = "{" /\ Open("object", "objLoop")
  BY <1>3 DEF Opening, Loops
<1>4. CASE next = "[" /\ Open("array", "arrLoop")
  BY <1>4 DEF Opening, Loops
<1>b. Begins(o, Taken + 1) \/ Lost
  BY <1>0, <1>1 DEF Here, AtExpression
<1>5. CASE next = "quote" /\ Jump(<<"str", "strDone">>)
  <2>1. /\ Goto(<<"str", "strDone">>) /\ UNCHANGED <<streamVars, start, partial>>
        /\ Taken' = Taken /\ data' = data
    BY <1>5, Stays DEF Jump, Peek, treeVars, callVars
  <2>2. Place' = "str" /\ stack'[2] = "strDone"
    BY <1>0, <1>1, <1>2, <2>1, GotoTwo DEF Place
  <2>3. Begins(o, Taken + 1)
    BY <1>5, <1>b DEF Lost
  <2>4. PICK q : q = Taken + 1
    OBVIOUS
  <2>5. Begins(o, q)' /\ q = Taken' + 1
    BY <2>1, <2>3, <2>4, SameSlots
  <2>6. TextBegins(o, Taken + 1)'
    BY <2>2, <2>5 DEF TextBegins
  <2> QED
    BY <1>s, <2>1, <2>2, <2>6, HereIs DEF Steady
<1>6. CASE isNumber(next) /\ Goto(<<"natural", "fraction">>) /\ Peek /\ text' = <<>>
           /\ UNCHANGED <<lastWasComma, partial, atom, callVars>>
  <2>1. UNCHANGED <<streamVars, start, partial>> /\ Taken' = Taken /\ data' = data /\ start' = start
    BY <1>6, Stays DEF Peek, callVars
  <2>2. Place' = "natural" /\ stack'[2] = "fraction"
    BY <1>0, <1>1, <1>2, <1>6, GotoTwo DEF Place
  <2>3. Begins(o, Taken + 1)
    <3>1. ~Lost
      BY <1>6 DEF Lost, isNumber, Digits
    <3> QED
      BY <1>b, <3>1
  <2>4. PICK q \in Nat : q = Taken + 1
    BY <1>0
  <2>5. /\ q = Taken' + 1 /\ q \in Nat \ {0} /\ q <= Taken + 1
        /\ q \in start' + 1..Taken' + 1
    BY <1>0, <2>1, <2>4
  <2>6. Begins(o, q)'
    BY <2>1, <2>3, <2>4, SameSlots
  <2>7. text' = SubSeq(data', q, Taken')
    BY <1>0, <1>6, <2>1, <2>4, <2>5, TextMore
  <2>8. NumberPart(q)'
    BY <2>2, <2>5 DEF NumberPart, DueAt, SignAt
  <2>9. InNumber(o)'
    BY <2>5, <2>6, <2>7, <2>8 DEF InNumber
  <2> QED
    BY <1>s, <2>1, <2>2, <2>9, HereIs DEF Steady, NumberPlaces
<1>7. CASE next = "-" /\ match /\ Goto(<<"natural", "fraction">>) /\ text' = <<"-">>
           /\ UNCHANGED <<partial, atom, callVars>>
  <2>0. nextChar /\ UNCHANGED <<start, partial>>
    BY <1>7 DEF match, callVars
  <2>1. Passed
    BY <1>0, <1>1, <2>0, Passes
  <2>2. Place' = "natural" /\ stack'[2] = "fraction"
    BY <1>0, <1>1, <1>2, <1>7, GotoTwo DEF Place
  <2>3. Begins(o, Taken + 1)
    BY <1>7, <1>b DEF Lost
  <2>4. PICK q \in Nat : q = Taken + 1
    BY <1>0
  <2>s. data' = data /\ start' = start /\ Taken' = q /\ q <= Len(data) /\ next = data[q]
    BY <2>0, <2>1, <2>4 DEF Passed
  <2>5. q \in Nat \ {0} /\ q <= Taken + 1 /\ q \in start' + 1..Taken' + 1
    BY <1>0, <2>4, <2>s
  <2>6. Begins(o, q)'
    BY <2>0, <2>3, <2>4, <2>s, SameSlots
  <2>7. text' = SubSeq(data', q, Taken')
    <3>1. SubSeq(data, q, Taken) = <<>>
      BY <1>0, <2>4, <2>5, TextMore
    <3>2. Append(SubSeq(data, q, Taken), data[Taken + 1]) = SubSeq(data, q, Taken + 1)
      BY <1>0, <2>4, <2>5, <2>s, TextMore
    <3>3. SubSeq(data, q, q) = Append(<<>>, data[q])
      BY <2>4, <3>1, <3>2
    <3>4. \A c : Append(<<>>, c) = <<c>>
      OBVIOUS
    <3> QED
      BY <1>7, <2>s, <3>3, <3>4
  <2>8. NumberPart(q)'
    <3>1. data'[q] = "-"
      BY <1>7, <2>s
    <3>2. SignAt(data', q, Taken' + 1)
      BY <2>s, <3>1 DEF SignAt
    <3> QED
      BY <2>2, <3>2 DEF NumberPart, DueAt
  <2>9. InNumber(o)'
    BY <2>5, <2>6, <2>7, <2>8 DEF InNumber
  <2> QED
    BY <1>s, <2>0, <2>1, <2>2, <2>9, HereIs DEF Steady, NumberPlaces
<1>8. CASE Goto(<<"lit">>) /\ Peek /\ text' = <<>>
           /\ UNCHANGED <<lastWasComma, partial, atom, callVars>>
  <2>1. /\ UNCHANGED <<streamVars, start, partial>> /\ Taken' = Taken /\ data' = data
        /\ next' = next
    BY <1>8, Stays DEF Peek, callVars
  <2>2. Place' = "lit"
    BY <1>0, <1>1, <1>2, <1>8, GotoLabel
  <2>4. PICK q : q = Taken + 1
    OBVIOUS
  <2>5. q = Taken' + 1 /\ (Begins(o, q)' \/ Lost')
    BY <1>b, <2>1, <2>4, SameSlots DEF Lost
  <2>6. (Begins(o, Taken + 1) \/ Lost)'
    BY <2>5
  <2> QED
    BY <1>8, <1>s, <2>1, <2>2, <2>6, HereIs DEF Steady
<1> QED
  BY <1>3, <1>4, <1>5, <1>6, <1>7, <1>8 DEF Expression

LEMMA ExpressionEndOK ==
  ASSUME CommaInv, FramesInv, Parsing, NEW F, NEW o, PartOK(F, o), ExpressionEnd
  PROVE  Steady(F, o) \/ Throw("BAD_JSON")
<1>0. /\ start \in Nat /\ Taken \in Nat /\ start <= Taken
      /\ stack \in Seq(Labels) /\ StackOK /\ stack # <<>> /\ Here(F, o)
  BY Basics
<1>1. Head(stack) = "exprEnd" /\ ~AtEOF /\ Place = "exprEnd" /\ Head(stack) \notin Roots
  BY DEF ExpressionEnd, On, At, Place, Roots
<1>2. stack[2] \in {"objAdd", "arrAdd"} /\ Below("exprEnd") \subseteq Below("skip")
  BY <1>0, <1>1, BelowValues, UnderHead
<1>3. PICK k, j \in start + 1..Taken : ReadValue(F, o, k, j) /\ White(data, j + 1, Taken)
  BY <1>0, <1>1 DEF Here, AfterValue
<1>4. CASE next = "," /\ match /\ Goto(<<"skip">>) /\ UNCHANGED <<treeVars, callVars>>
  <2>1. nextChar /\ UNCHANGED <<start, partial, atom>> /\ lastWasComma'
    BY <1>4 DEF match, treeVars, callVars
  <2>2. Passed
    BY <1>0, <1>1, <2>1, Passes
  <2>3. Place' = stack[2]
    BY <1>0, <1>1, <1>2, <1>4, GotoLabel
  <2>4. PICK m \in Int : m = Taken + 1
    BY <1>0
  <2>s. Taken' = m /\ data' = data /\ next = data[m] /\ start' = start
    BY <2>1, <2>2, <2>4 DEF Passed
  <2>5. j < m /\ m - 1 = Taken /\ j \in Int
        /\ j \in start' + 1..Taken' /\ k \in start' + 1..Taken'
    BY <1>0, <2>4, <2>s
  <2>6. Between(data', j, ",", Taken' + 1)
    BY <1>3, <1>4, <2>4, <2>5, <2>s, BetweenMore
  <2>7. ReadValue(F, o, k, j)'
    BY <1>3, <2>1, <2>s, SameSlots DEF ReadValue
  <2>8. AtAdd(F, o)'
    BY <2>1, <2>5, <2>6, <2>7 DEF AtAdd, ItemAt
  <2> QED
    BY <1>2, <2>1, <2>2, <2>3, <2>8, HereIs DEF Steady
<1>5. CASE next \in {"}", "]"} /\ Return /\ Peek /\ lastWasComma' = FALSE
           /\ UNCHANGED <<treeVars, callVars>>
  <2>1. /\ UNCHANGED <<streamVars, start, partial, atom>> /\ Taken' = Taken /\ data' = data
        /\ next' = next /\ start' = start
    BY <1>5, Stays DEF Peek, treeVars, callVars
  <2>3. Place' = stack[2]
    <3>1. Head(stack') = stack[2]
      BY <1>0, <1>1, <1>5, ReturnPlace
    <3> QED
      BY <1>2, <3>1 DEF Place
  <2>4. ReadValue(F, o, k, j)'
    BY <1>3, <2>1, SameSlots DEF ReadValue
  <2>5. White(data', j + 1, Taken') /\ Lost' /\ k \in start' + 1..Taken' /\ j \in start' + 1..Taken'
    BY <1>3, <1>5, <2>1 DEF Lost
  <2>6. AtAdd(F, o)'
    BY <1>5, <2>4, <2>5 DEF AtAdd, ItemAt
  <2> QED
    BY <1>2, <2>1, <2>3, <2>6, HereIs DEF Steady
<1> QED
  BY <1>4, <1>5 DEF ExpressionEnd

LEMMA ExceptFirst ==
  ASSUME NEW S, NEW s \in Seq(S), 1 \in 1..Len(s), NEW e, NEW t, t = [s EXCEPT ![1] = e]
  PROVE  /\ Len(t) = Len(s) /\ t[1] = e /\ (e \in S => t \in Seq(S))
         /\ \A k \in 1..Len(s) : k # 1 => t[k] = s[k]
<1> DEFINE T == S \cup {e}
<1>1. s \in Seq(T)
  <2>1. s \in [1..Len(s) -> S] /\ Len(s) \in Nat
    BY LenProperties
  <2>2. s \in [1..Len(s) -> T]
    BY <2>1
  <2> QED
    BY <2>1, <2>2, SeqOf
<1>2. e \in T
  OBVIOUS
<1> HIDE DEF T
<1>3. /\ Len(t) = Len(s)
      /\ \A k \in 1..Len(s) : t[k] = IF k = 1 THEN e ELSE s[k]
  BY <1>1, <1>2, ExceptSeq
<1>4. e \in S => t \in Seq(S)
  BY ExceptSeq
<1> QED
  BY <1>3, <1>4

\* The innermost container changes, the others are as they were.
LEMMA InnermostChanges ==
  ASSUME NEW F, NEW o, ContainersOK(F, o), start \in Nat, Taken \in Nat, Len(partial) \in Nat,
         partial # <<>> => Len(partial) > 0, partial # <<>>,
         data' = data, start' = start, Taken' \in Nat, Taken <= Taken',
         Len(partial') = Len(partial),
         \A k \in 1..Len(partial) : k # 1 => partial'[k] = partial[k],
         NEW G, F \subseteq G, NEW p \in Seq(Spans), Len(p) = Len(o),
         \A k \in 1..Len(o) : k # 1 => p[k] = o[k],
         p[1].from = o[1].from, p[1].from <= p[1].to, p[1].to <= Taken',
         Begun(p[1].from, p[1].to, <<partial'[1].type, partial'[1].items>>) \in G
  PROVE  ContainersOK(G, p)'
<1>1. /\ o \in Seq(Spans) /\ Len(o) = Len(partial) /\ 1 \in 1..Len(partial)
      /\ start < o[1].from
  BY InnermostSpan
<1>2. ASSUME NEW i \in 1..Len(partial')
      PROVE  /\ start < p[i].from /\ p[i].from <= p[i].to /\ p[i].to <= Taken'
             /\ Begun(p[i].from, p[i].to, <<partial'[i].type, partial'[i].items>>) \in G
             /\ i = Len(partial') => p[i].from = start + 1
             /\ i < Len(partial') =>
                  SlotAt(data, partial'[i + 1].type, partial'[i + 1].key,
                         p[i + 1].from, p[i + 1].to, p[i].from)
  <2>0. i \in 1..Len(partial) /\ i \in Int
    OBVIOUS
  <2>1. /\ start < o[i].from /\ o[i].from <= o[i].to /\ o[i].to <= Taken
        /\ Begun(o[i].from, o[i].to, <<partial[i].type, partial[i].items>>) \in F
        /\ i = Len(partial) => o[i].from = start + 1
        /\ i < Len(partial) =>
             SlotAt(data, partial[i + 1].type, partial[i + 1].key,
                    o[i + 1].from, o[i + 1].to, o[i].from)
    BY <2>0 DEF ContainersOK
  <2>2. o[i] \in Spans
    BY <1>1, <2>0, ElementOfSeq
  <2>3. p[i].from = o[i].from
    BY <1>1, <2>0
  <2>4. ASSUME i < Len(partial')
        PROVE  SlotAt(data, partial'[i + 1].type, partial'[i + 1].key,
                      p[i + 1].from, p[i + 1].to, p[i].from)
    <3>1. i + 1 \in 1..Len(partial) /\ i + 1 # 1 /\ i < Len(partial)
      BY <2>0, <2>4
    <3>2. partial'[i + 1] = partial[i + 1] /\ p[i + 1] = o[i + 1]
      BY <1>1, <3>1
    <3> QED
      BY <2>1, <2>3, <3>1, <3>2
  <2>5. /\ p[i].from <= p[i].to /\ p[i].to <= Taken'
        /\ Begun(p[i].from, p[i].to, <<partial'[i].type, partial'[i].items>>) \in G
    <3>1. CASE i = 1
      BY <3>1
    <3>2. CASE i # 1
      <4>1. p[i] = o[i] /\ partial'[i] = partial[i]
        BY <1>1, <2>0, <3>2
      <4>2. o[i].to <= Taken'
        BY <2>1, <2>2 DEF Spans
      <4> QED
        BY <2>1, <4>1, <4>2
    <3> QED
      BY <3>1, <3>2
  <2> QED
    BY <2>1, <2>3, <2>4, <2>5
<1>3. Len(p) = Len(partial')
  BY <1>1
<1> QED
  BY <1>2, <1>3 DEF ContainersOK, Spans

LEMMA ObjectKeyOK ==
  ASSUME CommaInv, FramesInv, Parsing, NEW F, NEW o, PartOK(F, o), ObjectKey
  PROVE  \/ Throw("BAD_JSON")
         \/ /\ PartOK(F, o)' /\ Begins(o, Taken + 1)' /\ partial[1].type = "object"
            /\ partial'[1].type = "object" /\ partial'[1].items = partial[1].items
            /\ partial # <<>> /\ Len(partial') = Len(partial)
            /\ \A n \in 1..Len(partial) : n # 1 => partial'[n] = partial[n]
<1>0. /\ start \in Nat /\ Taken \in Nat /\ start <= Taken /\ Len(partial) \in Nat
      /\ partial \in Seq(Container) /\ (partial # <<>> => Len(partial) > 0)
      /\ ContainersOK(F, o) /\ Derivation(data, F)
      /\ stack \in Seq(Labels) /\ StackOK /\ stack # <<>> /\ Here(F, o)
  BY Basics
<1>1. Head(stack) = "objKey" /\ ~AtEOF /\ Place = "objKey" /\ Head(stack) \notin Roots
  BY DEF ObjectKey, On, At, Place, Roots
<1>2. stack[2] = "expr" /\ Below("objKey") \subseteq Below("skip")
  BY <1>0, <1>1, BelowValues, UnderHead
<1>3. PICK q, r \in start + 1..Taken : /\ KeyBegins(o, q) /\ StringAt(data, q, r)
                                       /\ text = Inside(data, q, r) /\ White(data, r + 1, Taken)
  BY <1>0, <1>1 DEF Here, ReadString
<1>4. CASE next # ":"
  BY <1>4 DEF ObjectKey
<1>5. CASE next = ":"
  <2>1. /\ nextChar /\ Goto(<<"skip">>) /\ UNCHANGED start
        /\ partial' = [partial EXCEPT ![1].key = text]
    BY <1>5 DEF ObjectKey, match, callVars
  <2>2. Passed
    BY <1>0, <1>1, <2>1, Passes
  <2>3. Place' = "expr"
    BY <1>0, <1>1, <1>2, <2>1, GotoLabel
  <2>4. PICK m \in Int : m = Taken + 1
    BY <1>0
  <2>s. /\ Taken' = m /\ data' = data /\ next = data[m] /\ start' = start /\ Taken' \in Nat
        /\ Taken <= Taken' /\ start' <= Taken'
    BY <1>0, <2>1, <2>2, <2>4 DEF Passed
  <2>5. partial # <<>> /\ partial[1].type = "object" /\ NextAt(data, o[1].from, o[1].to, q)
    BY <1>3 DEF KeyBegins
  <2>6. /\ o \in Seq(Spans) /\ Len(o) = Len(partial) /\ 1 \in 1..Len(partial)
        /\ o[1].from \in Nat /\ o[1].to \in Nat /\ o[1].from <= o[1].to /\ o[1].to <= Taken
        /\ Begun(o[1].from, o[1].to, <<partial[1].type, partial[1].items>>) \in F
    BY <1>0, <2>5, InnermostSpan
  <2>7. partial[1] \in Container
    BY <1>0, <2>6, ElementOfSeq
  <2>8. /\ Len(partial') = Len(partial) /\ partial' # <<>>
        /\ partial'[1].type = partial[1].type /\ partial'[1].items = partial[1].items
        /\ partial'[1].key = text
        /\ \A k \in 1..Len(partial) : k # 1 => partial'[k] = partial[k]
    <3>1. partial' = [partial EXCEPT ![1] = [partial[1] EXCEPT !.key = text]]
      BY <2>1
    <3>2. /\ Len(partial') = Len(partial)
          /\ partial'[1] = [partial[1] EXCEPT !.key = text]
          /\ \A k \in 1..Len(partial) : k # 1 => partial'[k] = partial[k]
      <4>1. partial \in Seq(Container) /\ 1 \in 1..Len(partial)
        BY <1>0, <2>6
      <4> QED
        BY <3>1, <4>1, ExceptFirst
    <3>3. /\ [partial[1] EXCEPT !.key = text].type = partial[1].type
          /\ [partial[1] EXCEPT !.key = text].items = partial[1].items
          /\ [partial[1] EXCEPT !.key = text].key = text
      BY <2>7 DEF Container
    <3>4. partial' # <<>>
      BY <1>0, <2>5, <3>2
    <3> QED
      BY <3>2, <3>3, <3>4
  <2>9. ContainersOK(F, o)'
    <3>1. /\ F \subseteq F /\ \A k \in 1..Len(o) : k # 1 => o[k] = o[k]
          /\ o[1].to <= Taken'
      BY <1>0, <2>4, <2>6, <2>s
    <3> QED
      BY <1>0, <2>5, <2>6, <2>8, <2>s, <3>1, InnermostChanges
  <2>10. Begins(o, m + 1)'
    <3>n. o[1].to < q
      BY <2>5 DEF NextAt
    <3>s. q < r
      BY <1>3 DEF StringAt
    <3>1. q \in Int /\ r \in Int /\ r <= Taken /\ r + 1 \in Int /\ m - 1 = Taken /\ r < m
      BY <1>0, <2>4
    <3>2. q \in o[1].to + 1..(m + 1) - 1 /\ r \in o[1].to + 1..(m + 1) - 1
      BY <1>0, <2>4, <2>6, <3>1, <3>n, <3>s
    <3>3. Between(data, r, ":", m + 1)
      BY <1>3, <1>5, <2>4, <2>s, <3>1, BetweenMore
    <3>4. SlotAt(data, "object", text, o[1].from, o[1].to, m + 1)
      BY <1>3, <2>5, <3>2, <3>3 DEF SlotAt
    <3>5. SlotAt(data', partial'[1].type, partial'[1].key, o[1].from, o[1].to, m + 1)
      BY <2>5, <2>8, <2>s, <3>4
    <3> QED
      BY <2>8, <3>5 DEF Begins
  <2>b. Begins(o, Taken + 1)'
    <3>1. PICK n : n = m + 1
      OBVIOUS
    <3> QED
      BY <2>10, <2>s, <3>1
  <2>11. AtExpression(o)'
    BY <2>8, <2>b DEF AtExpression
  <2>12. Here(F, o)'
    BY <2>3, <2>11, HereIs
  <2>13. RootOK' /\ Derivation(data, F)' /\ (start <= Taken)'
    BY <1>0, <1>1, <2>s DEF PartOK, RootOK
  <2>14. PartOK(F, o)'
    BY <2>9, <2>12, <2>13 DEF PartOK
  <2> QED
    BY <2>5, <2>8, <2>14, <2>b
<1> QED
  BY <1>4, <1>5

\* A value that was read is added to its container.
LEMMA AddOK ==
  ASSUME CommaInv, FramesInv, Parsing, NEW F, NEW o, PartOK(F, o),
         Head(stack) \in {"objAdd", "arrAdd"}, Return,
         UNCHANGED <<streamVars, parserVars, atom, start>>,
         Len(partial') = Len(partial), partial'[1].type = partial[1].type,
         partial'[1].items = Extended(partial[1].type, partial[1].items, partial[1].key, atom),
         \A n \in 1..Len(partial) : n # 1 => partial'[n] = partial[n],
         NEW k \in start + 1..Taken, NEW j \in start + 1..Taken, ItemAt(F, o, k, j)
  PROVE  \E G, p : p = [o EXCEPT ![1] = [from |-> o[1].from, to |-> j]] /\ PartOK(G, p)'
<1>0. /\ start \in Nat /\ Taken \in Nat /\ start <= Taken /\ Len(partial) \in Nat
      /\ Taken <= Len(data) /\ Len(data) \in Nat
      /\ partial \in Seq(Container) /\ (partial # <<>> => Len(partial) > 0)
      /\ ContainersOK(F, o) /\ Derivation(data, F)
      /\ stack \in Seq(Labels) /\ StackOK /\ stack # <<>> /\ Here(F, o)
  BY Basics
<1>1. Place = Head(stack) /\ Place # "parseJSON" /\ Head(stack) \notin Roots
  BY DEF Place, Roots
<1>2. /\ UNCHANGED <<lastWasComma, next>> /\ Taken' = Taken /\ data' = data /\ start' = start
      /\ Taken' \in Nat /\ Taken <= Taken' /\ start' <= Taken'
  BY <1>0, Stays DEF parserVars
<1>3. Place' \in Loops
  <2>1. Head(stack') = stack[2] /\ stack[2] \in Loops
    BY <1>0, <1>1, BelowValues, UnderHead, ReturnPlace DEF Loops
  <2> QED
    BY <2>1 DEF Place, Loops
<1>4. /\ partial # <<>> /\ 1 \in 1..Len(partial) /\ partial[1] \in Container
      /\ partial[1].type \in {"object", "array"}
  <2>1. Head(stack) \in Loops \cup {"objAdd", "arrAdd"}
    OBVIOUS
  <2> QED
    BY <1>0, <2>1, InnermostContainer
<1>5. /\ ReadValue(F, o, k, j)
      /\ lastWasComma => Between(data, j, ",", Taken + 1)
      /\ ~lastWasComma => White(data, j + 1, Taken) /\ Lost
  BY DEF ItemAt
<1>6. /\ o \in Seq(Spans) /\ Len(o) = Len(partial)
      /\ o[1].from \in Nat /\ o[1].to \in Nat /\ start < o[1].from
      /\ o[1].from <= o[1].to /\ o[1].to <= Taken
      /\ Begun(o[1].from, o[1].to, <<partial[1].type, partial[1].items>>) \in F
  BY <1>0, <1>4, InnermostSpan
<1>k. k \in Int /\ j \in Int /\ j \in 1..Len(data)
  BY <1>0
<1> DEFINE type == partial[1].type
           key  == partial[1].key
           i    == o[1].from
           l    == o[1].to
           h    == Begun(i, l, <<type, partial[1].items>>)
           g    == Whole(k, j, atom)
           tree == <<type, Extended(type, partial[1].items, key, atom)>>
           f    == Begun(i, j, tree)
<1>7. SlotAt(data, type, key, i, l, k) /\ g \in F
  BY <1>4, <1>5 DEF ReadValue, Begins
<1>8. k <= j
  <2>1. PICK a, b \in 1..Len(data) : a <= b /\ (g = Whole(a, b, g[4]) \/ g = Begun(a, b, g[4]))
    BY <1>0, <1>7 DEF Derivation, ByRule
  <2>2. a = k /\ b = j
    BY <2>1 DEF Whole, Begun
  <2> QED
    BY <2>1, <2>2
<1>9. l < k
  BY <1>6, <1>7, <1>k, SlotMore
<1>10. i < j /\ i \in 1..Len(data) /\ i <= j /\ i \in Int
  <2>1. i \in Nat /\ l \in Nat /\ 1 <= i /\ i <= l
    BY <1>0, <1>6
  <2>2. i < j
    BY <1>8, <1>9, <1>k, <2>1
  <2> QED
    BY <1>k, <2>1, <2>2
<1>11. \E q, r \in i..j : SlotAt(data, type, Inside(data, q, r), i, l, k)
                          /\ tree = <<type, Extended(type, partial[1].items, Inside(data, q, r), atom)>>
  <2>1. CASE type = "array"
    <3>1. SlotAt(data, type, Inside(data, i, i), i, l, k)
      BY <1>7, <2>1 DEF SlotAt
    <3>2. Extended(type, partial[1].items, Inside(data, i, i), atom)
            = Extended(type, partial[1].items, key, atom)
      BY <2>1 DEF Extended
    <3>3. i \in i..j
      BY <1>10
    <3> QED
      BY <3>1, <3>2, <3>3
  <2>2. CASE type = "object"
    <3>1. PICK q, r \in l + 1..k - 1 : key = Inside(data, q, r)
      BY <1>7, <2>2 DEF SlotAt
    <3>2. q \in i..j /\ r \in i..j
      BY <1>6, <1>8, <1>k, <3>1
    <3> QED
      BY <1>7, <3>1, <3>2
  <2> QED
    BY <1>4, <2>1, <2>2
<1>12. ByRule(data, F, f)
  <2>1. /\ h[4] = <<type, partial[1].items>> /\ h[3] = l /\ h = Begun(i, h[3], h[4])
        /\ g[2] = k /\ g[4] = atom /\ g = Whole(g[2], j, g[4]) /\ h \in F
        /\ h[4][1] = type /\ h[4][2] = partial[1].items
    BY <1>6 DEF Begun, Whole
  <2>2. PICK q, r \in i..j :
          SlotAt(data, type, Inside(data, q, r), i, l, k)
          /\ tree = <<type, Extended(type, partial[1].items, Inside(data, q, r), atom)>>
    BY <1>11
  <2>3. f[4] = tree /\ f = Begun(i, j, f[4])
    BY DEF Begun
  <2> HIDE DEF h, g, tree, f, type, key, i, l
  <2>4. Extends(data, F, i, j, tree)
    BY <1>7, <2>1, <2>2 DEF Extends
  <2> QED
    BY <1>k, <1>10, <2>3, <2>4 DEF ByRule
<1>p. PICK p : p = [o EXCEPT ![1] = [from |-> i, to |-> j]]
  OBVIOUS
<1>g. PICK G : G = F \cup {f}
  OBVIOUS
<1>13. Derivation(data, G)
  BY <1>0, <1>12, <1>g, FactsMore
<1>14. [from |-> i, to |-> j] \in Spans
  BY <1>0, <1>6, <1>k DEF Spans
<1>15. /\ Len(p) = Len(o) /\ p[1] = [from |-> i, to |-> j] /\ p \in Seq(Spans)
       /\ \A n \in 1..Len(o) : n # 1 => p[n] = o[n]
  BY <1>4, <1>6, <1>14, <1>p, ExceptFirst
<1>16. p[1].from = i /\ p[1].to = j
  BY <1>15
<1>17. Begun(p[1].from, p[1].to, <<partial'[1].type, partial'[1].items>>) \in G
  BY <1>16, <1>g
<1>18. F \subseteq G
  BY <1>g
<1>19. i # j /\ j <= Taken'
  BY <1>2, <1>10, <1>k
<1> HIDE DEF f, tree, g, h
<1>20. ContainersOK(G, p)'
  BY <1>0, <1>2, <1>4, <1>10, <1>15, <1>16, <1>17, <1>18, <1>19, InnermostChanges
<1>21. AtLoop(p)'
  <2>1. partial' # <<>>
    BY <1>0, <1>4
  <2>2. ~lastWasComma' => White(data', p[1].to + 1, Taken')
    BY <1>2, <1>5, <1>16
  <2>3. NextAt(data', p[1].from, p[1].to, Taken' + 1) \/ Lost'
    <3>1. CASE lastWasComma
      <4>1. NextAt(data, i, j, Taken + 1)
        <5>1. Taken + 1 \in Int
          BY <1>0
        <5> QED
          BY <1>5, <1>10, <1>19, <1>k, <3>1, <5>1, NextAfterComma
      <4> QED
        BY <1>2, <1>16, <4>1
    <3>2. CASE ~lastWasComma
      BY <1>2, <1>5, <3>2 DEF Lost
    <3> QED
      BY <3>1, <3>2
  <2> QED
    BY <2>1, <2>2, <2>3 DEF AtLoop
<1>22. Here(G, p)'
  BY <1>3, <1>21, HereIs
<1>23. (start <= Taken)' /\ RootOK' /\ Derivation(data, G)'
  BY <1>1, <1>2, <1>13 DEF PartOK, RootOK
<1>24. PartOK(G, p)'
  BY <1>20, <1>22, <1>23 DEF PartOK
<1> QED
  BY <1>24, <1>p

LEMMA AddsOK ==
  ASSUME CommaInv, FramesInv, Parsing, NEW F, NEW o, PartOK(F, o), ObjectAdd \/ ArrayAdd,
         NEW k \in start + 1..Taken, NEW j \in start + 1..Taken, ItemAt(F, o, k, j)
  PROVE  /\ \E G, p : p = [o EXCEPT ![1] = [from |-> o[1].from, to |-> j]] /\ PartOK(G, p)'
         /\ Len(partial') = Len(partial) /\ partial'[1].type = partial[1].type
         /\ partial'[1].items = Extended(partial[1].type, partial[1].items, partial[1].key, atom)
         /\ \A n \in 1..Len(partial) : n # 1 => partial'[n] = partial[n]
<1>0. /\ partial \in Seq(Container) /\ stack \in Seq(Labels) /\ StackOK /\ stack # <<>>
  BY Basics
<1>1. /\ Head(stack) \in {"objAdd", "arrAdd"} /\ Return
      /\ UNCHANGED <<streamVars, parserVars, atom, start>>
  BY DEF ObjectAdd, ArrayAdd, At, callVars
<1>2. /\ 1 \in 1..Len(partial) /\ partial[1] \in Container
      /\ Head(stack) = "objAdd" => partial[1].type = "object"
      /\ Head(stack) = "arrAdd" => partial[1].type = "array"
  <2>1. Head(stack) \in Loops \cup {"objAdd", "arrAdd"}
    BY <1>1
  <2> QED
    BY <1>0, <2>1, InnermostContainer
<1>3. ASSUME NEW items, partial' = [partial EXCEPT ![1].items = items]
      PROVE  /\ Len(partial') = Len(partial) /\ partial'[1].type = partial[1].type
             /\ partial'[1].items = items
             /\ \A n \in 1..Len(partial) : n # 1 => partial'[n] = partial[n]
  <2>1. partial' = [partial EXCEPT ![1] = [partial[1] EXCEPT !.items = items]]
    BY <1>3
  <2>2. /\ Len(partial') = Len(partial)
        /\ partial'[1] = [partial[1] EXCEPT !.items = items]
        /\ \A n \in 1..Len(partial) : n # 1 => partial'[n] = partial[n]
    BY <1>0, <1>2, <2>1, ExceptFirst
  <2>3. /\ [partial[1] EXCEPT !.items = items].type = partial[1].type
        /\ [partial[1] EXCEPT !.items = items].items = items
    BY <1>2 DEF Container
  <2> QED
    BY <2>2, <2>3
<1>4. CASE ArrayAdd
  <2>1. Head(stack) = "arrAdd" /\ partial' = [partial EXCEPT ![1].items = Append(@, atom)]
    BY <1>4 DEF ArrayAdd, At
  <2>2. partial' = [partial EXCEPT ![1].items = Append(partial[1].items, atom)]
    BY <2>1
  <2>3. Extended(partial[1].type, partial[1].items, partial[1].key, atom)
          = Append(partial[1].items, atom)
    BY <1>2, <2>1 DEF Extended
  <2> QED
    BY <1>1, <1>2, <1>3, <2>2, <2>3, AddOK
<1>5. CASE ObjectAdd
  <2> DEFINE items == partial[1].items
             key   == partial[1].key
             known == \E i \in DOMAIN items : items[i][1] = key
  <2>1. Head(stack) = "objAdd" /\ partial[1].type = "object"
    BY <1>2, <1>5 DEF ObjectAdd, At
  <2>2. /\ known => partial' = partial
        /\ ~known => partial' = [partial EXCEPT ![1].items = Append(items, <<key, atom>>)]
    BY <1>5 DEF ObjectAdd
  <2>3. /\ known => Extended(partial[1].type, items, key, atom) = items
        /\ ~known => Extended(partial[1].type, items, key, atom) = Append(items, <<key, atom>>)
    BY <2>1 DEF Extended
  <2>4. CASE known
    <3>1. partial' = partial
      BY <2>2, <2>4
    <3>2. partial'[1].items = Extended(partial[1].type, partial[1].items, partial[1].key, atom)
      BY <2>3, <2>4, <3>1
    <3> QED
      BY <1>1, <3>1, <3>2, AddOK
  <2>5. CASE ~known
    <3>1. partial' = [partial EXCEPT ![1].items = Append(partial[1].items, <<key, atom>>)]
      BY <2>2, <2>5
    <3>2. Extended(partial[1].type, partial[1].items, partial[1].key, atom)
            = Append(partial[1].items, <<key, atom>>)
      BY <2>3, <2>5
    <3> HIDE DEF items, key, known
    <3>3. /\ Len(partial') = Len(partial) /\ partial'[1].type = partial[1].type
          /\ partial'[1].items = Append(partial[1].items, <<key, atom>>)
          /\ \A n \in 1..Len(partial) : n # 1 => partial'[n] = partial[n]
      BY <1>3, <3>1
    <3>4. partial'[1].items = Extended(partial[1].type, partial[1].items, partial[1].key, atom)
      BY <3>2, <3>3
    <3> QED
      BY <1>1, <3>3, <3>4, AddOK
  <2> QED
    BY <2>4, <2>5
<1> QED
  BY <1>4, <1>5

\* The closing bracket of a container is passed.
LEMMA CloseOK ==
  ASSUME CommaInv, FramesInv, Parsing, NEW F, NEW o, PartOK(F, o),
         Head(stack) \in Loops, ~AtEOF, next = Closing(partial[1].type), ~lastWasComma,
         match, Goto(<<"skip">>), atom' = <<partial[1].type, partial[1].items>>,
         partial' = Tail(partial), UNCHANGED start
  PROVE  \E G, p, i : /\ p = Tail(o) /\ i = o[1].from /\ PartOK(G, p)' /\ Begins(p, i)'
                      /\ Whole(i, Taken + 1, <<partial[1].type, partial[1].items>>) \in G
<1>0. /\ start \in Nat /\ Taken \in Nat /\ start <= Taken /\ Len(partial) \in Nat
      /\ Taken <= Len(data) /\ Len(data) \in Nat
      /\ partial \in Seq(Container) /\ (partial # <<>> => Len(partial) > 0)
      /\ ContainersOK(F, o) /\ Derivation(data, F)
      /\ stack \in Seq(Labels) /\ StackOK /\ stack # <<>> /\ Here(F, o)
  BY Basics
<1>1. Place = Head(stack) /\ Place # "parseJSON" /\ Head(stack) \notin Roots /\ nextChar
  BY DEF Place, Roots, Loops, match
<1>2. partial # <<>> /\ White(data, o[1].to + 1, Taken)
  BY <1>0, <1>1 DEF Here, AtLoop
<1>3. Passed
  BY <1>0, <1>1, Passes
<1>4. /\ o \in Seq(Spans) /\ o # <<>> /\ Len(o) = Len(partial) /\ 1 \in 1..Len(partial)
      /\ o[1].from \in Nat /\ o[1].to \in Nat /\ start < o[1].from
      /\ o[1].from <= o[1].to /\ o[1].to <= Taken
      /\ Begun(o[1].from, o[1].to, <<partial[1].type, partial[1].items>>) \in F
  BY <1>0, <1>2, InnermostSpan
<1>5. PICK i, l, j, tree :
        /\ i \in Nat /\ l \in Nat /\ j \in Nat
        /\ i = o[1].from /\ l = o[1].to /\ j = Taken + 1
        /\ tree = <<partial[1].type, partial[1].items>>
  <2>1. PICK j \in Nat : j = Taken + 1
    BY <1>0
  <2>2. PICK tree : tree = <<partial[1].type, partial[1].items>>
    OBVIOUS
  <2> QED
    BY <1>4, <2>1, <2>2
<1>6. /\ Taken' = j /\ data' = data /\ next = data[j] /\ start' = start /\ j <= Len(data)
      /\ j \in 1..Len(data) /\ i \in 1..Len(data) /\ i <= j /\ l \in i..j - 1 /\ j - 1 = Taken
      /\ i \in start' + 1..Taken' /\ j \in start' + 1..Taken' /\ start' <= Taken'
      /\ Taken' \in Nat /\ Taken <= Taken' /\ j + 1 > j /\ j + 1 \in Int /\ j \in Int
  <2>1. Taken' = j /\ data' = data /\ next = data[j] /\ j <= Len(data) /\ start' = start
    BY <1>3, <1>5 DEF Passed
  <2>2. i \in Nat /\ l \in Nat /\ j \in Nat /\ start < i /\ i <= l /\ l < j /\ j - 1 = Taken
    BY <1>0, <1>4, <1>5
  <2>3. /\ i <= j /\ l \in i..j - 1 /\ i \in start + 1..j /\ j \in start + 1..j
        /\ start <= j /\ Taken <= j /\ j + 1 > j /\ j + 1 \in Int /\ j \in Int /\ 1 <= i
    BY <1>0, <2>2
  <2>4. j \in 1..Len(data) /\ i \in 1..Len(data)
    BY <2>1, <2>2, <2>3
  <2> QED
    BY <2>1, <2>2, <2>3, <2>4
<1>7. atom' = tree /\ tree[1] = partial[1].type
  BY <1>5
<1>8. PICK G : G = F \cup {Whole(i, j, tree)}
  OBVIOUS
<1>9. ByRule(data, F, Whole(i, j, tree))
  <2>1. Closes(data, F, i, j, tree)
    <3>1. Begun(i, l, tree) \in F /\ White(data, l + 1, j - 1)
      BY <1>2, <1>4, <1>5, <1>6
    <3>2. data[j] = Closing(tree[1])
      BY <1>6, <1>7
    <3> QED
      BY <1>6, <3>1, <3>2 DEF Closes
  <2>2. PICK f : f = Whole(i, j, tree)
    OBVIOUS
  <2>3. f[4] = tree /\ f = Whole(i, j, f[4])
    BY <2>2 DEF Whole
  <2>4. ByRule(data, F, f)
    BY <1>6, <2>1, <2>3 DEF ByRule
  <2> QED
    BY <2>2, <2>4
<1>10. Derivation(data, G)
  BY <1>0, <1>8, <1>9, FactsMore
<1>11. PICK p : p = Tail(o)
  OBVIOUS
<1>12. /\ p \in Seq(Spans) /\ Len(p) = Len(partial) - 1
       /\ \A n \in 1..Len(partial) - 1 : p[n] = o[n + 1]
  BY <1>4, <1>11, HeadTailProperties
<1>13. /\ Len(partial') = Len(partial) - 1
       /\ \A n \in 1..Len(partial) - 1 : partial'[n] = partial[n + 1]
  BY <1>0, <1>2, HeadTailProperties
<1>14. ASSUME NEW n \in 1..Len(partial')
       PROVE  /\ start < p[n].from /\ p[n].from <= p[n].to /\ p[n].to <= Taken'
              /\ Begun(p[n].from, p[n].to, <<partial'[n].type, partial'[n].items>>) \in G
              /\ n = Len(partial') => p[n].from = start + 1
              /\ n < Len(partial') =>
                   SlotAt(data, partial'[n + 1].type, partial'[n + 1].key,
                          p[n + 1].from, p[n + 1].to, p[n].from)
  <2>1. /\ n \in 1..Len(partial) - 1 /\ n + 1 \in 1..Len(partial)
        /\ n = Len(partial') <=> n + 1 = Len(partial)
        /\ n < Len(partial') => n + 1 < Len(partial) /\ n + 1 \in 1..Len(partial) - 1
    BY <1>0, <1>13
  <2>2. p[n] = o[n + 1] /\ partial'[n] = partial[n + 1] /\ o[n + 1] \in Spans
    BY <1>4, <1>12, <1>13, <2>1, ElementOfSeq
  <2>3. PICK m \in 1..Len(partial) : m = n + 1
    BY <2>1
  <2>4. /\ start < o[m].from /\ o[m].from <= o[m].to /\ o[m].to <= Taken
        /\ Begun(o[m].from, o[m].to, <<partial[m].type, partial[m].items>>) \in F
        /\ m = Len(partial) => o[m].from = start + 1
        /\ m < Len(partial) =>
             SlotAt(data, partial[m + 1].type, partial[m + 1].key,
                    o[m + 1].from, o[m + 1].to, o[m].from)
    BY <1>0, <2>3 DEF ContainersOK
  <2>5. o[m].to <= Taken'
    BY <1>0, <1>5, <1>6, <2>2, <2>3, <2>4 DEF Spans
  <2>6. ASSUME n < Len(partial')
        PROVE  SlotAt(data, partial'[n + 1].type, partial'[n + 1].key,
                      p[n + 1].from, p[n + 1].to, p[n].from)
    <3>1. p[n + 1] = o[m + 1] /\ partial'[n + 1] = partial[m + 1]
      BY <1>12, <1>13, <2>1, <2>3, <2>6
    <3> QED
      BY <2>1, <2>2, <2>3, <2>4, <2>6, <3>1
  <2> QED
    BY <1>8, <2>1, <2>2, <2>3, <2>4, <2>5, <2>6
<1>15. ContainersOK(G, p)'
  BY <1>6, <1>12, <1>13, <1>14 DEF ContainersOK, Spans
<1>16. Begins(p, i)'
  <2>1. ASSUME partial' = <<>> PROVE i = start' + 1
    <3>1. Len(partial) = 1
      <4>1. partial' \in Seq(Container)
        BY <1>0, <1>2, HeadTailProperties
      <4>2. Len(partial') = 0
        BY <2>1, <4>1, EmptySeq
      <4> QED
        BY <1>0, <1>13, <4>2
    <3>2. o[1].from = start + 1
      BY <1>0, <1>4, <3>1 DEF ContainersOK
    <3> QED
      BY <1>5, <1>6, <3>2
  <2>2. ASSUME partial' # <<>>
        PROVE  SlotAt(data', partial'[1].type, partial'[1].key, p[1].from, p[1].to, i)
    <3>1. partial' \in Seq(Container)
      BY <1>0, <1>2, HeadTailProperties
    <3>2. 1 \in 1..Len(partial) - 1 /\ 1 < Len(partial)
      BY <1>0, <1>13, <2>2, <3>1, EmptySeq
    <3>3. SlotAt(data, partial[1 + 1].type, partial[1 + 1].key,
                 o[1 + 1].from, o[1 + 1].to, o[1].from)
      BY <1>0, <1>4, <3>2 DEF ContainersOK
    <3>4. p[1] = o[1 + 1] /\ partial'[1] = partial[1 + 1]
      BY <1>12, <1>13, <3>2
    <3> QED
      BY <1>5, <1>6, <3>3, <3>4
  <2> QED
    BY <2>1, <2>2 DEF Begins
<1>17. AfterValue(G, p)'
  <2>1. White(data', j + 1, Taken')
    BY <1>6, WhiteMore
  <2>2. Whole(i, j, atom') \in G
    BY <1>7, <1>8
  <2> QED
    BY <1>6, <1>16, <2>1, <2>2 DEF AfterValue, ReadValue, Whole
<1>18. Place' \in {"exprEnd", "rootEnd"}
  <2>1. stack[2] \in {"exprEnd", "rootEnd"} /\ Below(Head(stack)) \subseteq Below("skip")
    BY <1>0, <1>1, UnderHead, BelowValues DEF Loops
  <2> QED
    BY <1>0, <1>1, <2>1, GotoLabel
<1>19. Here(G, p)'
  BY <1>17, <1>18, HereIs
<1>20. (start <= Taken)' /\ RootOK' /\ Derivation(data, G)'
  BY <1>1, <1>6, <1>10 DEF PartOK, RootOK
<1>21. PartOK(G, p)'
  BY <1>15, <1>19, <1>20 DEF PartOK
<1> QED
  BY <1>5, <1>8, <1>11, <1>16, <1>21

\* The loop goes on to its next member or element.
ItemBegins ==
  /\ UNCHANGED <<streamVars, next, lastWasComma, start, partial>>
  /\ Head(stack) = "objLoop" => Head(stack') = "str" /\ stack'[2] = "objKey"
  /\ Head(stack) = "arrLoop" => Head(stack') = "expr"

LEMMA LoopsOK ==
  ASSUME CommaInv, FramesInv, Parsing, NEW F, NEW o, PartOK(F, o), ObjectLoop \/ ArrayLoop
  PROVE  /\ Head(stack) \in Loops /\ ~AtEOF /\ partial # <<>> /\ Head(stack) = LoopOf(partial[1])
         /\ partial[1].type = IF Head(stack) = "objLoop" THEN "object" ELSE "array"
         /\ next # Closing(partial[1].type) => PartOK(F, o)' /\ ItemBegins
         /\ next = Closing(partial[1].type) /\ lastWasComma => Throw("BAD_JSON")
         /\ next = Closing(partial[1].type) /\ ~lastWasComma =>
              /\ match /\ Goto(<<"skip">>) /\ partial' = Tail(partial) /\ UNCHANGED start
              /\ atom' = <<partial[1].type, partial[1].items>>
              /\ \E G, p, i : /\ p = Tail(o) /\ i = o[1].from /\ PartOK(G, p)' /\ Begins(p, i)'
                              /\ Whole(i, Taken + 1, <<partial[1].type, partial[1].items>>) \in G
<1>0. /\ Taken \in Nat /\ Len(partial) \in Nat /\ stack \in Seq(Labels) /\ StackOK
      /\ partial \in Seq(Container) /\ stack # <<>> /\ Here(F, o)
  BY Basics
<1>1. /\ Head(stack) \in Loops /\ Place = Head(stack) /\ Place # "parseJSON" /\ ~AtEOF
      /\ Head(stack) \notin Roots
  BY DEF ObjectLoop, ArrayLoop, On, At, Loops, Place, Roots
<1>2. /\ partial # <<>> /\ 1 \in 1..Len(partial) /\ Head(partial) = partial[1]
      /\ Head(stack) = "objLoop" => partial[1].type = "object"
      /\ Head(stack) = "arrLoop" => partial[1].type = "array"
  <2>1. Head(stack) \in Loops \cup {"objAdd", "arrAdd"}
    BY <1>1
  <2>2. Head(partial) = partial[1]
    BY DEF Head
  <2> QED
    BY <1>0, <2>1, <2>2, InnermostContainer
<1>3. (NextAt(data, o[1].from, o[1].to, Taken + 1) \/ Lost)
  BY <1>0, <1>1 DEF Here, AtLoop
<1>t. Head(stack) = LoopOf(partial[1]) /\ partial[1].type = IF Head(stack) = "objLoop" THEN "object" ELSE "array"
  BY <1>1, <1>2 DEF Loops, LoopOf
<1>4. ASSUME Close, next = Closing(partial[1].type)
      PROVE  /\ lastWasComma => Throw("BAD_JSON")
             /\ ~lastWasComma =>
                  /\ match /\ Goto(<<"skip">>) /\ partial' = Tail(partial) /\ UNCHANGED start
                  /\ atom' = <<partial[1].type, partial[1].items>>
                  /\ \E G, p, i : /\ p = Tail(o) /\ i = o[1].from /\ PartOK(G, p)' /\ Begins(p, i)'
                                  /\ Whole(i, Taken + 1, <<partial[1].type, partial[1].items>>) \in G
  <2>1. ASSUME lastWasComma PROVE Throw("BAD_JSON")
    BY <1>4, <2>1 DEF Close
  <2>2. ASSUME ~lastWasComma
        PROVE  /\ match /\ Goto(<<"skip">>) /\ partial' = Tail(partial) /\ UNCHANGED start
               /\ atom' = <<partial[1].type, partial[1].items>>
               /\ \E G, p, i : /\ p = Tail(o) /\ i = o[1].from /\ PartOK(G, p)' /\ Begins(p, i)'
                               /\ Whole(i, Taken + 1, <<partial[1].type, partial[1].items>>) \in G
    <3>1. /\ match /\ Goto(<<"skip">>) /\ partial' = Tail(partial) /\ UNCHANGED start
          /\ atom' = <<partial[1].type, partial[1].items>>
      BY <1>2, <1>4, <2>2 DEF Close, callVars
    <3>2. \E G, p, i : /\ p = Tail(o) /\ i = o[1].from /\ PartOK(G, p)' /\ Begins(p, i)'
                       /\ Whole(i, Taken + 1, <<partial[1].type, partial[1].items>>) \in G
      BY <1>1, <1>4, <2>2, <3>1, CloseOK
    <3> QED
      BY <1>4, <2>2, <3>1, <3>2
  <2> QED
    BY <2>1, <2>2
<1>5. ASSUME Head(stack) = "objLoop",
             Jump(<<"str", "objKey", "expr", "exprEnd", "objAdd", "objLoop">>)
      PROVE  PartOK(F, o)' /\ ItemBegins
  <2> DEFINE new == <<"str", "objKey", "expr", "exprEnd", "objAdd", "objLoop">>
  <2>1. /\ Goto(new) /\ UNCHANGED <<streamVars, start, partial, next>>
        /\ Taken' = Taken /\ data' = data
    BY <1>5, Stays DEF Jump, Peek, treeVars, callVars
  <2>2. new \in Seq(Labels) /\ new # <<>> /\ Len(new) = 6 /\ new[1] = "str" /\ new[2] = "objKey"
    <3>1. new # <<>> /\ Len(new) = 6 /\ new[1] = "str" /\ new[2] = "objKey"
      BY SMT
    <3> QED
      BY <3>1, PushedLabels
  <2>3. Place' = "str" /\ Head(stack') = "str" /\ stack'[2] = "objKey"
    <3> HIDE DEF new
    <3>1. /\ Head(stack') = new[1] /\ Len(stack') = Len(new) + Len(stack) - 1
          /\ \A i \in 1..Len(stack') :
               stack'[i] = IF i <= Len(new) THEN new[i] ELSE stack[i - Len(new) + 1]
      BY <1>0, <2>1, <2>2, GotoPlace
    <3>2. Len(stack) \in Nat
      BY <1>0, LenProperties
    <3>3. 2 \in 1..Len(stack') /\ 2 <= Len(new)
      BY <2>2, <3>1, <3>2
    <3>4. stack'[2] = new[2]
      BY <3>1, <3>3
    <3> QED
      BY <2>2, <3>1, <3>4 DEF Place
  <2>4. (TextBegins(o, Taken + 1) \/ Lost)'
    <3>1. CASE Lost
      BY <2>1, <3>1 DEF Lost
    <3>2. CASE NextAt(data, o[1].from, o[1].to, Taken + 1)
      <4>1. PICK k : k = Taken' + 1
        OBVIOUS
      <4>2. KeyBegins(o, k)
        BY <1>2, <1>5, <2>1, <3>2, <4>1 DEF KeyBegins
      <4>3. KeyBegins(o, k)'
        BY <2>1, <4>2, SameSlots
      <4> QED
        BY <2>3, <4>1, <4>3 DEF TextBegins
    <3> QED
      BY <1>3, <3>1, <3>2
  <2>5. Steady(F, o)
    BY <2>1, <2>3, <2>4, HereIs DEF Steady
  <2>6. ItemBegins
    BY <1>5, <2>1, <2>3 DEF ItemBegins, Jump
  <2> QED
    BY <1>1, <2>5, <2>6, SteadyIsOK
<1>6. ASSUME Head(stack) = "arrLoop", Jump(<<"expr", "exprEnd", "arrAdd", "arrLoop">>)
      PROVE  PartOK(F, o)' /\ ItemBegins
  <2>1. /\ Goto(<<"expr", "exprEnd", "arrAdd", "arrLoop">>)
        /\ UNCHANGED <<streamVars, start, partial, next>> /\ Taken' = Taken /\ data' = data
    BY <1>6, Stays DEF Jump, Peek, treeVars, callVars
  <2>2. Head(stack') = "expr"
    <3> DEFINE new == <<"expr", "exprEnd", "arrAdd", "arrLoop">>
    <3>1. new \in Seq(Labels) /\ new # <<>> /\ new[1] = "expr"
      BY PushedLabels, SMT
    <3> HIDE DEF new
    <3>2. Goto(new)
      BY <2>1 DEF new
    <3> QED
      BY <1>0, <3>1, <3>2, GotoPlace
  <2>3. AtExpression(o)'
    <3>1. CASE Lost
      BY <2>1, <2>2, <3>1 DEF Lost, AtExpression
    <3>2. CASE NextAt(data, o[1].from, o[1].to, Taken + 1)
      <4>1. PICK k : k = Taken' + 1
        OBVIOUS
      <4>2. SlotAt(data, partial[1].type, partial[1].key, o[1].from, o[1].to, k)
        BY <1>2, <1>6, <2>1, <3>2, <4>1 DEF SlotAt
      <4>3. Begins(o, k)
        BY <1>2, <4>2 DEF Begins
      <4>4. Begins(o, k)'
        BY <2>1, <4>3, SameSlots
      <4> QED
        BY <2>2, <4>1, <4>4 DEF AtExpression
    <3> QED
      BY <1>3, <3>1, <3>2
  <2>4. Place' = "expr"
    BY <2>2 DEF Place
  <2>5. Steady(F, o)
    BY <2>1, <2>3, <2>4, HereIs DEF Steady
  <2>6. ItemBegins
    BY <1>6, <2>1, <2>2 DEF ItemBegins, Jump
  <2> QED
    BY <1>1, <2>5, <2>6, SteadyIsOK
<1> QED
  <2>1. CASE ObjectLoop
    <3>1. /\ Head(stack) = "objLoop"
          /\ next = "}" => Close
          /\ next # "}" => Jump(<<"str", "objKey", "expr", "exprEnd", "objAdd", "objLoop">>)
      BY <2>1 DEF ObjectLoop, On, At
    <3>2. Closing(partial[1].type) = "}"
      BY <1>2, <3>1 DEF Closing
    <3> QED
      BY <1>1, <1>2, <1>t, <1>4, <1>5, <3>1, <3>2
  <2>2. CASE ArrayLoop
    <3>1. /\ Head(stack) = "arrLoop"
          /\ next = "]" => Close
          /\ next # "]" => Jump(<<"expr", "exprEnd", "arrAdd", "arrLoop">>)
      BY <2>2 DEF ArrayLoop, On, At
    <3>2. Closing(partial[1].type) = "]"
      BY <1>2, <3>1 DEF Closing
    <3> QED
      BY <1>1, <1>2, <1>t, <1>4, <1>6, <3>1, <3>2
  <2> QED
    BY <2>1, <2>2

(***************************************************************************)
(* Calls                                                                   *)
(***************************************************************************)

\* What a step does that neither throws nor ends the call.
GoesOn == UNCHANGED result /\ Head(stack') \notin {"construct", "readSync"}

LEMMA ScalarsGoOn ==
  ASSUME stack \in Seq(Labels), StackOK,
         \/ BeginString \/ NotAString \/ StringChar \/ Escape
         \/ validateUnicodeSequence \/ StringDone
         \/ Natural \/ AfterZero \/ MoreDigits \/ Decimal \/ Fraction \/ Exponent
         \/ ExponentSign \/ NumberEnd \/ NumberDone
         \/ BeginLiteral \/ Letters \/ LiteralDone
  PROVE  GoesOn \/ Throw("BAD_JSON")
<1>0. stack # <<>> /\ Head(stack) \notin Roots
  BY DEF BeginString, NotAString, StringChar, Escape, validateUnicodeSequence, HexDigit,
         StringDone, Natural, AfterZero, MoreDigits, DigitsOf, Decimal, Fraction, Exponent,
         ExponentSign, NumberEnd, NumberDone, BeginLiteral, Letters, LiteralDone, On, At, Roots
<1>1. \/ Throw("BAD_JSON")
      \/ /\ UNCHANGED result
         /\ \/ UNCHANGED stack \/ Return \/ Goto(<<>>)
            \/ \E l \in Labels \ {"construct", "readSync"} : Goto(<<l>>)
            \/ \E l, m \in Labels \ {"construct", "readSync"} : Goto(<<l, m>>)
  <2>l. /\ {"chars", "escape", "hex1", "hex2", "hex3", "hex4", "skip", "zero", "digits10",
            "digits16", "digits8", "digits2", "decimal", "exponent", "expSign", "numEnd",
            "natural", "numDone", "letters", "litDone"} \subseteq Labels \ {"construct", "readSync"}
    BY SMT DEF Labels, Checked, Unchecked
  <2>1. CASE BeginString \/ NotAString \/ StringChar
    BY <2>l, <2>1 DEF BeginString, NotAString, StringChar, PushNext, callVars
  <2>2. CASE Escape \/ validateUnicodeSequence \/ StringDone
    BY <2>l, <2>2 DEF Escape, validateUnicodeSequence, HexDigit, StringDone, PushNext, callVars
  <2>3. CASE Natural \/ AfterZero \/ MoreDigits
    BY <2>l, <2>3 DEF Natural, AfterZero, MoreDigits, DigitsOf, PushNext, Jump, callVars
  <2>4. CASE Decimal \/ Fraction \/ Exponent
    BY <2>l, <2>4 DEF Decimal, Fraction, Exponent, PushNext, PushMatch, Jump, callVars
  <2>5. CASE ExponentSign \/ NumberEnd \/ NumberDone
    BY <2>l, <2>5 DEF ExponentSign, NumberEnd, NumberDone, PushMatch, Jump, callVars
  <2>6. CASE BeginLiteral \/ Letters \/ LiteralDone
    BY <2>l, <2>6 DEF BeginLiteral, Letters, LiteralDone, PushNext, Jump, callVars
  <2> QED
    BY <2>1, <2>2, <2>3, <2>4, <2>5, <2>6
<1>2. ASSUME Return \/ Goto(<<>>) PROVE Head(stack') \notin {"construct", "readSync"}
  <2>1. Head(stack') \in Below(Head(stack))
    BY <1>0, <1>2, HeadBelow
  <2>2. \A l : "construct" \notin Below(l) /\ "readSync" \notin Below(l)
    BY DEF Below
  <2> QED
    BY <2>1, <2>2
<1>3. ASSUME UNCHANGED stack PROVE Head(stack') \notin {"construct", "readSync"}
  BY <1>0, <1>3 DEF Roots
<1> QED
  BY <1>0, <1>1, <1>2, <1>3, HeadAfter DEF GoesOn

LEMMA TreesGoOn ==
  ASSUME stack \in Seq(Labels), StackOK,
         \/ Expression \/ ExpressionEnd \/ ObjectLoop \/ ObjectKey \/ ObjectAdd
         \/ ArrayLoop \/ ArrayAdd \/ skipWhite \/ ParseJSON
  PROVE  GoesOn \/ Throw("BAD_JSON")
<1>0. stack # <<>> /\ (Head(stack) \notin Roots \/ ParseJSON)
  BY DEF Expression, ExpressionEnd, ObjectLoop, ObjectKey, ObjectAdd, ArrayLoop, ArrayAdd,
         skipWhite, ParseJSON, On, At, Roots
<1>1. \/ Throw("BAD_JSON")
      \/ /\ UNCHANGED result
         /\ \/ Head(stack) \notin Roots /\ (UNCHANGED stack \/ Return \/ Goto(<<>>))
            \/ \E l \in Labels \ {"construct", "readSync"} : Goto(<<l>>)
            \/ \E l, m \in Labels \ {"construct", "readSync"} : Goto(<<l, m>>)
            \/ Goto(<<"expr", "exprEnd", "arrAdd", "arrLoop">>)
            \/ Goto(<<"str", "objKey", "expr", "exprEnd", "objAdd", "objLoop">>)
  <2>l. {"str", "strDone", "natural", "fraction", "lit", "skip", "objLoop", "arrLoop", "expr",
         "rootEnd"} \subseteq Labels \ {"construct", "readSync"}
    BY SMT DEF Labels, Checked, Unchecked
  <2>1. CASE Expression
    BY <2>l, <2>1 DEF Expression, Open, Jump, callVars
  <2>2. CASE ExpressionEnd
    BY <1>0, <2>l, <2>2 DEF ExpressionEnd, On, At, Roots, callVars
  <2>3. CASE ObjectLoop \/ ArrayLoop
    BY <2>l, <2>3 DEF ObjectLoop, ArrayLoop, Close, Jump, callVars
  <2>4. CASE ObjectKey
    BY <2>l, <2>4 DEF ObjectKey, callVars
  <2>5. CASE ObjectAdd \/ ArrayAdd
    BY <2>5 DEF ObjectAdd, ArrayAdd, At, Roots, callVars
  <2>6. CASE skipWhite
    BY <2>6 DEF skipWhite, At, Roots, Jump, callVars
  <2>7. CASE ParseJSON
    BY <2>l, <2>7 DEF ParseJSON, Jump, callVars
  <2> QED
    BY <2>1, <2>2, <2>3, <2>4, <2>5, <2>6, <2>7
<1>2. ASSUME Return \/ Goto(<<>>), Head(stack) \notin Roots PROVE Head(stack') \notin {"construct", "readSync"}
  <2>1. Head(stack') \in Below(Head(stack))
    BY <1>0, <1>2, HeadBelow
  <2>2. \A l : "construct" \notin Below(l) /\ "readSync" \notin Below(l)
    BY DEF Below
  <2> QED
    BY <2>1, <2>2
<1>3. ASSUME UNCHANGED stack, Head(stack) \notin Roots PROVE Head(stack') \notin {"construct", "readSync"}
  BY <1>3 DEF Roots
<1>l. {"expr", "str"} \cap {"construct", "readSync"} = {}
  OBVIOUS
<1> QED
  BY <1>0, <1>1, <1>2, <1>3, <1>l, HeadAfter DEF GoesOn

\* A call begins: nothing of its text was passed.
LEMMA ConstructOK ==
  ASSUME CommaInv, FramesInv, Construct, partial = <<>>, pos = start, ~(kind = "file" /\ eof)
  PROVE  PartOK({}, <<>>)'
<1>1. /\ pos \in Nat /\ Len(data) \in Nat /\ pos <= Len(data) /\ stack \in Seq(Labels) /\ StackOK
      /\ kind \in {"cstr", "view", "file", "rpc"} /\ stack # <<>> /\ Head(stack) = "construct"
      /\ ~AtEOF /\ Goto(<<"parseJSON">>)
  BY LenProperties DEF CommaInv, MessageInv, TypeOK, StreamKinds, Construct, On, At
<1>2. /\ kind' = kind /\ data' = data /\ eof' = (kind = "file" /\ pos = Len(data))
      /\ pos' = IF pos < Len(data) THEN pos + 1 ELSE pos
      /\ start' = start /\ partial' = <<>>
  BY DEF Construct, nextChar, ReadMoves, treeVars, callVars
<1>3. Place' = "parseJSON"
  <2>1. "parseJSON" \in Labels \ {"skip"} /\ Below("construct") = {} /\ "parseJSON" \in Roots
    BY PlaceSets, BelowValues DEF Checked, Roots
  <2> QED
    BY <1>1, <2>1, PlaceAfter
<1>4. Taken' = pos
  <2>1. CASE pos < Len(data)
    <3>0. pos # Len(data)
      BY <1>1, <2>1
    <3>1. ~(kind' = "file" /\ eof') /\ pos' = pos + 1
      <4>1. ~eof'
        BY <1>2, <3>0
      <4> QED
        BY <1>2, <2>1, <4>1
    <3>2. Taken' = pos' - 1
      BY <3>1 DEF Taken
    <3> QED
      BY <1>1, <3>1, <3>2
  <2>2. CASE pos = Len(data)
    <3>1. kind = "file"
      BY <1>1, <2>2 DEF AtEOF, CommaInv, CallBegan, Returned
    <3>2. kind' = "file" /\ eof' /\ pos' = pos
      <4>1. eof'
        BY <1>2, <2>2, <3>1
      <4>2. ~(pos < Len(data))
        BY <1>1, <2>2
      <4> QED
        BY <1>2, <3>1, <4>1, <4>2
    <3> QED
      BY <3>2 DEF Taken
  <2> QED
    BY <1>1, <2>1, <2>2
<1>5. ContainersOK({}, <<>>)'
  <2>1. <<>> \in Seq(Spans) /\ Len(<<>>) = 0 /\ Len(partial') = 0 /\ 1..0 = {}
    BY <1>2
  <2> QED
    BY <2>1 DEF ContainersOK
<1>6. Here({}, <<>>)'
  BY <1>2, <1>3, <1>4 DEF Here, Loops, StringPlaces, NumberPlaces
<1>7. Derivation(data, {})'
  BY DEF Derivation
<1> QED
  BY <1>1, <1>2, <1>3, <1>4, <1>5, <1>6, <1>7 DEF PartOK

\* The first character decides whether there is anything to parse.
LEMMA ParseJSONOK ==
  ASSUME CommaInv, FramesInv, Parsing, NEW F, NEW o, PartOK(F, o), ParseJSON
  PROVE  PartOK(F, o)' \/ Throw("BAD_JSON")
<1>0. /\ start \in Nat /\ Taken \in Nat /\ start <= Taken /\ Len(partial) \in Nat
      /\ stack \in Seq(Labels) /\ StackOK /\ stack # <<>> /\ Here(F, o)
      /\ ContainersOK(F, o) /\ Derivation(data, F)
  BY Basics
<1>1. Head(stack) = "parseJSON" /\ ~AtEOF /\ Place = "parseJSON"
  BY DEF ParseJSON, On, At, Place
<1>2. partial = <<>> /\ Taken = start
  BY <1>0, <1>1 DEF Here
<1>3. CASE next \in {"{", "["} /\ Jump(<<"expr", "rootEnd">>)
  <2>1. /\ Goto(<<"expr", "rootEnd">>) /\ UNCHANGED <<streamVars, start, partial>>
        /\ Taken' = Taken /\ data' = data /\ start' = start /\ partial' = partial
    BY <1>3, Stays DEF Jump, Peek, treeVars, callVars
  <2>2. Head(stack') = "expr" /\ Place' = "expr"
    <3>1. "expr" \in Labels /\ "rootEnd" \in Labels
      BY PlaceSets DEF Checked, Unchecked
    <3>2. Head(stack') = "expr"
      BY <1>0, <2>1, <3>1, HeadAfter
    <3> QED
      BY <3>2 DEF Place
  <2>4. RootOK'
    <3>1. next = data[Taken + 1]
      BY <1>0, <1>1, Ahead
    <3>2. data'[start' + 1] = next
      BY <1>2, <2>1, <3>1
    <3> QED
      BY <1>3, <3>2 DEF RootOK
  <2>5. AtExpression(o)'
    <3>1. PICK k : k = start + 1
      OBVIOUS
    <3>2. Begins(o, k)'
      BY <1>2, <2>1, <3>1 DEF Begins
    <3>3. k = Taken' + 1
      BY <1>2, <2>1, <3>1
    <3> QED
      BY <2>2, <3>2, <3>3 DEF AtExpression
  <2>6. Here(F, o)'
    BY <2>2, <2>5, HereIs
  <2>7. ContainersOK(F, o)'
    <3>1. UNCHANGED <<data, start, partial>>
      BY <2>1
    <3>2. Taken' \in Nat /\ Taken <= Taken'
      BY <1>0, <2>1
    <3> QED
      BY <1>0, <3>1, <3>2, KeepContainers
  <2>8. Derivation(data, F)' /\ (start <= Taken)'
    BY <1>0, <2>1
  <2> QED
    BY <2>4, <2>6, <2>7, <2>8 DEF PartOK
<1> QED
  BY <1>3 DEF ParseJSON

\* Nothing is open where the root's value was read.
LEMMA NothingOpen ==
  ASSUME FramesInv, stack # <<>>, StackOK, stack \in Seq(Labels), Head(stack) \in Roots
  PROVE  partial = <<>>
<1>1. SUFFICES ASSUME partial # <<>> PROVE FALSE
  OBVIOUS
<1>2. Len(stack) \in Nat \ {0} /\ Head(stack) = stack[1]
  BY EmptySeq, SMT
<1>3. ~(1 \in 1..Len(stack) - 1)
  BY <1>2, BelowValues DEF StackOK, Linked
<1>4. \A n \in Nat \ {0} : ~(1 \in 1..n - 1) => n = 1
  BY SMT
<1>5. Len(stack) = 1
  BY <1>2, <1>3, <1>4
<1>6. 1 \in 1..Len(partial) /\ partial \in Seq(Container)
  BY <1>1, EmptySeq, LenProperties DEF FramesInv
<1>7. PICK place \in [1..Len(partial) -> 1..Len(stack)] : OwnedBy(stack, partial, place)
  BY DEF FramesInv, Owned
<1>8. place[1] = 1 /\ stack[place[1]] = LoopOf(partial[1])
  BY <1>5, <1>6, <1>7 DEF OwnedBy
<1> QED
  BY <1>2, <1>8 DEF LoopOf, Roots

\* The call ends with a value from where it began.
LEMMA RootEndOK ==
  ASSUME CommaInv, FramesInv, Parsing, NEW F, NEW o, PartOK(F, o), RootEnd
  PROVE  TreeIsDerived'
<1>0. /\ start \in Nat /\ Taken \in Nat /\ start <= Taken
      /\ stack \in Seq(Labels) /\ StackOK /\ stack # <<>> /\ Here(F, o) /\ Derivation(data, F)
  BY Basics
<1>1. Head(stack) = "rootEnd" /\ Place = "rootEnd" /\ Head(stack) \in Roots
  BY DEF RootEnd, At, Place, Roots
<1>2. partial = <<>>
  BY <1>0, <1>1, NothingOpen
<1>3. PICK k, j \in start + 1..Taken : ReadValue(F, o, k, j) /\ White(data, j + 1, Taken)
  BY <1>0, <1>1 DEF Here, AfterValue
<1>4. k = start + 1 /\ Whole(k, j, atom) \in F
  BY <1>2, <1>3 DEF ReadValue, Begins
<1>5. Derived(data, start + 1, j, atom)
  BY <1>0, <1>4 DEF Derived
<1>6. Taken <= pos /\ pos \in Nat
  BY <1>0, Cursor
<1>w. White(data, j + 1, pos - 1)
  <2>1. pos - 1 <= Taken
    BY <1>6 DEF Taken
  <2>2. \A n \in j + 1..pos - 1 : n \in j + 1..Taken
    BY <1>0, <1>6, <2>1
  <2> QED
    BY <1>3, <2>2 DEF White, Run
<1>8. RootOK
  BY <1>1 DEF PartOK
<1>9. /\ data' = data /\ pos' = pos /\ start' = start /\ atom' = atom /\ kind' = kind
      /\ Taken' = Taken
  BY DEF RootEnd, streamVars, treeVars, Taken
<1>10. TreeIsDerived
  BY <1>3, <1>5, <1>8, <1>w DEF TreeIsDerived
<1> QED
  BY <1>9, <1>10 DEF TreeIsDerived, RootOK

\* Every step of the parser but its last.
LEMMA PartStep ==
  ASSUME CommaInv, FramesInv, Parsing, NEW F, NEW o, PartOK(F, o), Step, ~RootEnd
  PROVE  (\E G, p : PartOK(G, p)') \/ \E error \in Errors : Throw(error)
<1>0. "EOF" \in Errors /\ "BAD_JSON" \in Errors
  BY DEF Errors
<1>1. CASE EndOfData \/ ParseJSON \/ skipWhite
  BY <1>0, <1>1, ParseJSONOK, SkipOK, SteadyIsOK DEF EndOfData
<1>2. ~Construct /\ ~ReadSync
  BY DEF Construct, ReadSync, On, At, Parsing
<1>3. CASE \/ Expression \/ ExpressionEnd \/ ObjectLoop \/ ObjectKey \/ ObjectAdd
           \/ ArrayLoop \/ ArrayAdd
  <2>1. ExpressionEnd => Place # "parseJSON"
    BY DEF ExpressionEnd, On, At, Place
  <2>2. CASE ExpressionEnd \/ ObjectKey
    BY <1>0, <2>1, <2>2, ExpressionEndOK, SteadyIsOK, ObjectKeyOK
  <2>3. CASE Expression
    <3>1. Head(stack) = "expr" /\ ~AtEOF
      BY <2>3 DEF Expression, On, At
    <3> QED
      BY <2>3, <3>1, ExpressionOK, OpenOK
  <2>4. CASE ObjectLoop \/ ArrayLoop
    BY <1>0, <2>4, LoopsOK
  <2>5. CASE ObjectAdd \/ ArrayAdd
    <3>1. Head(stack) \in {"objAdd", "arrAdd"} /\ Place = Head(stack) /\ Here(F, o)
      BY <2>5, Basics DEF ObjectAdd, ArrayAdd, At, Place
    <3>2. PICK k, j \in start + 1..Taken : ItemAt(F, o, k, j)
      BY <3>1 DEF Here, AtAdd
    <3> QED
      BY <2>5, <3>2, AddsOK
  <2> QED
    BY <1>3, <2>2, <2>3, <2>4, <2>5
<1>4. CASE \/ BeginString \/ NotAString \/ StringChar \/ Escape \/ validateUnicodeSequence
  BY <1>0, <1>4, StringStepsOK
<1>5. CASE StringDone \/ NumberDone \/ LiteralDone
  BY <1>0, <1>5, DoneOK
<1>6. CASE \/ Natural \/ AfterZero \/ MoreDigits \/ Decimal \/ Fraction \/ Exponent
           \/ ExponentSign \/ NumberEnd \/ BeginLiteral \/ Letters
  BY <1>0, <1>6, ScalarStepsOK
<1> QED
  BY <1>1, <1>2, <1>3, <1>4, <1>5, <1>6 DEF Step

LEMMA InitGrammarInv ==
  ASSUME "rpc" \in Kinds =>
           \A json \in Inputs : Len(json) > 0 /\ json[Len(json)] = "newline"
  PROVE  Init => GrammarInv
<1> SUFFICES ASSUME Init PROVE GrammarInv
  OBVIOUS
<1>1. stack # <<>> /\ Head(stack) = "construct" /\ result = "none" /\ partial = <<>>
  BY SMT DEF Init, CallInit
<1>2. pos = start /\ eof = FALSE
  BY DEF Init, CallInit, StreamInit, StreamOver
<1> QED
  BY <1>1, <1>2, InitCommaInv, InitFramesInv DEF GrammarInv, Parsing

\* What is known of the text read, where nothing changes.
LEMMA PartStutters ==
  ASSUME UNCHANGED <<kind, data, pos, eof, next, lastWasComma, stack, text, partial, atom, result,
                     start>>,
         NEW F, NEW o, PartOK(F, o)
  PROVE  PartOK(F, o)'
<1>1. Taken' = Taken /\ Place' = Place /\ (Lost' <=> Lost) /\ (RootOK' <=> RootOK)
  BY DEF Taken, Place, Lost, RootOK
<1>2. \A k : (Begins(o, k)' <=> Begins(o, k)) /\ (KeyBegins(o, k)' <=> KeyBegins(o, k))
  BY DEF Begins, KeyBegins
<1>3. \A q : (TextBegins(o, q)' <=> TextBegins(o, q))
  BY <1>2 DEF TextBegins
<1>4. /\ AtExpression(o) => AtExpression(o)'
      /\ AtLoop(o) => AtLoop(o)'
      /\ AfterValue(F, o) => AfterValue(F, o)'
      /\ AtAdd(F, o) => AtAdd(F, o)'
  BY <1>1, <1>2 DEF AtExpression, AtLoop, AfterValue, AtAdd, ItemAt, ReadValue
<1>5. /\ (TextBegins(o, Taken + 1) \/ Lost) => (TextBegins(o, Taken + 1) \/ Lost)'
      /\ (Begins(o, Taken + 1) \/ Lost) => (Begins(o, Taken + 1) \/ Lost)'
  <2>1. PICK k : k = Taken + 1
    OBVIOUS
  <2>2. k = Taken' + 1
    BY <1>1, <2>1
  <2> QED
    BY <1>1, <1>2, <1>3, <2>1, <2>2
<1>6. InString(o) => InString(o)'
  BY <1>1, <1>3 DEF InString, HexPart
<1>7. /\ ReadString(o) => ReadString(o)'
      /\ ReadNumber(o) => ReadNumber(o)'
      /\ ReadLiteral(o) => ReadLiteral(o)'
      /\ InLiteral(o) => InLiteral(o)'
  BY <1>1, <1>2 DEF ReadString, ReadNumber, ReadLiteral, InLiteral
<1>8. \A q : NumberPart(q) => NumberPart(q)'
  <2>1. \A q, m : DueAt(q, m)' <=> DueAt(q, m)
    BY DEF DueAt
  <2> QED
    BY <1>1, <2>1 DEF NumberPart, InDigits, InBase, PointAt
<1>9. InNumber(o) => InNumber(o)'
  BY <1>1, <1>2, <1>8 DEF InNumber
<1>10. Here(F, o)'
  BY <1>1, <1>4, <1>5, <1>6, <1>7, <1>9 DEF PartOK, Here
<1> QED
  BY <1>1, <1>10 DEF PartOK, ContainersOK

LEMMA NextGrammarInv == GrammarInv /\ [Next]_vars => GrammarInv'
<1> SUFFICES ASSUME GrammarInv, [Next]_vars PROVE GrammarInv'
  OBVIOUS
<1>0. /\ CommaInv /\ FramesInv /\ stack \in Seq(Labels) /\ StackOK
      /\ pos \in Nat /\ start \in Nat /\ Len(data) \in Nat
  BY LenProperties, SMT DEF GrammarInv, CommaInv, MessageInv, TypeOK
<1>1. CommaInv' /\ FramesInv'
  BY <1>0, NextCommaInv, NextFramesInv
<1>2. ASSUME NEW error \in Errors, Throw(error) PROVE GrammarInv'
  <2>1. stack' = <<"readSync">> /\ result' = error /\ error # "tree"
    BY <1>2 DEF Throw, Errors
  <2>2. stack' # <<>> /\ Head(stack') = "readSync"
    BY <2>1
  <2> QED
    BY <1>1, <2>1, <2>2 DEF GrammarInv, Parsing, At
<1>3. CASE Step /\ Parsing /\ ~RootEnd
  <2>0. stack # <<>> /\ Head(stack) # "readSync" /\ result = "none" /\ ~Construct /\ ~ReadSync
    BY <1>3 DEF GrammarInv, Parsing, Returned, At, Construct, ReadSync, On
  <2>1. PICK F, o : PartOK(F, o)
    BY <1>3 DEF GrammarInv
  <2>2. (\E G, p : PartOK(G, p)') \/ \E error \in Errors : Throw(error)
    BY <1>0, <1>3, <2>1, PartStep
  <2>3. GoesOn \/ \E error \in Errors : Throw(error)
    <3>1. "BAD_JSON" \in Errors /\ "EOF" \in Errors
      BY DEF Errors
    <3>2. EndOfData => Throw("EOF")
      BY DEF EndOfData
    <3>3. GoesOn \/ Throw("BAD_JSON") \/ EndOfData
      BY <1>0, <1>3, <2>0, ScalarsGoOn, TreesGoOn DEF Step
    <3> QED
      BY <3>1, <3>2, <3>3
  <2>4. CASE GoesOn /\ \E G, p : PartOK(G, p)'
    <3>1. result' = "none" /\ ~At("construct")'
      BY <2>0, <2>4 DEF GoesOn, At
    <3> QED
      BY <1>1, <2>4, <3>1 DEF GrammarInv
  <2> QED
    BY <1>2, <2>2, <2>3, <2>4
<1>4. CASE RootEnd
  <2>1. Parsing
    BY <1>4 DEF RootEnd, At, Parsing
  <2>2. PICK F, o : PartOK(F, o)
    BY <2>1 DEF GrammarInv
  <2>3. TreeIsDerived'
    BY <1>0, <1>4, <2>1, <2>2, RootEndOK
  <2>4. stack' # <<>> /\ Head(stack') = "readSync"
    <3>1. stack # <<>> /\ Goto(<<"readSync">>) /\ "readSync" \in Labels
      BY <1>4, PlaceSets DEF RootEnd, At, Unchecked
    <3> QED
      BY <1>0, <3>1, HeadAfter
  <2> QED
    BY <1>1, <2>3, <2>4 DEF GrammarInv, Parsing, At
<1>5. CASE Step /\ ~Parsing /\ ~ReadSync
  <2>1. stack # <<>>
    BY <1>0, <1>5, StepEffect
  <2>2. CASE Head(stack) = "construct"
    <3>1. CASE EndOfData
      BY <1>2, <3>1 DEF EndOfData, Errors
    <3>2. CASE Construct
      <4>1. partial = <<>> /\ pos = start /\ ~(kind = "file" /\ eof) /\ result = "none"
        BY <2>1, <2>2 DEF GrammarInv, At, Returned
      <4>2. PartOK({}, <<>>)'
        BY <1>0, <3>2, <4>1, ConstructOK
      <4>3. result' = "none"
        BY <3>2, <4>1 DEF Construct, callVars
      <4>4. ~At("construct")'
        <5>1. Goto(<<"parseJSON">>) /\ "parseJSON" \in Labels
          BY <3>2, PlaceSets DEF Construct, Checked
        <5>2. Head(stack') = "parseJSON"
          BY <1>0, <2>1, <5>1, HeadAfter
        <5> QED
          BY <5>2 DEF At
      <4>5. \E F, o : PartOK(F, o)'
        BY <4>2
      <4> QED
        BY <1>1, <4>3, <4>4, <4>5 DEF GrammarInv
    <3> QED
      BY <1>5, <2>1, <2>2, <3>1, <3>2, ConstructFirst
  <2>3. Head(stack) # "readSync"
    <3>1. Head(stack) = "readSync" => ReadSync \/ EndOfData
      BY <1>5 DEF Step, Construct, ParseJSON, RootEnd, skipWhite, Expression, ExpressionEnd,
             ObjectLoop, ObjectKey, ObjectAdd, ArrayLoop, ArrayAdd, BeginString, NotAString,
             StringChar, Escape, validateUnicodeSequence, HexDigit, StringDone, Natural,
             AfterZero, MoreDigits, DigitsOf, Decimal, Fraction, Exponent, ExponentSign,
             NumberEnd, NumberDone, BeginLiteral, Letters, LiteralDone, On, At
    <3>2. "readSync" \notin Checked
      BY DEF Checked
    <3> QED
      BY <1>5, <3>1, <3>2 DEF EndOfData
  <2> QED
    BY <1>5, <2>1, <2>2, <2>3 DEF Parsing
<1>6. CASE ReadSync
  <2>1. /\ stack # <<>> /\ Head(stack) = "readSync" /\ ~Parsing
        /\ data' = data /\ start' = start /\ atom' = atom /\ result' = result
    BY <1>6 DEF ReadSync, SyncDiscard, SyncDone, At, Parsing, treeVars, callVars
  <2>2. stack' = stack \/ stack' = <<>>
    BY <1>0, <1>6, <2>1, ReadSyncReturns DEF ReadSync
  <2>3. pos' \in {pos, pos + 1} /\ kind' = kind /\ (kind # "rpc" => pos' = pos)
    BY <1>6 DEF ReadSync, SyncDiscard, SyncDone, SyncPending
  <2>4. TreeIsDerived => TreeIsDerived'
    <3>1. Taken' \in {Taken, Taken + 1} /\ Taken \in Int
      <4>1. kind = "rpc" => Taken = pos - 1 /\ Taken' = pos' - 1
        BY <2>3 DEF Taken
      <4>2. kind # "rpc" => Taken' = Taken
        BY <1>6, <2>3 DEF Taken, ReadSync, SyncDiscard, SyncDone
      <4>3. Taken \in {pos, pos - 1}
        BY DEF Taken
      <4> QED
        BY <1>0, <2>3, <4>1, <4>2, <4>3
    <3>2. \A j \in start + 1..Taken : j \in start' + 1..Taken'
      BY <1>0, <2>1, <3>1
    <3> QED
      BY <2>1, <2>3, <3>2 DEF TreeIsDerived, RootOK
  <2>5. ~Parsing' /\ ~At("construct")' /\ (Returned \/ At("readSync"))'
    BY <2>1, <2>2 DEF Parsing, At, Returned
  <2> QED
    BY <1>1, <2>1, <2>4, <2>5 DEF GrammarInv
<1>7. CASE CallAgain
  <2>1. /\ stack' = <<"construct">> /\ kind' = "rpc" /\ pos' = pos /\ start' = pos
        /\ partial' = <<>> /\ result' = "none"
    BY <1>7 DEF CallAgain, streamVars
  <2>2. stack' # <<>> /\ Head(stack') = "construct"
    BY <2>1
  <2> QED
    BY <1>1, <2>1, <2>2 DEF GrammarInv, Parsing
<1>8. CASE UNCHANGED vars
  <2>1. UNCHANGED <<kind, data, pos, eof, next, lastWasComma, stack, text, partial, atom, result,
                    start>>
    BY <1>8 DEF vars, streamVars, parserVars, treeVars, callVars
  <2>2. ASSUME NEW F, NEW o, PartOK(F, o) PROVE PartOK(F, o)'
    BY <2>1, <2>2, PartStutters
  <2>3. (Parsing' <=> Parsing) /\ (TreeIsDerived' <=> TreeIsDerived)
    BY <2>1 DEF Parsing, TreeIsDerived, RootOK, Taken
  <2> QED
    BY <1>1, <2>1, <2>2, <2>3 DEF GrammarInv, At, Returned
<1> QED
  BY <1>3, <1>4, <1>5, <1>6, <1>7, <1>8 DEF Next

\* Whatever text is parsed, over whatever stream: when parseJSON returns a
\* tree, the text that it passed begins with a document, and the tree is what
\* the rules make of it: strings, numbers and literals in place, commas and
\* colons where they belong, each value in its container under its key.
\* Assumed of a socket's peer: it ends its last message with a newline.
THEOREM AcceptedTextsAreDocuments ==
  ASSUME "rpc" \in Kinds =>
           \A json \in Inputs : Len(json) > 0 /\ json[Len(json)] = "newline"
  PROVE  Spec => [](Returned /\ result = "tree" => TreeIsDerived)
<1>1. GrammarInv => (Returned /\ result = "tree" => TreeIsDerived)
  BY DEF GrammarInv, Returned, Parsing
<1> QED
  BY InitGrammarInv, NextGrammarInv, <1>1, PTL DEF Spec
=============================================================================
