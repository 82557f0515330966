------------------------ MODULE CompletenessProofs -------------------------
(***************************************************************************)
(* parseJSON accepts every document.  GrammarProofs shows that a tree that *)
(* is returned is derived by the rules of JsonRules; this module shows the *)
(* converse.  FollowInv: whatever text goes on from what was read, and     *)
(* whatever document the rules derive in it from where the call began, the *)
(* parser goes along with it: it refuses nothing of it, and each value it  *)
(* has read is the one the document has there.  VerdictInv adds where such *)
(* a document ends, which tells a text that is malformed from one that is  *)
(* cut short.                                                              *)
(***************************************************************************)
EXTENDS GrammarProofs, WellFoundedInduction

-----------------------------------------------------------------------------
(***************************************************************************)
(* What the rules of JsonRules say of a text is decided by its characters: *)
(* texts that agree so far have the same strings, slots and numbers so     *)
(* far, and where a string, a number or an item ends is decided by where   *)
(* it begins.                                                              *)
(***************************************************************************)

\* The texts t and u have the same first n characters.
Agree(t, u, n) == \A i \in 1..n : t[i] = u[i]

\* Texts that agree up to n have the same runs there.
LEMMA AgreeRun ==
  ASSUME NEW t, NEW u, NEW n \in Int, Agree(t, u, n), NEW i \in Int, NEW j \in Int, i >= 1, j <= n,
         NEW S
  PROVE  Run(t, i, j, S) <=> Run(u, i, j, S)
BY SMT DEF Agree, Run

\* The same character between white space, ...
LEMMA AgreeBetween ==
  ASSUME NEW t, NEW u, NEW n \in Int, Agree(t, u, n), NEW i \in Int, NEW j \in Int, i >= 0,
         j - 1 <= n, NEW c
  PROVE  Between(t, i, c, j) <=> Between(u, i, c, j)
<1> SUFFICES ASSUME NEW m \in i + 1..j - 1
             PROVE  (t[m] = c /\ White(t, i + 1, m - 1) /\ White(t, m + 1, j - 1))
                    <=> (u[m] = c /\ White(u, i + 1, m - 1) /\ White(u, m + 1, j - 1))
  BY DEF Between
<1>1. m \in 1..n /\ i + 1 >= 1 /\ m - 1 <= n /\ m + 1 >= 1
  OBVIOUS
<1>2. t[m] = u[m]
  BY <1>1 DEF Agree
<1>3. White(t, i + 1, m - 1) <=> White(u, i + 1, m - 1)
  BY <1>1, AgreeRun DEF White
<1>4. White(t, m + 1, j - 1) <=> White(u, m + 1, j - 1)
  BY <1>1, AgreeRun DEF White
<1> QED
  BY <1>2, <1>3, <1>4

\* the same places for the next item, ...
LEMMA AgreeNext ==
  ASSUME NEW t, NEW u, NEW n \in Int, Agree(t, u, n), NEW i \in Int, NEW p \in Int, i >= 0, p >= 0,
         NEW k \in Int, k - 1 <= n
  PROVE  NextAt(t, i, p, k) <=> NextAt(u, i, p, k)
<1>1. White(t, i + 1, k - 1) <=> White(u, i + 1, k - 1)
  BY AgreeRun DEF White
<1>2. Between(t, p, ",", k) <=> Between(u, p, ",", k)
  BY AgreeBetween
<1> QED
  BY <1>1, <1>2 DEF NextAt

\* the same pieces of a string, ...
LEMMA AgreePiece ==
  ASSUME NEW t, NEW u, NEW n \in Int, Agree(t, u, n), NEW i \in Int, NEW j \in Int, i >= 1,
         j - 1 <= n, PieceAt(t, i, j)
  PROVE  PieceAt(u, i, j)
<1>1. CASE j = i + 1 /\ isAllowedAlpha(t[i])
  <2>1. i \in 1..n
    BY <1>1
  <2> QED
    BY <1>1, <2>1 DEF Agree, PieceAt
<1>2. CASE j = i + 2 /\ t[i] = "backslash" /\ t[i + 1] \in SimpleEscapes
  <2>1. i \in 1..n /\ i + 1 \in 1..n
    BY <1>2
  <2> QED
    BY <1>2, <2>1 DEF Agree, PieceAt
<1>3. CASE j = i + 6 /\ t[i] = "backslash" /\ t[i + 1] = "u" /\ Run(t, i + 2, i + 5, Hex)
  <2>1. i \in 1..n /\ i + 1 \in 1..n /\ i + 2 >= 1 /\ i + 5 <= n
    BY <1>3
  <2>2. Run(u, i + 2, i + 5, Hex)
    BY <1>3, <2>1, AgreeRun
  <2> QED
    BY <1>3, <2>1, <2>2 DEF Agree, PieceAt
<1> QED
  BY <1>1, <1>2, <1>3 DEF PieceAt

\* and with them the same beginnings of strings, ...
LEMMA AgreeBody ==
  ASSUME NEW t, NEW u, NEW n \in Int, Agree(t, u, n), NEW i \in Int, NEW j \in Int, i >= 1,
         j - 1 <= n, BodyAt(t, i, j)
  PROVE  BodyAt(u, i, j)
<1>1. PICK S \in SUBSET (i..j) :
        i \in S /\ j \in S /\ \A k \in S \ {j} : \E m \in S : PieceAt(t, k, m)
  BY DEF BodyAt
<1>2. ASSUME NEW k \in S \ {j} PROVE \E m \in S : PieceAt(u, k, m)
  <2>1. PICK m \in S : PieceAt(t, k, m)
    BY <1>1
  <2>2. k \in Int /\ m \in Int /\ k >= 1 /\ m - 1 <= n
    BY <1>1
  <2> QED
    BY <2>1, <2>2, AgreePiece
<1> QED
  BY <1>1, <1>2 DEF BodyAt

\* the same characters inside, ...
LEMMA AgreeInside ==
  ASSUME NEW t, NEW u, NEW n \in Int, Agree(t, u, n), NEW i \in Int, NEW j \in Int, i >= 1, j <= n
  PROVE  SubSeq(t, i, j) = SubSeq(u, i, j)
<1> DEFINE S == {t[k] : k \in 1..n}
<1>1. \A k \in i..j : t[k] \in S /\ u[k] \in S /\ t[k] = u[k]
  BY DEF Agree
<1> HIDE DEF S
<1>2. \A k \in 1..j - i + 1 : i + k - 1 \in i..j
  OBVIOUS
<1>3. /\ SubSeq(t, i, j) \in Seq(S) /\ SubSeq(u, i, j) \in Seq(S)
      /\ Len(SubSeq(t, i, j)) = Len(SubSeq(u, i, j))
      /\ Len(SubSeq(t, i, j)) = IF i <= j THEN j - i + 1 ELSE 0
      /\ \A k \in 1..j - i + 1 : SubSeq(t, i, j)[k] = t[i + k - 1] /\ SubSeq(u, i, j)[k] = u[i + k - 1]
  BY <1>1, SubSeqProperties
<1>4. \A k \in 1..Len(SubSeq(t, i, j)) : k \in 1..j - i + 1
  BY <1>3
<1>5. \A k \in 1..Len(SubSeq(t, i, j)) : SubSeq(t, i, j)[k] = SubSeq(u, i, j)[k]
  BY <1>1, <1>2, <1>3, <1>4
<1> QED
  BY <1>3, <1>5, SeqEqual

\* the same strings, ...
LEMMA AgreeString ==
  ASSUME NEW t, NEW u, NEW n \in Int, Agree(t, u, n), NEW i \in Int, NEW j \in Int, i >= 1, j <= n,
         StringAt(t, i, j)
  PROVE  StringAt(u, i, j) /\ Inside(u, i, j) = Inside(t, i, j)
<1>1. i < j /\ t[i] = "quote" /\ t[j] = "quote" /\ BodyAt(t, i + 1, j)
  BY DEF StringAt
<1>2. i \in 1..n /\ j \in 1..n /\ i + 1 >= 1 /\ j - 1 <= n /\ i + 1 \in Int /\ j - 1 \in Int
  BY <1>1
<1>3. BodyAt(u, i + 1, j)
  BY <1>1, <1>2, AgreeBody
<1>4. Inside(u, i, j) = Inside(t, i, j)
  BY <1>2, AgreeInside DEF Inside
<1> QED
  BY <1>1, <1>2, <1>3, <1>4 DEF StringAt, Agree

\* and the same slots for a value, with their keys.
LEMMA AgreeSlot ==
  ASSUME NEW t, NEW u, NEW n \in Int, Agree(t, u, n), NEW i \in Int, NEW p \in Int, i >= 0, p >= 0,
         NEW k \in Int, k - 1 <= n, NEW type, NEW key, SlotAt(t, type, key, i, p, k)
  PROVE  SlotAt(u, type, key, i, p, k)
<1>1. CASE type = "array" /\ NextAt(t, i, p, k)
  BY <1>1, AgreeNext DEF SlotAt
<1>2. CASE /\ type = "object"
           /\ \E q, r \in p + 1..k - 1 : /\ NextAt(t, i, p, q) /\ StringAt(t, q, r)
                                         /\ key = Inside(t, q, r) /\ Between(t, r, ":", k)
  <2>1. PICK q \in p + 1..k - 1, r \in p + 1..k - 1 :
          /\ NextAt(t, i, p, q) /\ StringAt(t, q, r) /\ key = Inside(t, q, r) /\ Between(t, r, ":", k)
    BY <1>2
  <2>2. q \in Int /\ r \in Int /\ q - 1 <= n /\ r <= n /\ q >= 1 /\ r >= 0
    BY <2>1
  <2>3. NextAt(u, i, p, q)
    BY <2>1, <2>2, AgreeNext
  <2>4. StringAt(u, q, r) /\ key = Inside(u, q, r)
    BY <2>1, <2>2, AgreeString
  <2>5. Between(u, r, ":", k)
    BY <2>1, <2>2, AgreeBetween
  <2> QED
    BY <1>2, <2>3, <2>4, <2>5 DEF SlotAt
<1> QED
  BY <1>1, <1>2 DEF SlotAt

\* A set of natural numbers has a least element.
LEMMA Least ==
  ASSUME NEW T, T \subseteq Nat, T # {}
  PROVE  \E x \in T : \A y \in T : x <= y
<1> DEFINE R == OpToRel(<, Nat)
<1>1. IsWellFoundedOn(R, Nat)
  BY NatLessThanWellFounded
<1>2. \A x, y \in Nat : x < y => <<x, y>> \in R
  BY DEF OpToRel
<1> HIDE DEF R
<1>3. PICK x \in T : \A y \in T : ~(<<y, x>> \in R)
  BY <1>1, WFMin
<1>4. ASSUME NEW y \in T PROVE x <= y
  <2>1. x \in Nat /\ y \in Nat
    OBVIOUS
  <2>2. ~(y < x)
    BY <1>2, <1>3, <2>1
  <2> QED
    BY <2>1, <2>2
<1> QED
  BY <1>4

\* A character or escape begins with no quote and ends in one place.
LEMMA PieceFacts ==
  ASSUME NEW t, NEW k \in Int, NEW m, PieceAt(t, k, m)
  PROVE  /\ m \in Int /\ k < m /\ t[k] # "quote"
         /\ \A n : PieceAt(t, k, n) => n = m
<1>1. m \in Int /\ k < m
  BY SMT DEF PieceAt
<1>2. ASSUME t[k] = "quote" PROVE FALSE
  BY <1>2 DEF PieceAt, isAllowedAlpha
<1>3. ASSUME NEW n, PieceAt(t, k, n) PROVE n = m
  <2>1. isAllowedAlpha(t[k]) => t[k] # "backslash"
    BY DEF isAllowedAlpha
  <2>2. "u" \notin SimpleEscapes
    BY DEF SimpleEscapes
  <2> QED
    BY <1>3, <2>1, <2>2 DEF PieceAt
<1> QED
  BY <1>1, <1>2, <1>3

\* Of two strings that begin at i one goes through the end of the other.
LEMMA BodyMeets ==
  ASSUME NEW t, NEW i \in Nat, NEW x \in Nat, NEW r \in Nat,
         BodyAt(t, i, x), BodyAt(t, i, r), t[r] = "quote"
  PROVE  x = r \/ \E m \in i..r : PieceAt(t, x, m)
<1>1. PICK S \in SUBSET (i..x) :
        i \in S /\ x \in S /\ \A k \in S \ {x} : \E m \in S : PieceAt(t, k, m)
  BY DEF BodyAt
<1>2. PICK R \in SUBSET (i..r) :
        i \in R /\ r \in R /\ \A k \in R \ {r} : \E m \in R : PieceAt(t, k, m)
  BY DEF BodyAt
<1> DEFINE T == {x - c : c \in S \cap R}
<1>3. T \subseteq Nat /\ T # {}
  <2>1. \A c \in S \cap R : x - c \in Nat
    BY <1>1
  <2>2. x - i \in T
    BY <1>1, <1>2
  <2> QED
    BY <2>1, <2>2
<1>4. PICK d \in T : \A y \in T : d <= y
  <2> HIDE DEF T
  <2> QED
    BY <1>3, Least
<1>5. PICK c \in S \cap R : d = x - c
  OBVIOUS
<1>6. \A m \in S \cap R : m <= c
  <2> SUFFICES ASSUME NEW m \in S \cap R PROVE m <= c
    OBVIOUS
  <2>1. x - c <= x - m
    BY <1>4, <1>5
  <2> QED
    BY <1>1, <2>1
<1> HIDE DEF T
<1>7. c \in Int
  BY <1>1
<1>8. c = x \/ c = r
  <2> SUFFICES ASSUME c # x, c # r PROVE FALSE
    OBVIOUS
  <2>1. PICK m \in S : PieceAt(t, c, m)
    BY <1>1
  <2>2. PICK n \in R : PieceAt(t, c, n)
    BY <1>2
  <2>3. n = m /\ c < m /\ m \in Int
    BY <1>7, <2>1, <2>2, PieceFacts
  <2> QED
    BY <1>6, <1>7, <2>3
<1>9. CASE c = x
  BY <1>2, <1>9
<1>10. CASE c = r /\ r # x
  <2>1. PICK m \in S : PieceAt(t, r, m)
    BY <1>1, <1>10
  <2> QED
    BY <2>1, PieceFacts
<1> QED
  BY <1>8, <1>9, <1>10

\* A string ends in one place.
LEMMA StringEnd ==
  ASSUME NEW t, NEW q \in Nat, NEW r \in Nat, NEW n \in Nat, StringAt(t, q, r), StringAt(t, q, n)
  PROVE  r = n
<1>1. BodyAt(t, q + 1, r) /\ BodyAt(t, q + 1, n) /\ t[n] = "quote" /\ t[r] = "quote" /\ q + 1 \in Nat
  BY DEF StringAt
<1>2. r = n \/ \E m \in q + 1..n : PieceAt(t, r, m)
  BY <1>1, BodyMeets
<1> QED
  BY <1>1, <1>2, PieceFacts

\* White space ends in one place.
LEMMA WhiteEnd ==
  ASSUME NEW t, NEW i \in Int, NEW j \in Int, NEW k \in Int, i <= j, i <= k,
         White(t, i, j - 1), White(t, i, k - 1), ~isWhiteSpace(t[j]), ~isWhiteSpace(t[k])
  PROVE  j = k
BY SMT DEF White, Run, isWhiteSpace

\* A character between white space leads to one place only, ...
LEMMA BetweenEnd ==
  ASSUME NEW t, NEW i \in Int, NEW j \in Int, NEW k \in Int, NEW c, ~isWhiteSpace(c),
         Between(t, i, c, j), Between(t, i, c, k), ~isWhiteSpace(t[j]), ~isWhiteSpace(t[k])
  PROVE  j = k
<1>1. PICK m \in i + 1..j - 1 : t[m] = c /\ White(t, i + 1, m - 1) /\ White(t, m + 1, j - 1)
  BY DEF Between
<1>2. PICK n \in i + 1..k - 1 : t[n] = c /\ White(t, i + 1, n - 1) /\ White(t, n + 1, k - 1)
  BY DEF Between
<1>3. /\ m \in Int /\ n \in Int /\ i + 1 \in Int /\ i + 1 <= m /\ i + 1 <= n
      /\ m + 1 \in Int /\ m + 1 <= j /\ (n + 1 <= k)
  OBVIOUS
<1>4. m = n
  BY <1>1, <1>2, <1>3, WhiteEnd
<1> QED
  BY <1>1, <1>2, <1>3, <1>4, WhiteEnd

\* The structural characters are no white space.
LEMMA NotWhite ==
  /\ ~isWhiteSpace(",") /\ ~isWhiteSpace(":") /\ ~isWhiteSpace("quote")
  /\ ~isWhiteSpace("}") /\ ~isWhiteSpace("]")
  /\ \A type : ~isWhiteSpace(Closing(type)) /\ Closing(type) # "," /\ Closing(type) # "quote"
BY DEF isWhiteSpace, WhiteSpace, Closing

\* so the next item begins at one place only, ...
LEMMA NextEnd ==
  ASSUME NEW t, NEW i \in Int, NEW p \in Int, NEW j \in Int, NEW k \in Int,
         NextAt(t, i, p, j), NextAt(t, i, p, k), ~isWhiteSpace(t[j]), ~isWhiteSpace(t[k])
  PROVE  j = k
<1>1. CASE p = i
  BY <1>1, WhiteEnd DEF NextAt
<1>2. CASE p # i
  BY <1>2, BetweenEnd, NotWhite DEF NextAt
<1> QED
  BY <1>1, <1>2

\* What is due in a container is due in one place, and under one key.
LEMMA SlotEnd ==
  ASSUME NEW t, NEW i \in Nat, NEW p \in Nat, NEW j \in Nat, NEW k \in Nat, NEW type,
         NEW key, NEW name, SlotAt(t, type, key, i, p, j), SlotAt(t, type, name, i, p, k),
         ~isWhiteSpace(t[j]), ~isWhiteSpace(t[k])
  PROVE  j = k /\ (type = "object" => key = name)
<1>1. CASE type = "array"
  <2>1. NextAt(t, i, p, j) /\ NextAt(t, i, p, k) /\ type # "object"
    BY <1>1 DEF SlotAt
  <2> QED
    BY <2>1, NextEnd
<1>2. CASE type = "object"
  <2>1. PICK q \in p + 1..j - 1, r \in p + 1..j - 1 :
          /\ NextAt(t, i, p, q) /\ StringAt(t, q, r) /\ key = Inside(t, q, r) /\ Between(t, r, ":", j)
    BY <1>2 DEF SlotAt
  <2>2. PICK m \in p + 1..k - 1, n \in p + 1..k - 1 :
          /\ NextAt(t, i, p, m) /\ StringAt(t, m, n) /\ name = Inside(t, m, n) /\ Between(t, n, ":", k)
    BY <1>2 DEF SlotAt
  <2>3. q \in Nat /\ r \in Nat /\ m \in Nat /\ n \in Nat
    OBVIOUS
  <2>a. q \in Int /\ r \in Int /\ m \in Int /\ i \in Int /\ p \in Int /\ j \in Int /\ k \in Int
    OBVIOUS
  <2>4. q = m
    <3>1. ~isWhiteSpace(t[q]) /\ ~isWhiteSpace(t[m])
      BY <2>1, <2>2, NotWhite DEF StringAt
    <3> QED
      BY <2>1, <2>2, <2>a, <3>1, NextEnd
  <2>5. r = n
    BY <2>1, <2>2, <2>3, <2>4, StringEnd
  <2>6. j = k
    <3>1. ~isWhiteSpace(":")
      BY NotWhite
    <3> QED
      BY <2>1, <2>2, <2>a, <2>5, <3>1, BetweenEnd
  <2> QED
    BY <2>1, <2>2, <2>4, <2>5, <2>6
<1> QED
  BY <1>1, <1>2 DEF SlotAt

\* Where something is due no bracket ends the container.
LEMMA NextNoEnd ==
  ASSUME NEW t, NEW i \in Int, NEW p \in Int, NEW k \in Int, NEW e \in Int, NEW type,
         NextAt(t, i, p, k), ~isWhiteSpace(t[k]), p = i => t[k] # Closing(type),
         p < e, White(t, p + 1, e - 1), t[e] = Closing(type)
  PROVE  FALSE
<1>1. ~isWhiteSpace(t[e]) /\ t[e] # ","
  BY NotWhite
<1>2. CASE p = i
  <2>1. /\ p < k /\ White(t, p + 1, k - 1)
        /\ p + 1 \in Int /\ p + 1 <= k /\ p + 1 <= e
    BY <1>2, SMT DEF NextAt
  <2>2. k = e
    BY <1>1, <2>1, WhiteEnd
  <2> QED
    BY <1>2, <2>2
<1>3. CASE p # i
  <2>1. PICK m \in p + 1..k - 1 : t[m] = "," /\ White(t, p + 1, m - 1)
    BY <1>3 DEF NextAt, Between
  <2>a. m \in Int /\ p + 1 \in Int /\ p + 1 <= m /\ p + 1 <= e
    OBVIOUS
  <2>b. ~isWhiteSpace(t[m])
    BY <2>1, NotWhite
  <2>2. m = e
    BY <1>1, <2>1, <2>a, <2>b, WhiteEnd
  <2> QED
    BY <1>1, <2>1, <2>2
<1> QED
  BY <1>2, <1>3

\* nor where a slot for a value is.
LEMMA SlotNoEnd ==
  ASSUME NEW t, NEW i \in Nat, NEW p \in Nat, NEW k \in Nat, NEW e \in Nat, NEW type, NEW key,
         SlotAt(t, type, key, i, p, k), ~isWhiteSpace(t[k]),
         type = "array" /\ p = i => t[k] # Closing(type),
         p < e, White(t, p + 1, e - 1), t[e] = Closing(type)
  PROVE  FALSE
<1>1. CASE type = "array"
  <2>1. NextAt(t, i, p, k)
    BY <1>1 DEF SlotAt
  <2>2. i \in Int /\ p \in Int /\ k \in Int /\ e \in Int
    OBVIOUS
  <2> QED
    BY <1>1, <2>1, <2>2, NextNoEnd
<1>2. CASE type = "object"
  <2>1. PICK q \in p + 1..k - 1 : NextAt(t, i, p, q) /\ t[q] = "quote"
    BY <1>2 DEF SlotAt, StringAt
  <2>2. t[q] # Closing(type) /\ ~isWhiteSpace(t[q])
    BY <2>1, NotWhite
  <2>3. i \in Int /\ p \in Int /\ q \in Int /\ e \in Int
    OBVIOUS
  <2> QED
    BY <2>1, <2>2, <2>3, NextNoEnd
<1> QED
  BY <1>1, <1>2 DEF SlotAt

\* What stands behind a number or a literal, and what numbers are made of.
Stops == WhiteSpace \cup {",", "}", "]"}
NumberChars == Hex \cup {".", "-", "+", "x", "o"}

\* How the classes of characters in numbers overlap, or do not.
LEMMA Classes ==
  /\ Digits \subseteq Hex /\ Oct \subseteq Digits /\ Bin \subseteq Digits
  /\ \A c \in Digits : c \notin {".", "-", "+", "e", "E", "x", "o", "b", "quote", "{", "["} /\ c \notin LowerAlpha
  /\ \A c : isExponent(c) => c \in Hex /\ c # "." /\ c \notin {"-", "+", "x", "o", "b"}
  /\ "b" \in Hex /\ "." \notin Hex
<1>1. Digits \subseteq Hex
  <2> SUFFICES ASSUME NEW c \in Digits PROVE c \in Hex
    OBVIOUS
  <2> QED
    BY DEF Hex, Char, isHex
<1>2. Oct \subseteq Digits
  BY DEF Oct, isOct
<1>3. Bin \subseteq Digits
  BY DEF Bin, isBin, Digits
<1>4. \A c \in Digits : c \notin {".", "-", "+", "e", "E", "x", "o", "b", "quote", "{", "["}
  BY Zenon DEF Digits
<1>5. \A c \in Digits : c \notin LowerAlpha
  BY Zenon DEF Digits, LowerAlpha, LowerHex
<1>6. \A c : isExponent(c) => c \in Hex
  BY Zenon DEF isExponent, Hex, Char, isHex, UpperHex, LowerHex, LowerAlpha
<1>7. \A c : isExponent(c) => c # "." /\ c \notin {"-", "+", "x", "o", "b"}
  BY Zenon DEF isExponent
<1>8. "b" \in Hex
  BY Zenon DEF Hex, Char, isHex, LowerHex, LowerAlpha
<1>9. "." \notin Hex
  BY Zenon DEF Hex, isHex, LowerHex, UpperHex, Digits
<1> QED
  BY <1>1, <1>2, <1>3, <1>4, <1>5, <1>6, <1>7, <1>8, <1>9

\* What a number or a literal is made of does not stop one.
LEMMA NoStops ==
  /\ \A c \in NumberChars : c \notin Stops
  /\ \A c \in LowerAlpha : c \notin Stops
<1>1. \A c \in LowerAlpha : c \notin WhiteSpace
  BY Zenon DEF LowerAlpha, LowerHex, WhiteSpace
<1>2. \A c \in LowerAlpha : c \notin {",", "}", "]"}
  BY Zenon DEF LowerAlpha, LowerHex
<1>3. \A c \in Hex : c \notin WhiteSpace
  BY Zenon DEF Hex, isHex, Digits, UpperHex, LowerHex, WhiteSpace
<1>4. \A c \in Hex : c \notin {",", "}", "]"}
  BY Zenon DEF Hex, isHex, Digits, UpperHex, LowerHex
<1>5. \A c \in {".", "-", "+", "x", "o"} : c \notin WhiteSpace
  BY Zenon DEF WhiteSpace
<1>6. \A c \in {".", "-", "+", "x", "o"} : c \notin {",", "}", "]"}
  BY Zenon
<1> QED
  BY <1>1, <1>2, <1>3, <1>4, <1>5, <1>6 DEF Stops, NumberChars

\* An integer begins with a digit.
LEMMA IntegerStart ==
  ASSUME NEW t, NEW i \in Int, NEW j \in Int, IntegerAt(t, i, j)
  PROVE  t[i] \in Digits /\ i <= j
<1>1. "0" \in Digits
  BY DEF Digits
<1>2. Run(t, i, j, Digits) /\ i <= j => t[i] \in Digits
  BY SMT DEF Run
<1>3. i <= j
  BY SMT DEF IntegerAt
<1> QED
  BY <1>1, <1>2, <1>3 DEF IntegerAt

\* Where one part of a number goes on beyond another that begins with it.
LEMMA IntegerOnly ==
  ASSUME NEW t, NEW i \in Int, NEW j \in Int, IntegerAt(t, i, j), NEW k \in i..j
  PROVE  t[k] \in NumberChars
<1>0. \A c \in Digits \cup Hex \cup Oct \cup Bin : c \in NumberChars
  BY Classes DEF NumberChars
<1>1. CASE Run(t, i, j, Digits)
  BY <1>0, <1>1 DEF Run
<1>2. ASSUME NEW p \in {"x", "o", "b"}, NEW S \in {Hex, Oct, Bin}, t[i] = "0", t[i + 1] = p,
             Run(t, i + 2, j, S)
      PROVE  t[k] \in NumberChars
  <2>1. "0" \in Digits /\ p \in NumberChars
    BY Classes DEF NumberChars, Digits
  <2>2. k = i \/ k = i + 1 \/ k \in i + 2..j
    OBVIOUS
  <2>3. k \in i + 2..j => t[k] \in S
    BY <1>2 DEF Run
  <2> QED
    BY <1>0, <1>2, <2>1, <2>2, <2>3
<1>3. CASE i = j /\ t[i] = "0"
  <2>1. k = i
    BY <1>3
  <2>2. "0" \in Digits
    BY DEF Digits
  <2> QED
    BY <1>0, <1>3, <2>1, <2>2
<1> QED
  BY <1>1, <1>2, <1>3 DEF IntegerAt

\* There is one way to take the sign.
LEMMA SignDet ==
  ASSUME NEW t, NEW q \in Int, NEW a \in Int, NEW m \in Int, SignAt(t, q, a), SignAt(t, q, m),
         t[a] \in Digits, t[m] \in Digits
  PROVE  a = m
<1>1. a # m => t[q] \in Digits /\ t[q] = "-"
  BY DEF SignAt
<1> QED
  BY <1>1, Classes

\* Where a shorter integer stops, a longer one goes on with a character of its own.
LEMMA IntegerCut ==
  ASSUME NEW t, Len(t) \in Int, NEW m \in Int, NEW j \in Int, NEW b \in Int,
         IntegerAt(t, m, j), IntegerAt(t, m, b), j < b, b <= Len(t)
  PROVE  t[j + 1] # "." /\ ~isExponent(t[j + 1]) /\ t[j + 1] \in NumberChars
<1>1. m <= j /\ j + 1 \in m..b /\ j + 1 \in Int /\ m + 1 \in Int /\ j < Len(t)
  BY IntegerStart
<1>2. t[j + 1] \in NumberChars
  BY <1>1, IntegerOnly
<1>3. CASE t[j + 1] \in Digits
  BY <1>2, <1>3, Classes DEF isExponent
<1>4. CASE t[m] # "0"
  <2>1. Run(t, m, b, Digits)
    BY <1>1, <1>4, SMT DEF IntegerAt
  <2> QED
    BY <1>1, <1>3, <2>1 DEF Run
<1>5. CASE t[m] = "0" /\ j = m
  <2>1. t[j + 1] \in {"x", "o", "b"}
    <3>1. b # m
      BY <1>1, <1>5
    <3> QED
      BY <1>5, <3>1 DEF IntegerAt
  <2> QED
    BY <1>2, <2>1, Classes
<1>6. CASE t[m] = "0" /\ j # m
  <2>0. j + 1 \in m + 2..b
    BY <1>1, <1>6
  <2>1. CASE t[m + 1] = "x"
    <3>1. t[j + 1] \notin Hex
      BY <1>1, <1>6, <2>1 DEF IntegerAt
    <3>2. Run(t, m + 2, b, Hex)
      <4>1. b # m
        BY <1>1
      <4> QED
        BY <1>6, <2>1, <4>1 DEF IntegerAt
    <3> QED
      BY <2>0, <3>1, <3>2 DEF Run
  <2>2. CASE t[m + 1] # "x"
    <3>1. Run(t, m + 2, b, Oct) \/ Run(t, m + 2, b, Bin)
      <4>1. b # m
        BY <1>1
      <4> QED
        BY <1>6, <2>2, <4>1 DEF IntegerAt
    <3>2. t[j + 1] \in Digits
      BY <2>0, <3>1, Classes DEF Run
    <3> QED
      BY <1>3, <3>2
  <2> QED
    BY <2>1, <2>2
<1> QED
  BY <1>4, <1>5, <1>6

\* The parts of a number's mantissa.
LEMMA MantissaParts ==
  ASSUME NEW t, NEW q \in Int, NEW j \in Int, MantissaAt(t, q, j), NEW m \in Int,
         SignAt(t, q, m), t[m] \in Digits
  PROVE  /\ q <= m
         /\ \E b \in m..j : IntegerAt(t, m, b) /\ FractionAt(t, b + 1, j)
<1>1. PICK a \in q..j, b \in q..j : SignAt(t, q, a) /\ IntegerAt(t, a, b) /\ FractionAt(t, b + 1, j)
  BY DEF MantissaAt
<1>2. a \in Int /\ b \in Int /\ t[a] \in Digits /\ a <= b
  BY <1>1, IntegerStart
<1>3. a = m
  BY <1>1, <1>2, SignDet
<1> QED
  BY <1>1, <1>2, <1>3

\* A mantissa begins with a sign or a digit.
LEMMA MantissaStart ==
  ASSUME NEW t, NEW q \in Int, NEW j \in Int, MantissaAt(t, q, j)
  PROVE  \E m \in q..j : SignAt(t, q, m) /\ t[m] \in Digits
<1>1. PICK a \in q..j, b \in q..j : SignAt(t, q, a) /\ IntegerAt(t, a, b) /\ FractionAt(t, b + 1, j)
  BY DEF MantissaAt
<1>2. a \in Int /\ b \in Int
  OBVIOUS
<1> QED
  BY <1>1, <1>2, IntegerStart

\* A mantissa is made of characters of numbers.
LEMMA MantissaOnly ==
  ASSUME NEW t, NEW q \in Int, NEW j \in Int, MantissaAt(t, q, j), NEW k \in q..j
  PROVE  t[k] \in NumberChars
<1>1. PICK a \in q..j, b \in q..j : SignAt(t, q, a) /\ IntegerAt(t, a, b) /\ FractionAt(t, b + 1, j)
  BY DEF MantissaAt
<1>2. a \in Int /\ b \in Int /\ a <= b
  BY <1>1, IntegerStart
<1>3. CASE k < a
  <2>1. k = q /\ a # q
    BY <1>1, <1>2, <1>3 DEF SignAt
  <2>2. t[k] = "-"
    BY <1>1, <2>1 DEF SignAt
  <2> QED
    BY <2>2 DEF NumberChars
<1>4. CASE k \in a..b
  BY <1>1, <1>2, <1>4, IntegerOnly
<1>5. CASE k > b
  <2>1. b + 1 # j + 1 /\ (b + 1) - 1 = b /\ j # (b + 1) - 1
    BY <1>2, <1>5
  <2>2. t[b + 1] = "." /\ Run(t, (b + 1) + 1, j, Digits)
    BY <1>1, <2>1 DEF FractionAt
  <2>3. k = b + 1 \/ k \in (b + 1) + 1..j
    BY <1>2, <1>5
  <2>4. k \in (b + 1) + 1..j => t[k] \in Digits
    BY <2>2 DEF Run
  <2> QED
    BY <2>2, <2>3, <2>4, Classes DEF NumberChars
<1> QED
  BY <1>2, <1>3, <1>4, <1>5

\* Where a shorter mantissa stops, a longer one has no exponent.
LEMMA MantissaCut ==
  ASSUME NEW t, Len(t) \in Int, NEW q \in Int, NEW j \in Int, NEW n \in Int,
         MantissaAt(t, q, j), MantissaAt(t, q, n), j < n, n <= Len(t)
  PROVE  ~isExponent(t[j + 1])
<1>1. PICK m \in q..j : SignAt(t, q, m) /\ t[m] \in Digits
  BY MantissaStart
<1>2. PICK b \in m..j : IntegerAt(t, m, b) /\ FractionAt(t, b + 1, j)
  BY <1>1, MantissaParts
<1>3. PICK c \in m..n : IntegerAt(t, m, c) /\ FractionAt(t, c + 1, n)
  BY <1>1, MantissaParts
<1>4. m \in Int /\ b \in Int /\ c \in Int /\ b <= j /\ (c <= n) /\ b <= Len(t) /\ c <= Len(t)
  <2>1. m \in Int /\ b \in Int /\ c \in Int /\ b <= j /\ c <= n
    OBVIOUS
  <2> QED
    BY <2>1
<1>5. b = j \/ (t[b + 1] = "." /\ Run(t, b + 2, j, Digits) /\ b + 1 < j)
  <2>1. (b + 1) - 1 = b /\ (b + 1) + 1 = b + 2
    BY <1>4
  <2> QED
    BY <1>2, <2>1 DEF FractionAt
<1>6. c = n \/ (t[c + 1] = "." /\ Run(t, c + 2, n, Digits) /\ c + 1 < n)
  <2>1. (c + 1) - 1 = c /\ (c + 1) + 1 = c + 2
    BY <1>4
  <2> QED
    BY <1>3, <2>1 DEF FractionAt
<1>7. CASE b < c
  <2>1. t[b + 1] # "." /\ ~isExponent(t[b + 1])
    BY <1>2, <1>3, <1>4, <1>7, IntegerCut
  <2> QED
    BY <1>5, <2>1
<1>8. CASE c < b
  <2>1. t[c + 1] # "."
    BY <1>2, <1>3, <1>4, <1>8, IntegerCut
  <2>2. c # n
    BY <1>4, <1>8
  <2> QED
    BY <1>6, <2>1, <2>2
<1>9. CASE b = c
  <2>1. b # n
    BY <1>4
  <2>2. t[b + 1] = "." /\ Run(t, b + 2, n, Digits)
    BY <1>6, <1>9, <2>1
  <2>3. CASE b = j
    BY <2>2, <2>3, Classes
  <2>4. CASE b # j
    <3>1. b + 1 < j
      BY <1>5, <2>4
    <3>2. j + 1 \in b + 2..n
      BY <1>4, <3>1
    <3> QED
      BY <2>2, <3>2, Classes DEF Run, isExponent
  <2> QED
    BY <2>3, <2>4
<1> QED
  BY <1>4, <1>7, <1>8, <1>9

\* A number is made of characters of numbers.
LEMMA NumberOnly ==
  ASSUME NEW t, NEW q \in Int, NEW r \in Int, NumberAt(t, q, r), NEW k \in q..r
  PROVE  t[k] \in NumberChars
<1>1. CASE MantissaAt(t, q, r)
  BY <1>1, MantissaOnly
<1>2. ASSUME NEW c \in q..r, NEW m \in q..r, MantissaAt(t, q, c), MarkAt(t, c + 1, m), IntegerAt(t, m, r)
      PROVE  t[k] \in NumberChars
  <2>1. c \in Int /\ m \in Int /\ c + 1 \in Int
    OBVIOUS
  <2>2. k \in q..c => t[k] \in NumberChars
    BY <1>2, <2>1, MantissaOnly
  <2>3. k \in m..r => t[k] \in NumberChars
    BY <1>2, <2>1, IntegerOnly
  <2>4. t[c + 1] \in NumberChars
    BY <1>2, Classes DEF MarkAt, NumberChars
  <2>5. m = c + 2 \/ (m = c + 3 /\ t[c + 2] \in NumberChars)
    <3>1. (c + 1) + 1 = c + 2 /\ (c + 1) + 2 = c + 3
      BY <2>1
    <3> QED
      BY <1>2, <3>1 DEF MarkAt, NumberChars
  <2>6. k \in q..c \/ k = c + 1 \/ (k = c + 2 /\ m = c + 3) \/ k \in m..r
    BY <2>1, <2>5
  <2> QED
    BY <2>2, <2>3, <2>4, <2>5, <2>6
<1> QED
  BY <1>1, <1>2 DEF NumberAt

\* What comes first in a number.
LEMMA NumberStart ==
  ASSUME NEW t, NEW q \in Int, NEW r \in Int, NumberAt(t, q, r)
  PROVE  /\ q <= r
         /\ \E m \in q..r, b \in q..r :
              /\ SignAt(t, q, m) /\ t[m] \in Digits /\ m <= b /\ IntegerAt(t, m, b)
              /\ r = b \/ (t[b + 1] = "." /\ b + 2 <= r /\ t[b + 2] \in Digits) \/ isExponent(t[b + 1])
<1>1. PICK j \in q..r : MantissaAt(t, q, j) /\ (j = r \/ isExponent(t[j + 1]))
  <2>1. MantissaAt(t, q, r) => r \in q..r
    <3>1. ASSUME MantissaAt(t, q, r) PROVE q <= r
      BY <3>1, MantissaStart
    <3> QED
      BY <3>1
  <2> QED
    BY <2>1 DEF NumberAt, MarkAt
<1>2. PICK m \in q..j : SignAt(t, q, m) /\ t[m] \in Digits
  BY <1>1, MantissaStart
<1>3. PICK b \in m..j : IntegerAt(t, m, b) /\ FractionAt(t, b + 1, j)
  BY <1>1, <1>2, MantissaParts
<1>4. m \in q..r /\ b \in q..r /\ m <= b /\ j \in Int /\ b \in Int /\ q <= r /\ j <= r /\ b <= j
  OBVIOUS
<1>5. j = b \/ (t[b + 1] = "." /\ b + 2 <= j /\ t[b + 2] \in Digits)
  <2>1. (b + 1) - 1 = b /\ (b + 1) + 1 = b + 2 /\ (b + 1 < j => b + 2 \in b + 2..j /\ b + 2 <= j)
    BY <1>4
  <2> QED
    BY <1>3, <2>1 DEF FractionAt, Run
<1>6. b + 2 <= j => b + 2 <= r
  BY <1>4
<1> QED
  BY <1>1, <1>2, <1>3, <1>4, <1>5, <1>6

\* The exponent of a number whose mantissa ends at c.
LEMMA ExponentPart ==
  ASSUME NEW t, Len(t) \in Int, NEW q \in Int, NEW r \in Int, NumberAt(t, q, r), r <= Len(t),
         NEW c \in Int, MantissaAt(t, q, c), isExponent(t[c + 1]), c < r
  PROVE  \E m \in c + 2..r : MarkAt(t, c + 1, m) /\ IntegerAt(t, m, r)
<1>1. CASE MantissaAt(t, q, r)
  BY <1>1, MantissaCut
<1>2. ASSUME NEW d \in q..r, NEW m \in q..r, MantissaAt(t, q, d), MarkAt(t, d + 1, m), IntegerAt(t, m, r)
      PROVE  \E n \in c + 2..r : MarkAt(t, c + 1, n) /\ IntegerAt(t, n, r)
  <2>1. d \in Int /\ m \in Int /\ d <= r /\ isExponent(t[d + 1]) /\ d <= Len(t) /\ c <= Len(t)
    BY <1>2 DEF MarkAt
  <2>2. d = c
    <3>1. ~(d < c) /\ ~(c < d)
      BY <1>2, <2>1, MantissaCut
    <3> QED
      BY <2>1, <3>1
  <2>3. m \in c + 2..r
    <3>1. m = (c + 1) + 1 \/ m = (c + 1) + 2
      BY <1>2, <2>2 DEF MarkAt
    <3> QED
      BY <2>1, <3>1
  <2> QED
    BY <1>2, <2>2, <2>3
<1> QED
  BY <1>1, <1>2 DEF NumberAt

\* There is one way to take the mark of an exponent and its sign.
LEMMA MarkDet ==
  ASSUME NEW t, NEW c \in Int, NEW m \in Int, NEW n \in Int, MarkAt(t, c + 1, m), MarkAt(t, c + 1, n),
         m = c + 2 => t[m] \notin {"-", "+"}, n = c + 2 => t[n] \notin {"-", "+"}
  PROVE  m = n
<1>1. (c + 1) + 1 = c + 2 /\ (c + 1) + 2 = c + 3
  OBVIOUS
<1>2. c + 2 # c + 3
  OBVIOUS
<1> QED
  BY <1>1, <1>2 DEF MarkAt

\* Behind the mark an integer goes up to the end of the number.
LEMMA ExponentInteger ==
  ASSUME NEW t, Len(t) \in Int, NEW q \in Int, NEW r \in Int, NumberAt(t, q, r), r <= Len(t),
         NEW c \in Int, NEW m \in Int, MantissaAt(t, q, c), MarkAt(t, c + 1, m), c < r,
         m = c + 2 => t[m] \notin {"-", "+"}
  PROVE  m <= r /\ IntegerAt(t, m, r)
<1>1. PICK n \in c + 2..r : MarkAt(t, c + 1, n) /\ IntegerAt(t, n, r)
  BY ExponentPart DEF MarkAt
<1>2. n \in Int /\ t[n] \in Digits
  BY <1>1, IntegerStart
<1>3. t[n] \notin {"-", "+"}
  BY <1>2, Classes
<1>4. m = n
  BY <1>1, <1>2, <1>3, MarkDet
<1> QED
  BY <1>1, <1>4

\* No longer part of a number ...
LEMMA IntegerLonger ==
  ASSUME NEW t, NEW m \in Int, NEW j \in Int, NEW k \in Int, IntegerAt(t, m, k), m <= j, j < k
  PROVE  /\ t[m] = "0" /\ j = m => t[j + 1] \in {"x", "o", "b"}
         /\ t[m] # "0" => t[j + 1] \in Digits
         /\ \A p, S : /\ t[m] = "0" /\ m < j /\ t[m + 1] = p
                      /\ <<p, S>> \in {<<"x", Hex>>, <<"o", Oct>>, <<"b", Bin>>}
                      => t[j + 1] \in S
<1>1. m # k /\ j + 1 \in m..k /\ (m < j => j + 1 \in m + 2..k)
  OBVIOUS
<1>2. t[m] = "0" /\ j = m => t[j + 1] \in {"x", "o", "b"}
  BY <1>1 DEF IntegerAt
<1>3. t[m] # "0" => t[j + 1] \in Digits
  BY <1>1 DEF IntegerAt, Run
<1>4. ASSUME NEW p, NEW S, t[m] = "0", m < j, t[m + 1] = p,
             <<p, S>> \in {<<"x", Hex>>, <<"o", Oct>>, <<"b", Bin>>}
      PROVE  t[j + 1] \in S
  <2>1. Run(t, m + 2, k, S)
    <3>1. \/ p = "x" /\ S = Hex
          \/ p = "o" /\ S = Oct
          \/ p = "b" /\ S = Bin
      BY <1>4
    <3> QED
      BY <1>1, <1>4, <3>1 DEF IntegerAt
  <2> QED
    BY <1>1, <1>4, <2>1 DEF Run
<1> QED
  BY <1>2, <1>3, <1>4

\* How a mantissa goes on from its integer.
LEMMA MantissaLonger ==
  ASSUME NEW t, Len(t) \in Int, NEW q \in Int, NEW m \in Int, NEW b \in Int, NEW k \in Int,
         SignAt(t, q, m), IntegerAt(t, m, b), MantissaAt(t, q, k), b < k, k <= Len(t)
  PROVE  \/ \E n \in b + 1..k : IntegerAt(t, m, n)
         \/ t[b + 1] = "." /\ b + 1 < k /\ Run(t, b + 2, k, Digits)
<1>0. t[m] \in Digits
  BY IntegerStart
<1>1. PICK c \in m..k : IntegerAt(t, m, c) /\ FractionAt(t, c + 1, k)
  BY <1>0, MantissaParts
<1>2. c \in Int /\ (c + 1) - 1 = c /\ (c + 1) + 1 = c + 2 /\ b <= Len(t)
  BY <1>1
<1>3. CASE c = b
  BY <1>1, <1>2, <1>3 DEF FractionAt
<1>4. CASE c > b
  BY <1>1, <1>4
<1>5. CASE c < b
  <2>1. t[c + 1] # "."
    BY <1>1, <1>2, <1>5, IntegerCut
  <2>2. c # k
    BY <1>5
  <2> QED
    BY <1>1, <1>2, <2>1, <2>2 DEF FractionAt
<1> QED
  BY <1>2, <1>3, <1>4, <1>5

\* How a mantissa goes on from within its decimals.
LEMMA FractionLonger ==
  ASSUME NEW t, Len(t) \in Int, NEW q \in Int, NEW m \in Int, NEW b \in Int, NEW j \in Int,
         NEW k \in Int, SignAt(t, q, m), IntegerAt(t, m, b), t[b + 1] = ".", MantissaAt(t, q, k),
         b < j, j < k, k <= Len(t)
  PROVE  t[j + 1] \in Digits
<1>1. ~(\E n \in b + 1..k : IntegerAt(t, m, n))
  <2> SUFFICES ASSUME NEW n \in b + 1..k, IntegerAt(t, m, n) PROVE FALSE
    OBVIOUS
  <2>1. n \in Int /\ b < n /\ n <= Len(t)
    OBVIOUS
  <2> QED
    BY <2>1, IntegerCut
<1>2. Run(t, b + 2, k, Digits)
  <2>1. b < k
    OBVIOUS
  <2> QED
    BY <1>1, <2>1, MantissaLonger
<1>3. j + 1 \in b + 2..k
  OBVIOUS
<1> QED
  BY <1>2, <1>3 DEF Run

\* Texts that agree up to n have the same integers, ...
LEMMA AgreeInteger ==
  ASSUME NEW t, NEW u, NEW n \in Int, Agree(t, u, n), Len(t) \in Int, Len(u) \in Int,
         n <= Len(t), n <= Len(u), NEW i \in Int, NEW j \in Int, i >= 1, j + 1 <= n, IntegerAt(t, i, j)
  PROVE  IntegerAt(u, i, j)
<1>1. i <= j
  BY IntegerStart
<1>2. /\ i \in 1..n /\ j + 1 \in 1..n /\ i + 1 \in 1..n /\ j <= n /\ i + 2 >= 1 /\ i + 2 \in Int
      /\ j < Len(t) /\ j < Len(u)
  BY <1>1
<1>3. t[i] = u[i] /\ t[i + 1] = u[i + 1] /\ t[j + 1] = u[j + 1]
  BY <1>2 DEF Agree
<1>4. \A S : /\ Run(t, i, j, S) => Run(u, i, j, S)
             /\ Run(t, i + 2, j, S) => Run(u, i + 2, j, S)
  BY <1>2, AgreeRun
<1> QED
  BY <1>2, <1>3, <1>4 DEF IntegerAt

\* the same signs, ...
LEMMA AgreeSign ==
  ASSUME NEW t, NEW u, NEW n \in Int, Agree(t, u, n), NEW q \in Int, NEW m \in Int, q >= 1,
         m - 1 <= n, SignAt(t, q, m)
  PROVE  SignAt(u, q, m)
<1>1. m # q => q \in 1..n
  BY DEF SignAt
<1> QED
  BY <1>1 DEF SignAt, Agree

\* the same mantissas ...
LEMMA AgreeMantissa ==
  ASSUME NEW t, NEW u, NEW n \in Int, Agree(t, u, n), Len(t) \in Int, Len(u) \in Int,
         n <= Len(t), n <= Len(u), NEW q \in Int, NEW j \in Int, q >= 1, j + 1 <= n, MantissaAt(t, q, j)
  PROVE  MantissaAt(u, q, j)
<1>1. PICK a \in q..j, b \in q..j : SignAt(t, q, a) /\ IntegerAt(t, a, b) /\ FractionAt(t, b + 1, j)
  BY DEF MantissaAt
<1>2. /\ a \in Int /\ b \in Int /\ a >= 1 /\ a - 1 <= n /\ b + 1 <= n /\ b + 1 \in 1..n /\ j <= n
      /\ (b + 1) + 1 \in Int /\ (b + 1) + 1 >= 1
  BY <1>1
<1>3. SignAt(u, q, a)
  BY <1>1, <1>2, AgreeSign
<1>4. IntegerAt(u, a, b)
  BY <1>1, <1>2, AgreeInteger
<1>5. FractionAt(u, b + 1, j)
  <2>1. t[b + 1] = u[b + 1]
    BY <1>2 DEF Agree
  <2>2. Run(t, (b + 1) + 1, j, Digits) => Run(u, (b + 1) + 1, j, Digits)
    BY <1>2, AgreeRun
  <2> QED
    BY <1>1, <2>1, <2>2 DEF FractionAt
<1> QED
  BY <1>3, <1>4, <1>5 DEF MantissaAt

\* and the same marks of exponents there.
LEMMA AgreeMark ==
  ASSUME NEW t, NEW u, NEW n \in Int, Agree(t, u, n), NEW i \in Int, NEW m \in Int, i >= 1,
         m - 1 <= n, MarkAt(t, i, m)
  PROVE  MarkAt(u, i, m)
<1>1. i \in 1..n /\ (m = i + 2 => i + 1 \in 1..n)
  BY DEF MarkAt
<1> QED
  BY <1>1 DEF MarkAt, Agree

-----------------------------------------------------------------------------
(***************************************************************************)
(* Derivations: the rule behind each fact, the kind of a value from its    *)
(* first character, and how a container that began leads to its end item   *)
(* by item.                                                                *)
(***************************************************************************)

\* What the rules say of a derivation's facts.
LEMMA WholeByRule ==
  ASSUME NEW t, NEW D, Derivation(t, D), NEW q, NEW r, NEW b, Whole(q, r, b) \in D
  PROVE  q \in 1..Len(t) /\ r \in 1..Len(t) /\ q <= r /\ (ScalarAt(t, q, r, b) \/ Closes(t, D, q, r, b))
BY DEF Derivation, ByRule, Whole, Begun

\* The rule behind a container that began.
LEMMA BegunByRule ==
  ASSUME NEW t, NEW D, Derivation(t, D), NEW i, NEW p, NEW c, Begun(i, p, c) \in D
  PROVE  i \in 1..Len(t) /\ p \in 1..Len(t) /\ i <= p /\ (Opens(t, i, p, c) \/ Extends(t, D, i, p, c))
BY DEF Derivation, ByRule, Whole, Begun

\* In D the container h is f with one more item.
Adds(t, D, f, h) ==
  \E k, key, value :
    /\ Whole(k, h[3], value) \in D /\ k <= h[3]
    /\ SlotAt(t, f[4][1], key, f[2], f[3], k)
    /\ h = Begun(f[2], h[3], <<f[4][1], Extended(f[4][1], f[4][2], key, value)>>)

\* A slot lies ahead of the last item.
LEMMA SlotAhead ==
  ASSUME NEW t, NEW type, NEW key, NEW i \in Int, NEW p \in Int, NEW k \in Int,
         SlotAt(t, type, key, i, p, k)
  PROVE  p < k
<1>1. CASE NextAt(t, i, p, k)
  BY <1>1 DEF NextAt
<1>2. CASE \E m, n \in p + 1..k - 1 : TRUE
  BY <1>2
<1> QED
  BY <1>1, <1>2 DEF SlotAt

\* A container that goes on was extended by one item.
LEMMA ExtendsAdds ==
  ASSUME NEW t, NEW D, Derivation(t, D), NEW i \in Nat, NEW p \in Nat, NEW c, Extends(t, D, i, p, c)
  PROVE  \E f \in D : /\ f = Begun(i, f[3], f[4]) /\ f[3] \in Nat /\ f[3] < p
                      /\ f[4][1] = c[1] /\ Adds(t, D, f, Begun(i, p, c))
<1>1. PICK f \in D, g \in D, q \in i..p, r \in i..p :
        /\ f = Begun(i, f[3], f[4]) /\ g = Whole(g[2], p, g[4])
        /\ SlotAt(t, f[4][1], Inside(t, q, r), i, f[3], g[2])
        /\ c = <<f[4][1], Extended(f[4][1], f[4][2], Inside(t, q, r), g[4])>>
  BY DEF Extends
<1>2. f[3] \in 1..Len(t)
  BY <1>1, BegunByRule
<1>3. g[2] \in 1..Len(t) /\ g[2] <= p
  BY <1>1, WholeByRule
<1>4. f[3] \in Nat /\ g[2] \in Nat
  BY <1>2, <1>3
<1>5. f[3] < p
  <2>1. f[3] < g[2]
    BY <1>1, <1>4, SlotAhead
  <2> QED
    BY <1>3, <1>4, <2>1
<1>6. f[2] = i
  BY <1>1 DEF Begun
<1>7. PICK h : h = Begun(i, p, c)
  OBVIOUS
<1>8. h[3] = p
  BY <1>7 DEF Begun
<1>9. Adds(t, D, f, h)
  BY <1>1, <1>3, <1>6, <1>7, <1>8 DEF Adds
<1>10. f[4][1] = c[1]
  BY <1>1
<1> QED
  BY <1>1, <1>4, <1>5, <1>7, <1>9, <1>10

\* A container begins with its bracket.
LEMMA BegunStarts ==
  ASSUME NEW t, NEW D, Derivation(t, D), NEW i, NEW p, NEW c, Begun(i, p, c) \in D
  PROVE  t[i] = Opening(c[1]) /\ c[1] \in {"object", "array"}
<1> DEFINE Q == {n \in Nat : \E a : Begun(i, n, a) \in D /\ ~(t[i] = Opening(a[1]) /\ a[1] \in {"object", "array"})}
<1>1. SUFFICES ASSUME Q # {} PROVE FALSE
  <2>1. p \in Nat
    BY BegunByRule
  <2> QED
    BY <2>1
<1>2. PICK n \in Q : \A m \in Q : n <= m
  <2>1. Q \subseteq Nat
    OBVIOUS
  <2> HIDE DEF Q
  <2> QED
    BY <1>1, <2>1, Least
<1>3. PICK a : Begun(i, n, a) \in D /\ ~(t[i] = Opening(a[1]) /\ a[1] \in {"object", "array"})
  OBVIOUS
<1>4. i \in Nat /\ n \in Nat /\ (Opens(t, i, n, a) \/ Extends(t, D, i, n, a))
  BY <1>3, BegunByRule
<1>5. CASE Opens(t, i, n, a)
  BY <1>3, <1>5 DEF Opens
<1>6. CASE Extends(t, D, i, n, a)
  <2>1. PICK f \in D : f = Begun(i, f[3], f[4]) /\ f[3] \in Nat /\ f[3] < n /\ f[4][1] = a[1]
    <3> HIDE DEF Q
    <3> QED
      BY <1>4, <1>6, ExtendsAdds
  <2>2. Begun(i, f[3], f[4]) \in D
    BY <2>1
  <2>3. f[3] \in Q
    BY <1>3, <2>1, <2>2
  <2> QED
    BY <1>2, <1>4, <2>1, <2>3
<1> QED
  BY <1>4, <1>5, <1>6

\* The first character of a value says what it is.
LEMMA FirstChars ==
  /\ \A c \in Digits : c \notin {"quote", "-", "{", "["} /\ ~isLowerAlpha(c)
  /\ \A c \in LowerAlpha : c \notin {"quote", "-", "{", "["} /\ ~isNumber(c)
  /\ ~isNumber("quote") /\ ~isNumber("{") /\ ~isNumber("[") /\ ~isNumber("-")
  /\ ~isLowerAlpha("quote") /\ ~isLowerAlpha("{") /\ ~isLowerAlpha("[") /\ ~isLowerAlpha("-")
<1>1. \A c \in Digits : c \notin {"quote", "-", "{", "["}
  BY Classes
<1>2. \A c \in Digits : ~isLowerAlpha(c)
  BY Classes DEF isLowerAlpha
<1>3. \A c \in LowerAlpha : c \notin {"quote", "-", "{", "["}
  BY Zenon DEF LowerAlpha, LowerHex
<1>4. \A c \in LowerAlpha : ~isNumber(c)
  BY Classes DEF isNumber
<1> QED
  BY <1>1, <1>2, <1>3, <1>4 DEF isNumber, isLowerAlpha

\* The three literals are lower-case words.
LEMMA LiteralChars ==
  ASSUME NEW s \in Literals
  PROVE  /\ 1 \in 1..Len(s) /\ \A k \in 1..Len(s) : isLowerAlpha(s[k])
<1>1. {"t", "r", "u", "e", "f", "a", "l", "s", "n"} \subseteq LowerAlpha
  BY Zenon DEF LowerAlpha, LowerHex
<1>2. CASE s = <<"t", "r", "u", "e">>
  BY <1>1, <1>2 DEF isLowerAlpha
<1>3. CASE s = <<"f", "a", "l", "s", "e">>
  BY <1>1, <1>3 DEF isLowerAlpha
<1>4. CASE s = <<"n", "u", "l", "l">>
  BY <1>1, <1>4 DEF isLowerAlpha
<1> QED
  BY <1>2, <1>3, <1>4 DEF Literals

\* The elements of a part of a text.
LEMMA SubSeqElements ==
  ASSUME NEW t \in Seq(Char), NEW q \in 1..Len(t), NEW r \in 1..Len(t), q <= r
  PROVE  /\ Len(SubSeq(t, q, r)) = r - q + 1
         /\ \A k \in q..r : k - q + 1 \in 1..Len(SubSeq(t, q, r)) /\ SubSeq(t, q, r)[k - q + 1] = t[k]
<1>0. Len(t) \in Nat /\ q \in Int /\ r \in Int
  BY LenProperties
<1>1. \A i \in q..r : t[i] \in Char
  BY <1>0, ElementOfSeq
<1>2. /\ Len(SubSeq(t, q, r)) = IF q <= r THEN r - q + 1 ELSE 0
      /\ \A i \in 1..r - q + 1 : SubSeq(t, q, r)[i] = t[q + i - 1]
  BY <1>0, <1>1, SubSeqProperties
<1>3. ASSUME NEW k \in q..r
      PROVE  k - q + 1 \in 1..Len(SubSeq(t, q, r)) /\ SubSeq(t, q, r)[k - q + 1] = t[k]
  <2>1. k - q + 1 \in 1..r - q + 1 /\ q + (k - q + 1) - 1 = k
    BY <1>0
  <2> QED
    BY <1>2, <2>1
<1> QED
  BY <1>2, <1>3

\* A literal in a text is lower case all along.
LEMMA LiteralStarts ==
  ASSUME NEW t \in Seq(Char), NEW q \in 1..Len(t), NEW r \in 1..Len(t), q <= r, SubSeq(t, q, r) \in Literals
  PROVE  \A k \in q..r : isLowerAlpha(t[k])
<1>1. \A k \in q..r : k - q + 1 \in 1..Len(SubSeq(t, q, r)) /\ SubSeq(t, q, r)[k - q + 1] = t[k]
  BY SubSeqElements
<1>2. \A k \in 1..Len(SubSeq(t, q, r)) : isLowerAlpha(SubSeq(t, q, r)[k])
  BY LiteralChars
<1> HIDE DEF Literals
<1> QED
  BY <1>1, <1>2

\* A number begins with a minus sign or a digit.
LEMMA NumberFirst ==
  ASSUME NEW t, NEW q \in Int, NEW r \in Int, NumberAt(t, q, r)
  PROVE  t[q] = "-" \/ t[q] \in Digits
<1>1. PICK m \in q..r : SignAt(t, q, m) /\ t[m] \in Digits
  BY NumberStart
<1> QED
  BY <1>1 DEF SignAt

\* The part of t from q up to r is a string, a number or a literal, and b what
\* the parser makes of it.
StringIs(t, q, r, b)  == StringAt(t, q, r) /\ b = <<"string", Inside(t, q, r)>>
NumberIs(t, q, r, b)  == NumberAt(t, q, r) /\ b = <<NumberSort(SubSeq(t, q, r)), SubSeq(t, q, r)>>
LiteralIs(t, q, r, b) == SubSeq(t, q, r) \in Literals /\ b = <<"literal", SubSeq(t, q, r)>>

\* The first character tells of what kind a value is.
LEMMA WholeKinds ==
  ASSUME NEW t \in Seq(Char), NEW D, Derivation(t, D), NEW q, NEW r, NEW b, Whole(q, r, b) \in D
  PROVE  /\ t[q] = "quote" => StringIs(t, q, r, b)
         /\ isNumber(t[q]) \/ t[q] = "-" => NumberIs(t, q, r, b)
         /\ isLowerAlpha(t[q]) => LiteralIs(t, q, r, b)
         /\ t[q] \in {"{", "["} => Closes(t, D, q, r, b)
         /\ isNumber(t[q]) \/ isLowerAlpha(t[q]) \/ t[q] \in {"quote", "-", "{", "["}
<1>1. q \in 1..Len(t) /\ r \in 1..Len(t) /\ q <= r /\ (ScalarAt(t, q, r, b) \/ Closes(t, D, q, r, b))
  BY WholeByRule
<1>2. q \in Int /\ r \in Int
  BY <1>1
<1>3. CASE StringIs(t, q, r, b)
  <2>1. t[q] = "quote"
    BY <1>3 DEF StringIs, StringAt
  <2> QED
    BY <1>3, <2>1, FirstChars
<1>4. CASE NumberIs(t, q, r, b)
  <2>1. t[q] = "-" \/ t[q] \in Digits
    BY <1>2, <1>4, NumberFirst DEF NumberIs
  <2> QED
    BY <1>4, <2>1, FirstChars DEF isNumber
<1>5. CASE LiteralIs(t, q, r, b)
  <2>1. isLowerAlpha(t[q])
    BY <1>1, <1>2, <1>5, LiteralStarts DEF LiteralIs
  <2> QED
    BY <1>5, <2>1, FirstChars DEF isLowerAlpha
<1>6. CASE Closes(t, D, q, r, b)
  <2>1. PICK p \in q..r - 1 : Begun(q, p, b) \in D
    BY <1>6 DEF Closes
  <2>2. t[q] \in {"{", "["}
    <3>1. t[q] = Opening(b[1])
      BY <2>1, BegunStarts
    <3>2. \A type : Opening(type) \in {"{", "["}
      BY DEF Opening
    <3> QED
      BY <3>1, <3>2
  <2> QED
    BY <1>6, <2>2, FirstChars
<1> QED
  BY <1>1, <1>3, <1>4, <1>5, <1>6 DEF ScalarAt, StringIs, NumberIs, LiteralIs

\* The container f is complete: it is tree, and its bracket stands at e.
Ends(t, f, e, tree) ==
  /\ f = Begun(f[2], f[3], tree) /\ f[3] < e
  /\ White(t, f[3] + 1, e - 1) /\ t[e] = Closing(tree[1])

\* With more items, or none, f becomes the container tree that ends at e.
Leads(t, D, f, e, tree) ==
  \E W \in SUBSET D : f \in W /\ \A w \in W : Ends(t, w, e, tree) \/ \E h \in W : Adds(t, D, w, h)

\* Behind the value that ends at r its container goes on or ends.
Stopped(t, r) ==
  \E e \in Nat : r < e /\ White(t, r + 1, e - 1) /\ t[e] \in {",", "}", "]"}

\* A container leads to its end from where it opens.
LEMMA LeadsFromStart ==
  ASSUME NEW t, NEW D, Derivation(t, D), NEW i, NEW e, NEW tree, Whole(i, e, tree) \in D,
         Closes(t, D, i, e, tree)
  PROVE  Leads(t, D, Begun(i, i, <<tree[1], <<>> >>), e, tree) /\ t[i] = Opening(tree[1])
         /\ tree[1] \in {"object", "array"}
<1> DEFINE Good(n, a) == a[1] = tree[1] /\ Begun(i, n, a) \in D /\ Leads(t, D, Begun(i, n, a), e, tree)
           Q == {n \in Nat : \E a : Good(n, a)}
<1>1. PICK p \in i..e - 1 : Begun(i, p, tree) \in D /\ White(t, p + 1, e - 1) /\ t[e] = Closing(tree[1])
  BY DEF Closes
<1>2. p \in Nat /\ i \in Nat /\ e \in Nat /\ p < e
  <2>1. p \in Nat /\ i \in Nat
    BY <1>1, BegunByRule
  <2>2. e \in Nat
    BY WholeByRule
  <2> QED
    BY <2>1, <2>2
<1>3. Good(p, tree)
  <2>1. PICK f : f = Begun(i, p, tree)
    OBVIOUS
  <2>2. f[2] = i /\ f[3] = p
    BY <2>1 DEF Begun
  <2>3. Ends(t, f, e, tree)
    BY <1>1, <1>2, <2>1, <2>2 DEF Ends
  <2>4. {f} \in SUBSET D /\ f \in {f}
    BY <1>1, <2>1
  <2>5. Leads(t, D, f, e, tree)
    BY <2>3, <2>4 DEF Leads
  <2> QED
    BY <1>1, <2>1, <2>5
<1> HIDE DEF Good
<1>4. PICK n \in Q : \A m \in Q : n <= m
  <2>1. Q \subseteq Nat /\ Q # {}
    BY <1>2, <1>3
  <2> HIDE DEF Q
  <2> QED
    BY <2>1, Least
<1>5. PICK a : Good(n, a)
  OBVIOUS
<1>6. n \in Nat /\ Begun(i, n, a) \in D /\ (Opens(t, i, n, a) \/ Extends(t, D, i, n, a))
      /\ a[1] = tree[1] /\ Leads(t, D, Begun(i, n, a), e, tree)
  BY <1>5, BegunByRule DEF Good
<1>7. CASE Opens(t, i, n, a)
  <2>1. n = i /\ a = <<a[1], <<>> >>
    BY <1>7 DEF Opens
  <2>2. t[i] = Opening(a[1]) /\ a[1] \in {"object", "array"}
    BY <1>6, BegunStarts
  <2> QED
    BY <1>6, <2>1, <2>2
<1>8. CASE Extends(t, D, i, n, a)
  <2>1. PICK f \in D : f = Begun(i, f[3], f[4]) /\ f[3] \in Nat /\ f[3] < n /\ f[4][1] = a[1]
                       /\ Adds(t, D, f, Begun(i, n, a))
    <3> HIDE DEF Q
    <3> QED
      BY <1>2, <1>6, <1>8, ExtendsAdds
  <2>2. PICK h : h = Begun(i, n, a)
    OBVIOUS
  <2>3. PICK W \in SUBSET D : h \in W /\ \A w \in W : Ends(t, w, e, tree) \/ \E g \in W : Adds(t, D, w, g)
    BY <1>6, <2>2 DEF Leads
  <2>4. W \cup {f} \in SUBSET D /\ f \in W \cup {f}
    OBVIOUS
  <2>5. ASSUME NEW w \in W \cup {f}
        PROVE  Ends(t, w, e, tree) \/ \E g \in W \cup {f} : Adds(t, D, w, g)
    BY <2>1, <2>2, <2>3
  <2>6. Leads(t, D, f, e, tree)
    BY <2>4, <2>5 DEF Leads
  <2>7. f[3] \in Q
    <3>1. Good(f[3], f[4])
      BY <1>6, <2>1, <2>6 DEF Good
    <3> QED
      BY <2>1, <3>1
  <2> QED
    BY <1>4, <1>6, <2>1, <2>7
<1> QED
  BY <1>6, <1>7, <1>8

\* A container that leads to its end ends, or has an item more.
LEMMA LeadsOn ==
  ASSUME NEW t, NEW D, NEW f, NEW e, NEW tree, Leads(t, D, f, e, tree)
  PROVE  f \in D /\ (Ends(t, f, e, tree) \/ \E h \in D : Adds(t, D, f, h) /\ Leads(t, D, h, e, tree))
<1>1. PICK W \in SUBSET D : f \in W /\ \A w \in W : Ends(t, w, e, tree) \/ \E g \in W : Adds(t, D, w, g)
  BY DEF Leads
<1>2. CASE Ends(t, f, e, tree)
  BY <1>1, <1>2
<1>3. ASSUME NEW h \in W, Adds(t, D, f, h)
      PROVE  h \in D /\ Adds(t, D, f, h) /\ Leads(t, D, h, e, tree)
  BY <1>1, <1>3 DEF Leads
<1> QED
  BY <1>1, <1>2, <1>3

\* Behind an item of a container what it is made of stops.
LEMMA StoppedAfter ==
  ASSUME NEW t, NEW D, NEW i \in Nat, NEW r \in Nat, NEW c, NEW e \in Nat, NEW tree, i # r,
         Derivation(t, D), Leads(t, D, Begun(i, r, c), e, tree)
  PROVE  Stopped(t, r)
<1>1. PICK f : f = Begun(i, r, c)
  OBVIOUS
<1>2. f[2] = i /\ f[3] = r /\ f[4] = c
  BY <1>1 DEF Begun
<1>3. CASE Ends(t, f, e, tree)
  <2>1. \A type : Closing(type) \in {",", "}", "]"}
    BY DEF Closing
  <2> QED
    BY <1>2, <1>3, <2>1 DEF Ends, Stopped
<1>4. ASSUME NEW h, Adds(t, D, f, h) PROVE Stopped(t, r)
  <2>1. PICK k, key, value : Whole(k, h[3], value) \in D /\ SlotAt(t, c[1], key, i, r, k)
    BY <1>2, <1>4 DEF Adds
  <2>2. k \in Nat
    BY <2>1, WholeByRule
  <2>3. PICK n \in Nat : Between(t, r, ",", n)
    <3>1. CASE NextAt(t, i, r, k)
      BY <2>2, <3>1 DEF NextAt
    <3>2. ASSUME NEW m \in r + 1..k - 1, NextAt(t, i, r, m) PROVE \E n \in Nat : Between(t, r, ",", n)
      <4>1. m \in Nat
        BY <2>2
      <4> QED
        BY <3>2, <4>1 DEF NextAt
    <3> QED
      BY <2>1, <3>1, <3>2 DEF SlotAt
  <2>4. PICK m \in r + 1..n - 1 : t[m] = "," /\ White(t, r + 1, m - 1)
    BY <2>3 DEF Between
  <2>5. m \in Nat /\ r < m
    OBVIOUS
  <2> QED
    BY <2>4, <2>5 DEF Stopped
<1> QED
  BY <1>1, <1>3, <1>4, LeadsOn

\* A value begins with no white space and closes no container.
StartsValue(c) == ~isWhiteSpace(c) /\ c \notin {"]", "}"}

\* The first character of a value.
LEMMA ValueStarts ==
  ASSUME NEW t \in Seq(Char), NEW D, Derivation(t, D), NEW q, NEW r, NEW b, Whole(q, r, b) \in D
  PROVE  StartsValue(t[q]) /\ ~isWhiteSpace(t[q]) /\ q \in Nat /\ r \in Nat /\ q <= r
<1>0. q \in Nat /\ r \in Nat /\ q <= r
  BY WholeByRule
<1>1. isNumber(t[q]) \/ isLowerAlpha(t[q]) \/ t[q] \in {"quote", "-", "{", "["}
  BY WholeKinds
<1>2. \A c \in Digits : ~isWhiteSpace(c)
  BY Zenon DEF Digits, isWhiteSpace, WhiteSpace
<1>3. \A c \in Digits : c \notin {"]", "}"}
  BY Zenon DEF Digits
<1>4. \A c \in LowerAlpha : c \notin WhiteSpace /\ c \notin {"]", "}"}
  BY NoStops DEF Stops
<1>5. \A c \in {"quote", "-", "{", "["} : ~isWhiteSpace(c)
  BY Zenon DEF isWhiteSpace, WhiteSpace
<1>6. \A c \in {"quote", "-", "{", "["} : c \notin {"]", "}"}
  BY Zenon
<1> QED
  BY <1>0, <1>1, <1>2, <1>3, <1>4, <1>5, <1>6 DEF isNumber, isLowerAlpha, isWhiteSpace, StartsValue

\* Where an item is due in a container, the text has a value.
LEMMA NextValue ==
  ASSUME NEW t \in Seq(Char), NEW D, Derivation(t, D), NEW i \in Nat, NEW p \in Nat, i <= p,
         NEW type, NEW items, NEW e \in Nat, NEW tree,
         Leads(t, D, Begun(i, p, <<type, items>>), e, tree),
         NEW key, NEW q \in Nat, SlotAt(t, type, key, i, p, q), ~isWhiteSpace(t[q]),
         type = "array" /\ p = i => t[q] # Closing(type)
  PROVE  \E r \in Nat : \E b :
           /\ q <= r /\ Whole(q, r, b) \in D /\ Stopped(t, r)
           /\ Leads(t, D, Begun(i, r, <<type, Extended(type, items, key, b)>>), e, tree)
<1>1. PICK f : f = Begun(i, p, <<type, items>>)
  OBVIOUS
<1>2. f[2] = i /\ f[3] = p /\ f[4] = <<type, items>> /\ f[4][1] = type /\ f[4][2] = items
  BY <1>1 DEF Begun
<1>3. ASSUME Ends(t, f, e, tree) PROVE FALSE
  <2>1. p < e /\ White(t, p + 1, e - 1) /\ t[e] = Closing(tree[1]) /\ f = Begun(i, p, tree)
    BY <1>2, <1>3 DEF Ends
  <2>2. tree = <<type, items>>
    BY <1>2, <2>1 DEF Begun
  <2>3. tree[1] = type
    BY <2>2
  <2> QED
    BY <2>1, <2>3, SlotNoEnd
<1>4. PICK h \in D : Adds(t, D, f, h) /\ Leads(t, D, h, e, tree)
  BY <1>1, <1>3, LeadsOn
<1>5. PICK k, name, b : /\ Whole(k, h[3], b) \in D /\ k <= h[3] /\ SlotAt(t, type, name, i, p, k)
                        /\ h = Begun(i, h[3], <<type, Extended(type, items, name, b)>>)
  BY <1>2, <1>4 DEF Adds
<1>6. k \in Nat /\ h[3] \in Nat /\ ~isWhiteSpace(t[k])
  BY <1>5, ValueStarts
<1>7. q = k /\ (type = "object" => key = name)
  <2>1. SlotAt(t, type, name, i, p, k)
    BY <1>5
  <2> QED
    BY <1>6, <2>1, SlotEnd
<1>8. Extended(type, items, name, b) = Extended(type, items, key, b)
  <2>1. CASE type = "object"
    BY <1>7, <2>1
  <2>2. CASE type # "object"
    <3>1. type = "array"
      BY <2>2 DEF SlotAt
    <3> QED
      BY <3>1 DEF Extended
  <2> QED
    BY <2>1, <2>2
<1>9. i # h[3]
  <2>1. p < q
    BY SlotAhead
  <2> QED
    BY <1>5, <1>6, <1>7, <2>1
<1>10. PICK r \in Nat : r = h[3]
  BY <1>6
<1>11. PICK c : c = <<type, Extended(type, items, key, b)>>
  OBVIOUS
<1>12. Leads(t, D, Begun(i, r, c), e, tree)
  BY <1>4, <1>5, <1>8, <1>10, <1>11
<1>13. Stopped(t, r)
  BY <1>9, <1>10, <1>12, StoppedAfter
<1> QED
  BY <1>5, <1>7, <1>10, <1>11, <1>12, <1>13

\* Where a key is due in an object, the text has one and a colon.
LEMMA NextKey ==
  ASSUME NEW t \in Seq(Char), NEW D, Derivation(t, D), NEW i \in Nat, NEW p \in Nat, i <= p,
         NEW items, NEW e \in Nat, NEW tree,
         Leads(t, D, Begun(i, p, <<"object", items>>), e, tree),
         NEW q \in Nat, NextAt(t, i, p, q), ~isWhiteSpace(t[q]), p = i => t[q] # Closing("object")
  PROVE  \E r \in Nat, k \in Nat : StringAt(t, q, r) /\ Between(t, r, ":", k) /\ ~isWhiteSpace(t[k])
<1>0. i \in Int /\ p \in Int /\ q \in Int
  OBVIOUS
<1>1. PICK f : f = Begun(i, p, <<"object", items>>)
  OBVIOUS
<1>2. f[2] = i /\ f[3] = p /\ f[4] = <<"object", items>> /\ f[4][1] = "object"
  BY <1>1 DEF Begun
<1>3. ASSUME Ends(t, f, e, tree) PROVE FALSE
  <2>1. p < e /\ White(t, p + 1, e - 1) /\ t[e] = Closing(tree[1]) /\ f = Begun(i, p, tree)
    BY <1>2, <1>3 DEF Ends
  <2>2. tree = <<"object", items>>
    BY <1>2, <2>1 DEF Begun
  <2>3. t[e] = Closing("object")
    BY <2>1, <2>2
  <2>5. e \in Int
    OBVIOUS
  <2> QED
    BY <1>0, <2>1, <2>3, <2>5, NextNoEnd
<1>4. PICK h \in D : Adds(t, D, f, h)
  BY <1>1, <1>3, LeadsOn
<1>5. PICK k, name, b : Whole(k, h[3], b) \in D /\ SlotAt(t, "object", name, i, p, k)
  BY <1>2, <1>4 DEF Adds
<1>6. k \in Nat /\ ~isWhiteSpace(t[k])
  BY <1>5, ValueStarts
<1>7. PICK m \in p + 1..k - 1, n \in p + 1..k - 1 :
        NextAt(t, i, p, m) /\ StringAt(t, m, n) /\ Between(t, n, ":", k)
  BY <1>5 DEF SlotAt
<1>8. m \in Int /\ n \in Nat
  OBVIOUS
<1>9. ~isWhiteSpace(t[m])
  BY <1>7, NotWhite DEF StringAt
<1>10. m = q
  BY <1>0, <1>7, <1>8, <1>9, NextEnd
<1> QED
  BY <1>6, <1>7, <1>8, <1>10

\* Where the text's bracket follows the last item, the container ends.
LEMMA NextEnds ==
  ASSUME NEW t \in Seq(Char), NEW D, Derivation(t, D), NEW i \in Nat, NEW p \in Nat, i <= p,
         NEW type, NEW items, NEW e \in Nat, NEW tree,
         Leads(t, D, Begun(i, p, <<type, items>>), e, tree),
         NEW q \in Nat, p < q, White(t, p + 1, q - 1), t[q] = Closing(type)
  PROVE  e = q /\ tree = <<type, items>>
<1>1. PICK f : f = Begun(i, p, <<type, items>>)
  OBVIOUS
<1>2. f[2] = i /\ f[3] = p /\ f[4] = <<type, items>> /\ f[4][1] = type /\ f[4][2] = items
  BY <1>1 DEF Begun
<1>3. ASSUME NEW h, Adds(t, D, f, h) PROVE FALSE
  <2>1. PICK k, name, b : Whole(k, h[3], b) \in D /\ SlotAt(t, type, name, i, p, k)
    BY <1>2, <1>3 DEF Adds
  <2>2. k \in Nat /\ StartsValue(t[k])
    BY <2>1, ValueStarts
  <2>3. t[k] # Closing(type)
    BY <2>2 DEF StartsValue, Closing
  <2> QED
    BY <2>1, <2>2, <2>3, SlotNoEnd DEF StartsValue
<1>4. Ends(t, f, e, tree)
  BY <1>1, <1>3, LeadsOn
<1>5. p < e /\ White(t, p + 1, e - 1) /\ t[e] = Closing(tree[1]) /\ f = Begun(i, p, tree)
  BY <1>2, <1>4 DEF Ends
<1>6. tree = <<type, items>>
  BY <1>2, <1>5 DEF Begun
<1>7. e = q
  <2>1. p + 1 \in Int /\ e \in Int /\ q \in Int /\ p + 1 <= e /\ p + 1 <= q
    BY <1>5
  <2> QED
    BY <1>5, <2>1, WhiteEnd, NotWhite
<1> QED
  BY <1>6, <1>7

-----------------------------------------------------------------------------
(***************************************************************************)
(* The invariant.  Of each text t that begins with what was read, and each *)
(* derivation D of a document in it: the parser stands in the containers D *)
(* has open, and the value that is read now is the one D has there.        *)
(***************************************************************************)

\* The text t begins with what was read.
Fits(t) == t \in Seq(Char) /\ pos <= Len(t) /\ \A i \in 1..pos : t[i] = data[i]

\* D derives a document in t, from where the call began.
Viable(t, D) ==
  /\ Fits(t) /\ t[start + 1] \in {"{", "["}
  /\ Derivation(t, D) /\ \E e, tree : Whole(start + 1, e, tree) \in D

\* D has the open containers, and goes through what was read of them.
Follows(t, D, o) ==
  \A n \in 1..Len(partial) :
    /\ \E e, tree : Whole(o[n].from, e, tree) \in D
    /\ \A e, tree : Whole(o[n].from, e, tree) \in D =>
         Leads(t, D, Begun(o[n].from, o[n].to, <<partial[n].type, partial[n].items>>), e, tree)

\* In D the value at k can end at r and be b.
Stands(t, D, k, r, b) == Whole(k, r, b) \in D /\ (k # start + 1 => Stopped(t, r))

\* The value at k ends at j and is tree.
Means(t, D, k, j, tree) == \A r, b : Stands(t, D, k, r, b) => r = j /\ b = tree

\* White space was skipped before these places.
Skipped == {"expr", "exprEnd", "objLoop", "arrLoop", "objKey", "str", "lit", "objAdd", "arrAdd",
            "strDone", "numDone", "litDone"}

\* so next is none there.
Shown == Head(stack) \in Skipped /\ ~AtEOF => ~isWhiteSpace(next)

\* What next is known to be, or not to be.
ShownNumber ==
  /\ Head(stack) = "natural" /\ stack[2] = "fraction" /\ text = <<>> => isNumber(next)
  /\ Head(stack) = "natural" /\ stack[2] = "numEnd" /\ isExponent(data[Taken]) => next \notin {"-", "+"}

ShownValue ==
  /\ Head(stack) = "str" => next # "}" /\ (stack[2] # "objKey" => next = "quote")
  /\ Head(stack) = "lit" => next \notin {"{", "[", "quote", "-"} /\ ~isNumber(next)
  /\ Place \in {"expr", "lit"} /\ partial # <<>> /\ partial[1].type = "array" =>
       Head(stack) # "skip" /\ next # Closing("array")

\* Where a value or a key must be next it begins here.
Expected(o) ==
  /\ Place \in {"expr", "lit"} => Begins(o, Taken + 1)
  /\ Place = "str" => TextBegins(o, Taken + 1)

\* A comma stands between j and the current character, ...
CommaTo(j) == Between(data, j, ",", Taken + 1)

\* as it does in a loop that saw one, behind the last item.
AfterItem(o) == Place \in Loops /\ lastWasComma => o[1].from < o[1].to /\ CommaTo(o[1].to)

\* No longer part of t from q on is a number, an integer within it, ...
IntegerStops(t, m, j)  == \A k \in j..Len(t) : IntegerAt(t, m, k) => k = j
MantissaStops(t, q, j) == \A k \in j..Len(t) : MantissaAt(t, q, k) => k = j
NumberStops(t, q, j)   == \A k \in j..Len(t) : NumberAt(t, q, k) => k = j

\* The token that is read began at q.
Lexed(o, q) == q \in start + 1..Taken + 1 /\ Begins(o, q) /\ text = SubSeq(data, q, Taken)

\* What is known of t where a number is being read, ...
InteriorKnown(t, o) ==
  /\ Place = "fraction" =>
       \E q : Lexed(o, q) /\ \E m \in q..Taken : SignAt(data, q, m) /\ IntegerAt(data, m, Taken)
                                                 /\ IntegerStops(t, m, Taken)
  /\ Place = "exponent" =>
       \E q : Lexed(o, q) /\ MantissaAt(data, q, Taken) /\ MantissaStops(t, q, Taken)
  /\ Place = "numEnd" =>
       \E q : Lexed(o, q) /\ NumberAt(data, q, Taken) /\ NumberStops(t, q, Taken)
  /\ Place = "letters" => \A k \in DOMAIN text : isLowerAlpha(text[k])

\* The scalar in text is what D has there.
ReadScalar(t, D, o, tree) ==
  \E q, r \in start + 1..Taken :
    /\ q <= r /\ Begins(o, q) /\ text = SubSeq(data, q, r) /\ White(data, r + 1, Taken)
    /\ StartsValue(data[q]) /\ Means(t, D, q, r, tree)
    /\ tree[1] # "literal" => NumberAt(data, q, r)

\* where a scalar was read: the text has no other there, ...
ScalarKnown(t, D, o) ==
  /\ Place = "numDone" => ReadScalar(t, D, o, <<NumberSort(text), text>>)
  /\ Place = "litDone" => ReadScalar(t, D, o, <<"literal", text>>)

\* The value in atom is what D has there.
Is(t, D, F, o, k, j) ==
  ReadValue(F, o, k, j) /\ k <= j /\ StartsValue(data[k]) /\ Means(t, D, k, j, atom)

\* where a value was read: t has this one at its place, ...
ValueKnown(t, D, F, o) ==
  /\ Place \in {"exprEnd", "rootEnd"} =>
       \E k, j \in start + 1..Taken : Is(t, D, F, o, k, j) /\ White(data, j + 1, Taken)
  /\ Place \in {"objAdd", "arrAdd"} =>
       \E k, j \in start + 1..Taken :
         /\ Is(t, D, F, o, k, j)
         /\ lastWasComma => CommaTo(j)
         /\ ~lastWasComma => White(data, j + 1, Taken) /\ Lost

\* and at all places together.
Known(t, D, F, o) ==
  /\ Place # "readSync"
  /\ Shown /\ ShownNumber /\ ShownValue /\ Expected(o) /\ AfterItem(o)
  /\ InteriorKnown(t, o) /\ ScalarKnown(t, D, o) /\ ValueKnown(t, D, F, o)

\* The parser goes along t: D derives the values of t, F those that were read and
\* stand in o, and what was read agrees with both.
Along(t, D, F, o) == PartOK(F, o) /\ Follows(t, D, o) /\ Known(t, D, F, o)

\* What is known of a text that begins with what was read, and of the parser.
LEMMA AlongFacts ==
  ASSUME CommaInv, FramesInv, Parsing, NEW t, NEW D, Viable(t, D), NEW F, NEW o,
         Along(t, D, F, o)
  PROVE  /\ t \in Seq(Char) /\ Len(t) \in Nat /\ Derivation(t, D) /\ data \in Seq(Char)
         /\ Len(data) \in Nat /\ start \in Nat /\ Taken \in Nat /\ start <= Taken
         /\ pos \in Nat /\ Taken <= pos /\ pos <= Len(t) /\ pos <= Len(data)
         /\ Agree(data, t, pos) /\ Agree(t, data, pos)
         /\ ~AtEOF => pos = Taken + 1 /\ next = data[Taken + 1] /\ next = t[Taken + 1]
         /\ stack \in Seq(Labels) /\ StackOK /\ stack # <<>>
         /\ partial \in Seq(Container) /\ Len(partial) \in Nat /\ (partial # <<>> => Len(partial) > 0)
         /\ PartOK(F, o) /\ Follows(t, D, o) /\ Known(t, D, F, o)
         /\ ContainersOK(F, o) /\ Here(F, o) /\ Derivation(data, F)
<1>1. PartOK(F, o) /\ Follows(t, D, o) /\ Known(t, D, F, o)
  BY DEF Along
<1>2. /\ data \in Seq(Char) /\ Len(data) \in Nat /\ start \in Nat /\ next \in Char
      /\ Taken \in Nat /\ Taken <= Len(data) /\ start <= Taken
      /\ stack \in Seq(Labels) /\ StackOK /\ stack # <<>>
      /\ partial \in Seq(Container) /\ Len(partial) \in Nat /\ (partial # <<>> => Len(partial) > 0)
      /\ ContainersOK(F, o) /\ Here(F, o) /\ Derivation(data, F)
  BY <1>1, Basics
<1>3. pos \in Nat /\ Taken <= pos /\ pos <= Len(data)
  BY <1>2, Cursor
<1>4. t \in Seq(Char) /\ pos <= Len(t) /\ Derivation(t, D) /\ \A i \in 1..pos : t[i] = data[i]
  BY DEF Viable, Fits
<1>5. Len(t) \in Nat
  BY <1>4, LenProperties
<1>6. Agree(data, t, pos) /\ Agree(t, data, pos)
  BY <1>4 DEF Agree
<1>7. ~AtEOF => pos = Taken + 1
  BY <1>3 DEF Taken, AtEOF
<1>8. ASSUME ~AtEOF PROVE next = data[Taken + 1] /\ next = t[Taken + 1]
  <2>1. next = data[Taken + 1]
    BY <1>2, <1>8, Ahead
  <2>2. Taken + 1 \in 1..pos
    BY <1>2, <1>7, <1>8
  <2> QED
    BY <1>4, <2>1, <2>2
<1> QED
  BY <1>1, <1>2, <1>3, <1>4, <1>5, <1>6, <1>7, <1>8

\* Where D goes through the innermost container.
LEMMA InnermostLeads ==
  ASSUME CommaInv, FramesInv, Parsing, NEW t, NEW D, Viable(t, D), NEW F, NEW o,
         Along(t, D, F, o), partial # <<>>
  PROVE  /\ o[1].from \in Nat /\ o[1].to \in Nat /\ start < o[1].from /\ o[1].from <= o[1].to
         /\ o[1].to <= Taken /\ o \in Seq(Spans) /\ Len(o) = Len(partial) /\ 1 \in 1..Len(partial)
         /\ \E e \in Nat : \E tree : Whole(o[1].from, e, tree) \in D
         /\ \A e, tree : Whole(o[1].from, e, tree) \in D =>
              e \in Nat /\ Leads(t, D, Begun(o[1].from, o[1].to, <<partial[1].type, partial[1].items>>), e, tree)
<1>0. /\ start \in Nat /\ Taken \in Nat /\ Len(partial) \in Nat /\ (partial # <<>> => Len(partial) > 0)
      /\ ContainersOK(F, o) /\ Follows(t, D, o) /\ Derivation(t, D) /\ Len(t) \in Nat
  BY AlongFacts
<1>1. /\ o[1].from \in Nat /\ o[1].to \in Nat /\ start < o[1].from /\ o[1].from <= o[1].to
      /\ o[1].to <= Taken /\ o \in Seq(Spans) /\ Len(o) = Len(partial) /\ 1 \in 1..Len(partial)
  BY <1>0, InnermostSpan
<1>2. /\ \E e, tree : Whole(o[1].from, e, tree) \in D
      /\ \A e, tree : Whole(o[1].from, e, tree) \in D =>
           Leads(t, D, Begun(o[1].from, o[1].to, <<partial[1].type, partial[1].items>>), e, tree)
  BY <1>0, <1>1 DEF Follows
<1>3. ASSUME NEW e, NEW tree, Whole(o[1].from, e, tree) \in D PROVE e \in Nat
  <2>1. e \in 1..Len(t)
    BY <1>0, <1>3, WholeByRule
  <2> QED
    BY <1>0, <2>1
<1> QED
  BY <1>1, <1>2, <1>3

\* Where a value begins, D has one.
LEMMA DueValue ==
  ASSUME CommaInv, FramesInv, Parsing, NEW t, NEW D, Viable(t, D), NEW F, NEW o,
         Along(t, D, F, o), NEW q \in Nat, Begins(o, q), q <= pos, ~isWhiteSpace(data[q]),
         partial # <<>> /\ partial[1].type = "array" => data[q] # Closing("array")
  PROVE  /\ \E r \in Nat : \E b : Stands(t, D, q, r, b) /\ q <= r /\ r <= Len(t)
         /\ t[q] = data[q] /\ q \in 1..pos
         /\ partial = <<>> => data[q] \in {"{", "["}
         /\ partial # <<>> => q # start + 1
<1>0. /\ t \in Seq(Char) /\ Len(t) \in Nat /\ Derivation(t, D) /\ start \in Nat /\ Taken \in Nat
      /\ pos \in Nat /\ pos <= Len(t) /\ Agree(data, t, pos)
      /\ partial \in Seq(Container)
  BY AlongFacts
<1>1. CASE partial = <<>>
  <2>1. q = start + 1
    BY <1>1 DEF Begins
  <2>2. q \in 1..pos
    BY <1>0, <2>1
  <2>3. t[q] = data[q] /\ t[q] \in {"{", "["}
    BY <1>0, <2>1, <2>2 DEF Agree, Viable
  <2>4. PICK r, b : Whole(q, r, b) \in D
    BY <2>1 DEF Viable
  <2>5. r \in 1..Len(t) /\ q <= r
    BY <1>0, <2>4, WholeByRule
  <2>6. Stands(t, D, q, r, b) /\ r \in Nat /\ r <= Len(t)
    BY <1>0, <2>1, <2>4, <2>5 DEF Stands
  <2> QED
    BY <1>1, <2>2, <2>3, <2>5, <2>6
<1>2. CASE partial # <<>>
  <2>1. PICK i, p, type, items :
          /\ i \in Nat /\ p \in Nat /\ i \in Int /\ p \in Int
          /\ i = o[1].from /\ p = o[1].to /\ type = partial[1].type /\ items = partial[1].items
    BY <1>2, InnermostLeads
  <2>2. start < i /\ i <= p
    BY <1>2, <2>1, InnermostLeads
  <2>3. PICK e \in Nat : \E tree : Whole(i, e, tree) \in D
    BY <1>2, <2>1, InnermostLeads
  <2>4. PICK tree : Whole(i, e, tree) \in D
    BY <2>3
  <2>5. Leads(t, D, Begun(i, p, <<type, items>>), e, tree)
    BY <1>2, <2>1, <2>4, InnermostLeads
  <2>6. PICK key : SlotAt(data, type, key, i, p, q)
    BY <1>2, <2>1 DEF Begins
  <2>7. p < q
    <3>1. i \in Int /\ p \in Int /\ q \in Int
      BY <2>1
    <3> QED
      BY <2>6, <3>1, SlotAhead
  <2>8. q \in 1..pos /\ q - 1 <= pos /\ i >= 0 /\ p >= 0 /\ q \in Int /\ i \in Int /\ p \in Int
        /\ q # start + 1 /\ pos \in Int
    BY <1>0, <2>1, <2>2, <2>7
  <2>9. SlotAt(t, type, key, i, p, q)
    BY <1>0, <2>6, <2>8, AgreeSlot
  <2>10. t[q] = data[q]
    BY <1>0, <2>8 DEF Agree
  <2>11. ~isWhiteSpace(t[q])
    BY <2>10
  <2>12. type = "array" /\ p = i => t[q] # Closing(type)
    BY <1>2, <2>1, <2>10
  <2>13. PICK r \in Nat : \E b : q <= r /\ Whole(q, r, b) \in D /\ Stopped(t, r)
    BY <1>0, <2>1, <2>2, <2>5, <2>9, <2>11, <2>12, NextValue
  <2>14. PICK b : q <= r /\ Whole(q, r, b) \in D /\ Stopped(t, r)
    BY <2>13
  <2>15. r \in 1..Len(t)
    BY <1>0, <2>14, WholeByRule
  <2>16. Stands(t, D, q, r, b) /\ q <= r /\ r <= Len(t)
    BY <1>0, <2>14, <2>15 DEF Stands
  <2> QED
    BY <1>2, <2>8, <2>10, <2>16
<1> QED
  BY <1>1, <1>2

\* Where the key of a member begins, D has one and a colon behind it.
LEMMA DueKey ==
  ASSUME CommaInv, FramesInv, Parsing, NEW t, NEW D, Viable(t, D), NEW F, NEW o,
         Along(t, D, F, o), NEW q \in Nat, KeyBegins(o, q), q <= pos, ~isWhiteSpace(data[q]),
         data[q] # Closing("object")
  PROVE  /\ \E r \in Nat, k \in Nat : StringAt(t, q, r) /\ Between(t, r, ":", k)
         /\ t[q] = data[q] /\ q \in 1..pos
<1>0. /\ t \in Seq(Char) /\ Len(t) \in Nat /\ Derivation(t, D) /\ start \in Nat /\ Taken \in Nat
      /\ pos \in Nat /\ pos <= Len(t) /\ Agree(data, t, pos)
  BY AlongFacts
<1>p. partial # <<>> /\ partial[1].type = "object" /\ NextAt(data, o[1].from, o[1].to, q)
  BY DEF KeyBegins
<1>1. PICK i, p, items :
        /\ i \in Nat /\ p \in Nat
        /\ i = o[1].from /\ p = o[1].to /\ items = partial[1].items
  BY <1>p, InnermostLeads
<1>2. start < i /\ i <= p
  BY <1>p, <1>1, InnermostLeads
<1>3. PICK e \in Nat : \E tree : Whole(i, e, tree) \in D
  BY <1>p, <1>1, InnermostLeads
<1>4. PICK tree : Whole(i, e, tree) \in D
  BY <1>3
<1>5. Leads(t, D, Begun(i, p, <<"object", items>>), e, tree)
  <2>1. Leads(t, D, Begun(i, p, <<partial[1].type, items>>), e, tree)
    BY <1>p, <1>1, <1>4, InnermostLeads
  <2> QED
    BY <1>p, <2>1
<1>7. p < q
  BY <1>p, <1>1 DEF NextAt
<1>8. q \in 1..pos /\ q - 1 <= pos /\ i >= 0 /\ p >= 0 /\ q \in Int /\ i \in Int /\ p \in Int /\ pos \in Int
  BY <1>0, <1>1, <1>2, <1>7
<1>9. NextAt(t, i, p, q)
  BY <1>0, <1>p, <1>1, <1>8, AgreeNext
<1>10. t[q] = data[q]
  BY <1>0, <1>8 DEF Agree
<1>11. ~isWhiteSpace(t[q]) /\ (p = i => t[q] # Closing("object"))
  BY <1>10
<1>12. \E r \in Nat, k \in Nat : StringAt(t, q, r) /\ Between(t, r, ":", k)
  BY <1>0, <1>1, <1>2, <1>5, <1>9, <1>11, NextKey
<1> QED
  BY <1>8, <1>10, <1>12

\* A step that keeps the items of the containers goes through them like D.
LEMMA FollowsStays ==
  ASSUME NEW t, NEW D, NEW o, Follows(t, D, o), Len(partial') = Len(partial),
         \A n \in 1..Len(partial) :
           partial'[n].type = partial[n].type /\ partial'[n].items = partial[n].items
  PROVE  Follows(t, D, o)'
BY DEF Follows

\* The places of which Known says nothing but what the number loops know.
QuietPlaces == StringPlaces \cup {"strDone", "objKey", "zero", "digits10", "digits16", "digits8",
                                  "digits2", "decimal", "natural", "expSign"}

\* Which part of what is known a place needs.
LEMMA KnownIs ==
  ASSUME NEW t, NEW D, NEW F, NEW o, Shown', ShownNumber', ShownValue'
  PROVE  /\ Place' \in QuietPlaces => Known(t, D, F, o)'
         /\ Place' \in {"expr", "lit"} /\ Begins(o, Taken + 1)' => Known(t, D, F, o)'
         /\ Place' = "str" /\ TextBegins(o, Taken + 1)' => Known(t, D, F, o)'
         /\ Place' \in Loops /\ AfterItem(o)' => Known(t, D, F, o)'
         /\ Place' \in {"fraction", "exponent", "numEnd", "letters"} /\ InteriorKnown(t, o)' =>
              Known(t, D, F, o)'
         /\ Place' \in {"numDone", "litDone"} /\ ScalarKnown(t, D, o)' => Known(t, D, F, o)'
         /\ Place' \in {"exprEnd", "rootEnd", "objAdd", "arrAdd"} /\ ValueKnown(t, D, F, o)' =>
              Known(t, D, F, o)'
<1>1. Place' \notin {"expr", "lit", "str"} => Expected(o)'
  BY DEF Expected
<1>2. Place' \notin Loops => AfterItem(o)'
  BY DEF AfterItem
<1>3. Place' \notin {"fraction", "exponent", "numEnd", "letters"} => InteriorKnown(t, o)'
  BY DEF InteriorKnown
<1>4. Place' \notin {"numDone", "litDone"} => ScalarKnown(t, D, o)'
  BY DEF ScalarKnown
<1>5. Place' \notin {"exprEnd", "rootEnd", "objAdd", "arrAdd"} => ValueKnown(t, D, F, o)'
  BY DEF ValueKnown
<1>6. Place' \in {"expr", "lit"} /\ Begins(o, Taken + 1)' => Expected(o)'
  BY DEF Expected
<1>7. Place' = "str" /\ TextBegins(o, Taken + 1)' => Expected(o)'
  BY DEF Expected
<1> USE <1>1, <1>2, <1>3, <1>4, <1>5
<1>8. Place' \in QuietPlaces => Known(t, D, F, o)'
  BY DEF Known, QuietPlaces, StringPlaces, Loops
<1>9. Place' \in {"expr", "lit"} /\ Begins(o, Taken + 1)' => Known(t, D, F, o)'
  BY <1>6 DEF Known, Loops
<1>10. Place' = "str" /\ TextBegins(o, Taken + 1)' => Known(t, D, F, o)'
  BY <1>7 DEF Known, Loops
<1>11. Place' \in Loops /\ AfterItem(o)' => Known(t, D, F, o)'
  BY DEF Known, Loops
<1>12. Place' \in {"fraction", "exponent", "numEnd", "letters"} /\ InteriorKnown(t, o)' =>
         Known(t, D, F, o)'
  BY DEF Known, Loops
<1>13. Place' \in {"numDone", "litDone"} /\ ScalarKnown(t, D, o)' => Known(t, D, F, o)'
  BY DEF Known, Loops
<1>14. Place' \in {"exprEnd", "rootEnd", "objAdd", "arrAdd"} /\ ValueKnown(t, D, F, o)' =>
         Known(t, D, F, o)'
  BY DEF Known, Loops
<1> QED
  BY <1>8, <1>9, <1>10, <1>11, <1>12, <1>13, <1>14

\* Where nothing needs to be known of the next character.
LEMMA NothingShown ==
  /\ Head(stack') \notin Skipped \cup {"natural"} =>
       (Place' \notin {"expr", "lit"} => Shown' /\ ShownNumber' /\ ShownValue')
  /\ Head(stack') # "natural" => ShownNumber'
  /\ Head(stack') \notin {"str", "lit"} /\ Place' \notin {"expr", "lit"} => ShownValue'
  /\ Head(stack') \notin Skipped => Shown'
  /\ UNCHANGED <<streamVars, next>> /\ Shown /\ Head(stack) \in Skipped => Shown'
<1>1. Head(stack') # "natural" => ShownNumber'
  BY DEF ShownNumber
<1>2. Head(stack') \notin {"str", "lit"} /\ Place' \notin {"expr", "lit"} => ShownValue'
  BY Zenon DEF ShownValue
<1>3. Head(stack') \notin Skipped => Shown'
  BY DEF Shown
<1>4. UNCHANGED <<streamVars, next>> /\ Shown /\ Head(stack) \in Skipped => Shown'
  BY DEF Shown, streamVars, AtEOF
<1>5. Head(stack') \notin Skipped => Head(stack') \notin {"str", "lit"}
  BY DEF Skipped
<1> QED
  BY <1>1, <1>2, <1>3, <1>4, <1>5

\* An error leaves nothing but readSync().
LEMMA AfterThrow ==
  ASSUME NEW error, Throw(error)
  PROVE  Head(stack') = "readSync"
<1>1. stack' = <<"readSync">>
  BY DEF Throw
<1> QED
  BY <1>1

\* What Along needs after a step that leaves the containers alone.
LEMMA AlongStays ==
  ASSUME NEW t, NEW D, NEW F, NEW o, Along(t, D, F, o), UNCHANGED partial,
         PartOK(F, o)', Known(t, D, F, o)'
  PROVE  Along(t, D, F, o)'
<1>1. Follows(t, D, o)'
  BY FollowsStays DEF Along
<1> QED
  BY <1>1 DEF Along

\* A step to a place where nothing new needs to be known.
LEMMA AlongQuiet ==
  ASSUME NEW t, NEW D, NEW F, NEW o, Along(t, D, F, o), UNCHANGED partial,
         PartOK(F, o)', Place' \in QuietPlaces, Head(stack') \notin Skipped \cup {"natural"}
  PROVE  Along(t, D, F, o)'
<1>1. Place' \notin {"expr", "lit"}
  BY DEF QuietPlaces, StringPlaces
<1>2. Known(t, D, F, o)'
  BY <1>1, NothingShown, KnownIs
<1> QED
  BY <1>2, AlongStays

-----------------------------------------------------------------------------
(***************************************************************************)
(* Strings: the characters that are due are taken, and the end is found.   *)
(***************************************************************************)

\* The string the parser is in is one of the text too, and D has it.
LEMMA StringDue ==
  ASSUME CommaInv, FramesInv, Parsing, NEW t, NEW D, Viable(t, D), NEW F, NEW o,
         Along(t, D, F, o), NEW q \in start + 1..Taken, data[q] = "quote",
         KeyBegins(o, q) \/ Begins(o, q)
  PROVE  \E r \in Nat : StringAt(t, q, r) /\ t[q] = "quote"
<1>0. /\ start \in Nat /\ Taken \in Nat /\ Taken <= pos /\ pos \in Nat
      /\ t \in Seq(Char) /\ Derivation(t, D)
  BY AlongFacts
<1>1. q \in Nat /\ q <= pos
  BY <1>0
<1>2. ~isWhiteSpace(data[q]) /\ \A type : data[q] # Closing(type)
  BY NotWhite
<1>3. CASE KeyBegins(o, q)
  BY <1>1, <1>2, <1>3, DueKey
<1>4. CASE Begins(o, q)
  <2>1. /\ \E r \in Nat : \E b : Stands(t, D, q, r, b) /\ q <= r /\ r <= Len(t)
        /\ t[q] = data[q]
    BY <1>1, <1>2, <1>4, DueValue
  <2>2. PICK r \in Nat : \E b : Stands(t, D, q, r, b)
    BY <2>1
  <2>3. PICK b : Whole(q, r, b) \in D
    BY <2>2 DEF Stands
  <2>4. StringAt(t, q, r)
    BY <1>0, <2>1, <2>3, WholeKinds DEF StringIs
  <2> QED
    BY <2>1, <2>4
<1> QED
  BY <1>3, <1>4

\* What is read of a string up to a piece goes on with that piece.
LEMMA PieceDue ==
  ASSUME CommaInv, FramesInv, Parsing, NEW t, NEW D, Viable(t, D), NEW F, NEW o,
         Along(t, D, F, o), NEW q \in start + 1..Taken, data[q] = "quote",
         KeyBegins(o, q) \/ Begins(o, q), NEW x \in Nat, x <= Taken + 1, x <= pos,
         BodyAt(data, q + 1, x)
  PROVE  data[x] = "quote" \/ \E m : PieceAt(t, x, m)
<1>0. /\ start \in Nat /\ Taken \in Nat /\ pos \in Nat /\ Agree(data, t, pos)
  BY AlongFacts
<1>1. PICK r \in Nat : StringAt(t, q, r)
  BY StringDue
<1>2. q + 1 \in Nat /\ q + 1 \in Int /\ x \in Int /\ pos \in Int /\ q + 1 >= 1 /\ x - 1 <= pos /\ q \in Int
  BY <1>0
<1>3. BodyAt(t, q + 1, x)
  BY <1>0, <1>2, AgreeBody
<1>4. BodyAt(t, q + 1, r) /\ t[r] = "quote"
  BY <1>1 DEF StringAt
<1>5. PICK i \in Nat : i = q + 1
  BY <1>2
<1>6. x = r \/ \E m \in i..r : PieceAt(t, x, m)
  BY <1>3, <1>4, <1>5, BodyMeets
<1>7. x \in 1..pos
  <2>1. q + 1 <= x
    BY <1>2, SMT DEF BodyAt
  <2> QED
    BY <1>0, <1>2, <2>1
<1>8. t[x] = data[x]
  BY <1>0, <1>7 DEF Agree
<1> QED
  BY <1>4, <1>6, <1>8

\* No character of a string is refused: D has it.
LEMMA CharsDue ==
  ASSUME CommaInv, FramesInv, Parsing, NEW t, NEW D, Viable(t, D), NEW F, NEW o,
         Along(t, D, F, o)
  PROVE  /\ On("chars") => ~isControl(next)
         /\ On("escape") => next \in SimpleEscapes \cup {"u"}
         /\ \A l \in {"hex4", "hex3", "hex2", "hex1"} : On(l) => isHex(next)
<1>0. /\ start \in Nat /\ Taken \in Nat /\ pos \in Nat /\ Agree(data, t, pos)
      /\ Here(F, o) /\ Taken <= pos
      /\ ~AtEOF => pos = Taken + 1 /\ next = data[Taken + 1] /\ next = t[Taken + 1]
  BY AlongFacts
<1>1. ASSUME NEW l \in StringPlaces, On(l)
      PROVE  /\ Place = l /\ pos = Taken + 1 /\ next = data[Taken + 1] /\ next = t[Taken + 1]
             /\ \E q \in start + 1..Taken :
                  /\ data[q] = "quote" /\ (KeyBegins(o, q) \/ Begins(o, q))
                  /\ l = "chars"  => BodyAt(data, q + 1, Taken + 1)
                  /\ l = "escape" => BodyAt(data, q + 1, Taken) /\ data[Taken] = "backslash"
                  /\ l = "hex4"   => HexPart(q, Taken)
                  /\ l = "hex3"   => HexPart(q, Taken - 1)
                  /\ l = "hex2"   => HexPart(q, Taken - 2)
                  /\ l = "hex1"   => HexPart(q, Taken - 3)
  <2>1. Head(stack) = l /\ ~AtEOF /\ Place = l
    BY <1>1 DEF On, At, Place, StringPlaces
  <2>2. InString(o)
    BY <1>0, <1>1, <2>1 DEF Here
  <2>3. \A q : TextBegins(o, q) => KeyBegins(o, q) \/ Begins(o, q)
    BY DEF TextBegins
  <2> QED
    BY <1>0, <2>1, <2>2, <2>3 DEF InString
<1>2. ASSUME On("chars"), isControl(next) PROVE FALSE
  <2>1. /\ pos = Taken + 1 /\ next = data[Taken + 1] /\ next = t[Taken + 1]
        /\ \E q \in start + 1..Taken :
             /\ data[q] = "quote" /\ (KeyBegins(o, q) \/ Begins(o, q))
             /\ BodyAt(data, q + 1, Taken + 1)
    BY <1>1, <1>2 DEF StringPlaces
  <2>2. PICK q \in start + 1..Taken :
          /\ data[q] = "quote" /\ (KeyBegins(o, q) \/ Begins(o, q))
          /\ BodyAt(data, q + 1, Taken + 1)
    BY <2>1
  <2>3. Taken + 1 \in Nat /\ Taken + 1 <= Taken + 1 /\ Taken + 1 <= pos
    BY <1>0, <2>1
  <2>4. PICK x \in Nat : x = Taken + 1
    BY <2>3
  <2>5. data[x] = "quote" \/ \E m : PieceAt(t, x, m)
    BY <2>2, <2>3, <2>4, PieceDue
  <2>6. next # "quote" /\ next # "backslash"
    BY <1>2, Zenon DEF isControl, Control
  <2>7. ~isAllowedAlpha(next)
    BY <1>2 DEF isAllowedAlpha
  <2> QED
    BY <2>1, <2>4, <2>5, <2>6, <2>7 DEF PieceAt
<1>3. ASSUME On("escape") PROVE next \in SimpleEscapes \cup {"u"}
  <2>1. /\ pos = Taken + 1 /\ next = data[Taken + 1] /\ next = t[Taken + 1]
        /\ \E q \in start + 1..Taken :
             /\ data[q] = "quote" /\ (KeyBegins(o, q) \/ Begins(o, q))
             /\ BodyAt(data, q + 1, Taken) /\ data[Taken] = "backslash"
    BY <1>1, <1>3 DEF StringPlaces
  <2>2. PICK q \in start + 1..Taken :
          /\ data[q] = "quote" /\ (KeyBegins(o, q) \/ Begins(o, q))
          /\ BodyAt(data, q + 1, Taken) /\ data[Taken] = "backslash"
    BY <2>1
  <2>3. PICK x \in Nat : x = Taken
    BY <1>0
  <2>4. x \in Nat /\ x <= Taken + 1 /\ x <= pos /\ x \in 1..pos
    BY <1>0, <2>2, <2>3
  <2>5. data[x] = "quote" \/ \E m : PieceAt(t, x, m)
    BY <2>2, <2>3, <2>4, PieceDue
  <2>6. t[x] = data[x]
    BY <1>0, <2>4 DEF Agree
  <2>7. t[x] = "backslash" /\ ~isAllowedAlpha(t[x])
    BY <2>2, <2>3, <2>6 DEF isAllowedAlpha
  <2> QED
    BY <2>1, <2>2, <2>3, <2>5, <2>7, Zenon DEF PieceAt
<1>4. ASSUME NEW l, NEW d, On(l), ~isHex(next),
             \/ l = "hex4" /\ d = 0
             \/ l = "hex3" /\ d = 1
             \/ l = "hex2" /\ d = 2
             \/ l = "hex1" /\ d = 3
      PROVE  FALSE
  <2>d. d \in 0..3
    <3>1. d = 0 \/ d = 1 \/ d = 2 \/ d = 3
      BY <1>4
    <3> QED
      BY <3>1
  <2>1. /\ pos = Taken + 1 /\ next = data[Taken + 1] /\ next = t[Taken + 1]
        /\ \E q \in start + 1..Taken :
             /\ data[q] = "quote" /\ (KeyBegins(o, q) \/ Begins(o, q))
             /\ HexPart(q, Taken - d)
    <3>1. l \in StringPlaces
      BY <1>4 DEF StringPlaces
    <3>2. Taken - 0 = Taken
      BY <1>0
    <3>3. /\ pos = Taken + 1 /\ next = data[Taken + 1] /\ next = t[Taken + 1]
          /\ \E q \in start + 1..Taken :
               /\ data[q] = "quote" /\ (KeyBegins(o, q) \/ Begins(o, q))
               /\ l = "hex4"   => HexPart(q, Taken)
               /\ l = "hex3"   => HexPart(q, Taken - 1)
               /\ l = "hex2"   => HexPart(q, Taken - 2)
               /\ l = "hex1"   => HexPart(q, Taken - 3)
      BY <1>1, <1>4, <3>1
    <3>4. PICK q \in start + 1..Taken :
            /\ data[q] = "quote" /\ (KeyBegins(o, q) \/ Begins(o, q))
            /\ l = "hex4"   => HexPart(q, Taken)
            /\ l = "hex3"   => HexPart(q, Taken - 1)
            /\ l = "hex2"   => HexPart(q, Taken - 2)
            /\ l = "hex1"   => HexPart(q, Taken - 3)
      BY <3>3
    <3>5. CASE l = "hex4" /\ d = 0
      BY <3>2, <3>3, <3>4, <3>5
    <3>6. CASE l = "hex3" /\ d = 1
      BY <3>3, <3>4, <3>6
    <3>7. CASE l = "hex2" /\ d = 2
      BY <3>3, <3>4, <3>7
    <3>8. CASE l = "hex1" /\ d = 3
      BY <3>3, <3>4, <3>8
    <3> QED
      BY <1>4, <3>5, <3>6, <3>7, <3>8
  <2>2. PICK q \in start + 1..Taken :
          /\ data[q] = "quote" /\ (KeyBegins(o, q) \/ Begins(o, q))
          /\ HexPart(q, Taken - d)
    BY <2>1
  <2>3. PICK x \in Int : x = Taken - d - 1
    BY <1>0, <2>d
  <2>4. BodyAt(data, q + 1, x) /\ data[x] = "backslash" /\ data[x + 1] = "u" /\ x + 1 = Taken - d
    <3>1. Taken - d = x + 1 /\ (Taken - d) - 1 = x
      BY <1>0, <2>d, <2>3
    <3> QED
      BY <2>2, <3>1 DEF HexPart
  <2>5. x \in Nat /\ x <= Taken + 1 /\ x <= pos /\ x \in 1..pos /\ x + 1 \in 1..pos
    <3>1. q + 1 <= x
      BY <1>0, <2>4, SMT DEF BodyAt
    <3> QED
      BY <1>0, <2>1, <2>d, <2>3, <3>1
  <2>6. data[x] = "quote" \/ \E m : PieceAt(t, x, m)
    BY <2>2, <2>4, <2>5, PieceDue
  <2>7. t[x] = data[x] /\ t[x + 1] = data[x + 1]
    BY <1>0, <2>5 DEF Agree
  <2>8. t[x] = "backslash" /\ ~isAllowedAlpha(t[x]) /\ t[x] # "quote" /\ t[x + 1] = "u"
    BY <2>4, <2>7 DEF isAllowedAlpha
  <2>9. "u" \notin SimpleEscapes
    BY Zenon DEF SimpleEscapes
  <2>10. Run(t, x + 2, x + 5, Hex)
    BY <2>4, <2>6, <2>8, <2>9, Zenon DEF PieceAt
  <2>11. Taken + 1 \in x + 2..x + 5
    BY <1>0, <2>d, <2>3
  <2>12. t[Taken + 1] \in Hex
    BY <2>10, <2>11 DEF Run
  <2> QED
    BY <1>4, <2>1, <2>12 DEF Hex
<1>5. ASSUME NEW l \in {"hex4", "hex3", "hex2", "hex1"}, On(l) PROVE isHex(next)
  BY <1>4, <1>5
<1> QED
  BY <1>2, <1>3, <1>5

\* A step of string() stays along the text.
LEMMA StringAlong ==
  ASSUME CommaInv, FramesInv, Parsing, NEW t, NEW D, Viable(t, D), NEW F, NEW o,
         Along(t, D, F, o),
         BeginString \/ NotAString \/ StringChar \/ Escape \/ validateUnicodeSequence
  PROVE  Along(t, D, F, o)'
<1>0. /\ PartOK(F, o) /\ Known(t, D, F, o) /\ stack \in Seq(Labels) /\ StackOK /\ stack # <<>>
      /\ Taken \in Nat
      /\ ~AtEOF => pos = Taken + 1 /\ next = data[Taken + 1] /\ next = t[Taken + 1]
  BY AlongFacts
<1>1. PartOK(F, o)' \/ Throw("BAD_JSON")
  BY <1>0, StringStepsOK
<1>2. ASSUME UNCHANGED partial, NEW l \in StringPlaces, Goto(<<l>>) \/ (Head(stack) = l /\ UNCHANGED stack),
             Head(stack) \in StringPlaces \cup {"str"}
      PROVE  Along(t, D, F, o)'
  <2>1. /\ Head(stack) \notin Roots /\ Below(Head(stack)) \subseteq Below(l) /\ l \in Labels \ {"skip"}
    BY <1>2, BelowValues DEF StringPlaces, Roots, Labels, Checked, Unchecked
  <2>2. Head(stack') = l /\ Place' = l
    <3>1. CASE Goto(<<l>>)
      BY <1>0, <2>1, <3>1, GotoLabel
    <3>2. CASE Head(stack) = l /\ UNCHANGED stack
      BY <1>2, <2>1, <3>2 DEF Place
    <3> QED
      BY <1>2, <3>1, <3>2
  <2>3. l \in QuietPlaces /\ l \notin Skipped \cup {"natural"} /\ l # "readSync"
    BY <1>2 DEF QuietPlaces, StringPlaces, Skipped
  <2>4. PartOK(F, o)'
    BY <1>1, <2>2, <2>3, AfterThrow
  <2> QED
    BY <1>2, <2>2, <2>3, <2>4, AlongQuiet
<1>3. CASE BeginString
  <2>1. Head(stack) = "str" /\ Goto(<<"chars">>) /\ UNCHANGED partial
    BY <1>3 DEF BeginString, On, At
  <2> QED
    BY <1>2, <2>1 DEF StringPlaces
<1>4. ASSUME NotAString PROVE FALSE
  <2>1. Head(stack) = "str" /\ ~AtEOF /\ next # "quote" /\ Place = "str" /\ stack # <<>>
    BY <1>4 DEF NotAString, On, At, Place
  <2>2. next # "}" /\ (stack[2] # "objKey" => next = "quote")
    BY <1>0, <2>1, Zenon DEF Known, ShownValue
  <2>3. ~isWhiteSpace(next)
    BY <1>0, <2>1 DEF Known, Shown, Skipped
  <2>4. KeyBegins(o, Taken + 1)
    BY <1>0, <2>1, <2>2 DEF Known, Expected, TextBegins
  <2>5. PICK q \in Nat : q = Taken + 1
    BY <1>0
  <2>6. q <= pos /\ data[q] = next
    BY <1>0, <2>1, <2>5
  <2>7. data[q] # Closing("object")
    BY <2>2, <2>6 DEF Closing
  <2>8. \E r \in Nat, k \in Nat : StringAt(t, q, r) /\ Between(t, r, ":", k)
    BY <2>3, <2>4, <2>5, <2>6, <2>7, DueKey
  <2>9. t[q] = "quote"
    BY <2>8 DEF StringAt
  <2> QED
    BY <1>0, <2>1, <2>5, <2>9
<1>5. CASE StringChar
  <2>1. Head(stack) = "chars" /\ On("chars")
    BY <1>5 DEF StringChar, On, At
  <2>2. ~isControl(next)
    BY <2>1, CharsDue
  <2>3. CASE PushNext /\ UNCHANGED stack
    BY <1>2, <2>1, <2>3 DEF PushNext, StringPlaces
  <2>4. CASE PushNext /\ Goto(<<"escape">>)
    BY <1>2, <2>1, <2>4 DEF PushNext, StringPlaces
  <2>5. CASE Goto(<<"skip">>) /\ UNCHANGED partial
    <3>1. stack[2] \in {"strDone", "objKey"} /\ Below(Head(stack)) \subseteq Below("skip")
          /\ Head(stack) \notin Roots
      BY <1>0, <2>1, UnderHead, BelowValues DEF Roots
    <3>2. Head(stack') = "skip" /\ Place' = stack[2]
      BY <1>0, <2>5, <3>1, GotoLabel
    <3>3. Place' \in QuietPlaces /\ Head(stack') \notin Skipped \cup {"natural"} /\ Head(stack') # "readSync"
      BY <3>1, <3>2 DEF QuietPlaces, Skipped
    <3>4. PartOK(F, o)'
      BY <1>1, <3>3, AfterThrow
    <3> QED
      BY <2>5, <3>3, <3>4, AlongQuiet
  <2> QED
    BY <1>5, <2>2, <2>3, <2>4, <2>5 DEF StringChar, treeVars
<1>6. CASE Escape
  <2>1. Head(stack) = "escape" /\ On("escape")
    BY <1>6 DEF Escape, On, At
  <2>2. next \in SimpleEscapes \cup {"u"}
    BY <2>1, CharsDue
  <2>3. \E l \in {"chars", "hex4"} : PushNext /\ Goto(<<l>>)
    BY <1>6, <2>2 DEF Escape
  <2> QED
    BY <1>2, <2>1, <2>3 DEF PushNext, StringPlaces
<1>7. CASE validateUnicodeSequence
  <2>1. \E l \in {"hex4", "hex3", "hex2", "hex1"}, m \in {"hex3", "hex2", "hex1", "chars"} :
          On(l) /\ ((PushNext /\ Goto(<<m>>)) \/ ~isHex(next))
    BY <1>7 DEF validateUnicodeSequence, HexDigit
  <2>2. \E l \in {"hex4", "hex3", "hex2", "hex1"}, m \in {"hex3", "hex2", "hex1", "chars"} :
          On(l) /\ PushNext /\ Goto(<<m>>)
    BY <2>1, CharsDue
  <2> QED
    BY <1>2, <2>2 DEF PushNext, StringPlaces, On, At
<1> QED
  BY <1>3, <1>4, <1>5, <1>6, <1>7

\* Values begin with these characters.
LEMMA StartingChars ==
  /\ \A c : isNumber(c) \/ isLowerAlpha(c) \/ c \in {"quote", "-", "{", "["} => StartsValue(c)
  /\ \A c : StartsValue(c) => ~isWhiteSpace(c) /\ c # Closing("array") /\ c # Closing("object")
<1>1. ASSUME NEW c, isNumber(c) PROVE StartsValue(c)
  BY <1>1, Zenon DEF isNumber, Digits, StartsValue, isWhiteSpace, WhiteSpace
<1>2. ASSUME NEW c, isLowerAlpha(c) PROVE StartsValue(c)
  BY <1>2, Zenon DEF isLowerAlpha, LowerAlpha, LowerHex, StartsValue, isWhiteSpace, WhiteSpace
<1>3. ASSUME NEW c \in {"quote", "-", "{", "["} PROVE StartsValue(c)
  BY <1>3, Zenon DEF StartsValue, isWhiteSpace, WhiteSpace
<1>4. ASSUME NEW c, StartsValue(c)
      PROVE ~isWhiteSpace(c) /\ c # Closing("array") /\ c # Closing("object")
  BY <1>4, Zenon DEF StartsValue, Closing
<1> QED
  BY <1>1, <1>2, <1>3, <1>4

\* A step that keeps what was read keeps what D has.
LEMMA MeansStays ==
  ASSUME start' = start, NEW t, NEW D, NEW k, NEW j, NEW tree
  PROVE  Means(t, D, k, j, tree)' <=> Means(t, D, k, j, tree)
BY DEF Means, Stands

\* A scalar that D has was read.
LEMMA ScalarAlong ==
  ASSUME CommaInv, FramesInv, Parsing, NEW t, NEW D, Viable(t, D), NEW F, NEW o,
         Along(t, D, F, o), Head(stack) \in {"strDone", "numDone", "litDone"}, Return,
         UNCHANGED <<streamVars, next, start, partial>>,
         NEW q \in start + 1..Taken, NEW r \in start + 1..Taken, q <= r, Begins(o, q),
         White(data, r + 1, Taken), StartsValue(data[q]), ScalarAt(data, q, r, atom'),
         NEW tree, tree = atom', Means(t, D, q, r, tree)
  PROVE  \E G, p : Along(t, D, G, p)'
<1>0. /\ PartOK(F, o) /\ Follows(t, D, o) /\ Known(t, D, F, o)
      /\ stack \in Seq(Labels) /\ StackOK /\ stack # <<>>
  BY AlongFacts
<1>1. PICK G, a : a = atom' /\ Whole(q, r, a) \in G /\ PartOK(G, o)'
  BY <1>0, ScalarDone
<1>2. Taken' = Taken /\ data' = data /\ start' = start /\ partial' = partial
  BY Stays
<1>3. Place' \in {"exprEnd", "rootEnd"} /\ Head(stack') \in {"exprEnd", "rootEnd"}
  <2>1. Head(stack) \notin Roots /\ Below(Head(stack)) = {"exprEnd", "rootEnd"}
    BY BelowValues DEF Roots
  <2>2. stack[2] \in {"exprEnd", "rootEnd"} /\ Head(stack') = stack[2]
    BY <1>0, <2>1, UnderHead, ReturnPlace
  <2> QED
    BY <2>2 DEF Place
<1>4. Is(t, D, G, o, q, r)'
  <2>1. Begins(o, q)' /\ Means(t, D, q, r, a)'
    BY <1>1, <1>2, SameSlots, MeansStays
  <2>2. ReadValue(G, o, q, r)'
    BY <1>1, <2>1 DEF ReadValue, Whole
  <2>3. Means(t, D, q, r, atom)'
    BY <1>1, <2>1 DEF Means, Stands
  <2> QED
    BY <1>2, <2>2, <2>3 DEF Is
<1>5. ValueKnown(t, D, G, o)'
  BY <1>2, <1>3, <1>4 DEF ValueKnown
<1>6. Shown' /\ ShownNumber' /\ ShownValue'
  <2>1. Shown /\ Head(stack) \in Skipped
    BY <1>0 DEF Known, Skipped
  <2>2. /\ Head(stack') # "natural" /\ Head(stack') \notin {"str", "lit"}
        /\ Place' \notin {"expr", "lit"}
    BY <1>3
  <2> QED
    BY <2>1, <2>2, NothingShown
<1>7. Known(t, D, G, o)'
  BY <1>3, <1>5, <1>6, KnownIs
<1>8. Follows(t, D, o)'
  BY <1>0, <1>2, FollowsStays
<1>9. Along(t, D, G, o)'
  BY <1>1, <1>7, <1>8 DEF Along
<1> QED
  BY <1>9

\* The string that D has there was read.
LEMMA StringDoneAlong ==
  ASSUME CommaInv, FramesInv, Parsing, NEW t, NEW D, Viable(t, D), NEW F, NEW o,
         Along(t, D, F, o), StringDone
  PROVE  \E G, p : Along(t, D, G, p)'
<1>0. /\ Here(F, o) /\ start \in Nat /\ Taken \in Nat /\ Taken <= pos /\ pos \in Nat
      /\ Agree(data, t, pos) /\ t \in Seq(Char) /\ Derivation(t, D)
  BY AlongFacts
<1>1. /\ Head(stack) = "strDone" /\ Place = "strDone" /\ Return /\ atom' = <<"string", text>>
      /\ UNCHANGED <<streamVars, next, start, partial>>
  BY DEF StringDone, At, Place, callVars, parserVars
<1>2. PICK q, r \in start + 1..Taken :
        /\ Begins(o, q) /\ StringAt(data, q, r) /\ text = Inside(data, q, r)
        /\ White(data, r + 1, Taken)
  BY <1>0, <1>1 DEF Here, ReadString
<1>3. /\ q <= r /\ q \in Nat /\ r \in Nat /\ r <= pos /\ q >= 1 /\ q <= pos
      /\ q \in Int /\ r \in Int /\ pos \in Int
  <2>1. q < r
    BY <1>2 DEF StringAt
  <2> QED
    BY <1>0, <2>1
<1>4. data[q] = "quote" /\ StartsValue(data[q])
  BY <1>2, StartingChars DEF StringAt
<1>5. StringAt(t, q, r) /\ Inside(t, q, r) = Inside(data, q, r)
  BY <1>0, <1>2, <1>3, AgreeString
<1>6. PICK tree : tree = <<"string", text>>
  OBVIOUS
<1>7. Means(t, D, q, r, tree)
  <2>1. SUFFICES ASSUME NEW n, NEW b, Stands(t, D, q, n, b)
                 PROVE  n = r /\ b = tree
    BY DEF Means
  <2>2. Whole(q, n, b) \in D
    BY <2>1 DEF Stands
  <2>3. t[q] = "quote" /\ n \in Nat
    BY <1>0, <1>5, <2>2, ValueStarts DEF StringAt
  <2>4. StringAt(t, q, n) /\ b = <<"string", Inside(t, q, n)>>
    <3>1. StringIs(t, q, n, b)
      BY <1>0, <2>2, <2>3, WholeKinds
    <3> QED
      BY <3>1 DEF StringIs
  <2>5. n = r
    <3>1. q \in Nat /\ r \in Nat /\ n \in Nat
      BY <1>3, <2>3
    <3>2. StringAt(t, q, r) /\ StringAt(t, q, n)
      BY <1>5, <2>4
    <3> QED
      BY <3>1, <3>2, StringEnd
  <2> QED
    BY <1>2, <1>5, <1>6, <2>4, <2>5
<1>8. ScalarAt(data, q, r, atom')
  BY <1>1, <1>2 DEF ScalarAt
<1> QED
  BY <1>1, <1>2, <1>3, <1>4, <1>6, <1>7, <1>8, ScalarAlong

\* The number, or the literal, that D has there was read.
LEMMA DoneAlong ==
  ASSUME CommaInv, FramesInv, Parsing, NEW t, NEW D, Viable(t, D), NEW F, NEW o,
         Along(t, D, F, o), NumberDone \/ LiteralDone
  PROVE  \E G, p : Along(t, D, G, p)'
<1>0. /\ Known(t, D, F, o) /\ start \in Nat /\ Taken \in Nat /\ Taken <= pos /\ pos \in Nat
      /\ Agree(data, t, pos) /\ Agree(t, data, pos) /\ t \in Seq(Char) /\ Derivation(t, D) /\ Len(t) \in Nat
      /\ pos <= Len(t) /\ partial \in Seq(Container)
  BY AlongFacts
<1>1. CASE NumberDone
  <2>1. /\ Head(stack) = "numDone" /\ Place = "numDone" /\ Return
        /\ atom' = <<NumberSort(text), text>>
        /\ UNCHANGED <<streamVars, next, start, partial>>
    BY <1>1 DEF NumberDone, At, Place, callVars, parserVars, NumberSort
  <2>2. PICK tree : tree = <<NumberSort(text), text>>
    OBVIOUS
  <2>3. ReadScalar(t, D, o, tree)
    BY <1>0, <2>1, <2>2 DEF Known, ScalarKnown
  <2>4. PICK q, r \in start + 1..Taken :
          /\ q <= r /\ Begins(o, q) /\ text = SubSeq(data, q, r) /\ White(data, r + 1, Taken)
          /\ StartsValue(data[q]) /\ Means(t, D, q, r, tree)
          /\ tree[1] # "literal" => NumberAt(data, q, r)
    BY <2>3 DEF ReadScalar
  <2>5. NumberSort(text) # "literal"
    BY DEF NumberSort
  <2>6. ScalarAt(data, q, r, atom')
    BY <2>1, <2>2, <2>4, <2>5 DEF ScalarAt
  <2> QED
    BY <2>1, <2>2, <2>4, <2>6, ScalarAlong
<1>2. CASE LiteralDone
  <2>1. Head(stack) = "litDone" /\ Place = "litDone"
    BY <1>2 DEF LiteralDone, At, Place
  <2>2. PICK tree : tree = <<"literal", text>>
    OBVIOUS
  <2>3. ReadScalar(t, D, o, tree)
    BY <1>0, <2>1, <2>2 DEF Known, ScalarKnown
  <2>4. PICK q, r \in start + 1..Taken :
          /\ q <= r /\ Begins(o, q) /\ text = SubSeq(data, q, r) /\ White(data, r + 1, Taken)
          /\ StartsValue(data[q]) /\ Means(t, D, q, r, tree)
    BY <2>3 DEF ReadScalar
  <2>5. text \in Literals
    <3>1. /\ q \in Nat /\ q <= pos /\ q \in Int /\ q \in 1..Len(t) /\ r \in 1..Len(t)
          /\ r \in Int /\ pos \in Int /\ q >= 1 /\ r <= pos
      BY <1>0
    <3>2. ~isWhiteSpace(data[q]) /\ data[q] # Closing("array")
      BY <2>4, StartingChars
    <3>3. \E n \in Nat : \E b : Stands(t, D, q, n, b) /\ q <= n /\ n <= Len(t)
      BY <2>4, <3>1, <3>2, DueValue
    <3>4. PICK n \in Nat : \E b : Stands(t, D, q, n, b)
      BY <3>3
    <3>5. PICK b : Stands(t, D, q, n, b)
      BY <3>4
    <3>6. n = r /\ b = tree /\ Whole(q, r, tree) \in D
      BY <2>4, <3>5 DEF Means, Stands
    <3>7. ScalarAt(t, q, r, tree) \/ Closes(t, D, q, r, tree)
      BY <1>0, <3>6, WholeByRule
    <3>8. ~Closes(t, D, q, r, tree)
      <4>1. SUFFICES ASSUME Closes(t, D, q, r, tree) PROVE FALSE
        OBVIOUS
      <4>2. PICK i : Begun(q, i, tree) \in D
        BY <4>1 DEF Closes
      <4>3. tree[1] \in {"object", "array"}
        BY <1>0, <4>2, BegunStarts
      <4> QED
        BY <2>2, <4>3
    <3>9. SubSeq(t, q, r) \in Literals
      BY <2>2, <3>7, <3>8 DEF ScalarAt, NumberSort
    <3>10. SubSeq(t, q, r) = SubSeq(data, q, r)
      BY <1>0, <3>1, AgreeInside
    <3> QED
      BY <2>4, <3>9, <3>10
  <2>6. /\ Return /\ atom' = <<"literal", text>>
        /\ UNCHANGED <<streamVars, next, start, partial>>
    BY <1>2, <2>5 DEF LiteralDone, callVars, parserVars
  <2>7. ScalarAt(data, q, r, atom')
    BY <2>4, <2>5, <2>6 DEF ScalarAt
  <2> QED
    BY <2>1, <2>2, <2>4, <2>6, <2>7, ScalarAlong
<1> QED
  BY <1>1, <1>2

-----------------------------------------------------------------------------
(***************************************************************************)
(* Numbers and literals: each loop takes all that the text has for it.     *)
(***************************************************************************)

\* A number, or a literal, goes on as far as its characters do.
LEMMA NotStopped ==
  ASSUME NEW t, NEW r \in Int, Stopped(t, r), t[r + 1] \in NumberChars \/ t[r + 1] \in LowerAlpha
  PROVE  FALSE
<1>1. PICK e \in Nat : r < e /\ White(t, r + 1, e - 1) /\ t[e] \in Stops
  BY DEF Stopped, Stops
<1>2. CASE e = r + 1
  <2>1. t[r + 1] \in Stops
    BY <1>1, <1>2
  <2> QED
    BY <2>1, NoStops
<1>3. CASE e # r + 1
  <2>1. r + 1 \in r + 1..e - 1
    BY <1>1, <1>3
  <2>2. t[r + 1] \in WhiteSpace
    BY <1>1, <2>1 DEF White, Run
  <2>3. t[r + 1] \in Stops
    BY <2>2 DEF Stops
  <2> QED
    BY <2>3, NoStops
<1> QED
  BY <1>2, <1>3

\* D has the number that begins at q.
LEMMA NumberDue ==
  ASSUME CommaInv, FramesInv, Parsing, NEW t, NEW D, Viable(t, D), NEW F, NEW o,
         Along(t, D, F, o), NEW q \in Nat, Begins(o, q), q <= pos,
         isNumber(data[q]) \/ data[q] = "-"
  PROVE  /\ \E r \in Nat : NumberAt(t, q, r) /\ Stopped(t, r) /\ q <= r /\ r <= Len(t)
         /\ t[q] = data[q] /\ q \in 1..pos /\ q # start + 1
<1>0. t \in Seq(Char) /\ Derivation(t, D)
  BY AlongFacts
<1>1. StartsValue(data[q]) /\ data[q] \notin {"{", "["}
  <2>1. StartsValue(data[q])
    BY StartingChars
  <2>2. isNumber(data[q]) => data[q] \notin {"{", "["}
    BY FirstChars DEF isNumber
  <2> QED
    BY <2>1, <2>2
<1>2. ~isWhiteSpace(data[q]) /\ data[q] # Closing("array")
  BY <1>1, StartingChars
<1>3. /\ \E r \in Nat : \E b : Stands(t, D, q, r, b) /\ q <= r /\ r <= Len(t)
      /\ t[q] = data[q] /\ q \in 1..pos
      /\ partial = <<>> => data[q] \in {"{", "["}
      /\ partial # <<>> => q # start + 1
  BY <1>2, DueValue
<1>4. q # start + 1
  BY <1>1, <1>3
<1>5. PICK r \in Nat : \E b : Stands(t, D, q, r, b) /\ q <= r /\ r <= Len(t)
  BY <1>3
<1>6. PICK b : Stands(t, D, q, r, b) /\ q <= r /\ r <= Len(t)
  BY <1>5
<1>7. Whole(q, r, b) \in D /\ Stopped(t, r)
  BY <1>4, <1>6 DEF Stands
<1>8. NumberIs(t, q, r, b)
  BY <1>0, <1>3, <1>7, WholeKinds
<1> QED
  BY <1>3, <1>4, <1>6, <1>7, <1>8 DEF NumberIs

\* ... and its first part, which begins at m.
LEMMA IntegerDue ==
  ASSUME CommaInv, FramesInv, Parsing, NEW t, NEW D, Viable(t, D), NEW F, NEW o,
         Along(t, D, F, o), NEW q \in Nat, Begins(o, q), q <= pos, NEW m \in Int,
         SignAt(data, q, m), m = q => isNumber(data[q])
  PROVE  \E r \in Nat, b \in Nat :
           /\ NumberAt(t, q, r) /\ Stopped(t, r) /\ r <= Len(t) /\ m <= b /\ b <= r
           /\ t[m] \in Digits /\ IntegerAt(t, m, b)
           /\ r = b \/ (t[b + 1] = "." /\ b + 2 <= r /\ t[b + 2] \in Digits) \/ isExponent(t[b + 1])
<1>1. m = q \/ (m = q + 1 /\ data[q] = "-")
  BY DEF SignAt
<1>2. /\ \E r \in Nat : NumberAt(t, q, r) /\ Stopped(t, r) /\ q <= r /\ r <= Len(t)
      /\ t[q] = data[q]
  BY <1>1, NumberDue
<1>3. PICK r \in Nat : NumberAt(t, q, r) /\ Stopped(t, r) /\ q <= r /\ r <= Len(t)
  BY <1>2
<1>4. PICK n \in q..r, b \in q..r :
        /\ SignAt(t, q, n) /\ t[n] \in Digits /\ n <= b /\ IntegerAt(t, n, b)
        /\ r = b \/ (t[b + 1] = "." /\ b + 2 <= r /\ t[b + 2] \in Digits) \/ isExponent(t[b + 1])
  <2>1. q \in Int /\ r \in Int
    BY <1>3
  <2> QED
    BY <1>3, <2>1, NumberStart
<1>5. n = m
  <2>1. "-" \notin Digits
    BY Zenon DEF Digits
  <2>2. n = q \/ (n = q + 1 /\ t[q] = "-")
    BY <1>4 DEF SignAt
  <2>3. m = q => t[q] \in Digits
    BY <1>2 DEF isNumber
  <2> QED
    BY <1>1, <1>2, <1>4, <2>1, <2>2, <2>3
<1>6. b \in Nat /\ m <= b /\ b <= r
  BY <1>4, <1>5
<1> QED
  BY <1>3, <1>4, <1>5, <1>6

\* ... and its exponent, where a mark for one was read.
LEMMA ExponentDue ==
  ASSUME CommaInv, FramesInv, Parsing, NEW t, NEW D, Viable(t, D), NEW F, NEW o,
         Along(t, D, F, o), NEW q \in Nat, Begins(o, q), q <= pos, NEW c \in Int, NEW m \in Int,
         MantissaAt(data, q, c), MarkAt(data, c + 1, m), m <= pos,
         m = c + 2 => data[m] \notin {"-", "+"}
  PROVE  /\ \E r \in Nat : NumberAt(t, q, r) /\ Stopped(t, r) /\ r <= Len(t) /\ m <= r /\ IntegerAt(t, m, r)
         /\ MantissaAt(t, q, c) /\ MarkAt(t, c + 1, m) /\ q <= c /\ c + 2 <= m
<1>0. /\ t \in Seq(Char) /\ Len(t) \in Nat /\ Len(data) \in Nat /\ pos \in Nat
      /\ pos <= Len(t) /\ pos <= Len(data) /\ Agree(data, t, pos)
  BY AlongFacts
<1>1. PICK n \in q..c : SignAt(data, q, n) /\ data[n] \in Digits
  <2>1. q \in Int
    OBVIOUS
  <2> QED
    BY <2>1, MantissaStart
<1>2. isNumber(data[q]) \/ data[q] = "-"
  BY <1>1 DEF SignAt, isNumber
<1>3. /\ \E r \in Nat : NumberAt(t, q, r) /\ Stopped(t, r) /\ q <= r /\ r <= Len(t)
      /\ q \in 1..pos
  BY <1>2, NumberDue
<1>4. PICK r \in Nat : NumberAt(t, q, r) /\ Stopped(t, r) /\ q <= r /\ r <= Len(t)
  BY <1>3
<1>5. /\ c + 2 <= m /\ q <= c /\ isExponent(data[c + 1]) /\ q >= 1 /\ c + 1 <= pos /\ m - 1 <= pos
      /\ c + 1 \in 1..pos /\ m \in 1..pos /\ q \in Int /\ pos \in Int /\ r \in Int /\ c + 1 \in Int
      /\ c + 1 >= 1
  <2>1. (m = c + 2 \/ m = c + 3) /\ isExponent(data[c + 1])
    <3>1. isExponent(data[c + 1]) /\ (m = (c + 1) + 1 \/ m = (c + 1) + 2)
      BY DEF MarkAt
    <3> QED
      BY <3>1
  <2> QED
    BY <1>0, <1>1, <1>3, <2>1
<1>6. Len(t) \in Int /\ Len(data) \in Int
  BY <1>0
<1>7. MantissaAt(t, q, c)
  BY <1>0, <1>5, <1>6, AgreeMantissa
<1>8. MarkAt(t, c + 1, m)
  BY <1>0, <1>5, AgreeMark
<1>9. t[c + 1] = data[c + 1] /\ t[m] = data[m]
  BY <1>0, <1>5 DEF Agree
<1>10. c < r
  <2>1. SUFFICES ASSUME r <= c PROVE FALSE
    BY <1>5
  <2>2. CASE r = c
    <3>1. t[c + 1] \in NumberChars
      <4>1. t[c + 1] \in Hex
        BY <1>5, <1>9, Classes
      <4> QED
        BY <4>1 DEF NumberChars
    <3> QED
      BY <1>4, <1>5, <2>2, <3>1, NotStopped
  <2>3. CASE r # c
    <3>1. r + 1 \in q..c
      BY <1>4, <1>5, <2>1, <2>3
    <3>2. t[r + 1] \in NumberChars
      BY <1>5, <1>7, <3>1, MantissaOnly
    <3> QED
      BY <1>4, <1>5, <3>2, NotStopped
  <2> QED
    BY <2>2, <2>3
<1>11. m <= r /\ IntegerAt(t, m, r)
  BY <1>4, <1>5, <1>6, <1>7, <1>8, <1>9, <1>10, ExponentInteger
<1> QED
  BY <1>4, <1>5, <1>7, <1>8, <1>11

\* A digit is due where natural() and decimal() want one, and none behind a
\* leading zero.
LEMMA DigitDue ==
  ASSUME CommaInv, FramesInv, Parsing, NEW t, NEW D, Viable(t, D), NEW F, NEW o,
         Along(t, D, F, o)
  PROVE  /\ On("natural") => isNumber(next)
         /\ On("zero") => ~isNumber(next)
         /\ On("decimal") => isNumber(next)
<1>0. /\ start \in Nat /\ Taken \in Nat /\ pos \in Nat /\ Agree(data, t, pos) /\ data \in Seq(Char)
      /\ Here(F, o) /\ Taken <= pos /\ Known(t, D, F, o) /\ Len(t) \in Nat /\ Len(data) \in Nat
      /\ pos <= Len(t) /\ pos <= Len(data)
      /\ ~AtEOF => pos = Taken + 1 /\ next = data[Taken + 1] /\ next = t[Taken + 1]
      /\ stack \in Seq(Labels) /\ StackOK /\ stack # <<>>
  BY AlongFacts
<1>1. ASSUME NEW l \in NumberPlaces, On(l)
      PROVE  /\ Place = l /\ Head(stack) = l /\ pos = Taken + 1
             /\ next = data[Taken + 1] /\ next = t[Taken + 1]
             /\ \E q \in start + 1..Taken + 1 :
                  Begins(o, q) /\ text = SubSeq(data, q, Taken) /\ NumberPart(q)
  <2>1. Head(stack) = l /\ ~AtEOF /\ Place = l
    BY <1>1 DEF On, At, Place, NumberPlaces
  <2>2. InNumber(o)
    BY <1>0, <1>1, <2>1 DEF Here
  <2> QED
    BY <1>0, <2>1, <2>2 DEF InNumber
<1>2. ASSUME On("natural"), ~isNumber(next) PROVE FALSE
  <2>1. /\ Place = "natural" /\ Head(stack) = "natural" /\ pos = Taken + 1
        /\ next = data[Taken + 1] /\ next = t[Taken + 1]
        /\ \E q \in start + 1..Taken + 1 :
             Begins(o, q) /\ text = SubSeq(data, q, Taken) /\ NumberPart(q)
    BY <1>1, <1>2 DEF NumberPlaces
  <2>2. PICK q \in start + 1..Taken + 1 :
          Begins(o, q) /\ text = SubSeq(data, q, Taken) /\ NumberPart(q)
    BY <2>1
  <2>3. PICK m \in Nat : m = Taken + 1
    BY <1>0
  <2>4. DueAt(q, m)
    BY <2>1, <2>2, <2>3 DEF NumberPart
  <2>5. q \in Nat /\ q <= pos /\ m \in Int /\ t[m] \notin Digits /\ m <= pos
    BY <1>0, <1>2, <2>1, <2>3 DEF isNumber
  <2>6. CASE stack[2] = "fraction"
    <3>1. SignAt(data, q, m)
      BY <2>4, <2>6 DEF DueAt
    <3>2. m # q
      <4>1. SUFFICES ASSUME q = Taken + 1 PROVE FALSE
        BY <2>3
      <4>2. text = <<>>
        <5>1. q \in Nat \ {0} /\ q <= Taken + 1
          BY <1>0
        <5> QED
          BY <1>0, <2>2, <4>1, <5>1, TextMore
      <4> QED
        BY <1>0, <1>2, <2>1, <2>6, <4>2 DEF Known, ShownNumber
    <3>3. t[m] \in Digits
      BY <2>2, <2>5, <3>1, <3>2, IntegerDue
    <3> QED
      BY <2>5, <3>3
  <2>7. CASE stack[2] # "fraction"
    <3>1. stack[2] = "numEnd"
      <4>1. stack[2] \in {"fraction", "numEnd"}
        BY <1>0, <2>1, UnderHead, BelowValues DEF Roots
      <4> QED
        BY <2>7, <4>1
    <3>2. PICK c \in q..m : MantissaAt(data, q, c) /\ MarkAt(data, c + 1, m)
      BY <2>4, <2>7 DEF DueAt
    <3>3. ASSUME m = c + 2 PROVE data[m] \notin {"-", "+"}
      <4>1. Taken = c + 1
        BY <1>0, <2>3, <3>3
      <4>2. isExponent(data[Taken])
        BY <3>2, <4>1 DEF MarkAt
      <4>3. next \notin {"-", "+"}
        BY <1>0, <2>1, <3>1, <4>2 DEF Known, ShownNumber
      <4> QED
        BY <2>1, <2>3, <4>3
    <3>4. \E r \in Nat : IntegerAt(t, m, r)
      <4>1. c \in Int
        BY <1>0
      <4> QED
        BY <2>2, <2>5, <3>2, <3>3, <4>1, ExponentDue
    <3>5. PICK r \in Nat : IntegerAt(t, m, r)
      BY <3>4
    <3>6. t[m] \in Digits
      BY <2>5, <3>5, IntegerStart
    <3> QED
      BY <2>5, <3>6
  <2> QED
    BY <2>6, <2>7
<1>3. ASSUME On("zero"), isNumber(next) PROVE FALSE
  <2>1. /\ Place = "zero" /\ Head(stack) = "zero" /\ pos = Taken + 1
        /\ next = data[Taken + 1] /\ next = t[Taken + 1]
        /\ \E q \in start + 1..Taken + 1 :
             Begins(o, q) /\ text = SubSeq(data, q, Taken) /\ NumberPart(q)
    BY <1>1, <1>3 DEF NumberPlaces
  <2>2. PICK q \in start + 1..Taken + 1 :
          Begins(o, q) /\ text = SubSeq(data, q, Taken) /\ NumberPart(q)
    BY <2>1
  <2>3. PICK m \in Nat : m = Taken
    BY <1>0
  <2>4. DueAt(q, m) /\ data[m] = "0"
    BY <2>1, <2>2, <2>3 DEF NumberPart
  <2>5. q <= m
    BY <2>3, <2>4, DueFollows
  <2>6. /\ q \in Nat /\ q <= pos /\ m \in Int /\ m <= pos /\ m \in 1..pos
        /\ m + 1 = Taken + 1
    BY <1>0, <2>1, <2>3, <2>5
  <2>7. t[m] = "0" /\ data[m] \in Digits /\ data[m] \notin {"-", "+"}
    BY <1>0, <2>4, <2>6 DEF Agree, Digits
  <2>8. t[m + 1] \in Digits /\ t[m + 1] \notin {"x", "o", "b"} /\ t[m + 1] # "." /\ ~isExponent(t[m + 1])
        /\ t[m + 1] \in NumberChars
    <3>1. t[m + 1] \in Digits
      BY <1>3, <2>1, <2>6 DEF isNumber
    <3> QED
      BY <3>1, Classes DEF isExponent, NumberChars
  <2>9. \A n \in Nat : IntegerAt(t, m, n) => n = m
    <3>1. SUFFICES ASSUME NEW n \in Nat, IntegerAt(t, m, n), n # m PROVE FALSE
      OBVIOUS
    <3>2. m <= n
      BY <2>6, <3>1, IntegerStart
    <3>3. m < n /\ m <= m
      BY <2>6, <3>1, <3>2
    <3>4. t[m + 1] \in {"x", "o", "b"}
      BY <2>6, <2>7, <3>1, <3>3, IntegerLonger
    <3> QED
      BY <2>8, <3>4
  <2>10. CASE stack[2] = "fraction"
    <3>1. SignAt(data, q, m) /\ (m = q => isNumber(data[q]))
      BY <2>4, <2>7, <2>10 DEF DueAt, isNumber
    <3>2. PICK r \in Nat, b \in Nat :
            /\ Stopped(t, r) /\ IntegerAt(t, m, b)
            /\ r = b \/ t[b + 1] = "." \/ isExponent(t[b + 1])
      BY <2>2, <2>6, <3>1, IntegerDue
    <3>3. b = m /\ r = m
      BY <2>8, <2>9, <3>2
    <3> QED
      BY <2>6, <2>8, <3>2, <3>3, NotStopped
  <2>11. CASE stack[2] # "fraction"
    <3>1. PICK c \in q..m : MantissaAt(data, q, c) /\ MarkAt(data, c + 1, m)
      BY <2>4, <2>11 DEF DueAt
    <3>2. c \in Int
      BY <2>6
    <3>3. PICK r \in Nat : Stopped(t, r) /\ IntegerAt(t, m, r)
      BY <2>2, <2>6, <2>7, <3>1, <3>2, ExponentDue
    <3>4. r = m
      BY <2>9, <3>3
    <3> QED
      BY <2>6, <2>8, <3>3, <3>4, NotStopped
  <2> QED
    BY <2>10, <2>11
<1>4. ASSUME On("decimal"), ~isNumber(next) PROVE FALSE
  <2>1. /\ Place = "decimal" /\ pos = Taken + 1
        /\ next = data[Taken + 1] /\ next = t[Taken + 1]
        /\ \E q \in start + 1..Taken + 1 :
             Begins(o, q) /\ text = SubSeq(data, q, Taken) /\ NumberPart(q)
    BY <1>1, <1>4 DEF NumberPlaces
  <2>2. PICK q \in start + 1..Taken + 1 :
          Begins(o, q) /\ text = SubSeq(data, q, Taken) /\ NumberPart(q)
    BY <2>1
  <2>3. PICK b \in Int : b = Taken - 1
    BY <1>0
  <2>4. PointAt(q, b)
    BY <2>1, <2>2, <2>3 DEF NumberPart
  <2>5. PICK m \in q..b : SignAt(data, q, m) /\ IntegerAt(data, m, b) /\ data[b + 1] = "."
    BY <2>4 DEF PointAt
  <2>6. /\ q \in Nat /\ q <= pos /\ m \in Int /\ m <= b /\ q <= b /\ b + 1 \in 1..pos /\ m \in 1..pos
        /\ b + 2 = Taken + 1 /\ b \in Int /\ m >= 1 /\ b + 1 <= pos /\ pos \in Int
        /\ Len(t) \in Int /\ Len(data) \in Int
    <3>1. m \in Int
      BY <1>0, <2>3
    <3> QED
      BY <1>0, <2>1, <2>3, <2>5, <3>1
  <2>7. data[m] \in Digits
    BY <2>5, <2>6, IntegerStart
  <2>8. t[b + 1] = "." /\ IntegerAt(t, m, b)
    BY <1>0, <2>5, <2>6, AgreeInteger DEF Agree
  <2>9. t[b + 2] \notin Digits
    BY <1>4, <2>1, <2>6 DEF isNumber
  <2>10. m = q => isNumber(data[q])
    BY <2>7 DEF isNumber
  <2>11. PICK r \in Nat, n \in Nat :
          /\ NumberAt(t, q, r) /\ Stopped(t, r) /\ r <= Len(t) /\ n <= r /\ IntegerAt(t, m, n)
          /\ r = n \/ (t[n + 1] = "." /\ n + 2 <= r /\ t[n + 2] \in Digits) \/ isExponent(t[n + 1])
    BY <2>2, <2>5, <2>6, <2>10, IntegerDue
  <2>12. CASE b < n
    <3>1. n \in Int /\ n <= Len(t)
      BY <1>0, <2>11
    <3>2. t[b + 1] # "."
      BY <2>6, <2>8, <2>11, <2>12, <3>1, IntegerCut
    <3> QED
      BY <2>8, <3>2
  <2>13. CASE n < b
    <3>1. n \in Int /\ b <= Len(t)
      BY <1>0, <2>6, <2>11
    <3>2. t[n + 1] # "." /\ ~isExponent(t[n + 1]) /\ t[n + 1] \in NumberChars
      BY <2>6, <2>8, <2>11, <2>13, <3>1, IntegerCut
    <3> QED
      BY <2>11, <3>1, <3>2, NotStopped
  <2>14. CASE n = b
    <3>1. t[n + 1] \in NumberChars /\ ~isExponent(t[n + 1])
      BY <2>8, <2>14, Classes DEF NumberChars
    <3>2. n \in Int
      OBVIOUS
    <3> QED
      BY <2>9, <2>11, <2>14, <3>1, <3>2, NotStopped
  <2> QED
    BY <2>6, <2>11, <2>12, <2>13, <2>14
<1> QED
  BY <1>2, <1>3, <1>4

\* A step to one of the places where nothing is known of the next character.
LEMMA QuietLabel ==
  ASSUME CommaInv, FramesInv, Parsing, NEW t, NEW D, Viable(t, D), NEW F, NEW o,
         Along(t, D, F, o), UNCHANGED partial, PartOK(F, o)' \/ Throw("BAD_JSON"),
         Head(stack) \notin Roots, NEW l \in Labels, Below(Head(stack)) \subseteq Below(l),
         l \in QuietPlaces \ (Skipped \cup {"natural"}),
         Goto(<<l>>) \/ (Head(stack) = l /\ UNCHANGED stack)
  PROVE  Along(t, D, F, o)'
<1>1. stack \in Seq(Labels) /\ StackOK /\ stack # <<>>
  BY AlongFacts
<1>2. l \notin {"skip", "readSync"}
  BY DEF QuietPlaces, StringPlaces
<1>3. Head(stack') = l /\ Place' = l
  <2>1. CASE Goto(<<l>>)
    BY <1>1, <1>2, <2>1, GotoLabel
  <2>2. CASE Head(stack) = l /\ UNCHANGED stack
    BY <1>2, <2>2 DEF Place
  <2> QED
    BY <2>1, <2>2
<1>4. PartOK(F, o)'
  BY <1>2, <1>3, AfterThrow
<1> QED
  BY <1>3, <1>4, AlongQuiet

\* A step to a place that knows how the token it is in goes on.
LEMMA InteriorAlong ==
  ASSUME NEW t, NEW D, NEW F, NEW o, Along(t, D, F, o), UNCHANGED partial, PartOK(F, o)',
         Head(stack') = Place', Place' \in {"fraction", "exponent", "numEnd", "letters"},
         InteriorKnown(t, o)'
  PROVE  Along(t, D, F, o)'
<1>1. Place' \notin {"expr", "lit"} /\ Head(stack') \notin Skipped \cup {"natural"}
  BY DEF Skipped
<1>2. Known(t, D, F, o)'
  BY <1>1, NothingShown, KnownIs
<1> QED
  BY <1>2, AlongStays

\* number() returns where D has no more of the integer.
LEMMA IntegerKnown ==
  ASSUME CommaInv, FramesInv, Parsing, NEW t, NEW D, Viable(t, D), NEW F, NEW o,
         Along(t, D, F, o), Jump(<<>>), ~AtEOF, Head(stack) \in NumberPlaces,
         stack[2] \in {"fraction", "numEnd"}, NEW q \in start + 1..Taken + 1, NEW m \in q..Taken,
         Begins(o, q), text = SubSeq(data, q, Taken), DueAt(q, m), IntegerAt(data, m, Taken),
         IntegerStops(t, m, Taken)
  PROVE  Along(t, D, F, o)'
<1>0. /\ start \in Nat /\ Taken \in Nat /\ pos = Taken + 1 /\ pos <= Len(t) /\ Len(t) \in Nat
      /\ Agree(data, t, pos) /\ stack \in Seq(Labels) /\ StackOK /\ stack # <<>> /\ PartOK(F, o)
  BY AlongFacts
<1>1. UNCHANGED <<streamVars, start, partial, text>> /\ Goto(<<>>)
  BY DEF Jump, Peek, treeVars, callVars
<1>2. Taken' = Taken /\ data' = data /\ start' = start
  BY <1>1, Stays
<1>3. Head(stack) \notin Roots /\ Place # "parseJSON"
  BY DEF NumberPlaces, Roots, Place
<1>4. Head(stack') = stack[2] /\ Place' = stack[2]
  <2>1. Head(stack') = stack[2]
    BY <1>0, <1>1, <1>3, PlaceAfter
  <2> QED
    BY <2>1 DEF Place
<1>5. PartOK(F, o)'
  <2>1. Steady(F, o)
    BY <1>0, <1>3, IntegerRead
  <2> QED
    BY <1>0, <1>3, <2>1, SteadyIsOK
<1>6. Lexed(o, q)'
  <2>1. Begins(o, q)'
    BY <1>1, <1>2, SameSlots
  <2> QED
    BY <1>1, <1>2, <2>1 DEF Lexed
<1>7. CASE stack[2] = "fraction"
  <2>1. SignAt(data, q, m)
    BY <1>7 DEF DueAt
  <2>2. InteriorKnown(t, o)'
    BY <1>2, <1>4, <1>6, <1>7, <2>1 DEF InteriorKnown
  <2> QED
    BY <1>1, <1>4, <1>5, <1>7, <2>2, InteriorAlong
<1>8. CASE stack[2] = "numEnd"
  <2>1. PICK c \in q..m : MantissaAt(data, q, c) /\ MarkAt(data, c + 1, m)
    BY <1>8 DEF DueAt
  <2>2. /\ c \in Int /\ m \in Int /\ q \in Nat /\ q \in Int /\ q <= pos /\ m <= Taken /\ m <= pos
        /\ m \in 1..pos /\ c \in q..Taken /\ m \in q..Taken /\ Len(t) \in Int
    BY <1>0
  <2>3. data[m] \in Digits /\ data[m] \notin {"-", "+"}
    <3>1. data[m] \in Digits
      BY <1>0, <2>2, IntegerStart
    <3> QED
      BY <3>1, Classes
  <2>4. MantissaAt(t, q, c) /\ MarkAt(t, c + 1, m) /\ q <= c /\ c + 2 <= m
    BY <2>1, <2>2, <2>3, ExponentDue
  <2>5. t[m] \notin {"-", "+"}
    BY <1>0, <2>2, <2>3 DEF Agree
  <2>6. NumberAt(data, q, Taken)
    BY <2>1, <2>2 DEF NumberAt
  <2>7. NumberStops(t, q, Taken)
    <3>1. SUFFICES ASSUME NEW k \in Taken..Len(t), NumberAt(t, q, k) PROVE k = Taken
      BY DEF NumberStops
    <3>2. k \in Int /\ k <= Len(t) /\ c < k
      BY <1>0, <2>2, <2>4
    <3>3. IntegerAt(t, m, k)
      BY <2>2, <2>4, <2>5, <3>1, <3>2, ExponentInteger
    <3> QED
      BY <3>3 DEF IntegerStops
  <2>8. InteriorKnown(t, o)'
    BY <1>2, <1>4, <1>6, <1>8, <2>6, <2>7 DEF InteriorKnown
  <2> QED
    BY <1>1, <1>4, <1>5, <1>8, <2>8, InteriorAlong
<1> QED
  BY <1>7, <1>8

\* The begin of an integer.
LEMMA NaturalAlong ==
  ASSUME CommaInv, FramesInv, Parsing, NEW t, NEW D, Viable(t, D), NEW F, NEW o,
         Along(t, D, F, o), Natural
  PROVE  Along(t, D, F, o)'
<1>0. stack \in Seq(Labels) /\ StackOK /\ stack # <<>> /\ PartOK(F, o)
  BY AlongFacts
<1>1. /\ Head(stack) = "natural" /\ Head(stack) \notin Roots /\ On("natural")
      /\ {"zero", "digits10"} \subseteq Labels
  BY PlaceSets DEF Natural, On, At, Roots, Checked
<1>2. PartOK(F, o)' \/ Throw("BAD_JSON")
  BY <1>0, ScalarStepsOK
<1>3. /\ Below("natural") \subseteq Below("zero") /\ Below("natural") \subseteq Below("digits10")
  BY BelowValues
<1>4. isNumber(next)
  BY <1>1, DigitDue
<1>5. \E l \in {"zero", "digits10"} : Goto(<<l>>) /\ UNCHANGED partial
  BY <1>4 DEF Natural, PushNext, Jump, treeVars
<1>6. \A l \in {"zero", "digits10"} : l \in QuietPlaces \ (Skipped \cup {"natural"})
  BY DEF QuietPlaces, Skipped
<1> QED
  BY <1>1, <1>2, <1>3, <1>5, <1>6, QuietLabel

\* After a leading zero: no integer of the text goes on where the zero, or its
\* prefix, does not.
LEMMA AfterZeroAlong ==
  ASSUME CommaInv, FramesInv, Parsing, NEW t, NEW D, Viable(t, D), NEW F, NEW o,
         Along(t, D, F, o), AfterZero
  PROVE  Along(t, D, F, o)'
<1>0. /\ stack \in Seq(Labels) /\ StackOK /\ stack # <<>> /\ PartOK(F, o) /\ Here(F, o)
      /\ start \in Nat /\ Taken \in Nat /\ pos \in Nat /\ pos <= Len(t) /\ Len(t) \in Nat
      /\ Agree(data, t, pos)
      /\ ~AtEOF => pos = Taken + 1 /\ next = t[Taken + 1]
  BY AlongFacts
<1>1. /\ Head(stack) = "zero" /\ Place = "zero" /\ Head(stack) \notin Roots /\ On("zero") /\ ~AtEOF
      /\ {"digits16", "digits8", "digits2"} \subseteq Labels /\ Head(stack) \in NumberPlaces
  BY PlaceSets DEF AfterZero, On, At, Place, Roots, Checked, NumberPlaces
<1>2. PartOK(F, o)' \/ Throw("BAD_JSON")
  BY <1>0, ScalarStepsOK
<1>3. \A l \in {"digits16", "digits8", "digits2"} :
        Below("zero") \subseteq Below(l) /\ l \in QuietPlaces \ (Skipped \cup {"natural"})
  BY BelowValues DEF QuietPlaces, Skipped
<1>4. ~isNumber(next)
  BY <1>1, DigitDue
<1>5. CASE \E l \in {"digits16", "digits8", "digits2"} : Goto(<<l>>) /\ UNCHANGED partial
  BY <1>1, <1>2, <1>3, <1>5, QuietLabel
<1>6. CASE ~isBasePrefix(next) /\ Jump(<<>>)
  <2>1. PICK q \in start + 1..Taken + 1 :
          /\ Begins(o, q) /\ text = SubSeq(data, q, Taken)
          /\ DueAt(q, Taken) /\ data[Taken] = "0"
    BY <1>0, <1>1 DEF Here, InNumber, NumberPart
  <2>2. stack[2] \in {"fraction", "numEnd"}
    BY <1>0, <1>1, BelowValues, UnderHead
  <2>3. q <= Taken
    <3>1. q \in Int /\ Taken \in Int
      BY <1>0
    <3> QED
      BY <2>1, <3>1, DueFollows
  <2>4. PICK m \in Nat : m = Taken
    BY <1>0
  <2>5. m \in q..Taken /\ m \in 1..pos /\ m \in Int
    BY <1>0, <1>1, <2>3, <2>4
  <2>6. IntegerAt(data, m, Taken)
    BY <2>1, <2>4 DEF IntegerAt
  <2>7. IntegerStops(t, m, Taken)
    <3>1. SUFFICES ASSUME NEW k \in Taken..Len(t), IntegerAt(t, m, k), k # Taken PROVE FALSE
      BY DEF IntegerStops
    <3>2. k \in Int /\ m <= m /\ m < k
      BY <1>0, <2>4, <3>1
    <3>3. t[m] = "0"
      BY <1>0, <2>1, <2>4, <2>5 DEF Agree
    <3>4. t[m + 1] \in {"x", "o", "b"}
      BY <2>5, <3>1, <3>2, <3>3, IntegerLonger
    <3> QED
      BY <1>0, <1>1, <1>6, <2>4, <3>4 DEF isBasePrefix
  <2> QED
    BY <1>1, <1>6, <2>1, <2>2, <2>4, <2>5, <2>6, <2>7, IntegerKnown
<1> QED
  BY <1>4, <1>5, <1>6 DEF AfterZero, PushNext

\* The digits of a base.
LEMMA BaseDigitsAlong ==
  ASSUME CommaInv, FramesInv, Parsing, NEW t, NEW D, Viable(t, D), NEW F, NEW o,
         Along(t, D, F, o), NEW l \in {"digits16", "digits8", "digits2"}, Head(stack) = l, ~AtEOF,
         PartOK(F, o)' \/ Throw("BAD_JSON"), NEW prefix, NEW S,
         l = "digits16" => prefix = "x" /\ S = Hex,
         l = "digits8"  => prefix = "o" /\ S = Oct,
         l = "digits2"  => prefix = "b" /\ S = Bin,
         (PushNext /\ UNCHANGED stack) \/ (next \notin S /\ Jump(<<>>))
  PROVE  Along(t, D, F, o)'
<1>0. /\ stack \in Seq(Labels) /\ StackOK /\ stack # <<>> /\ PartOK(F, o) /\ Here(F, o)
      /\ start \in Nat /\ Taken \in Nat /\ pos \in Nat /\ pos <= Len(t) /\ Len(t) \in Nat
      /\ Agree(data, t, pos)
      /\ pos = Taken + 1 /\ next = t[Taken + 1] /\ next = data[Taken + 1]
  BY AlongFacts
<1>1. /\ Place = l /\ Head(stack) \notin Roots /\ Head(stack) \in NumberPlaces /\ l \in Labels
      /\ l \in QuietPlaces \ (Skipped \cup {"natural"})
  BY PlaceSets DEF Place, Roots, Checked, NumberPlaces, QuietPlaces, Skipped
<1>2. CASE PushNext /\ UNCHANGED stack
  <2>1. UNCHANGED partial
    BY <1>2 DEF PushNext
  <2> QED
    BY <1>1, <1>2, <2>1, QuietLabel
<1>3. CASE next \notin S /\ Jump(<<>>)
  <2>1. PICK q \in start + 1..Taken + 1 :
          Begins(o, q) /\ text = SubSeq(data, q, Taken) /\ InBase(q, prefix, S)
    BY <1>0, <1>1 DEF Here, InNumber, NumberPart
  <2>2. PICK m \in q..Taken - 1 :
          DueAt(q, m) /\ data[m] = "0" /\ data[m + 1] = prefix /\ Run(data, m + 2, Taken, S)
    BY <2>1 DEF InBase
  <2>3. stack[2] \in {"fraction", "numEnd"}
    BY <1>0, <1>1, BelowValues, UnderHead
  <2>4. /\ m \in q..Taken /\ m \in Int /\ m < Taken /\ m <= Taken /\ Taken \in Int
        /\ m \in 1..pos /\ m + 1 \in 1..pos
    BY <1>0
  <2>5. IntegerAt(data, m, Taken)
    BY <1>0, <1>3, <2>2, <2>4 DEF IntegerAt
  <2>6. IntegerStops(t, m, Taken)
    <3>1. SUFFICES ASSUME NEW k \in Taken..Len(t), IntegerAt(t, m, k), k # Taken PROVE FALSE
      BY DEF IntegerStops
    <3>2. k \in Int /\ Taken < k
      BY <1>0, <3>1
    <3>3. t[m] = "0" /\ t[m + 1] = prefix
      BY <1>0, <2>2, <2>4 DEF Agree
    <3>4. <<prefix, S>> \in {<<"x", Hex>>, <<"o", Oct>>, <<"b", Bin>>}
      BY Zenon
    <3>5. t[Taken + 1] \in S
      BY <2>4, <3>1, <3>2, <3>3, <3>4, IntegerLonger
    <3> QED
      BY <1>0, <1>3, <3>5
  <2> QED
    BY <1>1, <1>3, <2>1, <2>2, <2>3, <2>4, <2>5, <2>6, IntegerKnown
<1> QED
  BY <1>2, <1>3

\* What was read of a token stays where it is.
LEMMA LexedStays ==
  ASSUME UNCHANGED <<streamVars, start, partial, text>>, NEW o, NEW q, Lexed(o, q)
  PROVE  Lexed(o, q)'
<1>1. Taken' = Taken /\ data' = data /\ start' = start
  BY Stays
<1>2. Begins(o, q)'
  BY <1>1, SameSlots DEF Lexed
<1> QED
  BY <1>1, <1>2 DEF Lexed

\* The end of the digits of a fraction.
LEMMA FractionKnown ==
  ASSUME CommaInv, FramesInv, Parsing, NEW t, NEW D, Viable(t, D), NEW F, NEW o,
         Along(t, D, F, o), Head(stack) = "digits10", stack[2] = "exponent", ~AtEOF, ~isNumber(next)
  PROVE  \E q : Lexed(o, q) /\ MantissaAt(data, q, Taken) /\ MantissaStops(t, q, Taken)
<1>0. /\ Here(F, o) /\ start \in Nat /\ Taken \in Nat /\ pos \in Nat /\ pos <= Len(t)
      /\ Len(t) \in Nat /\ Len(data) \in Nat /\ pos <= Len(data) /\ Agree(data, t, pos)
      /\ pos = Taken + 1 /\ next = t[Taken + 1]
  BY AlongFacts
<1>1. Place = "digits10"
  BY DEF Place
<1>2. PICK q \in start + 1..Taken + 1 :
        Begins(o, q) /\ text = SubSeq(data, q, Taken) /\ NumberPart(q)
  BY <1>0, <1>1 DEF Here, InNumber, NumberPlaces
<1>3. PICK b \in q..Taken - 1 :
        PointAt(q, b) /\ Run(data, b + 2, Taken, Digits) /\ (b + 2 <= Taken \/ isNumber(next))
  BY <1>1, <1>2 DEF NumberPart
<1>4. PICK a \in q..b : SignAt(data, q, a) /\ IntegerAt(data, a, b) /\ data[b + 1] = "."
  BY <1>3 DEF PointAt
<1>5. /\ b \in Int /\ a \in Int /\ q \in Int /\ q >= 1 /\ a >= 1 /\ b + 1 <= pos /\ a - 1 <= pos
      /\ b + 1 \in 1..pos /\ b < Taken /\ b + 2 <= Taken /\ b + 1 < Taken /\ a \in q..Taken
      /\ b \in q..Taken /\ Len(t) \in Int /\ Len(data) \in Int /\ pos \in Int /\ Taken \in Int
      /\ (b + 1) + 1 = b + 2
  BY <1>0, <1>3
<1>6. MantissaAt(data, q, Taken)
  <2>1. FractionAt(data, b + 1, Taken)
    BY <1>3, <1>4, <1>5 DEF FractionAt
  <2> QED
    BY <1>4, <1>5, <2>1 DEF MantissaAt
<1>7. SignAt(t, q, a)
  BY <1>0, <1>4, <1>5, AgreeSign
<1>8. IntegerAt(t, a, b)
  BY <1>0, <1>4, <1>5, AgreeInteger
<1>9. t[b + 1] = "."
  BY <1>0, <1>4, <1>5 DEF Agree
<1>10. MantissaStops(t, q, Taken)
  <2>1. SUFFICES ASSUME NEW k \in Taken..Len(t), MantissaAt(t, q, k), k # Taken PROVE FALSE
    BY DEF MantissaStops
  <2>2. k \in Int /\ Taken < k /\ k <= Len(t)
    BY <1>0, <2>1
  <2>3. t[Taken + 1] \in Digits
    BY <1>5, <1>7, <1>8, <1>9, <2>1, <2>2, FractionLonger
  <2> QED
    BY <1>0, <2>3 DEF isNumber
<1> QED
  BY <1>2, <1>6, <1>10 DEF Lexed

\* Decimal digits: the loop takes each digit that an integer of the text has.
LEMMA DigitsAlong ==
  ASSUME CommaInv, FramesInv, Parsing, NEW t, NEW D, Viable(t, D), NEW F, NEW o,
         Along(t, D, F, o), Head(stack) = "digits10", ~AtEOF,
         PartOK(F, o)' \/ Throw("BAD_JSON"),
         (PushNext /\ UNCHANGED stack) \/ (~isNumber(next) /\ Jump(<<>>))
  PROVE  Along(t, D, F, o)'
<1>0. /\ stack \in Seq(Labels) /\ StackOK /\ stack # <<>> /\ Here(F, o)
      /\ start \in Nat /\ Taken \in Nat /\ pos \in Nat /\ pos <= Len(t) /\ Len(t) \in Nat
      /\ Agree(data, t, pos) /\ pos = Taken + 1 /\ next = t[Taken + 1]
  BY AlongFacts
<1>1. /\ Place = "digits10" /\ Head(stack) \notin Roots /\ Head(stack) \in NumberPlaces
      /\ "digits10" \in Labels /\ "digits10" \in QuietPlaces \ (Skipped \cup {"natural"})
  BY PlaceSets DEF Place, Roots, Checked, NumberPlaces, QuietPlaces, Skipped
<1>2. CASE PushNext /\ UNCHANGED stack
  <2>1. UNCHANGED partial
    BY <1>2 DEF PushNext
  <2> QED
    BY <1>1, <1>2, <2>1, QuietLabel
<1>3. CASE ~isNumber(next) /\ Jump(<<>>)
  <2>1. stack[2] \in {"fraction", "numEnd", "exponent"}
    BY <1>0, BelowValues, UnderHead, <1>1
  <2>2. CASE stack[2] = "exponent"
    <3>1. PICK q : Lexed(o, q) /\ MantissaAt(data, q, Taken) /\ MantissaStops(t, q, Taken)
      BY <1>3, <2>2, FractionKnown
    <3>2. UNCHANGED <<streamVars, start, partial, text>> /\ Goto(<<>>)
      BY <1>3 DEF Jump, Peek, treeVars, callVars
    <3>3. Lexed(o, q)' /\ Taken' = Taken /\ data' = data
      BY <3>1, <3>2, LexedStays, Stays
    <3>4. Head(stack') = "exponent" /\ Place' = "exponent"
      <4>1. Head(stack') = stack[2]
        BY <1>0, <1>1, <3>2, PlaceAfter
      <4> QED
        BY <2>2, <4>1 DEF Place
    <3>5. InteriorKnown(t, o)'
      BY <3>1, <3>3, <3>4 DEF InteriorKnown
    <3>6. PartOK(F, o)'
      BY <3>4, AfterThrow
    <3> QED
      BY <3>2, <3>4, <3>5, <3>6, InteriorAlong
  <2>3. CASE stack[2] # "exponent"
    <3>1. PICK q \in start + 1..Taken + 1 :
            Begins(o, q) /\ text = SubSeq(data, q, Taken) /\ InDigits(q)
      BY <1>0, <1>1, <2>3 DEF Here, InNumber, NumberPart
    <3>2. PICK m \in q..Taken + 1 :
            /\ DueAt(q, m) /\ Run(data, m, Taken, Digits)
            /\ m <= Taken => data[m] # "0"
            /\ m > Taken  => isNumber(next)
      BY <3>1 DEF InDigits
    <3>3. m \in Int /\ m <= Taken /\ m \in q..Taken /\ m \in 1..pos /\ Taken \in Int
      BY <1>0, <1>3, <3>2
    <3>4. IntegerAt(data, m, Taken)
      BY <3>2, <3>3 DEF IntegerAt
    <3>5. IntegerStops(t, m, Taken)
      <4>1. SUFFICES ASSUME NEW k \in Taken..Len(t), IntegerAt(t, m, k), k # Taken PROVE FALSE
        BY DEF IntegerStops
      <4>2. k \in Int /\ Taken < k
        BY <1>0, <4>1
      <4>3. t[m] # "0"
        BY <1>0, <3>2, <3>3 DEF Agree
      <4>4. t[Taken + 1] \in Digits
        BY <3>3, <4>1, <4>2, <4>3, IntegerLonger
      <4> QED
        BY <1>0, <1>3, <4>4 DEF isNumber
    <3>6. stack[2] \in {"fraction", "numEnd"}
      BY <2>1, <2>3
    <3> QED
      BY <1>1, <1>3, <3>1, <3>2, <3>3, <3>4, <3>5, <3>6, IntegerKnown
  <2> QED
    BY <2>2, <2>3
<1> QED
  BY <1>2, <1>3

\* So do the loops of the other bases.
LEMMA MoreDigitsAlong ==
  ASSUME CommaInv, FramesInv, Parsing, NEW t, NEW D, Viable(t, D), NEW F, NEW o,
         Along(t, D, F, o), MoreDigits
  PROVE  Along(t, D, F, o)'
<1>0. PartOK(F, o) /\ next \in Char
  <2>1. PartOK(F, o)
    BY AlongFacts
  <2> QED
    BY <2>1, Basics
<1>1. PartOK(F, o)' \/ Throw("BAD_JSON")
  BY <1>0, ScalarStepsOK
<1>2. /\ isHex(next) <=> next \in Hex
      /\ isOct(next) <=> next \in Oct
      /\ isBin(next) <=> next \in Bin
  BY <1>0 DEF Hex, Oct, Bin
<1>3. CASE DigitsOf("digits10", isNumber)
  BY <1>1, <1>3, DigitsAlong DEF DigitsOf, On, At
<1>4. CASE DigitsOf("digits16", isHex)
  BY <1>1, <1>2, <1>4, BaseDigitsAlong DEF DigitsOf, On, At
<1>5. CASE DigitsOf("digits8", isOct)
  BY <1>1, <1>2, <1>5, BaseDigitsAlong DEF DigitsOf, On, At
<1>6. CASE DigitsOf("digits2", isBin)
  BY <1>1, <1>2, <1>6, BaseDigitsAlong DEF DigitsOf, On, At
<1> QED
  BY <1>3, <1>4, <1>5, <1>6 DEF MoreDigits

\* No fraction, and no exponent: what was read of a number is all of it.
LEMMA MantissaKnown ==
  ASSUME CommaInv, FramesInv, Parsing, NEW t, NEW D, Viable(t, D), NEW F, NEW o,
         Along(t, D, F, o), Head(stack) = "fraction", ~AtEOF, next # "."
  PROVE  \E q : Lexed(o, q) /\ MantissaAt(data, q, Taken) /\ MantissaStops(t, q, Taken)
<1>0. /\ Known(t, D, F, o) /\ start \in Nat /\ Taken \in Nat /\ pos \in Nat /\ pos <= Len(t)
      /\ Len(t) \in Nat /\ Len(data) \in Nat /\ pos <= Len(data) /\ Agree(data, t, pos)
      /\ pos = Taken + 1 /\ next = t[Taken + 1]
  BY AlongFacts
<1>1. Place = "fraction"
  BY DEF Place
<1>2. PICK q : Lexed(o, q) /\ \E m \in q..Taken : SignAt(data, q, m) /\ IntegerAt(data, m, Taken)
                                                 /\ IntegerStops(t, m, Taken)
  BY <1>0, <1>1 DEF Known, InteriorKnown
<1>3. PICK m \in q..Taken : SignAt(data, q, m) /\ IntegerAt(data, m, Taken)
                            /\ IntegerStops(t, m, Taken)
  BY <1>2
<1>4. /\ q \in Int /\ q >= 1 /\ m \in Int /\ m >= 1 /\ m - 1 <= pos /\ q <= Taken
      /\ Len(t) \in Int /\ Len(data) \in Int /\ pos \in Int /\ Taken \in Int
      /\ Taken \in q..Taken /\ Taken + 1 <= pos
  <2>1. q \in start + 1..Taken + 1
    BY <1>2 DEF Lexed
  <2> QED
    BY <1>0, <2>1
<1>5. MantissaAt(data, q, Taken)
  <2>1. FractionAt(data, Taken + 1, Taken)
    BY <1>4 DEF FractionAt
  <2> QED
    BY <1>3, <1>4, <2>1 DEF MantissaAt
<1>6. SignAt(t, q, m)
  BY <1>0, <1>3, <1>4, AgreeSign
<1>7. IntegerAt(t, m, Taken)
  BY <1>0, <1>3, <1>4, AgreeInteger
<1>8. MantissaStops(t, q, Taken)
  <2>1. SUFFICES ASSUME NEW k \in Taken..Len(t), MantissaAt(t, q, k), k # Taken PROVE FALSE
    BY DEF MantissaStops
  <2>2. k \in Int /\ Taken < k /\ k <= Len(t)
    BY <1>4, <2>1
  <2>3. t[Taken + 1] # "."
    BY <1>0
  <2>4. PICK n \in Taken + 1..k : IntegerAt(t, m, n)
    BY <1>4, <1>6, <1>7, <2>1, <2>2, <2>3, MantissaLonger
  <2>5. n \in Taken..Len(t) /\ n # Taken
    BY <1>4, <2>2
  <2> QED
    BY <1>3, <2>4, <2>5 DEF IntegerStops
<1> QED
  BY <1>2, <1>5, <1>8

\* Without an exponent the number ends with its mantissa.
LEMMA NumberKnown ==
  ASSUME CommaInv, FramesInv, Parsing, NEW t, NEW D, Viable(t, D), NEW F, NEW o,
         Along(t, D, F, o), Head(stack) = "exponent", ~AtEOF, ~isExponent(next)
  PROVE  \E q : Lexed(o, q) /\ NumberAt(data, q, Taken) /\ NumberStops(t, q, Taken)
<1>0. /\ Known(t, D, F, o) /\ start \in Nat /\ Taken \in Nat /\ pos \in Nat /\ pos <= Len(t)
      /\ Len(t) \in Nat /\ Len(data) \in Nat /\ pos <= Len(data) /\ Agree(data, t, pos)
      /\ pos = Taken + 1 /\ next = t[Taken + 1]
  BY AlongFacts
<1>1. Place = "exponent"
  BY DEF Place
<1>2. PICK q : Lexed(o, q) /\ MantissaAt(data, q, Taken) /\ MantissaStops(t, q, Taken)
  BY <1>0, <1>1 DEF Known, InteriorKnown
<1>3. /\ q \in Int /\ q >= 1 /\ Len(t) \in Int /\ Len(data) \in Int /\ pos \in Int /\ Taken \in Int
      /\ Taken + 1 <= pos
  <2>1. q \in start + 1..Taken + 1
    BY <1>2 DEF Lexed
  <2> QED
    BY <1>0, <2>1
<1>4. NumberAt(data, q, Taken)
  BY <1>2 DEF NumberAt
<1>5. MantissaAt(t, q, Taken)
  BY <1>0, <1>2, <1>3, AgreeMantissa
<1>6. NumberStops(t, q, Taken)
  <2>1. SUFFICES ASSUME NEW k \in Taken..Len(t), NumberAt(t, q, k) PROVE k = Taken
    BY DEF NumberStops
  <2>2. CASE MantissaAt(t, q, k)
    BY <1>2, <2>1, <2>2 DEF MantissaStops
  <2>3. CASE \E c, m \in q..k : MantissaAt(t, q, c) /\ MarkAt(t, c + 1, m) /\ IntegerAt(t, m, k)
    <3>1. PICK c \in q..k : \E m : MantissaAt(t, q, c) /\ MarkAt(t, c + 1, m)
      BY <2>3
    <3>2. isExponent(t[c + 1]) /\ MantissaAt(t, q, c)
      BY <3>1 DEF MarkAt
    <3>3. c \in Int /\ c <= Len(t) /\ Taken <= Len(t)
      BY <1>0, <1>3, <2>1
    <3>4. ~(c < Taken)
      BY <1>3, <1>5, <3>2, <3>3, MantissaCut
    <3>5. c \in Taken..Len(t)
      BY <1>3, <3>3, <3>4
    <3>6. c = Taken
      BY <1>2, <3>2, <3>5 DEF MantissaStops
    <3> QED
      BY <1>0, <3>2, <3>6
  <2> QED
    BY <2>1, <2>2, <2>3 DEF NumberAt
<1> QED
  BY <1>2, <1>4, <1>6

\* The point, the decimals and the mark of an exponent.
LEMMA NumberPartsAlong ==
  ASSUME CommaInv, FramesInv, Parsing, NEW t, NEW D, Viable(t, D), NEW F, NEW o,
         Along(t, D, F, o), Decimal \/ Fraction \/ Exponent \/ ExponentSign
  PROVE  Along(t, D, F, o)'
<1>0. /\ PartOK(F, o) /\ Known(t, D, F, o) /\ Taken \in Nat /\ start \in Nat /\ start <= Taken
      /\ stack \in Seq(Labels) /\ StackOK /\ stack # <<>>
      /\ ~AtEOF => next = data[Taken + 1]
  BY AlongFacts
<1>l. {"digits10", "decimal", "exponent", "expSign", "numEnd", "natural"} \subseteq Labels \ {"skip"}
  BY PlaceSets DEF Checked, Unchecked
<1>1. PartOK(F, o)' \/ Throw("BAD_JSON")
  BY <1>0, ScalarStepsOK
<1>j. ASSUME NEW labels, Jump(labels)
      PROVE  UNCHANGED <<streamVars, start, partial, text>> /\ Goto(labels) /\ UNCHANGED partial
             /\ Taken' = Taken /\ data' = data /\ next' = next
  BY <1>j, Stays DEF Jump, Peek, treeVars, callVars
<1>b. /\ Below("decimal") \subseteq Below("digits10") /\ Below("fraction") \subseteq Below("exponent")
      /\ "exponent" \in Below("decimal") /\ Below("exponent") \subseteq Below("expSign")
      /\ Below("exponent") \subseteq Below("numEnd") /\ "numEnd" \in Below("natural")
      /\ Below("expSign") \subseteq Below("numEnd")
  BY BelowValues
<1>2. CASE Decimal
  <2>1. Head(stack) = "decimal" /\ On("decimal") /\ Head(stack) \notin Roots
    BY <1>2 DEF Decimal, On, At, Roots
  <2>2. Jump(<<"digits10">>)
    BY <1>2, <2>1, DigitDue DEF Decimal
  <2>3. "digits10" \in QuietPlaces \ (Skipped \cup {"natural"})
    BY DEF QuietPlaces, Skipped
  <2> QED
    BY <1>1, <1>b, <1>j, <1>l, <2>1, <2>2, <2>3, QuietLabel
<1>3. CASE Fraction
  <2>1. Head(stack) = "fraction" /\ ~AtEOF /\ Head(stack) \notin Roots
    BY <1>3 DEF Fraction, On, At, Roots
  <2>2. CASE PushMatch /\ Goto(<<"decimal", "exponent">>)
    <3>1. Head(stack') = "decimal" /\ Place' = "decimal"
      <4>1. Head(stack') = "decimal"
        BY <1>0, <1>b, <1>l, <2>1, <2>2, PlaceAfter
      <4> QED
        BY <4>1 DEF Place
    <3>2. "decimal" \in QuietPlaces /\ "decimal" \notin Skipped \cup {"natural"}
      BY DEF QuietPlaces, Skipped
    <3>3. PartOK(F, o)' /\ UNCHANGED partial
      BY <1>1, <2>2, <3>1, AfterThrow DEF PushMatch
    <3> QED
      BY <3>1, <3>2, <3>3, AlongQuiet
  <2>3. CASE next # "." /\ Jump(<<"exponent">>)
    <3>1. PICK q : Lexed(o, q) /\ MantissaAt(data, q, Taken) /\ MantissaStops(t, q, Taken)
      BY <2>1, <2>3, MantissaKnown
    <3>2. Lexed(o, q)' /\ Taken' = Taken /\ data' = data /\ UNCHANGED partial
      BY <1>j, <2>3, <3>1, LexedStays
    <3>3. Head(stack') = "exponent" /\ Place' = "exponent"
      BY <1>0, <1>b, <1>j, <1>l, <2>1, <2>3, GotoLabel
    <3>4. InteriorKnown(t, o)'
      BY <3>1, <3>2, <3>3 DEF InteriorKnown
    <3>5. PartOK(F, o)'
      BY <1>1, <3>3, AfterThrow
    <3> QED
      BY <3>2, <3>3, <3>4, <3>5, InteriorAlong
  <2> QED
    BY <1>3, <2>2, <2>3 DEF Fraction
<1>4. CASE Exponent
  <2>1. Head(stack) = "exponent" /\ ~AtEOF /\ Head(stack) \notin Roots
    BY <1>4 DEF Exponent, On, At, Roots
  <2>2. CASE PushNext /\ Goto(<<"expSign">>)
    <3>1. "expSign" \in QuietPlaces \ (Skipped \cup {"natural"})
      BY DEF QuietPlaces, Skipped
    <3>2. UNCHANGED partial
      BY <2>2 DEF PushNext
    <3> QED
      BY <1>1, <1>b, <1>l, <2>1, <2>2, <3>1, <3>2, QuietLabel
  <2>3. CASE ~isExponent(next) /\ Jump(<<"numEnd">>)
    <3>1. PICK q : Lexed(o, q) /\ NumberAt(data, q, Taken) /\ NumberStops(t, q, Taken)
      BY <2>1, <2>3, NumberKnown
    <3>2. Lexed(o, q)' /\ Taken' = Taken /\ data' = data /\ UNCHANGED partial
      BY <1>j, <2>3, <3>1, LexedStays
    <3>3. Head(stack') = "numEnd" /\ Place' = "numEnd"
      BY <1>0, <1>b, <1>j, <1>l, <2>1, <2>3, GotoLabel
    <3>4. InteriorKnown(t, o)'
      BY <3>1, <3>2, <3>3 DEF InteriorKnown
    <3>5. PartOK(F, o)'
      BY <1>1, <3>3, AfterThrow
    <3> QED
      BY <3>2, <3>3, <3>4, <3>5, InteriorAlong
  <2> QED
    BY <1>4, <2>2, <2>3 DEF Exponent
<1>5. CASE ExponentSign
  <2>1. Head(stack) = "expSign" /\ ~AtEOF /\ Head(stack) \notin Roots
    BY <1>5 DEF ExponentSign, On, At, Roots
  <2>2. Goto(<<"natural", "numEnd">>) /\ UNCHANGED partial
    BY <1>5 DEF ExponentSign, Jump, PushMatch, treeVars
  <2>3. Head(stack') = "natural" /\ stack'[2] = "numEnd" /\ Place' = "natural"
    BY <1>0, <1>b, <1>l, <2>1, <2>2, GotoTwo DEF Place
  <2>4. isExponent(data'[Taken']) => next' \notin {"-", "+"}
    <3>1. CASE next \in {"-", "+"} /\ PushMatch
      <4>1. nextChar /\ Taken' = Taken + 1 /\ data' = data
        BY <1>0, <2>1, <3>1, Passes DEF PushMatch, match, Passed
      <4>2. data'[Taken'] \in {"-", "+"}
        BY <1>0, <2>1, <3>1, <4>1
      <4> QED
        BY <4>2, Classes
    <3>2. CASE next \notin {"-", "+"} /\ Jump(<<"natural", "numEnd">>)
      BY <1>j, <3>2
    <3> QED
      BY <1>5, <3>1, <3>2 DEF ExponentSign
  <2>5. ShownNumber'
    BY <2>3, <2>4 DEF ShownNumber
  <2>6. Shown' /\ ShownValue'
    BY <2>3, NothingShown DEF Skipped
  <2>7. Known(t, D, F, o)'
    <3>1. Place' \in QuietPlaces
      BY <2>3 DEF QuietPlaces
    <3> QED
      BY <2>5, <2>6, <3>1, KnownIs
  <2>8. PartOK(F, o)'
    BY <1>1, <2>3, AfterThrow
  <2> QED
    BY <2>2, <2>7, <2>8, AlongStays
<1> QED
  BY <1>2, <1>3, <1>4, <1>5

\* A number, or a literal, was read, and it is what D has there.
LEMMA ScalarReadAlong ==
  ASSUME NEW t, NEW D, NEW F, NEW o, Along(t, D, F, o), PartOK(F, o)', Taken \in Nat, start \in Nat,
         UNCHANGED <<streamVars, start, partial, text>>,
         Head(stack') = "skip", Place' \in {"numDone", "litDone"},
         NEW q, Lexed(o, q), q <= Taken, StartsValue(data[q]), NEW tree, Means(t, D, q, Taken, tree),
         tree[1] # "literal" => NumberAt(data, q, Taken),
         Place' = "numDone" => tree = <<NumberSort(text), text>>,
         Place' = "litDone" => tree = <<"literal", text>>
  PROVE  Along(t, D, F, o)'
<1>1. Taken' = Taken /\ data' = data /\ start' = start /\ text' = text /\ Lexed(o, q)'
  BY LexedStays, Stays
<1>2. PICK r \in Nat : r = Taken
  OBVIOUS
<1>3. q \in start' + 1..Taken' /\ r \in start' + 1..Taken' /\ q <= r /\ r + 1 > Taken /\ r + 1 \in Int
  BY <1>1, <1>2 DEF Lexed
<1>4. White(data', r + 1, Taken')
  BY <1>1, <1>3, WhiteMore
<1>5. Means(t, D, q, r, tree)'
  <2>1. Means(t, D, q, r, tree)
    BY <1>2
  <2> QED
    BY <1>1, <2>1, MeansStays
<1>6. ReadScalar(t, D, o, tree)'
  <2>1. Begins(o, q)' /\ text' = SubSeq(data', q, r)
    BY <1>1, <1>2 DEF Lexed
  <2>2. StartsValue(data'[q]) /\ (tree[1] # "literal" => NumberAt(data', q, r))
    BY <1>1, <1>2
  <2> QED
    BY <1>3, <1>4, <1>5, <2>1, <2>2 DEF ReadScalar
<1>7. ScalarKnown(t, D, o)'
  <2>1. CASE Place' = "numDone"
    <3>1. tree = <<NumberSort(text'), text'>>
      BY <1>1, <2>1
    <3> QED
      BY <1>6, <2>1, <3>1 DEF ScalarKnown
  <2>2. CASE Place' = "litDone"
    <3>1. tree = <<"literal", text'>>
      BY <1>1, <2>2
    <3> QED
      BY <1>6, <2>2, <3>1 DEF ScalarKnown
  <2> QED
    BY <2>1, <2>2
<1>8. Place' \notin {"expr", "lit"} /\ Head(stack') \notin Skipped \cup {"natural"}
  BY DEF Skipped
<1>9. Known(t, D, F, o)'
  BY <1>7, <1>8, NothingShown, KnownIs
<1> QED
  BY <1>9, AlongStays

\* The end of a number: the text has none that is longer.
LEMMA NumberEndAlong ==
  ASSUME CommaInv, FramesInv, Parsing, NEW t, NEW D, Viable(t, D), NEW F, NEW o,
         Along(t, D, F, o), NumberEnd
  PROVE  Along(t, D, F, o)'
<1>0. /\ PartOK(F, o) /\ Known(t, D, F, o) /\ Taken \in Nat /\ start \in Nat /\ pos \in Nat
      /\ Taken <= pos /\ pos <= Len(t) /\ Len(t) \in Nat /\ t \in Seq(Char) /\ Derivation(t, D)
      /\ Agree(data, t, pos) /\ Agree(t, data, pos)
      /\ stack \in Seq(Labels) /\ StackOK /\ stack # <<>>
  BY AlongFacts
<1>1. /\ Head(stack) = "numEnd" /\ Place = "numEnd" /\ Goto(<<"skip", "numDone">>)
      /\ UNCHANGED <<streamVars, text, start, partial>> /\ Head(stack) \notin Roots
  BY DEF NumberEnd, At, Place, Jump, Peek, treeVars, callVars, Roots
<1>2. PICK q : Lexed(o, q) /\ NumberAt(data, q, Taken) /\ NumberStops(t, q, Taken)
  BY <1>0, <1>1 DEF Known, InteriorKnown
<1>3. Head(stack') = "skip" /\ Place' = "numDone"
  <2>1. "skip" \in Labels /\ "numDone" \in Labels /\ "numDone" \in Below("skip")
        /\ Below("numEnd") \subseteq Below("numDone")
    BY PlaceSets, BelowValues DEF Unchecked
  <2> QED
    BY <1>0, <1>1, <2>1, PlaceAfter
<1>4. PartOK(F, o)'
  <2>1. PartOK(F, o)' \/ Throw("BAD_JSON")
    BY <1>0, ScalarStepsOK
  <2> QED
    BY <1>3, <2>1, AfterThrow
<1>5. q \in Nat /\ q \in Int /\ q >= 1 /\ q <= Taken /\ q <= pos /\ Taken \in Int /\ pos \in Int
  <2>1. q \in start + 1..Taken + 1
    BY <1>2 DEF Lexed
  <2>2. \E k \in q..Taken : TRUE
    BY <1>2 DEF NumberAt, MantissaAt
  <2> QED
    BY <1>0, <2>1, <2>2
<1>6. isNumber(data[q]) \/ data[q] = "-"
  BY <1>2, <1>5, NumberFirst DEF isNumber
<1>7. StartsValue(data[q])
  BY <1>6, StartingChars
<1>8. t[q] = data[q] /\ q # start + 1
  BY <1>2, <1>5, <1>6, NumberDue DEF Lexed
<1>9. PICK tree : tree = <<NumberSort(text), text>>
  OBVIOUS
<1>10. Means(t, D, q, Taken, tree)
  <2>1. SUFFICES ASSUME NEW n, NEW b, Stands(t, D, q, n, b)
                 PROVE  n = Taken /\ b = tree
    BY DEF Means
  <2>2. Whole(q, n, b) \in D /\ Stopped(t, n)
    BY <1>8, <2>1 DEF Stands
  <2>3. n \in Nat /\ n \in Int /\ n <= Len(t) /\ q <= n
    <3>1. n \in 1..Len(t) /\ q <= n
      BY <1>0, <2>2, WholeByRule
    <3> QED
      BY <1>0, <3>1
  <2>4. NumberAt(t, q, n) /\ b = <<NumberSort(SubSeq(t, q, n)), SubSeq(t, q, n)>>
    <3>1. NumberIs(t, q, n, b)
      BY <1>0, <1>6, <1>8, <2>2, WholeKinds
    <3> QED
      BY <3>1 DEF NumberIs
  <2>5. ~(n < Taken)
    <3>1. SUFFICES ASSUME n < Taken PROVE FALSE
      OBVIOUS
    <3>2. n + 1 \in q..Taken /\ n + 1 \in 1..pos
      BY <1>0, <1>5, <2>3, <3>1
    <3>3. data[n + 1] \in NumberChars
      BY <1>2, <1>5, <3>2, NumberOnly
    <3>4. t[n + 1] \in NumberChars
      BY <1>0, <3>2, <3>3 DEF Agree
    <3> QED
      BY <2>2, <2>3, <3>4, NotStopped
  <2>6. n = Taken
    <3>1. n \in Taken..Len(t)
      BY <1>0, <1>5, <2>3, <2>5
    <3> QED
      BY <1>2, <2>4, <3>1 DEF NumberStops
  <2>7. SubSeq(t, q, n) = text
    <3>1. SubSeq(t, q, Taken) = SubSeq(data, q, Taken)
      BY <1>0, <1>5, AgreeInside
    <3> QED
      BY <1>2, <2>6, <3>1 DEF Lexed
  <2> QED
    BY <1>9, <2>4, <2>6, <2>7
<1> QED
  BY <1>0, <1>1, <1>2, <1>3, <1>4, <1>5, <1>7, <1>9, <1>10, ScalarReadAlong

\* A value is due where literal() begins, and it is a literal.
LEMMA LiteralDue ==
  ASSUME CommaInv, FramesInv, Parsing, NEW t, NEW D, Viable(t, D), NEW F, NEW o,
         Along(t, D, F, o), On("lit")
  PROVE  isLowerAlpha(next)
<1>0. /\ Known(t, D, F, o) /\ Taken \in Nat /\ t \in Seq(Char) /\ Derivation(t, D)
      /\ ~AtEOF => pos = Taken + 1 /\ next = data[Taken + 1]
  BY AlongFacts
<1>1. Head(stack) = "lit" /\ Place = "lit" /\ ~AtEOF
  BY DEF On, At, Place
<1>2. SUFFICES ASSUME ~isLowerAlpha(next) PROVE FALSE
  OBVIOUS
<1>3. next \notin {"{", "[", "quote", "-"} /\ ~isNumber(next)
      /\ (partial # <<>> /\ partial[1].type = "array" => next # Closing("array"))
  BY <1>0, <1>1 DEF Known, ShownValue
<1>4. ~isWhiteSpace(next)
  BY <1>0, <1>1 DEF Known, Shown, Skipped
<1>5. PICK q \in Nat : q = Taken + 1
  BY <1>0
<1>6. Begins(o, q) /\ q <= pos /\ data[q] = next
  BY <1>0, <1>1, <1>5 DEF Known, Expected
<1>7. /\ \E r \in Nat : \E b : Stands(t, D, q, r, b) /\ q <= r /\ r <= Len(t)
      /\ t[q] = data[q]
  BY <1>3, <1>4, <1>6, DueValue
<1>8. PICK r, b : Whole(q, r, b) \in D
  BY <1>7 DEF Stands
<1>9. isNumber(t[q]) \/ isLowerAlpha(t[q]) \/ t[q] \in {"quote", "-", "{", "["}
  BY <1>0, <1>8, WholeKinds
<1> QED
  BY <1>2, <1>3, <1>6, <1>7, <1>9

\* Where no other value begins, a literal does, ...
LEMMA LiteralAlong ==
  ASSUME CommaInv, FramesInv, Parsing, NEW t, NEW D, Viable(t, D), NEW F, NEW o,
         Along(t, D, F, o), BeginLiteral
  PROVE  Along(t, D, F, o)'
<1>0. /\ PartOK(F, o) /\ Here(F, o) /\ stack \in Seq(Labels) /\ StackOK /\ stack # <<>>
  BY AlongFacts
<1>1. Head(stack) = "lit" /\ Place = "lit" /\ On("lit") /\ Head(stack) \notin Roots /\ "letters" \in Labels
      /\ Below("lit") \subseteq Below("letters")
  BY PlaceSets, BelowValues DEF BeginLiteral, On, At, Place, Roots, Checked
<1>2. Jump(<<"letters">>)
  BY <1>1, LiteralDue DEF BeginLiteral
<1>3. Goto(<<"letters">>) /\ UNCHANGED <<text, partial>>
  BY <1>2 DEF Jump, treeVars
<1>4. Head(stack') = "letters" /\ Place' = "letters"
  BY <1>0, <1>1, <1>3, GotoLabel
<1>5. PartOK(F, o)'
  <2>1. PartOK(F, o)' \/ Throw("BAD_JSON")
    BY <1>0, ScalarStepsOK
  <2> QED
    BY <1>4, <2>1, AfterThrow
<1>6. text' = <<>>
  BY <1>0, <1>1, <1>3 DEF Here
<1>7. \A k \in DOMAIN text' : isLowerAlpha(text'[k])
  BY <1>6
<1>8. InteriorKnown(t, o)'
  BY <1>4, <1>7 DEF InteriorKnown
<1> QED
  BY <1>3, <1>4, <1>5, <1>8, InteriorAlong

\* and it ends where its letters do.
LEMMA LettersAlong ==
  ASSUME CommaInv, FramesInv, Parsing, NEW t, NEW D, Viable(t, D), NEW F, NEW o,
         Along(t, D, F, o), Letters
  PROVE  Along(t, D, F, o)'
<1>0. /\ PartOK(F, o) /\ Here(F, o) /\ Known(t, D, F, o) /\ Taken \in Nat /\ start \in Nat /\ pos \in Nat
      /\ Taken <= pos /\ pos <= Len(t) /\ Len(t) \in Nat /\ t \in Seq(Char) /\ Derivation(t, D)
      /\ data \in Seq(Char) /\ Len(data) \in Nat /\ pos <= Len(data)
      /\ Agree(data, t, pos) /\ Agree(t, data, pos)
      /\ stack \in Seq(Labels) /\ StackOK /\ stack # <<>>
      /\ ~AtEOF => pos = Taken + 1 /\ next = t[Taken + 1]
  BY AlongFacts
<1>1. Head(stack) = "letters" /\ Place = "letters" /\ ~AtEOF /\ Head(stack) \notin Roots
  BY DEF Letters, On, At, Place, Roots
<1>2. PartOK(F, o)' \/ Throw("BAD_JSON")
  BY <1>0, ScalarStepsOK
<1>3. PICK q \in start + 1..Taken + 1 : /\ Begins(o, q) /\ text = SubSeq(data, q, Taken)
                                        /\ q > Taken => isLowerAlpha(next)
  BY <1>0, <1>1 DEF Here, InLiteral
<1>4. \A k \in DOMAIN text : isLowerAlpha(text[k])
  BY <1>0, <1>1 DEF Known, InteriorKnown
<1>5. CASE isLowerAlpha(next) /\ PushNext /\ UNCHANGED stack
  <2>1. text' = Append(text, next) /\ UNCHANGED partial
    BY <1>5 DEF PushNext, Push
  <2>2. Head(stack') = "letters" /\ Place' = "letters"
    BY <1>1, <1>5 DEF Place
  <2>3. \A k \in DOMAIN text' : isLowerAlpha(text'[k])
    <3>1. text \in Seq(Char) /\ next \in Char
      BY DEF CommaInv, MessageInv, TypeOK
    <3>2. /\ DOMAIN text' = 1..Len(text) + 1 /\ DOMAIN text = 1..Len(text) /\ Len(text) \in Nat
          /\ text'[Len(text) + 1] = next
          /\ \A k \in 1..Len(text) : text'[k] = text[k]
      BY <2>1, <3>1
    <3> QED
      BY <1>4, <1>5, <3>2
  <2>4. InteriorKnown(t, o)'
    BY <2>2, <2>3 DEF InteriorKnown
  <2>5. PartOK(F, o)'
    BY <1>2, <2>2, AfterThrow
  <2> QED
    BY <2>1, <2>2, <2>4, <2>5, InteriorAlong
<1>6. CASE ~isLowerAlpha(next) /\ Jump(<<"skip", "litDone">>)
  <2>1. /\ Goto(<<"skip", "litDone">>) /\ UNCHANGED <<streamVars, text, start, partial>>
    BY <1>6 DEF Jump, Peek, treeVars, callVars
  <2>2. Head(stack') = "skip" /\ Place' = "litDone"
    <3>1. "skip" \in Labels /\ "litDone" \in Labels /\ "litDone" \in Below("skip")
          /\ Below("letters") \subseteq Below("litDone")
      BY PlaceSets, BelowValues DEF Unchecked
    <3> QED
      BY <1>0, <1>1, <2>1, <3>1, PlaceAfter
  <2>3. PartOK(F, o)'
    BY <1>2, <2>2, AfterThrow
  <2>4. /\ q \in Nat /\ q \in Int /\ q >= 1 /\ q <= Taken /\ q <= pos /\ Taken \in Int /\ pos \in Int
        /\ q \in 1..Len(t) /\ q \in 1..Len(data) /\ Taken \in 1..Len(data)
    BY <1>0, <1>3, <1>6
  <2>5. \A k \in q..Taken : isLowerAlpha(data[k])
    <3>1. SUFFICES ASSUME NEW k \in q..Taken PROVE isLowerAlpha(data[k])
      OBVIOUS
    <3>2. k - q + 1 \in 1..Len(text) /\ text[k - q + 1] = data[k]
      BY <1>0, <1>3, <2>4, <3>1, SubSeqElements
    <3>3. DOMAIN text = 1..Len(text)
      BY DEF CommaInv, MessageInv, TypeOK
    <3> QED
      BY <1>4, <3>2, <3>3
  <2>6. isLowerAlpha(data[q])
    BY <2>4, <2>5
  <2>7. StartsValue(data[q]) /\ data[q] \notin {"{", "["}
    <3>1. data[q] \notin {"{", "["}
      BY <2>6, FirstChars DEF isLowerAlpha
    <3> QED
      BY <2>6, <3>1, StartingChars
  <2>8. t[q] = data[q] /\ q # start + 1
    <3>1. ~isWhiteSpace(data[q]) /\ data[q] # Closing("array")
      BY <2>7, StartingChars
    <3> QED
      BY <1>3, <2>4, <2>7, <3>1, DueValue
  <2>9. PICK tree : tree = <<"literal", text>>
    OBVIOUS
  <2>10. Means(t, D, q, Taken, tree)
    <3>1. SUFFICES ASSUME NEW n, NEW b, Stands(t, D, q, n, b)
                   PROVE  n = Taken /\ b = tree
      BY DEF Means
    <3>2. Whole(q, n, b) \in D /\ Stopped(t, n)
      BY <2>8, <3>1 DEF Stands
    <3>3. n \in 1..Len(t) /\ q <= n
      BY <1>0, <3>2, WholeByRule
    <3>4. n \in Nat /\ n \in Int
      BY <1>0, <3>3
    <3>5. SubSeq(t, q, n) \in Literals /\ b = <<"literal", SubSeq(t, q, n)>>
      <4>1. LiteralIs(t, q, n, b)
        BY <1>0, <2>6, <2>8, <3>2, WholeKinds
      <4> QED
        BY <4>1 DEF LiteralIs
    <3>6. ~(n < Taken)
      <4>1. SUFFICES ASSUME n < Taken PROVE FALSE
        OBVIOUS
      <4>2. n + 1 \in q..Taken /\ n + 1 \in 1..pos
        BY <1>0, <2>4, <3>3, <3>4, <4>1
      <4>3. t[n + 1] \in LowerAlpha
        BY <1>0, <2>5, <4>2 DEF Agree, isLowerAlpha
      <4> QED
        BY <3>2, <3>4, <4>3, NotStopped
    <3>7. ~(Taken < n)
      <4>1. SUFFICES ASSUME Taken < n PROVE FALSE
        OBVIOUS
      <4>2. Taken + 1 \in q..n
        BY <2>4, <3>4, <4>1
      <4>3. SubSeq(t, q, n) \in Literals
        BY <3>5
      <4>4. \A k \in q..n : isLowerAlpha(t[k])
        BY <1>0, <2>4, <3>3, <4>3, LiteralStarts
      <4> QED
        BY <1>0, <1>1, <1>6, <4>2, <4>4
    <3>8. n = Taken
      BY <2>4, <3>4, <3>6, <3>7
    <3>9. SubSeq(t, q, n) = text
      <4>1. SubSeq(t, q, Taken) = SubSeq(data, q, Taken)
        <5>1. Agree(t, data, pos) /\ Taken <= pos
          BY <1>0
        <5> QED
          BY <2>4, <5>1, AgreeInside
      <4>2. SubSeq(t, q, n) = SubSeq(t, q, Taken)
        BY Zenon, <3>8
      <4>3. text = SubSeq(data, q, Taken)
        BY <1>3
      <4> QED
        BY Zenon, <4>1, <4>2, <4>3
    <3> QED
      BY <2>9, <3>5, <3>8, <3>9
  <2>11. Lexed(o, q)
    BY <1>3 DEF Lexed
  <2>12. tree[1] = "literal"
    BY <2>9
  <2> QED
    BY <1>0, <2>1, <2>2, <2>3, <2>4, <2>7, <2>9, <2>10, <2>11, <2>12, ScalarReadAlong
<1> QED
  BY <1>5, <1>6 DEF Letters

-----------------------------------------------------------------------------
(***************************************************************************)
(* Values, items and containers: what follows in the text is what the      *)
(* parser expects.                                                         *)
(***************************************************************************)

\* What is known where expression() begins.
LEMMA ExpressionKnown ==
  ASSUME CommaInv, FramesInv, Parsing, NEW t, NEW D, Viable(t, D), NEW F, NEW o,
         Along(t, D, F, o), Head(stack) = "expr", ~AtEOF
  PROVE  /\ ~isWhiteSpace(next) /\ Begins(o, Taken + 1)
         /\ partial # <<>> /\ partial[1].type = "array" => next # Closing("array")
<1>1. Known(t, D, F, o)
  BY AlongFacts
<1>2. Place = "expr"
  BY DEF Place
<1> QED
  BY <1>1, <1>2 DEF Known, Shown, Skipped, Expected, ShownValue

\* The labels that expression() pushes, and what they may stand on.
LEMMA ExpressionPlaces ==
  /\ {"str", "strDone", "natural", "fraction", "lit"} \subseteq Labels \ {"skip"}
  /\ "strDone" \in Below("str") /\ "fraction" \in Below("natural")
  /\ Below("expr") \subseteq Below("strDone") /\ Below("expr") \subseteq Below("fraction")
  /\ Below("expr") \subseteq Below("lit")
<1>1. {"str", "strDone", "natural", "fraction", "lit"} \subseteq Labels \ {"skip"}
  BY PlaceSets, Zenon DEF Checked, Unchecked
<1>2. /\ "strDone" \in Below("str") /\ "fraction" \in Below("natural")
      /\ Below("expr") \subseteq Below("strDone") /\ Below("expr") \subseteq Below("fraction")
      /\ Below("expr") \subseteq Below("lit")
  BY BelowValues, Zenon DEF Checked, Unchecked
<1> QED
  BY <1>1, <1>2, SMT

\* expression() calls string(), number() or literal().
LEMMA ExpressionAlong ==
  ASSUME CommaInv, FramesInv, Parsing, NEW t, NEW D, Viable(t, D), NEW F, NEW o,
         Along(t, D, F, o), Expression, next \notin {"{", "["}
  PROVE  Along(t, D, F, o)'
<1>0. /\ PartOK(F, o) /\ stack \in Seq(Labels) /\ StackOK /\ stack # <<>>
  BY AlongFacts
<1>1. Head(stack) = "expr" /\ ~AtEOF /\ Place = "expr" /\ Head(stack) \notin Roots
  BY DEF Expression, On, At, Place, Roots
<1>2. /\ {"str", "strDone", "natural", "fraction", "lit"} \subseteq Labels \ {"skip"}
      /\ "strDone" \in Below("str") /\ "fraction" \in Below("natural")
      /\ Below("expr") \subseteq Below("strDone") /\ Below("expr") \subseteq Below("fraction")
      /\ Below("expr") \subseteq Below("lit")
  BY ExpressionPlaces
<1>3. PartOK(F, o)'
  <2>1. \A type : next # Opening(type)
    BY DEF Opening
  <2> QED
    BY <1>0, <2>1, ExpressionOK
<1>4. /\ ~isWhiteSpace(next) /\ Begins(o, Taken + 1)
      /\ partial # <<>> /\ partial[1].type = "array" => next # Closing("array")
  BY <1>1, ExpressionKnown
<1>5. CASE next = "quote" /\ Jump(<<"str", "strDone">>)
  <2>1. /\ Goto(<<"str", "strDone">>) /\ UNCHANGED <<streamVars, start, partial>> /\ next' = next
        /\ Taken' = Taken /\ data' = data /\ UNCHANGED partial
    BY <1>5, Stays DEF Jump, Peek, treeVars, callVars
  <2>2. Head(stack') = "str" /\ Place' = "str" /\ stack'[2] = "strDone"
    BY <1>0, <1>1, <1>2, <2>1, GotoTwo DEF Place
  <2>3. PICK q : q = Taken + 1
    OBVIOUS
  <2>4. Begins(o, q)' /\ q = Taken' + 1
    BY <1>4, <2>1, <2>3, SameSlots
  <2>5. TextBegins(o, Taken + 1)'
    BY <2>2, <2>4 DEF TextBegins
  <2>6. Shown'
    BY <1>4, <2>1 DEF Shown
  <2>7. ShownValue'
    <3>1. next' = "quote" /\ next' # "}"
      BY <1>5, <2>1
    <3> QED
      BY <2>2, <3>1, Zenon DEF ShownValue
  <2>8. ShownNumber'
    BY <2>2, NothingShown
  <2>9. Known(t, D, F, o)'
    BY <2>2, <2>5, <2>6, <2>7, <2>8, KnownIs
  <2> QED
    BY <1>3, <2>1, <2>9, AlongStays
<1>6. ASSUME Goto(<<"natural", "fraction">>), UNCHANGED partial,
             text' = <<>> => isNumber(next')
      PROVE  Along(t, D, F, o)'
  <2>2. Head(stack') = "natural" /\ Place' = "natural" /\ stack'[2] = "fraction"
    BY <1>0, <1>1, <1>2, <1>6, GotoTwo DEF Place
  <2>3. ShownNumber'
    BY <1>6, <2>2 DEF ShownNumber
  <2>4. Shown' /\ ShownValue'
    BY <2>2, NothingShown DEF Skipped
  <2>5. Known(t, D, F, o)'
    <3>1. Place' \in QuietPlaces
      BY <2>2 DEF QuietPlaces
    <3> QED
      BY <2>3, <2>4, <3>1, KnownIs
  <2> QED
    BY <1>3, <1>6, <2>5, AlongStays
<1>7. CASE isNumber(next) /\ Goto(<<"natural", "fraction">>) /\ Peek /\ text' = <<>>
           /\ UNCHANGED <<lastWasComma, partial, atom, callVars>>
  BY <1>6, <1>7 DEF Peek
<1>8. CASE next = "-" /\ match /\ Goto(<<"natural", "fraction">>) /\ text' = <<"-">>
           /\ UNCHANGED <<partial, atom, callVars>>
  BY <1>6, <1>8
<1>9. CASE /\ next \notin {"{", "[", "quote", "-"} /\ ~isNumber(next)
           /\ Goto(<<"lit">>) /\ Peek /\ text' = <<>>
           /\ UNCHANGED <<lastWasComma, partial, atom, callVars>>
  <2>1. /\ UNCHANGED <<streamVars, start, partial>> /\ Taken' = Taken /\ data' = data
        /\ next' = next /\ UNCHANGED partial /\ AtEOF' = AtEOF
    BY <1>9, Stays DEF Peek, callVars, AtEOF, streamVars
  <2>2. Head(stack') = "lit" /\ Place' = "lit"
    BY <1>0, <1>1, <1>2, <1>9, GotoLabel
  <2>3. PICK q : q = Taken + 1
    OBVIOUS
  <2>4. Begins(o, q)' /\ q = Taken' + 1
    BY <1>4, <2>1, <2>3, SameSlots
  <2>5. Begins(o, Taken + 1)'
    BY <2>4
  <2>6. Shown'
    BY <1>4, <2>1 DEF Shown
  <2>7. ShownValue'
    <3>1. next' \notin {"{", "[", "quote", "-"} /\ ~isNumber(next')
      BY <1>9, <2>1
    <3>2. partial' # <<>> /\ partial'[1].type = "array" => next' # Closing("array")
      BY <1>4, <2>1
    <3> QED
      BY <2>2, <3>1, <3>2, Zenon DEF ShownValue
  <2>8. ShownNumber'
    BY <2>2, NothingShown
  <2>9. Known(t, D, F, o)'
    BY <2>2, <2>5, <2>6, <2>7, <2>8, KnownIs
  <2> QED
    BY <1>3, <2>1, <2>9, AlongStays
<1> QED
  BY <1>5, <1>7, <1>8, <1>9 DEF Expression

\* D opens the container that is opened.
LEMMA OpenAlong ==
  ASSUME CommaInv, FramesInv, Parsing, NEW t, NEW D, Viable(t, D), NEW F, NEW o,
         Along(t, D, F, o), Head(stack) = "expr", ~AtEOF,
         NEW type \in {"object", "array"}, next = Opening(type),
         NEW loop \in Loops, Open(type, loop)
  PROVE  \E G, p : Along(t, D, G, p)'
<1>0. /\ PartOK(F, o) /\ Follows(t, D, o) /\ stack \in Seq(Labels) /\ StackOK /\ stack # <<>>
      /\ Taken \in Nat /\ t \in Seq(Char) /\ Derivation(t, D)
      /\ partial \in Seq(Container) /\ Len(partial) \in Nat /\ ContainersOK(F, o)
      /\ pos = Taken + 1 /\ next = data[Taken + 1] /\ next = t[Taken + 1]
  BY AlongFacts
<1>1. PICK k \in Nat : k = Taken + 1
  BY <1>0
<1>2. ~isWhiteSpace(next) /\ Begins(o, Taken + 1)
      /\ (partial # <<>> /\ partial[1].type = "array" => next # Closing("array"))
  BY ExpressionKnown
<1>3. PICK G, p : p = <<[from |-> k, to |-> k]>> \o o /\ PartOK(G, p)'
  BY <1>0, <1>1, OpenOK
<1>4. /\ match /\ Goto(<<"skip", loop>>)
      /\ partial' = <<[type |-> type, key |-> <<>>, items |-> <<>>]>> \o partial
  BY DEF Open
<1>5. Head(stack') = "skip" /\ Place' = loop
  <2>1. "skip" \in Labels /\ loop \in Labels /\ loop \in Below("skip")
        /\ Below("expr") \subseteq Below(loop)
    BY PlaceSets, BelowValues DEF Unchecked, Checked, Loops
  <2> QED
    BY <1>0, <1>4, <2>1, PlaceAfter DEF Roots
<1>6. /\ t[k] = next /\ ~isWhiteSpace(data[k]) /\ k <= pos /\ Begins(o, k)
      /\ data[k] = next
  <2>1. k <= pos
    BY <1>0, <1>1
  <2>2. t[k] = next /\ data[k] = next
    BY <1>0, <1>1, Zenon
  <2> QED
    BY <1>1, <1>2, <2>1, <2>2, Zenon
<1>7. \E e, tree : Whole(k, e, tree) \in D
  <2>1. partial # <<>> /\ partial[1].type = "array" => data[k] # Closing("array")
    BY <1>2, <1>6
  <2>2. \E r \in Nat : \E b : Stands(t, D, k, r, b)
    BY <1>6, <2>1, DueValue
  <2> QED
    BY <2>2 DEF Stands
<1>8. ASSUME NEW e, NEW tree, Whole(k, e, tree) \in D
      PROVE  Leads(t, D, Begun(k, k, <<type, <<>> >>), e, tree)
  <2>1. t[k] \in {"{", "["}
    BY <1>6 DEF Opening
  <2>2. Closes(t, D, k, e, tree)
    BY <1>0, <1>8, <2>1, WholeKinds
  <2>3. Leads(t, D, Begun(k, k, <<tree[1], <<>> >>), e, tree) /\ t[k] = Opening(tree[1])
        /\ tree[1] \in {"object", "array"}
    BY <1>0, <1>8, <2>2, LeadsFromStart
  <2>4. tree[1] = type
    <3>1. Opening("object") # Opening("array")
      BY DEF Opening
    <3> QED
      BY <1>6, <2>3, <3>1
  <2> QED
    BY <2>3, <2>4
<1>9. Follows(t, D, p)'
  <2> DEFINE s == [from |-> k, to |-> k]
             c == [type |-> type, key |-> <<>>, items |-> <<>>]
  <2>1. o \in Seq(Spans) /\ Len(o) = Len(partial)
    BY <1>0 DEF ContainersOK
  <2>2. p[1] = s /\ \A i \in 1..Len(partial) : p[i + 1] = o[i]
    BY <1>3, <2>1, ConsProperties
  <2>3. /\ Len(partial') = Len(partial) + 1 /\ partial'[1] = c
        /\ \A i \in 1..Len(partial) : partial'[i + 1] = partial[i]
    BY <1>0, <1>4, ConsProperties
  <2>4. p[1].from = k /\ p[1].to = k /\ partial'[1].type = type /\ partial'[1].items = <<>>
    BY <2>2, <2>3
  <2> HIDE DEF s, c
  <2>5. SUFFICES ASSUME NEW n \in 1..Len(partial')
                 PROVE  /\ \E e, tree : Whole(p[n].from, e, tree) \in D
                        /\ \A e, tree : Whole(p[n].from, e, tree) \in D =>
                             Leads(t, D, Begun(p[n].from, p[n].to, <<partial'[n].type, partial'[n].items>>), e, tree)
    BY DEF Follows
  <2>6. CASE n = 1
    <3>1. \A e, tree : Whole(p[n].from, e, tree) \in D =>
            Leads(t, D, Begun(p[n].from, p[n].to, <<partial'[n].type, partial'[n].items>>), e, tree)
      BY <1>8, <2>4, <2>6
    <3> QED
      BY <1>7, <2>4, <2>6, <3>1
  <2>7. CASE n # 1
    <3>1. PICK i \in 1..Len(partial) : n = i + 1
      <4>1. n - 1 \in 1..Len(partial) /\ n = (n - 1) + 1
        BY <1>0, <2>3, <2>7
      <4> QED
        BY <4>1
    <3>2. p[n] = o[i] /\ partial'[n] = partial[i]
      BY <2>2, <2>3, <3>1
    <3> QED
      BY <1>0, <3>1, <3>2 DEF Follows
  <2> QED
    BY <2>6, <2>7
<1>10. Known(t, D, G, p)'
  <2>1. lastWasComma' = FALSE
    <3>1. next # ","
      BY DEF Opening
    <3> QED
      BY <1>4, <3>1 DEF match
  <2>2. AfterItem(p)'
    BY <2>1 DEF AfterItem
  <2>3. Place' \notin {"expr", "lit"} /\ Head(stack') \notin Skipped \cup {"natural"} /\ Place' \in Loops
    BY <1>5 DEF Skipped, Loops
  <2> QED
    BY <2>2, <2>3, NothingShown, KnownIs
<1> QED
  BY <1>3, <1>9, <1>10 DEF Along

\* What is known of the value in atom, from one step to the next.
LEMMA IsStays ==
  ASSUME UNCHANGED <<data, start, partial, atom>>, NEW t, NEW D, NEW F, NEW o, NEW k, NEW j,
         Is(t, D, F, o, k, j)
  PROVE  Is(t, D, F, o, k, j)'
<1>1. PICK tree : tree = atom
  OBVIOUS
<1>2. Means(t, D, k, j, tree)' /\ Begins(o, k)'
  BY <1>1, MeansStays, SameSlots DEF Is, ReadValue
<1>3. Means(t, D, k, j, atom)'
  BY <1>1, <1>2 DEF Means, Stands
<1> QED
  BY <1>2, <1>3 DEF Is, ReadValue, Whole

\* A container is open where its next item is about to be added.
LEMMA ItemOfContainer ==
  ASSUME FramesInv, stack # <<>>, StackOK, stack \in Seq(Labels), Head(stack) = "exprEnd"
  PROVE  partial # <<>> /\ stack[2] \in {"objAdd", "arrAdd"} /\ Head(stack) \notin Roots
         /\ Below("exprEnd") \subseteq Below("skip") /\ stack[2] \in Labels
<1>1. Head(stack) \notin Roots /\ Below("exprEnd") = {"objAdd", "arrAdd"}
      /\ Below("exprEnd") \subseteq Below("skip")
  BY BelowValues DEF Roots
<1>2. Len(stack) > 1 /\ stack[2] \in {"objAdd", "arrAdd"} /\ stack[2] \in Labels
  BY <1>1, UnderHead
<1>3. stack[Len(stack)] \in Roots /\ Linked(stack) /\ Len(stack) \in Nat
  BY DEF StackOK
<1>4. Len(stack) # 2
  <2>1. stack[2] \notin Roots
    BY <1>2 DEF Roots
  <2> QED
    BY <1>3, <2>1, Zenon
<1>5. 3 \in 1..Len(stack) /\ 2 \in 1..Len(stack) - 1 /\ 2 + 1 = 3
  <2>1. Len(stack) > 1 /\ Len(stack) \in Nat
    BY <1>2, <1>3
  <2>2. PICK n : n = Len(stack)
    OBVIOUS
  <2>3. n \in Nat /\ n > 1 /\ n # 2
    BY <1>4, <2>1, <2>2
  <2>4. 3 \in 1..n /\ 2 \in 1..n - 1 /\ 2 + 1 = 3
    BY <2>3
  <2> QED
    BY <2>2, <2>4, Zenon
<1>6. stack[3] \in Below(stack[2])
  BY <1>3, <1>5 DEF Linked
<1>7. stack[3] \in Loops
  BY <1>2, <1>6, BelowValues DEF Loops
<1>8. stack[1] \notin Loops /\ stack[2] \notin Loops
  BY <1>2 DEF Loops
<1>9. \A n \in 1..3 - 1 : stack[n] \notin Loops
  <2>1. \A n \in 1..3 - 1 : n = 1 \/ n = 2
    OBVIOUS
  <2> QED
    BY <1>8, <2>1
<1>10. partial # <<>>
  BY <1>5, <1>7, <1>9, InnermostLoop DEF FramesInv
<1> QED
  BY <1>1, <1>2, <1>10

\* Behind the value in atom its container goes on.
LEMMA ValueEnds ==
  ASSUME CommaInv, FramesInv, Parsing, NEW t, NEW D, Viable(t, D), NEW F, NEW o,
         Along(t, D, F, o), partial # <<>>,
         NEW k \in start + 1..Taken, NEW j \in start + 1..Taken, Is(t, D, F, o, k, j)
  PROVE  Stopped(t, j) /\ k # start + 1 /\ Whole(k, j, atom) \in D
<1>1. /\ start \in Nat /\ Taken \in Nat /\ Taken <= pos /\ pos \in Nat
  BY AlongFacts
<1>2. k \in Nat /\ k <= pos
  BY <1>1
<1>3. Begins(o, k) /\ ~isWhiteSpace(data[k]) /\ data[k] # Closing("array")
  BY StartingChars DEF Is, ReadValue
<1>4. partial # <<>> => k # start + 1
  BY <1>2, <1>3, DueValue
<1>5. \E r \in Nat : \E b : Stands(t, D, k, r, b)
  BY <1>2, <1>3, DueValue
<1>6. PICK r \in Nat : \E b : Stands(t, D, k, r, b)
  BY <1>5
<1>7. PICK b : Stands(t, D, k, r, b)
  BY <1>6
<1>8. r = j /\ b = atom
  BY <1>7 DEF Is, Means
<1> QED
  BY <1>4, <1>7, <1>8 DEF Stands

\* What follows a value that D has can follow it.
LEMMA WhatFollows ==
  ASSUME CommaInv, FramesInv, Parsing, NEW t, NEW D, Viable(t, D), NEW F, NEW o,
         Along(t, D, F, o), NEW j \in start + 1..Taken, Stopped(t, j),
         White(data, j + 1, Taken), ~AtEOF, ~isWhiteSpace(next)
  PROVE  next \in {",", "}", "]"}
<1>0. /\ start \in Nat /\ Taken \in Nat /\ pos \in Nat /\ Agree(data, t, pos) /\ pos = Taken + 1
      /\ next = t[Taken + 1]
  BY AlongFacts
<1>1. PICK e \in Nat : j < e /\ White(t, j + 1, e - 1) /\ t[e] \in {",", "}", "]"}
  BY DEF Stopped
<1>2. ~isWhiteSpace(t[e])
  BY <1>1, NotWhite
<1>3. White(t, j + 1, Taken)
  <2>1. /\ pos \in Int /\ j + 1 \in Int /\ Taken \in Int /\ j + 1 >= 1 /\ Taken <= pos
    BY <1>0
  <2> QED
    BY <1>0, <2>1, AgreeRun DEF White
<1>4. e = Taken + 1
  <2>1. j < e /\ White(t, j + 1, e - 1) /\ e \in Nat
    BY <1>1
  <2>2. Taken \in Nat /\ j \in Nat /\ j <= Taken
    BY <1>0
  <2>3. ~isWhiteSpace(t[Taken + 1])
    BY <1>0
  <2>4. /\ j + 1 \in Int /\ e \in Int /\ Taken + 1 \in Int /\ j + 1 <= e /\ j + 1 <= Taken + 1
        /\ (Taken + 1) - 1 = Taken
    BY <2>1, <2>2
  <2> QED
    BY <1>2, <1>3, <2>1, <2>3, <2>4, WhiteEnd
<1> QED
  BY <1>0, <1>1, <1>4, Zenon

\* expression() finds what must follow a value inside a container.
LEMMA ExpressionEndAlong ==
  ASSUME CommaInv, FramesInv, Parsing, NEW t, NEW D, Viable(t, D), NEW F, NEW o,
         Along(t, D, F, o), ExpressionEnd
  PROVE  Along(t, D, F, o)'
<1>0. /\ PartOK(F, o) /\ Known(t, D, F, o) /\ stack \in Seq(Labels) /\ StackOK /\ stack # <<>>
      /\ Taken \in Nat /\ start \in Nat /\ start <= Taken
  BY AlongFacts
<1>1. Head(stack) = "exprEnd" /\ ~AtEOF /\ Place = "exprEnd"
  BY DEF ExpressionEnd, On, At, Place
<1>2. /\ partial # <<>> /\ stack[2] \in {"objAdd", "arrAdd"} /\ Head(stack) \notin Roots
      /\ Below(Head(stack)) \subseteq Below("skip")
  BY <1>0, <1>1, ItemOfContainer
<1>3. PICK k, j \in start + 1..Taken : Is(t, D, F, o, k, j) /\ White(data, j + 1, Taken)
  BY <1>0, <1>1 DEF Known, ValueKnown
<1>4. ~isWhiteSpace(next) /\ Shown
  BY <1>0, <1>1 DEF Known, Shown, Skipped
<1>5. next \in {",", "}", "]"}
  BY <1>1, <1>2, <1>3, <1>4, ValueEnds, WhatFollows
<1>6. \/ next = "," /\ match /\ Goto(<<"skip">>) /\ UNCHANGED <<treeVars, callVars>>
      \/ /\ next \in {"}", "]"} /\ Return /\ Peek
         /\ lastWasComma' = FALSE /\ UNCHANGED <<treeVars, callVars>>
  BY <1>5 DEF ExpressionEnd
<1>7. PartOK(F, o)'
  <2>1. ~Throw("BAD_JSON")
    <3>1. Head(stack') # "readSync"
      <4>1. Return => Head(stack') = stack[2]
        BY <1>0, <1>2, ReturnPlace
      <4>2. Goto(<<"skip">>) => Head(stack') = "skip"
        BY <1>0, <1>2, PlaceAfter
      <4> QED
        BY <1>2, <1>6, <4>1, <4>2
    <3> QED
      BY <3>1, AfterThrow
  <2>2. Steady(F, o)
    BY <1>0, <2>1, ExpressionEndOK
  <2> QED
    BY <1>0, <1>1, <2>2, SteadyIsOK
<1>8. CASE next = "," /\ match /\ Goto(<<"skip">>) /\ UNCHANGED <<treeVars, callVars>>
  <2>1. UNCHANGED <<partial, atom, start>> /\ nextChar /\ lastWasComma'
    BY <1>8 DEF treeVars, callVars, match
  <2>2. Taken' = Taken + 1 /\ next = data[Taken + 1] /\ data' = data
    BY <1>0, <1>1, <2>1, Passes DEF Passed
  <2>3. Head(stack') = "skip" /\ Place' = stack[2]
    BY <1>0, <1>2, <1>8, PlaceAfter
  <2>4. Is(t, D, F, o, k, j)'
    BY <1>3, <2>1, <2>2, IsStays
  <2>5. CommaTo(j)'
    <3>1. PICK n \in Nat : n = Taken + 1
      BY <1>0
    <3>2. Between(data, j, ",", n + 1)
      <4>1. j \in Int /\ n \in Int /\ j < n /\ n - 1 = Taken
        BY <1>0, <3>1
      <4>2. White(data, j + 1, n - 1) /\ data[n] = ","
        BY <1>3, <1>8, <2>2, <3>1, <4>1
      <4> QED
        BY <4>1, <4>2, BetweenMore
    <3>3. Taken' = n
      BY <2>2, <3>1
    <3> QED
      BY <2>2, <3>2, <3>3, Zenon DEF CommaTo
  <2>6. k \in start' + 1..Taken' /\ j \in start' + 1..Taken'
    BY <1>0, <2>1, <2>2
  <2>7. ValueKnown(t, D, F, o)'
    <3>1. Place' \notin {"exprEnd", "rootEnd"}
      BY <1>2, <2>3
    <3> QED
      BY <2>1, <2>4, <2>5, <2>6, <3>1, Zenon DEF ValueKnown
  <2>8. Place' \in {"exprEnd", "rootEnd", "objAdd", "arrAdd"} /\ Place' \notin {"expr", "lit"}
        /\ Head(stack') \notin Skipped \cup {"natural"}
    BY <1>2, <2>3 DEF Skipped
  <2>9. Shown' /\ ShownNumber' /\ ShownValue'
    BY <2>8, NothingShown
  <2>10. Known(t, D, F, o)'
    BY <2>7, <2>8, <2>9, KnownIs
  <2> QED
    BY <1>7, <2>1, <2>10, AlongStays
<1>9. CASE /\ next \in {"}", "]"} /\ Return /\ Peek
           /\ lastWasComma' = FALSE /\ UNCHANGED <<treeVars, callVars>>
  <2>1. UNCHANGED <<partial, atom, start>> /\ UNCHANGED <<streamVars, next>> /\ ~lastWasComma'
    BY <1>9 DEF treeVars, callVars, Peek
  <2>2. Taken' = Taken /\ data' = data /\ next' = next
    BY <2>1, Stays
  <2>3. Head(stack') = stack[2] /\ Place' = stack[2]
    <3>1. Head(stack') = stack[2]
      BY <1>0, <1>2, <1>9, ReturnPlace
    <3> QED
      BY <1>2, <3>1 DEF Place
  <2>4. Is(t, D, F, o, k, j)'
    BY <1>3, <2>1, <2>2, IsStays
  <2>5. White(data, j + 1, Taken)' /\ Lost'
    BY <1>3, <1>9, <2>2 DEF Lost
  <2>6. k \in start' + 1..Taken' /\ j \in start' + 1..Taken'
    BY <1>0, <2>1, <2>2
  <2>7. ValueKnown(t, D, F, o)'
    <3>1. Place' \notin {"exprEnd", "rootEnd"}
      BY <1>2, <2>3
    <3> QED
      BY <2>1, <2>4, <2>5, <2>6, <3>1, Zenon DEF ValueKnown
  <2>8. Place' \in {"exprEnd", "rootEnd", "objAdd", "arrAdd"} /\ Place' \notin {"expr", "lit"}
        /\ Head(stack') \notin {"str", "lit", "natural"}
    BY <1>2, <2>3
  <2>9. Shown'
    BY <1>1, <1>4, <2>1, NothingShown DEF Skipped
  <2>10. ShownNumber' /\ ShownValue'
    BY <2>8, NothingShown
  <2>11. Known(t, D, F, o)'
    BY <2>7, <2>8, <2>9, <2>10, KnownIs
  <2> QED
    BY <1>7, <2>1, <2>11, AlongStays
<1> QED
  BY <1>6, <1>8, <1>9

\* White space is passed, or nothing is.
SpaceMoves == /\ UNCHANGED <<data, start, partial, text, atom, lastWasComma>>
              /\ Taken \in Nat /\ start \in Nat /\ start <= Taken
              /\ \/ Taken' = Taken /\ next' = next
                 \/ Taken' = Taken + 1 /\ isWhiteSpace(data[Taken + 1]) /\ isWhiteSpace(next)

\* White space behind something stays white space.
LEMMA SpaceMore ==
  ASSUME SpaceMoves
  PROVE  /\ Taken' \in Nat /\ Taken <= Taken' /\ start' = start /\ data' = data
         /\ \A j \in start + 1..Taken : j \in start' + 1..Taken'
         /\ \A j \in start + 1..Taken : White(data, j + 1, Taken) => White(data, j + 1, Taken)'
         /\ \A j \in Nat : j <= Taken /\ CommaTo(j) => CommaTo(j)'
<1>1. /\ Taken' \in Nat /\ Taken <= Taken' /\ start' = start /\ data' = data /\ Taken \in Nat
      /\ (Taken' = Taken \/ (Taken' = Taken + 1 /\ isWhiteSpace(data[Taken + 1]))) /\ start \in Nat
  BY DEF SpaceMoves
<1>2. \A j \in start + 1..Taken : j \in start' + 1..Taken'
  BY <1>1
<1>3. PICK n \in Nat, m \in Nat : n = Taken /\ m = Taken'
  BY <1>1
<1>4. m = n \/ (m = n + 1 /\ isWhiteSpace(data[n + 1]))
  BY <1>1, <1>3
<1>5. ASSUME NEW j \in start + 1..Taken, White(data, j + 1, Taken)
      PROVE  White(data, j + 1, Taken)'
  <2>1. j \in Int /\ n \in Int /\ White(data, j + 1, n)
    BY <1>1, <1>3, <1>5
  <2>2. White(data, j + 1, m)
    <3>1. White(data, j + 1, n + 1) \/ m = n
      BY <1>4, <2>1, WhiteMore
    <3> QED
      BY <1>4, <2>1, <3>1
  <2> QED
    BY <1>1, <1>3, <2>2
<1>6. ASSUME NEW j \in Nat, j <= Taken, CommaTo(j)
      PROVE  CommaTo(j)'
  <2>1. Between(data, j, ",", n + 1)
    BY <1>3, <1>6, Zenon DEF CommaTo
  <2>2. Between(data, j, ",", m + 1)
    <3>1. j \in Int /\ n + 1 \in Int
      BY <1>1
    <3>2. CASE m = n
      BY <2>1, <3>2, Zenon
    <3>3. CASE m = n + 1 /\ isWhiteSpace(data[n + 1])
      <4>1. Between(data, j, ",", (n + 1) + 1)
        BY <2>1, <3>1, <3>3, BetweenMore
      <4> QED
        BY <3>3, <4>1, Zenon
    <3> QED
      BY <1>4, <3>2, <3>3, Zenon
  <2> QED
    BY <1>1, <1>3, <2>2, Zenon DEF CommaTo
<1> QED
  BY <1>1, <1>2, <1>5, <1>6

\* Before white space and behind it a value may begin.
LEMMA PlaceMoves ==
  ASSUME SpaceMoves, NEW F, NEW o, ContainersOK(F, o), Len(partial) \in Nat,
         partial # <<>> => Len(partial) > 0, partial # <<>>, Begins(o, Taken + 1)
  PROVE  Begins(o, Taken + 1)'
<1>1. /\ Taken \in Nat /\ Taken' \in Nat /\ start \in Nat
      /\ UNCHANGED <<data, start, partial>>
  BY SpaceMore DEF SpaceMoves
<1>2. PICK n \in Nat, m \in Nat : n = Taken /\ m = Taken'
  BY <1>1
<1>3. m = n \/ (m = n + 1 /\ isWhiteSpace(data[n + 1]))
  BY <1>2 DEF SpaceMoves
<1>4. Begins(o, n + 1) /\ n + 1 \in Int
  BY <1>2
<1>5. isWhiteSpace(data[n + 1]) => Begins(o, (n + 1) + 1)
  BY <1>1, <1>4, SlotsMove
<1>6. Begins(o, m + 1)
  BY <1>3, <1>4, <1>5, Zenon
<1>7. Begins(o, m + 1)'
  <2>1. PICK k : k = m + 1
    OBVIOUS
  <2>2. Begins(o, k)'
    BY <1>1, <1>6, <2>1, SameSlots
  <2> QED
    BY <2>1, <2>2
<1> QED
  BY <1>2, <1>7

\* What is known while white space is skipped.
LEMMA SpaceAlong ==
  ASSUME CommaInv, FramesInv, Parsing, NEW t, NEW D, Viable(t, D), NEW F, NEW o,
         Along(t, D, F, o), Head(stack) = "skip", Place' = Place, SpaceMoves,
         PartOK(F, o)', Shown', ShownNumber', ShownValue'
  PROVE  Along(t, D, F, o)'
<1>0. /\ PartOK(F, o) /\ Here(F, o) /\ Known(t, D, F, o) /\ ContainersOK(F, o)
      /\ stack \in Seq(Labels) /\ StackOK /\ stack # <<>>
      /\ Taken \in Nat /\ start \in Nat /\ start <= Taken /\ Len(partial) \in Nat
      /\ (partial # <<>> => Len(partial) > 0)
  BY AlongFacts
<1>1. Place \in {"objLoop", "arrLoop", "exprEnd", "rootEnd", "strDone", "objKey",
                 "numDone", "litDone", "expr", "objAdd", "arrAdd"}
  BY <1>0, SkipPlaces, BelowValues
<1>2. UNCHANGED <<data, start, partial, text, atom, lastWasComma>>
  BY DEF SpaceMoves
<1>3. SUFFICES Known(t, D, F, o)'
  BY <1>2, AlongStays
<1>4. CASE Place \in {"strDone", "objKey"}
  BY <1>4, KnownIs DEF QuietPlaces
<1>5. CASE Place = "expr"
  <2>1. partial # <<>> /\ Begins(o, Taken + 1)
    BY <1>0, <1>5 DEF Here, AtExpression, Known, Expected
  <2>2. Begins(o, Taken + 1)'
    BY <1>0, <2>1, PlaceMoves
  <2> QED
    BY <1>5, <2>2, KnownIs
<1>6. CASE Place \in Loops
  <2>1. AfterItem(o)'
    <3>1. SUFFICES ASSUME lastWasComma PROVE o[1].from < o[1].to /\ CommaTo(o[1].to)'
      BY <1>2 DEF AfterItem
    <3>2. o[1].from < o[1].to /\ CommaTo(o[1].to) /\ partial # <<>>
      BY <1>0, <1>6, <3>1 DEF Known, AfterItem, Here, AtLoop
    <3>3. o[1].to \in Nat /\ o[1].to <= Taken
      BY <1>0, <3>2, InnermostSpan
    <3>4. PICK p \in Nat : p = o[1].to
      BY <3>3
    <3>5. CommaTo(p)'
      BY <3>2, <3>3, <3>4, SpaceMore
    <3> QED
      BY <3>2, <3>4, <3>5
  <2> QED
    BY <1>6, <2>1, KnownIs
<1>7. CASE Place \in {"exprEnd", "rootEnd"}
  <2>1. PICK k, j \in start + 1..Taken : Is(t, D, F, o, k, j) /\ White(data, j + 1, Taken)
    BY <1>0, <1>7 DEF Known, ValueKnown
  <2>2. Is(t, D, F, o, k, j)'
    BY <1>2, <2>1, IsStays
  <2>3. White(data, j + 1, Taken)' /\ k \in start' + 1..Taken' /\ j \in start' + 1..Taken'
    BY <2>1, SpaceMore
  <2>4. ValueKnown(t, D, F, o)'
    BY <1>7, <2>2, <2>3 DEF ValueKnown
  <2> QED
    BY <1>7, <2>4, KnownIs
<1>8. CASE Place \in {"objAdd", "arrAdd"}
  <2>1. PICK k, j \in start + 1..Taken :
          /\ Is(t, D, F, o, k, j)
          /\ lastWasComma => CommaTo(j)
          /\ ~lastWasComma => White(data, j + 1, Taken) /\ Lost
    BY <1>0, <1>8 DEF Known, ValueKnown
  <2>2. Is(t, D, F, o, k, j)'
    BY <1>2, <2>1, IsStays
  <2>3. k \in start' + 1..Taken' /\ j \in start' + 1..Taken' /\ j \in Nat /\ j <= Taken
    BY <1>0, SpaceMore
  <2>4. lastWasComma' => CommaTo(j)'
    BY <1>2, <2>1, <2>3, SpaceMore
  <2>5. ~lastWasComma' => White(data, j + 1, Taken)' /\ Lost'
    <3>1. Lost => next' = next
      BY NotWhite DEF SpaceMoves, Lost
    <3> QED
      BY <1>2, <2>1, <3>1, SpaceMore DEF Lost
  <2>6. ValueKnown(t, D, F, o)'
    BY <1>8, <2>2, <2>3, <2>4, <2>5 DEF ValueKnown
  <2> QED
    BY <1>8, <2>6, KnownIs
<1>9. CASE Place \in {"numDone", "litDone"}
  <2>1. ASSUME NEW tree, ReadScalar(t, D, o, tree)
        PROVE  ReadScalar(t, D, o, tree)'
    <3>1. PICK q, r \in start + 1..Taken :
            /\ q <= r /\ Begins(o, q) /\ text = SubSeq(data, q, r) /\ White(data, r + 1, Taken)
            /\ StartsValue(data[q]) /\ Means(t, D, q, r, tree)
            /\ tree[1] # "literal" => NumberAt(data, q, r)
      BY <2>1 DEF ReadScalar
    <3>2. Begins(o, q)' /\ Means(t, D, q, r, tree)'
      BY <1>2, <3>1, SameSlots, MeansStays
    <3>3. White(data, r + 1, Taken)' /\ q \in start' + 1..Taken' /\ r \in start' + 1..Taken'
      BY <3>1, SpaceMore
    <3> QED
      BY <1>2, <3>1, <3>2, <3>3 DEF ReadScalar
  <2>2. PICK tree, lit : tree = <<NumberSort(text), text>> /\ lit = <<"literal", text>>
    OBVIOUS
  <2>3. /\ Place = "numDone" => ReadScalar(t, D, o, tree)
        /\ Place = "litDone" => ReadScalar(t, D, o, lit)
    BY <1>0, <2>2 DEF Known, ScalarKnown
  <2>4. /\ Place' = "numDone" => ReadScalar(t, D, o, tree)'
        /\ Place' = "litDone" => ReadScalar(t, D, o, lit)'
    BY <2>1, <2>3
  <2>5. text' = text
    BY <1>2
  <2>6. ScalarKnown(t, D, o)'
    BY <2>2, <2>4, <2>5, Zenon DEF ScalarKnown, ReadScalar
  <2> QED
    BY <1>9, <2>6, KnownIs
<1> QED
  BY <1>1, <1>4, <1>5, <1>6, <1>7, <1>8, <1>9 DEF Loops

\* skipWhite() passes a character, or returns.
LEMMA SkipAlong ==
  ASSUME CommaInv, FramesInv, Parsing, NEW t, NEW D, Viable(t, D), NEW F, NEW o,
         Along(t, D, F, o), skipWhite
  PROVE  Along(t, D, F, o)'
<1>0. /\ PartOK(F, o) /\ Known(t, D, F, o) /\ stack \in Seq(Labels) /\ StackOK /\ stack # <<>>
      /\ Taken \in Nat /\ start \in Nat /\ start <= Taken
  BY AlongFacts
<1>1. Head(stack) = "skip"
  BY DEF skipWhite, At
<1>2. /\ Place = stack[2] /\ Place \in Below("skip") /\ Head(stack) \notin Roots
      /\ Place # "lit"
  BY <1>0, <1>1, SkipPlaces
<1>3. Place \in {"objLoop", "arrLoop", "exprEnd", "rootEnd", "strDone", "objKey",
                 "numDone", "litDone", "expr", "objAdd", "arrAdd"}
  BY <1>2, BelowValues
<1>4. PartOK(F, o)'
  BY <1>0, SkipOK, SteadyIsOK
<1>5. Place = "expr" => ~(partial # <<>> /\ partial[1].type = "array")
  BY <1>0, <1>1, Zenon DEF Known, ShownValue
<1>6. CASE /\ ~AtEOF /\ isWhiteSpace(next)
           /\ nextChar /\ UNCHANGED <<lastWasComma, stack, treeVars, callVars>>
  <2>1. UNCHANGED <<lastWasComma, stack, text, partial, atom, start>>
    BY <1>6 DEF treeVars, callVars
  <2>2. Head(stack') = "skip" /\ Place' = Place
    BY <1>1, <2>1 DEF Place
  <2>3. SpaceMoves
    <3>1. Taken' = Taken + 1 /\ next = data[Taken + 1] /\ data' = data
      BY <1>0, <1>6, Passes DEF Passed
    <3> QED
      BY <1>0, <1>6, <2>1, <3>1 DEF SpaceMoves
  <2>4. Shown' /\ ShownNumber'
    BY <2>2, NothingShown DEF Skipped
  <2>5. ShownValue'
    BY <1>2, <1>5, <2>1, <2>2, Zenon DEF ShownValue
  <2> QED
    BY <1>1, <1>4, <2>2, <2>3, <2>4, <2>5, SpaceAlong
<1>7. CASE ~(~AtEOF /\ isWhiteSpace(next)) /\ Jump(<<>>)
  <2>1. /\ UNCHANGED <<lastWasComma, text, partial, atom, start>> /\ Goto(<<>>)
        /\ UNCHANGED <<streamVars, next>>
    BY <1>7 DEF treeVars, callVars, Jump, Peek
  <2>2. Head(stack') = stack[2] /\ Place' = Place
    <3>1. Head(stack') = stack[2]
      BY <1>0, <1>2, <2>1, ReturnPlace
    <3> QED
      BY <1>2, <1>3, <3>1 DEF Place
  <2>3. SpaceMoves
    BY <1>0, <2>1, Stays DEF SpaceMoves
  <2>4. Shown'
    <3>1. AtEOF' = AtEOF
      BY <2>1 DEF AtEOF, streamVars
    <3> QED
      BY <1>7, <2>1, <3>1 DEF Shown
  <2>5. Head(stack') \notin {"str", "lit", "natural"}
    BY <1>2, <1>3, <2>2
  <2>6. ShownNumber'
    BY <2>5, NothingShown
  <2>7. ShownValue'
    BY <1>2, <1>5, <2>1, <2>2, <2>5, Zenon DEF ShownValue
  <2> QED
    BY <1>1, <1>4, <2>2, <2>3, <2>4, <2>6, <2>7, SpaceAlong
<1> QED
  BY <1>6, <1>7 DEF skipWhite

\* The colon that D has behind a key is there.
LEMMA ColonDue ==
  ASSUME CommaInv, FramesInv, Parsing, NEW t, NEW D, Viable(t, D), NEW F, NEW o,
         Along(t, D, F, o), Head(stack) = "objKey", ~AtEOF
  PROVE  next = ":"
<1>0. /\ Here(F, o) /\ Known(t, D, F, o) /\ start \in Nat /\ Taken \in Nat /\ Taken <= pos
      /\ pos \in Nat /\ Agree(data, t, pos) /\ pos = Taken + 1 /\ next = t[Taken + 1]
  BY AlongFacts
<1>1. Place = "objKey" /\ ~isWhiteSpace(next)
  BY <1>0 DEF Place, Known, Shown, Skipped
<1>2. PICK q, r \in start + 1..Taken :
        KeyBegins(o, q) /\ StringAt(data, q, r) /\ White(data, r + 1, Taken)
  BY <1>0, <1>1 DEF Here, ReadString
<1>3. /\ q \in Nat /\ r \in Nat /\ q <= pos /\ q >= 1 /\ r <= pos /\ r <= Taken
      /\ q \in Int /\ r \in Int /\ pos \in Int
  BY <1>0
<1>4. data[q] = "quote" /\ ~isWhiteSpace(data[q]) /\ data[q] # Closing("object")
  <2>1. data[q] = "quote"
    BY <1>2 DEF StringAt
  <2> QED
    BY <2>1, StartingChars
<1>5. \E n \in Nat, k \in Nat : StringAt(t, q, n) /\ Between(t, n, ":", k)
  BY <1>2, <1>3, <1>4, DueKey
<1>6. PICK n \in Nat, k \in Nat : StringAt(t, q, n) /\ Between(t, n, ":", k)
  BY <1>5
<1>7. n = r
  <2>1. StringAt(t, q, r)
    BY <1>0, <1>2, <1>3, AgreeString
  <2> QED
    BY <1>3, <1>6, <2>1, StringEnd
<1>8. PICK m \in r + 1..k - 1 : t[m] = ":" /\ White(t, r + 1, m - 1)
  BY <1>6, <1>7 DEF Between
<1>9. ~isWhiteSpace(t[m]) /\ ~isWhiteSpace(t[Taken + 1])
  BY <1>0, <1>1, <1>8, NotWhite
<1>10. White(t, r + 1, Taken)
  <2>1. /\ pos \in Int /\ r + 1 \in Int /\ Taken \in Int /\ r + 1 >= 1 /\ Taken <= pos
    BY <1>0, <1>3
  <2> QED
    BY <1>0, <1>2, <2>1, AgreeRun DEF White
<1>11. m = Taken + 1
  <2>1. White(t, r + 1, m - 1)
    BY <1>8
  <2>2. Taken \in Nat /\ r \in Nat /\ r <= Taken /\ m \in Int /\ r + 1 <= m
    BY <1>0, <1>3, <1>6
  <2>4. /\ r + 1 \in Int /\ m \in Int /\ Taken + 1 \in Int /\ r + 1 <= m /\ r + 1 <= Taken + 1
        /\ (Taken + 1) - 1 = Taken
    BY <2>2
  <2> QED
    BY <1>9, <1>10, <2>1, <2>4, WhiteEnd
<1> QED
  BY <1>0, <1>8, <1>11, Zenon

\* object() has a key and calls expression().
LEMMA ObjectKeyAlong ==
  ASSUME CommaInv, FramesInv, Parsing, NEW t, NEW D, Viable(t, D), NEW F, NEW o,
         Along(t, D, F, o), ObjectKey
  PROVE  Along(t, D, F, o)'
<1>0. /\ PartOK(F, o) /\ Follows(t, D, o) /\ stack \in Seq(Labels) /\ StackOK /\ stack # <<>>
  BY AlongFacts
<1>1. Head(stack) = "objKey" /\ ~AtEOF
  BY DEF ObjectKey, On, At
<1>2. Goto(<<"skip">>)
  BY <1>1, ColonDue DEF ObjectKey
<1>3. Head(stack') = "skip" /\ Place' = "expr"
  <2>1. Head(stack) \notin Roots /\ Below(Head(stack)) = {"expr"} /\ {"expr"} \subseteq Below("skip")
    BY <1>1, BelowValues DEF Roots
  <2>2. stack[2] = "expr"
    BY <1>0, <2>1, UnderHead
  <2> QED
    BY <1>0, <1>2, <2>1, <2>2, PlaceAfter
<1>4. /\ PartOK(F, o)' /\ Begins(o, Taken + 1)' /\ partial[1].type = "object"
      /\ partial'[1].type = "object" /\ partial'[1].items = partial[1].items
      /\ partial # <<>> /\ Len(partial') = Len(partial)
      /\ \A n \in 1..Len(partial) : n # 1 => partial'[n] = partial[n]
  <2>1. ~Throw("BAD_JSON")
    BY <1>3, AfterThrow
  <2> QED
    BY <1>0, <2>1, ObjectKeyOK
<1>5. Follows(t, D, o)'
  <2>1. \A n \in 1..Len(partial) :
          partial'[n].type = partial[n].type /\ partial'[n].items = partial[n].items
    BY <1>4
  <2> QED
    BY <1>0, <1>4, <2>1, FollowsStays
<1>6. ShownValue'
  <2>1. partial'[1].type # "array"
    BY <1>4
  <2> QED
    BY <1>3, <2>1 DEF ShownValue
<1>7. Shown' /\ ShownNumber'
  BY <1>3, NothingShown DEF Skipped
<1>8. Known(t, D, F, o)'
  BY <1>3, <1>4, <1>6, <1>7, KnownIs
<1> QED
  BY <1>4, <1>5, <1>8 DEF Along

\* The item in atom is added as D has it.
LEMMA AddAlong ==
  ASSUME CommaInv, FramesInv, Parsing, NEW t, NEW D, Viable(t, D), NEW F, NEW o,
         Along(t, D, F, o), ObjectAdd \/ ArrayAdd
  PROVE  \E G, p : Along(t, D, G, p)'
<1>0. /\ PartOK(F, o) /\ Follows(t, D, o) /\ Known(t, D, F, o) /\ ContainersOK(F, o)
      /\ stack \in Seq(Labels) /\ StackOK /\ stack # <<>>
      /\ Taken \in Nat /\ start \in Nat /\ start <= Taken /\ Taken <= pos /\ pos \in Nat
      /\ t \in Seq(Char) /\ Derivation(t, D) /\ Agree(data, t, pos) /\ Len(partial) \in Nat
  BY AlongFacts
<1>1. /\ Head(stack) \in {"objAdd", "arrAdd"} /\ Place = Head(stack) /\ Return
      /\ UNCHANGED <<streamVars, lastWasComma, start>>
  BY DEF ObjectAdd, ArrayAdd, At, Place, callVars, parserVars
<1>2. partial # <<>> /\ 1 \in 1..Len(partial)
  BY <1>0, <1>1, InnermostContainer
<1>3. PICK k, j \in start + 1..Taken :
        /\ Is(t, D, F, o, k, j)
        /\ lastWasComma => CommaTo(j)
        /\ ~lastWasComma => White(data, j + 1, Taken) /\ Lost
  BY <1>0, <1>1 DEF Known, ValueKnown
<1>4. ItemAt(F, o, k, j) /\ Begins(o, k) /\ k <= j
  BY <1>3 DEF ItemAt, Is, CommaTo, ReadValue
<1>5. /\ Len(partial') = Len(partial) /\ partial'[1].type = partial[1].type
      /\ partial'[1].items = Extended(partial[1].type, partial[1].items, partial[1].key, atom)
      /\ \A n \in 1..Len(partial) : n # 1 => partial'[n] = partial[n]
  BY <1>0, <1>4, AddsOK
<1>6. PICK G, p : p = [o EXCEPT ![1] = [from |-> o[1].from, to |-> j]] /\ PartOK(G, p)'
  BY <1>0, <1>4, AddsOK
<1>7. /\ o[1].from \in Nat /\ o[1].to \in Nat /\ start < o[1].from /\ o[1].from <= o[1].to
      /\ o \in Seq(Spans) /\ Len(o) = Len(partial)
      /\ \E e \in Nat : \E tree : Whole(o[1].from, e, tree) \in D
      /\ \A e, tree : Whole(o[1].from, e, tree) \in D =>
           e \in Nat /\ Leads(t, D, Begun(o[1].from, o[1].to, <<partial[1].type, partial[1].items>>), e, tree)
  BY <1>2, InnermostLeads
<1>8. PICK s : s = [from |-> o[1].from, to |-> j]
  OBVIOUS
<1>9. p[1].from = o[1].from /\ p[1].to = j /\ \A n \in 1..Len(o) : n # 1 => p[n] = o[n]
  <2>1. p = [o EXCEPT ![1] = s]
    BY <1>6, <1>8
  <2>2. p[1] = s /\ \A n \in 1..Len(o) : n # 1 => p[n] = o[n]
    BY <1>2, <1>7, <2>1, ExceptFirst
  <2>3. s.from = o[1].from /\ s.to = j
    BY <1>8
  <2> QED
    BY <2>2, <2>3
<1>10. /\ Stopped(t, j) /\ Whole(k, j, atom) \in D /\ k \in Nat /\ j \in Nat /\ k <= pos
       /\ StartsValue(data[k]) /\ Means(t, D, k, j, atom) /\ k # start + 1
  BY <1>0, <1>2, <1>3, ValueEnds DEF Is
<1>11. SlotAt(data, partial[1].type, partial[1].key, o[1].from, o[1].to, k)
  BY <1>2, <1>4 DEF Begins
<1>12. o[1].to < k
  BY <1>7, <1>10, <1>11, SlotAhead
<1>13. ASSUME NEW e, NEW tree, Whole(o[1].from, e, tree) \in D
       PROVE  Leads(t, D, Begun(o[1].from, j, <<partial'[1].type, partial'[1].items>>), e, tree)
  <2>0. PICK i \in Nat, l \in Nat : i = o[1].from /\ l = o[1].to
    BY <1>7
  <2>1. PICK type, items, key : type = partial[1].type /\ items = partial[1].items
                                /\ key = partial[1].key
    OBVIOUS
  <2>2. e \in Nat /\ Leads(t, D, Begun(i, l, <<type, items>>), e, tree) /\ i <= l
    BY <1>7, <1>13, <2>0, <2>1
  <2>3. SlotAt(t, type, key, i, l, k)
    <3>1. /\ pos \in Int /\ i \in Int /\ l \in Int /\ i >= 0 /\ l >= 0 /\ k \in Int /\ k - 1 <= pos
      BY <1>0, <1>10
    <3>2. SlotAt(data, type, key, i, l, k)
      BY <1>11, <2>0, <2>1
    <3> QED
      BY <1>0, <3>1, <3>2, AgreeSlot
  <2>4. t[k] = data[k]
    <3>1. k \in 1..pos
      BY <1>0, <1>10
    <3> QED
      BY <1>0, <3>1 DEF Agree
  <2>5. ~isWhiteSpace(t[k]) /\ (type = "array" => t[k] # Closing(type))
    BY <1>10, <2>4, StartingChars
  <2>6. \E r \in Nat : \E b :
          /\ k <= r /\ Whole(k, r, b) \in D /\ Stopped(t, r)
          /\ Leads(t, D, Begun(i, r, <<type, Extended(type, items, key, b)>>), e, tree)
    BY <1>0, <1>10, <2>2, <2>3, <2>5, NextValue
  <2>7. PICK r \in Nat : \E b :
          /\ k <= r /\ Whole(k, r, b) \in D /\ Stopped(t, r)
          /\ Leads(t, D, Begun(i, r, <<type, Extended(type, items, key, b)>>), e, tree)
    BY <2>6
  <2>8. PICK b :
          /\ Whole(k, r, b) \in D /\ Stopped(t, r)
          /\ Leads(t, D, Begun(i, r, <<type, Extended(type, items, key, b)>>), e, tree)
    BY <2>7
  <2>9. r = j /\ b = atom
    BY <1>10, <2>8 DEF Means, Stands
  <2> QED
    BY <1>5, <2>0, <2>1, <2>8, <2>9
<1>14. Follows(t, D, p)'
  <2>1. ASSUME NEW n \in 1..Len(partial')
        PROVE  /\ \E e, tree : Whole(p[n].from, e, tree) \in D
               /\ \A e, tree : Whole(p[n].from, e, tree) \in D =>
                    Leads(t, D, Begun(p[n].from, p[n].to, <<partial'[n].type, partial'[n].items>>), e, tree)
    <3>1. CASE n = 1
      <4>1. \A e, tree : Whole(p[n].from, e, tree) \in D =>
              Leads(t, D, Begun(p[n].from, p[n].to, <<partial'[n].type, partial'[n].items>>), e, tree)
        BY <1>9, <1>13, <3>1
      <4> QED
        BY <1>7, <1>9, <3>1, <4>1
    <3>2. CASE n # 1
      <4>1. p[n] = o[n] /\ partial'[n] = partial[n] /\ n \in 1..Len(partial)
        BY <1>5, <1>7, <1>9, <3>2
      <4> QED
        BY <1>0, <4>1 DEF Follows
    <3> QED
      BY <3>1, <3>2
  <2> QED
    BY <2>1 DEF Follows
<1>15. Place' \in Loops /\ Head(stack') = Place'
  <2>1. Head(stack) \notin Roots /\ Below(Head(stack)) \subseteq Loops
    BY <1>1, BelowValues DEF Roots, Loops
  <2>2. Head(stack') = stack[2] /\ stack[2] \in Loops
    BY <1>0, <1>1, <2>1, ReturnPlace, UnderHead
  <2> QED
    BY <2>2 DEF Place, Loops
<1>16. AfterItem(p)'
  <2>1. Taken' = Taken /\ data' = data
    BY <1>1, Stays
  <2>2. PICK i : i = j
    OBVIOUS
  <2>3. CommaTo(i)' <=> CommaTo(i)
    BY <2>1 DEF CommaTo
  <2>4. o[1].from < j
    BY <1>4, <1>7, <1>10, <1>12
  <2>5. lastWasComma' => CommaTo(i)'
    BY <1>1, <1>3, <2>2, <2>3
  <2> QED
    BY <1>9, <2>2, <2>4, <2>5 DEF AfterItem
<1>17. Shown' /\ ShownNumber' /\ ShownValue'
  <2>1. Shown /\ Head(stack) \in Skipped
    BY <1>0, <1>1 DEF Known, Skipped
  <2>2. UNCHANGED <<streamVars, next>>
    BY DEF ObjectAdd, ArrayAdd, parserVars
  <2>3. Head(stack') \notin {"str", "lit", "natural"} /\ Place' \notin {"expr", "lit"}
    BY <1>15 DEF Loops
  <2> QED
    BY <2>1, <2>2, <2>3, NothingShown
<1>18. Known(t, D, G, p)'
  BY <1>15, <1>16, <1>17, KnownIs
<1>19. Along(t, D, G, p)'
  BY <1>6, <1>14, <1>18 DEF Along
<1> QED
  BY <1>19

\* At m the container goes on behind an item that ends at p, or ends.
GoesOnAt(t, type, p, m) ==
  p < m /\ White(t, p + 1, m - 1) /\ (t[m] = "," \/ t[m] = Closing(type))

\* Behind the last item so far a container goes on with a comma, or ends.
LEMMA CommaOrEnd ==
  ASSUME NEW t, NEW D, NEW i \in Nat, NEW p \in Nat, i # p, NEW type, NEW items, NEW e \in Nat, NEW tree,
         Leads(t, D, Begun(i, p, <<type, items>>), e, tree)
  PROVE  \E m \in Nat : GoesOnAt(t, type, p, m)
<1>1. PICK f : f = Begun(i, p, <<type, items>>) /\ Leads(t, D, f, e, tree)
  OBVIOUS
<1>2. f[2] = i /\ f[3] = p /\ f[4] = <<type, items>> /\ f[4][1] = type
  BY <1>1 DEF Begun
<1>3. Ends(t, f, e, tree) \/ \E h \in D : Adds(t, D, f, h)
  BY <1>1, LeadsOn
<1>4. CASE Ends(t, f, e, tree)
  <2>1. tree[1] = type
    BY <1>1, <1>4 DEF Ends, Begun
  <2> QED
    BY <1>2, <1>4, <2>1 DEF Ends, GoesOnAt
<1>5. ASSUME NEW k, NextAt(t, i, p, k)
      PROVE  \E m \in Nat : p < m /\ White(t, p + 1, m - 1) /\ t[m] = ","
  <2>1. Between(t, p, ",", k)
    BY <1>5 DEF NextAt
  <2>2. PICK m \in p + 1..k - 1 : t[m] = "," /\ White(t, p + 1, m - 1)
    BY <2>1 DEF Between
  <2>3. m \in Nat /\ p < m
    OBVIOUS
  <2> QED
    BY <2>2, <2>3
<1>6. CASE \E h \in D : Adds(t, D, f, h)
  <2>1. PICK k, key : SlotAt(t, type, key, i, p, k)
    BY <1>2, <1>6 DEF Adds
  <2>2. \E q : NextAt(t, i, p, q)
    BY <2>1 DEF SlotAt
  <2> QED
    BY <1>5, <2>2 DEF GoesOnAt
<1> QED
  BY <1>3, <1>4, <1>6

\* What is known at the head of the loops.
LEMMA LoopKnown ==
  ASSUME CommaInv, FramesInv, Parsing, NEW t, NEW D, Viable(t, D), NEW F, NEW o,
         Along(t, D, F, o), Head(stack) \in Loops, ~AtEOF
  PROVE  /\ Place = Head(stack) /\ partial # <<>> /\ ~isWhiteSpace(next) /\ Shown
         /\ partial[1].type \in {"object", "array"}
         /\ ~lastWasComma => White(data, o[1].to + 1, Taken)
         /\ NextAt(data, o[1].from, o[1].to, Taken + 1) \/ Lost
         /\ lastWasComma => o[1].from # o[1].to /\ NextAt(data, o[1].from, o[1].to, Taken + 1)
<1>0. /\ Here(F, o) /\ Known(t, D, F, o) /\ Taken \in Nat /\ partial \in Seq(Container)
  BY AlongFacts
<1>1. Place = Head(stack)
  BY DEF Place, Loops
<1>2. AtLoop(o) /\ AfterItem(o) /\ Shown
  BY <1>0, <1>1 DEF Here, Known
<1>3. partial # <<>> /\ ~isWhiteSpace(next)
  BY <1>2 DEF AtLoop, Shown, Skipped, Loops
<1>4. partial[1].type \in {"object", "array"}
  <2>1. 1 \in 1..Len(partial)
    BY <1>3, InnermostLeads
  <2>2. partial[1] \in Container
    BY <1>0, <2>1
  <2> QED
    BY <2>2 DEF Container
<1>5. lastWasComma => o[1].from # o[1].to /\ NextAt(data, o[1].from, o[1].to, Taken + 1)
  <2>1. SUFFICES ASSUME lastWasComma
                 PROVE  o[1].from # o[1].to /\ NextAt(data, o[1].from, o[1].to, Taken + 1)
    OBVIOUS
  <2>2. o[1].from < o[1].to /\ CommaTo(o[1].to)
    BY <1>1, <1>2, <2>1 DEF AfterItem
  <2>3. o[1].from \in Nat /\ o[1].to \in Nat
    BY <1>3, InnermostLeads
  <2>4. PICK i \in Nat, p \in Nat, k \in Nat : i = o[1].from /\ p = o[1].to /\ k = Taken + 1
    BY <1>0, <2>3
  <2>5. Between(data, p, ",", k)
    BY <2>2, <2>4, Zenon DEF CommaTo
  <2>6. p # i
    BY <2>2, <2>4
  <2>7. NextAt(data, i, p, k)
    <3>1. i \in Int /\ p \in Int /\ k \in Int
      OBVIOUS
    <3> QED
      BY <2>5, <2>6, <3>1, NextAfterComma, Zenon
  <2> QED
    BY <2>4, <2>6, <2>7
<1> QED
  BY <1>1, <1>2, <1>3, <1>4, <1>5 DEF AtLoop

\* Where the bracket comes no comma came before it.
LEMMA NoCommaBeforeEnd ==
  ASSUME CommaInv, FramesInv, Parsing, NEW t, NEW D, Viable(t, D), NEW F, NEW o,
         Along(t, D, F, o), Head(stack) \in Loops, ~AtEOF, next = Closing(partial[1].type)
  PROVE  ~lastWasComma
<1>0. /\ Taken \in Nat /\ pos \in Nat /\ pos = Taken + 1 /\ Agree(data, t, pos)
      /\ t \in Seq(Char) /\ Derivation(t, D) /\ next = t[Taken + 1]
  BY AlongFacts
<1>1. SUFFICES ASSUME lastWasComma PROVE FALSE
  OBVIOUS
<1>2. /\ partial # <<>> /\ ~isWhiteSpace(next) /\ partial[1].type \in {"object", "array"}
      /\ o[1].from # o[1].to /\ NextAt(data, o[1].from, o[1].to, Taken + 1)
  BY <1>1, LoopKnown
<1>3. /\ o[1].from \in Nat /\ o[1].to \in Nat /\ o[1].from <= o[1].to
      /\ \E e \in Nat : \E tree : Whole(o[1].from, e, tree) \in D
      /\ \A e, tree : Whole(o[1].from, e, tree) \in D =>
           e \in Nat /\ Leads(t, D, Begun(o[1].from, o[1].to, <<partial[1].type, partial[1].items>>), e, tree)
  BY <1>2, InnermostLeads
<1>4. PICK e \in Nat : \E tree : Whole(o[1].from, e, tree) \in D
  BY <1>3
<1>5. PICK tree : Whole(o[1].from, e, tree) \in D
  BY <1>4
<1>6. PICK i \in Nat, p \in Nat, q \in Nat : i = o[1].from /\ p = o[1].to /\ q = Taken + 1
  BY <1>0, <1>3
<1>7. PICK type, items : type = partial[1].type /\ items = partial[1].items
  OBVIOUS
<1>8. Leads(t, D, Begun(i, p, <<type, items>>), e, tree) /\ i <= p /\ p # i
  BY <1>2, <1>3, <1>5, <1>6, <1>7
<1>9. NextAt(t, i, p, q)
  <2>1. /\ pos \in Int /\ i \in Int /\ p \in Int /\ i >= 0 /\ p >= 0 /\ q \in Int /\ q - 1 <= pos
    BY <1>0, <1>6
  <2>2. NextAt(data, i, p, q)
    BY <1>2, <1>6
  <2> QED
    BY <1>0, <2>1, <2>2, AgreeNext
<1>10. t[q] = Closing(type) /\ ~isWhiteSpace(t[q])
  BY <1>0, <1>2, <1>6, <1>7
<1>11. CASE type = "array"
  <2>1. SlotAt(t, type, <<>>, i, p, q)
    BY <1>9, <1>11 DEF SlotAt
  <2>2. \E r \in Nat : \E b :
          /\ q <= r /\ Whole(q, r, b) \in D /\ Stopped(t, r)
          /\ Leads(t, D, Begun(i, r, <<type, Extended(type, items, <<>>, b)>>), e, tree)
    BY <1>0, <1>8, <1>10, <2>1, NextValue
  <2>3. PICK r \in Nat : \E b : Whole(q, r, b) \in D
    BY <2>2
  <2>4. StartsValue(t[q])
    BY <1>0, <2>3, ValueStarts
  <2> QED
    BY <1>10, <1>11, <2>4, StartingChars
<1>12. CASE type = "object"
  <2>1. \E r \in Nat, k \in Nat : StringAt(t, q, r) /\ Between(t, r, ":", k) /\ ~isWhiteSpace(t[k])
    BY <1>0, <1>8, <1>9, <1>10, <1>12, NextKey
  <2>2. t[q] = "quote"
    BY <2>1 DEF StringAt
  <2> QED
    BY <1>10, <2>2, NotWhite
<1> QED
  BY <1>2, <1>7, <1>11, <1>12

\* Where no bracket comes an item does.
LEMMA ItemDue ==
  ASSUME CommaInv, FramesInv, Parsing, NEW t, NEW D, Viable(t, D), NEW F, NEW o,
         Along(t, D, F, o), Head(stack) \in Loops, ~AtEOF, next # Closing(partial[1].type)
  PROVE  NextAt(data, o[1].from, o[1].to, Taken + 1)
<1>0. /\ Taken \in Nat /\ pos \in Nat /\ pos = Taken + 1 /\ Agree(data, t, pos)
      /\ t \in Seq(Char) /\ Derivation(t, D) /\ next = t[Taken + 1]
  BY AlongFacts
<1>1. SUFFICES ASSUME ~lastWasComma PROVE NextAt(data, o[1].from, o[1].to, Taken + 1)
  BY LoopKnown
<1>2. /\ partial # <<>> /\ ~isWhiteSpace(next) /\ White(data, o[1].to + 1, Taken)
      /\ NextAt(data, o[1].from, o[1].to, Taken + 1) \/ Lost
  BY <1>1, LoopKnown
<1>3. /\ o[1].from \in Nat /\ o[1].to \in Nat /\ o[1].from <= o[1].to /\ o[1].to <= Taken
      /\ \E e \in Nat : \E tree : Whole(o[1].from, e, tree) \in D
      /\ \A e, tree : Whole(o[1].from, e, tree) \in D =>
           e \in Nat /\ Leads(t, D, Begun(o[1].from, o[1].to, <<partial[1].type, partial[1].items>>), e, tree)
  BY <1>2, InnermostLeads
<1>4. PICK e \in Nat : \E tree : Whole(o[1].from, e, tree) \in D
  BY <1>3
<1>5. PICK tree : Whole(o[1].from, e, tree) \in D
  BY <1>4
<1>6. PICK i \in Nat, p \in Nat, q \in Nat : i = o[1].from /\ p = o[1].to /\ q = Taken + 1
  BY <1>0, <1>3
<1>7. PICK type, items : type = partial[1].type /\ items = partial[1].items
  OBVIOUS
<1>8. Leads(t, D, Begun(i, p, <<type, items>>), e, tree) /\ i <= p /\ p < q /\ q - 1 = Taken
  BY <1>0, <1>3, <1>5, <1>6, <1>7
<1>9. CASE p = i
  <2>1. White(data, i + 1, q - 1)
    BY <1>2, <1>6, <1>8, <1>9
  <2>2. NextAt(data, i, p, q)
    BY <1>8, <1>9, <2>1 DEF NextAt
  <2> QED
    BY <1>6, <2>2
<1>10. CASE p # i
  <2>1. PICK m \in Nat : GoesOnAt(t, type, p, m)
    BY <1>8, <1>10, CommaOrEnd
  <2>2. White(t, p + 1, q - 1)
    <3>1. /\ pos \in Int /\ p + 1 \in Int /\ q - 1 \in Int /\ p + 1 >= 1 /\ q - 1 <= pos
      BY <1>0, <1>6
    <3>2. White(data, p + 1, q - 1)
      BY <1>2, <1>6, <1>8
    <3> QED
      BY <1>0, <3>1, <3>2, AgreeRun DEF White
  <2>3. ~isWhiteSpace(t[m]) /\ ~isWhiteSpace(t[q])
    BY <1>0, <1>2, <1>6, <2>1, NotWhite DEF GoesOnAt
  <2>4. m = q
    <3>1. White(t, p + 1, m - 1) /\ p < m
      BY <2>1 DEF GoesOnAt
    <3>2. p + 1 \in Int /\ m \in Int /\ q \in Int /\ p + 1 <= m /\ p + 1 <= q
      BY <1>8, <3>1
    <3> QED
      BY <2>2, <2>3, <3>1, <3>2, WhiteEnd
  <2>5. next = ","
    BY <1>0, <1>6, <1>7, <2>1, <2>4 DEF GoesOnAt
  <2>6. ~Lost
    BY <2>5 DEF Lost
  <2> QED
    BY <1>2, <2>6
<1> QED
  BY <1>9, <1>10

\* In D the value that begins at i ends at j.
EndsAt(D, i, j) == \A r, b : Whole(i, r, b) \in D => r = j

\* What is known of the innermost container where it ends.
LEMMA CloseMeans ==
  ASSUME CommaInv, FramesInv, Parsing, NEW t, NEW D, Viable(t, D), NEW F, NEW o,
         Along(t, D, F, o), Head(stack) \in Loops, ~AtEOF, next = Closing(partial[1].type),
         NEW i, i = o[1].from, NEW j, j = Taken + 1,
         NEW tree, tree = <<partial[1].type, partial[1].items>>
  PROVE  /\ i \in Nat /\ j \in Nat /\ start < i /\ i <= j /\ StartsValue(data[i]) /\ Means(t, D, i, j, tree)
         /\ EndsAt(D, i, j)
<1>0. /\ Taken \in Nat /\ pos \in Nat /\ pos = Taken + 1 /\ Agree(data, t, pos)
      /\ t \in Seq(Char) /\ Derivation(t, D) /\ next = t[Taken + 1] /\ Derivation(data, F)
      /\ ContainersOK(F, o) /\ start \in Nat /\ Len(partial) \in Nat
      /\ (partial # <<>> => Len(partial) > 0)
  BY AlongFacts
<1>1. partial # <<>> /\ ~isWhiteSpace(next) /\ White(data, o[1].to + 1, Taken)
  BY LoopKnown, NoCommaBeforeEnd
<1>2. /\ o[1].from \in Nat /\ o[1].to \in Nat /\ start < o[1].from
      /\ o[1].from <= o[1].to /\ o[1].to <= Taken
      /\ \A e, b : Whole(o[1].from, e, b) \in D =>
           e \in Nat /\ Leads(t, D, Begun(o[1].from, o[1].to, <<partial[1].type, partial[1].items>>), e, b)
  BY <1>1, InnermostLeads
<1>3. Begun(o[1].from, o[1].to, <<partial[1].type, partial[1].items>>) \in F
  BY <1>0, <1>1, InnermostSpan
<1>4. PICK p \in Nat : p = o[1].to
  BY <1>2
<1>5. i \in Nat /\ j \in Nat /\ start < i /\ i <= p /\ p < j /\ j - 1 = Taken /\ i <= j
  BY <1>0, <1>2, <1>4
<1>6. StartsValue(data[i])
  <2>1. Begun(i, p, tree) \in F
    BY <1>3, <1>4
  <2>2. data[i] = Opening(tree[1])
    BY <1>0, <2>1, BegunStarts
  <2> QED
    BY <2>2, StartingChars DEF Opening
<1>7. White(t, p + 1, j - 1) /\ t[j] = Closing(partial[1].type)
  <2>1. /\ pos \in Int /\ p + 1 \in Int /\ j - 1 \in Int /\ p + 1 >= 1 /\ j - 1 <= pos
    BY <1>0, <1>4, <1>5
  <2>2. White(data, p + 1, j - 1)
    BY <1>1, <1>4, <1>5
  <2>3. White(t, p + 1, j - 1)
    BY <1>0, <2>1, <2>2, AgreeRun DEF White
  <2> QED
    BY <1>0, <2>3
<1>8. ASSUME NEW r, NEW b, Whole(i, r, b) \in D
      PROVE  r = j /\ b = tree
  <2>1. PICK type, items : type = partial[1].type /\ items = partial[1].items
    OBVIOUS
  <2>3. r \in Nat /\ Leads(t, D, Begun(i, p, <<type, items>>), r, b)
    BY <1>2, <1>4, <1>8, <2>1
  <2>4. White(t, p + 1, j - 1) /\ t[j] = Closing(type)
    BY <1>7, <2>1
  <2>5. PICK c : c = <<type, items>>
    OBVIOUS
  <2>6. r = j /\ b = <<type, items>>
    <3>1. t \in Seq(Char) /\ Derivation(t, D)
      BY <1>0
    <3>2. i \in Nat /\ i <= p /\ j \in Nat /\ p < j
      BY <1>5
    <3> QED
      BY <2>3, <2>4, <3>1, <3>2, NextEnds, SMTT(30)
  <2> QED
    BY <2>1, <2>6
<1> QED
  BY <1>5, <1>6, <1>8 DEF Means, Stands, EndsAt

\* Behind a container white space is skipped, and it is an item or the root.
LEMMA AfterLoop ==
  ASSUME stack \in Seq(Labels), StackOK, stack # <<>>, Head(stack) \in Loops, Goto(<<"skip">>)
  PROVE  Head(stack') = "skip" /\ Place' \in {"exprEnd", "rootEnd"}
<1>1. Head(stack) \notin Roots /\ Below(Head(stack)) = {"exprEnd", "rootEnd"}
      /\ {"exprEnd", "rootEnd"} \subseteq Below("skip")
  BY BelowValues DEF Roots, Loops
<1>2. stack[2] \in {"exprEnd", "rootEnd"}
  BY <1>1, UnderHead
<1> QED
  BY <1>1, <1>2, PlaceAfter

\* The innermost container ends as D has it.
LEMMA CloseAlong ==
  ASSUME CommaInv, FramesInv, Parsing, NEW t, NEW D, Viable(t, D), NEW F, NEW o,
         Along(t, D, F, o), ObjectLoop \/ ArrayLoop, next = Closing(partial[1].type)
  PROVE  \E G, p : Along(t, D, G, p)'
<1>0. /\ PartOK(F, o) /\ Follows(t, D, o) /\ ContainersOK(F, o)
      /\ stack \in Seq(Labels) /\ StackOK /\ stack # <<>>
      /\ Taken \in Nat /\ start \in Nat /\ start <= Taken
      /\ partial \in Seq(Container) /\ Len(partial) \in Nat
  BY AlongFacts
<1>1. Head(stack) \in Loops /\ ~AtEOF /\ partial # <<>>
  BY <1>0, LoopsOK
<1>2. ~lastWasComma
  BY <1>1, NoCommaBeforeEnd
<1>3. /\ match /\ Goto(<<"skip">>) /\ partial' = Tail(partial) /\ UNCHANGED start
      /\ atom' = <<partial[1].type, partial[1].items>>
      /\ \E G, p, i : /\ p = Tail(o) /\ i = o[1].from /\ PartOK(G, p)' /\ Begins(p, i)'
                      /\ Whole(i, Taken + 1, <<partial[1].type, partial[1].items>>) \in G
  BY <1>0, <1>2, LoopsOK
<1>4. PICK G, p, i :
        /\ p = Tail(o) /\ i = o[1].from /\ PartOK(G, p)' /\ Begins(p, i)'
        /\ Whole(i, Taken + 1, <<partial[1].type, partial[1].items>>) \in G
  BY <1>3
<1>5. PICK j, tree : j = Taken + 1 /\ tree = <<partial[1].type, partial[1].items>>
  OBVIOUS
<1>6. /\ i \in Nat /\ j \in Nat /\ start < i /\ i <= j /\ StartsValue(data[i])
      /\ Means(t, D, i, j, tree) /\ Whole(i, j, tree) \in G
  BY <1>1, <1>4, <1>5, CloseMeans
<1>7. Taken' = Taken + 1 /\ data' = data
  BY <1>0, <1>1, <1>3, Passes DEF Passed, match
<1>8. Head(stack') = "skip" /\ Place' \in {"exprEnd", "rootEnd"}
  BY <1>0, <1>1, <1>3, AfterLoop
<1>9. Follows(t, D, p)'
  <2>1. /\ o \in Seq(Spans) /\ Len(o) = Len(partial) /\ 1 \in 1..Len(partial)
    BY <1>1, InnermostLeads
  <2>2. ASSUME NEW n \in 1..Len(partial')
        PROVE  n + 1 \in 1..Len(partial) /\ p[n] = o[n + 1] /\ partial'[n] = partial[n + 1]
    <3>1. Len(partial') = Len(partial) - 1
      BY <1>0, <1>1, <1>3
    <3>2. n + 1 \in 1..Len(partial) /\ n \in 1..Len(partial) - 1
      BY <1>0, <3>1
    <3>3. partial'[n] = partial[n + 1]
      BY <1>0, <1>1, <1>3, <3>1, <3>2
    <3>4. p[n] = o[n + 1]
      <4>1. o # <<>>
        BY <1>0, <2>1
      <4> QED
        BY <1>0, <1>4, <2>1, <3>2, <4>1
    <3> QED
      BY <3>2, <3>3, <3>4
  <2>3. ASSUME NEW n \in 1..Len(partial')
        PROVE  /\ \E e, b : Whole(p[n].from, e, b) \in D
               /\ \A e, b : Whole(p[n].from, e, b) \in D =>
                    Leads(t, D, Begun(p[n].from, p[n].to, <<partial'[n].type, partial'[n].items>>), e, b)
    <3>1. PICK m \in 1..Len(partial) : m = n + 1
      BY <2>2
    <3>2. p[n] = o[m] /\ partial'[n] = partial[m]
      BY <2>2, <3>1
    <3> QED
      BY <1>0, <3>2 DEF Follows
  <2> QED
    BY <2>3 DEF Follows
<1>10. Is(t, D, G, p, i, j)'
  <2>1. Means(t, D, i, j, tree)'
    BY <1>3, <1>6, MeansStays
  <2>2. Means(t, D, i, j, atom)'
    BY <1>3, <1>5, <2>1 DEF Means, Stands
  <2>3. ReadValue(G, p, i, j)'
    BY <1>3, <1>4, <1>5, <1>6 DEF ReadValue, Whole
  <2> QED
    BY <1>6, <1>7, <2>2, <2>3 DEF Is
<1>11. ValueKnown(t, D, G, p)'
  <2>1. i \in start' + 1..Taken' /\ j \in start' + 1..Taken' /\ j = Taken'
    BY <1>0, <1>3, <1>5, <1>6, <1>7
  <2>2. White(data, j + 1, Taken)'
    BY <1>6, <2>1, WhiteMore
  <2> QED
    BY <1>8, <1>10, <2>1, <2>2 DEF ValueKnown
<1>12. Shown' /\ ShownNumber' /\ ShownValue'
  BY <1>8, NothingShown DEF Skipped
<1>13. Known(t, D, G, p)'
  BY <1>8, <1>11, <1>12, KnownIs
<1>14. Along(t, D, G, p)'
  BY <1>4, <1>9, <1>13 DEF Along
<1> QED
  BY <1>14

\* A loop goes on to the item that D has there.
LEMMA ItemAlong ==
  ASSUME CommaInv, FramesInv, Parsing, NEW t, NEW D, Viable(t, D), NEW F, NEW o,
         Along(t, D, F, o), ObjectLoop \/ ArrayLoop, next # Closing(partial[1].type)
  PROVE  Along(t, D, F, o)'
<1>0. PartOK(F, o) /\ Taken \in Nat
  BY AlongFacts
<1>1. /\ Head(stack) \in Loops /\ ~AtEOF /\ partial # <<>>
      /\ partial[1].type = IF Head(stack) = "objLoop" THEN "object" ELSE "array"
      /\ PartOK(F, o)' /\ ItemBegins
  BY <1>0, LoopsOK
<1>2. NextAt(data, o[1].from, o[1].to, Taken + 1)
  BY <1>1, ItemDue
<1>3. Shown
  BY <1>1, LoopKnown
<1>4. /\ UNCHANGED <<streamVars, next, start, partial>> /\ Taken' = Taken /\ data' = data
  BY <1>1, Stays DEF ItemBegins
<1>5. Shown'
  BY <1>1, <1>3, <1>4, NothingShown DEF Skipped, Loops
<1>6. PICK q : q = Taken + 1
  OBVIOUS
<1>7. q = Taken' + 1 /\ NextAt(data, o[1].from, o[1].to, q)
  BY <1>2, <1>4, <1>6
<1>8. CASE Head(stack) = "objLoop"
  <2>1. Head(stack') = "str" /\ stack'[2] = "objKey" /\ Place' = "str"
    BY <1>1, <1>8 DEF ItemBegins, Place
  <2>2. partial[1].type = "object"
    BY <1>1, <1>8
  <2>3. KeyBegins(o, q)'
    BY <1>1, <1>4, <1>7, <2>2 DEF KeyBegins
  <2>4. TextBegins(o, Taken + 1)'
    BY <1>7, <2>1, <2>3 DEF TextBegins
  <2>5. ShownValue'
    <3>1. next' # "}"
      BY <1>4, <2>2 DEF Closing
    <3> QED
      BY <2>1, <3>1, Zenon DEF ShownValue
  <2>6. ShownNumber'
    BY <2>1, NothingShown
  <2>7. Known(t, D, F, o)'
    BY <1>5, <2>1, <2>4, <2>5, <2>6, KnownIs
  <2> QED
    BY <1>1, <1>4, <2>7, AlongStays
<1>9. CASE Head(stack) = "arrLoop"
  <2>1. Head(stack') = "expr" /\ Place' = "expr"
    BY <1>1, <1>9 DEF ItemBegins, Place
  <2>2. partial[1].type = "array"
    BY <1>1, <1>9
  <2>3. Begins(o, q)'
    BY <1>1, <1>4, <1>7, <2>2 DEF Begins, SlotAt
  <2>4. Begins(o, Taken + 1)'
    BY <1>7, <2>3
  <2>5. ShownValue'
    <3>1. next' # Closing("array")
      BY <1>4, <2>2
    <3> QED
      BY <2>1, <3>1, Zenon DEF ShownValue
  <2>6. ShownNumber'
    BY <2>1, NothingShown
  <2>7. Known(t, D, F, o)'
    BY <1>5, <2>1, <2>4, <2>5, <2>6, KnownIs
  <2> QED
    BY <1>1, <1>4, <2>7, AlongStays
<1> QED
  BY <1>1, <1>8, <1>9 DEF Loops

\* parseJSON calls expression() for the root.
LEMMA ParseJSONAlong ==
  ASSUME CommaInv, FramesInv, Parsing, NEW t, NEW D, Viable(t, D), NEW F, NEW o,
         Along(t, D, F, o), ParseJSON
  PROVE  Along(t, D, F, o)'
<1>0. /\ PartOK(F, o) /\ Here(F, o) /\ stack \in Seq(Labels) /\ StackOK /\ stack # <<>>
      /\ Taken \in Nat
  BY AlongFacts
<1>1. Head(stack) = "parseJSON" /\ ~AtEOF /\ Place = "parseJSON"
  BY DEF ParseJSON, On, At, Place
<1>2. partial = <<>> /\ Taken = start
  BY <1>0, <1>1 DEF Here
<1>3. next = t[Taken + 1]
  BY <1>1, AlongFacts
<1>4. next \in {"{", "["}
  BY <1>2, <1>3, Zenon DEF Viable
<1>5. Jump(<<"expr", "rootEnd">>)
  BY <1>4 DEF ParseJSON
<1>6. UNCHANGED <<streamVars, next, start, partial>> /\ Taken' = Taken /\ data' = data
  BY <1>5, Stays DEF Jump, Peek, treeVars, callVars
<1>7. Head(stack') = "expr" /\ Place' = "expr"
  <2>1. "expr" \in Labels /\ "rootEnd" \in Labels
    BY PlaceSets DEF Checked, Unchecked
  <2>2. Head(stack') = "expr"
    BY <1>0, <1>5, <2>1, HeadAfter DEF Jump
  <2> QED
    BY <2>2 DEF Place
<1>8. PartOK(F, o)'
  <2>1. ~Throw("BAD_JSON")
    BY <1>7, AfterThrow
  <2> QED
    BY <1>0, <2>1, ParseJSONOK
<1>9. Begins(o, Taken + 1)'
  BY <1>2, <1>6 DEF Begins
<1>10. Shown'
  <2>1. ~isWhiteSpace(next)
    BY <1>4, StartingChars
  <2> QED
    BY <1>6, <2>1 DEF Shown
<1>11. ShownNumber'
  BY <1>7, NothingShown
<1>12. ShownValue'
  BY <1>2, <1>6, <1>7, Zenon DEF ShownValue
<1>13. Known(t, D, F, o)'
  BY <1>7, <1>9, <1>10, <1>11, <1>12, KnownIs
<1> QED
  BY <1>6, <1>8, <1>13, AlongStays

\* Where a call begins nothing is behind it.
LEMMA ConstructAlong ==
  ASSUME CommaInv, FramesInv, Construct, partial = <<>>, pos = start, ~(kind = "file" /\ eof),
         NEW t, NEW D
  PROVE  Along(t, D, {}, <<>>)'
<1>1. PartOK({}, <<>>)'
  BY ConstructOK
<1>2. Head(stack') = "parseJSON" /\ Place' = "parseJSON"
  <2>1. stack \in Seq(Labels) /\ stack # <<>>
    BY DEF CommaInv, MessageInv, TypeOK, Construct, On, At
  <2>2. "parseJSON" \in Labels
    BY PlaceSets DEF Checked
  <2>3. Head(stack') = "parseJSON"
    BY <2>1, <2>2, HeadAfter DEF Construct
  <2> QED
    BY <2>3 DEF Place
<1>3. partial' = <<>>
  BY DEF Construct, treeVars
<1>4. Follows(t, D, <<>>)'
  BY <1>3 DEF Follows
<1>5. Shown' /\ ShownNumber' /\ ShownValue'
  BY <1>2, NothingShown DEF Skipped
<1>6. Known(t, D, {}, <<>>)'
  BY <1>2, <1>5 DEF Known, Expected, AfterItem, InteriorKnown, ScalarKnown, ValueKnown, Loops
<1> QED
  BY <1>1, <1>4, <1>6 DEF Along

\* The root is the one that D has.
LEMMA RootAlong ==
  ASSUME CommaInv, FramesInv, Parsing, NEW t, NEW D, Viable(t, D), NEW F, NEW o,
         Along(t, D, F, o), RootEnd
  PROVE  \A e, root : Whole(start + 1, e, root) \in D => root = atom
<1>0. /\ Known(t, D, F, o) /\ stack \in Seq(Labels) /\ StackOK /\ stack # <<>>
  BY AlongFacts
<1>1. Head(stack) = "rootEnd" /\ Place = "rootEnd" /\ Head(stack) \in Roots
  BY DEF RootEnd, At, Place, Roots
<1>2. partial = <<>>
  BY <1>0, <1>1, NothingOpen
<1>3. PICK k, j \in start + 1..Taken : Is(t, D, F, o, k, j)
  BY <1>0, <1>1 DEF Known, ValueKnown
<1>4. k = start + 1 /\ Means(t, D, k, j, atom)
  BY <1>2, <1>3 DEF Is, ReadValue, Begins
<1> QED
  BY <1>4 DEF Means, Stands

-----------------------------------------------------------------------------
(***************************************************************************)
(* Every step, every call.                                                 *)
(***************************************************************************)

\* A step of the parser finds what D has, or the end of the data.
LEMMA StepAlong ==
  ASSUME CommaInv, FramesInv, Parsing, NEW t, NEW D, Viable(t, D), NEW F, NEW o,
         Along(t, D, F, o), Step, ~RootEnd
  PROVE  (\E G, p : Along(t, D, G, p)') \/ Throw("EOF")
<1>1. CASE EndOfData
  BY <1>1 DEF EndOfData
<1>2. ~Construct /\ ~ReadSync
  BY DEF Construct, ReadSync, On, At, Parsing
<1>3. CASE ParseJSON \/ skipWhite \/ ExpressionEnd \/ ObjectKey
  BY <1>3, ParseJSONAlong, SkipAlong, ExpressionEndAlong, ObjectKeyAlong
<1>4. CASE Expression
  <2>1. Head(stack) = "expr" /\ ~AtEOF
    BY <1>4 DEF Expression, On, At
  <2>2. CASE next \notin {"{", "["}
    BY <1>4, <2>2, ExpressionAlong
  <2>3. CASE next \in {"{", "["}
    <3>2. /\ next \notin {"quote", "-"} /\ ~isNumber(next)
      BY <2>3, FirstChars
    <3>3. \E type \in {"object", "array"}, loop \in Loops : next = Opening(type) /\ Open(type, loop)
      BY <1>4, <2>3, <3>2 DEF Expression, Opening, Loops
    <3>4. PICK type \in {"object", "array"}, loop \in Loops : next = Opening(type) /\ Open(type, loop)
      BY <3>3
    <3> QED
      BY <2>1, <3>4, OpenAlong
  <2> QED
    BY <2>2, <2>3
<1>5. CASE ObjectLoop \/ ArrayLoop
  BY <1>5, CloseAlong, ItemAlong
<1>6. CASE ObjectAdd \/ ArrayAdd
  BY <1>6, AddAlong
<1>7. CASE BeginString \/ NotAString \/ StringChar \/ Escape \/ validateUnicodeSequence
  BY <1>7, StringAlong
<1>8. CASE StringDone \/ NumberDone \/ LiteralDone
  BY <1>8, StringDoneAlong, DoneAlong
<1>9. CASE Decimal \/ Fraction \/ Exponent \/ ExponentSign
  BY <1>9, NumberPartsAlong
<1>10. CASE Natural \/ AfterZero \/ MoreDigits \/ NumberEnd \/ BeginLiteral \/ Letters
  BY <1>10, NaturalAlong, AfterZeroAlong, MoreDigitsAlong, NumberEndAlong, LiteralAlong, LettersAlong
<1> QED
  BY <1>1, <1>2, <1>3, <1>4, <1>5, <1>6, <1>7, <1>8, <1>9, <1>10 DEF Step

\* What is known of the derivation D where nothing changes.
LEMMA AlongStutters ==
  ASSUME UNCHANGED vars, NEW t, NEW D, NEW F, NEW o, Along(t, D, F, o)
  PROVE  Along(t, D, F, o)'
<1>1. UNCHANGED <<kind, data, pos, eof, lastRead, next, lastWasComma, stack, text, partial, atom, result,
                  start>>
  BY DEF vars, streamVars, parserVars, treeVars, callVars
<1>2. /\ Taken' = Taken /\ Place' = Place /\ (Lost' <=> Lost) /\ (AtEOF' <=> AtEOF)
  BY <1>1 DEF Taken, Place, Lost, AtEOF
<1>3. PartOK(F, o)'
  BY <1>1, PartStutters DEF Along
<1>4. \A k : (Begins(o, k)' <=> Begins(o, k)) /\ (TextBegins(o, k)' <=> TextBegins(o, k))
  BY <1>1 DEF Begins, TextBegins, KeyBegins
<1>5. \A k, j, tree : Means(t, D, k, j, tree)' <=> Means(t, D, k, j, tree)
  BY <1>1, MeansStays
<1>6. Shown' /\ ShownNumber' /\ ShownValue'
  BY <1>1, <1>2 DEF Along, Known, Shown, ShownNumber, ShownValue
<1>7. Expected(o)' /\ AfterItem(o)'
  <2>1. PICK k : k = Taken + 1
    OBVIOUS
  <2>2. (Begins(o, k)' <=> Begins(o, k)) /\ (TextBegins(o, k)' <=> TextBegins(o, k)) /\ k = Taken' + 1
    BY <1>2, <1>4, <2>1
  <2>3. Expected(o)'
    BY <1>2, <2>1, <2>2 DEF Along, Known, Expected
  <2> QED
    BY <1>1, <1>2, <2>3 DEF Along, Known, AfterItem, CommaTo
<1>8. InteriorKnown(t, o)'
  <2>1. \A q : Lexed(o, q)' <=> Lexed(o, q)
    BY <1>1, <1>2, <1>4 DEF Lexed
  <2> QED
    BY <1>1, <1>2, <2>1 DEF Along, Known, InteriorKnown
<1>9. ScalarKnown(t, D, o)'
  <2>1. ASSUME NEW tree PROVE ReadScalar(t, D, o, tree)' <=> ReadScalar(t, D, o, tree)
    BY <1>1, <1>2, <1>4, <1>5 DEF ReadScalar
  <2>2. PICK tree, lit : tree = <<NumberSort(text), text>> /\ lit = <<"literal", text>>
    OBVIOUS
  <2>3. /\ Place = "numDone" => ReadScalar(t, D, o, tree)
        /\ Place = "litDone" => ReadScalar(t, D, o, lit)
    BY <2>2 DEF Along, Known, ScalarKnown
  <2>4. /\ Place' = "numDone" => ReadScalar(t, D, o, tree)'
        /\ Place' = "litDone" => ReadScalar(t, D, o, lit)'
    BY <1>2, <2>1, <2>3
  <2> QED
    BY <1>1, <2>2, <2>4, Zenon DEF ScalarKnown, ReadScalar
<1>10. ValueKnown(t, D, F, o)'
  <2>1. \A k, j : Is(t, D, F, o, k, j) => Is(t, D, F, o, k, j)'
    BY <1>1, IsStays
  <2>2. \A j : (CommaTo(j)' <=> CommaTo(j)) /\ (White(data, j + 1, Taken)' <=> White(data, j + 1, Taken))
    BY <1>1, <1>2 DEF CommaTo
  <2> QED
    BY <1>1, <1>2, <2>1, <2>2 DEF Along, Known, ValueKnown
<1>11. Follows(t, D, o)'
  BY <1>1 DEF Along, Follows
<1> QED
  BY <1>1, <1>2, <1>3, <1>6, <1>7, <1>8, <1>9, <1>10, <1>11 DEF Along, Known

\* What a call may do while the text t, with a document that D derives, begins
\* with what was read.
Goes(t, D) ==
  /\ Parsing => \E F, o : Along(t, D, F, o)
  /\ result # "BAD_JSON"
  /\ result = "tree" => \A e, root : Whole(start + 1, e, root) \in D => root = atom

\* The invariant: the parser goes along every text that a document begins, so it
\* refuses none of them and returns no other tree.
FollowInv == GrammarInv /\ \A t, D : Viable(t, D) => Goes(t, D)

\* A text that begins with what is read next begins with what was read.
LEMMA ViableBefore ==
  ASSUME UNCHANGED <<data, start>>, pos \in Nat, pos' \in {pos, pos + 1}, NEW t, NEW D,
         Viable(t, D)'
  PROVE  Viable(t, D)
<1>1. t \in Seq(Char) /\ pos' <= Len(t) /\ \A i \in 1..pos' : t[i] = data[i]
  BY DEF Viable, Fits
<1>2. Len(t) \in Nat
  BY <1>1, LenProperties
<1>3. pos <= Len(t) /\ \A i \in 1..pos : i \in 1..pos'
  BY <1>1, <1>2
<1>4. Fits(t)
  BY <1>1, <1>3 DEF Fits
<1> QED
  BY <1>4 DEF Viable

\* A step of the parser, up to the end of the root.
LEMMA StepGoes ==
  ASSUME GrammarInv, Parsing, Step, ~RootEnd, NEW t, NEW D, Viable(t, D), NEW F, NEW o,
         Along(t, D, F, o)
  PROVE  Goes(t, D)'
<1>1. CommaInv /\ FramesInv /\ stack \in Seq(Labels) /\ StackOK /\ result = "none"
  BY DEF GrammarInv, CommaInv, MessageInv, TypeOK, Parsing, Returned, At
<1>2. CASE Throw("EOF")
  <2>1. stack' = <<"readSync">> /\ result' = "EOF"
    BY <1>2 DEF Throw
  <2>2. stack' # <<>> /\ Head(stack') = "readSync"
    BY <2>1
  <2> QED
    BY <2>1, <2>2 DEF Goes, Parsing
<1>3. CASE \E G, p : Along(t, D, G, p)'
  <2>1. ~Throw("BAD_JSON") /\ ~Throw("EOF")
    <3>1. PICK G, p : Along(t, D, G, p)'
      BY <1>3
    <3>2. Place' # "readSync"
      BY <3>1 DEF Along, Known
    <3>3. stack' # <<"readSync">>
      <4>1. stack' = <<"readSync">> => Head(stack') = "readSync"
        OBVIOUS
      <4> QED
        BY <3>2, <4>1 DEF Place
    <3> QED
      BY <3>3 DEF Throw
  <2>2. ~Construct /\ ~ReadSync
    BY DEF Construct, ReadSync, On, At, Parsing
  <2>3. ~EndOfData
    BY <2>1 DEF EndOfData
  <2>4. GoesOn
    BY <1>1, <2>1, <2>2, <2>3, ScalarsGoOn, TreesGoOn DEF Step
  <2>5. result' = "none"
    BY <1>1, <2>4 DEF GoesOn
  <2> QED
    BY <1>3, <2>5 DEF Goes
<1> QED
  BY <1>1, <1>2, <1>3, StepAlong

\* parseJSON returns the root, or begins, or reads on to the newline.
LEMMA CallGoes ==
  ASSUME GrammarInv, NEW t, NEW D, Viable(t, D), Goes(t, D),
         RootEnd \/ (Step /\ ~Parsing)
  PROVE  Goes(t, D)'
<1>1. CommaInv /\ FramesInv /\ stack \in Seq(Labels) /\ StackOK
  BY DEF GrammarInv, CommaInv, MessageInv, TypeOK
<1>2. CASE RootEnd
  <2>1. Parsing
    BY <1>2 DEF RootEnd, At, Parsing
  <2>2. PICK F, o : Along(t, D, F, o)
    BY <2>1 DEF Goes
  <2>3. \A e, root : Whole(start + 1, e, root) \in D => root = atom
    BY <1>1, <1>2, <2>1, <2>2, RootAlong
  <2>4. stack' # <<>> /\ Head(stack') = "readSync"
    <3>1. stack # <<>> /\ Goto(<<"readSync">>) /\ "readSync" \in Labels
      BY <1>2, PlaceSets DEF RootEnd, At, Unchecked
    <3> QED
      BY <1>1, <3>1, HeadAfter
  <2>5. result' = "tree" /\ start' = start /\ atom' = atom
    BY <1>2 DEF RootEnd, treeVars
  <2> QED
    BY <2>3, <2>4, <2>5 DEF Goes, Parsing
<1>3. CASE ReadSync
  <2>1. stack # <<>> /\ Head(stack) = "readSync"
    BY <1>3 DEF ReadSync, At
  <2>2. stack' = stack \/ stack' = <<>>
    BY <1>1, <1>3, <2>1, ReadSyncReturns DEF ReadSync
  <2>3. start' = start /\ atom' = atom /\ result' = result
    BY <1>3 DEF ReadSync, treeVars, callVars
  <2> QED
    BY <2>1, <2>2, <2>3 DEF Goes, Parsing
<1>4. CASE EndOfData
  <2>1. stack' = <<"readSync">> /\ result' = "EOF"
    BY <1>4 DEF EndOfData, Throw
  <2>2. stack' # <<>> /\ Head(stack') = "readSync"
    BY <2>1
  <2> QED
    BY <2>1, <2>2 DEF Goes, Parsing
<1>5. CASE Construct
  <2>1. At("construct") /\ stack # <<>> /\ Head(stack) = "construct"
    BY <1>5 DEF Construct, On, At
  <2>2. partial = <<>> /\ pos = start /\ ~(kind = "file" /\ eof) /\ result = "none"
    BY <2>1 DEF GrammarInv, At, Returned
  <2>3. Along(t, D, {}, <<>>)'
    BY <1>1, <1>5, <2>2, ConstructAlong
  <2>4. result' = "none"
    BY <1>5, <2>2 DEF Construct, callVars
  <2>5. \E F, o : Along(t, D, F, o)'
    BY <2>3
  <2> QED
    BY <2>4, <2>5 DEF Goes
<1>6. CASE Step /\ ~Parsing /\ ~RootEnd /\ ~ReadSync /\ ~EndOfData
  <2>1. stack # <<>>
    BY <1>1, <1>6, StepEffect
  <2>2. Head(stack) \in {"construct", "readSync"}
    BY <1>6, <2>1 DEF Parsing
  <2>3. Head(stack) # "readSync"
    BY <1>6 DEF Step, Construct, ParseJSON, skipWhite, Expression, ExpressionEnd,
             ObjectLoop, ObjectKey, ObjectAdd, ArrayLoop, ArrayAdd, BeginString, NotAString,
             StringChar, Escape, validateUnicodeSequence, HexDigit, StringDone, Natural,
             AfterZero, MoreDigits, DigitsOf, Decimal, Fraction, Exponent, ExponentSign,
             NumberEnd, NumberDone, BeginLiteral, Letters, LiteralDone, On, At
  <2> QED
    BY <1>5, <1>6, <2>1, <2>2, <2>3, ConstructFirst
<1> QED
  BY <1>2, <1>3, <1>4, <1>6

\* Where nothing changes.
LEMMA GoesStutters ==
  ASSUME UNCHANGED vars, NEW t, NEW D, Goes(t, D)
  PROVE  Goes(t, D)'
<1>1. stack' = stack /\ result' = result /\ start' = start /\ atom' = atom
  BY DEF vars, parserVars, treeVars, callVars
<1>2. ASSUME Parsing PROVE \E F, o : Along(t, D, F, o)'
  <2>1. PICK F, o : Along(t, D, F, o)
    BY <1>2 DEF Goes
  <2> QED
    BY <2>1, AlongStutters
<1> QED
  BY <1>1, <1>2 DEF Goes, Parsing

\* FollowInv is inductive.
LEMMA NextFollowInv == FollowInv /\ [Next]_vars => FollowInv'
<1> SUFFICES ASSUME FollowInv, [Next]_vars PROVE FollowInv'
  OBVIOUS
<1>1. /\ CommaInv /\ FramesInv /\ stack \in Seq(Labels) /\ StackOK /\ GrammarInv /\ GrammarInv'
      /\ pos \in Nat
  BY NextGrammarInv, LenProperties, SMT DEF FollowInv, GrammarInv, CommaInv, MessageInv, TypeOK
<1>2. SUFFICES ASSUME NEW t, NEW D, Viable(t, D)' PROVE Goes(t, D)'
  BY <1>1 DEF FollowInv
<1>3. CASE CallAgain
  <2>1. stack' = <<"construct">> /\ result' = "none"
    BY <1>3 DEF CallAgain
  <2>2. stack' # <<>> /\ Head(stack') = "construct"
    BY <2>1
  <2> QED
    BY <2>1, <2>2 DEF Goes, Parsing
<1>4. CASE Step \/ UNCHANGED vars
  <2>1. UNCHANGED <<data, start>> /\ pos' \in {pos, pos + 1}
    <3>1. CASE ReadSync
      BY <3>1 DEF ReadSync, SyncDiscard, SyncDone, callVars
    <3>2. CASE Step /\ ~ReadSync
      BY <1>1, <3>2, StepEffect, EffectMoves DEF nextChar, ReadMoves, Still, streamVars
    <3>3. CASE UNCHANGED vars
      BY <3>3 DEF vars, streamVars, callVars
    <3> QED
      BY <1>4, <3>1, <3>2, <3>3
  <2>2. Viable(t, D)
    BY <1>1, <1>2, <2>1, ViableBefore
  <2>3. Goes(t, D)
    BY <2>2 DEF FollowInv
  <2>4. CASE Step /\ Parsing /\ ~RootEnd
    <3>1. PICK F, o : Along(t, D, F, o)
      BY <2>3, <2>4 DEF Goes
    <3> QED
      BY <1>1, <2>2, <2>4, <3>1, StepGoes
  <2>5. CASE RootEnd \/ (Step /\ ~Parsing)
    BY <1>1, <2>2, <2>3, <2>5, CallGoes
  <2> QED
    BY <1>4, <2>3, <2>4, <2>5, GoesStutters
<1> QED
  BY <1>3, <1>4 DEF Next

\* FollowInv holds as the first call begins.
LEMMA InitFollowInv ==
  ASSUME "rpc" \in Kinds =>
           \A json \in Inputs : Len(json) > 0 /\ json[Len(json)] = "newline"
  PROVE  Init => FollowInv
<1> SUFFICES ASSUME Init PROVE FollowInv
  OBVIOUS
<1>1. stack # <<>> /\ Head(stack) = "construct" /\ result = "none"
  BY SMT DEF Init, CallInit
<1>2. \A t, D : Goes(t, D)
  BY <1>1 DEF Goes, Parsing
<1> QED
  BY <1>2, InitGrammarInv DEF FollowInv

\* What parseJSON refuses as malformed has no document in it, and none can be
\* made of it: no text that goes on from what was read begins with one, so
\* neither the bytes behind nor those that never came are to blame.
THEOREM RefusedTextsAreHopeless ==
  ASSUME "rpc" \in Kinds =>
           \A json \in Inputs : Len(json) > 0 /\ json[Len(json)] = "newline"
  PROVE  Spec => [](Returned /\ result = "BAD_JSON" =>
                      \A t, j, tree : Fits(t) /\ t[start + 1] \in {"{", "["} =>
                                        ~Derived(t, start + 1, j, tree))
<1>1. FollowInv => (Returned /\ result = "BAD_JSON" =>
                      \A t, j, tree : Fits(t) /\ t[start + 1] \in {"{", "["} =>
                                        ~Derived(t, start + 1, j, tree))
  BY DEF FollowInv, Goes, Viable, Derived
<1> QED
  BY InitFollowInv, NextFollowInv, <1>1, PTL DEF Spec

\* The rules are unambiguous as the parser reads them: when parseJSON returns
\* a tree, it is the tree of every document that a text going on from what was
\* read begins with.
THEOREM TheTreeIsTheOnlyOne ==
  ASSUME "rpc" \in Kinds =>
           \A json \in Inputs : Len(json) > 0 /\ json[Len(json)] = "newline"
  PROVE  Spec => [](Returned /\ result = "tree" =>
                      \A t, j, tree : Fits(t) /\ Derived(t, start + 1, j, tree) => tree = atom)
<1>1. FollowInv => (Returned /\ result = "tree" =>
                      \A t, j, tree : Fits(t) /\ Derived(t, start + 1, j, tree) => tree = atom)
  <2> SUFFICES ASSUME FollowInv, Returned, result = "tree", NEW t, NEW j, NEW tree, Fits(t),
                      Derived(t, start + 1, j, tree)
               PROVE  tree = atom
    OBVIOUS
  <2>1. start + 1 \in 1..pos /\ data[start + 1] \in {"{", "["}
    <3>1. TreeIsDerived
      BY DEF FollowInv, GrammarInv, Returned, Parsing
    <3>2. start \in Nat /\ pos \in Nat /\ Taken \in {pos, pos - 1}
      <4>1. data \in Seq(Char) /\ pos \in 0..Len(data) /\ start \in 0..pos
        BY DEF FollowInv, GrammarInv, CommaInv, MessageInv, TypeOK
      <4> QED
        BY <4>1, LenProperties DEF Taken
    <3>3. PICK e : e \in start + 1..Taken
      BY <3>1 DEF TreeIsDerived
    <3>4. start + 1 \in 1..pos
      BY <3>2, <3>3
    <3> QED
      BY <3>1, <3>4 DEF TreeIsDerived, RootOK
  <2>2. t[start + 1] \in {"{", "["}
    BY <2>1 DEF Fits
  <2> QED
    BY <2>2 DEF FollowInv, Goes, Viable, Derived
<1> QED
  BY InitFollowInv, NextFollowInv, <1>1, PTL DEF Spec

-----------------------------------------------------------------------------
(***************************************************************************)
(* Ends: as long as the root is open, or its value not yet read, a         *)
(* document of the text ends beyond what was read.  So data that end there *)
(* are the reason of the refusal.                                          *)
(***************************************************************************)

\* A container ends behind each of its items.
LEMMA LeadsBeyond ==
  ASSUME NEW t, Len(t) \in Nat, NEW D, Derivation(t, D), NEW i \in Nat, NEW p \in Nat, NEW c,
         NEW e \in Nat, NEW tree, Leads(t, D, Begun(i, p, c), e, tree)
  PROVE  p < e
<1>1. PICK W \in SUBSET D :
        /\ Begun(i, p, c) \in W
        /\ \A w \in W : Ends(t, w, e, tree) \/ \E h \in W : Adds(t, D, w, h)
  BY DEF Leads
<1> DEFINE IsBegun(w) == w = Begun(w[2], w[3], w[4])
           T == {x \in Nat : \E w \in W : IsBegun(w) /\ x = Len(t) - w[3] /\ ~(w[3] < e)}
<1>2. ASSUME NEW w \in W, IsBegun(w) PROVE w[2] \in Nat /\ w[3] \in Nat /\ w[3] <= Len(t)
  <2>1. Begun(w[2], w[3], w[4]) \in D
    BY <1>1, <1>2
  <2>2. w[2] \in 1..Len(t) /\ w[3] \in 1..Len(t)
    BY <2>1, BegunByRule
  <2> QED
    BY <2>2
<1>3. T = {}
  <2> SUFFICES ASSUME T # {} PROVE FALSE
    OBVIOUS
  <2>1. PICK x \in T : \A y \in T : x <= y
    <3>1. T \subseteq Nat
      OBVIOUS
    <3> HIDE DEF T
    <3> QED
      BY <3>1, Least
  <2>2. PICK w \in W : IsBegun(w) /\ x = Len(t) - w[3] /\ ~(w[3] < e)
    OBVIOUS
  <2>3. PICK n \in Nat : n = w[3] /\ n <= Len(t) /\ w[2] \in Nat /\ ~(n < e)
    BY <1>2, <2>2
  <2>4. ~Ends(t, w, e, tree)
    BY <2>3 DEF Ends
  <2>5. PICK h \in W : Adds(t, D, w, h)
    BY <1>1, <2>4
  <2>6. IsBegun(h)
    BY <2>5 DEF Adds, Begun
  <2>7. PICK k, key : k <= h[3] /\ SlotAt(t, w[4][1], key, w[2], w[3], k) /\ k \in Nat
    <3>1. PICK k, key, value : /\ Whole(k, h[3], value) \in D /\ k <= h[3]
                               /\ SlotAt(t, w[4][1], key, w[2], w[3], k)
      BY <2>5 DEF Adds
    <3>2. k \in 1..Len(t)
      BY <3>1, WholeByRule
    <3> QED
      BY <3>1, <3>2
  <2>8. n < k
    <3>1. w[2] \in Int /\ w[3] \in Int /\ k \in Int
      BY <2>3, <2>7
    <3> QED
      BY <2>3, <2>7, <3>1, SlotAhead
  <2>9. PICK m \in Nat : m = h[3] /\ m <= Len(t)
    BY <1>2, <2>6
  <2>10. n < m /\ ~(m < e) /\ Len(t) - m \in Nat
    <3>1. k <= m /\ k \in Nat
      BY <2>7, <2>9
    <3>2. n < m /\ ~(m < e)
      BY <2>3, <2>8, <3>1
    <3> QED
      BY <2>9, <3>2
  <2>11. Len(t) - m \in T
    BY <2>6, <2>9, <2>10
  <2>12. x <= Len(t) - m
    BY <2>1, <2>11
  <2>13. x = Len(t) - n
    BY <2>2, <2>3
  <2> QED
    BY <2>3, <2>9, <2>10, <2>12, <2>13, SMTT(30)
<1>4. PICK f \in W : f = Begun(i, p, c)
  BY <1>1
<1>5. IsBegun(f) /\ f[3] = p
  BY <1>4 DEF Begun
<1>6. Len(t) - p \in Nat
  BY <1>2, <1>5
<1>7. ~(p < e) => Len(t) - p \in T
  BY <1>5, <1>6
<1> QED
  BY <1>3, <1>7

\* A container ends behind the value that is due in it, ...
LEMMA ValueInside ==
  ASSUME NEW t \in Seq(Char), NEW D, Derivation(t, D), NEW i \in Nat, NEW p \in Nat, i <= p,
         NEW type, NEW items, NEW e \in Nat, NEW tree,
         Leads(t, D, Begun(i, p, <<type, items>>), e, tree),
         NEW key, NEW q \in Nat, SlotAt(t, type, key, i, p, q), ~isWhiteSpace(t[q]),
         type = "array" /\ p = i => t[q] # Closing(type)
  PROVE  \E r \in Nat : r < e /\ \E b : Whole(q, r, b) \in D
<1>1. PICK r \in Nat : \E b :
        /\ q <= r /\ Whole(q, r, b) \in D
        /\ Leads(t, D, Begun(i, r, <<type, Extended(type, items, key, b)>>), e, tree)
  BY NextValue
<1>2. PICK b :
        /\ Whole(q, r, b) \in D
        /\ Leads(t, D, Begun(i, r, <<type, Extended(type, items, key, b)>>), e, tree)
  BY <1>1
<1>3. PICK c : c = <<type, Extended(type, items, key, b)>>
  OBVIOUS
<1>4. Leads(t, D, Begun(i, r, c), e, tree) /\ Len(t) \in Nat
  BY <1>2, <1>3, LenProperties
<1>5. r < e
  BY <1>4, LeadsBeyond
<1> QED
  BY <1>2, <1>5

\* ... and behind the key.
LEMMA KeyInside ==
  ASSUME NEW t \in Seq(Char), NEW D, Derivation(t, D), NEW i \in Nat, NEW p \in Nat, i <= p,
         NEW items, NEW e \in Nat, NEW tree,
         Leads(t, D, Begun(i, p, <<"object", items>>), e, tree),
         NEW q \in Nat, NextAt(t, i, p, q), ~isWhiteSpace(t[q]), p = i => t[q] # Closing("object")
  PROVE  \E r \in Nat : StringAt(t, q, r) /\ r < e
<1>1. PICK r \in Nat, k \in Nat :
        StringAt(t, q, r) /\ Between(t, r, ":", k) /\ ~isWhiteSpace(t[k])
  BY NextKey
<1>2. p < q /\ q < r /\ r < k
  <2>1. p < q
    BY DEF NextAt
  <2>2. q < r
    BY <1>1 DEF StringAt
  <2>3. r < k
    <3>1. PICK m \in r + 1..k - 1 : TRUE
      BY <1>1 DEF Between
    <3> QED
      BY <3>1
  <2> QED
    BY <2>1, <2>2, <2>3
<1>3. q \in p + 1..k - 1 /\ r \in p + 1..k - 1
  BY <1>2
<1>4. PICK type, key : type = "object" /\ key = Inside(t, q, r)
  OBVIOUS
<1>5. SlotAt(t, type, key, i, p, k)
  BY <1>1, <1>3, <1>4 DEF SlotAt
<1>6. PICK n \in Nat : n < e /\ \E b : Whole(k, n, b) \in D
  <2>1. Leads(t, D, Begun(i, p, <<type, items>>), e, tree) /\ type # "array"
    BY <1>4
  <2> QED
    BY <1>1, <1>5, <2>1, ValueInside
<1>7. k <= n
  BY <1>6, WholeByRule
<1> QED
  BY <1>1, <1>2, <1>6, <1>7

\* An open container ends behind the container that is open in it.
LEMMA NestedBeyond ==
  ASSUME CommaInv, FramesInv, Parsing, NEW t, NEW D, Viable(t, D), NEW F, NEW o,
         Along(t, D, F, o), NEW n \in 1..Len(partial), NEW m \in 1..Len(partial), m = n + 1,
         NEW x \in Nat, \A e, b : Whole(o[n].from, e, b) \in D => x <= e
  PROVE  \A e, b : Whole(o[m].from, e, b) \in D => x < e
<1>0. /\ t \in Seq(Char) /\ Len(t) \in Nat /\ Derivation(t, D) /\ Derivation(data, F)
      /\ Len(partial) \in Nat /\ Taken \in Nat /\ pos \in Nat /\ Taken <= pos /\ start \in Nat
      /\ Agree(data, t, pos) /\ ContainersOK(F, o) /\ Follows(t, D, o)
  BY AlongFacts
<1>1. /\ o[n].from <= o[n].to /\ o[n].to <= Taken /\ start < o[n].from
      /\ o[m].from <= o[m].to /\ o[m].to <= Taken /\ start < o[m].from
      /\ Begun(o[n].from, o[n].to, <<partial[n].type, partial[n].items>>) \in F
      /\ SlotAt(data, partial[m].type, partial[m].key, o[m].from, o[m].to, o[n].from)
  <2>1. n < Len(partial) /\ n \in Nat
    BY <1>0
  <2>2. SlotAt(data, partial[n + 1].type, partial[n + 1].key, o[n + 1].from, o[n + 1].to, o[n].from)
    BY <1>0, <2>1, Zenon DEF ContainersOK
  <2>3. SlotAt(data, partial[m].type, partial[m].key, o[m].from, o[m].to, o[n].from)
    BY <2>2
  <2> QED
    BY <1>0, <2>3, Zenon DEF ContainersOK
<1>2. o[n] \in Spans /\ o[m] \in Spans
  <2>1. o \in Seq(Spans) /\ Len(o) = Len(partial)
    BY <1>0 DEF ContainersOK
  <2>2. n \in 1..Len(o) /\ m \in 1..Len(o)
    BY <2>1
  <2> QED
    BY <2>1, <2>2, ElementOfSeq
<1>3. PICK q \in Nat : q = o[n].from
  BY <1>2 DEF Spans
<1>4. PICK i \in Nat, p \in Nat : i = o[m].from /\ p = o[m].to
  BY <1>2 DEF Spans
<1>5. PICK type, items, key : type = partial[m].type /\ items = partial[m].items /\ key = partial[m].key
  OBVIOUS
<1>6. start < q /\ q <= pos /\ i <= p /\ SlotAt(data, type, key, i, p, q)
  <2>1. PICK r \in Nat : r = o[n].to
    BY <1>2 DEF Spans
  <2> QED
    BY <1>0, <1>1, <1>3, <1>4, <1>5, <2>1
<1>7. /\ i \in Int /\ p \in Int /\ q \in Int /\ i >= 0 /\ p >= 0 /\ pos \in Int /\ q - 1 <= pos
      /\ q \in 1..pos
  BY <1>0, <1>6
<1>8. SlotAt(t, type, key, i, p, q)
  BY <1>0, <1>6, <1>7, AgreeSlot
<1>9. ~isWhiteSpace(t[q]) /\ t[q] # Closing("array") /\ t[q] # Closing("object")
  <2>1. PICK c : c = <<partial[n].type, partial[n].items>>
    OBVIOUS
  <2>2. data[q] = Opening(c[1])
    BY <1>0, <1>1, <1>3, <2>1, BegunStarts
  <2>3. StartsValue(data[q])
    BY <2>2, StartingChars DEF Opening
  <2>4. t[q] = data[q]
    BY <1>0, <1>7 DEF Agree
  <2> QED
    BY <2>3, <2>4, StartingChars
<1>10. ASSUME NEW e, NEW b, Whole(i, e, b) \in D PROVE x < e
  <2>1. e \in Nat
    BY <1>0, <1>10, WholeByRule
  <2>2. Leads(t, D, Begun(i, p, <<type, items>>), e, b)
    BY <1>0, <1>4, <1>5, <1>10 DEF Follows
  <2>3. type = "array" /\ p = i => t[q] # Closing(type)
    BY <1>9
  <2>4. PICK r \in Nat : r < e /\ \E c : Whole(q, r, c) \in D
    BY <1>0, <1>6, <1>8, <1>9, <2>1, <2>2, <2>3, ValueInside
  <2>5. x <= r
    BY <1>3, <2>4
  <2> QED
    BY <2>1, <2>4, <2>5
<1> QED
  BY <1>4, <1>10

\* The document ends behind what an open container ends behind.
LEMMA RootBeyond ==
  ASSUME CommaInv, FramesInv, Parsing, NEW t, NEW D, Viable(t, D), NEW F, NEW o,
         Along(t, D, F, o), NEW n \in 1..Len(partial),
         NEW x \in Nat, \A e, b : Whole(o[n].from, e, b) \in D => x < e
  PROVE  \A e, root : Whole(start + 1, e, root) \in D => x < e
<1>0. Len(partial) \in Nat /\ ContainersOK(F, o) /\ Derivation(t, D) /\ Len(t) \in Nat
  BY AlongFacts
<1> DEFINE Reaches(m) == \A e, b : Whole(o[m].from, e, b) \in D => x < e
           T == {m \in n..Len(partial) : ~Reaches(m)}
<1>1. T = {}
  <2> SUFFICES ASSUME T # {} PROVE FALSE
    OBVIOUS
  <2>1. T \subseteq Nat
    BY <1>0
  <2>2. PICK m \in T : \A y \in T : m <= y
    <3> HIDE DEF T
    <3> QED
      BY <2>1, Least
  <2>3. ~Reaches(m) /\ m \in n..Len(partial) /\ m # n /\ n \in Nat
    OBVIOUS
  <2> HIDE DEF Reaches
  <2>4. PICK k \in n..Len(partial) : m = k + 1 /\ k < m
    BY <1>0, <2>3
  <2>5. Reaches(k)
    <3>1. k \in Nat /\ m \in Nat /\ ~(m <= k)
      BY <1>0, <2>3, <2>4
    <3> QED
      BY <2>2, <2>4, <3>1
  <2>6. k \in 1..Len(partial) /\ m \in 1..Len(partial)
    BY <1>0, <2>3, <2>4
  <2>7. \A e, b : Whole(o[k].from, e, b) \in D => x <= e
    <3> SUFFICES ASSUME NEW e, NEW b, Whole(o[k].from, e, b) \in D PROVE x <= e
      OBVIOUS
    <3>1. x < e
      BY <2>5 DEF Reaches
    <3>2. e \in Nat
      BY <1>0, WholeByRule
    <3> QED
      BY <3>1, <3>2
  <2>8. Reaches(m)
    BY <2>4, <2>6, <2>7, NestedBeyond DEF Reaches
  <2> QED
    BY <2>3, <2>8
<1>2. Len(partial) \in n..Len(partial) /\ Len(partial) \in 1..Len(partial)
  BY <1>0
<1>3. Reaches(Len(partial))
  BY <1>1, <1>2
<1>4. o[Len(partial)].from = start + 1
  BY <1>0, <1>2 DEF ContainersOK
<1> QED
  BY <1>3, <1>4

\* The document ends behind the value that is due.
LEMMA ValueBeyond ==
  ASSUME CommaInv, FramesInv, Parsing, NEW t, NEW D, Viable(t, D), NEW F, NEW o,
         Along(t, D, F, o), partial # <<>>, NEW q \in Nat, Begins(o, q), q <= pos,
         ~isWhiteSpace(data[q]), partial[1].type = "array" => data[q] # Closing("array"),
         NEW x \in Nat, \A r, b : Whole(q, r, b) \in D => x <= r
  PROVE  \A e, root : Whole(start + 1, e, root) \in D => x < e
<1>0. /\ t \in Seq(Char) /\ Derivation(t, D) /\ pos \in Nat /\ Agree(data, t, pos) /\ start \in Nat
      /\ Len(t) \in Nat
  BY AlongFacts
<1>1. PICK i \in Nat, p \in Nat : i = o[1].from /\ p = o[1].to /\ start < i /\ i <= p
  BY InnermostLeads
<1>2. PICK type, items, key : /\ type = partial[1].type /\ items = partial[1].items
                              /\ SlotAt(data, type, key, i, p, q)
  BY <1>1 DEF Begins
<1>3. i \in Int /\ p \in Int /\ q \in Int /\ i >= 0 /\ p >= 0 /\ pos \in Int /\ q - 1 <= pos
  BY <1>0
<1>4. p < q /\ q \in 1..pos
  <2>1. p < q
    BY <1>2, <1>3, SlotAhead
  <2> QED
    BY <1>0, <2>1
<1>5. SlotAt(t, type, key, i, p, q) /\ t[q] = data[q]
  <2>1. SlotAt(t, type, key, i, p, q)
    BY <1>0, <1>2, <1>3, AgreeSlot
  <2> QED
    BY <1>0, <1>4, <2>1 DEF Agree
<1>6. ~isWhiteSpace(t[q]) /\ (type = "array" /\ p = i => t[q] # Closing(type))
  BY <1>2, <1>5
<1>7. ASSUME NEW e, NEW b, Whole(i, e, b) \in D PROVE x < e
  <2>1. e \in Nat /\ Leads(t, D, Begun(i, p, <<type, items>>), e, b)
    BY <1>1, <1>2, <1>7, InnermostLeads
  <2>2. PICK r \in Nat : r < e /\ \E c : Whole(q, r, c) \in D
    BY <1>0, <1>1, <1>5, <1>6, <2>1, ValueInside, SMTT(30)
  <2>3. x <= r
    BY <2>2
  <2> QED
    BY <2>1, <2>2, <2>3
<1>8. 1 \in 1..Len(partial)
  BY InnermostLeads
<1>9. \A e, b : Whole(o[1].from, e, b) \in D => x < e
  BY <1>1, <1>7
<1> QED
  BY <1>8, <1>9, RootBeyond

\* The document ends behind the key that is due.
LEMMA KeyBeyond ==
  ASSUME CommaInv, FramesInv, Parsing, NEW t, NEW D, Viable(t, D), NEW F, NEW o,
         Along(t, D, F, o), NEW q \in Nat, KeyBegins(o, q), q <= pos,
         data[q] = "quote",
         NEW x \in Nat, \A r \in Nat : StringAt(t, q, r) => x <= r
  PROVE  \A e, root : Whole(start + 1, e, root) \in D => x < e
<1>0. /\ t \in Seq(Char) /\ Derivation(t, D) /\ pos \in Nat /\ Agree(data, t, pos) /\ start \in Nat
      /\ Len(t) \in Nat
  BY AlongFacts
<1>p. partial # <<>> /\ partial[1].type = "object" /\ NextAt(data, o[1].from, o[1].to, q)
  BY DEF KeyBegins
<1>1. PICK i \in Nat, p \in Nat : i = o[1].from /\ p = o[1].to /\ start < i /\ i <= p
  BY <1>p, InnermostLeads
<1>2. PICK items : items = partial[1].items
  OBVIOUS
<1>3. i \in Int /\ p \in Int /\ q \in Int /\ i >= 0 /\ p >= 0 /\ pos \in Int /\ q - 1 <= pos
  BY <1>0
<1>4. p < q /\ q \in 1..pos
  <2>1. p < q
    BY <1>p, <1>1 DEF NextAt
  <2> QED
    BY <1>0, <2>1
<1>5. NextAt(t, i, p, q) /\ t[q] = data[q]
  <2>1. NextAt(t, i, p, q)
    BY <1>0, <1>p, <1>1, <1>3, AgreeNext
  <2> QED
    BY <1>0, <1>4, <2>1 DEF Agree
<1>6. ~isWhiteSpace(t[q]) /\ t[q] # Closing("object")
  BY <1>5, NotWhite
<1>7. ASSUME NEW e, NEW b, Whole(i, e, b) \in D PROVE x < e
  <2>1. e \in Nat /\ Leads(t, D, Begun(i, p, <<"object", items>>), e, b)
    BY <1>p, <1>1, <1>2, <1>7, InnermostLeads
  <2>2. PICK r \in Nat : StringAt(t, q, r) /\ r < e
    BY <1>0, <1>1, <1>5, <1>6, <2>1, KeyInside
  <2>3. x <= r
    BY <2>2
  <2> QED
    BY <2>1, <2>2, <2>3
<1>8. 1 \in 1..Len(partial)
  BY <1>p, InnermostLeads
<1>9. \A e, b : Whole(o[1].from, e, b) \in D => x < e
  BY <1>1, <1>7
<1> QED
  BY <1>8, <1>9, RootBeyond

\* Each document of D ends beyond x.
EndsBeyond(D, x) == \A e, root : Whole(start + 1, e, root) \in D => x < e

\* What was read goes on, in D, unless the root was read.
Beyond(D) == ~(partial = <<>> /\ Place \in {"exprEnd", "rootEnd"}) => EndsBeyond(D, Taken)

\* A document ends with its bracket.
LEMMA DocumentEnds ==
  ASSUME NEW t, NEW D, Viable(t, D), start \in Nat, NEW e, NEW root, Whole(start + 1, e, root) \in D
  PROVE  e \in Nat /\ start + 1 <= e /\ e <= Len(t) /\ t[e] \in {"}", "]"}
<1>1. t \in Seq(Char) /\ Derivation(t, D) /\ t[start + 1] \in {"{", "["} /\ Len(t) \in Nat
  BY LenProperties DEF Viable, Fits
<1>2. e \in Nat /\ start + 1 <= e /\ e <= Len(t)
  <2>1. e \in 1..Len(t) /\ start + 1 <= e
    BY <1>1, WholeByRule
  <2>2. \A n \in Nat : e \in 1..n => e \in Nat /\ e <= n
    OBVIOUS
  <2> QED
    BY <1>1, <2>1, <2>2
<1>3. t[e] \in {"}", "]"}
  <2>1. Closes(t, D, start + 1, e, root)
    BY <1>1, WholeKinds
  <2>2. \A type : Closing(type) \in {"}", "]"}
    BY DEF Closing
  <2> QED
    BY <2>1, <2>2 DEF Closes
<1> QED
  BY <1>1, <1>2, <1>3

\* A bracket within a string does not end the document.
LEMMA BracketInString ==
  ASSUME CommaInv, FramesInv, Parsing, NEW t, NEW D, Viable(t, D), NEW F, NEW o,
         Along(t, D, F, o), On("chars"), Lost
  PROVE  EndsBeyond(D, Taken + 1)
<1>0. /\ start \in Nat /\ Taken \in Nat /\ pos \in Nat /\ Agree(data, t, pos) /\ Taken <= pos
      /\ t \in Seq(Char) /\ Derivation(t, D) /\ Here(F, o)
      /\ ~AtEOF => pos = Taken + 1 /\ next = data[Taken + 1] /\ next = t[Taken + 1]
  BY AlongFacts
<1>1. Place = "chars" /\ ~AtEOF
  BY DEF On, At, Place
<1>2. pos = Taken + 1 /\ next = t[Taken + 1]
  BY <1>0, <1>1
<1>3. PICK q \in start + 1..Taken :
        /\ data[q] = "quote" /\ (KeyBegins(o, q) \/ Begins(o, q)) /\ BodyAt(data, q + 1, Taken + 1)
  <2>1. InString(o)
    BY <1>0, <1>1 DEF Here, StringPlaces
  <2>2. \A q : TextBegins(o, q) => KeyBegins(o, q) \/ Begins(o, q)
    BY DEF TextBegins
  <2> QED
    BY <1>1, <2>1, <2>2 DEF InString
<1>4. PICK x \in Nat, i \in Nat : x = Taken + 1 /\ i = q + 1
  BY <1>0
<1>5. q \in Nat /\ q <= pos /\ q \in 1..pos /\ i >= 1 /\ x - 1 <= pos /\ q + 1 \in Int /\ x \in Int /\ pos \in Int
      /\ i \in Int
  BY <1>0, <1>4
<1>6. BodyAt(t, i, x)
  <2>1. BodyAt(data, i, x)
    BY <1>3, <1>4
  <2> QED
    BY <1>0, <1>5, <2>1, AgreeBody
<1>7. ASSUME NEW r \in Nat, StringAt(t, q, r) PROVE x <= r
  <2>1. BodyAt(t, i, r) /\ t[r] = "quote"
    BY <1>4, <1>7 DEF StringAt
  <2>2. x = r \/ \E m \in i..r : PieceAt(t, x, m)
    BY <1>6, <2>1, BodyMeets
  <2>3. ASSUME NEW m \in i..r, PieceAt(t, x, m) PROVE x <= r
    <3>1. m \in Int /\ x < m
      BY <1>5, <2>3, PieceFacts
    <3> QED
      BY <3>1
  <2> QED
    BY <2>2, <2>3
<1>8. CASE KeyBegins(o, q)
  <2>1. EndsBeyond(D, x)
    BY <1>3, <1>5, <1>7, <1>8, KeyBeyond DEF EndsBeyond
  <2> QED
    BY <1>4, <2>1
<1>9. CASE Begins(o, q)
  <2>1. ~isWhiteSpace(data[q]) /\ data[q] # Closing("array") /\ data[q] \notin {"{", "["}
    BY <1>3, NotWhite
  <2>2. partial # <<>> /\ t[q] = data[q]
    BY <1>5, <1>9, <2>1, DueValue
  <2>3. ASSUME NEW r, NEW b, Whole(q, r, b) \in D PROVE x <= r
    <3>1. StringAt(t, q, r)
      BY <1>0, <1>3, <2>2, <2>3, WholeKinds DEF StringIs
    <3>2. r \in Nat
      BY <1>0, <2>3, ValueStarts
    <3> QED
      BY <1>7, <3>1, <3>2
  <2>4. EndsBeyond(D, x)
    BY <1>5, <1>9, <2>1, <2>2, <2>3, ValueBeyond DEF EndsBeyond
  <2> QED
    BY <1>4, <2>4
<1> QED
  BY <1>3, <1>8, <1>9

\* Nor does the bracket of a container within another.
LEMMA BracketWithin ==
  ASSUME CommaInv, FramesInv, Parsing, NEW t, NEW D, Viable(t, D), NEW F, NEW o,
         Along(t, D, F, o), Head(stack) \in Loops, ~AtEOF, next = Closing(partial[1].type),
         partial # <<>>, Tail(partial) # <<>>
  PROVE  EndsBeyond(D, Taken + 1)
<1>0. partial \in Seq(Container) /\ Len(partial) \in Nat /\ Len(partial) > 0 /\ Taken \in Nat
  BY AlongFacts
<1>1. 1 \in 1..Len(partial) /\ 2 \in 1..Len(partial) /\ 2 = 1 + 1
  <2>1. Len(partial) # 1
    <3>1. Len(partial) = 1 => Tail(partial) = <<>>
      <4>1. Tail(partial) \in Seq(Container) /\ Len(Tail(partial)) = Len(partial) - 1
        BY <1>0
      <4>2. Len(partial) = 1 => Len(Tail(partial)) = 0
        BY <4>1
      <4> QED
        BY <4>1, <4>2, EmptySeq
    <3> QED
      BY <3>1
  <2> QED
    BY <1>0, <2>1
<1>2. PICK i, x, tree : /\ i = o[1].from /\ x = Taken + 1
                        /\ tree = <<partial[1].type, partial[1].items>>
  OBVIOUS
<1>3. x \in Nat /\ \A r, b : Whole(i, r, b) \in D => r = x
  <2>1. i = o[1].from /\ x = Taken + 1 /\ tree = <<partial[1].type, partial[1].items>>
    BY <1>2
  <2>2. x \in Nat /\ EndsAt(D, i, x)
    BY <2>1, CloseMeans
  <2> QED
    BY <2>2 DEF EndsAt
<1>4. \A e, b : Whole(o[1].from, e, b) \in D => x <= e
  BY <1>2, <1>3
<1>5. \A e, b : Whole(o[2].from, e, b) \in D => x < e
  BY <1>1, <1>3, <1>4, NestedBeyond
<1>6. EndsBeyond(D, x)
  BY <1>1, <1>3, <1>5, RootBeyond DEF EndsBeyond
<1> QED
  BY <1>2, <1>6

\* A closing bracket is read in strings and at the end of containers only.
LEMMA BracketReads ==
  ASSUME Step, ~EndOfData, ~RootEnd, Parsing, Lost
  PROVE  Throw("BAD_JSON") \/ Peek \/ On("chars") \/ ObjectLoop \/ ArrayLoop
<1>1. /\ ~isWhiteSpace(next) /\ ~isNumber(next) /\ ~isHex(next) /\ ~isOct(next) /\ ~isBin(next)
      /\ ~isLowerAlpha(next) /\ ~isExponent(next)
  BY Zenon DEF Lost, isWhiteSpace, WhiteSpace, isNumber, Digits, isHex, isOct, isBin, isLowerAlpha,
               LowerAlpha, LowerHex, isExponent, UpperHex
<1>2. next \notin SimpleEscapes /\ next \notin {"quote", "{", "[", "-", "+", "0", "u", "x", "o", "b", ".", ",", ":"}
  BY Zenon DEF Lost, SimpleEscapes
<1>3. ~Construct /\ ~ReadSync
  BY DEF Construct, ReadSync, On, At, Parsing
<1>4. CASE ParseJSON \/ skipWhite \/ BeginString \/ NotAString \/ StringChar \/ Escape \/ validateUnicodeSequence
           \/ StringDone
  BY <1>1, <1>2, <1>4 DEF ParseJSON, skipWhite, BeginString, NotAString, StringChar, Escape,
     validateUnicodeSequence, HexDigit, StringDone, Jump, Peek, parserVars
<1>5. CASE Natural \/ AfterZero \/ MoreDigits \/ Decimal \/ Fraction \/ Exponent \/ ExponentSign
           \/ NumberEnd \/ NumberDone
  BY <1>1, <1>2, <1>5 DEF Natural, AfterZero, MoreDigits, DigitsOf, Decimal, Fraction, Exponent,
     ExponentSign, NumberEnd, NumberDone, Jump, Peek, parserVars
<1>6. CASE BeginLiteral \/ Letters \/ LiteralDone
  BY <1>1, <1>6 DEF BeginLiteral, Letters, LiteralDone, Jump, Peek, parserVars
<1>7. CASE Expression \/ ExpressionEnd \/ ObjectKey \/ ObjectAdd \/ ArrayAdd
  BY <1>1, <1>2, <1>7 DEF Expression, ExpressionEnd, ObjectKey, ObjectAdd, ArrayAdd, Jump, Peek,
     parserVars
<1> QED
  BY <1>3, <1>4, <1>5, <1>6, <1>7 DEF Step

\* Of the root alone nothing is checked behind it.
LEMMA EndPlaces ==
  ASSUME FramesInv, stack \in Seq(Labels), StackOK, Parsing, partial = <<>>,
         Place \in {"exprEnd", "rootEnd"}, Step, ~RootEnd
  PROVE  skipWhite
<1>1. Head(stack) # "exprEnd"
  BY ItemOfContainer DEF Parsing
<1>2. Head(stack) \in {"skip", "rootEnd"}
  BY <1>1 DEF Place
<1>3. Head(stack) \notin Checked
  BY <1>2, Zenon DEF Checked
<1>4. ~EndOfData
  BY <1>3 DEF EndOfData
<1> QED
  BY <1>2, <1>4 DEF Step, Construct, ParseJSON, RootEnd, ReadSync, skipWhite, Expression, ExpressionEnd,
     ObjectLoop, ObjectKey, ObjectAdd, ArrayLoop, ArrayAdd, BeginString, NotAString,
     StringChar, Escape, validateUnicodeSequence, HexDigit, StringDone, Natural,
     AfterZero, MoreDigits, DigitsOf, Decimal, Fraction, Exponent, ExponentSign,
     NumberEnd, NumberDone, BeginLiteral, Letters, LiteralDone, On, At

\* Behind the root white space alone is skipped.
LEMMA EndStays ==
  ASSUME FramesInv, stack \in Seq(Labels), StackOK, Parsing, partial = <<>>,
         Place \in {"exprEnd", "rootEnd"}, Step, ~RootEnd
  PROVE  partial' = <<>> /\ Place' \in {"exprEnd", "rootEnd"}
<1>1. skipWhite
  BY EndPlaces
<1>2. Head(stack) = "skip" /\ stack # <<>> /\ partial' = partial
  BY <1>1 DEF skipWhite, At, Jump, treeVars
<1>3. CASE UNCHANGED stack
  BY <1>2, <1>3 DEF Place
<1>4. CASE Jump(<<>>)
  <2>1. Place = stack[2] /\ Head(stack) \notin Roots /\ Goto(<<>>)
    BY <1>2, <1>4, SkipPlaces DEF Jump
  <2>2. Head(stack') = stack[2]
    BY <1>2, <2>1, ReturnPlace
  <2>3. Head(stack') # "skip"
    BY <2>1, <2>2
  <2> QED
    BY <1>2, <2>1, <2>2, <2>3 DEF Place
<1> QED
  BY <1>1, <1>3, <1>4 DEF skipWhite

\* A step of the parser does not read past the end of a document of D, unless
\* it is done with the root.
LEMMA BeyondStep ==
  ASSUME CommaInv, FramesInv, Parsing, NEW t, NEW D, Viable(t, D), NEW F, NEW o,
         Along(t, D, F, o), Step, ~RootEnd, Beyond(D)
  PROVE  Beyond(D)' \/ Throw("BAD_JSON") \/ EndOfData
<1>0. /\ start \in Nat /\ Taken \in Nat /\ start <= Taken /\ pos \in Nat /\ pos <= Len(t)
      /\ stack \in Seq(Labels) /\ StackOK /\ stack # <<>> /\ PartOK(F, o)
      /\ ~AtEOF => pos = Taken + 1 /\ next = t[Taken + 1]
  BY AlongFacts
<1>1. ~ReadSync
  BY DEF ReadSync, At, Parsing
<1>2. Effect /\ UNCHANGED start /\ (AtEOF => Still)
  BY <1>0, <1>1, StepEffect
<1>3. CASE partial = <<>> /\ Place \in {"exprEnd", "rootEnd"}
  BY <1>0, <1>3, EndStays DEF Beyond
<1>4. CASE EndsBeyond(D, Taken)
  <2>1. CASE Still
    <3>1. Taken' = Taken
      BY <2>1 DEF Still, streamVars, Taken
    <3> QED
      BY <1>2, <1>4, <3>1 DEF Beyond, EndsBeyond
  <2>2. CASE nextChar /\ ~AtEOF
    <3>1. Taken' = Taken + 1 /\ next = t[Taken + 1]
      BY <1>0, <2>2, Passes DEF Passed
    <3>2. CASE EndsBeyond(D, Taken + 1)
      BY <1>2, <3>1, <3>2 DEF Beyond, EndsBeyond
    <3>3. CASE ~Lost
      <4>1. ASSUME NEW e, NEW root, Whole(start + 1, e, root) \in D PROVE Taken + 1 < e
        <5>1. e \in Nat /\ (t[e] = next => Lost)
          BY <1>0, <4>1, DocumentEnds, Zenon DEF Lost
        <5>2. Taken < e /\ e # Taken + 1
          BY <1>4, <3>1, <3>3, <4>1, <5>1 DEF EndsBeyond
        <5> QED
          BY <1>0, <5>1, <5>2
      <4> QED
        BY <3>2, <4>1 DEF EndsBeyond
    <3>4. CASE Lost /\ On("chars")
      BY <3>2, <3>4, BracketInString
    <3>5. CASE Lost /\ (ObjectLoop \/ ArrayLoop) /\ ~Peek /\ ~Throw("BAD_JSON")
      <4>1. Head(stack) \in Loops /\ partial # <<>>
        BY <1>0, <3>5, LoopsOK
      <4>2. next = Closing(partial[1].type)
        <5>1. partial[1].type = IF Head(stack) = "objLoop" THEN "object" ELSE "array"
          BY <1>0, <3>5, LoopsOK
        <5>2. Head(stack) = "objLoop" => Closing(partial[1].type) = "}"
          BY <5>1, Zenon DEF Closing
        <5>3. Head(stack) # "objLoop" => Closing(partial[1].type) = "]"
          BY <5>1, Zenon DEF Closing
        <5>4. ObjectLoop => Head(stack) = "objLoop" /\ next = "}"
          BY <3>5, Zenon DEF ObjectLoop, On, At, Jump
        <5>5. ArrayLoop => Head(stack) # "objLoop" /\ next = "]"
          BY <3>5, Zenon DEF ArrayLoop, On, At, Jump
        <5>6. ObjectLoop => next = Closing(partial[1].type)
          BY <5>2, <5>4
        <5>7. ArrayLoop => next = Closing(partial[1].type)
          BY <5>3, <5>5
        <5> QED
          BY <3>5, <5>6, <5>7
      <4>3. CASE Tail(partial) # <<>>
        BY <2>2, <3>2, <4>1, <4>2, <4>3, BracketWithin
      <4>4. CASE Tail(partial) = <<>>
        <5>1. Goto(<<"skip">>) /\ partial' = Tail(partial)
          BY <1>0, <3>5, <4>2, LoopsOK
        <5>2. Place' \in {"exprEnd", "rootEnd"}
          BY <1>0, <4>1, <5>1, AfterLoop
        <5> QED
          BY <4>4, <5>1, <5>2 DEF Beyond
      <4> QED
        BY <4>3, <4>4
    <3>6. ~Peek
      <4>1. Peek => pos' = pos /\ eof' = eof /\ kind' = kind
        BY DEF Peek, streamVars
      <4>2. Peek => Taken' = Taken
        BY <4>1 DEF Taken
      <4> QED
        BY <1>0, <3>1, <4>2
    <3> QED
      BY <3>3, <3>4, <3>5, <3>6, BracketReads
  <2> QED
    BY <1>2, <2>1, <2>2, EffectMoves
<1> QED
  BY <1>3, <1>4 DEF Beyond

\* Where the data end in the middle of a call, the document does not.
LEMMA EndIsPremature ==
  ASSUME FramesInv, stack \in Seq(Labels), StackOK, Parsing, EndOfData, NEW D, Beyond(D)
  PROVE  EndsBeyond(D, Taken)'
<1>1. stack # <<>> /\ Head(stack) \in Checked /\ Throw("EOF")
  BY DEF EndOfData
<1>2. Head(stack) \notin {"skip", "rootEnd"}
  BY <1>1, Zenon DEF Checked
<1>3. Place = Head(stack)
  BY <1>2 DEF Place
<1>4. EndsBeyond(D, Taken)
  <2>1. Head(stack) = "exprEnd" => partial # <<>>
    BY <1>1, ItemOfContainer
  <2> QED
    BY <1>2, <1>3, <2>1 DEF Beyond
<1>5. Taken' = Taken /\ start' = start
  BY <1>1 DEF Throw, streamVars, Taken
<1> QED
  BY <1>4, <1>5 DEF EndsBeyond

\* A document of D ends beyond what was read, unless the root was read.
Says(D) == /\ Parsing => Beyond(D)
           /\ result = "EOF" => EndsBeyond(D, Taken)

\* What is known of a call besides: what it will say, and when.
VerdictInv ==
  /\ FollowInv
  /\ kind = "cstr" => Len(data) > 0 /\ data[Len(data)] = "nul"
  /\ kind = "file" /\ eof => pos = Len(data)
  /\ At("construct") \/ Parsing \/ result = "tree" \/ result \in Errors
  /\ result = "EOF" /\ (At("readSync") \/ kind # "rpc") => AtEOF
  /\ \A t, D : Viable(t, D) => Says(D)

\* VerdictInv holds as the first call begins.
LEMMA InitVerdictInv ==
  ASSUME "rpc" \in Kinds =>
           \A json \in Inputs : Len(json) > 0 /\ json[Len(json)] = "newline"
  PROVE  Init => VerdictInv
<1> SUFFICES ASSUME Init PROVE VerdictInv
  OBVIOUS
<1>1. stack # <<>> /\ Head(stack) = "construct" /\ result = "none"
  BY SMT DEF Init, CallInit
<1>2. At("construct") /\ ~Parsing /\ result # "EOF"
  BY <1>1 DEF At, Parsing
<1>3. kind = "cstr" => Len(data) > 0 /\ data[Len(data)] = "nul"
  <2>1. PICK json : json \in Inputs /\ (kind = "cstr" => data = Append(json, "nul"))
    BY DEF Init, StreamInit, StreamOver
  <2>2. json \in Seq(Char)
    BY <2>1, StreamAssumption
  <2>3. PICK c : c = "nul"
    OBVIOUS
  <2>4. Len(Append(json, c)) > 0 /\ Append(json, c)[Len(Append(json, c))] = c
    <3>1. Len(json) \in Nat
      BY <2>2, LenProperties
    <3>2. Append(json, c) = json \o <<c>>
      BY <2>2
    <3> QED
      BY <2>2, <3>1
  <2> QED
    BY <2>1, <2>3, <2>4
<1>4. ~eof
  BY DEF Init, StreamInit, StreamOver
<1> QED
  BY <1>2, <1>3, <1>4, InitFollowInv DEF VerdictInv, Says

\* An error ends a call: what it says is known.
LEMMA ThrowSays ==
  ASSUME NEW error, Throw(error)
  PROVE  /\ ~Parsing' /\ result' = error /\ At("readSync")' /\ AtEOF' = AtEOF
         /\ UNCHANGED <<streamVars, start>>
<1>1. stack' = <<"readSync">> /\ result' = error /\ UNCHANGED <<streamVars, start>>
  BY DEF Throw
<1>2. stack' # <<>> /\ Head(stack') = "readSync"
  BY <1>1
<1> QED
  BY <1>1, <1>2 DEF Parsing, At, AtEOF, streamVars

\* A step of the parser, up to the end of the root, throws or goes on.
LEMMA StepOutcome ==
  ASSUME VerdictInv, Parsing, Step, ~RootEnd
  PROVE  \/ EndOfData \/ Throw("BAD_JSON")
         \/ Parsing' /\ result' = "none"
<1>1. stack \in Seq(Labels) /\ StackOK /\ result = "none"
  BY DEF VerdictInv, FollowInv, GrammarInv, CommaInv, MessageInv, TypeOK, Parsing, Returned, At
<1>2. ~Construct /\ ~ReadSync
  BY DEF Construct, ReadSync, On, At, Parsing
<1>3. SUFFICES ASSUME ~EndOfData, ~Throw("BAD_JSON") PROVE Parsing' /\ result' = "none"
  OBVIOUS
<1>4. GoesOn
  BY <1>1, <1>2, <1>3, ScalarsGoOn, TreesGoOn DEF Step
<1>5. stack' # <<>>
  BY <1>1, <1>2, StepEffect
<1> QED
  BY <1>1, <1>4, <1>5 DEF GoesOn, Parsing

\* Outside the parser, a call begins, reads on or ends.
LEMMA FirstOrSync ==
  ASSUME stack \in Seq(Labels), StackOK, Step, ~Parsing
  PROVE  Construct \/ ReadSync \/ EndOfData
<1> SUFFICES ASSUME ~ReadSync PROVE Construct \/ EndOfData
  OBVIOUS
<1>1. stack # <<>>
  BY StepEffect
<1>2. Head(stack) \in {"construct", "readSync"}
  BY <1>1 DEF Parsing
<1>3. CASE Head(stack) = "readSync"
  BY <1>3 DEF Step, Construct, ParseJSON, RootEnd, skipWhite, Expression, ExpressionEnd,
     ObjectLoop, ObjectKey, ObjectAdd, ArrayLoop, ArrayAdd, BeginString, NotAString,
     StringChar, Escape, validateUnicodeSequence, HexDigit, StringDone, Natural,
     AfterZero, MoreDigits, DigitsOf, Decimal, Fraction, Exponent, ExponentSign,
     NumberEnd, NumberDone, BeginLiteral, Letters, LiteralDone, On, At
<1> QED
  BY <1>1, <1>2, <1>3, ConstructFirst

\* Then no document of D was passed.
LEMMA StepSays ==
  ASSUME VerdictInv, Parsing, Step, ~RootEnd, NEW t, NEW D, Viable(t, D)
  PROVE  Says(D)'
<1>1. CommaInv /\ FramesInv /\ stack \in Seq(Labels) /\ StackOK
  BY DEF VerdictInv, FollowInv, GrammarInv, CommaInv, MessageInv, TypeOK
<1>2. PICK F, o : Along(t, D, F, o)
  BY DEF VerdictInv, FollowInv, Goes
<1>3. Beyond(D)
  BY DEF VerdictInv, Says
<1>4. CASE EndOfData
  <2>1. EndsBeyond(D, Taken)'
    BY <1>1, <1>3, <1>4, EndIsPremature
  <2>2. ~Parsing'
    BY <1>4, ThrowSays DEF EndOfData
  <2> QED
    BY <2>1, <2>2 DEF Says
<1>5. CASE Throw("BAD_JSON")
  <2>1. ~Parsing' /\ result' = "BAD_JSON"
    BY <1>5, ThrowSays
  <2> QED
    BY <2>1 DEF Says
<1>6. CASE ~EndOfData /\ ~Throw("BAD_JSON")
  <2>1. Parsing' /\ result' = "none"
    BY <1>6, StepOutcome
  <2>2. Beyond(D)'
    BY <1>1, <1>2, <1>3, <1>6, BeyondStep
  <2> QED
    BY <2>1, <2>2 DEF Says
<1> QED
  BY <1>4, <1>5, <1>6

\* A call begins: its document lies ahead.
LEMMA ConstructSays ==
  ASSUME VerdictInv, Construct, NEW t, NEW D, Viable(t, D)
  PROVE  Says(D)' /\ Parsing' /\ result' = "none"
<1>1. /\ CommaInv /\ FramesInv /\ stack \in Seq(Labels) /\ StackOK /\ start \in Nat
      /\ At("construct") /\ stack # <<>> /\ Head(stack) = "construct"
  <2>1. data \in Seq(Char) /\ pos \in 0..Len(data) /\ start \in 0..pos
    BY DEF VerdictInv, FollowInv, GrammarInv, CommaInv, MessageInv, TypeOK
  <2>2. CommaInv /\ FramesInv /\ stack \in Seq(Labels) /\ StackOK
    BY DEF VerdictInv, FollowInv, GrammarInv, CommaInv, MessageInv, TypeOK
  <2> QED
    BY <2>1, <2>2 DEF Construct, On, At
<1>2. partial = <<>> /\ pos = start /\ ~(kind = "file" /\ eof) /\ result = "none"
  BY <1>1 DEF VerdictInv, FollowInv, GrammarInv, At, Returned
<1>3. PartOK({}, <<>>)'
  BY <1>1, <1>2, ConstructOK
<1>4. stack' # <<>> /\ Head(stack') = "parseJSON" /\ start' = start /\ result' = "none"
  <2>1. "parseJSON" \in Labels /\ Goto(<<"parseJSON">>)
    BY PlaceSets DEF Construct, Checked
  <2> QED
    BY <1>1, <1>2, <2>1, HeadAfter DEF Construct, callVars
<1>5. Taken' = start
  <2>1. Place' = "parseJSON"
    BY <1>4 DEF Place
  <2> QED
    BY <1>3, <1>4, <2>1 DEF PartOK, Here
<1>6. \A e, root : Whole(start + 1, e, root) \in D => start < e
  <2> SUFFICES ASSUME NEW e, NEW root, Whole(start + 1, e, root) \in D PROVE start < e
    OBVIOUS
  <2>1. e \in Nat /\ start + 1 <= e
    BY <1>1, DocumentEnds
  <2> QED
    BY <1>1, <2>1
<1>7. EndsBeyond(D, Taken)'
  BY <1>4, <1>5, <1>6 DEF EndsBeyond
<1>8. Parsing'
  BY <1>4 DEF Parsing
<1> QED
  BY <1>4, <1>7, <1>8 DEF Says, Beyond

\* The end of the root, readSync(), and a call over no data.
LEMMA CallSays ==
  ASSUME VerdictInv, RootEnd \/ ReadSync \/ (EndOfData /\ ~Parsing), NEW t, NEW D, Viable(t, D)
  PROVE  Says(D)'
<1>1. CommaInv /\ FramesInv /\ stack \in Seq(Labels) /\ StackOK /\ start \in Nat
  <2>1. data \in Seq(Char) /\ pos \in 0..Len(data) /\ start \in 0..pos
    BY DEF VerdictInv, FollowInv, GrammarInv, CommaInv, MessageInv, TypeOK
  <2>2. CommaInv /\ FramesInv /\ stack \in Seq(Labels) /\ StackOK
    BY DEF VerdictInv, FollowInv, GrammarInv, CommaInv, MessageInv, TypeOK
  <2> QED
    BY <2>1, <2>2
<1>2. CASE RootEnd
  <2>1. stack # <<>> /\ Goto(<<"readSync">>) /\ "readSync" \in Labels /\ result' = "tree"
    BY <1>2, PlaceSets DEF RootEnd, At, Unchecked
  <2>2. stack' # <<>> /\ Head(stack') = "readSync"
    BY <1>1, <2>1, HeadAfter
  <2> QED
    BY <2>1, <2>2 DEF Says, Parsing
<1>3. CASE ReadSync
  <2>1. stack # <<>> /\ Head(stack) = "readSync" /\ At("readSync")
    BY <1>3 DEF ReadSync, At
  <2>2. stack' = stack \/ stack' = <<>>
    BY <1>1, <1>3, <2>1, ReadSyncReturns DEF ReadSync
  <2>3. ~Parsing' /\ result' = result /\ start' = start
    BY <1>3, <2>1, <2>2 DEF ReadSync, Parsing, callVars
  <2>4. CASE result = "EOF"
    <3>1. AtEOF /\ EndsBeyond(D, Taken)
      BY <2>1, <2>4 DEF VerdictInv, Says
    <3>2. ~SyncPending
      BY <3>1 DEF AtEOF, SyncPending
    <3>3. pos' = pos /\ kind' = kind /\ eof' = eof
      BY <1>3, <3>2 DEF ReadSync, SyncDiscard, SyncDone
    <3>4. Taken' = Taken
      BY <3>3 DEF Taken
    <3> QED
      BY <2>3, <3>1, <3>4 DEF Says, EndsBeyond
  <2> QED
    BY <2>3, <2>4 DEF Says
<1>4. CASE EndOfData /\ ~Parsing
  <2>1. stack # <<>> /\ Head(stack) \in Checked /\ Throw("EOF")
    BY <1>4 DEF EndOfData
  <2>2. ~Parsing' /\ start' = start /\ UNCHANGED streamVars
    BY <2>1, ThrowSays
  <2>3. At("construct")
    <3>1. "readSync" \notin Checked
      BY DEF Checked
    <3> QED
      BY <1>4, <2>1, <3>1 DEF Parsing, At
  <2>4. pos = start /\ ~(kind = "file" /\ eof)
    BY <2>3 DEF VerdictInv, FollowInv, GrammarInv
  <2>5. Taken' = start - 1
    BY <2>2, <2>4 DEF Taken, streamVars
  <2>6. \A e, root : Whole(start + 1, e, root) \in D => start - 1 < e
    <3> SUFFICES ASSUME NEW e, NEW root, Whole(start + 1, e, root) \in D PROVE start - 1 < e
      OBVIOUS
    <3>1. e \in Nat /\ start + 1 <= e
      BY <1>1, DocumentEnds
    <3> QED
      BY <1>1, <3>1
  <2> QED
    BY <2>2, <2>5, <2>6 DEF Says, EndsBeyond
<1> QED
  BY <1>2, <1>3, <1>4

\* What a step that no text disturbs does with the result.
LEMMA StepVerdict ==
  ASSUME VerdictInv, Step
  PROVE  /\ At("construct")' \/ Parsing' \/ (result = "tree")' \/ (result \in Errors)'
         /\ (result = "EOF" /\ (At("readSync") \/ kind # "rpc"))' => AtEOF'
         /\ data' = data /\ kind' = kind
<1>1. CommaInv /\ FramesInv /\ stack \in Seq(Labels) /\ StackOK
  BY DEF VerdictInv, FollowInv, GrammarInv, CommaInv, MessageInv, TypeOK
<1>2. "BAD_JSON" \in Errors /\ "EOF" \in Errors /\ "none" # "EOF" /\ "BAD_JSON" # "EOF"
  BY DEF Errors
<1>3. data' = data /\ kind' = kind
  <2>1. CASE ReadSync
    BY <2>1 DEF ReadSync, SyncDiscard, SyncDone
  <2>2. CASE ~ReadSync
    BY <1>1, <2>2, StepEffect, EffectMoves DEF nextChar, ReadMoves, Still, streamVars
  <2> QED
    BY <2>1, <2>2
<1>4. CASE EndOfData
  <2>1. Throw("EOF") /\ AtEOF
    BY <1>4 DEF EndOfData
  <2>2. result' = "EOF" /\ AtEOF' = AtEOF
    BY <2>1, ThrowSays
  <2> QED
    BY <1>2, <1>3, <2>1, <2>2
<1>5. CASE RootEnd
  <2>1. result' = "tree"
    BY <1>5 DEF RootEnd
  <2> QED
    BY <1>3, <2>1
<1>6. CASE ReadSync
  <2>1. stack # <<>> /\ Head(stack) = "readSync" /\ At("readSync") /\ ~At("construct") /\ ~Parsing
    BY <1>6 DEF ReadSync, At, Parsing
  <2>2. result' = result
    BY <1>6 DEF ReadSync, callVars
  <2>3. result = "tree" \/ result \in Errors
    BY <2>1 DEF VerdictInv
  <2>4. (result = "EOF" /\ (At("readSync") \/ kind # "rpc"))' => AtEOF'
    <3> SUFFICES ASSUME result = "EOF", (At("readSync") \/ kind # "rpc")' PROVE AtEOF'
      BY <2>2
    <3>1. AtEOF
      BY <2>1 DEF VerdictInv
    <3>2. ~SyncPending
      BY <3>1 DEF AtEOF, SyncPending
    <3>3. SyncDone /\ Return
      BY <1>6, <3>2 DEF ReadSync, SyncDiscard
    <3>4. stack' = <<>>
      BY <1>1, <1>6, <2>1, <3>3, ReadSyncReturns
    <3>5. kind # "rpc" /\ pos' = pos /\ eof' = eof
      BY <1>3, <3>2, <3>3, <3>4 DEF At, SyncDone
    <3> QED
      BY <1>3, <3>1, <3>5 DEF AtEOF
  <2> QED
    BY <1>3, <2>2, <2>3, <2>4
<1>7. CASE Step /\ Parsing /\ ~RootEnd /\ ~EndOfData
  <2>1. CASE Throw("BAD_JSON")
    <3>1. result' = "BAD_JSON"
      BY <2>1, ThrowSays
    <3> QED
      BY <1>2, <1>3, <3>1
  <2>2. CASE Parsing' /\ result' = "none"
    BY <1>2, <1>3, <2>2
  <2> QED
    BY <1>7, <2>1, <2>2, StepOutcome
<1>8. CASE Construct
  <2>1. result' = result /\ result = "none"
    BY <1>8 DEF Construct, callVars, On, At, VerdictInv, FollowInv, GrammarInv, Returned
  <2>2. Parsing'
    <3>1. stack # <<>> /\ "parseJSON" \in Labels /\ Goto(<<"parseJSON">>)
      BY <1>8, PlaceSets DEF Construct, Checked, On, At
    <3> QED
      BY <1>1, <3>1, HeadAfter DEF Parsing
  <2> QED
    BY <1>2, <1>3, <2>1, <2>2
<1>9. CASE ~Parsing /\ ~ReadSync /\ ~EndOfData
  BY <1>1, <1>8, <1>9, FirstOrSync
<1> QED
  BY <1>4, <1>5, <1>6, <1>7, <1>9

\* The end of a file is where its data end.
LEMMA EofStays ==
  ASSUME VerdictInv, Step
  PROVE  kind' = "file" /\ eof' => pos' = Len(data')
<1>1. stack \in Seq(Labels) /\ StackOK /\ pos \in 0..Len(data) /\ data \in Seq(Char)
  BY DEF VerdictInv, FollowInv, GrammarInv, CommaInv, MessageInv, TypeOK
<1>2. kind = "file" /\ eof => pos = Len(data)
  BY DEF VerdictInv
<1>3. CASE ReadSync
  BY <1>2, <1>3 DEF ReadSync, SyncDiscard, SyncDone, SyncPending
<1>4. CASE ~ReadSync
  <2>1. CASE nextChar
    <3>1. /\ eof' = (kind = "file" /\ pos = Len(data)) /\ kind' = kind /\ data' = data
          /\ pos' = IF pos < Len(data) THEN pos + 1 ELSE pos
      BY <2>1 DEF nextChar, ReadMoves
    <3> SUFFICES ASSUME eof' PROVE pos' = Len(data')
      OBVIOUS
    <3>2. pos = Len(data)
      BY <3>1
    <3>3. ~(pos < Len(data))
      <4>1. Len(data) \in Nat
        BY <1>1, LenProperties
      <4> QED
        BY <3>2, <4>1
    <3> QED
      BY <3>1, <3>2, <3>3
  <2>2. CASE Still
    BY <1>2, <2>2 DEF Still, streamVars
  <2> QED
    BY <1>1, <1>4, <2>1, <2>2, StepEffect, EffectMoves
<1> QED
  BY <1>3, <1>4

\* VerdictInv is inductive.
LEMMA NextVerdictInv == VerdictInv /\ [Next]_vars => VerdictInv'
<1> SUFFICES ASSUME VerdictInv, [Next]_vars PROVE VerdictInv'
  OBVIOUS
<1>1. FollowInv'
  BY NextFollowInv DEF VerdictInv
<1>2. stack \in Seq(Labels) /\ StackOK /\ pos \in Nat
  BY LenProperties, SMT DEF VerdictInv, FollowInv, GrammarInv, CommaInv, MessageInv, TypeOK
<1>3. CASE CallAgain
  <2>1. /\ stack' = <<"construct">> /\ result' = "none" /\ kind = "rpc"
        /\ kind' = kind /\ data' = data
    BY <1>3 DEF CallAgain, streamVars
  <2>2. stack' # <<>> /\ Head(stack') = "construct"
    BY <2>1
  <2>3. ~Parsing' /\ At("construct")' /\ result' # "EOF" /\ kind' # "cstr" /\ kind' # "file"
    BY <2>1, <2>2 DEF Parsing, At
  <2> QED
    BY <1>1, <2>3 DEF VerdictInv, Says
<1>4. CASE UNCHANGED vars
  <2>1. UNCHANGED <<kind, data, pos, eof, lastRead, stack, result, start, partial>>
    BY <1>4 DEF vars, streamVars, treeVars, callVars
  <2>2. ASSUME NEW t, NEW D, Viable(t, D)' PROVE Says(D)'
    <3>1. Viable(t, D)
      BY <2>1, <2>2 DEF Viable, Fits
    <3>2. Says(D)
      BY <3>1 DEF VerdictInv
    <3>3. Taken' = Taken /\ Place' = Place
      BY <2>1 DEF Taken, Place
    <3> QED
      BY <2>1, <3>2, <3>3 DEF Says, Beyond, EndsBeyond, Parsing
  <2> QED
    BY <1>1, <2>1, <2>2 DEF VerdictInv, At, Parsing, AtEOF
<1>5. CASE Step
  <2>1. ASSUME NEW t, NEW D, Viable(t, D)' PROVE Says(D)'
    <3>1. UNCHANGED <<data, start>> /\ pos' \in {pos, pos + 1}
      <4>1. CASE ReadSync
        BY <4>1 DEF ReadSync, SyncDiscard, SyncDone, callVars
      <4>2. CASE ~ReadSync
        BY <1>2, <1>5, <4>2, StepEffect, EffectMoves DEF nextChar, ReadMoves, Still, streamVars
      <4> QED
        BY <4>1, <4>2
    <3>2. Viable(t, D)
      BY <1>2, <2>1, <3>1, ViableBefore
    <3>3. CASE Parsing /\ ~RootEnd
      BY <1>5, <3>2, <3>3, StepSays
    <3>4. CASE RootEnd
      BY <3>2, <3>4, CallSays
    <3>5. CASE ~Parsing
      <4>1. CASE Construct
        BY <3>2, <4>1, ConstructSays
      <4>2. CASE ReadSync \/ EndOfData
        BY <3>2, <3>5, <4>2, CallSays
      <4> QED
        BY <1>2, <1>5, <3>5, <4>1, <4>2, FirstOrSync
    <3> QED
      BY <3>3, <3>4, <3>5
  <2>2. kind' = "cstr" => Len(data') > 0 /\ data'[Len(data')] = "nul"
    BY <1>5, StepVerdict DEF VerdictInv
  <2>3. kind' = "file" /\ eof' => pos' = Len(data')
    BY <1>5, EofStays
  <2> QED
    BY <1>1, <1>5, <2>1, <2>2, <2>3, StepVerdict DEF VerdictInv
<1> QED
  BY <1>3, <1>4, <1>5 DEF Next

-----------------------------------------------------------------------------
(***************************************************************************)
(* The text a call is given, and the verdict on it.                        *)
(***************************************************************************)

\* Where the text a call was given ends: before the terminator of a C string,
\* before the newline of a message; of an exact buffer the last byte is never
\* examined.
GivenEnd == IF kind = "file" THEN Len(data) ELSE IF kind = "rpc" THEN pos - 1 ELSE Len(data) - 1

\* What the places are, once a call returned.
LEMMA ReturnedPlaces ==
  ASSUME VerdictInv, Returned
  PROVE  /\ start \in Nat /\ pos \in Nat /\ Len(data) \in Nat /\ pos <= Len(data)
         /\ start <= pos /\ data \in Seq(Char) /\ Fits(data)
         /\ kind \in StreamKinds /\ ~Parsing /\ ~At("construct")
         /\ kind = "rpc" => pos \in 1..Len(data) /\ data[pos] = "newline"
<1>1. /\ data \in Seq(Char) /\ pos \in 0..Len(data) /\ start \in 0..pos /\ kind \in StreamKinds
      /\ MessageOK
  BY DEF VerdictInv, FollowInv, GrammarInv, CommaInv, MessageInv, TypeOK
<1>2. /\ start \in Nat /\ pos \in Nat /\ Len(data) \in Nat /\ pos <= Len(data) /\ start <= pos
  BY <1>1, LenProperties
<1>3. kind = "rpc" => pos > start /\ data[pos] = "newline"
  BY <1>1 DEF MessageOK, MessageRead
<1>4. kind = "rpc" => pos \in 1..Len(data)
  BY <1>2, <1>3
<1> QED
  BY <1>1, <1>2, <1>3, <1>4 DEF Fits, Returned, Parsing, At

\* What was examined, where the data ended in the middle of the text.
LEMMA ExaminedAtEOF ==
  ASSUME VerdictInv, Returned, result = "EOF"
  PROVE  /\ Taken = GivenEnd /\ Taken \in Int
         /\ kind = "file" => Taken = pos
         /\ kind # "file" => Taken = pos - 1
         /\ kind = "cstr" => pos \in 1..Len(data) /\ data[pos] = "nul"
<1>1. /\ pos \in Nat /\ Len(data) \in Nat /\ kind \in {"cstr", "view", "file", "rpc"}
  BY ReturnedPlaces DEF StreamKinds
<1>2. kind # "rpc" => AtEOF
  BY DEF VerdictInv
<1>3. CASE kind = "file"
  <2>1. eof /\ pos = Len(data)
    BY <1>2, <1>3 DEF AtEOF, VerdictInv
  <2> QED
    BY <1>1, <1>3, <2>1 DEF Taken, GivenEnd
<1>4. CASE kind = "rpc"
  BY <1>1, <1>4 DEF Taken, GivenEnd
<1>5. CASE kind \in {"cstr", "view"}
  <2>1. pos = Len(data)
    BY <1>2, <1>5 DEF AtEOF
  <2>2. kind = "cstr" => Len(data) > 0 /\ data[Len(data)] = "nul"
    BY DEF VerdictInv
  <2>3. kind = "cstr" => pos \in 1..Len(data) /\ data[pos] = "nul"
    BY <1>1, <2>1, <2>2
  <2>4. kind # "file" /\ kind # "rpc"
    BY <1>5
  <2> QED
    BY <1>1, <2>1, <2>3, <2>4 DEF Taken, GivenEnd
<1> QED
  BY <1>1, <1>3, <1>4, <1>5

\* What is examined lies within what was given.
LEMMA ExaminedWasGiven ==
  ASSUME VerdictInv, Returned
  PROVE  Taken <= GivenEnd /\ Taken \in Int /\ GivenEnd \in Int /\ Taken <= pos
<1>1. /\ pos \in Nat /\ Len(data) \in Nat /\ pos <= Len(data)
  BY ReturnedPlaces
<1>2. kind = "file" => Taken <= pos /\ Taken \in Int
  BY <1>1 DEF Taken
<1>3. kind # "file" => Taken = pos - 1
  BY DEF Taken
<1> QED
  BY <1>1, <1>2, <1>3 DEF GivenEnd

\* A text that ends too early has no document: none ends within what was read.
LEMMA EofIsPremature ==
  ASSUME VerdictInv, Returned, result = "EOF", NEW t, NEW D, Viable(t, D),
         NEW j, NEW tree, Whole(start + 1, j, tree) \in D
  PROVE  GivenEnd < j /\ (pos < j \/ (kind = "view" /\ pos = j))
<1>1. /\ start \in Nat /\ pos \in Nat /\ Len(data) \in Nat /\ pos <= Len(data)
      /\ kind \in {"cstr", "view", "file", "rpc"}
      /\ kind = "rpc" => pos \in 1..Len(data) /\ data[pos] = "newline"
  BY ReturnedPlaces DEF StreamKinds
<1>2. start \in Nat /\ pos \in Nat
  BY <1>1
<1>4. Taken < j
  BY DEF VerdictInv, Says, EndsBeyond
<1>d. j \in Nat /\ start + 1 <= j /\ t[j] \in {"}", "]"}
  BY <1>2, DocumentEnds
<1>5. j \in Nat /\ start + 1 <= j
  BY <1>d
<1>6. kind \in {"cstr", "rpc"} => j # pos
  <2> SUFFICES ASSUME kind \in {"cstr", "rpc"}, j = pos PROVE FALSE
    OBVIOUS
  <2>1. pos \in 1..pos
    BY <1>2, <1>5
  <2>2. t[pos] = data[pos]
    BY <2>1 DEF Viable, Fits
  <2>3. data[pos] \in {"nul", "newline"}
    BY <1>1, ExaminedAtEOF
  <2> QED
    BY <1>d, <2>2, <2>3
<1>7. GivenEnd < j
  BY <1>4, ExaminedAtEOF
<1>8. CASE kind = "file"
  BY <1>4, <1>7, <1>8, ExaminedAtEOF
<1>9. CASE kind # "file"
  <2>1. Taken = pos - 1
    BY <1>9, ExaminedAtEOF
  <2>2. pos <= j
    BY <1>2, <1>4, <1>5, <2>1
  <2>3. pos < j \/ pos = j
    BY <1>2, <1>5, <2>2
  <2>4. kind = "view" \/ kind \in {"cstr", "rpc"}
    BY <1>1, <1>9
  <2> QED
    BY <1>6, <1>7, <2>3, <2>4
<1> QED
  BY <1>8, <1>9

\* A text that parseJSON finds to end too early does not contain its document:
\* however it goes on, a document it begins with ends behind the last byte
\* that was read, with it at the earliest in an exact buffer, the last byte of
\* which is never examined.
THEOREM EndOfDataIsPremature ==
  ASSUME "rpc" \in Kinds =>
           \A json \in Inputs : Len(json) > 0 /\ json[Len(json)] = "newline"
  PROVE  Spec => [](Returned /\ result = "EOF" =>
                      \A t, j, tree :
                        /\ Fits(t) /\ t[start + 1] \in {"{", "["} /\ Derived(t, start + 1, j, tree)
                        => pos < j \/ (kind = "view" /\ pos = j))
<1>1. VerdictInv => (Returned /\ result = "EOF" =>
                      \A t, j, tree :
                        /\ Fits(t) /\ t[start + 1] \in {"{", "["} /\ Derived(t, start + 1, j, tree)
                        => pos < j \/ (kind = "view" /\ pos = j))
  BY EofIsPremature DEF Viable, Derived
<1> QED
  BY InitVerdictInv, NextVerdictInv, <1>1, PTL DEF Spec

\* parseJSON returns a tree if and only if a document stands at the beginning
\* of the text it was given, and then the tree of that document: it accepts
\* what the rules derive, nothing else, and makes of it what they do.
THEOREM TreesAreExactlyTheDocuments ==
  ASSUME "rpc" \in Kinds =>
           \A json \in Inputs : Len(json) > 0 /\ json[Len(json)] = "newline"
  PROVE  Spec => [](Returned =>
                      \A tree : (result = "tree" /\ atom = tree) <=>
                        /\ data[start + 1] \in {"{", "["}
                        /\ \E j \in start + 1..GivenEnd : Derived(data, start + 1, j, tree))
<1>1. VerdictInv => (Returned =>
                      \A tree : (result = "tree" /\ atom = tree) <=>
                        /\ data[start + 1] \in {"{", "["}
                        /\ \E j \in start + 1..GivenEnd : Derived(data, start + 1, j, tree))
  <2> SUFFICES ASSUME VerdictInv, Returned, NEW tree
               PROVE  (result = "tree" /\ atom = tree) <=>
                        /\ data[start + 1] \in {"{", "["}
                        /\ \E j \in start + 1..GivenEnd : Derived(data, start + 1, j, tree)
    OBVIOUS
  <2>1. /\ start \in Nat /\ Fits(data) /\ ~Parsing /\ ~At("construct")
        /\ Taken <= GivenEnd /\ Taken \in Int /\ GivenEnd \in Int
    BY ReturnedPlaces, ExaminedWasGiven
  <2>2. ASSUME result = "tree", atom = tree
        PROVE  /\ data[start + 1] \in {"{", "["}
               /\ \E j \in start + 1..GivenEnd : Derived(data, start + 1, j, tree)
    <3>1. TreeIsDerived
      BY <2>1, <2>2 DEF VerdictInv, FollowInv, GrammarInv
    <3>2. PICK j \in start + 1..Taken : Derived(data, start + 1, j, atom)
      BY <3>1 DEF TreeIsDerived
    <3>3. j \in start + 1..GivenEnd
      BY <2>1, <3>2
    <3> QED
      BY <2>2, <3>1, <3>2, <3>3 DEF TreeIsDerived, RootOK
  <2>3. ASSUME data[start + 1] \in {"{", "["}, NEW j \in start + 1..GivenEnd,
               Derived(data, start + 1, j, tree)
        PROVE  result = "tree" /\ atom = tree
    <3>0. j \in start + 1..GivenEnd
      OBVIOUS
    <3>1. PICK D : Derivation(data, D) /\ Whole(start + 1, j, tree) \in D
      BY <2>3 DEF Derived
    <3>2. Viable(data, D)
      BY <2>1, <2>3, <3>1 DEF Viable
    <3>3. Goes(data, D)
      BY <3>2 DEF VerdictInv, FollowInv
    <3>4. result # "EOF"
      <4>1. ~(GivenEnd < j)
        BY <2>1, <3>0
      <4> QED
        BY <3>1, <3>2, <4>1, EofIsPremature
    <3>5. result = "tree"
      BY <2>1, <3>3, <3>4 DEF VerdictInv, Goes, Errors
    <3> QED
      BY <3>1, <3>3, <3>5 DEF Goes
  <2> QED
    BY <2>2, <2>3
<1> QED
  BY InitVerdictInv, NextVerdictInv, <1>1, PTL DEF Spec
=============================================================================
