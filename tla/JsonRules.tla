----------------------------- MODULE JsonRules -----------------------------
(***************************************************************************)
(* The grammar of rSON's documents as rules about the positions of a text  *)
(* t, without recursion: JsonGrammar says the same of whole texts.  What   *)
(* stands from one position to another is a fact, and a set of facts is a  *)
(* derivation when a rule leads to each from others in the set.  A rule    *)
(* goes from shorter parts of the text to longer ones, so no fact of a     *)
(* derivation rests on itself.                                             *)
(***************************************************************************)
EXTENDS JsonChars

Run(t, i, j, S) == \A k \in i..j : t[k] \in S
White(t, i, j)  == Run(t, i, j, WhiteSpace)
Hex == {c \in Char : isHex(c)}
Oct == {c \in Char : isOct(c)}
Bin == {c \in Char : isBin(c)}

\* One c and white space are all there is between positions i and j.
Between(t, i, c, j) ==
  \E m \in i + 1..j - 1 : t[m] = c /\ White(t, i + 1, m - 1) /\ White(t, m + 1, j - 1)

-----------------------------------------------------------------------------
(* Scalars                                                                 *)

\* A character of a string, or an escape, from i up to right before j.
PieceAt(t, i, j) ==
  \/ j = i + 1 /\ isAllowedAlpha(t[i])
  \/ j = i + 2 /\ t[i] = "backslash" /\ t[i + 1] \in SimpleEscapes
  \/ j = i + 6 /\ t[i] = "backslash" /\ t[i + 1] = "u" /\ Run(t, i + 2, i + 5, Hex)

\* Pieces lead from i to j.
BodyAt(t, i, j) ==
  \E S \in SUBSET (i..j) : i \in S /\ j \in S /\ \A k \in S \ {j} : \E m \in S : PieceAt(t, k, m)

StringAt(t, i, j) == i < j /\ t[i] = "quote" /\ t[j] = "quote" /\ BodyAt(t, i + 1, j)
Inside(t, i, j)   == SubSeq(t, i + 1, j - 1)

SignAt(t, i, j) == j = i \/ (j = i + 1 /\ t[i] = "-")

\* A hexadecimal integer takes every hexadecimal digit there is: an "e"
\* right behind its digits is one of them, not an exponent's.
IntegerAt(t, i, j) ==
  \/ i = j /\ t[i] = "0"
  \/ i <= j /\ t[i] # "0" /\ Run(t, i, j, Digits)
  \/ /\ i < j /\ t[i] = "0"
     /\ \/ t[i + 1] = "x" /\ Run(t, i + 2, j, Hex) /\ (j < Len(t) => t[j + 1] \notin Hex)
        \/ t[i + 1] = "o" /\ Run(t, i + 2, j, Oct)
        \/ t[i + 1] = "b" /\ Run(t, i + 2, j, Bin)

FractionAt(t, i, j) == j = i - 1 \/ (i < j /\ t[i] = "." /\ Run(t, i + 1, j, Digits))

MantissaAt(t, i, j) ==
  \E a, b \in i..j : SignAt(t, i, a) /\ IntegerAt(t, a, b) /\ FractionAt(t, b + 1, j)

\* The exponent's mark and sign from i up to right before j.
MarkAt(t, i, j) == isExponent(t[i]) /\ (j = i + 1 \/ (j = i + 2 /\ t[i + 1] \in {"-", "+"}))

NumberAt(t, i, j) ==
  \/ MantissaAt(t, i, j)
  \/ \E c, m \in i..j : MantissaAt(t, i, c) /\ MarkAt(t, c + 1, m) /\ IntegerAt(t, m, j)

NumberSort(s) == IF \E k \in DOMAIN s : s[k] = "." THEN "float" ELSE "int"

ScalarAt(t, i, j, tree) ==
  \/ StringAt(t, i, j) /\ tree = <<"string", Inside(t, i, j)>>
  \/ NumberAt(t, i, j) /\ tree = <<NumberSort(SubSeq(t, i, j)), SubSeq(t, i, j)>>
  \/ SubSeq(t, i, j) \in Literals /\ tree = <<"literal", SubSeq(t, i, j)>>

-----------------------------------------------------------------------------
(* Containers                                                              *)

Opening(type) == IF type = "object" THEN "{" ELSE "["
Closing(type) == IF type = "object" THEN "}" ELSE "]"

\* In a container that opens at i and whose last value so far ends at p,
\* another element or member begins at k.
NextAt(t, i, p, k) ==
  p < k /\ (p = i => White(t, i + 1, k - 1)) /\ (p # i => Between(t, p, ",", k))

\* There a value begins at k, in an object after its key.
SlotAt(t, type, key, i, p, k) ==
  \/ type = "array" /\ NextAt(t, i, p, k)
  \/ /\ type = "object"
     /\ \E q, r \in p + 1..k - 1 : /\ NextAt(t, i, p, q) /\ StringAt(t, q, r)
                                   /\ key = Inside(t, q, r) /\ Between(t, r, ":", k)

\* Of two members with one key the first counts.
Extended(type, items, key, tree) ==
  IF type = "array" THEN Append(items, tree)
  ELSE IF \E n \in DOMAIN items : items[n][1] = key THEN items
  ELSE Append(items, <<key, tree>>)

\* The facts: tree is a value from i to j; its container opens at i and has
\* the items of tree up to j.
Whole(i, j, tree) == <<"whole", i, j, tree>>
Begun(i, j, tree)  == <<"begun", i, j, tree>>

Opens(t, i, j, tree) ==
  i = j /\ \E type \in {"object", "array"} : t[i] = Opening(type) /\ tree = <<type, <<>>>>

Extends(t, F, i, j, tree) ==
  \E f, g \in F, q, r \in i..j :
    LET type == f[4][1]
        key  == Inside(t, q, r)
    IN  /\ f = Begun(i, f[3], f[4]) /\ g = Whole(g[2], j, g[4])
        /\ SlotAt(t, type, key, i, f[3], g[2])
        /\ tree = <<type, Extended(type, f[4][2], key, g[4])>>

Closes(t, F, i, j, tree) ==
  \E p \in i..j - 1 : Begun(i, p, tree) \in F /\ White(t, p + 1, j - 1) /\ t[j] = Closing(tree[1])

ByRule(t, F, f) ==
  \E i, j \in 1..Len(t) :
    /\ i <= j
    /\ \/ f = Whole(i, j, f[4]) /\ (ScalarAt(t, i, j, f[4]) \/ Closes(t, F, i, j, f[4]))
       \/ f = Begun(i, j, f[4]) /\ (Opens(t, i, j, f[4]) \/ Extends(t, F, i, j, f[4]))

Derivation(t, F) == \A f \in F : ByRule(t, F, f)

\* What stands in t from i to j is a value, and tree is what it stands for.
Derived(t, i, j, tree) == \E F : Derivation(t, F) /\ Whole(i, j, tree) \in F
=============================================================================
