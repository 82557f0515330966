---------------------------- MODULE JsonGrammar ----------------------------
(***************************************************************************)
(* What parseJSON promises, stated as a grammar and independently of how   *)
(* the parser works: the set of value trees a text denotes.  A text is cut *)
(* at every comma and colon it contains and a cut counts when all of its   *)
(* parts are texts of the right sort.  The grammar is that of JSON with    *)
(* the liberties rSON takes: numbers in base 16, 8 and 2, nothing before   *)
(* the root, the root an object or array, and the first of two values with *)
(* the same key kept.                                                      *)
(***************************************************************************)
EXTENDS JsonChars, FiniteSetsExt, SequencesExt

From(s, i)   == SubSeq(s, i, Len(s))
UpTo(s, i)   == SubSeq(s, 1, i)
Inner(s)     == SubSeq(s, 2, Len(s) - 1)
AllIn(s, P(_)) == \A i \in DOMAIN s : P(s[i])

Trim(s) == LET ink == {i \in DOMAIN s : ~isWhiteSpace(s[i])}
           IN  IF ink = {} THEN <<>> ELSE SubSeq(s, Min(ink), Max(ink))

Bracketed(s, open, close) == Len(s) >= 2 /\ s[1] = open /\ s[Len(s)] = close

-----------------------------------------------------------------------------
(* Scalars                                                                 *)

RECURSIVE StringBody(_)
StringBody(s) ==
  \/ s = <<>>
  \/ isAllowedAlpha(s[1]) /\ StringBody(From(s, 2))
  \/ Len(s) >= 2 /\ s[1] = "backslash" /\ s[2] \in SimpleEscapes /\ StringBody(From(s, 3))
  \/ /\ Len(s) >= 6 /\ s[1] = "backslash" /\ s[2] = "u"
     /\ AllIn(SubSeq(s, 3, 6), isHex) /\ StringBody(From(s, 7))

IsString(s) == Bracketed(s, "quote", "quote") /\ StringBody(Inner(s))

IsBased(s, prefix, P(_)) ==
  Len(s) >= 2 /\ s[1] = "0" /\ s[2] = prefix /\ AllIn(From(s, 3), P)

IsNatural(s) ==
  \/ s = <<"0">>
  \/ s # <<>> /\ s[1] # "0" /\ AllIn(s, isNumber)
  \/ IsBased(s, "x", isHex) \/ IsBased(s, "o", isOct) \/ IsBased(s, "b", isBin)

IsFraction(s) == s = <<>> \/ (Len(s) >= 2 /\ s[1] = "." /\ AllIn(From(s, 2), isNumber))

IsExponentPart(s) ==
  \/ s = <<>>
  \/ /\ isExponent(s[1])
     /\ \/ IsNatural(From(s, 2))
        \/ Len(s) >= 2 /\ s[2] \in {"-", "+"} /\ IsNatural(From(s, 3))

\* A hexadecimal integer takes every hexadecimal digit there is, so its
\* exponent, if any, comes after a fraction.
IsUnsigned(s) ==
  /\ s # <<>> /\ isNumber(s[1])
  /\ \E i \in 1..Len(s) : \E j \in i..Len(s) :
       /\ IsNatural(UpTo(s, i))
       /\ IsFraction(SubSeq(s, i + 1, j))
       /\ IsExponentPart(From(s, j + 1))
       /\ ~(IsBased(UpTo(s, i), "x", isHex) /\ i < Len(s) /\ isHex(s[i + 1]))

IsNumberText(s) == s # <<>> /\ (IF s[1] = "-" THEN IsUnsigned(From(s, 2)) ELSE IsUnsigned(s))

Scalars(s) ==
  (IF IsString(s) THEN {<<"string", Inner(s)>>} ELSE {})
  \cup (IF s \in Literals THEN {<<"literal", s>>} ELSE {})
  \cup (IF ~IsNumberText(s) THEN {}
        ELSE {<<IF \E i \in DOMAIN s : s[i] = "." THEN "float" ELSE "int", s>>})

-----------------------------------------------------------------------------
(* Containers                                                              *)

Positions(s, c) == {i \in DOMAIN s : s[i] = c}

\* Of the members with the same key only the first counts.
FirstOfEachKey(members) ==
  FoldLeft(LAMBDA kept, m : IF \E i \in DOMAIN kept : kept[i][1] = m[1]
                            THEN kept ELSE Append(kept, m),
           <<>>, members)

RECURSIVE Trees(_), ElementLists(_), MemberLists(_)

\* The trees the whole of s denotes (none when s is not JSON).
Trees(s) ==
  Scalars(s)
  \cup (IF ~Bracketed(s, "[", "]") THEN {}
        ELSE LET inside == Trim(Inner(s))
             IN  {<<"array", items>> : items \in
                    IF inside = <<>> THEN {<<>>} ELSE ElementLists(inside)})
  \cup (IF ~Bracketed(s, "{", "}") THEN {}
        ELSE LET inside == Trim(Inner(s))
             IN  {<<"object", FirstOfEachKey(members)>> : members \in
                    IF inside = <<>> THEN {<<>>} ELSE MemberLists(inside)})

\* The lists of values that s denotes, separated by commas.
ElementLists(s) ==
  {<<v>> : v \in Trees(s)}
  \cup UNION {UNION {{<<v>> \o rest : rest \in ElementLists(Trim(From(s, i + 1)))}
                     : v \in Trees(Trim(UpTo(s, i - 1)))}
              : i \in Positions(s, ",")}

\* The member that s denotes, cut at the colon at c.
MembersAt(s, c) ==
  LET key == Trim(UpTo(s, c - 1))
  IN  IF ~IsString(key) THEN {}
      ELSE {<<Inner(key), v>> : v \in Trees(Trim(From(s, c + 1)))}

Members(s) == UNION {MembersAt(s, c) : c \in Positions(s, ":")}

MemberLists(s) ==
  {<<m>> : m \in Members(s)}
  \cup UNION {UNION {{<<m>> \o rest : rest \in MemberLists(Trim(From(s, i + 1)))}
                     : m \in Members(Trim(UpTo(s, i - 1)))}
              : i \in Positions(s, ",")}

-----------------------------------------------------------------------------
(* Documents                                                               *)

\* A document is an object or array that starts with the text; what follows
\* its last bracket is not looked at.
IsRoot(s) == Bracketed(s, "{", "}") \/ Bracketed(s, "[", "]")

DocumentTrees(s) == UNION {Trees(UpTo(s, k)) : k \in {i \in DOMAIN s : IsRoot(UpTo(s, i))}}
IsDocument(s)    == DocumentTrees(s) # {}
=============================================================================
