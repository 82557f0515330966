------------------------------ MODULE MCParser ------------------------------
(***************************************************************************)
(* Instances of Parser for TLC: the texts made of a beginning and a few    *)
(* tokens, and samples of what needs more.  What parseJSON answers is      *)
(* compared with the grammar of JsonGrammar.                               *)
(***************************************************************************)
EXTENDS ParserInvariant, JsonGrammar, JsonRules, NumberValue

CONSTANTS MaxTokens, RulesLength

TextsOf(beginning, tokens, n) == {beginning \o FlattenSeq(s) : s \in SeqOf(tokens, n)}

Key == <<"quote", "a", "quote">>

\* Kinds
Buffers == {"cstr", "view", "file"}
View    == {"view"}
Socket  == {"rpc"}

\* What may follow an opening square bracket.
ArrayTexts   == TextsOf(<<"[">>, {<<"[">>, <<"]">>, <<",">>, <<"1">>, <<"space">>, <<"}">>}, MaxTokens)
ArrayClosers == SeqOf({"]", "1"}, 3)

\* What may follow an opening brace, or a first member with key "a".
ObjectTokens  == {<<"{">>, <<"}">>, <<",">>, <<":">>, <<"1">>, Key}
FirstMember   == <<"{">> \o Key \o <<":", "1">>
ObjectTexts   == TextsOf(<<"{">>, ObjectTokens, MaxTokens - 1)
                 \cup TextsOf(FirstMember \o <<",", "tab">>, ObjectTokens, MaxTokens - 1)
                 \cup {<<"{">> \o Key \o <<":", "[", "1", "}">>,
                       <<"{">> \o Key \o <<":", "[", "]", "]">>,
                       <<"{">> \o Key \o <<":", "1", "]">>,
                       <<"[", "{", "}", ",", "{", "]">>}
ObjectClosers == {a \o b : a \in {<<>>, <<"1">>, <<":", "1">>, Key \o <<":", "1">>},
                           b \in {<<"}">>, <<"}", "}">>, <<"}", "}", "}">>}}

\* Texts that start with anything at all, or not at all.
OddTexts == {FlattenSeq(s) : s \in SeqOf({<<"{">>, <<"}">>, <<"[">>, <<"space">>, <<"control">>}, 3)}

\* A number, a string or a literal as the one element of an array.
ElementTexts(elements) == {<<"[">> \o e \o <<"]">> : e \in elements}

MoreScalars ==
  Literals \cup
  { <<"t", "r", "u">>, <<"n", "u", "l", "l", "space", "1">>, <<"other", "r", "u", "e">>,
    <<"t", "r", "u", "e", "x">>, <<"0", "o", "7", "8">>, <<"0", "b", "1", "2">>,
    <<"1", "E", "+", "9">>, <<"0", "x", "1", "e", "+", "5">>, <<"0", "x", "1", "e", "5">>, <<"0", "x", "1", ".", "5", "e", "3">>,
    <<"quote", "other", "backslash", "/", "quote">> }

StringTexts ==
  {<<"quote">> \o s \o <<"quote">> : s \in SeqOf({"quote", "backslash", "u", "a", "control"}, 5)
     \cup {<<"backslash", "u">> \o d : d \in SeqOf({"g", "a", "backslash"}, 5)}}

ScalarTexts == ElementTexts(SeqOf({"0", "1", "x", "A", "e", ".", "-"}, 4) \cup StringTexts
                            \cup MoreScalars)

-----------------------------------------------------------------------------
(* Numbers by what they are made of                                        *)

IntegerForms  == {[prefix |-> <<>>, base |-> 10, digits |-> d] :
                    d \in {<<0>>, <<1>>, <<7>>, <<1, 2>>, <<9, 9, 9>>, <<2, 0, 4, 7>>, <<2, 0, 4, 8>>}}
                 \cup {[prefix |-> <<"0", "x">>, base |-> 16, digits |-> d] :
                    d \in {<<>>, <<0>>, <<15>>, <<1, 10>>, <<7, 15, 14>>}}
                 \cup {[prefix |-> <<"0", "o">>, base |-> 8, digits |-> d] : d \in {<<7>>, <<1, 7>>}}
                 \cup {[prefix |-> <<"0", "b">>, base |-> 2, digits |-> d] : d \in {<<1>>, <<1, 0, 1>>}}
FractionForms == {<<>>, <<5>>, <<0, 5>>, <<5, 0>>}
\* How an exponent is spelled, and its value.
ExponentForms == { <<<<>>, 0>>, <<<<"e", "0">>, 0>>, <<<<"e", "1">>, 1>>, <<<<"E", "+", "2">>, 2>>,
                   <<<<"e", "-", "1">>, -1>>, <<<<"e", "-", "0", "b", "1", "0">>, -2>> }
NumberForms   == [minus : BOOLEAN, integer : IntegerForms, fraction : FractionForms,
                  exponent : ExponentForms]

Spelled(digits) == [i \in DOMAIN digits |-> HexDigits[digits[i] + 1]]
Spell(r) == (IF r.minus THEN <<"-">> ELSE <<>>)
            \o r.integer.prefix \o Spelled(r.integer.digits)
            \o (IF r.fraction = <<>> THEN <<>> ELSE <<".">> \o Spelled(r.fraction))
            \o r.exponent[1]

ValueIn(base, digits) ==
  FoldFunctionOnSet(LAMBDA x, y : x + y, 0,
                    [i \in DOMAIN digits |-> digits[i] * base ^ (Len(digits) - i)],
                    DOMAIN digits)

\* What is spelled fits the words all the way, and no hexadecimal digit could
\* be meant for an exponent.
Fits(r) ==
  LET e == IF r.exponent[2] < 0 THEN -r.exponent[2] ELSE r.exponent[2]
      n == ValueIn(r.integer.base, r.integer.digits)
      most == Words \div 2
  IN  /\ r.fraction = <<>> => (r.integer.base # 16 \/ r.exponent[1] = <<>>)
      /\ 10 ^ e < most
      /\ (IF r.exponent[2] < 0 \/ r.fraction # <<>> THEN n ELSE n * 10 ^ e) < most + (IF r.minus /\ e = 0 /\ r.fraction = <<>> THEN 1 ELSE 0)

NumbersThatFit == {r \in NumberForms : Fits(r)}
NumberTexts    == ElementTexts({Spell(r) : r \in NumbersThatFit})

\* The exact value, as a numerator and a denominator.
Exact(r) ==
  LET n == ValueIn(r.integer.base, r.integer.digits)
      d == 10 ^ Len(r.fraction)
      sign == IF r.minus THEN -1 ELSE 1
      num == sign * (n * d + ValueIn(10, r.fraction))
  IN  IF r.exponent[2] < 0 THEN <<num, d * 10 ^ (-r.exponent[2])>>
      ELSE <<num * 10 ^ r.exponent[2], d>>

-----------------------------------------------------------------------------
(* Lines on a socket, one message each                                     *)

LineTokens == {<<"[">>, <<"]">>, <<",">>, <<"1">>}
LineTexts  == TextsOf(<<>>, LineTokens, MaxTokens - 2)
              \cup {<<"{", "}", "space">>, <<"{">> \o Key \o <<":", "1", "}", "{">>,
                    <<"[", "1", ",", "]">>, <<"[", "1", ",", "1", "]">>}
LinePairs  == {a \o <<"newline">> \o b \o <<"newline">> : a, b \in LineTexts}

\* A document whose sender closed the connection before the newline.
ClosedEarly == {<<"{", "}">>}

-----------------------------------------------------------------------------
(* The instances                                                           *)

\* The kinds of stream each text is read from: short ones that open no object from all.
DocumentTexts == LinePairs \cup ArrayTexts \cup OddTexts \cup ObjectTexts \cup ScalarTexts \cup NumberTexts
KindsFor(json) == IF json # <<>> /\ json[Len(json)] = "newline" THEN Socket
                  ELSE IF StartsWith(json, {"{"}) \/ Len(json) > 5 THEN {"file"} ELSE Buffers

DocumentInit == CallInit /\ \E json \in Inputs : \E k \in KindsFor(json) : StreamOver(k, json)
DocumentSpec == DocumentInit /\ [][Next]_vars /\ WF_vars(Step)

Completions == IF StartsWith(data, {"{"}) THEN ObjectClosers ELSE ArrayClosers

-----------------------------------------------------------------------------
\* The text a call was given: without the terminator of a C string, up to the
\* newline of a socket's message; of an exact memory buffer the last byte is
\* never examined.
Given == CASE kind = "file" -> data
           [] kind \in {"cstr", "view"} -> UpTo(data, Max({0, Len(data) - 1}))
           [] kind = "rpc"  -> SubSeq(data, start + 1, pos - 1)

\* What the rules make of the text t, from nothing: each round adds the facts
\* that follow from those there are.
Candidates(t, F) ==
  LET begun == {f \in F : f[1] = "begun"}
      after == {<<f, g>> \in begun \X (F \ begun) : f[3] < g[2]}
      keys  == {Inside(t, q, r) : q, r \in Positions(t, "quote")} \cup {<<>>}
      items == {<<x[1][2], x[2][3], <<x[1][4][1], Extended(x[1][4][1], x[1][4][2], key, x[2][4])>>>> :
                  x \in after, key \in keys}
  IN  {Whole(f[2], j, f[4]) : f \in begun, j \in DOMAIN t} \cup {Begun(i[1], i[2], i[3]) : i \in items}

\* Of longer texts, some with each form there is.
LongTexts == ElementTexts(MoreScalars)
             \cup {FirstMember \o s : s \in {<<"}">>, <<",">>, <<",", "tab", "}">>,
                                           <<",", "tab">> \o Key \o <<":", "1", "}">>,
                                           <<",", "tab">> \o Key \o <<":", "}">>}}

FirstFacts(t) ==
  {Begun(i, i, <<type, <<>>>>) : i \in DOMAIN t, type \in {"object", "array"}}
  \cup {Whole(i, j, <<"string", Inside(t, i, j)>>) : i, j \in DOMAIN t}
  \cup {Whole(i, j, <<sort, SubSeq(t, i, j)>>) : i, j \in DOMAIN t, sort \in {"int", "float", "literal"}}

RECURSIVE FactsFrom(_, _)
FactsFrom(t, F) ==
  LET more == {f \in Candidates(t, F) \ F : ByRule(t, F, f)}
  IN  IF more = {} THEN F ELSE FactsFrom(t, F \cup more)

RuleTrees(t) == {f[4] : f \in {g \in FactsFrom(t, {f \in FirstFacts(t) : ByRule(t, {}, f)}) :
                                 g[1] = "whole" /\ g[2] = 1 /\ g[4][1] \in {"object", "array"}}}

\* parseJSON returns a tree exactly for the documents of the grammar, and
\* then the one tree the grammar gives: commas, nesting, duplicate keys,
\* number and string forms included.  The rules of JsonRules say the same,
\* where they are compared.
ParsesExactlyTheDocuments ==
  Returned =>
    LET trees == IF result = "tree" THEN {atom} ELSE {}
    IN  /\ DocumentTrees(Given) = trees
        /\ Len(Given) <= RulesLength \/ Given \in LongTexts => RuleTrees(Given) = trees

\* A text that only lacks its end is reported as JSON_PARSER_EOF, never as
\* JSON_PARSER_BAD_JSON: BAD_JSON means no more data could have helped.
TruncationIsEndOfData ==
  (Returned /\ result = "BAD_JSON" /\ kind = "file") =>
     \A c \in Completions : ~IsDocument(Given \o c)

\* A call returns even when the peer closed the connection.
CallReturnsAfterClose == ~Returned ~> Returned

\* skipWhite "intentionally ignores EOF to prevent the parser from exiting via
\* exception when it sees the final } or ]" (parser.cxx:143): a whole document
\* never ends in JSON_PARSER_EOF.
FinalBracketIsNoError == (Returned /\ result = "EOF") => ~IsDocument(data)

\* A number that fits the machine's words has the value it spells: an integer
\* exactly, rounded towards zero under a negative exponent; one with decimals
\* before it is rounded to a double (JSONParser::number, number(parser),
\* power10).  Small hexadecimal digits are left out: see the README.
NumbersHaveTheirValue ==
  (Returned /\ result = "tree" /\ kind = "file" /\ data \in NumberTexts) =>
    \A r \in NumbersThatFit :
      Spell(r) = atom[2][1][2] =>
        LET value == Exact(r)
            found == FloatValue(Spell(r))
        IN  IF r.fraction = <<>> THEN IntValue(Spell(r)) = Quotient(value[1], value[2])
            ELSE found[1] * value[2] = value[1] * found[2]
=============================================================================
