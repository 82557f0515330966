------------------------------- MODULE Parser -------------------------------
(***************************************************************************)
(* parseJSON: the recursive-descent parser of src/parser.cxx running over  *)
(* one of the streams of Stream, one character at a time.                  *)
(*                                                                         *)
(* The C++ call stack is explicit: stack is a sequence of labels, its head *)
(* the place control has reached, the others the places to return to.      *)
(* partial holds the containers under construction (the locals "object"    *)
(* and "array" of the frames on the stack), text the lexeme being queued,  *)
(* atom the value the last expression returned.  Every label but those in  *)
(* Unchecked starts with currentChar(), which throws at the end of the     *)
(* data: that is the action EndOfData, and On(l) says it did not.          *)
(***************************************************************************)
EXTENDS Stream

Unchecked == {"skip", "rootEnd", "readSync", "objAdd", "arrAdd", "strDone",
              "numEnd", "numDone", "litDone"}
Checked   == {"construct", "parseJSON", "expr", "exprEnd", "objLoop", "objKey",
              "arrLoop", "str", "chars", "escape", "hex4", "hex3", "hex2",
              "hex1", "natural", "zero", "digits10", "digits16", "digits8",
              "digits2", "decimal", "fraction", "exponent", "expSign", "lit",
              "letters"}
Labels    == Checked \cup Unchecked

Errors  == {"EOF", "BAD_JSON"}       \* JSON_PARSER_EOF, JSON_PARSER_BAD_JSON
Results == {"none", "tree"} \cup Errors

VARIABLES next,          \* JSONParser::next
          lastWasComma,  \* JSONParser::lastWasComma
          stack,         \* the calls in progress, innermost first
          text,          \* the queue<char> of the token being read
          partial,       \* the open containers, innermost first
          atom,          \* the atom the last expression() returned
          result,        \* what this call of parseJSON returns or throws
          start          \* where in data this call began (history)

parserVars == <<next, lastWasComma>>
treeVars   == <<text, partial, atom>>
callVars   == <<result, start>>
vars       == <<streamVars, parserVars, stack, treeVars, callVars>>

NoAtom   == <<"none", <<>> >>
Returned == stack = <<>>

At(l)        == stack # <<>> /\ Head(stack) = l
On(l)        == At(l) /\ ~AtEOF
Goto(labels) == stack' = labels \o Tail(stack)
Return       == stack' = Tail(stack)

\* parseJSON is about to construct its JSONParser.
CallInit ==
  /\ next = "nul" /\ lastWasComma = FALSE
  /\ stack = <<"construct">>
  /\ text = <<>> /\ partial = <<>> /\ atom = NoAtom
  /\ result = "none" /\ start = 0

Init == StreamInit /\ CallInit

-----------------------------------------------------------------------------
(* The parser's primitives                                                 *)

\* nextChar(), called where atEOF() was just seen to be false.
nextChar == ReadMoves /\ next' = Read(next)

\* The character stays where it is.
Peek == UNCHANGED <<streamVars, next>>

\* match(x, ...) of a current character equal to x.
match == nextChar /\ lastWasComma' = (next = ",")

\* result.push(currentChar()) and nextChar() or match().
Push     == text' = Append(text, next)
PushNext == nextChar /\ Push /\ UNCHANGED <<lastWasComma, partial, atom, callVars>>
PushMatch == match /\ Push /\ UNCHANGED <<partial, atom, callVars>>

\* A JSONParserError unwinds to the catch of parseJSON: every frame, and
\* with it every atom and container not yet returned, is destroyed.
Throw(error) ==
  /\ result' = error
  /\ stack' = <<"readSync">>
  /\ text' = <<>> /\ partial' = <<>> /\ atom' = NoAtom
  /\ UNCHANGED <<streamVars, parserVars, start>>

\* Faulty variant: the wrong error.
EndOfDataIsBad == stack # <<>> /\ Head(stack) \in Checked /\ AtEOF /\ Throw("BAD_JSON")

EndOfData == /\ stack # <<>> /\ Head(stack) \in Checked /\ AtEOF
             /\ Throw("EOF")

\* Control moves on without looking at another character.
Jump(labels) == Goto(labels) /\ Peek /\ UNCHANGED <<lastWasComma, treeVars, callVars>>

skipWhite ==
  /\ At("skip")
  /\ IF ~AtEOF /\ isWhiteSpace(next)
     THEN nextChar /\ UNCHANGED <<lastWasComma, stack, treeVars, callVars>>
     ELSE Jump(<<>>)

-----------------------------------------------------------------------------
(* string()                                                                *)

BeginString ==
  /\ On("str") /\ next = "quote"
  /\ match /\ Goto(<<"chars">>)
  /\ text' = <<>> /\ UNCHANGED <<partial, atom, callVars>>

NotAString == On("str") /\ next # "quote" /\ Throw("BAD_JSON")

StringChar ==
  /\ On("chars")
  /\ \/ isAllowedAlpha(next) /\ PushNext /\ UNCHANGED stack
     \/ next = "backslash" /\ PushNext /\ Goto(<<"escape">>)
     \/ next = "quote" /\ match /\ Goto(<<"skip">>) /\ UNCHANGED <<treeVars, callVars>>
     \/ isControl(next) /\ Throw("BAD_JSON")

Escape ==
  /\ On("escape")
  /\ \/ next \in SimpleEscapes /\ PushNext /\ Goto(<<"chars">>)
     \/ next = "u" /\ PushNext /\ Goto(<<"hex4">>)
     \/ next \notin SimpleEscapes \cup {"u"} /\ Throw("BAD_JSON")

\* validateUnicodeSequence: four hexadecimal digits after the "u".
HexDigit(here, there) ==
  /\ On(here)
  /\ \/ isHex(next) /\ PushNext /\ Goto(<<there>>)
     \/ ~isHex(next) /\ Throw("BAD_JSON")

validateUnicodeSequence == \/ HexDigit("hex4", "hex3") \/ HexDigit("hex3", "hex2")
                           \/ HexDigit("hex2", "hex1") \/ HexDigit("hex1", "chars")

StringDone ==
  /\ At("strDone") /\ Return
  /\ atom' = <<"string", text>>
  /\ UNCHANGED <<streamVars, parserVars, text, partial, callVars>>

-----------------------------------------------------------------------------
(* number()                                                                *)

\* JSONParser::number(zeroSpecial = true, ...)
Natural ==
  /\ On("natural")
  /\ \/ next = "0" /\ PushNext /\ Goto(<<"zero">>)
     \/ isNumber(next) /\ next # "0" /\ Jump(<<"digits10">>)
     \/ ~isNumber(next) /\ Throw("BAD_JSON")

\* After a leading zero: a base prefix, or the number is that zero alone.
AfterZero ==
  /\ On("zero")
  /\ \/ next = "x" /\ PushNext /\ Goto(<<"digits16">>)
     \/ next = "o" /\ PushNext /\ Goto(<<"digits8">>)
     \/ next = "b" /\ PushNext /\ Goto(<<"digits2">>)
     \/ isNumber(next) /\ Throw("BAD_JSON")
     \/ ~isBasePrefix(next) /\ ~isNumber(next) /\ Jump(<<>>)

DigitsOf(label, isValidDigit(_)) ==
  /\ On(label)
  /\ IF isValidDigit(next) THEN PushNext /\ UNCHANGED stack ELSE Jump(<<>>)

MoreDigits == \/ DigitsOf("digits10", isNumber) \/ DigitsOf("digits16", isHex)
              \/ DigitsOf("digits8", isOct) \/ DigitsOf("digits2", isBin)

\* JSONParser::number(zeroSpecial = false, &decDigits)
Decimal ==
  /\ On("decimal")
  /\ IF isNumber(next) THEN Jump(<<"digits10">>) ELSE Throw("BAD_JSON")

\* number(parser): the integer part was read.
Fraction ==
  /\ On("fraction")
  /\ IF next = "." THEN PushMatch /\ Goto(<<"decimal", "exponent">>)
                   ELSE Jump(<<"exponent">>)

Exponent ==
  /\ On("exponent")
  /\ IF isExponent(next) THEN PushNext /\ Goto(<<"expSign">>)
                         ELSE Jump(<<"numEnd">>)

ExponentSign ==
  /\ On("expSign")
  /\ IF next \in {"-", "+"} THEN PushMatch /\ Goto(<<"natural", "numEnd">>)
                            ELSE Jump(<<"natural", "numEnd">>)

NumberEnd == At("numEnd") /\ Jump(<<"skip", "numDone">>)

NumberDone ==
  /\ At("numDone") /\ Return
  /\ atom' = <<IF \E i \in DOMAIN text : text[i] = "." THEN "float" ELSE "int", text>>
  /\ UNCHANGED <<streamVars, parserVars, text, partial, callVars>>

-----------------------------------------------------------------------------
(* literal()                                                               *)

BeginLiteral ==
  /\ On("lit")
  /\ IF isLowerAlpha(next) THEN Jump(<<"letters">>) ELSE Throw("BAD_JSON")

Letters ==
  /\ On("letters")
  /\ IF isLowerAlpha(next) THEN PushNext /\ UNCHANGED stack
                           ELSE Jump(<<"skip", "litDone">>)

LiteralDone ==
  /\ At("litDone")
  /\ \/ /\ text \in Literals /\ Return
        /\ atom' = <<"literal", text>>
        /\ UNCHANGED <<streamVars, parserVars, text, partial, callVars>>
     \/ text \notin Literals /\ Throw("BAD_JSON")

-----------------------------------------------------------------------------
(* object(), array() and expression()                                      *)

Open(type, loop) ==
  /\ match /\ Goto(<<"skip", loop>>)
  /\ partial' = <<[type |-> type, key |-> <<>>, items |-> <<>>]>> \o partial
  /\ UNCHANGED <<text, atom, callVars>>

\* expression(): the switch on the current character and what follows it.
Expression ==
  /\ On("expr")
  /\ \/ next = "{" /\ Open("object", "objLoop")
     \/ next = "[" /\ Open("array", "arrLoop")
     \/ next = "quote" /\ Jump(<<"str", "strDone">>)
     \/ /\ isNumber(next) /\ Goto(<<"natural", "fraction">>) /\ Peek
        /\ text' = <<>> /\ UNCHANGED <<lastWasComma, partial, atom, callVars>>
     \/ /\ next = "-" /\ match /\ Goto(<<"natural", "fraction">>)
        /\ text' = <<"-">> /\ UNCHANGED <<partial, atom, callVars>>
     \/ /\ next \notin {"{", "[", "quote", "-"} /\ ~isNumber(next)
        /\ Goto(<<"lit">>) /\ Peek
        /\ text' = <<>> /\ UNCHANGED <<lastWasComma, partial, atom, callVars>>

\* Faulty variant: the closing bracket does not clear the flag.
ExpressionEndKeepsFlag ==
  /\ On("exprEnd")
  /\ \/ next = "," /\ match /\ Goto(<<"skip">>) /\ UNCHANGED <<treeVars, callVars>>
     \/ /\ next \in {"}", "]"} /\ Return /\ Peek
        /\ UNCHANGED <<lastWasComma, treeVars, callVars>>
     \/ next \notin {",", "}", "]"} /\ Throw("BAD_JSON")

\* expression(parser): what must follow a value inside a container.
ExpressionEnd ==
  /\ On("exprEnd")
  /\ \/ next = "," /\ match /\ Goto(<<"skip">>) /\ UNCHANGED <<treeVars, callVars>>
     \/ /\ next \in {"}", "]"} /\ Return /\ Peek
        /\ lastWasComma' = FALSE /\ UNCHANGED <<treeVars, callVars>>
     \/ next \notin {",", "}", "]"} /\ Throw("BAD_JSON")

\* Faulty variant: a comma before the bracket is let pass.
CloseAfterComma ==
  /\ match /\ Goto(<<"skip">>)
  /\ atom' = <<Head(partial).type, Head(partial).items>>
  /\ partial' = Tail(partial)
  /\ UNCHANGED <<text, callVars>>

\* The loop of object() or array() sees the closing bracket.
Close ==
  IF lastWasComma THEN Throw("BAD_JSON")
  ELSE /\ match /\ Goto(<<"skip">>)
       /\ atom' = <<Head(partial).type, Head(partial).items>>
       /\ partial' = Tail(partial)
       /\ UNCHANGED <<text, callVars>>

ObjectLoop ==
  /\ On("objLoop")
  /\ IF next = "}" THEN Close
     ELSE Jump(<<"str", "objKey", "expr", "exprEnd", "objAdd", "objLoop">>)

ObjectKey ==
  /\ On("objKey")
  /\ IF next # ":" THEN Throw("BAD_JSON")
     ELSE /\ match /\ Goto(<<"skip">>)
          /\ partial' = [partial EXCEPT ![1].key = text]
          /\ UNCHANGED <<text, atom, callVars>>

\* object->add(key, atom): a key already there keeps its first value.
ObjectAdd ==
  /\ At("objAdd") /\ Return
  /\ LET key == partial[1].key
         items == partial[1].items
         known == \E i \in DOMAIN items : items[i][1] = key
     IN  partial' = IF known THEN partial
                    ELSE [partial EXCEPT ![1].items = Append(items, <<key, atom>>)]
  /\ UNCHANGED <<streamVars, parserVars, text, atom, callVars>>

ArrayLoop ==
  /\ On("arrLoop")
  /\ IF next = "]" THEN Close
     ELSE Jump(<<"expr", "exprEnd", "arrAdd", "arrLoop">>)

ArrayAdd ==
  /\ At("arrAdd") /\ Return
  /\ partial' = [partial EXCEPT ![1].items = Append(@, atom)]
  /\ UNCHANGED <<streamVars, parserVars, text, atom, callVars>>

-----------------------------------------------------------------------------
(* parseJSON()                                                             *)

Construct ==
  /\ On("construct")
  /\ nextChar /\ Goto(<<"parseJSON">>)
  /\ UNCHANGED <<lastWasComma, treeVars, callVars>>

ParseJSON ==
  /\ On("parseJSON")
  /\ IF next \in {"{", "["} THEN Jump(<<"expr", "rootEnd">>) ELSE Throw("BAD_JSON")

\* expression(parser, false) returns the root without looking any further.
RootEnd ==
  /\ At("rootEnd") /\ Goto(<<"readSync">>)
  /\ lastWasComma' = FALSE
  /\ result' = "tree"
  /\ UNCHANGED <<streamVars, next, treeVars, start>>

ReadSync ==
  /\ At("readSync")
  /\ \/ SyncDiscard /\ UNCHANGED stack
     \/ SyncDone /\ Return
  /\ UNCHANGED <<parserVars, treeVars, callVars>>

\* The application parses the next message of the same socket.
CallAgain ==
  /\ Returned /\ kind = "rpc" /\ pos < Len(data)
  /\ stack' = <<"construct">>
  /\ next' = "nul" /\ lastWasComma' = FALSE
  /\ text' = <<>> /\ partial' = <<>> /\ atom' = NoAtom
  /\ result' = "none" /\ start' = pos
  /\ UNCHANGED streamVars

Step ==
  \/ EndOfData \/ Construct \/ ParseJSON \/ RootEnd \/ ReadSync \/ skipWhite
  \/ Expression \/ ExpressionEnd \/ ObjectLoop \/ ObjectKey \/ ObjectAdd
  \/ ArrayLoop \/ ArrayAdd
  \/ BeginString \/ NotAString \/ StringChar \/ Escape
  \/ validateUnicodeSequence \/ StringDone
  \/ Natural \/ AfterZero \/ MoreDigits \/ Decimal \/ Fraction \/ Exponent
  \/ ExponentSign \/ NumberEnd \/ NumberDone
  \/ BeginLiteral \/ Letters \/ LiteralDone

Next == Step \/ CallAgain

Spec     == Init /\ [][Next]_vars
\* The thread that called parseJSON keeps running.
FairSpec == Spec /\ WF_vars(Step)

-----------------------------------------------------------------------------
(* Properties                                                              *)

\* The control state is well formed: the position stays within the data, and
\* text, labels and outcome are drawn from what the code can produce.
TypeOK ==
  /\ kind \in StreamKinds /\ data \in Seq(Char) /\ pos \in 0..Len(data)
  /\ eof \in BOOLEAN /\ lastRead \in Char
  /\ next \in Char /\ lastWasComma \in BOOLEAN
  /\ stack \in Seq(Labels) /\ text \in Seq(Char)
  /\ result \in Results /\ start \in 0..pos

\* The last character before the current one that is not white space is a
\* comma.
AfterComma == \E i \in start + 1..pos - 1 :
                /\ data[i] = ","
                /\ \A j \in i + 1..pos - 1 : isWhiteSpace(data[j])

\* lastWasComma means what its name says wherever object() and array() rely
\* on it: when the loops look for their closing bracket, whatever was nested
\* or skipped in between.
CommaFlag == (On("objLoop") \/ On("arrLoop")) => (lastWasComma <=> AfterComma)

\* Whatever a call of parseJSON met on an rpc stream, when it returns the
\* socket stands just past the newline of the one message it was called for,
\* so the next call starts with the next message.
OneMessagePerCall ==
  (Returned /\ kind = "rpc") =>
    /\ pos > start /\ data[pos] = "newline"
    /\ \A i \in start + 1..pos - 1 : data[i] # "newline"

\* Every call of parseJSON comes back, with a tree or an error.
EveryCallReturns == ~Returned ~> Returned
=============================================================================
