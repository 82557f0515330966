---------------------------- MODULE ParserProofs ----------------------------
(***************************************************************************)
(* Theorems about Parser for every set of inputs and kinds of stream: its  *)
(* state is well formed; a call of parseJSON on an rpc stream reads one    *)
(* message; lastWasComma is right whenever a container is about to be      *)
(* closed; and each step brings a call nearer to its end.  Lemmas about    *)
(* stack and partial, the model's form of the C++ call stack and of the    *)
(* locals in its frames, are here for the proofs about the grammar.        *)
(***************************************************************************)
EXTENDS ParserInvariant, SequenceTheorems, TLAPS

(***************************************************************************)
(* The primitives.                                                         *)
(***************************************************************************)

\* TypeOK without the stack, of which each action has its own.
DataOK ==
  /\ kind \in StreamKinds /\ data \in Seq(Char) /\ pos \in 0..Len(data)
  /\ eof \in BOOLEAN /\ lastRead \in Char
  /\ next \in Char /\ lastWasComma \in BOOLEAN
  /\ text \in Seq(Char)
  /\ result \in Results /\ start \in 0..pos

\* What nextChar() does to the stream keeps its variables well typed and
\* moves the position by at most one.
LEMMA NextCharType ==
  ASSUME DataOK, nextChar
  PROVE  /\ kind' = kind /\ data' = data /\ pos' \in 0..Len(data)
         /\ pos' \in {pos, pos + 1}
         /\ eof' \in BOOLEAN /\ lastRead' \in Char /\ next' \in Char
<1>1. Len(data) \in Nat /\ \A i \in 1..Len(data) : data[i] \in Char
  BY ElementOfSeq, LenProperties DEF DataOK
<1>2. \A c \in Char : Read(c) \in Char
  BY <1>1, SMT DEF Read, DataOK
<1> QED
  BY <1>1, <1>2, SMT DEF nextChar, ReadMoves, SocketRead, DataOK

\* The steps that queue a character leave the data well typed.
LEMMA PushType ==
  ASSUME DataOK, PushNext \/ PushMatch
  PROVE  DataOK'
<1>1. nextChar
  BY DEF PushNext, PushMatch, match
<1>2. text' \in Seq(Char)
  BY SMT DEF PushNext, PushMatch, Push, DataOK
<1>3. lastWasComma' \in BOOLEAN
  BY DEF PushNext, PushMatch, match, DataOK
<1>4. UNCHANGED callVars
  BY DEF PushNext, PushMatch
<1> QED
  BY <1>1, <1>2, <1>3, <1>4, NextCharType, SMT DEF DataOK, callVars

LEMMA MatchType ==
  ASSUME DataOK, match, text' \in Seq(Char), UNCHANGED callVars
  PROVE  DataOK'
<1>1. nextChar
  BY DEF match
<1>2. lastWasComma' \in BOOLEAN
  BY DEF match
<1> QED
  BY <1>1, <1>2, NextCharType, SMT DEF DataOK, callVars

LEMMA ThrowType ==
  ASSUME DataOK, NEW error \in Errors, Throw(error)
  PROVE  DataOK' /\ stack' \in Seq(Labels)
<1>1. DataOK'
  BY SMT DEF Throw, DataOK, Results, streamVars, parserVars
<1>2. stack' \in Seq(Labels)
  BY SMT DEF Throw, Labels, Checked, Unchecked
<1> QED
  BY <1>1, <1>2

LEMMA JumpType ==
  ASSUME DataOK, NEW labels, Jump(labels)
  PROVE  DataOK'
BY SMT DEF Jump, Peek, DataOK, streamVars, treeVars, callVars

LEMMA GotoType ==
  ASSUME stack \in Seq(Labels), stack # <<>>, NEW labels \in Seq(Labels), Goto(labels)
  PROVE  stack' \in Seq(Labels)
BY HeadTailProperties, ConcatProperties DEF Goto

LEMMA ReturnType ==
  ASSUME stack \in Seq(Labels), stack # <<>>, Return
  PROVE  stack' \in Seq(Labels)
BY HeadTailProperties DEF Return

\* Every sequence of labels that some action puts on the stack.
LEMMA PushedLabels ==
  /\ <<>> \in Seq(Labels)
  /\ \A l \in Labels : <<l>> \in Seq(Labels)
  /\ \A l, m \in Labels : <<l, m>> \in Seq(Labels)
  /\ <<"expr", "exprEnd", "arrAdd", "arrLoop">> \in Seq(Labels)
  /\ <<"str", "objKey", "expr", "exprEnd", "objAdd", "objLoop">> \in Seq(Labels)
  /\ Checked \subseteq Labels /\ Unchecked \subseteq Labels
<1>1. Checked \subseteq Labels /\ Unchecked \subseteq Labels
  BY DEF Labels
<1>2. /\ <<>> \in Seq(Labels)
      /\ \A l \in Labels : <<l>> \in Seq(Labels)
      /\ \A l, m \in Labels : <<l, m>> \in Seq(Labels)
  BY SMT
<1>3. <<"expr", "exprEnd", "arrAdd", "arrLoop">> \in Seq(Labels)
  BY SMT DEF Labels, Checked, Unchecked
<1>4. <<"str", "objKey", "expr", "exprEnd", "objAdd", "objLoop">> \in Seq(Labels)
  BY SMT DEF Labels, Checked, Unchecked
<1> QED
  BY <1>1, <1>2, <1>3, <1>4

\* What most actions are: a character queued, a jump, or an error.
CharStep ==
  \/ (PushNext \/ PushMatch) /\ (UNCHANGED stack \/ \E l \in Seq(Labels) : Goto(l))
  \/ \E l \in Seq(Labels) : Jump(l)
  \/ \E error \in Errors : Throw(error)

LEMMA CharStepType ==
  ASSUME DataOK, stack \in Seq(Labels), stack # <<>>, CharStep
  PROVE  DataOK' /\ stack' \in Seq(Labels)
<1>1. CASE (PushNext \/ PushMatch) /\ (UNCHANGED stack \/ \E l \in Seq(Labels) : Goto(l))
  BY <1>1, PushType, GotoType
<1>2. CASE \E l \in Seq(Labels) : Jump(l)
  BY <1>2, JumpType, GotoType DEF Jump
<1>3. CASE \E error \in Errors : Throw(error)
  BY <1>3, ThrowType
<1> QED
  BY <1>1, <1>2, <1>3 DEF CharStep

(***************************************************************************)
(* Type correctness.                                                       *)
(***************************************************************************)

LEMMA InitTypeOK == Init => TypeOK
<1> SUFFICES ASSUME Init PROVE TypeOK
  OBVIOUS
<1>1. "nul" \in Char
  BY DEF Char, Control
<1>2. kind \in StreamKinds /\ data \in Seq(Char)
  BY <1>1, StreamAssumption, SMT DEF Init, CallInit, StreamInit, StreamOver
<1>3. Len(data) \in Nat
  BY <1>2, LenProperties
<1>4. stack \in Seq(Labels) /\ text \in Seq(Char)
  BY PushedLabels, EmptySeq DEF Init, CallInit, Checked
<1>5. lastWasComma \in BOOLEAN /\ eof \in BOOLEAN
  BY DEF Init, CallInit, StreamInit, StreamOver
<1> QED
  BY <1>1, <1>2, <1>3, <1>4, <1>5, SMT DEF Init, CallInit, StreamInit, StreamOver, TypeOK, Results

\* string()
LEMMA StringTypeOK ==
  ASSUME DataOK, stack \in Seq(Labels),
         \/ BeginString \/ NotAString \/ StringChar \/ Escape
         \/ validateUnicodeSequence \/ StringDone
  PROVE  DataOK' /\ stack' \in Seq(Labels)
<1>0. stack # <<>>
  BY DEF BeginString, NotAString, StringChar, Escape, validateUnicodeSequence,
         HexDigit, StringDone, On, At
<1> Labels = Checked \cup Unchecked
  BY DEF Labels
<1>1. CASE BeginString
  <2>1. stack' \in Seq(Labels)
    BY <1>0, <1>1, PushedLabels, GotoType DEF BeginString, Checked
  <2>2. text' \in Seq(Char) /\ match /\ UNCHANGED callVars
    BY <1>1, EmptySeq DEF BeginString
  <2> QED
    BY <2>1, <2>2, MatchType
<1>2. CASE NotAString
  BY <1>2, ThrowType DEF NotAString, Errors
<1>3. CASE StringChar
  <2>1. CASE CharStep
    BY <1>0, <2>1, CharStepType
  <2>2. CASE match /\ Goto(<<"skip">>) /\ UNCHANGED <<treeVars, callVars>>
    <3>1. text' \in Seq(Char) /\ UNCHANGED callVars
      BY <2>2 DEF treeVars, DataOK
    <3>2. stack' \in Seq(Labels)
      BY <1>0, <2>2, PushedLabels, GotoType DEF Unchecked
    <3> QED
      BY <2>2, <3>1, <3>2, MatchType
  <2> QED
    BY <1>3, <2>1, <2>2, PushedLabels DEF StringChar, CharStep, Checked, Errors
<1>4. CASE Escape \/ validateUnicodeSequence
  <2>1. CharStep
    BY <1>4, PushedLabels
       DEF Escape, validateUnicodeSequence, HexDigit, CharStep, Checked, Errors
  <2> QED
    BY <1>0, <2>1, CharStepType
<1>5. CASE StringDone
  <2>1. stack' \in Seq(Labels)
    BY <1>0, <1>5, ReturnType DEF StringDone
  <2>2. DataOK'
    BY <1>5, SMT DEF StringDone, DataOK, streamVars, parserVars, callVars
  <2> QED
    BY <2>1, <2>2
<1> QED
  BY <1>1, <1>2, <1>3, <1>4, <1>5

\* number() and literal()
LEMMA ScalarTypeOK ==
  ASSUME DataOK, stack \in Seq(Labels),
         \/ Natural \/ AfterZero \/ MoreDigits \/ Decimal \/ Fraction \/ Exponent
         \/ ExponentSign \/ NumberEnd \/ NumberDone
         \/ BeginLiteral \/ Letters \/ LiteralDone
  PROVE  DataOK' /\ stack' \in Seq(Labels)
<1>0. stack # <<>>
  BY DEF Natural, AfterZero, MoreDigits, DigitsOf, Decimal, Fraction, Exponent,
         ExponentSign, NumberEnd, NumberDone, BeginLiteral, Letters, LiteralDone, On, At
<1> Labels = Checked \cup Unchecked
  BY DEF Labels
<1>1. CASE \/ Natural \/ AfterZero \/ Decimal \/ Fraction \/ Exponent \/ ExponentSign
           \/ NumberEnd \/ BeginLiteral \/ Letters
  <2> USE PushedLabels DEF CharStep, Checked, Unchecked, Errors
  <2>1. CASE Natural
    BY <2>1, <1>0, CharStepType DEF Natural
  <2>2. CASE AfterZero
    BY <2>2, <1>0, CharStepType DEF AfterZero
  <2>3. CASE Decimal
    BY <2>3, <1>0, CharStepType DEF Decimal
  <2>4. CASE Fraction
    BY <2>4, <1>0, CharStepType DEF Fraction
  <2>5. CASE Exponent
    BY <2>5, <1>0, CharStepType DEF Exponent
  <2>6. CASE ExponentSign
    BY <2>6, <1>0, CharStepType DEF ExponentSign
  <2>7. CASE NumberEnd
    BY <2>7, <1>0, CharStepType DEF NumberEnd
  <2>8. CASE BeginLiteral
    BY <2>8, <1>0, CharStepType DEF BeginLiteral
  <2>9. CASE Letters
    BY <2>9, <1>0, CharStepType DEF Letters
  <2> QED
    BY <1>1, <2>1, <2>2, <2>3, <2>4, <2>5, <2>6, <2>7, <2>8, <2>9
<1>2. CASE MoreDigits
  <2>1. CharStep
    BY <1>2, PushedLabels DEF MoreDigits, DigitsOf, CharStep
  <2> QED
    BY <1>0, <2>1, CharStepType
<1>3. CASE NumberDone
  <2>1. stack' \in Seq(Labels)
    BY <1>0, <1>3, ReturnType DEF NumberDone
  <2>2. DataOK'
    BY <1>3, SMT DEF NumberDone, DataOK, streamVars, parserVars, callVars
  <2> QED
    BY <2>1, <2>2
<1>4. CASE LiteralDone
  <2>1. CASE Throw("BAD_JSON")
    BY <2>1, ThrowType DEF Errors
  <2>2. CASE Return /\ UNCHANGED <<streamVars, parserVars, text, partial, callVars>>
    <3>1. stack' \in Seq(Labels)
      BY <1>0, <2>2, ReturnType
    <3>2. DataOK'
      BY <2>2, SMT DEF DataOK, streamVars, parserVars, callVars
    <3> QED
      BY <3>1, <3>2
  <2> QED
    BY <1>4, <2>1, <2>2 DEF LiteralDone
<1> QED
  BY <1>1, <1>2, <1>3, <1>4

\* object(), array() and expression()
LEMMA TreeTypeOK ==
  ASSUME DataOK, stack \in Seq(Labels),
         \/ Expression \/ ExpressionEnd \/ ObjectLoop \/ ObjectKey \/ ObjectAdd
         \/ ArrayLoop \/ ArrayAdd
  PROVE  DataOK' /\ stack' \in Seq(Labels)
<1>0. stack # <<>>
  BY DEF Expression, ExpressionEnd, ObjectLoop, ObjectKey, ObjectAdd, ArrayLoop, ArrayAdd,
         On, At
<1> Labels = Checked \cup Unchecked
  BY DEF Labels
<1>a. ASSUME match, text' \in Seq(Char), UNCHANGED callVars,
             NEW l \in Seq(Labels), Goto(l)
      PROVE  DataOK' /\ stack' \in Seq(Labels)
  BY <1>0, <1>a, MatchType, GotoType
<1>b. <<>> \in Seq(Char) /\ <<"-">> \in Seq(Char) /\ text \in Seq(Char)
  <2>1. "-" \in Char
    BY DEF Char
  <2> QED
    BY <2>1, SMT DEF DataOK
<1>1. CASE Expression
  <2>1. CASE Open("object", "objLoop") \/ Open("array", "arrLoop")
    BY <1>a, <1>b, <2>1, PushedLabels DEF Open, Checked, Unchecked
  <2>2. CASE Jump(<<"str", "strDone">>)
    BY <1>0, <2>2, PushedLabels, CharStepType DEF CharStep, Checked, Unchecked
  <2>3. CASE match /\ Goto(<<"natural", "fraction">>) /\ text' = <<"-">>
             /\ UNCHANGED <<partial, atom, callVars>>
    <3>1. <<"natural", "fraction">> \in Seq(Labels)
      BY PushedLabels DEF Checked
    <3> QED
      BY <1>a, <1>b, <2>3, <3>1
  <2>4. CASE /\ Goto(<<"natural", "fraction">>) \/ Goto(<<"lit">>)
             /\ Peek /\ text' = <<>> /\ UNCHANGED <<lastWasComma, partial, atom, callVars>>
    <3>1. stack' \in Seq(Labels)
      BY <1>0, <2>4, PushedLabels, GotoType DEF Checked
    <3>2. DataOK'
      BY <1>b, <2>4, SMT DEF Peek, DataOK, streamVars, callVars
    <3> QED
      BY <3>1, <3>2
  <2> QED
    BY <1>1, <2>1, <2>2, <2>3, <2>4 DEF Expression
<1>2. CASE ExpressionEnd
  <2>1. CASE match /\ Goto(<<"skip">>) /\ UNCHANGED <<treeVars, callVars>>
    BY <1>a, <1>b, <2>1, PushedLabels DEF Unchecked, treeVars
  <2>2. CASE Return /\ Peek /\ lastWasComma' = FALSE /\ UNCHANGED <<treeVars, callVars>>
    <3>1. stack' \in Seq(Labels)
      BY <1>0, <2>2, ReturnType
    <3>2. lastWasComma' \in BOOLEAN
      BY <2>2
    <3>3. UNCHANGED <<streamVars, next, treeVars, callVars>>
      BY <2>2 DEF Peek
    <3>4. DataOK'
      BY <3>2, <3>3, SMT DEF DataOK, streamVars, treeVars, callVars
    <3> QED
      BY <3>1, <3>4
  <2>3. CASE Throw("BAD_JSON")
    BY <2>3, ThrowType DEF Errors
  <2> QED
    BY <1>2, <2>1, <2>2, <2>3 DEF ExpressionEnd
<1>3. CASE ObjectLoop \/ ArrayLoop
  <2>1. CASE Close
    <3>1. CASE Throw("BAD_JSON")
      BY <3>1, ThrowType DEF Errors
    <3>2. CASE match /\ Goto(<<"skip">>) /\ UNCHANGED <<text, callVars>>
      BY <1>a, <1>b, <3>2, PushedLabels DEF Unchecked
    <3> QED
      BY <2>1, <3>1, <3>2 DEF Close
  <2>2. CASE \E l \in Seq(Labels) : Jump(l)
    BY <1>0, <2>2, CharStepType DEF CharStep
  <2> QED
    BY <1>3, <2>1, <2>2, PushedLabels DEF ObjectLoop, ArrayLoop
<1>4. CASE ObjectKey
  <2>1. CASE Throw("BAD_JSON")
    BY <2>1, ThrowType DEF Errors
  <2>2. CASE match /\ Goto(<<"skip">>) /\ UNCHANGED <<text, atom, callVars>>
    BY <1>a, <1>b, <2>2, PushedLabels DEF Unchecked
  <2> QED
    BY <1>4, <2>1, <2>2 DEF ObjectKey
<1>5. CASE ObjectAdd \/ ArrayAdd
  <2>1. stack' \in Seq(Labels)
    BY <1>0, <1>5, ReturnType DEF ObjectAdd, ArrayAdd
  <2>2. UNCHANGED <<streamVars, parserVars, text, atom, callVars>>
    BY <1>5 DEF ObjectAdd, ArrayAdd
  <2>3. DataOK'
    BY <2>2, SMT DEF DataOK, streamVars, parserVars, callVars
  <2> QED
    BY <2>1, <2>3
<1> QED
  BY <1>1, <1>2, <1>3, <1>4, <1>5

\* parseJSON() and its caller
LEMMA CallTypeOK ==
  ASSUME DataOK, stack \in Seq(Labels),
         EndOfData \/ Construct \/ ParseJSON \/ RootEnd \/ ReadSync \/ skipWhite \/ CallAgain
  PROVE  DataOK' /\ stack' \in Seq(Labels)
<1> Labels = Checked \cup Unchecked
  BY DEF Labels
<1>1. CASE EndOfData
  BY <1>1, ThrowType DEF EndOfData, Errors
<1>2. CASE Construct
  <2>1. stack' \in Seq(Labels)
    BY <1>2, PushedLabels, GotoType DEF Construct, On, At, Checked
  <2>2. nextChar /\ UNCHANGED <<lastWasComma, treeVars, callVars>>
    BY <1>2 DEF Construct
  <2>3. DataOK'
    BY <2>2, NextCharType, SMT DEF DataOK, treeVars, callVars
  <2> QED
    BY <2>1, <2>3
<1>3. CASE ParseJSON
  <2>1. CharStep
    BY <1>3, PushedLabels DEF ParseJSON, CharStep, Checked, Unchecked, Errors
  <2> QED
    BY <1>3, <2>1, CharStepType DEF ParseJSON, On, At
<1>4. CASE RootEnd
  <2>1. stack' \in Seq(Labels)
    BY <1>4, PushedLabels, GotoType DEF RootEnd, At, Unchecked
  <2>2. lastWasComma' \in BOOLEAN /\ result' \in Results
    BY <1>4 DEF RootEnd, Results
  <2>3. UNCHANGED <<streamVars, next, treeVars, start>>
    BY <1>4 DEF RootEnd
  <2>4. DataOK'
    BY <2>2, <2>3, SMT DEF DataOK, streamVars, treeVars
  <2> QED
    BY <2>1, <2>4
<1>5. CASE ReadSync
  <2>1. stack' \in Seq(Labels)
    BY <1>5, ReturnType DEF ReadSync, At
  <2>2. UNCHANGED <<parserVars, treeVars, callVars>>
    BY <1>5 DEF ReadSync
  <2>3. "nul" \in Char /\ Len(data) \in Nat
    BY LenProperties DEF Char, Control, DataOK
  <2>4. lastWasComma' \in BOOLEAN /\ eof' \in BOOLEAN
    BY <1>5, <2>2 DEF ReadSync, SyncDiscard, SyncDone, DataOK, parserVars
  <2>5. /\ kind' = kind /\ data' = data /\ lastRead' \in Char
        /\ pos' \in 0..Len(data) /\ pos' >= pos
    <3>1. CASE SyncDiscard
      BY <2>3, <3>1, SMT DEF SyncDiscard, DataOK
    <3>2. CASE SyncDone
      BY <2>3, <3>2, SMT DEF SyncDone, SyncPending, PeekIsNewline, DataOK
    <3> QED
      BY <1>5, <3>1, <3>2 DEF ReadSync
  <2>6. DataOK'
    BY <2>2, <2>3, <2>4, <2>5, SMT DEF DataOK, parserVars, treeVars, callVars
  <2> QED
    BY <2>1, <2>6
<1>6. CASE skipWhite
  <2>1. CASE nextChar /\ UNCHANGED <<lastWasComma, stack, treeVars, callVars>>
    BY <2>1, NextCharType, SMT DEF DataOK, treeVars, callVars
  <2>2. CASE Jump(<<>>)
    BY <1>6, <2>2, PushedLabels, CharStepType DEF skipWhite, At, CharStep
  <2> QED
    BY <1>6, <2>1, <2>2 DEF skipWhite
<1>7. CASE CallAgain
  <2>1. stack' \in Seq(Labels)
    BY <1>7, PushedLabels DEF CallAgain, Checked
  <2>2. "nul" \in Char /\ lastWasComma' \in BOOLEAN /\ text' \in Seq(Char)
    BY <1>7, EmptySeq DEF CallAgain, Char, Control
  <2>3. next' = "nul" /\ result' = "none" /\ start' = pos /\ UNCHANGED streamVars
    BY <1>7 DEF CallAgain
  <2>4. DataOK'
    BY <2>2, <2>3, SMT DEF DataOK, Results, streamVars
  <2> QED
    BY <2>1, <2>4
<1> QED
  BY <1>1, <1>2, <1>3, <1>4, <1>5, <1>6, <1>7

LEMMA NextTypeOK == TypeOK /\ [Next]_vars => TypeOK'
<1> SUFFICES ASSUME TypeOK, [Next]_vars PROVE TypeOK'
  OBVIOUS
<1>1. DataOK /\ stack \in Seq(Labels)
  BY DEF TypeOK, DataOK
<1>2. CASE Next
  <2>1. DataOK' /\ stack' \in Seq(Labels)
    BY <1>1, <1>2, StringTypeOK, ScalarTypeOK, TreeTypeOK, CallTypeOK DEF Next, Step
  <2> QED
    BY <2>1 DEF TypeOK, DataOK
<1>3. CASE UNCHANGED vars
  BY <1>3 DEF vars, streamVars, parserVars, treeVars, callVars, TypeOK
<1> QED
  BY <1>2, <1>3

\* The parser's control state stays well formed: in particular it never reads
\* past the end of the data and never returns to a place it did not come from.
THEOREM TypeCorrect == Spec => []TypeOK
BY InitTypeOK, NextTypeOK, PTL DEF Spec

(***************************************************************************)
(* Stacks                                                                  *)
(***************************************************************************)

\* Where a push leads, and what lies under it.
LEMMA GotoPlace ==
  ASSUME stack \in Seq(Labels), stack # <<>>, NEW new \in Seq(Labels), new # <<>>, Goto(new)
  PROVE  /\ stack' \in Seq(Labels) /\ stack' # <<>> /\ Head(stack') = new[1]
         /\ Len(stack') = Len(new) + Len(stack) - 1
         /\ \A i \in 1..Len(stack') :
              stack'[i] = IF i <= Len(new) THEN new[i] ELSE stack[i - Len(new) + 1]
<1>1. /\ Tail(stack) \in Seq(Labels) /\ Len(Tail(stack)) = Len(stack) - 1
      /\ \A i \in 1..Len(Tail(stack)) : Tail(stack)[i] = stack[i + 1]
  BY HeadTailProperties
<1>2. Len(new) \in Nat \ {0} /\ Len(stack) \in Nat \ {0}
  BY EmptySeq
<1>3. /\ stack' \in Seq(Labels) /\ Len(stack') = Len(new) + Len(Tail(stack))
      /\ \A i \in 1..Len(new) + Len(Tail(stack)) :
           stack'[i] = IF i <= Len(new) THEN new[i] ELSE Tail(stack)[i - Len(new)]
  BY <1>1, ConcatProperties DEF Goto
<1>4. stack' # <<>> /\ Head(stack') = stack'[1]
  BY <1>2, <1>3, <1>1, EmptySeq, SMT
<1>5. Len(stack') = Len(new) + Len(stack) - 1
  BY <1>1, <1>2, <1>3, SMT
<1>6. ASSUME NEW i \in 1..Len(stack')
      PROVE  stack'[i] = IF i <= Len(new) THEN new[i] ELSE stack[i - Len(new) + 1]
  <2>1. i \in 1..Len(new) + Len(Tail(stack))
    BY <1>3
  <2>2. CASE i <= Len(new)
    BY <1>3, <2>1, <2>2
  <2>3. CASE ~(i <= Len(new))
    <3>1. i - Len(new) \in 1..Len(Tail(stack))
      BY <1>1, <1>2, <2>1, <2>3, SMT
    <3>2. Tail(stack)[i - Len(new)] = stack[(i - Len(new)) + 1]
      BY <1>1, <3>1
    <3> QED
      BY <1>3, <2>1, <2>3, <3>2
  <2> QED
    BY <2>2, <2>3
<1>7. Head(stack') = new[1]
  BY <1>2, <1>4, <1>5, <1>6, SMT
<1> QED
  BY <1>3, <1>4, <1>5, <1>6, <1>7

\* A push keeps the stack linked when its last label may be where the head
\* was.
LEMMA GotoStackOK ==
  ASSUME stack \in Seq(Labels), stack # <<>>, StackOK,
         NEW new \in Seq(Labels), new # <<>>, Linked(new), Goto(new),
         Below(Head(stack)) \subseteq Below(new[Len(new)]),
         Head(stack) \in Roots => new[Len(new)] \in Roots
  PROVE  StackOK'
<1>1. Len(new) \in Nat \ {0} /\ Len(stack) \in Nat \ {0} /\ Head(stack) = stack[1]
  BY EmptySeq, SMT
<1>g. /\ Len(stack') = Len(new) + Len(stack) - 1
      /\ \A i \in 1..Len(stack') :
           stack'[i] = IF i <= Len(new) THEN new[i] ELSE stack[i - Len(new) + 1]
  BY GotoPlace
<1>2. \A i \in 1..Len(stack') - 1 : stack'[i + 1] \in Below(stack'[i])
  <2> SUFFICES ASSUME NEW i \in 1..Len(stack') - 1 PROVE stack'[i + 1] \in Below(stack'[i])
    OBVIOUS
  <2>2. CASE i < Len(new)
    <3>1. stack'[i] = new[i] /\ stack'[i + 1] = new[i + 1]
      BY <1>1, <1>g, <2>2, SMT
    <3> QED
      BY <1>1, <2>2, <3>1, SMT DEF Linked
  <2>3. CASE i = Len(new)
    <3>1. /\ stack'[i] = new[Len(new)] /\ Len(stack) > 1
          /\ i + 1 - Len(new) + 1 = 2 /\ stack'[i + 1] = stack[2]
      BY <1>1, <1>g, <2>3, SMT
    <3>2. stack[2] \in Below(Head(stack))
      BY <1>1, <3>1, SMT DEF StackOK, Linked
    <3> QED
      BY <3>1, <3>2
  <2>4. CASE i > Len(new)
    <3>0. PICK j \in Int : j = i - Len(new) + 1
      BY <1>1
    <3>1. /\ j \in 1..Len(stack) - 1 /\ i \in 1..Len(stack') /\ i + 1 \in 1..Len(stack')
          /\ ~(i <= Len(new)) /\ ~(i + 1 <= Len(new)) /\ i + 1 - Len(new) + 1 = j + 1
      BY <1>1, <1>g, <2>4, <3>0, SMT
    <3>2. stack'[i] = stack[j] /\ stack'[i + 1] = stack[j + 1]
      BY <1>g, <3>0, <3>1
    <3> QED
      BY <3>1, <3>2 DEF StackOK, Linked
  <2> QED
    BY <1>1, <2>2, <2>3, <2>4, SMT
<1>3. stack'[Len(stack')] \in Roots
  <2>2. CASE Len(stack) = 1
    <3>1. stack'[Len(stack')] = new[Len(new)]
      BY <1>1, <1>g, <2>2, SMT
    <3>2. Head(stack) \in Roots
      BY <1>1, <2>2 DEF StackOK
    <3> QED
      BY <3>1, <3>2
  <2>3. CASE Len(stack) > 1
    <3>1. stack'[Len(stack')] = stack[Len(stack)]
      BY <1>1, <1>g, <2>3, SMT
    <3> QED
      BY <3>1 DEF StackOK
  <2>4. \A n \in Nat \ {0} : n = 1 \/ n > 1
    BY SMT
  <2> QED
    BY <1>1, <2>2, <2>3, <2>4
<1> QED
  BY <1>2, <1>3 DEF StackOK, Linked

\* What lies under a label that is not a call of parseJSON.
LEMMA UnderHead ==
  ASSUME stack \in Seq(Labels), stack # <<>>, StackOK, Head(stack) \notin Roots
  PROVE  Len(stack) > 1 /\ stack[2] \in Below(Head(stack)) /\ stack[2] \in Labels
<1>1. Len(stack) \in Nat \ {0} /\ Head(stack) = stack[1]
  BY EmptySeq, SMT
<1>2. Len(stack) > 1
  BY <1>1, SMT DEF StackOK
<1> QED
  BY <1>1, <1>2, ElementOfSeq, SMT DEF StackOK, Linked

\* Returning leads to that label.
LEMMA ReturnPlace ==
  ASSUME stack \in Seq(Labels), stack # <<>>, StackOK, Head(stack) \notin Roots,
         Return \/ Goto(<<>>)
  PROVE  StackOK' /\ stack' # <<>> /\ Head(stack') = stack[2]
<1>1. stack' = Tail(stack)
  BY HeadTailProperties, ConcatEmptySeq DEF Return, Goto
<1>2. Len(stack) > 1 /\ Len(stack) \in Nat
  BY UnderHead, LenProperties
<1>3. /\ stack' \in Seq(Labels) /\ Len(stack') = Len(stack) - 1
      /\ \A i \in 1..Len(stack') : stack'[i] = stack[i + 1]
  BY <1>1, HeadTailProperties
<1>4. stack' # <<>> /\ Head(stack') = stack'[1]
  BY <1>2, <1>3, EmptySeq, SMT
<1>5. Linked(stack')
  <2> SUFFICES ASSUME NEW i \in 1..Len(stack') - 1 PROVE stack'[i + 1] \in Below(stack'[i])
    BY DEF Linked
  <2>1. i + 1 \in 1..Len(stack) - 1 /\ stack'[i] = stack[i + 1] /\ stack'[i + 1] = stack[(i + 1) + 1]
    BY <1>2, <1>3, SMT
  <2> QED
    BY <2>1 DEF StackOK, Linked
<1>6. stack'[Len(stack')] = stack[Len(stack)]
  BY <1>2, <1>3, SMT
<1>7. Linked(stack)' <=> Linked(stack')
  BY DEF Linked
<1> QED
  BY <1>2, <1>3, <1>4, <1>5, <1>6, <1>7, SMT DEF StackOK

LEMMA BelowValues ==
  /\ \A l \in Roots : Below(l) = {}
  /\ Below("objAdd") = {"objLoop"} /\ Below("arrAdd") = {"arrLoop"}
  /\ Below("exprEnd") = {"objAdd", "arrAdd"} /\ Below("objKey") = {"expr"}
  /\ Below("decimal") = {"exponent"}
  /\ Below("digits10") = {"fraction", "numEnd", "exponent"}
  /\ \A l \in {"str", "chars", "escape", "hex4", "hex3", "hex2", "hex1"} :
       Below(l) = {"strDone", "objKey"}
  /\ \A l \in {"natural", "zero", "digits16", "digits8", "digits2"} :
       Below(l) = {"fraction", "numEnd"}
  /\ Below("skip") = {"objLoop", "arrLoop", "exprEnd", "rootEnd", "strDone", "objKey",
                      "numDone", "litDone", "expr", "objAdd", "arrAdd"}
  /\ \A l \in {"expr", "objLoop", "arrLoop", "strDone", "fraction", "exponent", "expSign",
                "numEnd", "numDone", "lit", "letters", "litDone"} :
       Below(l) = {"exprEnd", "rootEnd"}
BY SMT DEF Below, Roots

\* Pushes of one, two and more labels.
LEMMA GotoOne ==
  ASSUME stack \in Seq(Labels), stack # <<>>, StackOK, NEW l \in Labels, Goto(<<l>>),
         Below(Head(stack)) \subseteq Below(l), Head(stack) \in Roots => l \in Roots
  PROVE  /\ StackOK' /\ stack' # <<>> /\ Head(stack') = l
         /\ Head(stack) \notin Roots => stack'[2] = stack[2]
<1> DEFINE new == <<l>>
<1>1. new \in Seq(Labels) /\ new # <<>> /\ Len(new) = 1 /\ new[1] = l /\ Linked(new)
  BY PushedLabels, SMT DEF Linked
<1>2. Goto(new)
  OBVIOUS
<1> HIDE DEF new
<1>3. StackOK'
  BY <1>1, <1>2, GotoStackOK
<1>4. /\ stack' # <<>> /\ Head(stack') = new[1] /\ Len(stack') = Len(new) + Len(stack) - 1
      /\ \A i \in 1..Len(stack') :
           stack'[i] = IF i <= Len(new) THEN new[i] ELSE stack[i - Len(new) + 1]
  BY <1>1, <1>2, GotoPlace
<1>5. Head(stack) \notin Roots => stack'[2] = stack[2]
  <2> SUFFICES ASSUME Head(stack) \notin Roots PROVE stack'[2] = stack[2]
    OBVIOUS
  <2>1. Len(stack) > 1 /\ Len(stack) \in Nat
    BY UnderHead, LenProperties
  <2> QED
    BY <1>1, <1>4, <2>1, SMT
<1> QED
  BY <1>1, <1>3, <1>4, <1>5

LEMMA GotoTwo ==
  ASSUME stack \in Seq(Labels), stack # <<>>, StackOK, NEW l \in Labels, NEW m \in Labels,
         Goto(<<l, m>>), m \in Below(l),
         Below(Head(stack)) \subseteq Below(m), Head(stack) \in Roots => m \in Roots
  PROVE  StackOK' /\ stack' # <<>> /\ Head(stack') = l /\ stack'[2] = m
<1> DEFINE new == <<l, m>>
<1>1. /\ new \in Seq(Labels) /\ new # <<>> /\ Len(new) = 2 /\ new[1] = l /\ new[2] = m
      /\ Linked(new)
  BY PushedLabels, SMT DEF Linked
<1>2. Goto(new)
  OBVIOUS
<1> HIDE DEF new
<1>3. StackOK'
  BY <1>1, <1>2, GotoStackOK
<1>4. /\ stack' # <<>> /\ Head(stack') = new[1] /\ Len(stack') = Len(new) + Len(stack) - 1
      /\ \A i \in 1..Len(stack') :
           stack'[i] = IF i <= Len(new) THEN new[i] ELSE stack[i - Len(new) + 1]
  BY <1>1, <1>2, GotoPlace
<1>5. Len(stack) \in Nat \ {0}
  BY EmptySeq
<1> QED
  BY <1>1, <1>3, <1>4, <1>5, SMT

\* The two loops call for one more element or member.
LEMMA GotoMore ==
  ASSUME stack \in Seq(Labels), stack # <<>>, StackOK,
         \/ Head(stack) = "arrLoop" /\ Goto(<<"expr", "exprEnd", "arrAdd", "arrLoop">>)
         \/ /\ Head(stack) = "objLoop"
            /\ Goto(<<"str", "objKey", "expr", "exprEnd", "objAdd", "objLoop">>)
  PROVE  StackOK' /\ stack' # <<>> /\ Head(stack') \in {"expr", "str"}
<1>1. "arrLoop" \notin Roots /\ "objLoop" \notin Roots
  BY DEF Roots
<1>2. CASE Head(stack) = "arrLoop" /\ Goto(<<"expr", "exprEnd", "arrAdd", "arrLoop">>)
  <2> DEFINE new == <<"expr", "exprEnd", "arrAdd", "arrLoop">>
  <2>1. new \in Seq(Labels) /\ new # <<>> /\ new[1] = "expr" /\ new[Len(new)] = "arrLoop"
    BY PushedLabels, SMT
  <2>2. Linked(new)
    BY BelowValues, SMT DEF Linked
  <2>3. Goto(new)
    BY <1>2
  <2> HIDE DEF new
  <2> QED
    BY <1>1, <1>2, <2>1, <2>2, <2>3, GotoStackOK, GotoPlace
<1>3. CASE /\ Head(stack) = "objLoop"
           /\ Goto(<<"str", "objKey", "expr", "exprEnd", "objAdd", "objLoop">>)
  <2> DEFINE new == <<"str", "objKey", "expr", "exprEnd", "objAdd", "objLoop">>
  <2>1. new \in Seq(Labels) /\ new # <<>> /\ new[1] = "str" /\ new[Len(new)] = "objLoop"
    BY PushedLabels, SMT
  <2>2. Linked(new)
    BY BelowValues, SMT DEF Linked
  <2>3. Goto(new)
    BY <1>3
  <2> HIDE DEF new
  <2> QED
    BY <1>1, <1>3, <2>1, <2>2, <2>3, GotoStackOK, GotoPlace
<1> QED
  BY <1>2, <1>3

\* The same three facts as the steps below use them: where the parser stands
\* after a push, a return or a step that leaves the stack alone.
LEMMA PlaceAfter ==
  ASSUME stack \in Seq(Labels), stack # <<>>, StackOK
  PROVE  /\ \A l \in Labels \ {"skip"} :
              /\ Goto(<<l>>)
              /\ Below(Head(stack)) \subseteq Below(l)
              /\ Head(stack) \in Roots => l \in Roots
              => StackOK' /\ stack' # <<>> /\ Head(stack') = l /\ Place' = l
         /\ /\ Goto(<<"skip">>)
            /\ Head(stack) \notin Roots
            /\ Below(Head(stack)) \subseteq Below("skip")
            => StackOK' /\ stack' # <<>> /\ Head(stack') = "skip" /\ Place' = stack[2]
         /\ \A l, m \in Labels :
              /\ Goto(<<l, m>>)
              /\ m \in Below(l) /\ Below(Head(stack)) \subseteq Below(m)
              /\ Head(stack) \in Roots => m \in Roots
              => /\ StackOK' /\ stack' # <<>> /\ Head(stack') = l
                 /\ Place' = IF l = "skip" THEN m ELSE l
         /\ /\ Return \/ Goto(<<>>)
            /\ Head(stack) \notin Roots
            => StackOK' /\ stack' # <<>> /\ Head(stack') = stack[2]
         /\ UNCHANGED stack => StackOK' /\ stack' # <<>> /\ Place' = Place
<1>1. "skip" \in Labels
  BY DEF Labels, Unchecked
<1>2. ASSUME NEW l \in Labels \ {"skip"}, Goto(<<l>>), Below(Head(stack)) \subseteq Below(l),
             Head(stack) \in Roots => l \in Roots
      PROVE  StackOK' /\ stack' # <<>> /\ Head(stack') = l /\ Place' = l
  BY <1>2, GotoOne DEF Place
<1>3. ASSUME Goto(<<"skip">>), Head(stack) \notin Roots, Below(Head(stack)) \subseteq Below("skip")
      PROVE  StackOK' /\ stack' # <<>> /\ Head(stack') = "skip" /\ Place' = stack[2]
  BY <1>1, <1>3, GotoOne DEF Place
<1>4. ASSUME NEW l \in Labels, NEW m \in Labels, Goto(<<l, m>>),
             m \in Below(l), Below(Head(stack)) \subseteq Below(m),
             Head(stack) \in Roots => m \in Roots
      PROVE  /\ StackOK' /\ stack' # <<>> /\ Head(stack') = l
             /\ Place' = IF l = "skip" THEN m ELSE l
  BY <1>4, GotoTwo DEF Place
<1>5. ASSUME Return \/ Goto(<<>>), Head(stack) \notin Roots
      PROVE  StackOK' /\ stack' # <<>> /\ Head(stack') = stack[2]
  BY <1>5, ReturnPlace
<1>6. ASSUME UNCHANGED stack PROVE StackOK' /\ stack' # <<>> /\ Place' = Place
  BY <1>6 DEF StackOK, Linked, Place
<1> QED
  BY <1>2, <1>3, <1>4, <1>5, <1>6

(***************************************************************************)
(* What a step does to the last token read.                                *)
(***************************************************************************)
Still == UNCHANGED <<streamVars, next>>

\* Nothing is known, or needs to be known, of the last token here.
FreePlaces == Labels \ (AfterToken \cup FlagPlaces \cup {"digits10", "letters", "skip"})

Effect ==
  \/ Head(stack') = "readSync" /\ Still
  \/ (nextChar \/ Still) /\ Place' \in FreePlaces
  \/ /\ nextChar /\ ~isWhiteSpace(next) /\ next # ","
     /\ Place' \in FlagPlaces => lastWasComma' = FALSE
  \/ nextChar /\ next = "," /\ lastWasComma' = TRUE /\ Place' \in FlagPlaces
  \/ /\ nextChar /\ isWhiteSpace(next) /\ Head(stack) = "skip"
     /\ UNCHANGED <<lastWasComma, stack>>
  \/ /\ Still /\ UNCHANGED lastWasComma
     /\ \/ Place' = Place
        \/ Place' \in AfterToken /\ Place \in AfterToken
        \/ Place' \in FlagPlaces /\ Place \in FlagPlaces
  \/ Still /\ Place = "digits10" /\ ~isNumber(next) /\ Place' \in AfterToken
  \/ Still /\ Place = "letters" /\ ~isLowerAlpha(next) /\ Place' \in AfterToken
  \/ Still /\ Place' = "digits10" /\ isNumber(next)
  \/ Still /\ Place' = "letters" /\ isLowerAlpha(next)
  \/ Still /\ Place = "exprEnd" /\ lastWasComma' = FALSE /\ Place' \in FlagPlaces

\* The sets of labels, for the leaves that need them.
LEMMA PlaceSets ==
  /\ Labels = Checked \cup Unchecked
  /\ {"parseJSON", "expr", "rootEnd", "objKey", "str", "chars", "escape", "hex4", "hex3",
      "hex2", "hex1", "natural", "decimal", "expSign", "lit"} \subseteq FreePlaces
BY SMT DEF Labels, Checked, Unchecked, FreePlaces, AfterToken, FlagPlaces

LEMMA ThrowEffect ==
  ASSUME stack \in Seq(Labels), NEW error, Throw(error)
  PROVE  StackOK' /\ stack' # <<>> /\ Effect /\ UNCHANGED start
<1>1. stack' = <<"readSync">>
  BY DEF Throw
<1>2. Linked(<<"readSync">>) /\ <<"readSync">> # <<>> /\ <<"readSync">>[Len(<<"readSync">>)] = "readSync"
      /\ Head(<<"readSync">>) = "readSync"
  BY SMT DEF Linked
<1>3. StackOK'
  BY <1>1, <1>2 DEF StackOK, Linked, Roots
<1> QED
  BY <1>1, <1>2, <1>3 DEF Effect, Still, Throw, parserVars, streamVars

LEMMA StringEffect ==
  ASSUME stack \in Seq(Labels), StackOK,
         \/ BeginString \/ NotAString \/ StringChar \/ Escape
         \/ validateUnicodeSequence \/ StringDone
  PROVE  stack # <<>> /\ StackOK' /\ stack' # <<>> /\ Effect /\ UNCHANGED start
<1>0. stack # <<>>
  BY DEF BeginString, NotAString, StringChar, Escape, validateUnicodeSequence,
         HexDigit, StringDone, On, At
<1>1. CASE BeginString
  <2>1. Head(stack) = "str" /\ Goto(<<"chars">>) /\ nextChar /\ UNCHANGED start
    BY <1>1 DEF BeginString, On, At, match, callVars
  <2>2. StackOK' /\ stack' # <<>> /\ Place' = "chars"
    BY <1>0, <2>1, BelowValues, PlaceAfter, PlaceSets DEF Roots, Checked
  <2> QED
    BY <1>0, <2>1, <2>2, PlaceSets DEF Effect
<1>2. CASE NotAString
  BY <1>0, <1>2, ThrowEffect DEF NotAString
<1>3. CASE StringChar
  <2>0. Head(stack) = "chars" /\ Head(stack) \notin Roots /\ Place = "chars"
    BY <1>3 DEF StringChar, On, At, Roots, Place
  <2>1. CASE PushNext /\ UNCHANGED stack
    BY <1>0, <2>0, <2>1, PlaceAfter, PlaceSets DEF PushNext, Effect, callVars
  <2>2. CASE PushNext /\ Goto(<<"escape">>)
    <3>1. StackOK' /\ stack' # <<>> /\ Place' = "escape"
      BY <1>0, <2>0, <2>2, BelowValues, PlaceAfter, PlaceSets DEF Roots, Checked
    <3> QED
      BY <1>0, <2>2, <3>1, PlaceSets DEF PushNext, Effect, callVars
  <2>3. CASE next = "quote" /\ match /\ Goto(<<"skip">>) /\ UNCHANGED <<treeVars, callVars>>
    <3>1. StackOK' /\ stack' # <<>> /\ Place' = stack[2]
      BY <1>0, <2>0, <2>3, BelowValues, PlaceAfter DEF Roots
    <3>2. stack[2] \in {"strDone", "objKey"}
      BY <1>0, <2>0, UnderHead, BelowValues
    <3>3. ~isWhiteSpace(next) /\ next # "," /\ stack[2] \notin FlagPlaces
      BY <2>3, <3>2 DEF isWhiteSpace, WhiteSpace, FlagPlaces
    <3> QED
      BY <1>0, <2>3, <3>1, <3>3 DEF match, Effect, callVars
  <2>4. CASE Throw("BAD_JSON")
    BY <1>0, <2>4, ThrowEffect
  <2> QED
    BY <1>3, <2>1, <2>2, <2>3, <2>4 DEF StringChar
<1>4. CASE Escape \/ validateUnicodeSequence
  <2>1. CASE Throw("BAD_JSON")
    BY <1>0, <2>1, ThrowEffect
  <2>2. CASE \E here, there \in {"escape", "hex4", "hex3", "hex2", "hex1", "chars"} :
                Head(stack) = here /\ PushNext /\ Goto(<<there>>)
    <3>1. PICK here, there \in {"escape", "hex4", "hex3", "hex2", "hex1", "chars"} :
                Head(stack) = here /\ PushNext /\ Goto(<<there>>)
      BY <2>2
    <3>2. there \in Labels \ {"skip"} /\ here \notin Roots /\ there \in FreePlaces
      BY PlaceSets DEF Checked, Roots
    <3>3. StackOK' /\ stack' # <<>> /\ Place' = there
      BY <1>0, <3>1, <3>2, BelowValues, PlaceAfter
    <3> QED
      BY <1>0, <3>1, <3>2, <3>3 DEF PushNext, Effect, callVars
  <2> QED
    BY <1>4, <2>1, <2>2 DEF Escape, validateUnicodeSequence, HexDigit, On, At
<1>5. CASE StringDone
  <2>1. Head(stack) = "strDone" /\ Return /\ Still /\ UNCHANGED start /\ "strDone" \notin Roots
    BY <1>5 DEF StringDone, At, Still, parserVars, callVars, Roots
  <2>2. StackOK' /\ stack' # <<>> /\ Head(stack') = stack[2]
    BY <1>0, <2>1, PlaceAfter
  <2>3. stack[2] \in {"exprEnd", "rootEnd"}
    BY <1>0, <2>1, UnderHead, BelowValues
  <2>4. Place = "strDone" /\ Place' = stack[2] /\ UNCHANGED lastWasComma
    BY <1>5, <2>1, <2>2, <2>3 DEF Place, StringDone, parserVars
  <2>5. "strDone" \in AfterToken /\ "exprEnd" \in AfterToken /\ "rootEnd" \in FreePlaces
    BY PlaceSets DEF AfterToken
  <2> QED
    BY <1>0, <2>1, <2>2, <2>3, <2>4, <2>5 DEF Effect
<1> QED
  BY <1>1, <1>2, <1>3, <1>4, <1>5

\* A scalar was read: control returns to where a token lies behind it.
LEMMA ReturnEffect ==
  ASSUME stack \in Seq(Labels), stack # <<>>, StackOK, Return \/ Goto(<<>>), Still,
         Below(Head(stack)) \subseteq AfterToken \cup {"rootEnd"},
         Head(stack) \notin Roots \cup {"skip"}, UNCHANGED start,
         \/ Head(stack) \in AfterToken /\ UNCHANGED lastWasComma
         \/ Head(stack) = "digits10" /\ ~isNumber(next)
  PROVE  StackOK' /\ stack' # <<>> /\ Effect
<1>1. StackOK' /\ stack' # <<>> /\ Head(stack') = stack[2]
  BY PlaceAfter
<1>2. stack[2] \in AfterToken \cup {"rootEnd"}
  BY UnderHead
<1>3. Place = Head(stack) /\ Place' = stack[2]
  BY <1>1, <1>2 DEF Place, AfterToken
<1> QED
  BY <1>1, <1>2, <1>3, PlaceSets DEF Effect

LEMMA ScalarEffect ==
  ASSUME stack \in Seq(Labels), StackOK,
         \/ Natural \/ AfterZero \/ MoreDigits \/ Decimal \/ Fraction \/ Exponent
         \/ ExponentSign \/ NumberEnd \/ NumberDone
         \/ BeginLiteral \/ Letters \/ LiteralDone
  PROVE  stack # <<>> /\ StackOK' /\ stack' # <<>> /\ Effect /\ UNCHANGED start
<1>0. stack # <<>>
  BY DEF Natural, AfterZero, MoreDigits, DigitsOf, Decimal, Fraction, Exponent,
         ExponentSign, NumberEnd, NumberDone, BeginLiteral, Letters, LiteralDone, On, At
<1>t. ASSUME NEW error, Throw(error)
      PROVE  stack # <<>> /\ StackOK' /\ stack' # <<>> /\ Effect /\ UNCHANGED start
  BY <1>0, <1>t, ThrowEffect
<1>j. ASSUME NEW l, Jump(l) PROVE Goto(l) /\ Still /\ UNCHANGED <<lastWasComma, start>>
  BY <1>j DEF Jump, Still, Peek, callVars
<1>p. ASSUME PushNext \/ PushMatch PROVE nextChar /\ UNCHANGED start
  BY <1>p DEF PushNext, PushMatch, match, callVars
<1>d. ASSUME isNumber(next) \/ isHex(next) \/ isBasePrefix(next) \/ isLowerAlpha(next)
      PROVE  ~isWhiteSpace(next) /\ next # ","
  BY <1>d DEF isNumber, isHex, isBasePrefix, isLowerAlpha, isWhiteSpace, WhiteSpace, Digits,
              UpperHex, LowerHex, LowerAlpha
<1>1. CASE Natural
  <2>1. Head(stack) = "natural" /\ Place = "natural"
    BY <1>1 DEF Natural, On, At, Place
  <2>2. CASE next = "0" /\ PushNext /\ Goto(<<"zero">>)
    <3>1. StackOK' /\ stack' # <<>> /\ Place' = "zero"
      BY <1>0, <2>1, <2>2, BelowValues, PlaceAfter, PlaceSets DEF Roots, Checked
    <3>2. isNumber(next) /\ "zero" \notin FlagPlaces
      BY <2>2 DEF isNumber, Digits, FlagPlaces
    <3> QED
      BY <1>0, <1>p, <1>d, <2>2, <3>1, <3>2 DEF Effect
  <2>3. CASE isNumber(next) /\ Jump(<<"digits10">>)
    <3>1. StackOK' /\ stack' # <<>> /\ Place' = "digits10"
      BY <1>0, <1>j, <2>1, <2>3, BelowValues, PlaceAfter, PlaceSets DEF Roots, Checked
    <3> QED
      BY <1>0, <1>j, <2>3, <3>1 DEF Effect
  <2> QED
    BY <1>1, <1>t, <2>2, <2>3 DEF Natural
<1>2. CASE AfterZero
  <2>1. Head(stack) = "zero" /\ Place = "zero"
    BY <1>2 DEF AfterZero, On, At, Place
  <2>2. CASE \E l \in {"digits16", "digits8", "digits2"} :
               isBasePrefix(next) /\ PushNext /\ Goto(<<l>>)
    <3>1. PICK l \in {"digits16", "digits8", "digits2"} :
               isBasePrefix(next) /\ PushNext /\ Goto(<<l>>)
      BY <2>2
    <3>2. StackOK' /\ stack' # <<>> /\ Place' = l
      BY <1>0, <2>1, <3>1, BelowValues, PlaceAfter, PlaceSets DEF Roots, Checked
    <3>3. l \notin FlagPlaces
      BY DEF FlagPlaces
    <3> QED
      BY <1>0, <1>p, <1>d, <3>1, <3>2, <3>3 DEF Effect
  <2>3. CASE Jump(<<>>)
    BY <1>0, <1>j, <2>1, <2>3, BelowValues, ReturnEffect DEF AfterToken, Roots
  <2> QED
    BY <1>2, <1>t, <2>2, <2>3 DEF AfterZero, isBasePrefix
<1>3. CASE MoreDigits
  <2>1. PICK l \in {"digits10", "digits16", "digits8", "digits2"} :
           /\ Head(stack) = l
           /\ \/ PushNext /\ UNCHANGED stack /\ isHex(next)
              \/ Jump(<<>>) /\ (l = "digits10" => ~isNumber(next))
    BY <1>3 DEF MoreDigits, DigitsOf, On, At, isNumber, isHex, isOct, isBin, Digits
  <2>2. Place = l /\ l \notin Roots \cup {"skip"} \cup FlagPlaces
    BY <2>1 DEF Place, Roots, FlagPlaces
  <2>3. CASE PushNext /\ UNCHANGED stack /\ isHex(next)
    BY <1>0, <1>p, <1>d, <2>2, <2>3, PlaceAfter DEF Effect
  <2>4. CASE Jump(<<>>) /\ (l = "digits10" => ~isNumber(next))
    <3>1. l = "digits10" \/ l \in AfterToken
      BY DEF AfterToken
    <3>2. Below(l) \subseteq AfterToken \cup {"rootEnd"}
      BY BelowValues DEF AfterToken
    <3> QED
      BY <1>0, <1>j, <2>1, <2>2, <2>4, <3>1, <3>2, ReturnEffect
  <2> QED
    BY <2>1, <2>3, <2>4
<1>4. CASE Decimal
  <2>1. Head(stack) = "decimal"
    BY <1>4 DEF Decimal, On, At
  <2>2. CASE isNumber(next) /\ Jump(<<"digits10">>)
    <3>1. StackOK' /\ stack' # <<>> /\ Place' = "digits10"
      BY <1>0, <1>j, <2>1, <2>2, BelowValues, PlaceAfter, PlaceSets DEF Roots, Checked
    <3> QED
      BY <1>0, <1>j, <2>2, <3>1 DEF Effect
  <2> QED
    BY <1>4, <1>t, <2>2 DEF Decimal
<1>5. CASE Fraction
  <2>1. Head(stack) = "fraction" /\ Place = "fraction"
    BY <1>5 DEF Fraction, On, At, Place
  <2>2. CASE PushMatch /\ Goto(<<"decimal", "exponent">>)
    <3>1. StackOK' /\ stack' # <<>> /\ Place' = "decimal"
      BY <1>0, <2>1, <2>2, BelowValues, PlaceAfter, PlaceSets DEF Roots, Checked
    <3> QED
      BY <1>0, <1>p, <2>2, <3>1, PlaceSets DEF Effect
  <2>3. CASE Jump(<<"exponent">>)
    <3>1. StackOK' /\ stack' # <<>> /\ Place' = "exponent"
      BY <1>0, <1>j, <2>1, <2>3, BelowValues, PlaceAfter, PlaceSets DEF Roots, Checked
    <3> QED
      BY <1>0, <1>j, <2>1, <2>3, <3>1 DEF Effect, AfterToken
  <2> QED
    BY <1>5, <2>2, <2>3 DEF Fraction
<1>6. CASE Exponent
  <2>1. Head(stack) = "exponent" /\ Place = "exponent"
    BY <1>6 DEF Exponent, On, At, Place
  <2>2. CASE PushNext /\ Goto(<<"expSign">>)
    <3>1. StackOK' /\ stack' # <<>> /\ Place' = "expSign"
      BY <1>0, <2>1, <2>2, BelowValues, PlaceAfter, PlaceSets DEF Roots, Checked
    <3> QED
      BY <1>0, <1>p, <2>2, <3>1, PlaceSets DEF Effect
  <2>3. CASE Jump(<<"numEnd">>)
    <3>1. StackOK' /\ stack' # <<>> /\ Place' = "numEnd"
      BY <1>0, <1>j, <2>1, <2>3, BelowValues, PlaceAfter, PlaceSets DEF Roots, Unchecked
    <3> QED
      BY <1>0, <1>j, <2>1, <2>3, <3>1 DEF Effect, AfterToken
  <2> QED
    BY <1>6, <2>2, <2>3 DEF Exponent
<1>7. CASE ExponentSign
  <2>1. Head(stack) = "expSign"
    BY <1>7 DEF ExponentSign, On, At
  <2>2. Goto(<<"natural", "numEnd">>) /\ (nextChar \/ Still) /\ UNCHANGED start
    BY <1>7, <1>j, <1>p DEF ExponentSign
  <2>3. /\ "natural" \in Labels /\ "numEnd" \in Labels /\ "numEnd" \in Below("natural")
        /\ Below(Head(stack)) \subseteq Below("numEnd") /\ Head(stack) \notin Roots
    BY <2>1, BelowValues, PlaceSets DEF Roots, Checked, Unchecked
  <2>4. StackOK' /\ stack' # <<>> /\ Place' = "natural"
    BY <1>0, <2>2, <2>3, PlaceAfter
  <2> QED
    BY <1>0, <2>2, <2>4, PlaceSets DEF Effect
<1>8. CASE NumberEnd
  <2>1. Head(stack) = "numEnd" /\ Place = "numEnd" /\ Jump(<<"skip", "numDone">>)
    BY <1>8 DEF NumberEnd, At, Place
  <2>2. StackOK' /\ stack' # <<>> /\ Place' = "numDone"
    BY <1>0, <1>j, <2>1, BelowValues, PlaceAfter, PlaceSets DEF Roots, Unchecked
  <2> QED
    BY <1>0, <1>j, <2>1, <2>2 DEF Effect, AfterToken
<1>9. CASE NumberDone
  <2>1. Head(stack) = "numDone" /\ Return /\ Still /\ UNCHANGED <<lastWasComma, start>>
    BY <1>9 DEF NumberDone, At, Still, parserVars, callVars
  <2> QED
    BY <1>0, <2>1, BelowValues, ReturnEffect DEF AfterToken, Roots
<1>10. CASE BeginLiteral
  <2>1. Head(stack) = "lit"
    BY <1>10 DEF BeginLiteral, On, At
  <2>2. CASE isLowerAlpha(next) /\ Jump(<<"letters">>)
    <3>1. StackOK' /\ stack' # <<>> /\ Place' = "letters"
      BY <1>0, <1>j, <2>1, <2>2, BelowValues, PlaceAfter, PlaceSets DEF Roots, Checked
    <3> QED
      BY <1>0, <1>j, <2>2, <3>1 DEF Effect
  <2> QED
    BY <1>10, <1>t, <2>2 DEF BeginLiteral
<1>11. CASE Letters
  <2>1. Head(stack) = "letters" /\ Place = "letters" /\ "letters" \notin FlagPlaces
    BY <1>11 DEF Letters, On, At, Place, FlagPlaces
  <2>2. CASE isLowerAlpha(next) /\ PushNext /\ UNCHANGED stack
    BY <1>0, <1>p, <1>d, <2>1, <2>2, PlaceAfter DEF Effect
  <2>3. CASE ~isLowerAlpha(next) /\ Jump(<<"skip", "litDone">>)
    <3>1. StackOK' /\ stack' # <<>> /\ Place' = "litDone"
      BY <1>0, <1>j, <2>1, <2>3, BelowValues, PlaceAfter, PlaceSets DEF Roots, Unchecked
    <3> QED
      BY <1>0, <1>j, <2>1, <2>3, <3>1 DEF Effect, AfterToken
  <2> QED
    BY <1>11, <2>2, <2>3 DEF Letters
<1>12. CASE LiteralDone
  <2>1. CASE Return /\ UNCHANGED <<streamVars, parserVars, text, partial, callVars>>
    <3>1. Head(stack) = "litDone" /\ Still /\ UNCHANGED <<lastWasComma, start>>
      BY <1>12, <2>1 DEF LiteralDone, At, Still, parserVars, callVars
    <3> QED
      BY <1>0, <2>1, <3>1, BelowValues, ReturnEffect DEF AfterToken, Roots
  <2> QED
    BY <1>12, <1>t, <2>1 DEF LiteralDone
<1> QED
  BY <1>1, <1>2, <1>3, <1>4, <1>5, <1>6, <1>7, <1>8, <1>9, <1>10, <1>11, <1>12

LEMMA TreeEffect ==
  ASSUME stack \in Seq(Labels), StackOK,
         \/ Expression \/ ExpressionEnd \/ ObjectLoop \/ ObjectKey \/ ObjectAdd
         \/ ArrayLoop \/ ArrayAdd
  PROVE  stack # <<>> /\ StackOK' /\ stack' # <<>> /\ Effect /\ UNCHANGED start
<1>0. stack # <<>>
  BY DEF Expression, ExpressionEnd, ObjectLoop, ObjectKey, ObjectAdd, ArrayLoop, ArrayAdd,
         On, At
<1>t. ASSUME NEW error, Throw(error)
      PROVE  stack # <<>> /\ StackOK' /\ stack' # <<>> /\ Effect /\ UNCHANGED start
  BY <1>0, <1>t, ThrowEffect
<1>j. ASSUME NEW l, Jump(l) PROVE Goto(l) /\ Still /\ UNCHANGED start
  BY <1>j DEF Jump, Still, Peek, callVars
\* A bracket or a colon is matched: white space is skipped for what is below.
<1>m. ASSUME Head(stack) \notin Roots, match, Goto(<<"skip">>), UNCHANGED callVars,
             Below(Head(stack)) \subseteq Below("skip"), next \in {"}", "]", ":"},
             Below(Head(stack)) \intersect FlagPlaces = {}
      PROVE  StackOK' /\ stack' # <<>> /\ Effect /\ UNCHANGED start
  <2>1. StackOK' /\ stack' # <<>> /\ Place' = stack[2]
    BY <1>0, <1>m, PlaceAfter
  <2>2. stack[2] \notin FlagPlaces
    BY <1>0, <1>m, UnderHead
  <2>3. ~isWhiteSpace(next) /\ next # ","
    BY <1>m DEF isWhiteSpace, WhiteSpace
  <2> QED
    BY <1>m, <2>1, <2>2, <2>3 DEF match, Effect, callVars
<1>1. CASE Expression
  <2>1. Head(stack) = "expr"
    BY <1>1 DEF Expression, On, At
  <2>2. ASSUME NEW type, NEW loop \in {"objLoop", "arrLoop"}, next \in {"{", "["}, Open(type, loop)
        PROVE  stack # <<>> /\ StackOK' /\ stack' # <<>> /\ Effect /\ UNCHANGED start
    <3>1. /\ "skip" \in Labels /\ loop \in Labels /\ loop \in Below("skip")
          /\ Below(Head(stack)) \subseteq Below(loop) /\ Head(stack) \notin Roots
      BY <2>1, BelowValues, PlaceSets DEF Roots, Checked, Unchecked
    <3>2. StackOK' /\ stack' # <<>> /\ Place' = loop
      BY <1>0, <2>2, <3>1, PlaceAfter DEF Open
    <3>3. nextChar /\ lastWasComma' = FALSE /\ UNCHANGED start
      BY <2>2 DEF Open, match, callVars
    <3>4. ~isWhiteSpace(next) /\ next # ","
      BY <2>2 DEF isWhiteSpace, WhiteSpace
    <3> QED
      BY <1>0, <3>2, <3>3, <3>4 DEF Effect
  <2>3. CASE Jump(<<"str", "strDone">>)
    <3>1. /\ "str" \in Labels /\ "strDone" \in Labels /\ "strDone" \in Below("str")
          /\ Below(Head(stack)) \subseteq Below("strDone") /\ Head(stack) \notin Roots
      BY <2>1, BelowValues, PlaceSets DEF Roots, Checked, Unchecked
    <3>2. StackOK' /\ stack' # <<>> /\ Place' = "str"
      BY <1>0, <1>j, <2>3, <3>1, PlaceAfter
    <3> QED
      BY <1>0, <1>j, <2>3, <3>2, PlaceSets DEF Effect
  <2>4. CASE Goto(<<"natural", "fraction">>) /\ (match \/ Peek) /\ UNCHANGED callVars
    <3>1. /\ "natural" \in Labels /\ "fraction" \in Labels /\ "fraction" \in Below("natural")
          /\ Below(Head(stack)) \subseteq Below("fraction") /\ Head(stack) \notin Roots
      BY <2>1, BelowValues, PlaceSets DEF Roots, Checked
    <3>2. StackOK' /\ stack' # <<>> /\ Place' = "natural"
      BY <1>0, <2>4, <3>1, PlaceAfter
    <3> QED
      BY <1>0, <2>4, <3>2, PlaceSets DEF Effect, Still, match, Peek, callVars
  <2>5. CASE Goto(<<"lit">>) /\ Peek /\ UNCHANGED callVars
    <3>1. StackOK' /\ stack' # <<>> /\ Place' = "lit"
      BY <1>0, <2>1, <2>5, BelowValues, PlaceAfter, PlaceSets DEF Roots, Checked
    <3> QED
      BY <1>0, <2>5, <3>1, PlaceSets DEF Effect, Still, Peek, callVars
  <2> QED
    BY <1>1, <2>2, <2>3, <2>4, <2>5 DEF Expression
<1>2. CASE ExpressionEnd
  <2>1. Head(stack) = "exprEnd" /\ Place = "exprEnd" /\ Head(stack) \notin Roots
    BY <1>2 DEF ExpressionEnd, On, At, Place, Roots
  <2>2. stack[2] \in {"objAdd", "arrAdd"} /\ stack[2] \in FlagPlaces
    BY <1>0, <2>1, UnderHead, BelowValues DEF FlagPlaces
  <2>3. CASE next = "," /\ match /\ Goto(<<"skip">>) /\ UNCHANGED <<treeVars, callVars>>
    <3>1. StackOK' /\ stack' # <<>> /\ Place' = stack[2]
      BY <1>0, <2>1, <2>3, BelowValues, PlaceAfter
    <3> QED
      BY <1>0, <2>2, <2>3, <3>1 DEF Effect, match, callVars
  <2>4. CASE Return /\ Peek /\ lastWasComma' = FALSE /\ UNCHANGED <<treeVars, callVars>>
    <3>1. StackOK' /\ stack' # <<>> /\ Head(stack') = stack[2]
      BY <1>0, <2>1, <2>4, PlaceAfter
    <3>2. Place' = stack[2]
      BY <2>2, <3>1 DEF Place
    <3> QED
      BY <1>0, <2>1, <2>2, <2>4, <3>1, <3>2 DEF Effect, Still, Peek, callVars
  <2> QED
    BY <1>2, <1>t, <2>3, <2>4 DEF ExpressionEnd
<1>3. CASE ObjectLoop \/ ArrayLoop
  <2>1. Head(stack) \in {"objLoop", "arrLoop"} /\ Head(stack) \notin Roots
    BY <1>3 DEF ObjectLoop, ArrayLoop, On, At, Roots
  <2>2. CASE next \in {"}", "]"} /\ Close
    <3>1. /\ Below(Head(stack)) \subseteq Below("skip")
          /\ Below(Head(stack)) \intersect FlagPlaces = {}
      BY <2>1, BelowValues DEF FlagPlaces
    <3> QED
      BY <1>0, <1>t, <1>m, <2>1, <2>2, <3>1 DEF Close, callVars
  <2>3. CASE \/ Head(stack) = "arrLoop" /\ Jump(<<"expr", "exprEnd", "arrAdd", "arrLoop">>)
             \/ /\ Head(stack) = "objLoop"
                /\ Jump(<<"str", "objKey", "expr", "exprEnd", "objAdd", "objLoop">>)
    <3>1. StackOK' /\ stack' # <<>> /\ Head(stack') \in {"expr", "str"}
      BY <1>0, <1>j, <2>3, GotoMore
    <3>2. Place' \in FreePlaces
      BY <3>1, PlaceSets DEF Place
    <3> QED
      BY <1>0, <1>j, <2>3, <3>1, <3>2 DEF Effect
  <2> QED
    BY <1>3, <2>2, <2>3 DEF ObjectLoop, ArrayLoop, On, At
<1>4. CASE ObjectKey
  <2>1. Head(stack) = "objKey" /\ Head(stack) \notin Roots
    BY <1>4 DEF ObjectKey, On, At, Roots
  <2>2. /\ Below(Head(stack)) \subseteq Below("skip")
        /\ Below(Head(stack)) \intersect FlagPlaces = {}
    BY <2>1, BelowValues DEF FlagPlaces
  <2> QED
    BY <1>0, <1>4, <1>t, <1>m, <2>1, <2>2 DEF ObjectKey, callVars
<1>5. CASE ObjectAdd \/ ArrayAdd
  <2>1. /\ Head(stack) \in {"objAdd", "arrAdd"} /\ Head(stack) \notin Roots
        /\ Return /\ Still /\ UNCHANGED <<lastWasComma, start>>
    BY <1>5 DEF ObjectAdd, ArrayAdd, At, Roots, Still, parserVars, callVars
  <2>2. StackOK' /\ stack' # <<>> /\ Head(stack') = stack[2]
    BY <1>0, <2>1, PlaceAfter
  <2>3. stack[2] \in {"objLoop", "arrLoop"}
    BY <1>0, <2>1, UnderHead, BelowValues
  <2>4. Place \in FlagPlaces /\ Place' \in FlagPlaces
    BY <2>1, <2>2, <2>3 DEF Place, FlagPlaces
  <2> QED
    BY <1>0, <2>1, <2>2, <2>4 DEF Effect
<1> QED
  BY <1>1, <1>2, <1>3, <1>4, <1>5

LEMMA CallEffect ==
  ASSUME stack \in Seq(Labels), StackOK, EndOfData \/ Construct \/ ParseJSON \/ RootEnd \/ skipWhite
  PROVE  stack # <<>> /\ StackOK' /\ stack' # <<>> /\ Effect /\ UNCHANGED start
<1>0. stack # <<>>
  BY DEF EndOfData, Construct, ParseJSON, RootEnd, skipWhite, On, At
<1>t. ASSUME NEW error, Throw(error)
      PROVE  stack # <<>> /\ StackOK' /\ stack' # <<>> /\ Effect /\ UNCHANGED start
  BY <1>0, <1>t, ThrowEffect
<1>j. ASSUME NEW l, Jump(l) PROVE Goto(l) /\ Still /\ UNCHANGED <<lastWasComma, start>>
  BY <1>j DEF Jump, Still, Peek, callVars
<1>1. CASE EndOfData
  BY <1>1, <1>t DEF EndOfData
<1>2. CASE Construct
  <2>1. Head(stack) = "construct" /\ Goto(<<"parseJSON">>) /\ nextChar /\ UNCHANGED start
    BY <1>2 DEF Construct, On, At, callVars
  <2>2. StackOK' /\ stack' # <<>> /\ Place' = "parseJSON"
    BY <1>0, <2>1, BelowValues, PlaceAfter, PlaceSets DEF Roots, Checked
  <2> QED
    BY <1>0, <2>1, <2>2, PlaceSets DEF Effect
<1>3. CASE ParseJSON
  <2>1. Head(stack) = "parseJSON"
    BY <1>3 DEF ParseJSON, On, At
  <2>2. CASE Jump(<<"expr", "rootEnd">>)
    <3>1. /\ "expr" \in Labels /\ "rootEnd" \in Labels /\ "rootEnd" \in Below("expr")
          /\ Below(Head(stack)) \subseteq Below("rootEnd") /\ "rootEnd" \in Roots
      BY <2>1, BelowValues, PlaceSets DEF Roots, Checked, Unchecked
    <3>2. StackOK' /\ stack' # <<>> /\ Place' = "expr"
      BY <1>0, <1>j, <2>2, <3>1, PlaceAfter
    <3> QED
      BY <1>0, <1>j, <2>2, <3>2, PlaceSets DEF Effect
  <2> QED
    BY <1>3, <1>t, <2>2 DEF ParseJSON
<1>4. CASE RootEnd
  <2>1. Head(stack) = "rootEnd" /\ Goto(<<"readSync">>) /\ Still /\ UNCHANGED start
    BY <1>4 DEF RootEnd, At, Still
  <2>2. StackOK' /\ stack' # <<>> /\ Head(stack') = "readSync"
    BY <1>0, <2>1, BelowValues, PlaceAfter, PlaceSets DEF Roots, Unchecked
  <2> QED
    BY <1>0, <2>1, <2>2 DEF Effect
<1>5. CASE skipWhite
  <2>1. Head(stack) = "skip" /\ Head(stack) \notin Roots
    BY <1>5 DEF skipWhite, At, Roots
  <2>2. CASE isWhiteSpace(next) /\ nextChar /\ UNCHANGED <<lastWasComma, stack, treeVars, callVars>>
    BY <1>0, <2>1, <2>2, PlaceAfter DEF Effect, callVars
  <2>3. CASE Jump(<<>>)
    <3>1. StackOK' /\ stack' # <<>> /\ Head(stack') = stack[2]
      BY <1>0, <1>j, <2>1, <2>3, PlaceAfter
    <3>2. stack[2] # "skip"
      BY <1>0, <2>1, UnderHead, BelowValues
    <3>3. Place' = Place
      BY <2>1, <3>1, <3>2 DEF Place
    <3> QED
      BY <1>0, <1>j, <2>3, <3>1, <3>3 DEF Effect
  <2> QED
    BY <1>5, <2>2, <2>3 DEF skipWhite
<1> QED
  BY <1>1, <1>2, <1>3, <1>4, <1>5

(***************************************************************************)
(* One message per call.                                                   *)
(***************************************************************************)

\* At the end of the data nothing is read: the parser throws, or does what
\* needs no more characters.
LEMMA StepAtEnd ==
  ASSUME Step, AtEOF
  PROVE  ReadSync \/ Still
<1>1. CASE \/ EndOfData \/ RootEnd \/ skipWhite \/ NumberEnd
  BY <1>1 DEF EndOfData, Throw, RootEnd, skipWhite, NumberEnd, Jump, Peek, Still, parserVars
<1>2. CASE \/ StringDone \/ NumberDone \/ LiteralDone \/ ObjectAdd \/ ArrayAdd
  BY <1>2 DEF StringDone, NumberDone, LiteralDone, ObjectAdd, ArrayAdd, Throw, Still, parserVars
<1>3. ~(\/ Construct \/ ParseJSON \/ Expression \/ ExpressionEnd \/ ObjectLoop \/ ObjectKey
        \/ ArrayLoop)
  BY DEF Construct, ParseJSON, Expression, ExpressionEnd, ObjectLoop, ObjectKey, ArrayLoop, On
<1>4. ~(BeginString \/ NotAString \/ StringChar \/ Escape \/ validateUnicodeSequence)
  BY DEF BeginString, NotAString, StringChar, Escape, validateUnicodeSequence, HexDigit, On
<1>5. ~(\/ Natural \/ AfterZero \/ MoreDigits \/ Decimal \/ Fraction \/ Exponent
        \/ ExponentSign \/ BeginLiteral \/ Letters)
  BY DEF Natural, AfterZero, MoreDigits, DigitsOf, Decimal, Fraction, Exponent, ExponentSign,
         BeginLiteral, Letters, On
<1> QED
  BY <1>1, <1>2, <1>3, <1>4, <1>5 DEF Step

\* What every step but readSync's does.
LEMMA StepEffect ==
  ASSUME stack \in Seq(Labels), StackOK, Step, ~ReadSync
  PROVE  /\ stack # <<>> /\ StackOK' /\ stack' # <<>> /\ Effect /\ UNCHANGED start
         /\ AtEOF => Still
<1>1. CASE EndOfData \/ Construct \/ ParseJSON \/ RootEnd \/ skipWhite
  BY <1>1, CallEffect, StepAtEnd
<1>2. CASE \/ Expression \/ ExpressionEnd \/ ObjectLoop \/ ObjectKey \/ ObjectAdd
           \/ ArrayLoop \/ ArrayAdd
  BY <1>2, TreeEffect, StepAtEnd
<1>3. CASE \/ BeginString \/ NotAString \/ StringChar \/ Escape
           \/ validateUnicodeSequence \/ StringDone
  BY <1>3, StringEffect, StepAtEnd
<1>4. CASE \/ Natural \/ AfterZero \/ MoreDigits \/ Decimal \/ Fraction \/ Exponent
           \/ ExponentSign \/ NumberEnd \/ NumberDone
           \/ BeginLiteral \/ Letters \/ LiteralDone
  BY <1>4, ScalarEffect, StepAtEnd
<1> QED
  BY <1>1, <1>2, <1>3, <1>4 DEF Step

\* Either way the stream moves by nextChar() or not at all.
LEMMA EffectMoves ==
  ASSUME Effect
  PROVE  nextChar \/ Still
BY DEF Effect

LEMMA InitMessageInv == Init => MessageInv
<1> SUFFICES ASSUME Init PROVE MessageInv
  OBVIOUS
<1>1. stack = <<"construct">> /\ stack # <<>>
  BY SMT DEF Init, CallInit
<1>2. StackOK
  BY <1>1, SMT DEF StackOK, Linked, Roots
<1>3. MessageOK
  BY <1>1, SMT DEF Init, CallInit, StreamInit, StreamOver, MessageOK, NoNewline, Returned
<1> QED
  BY <1>2, <1>3, InitTypeOK DEF MessageInv

\* readSync() is the last thing a call does.
LEMMA ReadSyncReturns ==
  ASSUME stack \in Seq(Labels), stack # <<>>, StackOK, Head(stack) = "readSync", Return
  PROVE  stack' = <<>>
<1>1. Len(stack) \in Nat \ {0} /\ Head(stack) = stack[1]
  BY EmptySeq, SMT
<1>2. ~(1 \in 1..Len(stack) - 1)
  BY <1>1, BelowValues DEF StackOK, Linked, Roots
<1>3. \A n \in Nat \ {0} : ~(1 \in 1..n - 1) => n = 1
  BY SMT
<1>4. Len(stack) = 1
  BY <1>1, <1>2, <1>3
<1> QED
  BY <1>4, HeadTailProperties, EmptySeq, SMT DEF Return

\* readSync() stops just past the newline.
LEMMA ReadSyncMessage ==
  ASSUME MessageInv, ReadSync
  PROVE  StackOK' /\ MessageOK'
<1>1. stack \in Seq(Labels) /\ stack # <<>> /\ Head(stack) = "readSync"
  BY DEF MessageInv, TypeOK, ReadSync, At
<1>3. start' = start /\ kind' = kind /\ data' = data
  BY DEF ReadSync, SyncDiscard, SyncDone, callVars
<1>4. pos \in 0..Len(data) /\ Len(data) \in Nat /\ start \in 0..pos
  BY LenProperties DEF MessageInv, TypeOK
<1>5. kind = "rpc" => IF lastRead = "newline" THEN MessageRead ELSE NoNewline(start + 1, pos)
  BY <1>1 DEF MessageInv, MessageOK, Returned
<1>6. CASE SyncDiscard /\ UNCHANGED stack
  <2>1. StackOK'
    BY <1>6 DEF MessageInv, StackOK, Linked
  <2>2. lastRead' = lastRead /\ lastRead # "newline" /\ ~Returned'
    BY <1>1, <1>6 DEF SyncDiscard, SyncPending, Returned
  <2>3. kind = "rpc" => NoNewline(start + 1, pos)'
    BY <1>3, <1>4, <1>5, <1>6, <2>2, SMT DEF SyncDiscard, PeekIsNewline, NoNewline
  <2> QED
    BY <1>3, <2>1, <2>2, <2>3 DEF MessageOK
<1>7. CASE SyncDone /\ Return
  <2>1. stack' = <<>>
    BY <1>1, <1>7, ReadSyncReturns DEF MessageInv
  <2>2. StackOK'
    BY <2>1, SMT DEF StackOK, Linked
  <2>3. kind = "rpc" => MessageRead'
    BY <1>3, <1>4, <1>5, <1>7, SMT
       DEF SyncDone, SyncPending, PeekIsNewline, MessageRead, NoNewline
  <2>4. lastRead' # "newline" /\ Returned'
    BY <1>7, <2>1 DEF SyncDone, Returned
  <2> QED
    BY <1>3, <2>2, <2>3, <2>4 DEF MessageOK
<1> QED
  BY <1>6, <1>7 DEF ReadSync

LEMMA NextMessageInv == MessageInv /\ [Next]_vars => MessageInv'
<1> SUFFICES ASSUME MessageInv, [Next]_vars PROVE StackOK' /\ MessageOK'
  BY NextTypeOK DEF MessageInv
<1>1. stack \in Seq(Labels) /\ StackOK /\ MessageOK
  BY DEF MessageInv, TypeOK
<1>2. pos \in 0..Len(data) /\ Len(data) \in Nat /\ start \in 0..pos
  BY LenProperties DEF MessageInv, TypeOK
<1>3. CASE Step /\ ~ReadSync
  <2>1. /\ stack # <<>> /\ StackOK' /\ stack' # <<>> /\ (nextChar \/ Still) /\ UNCHANGED start
        /\ AtEOF => Still
    BY <1>1, <1>3, StepEffect, EffectMoves
  <2>2. ~Returned /\ ~Returned'
    BY <2>1 DEF Returned
  <2>3. CASE Still
    BY <1>1, <2>1, <2>2, <2>3 DEF Still, streamVars, MessageOK, MessageRead, NoNewline
  <2>4. CASE nextChar /\ ~AtEOF
    <3>1. /\ kind' = kind /\ data' = data
          /\ pos' = IF pos < Len(data) THEN pos + 1 ELSE pos
          /\ kind = "rpc" => lastRead' = IF pos < Len(data) THEN data[pos + 1] ELSE lastRead
      BY <2>4 DEF nextChar, ReadMoves, SocketRead, Read
    <3>2. kind = "rpc" => lastRead # "newline" /\ NoNewline(start + 1, pos)
      BY <1>1, <2>2, <2>4 DEF AtEOF, MessageOK
    <3>3. kind = "rpc" => IF lastRead' = "newline" THEN MessageRead' ELSE NoNewline(start + 1, pos)'
      BY <1>2, <2>1, <3>1, <3>2, SMT DEF MessageRead, NoNewline
    <3> QED
      BY <2>1, <2>2, <3>1, <3>3 DEF MessageOK
  <2> QED
    BY <2>1, <2>3, <2>4
<1>4. CASE ReadSync
  BY <1>4, ReadSyncMessage
<1>5. CASE CallAgain
  <2>1. stack' = <<"construct">> /\ start' = pos /\ UNCHANGED streamVars /\ Returned
    BY <1>5 DEF CallAgain
  <2>2. StackOK' /\ ~Returned'
    BY <2>1, SMT DEF StackOK, Linked, Roots, Returned
  <2>3. NoNewline(start + 1, pos)'
    BY <1>2, <2>1, SMT DEF NoNewline, streamVars
  <2>4. kind = "rpc" => lastRead # "newline"
    BY <1>1, <2>1 DEF MessageOK
  <2> QED
    BY <2>1, <2>2, <2>3, <2>4 DEF MessageOK, streamVars
<1>6. CASE UNCHANGED vars
  BY <1>1, <1>6 DEF vars, streamVars, parserVars, treeVars, callVars, StackOK, Linked,
                    MessageOK, MessageRead, NoNewline, Returned
<1> QED
  BY <1>3, <1>4, <1>5, <1>6 DEF Next

\* However a call of parseJSON on an rpc stream ends, with a tree, BAD_JSON or
\* EOF, it has taken exactly one message off the socket when it returns.
THEOREM CallsTakeOneMessage == Spec => []OneMessagePerCall
<1>1. MessageInv => OneMessagePerCall
  BY DEF MessageInv, MessageOK, MessageRead, NoNewline, OneMessagePerCall
<1> QED
  BY InitMessageInv, NextMessageInv, <1>1, PTL DEF Spec

(***************************************************************************)
(* lastWasComma.                                                           *)
(***************************************************************************)

\* Only the first character of a call is read at its "construct".
LEMMA ConstructFirst ==
  ASSUME Step, stack # <<>>, Head(stack) = "construct"
  PROVE  Construct \/ EndOfData
<1>1. ~(\/ ParseJSON \/ RootEnd \/ ReadSync \/ skipWhite \/ Expression \/ ExpressionEnd
        \/ ObjectLoop \/ ObjectKey \/ ObjectAdd \/ ArrayLoop \/ ArrayAdd)
  BY DEF ParseJSON, RootEnd, ReadSync, skipWhite, Expression, ExpressionEnd, ObjectLoop,
         ObjectKey, ObjectAdd, ArrayLoop, ArrayAdd, On, At
<1>2. ~(\/ BeginString \/ NotAString \/ StringChar \/ Escape \/ validateUnicodeSequence
        \/ StringDone)
  BY DEF BeginString, NotAString, StringChar, Escape, validateUnicodeSequence, HexDigit,
         StringDone, On, At
<1>3. ~(\/ Natural \/ AfterZero \/ MoreDigits \/ Decimal \/ Fraction \/ Exponent
        \/ ExponentSign \/ NumberEnd \/ NumberDone \/ BeginLiteral \/ Letters \/ LiteralDone)
  BY DEF Natural, AfterZero, MoreDigits, DigitsOf, Decimal, Fraction, Exponent, ExponentSign,
         NumberEnd, NumberDone, BeginLiteral, Letters, LiteralDone, On, At
<1> QED
  BY <1>1, <1>2, <1>3 DEF Step

\* While the data lasts, nextChar() moves to the next character.
LEMMA NextCharAdvances ==
  ASSUME CommaInv, stack # <<>>, ~AtEOF, nextChar, ~AtEOF', UNCHANGED start
  PROVE  pos' = pos + 1 /\ data' = data /\ next' = data[pos + 1] /\ pos < Len(data)
<1>1. /\ pos \in 0..Len(data) /\ Len(data) \in Nat /\ start \in 0..pos
      /\ kind \in {"cstr", "view", "file", "rpc"}
  BY LenProperties DEF CommaInv, MessageInv, TypeOK, StreamKinds
<1>2. pos < Len(data)
  <2>1. CASE kind \in {"cstr", "view"}
    BY <1>1, <2>1, SMT DEF AtEOF
  <2>2. CASE kind = "file"
    <3>1. kind' = "file" /\ eof' = (pos = Len(data))
      BY <2>2 DEF nextChar, ReadMoves, SocketRead
    <3>2. pos # Len(data)
      BY <3>1 DEF AtEOF
    <3> QED
      BY <1>1, <3>2, SMT
  <2>3. CASE kind = "rpc"
    <3>1. ~Returned /\ lastRead # "newline"
      BY <2>3 DEF AtEOF, Returned
    <3>2. NoNewline(start + 1, pos) /\ data[Len(data)] = "newline" /\ start < Len(data)
      BY <2>3, <3>1 DEF CommaInv, MessageInv, MessageOK, DataComplete, CallBegan
    <3> QED
      BY <1>1, <3>2, SMT DEF NoNewline
  <2> QED
    BY <1>1, <2>1, <2>2, <2>3
<1> QED
  BY <1>2, SMT DEF nextChar, ReadMoves, SocketRead, Read

\* After it the last token is a comma if the character passed was one, or was
\* white space after one.
LEMMA CommaAdvances ==
  ASSUME CommaInv, Reading, nextChar, ~AtEOF', UNCHANGED start
  PROVE  AfterComma' <=> (next = "," \/ (isWhiteSpace(next) /\ AfterComma))
<1>1. /\ pos' = pos + 1 /\ data' = data /\ start' = start
      /\ next = data[pos] /\ pos > start
  BY NextCharAdvances DEF Reading, CommaInv, NextIsCurrent
<1>2. pos \in Nat /\ start \in Nat
  BY LenProperties, SMT DEF CommaInv, MessageInv, TypeOK
<1>3. AfterComma' <=> \E i \in start + 1..pos :
                         data[i] = "," /\ \A j \in i + 1..pos : isWhiteSpace(data[j])
  BY <1>1, <1>2, SMT DEF AfterComma
<1>a. /\ \A s, p \in Nat : p > s => p \in s + 1..p /\ p + 1..p = {}
      /\ \A s, p \in Nat : \A i \in s + 1..p :
           i # p => /\ i \in s + 1..p - 1 /\ p \in i + 1..p
                    /\ \A j \in i + 1..p - 1 : j \in i + 1..p
      /\ \A s, p \in Nat : \A i \in s + 1..p - 1 :
           i \in s + 1..p /\ \A j \in i + 1..p : j \in i + 1..p - 1 \/ j = p
  BY SMT
<1>4. CASE next = ","
  <2>1. pos \in start + 1..pos /\ data[pos] = "," /\ \A j \in pos + 1..pos : isWhiteSpace(data[j])
    BY <1>1, <1>2, <1>4, <1>a
  <2> QED
    BY <1>3, <1>4, <2>1
<1>5. CASE next # ","
  <2>1. ASSUME AfterComma' PROVE isWhiteSpace(next) /\ AfterComma
    <3>1. PICK i \in start + 1..pos : data[i] = "," /\ \A j \in i + 1..pos : isWhiteSpace(data[j])
      BY <1>3, <2>1
    <3>2. i # pos
      BY <1>1, <1>5, <3>1
    <3>3. i \in start + 1..pos - 1 /\ pos \in i + 1..pos /\ \A j \in i + 1..pos - 1 : j \in i + 1..pos
      BY <1>2, <1>a, <3>1, <3>2
    <3> QED
      BY <1>1, <3>1, <3>3 DEF AfterComma
  <2>2. ASSUME isWhiteSpace(next), AfterComma PROVE AfterComma'
    <3>1. PICK i \in start + 1..pos - 1 :
               data[i] = "," /\ \A j \in i + 1..pos - 1 : isWhiteSpace(data[j])
      BY <2>2 DEF AfterComma
    <3>2. i \in start + 1..pos /\ \A j \in i + 1..pos : j \in i + 1..pos - 1 \/ j = pos
      BY <1>2, <1>a, <3>1
    <3> QED
      BY <1>1, <1>3, <2>2, <3>1, <3>2
  <2> QED
    BY <1>5, <2>1, <2>2
<1> QED
  BY <1>4, <1>5

\* Where nothing is read the last token stays what it was.
LEMMA CommaStays ==
  ASSUME Still, UNCHANGED start
  PROVE  /\ AfterComma' <=> AfterComma
         /\ AtEOF' <=> AtEOF
         /\ UNCHANGED <<pos, data, next, kind>>
BY DEF Still, streamVars, AfterComma, AtEOF

LEMMA InitCommaInv ==
  ASSUME "rpc" \in Kinds =>
           \A json \in Inputs : Len(json) > 0 /\ json[Len(json)] = "newline"
  PROVE  Init => CommaInv
<1> SUFFICES ASSUME Init PROVE DataComplete /\ CallBegan /\ NextIsCurrent /\ TokenOK
  BY InitMessageInv DEF CommaInv
<1>1. kind = "rpc" => data \in Inputs /\ "rpc" \in Kinds
  BY DEF Init, CallInit, StreamInit, StreamOver
<1>2. DataComplete
  BY <1>1 DEF DataComplete
<1>3. CallBegan
  BY <1>2 DEF Init, CallInit, CallBegan, DataComplete
<1>4. ~Reading
  BY SMT DEF Init, CallInit, Reading
<1> QED
  BY <1>2, <1>3, <1>4 DEF NextIsCurrent, TokenOK

\* TokenOK and NextIsCurrent are kept by every step but readSync's.
LEMMA StepCommaInv ==
  ASSUME CommaInv, Step, ~ReadSync, Reading'
  PROVE  NextIsCurrent' /\ TokenOK'
<1>1. /\ stack # <<>> /\ stack' # <<>> /\ Effect /\ UNCHANGED start
      /\ AtEOF => Still
  BY StepEffect DEF CommaInv, MessageInv, TypeOK
<1>2. ~AtEOF' /\ Head(stack') \notin {"construct", "readSync"}
  BY DEF Reading
<1>3. ~AtEOF
  BY <1>1, <1>2, CommaStays
<1>4. pos \in Nat /\ start \in 0..pos
  BY LenProperties, SMT DEF CommaInv, MessageInv, TypeOK
<1>5. Head(stack) # "readSync"
  <2>1. Head(stack) = "readSync" => ReadSync \/ EndOfData
    BY DEF Step, Construct, ParseJSON, RootEnd, skipWhite, Expression, ExpressionEnd,
           ObjectLoop, ObjectKey, ObjectAdd, ArrayLoop, ArrayAdd, BeginString, NotAString,
           StringChar, Escape, validateUnicodeSequence, HexDigit, StringDone, Natural,
           AfterZero, MoreDigits, DigitsOf, Decimal, Fraction, Exponent, ExponentSign,
           NumberEnd, NumberDone, BeginLiteral, Letters, LiteralDone, On, At
  <2> QED
    BY <1>3, <2>1 DEF EndOfData
<1>6. CASE Head(stack) = "construct"
  <2>1. Construct
    BY <1>1, <1>3, <1>6, ConstructFirst DEF EndOfData
  <2>2. nextChar /\ Goto(<<"parseJSON">>)
    BY <2>1 DEF Construct
  <2>3. pos' = pos + 1 /\ data' = data /\ next' = data[pos + 1] /\ start' = start
    BY <1>1, <1>2, <1>3, <2>2, NextCharAdvances
  <2>4. NextIsCurrent'
    BY <1>4, <2>3, SMT DEF NextIsCurrent
  <2>5. Place' = "parseJSON"
    BY <1>1, <1>6, <2>2, BelowValues, PlaceAfter, PlaceSets
       DEF CommaInv, MessageInv, TypeOK, Roots, Checked
  <2> QED
    BY <2>4, <2>5 DEF TokenOK, AfterToken, FlagPlaces
<1>7. CASE Head(stack) # "construct"
  <2>1. Reading
    BY <1>1, <1>3, <1>5, <1>7 DEF Reading
  <2>2. NextIsCurrent'
    <3>1. CASE nextChar
      <4>1. pos' = pos + 1 /\ data' = data /\ next' = data[pos + 1] /\ start' = start
        BY <1>1, <1>2, <1>3, <3>1, NextCharAdvances
      <4> QED
        BY <1>4, <4>1, SMT DEF NextIsCurrent
    <3>2. CASE Still
      BY <1>1, <2>1, <3>2, CommaStays DEF CommaInv, NextIsCurrent
    <3> QED
      BY <1>1, <3>1, <3>2, EffectMoves
  <2>3. nextChar => (AfterComma' <=> (next = "," \/ (isWhiteSpace(next) /\ AfterComma)))
    BY <1>1, <1>2, <2>1, CommaAdvances
  <2>4. Still => (AfterComma' <=> AfterComma) /\ UNCHANGED next
    BY <1>1, CommaStays
  <2>5. ~isWhiteSpace(",")
    BY DEF isWhiteSpace, WhiteSpace
  <2>6. /\ Place \in AfterToken => ~AfterComma
        /\ Place \in FlagPlaces => (lastWasComma <=> AfterComma)
        /\ Place = "digits10"   => ~AfterComma \/ isNumber(next)
        /\ Place = "letters"    => ~AfterComma \/ isLowerAlpha(next)
    BY <2>1 DEF CommaInv, TokenOK
  <2>7. /\ AfterToken \intersect FlagPlaces = {}
        /\ "digits10" \notin AfterToken \cup FlagPlaces
        /\ "letters" \notin AfterToken \cup FlagPlaces
    BY DEF AfterToken, FlagPlaces
  <2>8. CASE (nextChar \/ Still) /\ Place' \in FreePlaces
    BY <2>2, <2>8 DEF TokenOK, FreePlaces
  <2>9. CASE /\ nextChar /\ ~isWhiteSpace(next) /\ next # ","
             /\ Place' \in FlagPlaces => lastWasComma' = FALSE
    BY <2>2, <2>3, <2>9 DEF TokenOK
  <2>10. CASE nextChar /\ next = "," /\ lastWasComma' = TRUE /\ Place' \in FlagPlaces
    BY <2>2, <2>3, <2>7, <2>10 DEF TokenOK
  <2>11. CASE /\ nextChar /\ isWhiteSpace(next) /\ Head(stack) = "skip"
              /\ UNCHANGED <<lastWasComma, stack>>
    <3>1. Place' = Place
      BY <2>11 DEF Place
    <3>2. AfterComma' <=> AfterComma
      BY <2>3, <2>5, <2>11
    <3>3. Place \notin {"digits10", "letters"}
      <4>1. Place = stack[2] /\ stack[2] \in Below("skip")
        BY <1>1, <2>11, UnderHead DEF CommaInv, MessageInv, TypeOK, Roots, Place
      <4> QED
        BY <4>1, BelowValues
    <3> QED
      BY <2>2, <2>6, <2>11, <3>1, <3>2, <3>3 DEF TokenOK
  <2>12. CASE /\ Still /\ UNCHANGED lastWasComma
              /\ \/ Place' = Place
                 \/ Place' \in AfterToken /\ Place \in AfterToken
                 \/ Place' \in FlagPlaces /\ Place \in FlagPlaces
    BY <2>2, <2>4, <2>6, <2>7, <2>12 DEF TokenOK
  <2>13. CASE \/ Still /\ Place = "digits10" /\ ~isNumber(next) /\ Place' \in AfterToken
              \/ Still /\ Place = "letters" /\ ~isLowerAlpha(next) /\ Place' \in AfterToken
    BY <2>2, <2>4, <2>6, <2>7, <2>13 DEF TokenOK
  <2>14. CASE \/ Still /\ Place' = "digits10" /\ isNumber(next)
              \/ Still /\ Place' = "letters" /\ isLowerAlpha(next)
    BY <2>2, <2>4, <2>7, <2>14 DEF TokenOK
  <2>15. CASE Still /\ Place = "exprEnd" /\ lastWasComma' = FALSE /\ Place' \in FlagPlaces
    <3>1. "exprEnd" \in AfterToken
      BY DEF AfterToken
    <3> QED
      BY <2>2, <2>4, <2>6, <2>7, <2>15, <3>1 DEF TokenOK
  <2> QED
    BY <1>1, <1>2, <2>2, <2>8, <2>9, <2>10, <2>11, <2>12, <2>13, <2>14, <2>15 DEF Effect
<1> QED
  BY <1>6, <1>7

LEMMA NextCommaInv == CommaInv /\ [Next]_vars => CommaInv'
<1> SUFFICES ASSUME CommaInv, [Next]_vars
             PROVE  DataComplete' /\ CallBegan' /\ NextIsCurrent' /\ TokenOK'
  BY NextMessageInv DEF CommaInv
<1>1. stack \in Seq(Labels) /\ StackOK
  BY DEF CommaInv, MessageInv, TypeOK
<1>2. CASE Step /\ ~ReadSync
  <2>1. /\ stack # <<>> /\ stack' # <<>> /\ Effect /\ UNCHANGED start
    BY <1>1, <1>2, StepEffect
  <2>2. kind' = kind /\ data' = data
    BY <2>1, EffectMoves DEF nextChar, ReadMoves, SocketRead, Still, streamVars
  <2>3. DataComplete' /\ CallBegan'
    BY <2>1, <2>2 DEF CommaInv, DataComplete, CallBegan, Returned
  <2> QED
    BY <1>2, <2>3, StepCommaInv DEF NextIsCurrent, TokenOK
<1>3. CASE ReadSync
  <2>1. stack # <<>> /\ Head(stack) = "readSync" /\ UNCHANGED <<kind, data, start>>
    BY <1>3 DEF ReadSync, At, SyncDiscard, SyncDone, callVars
  <2>2. stack' = stack \/ stack' = <<>>
    BY <1>1, <1>3, <2>1, ReadSyncReturns DEF ReadSync
  <2>3. ~Reading'
    BY <2>1, <2>2 DEF Reading
  <2> QED
    BY <2>1, <2>2, <2>3 DEF CommaInv, DataComplete, CallBegan, Returned, NextIsCurrent, TokenOK
<1>4. CASE CallAgain
  <2>1. stack' = <<"construct">> /\ start' = pos /\ UNCHANGED streamVars /\ pos < Len(data)
    BY <1>4 DEF CallAgain
  <2>2. ~Reading'
    BY <2>1, SMT DEF Reading
  <2> QED
    BY <2>1, <2>2
       DEF streamVars, CommaInv, DataComplete, CallBegan, NextIsCurrent, TokenOK
<1>5. CASE UNCHANGED vars
  BY <1>5 DEF vars, streamVars, parserVars, treeVars, callVars, CommaInv, DataComplete, CallBegan,
              Returned, NextIsCurrent, TokenOK, Reading, Place, AfterComma, AtEOF
<1> QED
  BY <1>2, <1>3, <1>4, <1>5 DEF Next

\* What holds at every place of the parser: the call stack, the message read
\* so far, and how lastWasComma follows the tokens.
THEOREM CommaInvHolds ==
  ASSUME "rpc" \in Kinds =>
           \A json \in Inputs : Len(json) > 0 /\ json[Len(json)] = "newline"
  PROVE  Spec => []CommaInv
BY InitCommaInv, NextCommaInv, PTL DEF Spec

\* Where object() and array() ask lastTokenComma() before they close, the
\* answer is right: whatever was nested, skipped or read since, it says whether
\* the last token was a comma.  Assumed of a socket's peer: it ends its last
\* message with a newline.
THEOREM LastWasCommaIsRight ==
  ASSUME "rpc" \in Kinds =>
           \A json \in Inputs : Len(json) > 0 /\ json[Len(json)] = "newline"
  PROVE  Spec => []CommaFlag
<1>1. CommaInv => CommaFlag
  <2> SUFFICES ASSUME CommaInv, On("objLoop") \/ On("arrLoop") PROVE lastWasComma <=> AfterComma
    BY DEF CommaFlag
  <2>1. Reading /\ Place \in FlagPlaces
    BY DEF On, At, Reading, Place, FlagPlaces
  <2> QED
    BY <2>1 DEF CommaInv, TokenOK
<1> QED
  BY CommaInvHolds, <1>1, PTL

(***************************************************************************)
(* The containers and the frames that own them.                            *)
(***************************************************************************)

\* Owners are found again when the stack is shifted by d places and no frame
\* of a container comes or goes.
LEMMA OwnersShift ==
  ASSUME NEW s \in Seq(Labels), NEW t \in Seq(Labels), NEW d \in Int,
         NEW p, NEW q, Len(p) \in Nat, Len(q) = Len(p),
         \A k \in 1..Len(p) : LoopOf(q[k]) = LoopOf(p[k]),
         \A i \in 1..Len(s) : s[i] \in Loops => i + d \in 1..Len(t) /\ t[i + d] = s[i],
         \A j \in 1..Len(t) : t[j] \in Loops => j - d \in 1..Len(s) /\ s[j - d] = t[j],
         NEW place, OwnedBy(s, p, place)
  PROVE  \E new \in [1..Len(q) -> 1..Len(t)] : OwnedBy(t, q, new)
<1> DEFINE new == [k \in 1..Len(q) |-> place[k] + d]
<1>1. Len(s) \in Nat /\ Len(t) \in Nat
  BY LenProperties
<1>2. \A k \in 1..Len(p) : LoopOf(p[k]) \in Loops
  BY DEF LoopOf, Loops
<1>3. ASSUME NEW k \in 1..Len(p)
      PROVE  /\ place[k] \in 1..Len(s) /\ s[place[k]] = LoopOf(p[k])
             /\ place[k] + d \in 1..Len(t) /\ t[place[k] + d] = LoopOf(q[k])
  BY <1>2 DEF OwnedBy
<1>4. new \in [1..Len(q) -> 1..Len(t)] /\ \A k \in 1..Len(q) : new[k] = place[k] + d
  BY <1>3
<1> HIDE DEF new
<1>5. \A k \in 1..Len(q) : t[new[k]] = LoopOf(q[k])
  BY <1>3, <1>4
<1>6. ASSUME NEW k \in 1..Len(q), NEW m \in 1..Len(q), k < m
      PROVE  new[k] < new[m]
  <2>1. place[k] < place[m]
    BY <1>6 DEF OwnedBy
  <2>2. place[k] \in 1..Len(s) /\ place[m] \in 1..Len(s)
    BY <1>3
  <2> QED
    BY <1>1, <1>4, <1>6, <2>1, <2>2
<1>7. ASSUME NEW j \in 1..Len(t), t[j] \in Loops
      PROVE  \E k \in 1..Len(q) : new[k] = j
  <2>1. j - d \in 1..Len(s) /\ s[j - d] \in Loops
    BY <1>7
  <2>2. PICK k \in 1..Len(p) : place[k] = j - d
    BY <2>1 DEF OwnedBy
  <2> QED
    BY <1>1, <1>4, <2>2
<1> QED
  BY <1>4, <1>5, <1>6, <1>7 DEF OwnedBy

\* What is known of the stack's frames in each step that neither opens nor
\* closes a container.
Kept(new) ==
  /\ \A i \in 1..Len(new) - 1 : new[i] \notin Loops
  /\ IF Head(stack) \in Loops THEN Len(new) > 0 /\ new[Len(new)] = Head(stack)
     ELSE Len(new) > 0 => new[Len(new)] \notin Loops

SameContainers == Len(partial') = Len(partial)
                  /\ \A k \in 1..Len(partial) : LoopOf(partial'[k]) = LoopOf(partial[k])

LEMMA GotoKeepsOwners ==
  ASSUME stack \in Seq(Labels), stack # <<>>, Len(partial) \in Nat, SameContainers, Owned,
         NEW new \in Seq(Labels), Goto(new), Kept(new)
  PROVE  Owned'
<1> DEFINE d == Len(new) - 1
<1>1. /\ Len(stack) \in Nat \ {0} /\ Head(stack) = stack[1] /\ Len(new) \in Nat
      /\ Tail(stack) \in Seq(Labels) /\ Len(Tail(stack)) = Len(stack) - 1
      /\ \A i \in 1..Len(stack) - 1 : Tail(stack)[i] = stack[i + 1]
  BY HeadTailProperties, EmptySeq, LenProperties
<1>2. /\ stack' \in Seq(Labels) /\ Len(stack') = Len(stack) + d
      /\ \A j \in 1..Len(stack') : stack'[j] = IF j <= Len(new) THEN new[j] ELSE Tail(stack)[j - Len(new)]
  BY <1>1, ConcatProperties DEF Goto
<1>3. ASSUME NEW i \in 1..Len(stack), stack[i] \in Loops
      PROVE  i + d \in 1..Len(stack') /\ stack'[i + d] = stack[i]
  <2>1. CASE i = 1
    <3>1. Len(new) > 0 /\ new[Len(new)] = stack[1]
      BY <1>1, <1>3, <2>1 DEF Kept
    <3> QED
      BY <1>1, <1>2, <2>1, <3>1
  <2>2. CASE i # 1
    <3>1. i + d \in 1..Len(stack') /\ ~(i + d <= Len(new)) /\ (i + d) - Len(new) = i - 1
          /\ i - 1 \in 1..Len(stack) - 1 /\ (i - 1) + 1 = i
      BY <1>1, <1>2, <2>2
    <3>2. stack'[i + d] = Tail(stack)[i - 1]
      BY <1>2, <3>1
    <3>3. Tail(stack)[i - 1] = stack[(i - 1) + 1]
      BY <1>1, <3>1
    <3> QED
      BY <3>1, <3>2, <3>3
  <2> QED
    BY <2>1, <2>2
<1>4. ASSUME NEW j \in 1..Len(stack'), stack'[j] \in Loops
      PROVE  j - d \in 1..Len(stack) /\ stack[j - d] = stack'[j]
  <2>1. CASE j <= Len(new)
    <3>0. j \in 1..Len(new)
      BY <1>1, <2>1
    <3>1. j \in 1..Len(new) /\ stack'[j] = new[j]
      BY <1>2, <2>1, <3>0
    <3>2. j = Len(new) /\ j - d = 1
      BY <1>1, <1>4, <3>1 DEF Kept
    <3>3. new[Len(new)] = stack[1]
      BY <1>1, <1>4, <3>1, <3>2 DEF Kept
    <3> QED
      BY <1>1, <3>1, <3>2, <3>3
  <2>2. CASE ~(j <= Len(new))
    <3>1. j - Len(new) \in 1..Len(stack) - 1 /\ j - d = (j - Len(new)) + 1 /\ j - d \in 1..Len(stack)
      BY <1>1, <1>2, <2>2
    <3>2. stack'[j] = Tail(stack)[j - Len(new)]
      BY <1>2, <2>2
    <3>3. Tail(stack)[j - Len(new)] = stack[(j - Len(new)) + 1]
      BY <1>1, <3>1
    <3> QED
      BY <3>1, <3>2, <3>3
  <2> QED
    BY <2>1, <2>2
<1>5. PICK place : OwnedBy(stack, partial, place)
  BY DEF Owned
<1>6. d \in Int
  BY <1>1
<1> HIDE DEF d
<1>7. \E p \in [1..Len(partial') -> 1..Len(stack')] : OwnedBy(stack', partial', p)
  BY <1>2, <1>3, <1>4, <1>5, <1>6, OwnersShift DEF SameContainers
<1> QED
  BY <1>7 DEF Owned, OwnedBy


\* A container is opened: its frame lies above all others.
LEMMA OpenOwners ==
  ASSUME stack \in Seq(Labels), stack # <<>>, Head(stack) \notin Loops, Owned,
         NEW S, partial \in Seq(S), NEW c \in S, partial' = <<c>> \o partial,
         NEW loop \in Loops, loop = LoopOf(c), Goto(<<"skip", loop>>)
  PROVE  Owned'
<1>0. PICK place : OwnedBy(stack, partial, place)
  BY DEF Owned
<1>1. /\ Len(stack) \in Nat \ {0} /\ Head(stack) = stack[1]
      /\ Len(partial) \in Nat
  BY EmptySeq, LenProperties
<1>2. "skip" \in Labels /\ loop \in Labels
  BY DEF Labels, Checked, Unchecked, Loops
<1>3. /\ Len(stack') = Len(stack) + 1 /\ stack'[1] = "skip" /\ stack'[2] = loop
      /\ \A j \in 3..Len(stack') : stack'[j] = stack[j - 1]
  <2> DEFINE new == <<"skip", loop>>
  <2>1. new \in Seq(Labels) /\ new # <<>> /\ Len(new) = 2 /\ new[1] = "skip" /\ new[2] = loop
    BY <1>2
  <2>2. Goto(new)
    OBVIOUS
  <2> HIDE DEF new
  <2>3. /\ Len(stack') = 2 + Len(stack) - 1
        /\ \A i \in 1..Len(stack') : stack'[i] = IF i <= 2 THEN new[i] ELSE stack[i - 2 + 1]
    BY <2>1, <2>2, GotoPlace
  <2>4. ASSUME NEW j \in 3..Len(stack') PROVE stack'[j] = stack[j - 1]
    <3>1. j \in 1..Len(stack') /\ ~(j <= 2) /\ (j - 2) + 1 = j - 1
      BY <1>1, <2>3
    <3> QED
      BY <2>3, <3>1
  <2> QED
    BY <1>1, <2>1, <2>3, <2>4
<1>4. /\ Len(partial') = Len(partial) + 1 /\ partial'[1] = c
      /\ \A k \in 2..Len(partial') : partial'[k] = partial[k - 1]
  <2>1. <<c>> \in Seq(S) /\ Len(<<c>>) = 1 /\ <<c>>[1] = c
    OBVIOUS
  <2>2. /\ Len(partial') = 1 + Len(partial)
        /\ \A i \in 1..1 + Len(partial) :
             partial'[i] = IF i <= 1 THEN <<c>>[i] ELSE partial[i - 1]
    BY <2>1, ConcatProperties
  <2> QED
    BY <1>1, <2>1, <2>2
<1> DEFINE new == [k \in 1..Len(partial') |-> IF k = 1 THEN 2 ELSE place[k - 1] + 1]
<1>5. ASSUME NEW k \in 2..Len(partial')
      PROVE  /\ k - 1 \in 1..Len(partial) /\ place[k - 1] \in 2..Len(stack)
             /\ stack[place[k - 1]] = LoopOf(partial[k - 1])
  <2>1. k - 1 \in 1..Len(partial)
    BY <1>1, <1>4
  <2>2. place[k - 1] \in 1..Len(stack) /\ stack[place[k - 1]] = LoopOf(partial[k - 1])
    BY <2>1, <1>0 DEF OwnedBy
  <2>3. place[k - 1] # 1
    BY <2>2, <1>1 DEF LoopOf, Loops
  <2> QED
    BY <1>1, <2>1, <2>2, <2>3
<1>6. new \in [1..Len(partial') -> 1..Len(stack')]
  BY <1>1, <1>3, <1>4, <1>5
<1>7. ASSUME NEW k \in 1..Len(partial') PROVE stack'[new[k]] = LoopOf(partial'[k])
  <2>1. CASE k = 1
    BY <1>3, <1>4, <2>1
  <2>2. CASE k # 1
    <3>1. k \in 2..Len(partial') /\ new[k] = place[k - 1] + 1
      BY <1>1, <1>4, <2>2
    <3>2. place[k - 1] + 1 \in 3..Len(stack') /\ (place[k - 1] + 1) - 1 = place[k - 1]
      BY <1>1, <1>3, <1>5, <3>1
    <3>3. stack'[new[k]] = stack[place[k - 1]]
      BY <1>3, <3>1, <3>2
    <3> HIDE DEF new
    <3> QED
      BY <1>4, <1>5, <3>1, <3>3
  <2> QED
    BY <2>1, <2>2
<1>8. ASSUME NEW k \in 1..Len(partial'), NEW m \in 1..Len(partial'), k < m
      PROVE  new[k] < new[m]
  <2>0. m \in 2..Len(partial')
    BY <1>1, <1>4, <1>8
  <2>1. m \in 2..Len(partial') /\ new[m] = place[m - 1] + 1 /\ place[m - 1] \in 2..Len(stack)
    BY <1>5, <2>0
  <2>2. CASE k = 1
    BY <1>1, <2>1, <2>2
  <2>3. CASE k # 1
    <3>1. k \in 2..Len(partial') /\ new[k] = place[k - 1] + 1 /\ place[k - 1] \in 2..Len(stack)
      BY <1>1, <1>4, <1>5, <2>3
    <3>2. k - 1 < m - 1 /\ k - 1 \in 1..Len(partial) /\ m - 1 \in 1..Len(partial)
      BY <1>1, <1>4, <1>8, <2>1, <3>1
    <3>3. place[k - 1] < place[m - 1]
      BY <1>0, <3>2 DEF OwnedBy
    <3> QED
      BY <1>1, <2>1, <3>1, <3>3
  <2> QED
    BY <2>2, <2>3
<1>9. ASSUME NEW j \in 1..Len(stack'), stack'[j] \in Loops
      PROVE  \E k \in 1..Len(partial') : new[k] = j
  <2>1. j # 1
    BY <1>3, <1>9 DEF Loops
  <2>2. CASE j = 2
    BY <1>1, <1>4, <2>2
  <2>3. CASE j # 2
    <3>1. j \in 3..Len(stack') /\ j - 1 \in 1..Len(stack) /\ stack'[j] = stack[j - 1]
      BY <1>1, <1>3, <2>1, <2>3
    <3>2. PICK k \in 1..Len(partial) : place[k] = j - 1
      BY <1>0, <1>9, <3>1 DEF OwnedBy
    <3>3. k + 1 \in 1..Len(partial') /\ k + 1 # 1 /\ (k + 1) - 1 = k
      BY <1>1, <1>4
    <3>4. new[k + 1] = place[k] + 1
      BY <3>3
    <3> QED
      BY <3>1, <3>2, <3>3, <3>4
  <2> QED
    BY <2>2, <2>3
<1> HIDE DEF new
<1>10. OwnedBy(stack', partial', new)
  BY <1>6, <1>7, <1>8, <1>9 DEF OwnedBy
<1> QED
  BY <1>6, <1>10 DEF Owned, OwnedBy

\* A container is closed: the frame that owned it was the innermost.
LEMMA CloseOwners ==
  ASSUME stack \in Seq(Labels), stack # <<>>, Head(stack) \in Loops, Owned,
         NEW S, partial \in Seq(S), partial' = Tail(partial), Goto(<<"skip">>)
  PROVE  Owned' /\ partial # <<>> /\ LoopOf(partial[1]) = Head(stack)
<1>0. PICK place : OwnedBy(stack, partial, place)
  BY DEF Owned
<1>1. /\ Len(stack) \in Nat \ {0} /\ Head(stack) = stack[1]
      /\ Len(partial) \in Nat
  BY EmptySeq, LenProperties
<1>2. PICK top \in 1..Len(partial) : place[top] = 1
  BY <1>0, <1>1 DEF OwnedBy
<1>3. top = 1 /\ partial # <<>> /\ LoopOf(partial[1]) = Head(stack)
  <2>1. partial # <<>> /\ 1 \in 1..Len(partial)
    BY <1>1, EmptySeq
  <2>2. 1 < top => place[1] < 1
    BY <1>0, <1>2, <2>1 DEF OwnedBy
  <2>3. place[1] \in 1..Len(stack)
    BY <1>0, <2>1 DEF OwnedBy
  <2>4. top = 1
    BY <1>1, <2>2, <2>3
  <2>5. stack[place[top]] = LoopOf(partial[top])
    BY <1>0 DEF OwnedBy
  <2> QED
    BY <1>1, <1>2, <2>1, <2>4, <2>5
<1>4. /\ Len(stack') = Len(stack) /\ stack'[1] = "skip"
      /\ \A j \in 2..Len(stack) : stack'[j] = stack[j]
  <2> DEFINE new == <<"skip">>
  <2>1. new \in Seq(Labels) /\ new # <<>> /\ Len(new) = 1 /\ new[1] = "skip"
    BY DEF Labels, Unchecked
  <2>2. Goto(new)
    OBVIOUS
  <2> HIDE DEF new
  <2>3. /\ Len(stack') = 1 + Len(stack) - 1
        /\ \A i \in 1..Len(stack') : stack'[i] = IF i <= 1 THEN new[i] ELSE stack[i - 1 + 1]
    BY <2>1, <2>2, GotoPlace
  <2> QED
    BY <1>1, <2>1, <2>3
<1>5. /\ Len(partial') = Len(partial) - 1
      /\ \A k \in 1..Len(partial') : partial'[k] = partial[k + 1]
  BY <1>3, HeadTailProperties
<1> DEFINE new == [k \in 1..Len(partial') |-> place[k + 1]]
<1>6. ASSUME NEW k \in 1..Len(partial')
      PROVE  /\ k + 1 \in 1..Len(partial) /\ place[k + 1] \in 2..Len(stack)
             /\ stack[place[k + 1]] = LoopOf(partial[k + 1])
  <2>1. k + 1 \in 1..Len(partial) /\ 1 \in 1..Len(partial) /\ 1 < k + 1
    BY <1>1, <1>5
  <2>2. /\ place[k + 1] \in 1..Len(stack) /\ stack[place[k + 1]] = LoopOf(partial[k + 1])
        /\ place[1] < place[k + 1]
    BY <2>1, <1>0 DEF OwnedBy
  <2> QED
    BY <1>1, <1>2, <1>3, <2>1, <2>2
<1>7. new \in [1..Len(partial') -> 1..Len(stack')]
  BY <1>1, <1>4, <1>6
<1>8. ASSUME NEW k \in 1..Len(partial') PROVE stack'[new[k]] = LoopOf(partial'[k])
  BY <1>4, <1>5, <1>6
<1>9. ASSUME NEW k \in 1..Len(partial'), NEW m \in 1..Len(partial'), k < m
      PROVE  new[k] < new[m]
  <2>1. k + 1 < m + 1
    BY <1>1, <1>5, <1>9
  <2>2. place[k + 1] < place[m + 1]
    BY <1>0, <1>6, <2>1 DEF OwnedBy
  <2> QED
    BY <2>2
<1>10. ASSUME NEW j \in 1..Len(stack'), stack'[j] \in Loops
       PROVE  \E k \in 1..Len(partial') : new[k] = j
  <2>1. j \in 2..Len(stack) /\ stack[j] \in Loops
    BY <1>1, <1>4, <1>10 DEF Loops
  <2>2. PICK k \in 1..Len(partial) : place[k] = j
    BY <1>0, <2>1 DEF OwnedBy
  <2>3. k # 1
    BY <1>2, <1>3, <2>1, <2>2
  <2>4. k - 1 \in 1..Len(partial') /\ (k - 1) + 1 = k
    BY <1>1, <1>5, <2>3
  <2>5. new[k - 1] = place[k]
    BY <2>4
  <2> QED
    BY <2>2, <2>4, <2>5
<1> HIDE DEF new
<1>11. OwnedBy(stack', partial', new)
  BY <1>7, <1>8, <1>9, <1>10 DEF OwnedBy
<1> QED
  BY <1>3, <1>7, <1>11 DEF Owned, OwnedBy

\* No container, and no frame that owns one.
LEMMA NoOwners ==
  ASSUME NEW l \in Labels \ Loops, stack' = <<>> \/ stack' = <<l>>, partial' = <<>>
  PROVE  Owned'
<1> DEFINE new == [k \in 1..0 |-> 1]
<1>1. Len(partial') = 0 /\ \A i \in 1..Len(stack') : stack'[i] = l
  BY SMT
<1>2. new \in [1..Len(partial') -> 1..Len(stack')]
  BY <1>1
<1> HIDE DEF new
<1>3. OwnedBy(stack', partial', new)
  BY <1>1, <1>2 DEF OwnedBy
<1> QED
  BY <1>2, <1>3 DEF Owned, OwnedBy

FramesOK == partial \in Seq(Container) /\ Owned
Plain    == Labels \ Loops

\* What the steps do that touch no container.
PlainStep ==
  \/ /\ UNCHANGED partial
     /\ \/ UNCHANGED stack
        \/ Return \/ Goto(<<>>)
        \/ \E l \in Plain : Goto(<<l>>)
        \/ \E l, m \in Plain : Goto(<<l, m>>)
  \/ \E error \in Errors : Throw(error)

LEMMA SamePartial ==
  ASSUME FramesOK, UNCHANGED partial
  PROVE  partial' \in Seq(Container)' /\ SameContainers /\ Len(partial) \in Nat
<1>1. Container' = Container
  BY DEF Container
<1> QED
  BY <1>1, LenProperties DEF FramesOK, SameContainers

LEMMA SameFrames ==
  ASSUME FramesOK, UNCHANGED <<stack, partial>>
  PROVE  FramesOK'
<1>1. partial' \in Seq(Container)'
  BY SamePartial
<1>2. Owned'
  BY DEF FramesOK, Owned, OwnedBy
<1> QED
  BY <1>1, <1>2 DEF FramesOK

LEMMA ThrowFrames ==
  ASSUME NEW error, Throw(error)
  PROVE  FramesOK'
<1>1. "readSync" \in Labels \ Loops
  BY DEF Labels, Unchecked, Loops
<1>2. stack' = <<"readSync">> /\ partial' = <<>>
  BY DEF Throw
<1>3. Owned'
  BY <1>1, <1>2, NoOwners
<1> QED
  BY <1>2, <1>3, EmptySeq DEF FramesOK

LEMMA PlainStepFrames ==
  ASSUME stack \in Seq(Labels), stack # <<>>, FramesOK, Head(stack) \notin Loops, PlainStep
  PROVE  FramesOK'
<1>1. CASE \E error \in Errors : Throw(error)
  BY <1>1, ThrowFrames
<1>2. CASE UNCHANGED partial /\ UNCHANGED stack
  BY <1>2, SameFrames
<1>3. ASSUME UNCHANGED partial, NEW new \in Seq(Labels), Goto(new), Kept(new)
      PROVE  FramesOK'
  <2>1. Owned'
    BY <1>3, SamePartial, GotoKeepsOwners DEF FramesOK
  <2> QED
    BY <1>3, <2>1, SamePartial DEF FramesOK
<1>4. CASE UNCHANGED partial /\ (Return \/ Goto(<<>>))
  <2>1. Goto(<<>>)
    BY <1>4, HeadTailProperties, ConcatEmptySeq DEF Return, Goto
  <2>2. <<>> \in Seq(Labels) /\ Kept(<<>>)
    BY SMT DEF Kept
  <2> QED
    BY <1>3, <1>4, <2>1, <2>2
<1>5. CASE UNCHANGED partial /\ \E l \in Plain : Goto(<<l>>)
  <2>1. PICK l \in Plain : Goto(<<l>>)
    BY <1>5
  <2>2. <<l>> \in Seq(Labels) /\ Kept(<<l>>)
    BY SMT DEF Kept, Plain
  <2> QED
    BY <1>3, <1>5, <2>1, <2>2
<1>6. CASE UNCHANGED partial /\ \E l, m \in Plain : Goto(<<l, m>>)
  <2>1. PICK l, m \in Plain : Goto(<<l, m>>)
    BY <1>6
  <2>2. <<l, m>> \in Seq(Labels) /\ Kept(<<l, m>>)
    BY SMT DEF Kept, Plain
  <2> QED
    BY <1>3, <1>6, <2>1, <2>2
<1> QED
  BY <1>1, <1>2, <1>4, <1>5, <1>6 DEF PlainStep

\* string(), number() and literal() touch no container.
LEMMA ScalarFrames ==
  ASSUME stack \in Seq(Labels), FramesOK,
         \/ BeginString \/ NotAString \/ StringChar \/ Escape
         \/ validateUnicodeSequence \/ StringDone
         \/ Natural \/ AfterZero \/ MoreDigits \/ Decimal \/ Fraction \/ Exponent
         \/ ExponentSign \/ NumberEnd \/ NumberDone
         \/ BeginLiteral \/ Letters \/ LiteralDone
  PROVE  FramesOK'
<1>1. Plain = Labels \ Loops /\ Labels = Checked \cup Unchecked
  BY DEF Plain, Labels
<1>2. CASE \/ BeginString \/ NotAString \/ StringChar \/ Escape \/ validateUnicodeSequence
           \/ StringDone
  <2>1. stack # <<>> /\ Head(stack) \notin Loops
    BY <1>2 DEF BeginString, NotAString, StringChar, Escape, validateUnicodeSequence, HexDigit,
                StringDone, On, At, Loops
  <2>2. PlainStep
    BY <1>1, <1>2 DEF BeginString, NotAString, StringChar, Escape, validateUnicodeSequence,
                      HexDigit, StringDone, PushNext, treeVars, PlainStep, Errors, Loops,
                      Checked, Unchecked
  <2> QED
    BY <2>1, <2>2, PlainStepFrames
<1>3. CASE \/ Natural \/ AfterZero \/ MoreDigits \/ Decimal \/ Fraction \/ Exponent
           \/ ExponentSign \/ NumberEnd
  <2>1. stack # <<>> /\ Head(stack) \notin Loops
    BY <1>3 DEF Natural, AfterZero, MoreDigits, DigitsOf, Decimal, Fraction, Exponent,
                ExponentSign, NumberEnd, On, At, Loops
  <2>2. PlainStep
    BY <1>1, <1>3 DEF Natural, AfterZero, MoreDigits, DigitsOf, Decimal, Fraction, Exponent,
                      ExponentSign, NumberEnd, PushNext, PushMatch, Jump, treeVars, PlainStep,
                      Errors, Loops, Checked, Unchecked
  <2> QED
    BY <2>1, <2>2, PlainStepFrames
<1>4. CASE NumberDone \/ BeginLiteral \/ Letters \/ LiteralDone
  <2>1. stack # <<>> /\ Head(stack) \notin Loops
    BY <1>4 DEF NumberDone, BeginLiteral, Letters, LiteralDone, On, At, Loops
  <2>2. PlainStep
    BY <1>1, <1>4 DEF NumberDone, BeginLiteral, Letters, LiteralDone, PushNext, Jump, treeVars,
                      PlainStep, Errors, Loops, Checked, Unchecked
  <2> QED
    BY <2>1, <2>2, PlainStepFrames
<1> QED
  BY <1>2, <1>3, <1>4

LEMMA SeqOf ==
  ASSUME NEW S, NEW n \in Nat, NEW f \in [1..n -> S]
  PROVE  f \in Seq(S)
BY SeqDef

\* A change of the innermost container leaves the others and its type alone.
LEMMA InnermostFrames ==
  ASSUME partial \in Seq(Container), NEW c, partial' = [partial EXCEPT ![1] = c],
         partial # <<>> => c.type = partial[1].type /\ c.type \in {"object", "array"}
                           /\ c \in [type : {"object", "array"}, key : Seq(Char), items : {c.items}]
  PROVE  partial' \in Seq(Container)' /\ SameContainers /\ Len(partial) \in Nat
<1>1. Len(partial) \in Nat /\ DOMAIN partial = 1..Len(partial) /\ partial \in [1..Len(partial) -> Container]
  BY LenProperties
<1>2. /\ DOMAIN partial' = 1..Len(partial)
      /\ \A k \in 1..Len(partial) : partial'[k] = IF k = 1 THEN c ELSE partial[k]
      /\ partial' = [k \in 1..Len(partial) |-> partial'[k]]
  BY <1>1
<1>3. 1 \in 1..Len(partial) => partial # <<>>
  BY <1>1, EmptySeq
<1>4. ASSUME NEW k \in 1..Len(partial)
      PROVE  partial'[k] \in Container' /\ LoopOf(partial'[k]) = LoopOf(partial[k])
  <2>1. CASE k = 1
    <3>1. partial'[k] = c /\ c.items = partial'[k].items /\ k \in DOMAIN partial'
      BY <1>2, <2>1
    <3>2. c \in [type : {"object", "array"}, key : Seq(Char), items : {c.items}]
      BY <1>3, <2>1
    <3>3. c.items \in {partial'[i].items : i \in DOMAIN partial'}
      BY <3>1
    <3>4. [type : {"object", "array"}, key : Seq(Char), items : {c.items}] \subseteq Container'
      BY <3>3 DEF Container
    <3> QED
      BY <1>3, <2>1, <3>1, <3>2, <3>4 DEF LoopOf
  <2>2. CASE k # 1
    <3>1. partial'[k] = partial[k] /\ partial[k] \in Container /\ k \in DOMAIN partial'
      BY <1>1, <1>2, <2>2
    <3>2. partial[k].items \in {partial'[i].items : i \in DOMAIN partial'}
      BY <3>1
    <3>3. partial[k] \in [type : {"object", "array"}, key : Seq(Char), items : {partial[k].items}]
      BY <3>1 DEF Container
    <3>4. [type : {"object", "array"}, key : Seq(Char), items : {partial[k].items}] \subseteq Container'
      BY <3>2 DEF Container
    <3> QED
      BY <3>1, <3>3, <3>4
  <2> QED
    BY <2>1, <2>2
<1>5. partial' \in [1..Len(partial) -> Container']
  BY <1>2, <1>4
<1>6. partial' \in Seq(Container') /\ Len(partial') = Len(partial)
  <2>1. partial' \in Seq(Container')
    BY <1>1, <1>5, SeqOf
  <2>2. DOMAIN partial' = 1..Len(partial') /\ Len(partial') \in Nat
    BY <2>1, LenProperties
  <2>3. \A m, n \in Nat : 1..m = 1..n => m = n
    <3> SUFFICES ASSUME NEW m \in Nat, NEW n \in Nat, 1..m = 1..n PROVE m = n
      OBVIOUS
    <3>1. n + 1 \notin 1..m /\ m + 1 \notin 1..n
      BY SMT
    <3> QED
      BY <3>1, SMT
  <2> QED
    BY <1>1, <1>2, <2>1, <2>2, <2>3
<1> QED
  BY <1>1, <1>4, <1>6 DEF SameContainers

\* object(), array() and expression().
LEMMA TreeFrames ==
  ASSUME stack \in Seq(Labels), text \in Seq(Char), FramesOK,
         \/ Expression \/ ExpressionEnd \/ ObjectLoop \/ ObjectKey \/ ObjectAdd
         \/ ArrayLoop \/ ArrayAdd
  PROVE  FramesOK'
<1>0. stack # <<>>
  BY DEF Expression, ExpressionEnd, ObjectLoop, ObjectKey, ObjectAdd, ArrayLoop, ArrayAdd,
         On, At
<1>1. Plain = Labels \ Loops /\ Labels = Checked \cup Unchecked
  BY DEF Plain, Labels
<1>2. Len(partial) \in Nat /\ \A k \in 1..Len(partial) : partial[k] \in Container
  BY LenProperties, ElementOfSeq DEF FramesOK
<1>a. partial # <<>> => partial[1] \in Container
  BY <1>2, EmptySeq DEF FramesOK
<1>3. ASSUME NEW type \in {"object", "array"}, NEW loop \in Loops,
             loop = (IF type = "object" THEN "objLoop" ELSE "arrLoop"),
             Head(stack) = "expr", Open(type, loop)
      PROVE  FramesOK'
  <2> DEFINE c == [type |-> type, key |-> <<>>, items |-> <<>>]
  <2> DEFINE S == [type : {"object", "array"}, key : Seq(Char),
                   items : {partial[i].items : i \in DOMAIN partial} \cup {<<>>}]
  <2>1. partial' = <<c>> \o partial /\ Goto(<<"skip", loop>>)
    BY <1>3 DEF Open
  <2>2. c \in S /\ c.items = <<>> /\ LoopOf(c) = loop
    BY <1>3, EmptySeq DEF LoopOf
  <2>3. Container \subseteq S
    BY DEF Container
  <2>4. partial \in Seq(S)
    BY <2>3, SeqMonotonic DEF FramesOK
  <2> HIDE DEF c, S
  <2>5. Owned'
    BY <1>0, <1>3, <2>1, <2>2, <2>4, OpenOwners DEF FramesOK, Loops
  <2>6. <<c>> \in Seq(S) /\ Len(<<c>>) = 1 /\ <<c>>[1] = c
    BY <2>2, SMT
  <2>7. /\ partial' \in Seq(S) /\ Len(partial') = 1 + Len(partial)
        /\ \A i \in 1..1 + Len(partial) : partial'[i] = IF i <= 1 THEN <<c>>[i] ELSE partial[i - 1]
    BY <2>1, <2>4, <2>6, ConcatProperties
  <2>8. ASSUME NEW k \in 1..Len(partial') PROVE partial'[k] \in Container'
    <3>1. partial'[k] \in S /\ k \in DOMAIN partial'
      BY <2>7, ElementOfSeq, LenProperties
    <3> QED
      BY <3>1 DEF S, Container
  <2>9. partial' \in Seq(Container')
    <3>1. Len(partial') \in Nat /\ DOMAIN partial' = 1..Len(partial') /\ partial' \in [1..Len(partial') -> S]
      BY <2>7, LenProperties
    <3>2. partial' \in [1..Len(partial') -> Container']
      BY <2>8, <3>1
    <3> QED
      BY <3>1, <3>2, SeqDef
  <2> QED
    BY <2>5, <2>9 DEF FramesOK
<1>4. ASSUME Close, Head(stack) \in Loops
      PROVE  FramesOK'
  <2>1. CASE lastWasComma
    BY <1>4, <2>1, ThrowFrames DEF Close
  <2>2. CASE ~lastWasComma
    <3>1. partial' = Tail(partial) /\ Goto(<<"skip">>)
      BY <1>4, <2>2 DEF Close
    <3>2. Owned' /\ partial # <<>>
      BY <1>0, <1>4, <3>1, CloseOwners DEF FramesOK
    <3>3. /\ partial' \in Seq(Container) /\ Len(partial') = Len(partial) - 1
          /\ \A k \in 1..Len(partial') : partial'[k] = partial[k + 1]
      BY <3>1, <3>2, HeadTailProperties DEF FramesOK
    <3>4. /\ Len(partial') \in Nat /\ DOMAIN partial' = 1..Len(partial')
          /\ partial' \in [1..Len(partial') -> Container]
      BY <3>3, LenProperties
    <3>5. ASSUME NEW k \in 1..Len(partial') PROVE partial'[k] \in Container'
      <4>1. partial'[k] \in Container /\ k \in DOMAIN partial'
        BY <3>4
      <4>2. partial'[k].items \in {partial'[i].items : i \in DOMAIN partial'}
        BY <4>1
      <4> QED
        BY <4>1, <4>2 DEF Container
    <3>6. partial' \in [1..Len(partial') -> Container']
      BY <3>4, <3>5
    <3>7. partial' \in Seq(Container')
      BY <3>4, <3>6, SeqDef
    <3> QED
      BY <3>2, <3>7 DEF FramesOK
  <2> QED
    BY <2>1, <2>2
<1>5. ASSUME NEW new \in Seq(Labels), Goto(new), Kept(new), partial' \in Seq(Container)',
             SameContainers
      PROVE  FramesOK'
  BY <1>0, <1>2, <1>5, GotoKeepsOwners DEF FramesOK
<1>6. CASE Expression
  <2>1. Head(stack) = "expr" /\ Head(stack) \notin Loops
    BY <1>6 DEF Expression, On, At, Loops
  <2>2. CASE Open("object", "objLoop")
    BY <1>3, <2>1, <2>2 DEF Loops
  <2>3. CASE Open("array", "arrLoop")
    BY <1>3, <2>1, <2>3 DEF Loops
  <2>4. CASE ~(Open("object", "objLoop") \/ Open("array", "arrLoop"))
    <3>1. PlainStep
      BY <1>1, <1>6, <2>4 DEF Expression, Jump, treeVars, PlainStep, Loops, Checked, Unchecked
    <3> QED
      BY <1>0, <2>1, <3>1, PlainStepFrames
  <2> QED
    BY <2>2, <2>3, <2>4
<1>7. CASE ExpressionEnd
  <2>1. Head(stack) \notin Loops
    BY <1>7 DEF ExpressionEnd, On, At, Loops
  <2>2. PlainStep
    BY <1>1, <1>7 DEF ExpressionEnd, treeVars, PlainStep, Errors, Loops, Checked, Unchecked
  <2> QED
    BY <1>0, <2>1, <2>2, PlainStepFrames
<1>8. CASE ObjectLoop
  <2>1. Head(stack) = "objLoop" /\ Head(stack) \in Loops
    BY <1>8 DEF ObjectLoop, On, At, Loops
  <2> DEFINE new == <<"str", "objKey", "expr", "exprEnd", "objAdd", "objLoop">>
  <2>2. CASE Goto(new) /\ UNCHANGED partial
    <3>1. new \in Seq(Labels)
      BY PushedLabels
    <3>2. Kept(new)
      BY <2>1, SMT DEF Kept, Loops
    <3>3. Goto(new)
      BY <2>2
    <3> HIDE DEF new
    <3> QED
      BY <1>5, <2>2, <3>1, <3>2, <3>3, SamePartial
  <2> QED
    BY <1>4, <1>8, <2>1, <2>2 DEF ObjectLoop, Jump, treeVars
<1>9. CASE ArrayLoop
  <2>1. Head(stack) = "arrLoop" /\ Head(stack) \in Loops
    BY <1>9 DEF ArrayLoop, On, At, Loops
  <2> DEFINE new == <<"expr", "exprEnd", "arrAdd", "arrLoop">>
  <2>2. CASE Goto(new) /\ UNCHANGED partial
    <3>1. new \in Seq(Labels)
      BY PushedLabels
    <3>2. Kept(new)
      BY <2>1, SMT DEF Kept, Loops
    <3>3. Goto(new)
      BY <2>2
    <3> HIDE DEF new
    <3> QED
      BY <1>5, <2>2, <3>1, <3>2, <3>3, SamePartial
  <2> QED
    BY <1>4, <1>9, <2>1, <2>2 DEF ArrayLoop, Jump, treeVars
<1>10. ASSUME NEW c, partial' = [partial EXCEPT ![1] = c],
              partial # <<>> => c = [partial[1] EXCEPT !.items = c.items]
                                \/ c = [partial[1] EXCEPT !.key = text]
       PROVE  partial' \in Seq(Container)' /\ SameContainers
  <2>1. partial # <<>> => c.type = partial[1].type /\ c.type \in {"object", "array"}
                           /\ c \in [type : {"object", "array"}, key : Seq(Char), items : {c.items}]
    BY <1>a, <1>10 DEF Container
  <2> QED
    BY <1>10, <2>1, InnermostFrames DEF FramesOK
<1>11. <<>> \in Seq(Labels) /\ (Head(stack) \notin Loops => Kept(<<>>))
  BY SMT DEF Kept
<1>12. Return => Goto(<<>>)
  BY <1>0, HeadTailProperties, ConcatEmptySeq DEF Return, Goto
<1>13. CASE ObjectKey
  <2>1. Head(stack) \notin Loops
    BY <1>13 DEF ObjectKey, On, At, Loops
  <2>2. CASE Throw("BAD_JSON")
    BY <2>2, ThrowFrames
  <2>3. CASE Goto(<<"skip">>) /\ partial' = [partial EXCEPT ![1].key = text]
    <3>1. partial' \in Seq(Container)' /\ SameContainers
      BY <1>10, <2>3
    <3>2. <<"skip">> \in Seq(Labels) /\ Kept(<<"skip">>)
      BY <2>1, SMT DEF Kept, Loops, Labels, Unchecked
    <3> QED
      BY <1>5, <2>3, <3>1, <3>2
  <2> QED
    BY <1>13, <2>2, <2>3 DEF ObjectKey
<1>14. CASE ObjectAdd
  <2>1. Head(stack) \notin Loops /\ Goto(<<>>) /\ Kept(<<>>)
    BY <1>11, <1>12, <1>14 DEF ObjectAdd, At, Loops
  <2>2. partial' \in Seq(Container)' /\ SameContainers
    <3>1. CASE UNCHANGED partial
      BY <3>1, SamePartial
    <3>2. CASE partial' = [partial EXCEPT ![1].items = Append(partial[1].items, <<partial[1].key, atom>>)]
      <4> DEFINE c == [partial[1] EXCEPT !.items = Append(partial[1].items, <<partial[1].key, atom>>)]
      <4>1. partial # <<>> => c.items = Append(partial[1].items, <<partial[1].key, atom>>)
        BY <1>a DEF Container
      <4> QED
        BY <1>10, <3>2, <4>1
    <3> QED
      BY <1>14, <3>1, <3>2 DEF ObjectAdd
  <2> QED
    BY <1>5, <1>11, <2>1, <2>2
<1>15. CASE ArrayAdd
  <2>1. Head(stack) \notin Loops /\ Goto(<<>>) /\ Kept(<<>>)
    BY <1>11, <1>12, <1>15 DEF ArrayAdd, At, Loops
  <2>2. partial' \in Seq(Container)' /\ SameContainers
    <3> DEFINE c == [partial[1] EXCEPT !.items = Append(partial[1].items, atom)]
    <3>1. partial # <<>> => c.items = Append(partial[1].items, atom)
      BY <1>a DEF Container
    <3>2. partial' = [partial EXCEPT ![1] = c]
      BY <1>15 DEF ArrayAdd
    <3> QED
      BY <1>10, <3>1, <3>2
  <2> QED
    BY <1>5, <1>11, <2>1, <2>2
<1> QED
  BY <1>6, <1>7, <1>8, <1>9, <1>13, <1>14, <1>15


\* parseJSON(), skipWhite() and the destructor's readSync().
LEMMA CallFrames ==
  ASSUME stack \in Seq(Labels), FramesOK,
         EndOfData \/ Construct \/ ParseJSON \/ RootEnd \/ ReadSync \/ skipWhite
  PROVE  FramesOK'
<1>1. Plain = Labels \ Loops /\ Labels = Checked \cup Unchecked
  BY DEF Plain, Labels
<1>2. CASE EndOfData
  BY <1>2, ThrowFrames DEF EndOfData
<1>3. CASE Construct \/ ParseJSON \/ RootEnd \/ ReadSync \/ skipWhite
  <2>1. stack # <<>> /\ Head(stack) \notin Loops
    BY <1>3 DEF Construct, ParseJSON, RootEnd, ReadSync, skipWhite, On, At, Loops
  <2>2. PlainStep
    BY <1>1, <1>3 DEF Construct, ParseJSON, RootEnd, ReadSync, skipWhite, Jump, treeVars,
                      PlainStep, Errors, Loops, Checked, Unchecked
  <2> QED
    BY <2>1, <2>2, PlainStepFrames
<1> QED
  BY <1>2, <1>3

LEMMA NextFramesOK ==
  ASSUME stack \in Seq(Labels), text \in Seq(Char), FramesOK, [Next]_vars
  PROVE  FramesOK'
<1>1. CASE Step
  BY <1>1, CallFrames, TreeFrames, ScalarFrames DEF Step
<1>2. CASE CallAgain
  <2>1. "construct" \in Labels \ Loops /\ stack' = <<"construct">> /\ partial' = <<>>
    BY <1>2 DEF CallAgain, Labels, Checked, Loops
  <2>2. Owned'
    BY <2>1, NoOwners
  <2> QED
    BY <2>1, <2>2, EmptySeq DEF FramesOK
<1>3. CASE UNCHANGED vars
  <2>1. UNCHANGED <<stack, partial>>
    BY <1>3 DEF vars, treeVars
  <2> QED
    BY <2>1, SameFrames
<1> QED
  BY <1>1, <1>2, <1>3 DEF Next

LEMMA InitFramesOK == Init => FramesOK
<1> SUFFICES ASSUME Init PROVE FramesOK
  OBVIOUS
<1>1. stack = <<"construct">> /\ partial = <<>>
  BY DEF Init, CallInit
<1> DEFINE new == [k \in 1..0 |-> 1]
<1>2. /\ Len(partial) = 0 /\ \A i \in 1..Len(stack) : stack[i] = "construct"
      /\ new \in [1..Len(partial) -> 1..Len(stack)]
  BY <1>1, SMT
<1> HIDE DEF new
<1>3. OwnedBy(stack, partial, new)
  BY <1>2 DEF OwnedBy, Loops
<1> QED
  BY <1>1, <1>2, <1>3, EmptySeq DEF FramesOK, Owned

LEMMA InitFramesInv == Init => FramesInv
BY InitMessageInv, InitFramesOK DEF FramesInv, FramesOK

LEMMA NextFramesInv == FramesInv /\ [Next]_vars => FramesInv'
<1> SUFFICES ASSUME FramesInv, [Next]_vars PROVE FramesInv'
  OBVIOUS
<1>1. MessageInv /\ FramesOK /\ stack \in Seq(Labels) /\ text \in Seq(Char)
  BY DEF FramesInv, FramesOK, MessageInv, TypeOK
<1>2. MessageInv'
  BY <1>1, NextMessageInv
<1>3. FramesOK'
  BY <1>1, NextFramesOK
<1> QED
  BY <1>2, <1>3 DEF FramesInv, FramesOK

(***************************************************************************)
(* Steps bring a call nearer to its end.                                   *)
(***************************************************************************)

LEMMA RankValues ==
  /\ RankOf("readSync") = 1
  /\ \A l \in {"construct", "rootEnd", "objKey", "str", "chars", "escape",
               "hex4", "hex3", "hex2", "hex1"} : RankOf(l) = 2
  /\ \A l \in {"natural", "decimal", "lit"} : RankOf(l) = 3
  /\ \A l \in {"expr", "expSign"} : RankOf(l) = 4
  /\ \A l \in {"parseJSON", "objLoop", "arrLoop"} : RankOf(l) = 5
  /\ \A l \in {"objAdd", "arrAdd"} : RankOf(l) = 6
  /\ RankOf("exprEnd") = 7
  /\ \A l \in {"strDone", "numDone", "litDone"} : RankOf(l) = 8
  /\ RankOf("skip") = 9
  /\ \A l \in {"letters", "numEnd"} : RankOf(l) = 10
  /\ RankOf("exponent") = 11 /\ RankOf("fraction") = 12
  /\ \A l \in {"zero", "digits10", "digits16", "digits8", "digits2"} : RankOf(l) = 13
  /\ \A l \in Labels : RankOf(l) \in 1..13
  /\ \A l \in Labels \ {"readSync"} : RankOf(l) > 1
<1>1. \A l \in {"readSync"} : RankOf(l) = 1
  BY SMT DEF RankOf
<1>2. \A l \in {"construct", "rootEnd", "objKey", "str", "chars", "escape",
                "hex4", "hex3", "hex2", "hex1"} : RankOf(l) = 2
  BY SMT DEF RankOf
<1>3. \A l \in {"natural", "decimal", "lit"} : RankOf(l) = 3
  BY SMT DEF RankOf
<1>4. \A l \in {"expr", "expSign"} : RankOf(l) = 4
  BY SMT DEF RankOf
<1>5. \A l \in {"parseJSON", "objLoop", "arrLoop"} : RankOf(l) = 5
  BY SMT DEF RankOf
<1>6. \A l \in {"objAdd", "arrAdd"} : RankOf(l) = 6
  BY SMT DEF RankOf
<1>7. RankOf("exprEnd") = 7
  BY SMT DEF RankOf
<1>8. \A l \in {"strDone", "numDone", "litDone"} : RankOf(l) = 8
  BY SMT DEF RankOf
<1>9. RankOf("skip") = 9 /\ RankOf("exponent") = 11 /\ RankOf("fraction") = 12
  BY SMT DEF RankOf
<1>10. \A l \in {"letters", "numEnd"} : RankOf(l) = 10
  BY SMT DEF RankOf
<1>11. \A l \in {"zero", "digits10", "digits16", "digits8", "digits2"} : RankOf(l) = 13
  BY SMT DEF RankOf
<1>12. \A l \in Labels : RankOf(l) \in 1..13 /\ (l # "readSync" => RankOf(l) > 1)
  <2> SUFFICES ASSUME NEW l \in Labels
               PROVE  RankOf(l) \in 1..13 /\ (l # "readSync" => RankOf(l) > 1)
    OBVIOUS
  <2> USE DEF Labels, Checked, Unchecked
  <2> QED
    BY <1>1, <1>2, <1>3, <1>4, <1>5, <1>6, <1>7, <1>8, <1>9, <1>10, <1>11, SMT
<1> QED
  BY <1>1, <1>2, <1>3, <1>4, <1>5, <1>6, <1>7, <1>8, <1>9, <1>10, <1>11, <1>12

\* Where the stream is left alone, control gets nearer to the next read.
Down == Still /\ Rank' < Rank

\* The rank is that of the head unless a loop is about to read.
LEMMA RankHere ==
  ASSUME stack # <<>>, Head(stack) \in Labels
  PROVE  /\ Reads => Rank = 2
         /\ ~Reads => Rank = RankOf(Head(stack))
         /\ Head(stack) \notin {"digits10", "letters"} => ~Reads
BY DEF Rank, Returned, Reads, At

LEMMA GoesDown ==
  ASSUME stack # <<>>, stack' # <<>>, Head(stack) \in Labels, Head(stack') \in Labels, Still, ~Reads,
         \/ RankOf(Head(stack')) < RankOf(Head(stack))
         \/ Reads' /\ RankOf(Head(stack)) > 2
  PROVE  Down
<1>1. Rank = RankOf(Head(stack)) /\ RankOf(Head(stack)) \in 1..13 /\ RankOf(Head(stack')) \in 1..13
  BY RankHere, RankValues
<1>2. CASE Reads'
  <2>1. Head(stack') \in {"digits10", "letters"} /\ Rank' = 2
    BY <1>2 DEF Reads, At, Rank, Returned
  <2>2. RankOf(Head(stack')) \in {10, 13}
    BY <2>1, RankValues
  <2> QED
    BY <1>1, <2>1, <2>2, SMT DEF Down
<1>3. CASE ~Reads'
  <2>1. Rank' = RankOf(Head(stack'))
    BY <1>3 DEF Rank, Returned
  <2> QED
    BY <1>1, <1>3, <2>1 DEF Down
<1> QED
  BY <1>2, <1>3

LEMMA ThrowDown ==
  ASSUME stack # <<>>, Head(stack) \in Labels \ {"readSync"}, NEW error, Throw(error)
  PROVE  Down
<1>1. stack' = <<"readSync">> /\ Still
  BY DEF Throw, Still, parserVars
<1>2. stack' # <<>> /\ Head(stack') = "readSync"
  BY <1>1
<1>3. Rank' = 1
  BY <1>2, RankValues DEF Rank, Returned, Reads, At
<1>4. Rank = 2 \/ Rank = RankOf(Head(stack))
  BY RankHere
<1>5. RankOf(Head(stack)) \in 1..13 /\ RankOf(Head(stack)) > 1
  BY RankValues
<1> QED
  BY <1>1, <1>3, <1>4, <1>5, SMT DEF Down

\* The head of the stack after a push, and after a return.
LEMMA HeadAfter ==
  ASSUME stack \in Seq(Labels), stack # <<>>
  PROVE  /\ Head(stack) \in Labels
         /\ \A l \in Labels : Goto(<<l>>) => stack' # <<>> /\ Head(stack') = l
         /\ \A l, m \in Labels : Goto(<<l, m>>) => stack' # <<>> /\ Head(stack') = l
         /\ Goto(<<"expr", "exprEnd", "arrAdd", "arrLoop">>) => stack' # <<>> /\ Head(stack') = "expr"
         /\ Goto(<<"str", "objKey", "expr", "exprEnd", "objAdd", "objLoop">>) =>
              stack' # <<>> /\ Head(stack') = "str"
<1>1. \A new \in Seq(Labels) : new # <<>> /\ Goto(new) => stack' # <<>> /\ Head(stack') = new[1]
  BY GotoPlace
<1>2. \A l, m \in Labels : /\ <<l>> # <<>> /\ <<l>>[1] = l
                           /\ <<l, m>> # <<>> /\ <<l, m>>[1] = l
  OBVIOUS
<1>3. <<"expr", "exprEnd", "arrAdd", "arrLoop">> # <<>>
      /\ <<"str", "objKey", "expr", "exprEnd", "objAdd", "objLoop">> # <<>>
  OBVIOUS
<1> QED
  BY <1>1, <1>2, <1>3, PushedLabels, HeadTailProperties

LEMMA HeadBelow ==
  ASSUME stack \in Seq(Labels), stack # <<>>, StackOK, Head(stack) \notin Roots,
         Return \/ Goto(<<>>)
  PROVE  /\ stack' # <<>> /\ Head(stack') \in Labels /\ Head(stack') \in Below(Head(stack))
BY ReturnPlace, UnderHead

\* What a step other than readSync's does: it reads, or comes nearer to it.
Toward == (nextChar /\ ~AtEOF) \/ Down

LEMMA StringToward ==
  ASSUME stack \in Seq(Labels), StackOK,
         \/ BeginString \/ NotAString \/ StringChar \/ Escape
         \/ validateUnicodeSequence \/ StringDone
  PROVE  Toward
<1>0. stack # <<>>
  BY DEF BeginString, NotAString, StringChar, Escape, validateUnicodeSequence,
         HexDigit, StringDone, On, At
<1>1. CASE BeginString
  BY <1>1 DEF BeginString, On, match, Toward
<1>2. ASSUME Throw("BAD_JSON"), Head(stack) # "readSync" PROVE Toward
  BY <1>0, <1>2, HeadAfter, ThrowDown DEF Toward
<1>3. CASE NotAString
  BY <1>2, <1>3 DEF NotAString, On, At
<1>4. CASE StringChar
  BY <1>2, <1>4 DEF StringChar, On, At, PushNext, match, Toward
<1>5. CASE Escape
  BY <1>2, <1>5 DEF Escape, On, At, PushNext, Toward
<1>6. CASE validateUnicodeSequence
  BY <1>2, <1>6 DEF validateUnicodeSequence, HexDigit, On, At, PushNext, Toward
<1>7. CASE StringDone
  <2>1. Head(stack) = "strDone" /\ Return /\ Still /\ "strDone" \notin Roots
    BY <1>7 DEF StringDone, At, Still, parserVars, Roots
  <2>2. stack' # <<>> /\ Head(stack') \in Labels /\ Head(stack') \in {"exprEnd", "rootEnd"}
    BY <1>0, <2>1, HeadBelow, BelowValues
  <2>3. RankOf(Head(stack')) \in {2, 7} /\ RankOf(Head(stack)) = 8 /\ Head(stack) \in Labels /\ ~Reads
    BY <1>0, <2>1, <2>2, RankValues, HeadAfter, RankHere
  <2>4. RankOf(Head(stack')) < RankOf(Head(stack))
    BY <2>3, SMT
  <2> QED
    BY <1>0, <2>1, <2>2, <2>3, <2>4, GoesDown DEF Toward
<1> QED
  BY <1>1, <1>3, <1>4, <1>5, <1>6, <1>7

LEMMA ScalarToward ==
  ASSUME stack \in Seq(Labels), StackOK,
         \/ Natural \/ AfterZero \/ MoreDigits \/ Decimal \/ Fraction \/ Exponent
         \/ ExponentSign \/ NumberEnd \/ NumberDone
         \/ BeginLiteral \/ Letters \/ LiteralDone
  PROVE  Toward
<1>0. stack # <<>>
  BY DEF Natural, AfterZero, MoreDigits, DigitsOf, Decimal, Fraction, Exponent,
         ExponentSign, NumberEnd, NumberDone, BeginLiteral, Letters, LiteralDone, On, At
<1>l. Head(stack) \in Labels /\ Labels = Checked \cup Unchecked
  BY <1>0, HeadAfter DEF Labels
<1>t. ASSUME Throw("BAD_JSON"), Head(stack) # "readSync" PROVE Toward
  BY <1>0, <1>t, <1>l, ThrowDown DEF Toward
\* A jump to another label, lower or about to read.
<1>j. ASSUME NEW l \in Labels, NEW m \in Labels, Jump(<<l>>) \/ Jump(<<l, m>>), ~Reads,
             \/ RankOf(l) < RankOf(Head(stack))
             \/ RankOf(Head(stack)) > 2 /\ l = "digits10" /\ isNumber(next)
             \/ RankOf(Head(stack)) > 2 /\ l = "letters" /\ isLowerAlpha(next)
      PROVE  Toward
  <2>1. Still /\ stack' # <<>> /\ Head(stack') = l
    BY <1>0, <1>j, HeadAfter DEF Jump, Peek, Still
  <2>2. l = "digits10" /\ isNumber(next) => Reads'
    BY <2>1 DEF Reads, At, Still
  <2>3. l = "letters" /\ isLowerAlpha(next) => Reads'
    BY <2>1 DEF Reads, At, Still
  <2> QED
    BY <1>0, <1>l, <1>j, <2>1, <2>2, <2>3, GoesDown DEF Toward
\* A return to a label that is lower, all of those it can lead to.
<1>r. ASSUME Return \/ Jump(<<>>), Still, Head(stack) \notin Roots, ~Reads,
             \A l \in Below(Head(stack)) : RankOf(l) < RankOf(Head(stack))
      PROVE  Toward
  <2>1. stack' # <<>> /\ Head(stack') \in Labels /\ Head(stack') \in Below(Head(stack))
    BY <1>0, <1>r, HeadBelow DEF Jump
  <2> QED
    BY <1>0, <1>l, <1>r, <2>1, GoesDown DEF Toward
<1>q. \A ls : Jump(ls) => Still
  BY DEF Jump, Peek, Still
<1>1. CASE Natural
  <2>1. Head(stack) = "natural" /\ ~Reads /\ RankOf(Head(stack)) = 3 /\ ~AtEOF
    BY <1>0, <1>l, <1>1, RankHere, RankValues DEF Natural, On, At
  <2>2. CASE Jump(<<"digits10">>) /\ isNumber(next)
    <3>1. "digits10" \in Labels
      BY <1>l DEF Checked
    <3> QED
      BY <1>j, <2>1, <2>2, <3>1, 3 > 2
  <2> QED
    BY <1>t, <1>1, <2>1, <2>2 DEF Natural, PushNext, Toward
<1>2. CASE AfterZero
  <2>1. Head(stack) = "zero" /\ ~Reads /\ RankOf(Head(stack)) = 13 /\ ~AtEOF /\ "zero" \notin Roots
    BY <1>0, <1>l, <1>2, RankHere, RankValues DEF AfterZero, On, At, Roots
  <2>2. \A l \in Below(Head(stack)) : RankOf(l) \in {10, 12}
    BY <2>1, BelowValues, RankValues
  <2>3. CASE Jump(<<>>)
    BY <1>r, <1>q, <2>1, <2>2, <2>3, SMT
  <2> QED
    BY <1>t, <1>2, <2>1, <2>3 DEF AfterZero, PushNext, Toward
<1>3. CASE MoreDigits
  <2>1. PICK l \in {"digits10", "digits16", "digits8", "digits2"} :
          On(l) /\ (PushNext \/ (Jump(<<>>) /\ (l = "digits10" => ~isNumber(next))))
    <3>1. \A l \in {"digits16", "digits8", "digits2"} : l # "digits10"
      OBVIOUS
    <3>2. CASE DigitsOf("digits10", isNumber)
      <4>1. On("digits10") /\ (PushNext \/ (Jump(<<>>) /\ ~isNumber(next)))
        BY <3>2 DEF DigitsOf
      <4>2. "digits10" \in {"digits10", "digits16", "digits8", "digits2"}
        OBVIOUS
      <4> QED
        BY <4>1, <4>2
    <3>3. CASE DigitsOf("digits16", isHex)
      BY <3>1, <3>3 DEF DigitsOf
    <3>4. CASE DigitsOf("digits8", isOct)
      BY <3>1, <3>4 DEF DigitsOf
    <3>5. CASE DigitsOf("digits2", isBin)
      BY <3>1, <3>5 DEF DigitsOf
    <3> QED
      BY <1>3, <3>2, <3>3, <3>4, <3>5 DEF MoreDigits
  <2>2. Head(stack) = l /\ ~AtEOF /\ l \notin Roots
    BY <2>1 DEF On, At, Roots
  <2>3. CASE Jump(<<>>) /\ (l = "digits10" => ~isNumber(next))
    <3>1. ~Reads
      BY <2>2, <2>3 DEF Reads, At
    <3>2. RankOf(Head(stack)) = 13 /\ \A m \in Below(Head(stack)) : RankOf(m) \in {10, 11, 12}
      BY <2>2, BelowValues, RankValues
    <3> QED
      BY <1>r, <1>q, <2>2, <2>3, <3>1, <3>2, SMT
  <2> QED
    BY <2>1, <2>2, <2>3 DEF PushNext, Toward
<1>4. CASE Decimal
  <2>1. Head(stack) = "decimal" /\ ~Reads /\ RankOf(Head(stack)) = 3 /\ ~AtEOF
    BY <1>0, <1>l, <1>4, RankHere, RankValues DEF Decimal, On, At
  <2>2. CASE Jump(<<"digits10">>) /\ isNumber(next)
    <3>1. "digits10" \in Labels
      BY <1>l DEF Checked
    <3> QED
      BY <1>j, <2>1, <2>2, <3>1, 3 > 2
  <2> QED
    BY <1>t, <1>4, <2>1, <2>2 DEF Decimal
<1>5. CASE Fraction
  <2>1. Head(stack) = "fraction" /\ ~Reads /\ RankOf(Head(stack)) = 12 /\ ~AtEOF
        /\ RankOf("exponent") < 12 /\ "exponent" \in Labels
    BY <1>0, <1>l, <1>5, RankHere, RankValues DEF Fraction, On, At, Checked
  <2> QED
    BY <1>j, <1>5, <2>1 DEF Fraction, PushMatch, match, Toward
<1>6. CASE Exponent
  <2>1. Head(stack) = "exponent" /\ ~Reads /\ RankOf(Head(stack)) = 11 /\ ~AtEOF
        /\ RankOf("numEnd") < 11 /\ "numEnd" \in Labels
    BY <1>0, <1>l, <1>6, RankHere, RankValues DEF Exponent, On, At, Unchecked
  <2> QED
    BY <1>j, <1>6, <2>1 DEF Exponent, PushNext, Toward
<1>7. CASE ExponentSign
  <2>1. Head(stack) = "expSign" /\ ~Reads /\ RankOf(Head(stack)) = 4 /\ ~AtEOF
        /\ RankOf("natural") < 4 /\ "natural" \in Labels /\ "numEnd" \in Labels
    BY <1>0, <1>l, <1>7, RankHere, RankValues DEF ExponentSign, On, At, Checked, Unchecked
  <2> QED
    BY <1>j, <1>7, <2>1 DEF ExponentSign, PushMatch, match, Toward
<1>8. CASE NumberEnd
  <2>1. Head(stack) = "numEnd" /\ ~Reads /\ RankOf(Head(stack)) = 10
        /\ RankOf("skip") < 10 /\ "skip" \in Labels /\ "numDone" \in Labels
    BY <1>0, <1>l, <1>8, RankHere, RankValues DEF NumberEnd, At, Unchecked
  <2> QED
    BY <1>j, <1>8, <2>1 DEF NumberEnd
<1>9. CASE NumberDone \/ LiteralDone
  <2>1. Head(stack) \in {"numDone", "litDone"} /\ ~Reads /\ RankOf(Head(stack)) = 8
        /\ Head(stack) \notin Roots
    BY <1>0, <1>l, <1>9, RankHere, RankValues DEF NumberDone, LiteralDone, At, Roots
  <2>2. \A m \in Below(Head(stack)) : RankOf(m) \in {2, 7}
    BY <2>1, BelowValues, RankValues
  <2>3. (Return /\ Still) \/ Throw("BAD_JSON")
    BY <1>9 DEF NumberDone, LiteralDone, Still, parserVars
  <2>4. CASE Return /\ Still
    BY <1>r, <2>1, <2>2, <2>4, SMT
  <2> QED
    BY <1>t, <2>1, <2>3, <2>4
<1>10. CASE BeginLiteral
  <2>1. Head(stack) = "lit" /\ ~Reads /\ RankOf(Head(stack)) = 3 /\ ~AtEOF
    BY <1>0, <1>l, <1>10, RankHere, RankValues DEF BeginLiteral, On, At
  <2>2. CASE Jump(<<"letters">>) /\ isLowerAlpha(next)
    <3>1. "letters" \in Labels
      BY <1>l DEF Checked
    <3> QED
      BY <1>j, <2>1, <2>2, <3>1, 3 > 2
  <2> QED
    BY <1>t, <1>10, <2>1, <2>2 DEF BeginLiteral
<1>11. CASE Letters
  <2>1. Head(stack) = "letters" /\ RankOf(Head(stack)) = 10 /\ ~AtEOF
        /\ RankOf("skip") < 10 /\ "skip" \in Labels /\ "litDone" \in Labels
    BY <1>0, <1>l, <1>11, RankValues DEF Letters, On, At, Unchecked
  <2>2. ~isLowerAlpha(next) => ~Reads
    BY <2>1 DEF Reads, At
  <2> QED
    BY <1>j, <1>11, <2>1, <2>2 DEF Letters, PushNext, Toward
<1> QED
  BY <1>1, <1>2, <1>3, <1>4, <1>5, <1>6, <1>7, <1>8, <1>9, <1>10, <1>11

LEMMA TreeToward ==
  ASSUME stack \in Seq(Labels), StackOK,
         \/ Expression \/ ExpressionEnd \/ ObjectLoop \/ ObjectKey \/ ObjectAdd
         \/ ArrayLoop \/ ArrayAdd
  PROVE  Toward
<1>0. stack # <<>>
  BY DEF Expression, ExpressionEnd, ObjectLoop, ObjectKey, ObjectAdd, ArrayLoop, ArrayAdd,
         On, At
<1>l. Head(stack) \in Labels /\ Labels = Checked \cup Unchecked
  BY <1>0, HeadAfter DEF Labels
<1>t. ASSUME Throw("BAD_JSON"), Head(stack) # "readSync" PROVE Toward
  BY <1>0, <1>t, <1>l, ThrowDown DEF Toward
<1>d. ASSUME stack' # <<>>, Head(stack') \in Labels, Still, ~Reads,
             RankOf(Head(stack')) < RankOf(Head(stack))
      PROVE  Toward
  BY <1>0, <1>d, <1>l, GoesDown DEF Toward
<1>1. CASE Expression
  <2>1. Head(stack) = "expr" /\ ~AtEOF /\ ~Reads /\ RankOf(Head(stack)) = 4
    BY <1>0, <1>l, <1>1, RankHere, RankValues DEF Expression, On, At
  <2>2. CASE match
    BY <2>1, <2>2 DEF match, Toward
  <2>3. CASE Still /\ (Goto(<<"str", "strDone">>) \/ Goto(<<"natural", "fraction">>) \/ Goto(<<"lit">>))
    <3>1. stack' # <<>> /\ Head(stack') \in {"str", "natural", "lit"}
      BY <1>0, <1>l, <2>3, HeadAfter DEF Checked, Unchecked
    <3>2. Head(stack') \in Labels /\ RankOf(Head(stack')) < 4
      BY <1>l, <3>1, RankValues DEF Checked
    <3> QED
      BY <1>d, <2>1, <2>3, <3>1, <3>2
  <2> QED
    BY <1>1, <2>2, <2>3 DEF Expression, Open, Jump, Peek, Still
<1>2. CASE ExpressionEnd
  <2>1. Head(stack) = "exprEnd" /\ ~AtEOF /\ ~Reads /\ RankOf(Head(stack)) = 7
        /\ Head(stack) \notin Roots
    BY <1>0, <1>l, <1>2, RankHere, RankValues DEF ExpressionEnd, On, At, Roots
  <2>2. CASE Return /\ Peek
    <3>1. stack' # <<>> /\ Head(stack') \in Labels /\ Head(stack') \in {"objAdd", "arrAdd"}
      BY <1>0, <2>1, <2>2, HeadBelow, BelowValues
    <3>2. RankOf(Head(stack')) < 7
      BY <3>1, RankValues, 6 < 7
    <3> QED
      BY <1>d, <2>1, <2>2, <3>1, <3>2 DEF Peek, Still
  <2> QED
    BY <1>t, <1>2, <2>1, <2>2 DEF ExpressionEnd, match, Toward
<1>3. CASE ObjectLoop
  <2>1. Head(stack) = "objLoop" /\ ~AtEOF /\ ~Reads /\ RankOf(Head(stack)) = 5
    BY <1>0, <1>l, <1>3, RankHere, RankValues DEF ObjectLoop, On, At
  <2>2. CASE Close
    BY <1>t, <2>1, <2>2 DEF Close, match, Toward
  <2>3. CASE Jump(<<"str", "objKey", "expr", "exprEnd", "objAdd", "objLoop">>)
    <3>1. stack' # <<>> /\ Head(stack') = "str" /\ "str" \in Labels /\ RankOf("str") < 5
      BY <1>0, <1>l, <2>3, HeadAfter, RankValues, 2 < 5 DEF Jump, Checked
    <3> QED
      BY <1>d, <2>1, <2>3, <3>1 DEF Jump, Peek, Still
  <2> QED
    BY <1>3, <2>2, <2>3 DEF ObjectLoop
<1>4. CASE ObjectKey
  BY <1>t, <1>4 DEF ObjectKey, On, At, match, Toward
<1>5. CASE ObjectAdd \/ ArrayAdd
  <2>1. Head(stack) \in {"objAdd", "arrAdd"} /\ ~Reads /\ RankOf(Head(stack)) = 6
        /\ Head(stack) \notin Roots /\ Return /\ Still
    BY <1>0, <1>l, <1>5, RankHere, RankValues DEF ObjectAdd, ArrayAdd, At, Roots, Still, parserVars
  <2>2. stack' # <<>> /\ Head(stack') \in Labels /\ Head(stack') \in {"objLoop", "arrLoop"}
    BY <1>0, <2>1, HeadBelow, BelowValues
  <2>3. RankOf(Head(stack')) < 6
    BY <2>2, RankValues, 5 < 6
  <2> QED
    BY <1>d, <2>1, <2>2, <2>3
<1>6. CASE ArrayLoop
  <2>1. Head(stack) = "arrLoop" /\ ~AtEOF /\ ~Reads /\ RankOf(Head(stack)) = 5
    BY <1>0, <1>l, <1>6, RankHere, RankValues DEF ArrayLoop, On, At
  <2>2. CASE Close
    BY <1>t, <2>1, <2>2 DEF Close, match, Toward
  <2>3. CASE Jump(<<"expr", "exprEnd", "arrAdd", "arrLoop">>)
    <3>1. stack' # <<>> /\ Head(stack') = "expr" /\ "expr" \in Labels /\ RankOf("expr") < 5
      BY <1>0, <1>l, <2>3, HeadAfter, RankValues, 4 < 5 DEF Jump, Checked
    <3> QED
      BY <1>d, <2>1, <2>3, <3>1 DEF Jump, Peek, Still
  <2> QED
    BY <1>6, <2>2, <2>3 DEF ArrayLoop
<1> QED
  BY <1>1, <1>2, <1>3, <1>4, <1>5, <1>6

LEMMA CallToward ==
  ASSUME stack \in Seq(Labels), StackOK,
         EndOfData \/ Construct \/ ParseJSON \/ RootEnd \/ skipWhite
  PROVE  Toward
<1>0. stack # <<>>
  BY DEF EndOfData, Construct, ParseJSON, RootEnd, skipWhite, On, At
<1>l. Head(stack) \in Labels /\ Labels = Checked \cup Unchecked
  BY <1>0, HeadAfter DEF Labels
<1>1. CASE EndOfData
  <2>1. Head(stack) # "readSync" /\ Throw("EOF")
    BY <1>1 DEF EndOfData, Checked
  <2> QED
    BY <1>0, <1>l, <2>1, ThrowDown DEF Toward
<1>2. CASE Construct
  BY <1>2 DEF Construct, On, Toward
<1>3. CASE ParseJSON
  <2>1. Head(stack) = "parseJSON" /\ ~Reads /\ RankOf(Head(stack)) = 5
    BY <1>0, <1>l, <1>3, RankHere, RankValues DEF ParseJSON, On, At
  <2>l. "expr" \in Labels /\ "rootEnd" \in Labels /\ RankOf("expr") < 5
    BY <1>l, RankValues, 4 < 5 DEF Checked, Unchecked
  <2>2. CASE Jump(<<"expr", "rootEnd">>)
    <3>1. stack' # <<>> /\ Head(stack') = "expr" /\ Still
      BY <1>0, <2>l, <2>2, HeadAfter DEF Jump, Peek, Still
    <3> QED
      BY <1>0, <1>l, <2>1, <2>l, <3>1, GoesDown DEF Toward
  <2> QED
    BY <1>0, <1>l, <1>3, <2>1, <2>2, ThrowDown DEF ParseJSON, Toward
<1>4. CASE RootEnd
  <2>1. Head(stack) = "rootEnd" /\ ~Reads /\ RankOf(Head(stack)) = 2
        /\ RankOf("readSync") < 2 /\ "readSync" \in Labels /\ Goto(<<"readSync">>) /\ Still
    BY <1>0, <1>l, <1>4, RankHere, RankValues, 1 < 2 DEF RootEnd, At, Unchecked, Still
  <2>2. stack' # <<>> /\ Head(stack') = "readSync"
    BY <1>0, <2>1, HeadAfter
  <2> QED
    BY <1>0, <1>l, <2>1, <2>2, GoesDown DEF Toward
<1>5. CASE skipWhite
  <2>1. Head(stack) = "skip" /\ ~Reads /\ RankOf(Head(stack)) = 9 /\ Head(stack) \notin Roots
    BY <1>0, <1>l, <1>5, RankHere, RankValues DEF skipWhite, At, Roots
  <2>2. CASE Jump(<<>>)
    <3>1. stack' # <<>> /\ Head(stack') \in Labels /\ Head(stack') \in Below("skip") /\ Still
      BY <1>0, <2>1, <2>2, HeadBelow DEF Jump, Peek, Still
    <3>2. RankOf(Head(stack')) \in {2, 4, 5, 6, 7, 8}
      BY <3>1, BelowValues, RankValues
    <3>3. RankOf(Head(stack')) < 9
      BY <3>2, SMT
    <3> QED
      BY <1>0, <1>l, <2>1, <3>1, <3>3, GoesDown DEF Toward
  <2> QED
    BY <1>5, <2>2 DEF skipWhite, Toward
<1> QED
  BY <1>1, <1>2, <1>3, <1>4, <1>5

(***************************************************************************)
(* What is left to read.                                                   *)
(***************************************************************************)
LEMMA MeasureIsNat ==
  ASSUME TypeOK
  PROVE  Remaining \in Nat /\ Rank \in 0..13 /\ EndUnseen \in {0, 1} /\ Len(data) - pos \in Nat
<1>1. Len(data) - pos \in Nat
  <2>1. Len(data) \in Nat /\ pos \in 0..Len(data)
    BY LenProperties DEF TypeOK
  <2> QED
    BY <2>1, SMT
<1>2. EndUnseen \in {0, 1}
  BY DEF EndUnseen
<1>3. Remaining \in Nat
  BY <1>1, <1>2, SMT DEF Remaining
<1>4. Rank \in 0..13
  <2>1. CASE stack = <<>>
    BY <2>1, 0 \in 0..13 DEF Rank, Returned
  <2>2. CASE stack # <<>>
    <3>1. Rank = 2 \/ Rank \in 1..13
      BY <2>2, HeadAfter, RankHere, RankValues DEF TypeOK
    <3> QED
      BY <3>1, SMT
  <2> QED
    BY <2>1, <2>2
<1> QED
  BY <1>1, <1>2, <1>3, <1>4

\* A socket has more to deliver until its newline was read.
LEMMA MoreToRead ==
  ASSUME CommaInv, kind = "rpc", ~Returned, lastRead # "newline"
  PROVE  pos < Len(data)
<1>1. /\ pos \in 0..Len(data) /\ Len(data) \in Nat /\ start \in 0..pos
  BY LenProperties DEF CommaInv, MessageInv, TypeOK
<1>2. NoNewline(start + 1, pos) /\ data[Len(data)] = "newline" /\ start < Len(data)
  BY DEF CommaInv, MessageInv, MessageOK, DataComplete, CallBegan
<1> QED
  BY <1>1, <1>2, SMT DEF NoNewline

LEMMA ReadsLess ==
  ASSUME CommaInv, stack # <<>>, ~AtEOF, nextChar
  PROVE  Remaining' = Remaining - 1
<1>1. /\ pos \in 0..Len(data) /\ Len(data) \in Nat /\ kind \in StreamKinds
  BY LenProperties DEF CommaInv, MessageInv, TypeOK
<1>2. /\ kind' = kind /\ data' = data /\ eof' = (kind = "file" /\ pos = Len(data))
      /\ pos' = IF pos < Len(data) THEN pos + 1 ELSE pos
  BY DEF nextChar, ReadMoves
<1>3. pos < Len(data) \/ kind = "file"
  <2>1. CASE kind = "rpc"
    BY <2>1, MoreToRead DEF AtEOF, Returned
  <2>2. CASE kind \in {"cstr", "view"}
    BY <1>1, <2>2, SMT DEF AtEOF
  <2> QED
    BY <1>1, <2>1, <2>2 DEF StreamKinds
<1>4. kind = "file" => ~eof
  BY DEF AtEOF
<1>5. CASE pos < Len(data)
  <2>1. pos # Len(data)
    BY <1>1, <1>5, SMT
  <2>2. EndUnseen' = EndUnseen
    BY <1>2, <1>4, <2>1 DEF EndUnseen
  <2>3. Remaining' = (Len(data) - (pos + 1)) + EndUnseen
    BY <1>2, <1>5, <2>2 DEF Remaining
  <2>4. EndUnseen \in {0, 1}
    BY DEF EndUnseen
  <2> QED
    BY <1>1, <2>3, <2>4, SMT DEF Remaining
<1>6. CASE ~(pos < Len(data))
  <2>1. pos = Len(data) /\ kind = "file"
    BY <1>1, <1>3, <1>6, SMT
  <2>2. EndUnseen = 1 /\ EndUnseen' = 0
    BY <1>2, <1>4, <2>1 DEF EndUnseen
  <2>3. Remaining' = (Len(data) - pos) + 0 /\ Remaining = (Len(data) - pos) + 1
    BY <1>2, <1>6, <2>2 DEF Remaining
  <2> QED
    BY <1>1, <2>3, SMT
<1> QED
  BY <1>5, <1>6

LEMMA ReadSyncLess ==
  ASSUME CommaInv, ReadSync
  PROVE  Measure' < Measure
<1>1. /\ pos \in 0..Len(data) /\ Len(data) \in Nat /\ stack \in Seq(Labels) /\ StackOK
      /\ Remaining \in Nat /\ EndUnseen \in {0, 1}
  BY MeasureIsNat, LenProperties DEF CommaInv, MessageInv, TypeOK
<1>2. stack # <<>> /\ Head(stack) = "readSync" /\ ~Returned
  BY DEF ReadSync, At, Returned
<1>3. Rank = 1
  BY <1>1, <1>2, HeadAfter, RankHere, RankValues
<1>4. data' = data /\ EndUnseen' = EndUnseen /\ (pos' = pos \/ pos' = pos + 1)
  BY DEF ReadSync, SyncDiscard, SyncDone, EndUnseen
<1>5. Remaining' = (Len(data) - pos') + EndUnseen
  BY <1>4 DEF Remaining
<1>6. CASE SyncDiscard /\ UNCHANGED stack
  <2>1. pos' = pos + 1
    BY <1>2, <1>6, MoreToRead DEF SyncDiscard, SyncPending
  <2>2. Remaining' = Remaining - 1
    BY <1>1, <1>5, <2>1, SMT DEF Remaining
  <2>3. Rank' = 1
    BY <1>2, <1>6, RankValues DEF Rank, Returned, Reads, At
  <2>4. Measure' = 14 * Remaining' + 1 /\ Measure = 14 * Remaining + 1
    BY <1>3, <2>3 DEF Measure
  <2> QED
    BY <1>1, <2>2, <2>4, SMT
<1>7. CASE SyncDone /\ Return
  <2>1. Remaining' \in {Remaining, Remaining - 1}
    BY <1>1, <1>4, <1>5, SMT DEF Remaining
  <2>2. Rank' = 0
    BY <1>1, <1>2, <1>7, ReadSyncReturns DEF Rank, Returned
  <2>3. Measure' = 14 * Remaining' + 0 /\ Measure = 14 * Remaining + 1
    BY <1>3, <2>2 DEF Measure
  <2>4. \A n \in Nat, m \in Int : m = n \/ m = n - 1 => 14 * m + 0 < 14 * n + 1
    BY SMT
  <2>5. Remaining' \in Int
    BY <1>1, <2>1, SMT
  <2> QED
    BY <1>1, <2>1, <2>3, <2>4, <2>5
<1> QED
  BY <1>6, <1>7 DEF ReadSync

LEMMA StepsMeasure ==
  ASSUME CommaInv, Step
  PROVE  Measure' < Measure
<1>1. stack \in Seq(Labels) /\ StackOK /\ Remaining \in Nat /\ Rank \in 0..13
  BY MeasureIsNat DEF CommaInv, MessageInv, TypeOK
<1>2. CASE ReadSync
  BY <1>2, ReadSyncLess
<1>3. CASE ~ReadSync
  <2>1. Toward
    BY <1>1, <1>3, StringToward, ScalarToward, TreeToward, CallToward DEF Step
  <2>2. stack # <<>>
    BY <1>1, <1>3, StepEffect
  <2>r. Rank' \in 0..13
    <3>0. Next
      BY DEF Next
    <3>1. TypeOK'
      BY <3>0, NextTypeOK DEF CommaInv, MessageInv
    <3>2. stack' = <<>> \/ (stack' # <<>> /\ Head(stack') \in Labels)
      BY <3>1, HeadTailProperties DEF TypeOK
    <3>3. CASE stack' = <<>>
      BY <3>3, 0 \in 0..13 DEF Rank, Returned
    <3>4. CASE stack' # <<>> /\ Head(stack') \in Labels
      <4>1. Rank' = 2 \/ Rank' = RankOf(Head(stack'))
        BY <3>4 DEF Rank, Returned
      <4>2. 2 \in 0..13 /\ \A r \in 1..13 : r \in 0..13
        OBVIOUS
      <4> QED
        BY <3>4, <4>1, <4>2, RankValues
    <3> QED
      BY <3>2, <3>3, <3>4
  <2>m. Measure' = 14 * Remaining' + Rank' /\ Measure = 14 * Remaining + Rank
    BY DEF Measure
  <2>n. \A n \in Nat, k, m \in 0..13 : 14 * (n - 1) + k < 14 * n + m
    BY SMT
  <2>o. \A n \in Nat, k, m \in 0..13 : k < m => 14 * n + k < 14 * n + m
    BY SMT
  <2>3. CASE nextChar /\ ~AtEOF
    <3>1. Remaining' = Remaining - 1
      BY <2>2, <2>3, ReadsLess
    <3> QED
      BY <1>1, <2>m, <2>n, <2>r, <3>1
  <2>4. CASE Down
    <3>1. Remaining' = Remaining
      BY <2>4 DEF Down, Still, streamVars, Remaining, EndUnseen
    <3>2. Rank' < Rank
      BY <2>4 DEF Down
    <3> QED
      BY <1>1, <2>m, <2>o, <2>r, <3>1, <3>2
  <2> QED
    BY <2>1, <2>3, <2>4 DEF Toward
<1> QED
  BY <1>2, <1>3

\* Whatever parseJSON reads, from whichever stream, each step brings the call
\* nearer to its return: it ends after at most fourteen steps for each byte
\* that is left.  Assumed of a socket's peer: it ends its last line.
THEOREM CallsMakeProgress ==
  ASSUME "rpc" \in Kinds =>
           \A json \in Inputs : Len(json) > 0 /\ json[Len(json)] = "newline"
  PROVE  Spec => StepsMakeProgress
<1>1. CommaInv /\ [Next]_vars => [Step => Measure' < Measure]_vars
  BY StepsMeasure
<1>2. CommaInv => Measure \in Nat
  <2> SUFFICES ASSUME CommaInv PROVE Measure \in Nat
    OBVIOUS
  <2>1. Remaining \in Nat /\ Rank \in 0..13
    BY MeasureIsNat DEF CommaInv, MessageInv
  <2> QED
    BY <2>1, SMT DEF Measure
<1>3. Measure \in Nat /\ (Measure \in Nat)' /\ [Step => Measure' < Measure]_vars
        => [Step => Measure' \in 0..Measure - 1]_vars
  <2> SUFFICES ASSUME Measure \in Nat, Measure' \in Nat, Measure' < Measure
               PROVE  Measure' \in 0..Measure - 1
    OBVIOUS
  <2> QED
    BY SMT
<1> QED
  BY <1>1, <1>2, <1>3, InitCommaInv, NextCommaInv, PTL DEF Spec, StepsMakeProgress
=============================================================================
