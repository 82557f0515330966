-------------------------- MODULE ParserInvariant --------------------------
(***************************************************************************)
(* The inductive invariants behind OneMessagePerCall and CommaFlag: what   *)
(* the call stack can look like, where the calls of an rpc stream start    *)
(* and end, and how lastWasComma and the last token read are related at    *)
(* each place of the parser.  What the proofs about the grammar need to    *)
(* know of the model's own variables: which frame on stack each entry of   *)
(* partial stands for.  And the measure by which a call of parseJSON gets  *)
(* nearer to its end.                                                      *)
(***************************************************************************)
EXTENDS Parser

(***************************************************************************)
(* The call stack: which labels a label can be waiting to return to.       *)
(***************************************************************************)
Roots == {"construct", "parseJSON", "rootEnd", "readSync"}

Below(l) ==
  CASE l \in Roots    -> {}
    [] l = "objAdd"   -> {"objLoop"}
    [] l = "arrAdd"   -> {"arrLoop"}
    [] l = "exprEnd"  -> {"objAdd", "arrAdd"}
    [] l = "objKey"   -> {"expr"}
    [] l = "decimal"  -> {"exponent"}
    [] l = "digits10" -> {"fraction", "numEnd", "exponent"}
    [] l \in {"str", "chars", "escape", "hex4", "hex3", "hex2", "hex1"} -> {"strDone", "objKey"}
    [] l \in {"natural", "zero", "digits16", "digits8", "digits2"} -> {"fraction", "numEnd"}
    [] l = "skip" -> {"objLoop", "arrLoop", "exprEnd", "rootEnd", "strDone", "objKey",
                      "numDone", "litDone", "expr", "objAdd", "arrAdd"}
    [] OTHER -> {"exprEnd", "rootEnd"}

\* Neighbours on a stack can be above one another, and a call of parseJSON is
\* at its bottom.
Linked(s) == \A i \in 1..Len(s) - 1 : s[i + 1] \in Below(s[i])
StackOK   == Linked(stack) /\ (stack # <<>> => stack[Len(stack)] \in Roots)

(***************************************************************************)
(* The messages of an rpc stream.                                          *)
(***************************************************************************)
NoNewline(i, j) == \A k \in i..j : data[k] # "newline"

MessageRead == pos > start /\ data[pos] = "newline" /\ NoNewline(start + 1, pos - 1)

MessageOK ==
  kind = "rpc" =>
    /\ IF Returned \/ lastRead = "newline" THEN MessageRead ELSE NoNewline(start + 1, pos)
    /\ Returned => lastRead # "newline"

\* The peer ends its last message too.
DataComplete == kind = "rpc" => Len(data) > 0 /\ data[Len(data)] = "newline"
CallBegan    == (kind = "rpc" /\ ~Returned) => start < Len(data)

(***************************************************************************)
(* The last token and lastWasComma.                                        *)
(***************************************************************************)
\* The place that white space is being skipped for, or where control is.
Place == IF Head(stack) = "skip" THEN stack[2] ELSE Head(stack)

Reading == stack # <<>> /\ Head(stack) \notin {"construct", "readSync"} /\ ~AtEOF

\* next is the character at the position.
NextIsCurrent == Reading => pos > start /\ next = data[pos]

\* A token that is no comma was read before these places.
AfterToken == {"exprEnd", "fraction", "exponent", "zero", "digits16", "digits8", "digits2",
               "numEnd", "numDone", "litDone", "strDone"}
\* Where the containers' loops, or what returns to them, depend on the flag.
FlagPlaces == {"objLoop", "arrLoop", "objAdd", "arrAdd"}

TokenOK ==
  Reading =>
    /\ Place \in AfterToken => ~AfterComma
    /\ Place \in FlagPlaces => (lastWasComma <=> AfterComma)
    /\ Place = "digits10"   => ~AfterComma \/ isNumber(next)
    /\ Place = "letters"    => ~AfterComma \/ isLowerAlpha(next)

MessageInv == TypeOK /\ StackOK /\ MessageOK
CommaInv   == MessageInv /\ DataComplete /\ CallBegan /\ NextIsCurrent /\ TokenOK

(***************************************************************************)
(* The containers and the frames that own them.                            *)
(***************************************************************************)
Loops == {"objLoop", "arrLoop"}
LoopOf(container) == IF container.type = "object" THEN "objLoop" ELSE "arrLoop"

\* place leads from each container, innermost first, to the frame that owns
\* it on the stack s, and from no two to the same or out of order.
OwnedBy(s, containers, place) ==
  /\ place \in [1..Len(containers) -> 1..Len(s)]
  /\ \A k \in 1..Len(containers) : s[place[k]] = LoopOf(containers[k])
  /\ \A k, m \in 1..Len(containers) : k < m => place[k] < place[m]
  /\ \A i \in 1..Len(s) : s[i] \in Loops => \E k \in 1..Len(containers) : place[k] = i

Container  == [type : {"object", "array"}, key : Seq(Char),
               items : {partial[i].items : i \in DOMAIN partial}]
Owned == \E place \in [1..Len(partial) -> 1..Len(stack)] : OwnedBy(stack, partial, place)

FramesInv == MessageInv /\ partial \in Seq(Container) /\ Owned

(***************************************************************************)
(* How far a call is from its end: what there is to read, the end of a     *)
(* file included, which takes a read of its own to be noticed, and within  *)
(* that the steps until the next read or the return.                       *)
(***************************************************************************)
EndUnseen == IF kind = "file" /\ ~eof THEN 1 ELSE 0
Remaining == (Len(data) - pos) + EndUnseen

\* The steps a label is from the next read at most.
RankOf(l) ==
  CASE l = "readSync" -> 1
    [] l \in {"construct", "rootEnd", "objKey", "str", "chars", "escape",
              "hex4", "hex3", "hex2", "hex1"} -> 2
    [] l \in {"natural", "decimal", "lit"}       -> 3
    [] l \in {"expr", "expSign"}                 -> 4
    [] l \in {"parseJSON", "objLoop", "arrLoop"} -> 5
    [] l \in {"objAdd", "arrAdd"}                -> 6
    [] l = "exprEnd"                             -> 7
    [] l \in {"strDone", "numDone", "litDone"}   -> 8
    [] l = "skip"                                -> 9
    [] l \in {"letters", "numEnd"}               -> 10
    [] l = "exponent"                            -> 11
    [] l = "fraction"                            -> 12
    [] OTHER                                     -> 13

\* A loop over digits or letters that has one before it reads.
Reads == \/ At("digits10") /\ isNumber(next)
         \/ At("letters") /\ isLowerAlpha(next)

Rank    == IF Returned THEN 0 ELSE IF Reads THEN 2 ELSE RankOf(Head(stack))
Measure == 14 * Remaining + Rank

\* Each step brings a call of parseJSON nearer to its return, whatever it
\* reads: no loop of the parser turns without reading, no production calls
\* itself before it has, and a call ends after fourteen steps for each byte.
StepsMakeProgress == [][Step => Measure' \in 0..Measure - 1]_vars

=============================================================================
