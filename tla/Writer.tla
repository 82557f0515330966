------------------------------- MODULE Writer -------------------------------
(***************************************************************************)
(* writeJSON (src/writer.cxx): a tree of atoms turned into calls of        *)
(* stream_t::write, one step per call, on a memory stream, a file or a     *)
(* socket.  Trees are those that parseJSON returns (see Parser), but for   *)
(* numbers: <<"int", value>>, the value an int64_t of Width bits, and      *)
(* <<"float", text>>, the text that formatString makes of the double.  The *)
(* members of an object are listed in the order of its std::map.           *)
(***************************************************************************)
EXTENDS NumberValue, Sink

CONSTANT Trees  \* the trees written, and NoTree

NoTree == <<"none">>

-----------------------------------------------------------------------------
(* The characters of an atom, as the store() functions pass them to write  *)

\* process, which writes calcDigits(number) digits one after the other.
process(number) ==
  LET count == CHOOSE n \in 1..Width : number < 10 ^ n /\ (n = 1 \/ number >= 10 ^ (n - 1))
  IN  [i \in 1..count |-> HexDigits[((number \div 10 ^ (count - i)) % 10) + 1]]

\* Faulty variant: the complement, without the one that makes it the negation.
magnitudeComplement(value) == IF value < 0 THEN -value - 1 ELSE value

\* uint_t(-number): the negation wraps for the most negative number.
magnitude(value) == IF value < 0 THEN (-value) % Words ELSE value

\* Calls that fromInt_t makes are noexcept.
Call(chars)  == [chars |-> chars, noexcept |-> FALSE]
Digit(char)  == [chars |-> <<char>>, noexcept |-> TRUE]

storeInt(value) ==
  (IF value < 0 THEN <<Digit("-")>> ELSE <<>>)
  \o LET digits == process(magnitude(value)) IN [i \in DOMAIN digits |-> Digit(digits[i])]

Quote == <<"quote">>

\* Calls with a separator between what belongs to one child and the next.
Separated(calls) ==
  FlattenSeq([i \in DOMAIN calls |->
                IF i < Len(calls) THEN Append(calls[i], Call(<<",", "space">>)) ELSE calls[i]])

RECURSIVE store(_)
store(atom) ==
  CASE atom[1] = "literal" -> <<Call(atom[2])>>
    [] atom[1] = "float"   -> <<Call(atom[2])>>
    [] atom[1] = "int"     -> storeInt(atom[2])
    [] atom[1] = "string"  -> <<Call(Quote), Call(atom[2]), Call(Quote)>>
    [] atom[1] = "array"   ->
         <<Call(<<"[">>)>> \o Separated([i \in DOMAIN atom[2] |-> store(atom[2][i])])
         \o <<Call(<<"]">>)>>
    [] atom[1] = "object"  ->
         <<Call(<<"{">>)>>
         \o Separated([i \in DOMAIN atom[2] |->
                         <<Call(Quote), Call(atom[2][i][1]), Call(<<"quote", ":", "space">>)>>
                         \o store(atom[2][i][2])])
         \o <<Call(<<"}">>)>>

\* Faulty variant: as many separators as children.
SeparatorsForAll(n) == n * 2

Separators(n) == IF n > 0 THEN (n - 1) * 2 ELSE 0
SumOf(lengths) == FoldSeq(LAMBDA x, y : x + y, 0, lengths)

\* The length() functions, which an application uses to size a buffer.
RECURSIVE length(_)
length(atom) ==
  CASE atom[1] \in {"literal", "float"} -> Len(atom[2])
    [] atom[1] = "int"    -> (IF atom[2] < 0 THEN 1 ELSE 0) + Len(process(magnitude(atom[2])))
    [] atom[1] = "string" -> Len(atom[2]) + 2
    [] atom[1] = "array"  -> 2 + SumOf([i \in DOMAIN atom[2] |-> length(atom[2][i])])
                               + Separators(Len(atom[2]))
    [] atom[1] = "object" -> 2 + SumOf([i \in DOMAIN atom[2] |->
                                          Len(atom[2][i][1]) + 2 + length(atom[2][i][2]) + 2])
                               + Separators(Len(atom[2]))

-----------------------------------------------------------------------------
VARIABLES tree,     \* the atom given to writeJSON
          calls,    \* the calls of write still to be made
          outcome   \* of writeJSON

writerVars == <<tree, calls, outcome, sinkVars>>

Outcomes == {"writing", "true", "false", "thrown", "terminated"}

WriterInit ==
  /\ SinkInit /\ tree \in Trees
  /\ calls = IF tree = NoTree THEN <<>> ELSE store(tree)
  /\ outcome = IF tree = NoTree THEN "false" ELSE "writing"

Value == Head(calls).chars
Writing == outcome = "writing" /\ calls # <<>>

Write ==
  /\ Writing /\ Offer(Value)
  /\ calls' = Tail(calls)
  /\ UNCHANGED <<tree, outcome>>

\* The device fails: write throws a system_error, through store() to the
\* application or, out of a noexcept function, nowhere.
WriteThrows ==
  /\ Writing /\ sink.sink = "file" /\ ~Healthy /\ ~FileRefusesWrite(sink)
  /\ outcome' = IF Head(calls).noexcept THEN "terminated" ELSE "thrown"
  /\ UNCHANGED <<tree, calls, sinkVars>>

WriteReturns ==
  /\ outcome = "writing" /\ calls = <<>>
  /\ writeSync /\ outcome' = "true"
  /\ UNCHANGED <<tree, calls>>

WriteStep == Write \/ WriteThrows \/ WriteReturns
=============================================================================
