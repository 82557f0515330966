# A TLA+ model of rSON

rSON is a C++ library that parses and writes JSON: a recursive-descent parser
over byte streams, a tree of atoms that owns its children, a writer, and a
stream over a socket that carries one document per line. It has no threads of
its own; what is hard about it is long sequences of calls, streams that
disagree on when they are at their end, errors thrown from any depth of a
half-read message, hand-kept book-keeping between containers, and a buffer
whose end falls anywhere in a message.

Paths below are relative to the repository's root.

## Inventory

| Component | State | Operations | What makes it correct |
|---|---|---|---|
| **Parser** `src/parser.cxx`, `include/internal/parser.hxx` | `next`, `lastWasComma`, the call stack with the containers it holds, the token being queued | `parseJSON` and one function per production; `nextChar`, `match`, `skipWhite`, `currentChar` | accepts exactly its grammar and builds the tree the grammar gives; EOF and BAD_JSON are told apart; every call returns; nothing of a failed parse survives |
| **Streams, reading** `src/stream.cxx`, `include/rSON.hxx`, `src/socket/socket.cxx` | position, `eof`, `lastRead` | `read`, `atEOF`, `readSync` | each call of `parseJSON` on a socket takes exactly one line |
| **rpcStream_t, writing** `src/socket/socket.cxx` | `buffer`, `pos` | `connect`/`accept`, `write`, `writeSync` | bytes come out once and in order, a message is out when it was synced |
| **JSONObject** `src/jsonObject.cxx`, `include/internal/types.hxx` | `children`, a map that owns atoms; `mapKeys`, pointers into its keys | `add` (three ownership flavours, many overloads), `del`, copy, lookups | the two agree, no pointer dangles, every atom has one owner |
| **JSONArray** `src/jsonArray.cxx` | a vector that owns atoms, arrays among them | `add`, `del` by index or reference, copy | one owner through deletion of trees and unwinding of nested copies; deletion of what is not there |
| **Strings** `src/jsonString.cxx` | the decoded text | in-place decoding of escapes | never writes past what it read; the UTF-8 of the code point |
| **Numbers** `src/parser.cxx:272-431` | 64-bit values | digit conversion, `power10` | the value written, or a defined refusal |
| **Writer** `src/writer.cxx` | where in the tree it is | `store`, `length`, `writeJSON` | `length` counts what `store` writes; what it writes parses back |
| **File and memory streams, writing** `src/stream.cxx` | offset, `length`, `eof`, the descriptor | `write`, `seek`, move | short writes are failures; what `eof` may mean |
| **JSONAtom, errors, formatting** | none | conversions, forwarding, wording | types are checked |

How they meet: the parser calls `read`, `atEOF` and `readSync` of a stream and
`add` of objects and arrays; `writeJSON` calls `store` of a tree, which calls
`write` of a stream for every few bytes, then `writeSync`. The newline that
`writeSync` appends is what makes `atEOF` true at the other end.

What is hard to test in this code is listed line by line under `hazards` in
`PROJECT.json`, with the property that would catch it.

## The modules

```
JsonChars <- Stream <- Parser <- ParserInvariant <- ParserProofs <- GrammarProofs <- CompletenessProofs
    ^                                 ^------ MCParser (with JsonGrammar, JsonRules)
    |-- JsonGrammar, JsonRules: the reference, twice
    |-- NumberValue <- Writer <- Conversation              (MCConversation)
    '-- Sink <-----------'
ByteStreams <- Sink, FileStream <- FileProofs                  (MCFileStream)
SequenceOrder <- ObjectAtom <- ObjectProofs                    (MCObjectAtom)
            ^--- ArrayAtom  <- ArrayProofs                     (MCArrayAtom)
ByteChannel <..(refined by).. RpcStream <- RpcProofs           (MCRpcStream)
StringDecode <- DecodeProofs                                   (MCStringDecode)
```

`Conversation` extends both `Parser` and `Writer`; `MCParser` extends
`NumberValue` as well.

**JsonChars** are the recognisers at the top of `src/parser.cxx`. A character
is a name; `other` stands for all characters that no recogniser singles out.

**Stream** is the reading side of the streams. Its `kind` says which one:
a C string with its terminator (what `parseJSON(const char *)` passes), a
buffer of exactly the text (the `std::string` overloads), a file, a socket.
They differ in `AtEOF`, which is the point of the module: a memory stream is at
its end when the last byte *has been* read, a file after a read that returned
nothing, a socket after a newline. `data` of a socket is what the peer sends
before it closes.

**Parser** is `parseJSON` one character at a time. The C++ call stack is the
variable `stack`, a sequence of labels: its head is where control is, the rest
is where calls return to. `Goto` replaces the head (a call pushes the callee
above the place to return to), `Return` pops it. Every place of the code that
calls `currentChar` first is a label in `Checked`; the exception it throws at
the end of the data is the one action `EndOfData`, and `On(l)` says that it did
not happen. `partial` holds the containers of the `object()` and `array()`
frames, `text` the `queue<char>` of the current token. `Throw` is the unwinding
to the function-try-block of `parseJSON`, which calls `readSync` before it
rethrows; a successful call goes through the same `readSync`. `CallAgain` is the
application parsing the next message of a socket. A number in the tree is its
characters; what they are worth is `NumberValue`'s.

**NumberValue** are the values that `JSONParser::number` and `number(parser)`
give to a number's characters, as operators on words of `Width` bits that wrap
as `size_t` and `int64_t` do: digits in each base, the sign, `power10`, the
division under a negative exponent. A double is a fraction, before rounding.

**JsonGrammar** (only for TLC) is the reference: the documents of rSON's
dialect and the trees they stand for, defined on whole texts by splitting them,
with no parser state. The dialect is the one the code documents: base prefixes
after a leading zero (also in exponents), the three literals, first of
duplicate keys wins, anything may follow the root.

**JsonRules** is the same grammar as rules about the positions of a text, so
that it needs no recursion and proofs can use it. A *fact* is that a value
stands from one position to another (`Whole`), or a container with its first
items (`Begun`), with the tree it stands for. A *derivation* is a set of facts
each of which a rule makes of others in the set. Every rule goes from shorter
parts of the text to a longer one, so none rests on itself, and `Derived` says
that a derivation has the fact. `Parser_documents` compares the two references
on all texts of up to five characters and on longer ones with every form of
scalar and member: for them TLC derives all facts that there are.

**ObjectAtom** is `JSONObject` and `object_t`. Atoms are identified by their
address, which can be allocated again; a pointer in `mapKeys` is represented by
the node it points into, so that it dangles when the node is gone. `CStr` is
what a key reads as through a `char *`. Ownership is explicit: `held` are the
application's atoms, the others belong to nodes. Copying goes one child at a
time, in key order, and throws on a child of unknown type (the tests' `JSONBad`
is one), which destroys the half-made copy. A child that is itself a container
is one atom. The members of an object are added, refused, deleted and copied as
the code does; lookups change nothing and are not actions.

**ArrayAtom** is `JSONArray` and `array_t`, with the nesting that `ObjectAtom`
leaves out. `heap` are the allocated atoms, `elements` the vectors; deleting an
atom deletes all that it owns (`Subtree`). `copying` is the stack of copy
constructors, one per level of nesting: `CopyArray` begins one within the
other, `CopyThrows` leaves them all and destroys what each had made. An atom
that is no element may be deleted too: `end()` is erased, a `fault` that ends
the behaviour.

**StringDecode** is the decoder of `string_t(std::string &&)`, one turn of the
loop per step, with `readPos` and `writePos` in one buffer. Whatever is outside
the storage reads as the constant `outside`.

**ByteStreams** are `memoryStream_t` and `fileStream_t` as records and what
`read`, `write` and `seek` make of them; sums of `size_t` wrap after `SizeMax`.
**FileStream** is an application that calls them in any order. A file's device
may take the beginning of a value only; `reached` records what `memcpy` touched.

**Sink** is a stream that is written to: an array, a file (which may fail or
take a part) or a socket. `offered` is what was given to `write` and `refused`
what it answered false to. It assumes that the array and any one value are in
memory together, so that the position does not wrap here (`FileStream` is about
when it does). **Writer** is `writeJSON`: `store(tree)` is the sequence of calls
of `write` that the `store` functions make, and each call is a step, `Sink`'s
`Offer`. The answers are, as in the code, looked at by nobody. `length` is the code's
`length()`, defined apart from `store` as there. **Conversation** puts the
parser behind it: what was written is read back, on a socket after two messages
were written.

**RpcStream** is the writing side of `rpcStream_t`. Each byte has the number of
its turn, so that loss, repetition and displacement are visible. The socket is
external: `Answers` says whether it may take all it is offered, only part, or
fail. `Connect` stands for `connect` and `accept`, which allocate the buffer; the
model's application connects a stream once. (A second `connect`
would replace the buffer and keep `pos`; see the hazards.)
**ByteChannel** is what that side promises: bytes come out once, in order.
`ImplementsChannel` is that promise with `given` and `wire` read as the
channel's: every step is one of the channel's or none, whatever errors the
socket answers, up to the moment it cuts a write short (`cut`), when bytes are
lost for good. `Conversation` writes to a socket as to that channel.

**SequenceOrder** is the one notion shared by objects and arrays: `x` before
`y`. Every module has faulty variants of a few definitions just before the
definition itself; each is a plausible slip, and the properties are known to
notice it (`mutants` in `PROJECT.json`).

## The runs

| Run | Instance | Question |
|---|---|---|
| `Parser_documents` | `[` and up to 5 tokens of `[ ] , 1 space }`; `{`, or a first member, and up to 4 of `{ } , : 1 "a"`; numbers of up to 4 characters of `0 1 x A e . -` and strings of up to 5 of `" \ u a` and a control character as elements; numbers put together from integers in four bases, fractions and exponents, in words of 12 bits; pairs of lines on a socket; texts that begin anyhow | does `parseJSON` answer as the grammar says, for each kind of end; truncation; does `lastWasComma` mean what it says at every bracket; do the two references agree; is a number worth what it spells; does each call answer for its own line and leave the socket at the next; does every call return, and does each step bring it nearer to that |
| `Objects_calls` | 2 objects, 3 keys (one empty), 6 atoms (one of unknown type); objects and atoms symmetric | do map, key list and ownership agree after every sequence of calls |
| `Arrays_calls` | 4 arrays, 3 leaves (one of unknown type), symmetric | ownership through nesting, deletion and nested copies; do copies have the shape of their originals, and leave these and all else the application owns alone, also when they throw |
| `Rpc_calls` | buffer of 3, values of 0, 1, 2, 3 and 7 bytes, 9 bytes in all; the socket takes all, part, or fails | order, loss and termination under failures; is a synced message out, and when is its newline; is the stream a byte channel until something is cut |
| `Strings_decode` | texts of up to 4 of `\ " n u q a 0 NUL`; every `\u` escape of the digits `0 7 8 F f`, alone, after `\n` and before other things; bad and cut ones | is decoding in place safe; is the result the UTF-8 of the units named; does a string the parser accepts always decode; does the loop end |
| `Writer_roundtrip` | 61 trees of every kind of atom, integers of 8 bits at both ends, an escaped key, an empty string, a string with a newline; arrays of 0 to 26 bytes, a file whose device fails or takes part, a socket | does `length` agree with `store`; is what arrives the beginning of what was written, and is a cut noticed; does what is written read back, message by message |
| `Files_calls` | files and arrays of up to 4 bytes, each mode, lengths 0 to 7 of sizes of three bits | does `memcpy` stay in the array when positions wrap; after all calls in any order, what may `eof` mean |

Five runs show that the program does not do what one of its own lines says
(`findings` in `PROJECT.json` quotes the line):

| Run | What it shows |
|---|---|
| `Parser_final_bracket` | in a buffer of exactly its length a whole document ends in `JSON_PARSER_EOF`: at the last bracket the stream is already at its end, and the bracket itself is never looked at |
| `Messages_closed` | `readSync` never returns once the peer has closed before the newline |
| `Objects_nul` | `del` of a key with an embedded NUL erases `mapKeys.end()` |
| `Rpc_result` | `write` answers false for a complete write, since `written` also counts the bytes of earlier calls |
| `Writer_file` | an empty string or key ends a file: `::write` of no bytes answers 0, which sets `eof`, and all later writes are refused; `[""]` leaves `["` and `writeJSON` answers true |

The first example of the repository's README (`README.md:17`) is refused as
well: `True` is not a literal of the parser, which takes small letters only.

**Bounds.** The parser's decisions depend on the current character, the flag
and the label it returns to; five tokens after a beginning are enough to open
and close two nested containers with a comma on either side, to repeat a key
and to stop anywhere within. Four characters of a number reach every label of
`number` (sign, prefix, fraction, exponent), five of a string with four digits
after `\u` each way a unicode escape can go. Two lines are one message and the
one after it. Texts of up to five characters that open no object are read from
a C string, an exact buffer and a file, the longer ones from a file, lines from
a socket: the kinds differ at the end of the text, which short texts reach at
every label. A text has one behaviour. In `Objects_calls` six atoms suffice for
an object with every key and its copy, or a copy that fails half way; in
`Arrays_calls` four arrays are one in another and a copy of both. In `Rpc_calls`
a value of 7 is more than two buffers, and the values leave every possible rest
in the buffer of 3. The decoder looks five bytes ahead at most; the digits
chosen make the first and last unit of each encoded form and those around them.
12 bits hold 999 and 2047 as signed numbers with their neighbours; 8 bits hold
all lengths of a number with and without a sign. The arrays of
`Writer_roundtrip` cut most of the texts at every place. Deadlock is not
checked: a call that returned, or a bound that was reached, stops the model.

**Fairness.** `WF(Step)` in `Parser` and `RpcStream` and `WF(Next)` in
`StringDecode`: the one thread that runs the call keeps running, and the socket
answers what it is asked. Nothing is assumed of what the application calls
(`CallAgain`, `Write`, `WriteSync` are not under fairness), nor of what the
socket answers. In `Parser_documents` the peer ends each line;
`Messages_closed` shows what becomes of liveness without that.

## What is proved

TLAPS checks the following for every value of the constants.

* `ParserProofs`: **TypeCorrect**. The position stays within the data, labels
  and outcomes are the declared ones. The interesting part is that a label pops
  only what was pushed.
  **CallsTakeOneMessage**, for every sequence of bytes a
  socket may deliver: a call that returned has taken exactly one line. The
  invariant is `MessageInv` (`ParserInvariant`): what the call stack can look
  like (`StackOK`, each label above one it may return to), and that no newline
  was read since the call began, or one was and `lastRead` says so
  (`MessageOK`). The property alone is not inductive: it says nothing while a
  call runs.
  **LastWasCommaIsRight**: at every closing bracket the flag says whether the
  last token was a comma. It needs a fact for each *place* of the parser, "a
  token that is no comma was just read" or "flag and text agree" (`TokenOK`),
  carried through white space. It is proved for sockets whose peer ends its
  last line, since after the peer closed `next` is no longer in the data
  (**CommaInvHolds** is the invariant).
  `FramesInv` is bookkeeping of the model that the next two modules need, and no
  result about the code: the containers of `partial` are those of the frames on
  `stack`, which in C++ are locals of these frames.
  **CallsMakeProgress** is what safety can say about termination: every step of
  a call makes `Measure` smaller. A byte to come is worth 14, and the labels are
  ranked (`RankOf`) so that only a read of a byte leads up; a return to a caller
  that makes no read leads down. So a call ends within 14 steps for each byte.
  It too is for a peer that ends its last line: after a close, reads deliver
  nothing and say so to nobody, and the loops turn forever (`Messages_closed`).
* `GrammarProofs`: **AcceptedTextsAreDocuments**, the soundness of the parser:
  for every text over every kind of stream, when `parseJSON` returns a tree,
  the text it read begins with a document that the rules of `JsonRules` derive,
  the tree is the one they derive for it, and behind it only white space was
  read and at most one character more (on a socket, the rest of the line, as
  `readSync` does). It too is for a peer that ends its last line. The invariant `GrammarInv` has, beside the two
  above, a derivation `F` and a place in the text for each open container `o`:
  each frame's container so far is a fact of `F`, which begins where a value of
  the frame below it is due (`ContainersOK`), and each place of the parser says
  what stands between the last value and the current character (`Here`). A
  step within a token makes the part that was read longer, the end of a token
  adds a fact to the derivation, and so do `add` of a container and its bracket.
  `Lost` is the one way to be elsewhere: a bracket in the place of a value,
  which the code looks at several calls before one refuses it.
* `CompletenessProofs`, the converse, under the same assumption, and with
  the soundness what `parseJSON` promises altogether,
  **TreesAreExactlyTheDocuments**: it returns a tree if and only if a document
  stands where it began to read in the text it was given (`GivenEnd`: up to the
  terminator, the newline or the end; of an exact buffer the last byte is never
  examined), and then the tree of that document. Three theorems say more than
  that, since they speak of *every text that goes on from what was read*
  (`Fits`), whatever came behind it or might have come.
  **RefusedTextsAreHopeless**: after `BAD_JSON` none of them begins with a
  document. **TheTreeIsTheOnlyOne**: after a tree, every document that one of
  them begins with has this tree, so the rules are unambiguous as the parser
  reads them. **EndOfDataIsPremature**: after the error of an end of data, a
  document that one of them begins with ends behind the last byte read, or with
  it in an exact buffer. They are what a caller relies on who answers a
  malformed message differently from one that was cut short.
  The invariant `FollowInv` is about each such text `t` and each derivation `D`
  of a document in it (`Viable`): while a call runs, the parser goes along with
  them (`Along`). The containers it has open are containers of `D`, each of
  which leads from the items read to its end (`Follows`, `Leads`), and each place
  of the parser says what it knows of `t` there (`Known`): a string, a number or a
  literal that was read is the longest that `t` has, an item that is due begins
  with what comes next, a value that was read is the one `D` has there. So an
  error cannot be thrown while such a `t` exists, which is what the theorem says
  the other way round. The soundness invariant is needed in it, for where the
  values that were read stand, and its `Lost` is what `Along` rules out. That a
  container leads to its end is a set of facts of `D` that holds it and, with
  each container that has not ended, one with an item more: no induction is
  needed to follow it. `VerdictInv` adds that as long as the root is open a
  document of `D` ends beyond what was read (`Beyond`), by the least open
  container that does not, and so it does when the end of the data is reported.
* `ObjectProofs`: **TypeCorrect**, **KeysAreListed**, **AtomsHaveOneOwner**,
  **DelIsDefined**, **KeysStayInOrder** and **CopiesHaveAllKeys**, for all objects, atoms and keys, under the assumption
  `NulFree`: every key reads as itself through `c_str()`. `Objects_nul` shows
  that the assumption is needed. The invariant is the conjunction of the type,
  unique keys, the listing, ownership and the absence of faults: del is defined
  because the list is complete, and the list stays complete because del is
  defined. Copies add `CopyInv`: an object that is not built yet has no members
  but those its clone gave it, and their keys are the original's.
* `ArrayProofs`: **TypeCorrect**, **AtomsHaveOneOwner**, **ElementsStayInOrder**,
  **CopiesAreAlike** and **CopyingHarmsNothing**, for any
  number of arrays nested in any way. The invariant is a forest: each atom has
  one slot, the application or a copy in progress as its owner (`Forest`), and
  the copies in progress have distinct results that nobody else owns (`Calls`).
  What makes a deletion keep it is that what a tree owns is in the tree, and
  that nothing outside it owns a part of it but through its root. For the copies,
  `CopyInv` says that a map leads from all that was copied to its originals,
  under which the elements of each copy are those of its original as far as it
  got (`Mirrors`), and that each copy constructor in progress stands at the
  element which the one within it copies (`Nested`). That a copy, and the
  exception out of it, takes nothing from what the application owns is an action
  property: the results of the copies in progress and the application's atoms
  are roots of trees that have nothing in common (`TreesApart`), so what the
  unwinding destroys is in none of the latter.
* `DecodeProofs`: **TypeCorrect**, **DecodingInPlaceIsSafe** and
  **DecodedStringsHaveNoNul**, for texts of every length and whatever lies
  behind them. The invariant says how far the writing position is behind the
  reading one: by one more after a backslash, so that no escape can outgrow
  itself; and that what was written so far holds no NUL.
  **AcceptedStringsAreDecoded**: a string that `JSONParser::string` lets through
  (`Accepted`) is never refused by the decoder. The invariant is that the decoder's
  flag says of the next byte what the text says of it, the parity of the
  backslashes before it (`Escaped`). **DecodedIsWhatTheTextSays**: the result
  is that of a walk over the text that writes elsewhere (`SaysUpTo`), so nothing
  is read that was already overwritten. **DecodingMakesProgress**: every turn
  of the loop reads on, or is the one after a backslash that resets the flag.
* `FileProofs`: **TypeCorrect**, **MemoryIsNotOverrun** and **EofMeansTheEnd**,
  for every width of `size_t` and every length asked for: either the position
  wraps and the call is refused, or the length is clamped. For `eof` the
  invariant adds what `length` is (`LengthOK`): the size of the file, or, once it
  was written to, the place where the last write stopped; `seek` compares with
  no other.
  **NothingIsMissingInside**, of `Sink`: whatever an array refuses and a file's
  device fails at, what was stored is the beginning of what was offered, unless
  a device took a part of a value only. The invariant `SinkInv` is that a refusal
  is for good: a stream that refused is full or at its end (`Stuck`).
* `RpcProofs`: **TypeCorrect**, **BytesStayInOrder**, **BytesAreKept**,
  **MessagesLeaveWhole**, for every buffer length and every behaviour of the
  socket, and **StreamIsChannel**: `RpcStream` implements `ByteChannel` on any
  socket, through its errors, until one cuts a write; on a socket that takes
  all it is offered, altogether (**HealthyStreamIsChannel**). The invariant
  `RpcInv` says that the buffer is the last bytes given, that the wire is an
  increasing sequence of earlier ones and the full one unless something was
  cut, and how `toWrite` and `written` relate to the buffer while a call runs;
  and that the newline, once copied, is the last byte given (`EndOK`).
  **CallsMakeProgress**: each turn of `write`'s loop leaves fewer bytes to copy,
  but for the one that finds the buffer full, as an error left it; that one
  flushes it or gives up.

Inductions over numbers (positions of a text, sizes of a tree) are by the least
element of a set of counterexamples: the library's induction theorems take an
operator as a parameter, which the provers cannot instantiate.

Only model-checked:

* of `ParsesExactlyTheDocuments`, that `JsonRules` says what `JsonGrammar` says,
  which is recursive: what a recursive operator computes cannot be proved here.
  That the parser does what `JsonRules` says is proved;
* `TruncationIsEndOfData`, since it is about `JsonGrammar`:
  `RefusedTextsAreHopeless` says of the rules that what is refused as malformed
  is no beginning of a document;
* `NumbersHaveTheirValue`, folds over the digits;
* `ResultSaysWhatTheTextNames`, the reference for the decoder, recursive too.
  `DecodedIsWhatTheTextSays` is proved in its place of a walk over the text;
* `LengthSizesTheArray`, `CutIsNoticed`, `WhatIsWrittenReadsBack` and
  `ControlsAreNoticed`: `store` and `length` are recursive;
* `EveryCallReturns`, `EveryWriteReturns` and `DecodeEnds`, which are liveness.
  The three progress theorems are all of them but the fairness.

## What the properties leave out

Where the code does something for which none of its lines says what was meant,
the model has what it does, and the property leaves the case out:

* small hexadecimal digits: `a` is worth 42, since only 7 is taken off
  (`NumberValue!digit`; `NumbersHaveTheirValue` is about capitals); numbers that
  do not fit the words, which wrap; a negative exponent whose power of ten wraps
  to zero, by which the code divides;
* strings that hold a quote or a backslash once decoded, none of which is among
  the trees of `Writer_roundtrip`: the writer does not
  escape them (`WhatIsWrittenReadsBack`), and control characters, which it
  writes and the parser refuses (`ControlsAreNoticed`);
* `writeSync` looks at no answer of `write`. When an error left the buffer full,
  the flush for the newline may fail again; the newline is then never copied, and
  if the flush behind it succeeds the message leaves without it, so that the
  peer reads it as one with the next. `MessageIsOut` promises the newline for calls in
  which the socket refused and cut nothing, and only the rest for the others;
* `eof` of a file has three meanings, one for each rule that sets it
  (`EofIsTheEnd`): nothing is left to read, the last call was a read that asked for
  no bytes, or the file stands where the last write stopped, though bytes may be behind it (`seek`
  compares with the `length` that `write` set). In all three the file
  refuses to be written;
* a short `::write` counts as a success (`short` in `Sink`);
* deleting an atom that is no element of an array erases `end()`, which `Arrays_calls`
  has as a fault: no line says what it should do.

## What is not modelled

A second `connect()` of one stream; moves of stream objects and the descriptor
they leave to two owners; allocation failure; errors of file reads (an
exception that `parseJSON` does not catch); a file that cannot seek, whose
`length` is -1; address lookup, `listen` and
`select`; the rounding of doubles and their formatting. `JSONAtom`'s
conversions, the atoms that hold one value, errors and their wording keep no
state worth a model. Trees in `ArrayAtom` are of arrays: an object in an array
is a leaf there, and a container in an object is one in `ObjectAtom`; the two
copy each other's kind by the same constructors.

## Plan

Done: the parser over its streams, the object's book-keeping and the socket's
buffer with their proofs; arrays and nested trees; the values of numbers; the
decoder; file and memory streams; the writer, and its composition with the
streams and the parser; the grammar as rules, and that the parser accepts what
they derive, nothing else, and makes of it what they do.

Left, each with what makes it worth doing:

1. Objects and arrays in one forest, for a copy that throws through both.
2. The descriptor of a file over moves; a second `connect`.
