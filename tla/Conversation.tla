---------------------------- MODULE Conversation ----------------------------
(***************************************************************************)
(* The writer and the parser together: writeJSON writes a tree to a        *)
(* stream, or two to a socket one after the other, and parseJSON reads     *)
(* what arrived: an array up to the first NUL as a C string, a full one as *)
(* a string view, a file from its start after a seek, a socket line by     *)
(* line.  The channel of a socket is first in, first out (RpcStream), so   *)
(* reading after writing shows what reading while writing would.           *)
(***************************************************************************)
EXTENDS Parser, Writer

VARIABLES sent,    \* the trees written before this one
          reading  \* parseJSON was called

conversationVars == <<vars, writerVars, sent, reading>>

ConversationInit ==
  /\ WriterInit /\ CallInit /\ StreamOver("file", <<>>)
  /\ sent = <<>> /\ reading = FALSE

\* The peer is sent a second message.
WriteAgain ==
  /\ ~reading /\ outcome = "true" /\ sink.sink = "rpc" /\ sent = <<>>
  /\ tree' \in Trees \ {NoTree}
  /\ calls' = store(tree') /\ outcome' = "writing" /\ sent' = <<tree>>
  /\ UNCHANGED <<vars, sinkVars, reading>>

Terminated(bytes) == "nul" \in Range(bytes)
UpToNul(bytes)    == SubSeq(bytes, 1, SelectInSeq(bytes, LAMBDA c : c = "nul"))

\* What was written is handed to parseJSON.
BeginReading ==
  /\ ~reading /\ outcome \notin {"writing", "false"} /\ reading' = TRUE
  /\ kind' = CASE sink.sink = "memory" -> IF Terminated(sink.bytes) THEN "cstr" ELSE "view"
               [] OTHER -> sink.sink
  /\ data' = IF kind' = "cstr" THEN UpToNul(sink.bytes) ELSE sink.bytes
  /\ eof' = (sink.sink = "file" /\ FileSeek(sink, 0).eof)
  /\ UNCHANGED <<pos, lastRead, parserVars, stack, treeVars, callVars, writerVars, sent>>

Converse ==
  \/ ~reading /\ WriteStep /\ UNCHANGED <<vars, sent, reading>>
  \/ WriteAgain
  \/ BeginReading
  \/ reading /\ Next /\ UNCHANGED <<writerVars, sent, reading>>

Conversing == ConversationInit /\ [][Converse]_conversationVars

-----------------------------------------------------------------------------
(* The properties' vocabulary                                              *)

TextOf(node) == LET made == store(node) IN FlattenSeq([i \in DOMAIN made |-> made[i].chars])

\* What is in the stream of the tree written last.
Earlier == FlattenSeq([i \in DOMAIN sent |-> Append(TextOf(sent[i]), "newline")])
Written == SubSeq(Arrived, Len(Earlier) + 1, Len(Arrived))
IsWhole == tree # NoTree /\ IsPrefix(TextOf(tree), Written)

\* The characters of an atom's strings and keys, and whether one is empty.
RECURSIVE StringsIn(_)
StringsIn(node) ==
  CASE node[1] = "string" -> {node[2]}
    [] node[1] = "array"  -> UNION {StringsIn(node[2][i]) : i \in DOMAIN node[2]}
    [] node[1] = "object" -> UNION {{node[2][i][1]} \cup StringsIn(node[2][i][2]) : i \in DOMAIN node[2]}
    [] OTHER -> {}

HasControls(node) == \E s \in StringsIn(node) : \E c \in Range(s) : isControl(c)
IsContainer(node) == node[1] \in {"array", "object"}

\* An atom as parseJSON made it, its integers as numbers.
RECURSIVE ValueOf(_)
ValueOf(read) ==
  CASE read[1] = "int"    -> <<"int", IntValue(read[2])>>
    [] read[1] = "array"  -> <<"array", [i \in DOMAIN read[2] |-> ValueOf(read[2][i])]>>
    [] read[1] = "object" -> <<"object", [i \in DOMAIN read[2] |->
                                            <<read[2][i][1], ValueOf(read[2][i][2])>>]>>
    [] OTHER -> read

\* The tree that this call of parseJSON is to return.
Expected == IF start = 0 /\ sent # <<>> THEN sent[1] ELSE tree
HasReturned == reading /\ Returned

-----------------------------------------------------------------------------
(* Properties                                                              *)

\* An array as long as length() says takes the whole text and is filled
\* by it: every length() agrees with its store() (writer.cxx).
LengthSizesTheArray ==
  (outcome = "true" /\ ~reading /\ sink.sink = "memory" /\ Len(sink.bytes) >= length(tree)) =>
    ~refused /\ IsWhole /\ sink.pos = length(tree)

\* writeJSON answers true for a text that the stream had no room for.  The
\* reader notices: no cut text is a document.
CutIsNoticed == (HasReturned /\ result = "tree" /\ ~short /\ Len(sent) = 0) => IsWhole

\* What writeJSON wrote in full parseJSON reads back, message by message:
\* nesting, separators, the sign and digits of every int64_t, the keys with
\* their escapes.  Strings must hold no character that JSON escapes, for the
\* writer does not; an array needs a byte for the terminator.
WhatIsWrittenReadsBack ==
  ( /\ HasReturned /\ outcome = "true" /\ ~refused /\ ~short /\ kind # "view"
    /\ \A t \in {tree} \cup Range(sent) : IsContainer(t) /\ ~HasControls(t) ) =>
       result = "tree" /\ ValueOf(atom) = Expected

\* A control character within a string, a newline on a socket above all, does
\* not pass for something else: the parser refuses the text.
ControlsAreNoticed ==
  (HasReturned /\ start = 0 /\ ~short /\ HasControls(Expected)) => result # "tree"

\* "If read-only and not read-write mode, or we ran out of space.. return
\* false" (stream.cxx:63): a device with space takes the whole text.
FileTakesAll == (sink.sink = "file" /\ Healthy /\ outcome = "true") => IsWhole
=============================================================================
