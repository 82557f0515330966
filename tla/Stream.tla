------------------------------- MODULE Stream -------------------------------
(***************************************************************************)
(* The reading side of the streams a JSON text can come from, as the       *)
(* parser uses them: one byte at a time through stream_t::read, atEOF and  *)
(* readSync.                                                               *)
(*                                                                         *)
(*   "cstr"  memoryStream_t over a C string and its terminator             *)
(*           (parseJSON of a char pointer passes strlen + 1 bytes);            *)
(*   "view"  memoryStream_t over exactly the bytes of the text             *)
(*           (parseJSON of a std::string or std::string_view);             *)
(*   "file"  fileStream_t open for reading;                                *)
(*   "rpc"   rpcStream_t, a socket on which each message ends with a       *)
(*           newline.  data is what the peer sends before it closes: a     *)
(*           read past its end is the socket's "0 bytes, connection        *)
(*           closed" answer (substrate's socket_t, modelled from its use). *)
(*                                                                         *)
(* The three kinds disagree on when the end is reached, and that is what   *)
(* the parser's correctness hangs on: a memory stream is at its end when   *)
(* the last byte HAS BEEN read, a file once a read returned nothing, a     *)
(* socket once the byte read was a newline.                                *)
(***************************************************************************)
EXTENDS JsonChars

CONSTANTS Kinds,  \* the kinds of stream this instance considers
          Inputs  \* the JSON texts, as sequences of characters

StreamKinds == {"cstr", "view", "file", "rpc"}

ASSUME StreamAssumption == /\ Kinds \subseteq StreamKinds
                           /\ Inputs \subseteq Seq(Char)

VARIABLES kind,      \* which kind of stream this is
          data,      \* the bytes it delivers
          pos,       \* how many of them were read
          eof,       \* fileStream_t::eof
          lastRead   \* rpcStream_t::lastRead

streamVars == <<kind, data, pos, eof, lastRead>>

\* A stream of kind k over a text, nothing of which was read.
StreamOver(k, json) ==
  /\ kind = k
  /\ data = IF k = "cstr" THEN Append(json, "nul") ELSE json
  /\ pos = 0
  /\ eof = FALSE
  /\ lastRead = "nul"

StreamInit == \E k \in Kinds, json \in Inputs : StreamOver(k, json)

AtEOF == \/ kind \in {"cstr", "view"} /\ pos = Len(data)
         \/ kind = "file" /\ eof
         \/ kind = "rpc" /\ lastRead = "newline"

\* stream_t::read(next): the byte read, or the old value of next when the
\* read delivered none (JSONParser::nextChar ignores the result).
Read(next) == IF pos < Len(data) THEN data[pos + 1] ELSE next

\* rpcStream_t::read keeps the last byte it delivered.
SocketRead == lastRead' = IF kind = "rpc" THEN Read(lastRead) ELSE lastRead

\* Faulty variant: a read at the end still moves on.
ReadMovesPastEnd ==
  /\ pos' = pos + 1 /\ eof' = (kind = "file" /\ pos = Len(data))
  /\ SocketRead /\ UNCHANGED <<kind, data>>

\* Faulty variant: the end of a file is forgotten.
ReadForgetsEof ==
  /\ pos' = IF pos < Len(data) THEN pos + 1 ELSE pos
  /\ eof' = FALSE /\ SocketRead /\ UNCHANGED <<kind, data>>

\* The stream after that read.
ReadMoves ==
  /\ pos' = IF pos < Len(data) THEN pos + 1 ELSE pos
  /\ eof' = (kind = "file" /\ pos = Len(data))
  /\ SocketRead /\ UNCHANGED <<kind, data>>

\* Faulty variant: a message that was read to its newline is synced again.
SyncPendingAlways == kind = "rpc"

\* One turn of the loop in rpcStream_t::readSync: the bytes up to the newline
\* are read from the socket directly, past rpcStream_t::read.
SyncPending == kind = "rpc" /\ lastRead # "newline"
PeekIsNewline == pos < Len(data) /\ data[pos + 1] = "newline"

SyncDiscard ==
  /\ SyncPending /\ ~PeekIsNewline
  /\ pos' = IF pos < Len(data) THEN pos + 1 ELSE pos
  /\ UNCHANGED <<kind, data, eof, lastRead>>

\* Faulty variant: the newline is not forgotten.
SyncDoneKeepsLast ==
  /\ SyncPending => PeekIsNewline
  /\ pos' = IF SyncPending THEN pos + 1 ELSE pos
  /\ UNCHANGED <<kind, data, eof, lastRead>>

\* readSync returns: the other streams' readSync does nothing.
SyncDone ==
  /\ SyncPending => PeekIsNewline
  /\ pos' = IF SyncPending THEN pos + 1 ELSE pos
  /\ lastRead' = "nul"
  /\ UNCHANGED <<kind, data, eof>>
=============================================================================
