-------------------------------- MODULE Sink --------------------------------
(***************************************************************************)
(* A stream that an application writes to, one call of stream_t::write     *)
(* after the other and whatever the calls answer: an array, a file or a    *)
(* socket.  A call that throws a system_error has written nothing, so      *)
(* there is no action for it.                                              *)
(***************************************************************************)
EXTENDS ByteStreams, JsonChars

CONSTANTS Sinks,    \* the streams written to
          Chunks,   \* what a call may be given to write
          Healthy   \* files take all they are offered

OpenSocket == [sink |-> "rpc", bytes |-> <<>>]

\* An array and the value written to it are in memory at the same time.
ASSUME SinkAssumption ==
  /\ Chunks \subseteq Seq(Char) /\ Zero \in Char
  /\ \A s \in Sinks :
       /\ s.bytes \in Seq(Char)
       /\ \/ s = OpenMemory(s.bytes) /\ \A v \in Chunks : Len(s.bytes) + Len(v) <= SizeMax
          \/ \E mode \in Modes : s = OpenFile(s.bytes, mode)
          \/ s = OpenSocket

VARIABLES sink,     \* the stream
          refused,  \* write answered false, which no store() looks at
          short,    \* the device took a part of what it was offered
          offered   \* all that write was given, in one piece (history)

sinkVars == <<sink, refused, short, offered>>

SinkInit ==
  /\ sink \in Sinks
  /\ refused = FALSE /\ short = FALSE /\ offered = <<>>

WriteToMemory(value) ==
  /\ sink.sink = "memory"
  /\ sink' = MemoryWrite(sink, value)
  /\ refused' = (refused \/ MemoryRefuses(sink, Len(value))
                         \/ actualLen(sink, Len(value)) < Len(value))
  /\ UNCHANGED short

WriteToFile(value) ==
  /\ sink.sink = "file"
  /\ IF FileRefusesWrite(sink)
     THEN refused' = TRUE /\ UNCHANGED <<sink, short>>
     ELSE \E n \in IF Healthy \/ value = <<>> THEN {Len(value)} ELSE 1..Len(value) :
            /\ sink' = FileWrite(sink, SubSeq(value, 1, n))
            /\ refused' = (refused \/ value = <<>>)
            /\ short' = (short \/ n < Len(value))

\* A socket takes the bytes as the abstract channel does (see RpcStream).
WriteToSocket(value) ==
  /\ sink.sink = "rpc"
  /\ sink' = [sink EXCEPT !.bytes = @ \o value]
  /\ UNCHANGED <<refused, short>>

\* stream_t::write, of whichever stream this is.
Offer(value) ==
  /\ WriteToMemory(value) \/ WriteToFile(value) \/ WriteToSocket(value)
  /\ offered' = offered \o value

\* writeSync: of the three streams only the socket's does something.
writeSync ==
  /\ IF sink.sink = "rpc"
     THEN sink' = [sink EXCEPT !.bytes = Append(@, "newline")] /\ offered' = Append(offered, "newline")
     ELSE UNCHANGED <<sink, offered>>
  /\ UNCHANGED <<refused, short>>

SinkNext == writeSync \/ \E value \in Chunks : Offer(value)
SinkSpec == SinkInit /\ [][SinkNext]_sinkVars

-----------------------------------------------------------------------------
(* Properties                                                              *)

\* What was written to the stream.
Arrived == CASE sink.sink = "memory" -> SubSeq(sink.bytes, 1, sink.pos)
             [] sink.sink = "file"   -> SubSeq(sink.bytes, 1, sink.offset)
             [] OTHER                -> sink.bytes

\* A stream that refuses a write refuses all that follow: what arrives is the
\* beginning of what was offered, never that with a hole, whatever store() does
\* with the answers (it ignores them).  And it is all of it if no write
\* answered false (stream_t::write).
NoHoles ==
  ~short => /\ Len(Arrived) <= Len(offered)
            /\ Arrived = SubSeq(offered, 1, Len(Arrived))
            /\ ~refused => Arrived = offered
=============================================================================
