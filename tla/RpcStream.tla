----------------------------- MODULE RpcStream -----------------------------
(***************************************************************************)
(* The writing side of rpcStream_t (src/socket/socket.cxx): write() fills  *)
(* a buffer of BufferLen bytes and hands it to the socket whenever it is   *)
(* full, writeSync() ends a message with a newline and hands over what is  *)
(* left.  (The reading side is the kind "rpc" of Stream.)                  *)
(*                                                                         *)
(* Bytes are numbered in the order write() copied them, so that a lost, a  *)
(* repeated and a displaced byte can be told from one another.             *)
(***************************************************************************)
EXTENDS Integers, Sequences, FiniteSets

CONSTANTS BufferLen,  \* rpcStream_t::bufferLen
          Lengths,    \* the lengths of the values the application writes
          MaxBytes,   \* bound on the bytes written in a behaviour
          Answers     \* what the socket may do with what it is offered

ASSUME RpcAssumption == /\ BufferLen \in Nat \ {0} /\ Lengths \subseteq Nat
                        /\ MaxBytes \in Nat /\ Answers \subseteq {"all", "part", "error"}

VARIABLES open,      \* the stream was connected or accepted: buffer is allocated
          buffer,    \* buffer[0 .. pos - 1]
          wire,      \* the bytes the socket took
          call,      \* where in write() or writeSync() the thread is
          syncing,   \* write() was called by writeSync()
          valueLen, toWrite, written,  \* locals of write()
          result,    \* what the application's call returned, until its next one
          given,     \* the number of bytes copied so far (history)
          newlines,  \* which of them are the newline of writeSync() (history)
          cut,       \* some bytes were dropped (history)
          cutInCall, \* ... by this call (history)
          failedInCall  \* sock.write refused this call a full buffer (history)

locals  == <<valueLen, toWrite, written>>
history == <<given, newlines, cut, cutInCall, failedInCall>>
vars    == <<open, buffer, wire, call, syncing, locals, result, history>>

pos == Len(buffer)

Init ==
  /\ open = FALSE /\ buffer = <<>> /\ wire = <<>>
  /\ call = "idle" /\ syncing = FALSE
  /\ valueLen = 0 /\ toWrite = 0 /\ written = 0 /\ result = "none"
  /\ given = 0 /\ newlines = {} /\ cut = FALSE /\ cutInCall = FALSE
  /\ failedInCall = FALSE

Min2(a, b) == IF a < b THEN a ELSE b

\* The numbers of bytes of n offered that sock.write may answer.
Took(n) == (IF "all" \in Answers THEN {n} ELSE {})
           \cup (IF "part" \in Answers THEN 0..n - 1 ELSE {})

\* Faulty variants: pos is never reset; the whole buffer is kept for another
\* try after a short answer.
HandOverAndKeep(n) ==
  /\ wire' = wire \o SubSeq(buffer, 1, n)
  /\ UNCHANGED <<buffer, history>>

HandOverAgain(n) ==
  /\ wire' = wire \o SubSeq(buffer, 1, n)
  /\ buffer' = IF n < pos THEN buffer ELSE <<>>
  /\ UNCHANGED history

\* The socket takes the first n bytes of the buffer, pos = 0 drops the rest.
HandOver(n) ==
  /\ wire' = wire \o SubSeq(buffer, 1, n) /\ buffer' = <<>>
  /\ cut' = (cut \/ n < pos) /\ cutInCall' = (cutInCall \/ n < pos)
  /\ UNCHANGED <<given, newlines, failedInCall>>

-----------------------------------------------------------------------------
\* connect() and accept() allocate the buffer.  (An application connects a
\* stream once: see the README for what a second connect() would do.)
Connect ==
  /\ ~open /\ open' = TRUE
  /\ result' = "none" /\ UNCHANGED <<buffer, wire, call, syncing, locals, history>>

Begin(n) ==
  /\ call' = "copy" /\ valueLen' = n /\ toWrite' = n /\ written' = 0
  /\ result' = "none" /\ cutInCall' = FALSE /\ failedInCall' = FALSE

Write(n) ==
  /\ call = "idle" /\ given + n <= MaxBytes
  /\ IF open THEN Begin(n)
     ELSE result' = "false" /\ UNCHANGED <<call, locals, cutInCall, failedInCall>>
  /\ UNCHANGED <<open, buffer, wire, syncing, given, newlines, cut>>

\* Without a buffer writeSync() does nothing.
WriteSync ==
  /\ call = "idle" /\ open /\ given < MaxBytes
  /\ Begin(1) /\ syncing' = TRUE
  /\ UNCHANGED <<open, buffer, wire, given, newlines, cut>>

\* Faulty variant: the room that is left in the buffer is not looked at.
chunkUnbounded == toWrite

\* How much of the value still fits into the buffer.
chunk == Min2(BufferLen - pos, toWrite)

\* One turn of the loop in write(), up to sock.write.
Copy ==
  /\ call = "copy" /\ toWrite > 0
  /\ LET length == chunk
     IN  /\ buffer' = buffer \o [i \in 1..length |-> given + i]
         /\ toWrite' = toWrite - length /\ given' = given + length
         /\ newlines' = IF syncing /\ length = 1 THEN newlines \cup {given + 1} ELSE newlines
         /\ IF pos + length = BufferLen
            THEN call' = "flush" /\ UNCHANGED written
            ELSE written' = written + length /\ UNCHANGED call
  /\ UNCHANGED <<open, wire, syncing, valueLen, result, cut, cutInCall, failedInCall>>

\* write() returns, to writeSync() or to the application.
Return(value) ==
  IF syncing THEN call' = "sync" /\ UNCHANGED result
             ELSE call' = "idle" /\ result' = IF value THEN "true" ELSE "false"

Flush ==
  /\ call = "flush" /\ call' = "copy"
  /\ \E n \in Took(BufferLen) : HandOver(n) /\ written' = written + n
  /\ UNCHANGED <<open, syncing, valueLen, toWrite, result>>

\* The socket refuses the full buffer.
Refused == failedInCall' = TRUE /\ UNCHANGED <<given, newlines, cut, cutInCall>>

\* Faulty variants: the buffer is dropped all the same; write() tries again
\* and again.
FlushFailsAndDrops ==
  /\ call = "flush" /\ "error" \in Answers
  /\ Return(FALSE) /\ Refused /\ buffer' = <<>>
  /\ UNCHANGED <<open, wire, syncing, locals>>

FlushFailsAndRetries ==
  /\ call = "flush" /\ "error" \in Answers
  /\ call' = "copy" /\ Refused
  /\ UNCHANGED <<open, buffer, wire, syncing, locals, result>>

\* sock.write answers with an error: the full buffer stays for the next call.
FlushFails ==
  /\ call = "flush" /\ "error" \in Answers
  /\ Return(FALSE) /\ Refused
  /\ UNCHANGED <<open, buffer, wire, syncing, locals>>

WriteReturns ==
  /\ call = "copy" /\ toWrite = 0
  /\ Return(written = valueLen)
  /\ UNCHANGED <<open, buffer, wire, syncing, locals, history>>

\* Faulty variant: writeSync() leaves the rest for the next message.
FinalFlushLater ==
  /\ call = "sync" /\ call' = "idle" /\ syncing' = FALSE /\ result' = "void"
  /\ UNCHANGED <<open, buffer, wire, locals, history>>

\* The end of writeSync(): whatever the socket answers, pos = 0.  What its
\* write() returned was not looked at: when that was refused a full buffer, the
\* newline may never have been copied.
FinalFlush ==
  /\ call = "sync" /\ call' = "idle" /\ syncing' = FALSE /\ result' = "void"
  /\ \E n \in Took(pos) \cup (IF "error" \in Answers \/ pos = 0 THEN {0} ELSE {}) : HandOver(n)
  /\ UNCHANGED <<open, locals>>

Step == Copy \/ Flush \/ FlushFails \/ WriteReturns \/ FinalFlush
Next == Connect \/ (\E n \in Lengths : Write(n)) \/ WriteSync \/ Step

Spec     == Init /\ [][Next]_vars
\* The thread keeps running, and the socket answers whatever it is offered.
FairSpec == Spec /\ WF_vars(Step)

-----------------------------------------------------------------------------
(* Properties                                                              *)

\* The state is well formed; pos never passes the end of the buffer.
TypeOK ==
  /\ open \in BOOLEAN /\ syncing \in BOOLEAN /\ cut \in BOOLEAN
  /\ cutInCall \in BOOLEAN /\ failedInCall \in BOOLEAN
  /\ buffer \in Seq(Nat) /\ pos <= BufferLen /\ wire \in Seq(Nat)
  /\ call \in {"idle", "copy", "flush", "sync"}
  /\ valueLen \in Nat /\ toWrite \in Nat /\ written \in Nat
  /\ result \in {"none", "true", "false", "void"}
  /\ given \in Nat /\ newlines \subseteq 1..given

\* Whatever the socket does, short answers, errors and the retries after them
\* included, no byte is sent twice and none overtakes another.
NeverReorders == \A i, j \in DOMAIN wire : i < j => wire[i] < wire[j]

\* Unless the socket cut something short, every byte write() copied was sent
\* or is still in the buffer: also after a write() that failed half way.
NothingLost == ~cut => wire \o buffer = [i \in 1..given |-> i]

\* writeSync() always returns with an empty buffer, and unless the socket cut
\* something short all that was written so far has left.  That the newline was
\* the last byte out is promised only when the socket neither refused nor cut
\* anything in that call: an error while the buffer is full from before makes
\* writeSync() send the message without its newline, which the reader then
\* takes for the beginning of the next one.
NewestIsOut == wire # <<>> /\ wire[Len(wire)] = given
MessageIsOut ==
  result = "void" =>
    /\ buffer = <<>>
    /\ ~cut => Len(wire) = given
    /\ ~failedInCall /\ ~cutInCall => given \in newlines /\ NewestIsOut

\* write() and writeSync() return.
EveryWriteReturns == call # "idle" ~> call = "idle"

\* As long as the socket cut nothing short the stream is an abstract byte
\* channel: its errors, and the writes that fail for them, do not show.
Channel == INSTANCE ByteChannel WITH accepted <- given, delivered <- wire
ImplementsChannel == Channel!Init /\ [][cut' \/ Channel!Next]_<<given, wire>>

\* "If we did not acomplish a complete write, we consider that a failure"
\* (src/stream.cxx:109, of the same stream_t::write): write() returns true
\* when, and only when, none of the bytes was lost.
ResultTellsCompleteness ==
  (open /\ result \in {"true", "false"}) => (result = "true" <=> toWrite = 0 /\ ~cutInCall)
=============================================================================
