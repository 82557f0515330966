----------------------------- MODULE FileStream -----------------------------
(***************************************************************************)
(* Every sequence of reads, writes and seeks of an application on one      *)
(* fileStream_t or memoryStream_t (src/stream.cxx).  A call that throws a  *)
(* system_error changes nothing, so there is no action for it.  A file     *)
(* that another process changes meanwhile is not modelled, nor is one that *)
(* cannot seek, whose length a write leaves at -1.                         *)
(***************************************************************************)
EXTENDS ByteStreams

CONSTANTS Byte,     \* the bytes written
          Lengths,  \* the lengths asked for, up to SizeMax
          MaxBytes  \* a bound on the size of a file and of an array

ASSUME FileAssumption ==
  /\ Zero \in Byte /\ Lengths \subseteq 0..SizeMax
  /\ MaxBytes \in Nat /\ MaxBytes <= SizeMax

VARIABLES stream,  \* the stream and what it works on
          reached, \* the highest index of the array that a memcpy touched
          empty,   \* the last call on a file was a read of no bytes (history)
          stopped  \* where the last write to a file ended, -1 before (history)

vars == <<stream, reached, empty, stopped>>

Contents == {s \in Seq(Byte) : Len(s) <= MaxBytes}
IsFile   == stream.sink = "file"
IsMemory == stream.sink = "memory"

Init ==
  /\ \E bytes \in UNION {[1..n -> Byte] : n \in 0..MaxBytes} :
       \/ stream = OpenMemory(bytes)
       \/ \E mode \in Modes : stream = OpenFile(bytes, mode)
  /\ reached = 0 /\ empty = FALSE /\ stopped = -1

-----------------------------------------------------------------------------
(* fileStream_t                                                            *)

Read(valueLen) ==
  /\ IsFile /\ ~FileRefusesRead(stream)
  /\ \E n \in 0..Rest(stream) :
       /\ n <= valueLen /\ (n = 0 => valueLen = 0 \/ Rest(stream) = 0)
       /\ stream' = FileRead(stream, n)
  /\ empty' = (valueLen = 0) /\ UNCHANGED <<reached, stopped>>

\* A device that is nearly full takes the beginning only.
Write(value) ==
  /\ IsFile /\ ~FileRefusesWrite(stream) /\ stream.offset + Len(value) <= MaxBytes
  /\ \E n \in 0..Len(value) :
       /\ n = 0 => value = <<>>
       /\ stream' = FileWrite(stream, SubSeq(value, 1, n))
  /\ empty' = FALSE /\ stopped' = stream'.offset /\ UNCHANGED reached

\* result is where lseek ends up.
Seek(result) ==
  /\ IsFile /\ stream' = FileSeek(stream, result)
  /\ empty' = FALSE /\ UNCHANGED <<reached, stopped>>

-----------------------------------------------------------------------------
(* memoryStream_t                                                          *)

\* What memcpy touches.
Touch(valueLen) ==
  LET last == stream.pos + actualLen(stream, valueLen)
  IN  reached' = IF MemoryRefuses(stream, valueLen) \/ last <= reached THEN reached ELSE last

ReadMemory(valueLen) ==
  /\ IsMemory /\ stream' = MemoryRead(stream, valueLen)
  /\ Touch(valueLen) /\ UNCHANGED <<empty, stopped>>

WriteMemory(value) ==
  /\ IsMemory /\ stream' = MemoryWrite(stream, value)
  /\ Touch(Len(value)) /\ UNCHANGED <<empty, stopped>>

-----------------------------------------------------------------------------
Values == UNION {[1..n -> Byte] : n \in Lengths}

Next ==
  \/ \E n \in Lengths : Read(n) \/ ReadMemory(n)
  \/ \E value \in Values : Write(value) \/ WriteMemory(value)
  \/ \E result \in -1..MaxBytes : Seek(result)

Spec == Init /\ [][Next]_vars

-----------------------------------------------------------------------------
(* Properties                                                              *)

\* The members stay in their types, and a memory stream's array and a file's
\* size within what was set out for them.
TypeOK ==
  /\ reached \in Nat /\ empty \in BOOLEAN /\ stopped \in Nat \cup {-1}
  /\ \/ /\ stream \in [sink : {"memory"}, bytes : Contents, pos : Nat]
     \/ /\ stream \in [sink : {"file"}, bytes : Contents, offset : Nat, length : Nat,
                       eof : BOOLEAN, mode : Modes]

\* Whatever length a read or a write asks for, the largest size_t included,
\* memcpy stays within the array (memoryStream_t::read, memoryStream_t::write).
NoOverrun == IsMemory => reached <= Len(stream.bytes) /\ stream.pos <= Len(stream.bytes)

\* read, write and seek each set eof by a rule of their own, and seek's goes by
\* a length that write sets to where it stopped.  After any sequence of calls
\* eof means one of three things, and no more: there is nothing to read where
\* the stream stands; the last call was a read that asked for no bytes; or the
\* stream stands where the last write stopped, be there bytes behind it or not
\* (fileStream_t::read, fileStream_t::write, fileStream_t::seek).
EofIsTheEnd ==
  (IsFile /\ stream.eof) => \/ Rest(stream) = 0
                            \/ empty
                            \/ stream.offset = stopped
=============================================================================
