---------------------------- MODULE ByteStreams ----------------------------
(***************************************************************************)
(* fileStream_t and memoryStream_t (src/stream.cxx): what a read, a write  *)
(* and a seek leave behind.  A stream is a record of its members and of    *)
(* what it works on:                                                       *)
(*                                                                         *)
(*   memory  bytes, the array given to the constructor, whose length never *)
(*           changes, and pos;                                             *)
(*   file    bytes and offset, which the operating system keeps of an open *)
(*           file, and length, eof and mode.                               *)
(*                                                                         *)
(* Sizes are size_t: sums wrap after SizeMax.                              *)
(***************************************************************************)
EXTENDS Integers, Sequences

CONSTANTS SizeMax,  \* the largest size_t
          Zero      \* the byte that fills a hole of a file

ASSUME SizeAssumption == SizeMax \in Nat

\* The bytes with those from offset on replaced; what is skipped is filled.
Overlay(bytes, offset, value) ==
  [i \in 1..(IF offset + Len(value) > Len(bytes) THEN offset + Len(value) ELSE Len(bytes)) |->
     IF i > offset /\ i <= offset + Len(value) THEN value[i - offset]
     ELSE IF i <= Len(bytes) THEN bytes[i] ELSE Zero]

-----------------------------------------------------------------------------
(* memoryStream_t                                                          *)

OpenMemory(bytes) == [sink |-> "memory", bytes |-> bytes, pos |-> 0]

MemoryAtEOF(m) == m.pos = Len(m.bytes)
MemoryEnd(m, valueLen) == (m.pos + valueLen) % (SizeMax + 1)

\* Faulty variant: the position may wrap around.
MemoryRefusesAtEOF(m, valueLen) == MemoryAtEOF(m)

MemoryRefuses(m, valueLen) == MemoryAtEOF(m) \/ MemoryEnd(m, valueLen) < m.pos

\* Faulty variants: too long a value is not written at all; it is written past
\* the end of the array.
actualLenOrNone(m, valueLen) == IF MemoryEnd(m, valueLen) > Len(m.bytes) THEN 0 ELSE valueLen

actualLenUnclamped(m, valueLen) == valueLen

\* How many bytes read and write copy.
actualLen(m, valueLen) ==
  IF MemoryEnd(m, valueLen) > Len(m.bytes) THEN Len(m.bytes) - m.pos ELSE valueLen

MemoryRead(m, valueLen) ==
  IF MemoryRefuses(m, valueLen) THEN m ELSE [m EXCEPT !.pos = @ + actualLen(m, valueLen)]

MemoryWrite(m, value) ==
  IF MemoryRefuses(m, Len(value)) THEN m
  ELSE LET n == actualLen(m, Len(value))
       IN  [m EXCEPT !.bytes = Overlay(@, m.pos, SubSeq(value, 1, n)), !.pos = @ + n]

-----------------------------------------------------------------------------
(* fileStream_t                                                            *)

Modes == {"read", "write", "both"}

OpenFile(bytes, mode) == [sink |-> "file", bytes |-> bytes, offset |-> 0,
                          length |-> Len(bytes), eof |-> FALSE, mode |-> mode]

FileRefusesRead(f)  == f.eof \/ f.mode = "write"
FileRefusesWrite(f) == f.eof \/ f.mode = "read"

\* The bytes a read can still deliver.
Rest(f) == IF f.offset < Len(f.bytes) THEN Len(f.bytes) - f.offset ELSE 0

\* ::read delivers n bytes.
FileRead(f, n) == [f EXCEPT !.offset = @ + n, !.eof = n = 0]

\* ::write takes what is in value: all it was offered, or the beginning of it.
FileWrite(f, value) ==
  [f EXCEPT !.bytes  = IF value = <<>> THEN @ ELSE Overlay(@, f.offset, value),
            !.offset = @ + Len(value), !.length = f.offset + Len(value), !.eof = value = <<>>]

\* Faulty variant: the end that was met once is not forgotten.
FileSeekKeepsEof(f, result) == [f EXCEPT !.offset = IF result < 0 THEN @ ELSE result]

\* lseek answers the new offset, or -1 and stays.
FileSeek(f, result) ==
  [f EXCEPT !.offset = IF result < 0 THEN @ ELSE result, !.eof = f.length = result]
=============================================================================
