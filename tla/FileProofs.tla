----------------------------- MODULE FileProofs -----------------------------
(***************************************************************************)
(* Theorems about FileStream and Sink for arrays and files of every size,  *)
(* every largest size_t and any sequence of calls.                         *)
(***************************************************************************)
EXTENDS FileStream, Sink, SequenceTheorems, TLAPS

(***************************************************************************)
(* The invariant.  What seek compares with, length, is the file's size     *)
(* until the first write, and from then on where the last write stopped.   *)
(***************************************************************************)
LengthOK == IsFile => stream.length = IF stopped = -1 THEN Len(stream.bytes) ELSE stopped

FileInv == TypeOK /\ NoOverrun /\ EofIsTheEnd /\ LengthOK

(***************************************************************************)
(* Sequences of bytes                                                      *)
(***************************************************************************)

LEMMA TupleIsSeq ==
  ASSUME NEW S, NEW n \in Nat, NEW f \in [1..n -> S]
  PROVE  f \in Seq(S) /\ Len(f) = n
BY SMT

LEMMA BeginningOfSeq ==
  ASSUME NEW S, NEW s \in Seq(S), NEW n \in 0..Len(s)
  PROVE  SubSeq(s, 1, n) \in Seq(S) /\ Len(SubSeq(s, 1, n)) = n
BY SMT

\* A value laid over a sequence: how long the sequence is then.
LEMMA OverlayLength ==
  ASSUME NEW S, Zero \in S,
         NEW bytes \in Seq(S), NEW offset \in Nat, NEW value \in Seq(S)
  PROVE  /\ Overlay(bytes, offset, value) \in Seq(S)
         /\ Len(Overlay(bytes, offset, value)) =
              IF offset + Len(value) > Len(bytes) THEN offset + Len(value) ELSE Len(bytes)
<1> DEFINE n == IF offset + Len(value) > Len(bytes) THEN offset + Len(value) ELSE Len(bytes)
           byte(i) == IF i > offset /\ i <= offset + Len(value) THEN value[i - offset]
                      ELSE IF i <= Len(bytes) THEN bytes[i] ELSE Zero
<1>1. n \in Nat
  BY SMT
<1>2. \A i \in 1..n : byte(i) \in S
  <2> SUFFICES ASSUME NEW i \in 1..n PROVE byte(i) \in S
    OBVIOUS
  <2>1. CASE i > offset /\ i <= offset + Len(value)
    <3>1. i - offset \in 1..Len(value)
      BY <2>1, SMT
    <3> QED
      BY <2>1, <3>1, SMT
  <2>2. CASE ~(i > offset /\ i <= offset + Len(value)) /\ i <= Len(bytes)
    BY <2>2, SMT
  <2>3. CASE ~(i > offset /\ i <= offset + Len(value)) /\ ~(i <= Len(bytes))
    BY <2>3
  <2> QED
    BY <2>1, <2>2, <2>3
<1>3. Overlay(bytes, offset, value) = [i \in 1..n |-> byte(i)]
  BY DEF Overlay
<1> HIDE DEF n, byte
<1>4. [i \in 1..n |-> byte(i)] \in [1..n -> S]
  BY <1>2
<1>5. Overlay(bytes, offset, value) \in Seq(S) /\ Len(Overlay(bytes, offset, value)) = n
  BY <1>1, <1>3, <1>4, TupleIsSeq
<1> QED
  BY <1>5 DEF n

(***************************************************************************)
(* Sizes that wrap around                                                  *)
(***************************************************************************)

LEMMA WrappedSum ==
  ASSUME NEW a \in 0..SizeMax, NEW b \in 0..SizeMax
  PROVE  (a + b) % (SizeMax + 1) = IF a + b <= SizeMax THEN a + b ELSE a + b - (SizeMax + 1)
BY SizeAssumption, SMT

Memory(m) == m \in [sink : {"memory"}, bytes : Contents, pos : Nat] /\ m.pos <= Len(m.bytes)

\* What a call copies lies within the array.
LEMMA CopiesWithin ==
  ASSUME NEW m, Memory(m), NEW valueLen \in 0..SizeMax, ~MemoryRefuses(m, valueLen)
  PROVE  actualLen(m, valueLen) \in 0..valueLen /\ m.pos + actualLen(m, valueLen) <= Len(m.bytes)
<1>1. /\ m.pos \in 0..SizeMax /\ Len(m.bytes) \in Nat /\ m.pos <= Len(m.bytes)
      /\ Len(m.bytes) <= SizeMax /\ SizeMax \in Nat
  BY SizeAssumption, FileAssumption, SMT DEF Memory, Contents
<1>2. MemoryEnd(m, valueLen) = IF m.pos + valueLen <= SizeMax THEN m.pos + valueLen
                               ELSE m.pos + valueLen - (SizeMax + 1)
  BY <1>1, WrappedSum DEF MemoryEnd
<1>3. ~(MemoryEnd(m, valueLen) < m.pos)
  BY DEF MemoryRefuses
<1>4. MemoryEnd(m, valueLen) = m.pos + valueLen
  BY <1>1, <1>2, <1>3, SMT
<1> QED
  BY <1>1, <1>4, SMT DEF actualLen

(***************************************************************************)
(* The invariant                                                           *)
(***************************************************************************)

LEMMA InitInv == Init => FileInv
<1> SUFFICES ASSUME Init PROVE FileInv
  OBVIOUS
<1>1. PICK bytes \in UNION {[1..n -> Byte] : n \in 0..MaxBytes} :
        \/ stream = OpenMemory(bytes)
        \/ \E mode \in Modes : stream = OpenFile(bytes, mode)
  BY DEF Init
<1>2. PICK n \in 0..MaxBytes : bytes \in [1..n -> Byte]
  OBVIOUS
<1>3. bytes \in Contents /\ Len(bytes) \in Nat
  BY <1>2, FileAssumption, TupleIsSeq, SMT DEF Contents
<1>4. reached = 0 /\ empty = FALSE /\ stopped = -1
  BY DEF Init
<1>5. CASE stream = OpenMemory(bytes)
  <2>1. /\ stream \in [sink : {"memory"}, bytes : Contents, pos : Nat]
        /\ stream.sink = "memory" /\ stream.bytes = bytes /\ stream.pos = 0
    BY <1>3, <1>5 DEF OpenMemory
  <2>2. reached <= Len(stream.bytes) /\ stream.pos <= Len(stream.bytes)
    BY <1>3, <1>4, <2>1, SMT
  <2> QED
    BY <1>4, <2>1, <2>2 DEF FileInv, TypeOK, NoOverrun, EofIsTheEnd, LengthOK, IsFile
<1>6. ASSUME NEW mode \in Modes, stream = OpenFile(bytes, mode) PROVE FileInv
  BY <1>3, <1>4, <1>6
     DEF FileInv, TypeOK, NoOverrun, EofIsTheEnd, LengthOK, IsFile, IsMemory, OpenFile
<1> QED
  BY <1>1, <1>5, <1>6

File(f) == f \in [sink : {"file"}, bytes : Contents, offset : Nat, length : Nat,
                  eof : BOOLEAN, mode : Modes]

\* What keeps the invariant of a file: its members, a length to go by, and a
\* meaning for eof.
LEMMA FileKeeps ==
  ASSUME File(stream'), reached' \in Nat, empty' \in BOOLEAN, stopped' \in Nat \cup {-1},
         stream'.length = IF stopped' = -1 THEN Len(stream'.bytes) ELSE stopped',
         (stream'.eof /\ ~empty' /\ stream'.offset # stopped') => Rest(stream') = 0
  PROVE  FileInv'
BY DEF FileInv, TypeOK, NoOverrun, EofIsTheEnd, LengthOK, IsFile, IsMemory, File

\* What the invariant says of a file.
LEMMA FileFacts ==
  ASSUME FileInv, IsFile
  PROVE  /\ File(stream) /\ reached \in Nat /\ stopped \in Nat \cup {-1}
         /\ stream.length = IF stopped = -1 THEN Len(stream.bytes) ELSE stopped
BY DEF FileInv, TypeOK, LengthOK, IsFile, File

LEMMA ReadKeeps ==
  ASSUME FileInv, NEW valueLen \in Lengths, Read(valueLen)
  PROVE  FileInv'
<1>1. /\ File(stream) /\ reached \in Nat /\ stopped \in Nat \cup {-1}
      /\ stream.length = IF stopped = -1 THEN Len(stream.bytes) ELSE stopped
  BY FileFacts DEF Read
<1>2. PICK n \in 0..Rest(stream) : /\ n = 0 => valueLen = 0 \/ Rest(stream) = 0
                                   /\ stream' = FileRead(stream, n)
  BY DEF Read
<1>3. Len(stream.bytes) \in Nat /\ stream.offset \in Nat /\ Rest(stream) \in Nat
  BY <1>1, SMT DEF File, Contents, Rest
<1>4. /\ stream'.bytes = stream.bytes /\ stream'.offset = stream.offset + n
      /\ stream'.length = stream.length /\ stream'.eof = (n = 0) /\ File(stream')
  <2>1. stream.offset + n \in Nat
    BY <1>3, SMT
  <2> QED
    BY <1>1, <1>2, <2>1 DEF FileRead, File
<1>5. empty' = (valueLen = 0) /\ reached' = reached /\ stopped' = stopped
  BY DEF Read
<1>6. (stream'.eof /\ ~empty') => Rest(stream') = 0
  <2> SUFFICES ASSUME stream'.eof, ~empty' PROVE Rest(stream') = 0
    OBVIOUS
  <2>1. n = 0 /\ Rest(stream) = 0
    BY <1>2, <1>4, <1>5
  <2>2. stream'.offset = stream.offset
    BY <1>3, <1>4, <2>1, SMT
  <2> QED
    BY <1>4, <2>1, <2>2 DEF Rest
<1> QED
  BY <1>1, <1>4, <1>5, <1>6, FileKeeps

\* A write leaves length where it stopped.
LEMMA WriteKeeps ==
  ASSUME FileInv, NEW value \in Values, Write(value)
  PROVE  FileInv'
<1>1. File(stream) /\ reached \in Nat
  BY FileFacts DEF Write
<1>2. value \in Seq(Byte) /\ Len(value) \in Nat
  <2>1. PICK k \in Lengths : value \in [1..k -> Byte]
    BY DEF Values
  <2>2. k \in Nat
    BY FileAssumption, SMT
  <2> QED
    BY <2>1, <2>2, TupleIsSeq
<1>3. PICK n \in 0..Len(value) : /\ n = 0 => value = <<>>
                                 /\ stream' = FileWrite(stream, SubSeq(value, 1, n))
  BY DEF Write
<1> DEFINE taken == SubSeq(value, 1, n)
<1>4. taken \in Seq(Byte) /\ Len(taken) = n /\ n \in Nat
  BY <1>2, BeginningOfSeq
<1>5. /\ stream.bytes \in Seq(Byte) /\ Len(stream.bytes) \in Nat /\ Len(stream.bytes) <= MaxBytes
      /\ stream.offset \in Nat /\ MaxBytes \in Nat /\ stream.offset + n <= MaxBytes
  BY <1>1, <1>2, <1>3, FileAssumption, SMT DEF File, Contents, Write
<1>6. stream' = FileWrite(stream, taken)
  BY <1>3
<1> HIDE DEF taken
<1>7. /\ stream'.bytes = IF taken = <<>> THEN stream.bytes ELSE Overlay(stream.bytes, stream.offset, taken)
      /\ stream'.offset = stream.offset + n /\ stream'.length = stream.offset + n
      /\ stream'.eof = (taken = <<>>) /\ stream'.sink = stream.sink /\ stream'.mode = stream.mode
  BY <1>1, <1>4, <1>6 DEF FileWrite, File
<1>8. stream'.bytes \in Contents
  <2>1. CASE taken = <<>>
    BY <1>1, <1>7, <2>1 DEF File
  <2>2. CASE taken # <<>>
    BY <1>4, <1>5, <1>7, <2>2, FileAssumption, OverlayLength, SMT DEF Contents
  <2> QED
    BY <2>1, <2>2
<1>9. File(stream')
  <2>1. stream.offset + n \in Nat
    BY <1>4, <1>5, SMT
  <2> QED
    BY <1>1, <1>6, <1>7, <1>8, <2>1, <1>4 DEF File, FileWrite
<1>10. empty' = FALSE /\ reached' = reached /\ stopped' = stream'.offset
  BY DEF Write
<1>11. stopped' \in Nat /\ stopped' # -1 /\ stream'.length = stopped'
  BY <1>4, <1>5, <1>7, <1>10, SMT
<1> QED
  BY <1>1, <1>9, <1>10, <1>11, FileKeeps

LEMMA SeekKeeps ==
  ASSUME FileInv, NEW result \in -1..MaxBytes, Seek(result)
  PROVE  FileInv'
<1>1. /\ File(stream) /\ reached \in Nat /\ stopped \in Nat \cup {-1}
      /\ stream.length = IF stopped = -1 THEN Len(stream.bytes) ELSE stopped
  BY FileFacts DEF Seek
<1>2. /\ stream' = FileSeek(stream, result) /\ empty' = FALSE /\ reached' = reached
      /\ stopped' = stopped
  BY DEF Seek
<1>3. Len(stream.bytes) \in Nat /\ stream.offset \in Nat /\ stream.length \in Nat /\ MaxBytes \in Nat
  BY <1>1, FileAssumption, SMT DEF File, Contents
<1>4. /\ stream'.bytes = stream.bytes /\ stream'.length = stream.length
      /\ stream'.offset = (IF result < 0 THEN stream.offset ELSE result)
      /\ stream'.eof = (stream.length = result)
  BY <1>1, <1>2 DEF FileSeek, File
<1>5. (IF result < 0 THEN stream.offset ELSE result) \in Nat
  BY <1>3, SMT
<1>6. File(stream')
  BY <1>1, <1>2, <1>4, <1>5 DEF File, FileSeek
<1>7. (stream'.eof /\ stream'.offset # stopped') => Rest(stream') = 0
  <2> SUFFICES ASSUME stream'.eof, stream'.offset # stopped' PROVE Rest(stream') = 0
    OBVIOUS
  <2>0. stream.length = result
    BY <1>4
  <2>1. stream'.offset = stream.length
    <3>1. ~(result < 0)
      BY <1>3, <2>0, SMT
    <3> QED
      BY <1>4, <2>0, <3>1
  <2>2. stream'.offset = Len(stream'.bytes) /\ Len(stream'.bytes) \in Nat
    BY <1>1, <1>2, <1>3, <1>4, <2>1
  <2>3. ~(stream'.offset < Len(stream'.bytes))
    BY <2>2, SMT
  <2> QED
    BY <2>3 DEF Rest
<1> QED
  BY <1>1, <1>2, <1>4, <1>6, <1>7, FileKeeps

\* A call on a memory stream moves within the array, whose length stays.
LEMMA MemoryKeeps ==
  ASSUME FileInv, IsMemory, NEW valueLen \in 0..SizeMax, Touch(valueLen), UNCHANGED <<empty, stopped>>,
         \/ MemoryRefuses(stream, valueLen) /\ stream' = stream
         \/ /\ ~MemoryRefuses(stream, valueLen)
            /\ stream' \in [sink : {"memory"}, bytes : Contents, pos : Nat]
            /\ Len(stream'.bytes) = Len(stream.bytes)
            /\ stream'.pos = stream.pos + actualLen(stream, valueLen)
  PROVE  FileInv'
<1>1. Memory(stream) /\ reached \in Nat /\ reached <= Len(stream.bytes) /\ empty' \in BOOLEAN
      /\ stopped' \in Nat \cup {-1}
  BY DEF FileInv, TypeOK, NoOverrun, IsMemory, Memory
<1>2. CASE MemoryRefuses(stream, valueLen) /\ stream' = stream
  <2>1. reached' = reached
    BY <1>2 DEF Touch
  <2> QED
    BY <1>1, <1>2, <2>1
       DEF FileInv, TypeOK, NoOverrun, EofIsTheEnd, LengthOK, IsFile, IsMemory, Memory
<1>3. CASE /\ ~MemoryRefuses(stream, valueLen)
           /\ stream' \in [sink : {"memory"}, bytes : Contents, pos : Nat]
           /\ Len(stream'.bytes) = Len(stream.bytes)
           /\ stream'.pos = stream.pos + actualLen(stream, valueLen)
  <2>1. /\ actualLen(stream, valueLen) \in Nat
        /\ stream.pos + actualLen(stream, valueLen) <= Len(stream.bytes)
    BY <1>1, <1>3, CopiesWithin, SMT
  <2>2. reached' \in {reached, stream.pos + actualLen(stream, valueLen)}
    BY DEF Touch
  <2>3. stream.pos \in Nat
    BY <1>1 DEF Memory
  <2>4. reached' \in Nat /\ reached' <= Len(stream'.bytes) /\ stream'.pos <= Len(stream'.bytes)
    BY <1>1, <1>3, <2>1, <2>2, <2>3, SMT
  <2> QED
    BY <1>1, <1>3, <2>4
       DEF FileInv, TypeOK, NoOverrun, EofIsTheEnd, LengthOK, IsFile, IsMemory
<1> QED
  BY <1>2, <1>3

LEMMA ReadMemoryKeeps ==
  ASSUME FileInv, NEW valueLen \in Lengths, ReadMemory(valueLen)
  PROVE  FileInv'
<1>1. IsMemory /\ Memory(stream) /\ valueLen \in 0..SizeMax
  BY FileAssumption DEF ReadMemory, FileInv, TypeOK, NoOverrun, IsMemory, Memory
<1>2. CASE MemoryRefuses(stream, valueLen)
  BY <1>1, <1>2, MemoryKeeps DEF ReadMemory, MemoryRead
<1>3. CASE ~MemoryRefuses(stream, valueLen)
  <2> DEFINE n == actualLen(stream, valueLen)
  <2>1. n \in Nat
    BY <1>1, <1>3, CopiesWithin, SMT
  <2>2. stream' = [stream EXCEPT !.pos = @ + n]
    BY <1>3 DEF ReadMemory, MemoryRead
  <2> HIDE DEF n
  <2>3. /\ stream' \in [sink : {"memory"}, bytes : Contents, pos : Nat]
        /\ stream'.bytes = stream.bytes /\ stream'.pos = stream.pos + n
    BY <1>1, <2>1, <2>2, SMT DEF Memory
  <2> QED
    BY <1>1, <1>3, <2>3, MemoryKeeps DEF ReadMemory, n
<1> QED
  BY <1>2, <1>3

LEMMA WriteMemoryKeeps ==
  ASSUME FileInv, NEW value \in Values, WriteMemory(value)
  PROVE  FileInv'
<1>1. value \in Seq(Byte) /\ Len(value) \in 0..SizeMax
  <2>1. PICK k \in Lengths : value \in [1..k -> Byte]
    BY DEF Values
  <2>2. k \in Nat /\ k \in 0..SizeMax
    BY FileAssumption, SMT
  <2> QED
    BY <2>1, <2>2, TupleIsSeq
<1>2. IsMemory /\ Memory(stream)
  BY DEF WriteMemory, FileInv, TypeOK, NoOverrun, IsMemory, Memory
<1>3. CASE MemoryRefuses(stream, Len(value))
  BY <1>1, <1>2, <1>3, MemoryKeeps DEF WriteMemory, MemoryWrite
<1>4. CASE ~MemoryRefuses(stream, Len(value))
  <2> DEFINE n == actualLen(stream, Len(value))
             written == Overlay(stream.bytes, stream.pos, SubSeq(value, 1, n))
  <2>1. n \in 0..Len(value) /\ stream.pos + n <= Len(stream.bytes)
    BY <1>1, <1>2, <1>4, CopiesWithin
  <2>2. SubSeq(value, 1, n) \in Seq(Byte) /\ Len(SubSeq(value, 1, n)) = n
    BY <1>1, <2>1, BeginningOfSeq
  <2>3. stream.bytes \in Seq(Byte) /\ stream.pos \in Nat /\ Len(stream.bytes) \in Nat
        /\ Len(stream.bytes) <= MaxBytes
    BY <1>2, SMT DEF Memory, Contents
  <2>4. written \in Seq(Byte) /\ Len(written) = Len(stream.bytes)
    <3> DEFINE part == SubSeq(value, 1, n)
    <3>1. Zero \in Byte
      BY FileAssumption
    <3>2. part \in Seq(Byte) /\ Len(part) = n
      BY <2>2
    <3> HIDE DEF n, part
    <3>3. /\ Overlay(stream.bytes, stream.pos, part) \in Seq(Byte)
          /\ Len(Overlay(stream.bytes, stream.pos, part)) =
               IF stream.pos + Len(part) > Len(stream.bytes) THEN stream.pos + Len(part)
               ELSE Len(stream.bytes)
      BY <2>3, <3>1, <3>2, OverlayLength
    <3>4. ~(stream.pos + Len(part) > Len(stream.bytes))
      BY <1>1, <2>1, <2>3, <3>2, SMT
    <3>5. written = Overlay(stream.bytes, stream.pos, part)
      BY DEF part
    <3> QED
      BY <3>3, <3>4, <3>5
  <2>5. stream' = [stream EXCEPT !.bytes = written, !.pos = @ + n]
    BY <1>4 DEF WriteMemory, MemoryWrite
  <2> HIDE DEF n, written
  <2>6. written \in Contents /\ stream.pos + n \in Nat
    BY <1>1, <2>1, <2>3, <2>4, SMT DEF Contents
  <2>7. /\ stream' \in [sink : {"memory"}, bytes : Contents, pos : Nat]
        /\ stream'.bytes = written /\ stream'.pos = stream.pos + n
    BY <1>2, <2>5, <2>6 DEF Memory
  <2> QED
    BY <1>1, <1>2, <1>4, <2>4, <2>7, MemoryKeeps DEF WriteMemory, n
<1> QED
  BY <1>3, <1>4

LEMMA InvHolds == Spec => []FileInv
<1>1. FileInv /\ [Next]_vars => FileInv'
  <2> SUFFICES ASSUME FileInv, [Next]_vars PROVE FileInv'
    OBVIOUS
  <2>1. ASSUME NEW n \in Lengths, Read(n) PROVE FileInv'
    BY <2>1, ReadKeeps
  <2>2. ASSUME NEW n \in Lengths, ReadMemory(n) PROVE FileInv'
    BY <2>2, ReadMemoryKeeps
  <2>3. ASSUME NEW value \in Values, Write(value) PROVE FileInv'
    BY <2>3, WriteKeeps
  <2>4. ASSUME NEW value \in Values, WriteMemory(value) PROVE FileInv'
    BY <2>4, WriteMemoryKeeps
  <2>5. ASSUME NEW result \in -1..MaxBytes, Seek(result) PROVE FileInv'
    BY <2>5, SeekKeeps
  <2>6. CASE UNCHANGED vars
    BY <2>6 DEF vars, FileInv, TypeOK, NoOverrun, EofIsTheEnd, LengthOK, IsFile, IsMemory, Rest
  <2> QED
    BY <2>1, <2>2, <2>3, <2>4, <2>5, <2>6 DEF Next
<1> QED
  BY <1>1, InitInv, PTL DEF Spec

(***************************************************************************)
(* The theorems                                                            *)
(***************************************************************************)

\* The members of both kinds of stream keep their types, and an array or a
\* file never outgrows the space there is for it.
THEOREM TypeCorrect == Spec => []TypeOK
<1>1. FileInv => TypeOK
  BY DEF FileInv
<1> QED
  BY <1>1, InvHolds, PTL

\* memoryStream_t's read and write stay within the array for every length
\* asked for, those that wrap its position around included.
THEOREM MemoryIsNotOverrun == Spec => []NoOverrun
<1>1. FileInv => NoOverrun
  BY DEF FileInv
<1> QED
  BY <1>1, InvHolds, PTL

\* After any sequence of calls, eof means that fileStream_t has nothing left to
\* read, or that it was last asked for no bytes, or that it stands where its
\* last write stopped, whatever is behind that.
THEOREM EofMeansTheEnd == Spec => []EofIsTheEnd
<1>1. FileInv => EofIsTheEnd
  BY DEF FileInv
<1> QED
  BY <1>1, InvHolds, PTL

(***************************************************************************)
(* What arrives of a sequence of calls.                                    *)
(***************************************************************************)

LEMMA Beginning ==
  ASSUME NEW S, NEW s \in Seq(S), NEW n \in 0..Len(s)
  PROVE  /\ SubSeq(s, 1, n) \in Seq(S) /\ Len(SubSeq(s, 1, n)) = n
         /\ \A i \in 1..n : SubSeq(s, 1, n)[i] = s[i]
<1>1. /\ n \in Nat /\ Len(s) \in Nat /\ 1 \in Int /\ n \in Int
      /\ \A i \in 1..n : i \in 1..Len(s) /\ s[i] \in S
  BY LenProperties, ElementOfSeq
<1>2. /\ SubSeq(s, 1, n) \in Seq(S)
      /\ Len(SubSeq(s, 1, n)) = IF 1 <= n THEN n - 1 + 1 ELSE 0
      /\ \A i \in 1..n - 1 + 1 : SubSeq(s, 1, n)[i] = s[1 + i - 1]
  BY <1>1, SubSeqProperties
<1>3. \A i \in 1..n : i \in 1..n - 1 + 1 /\ 1 + i - 1 = i
  BY <1>1
<1>4. \A i \in 1..n : SubSeq(s, 1, n)[i] = s[i]
  BY <1>2, <1>3
<1> QED
  BY <1>1, <1>2, <1>4

\* What is written over the end of what was written follows it.
LEMMA OverlayBeginning ==
  ASSUME NEW S, Zero \in S, NEW bytes \in Seq(S), NEW value \in Seq(S),
         NEW offset \in 0..Len(bytes)
  PROVE  /\ offset + Len(value) \in 0..Len(Overlay(bytes, offset, value))
         /\ SubSeq(Overlay(bytes, offset, value), 1, offset + Len(value)) =
              SubSeq(bytes, 1, offset) \o value
<1> DEFINE over == Overlay(bytes, offset, value)
           n    == offset + Len(value)
           size == IF n > Len(bytes) THEN n ELSE Len(bytes)
<1>1. Len(bytes) \in Nat /\ Len(value) \in Nat /\ offset \in Nat /\ n \in Nat /\ offset <= n
  BY LenProperties
<1>2. over \in Seq(S) /\ Len(over) = size
  BY <1>1, OverlayLength
<1>3. n \in 0..Len(over)
  BY <1>1, <1>2
<1>4. /\ SubSeq(over, 1, n) \in Seq(S) /\ Len(SubSeq(over, 1, n)) = n
      /\ \A i \in 1..n : SubSeq(over, 1, n)[i] = over[i]
  <2> HIDE DEF over, n
  <2> QED
    BY <1>2, <1>3, Beginning
<1>5. /\ SubSeq(bytes, 1, offset) \in Seq(S) /\ Len(SubSeq(bytes, 1, offset)) = offset
      /\ \A i \in 1..offset : SubSeq(bytes, 1, offset)[i] = bytes[i]
  BY Beginning
<1> DEFINE both == SubSeq(bytes, 1, offset) \o value
<1>6. /\ both \in Seq(S) /\ Len(both) = n
      /\ \A i \in 1..n : both[i] = IF i <= offset THEN bytes[i] ELSE value[i - offset]
  <2>1. /\ both \in Seq(S) /\ Len(both) = n
        /\ \A i \in 1..n : both[i] = IF i <= offset THEN SubSeq(bytes, 1, offset)[i]
                                     ELSE value[i - offset]
    BY <1>5, ConcatProperties
  <2> QED
    BY <1>1, <1>5, <2>1
<1>7. ASSUME NEW i \in 1..n
      PROVE  over[i] = IF i <= offset THEN bytes[i] ELSE value[i - offset]
  <2>1. i \in 1..size
    BY <1>1
  <2>2. over[i] = IF i > offset /\ i <= n THEN value[i - offset]
                  ELSE IF i <= Len(bytes) THEN bytes[i] ELSE Zero
    BY <2>1 DEF Overlay
  <2>3. i <= n /\ (i <= offset => i <= Len(bytes)) /\ (i > offset <=> ~(i <= offset))
    BY <1>1
  <2> QED
    BY <2>2, <2>3
<1> HIDE DEF over, n, both
<1>8. \A i \in 1..n : SubSeq(over, 1, n)[i] = both[i]
  BY <1>4, <1>6, <1>7
<1>9. SubSeq(over, 1, n) = both
  BY <1>4, <1>6, <1>8, SeqEqual
<1> QED
  BY <1>3, <1>9 DEF over, n, both

\* a is the beginning of s.
Begins(a, s) == Len(a) <= Len(s) /\ a = SubSeq(s, 1, Len(a))

LEMMA BeginsLonger ==
  ASSUME NEW S, NEW a \in Seq(S), NEW s \in Seq(S), NEW t \in Seq(S), Begins(a, s)
  PROVE  Begins(a, s \o t)
<1>1. /\ Len(a) \in Nat /\ Len(s) \in Nat /\ Len(t) \in Nat /\ Len(a) <= Len(s)
  BY LenProperties DEF Begins
<1>2. /\ s \o t \in Seq(S) /\ Len(s \o t) = Len(s) + Len(t)
      /\ \A i \in 1..Len(s) : (s \o t)[i] = s[i]
  BY <1>1, ConcatProperties
<1>3. /\ Len(a) \in 0..Len(s) /\ Len(a) \in 0..Len(s \o t)
  BY <1>1, <1>2
<1>4. \A i \in 1..Len(a) : a[i] = s[i]
  BY <1>3, Beginning DEF Begins
<1>5. /\ SubSeq(s \o t, 1, Len(a)) \in Seq(S) /\ Len(SubSeq(s \o t, 1, Len(a))) = Len(a)
      /\ \A i \in 1..Len(a) : SubSeq(s \o t, 1, Len(a))[i] = (s \o t)[i]
  BY <1>2, <1>3, Beginning
<1>6. \A i \in 1..Len(a) : a[i] = SubSeq(s \o t, 1, Len(a))[i]
  BY <1>1, <1>2, <1>4, <1>5
<1>7. a = SubSeq(s \o t, 1, Len(a))
  BY <1>5, <1>6, SeqEqual
<1> QED
  BY <1>1, <1>2, <1>7 DEF Begins

LEMMA BeginsWithPart ==
  ASSUME NEW S, NEW s \in Seq(S), NEW t \in Seq(S), NEW n \in 0..Len(t)
  PROVE  Begins(s \o SubSeq(t, 1, n), s \o t)
<1> DEFINE part == SubSeq(t, 1, n)  a == s \o part
<1>1. /\ part \in Seq(S) /\ Len(part) = n /\ \A i \in 1..n : part[i] = t[i]
  BY Beginning
<1>2. Len(s) \in Nat /\ Len(t) \in Nat /\ n \in Nat /\ n <= Len(t)
  BY LenProperties
<1> HIDE DEF part
<1>3. /\ a \in Seq(S) /\ Len(a) = Len(s) + n
      /\ \A i \in 1..Len(s) + n : a[i] = IF i <= Len(s) THEN s[i] ELSE part[i - Len(s)]
  BY <1>1, ConcatProperties
<1>4. /\ s \o t \in Seq(S) /\ Len(s \o t) = Len(s) + Len(t)
      /\ \A i \in 1..Len(s) + Len(t) : (s \o t)[i] = IF i <= Len(s) THEN s[i] ELSE t[i - Len(s)]
  BY ConcatProperties
<1> HIDE DEF a
<1>5. Len(a) \in 0..Len(s \o t)
  BY <1>2, <1>3, <1>4
<1>6. /\ SubSeq(s \o t, 1, Len(a)) \in Seq(S) /\ Len(SubSeq(s \o t, 1, Len(a))) = Len(a)
      /\ \A i \in 1..Len(a) : SubSeq(s \o t, 1, Len(a))[i] = (s \o t)[i]
  BY <1>4, <1>5, Beginning
<1>7. ASSUME NEW i \in 1..Len(a) PROVE a[i] = SubSeq(s \o t, 1, Len(a))[i]
  <2>1. i \in 1..Len(s) + n /\ i \in 1..Len(s) + Len(t)
    BY <1>2, <1>3
  <2>2. CASE i <= Len(s)
    BY <1>3, <1>4, <1>6, <2>1, <2>2
  <2>3. CASE ~(i <= Len(s))
    <3>1. i - Len(s) \in 1..n
      BY <1>2, <2>1, <2>3
    <3> QED
      BY <1>1, <1>3, <1>4, <1>6, <2>1, <2>3, <3>1
  <2> QED
    BY <2>2, <2>3
<1>8. a = SubSeq(s \o t, 1, Len(a))
  BY <1>3, <1>6, <1>7, SeqEqual
<1>9. Begins(a, s \o t)
  BY <1>2, <1>3, <1>4, <1>8 DEF Begins
<1> QED
  BY <1>9 DEF a, part

(***************************************************************************)
(* The invariant of Sink.  A stream that lags behind what it was offered   *)
(* is one that takes nothing any more.                                     *)
(***************************************************************************)

OfMemory(s) ==
  /\ s \in [sink : {"memory"}, bytes : Seq(Char), pos : Nat] /\ s.pos <= Len(s.bytes)
  /\ \A v \in Chunks : Len(s.bytes) + Len(v) <= SizeMax

OfFile(s) ==
  /\ s \in [sink : {"file"}, bytes : Seq(Char), offset : Nat, length : Nat,
            eof : BOOLEAN, mode : Modes]
  /\ s.offset <= Len(s.bytes)

OfSocket(s) == s \in [sink : {"rpc"}, bytes : Seq(Char)]

Stuck == \/ sink.sink = "memory" /\ MemoryAtEOF(sink)
         \/ sink.sink = "file" /\ FileRefusesWrite(sink)

SinkTypes ==
  /\ offered \in Seq(Char) /\ refused \in BOOLEAN /\ short \in BOOLEAN
  /\ OfMemory(sink) \/ OfFile(sink) \/ OfSocket(sink)

Kept ==
  ~short => /\ Begins(Arrived, offered)
            /\ ~refused => Arrived = offered
            /\ Arrived # offered => Stuck

SinkInv == SinkTypes /\ Kept

LEMMA WhatArrived ==
  ASSUME SinkTypes
  PROVE  Arrived \in Seq(Char)
<1>1. CASE OfMemory(sink)
  BY <1>1, Beginning DEF OfMemory, Arrived
<1>2. CASE OfFile(sink)
  <2>1. sink.bytes \in Seq(Char) /\ sink.offset \in 0..Len(sink.bytes) /\ sink.sink = "file"
    BY <1>2, LenProperties DEF OfFile
  <2>2. Arrived = SubSeq(sink.bytes, 1, sink.offset)
    BY <2>1 DEF Arrived
  <2> QED
    BY <2>1, <2>2, Beginning
<1>3. CASE OfSocket(sink)
  BY <1>3 DEF OfSocket, Arrived
<1> QED
  BY <1>1, <1>2, <1>3 DEF SinkTypes

\* A stream that is stuck takes nothing of what follows.
LEMMA StaysBehind ==
  ASSUME SinkInv, Stuck, NEW value \in Seq(Char), sink' = sink, refused' = TRUE,
         short' = short, offered' = offered \o value
  PROVE  Kept'
<1>1. Arrived \in Seq(Char) /\ offered \in Seq(Char)
  BY WhatArrived DEF SinkInv, SinkTypes
<1>2. Arrived' = Arrived /\ Stuck'
  BY DEF Arrived, Stuck
<1>3. ASSUME ~short PROVE Begins(Arrived', offered')
  <2>1. Begins(Arrived, offered)
    BY <1>3 DEF SinkInv, Kept
  <2>2. Begins(Arrived, offered \o value)
    BY <1>1, <2>1, BeginsLonger
  <2> QED
    BY <1>2, <2>2
<1> QED
  BY <1>2, <1>3 DEF Kept

\* One that is not stuck has all that it was offered, and takes more.
LEMMA MovesOn ==
  ASSUME SinkInv, ~Stuck, NEW value \in Seq(Char), NEW n \in 0..Len(value),
         Arrived' = Arrived \o SubSeq(value, 1, n), offered' = offered \o value,
         short \in BOOLEAN, short' \in BOOLEAN, refused' \in BOOLEAN,
         short => short',
         ~short' /\ n < Len(value) => Stuck' /\ refused'
  PROVE  Kept'
<1> SUFFICES ASSUME ~short' PROVE Kept'
  BY DEF Kept
<1>1. offered \in Seq(Char) /\ Arrived = offered
  BY DEF SinkInv, SinkTypes, Kept
<1>2. Begins(Arrived', offered')
  BY <1>1, BeginsWithPart
<1>3. Len(value) \in Nat /\ n \in Nat /\ n <= Len(value)
  BY LenProperties
<1>4. CASE n < Len(value)
  BY <1>2, <1>4 DEF Kept
<1>5. CASE n = Len(value)
<2>1. SubSeq(value, 1, n) = value
    BY <1>5, SubSeqFull
  <2>2. Arrived' = offered'
    BY <1>1, <2>1
  <2> QED
    BY <1>2, <2>2 DEF Kept
<1> QED
  BY <1>3, <1>4, <1>5

\* No position wraps around.
LEMMA Room ==
  ASSUME OfMemory(sink), NEW value \in Chunks
  PROVE  /\ MemoryRefuses(sink, Len(value)) <=> MemoryAtEOF(sink)
         /\ actualLen(sink, Len(value)) \in 0..Len(value)
         /\ sink.pos + actualLen(sink, Len(value)) <= Len(sink.bytes)
         /\ actualLen(sink, Len(value)) < Len(value) =>
              sink.pos + actualLen(sink, Len(value)) = Len(sink.bytes)
<1>1. value \in Seq(Char)
  BY SinkAssumption
<1>2. /\ sink.pos \in Nat /\ Len(sink.bytes) \in Nat /\ Len(value) \in Nat /\ SizeMax \in Nat
      /\ sink.pos <= Len(sink.bytes) /\ Len(sink.bytes) + Len(value) <= SizeMax
  BY <1>1, SizeAssumption, LenProperties DEF OfMemory
<1>3. /\ sink.pos \in 0..SizeMax /\ Len(value) \in 0..SizeMax
      /\ sink.pos + Len(value) <= SizeMax
  BY <1>2
<1>4. MemoryEnd(sink, Len(value)) = sink.pos + Len(value)
  BY <1>3, WrappedSum DEF MemoryEnd
<1>5. ~(MemoryEnd(sink, Len(value)) < sink.pos)
  BY <1>2, <1>4
<1>6. actualLen(sink, Len(value)) = IF sink.pos + Len(value) > Len(sink.bytes)
                                    THEN Len(sink.bytes) - sink.pos ELSE Len(value)
  BY <1>4 DEF actualLen
<1> QED
  BY <1>2, <1>5, <1>6 DEF MemoryRefuses

LEMMA MemoryTakes ==
  ASSUME SinkInv, OfMemory(sink), NEW value \in Chunks, WriteToMemory(value),
         offered' = offered \o value
  PROVE  SinkInv'
<1> DEFINE n == actualLen(sink, Len(value))  part == SubSeq(value, 1, n)
           over == Overlay(sink.bytes, sink.pos, part)
<1>1. /\ value \in Seq(Char) /\ Zero \in Char /\ Len(value) \in Nat
      /\ offered \in Seq(Char) /\ refused \in BOOLEAN /\ short \in BOOLEAN
  BY SinkAssumption, LenProperties DEF SinkInv, SinkTypes
<1>2. /\ sink.sink = "memory" /\ sink.bytes \in Seq(Char) /\ sink.pos \in 0..Len(sink.bytes)
      /\ Len(sink.bytes) \in Nat
  BY LenProperties DEF OfMemory
<1>3. /\ MemoryRefuses(sink, Len(value)) <=> MemoryAtEOF(sink)
      /\ n \in 0..Len(value) /\ sink.pos + n <= Len(sink.bytes)
      /\ n < Len(value) => sink.pos + n = Len(sink.bytes)
  BY Room
<1>4. /\ sink' = MemoryWrite(sink, value)
      /\ refused' = (refused \/ MemoryRefuses(sink, Len(value)) \/ n < Len(value))
      /\ short' = short
  BY DEF WriteToMemory
<1>5. /\ offered' \in Seq(Char) /\ refused' \in BOOLEAN /\ short' \in BOOLEAN
  BY <1>1, <1>4, ConcatProperties
<1>6. CASE MemoryAtEOF(sink)
  <2>1. sink' = sink /\ refused' = TRUE
    BY <1>3, <1>4, <1>6 DEF MemoryWrite
  <2>2. Stuck
    BY <1>2, <1>6 DEF Stuck
  <2>3. Kept'
    BY <1>1, <1>4, <2>1, <2>2, StaysBehind
  <2>4. OfMemory(sink')
    BY <2>1
  <2> QED
    BY <1>5, <2>3, <2>4 DEF SinkInv, SinkTypes
<1>7. CASE ~MemoryAtEOF(sink)
  <2>1. part \in Seq(Char) /\ Len(part) = n
    BY <1>1, <1>3, Beginning
  <2>2. sink' = [sink EXCEPT !.bytes = over, !.pos = @ + n]
    BY <1>3, <1>4, <1>7 DEF MemoryWrite
  <2> HIDE DEF n, part
  <2>3. /\ over \in Seq(Char)
        /\ Len(over) = IF sink.pos + Len(part) > Len(sink.bytes) THEN sink.pos + Len(part)
                       ELSE Len(sink.bytes)
    BY <1>1, <1>2, <2>1, OverlayLength
  <2>4. Len(over) = Len(sink.bytes)
    BY <1>2, <1>3, <2>1, <2>3
  <2>5. SubSeq(over, 1, sink.pos + n) = SubSeq(sink.bytes, 1, sink.pos) \o part
    BY <1>1, <1>2, <2>1, OverlayBeginning
  <2> HIDE DEF over
  <2>6. /\ sink' \in [sink : {"memory"}, bytes : Seq(Char), pos : Nat]
        /\ sink'.sink = "memory" /\ sink'.bytes = over /\ sink'.pos = sink.pos + n
    <3>1. sink \in [sink : {"memory"}, bytes : Seq(Char), pos : Nat]
      BY DEF OfMemory
    <3>2. sink.pos + n \in Nat
      BY <1>1, <1>2, <1>3
    <3> QED
      BY <2>2, <2>3, <3>1, <3>2
  <2>7. OfMemory(sink')
    BY <1>3, <2>4, <2>6 DEF OfMemory
  <2>8. Arrived' = Arrived \o part
    BY <1>2, <2>5, <2>6 DEF Arrived
  <2>9. n < Len(value) => Stuck' /\ refused'
    BY <1>3, <1>4, <2>4, <2>6 DEF Stuck, MemoryAtEOF, n
  <2>10. ~Stuck
    BY <1>2, <1>7 DEF Stuck
  <2>11. Arrived' = Arrived \o SubSeq(value, 1, n)
    BY <2>8 DEF part
  <2>12. Kept'
    BY <1>1, <1>3, <1>4, <1>5, <2>9, <2>10, <2>11, MovesOn DEF n
  <2> QED
    BY <1>5, <2>7, <2>12 DEF SinkInv, SinkTypes
<1> QED
  BY <1>6, <1>7

LEMMA FileTakes ==
  ASSUME SinkInv, OfFile(sink), NEW value \in Chunks, WriteToFile(value),
         offered' = offered \o value
  PROVE  SinkInv'
<1>1. /\ value \in Seq(Char) /\ Zero \in Char /\ Len(value) \in Nat
      /\ offered \in Seq(Char) /\ refused \in BOOLEAN /\ short \in BOOLEAN
  BY SinkAssumption, LenProperties DEF SinkInv, SinkTypes
<1>2. /\ sink.sink = "file" /\ sink.bytes \in Seq(Char) /\ sink.offset \in 0..Len(sink.bytes)
      /\ Len(sink.bytes) \in Nat
  BY LenProperties DEF OfFile
<1>3. offered' \in Seq(Char)
  BY <1>1, ConcatProperties
<1>4. CASE FileRefusesWrite(sink)
  <2>1. sink' = sink /\ refused' = TRUE /\ short' = short
    BY <1>4 DEF WriteToFile
  <2>2. Stuck
    BY <1>2, <1>4 DEF Stuck
  <2>3. Kept'
    BY <1>1, <2>1, <2>2, StaysBehind
  <2> QED
    BY <1>1, <1>3, <2>1, <2>3 DEF SinkInv, SinkTypes
<1>5. CASE ~FileRefusesWrite(sink)
  <2>1. PICK n \in IF Healthy \/ value = <<>> THEN {Len(value)} ELSE 1..Len(value) :
          /\ sink' = FileWrite(sink, SubSeq(value, 1, n))
          /\ refused' = (refused \/ value = <<>>)
          /\ short' = (short \/ n < Len(value))
    BY <1>5 DEF WriteToFile
  <2> DEFINE part == SubSeq(value, 1, n)  over == Overlay(sink.bytes, sink.offset, part)
             bytes == IF part = <<>> THEN sink.bytes ELSE over
  <2>2. n \in 0..Len(value)
    BY <1>1, <2>1
  <2>3. part \in Seq(Char) /\ Len(part) = n
    BY <1>1, <2>2, Beginning
  <2>4. sink' = [sink EXCEPT !.bytes = bytes, !.offset = @ + Len(part),
                             !.length = sink.offset + Len(part), !.eof = part = <<>>]
    BY <2>1 DEF FileWrite
  <2> HIDE DEF part
  <2>5. /\ sink.offset + Len(part) \in 0..Len(over) /\ over \in Seq(Char)
        /\ SubSeq(over, 1, sink.offset + Len(part)) = SubSeq(sink.bytes, 1, sink.offset) \o part
    <3>1. over \in Seq(Char)
      BY <1>1, <1>2, <2>3, OverlayLength
    <3>2. /\ sink.offset + Len(part) \in 0..Len(over)
          /\ SubSeq(over, 1, sink.offset + Len(part)) = SubSeq(sink.bytes, 1, sink.offset) \o part
      BY <1>1, <1>2, <2>3, OverlayBeginning
    <3> QED
      BY <3>1, <3>2
  <2>6. /\ sink.offset + n \in 0..Len(bytes) /\ bytes \in Seq(Char)
        /\ SubSeq(bytes, 1, sink.offset + n) = SubSeq(sink.bytes, 1, sink.offset) \o part
    <3>1. CASE part = <<>>
      <4>1. n = 0 /\ sink.offset + n = sink.offset /\ bytes = sink.bytes
        BY <1>2, <2>3, <3>1
      <4>2. SubSeq(sink.bytes, 1, sink.offset) \in Seq(Char)
        BY <1>2, Beginning
      <4>3. SubSeq(sink.bytes, 1, sink.offset) \o part = SubSeq(sink.bytes, 1, sink.offset)
        BY <3>1, <4>2, ConcatEmptySeq
      <4> QED
        BY <1>2, <4>1, <4>3
    <3>2. CASE part # <<>>
      <4>1. bytes = over
        BY <3>2
      <4> HIDE DEF bytes, over
      <4> QED
        BY <2>3, <2>5, <4>1
    <3> QED
      BY <3>1, <3>2
  <2> HIDE DEF bytes, over
  <2>7. /\ sink' \in [sink : {"file"}, bytes : Seq(Char), offset : Nat, length : Nat,
                      eof : BOOLEAN, mode : Modes]
        /\ sink'.sink = "file" /\ sink'.bytes = bytes /\ sink'.offset = sink.offset + n
    <3>1. sink.offset + n \in Nat /\ (part = <<>>) \in BOOLEAN
      BY <2>6
    <3>2. sink \in [sink : {"file"}, bytes : Seq(Char), offset : Nat, length : Nat,
                    eof : BOOLEAN, mode : Modes]
      BY DEF OfFile
    <3> QED
      BY <2>3, <2>4, <2>6, <3>1, <3>2
  <2>8. OfFile(sink')
    BY <2>6, <2>7 DEF OfFile
  <2>9. Arrived' = Arrived \o part
    BY <1>2, <2>6, <2>7 DEF Arrived
  <2>10. ~Stuck
    BY <1>2, <1>5 DEF Stuck
  <2>11. Arrived' = Arrived \o SubSeq(value, 1, n)
    BY <2>9 DEF part
  <2>12. refused' \in BOOLEAN /\ short' \in BOOLEAN /\ (short => short')
         /\ (n < Len(value) => short')
    BY <2>1
  <2>13. Kept'
    BY <1>1, <2>2, <2>10, <2>11, <2>12, MovesOn
  <2> QED
    BY <1>3, <2>8, <2>12, <2>13 DEF SinkInv, SinkTypes
<1> QED
  BY <1>4, <1>5

\* A socket is never stuck, and takes all.
LEMMA SocketTakes ==
  ASSUME SinkInv, OfSocket(sink), NEW value \in Seq(Char),
         sink' = [sink EXCEPT !.bytes = @ \o value],
         refused' = refused, short' = short, offered' = offered \o value
  PROVE  SinkInv'
<1>1. /\ sink.sink = "rpc" /\ sink.bytes \in Seq(Char)
      /\ offered \in Seq(Char) /\ refused \in BOOLEAN /\ short \in BOOLEAN
  BY DEF OfSocket, SinkInv, SinkTypes
<1>2. sink.bytes \o value \in Seq(Char) /\ offered' \in Seq(Char)
  BY <1>1, ConcatProperties
<1>3. /\ sink' \in [sink : {"rpc"}, bytes : Seq(Char)]
      /\ sink'.sink = "rpc" /\ sink'.bytes = sink.bytes \o value
  BY <1>1, <1>2 DEF OfSocket
<1>4. Arrived = sink.bytes /\ Arrived' = Arrived \o value /\ ~Stuck
  BY <1>1, <1>3 DEF Arrived, Stuck
<1>5. Len(value) \in 0..Len(value) /\ ~(Len(value) < Len(value))
  BY LenProperties
<1>6. SubSeq(value, 1, Len(value)) = value
  BY SubSeqFull
<1>7. Arrived' = Arrived \o SubSeq(value, 1, Len(value))
  BY <1>4, <1>6
<1>8. Kept'
  BY <1>1, <1>4, <1>5, <1>7, MovesOn
<1> QED
  BY <1>1, <1>2, <1>3, <1>8 DEF SinkInv, SinkTypes, OfSocket

LEMMA SinkInvHolds == SinkSpec => []SinkInv
<1>1. SinkInit => SinkInv
  <2> SUFFICES ASSUME SinkInit PROVE SinkInv
    OBVIOUS
  <2>1. /\ sink \in Sinks /\ refused = FALSE /\ short = FALSE /\ offered = <<>>
        /\ sink.bytes \in Seq(Char) /\ Len(sink.bytes) \in Nat /\ offered \in Seq(Char)
    <3>1. sink \in Sinks /\ refused = FALSE /\ short = FALSE /\ offered = <<>>
      BY DEF SinkInit
    <3>2. sink.bytes \in Seq(Char)
      BY <3>1, SinkAssumption
    <3> QED
      BY <3>1, <3>2, LenProperties, EmptySeq
  <2>2. SubSeq(sink.bytes, 1, 0) = <<>>
    BY <2>1, Beginning, EmptySeq
  <2>3. Begins(offered, offered)
    BY <2>1, <2>2, Beginning, EmptySeq DEF Begins
  <2>4. CASE sink = OpenMemory(sink.bytes) /\ \A v \in Chunks : Len(sink.bytes) + Len(v) <= SizeMax
    <3>1. /\ sink \in [sink : {"memory"}, bytes : Seq(Char), pos : Nat]
          /\ sink.sink = "memory" /\ sink.pos = 0
      BY <2>1, <2>4 DEF OpenMemory
    <3>2. OfMemory(sink)
      BY <2>1, <2>4, <3>1 DEF OfMemory
    <3>3. Arrived = offered
      BY <2>1, <2>2, <3>1 DEF Arrived
    <3> QED
      BY <2>1, <2>3, <3>2, <3>3 DEF SinkInv, SinkTypes, Kept
  <2>5. ASSUME NEW mode \in Modes, sink = OpenFile(sink.bytes, mode) PROVE SinkInv
    <3> DEFINE bytes == sink.bytes
    <3>1. bytes \in Seq(Char) /\ Len(bytes) \in Nat /\ sink = OpenFile(bytes, mode)
      BY <2>1, <2>5
    <3> HIDE DEF bytes
    <3>2. OpenFile(bytes, mode) \in [sink : {"file"}, bytes : Seq(Char), offset : Nat,
                                    length : Nat, eof : BOOLEAN, mode : Modes]
      BY <3>1 DEF OpenFile
    <3>3. /\ sink \in [sink : {"file"}, bytes : Seq(Char), offset : Nat, length : Nat,
                       eof : BOOLEAN, mode : Modes]
          /\ sink.sink = "file" /\ sink.offset = 0
      BY <3>1, <3>2 DEF OpenFile
    <3>4. OfFile(sink)
      BY <2>1, <3>3 DEF OfFile
    <3>5. Arrived = offered
      BY <2>1, <2>2, <3>3 DEF Arrived
    <3> QED
      BY <2>1, <2>3, <3>4, <3>5 DEF SinkInv, SinkTypes, Kept
  <2>6. CASE sink = OpenSocket
    <3>1. sink.sink = "rpc" /\ sink.bytes = <<>> /\ OfSocket(sink)
      BY <2>6, EmptySeq DEF OpenSocket, OfSocket
    <3>2. Arrived = offered
      BY <2>1, <3>1 DEF Arrived
    <3> QED
      BY <2>1, <2>3, <3>1, <3>2 DEF SinkInv, SinkTypes, Kept
  <2> QED
    BY <2>1, <2>4, <2>5, <2>6, SinkAssumption
<1>2. SinkInv /\ [SinkNext]_sinkVars => SinkInv'
  <2> SUFFICES ASSUME SinkInv, [SinkNext]_sinkVars PROVE SinkInv'
    OBVIOUS
  <2>1. ASSUME NEW value \in Chunks, Offer(value) PROVE SinkInv'
    <3>1. offered' = offered \o value /\ value \in Seq(Char)
      BY <2>1, SinkAssumption DEF Offer
    <3>2. CASE WriteToMemory(value)
      <4>1. OfMemory(sink)
        BY <3>2 DEF WriteToMemory, SinkInv, SinkTypes, OfFile, OfSocket
      <4> QED
        BY <3>1, <3>2, <4>1, MemoryTakes
    <3>3. CASE WriteToFile(value)
      <4>1. OfFile(sink)
        BY <3>3 DEF WriteToFile, SinkInv, SinkTypes, OfMemory, OfSocket
      <4> QED
        BY <3>1, <3>3, <4>1, FileTakes
    <3>4. CASE WriteToSocket(value)
      <4>1. OfSocket(sink)
        BY <3>4 DEF WriteToSocket, SinkInv, SinkTypes, OfMemory, OfFile
      <4> QED
        BY <3>1, <3>4, <4>1, SocketTakes DEF WriteToSocket
    <3> QED
      BY <2>1, <3>2, <3>3, <3>4 DEF Offer
  <2>2. ASSUME UNCHANGED sinkVars PROVE SinkInv'
    BY <2>2 DEF sinkVars, SinkInv, SinkTypes, Kept, Arrived, Stuck
  <2>3. CASE writeSync
    <3>1. CASE sink.sink = "rpc"
      <4>1. OfSocket(sink)
        BY <3>1 DEF SinkInv, SinkTypes, OfMemory, OfFile
      <4>2. /\ sink.bytes \in Seq(Char) /\ offered \in Seq(Char) /\ "newline" \in Char
        BY <4>1 DEF OfSocket, SinkInv, SinkTypes, Char, WhiteSpace
      <4>3. /\ <<"newline">> \in Seq(Char)
            /\ Append(sink.bytes, "newline") = sink.bytes \o <<"newline">>
            /\ Append(offered, "newline") = offered \o <<"newline">>
        BY <4>2, AppendIsConcat
      <4>4. /\ sink' = [sink EXCEPT !.bytes = @ \o <<"newline">>]
            /\ offered' = offered \o <<"newline">>
            /\ refused' = refused /\ short' = short
        BY <2>3, <3>1, <4>3 DEF writeSync
      <4> QED
        BY <4>1, <4>3, <4>4, SocketTakes
    <3>2. CASE sink.sink # "rpc"
      BY <2>2, <2>3, <3>2 DEF writeSync, sinkVars
    <3> QED
      BY <3>1, <3>2
  <2> QED
    BY <2>1, <2>2, <2>3 DEF SinkNext
<1> QED
  BY <1>1, <1>2, PTL DEF SinkSpec

\* Whatever the calls, and whatever they answer: what arrives in an array, in
\* a file or on a socket is a beginning of what was offered, without a hole,
\* and all of it as long as no write answered false (stream_t::write).
THEOREM NothingIsMissingInside == SinkSpec => []NoHoles
<1>1. SinkInv => NoHoles
  BY DEF SinkInv, Kept, Begins, NoHoles
<1> QED
  BY <1>1, SinkInvHolds, PTL
=============================================================================
