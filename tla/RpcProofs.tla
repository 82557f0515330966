----------------------------- MODULE RpcProofs -----------------------------
(***************************************************************************)
(* Theorems about RpcStream for every length of the buffer and of the      *)
(* values written, and every socket.                                       *)
(***************************************************************************)
EXTENDS RpcStream, SequenceTheorems, TLAPS

(***************************************************************************)
(* The invariant.  sent is the number of copied bytes that have left the   *)
(* buffer, taken by the socket or dropped: the buffer holds the bytes      *)
(* after it, the wire some of those up to it.                              *)
(***************************************************************************)
sent == given - pos

BufferOK == pos <= given /\ \A i \in 1..pos : buffer[i] = sent + i
WireOK   == /\ \A i \in 1..Len(wire) : wire[i] <= sent
            /\ NeverReorders
            /\ ~cut => Len(wire) = sent /\ \A i \in 1..Len(wire) : wire[i] = i
CallOK   == /\ call = "flush" => pos = BufferLen
            /\ call = "sync" => syncing
            /\ call = "idle" => ~syncing

(***************************************************************************)
(* The newline of writeSync() has been copied when its write() returns,    *)
(* unless an error came first.  Once copied it is the last byte in the     *)
(* buffer, or, when that is empty and nothing was cut, the last byte out.  *)
(***************************************************************************)
NewlineCopied == given \in newlines /\ (pos = 0 /\ ~cutInCall => NewestIsOut)
EndOK == /\ syncing => /\ toWrite <= 1 /\ result # "void"
                       /\ toWrite = 0 => NewlineCopied
                       /\ call = "sync" /\ ~failedInCall => toWrite = 0
         /\ result = "void" => /\ call = "idle" /\ pos = 0
                               /\ ~failedInCall => NewlineCopied

RpcInv == TypeOK /\ BufferOK /\ WireOK /\ CallOK /\ EndOK

LEMMA InitInv == Init => RpcInv
<1> SUFFICES ASSUME Init PROVE RpcInv
  OBVIOUS
<1>1. <<>> \in Seq(Nat) /\ Len(<<>>) = 0 /\ DOMAIN <<>> = {}
  BY SMT
<1>2. BufferLen \in Nat \ {0}
  BY RpcAssumption
<1>3. pos = 0 /\ sent = 0 /\ Len(wire) = 0
  <2>1. pos = 0 /\ Len(wire) = 0
    BY <1>1 DEF Init, pos
  <2>2. given = 0
    BY DEF Init
  <2> QED
    BY <2>1, <2>2, SMT DEF sent
<1>4. TypeOK
  <2>1. pos <= BufferLen
    BY <1>2, <1>3, SMT
  <2> QED
    BY <1>1, <2>1 DEF Init, TypeOK
<1>5. BufferOK /\ WireOK
  <2>1. 1..0 = {} /\ 0 <= given
    BY SMT DEF Init
  <2> QED
    BY <1>1, <1>3, <2>1 DEF Init, BufferOK, WireOK, NeverReorders
<1>6. CallOK /\ EndOK
  BY DEF Init, CallOK, EndOK
<1> QED
  BY <1>4, <1>5, <1>6 DEF RpcInv

(***************************************************************************)
(* The two things a step does to the bytes.                                *)
(***************************************************************************)

\* write() copies the next length bytes behind those in the buffer.
LEMMA CopyBytes ==
  ASSUME RpcInv, NEW length \in Nat, pos + length <= BufferLen,
         buffer' = buffer \o [i \in 1..length |-> given + i], given' = given + length,
         UNCHANGED <<wire, cut>>
  PROVE  /\ buffer' \in Seq(Nat) /\ pos' = pos + length /\ sent' = sent
         /\ BufferOK' /\ WireOK'
<1> DEFINE new == [i \in 1..length |-> given + i]
<1>1. /\ given \in Nat /\ buffer \in Seq(Nat) /\ wire \in Seq(Nat) /\ pos \in Nat /\ pos <= given
      /\ \A i \in 1..pos : buffer[i] = given - pos + i
  BY LenProperties, SMT DEF RpcInv, TypeOK, BufferOK, pos, sent
<1>2. new \in Seq(Nat) /\ Len(new) = length /\ \A i \in 1..length : new[i] = given + i
  <2>1. \A i \in 1..length : given + i \in Nat
    BY <1>1, SMT
  <2>2. new \in [1..length -> Nat]
    BY <2>1
  <2> QED
    BY <2>2, LenProperties, SMT
<1> HIDE DEF new
<1>3. buffer' = buffer \o new
  BY DEF new
<1>4. /\ buffer \o new \in Seq(Nat) /\ Len(buffer \o new) = pos + length
      /\ \A i \in 1..pos + length :
           (buffer \o new)[i] = IF i <= pos THEN buffer[i] ELSE new[i - pos]
  BY <1>1, <1>2, ConcatProperties DEF pos
<1>5. pos' = pos + length /\ sent' = sent /\ sent = given - pos
  BY <1>1, <1>3, <1>4, SMT DEF pos, sent
<1>6. ASSUME NEW i \in 1..pos + length
      PROVE  buffer'[i] = given - pos + i
  <2>1. buffer'[i] = IF i <= pos THEN buffer[i] ELSE new[i - pos]
    BY <1>3, <1>4
  <2>2. CASE i <= pos
    <3>1. i \in 1..pos
      BY <1>1, <2>2, SMT
    <3> QED
      BY <1>1, <2>1, <2>2, <3>1
  <2>3. CASE ~(i <= pos)
    <3>1. i - pos \in 1..length /\ given + (i - pos) = given - pos + i
      BY <1>1, <2>3, SMT
    <3> QED
      BY <1>2, <2>1, <2>3, <3>1
  <2> QED
    BY <2>2, <2>3
<1>7. BufferOK'
  <2>1. pos' <= given'
    BY <1>1, <1>5, SMT
  <2>2. \A i \in 1..pos' : buffer'[i] = sent' + i
    BY <1>5, <1>6
  <2> QED
    BY <2>1, <2>2 DEF BufferOK
<1>8. WireOK'
  <2>1. wire' = wire /\ cut' = cut /\ sent' = sent
    BY <1>5
  <2> QED
    BY <2>1 DEF RpcInv, WireOK, NeverReorders
<1>9. buffer' \in Seq(Nat)
  BY <1>3, <1>4
<1> QED
  BY <1>5, <1>7, <1>8, <1>9

\* The socket takes the first n bytes of the buffer, which is then empty.
LEMMA HandOverBytes ==
  ASSUME RpcInv, NEW n \in Nat, n <= pos, HandOver(n)
  PROVE  /\ wire' \in Seq(Nat) /\ buffer' \in Seq(Nat) /\ pos' = 0
         /\ BufferOK' /\ WireOK' /\ cut' \in BOOLEAN /\ cutInCall' \in BOOLEAN
         /\ (pos > 0 /\ ~cutInCall') => NewestIsOut'
<1> DEFINE first == SubSeq(buffer, 1, n)
<1>1. /\ given \in Nat /\ buffer \in Seq(Nat) /\ wire \in Seq(Nat) /\ pos \in Nat /\ pos <= given
      /\ Len(wire) \in Nat /\ \A i \in 1..pos : buffer[i] = given - pos + i
  BY LenProperties, SMT DEF RpcInv, TypeOK, BufferOK, pos, sent
<1>2. first \in Seq(Nat) /\ Len(first) = n /\ \A i \in 1..n : first[i] = given - pos + i
  <2>1. first \in Seq(Nat) /\ Len(first) = n /\ \A i \in 1..n : first[i] = buffer[i]
    BY <1>1, SMT DEF pos
  <2> QED
    BY <1>1, <2>1, SMT
<1> HIDE DEF first
<1>3. wire' = wire \o first /\ buffer' = <<>> /\ given' = given
  BY DEF HandOver, first
<1>4. /\ wire \o first \in Seq(Nat) /\ Len(wire \o first) = Len(wire) + n
      /\ \A i \in 1..Len(wire) + n :
           (wire \o first)[i] = IF i <= Len(wire) THEN wire[i] ELSE first[i - Len(wire)]
  BY <1>1, <1>2, ConcatProperties
<1>5. pos' = 0 /\ sent' = given /\ buffer' \in Seq(Nat)
  BY <1>1, <1>3, SMT DEF pos, sent
<1>6. BufferOK'
  BY <1>1, <1>3, <1>5, SMT DEF BufferOK
<1>7. \A i \in 1..Len(wire) + n :
        wire'[i] = IF i <= Len(wire) THEN wire[i] ELSE given - pos + (i - Len(wire))
  BY <1>1, <1>2, <1>3, <1>4, SMT
<1>8. Len(wire') = Len(wire) + n /\ DOMAIN wire' = 1..Len(wire) + n /\ DOMAIN wire = 1..Len(wire)
  BY <1>1, <1>3, <1>4, LenProperties
<1>9. \A i \in 1..Len(wire) : wire[i] \in Nat /\ wire[i] <= given - pos
  BY <1>1, ElementOfSeq DEF RpcInv, WireOK, sent
<1>10. ASSUME NEW i \in 1..Len(wire')
       PROVE  wire'[i] <= sent'
  <2>1. i \in 1..Len(wire) + n
    BY <1>8
  <2>2. CASE i <= Len(wire)
    <3>1. i \in 1..Len(wire)
      BY <1>1, <2>1, <2>2, SMT
    <3>2. wire'[i] = wire[i] /\ wire[i] \in Nat /\ wire[i] <= given - pos
      BY <1>7, <1>9, <2>1, <2>2, <3>1
    <3> QED
      BY <1>1, <1>5, <3>2, SMT
  <2>3. CASE ~(i <= Len(wire))
    <3>1. wire'[i] = given - pos + (i - Len(wire))
      BY <1>7, <2>1, <2>3
    <3> QED
      BY <1>1, <1>5, <2>1, <3>1, SMT
  <2> QED
    BY <2>2, <2>3
<1>11. NeverReorders'
  <2>1. \A i, j \in 1..Len(wire) : i < j => wire[i] < wire[j]
    BY <1>8 DEF RpcInv, WireOK, NeverReorders
  <2> QED
    BY <1>1, <1>7, <1>8, <1>9, <2>1, SMT DEF NeverReorders
<1>12. ~cut' => Len(wire') = sent' /\ \A i \in 1..Len(wire') : wire'[i] = i
  <2> SUFFICES ASSUME ~cut' PROVE Len(wire') = sent' /\ \A i \in 1..Len(wire') : wire'[i] = i
    OBVIOUS
  <2>1. ~cut /\ ~(n < pos)
    BY DEF HandOver
  <2>2. n = pos
    BY <1>1, <2>1, SMT
  <2>3. Len(wire) = given - pos /\ \A i \in 1..Len(wire) : wire[i] = i
    BY <2>1 DEF RpcInv, WireOK, sent
  <2> QED
    BY <1>1, <1>5, <1>7, <1>8, <2>2, <2>3, SMT
<1>13. WireOK'
  BY <1>10, <1>11, <1>12 DEF WireOK
<1>14. cut' \in BOOLEAN /\ cutInCall' \in BOOLEAN
  BY DEF HandOver
<1>15. wire' \in Seq(Nat)
  BY <1>3, <1>4
<1>16. ASSUME pos > 0, ~cutInCall'
       PROVE  NewestIsOut'
  <2>1. n = pos
    <3>1. ~(n < pos)
      BY <1>16 DEF HandOver
    <3> QED
      BY <1>1, <3>1, SMT
  <2>2. /\ Len(wire') \in 1..Len(wire) + n /\ ~(Len(wire') <= Len(wire))
        /\ given - pos + (Len(wire') - Len(wire)) = given
    BY <1>1, <1>8, <1>16, <2>1, SMT
  <2>3. wire'[Len(wire')] = given'
    BY <1>3, <1>7, <2>2
  <2>4. wire' # <<>>
    <3>1. Len(wire') # 0 /\ Len(<<>>) = 0
      BY <1>1, <2>2, SMT
    <3> QED
      BY <3>1
  <2> QED
    BY <2>3, <2>4 DEF NewestIsOut
<1> QED
  BY <1>5, <1>6, <1>13, <1>14, <1>15, <1>16

(***************************************************************************)
(* The invariant is kept.                                                  *)
(***************************************************************************)

\* The values a step gives to what is neither bytes nor their bookkeeping.
ControlOK ==
  /\ open \in BOOLEAN /\ syncing \in BOOLEAN
  /\ call \in {"idle", "copy", "flush", "sync"}
  /\ valueLen \in Nat /\ toWrite \in Nat /\ written \in Nat
  /\ result \in {"none", "true", "false", "void"}

BytesOK ==
  /\ cut \in BOOLEAN /\ cutInCall \in BOOLEAN /\ failedInCall \in BOOLEAN
  /\ buffer \in Seq(Nat) /\ pos <= BufferLen /\ wire \in Seq(Nat)
  /\ given \in Nat /\ newlines \subseteq 1..given

LEMMA InvParts ==
  /\ RpcInv <=> ControlOK /\ BytesOK /\ BufferOK /\ WireOK /\ CallOK /\ EndOK
  /\ RpcInv' <=> ControlOK' /\ BytesOK' /\ BufferOK' /\ WireOK' /\ CallOK' /\ EndOK'
BY DEF RpcInv, TypeOK, ControlOK, BytesOK

\* A step that leaves the bytes alone need only keep the control state.
LEMMA BytesKept ==
  ASSUME RpcInv, UNCHANGED <<buffer, wire, given, newlines, cut>>,
         cutInCall' \in BOOLEAN, failedInCall' \in BOOLEAN
  PROVE  BytesOK' /\ BufferOK' /\ WireOK' /\ pos' = pos
<1>1. /\ buffer' = buffer /\ wire' = wire /\ given' = given /\ newlines' = newlines
      /\ cut' = cut
  OBVIOUS
<1>2. pos' = pos /\ sent' = sent
  BY <1>1 DEF pos, sent
<1> QED
  BY <1>1, <1>2, InvParts DEF BytesOK, BufferOK, WireOK, NeverReorders

\* Such a step does not move the end of a message either.
LEMMA NewlineKept ==
  ASSUME UNCHANGED <<buffer, wire, given, newlines, cutInCall>>
  PROVE  NewlineCopied' = NewlineCopied
BY DEF NewlineCopied, NewestIsOut, pos

\* What write() does to the control state when it returns.
LEMMA ReturnControl ==
  ASSUME RpcInv, NEW value \in BOOLEAN, Return(value), UNCHANGED <<open, syncing, locals>>
  PROVE  /\ ControlOK' /\ call' # "flush"
         /\ call' = "sync" => syncing'
         /\ call' = "idle" => ~syncing'
BY InvParts DEF Return, ControlOK, locals

LEMMA CopyInv ==
  ASSUME RpcInv, Copy
  PROVE  RpcInv'
<1> DEFINE length == chunk
<1>1. /\ BufferLen \in Nat \ {0} /\ pos \in Nat /\ pos <= BufferLen
      /\ toWrite \in Nat /\ toWrite > 0 /\ given \in Nat /\ newlines \subseteq 1..given
      /\ written \in Nat
  BY RpcAssumption, LenProperties, SMT DEF RpcInv, TypeOK, Copy, pos
<1>2. /\ length \in Nat /\ pos + length <= BufferLen /\ toWrite - length \in Nat
      /\ pos < BufferLen => length > 0
  BY <1>1, SMT DEF chunk, Min2
<1>3. /\ buffer' = buffer \o [i \in 1..length |-> given + i]
      /\ given' = given + length /\ toWrite' = toWrite - length
      /\ wire' = wire /\ cut' = cut
      /\ cutInCall' = cutInCall /\ failedInCall' = failedInCall
      /\ open' = open /\ syncing' = syncing /\ valueLen' = valueLen /\ result' = result
      /\ newlines' = IF syncing /\ length = 1 THEN newlines \cup {given + 1} ELSE newlines
      /\ IF pos + length = BufferLen
         THEN call' = "flush" /\ written' = written
         ELSE written' = written + length /\ call' = call
  BY DEF Copy
<1> HIDE DEF length
<1>4. /\ buffer' \in Seq(Nat) /\ pos' = pos + length
      /\ BufferOK' /\ WireOK'
  BY <1>2, <1>3, CopyBytes
<1>5. given' \in Nat /\ newlines' \subseteq 1..given'
  <2>1. 1..given \subseteq 1..given + length /\ given + length \in Nat
        /\ (length = 1 => given + 1 \in 1..given + length)
    BY <1>1, <1>2, SMT
  <2> QED
    BY <1>1, <1>3, <2>1
<1>6. BytesOK'
  <2>1. pos' <= BufferLen
    BY <1>2, <1>4
  <2> QED
    BY <1>3, <1>4, <1>5, <2>1, InvParts DEF BytesOK
<1>7. ControlOK'
  <2>1. written' \in Nat
    BY <1>1, <1>2, <1>3, SMT
  <2>2. call' \in {"idle", "copy", "flush", "sync"}
    BY <1>3, InvParts DEF ControlOK
  <2> QED
    BY <1>2, <1>3, <2>1, <2>2, InvParts DEF ControlOK
<1>8. CallOK'
  <2>1. call = "copy"
    BY DEF Copy
  <2>2. call' = "flush" => pos' = BufferLen
    BY <1>3, <1>4, <2>1
  <2>3. call' # "sync" /\ call' # "idle"
    BY <1>3, <2>1
  <2> QED
    BY <2>2, <2>3 DEF CallOK
<1>9. EndOK'
  <2>1. result' # "void"
    BY <1>3, InvParts DEF Copy, EndOK
  <2>2. ASSUME syncing'
        PROVE  toWrite' <= 1 /\ (toWrite' = 0 => NewlineCopied')
    <3>1. syncing /\ toWrite = 1
      BY <1>1, <1>3, <2>2, InvParts, SMT DEF EndOK
    <3>2. toWrite' = 1 - length /\ 1 - length <= 1
      BY <1>2, <1>3, <3>1, SMT
    <3>3. ASSUME toWrite' = 0
          PROVE  NewlineCopied'
      <4>1. length = 1
        BY <1>2, <3>2, <3>3, SMT
      <4>2. pos' # 0
        BY <1>1, <1>4, <4>1, SMT
      <4>3. given' \in newlines'
        BY <1>3, <3>1, <4>1
      <4> QED
        BY <4>2, <4>3 DEF NewlineCopied
    <3> QED
      BY <3>2, <3>3
  <2>3. call' # "sync"
    BY <1>3 DEF Copy
  <2> QED
    BY <2>1, <2>2, <2>3 DEF EndOK
<1> QED
  BY <1>4, <1>6, <1>7, <1>8, <1>9, InvParts

LEMMA FlushInv ==
  ASSUME RpcInv, Flush
  PROVE  RpcInv'
<1>1. PICK n \in Took(BufferLen) : HandOver(n) /\ written' = written + n
  BY DEF Flush
<1>2. pos = BufferLen /\ BufferLen \in Nat \ {0}
  BY RpcAssumption DEF RpcInv, CallOK, Flush
<1>3. n \in Nat /\ n <= pos
  BY <1>2, SMT DEF Took
<1>4. /\ wire' \in Seq(Nat) /\ buffer' \in Seq(Nat) /\ pos' = 0
      /\ BufferOK' /\ WireOK' /\ cut' \in BOOLEAN /\ cutInCall' \in BOOLEAN
      /\ (pos > 0 /\ ~cutInCall') => NewestIsOut'
  BY <1>1, <1>3, HandOverBytes
<1>5. BytesOK'
  <2>1. pos' <= BufferLen
    BY <1>2, <1>4, SMT
  <2>2. given' = given /\ newlines' = newlines /\ failedInCall' = failedInCall
    BY <1>1 DEF HandOver
  <2> QED
    BY <1>4, <2>1, <2>2, InvParts DEF BytesOK
<1>6. ControlOK'
  <2>1. written' \in Nat
    BY <1>1, <1>3, SMT DEF RpcInv, TypeOK
  <2> QED
    BY <2>1, InvParts DEF Flush, ControlOK
<1>7. CallOK'
  BY <1>4 DEF Flush, CallOK
<1>8. EndOK'
  <2>1. /\ call' = "copy" /\ UNCHANGED <<syncing, toWrite, result, given, newlines>>
        /\ pos > 0 /\ call = "flush"
    BY <1>1, <1>2, SMT DEF Flush, HandOver
  <2>2. given \in newlines => NewlineCopied'
    BY <1>4, <2>1 DEF NewlineCopied
  <2> QED
    BY <2>1, <2>2, InvParts DEF EndOK, NewlineCopied
<1> QED
  BY <1>4, <1>5, <1>6, <1>7, <1>8, InvParts

LEMMA FinalFlushInv ==
  ASSUME RpcInv, FinalFlush
  PROVE  RpcInv'
<1>1. PICK n \in Took(pos) \cup {0} : HandOver(n)
  BY DEF FinalFlush
<1>2. pos \in Nat /\ BufferLen \in Nat \ {0}
  BY RpcAssumption, LenProperties DEF RpcInv, TypeOK, pos
<1>3. n \in Nat /\ n <= pos
  BY <1>2, SMT DEF Took
<1>4. /\ wire' \in Seq(Nat) /\ buffer' \in Seq(Nat) /\ pos' = 0
      /\ BufferOK' /\ WireOK' /\ cut' \in BOOLEAN /\ cutInCall' \in BOOLEAN
      /\ (pos > 0 /\ ~cutInCall') => NewestIsOut'
  BY <1>1, <1>3, HandOverBytes
<1>5. BytesOK'
  <2>1. pos' <= BufferLen
    BY <1>2, <1>4, SMT
  <2>2. given' = given /\ newlines' = newlines /\ failedInCall' = failedInCall
    BY <1>1 DEF HandOver
  <2> QED
    BY <1>4, <2>1, <2>2, InvParts DEF BytesOK
<1>6. ControlOK'
  BY InvParts DEF FinalFlush, ControlOK, locals
<1>7. CallOK'
  BY <1>4 DEF FinalFlush, CallOK
<1>8. EndOK'
  <2>1. /\ call = "sync" /\ syncing /\ call' = "idle" /\ ~syncing'
        /\ UNCHANGED <<given, newlines, failedInCall>>
    BY <1>1, InvParts DEF FinalFlush, HandOver, CallOK
  <2>2. ASSUME ~failedInCall
        PROVE  NewlineCopied'
    <3>1. NewlineCopied
      BY <2>1, <2>2, InvParts DEF EndOK
    <3>2. CASE pos > 0
      BY <1>4, <2>1, <3>1, <3>2 DEF NewlineCopied
    <3>3. CASE pos = 0
      <4>1. n = 0 /\ ~(n < pos)
        BY <1>2, <1>3, <3>3, SMT
      <4>2. SubSeq(buffer, 1, 0) = <<>>
        BY SMT
      <4>3. wire' = wire /\ cutInCall' = cutInCall
        <5>1. wire \in Seq(Nat) /\ cutInCall \in BOOLEAN
          BY InvParts DEF BytesOK
        <5>2. wire \o <<>> = wire
          BY <5>1, EmptySeq, SMT
        <5> QED
          BY <1>1, <4>1, <4>2, <5>1, <5>2 DEF HandOver
      <4> QED
        BY <2>1, <3>1, <3>3, <4>3 DEF NewlineCopied, NewestIsOut
    <3> QED
      BY <1>2, <3>2, <3>3, SMT
  <2> QED
    BY <1>4, <2>1, <2>2 DEF EndOK
<1> QED
  BY <1>4, <1>5, <1>6, <1>7, <1>8, InvParts

\* The steps that only begin or end a call.
LEMMA ControlInv ==
  ASSUME RpcInv, Connect \/ (\E n \in Lengths : Write(n)) \/ WriteSync \/ FlushFails \/ WriteReturns
  PROVE  RpcInv'
<1>1. CASE Connect
  <2>1. ControlOK' /\ BytesOK' /\ BufferOK' /\ WireOK' /\ pos' = pos
    BY <1>1, BytesKept, InvParts DEF Connect, ControlOK, locals, history, BytesOK
  <2>2. CallOK'
    BY <1>1, <2>1, InvParts DEF Connect, CallOK, history
  <2>3. EndOK'
    BY <1>1, NewlineKept, InvParts DEF Connect, EndOK, history, locals
  <2> QED
    BY <2>1, <2>2, <2>3, InvParts
<1>2. ASSUME NEW n \in Lengths, Write(n)
      PROVE  RpcInv'
  <2>1. n \in Nat
    BY RpcAssumption
  <2>2. ControlOK'
    BY <1>2, <2>1, InvParts DEF Write, Begin, ControlOK, locals
  <2>3. cutInCall' \in BOOLEAN /\ failedInCall' \in BOOLEAN
    BY <1>2, InvParts DEF Write, Begin, BytesOK
  <2>4. BytesOK' /\ BufferOK' /\ WireOK' /\ pos' = pos
    BY <1>2, <2>3, BytesKept DEF Write
  <2>5. CallOK'
    BY <1>2, <2>4, InvParts DEF Write, Begin, CallOK
  <2>6. EndOK'
    BY <1>2, InvParts DEF Write, Begin, CallOK, EndOK
  <2> QED
    BY <2>2, <2>4, <2>5, <2>6, InvParts
<1>3. CASE WriteSync
  <2>1. ControlOK'
    BY <1>3, InvParts DEF WriteSync, Begin, ControlOK
  <2>2. BytesOK' /\ BufferOK' /\ WireOK' /\ pos' = pos
    BY <1>3, BytesKept DEF WriteSync, Begin
  <2>3. CallOK'
    BY <1>3 DEF WriteSync, Begin, CallOK
  <2>4. EndOK'
    <3>1. toWrite' = 1 /\ call' = "copy" /\ result' = "none"
      BY <1>3 DEF WriteSync, Begin
    <3> QED
      BY <3>1, SMT DEF EndOK
  <2> QED
    BY <2>1, <2>2, <2>3, <2>4, InvParts
<1>4. ASSUME NEW value \in BOOLEAN, Return(value), failedInCall' \in {failedInCall, TRUE},
             syncing => toWrite = 0 \/ failedInCall',
             UNCHANGED <<open, buffer, wire, syncing, locals, given, newlines, cut, cutInCall>>
      PROVE  RpcInv'
  <2>1. /\ ControlOK' /\ call' # "flush"
        /\ call' = "sync" => syncing'
        /\ call' = "idle" => ~syncing'
    BY <1>4, ReturnControl
  <2>2. BytesOK' /\ BufferOK' /\ WireOK' /\ pos' = pos
    BY <1>4, BytesKept, InvParts DEF BytesOK
  <2>3. CallOK'
    BY <1>4, <2>1, <2>2, InvParts DEF CallOK
  <2>4. EndOK'
    <3>1. syncing' = syncing /\ toWrite' = toWrite /\ NewlineCopied' = NewlineCopied
      BY <1>4, NewlineKept DEF locals
    <3>2. result' # "void" /\ (syncing => result' = result)
      BY <1>4, InvParts DEF Return, EndOK
    <3> QED
      BY <1>4, <3>1, <3>2, InvParts DEF EndOK
  <2> QED
    BY <2>1, <2>2, <2>3, <2>4, InvParts
<1>5. CASE FlushFails
  BY <1>4, <1>5 DEF FlushFails, Refused
<1>6. CASE WriteReturns
  BY <1>4, <1>6 DEF WriteReturns, history
<1> QED
  BY <1>1, <1>2, <1>3, <1>5, <1>6

LEMMA InvHolds == Spec => []RpcInv
<1>1. RpcInv /\ [Next]_vars => RpcInv'
  <2> SUFFICES ASSUME RpcInv, [Next]_vars PROVE RpcInv'
    OBVIOUS
  <2>1. CASE Next
    BY <2>1, CopyInv, FlushInv, FinalFlushInv, ControlInv DEF Next, Step
  <2>2. CASE UNCHANGED vars
    <3>1. BytesOK' /\ BufferOK' /\ WireOK' /\ pos' = pos
      BY <2>2, BytesKept, InvParts DEF vars, history, BytesOK
    <3>2. ControlOK' /\ CallOK'
      BY <2>2, <3>1, InvParts DEF vars, history, locals, ControlOK, CallOK
    <3>3. EndOK'
      BY <2>2, <3>1, NewlineKept, InvParts DEF vars, history, locals, EndOK
    <3> QED
      BY <3>1, <3>2, <3>3, InvParts
  <2> QED
    BY <2>1, <2>2
<1> QED
  BY <1>1, InitInv, PTL DEF Spec

(***************************************************************************)
(* What follows.                                                           *)
(***************************************************************************)

\* pos never passes the end of the buffer, so memcpy never writes past it.
THEOREM TypeCorrect == Spec => []TypeOK
<1>1. RpcInv => TypeOK
  BY DEF RpcInv
<1> QED
  BY <1>1, InvHolds, PTL

\* For every socket, no byte of write() is sent twice or overtakes another.
THEOREM BytesStayInOrder == Spec => []NeverReorders
<1>1. RpcInv => NeverReorders
  BY DEF RpcInv, WireOK
<1> QED
  BY <1>1, InvHolds, PTL

\* When nothing was dropped, the wire and the buffer are all that was given.
LEMMA WireAndBuffer ==
  ASSUME RpcInv, ~cut
  PROVE  wire \o buffer = [i \in 1..given |-> i]
<1>1. /\ given \in Nat /\ buffer \in Seq(Nat) /\ wire \in Seq(Nat) /\ pos \in Nat
      /\ Len(buffer) = pos /\ pos <= given /\ \A i \in 1..pos : buffer[i] = given - pos + i
      /\ Len(wire) = given - pos /\ \A i \in 1..Len(wire) : wire[i] = i
  BY LenProperties, SMT DEF RpcInv, TypeOK, BufferOK, WireOK, pos, sent
<1>2. /\ wire \o buffer \in Seq(Nat) /\ Len(wire \o buffer) = Len(wire) + pos
      /\ \A i \in 1..Len(wire) + pos :
           (wire \o buffer)[i] = IF i <= Len(wire) THEN wire[i] ELSE buffer[i - Len(wire)]
  BY <1>1, ConcatProperties
<1>3. Len(wire) + pos = given
  BY <1>1, SMT
<1>4. ASSUME NEW i \in 1..given
      PROVE  (wire \o buffer)[i] = i
  <2>1. CASE i <= Len(wire)
    <3>1. i \in 1..Len(wire)
      BY <1>1, <2>1, SMT
    <3> QED
      BY <1>1, <1>2, <1>3, <2>1, <3>1
  <2>2. CASE ~(i <= Len(wire))
    <3>1. i - Len(wire) \in 1..pos /\ given - pos + (i - Len(wire)) = i
      BY <1>1, <2>2, SMT
    <3> QED
      BY <1>1, <1>2, <1>3, <2>2, <3>1
  <2> QED
    BY <2>1, <2>2
<1>5. [i \in 1..given |-> i] \in Seq(Nat) /\ Len([i \in 1..given |-> i]) = given
  BY <1>1, SMT
<1> DEFINE all == [i \in 1..given |-> i]
<1>6. all \in Seq(Nat) /\ Len(wire \o buffer) = Len(all)
      /\ \A i \in 1..Len(wire \o buffer) : (wire \o buffer)[i] = all[i]
  BY <1>2, <1>3, <1>4, <1>5
<1> QED
  BY <1>2, <1>6, SeqEqual

\* Only a short or failed answer of the socket can lose a byte; a failed
\* write() does not.
THEOREM BytesAreKept == Spec => []NothingLost
<1>1. RpcInv => NothingLost
  BY WireAndBuffer DEF NothingLost
<1> QED
  BY <1>1, InvHolds, PTL

\* For every socket, writeSync() returns with an empty buffer; all that was
\* written has left unless something was cut; and unless the socket refused or
\* cut something in that call, its newline is the last byte out.
THEOREM MessagesLeaveWhole == Spec => []MessageIsOut
<1>1. RpcInv => MessageIsOut
  <2> SUFFICES ASSUME RpcInv, result = "void"
               PROVE  /\ buffer = <<>> /\ (~cut => Len(wire) = given)
                      /\ (~failedInCall /\ ~cutInCall => given \in newlines /\ NewestIsOut)
    BY DEF MessageIsOut
  <2>1. pos = 0 /\ (~cut => Len(wire) = given - pos)
    BY DEF RpcInv, EndOK, WireOK, sent
  <2>2. buffer \in Seq(Nat) /\ given \in Nat
    BY DEF RpcInv, TypeOK
  <2>3. buffer = <<>>
    BY <2>1, <2>2, EmptySeq DEF pos
  <2>4. ~failedInCall /\ ~cutInCall => given \in newlines /\ NewestIsOut
    BY <2>1 DEF RpcInv, EndOK, NewlineCopied
  <2> QED
    BY <2>1, <2>2, <2>3, <2>4, SMT
<1> QED
  BY <1>1, InvHolds, PTL

(***************************************************************************)
(* A healthy socket makes the stream a byte channel.                       *)
(***************************************************************************)

\* A socket that takes all it is offered never cuts anything.
LEMMA HealthyStep ==
  ASSUME Answers = {"all"}, RpcInv, ~cut, [Next]_vars
  PROVE  ~cut'
<1>1. BufferLen \in Nat /\ pos \in Nat
  BY RpcAssumption, LenProperties DEF RpcInv, TypeOK, pos
<1>2. \A n \in Nat : Took(n) = {n}
  BY DEF Took
<1>3. \A n \in Nat : ~(n < n)
  BY SMT
<1>4. CASE Flush
  <2>1. pos = BufferLen
    BY <1>4 DEF RpcInv, CallOK, Flush
  <2> QED
    BY <1>1, <1>2, <1>3, <1>4, <2>1 DEF Flush, HandOver
<1>5. CASE FinalFlush
  <2>1. PICK n \in Took(pos) \cup (IF "error" \in Answers \/ pos = 0 THEN {0} ELSE {}) : HandOver(n)
    BY <1>5 DEF FinalFlush
  <2>2. n = pos
    BY <1>1, <1>2, <2>1
  <2> QED
    BY <1>1, <1>3, <2>1, <2>2 DEF HandOver
<1>6. CASE UNCHANGED cut
  BY <1>6
<1> QED
  BY <1>4, <1>5, <1>6 DEF Next, Step, Connect, Write, WriteSync, Copy, FlushFails, WriteReturns,
                          Refused, vars, history

\* What was cut stays cut.
LEMMA CutStays ==
  ASSUME ~cut', [Next]_vars
  PROVE  ~cut
<1> QED
  BY DEF Next, Step, Connect, Write, WriteSync, Copy, Flush, FlushFails, WriteReturns, FinalFlush,
         HandOver, Refused, vars, history

\* The count of bytes given, and of those that left the buffer, only grow.
LEMMA CountsGrow ==
  ASSUME RpcInv, [Next]_vars
  PROVE  given' >= given /\ sent' >= sent
<1>1. given \in Nat /\ pos \in Nat /\ pos <= given /\ BufferLen \in Nat
  BY RpcAssumption, LenProperties DEF RpcInv, TypeOK, BufferOK, pos
<1>2. CASE Copy
  <2> DEFINE length == chunk
  <2>1. length \in Nat /\ pos + length <= BufferLen
    BY <1>1, <1>2, SMT DEF RpcInv, TypeOK, Copy, chunk, Min2
  <2>2. /\ buffer' = buffer \o [i \in 1..length |-> given + i] /\ given' = given + length
        /\ wire' = wire /\ cut' = cut
    BY <1>2 DEF Copy
  <2> HIDE DEF length
  <2>3. sent' = sent
    BY <2>1, <2>2, CopyBytes
  <2> QED
    BY <1>1, <2>1, <2>2, <2>3, SMT DEF sent
<1>3. CASE Flush \/ FinalFlush
  <2>1. buffer' = <<>> /\ given' = given
    BY <1>3 DEF Flush, FinalFlush, HandOver
  <2>2. pos' = 0
    BY <2>1, EmptySeq DEF pos
  <2> QED
    BY <1>1, <2>1, <2>2, SMT DEF sent
<1>4. CASE UNCHANGED <<buffer, given>>
  <2>1. given' = given /\ sent' = sent
    BY <1>4 DEF sent, pos
  <2> QED
    BY <1>1, <2>1, SMT DEF sent
<1> QED
  BY <1>2, <1>3, <1>4 DEF Next, Step, Connect, Write, WriteSync, FlushFails, WriteReturns,
                          Refused, vars, history

\* While the socket cut nothing, every step of write() and writeSync(), the
\* ones after an error included, is a step of the abstract channel or none:
\* nothing is lost, repeated, invented or reordered.
THEOREM StreamIsChannel == Spec => ImplementsChannel
<1>1. Init => Channel!Init
  BY DEF Init, Channel!Init
<1>2. ASSUME RpcInv, RpcInv', ~cut, ~cut', [Next]_vars
      PROVE  Channel!Next
  <2>1. given' \in Nat /\ wire' \in Seq(Nat) /\ wire \in Seq(Nat)
    BY <1>2 DEF RpcInv, TypeOK
  <2>2. given' >= given /\ sent' >= sent
    BY <1>2, CountsGrow
  <2>3. pos' \in Nat /\ pos' <= given' /\ sent' = given' - pos'
    BY <1>2, LenProperties DEF RpcInv, TypeOK, BufferOK, pos, sent
  <2>4. Len(wire) = sent /\ Len(wire') = sent' /\ \A i \in 1..Len(wire') : wire'[i] = i
    BY <1>2 DEF RpcInv, WireOK
  <2>5. Len(wire') \in Nat /\ Len(wire) \in Nat
    BY <2>1, LenProperties
  <2>6. Len(wire') \in Len(wire)..given'
    <3>1. Len(wire') >= Len(wire) /\ Len(wire') = given' - pos'
      BY <2>2, <2>3, <2>4
    <3>2. \A x, y, g, p \in Nat : x >= y /\ x = g - p => x \in y..g
      BY SMT
    <3> QED
      BY <2>1, <2>3, <2>5, <3>1, <3>2
  <2>7. wire' = Channel!UpTo(Len(wire'))
    <3> DEFINE all == [i \in 1..Len(wire') |-> i]
    <3>1. \A n \in Nat : [i \in 1..n |-> i] \in Seq(Nat) /\ Len([i \in 1..n |-> i]) = n
      BY SMT
    <3>2. all \in Seq(Nat) /\ Len(all) = Len(wire')
      BY <2>5, <3>1
    <3>3. wire' = all
      BY <2>1, <2>4, <3>2, SeqEqual
    <3> QED
      BY <3>3 DEF Channel!UpTo
  <2> QED
    BY <2>1, <2>2, <2>6, <2>7 DEF Channel!Next
<1>3. RpcInv /\ ~cut' /\ [Next]_vars => ~cut
  BY CutStays
<1>4. RpcInv /\ RpcInv' /\ [Next]_vars => [cut' \/ Channel!Next]_<<given, wire>>
  BY <1>2, <1>3
<1> QED
  BY <1>1, <1>4, InvHolds, PTL DEF Spec, ImplementsChannel

\* On a socket that takes all it is offered the stream is the abstract
\* channel altogether.
THEOREM HealthyStreamIsChannel ==
  ASSUME Answers = {"all"}
  PROVE  Spec => Channel!Spec
<1>1. Init => ~cut
  BY DEF Init
<1>2. RpcInv /\ ~cut /\ [Next]_vars => ~cut'
  BY HealthyStep
<1>3. ~cut' /\ [cut' \/ Channel!Next]_<<given, wire>> => [Channel!Next]_<<given, wire>>
  OBVIOUS
<1> QED
  BY <1>1, <1>2, <1>3, StreamIsChannel, InvHolds, PTL DEF Spec, ImplementsChannel, Channel!Spec

(***************************************************************************)
(* Calls end.  In each turn of write()'s loop something is copied, but for *)
(* the one that finds the buffer full, as an error left it, and flushes.   *)
(***************************************************************************)
Turn == CASE call = "idle"  -> 0
          [] call = "sync"  -> 1
          [] call = "flush" -> 3
          [] call = "copy"  -> IF pos < BufferLen THEN 2 ELSE 4

Measure == 5 * toWrite + Turn

LEMMA TurnType ==
  ASSUME call \in {"idle", "copy", "flush", "sync"}
  PROVE  Turn \in 0..4
<1>1. 0 \in 0..4 /\ 1 \in 0..4 /\ 2 \in 0..4 /\ 3 \in 0..4 /\ 4 \in 0..4
  OBVIOUS
<1>2. CASE call = "copy"
  BY <1>1, <1>2 DEF Turn
<1>3. CASE call # "copy"
  BY <1>1, <1>3 DEF Turn
<1> QED
  BY <1>2, <1>3

LEMMA StepMeasure ==
  ASSUME RpcInv, Step
  PROVE  Measure' < Measure
<1>1. /\ toWrite \in Nat /\ BufferLen \in Nat \ {0} /\ pos \in Nat /\ pos <= BufferLen
      /\ call \in {"idle", "copy", "flush", "sync"}
  BY RpcAssumption, LenProperties DEF RpcInv, TypeOK, pos
<1>2. CASE FlushFails \/ WriteReturns
  <2>1. call' \in {"idle", "sync"} /\ toWrite' = toWrite /\ call \in {"copy", "flush"}
    BY <1>2 DEF FlushFails, WriteReturns, Return, locals
  <2>2. Turn' \in {0, 1} /\ Turn \in {2, 3, 4}
    BY <2>1 DEF Turn
  <2>3. \A t \in Nat, k \in {0, 1}, m \in {2, 3, 4} : 5 * t + k < 5 * t + m
    BY SMT
  <2> QED
    BY <1>1, <2>1, <2>2, <2>3 DEF Measure
<1>3. CASE FinalFlush
  <2>1. call' = "idle" /\ toWrite' = toWrite /\ call = "sync"
    BY <1>3 DEF FinalFlush, locals
  <2>2. Turn' = 0 /\ Turn = 1
    BY <2>1 DEF Turn
  <2> QED
    BY <1>1, <2>1, <2>2, SMT DEF Measure
<1>4. CASE Flush
  <2>1. call' = "copy" /\ toWrite' = toWrite /\ call = "flush" /\ buffer' = <<>>
    BY <1>4 DEF Flush, HandOver
  <2>2. pos' = 0
    BY <2>1 DEF pos
  <2>3. pos' < BufferLen
    BY <1>1, <2>2, SMT
  <2>4. Turn' = 2 /\ Turn = 3
    BY <2>1, <2>3 DEF Turn
  <2> QED
    BY <1>1, <2>1, <2>4, SMT DEF Measure
<1>5. CASE Copy
  <2>1. /\ call = "copy" /\ toWrite > 0 /\ toWrite' = toWrite - chunk
        /\ \/ pos + chunk = BufferLen /\ call' = "flush"
           \/ pos + chunk # BufferLen /\ call' = "copy"
        /\ buffer' = buffer \o [i \in 1..chunk |-> given + i]
    BY <1>5 DEF Copy
  <2>2. chunk \in Nat /\ chunk <= toWrite /\ pos + chunk <= BufferLen
        /\ (pos < BufferLen => chunk > 0) /\ (pos = BufferLen => chunk = 0)
    BY <1>1, <2>1, SMT DEF chunk, Min2
  <2>3. pos' = pos + chunk
    <3>1. given \in Nat /\ buffer \in Seq(Nat)
      BY DEF RpcInv, TypeOK
    <3>2. [i \in 1..chunk |-> given + i] \in Seq(Nat) /\ Len([i \in 1..chunk |-> given + i]) = chunk
      BY <2>2, <3>1, SMT
    <3>3. Len(buffer') = Len(buffer) + chunk
      <4>1. PICK bytes : bytes = [i \in 1..chunk |-> given + i]
        OBVIOUS
      <4>2. bytes \in Seq(Nat) /\ Len(bytes) = chunk /\ buffer' = buffer \o bytes
        BY <2>1, <3>2, <4>1
      <4> QED
        BY <3>1, <4>2, ConcatProperties
    <3> QED
      BY <3>3 DEF pos
  <2>4. CASE pos < BufferLen
    <3>1. Turn = 2
      BY <2>1, <2>4 DEF Turn
    <3>2. Turn' \in {2, 3}
      <4>1. CASE pos + chunk = BufferLen /\ call' = "flush"
        BY <4>1 DEF Turn
      <4>2. CASE pos + chunk # BufferLen /\ call' = "copy"
        <5>1. pos' < BufferLen
          BY <1>1, <2>2, <2>3, <4>2, SMT
        <5> QED
          BY <4>2, <5>1 DEF Turn
      <4> QED
        BY <2>1, <4>1, <4>2
    <3>3. \A t, c \in Nat, k \in {2, 3} : c > 0 => 5 * (t - c) + k < 5 * t + 2
      BY SMT
    <3> QED
      BY <1>1, <2>1, <2>2, <2>4, <3>1, <3>2, <3>3 DEF Measure
  <2>5. CASE pos = BufferLen
    <3>1. chunk = 0 /\ toWrite' = toWrite /\ pos + chunk = BufferLen
      BY <1>1, <2>1, <2>2, <2>5, SMT
    <3>2. call' = "flush" /\ ~(pos < BufferLen)
      BY <1>1, <2>1, <2>5, <3>1, SMT
    <3>3. Turn' = 3 /\ Turn = 4
      BY <2>1, <3>2 DEF Turn
    <3> QED
      BY <1>1, <3>1, <3>3, SMT DEF Measure
  <2> QED
    BY <1>1, <2>4, <2>5, SMT
<1> QED
  BY <1>2, <1>3, <1>4, <1>5 DEF Step

\* Every call of write() and writeSync() comes to its end, for every length
\* of the buffer and of what is written and whatever the socket answers: each
\* step of a call brings a natural number down.
THEOREM CallsMakeProgress == Spec => [][Step => Measure' \in 0..Measure - 1]_vars
<1>1. RpcInv /\ [Next]_vars => [Step => Measure' < Measure]_vars
  BY StepMeasure
<1>2. RpcInv => Measure \in Nat
  <2> SUFFICES ASSUME RpcInv PROVE Measure \in Nat
    OBVIOUS
  <2>1. toWrite \in Nat /\ Turn \in 0..4
    BY TurnType DEF RpcInv, TypeOK
  <2> QED
    BY <2>1, SMT DEF Measure
<1>3. Measure \in Nat /\ (Measure \in Nat)' /\ [Step => Measure' < Measure]_vars
        => [Step => Measure' \in 0..Measure - 1]_vars
  <2> SUFFICES ASSUME Measure \in Nat, Measure' \in Nat, Measure' < Measure
               PROVE  Measure' \in 0..Measure - 1
    OBVIOUS
  <2> QED
    BY SMT
<1> QED
  BY <1>1, <1>2, <1>3, InvHolds, PTL DEF Spec
=============================================================================
