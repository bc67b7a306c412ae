------------------------- MODULE ConnBufferProofs -------------------------
(***************************************************************************)
(* Theorems about ConnBuffer, for a buffer and streams of any size.        *)
(***************************************************************************)
EXTENDS ConnBuffer, SequenceTheorems, TLAPS

\* The end of the last line taken is a position that was read, or 0.
LEMMA LastEndNat == TypeOK => LastEnd \in Nat /\ Len(reqs) \in Nat
<1> SUFFICES ASSUME TypeOK PROVE LastEnd \in Nat /\ Len(reqs) \in Nat
  OBVIOUS
<1>1. Len(reqs) \in Nat
  BY LenProperties DEF TypeOK
<1>2. CASE Len(reqs) = 0
  BY <1>2 DEF LastEnd, EndBefore
<1>3. CASE Len(reqs) # 0
  <2>1. reqs[Len(reqs)] \in Request
    BY <1>1, <1>3, ElementOfSeq DEF TypeOK
  <2> QED BY <1>1, <1>3, <2>1 DEF LastEnd, EndBefore, Request
<1> QED BY <1>1, <1>2, <1>3

\* The invariant holds of an empty buffer.
LEMMA InitIndInv == Init => IndInv
<1> SUFFICES ASSUME Init PROVE IndInv
  OBVIOUS
<1> USE BufferAssumption
<1>1. TypeOK
  <2>1. reqs \in Seq(Request)
    BY DEF Init
  <2>2. length \in Nat /\ nls \subseteq 1 .. length /\ got \in 0 .. length
    BY DEF Init
  <2>3. line \in [Cells -> 0 .. length]
    BY <2>2 DEF Init
  <2>4. fill \in 0 .. Cap - 1 /\ start \in 0 .. Cap - 1
    BY DEF Init
  <2>5. pc \in {"read", "lines", "done"} /\ broken \in BOOLEAN
    BY DEF Init
  <2> QED BY <2>1, <2>2, <2>3, <2>4, <2>5 DEF TypeOK
<1>2. LastEnd = 0
  BY DEF Init, LastEnd, EndBefore
<1>3. BufferShape
  BY <1>2 DEF Init, BufferShape, Begin
<1>4. LinePerRequest /\ Drained
  BY DEF Init, LinePerRequest, Drained
<1> QED BY <1>1, <1>3, <1>4 DEF IndInv

\* What read brings goes behind what is in the buffer.
LEMMA ReadStep == IndInv /\ Read => IndInv'
<1> SUFFICES ASSUME IndInv, Read PROVE IndInv'
  OBVIOUS
<1> USE BufferAssumption DEF IndInv, stream
<1>1. PICK n \in 1 .. Room :
        /\ got + n <= length /\ got' = got + n /\ fill' = fill + n
        /\ line' = [j \in Cells |->
                      IF j < fill THEN line[j]
                      ELSE IF j < fill + n THEN got + (j - fill) + 1
                      ELSE IF j = fill + n THEN 0 ELSE line[j]]
  BY DEF Read
<1>2. /\ pc = "read" /\ pc' = "lines" /\ start' = 0
      /\ UNCHANGED <<length, nls, broken, reqs>>
  BY DEF Read
<1>3. fill \in Nat /\ got \in Nat /\ length \in Nat /\ n \in Nat /\ fill + n <= Cap - 1
  BY <1>1 DEF TypeOK, Room
<1>4. TypeOK'
  <2>1. line' \in [Cells -> 0 .. length]
    BY <1>1, <1>3 DEF TypeOK, Cells
  <2> QED BY <1>1, <1>2, <1>3, <2>1 DEF TypeOK
<1>5. LastEnd' = LastEnd
  BY <1>2 DEF LastEnd, EndBefore
<1>6. \A j \in 0 .. fill' - 1 : line'[j] = got' - fill' + j + 1
  <2>1. \A j \in 0 .. fill - 1 : line[j] = got - fill + j + 1
    BY <1>2 DEF BufferShape, Begin
  <2> QED BY <1>1, <1>3, <2>1 DEF Cells
<1>7. BufferShape'
  <2>1. got' - fill' = got - fill
    BY <1>1, <1>3
  <2> QED BY <1>1, <1>2, <1>3, <1>5, <1>6, <2>1 DEF BufferShape, Begin
<1>8. LinePerRequest' /\ Drained'
  BY <1>2 DEF LinePerRequest, Drained, EndBefore, NextEnd
<1> QED BY <1>4, <1>7, <1>8

\* The connection ends only at the end of the stream: there is room to read.
LEMMA ReadEndsStep == IndInv /\ ReadEnds => IndInv'
<1> SUFFICES ASSUME IndInv, ReadEnds PROVE IndInv'
  OBVIOUS
<1> USE BufferAssumption DEF IndInv, stream, ReadEnds
<1>1. TypeOK' /\ BufferShape'
  BY DEF TypeOK, BufferShape
<1>2. got = length /\ \A m \in nls : m <= LastEnd
  BY DEF TypeOK, BufferShape, Room
<1>3. LinePerRequest' /\ Drained'
  BY <1>2 DEF LinePerRequest, Drained, EndBefore, NextEnd, LastEnd
<1> QED BY <1>1, <1>3

\* The line taken is the next one of the stream.
LEMMA TakeLineStep == IndInv /\ TakeLine => IndInv'
<1> SUFFICES ASSUME IndInv, TakeLine PROVE IndInv'
  OBVIOUS
<1> USE BufferAssumption DEF IndInv, stream
<1>1. PICK j \in LineEnds :
        /\ IsFirstEnd(j)
        /\ reqs' = Append(reqs, [bytes |-> [k \in 1 .. j - start |-> line[start + k - 1]],
                                 end |-> line[j]])
        /\ line' = [line EXCEPT ![j] = 0]
        /\ start' = j + 1
  BY DEF TakeLine
<1>2. /\ pc = "lines" /\ pc' \in {"lines", "done"} /\ broken' \in BOOLEAN
      /\ pc' = "done" => broken'
      /\ UNCHANGED <<length, nls, got, fill>>
  BY DEF TakeLine, TypeOK
<1>b. PICK base, e, bytes :
        /\ base = got - (fill - start) /\ e = line[j]
        /\ bytes = [k \in 1 .. j - start |-> line[start + k - 1]]
  OBVIOUS
<1>3. /\ j \in Nat /\ start \in Nat /\ fill \in Nat /\ got \in Nat /\ length \in Nat
      /\ start <= j /\ j < fill /\ fill <= Cap - 1 /\ e \in nls /\ nls \subseteq Nat
      /\ LastEnd \in Nat /\ Len(reqs) \in Nat /\ base \in Int /\ e \in Nat
  BY <1>b, LastEndNat DEF TypeOK, LineEnds
<1>4. /\ \A k \in start .. fill - 1 : line[k] = got - fill + k + 1
      /\ e = got - fill + j + 1 /\ e = base + (j - start) + 1
      /\ LastEnd <= base
      /\ \A m \in nls : LastEnd < m => base < m
      /\ base # LastEnd => base - LastEnd >= Cap - 1
  BY <1>2, <1>3, <1>b DEF BufferShape, Begin
<1>5. bytes = Bytes(base + 1, e) /\ base + 1 \in LastEnd + 1 .. e
  BY <1>3, <1>4, <1>b DEF Bytes
<1>6. NextEnd(LastEnd, e)
  <2>1. ASSUME NEW m \in nls, LastEnd < m, m < e PROVE FALSE
    <3>1. /\ m \in Nat /\ base < m
          /\ m - (got - fill) - 1 \in start .. fill - 1 /\ m - (got - fill) - 1 < j
      BY <1>b, <1>3, <1>4, <2>1
    <3>2. line[m - (got - fill) - 1] = m
      BY <1>3, <1>4, <3>1
    <3>3. m - (got - fill) - 1 \in LineEnds
      BY <2>1, <3>1, <3>2 DEF LineEnds
    <3> QED BY <1>1, <1>3, <3>1, <3>3 DEF IsFirstEnd
  <2> QED BY <1>3, <1>4, <2>1 DEF NextEnd
<1>7. /\ reqs' \in Seq(Request) /\ Len(reqs') = Len(reqs) + 1
      /\ \A n \in 1 .. Len(reqs) : reqs'[n] = reqs[n]
      /\ reqs'[Len(reqs) + 1] = [bytes |-> bytes, end |-> e]
  <2>1. bytes \in Seq(Nat)
    <3>1. /\ base + 1 \in Nat /\ e - (base + 1) \in Nat
          /\ \A k \in 1 .. e - (base + 1) : base + 1 + k - 1 \in Nat
      BY <1>3, <1>4, <1>5
    <3>2. Bytes(base + 1, e) \in Seq(Nat)
      BY <3>1, IsASeq DEF Bytes
    <3> QED BY <1>5, <3>2
  <2>2. [bytes |-> bytes, end |-> e] \in Request
    BY <1>3, <2>1 DEF Request
  <2>3. PICK r \in Request : r = [bytes |-> bytes, end |-> e]
    BY <2>2
  <2>4. reqs \in Seq(Request) /\ reqs' = Append(reqs, r)
    BY <1>1, <1>b, <2>3 DEF TypeOK
  <2> QED BY <2>3, <2>4, AppendProperties
<1>8. LastEnd' = e
  BY <1>3, <1>7 DEF LastEnd, EndBefore
<1>9. TypeOK'
  BY <1>1, <1>2, <1>3, <1>7 DEF TypeOK, Cells
<1>10. BufferShape'
  <2>1. CASE pc' = "done"
    BY <2>1 DEF BufferShape
  <2>2. CASE pc' = "lines"
    <3>1. Begin' = j + 1 /\ got' - (fill' - Begin') = e
      BY SMTT(20), <1>1, <1>2, <1>3, <1>4, <2>2 DEF Begin
    <3>2. \A k \in j + 1 .. fill - 1 : line'[k] = got - fill + k + 1
      <4> SUFFICES ASSUME NEW k \in j + 1 .. fill - 1
                   PROVE  line'[k] = got - fill + k + 1
        OBVIOUS
      <4>1. k \in start .. fill - 1 /\ k # j
        BY <1>3
      <4>2. k \in DOMAIN line
        BY <1>3, <4>1 DEF TypeOK, Cells
      <4>3. line'[k] = line[k]
        BY <1>1, <4>1, <4>2, Zenon
      <4> QED BY <1>4, <4>1, <4>3
    <3>3. \A m \in nls : e < m => e < m
      OBVIOUS
    <3> QED BY <1>2, <1>3, <1>8, <2>2, <3>1, <3>2, <3>3 DEF BufferShape
  <2> QED BY <1>2, <2>1, <2>2
<1>11. LinePerRequest'
  <2> SUFFICES ASSUME NEW n \in 1 .. Len(reqs) + 1
               PROVE  /\ NextEnd(EndBefore(n)', reqs'[n].end)
                      /\ \E p \in EndBefore(n)' + 1 .. reqs'[n].end :
                           /\ reqs'[n].bytes = Bytes(p, reqs'[n].end)
                           /\ reqs'[n].end - EndBefore(n)' <= Cap - 1 => p = EndBefore(n)' + 1
    BY <1>2, <1>7, LenProperties DEF LinePerRequest, NextEnd
  <2>1. EndBefore(n)' = EndBefore(n)
    BY <1>3, <1>7 DEF EndBefore
  <2>2. CASE n = Len(reqs) + 1
    <3>1. EndBefore(n) = LastEnd /\ reqs'[n].end = e /\ reqs'[n].bytes = bytes
      BY <1>7, <2>2 DEF LastEnd
    <3>2. e - LastEnd <= Cap - 1 => base = LastEnd
      <4>1. e >= base + 1 /\ Cap \in Nat
        BY <1>3, <1>4
      <4> QED BY <1>3, <1>4, <4>1
    <3> QED BY <1>5, <1>6, <2>1, <3>1, <3>2
  <2>3. CASE n \in 1 .. Len(reqs)
    <3>1. n \in DOMAIN reqs /\ reqs'[n] = reqs[n]
      BY <1>7, <2>3, LenProperties DEF TypeOK
    <3> QED BY <2>1, <3>1 DEF LinePerRequest
  <2> QED BY <1>3, <2>2, <2>3
<1>12. Drained'
  BY <1>2 DEF Drained
<1> QED BY <1>9, <1>10, <1>11, <1>12

\* What is left of an incomplete line stays, or is dropped when it fills the
\* buffer, and then the line is too long to arrive whole.
LEMMA ShiftStep == IndInv /\ Shift => IndInv'
<1> SUFFICES ASSUME IndInv, Shift PROVE IndInv'
  OBVIOUS
<1> USE BufferAssumption DEF IndInv, stream, Shift
<1>1. /\ start \in Nat /\ fill \in Nat /\ got \in Nat /\ length \in Nat /\ fill <= Cap - 1
      /\ start <= fill /\ nls \subseteq Nat /\ LastEnd \in Nat
  BY LastEndNat DEF TypeOK, BufferShape, Begin
<1>2. /\ \A k \in start .. fill - 1 : line[k] = got - fill + k + 1
      /\ LastEnd <= got - (fill - start)
      /\ \A m \in nls : LastEnd < m => got - (fill - start) < m
      /\ got - (fill - start) # LastEnd => got - (fill - start) - LastEnd >= Cap - 1
  BY DEF BufferShape, Begin
<1>3. ASSUME NEW m \in nls, m <= got, LastEnd < m PROVE FALSE
  <2>1. m - (got - fill) - 1 \in start .. fill - 1
    BY <1>1, <1>2, <1>3
  <2>2. line[m - (got - fill) - 1] = m
    BY <1>1, <1>2, <2>1
  <2> QED BY <2>1, <2>2 DEF LineEnds
<1>4. LastEnd' = LastEnd
  BY DEF LastEnd, EndBefore
<1>5. TypeOK'
  <2>1. line' \in [Cells -> 0 .. length]
    BY <1>1 DEF TypeOK, Cells, Moved
  <2> QED BY <1>1, <2>1 DEF TypeOK
<1>6. \A j \in 0 .. fill' - 1 : line'[j] = got' - fill' + j + 1
  <2> SUFFICES ASSUME NEW j \in 0 .. fill' - 1 PROVE line'[j] = got - fill' + j + 1
    OBVIOUS
  <2>1. fill' = fill - start /\ j \in Cells /\ j < fill - start
    BY <1>1 DEF Cells
  <2>2. line'[j] = line[start + j]
    BY <2>1 DEF Moved
  <2> QED BY <1>1, <1>2, <2>1, <2>2
<1>7. BufferShape'
  <2>1. pc' = "read" /\ Begin' = 0 /\ fill' \in Nat /\ fill' < Cap - 1
    BY <1>1 DEF Begin
  <2>2. \A m \in nls : m <= got => m <= LastEnd
    BY <1>1, <1>3
  <2>3. fill' = fill - start \/ (fill' = 0 /\ fill - start >= Cap - 1)
    OBVIOUS
  <2>4. /\ LastEnd <= got - fill'
        /\ \A m \in nls : LastEnd < m => got - fill' < m
        /\ got - fill' # LastEnd => got - fill' - LastEnd >= Cap - 1
    BY <1>1, <1>2, <2>2, <2>3
  <2> QED BY <1>4, <1>6, <2>1, <2>2, <2>4 DEF BufferShape
<1>8. LinePerRequest' /\ Drained'
  BY DEF LinePerRequest, Drained, EndBefore, NextEnd
<1> QED BY <1>5, <1>7, <1>8

\* BufferShape and what follows from it hold throughout.
THEOREM Invariance == Spec => []IndInv
<1>1. IndInv /\ UNCHANGED vars => IndInv'
  BY DEF IndInv, vars, TypeOK, BufferShape, Begin, LinePerRequest, Drained, EndBefore,
         NextEnd, LastEnd
<1>2. IndInv /\ [Next]_vars => IndInv'
  BY <1>1, ReadStep, ReadEndsStep, TakeLineStep, ShiftStep DEF Next
<1> QED BY <1>2, InitIndInv, PTL DEF Spec

\* The requests are the lines of the stream, one for one and in order, whole
\* when they fit the buffer, for every stream and every way of cutting it.
THEOREM RequestsAreLines == Spec => []LinePerRequest
<1>1. IndInv => LinePerRequest
  BY DEF IndInv
<1> QED BY <1>1, Invariance, PTL

\* The thread leaves its loop only at the end of the stream or when a reply
\* cannot be written.
THEOREM LeavesDrained == Spec => []Drained
<1>1. IndInv => Drained
  BY DEF IndInv
<1> QED BY <1>1, Invariance, PTL
=============================================================================
