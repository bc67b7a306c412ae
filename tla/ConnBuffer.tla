---------------------------- MODULE ConnBuffer ----------------------------
(***************************************************************************)
(* tool/iwordserver.c, conn_thread: cutting what a client sends into       *)
(* lines, in a buffer of fixed size.                                       *)
(*                                                                         *)
(* A byte is its position in the client's stream, from 1, and 0 is the     *)
(* '\0' the code writes itself; which positions are line ends is all that  *)
(* matters of their values.  How a request is answered is IwordServer's    *)
(* subject; here it is taken out of the buffer and answered in one step.   *)
(***************************************************************************)
EXTENDS Integers, Sequences

CONSTANTS
  Cap,                \* sizeof(line), MAX_LINE in the code
  MaxLength           \* the longest stream

ASSUME BufferAssumption == Cap \in Nat /\ Cap >= 2 /\ MaxLength \in Nat

VARIABLES
  length,             \* the bytes the client sends before it ends
  nls,                \* the positions that are line ends
  got,                \* bytes read so far
  line, fill,         \* the buffer, and how much of it is filled
  start,              \* where the next line starts
  pc,                 \* "read", "lines", or "done"
  broken,             \* a reply could not be written
  reqs                \* the requests made: their bytes, and the end of their line

stream == <<length, nls>>
vars == <<length, nls, got, line, fill, start, pc, broken, reqs>>

Cells == 0 .. Cap - 1

Init ==
  /\ length \in 0 .. MaxLength
  /\ nls \in SUBSET (1 .. length)
  /\ got = 0
  /\ line = [j \in Cells |-> 0]
  /\ fill = 0 /\ start = 0
  /\ pc = "read" /\ broken = FALSE
  /\ reqs = <<>>

\* What read is given to fill.
Room == Cap - fill - 1

Read ==
  /\ pc = "read"
  /\ \E n \in 1 .. Room :
       /\ got + n <= length
       /\ got' = got + n
       /\ fill' = fill + n
       /\ line' = [j \in Cells |->
                     IF j < fill THEN line[j]
                     ELSE IF j < fill + n THEN got + (j - fill) + 1
                     ELSE IF j = fill + n THEN 0 ELSE line[j]]
  /\ start' = 0
  /\ pc' = "lines"
  /\ UNCHANGED <<stream, broken, reqs>>

\* read returns 0: at the end of the stream, or if there is no room.
ReadEnds ==
  /\ pc = "read" /\ (got = length \/ Room = 0)
  /\ pc' = "done"
  /\ UNCHANGED <<stream, got, line, fill, start, broken, reqs>>

LineEnds == {j \in start .. fill - 1 : line[j] \in nls}

\* memchr
IsFirstEnd(j) == j \in LineEnds /\ \A k \in LineEnds : j <= k

\* The next line is ended with '\0' and made a request; the reply is written,
\* or cannot be and the connection ends.
TakeLine ==
  /\ pc = "lines"
  /\ \E j \in LineEnds :
       /\ IsFirstEnd(j)
       /\ reqs' = Append(reqs, [bytes |-> [k \in 1 .. j - start |-> line[start + k - 1]],
                                end |-> line[j]])
       /\ line' = [line EXCEPT ![j] = 0]
       /\ start' = j + 1
  /\ \/ UNCHANGED <<pc, broken>>
     \/ pc' = "done" /\ broken' = TRUE
  /\ UNCHANGED <<stream, got, fill>>

\* memmove: what is left of the buffer goes to its front.
Moved ==
  [j \in Cells |-> IF j < fill - start THEN line[start + j] ELSE line[j]]

\* Fault: a full buffer is not emptied.
ShiftUnguarded ==
  /\ pc = "lines" /\ LineEnds = {}
  /\ line' = Moved
  /\ fill' = fill - start
  /\ pc' = "read"
  /\ UNCHANGED <<stream, got, start, broken, reqs>>

\* Fault: the guard drops a buffer that still has room for one byte.
ShiftEarly ==
  /\ pc = "lines" /\ LineEnds = {}
  /\ line' = Moved
  /\ fill' = IF fill - start >= Cap - 2 THEN 0 ELSE fill - start
  /\ pc' = "read"
  /\ UNCHANGED <<stream, got, start, broken, reqs>>

\* No line is complete.  A buffer that is full of one is dropped.
Shift ==
  /\ pc = "lines" /\ LineEnds = {}
  /\ line' = Moved
  /\ fill' = IF fill - start >= Cap - 1 THEN 0 ELSE fill - start
  /\ pc' = "read"
  /\ UNCHANGED <<stream, got, start, broken, reqs>>

Next == Read \/ ReadEnds \/ TakeLine \/ Shift

Spec == Init /\ [][Next]_vars

-----------------------------------------------------------------------------
(* Properties                                                              *)

Request == [bytes : Seq(Nat), end : Nat]

TypeOK ==
  /\ length \in Nat /\ nls \subseteq 1 .. length
  /\ got \in 0 .. length
  /\ line \in [Cells -> 0 .. length]
  /\ fill \in 0 .. Cap - 1 /\ start \in 0 .. Cap - 1
  /\ pc \in {"read", "lines", "done"} /\ broken \in BOOLEAN
  /\ reqs \in Seq(Request)

\* The bytes from position p to before position e.
Bytes(p, e) == [k \in 1 .. e - p |-> p + k - 1]

\* The end of the line before request n.
EndBefore(n) == IF n = 1 THEN 0 ELSE reqs[n - 1].end

\* e is the first line end after b.
NextEnd(b, e) == e \in nls /\ b < e /\ \A m \in nls : b < m => e <= m

\* Request n is made of line n, however the stream is cut into reads: of all of
\* it if it fits the buffer with its end, and else of the last part of it; so
\* there is one request, and one reply, for each line, in order.
LinePerRequest ==
  \A n \in DOMAIN reqs :
    LET b == EndBefore(n)
        e == reqs[n].end
    IN  /\ NextEnd(b, e)
        /\ \E p \in b + 1 .. e :
             /\ reqs[n].bytes = Bytes(p, e)
             /\ e - b <= Cap - 1 => p = b + 1

\* The connection is left only when the stream has ended and every line that
\* was complete has been answered, unless a reply could not be written: a
\* buffer without room is never taken for the end of the stream.
Drained ==
  pc = "done" /\ ~broken =>
    got = length /\ \A m \in nls : m <= EndBefore(Len(reqs) + 1)

-----------------------------------------------------------------------------
(* What every step relies on: the conjunction is inductive.                *)

\* The end of the last line taken.
LastEnd == EndBefore(Len(reqs) + 1)

\* Where the bytes not taken yet begin in the buffer.
Begin == IF pc = "lines" THEN start ELSE 0

\* The buffer holds the last bytes read, in order; the bytes between the last
\* line taken and the buffer were dropped, a whole buffer of them at least.
BufferShape ==
  /\ pc # "done" =>
       /\ Begin <= fill
       /\ \A j \in Begin .. fill - 1 : line[j] = got - fill + j + 1
       /\ LastEnd <= got - (fill - Begin)
       /\ \A m \in nls : LastEnd < m => got - (fill - Begin) < m
       /\ got - (fill - Begin) # LastEnd => got - (fill - Begin) - LastEnd >= Cap - 1
  /\ pc = "read" => fill < Cap - 1 /\ \A m \in nls : m <= got => m <= LastEnd

IndInv == TypeOK /\ BufferShape /\ LinePerRequest /\ Drained
=============================================================================
