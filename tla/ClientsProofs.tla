---------------------------- MODULE ClientsProofs ----------------------------
(***************************************************************************)
(* Theorems about Clients, for any number of callers and any requests.     *)
(***************************************************************************)
EXTENDS Clients, SharedLemmas, FiniteSetTheorems, SequenceTheorems, TLAPS

-----------------------------------------------------------------------------
(* Sequences of whatever they hold                                         *)

\* A sequence of elements of some set is a sequence of the elements it has.
LEMMA SequenceOf == ASSUME NEW S, NEW s \in Seq(S) PROVE IsSequence(s)
<1>1. s \in [1 .. Len(s) -> S] /\ Len(s) \in Nat
  BY LenProperties
<1>2. \A k \in 1 .. Len(s) : s[k] \in ToSet(s)
  BY <1>1 DEF ToSet
<1>3. s \in [1 .. Len(s) -> ToSet(s)]
  BY <1>1, <1>2
<1> QED BY <1>1, <1>3 DEF IsSequence

\* How long a sequence is, and when it is empty.
LEMMA SequenceLength ==
  ASSUME NEW s, IsSequence(s)
  PROVE  /\ Len(s) \in Nat /\ DOMAIN s = 1 .. Len(s)
         /\ s # <<>> <=> Len(s) # 0
<1> QED BY LenProperties, EmptySeq DEF IsSequence

LEMMA EmptySequence == IsSequence(<<>>) /\ Len(<<>>) = 0
<1>1. <<>> \in Seq({}) /\ Len(<<>>) = 0
  BY EmptySeq
<1> QED BY <1>1, SequenceOf

\* A value put at the end.
LEMMA AppendOwn ==
  ASSUME NEW s, IsSequence(s), NEW e
  PROVE  /\ IsSequence(Append(s, e))
         /\ Len(Append(s, e)) = Len(s) + 1
         /\ DOMAIN Append(s, e) = 1 .. Len(s) + 1
         /\ \A k \in 1 .. Len(s) : Append(s, e)[k] = s[k]
         /\ Append(s, e)[Len(s) + 1] = e
<1> DEFINE S == ToSet(s) \union {e}
<1>1. ToSet(s) \subseteq S /\ e \in S
  OBVIOUS
<1>2. s \in Seq(S)
  BY <1>1, SeqMonotonic DEF IsSequence
<1> HIDE DEF S
<1>3. Append(s, e) \in Seq(S)
  BY <1>1, <1>2, AppendProperties
<1>4. DOMAIN Append(s, e) = 1 .. Len(Append(s, e))
  BY <1>3, LenProperties
<1>5. Len(s) \in Nat
  BY SequenceLength
<1>6. /\ Len(Append(s, e)) = Len(s) + 1
      /\ \A k \in 1 .. Len(s) : Append(s, e)[k] = s[k]
      /\ Append(s, e)[Len(s) + 1] = e
  BY <1>1, <1>2, AppendProperties
<1>7. IsSequence(Append(s, e))
  BY <1>3, SequenceOf
<1> QED BY <1>4, <1>6, <1>7

\* What is behind the first value.
LEMMA TailOwn ==
  ASSUME NEW s, IsSequence(s), s # <<>>
  PROVE  /\ IsSequence(Tail(s))
         /\ Len(s) \in Nat \ {0} /\ Len(Tail(s)) = Len(s) - 1
         /\ Head(s) = s[1] /\ 1 \in DOMAIN s
         /\ \A k \in 1 .. Len(s) - 1 : Tail(s)[k] = s[k + 1]
<1>1. Len(s) \in Nat \ {0} /\ DOMAIN s = 1 .. Len(s)
  BY SequenceLength
<1>2. s \in Seq(ToSet(s))
  BY DEF IsSequence
<1>3. Tail(s) \in Seq(ToSet(s)) /\ Len(Tail(s)) = Len(s) - 1
      /\ \A i \in 1 .. Len(Tail(s)) : Tail(s)[i] = s[i + 1]
  BY <1>2, HeadTailProperties
<1>4. Head(s) = s[1]
  BY <1>1, <1>2
<1>5. IsSequence(Tail(s))
  BY <1>3, SequenceOf
<1> QED BY <1>1, <1>3, <1>4, <1>5

\* The first values of a sequence.
LEMMA PrefixOwn ==
  ASSUME NEW s, IsSequence(s), NEW n \in 0 .. Len(s)
  PROVE  /\ IsSequence(SubSeq(s, 1, n)) /\ Len(SubSeq(s, 1, n)) = n
         /\ \A k \in 1 .. n : SubSeq(s, 1, n)[k] = s[k]
<1>1. Len(s) \in Nat /\ DOMAIN s = 1 .. Len(s)
  BY SequenceLength
<1>2. \A k \in 1 .. n : s[k] \in ToSet(s)
  BY <1>1 DEF ToSet
<1>3. SubSeq(s, 1, n) \in Seq(ToSet(s))
      /\ Len(SubSeq(s, 1, n)) = (IF 1 <= n THEN n - 1 + 1 ELSE 0)
      /\ \A i \in 1 .. n - 1 + 1 : SubSeq(s, 1, n)[i] = s[1 + i - 1]
  BY <1>1, <1>2, SubSeqProperties, 1 \in Int, n \in Int
<1>4. IsSequence(SubSeq(s, 1, n))
  BY <1>3, SequenceOf
<1> QED BY <1>1, <1>3, <1>4

-----------------------------------------------------------------------------
(* json_str: what it reads of a string.                                    *)

\* U is what Unescaped computes, place by place.
Runs(line, U) ==
  /\ \A k \in 1 .. Len(line) + 2 : Unescaped(line, k) = U[k]
  /\ \A k \in 1 .. Len(line) :
       /\ line[k] = Quote => U[k] = <<>>
       /\ line[k] \notin {Quote, Backslash} => U[k] = <<line[k]>> \o U[k + 1]
       /\ line[k] = Backslash /\ k < Len(line) => U[k] = <<line[k + 1]>> \o U[k + 2]

\* There is such a function: the value at a place rests on those behind it.
LEMMA UnescapedRuns ==
  ASSUME NEW S, NEW line \in Seq(S)
  PROVE  \E U \in [1 .. Len(line) + 2 -> Seq(S)] : Runs(line, U)
<1> DEFINE n == Len(line)
           N == n + 2
           Ends(k) == k > n \/ line[k] = Quote
           Pair(k) == line[k] = Backslash /\ k < n
           stop == {k \in 0 .. N : k = 0 \/ Ends(k)}
           base == [k \in 0 .. N |-> <<>>]
           step == [k \in 0 .. N |-> [x \in Seq(S) |-> <<IF Pair(k) THEN line[k + 1] ELSE line[k]>> \o x]]
           next == [k \in 0 .. N |-> IF Pair(k) THEN k + 2 ELSE k + 1]
           E(u) == [k \in 1 .. N |->
                      IF Ends(k) THEN <<>>
                      ELSE IF Pair(k) THEN <<line[k + 1]>> \o u[k + 2] ELSE <<line[k]>> \o u[k + 1]]
<1>1. n \in Nat /\ \A k \in 1 .. n : line[k] \in S
  BY LenProperties, ElementOfSeq
<1>2. N \in Nat
  BY <1>1
<1> HIDE DEF n
<1>3. \A k \in 0 .. N : k \notin stop => k \in 1 .. n /\ (Pair(k) => k + 1 \in 1 .. n)
  BY <1>1
<1>4. \A k \in 0 .. N : k \in stop => base[k] \in Seq(S)
  BY EmptySeq
<1>5. \A k \in 0 .. N : k \notin stop => step[k] \in [Seq(S) -> Seq(S)]
  <2> SUFFICES ASSUME NEW k \in 0 .. N, k \notin stop
               PROVE  [x \in Seq(S) |-> <<IF Pair(k) THEN line[k + 1] ELSE line[k]>> \o x] \in [Seq(S) -> Seq(S)]
    OBVIOUS
  <2> DEFINE e == IF Pair(k) THEN line[k + 1] ELSE line[k]
  <2>1. e \in S
    BY <1>1, <1>3
  <2> HIDE DEF e
  <2>2. <<e>> \in Seq(S)
    BY <2>1
  <2>3. \A x \in Seq(S) : <<e>> \o x \in Seq(S)
    BY <2>2, ConcatProperties
  <2>4. [x \in Seq(S) |-> <<e>> \o x] \in [Seq(S) -> Seq(S)]
    BY <2>3
  <2> QED BY <2>4 DEF e
<1>6. \A k \in 0 .. N : k \notin stop => next[k] \in k + 1 .. N
  BY <1>1, <1>3
<1> HIDE DEF N, stop, base, step, next
<1>7. PICK g \in [0 .. N -> Seq(S)] : Climbs(g, N, stop, base, step, next)
  BY <1>2, <1>4, <1>5, <1>6, ClimbExists
<1> DEFINE u == [k \in 1 .. N |-> g[k]]
<1>8. \A k \in 1 .. N : k \in 0 .. N /\ (k \in stop <=> Ends(k)) /\ u[k] = g[k]
  BY <1>2 DEF stop
<1>9. ASSUME NEW k \in 1 .. N
      PROVE  u[k] = IF Ends(k) THEN <<>> ELSE IF Pair(k) THEN <<line[k + 1]>> \o u[k + 2] ELSE <<line[k]>> \o u[k + 1]
  <2>1. CASE Ends(k)
    BY <1>7, <1>8, <2>1 DEF Climbs, base
  <2>2. ASSUME ~ Ends(k) PROVE next[k] \in 1 .. N /\ u[next[k]] = g[next[k]] /\ u[k] = step[k][g[next[k]]] /\ g[next[k]] \in Seq(S)
    <3>1. k \notin stop /\ k \in 0 .. N /\ k \in Nat
      BY <1>8, <2>2
    <3>2. next[k] \in k + 1 .. N
      BY <1>6, <3>1
    <3>3. next[k] \in 1 .. N /\ next[k] \in 0 .. N
      BY <1>2, <3>1, <3>2
    <3> QED BY <1>7, <1>8, <3>1, <3>3 DEF Climbs
  <2>3. CASE ~ Ends(k) /\ Pair(k)
    <3>1. next[k] = k + 2 /\ \A x \in Seq(S) : step[k][x] = <<line[k + 1]>> \o x
      BY <1>8, <2>3 DEF next, step
    <3> QED BY <2>2, <2>3, <3>1
  <2>4. CASE ~ Ends(k) /\ ~ Pair(k)
    <3>1. next[k] = k + 1 /\ \A x \in Seq(S) : step[k][x] = <<line[k]>> \o x
      BY <1>8, <2>4 DEF next, step
    <3> QED BY <2>2, <2>4, <3>1
  <2> QED BY <2>1, <2>3, <2>4
<1> HIDE DEF u
<1>10. u \in [1 .. N -> Seq(S)]
  BY <1>7, <1>8 DEF u
<1>11. u = E(u)
  BY <1>9, <1>10
<1>12. \A k : Unescaped(line, k) = (CHOOSE f : f = E(f))[k]
  BY DEF Unescaped, N, n
<1> DEFINE U == CHOOSE f : f = E(f)
<1>13. U = E(U)
  <2> HIDE DEF E
  <2> QED BY <1>11
<1> HIDE DEF U
<1>14. \A k \in 1 .. N : U[k] = IF Ends(k) THEN <<>> ELSE IF Pair(k) THEN <<line[k + 1]>> \o U[k + 2]
                                                 ELSE <<line[k]>> \o U[k + 1]
  <2> DEFINE g2 == E(U)
  <2>1. \A k \in 1 .. N : g2[k] = IF Ends(k) THEN <<>> ELSE IF Pair(k) THEN <<line[k + 1]>> \o U[k + 2]
                                                     ELSE <<line[k]>> \o U[k + 1]
    OBVIOUS
  <2>2. U = g2
    BY <1>13
  <2> HIDE DEF g2
  <2> QED BY <2>1, <2>2
<1>15. DOMAIN U = 1 .. N
  BY <1>13
<1>16. \A k \in 1 .. N : U[k] = u[k]
  <2> HIDE DEF E
  <2> DEFINE T == {k \in 0 .. N : \A j \in k .. N : j # 0 => U[j] = u[j]}
  <2>1. N \in T
    <3>1. \A j \in N .. N : j = N /\ N \in 1 .. N /\ Ends(N)
      BY <1>1 DEF N
    <3>2. N \in 1 .. N /\ Ends(N)
      BY <1>1 DEF N
    <3> HIDE DEF Ends, Pair
    <3>3. U[N] = u[N]
      BY <1>9, <1>14, <3>2
    <3> QED BY <1>2, <3>1, <3>3
  <2>2. ASSUME NEW k \in 1 .. N, k \in T PROVE k - 1 \in T
    <3>1. \A j \in k .. N : U[j] = u[j]
      BY <2>2
    <3> SUFFICES ASSUME k - 1 # 0 PROVE U[k - 1] = u[k - 1]
      <4>1. k - 1 \in 0 .. N /\ \A j \in k - 1 .. N : j = k - 1 \/ j \in k .. N
        BY <1>2
      <4> QED BY <3>1, <4>1
    <3>2. k - 1 \in 1 .. N /\ k - 1 \in 0 .. N /\ k - 1 + 1 = k /\ k - 1 + 2 = k + 1 /\ k \in k .. N
      BY <1>2
    <3> DEFINE j == k - 1
    <3>3. j \in 1 .. N /\ j + 1 = k /\ j + 2 = k + 1 /\ k \in k .. N
      BY <3>2
    <3>4. Pair(j) => k + 1 \in k .. N
      BY <1>1, <1>2, <3>3 DEF N
    <3> HIDE DEF j, Ends, Pair
    <3>5. U[j] = u[j]
      BY ZenonT(30), <1>9, <1>14, <3>1, <3>3, <3>4
    <3> QED BY <3>5 DEF j
  <2> HIDE DEF T
  <2>3. \A k \in 0 .. N : k \in T
    BY <1>2, <2>1, <2>2, DownToZero
  <2>4. 1 \in 0 .. N /\ 1 \in T /\ \A k \in 1 .. N : k # 0
    BY <1>1, <2>3 DEF N
  <2> QED BY <2>4 DEF T
<1>17. U \in [1 .. N -> Seq(S)]
  <2>1. \A k \in 1 .. N : U[k] \in Seq(S)
    BY <1>10, <1>16
  <2>2. U = [k \in 1 .. N |-> U[k]]
    <3> DEFINE w == E(U)
    <3>1. w = [k \in DOMAIN w |-> w[k]]
      OBVIOUS
    <3>2. U = w
      BY <1>13
    <3> HIDE DEF w
    <3> QED BY <1>15, <3>1, <3>2
  <2> HIDE DEF E
  <2> QED BY <2>1, <2>2
<1>18. \A k : Unescaped(line, k) = U[k]
  BY <1>12 DEF U
<1> HIDE DEF E
<1>19. ASSUME NEW k \in 1 .. n
       PROVE  /\ line[k] = Quote => U[k] = <<>>
              /\ line[k] \notin {Quote, Backslash} => U[k] = <<line[k]>> \o U[k + 1]
              /\ line[k] = Backslash /\ k < n => U[k] = <<line[k + 1]>> \o U[k + 2]
  <2>1. k \in 1 .. N /\ ~ (k > n) /\ Quote # Backslash
    BY <1>1 DEF N, Quote, Backslash
  <2>2. (Ends(k) <=> line[k] = Quote) /\ (Pair(k) <=> line[k] = Backslash /\ k < n)
    BY <2>1
  <2> HIDE DEF Ends, Pair
  <2> QED BY <1>14, <2>1, <2>2
<1> QED BY <1>17, <1>18, <1>19 DEF N, n, Runs

\* The string that is read is a sequence, too.
LEMMA StringsRead ==
  ASSUME NEW S, NEW line \in Seq(S), NEW name, NEW text \in json_str(line, name)
  PROVE  text \in Seq(S)
<1>1. PICK m \in ValueAt(line, name) : text = Unescaped(line, m + 1)
  BY DEF json_str
<1>2. m \in 1 .. Len(line) /\ Len(line) \in Nat
  BY LenProperties DEF ValueAt
<1>3. m + 1 \in 1 .. Len(line) + 2
  BY <1>2
<1>4. PICK U \in [1 .. Len(line) + 2 -> Seq(S)] : \A k \in 1 .. Len(line) + 2 : Unescaped(line, k) = U[k]
  BY UnescapedRuns DEF Runs
<1> QED BY <1>1, <1>3, <1>4

-----------------------------------------------------------------------------
(* Sequences that stand in a line                                          *)

\* s stands in the line from its place i on.
Stands(line, i, s) ==
  /\ i \in Nat \ {0} /\ Len(s) \in Nat /\ i + Len(s) - 1 <= Len(line)
  /\ \A k \in 1 .. Len(s) : line[i + k - 1] = s[k]

\* A sequence stands in itself.
LEMMA StandsItself ==
  ASSUME NEW S, NEW s \in Seq(S) PROVE Stands(s, 1, s)
<1>1. Len(s) \in Nat
  BY LenProperties
<1>2. \A k \in 1 .. Len(s) : 1 + k - 1 = k
  BY <1>1
<1> QED BY <1>1, <1>2 DEF Stands

\* The parts of a concatenation stand behind one another.
LEMMA StandsSplit ==
  ASSUME NEW S, NEW s \in Seq(S), NEW t \in Seq(S), NEW line, Len(line) \in Nat,
         NEW i \in Nat \ {0}, Stands(line, i, s \o t)
  PROVE  Stands(line, i, s) /\ Stands(line, i + Len(s), t) /\ Len(s) \in Nat /\ Len(t) \in Nat
<1>1. /\ Len(s \o t) = Len(s) + Len(t) /\ Len(s) \in Nat /\ Len(t) \in Nat
      /\ \A k \in 1 .. Len(s) : (s \o t)[k] = s[k]
      /\ \A k \in 1 .. Len(t) : (s \o t)[Len(s) + k] = t[k]
  BY Concatenated
<1>2. /\ i + Len(s \o t) - 1 <= Len(line)
      /\ \A k \in 1 .. Len(s \o t) : line[i + k - 1] = (s \o t)[k]
  BY DEF Stands
<1>3. Stands(line, i, s)
  <2>1. ASSUME NEW k \in 1 .. Len(s) PROVE line[i + k - 1] = s[k]
    <3>1. k \in 1 .. Len(s \o t)
      BY <1>1
    <3> QED BY <1>1, <1>2, <3>1
  <2>2. i + Len(s) - 1 <= Len(line)
    BY <1>1, <1>2
  <2> QED BY <1>1, <2>1, <2>2 DEF Stands
<1>4. Stands(line, i + Len(s), t)
  <2>1. ASSUME NEW k \in 1 .. Len(t) PROVE line[i + Len(s) + k - 1] = t[k]
    <3>1. Len(s) + k \in 1 .. Len(s \o t) /\ i + (Len(s) + k) - 1 = i + Len(s) + k - 1
      BY <1>1
    <3>2. line[i + (Len(s) + k) - 1] = (s \o t)[Len(s) + k]
      BY <1>2, <3>1
    <3> QED BY <1>1, <3>1, <3>2
  <2>2. i + Len(s) + Len(t) - 1 <= Len(line) /\ i + Len(s) \in Nat \ {0}
    BY <1>1, <1>2
  <2> QED BY <1>1, <2>1, <2>2 DEF Stands
<1> QED BY <1>1, <1>3, <1>4

-----------------------------------------------------------------------------
(* What the clients' encoders write                                        *)

\* The blanks behind a colon.
Blanks(b) == IF b = "python" THEN 1 ELSE 0

\* A field is its name in quotes, a colon, perhaps a blank, and its value.
LEMMA FieldIs ==
  ASSUME NEW b, NEW name \in Pieces, NEW value \in Seq(Pieces)
  PROVE  /\ Field(b, name, value) \in Seq(Pieces)
         /\ Len(Field(b, name, value)) = 4 + Blanks(b) + Len(value)
         /\ \A line : \A i \in Nat \ {0} :
              Len(line) \in Nat /\ Stands(line, i, Field(b, name, value)) =>
                /\ line[i] = Quote /\ line[i + 1] = name /\ line[i + 2] = Quote /\ line[i + 3] = ":"
                /\ b = "python" => line[i + 4] = Space
                /\ Stands(line, i + 4 + Blanks(b), value)
<1> DEFINE f == <<Quote, name, Quote, ":">>
           g == IF b = "python" THEN <<Space>> ELSE <<>>
<1>1. f \in Seq(Pieces) /\ Len(f) = 4 /\ f[1] = Quote /\ f[2] = name /\ f[3] = Quote /\ f[4] = ":"
  <2>1. Quote \in Pieces /\ ":" \in Pieces
    BY DEF Pieces
  <2> QED BY <2>1
<1>2. g \in Seq(Pieces) /\ Len(g) = Blanks(b) /\ (b = "python" => g[1] = Space)
  <2>1. Space \in Pieces
    BY DEF Pieces
  <2>2. CASE b = "python"
    <3>1. g = <<Space>> /\ Blanks(b) = 1
      BY <2>2 DEF Blanks
    <3>3. \A x \in Pieces : <<x>> \in Seq(Pieces) /\ Len(<<x>>) = 1 /\ <<x>>[1] = x
      OBVIOUS
    <3>2. <<Space>> \in Seq(Pieces) /\ Len(<<Space>>) = 1 /\ <<Space>>[1] = Space
      BY <2>1, <3>3
    <3> HIDE DEF g
    <3> QED BY <3>1, <3>2
  <2>3. CASE b # "python"
    <3>1. g = <<>> /\ Blanks(b) = 0
      BY <2>3 DEF Blanks
    <3> HIDE DEF g
    <3> QED BY <2>3, <3>1, EmptySeq
  <2> QED BY <2>2, <2>3
<1>3. Field(b, name, value) = f \o (g \o value)
  <2>1. Field(b, name, value) = (f \o g) \o value
    BY DEF Field
  <2>2. f \in Seq(Pieces) /\ g \in Seq(Pieces)
    BY <1>1, <1>2
  <2> HIDE DEF f, g
  <2>3. (f \o g) \o value = f \o (g \o value)
    BY <2>2, ConcatAssociative
  <2> QED BY <2>1, <2>3
<1> HIDE DEF f, g
<1>6. Blanks(b) \in 0 .. 1 /\ (b = "python" => Blanks(b) = 1)
  BY DEF Blanks
<1>4. g \o value \in Seq(Pieces) /\ Len(g \o value) = Blanks(b) + Len(value) /\ Len(value) \in Nat
  BY <1>2, Concatenated
<1>5. f \o (g \o value) \in Seq(Pieces) /\ Len(f \o (g \o value)) = Len(f) + Len(g \o value)
  BY <1>1, <1>4, Concatenated
<1>7. ASSUME NEW line, NEW i \in Nat \ {0}, Len(line) \in Nat, Stands(line, i, f \o (g \o value))
      PROVE  /\ line[i] = Quote /\ line[i + 1] = name /\ line[i + 2] = Quote /\ line[i + 3] = ":"
             /\ b = "python" => line[i + 4] = Space
             /\ Stands(line, i + 4 + Blanks(b), value)
  <2>1. Stands(line, i, f) /\ Stands(line, i + Len(f), g \o value)
    BY <1>1, <1>4, <1>7, StandsSplit
  <2>2. i + 4 \in Nat \ {0} /\ Stands(line, i + 4, g \o value)
    BY <1>1, <2>1
  <2>3. Stands(line, i + 4, g) /\ Stands(line, i + 4 + Len(g), value)
    BY <1>2, <1>7, <2>2, StandsSplit
  <2>4. line[i] = Quote /\ line[i + 1] = name /\ line[i + 2] = Quote /\ line[i + 3] = ":"
    <3>1. \A k \in 1 .. 4 : line[i + k - 1] = f[k]
      BY <1>1, <2>1 DEF Stands
    <3>2. i + 1 - 1 = i /\ i + 2 - 1 = i + 1 /\ i + 3 - 1 = i + 2 /\ i + 4 - 1 = i + 3
      OBVIOUS
    <3>3. line[i] = f[1] /\ line[i + 1] = f[2] /\ line[i + 2] = f[3] /\ line[i + 3] = f[4]
      BY <3>1, <3>2
    <3> QED BY <1>1, <3>3
  <2>5. b = "python" => line[i + 4] = Space
    <3> SUFFICES ASSUME b = "python" PROVE line[i + 4] = Space
      OBVIOUS
    <3>4. Len(g) = 1
      BY <1>2, <1>6
    <3>5. \A k \in 1 .. Len(g) : line[i + 4 + k - 1] = g[k]
      BY <2>3 DEF Stands
    <3>3. 1 \in 1 .. Len(g) /\ \A k \in 1 .. Len(g) : line[i + 4 + k - 1] = g[k]
      BY <3>4, <3>5
    <3>1. line[i + 4 + 1 - 1] = g[1]
      BY <3>3
    <3>2. i + 4 + 1 - 1 = i + 4
      OBVIOUS
    <3> QED BY <1>2, <3>1, <3>2
  <2> QED BY <1>2, <2>3, <2>4, <2>5
<1>8. Len(f \o (g \o value)) = 4 + Blanks(b) + Len(value)
  BY <1>1, <1>4, <1>5, <1>6
<1> QED BY <1>3, <1>5, <1>7, <1>8

\* The encoded text: what stands for each of its pieces, one behind the other.
Encoded(b, s) == [k \in DOMAIN s |-> Escaped(b, s[k])]

\* A piece comes as it is, or behind a backslash.
LEMMA EscapedIs ==
  ASSUME NEW b, NEW x \in DOMAIN Width
  PROVE  \/ /\ Escaped(b, x) = <<x>> /\ Escaped(b, x) \in Seq(Pieces)
            /\ Len(Escaped(b, x)) = 1 /\ Escaped(b, x)[1] = x
            /\ x \notin {Quote, Backslash}
         \/ \E y \in {x, "n", "u00e9", "u003c"} :
              /\ Escaped(b, x) = <<Backslash, y>> /\ Escaped(b, x) \in Seq(Pieces)
              /\ Len(Escaped(b, x)) = 2 /\ Escaped(b, x)[1] = Backslash /\ Escaped(b, x)[2] = y
              /\ x \in {Quote, Backslash} => y = x
              /\ x \notin {Quote, Backslash} =>
                   y # x /\ (x = Newline \/ (x = Accent /\ b = "python") \/ (x = Open /\ b = "go"))
<1> DEFINE Long(y) == /\ x \in {Quote, Backslash} => y = x
                      /\ x \notin {Quote, Backslash} =>
                           y # x /\ (x = Newline \/ (x = Accent /\ b = "python") \/ (x = Open /\ b = "go"))
<1>1. x \in Pieces /\ Backslash \in Pieces /\ "n" \in Pieces /\ "u00e9" \in Pieces /\ "u003c" \in Pieces
  BY DEF Pieces
<1>2. \/ Escaped(b, x) = <<x>> /\ x \notin {Quote, Backslash}
      \/ \E y \in {x, "n", "u00e9", "u003c"} : Escaped(b, x) = <<Backslash, y>> /\ Long(y)
  <2>1. CASE x \in {Quote, Backslash}
    <3>1. x \notin {Newline, Accent, Open}
      BY <2>1 DEF Quote, Backslash, Newline, Accent, Open
    <3>2. Escaped(b, x) = <<Backslash, x>>
      BY <2>1, <3>1 DEF Escaped
    <3> QED BY <2>1, <3>2
  <2>2. CASE x = Newline
    <3>1. x \notin {Quote, Backslash, Accent, Open} /\ "n" # x
      BY <2>2 DEF Quote, Backslash, Newline, Accent, Open
    <3>2. Escaped(b, x) = <<Backslash, "n">>
      BY <2>2, <3>1 DEF Escaped
    <3> QED BY <2>2, <3>1, <3>2
  <2>3. CASE x = Accent /\ b = "python"
    <3>1. x \notin {Quote, Backslash, Newline, Open} /\ "u00e9" # x
      BY <2>3 DEF Quote, Backslash, Newline, Accent, Open
    <3>2. Escaped(b, x) = <<Backslash, "u00e9">>
      BY <2>3, <3>1 DEF Escaped
    <3> QED BY <2>3, <3>1, <3>2
  <2>4. CASE x = Open /\ b = "go"
    <3>1. x \notin {Quote, Backslash, Newline, Accent} /\ "u003c" # x
      BY <2>4 DEF Quote, Backslash, Newline, Accent, Open
    <3>2. Escaped(b, x) = <<Backslash, "u003c">>
      BY <2>4, <3>1 DEF Escaped
    <3> QED BY <2>4, <3>1, <3>2
  <2>5. CASE ~ (x \in {Quote, Backslash}) /\ ~ (x = Newline) /\ ~ (x = Accent /\ b = "python")
             /\ ~ (x = Open /\ b = "go")
    BY <2>5 DEF Escaped
  <2> QED BY <2>1, <2>2, <2>3, <2>4, <2>5
<1>3. \A y \in Pieces : /\ <<y>> \in Seq(Pieces) /\ Len(<<y>>) = 1 /\ <<y>>[1] = y
                        /\ <<Backslash, y>> \in Seq(Pieces) /\ Len(<<Backslash, y>>) = 2
                        /\ <<Backslash, y>>[1] = Backslash /\ <<Backslash, y>>[2] = y
  <2> HIDE DEF Backslash
  <2> QED BY <1>1
<1> HIDE DEF Long
<1>4. CASE Escaped(b, x) = <<x>> /\ x \notin {Quote, Backslash}
  BY <1>1, <1>3, <1>4
<1>5. ASSUME NEW y \in {x, "n", "u00e9", "u003c"}, Escaped(b, x) = <<Backslash, y>>, Long(y)
      PROVE  /\ Escaped(b, x) \in Seq(Pieces)
             /\ Len(Escaped(b, x)) = 2 /\ Escaped(b, x)[1] = Backslash /\ Escaped(b, x)[2] = y
  BY <1>1, <1>3, <1>5
<1> QED BY <1>2, <1>4, <1>5 DEF Long

\* Where the pieces of an encoded text stand.
LEMMA EncodedStands ==
  ASSUME NEW b, NEW s \in Seq(DOMAIN Width)
  PROVE  /\ Encoded(b, s) \in Seq(Seq(Pieces)) /\ Len(Encoded(b, s)) = Len(s)
         /\ Len(s) \in Nat /\ DOMAIN s = 1 .. Len(s)
         /\ \A k \in 1 .. Len(s) : s[k] \in DOMAIN Width /\ Encoded(b, s)[k] = Escaped(b, s[k])
<1>1. Len(s) \in Nat /\ DOMAIN s = 1 .. Len(s) /\ \A k \in 1 .. Len(s) : s[k] \in DOMAIN Width
  BY LenProperties, ElementOfSeq
<1>2. \A k \in 1 .. Len(s) : Escaped(b, s[k]) \in Seq(Pieces)
  BY <1>1, EscapedIs
<1> DEFINE e == Encoded(b, s)
<1>3. e \in [1 .. Len(s) -> Seq(Pieces)] /\ \A k \in 1 .. Len(s) : e[k] = Escaped(b, s[k])
  BY <1>1, <1>2 DEF Encoded
<1> HIDE DEF e
<1>4. e \in Seq(Seq(Pieces)) /\ Len(e) = Len(s)
  BY <1>1, <1>3
<1> QED BY <1>1, <1>3, <1>4 DEF e

\* A text is written in quotes, its pieces encoded.
LEMMA StringIs ==
  ASSUME NEW b, NEW s \in Seq(DOMAIN Width)
  PROVE  LET F == FlattenSeq(Encoded(b, s))
         IN  /\ F \in Seq(Pieces) /\ Len(F) \in Nat
             /\ String(b, s) \in Seq(Pieces) /\ Len(String(b, s)) = Len(F) + 2
             /\ \A line : \A i \in Nat \ {0} :
                  Len(line) \in Nat /\ Stands(line, i, String(b, s)) =>
                    /\ line[i] = Quote /\ Stands(line, i + 1, F)
                    /\ i + 1 + Len(F) <= Len(line) /\ line[i + 1 + Len(F)] = Quote
<1> DEFINE F == FlattenSeq(Encoded(b, s))
           q == <<Quote>>
<1>1. F \in Seq(Pieces) /\ Len(F) \in Nat
  <2>1. F \in Seq(Pieces)
    BY EncodedStands, Flattened
  <2> QED BY <2>1, LenProperties
<1>2. q \in Seq(Pieces) /\ Len(q) = 1 /\ q[1] = Quote
  <2>1. Quote \in Pieces
    BY DEF Pieces
  <2> HIDE DEF Quote
  <2> QED BY <2>1
<1>3. String(b, s) = (q \o F) \o q
  BY DEF String, Encoded
<1> HIDE DEF F, q
<1>4. q \o F \in Seq(Pieces) /\ Len(q \o F) = Len(F) + 1
  <2>1. q \o F \in Seq(Pieces) /\ Len(q \o F) = Len(q) + Len(F)
    BY <1>1, <1>2, ConcatProperties
  <2> QED BY <1>1, <1>2, <2>1
<1>5. (q \o F) \o q \in Seq(Pieces) /\ Len((q \o F) \o q) = Len(F) + 2
  <2> DEFINE h == q \o F
  <2>1. h \in Seq(Pieces) /\ Len(h) = Len(F) + 1
    BY <1>4
  <2> HIDE DEF h
  <2>2. h \o q \in Seq(Pieces) /\ Len(h \o q) = Len(h) + Len(q)
    BY <1>2, <2>1, ConcatProperties
  <2>3. h \o q \in Seq(Pieces) /\ Len(h \o q) = Len(F) + 2
    BY <1>1, <1>2, <2>1, <2>2
  <2> QED BY <2>3 DEF h
<1>6. ASSUME NEW line, NEW i \in Nat \ {0}, Len(line) \in Nat, Stands(line, i, (q \o F) \o q)
      PROVE  /\ line[i] = Quote /\ Stands(line, i + 1, F)
             /\ i + 1 + Len(F) <= Len(line) /\ line[i + 1 + Len(F)] = Quote
  <2>1. Stands(line, i, q \o F) /\ Stands(line, i + Len(q \o F), q)
    BY <1>2, <1>4, <1>6, StandsSplit
  <2>2. Stands(line, i, q) /\ Stands(line, i + Len(q), F)
    BY <1>1, <1>2, <1>6, <2>1, StandsSplit
  <2>3. line[i + 1 - 1] = q[1]
    <3>1. 1 \in 1 .. Len(q) /\ \A k \in 1 .. Len(q) : line[i + k - 1] = q[k]
      BY <1>2, <2>2 DEF Stands
    <3> QED BY <3>1
  <2>4. /\ i + Len(q \o F) + Len(q) - 1 <= Len(line)
        /\ line[i + Len(q \o F) + 1 - 1] = q[1]
    <3>1. 1 \in 1 .. Len(q) /\ \A k \in 1 .. Len(q) : line[i + Len(q \o F) + k - 1] = q[k]
      BY <1>2, <2>1 DEF Stands
    <3> QED BY <2>1, <3>1 DEF Stands
  <2>5. /\ i + 1 - 1 = i /\ i + Len(q \o F) + 1 - 1 = i + 1 + Len(F)
        /\ i + Len(q \o F) + Len(q) - 1 = i + 1 + Len(F) /\ i + Len(q) = i + 1
    BY <1>1, <1>2, <1>4
  <2> QED BY <1>2, <2>2, <2>3, <2>4, <2>5
<1> QED BY <1>1, <1>3, <1>5, <1>6 DEF F

\* No offset is behind the last.
LEMMA OffsetsWithin ==
  ASSUME NEW ss, Len(ss) \in Nat, NEW p, Offsets(p, ss), \A k \in 1 .. Len(ss) : Len(ss[k]) \in Nat
  PROVE  \A k \in 0 .. Len(ss) : p[k] \in 0 .. p[Len(ss)]
<1>1. \A k \in 0 .. Len(ss) : p[k] \in Nat /\ Len(ss) \in 0 .. Len(ss) /\ k <= Len(ss)
  BY DEF Offsets
<1>2. \A k \in 0 .. Len(ss) : p[k] <= p[Len(ss)]
  BY <1>1, OffsetsGrow
<1> QED BY <1>1, <1>2

\* The pieces of an encoded text where they stand in the line.
Placed(line, i, b, s, p) ==
  /\ \A k \in 0 .. Len(s) : p[k] \in Nat /\ i + p[k] \in 1 .. Len(line)
  /\ p[0] = 0 /\ line[i + p[Len(s)]] = Quote
  /\ \A k \in 1 .. Len(s) :
       /\ p[k] = p[k - 1] + Len(Escaped(b, s[k]))
       /\ \A m \in 1 .. Len(Escaped(b, s[k])) :
            /\ i + p[k - 1] + m - 1 \in 1 .. Len(line)
            /\ line[i + p[k - 1] + m - 1] = Escaped(b, s[k])[m]

\* Every piece of a text that stands in a line has its place there.
LEMMA TextPlaced ==
  ASSUME NEW b, NEW s \in Seq(DOMAIN Width), NEW line, Len(line) \in Nat, NEW i \in Nat \ {0},
         Stands(line, i, FlattenSeq(Encoded(b, s))),
         i + Len(FlattenSeq(Encoded(b, s))) <= Len(line),
         line[i + Len(FlattenSeq(Encoded(b, s)))] = Quote
  PROVE  \E p : /\ Placed(line, i, b, s, p) /\ p[Len(s)] = Len(FlattenSeq(Encoded(b, s)))
                /\ \A q \in 1 .. Len(FlattenSeq(Encoded(b, s))) :
                     \E k \in 1 .. Len(s) : \E m \in 1 .. Len(Escaped(b, s[k])) : q = p[k - 1] + m
<1> DEFINE e == Encoded(b, s)
           F == FlattenSeq(e)
<1>1. /\ e \in Seq(Seq(Pieces)) /\ Len(e) = Len(s) /\ Len(s) \in Nat
      /\ \A k \in 1 .. Len(s) : e[k] = Escaped(b, s[k]) /\ Len(e[k]) \in Nat
  <2>1. /\ e \in Seq(Seq(Pieces)) /\ Len(e) = Len(s) /\ Len(s) \in Nat
        /\ \A k \in 1 .. Len(s) : e[k] = Escaped(b, s[k])
    BY EncodedStands
  <2> HIDE DEF e
  <2>2. \A k \in 1 .. Len(s) : e[k] \in Seq(Pieces)
    BY <2>1, ElementOfSeq
  <2> QED BY <2>1, <2>2, LenProperties
<1>2. Stands(line, i, F) /\ i + Len(F) <= Len(line) /\ line[i + Len(F)] = Quote
  OBVIOUS
<1> HIDE DEF e
<1>3. PICK p : /\ Offsets(p, e) /\ p[Len(e)] = Len(F)
               /\ \A k \in 1 .. Len(e) : \A m \in 1 .. Len(e[k]) : F[p[k - 1] + m] = e[k][m]
  BY <1>1, Flattened
<1>4. \A k \in 0 .. Len(e) : p[k] \in 0 .. p[Len(e)]
  BY <1>1, <1>3, OffsetsWithin
<1>5. \A q \in 1 .. Len(F) : \E k \in 1 .. Len(e) : \E m \in 1 .. Len(e[k]) : q = p[k - 1] + m
  <2>1. Len(e) \in Nat /\ Offsets(p, e) /\ \A k \in 1 .. Len(e) : Len(e[k]) \in Nat
    BY <1>1, <1>3
  <2>2. \A q \in 1 .. p[Len(e)] : \E k \in 1 .. Len(e) : \E m \in 1 .. Len(e[k]) : q = p[k - 1] + m
    <3> SUFFICES ASSUME NEW q \in 1 .. p[Len(e)]
                 PROVE  \E k \in 1 .. Len(e) : \E m \in 1 .. Len(e[k]) : q = p[k - 1] + m
      OBVIOUS
    <3> HIDE DEF F
    <3> QED BY ONLY <2>1, Covered, q \in 1 .. p[Len(e)]
  <2> QED BY <1>3, <2>2
<1> HIDE DEF F
<1>6. Len(F) \in Nat /\ \A k \in 1 .. Len(F) : line[i + k - 1] = F[k]
  BY <1>2 DEF Stands
<1>7. \A k \in 0 .. Len(s) : p[k] \in Nat /\ i + p[k] \in 1 .. Len(line)
  BY SMTT(20), <1>1, <1>2, <1>3, <1>4, <1>6
<1>8. p[0] = 0 /\ line[i + p[Len(s)]] = Quote
  BY <1>1, <1>2, <1>3 DEF Offsets
<1>9. ASSUME NEW k \in 1 .. Len(s)
      PROVE  /\ p[k] = p[k - 1] + Len(Escaped(b, s[k]))
             /\ \A m \in 1 .. Len(Escaped(b, s[k])) :
                  /\ i + p[k - 1] + m - 1 \in 1 .. Len(line)
                  /\ line[i + p[k - 1] + m - 1] = Escaped(b, s[k])[m]
  <2>1. e[k] = Escaped(b, s[k]) /\ Len(e[k]) \in Nat
    BY <1>1
  <2>2. p[k] = p[k - 1] + Len(e[k])
    BY <1>1, <1>3 DEF Offsets
  <2>3. k - 1 \in 0 .. Len(s) /\ k \in 0 .. Len(s)
    BY <1>1
  <2>4. p[k - 1] \in Nat /\ p[k] \in Nat /\ p[k] <= Len(F)
    BY SMTT(20), <1>1, <1>3, <1>4, <1>7, <2>3
  <2>5. ASSUME NEW m \in 1 .. Len(e[k])
        PROVE  /\ i + p[k - 1] + m - 1 \in 1 .. Len(line)
               /\ line[i + p[k - 1] + m - 1] = e[k][m]
    <3>1. p[k - 1] + m \in 1 .. Len(F) /\ i + (p[k - 1] + m) - 1 = i + p[k - 1] + m - 1
      <4> DEFINE a == p[k - 1]
                 l == Len(e[k])
      <4>1. a \in Nat /\ m \in 1 .. l /\ l \in Nat /\ Len(F) \in Nat /\ a + l <= Len(F)
        BY <1>6, <2>1, <2>2, <2>4
      <4> HIDE DEF a, l
      <4>2. a + m \in 1 .. Len(F) /\ i + (a + m) - 1 = i + a + m - 1
        BY <4>1
      <4> QED BY <4>2 DEF a
    <3>2. line[i + (p[k - 1] + m) - 1] = F[p[k - 1] + m]
      BY <1>6, <3>1
    <3>3. F[p[k - 1] + m] = e[k][m]
      BY <1>1, <1>3
    <3>4. i + p[k - 1] + m - 1 \in 1 .. Len(line)
      <4> DEFINE a == p[k - 1] + m
      <4>1. a \in 1 .. Len(F) /\ Len(F) \in Nat /\ i + Len(F) <= Len(line)
        BY <1>2, <1>6, <3>1
      <4> HIDE DEF a
      <4>2. i + a - 1 \in 1 .. Len(line)
        BY <4>1
      <4> QED BY <3>1, <4>2 DEF a
    <3> QED BY <3>1, <3>2, <3>3, <3>4
  <2> QED BY <2>1, <2>2, <2>5
<1>10. Placed(line, i, b, s, p)
  BY <1>7, <1>8, <1>9 DEF Placed
<1>11. p[Len(s)] = Len(F)
  BY <1>1, <1>3
<1>12. \A q \in 1 .. Len(F) :
         \E k \in 1 .. Len(s) : \E m \in 1 .. Len(Escaped(b, s[k])) : q = p[k - 1] + m
  BY <1>1, <1>5
<1> QED BY <1>10, <1>11, <1>12 DEF F, e

\* The texts the encoders and the server's parser agree on,
Readable(b, s) ==
  \A k \in 1 .. Len(s) :
    s[k] # Newline /\ (b = "python" => s[k] # Accent) /\ (b = "go" => s[k] # Open)

\* are read as they were.
LEMMA ReadBack ==
  ASSUME NEW b, NEW s \in Seq(DOMAIN Width), NEW line \in Seq(Pieces), NEW i \in Nat \ {0},
         NEW p, Placed(line, i, b, s, p), Readable(b, s)
  PROVE  Unescaped(line, i) = s
<1> DEFINE n == Len(s)
           L == Len(line)
           T == {k \in 0 .. n : i + p[k] \in 1 .. L + 2 => Unescaped(line, i + p[k]) = SubSeq(s, k + 1, n)}
<1>1. n \in Nat /\ L \in Nat /\ \A k \in 1 .. n : s[k] \in DOMAIN Width
  BY LenProperties, ElementOfSeq
<1>2. PICK U \in [1 .. L + 2 -> Seq(Pieces)] : Runs(line, U)
  BY UnescapedRuns
<1>12. /\ \A k \in 1 .. L + 2 : Unescaped(line, k) = U[k]
       /\ \A k \in 1 .. L :
            /\ line[k] = Quote => U[k] = <<>>
            /\ line[k] \notin {Quote, Backslash} => U[k] = <<line[k]>> \o U[k + 1]
            /\ line[k] = Backslash /\ k < L => U[k] = <<line[k + 1]>> \o U[k + 2]
  BY <1>2 DEF Runs
<1>3. \A k \in 0 .. n : p[k] \in Nat /\ i + p[k] \in 1 .. L
  BY DEF Placed
<1>4. i + p[n] \in 1 .. L + 2 /\ U[i + p[n]] = <<>> /\ SubSeq(s, n + 1, n) = <<>>
  <2>1. i + p[n] \in 1 .. L + 2 /\ i + p[n] \in 1 .. L
    BY <1>1, <1>3
  <2>2. line[i + p[n]] = Quote
    BY DEF Placed
  <2>3. SubSeq(s, n + 1, n) = <<>>
    BY <1>1, SubSeqEmpty
  <2> HIDE DEF n, L
  <2> QED BY <1>12, <2>1, <2>2, <2>3
<1>5. ASSUME NEW k \in 1 .. n, k \in T PROVE k - 1 \in T
  <2> DEFINE x == s[k]
             j == i + p[k - 1]
             e == Escaped(b, x)
  <2>1. k - 1 \in 0 .. n /\ k \in 0 .. n /\ k - 1 + 1 = k
    BY <1>1
  <2>2. i + p[k] \in 1 .. L + 2 /\ j \in 1 .. L + 2 /\ j \in 1 .. L
    BY SMTT(20), <1>1, <1>3, <2>1
  <2>3. U[i + p[k]] = SubSeq(s, k + 1, n)
    BY <1>12, <1>5, <2>2
  <2>4. SubSeq(s, k, n) = <<x>> \o SubSeq(s, k + 1, n)
    <3>1. k \in 1 .. Len(s) /\ n \in k .. Len(s)
      BY <1>1
    <3> QED BY <3>1, SubSeqRecursiveFirst
  <2>5. /\ p[k] = p[k - 1] + Len(e)
        /\ \A m \in 1 .. Len(e) : j + m - 1 \in 1 .. L /\ line[j + m - 1] = e[m]
    BY DEF Placed
  <2>6. x \in DOMAIN Width /\ p[k - 1] \in Nat
    BY <1>1, <1>3, <2>1
  <2>7. x # Newline /\ (b = "python" => x # Accent) /\ (b = "go" => x # Open)
    BY DEF Readable
  <2>8. \/ Len(e) = 1 /\ e[1] = x /\ x \notin {Quote, Backslash}
        \/ Len(e) = 2 /\ e[1] = Backslash /\ e[2] = x
    <3> HIDE DEF x
    <3> QED BY <2>6, <2>7, EscapedIs
  <2>9. j + Len(e) = i + p[k] /\ (Len(e) \in Nat => TRUE)
    BY <2>5, <2>6, <2>8
  <2> HIDE DEF n, L, x, e
  <2>10. U[j] = <<x>> \o U[i + p[k]]
    <3>1. CASE Len(e) = 1 /\ e[1] = x /\ x \notin {Quote, Backslash}
      <4>1. line[j] = x
        <5>1. 1 \in 1 .. Len(e) /\ j + 1 - 1 = j
          BY <2>2, <3>1
        <5> QED BY <2>5, <3>1, <5>1
      <4>2. ~ (j > L) /\ j + 1 = i + p[k]
        BY <2>2, <2>9, <3>1, <1>1
      <4> HIDE DEF j
      <4> QED BY <1>12, <2>2, <3>1, <4>1, <4>2
    <3>2. CASE Len(e) = 2 /\ e[1] = Backslash /\ e[2] = x
      <4>1. line[j] = Backslash /\ line[j + 1] = x /\ j + 1 \in 1 .. L
        <5>1. 1 \in 1 .. Len(e) /\ j + 1 - 1 = j /\ 2 \in 1 .. Len(e) /\ j + 2 - 1 = j + 1
          BY <2>2, <3>2
        <5> QED BY <2>5, <3>2, <5>1
      <4>3. j + 2 = i + p[k]
        BY <2>9, <3>2
      <4>4. Backslash # Quote
        BY DEF Backslash, Quote
      <4>2. j < L /\ ~ (j > L) /\ j + 2 = i + p[k] /\ Backslash # Quote
        <5> HIDE DEF j
        <5> QED BY <1>1, <2>2, <4>1, <4>3, <4>4
      <4> HIDE DEF j
      <4> QED BY <1>12, <2>2, <3>2, <4>1, <4>2
    <3> QED BY <2>8, <3>1, <3>2
  <2>11. Unescaped(line, j) = SubSeq(s, k, n)
    <3> HIDE DEF j
    <3> QED BY <1>12, <2>2, <2>3, <2>4, <2>10
  <2> QED BY <2>1, <2>11
<1>6. n \in T
  BY <1>1, <1>12, <1>4
<1> HIDE DEF T
<1>7. \A k \in 0 .. n : k \in T
  BY <1>1, <1>5, <1>6, DownToZero
<1>8. p[0] = 0 /\ 0 \in T /\ i + 0 = i
  BY <1>1, <1>7 DEF Placed
<1>9. i + p[0] \in 1 .. L + 2
  BY <1>1, <1>3
<1>10. Unescaped(line, i) = SubSeq(s, 1, n)
  BY <1>8, <1>9 DEF T
<1> QED BY <1>10, SubSeqFull

-----------------------------------------------------------------------------
(* How the server finds a field                                            *)

\* A field of this name stands at i, and none before it.
FirstField(line, b, name, i) ==
  /\ i \in Nat \ {0} /\ i + 4 + Blanks(b) <= Len(line)
  /\ line[i] = Quote /\ line[i + 1] = name /\ line[i + 2] = Quote /\ line[i + 3] = ":"
  /\ b = "python" => line[i + 4] = Space
  /\ line[i + 4 + Blanks(b)] \notin {Space, ":"}
  /\ \A k \in Behind(line, name) : i + 3 <= k

\* The value of a field is found if no other piece of the line looks like its name.
LEMMA ValueFound ==
  ASSUME NEW line, Len(line) \in Nat, DOMAIN line = 1 .. Len(line), NEW b, NEW name, NEW i,
         FirstField(line, b, name, i)
  PROVE  ValueAt(line, name) = {i + 4 + Blanks(b)}
<1> DEFINE v == i + 4 + Blanks(b)
           B == Behind(line, name)
           M == {m \in i + 3 .. Len(line) : line[m] \notin {Space, ":"}} \union {Len(line) + 1}
<1>13. Blanks(b) \in 0 .. 1 /\ (Blanks(b) = 1 => b = "python")
  BY DEF Blanks
<1>14. i \in Nat \ {0} /\ v <= Len(line)
  BY DEF FirstField
<1>1. Blanks(b) \in 0 .. 1 /\ (Blanks(b) = 1 => b = "python") /\ i \in Nat \ {0} /\ v <= Len(line)
  BY <1>13, <1>14
<1>2. v \in 1 .. Len(line) /\ v \in i + 3 .. Len(line)
  BY <1>1
<1>3. i + 3 \in B /\ B \subseteq Nat /\ \A k \in B : i + 3 <= k
  <2>1. (i + 3) - 2 = i + 1 /\ (i + 3) - 3 = i /\ (i + 3) - 1 = i + 2 /\ i + 3 \in 4 .. Len(line) + 1
    BY <1>1
  <2>2. line[i] = Quote /\ line[i + 1] = name /\ line[i + 2] = Quote
    BY DEF FirstField
  <2>3. i + 3 \in B
    <3>1. line[(i + 3) - 2] = name /\ line[(i + 3) - 3] = Quote /\ line[(i + 3) - 1] = Quote
      BY <2>1, <2>2
    <3> DEFINE w == i + 3
    <3>2. /\ w \in 4 .. Len(line) + 1
          /\ line[w - 2] = name /\ line[w - 3] = Quote /\ line[w - 1] = Quote
      BY <2>1, <3>1
    <3> HIDE DEF w
    <3>3. w \in Behind(line, name)
      BY <3>2 DEF Behind
    <3> QED BY <3>3 DEF w
  <2>4. \A k \in B : k \in Nat
    BY DEF Behind
  <2> QED BY <2>3, <2>4 DEF FirstField
<1>4. Min(B) = i + 3
  <2>1. Min(B) \in B /\ \A k \in B : Min(B) <= k
    BY <1>3, MinNat
  <2>2. Min(B) \in Nat /\ Min(B) <= i + 3 /\ i + 3 <= Min(B)
    BY <1>3, <2>1
  <2> QED BY <1>1, <2>2
<1>5. v \in M /\ M \subseteq Nat
  <2>1. line[v] \notin {Space, ":"}
    BY DEF FirstField
  <2>2. \A m \in i + 3 .. Len(line) : m \in Nat
    BY <1>1
  <2>3. Len(line) + 1 \in Nat
    OBVIOUS
  <2> QED BY <1>2, <2>1, <2>2, <2>3
<1>6. \A m \in M : v <= m
  <2>3. line[i + 3] = ":" /\ (b = "python" => line[i + 4] = Space)
    BY DEF FirstField
  <2>4. ASSUME NEW m \in i + 3 .. Len(line), line[m] \notin {Space, ":"} PROVE v <= m
    <3>1. m # i + 3 /\ (b = "python" => m # i + 4)
      BY <2>3, <2>4
    <3>2. m \in Int /\ i + 3 <= m
      BY <1>1
    <3> QED BY <1>1, <3>1, <3>2
  <2>5. v <= Len(line) + 1
    BY <1>1
  <2> QED BY <2>4, <2>5
<1>7. Min(M) = v
  <2>1. Min(M) \in M /\ \A m \in M : Min(M) <= m
    BY <1>5, MinNat
  <2> HIDE DEF M
  <2>2. Min(M) \in Nat /\ Min(M) <= v /\ v <= Min(M)
    BY <1>5, <1>6, <2>1
  <2> QED BY <1>1, <2>2
<1>8. ValueAt(line, name) =
        {Min({m \in Min(ks) .. Len(line) : line[m] \notin {Space, ":"}} \union {Len(line) + 1}) :
           ks \in {B} \ {{}}} \intersect DOMAIN line
  BY DEF ValueAt
<1>9. {B} \ {{}} = {B}
  BY <1>3
<1>10. ValueAt(line, name) =
        {Min({m \in Min(B) .. Len(line) : line[m] \notin {Space, ":"}} \union {Len(line) + 1})}
          \intersect DOMAIN line
  <2> HIDE DEF B
  <2> QED BY <1>8, <1>9
<1>11. ValueAt(line, name) = {Min(M)} \intersect DOMAIN line
  <2> HIDE DEF B
  <2> QED BY <1>4, <1>10
<1> HIDE DEF M, v
<1>12. ValueAt(line, name) = {v}
  BY <1>2, <1>7, <1>11
<1> QED BY <1>12 DEF v

\* A value in quotes is read up to its end.
LEMMA StringFound ==
  ASSUME NEW line, Len(line) \in Nat, DOMAIN line = 1 .. Len(line), NEW b, NEW name, NEW i,
         FirstField(line, b, name, i), line[i + 4 + Blanks(b)] = Quote
  PROVE  json_str(line, name) = {Unescaped(line, i + 5 + Blanks(b))}
<1> DEFINE v == i + 4 + Blanks(b)
<1>1. ValueAt(line, name) = {v}
  BY ValueFound
<1>2. v + 1 = i + 5 + Blanks(b) /\ line[v] = Quote
  <2>1. Blanks(b) \in 0 .. 1
    BY DEF Blanks
  <2>2. i \in Nat \ {0}
    BY DEF FirstField
  <2> QED BY <2>1, <2>2
<1> HIDE DEF v
<1>3. json_str(line, name) = {Unescaped(line, v + 1)}
  BY <1>1, <1>2 DEF json_str
<1> QED BY <1>2, <1>3

\* A digit is read as the number it is.
LEMMA IntFound ==
  ASSUME NEW line, Len(line) \in Nat, DOMAIN line = 1 .. Len(line), NEW b, NEW name, NEW i,
         FirstField(line, b, name, i), NEW def, line[i + 4 + Blanks(b)] \in DOMAIN Digit
  PROVE  json_int(line, name, def) = Digit[line[i + 4 + Blanks(b)]]
<1> DEFINE v == i + 4 + Blanks(b)
           digits == {line[m] : m \in ValueAt(line, name)} \intersect DOMAIN Digit
<1>1. ValueAt(line, name) = {v}
  BY ValueFound
<1>2. line[v] \in DOMAIN Digit
  OBVIOUS
<1> HIDE DEF v
<1>3. digits = {line[v]}
  BY <1>1, <1>2
<1>4. json_int(line, name, def) = IF digits = {} THEN def ELSE Digit[CHOOSE d \in digits : TRUE]
  BY DEF json_int
<1> HIDE DEF digits
<1>5. digits # {} /\ (CHOOSE d \in digits : TRUE) = line[v]
  BY <1>3
<1>6. json_int(line, name, def) = Digit[line[v]]
  BY <1>4, <1>5
<1> QED BY <1>6 DEF v

\* Nothing of that name before the field.
LEMMA NoneBefore ==
  ASSUME NEW line, NEW name, NEW i \in Nat \ {0}, \A j \in 2 .. i : line[j] # name
  PROVE  \A k \in Behind(line, name) : i + 3 <= k
<1> SUFFICES ASSUME NEW k \in Behind(line, name) PROVE i + 3 <= k
  OBVIOUS
<1>1. k \in Int /\ 4 <= k /\ line[k - 2] = name
  BY DEF Behind
<1>2. k - 2 \notin 2 .. i
  BY <1>1
<1> QED BY <1>1, <1>2

-----------------------------------------------------------------------------
(* The lines                                                               *)

\* The same of three parts.
LEMMA StandsThree ==
  ASSUME NEW S, NEW s \in Seq(S), NEW t \in Seq(S), NEW u \in Seq(S), NEW line, Len(line) \in Nat,
         NEW i \in Nat \ {0}, Stands(line, i, (s \o t) \o u)
  PROVE  /\ Stands(line, i, s) /\ Stands(line, i + Len(s), t) /\ Stands(line, i + Len(s) + Len(t), u)
<1>1. s \o t \in Seq(S) /\ Len(s \o t) = Len(s) + Len(t) /\ Len(s) \in Nat /\ Len(t) \in Nat
  BY Concatenated
<1> DEFINE h == s \o t
<1>2. h \in Seq(S) /\ Stands(line, i, h \o u)
  BY <1>1
<1> HIDE DEF h
<1>3. Stands(line, i, h) /\ Stands(line, i + Len(h), u)
  BY <1>2, StandsSplit
<1>4. Stands(line, i, s) /\ Stands(line, i + Len(s), t)
  <2>1. Stands(line, i, s \o t)
    BY <1>3 DEF h
  <2> QED BY <2>1, StandsSplit
<1>5. i + Len(h) = i + Len(s) + Len(t)
  BY <1>1 DEF h
<1> QED BY <1>3, <1>4, <1>5

\* A comma
LEMMA CommaIs ==
  /\ <<Comma>> \in Seq(Pieces) /\ Len(<<Comma>>) = 1
  /\ \A line : \A i \in Nat \ {0} : Len(line) \in Nat /\ Stands(line, i, <<Comma>>) => line[i] = Comma
<1>1. Comma \in Pieces
  BY DEF Pieces
<1>2. \A x \in Pieces : <<x>> \in Seq(Pieces) /\ Len(<<x>>) = 1 /\ <<x>>[1] = x
  OBVIOUS
<1> DEFINE c == <<Comma>>
<1>3. c \in Seq(Pieces) /\ Len(c) = 1 /\ c[1] = Comma
  BY <1>1, <1>2
<1> HIDE DEF c
<1>4. ASSUME NEW line, NEW i \in Nat \ {0}, Stands(line, i, c) PROVE line[i] = Comma
  <2>3. \A k \in 1 .. Len(c) : line[i + k - 1] = c[k]
    BY <1>4 DEF Stands
  <2>1. 1 \in 1 .. Len(c) /\ \A k \in 1 .. Len(c) : line[i + k - 1] = c[k]
    BY <1>3, <2>3
  <2>2. i + 1 - 1 = i
    OBVIOUS
  <2> QED BY <1>3, <2>1, <2>2
<1> QED BY <1>3, <1>4 DEF c

Operations == {"seek", "map", "mask", "status", "ping"}

\* The field "op",
OpField(b, op) == Field(b, "op", <<Quote, op, Quote>>)

OpStands(line, i, b, op) ==
  /\ i + 6 + Blanks(b) <= Len(line)
  /\ line[i] = Quote /\ line[i + 1] = "op" /\ line[i + 2] = Quote /\ line[i + 3] = ":"
  /\ b = "python" => line[i + 4] = Space
  /\ line[i + 4 + Blanks(b)] = Quote /\ line[i + 5 + Blanks(b)] = op
  /\ line[i + 6 + Blanks(b)] = Quote

\* stands where it is written,
LEMMA OpIs ==
  ASSUME NEW b, NEW op \in Operations
  PROVE  /\ OpField(b, op) \in Seq(Pieces) /\ Len(OpField(b, op)) = 7 + Blanks(b)
         /\ \A line : \A i \in Nat \ {0} :
              Len(line) \in Nat /\ Stands(line, i, OpField(b, op)) => OpStands(line, i, b, op)
<1> DEFINE name == "op"
           v == <<Quote, op, Quote>>
           f == Field(b, name, v)
<1>1. v \in Seq(Pieces) /\ Len(v) = 3 /\ v[1] = Quote /\ v[2] = op /\ v[3] = Quote
  <2>1. Quote \in Pieces /\ op \in Pieces
    BY DEF Pieces, Operations
  <2> HIDE DEF Quote
  <2> QED BY <2>1
<1>2. name \in Pieces
  BY DEF Pieces
<1> HIDE DEF name, v
<1>3. /\ f \in Seq(Pieces) /\ Len(f) = 4 + Blanks(b) + Len(v)
      /\ \A line : \A i \in Nat \ {0} :
           Len(line) \in Nat /\ Stands(line, i, f) =>
             /\ line[i] = Quote /\ line[i + 1] = name /\ line[i + 2] = Quote /\ line[i + 3] = ":"
             /\ b = "python" => line[i + 4] = Space
             /\ Stands(line, i + 4 + Blanks(b), v)
  BY <1>1, <1>2, FieldIs
<1> HIDE DEF f
<1>4. Blanks(b) \in 0 .. 1
  BY DEF Blanks
<1>5. ASSUME NEW line, NEW i \in Nat \ {0}, Len(line) \in Nat, Stands(line, i, f)
      PROVE  /\ i + 6 + Blanks(b) <= Len(line)
             /\ line[i + 4 + Blanks(b)] = Quote /\ line[i + 5 + Blanks(b)] = op
             /\ line[i + 6 + Blanks(b)] = Quote
  <2> DEFINE w == i + 4 + Blanks(b)
  <2>1. Stands(line, w, v)
    BY <1>3, <1>5
  <2>2. w \in Nat /\ i + 5 + Blanks(b) = w + 1 /\ i + 6 + Blanks(b) = w + 2
    BY <1>4
  <2> HIDE DEF w
  <2>3. /\ w + Len(v) - 1 <= Len(line)
        /\ \A k \in 1 .. Len(v) : line[w + k - 1] = v[k]
    BY <2>1 DEF Stands
  <2>4. line[w + 1 - 1] = v[1] /\ line[w + 2 - 1] = v[2] /\ line[w + 3 - 1] = v[3]
    BY <1>1, <2>3
  <2>5. w + 1 - 1 = w /\ w + 2 - 1 = w + 1 /\ w + 3 - 1 = w + 2 /\ w + 3 - 1 <= Len(line)
    BY <1>1, <2>2, <2>3
  <2> QED BY <1>1, <2>2, <2>4, <2>5 DEF w
<1>6. Len(f) = 7 + Blanks(b)
  <2>1. Len(f) = 4 + Blanks(b) + Len(v)
    BY <1>3
  <2> QED BY <1>1, <1>4, <2>1
<1>7. OpField(b, op) = f /\ name = "op"
  BY DEF OpField, f, v, name
<1>8. ASSUME NEW line, NEW i \in Nat \ {0}, Len(line) \in Nat, Stands(line, i, f)
      PROVE  OpStands(line, i, b, op)
  BY <1>3, <1>5, <1>7, <1>8 DEF OpStands
<1> QED BY <1>3, <1>6, <1>7, <1>8

\* which is read as it is.
LEMMA OpFound ==
  ASSUME NEW b, NEW op \in Operations, NEW line \in Seq(Pieces), NEW i \in Nat \ {0},
         Stands(line, i, OpField(b, op)),
         \A k \in Behind(line, "op") : i + 3 <= k
  PROVE  json_str(line, "op") = {<<op>>}
<1> DEFINE j == i + 5 + Blanks(b)
<1>1. Len(line) \in Nat /\ DOMAIN line = 1 .. Len(line)
  BY LenProperties
<1>2. /\ i + 6 + Blanks(b) <= Len(line)
      /\ line[i] = Quote /\ line[i + 1] = "op" /\ line[i + 2] = Quote /\ line[i + 3] = ":"
      /\ b = "python" => line[i + 4] = Space
      /\ line[i + 4 + Blanks(b)] = Quote /\ line[i + 5 + Blanks(b)] = op
      /\ line[i + 6 + Blanks(b)] = Quote
  <2>1. OpStands(line, i, b, op)
    BY <1>1, OpIs
  <2> QED BY <2>1 DEF OpStands
<1>3. Blanks(b) \in 0 .. 1
  BY DEF Blanks
<1>4. i + 4 + Blanks(b) <= Len(line)
  <2>1. i + 6 + Blanks(b) <= Len(line)
    BY <1>2
  <2> QED BY <1>1, <1>3, <2>1
<1>5. Quote \notin {Space, ":"}
  BY DEF Quote, Space
<1>6. FirstField(line, b, "op", i)
  BY <1>2, <1>4, <1>5 DEF FirstField
<1>7. json_str(line, "op") = {Unescaped(line, j)}
  BY <1>1, <1>2, <1>6, StringFound
<1>8. PICK U \in [1 .. Len(line) + 2 -> Seq(Pieces)] : Runs(line, U)
  BY UnescapedRuns
<1>9. j \in 1 .. Len(line) /\ j + 1 \in 1 .. Len(line) /\ j \in 1 .. Len(line) + 2 /\ line[j] = op /\ line[j + 1] = Quote
  <2>1. j + 1 = i + 6 + Blanks(b)
    BY <1>3
  <2>2. j \in Nat \ {0}
    BY <1>3
  <2> HIDE DEF j
  <2>3. j + 1 <= Len(line) /\ line[j + 1] = Quote
    BY <1>2, <2>1
  <2>4. line[j] = op
    BY <1>2 DEF j
  <2> QED BY <1>1, <2>2, <2>3, <2>4
<1> HIDE DEF j
<1>10. op \notin {Quote, Backslash}
  BY DEF Operations, Quote, Backslash
<1>11. U[j] = <<op>> \o <<>>
  BY <1>8, <1>9, <1>10 DEF Runs
<1>12. <<op>> \o <<>> = <<op>>
  <2>1. op \in Pieces
    BY DEF Pieces, Operations
  <2>2. <<op>> \in Seq(Pieces)
    BY <2>1
  <2> QED BY <2>2, ConcatEmptySeq
<1>13. Unescaped(line, j) = <<op>>
  BY <1>8, <1>9, <1>11, <1>12 DEF Runs
<1> QED BY <1>7, <1>13

\* A field with a text.
TextField(b, name, s) == Field(b, name, String(b, s))

TextBytes(b, s) == Len(FlattenSeq(Encoded(b, s)))

TextStands(line, i, b, name, s, p) ==
  /\ line[i] = Quote /\ line[i + 1] = name /\ line[i + 2] = Quote /\ line[i + 3] = ":"
  /\ b = "python" => line[i + 4] = Space
  /\ line[i + 4 + Blanks(b)] = Quote
  /\ Placed(line, i + 5 + Blanks(b), b, s, p) /\ p[Len(s)] = TextBytes(b, s)
  /\ \A q \in 1 .. TextBytes(b, s) :
       \E k \in 1 .. Len(s) : \E m \in 1 .. Len(Escaped(b, s[k])) : q = p[k - 1] + m

\* It stands where it is written,
LEMMA TextIs ==
  ASSUME NEW b, NEW name \in Pieces, NEW s \in Seq(DOMAIN Width)
  PROVE  /\ TextField(b, name, s) \in Seq(Pieces) /\ TextBytes(b, s) \in Nat
         /\ Len(TextField(b, name, s)) = 6 + Blanks(b) + TextBytes(b, s)
         /\ \A line : \A i \in Nat \ {0} :
              Len(line) \in Nat /\ Stands(line, i, TextField(b, name, s)) =>
                \E p : TextStands(line, i, b, name, s, p)
<1> DEFINE F == FlattenSeq(Encoded(b, s))
           v == String(b, s)
           f == Field(b, name, v)
<1>1. /\ F \in Seq(Pieces) /\ Len(F) \in Nat
      /\ v \in Seq(Pieces) /\ Len(v) = Len(F) + 2
      /\ \A line : \A i \in Nat \ {0} :
           Len(line) \in Nat /\ Stands(line, i, v) =>
             /\ line[i] = Quote /\ Stands(line, i + 1, F)
             /\ i + 1 + Len(F) <= Len(line) /\ line[i + 1 + Len(F)] = Quote
  BY StringIs
<1>2. Blanks(b) \in 0 .. 1
  BY DEF Blanks
<1>3. Len(F) = TextBytes(b, s) /\ f = TextField(b, name, s)
  BY DEF TextBytes, TextField
<1> HIDE DEF v
<1>4. /\ f \in Seq(Pieces) /\ Len(f) = 4 + Blanks(b) + Len(v)
      /\ \A line : \A i \in Nat \ {0} :
           Len(line) \in Nat /\ Stands(line, i, f) =>
             /\ line[i] = Quote /\ line[i + 1] = name /\ line[i + 2] = Quote /\ line[i + 3] = ":"
             /\ b = "python" => line[i + 4] = Space
             /\ Stands(line, i + 4 + Blanks(b), v)
  BY <1>1, FieldIs
<1> HIDE DEF f
<1>5. Len(f) = 6 + Blanks(b) + TextBytes(b, s)
  <2>1. Len(f) = 4 + Blanks(b) + Len(v) /\ Len(v) = Len(F) + 2 /\ Len(F) \in Nat
    BY <1>1, <1>4
  <2> HIDE DEF F
  <2> QED BY <1>2, <1>3, <2>1
<1>6. ASSUME NEW line, NEW i \in Nat \ {0}, Len(line) \in Nat, Stands(line, i, f)
      PROVE  \E p : TextStands(line, i, b, name, s, p)
  <2> DEFINE w == i + 4 + Blanks(b)
             u == i + 5 + Blanks(b)
  <2>1. /\ line[i] = Quote /\ line[i + 1] = name /\ line[i + 2] = Quote /\ line[i + 3] = ":"
        /\ b = "python" => line[i + 4] = Space
        /\ Stands(line, w, v)
    BY <1>4, <1>6
  <2>2. w \in Nat \ {0} /\ u \in Nat \ {0} /\ u = w + 1
    BY <1>2
  <2> HIDE DEF u, w
  <2>3. line[w] = Quote /\ Stands(line, w + 1, F) /\ w + 1 + Len(F) <= Len(line) /\ line[w + 1 + Len(F)] = Quote
    BY <1>1, <1>6, <2>1, <2>2
  <2>4. Stands(line, u, F) /\ u + Len(F) <= Len(line) /\ line[u + Len(F)] = Quote
    <3> HIDE DEF F
    <3> QED BY <2>2, <2>3
  <2>5. PICK p : /\ Placed(line, u, b, s, p) /\ p[Len(s)] = Len(F)
                 /\ \A q \in 1 .. Len(F) :
                      \E k \in 1 .. Len(s) : \E m \in 1 .. Len(Escaped(b, s[k])) : q = p[k - 1] + m
    BY <1>6, <2>2, <2>4, TextPlaced
  <2>6. TextStands(line, i, b, name, s, p)
    <3> HIDE DEF F
    <3>1. \A q \in 1 .. TextBytes(b, s) :
            \E k \in 1 .. Len(s) : \E m \in 1 .. Len(Escaped(b, s[k])) : q = p[k - 1] + m
      BY <1>3, <2>5
    <3>2. Placed(line, i + 5 + Blanks(b), b, s, p) /\ p[Len(s)] = TextBytes(b, s)
      BY <1>3, <2>5 DEF u
    <3>3. line[i + 4 + Blanks(b)] = Quote
      BY <2>3 DEF w
    <3> QED BY <2>1, <3>1, <3>2, <3>3 DEF TextStands
  <2> QED BY <2>6
<1> HIDE DEF F
<1> QED BY <1>1, <1>3, <1>4, <1>5, <1>6

\* and is read as it is if it is readable.
LEMMA TextFound ==
  ASSUME NEW b, NEW name, NEW s \in Seq(DOMAIN Width), NEW line \in Seq(Pieces), NEW i \in Nat \ {0},
         NEW p, TextStands(line, i, b, name, s, p), \A k \in Behind(line, name) : i + 3 <= k
  PROVE  /\ json_str(line, name) = {Unescaped(line, i + 5 + Blanks(b))}
         /\ Readable(b, s) => json_str(line, name) = {s}
<1> DEFINE u == i + 5 + Blanks(b)
<1>1. Len(line) \in Nat /\ DOMAIN line = 1 .. Len(line)
  BY LenProperties
<1>2. Blanks(b) \in 0 .. 1 /\ u \in Nat \ {0}
  BY DEF Blanks
<1>3. /\ line[i] = Quote /\ line[i + 1] = name /\ line[i + 2] = Quote /\ line[i + 3] = ":"
      /\ b = "python" => line[i + 4] = Space
      /\ line[i + 4 + Blanks(b)] = Quote
      /\ Placed(line, u, b, s, p)
  BY DEF TextStands
<1>4. u <= Len(line)
  <2>1. Len(s) \in Nat
    BY LenProperties
  <2>2. p[0] = 0 /\ u + p[0] \in 1 .. Len(line)
    BY <1>3, <2>1 DEF Placed
  <2> HIDE DEF u
  <2> QED BY <1>1, <1>2, <2>2
<1>5. i + 4 + Blanks(b) <= Len(line)
  BY <1>1, <1>2, <1>4
<1>6. Quote \notin {Space, ":"}
  BY DEF Quote, Space
<1>7. FirstField(line, b, name, i)
  BY <1>3, <1>5, <1>6 DEF FirstField
<1>8. json_str(line, name) = {Unescaped(line, u)}
  BY <1>1, <1>3, <1>7, StringFound
<1> HIDE DEF u
<1>9. Readable(b, s) => Unescaped(line, u) = s
  BY <1>2, <1>3, ReadBack
<1> QED BY <1>8, <1>9 DEF u

\* What stands before the second field of a line is not its name.
LEMMA HeadIs ==
  ASSUME NEW b, NEW op \in Operations, NEW line, Len(line) \in Nat, OpStands(line, 1, b, op),
         line[8 + Blanks(b)] = Comma, line[9 + Blanks(b)] = Quote, NEW name \in {"text", "word", "mode"}
  PROVE  \A j \in 2 .. 9 + Blanks(b) : line[j] # name
<1> DEFINE e == Blanks(b)
<1>1. e \in 0 .. 1 /\ (e = 1 => b = "python")
  BY DEF Blanks
<1>2. /\ line[2] = "op" /\ line[3] = Quote /\ line[4] = ":" /\ (b = "python" => line[5] = Space)
      /\ line[5 + e] = Quote /\ line[6 + e] = op /\ line[7 + e] = Quote
  <2>1. /\ line[1 + 1] = "op" /\ line[1 + 2] = Quote /\ line[1 + 3] = ":"
        /\ (b = "python" => line[1 + 4] = Space)
        /\ line[1 + 4 + e] = Quote /\ line[1 + 5 + e] = op /\ line[1 + 6 + e] = Quote
    BY DEF OpStands
  <2> HIDE DEF e
  <2> QED BY <1>1, <2>1
<1>3. name \notin {"op", Quote, ":", Space, op, Comma}
  BY DEF Quote, Space, Comma, Operations
<1>4. line[8 + e] = Comma /\ line[9 + e] = Quote
  OBVIOUS
<1> HIDE DEF e
<1>5. ASSUME NEW j \in 2 .. 9 + e PROVE line[j] \in {"op", Quote, ":", Space, op, Comma}
  <2>1. \/ j \in {2, 3, 4} \/ (j = 5 /\ e = 1)
        \/ j = 5 + e \/ j = 6 + e \/ j = 7 + e \/ j = 8 + e \/ j = 9 + e
    BY <1>1
  <2> QED BY <1>1, <1>2, <1>4, <2>1
<1> QED BY <1>3, <1>5 DEF e

\* What a request says: its operation, and its text.
Says(line, op, name, b, s) ==
  /\ line \in Seq(Pieces) /\ json_str(line, "op") = {<<op>>}
  /\ \E text \in Seq(Pieces) : json_str(line, name) = {text}
  /\ Readable(b, s) => json_str(line, name) = {s}

\* The text that is found is a sequence.
LEMMA TextRead ==
  ASSUME NEW line \in Seq(Pieces), NEW name, NEW t, json_str(line, name) = {t}
  PROVE  \E text \in Seq(Pieces) : json_str(line, name) = {text}
<1>1. t \in json_str(line, name)
  OBVIOUS
<1>2. t \in Seq(Pieces)
  BY <1>1, StringsRead
<1> QED BY <1>2

\* The lines of the requests that have no text.
LEMMA PlainLine ==
  ASSUME NEW b, NEW r, r.op \in {"mask", "status", "ping"}
  PROVE  Encode(b, r) \in Seq(Pieces) /\ json_str(Encode(b, r), "op") = {<<r.op>>}
<1> DEFINE op == r.op
           l == OpField(b, op)
<1>1. op \in Operations
  BY DEF Operations
<1>2. Encode(b, r) = l
  BY DEF Encode, OpField
<1>3. l \in Seq(Pieces)
  BY <1>1, OpIs
<1> HIDE DEF op
<1>4. Stands(l, 1, OpField(b, op))
  BY <1>3, StandsItself
<1>5. \A k \in Behind(l, "op") : 1 + 3 <= k
  BY DEF Behind
<1> HIDE DEF l
<1>6. json_str(l, "op") = {<<op>>}
  BY <1>1, <1>3, <1>4, <1>5, OpFound
<1> QED BY <1>2, <1>3, <1>6 DEF op

\* Where the second field stands, behind the operation and a comma.
LEMMA SecondField ==
  ASSUME NEW b, NEW op \in Operations, NEW name \in {"text", "word"}, NEW s \in Seq(DOMAIN Width),
         NEW line \in Seq(Pieces),
         Stands(line, 1, (OpField(b, op) \o <<Comma>>) \o TextField(b, name, s))
  PROVE  /\ Says(line, op, name, b, s)
         /\ \A j \in 2 .. 9 + Blanks(b) : line[j] # "mode"
         /\ \E p : TextStands(line, 9 + Blanks(b), b, name, s, p)
<1> DEFINE o == OpField(b, op)
           t == TextField(b, name, s)
           c == <<Comma>>
           i == 9 + Blanks(b)
<1>1. Len(line) \in Nat /\ DOMAIN line = 1 .. Len(line)
  BY LenProperties
<1>2. o \in Seq(Pieces) /\ Len(o) = 7 + Blanks(b)
  BY OpIs
<1>3. t \in Seq(Pieces)
  <2>1. name \in Pieces
    BY DEF Pieces
  <2> QED BY <2>1, TextIs
<1>4. c \in Seq(Pieces) /\ Len(c) = 1
  BY CommaIs
<1>5. Stands(line, 1, (o \o c) \o t)
  OBVIOUS
<1>6. Blanks(b) \in 0 .. 1 /\ i \in Nat \ {0}
  BY DEF Blanks
<1> HIDE DEF o, t, c
<1>7. Stands(line, 1, o) /\ Stands(line, 1 + Len(o), c) /\ Stands(line, 1 + Len(o) + Len(c), t)
  <2>1. 1 \in Nat \ {0}
    OBVIOUS
  <2> QED BY <1>1, <1>2, <1>3, <1>4, <1>5, <2>1, StandsThree
<1>8. 1 + Len(o) = 8 + Blanks(b) /\ 1 + Len(o) + Len(c) = i /\ 8 + Blanks(b) \in Nat \ {0}
  BY <1>2, <1>4, <1>6
<1>9. Stands(line, 1, o) /\ Stands(line, 8 + Blanks(b), c) /\ Stands(line, i, t)
  BY <1>7, <1>8
<1> HIDE DEF i
<1>10. OpStands(line, 1, b, op)
  <2>1. 1 \in Nat \ {0} /\ Stands(line, 1, OpField(b, op))
    BY <1>9 DEF o
  <2> QED BY <1>1, <2>1, OpIs
<1>11. line[8 + Blanks(b)] = Comma
  <2>1. Stands(line, 8 + Blanks(b), <<Comma>>)
    BY <1>9 DEF c
  <2> QED BY <1>1, <1>8, <2>1, CommaIs
<1>12. PICK p : TextStands(line, i, b, name, s, p)
  <2>1. Stands(line, i, TextField(b, name, s)) /\ name \in Pieces
    BY <1>9 DEF t, Pieces
  <2> QED BY <1>1, <1>6, <2>1, TextIs
<1>13. line[9 + Blanks(b)] = Quote
  BY <1>12 DEF TextStands, i
<1>14. \A j \in 2 .. i : line[j] # name
  BY <1>1, <1>10, <1>11, <1>13, HeadIs DEF i
<1>15. \A j \in 2 .. i : line[j] # "mode"
  BY <1>1, <1>10, <1>11, <1>13, HeadIs DEF i
<1>16. \A k \in Behind(line, name) : i + 3 <= k
  BY <1>6, <1>14, NoneBefore
<1>17. /\ json_str(line, name) = {Unescaped(line, i + 5 + Blanks(b))}
       /\ Readable(b, s) => json_str(line, name) = {s}
  BY <1>6, <1>12, <1>16, TextFound
<1>18. \E text \in Seq(Pieces) : json_str(line, name) = {text}
  BY <1>17, TextRead
<1>19. json_str(line, "op") = {<<op>>}
  <2>1. \A k \in Behind(line, "op") : 1 + 3 <= k
    BY DEF Behind
  <2>2. 1 \in Nat \ {0} /\ Stands(line, 1, OpField(b, op))
    BY <1>9 DEF o
  <2> QED BY <2>1, <2>2, OpFound
<1> QED BY <1>12, <1>15, <1>17, <1>18, <1>19 DEF Says, i

\* The line of a seek.
LEMMA SeekLine ==
  ASSUME NEW b, NEW r, r.op = "seek", r.arg \in Seq(DOMAIN Width)
  PROVE  Says(Encode(b, r), "seek", "word", b, r.arg)
<1> DEFINE o == OpField(b, "seek")
           t == TextField(b, "word", r.arg)
           c == <<Comma>>
           l == (o \o c) \o t
<1>1. Encode(b, r) = l
  BY DEF Encode, OpField, TextField
<1>2. o \in Seq(Pieces) /\ t \in Seq(Pieces) /\ c \in Seq(Pieces)
  <2>1. "seek" \in Operations /\ "word" \in Pieces
    BY DEF Operations, Pieces
  <2> QED BY <2>1, OpIs, TextIs, CommaIs
<1>3. l \in Seq(Pieces)
  <2> HIDE DEF o, t, c
  <2>1. o \o c \in Seq(Pieces)
    BY <1>2, ConcatProperties
  <2> QED BY <1>2, <2>1, ConcatProperties
<1>4. Stands(l, 1, l)
  BY <1>3, StandsItself
<1>5. Stands(l, 1, (OpField(b, "seek") \o <<Comma>>) \o TextField(b, "word", r.arg))
  BY <1>4
<1> HIDE DEF l
<1>6. "seek" \in Operations /\ "word" \in {"text", "word"}
  BY DEF Operations
<1>7. Says(l, "seek", "word", b, r.arg)
  BY <1>3, <1>5, <1>6, SecondField
<1> QED BY <1>1, <1>7

\* A text that ends as the name of a mode does.
LEMMA EndsAsMode ==
  ASSUME NEW S, NEW s \in Seq(S), NEW x \in S, NEW y \in S, Len(s) >= 2, s[Len(s) - 1] = x, s[Len(s)] = y
  PROVE  IsSuffix(<<x, y>>, s)
<1> DEFINE n == Len(s)
           t == <<x, y>>
           Rs == [k \in 1 .. n |-> s[(n - k) + 1]]
           Rt == [k \in 1 .. 2 |-> t[(2 - k) + 1]]
<1>1. n \in Nat /\ t \in Seq(S) /\ Len(t) = 2 /\ t[1] = x /\ t[2] = y
  BY LenProperties
<1>2. Reverse(s) = Rs /\ Reverse(t) = Rt
  <2>1. Reverse(t) = [k \in 1 .. Len(t) |-> t[(Len(t) - k) + 1]]
    BY DEF Reverse
  <2> HIDE DEF t
  <2> QED BY <1>1, <2>1 DEF Reverse
<1>3. \A k \in 1 .. n : (n - k) + 1 \in 1 .. n
  BY <1>1
<1>4. \A k \in 1 .. n : s[k] \in S
  BY ElementOfSeq
<1> HIDE DEF t, n
<1>5. Rs \in Seq(S) /\ Len(Rs) = n
  <2>1. Rs \in [1 .. n -> S]
    BY <1>3, <1>4
  <2> QED BY <1>1, <2>1
<1>6. Rt \in Seq(S) /\ Len(Rt) = 2
  <2>1. \A k \in 1 .. 2 : t[(2 - k) + 1] \in S
    BY <1>1
  <2>2. Rt \in [1 .. 2 -> S]
    BY <2>1
  <2> QED BY <2>2
<1>7. n >= 2
  BY DEF n
<1>8. Rs[1] = y /\ Rs[2] = x /\ Rt[1] = y /\ Rt[2] = x
  <2>1. 1 \in 1 .. n /\ 2 \in 1 .. n /\ (n - 1) + 1 = n /\ (n - 2) + 1 = n - 1
    BY <1>1, <1>7
  <2>2. s[n - 1] = x /\ s[n] = y
    BY DEF n
  <2> QED BY <1>1, <2>1, <2>2
<1> HIDE DEF Rs, Rt
<1>9. SubSeq(Rt, 1, 2) = SubSeq(Rs, 1, 2)
  <2>1. \A i \in 1 .. 2 : Rt[i] \in S /\ Rs[i] \in S /\ Rt[i] = Rs[i]
    <3>1. \A i \in 1 .. 2 : i \in 1 .. Len(Rs) /\ i \in 1 .. Len(Rt)
      BY <1>1, <1>5, <1>6, <1>7
    <3>2. \A i \in 1 .. 2 : i = 1 \/ i = 2
      OBVIOUS
    <3> QED BY <1>5, <1>6, <1>8, <3>1, <3>2, ElementOfSeq
  <2>2. /\ SubSeq(Rt, 1, 2) \in Seq(S) /\ Len(SubSeq(Rt, 1, 2)) = 2
        /\ \A i \in 1 .. 2 : SubSeq(Rt, 1, 2)[i] = Rt[i]
    <3>1. /\ SubSeq(Rt, 1, 2) \in Seq(S) /\ Len(SubSeq(Rt, 1, 2)) = (IF 1 <= 2 THEN 2 - 1 + 1 ELSE 0)
          /\ \A i \in 1 .. 2 - 1 + 1 : SubSeq(Rt, 1, 2)[i] = Rt[1 + i - 1]
      BY <2>1, 1 \in Int, 2 \in Int, SubSeqProperties
    <3> QED BY <3>1
  <2>3. /\ SubSeq(Rs, 1, 2) \in Seq(S) /\ Len(SubSeq(Rs, 1, 2)) = 2
        /\ \A i \in 1 .. 2 : SubSeq(Rs, 1, 2)[i] = Rs[i]
    <3>1. /\ SubSeq(Rs, 1, 2) \in Seq(S) /\ Len(SubSeq(Rs, 1, 2)) = (IF 1 <= 2 THEN 2 - 1 + 1 ELSE 0)
          /\ \A i \in 1 .. 2 - 1 + 1 : SubSeq(Rs, 1, 2)[i] = Rs[1 + i - 1]
      BY <2>1, 1 \in Int, 2 \in Int, SubSeqProperties
    <3> QED BY <3>1
  <2> QED BY <2>1, <2>2, <2>3, SeqEqual
<1>10. Len(Rt) <= Len(Rs)
  BY <1>1, <1>5, <1>6, <1>7
<1> QED BY <1>2, <1>6, <1>9, <1>10 DEF IsSuffix, IsPrefix, t

\* The name of the mode in a text is not followed by a quote unless the text ends
\* there, and not preceded by one unless the text begins there or has one itself.
LEMMA ModeInText ==
  ASSUME NEW b, NEW s \in Seq(DOMAIN Width), NEW line, Len(line) \in Nat, NEW u \in Nat \ {0},
         NEW p, Placed(line, u, b, s, p),
         NEW k \in 1 .. Len(s), NEW m \in 1 .. Len(Escaped(b, s[k])), NEW j, j = u + p[k - 1] + m - 1,
         line[j] = "mode", line[j - 1] = Quote, line[j + 1] = Quote
  PROVE  s = <<"mode">> \/ IsSuffix(<<Quote, "mode">>, s)
<1> DEFINE n == Len(s)
<1>1. n \in Nat /\ \A i \in 1 .. n : s[i] \in DOMAIN Width
  BY LenProperties, ElementOfSeq
<1>2. /\ \A i \in 0 .. n : p[i] \in Nat
      /\ \A i \in 1 .. n :
           /\ p[i] = p[i - 1] + Len(Escaped(b, s[i]))
           /\ \A q \in 1 .. Len(Escaped(b, s[i])) :
                line[u + p[i - 1] + q - 1] = Escaped(b, s[i])[q]
  BY DEF Placed
<1>3. Quote # Backslash /\ "mode" \notin {Quote, Backslash, "n", "u00e9", "u003c"} /\ Quote \notin {"n", "u00e9", "u003c"}
  BY DEF Quote, Backslash
<1>4. \A i \in 1 .. n :
        \/ Len(Escaped(b, s[i])) = 1 /\ Escaped(b, s[i])[1] = s[i] /\ s[i] \notin {Quote, Backslash}
        \/ /\ Len(Escaped(b, s[i])) = 2 /\ Escaped(b, s[i])[1] = Backslash
           /\ IF s[i] \in {Quote, Backslash} THEN Escaped(b, s[i])[2] = s[i]
                                             ELSE Escaped(b, s[i])[2] \in {"n", "u00e9", "u003c"}
  <2> SUFFICES ASSUME NEW x \in DOMAIN Width
               PROVE  \/ Len(Escaped(b, x)) = 1 /\ Escaped(b, x)[1] = x /\ x \notin {Quote, Backslash}
                      \/ /\ Len(Escaped(b, x)) = 2 /\ Escaped(b, x)[1] = Backslash
                         /\ IF x \in {Quote, Backslash} THEN Escaped(b, x)[2] = x
                                                        ELSE Escaped(b, x)[2] \in {"n", "u00e9", "u003c"}
    BY <1>1
  <2> QED BY SMTT(20), EscapedIs
<1> HIDE DEF n
<1>5. k \in 1 .. n /\ k - 1 \in 0 .. n /\ k \in 0 .. n
  BY <1>1 DEF n
<1>6. s[k] = "mode" /\ Len(Escaped(b, s[k])) = 1 /\ m = 1
  <2>1. Escaped(b, s[k])[m] = "mode"
    BY <1>2, <1>5
  <2> DEFINE x == s[k]
             e == Escaped(b, x)
  <2>5. \/ Len(e) = 1 /\ e[1] = x
        \/ Len(e) = 2 /\ e[1] = Backslash /\ ((e[2] = x /\ x \in {Quote, Backslash}) \/ e[2] \in {"n", "u00e9", "u003c"})
    BY <1>4, <1>5
  <2>6. e[m] = "mode" /\ m \in 1 .. Len(e)
    BY <2>1
  <2> HIDE DEF e, x
  <2>7. CASE Len(e) = 1 /\ e[1] = x
    <3>1. m = 1
      BY <2>6, <2>7
    <3> QED BY <2>6, <2>7, <3>1 DEF e, x
  <2>8. CASE Len(e) = 2 /\ e[1] = Backslash /\ ((e[2] = x /\ x \in {Quote, Backslash}) \/ e[2] \in {"n", "u00e9", "u003c"})
    <3>1. m = 1 \/ m = 2
      BY <2>6, <2>8
    <3> QED BY <1>3, <2>6, <2>8, <3>1
  <2> QED BY <2>5, <2>7, <2>8
<1>7. j = u + p[k - 1] /\ j + 1 = u + p[k] /\ p[k - 1] \in Nat /\ p[k] \in Nat
  <2>1. p[k] = p[k - 1] + 1 /\ p[k - 1] \in Nat
    BY <1>2, <1>5, <1>6
  <2>2. j = u + p[k - 1] + 1 - 1
    BY <1>6
  <2> DEFINE x == p[k - 1]
             y == p[k]
  <2>3. y = x + 1 /\ x \in Nat /\ j = u + x + 1 - 1
    BY <2>1, <2>2
  <2> HIDE DEF x, y
  <2>4. j = u + x /\ j + 1 = u + y /\ x \in Nat /\ y \in Nat
    BY <2>3
  <2> QED BY <2>4 DEF x, y
<1>8. k = n
  <2> SUFFICES ASSUME k # n PROVE FALSE
    OBVIOUS
  <2> DEFINE i == k + 1
  <2>1. i \in 1 .. n /\ i - 1 = k
    BY <1>1, <1>5
  <2> HIDE DEF i
  <2>2. Escaped(b, s[i])[1] # Quote /\ 1 \in 1 .. Len(Escaped(b, s[i]))
    BY SMTT(20), <1>3, <1>4, <2>1
  <2>3. line[u + p[i - 1] + 1 - 1] = Escaped(b, s[i])[1]
    BY <1>2, <2>1, <2>2
  <2>4. u + p[i - 1] + 1 - 1 = j + 1
    <3>1. p[i - 1] = p[k]
      BY <2>1
    <3> DEFINE y == p[k]
    <3>2. j + 1 = u + y /\ y \in Nat
      BY <1>7
    <3> HIDE DEF y
    <3>3. u + y + 1 - 1 = j + 1
      BY <3>2
    <3> QED BY <3>1, <3>3 DEF y
  <2> QED BY <2>2, <2>3, <2>4
<1>9. CASE k = 1
  <2>1. Len(s) = 1 /\ s[1] = "mode"
    BY <1>6, <1>8, <1>9 DEF n
  <2>2. "mode" \in DOMAIN Width
    BY <1>1, <1>5, <1>6
  <2> DEFINE z == "mode"
  <2> HIDE DEF z
  <2>3. z \in DOMAIN Width /\ s[1] = z
    BY <2>1, <2>2 DEF z
  <2>4. <<z>> \in Seq(DOMAIN Width) /\ Len(<<z>>) = 1 /\ <<z>>[1] = z
    BY <2>3
  <2>5. \A i \in 1 .. Len(s) : s[i] = <<z>>[i]
    BY <2>1, <2>3, <2>4
  <2>6. s = <<z>>
    BY <2>1, <2>4, <2>5, SeqEqual
  <2> QED BY <2>6 DEF z
<1>10. CASE k # 1
  <2> DEFINE i == k - 1
             w == Len(Escaped(b, s[i]))
  <2>1. i \in 1 .. n /\ p[i] \in Nat /\ p[i - 1] \in Nat /\ p[i] = p[i - 1] + w
    <3>1. i \in 1 .. n /\ i \in 0 .. n /\ i - 1 \in 0 .. n
      BY <1>1, <1>5, <1>10
    <3> HIDE DEF i
    <3> QED BY <1>2, <3>1
  <2>2. w \in {1, 2} /\ w \in 1 .. w
    <3>1. w = 1 \/ w = 2
      <4> HIDE DEF i
      <4> QED BY <1>4, <2>1
    <3> HIDE DEF w
    <3> QED BY <3>1
  <2>3. line[u + p[i - 1] + w - 1] = Escaped(b, s[i])[w]
    <3> HIDE DEF i
    <3> QED BY <1>2, <2>1, <2>2
  <2>4. u + p[i - 1] + w - 1 = j - 1
    <3>1. j = u + p[i]
      BY <1>7
    <3> DEFINE x == p[i - 1]
               y == p[i]
    <3>2. j = u + y /\ y = x + w /\ x \in Nat /\ y \in Nat
      BY <2>1, <3>1
    <3>4. w \in Nat
      <4> HIDE DEF w
      <4> QED BY <2>2
    <3> HIDE DEF x, y, w
    <3>3. u + x + w - 1 = j - 1
      BY <3>2, <3>4
    <3> QED BY <3>3 DEF x
  <2>5. Escaped(b, s[i])[w] = Quote
    BY <2>3, <2>4
  <2>6. s[i] = Quote
    <3> HIDE DEF i
    <3> QED BY <1>3, <1>4, <2>1, <2>2, <2>5
  <2>7. Len(s) >= 2 /\ s[Len(s) - 1] = Quote /\ s[Len(s)] = "mode"
    <3>1. n >= 2
      BY <1>1, <1>5, <1>8, <1>10
    <3> QED BY <1>6, <1>8, <2>6, <3>1 DEF n
  <2>8. Quote \in DOMAIN Width /\ "mode" \in DOMAIN Width
    BY <1>1, <1>5, <1>6, <2>1, <2>6
  <2> QED BY <2>7, <2>8, EndsAsMode
<1> QED BY <1>9, <1>10

\* The field "mode",
ModeField(b, d) == Field(b, "mode", <<d>>)

ModeStands(line, i, b, d) ==
  /\ i + 4 + Blanks(b) <= Len(line)
  /\ line[i] = Quote /\ line[i + 1] = "mode" /\ line[i + 2] = Quote /\ line[i + 3] = ":"
  /\ b = "python" => line[i + 4] = Space
  /\ line[i + 4 + Blanks(b)] = d

\* stands where it is written,
LEMMA ModeIs ==
  ASSUME NEW b, NEW d \in DOMAIN Digit
  PROVE  /\ ModeField(b, d) \in Seq(Pieces) /\ Len(ModeField(b, d)) = 5 + Blanks(b)
         /\ \A line : \A i \in Nat \ {0} :
              Len(line) \in Nat /\ Stands(line, i, ModeField(b, d)) => ModeStands(line, i, b, d)
<1> DEFINE name == "mode"
           v == <<d>>
           f == Field(b, name, v)
<1>1. v \in Seq(Pieces) /\ Len(v) = 1 /\ v[1] = d
  <2>1. d \in Pieces
    BY DEF Pieces, Digit
  <2> QED BY <2>1
<1>2. name \in Pieces
  BY DEF Pieces
<1>3. ModeField(b, d) = f /\ name = "mode"
  BY DEF ModeField
<1> HIDE DEF name, v
<1>4. /\ f \in Seq(Pieces) /\ Len(f) = 4 + Blanks(b) + Len(v)
      /\ \A line : \A i \in Nat \ {0} :
           Len(line) \in Nat /\ Stands(line, i, f) =>
             /\ line[i] = Quote /\ line[i + 1] = name /\ line[i + 2] = Quote /\ line[i + 3] = ":"
             /\ b = "python" => line[i + 4] = Space
             /\ Stands(line, i + 4 + Blanks(b), v)
  BY <1>1, <1>2, FieldIs
<1> HIDE DEF f
<1>5. Blanks(b) \in 0 .. 1
  BY DEF Blanks
<1>6. ASSUME NEW line, NEW i \in Nat \ {0}, Len(line) \in Nat, Stands(line, i, f)
      PROVE  ModeStands(line, i, b, d)
  <2> DEFINE w == i + 4 + Blanks(b)
  <2>1. /\ line[i] = Quote /\ line[i + 1] = name /\ line[i + 2] = Quote /\ line[i + 3] = ":"
        /\ b = "python" => line[i + 4] = Space
        /\ Stands(line, w, v)
    BY <1>4, <1>6
  <2>2. w \in Nat
    BY <1>5
  <2> HIDE DEF w
  <2>3. w + Len(v) - 1 <= Len(line) /\ \A k \in 1 .. Len(v) : line[w + k - 1] = v[k]
    BY <2>1 DEF Stands
  <2>4. line[w + 1 - 1] = v[1]
    BY <1>1, <2>3
  <2>5. w + 1 - 1 = w /\ w <= Len(line)
    BY <1>1, <2>2, <2>3
  <2>6. w <= Len(line) /\ line[w] = d
    BY <1>1, <2>4, <2>5
  <2> QED BY <1>3, <2>1, <2>6 DEF ModeStands, w
<1>7. Len(f) = 5 + Blanks(b)
  <2>1. Len(f) = 4 + Blanks(b) + Len(v)
    BY <1>4
  <2> QED BY <1>1, <1>5, <2>1
<1> QED BY <1>3, <1>4, <1>6, <1>7

\* which is read as the number it is.
LEMMA ModeFound ==
  ASSUME NEW b, NEW d \in DOMAIN Digit, NEW line \in Seq(Pieces), NEW i \in Nat \ {0}, NEW def,
         ModeStands(line, i, b, d), \A k \in Behind(line, "mode") : i + 3 <= k
  PROVE  json_int(line, "mode", def) = Digit[d]
<1>1. Len(line) \in Nat /\ DOMAIN line = 1 .. Len(line)
  BY LenProperties
<1>2. d \notin {Space, ":"}
  BY DEF Digit, Space
<1>3. /\ i + 4 + Blanks(b) <= Len(line)
      /\ line[i] = Quote /\ line[i + 1] = "mode" /\ line[i + 2] = Quote /\ line[i + 3] = ":"
      /\ b = "python" => line[i + 4] = Space
      /\ line[i + 4 + Blanks(b)] = d
  BY DEF ModeStands
<1>4. FirstField(line, b, "mode", i)
  BY <1>2, <1>3 DEF FirstField
<1>5. line[i + 4 + Blanks(b)] \in DOMAIN Digit
  BY <1>3
<1>6. json_int(line, "mode", def) = Digit[line[i + 4 + Blanks(b)]]
  BY <1>1, <1>4, <1>5, IntFound
<1> QED BY <1>3, <1>6

\* Texts that hide the field "mode" behind them.
HidesMode(s) == s = <<"mode">> \/ IsSuffix(<<Quote, "mode">>, s)

\* Node and Python: the mode stands behind the text.
LEMMA MapLine ==
  ASSUME NEW b, b # "go", NEW r, r.op = "map", r.arg \in Seq(DOMAIN Width), r.mode \in DOMAIN Digit
  PROVE  /\ Says(Encode(b, r), "map", "text", b, r.arg)
         /\ ~ HidesMode(r.arg) => json_int(Encode(b, r), "mode", DEFAULT_MODE) = Digit[r.mode]
<1> DEFINE o == OpField(b, "map")
           s == r.arg
           d == r.mode
           t == TextField(b, "text", s)
           m == ModeField(b, d)
           c == <<Comma>>
           a == (o \o c) \o t
           l == (a \o c) \o m
           e == Blanks(b)
           T == TextBytes(b, s)
           u == 14 + e + e
           i == 16 + e + e + T
<1>1. Encode(b, r) = l
  BY DEF Encode, OpField, TextField, ModeField
<1>2. "map" \in Operations /\ "text" \in Pieces /\ "text" \in {"text", "word"}
  BY DEF Operations, Pieces
<1>3. /\ o \in Seq(Pieces) /\ Len(o) = 7 + e
      /\ t \in Seq(Pieces) /\ Len(t) = 6 + e + T /\ T \in Nat
      /\ c \in Seq(Pieces) /\ Len(c) = 1 /\ m \in Seq(Pieces)
  BY <1>2, OpIs, TextIs, CommaIs, ModeIs
<1>4. e \in 0 .. 1 /\ (e = 1 => b = "python")
  BY DEF Blanks
<1> HIDE DEF e, T
<1>5. a \in Seq(Pieces) /\ Len(a) = 14 + e + e + T
  <2> HIDE DEF o, t, c
  <2> DEFINE h == o \o c
  <2>1. h \in Seq(Pieces) /\ Len(h) = Len(o) + Len(c)
    BY <1>3, ConcatProperties
  <2> HIDE DEF h
  <2>2. h \o t \in Seq(Pieces) /\ Len(h \o t) = Len(h) + Len(t)
    BY <1>3, <2>1, ConcatProperties
  <2>3. Len(h \o t) = 14 + e + e + T
    BY <1>3, <1>4, <2>1, <2>2
  <2> QED BY <2>2, <2>3 DEF h
<1>6. l \in Seq(Pieces) /\ Len(l) \in Nat
  <2> HIDE DEF a, m, c
  <2>1. a \o c \in Seq(Pieces)
    BY <1>3, <1>5, ConcatProperties
  <2>2. (a \o c) \o m \in Seq(Pieces)
    BY <1>3, <2>1, ConcatProperties
  <2> QED BY <2>2, LenProperties
<1>7. Stands(l, 1, (a \o c) \o m)
  BY <1>6, StandsItself
<1>8. 1 \in Nat \ {0} /\ 15 + e + e + T \in Nat \ {0} /\ i \in Nat \ {0} /\ u \in Nat \ {0} /\ 9 + e \in Nat \ {0}
  BY <1>3, <1>4
<1> HIDE DEF l, a, m
<1>9. Stands(l, 1, a) /\ Stands(l, 15 + e + e + T, c) /\ Stands(l, i, m)
  <2>1. Stands(l, 1, a) /\ Stands(l, 1 + Len(a), c) /\ Stands(l, 1 + Len(a) + Len(c), m)
    <3> HIDE DEF c
    <3> QED BY <1>3, <1>5, <1>6, <1>7, <1>8, StandsThree
  <2>2. 1 + Len(a) = 15 + e + e + T /\ 1 + Len(a) + Len(c) = i
    <3> HIDE DEF c
    <3> QED BY <1>3, <1>4, <1>5
  <2> QED BY <2>1, <2>2
<1>10. Stands(l, 1, (OpField(b, "map") \o <<Comma>>) \o TextField(b, "text", s))
  BY <1>9 DEF a
<1>11. /\ Says(l, "map", "text", b, s)
       /\ \A j \in 2 .. 9 + e : l[j] # "mode"
       /\ \E p : TextStands(l, 9 + e, b, "text", s, p)
  BY <1>2, <1>6, <1>10, SecondField DEF e
<1>12. l[15 + e + e + T] = Comma
  BY <1>6, <1>8, <1>9, CommaIs
<1>13. ModeStands(l, i, b, d)
  <2>1. Stands(l, i, ModeField(b, d))
    BY <1>9 DEF m
  <2> QED BY <1>6, <1>8, <2>1, ModeIs
<1>14. PICK p : TextStands(l, 9 + e, b, "text", s, p)
  BY <1>11
<1>15. /\ l[10 + e] = "text" /\ l[11 + e] = Quote /\ l[12 + e] = ":" /\ (e = 1 => l[13 + e] = Space)
       /\ l[13 + e + e] = Quote
       /\ Placed(l, u, b, s, p) /\ p[Len(s)] = T
       /\ \A q \in 1 .. T : \E k \in 1 .. Len(s) : \E n \in 1 .. Len(Escaped(b, s[k])) : q = p[k - 1] + n
  <2>1. /\ l[9 + e + 1] = "text" /\ l[9 + e + 2] = Quote /\ l[9 + e + 3] = ":"
        /\ (b = "python" => l[9 + e + 4] = Space)
        /\ l[9 + e + 4 + e] = Quote
        /\ Placed(l, 9 + e + 5 + e, b, s, p) /\ p[Len(s)] = T
        /\ \A q \in 1 .. T : \E k \in 1 .. Len(s) : \E n \in 1 .. Len(Escaped(b, s[k])) : q = p[k - 1] + n
    BY <1>14 DEF TextStands, e, T
  <2>2. /\ 9 + e + 1 = 10 + e /\ 9 + e + 2 = 11 + e /\ 9 + e + 3 = 12 + e /\ 9 + e + 4 = 13 + e
        /\ 9 + e + 4 + e = 13 + e + e /\ 9 + e + 5 + e = u
    BY <1>4
  <2> HIDE DEF u
  <2> QED BY <1>4, <2>1, <2>2
<1>16. l[14 + e + e + T] = Quote /\ l[i] = Quote
  <2>1. l[u + p[Len(s)]] = Quote
    BY <1>15 DEF Placed
  <2>2. l[i] = Quote
    BY <1>13 DEF ModeStands
  <2> QED BY <1>15, <2>1, <2>2
<1>17. ASSUME ~ HidesMode(s), NEW k \in Behind(l, "mode") PROVE i + 3 <= k
  <2> SUFFICES ASSUME ~ (i + 3 <= k) PROVE FALSE
    OBVIOUS
  <2> DEFINE j == k - 2
  <2>1. k \in Int /\ 4 <= k /\ l[k - 2] = "mode" /\ l[k - 3] = Quote /\ l[k - 1] = Quote
    BY <1>6 DEF Behind
  <2>2. j \in 2 .. i /\ j - 1 = k - 3 /\ j + 1 = k - 1
    BY <1>8, <2>1
  <2>3. l[j] = "mode" /\ l[j - 1] = Quote /\ l[j + 1] = Quote
    BY <2>1, <2>2
  <2> HIDE DEF j
  <2>4. \/ j \in 2 .. 9 + e \/ j = 10 + e \/ j = 11 + e \/ j = 12 + e \/ (e = 1 /\ j = 13 + e) \/ j = 13 + e + e
        \/ j \in u .. u + T - 1
        \/ j = 14 + e + e + T \/ j = 15 + e + e + T \/ j = i
    BY <1>3, <1>4, <2>2
  <2>5. "mode" \notin {"text", Quote, ":", Space, Comma}
    BY DEF Quote, Space, Comma
  <2>6. j \in u .. u + T - 1
    BY <1>11, <1>12, <1>15, <1>16, <2>3, <2>4, <2>5
  <2> DEFINE q == j - u + 1
  <2>12. u \in Nat \ {0} /\ T \in Nat /\ Placed(l, u, b, s, p)
    BY <1>3, <1>8, <1>15
  <2> HIDE DEF u
  <2>7. q \in 1 .. T /\ j = u + q - 1
    <3>1. j \in Int /\ u \in Int /\ T \in Int /\ u <= j /\ j <= u + T - 1
      BY <2>6, <2>12
    <3> QED BY ONLY <3>1
  <2> HIDE DEF q
  <2>8. PICK z \in 1 .. Len(s) : \E n \in 1 .. Len(Escaped(b, s[z])) : q = p[z - 1] + n
    BY <1>15, <2>7
  <2>9. PICK n \in 1 .. Len(Escaped(b, s[z])) : q = p[z - 1] + n
    BY <2>8
  <2>10. j = u + p[z - 1] + n - 1
    <3> DEFINE x == p[z - 1]
    <3>1. x \in Nat
      <4>1. z - 1 \in 0 .. Len(s)
        BY LenProperties
      <4> QED BY <1>15, <4>1 DEF Placed
    <3>2. n \in Nat
      <4>1. Len(Escaped(b, s[z])) \in Nat
        BY ElementOfSeq, EscapedIs
      <4> QED BY <4>1
    <3> HIDE DEF x
    <3>3. j = u + (x + n) - 1
      BY <2>7, <2>9 DEF x
    <3>4. j = u + x + n - 1
      BY <1>8, <3>1, <3>2, <3>3
    <3> QED BY <3>4 DEF x
  <2>11. HidesMode(s)
    <3>1. s \in Seq(DOMAIN Width) /\ Len(l) \in Nat
      BY <1>6
    <3> HIDE DEF s
    <3>2. s = <<"mode">> \/ IsSuffix(<<Quote, "mode">>, s)
      BY <2>3, <2>9, <2>10, <2>12, <3>1, ModeInText
    <3> QED BY <3>2 DEF HidesMode
  <2> QED BY <1>17, <2>11
<1>18. ~ HidesMode(s) => json_int(l, "mode", DEFAULT_MODE) = Digit[d]
  BY <1>6, <1>8, <1>13, <1>17, ModeFound
<1> QED BY <1>1, <1>11, <1>18

\* Go: its encoder sorts the fields, and the mode comes first.
LEMMA GoMapLine ==
  ASSUME NEW r, r.op = "map", r.arg \in Seq(DOMAIN Width), r.mode \in DOMAIN Digit
  PROVE  /\ Says(Encode("go", r), "map", "text", "go", r.arg)
         /\ json_int(Encode("go", r), "mode", DEFAULT_MODE) = Digit[r.mode]
<1> DEFINE b == "go"
           o == OpField(b, "map")
           s == r.arg
           d == r.mode
           t == TextField(b, "text", s)
           m == ModeField(b, d)
           c == <<Comma>>
           a == (m \o c) \o o
           l == (a \o c) \o t
<1>1. Encode(b, r) = l
  BY DEF Encode, OpField, TextField, ModeField
<1>2. "map" \in Operations /\ "text" \in Pieces
  BY DEF Operations, Pieces
<1>3. Blanks(b) = 0
  BY DEF Blanks
<1> HIDE DEF b
<1>4. /\ o \in Seq(Pieces) /\ Len(o) = 7 /\ t \in Seq(Pieces)
      /\ c \in Seq(Pieces) /\ Len(c) = 1 /\ m \in Seq(Pieces) /\ Len(m) = 5
  <2>1. o \in Seq(Pieces) /\ Len(o) = 7 + Blanks(b)
    BY <1>2, OpIs
  <2>2. t \in Seq(Pieces)
    BY <1>2, TextIs
  <2>3. m \in Seq(Pieces) /\ Len(m) = 5 + Blanks(b)
    BY ModeIs
  <2>4. c \in Seq(Pieces) /\ Len(c) = 1
    BY CommaIs
  <2> HIDE DEF o, t, m, c
  <2> QED BY <1>3, <2>1, <2>2, <2>3, <2>4
<1>5. a \in Seq(Pieces) /\ Len(a) = 13
  <2> HIDE DEF o, m, c
  <2> DEFINE h == m \o c
  <2>1. h \in Seq(Pieces) /\ Len(h) = Len(m) + Len(c)
    BY <1>4, ConcatProperties
  <2> HIDE DEF h
  <2>2. h \o o \in Seq(Pieces) /\ Len(h \o o) = Len(h) + Len(o)
    BY <1>4, <2>1, ConcatProperties
  <2>3. Len(h \o o) = 13
    BY <1>4, <2>1, <2>2
  <2> QED BY <2>2, <2>3 DEF h
<1>6. l \in Seq(Pieces) /\ Len(l) \in Nat
  <2> HIDE DEF a, t, c
  <2>1. a \o c \in Seq(Pieces)
    BY <1>4, <1>5, ConcatProperties
  <2>2. (a \o c) \o t \in Seq(Pieces)
    BY <1>4, <2>1, ConcatProperties
  <2> QED BY <2>2, LenProperties
<1>7. Stands(l, 1, (a \o c) \o t)
  BY <1>6, StandsItself
<1>8. 1 \in Nat \ {0} /\ 6 \in Nat \ {0} /\ 7 \in Nat \ {0} /\ 14 \in Nat \ {0} /\ 15 \in Nat \ {0}
  OBVIOUS
<1> HIDE DEF l
<1>9. Stands(l, 1, a) /\ Stands(l, 14, c) /\ Stands(l, 15, t)
  <2>1. Stands(l, 1, a) /\ Stands(l, 1 + Len(a), c) /\ Stands(l, 1 + Len(a) + Len(c), t)
    <3> HIDE DEF a, c, t
    <3> QED BY <1>4, <1>5, <1>6, <1>7, <1>8, StandsThree
  <2>2. 1 + Len(a) = 14 /\ 1 + Len(a) + Len(c) = 15
    <3> HIDE DEF a, c
    <3> QED BY <1>4, <1>5
  <2> QED BY <2>1, <2>2
<1>10. Stands(l, 1, m) /\ Stands(l, 6, c) /\ Stands(l, 7, o)
  <2>1. Stands(l, 1, m) /\ Stands(l, 1 + Len(m), c) /\ Stands(l, 1 + Len(m) + Len(c), o)
    <3>1. Stands(l, 1, (m \o c) \o o)
      BY <1>9
    <3> HIDE DEF m, c, o
    <3> QED BY <1>4, <1>6, <1>8, <3>1, StandsThree
  <2>2. 1 + Len(m) = 6 /\ 1 + Len(m) + Len(c) = 7
    <3> HIDE DEF m, c
    <3> QED BY <1>4
  <2> QED BY <2>1, <2>2
<1> HIDE DEF m, c, o, t, a
<1>11. ModeStands(l, 1, b, d)
  BY <1>6, <1>8, <1>10, ModeIs DEF m
<1>12. OpStands(l, 7, b, "map")
  BY <1>2, <1>6, <1>8, <1>10, OpIs DEF o
<1>13. l[6] = Comma /\ l[14] = Comma
  BY <1>6, <1>8, <1>9, <1>10, CommaIs DEF c
<1>14. PICK p : TextStands(l, 15, b, "text", s, p)
  BY <1>2, <1>6, <1>8, <1>9, TextIs DEF t
<1>15. l[1] = Quote /\ l[2] = "mode" /\ l[3] = Quote /\ l[4] = ":" /\ l[5] = d
  <2>1. /\ l[1] = Quote /\ l[1 + 1] = "mode" /\ l[1 + 2] = Quote /\ l[1 + 3] = ":"
        /\ l[1 + 4 + Blanks(b)] = d
    BY <1>11 DEF ModeStands
  <2>2. 1 + 1 = 2 /\ 1 + 2 = 3 /\ 1 + 3 = 4 /\ 1 + 4 + Blanks(b) = 5
    BY <1>3
  <2> QED BY <2>1, <2>2
<1>16. /\ l[7] = Quote /\ l[8] = "op" /\ l[9] = Quote /\ l[10] = ":"
       /\ l[11] = Quote /\ l[12] = "map" /\ l[13] = Quote
  <2>1. /\ l[7] = Quote /\ l[7 + 1] = "op" /\ l[7 + 2] = Quote /\ l[7 + 3] = ":"
        /\ l[7 + 4 + Blanks(b)] = Quote /\ l[7 + 5 + Blanks(b)] = "map" /\ l[7 + 6 + Blanks(b)] = Quote
    BY <1>12 DEF OpStands
  <2>2. /\ 7 + 1 = 8 /\ 7 + 2 = 9 /\ 7 + 3 = 10 /\ 7 + 4 + Blanks(b) = 11
        /\ 7 + 5 + Blanks(b) = 12 /\ 7 + 6 + Blanks(b) = 13
    BY <1>3
  <2> QED BY <2>1, <2>2
<1>17. l[15] = Quote
  BY <1>14 DEF TextStands
<1>18. d \notin {"op", "text"} /\ "op" \notin {"mode", Quote, ":", Comma} /\ "text" \notin {"mode", "op", "map", Quote, ":", Comma}
  BY DEF Digit, Quote, Comma
<1>19. \A j \in 2 .. 7 : l[j] # "op"
  <2>1. \A j \in 2 .. 7 : j = 2 \/ j = 3 \/ j = 4 \/ j = 5 \/ j = 6 \/ j = 7
    OBVIOUS
  <2> QED BY <1>13, <1>15, <1>16, <1>18, <2>1
<1>20. \A j \in 2 .. 15 : l[j] # "text"
  <2>1. \A j \in 2 .. 15 : \/ j = 2 \/ j = 3 \/ j = 4 \/ j = 5 \/ j = 6 \/ j = 7 \/ j = 8
                           \/ j = 9 \/ j = 10 \/ j = 11 \/ j = 12 \/ j = 13 \/ j = 14 \/ j = 15
    OBVIOUS
  <2> QED BY <1>13, <1>15, <1>16, <1>17, <1>18, <2>1
<1>21. json_str(l, "op") = {<<"map">>}
  <2>1. \A k \in Behind(l, "op") : 7 + 3 <= k
    BY <1>8, <1>19, NoneBefore
  <2>2. Stands(l, 7, OpField(b, "map"))
    BY <1>10 DEF o
  <2> QED BY <1>2, <1>6, <1>8, <2>1, <2>2, OpFound
<1>22. /\ json_str(l, "text") = {Unescaped(l, 15 + 5 + Blanks(b))}
       /\ Readable(b, s) => json_str(l, "text") = {s}
  <2>1. \A k \in Behind(l, "text") : 15 + 3 <= k
    BY <1>8, <1>20, NoneBefore
  <2> QED BY <1>6, <1>8, <1>14, <2>1, TextFound
<1>23. \E text \in Seq(Pieces) : json_str(l, "text") = {text}
  BY <1>6, <1>22, TextRead
<1>24. json_int(l, "mode", DEFAULT_MODE) = Digit[d]
  <2>1. \A k \in Behind(l, "mode") : 1 + 3 <= k
    BY DEF Behind
  <2> QED BY <1>6, <1>8, <1>11, <2>1, ModeFound
<1>25. Says(l, "map", "text", b, s)
  BY <1>6, <1>21, <1>22, <1>23 DEF Says
<1> QED BY <1>1, <1>24, <1>25 DEF b

-----------------------------------------------------------------------------
(* The replies of handle_map                                               *)

\* %d makes at most ten digits of a number, and at most two of one below 100.
LEMMA DigitsRange ==
  ASSUME NEW n
  PROVE  Digits(n) \in 1 .. 10 /\ (n \in 0 .. 99 => Digits(n) <= 2)
<1> DEFINE D == {d \in DOMAIN Powers : n >= Powers[d]}
<1>1. DOMAIN Powers = 1 .. 9
  BY DEF Powers
<1>2. IsFiniteSet(1 .. 9) /\ Cardinality(1 .. 9) = 9
  <2>1. IsFiniteSet(1 .. 9) /\ Cardinality(1 .. 9) = IF 1 > 9 THEN 0 ELSE 9 - 1 + 1
    BY 1 \in Int, 9 \in Int, FS_Interval
  <2> QED BY <2>1
<1>3. D \in SUBSET (1 .. 9)
  BY <1>1
<1>4. Cardinality(D) \in Nat /\ Cardinality(D) <= 9
  <2> HIDE DEF D
  <2>1. IsFiniteSet(D) /\ Cardinality(D) <= Cardinality(1 .. 9)
    BY <1>2, <1>3, FS_Subset
  <2> QED BY <1>2, <2>1, FS_CardinalityType
<1>5. ASSUME n \in 0 .. 99 PROVE Cardinality(D) <= 1
  <2>1. D \in SUBSET (1 .. 1)
    <3>1. \A d \in 2 .. 9 : Powers[d] >= 100
      <4>1. \A d \in 2 .. 9 : d = 2 \/ d = 3 \/ d = 4 \/ d = 5 \/ d = 6 \/ d = 7 \/ d = 8 \/ d = 9
        OBVIOUS
      <4> QED BY <4>1 DEF Powers
    <3>2. \A d \in 1 .. 9 : d = 1 \/ d \in 2 .. 9
      OBVIOUS
    <3>3. \A d \in 2 .. 9 : Powers[d] \in Int
      <4>1. \A d \in 2 .. 9 : d = 2 \/ d = 3 \/ d = 4 \/ d = 5 \/ d = 6 \/ d = 7 \/ d = 8 \/ d = 9
        OBVIOUS
      <4> QED BY <4>1 DEF Powers
    <3>4. \A d \in 2 .. 9 : ~ (n >= Powers[d])
      BY <1>5, <3>1, <3>3
    <3>5. \A d \in D : d = 1
      BY <1>1, <3>2, <3>4
    <3> QED BY <3>5
  <2>2. IsFiniteSet(1 .. 1) /\ Cardinality(1 .. 1) = 1
    <3>1. IsFiniteSet(1 .. 1) /\ Cardinality(1 .. 1) = IF 1 > 1 THEN 0 ELSE 1 - 1 + 1
      BY 1 \in Int, FS_Interval
    <3> QED BY <3>1
  <2> HIDE DEF D
  <2> QED BY <2>1, <2>2, FS_Subset
<1>6. Digits(n) = 1 + Cardinality(D)
  BY DEF Digits
<1> HIDE DEF D
<1> QED BY <1>4, <1>5, <1>6

\* Filled is the sum it is meant to be.
LEMMA FilledIs ==
  ASSUME NEW found, NEW N \in Nat, \A n \in 1 .. N : EntryBytes(found[n]) \in Nat
  PROVE  /\ \A n \in 0 .. N : Filled(found, n) \in Nat
         /\ Filled(found, 0) = HeadBytes
         /\ \A n \in 1 .. N :
              Filled(found, n) = Filled(found, n - 1) + (IF n > 1 THEN 1 ELSE 0) + EntryBytes(found[n])
<1> DEFINE d == [k \in 1 .. N |-> (IF k > 1 THEN 1 ELSE 0) + EntryBytes(found[k])]
<1>1. d \in [1 .. N -> Nat]
  OBVIOUS
<1>2. HeadBytes \in Nat
  BY DEF HeadBytes
<1> HIDE DEF d
<1>3. PICK g : Sums(g, N, HeadBytes, d)
  BY <1>1, <1>2, SumsExist
<1>4. ASSUME NEW n \in 0 .. N PROVE Filled(found, n) = g[n]
  <2> DEFINE E(f) == [k \in 0 .. n |->
                        IF k = 0 THEN HeadBytes
                        ELSE f[k - 1] + (IF k > 1 THEN 1 ELSE 0) + EntryBytes(found[k])]
             h == [k \in 0 .. n |-> g[k]]
             F == CHOOSE f : f = E(f)
  <2>1. h = E(h)
    <3>1. ASSUME NEW k \in 0 .. n PROVE h[k] = E(h)[k]
      <4>1. CASE k = 0
        BY <1>3, <4>1 DEF Sums
      <4>2. CASE k # 0
        <5>1. k \in 1 .. N /\ k - 1 \in 0 .. n /\ k - 1 \in 0 .. N
          BY <4>2
        <5>2. h[k] = g[k] /\ h[k - 1] = g[k - 1] /\ g[k] = g[k - 1] + d[k]
          BY <1>3, <5>1 DEF Sums
        <5>3. d[k] = (IF k > 1 THEN 1 ELSE 0) + EntryBytes(found[k])
          BY <5>1 DEF d
        <5>4. g[k - 1] \in Nat /\ EntryBytes(found[k]) \in Nat
          BY <1>3, <5>1 DEF Sums
        <5>5. E(h)[k] = h[k - 1] + (IF k > 1 THEN 1 ELSE 0) + EntryBytes(found[k])
          BY <4>2
        <5> QED BY <5>2, <5>3, <5>4, <5>5
      <4> QED BY <4>1, <4>2
    <3> QED BY <3>1
  <2>2. F = E(F)
    BY <2>1
  <2>3. Filled(found, n) = F[n]
    BY DEF Filled
  <2> HIDE DEF F
  <2> DEFINE S == {k \in 0 .. n : F[k] = g[k]}
  <2>4. 0 \in S
    <3>1. E(F)[0] = HeadBytes
      OBVIOUS
    <3>2. g[0] = HeadBytes
      BY <1>3 DEF Sums
    <3>3. F[0] = E(F)[0]
      BY <2>2
    <3> QED BY <3>1, <3>2, <3>3
  <2>5. ASSUME NEW k \in 1 .. n, k - 1 \in S PROVE k \in S
    <3>1. k \in 1 .. N /\ k \in 0 .. n /\ k # 0 /\ k - 1 \in 0 .. N
      OBVIOUS
    <3>2. F[k - 1] = g[k - 1] /\ g[k] = g[k - 1] + d[k] /\ g[k - 1] \in Nat
      BY <1>3, <2>5, <3>1 DEF Sums
    <3>3. E(F)[k] = F[k - 1] + (IF k > 1 THEN 1 ELSE 0) + EntryBytes(found[k])
      BY <3>1
    <3>4. d[k] = (IF k > 1 THEN 1 ELSE 0) + EntryBytes(found[k]) /\ EntryBytes(found[k]) \in Nat
      BY <3>1 DEF d
    <3>5. F[k] = E(F)[k]
      BY <2>2
    <3>6. F[k] = g[k]
      BY <3>2, <3>3, <3>4, <3>5
    <3> QED BY <3>1, <3>6
  <2>6. n \in Nat
    OBVIOUS
  <2> HIDE DEF S, E
  <2>7. \A k \in 0 .. n : k \in S
    BY <2>4, <2>5, <2>6, UpFromZero
  <2>8. n \in S
    BY <2>6, <2>7
  <2> QED BY <2>3, <2>8 DEF S
<1>5. ASSUME NEW n \in 1 .. N
      PROVE  Filled(found, n) = Filled(found, n - 1) + (IF n > 1 THEN 1 ELSE 0) + EntryBytes(found[n])
  <2>1. n \in 0 .. N /\ n - 1 \in 0 .. N
    OBVIOUS
  <2>2. g[n] = g[n - 1] + d[n] /\ g[n - 1] \in Nat
    BY <1>3, <2>1 DEF Sums
  <2>3. d[n] = (IF n > 1 THEN 1 ELSE 0) + EntryBytes(found[n]) /\ EntryBytes(found[n]) \in Nat
    BY DEF d
  <2> QED BY <1>4, <2>1, <2>2, <2>3
<1>6. \A n \in 0 .. N : g[n] \in Nat
  BY <1>3 DEF Sums
<1>7. Filled(found, 0) = HeadBytes
  <2>1. 0 \in 0 .. N
    OBVIOUS
  <2> QED BY <1>3, <1>4, <2>1 DEF Sums
<1> QED BY <1>4, <1>5, <1>6, <1>7

\* What is found is a sequence, and an entry of it takes 36 bytes at most.
Entries(found, N) ==
  /\ N \in Nat /\ DOMAIN found = 1 .. N /\ found \in Seq({found[n] : n \in 1 .. N}) /\ Len(found) = N
  /\ \A n \in 1 .. N : EntryBytes(found[n]) \in 0 .. 36

\* Matches gives such a sequence.
LEMMA MatchesAre ==
  ASSUME NEW text \in Seq(Pieces), NEW mode
  PROVE  \E N : Entries(Matches(text, mode), N)
<1> DEFINE ks == {k \in DOMAIN text : Matched(text, mode, k)}
           Entry(k) == [pos |-> Bytes(SubSeq(text, 1, k - 1)), len |-> Width[text[k]], key |-> Dict[text[k]]]
           Of(n) == CHOOSE k \in ks : Cardinality({m \in ks : m <= k}) = n
           N == Cardinality(ks)
           found == [n \in 1 .. N |-> Entry(Of(n))]
<1>1. Matches(text, mode) = found
  BY DEF Matches
<1>2. Len(text) \in Nat /\ DOMAIN text = 1 .. Len(text)
  BY LenProperties
<1>3. ks \in SUBSET (1 .. Len(text)) /\ \A k \in ks : text[k] \in DOMAIN Dict
  BY <1>2 DEF Matched
<1> HIDE DEF ks
<1>4. N \in Nat /\ \A n \in 1 .. N : \E k \in ks : Cardinality({m \in ks : m <= k}) = n
  BY <1>2, <1>3, RankTaken
<1>5. ASSUME NEW n \in 1 .. N PROVE EntryBytes(found[n]) \in 0 .. 36
  <2>1. Of(n) \in ks
    BY <1>4
  <2> DEFINE k == Of(n)
  <2>2. text[k] \in DOMAIN Dict
    BY <1>3, <2>1
  <2> HIDE DEF k
  <2>3. Width[text[k]] \in 0 .. 99 /\ Dict[text[k]] \in 0 .. 99
    <3>1. Dict[text[k]] \in 0 .. 14 /\ Width[text[k]] \in 1 .. 31
      BY <2>2, RequestAssumption
    <3> QED BY <3>1
  <2> DEFINE x == Entry(k)
  <2>4. x.len = Width[text[k]] /\ x.key = Dict[text[k]]
    OBVIOUS
  <2>5. found[n] = x
    BY DEF k
  <2> HIDE DEF x
  <2>6. /\ Digits(x.pos) \in 1 .. 10
        /\ Digits(x.len) \in 1 .. 10 /\ Digits(x.len) <= 2
        /\ Digits(x.key) \in 1 .. 10 /\ Digits(x.key) <= 2
    BY <2>3, <2>4, DigitsRange
  <2>7. EntryBytes(x) \in 0 .. 36
    <3>1. EntryBytes(x) = 22 + Digits(x.pos) + Digits(x.len) + Digits(x.key)
      BY DEF EntryBytes
    <3> DEFINE a == Digits(x.pos)
               b == Digits(x.len)
               c == Digits(x.key)
    <3>2. a \in 1 .. 10 /\ b \in 1 .. 10 /\ b <= 2 /\ c \in 1 .. 10 /\ c <= 2
      BY <2>6
    <3> HIDE DEF a, b, c
    <3>3. 22 + a + b + c \in 0 .. 36
      BY <3>2
    <3> QED BY <3>1, <3>3 DEF a, b, c
  <2> QED BY <2>5, <2>7
<1>6. found \in [1 .. N -> {found[n] : n \in 1 .. N}] /\ DOMAIN found = 1 .. N
  OBVIOUS
<1> HIDE DEF found, N
<1>7. found \in Seq({found[n] : n \in 1 .. N}) /\ Len(found) = N
  BY <1>4, <1>6
<1>8. DOMAIN found = 1 .. N /\ \A n \in 1 .. N : EntryBytes(found[n]) \in 0 .. 36
  BY <1>5, <1>6
<1>9. Entries(found, N)
  BY <1>4, <1>7, <1>8 DEF Entries
<1> QED BY <1>1, <1>9

\* The entries shown are the first ones, and those for which there is room.
LEMMA ShownAre ==
  ASSUME NEW found, NEW N, Entries(found, N)
  PROVE  /\ Shown(found) \in 0 .. N
         /\ Shown(found) > 0 => Filled(found, Shown(found) - 1) < RSZ - 64
<1> DEFINE H == {n \in DOMAIN found : Filled(found, n - 1) < RSZ - 64}
           c == Cardinality(H)
<1>8. N \in Nat /\ DOMAIN found = 1 .. N /\ \A n \in 1 .. N : EntryBytes(found[n]) \in 0 .. 36
  BY DEF Entries
<1>1. N \in Nat /\ DOMAIN found = 1 .. N /\ \A n \in 1 .. N : EntryBytes(found[n]) \in Nat
  <2>1. \A x \in 0 .. 36 : x \in Nat
    OBVIOUS
  <2> QED BY <1>8, <2>1
<1>2. /\ \A n \in 0 .. N : Filled(found, n) \in Nat
      /\ \A n \in 1 .. N :
           Filled(found, n) = Filled(found, n - 1) + (IF n > 1 THEN 1 ELSE 0) + EntryBytes(found[n])
  BY <1>1, FilledIs
<1>3. H \in SUBSET (1 .. N) /\ \A n \in H : Filled(found, n - 1) < RSZ - 64
  BY <1>1
<1>4. ASSUME NEW n \in H, n > 1 PROVE n - 1 \in H
  <2> DEFINE k == n - 1
  <2>1. n \in 1 .. N /\ k \in 1 .. N /\ k \in 0 .. N /\ k - 1 \in 0 .. N /\ Filled(found, k) < RSZ - 64
    BY <1>1, <1>3, <1>4
  <2> HIDE DEF k
  <2> DEFINE x == Filled(found, k)
             y == Filled(found, k - 1)
             z == EntryBytes(found[k])
  <2>2. x \in Nat /\ y \in Nat /\ z \in Nat /\ x = y + (IF k > 1 THEN 1 ELSE 0) + z /\ x < RSZ - 64
    BY <1>1, <1>2, <2>1
  <2>3. y < RSZ - 64
    <3> HIDE DEF x, y, z
    <3>1. RSZ \in Int
      BY RequestAssumption
    <3> QED BY <2>2, <3>1
  <2>4. k \in H
    BY <1>1, <2>1, <2>3
  <2> QED BY <2>4 DEF k
<1>5. Shown(found) = c
  BY DEF Shown
<1> HIDE DEF H
<1>6. c \in 0 .. N /\ H = 1 .. c
  BY <1>1, <1>3, <1>4, LowerInterval
<1>7. c > 0 => c \in H
  <2> HIDE DEF c
  <2> QED BY <1>6
<1> QED BY <1>3, <1>5, <1>6, <1>7

\* A reply of handle_map fits.
LEMMA MapReplyFits ==
  ASSUME NEW found, NEW N, Entries(found, N)
  PROVE  MapReply(found).bytes + 1 <= RSZ
<1> DEFINE h == Shown(found)
           F(n) == Filled(found, n)
<1>1. N \in Nat /\ \A n \in 1 .. N : EntryBytes(found[n]) \in 0 .. 36
  BY DEF Entries
<1>2. h \in 0 .. N /\ (h > 0 => F(h - 1) < RSZ - 64)
  BY ShownAre
<1>3. /\ \A n \in 0 .. N : F(n) \in Nat
      /\ F(0) = HeadBytes
      /\ \A n \in 1 .. N : F(n) = F(n - 1) + (IF n > 1 THEN 1 ELSE 0) + EntryBytes(found[n])
  <2>1. \A n \in 1 .. N : EntryBytes(found[n]) \in Nat
    BY <1>1
  <2> QED BY <1>1, <2>1, FilledIs
<1>4. MapReply(found).bytes = F(h) + TailBytes
  BY DEF MapReply
<1>5. RSZ \in Nat /\ 64 < RSZ /\ HeadBytes = 12 /\ TailBytes = 16
  BY RequestAssumption DEF HeadBytes, TailBytes
<1> HIDE DEF h, F
<1>6. CASE h = 0
  BY <1>3, <1>4, <1>5, <1>6
<1>7. CASE h # 0
  <2>1. h \in 1 .. N /\ h \in 0 .. N /\ h - 1 \in 0 .. N /\ h > 0
    BY <1>1, <1>2, <1>7
  <2> DEFINE x == F(h)
             y == F(h - 1)
             z == EntryBytes(found[h])
  <2>2. x \in Nat /\ y \in Nat /\ z \in 0 .. 36 /\ x = y + (IF h > 1 THEN 1 ELSE 0) + z /\ y < RSZ - 64
    BY <1>1, <1>2, <1>3, <2>1
  <2> HIDE DEF y, z
  <2>3. x <= y + 37
    <3> HIDE DEF x
    <3> QED BY <2>2
  <2>4. x + 16 + 1 <= RSZ
    <3> HIDE DEF x
    <3> QED BY <1>5, <2>2, <2>3
  <2> QED BY <1>4, <1>5, <2>4
<1> QED BY <1>6, <1>7

\* What it says is the beginning of what is found.
LEMMA MapReplyBegins ==
  ASSUME NEW found, NEW N, Entries(found, N)
  PROVE  IsPrefix(MapReply(found).matches, found)
<1> DEFINE h == Shown(found)
           S == {found[n] : n \in 1 .. N}
           p == SubSeq(found, 1, h)
           q == SubSeq(p, 1, h)
<1>1. N \in Nat /\ Len(found) = N
  BY DEF Entries
<1>2. h \in 0 .. N
  BY ShownAre
<1> HIDE DEF h
<1>3. h \in Nat /\ h <= N /\ \A n \in 1 .. h : found[n] \in S
  BY <1>1, <1>2
<1>4. p \in Seq(S) /\ Len(p) = h /\ \A n \in 1 .. h : p[n] = found[n]
  <2>1. /\ p \in Seq(S) /\ Len(p) = IF 1 <= h THEN h - 1 + 1 ELSE 0
        /\ \A n \in 1 .. h - 1 + 1 : p[n] = found[1 + n - 1]
    BY <1>3, 1 \in Int, h \in Int, SubSeqProperties
  <2> QED BY <1>3, <2>1
<1> HIDE DEF p, S
<1>5. q \in Seq(S) /\ Len(q) = h /\ \A n \in 1 .. h : q[n] = p[n]
  <2>1. \A n \in 1 .. h : p[n] \in S
    BY <1>3, <1>4
  <2>2. /\ q \in Seq(S) /\ Len(q) = IF 1 <= h THEN h - 1 + 1 ELSE 0
        /\ \A n \in 1 .. h - 1 + 1 : q[n] = p[1 + n - 1]
    BY <1>3, <2>1, 1 \in Int, h \in Int, SubSeqProperties
  <2> QED BY <1>3, <2>2
<1> HIDE DEF q
<1>6. q = p
  BY <1>4, <1>5, SeqEqual
<1>7. MapReply(found).matches = p
  BY DEF MapReply, p, h
<1>8. IsPrefix(p, found)
  <2>1. SubSeq(p, 1, Len(p)) = SubSeq(found, 1, Len(p))
    BY <1>4, <1>6 DEF q, p
  <2> QED BY <1>1, <1>3, <1>4, <2>1 DEF IsPrefix
<1> QED BY <1>7, <1>8

-----------------------------------------------------------------------------
(* What dispatch answers                                                   *)

Tidy(body) == body.kind = "map" => body.bytes + 1 <= RSZ

\* handle_seek, handle_map: the replies for a line with one word, or one text.
LEMMA SeekReplies ==
  ASSUME NEW line, NEW body \in handle_seek(line)
  PROVE  /\ Tidy(body)
         /\ \A word : json_str(line, "word") = {word} =>
              body.kind = "seek" /\ (~ body.null => body.key = Seek(word))
<1> DEFINE A == {[kind |-> "seek", key |-> Seek(word), null |-> FALSE] : word \in json_str(line, "word")}
           B == {[kind |-> "seek", key |-> -1, null |-> TRUE] : word \in json_str(line, "word")}
<1>1. body \in (IF A \union B = {} THEN {Error} ELSE A \union B)
  BY DEF handle_seek, Or
<1>2. body = Error \/ body \in A \/ body \in B
  BY <1>1
<1>3. body.kind = "seek" \/ body.kind = "error"
  BY <1>2 DEF Error
<1>4. Tidy(body)
  BY <1>3 DEF Tidy
<1>5. ASSUME NEW word, json_str(line, "word") = {word}
      PROVE  body.kind = "seek" /\ (~ body.null => body.key = Seek(word))
  <2>1. /\ A = {[kind |-> "seek", key |-> Seek(word), null |-> FALSE]}
        /\ B = {[kind |-> "seek", key |-> -1, null |-> TRUE]}
    BY <1>5
  <2>2. \/ body = [kind |-> "seek", key |-> Seek(word), null |-> FALSE]
        \/ body = [kind |-> "seek", key |-> -1, null |-> TRUE]
    BY <1>1, <2>1
  <2> QED BY <2>2
<1> QED BY <1>4, <1>5

\* The same for a map: its matches are the first ones of those the library finds.
LEMMA MapReplies ==
  ASSUME NEW line, line \in Seq(Pieces), NEW body \in handle_map(line)
  PROVE  /\ Tidy(body)
         /\ \A text : json_str(line, "text") = {text} =>
              /\ body.kind = "map"
              /\ ~ body.null =>
                   IsPrefix(body.matches, Matches(text, json_int(line, "mode", DEFAULT_MODE)))
<1> DEFINE texts == json_str(line, "text")
           mode == json_int(line, "mode", DEFAULT_MODE)
           A == {MapReply(found) : found \in {Matches(text, mode) : text \in texts}}
           B == {NullReply : text \in texts}
<1>1. body \in (IF A \union B = {} THEN {Error} ELSE A \union B)
  BY DEF handle_map, Or
<1>2. Error.kind = "error" /\ NullReply.kind = "map" /\ NullReply.null = TRUE /\ NullReply.bytes = HeadBytes + TailBytes
  BY DEF Error, NullReply
<1>3. \A found : MapReply(found).kind = "map"
  BY DEF MapReply
<1>4. \A text \in texts : \E N : Entries(Matches(text, mode), N)
  BY StringsRead, MatchesAre
<1> HIDE DEF texts, mode
<1>5. Tidy(body)
  <2>1. CASE body = Error
    BY <1>2, <2>1 DEF Tidy
  <2>2. CASE body \in B
    <3>1. NullReply.bytes + 1 <= RSZ
      <4>1. HeadBytes = 12 /\ TailBytes = 16 /\ RSZ \in Nat /\ 64 < RSZ
        BY RequestAssumption DEF HeadBytes, TailBytes
      <4> QED BY <1>2, <4>1
    <3> QED BY <2>2, <3>1 DEF Tidy
  <2>3. CASE body \in A
    <3>1. PICK text \in texts : body = MapReply(Matches(text, mode))
      BY <2>3
    <3>2. body.bytes + 1 <= RSZ
      BY <1>4, <3>1, MapReplyFits
    <3> QED BY <3>2 DEF Tidy
  <2> QED BY <1>1, <2>1, <2>2, <2>3
<1>6. ASSUME NEW text, texts = {text}
      PROVE  body.kind = "map" /\ (~ body.null => IsPrefix(body.matches, Matches(text, mode)))
  <2>1. A = {MapReply(Matches(text, mode))} /\ B = {NullReply}
    BY <1>6
  <2>2. body = MapReply(Matches(text, mode)) \/ body = NullReply
    BY <1>1, <2>1
  <2>3. IsPrefix(MapReply(Matches(text, mode)).matches, Matches(text, mode))
    BY <1>4, <1>6, MapReplyBegins
  <2> QED BY <1>2, <1>3, <2>2, <2>3
<1> QED BY <1>5, <1>6 DEF texts, mode

\* No reply is too long, whatever the line.
LEMMA AnswersFit ==
  ASSUME NEW line \in Seq(Pieces), NEW body \in dispatch(line)
  PROVE  Tidy(body)
<1>1. \/ body \in handle_seek(line) \/ body \in handle_map(line) \/ body \in handle_mask
      \/ body = [kind |-> "status"] \/ body = [kind |-> "ping"] \/ body = Error
  BY DEF dispatch
<1>2. CASE body \in handle_seek(line)
  BY <1>2, SeekReplies
<1>3. CASE body \in handle_map(line)
  BY <1>3, MapReplies
<1>4. CASE \/ body \in handle_mask
           \/ body = [kind |-> "status"] \/ body = [kind |-> "ping"] \/ body = Error
  BY <1>4 DEF Tidy, handle_mask, Error
<1> QED BY <1>1, <1>2, <1>3, <1>4

\* What a caller is promised of the answer to a request.
Fulfils(b, r, body) ==
  /\ body.kind = r.op
  /\ r.op = "seek" /\ Readable(b, r.arg) /\ ~ body.null => body.key = Seek(r.arg)
  /\ r.op = "map" /\ Readable(b, r.arg) /\ (b = "go" \/ ~ HidesMode(r.arg)) /\ ~ body.null =>
       IsPrefix(body.matches, Matches(r.arg, Digit[r.mode]))

IsRequest(r) ==
  r \in [op : {"seek", "map", "mask", "status", "ping"}, arg : Seq(DOMAIN Width), mode : DOMAIN Digit]

\* The handler is that of the operation.
LEMMA Dispatched ==
  ASSUME NEW line
  PROVE  /\ json_str(line, "op") = {<<"seek">>} => dispatch(line) = handle_seek(line)
         /\ json_str(line, "op") = {<<"map">>}  => dispatch(line) = handle_map(line)
<1> DEFINE op == json_str(line, "op")
           s == {<<"seek">>}
           m == {<<"map">>}
<1>1. s # m /\ s # {<<"mask">>} /\ s # {<<"status">>} /\ s # {<<"ping">>}
      /\ m # {<<"mask">>} /\ m # {<<"status">>} /\ m # {<<"ping">>}
  <2>1. \A x, y : {<<x>>} = {<<y>>} => x = y
    <3>1. \A x, y : <<x>> = <<y>> => x = y
      OBVIOUS
    <3> QED BY <3>1
  <2> QED BY <2>1
<1>2. dispatch(line) =
        CASE op = s              -> handle_seek(line)
          [] op = m              -> handle_map(line)
          [] op = {<<"mask">>}   -> handle_mask
          [] op = {<<"status">>} -> {[kind |-> "status"]}
          [] op = {<<"ping">>}   -> {[kind |-> "ping"]}
          [] OTHER               -> {Error}
  BY DEF dispatch
<1> HIDE DEF op, s, m
<1>3. op = s => dispatch(line) = handle_seek(line)
  BY <1>1, <1>2
<1>4. op = m => dispatch(line) = handle_map(line)
  BY <1>1, <1>2
<1> QED BY <1>3, <1>4 DEF op, s, m

\* Every answer to the line a binding makes of a request is one to that request.
LEMMA Answers ==
  ASSUME NEW b, NEW r, IsRequest(r)
  PROVE  /\ Encode(b, r) \in Seq(Pieces)
         /\ \A body \in dispatch(Encode(b, r)) : Fulfils(b, r, body)
<1> DEFINE l == Encode(b, r)
<1>1. r.op \in Operations /\ r.arg \in Seq(DOMAIN Width) /\ r.mode \in DOMAIN Digit
  BY DEF IsRequest, Operations
<1>2. \A x, y : <<x>> = <<y>> <=> x = y
  OBVIOUS
<1>3. CASE r.op = "seek"
  <2>1. Says(l, "seek", "word", b, r.arg)
    BY <1>1, <1>3, SeekLine
  <2> HIDE DEF l
  <2>2. l \in Seq(Pieces) /\ json_str(l, "op") = {<<"seek">>}
    BY <2>1 DEF Says
  <2>3. dispatch(l) = handle_seek(l)
    BY <2>2, Dispatched
  <2>4. PICK word : json_str(l, "word") = {word}
    BY <2>1 DEF Says
  <2>5. Readable(b, r.arg) => word = r.arg
    BY <2>1, <2>4 DEF Says
  <2>6. ASSUME NEW body \in handle_seek(l) PROVE Fulfils(b, r, body)
    <3>1. body.kind = "seek" /\ (~ body.null => body.key = Seek(word))
      BY <2>4, <2>6, SeekReplies
    <3> QED BY <1>3, <2>5, <3>1 DEF Fulfils
  <2> QED BY <2>2, <2>3, <2>6 DEF l
<1>4. CASE r.op = "map"
  <2>1. /\ Says(l, "map", "text", b, r.arg)
        /\ b = "go" \/ ~ HidesMode(r.arg) => json_int(l, "mode", DEFAULT_MODE) = Digit[r.mode]
    <3>1. CASE b = "go"
      BY <1>1, <1>4, <3>1, GoMapLine
    <3>2. CASE b # "go"
      BY <1>1, <1>4, <3>2, MapLine
    <3> QED BY <3>1, <3>2
  <2> HIDE DEF l
  <2>2. l \in Seq(Pieces) /\ json_str(l, "op") = {<<"map">>}
    BY <2>1 DEF Says
  <2>3. dispatch(l) = handle_map(l)
    BY <2>2, Dispatched
  <2>4. PICK text : json_str(l, "text") = {text}
    BY <2>1 DEF Says
  <2>5. Readable(b, r.arg) => text = r.arg
    BY <2>1, <2>4 DEF Says
  <2>6. ASSUME NEW body \in handle_map(l) PROVE Fulfils(b, r, body)
    <3>1. /\ body.kind = "map"
          /\ ~ body.null => IsPrefix(body.matches, Matches(text, json_int(l, "mode", DEFAULT_MODE)))
      BY <2>2, <2>4, <2>6, MapReplies
    <3> QED BY <1>4, <2>1, <2>5, <3>1 DEF Fulfils
  <2> QED BY <2>2, <2>3, <2>6 DEF l
<1>5. CASE r.op \in {"mask", "status", "ping"}
  <2>1. l \in Seq(Pieces) /\ json_str(l, "op") = {<<r.op>>}
    BY <1>5, PlainLine
  <2> HIDE DEF l
  <2>2. ASSUME NEW body \in dispatch(l) PROVE body.kind = r.op
    <3>1. CASE r.op = "mask"
      <4>1. dispatch(l) = {[kind |-> "mask"]}
        BY <1>2, <2>1, <3>1 DEF dispatch, handle_mask
      <4> QED BY <2>2, <3>1, <4>1
    <3>2. CASE r.op = "status"
      <4>1. dispatch(l) = {[kind |-> "status"]}
        BY <1>2, <2>1, <3>2 DEF dispatch
      <4> QED BY <2>2, <3>2, <4>1
    <3>3. CASE r.op = "ping"
      <4>1. dispatch(l) = {[kind |-> "ping"]}
        BY <1>2, <2>1, <3>3 DEF dispatch
      <4> QED BY <2>2, <3>3, <4>1
    <3> QED BY <1>5, <3>1, <3>2, <3>3
  <2> QED BY <1>5, <2>1, <2>2 DEF Fulfils, l
<1> QED BY <1>1, <1>3, <1>4, <1>5 DEF Operations

-----------------------------------------------------------------------------
(* The callers                                                             *)

LEMMA NoneIsNoCaller == TypeOK => None \notin DOMAIN script
BY ClientAssumption DEF TypeOK, Calls

\* The invariant holds of a new client.
LEMMA InitStepInv == Init => StepInv
<1> SUFFICES ASSUME Init PROVE StepInv
  OBVIOUS
<1>1. None \notin DOMAIN script
  BY ClientAssumption DEF Init, Calls
<1>2. got \in [DOMAIN script -> ToSet(got)]
  BY DEF Init, ToSet
<1>3. \A c \in DOMAIN script : got[c].by = None /\ at[c] = "new"
  BY DEF Init, NoReply
<1>4. TypeOK
  BY <1>2, <1>3, EmptySequence, EmptySeq DEF Init, TypeOK
<1>5. AnswerIsOwn /\ Quiet
  BY <1>3 DEF AnswerIsOwn, Quiet, Init
<1>6. UnderLock
  BY <1>1, <1>3, EmptySequence DEF UnderLock, Init, GoClosed, Locked
<1>7. InStep
  BY <1>3, EmptySequence DEF InStep, Init, IsInjective, ToSet
<1> QED BY <1>4, <1>5, <1>6, <1>7 DEF StepInv

\* Where the calls are after one that has no reply has moved on.
LEMMA CallMoves ==
  ASSUME StepInv, NEW c \in DOMAIN script, at[c] \in {"new", "send", "recv"},
         NEW v \in {"send", "recv", "failed", "refused"},
         at' = [at EXCEPT ![c] = v],
         UNCHANGED <<binding, script, got, closed>>, dead' \subseteq {"send", "recv"},
         lock' \in DOMAIN script \union {None}, queue' \in Seq(DOMAIN script),
         conn' \in {"up", "half", "ended", "left"},
         IsSequence(lines'), IsSequence(replies')
  PROVE  /\ TypeOK' /\ AnswerIsOwn'
         /\ \A d \in DOMAIN script : got[d].by # None => at'[d] \in {"ok", "failed"}
<1> USE DEF StepInv
<1>1. got[c].by = None
  BY DEF Quiet
<1>2. at' \in [DOMAIN script -> {"new", "send", "recv", "ok", "failed", "refused"}]
  BY DEF TypeOK
<1>3. \A d \in DOMAIN script : at'[d] = IF d = c THEN v ELSE at[d]
  BY DEF TypeOK
<1>4. \A d \in DOMAIN script : at'[d] = "ok" <=> got'[d].by # None /\ got'[d].body.kind # "error"
  BY <1>1, <1>3 DEF TypeOK
<1>5. ToSet(got') = ToSet(got)
  OBVIOUS
<1>6. TypeOK'
  BY <1>2, <1>4, <1>5 DEF TypeOK
<1>7. AnswerIsOwn'
  BY DEF AnswerIsOwn
<1> QED BY <1>1, <1>3, <1>6, <1>7 DEF Quiet

LEMMA LockStep == ASSUME StepInv, NEW c \in DOMAIN script, Lock(c) PROVE StepInv'
<1> USE DEF StepInv
<1>1. None \notin DOMAIN script
  BY NoneIsNoCaller
<1>2. /\ Locked /\ at[c] = "new" /\ lock = None /\ lock' = c
      /\ at' = [at EXCEPT ![c] = "send"]
      /\ UNCHANGED <<binding, script, got, queue, closed, dead, partial, lines, replies, conn>>
  BY DEF Lock, netVars
<1>3. TypeOK' /\ AnswerIsOwn' /\ \A d \in DOMAIN script : got[d].by # None => at'[d] \in {"ok", "failed"}
  BY <1>2, CallMoves DEF TypeOK
<1>4. \A d \in DOMAIN script : at'[d] = IF d = c THEN "send" ELSE at[d]
  BY <1>2 DEF TypeOK
<1>5. Quiet'
  BY <1>2, <1>3 DEF Quiet
<1>6. UnderLock'
  BY <1>1, <1>2, <1>4 DEF UnderLock, GoClosed, Locked
<1>7. InStep'
  BY <1>2 DEF InStep, Locked
<1> QED BY <1>3, <1>5, <1>6, <1>7

\* A line is written behind the others, unless nobody gets it.
LEMMA WriteLine ==
  ASSUME StepInv, NEW c \in DOMAIN script, Write(c)
  PROVE  /\ IsSequence(lines')
         /\ conn' = conn /\ replies' = replies /\ partial' = <<>>
         /\ conn # "up" => lines' = lines
         /\ conn = "up" =>
              /\ Len(lines') = Len(lines) + 1 /\ DOMAIN lines' = 1 .. Len(lines) + 1
              /\ \A k \in 1 .. Len(lines) : lines'[k] = lines[k]
              /\ lines'[Len(lines) + 1].by = c
<1> DEFINE l == [by |-> c, text |-> partial \o Line(c), glued |-> partial # <<>>]
<1>1. lines' = IF conn = "up" THEN Append(lines, l) ELSE lines
  BY DEF Write
<1>2. l.by = c
  OBVIOUS
<1> HIDE DEF l
<1>3. IsSequence(lines)
  BY DEF StepInv, TypeOK
<1>4. /\ IsSequence(Append(lines, l))
      /\ Len(Append(lines, l)) = Len(lines) + 1
      /\ DOMAIN Append(lines, l) = 1 .. Len(lines) + 1
      /\ \A k \in 1 .. Len(lines) : Append(lines, l)[k] = lines[k]
      /\ Append(lines, l)[Len(lines) + 1] = l
  BY <1>3, AppendOwn
<1> QED BY <1>1, <1>2, <1>3, <1>4 DEF Write

LEMMA SendStep == ASSUME StepInv, NEW c \in DOMAIN script, Send(c) PROVE StepInv'
<1> USE DEF StepInv
<1>1. /\ at[c] = "send" /\ ~ GoClosed /\ Write(c)
      /\ at' = [at EXCEPT ![c] = "recv"]
      /\ UNCHANGED <<binding, script, got, lock, queue, closed, dead>>
  BY DEF Send
<1>2. /\ IsSequence(lines')
      /\ conn' = conn /\ replies' = replies
      /\ conn # "up" => lines' = lines
      /\ conn = "up" =>
           /\ Len(lines') = Len(lines) + 1 /\ DOMAIN lines' = 1 .. Len(lines) + 1
           /\ lines'[Len(lines) + 1].by = c
  BY <1>1, WriteLine
<1>3. TypeOK' /\ AnswerIsOwn' /\ \A d \in DOMAIN script : got[d].by # None => at'[d] \in {"ok", "failed"}
  BY <1>1, <1>2, CallMoves DEF TypeOK
<1>4. \A d \in DOMAIN script : at'[d] = IF d = c THEN "recv" ELSE at[d]
  BY <1>1 DEF TypeOK
<1>5. Quiet'
  BY <1>1, <1>2, <1>3 DEF Quiet
<1>6. IsSequence(lines) /\ IsSequence(replies) /\ Len(<<>>) = 0
  BY EmptySequence DEF TypeOK
<1>7. Locked /\ lock = c /\ binding # "node"
  BY <1>1 DEF InStep, UnderLock, Locked, Bindings, TypeOK
<1>8. "recv" \notin dead => lines = <<>> /\ replies = <<>>
  BY <1>1, <1>7 DEF UnderLock
<1>9. c # None
  BY NoneIsNoCaller
<1>10. UnderLock'
  <2>1. queue' = <<>> /\ \A d \in DOMAIN script' : at'[d] \in {"send", "recv"} <=> lock' = d
    BY <1>1, <1>4, <1>7 DEF UnderLock
  <2>2. GoClosed' => conn' = "left" /\ replies' = <<>>
    BY <1>1 DEF GoClosed
  <2>3. ASSUME "recv" \notin dead'
        PROVE  /\ Len(lines') + Len(replies') <= 1
               /\ lock' # None /\ at'[lock'] = "recv"
               /\ \A k \in DOMAIN lines' : lines'[k].by = lock'
               /\ \A k \in DOMAIN replies' : replies'[k].by = lock'
    <3>1. lines = <<>> /\ replies = <<>> /\ Len(lines) = 0
      BY <1>1, <1>6, <1>8, <2>3
    <3>2. Len(replies') = 0 /\ DOMAIN replies' = {}
      BY <1>2, <1>6, <3>1, SequenceLength
    <3>3. Len(lines') <= 1 /\ \A k \in DOMAIN lines' : lines'[k].by = c
      <4>1. CASE conn = "up"
        BY SMTT(20), <1>2, <3>1, <4>1
      <4>2. CASE conn # "up"
        BY <1>2, <1>6, <3>1, <4>2, SequenceLength
      <4> QED BY <4>1, <4>2
    <3>4. Len(lines') \in Nat
      BY <1>2, SequenceLength
    <3>5. lock' # None /\ at'[lock'] = "recv" /\ lock' = c
      BY <1>1, <1>4, <1>7, <1>9
    <3> QED BY <3>2, <3>3, <3>4, <3>5
  <2> QED BY <2>1, <2>2, <2>3 DEF UnderLock
<1>11. InStep'
  BY <1>1, <1>7 DEF InStep
<1> QED BY <1>3, <1>5, <1>10, <1>11

\* Go and Python give up a call: it leaves nothing behind that a later call reads.
LEMMA GiveUp ==
  ASSUME StepInv, NEW c \in DOMAIN script, at[c] \in {"send", "recv"}, Locked,
         at' = [at EXCEPT ![c] = "failed"], lock' = None,
         dead \subseteq dead', dead' \subseteq {"send", "recv"},
         "recv" \notin dead' => lines = <<>> /\ replies = <<>>,
         UNCHANGED <<binding, script, got, queue, closed, lines, replies, conn>>
  PROVE  StepInv'
<1> USE DEF StepInv
<1>1. TypeOK' /\ AnswerIsOwn' /\ \A d \in DOMAIN script : got[d].by # None => at'[d] \in {"ok", "failed"}
  BY CallMoves DEF TypeOK
<1>2. Quiet'
  BY <1>1 DEF Quiet
<1>3. \A d \in DOMAIN script : at'[d] = IF d = c THEN "failed" ELSE at[d]
  BY DEF TypeOK
<1>4. binding # "node"
  BY DEF Locked
<1>5. lock = c /\ None \notin DOMAIN script
  BY NoneIsNoCaller DEF UnderLock
<1>6. IsSequence(lines) /\ IsSequence(replies)
  BY DEF TypeOK
<1>7. UnderLock'
  <2>1. /\ queue' = <<>> /\ \A d \in DOMAIN script' : at'[d] \in {"send", "recv"} <=> lock' = d
        /\ GoClosed' => conn' = "left" /\ replies' = <<>>
    BY <1>3, <1>5 DEF UnderLock, GoClosed
  <2>2. ASSUME "recv" \notin dead'
        PROVE  /\ lines' = <<>> /\ replies' = <<>> /\ Len(lines') + Len(replies') <= 1
               /\ DOMAIN lines' = {} /\ DOMAIN replies' = {}
    <3>1. lines' = <<>> /\ replies' = <<>>
      BY <2>2
    <3>2. IsSequence(lines') /\ IsSequence(replies')
      BY <1>6
    <3>3. /\ Len(lines') = 0 /\ DOMAIN lines' = {}
          /\ Len(replies') = 0 /\ DOMAIN replies' = {}
      BY <3>1, <3>2, SequenceLength
    <3> QED BY <3>1, <3>3
  <2> QED BY <2>1, <2>2 DEF UnderLock
<1>8. InStep'
  BY <1>4 DEF InStep
<1> QED BY <1>1, <1>2, <1>7, <1>8

\* A call that has not sent its line has nothing on its way.
LEMMA NothingSent ==
  ASSUME StepInv, NEW c \in DOMAIN script, at[c] = "send"
  PROVE  Locked /\ ("recv" \notin dead => lines = <<>> /\ replies = <<>>)
<1>1. binding # "node" /\ binding \in Bindings
  BY DEF StepInv, InStep, TypeOK
<1>2. Locked
  BY <1>1 DEF Locked, Bindings
<1> QED BY <1>2 DEF StepInv, UnderLock

LEMMA SendFailsStep == ASSUME StepInv, NEW c \in DOMAIN script, SendFails(c) PROVE StepInv'
<1>1. /\ at[c] = "send" /\ at' = [at EXCEPT ![c] = "failed"] /\ lock' = None
      /\ dead' = (IF binding = "go" THEN dead \union {"send"} ELSE dead)
      /\ UNCHANGED <<binding, script, got, queue, closed, lines, replies, conn>>
  BY DEF SendFails, netVars
<1>2. dead \subseteq dead' /\ dead' \subseteq {"send", "recv"} /\ ("recv" \in dead => "recv" \in dead')
  BY <1>1 DEF StepInv, TypeOK
<1>3. Locked /\ ("recv" \notin dead' => lines = <<>> /\ replies = <<>>)
  BY <1>1, <1>2, NothingSent
<1> QED BY <1>1, <1>2, <1>3, GiveUp

LEMMA SendCutStep == ASSUME StepInv, NEW c \in DOMAIN script, SendCut(c) PROVE StepInv'
<1>1. /\ at[c] = "send" /\ at' = [at EXCEPT ![c] = "failed"] /\ lock' = None
      /\ UNCHANGED <<binding, script, got, queue, closed, dead, lines, replies, conn>>
  BY DEF SendCut
<1>2. dead \subseteq dead' /\ dead' \subseteq {"send", "recv"}
  BY <1>1 DEF StepInv, TypeOK
<1>3. Locked /\ ("recv" \notin dead' => lines = <<>> /\ replies = <<>>)
  BY <1>1, NothingSent
<1> QED BY <1>1, <1>2, <1>3, GiveUp

LEMMA ReceiveTimeoutStep == ASSUME StepInv, NEW c \in DOMAIN script, ReceiveTimeout(c) PROVE StepInv'
<1>1. /\ at[c] = "recv" /\ binding = "python"
      /\ at' = [at EXCEPT ![c] = "failed"] /\ lock' = None
      /\ dead' = dead \union {"recv"}
      /\ UNCHANGED <<binding, script, got, queue, closed, lines, replies, conn>>
  BY DEF ReceiveTimeout, netVars
<1>2. dead \subseteq dead' /\ dead' \subseteq {"send", "recv"} /\ "recv" \in dead'
  BY <1>1 DEF StepInv, TypeOK
<1>3. Locked
  BY <1>1 DEF Locked
<1> QED BY <1>1, <1>2, <1>3, GiveUp

LEMMA ReceiveFailsStep == ASSUME StepInv, NEW c \in DOMAIN script, ReceiveFails(c) PROVE StepInv'
<1>1. /\ at[c] = "recv" /\ Locked
      /\ GoClosed \/ "recv" \in dead \/ StreamEnded
      /\ at' = [at EXCEPT ![c] = "failed"] /\ lock' = None
      /\ dead' = (IF binding = "go" THEN dead \union {"recv"} ELSE dead)
      /\ UNCHANGED <<binding, script, got, queue, closed, lines, replies, conn>>
  BY DEF ReceiveFails, netVars
<1>2. dead \subseteq dead' /\ dead' \subseteq {"send", "recv"}
  BY <1>1 DEF StepInv, TypeOK
<1>3. "recv" \notin dead' => lines = <<>> /\ replies = <<>>
  BY <1>1, <1>2 DEF StepInv, Quiet, GoClosed, StreamEnded
<1> QED BY <1>1, <1>2, <1>3, GiveUp

\* A call that waits is given a reply of its own.
LEMMA ReplyGiven ==
  ASSUME StepInv, NEW c \in DOMAIN script, at[c] = "recv", NEW r, r.by = c,
         at' = [at EXCEPT ![c] = Answered(r)], got' = [got EXCEPT ![c] = r],
         UNCHANGED <<binding, script, closed, dead, lines, conn>>,
         lock' \in DOMAIN script \union {None}, queue' \in Seq(DOMAIN script),
         IsSequence(replies')
  PROVE  /\ TypeOK' /\ AnswerIsOwn' /\ Quiet'
         /\ \A d \in DOMAIN script : at'[d] = IF d = c THEN Answered(r) ELSE at[d]
<1> USE DEF StepInv
<1>1. DOMAIN got = DOMAIN script /\ c # None
  BY NoneIsNoCaller DEF TypeOK
<1>2. Answered(r) \in {"ok", "failed"} /\ (Answered(r) = "ok" <=> r.body.kind # "error")
  BY DEF Answered
<1>3. /\ at' \in [DOMAIN script -> {"new", "send", "recv", "ok", "failed", "refused"}]
      /\ \A d \in DOMAIN script : at'[d] = IF d = c THEN Answered(r) ELSE at[d]
  BY <1>2 DEF TypeOK
<1>4. /\ got' \in [DOMAIN script -> ToSet(got')]
      /\ \A d \in DOMAIN script : got'[d] = IF d = c THEN r ELSE got[d]
  BY <1>1 DEF TypeOK, ToSet
<1>5. \A d \in DOMAIN script : at'[d] = "ok" <=> got'[d].by # None /\ got'[d].body.kind # "error"
  BY <1>1, <1>2, <1>3, <1>4 DEF TypeOK
<1>6. TypeOK'
  BY <1>3, <1>4, <1>5 DEF TypeOK
<1>7. AnswerIsOwn'
  BY <1>4 DEF AnswerIsOwn
<1>8. Quiet'
  BY <1>2, <1>3, <1>4 DEF Quiet
<1> QED BY <1>3, <1>6, <1>7, <1>8

LEMMA ReceiveStep == ASSUME StepInv, NEW c \in DOMAIN script, Receive(c) PROVE StepInv'
<1> USE DEF StepInv
<1>1. /\ at[c] = "recv" /\ Locked /\ "recv" \notin dead /\ ~ GoClosed /\ replies # <<>>
      /\ got' = [got EXCEPT ![c] = Head(replies)]
      /\ at' = [at EXCEPT ![c] = Answered(Head(replies))] /\ lock' = None
      /\ replies' = Tail(replies)
      /\ UNCHANGED <<binding, script, queue, closed, dead, lines, conn>>
  BY DEF Receive
<1>2. IsSequence(replies) /\ IsSequence(lines)
  BY DEF TypeOK
<1>3. /\ IsSequence(replies') /\ Head(replies) = replies[1] /\ 1 \in DOMAIN replies
      /\ Len(replies) \in Nat \ {0} /\ Len(replies') = Len(replies) - 1
  BY <1>1, <1>2, TailOwn
<1>4. lock = c /\ c # None /\ binding # "node" /\ None \notin DOMAIN script
  BY <1>1, NoneIsNoCaller DEF UnderLock, Locked
<1>5. Head(replies).by = c
  BY <1>1, <1>3, <1>4 DEF UnderLock
<1>6. /\ TypeOK' /\ AnswerIsOwn' /\ Quiet'
      /\ \A d \in DOMAIN script : at'[d] = IF d = c THEN Answered(Head(replies)) ELSE at[d]
  BY <1>1, <1>3, <1>5, ReplyGiven DEF TypeOK
<1>7. Len(lines) \in Nat /\ DOMAIN lines = 1 .. Len(lines) /\ (lines # <<>> <=> Len(lines) # 0)
  BY <1>2, SequenceLength
<1>8. Len(replies) = 1 /\ Len(lines) = 0
  BY <1>1, <1>3, <1>7 DEF UnderLock
<1>9. /\ lines' = <<>> /\ replies' = <<>> /\ Len(lines') + Len(replies') <= 1
      /\ DOMAIN lines' = {} /\ DOMAIN replies' = {}
  <2>1. Len(replies') = 0 /\ DOMAIN replies' = 1 .. Len(replies') /\ replies' = <<>>
    BY <1>3, <1>8, SequenceLength
  <2>2. lines' = <<>> /\ Len(lines') = 0 /\ DOMAIN lines' = 1 .. Len(lines')
    BY <1>1, <1>7, <1>8
  <2> QED BY <2>1, <2>2
<1>10. Answered(Head(replies)) \notin {"send", "recv"}
  BY DEF Answered
<1>11. UnderLock'
  BY <1>1, <1>4, <1>6, <1>9, <1>10 DEF UnderLock, GoClosed
<1>12. InStep'
  BY <1>1, <1>4 DEF InStep
<1> QED BY <1>6, <1>11, <1>12

\* Go's Close: what is on its way is lost.
LEMMA GoCloseStep == StepInv /\ GoClose => StepInv'
<1> SUFFICES ASSUME StepInv, GoClose PROVE StepInv'
  OBVIOUS
<1> USE DEF StepInv
<1>1. /\ binding = "go" /\ closed' = TRUE
      /\ conn' = "left" /\ lines' = <<>> /\ replies' = <<>>
      /\ UNCHANGED <<binding, script, at, got, lock, queue, dead>>
  BY DEF GoClose
<1>2. IsSequence(lines') /\ IsSequence(replies') /\ Len(lines') = 0 /\ Len(replies') = 0
  BY <1>1, EmptySequence
<1>3. DOMAIN lines' = {} /\ DOMAIN replies' = {}
  BY <1>2, SequenceLength
<1>4. TypeOK'
  <2>1. ToSet(got') = ToSet(got)
    BY <1>1
  <2> QED BY <1>1, <1>2, <2>1 DEF TypeOK
<1>5. AnswerIsOwn' /\ Quiet'
  BY <1>1 DEF AnswerIsOwn, Quiet
<1>6. UnderLock'
  BY <1>1, <1>2, <1>3 DEF UnderLock, GoClosed, Locked
<1>7. InStep'
  BY <1>1 DEF InStep
<1> QED BY <1>4, <1>5, <1>6, <1>7

-----------------------------------------------------------------------------
(* Node's queue                                                            *)

\* What the queue's shape gives the steps.
LEMMA QueueFacts ==
  ASSUME StepInv, binding = "node"
  PROVE  /\ ~ Locked /\ ~ GoClosed
         /\ queue \in Seq(DOMAIN script) /\ IsSequence(queue)
         /\ IsSequence(lines) /\ IsSequence(replies)
         /\ Len(queue) \in Nat /\ Len(lines) \in Nat /\ Len(replies) \in Nat
         /\ DOMAIN queue = 1 .. Len(queue)
         /\ DOMAIN lines = 1 .. Len(lines) /\ DOMAIN replies = 1 .. Len(replies)
         /\ \A k \in 1 .. Len(queue) : queue[k] \in DOMAIN script
<1> USE DEF StepInv
<1>1. ~ Locked /\ ~ GoClosed
  BY DEF Locked, GoClosed
<1>2. queue \in Seq(DOMAIN script) /\ IsSequence(lines) /\ IsSequence(replies)
  BY DEF TypeOK
<1>3. IsSequence(queue)
  BY <1>2, SequenceOf
<1>4. /\ Len(queue) \in Nat /\ Len(lines) \in Nat /\ Len(replies) \in Nat
      /\ DOMAIN queue = 1 .. Len(queue)
      /\ DOMAIN lines = 1 .. Len(lines) /\ DOMAIN replies = 1 .. Len(replies)
  BY <1>2, <1>3, SequenceLength
<1>5. \A k \in 1 .. Len(queue) : queue[k] \in DOMAIN script
  BY <1>2, ElementOfSeq
<1> QED BY <1>1, <1>2, <1>3, <1>4, <1>5

LEMMA CallStep == ASSUME StepInv, NEW c \in DOMAIN script, Call(c) PROVE StepInv'
<1> USE DEF StepInv
<1>1. /\ binding = "node" /\ at[c] = "new"
      /\ UNCHANGED <<binding, script, got, lock, closed, dead>>
  BY DEF Call
<1>2. /\ ~ Locked /\ ~ GoClosed /\ queue \in Seq(DOMAIN script) /\ IsSequence(queue)
      /\ IsSequence(lines) /\ IsSequence(replies)
      /\ Len(queue) \in Nat /\ Len(lines) \in Nat /\ Len(replies) \in Nat
      /\ DOMAIN queue = 1 .. Len(queue)
      /\ DOMAIN lines = 1 .. Len(lines) /\ DOMAIN replies = 1 .. Len(replies)
      /\ \A k \in 1 .. Len(queue) : queue[k] \in DOMAIN script
  BY <1>1, QueueFacts
<1>3. UnderLock'
  BY <1>1, <1>2 DEF UnderLock, Locked
<1>4. CASE closed
  <2>1. at' = [at EXCEPT ![c] = "refused"] /\ UNCHANGED <<queue, partial, lines, replies, conn>>
    BY <1>4 DEF Call, netVars
  <2>2. TypeOK' /\ AnswerIsOwn' /\ \A d \in DOMAIN script : got[d].by # None => at'[d] \in {"ok", "failed"}
    BY <1>1, <2>1, CallMoves DEF TypeOK
  <2>3. \A d \in DOMAIN script : at'[d] = IF d = c THEN "refused" ELSE at[d]
    BY <2>1 DEF TypeOK
  <2>4. Quiet'
    BY <1>1, <2>1, <2>2 DEF Quiet
  <2>5. InStep'
    BY <1>1, <2>1, <2>3 DEF InStep
  <2> QED BY <1>3, <2>2, <2>4, <2>5
<1>5. CASE ~ closed
  <2>1. /\ at' = [at EXCEPT ![c] = "recv"] /\ queue' = Append(queue, c) /\ Write(c)
    BY <1>5 DEF Call
  <2>2. /\ IsSequence(lines')
        /\ conn' = conn /\ replies' = replies
        /\ conn # "up" => lines' = lines
        /\ conn = "up" =>
             /\ Len(lines') = Len(lines) + 1 /\ DOMAIN lines' = 1 .. Len(lines) + 1
             /\ \A k \in 1 .. Len(lines) : lines'[k] = lines[k]
             /\ lines'[Len(lines) + 1].by = c
    BY <2>1, WriteLine
  <2>3. /\ queue' \in Seq(DOMAIN script)
        /\ Len(queue') = Len(queue) + 1 /\ DOMAIN queue' = 1 .. Len(queue) + 1
        /\ \A k \in 1 .. Len(queue) : queue'[k] = queue[k]
        /\ queue'[Len(queue) + 1] = c
    BY <1>2, <2>1, AppendOwn, AppendProperties
  <2>4. TypeOK' /\ AnswerIsOwn' /\ \A d \in DOMAIN script : got[d].by # None => at'[d] \in {"ok", "failed"}
    BY <1>1, <1>2, <2>1, <2>2, <2>3, CallMoves DEF TypeOK
  <2>5. \A d \in DOMAIN script : at'[d] = IF d = c THEN "recv" ELSE at[d]
    BY <2>1 DEF TypeOK
  <2>6. Quiet'
    BY <1>1, <2>2, <2>4 DEF Quiet
  <2>7. conn \in {"up", "left"}
    BY <1>1, <1>5 DEF InStep, TypeOK
  <2>8. /\ \A k \in 1 .. Len(queue) : queue[k] # c
        /\ IsInjective(queue')
    <3>1. \A k \in 1 .. Len(queue) : queue[k] # c
      BY <1>1, <1>2 DEF InStep, ToSet
    <3>2. \A j, k \in 1 .. Len(queue) : queue[j] = queue[k] => j = k
      BY <1>1, <1>2 DEF InStep, IsInjective
    <3>3. ASSUME NEW j \in 1 .. Len(queue) + 1, NEW k \in 1 .. Len(queue) + 1, queue'[j] = queue'[k]
          PROVE  j = k
      BY <1>2, <2>3, <3>1, <3>2, <3>3
    <3> QED BY <2>3, <3>1, <3>3 DEF IsInjective
  <2>9. \A d \in DOMAIN script : at'[d] # "send" /\ (at'[d] = "recv" <=> d \in ToSet(queue'))
    <3>1. \A d : d \in ToSet(queue') <=> d \in ToSet(queue) \/ d = c
      BY <1>2, <2>3 DEF ToSet
    <3> QED BY <1>1, <2>5, <3>1 DEF InStep
  <2>10. /\ Len(queue) \in Nat /\ Len(lines) \in Nat /\ Len(replies) \in Nat
         /\ DOMAIN lines = 1 .. Len(lines) /\ DOMAIN replies = 1 .. Len(replies)
         /\ Len(replies) + Len(lines) <= Len(queue)
         /\ conn # "left" => Len(replies) + Len(lines) = Len(queue)
    BY <1>1, <1>2 DEF InStep
  <2>11. /\ \A k \in 1 .. Len(replies) : replies[k].by = queue[k]
         /\ \A k \in 1 .. Len(lines) : lines[k].by = queue[Len(replies) + k]
    BY <1>1, <1>2 DEF InStep
  <2>12. /\ \A k \in 1 .. Len(replies) : replies[k].by = queue'[k]
         /\ \A k \in 1 .. Len(lines) : lines[k].by = queue'[Len(replies) + k]
    <3>1. ASSUME NEW k \in 1 .. Len(replies) PROVE replies[k].by = queue'[k]
      <4>1. k \in 1 .. Len(queue)
        BY <2>10
      <4> QED BY <2>3, <2>11, <4>1
    <3>2. ASSUME NEW k \in 1 .. Len(lines) PROVE lines[k].by = queue'[Len(replies) + k]
      <4>1. Len(replies) + k \in 1 .. Len(queue)
        BY <2>10
      <4> QED BY <2>3, <2>11, <4>1
    <3> QED BY <3>1, <3>2
  <2>13. \A k \in DOMAIN replies' : replies'[k].by = queue'[k]
    BY <2>2, <2>10, <2>12
  <2>14. lock' = None /\ script' = script /\ conn' \notin {"half", "ended"}
    BY <1>1, <2>2, <2>7 DEF InStep
  <2>15. ASSUME conn = "up" PROVE InStep'
    <3>1. /\ Len(lines') = Len(lines) + 1 /\ DOMAIN lines' = 1 .. Len(lines) + 1
          /\ \A k \in 1 .. Len(lines) : lines'[k] = lines[k]
          /\ lines'[Len(lines) + 1].by = c
      BY <2>2, <2>15
    <3>2. Len(replies) + (Len(lines) + 1) = Len(queue) + 1 /\ Len(replies') = Len(replies)
      BY <2>2, <2>10, <2>15
    <3>3. \A k \in DOMAIN lines' : lines'[k].by = queue'[Len(replies') + k]
      <4>1. lines'[Len(lines) + 1].by = queue'[Len(replies) + (Len(lines) + 1)]
        BY <2>3, <3>1, <3>2
      <4>2. \A k \in 1 .. Len(lines) : lines'[k].by = queue'[Len(replies) + k]
        BY <2>12, <3>1
      <4>3. \A k \in 1 .. Len(lines) + 1 : k \in 1 .. Len(lines) \/ k = Len(lines) + 1
        BY <2>10
      <4> QED BY <3>1, <3>2, <4>1, <4>2, <4>3
    <3>4. Len(replies') + Len(lines') = Len(queue') /\ Len(replies') + Len(lines') <= Len(queue')
      BY <2>3, <2>10, <3>1, <3>2
    <3> QED BY <2>8, <2>9, <2>13, <2>14, <3>3, <3>4 DEF InStep
  <2>16. ASSUME conn = "left" PROVE InStep'
    <3>1. lines' = lines /\ replies' = replies /\ conn' = "left"
      BY <2>2, <2>16
    <3>2. Len(replies') + Len(lines') <= Len(queue')
      BY <2>3, <2>10, <3>1
    <3>3. \A k \in DOMAIN lines' : lines'[k].by = queue'[Len(replies') + k]
      BY <2>10, <2>12, <3>1
    <3> QED BY <2>8, <2>9, <2>13, <2>14, <3>1, <3>2, <3>3 DEF InStep
  <2>17. InStep'
    BY <2>7, <2>15, <2>16
  <2> QED BY <1>3, <2>4, <2>6, <2>17
<1> QED BY <1>4, <1>5

\* The first reply goes to the first call of the queue.
LEMMA OnDataStep == StepInv /\ OnData => StepInv'
<1> SUFFICES ASSUME StepInv, OnData PROVE StepInv'
  OBVIOUS
<1> USE DEF StepInv
<1>1. /\ binding = "node" /\ replies # <<>> /\ replies' = Tail(replies)
      /\ UNCHANGED <<binding, script, lock, closed, dead, lines, conn>>
  BY DEF OnData
<1>2. /\ ~ Locked /\ queue \in Seq(DOMAIN script) /\ IsSequence(queue)
      /\ IsSequence(lines) /\ IsSequence(replies)
      /\ DOMAIN queue = 1 .. Len(queue) /\ DOMAIN lines = 1 .. Len(lines)
      /\ DOMAIN replies = 1 .. Len(replies)
      /\ \A k \in 1 .. Len(queue) : queue[k] \in DOMAIN script
  BY <1>1, QueueFacts
<1>3. /\ Len(queue) \in Nat /\ Len(lines) \in Nat /\ Len(replies) \in Nat
      /\ Len(replies) + Len(lines) <= Len(queue)
      /\ conn # "left" => Len(replies) + Len(lines) = Len(queue)
      /\ \A k \in 1 .. Len(replies) : replies[k].by = queue[k]
      /\ \A k \in 1 .. Len(lines) : lines[k].by = queue[Len(replies) + k]
  BY <1>1, <1>2, QueueFacts DEF InStep
<1>4. /\ IsSequence(replies') /\ Head(replies) = replies[1]
      /\ Len(replies) # 0 /\ Len(replies') = Len(replies) - 1
      /\ DOMAIN replies' = 1 .. Len(replies) - 1
      /\ \A k \in 1 .. Len(replies) - 1 : replies'[k] = replies[k + 1]
  <2>1. /\ IsSequence(replies') /\ Head(replies) = replies[1]
        /\ Len(replies) \in Nat \ {0} /\ Len(replies') = Len(replies) - 1
        /\ \A k \in 1 .. Len(replies) - 1 : replies'[k] = replies[k + 1]
    BY <1>1, <1>2, TailOwn
  <2>2. DOMAIN replies' = 1 .. Len(replies')
    BY <2>1, SequenceLength
  <2> QED BY <2>1, <2>2
<1>5. Len(queue) # 0 /\ queue # <<>>
  <2>1. Len(queue) # 0
    BY <1>3, <1>4
  <2>2. queue # <<>>
    BY <1>2, <2>1, SequenceLength
  <2> QED BY <2>1, <2>2
<1>6. /\ queue' = Tail(queue)
      /\ at' = [at EXCEPT ![queue[1]] = Answered(Head(replies))]
      /\ got' = [got EXCEPT ![queue[1]] = Head(replies)]
  BY <1>2, <1>5, TailOwn DEF OnData
<1>7. /\ queue' \in Seq(DOMAIN script)
      /\ Len(queue') = Len(queue) - 1 /\ DOMAIN queue' = 1 .. Len(queue) - 1
      /\ \A k \in 1 .. Len(queue) - 1 : queue'[k] = queue[k + 1]
  <2>1. /\ queue' \in Seq(DOMAIN script) /\ Len(queue') = Len(queue) - 1
        /\ \A k \in 1 .. Len(queue') : queue'[k] = queue[k + 1]
    BY <1>2, <1>5, <1>6, HeadTailProperties
  <2>2. DOMAIN queue' = 1 .. Len(queue')
    BY <2>1, LenProperties
  <2> QED BY <2>1, <2>2
<1>8. /\ queue[1] \in DOMAIN script /\ Head(replies).by = queue[1]
      /\ 1 \in DOMAIN queue
  <2>1. 1 \in 1 .. Len(queue) /\ 1 \in 1 .. Len(replies)
    BY <1>3, <1>4, <1>5
  <2>2. Head(replies).by = queue[1]
    BY <1>3, <1>4, <2>1
  <2> QED BY <1>2, <2>1, <2>2
<1>9. at[queue[1]] = "recv"
  BY <1>1, <1>8 DEF InStep, ToSet
<1>10. /\ TypeOK' /\ AnswerIsOwn' /\ Quiet'
       /\ \A d \in DOMAIN script : at'[d] = IF d = queue[1] THEN Answered(Head(replies)) ELSE at[d]
  BY <1>1, <1>4, <1>6, <1>7, <1>8, <1>9, ReplyGiven DEF TypeOK
<1>11. UnderLock'
  BY <1>1, <1>2 DEF UnderLock, Locked
<1>12. \A j, k \in 1 .. Len(queue) : queue[j] = queue[k] => j = k
  BY <1>1, <1>2 DEF InStep, IsInjective
<1>13. IsInjective(queue')
  <2>1. ASSUME NEW j \in 1 .. Len(queue) - 1, NEW k \in 1 .. Len(queue) - 1, queue'[j] = queue'[k]
        PROVE  j = k
    <3>1. j + 1 \in 1 .. Len(queue) /\ k + 1 \in 1 .. Len(queue)
      BY <1>3
    <3>2. queue[j + 1] = queue[k + 1]
      BY <1>7, <2>1
    <3>3. j + 1 = k + 1
      BY <1>12, <3>1, <3>2
    <3> QED BY <1>3, <3>3
  <2> QED BY <1>7, <2>1 DEF IsInjective
<1>14. \A d \in DOMAIN script : d \in ToSet(queue') <=> d \in ToSet(queue) /\ d # queue[1]
  <2>1. ASSUME NEW d \in ToSet(queue') PROVE d \in ToSet(queue) /\ d # queue[1]
    <3>1. PICK k \in 1 .. Len(queue) - 1 : d = queue'[k]
      BY <1>7 DEF ToSet
    <3>2. k + 1 \in 1 .. Len(queue) /\ 1 \in 1 .. Len(queue) /\ k + 1 # 1
      BY <1>3
    <3>3. d = queue[k + 1]
      BY <1>7, <3>1
    <3> QED BY <1>2, <1>12, <3>2, <3>3 DEF ToSet
  <2>2. ASSUME NEW d \in ToSet(queue), d # queue[1] PROVE d \in ToSet(queue')
    <3>1. PICK k \in 1 .. Len(queue) : d = queue[k]
      BY <1>2 DEF ToSet
    <3>2. k - 1 \in 1 .. Len(queue) - 1 /\ (k - 1) + 1 = k
      BY <1>3, <2>2, <3>1
    <3>3. d = queue'[k - 1]
      BY <1>7, <3>1, <3>2
    <3> QED BY <1>7, <3>2, <3>3 DEF ToSet
  <2> QED BY <2>1, <2>2
<1>15. \A d \in DOMAIN script : at'[d] # "send" /\ (at'[d] = "recv" <=> d \in ToSet(queue'))
  <2>1. Answered(Head(replies)) \notin {"send", "recv"}
    BY DEF Answered
  <2> QED BY <1>1, <1>10, <1>14, <2>1 DEF InStep
<1>16. \A k \in 1 .. Len(replies) - 1 : replies'[k].by = queue'[k]
  <2> SUFFICES ASSUME NEW k \in 1 .. Len(replies) - 1 PROVE replies'[k].by = queue'[k]
    OBVIOUS
  <2>1. k + 1 \in 1 .. Len(replies) /\ k \in 1 .. Len(queue) - 1
    BY <1>3
  <2> QED BY <1>3, <1>4, <1>7, <2>1
<1>17. \A k \in 1 .. Len(lines) : lines[k].by = queue'[Len(replies) - 1 + k]
  <2> SUFFICES ASSUME NEW k \in 1 .. Len(lines) PROVE lines[k].by = queue'[Len(replies) - 1 + k]
    OBVIOUS
  <2>1. Len(replies) - 1 + k \in 1 .. Len(queue) - 1 /\ (Len(replies) - 1 + k) + 1 = Len(replies) + k
    BY <1>3, <1>4
  <2>2. queue'[Len(replies) - 1 + k] = queue[Len(replies) + k]
    BY <1>7, <2>1
  <2> QED BY <1>3, <2>2
<1>18. /\ Len(replies') + Len(lines') <= Len(queue')
       /\ conn' # "left" => Len(replies') + Len(lines') = Len(queue')
       /\ \A k \in DOMAIN replies' : replies'[k].by = queue'[k]
       /\ \A k \in DOMAIN lines' : lines'[k].by = queue'[Len(replies') + k]
  <2>1. Len(lines') = Len(lines) /\ DOMAIN lines' = 1 .. Len(lines) /\ conn' = conn /\ lines' = lines
    BY <1>1, <1>2
  <2>2. /\ Len(replies') + Len(lines') <= Len(queue')
        /\ conn' # "left" => Len(replies') + Len(lines') = Len(queue')
    BY <1>3, <1>4, <1>7, <2>1
  <2> QED BY <1>4, <1>16, <1>17, <2>1, <2>2
<1>19. lock' = None /\ script' = script /\ (conn' \in {"half", "ended"} => closed')
  BY <1>1 DEF InStep
<1>20. InStep'
  BY <1>13, <1>15, <1>18, <1>19 DEF InStep
<1> QED BY <1>10, <1>11, <1>20

\* Node rejects all the calls of the queue.
LEMMA QueueRejected ==
  ASSUME StepInv, binding = "node", conn \in {"left", "ended"},
         at' = AllRejected, queue' = <<>>, replies' = <<>>,
         closed' \in BOOLEAN, closed => closed',
         UNCHANGED <<binding, script, got, lock, dead, lines, conn>>
  PROVE  StepInv'
<1> USE DEF StepInv
<1>1. /\ ~ Locked /\ IsSequence(lines) /\ lines = <<>>
  BY QueueFacts DEF Quiet
<1>2. Len(lines') = 0 /\ DOMAIN lines' = {}
  BY <1>1, SequenceLength
<1>3. IsSequence(replies') /\ Len(replies') = 0 /\ DOMAIN replies' = {}
  BY EmptySequence, SequenceLength
<1>4. Len(queue') = 0 /\ DOMAIN queue' = {} /\ queue' \in Seq(DOMAIN script)
  BY EmptySequence, SequenceLength, EmptySeq
<1>5. /\ DOMAIN at = DOMAIN script
      /\ \A d \in DOMAIN script : at[d] = "recv" <=> d \in ToSet(queue)
      /\ \A d \in DOMAIN script : at[d] # "send"
  BY DEF InStep, TypeOK
<1>6. \A d \in DOMAIN script : at'[d] = IF at[d] = "recv" THEN "failed" ELSE at[d]
  BY <1>5 DEF AllRejected
<1>7. \A d \in DOMAIN script : at[d] = "recv" => got[d].by = None
  BY DEF Quiet
<1>8. at' \in [DOMAIN script -> {"new", "send", "recv", "ok", "failed", "refused"}]
  BY <1>5 DEF AllRejected, TypeOK
<1>9. TypeOK'
  <2>1. ToSet(got') = ToSet(got)
    OBVIOUS
  <2>2. \A d \in DOMAIN script : at'[d] = "ok" <=> got'[d].by # None /\ got'[d].body.kind # "error"
    BY <1>6, <1>7 DEF TypeOK
  <2> QED BY <1>1, <1>3, <1>4, <1>8, <2>1, <2>2 DEF TypeOK
<1>10. AnswerIsOwn' /\ Quiet'
  BY <1>1, <1>6, <1>7 DEF AnswerIsOwn, Quiet
<1>11. UnderLock'
  BY <1>1 DEF UnderLock, Locked
<1>12. IsInjective(queue') /\ ToSet(queue') = {}
  BY <1>4 DEF IsInjective, ToSet
<1>13. \A d \in DOMAIN script : at'[d] \notin {"send", "recv"}
  BY <1>5, <1>6
<1>14. InStep'
  BY <1>2, <1>3, <1>4, <1>12, <1>13 DEF InStep
<1> QED BY <1>9, <1>10, <1>11, <1>14

LEMMA OnErrorStep == StepInv /\ OnError => StepInv'
<1> SUFFICES ASSUME StepInv, OnError PROVE StepInv'
  OBVIOUS
<1>1. /\ binding = "node" /\ conn = "left" /\ at' = AllRejected
      /\ queue' = <<>> /\ replies' = <<>>
      /\ UNCHANGED <<binding, script, got, lock, closed, dead, lines, conn>>
  BY DEF OnError
<1>2. closed' \in BOOLEAN /\ (closed => closed')
  BY <1>1 DEF StepInv, TypeOK
<1> QED BY <1>1, <1>2, QueueRejected

LEMMA OnCloseStep == StepInv /\ OnClose => StepInv'
<1> SUFFICES ASSUME StepInv, OnClose PROVE StepInv'
  OBVIOUS
<1>1. /\ binding = "node" /\ conn \in {"left", "ended"} /\ replies = <<>>
      /\ closed' = TRUE /\ at' = AllRejected /\ queue' = <<>>
      /\ UNCHANGED <<binding, script, got, lock, dead, lines, replies, conn>>
  BY DEF OnClose, netVars
<1> QED BY <1>1, QueueRejected

LEMMA NodeCloseStep == StepInv /\ NodeClose => StepInv'
<1> SUFFICES ASSUME StepInv, NodeClose PROVE StepInv'
  OBVIOUS
<1> USE DEF StepInv
<1>1. /\ binding = "node" /\ closed' = TRUE
      /\ conn' = IF conn = "up" THEN "half" ELSE conn
      /\ UNCHANGED <<binding, script, at, got, lock, queue, dead, lines, replies>>
  BY DEF NodeClose
<1>2. TypeOK'
  <2>1. ToSet(got') = ToSet(got)
    BY <1>1
  <2> QED BY <1>1, <2>1 DEF TypeOK
<1>3. AnswerIsOwn' /\ Quiet'
  BY <1>1 DEF AnswerIsOwn, Quiet
<1>4. UnderLock'
  BY <1>1 DEF UnderLock, Locked
<1>5. InStep'
  BY <1>1 DEF InStep, TypeOK
<1> QED BY <1>2, <1>3, <1>4, <1>5

-----------------------------------------------------------------------------
(* The server                                                              *)

\* What the server and the network do leaves the calls as they are.
LEMMA CallsStay ==
  ASSUME StepInv, UNCHANGED callVars, conn' \in {"up", "half", "ended", "left"},
         conn' \in {"left", "ended"} => lines' = <<>>,
         IsSequence(lines'), IsSequence(replies')
  PROVE  TypeOK' /\ AnswerIsOwn' /\ Quiet'
<1>1. ToSet(got') = ToSet(got)
  BY DEF callVars
<1>2. TypeOK'
  BY <1>1 DEF StepInv, TypeOK, callVars
<1> QED BY <1>2 DEF StepInv, AnswerIsOwn, Quiet, callVars

\* The first line becomes the last reply.
LEMMA ServeStep == StepInv /\ Serve => StepInv'
<1> SUFFICES ASSUME StepInv, Serve PROVE StepInv'
  OBVIOUS
<1> USE DEF StepInv
<1>1. /\ conn \in {"up", "half"} /\ lines # <<>> /\ lines' = Tail(lines)
      /\ UNCHANGED callVars /\ conn' = conn
  BY DEF Serve
<1>2. PICK r : replies' = Append(replies, r) /\ r.by = Head(lines).by
  <2>1. PICK body \in dispatch(Head(lines).text) :
          replies' = Append(replies, [by |-> Head(lines).by, glued |-> Head(lines).glued, body |-> body])
    BY DEF Serve
  <2> QED BY <2>1
<1>3. IsSequence(lines) /\ IsSequence(replies)
  BY DEF TypeOK
<1>4. /\ Len(lines) \in Nat /\ DOMAIN lines = 1 .. Len(lines)
      /\ Len(replies) \in Nat /\ DOMAIN replies = 1 .. Len(replies)
  BY <1>3, SequenceLength
<1>5. /\ IsSequence(lines') /\ Head(lines) = lines[1]
      /\ Len(lines) # 0 /\ Len(lines') = Len(lines) - 1
      /\ \A k \in 1 .. Len(lines) - 1 : lines'[k] = lines[k + 1]
  BY <1>1, <1>3, TailOwn
<1>6. /\ IsSequence(replies')
      /\ Len(replies') = Len(replies) + 1 /\ DOMAIN replies' = 1 .. Len(replies) + 1
      /\ \A k \in 1 .. Len(replies) : replies'[k] = replies[k]
      /\ replies'[Len(replies) + 1].by = lines[1].by
  BY <1>2, <1>3, <1>5, AppendOwn
<1>7. DOMAIN lines' = 1 .. Len(lines) - 1
  BY <1>5, SequenceLength
<1>8. TypeOK' /\ AnswerIsOwn' /\ Quiet'
  BY <1>1, <1>5, <1>6, CallsStay DEF TypeOK
<1>9. UNCHANGED <<binding, script, at, got, lock, queue, closed, dead>>
  BY <1>1 DEF callVars
<1>10. /\ Len(lines') \in Nat /\ Len(replies') \in Nat
       /\ Len(lines') + Len(replies') = Len(lines) + Len(replies)
  BY <1>4, <1>5, <1>6
<1>11. UnderLock'
  <2> SUFFICES ASSUME Locked PROVE UnderLock'
    BY <1>9 DEF UnderLock, Locked
  <2>1. ~ GoClosed
    BY <1>1 DEF UnderLock
  <2>2. ASSUME "recv" \notin dead
        PROVE  /\ Len(lines') + Len(replies') <= 1
               /\ lock # None /\ at[lock] = "recv"
               /\ \A k \in DOMAIN lines' : lines'[k].by = lock
               /\ \A k \in DOMAIN replies' : replies'[k].by = lock
    <3>1. /\ Len(lines) + Len(replies) <= 1 /\ lock # None /\ at[lock] = "recv"
          /\ \A k \in DOMAIN lines : lines[k].by = lock
      BY <1>1, <2>2 DEF UnderLock
    <3>2. Len(lines) = 1 /\ Len(replies) = 0
      BY <1>4, <1>5, <3>1
    <3>3. lines[1].by = lock
      BY <1>4, <3>1, <3>2
    <3>4. \A k \in DOMAIN lines' : FALSE
      BY <1>7, <3>2
    <3>5. \A k \in DOMAIN replies' : replies'[k].by = lock
      BY <1>6, <3>2, <3>3
    <3> QED BY <1>10, <3>1, <3>4, <3>5
  <2> QED BY <1>9, <2>1, <2>2 DEF UnderLock, GoClosed, Locked
<1>12. ASSUME binding = "node" PROVE InStep'
  <2>1. /\ Len(queue) \in Nat /\ Len(replies) + Len(lines) <= Len(queue)
        /\ conn # "left" => Len(replies) + Len(lines) = Len(queue)
    BY <1>12, QueueFacts DEF InStep
  <2>2. /\ \A k \in 1 .. Len(replies) : replies[k].by = queue[k]
        /\ \A k \in 1 .. Len(lines) : lines[k].by = queue[Len(replies) + k]
    BY <1>4, <1>12 DEF InStep
  <2>3. \A k \in DOMAIN replies' : replies'[k].by = queue[k]
    <3>1. lines[1].by = queue[Len(replies) + 1]
      BY <1>4, <1>5, <2>2
    <3> QED BY <1>4, <1>6, <2>2, <3>1
  <2>4. \A k \in DOMAIN lines' : lines'[k].by = queue[Len(replies') + k]
    <3> SUFFICES ASSUME NEW k \in 1 .. Len(lines) - 1 PROVE lines'[k].by = queue[Len(replies') + k]
      BY <1>7
    <3>1. k + 1 \in 1 .. Len(lines) /\ Len(replies) + (k + 1) = Len(replies') + k
      BY <1>4, <1>6
    <3>2. lines[k + 1].by = queue[Len(replies) + (k + 1)]
      BY <2>2, <3>1
    <3> QED BY <1>5, <3>1, <3>2
  <2>5. /\ Len(replies') + Len(lines') <= Len(queue)
        /\ conn # "left" => Len(replies') + Len(lines') = Len(queue)
    BY <1>4, <1>10, <2>1
  <2> QED BY <1>1, <1>9, <1>12, <2>3, <2>4, <2>5 DEF InStep
<1>13. binding # "node" => InStep'
  BY <1>9 DEF InStep
<1> QED BY <1>8, <1>11, <1>12, <1>13

LEMMA ServerEndsStep == StepInv /\ ServerEnds => StepInv'
<1> SUFFICES ASSUME StepInv, ServerEnds PROVE StepInv'
  OBVIOUS
<1> USE DEF StepInv
<1>1. /\ conn = "half" /\ lines = <<>> /\ conn' = "ended"
      /\ UNCHANGED callVars /\ lines' = lines /\ replies' = replies
  BY DEF ServerEnds
<1>2. IsSequence(lines') /\ IsSequence(replies')
  BY <1>1 DEF TypeOK
<1>3. TypeOK' /\ AnswerIsOwn' /\ Quiet'
  BY <1>1, <1>2, CallsStay
<1>4. UNCHANGED <<binding, script, at, got, lock, queue, closed, dead>>
  BY <1>1 DEF callVars
<1>5. UnderLock' /\ InStep'
  BY <1>1, <1>4 DEF UnderLock, InStep, GoClosed, Locked
<1> QED BY <1>3, <1>5

\* A broken connection loses the lines and the last of the replies.
LEMMA BreakOffStep == StepInv /\ BreakOff => StepInv'
<1> SUFFICES ASSUME StepInv, BreakOff PROVE StepInv'
  OBVIOUS
<1> USE DEF StepInv
<1>1. conn # "left" /\ conn' = "left" /\ lines' = <<>> /\ UNCHANGED callVars
  BY DEF BreakOff
<1>2. PICK n \in 0 .. Len(replies) : replies' = SubSeq(replies, 1, n)
  BY DEF BreakOff
<1>3. IsSequence(replies) /\ IsSequence(lines)
  BY DEF TypeOK
<1>4. /\ IsSequence(replies') /\ Len(replies') = n
      /\ \A k \in 1 .. n : replies'[k] = replies[k]
  BY <1>2, <1>3, PrefixOwn
<1>5. IsSequence(lines') /\ Len(lines') = 0 /\ DOMAIN lines' = {}
  BY <1>1, EmptySequence, SequenceLength
<1>6. TypeOK' /\ AnswerIsOwn' /\ Quiet'
  BY <1>1, <1>4, <1>5, CallsStay
<1>7. UNCHANGED <<binding, script, at, got, lock, queue, closed, dead>>
  BY <1>1 DEF callVars
<1>8. /\ Len(lines) \in Nat /\ Len(replies) \in Nat /\ DOMAIN replies = 1 .. Len(replies)
      /\ replies # <<>> <=> Len(replies) # 0
  BY <1>3, SequenceLength
<1>9. DOMAIN replies' = 1 .. n /\ (replies' # <<>> <=> n # 0)
  BY <1>4, SequenceLength
<1>10. /\ n \in Nat /\ n <= Len(replies)
       /\ \A k \in DOMAIN replies' : k \in DOMAIN replies /\ replies'[k] = replies[k]
       /\ replies' # <<>> => replies # <<>>
  BY <1>4, <1>8, <1>9
<1>11. UnderLock'
  <2> SUFFICES ASSUME Locked PROVE UnderLock'
    BY <1>7 DEF UnderLock, Locked
  <2>1. ~ GoClosed
    BY <1>1 DEF UnderLock
  <2>2. ASSUME "recv" \notin dead
        PROVE  /\ Len(lines') + Len(replies') <= 1
               /\ lines' # <<>> \/ replies' # <<>> => lock # None /\ at[lock] = "recv"
               /\ \A k \in DOMAIN lines' : lines'[k].by = lock
               /\ \A k \in DOMAIN replies' : replies'[k].by = lock
    <3>1. /\ Len(lines) + Len(replies) <= 1
          /\ replies # <<>> => lock # None /\ at[lock] = "recv"
          /\ \A k \in DOMAIN replies : replies[k].by = lock
      BY <2>2 DEF UnderLock
    <3>2. Len(lines') + Len(replies') <= 1
      BY <1>4, <1>5, <1>8, <1>10, <3>1
    <3> QED BY <1>1, <1>5, <1>10, <3>1, <3>2
  <2> QED BY <1>7, <2>1, <2>2 DEF UnderLock, GoClosed, Locked
<1>12. ASSUME binding = "node" PROVE InStep'
  <2>1. /\ Len(queue) \in Nat /\ Len(replies) + Len(lines) <= Len(queue)
        /\ \A k \in DOMAIN replies : replies[k].by = queue[k]
    BY <1>12, QueueFacts DEF InStep
  <2>2. Len(replies') + Len(lines') <= Len(queue)
    BY <1>4, <1>5, <1>8, <1>10, <2>1
  <2>3. \A k \in DOMAIN replies' : replies'[k].by = queue[k]
    BY <1>10, <2>1
  <2> QED BY <1>1, <1>5, <1>7, <1>12, <2>2, <2>3 DEF InStep
<1>13. binding # "node" => InStep'
  BY <1>7 DEF InStep
<1> QED BY <1>6, <1>11, <1>12, <1>13

-----------------------------------------------------------------------------
LEMMA StutterStep == StepInv /\ UNCHANGED vars => StepInv'
BY DEF vars, StepInv, TypeOK, AnswerIsOwn, Quiet, UnderLock, InStep, GoClosed, Locked,
       IsSequence, IsInjective, ToSet

\* Whatever a caller, the server or the network does keeps the client in step.
LEMMA NextStepInv == StepInv /\ [Next]_vars => StepInv'
<1> SUFFICES ASSUME StepInv, [Next]_vars PROVE StepInv'
  OBVIOUS
<1>1. ASSUME NEW c \in DOMAIN script, Lock(c) \/ Send(c) \/ SendFails(c) \/ SendCut(c)
      PROVE  StepInv'
  BY <1>1, LockStep, SendStep, SendFailsStep, SendCutStep
<1>2. ASSUME NEW c \in DOMAIN script, Receive(c) \/ ReceiveTimeout(c) \/ ReceiveFails(c) \/ Call(c)
      PROVE  StepInv'
  BY <1>2, ReceiveStep, ReceiveTimeoutStep, ReceiveFailsStep, CallStep
<1>3. CASE GoClose \/ NodeClose \/ OnData \/ OnError \/ OnClose
  BY <1>3, GoCloseStep, NodeCloseStep, OnDataStep, OnErrorStep, OnCloseStep
<1>4. CASE Serve \/ ServerEnds \/ BreakOff
  BY <1>4, ServeStep, ServerEndsStep, BreakOffStep
<1>5. CASE UNCHANGED vars
  BY <1>5, StutterStep
<1> QED BY <1>1, <1>2, <1>3, <1>4, <1>5 DEF Next

-----------------------------------------------------------------------------
(* What stands in the lines and the replies                                *)

\* The line of a call can be read, and what dispatch makes of it is what the call
\* asked for.
LEMMA LineIs ==
  ASSUME TypeOK, NEW c \in DOMAIN script
  PROVE  /\ Line(c) \in Seq(Pieces)
         /\ \A body \in dispatch(Line(c)) : Fulfils(binding, script[c], body)
<1>1. IsRequest(script[c])
  BY ScriptsAssumption DEF TypeOK, IsRequest
<1> QED BY <1>1, Answers DEF Line

\* All values of one sequence are values of another.
From(s, t) == \A k \in DOMAIN s : \E j \in DOMAIN t : s[k] = t[j]

\* So are those of its tail and its prefixes.
LEMMA FromOthers ==
  /\ \A t : From(<<>>, t) /\ From(t, t)
  /\ \A t : IsSequence(t) /\ t # <<>> => From(Tail(t), t) /\ 1 \in DOMAIN t /\ Head(t) = t[1]
  /\ \A t, n : IsSequence(t) /\ n \in 0 .. Len(t) => From(SubSeq(t, 1, n), t)
<1>1. \A t : From(<<>>, t) /\ From(t, t)
  BY DEF From
<1>2. ASSUME NEW t, IsSequence(t), t # <<>> PROVE From(Tail(t), t) /\ 1 \in DOMAIN t /\ Head(t) = t[1]
  <2>1. /\ IsSequence(Tail(t)) /\ Len(t) \in Nat \ {0} /\ Len(Tail(t)) = Len(t) - 1
        /\ Head(t) = t[1] /\ 1 \in DOMAIN t
        /\ \A k \in 1 .. Len(t) - 1 : Tail(t)[k] = t[k + 1]
    BY <1>2, TailOwn
  <2>2. DOMAIN Tail(t) = 1 .. Len(t) - 1 /\ DOMAIN t = 1 .. Len(t)
    BY <1>2, <2>1, SequenceLength
  <2>3. ASSUME NEW k \in DOMAIN Tail(t) PROVE \E j \in DOMAIN t : Tail(t)[k] = t[j]
    <3>1. k \in 1 .. Len(t) - 1 /\ k + 1 \in DOMAIN t
      BY <2>1, <2>2
    <3> QED BY <2>1, <3>1
  <2> QED BY <2>1, <2>3 DEF From
<1>3. ASSUME NEW t, NEW n, IsSequence(t), n \in 0 .. Len(t) PROVE From(SubSeq(t, 1, n), t)
  <2>1. /\ IsSequence(SubSeq(t, 1, n)) /\ Len(SubSeq(t, 1, n)) = n
        /\ \A k \in 1 .. n : SubSeq(t, 1, n)[k] = t[k]
    BY <1>3, PrefixOwn
  <2>2. DOMAIN SubSeq(t, 1, n) = 1 .. n /\ DOMAIN t = 1 .. Len(t) /\ Len(t) \in Nat
    BY <1>3, <2>1, SequenceLength
  <2>3. \A k \in 1 .. n : k \in 1 .. Len(t)
    BY <1>3, <2>2
  <2> QED BY <2>1, <2>2, <2>3 DEF From
<1> QED BY <1>1, <1>2, <1>3

\* Contents and RepliesFit of any lines and replies
LineOf(l, b, s) ==
  /\ l.by \in DOMAIN s /\ l.text \in Seq(Pieces)
  /\ b # "python" => ~ l.glued
  /\ ~ l.glued => l.text = Encode(b, s[l.by])

AnswerOf(r, b, s) ==
  /\ r.by \in DOMAIN s
  /\ b # "python" => ~ r.glued
  /\ ~ r.glued => r.body \in dispatch(Encode(b, s[r.by]))

Stocked(b, s, p, ls, rs, g) ==
  /\ p \in Seq(Pieces) /\ (b # "python" => p = <<>>)
  /\ \A k \in DOMAIN ls : LineOf(ls[k], b, s)
  /\ \A k \in DOMAIN rs : AnswerOf(rs[k], b, s) /\ Tidy(rs[k].body)
  /\ \A c \in DOMAIN s : g[c].by # None => AnswerOf(g[c], b, s)

\* That is what they are of these,
LEMMA StockedNow == Contents /\ RepliesFit <=> Stocked(binding, script, partial, lines, replies, got)
BY DEF Contents, RepliesFit, IsAnswer, Line, Stocked, LineOf, AnswerOf, Tidy

\* and of the next ones.
LEMMA StockedThen ==
  Stocked(binding', script', partial', lines', replies', got') => Contents' /\ RepliesFit'
BY DEF Contents, RepliesFit, IsAnswer, Line, Stocked, LineOf, AnswerOf, Tidy

\* Nothing new in the lines and the replies, and none given but those that came.
LEMMA ContentsKept ==
  ASSUME Contents, RepliesFit, UNCHANGED <<binding, script>>,
         partial' \in Seq(Pieces), binding # "python" => partial' = <<>>,
         From(lines', lines), From(replies', replies),
         \A c \in DOMAIN script : got'[c] = got[c] \/ \E j \in DOMAIN replies : got'[c] = replies[j]
  PROVE  Contents' /\ RepliesFit'
<1>1. Stocked(binding, script, partial, lines, replies, got)
  BY StockedNow
<1>2. Stocked(binding, script, partial', lines', replies', got')
  BY <1>1 DEF Stocked, From
<1> QED BY <1>2, StockedThen

\* A whole line, or nothing, is written.
LEMMA WriteContents ==
  ASSUME IndInv, NEW c \in DOMAIN script, Write(c), UNCHANGED <<binding, script, got>>
  PROVE  Contents' /\ RepliesFit'
<1> DEFINE new == [by |-> c, text |-> partial \o Line(c), glued |-> partial # <<>>]
<1>1. TypeOK /\ Contents /\ RepliesFit /\ Stocked(binding, script, partial, lines, replies, got)
  BY StockedNow DEF IndInv, StepInv
<1>2. Line(c) \in Seq(Pieces)
  BY <1>1, LineIs
<1>3. partial \in Seq(Pieces) /\ (binding # "python" => partial = <<>>)
  BY <1>1 DEF Contents
<1>4. partial \o Line(c) \in Seq(Pieces) /\ (partial = <<>> => partial \o Line(c) = Line(c))
  BY <1>2, <1>3, ConcatProperties, ConcatEmptySeq
<1>5. <<>> \in Seq(Pieces)
  BY EmptySeq
<1>6. CASE conn # "up"
  <2>1. lines' = lines /\ replies' = replies /\ partial' = <<>>
    BY <1>6 DEF Write
  <2>2. From(lines', lines) /\ From(replies', replies)
    BY <2>1, FromOthers
  <2> QED BY <1>1, <1>5, <2>1, <2>2, ContentsKept
<1>7. CASE conn = "up"
  <2>1. lines' = Append(lines, new) /\ replies' = replies /\ partial' = <<>>
    BY <1>7 DEF Write
  <2>2. IsSequence(lines)
    BY <1>1 DEF TypeOK
  <2>3. /\ DOMAIN lines' = 1 .. Len(lines) + 1
        /\ \A k \in 1 .. Len(lines) : lines'[k] = lines[k]
        /\ lines'[Len(lines) + 1] = new
        /\ DOMAIN lines = 1 .. Len(lines) /\ Len(lines) \in Nat
    BY <2>1, <2>2, AppendOwn, SequenceLength
  <2>4. LineOf(new, binding, script)
    <3>1. new.by = c /\ new.text = partial \o Line(c) /\ new.glued = (partial # <<>>)
      OBVIOUS
    <3> HIDE DEF new
    <3> QED BY <1>3, <1>4, <3>1 DEF LineOf, Line
  <2> HIDE DEF new
  <2>5. \A k \in 1 .. Len(lines) + 1 : k \in 1 .. Len(lines) \/ k = Len(lines) + 1
    BY <2>3
  <2>6. \A k \in DOMAIN lines' : LineOf(lines'[k], binding, script)
    BY <1>1, <2>3, <2>4, <2>5 DEF Stocked
  <2>7. Stocked(binding, script, partial', lines', replies', got')
    BY <1>1, <1>5, <2>1, <2>6 DEF Stocked
  <2> QED BY <2>7, StockedThen
<1> QED BY <1>6, <1>7

\* The server answers a line.
LEMMA ServeContents ==
  ASSUME IndInv, Serve
  PROVE  Contents' /\ RepliesFit'
<1> DEFINE l == Head(lines)
<1>1. TypeOK /\ Stocked(binding, script, partial, lines, replies, got)
  BY StockedNow DEF IndInv, StepInv
<1>2. PICK body \in dispatch(l.text) :
        replies' = Append(replies, [by |-> l.by, glued |-> l.glued, body |-> body])
  BY DEF Serve
<1>3. lines # <<>> /\ lines' = Tail(lines) /\ UNCHANGED <<binding, script, got, partial>>
  BY DEF Serve, callVars
<1>4. IsSequence(lines) /\ IsSequence(replies)
  BY <1>1 DEF TypeOK
<1>5. From(lines', lines) /\ 1 \in DOMAIN lines /\ l = lines[1]
  BY <1>3, <1>4, FromOthers
<1>6. LineOf(l, binding, script)
  BY <1>1, <1>5 DEF Stocked
<1>7. Tidy(body)
  BY <1>2, <1>6, AnswersFit DEF LineOf
<1> DEFINE new == [by |-> l.by, glued |-> l.glued, body |-> body]
<1>8. new.by = l.by /\ new.glued = l.glued /\ new.body = body
  OBVIOUS
<1> HIDE DEF l
<1>9. AnswerOf(new, binding, script) /\ Tidy(new.body)
  <2> HIDE DEF new
  <2> QED BY <1>2, <1>6, <1>7, <1>8 DEF LineOf, AnswerOf
<1> HIDE DEF new
<1>10. /\ DOMAIN replies' = 1 .. Len(replies) + 1
       /\ \A k \in 1 .. Len(replies) : replies'[k] = replies[k]
       /\ replies'[Len(replies) + 1] = new
       /\ DOMAIN replies = 1 .. Len(replies) /\ Len(replies) \in Nat
  <2>1. replies' = Append(replies, new)
    BY <1>2 DEF new
  <2> QED BY <1>4, <2>1, AppendOwn, SequenceLength
<1>11. \A k \in 1 .. Len(replies) + 1 : k \in 1 .. Len(replies) \/ k = Len(replies) + 1
  BY <1>10
<1>12. \A k \in DOMAIN replies' : AnswerOf(replies'[k], binding, script) /\ Tidy(replies'[k].body)
  BY <1>1, <1>9, <1>10, <1>11 DEF Stocked
<1>13. \A k \in DOMAIN lines' : LineOf(lines'[k], binding, script)
  BY <1>1, <1>5 DEF Stocked, From
<1>14. Stocked(binding, script, partial', lines', replies', got')
  BY <1>1, <1>3, <1>12, <1>13 DEF Stocked
<1> QED BY <1>3, <1>14, StockedThen

\* No step puts anything else there.
LEMMA NextContents ==
  ASSUME IndInv, [Next]_vars
  PROVE  Contents' /\ RepliesFit'
<1>1. TypeOK /\ Contents /\ RepliesFit /\ IsSequence(lines) /\ IsSequence(replies)
  BY DEF IndInv, StepInv, TypeOK
<1>2. partial \in Seq(Pieces) /\ (binding # "python" => partial = <<>>)
  BY <1>1 DEF Contents
<1>3. From(lines, lines) /\ From(replies, replies) /\ From(<<>>, lines) /\ From(<<>>, replies)
  BY FromOthers
\* Where the lines and the replies stay.
<1>4. ASSUME UNCHANGED <<binding, script, got, netVars>> PROVE Contents' /\ RepliesFit'
  BY <1>1, <1>2, <1>3, <1>4, ContentsKept DEF netVars
\* Where the first reply is given, or thrown away.
<1>5. ASSUME UNCHANGED <<binding, script, partial, lines>>, replies # <<>>, replies' = Tail(replies),
             got' = got \/ \E c \in DOMAIN script : got' = [got EXCEPT ![c] = Head(replies)]
      PROVE  Contents' /\ RepliesFit'
  <2>1. From(replies', replies) /\ 1 \in DOMAIN replies /\ Head(replies) = replies[1]
    BY <1>1, <1>5, FromOthers
  <2>2. DOMAIN got = DOMAIN script
    BY <1>1 DEF TypeOK
  <2>3. \A c \in DOMAIN script : got'[c] = got[c] \/ got'[c] = replies[1]
    BY <1>5, <2>1, <2>2
  <2> QED BY <1>1, <1>2, <1>3, <1>5, <2>1, <2>3, ContentsKept
<1>6. ASSUME NEW c \in DOMAIN script, Lock(c) \/ SendFails(c) \/ ReceiveTimeout(c) \/ ReceiveFails(c)
      PROVE  Contents' /\ RepliesFit'
  BY <1>4, <1>6 DEF Lock, SendFails, ReceiveTimeout, ReceiveFails
<1>7. ASSUME NEW c \in DOMAIN script, Send(c) PROVE Contents' /\ RepliesFit'
  BY <1>7, WriteContents DEF Send
<1>8. ASSUME NEW c \in DOMAIN script, SendCut(c) PROVE Contents' /\ RepliesFit'
  <2>1. PICK n \in 0 .. Len(Line(c)) : partial' = partial \o SubSeq(Line(c), 1, n)
    BY <1>8 DEF SendCut
  <2>2. Line(c) \in Seq(Pieces)
    BY <1>1, LineIs
  <2>3. SubSeq(Line(c), 1, n) \in Seq(Pieces)
    <3>1. \A i \in 1 .. n : Line(c)[i] \in Pieces
      BY <2>2, ElementOfSeq, LenProperties
    <3>2. n \in Int /\ 1 \in Int
      OBVIOUS
    <3> QED BY <3>1, <3>2, SubSeqProperties
  <2>4. partial' \in Seq(Pieces)
    BY <1>2, <2>1, <2>3, ConcatProperties
  <2>5. binding = "python" /\ UNCHANGED <<binding, script, got, lines, replies>>
    BY <1>8 DEF SendCut
  <2> QED BY <1>1, <1>3, <2>4, <2>5, ContentsKept
<1>9. ASSUME NEW c \in DOMAIN script, Receive(c) PROVE Contents' /\ RepliesFit'
  BY <1>5, <1>9 DEF Receive
<1>10. ASSUME NEW c \in DOMAIN script, Call(c) PROVE Contents' /\ RepliesFit'
  <2>1. CASE closed
    BY <1>4, <1>10, <2>1 DEF Call
  <2>2. CASE ~ closed
    BY <1>10, <2>2, WriteContents DEF Call
  <2> QED BY <2>1, <2>2
<1>11. CASE OnData
  <2>1. CASE queue = <<>>
    BY <1>5, <1>11, <2>1 DEF OnData
  <2>2. CASE queue # <<>>
    <3>1. Head(queue) \in DOMAIN script
      <4>1. queue \in Seq(DOMAIN script)
        BY <1>1 DEF TypeOK
      <4> QED BY <2>2, <4>1, HeadTailProperties
    <3> QED BY <1>5, <1>11, <2>2, <3>1 DEF OnData
  <2> QED BY <2>1, <2>2
<1>12. CASE OnError
  <2>1. UNCHANGED <<binding, script, got, partial, lines>> /\ replies' = <<>>
    BY <1>12 DEF OnError
  <2> QED BY <1>1, <1>2, <1>3, <2>1, ContentsKept
<1>13. CASE GoClose
  <2>1. UNCHANGED <<binding, script, got, partial>> /\ lines' = <<>> /\ replies' = <<>>
    BY <1>13 DEF GoClose
  <2> QED BY <1>1, <1>2, <1>3, <2>1, ContentsKept
<1>14. CASE OnClose
  BY <1>4, <1>14 DEF OnClose
<1>15. CASE NodeClose \/ ServerEnds
  <2>1. UNCHANGED <<binding, script, got, partial, lines, replies>>
    BY <1>15 DEF NodeClose, ServerEnds, callVars
  <2> QED BY <1>1, <1>2, <1>3, <2>1, ContentsKept
<1>16. CASE Serve
  BY <1>16, ServeContents
<1>17. CASE BreakOff
  <2>1. PICK n \in 0 .. Len(replies) : replies' = SubSeq(replies, 1, n)
    BY <1>17 DEF BreakOff
  <2>2. UNCHANGED <<binding, script, got, partial>> /\ lines' = <<>>
    BY <1>17 DEF BreakOff, callVars
  <2>3. From(replies', replies)
    BY <1>1, <2>1, FromOthers
  <2> QED BY <1>1, <1>2, <1>3, <2>2, <2>3, ContentsKept
<1>18. CASE UNCHANGED vars
  BY <1>4, <1>18 DEF vars, netVars
<1> QED BY <1>6, <1>7, <1>8, <1>9, <1>10, <1>11, <1>12, <1>13, <1>14, <1>15, <1>16, <1>17, <1>18 DEF Next

-----------------------------------------------------------------------------
(* Node's close                                                            *)

\* The replies Node's calls get are none that say "error".
LEMMA NoError ==
  ASSUME TypeOK, Contents, binding = "node", NEW k \in DOMAIN replies
  PROVE  Answered(replies[k]) = "ok"
<1>1. replies[k].by \in DOMAIN script /\ replies[k].body \in dispatch(Line(replies[k].by))
  BY DEF Contents, IsAnswer
<1>2. replies[k].body.kind = script[replies[k].by].op
  BY <1>1, LineIs DEF Fulfils
<1>3. script[replies[k].by].op # "error"
  BY <1>1, ScriptsAssumption DEF TypeOK
<1> QED BY <1>2, <1>3 DEF Answered

\* No step rejects a call of Node while the connection stands.
LEMMA NextClose ==
  ASSUME IndInv, [Next]_vars
  PROVE  CloseLosesNothing'
<1> SUFFICES ASSUME binding' = "node", conn' # "left", NEW c \in DOMAIN script' PROVE at'[c] # "failed"
  BY DEF CloseLosesNothing
<1>1. TypeOK /\ Quiet /\ InStep /\ Contents /\ CloseLosesNothing
  BY DEF IndInv, StepInv
<1>2. binding = "node" /\ c \in DOMAIN script
  BY DEF Next, vars, callVars, Lock, Send, SendFails, SendCut, Receive, ReceiveTimeout, ReceiveFails,
         Call, GoClose, NodeClose, OnData, OnError, OnClose, Serve, ServerEnds, BreakOff
<1>3. ~ Locked
  BY <1>2 DEF Locked
<1>4. \A d \in DOMAIN script : at[d] # "send"
  BY <1>1, <1>2 DEF InStep
<1>5. ASSUME at' = at, conn # "left" PROVE at'[c] # "failed"
  BY <1>1, <1>2, <1>5 DEF CloseLosesNothing
<1>6. ASSUME NEW d \in DOMAIN script,
             \/ Lock(d) \/ Send(d) \/ SendFails(d) \/ SendCut(d)
             \/ Receive(d) \/ ReceiveTimeout(d) \/ ReceiveFails(d)
      PROVE  FALSE
  BY <1>2, <1>3, <1>4, <1>6 DEF Lock, Send, SendFails, SendCut, Receive, ReceiveTimeout, ReceiveFails
<1>7. ASSUME NEW d \in DOMAIN script, Call(d) PROVE at'[c] # "failed"
  <2>1. conn' = conn
    BY <1>7 DEF Call, Write, netVars
  <2>2. at'[c] \in {at[c], "refused", "recv"}
    BY <1>1, <1>2, <1>7 DEF Call, TypeOK
  <2> QED BY <1>1, <1>2, <2>1, <2>2 DEF CloseLosesNothing
<1>8. CASE GoClose
  BY <1>2, <1>8 DEF GoClose
<1>9. CASE NodeClose
  <2>1. at' = at /\ conn # "left"
    BY <1>9 DEF NodeClose
  <2> QED BY <1>5, <2>1
<1>10. CASE OnData
  <2>1. conn' = conn /\ replies # <<>>
    BY <1>10 DEF OnData
  <2>2. Answered(Head(replies)) = "ok"
    <3>1. 1 \in DOMAIN replies /\ Head(replies) = replies[1]
      BY <1>1, <2>1, FromOthers DEF TypeOK
    <3> QED BY <1>1, <1>2, <3>1, NoError
  <2>3. at'[c] \in {at[c], "ok"}
    BY <1>1, <1>2, <1>10, <2>2 DEF OnData, TypeOK
  <2> QED BY <1>1, <1>2, <2>1, <2>3 DEF CloseLosesNothing
<1>11. CASE OnError
  BY <1>11 DEF OnError
<1>12. CASE OnClose
  <2>1. conn = "ended" /\ replies = <<>> /\ at' = AllRejected
    BY <1>12 DEF OnClose, netVars
  <2>2. lines = <<>> /\ Len(replies) + Len(lines) = Len(queue)
    BY <1>1, <1>2, <2>1 DEF Quiet, InStep
  <2>3. Len(queue) = 0 /\ queue \in Seq(DOMAIN script)
    BY <1>1, <2>1, <2>2, EmptySequence DEF TypeOK
  <2>4. ToSet(queue) = {}
    <3>1. queue = <<>>
      BY <2>3, EmptySeq
    <3> QED BY <3>1 DEF ToSet
  <2>5. AllRejected[c] = at[c]
    BY <1>1, <1>2, <2>4 DEF AllRejected, TypeOK
  <2> QED BY <1>1, <1>2, <2>1, <2>5 DEF CloseLosesNothing
<1>13. CASE Serve \/ ServerEnds
  <2>1. at' = at /\ conn # "left"
    BY <1>13 DEF Serve, ServerEnds, callVars
  <2> QED BY <1>5, <2>1
<1>14. CASE BreakOff
  BY <1>14 DEF BreakOff
<1>15. CASE UNCHANGED vars
  <2>1. at' = at /\ conn # "left"
    BY <1>15 DEF vars
  <2> QED BY <1>5, <2>1
<1> QED BY <1>6, <1>7, <1>8, <1>9, <1>10, <1>11, <1>12, <1>13, <1>14, <1>15 DEF Next

-----------------------------------------------------------------------------
LEMMA InitIndInv == Init => IndInv
<1> SUFFICES ASSUME Init PROVE IndInv
  OBVIOUS
<1>1. StepInv
  BY InitStepInv
<1>2. \A c \in DOMAIN script : got[c].by = None /\ at[c] = "new"
  BY DEF Init, NoReply
<1>3. Contents /\ RepliesFit
  <2>1. <<>> \in Seq(Pieces) /\ DOMAIN <<>> = {}
    BY EmptySeq
  <2> QED BY <1>2, <2>1 DEF Init, Contents, RepliesFit
<1>4. CloseLosesNothing
  BY <1>2 DEF CloseLosesNothing
<1> QED BY <1>1, <1>3, <1>4 DEF IndInv

\* Every step preserves the inductive invariant.
LEMMA NextIndInv == IndInv /\ [Next]_vars => IndInv'
<1> SUFFICES ASSUME IndInv, [Next]_vars PROVE IndInv'
  OBVIOUS
<1>1. StepInv'
  BY NextStepInv DEF IndInv
<1> QED BY <1>1, NextContents, NextClose DEF IndInv

\* The clients stay in step with the server, whoever calls, fails or closes, and
\* each line says what its caller asked: the inductive invariant of Clients.
THEOREM Invariance == Spec => []IndInv
<1> QED BY InitIndInv, NextIndInv, PTL DEF Spec

\* A call is only ever given the reply to its own line, although replies bear no
\* number: not after a timeout, an error event or a lost connection, and not
\* with any number of other calls before and behind it.
THEOREM OwnAnswer == Spec => []AnswerIsOwn
<1>1. IndInv => AnswerIsOwn
  BY DEF IndInv, StepInv
<1> QED BY <1>1, Invariance, PTL

\* A plain text is one that comes back, and does not hide the mode.
LEMMA PlainIs ==
  ASSUME NEW r, Plain(r), r.arg \in Seq(DOMAIN Width)
  PROVE  Readable(binding, r.arg) /\ (r.op = "map" => binding = "go" \/ ~ HidesMode(r.arg))
<1>1. DOMAIN r.arg = 1 .. Len(r.arg)
  BY LenProperties
<1>2. \A k \in 1 .. Len(r.arg) : r.arg[k] \in ToSet(r.arg)
  BY <1>1 DEF ToSet
<1> QED BY <1>2 DEF Plain, Readable, HidesMode

\* Quotes, backslashes and field names in a text come through both the binding's
\* encoder and the server's parser: a call that ends well, and whose line was not
\* glued to one cut off, has the answer to what the caller asked, whatever plain
\* text that is and however long.
THEOREM AnswersAreRight == Spec => []RightAnswers
<1>1. IndInv => RightAnswers
  <2> SUFFICES ASSUME IndInv, NEW c \in DOMAIN script, at[c] = "ok", ~ got[c].glued
               PROVE  /\ got[c].body.kind = script[c].op
                      /\ script[c].op = "seek" /\ Plain(script[c]) /\ ~ got[c].body.null =>
                           got[c].body.key = Seek(script[c].arg)
                      /\ script[c].op = "map" /\ Plain(script[c]) /\ ~ got[c].body.null =>
                           IsPrefix(got[c].body.matches, Matches(script[c].arg, Digit[script[c].mode]))
    BY DEF RightAnswers
  <2>1. TypeOK /\ AnswerIsOwn /\ Contents
    BY DEF IndInv, StepInv
  <2>2. got[c].by = c
    BY <2>1 DEF TypeOK, AnswerIsOwn
  <2>3. None \notin DOMAIN script
    BY <2>1, NoneIsNoCaller
  <2>4. got[c].body \in dispatch(Line(c))
    BY <2>1, <2>2, <2>3 DEF Contents, IsAnswer
  <2>5. Fulfils(binding, script[c], got[c].body)
    BY <2>1, <2>4, LineIs
  <2>6. script[c].arg \in Seq(DOMAIN Width)
    BY <2>1, ScriptsAssumption DEF TypeOK
  <2>7. Plain(script[c]) =>
          Readable(binding, script[c].arg) /\ (script[c].op = "map" => binding = "go" \/ ~ HidesMode(script[c].arg))
    BY <2>6, PlainIs
  <2> QED BY <2>5, <2>7 DEF Fulfils
<1> QED BY <1>1, Invariance, PTL

\* handle_map's reply, with its end and the '\0', fits the slot: however many
\* matches there are, however long their numbers, whatever the slot's size above
\* the 64 bytes it keeps free, and for lines no client sends, too.
THEOREM RepliesFitSlot == Spec => []RepliesFit
<1>1. IndInv => RepliesFit
  BY DEF IndInv
<1> QED BY <1>1, Invariance, PTL

\* Node's close lets the calls made before it end: unless the connection breaks,
\* none of them is rejected.
THEOREM CloseWaits == Spec => []CloseLosesNothing
<1>1. IndInv => CloseLosesNothing
  BY DEF IndInv
<1> QED BY <1>1, Invariance, PTL
=============================================================================
