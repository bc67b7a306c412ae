--------------------------- MODULE HashListProofs ---------------------------
(***************************************************************************)
(* Proofs about HashList, for every file, all hash functions that tell the *)
(* strings apart, and all CHUNK and BSIZE.                                 *)
(***************************************************************************)
EXTENDS CtlLoad, SharedLemmas, FiniteSetTheorems, SequenceTheorems, TLAPS

-----------------------------------------------------------------------------
(* Lines                                                                   *)

LEMMA FileFacts ==
  ASSUME data \in Files
  PROVE  /\ data \in Seq(DOMAIN Low) /\ size \in Nat
         /\ \A p \in 0 .. size - 1 : p \in Nat /\ p + 1 \in 1 .. size /\ At(p) \in DOMAIN Low
<1>1. data \in Seq(DOMAIN Low)
  BY ListAssumption
<1>2. size \in Nat
  BY <1>1, LenProperties DEF size
<1>3. ASSUME NEW p \in 0 .. size - 1 PROVE p \in Nat /\ p + 1 \in 1 .. size /\ At(p) \in DOMAIN Low
  <2>1. p + 1 \in 1 .. Len(data)
    BY <1>2, <1>3 DEF size
  <2> QED BY <1>1, <1>2, <1>3, <2>1, ElementOfSeq DEF At, size
<1> QED BY <1>1, <1>2, <1>3

\* A line ends at the first newline, or where the file does.
LEMMA LineEndFacts ==
  ASSUME data \in Files, NEW p \in 0 .. size - 1
  PROVE  /\ LineEnd(p) \in p .. size
         /\ \A k \in p .. LineEnd(p) - 1 : At(k) # Newline
         /\ LineEnd(p) = size \/ At(LineEnd(p)) = Newline
<1> DEFINE T == {size} \union {k \in p .. size - 1 : At(k) = Newline}
<1>1. size \in Nat /\ p \in Nat
  BY FileFacts
<1>2. T \subseteq Nat /\ T # {} /\ \A k \in T : p <= k /\ k <= size
  BY <1>1
<1>3. LineEnd(p) \in T /\ \A y \in T : LineEnd(p) <= y
  <2>1. Min(T) \in T /\ \A y \in T : Min(T) <= y
    BY <1>2, MinNat
  <2>2. LineEnd(p) = Min(T)
    BY DEF LineEnd
  <2> QED BY <2>1, <2>2
<1>4. LineEnd(p) \in Nat /\ LineEnd(p) \in p .. size
  BY <1>1, <1>2, <1>3
<1>5. ASSUME NEW k \in p .. LineEnd(p) - 1 PROVE At(k) # Newline
  <2>1. k \in p .. size - 1 /\ k < LineEnd(p)
    BY <1>1, <1>4
  <2>2. k \notin T
    BY <1>3, <1>4, <2>1
  <2> QED BY <2>1, <2>2
<1> QED BY <1>3, <1>4, <1>5

\* A word ends at the first tab of its line, or with the line.
LEMMA WordEndFacts ==
  ASSUME data \in Files, NEW p \in 0 .. size - 1
  PROVE  /\ WordEnd(p) \in p .. LineEnd(p)
         /\ \A k \in p .. WordEnd(p) - 1 : At(k) \notin {Tab, Newline}
         /\ Tabs(p) = {} => WordEnd(p) = LineEnd(p)
         /\ Tabs(p) # {} => WordEnd(p) < LineEnd(p) /\ At(WordEnd(p)) = Tab
<1>1. /\ size \in Nat /\ p \in Nat /\ LineEnd(p) \in p .. size
      /\ \A k \in p .. LineEnd(p) - 1 : At(k) # Newline
  BY FileFacts, LineEndFacts
<1>2. CASE Tabs(p) = {}
  <2>1. WordEnd(p) = LineEnd(p)
    BY <1>2 DEF WordEnd
  <2>2. \A k \in p .. LineEnd(p) - 1 : At(k) # Tab
    BY <1>2 DEF Tabs
  <2> QED BY <1>1, <1>2, <2>1, <2>2
<1>3. CASE Tabs(p) # {}
  <2>1. Tabs(p) \subseteq Nat /\ \A k \in Tabs(p) : p <= k /\ k < LineEnd(p) /\ At(k) = Tab
    BY <1>1 DEF Tabs
  <2>2. WordEnd(p) \in Tabs(p) /\ \A k \in Tabs(p) : WordEnd(p) <= k
    BY <1>3, <2>1, MinNat DEF WordEnd
  <2>3. WordEnd(p) \in p .. LineEnd(p) /\ WordEnd(p) < LineEnd(p) /\ At(WordEnd(p)) = Tab
    BY <1>1, <2>1, <2>2
  <2>4. ASSUME NEW k \in p .. WordEnd(p) - 1 PROVE At(k) \notin {Tab, Newline}
    <3>1. k \in p .. LineEnd(p) - 1 /\ k < WordEnd(p)
      BY <1>1, <2>3
    <3>2. k \notin Tabs(p)
      BY <1>1, <2>2, <2>3, <3>1
    <3> QED BY <1>1, <3>1, <3>2 DEF Tabs
  <2> QED BY <1>3, <2>3, <2>4
<1> QED BY <1>2, <1>3

\* The word of a line, and its key.
LineWord(p) == SubSeq(data, p + 1, WordEnd(p))
LineKey(p)  == IF Tabs(p) = {} THEN DEFAULT ELSE KeyAt(WordEnd(p) + 1)

LEMMA LineWordFacts ==
  ASSUME data \in Files, NEW p \in 0 .. size - 1
  PROVE  /\ LineWord(p) \in Seq(DOMAIN Low) /\ Len(LineWord(p)) = WordEnd(p) - p
         /\ \A k \in p .. WordEnd(p) - 1 : LineWord(p)[k - p + 1] = At(k)
         /\ LineWord(p) = <<>> <=> At(p) \in {Tab, Newline}
<1>1. /\ size \in Nat /\ p \in Nat /\ data \in Seq(DOMAIN Low)
      /\ LineEnd(p) \in p .. size /\ WordEnd(p) \in p .. LineEnd(p)
  BY FileFacts, LineEndFacts, WordEndFacts
<1>2. /\ WordEnd(p) \in Nat /\ WordEnd(p) >= p /\ WordEnd(p) <= Len(data)
      /\ p + 1 \in 1 .. Len(data)
  BY <1>1 DEF size
<1>3. LineWord(p) \in Seq(DOMAIN Low) /\ Len(LineWord(p)) = WordEnd(p) - p
      /\ \A k \in 1 .. WordEnd(p) - p : LineWord(p)[k] = data[p + k]
  <2>1. \A k \in p + 1 .. WordEnd(p) : data[k] \in DOMAIN Low
    BY <1>1, <1>2, ElementOfSeq
  <2> QED BY <1>1, <1>2, <2>1, SubSeqProperties DEF LineWord
<1>4. ASSUME NEW k \in p .. WordEnd(p) - 1 PROVE LineWord(p)[k - p + 1] = At(k)
  <2>1. k - p + 1 \in 1 .. WordEnd(p) - p /\ p + (k - p + 1) = k + 1
    BY <1>1, <1>2
  <2> QED BY <1>3, <2>1 DEF At
<1>5. LineWord(p) = <<>> <=> WordEnd(p) = p
  BY <1>1, <1>2, <1>3
<1>6. WordEnd(p) = p => At(p) \in {Tab, Newline}
  BY <1>1, LineEndFacts, WordEndFacts
<1>7. WordEnd(p) # p => At(p) \notin {Tab, Newline}
  <2>1. WordEnd(p) # p => p \in p .. WordEnd(p) - 1
    BY <1>1, <1>2
  <2> QED BY <2>1, WordEndFacts
<1> QED BY <1>3, <1>4, <1>5, <1>6, <1>7

-----------------------------------------------------------------------------
(* Counting the members of a set of naturals that lie in front of one.     *)

Under(S, p) == Cardinality({k \in S : k < p})

LEMMA UnderNat ==
  ASSUME NEW S, IsFiniteSet(S), NEW p
  PROVE  /\ Under(S, p) \in Nat /\ Cardinality(S) \in Nat /\ Under(S, p) <= Cardinality(S)
         /\ IsFiniteSet({k \in S : k < p})
<1>1. {k \in S : k < p} \in SUBSET S
  OBVIOUS
<1>2. IsFiniteSet({k \in S : k < p}) /\ Cardinality({k \in S : k < p}) <= Cardinality(S)
  BY <1>1, FS_Subset
<1> QED BY <1>2, FS_CardinalityType DEF Under

\* Nothing between p and q, or p alone.
LEMMA UnderStep ==
  ASSUME NEW S, S \subseteq Nat, IsFiniteSet(S), NEW p \in Nat, NEW q \in Nat, p < q,
         \A k \in S : p < k => q <= k
  PROVE  Under(S, q) = Under(S, p) + (IF p \in S THEN 1 ELSE 0)
<1> DEFINE P == {k \in S : k < p}
           Q == {k \in S : k < q}
<1>1. IsFiniteSet(P) /\ Cardinality(P) \in Nat /\ Under(S, p) = Cardinality(P) /\ Under(S, q) = Cardinality(Q)
  BY UnderNat DEF Under
<1>0. \A k \in S : k \in Nat /\ (k < q <=> k < p \/ k = p) /\ (k = p => ~ (k < p))
  OBVIOUS
<1>m. (\A k : k \in P <=> k \in S /\ k < p) /\ (\A k : k \in Q <=> k \in S /\ k < q)
  OBVIOUS
<1> HIDE DEF P, Q
<1>2. CASE p \in S
  <2>1. Q = P \union {p} /\ p \notin P
    BY ONLY <1>0, <1>2, <1>m
  <2>2. Cardinality(Q) = Cardinality(P) + 1
    BY <1>1, <2>1, FS_AddElement
  <2> QED BY <1>1, <1>2, <2>2
<1>3. CASE p \notin S
  <2>1. Q = P
    BY ONLY <1>0, <1>3, <1>m
  <2> QED BY <1>1, <1>3, <2>1
<1> QED BY <1>2, <1>3

LEMMA UnderGrows ==
  ASSUME NEW S, S \subseteq Nat, IsFiniteSet(S), NEW p \in S, NEW q \in Nat, p < q
  PROVE  Under(S, p) + 1 <= Under(S, q)
<1> DEFINE P == {k \in S : k < p}
           Q == {k \in S : k < q}
<1>1. IsFiniteSet(P) /\ Cardinality(P) \in Nat /\ Under(S, p) = Cardinality(P) /\ Under(S, q) = Cardinality(Q)
      /\ IsFiniteSet(Q)
  BY UnderNat DEF Under
<1>2. P \union {p} \in SUBSET Q /\ p \notin P
  <2>1. p \in S /\ p < q /\ ~ (p < p) /\ \A k \in S : k < p => k < q
    OBVIOUS
  <2>2. (\A k : k \in P <=> k \in S /\ k < p) /\ (\A k : k \in Q <=> k \in S /\ k < q)
    OBVIOUS
  <2> HIDE DEF P, Q
  <2> QED BY ONLY <2>1, <2>2
<1> HIDE DEF P, Q
<1>3. Cardinality(P \union {p}) <= Cardinality(Q)
  BY <1>1, <1>2, FS_Subset
<1>4. Cardinality(P \union {p}) = Cardinality(P) + 1
  BY <1>1, <1>2, FS_AddElement
<1> QED BY <1>1, <1>3, <1>4

\* A function from a finite set to one of the same size that is one to one is onto.
LEMMA OneToOneIsOnto ==
  ASSUME NEW S, NEW T, IsFiniteSet(T), IsFiniteSet(S), Cardinality(S) = Cardinality(T),
         NEW f \in [S -> T], \A x, y \in S : f[x] = f[y] => x = y
  PROVE  \A t \in T : \E x \in S : f[x] = t
<1>1. f \in Injection(S, T)
  BY DEF Injection, IsInjective
<1>2. f \in Surjection(S, T)
  BY <1>1, FS_Injection
<1> QED BY <1>2 DEF Surjection

\* Each number below the size of a set is that of a member.
LEMMA UnderOnto ==
  ASSUME NEW S, S \subseteq Nat, IsFiniteSet(S), NEW n \in 0 .. Cardinality(S) - 1
  PROVE  \E p \in S : Under(S, p) = n
<1> DEFINE c == Cardinality(S)
           f == [p \in S |-> Under(S, p)]
<1>1. c \in Nat
  BY FS_CardinalityType
<1>2. ASSUME NEW p \in S PROVE Under(S, p) \in 0 .. c - 1
  <2>1. {k \in S : k < p} \in SUBSET (S \ {p})
    OBVIOUS
  <2>2. IsFiniteSet(S \ {p}) /\ Cardinality(S \ {p}) = c - 1
    BY FS_RemoveElement
  <2>3. Under(S, p) <= c - 1
    BY <2>1, <2>2, FS_Subset DEF Under
  <2>4. Under(S, p) \in Nat
    BY UnderNat
  <2> QED BY <1>1, <2>3, <2>4
<1>3. f \in [S -> 0 .. c - 1]
  BY <1>2
<1>4. ASSUME NEW p \in S, NEW q \in S, f[p] = f[q] PROVE p = q
  <2>1. Under(S, p) \in Nat /\ Under(S, q) \in Nat /\ Under(S, p) = Under(S, q)
    BY <1>4, UnderNat
  <2>2. p < q => Under(S, p) + 1 <= Under(S, q)
    BY UnderGrows
  <2>3. q < p => Under(S, q) + 1 <= Under(S, p)
    BY UnderGrows
  <2> QED BY <2>1, <2>2, <2>3
<1>5. IsFiniteSet(0 .. c - 1) /\ Cardinality(0 .. c - 1) = c
  BY <1>1, FS_Interval
<1> DEFINE T == 0 .. c - 1
<1> HIDE DEF f
<1>6. f \in [S -> T] /\ IsFiniteSet(T) /\ Cardinality(S) = Cardinality(T)
  BY <1>3, <1>5
<1>7. \A x, y \in S : f[x] = f[y] => x = y
  BY <1>4
<1> HIDE DEF T, c
<1>8. \A t \in T : \E p \in S : f[p] = t
  BY ONLY IsFiniteSet(S), <1>6, <1>7, OneToOneIsOnto
<1> QED BY <1>8 DEF f, T, c

-----------------------------------------------------------------------------
(* The loop over the file                                                  *)

LEMMA StartsFinite ==
  ASSUME data \in Files
  PROVE  IsFiniteSet(Starts) /\ Starts \subseteq Nat
<1>1. size \in Nat
  BY FileFacts
<1>2. IsFiniteSet(0 .. size - 1)
  BY <1>1, FS_Interval
<1>3. Starts \in SUBSET (0 .. size - 1)
  BY DEF Starts
<1>4. IsFiniteSet(Starts)
  BY <1>2, <1>3, FS_Subset
<1>5. 0 .. size - 1 \subseteq Nat
  BY <1>1
<1> QED BY <1>3, <1>4, <1>5

\* Where a line begins and is not blank it yields an entry.
LEMMA LineEntry ==
  ASSUME data \in Files, NEW p \in 0 .. size - 1, p = 0 \/ At(p - 1) = Newline,
         LineWord(p) # <<>>,
         NEW x, x = [word |-> LineWord(p), key |-> LineKey(p)]
  PROVE  x \in [word : Strings \ {<<>>}, key : 0 .. 15] /\ EntryOf(x, p)
<1>1. /\ size \in Nat /\ p \in Nat /\ data \in Seq(DOMAIN Low) /\ DOMAIN data = 1 .. size
      /\ LineEnd(p) \in p .. size /\ WordEnd(p) \in p .. LineEnd(p)
      /\ LineEnd(p) = size \/ At(LineEnd(p)) = Newline
  BY FileFacts, LineEndFacts, WordEndFacts DEF size
<1>2. /\ \A k \in p .. WordEnd(p) - 1 : At(k) \notin {Tab, Newline}
      /\ Tabs(p) = {} => WordEnd(p) = LineEnd(p)
      /\ Tabs(p) # {} => WordEnd(p) < LineEnd(p) /\ At(WordEnd(p)) = Tab
  BY WordEndFacts
<1>3. /\ LineWord(p) \in Seq(DOMAIN Low) /\ Len(LineWord(p)) = WordEnd(p) - p
      /\ \A k \in p .. WordEnd(p) - 1 : LineWord(p)[k - p + 1] = At(k)
  BY LineWordFacts
<1>4. LineWord(p) \in Strings
  <2>1. p < WordEnd(p)
    BY <1>1, <1>3
  <2>2. p \in 0 .. Len(data) - 1 /\ WordEnd(p) \in 1 .. Len(data)
    BY <1>1, <2>1 DEF size
  <2>3. p = 0 \/ data[p] = Newline
    BY <1>1 DEF At
  <2>4. \A k \in p + 1 .. WordEnd(p) : data[k] \notin {Tab, Newline}
    <3> SUFFICES ASSUME NEW k \in p + 1 .. WordEnd(p) PROVE data[k] \notin {Tab, Newline}
      OBVIOUS
    <3>1. k - 1 \in p .. WordEnd(p) - 1 /\ k - 1 + 1 = k
      BY <1>1
    <3> QED BY <1>2, <3>1 DEF At
  <2> QED BY <2>1, <2>2, <2>3, <2>4, StringsAssumption DEF LineWord
<1>5. Tabs(p) # {} => WordEnd(p) + 1 \in Nat /\ WordEnd(p) + 1 <= size
  BY <1>1, <1>2
<1>6. LineKey(p) \in 0 .. 15
  <2>1. CASE Tabs(p) = {}
    BY <2>1 DEF LineKey, DEFAULT
  <2>2. CASE Tabs(p) # {}
    <3>1. WordEnd(p) + 1 = size => KeyAt(WordEnd(p) + 1) = DEFAULT
      BY DEF KeyAt
    <3>2. WordEnd(p) + 1 # size => WordEnd(p) + 1 \in 0 .. size - 1
      BY <1>1, <1>5, <2>2
    <3>3. WordEnd(p) + 1 # size => At(WordEnd(p) + 1) \in DOMAIN Low
      BY <3>2, FileFacts
    <3>4. WordEnd(p) + 1 # size => KeyAt(WordEnd(p) + 1) \in 0 .. 15
      BY <3>3, ListAssumption DEF KeyAt
    <3> QED BY <2>2, <3>1, <3>4 DEF LineKey, DEFAULT
  <2> QED BY <2>1, <2>2
<1>7. EntryOf(x, p)
  <2> DEFINE e == p + Len(x.word)
  <2>1. x.word = LineWord(p) /\ x.key = LineKey(p) /\ e = WordEnd(p)
    BY SMTT(20), <1>1, <1>3
  <2>2. e <= size /\ (\A k \in p .. e - 1 : x.word[k - p + 1] = At(k) /\ At(k) \notin {Tab, Newline})
    BY <1>1, <1>2, <1>3, <2>1
  <2>3. e = size \/ At(e) \in {Tab, Newline}
    BY <1>1, <1>2, <2>1
  <2>4. e = size \/ At(e) = Newline => x.key = DEFAULT
    <3>1. Tabs(p) # {} => e # size /\ At(e) # Newline
      <4>1. Tabs(p) # {} => WordEnd(p) \in p .. LineEnd(p) - 1
        BY <1>1, <1>2
      <4>2. Tabs(p) # {} => At(WordEnd(p)) # Newline
        BY <4>1, LineEndFacts
      <4> QED BY <1>1, <1>2, <2>1, <4>2
    <3> QED BY <2>1, <3>1 DEF LineKey
  <2>5. e + 1 < size /\ At(e) = Tab /\ At(e + 1) # Newline => x.key = Low[At(e + 1)]
    <3> SUFFICES ASSUME e + 1 < size, At(e) = Tab, At(e + 1) # Newline
                 PROVE  LineKey(p) = Low[At(WordEnd(p) + 1)]
      BY <2>1
    <3>1. KeyAt(WordEnd(p) + 1) = Low[At(WordEnd(p) + 1)]
      BY <1>1, <2>1 DEF KeyAt
    <3>2. Tabs(p) # {}
      <4> SUFFICES ASSUME Tabs(p) = {} PROVE FALSE
        OBVIOUS
      <4>1. WordEnd(p) = LineEnd(p) /\ LineEnd(p) # size
        BY <1>1, <1>2, <2>1
      <4>2. At(e) = Newline /\ Tab = Newline
        BY <1>1, <2>1, <4>1
      <4>3. WordEnd(p) \in p .. size - 1
        BY <1>1, <4>1
      <4> QED BY <4>2, ListAssumption
    <3> QED BY <3>1, <3>2 DEF LineKey
  <2> HIDE DEF e
  <2> QED BY <2>2, <2>3, <2>4, <2>5 DEF EntryOf, e
<1> QED BY <1>3, <1>4, <1>6, <1>7

LEMMA InitIndInv == Init => data \in Files /\ IndInv
<1> SUFFICES ASSUME Init PROVE data \in Files /\ IndInv
  OBVIOUS
<1>0. data \in Files
  BY DEF Init
<1> USE DEF Init
<1>2. <<>> \in Seq([word : Strings \ {<<>>}, key : 0 .. 15]) /\ Len(<<>>) = 0
  BY EmptySeq
<1>3. IsSequence(h) /\ \A k \in DOMAIN h : IsHash(h[k])
  <2>1. DOMAIN h = {} /\ <<>> \in Seq({h[k] : k \in DOMAIN h})
    BY EmptySeq
  <2> QED BY <2>1 DEF IsSequence
<1>4. TypeOK
  BY <1>2, <1>3 DEF TypeOK
<1>5. LinesSoFar
  <2>1. Starts \subseteq Nat
    BY <1>0, StartsFinite
  <2>2. \A k \in Starts : ~ (k < 0)
    BY <2>1
  <2>m. {k \in Starts : k < 0} = {}
    BY <2>2
  <2>3. LinesBefore(0) = 0
    BY <2>m, FS_EmptySet DEF LinesBefore
  <2> QED BY <1>2, <2>2, <2>3 DEF LinesSoFar
<1> QED BY <1>0, <1>4, <1>5 DEF IndInv, LinesParsed, HashesMade, ListSoFar

LEMMA FailStep == IndInv /\ Fail => IndInv'
<1> SUFFICES ASSUME IndInv, Fail PROVE IndInv'
  OBVIOUS
<1>1. phase' = "failed" /\ UNCHANGED <<data, hash, i, list, h, num, ol, os, mask>>
  BY DEF Fail
<1>2. TypeOK'
  BY <1>1 DEF IndInv, TypeOK, IsSequence, IsHash, Hashed
<1> QED BY <1>1, <1>2 DEF IndInv, LinesSoFar, LinesParsed, HashesMade, ListSoFar

\* One line is read, and the lines in front of i grow by it if it is not blank.
LEMMA ParseLineStep == data \in Files /\ IndInv /\ ParseLine => IndInv'
<1> SUFFICES ASSUME data \in Files, IndInv, ParseLine PROVE IndInv'
  OBVIOUS
<1> DEFINE Item == [word : Strings \ {<<>>}, key : 0 .. 15]
           x == [word |-> LineWord(i), key |-> LineKey(i)]
<1>1. /\ phase = "parse" /\ i < size
      /\ list' = IF LineWord(i) = <<>> THEN list ELSE Append(list, x)
      /\ i' = LineEnd(i) + 1
      /\ UNCHANGED <<data, hash, phase, h, num, ol, os, mask>>
  BY DEF ParseLine, LineWord, LineKey
<1>2. /\ size \in Nat /\ i \in Nat /\ i \in 0 .. size - 1
      /\ i = 0 \/ At(i - 1) = Newline
      /\ Len(list) = LinesBefore(i) /\ (\A p \in Starts : p < i => LineParsed(p)) /\ h = <<>>
      /\ list \in Seq(Item)
  BY <1>1, FileFacts DEF IndInv, LinesSoFar, TypeOK
<1>3. /\ LineEnd(i) \in i .. size /\ \A k \in i .. LineEnd(i) - 1 : At(k) # Newline
      /\ LineEnd(i) = size \/ At(LineEnd(i)) = Newline
  BY <1>2, LineEndFacts
<1>4. /\ i' \in Nat /\ i < i' /\ i' - 1 = LineEnd(i)
      /\ i' = 0 \/ i' >= size \/ At(i' - 1) = Newline
  <2>1. size \in Nat /\ i \in Nat /\ LineEnd(i) \in i .. size /\ i' = LineEnd(i) + 1
    BY <1>1, <1>2, <1>3
  <2>2. /\ i' \in Nat /\ i < i' /\ i' - 1 = LineEnd(i)
        /\ LineEnd(i) = size => i' >= size
    BY ONLY <2>1
  <2> QED BY <1>3, <2>2
<1>5. IsFiniteSet(Starts) /\ Starts \subseteq Nat
  BY StartsFinite
<1>6. LineWord(i) # <<>> <=> i \in Starts
  <2>1. LineWord(i) = <<>> <=> At(i) \in {Tab, Newline}
    BY <1>2, LineWordFacts
  <2> QED BY <1>2, <2>1 DEF Starts
<1>7. ASSUME NEW k \in Starts, i < k PROVE i' <= k
  <2> SUFFICES ASSUME k < i' PROVE FALSE
    BY <1>4, <1>5
  <2>1. k \in Nat /\ k # 0 /\ k - 1 \in i .. LineEnd(i) - 1
    BY <1>2, <1>3, <1>4, <1>5, <1>7
  <2>2. At(k - 1) # Newline
    BY <1>3, <2>1
  <2> QED BY <2>1, <2>2 DEF Starts
<1>8. LinesBefore(i') = LinesBefore(i) + (IF i \in Starts THEN 1 ELSE 0)
  <2>1. Under(Starts, i') = Under(Starts, i) + (IF i \in Starts THEN 1 ELSE 0)
    BY <1>2, <1>4, <1>5, <1>7, UnderStep
  <2> QED BY <2>1 DEF Under, LinesBefore
<1>9. Starts' = Starts /\ size' = size /\ \A p : LinesBefore(p)' = LinesBefore(p)
  BY <1>1 DEF Starts, size, At, LinesBefore
<1>10. LinesBefore(i) \in Nat /\ \A p \in Starts : p < i =>
         LinesBefore(p) \in Nat /\ LinesBefore(p) + 1 <= LinesBefore(i)
  <2>1. Under(Starts, i) \in Nat /\ \A p \in Starts : Under(Starts, p) \in Nat
    BY <1>5, UnderNat
  <2>2. \A p \in Starts : p < i => Under(Starts, p) + 1 <= Under(Starts, i)
    BY <1>2, <1>5, UnderGrows
  <2> QED BY <2>1, <2>2 DEF Under, LinesBefore
<1>11. LineWord(i) # <<>> => x \in Item /\ EntryOf(x, i)
  BY <1>2, LineEntry
<1> HIDE DEF x
<1>12. /\ list' \in Seq(Item)
       /\ Len(list') = Len(list) + (IF i \in Starts THEN 1 ELSE 0)
       /\ \A n \in 1 .. Len(list) : list'[n] = list[n]
       /\ i \in Starts => list'[Len(list) + 1] = x
  <2>1. CASE i \in Starts
    <3>1. list' = Append(list, x) /\ x \in Item
      BY <1>1, <1>6, <1>11, <2>1
    <3> HIDE DEF Item
    <3> QED BY <1>2, <2>1, <3>1, AppendProperties
  <2>2. CASE i \notin Starts
    <3>1. list' = list
      BY <1>1, <1>6, <2>2
    <3>2. Len(list) \in Nat
      BY <1>2, LenProperties
    <3> QED BY <1>2, <2>2, <3>1, <3>2
  <2> QED BY <2>1, <2>2
<1>13. ASSUME NEW p \in Starts, p < i' PROVE LineParsed(p)'
  <2>1. LineParsed(p)' = EntryOf(list'[LinesBefore(p) + 1], p)
    BY <1>1, <1>9 DEF LineParsed, EntryOf, At, size, LinesBefore
  <2>2. CASE p < i
    <3>1. LinesBefore(p) + 1 \in 1 .. Len(list)
      BY <1>2, <1>10, <2>2
    <3>2. list'[LinesBefore(p) + 1] = list[LinesBefore(p) + 1]
      BY <1>12, <3>1
    <3>3. LineParsed(p)
      BY <1>2, <2>2
    <3> QED BY <2>1, <3>2, <3>3 DEF LineParsed
  <2>3. CASE p = i
    <3>1. list'[LinesBefore(p) + 1] = x
      BY <1>2, <1>12, <2>3
    <3> QED BY <1>6, <1>11, <2>1, <2>3, <3>1
  <2>4. p \in Nat /\ (p < i \/ p = i)
    BY <1>2, <1>5, <1>7, <1>13, <1>4
  <2> QED BY <2>2, <2>3, <2>4
<1>14. LinesSoFar'
  <2>1. Len(list') = LinesBefore(i)'
    <3>1. LinesBefore(i)' = LinesBefore(i')
      BY <1>9 DEF LinesBefore
    <3> QED BY <1>2, <1>8, <1>12, <3>1
  <2>2. (i = 0 \/ i >= size \/ At(i - 1) = Newline)'
    BY <1>1, <1>4, <1>9 DEF At
  <2>3. (\A p \in Starts : p < i => LineParsed(p))'
    BY <1>9, <1>13
  <2> QED BY <1>1, <1>2, <2>1, <2>2, <2>3 DEF LinesSoFar
<1>15. TypeOK'
  BY <1>1, <1>4, <1>12 DEF IndInv, TypeOK, IsSequence, IsHash, Hashed
<1> QED BY <1>1, <1>14, <1>15 DEF IndInv, LinesParsed, HashesMade, ListSoFar

LEMMA ParsedStep == data \in Files /\ IndInv /\ Parsed => IndInv'
<1> SUFFICES ASSUME data \in Files, IndInv, Parsed PROVE IndInv'
  OBVIOUS
<1>1. /\ phase = "parse" /\ i >= size /\ phase' = "register" /\ i' = 0
      /\ UNCHANGED <<data, hash, list, h, num, ol, os, mask>>
  BY DEF Parsed
<1>2. size \in Nat /\ i \in Nat /\ Starts \subseteq Nat /\ list \in Seq([word : Strings \ {<<>>}, key : 0 .. 15])
  BY FileFacts, StartsFinite DEF IndInv, TypeOK
<1>3. \A p \in Starts : p < i
  BY <1>1, <1>2 DEF Starts
<1>4. {k \in Starts : k < i} = Starts
  BY <1>3
<1>5. LinesParsed'
  <2>1. Len(list) = Cardinality(Starts) /\ \A p \in Starts : LineParsed(p)
    BY <1>1, <1>3, <1>4 DEF IndInv, LinesSoFar, LinesBefore
  <2>2. Starts' = Starts /\ \A p : LineParsed(p)' = LineParsed(p)
    BY <1>1 DEF LineParsed, LinesBefore, EntryOf, Starts, size, At
  <2> QED BY <1>1, <2>1, <2>2 DEF LinesParsed
<1>6. TypeOK'
  BY <1>1 DEF IndInv, TypeOK, IsSequence, IsHash, Hashed
<1>7. HashesMade'
  <2>1. h' = <<>> /\ DOMAIN h' = {}
    BY <1>1 DEF IndInv, LinesSoFar
  <2>2. 0 <= Len(list) /\ 1 .. 0 = {}
    BY <1>2, LenProperties
  <2>3. {h'[k] : k \in DOMAIN h'} = {}
    BY <2>1
  <2>4. (UNION {Registers(list[m]) : m \in 1 .. i})' = {}
    BY <1>1, <2>2
  <2> QED BY <1>1, <2>2, <2>3, <2>4 DEF HashesMade
<1> QED BY <1>1, <1>5, <1>6, <1>7 DEF IndInv, LinesSoFar, ListSoFar

-----------------------------------------------------------------------------
(* The hashes                                                              *)

Made == {Hashed(s, f) : s \in Strings \ {<<>>}, f \in 0 .. 15}

Elements(s) == {s[k] : k \in DOMAIN s}

LEMMA HashOfString ==
  ASSUME NEW s \in Strings \ {<<>>}, NEW f \in 0 .. 15
  PROVE  Hashed(s, f) \in Made /\ IsHash(Hashed(s, f)) /\ Hashed(s, f).word = s /\ Hashed(s, f).f = f
BY DEF Made, IsHash, Hashed

LEMMA MadeFacts ==
  ASSUME NEW x, x \in Made
  PROVE  IsHash(x) /\ x.word \in Strings /\ x.word # <<>> /\ x.f \in 0 .. 15
<1>1. PICK s \in Strings \ {<<>>}, f \in 0 .. 15 : x = Hashed(s, f)
  BY DEF Made
<1> QED BY <1>1, HashOfString

LEMMA HashesTyped ==
  ASSUME NEW s
  PROVE  s \in Seq(Made) <=> IsSequence(s) /\ \A k \in DOMAIN s : IsHash(s[k])
<1>1. ASSUME s \in Seq(Made) PROVE IsSequence(s) /\ \A k \in DOMAIN s : IsHash(s[k])
  <2>1. Len(s) \in Nat /\ s \in [1 .. Len(s) -> Made] /\ DOMAIN s = 1 .. Len(s)
    BY <1>1, LenProperties
  <2>2. s \in [1 .. Len(s) -> {s[k] : k \in DOMAIN s}]
    BY <2>1
  <2>3. IsSequence(s)
    BY <2>1, <2>2 DEF IsSequence
  <2> QED BY <2>1, <2>3, MadeFacts
<1>2. ASSUME IsSequence(s), \A k \in DOMAIN s : IsHash(s[k]) PROVE s \in Seq(Made)
  <2>1. \A k \in DOMAIN s : s[k] \in Made
    BY <1>2 DEF IsHash, Made
  <2>2. {s[k] : k \in DOMAIN s} \subseteq Made
    BY <2>1
  <2> QED BY <1>2, <2>2, SeqMonotonic DEF IsSequence
<1> QED BY <1>1, <1>2

\* The prefixes of a word that are registered are strings like others.
LEMMA PrefixFacts ==
  ASSUME NEW w \in Strings, NEW q \in 1 .. (Len(w) - 1) \div CHUNK
  PROVE  /\ q * CHUNK \in Nat /\ 0 < q * CHUNK /\ q * CHUNK < Len(w) /\ Len(w) \in Nat
         /\ SubSeq(w, 1, q * CHUNK) \in Strings \ {<<>>}
         /\ Len(SubSeq(w, 1, q * CHUNK)) = q * CHUNK
<1>1. w \in Seq(DOMAIN Low)
  BY StringsAssumption
<1>2. Len(w) \in Nat /\ CHUNK \in Nat \ {0}
  BY <1>1, LenProperties, ChunkAssumption
<1>3. (Len(w) - 1) \div CHUNK \in Int
  BY <1>2
<1>4. q * CHUNK <= Len(w) - 1
  BY <1>2, <1>3, MultipleWithin
<1>5. q * CHUNK \in Nat /\ 0 < q * CHUNK
  BY <1>2, <1>3
<1>6. q * CHUNK \in 1 .. Len(w)
  BY <1>2, <1>4, <1>5
<1>7. SubSeq(w, 1, q * CHUNK) \in Strings
  BY <1>6, StringsAssumption
<1> DEFINE e == q * CHUNK
<1>8. Len(SubSeq(w, 1, e)) = e
  <2>1. \A k \in 1 .. e : w[k] \in DOMAIN Low
    BY <1>1, <1>2, <1>6, ElementOfSeq
  <2>2. e \in Int /\ 1 <= e /\ e - 1 + 1 = e
    BY <1>5
  <2> HIDE DEF e
  <2> QED BY <2>1, <2>2, SubSeqProperties
<1>9. Len(<<>>) = 0
  BY EmptySeq
<1> QED BY <1>2, <1>4, <1>5, <1>7, <1>8, <1>9

\* The prefixes, longest first.
LEMMA PrefixesMade ==
  ASSUME NEW w \in Strings, w # <<>>
  PROVE  LET n == (Len(w) - 1) \div CHUNK
         IN  /\ n \in Nat /\ ChunkPrefixes(w) \in Seq(Made) /\ Len(ChunkPrefixes(w)) = n
             /\ \A m \in 1 .. n : n - m + 1 \in 1 .. n /\ n - (n - m + 1) + 1 = m
             /\ \A m \in 1 .. n : ChunkPrefixes(w)[m] = Hashed(SubSeq(w, 1, (n - m + 1) * CHUNK), 15)
<1> DEFINE n == (Len(w) - 1) \div CHUNK
           P(q) == Hashed(SubSeq(w, 1, q * CHUNK), 15)
           a == ChunkPrefixes(w)
<1>2. n \in Nat
  <2>1. w \in Seq(DOMAIN Low)
    BY StringsAssumption
  <2>2. Len(w) - 1 \in Nat
    BY <2>1, EmptySeq
  <2> QED BY <2>2, ChunkAssumption
<1>3. ASSUME NEW q \in 1 .. n PROVE P(q) \in Made
  <2>1. SubSeq(w, 1, q * CHUNK) \in Strings \ {<<>>} /\ 15 \in 0 .. 15
    BY <1>3, PrefixFacts
  <2> QED BY <2>1, HashOfString
<1>4. a = [m \in 1 .. n |-> P(n - m + 1)]
  BY DEF ChunkPrefixes
<1> HIDE DEF P, a, n
<1>6. \A m \in 1 .. n : n - m + 1 \in 1 .. n /\ n - (n - m + 1) + 1 = m
  BY <1>2
<1>7. a \in [1 .. n -> Made] /\ DOMAIN a = 1 .. n /\ \A m \in 1 .. n : a[m] = P(n - m + 1)
  BY <1>3, <1>4, <1>6
<1>8. a \in Seq(Made) /\ Len(a) = n
  <2>1. a \in Seq(Made)
    BY <1>2, <1>7
  <2>2. DOMAIN a = 1 .. Len(a) /\ Len(a) \in Nat
    BY <2>1, LenProperties
  <2> QED BY <1>2, <1>7, <2>1, <2>2
<1>9. n \in Nat /\ a \in Seq(Made) /\ Len(a) = n /\ \A m \in 1 .. n : a[m] = P(n - m + 1)
  BY <1>2, <1>7, <1>8
<1> QED BY ONLY <1>6, <1>9 DEF a, n, P

\* What one entry adds.
LEMMA AddedHashes ==
  ASSUME NEW x \in [word : Strings \ {<<>>}, key : 0 .. 15],
         NEW c, c = ChunkPrefixes(x.word) \o <<Hashed(x.word, x.key)>>
  PROVE  c \in Seq(Made) /\ Elements(c) = Registers(x)
<1> DEFINE w == x.word
           n == (Len(w) - 1) \div CHUNK
           P(q) == Hashed(SubSeq(w, 1, q * CHUNK), 15)
           a == ChunkPrefixes(w)
           b == <<Hashed(w, x.key)>>
<1>1. w \in Strings /\ w # <<>> /\ x.key \in 0 .. 15
  OBVIOUS
<1>2. /\ n \in Nat /\ a \in Seq(Made) /\ Len(a) = n
      /\ \A m \in 1 .. n : n - m + 1 \in 1 .. n /\ n - (n - m + 1) + 1 = m
      /\ \A m \in 1 .. n : a[m] = P(n - m + 1)
  BY <1>1, PrefixesMade
<1>5. Hashed(w, x.key) \in Made
  BY <1>1, HashOfString
<1> HIDE DEF P, a, n, w
<1>9. b \in Seq(Made) /\ Len(b) = 1 /\ b[1] = Hashed(w, x.key)
  BY <1>5
<1>10. c = a \o b
  BY DEF a, w
<1> HIDE DEF b
<1>11. /\ c \in Seq(Made) /\ Len(c) = n + 1
       /\ \A k \in 1 .. n + 1 : c[k] = IF k <= n THEN a[k] ELSE b[k - n]
  <2>1. /\ a \o b \in Seq(Made) /\ Len(a \o b) = Len(a) + Len(b)
        /\ \A k \in 1 .. Len(a) + Len(b) : (a \o b)[k] = IF k <= Len(a) THEN a[k] ELSE b[k - Len(a)]
    <3>1. a \in Seq(Made) /\ b \in Seq(Made)
      BY <1>2, <1>9
    <3> QED BY ONLY <3>1, ConcatProperties
  <2> QED BY <1>2, <1>9, <1>10, <2>1
<1>12. DOMAIN c = 1 .. n + 1
  BY <1>11, LenProperties
<1>13. (\A k \in 1 .. n : c[k] = P(n - k + 1)) /\ c[n + 1] = Hashed(w, x.key)
  <2>1. \A k \in 1 .. n : k \in 1 .. n + 1 /\ k <= n
    BY <1>2
  <2>2. n + 1 \in 1 .. n + 1 /\ ~ (n + 1 <= n) /\ n + 1 - n = 1
    BY <1>2
  <2>3. \A m \in 1 .. n : a[m] = P(n - m + 1)
    BY <1>2
  <2>4. c[n + 1] = b[1]
    <3>1. \A k \in 1 .. n + 1 : ~ (k <= n) => c[k] = b[k - n]
      BY <1>11
    <3> QED BY ONLY <1>2, <2>2, <3>1
  <2>5. ASSUME NEW k \in 1 .. n PROVE c[k] = P(n - k + 1)
    BY <1>11, <2>1, <2>3
  <2> QED BY <1>9, <2>4, <2>5
<1>14. Registers(x) = {Hashed(w, x.key)} \union {P(q) : q \in 1 .. n}
  BY DEF Registers, P, n, w
<1>15. Elements(c) = Registers(x)
  <2>1. \A k \in DOMAIN c : k \in 1 .. n \/ k = n + 1
    BY <1>2, <1>12
  <2>2. ASSUME NEW k \in DOMAIN c PROVE c[k] \in Registers(x)
    BY <1>2, <1>13, <1>14, <2>1
  <2>3. ASSUME NEW y \in Registers(x) PROVE \E k \in DOMAIN c : c[k] = y
    <3>1. CASE y = Hashed(w, x.key)
      <4>1. n + 1 \in DOMAIN c
        BY <1>2, <1>12
      <4> QED BY <1>13, <3>1, <4>1
    <3>2. ASSUME NEW q \in 1 .. n, y = P(q) PROVE \E k \in DOMAIN c : c[k] = y
      <4>1. n - q + 1 \in 1 .. n /\ n - (n - q + 1) + 1 = q
        BY <1>2
      <4>2. c[n - q + 1] = P(q)
        BY <1>13, <4>1
      <4>3. n - q + 1 \in DOMAIN c
        BY <1>2, <1>12, <4>1
      <4> QED BY <3>2, <4>2, <4>3
    <3> QED BY <1>14, <3>1, <3>2
  <2> QED BY <2>2, <2>3 DEF Elements
<1> QED BY <1>11, <1>15

LEMMA ConcatRange ==
  ASSUME NEW S, NEW s \in Seq(S), NEW t \in Seq(S)
  PROVE  Elements(s \o t) = Elements(s) \union Elements(t)
<1> DEFINE m == Len(s)
           n == Len(t)
           u == s \o t
<1>1. m \in Nat /\ n \in Nat /\ DOMAIN s = 1 .. m /\ DOMAIN t = 1 .. n
  BY LenProperties
<1>2. u \in Seq(S) /\ Len(u) = m + n /\ \A k \in 1 .. m + n : u[k] = IF k <= m THEN s[k] ELSE t[k - m]
  BY ConcatProperties
<1>3. DOMAIN u = 1 .. m + n
  BY <1>2, LenProperties
<1> HIDE DEF m, n, u
<1>4. \A k \in 1 .. m : k \in 1 .. m + n /\ u[k] = s[k]
  BY <1>1, <1>2
<1>5. \A k \in 1 .. n : m + k \in 1 .. m + n /\ u[m + k] = t[k]
  <2>1. ASSUME NEW k \in 1 .. n PROVE m + k \in 1 .. m + n /\ u[m + k] = t[k]
    <3>1. m + k \in 1 .. m + n /\ ~ (m + k <= m) /\ m + k - m = k
      BY <1>1
    <3>2. \A l \in 1 .. m + n : ~ (l <= m) => u[l] = t[l - m]
      BY <1>2
    <3> QED BY ONLY <1>1, <3>1, <3>2
  <2> QED BY <2>1
<1>6. \A k \in 1 .. m + n : k \in 1 .. m \/ (k - m \in 1 .. n /\ m + (k - m) = k)
  BY <1>1
<1>7. ASSUME NEW y \in Elements(u) PROVE y \in Elements(s) \union Elements(t)
  <2>1. PICK k \in 1 .. m + n : y = u[k]
    BY <1>3 DEF Elements
  <2>2. CASE k \in 1 .. m
    BY <1>1, <1>4, <2>1, <2>2 DEF Elements
  <2>3. CASE k - m \in 1 .. n /\ m + (k - m) = k
    BY <1>1, <1>5, <2>1, <2>3 DEF Elements
  <2> QED BY <1>6, <2>2, <2>3
<1>8. ASSUME NEW y \in Elements(s) \union Elements(t) PROVE y \in Elements(u)
  BY <1>1, <1>3, <1>4, <1>5 DEF Elements
<1> QED BY <1>7, <1>8 DEF u

LEMMA RegisterWordStep == data \in Files /\ IndInv /\ RegisterWord => IndInv'
<1> SUFFICES ASSUME data \in Files, IndInv, RegisterWord PROVE IndInv'
  OBVIOUS
<1> DEFINE x == list[i + 1]
           c == ChunkPrefixes(x.word) \o <<Hashed(x.word, x.key)>>
           Item == [word : Strings \ {<<>>}, key : 0 .. 15]
<1>1. /\ phase = "register" /\ i < Len(list) /\ i' = i + 1
      /\ h' = h \o ChunkPrefixes(x.word) \o <<Hashed(x.word, x.key)>>
      /\ mask' = mask \union {x.key}
      /\ UNCHANGED <<data, hash, phase, list, num, ol, os>>
  BY DEF RegisterWord
<1>2. i \in Nat /\ list \in Seq(Item) /\ Len(list) \in Nat /\ DOMAIN list = 1 .. Len(list) /\ mask \subseteq 0 .. 15
  <2>1. list \in Seq(Item)
    BY DEF IndInv, TypeOK
  <2> QED BY <2>1, LenProperties DEF IndInv, TypeOK
<1>3. x \in Item /\ x.word \in Strings /\ x.word # <<>> /\ x.key \in 0 .. 15
  <2>1. i + 1 \in 1 .. Len(list)
    BY <1>1, <1>2
  <2>2. x \in Item
    BY <1>2, <2>1, ElementOfSeq
  <2> QED BY <2>2
<1>4. h \in Seq(Made)
  BY HashesTyped DEF IndInv, TypeOK
<1>5. c \in Seq(Made) /\ Elements(c) = Registers(x)
  BY <1>3, AddedHashes
<1>6. h' = h \o c
  <2>1. ChunkPrefixes(x.word) \in Seq(Made) /\ <<Hashed(x.word, x.key)>> \in Seq(Made)
    <3>1. Hashed(x.word, x.key) \in Made
      BY <1>3, HashOfString
    <3> QED BY <1>3, <3>1, PrefixesMade
  <2> HIDE DEF x
  <2> QED BY <1>1, <1>4, <2>1, ConcatAssociative
<1> HIDE DEF c, x
<1>7. h' \in Seq(Made)
  BY <1>4, <1>5, <1>6, ConcatProperties
<1>8. Elements(h') = Elements(h) \union Registers(x)
  <2>1. Elements(h \o c) = Elements(h) \union Elements(c)
    BY <1>4, <1>5, ConcatRange
  <2> QED BY <1>5, <1>6, <2>1
<1>9. TypeOK'
  <2>1. IsSequence(h') /\ \A k \in DOMAIN h' : IsHash(h'[k])
    BY <1>7, HashesTyped
  <2>2. IsSequence(h)' /\ (\A k \in DOMAIN h : IsHash(h[k]))'
    BY <1>1, <2>1 DEF IsSequence, IsHash, Hashed
  <2>3. mask' \subseteq 0 .. 15
    BY <1>1, <1>2, <1>3
  <2> QED BY <1>1, <1>2, <2>2, <2>3 DEF IndInv, TypeOK
<1>10. LinesParsed'
  <2>1. Starts' = Starts /\ \A p : LineParsed(p)' = LineParsed(p)
    BY <1>1 DEF LineParsed, LinesBefore, EntryOf, Starts, size, At
  <2> QED BY <1>1, <2>1 DEF IndInv, LinesParsed
<1>11. HashesMade'
  <2>1. Elements(h) = UNION {Registers(list[m]) : m \in 1 .. i}
    BY <1>1 DEF IndInv, HashesMade, Elements
  <2>2. \A m : m \in 1 .. i + 1 <=> m \in 1 .. i \/ m = i + 1
    BY <1>2
  <2>3. Elements(h') = UNION {Registers(list[m]) : m \in 1 .. i + 1}
    <3>1. ASSUME NEW y PROVE y \in Elements(h') <=> \E m \in 1 .. i + 1 : y \in Registers(list[m])
      <4>1. y \in Elements(h) <=> \E m \in 1 .. i : y \in Registers(list[m])
        BY <2>1
      <4>2. y \in Registers(x) <=> y \in Registers(list[i + 1])
        BY DEF x
      <4> QED BY ONLY <1>8, <2>2, <4>1, <4>2
    <3> QED BY <3>1
  <2>4. \A z : Registers(z)' = Registers(z)
    BY <1>1 DEF Registers, Hashed
  <2>5. i' <= Len(list')
    BY <1>1, <1>2
  <2>6. {h'[k] : k \in DOMAIN h'} = UNION {Registers(list[m]) : m \in 1 .. i + 1}
    BY <2>3 DEF Elements
  <2>7. (UNION {Registers(list[m]) : m \in 1 .. i})' = UNION {Registers(list[m]) : m \in 1 .. i + 1}
    BY <1>1 DEF Registers, Hashed
  <2> QED BY <1>1, <2>5, <2>6, <2>7 DEF HashesMade
<1> QED BY <1>1, <1>9, <1>10, <1>11 DEF IndInv, LinesSoFar, ListSoFar

LEMMA RegisteringStep == IndInv /\ Registering => IndInv'
<1> SUFFICES ASSUME IndInv, Registering PROVE IndInv'
  OBVIOUS
<1>1. /\ phase = "register" /\ i >= Len(list) /\ phase' = "sort" /\ i' = 0
      /\ UNCHANGED <<data, hash, list, h, num, ol, os, mask>>
  BY DEF Registering
<1>2. TypeOK'
  BY <1>1 DEF IndInv, TypeOK, IsSequence, IsHash, Hashed
<1>3. LinesParsed'
  <2>1. Starts' = Starts /\ \A p : LineParsed(p)' = LineParsed(p)
    BY <1>1 DEF LineParsed, LinesBefore, EntryOf, Starts, size, At
  <2> QED BY <1>1, <2>1 DEF IndInv, LinesParsed
<1>4. HashesMade'
  <2>1. i \in Nat /\ Len(list) \in Nat /\ DOMAIN list = 1 .. Len(list)
    <3>1. list \in Seq([word : Strings \ {<<>>}, key : 0 .. 15])
      BY DEF IndInv, TypeOK
    <3> QED BY <3>1, LenProperties DEF IndInv, TypeOK
  <2>2. i <= Len(list)
    BY <1>1 DEF IndInv, HashesMade
  <2>3. 1 .. i = DOMAIN list
    <3>1. i >= Len(list) /\ i \in Int /\ Len(list) \in Int
      BY <1>1, <2>1
    <3>2. i = Len(list)
      BY ONLY <2>2, <3>1
    <3> QED BY <2>1, <3>2
  <2>4. {h[k] : k \in DOMAIN h} = UNION {Registers(list[m]) : m \in DOMAIN list}
    BY <1>1, <2>3 DEF IndInv, HashesMade
  <2>5. (UNION {Registers(list[m]) : m \in DOMAIN list})' = UNION {Registers(list[m]) : m \in DOMAIN list}
    BY <1>1 DEF Registers, Hashed
  <2> QED BY <1>1, <2>4, <2>5 DEF HashesMade
<1> QED BY <1>1, <1>2, <1>3, <1>4 DEF IndInv, LinesSoFar, ListSoFar

-----------------------------------------------------------------------------
(* The order                                                               *)

\* A[k] is what is ahead of k in an order of n places; r are the ranks.
OrdersPlaces(A, n) ==
  /\ A \in [1 .. n -> SUBSET (1 .. n)]
  /\ \A k \in 1 .. n : k \notin A[k]
  /\ \A m, k \in 1 .. n : m \in A[k] => A[m] \subseteq A[k]
  /\ \A m, k \in 1 .. n : m # k => m \in A[k] \/ k \in A[m]

RanksPlaces(r, A, n) == r \in [1 .. n -> Nat] /\ \A k \in 1 .. n : r[k] = Cardinality(A[k]) + 1

\* Places that are ordered have ranks, each its own.
LEMMA Ranks ==
  ASSUME NEW n \in Nat, NEW A, OrdersPlaces(A, n), NEW r, RanksPlaces(r, A, n)
  PROVE  /\ \A k \in 1 .. n : r[k] \in 1 .. n
         /\ \A m, k \in 1 .. n : m \in A[k] => r[m] < r[k]
         /\ \A m, k \in 1 .. n : r[m] = r[k] => m = k
         /\ \A l \in 1 .. n : \E k \in 1 .. n : r[k] = l
<1> USE DEF OrdersPlaces, RanksPlaces
<1>1. IsFiniteSet(1 .. n) /\ Cardinality(1 .. n) = n
  BY FS_Interval
<1>2. ASSUME NEW k \in 1 .. n
      PROVE  /\ IsFiniteSet(A[k]) /\ Cardinality(A[k]) \in Nat /\ Cardinality(A[k]) <= n - 1
             /\ r[k] = Cardinality(A[k]) + 1 /\ r[k] \in 1 .. n
  <2>1. A[k] \in SUBSET ((1 .. n) \ {k})
    OBVIOUS
  <2>2. IsFiniteSet((1 .. n) \ {k}) /\ Cardinality((1 .. n) \ {k}) = n - 1
    BY <1>1, FS_RemoveElement
  <2>3. IsFiniteSet(A[k]) /\ Cardinality(A[k]) <= n - 1
    BY <2>1, <2>2, FS_Subset
  <2>4. Cardinality(A[k]) \in Nat
    BY <2>3, FS_CardinalityType
  <2> QED BY <2>3, <2>4
<1>3. ASSUME NEW m \in 1 .. n, NEW k \in 1 .. n, m \in A[k] PROVE r[m] < r[k]
  <2>1. A[m] \union {m} \in SUBSET A[k]
    BY <1>3
  <2>2. Cardinality(A[m] \union {m}) = Cardinality(A[m]) + 1
    BY <1>2, FS_AddElement
  <2>3. Cardinality(A[m] \union {m}) <= Cardinality(A[k])
    BY <1>2, <2>1, FS_Subset
  <2> QED BY <1>2, <2>2, <2>3
<1>4. ASSUME NEW m \in 1 .. n, NEW k \in 1 .. n, r[m] = r[k] PROVE m = k
  <2>1. r[m] \in Int /\ r[k] \in Int
    BY <1>2
  <2>2. m \notin A[k] /\ k \notin A[m]
    BY <1>3, <1>4, <2>1
  <2> QED BY <2>2
<1>5. r \in [1 .. n -> 1 .. n]
  BY <1>2
<1>6. \A l \in 1 .. n : \E k \in 1 .. n : r[k] = l
  <2>1. \A x, y \in 1 .. n : r[x] = r[y] => x = y
    BY <1>4
  <2> DEFINE T == 1 .. n
  <2>2. IsFiniteSet(T) /\ Cardinality(T) = Cardinality(T) /\ r \in [T -> T] /\ \A x, y \in T : r[x] = r[y] => x = y
    BY <1>1, <1>5, <2>1
  <2> HIDE DEF T
  <2>3. \A l \in T : \E k \in T : r[k] = l
    BY ONLY <2>2, OneToOneIsOnto
  <2> QED BY <2>3 DEF T
<1> QED BY <1>2, <1>3, <1>4, <1>6

\* There are blocks if there are hashes, and each hash belongs to one.
LEMMA BlockFacts ==
  ASSUME IndInv, h # <<>>
  PROVE  /\ h \in Seq(Made) /\ Len(h) \in Nat \ {0} /\ DOMAIN h = 1 .. Len(h)
         /\ bcount \in Nat \ {0}
         /\ \A x \in Made : Block(x) \in 0 .. bcount - 1 /\ High(x) \in Nat /\ x.b \in Nat /\ x.f \in 0 .. 15
<1>1. h \in Seq(Made)
  BY HashesTyped DEF IndInv, TypeOK
<1>2. Len(h) \in Nat \ {0} /\ DOMAIN h = 1 .. Len(h)
  BY <1>1, LenProperties, EmptySeq
<1>3. bcount \in Nat \ {0}
  <2>1. BSIZE \in Nat \ {0}
    BY ListAssumption
  <2>2. 1 * BSIZE <= Len(h) + BSIZE - 1 /\ Len(h) + BSIZE - 1 \in Int
    BY <1>2, <2>1
  <2>3. 1 <= bcount
    BY <2>1, <2>2, MultipleWithin DEF bcount
  <2>4. bcount \in Int
    BY <2>1, <2>2 DEF bcount
  <2> QED BY <2>3, <2>4
<1>4. ASSUME NEW x \in Made
      PROVE Block(x) \in 0 .. bcount - 1 /\ High(x) \in Nat /\ x.b \in Nat /\ x.f \in 0 .. 15
  <2>1. IsHash(x)
    BY MadeFacts
  <2>2. hash \in DOMAIN Hashes
    BY DEF IndInv, TypeOK
  <2>3. x.a \in Nat /\ x.b \in Nat /\ x.f \in 0 .. 15
    BY <2>1, <2>2, HashAssumption DEF IsHash, Hashed
  <2>4. x.b \div 16 \in Nat
    BY <2>3
  <2>5. x.a % bcount \in 0 .. bcount - 1
    <3> HIDE DEF bcount
    <3>1. x.a \in Int
      BY <2>3
    <3> QED BY <1>3, <3>1, ModRange
  <2> QED BY <2>3, <2>4, <2>5 DEF Block, High
<1> QED BY <1>1, <1>2, <1>3, <1>4

\* Hashes are in order by block, by the high bits and by key.
LEMMA BeforeOrder ==
  ASSUME IndInv, h # <<>>
  PROVE  /\ \A x \in Made : ~ Before(x, x)
         /\ \A x, y, z \in Made : Before(x, y) /\ Before(y, z) => Before(x, z)
         /\ \A x, y, z \in Made : ~ Before(x, y) /\ ~ Before(y, z) => ~ Before(x, z)
<1>1. \A x \in Made : Block(x) \in Int /\ High(x) \in Int /\ x.f \in Int
  <2>1. bcount \in Int
    BY BlockFacts
  <2>2. \A x \in Made : Block(x) \in 0 .. bcount - 1 /\ High(x) \in Nat /\ x.f \in 0 .. 15
    BY BlockFacts
  <2> QED BY <2>1, <2>2
<1> QED BY <1>1 DEF Before

\* Sorting changes the places of the hashes only, and puts them in order.
LEMMA SortedFacts ==
  ASSUME IndInv, h # <<>>
  PROVE  /\ Sorted(h) \in Seq(Made) /\ Len(Sorted(h)) = Len(h)
         /\ Elements(Sorted(h)) = Elements(h)
         /\ \A m, n \in DOMAIN Sorted(h) : m < n => ~ Before(Sorted(h)[n], Sorted(h)[m])
<1> DEFINE c == Len(h)
           A == [k \in 1 .. c |-> Ahead(h, k)]
           r == [k \in 1 .. c |-> Cardinality(A[k]) + 1]
           at == [n \in 1 .. c |-> CHOOSE k \in 1 .. c : r[k] = n]
           t == Sorted(h)
<1>1. h \in Seq(Made) /\ c \in Nat \ {0} /\ DOMAIN h = 1 .. c
  BY BlockFacts
<1>2. \A k \in 1 .. c : h[k] \in Made
  BY <1>1, ElementOfSeq
<1>3. \A m, k \in 1 .. c : m \in A[k] <=> Before(h[m], h[k]) \/ (~ Before(h[k], h[m]) /\ m < k)
  BY <1>1 DEF Ahead
<1>4. A \in [1 .. c -> SUBSET (1 .. c)]
  BY <1>1 DEF Ahead
<1>5. t = [n \in 1 .. c |-> h[at[n]]]
  <2>1. r = [k \in DOMAIN h |-> Cardinality(Ahead(h, k)) + 1]
    BY <1>1
  <2> HIDE DEF r
  <2>2. t = [n \in DOMAIN h |-> h[CHOOSE k \in DOMAIN h : r[k] = n]]
    BY <2>1 DEF Sorted
  <2> HIDE DEF t
  <2> QED BY <1>1, <2>2
<1>6. r \in [1 .. c -> Nat] /\ \A k \in 1 .. c : r[k] = Cardinality(A[k]) + 1
  <2>1. IsFiniteSet(1 .. c)
    BY <1>1, FS_Interval
  <2>2. \A k \in 1 .. c : Cardinality(A[k]) \in Nat
    BY <1>4, <2>1, FS_Subset, FS_CardinalityType
  <2> HIDE DEF A
  <2> QED BY <2>2
<1>7. \A n \in 1 .. c : at[n] = CHOOSE k \in 1 .. c : r[k] = n
  OBVIOUS
<1> HIDE DEF A, r, at, c
<1>8. \A k \in 1 .. c : k \notin A[k]
  BY <1>1, <1>2, <1>3, BeforeOrder
<1>9. \A m, k \in 1 .. c : m # k => m \in A[k] \/ k \in A[m]
  <2>1. \A m, k \in 1 .. c : m < k \/ m = k \/ k < m
    BY <1>1
  <2>2. \A x, y \in Made : ~ (Before(x, y) /\ Before(y, x))
    BY BeforeOrder
  <2> QED BY <1>2, <1>3, <2>1, <2>2
<1>10. \A m, k \in 1 .. c : m \in A[k] => A[m] \subseteq A[k]
  <2>1. ASSUME NEW m \in 1 .. c, NEW k \in 1 .. c, m \in A[k], NEW l \in A[m] PROVE l \in A[k]
    <3>1. l \in 1 .. c
      BY <1>4, <2>1
    <3>2. h[l] \in Made /\ h[m] \in Made /\ h[k] \in Made
      BY <1>2, <3>1
    <3>3. Before(h[m], h[k]) \/ (~ Before(h[k], h[m]) /\ m < k)
      BY <1>3, <2>1
    <3>4. Before(h[l], h[m]) \/ (~ Before(h[m], h[l]) /\ l < m)
      BY <1>3, <2>1, <3>1
    <3>5. l < m /\ m < k => l < k
      BY <1>1, <3>1
    <3>6. Before(h[l], h[k]) \/ (~ Before(h[k], h[l]) /\ l < k)
      BY <3>2, <3>3, <3>4, <3>5, BeforeOrder
    <3> QED BY <1>3, <3>1, <3>6
  <2> QED BY <2>1
<1>11. /\ \A k \in 1 .. c : r[k] \in 1 .. c
       /\ \A m, k \in 1 .. c : m \in A[k] => r[m] < r[k]
       /\ \A m, k \in 1 .. c : r[m] = r[k] => m = k
       /\ \A l \in 1 .. c : \E k \in 1 .. c : r[k] = l
  <2>1. c \in Nat
    BY <1>1
  <2>2. OrdersPlaces(A, c)
    BY <1>4, <1>8, <1>9, <1>10 DEF OrdersPlaces
  <2>3. RanksPlaces(r, A, c)
    BY <1>6 DEF RanksPlaces
  <2> QED BY ONLY <2>1, <2>2, <2>3, Ranks
<1>12. \A n \in 1 .. c : at[n] \in 1 .. c /\ r[at[n]] = n
  <2>1. \A l \in 1 .. c : \E k \in 1 .. c : r[k] = l
    BY <1>11
  <2> QED BY ONLY <1>7, <2>1
<1>13. \A k \in 1 .. c : at[r[k]] = k
  BY <1>11, <1>12
<1>14. t \in [1 .. c -> Made] /\ \A n \in 1 .. c : t[n] = h[at[n]]
  BY <1>2, <1>5, <1>12
<1> HIDE DEF t
<1>15. t \in Seq(Made) /\ Len(t) = c /\ DOMAIN t = 1 .. c
  <2>1. t \in Seq(Made) /\ DOMAIN t = 1 .. c
    BY <1>1, <1>14
  <2> QED BY <1>1, <2>1, LenProperties
<1>16. Elements(t) = Elements(h)
  <2>1. ASSUME NEW n \in 1 .. c PROVE t[n] \in Elements(h)
    BY <1>1, <1>12, <1>14 DEF Elements
  <2>2. ASSUME NEW k \in 1 .. c PROVE h[k] \in Elements(t)
    <3>1. r[k] \in 1 .. c /\ t[r[k]] = h[k]
      BY <1>11, <1>13, <1>14
    <3> QED BY <1>15, <3>1 DEF Elements
  <2>3. \A y \in Elements(t) : \E n \in 1 .. c : y = t[n]
    BY <1>15 DEF Elements
  <2>4. \A y \in Elements(h) : \E k \in 1 .. c : y = h[k]
    BY <1>1 DEF Elements
  <2> QED BY <2>1, <2>2, <2>3, <2>4
<1>17. ASSUME NEW m \in 1 .. c, NEW n \in 1 .. c, m < n PROVE ~ Before(t[n], t[m])
  <2>1. at[m] \in 1 .. c /\ at[n] \in 1 .. c /\ r[at[m]] = m /\ r[at[n]] = n
    BY <1>12
  <2>2. at[n] \notin A[at[m]]
    <3>1. ~ (n < m)
      BY <1>17, <1>1
    <3>2. at[n] \in A[at[m]] => r[at[n]] < r[at[m]]
      BY <1>11, <2>1
    <3> QED BY <2>1, <3>1, <3>2
  <2>3. ~ Before(h[at[n]], h[at[m]])
    BY <1>3, <2>1, <2>2
  <2> QED BY <1>14, <2>3
<1> QED BY <1>15, <1>16, <1>17 DEF t, c

LEMMA BcountNat ==
  ASSUME IndInv
  PROVE  h \in Seq(Made) /\ Len(h) \in Nat /\ DOMAIN h = 1 .. Len(h) /\ bcount \in Nat
<1>1. h \in Seq(Made)
  BY HashesTyped DEF IndInv, TypeOK
<1>2. Len(h) \in Nat /\ DOMAIN h = 1 .. Len(h)
  BY <1>1, LenProperties
<1>3. BSIZE \in Nat \ {0}
  BY ListAssumption
<1>4. Len(h) + BSIZE - 1 \in Nat
  BY <1>2, <1>3
<1> QED BY <1>1, <1>2, <1>3, <1>4 DEF bcount

LEMMA SortedAll ==
  ASSUME IndInv
  PROVE  /\ Sorted(h) \in Seq(Made) /\ Len(Sorted(h)) = Len(h)
         /\ Elements(Sorted(h)) = Elements(h)
         /\ \A m, n \in DOMAIN Sorted(h) : m < n => ~ Before(Sorted(h)[n], Sorted(h)[m])
<1>1. CASE h # <<>>
  BY <1>1, SortedFacts
<1>2. CASE h = <<>>
  <2>1. DOMAIN h = {} /\ Len(h) = 0
    BY <1>2, EmptySeq
  <2>2. DOMAIN Sorted(h) = {} /\ Sorted(h) \in [1 .. 0 -> Made]
    BY <2>1 DEF Sorted
  <2>3. Sorted(h) \in Seq(Made)
    BY <2>2
  <2>4. DOMAIN Sorted(h) = 1 .. Len(Sorted(h)) /\ Len(Sorted(h)) \in Nat
    BY <2>3, LenProperties
  <2>5. Len(Sorted(h)) = 0
    BY <2>2, <2>4
  <2>6. Elements(Sorted(h)) = {} /\ Elements(h) = {}
    BY <2>1, <2>2 DEF Elements
  <2> QED BY <2>1, <2>2, <2>3, <2>5, <2>6
<1> QED BY <1>1, <1>2

LEMMA SortStep == IndInv /\ Sort => IndInv'
<1> SUFFICES ASSUME IndInv, Sort PROVE IndInv'
  OBVIOUS
<1>1. /\ phase = "sort" /\ phase' = "store" /\ i' = 0
      /\ h' = Sorted(h) /\ ol' = [k \in 1 .. bcount |-> None]
      /\ UNCHANGED <<data, hash, list, num, os, mask>>
  BY DEF Sort
<1>2. /\ h' \in Seq(Made) /\ Len(h') = Len(h) /\ Elements(h') = Elements(h)
      /\ \A m, n \in DOMAIN h' : m < n => ~ Before(h'[n], h'[m])
  BY <1>1, SortedAll
<1>3. h \in Seq(Made) /\ Len(h) \in Nat /\ bcount \in Nat
  BY BcountNat
<1>4. bcount' = bcount /\ \A x, y : Before(x, y)' <=> Before(x, y)
  <2>1. bcount' = bcount
    BY <1>2 DEF bcount
  <2> QED BY <2>1 DEF Before, Block, High
<1>5. TypeOK'
  <2>1. IsSequence(h') /\ \A k \in DOMAIN h' : IsHash(h'[k])
    BY <1>2, HashesTyped
  <2>2. IsSequence(h)' /\ (\A k \in DOMAIN h : IsHash(h[k]))'
    BY <1>1, <2>1 DEF IsSequence, IsHash, Hashed
  <2> QED BY <1>1, <2>2 DEF IndInv, TypeOK
<1>6. LinesParsed'
  <2>1. Starts' = Starts /\ \A p : LineParsed(p)' = LineParsed(p)
    BY <1>1 DEF LineParsed, LinesBefore, EntryOf, Starts, size, At
  <2> QED BY <1>1, <2>1 DEF IndInv, LinesParsed
<1>7. HashesMade'
  <2>1. Elements(h) = UNION {Registers(list[m]) : m \in DOMAIN list}
    BY <1>1 DEF IndInv, HashesMade, Elements
  <2>2. (UNION {Registers(list[m]) : m \in DOMAIN list})' = UNION {Registers(list[m]) : m \in DOMAIN list}
    BY <1>1 DEF Registers, Hashed
  <2>3. {h'[k] : k \in DOMAIN h'} = (UNION {Registers(list[m]) : m \in DOMAIN list})'
    BY <1>2, <2>1, <2>2 DEF Elements
  <2>4. (\A m, n \in DOMAIN h : m < n => ~ Before(h[n], h[m]))'
    <3>1. ASSUME NEW m \in DOMAIN h', NEW n \in DOMAIN h', m < n PROVE ~ Before(h[n], h[m])'
      <4>1. ~ Before(h'[n], h'[m])
        BY <1>2, <3>1
      <4>2. Before(h[n], h[m])' <=> Before(h'[n], h'[m])
        BY <1>4 DEF Before, Block, High
      <4> QED BY <4>1, <4>2
    <3> QED BY <3>1
  <2> QED BY <1>1, <2>3, <2>4 DEF HashesMade
<1>8. ListSoFar'
  <2>1. num = -1 /\ os = <<>>
    BY <1>1 DEF IndInv, ListSoFar
  <2>2. Firsts(0)' = {} /\ Cardinality({}) = 0 /\ <<>> \in Seq(Nat) /\ Len(<<>>) = 0
    <3>1. 1 .. 0 = {}
      OBVIOUS
    <3> QED BY <3>1, FS_EmptySet, EmptySeq DEF Firsts
  <2>3. Firsts(i)' = {}
    BY <1>1, <2>2 DEF Firsts
  <2>4. (\A l \in Firsts(i) : os[Cardinality(Firsts(l))] = Entry(h[l]))'
    BY <2>3
  <2>5. os' \in Seq(Nat) /\ Len(os') = Cardinality(Firsts(i)')
    BY <1>1, <2>1, <2>2, <2>3
  <2>6. (DOMAIN ol = 1 .. bcount)'
    BY <1>1, <1>4
  <2>7. (\A k \in 1 .. bcount : ol[k] = IF k - 1 > num THEN None
                                        ELSE Header(HeaderWords + InFront(i, k - 1), Own(i, k - 1)))'
    <3>1. ASSUME NEW k \in 1 .. bcount PROVE k - 1 > -1 /\ ol'[k] = None
      BY <1>1, <1>3, <3>1
    <3> QED BY <1>1, <1>4, <2>1, <3>1
  <2>8. i' <= Len(h') /\ num' = -1
    BY <1>1, <1>2, <1>3, <2>1
  <2> QED BY <1>1, <2>4, <2>5, <2>6, <2>7, <2>8 DEF ListSoFar
<1> QED BY <1>1, <1>5, <1>6, <1>7, <1>8 DEF IndInv, LinesSoFar

-----------------------------------------------------------------------------
(* The list                                                                *)

\* Two hashes are of one string if their bs agree, or their high bits alone.
LEMMA SameString ==
  ASSUME IndInv, NEW x \in Made, NEW y \in Made
  PROVE  /\ High(x) = High(y) <=> x.word = y.word
         /\ x.a = y.a /\ x.b = y.b <=> x.word = y.word
         /\ x.word = y.word => Block(x) = Block(y)
<1>1. hash \in DOMAIN Hashes
  BY DEF IndInv, TypeOK
<1>2. /\ x.word \in Strings /\ x.a = Hashes[hash].a[x.word] /\ x.b = Hashes[hash].b[x.word]
      /\ y.word \in Strings /\ y.a = Hashes[hash].a[y.word] /\ y.b = Hashes[hash].b[y.word]
  BY MadeFacts DEF IsHash, Hashed
<1>3. Hashes[hash].b[x.word] \div 16 = Hashes[hash].b[y.word] \div 16 => x.word = y.word
  BY <1>1, <1>2, HashAssumption
<1> QED BY <1>2, <1>3 DEF High, Block

LEMMA FirstsFacts ==
  ASSUME IndInv, NEW n \in 0 .. Len(h)
  PROVE  /\ Firsts(n) \subseteq 1 .. n /\ IsFiniteSet(Firsts(n)) /\ Cardinality(Firsts(n)) \in Nat
         /\ \A l \in Firsts(n) : l \in Nat /\ l \in 1 .. n /\ l \in 1 .. Len(h) /\ h[l] \in Made
         /\ \A b : IsFiniteSet({l \in Firsts(n) : Block(h[l]) = b}) /\ Own(n, b) \in Nat
         /\ \A b : IsFiniteSet({l \in Firsts(n) : Block(h[l]) < b}) /\ InFront(n, b) \in Nat
<1>1. h \in Seq(Made) /\ Len(h) \in Nat
  BY BcountNat
<1>2. n \in Nat /\ IsFiniteSet(1 .. n)
  BY <1>1, FS_Interval
<1>3. Firsts(n) \in SUBSET (1 .. n)
  BY DEF Firsts
<1>4. IsFiniteSet(Firsts(n))
  BY <1>2, <1>3, FS_Subset
<1>5. ASSUME NEW l \in Firsts(n) PROVE l \in Nat /\ l \in 1 .. n /\ l \in 1 .. Len(h) /\ h[l] \in Made
  <2>1. l \in 1 .. n /\ l \in 1 .. Len(h)
    BY <1>1, <1>3
  <2> QED BY <1>1, <2>1, ElementOfSeq
<1>6. ASSUME NEW b
      PROVE  /\ IsFiniteSet({l \in Firsts(n) : Block(h[l]) = b}) /\ Own(n, b) \in Nat
             /\ IsFiniteSet({l \in Firsts(n) : Block(h[l]) < b}) /\ InFront(n, b) \in Nat
  <2>1. /\ {l \in Firsts(n) : Block(h[l]) = b} \in SUBSET Firsts(n)
        /\ {l \in Firsts(n) : Block(h[l]) < b} \in SUBSET Firsts(n)
    OBVIOUS
  <2>2. IsFiniteSet({l \in Firsts(n) : Block(h[l]) = b}) /\ IsFiniteSet({l \in Firsts(n) : Block(h[l]) < b})
    BY <1>4, <2>1, FS_Subset
  <2> QED BY <2>2, FS_CardinalityType DEF Own, InFront
<1> QED BY <1>3, <1>4, <1>5, <1>6, FS_CardinalityType

\* The next hash is a first one or it is not.
IsFirst(l) == l = 1 \/ h[l].word # h[l - 1].word

LEMMA NextFirst ==
  ASSUME NEW n \in Nat
  PROVE  IsFirst(n + 1) <=> n = 0 \/ h[n + 1].word # h[n].word
<1>1. n + 1 - 1 = n /\ (n + 1 = 1 <=> n = 0)
  OBVIOUS
<1> QED BY <1>1 DEF IsFirst

LEMMA FirstsStep ==
  ASSUME IndInv, NEW n \in 0 .. Len(h) - 1
  PROVE  /\ n + 1 \notin Firsts(n)
         /\ Firsts(n + 1) = IF IsFirst(n + 1) THEN Firsts(n) \union {n + 1} ELSE Firsts(n)
         /\ Cardinality(Firsts(n + 1)) = Cardinality(Firsts(n)) + (IF IsFirst(n + 1) THEN 1 ELSE 0)
<1>1. Len(h) \in Nat /\ n \in Nat /\ n \in 0 .. Len(h)
  BY BcountNat
<1>2. \A l : l \in 1 .. n + 1 <=> l \in 1 .. n \/ l = n + 1
  BY <1>1
<1>3. \A m, l : l \in Firsts(m) <=> l \in 1 .. m /\ IsFirst(l)
  BY DEF Firsts, IsFirst
<1>4. n + 1 \notin Firsts(n)
  BY <1>1, <1>3
<1>5. ASSUME IsFirst(n + 1) PROVE Firsts(n + 1) = Firsts(n) \union {n + 1}
  <2>1. \A l : l \in Firsts(n + 1) <=> l \in Firsts(n) \/ l = n + 1
    BY ONLY <1>2, <1>3, <1>5
  <2> QED BY <2>1
<1>6. ASSUME ~ IsFirst(n + 1) PROVE Firsts(n + 1) = Firsts(n)
  <2>1. \A l : l \in Firsts(n + 1) <=> l \in Firsts(n)
    BY ONLY <1>2, <1>3, <1>6
  <2> QED BY <2>1
<1>7. IsFiniteSet(Firsts(n)) /\ Cardinality(Firsts(n)) \in Nat
  BY <1>1, FirstsFacts
<1>8. Cardinality(Firsts(n) \union {n + 1}) = Cardinality(Firsts(n)) + 1
  BY <1>4, <1>7, FS_AddElement
<1>9. CASE IsFirst(n + 1)
  BY <1>4, <1>5, <1>8, <1>9
<1>10. CASE ~ IsFirst(n + 1)
  BY <1>4, <1>6, <1>7, <1>10
<1> QED BY <1>9, <1>10

\* It counts in its own block, and in front of those behind it.
LEMMA CountsStep ==
  ASSUME IndInv, NEW n \in 0 .. Len(h) - 1, IsFirst(n + 1), NEW b
  PROVE  /\ Own(n + 1, b) = Own(n, b) + (IF Block(h[n + 1]) = b THEN 1 ELSE 0)
         /\ InFront(n + 1, b) = InFront(n, b) + (IF Block(h[n + 1]) < b THEN 1 ELSE 0)
<1> DEFINE O(m) == {l \in Firsts(m) : Block(h[l]) = b}
           F(m) == {l \in Firsts(m) : Block(h[l]) < b}
<1>1. n \in 0 .. Len(h)
  BY BcountNat
<1>2. IsFiniteSet(O(n)) /\ IsFiniteSet(F(n)) /\ Own(n, b) \in Nat /\ InFront(n, b) \in Nat
  BY <1>1, FirstsFacts
<1>3. n + 1 \notin Firsts(n) /\ Firsts(n + 1) = Firsts(n) \union {n + 1}
  BY FirstsStep
<1>4. \A m : Own(m, b) = Cardinality(O(m)) /\ InFront(m, b) = Cardinality(F(m))
  BY DEF Own, InFront
<1>5. \A m, l : l \in O(m) <=> l \in Firsts(m) /\ Block(h[l]) = b
  OBVIOUS
<1>6. \A m, l : l \in F(m) <=> l \in Firsts(m) /\ Block(h[l]) < b
  OBVIOUS
<1> HIDE DEF O, F
<1>7. Own(n + 1, b) = Own(n, b) + (IF Block(h[n + 1]) = b THEN 1 ELSE 0)
  <2>1. CASE Block(h[n + 1]) = b
    <3>1. \A l : l \in O(n + 1) <=> l \in O(n) \union {n + 1}
      BY ONLY <1>3, <1>5, <2>1
    <3>2. O(n + 1) = O(n) \union {n + 1} /\ n + 1 \notin O(n)
      BY <1>3, <1>5, <3>1
    <3> QED BY <1>2, <1>4, <2>1, <3>2, FS_AddElement
  <2>2. CASE Block(h[n + 1]) # b
    <3>1. \A l : l \in O(n + 1) <=> l \in O(n)
      BY ONLY <1>3, <1>5, <2>2
    <3>2. O(n + 1) = O(n)
      BY <3>1
    <3> QED BY <1>2, <1>4, <2>2, <3>2
  <2> QED BY <2>1, <2>2
<1>8. InFront(n + 1, b) = InFront(n, b) + (IF Block(h[n + 1]) < b THEN 1 ELSE 0)
  <2>1. CASE Block(h[n + 1]) < b
    <3>1. \A l : l \in F(n + 1) <=> l \in F(n) \union {n + 1}
      BY ONLY <1>3, <1>6, <2>1
    <3>2. F(n + 1) = F(n) \union {n + 1} /\ n + 1 \notin F(n)
      BY <1>3, <1>6, <3>1
    <3> QED BY <1>2, <1>4, <2>1, <3>2, FS_AddElement
  <2>2. CASE ~ (Block(h[n + 1]) < b)
    <3>1. \A l : l \in F(n + 1) <=> l \in F(n)
      BY ONLY <1>3, <1>6, <2>2
    <3>2. F(n + 1) = F(n)
      BY <3>1
    <3> QED BY <1>2, <1>4, <2>2, <3>2
  <2> QED BY <2>1, <2>2
<1> QED BY <1>7, <1>8

\* The first ones are numbered.
LEMMA FirstsNumbered ==
  ASSUME IndInv, NEW n \in 0 .. Len(h), NEW l \in Firsts(n)
  PROVE  /\ Cardinality(Firsts(l)) = Under(Firsts(n), l) + 1
         /\ Cardinality(Firsts(l)) \in 1 .. Cardinality(Firsts(n))
<1>1. Len(h) \in Nat
  BY BcountNat
<1>2. /\ l \in Nat /\ l \in 1 .. n /\ l \in 1 .. Len(h) /\ IsFiniteSet(Firsts(n)) /\ Cardinality(Firsts(n)) \in Nat
      /\ \A k \in Firsts(n) : k \in Nat
  BY FirstsFacts
<1>3. \A m, k : k \in Firsts(m) <=> k \in 1 .. m /\ IsFirst(k)
  BY DEF Firsts, IsFirst
<1> DEFINE P == {k \in Firsts(n) : k < l}
<1>4. \A k : k \in Firsts(l) <=> k \in P \union {l}
  <2>1. \A k : k \in 1 .. l <=> (k \in 1 .. n /\ k < l) \/ k = l
    BY <1>1, <1>2
  <2>2. IsFirst(l)
    BY <1>3
  <2>3. \A k : k \in P <=> k \in Firsts(n) /\ k < l
    OBVIOUS
  <2> QED BY ONLY <1>3, <2>1, <2>2, <2>3
<1>5. IsFiniteSet(P) /\ Cardinality(P) \in Nat /\ Under(Firsts(n), l) = Cardinality(P)
  BY <1>2, UnderNat DEF Under
<1>6. l \notin P /\ P \in SUBSET Firsts(n)
  BY <1>2
<1> HIDE DEF P
<1>7. Firsts(l) = P \union {l}
  BY <1>4
<1>8. Cardinality(Firsts(l)) = Cardinality(P) + 1
  BY <1>5, <1>6, <1>7, FS_AddElement
<1>9. Firsts(l) \in SUBSET Firsts(n)
  BY <1>6, <1>7
<1>10. Cardinality(Firsts(l)) <= Cardinality(Firsts(n))
  BY <1>2, <1>9, FS_Subset
<1> QED BY <1>2, <1>5, <1>8, <1>10

\* Once the hashes are sorted, so are their blocks.
LEMMA BlocksInOrder ==
  ASSUME IndInv, phase \in {"store", "built"}
  PROVE  \A m, n \in 1 .. Len(h) :
           /\ Block(h[m]) \in Int /\ Block(h[m]) \in 0 .. bcount - 1 /\ High(h[m]) \in Int /\ h[m] \in Made
           /\ m < n => ~ Before(h[n], h[m]) /\ Block(h[m]) <= Block(h[n])
<1>1. h \in Seq(Made) /\ Len(h) \in Nat /\ DOMAIN h = 1 .. Len(h)
  BY BcountNat
<1>2. ASSUME NEW m \in 1 .. Len(h)
      PROVE  /\ Block(h[m]) \in Int /\ Block(h[m]) \in 0 .. bcount - 1 /\ High(h[m]) \in Int /\ h[m] \in Made
  <2>1. h[m] \in Made
    BY <1>1, ElementOfSeq
  <2>2. h # <<>>
    BY <1>1, EmptySeq
  <2>3. bcount \in Nat /\ Block(h[m]) \in 0 .. bcount - 1 /\ High(h[m]) \in Nat
    BY <2>1, <2>2, BlockFacts
  <2> QED BY <2>1, <2>3
<1>3. ASSUME NEW m \in 1 .. Len(h), NEW n \in 1 .. Len(h), m < n
      PROVE  ~ Before(h[n], h[m]) /\ Block(h[m]) <= Block(h[n])
  <2>1. ~ Before(h[n], h[m])
    BY <1>1, <1>3 DEF IndInv, HashesMade
  <2>2. Block(h[m]) \in Int /\ Block(h[n]) \in Int
    BY <1>2
  <2> QED BY <2>1, <2>2 DEF Before
<1> QED BY <1>2, <1>3

\* While the list is stored: the block that is reached is that of the last hash,
\* and no hash so far belongs to a block behind it.
LEMMA StoreFacts ==
  ASSUME IndInv, phase = "store", i < Len(h)
  PROVE  /\ h # <<>> /\ h \in Seq(Made) /\ Len(h) \in Nat /\ i \in 0 .. Len(h) - 1 /\ i \in 0 .. Len(h)
         /\ h[i + 1] \in Made /\ (i > 0 => h[i] \in Made)
         /\ bcount \in Nat \ {0} /\ Block(h[i + 1]) \in 0 .. bcount - 1
         /\ num \in Int /\ num >= -1 /\ num <= Block(h[i + 1])
         /\ \A l \in Firsts(i) : Block(h[l]) \in Int /\ Block(h[l]) <= num
         /\ Duplicate <=> ~ IsFirst(i + 1)
         /\ Duplicate => Block(h[i + 1]) = num
<1>1. h \in Seq(Made) /\ Len(h) \in Nat /\ DOMAIN h = 1 .. Len(h) /\ i \in Nat
  BY BcountNat DEF IndInv, TypeOK
<1>2. h # <<>>
  BY <1>1, EmptySeq
<1>3. i \in 0 .. Len(h) - 1 /\ i \in 0 .. Len(h) /\ i + 1 \in 1 .. Len(h) /\ (i > 0 => i \in 1 .. Len(h))
  BY <1>1
<1>4. \A l \in 1 .. Len(h) : h[l] \in Made
  BY <1>1, ElementOfSeq
<1>5. bcount \in Nat \ {0} /\ \A x \in Made : Block(x) \in 0 .. bcount - 1
  BY <1>2, BlockFacts
<1>6. num = IF i = 0 THEN -1 ELSE Block(h[i])
  BY DEF IndInv, ListSoFar
<1>8. \A m, n \in 1 .. Len(h) : m < n => Block(h[m]) <= Block(h[n])
  BY BlocksInOrder
<1>9. Block(h[i + 1]) \in 0 .. bcount - 1
  BY <1>3, <1>4, <1>5
<1>10. num \in Int /\ num >= -1 /\ num <= Block(h[i + 1])
  <2>1. CASE i = 0
    BY <1>5, <1>6, <1>9, <2>1
  <2>2. CASE i > 0
    <3>1. num = Block(h[i]) /\ i < i + 1
      BY <1>1, <1>6, <2>2
    <3>2. Block(h[i]) \in 0 .. bcount - 1
      BY <1>3, <1>4, <1>5, <2>2
    <3>3. Block(h[i]) <= Block(h[i + 1])
      BY <1>3, <1>8, <2>2, <3>1
    <3> QED BY <1>5, <3>1, <3>2, <3>3
  <2> QED BY <1>1, <2>1, <2>2
<1>11. ASSUME NEW l \in Firsts(i) PROVE Block(h[l]) \in Int /\ Block(h[l]) <= num
  <2>1. l \in 1 .. i /\ l \in 1 .. Len(h)
    BY <1>3, FirstsFacts
  <2>2. i > 0 /\ num = Block(h[i]) /\ i \in 1 .. Len(h) /\ (l < i \/ l = i)
    BY <1>1, <1>3, <1>6, <2>1
  <2>3. Block(h[l]) \in Int /\ Block(h[i]) \in Int
    BY <1>4, <1>5, <2>1, <2>2
  <2>4. CASE l < i
    BY <1>8, <2>1, <2>2, <2>3, <2>4
  <2>5. CASE l = i
    BY <2>2, <2>3, <2>5
  <2> QED BY <2>2, <2>4, <2>5
<1>12. Duplicate <=> ~ IsFirst(i + 1)
  <2>1. IsFirst(i + 1) <=> i = 0 \/ h[i + 1].word # h[i].word
    BY <1>1, NextFirst
  <2>2. i > 0 => (h[i].a = h[i + 1].a /\ h[i].b = h[i + 1].b <=> h[i].word = h[i + 1].word)
    BY <1>3, <1>4, SameString
  <2>3. i > 0 <=> ~ (i = 0)
    BY <1>1
  <2> QED BY <2>1, <2>2, <2>3 DEF Duplicate
<1>13. ASSUME Duplicate PROVE Block(h[i + 1]) = num
  BY <1>6, <1>13, <1>1 DEF Duplicate, Block
<1>14. h[i + 1] \in Made /\ (i > 0 => h[i] \in Made)
  BY <1>3, <1>4
<1> QED BY <1>1, <1>2, <1>3, <1>5, <1>9, <1>10, <1>11, <1>12, <1>13, <1>14

LEMMA EntryFacts ==
  ASSUME IndInv, h # <<>>, NEW x \in Made
  PROVE  Entry(x) \in Nat /\ Entry(x) \div 16 = High(x) /\ Entry(x) % 16 = x.f
<1>1. High(x) \in Nat /\ x.f \in 0 .. 15
  BY BlockFacts
<1>2. \A q \in Nat, f \in 0 .. 15 : 16 * q + f \in Nat /\ (16 * q + f) \div 16 = q /\ (16 * q + f) % 16 = f
  OBVIOUS
<1> QED BY <1>1, <1>2 DEF Entry

\* A duplicate changes nothing.
LEMMA DuplicateStep ==
  ASSUME IndInv, phase = "store", i < Len(h), ~ IsFirst(i + 1),
         UNCHANGED <<num, ol, os>>, i' = i + 1, UNCHANGED <<data, hash, phase, list, h, mask>>
  PROVE  ListSoFar'
<1>1. /\ i \in 0 .. Len(h) - 1 /\ Len(h) \in Nat /\ Block(h[i + 1]) = num
  BY StoreFacts
<1>2. Firsts(i + 1) = Firsts(i)
  BY <1>1, FirstsStep
<1>3. /\ os \in Seq(Nat) /\ Len(os) = Cardinality(Firsts(i))
      /\ \A l \in Firsts(i) : os[Cardinality(Firsts(l))] = Entry(h[l])
      /\ DOMAIN ol = 1 .. bcount
      /\ \A k \in 1 .. bcount :
           ol[k] = IF k - 1 > num THEN None
                   ELSE Header(HeaderWords + InFront(i, k - 1), Own(i, k - 1))
  BY DEF IndInv, ListSoFar
<1>4. bcount' = bcount /\ HeaderWords' = HeaderWords
  BY DEF bcount, HeaderWords
<1>5. /\ \A n : Firsts(n)' = Firsts(n)
      /\ \A x : Entry(x)' = Entry(x) /\ Block(x)' = Block(x)
  BY <1>4 DEF Firsts, Entry, High, Block
<1>6. Firsts(i)' = Firsts(i)
  BY <1>2 DEF Firsts
<1>7. \A b : Own(i, b)' = Own(i, b) /\ InFront(i, b)' = InFront(i, b)
  BY <1>4, <1>6 DEF Own, InFront, Block
<1>8. i' <= Len(h') /\ i' # 0 /\ num' = Block(h[i])'
  <2>1. i + 1 <= Len(h) /\ i + 1 # 0
    BY <1>1
  <2>2. Block(h[i])' = Block(h[i + 1])
    BY <1>4 DEF Block
  <2> QED BY <1>1, <2>1, <2>2
<1>9. (\A l \in Firsts(i) : os[Cardinality(Firsts(l))] = Entry(h[l]))'
  BY <1>3, <1>5, <1>6 DEF Entry, High
<1>10. (\A k \in 1 .. bcount : ol[k] = IF k - 1 > num THEN None
                                       ELSE Header(HeaderWords + InFront(i, k - 1), Own(i, k - 1)))'
  BY <1>3, <1>4, <1>7 DEF Header
<1>11. os' \in Seq(Nat) /\ Len(os') = Cardinality(Firsts(i)') /\ DOMAIN ol' = 1 .. bcount'
  BY <1>3, <1>4, <1>6
<1> QED BY <1>8, <1>9, <1>10, <1>11 DEF ListSoFar

\* A first one is stored behind the others,
LEMMA StoredStep ==
  ASSUME IndInv, phase = "store", i < Len(h), IsFirst(i + 1),
         os' = Append(os, Entry(h[i + 1])), i' = i + 1, UNCHANGED h
  PROVE  /\ os' \in Seq(Nat) /\ Len(os') = Cardinality(Firsts(i))'
         /\ (\A l \in Firsts(i) : os[Cardinality(Firsts(l))] = Entry(h[l]))'
<1> DEFINE c == Cardinality(Firsts(i))
           e == Entry(h[i + 1])
<1>1. /\ h # <<>> /\ i \in 0 .. Len(h) - 1 /\ i \in 0 .. Len(h) /\ Len(h) \in Nat /\ h[i + 1] \in Made
  BY StoreFacts
<1>2. /\ os \in Seq(Nat) /\ Len(os) = c /\ \A l \in Firsts(i) : os[Cardinality(Firsts(l))] = Entry(h[l])
  BY DEF IndInv, ListSoFar
<1>3. c \in Nat
  BY <1>1, FirstsFacts
<1>4. Firsts(i + 1) = Firsts(i) \union {i + 1} /\ Cardinality(Firsts(i + 1)) = c + 1
  BY <1>1, FirstsStep
<1>5. e \in Nat
  BY <1>1, EntryFacts
<1>6. \A l \in Firsts(i) : Cardinality(Firsts(l)) \in 1 .. c
  BY <1>1, FirstsNumbered
<1>7. (\A n : Firsts(n)' = Firsts(n)) /\ \A x : Entry(x)' = Entry(x)
  BY DEF Firsts, Entry, High
<1>8. Firsts(i)' = Firsts(i + 1)
  BY DEF Firsts
<1> HIDE DEF c, e
<1>9. os' = Append(os, e)
  BY DEF e
<1>10. os' \in Seq(Nat) /\ Len(os') = c + 1 /\ (\A k \in 1 .. c : os'[k] = os[k]) /\ os'[c + 1] = e
  BY <1>2, <1>3, <1>5, <1>9, AppendProperties
<1>11. ASSUME NEW l \in Firsts(i + 1) PROVE os'[Cardinality(Firsts(l))] = Entry(h[l])
  <2>1. CASE l \in Firsts(i)
    BY <1>2, <1>6, <1>10, <2>1
  <2>2. CASE l = i + 1
    BY <1>4, <1>10, <2>2 DEF e
  <2> QED BY <1>4, <2>1, <2>2
<1>12. (\A l \in Firsts(i) : os[Cardinality(Firsts(l))] = Entry(h[l]))'
  BY <1>7, <1>8, <1>11 DEF Entry, High
<1> QED BY <1>4, <1>8, <1>10, <1>12

\* What the counts are in the blocks that are reached.
LEMMA ReachedCounts ==
  ASSUME IndInv, phase = "store", i < Len(h), NEW b \in Int
  PROVE  /\ Own(i, b) \in Nat /\ InFront(i, b) \in Nat
         /\ b > num => Own(i, b) = 0 /\ InFront(i, b) = Cardinality(Firsts(i))
<1>1. i \in 0 .. Len(h) /\ num \in Int /\ \A l \in Firsts(i) : Block(h[l]) \in Int /\ Block(h[l]) <= num
  BY StoreFacts
<1>2. Own(i, b) \in Nat /\ InFront(i, b) \in Nat
  BY <1>1, FirstsFacts
<1>3. ASSUME b > num PROVE Own(i, b) = 0 /\ InFront(i, b) = Cardinality(Firsts(i))
  <2>1. \A l \in Firsts(i) : Block(h[l]) < b /\ Block(h[l]) # b
    BY <1>1, <1>3
  <2>2. {l \in Firsts(i) : Block(h[l]) = b} = {} /\ {l \in Firsts(i) : Block(h[l]) < b} = Firsts(i)
    BY <2>1
  <2> QED BY <2>2, FS_EmptySet DEF Own, InFront
<1> QED BY <1>2, <1>3

LEMMA LimitNat == OffsetLimit \in Nat \ {0}
BY DEF OffsetLimit

\* A header counts one more.
LEMMA HeaderCounts ==
  ASSUME NEW p \in Nat, NEW c \in Nat
  PROVE  Header(p, c) \in Nat /\ Header(p, c) + 1 = Header(p, c + 1)
<1>1. p % OffsetLimit \in Nat
  BY LimitNat
<1> QED BY <1>1 DEF Header

\* and the headers follow.
LEMMA HeadersStep ==
  ASSUME IndInv, phase = "store", i < Len(h), IsFirst(i + 1), NEW b, b = Block(h[i + 1]),
         ol' = IF b = num THEN [ol EXCEPT ![b + 1] = @ + 1]
               ELSE [k \in DOMAIN ol |-> IF k - 1 \in num + 1 .. b
                                         THEN Header(Top, IF k - 1 = b THEN 1 ELSE 0) ELSE ol[k]]
  PROVE  /\ DOMAIN ol' = 1 .. bcount
         /\ \A k \in 1 .. bcount :
              ol'[k] = IF k - 1 > b THEN None
                       ELSE Header(HeaderWords + InFront(i + 1, k - 1), Own(i + 1, k - 1))
<1>1. /\ i \in 0 .. Len(h) - 1 /\ bcount \in Nat /\ b \in 0 .. bcount - 1
      /\ num \in Int /\ num >= -1 /\ num <= b
  BY StoreFacts
<1>2. /\ DOMAIN ol = 1 .. bcount
      /\ \A k \in 1 .. bcount :
           ol[k] = IF k - 1 > num THEN None
                   ELSE Header(HeaderWords + InFront(i, k - 1), Own(i, k - 1))
  BY DEF IndInv, ListSoFar
<1>3. HeaderWords \in Nat
  <2> HIDE DEF bcount
  <2> QED BY <1>1 DEF HeaderWords
<1>4. Top = HeaderWords + Cardinality(Firsts(i))
  BY DEF IndInv, ListSoFar, Top
<1>5. DOMAIN ol' = 1 .. bcount
  BY <1>2
<1>6. ASSUME NEW k \in 1 .. bcount
      PROVE  ol'[k] = IF k - 1 > b THEN None
                      ELSE Header(HeaderWords + InFront(i + 1, k - 1), Own(i + 1, k - 1))
  <2> DEFINE d == k - 1
             o == Own(i, d)
             f == InFront(i, d)
  <2>1. k \in Int /\ d \in Int /\ b \in Int /\ b + 1 \in 1 .. bcount /\ (k = b + 1 <=> d = b)
    BY SMTT(20), <1>1, <1>6
  <2>2. Own(i + 1, d) = o + (IF b = d THEN 1 ELSE 0) /\ InFront(i + 1, d) = f + (IF b < d THEN 1 ELSE 0)
    BY <1>1, CountsStep
  <2>3. o \in Nat /\ f \in Nat /\ (d > num => o = 0 /\ f = Cardinality(Firsts(i)))
    BY <2>1, ReachedCounts
  <2>4. ol[k] = IF d > num THEN None ELSE Header(HeaderWords + f, o)
    BY <1>2
  <2> HIDE DEF d, o, f
  <2>5. CASE b = num
    <3>1. ol' = [ol EXCEPT ![b + 1] = ol[b + 1] + 1]
      BY <2>5
    <3>2. CASE d = b
      <4>1. ol'[k] = ol[k] + 1 /\ ~ (d > num) /\ ~ (d > b) /\ ~ (b < d)
        BY <1>1, <1>2, <2>1, <2>5, <3>1, <3>2
      <4>2. Own(i + 1, d) = o + 1 /\ InFront(i + 1, d) = f
        BY <2>2, <2>3, <3>2, <4>1
      <4>3. ol'[k] = Header(HeaderWords + f, o) + 1
        BY <2>4, <4>1
      <4>4. HeaderWords + f \in Nat /\ o \in Nat
        BY <1>3, <2>3
      <4>5. Header(HeaderWords + f, o) + 1 = Header(HeaderWords + f, o + 1)
        BY ONLY <4>4, HeaderCounts
      <4> QED BY <4>1, <4>2, <4>3, <4>5 DEF d
    <3>3. CASE d # b
      <4>1. ol'[k] = ol[k]
        BY <1>2, <2>1, <3>1, <3>3
      <4>2. ~ (d > b) => Own(i + 1, d) = o /\ InFront(i + 1, d) = f
        BY <2>1, <2>2, <2>3, <3>3
      <4> QED BY <2>4, <2>5, <4>1, <4>2 DEF d
    <3> QED BY <3>2, <3>3
  <2>6. CASE b # num
    <3>1. ol'[k] = IF d \in num + 1 .. b THEN Header(Top, IF d = b THEN 1 ELSE 0) ELSE ol[k]
      BY <1>2, <2>6 DEF d
    <3>2. CASE d \in num + 1 .. b
      <4>1. d > num /\ ~ (d > b) /\ ~ (b < d)
        BY <1>1, <2>1, <3>2
      <4>2. Own(i + 1, d) = (IF d = b THEN 1 ELSE 0) /\ InFront(i + 1, d) = Cardinality(Firsts(i))
        BY <2>2, <2>3, <4>1
      <4> QED BY <1>4, <3>1, <3>2, <4>1, <4>2 DEF d
    <3>3. CASE d > b
      <4>1. d > num /\ d \notin num + 1 .. b
        BY <1>1, <2>1, <3>3
      <4>2. ol'[k] = ol[k]
        BY <3>1, <4>1
      <4> QED BY <2>4, <3>3, <4>1, <4>2 DEF d
    <3>4. CASE d <= num
      <4>1. ~ (d > num) /\ ~ (d > b) /\ ~ (b < d) /\ b # d /\ d \notin num + 1 .. b
        BY <1>1, <2>1, <2>6, <3>4
      <4>2. Own(i + 1, d) = o /\ InFront(i + 1, d) = f
        BY <2>2, <2>3, <4>1
      <4> QED BY <2>4, <3>1, <4>1, <4>2 DEF d
    <3>5. d <= num \/ d \in num + 1 .. b \/ d > b
      BY <1>1, <2>1
    <3> QED BY <3>2, <3>3, <3>4, <3>5
  <2> QED BY <2>5, <2>6
<1> QED BY <1>5, <1>6

LEMMA StoreStep == IndInv /\ Store => IndInv'
<1> SUFFICES ASSUME IndInv, Store PROVE IndInv'
  OBVIOUS
<1> DEFINE b == Block(h[i + 1])
<1>1. /\ phase = "store" /\ i < Len(h) /\ i' = i + 1
      /\ UNCHANGED <<data, hash, phase, list, h, mask>>
  BY DEF Store
<1>2. IF b = num /\ Duplicate THEN UNCHANGED <<num, ol, os>>
      ELSE /\ ol' = IF b = num THEN [ol EXCEPT ![b + 1] = @ + 1]
                    ELSE [k \in DOMAIN ol |-> IF k - 1 \in num + 1 .. b
                                              THEN Header(Top, IF k - 1 = b THEN 1 ELSE 0) ELSE ol[k]]
           /\ num' = b
           /\ os' = Append(os, Entry(h[i + 1]))
  BY DEF Store
<1> HIDE DEF b
<1>3. /\ i \in 0 .. Len(h) - 1 /\ Len(h) \in Nat /\ bcount \in Nat /\ b \in 0 .. bcount - 1 /\ num \in Int
      /\ Duplicate <=> ~ IsFirst(i + 1)
      /\ Duplicate => b = num
  BY <1>1, StoreFacts DEF b
<1>4. bcount' = bcount /\ HeaderWords' = HeaderWords /\ \A x : Block(x)' = Block(x)
  BY <1>1 DEF bcount, HeaderWords, Block
<1>5. ASSUME IsFirst(i + 1) PROVE ListSoFar'
  <2>1. /\ ol' = IF b = num THEN [ol EXCEPT ![b + 1] = @ + 1]
                 ELSE [k \in DOMAIN ol |-> IF k - 1 \in num + 1 .. b
                                           THEN Header(Top, IF k - 1 = b THEN 1 ELSE 0) ELSE ol[k]]
        /\ num' = b
        /\ os' = Append(os, Entry(h[i + 1]))
    BY <1>2, <1>3, <1>5
  <2>2. /\ os' \in Seq(Nat) /\ Len(os') = Cardinality(Firsts(i))'
        /\ (\A l \in Firsts(i) : os[Cardinality(Firsts(l))] = Entry(h[l]))'
    BY <1>1, <1>5, <2>1, StoredStep
  <2>3. /\ DOMAIN ol' = 1 .. bcount
        /\ \A k \in 1 .. bcount :
             ol'[k] = IF k - 1 > b THEN None
                      ELSE Header(HeaderWords + InFront(i + 1, k - 1), Own(i + 1, k - 1))
    BY <1>1, <1>5, <2>1, HeadersStep DEF b
  <2>4. \A d : Own(i, d)' = Own(i + 1, d) /\ InFront(i, d)' = InFront(i + 1, d)
    BY <1>1, <1>4 DEF Own, InFront, Firsts, Block
  <2>5. (\A k \in 1 .. bcount : ol[k] = IF k - 1 > num THEN None
                                        ELSE Header(HeaderWords + InFront(i, k - 1), Own(i, k - 1)))'
    BY <1>4, <2>1, <2>3, <2>4 DEF Header
  <2>6. (DOMAIN ol = 1 .. bcount)'
    BY <1>4, <2>3
  <2>7. (i <= Len(h) /\ num = IF i = 0 THEN -1 ELSE Block(h[i]))'
    <3>1. i + 1 <= Len(h) /\ i + 1 # 0
      BY <1>3
    <3>2. Block(h[i])' = b
      BY <1>1, <1>4 DEF b, Block
    <3> QED BY <1>1, <2>1, <3>1, <3>2
  <2> QED BY <1>1, <2>2, <2>5, <2>6, <2>7 DEF ListSoFar
<1>6. ASSUME ~ IsFirst(i + 1) PROVE ListSoFar'
  <2>1. UNCHANGED <<num, ol, os>>
    BY <1>2, <1>3, <1>6
  <2> QED BY <1>1, <1>6, <2>1, DuplicateStep
<1>7. TypeOK'
  <2>1. num' \in Int
    BY <1>2, <1>3
  <2>2. i' \in Nat
    BY <1>1, <1>3
  <2> QED BY <1>1, <2>1, <2>2 DEF IndInv, TypeOK, IsSequence, IsHash, Hashed
<1>8. LinesParsed'
  <2>1. Starts' = Starts /\ \A p : LineParsed(p)' = LineParsed(p)
    BY <1>1 DEF LineParsed, LinesBefore, EntryOf, Starts, size, At
  <2> QED BY <1>1, <2>1 DEF IndInv, LinesParsed
<1>9. HashesMade'
  <2>1. \A x, y : Before(x, y)' <=> Before(x, y)
    BY <1>4 DEF Before, Block, High
  <2>2. (UNION {Registers(list[m]) : m \in DOMAIN list})' = UNION {Registers(list[m]) : m \in DOMAIN list}
    BY <1>1 DEF Registers, Hashed
  <2>3. \A m, n : Before(h[n], h[m])' <=> Before(h[n], h[m])
    BY <1>1, <1>4 DEF Before, Block, High
  <2> QED BY <1>1, <2>2, <2>3 DEF IndInv, HashesMade
<1> QED BY <1>1, <1>5, <1>6, <1>7, <1>8, <1>9 DEF IndInv, LinesSoFar

LEMMA PublishStep == IndInv /\ Publish => IndInv'
<1> SUFFICES ASSUME IndInv, Publish PROVE IndInv'
  OBVIOUS
<1>1. /\ phase = "store" /\ i >= Len(h) /\ phase' = "built"
      /\ UNCHANGED <<data, hash, i, list, h, num, ol, os, mask>>
  BY DEF Publish
<1>2. TypeOK'
  BY <1>1 DEF IndInv, TypeOK, IsSequence, IsHash, Hashed
<1>3. LinesParsed'
  <2>1. Starts' = Starts /\ \A p : LineParsed(p)' = LineParsed(p)
    BY <1>1 DEF LineParsed, LinesBefore, EntryOf, Starts, size, At
  <2> QED BY <1>1, <2>1 DEF IndInv, LinesParsed
<1>4. bcount' = bcount /\ HeaderWords' = HeaderWords
  BY <1>1 DEF bcount, HeaderWords
<1>5. HashesMade'
  <2>1. (UNION {Registers(list[m]) : m \in DOMAIN list})' = UNION {Registers(list[m]) : m \in DOMAIN list}
    BY <1>1 DEF Registers, Hashed
  <2>2. \A m, n : Before(h[n], h[m])' <=> Before(h[n], h[m])
    BY <1>1, <1>4 DEF Before, Block, High
  <2>3. /\ {h[k] : k \in DOMAIN h} = UNION {Registers(list[m]) : m \in DOMAIN list}
        /\ \A m, n \in DOMAIN h : m < n => ~ Before(h[n], h[m])
    BY <1>1 DEF IndInv, HashesMade
  <2>4. /\ ({h[k] : k \in DOMAIN h} = UNION {Registers(list[m]) : m \in DOMAIN list})'
        /\ (\A m, n \in DOMAIN h : m < n => ~ Before(h[n], h[m]))'
    BY <1>1, <2>1, <2>2, <2>3
  <2> QED BY <1>1, <2>4 DEF HashesMade
<1>6. ListSoFar'
  <2>1. i = Len(h)
    <3>1. i \in Int /\ Len(h) \in Int /\ i >= Len(h) /\ i <= Len(h)
      BY <1>1, BcountNat DEF IndInv, TypeOK, ListSoFar
    <3> QED BY ONLY <3>1
  <2>2. /\ \A d : Own(i, d)' = Own(i, d) /\ InFront(i, d)' = InFront(i, d)
        /\ \A n : Firsts(n)' = Firsts(n)
        /\ \A l : Entry(h[l])' = Entry(h[l])
    BY <1>1, <1>4 DEF Own, InFront, Firsts, Block, Entry, High
  <2>3. Firsts(i)' = Firsts(i) /\ Block(h[i])' = Block(h[i])
    BY <1>1, <1>4 DEF Firsts, Block
  <2>4. /\ num = IF i = 0 THEN -1 ELSE Block(h[i])
        /\ os \in Seq(Nat) /\ Len(os) = Cardinality(Firsts(i))
        /\ \A l \in Firsts(i) : os[Cardinality(Firsts(l))] = Entry(h[l])
        /\ DOMAIN ol = 1 .. bcount
        /\ \A k \in 1 .. bcount :
             ol[k] = IF k - 1 > num THEN None
                     ELSE Header(HeaderWords + InFront(i, k - 1), Own(i, k - 1))
    BY <1>1 DEF IndInv, ListSoFar
  <2>5. (\A l \in Firsts(i) : os[Cardinality(Firsts(l))] = Entry(h[l]))'
    BY <1>1, <2>2, <2>3, <2>4
  <2>6. (\A k \in 1 .. bcount : ol[k] = IF k - 1 > num THEN None
                                        ELSE Header(HeaderWords + InFront(i, k - 1), Own(i, k - 1)))'
    BY <1>1, <1>4, <2>2, <2>4 DEF Header
  <2>7. (num = IF i = 0 THEN -1 ELSE Block(h[i]))' /\ (i <= Len(h) /\ i = Len(h))'
    <3>1. Len(h) <= Len(h)
      BY BcountNat
    <3> QED BY <1>1, <2>1, <2>3, <2>4, <3>1
  <2>8. (os \in Seq(Nat) /\ Len(os) = Cardinality(Firsts(i)) /\ DOMAIN ol = 1 .. bcount)'
    BY <1>1, <1>4, <2>3, <2>4
  <2> QED BY <1>1, <2>5, <2>6, <2>7, <2>8 DEF ListSoFar
<1> QED BY <1>1, <1>2, <1>3, <1>5, <1>6 DEF IndInv, LinesSoFar

LEMMA StutterStep == IndInv /\ UNCHANGED vars => IndInv'
<1> SUFFICES ASSUME IndInv, UNCHANGED vars PROVE IndInv'
  OBVIOUS
<1>1. UNCHANGED <<data, hash, phase, i, list, h, num, ol, os, mask>>
  BY DEF vars
<1>2. TypeOK'
  BY <1>1 DEF IndInv, TypeOK, IsSequence, IsHash, Hashed
<1>3. LinesSoFar' /\ LinesParsed'
  <2>1. /\ Starts' = Starts /\ size' = size /\ \A p : LineParsed(p)' = LineParsed(p)
        /\ LinesBefore(i)' = LinesBefore(i) /\ At(i - 1)' = At(i - 1)
    BY <1>1 DEF LineParsed, LinesBefore, EntryOf, Starts, size, At
  <2>2. LinesSoFar'
    BY <1>1, <2>1 DEF IndInv, LinesSoFar
  <2>3. LinesParsed'
    BY <1>1, <2>1 DEF IndInv, LinesParsed
  <2> QED BY <2>2, <2>3
<1>4. bcount' = bcount /\ HeaderWords' = HeaderWords
  BY <1>1 DEF bcount, HeaderWords
<1>5. HashesMade'
  <2>1. /\ (UNION {Registers(list[m]) : m \in DOMAIN list})' = UNION {Registers(list[m]) : m \in DOMAIN list}
        /\ (UNION {Registers(list[m]) : m \in 1 .. i})' = UNION {Registers(list[m]) : m \in 1 .. i}
    BY <1>1 DEF Registers, Hashed
  <2>2. \A m, n : Before(h[n], h[m])' <=> Before(h[n], h[m])
    BY <1>1, <1>4 DEF Before, Block, High
  <2>3. CASE phase \in {"store", "built"}
    <3>1. /\ {h[k] : k \in DOMAIN h} = UNION {Registers(list[m]) : m \in DOMAIN list}
          /\ \A m, n \in DOMAIN h : m < n => ~ Before(h[n], h[m])
      BY <2>3 DEF IndInv, HashesMade
    <3>2. (\A m, n \in DOMAIN h : m < n => ~ Before(h[n], h[m]))'
      BY <1>1, <2>2, <3>1
    <3>3. ({h[k] : k \in DOMAIN h} = UNION {Registers(list[m]) : m \in DOMAIN list})'
      BY <1>1, <2>1, <3>1
    <3> QED BY <1>1, <2>3, <3>2, <3>3 DEF HashesMade
  <2>4. CASE phase \notin {"store", "built"}
    <3>1. ({h[k] : k \in DOMAIN h} = UNION {Registers(list[m]) : m \in 1 .. i})'
            <=> {h[k] : k \in DOMAIN h} = UNION {Registers(list[m]) : m \in 1 .. i}
      BY ZenonT(30), <1>1, <2>1
    <3>2. ({h[k] : k \in DOMAIN h} = UNION {Registers(list[m]) : m \in DOMAIN list})'
            <=> {h[k] : k \in DOMAIN h} = UNION {Registers(list[m]) : m \in DOMAIN list}
      BY <1>1, <2>1
    <3>3. phase = "register" => HashesMade'
      BY <1>1, <2>4, <3>1 DEF IndInv, HashesMade
    <3>4. phase = "sort" => HashesMade'
      BY <1>1, <2>4, <3>2 DEF IndInv, HashesMade
    <3>5. phase \notin {"register", "sort"} => HashesMade'
      BY <1>1, <2>4 DEF HashesMade
    <3> QED BY <3>3, <3>4, <3>5
  <2> QED BY <2>3, <2>4
<1>6. ListSoFar'
  <2>1. /\ \A d : Own(i, d)' = Own(i, d) /\ InFront(i, d)' = InFront(i, d)
        /\ \A n : Firsts(n)' = Firsts(n)
        /\ \A l : Entry(h[l])' = Entry(h[l])
    BY <1>1, <1>4 DEF Own, InFront, Firsts, Block, Entry, High
  <2>2. Firsts(i)' = Firsts(i) /\ Block(h[i])' = Block(h[i])
    BY <1>1, <1>4 DEF Firsts, Block
  <2>3. CASE phase \notin {"store", "built"}
    BY <1>1, <2>3 DEF IndInv, ListSoFar
  <2>4. CASE phase \in {"store", "built"}
    <3>1. /\ i <= Len(h) /\ (phase = "built" => i = Len(h))
          /\ num = IF i = 0 THEN -1 ELSE Block(h[i])
          /\ os \in Seq(Nat) /\ Len(os) = Cardinality(Firsts(i))
          /\ \A l \in Firsts(i) : os[Cardinality(Firsts(l))] = Entry(h[l])
          /\ DOMAIN ol = 1 .. bcount
          /\ \A k \in 1 .. bcount :
               ol[k] = IF k - 1 > num THEN None
                       ELSE Header(HeaderWords + InFront(i, k - 1), Own(i, k - 1))
      BY <2>4 DEF IndInv, ListSoFar
    <3>2. (\A l \in Firsts(i) : os[Cardinality(Firsts(l))] = Entry(h[l]))'
      BY <1>1, <2>1, <2>2, <3>1
    <3>3. (\A k \in 1 .. bcount : ol[k] = IF k - 1 > num THEN None
                                          ELSE Header(HeaderWords + InFront(i, k - 1), Own(i, k - 1)))'
      BY <1>1, <1>4, <2>1, <3>1 DEF Header
    <3>4. (num = IF i = 0 THEN -1 ELSE Block(h[i]))' /\ (i <= Len(h) /\ (phase = "built" => i = Len(h)))'
      BY <1>1, <2>2, <3>1
    <3>5. (os \in Seq(Nat) /\ Len(os) = Cardinality(Firsts(i)) /\ DOMAIN ol = 1 .. bcount)'
      BY <1>1, <1>4, <2>2, <3>1
    <3> QED BY <1>1, <2>4, <3>2, <3>3, <3>4, <3>5 DEF ListSoFar
  <2> QED BY <2>3, <2>4
<1> QED BY <1>2, <1>3, <1>5, <1>6 DEF IndInv

LEMMA NextIndInv == data \in Files /\ IndInv /\ [Next]_vars => (data \in Files /\ IndInv)'
<1> SUFFICES ASSUME data \in Files, IndInv, [Next]_vars PROVE data' \in Files /\ IndInv'
  OBVIOUS
<1>1. data' = data
  BY DEF Next, vars, Fail, ParseLine, Parsed, RegisterWord, Registering, Sort, Store, Publish
<1>2. IndInv'
  BY FailStep, ParseLineStep, ParsedStep, RegisterWordStep, RegisteringStep, SortStep, StoreStep,
     PublishStep, StutterStep DEF Next
<1> QED BY <1>1, <1>2

\* The file does not change.
LEMMA FileStays == Spec => [](data \in Files)
<1>1. Init => data \in Files
  BY DEF Init
<1>2. data \in Files /\ [Next]_vars => (data \in Files)'
  BY DEF Next, vars, Fail, ParseLine, Parsed, RegisterWord, Registering, Sort, Store, Publish
<1> QED BY <1>1, <1>2, PTL DEF Spec


\* IndInv holds in every state: what is in the list at each moment is what the
\* lines read and the hashes stored so far call for (iword_load, iword_makelist).
THEOREM Invariance == Spec => []IndInv
<1>1. Spec => [](data \in Files /\ IndInv)
  <2>1. Init => data \in Files /\ IndInv
    BY InitIndInv
  <2>2. data \in Files /\ IndInv /\ [Next]_vars => (data \in Files /\ IndInv)'
    BY NextIndInv
  <2> QED BY <2>1, <2>2, PTL DEF Spec
<1> QED BY <1>1, PTL

\* Every line that has a word, one that begins with `#' too, makes an entry: the
\* characters before the first tab, and the one behind it as the key (iword_load).
THEOREM FileRead == Spec => []LinesParsed
<1>1. IndInv => LinesParsed
  BY DEF IndInv
<1> QED BY <1>1, Invariance, PTL

-----------------------------------------------------------------------------
(* Each string is stored once.                                             *)

\* Equal hashes stand side by side, and a first one is in front of the others.
LEMMA OneFirst ==
  ASSUME IndInv, phase = "built", NEW m \in 1 .. Len(h), NEW n \in Firsts(Len(h)),
         h[m].word = h[n].word, m < n
  PROVE  FALSE
<1>1. h \in Seq(Made) /\ Len(h) \in Nat /\ DOMAIN h = 1 .. Len(h) /\ Len(h) \in 0 .. Len(h)
  BY BcountNat
<1>2. n \in Nat /\ n \in 1 .. Len(h) /\ m \in Nat
  BY <1>1, FirstsFacts
<1>3. n - 1 \in Nat /\ n - 1 \in 1 .. Len(h) /\ n - 1 < n /\ (m = n - 1 \/ m < n - 1)
  BY <1>1, <1>2
<1>4. \A k \in 1 .. Len(h) : h[k] \in Made /\ Block(h[k]) \in Int /\ High(h[k]) \in Int
  BY BlocksInOrder
<1>5. h[n].word # h[n - 1].word
  <2>1. n # 1
    BY <1>2
  <2> QED BY <2>1 DEF Firsts
<1>8. ~ Before(h[n], h[n - 1]) /\ (m < n - 1 => ~ Before(h[n - 1], h[m]))
  BY <1>2, <1>3, BlocksInOrder
<1>9. Block(h[m]) = Block(h[n]) /\ High(h[m]) = High(h[n]) /\ m # n - 1
  BY <1>2, <1>4, <1>5, SameString
<1>10. High(h[n - 1]) = High(h[n])
  BY <1>2, <1>3, <1>4, <1>8, <1>9 DEF Before
<1> QED BY <1>2, <1>3, <1>4, <1>5, <1>10, SameString

\* The numbers of the first ones are the places in the list.
LEMMA NumberTaken ==
  ASSUME IndInv, NEW n \in 0 .. Len(h), NEW r \in 1 .. Cardinality(Firsts(n))
  PROVE  \E l \in Firsts(n) : Cardinality(Firsts(l)) = r
<1> DEFINE F == Firsts(n)
<1>1. IsFiniteSet(F) /\ Cardinality(F) \in Nat /\ \A l \in F : l \in Nat
  BY FirstsFacts
<1>2. F \subseteq Nat
  BY <1>1
<1>3. \A l \in F : Cardinality(Firsts(l)) = Under(F, l) + 1
  BY FirstsNumbered
<1> HIDE DEF F
<1>4. r - 1 \in 0 .. Cardinality(F) - 1 /\ r - 1 + 1 = r
  BY <1>1 DEF F
<1>5. PICK l \in F : Under(F, l) = r - 1
  BY <1>1, <1>2, <1>4, UnderOnto
<1> QED BY <1>3, <1>4, <1>5 DEF F

\* However often words and prefixes are repeated in the file, each is stored once
\* (the duplicates that iword_makelist passes over).
THEOREM EachStoredOnce == Spec => []StoredOnce
<1>1. IndInv => StoredOnce
  <2> SUFFICES ASSUME IndInv, phase = "built",
                      NEW p \in DOMAIN os, NEW q \in DOMAIN os, os[p] \div 16 = os[q] \div 16
               PROVE  p = q
    BY DEF StoredOnce, Built
  <2> DEFINE F == Firsts(Len(h))
  <2>1. h \in Seq(Made) /\ Len(h) \in Nat /\ Len(h) \in 0 .. Len(h)
    BY BcountNat
  <2>2. /\ i = Len(h) /\ os \in Seq(Nat) /\ Len(os) = Cardinality(F)
        /\ \A l \in F : os[Cardinality(Firsts(l))] = Entry(h[l])
    BY DEF IndInv, ListSoFar
  <2>3. DOMAIN os = 1 .. Cardinality(F)
    BY <2>2, LenProperties
  <2>4. \A l \in F : l \in Nat /\ l \in 1 .. Len(h) /\ h[l] \in Made
    BY <2>1, FirstsFacts
  <2>6. ASSUME NEW r \in DOMAIN os PROVE \E l \in F : Cardinality(Firsts(l)) = r
    BY <2>1, <2>3, <2>6, NumberTaken
  <2> HIDE DEF F
  <2>7. PICK l \in F : Cardinality(Firsts(l)) = p
    BY <2>6
  <2>8. PICK m \in F : Cardinality(Firsts(m)) = q
    BY <2>6
  <2>9. Entry(h[l]) \div 16 = Entry(h[m]) \div 16
    BY <2>2, <2>7, <2>8
  <2>10. h # <<>>
    BY <2>1, <2>4, <2>7, EmptySeq
  <2>11. h[l].word = h[m].word
    <3>1. High(h[l]) = High(h[m])
      BY <2>4, <2>9, <2>10, EntryFacts
    <3> QED BY <2>4, <3>1, SameString
  <2>12. ~ (l < m) /\ ~ (m < l)
    BY <2>4, <2>11, OneFirst DEF F
  <2>13. l = m
    BY <2>4, <2>12
  <2> QED BY <2>7, <2>8, <2>13
<1> QED BY <1>1, Invariance, PTL

-----------------------------------------------------------------------------
(* The binary search of iword_seekhash                                     *)

At64(off, p) == os[off + p - HeaderWords + 1]

\* One step of the search in lo .. hi - 1, and where b is there.
Tried(f, lo, hi, off, b) ==
  LET mid == (lo + hi) \div 2
  IN  IF lo >= hi THEN -1
      ELSE IF At64(off, mid) \div 16 = b \div 16 THEN At64(off, mid) % 16
      ELSE IF At64(off, mid) < b THEN f[<<mid + 1, hi>>] ELSE f[<<lo, mid>>]

Places(off, b, lo, hi) == {p \in lo .. hi - 1 : At64(off, p) \div 16 = b \div 16}

Answer(off, b, lo, hi) ==
  IF Places(off, b, lo, hi) = {} THEN -1 ELSE At64(off, CHOOSE p : p \in Places(off, b, lo, hi)) % 16

\* The count hashes at off, in order.
BlockInOrder(off, count) ==
  /\ \A p \in 0 .. count - 1 : At64(off, p) \in Nat
  /\ \A p, q \in 0 .. count - 1 : p < q => At64(off, p) \div 16 < At64(off, q) \div 16

\* A step keeps what there is to find.
LEMMA TriedAnswer ==
  ASSUME NEW off, NEW count \in Nat, BlockInOrder(off, count), NEW b \in Nat,
         NEW lo \in 0 .. count, NEW hi \in 0 .. count, NEW f,
         \A l, k \in 0 .. count : k - l < hi - lo => f[<<l, k>>] = Answer(off, b, l, k)
  PROVE  Tried(f, lo, hi, off, b) = Answer(off, b, lo, hi)
<1> DEFINE mid == (lo + hi) \div 2
           c == b \div 16
           D(p) == At64(off, p) \div 16
<1>1. lo \in Nat /\ hi \in Nat /\ mid \in Nat /\ c \in Nat
  OBVIOUS
<1>2. CASE lo >= hi
  <2>1. lo .. hi - 1 = {}
    BY <1>1, <1>2
  <2>2. Places(off, b, lo, hi) = {}
    BY <2>1 DEF Places
  <2> QED BY <1>2, <2>2 DEF Tried, Answer
<1>3. CASE lo < hi
  <2>1. mid \in lo .. hi - 1 /\ mid \in 0 .. count - 1 /\ mid + 1 \in 0 .. count /\ mid \in 0 .. count
    BY <1>1, <1>3
  <2>2. \A p \in lo .. hi - 1 : p \in Nat /\ p \in 0 .. count - 1
    BY <1>1
  <2>3. \A p \in 0 .. count - 1 : At64(off, p) \in Nat /\ D(p) \in Nat
    BY DEF BlockInOrder
  <2>4. \A p, q \in 0 .. count - 1 : p < q => D(p) < D(q)
    BY DEF BlockInOrder
  <2>5. \A l, k, p : p \in Places(off, b, l, k) <=> p \in l .. k - 1 /\ D(p) = c
    BY DEF Places
  <2>6. Tried(f, lo, hi, off, b) =
          IF D(mid) = c THEN At64(off, mid) % 16
          ELSE IF At64(off, mid) < b THEN f[<<mid + 1, hi>>] ELSE f[<<lo, mid>>]
    <3>1. ~ (lo >= hi)
      BY <1>1, <1>3
    <3> QED BY <3>1 DEF Tried
  <2>7. D(mid) # c => (At64(off, mid) < b <=> D(mid) < c)
    <3>1. \A v, w \in Nat : v \div 16 # w \div 16 => (v < w <=> v \div 16 < w \div 16)
      OBVIOUS
    <3> QED BY <2>1, <2>3, <3>1
  <2> HIDE DEF mid, c, D
  <2>8. CASE D(mid) = c
    <3>1. \A p \in Places(off, b, lo, hi) : p = mid
      <4>1. ASSUME NEW p \in Places(off, b, lo, hi) PROVE p = mid
        <5>1. p \in 0 .. count - 1 /\ p \in Nat /\ D(p) = c
          BY <2>2, <2>5
        <5>2. ~ (p < mid) /\ ~ (mid < p)
          BY <1>1, <2>1, <2>3, <2>4, <2>8, <5>1
        <5> QED BY <1>1, <5>1, <5>2
      <4> QED BY <4>1
    <3>2. mid \in Places(off, b, lo, hi)
      BY <2>1, <2>5, <2>8
    <3>3. (CHOOSE p : p \in Places(off, b, lo, hi)) = mid
      BY <3>1, <3>2
    <3> QED BY <2>6, <2>8, <3>2, <3>3 DEF Answer
  <2>9. CASE D(mid) < c
    <3>1. \A p \in lo .. hi - 1 : D(p) = c => p \in mid + 1 .. hi - 1
      <4>1. ASSUME NEW p \in lo .. hi - 1, D(p) = c PROVE p \in mid + 1 .. hi - 1
        <5>1. p \in Nat /\ p \in 0 .. count - 1 /\ p # mid
          BY <1>1, <2>1, <2>2, <2>3, <2>9, <4>1
        <5>2. ~ (p < mid)
          BY <1>1, <2>1, <2>3, <2>4, <2>9, <4>1, <5>1
        <5> QED BY <1>1, <4>1, <5>1, <5>2
      <4> QED BY <4>1
    <3>2. \A p \in mid + 1 .. hi - 1 : p \in lo .. hi - 1
      BY <1>1, <2>1
    <3>3. Places(off, b, lo, hi) = Places(off, b, mid + 1, hi)
      <4>1. \A p : p \in Places(off, b, lo, hi) <=> p \in Places(off, b, mid + 1, hi)
        BY ONLY <2>5, <3>1, <3>2
      <4> QED BY ONLY <4>1
    <3>4. f[<<mid + 1, hi>>] = Answer(off, b, mid + 1, hi)
      BY <1>1, <2>1
    <3>5. Tried(f, lo, hi, off, b) = f[<<mid + 1, hi>>]
      BY <1>1, <2>1, <2>3, <2>6, <2>7, <2>9
    <3> QED BY <3>3, <3>4, <3>5 DEF Answer
  <2>10. CASE D(mid) > c
    <3>1. \A p \in lo .. hi - 1 : D(p) = c => p \in lo .. mid - 1
      <4>1. ASSUME NEW p \in lo .. hi - 1, D(p) = c PROVE p \in lo .. mid - 1
        <5>1. p \in Nat /\ p \in 0 .. count - 1 /\ p # mid
          BY <1>1, <2>1, <2>2, <2>3, <2>10, <4>1
        <5>2. ~ (mid < p)
          BY <1>1, <2>1, <2>3, <2>4, <2>10, <4>1, <5>1
        <5> QED BY <1>1, <4>1, <5>1, <5>2
      <4> QED BY <4>1
    <3>2. \A p \in lo .. mid - 1 : p \in lo .. hi - 1
      BY <1>1, <2>1
    <3>3. Places(off, b, lo, hi) = Places(off, b, lo, mid)
      <4>1. \A p : p \in Places(off, b, lo, hi) <=> p \in Places(off, b, lo, mid)
        BY ONLY <2>5, <3>1, <3>2
      <4> QED BY ONLY <4>1
    <3>4. f[<<lo, mid>>] = Answer(off, b, lo, mid)
      BY <1>1, <2>1
    <3>5. Tried(f, lo, hi, off, b) = f[<<lo, mid>>]
      BY <1>1, <2>1, <2>3, <2>6, <2>7, <2>10
    <3> QED BY <3>3, <3>4, <3>5 DEF Answer
  <2>11. D(mid) \in Nat
    BY <2>1, <2>3
  <2> QED BY <1>1, <2>8, <2>9, <2>10, <2>11
<1> QED BY <1>1, <1>2, <1>3

\* The search answers for what is there.
LEMMA SearchFinds ==
  ASSUME NEW off, NEW count \in Nat, BlockInOrder(off, count), NEW b \in Nat
  PROVE  Search(off, count, b) = Answer(off, b, 0, count)
<1> DEFINE D == (0 .. count) \X (0 .. count)
           g == [r \in D |-> Answer(off, b, r[1], r[2])]
           F == CHOOSE f : f = [r \in D |-> Tried(f, r[1], r[2], off, b)]
<1>1. Search(off, count, b) = F[<<0, count>>]
  BY DEF Search, Tried, At64
<1>2. \A r \in D : r[1] \in 0 .. count /\ r[2] \in 0 .. count /\ r = <<r[1], r[2]>>
  OBVIOUS
<1>3. \A l, k \in 0 .. count : <<l, k>> \in D /\ <<l, k>>[1] = l /\ <<l, k>>[2] = k
  OBVIOUS
<1>4. \A l, k \in 0 .. count : g[<<l, k>>] = Answer(off, b, l, k)
  BY <1>3
<1>5. \E f : f = [r \in D |-> Tried(f, r[1], r[2], off, b)]
  <2>1. \A r \in D : Tried(g, r[1], r[2], off, b) = Answer(off, b, r[1], r[2])
    <3> HIDE DEF D, g
    <3>1. ASSUME NEW r \in D PROVE Tried(g, r[1], r[2], off, b) = Answer(off, b, r[1], r[2])
      <4> DEFINE lo == r[1]
                 hi == r[2]
      <4>1. lo \in 0 .. count /\ hi \in 0 .. count
        BY <1>2
      <4> HIDE DEF lo, hi
      <4>2. \A l, k \in 0 .. count : k - l < hi - lo => g[<<l, k>>] = Answer(off, b, l, k)
        BY <1>4
      <4>3. Tried(g, lo, hi, off, b) = Answer(off, b, lo, hi)
        <5>1. count \in Nat /\ b \in Nat /\ BlockInOrder(off, count)
          OBVIOUS
        <5> QED BY ONLY <4>1, <4>2, <5>1, TriedAnswer
      <4> QED BY <4>3 DEF lo, hi
    <3> QED BY <3>1
  <2>2. g = [r \in D |-> Tried(g, r[1], r[2], off, b)]
    BY <2>1
  <2> HIDE DEF D, g
  <2> QED BY <2>2
<1> HIDE DEF D, g
<1>6. F = [r \in D |-> Tried(F, r[1], r[2], off, b)]
  BY <1>5
<1> HIDE DEF F
<1>7. \A l, k \in 0 .. count : F[<<l, k>>] = Tried(F, l, k, off, b)
  BY <1>3, <1>6
<1> DEFINE Wrong(l, k) == F[<<l, k>>] # Answer(off, b, l, k)
           T == {n \in Nat : \E l, k \in 0 .. count : Wrong(l, k) /\ k - l + count = n}
<1>8. \A l, k \in 0 .. count : k - l + count \in Nat
  OBVIOUS
<1>9. T = {}
  <2> SUFFICES ASSUME T # {} PROVE FALSE
    OBVIOUS
  <2>1. PICK n \in T : \A m \in T : n <= m
    <3>1. T \subseteq Nat
      OBVIOUS
    <3> HIDE DEF T
    <3> QED BY <3>1, LeastNat
  <2>2. PICK l \in 0 .. count, k \in 0 .. count : Wrong(l, k) /\ k - l + count = n
    BY <2>1
  <2>3. ASSUME NEW x \in 0 .. count, NEW y \in 0 .. count, y - x < k - l
        PROVE  F[<<x, y>>] = Answer(off, b, x, y)
    <3>1. y - x + count \in Nat /\ ~ (n <= y - x + count)
      BY <2>2, <2>3
    <3>2. y - x + count \notin T
      BY <2>1, <3>1
    <3> QED BY <2>3, <3>1, <3>2
  <2>4. Tried(F, l, k, off, b) = Answer(off, b, l, k)
    BY <2>3, TriedAnswer
  <2> QED BY <1>7, <2>2, <2>4
<1>10. 0 \in 0 .. count /\ count \in 0 .. count
  OBVIOUS
<1>11. ~ Wrong(0, count)
  BY <1>8, <1>9, <1>10
<1> QED BY <1>1, <1>11

-----------------------------------------------------------------------------
(* The list answers as the dictionary does.                                *)

\* The first ones of a block are numbered behind those of the blocks in front.
LEMMA NumbersOfBlock ==
  ASSUME IndInv, phase = "built", NEW n, n = Len(h), NEW b \in Int
  PROVE  /\ InFront(n, b) \in Nat /\ Own(n, b) \in Nat /\ InFront(n, b) + Own(n, b) <= Cardinality(Firsts(n))
         /\ \A l \in Firsts(n) : Block(h[l]) = b
              <=> Cardinality(Firsts(l)) \in InFront(n, b) + 1 .. InFront(n, b) + Own(n, b)
         /\ (\A l \in Firsts(n) : Block(h[l]) <= b) => InFront(n, b) + Own(n, b) = Cardinality(Firsts(n))
<1> DEFINE F == Firsts(n)
           A == {l \in F : Block(h[l]) < b}
           O == {l \in F : Block(h[l]) = b}
           U == A \union O
<1>1. n \in Nat /\ n \in 0 .. Len(h)
  BY BcountNat
<1>2. /\ IsFiniteSet(F) /\ Cardinality(F) \in Nat
      /\ \A l \in F : l \in Nat /\ l \in 1 .. n /\ l \in 1 .. Len(h)
      /\ IsFiniteSet(O) /\ Own(n, b) \in Nat /\ IsFiniteSet(A) /\ InFront(n, b) \in Nat
  BY <1>1, FirstsFacts
<1>3. InFront(n, b) = Cardinality(A) /\ Own(n, b) = Cardinality(O)
  BY DEF InFront, Own
<1>4. \A l \in F : Block(h[l]) \in Int
  BY <1>2, BlocksInOrder
<1>5. \A l, k \in F : Block(h[k]) < Block(h[l]) => k < l
  <2>1. ASSUME NEW l \in F, NEW k \in F, Block(h[k]) < Block(h[l]) PROVE k < l
    <3>1. k \in Nat /\ l \in Nat /\ k \in 1 .. Len(h) /\ l \in 1 .. Len(h) /\ Block(h[k]) \in Int /\ Block(h[l]) \in Int
      BY <1>2, <1>4
    <3>2. l < k => Block(h[l]) <= Block(h[k])
      BY <3>1, BlocksInOrder
    <3>3. l = k => Block(h[l]) = Block(h[k])
      OBVIOUS
    <3> QED BY <2>1, <3>1, <3>2, <3>3
  <2> QED BY <2>1
<1>6. \A l \in F : \A k : k \in Firsts(l) <=> k \in F /\ (k = l \/ k < l)
  <2>1. \A m, k : k \in Firsts(m) <=> k \in 1 .. m /\ IsFirst(k)
    BY DEF Firsts, IsFirst
  <2>2. \A l \in F : \A k : k \in 1 .. l <=> k \in 1 .. n /\ (k = l \/ k < l)
    BY <1>1, <1>2
  <2> QED BY <2>1, <2>2
<1>7. A \intersect O = {} /\ \A l : l \in U <=> l \in F /\ (Block(h[l]) < b \/ Block(h[l]) = b)
  BY <1>4
<1>8. \A l : l \in A <=> l \in F /\ Block(h[l]) < b
  OBVIOUS
<1>9. IsFiniteSet(U) /\ Cardinality(U) = InFront(n, b) + Own(n, b)
  <2>1. IsFiniteSet(A \union O) /\ Cardinality(A \union O) = Cardinality(A) + Cardinality(O) - Cardinality(A \intersect O)
    <3> HIDE DEF A, O
    <3> QED BY <1>2, FS_Union
  <2>2. Cardinality(A \intersect O) = 0
    BY <1>7, FS_EmptySet
  <2> HIDE DEF A, O
  <2> QED BY <1>2, <1>3, <2>1, <2>2
<1> HIDE DEF A, O, U, F
<1>10. Cardinality(U) <= Cardinality(F)
  <2>1. U \in SUBSET F
    BY <1>7
  <2> QED BY <1>2, <2>1, FS_Subset
<1>11. ASSUME NEW l \in F
       PROVE  Block(h[l]) = b <=> Cardinality(Firsts(l)) \in InFront(n, b) + 1 .. InFront(n, b) + Own(n, b)
  <2>1. /\ IsFiniteSet(Firsts(l)) /\ Cardinality(Firsts(l)) \in Nat /\ l \in Firsts(l)
        /\ Block(h[l]) \in Int
        /\ \A k \in F : Block(h[k]) \in Int
    <3>1. l \in 0 .. Len(h)
      BY <1>1, <1>2
    <3> QED BY <1>4, <1>6, <3>1, FirstsFacts
  <2>2. \A k : k \in Firsts(l) => k \in F /\ Block(h[k]) <= Block(h[l])
    <3>1. ASSUME NEW k \in Firsts(l) PROVE k \in F /\ Block(h[k]) <= Block(h[l])
      <4>1. k \in F /\ (k = l \/ k < l) /\ l \in Nat /\ k \in Nat
        BY <1>2, <1>6
      <4>2. ~ (l < k)
        BY <4>1
      <4>3. ~ (Block(h[l]) < Block(h[k]))
        BY <1>5, <4>1, <4>2
      <4> QED BY <2>1, <4>1, <4>3
    <3> QED BY <3>1
  <2>3. Block(h[l]) < b => Cardinality(Firsts(l)) <= InFront(n, b)
    <3> SUFFICES ASSUME Block(h[l]) < b PROVE Cardinality(Firsts(l)) <= Cardinality(A)
      BY <1>3
    <3>1. Firsts(l) \in SUBSET A
      BY <1>8, <2>1, <2>2
    <3> QED BY <1>2, <3>1, FS_Subset
  <2>4. ~ (Block(h[l]) < b) => Cardinality(Firsts(l)) >= InFront(n, b) + 1
    <3> SUFFICES ASSUME ~ (Block(h[l]) < b) PROVE Cardinality(Firsts(l)) >= Cardinality(A) + 1
      BY <1>3
    <3>1. \A k \in A : k \in F /\ Block(h[k]) < Block(h[l])
      BY <1>8, <2>1
    <3>2. A \union {l} \in SUBSET Firsts(l) /\ l \notin A
      BY <1>5, <1>6, <1>8, <2>1, <3>1
    <3>3. Cardinality(A \union {l}) = Cardinality(A) + 1
      BY <1>2, <3>2, FS_AddElement
    <3>4. Cardinality(A \union {l}) <= Cardinality(Firsts(l))
      BY <2>1, <3>2, FS_Subset
    <3> QED BY <1>2, <1>3, <2>1, <3>3, <3>4
  <2>5. Block(h[l]) <= b => Cardinality(Firsts(l)) <= InFront(n, b) + Own(n, b)
    <3> SUFFICES ASSUME Block(h[l]) <= b PROVE Cardinality(Firsts(l)) <= Cardinality(U)
      BY <1>9
    <3>1. Firsts(l) \in SUBSET U
      BY <1>7, <2>1, <2>2
    <3> QED BY <1>9, <3>1, FS_Subset
  <2>6. ~ (Block(h[l]) <= b) => Cardinality(Firsts(l)) >= InFront(n, b) + Own(n, b) + 1
    <3> SUFFICES ASSUME ~ (Block(h[l]) <= b) PROVE Cardinality(Firsts(l)) >= Cardinality(U) + 1
      BY <1>9
    <3>1. \A k \in U : k \in F /\ Block(h[k]) < Block(h[l])
      BY <1>7, <2>1
    <3>2. U \union {l} \in SUBSET Firsts(l) /\ l \notin U
      BY <1>5, <1>6, <1>7, <2>1, <3>1
    <3>3. Cardinality(U \union {l}) = Cardinality(U) + 1
      BY <1>9, <3>2, FS_AddElement
    <3>4. Cardinality(U \union {l}) <= Cardinality(Firsts(l))
      BY <2>1, <3>2, FS_Subset
    <3>5. Cardinality(U) \in Nat
      BY <1>2, <1>9
    <3> QED BY <2>1, <3>3, <3>4, <3>5
  <2> QED BY <1>2, <2>1, <2>3, <2>4, <2>5, <2>6
<1>12. ASSUME \A l \in F : Block(h[l]) <= b PROVE InFront(n, b) + Own(n, b) = Cardinality(F)
  <2>1. \A l : l \in U <=> l \in F
    BY <1>4, <1>7, <1>12
  <2>2. U = F
    BY <2>1
  <2> QED BY <1>9, <2>2
<1> QED BY <1>2, <1>9, <1>10, <1>11, <1>12 DEF F

LEMMA NumbersGrow ==
  ASSUME IndInv, NEW n \in 0 .. Len(h), NEW l \in Firsts(n), NEW m \in Firsts(n)
  PROVE  /\ Cardinality(Firsts(l)) \in Nat /\ Cardinality(Firsts(m)) \in Nat /\ l \in Nat /\ m \in Nat
         /\ Cardinality(Firsts(l)) < Cardinality(Firsts(m)) => l < m
<1> DEFINE F == Firsts(n)
<1>1. IsFiniteSet(F) /\ (\A k \in F : k \in Nat) /\ Cardinality(F) \in Nat
  BY FirstsFacts
<1>2. F \subseteq Nat
  BY <1>1
<1>3. /\ Cardinality(Firsts(l)) = Under(F, l) + 1 /\ Cardinality(Firsts(m)) = Under(F, m) + 1
      /\ Cardinality(Firsts(l)) \in 1 .. Cardinality(F) /\ Cardinality(Firsts(m)) \in 1 .. Cardinality(F)
  BY FirstsNumbered
<1>4. l \in F /\ m \in F /\ l \in Nat /\ m \in Nat
  BY <1>1
<1> HIDE DEF F
<1>5. Under(F, l) \in Nat /\ Under(F, m) \in Nat
  BY <1>1, UnderNat
<1>6. m < l => Under(F, m) + 1 <= Under(F, l)
  BY <1>1, <1>2, <1>4, UnderGrows
<1> QED BY <1>1, <1>3, <1>4, <1>5, <1>6

\* A block holds its first ones, in order.
LEMMA BlockStored ==
  ASSUME IndInv, phase = "built", NEW n, n = Len(h), h # <<>>, NEW b \in 0 .. bcount - 1
  PROVE  /\ Own(n, b) \in Nat /\ BlockInOrder(HeaderWords + InFront(n, b), Own(n, b))
         /\ \A p \in 0 .. Own(n, b) - 1 : \E l \in Firsts(n) :
              Block(h[l]) = b /\ At64(HeaderWords + InFront(n, b), p) = Entry(h[l])
         /\ \A l \in Firsts(n) : Block(h[l]) = b =>
              \E p \in 0 .. Own(n, b) - 1 : At64(HeaderWords + InFront(n, b), p) = Entry(h[l])
<1> DEFINE F == Firsts(n)
           f == InFront(n, b)
           c == Own(n, b)
           off == HeaderWords + f
           num1(l) == Cardinality(Firsts(l))
<1>1. n \in Nat /\ n \in 0 .. Len(h) /\ bcount \in Nat /\ b \in Int
  BY BcountNat
<1>2. HeaderWords \in Nat
  <2> HIDE DEF bcount
  <2> QED BY <1>1 DEF HeaderWords
<1>3. /\ f \in Nat /\ c \in Nat /\ f + c <= Cardinality(F)
      /\ \A l \in F : Block(h[l]) = b <=> num1(l) \in f + 1 .. f + c
  BY <1>1, NumbersOfBlock
<1>4. /\ \A l \in F : os[num1(l)] = Entry(h[l])
      /\ i = n
  BY DEF IndInv, ListSoFar
<1>5. /\ Cardinality(F) \in Nat /\ \A l \in F : h[l] \in Made /\ l \in Nat /\ l \in 1 .. Len(h)
  BY <1>1, FirstsFacts
<1>6. \A r \in 1 .. Cardinality(F) : \E l \in F : num1(l) = r
  BY <1>1, NumberTaken
<1>7. \A l, m \in F : num1(l) \in Nat /\ num1(m) \in Nat /\ (num1(l) < num1(m) => l < m)
  BY <1>1, NumbersGrow
<1>8. \A l \in F : Entry(h[l]) \in Nat /\ Entry(h[l]) \div 16 = High(h[l]) /\ High(h[l]) \in Int
  <2>1. ASSUME NEW l \in F
        PROVE  Entry(h[l]) \in Nat /\ Entry(h[l]) \div 16 = High(h[l]) /\ High(h[l]) \in Int
    <3>1. h[l] \in Made
      BY <1>5
    <3> QED BY <1>1, <1>5, <3>1, EntryFacts, BlocksInOrder
  <2> QED BY <2>1
<1>9. \A l, m \in F : Block(h[l]) = Block(h[m]) /\ l < m => High(h[l]) < High(h[m])
  <2>1. ASSUME NEW l \in F, NEW m \in F, Block(h[l]) = Block(h[m]), l < m PROVE High(h[l]) < High(h[m])
    <3>1. l \in 1 .. Len(h) /\ m \in 1 .. Len(h) /\ h[l] \in Made /\ h[m] \in Made
      BY <1>5
    <3>2. ~ Before(h[m], h[l]) /\ High(h[l]) \in Int /\ High(h[m]) \in Int
      BY <2>1, <3>1, BlocksInOrder
    <3>3. High(h[l]) # High(h[m])
      <4>1. h[l].word # h[m].word
        BY <2>1, <3>1, OneFirst
      <4> QED BY <3>1, <4>1, SameString
    <3> QED BY <2>1, <3>2, <3>3 DEF Before
  <2> QED BY <2>1
<1>10. \A p : At64(off, p) = os[off + p - HeaderWords + 1]
  BY DEF At64
<1> HIDE DEF F, c, num1
<1>11. \A p \in Int : off + p - HeaderWords + 1 = f + p + 1
  <2> HIDE DEF f
  <2> QED BY <1>2, <1>3
<1> HIDE DEF f, off
<1>12. ASSUME NEW p \in 0 .. c - 1
       PROVE  \E l \in F : num1(l) = f + p + 1 /\ Block(h[l]) = b /\ At64(off, p) = Entry(h[l])
  <2>1. p \in Int /\ f + p + 1 \in 1 .. Cardinality(F) /\ f + p + 1 \in f + 1 .. f + c
    BY <1>3, <1>5, <1>12
  <2>2. PICK l \in F : num1(l) = f + p + 1
    BY <1>6, <2>1
  <2>3. Block(h[l]) = b
    BY <1>3, <2>1, <2>2
  <2>4. At64(off, p) = os[f + p + 1]
    BY <1>10, <1>11, <2>1
  <2> QED BY <1>4, <2>2, <2>3, <2>4
<1>13. ASSUME NEW l \in F, Block(h[l]) = b PROVE \E p \in 0 .. c - 1 : At64(off, p) = Entry(h[l])
  <2> DEFINE p == num1(l) - f - 1
  <2>1. num1(l) \in f + 1 .. f + c
    BY <1>3, <1>13
  <2>2. p \in 0 .. c - 1 /\ p \in Int /\ f + p + 1 = num1(l)
    BY <1>3, <2>1
  <2>3. At64(off, p) = os[num1(l)]
    BY <1>10, <1>11, <2>2
  <2> QED BY <1>4, <2>2, <2>3
<1>14. BlockInOrder(off, c)
  <2>1. ASSUME NEW p \in 0 .. c - 1 PROVE At64(off, p) \in Nat
    BY <1>8, <1>12
  <2>2. ASSUME NEW p \in 0 .. c - 1, NEW q \in 0 .. c - 1, p < q
        PROVE  At64(off, p) \div 16 < At64(off, q) \div 16
    <3>1. PICK l \in F : num1(l) = f + p + 1 /\ Block(h[l]) = b /\ At64(off, p) = Entry(h[l])
      BY <1>12
    <3>2. PICK m \in F : num1(m) = f + q + 1 /\ Block(h[m]) = b /\ At64(off, q) = Entry(h[m])
      BY <1>12
    <3>3. f + p + 1 < f + q + 1
      BY <1>3, <2>2
    <3>4. l < m
      BY <1>7, <3>1, <3>2, <3>3
    <3> QED BY <1>8, <1>9, <3>1, <3>2, <3>4
  <2> QED BY <2>1, <2>2 DEF BlockInOrder
<1> QED BY <1>3, <1>12, <1>13, <1>14 DEF F, c, f, off

\* What is looked up has the high bits of its own hashes only.
LEMMA LookedUp ==
  ASSUME IndInv, h # <<>>, NEW s \in Strings, NEW x, x = Hashed(s, None)
  PROVE  /\ x.b \in Nat /\ Block(x) \in 0 .. bcount - 1
         /\ \A y \in Made : (High(y) = x.b \div 16 <=> y.word = s) /\ (y.word = s => Block(y) = Block(x))
<1>1. hash \in DOMAIN Hashes /\ bcount \in Nat \ {0}
  BY BlockFacts DEF IndInv, TypeOK
<1>2. x.a = Hashes[hash].a[s] /\ x.b = Hashes[hash].b[s] /\ x.a \in Nat /\ x.b \in Nat
  BY <1>1, HashAssumption DEF Hashed
<1>3. Block(x) \in 0 .. bcount - 1
  <2>1. x.a \in Int
    BY <1>2
  <2> HIDE DEF bcount
  <2> QED BY <1>1, <2>1, ModRange DEF Block
<1>4. ASSUME NEW y \in Made
      PROVE  (High(y) = x.b \div 16 <=> y.word = s) /\ (y.word = s => Block(y) = Block(x))
  <2>1. y.word \in Strings /\ y.a = Hashes[hash].a[y.word] /\ y.b = Hashes[hash].b[y.word]
    BY MadeFacts DEF IsHash, Hashed
  <2>2. Hashes[hash].b[y.word] \div 16 = Hashes[hash].b[s] \div 16 => y.word = s
    BY <1>1, <2>1, HashAssumption
  <2> QED BY <1>2, <2>1, <2>2 DEF High, Block
<1> QED BY <1>2, <1>3, <1>4

\* The hashes are those the entries register.
LEMMA HashesOfEntries ==
  ASSUME IndInv, phase = "built"
  PROVE  /\ \A m \in DOMAIN list : /\ list[m] \in [word : Strings \ {<<>>}, key : 0 .. 15]
                                   /\ list[m].word \in Strings /\ list[m].word # <<>> /\ list[m].key \in 0 .. 15
         /\ \A k \in 1 .. Len(h) : \E m \in DOMAIN list : h[k] \in Registers(list[m])
         /\ \A m \in DOMAIN list : \A y \in Registers(list[m]) : \E k \in 1 .. Len(h) : h[k] = y
<1> DEFINE Item == [word : Strings \ {<<>>}, key : 0 .. 15]
<1>1. list \in Seq(Item)
  BY DEF IndInv, TypeOK
<1>2. \A m \in DOMAIN list : list[m] \in Item
  <2>1. DOMAIN list = 1 .. Len(list)
    BY <1>1, LenProperties
  <2> HIDE DEF Item
  <2> QED BY <1>1, <2>1, ElementOfSeq
<1>3. \A e \in Item : e.word \in Strings /\ e.word # <<>> /\ e.key \in 0 .. 15
  OBVIOUS
<1>4. DOMAIN h = 1 .. Len(h)
  BY BcountNat
<1>5. Elements(h) = UNION {Registers(list[m]) : m \in DOMAIN list}
  BY DEF IndInv, HashesMade, Elements
<1>6. \A y : y \in Elements(h) <=> \E k \in 1 .. Len(h) : h[k] = y
  BY <1>4 DEF Elements
<1>7. \A y : y \in Elements(h) <=> \E m \in DOMAIN list : y \in Registers(list[m])
  BY <1>5
<1> QED BY <1>2, <1>3, <1>6, <1>7

LEMMA RegistersFacts ==
  ASSUME NEW e \in [word : Strings \ {<<>>}, key : 0 .. 15], NEW y \in Registers(e)
  PROVE  \/ y.word = e.word /\ y.f = e.key
         \/ /\ y.f = 15
            /\ \E q \in 1 .. (Len(e.word) - 1) \div CHUNK : y.word = SubSeq(e.word, 1, q * CHUNK)
<1>1. CASE y = Hashed(e.word, e.key)
  BY <1>1 DEF Hashed
<1>2. ASSUME NEW q \in 1 .. (Len(e.word) - 1) \div CHUNK, y = Hashed(SubSeq(e.word, 1, q * CHUNK), 15)
      PROVE  y.f = 15 /\ y.word = SubSeq(e.word, 1, q * CHUNK)
  BY <1>2 DEF Hashed
<1> QED BY <1>1, <1>2 DEF Registers

Keys(s) == {list[n].key : n \in {m \in DOMAIN list : list[m].word = s}}

LEMMA DictFacts ==
  ASSUME IndInv, phase = "built"
  PROVE  /\ DOMAIN Dict = Words
         /\ \A s : s \in Words <=> \E m \in DOMAIN list : list[m].word = s
         /\ \A s \in Words : /\ \E m \in DOMAIN list : list[m].word = s /\ list[m].key = Dict[s]
                             /\ \A m \in DOMAIN list : list[m].word = s => Dict[s] <= list[m].key
<1>1. DOMAIN Dict = Words
  BY DEF Dict
<1>2. \A s : s \in Words <=> \E m \in DOMAIN list : list[m].word = s
  BY DEF Words
<1>3. ASSUME NEW s \in Words
      PROVE  /\ \E m \in DOMAIN list : list[m].word = s /\ list[m].key = Dict[s]
             /\ \A m \in DOMAIN list : list[m].word = s => Dict[s] <= list[m].key
  <2>1. \A v : v \in Keys(s) <=> \E m \in DOMAIN list : list[m].word = s /\ list[m].key = v
    BY DEF Keys
  <2>2. Keys(s) \subseteq Nat
    BY <2>1, HashesOfEntries
  <2>3. Keys(s) # {}
    BY <1>2, <1>3, <2>1
  <2>4. Dict[s] = Min(Keys(s))
    BY <1>3 DEF Dict, Keys
  <2>5. Min(Keys(s)) \in Keys(s) /\ \A v \in Keys(s) : Min(Keys(s)) <= v
    BY <2>2, <2>3, MinNat
  <2> QED BY <2>1, <2>4, <2>5
<1> QED BY <1>1, <1>2, <1>3

\* The prefixes that are registered are those of the dictionary's words.
LEMMA RegisteredFacts ==
  ASSUME IndInv, phase = "built", NEW s \in Strings
  PROVE  Registered(Dict, s)
           <=> \E m \in DOMAIN list : \E q \in 1 .. (Len(list[m].word) - 1) \div CHUNK :
                 s = SubSeq(list[m].word, 1, q * CHUNK)
<1>1. \A w \in Strings : w \in Seq(DOMAIN Low) /\ Len(w) \in Nat
  BY StringsAssumption, LenProperties
<1>2. \A m \in DOMAIN list : list[m].word \in Strings
  BY HashesOfEntries
<1>3. CHUNK \in Nat \ {0}
  BY ChunkAssumption
<1>4. ASSUME Registered(Dict, s)
      PROVE  \E m \in DOMAIN list : \E q \in 1 .. (Len(list[m].word) - 1) \div CHUNK :
               s = SubSeq(list[m].word, 1, q * CHUNK)
  <2>1. /\ s # <<>> /\ Len(s) % CHUNK = 0
        /\ \E w \in DOMAIN Dict : Len(s) < Len(w) /\ SubSeq(w, 1, Len(s)) = s
    BY <1>4 DEF Registered
  <2>2. PICK m \in DOMAIN list : Len(s) < Len(list[m].word) /\ SubSeq(list[m].word, 1, Len(s)) = s
    BY <2>1, DictFacts
  <2> DEFINE q == Len(s) \div CHUNK
             c == Len(list[m].word) - 1
  <2>3. Len(s) \in Nat \ {0} /\ c \in Int /\ Len(s) <= c
    <3>1. Len(s) \in Nat /\ Len(s) # 0
      BY <1>1, <2>1, EmptySeq
    <3>2. Len(list[m].word) \in Nat
      BY <1>1, <1>2
    <3> QED BY <2>2, <3>1, <3>2
  <2>4. Len(s) = CHUNK * q + (Len(s) % CHUNK) /\ q \in Int
    <3>1. Len(s) = CHUNK * (Len(s) \div CHUNK) + (Len(s) % CHUNK)
      BY <1>3, <2>3, DivMod
    <3> QED BY <1>3, <2>3, <3>1
  <2> HIDE DEF q, c
  <2>5. q * CHUNK = Len(s)
    <3>1. Len(s) = CHUNK * q + 0
      BY <2>1, <2>4
    <3>2. CHUNK * q + 0 = q * CHUNK
      BY <1>3, <2>4
    <3> QED BY <3>1, <3>2
  <2>6. q <= c \div CHUNK
    BY <1>3, <2>3, <2>4, <2>5, MultipleWithin
  <2>7. q >= 1
    <3> SUFFICES ASSUME q <= 0 PROVE FALSE
      BY <2>4
    <3>1. q * CHUNK <= 0
      BY <1>3, <2>4
    <3> QED BY <2>3, <2>5, <3>1
  <2>8. q \in 1 .. c \div CHUNK
    BY <1>3, <2>3, <2>4, <2>6, <2>7
  <2>9. s = SubSeq(list[m].word, 1, q * CHUNK)
    BY <2>2, <2>5
  <2> QED BY <2>8, <2>9 DEF c
<1>5. ASSUME NEW m \in DOMAIN list, NEW q \in 1 .. (Len(list[m].word) - 1) \div CHUNK,
             s = SubSeq(list[m].word, 1, q * CHUNK)
      PROVE  Registered(Dict, s)
  <2> DEFINE w == list[m].word
  <2>1. w \in Strings /\ w \in DOMAIN Dict
    BY <1>2, DictFacts
  <2>2. q * CHUNK < Len(w) /\ s # <<>> /\ Len(s) = q * CHUNK
    BY <1>5, <2>1, PrefixFacts
  <2>3. Len(s) % CHUNK = 0
    <3>1. q \in Int
      BY <1>1, <1>2, <1>3
    <3>2. (CHUNK * q + 0) % CHUNK = 0
      BY <1>3, <3>1, ModUnique
    <3>3. CHUNK * q + 0 = q * CHUNK
      BY <1>3, <3>1
    <3> QED BY <2>2, <3>2, <3>3
  <2>4. Len(s) < Len(w) /\ SubSeq(w, 1, Len(s)) = s
    BY <1>5, <2>2
  <2> HIDE DEF w
  <2> QED BY <2>1, <2>2, <2>3, <2>4 DEF Registered
<1> QED BY <1>4, <1>5

\* The first hash of a string has the key that is looked up,
LEMMA FirstKey ==
  ASSUME IndInv, phase = "built", NEW l \in Firsts(Len(h)), NEW s, s = h[l].word
  PROVE  s \in Strings /\ h[l].f = Lookup(Dict, s)
<1>1. Len(h) \in Nat /\ Len(h) \in 0 .. Len(h)
  BY BcountNat
<1>2. l \in Nat /\ l \in 1 .. Len(h) /\ h[l] \in Made
  BY <1>1, FirstsFacts
<1>3. s \in Strings /\ h[l].f \in 0 .. 15
  BY <1>2, MadeFacts
<1>4. ASSUME NEW k \in 1 .. Len(h), h[k].word = s PROVE h[l].f <= h[k].f
  <2>1. h[k] \in Made /\ h[k].f \in 0 .. 15 /\ k \in Nat
    BY <1>1, BlocksInOrder, MadeFacts
  <2>2. ~ (k < l)
    BY <1>4, OneFirst
  <2>3. CASE k = l
    BY <2>1, <2>3
  <2>4. CASE l < k
    <3>1. ~ Before(h[k], h[l])
      BY <1>2, <2>4, BlocksInOrder
    <3>2. Block(h[k]) = Block(h[l]) /\ High(h[k]) = High(h[l])
      BY <1>2, <1>4, <2>1, SameString
    <3>3. Block(h[l]) \in Int /\ High(h[l]) \in Int
      BY <1>2, BlocksInOrder
    <3>4. ~ (h[k].f < h[l].f)
      BY <3>1, <3>2, <3>3 DEF Before
    <3>5. h[l].f \in Int /\ h[k].f \in Int
      BY SMTT(20), <1>3, <2>1
    <3> QED BY ONLY <3>4, <3>5
  <2> QED BY <1>2, <2>1, <2>2, <2>3, <2>4
<1>5. PICK e \in DOMAIN list : h[l] \in Registers(list[e])
  BY <1>2, HashesOfEntries
<1>6. \/ s = list[e].word /\ h[l].f = list[e].key
      \/ /\ h[l].f = 15
         /\ \E q \in 1 .. (Len(list[e].word) - 1) \div CHUNK : s = SubSeq(list[e].word, 1, q * CHUNK)
  BY <1>5, HashesOfEntries, RegistersFacts
<1>7. CASE s \in Words
  <2>1. PICK m \in DOMAIN list : list[m].word = s /\ list[m].key = Dict[s]
    BY <1>7, DictFacts
  <2>2. Dict[s] \in 0 .. 15
    BY <2>1, HashesOfEntries
  <2>3. h[l].f <= Dict[s]
    <3>1. Hashed(s, Dict[s]) \in Registers(list[m])
      BY <2>1 DEF Registers
    <3>2. PICK k \in 1 .. Len(h) : h[k] = Hashed(s, Dict[s])
      BY <3>1, HashesOfEntries
    <3>3. h[k].word = s /\ h[k].f = Dict[s]
      BY <3>2 DEF Hashed
    <3> QED BY <1>4, <3>3
  <2>4. Dict[s] <= h[l].f
    <3>1. CASE s = list[e].word /\ h[l].f = list[e].key
      BY <1>7, <3>1, DictFacts
    <3>2. CASE h[l].f = 15
      BY <2>2, <3>2
    <3> QED BY <1>6, <3>1, <3>2
  <2>5. h[l].f = Dict[s]
    <3>1. h[l].f \in Int /\ Dict[s] \in Int
      BY <1>3, <2>2
    <3> QED BY ONLY <2>3, <2>4, <3>1
  <2> QED BY <1>3, <1>7, <2>5, DictFacts DEF Lookup
<1>8. CASE s \notin Words
  <2>1. s # list[e].word
    BY <1>8, DictFacts
  <2>2. h[l].f = 15 /\ Registered(Dict, s)
    BY <1>3, <1>6, <2>1, RegisteredFacts
  <2> QED BY <1>3, <1>8, <2>2, DictFacts DEF Lookup
<1> QED BY <1>7, <1>8

\* and what has no hash is neither a word nor a prefix.
LEMMA NoFirst ==
  ASSUME IndInv, phase = "built", NEW s \in Strings, \A l \in Firsts(Len(h)) : h[l].word # s
  PROVE  Lookup(Dict, s) = -1
<1>1. Len(h) \in Nat
  BY BcountNat
<1>2. \A k \in 1 .. Len(h) : h[k].word # s
  <2> DEFINE T == {k \in 1 .. Len(h) : h[k].word = s}
  <2> SUFFICES ASSUME T # {} PROVE FALSE
    OBVIOUS
  <2>1. T \subseteq Nat
    BY <1>1
  <2>2. \A k : k \in T <=> k \in 1 .. Len(h) /\ h[k].word = s
    OBVIOUS
  <2> HIDE DEF T
  <2>3. PICK k \in T : \A m \in T : k <= m
    BY <2>1, LeastNat
  <2>4. k \in 1 .. Len(h) /\ k \in Nat /\ h[k].word = s
    BY <2>1, <2>2
  <2>5. k # 1 => k - 1 \in 1 .. Len(h) /\ ~ (k <= k - 1)
    BY <1>1, <2>4
  <2>6. k # 1 => h[k - 1].word # s
    BY <2>2, <2>3, <2>5
  <2>7. k \in Firsts(Len(h))
    BY <2>4, <2>6 DEF Firsts
  <2> QED BY <2>4, <2>7
<1>3. ASSUME NEW m \in DOMAIN list, NEW f, Hashed(s, f) \in Registers(list[m]) PROVE FALSE
  <2>1. PICK k \in 1 .. Len(h) : h[k] = Hashed(s, f)
    BY <1>3, HashesOfEntries
  <2>2. h[k].word = s
    BY <2>1 DEF Hashed
  <2> QED BY <1>2, <2>2
<1>4. s \notin Words
  <2> SUFFICES ASSUME NEW m \in DOMAIN list, list[m].word = s PROVE FALSE
    BY DictFacts
  <2>1. Hashed(s, list[m].key) \in Registers(list[m])
    BY DEF Registers
  <2> QED BY <1>3, <2>1
<1>5. ~ Registered(Dict, s)
  <2> SUFFICES ASSUME NEW m \in DOMAIN list, NEW q \in 1 .. (Len(list[m].word) - 1) \div CHUNK,
                      s = SubSeq(list[m].word, 1, q * CHUNK)
               PROVE  FALSE
    BY RegisteredFacts
  <2>1. Hashed(s, 15) \in Registers(list[m])
    BY DEF Registers
  <2> QED BY <1>3, <2>1
<1> QED BY <1>4, <1>5, DictFacts DEF Lookup

\* A header whose parts fit can be taken apart.
LEMMA HeaderParts ==
  ASSUME NEW p \in 0 .. OffsetLimit - 1, NEW c \in 0 .. 255
  PROVE  Header(p, c) \in Nat /\ Header(p, c) \div 256 = p /\ Header(p, c) % 256 = c
<1>1. p % OffsetLimit = p /\ p \in Nat
  BY LimitNat
<1>2. Header(p, c) = p * 256 + c
  BY <1>1 DEF Header
<1> QED BY <1>1, <1>2

\* A list with blocks has hashes, and its headers can be taken apart.
LEMMA BuiltFacts ==
  ASSUME IndInv, phase = "built", bcount > 0, CountsFit, OffsetsFit
  PROVE  /\ h # <<>> /\ bcount \in Nat \ {0} /\ num \in 0 .. bcount - 1
         /\ \A l \in Firsts(Len(h)) : Block(h[l]) <= num
         /\ \A b \in 0 .. bcount - 1 :
              /\ ol[b + 1] # None <=> b <= num
              /\ b <= num => /\ ol[b + 1] \div 256 = HeaderWords + InFront(Len(h), b)
                             /\ ol[b + 1] % 256 = Own(Len(h), b)
<1> DEFINE n == Len(h)
<1>1. n \in Nat /\ DOMAIN h = 1 .. n /\ h \in Seq(Made) /\ bcount \in Nat /\ n \in 0 .. Len(h)
  BY BcountNat
<1>2. h # <<>>
  <2> SUFFICES ASSUME h = <<>> PROVE FALSE
    OBVIOUS
  <2>1. n = 0
    BY EmptySeq
  <2>2. bcount = (BSIZE - 1) \div BSIZE
    <3>1. BSIZE \in Nat
      BY ListAssumption
    <3>2. Len(h) + BSIZE - 1 = BSIZE - 1
      BY <2>1, <3>1
    <3> QED BY <3>2 DEF bcount
  <2>3. BSIZE \in Nat \ {0}
    BY ListAssumption
  <2>4. BSIZE - 1 \in Int /\ ~ (1 * BSIZE <= BSIZE - 1)
    BY <2>3
  <2>5. ~ (1 <= (BSIZE - 1) \div BSIZE)
    BY <2>3, <2>4, MultipleWithin
  <2> HIDE DEF bcount
  <2> QED BY <1>1, <2>2, <2>5
<1>3. /\ i = n /\ num = IF i = 0 THEN -1 ELSE Block(h[i])
      /\ \A k \in 1 .. bcount :
           ol[k] = IF k - 1 > num THEN None ELSE Header(HeaderWords + InFront(i, k - 1), Own(i, k - 1))
  BY DEF IndInv, ListSoFar
<1>4. n \in 1 .. n /\ n # 0
  BY <1>1, <1>2, EmptySeq
<1>5. num = Block(h[n]) /\ num \in 0 .. bcount - 1
  BY <1>3, <1>4, BlocksInOrder
<1>6. ASSUME NEW l \in Firsts(n) PROVE Block(h[l]) <= num
  <2>1. l \in 1 .. n /\ l \in Nat
    BY <1>1, FirstsFacts
  <2>2. n \in 1 .. Len(h) /\ l \in 1 .. Len(h)
    BY <1>4, <2>1
  <2> HIDE DEF n
  <2>3. l < n => Block(h[l]) <= Block(h[n])
    BY <2>2, BlocksInOrder
  <2>4. l = n \/ l < n
    BY <1>1, <2>1
  <2> QED BY <1>1, <1>5, <2>3, <2>4
<1>7. HeaderWords \in Nat
  <2> HIDE DEF bcount
  <2> QED BY <1>1 DEF HeaderWords
<1>8. ASSUME NEW b \in 0 .. bcount - 1
      PROVE  /\ ol[b + 1] # None <=> b <= num
             /\ b <= num => /\ ol[b + 1] \div 256 = HeaderWords + InFront(n, b)
                            /\ ol[b + 1] % 256 = Own(n, b)
  <2>1. b + 1 \in 1 .. bcount /\ b + 1 - 1 = b /\ b \in Int /\ num \in Int
    BY <1>1, <1>5
  <2>2. ol[b + 1] = IF b > num THEN None ELSE Header(HeaderWords + InFront(n, b), Own(n, b))
    <3>1. ol[b + 1] = IF b + 1 - 1 > num THEN None
                      ELSE Header(HeaderWords + InFront(i, b + 1 - 1), Own(i, b + 1 - 1))
      BY <1>3, <2>1
    <3> QED BY <1>3, <2>1, <3>1
  <2>3. Own(n, b) \in 0 .. 255 /\ HeaderWords + InFront(n, b) \in 0 .. OffsetLimit - 1
    <3>1. Own(n, b) < 256
      BY DEF CountsFit
    <3>2. Own(n, b) \in Nat /\ InFront(n, b) \in Nat
      BY <1>1, FirstsFacts
    <3>3. InFront(n, b) <= n
      <4>1. {l \in Firsts(n) : Block(h[l]) < b} \in SUBSET (1 .. n)
        BY DEF Firsts
      <4>2. IsFiniteSet(1 .. n) /\ Cardinality(1 .. n) = n
        BY <1>1, FS_Interval
      <4> QED BY <4>1, <4>2, FS_Subset DEF InFront
    <3>4. HeaderWords + n < OffsetLimit /\ OffsetLimit \in Nat
      BY LimitNat DEF OffsetsFit
    <3> DEFINE o == Own(n, b)
               f == InFront(n, b)
    <3>5. /\ o \in Nat /\ o < 256 /\ f \in Nat /\ f <= n /\ n \in Nat
          /\ HeaderWords \in Nat /\ HeaderWords + n < OffsetLimit
      BY <1>1, <1>7, <3>1, <3>2, <3>3, <3>4
    <3> HIDE DEF n, o, f
    <3>6. o \in 0 .. 255 /\ HeaderWords + f \in 0 .. OffsetLimit - 1
      BY ONLY <3>4, <3>5
    <3> QED BY <3>6 DEF o, f
  <2>4. \A p \in 0 .. OffsetLimit - 1 : \A c \in 0 .. 255 :
          Header(p, c) \in Nat /\ Header(p, c) \div 256 = p /\ Header(p, c) % 256 = c
    BY HeaderParts
  <2>5. None \notin Nat
    BY ListAssumption
  <2> HIDE DEF n, bcount
  <2>6. ASSUME b > num PROVE ol[b + 1] = None /\ ~ (b <= num)
    BY <2>1, <2>2, <2>6
  <2>7. ASSUME b <= num
        PROVE  /\ ol[b + 1] # None /\ ol[b + 1] \div 256 = HeaderWords + InFront(n, b)
               /\ ol[b + 1] % 256 = Own(n, b)
    <3>1. ol[b + 1] = Header(HeaderWords + InFront(n, b), Own(n, b))
      BY <2>1, <2>2, <2>7
    <3> DEFINE p == HeaderWords + InFront(n, b)
               c == Own(n, b)
    <3>2. p \in 0 .. OffsetLimit - 1 /\ c \in 0 .. 255 /\ ol[b + 1] = Header(p, c)
      BY <2>3, <3>1
    <3> HIDE DEF p, c
    <3>3. Header(p, c) \in Nat /\ Header(p, c) \div 256 = p /\ Header(p, c) % 256 = c
      BY ONLY <2>4, <3>2
    <3> QED BY <2>5, <3>2, <3>3 DEF p, c
  <2>8. b > num \/ b <= num
    BY <2>1
  <2> QED BY <2>6, <2>7, <2>8
<1> QED BY <1>1, <1>2, <1>4, <1>5, <1>6, <1>8

\* What is found for a string is what the dictionary says of it.
LEMMA StringAnswered ==
  ASSUME IndInv, phase = "built", bcount > 0, CountsFit, OffsetsFit, NEW s \in Strings, NEW x, x = Hashed(s, None)
  PROVE  IF Written(x) THEN Seekhash(x) = Lookup(Dict, s) ELSE Lookup(Dict, s) = -1
<1> DEFINE F == Firsts(Len(h))
           off == HeaderWords + InFront(Len(h), Block(x))
           c == Own(Len(h), Block(x))
<1>1. h # <<>> /\ num \in Int /\ bcount \in Nat
  BY BuiltFacts
<1>2. /\ x.b \in Nat /\ Block(x) \in 0 .. bcount - 1
      /\ \A y \in Made : (High(y) = x.b \div 16 <=> y.word = s) /\ (y.word = s => Block(y) = Block(x))
  BY <1>1, LookedUp
<1>3. Block(x) \in Int
  BY <1>1, <1>2
<1>4. Written(x) <=> Block(x) <= num
  BY <1>2, BuiltFacts DEF Written
<1>5. \A l \in F : l \in 1 .. Len(h) /\ h[l] \in Made
  <2>1. Len(h) \in 0 .. Len(h)
    BY BcountNat
  <2> QED BY <2>1, FirstsFacts
<1>6. ASSUME NEW l \in F, h[l].word = s
      PROVE  h[l].f = Lookup(Dict, s) /\ Block(h[l]) = Block(x) /\ Block(h[l]) <= num
  BY <1>2, <1>5, <1>6, FirstKey, BuiltFacts
<1>7. CASE ~ Written(x)
  <2>1. \A l \in F : h[l].word # s
    BY <1>4, <1>6, <1>7
  <2> QED BY <1>7, <2>1, NoFirst
<1>8. CASE Written(x)
  <2>1. /\ c \in Nat /\ BlockInOrder(off, c)
        /\ \A p \in 0 .. c - 1 : \E l \in F : Block(h[l]) = Block(x) /\ At64(off, p) = Entry(h[l])
        /\ \A l \in F : Block(h[l]) = Block(x) => \E p \in 0 .. c - 1 : At64(off, p) = Entry(h[l])
    BY <1>1, <1>2, BlockStored
  <2>2. Seekhash(x) = Search(off, c, x.b)
    BY <1>2, <1>4, <1>8, BuiltFacts DEF Seekhash
  <2>3. Search(off, c, x.b) = Answer(off, x.b, 0, c)
    BY <1>2, <2>1, SearchFinds
  <2> HIDE DEF F, off, c
  <2>4. ASSUME NEW p \in 0 .. c - 1, At64(off, p) \div 16 = x.b \div 16
        PROVE  At64(off, p) % 16 = Lookup(Dict, s) /\ \E l \in F : h[l].word = s
    <3>1. PICK l \in F : At64(off, p) = Entry(h[l])
      BY <2>1
    <3>2. Entry(h[l]) \div 16 = High(h[l]) /\ Entry(h[l]) % 16 = h[l].f
      BY <1>1, <1>5, EntryFacts
    <3>3. High(h[l]) = x.b \div 16
      BY <2>4, <3>1, <3>2
    <3>4. h[l].word = s
      BY <1>2, <1>5, <3>3
    <3> QED BY <1>6, <3>1, <3>2, <3>4 DEF F
  <2>5. \A p : p \in Places(off, x.b, 0, c) <=> p \in 0 .. c - 1 /\ At64(off, p) \div 16 = x.b \div 16
    BY DEF Places
  <2>6. ASSUME NEW l \in F, h[l].word = s PROVE Places(off, x.b, 0, c) # {}
    <3>1. PICK p \in 0 .. c - 1 : At64(off, p) = Entry(h[l])
      BY <1>6, <2>1, <2>6 DEF F
    <3>2. Entry(h[l]) \div 16 = High(h[l]) /\ High(h[l]) = x.b \div 16
      BY <1>1, <1>2, <1>5, <2>6, EntryFacts
    <3>3. At64(off, p) \div 16 = x.b \div 16
      BY <3>1, <3>2
    <3> QED BY <2>5, <3>3
  <2>7. Answer(off, x.b, 0, c) = Lookup(Dict, s)
    <3>1. CASE Places(off, x.b, 0, c) = {}
      <4>1. Lookup(Dict, s) = -1
        BY <2>6, <3>1, NoFirst DEF F
      <4> QED BY <3>1, <4>1 DEF Answer
    <3>2. CASE Places(off, x.b, 0, c) # {}
      <4> DEFINE q == CHOOSE p : p \in Places(off, x.b, 0, c)
      <4>1. q \in Places(off, x.b, 0, c)
        BY <3>2
      <4>2. Answer(off, x.b, 0, c) = At64(off, q) % 16
        BY <3>2 DEF Answer
      <4> HIDE DEF q
      <4> QED BY <2>4, <2>5, <4>1, <4>2
    <3> QED BY <3>1, <3>2
  <2> QED BY <1>8, <2>2, <2>3, <2>7
<1> QED BY <1>7, <1>8

\* The mask is behind the last hash.
LEMMA MaskFound ==
  ASSUME IndInv, phase = "built", bcount > 0, CountsFit, OffsetsFit, ol[bcount] # None
  PROVE  MaskAt = Top
<1> DEFINE n == Len(h)
<1>1. /\ h # <<>> /\ bcount \in Nat \ {0} /\ num \in 0 .. bcount - 1
      /\ \A l \in Firsts(n) : Block(h[l]) <= num
      /\ \A b \in 0 .. bcount - 1 :
           /\ ol[b + 1] # None <=> b <= num
           /\ b <= num => /\ ol[b + 1] \div 256 = HeaderWords + InFront(n, b)
                          /\ ol[b + 1] % 256 = Own(n, b)
  BY BuiltFacts
<1>2. i = n /\ Len(os) = Cardinality(Firsts(n))
  BY DEF IndInv, ListSoFar
<1> DEFINE b == bcount - 1
<1>3. b \in 0 .. bcount - 1 /\ b + 1 = bcount /\ b \in Int
  BY <1>1
<1>4. ol[bcount] # None <=> b <= num
  BY <1>1, <1>3
<1>5. b = num
  BY <1>1, <1>3, <1>4
<1>6. ol[bcount] \div 256 = HeaderWords + InFront(n, b) /\ ol[bcount] % 256 = Own(n, b)
  BY <1>1, <1>3, <1>5
<1>7. HeaderWords \in Nat
  <2> HIDE DEF bcount
  <2> QED BY <1>1 DEF HeaderWords
<1> HIDE DEF n, b
<1>8. \A l \in Firsts(n) : Block(h[l]) <= b
  BY <1>1, <1>5
<1>9. n = Len(h)
  BY DEF n
<1>10. InFront(n, b) \in Nat /\ Own(n, b) \in Nat /\ InFront(n, b) + Own(n, b) = Cardinality(Firsts(n))
  BY <1>3, <1>8, <1>9, NumbersOfBlock
<1>11. (HeaderWords + InFront(n, b)) + Own(n, b) = HeaderWords + Len(os)
  BY <1>2, <1>7, <1>10
<1> QED BY <1>6, <1>11 DEF MaskAt, Top

\* A list has no blocks when the file has no words.
LEMMA NoBlocks ==
  ASSUME IndInv, phase = "built", data \in Files
  PROVE  bcount = 0 <=> Starts = {}
<1>1. DOMAIN h = 1 .. Len(h) /\ Len(h) \in Nat /\ bcount \in Nat
  BY BcountNat
<1>2. bcount = 0 <=> Len(h) = 0
  <2>1. BSIZE \in Nat \ {0}
    BY ListAssumption
  <2>2. ASSUME Len(h) = 0 PROVE bcount = 0
    <3>1. BSIZE - 1 \in Int /\ ~ (1 * BSIZE <= BSIZE - 1)
      BY <2>1
    <3>2. ~ (1 <= (BSIZE - 1) \div BSIZE)
      BY <2>1, <3>1, MultipleWithin
    <3>3. Len(h) + BSIZE - 1 = BSIZE - 1
      BY <2>1, <2>2
    <3>4. bcount = (BSIZE - 1) \div BSIZE
      BY <3>3 DEF bcount
    <3> HIDE DEF bcount
    <3> QED BY <1>1, <3>2, <3>4
  <2>3. ASSUME Len(h) # 0 PROVE bcount # 0
    <3>1. Len(h) + BSIZE - 1 \in Int /\ 1 * BSIZE <= Len(h) + BSIZE - 1
      BY <1>1, <2>1, <2>3
    <3>2. 1 <= (Len(h) + BSIZE - 1) \div BSIZE
      BY <2>1, <3>1, MultipleWithin
    <3>3. 1 <= bcount
      BY <3>2 DEF bcount
    <3> HIDE DEF bcount
    <3> QED BY <1>1, <3>3
  <2> QED BY <2>2, <2>3
<1>3. Len(h) = 0 <=> Len(list) = 0
  <2>1. DOMAIN list = 1 .. Len(list) /\ Len(list) \in Nat
    BY LenProperties DEF IndInv, TypeOK
  <2>2. \A m \in DOMAIN list : Hashed(list[m].word, list[m].key) \in Registers(list[m])
    BY DEF Registers
  <2>3. Len(h) = 0 => Len(list) = 0
    BY <1>1, <2>1, <2>2, HashesOfEntries
  <2>4. Len(list) = 0 => Len(h) = 0
    BY <1>1, <2>1, HashesOfEntries
  <2> QED BY <2>3, <2>4
<1>4. Len(list) = Cardinality(Starts)
  BY DEF IndInv, LinesParsed
<1>5. Cardinality(Starts) = 0 <=> Starts = {}
  BY StartsFinite, FS_EmptySet
<1> HIDE DEF bcount
<1> QED BY <1>2, <1>3, <1>4, <1>5

\* The published list has blocks unless the file has no words; with blocks it
\* answers as the dictionary does for every string whose block has a header, every
\* block up to the last that holds a hash has one, and the mask is where iword_mask
\* looks for it when that is the last block of all (iword_makelist, iword_seekhash).
THEOREM ListAnswers == Spec => []LookupsAgree
<1>1. ASSUME IndInv, Built, bcount > 0, CountsFit, OffsetsFit
      PROVE  /\ \A s \in Strings : IF Written(Hashed(s, None)) THEN Seekhash(Hashed(s, None)) = Lookup(Dict, s)
                                   ELSE Lookup(Dict, s) = -1
             /\ \A k \in 1 .. bcount - 1 : ol[k] = None => ol[k + 1] = None
             /\ ol[bcount] # None => MaskAt = Top
  <2>1. phase = "built"
    BY <1>1 DEF Built
  <2>2. bcount \in Nat \ {0} /\ num \in Int /\ \A b \in 0 .. bcount - 1 : ol[b + 1] # None <=> b <= num
    BY <1>1, <2>1, BuiltFacts
  <2>3. ASSUME NEW k \in 1 .. bcount - 1, ol[k] = None PROVE ol[k + 1] = None
    <3>1. k \in Int /\ k - 1 \in 0 .. bcount - 1 /\ k \in 0 .. bcount - 1 /\ k - 1 + 1 = k
      BY <2>2
    <3>2. ~ (k - 1 <= num)
      BY <2>2, <2>3, <3>1
    <3>3. ~ (k <= num)
      BY <2>2, <3>1, <3>2
    <3> QED BY <2>2, <3>1, <3>3
  <2> QED BY <1>1, <2>1, <2>3, StringAnswered, MaskFound
<1>2. IndInv /\ data \in Files => LookupsAgree
  BY <1>1, NoBlocks DEF LookupsAgree, Built
<1> QED BY <1>2, FileStays, Invariance, PTL

-----------------------------------------------------------------------------
(* The joined files                                                        *)

\* What a character of a file becomes.
Piece(f, q, k) == IF f[k] = Newline THEN <<Tab, KeyChar[q], Newline>> ELSE <<f[k]>>

\* Where each character of a file has its place in the marked copy, M[k - 1] for
\* the k-th, and every place is that of one.
MarkedAt(M, f, q) ==
  /\ M \in [0 .. Len(f) -> Nat] /\ M[0] = 0 /\ M[Len(f)] = Len(Marked(f, q))
  /\ \A k \in 1 .. Len(f) :
       IF f[k] # Newline THEN M[k] = M[k - 1] + 1 /\ Marked(f, q)[M[k - 1] + 1] = f[k]
       ELSE /\ M[k] = M[k - 1] + 3
            /\ Marked(f, q)[M[k - 1] + 1] = Tab
            /\ Marked(f, q)[M[k - 1] + 2] = KeyChar[q]
            /\ Marked(f, q)[M[k - 1] + 3] = Newline
  /\ \A j \in 1 .. Len(Marked(f, q)) : \E k \in 1 .. Len(f) :
       \/ j = M[k - 1] + 1
       \/ f[k] = Newline /\ j \in {M[k - 1] + 2, M[k - 1] + 3}

LEMMA MarkedFacts ==
  ASSUME NEW f \in Seq(DOMAIN Low), NEW q \in DOMAIN KeyChar
  PROVE  Marked(f, q) \in Seq(DOMAIN Low) /\ \E M : MarkedAt(M, f, q)
<1> DEFINE ps == [k \in DOMAIN f |-> Piece(f, q, k)]
           n == Len(f)
           mk == Marked(f, q)
<1>1. n \in Nat /\ DOMAIN f = 1 .. n /\ \A k \in 1 .. n : f[k] \in DOMAIN Low
  BY LenProperties, ElementOfSeq
<1>2. {Tab, Newline, KeyChar[q]} \subseteq DOMAIN Low
  BY ListAssumption, CtlAssumption
<1>3. \A k \in 1 .. n : Piece(f, q, k) \in Seq(DOMAIN Low)
  <2> SUFFICES ASSUME NEW k \in 1 .. n PROVE Piece(f, q, k) \in Seq(DOMAIN Low)
    OBVIOUS
  <2>1. <<f[k]>> \in Seq(DOMAIN Low)
    BY <1>1
  <2>2. <<Tab, KeyChar[q], Newline>> \in Seq(DOMAIN Low)
    BY <1>2
  <2> QED BY <2>1, <2>2 DEF Piece
<1>4. ps \in Seq(Seq(DOMAIN Low)) /\ Len(ps) = n /\ \A k \in 1 .. n : ps[k] = Piece(f, q, k)
  BY <1>1, <1>3
<1>5. mk = FlattenSeq(ps)
  BY DEF Marked, Piece
<1> HIDE DEF ps, mk, n
<1>6. mk \in Seq(DOMAIN Low)
      /\ \E p : /\ Offsets(p, ps) /\ p[n] = Len(mk)
                /\ \A k \in 1 .. n : \A m \in 1 .. Len(ps[k]) : mk[p[k - 1] + m] = ps[k][m]
  <2>1. ps \in Seq(Seq(DOMAIN Low)) /\ Len(ps) = n
    BY <1>4
  <2>2. /\ FlattenSeq(ps) \in Seq(DOMAIN Low)
        /\ \E p : /\ Offsets(p, ps) /\ p[Len(ps)] = Len(FlattenSeq(ps))
                  /\ \A k \in 1 .. Len(ps) : \A m \in 1 .. Len(ps[k]) :
                       FlattenSeq(ps)[p[k - 1] + m] = ps[k][m]
    BY <2>1, Flattened
  <2> QED BY <1>5, <2>1, <2>2
<1>7. PICK M : /\ Offsets(M, ps) /\ M[n] = Len(mk)
               /\ \A k \in 1 .. n : \A m \in 1 .. Len(ps[k]) : mk[M[k - 1] + m] = ps[k][m]
  BY <1>6
<1>8. M \in [0 .. n -> Nat] /\ M[0] = 0 /\ \A k \in 1 .. n : M[k] = M[k - 1] + Len(ps[k])
  BY <1>4, <1>7 DEF Offsets
<1>9. ASSUME NEW k \in 1 .. n
      PROVE  /\ f[k] # Newline => Len(ps[k]) = 1 /\ ps[k][1] = f[k]
             /\ f[k] = Newline => /\ Len(ps[k]) = 3 /\ ps[k][1] = Tab
                                  /\ ps[k][2] = KeyChar[q] /\ ps[k][3] = Newline
  BY <1>4 DEF Piece
<1>10. ASSUME NEW k \in 1 .. n
       PROVE  IF f[k] # Newline THEN M[k] = M[k - 1] + 1 /\ mk[M[k - 1] + 1] = f[k]
              ELSE /\ M[k] = M[k - 1] + 3
                   /\ mk[M[k - 1] + 1] = Tab
                   /\ mk[M[k - 1] + 2] = KeyChar[q]
                   /\ mk[M[k - 1] + 3] = Newline
  <2>1. CASE f[k] # Newline
    <3>1. 1 \in 1 .. Len(ps[k])
      BY <1>9, <2>1
    <3>2. M[k] = M[k - 1] + 1
      BY <1>8, <1>9, <2>1
    <3>3. mk[M[k - 1] + 1] = ps[k][1]
      BY <1>7, <3>1
    <3> QED BY <1>9, <2>1, <3>2, <3>3
  <2>2. CASE f[k] = Newline
    <3>1. 1 \in 1 .. Len(ps[k]) /\ 2 \in 1 .. Len(ps[k]) /\ 3 \in 1 .. Len(ps[k])
      BY <1>9, <2>2
    <3> QED BY ZenonT(30), <1>7, <1>8, <1>9, <2>2, <3>1
  <2> QED BY <2>1, <2>2
<1>11. ASSUME NEW j \in 1 .. Len(mk)
       PROVE  \E k \in 1 .. n : \/ j = M[k - 1] + 1
                                \/ f[k] = Newline /\ j \in {M[k - 1] + 2, M[k - 1] + 3}
  <2>1. \A k \in 1 .. n : Len(ps[k]) \in Nat
    BY <1>9
  <2>2. j \in 1 .. M[n]
    BY <1>7
  <2>3. \E k \in 1 .. n : \E m \in 1 .. Len(ps[k]) : j = M[k - 1] + m
    <3>1. Len(ps) = n /\ n \in Nat /\ Offsets(M, ps)
      BY <1>1, <1>4, <1>7
    <3>2. Len(ps) \in Nat /\ (\A k \in 1 .. Len(ps) : Len(ps[k]) \in Nat) /\ j \in 1 .. M[Len(ps)]
      BY <2>1, <2>2, <3>1
    <3>3. \E k \in 1 .. Len(ps) : \E m \in 1 .. Len(ps[k]) : j = M[k - 1] + m
      BY <3>1, <3>2, Covered
    <3> QED BY <3>1, <3>3
  <2>7. PICK k \in 1 .. n : \E m \in 1 .. Len(ps[k]) : j = M[k - 1] + m
    BY <2>3
  <2>4. PICK m \in 1 .. Len(ps[k]) : j = M[k - 1] + m
    BY <2>7
  <2>5. CASE f[k] # Newline
    <3>1. Len(ps[k]) = 1
      BY <1>9, <2>5
    <3>2. m = 1
      BY <3>1
    <3> QED BY <2>4, <3>2
  <2>6. CASE f[k] = Newline
    <3>1. Len(ps[k]) = 3
      BY <1>9, <2>6
    <3>2. m \in {1, 2, 3}
      BY <3>1
    <3> QED BY <2>4, <2>6, <3>2
  <2> QED BY <2>5, <2>6
<1> QED BY <1>6, <1>7, <1>8, <1>10, <1>11 DEF MarkedAt, mk, n

\* The key of a file is one that has a character.
LEMMA KeyForFacts ==
  ASSUME NEW c \in Commands, NEW n \in DOMAIN c
  PROVE  KeyFor(c, n) \in DOMAIN KeyChar
<1> DEFINE ks == {m \in 1 .. n - 1 : IsKey(c[m])}
<1>1. c \in Seq(ToSet(c))
  BY CtlAssumption
<1>2. Len(c) \in Nat /\ n \in 1 .. Len(c) /\ DOMAIN c = 1 .. Len(c)
  BY <1>1, LenProperties
<1>3. CASE ks = {}
  BY <1>3, CtlAssumption DEF KeyFor
<1>4. CASE ks # {}
  <2>1. ks \in SUBSET (0 .. n) /\ n \in Nat
    BY <1>2
  <2>2. Max(ks) \in ks
    BY <1>4, <2>1, MaxNat
  <2>3. Max(ks) \in DOMAIN c /\ IsKey(c[Max(ks)])
    BY <1>2, <2>2
  <2>4. KeyFor(c, n) = c[Max(ks)].key
    BY <1>4 DEF KeyFor
  <2> DEFINE x == Max(ks)
  <2>5. x \in DOMAIN c /\ IsKey(c[x]) /\ KeyFor(c, n) = c[x].key
    BY <2>3, <2>4
  <2> HIDE DEF x
  <2>6. \A m \in DOMAIN c : IsKey(c[m]) => c[m].key \in DOMAIN KeyChar
    BY CtlAssumption
  <2> QED BY <2>5, <2>6
<1> QED BY <1>3, <1>4

\* A file, and the key it was given.
File(n) == args[n].file
Key(n)  == KeyFor(args, n)

\* P[n][k] is the place of the k-th character of file n among the joined files, or
\* of the newline behind them all.
Layout(P) ==
  /\ \A n \in FileArgs :
       /\ \A k \in 1 .. Len(File(n)) + 1 : P[n][k] \in 0 .. size - 1
       /\ P[n][1] = 0 \/ At(P[n][1] - 1) = Newline
       /\ \A k \in 1 .. Len(File(n)) :
            IF File(n)[k] # Newline THEN P[n][k + 1] = P[n][k] + 1 /\ At(P[n][k]) = File(n)[k]
            ELSE /\ P[n][k + 1] = P[n][k] + 3 /\ At(P[n][k]) = Tab
                 /\ At(P[n][k] + 1) = KeyChar[Key(n)] /\ At(P[n][k] + 2) = Newline
       /\ At(P[n][Len(File(n)) + 1]) = Newline
  /\ \A m, n \in FileArgs : m < n => P[m][Len(File(m)) + 1] < P[n][1]
  /\ \A d \in 0 .. size - 1 : \E n \in FileArgs : \E k \in 1 .. Len(File(n)) + 1 :
       \/ d = P[n][k]
       \/ k <= Len(File(n)) /\ File(n)[k] = Newline /\ d \in {P[n][k] + 1, P[n][k] + 2}

LEMMA ArgsFacts ==
  ASSUME args \in Commands
  PROVE  /\ Len(args) \in Nat /\ DOMAIN args = 1 .. Len(args) /\ FileArgs \subseteq 1 .. Len(args)
         /\ \A n \in FileArgs : /\ IsFile(args[n]) /\ File(n) \in Seq(DOMAIN Low) /\ Len(File(n)) \in Nat
                                /\ DOMAIN File(n) = 1 .. Len(File(n))
                                /\ Key(n) \in DOMAIN KeyChar
<1>1. Len(args) \in Nat /\ DOMAIN args = 1 .. Len(args)
  <2>1. args \in Seq(ToSet(args))
    BY CtlAssumption
  <2> QED BY <2>1, LenProperties
<1>2. ASSUME NEW n \in FileArgs
      PROVE  /\ IsFile(args[n]) /\ File(n) \in Seq(DOMAIN Low) /\ Len(File(n)) \in Nat
             /\ DOMAIN File(n) = 1 .. Len(File(n))
             /\ Key(n) \in DOMAIN KeyChar
  <2>1. n \in DOMAIN args /\ IsFile(args[n])
    BY DEF FileArgs
  <2>2. File(n) \in Seq(DOMAIN Low)
    BY <2>1, CtlAssumption DEF File
  <2>3. Key(n) \in DOMAIN KeyChar
    BY <2>1, KeyForFacts DEF Key
  <2> QED BY <2>1, <2>2, <2>3, LenProperties
<1> QED BY <1>1, <1>2 DEF FileArgs

LEMMA LayoutExists ==
  ASSUME args \in Commands, data = Joined(args)
  PROVE  \E P : Layout(P)
<1> DEFINE c == Len(args)
           mk == [n \in FileArgs |-> Marked(File(n), Key(n))]
           ss == [n \in DOMAIN args |-> IF IsFile(args[n]) THEN Append(mk[n], Newline) ELSE <<>>]
           L(n) == Len(File(n))
           Ms == [n \in FileArgs |-> CHOOSE M : MarkedAt(M, File(n), Key(n))]
<1>1. /\ c \in Nat /\ DOMAIN args = 1 .. c /\ FileArgs \subseteq 1 .. c
      /\ \A n \in 1 .. c : n \in FileArgs <=> IsFile(args[n])
      /\ \A n \in FileArgs : L(n) \in Nat
  BY ArgsFacts DEF FileArgs
<1>2. \A n \in FileArgs : /\ mk[n] = Marked(File(n), Key(n)) /\ mk[n] \in Seq(DOMAIN Low)
                          /\ Len(mk[n]) \in Nat /\ MarkedAt(Ms[n], File(n), Key(n))
  <2> SUFFICES ASSUME NEW n \in FileArgs
               PROVE  /\ Marked(File(n), Key(n)) \in Seq(DOMAIN Low)
                      /\ MarkedAt(CHOOSE M : MarkedAt(M, File(n), Key(n)), File(n), Key(n))
    BY LenProperties
  <2>1. Marked(File(n), Key(n)) \in Seq(DOMAIN Low) /\ \E M : MarkedAt(M, File(n), Key(n))
    BY ArgsFacts, MarkedFacts
  <2> QED BY <2>1
<1>3. data = FlattenSeq(ss)
  <2>1. ss = [n \in DOMAIN args |-> IF IsFile(args[n])
                THEN Append(Marked(args[n].file, KeyFor(args, n)), Newline) ELSE <<>>]
    <3>1. \A n \in DOMAIN args : IsFile(args[n]) => mk[n] = Marked(args[n].file, KeyFor(args, n))
      BY DEF FileArgs, File, Key
    <3> HIDE DEF mk
    <3> QED BY <3>1
  <2> HIDE DEF ss
  <2> QED BY <2>1 DEF Joined
<1>4. \A n \in 1 .. c : n \in FileArgs =>
        /\ ss[n] = Append(mk[n], Newline) /\ ss[n] \in Seq(DOMAIN Low) /\ Len(ss[n]) = Len(mk[n]) + 1
        /\ ss[n][Len(mk[n]) + 1] = Newline
        /\ \A k \in 1 .. Len(mk[n]) : ss[n][k] = mk[n][k]
  <2> SUFFICES ASSUME NEW n \in 1 .. c, n \in FileArgs
               PROVE  /\ ss[n] = Append(mk[n], Newline) /\ ss[n] \in Seq(DOMAIN Low) /\ Len(ss[n]) = Len(mk[n]) + 1
                      /\ ss[n][Len(mk[n]) + 1] = Newline
                      /\ \A k \in 1 .. Len(mk[n]) : ss[n][k] = mk[n][k]
    OBVIOUS
  <2>1. ss[n] = Append(mk[n], Newline)
    BY <1>1
  <2>2. mk[n] \in Seq(DOMAIN Low) /\ Newline \in DOMAIN Low
    BY <1>2, ListAssumption
  <2> HIDE DEF ss, mk
  <2> QED BY <2>1, <2>2, AppendProperties
<1>5. \A n \in 1 .. c : n \notin FileArgs => ss[n] = <<>> /\ ss[n] \in Seq(DOMAIN Low) /\ Len(ss[n]) = 0
  BY <1>1, EmptySeq
<1>6. ss \in Seq(Seq(DOMAIN Low)) /\ Len(ss) = c
  <2>1. \A n \in 1 .. c : ss[n] \in Seq(DOMAIN Low)
    BY <1>4, <1>5
  <2>2. DOMAIN ss = 1 .. c /\ ss = [n \in 1 .. c |-> ss[n]]
    BY <1>1
  <2> HIDE DEF ss
  <2> QED BY <1>1, <2>1, <2>2
<1> HIDE DEF mk, ss, Ms, c, L
<1>7. data \in Seq(DOMAIN Low) /\ size = Len(data) /\ size \in Nat
      /\ \E p : /\ Offsets(p, ss) /\ p[c] = size
                /\ \A k \in 1 .. c : \A m \in 1 .. Len(ss[k]) : data[p[k - 1] + m] = ss[k][m]
  <2>1. /\ FlattenSeq(ss) \in Seq(DOMAIN Low)
        /\ \E p : /\ Offsets(p, ss) /\ p[Len(ss)] = Len(FlattenSeq(ss))
                  /\ \A k \in 1 .. Len(ss) : \A m \in 1 .. Len(ss[k]) :
                       FlattenSeq(ss)[p[k - 1] + m] = ss[k][m]
    BY <1>6, Flattened
  <2>2. data \in Seq(DOMAIN Low) /\ size = Len(data)
    BY <1>3, <2>1 DEF size
  <2>3. size \in Nat
    BY <2>2, LenProperties
  <2> QED BY <1>3, <1>6, <2>1, <2>2, <2>3
<1>8. PICK O : /\ Offsets(O, ss) /\ O[c] = size
               /\ \A k \in 1 .. c : \A m \in 1 .. Len(ss[k]) : data[O[k - 1] + m] = ss[k][m]
  BY <1>7
<1>9. /\ O \in [0 .. c -> Nat] /\ O[0] = 0
      /\ \A n \in 1 .. c : O[n] = O[n - 1] + Len(ss[n]) /\ Len(ss[n]) \in Nat /\ O[n - 1] \in Nat
  <2>1. \A n \in 1 .. c : Len(ss[n]) \in Nat
    <3>1. \A n \in 1 .. c : n \in FileArgs => Len(ss[n]) \in Nat
      BY <1>2, <1>4
    <3> QED BY <1>5, <3>1
  <2>2. O \in [0 .. c -> Nat] /\ O[0] = 0 /\ \A n \in 1 .. c : O[n] = O[n - 1] + Len(ss[n])
    BY <1>6, <1>8 DEF Offsets
  <2>3. \A n \in 1 .. c : n - 1 \in 0 .. c
    BY <1>1
  <2> QED BY <2>1, <2>2, <2>3
<1>10. \A a, b \in 0 .. c : a <= b => O[a] <= O[b]
  <2>1. Len(ss) = c /\ c \in Nat /\ Offsets(O, ss) /\ \A n \in 1 .. c : Len(ss[n]) \in Nat
    BY <1>1, <1>6, <1>8, <1>9
  <2> QED BY <2>1, OffsetsGrow
\* Each file begins where the text does, or behind a newline.
<1>11. \A n \in 0 .. c : O[n] = 0 \/ data[O[n]] = Newline
  <2> DEFINE S == {n \in 0 .. c : O[n] = 0 \/ data[O[n]] = Newline}
  <2>1. 0 \in S
    BY <1>1, <1>9
  <2>2. ASSUME NEW n \in 1 .. c, n - 1 \in S PROVE n \in S
    <3>1. n \in 0 .. c
      BY <1>1
    <3>2. CASE n \in FileArgs
      <4>1. Len(ss[n]) \in 1 .. Len(ss[n]) /\ ss[n][Len(ss[n])] = Newline
        BY <1>2, <1>4, <3>2
      <4>2. data[O[n - 1] + Len(ss[n])] = Newline
        BY <1>8, <4>1
      <4> QED BY <1>9, <3>1, <4>2
    <3>3. CASE n \notin FileArgs
      <4>1. O[n] = O[n - 1]
        BY <1>5, <1>9, <3>3
      <4> QED BY <2>2, <3>1, <4>1
    <3> QED BY <3>2, <3>3
  <2> HIDE DEF S
  <2>3. \A n \in 0 .. c : n \in S
    BY <1>1, <2>1, <2>2, UpFromZero
  <2> QED BY <2>3 DEF S
<1> DEFINE P == [n \in FileArgs |-> [k \in 1 .. L(n) + 1 |-> O[n - 1] + Ms[n][k - 1]]]
<1>12. \A n \in FileArgs : \A k \in 1 .. L(n) + 1 : P[n][k] = O[n - 1] + Ms[n][k - 1]
  OBVIOUS
<1> HIDE DEF P
<1>13. ASSUME NEW n \in FileArgs
       PROVE  /\ Ms[n] \in [0 .. L(n) -> Nat] /\ Ms[n][0] = 0 /\ Ms[n][L(n)] = Len(mk[n])
              /\ \A k \in 1 .. L(n) :
                   IF File(n)[k] # Newline THEN Ms[n][k] = Ms[n][k - 1] + 1 /\ mk[n][Ms[n][k - 1] + 1] = File(n)[k]
                   ELSE /\ Ms[n][k] = Ms[n][k - 1] + 3
                        /\ mk[n][Ms[n][k - 1] + 1] = Tab
                        /\ mk[n][Ms[n][k - 1] + 2] = KeyChar[Key(n)]
                        /\ mk[n][Ms[n][k - 1] + 3] = Newline
              /\ \A j \in 1 .. Len(mk[n]) : \E k \in 1 .. L(n) :
                   \/ j = Ms[n][k - 1] + 1
                   \/ File(n)[k] = Newline /\ j \in {Ms[n][k - 1] + 2, Ms[n][k - 1] + 3}
  <2> DEFINE M == Ms[n]
             f == File(n)
             q == Key(n)
             s == mk[n]
  <2>1. MarkedAt(M, f, q) /\ s = Marked(f, q) /\ L(n) = Len(f)
    BY <1>2 DEF L
  <2> HIDE DEF M, f, q, s
  <2>2. M \in [0 .. L(n) -> Nat] /\ M[0] = 0 /\ M[L(n)] = Len(s)
    BY <2>1 DEF MarkedAt
  <2>3. ASSUME NEW k \in 1 .. L(n)
        PROVE  IF f[k] # Newline THEN M[k] = M[k - 1] + 1 /\ s[M[k - 1] + 1] = f[k]
               ELSE /\ M[k] = M[k - 1] + 3
                    /\ s[M[k - 1] + 1] = Tab
                    /\ s[M[k - 1] + 2] = KeyChar[q]
                    /\ s[M[k - 1] + 3] = Newline
    BY <2>1, <2>3 DEF MarkedAt
  <2>4. ASSUME NEW j \in 1 .. Len(s)
        PROVE  \E k \in 1 .. L(n) :
                 \/ j = M[k - 1] + 1
                 \/ f[k] = Newline /\ j \in {M[k - 1] + 2, M[k - 1] + 3}
    BY <2>1, <2>4 DEF MarkedAt
  <2> QED BY <2>2, <2>3, <2>4 DEF M, f, q, s
\* The copy has room for each piece.
<1>14. ASSUME NEW n \in FileArgs
       PROVE  \A a, b \in 0 .. L(n) : a <= b => Ms[n][a] <= Ms[n][b]
  <2> DEFINE ps == [k \in 1 .. L(n) |-> Piece(File(n), Key(n), k)]
  <2>1. L(n) \in Nat /\ \A k \in 1 .. L(n) : ps[k] = Piece(File(n), Key(n), k)
    BY <1>1
  <2>2. Len(ps) = L(n)
    BY <2>1
  <2> HIDE DEF ps
  <2>3. \A k \in 1 .. L(n) : Len(ps[k]) = IF File(n)[k] # Newline THEN 1 ELSE 3
    <3> SUFFICES ASSUME NEW k \in 1 .. L(n) PROVE Len(ps[k]) = IF File(n)[k] # Newline THEN 1 ELSE 3
      OBVIOUS
    <3>1. CASE File(n)[k] # Newline
      <4>1. ps[k] = <<File(n)[k]>>
        BY <2>1, <3>1 DEF Piece
      <4> QED BY <3>1, <4>1
    <3>2. CASE File(n)[k] = Newline
      <4>1. ps[k] = <<Tab, KeyChar[Key(n)], Newline>>
        BY <2>1, <3>2 DEF Piece
      <4> QED BY <3>2, <4>1
    <3> QED BY <3>1, <3>2
  <2>4. Offsets(Ms[n], ps) /\ \A k \in 1 .. Len(ps) : Len(ps[k]) \in Nat
    <3>1. \A k \in 1 .. L(n) : Ms[n][k] = Ms[n][k - 1] + Len(ps[k])
      BY <1>13, <2>3
    <3>2. \A k \in 1 .. L(n) : Len(ps[k]) \in Nat
      BY <2>3
    <3> QED BY <1>13, <2>2, <3>1, <3>2 DEF Offsets
  <2> QED BY <2>1, <2>2, <2>4, OffsetsGrow
<1>15. ASSUME NEW n \in FileArgs
       PROVE  /\ n \in 1 .. c /\ n - 1 \in 0 .. c /\ O[n - 1] \in Nat /\ O[n] <= size
              /\ O[n] = O[n - 1] + Len(mk[n]) + 1 /\ Len(mk[n]) \in Nat
              /\ \A j \in 1 .. Len(mk[n]) : data[O[n - 1] + j] = mk[n][j]
              /\ data[O[n - 1] + Len(mk[n]) + 1] = Newline
  <2>1. n \in 1 .. c /\ n - 1 \in 0 .. c /\ n \in 0 .. c /\ c \in 0 .. c /\ n <= c
    BY <1>1
  <2>2. O[n] <= size /\ O[n - 1] \in Nat
    BY <1>8, <1>9, <1>10, <2>1
  <2>3. /\ Len(mk[n]) \in Nat /\ Len(ss[n]) = Len(mk[n]) + 1 /\ ss[n][Len(mk[n]) + 1] = Newline
        /\ \A k \in 1 .. Len(mk[n]) : ss[n][k] = mk[n][k]
    BY <1>2, <1>4, <2>1
  <2>4. O[n] = O[n - 1] + Len(mk[n]) + 1
    BY SMTT(20), <1>9, <2>1, <2>3
  <2>5. \A k \in 1 .. Len(mk[n]) + 1 : data[O[n - 1] + k] = ss[n][k]
    BY <1>8, <2>1, <2>3
  <2>6. /\ \A k \in 1 .. Len(mk[n]) : k \in 1 .. Len(mk[n]) + 1
        /\ Len(mk[n]) + 1 \in 1 .. Len(mk[n]) + 1
    BY <2>3
  <2>7. data[O[n - 1] + (Len(mk[n]) + 1)] = Newline
    BY <2>3, <2>5, <2>6
  <2>8. O[n - 1] + (Len(mk[n]) + 1) = O[n - 1] + Len(mk[n]) + 1
    BY <2>2, <2>3
  <2>9. \A k \in 1 .. Len(mk[n]) : data[O[n - 1] + k] = mk[n][k]
    BY <2>3, <2>5, <2>6
  <2> QED BY <2>1, <2>2, <2>3, <2>4, <2>7, <2>8, <2>9
\* A character and what comes behind it, in the marked copy and in the text.
<1>16. ASSUME NEW n \in FileArgs, NEW k \in 1 .. L(n)
       PROVE  /\ k \in 1 .. L(n) + 1 /\ k + 1 \in 1 .. L(n) + 1 /\ k - 1 \in 0 .. L(n)
              /\ Ms[n][k - 1] \in Nat /\ Ms[n][k] \in Nat /\ Ms[n][k] <= Len(mk[n])
              /\ P[n][k] = O[n - 1] + Ms[n][k - 1] /\ P[n][k + 1] = O[n - 1] + Ms[n][k]
  <2>1. k \in 1 .. L(n) + 1 /\ k + 1 \in 1 .. L(n) + 1 /\ k - 1 \in 0 .. L(n) /\ k \in 0 .. L(n)
        /\ L(n) \in 0 .. L(n) /\ k <= L(n) /\ k + 1 - 1 = k
    BY <1>1
  <2>2. Ms[n][k - 1] \in Nat /\ Ms[n][k] \in Nat /\ Ms[n][k] <= Len(mk[n])
    BY <1>13, <1>14, <2>1
  <2>3. P[n][k] = O[n - 1] + Ms[n][k - 1] /\ P[n][k + 1] = O[n - 1] + Ms[n][k + 1 - 1]
    BY <1>12, <2>1
  <2> QED BY <2>1, <2>2, <2>3
<1>17. ASSUME NEW n \in FileArgs
       PROVE  /\ P[n][1] = O[n - 1] /\ P[n][L(n) + 1] = O[n] - 1
              /\ P[n][L(n) + 1] = O[n - 1] + Len(mk[n])
  <2>1. ASSUME NEW k \in 1 .. L(n) + 1, NEW m, m = k - 1 PROVE P[n][k] = O[n - 1] + Ms[n][m]
    BY <1>12, <2>1
  <2>2. /\ 1 \in 1 .. L(n) + 1 /\ 0 = 1 - 1
        /\ L(n) + 1 \in 1 .. L(n) + 1 /\ L(n) = L(n) + 1 - 1
    BY <1>1
  <2>4. P[n][1] = O[n - 1] + Ms[n][0]
    BY <2>1, <2>2
  <2>5. P[n][L(n) + 1] = O[n - 1] + Ms[n][L(n)]
    <3> DEFINE k == L(n) + 1
    <3>1. k \in 1 .. L(n) + 1 /\ L(n) = k - 1
      BY <1>1
    <3> HIDE DEF k
    <3>2. P[n][k] = O[n - 1] + Ms[n][L(n)]
      BY <2>1, <3>1
    <3> QED BY <3>2 DEF k
  <2>3. P[n][1] = O[n - 1] + 0 /\ P[n][L(n) + 1] = O[n - 1] + Len(mk[n])
    BY <1>13, <2>4, <2>5
  <2> QED BY <1>15, <2>3
<1>18. ASSUME NEW n \in FileArgs
       PROVE  /\ \A k \in 1 .. L(n) + 1 : P[n][k] \in 0 .. size - 1
              /\ P[n][1] = 0 \/ At(P[n][1] - 1) = Newline
              /\ At(P[n][L(n) + 1]) = Newline
  <2>1. ASSUME NEW k \in 1 .. L(n) + 1 PROVE P[n][k] \in 0 .. size - 1
    <3>1. CASE k = L(n) + 1
      BY SMTT(20), <1>7, <1>15, <1>17, <3>1
    <3>2. CASE k # L(n) + 1
      <4>1. k \in 1 .. L(n)
        BY <1>1, <3>2
      <4>2. P[n][k] = O[n - 1] + Ms[n][k - 1] /\ Ms[n][k - 1] \in Nat /\ Ms[n][k - 1] <= Len(mk[n])
        <5> DEFINE j == k - 1
        <5>1. j \in 0 .. L(n) /\ L(n) \in 0 .. L(n) /\ j <= L(n)
          BY <1>1, <4>1
        <5>2. P[n][k] = O[n - 1] + Ms[n][j]
          BY <1>16, <4>1
        <5> HIDE DEF j
        <5>3. Ms[n][j] \in Nat /\ Ms[n][L(n)] = Len(mk[n])
          BY <1>13, <5>1
        <5>4. Ms[n][j] <= Ms[n][L(n)]
          BY <1>14, <5>1
        <5>5. P[n][k] = O[n - 1] + Ms[n][j] /\ Ms[n][j] \in Nat /\ Ms[n][j] <= Len(mk[n])
          BY <5>2, <5>3, <5>4
        <5> QED BY <5>5 DEF j
      <4> DEFINE o == O[n - 1]
                 m == Ms[n][k - 1]
                 l == Len(mk[n])
      <4>3. /\ P[n][k] = o + m /\ m \in Nat /\ m <= l /\ o \in Nat /\ l \in Nat
            /\ o + l + 1 <= size /\ size \in Nat
        BY <1>7, <1>15, <4>2
      <4> HIDE DEF o, m, l
      <4> QED BY <4>3
    <3> QED BY <3>1, <3>2
  <2>2. P[n][1] = 0 \/ At(P[n][1] - 1) = Newline
    <3>1. P[n][1] = O[n - 1] /\ O[n - 1] \in Nat /\ (O[n - 1] = 0 \/ data[O[n - 1]] = Newline)
      BY <1>11, <1>15, <1>17
    <3>2. O[n - 1] - 1 + 1 = O[n - 1]
      BY <3>1
    <3> QED BY <3>1, <3>2 DEF At
  <2>3. At(P[n][L(n) + 1]) = Newline
    BY <1>15, <1>17 DEF At
  <2> QED BY <2>1, <2>2, <2>3
<1>19. ASSUME NEW n \in FileArgs, NEW k \in 1 .. L(n)
       PROVE  IF File(n)[k] # Newline THEN P[n][k + 1] = P[n][k] + 1 /\ At(P[n][k]) = File(n)[k]
              ELSE /\ P[n][k + 1] = P[n][k] + 3 /\ At(P[n][k]) = Tab
                   /\ At(P[n][k] + 1) = KeyChar[Key(n)] /\ At(P[n][k] + 2) = Newline
  <2> DEFINE o == O[n - 1]
             m == Ms[n][k - 1]
  <2>1. /\ o \in Nat /\ m \in Nat /\ P[n][k] = o + m /\ P[n][k + 1] = o + Ms[n][k]
        /\ Ms[n][k] \in Nat /\ Ms[n][k] <= Len(mk[n]) /\ Len(mk[n]) \in Nat
        /\ \A j \in 1 .. Len(mk[n]) : data[o + j] = mk[n][j]
    BY <1>15, <1>16
  <2>2. CASE File(n)[k] # Newline
    <3>1. Ms[n][k] = m + 1 /\ mk[n][m + 1] = File(n)[k]
      BY <1>13, <2>2
    <3> HIDE DEF o, m
    <3>2. m + 1 \in 1 .. Len(mk[n]) /\ o + m + 1 = o + (m + 1)
      BY <2>1, <3>1
    <3>3. data[o + m + 1] = File(n)[k]
      BY <2>1, <3>1, <3>2
    <3> QED BY <2>1, <2>2, <3>1, <3>3 DEF At
  <2>3. CASE File(n)[k] = Newline
    <3>1. /\ Ms[n][k] = m + 3 /\ mk[n][m + 1] = Tab /\ mk[n][m + 2] = KeyChar[Key(n)]
          /\ mk[n][m + 3] = Newline
      BY <1>13, <2>3
    <3> HIDE DEF o, m
    <3>2. \A d \in {1, 2, 3} : m + d \in 1 .. Len(mk[n]) /\ o + (m + d) = o + m + d
      BY <2>1, <3>1
    <3>3. \A d \in {1, 2, 3} : data[o + m + d] = mk[n][m + d]
      BY <2>1, <3>2
    <3>4. o + m + 1 + 1 = o + m + 2 /\ o + m + 2 + 1 = o + m + 3
      BY <2>1
    <3>5. data[o + m + 1] = Tab /\ data[o + m + 2] = KeyChar[Key(n)] /\ data[o + m + 3] = Newline
      BY <3>1, <3>3
    <3>6. At(o + m) = Tab /\ At(o + m + 1) = KeyChar[Key(n)] /\ At(o + m + 2) = Newline
      BY <3>4, <3>5 DEF At
    <3> QED BY <2>1, <2>3, <3>1, <3>6
  <2> QED BY <2>2, <2>3
<1>20. ASSUME NEW m \in FileArgs, NEW n \in FileArgs, m < n
       PROVE  P[m][L(m) + 1] < P[n][1]
  <2>1. m \in 0 .. c /\ n - 1 \in 0 .. c /\ m <= n - 1
    BY <1>1, <1>15, <1>20
  <2>2. O[m] <= O[n - 1] /\ O[m] \in Nat /\ O[n - 1] \in Nat
    BY <1>9, <1>10, <2>1
  <2> QED BY <1>17, <2>2
<1>21. ASSUME NEW d \in 0 .. size - 1
       PROVE  \E n \in FileArgs : \E k \in 1 .. L(n) + 1 :
                \/ d = P[n][k]
                \/ k <= L(n) /\ File(n)[k] = Newline /\ d \in {P[n][k] + 1, P[n][k] + 2}
  <2>1. d + 1 \in 1 .. O[c]
    BY <1>7, <1>8
  <2>2. \E n \in 1 .. c : \E j \in 1 .. Len(ss[n]) : d + 1 = O[n - 1] + j
    <3>1. Len(ss) = c /\ c \in Nat /\ Offsets(O, ss) /\ \A n \in 1 .. c : Len(ss[n]) \in Nat
      BY <1>1, <1>6, <1>8, <1>9
    <3>2. /\ Len(ss) \in Nat /\ Offsets(O, ss) /\ (\A n \in 1 .. Len(ss) : Len(ss[n]) \in Nat)
          /\ d + 1 \in 1 .. O[Len(ss)]
      BY <2>1, <3>1
    <3>3. \E n \in 1 .. Len(ss) : \E j \in 1 .. Len(ss[n]) : d + 1 = O[n - 1] + j
      BY <3>2, Covered
    <3> QED BY <3>1, <3>3
  <2>3. PICK n \in 1 .. c : \E j \in 1 .. Len(ss[n]) : d + 1 = O[n - 1] + j
    BY <2>2
  <2>4. PICK j \in 1 .. Len(ss[n]) : d + 1 = O[n - 1] + j
    BY <2>3
  <2>5. n \in FileArgs
    <3>1. n \notin FileArgs => Len(ss[n]) = 0
      BY <1>5
    <3>2. Len(ss[n]) # 0
      BY <1>9
    <3> QED BY <3>1, <3>2
  <2>6. j \in Nat /\ j >= 1 /\ j <= Len(mk[n]) + 1 /\ O[n - 1] \in Nat /\ Len(mk[n]) \in Nat
    <3>1. Len(ss[n]) = Len(mk[n]) + 1 /\ O[n - 1] \in Nat /\ Len(mk[n]) \in Nat
      BY <1>4, <1>15, <2>5
    <3> QED BY <3>1
  <2>7. CASE j = Len(mk[n]) + 1
    <3>1. d = P[n][L(n) + 1] /\ L(n) + 1 \in 1 .. L(n) + 1
      <4>1. L(n) + 1 \in 1 .. L(n) + 1 /\ P[n][L(n) + 1] = O[n - 1] + Len(mk[n])
        BY <1>1, <1>17, <2>5
      <4> DEFINE o == O[n - 1]
                 x == P[n][L(n) + 1]
                 l == Len(mk[n])
      <4>2. d + 1 = o + j /\ j = l + 1 /\ x = o + l /\ o \in Nat /\ l \in Nat /\ d \in Int
        BY <2>4, <2>6, <2>7, <4>1
      <4> HIDE DEF o, x, l
      <4>3. d = x
        BY <4>2
      <4> QED BY <4>1, <4>3 DEF x
    <3> QED BY <2>5, <3>1
  <2>8. CASE j # Len(mk[n]) + 1
    <3>1. j \in 1 .. Len(mk[n])
      BY <2>6, <2>8
    <3>5. \A y \in 1 .. Len(mk[n]) : \E k \in 1 .. L(n) :
            \/ y = Ms[n][k - 1] + 1
            \/ File(n)[k] = Newline /\ y \in {Ms[n][k - 1] + 2, Ms[n][k - 1] + 3}
      BY <1>13, <2>5
    <3>2. PICK k \in 1 .. L(n) :
            \/ j = Ms[n][k - 1] + 1
            \/ File(n)[k] = Newline /\ j \in {Ms[n][k - 1] + 2, Ms[n][k - 1] + 3}
      BY <3>1, <3>5
    <3>3. P[n][k] = O[n - 1] + Ms[n][k - 1] /\ Ms[n][k - 1] \in Nat /\ k \in 1 .. L(n) + 1 /\ k <= L(n)
      BY <1>1, <1>16, <2>5
    <3>4. \/ d = P[n][k]
          \/ File(n)[k] = Newline /\ d \in {P[n][k] + 1, P[n][k] + 2}
      <4> DEFINE o == O[n - 1]
                 m == Ms[n][k - 1]
                 x == P[n][k]
      <4>1. d + 1 = o + j /\ x = o + m /\ o \in Nat /\ m \in Nat /\ j \in Nat /\ d \in Int
        BY <2>4, <2>6, <3>3
      <4>2. \/ j = m + 1
            \/ File(n)[k] = Newline /\ (j = m + 2 \/ j = m + 3)
        BY <3>2
      <4> HIDE DEF o, m, x
      <4>3. /\ j = m + 1 => d = x
            /\ j = m + 2 => d = x + 1
            /\ j = m + 3 => d = x + 2
        BY <4>1
      <4>4. \/ d = x
            \/ File(n)[k] = Newline /\ (d = x + 1 \/ d = x + 2)
        BY <4>2, <4>3
      <4> QED BY <4>4 DEF x
    <3> QED BY <2>5, <3>3, <3>4
  <2> QED BY <2>7, <2>8
<1>22. Layout(P)
  BY <1>18, <1>19, <1>20, <1>21 DEF Layout, L
<1> QED BY <1>22

LEMMA LayoutNat ==
  ASSUME data \in Files, NEW P, Layout(P), NEW n \in FileArgs, NEW k \in 1 .. Len(File(n)) + 1
  PROVE  P[n][k] \in Nat
<1>1. P[n][k] \in 0 .. size - 1
  BY DEF Layout
<1>2. size \in Nat
  BY FileFacts
<1> QED BY <1>1, <1>2

\* The order of the places is that of the characters: in one file,
LEMMA LayoutRises ==
  ASSUME args \in Commands, data \in Files, NEW P, Layout(P), NEW n \in FileArgs,
         NEW a \in 1 .. Len(File(n)) + 1, NEW b \in 1 .. Len(File(n)) + 1, a < b
  PROVE  P[n][a] < P[n][b]
<1> DEFINE l == Len(File(n))
           N == l + 1 - a
           S == {d \in 0 .. N : P[n][a] + d <= P[n][a + d]}
<1>1. l \in Nat /\ N \in Nat /\ size \in Nat
  BY ArgsFacts, FileFacts
<1>2. \A k \in 1 .. l + 1 : P[n][k] \in Nat
  BY LayoutNat
<1>3. \A k \in 1 .. l : P[n][k + 1] >= P[n][k] + 1
  <2> SUFFICES ASSUME NEW k \in 1 .. l PROVE P[n][k + 1] >= P[n][k] + 1
    OBVIOUS
  <2>1. P[n][k + 1] = P[n][k] + 1 \/ P[n][k + 1] = P[n][k] + 3
    BY DEF Layout
  <2>2. k \in 1 .. l + 1
    BY <1>1
  <2>3. P[n][k] \in Nat
    BY <1>2, <2>2
  <2> QED BY <2>1, <2>3
<1>4. 0 \in S
  <2>1. a + 0 = a /\ P[n][a] \in Nat
    BY <1>2
  <2> QED BY <1>1, <2>1
<1>5. ASSUME NEW d \in 1 .. N, d - 1 \in S PROVE d \in S
  <2>1. a + (d - 1) \in 1 .. l /\ a + (d - 1) + 1 = a + d /\ a + d \in 1 .. l + 1 /\ a + (d - 1) \in 1 .. l + 1
        /\ d \in 0 .. N /\ d \in Int
    BY <1>1
  <2>2. P[n][a] + (d - 1) <= P[n][a + (d - 1)]
    BY <1>5
  <2>3. P[n][a + d] >= P[n][a + (d - 1)] + 1
    BY <1>3, <2>1
  <2>4. P[n][a] \in Nat /\ P[n][a + d] \in Nat /\ P[n][a + (d - 1)] \in Nat
    BY <1>2, <2>1
  <2> HIDE DEF N
  <2>5. P[n][a] + d <= P[n][a + d]
    <3> DEFINE x == P[n][a]
               y == P[n][a + d]
               z == P[n][a + (d - 1)]
    <3>1. x \in Nat /\ y \in Nat /\ z \in Nat /\ x + (d - 1) <= z /\ y >= z + 1 /\ d \in Int
      BY <2>1, <2>2, <2>3, <2>4
    <3> HIDE DEF x, y, z
    <3>2. x + d <= y
      BY <3>1
    <3> QED BY <3>2 DEF x, y
  <2> QED BY <2>1, <2>5
<1> HIDE DEF N, S
<1>6. \A d \in 0 .. N : d \in S
  BY <1>1, <1>4, <1>5, UpFromZero
<1>7. b - a \in 0 .. N /\ a + (b - a) = b /\ b - a > 0
  BY <1>1 DEF N
<1>8. P[n][a] + (b - a) <= P[n][a + (b - a)]
  BY <1>6, <1>7 DEF S
<1>9. P[n][a] \in Nat /\ P[n][b] \in Nat
  BY <1>2
<1> QED BY <1>7, <1>8, <1>9

\* ... and from one file to the next.
LEMMA LayoutOrder ==
  ASSUME args \in Commands, data \in Files, NEW P, Layout(P), NEW m \in FileArgs, NEW n \in FileArgs,
         NEW j \in 1 .. Len(File(m)) + 1, NEW k \in 1 .. Len(File(n)) + 1,
         m < n \/ (m = n /\ j < k)
  PROVE  P[m][j] < P[n][k]
<1>1. CASE m = n /\ j < k
  BY <1>1, LayoutRises
<1>2. CASE m < n
  <2> DEFINE l == Len(File(m)) + 1
             z == Len(File(n)) + 1
  <2>1. /\ Len(File(m)) \in Nat /\ l \in 1 .. l /\ j \in 1 .. l /\ l \in Nat
        /\ Len(File(n)) \in Nat /\ 1 \in 1 .. z /\ k \in 1 .. z /\ z \in Nat
    BY ArgsFacts
  <2>2. P[m][j] <= P[m][l]
    <3>1. P[m][j] \in Nat /\ P[m][l] \in Nat
      BY <2>1, LayoutNat
    <3>2. CASE j = l
      BY <3>1, <3>2
    <3>3. CASE j # l
      <4>1. j < l
        BY <2>1, <3>3
      <4> QED BY <2>1, <3>1, <4>1, LayoutRises
    <3> QED BY <3>2, <3>3
  <2>3. P[n][1] <= P[n][k]
    <3>1. P[n][1] \in Nat /\ P[n][k] \in Nat
      BY <2>1, LayoutNat
    <3>2. CASE k = 1
      BY <3>1, <3>2
    <3>3. CASE k # 1
      <4>1. 1 < k
        BY <2>1, <3>3
      <4> QED BY <2>1, <3>1, <4>1, LayoutRises
    <3> QED BY <3>2, <3>3
  <2>4. P[m][l] < P[n][1]
    BY <1>2 DEF Layout
  <2>5. P[m][j] \in Int /\ P[m][l] \in Int /\ P[n][1] \in Int /\ P[n][k] \in Int
    BY <2>1, LayoutNat
  <2> HIDE DEF l, z
  <2> QED BY <2>2, <2>3, <2>4, <2>5
<1> QED BY <1>1, <1>2

\* A line of a file is one of the text,
LEMMA StartPlaced ==
  ASSUME args \in Commands, data \in Files, NEW P, Layout(P), NEW n \in FileArgs, NEW p \in FileStarts(File(n))
  PROVE  p \in 1 .. Len(File(n)) /\ p \in 1 .. Len(File(n)) + 1 /\ P[n][p] \in Starts
<1>1. p \in 1 .. Len(File(n)) /\ Len(File(n)) \in Nat /\ size \in Nat
  BY ArgsFacts, FileFacts DEF FileStarts
<1>2. p \in 1 .. Len(File(n)) + 1 /\ P[n][p] \in 0 .. size - 1
  BY <1>1 DEF Layout
<1>3. (p = 1 \/ File(n)[p - 1] = Newline) /\ File(n)[p] \notin {Tab, Newline}
  BY DEF FileStarts
<1>4. At(P[n][p]) = File(n)[p]
  BY <1>1, <1>3 DEF Layout
<1>5. P[n][p] = 0 \/ At(P[n][p] - 1) = Newline
  <2>1. CASE p = 1
    BY <2>1 DEF Layout
  <2>2. CASE p # 1
    <3> DEFINE k == p - 1
    <3>1. k \in 1 .. Len(File(n)) /\ k + 1 = p /\ File(n)[k] = Newline
      BY <1>1, <1>3, <2>2
    <3> HIDE DEF k
    <3>2. P[n][k + 1] = P[n][k] + 3 /\ At(P[n][k] + 2) = Newline
      BY <3>1 DEF Layout
    <3>3. P[n][k] \in Int
      BY <1>1, <3>1 DEF Layout
    <3>4. P[n][p] - 1 = P[n][k] + 2
      BY <3>1, <3>2, <3>3
    <3> QED BY <3>2, <3>4
  <2> QED BY <2>1, <2>2
<1> QED BY <1>1, <1>2, <1>3, <1>4, <1>5 DEF Starts

\* ... and the text has no others.
LEMMA StartCovered ==
  ASSUME args \in Commands, data \in Files, NEW P, Layout(P), NEW d \in Starts
  PROVE  \E n \in FileArgs : \E p \in FileStarts(File(n)) : d = P[n][p]
<1>1. d \in 0 .. size - 1 /\ size \in Nat /\ (d = 0 \/ At(d - 1) = Newline) /\ At(d) \notin {Tab, Newline}
  BY FileFacts DEF Starts
<1>2. PICK n \in FileArgs : \E k \in 1 .. Len(File(n)) + 1 :
        \/ d = P[n][k]
        \/ k <= Len(File(n)) /\ File(n)[k] = Newline /\ d \in {P[n][k] + 1, P[n][k] + 2}
  BY <1>1 DEF Layout
<1>3. PICK k \in 1 .. Len(File(n)) + 1 :
        \/ d = P[n][k]
        \/ k <= Len(File(n)) /\ File(n)[k] = Newline /\ d \in {P[n][k] + 1, P[n][k] + 2}
  BY <1>2
<1> DEFINE l == Len(File(n))
           x == P[n][k]
<1>4. l \in Nat /\ DOMAIN File(n) = 1 .. l /\ k \in Nat /\ k >= 1 /\ k <= l + 1
  BY ArgsFacts
<1>5. x \in Nat
  BY <1>1 DEF Layout
<1>6. k <= l => k \in 1 .. l
  BY <1>4
<1>7. k <= l /\ File(n)[k] = Newline => At(x) = Tab /\ At(x + 2) = Newline
  BY <1>6 DEF Layout
<1>8. k <= l /\ File(n)[k] # Newline => At(x) = File(n)[k]
  BY <1>6 DEF Layout
<1>9. k = l + 1 => At(x) = Newline
  BY DEF Layout
<1>10. d = x
  <2> SUFFICES ASSUME k <= l, File(n)[k] = Newline, d \in {x + 1, x + 2} PROVE FALSE
    BY <1>3
  <2>1. d = x + 1
    BY <1>1, <1>7
  <2>2. d # 0 /\ d - 1 = x
    BY <1>5, <2>1
  <2> QED BY <1>1, <1>7, <2>2, ListAssumption
<1>11. k \in 1 .. l /\ File(n)[k] \notin {Tab, Newline}
  BY <1>1, <1>4, <1>6, <1>7, <1>8, <1>9, <1>10
<1>12. k = 1 \/ File(n)[k - 1] = Newline
  <2> SUFFICES ASSUME k # 1, File(n)[k - 1] # Newline PROVE FALSE
    OBVIOUS
  <2> DEFINE j == k - 1
  <2>1. j \in 1 .. l /\ j + 1 = k /\ File(n)[j] # Newline /\ j \in 1 .. l + 1
    BY <1>4, <1>11
  <2> HIDE DEF j
  <2>2. P[n][j + 1] = P[n][j] + 1 /\ At(P[n][j]) = File(n)[j]
    BY <2>1 DEF Layout
  <2>4. P[n][j] \in Nat
    BY <2>1, LayoutNat
  <2>3. d # 0 /\ d - 1 = P[n][j]
    BY <1>10, <2>1, <2>2, <2>4
  <2> QED BY <1>1, <2>1, <2>2, <2>3
<1>13. k \in FileStarts(File(n))
  BY <1>4, <1>11, <1>12 DEF FileStarts
<1> QED BY <1>10, <1>13

\* The lines of all files are numbered as those of the text.
LEMMA Numbered ==
  ASSUME args \in Commands, data \in Files, NEW P, Layout(P), NEW n \in FileArgs, NEW p \in FileStarts(File(n))
  PROVE  LinesBefore(P[n][p]) = LineNumber(n, p)
<1> DEFINE A == {l \in AllLines : l[1] < n \/ (l[1] = n /\ l[2] < p)}
           K == {k \in Starts : k < P[n][p]}
           g == [l \in A |-> P[l[1]][l[2]]]
<1>1. \A l \in AllLines : l[1] \in FileArgs /\ l[2] \in FileStarts(File(l[1])) /\ l = <<l[1], l[2]>>
  BY DEF AllLines, File
<1>2. \A m \in FileArgs : \A k \in FileStarts(File(m)) : <<m, k>> \in AllLines
  BY DEF AllLines, File
<1>3. \A m \in FileArgs : \A k \in FileStarts(File(m)) :
        m \in Int /\ k \in Int /\ k \in 1 .. Len(File(m)) + 1 /\ P[m][k] \in Starts /\ P[m][k] \in Nat
  <2> SUFFICES ASSUME NEW m \in FileArgs, NEW k \in FileStarts(File(m))
               PROVE  m \in Int /\ k \in Int /\ k \in 1 .. Len(File(m)) + 1 /\ P[m][k] \in Starts /\ P[m][k] \in Nat
    OBVIOUS
  <2>1. k \in 1 .. Len(File(m)) /\ k \in 1 .. Len(File(m)) + 1 /\ P[m][k] \in Starts
    BY StartPlaced
  <2>2. P[m][k] \in Nat
    BY <2>1, StartsFinite
  <2> QED BY <2>1, <2>2, ArgsFacts
<1>4. \A l, m \in FileArgs : \A j \in FileStarts(File(l)), k \in FileStarts(File(m)) :
        /\ l < m \/ (l = m /\ j < k) => P[l][j] < P[m][k]
        /\ P[l][j] < P[m][k] => l < m \/ (l = m /\ j < k)
        /\ P[l][j] = P[m][k] => l = m /\ j = k
  <2> SUFFICES ASSUME NEW l \in FileArgs, NEW m \in FileArgs,
                      NEW j \in FileStarts(File(l)), NEW k \in FileStarts(File(m))
               PROVE  /\ l < m \/ (l = m /\ j < k) => P[l][j] < P[m][k]
                      /\ P[l][j] < P[m][k] => l < m \/ (l = m /\ j < k)
                      /\ P[l][j] = P[m][k] => l = m /\ j = k
    OBVIOUS
  <2>1. /\ l \in Int /\ m \in Int /\ j \in Int /\ k \in Int /\ P[l][j] \in Nat /\ P[m][k] \in Nat
        /\ j \in 1 .. Len(File(l)) + 1 /\ k \in 1 .. Len(File(m)) + 1
    BY <1>3
  <2>2. l < m \/ (l = m /\ j < k) => P[l][j] < P[m][k]
    BY <2>1, LayoutOrder
  <2>3. m < l \/ (m = l /\ k < j) => P[m][k] < P[l][j]
    BY <2>1, LayoutOrder
  <2>4. l < m \/ m < l \/ (l = m /\ (j < k \/ k < j \/ j = k))
    BY <2>1
  <2>5. ~ (P[l][j] < P[m][k] /\ P[m][k] < P[l][j]) /\ ~ (P[l][j] < P[l][j])
        /\ (P[l][j] = P[m][k] => ~ (P[l][j] < P[m][k]) /\ ~ (P[m][k] < P[l][j]))
    BY <2>1
  <2> QED BY <2>2, <2>3, <2>4, <2>5
<1>5. IsFiniteSet(K)
  BY StartsFinite, UnderNat
<1> HIDE DEF g
<1>6. g \in [A -> K]
  <2> SUFFICES ASSUME NEW l \in A PROVE P[l[1]][l[2]] \in K
    BY DEF g
  <2>1. l[1] \in FileArgs /\ l[2] \in FileStarts(File(l[1])) /\ (l[1] < n \/ (l[1] = n /\ l[2] < p))
    BY <1>1
  <2> QED BY <1>3, <1>4, <2>1
<1>7. ASSUME NEW x \in A, NEW y \in A, g[x] = g[y] PROVE x = y
  <2>1. /\ x[1] \in FileArgs /\ x[2] \in FileStarts(File(x[1])) /\ x = <<x[1], x[2]>>
        /\ y[1] \in FileArgs /\ y[2] \in FileStarts(File(y[1])) /\ y = <<y[1], y[2]>>
    BY <1>1
  <2>2. P[x[1]][x[2]] = P[y[1]][y[2]]
    BY <1>7 DEF g
  <2>3. x[1] = y[1] /\ x[2] = y[2]
    BY <1>4, <2>1, <2>2
  <2> QED BY <2>1, <2>3
<1>8. ASSUME NEW d \in K PROVE \E x \in A : g[x] = d
  <2>1. PICK m \in FileArgs : \E k \in FileStarts(File(m)) : d = P[m][k]
    BY StartCovered
  <2>2. PICK k \in FileStarts(File(m)) : d = P[m][k]
    BY <2>1
  <2>3. P[m][k] < P[n][p]
    BY <2>2
  <2>4. m < n \/ (m = n /\ k < p)
    BY <1>4, <2>3
  <2>5. <<m, k>> \in A
    BY <1>2, <2>4
  <2>6. g[<<m, k>>] = d
    BY <2>2, <2>5 DEF g
  <2> QED BY <2>5, <2>6
<1>9. g \in Injection(A, K) /\ g \in Surjection(A, K)
  BY <1>6, <1>7, <1>8 DEF Injection, IsInjective, Surjection
<1>10. Cardinality(A) = Cardinality(K)
  BY <1>5, <1>9, FS_Injection
<1> QED BY <1>10 DEF LinesBefore, LineNumber

LEMMA EntryAt ==
  ASSUME NEW x, NEW d, EntryOf(x, d), NEW e, e = d + Len(x.word)
  PROVE  /\ e <= size
         /\ \A k \in d .. e - 1 : x.word[k - d + 1] = At(k) /\ At(k) \notin {Tab, Newline}
         /\ e = size \/ At(e) \in {Tab, Newline}
         /\ e = size \/ At(e) = Newline => x.key = DEFAULT
         /\ e + 1 < size /\ At(e) = Tab /\ At(e + 1) # Newline => x.key = Low[At(e + 1)]
BY DEF EntryOf

\* The word of a line is that of the file, and what is behind it sets the key.
LEMMA WordPlaced ==
  ASSUME args \in Commands, data \in Files, NEW P, Layout(P), NEW n \in FileArgs, NEW p \in FileStarts(File(n)),
         NEW x, x.word \in Seq(DOMAIN Low), EntryOf(x, P[n][p]), NEW e, e = p + Len(x.word)
  PROVE  /\ e <= Len(File(n)) + 1 /\ x.word = SubSeq(File(n), p, e - 1)
         /\ \A k \in p .. e - 1 : File(n)[k] \notin {Tab, Newline}
         /\ e <= Len(File(n)) => File(n)[e] \in {Tab, Newline}
         /\ e <= Len(File(n)) /\ File(n)[e] = Newline /\ KeyChar[Key(n)] # Newline => x.key = Key(n) % 16
         /\ e = Len(File(n)) + 1 => x.key = DEFAULT
<1> DEFINE f == File(n)
           l == Len(f)
           d == P[n][p]
           w == Len(x.word)
           T == {k \in p .. l : f[k] \in {Tab, Newline}} \union {l + 1}
<1>1. /\ l \in Nat /\ DOMAIN f = 1 .. l /\ f \in Seq(DOMAIN Low) /\ Key(n) \in DOMAIN KeyChar
      /\ size \in Nat /\ w \in Nat /\ p \in 1 .. l /\ p \in 1 .. l + 1 /\ d \in Nat /\ e \in Nat
  <2>1. p \in 1 .. l /\ p \in 1 .. l + 1
    BY StartPlaced
  <2> QED BY <2>1, ArgsFacts, FileFacts, LayoutNat, LenProperties
<1>2. PICK z \in T : \A y \in T : z <= y
  <2>1. T \subseteq Nat /\ T # {}
    BY <1>1
  <2> QED BY <2>1, LeastNat
<1>3. z \in p .. l + 1 /\ z \in 1 .. l + 1 /\ z \in Nat
  BY <1>1
<1>4. \A k \in p .. z - 1 : k \in 1 .. l /\ f[k] \notin {Tab, Newline}
  <2> SUFFICES ASSUME NEW k \in p .. z - 1 PROVE k \in 1 .. l /\ f[k] \notin {Tab, Newline}
    OBVIOUS
  <2>1. k \in p .. l /\ k \in 1 .. l /\ ~ (z <= k)
    BY <1>1, <1>3
  <2>2. k \notin T
    BY <1>2, <2>1
  <2> QED BY <2>1, <2>2
<1>5. z = l + 1 \/ (z \in 1 .. l /\ f[z] \in {Tab, Newline})
  BY <1>1, <1>3
<1> HIDE DEF T
\* Up to z the characters stand one behind the other.
<1>6. \A k \in p .. z : P[n][k] = d + (k - p)
  <2> DEFINE N == z - p
             S == {j \in 0 .. N : P[n][p + j] = d + j}
  <2>1. N \in Nat
    BY <1>1, <1>3
  <2>2. 0 \in S
    BY <1>1, <2>1
  <2>3. ASSUME NEW j \in 1 .. N, j - 1 \in S PROVE j \in S
    <3> DEFINE k == p + (j - 1)
    <3>5. P[n][k] = d + (j - 1)
      BY <2>3
    <3>1. k \in p .. z - 1 /\ k + 1 = p + j /\ P[n][k] = d + (j - 1) /\ j \in 0 .. N /\ j \in Int
      BY <1>1, <1>3, <3>5
    <3> HIDE DEF k
    <3>2. k \in 1 .. l /\ f[k] # Newline
      BY <1>4, <3>1
    <3>3. P[n][k + 1] = P[n][k] + 1
      BY <3>2 DEF Layout
    <3>4. P[n][p + j] = d + j
      <4> HIDE DEF d
      <4>1. d + (j - 1) + 1 = d + j
        BY <1>1, <3>1
      <4>2. P[n][k + 1] = d + (j - 1) + 1
        BY <3>1, <3>3
      <4> QED BY <3>1, <4>1, <4>2
    <3> QED BY <3>1, <3>4
  <2> HIDE DEF N, S
  <2>4. \A j \in 0 .. N : j \in S
    BY <2>1, <2>2, <2>3, UpFromZero
  <2>5. ASSUME NEW k \in p .. z PROVE P[n][k] = d + (k - p)
    <3>1. k - p \in 0 .. N /\ p + (k - p) = k
      BY <1>1, <1>3 DEF N
    <3>2. P[n][p + (k - p)] = d + (k - p)
      BY <2>4, <3>1 DEF S
    <3> QED BY <3>1, <3>2
  <2> QED BY <2>5
<1>7. \A k \in p .. z - 1 : At(d + (k - p)) = f[k]
  <2> SUFFICES ASSUME NEW k \in p .. z - 1 PROVE At(d + (k - p)) = f[k]
    OBVIOUS
  <2>1. k \in p .. z /\ k \in 1 .. l /\ f[k] # Newline
    BY <1>1, <1>3, <1>4
  <2>2. At(P[n][k]) = f[k]
    BY <2>1 DEF Layout
  <2>3. P[n][k] = d + (k - p)
    BY <1>6, <2>1
  <2> QED BY <2>2, <2>3
<1>8. /\ d + (z - p) \in 0 .. size - 1
      /\ z = l + 1 => At(d + (z - p)) = Newline
      /\ z # l + 1 /\ f[z] = Tab => At(d + (z - p)) = Tab
      /\ z # l + 1 /\ f[z] = Newline => At(d + (z - p)) = Tab /\ At(d + (z - p) + 1) = KeyChar[Key(n)]
                                       /\ d + (z - p) + 2 <= size - 1
  <2>1. z \in p .. z
    BY <1>1, <1>3
  <2>2. P[n][z] = d + (z - p)
    BY <1>6, <2>1
  <2>3. P[n][z] \in 0 .. size - 1
    BY <1>3 DEF Layout
  <2>4. z = l + 1 => At(P[n][z]) = Newline
    BY DEF Layout
  <2>5. z # l + 1 /\ f[z] = Tab => At(P[n][z]) = Tab
    <3> SUFFICES ASSUME z # l + 1, f[z] = Tab PROVE At(P[n][z]) = Tab
      OBVIOUS
    <3>1. z \in 1 .. l /\ f[z] # Newline
      BY <1>5, ListAssumption
    <3> QED BY <3>1 DEF Layout
  <2>6. ASSUME z # l + 1, f[z] = Newline
        PROVE  At(P[n][z]) = Tab /\ At(P[n][z] + 1) = KeyChar[Key(n)] /\ P[n][z] + 2 <= size - 1
    <3>1. z \in 1 .. l /\ z + 1 \in 1 .. l + 1
      BY <1>1, <1>5, <2>6
    <3>2. P[n][z + 1] = P[n][z] + 3 /\ At(P[n][z]) = Tab /\ At(P[n][z] + 1) = KeyChar[Key(n)]
      BY <2>6, <3>1 DEF Layout
    <3>3. P[n][z + 1] \in 0 .. size - 1
      BY <3>1 DEF Layout
    <3> QED BY <1>1, <2>3, <3>2, <3>3
  <2> QED BY <2>2, <2>3, <2>4, <2>5, <2>6
\* So the word ends there.
<1>9. /\ d + w <= size
      /\ \A k \in d .. d + w - 1 : x.word[k - d + 1] = At(k) /\ At(k) \notin {Tab, Newline}
      /\ d + w = size \/ At(d + w) \in {Tab, Newline}
      /\ d + w = size \/ At(d + w) = Newline => x.key = DEFAULT
      /\ d + w + 1 < size /\ At(d + w) = Tab /\ At(d + w + 1) # Newline => x.key = Low[At(d + w + 1)]
  <2> DEFINE u == d + w
  <2>1. EntryOf(x, d) /\ u = d + Len(x.word)
    OBVIOUS
  <2> HIDE DEF u, d, w
  <2>2. /\ u <= size
        /\ \A k \in d .. u - 1 : x.word[k - d + 1] = At(k) /\ At(k) \notin {Tab, Newline}
        /\ u = size \/ At(u) \in {Tab, Newline}
        /\ u = size \/ At(u) = Newline => x.key = DEFAULT
        /\ u + 1 < size /\ At(u) = Tab /\ At(u + 1) # Newline => x.key = Low[At(u + 1)]
    BY <2>1, EntryAt
  <2>4. \A k \in d .. d + w - 1 : x.word[k - d + 1] = At(k) /\ At(k) \notin {Tab, Newline}
    <3> SUFFICES ASSUME NEW k \in d .. d + w - 1
                 PROVE  x.word[k - d + 1] = At(k) /\ At(k) \notin {Tab, Newline}
      OBVIOUS
    <3>1. k \in d .. u - 1
      BY <1>1 DEF u
    <3> QED BY <2>2, <3>1
  <2> QED BY <2>2, <2>4 DEF u
<1> HIDE DEF f, l, d, w
<1>10. w = z - p
  <2>1. ~ (w < z - p)
    <3> SUFFICES ASSUME w < z - p PROVE FALSE
      OBVIOUS
    <3> DEFINE k == p + w
    <3>1. k \in p .. z - 1 /\ k - p = w
      BY <1>1, <1>3
    <3> HIDE DEF k
    <3>2. At(d + w) \notin {Tab, Newline}
      <4>1. At(d + (k - p)) = f[k] /\ f[k] \notin {Tab, Newline}
        BY <1>4, <1>7, <3>1
      <4> QED BY <3>1, <4>1
    <3>3. d + w # size
      BY <1>1, <1>3, <1>8
    <3> QED BY <1>9, <3>2, <3>3
  <2>2. ~ (z - p < w)
    <3> SUFFICES ASSUME z - p < w PROVE FALSE
      OBVIOUS
    <3>1. d + (z - p) \in d .. d + w - 1
      BY <1>1, <1>3
    <3>2. At(d + (z - p)) \notin {Tab, Newline}
      BY <1>9, <3>1
    <3> QED BY <1>5, <1>8, <3>2
  <2> QED BY <1>1, <1>3, <2>1, <2>2
<1>11. e = z
  BY <1>1, <1>3, <1>10 DEF w
<1>12. x.word = SubSeq(f, p, z - 1)
  <2>1. \A k \in p .. z - 1 : f[k] \in DOMAIN Low
    BY <1>1, <1>4, ElementOfSeq DEF l
  <2>2. /\ SubSeq(f, p, z - 1) \in Seq(DOMAIN Low)
        /\ Len(SubSeq(f, p, z - 1)) = IF p <= z - 1 THEN z - 1 - p + 1 ELSE 0
        /\ \A k \in 1 .. z - 1 - p + 1 : SubSeq(f, p, z - 1)[k] = f[p + k - 1]
    <3>1. p \in Int /\ z - 1 \in Int
      BY <1>1, <1>3
    <3> QED BY <2>1, <3>1, SubSeqProperties
  <2>3. Len(SubSeq(f, p, z - 1)) = w
    BY <1>1, <1>3, <1>10, <2>2
  <2>4. ASSUME NEW k \in 1 .. w PROVE x.word[k] = SubSeq(f, p, z - 1)[k]
    <3> DEFINE j == p + k - 1
               u == d + (j - p)
    <3>4. u \in d .. d + w - 1 /\ u - d + 1 = k
      BY <1>1, <1>3, <1>10
    <3>1. j \in p .. z - 1 /\ k \in 1 .. z - 1 - p + 1 /\ d + (j - p) \in d .. d + w - 1 /\ d + (j - p) - d + 1 = k
      BY <1>1, <1>3, <1>10
    <3> HIDE DEF j
    <3> HIDE DEF u
    <3>5. x.word[k] = At(u)
      BY <1>9, <3>4
    <3>2. x.word[k] = At(d + (j - p))
      BY <3>5 DEF u
    <3>3. SubSeq(f, p, z - 1)[k] = f[j]
      BY <2>2, <3>1 DEF j
    <3> QED BY <1>7, <3>1, <3>2, <3>3
  <2> QED BY <2>2, <2>3, <2>4, SeqEqual DEF w
<1>13. z # l + 1 /\ f[z] = Newline /\ KeyChar[Key(n)] # Newline => x.key = Key(n) % 16
  <2> SUFFICES ASSUME z # l + 1, f[z] = Newline, KeyChar[Key(n)] # Newline PROVE x.key = Key(n) % 16
    OBVIOUS
  <2>1. d + (z - p) = d + w
    BY <1>10
  <2>2. At(d + w) = Tab /\ At(d + w + 1) = KeyChar[Key(n)] /\ d + w + 2 <= size - 1
    BY <1>8, <2>1
  <2>3. d + w + 1 < size
    BY <1>1, <2>2
  <2> QED BY <1>1, <1>9, <2>2, <2>3, CtlAssumption
<1>14. z = l + 1 => x.key = DEFAULT
  BY <1>8, <1>9, <1>10
<1>15. e <= l => z # l + 1 /\ f[z] \in {Tab, Newline}
  BY <1>1, <1>3, <1>5, <1>11
<1>16. e <= l + 1 /\ (e = l + 1 => z = l + 1)
  BY <1>1, <1>3, <1>11
<1>17. x.word = SubSeq(f, p, e - 1) /\ \A k \in p .. e - 1 : f[k] \notin {Tab, Newline}
  BY <1>4, <1>11, <1>12
<1>18. /\ e <= l => f[e] \in {Tab, Newline}
       /\ e <= l /\ f[e] = Newline /\ KeyChar[Key(n)] # Newline => x.key = Key(n) % 16
       /\ e = l + 1 => x.key = DEFAULT
  BY <1>11, <1>13, <1>14, <1>15, <1>16
<1> QED BY <1>16, <1>17, <1>18 DEF f, l

\* A command loads what HashList starts with (iwordctl's load).
LEMMA LoadedFile == CtlSpec => Spec /\ [](args \in Commands /\ data = Loaded(args) /\ data \in Files)
<1>1. CtlInit => Init /\ args \in Commands /\ data = Loaded(args) /\ data \in Files
  BY DEF CtlInit, Init
<1>2. [Next /\ UNCHANGED args]_<<vars, args>> => [Next]_vars
  OBVIOUS
<1>3. args \in Commands /\ data = Loaded(args) /\ data \in Files /\ [Next /\ UNCHANGED args]_<<vars, args>>
        => (args \in Commands /\ data = Loaded(args) /\ data \in Files)'
  <2> SUFFICES ASSUME args \in Commands, data = Loaded(args), data \in Files,
                      [Next /\ UNCHANGED args]_<<vars, args>>
               PROVE  args' \in Commands /\ data' = Loaded(args') /\ data' \in Files
    OBVIOUS
  <2>1. args' = args /\ data' = data
    BY DEF Next, vars, Fail, ParseLine, Parsed, RegisterWord, Registering, Sort, Store, Publish
  <2> QED BY <2>1
<1> QED BY <1>1, <1>2, <1>3, PTL DEF CtlSpec, Spec

\* Several files put together keep their words apart, in order and under the keys
\* that were given for them (iwordctl's load, then iword_load).
THEOREM CategoriesStay == CtlSpec => []CategoriesKept
<1>1. ASSUME IndInv, args \in Commands, data = Loaded(args), data \in Files PROVE CategoriesKept
  <2> SUFFICES ASSUME phase \notin {"parse", "failed"}, Len(args) > 1,
                      NEW n \in FileArgs, NEW p \in FileStarts(File(n)),
                      NEW x, x = list[LineNumber(n, p) + 1], NEW e, e = p + Len(x.word)
               PROVE  /\ e <= Len(File(n)) + 1 /\ x.word = SubSeq(File(n), p, e - 1)
                      /\ \A k \in p .. e - 1 : File(n)[k] \notin {Tab, Newline}
                      /\ e <= Len(File(n)) => File(n)[e] \in {Tab, Newline}
                      /\ e <= Len(File(n)) /\ File(n)[e] = Newline /\ KeyChar[Key(n)] # Newline
                           => x.key = Key(n) % 16
                      /\ e = Len(File(n)) + 1 => x.key = DEFAULT
    BY DEF CategoriesKept, File, Key
  <2>1. data = Joined(args)
    <3>1. Len(args) # 1
      BY <1>1, ArgsFacts
    <3> QED BY <1>1, <3>1 DEF Loaded
  <2>2. PICK P : Layout(P)
    BY <1>1, <2>1, LayoutExists
  <2>3. P[n][p] \in Starts
    BY <1>1, <2>2, StartPlaced
  <2>4. LinesParsed
    BY <1>1 DEF IndInv
  <2>5. Len(list) = Cardinality(Starts) /\ EntryOf(list[LinesBefore(P[n][p]) + 1], P[n][p])
    BY <2>3, <2>4 DEF LinesParsed, LineParsed
  <2>6. EntryOf(x, P[n][p])
    BY <1>1, <2>2, <2>5, Numbered
  <2>7. x.word \in Seq(DOMAIN Low)
    <3>1. IsFiniteSet(Starts) /\ Starts \subseteq Nat /\ Cardinality(Starts) \in Nat
      BY <1>1, StartsFinite, FS_CardinalityType
    <3>2. LinesBefore(P[n][p]) \in 0 .. Cardinality(Starts) - 1
      <4>1. {k \in Starts : k < P[n][p]} \in SUBSET (Starts \ {P[n][p]})
        <5>1. \A k \in Starts : k < P[n][p] => k # P[n][p]
          BY <2>3, <3>1
        <5> QED BY <5>1
      <4>2. IsFiniteSet(Starts \ {P[n][p]}) /\ Cardinality(Starts \ {P[n][p]}) = Cardinality(Starts) - 1
        BY <2>3, <3>1, FS_RemoveElement
      <4>3. LinesBefore(P[n][p]) <= Cardinality(Starts) - 1
        BY <4>1, <4>2, FS_Subset DEF LinesBefore
      <4>4. LinesBefore(P[n][p]) \in Nat
        BY <3>1, UnderNat DEF LinesBefore, Under
      <4> QED BY <3>1, <4>3, <4>4
    <3> DEFINE m == LinesBefore(P[n][p]) + 1
    <3>3. m \in 1 .. Len(list) /\ x = list[m]
      BY <1>1, <2>2, <2>5, <3>1, <3>2, Numbered
    <3>4. list \in Seq([word : Strings \ {<<>>}, key : 0 .. 15])
      BY <1>1 DEF IndInv, TypeOK
    <3> DEFINE Entries == [word : Strings \ {<<>>}, key : 0 .. 15]
    <3> HIDE DEF m
    <3>5. x \in Entries
      <4> HIDE DEF Entries
      <4>1. list \in Seq(Entries)
        BY <3>4 DEF Entries
      <4> QED BY <3>3, <4>1, ElementOfSeq
    <3> QED BY <3>5, StringsAssumption
  <2> QED BY <1>1, <2>2, <2>6, <2>7, WordPlaced
<1>2. IndInv /\ args \in Commands /\ data = Loaded(args) /\ data \in Files => CategoriesKept
  BY <1>1
<1> QED BY <1>2, LoadedFile, Invariance, PTL

-----------------------------------------------------------------------------
(* What Ends rests on                                                      *)

\* What the loop of each phase goes through.
Work == IF phase = "parse" THEN size ELSE IF phase = "register" THEN Len(list) ELSE Len(h)

\* Every step of a loop moves its index on, or ends the loop behind its last turn.
Onward ==
  \/ phase \in {"parse", "register", "store"} /\ phase' = phase /\ i < Work /\ i < i' /\ Work' = Work
  \/ /\ phase = "sort" \/ i >= Work
     /\ <<phase, phase'>> \in {<<"parse", "register">>, <<"register", "sort">>,
                               <<"sort", "store">>, <<"store", "built">>}
  \/ phase \in {"parse", "register", "sort"} /\ phase' = "failed"

\* The loops of iword_load and iword_makelist end after at most as many steps as
\* there are characters, entries and hashes, whatever the lines of the file are.
THEOREM GoesOnward == Spec => [][Onward]_vars
<1>1. ASSUME IndInv, data \in Files, Next PROVE Onward
  <2>1. i \in Nat
    BY <1>1 DEF IndInv, TypeOK
  <2>2. CASE Fail
    BY <2>2 DEF Fail, Onward
  <2>3. CASE ParseLine
    <3>1. phase = "parse" /\ i < size /\ i' = LineEnd(i) + 1 /\ UNCHANGED <<data, phase>>
      BY <2>3 DEF ParseLine
    <3>2. size \in Nat
      BY <1>1, FileFacts DEF size
    <3>3. LineEnd(i) \in i .. size
      BY <1>1, <2>1, <3>1, <3>2, LineEndFacts
    <3>4. i < i'
      BY <2>1, <3>1, <3>2, <3>3
    <3> QED BY <3>1, <3>4 DEF Onward, Work, size
  <2>4. CASE RegisterWord
    <3>1. phase = "register" /\ i < Len(list) /\ i' = i + 1 /\ UNCHANGED <<list, phase>>
      BY <2>4 DEF RegisterWord
    <3>2. i < i'
      BY <2>1, <3>1
    <3> QED BY <3>1, <3>2 DEF Onward, Work
  <2>5. CASE Store
    <3>1. phase = "store" /\ i < Len(h) /\ i' = i + 1 /\ UNCHANGED <<h, phase>>
      BY <2>5 DEF Store
    <3>2. i < i'
      BY <2>1, <3>1
    <3> QED BY <3>1, <3>2 DEF Onward, Work
  <2>6. CASE Parsed \/ Registering \/ Sort \/ Publish
    BY <2>6 DEF Parsed, Registering, Sort, Publish, Onward, Work
  <2> QED BY <1>1, <2>2, <2>3, <2>4, <2>5, <2>6 DEF Next
<1>2. IndInv /\ data \in Files /\ [Next]_vars => [Onward]_vars
  BY <1>1
<1> QED BY <1>2, FileStays, Invariance, PTL DEF Spec

=============================================================================
