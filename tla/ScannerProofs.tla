---------------------------- MODULE ScannerProofs ----------------------------
(***************************************************************************)
(* Theorems about Scanner, for any texts, dictionaries and sizes.          *)
(***************************************************************************)
EXTENDS Scanner, SharedLemmas, SequenceTheorems

-----------------------------------------------------------------------------
(* Searches in the text                                                    *)

\* The name of a kept element is made of letters.
LEMMA TagNames ==
  ASSUME NEW n \in KeepTags
  PROVE  /\ n \in Seq(STRING) /\ Len(n) \in Nat /\ n # <<>> /\ n # None
         /\ \A m \in 1 .. Len(n) : n[m] \in Letters /\ n[m] # ">"
<1>1. n \in Seq(Letters) /\ Letters \subseteq STRING /\ ">" \notin Letters /\ n # <<>> /\ n # None
  BY ScannerAssumption
<1>2. Len(n) \in Nat /\ n \in [1 .. Len(n) -> Letters]
  BY <1>1, LenProperties
<1>3. n \in [1 .. Len(n) -> STRING]
  BY <1>1, <1>2
<1>4. n \in Seq(STRING)
  BY <1>2, <1>3, IsASeq
<1> QED BY <1>1, <1>2, <1>4

LEMMA SizeNat == text \in Seq(STRING) => size \in Nat
BY LenProperties DEF size

\* A search ends at a hit or at the end of the text.
LEMMA FindForward ==
  ASSUME text \in Seq(STRING), NEW p \in Nat, NEW C
  PROVE  /\ Find(p, C) \in Nat /\ p <= Find(p, C)
         /\ p < size => Find(p, C) <= size
<1> DEFINE Hits == {k \in p .. size - 1 : At(k) \in C}
<1>1. size \in Nat
  BY SizeNat
<1>2. CASE Hits = {}
  BY <1>1, <1>2 DEF Find
<1>3. CASE Hits # {}
  <2>1. Hits \subseteq Nat
    BY <1>1
  <2>2. Min(Hits) \in Hits
    BY <1>3, <2>1, MinNat
  <2>3. Find(p, C) = Min(Hits)
    BY <1>3 DEF Find
  <2> QED BY <1>1, <2>2, <2>3
<1> QED BY <1>2, <1>3

LEMMA CommentEndForward ==
  ASSUME text \in Seq(STRING), NEW p \in Nat, p + 3 < size
  PROVE  CommentEnd(p) \in Nat /\ p <= CommentEnd(p)
<1> DEFINE Ends == {k \in p + 5 .. size - 1 : At(k) = ">" /\ At(k - 1) = "-" /\ At(k - 2) = "-"}
<1>1. size \in Nat
  BY SizeNat
<1>2. CASE Ends = {}
  BY <1>1, <1>2 DEF CommentEnd
<1>3. CASE Ends # {}
  <2>1. Ends \subseteq Nat
    BY <1>1
  <2>2. Min(Ends) \in Ends
    BY <1>3, <2>1, MinNat
  <2>3. CommentEnd(p) = Min(Ends)
    BY <1>3 DEF CommentEnd
  <2> QED BY <1>1, <2>2, <2>3
<1> QED BY <1>2, <1>3

\* The search for the end of a tag goes forward, over quoted values too.
LEMMA TagEndForward ==
  ASSUME text \in Seq(STRING)
  PROVE  \A p \in 0 .. size :
           /\ TagEnd[p] \in Nat /\ p <= TagEnd[p]
           /\ TagEnd[p] = IF p >= size \/ At(p) = ">" THEN p
                          ELSE IF At(p) \in {"\"", "'"} THEN TagEnd[Find(p + 1, {At(p)}) + 1]
                          ELSE TagEnd[p + 1]
<1> DEFINE N    == size + 2
           stop == {p \in 0 .. N : p >= size \/ At(p) = ">"}
           base == [p \in 0 .. N |-> p]
           next == [p \in 0 .. N |-> IF At(p) \in {"\"", "'"} THEN Find(p + 1, {At(p)}) + 1 ELSE p + 1]
           id   == [p \in 0 .. N |-> [x \in Nat |-> x]]
           After(f, p) == IF p >= size \/ At(p) = ">" THEN p
                          ELSE IF At(p) \in {"\"", "'"} THEN f[Find(p + 1, {At(p)}) + 1]
                          ELSE f[p + 1]
           S == {n \in 0 .. N : \A p \in n .. N : TagEnd[p] \in Nat /\ p <= TagEnd[p]}
<1>1. N \in Nat /\ size \in Nat /\ N = size + 2
  BY SizeNat
<1>2. \A p \in 0 .. N : base[p] = p /\ id[p] \in [Nat -> Nat] /\ \A x \in Nat : id[p][x] = x
  OBVIOUS
<1>3. \A p \in 0 .. N : next[p] = IF At(p) \in {"\"", "'"} THEN Find(p + 1, {At(p)}) + 1 ELSE p + 1
  OBVIOUS
<1>4. \A p \in 0 .. N : p \in stop <=> p >= size \/ At(p) = ">"
  OBVIOUS
<1> HIDE DEF N, stop, base, next, id
<1>5. ASSUME NEW p \in 0 .. N, p \notin stop PROVE next[p] \in p + 1 .. N
  <2>1. p < size /\ p \in Nat /\ p + 1 \in Nat
    BY <1>1, <1>4, <1>5
  <2>2. /\ Find(p + 1, {At(p)}) \in Nat /\ p + 1 <= Find(p + 1, {At(p)})
        /\ p + 1 < size => Find(p + 1, {At(p)}) <= size
    BY <2>1, FindForward
  <2>3. p + 1 >= size => Find(p + 1, {At(p)}) = p + 1
    <3> SUFFICES ASSUME p + 1 >= size PROVE Find(p + 1, {At(p)}) = p + 1
      OBVIOUS
    <3>1. \A k \in p + 1 .. size - 1 : FALSE
      BY <1>1, <2>1
    <3>2. {k \in p + 1 .. size - 1 : At(k) \in {At(p)}} = {}
      BY <3>1
    <3>3. ~ (p + 1 < size)
      BY <1>1, <2>1
    <3> QED BY <3>2, <3>3 DEF Find
  <2>4. Find(p + 1, {At(p)}) + 1 \in p + 1 .. N
    BY <1>1, <2>1, <2>2, <2>3
  <2>5. p + 1 \in p + 1 .. N
    BY <1>1, <2>1
  <2> QED BY <1>3, <2>4, <2>5
<1>6. ASSUME NEW f, NEW p \in 0 .. N
      PROVE  After(f, p) = IF p \in stop THEN p ELSE f[next[p]]
  BY <1>3, <1>4
<1> HIDE DEF After
<1>7. \E f : f = [p \in 0 .. N |-> After(f, p)]
  <2>1. PICK f \in [0 .. N -> Nat] : Climbs(f, N, stop, base, id, next)
    <3>1. \A p \in 0 .. N : p \in stop => base[p] \in Nat
      BY <1>1, <1>2
    <3>2. \A p \in 0 .. N : p \notin stop => id[p] \in [Nat -> Nat]
      BY <1>2
    <3>3. \A p \in 0 .. N : p \notin stop => next[p] \in p + 1 .. N
      BY <1>5
    <3> QED BY ONLY <1>1, <3>1, <3>2, <3>3, ClimbExists
  <2>2. ASSUME NEW p \in 0 .. N PROVE f[p] = After(f, p)
    <3>1. CASE p \in stop
      <4>1. f[p] = base[p]
        BY <2>1, <3>1 DEF Climbs
      <4> QED BY <1>2, <1>6, <3>1, <4>1
    <3>2. CASE p \notin stop
      <4>1. next[p] \in 0 .. N
        BY <1>1, <1>5, <3>2
      <4>2. f[p] = id[p][f[next[p]]] /\ f[next[p]] \in Nat
        BY <2>1, <3>2, <4>1 DEF Climbs
      <4>3. id[p][f[next[p]]] = f[next[p]]
        BY <1>2, <4>2
      <4>4. After(f, p) = f[next[p]]
        BY <1>6, <3>2
      <4> QED BY <4>2, <4>3, <4>4
    <3> QED BY <3>1, <3>2
  <2>3. f = [p \in 0 .. N |-> f[p]]
    OBVIOUS
  <2> QED BY <2>2, <2>3
<1>8. TagEnd = [p \in 0 .. N |-> After(TagEnd, p)]
  <2>1. TagEnd = CHOOSE f : f = [p \in 0 .. N |-> After(f, p)]
    BY <1>1 DEF TagEnd, After
  <2> QED BY <1>7, <2>1
<1>9. ASSUME NEW p \in 0 .. N,
             p \notin stop => TagEnd[next[p]] \in Nat /\ next[p] <= TagEnd[next[p]]
      PROVE  TagEnd[p] \in Nat /\ p <= TagEnd[p]
  <2>1. TagEnd[p] = IF p \in stop THEN p ELSE TagEnd[next[p]]
    BY ZenonT(30), <1>6, <1>8
  <2>2. p \notin stop => next[p] \in p + 1 .. N
    BY <1>5
  <2> QED BY <1>1, <1>9, <2>1, <2>2
<1>10. N \in S
  <2>1. N \in stop
    BY <1>1, <1>4
  <2>2. TagEnd[N] \in Nat /\ N <= TagEnd[N]
    BY <1>1, <1>9, <2>1
  <2> QED BY <1>1, <2>2
<1>11. ASSUME NEW n \in 1 .. N, n \in S PROVE n - 1 \in S
  <2>1. n - 1 \in 0 .. N /\ \A p \in n - 1 .. N : p = n - 1 \/ p \in n .. N
    BY <1>1
  <2>2. n - 1 \notin stop => next[n - 1] \in n .. N
    BY <1>1, <1>5, <2>1
  <2>3. TagEnd[n - 1] \in Nat /\ n - 1 <= TagEnd[n - 1]
    BY <1>9, <1>11, <2>1, <2>2
  <2> QED BY <1>11, <2>1, <2>3
<1>12. 0 \in S
  <2> HIDE DEF S
  <2>1. \A n \in 0 .. N : n \in S
    BY <1>1, <1>10, <1>11, DownToZero
  <2> QED BY <1>1, <2>1
<1>13. \A p \in 0 .. size : p \in 0 .. N
  BY <1>1
<1>14. \A p \in 0 .. N : TagEnd[p] = After(TagEnd, p)
  BY <1>8
<1> QED BY <1>12, <1>13, <1>14 DEF After

\* What Left says of the two loops, one step at a time.
LEMMA LeftStep ==
  ASSUME TypeOK, \A k \in Positions : k + w[k] <= size
  PROVE  \A p \in 0 .. size :
           /\ Left[p] \in Nat
           /\ Left[p] = IF p >= size THEN 0
                        ELSE IF w[p] = 0 THEN Left[p + 1]
                        ELSE (IF Returned(p) THEN 1 ELSE 0) + Left[p + w[p]]
<1> DEFINE N    == size
           stop == {p \in 0 .. N : p >= size}
           gain(p) == IF w[p] # 0 /\ Returned(p) THEN 1 ELSE 0
           base == [p \in 0 .. N |-> 0]
           next == [p \in 0 .. N |-> IF w[p] = 0 THEN p + 1 ELSE p + w[p]]
           add  == [p \in 0 .. N |-> [x \in Nat |-> gain(p) + x]]
           After(f, p) == IF p >= size THEN 0
                          ELSE IF w[p] = 0 THEN f[p + 1]
                          ELSE (IF Returned(p) THEN 1 ELSE 0) + f[p + w[p]]
<1>1. N \in Nat /\ N = size
  BY SizeNat DEF TypeOK
<1>2. \A p \in 0 .. N : base[p] = 0 /\ \A x \in Nat : add[p][x] = gain(p) + x
  OBVIOUS
<1>3. \A p \in 0 .. N : gain(p) \in Nat
  OBVIOUS
<1>4. \A p \in 0 .. N : add[p] \in [Nat -> Nat]
  BY <1>3
<1>5. \A p \in 0 .. N : next[p] = IF w[p] = 0 THEN p + 1 ELSE p + w[p]
  OBVIOUS
<1>6. \A p \in 0 .. N : p \in stop <=> p >= size
  OBVIOUS
<1> HIDE DEF N, stop, base, next, add
<1>7. ASSUME NEW p \in 0 .. N, p \notin stop PROVE next[p] \in p + 1 .. N /\ w[p] \in Nat
  <2>1. p < size /\ p \in Positions
    BY <1>1, <1>6, <1>7 DEF Positions
  <2>2. w[p] \in Nat /\ p + w[p] <= size
    BY <2>1 DEF TypeOK
  <2> QED BY <1>1, <1>5, <2>1, <2>2
<1>8. ASSUME NEW f, NEW p \in 0 .. N, p \notin stop => f[next[p]] \in Nat
      PROVE  After(f, p) = IF p \in stop THEN base[p] ELSE add[p][f[next[p]]]
  <2>1. CASE p \in stop
    BY <1>2, <1>6, <2>1
  <2>2. CASE p \notin stop /\ w[p] = 0
    <3>1. next[p] = p + 1 /\ gain(p) = 0
      BY <1>5, <2>2
    <3> QED BY <1>2, <1>6, <1>8, <2>2, <3>1
  <2>3. CASE p \notin stop /\ w[p] # 0
    <3>1. next[p] = p + w[p] /\ gain(p) = IF Returned(p) THEN 1 ELSE 0
      BY <1>5, <2>3
    <3> QED BY <1>2, <1>6, <1>8, <2>3, <3>1
  <2> QED BY <2>1, <2>2, <2>3
<1> HIDE DEF After
<1>9. /\ \A p \in 0 .. N : p \in stop => base[p] \in Nat
      /\ \A p \in 0 .. N : p \notin stop => add[p] \in [Nat -> Nat]
      /\ \A p \in 0 .. N : p \notin stop => next[p] \in p + 1 .. N
  <2>1. \A p \in 0 .. N : p \in stop => base[p] \in Nat
    BY <1>2
  <2>2. \A p \in 0 .. N : p \notin stop => add[p] \in [Nat -> Nat]
    BY <1>4
  <2>3. \A p \in 0 .. N : p \notin stop => next[p] \in p + 1 .. N
    BY <1>7
  <2> QED BY <2>1, <2>2, <2>3
<1>10. PICK g \in [0 .. N -> Nat] : g = [p \in 0 .. N |-> After(g, p)]
  <2>1. PICK f \in [0 .. N -> Nat] : Climbs(f, N, stop, base, add, next)
    BY ONLY <1>1, <1>9, ClimbExists
  <2>2. ASSUME NEW p \in 0 .. N PROVE f[p] = After(f, p)
    <3>1. p \notin stop => next[p] \in 0 .. N
      BY <1>1, <1>7
    <3>2. p \notin stop => f[next[p]] \in Nat
      BY <3>1
    <3> QED BY <1>8, <2>1, <3>2 DEF Climbs
  <2>3. f = [p \in 0 .. N |-> f[p]]
    OBVIOUS
  <2> QED BY <2>2, <2>3
<1>11. Left = [p \in 0 .. N |-> After(Left, p)]
  <2>1. Left = CHOOSE f : f = [p \in 0 .. N |-> After(f, p)]
    BY <1>1 DEF Left, After
  <2> QED BY <1>10, <2>1
<1>12. \A p \in 0 .. N : Left[p] \in Nat
  <2> DEFINE S == {n \in 0 .. N : \A p \in n .. N : Left[p] \in Nat}
  <2>1. ASSUME NEW p \in 0 .. N, p \notin stop => Left[next[p]] \in Nat PROVE Left[p] \in Nat
    <3>1. Left[p] = IF p \in stop THEN base[p] ELSE add[p][Left[next[p]]]
      BY <1>8, <1>11, <2>1
    <3> QED BY <1>9, <2>1, <3>1
  <2>2. N \in S
    <3>1. N \in stop
      BY <1>1, <1>6
    <3> QED BY <1>1, <2>1, <3>1
  <2>3. ASSUME NEW n \in 1 .. N, n \in S PROVE n - 1 \in S
    <3>1. n - 1 \in 0 .. N /\ \A p \in n - 1 .. N : p = n - 1 \/ p \in n .. N
      BY <1>1
    <3>2. n - 1 \notin stop => next[n - 1] \in n .. N
      BY <1>1, <1>7, <3>1
    <3> QED BY <2>1, <2>3, <3>1, <3>2
  <2>4. 0 \in S
    <3> HIDE DEF S
    <3>1. \A n \in 0 .. N : n \in S
      BY <1>1, <2>2, <2>3, DownToZero
    <3> QED BY <1>1, <3>1
  <2> QED BY <1>1, <2>4
<1>13. \A p \in 0 .. N : Left[p] = After(Left, p)
  BY <1>11
<1> QED BY <1>1, <1>12, <1>13 DEF After

-----------------------------------------------------------------------------
(* The steps                                                               *)

LEMMA InitIndInv == Init => IndInv
<1> SUFFICES ASSUME Init PROVE IndInv
  OBVIOUS
<1> USE ScannerAssumption, RingAssumption
<1>1. PICK a \in Inputs : text = a.text /\ dict = a.dict /\ mode = a.mode /\ limit = a.limit
  BY DEF Init
<1>2. text \in Seq(STRING) /\ limit \in Int /\ mode.fbid \in BOOLEAN /\ size \in Nat
  BY <1>1, SizeNat
<1>3. ring \in [0 .. RING - 1 -> [f : BOOLEAN, chars : Seq(STRING)]]
  <2>1. FreeSlot \in [f : BOOLEAN, chars : Seq(STRING)]
    BY EmptySeq DEF FreeSlot
  <2> QED BY <2>1 DEF Init
<1>4. flg \in [0 .. (RING - 1) \div GROUP -> SUBSET (0 .. WIDTH - 1)]
  BY DEF Init
<1>5. w \in [Positions -> 0 .. RING - 1] /\ v \in [Positions -> 0 .. 14]
  BY DEF Init
<1>6. q \in Seq(Match) /\ q = <<>> /\ Len(q) = 0 /\ DOMAIN q = {}
  <2>1. q = <<>> /\ q \in Seq(Match) /\ Len(q) = 0
    BY EmptySeq DEF Init
  <2>2. DOMAIN q = 1 .. Len(q)
    BY <2>1, LenProperties
  <2> QED BY <2>1, <2>2
<1>7. TypeOK
  BY <1>2, <1>3, <1>4, <1>5, <1>6 DEF Init, TypeOK
<1>8. \A k \in Positions : k + w[k] <= size
  BY <1>2 DEF Init, Positions
<1>9. MatchesInText /\ Tallied /\ Behind
  BY <1>6 DEF Init, MatchesInText, Tallied, Behind
<1> QED BY <1>7, <1>8, <1>9 DEF IndInv

\* The scan of the text has stored nothing yet.
LEMMA StillScanning ==
  ASSUME IndInv, phase = "scan", phase' = "scan", TypeOK', UNCHANGED <<text, q>>,
         \A k \in Positions : k + w'[k] <= size
  PROVE  IndInv'
<1>1. q = <<>> /\ q' = <<>>
  BY DEF IndInv, Tallied
<1>2. DOMAIN q = {}
  <2>1. q \in Seq(Match) /\ Len(q) = 0
    BY <1>1, EmptySeq DEF IndInv, TypeOK
  <2> QED BY <2>1, LenProperties
<1>3. MatchesInText' /\ Tallied' /\ Behind'
  BY <1>1, <1>2 DEF MatchesInText, Tallied, Behind
<1>4. \A k \in Positions' : k + w'[k] <= size'
  BY DEF Positions, size
<1> QED BY <1>3, <1>4 DEF IndInv

\* A step of the scan that only moves on, over markup.
LEMMA Skipped ==
  ASSUME IndInv, phase = "scan", i' \in Nat, keep' \in KeepTags \union {None},
         UNCHANGED <<args, phase, ring, flg, w, v, r, alloc, q, app>>
  PROVE  IndInv'
<1>1. TypeOK'
  BY DEF IndInv, TypeOK, args, Match, Positions, size
<1>2. \A k \in Positions : k + w'[k] <= size
  BY DEF IndInv
<1> QED BY <1>1, <1>2, StillScanning DEF args

LEMMA SkipCommentStep == IndInv /\ SkipComment => IndInv'
<1> SUFFICES ASSUME IndInv, SkipComment PROVE IndInv'
  OBVIOUS
<1>1. /\ phase = "scan" /\ IsComment(i + 1) /\ i' = CommentEnd(i + 1) + 1
      /\ UNCHANGED <<args, phase, ring, flg, w, v, keep, r, alloc, q, app>>
  BY DEF SkipComment
<1>2. i + 1 \in Nat /\ text \in Seq(STRING)
  BY DEF IndInv, TypeOK
<1>3. i' \in Nat
  BY <1>1, <1>2, CommentEndForward DEF IsComment
<1> QED BY <1>1, <1>3, Skipped DEF IndInv, TypeOK

LEMMA CloseKeptStep == IndInv /\ CloseKept => IndInv'
<1> SUFFICES ASSUME IndInv, CloseKept PROVE IndInv'
  OBVIOUS
<1>1. /\ phase = "scan" /\ keep # None
      /\ i' = i + 1 + (Len(keep) + 2) + 1 /\ keep' = None
      /\ UNCHANGED <<args, phase, ring, flg, w, v, r, alloc, q, app>>
  BY DEF CloseKept, IsKeepEnd
<1>2. keep \in Seq(STRING) /\ i \in Nat
  BY <1>1, TagNames DEF IndInv, TypeOK
<1>3. Len(keep) \in Nat
  BY <1>2, LenProperties
<1>4. i' \in Nat
  BY <1>1, <1>2, <1>3
<1> QED BY <1>1, <1>4, Skipped

LEMMA SkipTagStep == IndInv /\ SkipTag => IndInv'
<1> SUFFICES ASSUME IndInv, SkipTag PROVE IndInv'
  OBVIOUS
<1>1. /\ phase = "scan" /\ i < size /\ i \in Nat /\ text \in Seq(STRING) /\ size \in Nat
      /\ UNCHANGED <<args, phase, ring, flg, w, v, r, alloc, q, app>>
  BY SizeNat DEF SkipTag, IndInv, TypeOK
<1>2. keep' \in KeepTags \union {None}
  BY DEF SkipTag, IndInv, TypeOK
<1>3. TagEnd[i + 1] \in Nat
  <2>1. i + 1 \in 0 .. size
    BY <1>1
  <2>2. \A p \in 0 .. size : TagEnd[p] \in Nat
    BY <1>1, TagEndForward
  <2> QED BY <2>1, <2>2
<1>4. Find(TagEnd[i + 1], {"<"}) \in Nat
  BY <1>1, <1>3, FindForward
<1>5. i' \in Nat
  BY <1>3, <1>4 DEF SkipTag
<1> QED BY <1>1, <1>2, <1>5, Skipped

\* A match ends at the character that is scanned.
LEMMA HitEnds ==
  ASSUME NEW n \in Nat, NEW k \in Nat, NEW j \in Int, k = n - ((n - j) % RING)
  PROVE  (n - k + 1) % RING \in 0 .. RING - 1 /\ k + ((n - k + 1) % RING) <= n + 1
<1> USE RingAssumption
<1>1. (n - j) % RING \in 0 .. RING - 1
  BY ModRange
<1>2. n - k + 1 \in Nat
  BY <1>1
<1> DEFINE d == n - k + 1
<1>3. d \in Nat
  BY <1>2
<1> HIDE DEF d
<1>4. PICK e \in 0 .. RING - 1 : e = d % RING /\ e <= d
  <2>1. d % RING \in 0 .. RING - 1
    BY ONLY <1>3, ModRange, RingAssumption
  <2>2. d % RING <= d
    BY ONLY <1>3, ModAtMost, RingAssumption
  <2> QED BY <2>1, <2>2
<1>5. k + e <= n + 1
  BY <1>4 DEF d
<1> QED BY <1>4, <1>5 DEF d

LEMMA ScanCharStep == IndInv /\ ScanChar => IndInv'
<1> SUFFICES ASSUME IndInv, ScanChar PROVE IndInv'
  OBVIOUS
<1> USE RingAssumption
<1> DEFINE here   == i % RING
           fresh  == [ring EXCEPT ![here] = [f |-> TRUE, chars |-> <<>>]]
           raised == [flg EXCEPT ![here \div GROUP] = @ \union {here % WIDTH}]
           Active == {j \in DOMAIN ring : fresh[j].f /\ Seen(j, raised)}
           grown  == [j \in Active |-> Append(fresh[j].chars, At(i))]
           found  == [j \in Active |-> Seekhash(grown[j])]
           Dropped == {j \in Active : (i - j) % CHUNK = CHUNK - 1 /\ found[j] = -1}
           Hits(k) == LET j == k % RING IN
                        /\ j \in Active /\ k = Start(j) /\ found[j] \in 0 .. 14
                        /\ mode.eng => AtWordEdges(k)
<1>1. /\ phase = "scan" /\ i < size /\ i' = i + 1
      /\ UNCHANGED <<args, phase, keep, r, alloc, q, app>>
      /\ ring' = [j \in DOMAIN ring |->
                    IF j \in Active THEN [f |-> j \notin Dropped, chars |-> grown[j]] ELSE fresh[j]]
      /\ flg' = [g \in DOMAIN flg |->
                   raised[g] \ {j % WIDTH : j \in {d \in Dropped : d \div GROUP = g}}]
      /\ w' = [k \in Positions |-> IF Hits(k) THEN (i - k + 1) % RING ELSE w[k]]
      /\ v' = [k \in Positions |-> IF Hits(k) THEN found[k % RING] ELSE v[k]]
  BY DEF ScanChar
<1>2. /\ i \in Nat /\ size \in Nat /\ text \in Seq(STRING) /\ At(i) \in STRING
  <2>1. i \in Nat /\ text \in Seq(STRING)
    BY DEF IndInv, TypeOK
  <2>2. size \in Nat
    BY <2>1, SizeNat
  <2>3. i + 1 \in 1 .. Len(text)
    <3>1. i < size
      BY <1>1
    <3> QED BY <2>1, <2>2, <3>1 DEF size
  <2>4. text[i + 1] \in STRING
    BY <2>1, <2>3, ElementOfSeq
  <2> QED BY <2>1, <2>2, <2>4 DEF At
<1>3. here \in 0 .. RING - 1 /\ here % WIDTH \in 0 .. WIDTH - 1
  <2>1. here \in 0 .. RING - 1
    BY <1>2, ModRange
  <2> HIDE DEF here
  <2>2. here \in Int
    BY <2>1
  <2> QED BY <2>1, <2>2, ModRange
<1>4. ring \in [0 .. RING - 1 -> [f : BOOLEAN, chars : Seq(STRING)]]
  BY DEF IndInv, TypeOK
<1>5. fresh \in [0 .. RING - 1 -> [f : BOOLEAN, chars : Seq(STRING)]]
  <2>1. [f |-> TRUE, chars |-> <<>>] \in [f : BOOLEAN, chars : Seq(STRING)]
    BY EmptySeq
  <2> QED BY <1>4, <2>1
<1>6. raised \in [0 .. (RING - 1) \div GROUP -> SUBSET (0 .. WIDTH - 1)]
  BY <1>3 DEF IndInv, TypeOK
<1>7. Active \subseteq 0 .. RING - 1
  BY <1>4
<1> HIDE DEF here, fresh, raised, Active
<1>8. \A j \in Active : grown[j] \in Seq(STRING)
  BY <1>2, <1>5, <1>7, AppendProperties
<1> HIDE DEF grown, found
<1>9. ring' \in [0 .. RING - 1 -> [f : BOOLEAN, chars : Seq(STRING)]]
  <2>1. \A j \in 0 .. RING - 1 :
          (IF j \in Active THEN [f |-> j \notin Dropped, chars |-> grown[j]] ELSE fresh[j])
            \in [f : BOOLEAN, chars : Seq(STRING)]
    BY <1>5, <1>8
  <2>2. DOMAIN ring = 0 .. RING - 1
    BY <1>4
  <2> HIDE DEF Dropped
  <2> QED BY <1>1, <2>1, <2>2
<1>10. flg' \in [0 .. (RING - 1) \div GROUP -> SUBSET (0 .. WIDTH - 1)]
  <2>1. DOMAIN flg = 0 .. (RING - 1) \div GROUP
    BY DEF IndInv, TypeOK
  <2>2. \A g \in DOMAIN flg :
          raised[g] \ {j % WIDTH : j \in {d \in Dropped : d \div GROUP = g}} \in SUBSET (0 .. WIDTH - 1)
    BY <1>6, <2>1
  <2> HIDE DEF Dropped
  <2> QED BY <1>1, <2>1, <2>2
<1>11. ASSUME NEW k \in Positions
       PROVE  /\ w'[k] \in 0 .. RING - 1 /\ k + w'[k] <= size
              /\ v'[k] \in 0 .. 14
  <2>1. CASE Hits(k)
    <3> DEFINE j == k % RING
    <3>1. k \in Nat /\ k = Start(j)
      BY <2>1 DEF Positions
    <3>2. j \in Int
      BY <3>1, ModRange
    <3>3. (i - k + 1) % RING \in 0 .. RING - 1 /\ k + ((i - k + 1) % RING) <= i + 1
      <4> HIDE DEF j
      <4> QED BY <1>2, <3>1, <3>2, HitEnds DEF Start
    <3>4. w'[k] = (i - k + 1) % RING /\ v'[k] \in 0 .. 14
      BY <1>1, <2>1
    <3>5. i + 1 <= size
      BY <1>1, <1>2
    <3>6. PICK n \in 0 .. RING - 1 : k + n <= i + 1 /\ w'[k] = n
      BY <3>3, <3>4
    <3>7. k + n <= size
      BY <1>2, <3>1, <3>5, <3>6
    <3> QED BY <3>4, <3>6, <3>7
  <2>2. CASE ~ Hits(k)
    <3>1. w'[k] = w[k] /\ v'[k] = v[k]
      BY <1>1, <2>2
    <3> QED BY <3>1 DEF IndInv, TypeOK
  <2> QED BY <2>1, <2>2
<1>12. w' \in [Positions -> 0 .. RING - 1] /\ v' \in [Positions -> 0 .. 14]
  <2>1. w' = [k \in Positions |-> w'[k]] /\ v' = [k \in Positions |-> v'[k]]
    BY <1>1
  <2> QED BY <1>11, <2>1
<1>13. TypeOK'
  BY <1>1, <1>2, <1>9, <1>10, <1>12, SMTT(40) DEF IndInv, TypeOK, args, Match, Positions, size
<1> QED BY <1>1, <1>11, <1>13, StillScanning DEF args

-----------------------------------------------------------------------------
(* The two loops                                                           *)

\* What the steps of both loops start from.
LEMMA LoopFacts ==
  ASSUME IndInv
  PROVE  /\ size \in Nat /\ i \in Nat /\ r \in Nat /\ alloc \in Nat /\ limit \in Int
         /\ \A p \in 0 .. size : Left[p] \in Nat
         /\ i < size => /\ i \in Positions /\ w[i] \in Nat /\ i + w[i] <= size
                        /\ Left[i] = IF w[i] = 0 THEN Left[i + 1]
                                     ELSE (IF Returned(i) THEN 1 ELSE 0) + Left[i + w[i]]
         /\ i = size => Left[i] = 0
         /\ q \in Seq(Match) /\ Len(q) \in Nat /\ DOMAIN q = 1 .. Len(q)
<1>1. /\ size \in Nat /\ i \in Nat /\ r \in Nat /\ alloc \in Nat /\ limit \in Int
      /\ q \in Seq(Match)
  BY SizeNat DEF IndInv, TypeOK
<1>2. \A p \in 0 .. size :
           /\ Left[p] \in Nat
           /\ Left[p] = IF p >= size THEN 0
                        ELSE IF w[p] = 0 THEN Left[p + 1]
                        ELSE (IF Returned(p) THEN 1 ELSE 0) + Left[p + w[p]]
  BY LeftStep DEF IndInv
<1>3. i < size => i \in Positions /\ i \in 0 .. size /\ ~ (i >= size)
  BY <1>1 DEF Positions
<1>4. i < size => w[i] \in Nat /\ i + w[i] <= size
  BY <1>3 DEF IndInv, TypeOK
<1>5. i = size => Left[i] = 0
  BY <1>1, <1>2
<1>6. Len(q) \in Nat /\ DOMAIN q = 1 .. Len(q)
  BY <1>1, LenProperties
<1> QED BY <1>1, <1>2, <1>3, <1>4, <1>5, <1>6

LEMMA EndScanStep == IndInv /\ EndScan => IndInv'
<1> SUFFICES ASSUME IndInv, EndScan PROVE IndInv'
  OBVIOUS
<1>1. /\ phase = "scan" /\ phase' = "count" /\ i' = 0 /\ r' = 0
      /\ UNCHANGED <<text, dict, mode, limit, ring, flg, w, v, keep, alloc, q, app>>
  BY DEF EndScan, args
<1>2. TypeOK'
  BY <1>1 DEF IndInv, TypeOK, Match, Positions, size
<1>3. size' = size /\ Positions' = Positions /\ Left' = Left
  BY <1>1 DEF size, Positions, Left, Returned
<1>4. \A k \in Positions' : k + w'[k] <= size'
  BY <1>1, <1>3 DEF IndInv
<1>5. MatchesInText' /\ Behind'
  BY <1>1, <1>3 DEF IndInv, MatchesInText, Behind
<1>6. Tallied'
  <2>1. size \in Nat /\ \A p \in 0 .. size : Left[p] \in Nat
    BY LoopFacts
  <2>2. 0 + Left[0] = Left[0]
    BY <2>1
  <2> QED BY <1>1, <1>3, <2>1, <2>2 DEF IndInv, Tallied
<1> QED BY <1>2, <1>4, <1>5, <1>6 DEF IndInv

LEMMA CountStep == IndInv /\ Count => IndInv'
<1> SUFFICES ASSUME IndInv, Count PROVE IndInv'
  OBVIOUS
<1>1. /\ phase = "count" /\ i < size
      /\ r' = IF w[i] # 0 /\ Returned(i) THEN r + 1 ELSE r
      /\ i' = IF w[i] # 0 THEN i + w[i] ELSE i + 1
      /\ UNCHANGED <<text, dict, mode, limit, phase, ring, flg, w, v, keep, alloc, q, app>>
  BY DEF Count, args
<1>2. /\ size \in Nat /\ i \in Nat /\ r \in Nat
      /\ w[i] \in Nat /\ i + w[i] <= size
      /\ Left[i] = IF w[i] = 0 THEN Left[i + 1]
                   ELSE (IF Returned(i) THEN 1 ELSE 0) + Left[i + w[i]]
      /\ \A p \in 0 .. size : Left[p] \in Nat
  BY <1>1, LoopFacts
<1>3. i' \in 0 .. size /\ r' \in Nat
  BY <1>1, <1>2
<1>4. size' = size /\ Positions' = Positions /\ Left' = Left
  BY <1>1 DEF size, Positions, Left, Returned
<1>5. TypeOK'
  BY <1>1, <1>3, <1>4 DEF IndInv, TypeOK, Match
<1>6. \A k \in Positions' : k + w'[k] <= size'
  BY <1>1, <1>4 DEF IndInv
<1>7. MatchesInText' /\ Behind'
  BY <1>1, <1>4 DEF IndInv, MatchesInText, Behind
<1>8. r' + Left[i'] = r + Left[i]
  <2>1. Left[i'] \in Nat
    BY <1>2, <1>3
  <2>2. CASE w[i] = 0
    BY <1>1, <2>2, <1>2
  <2>3. CASE w[i] # 0
    <3>1. i' = i + w[i]
      BY <1>1, <2>3
    <3>2. Left[i] = (IF Returned(i) THEN 1 ELSE 0) + Left[i']
      BY <1>2, <2>3, <3>1
    <3> QED BY <1>1, <1>2, <2>1, <2>3, <3>2
  <2> QED BY <2>2, <2>3
<1>9. Tallied'
  BY <1>1, <1>3, <1>4, <1>8 DEF IndInv, Tallied
<1> QED BY <1>5, <1>6, <1>7, <1>9 DEF IndInv

LEMMA AllocateStep == IndInv /\ Allocate => IndInv'
<1> SUFFICES ASSUME IndInv, Allocate PROVE IndInv'
  OBVIOUS
<1>1. /\ phase = "count" /\ i >= size
      /\ limit' = (IF limit <= 0 THEN Unlimited ELSE limit)
      /\ alloc' = (IF limit' < r THEN limit' ELSE r)
      /\ phase' = "store" /\ i' = 0
      /\ UNCHANGED <<text, dict, mode, ring, flg, w, v, keep, r, q, app>>
  BY DEF Allocate, RoomFor
<1>2. /\ size \in Nat /\ i \in Nat /\ r \in Nat /\ limit \in Int
      /\ i = size => Left[i] = 0
      /\ \A p \in 0 .. size : Left[p] \in Nat
  BY LoopFacts
<1>3. limit' \in Nat \ {0} /\ alloc' \in Nat
  BY <1>1, <1>2 DEF Unlimited
<1>4. size' = size /\ Positions' = Positions /\ Left' = Left
  BY <1>1 DEF size, Positions, Left, Returned
<1>5. TypeOK'
  BY <1>1, <1>3, <1>4 DEF IndInv, TypeOK, Match
<1>6. \A k \in Positions' : k + w'[k] <= size'
  BY <1>1, <1>4 DEF IndInv
<1>7. q = <<>> /\ i = size /\ r + Left[i] = Left[0]
  BY <1>1, <1>2 DEF IndInv, Tallied
<1>8. Len(q) = 0 /\ DOMAIN q = {}
  BY <1>7, LoopFacts
<1>9. MatchesInText'
  BY <1>1, <1>8 DEF MatchesInText
<1>10. Behind'
  BY <1>1, <1>4, <1>8, <1>2 DEF Behind, Positions
<1>11. Tallied'
  <2>1. Len(q') + Left'[i'] <= r'
    BY <1>1, <1>2, <1>4, <1>7, <1>8
  <2> QED BY <1>1, <1>2, <1>3, <1>4, <1>8, <2>1 DEF Tallied
<1> QED BY <1>5, <1>6, <1>9, <1>10, <1>11 DEF IndInv

\* Nothing is stored when a call fails, and nothing else has changed but the limit.
LEMMA FailureStep == IndInv /\ (Refuse \/ AllocateFails) => IndInv'
<1> SUFFICES ASSUME IndInv, Refuse \/ AllocateFails PROVE IndInv'
  OBVIOUS
<1>1. /\ phase \in {"scan", "count"} /\ phase' = "failed"
      /\ phase = "scan" => i = 0 /\ limit' = limit
      /\ limit' \in {limit, Unlimited}
      /\ UNCHANGED <<text, dict, mode, i, ring, flg, w, v, keep, r, alloc, q, app>>
  BY DEF Refuse, AllocateFails, RoomFor, args
<1>2. size' = size /\ Positions' = Positions /\ size \in Nat /\ limit' \in Int
  BY <1>1, LoopFacts DEF size, Positions, Unlimited
<1>3. TypeOK'
  BY <1>1, <1>2 DEF IndInv, TypeOK, Match
<1>4. \A k \in Positions' : k + w'[k] <= size'
  BY <1>1, <1>2 DEF IndInv
<1>5. MatchesInText' /\ Behind'
  BY <1>1, <1>2 DEF IndInv, MatchesInText, Behind
<1>6. i <= size /\ q = <<>>
  BY <1>1, <1>2 DEF IndInv, Tallied
<1>7. Tallied'
  BY <1>1, <1>2, <1>6 DEF Tallied
<1> QED BY <1>3, <1>4, <1>5, <1>7 DEF IndInv

LEMMA FinishStep == IndInv /\ Finish => IndInv'
<1> SUFFICES ASSUME IndInv, Finish PROVE IndInv'
  OBVIOUS
<1>1. /\ phase = "store" /\ i >= size /\ phase' = "done"
      /\ UNCHANGED <<text, dict, mode, limit, i, ring, flg, w, v, keep, r, alloc, q, app>>
  BY DEF Finish, args
<1>2. size' = size /\ Positions' = Positions /\ Left' = Left
  BY <1>1 DEF size, Positions, Left, Returned
<1>3. TypeOK'
  BY <1>1, <1>2 DEF IndInv, TypeOK, Match
<1>4. \A k \in Positions' : k + w'[k] <= size'
  BY <1>1, <1>2 DEF IndInv
<1>5. MatchesInText'
  BY <1>1, <1>2 DEF IndInv, MatchesInText
<1>6. i = size
  BY <1>1, LoopFacts DEF IndInv, Tallied
<1>7. Behind'
  BY <1>1, <1>2, <1>6 DEF IndInv, Behind
<1>8. Tallied'
  BY <1>1, <1>2 DEF IndInv, Tallied
<1> QED BY <1>3, <1>4, <1>5, <1>7, <1>8 DEF IndInv

\* A stored match lies behind the others and covers its word.
LEMMA StoreMatch ==
  ASSUME IndInv, phase = "store", i < size, w[i] # 0,
         NEW m, m = [pos |-> i, len |-> w[i], key |-> v[i]], q' = Append(q, m),
         UNCHANGED <<text, w>>
  PROVE  /\ q' \in Seq(Match) /\ Len(q') = Len(q) + 1 /\ DOMAIN q' = 1 .. Len(q) + 1
         /\ \A n \in 1 .. Len(q) : q'[n] = q[n]
         /\ q'[Len(q) + 1] = m
         /\ MatchesInText'
         /\ \A n \in DOMAIN q' : q'[n].pos + q'[n].len <= i + w[i]
<1>1. /\ size \in Nat /\ i \in Nat /\ i \in Positions /\ w[i] \in Nat /\ i + w[i] <= size
      /\ q \in Seq(Match) /\ Len(q) \in Nat /\ DOMAIN q = 1 .. Len(q)
  BY LoopFacts
<1>2. m \in Match
  <2>1. w[i] \in 1 .. RING - 1 /\ v[i] \in 0 .. 14
    BY <1>1 DEF IndInv, TypeOK
  <2> QED BY <1>1, <2>1 DEF Match
<1>3. /\ q' \in Seq(Match) /\ Len(q') = Len(q) + 1
      /\ \A n \in 1 .. Len(q) : q'[n] = q[n]
      /\ q'[Len(q) + 1] = m
  BY <1>1, <1>2, AppendProperties
<1>4. DOMAIN q' = 1 .. Len(q) + 1
  BY <1>3, LenProperties
<1>5. \A n \in 1 .. Len(q) : q[n].pos + q[n].len <= i /\ q[n].pos + q[n].len \in Nat
  <2>1. \A n \in 1 .. Len(q) : q[n].pos + q[n].len <= i
    BY <1>1 DEF IndInv, Behind
  <2>2. ASSUME NEW n \in 1 .. Len(q) PROVE q[n].pos + q[n].len \in Nat
    <3>1. q[n] \in Match
      BY <1>1, ElementOfSeq
    <3> QED BY <1>1, <3>1 DEF Match, Positions
  <2> QED BY <2>1, <2>2
<1>6. m.pos = i /\ m.len = w[i] /\ m.pos + m.len = i + w[i]
  OBVIOUS
<1>7. \A n \in 1 .. Len(q) + 1 : n \in 1 .. Len(q) \/ n = Len(q) + 1
  BY <1>1
<1>8. \A n \in DOMAIN q' : q'[n].pos + q'[n].len <= i + w[i]
  <2> SUFFICES ASSUME NEW n \in 1 .. Len(q) + 1 PROVE q'[n].pos + q'[n].len <= i + w[i]
    BY <1>4
  <2>1. CASE n = Len(q) + 1
    BY <1>1, <1>3, <1>6, <2>1
  <2>2. CASE n \in 1 .. Len(q)
    BY <1>1, <1>3, <1>5, <2>2
  <2> QED BY <1>7, <2>1, <2>2
<1>9. \A a, b \in DOMAIN q' : a < b => q'[a].pos + q'[a].len <= q'[b].pos
  <2> SUFFICES ASSUME NEW a \in 1 .. Len(q) + 1, NEW b \in 1 .. Len(q) + 1, a < b
               PROVE  q'[a].pos + q'[a].len <= q'[b].pos
    BY <1>4
  <2>1. a \in 1 .. Len(q)
    BY <1>1
  <2>2. CASE b = Len(q) + 1
    BY <1>3, <1>5, <1>6, <2>1, <2>2
  <2>3. CASE b \in 1 .. Len(q)
    <3>1. q[a].pos + q[a].len <= q[b].pos
      BY <1>1, <2>1, <2>3 DEF IndInv, MatchesInText
    <3> QED BY <1>3, <2>1, <2>3, <3>1
  <2> QED BY <1>7, <2>2, <2>3
<1>10. MatchesInText'
  <2>1. \A n \in DOMAIN q' : q'[n].pos + q'[n].len <= size'
    <3> SUFFICES ASSUME NEW n \in 1 .. Len(q) + 1 PROVE q'[n].pos + q'[n].len <= size
      BY <1>4 DEF size
    <3>1. CASE n = Len(q) + 1
      BY <1>1, <1>3, <1>6, <3>1
    <3>2. CASE n \in 1 .. Len(q)
      BY <1>1, <1>3, <3>2 DEF IndInv, MatchesInText
    <3> QED BY <1>7, <3>1, <3>2
  <2> QED BY <1>9, <2>1 DEF MatchesInText
<1> QED BY <1>3, <1>4, <1>8, <1>10

LEMMA StoreStep == IndInv /\ Store => IndInv'
<1> SUFFICES ASSUME IndInv, Store PROVE IndInv'
  OBVIOUS
<1>1. /\ phase = "store" /\ i < size
      /\ UNCHANGED <<text, dict, mode, limit, phase, ring, flg, w, v, keep, r, alloc>>
  BY DEF Store, args
<1>2. /\ size \in Nat /\ i \in Nat /\ i \in Positions /\ w[i] \in Nat /\ i + w[i] <= size
      /\ r \in Nat /\ limit \in Int
      /\ Left[i] = IF w[i] = 0 THEN Left[i + 1]
                   ELSE (IF Returned(i) THEN 1 ELSE 0) + Left[i + w[i]]
      /\ \A p \in 0 .. size : Left[p] \in Nat
      /\ q \in Seq(Match) /\ Len(q) \in Nat /\ DOMAIN q = 1 .. Len(q)
  BY <1>1, LoopFacts
<1>3. size' = size /\ Positions' = Positions /\ Left' = Left
  BY <1>1 DEF size, Positions, Left, Returned
<1>4. \A k \in Positions' : k + w'[k] <= size'
  BY <1>1, <1>3 DEF IndInv
<1>5. /\ Len(q) + Left[i] <= r /\ limit > 0 /\ Len(q) <= limit
      /\ alloc = (IF limit < r THEN limit ELSE r)
  BY <1>1 DEF IndInv, Tallied
<1>6. /\ \A n \in DOMAIN q : q[n].pos + q[n].len <= i
      /\ mode.fbid /\ Len(q) < limit =>
         \A k \in Positions : k < i /\ w[k] # 0 =>
           \E n \in DOMAIN q : q[n].pos <= k /\ k < q[n].pos + q[n].len
  BY <1>1 DEF IndInv, Behind
<1>7. ASSUME q' = q, i' \in i + 1 .. size, Len(q) + Left[i'] <= r,
             mode.fbid /\ Len(q) < limit => w[i] = 0 /\ i' = i + 1
      PROVE  IndInv'
  <2>1. i' \in Nat /\ i' <= size
    BY <1>2, <1>7
  <2>2. TypeOK'
    BY <1>1, <1>3, <1>7, <2>1 DEF IndInv, TypeOK, Match
  <2>3. MatchesInText'
    BY <1>3, <1>7 DEF IndInv, MatchesInText
  <2>4. Tallied'
    BY <1>1, <1>3, <1>5, <1>7, <2>1 DEF Tallied
  <2>5. \A n \in DOMAIN q : q[n].pos + q[n].len <= i'
    <3> SUFFICES ASSUME NEW n \in DOMAIN q PROVE q[n].pos + q[n].len <= i'
      OBVIOUS
    <3>1. q[n] \in Match
      BY <1>2, ElementOfSeq
    <3>2. q[n].pos + q[n].len \in Int
      BY <1>2, <3>1 DEF Match, Positions
    <3> QED BY <1>2, <1>6, <1>7, <3>2
  <2>6. mode.fbid /\ Len(q) < limit =>
          \A k \in Positions : k < i' /\ w[k] # 0 =>
            \E n \in DOMAIN q : q[n].pos <= k /\ k < q[n].pos + q[n].len
    <3> SUFFICES ASSUME mode.fbid /\ Len(q) < limit, NEW k \in Positions, k < i' /\ w[k] # 0
                 PROVE  \E n \in DOMAIN q : q[n].pos <= k /\ k < q[n].pos + q[n].len
      OBVIOUS
    <3>1. k < i
      BY <1>2, <1>7 DEF Positions
    <3> QED BY <1>6, <3>1
  <2>7. Behind'
    BY <1>1, <1>3, <1>7, <2>5, <2>6 DEF Behind
  <2> QED BY <1>4, <2>2, <2>3, <2>4, <2>7 DEF IndInv
<1>8. CASE w[i] = 0
  <2>1. i' = i + 1 /\ q' = q
    BY <1>8 DEF Store
  <2>2. i' \in i + 1 .. size /\ Len(q) + Left[i'] <= r
    BY <1>1, <1>2, <1>5, <1>8, <2>1
  <2> QED BY <1>7, <1>8, <2>1, <2>2
<1> DEFINE m == [pos |-> i, len |-> w[i], key |-> v[i]]
<1>9. ASSUME w[i] # 0
      PROVE  /\ i' = i + w[i] /\ i' \in i + 1 .. size
             /\ q' = IF Returned(i) /\ Len(q) < limit THEN Append(q, m) ELSE q
             /\ Left[i'] \in Nat /\ Left[i] = (IF Returned(i) THEN 1 ELSE 0) + Left[i']
  <2>1. /\ i' = i + w[i] - 1 + 1
        /\ q' = IF Returned(i) /\ Len(q) < limit THEN Append(q, m) ELSE q
    BY <1>9 DEF Store
  <2>2. i' = i + w[i] /\ i' \in i + 1 .. size
    BY <1>2, <1>9, <2>1
  <2> QED BY <1>2, <1>9, <2>1, <2>2
<1>10. CASE w[i] # 0 /\ ~ (Returned(i) /\ Len(q) < limit)
  <2>1. q' = q /\ i' \in i + 1 .. size
    BY <1>9, <1>10
  <2>2. Len(q) + Left[i'] <= r
    BY <1>2, <1>5, <1>9, <1>10
  <2>3. ~ (mode.fbid /\ Len(q) < limit)
    BY <1>10 DEF Returned
  <2> QED BY <1>7, <2>1, <2>2, <2>3
<1>11. CASE w[i] # 0 /\ Returned(i) /\ Len(q) < limit
  <2>1. q' = Append(q, m) /\ i' = i + w[i] /\ i' \in i + 1 .. size
    BY <1>9, <1>11
  <2>2. Left[i'] \in Nat /\ Left[i] = 1 + Left[i']
    BY <1>9, <1>11
  <2>3. m = [pos |-> i, len |-> w[i], key |-> v[i]]
    OBVIOUS
  <2> HIDE DEF m
  <2>4. /\ q' \in Seq(Match) /\ Len(q') = Len(q) + 1 /\ DOMAIN q' = 1 .. Len(q) + 1
        /\ \A n \in 1 .. Len(q) : q'[n] = q[n]
        /\ q'[Len(q) + 1] = m
        /\ MatchesInText'
        /\ \A n \in DOMAIN q' : q'[n].pos + q'[n].len <= i'
    BY <1>1, <1>11, <2>1, <2>3, StoreMatch
  <2>5. i' \in Nat /\ i' <= size
    BY <1>2, <2>1
  <2>6. TypeOK'
    BY <1>1, <1>3, <2>4, <2>5, SMTT(40) DEF IndInv, TypeOK, Match
  <2>7. Tallied'
    <3>1. Len(q') + Left[i'] <= r /\ Len(q') <= limit
      <4>1. Len(q') = Len(q) + 1 /\ Left[i] = 1 + Left[i']
        BY <2>2, <2>4
      <4>2. Len(q) \in Nat /\ Left[i'] \in Nat /\ r \in Nat /\ limit \in Int
        BY <1>2, <2>2
      <4>3. Len(q) + Left[i] <= r /\ Len(q) < limit
        BY <1>5, <1>11
      <4> QED BY ONLY <4>1, <4>2, <4>3
    <3> QED BY <1>1, <1>3, <1>5, <2>5, <3>1 DEF Tallied
  <2>8. mode.fbid /\ Len(q') < limit =>
          \A k \in Positions : k < i' /\ w[k] # 0 =>
            \E n \in DOMAIN q' : q'[n].pos <= k /\ k < q'[n].pos + q'[n].len
    <3> SUFFICES ASSUME mode.fbid, NEW k \in Positions, k < i', w[k] # 0
                 PROVE  \E n \in DOMAIN q' : q'[n].pos <= k /\ k < q'[n].pos + q'[n].len
      OBVIOUS
    <3>1. CASE k < i
      <4>1. PICK n \in 1 .. Len(q) : q[n].pos <= k /\ k < q[n].pos + q[n].len
        BY <1>2, <1>6, <1>11, <3>1
      <4>2. n \in DOMAIN q' /\ q'[n] = q[n]
        BY <1>2, <2>4
      <4> QED BY <4>1, <4>2
    <3>2. CASE i <= k
      <4>1. m.pos <= k /\ k < m.pos + m.len
        BY <2>1, <2>3, <3>2
      <4>2. Len(q) + 1 \in DOMAIN q'
        BY <1>2, <2>4
      <4> QED BY <2>4, <4>1, <4>2
    <3> QED BY <1>2, <3>1, <3>2 DEF Positions
  <2>9. Behind'
    BY <1>1, <1>3, <2>4, <2>8 DEF Behind
  <2> QED BY <1>4, <2>4, <2>6, <2>7, <2>9 DEF IndInv
<1> QED BY <1>8, <1>10, <1>11

-----------------------------------------------------------------------------
LEMMA StutterStep == IndInv /\ UNCHANGED vars => IndInv'
BY DEF vars, args, IndInv, TypeOK, MatchesInText, Tallied, Behind, Match, Positions, size,
       Left, Returned

LEMMA NextIndInv == IndInv /\ [Next]_vars => IndInv'
<1> SUFFICES ASSUME IndInv, [Next]_vars PROVE IndInv'
  OBVIOUS
<1>1. CASE ScanChar \/ SkipComment \/ CloseKept \/ SkipTag
  BY <1>1, ScanCharStep, SkipCommentStep, CloseKeptStep, SkipTagStep
<1>2. CASE EndScan \/ Count \/ Allocate \/ Store \/ Finish
  BY <1>2, EndScanStep, CountStep, AllocateStep, StoreStep, FinishStep
<1>3. CASE Refuse \/ AllocateFails
  BY <1>3, FailureStep
<1>4. CASE UNCHANGED vars
  BY <1>4, StutterStep
<1> QED BY <1>1, <1>2, <1>3, <1>4 DEF Next

\* What the scan finds lies in the text, the first loop counts what the second
\* one stores, and the second one passes over nothing: the inductive invariant of
\* Scanner.
THEOREM Invariance == Spec => []IndInv
<1> QED BY InitIndInv, NextIndInv, PTL DEF Spec

\* The matches iword_map returns lie in the text, in its order, and do not overlap.
THEOREM ResultInText == Spec => []MatchesInText
<1>1. IndInv => MatchesInText
  BY DEF IndInv
<1> QED BY <1>1, Invariance, PTL

\* What iword_map stores fits the buffer it has allocated for it, and iword_limit.
THEOREM ResultFits == Spec => []FitsBuffer
<1>1. IndInv => FitsBuffer
  <2> SUFFICES ASSUME IndInv PROVE FitsBuffer
    OBVIOUS
  <2>1. /\ size \in Nat /\ i \in Nat /\ r \in Nat /\ alloc \in Nat /\ limit \in Int
        /\ \A p \in 0 .. size : Left[p] \in Nat
        /\ Len(q) \in Nat
    BY LoopFacts
  <2>2. CASE phase \in {"scan", "count", "failed"}
    <3>1. q = <<>> /\ Len(q) = 0
      BY <2>2, EmptySeq DEF IndInv, Tallied
    <3> QED BY <2>1, <3>1 DEF FitsBuffer
  <2>3. CASE phase \in {"store", "done"}
    <3>1. /\ Len(q) + Left[i] <= r /\ Len(q) <= limit
          /\ alloc = (IF limit < r THEN limit ELSE r) /\ i \in 0 .. size
      BY <2>1, <2>3 DEF IndInv, Tallied
    <3>2. Left[i] \in Nat
      BY <2>1, <3>1
    <3> QED BY <2>1, <3>1, <3>2 DEF FitsBuffer
  <2> QED BY <2>2, <2>3 DEF IndInv, TypeOK
<1> QED BY <1>1, Invariance, PTL

\* With MODE_FORBID every word found is in a match that iword_map returns, as long as
\* there is room under the limit.
THEOREM ResultComplete == Spec => []NothingUncovered
<1>1. IndInv => NothingUncovered
  <2> SUFFICES ASSUME IndInv, phase = "done", mode.fbid, Len(q) < limit,
                      NEW k \in Positions, w[k] # 0
               PROVE  \E n \in DOMAIN q : q[n].pos <= k /\ k < q[n].pos + q[n].len
    BY DEF NothingUncovered
  <2>1. k < i
    <3>1. i = size /\ size \in Nat
      BY LoopFacts DEF IndInv, Behind
    <3> QED BY <3>1 DEF Positions
  <2> QED BY <2>1 DEF IndInv, Behind
<1> QED BY <1>1, Invariance, PTL

-----------------------------------------------------------------------------
(* FindsLongestWords: the ring, its flags and what is recorded             *)

\* What the sizes of ring, window and chunk have to do with each other.
LEMMA Sizes ==
  /\ CHUNK \in Nat \ {0} /\ WIDTH \in Nat \ {0} /\ GROUP \in Nat \ {0} /\ RING \in Nat \ {0}
  /\ WIDTH <= RING /\ RING % CHUNK = 0
<1>1. /\ CHUNK \in Nat \ {0} /\ WIDTH \in Nat \ {0} /\ GROUP \in Nat \ {0}
      /\ RING \in Nat \ {0}
  BY RingAssumption, ChunkAssumption
<1>2. WIDTH <= RING
  <2>1. ASSUME NEW m \in Nat \ {0}, NEW n \in Nat \ {0}, m % n = 0 PROVE n <= m
    <3>1. m < n => m % n = m
      OBVIOUS
    <3> QED BY <2>1, <3>1
  <2> QED BY <1>1, <2>1, AlignAssumption
<1>3. RING % CHUNK = 0
  <2>1. RING = WIDTH * (RING \div WIDTH) + 0 /\ WIDTH = CHUNK * (WIDTH \div CHUNK) + 0
    BY <1>1, DivMod, AlignAssumption
  <2> DEFINE x == RING \div WIDTH
             y == WIDTH \div CHUNK
             z == x * y
  <2>2. x \in Int /\ y \in Int /\ z \in Int
    BY <1>1
  <2>3. RING = WIDTH * x /\ WIDTH = CHUNK * y
    BY <1>1, <2>1
  <2> HIDE DEF x, y
  <2>4. RING = CHUNK * z
    <3>1. ASSUME NEW a \in Int, NEW b \in Int, NEW c \in Int PROVE (c * b) * a = c * (a * b)
      OBVIOUS
    <3>2. CHUNK \in Int
      BY <1>1
    <3>3. (CHUNK * y) * x = CHUNK * (x * y)
      BY <2>2, <3>1, <3>2
    <3> QED BY <2>3, <3>3
  <2> HIDE DEF z
  <2>5. 0 \in 0 .. CHUNK - 1
    BY <1>1
  <2>6. (CHUNK * z + 0) % CHUNK = 0
    BY ONLY <1>1, <2>2, <2>5, ModUnique
  <2>7. CHUNK * z + 0 = RING
    BY <1>1, <2>4
  <2> QED BY <2>6, <2>7
<1> QED BY <1>1, <1>2, <1>3

\* The window and i.
Starts == {k \in 0 .. i : i - k < WIDTH}

\* Two starts have slots of their own, and bits of their own.
LEMMA OwnSlot ==
  ASSUME i \in Nat, NEW k \in Starts, NEW m \in Starts,
         k % RING = m % RING \/ k % WIDTH = m % WIDTH
  PROVE  k = m
<1>1. k \in Int /\ m \in Int /\ k - m < WIDTH /\ m - k < WIDTH
  BY Sizes DEF Starts
<1>2. k - m < RING /\ m - k < RING
  BY <1>1, Sizes
<1>3. CASE k % RING = m % RING
  BY <1>1, <1>2, <1>3, Sizes, ModNear
<1>4. CASE k % WIDTH = m % WIDTH
  BY <1>1, <1>4, Sizes, ModNear
<1> QED BY <1>3, <1>4

\* The slot of a start tells the start, the bit, and how much it has read.
LEMMA SlotOf ==
  ASSUME i \in Nat, NEW k \in Starts
  PROVE  /\ k \in Nat /\ k <= i /\ k % RING \in 0 .. RING - 1
         /\ Start(k % RING) = k
         /\ (k % RING) % WIDTH = k % WIDTH
         /\ (i - (k % RING)) % CHUNK = (i - k) % CHUNK
<1>1. k \in Nat /\ k \in Int /\ i \in Int /\ k <= i /\ i - k < WIDTH
  BY DEF Starts
<1>2. k % RING \in 0 .. RING - 1
  BY <1>1, Sizes, ModRange
<1>3. (k % RING) % WIDTH = k % WIDTH
  BY <1>1, Sizes, AlignAssumption, ModOfMod
<1>4. (i - (k % RING)) % CHUNK = (i - k) % CHUNK
  BY ZenonT(30), <1>1, Sizes, ModOfDifference
<1>5. (i - (k % RING)) % RING = i - k
  <2>1. RING % RING = 0
    BY Sizes
  <2>2. (i - (k % RING)) % RING = (i - k) % RING
    BY <1>1, <2>1, Sizes, ModOfDifference
  <2>3. (i - k) % RING = i - k
    <3> DEFINE d == i - k
    <3>1. d \in 0 .. RING - 1
      BY <1>1, Sizes
    <3> HIDE DEF d
    <3>2. d % RING = d
      BY <3>1, Sizes
    <3> QED BY <3>2 DEF d
  <2> QED BY <2>2, <2>3
<1>6. Start(k % RING) = k
  BY <1>1, <1>5 DEF Start
<1> QED BY <1>1, <1>2, <1>3, <1>4, <1>6

-----------------------------------------------------------------------------
(* What ScanChar does, told by the starts instead of the slots.            *)

Reads(k) == SubSeq(text, k + 1, i + 1)

Lives(k) == k = i \/ ring[k % RING].f

Falls(k) == (i - k) % CHUNK = CHUNK - 1 /\ Seekhash(Reads(k)) = -1

Hit(k) ==
  /\ k \in Starts /\ Lives(k) /\ Seekhash(Reads(k)) \in 0 .. 14
  /\ mode.eng => AtWordEdges(k)

LEMMA DivRange ==
  ASSUME NEW n \in Nat \ {0}, NEW m \in Nat, NEW j \in 0 .. m
  PROVE  j \div n \in 0 .. m \div n
OBVIOUS

\* A larger number has no smaller quotient.
LEMMA DivRises ==
  ASSUME NEW n \in Nat \ {0}, NEW a \in Int, NEW b \in Int, a <= b
  PROVE  a \div n <= b \div n
<1>1. a \div n \in Int /\ b \div n \in Int
  OBVIOUS
<1>2. (a \div n) * n <= a
  BY <1>1, MultipleWithin
<1>3. (a \div n) * n \in Int
  BY <1>1
<1>4. (a \div n) * n <= b
  BY <1>2, <1>3
<1> QED BY <1>1, <1>4, MultipleWithin

\* A stretch of the text,
LEMMA Stretch ==
  ASSUME text \in Seq(STRING), NEW k \in Nat, NEW e \in k .. size
  PROVE  /\ SubSeq(text, k + 1, e) \in Seq(STRING) /\ Len(SubSeq(text, k + 1, e)) = e - k
         /\ \A n \in 1 .. e - k : SubSeq(text, k + 1, e)[n] = text[k + n]
<1>1. size \in Nat /\ size = Len(text) /\ e \in Nat
  BY SizeNat DEF size
<1>2. \A n \in k + 1 .. e : text[n] \in STRING
  BY <1>1, ElementOfSeq
<1> DEFINE s == SubSeq(text, k + 1, e)
<1>3. /\ s \in Seq(STRING) /\ Len(s) = (IF k + 1 <= e THEN e - (k + 1) + 1 ELSE 0)
      /\ \A n \in 1 .. e - (k + 1) + 1 : s[n] = text[k + 1 + n - 1]
  <2>1. k + 1 \in Int /\ e \in Int
    BY <1>1
  <2> QED BY ONLY <1>2, <2>1, SubSeqProperties
<1> HIDE DEF s
<1>4. Len(s) = e - k
  BY <1>1, <1>3
<1>5. \A n \in 1 .. e - k : s[n] = text[k + n]
  <2> SUFFICES ASSUME NEW n \in 1 .. e - k PROVE s[n] = text[k + n]
    OBVIOUS
  <2>1. n \in 1 .. e - (k + 1) + 1 /\ k + 1 + n - 1 = k + n
    BY <1>1
  <2>2. s[n] = text[k + 1 + n - 1]
    BY <1>3, <2>1
  <2> QED BY <2>1, <2>2
<1> QED BY <1>3, <1>4, <1>5 DEF s

\* ... and the next character.
LEMMA ReadOn ==
  ASSUME text \in Seq(STRING), i \in Nat, i < size, NEW k \in 0 .. i
  PROVE  Append(SubSeq(text, k + 1, i), At(i)) = Reads(k)
<1>1. size \in Nat /\ size = Len(text)
  BY SizeNat DEF size
<1>2. k + 1 \in 1 .. Len(text) /\ i + 1 \in k + 1 .. Len(text) /\ i + 1 - 1 = i
  BY <1>1
<1>3. SubSeq(text, k + 1, i + 1) = SubSeq(text, k + 1, i) \o <<text[i + 1]>>
  <2> DEFINE m == k + 1
             n == i + 1
  <2>0. text \in Seq(STRING) /\ m \in 1 .. Len(text) /\ n \in m .. Len(text)
    BY <1>2
  <2> HIDE DEF m, n
  <2>1. SubSeq(text, m, n) = SubSeq(text, m, n - 1) \o <<text[n]>>
    BY ONLY <2>0, SubSeqRecursiveSecond
  <2> USE DEF m, n
  <2> QED BY <1>2, <2>1
<1>4. SubSeq(text, k + 1, i) \in Seq(STRING)
  BY <1>1, Stretch
<1>5. text[i + 1] \in STRING
  BY <1>1, <1>2, ElementOfSeq
<1>6. Append(SubSeq(text, k + 1, i), text[i + 1]) = SubSeq(text, k + 1, i) \o <<text[i + 1]>>
  BY ONLY <1>4, <1>5, AppendIsConcat
<1> QED BY <1>3, <1>6 DEF Reads, At

\* What is alive after a character and what is recorded.
LEMMA ScanCharEffect ==
  ASSUME IndInv, PlainFollowed, PlainText, ScanChar
  PROVE  /\ i < size /\ i' = i + 1 /\ phase = "scan" /\ phase' = "scan"
         /\ UNCHANGED <<text, dict, mode>>
         /\ \A j \in 0 .. RING - 1 :
              ring'[j].f => \E k \in Starts : j = k % RING /\ Lives(k) /\ ~ Falls(k)
         /\ \A k \in Starts :
              /\ Lives(k) /\ ~ Falls(k) => ring'[k % RING].f
              /\ ring'[k % RING].f =>
                   /\ ring'[k % RING].chars = Reads(k)
                   /\ k % WIDTH \in flg'[(k % RING) \div GROUP]
         /\ \A k \in Positions :
              /\ w'[k] = IF Hit(k) THEN (i - k + 1) % RING ELSE w[k]
              /\ v'[k] = IF Hit(k) THEN Seekhash(Reads(k)) ELSE v[k]
<1> DEFINE here   == i % RING
           fresh  == [ring EXCEPT ![here] = [f |-> TRUE, chars |-> <<>>]]
           raised == [flg EXCEPT ![here \div GROUP] = @ \union {here % WIDTH}]
           Active == {j \in DOMAIN ring : fresh[j].f /\ Seen(j, raised)}
           grown  == [j \in Active |-> Append(fresh[j].chars, At(i))]
           found  == [j \in Active |-> Seekhash(grown[j])]
           Dropped == {j \in Active : (i - j) % CHUNK = CHUNK - 1 /\ found[j] = -1}
           Hits(k) == LET j == k % RING IN
                        /\ j \in Active /\ k = Start(j) /\ found[j] \in 0 .. 14
                        /\ mode.eng => AtWordEdges(k)
<1>1. /\ phase = "scan" /\ i < size /\ i' = i + 1
      /\ UNCHANGED <<args, phase, keep, r, alloc, q, app>>
      /\ ring' = [j \in DOMAIN ring |->
                    IF j \in Active THEN [f |-> j \notin Dropped, chars |-> grown[j]] ELSE fresh[j]]
      /\ flg' = [g \in DOMAIN flg |->
                   raised[g] \ {j % WIDTH : j \in {d \in Dropped : d \div GROUP = g}}]
      /\ w' = [k \in Positions |-> IF Hits(k) THEN (i - k + 1) % RING ELSE w[k]]
      /\ v' = [k \in Positions |-> IF Hits(k) THEN found[k % RING] ELSE v[k]]
  BY DEF ScanChar
<1>2. /\ i \in Nat /\ size \in Nat /\ text \in Seq(STRING)
      /\ DOMAIN ring = 0 .. RING - 1 /\ DOMAIN flg = 0 .. (RING - 1) \div GROUP
      /\ ring \in [0 .. RING - 1 -> [f : BOOLEAN, chars : Seq(STRING)]]
  BY SizeNat DEF IndInv, TypeOK
<1>3. i \in Starts /\ \A k \in Starts : k # i => k \in Window
  BY <1>2, Sizes DEF Starts, Window
<1>4. here \in DOMAIN ring /\ here % WIDTH = i % WIDTH
  BY <1>2, <1>3, SlotOf
<1>5. ASSUME NEW j \in DOMAIN ring
      PROVE  /\ j \div GROUP \in DOMAIN flg
             /\ fresh[j] = IF j = here THEN [f |-> TRUE, chars |-> <<>>] ELSE ring[j]
             /\ raised[j \div GROUP] = flg[j \div GROUP] \union
                  (IF j \div GROUP = here \div GROUP THEN {here % WIDTH} ELSE {})
  <2>1. j \div GROUP \in DOMAIN flg
    <3>1. RING - 1 \in Nat /\ j \in 0 .. RING - 1
      BY <1>2, Sizes
    <3> QED BY <1>2, <3>1, Sizes, DivRange
  <2> QED BY <1>2, <1>4, <2>1
<1> HIDE DEF fresh, raised
\* The slot of a start holds what was read from there.
<1>6. ASSUME NEW k \in Starts
      PROVE  /\ k % RING \in DOMAIN ring
             /\ fresh[k % RING].f <=> Lives(k)
             /\ Lives(k) => /\ fresh[k % RING].chars = SubSeq(text, k + 1, i)
                            /\ k % WIDTH \in raised[(k % RING) \div GROUP]
  <2>1. k % RING \in DOMAIN ring
    BY <1>2, SlotOf
  <2>2. CASE k = i
    <3>1. fresh[k % RING] = [f |-> TRUE, chars |-> <<>>]
      BY <1>4, <1>5, <2>2
    <3>2. SubSeq(text, k + 1, i) = <<>>
      BY <1>2, <2>2, SubSeqEmpty
    <3>3. k % WIDTH \in raised[(k % RING) \div GROUP]
      BY <1>4, <1>5, <2>2
    <3>4. Lives(k)
      BY <2>2 DEF Lives
    <3>5. fresh[k % RING].f /\ fresh[k % RING].chars = <<>>
      BY <3>1
    <3> QED BY <2>1, <3>2, <3>3, <3>4, <3>5
  <2>3. CASE k # i
    <3>1. k \in Window
      BY <1>3, <2>3
    <3>2. k % RING # here
      BY <1>2, <1>3, <2>3, OwnSlot
    <3>3. fresh[k % RING] = ring[k % RING]
      BY <1>5, <2>1, <3>2
    <3>4. ring[k % RING].f => /\ ring[k % RING].chars = SubSeq(text, k + 1, i)
                              /\ k % WIDTH \in flg[(k % RING) \div GROUP]
      BY <1>1, <3>1 DEF PlainFollowed
    <3>5. flg[(k % RING) \div GROUP] \subseteq raised[(k % RING) \div GROUP]
      BY <1>5, <2>1
    <3> QED BY <2>1, <2>3, <3>3, <3>4, <3>5 DEF Lives
  <2> QED BY <2>2, <2>3
<1>7. ASSUME NEW k \in Starts
      PROVE  /\ k % RING \in Active <=> Lives(k)
             /\ Lives(k) => grown[k % RING] = Reads(k) /\ found[k % RING] = Seekhash(Reads(k))
             /\ k % RING \in Dropped <=> Lives(k) /\ Falls(k)
  <2>1. k % RING \in Active <=> Lives(k)
    BY <1>6 DEF Seen
  <2>2. ASSUME Lives(k) PROVE grown[k % RING] = Reads(k) /\ found[k % RING] = Seekhash(Reads(k))
    <3>1. fresh[k % RING].chars = SubSeq(text, k + 1, i)
      BY <1>6, <2>2
    <3>2. k \in 0 .. i
      BY DEF Starts
    <3>3. grown[k % RING] = Reads(k)
      BY <1>1, <1>2, <2>1, <2>2, <3>1, <3>2, ReadOn
    <3> QED BY <2>1, <2>2, <3>3
  <2>3. (i - (k % RING)) % CHUNK = (i - k) % CHUNK
    BY <1>2, SlotOf
  <2> HIDE DEF Active, grown, found
  <2>4. k % RING \in Dropped <=> Lives(k) /\ Falls(k)
    BY <2>1, <2>2, <2>3 DEF Falls
  <2> QED BY <2>1, <2>2, <2>4
<1>8. ASSUME NEW j \in DOMAIN ring, fresh[j].f PROVE \E k \in Starts : j = k % RING
  <2>1. CASE j = here
    BY <1>3, <2>1
  <2>2. CASE j # here
    <3>1. ring[j].f
      BY <1>5, <1>8, <2>2
    <3>2. \E k \in Window : j = k % RING
      BY <1>1, <1>2, <3>1 DEF PlainFollowed
    <3> QED BY <1>2, <3>2 DEF Window, Starts
  <2> QED BY <2>1, <2>2
<1>9. \A j \in Active : fresh[j].f /\ j \in DOMAIN ring
  OBVIOUS
<1>10. Dropped \subseteq Active
  OBVIOUS
<1> HIDE DEF here, Active, grown, found, Dropped
<1>11. ASSUME NEW j \in 0 .. RING - 1, ring'[j].f
       PROVE  \E k \in Starts : j = k % RING /\ Lives(k) /\ ~ Falls(k)
  <2>1. fresh[j].f /\ j \notin Dropped
    BY <1>1, <1>2, <1>9, <1>10, <1>11
  <2>2. PICK k \in Starts : j = k % RING
    BY <1>2, <1>8, <2>1
  <2> QED BY <1>6, <1>7, <2>1, <2>2
<1>12. ASSUME NEW k \in Starts
       PROVE  /\ Lives(k) /\ ~ Falls(k) => ring'[k % RING].f
              /\ ring'[k % RING].f => Lives(k) /\ ~ Falls(k) /\ ring'[k % RING].chars = Reads(k)
  <2>1. k % RING \in DOMAIN ring
    BY <1>6
  <2>2. CASE Lives(k)
    <3>1. ring'[k % RING] = [f |-> k % RING \notin Dropped, chars |-> Reads(k)]
      BY <1>1, <1>7, <2>1, <2>2
    <3>2. ring'[k % RING].chars = Reads(k)
      BY ONLY <3>1
    <3>3. ring'[k % RING].f = (k % RING \notin Dropped)
      BY ONLY <3>1
    <3> QED BY <1>7, <2>2, <3>2, <3>3
  <2>3. CASE ~ Lives(k)
    <3>1. ring'[k % RING] = fresh[k % RING]
      BY <1>1, <1>7, <2>1, <2>3
    <3> QED BY <1>6, <2>3, <3>1
  <2> QED BY <2>2, <2>3
\* No other slot clears the bit of a start that stays alive.
<1>13. ASSUME NEW k \in Starts, ring'[k % RING].f
       PROVE  k % WIDTH \in flg'[(k % RING) \div GROUP]
  <2> DEFINE g == (k % RING) \div GROUP
  <2>1. Lives(k) /\ ~ Falls(k)
    BY <1>12, <1>13
  <2>2. k % WIDTH \in raised[g] /\ g \in DOMAIN flg
    BY <1>5, <1>6, <2>1
  <2>3. ASSUME NEW j \in Dropped, j % WIDTH = k % WIDTH PROVE FALSE
    <3>1. PICK m \in Starts : j = m % RING
      BY <1>8, <1>9, <1>10
    <3>2. m % WIDTH = k % WIDTH
      BY <1>2, <2>3, <3>1, SlotOf
    <3>3. m = k
      BY <1>2, <3>2, OwnSlot
    <3> QED BY <1>7, <2>1, <3>1, <3>3
  <2>4. flg'[g] = raised[g] \ {j % WIDTH : j \in {d \in Dropped : d \div GROUP = g}}
    BY <1>1, <2>2
  <2> HIDE DEF g
  <2>5. k % WIDTH \notin {j % WIDTH : j \in {d \in Dropped : d \div GROUP = g}}
    BY <2>3
  <2>6. k % WIDTH \in flg'[g]
    BY <2>2, <2>4, <2>5
  <2> QED BY <2>6 DEF g
<1>14. ASSUME NEW k \in Positions
       PROVE  /\ Hits(k) <=> Hit(k)
              /\ Hit(k) => found[k % RING] = Seekhash(Reads(k))
  <2>1. ASSUME Hits(k) PROVE k \in Starts
    <3>1. k % RING \in Active /\ k = Start(k % RING)
      BY <2>1
    <3>2. PICK m \in Starts : k % RING = m % RING
      BY <1>8, <1>9, <3>1
    <3>3. Start(m % RING) = m
      BY <1>2, SlotOf
    <3> QED BY <3>1, <3>2, <3>3
  <2>2. ASSUME k \in Starts PROVE k = Start(k % RING)
    BY <1>2, <2>2, SlotOf
  <2>3. ASSUME k \in Starts PROVE Hits(k) <=> Hit(k)
    BY <1>7, <2>2, <2>3 DEF Hit
  <2>4. Hit(k) => k \in Starts /\ Lives(k)
    BY DEF Hit
  <2> HIDE DEF Hits
  <2> QED BY <1>7, <2>1, <2>3, <2>4
<1> HIDE DEF Hits
<1>15. ASSUME NEW k \in Positions
       PROVE  /\ w'[k] = IF Hit(k) THEN (i - k + 1) % RING ELSE w[k]
              /\ v'[k] = IF Hit(k) THEN Seekhash(Reads(k)) ELSE v[k]
  BY <1>1, <1>14
<1> QED BY <1>1, <1>11, <1>12, <1>13, <1>15 DEF args

-----------------------------------------------------------------------------
(* What a lookup says of a start.                                          *)

\* No word of the dictionary has WIDTH characters or more.
ShortDict == \A x \in DOMAIN dict : x \in Seq(STRING) /\ dict[x] \in 0 .. 14 /\ Len(x) < WIDTH

\* What is read is a stretch that ends in one more character.
LEMMA ReadsFacts ==
  ASSUME text \in Seq(STRING), i \in Nat, i < size, NEW k \in 0 .. i
  PROVE  /\ Reads(k) \in Seq(STRING) /\ Len(Reads(k)) = i - k + 1
         /\ i - k \in Nat /\ Reads(k) # <<>>
         /\ SubSeq(Reads(k), 1, i - k) = SubSeq(text, k + 1, i)
<1>1. k \in Nat /\ i + 1 \in k .. size /\ i \in k .. size /\ i + 1 - k = i - k + 1 /\ i - k \in Nat
  BY SizeNat
<1>2. Reads(k) \in Seq(STRING) /\ Len(Reads(k)) = i + 1 - k
  BY <1>1, Stretch DEF Reads
<1> DEFINE s == SubSeq(text, k + 1, i)
<1>3. s \in Seq(STRING) /\ Len(s) = i - k
  BY <1>1, Stretch
<1>4. Reads(k) = Append(s, At(i))
  BY ReadOn
<1>5. At(i) \in STRING
  <2>1. i + 1 \in 1 .. Len(text)
    BY <1>1 DEF size
  <2> QED BY <2>1, ElementOfSeq DEF At
<1>6. SubSeq(Reads(k), 1, i - k) = s
  <2> HIDE DEF s
  <2> DEFINE t == Append(s, At(i))
             n == i - k
  <2>1. t \in Seq(STRING) /\ Len(t) = n + 1 /\ \A m \in 1 .. n : t[m] = s[m]
    BY <1>3, <1>5, AppendProperties
  <2>2. n \in Nat /\ s \in Seq(STRING) /\ Len(s) = n
    BY <1>1, <1>3
  <2> HIDE DEF t, n
  <2>3. SubSeq(t, 1, n) = s
    <3>1. \A m \in 1 .. n : t[m] \in STRING
      BY <2>1, <2>2, ElementOfSeq
    <3>2. /\ SubSeq(t, 1, n) \in Seq(STRING)
          /\ Len(SubSeq(t, 1, n)) = (IF 1 <= n THEN n - 1 + 1 ELSE 0)
          /\ \A m \in 1 .. n - 1 + 1 : SubSeq(t, 1, n)[m] = t[1 + m - 1]
      <4>1. 1 \in Int /\ n \in Int
        BY <2>2
      <4> QED BY ONLY <3>1, <4>1, SubSeqProperties
    <3> DEFINE u == SubSeq(t, 1, n)
    <3>3. u \in Seq(STRING) /\ Len(u) = n
      BY <2>2, <3>2
    <3>4. \A m \in 1 .. n : u[m] = s[m]
      <4> SUFFICES ASSUME NEW m \in 1 .. n PROVE u[m] = s[m]
        OBVIOUS
      <4>1. m \in 1 .. n - 1 + 1 /\ 1 + m - 1 = m
        BY <2>2
      <4>2. u[m] = t[1 + m - 1]
        BY <3>2, <4>1
      <4> QED BY <2>1, <4>1, <4>2
    <3> HIDE DEF u
    <3>5. u = s
      BY <2>2, <3>3, <3>4, SeqEqual
    <3> QED BY <3>5 DEF u
  <2> QED BY <1>4, <2>3 DEF t, n
<1>7. Reads(k) # <<>>
  BY <1>1, <1>2, EmptySeq
<1> QED BY <1>1, <1>2, <1>6, <1>7

\* A word that agrees with what is read agreed with it before.
LEMMA AgreedBefore ==
  ASSUME text \in Seq(STRING), i \in Nat, i < size, NEW k \in 0 .. i,
         NEW x \in Seq(STRING), i - k < Len(x), SubSeq(x, 1, i - k + 1) = Reads(k)
  PROVE  SubSeq(x, 1, i - k) = SubSeq(text, k + 1, i)
<1> DEFINE n == i - k + 1
           s == SubSeq(text, k + 1, i)
           u == SubSeq(x, 1, n - 1)
<1>1. n \in 1 .. Len(x) /\ n - 1 = i - k /\ n \in Nat
  <2>1. Len(x) \in Nat
    BY LenProperties
  <2> QED BY <2>1
<1>2. i \in k .. size /\ i + 1 \in 1 .. Len(text) /\ k \in Nat
  BY SizeNat DEF size
<1>3. s \in Seq(STRING) /\ At(i) \in STRING
  BY <1>2, Stretch, ElementOfSeq DEF At
<1>4. Reads(k) = Append(s, At(i))
  BY ReadOn
<1>5. x[n] \in STRING
  BY <1>1, ElementOfSeq
<1>6. SubSeq(x, 1, n) = u \o <<x[n]>>
  <2>1. x \in Seq(STRING) /\ 1 \in 1 .. Len(x) /\ n \in 1 .. Len(x)
    BY <1>1
  <2> HIDE DEF n
  <2> QED BY ONLY <2>1, SubSeqRecursiveSecond DEF u
<1>7. u \in Seq(STRING)
  <2>1. \A m \in 1 .. n - 1 : x[m] \in STRING
    BY <1>1, ElementOfSeq
  <2>2. 1 \in Int /\ n - 1 \in Int
    BY <1>1
  <2> HIDE DEF n
  <2> QED BY ONLY <2>1, <2>2, SubSeqProperties DEF u
<1>8. SubSeq(x, 1, n) = Append(u, x[n])
  BY <1>5, <1>6, <1>7, AppendIsConcat
<1>9. Append(u, x[n]) = Append(s, At(i))
  BY <1>4, <1>8
<1> HIDE DEF u, s, n
<1>10. u = s
  BY <1>3, <1>5, <1>7, <1>9, AppendInjective
<1>11. u = SubSeq(x, 1, i - k)
  BY <1>1 DEF u
<1> QED BY <1>10, <1>11 DEF s

\* What a lookup makes of the slot of a start.
LEMMA LookupFacts ==
  ASSUME IndInv, ShortDict, i < size, NEW k \in Starts
  PROVE  /\ Seekhash(Reads(k)) \in 0 .. 14 <=> Reads(k) \in DOMAIN dict
         /\ Reads(k) \in DOMAIN dict => /\ Seekhash(Reads(k)) = dict[Reads(k)]
                                        /\ i - k + 1 < WIDTH
         /\ i - k + 1 = WIDTH => Falls(k)
         /\ (\E x \in DOMAIN dict : i - k + 1 < Len(x) /\ SubSeq(x, 1, i - k + 1) = Reads(k))
              => ~ Falls(k)
<1> DEFINE h == Reads(k)
           n == i - k
<1>1. /\ i \in Nat /\ k \in 0 .. i /\ k \in Int /\ text \in Seq(STRING)
  BY DEF IndInv, TypeOK, Starts
<1>2. h \in Seq(STRING) /\ Len(h) = n + 1 /\ n \in Nat /\ h # <<>>
  BY <1>1, ReadsFacts
<1>3. CHUNK \in Nat \ {0} /\ WIDTH \in Nat \ {0} /\ WIDTH % CHUNK = 0
  BY Sizes, AlignAssumption
<1>4. \A x \in DOMAIN dict : x \in Seq(STRING) /\ dict[x] \in 0 .. 14 /\ Len(x) < WIDTH
  BY DEF ShortDict
<1>5. \A x \in DOMAIN dict : Len(x) \in Nat
  BY <1>4, LenProperties
<1> HIDE DEF h, n
<1>6. Seekhash(h) = IF h \in DOMAIN dict THEN dict[h] ELSE IF Registered(dict, h) THEN 15 ELSE -1
  BY DEF Seekhash, Lookup
<1>7. Seekhash(h) \in 0 .. 14 <=> h \in DOMAIN dict
  BY <1>4, <1>6
<1>8. h \in DOMAIN dict => Seekhash(h) = dict[h] /\ n + 1 < WIDTH
  BY <1>2, <1>4, <1>6
<1>9. n + 1 = WIDTH => n % CHUNK = CHUNK - 1 /\ Seekhash(h) = -1
  <2> SUFFICES ASSUME n + 1 = WIDTH PROVE n % CHUNK = CHUNK - 1 /\ Seekhash(h) = -1
    OBVIOUS
  <2>1. n % CHUNK = CHUNK - 1
    <3> DEFINE c == WIDTH \div CHUNK
    <3>1. c \in Int /\ WIDTH = CHUNK * c + 0
      BY <1>3, DivMod
    <3> HIDE DEF c
    <3>2. CHUNK * (c - 1) = CHUNK * c - CHUNK
      BY <1>3, <3>1
    <3> DEFINE d == c - 1
               b == CHUNK - 1
    <3>3. d \in Int /\ b \in 0 .. CHUNK - 1
      BY <1>3, <3>1
    <3>4. n = CHUNK * d + b
      BY <1>2, <1>3, <3>1, <3>2
    <3> HIDE DEF d, b
    <3>5. (CHUNK * d + b) % CHUNK = b
      BY ONLY <1>3, <3>3, ModUnique
    <3> QED BY <3>4, <3>5 DEF b
  <2>2. h \notin DOMAIN dict
    BY <1>2, <1>3, <1>8
  <2>3. ~ Registered(dict, h)
    BY <1>2, <1>3, <1>4, <1>5 DEF Registered
  <2> QED BY <1>6, <2>1, <2>2, <2>3
<1>10. ASSUME NEW x \in DOMAIN dict, n + 1 < Len(x), SubSeq(x, 1, n + 1) = h,
              n % CHUNK = CHUNK - 1
       PROVE  Seekhash(h) # -1
  <2>1. (n + 1) % CHUNK = 0
    <3> DEFINE c == n \div CHUNK
               d == c + 1
    <3>1. c \in Int /\ d \in Int /\ n = CHUNK * c + (CHUNK - 1)
      BY <1>2, <1>3, <1>10, DivMod
    <3> HIDE DEF c
    <3>2. CHUNK * (c + 1) = CHUNK * c + CHUNK
      BY <1>3, <3>1
    <3>3. n + 1 = CHUNK * d + 0
      BY <1>2, <1>3, <3>1, <3>2
    <3>4. 0 \in 0 .. CHUNK - 1
      BY <1>3
    <3> HIDE DEF d
    <3>5. (CHUNK * d + 0) % CHUNK = 0
      BY ONLY <1>3, <3>1, <3>4, ModUnique
    <3> QED BY <3>3, <3>5
  <2>2. Registered(dict, h)
    BY <1>2, <1>10, <2>1 DEF Registered
  <2>3. CASE h \in DOMAIN dict
    <3>1. dict[h] \in 0 .. 14
      BY <1>4, <2>3
    <3> QED BY <1>8, <2>3, <3>1
  <2>4. CASE h \notin DOMAIN dict
    <3>1. Seekhash(h) = 15
      BY <1>6, <2>2, <2>4
    <3> QED BY <3>1
  <2> QED BY <2>3, <2>4
<1> QED BY <1>7, <1>8, <1>9, <1>10 DEF Falls, h, n

-----------------------------------------------------------------------------
(* The invariant                                                           *)

\* A start whose slot still lives is in the next window; one that may become a
\* word lives.
LEMMA WindowStep ==
  ASSUME IndInv, PlainFollowed, PlainText, ScanChar, ShortDict
  PROVE  /\ i' = i + 1 /\ i + 1 <= size
         /\ \A j \in 0 .. RING - 1 : ring'[j].f => \E k \in Window' : j = k % RING
         /\ \A k \in Window' :
              /\ ring'[k % RING].f => /\ ring'[k % RING].chars = SubSeq(text, k + 1, i + 1)
                                      /\ k % WIDTH \in flg'[(k % RING) \div GROUP]
              /\ GoesOn(k)' => ring'[k % RING].f
<1>1. /\ i < size /\ i' = i + 1 /\ phase = "scan"
      /\ UNCHANGED <<text, dict, mode>>
      /\ \A j \in 0 .. RING - 1 :
           ring'[j].f => \E k \in Starts : j = k % RING /\ Lives(k) /\ ~ Falls(k)
      /\ \A k \in Starts :
           /\ Lives(k) /\ ~ Falls(k) => ring'[k % RING].f
           /\ ring'[k % RING].f =>
                /\ ring'[k % RING].chars = Reads(k)
                /\ k % WIDTH \in flg'[(k % RING) \div GROUP]
  BY ScanCharEffect
<1>2. i \in Nat /\ text \in Seq(STRING) /\ size \in Nat /\ WIDTH \in Nat \ {0}
  BY SizeNat, Sizes DEF IndInv, TypeOK
<1>3. Window' = {k \in 0 .. i : i + 1 - k < WIDTH}
  BY <1>1, <1>2 DEF Window
<1>4. \A k \in Window' : k \in Starts
  BY <1>2, <1>3 DEF Starts
<1>5. ASSUME NEW j \in 0 .. RING - 1, ring'[j].f PROVE \E k \in Window' : j = k % RING
  <2>1. PICK k \in Starts : j = k % RING /\ Lives(k) /\ ~ Falls(k)
    BY ONLY <1>1, <1>5
  <2>2. i - k + 1 # WIDTH
    BY <1>1, <2>1, LookupFacts
  <2>3. k \in 0 .. i /\ i - k < WIDTH
    BY DEF Starts
  <2>4. i + 1 - k < WIDTH
    BY <1>2, <2>2, <2>3
  <2> QED BY <1>3, <2>1, <2>3, <2>4
<1>6. ASSUME NEW k \in Window', GoesOn(k)' PROVE ring'[k % RING].f
  <2>1. k \in Starts /\ k \in 0 .. i /\ i - k \in Nat /\ i + 1 - k = i - k + 1
    BY <1>2, <1>3, <1>4
  <2>2. PICK x \in DOMAIN dict :
          i - k + 1 < Len(x) /\ SubSeq(x, 1, i - k + 1) = SubSeq(text, k + 1, i + 1)
    <3>0. i' = i + 1 /\ dict' = dict /\ text' = text
      BY <1>1
    <3>1. i' - k = i - k + 1
      BY <1>2, <2>1, <3>0
    <3>2. \E x \in DOMAIN dict' : i' - k < Len(x) /\ SubSeq(x, 1, i' - k) = SubSeq(text', k + 1, i')
      BY <1>6 DEF GoesOn
    <3> QED BY ONLY <3>0, <3>1, <3>2
  <2>3. SubSeq(x, 1, i - k + 1) = Reads(k)
    BY <2>2 DEF Reads
  <2>4. ~ Falls(k)
    BY <1>1, <2>1, <2>2, <2>3, LookupFacts
  <2>5. Lives(k)
    <3>1. CASE k = i
      BY <3>1 DEF Lives
    <3>2. CASE k # i
      <4>1. k \in Window
        BY <1>2, <2>1, <3>2 DEF Window, Starts
      <4>2. x \in Seq(STRING) /\ i - k < Len(x)
        <5>1. x \in Seq(STRING) /\ Len(x) \in Nat
          BY LenProperties DEF ShortDict
        <5> QED BY <2>1, <2>2, <5>1
      <4>3. SubSeq(x, 1, i - k) = SubSeq(text, k + 1, i)
        BY <1>1, <1>2, <2>1, <2>3, <4>2, AgreedBefore
      <4>4. GoesOn(k)
        BY <4>2, <4>3 DEF GoesOn
      <4> QED BY <1>1, <4>1, <4>4 DEF PlainFollowed, Lives
    <3> QED BY <3>1, <3>2
  <2> QED BY <1>1, <2>1, <2>4, <2>5
<1>7. i + 1 <= size
  BY <1>1, <1>2
<1>8. ASSUME NEW k \in Window', ring'[k % RING].f
      PROVE  /\ ring'[k % RING].chars = SubSeq(text, k + 1, i + 1)
             /\ k % WIDTH \in flg'[(k % RING) \div GROUP]
  BY <1>1, <1>4, <1>8 DEF Reads
<1> QED BY <1>1, <1>5, <1>6, <1>7, <1>8

\* What is recorded for a start is the longest word that has ended.
LEMMA LongestStep ==
  ASSUME IndInv, PlainFollowed, PlainText, ScanChar, ShortDict, NEW k \in Positions
  PROVE  LongestBy(k, i)'
<1>1. /\ i < size /\ i' = i + 1 /\ phase = "scan"
      /\ UNCHANGED <<text, dict, mode>>
      /\ w'[k] = IF Hit(k) THEN (i - k + 1) % RING ELSE w[k]
      /\ v'[k] = IF Hit(k) THEN Seekhash(Reads(k)) ELSE v[k]
  BY ScanCharEffect
<1>2. /\ i \in Nat /\ text \in Seq(STRING) /\ size \in Nat /\ k \in 0 .. size - 1 /\ w[k] \in Nat
      /\ WIDTH \in Nat \ {0} /\ RING \in Nat \ {0} /\ WIDTH <= RING
  <2>1. i \in Nat /\ text \in Seq(STRING) /\ w \in [Positions -> 0 .. RING - 1]
    BY DEF IndInv, TypeOK
  <2>2. w[k] \in 0 .. RING - 1
    BY <2>1
  <2>3. k \in 0 .. size - 1
    BY DEF Positions
  <2> QED BY <2>1, <2>2, <2>3, SizeNat, Sizes
<1>3. LengthsAt(k)' = LengthsAt(k)
  BY <1>1 DEF LengthsAt, size, At
<1>4. LongestBy(k, i)
  BY <1>1 DEF PlainFollowed
<1>5. ASSUME Hit(k)
      PROVE  /\ k \in Starts /\ Reads(k) \in DOMAIN dict /\ i - k + 1 \in Nat
             /\ w'[k] = i - k + 1 /\ v'[k] = dict[Reads(k)]
  <2>1. k \in Starts /\ Seekhash(Reads(k)) \in 0 .. 14
    BY <1>5 DEF Hit
  <2>2. Reads(k) \in DOMAIN dict /\ Seekhash(Reads(k)) = dict[Reads(k)] /\ i - k + 1 < WIDTH
    BY <1>1, <2>1, LookupFacts
  <2>3. i - k + 1 \in 0 .. RING - 1
    BY <1>2, <2>1, <2>2 DEF Starts
  <2> DEFINE d == i - k + 1
  <2>4. d \in 0 .. RING - 1 /\ w'[k] = d % RING
    BY <1>1, <1>5, <2>3
  <2> HIDE DEF d
  <2>5. d % RING = d
    BY <1>2, <2>4
  <2> QED BY <1>1, <1>5, <2>1, <2>2, <2>3, <2>4, <2>5 DEF d
\* A word that ends with the character is a hit.
<1>6. ASSUME i - k + 1 \in LengthsAt(k) PROVE Hit(k)
  <2> DEFINE h == Reads(k)
  <2>1. k \in 0 .. i /\ i - k \in Nat
    BY <1>2, <1>6 DEF LengthsAt
  <2>2. k + (i - k + 1) = i + 1
    BY <1>2
  <2>3. h \in DOMAIN dict
    BY <1>6, <2>2 DEF LengthsAt, Reads
  <2>4. /\ h \in Seq(STRING) /\ Len(h) = i - k + 1
        /\ SubSeq(h, 1, i - k) = SubSeq(text, k + 1, i)
    BY <1>1, <1>2, <2>1, ReadsFacts
  <2>5. i - k + 1 < WIDTH
    BY <2>3, <2>4 DEF ShortDict
  <2>6. k \in Starts
    BY <1>2, <2>1, <2>5 DEF Starts
  <2>7. Lives(k)
    <3>1. CASE k = i
      BY <3>1 DEF Lives
    <3>2. CASE k # i
      <4>1. k \in Window
        BY <1>2, <2>1, <2>6, <3>2 DEF Window, Starts
      <4>2. i - k < Len(h)
        BY <2>1, <2>4
      <4>3. GoesOn(k)
        BY <2>3, <2>4, <4>2 DEF GoesOn
      <4> QED BY <1>1, <4>1, <4>3 DEF PlainFollowed, Lives
    <3> QED BY <3>1, <3>2
  <2>8. Seekhash(h) \in 0 .. 14
    BY <1>1, <2>3, <2>6, LookupFacts
  <2>9. mode.eng => AtWordEdges(k)
    <3>1. mode.eng => /\ k = 0 \/ At(k - 1) \notin WordChars
                      /\ i + 1 = size \/ At(i + 1) \notin WordChars
      BY <1>6, <2>2 DEF LengthsAt
    <3> QED BY <1>2, <3>1 DEF AtWordEdges
  <2> QED BY <2>6, <2>7, <2>8, <2>9 DEF Hit
<1>7. ASSUME Hit(k) PROVE i - k + 1 \in LengthsAt(k)
  <2>1. /\ k \in Starts /\ Reads(k) \in DOMAIN dict /\ i - k + 1 \in Nat
        /\ mode.eng => AtWordEdges(k)
    BY <1>5, <1>7 DEF Hit
  <2>2. k + (i - k + 1) = i + 1 /\ i - k + 1 \in 1 .. size - k
    BY <1>1, <1>2, <2>1 DEF Starts
  <2>3. SubSeq(text, k + 1, k + (i - k + 1)) \in DOMAIN dict
    BY <2>1, <2>2 DEF Reads
  <2>4. mode.eng => /\ k = 0 \/ At(k - 1) \notin WordChars
                    /\ i + 1 = size \/ At(i + 1) \notin WordChars
    BY <1>1, <1>2, <2>1 DEF AtWordEdges
  <2> QED BY <2>2, <2>3, <2>4 DEF LengthsAt
<1>8. ASSUME NEW n \in LengthsAt(k), k + n <= i + 1 PROVE n <= w'[k]
  <2>0. n \in Nat
    BY <1>2 DEF LengthsAt
  <2>1. CASE k + n <= i
    <3>1. n <= w[k]
      BY <1>4, <2>1 DEF LongestBy
    <3>2. n <= i - k + 1
      BY <1>2, <2>0, <2>1
    <3> QED BY <1>1, <1>5, <3>1, <3>2
  <2>2. CASE k + n = i + 1
    <3>1. n = i - k + 1
      BY <1>2, <2>0, <2>2
    <3>2. Hit(k)
      BY <1>6, <3>1
    <3> QED BY <1>5, <2>0, <3>1, <3>2
  <2> QED BY <1>2, <1>8, <2>0, <2>1, <2>2
<1>9. ASSUME w'[k] # 0
      PROVE  /\ w'[k] \in LengthsAt(k) /\ k + w'[k] <= i + 1
             /\ v'[k] = dict[SubSeq(text, k + 1, k + w'[k])]
  <2>1. CASE Hit(k)
    <3>1. w'[k] = i - k + 1 /\ k + (i - k + 1) = i + 1 /\ v'[k] = dict[Reads(k)]
      BY <1>2, <1>5, <2>1
    <3>2. SubSeq(text, k + 1, k + w'[k]) = Reads(k)
      BY <3>1 DEF Reads
    <3>3. k + w'[k] <= i + 1
      BY <1>2, <3>1
    <3> QED BY <1>7, <2>1, <3>1, <3>2, <3>3
  <2>2. CASE ~ Hit(k)
    <3>1. w'[k] = w[k] /\ v'[k] = v[k]
      BY <1>1, <2>2
    <3>2. w[k] \in LengthsAt(k) /\ k + w[k] <= i /\ v[k] = dict[SubSeq(text, k + 1, k + w[k])]
      BY <1>4, <1>9, <3>1 DEF LongestBy
    <3> QED BY <1>2, <3>1, <3>2
  <2> QED BY <2>1, <2>2
<1>10. i' = i + 1 /\ text' = text /\ dict' = dict
  BY <1>1
<1> QED BY ONLY <1>3, <1>8, <1>9, <1>10 DEF LongestBy

\* Nothing is followed before the first character.
LEMMA InitFollowed == Init => PlainFollowed
<1> SUFFICES ASSUME Init PROVE PlainFollowed
  OBVIOUS
<1>1. i = 0 /\ text \in Seq(STRING) /\ size \in Nat
  BY SizeNat, ScannerAssumption DEF Init
<1>2. Window = {}
  BY <1>1 DEF Window
<1>3. \A j \in 0 .. RING - 1 : ~ ring[j].f
  BY DEF Init, FreeSlot
<1>4. ASSUME NEW k \in Positions PROVE LongestBy(k, i)
  <2>1. w[k] = 0
    BY DEF Init
  <2>2. \A n \in LengthsAt(k) : ~ (k + n <= 0)
    BY <1>1 DEF LengthsAt, Positions
  <2> QED BY <1>1, <2>1, <2>2 DEF LongestBy
<1> QED BY <1>1, <1>2, <1>3, <1>4 DEF PlainFollowed

\* A character moves the window by one.
LEMMA ScanCharFollowed ==
  ASSUME IndInv, PlainFollowed, ShortDict, ScanChar
  PROVE  PlainFollowed'
<1>1. UNCHANGED <<text, mode>>
  BY DEF ScanChar, args
<1>2. PlainText' <=> PlainText
  BY <1>1 DEF PlainText, Positions, At, size
<1>3. CASE ~ PlainText
  BY <1>2, <1>3 DEF PlainFollowed
<1>4. CASE PlainText
  <2>1. /\ i' = i + 1 /\ i + 1 <= size
        /\ \A j \in 0 .. RING - 1 : ring'[j].f => \E k \in Window' : j = k % RING
        /\ \A k \in Window' :
             /\ ring'[k % RING].f => /\ ring'[k % RING].chars = SubSeq(text, k + 1, i + 1)
                                     /\ k % WIDTH \in flg'[(k % RING) \div GROUP]
             /\ GoesOn(k)' => ring'[k % RING].f
    BY <1>4, WindowStep
  <2>2. \A k \in Positions : LongestBy(k, i)'
    BY <1>4, LongestStep
  <2>3. size' = size /\ Positions' = Positions /\ text' = text
    BY <1>1 DEF Positions, size
  <2>4. i' <= size'
    BY <2>1, <2>3
  <2>5. \A k \in Window' :
          LET j == k % RING
          IN  /\ ring'[j].f => /\ ring'[j].chars = SubSeq(text', k + 1, i')
                               /\ k % WIDTH \in flg'[j \div GROUP]
              /\ GoesOn(k)' => ring'[j].f
    BY <2>1, <2>3
  <2> QED BY <2>1, <2>2, <2>3, <2>4, <2>5 DEF PlainFollowed
<1> QED BY <1>3, <1>4

\* In plain text no step skips.
LEMMA NoSkip ==
  ASSUME IndInv, SkipComment \/ CloseKept \/ SkipTag
  PROVE  ~ PlainText' /\ phase' = "scan"
<1>1. /\ phase' = "scan" /\ i < size /\ InTagMode /\ UNCHANGED <<text, mode>>
  BY DEF SkipComment, CloseKept, SkipTag, args
<1>2. i \in Positions
  BY <1>1, SizeNat DEF IndInv, TypeOK, Positions
<1>3. ~ PlainText
  BY <1>1, <1>2 DEF PlainText, InTagMode
<1> QED BY <1>1, <1>3 DEF PlainText, Positions, At, size

LEMMA NextFollowed ==
  ASSUME IndInv, PlainFollowed, FindsLongestWords, ShortDict, [Next]_vars
  PROVE  PlainFollowed' /\ FindsLongestWords'
<1>1. CASE ScanChar
  <2>1. phase' = "scan"
    BY <1>1 DEF ScanChar, args
  <2> QED BY <1>1, <2>1, ScanCharFollowed DEF FindsLongestWords, Scanned
<1>2. CASE SkipComment \/ CloseKept \/ SkipTag
  BY <1>2, NoSkip DEF PlainFollowed, FindsLongestWords, Scanned
<1>3. CASE EndScan
  <2>1. /\ phase = "scan" /\ i >= size /\ phase' = "count"
        /\ UNCHANGED <<text, dict, mode, w, v>>
    BY <1>3 DEF EndScan, args
  <2>2. (PlainText' <=> PlainText) /\ size' = size /\ Positions' = Positions
    BY <2>1 DEF PlainText, Positions, At, size
  <2>3. ASSUME PlainText, NEW k \in Positions PROVE LongestBy(k, size)'
    <3>1. i <= size /\ LongestBy(k, i)
      BY <2>1, <2>3 DEF PlainFollowed
    <3>2. i = size
      BY <2>1, <3>1, SizeNat DEF IndInv, TypeOK
    <3>3. LengthsAt(k)' = LengthsAt(k)
      BY <2>1 DEF LengthsAt, At, size
    <3> QED BY <2>1, <2>2, <3>1, <3>2, <3>3 DEF LongestBy
  <2> QED BY <2>1, <2>2, <2>3 DEF PlainFollowed, FindsLongestWords
<1>4. CASE Count
  <2>1. /\ phase = "count" /\ phase' = "count" /\ i < size
        /\ i' = IF w[i] # 0 THEN i + w[i] ELSE i + 1
    BY <1>4 DEF Count
  <2>2. i \in Nat /\ w[i] \in Nat
    BY <2>1, LoopFacts
  <2>3. i' # 0
    BY <2>1, <2>2
  <2> QED BY <2>1, <2>3 DEF PlainFollowed, FindsLongestWords, Scanned
<1>5. CASE Allocate \/ Store \/ Finish \/ Refuse \/ AllocateFails
  BY <1>5 DEF Allocate, Store, Finish, Refuse, AllocateFails, PlainFollowed, FindsLongestWords, Scanned
<1>6. CASE UNCHANGED vars
  BY <1>6 DEF vars, PlainFollowed, FindsLongestWords, Scanned, PlainText, Window, GoesOn, LongestBy,
              LengthsAt, Positions, At, size
<1> QED BY <1>1, <1>2, <1>3, <1>4, <1>5, <1>6 DEF Next

-----------------------------------------------------------------------------
(* MatchesVisibleText: tags, kept elements and what is visible             *)

\* In a text with no quotes a tag ends at the first `>'.
LEMMA FirstClose ==
  ASSUME text \in Seq(STRING), SimpleMarkup
  PROVE  \A p \in 0 .. size :
           /\ TagEnd[p] \in p .. size
           /\ \A c \in p .. TagEnd[p] - 1 : At(c) # ">"
           /\ TagEnd[p] < size => At(TagEnd[p]) = ">"
<1> DEFINE Stops(p) == /\ TagEnd[p] \in p .. size
                       /\ \A c \in p .. TagEnd[p] - 1 : At(c) # ">"
                       /\ TagEnd[p] < size => At(TagEnd[p]) = ">"
           S == {p \in 0 .. size : Stops(p)}
<1>1. size \in Nat
  BY SizeNat
<1>2. \A p \in 0 .. size :
        TagEnd[p] = IF p >= size \/ At(p) = ">" THEN p ELSE TagEnd[p + 1]
  <2> SUFFICES ASSUME NEW p \in 0 .. size
               PROVE  TagEnd[p] = IF p >= size \/ At(p) = ">" THEN p ELSE TagEnd[p + 1]
    OBVIOUS
  <2> DEFINE quoted == At(p) \in {"\"", "'"}
  <2>1. TagEnd[p] = IF p >= size \/ At(p) = ">" THEN p
                    ELSE IF quoted THEN TagEnd[Find(p + 1, {At(p)}) + 1]
                    ELSE TagEnd[p + 1]
    BY TagEndForward
  <2>2. p >= size \/ ~ quoted
    <3>1. p >= size \/ p \in Positions
      BY <1>1 DEF Positions
    <3> QED BY <3>1, Zenon DEF SimpleMarkup
  <2> HIDE DEF quoted
  <2> QED BY <2>1, <2>2
<1>3. ASSUME NEW p \in 0 .. size, p >= size \/ At(p) = ">" PROVE Stops(p)
  <2>1. TagEnd[p] = p
    BY <1>2, <1>3
  <2> QED BY <1>1, <1>3, <2>1
<1>4. size \in S
  BY <1>1, <1>3
<1>5. ASSUME NEW n \in 1 .. size, n \in S PROVE n - 1 \in S
  <2>1. n - 1 \in 0 .. size /\ n - 1 + 1 = n
    BY <1>1
  <2>2. CASE n - 1 >= size \/ At(n - 1) = ">"
    BY <1>3, <2>1, <2>2
  <2>3. CASE ~ (n - 1 >= size \/ At(n - 1) = ">")
    <3>1. TagEnd[n - 1] = TagEnd[n]
      BY <1>2, <2>1, <2>3
    <3>2. Stops(n)
      BY <1>5
    <3> DEFINE e == TagEnd[n]
    <3>3. e \in n .. size /\ (\A c \in n .. e - 1 : At(c) # ">") /\ (e < size => At(e) = ">")
      BY <3>2
    <3> HIDE DEF e
    <3>4. e \in n - 1 .. size /\ \A c \in n - 1 .. e - 1 : At(c) # ">"
      BY <1>1, <2>1, <2>3, <3>3
    <3>5. TagEnd[n - 1] = e
      BY <3>1 DEF e
    <3> QED BY <2>1, <3>3, <3>4, <3>5
  <2> QED BY <2>2, <2>3
<1> HIDE DEF Stops
<1>6. \A p \in 0 .. size : p \in S
  <2> HIDE DEF S
  <2> QED BY <1>1, <1>4, <1>5, DownToZero
<1> QED BY <1>6 DEF Stops

\* The search for the next tag passes over no `<'.
LEMMA NextTag ==
  ASSUME text \in Seq(STRING), NEW p \in 0 .. size
  PROVE  /\ Find(p, {"<"}) \in p .. size
         /\ \A c \in p .. Find(p, {"<"}) - 1 : At(c) # "<"
         /\ Find(p, {"<"}) < size => At(Find(p, {"<"})) = "<"
<1> DEFINE Hits == {k \in p .. size - 1 : At(k) \in {"<"}}
<1>1. size \in Nat
  BY SizeNat
<1>2. CASE Hits = {}
  <2>1. Find(p, {"<"}) = size
    BY <1>1, <1>2 DEF Find
  <2> QED BY <1>1, <1>2, <2>1
<1>3. CASE Hits # {}
  <2>1. Hits \subseteq Nat
    BY <1>1
  <2>2. Min(Hits) \in Hits /\ \A y \in Hits : Min(Hits) <= y
    BY <1>3, <2>1, MinNat
  <2>3. Find(p, {"<"}) = Min(Hits)
    BY <1>3 DEF Find
  <2> DEFINE m == Find(p, {"<"})
  <2>4. m \in p .. size - 1 /\ At(m) = "<"
    BY <2>2, <2>3
  <2>5. ASSUME NEW c \in p .. m - 1, At(c) = "<" PROVE FALSE
    <3>1. c \in Hits
      BY <1>1, <2>4, <2>5
    <3>2. m <= c
      BY <2>2, <2>3, <3>1
    <3> QED BY <2>4, <3>2
  <2> QED BY <1>1, <2>4, <2>5
<1> QED BY <1>2, <1>3

\* Inside a tag there is markup, and no other tag starts.
LEMMA InsideTag ==
  ASSUME NEW b \in Nat, NEW e \in Int, At(b) = "<", \A c \in b .. e - 1 : At(c) # ">"
  PROVE  /\ \A p \in b .. e : Markup(p)
         /\ \A p \in b + 1 .. e : ~ StartsTag(p)
<1>1. ASSUME NEW p \in b .. e PROVE Markup(p)
  <2>1. b \in 0 .. p /\ \A c \in b .. p - 1 : At(c) # ">"
    OBVIOUS
  <2> QED BY <2>1 DEF Markup
<1>2. ASSUME NEW p \in b + 1 .. e PROVE ~ StartsTag(p)
  <2>1. p - 1 \in b .. e - 1 /\ p - 1 \in b .. e /\ p # 0
    OBVIOUS
  <2>2. Markup(p - 1) /\ At(p - 1) # ">"
    BY <1>1, <2>1
  <2> QED BY <2>1, <2>2 DEF StartsTag
<1> QED BY <1>1, <1>2

\* Behind the end of a tag and before the next one there is none.
LEMMA OutsideTag ==
  ASSUME NEW e \in Nat, NEW f \in Nat, e < f, At(e) = ">", \A c \in e .. f - 1 : At(c) # "<"
  PROVE  ~ Markup(f - 1) \/ At(f - 1) = ">"
<1> SUFFICES ASSUME Markup(f - 1), At(f - 1) # ">" PROVE FALSE
  OBVIOUS
<1>1. PICK b \in 0 .. f - 1 : At(b) = "<" /\ \A c \in b .. f - 1 - 1 : At(c) # ">"
  BY DEF Markup
<1>2. b < e
  BY <1>1
<1>3. e \in b .. f - 1 - 1
  <2>1. e # f - 1
    OBVIOUS
  <2> QED BY <1>2, <2>1
<1> QED BY <1>1, <1>3

\* A position behind all others is the last one.
LEMMA NthLast ==
  ASSUME NEW S, IsFiniteSet(S), S \subseteq Int, NEW x \in Int, \A y \in S : y < x
  PROVE  /\ Cardinality(S) \in Nat /\ Cardinality(S \cup {x}) = Cardinality(S) + 1
         /\ \A m \in 1 .. Cardinality(S) : Nth(S \cup {x}, m) = Nth(S, m)
         /\ Nth(S \cup {x}, Cardinality(S) + 1) = x
<1> DEFINE T == S \cup {x}
           n == Cardinality(S)
           Rank(U, p) == Cardinality({y \in U : y <= p})
<1>1. n \in Nat /\ Cardinality(T) = n + 1
  BY FS_CardinalityType, FS_AddElement
<1>2. ASSUME NEW p \in S PROVE Rank(T, p) = Rank(S, p) /\ Rank(S, p) \in Nat /\ Rank(S, p) <= n
  <2>1. {y \in T : y <= p} = {y \in S : y <= p}
    OBVIOUS
  <2>2. {y \in S : y <= p} \in SUBSET S
    OBVIOUS
  <2>3. IsFiniteSet({y \in S : y <= p}) /\ Cardinality({y \in S : y <= p}) <= n
    BY <2>2, FS_Subset
  <2> QED BY <2>1, <2>3, FS_CardinalityType
<1>3. Rank(T, x) = n + 1
  <2>1. \A y \in T : y <= x
    OBVIOUS
  <2>2. {y \in T : y <= x} = T
    BY <2>1
  <2> QED BY <1>1, <2>2
<1>0. \A p \in T : p \in S \/ p = x
  OBVIOUS
<1>9. x \in T /\ S \subseteq T
  OBVIOUS
<1> HIDE DEF n, T
<1>4. ASSUME NEW m \in 1 .. n PROVE Nth(T, m) = Nth(S, m)
  <2>1. {p \in T : Rank(T, p) = m} = {p \in S : Rank(S, p) = m}
    <3> HIDE DEF Rank
    <3>1. \A p \in T : Rank(T, p) = m => p \in S
      BY <1>0, <1>1, <1>3
    <3> QED BY <1>2, <1>9, <3>1
  <2> QED BY <2>1 DEF Nth
<1>5. Nth(T, n + 1) = x
  <2>1. {p \in T : Rank(T, p) = n + 1} = {x}
    <3> HIDE DEF Rank
    <3>1. \A p \in S : Rank(T, p) # n + 1
      BY <1>1, <1>2
    <3>2. \A p \in T : Rank(T, p) = n + 1 => p = x
      BY <1>0, <3>1
    <3> QED BY <1>3, <1>9, <3>2
  <2>2. Nth(T, n + 1) = CHOOSE p \in {x} : TRUE
    BY <2>1 DEF Nth
  <2> QED BY <2>2
<1> QED BY <1>1, <1>4, <1>5 DEF n, T

LEMMA ShownFinite ==
  ASSUME NEW k \in Int, NEW n \in Int
  PROVE  IsFiniteSet(Shown(k, n)) /\ Shown(k, n) \subseteq Int
<1>1. IsFiniteSet(k .. k + n - 1)
  BY FS_Interval
<1>2. Shown(k, n) \in SUBSET (k .. k + n - 1)
  BY DEF Shown
<1> QED BY <1>1, <1>2, FS_Subset

\* Nothing is visible of no characters.
LEMMA NothingYet == ASSUME NEW k \in Int PROVE VisibleText(k, 0) = <<>>
<1>1. Shown(k, 0) = {}
  BY DEF Shown
<1>2. Cardinality(Shown(k, 0)) = 0
  BY <1>1, FS_EmptySet
<1> QED BY <1>2 DEF VisibleText

\* A visible character is the next one of the visible text.
LEMMA OneMore ==
  ASSUME NEW k \in Int, NEW n \in Nat, ~ Hidden(k + n),
         VisibleText(k, n) \in Seq(STRING), At(k + n) \in STRING
  PROVE  VisibleText(k, n + 1) = Append(VisibleText(k, n), At(k + n))
<1> DEFINE S == Shown(k, n)
           x == k + n
           c == Cardinality(S)
           s == VisibleText(k, n)
           t == VisibleText(k, n + 1)
<1>1. Shown(k, n + 1) = S \cup {x}
  BY DEF Shown
<1>2. IsFiniteSet(S) /\ S \subseteq Int /\ \A y \in S : y < x
  <2>1. IsFiniteSet(S) /\ S \subseteq Int
    BY ShownFinite
  <2>2. \A y \in S : y < x
    BY DEF Shown
  <2> QED BY <2>1, <2>2
<1>3. x \in Int
  OBVIOUS
<1>4. s = [m \in 1 .. c |-> At(Nth(S, m))]
  BY DEF VisibleText
<1>5. t = [m \in 1 .. Cardinality(S \cup {x}) |-> At(Nth(S \cup {x}, m))]
  BY <1>1 DEF VisibleText
<1> HIDE DEF S, x, s, t
<1>6. /\ c \in Nat /\ Cardinality(S \cup {x}) = c + 1
      /\ \A m \in 1 .. c : Nth(S \cup {x}, m) = Nth(S, m)
      /\ Nth(S \cup {x}, c + 1) = x
  BY ONLY <1>2, <1>3, NthLast
<1> HIDE DEF c
<1>7. Len(s) = c /\ s \in Seq(STRING)
  <2>1. s \in Seq(STRING)
    BY DEF s
  <2>2. DOMAIN s = 1 .. Len(s) /\ Len(s) \in Nat
    BY <2>1, LenProperties
  <2>3. DOMAIN s = 1 .. c
    BY <1>4
  <2>4. 1 .. Len(s) = 1 .. c
    BY <2>2, <2>3
  <2>5. Len(s) = c
    <3> DEFINE l == Len(s)
    <3>1. l \in Nat /\ 1 .. l = 1 .. c
      BY <2>2, <2>4
    <3> HIDE DEF l
    <3>2. l = c
      BY <1>6, <3>1
    <3> QED BY <3>2 DEF l
  <2> QED BY <2>1, <2>5
<1>8. t = [m \in 1 .. c + 1 |-> IF m = c + 1 THEN At(x) ELSE s[m]]
  <2>1. ASSUME NEW m \in 1 .. c + 1
        PROVE  At(Nth(S \cup {x}, m)) = IF m = c + 1 THEN At(x) ELSE s[m]
    <3>1. CASE m = c + 1
      BY <1>6, <3>1
    <3>2. CASE m # c + 1
      <4>1. m \in 1 .. c
        BY <1>6, <3>2
      <4> QED BY <1>4, <1>6, <3>2, <4>1
    <3> QED BY <3>1, <3>2
  <2> QED BY <1>5, <1>6, <2>1
<1>9. Append(s, At(x)) = [m \in 1 .. c + 1 |-> IF m = c + 1 THEN At(x) ELSE s[m]]
  <2> DEFINE a == At(x)
  <2>0. a \in STRING
    BY DEF x
  <2> HIDE DEF a
  <2>1. /\ Append(s, a) \in Seq(STRING) /\ Len(Append(s, a)) = c + 1
        /\ \A m \in 1 .. c : Append(s, a)[m] = s[m]
        /\ Append(s, a)[c + 1] = a
    BY ZenonT(30), <1>7, <2>0, AppendProperties
  <2> DEFINE u == Append(s, a)
  <2> HIDE DEF u
  <2>2. u \in [1 .. c + 1 -> STRING]
    BY <2>1, LenProperties DEF u
  <2>3. \A m \in 1 .. c + 1 : m = c + 1 \/ m \in 1 .. c
    BY <1>6
  <2>4. \A m \in 1 .. c + 1 : u[m] = IF m = c + 1 THEN a ELSE s[m]
    BY <2>1, <2>3 DEF u
  <2>5. u = [m \in 1 .. c + 1 |-> IF m = c + 1 THEN a ELSE s[m]]
    BY <2>2, <2>4
  <2> QED BY <2>5 DEF a, u
<1> QED BY <1>8, <1>9 DEF s, t, x

\* What is hidden adds nothing.
LEMMA NothingMore ==
  ASSUME NEW k \in Int, NEW n \in Nat, NEW m \in Nat, n <= m,
         \A p \in k + n .. k + m - 1 : Hidden(p)
  PROVE  VisibleText(k, m) = VisibleText(k, n)
<1>1. Shown(k, m) = Shown(k, n)
  BY DEF Shown
<1> QED BY <1>1 DEF VisibleText

\* What is said of the text alone stays as long as the text does.
LEMMA SameText ==
  ASSUME text' = text
  PROVE  /\ size' = size /\ Positions' = Positions
         /\ \A k : At(k)' = At(k) /\ (Markup(k)' <=> Markup(k)) /\ (Opens(k)' <=> Opens(k))
         /\ \A b, k : KeptFrom(b, k)' <=> KeptFrom(b, k)
         /\ \A k : Hidden(k)' <=> Hidden(k)
         /\ \A k, n : VisibleText(k, n)' = VisibleText(k, n)
         /\ KeptLast' <=> KeptLast
<1>1. size' = size /\ Positions' = Positions /\ \A k : At(k)' = At(k)
  BY DEF size, Positions, At
<1>2. ASSUME NEW k PROVE Markup(k)' <=> Markup(k)
  BY <1>1 DEF Markup
<1>3. ASSUME NEW k PROVE StartsTag(k)' <=> StartsTag(k)
  BY <1>1, <1>2 DEF StartsTag
<1>4. ASSUME NEW k PROVE Name(k)' = Name(k)
  <2>1. {n \in 0 .. MAXNAME : n = MAXNAME \/ k + n >= size \/ At(k + n) \notin Letters}'
          = {n \in 0 .. MAXNAME : n = MAXNAME \/ k + n >= size \/ At(k + n) \notin Letters}
    BY <1>1
  <2>2. NameLen(k)' = NameLen(k)
    BY <2>1 DEF NameLen
  <2> QED BY <2>2 DEF Name
<1>5. ASSUME NEW k PROVE Opens(k)' <=> Opens(k)
  BY <1>3, <1>4 DEF Opens
<1>6. ASSUME NEW b, NEW n PROVE EndsElement(b, n)' <=> EndsElement(b, n)
  BY <1>1 DEF EndsElement
<1>7. ASSUME NEW b PROVE Closes(b)' <=> Closes(b)
  BY <1>3, <1>6 DEF Closes
<1>8. ASSUME NEW b, NEW k PROVE KeptFrom(b, k)' <=> KeptFrom(b, k)
  BY <1>5, <1>7 DEF KeptFrom
<1>9. ASSUME NEW k PROVE Hidden(k)' <=> Hidden(k)
  BY <1>2, <1>8 DEF Hidden, Kept
<1>10. ASSUME NEW k, NEW n PROVE VisibleText(k, n)' = VisibleText(k, n)
  <2>1. Shown(k, n)' = Shown(k, n)
    BY <1>9 DEF Shown
  <2> QED BY <1>1, <2>1 DEF VisibleText
<1>11. KeptLast' <=> KeptLast
  BY <1>1, <1>3, <1>6 DEF KeptLast
<1> QED BY <1>1, <1>2, <1>5, <1>8, <1>9, <1>10, <1>11

\* A step that leaves i outside of every slot's start leaves what was recorded.
LEMMA KeptMatches ==
  ASSUME VisibleMatches, UNCHANGED <<text, dict, w, v>>
  PROVE  VisibleMatches'
<1>1. /\ Positions' = Positions /\ \A k : Hidden(k)' <=> Hidden(k)
      /\ \A k, n : VisibleText(k, n)' = VisibleText(k, n)
  BY SameText
<1>2. ASSUME NEW k \in Positions, VisibleMatch(k) PROVE VisibleMatch(k)'
  BY <1>1, <1>2 DEF VisibleMatch
<1> QED BY <1>1, <1>2 DEF VisibleMatches

\* What a character does in the first round of the ring, where every slot is that
\* of the position with its number, ...
LEMMA FirstRound ==
  ASSUME IndInv, ScanChar, i < RING
  PROVE  /\ \A j \in 0 .. RING - 1 :
              LET seen == flg[j \div GROUP] # {} \/ i \div GROUP = j \div GROUP
                  then == IF j = i THEN <<>> ELSE ring[j].chars
              IN  /\ ring'[j].f => j = i \/ ring[j].f
                  /\ (j = i \/ ring[j].f) /\ seen => ring'[j].chars = Append(then, At(i))
                  /\ flg'[j \div GROUP] # {} => seen
         /\ \A k \in Positions :
              LET then == IF k = i THEN <<>> ELSE ring[k].chars
              IN  \/ w'[k] = w[k] /\ v'[k] = v[k]
                  \/ /\ k \in 0 .. RING - 1 /\ (k = i \/ ring[k].f)
                     /\ flg[k \div GROUP] # {} \/ i \div GROUP = k \div GROUP
                     /\ w'[k] = (i - k + 1) % RING
                     /\ v'[k] = Seekhash(Append(then, At(i))) /\ v'[k] \in 0 .. 14
<1> DEFINE here   == i % RING
           fresh  == [ring EXCEPT ![here] = [f |-> TRUE, chars |-> <<>>]]
           raised == [flg EXCEPT ![here \div GROUP] = @ \union {here % WIDTH}]
           Active == {j \in DOMAIN ring : fresh[j].f /\ Seen(j, raised)}
           grown  == [j \in Active |-> Append(fresh[j].chars, At(i))]
           found  == [j \in Active |-> Seekhash(grown[j])]
           Dropped == {j \in Active : (i - j) % CHUNK = CHUNK - 1 /\ found[j] = -1}
           Hits(k) == LET j == k % RING IN
                        /\ j \in Active /\ k = Start(j) /\ found[j] \in 0 .. 14
                        /\ mode.eng => AtWordEdges(k)
           seen(j) == flg[j \div GROUP] # {} \/ i \div GROUP = j \div GROUP
           then(j) == IF j = i THEN <<>> ELSE ring[j].chars
<1>1. /\ ring' = [j \in DOMAIN ring |->
                    IF j \in Active THEN [f |-> j \notin Dropped, chars |-> grown[j]] ELSE fresh[j]]
      /\ flg' = [g \in DOMAIN flg |->
                   raised[g] \ {j % WIDTH : j \in {d \in Dropped : d \div GROUP = g}}]
      /\ w' = [k \in Positions |-> IF Hits(k) THEN (i - k + 1) % RING ELSE w[k]]
      /\ v' = [k \in Positions |-> IF Hits(k) THEN found[k % RING] ELSE v[k]]
  BY DEF ScanChar
<1>2. /\ i \in Nat /\ i \in 0 .. RING - 1 /\ size \in Nat
      /\ DOMAIN ring = 0 .. RING - 1 /\ DOMAIN flg = 0 .. (RING - 1) \div GROUP
      /\ ring \in [0 .. RING - 1 -> [f : BOOLEAN, chars : Seq(STRING)]]
  BY SizeNat, Sizes DEF IndInv, TypeOK
<1>3. here = i
  <2>1. i \in 0 .. RING - 1 /\ RING \in Nat \ {0}
    BY <1>2, Sizes
  <2>2. i % RING = i
    BY ONLY <2>1
  <2> QED BY <2>2
<1>4. ASSUME NEW j \in DOMAIN ring
      PROVE  /\ j \div GROUP \in DOMAIN flg
             /\ fresh[j] = IF j = i THEN [f |-> TRUE, chars |-> <<>>] ELSE ring[j]
             /\ raised[j \div GROUP] = flg[j \div GROUP] \union
                  (IF j \div GROUP = i \div GROUP THEN {here % WIDTH} ELSE {})
  <2>1. j \div GROUP \in DOMAIN flg
    <3>1. RING - 1 \in Nat /\ j \in 0 .. RING - 1
      BY <1>2, Sizes
    <3> QED BY <1>2, <3>1, Sizes, DivRange
  <2> QED BY <1>2, <1>3, <2>1
<1> HIDE DEF fresh, raised
<1>5. ASSUME NEW j \in DOMAIN ring
      PROVE  /\ raised[j \div GROUP] # {} <=> seen(j)
             /\ fresh[j].f <=> j = i \/ ring[j].f
             /\ fresh[j].chars = then(j)
             /\ j \in Active <=> (j = i \/ ring[j].f) /\ seen(j)
             /\ j \in Active => found[j] = Seekhash(Append(then(j), At(i)))
  <2>1. raised[j \div GROUP] # {} <=> seen(j)
    BY <1>4
  <2>2. (fresh[j].f <=> j = i \/ ring[j].f) /\ fresh[j].chars = then(j)
    <3>1. CASE j = i
      BY <1>4, <3>1
    <3>2. CASE j # i
      BY <1>4, <3>2
    <3> QED BY <3>1, <3>2
  <2>3. j \in Active <=> (j = i \/ ring[j].f) /\ seen(j)
    <3> HIDE DEF seen, then
    <3> QED BY <2>1, <2>2 DEF Seen
  <2>4. j \in Active => found[j] = Seekhash(Append(then(j), At(i)))
    <3> HIDE DEF then
    <3> QED BY <2>2
  <2> QED BY <2>1, <2>2, <2>3, <2>4
<1> HIDE DEF here, seen, then, Dropped
<1>6. ASSUME NEW j \in DOMAIN ring
      PROVE  /\ ring'[j].f => j = i \/ ring[j].f
             /\ (j = i \/ ring[j].f) /\ seen(j) => ring'[j].chars = Append(then(j), At(i))
             /\ flg'[j \div GROUP] # {} => seen(j)
  <2>1. CASE j \in Active
    <3>1. ring'[j] = [f |-> j \notin Dropped, chars |-> Append(then(j), At(i))]
      BY <1>1, <1>5, <2>1
    <3>2. ring'[j].chars = Append(then(j), At(i))
      BY ONLY <3>1
    <3> QED BY <1>5, <2>1, <3>2
  <2>2. CASE j \notin Active
    <3>1. ring'[j] = fresh[j]
      BY <1>1, <2>2
    <3>2. flg'[j \div GROUP] \subseteq raised[j \div GROUP]
      BY <1>1, <1>4
    <3> QED BY <1>5, <2>2, <3>1, <3>2
  <2> QED BY <2>1, <2>2
<1>7. ASSUME NEW k \in Positions, Hits(k)
      PROVE  /\ k \in 0 .. RING - 1 /\ (k = i \/ ring[k].f) /\ seen(k)
             /\ w'[k] = (i - k + 1) % RING
             /\ v'[k] = Seekhash(Append(then(k), At(i))) /\ v'[k] \in 0 .. 14
  <2>1. k % RING \in Active /\ k = Start(k % RING) /\ found[k % RING] \in 0 .. 14
    BY <1>7
  <2>2. k \in 0 .. RING - 1
    <3>1. k \in Nat /\ k % RING \in Int
      BY <1>2, Sizes DEF Positions
    <3>2. (i - (k % RING)) % RING \in 0 .. RING - 1
      <4>1. i - (k % RING) \in Int /\ RING \in Nat \ {0}
        BY <1>2, <3>1, Sizes
      <4> QED BY ONLY <4>1, ModRange
    <3>3. k = i - ((i - (k % RING)) % RING)
      BY <2>1 DEF Start
    <3> QED BY <1>2, <3>1, <3>2, <3>3, Sizes
  <2>3. k % RING = k
    BY <2>2, Sizes
  <2>4. w'[k] = (i - k + 1) % RING /\ v'[k] = found[k]
    BY <1>1, <1>7, <2>3
  <2> HIDE DEF Hits, Active, found
  <2> QED BY <1>2, <1>5, <2>1, <2>2, <2>3, <2>4
<1>8. ASSUME NEW k \in Positions, ~ Hits(k) PROVE w'[k] = w[k] /\ v'[k] = v[k]
  BY <1>1, <1>8
<1> HIDE DEF Hits
<1> QED BY <1>2, <1>6, <1>7, <1>8 DEF seen, then

\* ... and that what it records later does not end in the first round.
LEMMA LaterRounds ==
  ASSUME IndInv, ScanChar, i >= RING, NEW k \in Positions
  PROVE  \/ w'[k] = w[k] /\ v'[k] = v[k]
         \/ w'[k] = 0 \/ k + w'[k] > RING
<1>1. \/ w'[k] = w[k] /\ v'[k] = v[k]
      \/ w'[k] = (i - k + 1) % RING /\ k = Start(k % RING)
  BY DEF ScanChar
<1>2. i \in Nat /\ k \in Nat /\ RING \in Nat \ {0}
  BY SizeNat, Sizes DEF IndInv, TypeOK, Positions
<1>3. CASE w'[k] = (i - k + 1) % RING /\ k = Start(k % RING)
  <2> DEFINE d == (i - (k % RING)) % RING
             e == d + 1
  <2>1. k % RING \in Int
    BY <1>2
  <2>2. d \in 0 .. RING - 1
    BY <1>2, <2>1, ModRange
  <2>3. k = i - d
    BY <1>3 DEF Start
  <2>4. i - k + 1 = e
    BY <1>2, <2>2, <2>3
  <2> HIDE DEF d
  <2>5. e \in 1 .. RING
    BY <1>2, <2>2
  <2>6. e % RING = IF e = RING THEN 0 ELSE e
    <3> HIDE DEF e
    <3> QED BY <1>2, <2>5
  <2>7. w'[k] = IF e = RING THEN 0 ELSE e
    BY <1>3, <2>4, <2>6
  <2>8. k + e = i + 1
    BY <1>2, <2>2, <2>3
  <2>9. k + e > RING
    BY <1>2, <2>5, <2>8
  <2> QED BY <2>7, <2>9
<1> QED BY <1>1, <1>3

\* A character that is scanned is visible.
LEMMA CharVisible ==
  ASSUME IndInv, MarkupFollowed, SimpleMarkup, KeptLast, ScanChar
  PROVE  /\ keep = None /\ i \in Positions /\ ~ Hidden(i) /\ ~ Markup(i)
         /\ \A b \in 0 .. i : ~ Opens(b)
<1>1. /\ phase = "scan" /\ i < size /\ i \in Nat /\ size \in Nat /\ At(i) # "<"
  BY SizeNat DEF ScanChar, InTagMode, SimpleMarkup, IndInv, TypeOK
<1>2. /\ i = 0 \/ ~ Markup(i - 1) \/ At(i - 1) = ">"
      /\ IF keep = None THEN \A b \in 0 .. i - 1 : ~ Opens(b)
         ELSE At(i) = "<" /\ \E b \in 0 .. i - 1 : KeptFrom(b, i)
  BY <1>1 DEF MarkupFollowed
<1>3. ~ Markup(i)
  <2> SUFFICES ASSUME NEW b \in 0 .. i, At(b) = "<", \A c \in b .. i - 1 : At(c) # ">"
               PROVE  FALSE
    BY DEF Markup
  <2>1. b \in 0 .. i - 1 /\ b # i
    BY <1>1
  <2>2. Markup(i - 1)
    BY <1>1, <2>1 DEF Markup
  <2>3. At(i - 1) # ">"
    BY <1>1, <2>1
  <2> QED BY <1>1, <1>2, <2>1, <2>2, <2>3
<1>4. \A b \in 0 .. i : ~ Opens(b)
  <2>1. ~ Opens(i)
    BY <1>1 DEF Opens, StartsTag
  <2>2. \A b \in 0 .. i : b = i \/ b \in 0 .. i - 1
    BY <1>1
  <2> QED BY <1>1, <1>2, <2>1, <2>2
<1>5. ~ Hidden(i)
  <2>1. \A b \in 0 .. i - 1 : b \in 0 .. i
    BY <1>1
  <2> QED BY <1>3, <1>4, <2>1 DEF Hidden, Kept, KeptFrom
<1> QED BY <1>1, <1>2, <1>3, <1>4, <1>5 DEF Positions

\* In the first round, what a slot that is seen holds after the character is
\* what is visible since its start.
LEMMA CharAdded ==
  ASSUME IndInv, MarkupFollowed, SimpleMarkup, KeptLast, ScanChar, i < RING,
         NEW j \in 0 .. RING - 1, j = i \/ ring[j].f,
         flg[j \div GROUP] # {} \/ i \div GROUP = j \div GROUP
  PROVE  /\ j \in 0 .. i /\ ~ Hidden(j)
         /\ Append(IF j = i THEN <<>> ELSE ring[j].chars, At(i)) = VisibleText(j, i - j + 1)
<1>1. phase = "scan" /\ i < size /\ i \in Nat
  BY DEF ScanChar, IndInv, TypeOK
<1>2. /\ i \in Positions /\ ~ Hidden(i)
  BY CharVisible
<1>3. At(i) \in STRING
  <2>1. text \in Seq(STRING) /\ i + 1 \in 1 .. Len(text)
    BY <1>1, SizeNat DEF size, IndInv, TypeOK
  <2> QED BY <2>1, ElementOfSeq DEF At
<1> DEFINE s == IF j = i THEN <<>> ELSE ring[j].chars
<1>4. /\ j \in 0 .. i /\ ~ Hidden(j)
      /\ s = VisibleText(j, i - j) /\ s \in Seq(STRING)
  <2>1. CASE j = i
    <3>1. i - j = 0 /\ s = <<>>
      BY <1>1, <2>1
    <3>2. VisibleText(j, 0) = <<>>
      BY NothingYet
    <3>3. s \in Seq(STRING)
      BY <3>1, EmptySeq
    <3>4. s = VisibleText(j, i - j)
      BY <3>1, <3>2
    <3> QED BY <1>1, <1>2, <2>1, <3>3, <3>4
  <2>2. CASE j # i
    <3>1. /\ j < i /\ ~ Hidden(j) /\ ring[j].chars = VisibleText(j, i - j)
      BY <1>1, <2>2 DEF MarkupFollowed
    <3>2. ring[j].chars \in Seq(STRING)
      BY DEF IndInv, TypeOK
    <3>3. j \in 0 .. i
      BY <1>1, <3>1
    <3>4. s = ring[j].chars
      BY <2>2
    <3> QED BY <3>1, <3>2, <3>3, <3>4
  <2> QED BY <2>1, <2>2
<1> DEFINE n == i - j
<1>5. n \in Nat /\ j + n = i /\ j \in Int
  <2>1. i \in Nat /\ j \in 0 .. i
    BY <1>1, <1>4
  <2> QED BY ONLY <2>1
<1>6. s = VisibleText(j, n)
  BY <1>4
<1> HIDE DEF n, s
<1>7. VisibleText(j, n + 1) = Append(VisibleText(j, n), At(j + n))
  BY <1>2, <1>3, <1>4, <1>5, <1>6, OneMore
<1>8. Append(s, At(i)) = VisibleText(j, n + 1)
  BY <1>5, <1>6, <1>7
<1> QED BY <1>4, <1>8 DEF n, s

\* A hit of the dictionary is a word.
LEMMA HitIsWord ==
  ASSUME NEW h, Seekhash(h) \in 0 .. 14
  PROVE  h \in DOMAIN dict /\ Seekhash(h) = dict[h]
<1>1. Seekhash(h) = IF h \in DOMAIN dict THEN dict[h] ELSE IF Registered(dict, h) THEN 15 ELSE -1
  BY DEF Seekhash, Lookup
<1> QED BY <1>1

LEMMA CharMatches ==
  ASSUME IndInv, MarkupFollowed, SimpleMarkup, KeptLast, ScanChar
  PROVE  VisibleMatches'
<1>1. phase = "scan" /\ i < size /\ i \in Nat /\ UNCHANGED <<text, dict>> /\ VisibleMatches
  BY DEF ScanChar, args, IndInv, TypeOK, MarkupFollowed
<1>2. /\ Positions' = Positions /\ \A k : Hidden(k)' <=> Hidden(k)
      /\ \A k, n : VisibleText(k, n)' = VisibleText(k, n)
  BY <1>1, SameText
<1>3. SUFFICES ASSUME NEW k \in Positions, w'[k] # 0, k + w'[k] <= RING
               PROVE  VisibleMatch(k)'
  BY <1>2 DEF VisibleMatches
<1>4. CASE w'[k] = w[k] /\ v'[k] = v[k]
  <2>1. VisibleMatch(k)
    BY <1>1, <1>3, <1>4 DEF VisibleMatches
  <2> QED BY <1>1, <1>2, <1>4, <2>1 DEF VisibleMatch
<1>5. CASE ~ (w'[k] = w[k] /\ v'[k] = v[k])
  <2>1. i < RING
    <3>1. ASSUME i >= RING PROVE FALSE
      <4>1. w'[k] = 0 \/ k + w'[k] > RING
        BY <1>5, <3>1, LaterRounds
      <4>2. k + w'[k] \in Int /\ RING \in Int
        <5>1. TypeOK'
          BY ScanCharStep DEF IndInv
        <5>2. w'[k] \in 0 .. RING - 1
          BY <1>2, <5>1 DEF TypeOK
        <5> QED BY <5>2, Sizes DEF Positions
      <4> QED BY <1>3, <4>1, <4>2
    <3> QED BY <1>1, <3>1, Sizes
  <2> DEFINE h == Append(IF k = i THEN <<>> ELSE ring[k].chars, At(i))
  <2>2. /\ k \in 0 .. RING - 1 /\ (k = i \/ ring[k].f)
        /\ flg[k \div GROUP] # {} \/ i \div GROUP = k \div GROUP
        /\ w'[k] = (i - k + 1) % RING
        /\ v'[k] = Seekhash(h) /\ v'[k] \in 0 .. 14
    BY <1>5, <2>1, FirstRound
  <2>3. k \in 0 .. i /\ ~ Hidden(k) /\ h = VisibleText(k, i - k + 1)
    BY <2>1, <2>2, CharAdded
  <2> HIDE DEF h
  <2>4. h \in DOMAIN dict /\ v'[k] = dict[h]
    BY <2>2, HitIsWord
  <2>5. w'[k] = i - k + 1
    <3> DEFINE d == i - k + 1
    <3>1. d \in 1 .. RING /\ RING \in Nat \ {0}
      BY <1>1, <2>1, <2>3, Sizes
    <3>2. w'[k] = d % RING
      BY <2>2
    <3> HIDE DEF d
    <3>3. d % RING = IF d = RING THEN 0 ELSE d
      BY ONLY <3>1
    <3>4. w'[k] = d
      BY <1>3, <3>2, <3>3
    <3> QED BY <3>4 DEF d
  <2>6. VisibleText(k, w[k])' = VisibleText(k, w'[k])
    BY <1>2
  <2>7. VisibleText(k, w[k])' = h
    BY <2>3, <2>5, <2>6
  <2>8. Hidden(k)' <=> Hidden(k)
    BY <1>2
  <2> QED BY <1>1, <2>3, <2>4, <2>7, <2>8 DEF VisibleMatch
<1> QED BY <1>4, <1>5

\* A character leaves the scan in visible text.
LEMMA ScanCharMarkup ==
  ASSUME IndInv, MarkupFollowed, SimpleMarkup, KeptLast, ScanChar
  PROVE  MarkupFollowed'
<1>1. /\ phase = "scan" /\ i < size /\ i \in Nat /\ size \in Nat /\ i' = i + 1
      /\ keep' = keep /\ text' = text
  BY SizeNat DEF ScanChar, args, IndInv, TypeOK
<1>2. /\ size' = size
      /\ \A k : At(k)' = At(k) /\ (Markup(k)' <=> Markup(k)) /\ (Opens(k)' <=> Opens(k))
      /\ \A b, k : KeptFrom(b, k)' <=> KeptFrom(b, k)
      /\ \A k : Hidden(k)' <=> Hidden(k)
      /\ \A k, n : VisibleText(k, n)' = VisibleText(k, n)
  BY <1>1, SameText
<1>3. /\ keep = None /\ ~ Hidden(i) /\ ~ Markup(i) /\ \A b \in 0 .. i : ~ Opens(b)
  BY CharVisible
<1>4. i' - 1 = i
  BY <1>1
<1>5. VisibleMatches'
  BY CharMatches
<1>6. /\ ~ Markup(i - 1)' /\ keep' = None /\ \A b \in 0 .. i' - 1 : ~ Opens(b)'
  <2>1. Markup(i - 1)' <=> Markup(i' - 1)
    BY <1>2
  <2>2. ~ Markup(i' - 1)
    BY <1>3, <1>4
  <2> QED BY <1>1, <1>2, <1>3, <1>4, <2>1, <2>2
<1>7. ASSUME i' < RING, NEW j \in 0 .. RING - 1, ring'[j].f
      PROVE  /\ j < i' /\ ~ Hidden(j)'
             /\ flg'[j \div GROUP] # {} \/ i' \div GROUP = j \div GROUP =>
                  ring'[j].chars = VisibleText(j, i - j)'
  <2>1. i < RING
    BY <1>1, <1>7, Sizes
  <2> DEFINE seen == flg[j \div GROUP] # {} \/ i \div GROUP = j \div GROUP
             then == IF j = i THEN <<>> ELSE ring[j].chars
  <2>2. /\ ring'[j].f => j = i \/ ring[j].f
        /\ (j = i \/ ring[j].f) /\ seen => ring'[j].chars = Append(then, At(i))
        /\ flg'[j \div GROUP] # {} => seen
    BY <2>1, FirstRound
  <2>3. j = i \/ ring[j].f
    BY <1>7, <2>2
  <2>4. j \in 0 .. i /\ ~ Hidden(j)
    <3>1. j # i => j < i /\ ~ Hidden(j)
      BY <1>1, <2>1, <2>3 DEF MarkupFollowed
    <3> QED BY <1>1, <1>3, <3>1
  <2>5. i' \div GROUP = j \div GROUP => seen
    <3>1. j \div GROUP <= i \div GROUP /\ i \div GROUP <= (i + 1) \div GROUP
      BY <1>1, <2>4, Sizes, DivRises
    <3>2. i \div GROUP \in Int /\ j \div GROUP \in Int
      BY <1>1, <2>4, Sizes
    <3> QED BY <1>1, <3>1, <3>2
  <2>6. seen => ring'[j].chars = VisibleText(j, i - j + 1)
    BY <2>1, <2>2, <2>3, CharAdded
  <2>7. i' - j = i - j + 1
    BY <1>1, <2>4
  <2>8. VisibleText(j, i - j)' = VisibleText(j, i - j + 1)
    <3>1. VisibleText(j, i - j)' = VisibleText(j, i' - j)
      BY <1>2
    <3> QED BY <2>7, <3>1
  <2>9. Hidden(j)' <=> Hidden(j)
    BY <1>2
  <2>10. j < i'
    BY <1>1, <2>4
  <2> QED BY <2>2, <2>4, <2>5, <2>6, <2>8, <2>9, <2>10
<1>8. /\ i' = 0 \/ ~ Markup(i - 1)' \/ At(i - 1)' = ">"
      /\ IF keep' = None THEN \A b \in 0 .. i' - 1 : ~ Opens(b)'
         ELSE At(i)' = "<" /\ \E b \in 0 .. i' - 1 : KeptFrom(b, i)'
  BY <1>6
<1> QED BY <1>5, <1>7, <1>8 DEF MarkupFollowed

\* What is known at a `<' that the scan meets: a tag starts there.
LEMMA AtTag ==
  ASSUME IndInv, MarkupFollowed, SimpleMarkup, KeptLast, phase = "scan", i < size, At(i) = "<"
  PROVE  /\ StartsTag(i)
         /\ TagEnd[i + 1] \in i + 1 .. size
         /\ \A c \in i .. TagEnd[i + 1] - 1 : At(c) # ">"
         /\ TagEnd[i + 1] < size => At(TagEnd[i + 1]) = ">"
         /\ \A p \in i .. TagEnd[i + 1] : Markup(p)
         /\ \A p \in i + 1 .. TagEnd[i + 1] : ~ StartsTag(p)
<1>1. i \in Nat /\ size \in Nat /\ text \in Seq(STRING) /\ i + 1 \in 0 .. size
  BY SizeNat DEF IndInv, TypeOK
<1>2. i = 0 \/ ~ Markup(i - 1) \/ At(i - 1) = ">"
  BY DEF MarkupFollowed
<1>3. StartsTag(i)
  BY <1>2 DEF StartsTag
<1> DEFINE e == TagEnd[i + 1]
<1>4. /\ e \in i + 1 .. size /\ \A c \in i + 1 .. e - 1 : At(c) # ">"
      /\ e < size => At(e) = ">"
  BY <1>1, FirstClose
<1> HIDE DEF e
<1>5. \A c \in i .. e - 1 : At(c) # ">"
  <2>1. \A c \in i .. e - 1 : c = i \/ c \in i + 1 .. e - 1
    BY <1>1, <1>4
  <2> QED BY <1>4, <2>1
<1>6. e \in Int
  BY <1>1, <1>4
<1>7. (\A p \in i .. e : Markup(p)) /\ \A p \in i + 1 .. e : ~ StartsTag(p)
  BY <1>1, <1>5, <1>6, InsideTag
<1> QED BY <1>3, <1>4, <1>5, <1>7 DEF e

\* A step that only moves on, over hidden text.
LEMMA OverHidden ==
  ASSUME IndInv, MarkupFollowed, SimpleMarkup, KeptLast, phase = "scan", i < size,
         UNCHANGED <<text, dict, ring, flg, w, v>>, i' \in Nat, i < i',
         i' < size =>
           /\ ~ Markup(i' - 1) \/ At(i' - 1) = ">"
           /\ IF keep' = None THEN \A b \in 0 .. i' - 1 : ~ Opens(b)
              ELSE At(i') = "<" /\ \E b \in 0 .. i' - 1 : KeptFrom(b, i')
           /\ \A p \in i .. i' - 1 : Hidden(p)
  PROVE  MarkupFollowed'
<1>1. i \in Nat /\ size \in Nat
  BY SizeNat DEF IndInv, TypeOK
<1>2. /\ size' = size
      /\ \A k : At(k)' = At(k) /\ (Markup(k)' <=> Markup(k)) /\ (Opens(k)' <=> Opens(k))
      /\ \A b, k : KeptFrom(b, k)' <=> KeptFrom(b, k)
      /\ \A k : Hidden(k)' <=> Hidden(k)
      /\ \A k, n : VisibleText(k, n)' = VisibleText(k, n)
  BY SameText
<1>3. VisibleMatches'
  BY KeptMatches DEF MarkupFollowed
<1>4. ASSUME i' < size
      PROVE  /\ i' = 0 \/ ~ Markup(i - 1)' \/ At(i - 1)' = ">"
             /\ IF keep' = None THEN \A b \in 0 .. i' - 1 : ~ Opens(b)'
                ELSE At(i)' = "<" /\ \E b \in 0 .. i' - 1 : KeptFrom(b, i)'
  <2>1. (Markup(i - 1)' <=> Markup(i' - 1)) /\ At(i - 1)' = At(i' - 1) /\ At(i)' = At(i')
    BY <1>2
  <2>2. \A b : KeptFrom(b, i)' <=> KeptFrom(b, i')
    BY <1>2
  <2> QED BY <1>2, <1>4, <2>1, <2>2
<1>5. ASSUME i' < size, i' < RING, NEW j \in 0 .. RING - 1, ring'[j].f
      PROVE  /\ j < i' /\ ~ Hidden(j)'
             /\ flg'[j \div GROUP] # {} \/ i' \div GROUP = j \div GROUP =>
                  ring'[j].chars = VisibleText(j, i - j)'
  <2>1. i < RING /\ ring[j].f
    BY <1>1, <1>5, Sizes
  <2>2. /\ j < i /\ ~ Hidden(j)
        /\ flg[j \div GROUP] # {} \/ i \div GROUP = j \div GROUP =>
             ring[j].chars = VisibleText(j, i - j)
    BY <2>1 DEF MarkupFollowed
  <2>3. i' \div GROUP = j \div GROUP => i \div GROUP = j \div GROUP
    <3>1. j \div GROUP <= i \div GROUP /\ i \div GROUP <= i' \div GROUP
      <4>1. GROUP \in Nat \ {0} /\ j \in Int /\ i \in Int /\ i' \in Int /\ j <= i /\ i <= i'
        BY <1>1, <2>2, Sizes
      <4> QED BY ONLY <4>1, DivRises
    <3>2. i \div GROUP \in Int /\ j \div GROUP \in Int
      BY <1>1, Sizes
    <3> QED BY <3>1, <3>2
  <2>4. VisibleText(j, i - j)' = VisibleText(j, i - j)
    <3> DEFINE n == i - j
               m == i' - j
    <3>1. n \in Nat /\ m \in Nat /\ n <= m /\ j \in Int /\ j + n = i /\ j + m = i'
      BY <1>1, <2>2
    <3>2. VisibleText(j, i - j)' = VisibleText(j, m)
      BY <1>2
    <3> HIDE DEF n, m
    <3>3. \A p \in j + n .. j + m - 1 : Hidden(p)
      <4>1. \A p \in i .. i' - 1 : Hidden(p)
        BY <1>5
      <4>2. j + m - 1 = i' - 1
        <5> DEFINE x == i'
        <5>1. x \in Int /\ m \in Int /\ j \in Int /\ j + m = x
          BY <3>1
        <5> HIDE DEF x
        <5>2. j + m - 1 = x - 1
          BY ONLY <5>1
        <5> QED BY <5>2 DEF x
      <4> QED BY <3>1, <4>1, <4>2
    <3>4. VisibleText(j, m) = VisibleText(j, n)
      BY <3>1, <3>3, NothingMore
    <3> QED BY <3>2, <3>4 DEF n
  <2>5. Hidden(j)' <=> Hidden(j)
    BY <1>2
  <2>6. j < i'
    BY <1>1, <2>2
  <2> QED BY <2>2, <2>3, <2>4, <2>5, <2>6
<1> QED BY <1>2, <1>3, <1>4, <1>5 DEF MarkupFollowed

LEMMA CloseKeptMarkup ==
  ASSUME IndInv, MarkupFollowed, SimpleMarkup, KeptLast, CloseKept
  PROVE  MarkupFollowed'
<1>1. /\ phase = "scan" /\ i < size /\ i \in Nat /\ size \in Nat /\ At(i) = "<"
      /\ UNCHANGED <<text, dict, ring, flg, w, v>>
      /\ keep # None /\ keep \in KeepTags
      /\ i' = i + 1 + (Len(keep) + 2) + 1
  BY SizeNat DEF CloseKept, args, InTagMode, IsKeepEnd, IndInv, TypeOK
<1>2. Len(keep) \in Nat
  BY <1>1, TagNames
<1>3. EndsElement(i, keep)
  <2> DEFINE l == Len(keep)
  <2>1. /\ i + 1 + l + 1 < size /\ At(i + 1) = "/"
        /\ SubSeq(text, i + 1 + 2, i + 1 + 1 + l) = keep /\ At(i + 1 + l + 1) = ">"
    BY DEF CloseKept, IsKeepEnd
  <2>2. l \in Nat
    BY <1>2
  <2> HIDE DEF l
  <2>3. /\ i + 1 + 2 = i + 3 /\ i + 1 + 1 + l = i + l + 2 /\ i + 1 + l + 1 = i + l + 2
        /\ i + l + 3 <= size
    BY <1>1, <2>1, <2>2
  <2>4. /\ i + l + 3 <= size /\ At(i + 1) = "/"
        /\ SubSeq(text, i + 3, i + l + 2) = keep /\ At(i + l + 2) = ">"
    BY <2>1, <2>3
  <2> QED BY <2>4 DEF EndsElement, l
<1>4. StartsTag(i)
  BY <1>1, AtTag
<1>5. size = i + Len(keep) + 3
  BY <1>1, <1>3, <1>4 DEF KeptLast, Positions
<1>6. i' \in Nat /\ i < i' /\ ~ (i' < size)
  <2> DEFINE l == Len(keep)
  <2>1. l \in Nat /\ i' = i + 1 + (l + 2) + 1 /\ size = i + l + 3
    BY <1>1, <1>2, <1>5
  <2> HIDE DEF l
  <2> QED BY <1>1, <2>1
<1> QED BY <1>1, <1>6, OverHidden

\* In a text with simple markup there are no comments.
LEMMA NoComment ==
  ASSUME IndInv, SimpleMarkup, SkipComment
  PROVE  FALSE
<1>1. i + 1 \in Positions /\ At(i + 1) = "!"
  BY SizeNat DEF SkipComment, IsComment, IndInv, TypeOK, Positions
<1> QED BY <1>1, Zenon DEF SimpleMarkup

\* The name of a tag is empty, or has a length.
LEMMA NameFacts ==
  ASSUME text \in Seq(STRING), NEW p \in Nat
  PROVE  NameLen(p) \in Nat /\ (NameLen(p) = 0 => Name(p) = <<>>)
<1> DEFINE L == {n \in 0 .. MAXNAME : n = MAXNAME \/ p + n >= size \/ At(p + n) \notin Letters}
<1>1. L \subseteq Nat /\ MAXNAME \in L
  BY DEF MAXNAME
<1>2. Min(L) \in L
  BY <1>1, MinNat
<1>3. NameLen(p) \in Nat
  BY <1>1, <1>2 DEF NameLen
<1>4. ASSUME NameLen(p) = 0 PROVE Name(p) = <<>>
  <2>1. Name(p) = SubSeq(text, p + 1, p)
    BY <1>4 DEF Name
  <2> QED BY <2>1, SubSeqEmpty
<1> QED BY <1>3, <1>4

\* The end of a kept element is the end of the text, and of the tag.
LEMMA EndIsLast ==
  ASSUME IndInv, MarkupFollowed, SimpleMarkup, KeptLast, phase = "scan", i < size, At(i) = "<",
         Closes(i)
  PROVE  TagEnd[i + 1] >= size - 1
<1>1. i \in Nat /\ size \in Nat /\ text \in Seq(STRING) /\ i \in Positions
  BY SizeNat DEF IndInv, TypeOK, Positions
<1>2. PICK n \in KeepTags : EndsElement(i, n)
  BY DEF Closes
<1>3. size = i + Len(n) + 3
  BY <1>1, <1>2 DEF Closes, KeptLast
<1> DEFINE l == Len(n)
           e == TagEnd[i + 1]
<1>4. /\ l \in Nat /\ n \in Seq(STRING) /\ \A m \in 1 .. l : n[m] # ">"
  BY TagNames
<1>5. e \in i + 1 .. size /\ (e < size => At(e) = ">")
  BY <1>1, AtTag
<1> HIDE DEF l, e
<1>6. /\ size = i + l + 3 /\ At(i + 1) = "/" /\ SubSeq(text, i + 3, i + l + 2) = n
  BY <1>2, <1>3 DEF EndsElement, l
<1>7. ASSUME e < size - 1 PROVE FALSE
  <2>1. At(e) = ">" /\ e # i + 1
    BY <1>1, <1>5, <1>6, <1>7
  <2> DEFINE m == e - i - 1
             x == i + 3
             y == i + l + 2
  <2>2. m \in 1 .. l /\ x + m - 1 = e + 1 /\ m \in 1 .. y - x + 1
    BY <1>1, <1>4, <1>5, <1>6, <1>7, <2>1
  <2>3. x \in Nat /\ x >= 1 /\ y \in Nat /\ y <= Len(text) /\ x - 1 <= y
    BY <1>1, <1>4, <1>6 DEF size
  <2>4. n = SubSeq(text, x, y)
    BY <1>6
  <2> HIDE DEF m, x, y
  <2>5. SubSeq(text, x, y)[m] = text[x + m - 1]
    BY <1>1, <2>2, <2>3
  <2>6. n[m] = At(e)
    BY <2>2, <2>4, <2>5 DEF At
  <2> QED BY <1>4, <2>1, <2>2, <2>6
<1>8. e >= size - 1
  BY <1>1, <1>5, <1>7
<1> QED BY <1>8 DEF e

LEMMA SkipTagMarkup ==
  ASSUME IndInv, MarkupFollowed, SimpleMarkup, KeptLast, SkipTag
  PROVE  MarkupFollowed'
<1> DEFINE e == TagEnd[i + 1]
           f == Find(e, {"<"})
           known == NameLen(i + 1) > 0 /\ keep = None /\ Name(i + 1) \in KeepTags
<1>1. /\ phase = "scan" /\ i < size /\ i \in Nat /\ size \in Nat /\ At(i) = "<"
      /\ text \in Seq(STRING) /\ i + 1 \in 0 .. size
      /\ UNCHANGED <<text, dict, ring, flg, w, v>>
      /\ keep' = (IF known THEN Name(i + 1) ELSE keep)
      /\ i' = (IF keep' # None THEN f ELSE e + 1)
  BY SizeNat DEF SkipTag, args, InTagMode, IndInv, TypeOK
<1>2. /\ i = 0 \/ ~ Markup(i - 1) \/ At(i - 1) = ">"
      /\ keep = None => \A b \in 0 .. i - 1 : ~ Opens(b)
      /\ keep # None => \E b \in 0 .. i - 1 : KeptFrom(b, i)
  BY <1>1 DEF MarkupFollowed
<1>3. /\ StartsTag(i) /\ e \in i + 1 .. size /\ (e < size => At(e) = ">")
      /\ \A p \in i .. e : Markup(p)
      /\ \A p \in i + 1 .. e : ~ StartsTag(p)
  BY <1>1, AtTag
<1>4. e \in 0 .. size
  BY <1>1, <1>3
<1>5. /\ f \in e .. size /\ (\A c \in e .. f - 1 : At(c) # "<") /\ (f < size => At(f) = "<")
  BY <1>1, <1>4, NextTag
<1>6. known <=> keep = None /\ Opens(i)
  <2>1. NameLen(i + 1) \in Nat /\ (NameLen(i + 1) = 0 => Name(i + 1) = <<>>)
    BY SMTT(20), <1>1, NameFacts
  <2>2. Name(i + 1) \in KeepTags => NameLen(i + 1) > 0
    BY <2>1, TagNames
  <2> QED BY <1>3, <2>2 DEF Opens
<1>7. known => Name(i + 1) # None
  BY TagNames
<1>8. Closes(i) => e >= size - 1
  BY <1>1, EndIsLast
<1> HIDE DEF e, f, known
<1>9. CASE keep' = None
  <2>1. keep = None /\ ~ Opens(i) /\ i' = e + 1
    BY <1>1, <1>6, <1>7, <1>9
  <2>2. i' \in Nat /\ i < i' /\ i' - 1 = e
    BY <1>1, <1>3, <2>1
  <2>3. ASSUME i' < size
        PROVE  /\ At(i' - 1) = ">"
               /\ \A b \in 0 .. i' - 1 : ~ Opens(b)
               /\ \A p \in i .. i' - 1 : Hidden(p)
    <3>1. At(i' - 1) = ">"
      BY <1>1, <1>3, <2>1, <2>2, <2>3
    <3>2. ASSUME NEW b \in 0 .. e PROVE ~ Opens(b)
      <4>1. b \in 0 .. i - 1 \/ b = i \/ b \in i + 1 .. e
        BY <1>1, <1>3
      <4> QED BY <1>2, <1>3, <2>1, <4>1 DEF Opens
    <3>3. \A p \in i .. e : Hidden(p)
      BY <1>3 DEF Hidden
    <3> QED BY <2>2, <3>1, <3>2, <3>3
  <2> QED BY <1>1, <1>9, <2>2, <2>3, OverHidden
<1>10. CASE keep' # None
  <2>1. i' = f
    BY <1>1, <1>10
  <2>2. f \in Nat /\ e \in Nat /\ i < f
    BY <1>1, <1>3, <1>5
  <2>3. ASSUME f < size
        PROVE  /\ ~ Markup(f - 1) \/ At(f - 1) = ">"
               /\ At(f) = "<" /\ \E b \in 0 .. f - 1 : KeptFrom(b, f)
               /\ \A p \in i .. f - 1 : Hidden(p)
    <3>1. At(e) = ">" /\ At(f) = "<" /\ e < f
      <4>1. At(e) = ">" /\ At(f) = "<"
        BY <1>1, <1>3, <1>5, <2>3
      <4>2. e # f
        BY <4>1
      <4> QED BY <1>1, <1>5, <2>2, <4>1, <4>2
    <3>2. ~ Markup(f - 1) \/ At(f - 1) = ">"
      BY <1>5, <2>2, <3>1, OutsideTag
    <3>3. ~ Closes(i)
      BY <1>1, <1>8, <2>2, <2>3, <3>1
    <3>4. ASSUME NEW c \in i + 1 .. f - 1 PROVE ~ Closes(c)
      <4>1. c \in i + 1 .. e \/ c \in e .. f - 1
        BY <1>1, <2>2
      <4> QED BY <1>3, <1>5, <4>1 DEF Closes, StartsTag
    <3>5. PICK b \in 0 .. i : Opens(b) /\ \A c \in b + 1 .. i - 1 : ~ Closes(c)
      <4>1. CASE known
        <5>1. Opens(i) /\ \A c \in i + 1 .. i - 1 : ~ Closes(c)
          BY <1>1, <1>6, <4>1
        <5>2. i \in 0 .. i
          BY <1>1
        <5> QED BY <5>1, <5>2
      <4>2. CASE ~ known
        <5>1. keep # None
          BY <1>1, <1>10, <4>2
        <5>2. PICK b \in 0 .. i - 1 : KeptFrom(b, i)
          BY <1>2, <5>1
        <5>3. b \in 0 .. i
          BY <1>1
        <5> QED BY <5>2, <5>3 DEF KeptFrom
      <4> QED BY <4>1, <4>2
    <3>6. ASSUME NEW c \in b + 1 .. f - 1 PROVE ~ Closes(c)
      <4>1. c \in b + 1 .. i - 1 \/ c = i \/ c \in i + 1 .. f - 1
        BY <1>1, <2>2
      <4> QED BY <3>3, <3>4, <3>5, <4>1
    <3>7. b \in 0 .. f - 1 /\ KeptFrom(b, f)
      <4>1. b \in 0 .. f - 1
        BY <1>1, <2>2
      <4> QED BY <3>5, <3>6, <4>1 DEF KeptFrom
    <3>8. ASSUME NEW p \in i .. f - 1 PROVE Hidden(p)
      <4>1. CASE p <= e
        <5>1. p \in i .. e
          BY <1>1, <2>2, <4>1
        <5> QED BY <1>3, <5>1 DEF Hidden
      <4>2. CASE p > e
        <5>1. b \in 0 .. p - 1 /\ \A c \in b + 1 .. p - 1 : c \in b + 1 .. f - 1
          BY <1>1, <1>3, <2>2, <4>2
        <5>2. KeptFrom(b, p)
          BY <3>5, <3>6, <5>1 DEF KeptFrom
        <5> QED BY <5>1, <5>2 DEF Hidden, Kept
      <4> QED BY <1>1, <2>2, <4>1, <4>2
    <3> QED BY <3>1, <3>2, <3>7, <3>8
  <2>4. i' \in Nat /\ i < i'
    BY <2>1, <2>2
  <2>5. i' < size =>
          /\ ~ Markup(i' - 1) \/ At(i' - 1) = ">"
          /\ At(i') = "<" /\ \E b \in 0 .. i' - 1 : KeptFrom(b, i')
          /\ \A p \in i .. i' - 1 : Hidden(p)
    BY <2>1, <2>3
  <2> QED BY <1>1, <1>10, <2>4, <2>5, OverHidden
<1> QED BY <1>9, <1>10

\* Before the first character nothing is followed and nothing recorded.
LEMMA InitMarkup == Init => MarkupFollowed
<1> SUFFICES ASSUME Init PROVE MarkupFollowed
  OBVIOUS
<1>1. /\ i = 0 /\ keep = None /\ \A b \in 0 .. i - 1 : FALSE
      /\ \A j \in 0 .. RING - 1 : ~ ring[j].f
      /\ \A k \in Positions : w[k] = 0
  BY DEF Init, FreeSlot
<1> QED BY <1>1 DEF MarkupFollowed, VisibleMatches

LEMMA NextMarkup ==
  ASSUME IndInv, MarkupFollowed, MatchesVisibleText, [Next]_vars
  PROVE  MarkupFollowed' /\ MatchesVisibleText'
<1>0. UNCHANGED <<text, dict, mode>>
  BY DEF Next, vars, args, ScanChar, SkipComment, CloseKept, SkipTag, EndScan, Count,
         Allocate, Store, Finish, Refuse, AllocateFails
<1>1. (SimpleMarkup' <=> SimpleMarkup) /\ (KeptLast' <=> KeptLast)
  BY <1>0, SameText DEF SimpleMarkup
<1>2. CASE ~ (SimpleMarkup /\ KeptLast)
  BY <1>1, <1>2 DEF MarkupFollowed, MatchesVisibleText
<1>3. ASSUME SimpleMarkup, KeptLast, ScanChar \/ SkipComment \/ CloseKept \/ SkipTag
      PROVE  MarkupFollowed' /\ MatchesVisibleText'
  <2>1. MarkupFollowed'
    BY <1>3, ScanCharMarkup, NoComment, CloseKeptMarkup, SkipTagMarkup
  <2>2. phase' = "scan"
    BY <1>3 DEF ScanChar, SkipComment, CloseKept, SkipTag, args
  <2> QED BY <2>1, <2>2 DEF MatchesVisibleText, Scanned
<1>4. ASSUME SimpleMarkup, KeptLast, EndScan
      PROVE  MarkupFollowed' /\ MatchesVisibleText'
  <2>1. phase = "scan" /\ phase' = "count" /\ UNCHANGED <<text, dict, w, v>>
    BY <1>4 DEF EndScan, args
  <2>2. VisibleMatches'
    BY <1>4, <2>1, KeptMatches DEF MarkupFollowed
  <2> QED BY <2>1, <2>2 DEF MarkupFollowed, MatchesVisibleText
<1>5. CASE Count
  <2>1. /\ phase = "count" /\ phase' = "count" /\ i < size
        /\ i' = IF w[i] # 0 THEN i + w[i] ELSE i + 1
    BY <1>5 DEF Count
  <2>2. i \in Nat /\ w[i] \in Nat
    BY <2>1, LoopFacts
  <2>3. i' # 0
    BY <2>1, <2>2
  <2> QED BY <2>1, <2>3 DEF MarkupFollowed, MatchesVisibleText, Scanned
<1>6. CASE Allocate \/ Store \/ Finish \/ Refuse \/ AllocateFails
  BY <1>6 DEF Allocate, Store, Finish, Refuse, AllocateFails, MarkupFollowed, MatchesVisibleText, Scanned
<1>7. CASE UNCHANGED vars
  <2>1. UNCHANGED <<text, dict, phase, i, ring, flg, w, v, keep>>
    BY <1>7 DEF vars, args
  <2>2. VisibleMatches => VisibleMatches'
    BY <2>1, KeptMatches
  <2>3. /\ size' = size
        /\ \A k : At(k)' = At(k) /\ (Markup(k)' <=> Markup(k)) /\ (Opens(k)' <=> Opens(k))
        /\ \A b, k : KeptFrom(b, k)' <=> KeptFrom(b, k)
        /\ \A k : Hidden(k)' <=> Hidden(k)
        /\ \A k, n : VisibleText(k, n)' = VisibleText(k, n)
    BY <2>1, SameText
  <2>4. MarkupFollowed'
    BY <1>1, <2>1, <2>2, <2>3 DEF MarkupFollowed
  <2> QED BY <1>1, <2>1, <2>2, <2>4 DEF MatchesVisibleText, Scanned
<1> QED BY <1>2, <1>3, <1>4, <1>5, <1>6, <1>7 DEF Next

\* With MODE_HTML every match that ends in the first round of the ring is a word of
\* the visible text, in a text with no quotes and comments and with nothing behind
\* the end of a kept element (SimpleMarkup, KeptLast): the scan enters and leaves tags and kept elements where they
\* start and end, and no slot it looks at has missed a character.
THEOREM VisibleTextMatched == Spec => [](MarkupFollowed /\ MatchesVisibleText)
<1>1. Init => MarkupFollowed /\ MatchesVisibleText
  BY InitMarkup DEF Init, MatchesVisibleText, Scanned
<1>2. IndInv /\ (MarkupFollowed /\ MatchesVisibleText) /\ [Next]_vars
        => (MarkupFollowed /\ MatchesVisibleText)'
  BY NextMarkup
<1> QED BY <1>1, <1>2, Invariance, PTL DEF Spec

-----------------------------------------------------------------------------
(* Both invariants                                                         *)

\* The words of a call's dictionary are those of an input.
LEMMA CallsDictionary == Spec => [](\E a \in Inputs : dict = a.dict)
<1>1. Init => \E a \in Inputs : dict = a.dict
  BY DEF Init
<1>2. (\E a \in Inputs : dict = a.dict) /\ [Next]_vars => (\E a \in Inputs : dict = a.dict)'
  <2>1. [Next]_vars => dict' = dict
    BY DEF Next, vars, args, ScanChar, SkipComment, CloseKept, SkipTag, EndScan, Count,
           Allocate, Store, Finish, Refuse, AllocateFails
  <2> QED BY <2>1
<1> QED BY <1>1, <1>2, PTL DEF Spec

\* If no word has WIDTH characters or more, whatever may become a word is followed
\* from its start on, whatever the sizes of ring, groups and chunks (AlignAssumption);
\* with tags, every slot of the first round that is looked at has missed nothing.
THEOREM WordsFollowed == ASSUME ShortWords PROVE Spec => [](Followed /\ FindsLongestWords)
<1>1. (\E a \in Inputs : dict = a.dict) => ShortDict
  BY ScannerAssumption DEF ShortWords, ShortDict
<1>2. Init => PlainFollowed /\ FindsLongestWords
  BY InitFollowed DEF Init, FindsLongestWords, Scanned
<1>3. IndInv /\ ShortDict /\ (PlainFollowed /\ FindsLongestWords) /\ [Next]_vars
        => (PlainFollowed /\ FindsLongestWords)'
  BY NextFollowed
<1>4. PlainFollowed /\ MarkupFollowed => Followed
  BY DEF Followed
<1> QED BY <1>1, <1>2, <1>3, <1>4, Invariance, CallsDictionary, VisibleTextMatched, PTL DEF Spec

\* In plain text iword_map finds at every position the longest word that starts
\* there and nothing else: no reused slot, shared flag bit or early drop loses one.
THEOREM LongestWordsFound == ASSUME ShortWords PROVE Spec => []FindsLongestWords
<1> QED BY WordsFollowed, PTL

-----------------------------------------------------------------------------
(* What Terminates rests on                                                *)

\* Every step of the scan and of the two loops moves i on before the end of the
\* text, or ends the loop behind it, or ends the call.
Forward ==
  \/ phase' = phase /\ i < size /\ i < i' /\ size' = size
  \/ i >= size /\ <<phase, phase'>> \in {<<"scan", "count">>, <<"count", "store">>, <<"store", "done">>}
  \/ phase' = "failed"

\* No character is read twice by one of the three loops of iword_map, whatever is
\* left open in the text: each of them ends after at most size steps.
THEOREM GoesForward == Spec => [][Forward]_vars
<1>1. ASSUME IndInv, Next PROVE Forward
  <2>1. i \in Nat /\ size \in Nat /\ text \in Seq(STRING)
    BY <1>1, SizeNat DEF IndInv, TypeOK
  <2>2. CASE ScanChar
    <3>1. i < size /\ i' = i + 1 /\ UNCHANGED <<text, phase>>
      BY <2>2 DEF ScanChar, args
    <3>2. i < i'
      BY <2>1, <3>1
    <3> QED BY <3>1, <3>2 DEF Forward, size
  <2>3. CASE SkipComment
    <3>1. /\ IsComment(i + 1) /\ i' = CommentEnd(i + 1) + 1 /\ i < size
          /\ UNCHANGED <<text, phase>>
      BY <2>3 DEF SkipComment, args
    <3>2. CommentEnd(i + 1) \in Nat /\ i + 1 <= CommentEnd(i + 1)
      BY <2>1, <3>1, CommentEndForward DEF IsComment
    <3>3. i < i'
      BY <2>1, <3>1, <3>2
    <3> QED BY <3>1, <3>3 DEF Forward, size
  <2>4. CASE CloseKept
    <3>1. /\ keep \in KeepTags /\ i < size /\ UNCHANGED <<text, phase>>
          /\ i' = i + 1 + (Len(keep) + 2) + 1
      BY <1>1, <2>4 DEF CloseKept, IsKeepEnd, args, IndInv, TypeOK
    <3> DEFINE l == Len(keep)
    <3>2. l \in Nat /\ i' = i + 1 + (l + 2) + 1
      BY <3>1, TagNames
    <3> HIDE DEF l
    <3>3. i < i'
      BY <2>1, <3>2
    <3> QED BY <3>1, <3>3 DEF Forward, size
  <2>5. CASE SkipTag
    <3> DEFINE e == TagEnd[i + 1]
    <3>1. /\ i < size /\ UNCHANGED <<text, phase>>
          /\ i' = IF keep' # None THEN Find(e, {"<"}) ELSE e + 1
      BY <2>5 DEF SkipTag, args
    <3>2. i + 1 \in 0 .. size
      BY <2>1, <3>1
    <3>3. e \in Nat /\ i + 1 <= e
      BY <2>1, <3>2, TagEndForward
    <3> HIDE DEF e
    <3>4. Find(e, {"<"}) \in Nat /\ e <= Find(e, {"<"})
      BY <2>1, <3>3, FindForward
    <3>5. i < i'
      BY <2>1, <3>1, <3>3, <3>4
    <3> QED BY <3>1, <3>5 DEF Forward, size
  <2>6. CASE EndScan \/ Allocate \/ Finish \/ Refuse \/ AllocateFails
    BY <2>6 DEF EndScan, Allocate, Finish, Refuse, AllocateFails, Forward
  <2>7. CASE Count \/ Store
    <3>1. /\ i < size /\ phase \in {"count", "store"} /\ UNCHANGED <<text, phase>>
          /\ \/ i' = i + 1
             \/ w[i] # 0 /\ (i' = i + w[i] \/ i' = i + w[i] - 1 + 1)
      BY <2>7 DEF Count, Store, args
    <3>2. w[i] \in Nat
      BY <1>1, <3>1, LoopFacts
    <3>3. i < i'
      BY <2>1, <3>1, <3>2
    <3> QED BY <3>1, <3>3 DEF Forward, size
  <2> QED BY <1>1, <2>2, <2>3, <2>4, <2>5, <2>6, <2>7 DEF Next
<1>2. IndInv /\ [Next]_vars => [Forward]_vars
  BY <1>1
<1> QED BY <1>2, Invariance, PTL DEF Spec

=============================================================================
