------------------------------ MODULE HashList ------------------------------
(***************************************************************************)
(* include/iword.c: from a dictionary file to the list of hashes that is   *)
(* published (iword_load, iword_makelist), and the search in that list     *)
(* (iword_seekhash, iword_mask).                                           *)
(*                                                                         *)
(* The list is an array of 64-bit words.  First comes, in 32-bit halves,   *)
(* the number of blocks and one header for each block, which packs where   *)
(* the block begins and how many hashes it has; then the hashes, block by  *)
(* block and sorted in each; then the mask of the keys.  A string goes to  *)
(* the block `a % iword_bcount', and is told apart there by the high 60    *)
(* bits of b, the low 4 giving way to the key.  A header that is not       *)
(* written holds what malloc left there: None.                             *)
(*                                                                         *)
(* Two strings whose b agree in the high 60 bits are left out, and so are  *)
(* words longer than the 256 bytes of ss; a file may have any length.      *)
(* Failures of malloc are Fail.                                            *)
(***************************************************************************)
EXTENDS Dictionary, FiniteSets, FiniteSetsExt

CONSTANTS
  Files,              \* the dictionary files: sequences of characters
  Tab, Newline,       \* two of the characters
  Low,                \* the low four bits of each character
  Strings,            \* what may be looked up
  Hashes,             \* the hash functions, by number: records [a, b] of functions of Strings
  BSIZE,              \* IWORD_BSIZE
  None                \* what malloc left

DEFAULT == 9          \* the key of a word without one

OffsetLimit == 256 * 256 * 256     \* the offsets that a header has room for

ASSUME ListAssumption ==
  /\ Low \in [DOMAIN Low -> 0 .. 15]
  /\ {Tab, Newline} \subseteq DOMAIN Low /\ Tab # Newline
  /\ Files \subseteq Seq(DOMAIN Low)
  /\ BSIZE \in Nat \ {0} /\ None \notin Nat

\* Every word of a file fits in ss, 16 chunks of it; it can be looked up, and so
\* can its prefixes.
ASSUME StringsAssumption ==
  /\ Strings \subseteq Seq(DOMAIN Low)
  /\ \A d \in Files : \A p \in 0 .. Len(d) - 1, q \in 1 .. Len(d) :
       (p = 0 \/ d[p] = Newline) /\ p < q /\ (\A k \in p + 1 .. q : d[k] \notin {Tab, Newline})
         => q - p <= 16 * CHUNK /\ SubSeq(d, p + 1, q) \in Strings
  /\ \A s \in Strings : \A n \in 1 .. Len(s) : SubSeq(s, 1, n) \in Strings

ASSUME HashAssumption ==
  \A n \in DOMAIN Hashes :
    /\ \A s \in Strings : Hashes[n].a[s] \in Nat /\ Hashes[n].b[s] \in Nat
    /\ \A s, t \in Strings : Hashes[n].b[s] \div 16 = Hashes[n].b[t] \div 16 => s = t

VARIABLES
  data,               \* the file
  hash,               \* the number of the hash functions used
  phase,              \* "parse", "register", "sort", "store", then "built"; or "failed"
  i,                  \* the index of each loop
  list,               \* iword_load's list and f: records [word, key]
  h,                  \* iword_makelist's hashes; their word is only there for the properties
  num,                \* the block the loop is in
  ol,                 \* the headers of the blocks
  os,                 \* the hashes stored
  mask                \* the keys

vars == <<data, hash, phase, i, list, h, num, ol, os, mask>>

Init ==
  /\ data \in Files /\ hash \in DOMAIN Hashes
  /\ phase = "parse" /\ i = 0
  /\ list = <<>> /\ h = <<>>
  /\ num = -1 /\ ol = <<>> /\ os = <<>>
  /\ mask = {}

\* malloc fails, or the file is empty or cannot be read: nothing is published.
Fail ==
  /\ phase \in {"parse", "register", "sort"} /\ i = 0
  /\ phase' = "failed"
  /\ UNCHANGED <<data, hash, i, list, h, num, ol, os, mask>>

-----------------------------------------------------------------------------
(* iword_load: one line, or what stands between two '\0'.                  *)

size == Len(data)
At(p) == data[p + 1]

\* The first place from p on where the line ends.
LineEnd(p) == Min({size} \union {k \in p .. size - 1 : At(k) = Newline})

Tabs(p) == {k \in p .. LineEnd(p) - 1 : At(k) = Tab}

WordEnd(p) == IF Tabs(p) = {} THEN LineEnd(p) ELSE Min(Tabs(p))

\* `data[i] & 0xf', where i is behind the tab; a newline has become '\0'.
KeyAt(p) == IF p = size THEN DEFAULT ELSE IF At(p) = Newline THEN 0 ELSE Low[At(p)]

\* Fault: an empty line is a word too.
ParseLineEmpty ==
  /\ phase = "parse" /\ i < size
  /\ list' = Append(list, [word |-> SubSeq(data, i + 1, WordEnd(i)),
                           key |-> IF Tabs(i) = {} THEN DEFAULT ELSE KeyAt(WordEnd(i) + 1)])
  /\ i' = LineEnd(i) + 1
  /\ UNCHANGED <<data, hash, phase, h, num, ol, os, mask>>

\* Fault: the index stays at the '\0' that ends the line.
ParseLineStuck ==
  /\ phase = "parse" /\ i < size
  /\ LET word == SubSeq(data, i + 1, WordEnd(i))
         key  == IF Tabs(i) = {} THEN DEFAULT ELSE KeyAt(WordEnd(i) + 1)
     IN  list' = IF word = <<>> THEN list ELSE Append(list, [word |-> word, key |-> key])
  /\ i' = LineEnd(i)
  /\ UNCHANGED <<data, hash, phase, h, num, ol, os, mask>>

\* Fault: the key is sought behind the last tab of the line.
ParseLineLastTab ==
  /\ phase = "parse" /\ i < size
  /\ LET word == SubSeq(data, i + 1, WordEnd(i))
         key  == IF Tabs(i) = {} THEN DEFAULT ELSE KeyAt(Max(Tabs(i)) + 1)
     IN  list' = IF word = <<>> THEN list ELSE Append(list, [word |-> word, key |-> key])
  /\ i' = LineEnd(i) + 1
  /\ UNCHANGED <<data, hash, phase, h, num, ol, os, mask>>

ParseLine ==
  /\ phase = "parse" /\ i < size
  /\ LET word == SubSeq(data, i + 1, WordEnd(i))
         key  == IF Tabs(i) = {} THEN DEFAULT ELSE KeyAt(WordEnd(i) + 1)
     IN  list' = IF word = <<>> THEN list ELSE Append(list, [word |-> word, key |-> key])
  /\ i' = LineEnd(i) + 1
  /\ UNCHANGED <<data, hash, phase, h, num, ol, os, mask>>

Parsed ==
  /\ phase = "parse" /\ 0 < size /\ i >= size
  /\ phase' = "register" /\ i' = 0
  /\ UNCHANGED <<data, hash, list, h, num, ol, os, mask>>

-----------------------------------------------------------------------------
(* iword_makelist                                                          *)

\* iword_hash, and the key that is put beside it
Hashed(s, f) == [word |-> s, a |-> Hashes[hash].a[s], b |-> Hashes[hash].b[s], f |-> f]

\* The prefixes of a word whose length is a multiple of CHUNK, longest first.
ChunkPrefixes(word) ==
  LET n == (Len(word) - 1) \div CHUNK
  IN  [m \in 1 .. n |-> Hashed(SubSeq(word, 1, (n - m + 1) * CHUNK), 15)]

RegisterWord ==
  /\ phase = "register" /\ i < Len(list)
  /\ LET x == list[i + 1]
     IN  /\ h' = h \o ChunkPrefixes(x.word) \o <<Hashed(x.word, x.key)>>
         /\ mask' = mask \union {x.key}
  /\ i' = i + 1
  /\ UNCHANGED <<data, hash, phase, list, num, ol, os>>

Registering ==
  /\ phase = "register" /\ i >= Len(list)
  /\ phase' = "sort" /\ i' = 0
  /\ UNCHANGED <<data, hash, list, h, num, ol, os, mask>>

bcount == (Len(h) + BSIZE - 1) \div BSIZE

Block(x) == x.a % bcount
High(x)  == x.b \div 16

\* iword_hashcmp(&x, &y) < 0
Before(x, y) ==
  \/ Block(x) < Block(y)
  \/ /\ Block(x) = Block(y)
     /\ \/ High(x) < High(y)
        \/ High(x) = High(y) /\ x.f < y.f

\* What comes before the k-th hash when s is sorted; equal ones keep their order,
\* which nobody can tell.
Ahead(s, k) ==
  {m \in DOMAIN s : Before(s[m], s[k]) \/ (~ Before(s[k], s[m]) /\ m < k)}

Sorted(s) ==
  LET rank == [k \in DOMAIN s |-> Cardinality(Ahead(s, k)) + 1]
  IN  [n \in DOMAIN s |-> s[CHOOSE k \in DOMAIN s : rank[k] = n]]

\* qsort, and the memory of the list.
Sort ==
  /\ phase = "sort"
  /\ h' = Sorted(h)
  /\ ol' = [k \in 1 .. bcount |-> None]
  /\ phase' = "store" /\ i' = 0
  /\ UNCHANGED <<data, hash, list, num, os, mask>>

\* What the number of blocks and the headers take.
HeaderWords == bcount \div 2 + 1

\* op - os
Top == HeaderWords + Len(os)

\* `(unsigned int)off << 8', counted up: 24 bits are left for the offset.
Header(off, count) == (off % OffsetLimit) * 256 + count

\* `(h[i].b & ~0xf) | (h[i].f & 0xf)'
Entry(x) == 16 * High(x) + x.f

Duplicate == i > 0 /\ h[i].a = h[i + 1].a /\ h[i].b = h[i + 1].b

\* Fault: only the block that is entered gets a header.
StoreOneHeader ==
  /\ phase = "store" /\ i < Len(h)
  /\ LET x == h[i + 1]
         block == Block(x)
     IN  IF block = num /\ Duplicate THEN UNCHANGED <<num, ol, os>>
         ELSE /\ ol' = IF block = num THEN [ol EXCEPT ![block + 1] = @ + 1]
                       ELSE [ol EXCEPT ![block + 1] = Header(Top, 1)]
              /\ num' = block
              /\ os' = Append(os, Entry(x))
  /\ i' = i + 1
  /\ UNCHANGED <<data, hash, phase, list, h, mask>>

\* Fault: a duplicate is stored again.
StoreDuplicate ==
  /\ phase = "store" /\ i < Len(h)
  /\ LET x == h[i + 1]
         block == Block(x)
     IN  /\ ol' = IF block = num THEN [ol EXCEPT ![block + 1] = @ + 1]
                  ELSE [k \in DOMAIN ol |->
                          IF k - 1 \in num + 1 .. block
                          THEN Header(Top, IF k - 1 = block THEN 1 ELSE 0) ELSE ol[k]]
         /\ num' = block
         /\ os' = Append(os, Entry(x))
  /\ i' = i + 1
  /\ UNCHANGED <<data, hash, phase, list, h, mask>>

\* A hash of a new block first gives a header to every block up to its own; one
\* of the same string as the hash before is passed over.
Store ==
  /\ phase = "store" /\ i < Len(h)
  /\ LET x == h[i + 1]
         block == Block(x)
     IN  IF block = num /\ Duplicate THEN UNCHANGED <<num, ol, os>>
         ELSE /\ ol' = IF block = num THEN [ol EXCEPT ![block + 1] = @ + 1]
                       ELSE [k \in DOMAIN ol |->
                               IF k - 1 \in num + 1 .. block
                               THEN Header(Top, IF k - 1 = block THEN 1 ELSE 0) ELSE ol[k]]
              /\ num' = block
              /\ os' = Append(os, Entry(x))
  /\ i' = i + 1
  /\ UNCHANGED <<data, hash, phase, list, h, mask>>

\* The mask is stored behind the hashes and the list is published, Top + 1
\* words of it; ShmDict models how.
Publish ==
  /\ phase = "store" /\ i >= Len(h)
  /\ phase' = "built"
  /\ UNCHANGED <<data, hash, i, list, h, num, ol, os, mask>>

Next ==
  \/ Fail \/ ParseLine \/ Parsed \/ RegisterWord \/ Registering \/ Sort \/ Store \/ Publish

Spec == Init /\ [][Next]_vars /\ WF_vars(Next)

-----------------------------------------------------------------------------
(* iword_seekhash and iword_mask on the list                               *)

\* The binary search of the count hashes at off.
Search(off, count, b) ==
  LET At64(p) == os[off + p - HeaderWords + 1]
      Find[range \in (0 .. count) \X (0 .. count)] ==
        LET lo == range[1]
            hi == range[2]
            mid == (lo + hi) \div 2
        IN  IF lo >= hi THEN -1
            ELSE IF At64(mid) \div 16 = b \div 16 THEN At64(mid) % 16
            ELSE IF At64(mid) < b THEN Find[<<mid + 1, hi>>] ELSE Find[<<lo, mid>>]
  IN  Find[<<0, count>>]

Written(x) == ol[Block(x) + 1] # None

Seekhash(x) == Search(ol[Block(x) + 1] \div 256, ol[Block(x) + 1] % 256, x.b)

\* Where iword_mask looks for the mask: behind the last block.
MaskAt == (ol[bcount] \div 256) + (ol[bcount] % 256)

-----------------------------------------------------------------------------
(* Properties                                                              *)

Built == phase = "built"

IsSequence(s) == s \in Seq({s[k] : k \in DOMAIN s})

IsHash(x) == x.word \in Strings \ {<<>>} /\ x.f \in 0 .. 15 /\ x = Hashed(x.word, x.f)

TypeOK ==
  /\ hash \in DOMAIN Hashes
  /\ phase \in {"parse", "register", "sort", "store", "built", "failed"}
  /\ i \in Nat /\ num \in Int
  /\ list \in Seq([word : Strings \ {<<>>}, key : 0 .. 15])
  /\ IsSequence(h)
  /\ \A k \in DOMAIN h : IsHash(h[k])
  /\ mask \subseteq 0 .. 15

\* The lines that iword_load takes for entries: those with a word in them.  One
\* that begins with `#', which the documentation calls a comment, is one of them.
Starts == {p \in 0 .. size - 1 : (p = 0 \/ At(p - 1) = Newline) /\ At(p) \notin {Tab, Newline}}

LinesBefore(p) == Cardinality({k \in Starts : k < p})

\* x is the entry of the line at p: the characters before the first tab are the
\* word, and the one behind that tab is the key.
EntryOf(x, p) ==
  LET e == p + Len(x.word)
  IN  /\ e <= size
      /\ \A k \in p .. e - 1 : x.word[k - p + 1] = At(k) /\ At(k) \notin {Tab, Newline}
      /\ e = size \/ At(e) \in {Tab, Newline}
      /\ e = size \/ At(e) = Newline => x.key = DEFAULT
      /\ e + 1 < size /\ At(e) = Tab /\ At(e + 1) # Newline => x.key = Low[At(e + 1)]

LineParsed(p) == EntryOf(list[LinesBefore(p) + 1], p)

\* iword_load leaves no line out, splits none and shifts none: each with a word
\* makes one entry, in the order of the file, of this word and, for a key, the
\* low four bits of the single character behind the first tab.
LinesParsed ==
  phase \notin {"parse", "failed"} =>
    Len(list) = Cardinality(Starts) /\ \A p \in Starts : LineParsed(p)

\* While the file is read, that is so of the lines in front of i, where one begins.
LinesSoFar ==
  phase = "parse" =>
    /\ i = 0 \/ i >= size \/ At(i - 1) = Newline
    /\ Len(list) = LinesBefore(i)
    /\ \A p \in Starts : p < i => LineParsed(p)
    /\ h = <<>>

\* What an entry registers: its word, and the prefixes.
Registers(x) ==
  {Hashed(x.word, x.key)}
  \union {Hashed(SubSeq(x.word, 1, q * CHUNK), 15) : q \in 1 .. (Len(x.word) - 1) \div CHUNK}

\* The hashes are those of the entries, and in order once they are sorted.
HashesMade ==
  LET made == {h[k] : k \in DOMAIN h}
  IN  /\ phase = "register" =>
           i <= Len(list) /\ made = UNION {Registers(list[m]) : m \in 1 .. i}
      /\ phase \in {"sort", "store", "built"} => made = UNION {Registers(list[m]) : m \in DOMAIN list}
      /\ phase \in {"store", "built"} => \A m, n \in DOMAIN h : m < n => ~ Before(h[n], h[m])

\* The first ones of equal hashes, among the first n.
Firsts(n) == {l \in 1 .. n : l = 1 \/ h[l].word # h[l - 1].word}

\* Those of one block, and those of the blocks in front of it.
Own(n, block)     == Cardinality({l \in Firsts(n) : Block(h[l]) = block})
InFront(n, block) == Cardinality({l \in Firsts(n) : Block(h[l]) < block})

\* The first ones are stored, and each block up to the one reached has a header
\* that counts its hashes and those in front of it.
ListSoFar ==
  /\ phase \in {"parse", "register", "sort"} => num = -1 /\ os = <<>>
  /\ phase \in {"store", "built"} =>
    /\ i <= Len(h) /\ (phase = "built" => i = Len(h))
    /\ num = IF i = 0 THEN -1 ELSE Block(h[i])
    /\ os \in Seq(Nat) /\ Len(os) = Cardinality(Firsts(i))
    /\ \A l \in Firsts(i) : os[Cardinality(Firsts(l))] = Entry(h[l])
    /\ DOMAIN ol = 1 .. bcount
    /\ \A k \in 1 .. bcount :
         ol[k] = IF k - 1 > num THEN None
                 ELSE Header(HeaderWords + InFront(i, k - 1), Own(i, k - 1))

\* The inductive invariant behind LookupsAgree and StoredOnce.
IndInv == TypeOK /\ LinesSoFar /\ LinesParsed /\ HashesMade /\ ListSoFar

\* The dictionary the file stands for: a word that is there more than once has
\* the smallest of its keys.
Words == {list[n].word : n \in DOMAIN list}
Dict  == [x \in Words |-> Min({list[n].key : n \in {m \in DOMAIN list : list[m].word = x}})]

\* "assert((*ol & 0xff) != 0xff)" (include/iword.c:292, commented out): the count
\* of no block reaches into its offset.
CountsFit ==
  \A k \in 0 .. bcount - 1 : Own(Len(h), k) < 256

\* No offset loses bits in its header.
OffsetsFit == HeaderWords + Len(h) < OffsetLimit

\* The list has no blocks, so that every lookup would divide by zero, exactly
\* when the file has no word: blank lines alone.  Otherwise it answers as the
\* dictionary does for every string whose block has a header, and every block
\* has one up to the last that holds a word or a prefix.  When that is the last
\* of all, iword_mask finds the mask where it was stored.
LookupsAgree ==
  Built =>
    /\ bcount = 0 <=> Starts = {}
    /\ bcount > 0 /\ CountsFit /\ OffsetsFit =>
         LET dict == Dict
         IN  /\ \A s \in Strings :
                  LET x == Hashed(s, None)
                  IN  IF Written(x) THEN Seekhash(x) = Lookup(dict, s) ELSE Lookup(dict, s) = -1
             /\ \A k \in 1 .. bcount - 1 : ol[k] = None => ol[k + 1] = None
             /\ ol[bcount] # None => MaskAt = Top

\* However often words and prefixes are repeated in the file, each is stored once.
StoredOnce ==
  Built => \A m, n \in DOMAIN os : os[m] \div 16 = os[n] \div 16 => m = n

\* The loops come to an end for every file: the list is published, or nothing is.
Ends == <>(phase \in {"built", "failed"})

\* "(iword_bcount / 2 + 1 + iword_size) * 8" (include/iword.c:301, the size of
\* the memory that was allocated): the list takes no more.
ListFits == Built /\ h # <<>> => Top + 1 <= HeaderWords + Len(h)
=============================================================================
