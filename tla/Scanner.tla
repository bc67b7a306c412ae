------------------------------ MODULE Scanner ------------------------------
(***************************************************************************)
(* include/iword.c, iword_map: find the dictionary words in a text.        *)
(*                                                                         *)
(* A ring of RING hash slots holds one rolling hash for every position the *)
(* scan is still following; each character is added to all of them, and a  *)
(* slot whose hash is in the dictionary records a match at its start.  To  *)
(* drop hopeless slots the dictionary also holds, under key 15, the        *)
(* prefixes of its words whose length is a multiple of CHUNK; a slot that  *)
(* is no such prefix after CHUNK characters is dropped.  flg says, with    *)
(* one word of 64 bits for each GROUP slots, where slots are alive; its    *)
(* bits are set and cleared with `1 << (i & 0x3f)', an int shift, so that  *)
(* only WIDTH of the GROUP bits are ever told apart.                       *)
(*                                                                         *)
(* In the code CHUNK, WIDTH, GROUP, RING are 16, 32, 64, 256.  A hash is   *)
(* modelled by the characters it was made from: two 64-bit hashes that     *)
(* agree although the characters differ are left out.  `s[i]' is At(i).    *)
(***************************************************************************)
EXTENDS Dictionary, FiniteSets, FiniteSetsExt

CONSTANTS
  Inputs,             \* the calls: records [text, dict, mode, limit]
  Letters, WordChars, \* isalpha, and iword_ischar
  KeepTags,           \* the elements whose content is skipped: a, pre, script, ...
  None,               \* "no kept tag"
  WIDTH, GROUP, RING  \* and CHUNK, of Dictionary

FORBID_NUM == 5       \* IWORD_FORBID_NUM
MAXNAME == 10         \* letters of a tag name that are looked at

ASSUME RingAssumption == WIDTH \in Nat \ {0} /\ GROUP \in Nat \ {0} /\ RING \in Nat \ {0}

\* 16 divides 32, and 32 divides 256.
ASSUME AlignAssumption == WIDTH % CHUNK = 0 /\ RING % WIDTH = 0

ASSUME ScannerAssumption ==
  /\ \A a \in Inputs :
       /\ a.text \in Seq(STRING) /\ a.limit \in Int
       /\ \A x \in DOMAIN a.dict : x \in Seq(STRING) /\ a.dict[x] \in 0 .. 14
       /\ {a.mode.html, a.mode.fbid, a.mode.eng} \subseteq BOOLEAN
  /\ Letters \subseteq STRING /\ ">" \notin Letters
  /\ None \notin KeepTags /\ KeepTags \subseteq Seq(Letters) \ {<<>>}

VARIABLES
  text,                         \* the characters s[0 .. size-1]
  dict,                         \* the dictionary: from words to keys 0 .. 14
  mode,                         \* [html, fbid, eng]: the bits of the argument
  limit,                        \* iword_limit; 0 or less is "no limit"
  phase,                        \* "scan", "count", "store", "done"; "failed" is a NULL returned
  i,                            \* the index of the three loops
  ring,                         \* h[0..RING-1]: f is the flag, chars the hash
  flg,                          \* the bits set in each group's word
  w, v,                         \* length and key of the match that starts at a position
  keep,                         \* the kept element the scan is in
  r, alloc,                     \* matches counted, and what the buffer was made for
  q, app                        \* the result: matches, and the mask of their keys

args == <<text, dict, mode, limit>>
vars == <<text, dict, mode, limit, phase, i, ring, flg, w, v, keep, r, alloc, q, app>>

-----------------------------------------------------------------------------
(* The text and the dictionary.                                            *)

size == Len(text)
Positions == 0 .. size - 1
At(p) == text[p + 1]

\* The first position from p on that holds one of the characters of C; the
\* loops that search for it stop at the end of the text.
Find(p, C) ==
  LET Hits == {k \in p .. size - 1 : At(k) \in C}
  IN  IF Hits = {} THEN (IF p < size THEN size ELSE p) ELSE Min(Hits)

Seekhash(h) == Lookup(dict, h)

-----------------------------------------------------------------------------
FreeSlot == [f |-> FALSE, chars |-> <<>>]

Init ==
  /\ \E a \in Inputs : text = a.text /\ dict = a.dict /\ mode = a.mode /\ limit = a.limit
  /\ phase = "scan" /\ i = 0
  /\ ring = [j \in 0 .. RING - 1 |-> FreeSlot]
  /\ flg  = [g \in 0 .. (RING - 1) \div GROUP |-> {}]
  /\ w = [k \in Positions |-> 0]
  /\ v = [k \in Positions |-> 0]
  /\ keep = None
  /\ r = 0 /\ alloc = 0 /\ q = <<>> /\ app = {}

\* No dictionary is attached, or memory for the scan is short: NULL, before a
\* character is read.
Refuse ==
  /\ phase = "scan" /\ i = 0
  /\ phase' = "failed"
  /\ UNCHANGED <<args, i, ring, flg, w, v, keep, r, alloc, q, app>>

\* Fault: the flag of the new slot is raised behind the loop.
SeenLate(j, flags) == flg[j \div GROUP] # {}

\* A slot of a group whose word of flags is zero is passed over, alive or not.
Seen(j, flags) == flags[j \div GROUP] # {}

\* The start of the match that slot j would record at position i.
Start(j) == i - ((i - j) % RING)

\* MODE_ENGLISH: no word character on either side of the match.
AtWordEdges(k) ==
  /\ k <= 0 \/ At(k - 1) \notin WordChars
  /\ size <= i + 1 \/ At(i + 1) \notin WordChars

InTagMode == mode.html /\ At(i) = "<"

\* One character of text: a new slot is opened at i, and the character is
\* added to every slot that is seen.  A slot with no prefix of its own after
\* CHUNK characters is dropped, and a hit is recorded at its start.
ScanChar ==
  /\ phase = "scan" /\ i < size /\ ~InTagMode
  /\ LET here   == i % RING
         fresh  == [ring EXCEPT ![here] = [f |-> TRUE, chars |-> <<>>]]
         raised == [flg EXCEPT ![here \div GROUP] = @ \union {here % WIDTH}]
         Active == {j \in DOMAIN ring : fresh[j].f /\ Seen(j, raised)}
         grown  == [j \in Active |-> Append(fresh[j].chars, At(i))]
         found  == [j \in Active |-> Seekhash(grown[j])]
         Dropped == {j \in Active : (i - j) % CHUNK = CHUNK - 1 /\ found[j] = -1}
         Hits(k) == LET j == k % RING IN
                      /\ j \in Active /\ k = Start(j) /\ found[j] \in 0 .. 14
                      /\ mode.eng => AtWordEdges(k)
     IN  /\ ring' = [j \in DOMAIN ring |->
                       IF j \in Active THEN [f |-> j \notin Dropped, chars |-> grown[j]]
                       ELSE fresh[j]]
         /\ flg' = [g \in DOMAIN flg |->
                      raised[g] \ {j % WIDTH : j \in {d \in Dropped : d \div GROUP = g}}]
         /\ w' = [k \in Positions |-> IF Hits(k) THEN (i - k + 1) % RING ELSE w[k]]
         /\ v' = [k \in Positions |-> IF Hits(k) THEN found[k % RING] ELSE v[k]]
  /\ i' = i + 1
  /\ UNCHANGED <<args, phase, keep, r, alloc, q, app>>

-----------------------------------------------------------------------------
(* MODE_HTML: i is at a `<', and the name or the mark after it at i + 1.   *)

NameLen(p) ==
  Min({n \in 0 .. MAXNAME : n = MAXNAME \/ p + n >= size \/ At(p + n) \notin Letters})

Name(p) == SubSeq(text, p + 1, p + NameLen(p))

IsComment(p) ==
  /\ NameLen(p) = 0 /\ p + 3 < size
  /\ At(p) = "!" /\ At(p + 1) = "-" /\ At(p + 2) = "-"

\* The `>' of the first `-->' that ends no earlier than i + 5.
CommentEnd(p) ==
  LET Ends == {k \in p + 5 .. size - 1 : At(k) = ">" /\ At(k - 1) = "-" /\ At(k - 2) = "-"}
  IN  IF Ends = {} THEN size ELSE Min(Ends)

IsKeepEnd(p) ==
  /\ NameLen(p) = 0 /\ ~IsComment(p) /\ keep # None
  /\ p + Len(keep) + 1 < size
  /\ At(p) = "/" /\ SubSeq(text, p + 2, p + 1 + Len(keep)) = keep
  /\ At(p + Len(keep) + 1) = ">"

SkipComment ==
  /\ phase = "scan" /\ i < size /\ InTagMode /\ IsComment(i + 1)
  /\ i' = CommentEnd(i + 1) + 1
  /\ UNCHANGED <<args, phase, ring, flg, w, v, keep, r, alloc, q, app>>

\* `i += k + 2; continue;' leaves i behind the `>', and the loop adds one.
CloseKept ==
  /\ phase = "scan" /\ i < size /\ InTagMode /\ IsKeepEnd(i + 1)
  /\ i' = i + 1 + (Len(keep) + 2) + 1
  /\ keep' = None
  /\ UNCHANGED <<args, phase, ring, flg, w, v, r, alloc, q, app>>

\* The `>' that ends the tag, quoted values skipped.
TagEnd[p \in 0 .. size + 2] ==
  IF p >= size \/ At(p) = ">" THEN p
  ELSE IF At(p) \in {"\"", "'"} THEN TagEnd[Find(p + 1, {At(p)}) + 1]
  ELSE TagEnd[p + 1]

\* Fault: every element is kept.
SkipTagKeepingAll ==
  /\ phase = "scan" /\ i < size /\ InTagMode
  /\ ~IsComment(i + 1) /\ ~IsKeepEnd(i + 1)
  /\ keep' = IF NameLen(i + 1) > 0 /\ keep = None THEN Name(i + 1) ELSE keep
  /\ LET end == TagEnd[i + 1]
     IN  i' = IF keep' # None THEN Find(end, {"<"}) ELSE end + 1
  /\ UNCHANGED <<args, phase, ring, flg, w, v, r, alloc, q, app>>

\* Fault: the content of a kept element is not skipped.
SkipTagOnly ==
  /\ phase = "scan" /\ i < size /\ InTagMode
  /\ ~IsComment(i + 1) /\ ~IsKeepEnd(i + 1)
  /\ keep' = IF NameLen(i + 1) > 0 /\ keep = None /\ Name(i + 1) \in KeepTags
             THEN Name(i + 1) ELSE keep
  /\ i' = TagEnd[i + 1] + 1
  /\ UNCHANGED <<args, phase, ring, flg, w, v, r, alloc, q, app>>

\* Fault: in a kept element the search for the next tag starts at this one.
SkipTagAgain ==
  /\ phase = "scan" /\ i < size /\ InTagMode
  /\ ~IsComment(i + 1) /\ ~IsKeepEnd(i + 1)
  /\ keep' = IF NameLen(i + 1) > 0 /\ keep = None /\ Name(i + 1) \in KeepTags
             THEN Name(i + 1) ELSE keep
  /\ i' = IF keep' # None THEN Find(i, {"<"}) ELSE TagEnd[i + 1] + 1
  /\ UNCHANGED <<args, phase, ring, flg, w, v, r, alloc, q, app>>

\* Any other tag.  One that opens a kept element, and every tag inside one,
\* is skipped together with what follows it up to the next tag.
SkipTag ==
  /\ phase = "scan" /\ i < size /\ InTagMode
  /\ ~IsComment(i + 1) /\ ~IsKeepEnd(i + 1)
  /\ keep' = IF NameLen(i + 1) > 0 /\ keep = None /\ Name(i + 1) \in KeepTags
             THEN Name(i + 1) ELSE keep
  /\ LET end == TagEnd[i + 1]
     IN  i' = IF keep' # None THEN Find(end, {"<"}) ELSE end + 1
  /\ UNCHANGED <<args, phase, ring, flg, w, v, r, alloc, q, app>>

-----------------------------------------------------------------------------
(* The two loops over w that count and store the matches.                  *)

\* Matches of a forbidden key are returned only with MODE_FORBID; they cover
\* their text either way.
Returned(k) == mode.fbid \/ FORBID_NUM <= v[k]

Unlimited == 268435455  \* 0xfffffff

\* iword_limit, as the second loop reads it and as it stays for the next call.
RoomFor == IF limit <= 0 THEN Unlimited ELSE limit

EndScan ==
  /\ phase = "scan" /\ i >= size
  /\ phase' = "count" /\ i' = 0 /\ r' = 0
  /\ UNCHANGED <<args, ring, flg, w, v, keep, alloc, q, app>>

Count ==
  /\ phase = "count" /\ i < size
  /\ r' = IF w[i] # 0 /\ Returned(i) THEN r + 1 ELSE r
  /\ i' = IF w[i] # 0 THEN i + w[i] ELSE i + 1
  /\ UNCHANGED <<args, phase, ring, flg, w, v, keep, alloc, q, app>>

Allocate ==
  /\ phase = "count" /\ i >= size
  /\ limit' = RoomFor
  /\ alloc' = IF RoomFor < r THEN RoomFor ELSE r
  /\ phase' = "store" /\ i' = 0
  /\ UNCHANGED <<text, dict, mode, ring, flg, w, v, keep, r, q, app>>

\* There is no memory for the matches: NULL, with iword_limit already changed.
AllocateFails ==
  /\ phase = "count" /\ i >= size
  /\ limit' = RoomFor
  /\ phase' = "failed"
  /\ UNCHANGED <<text, dict, mode, i, ring, flg, w, v, keep, r, alloc, q, app>>

\* Fault: a match does not move the loop past its end.
StoreOverlapping ==
  /\ phase = "store" /\ i < size
  /\ q' = IF w[i] # 0 /\ Returned(i) /\ Len(q) < limit
          THEN Append(q, [pos |-> i, len |-> w[i], key |-> v[i]]) ELSE q
  /\ app' = IF w[i] # 0 THEN app \union {v[i]} ELSE app
  /\ i' = i + 1
  /\ UNCHANGED <<args, phase, ring, flg, w, v, keep, r, alloc>>

\* Fault: the store does not look at iword_limit.
StoreUnlimited ==
  /\ phase = "store" /\ i < size
  /\ q' = IF w[i] # 0 /\ Returned(i)
          THEN Append(q, [pos |-> i, len |-> w[i], key |-> v[i]]) ELSE q
  /\ app' = IF w[i] # 0 THEN app \union {v[i]} ELSE app
  /\ i' = IF w[i] # 0 THEN i + w[i] ELSE i + 1
  /\ UNCHANGED <<args, phase, ring, flg, w, v, keep, r, alloc>>

\* Fault: the loop goes on one past the end of a match, and adds one.
StoreTooFar ==
  /\ phase = "store" /\ i < size
  /\ q' = IF w[i] # 0 /\ Returned(i) /\ Len(q) < limit
          THEN Append(q, [pos |-> i, len |-> w[i], key |-> v[i]]) ELSE q
  /\ app' = IF w[i] # 0 THEN app \union {v[i]} ELSE app
  /\ i' = i + w[i] + 1
  /\ UNCHANGED <<args, phase, ring, flg, w, v, keep, r, alloc>>

\* `i += (w[i] - 1) & 0xffL; app |= 1ULL << v[i];' -- in that order.
Store ==
  /\ phase = "store" /\ i < size
  /\ IF w[i] = 0
     THEN i' = i + 1 /\ UNCHANGED <<q, app>>
     ELSE LET last == i + w[i] - 1
          IN  /\ q' = IF Returned(i) /\ Len(q) < limit
                      THEN Append(q, [pos |-> i, len |-> w[i], key |-> v[i]]) ELSE q
              /\ app' = app \union {v[last]}
              /\ i' = last + 1
  /\ UNCHANGED <<args, phase, ring, flg, w, v, keep, r, alloc>>

Finish ==
  /\ phase = "store" /\ i >= size
  /\ phase' = "done"
  /\ UNCHANGED <<args, i, ring, flg, w, v, keep, r, alloc, q, app>>

Next ==
  \/ ScanChar \/ SkipComment \/ CloseKept \/ SkipTag
  \/ EndScan \/ Count \/ Allocate \/ Store \/ Finish
  \/ Refuse \/ AllocateFails

Spec == Init /\ [][Next]_vars /\ WF_vars(Next)

-----------------------------------------------------------------------------
(* Properties                                                              *)

Match == [pos : Positions, len : 1 .. RING - 1, key : 0 .. 14]

TypeOK ==
  /\ text \in Seq(STRING) /\ limit \in Int /\ mode.fbid \in BOOLEAN
  /\ phase \in {"scan", "count", "store", "done", "failed"}
  /\ i \in Nat /\ r \in Nat /\ alloc \in Nat
  /\ ring \in [0 .. RING - 1 -> [f : BOOLEAN, chars : Seq(STRING)]]
  /\ flg \in [0 .. (RING - 1) \div GROUP -> SUBSET (0 .. WIDTH - 1)]
  /\ w \in [Positions -> 0 .. RING - 1]
  /\ v \in [Positions -> 0 .. 14]
  /\ keep \in KeepTags \union {None}
  /\ q \in Seq(Match)

\* The matches returned lie in the text, in its order, and do not overlap, so a
\* client may cut or mask the text at them one after the other.
MatchesInText ==
  /\ \A n \in DOMAIN q : q[n].pos + q[n].len <= size
  /\ \A m, n \in DOMAIN q : m < n => q[m].pos + q[m].len <= q[n].pos

\* What is stored fits what was allocated, and iword_limit.
FitsBuffer == Len(q) <= alloc /\ (limit > 0 /\ phase # "scan" => Len(q) <= limit)

\* Every word found is in a match that is returned, or in a forbidden one that
\* covers it, as long as there is room under the limit.
NothingUncovered ==
  phase = "done" /\ mode.fbid /\ Len(q) < limit =>
    \A k \in Positions : w[k] # 0 => \E n \in DOMAIN q : q[n].pos <= k /\ k < q[n].pos + q[n].len

\* What the two loops come to from p on: how many matches they return.
Left[p \in 0 .. size] ==
  IF p >= size THEN 0
  ELSE IF w[p] = 0 THEN Left[p + 1]
  ELSE (IF Returned(p) THEN 1 ELSE 0) + Left[p + w[p]]

\* The first loop counts what the second one stores.
Tallied ==
  /\ phase # "scan" => i <= size
  /\ phase = "count" => r + Left[i] = Left[0]
  /\ phase \in {"scan", "count", "failed"} => q = <<>>
  /\ phase \in {"store", "done"} =>
       /\ Len(q) + Left[i] <= r
       /\ limit > 0 /\ Len(q) <= limit /\ alloc = (IF limit < r THEN limit ELSE r)

\* What is stored lies behind i, and behind i nothing that was found is left
\* uncovered while there is room.
Behind ==
  phase \in {"store", "done"} =>
    /\ \A n \in DOMAIN q : q[n].pos + q[n].len <= i
    /\ mode.fbid /\ Len(q) < limit =>
         \A k \in Positions : k < i /\ w[k] # 0 =>
           \E n \in DOMAIN q : q[n].pos <= k /\ k < q[n].pos + q[n].len
    /\ phase = "done" => i = size

\* The inductive invariant behind the three properties of the result.
IndInv ==
  /\ TypeOK
  /\ \A k \in Positions : k + w[k] <= size
  /\ MatchesInText
  /\ Tallied
  /\ Behind

\* The words that start at k: what a reader of the text would find there.
LengthsAt(k) ==
  {n \in 1 .. size - k :
     /\ SubSeq(text, k + 1, k + n) \in DOMAIN dict
     /\ mode.eng => /\ k = 0 \/ At(k - 1) \notin WordChars
                    /\ k + n = size \/ At(k + n) \notin WordChars}

PlainText == ~mode.html \/ \A k \in Positions : At(k) # "<"

\* What is recorded for k is the longest word that starts there and ends by e.
LongestBy(k, e) ==
  /\ \A n \in LengthsAt(k) : k + n <= e => n <= w[k]
  /\ w[k] # 0 =>
       /\ w[k] \in LengthsAt(k) /\ k + w[k] <= e
       /\ v[k] = dict[SubSeq(text, k + 1, k + w[k])]

Scanned == phase = "count" /\ i = 0

\* In plain text the scan finds at every position the longest word of the
\* dictionary that starts there, and nothing else, as long as no word has WIDTH
\* characters or more: slots are dropped and reused, flags are shared by slots
\* WIDTH apart, and none of it loses a match.
FindsLongestWords ==
  Scanned /\ PlainText => \A k \in Positions : LongestBy(k, size)

ShortWords == \A a \in Inputs : \A x \in DOMAIN a.dict : Len(x) < WIDTH

\* The starts that may still be followed before i is read: WIDTH of them with i,
\* no two in one slot of the ring or at one bit of a group.
Window == {k \in 0 .. i - 1 : i - k < WIDTH}

\* A word that agrees with the text from k on and goes on at i.
GoesOn(k) == \E x \in DOMAIN dict : i - k < Len(x) /\ SubSeq(x, 1, i - k) = SubSeq(text, k + 1, i)

\* In plain text only starts of the window are alive, each in its own slot, with
\* what was read since and with its bit; whatever may still become a word is
\* alive; and what is recorded is the longest so far.
PlainFollowed ==
  phase = "scan" /\ PlainText =>
    /\ i <= size
    /\ \A j \in 0 .. RING - 1 : ring[j].f => \E k \in Window : j = k % RING
    /\ \A k \in Window :
         LET j == k % RING
         IN  /\ ring[j].f => /\ ring[j].chars = SubSeq(text, k + 1, i)
                              /\ k % WIDTH \in flg[j \div GROUP]
             /\ GoesOn(k) => ring[j].f
    /\ \A k \in Positions : LongestBy(k, i)

\* A position inside a tag, from its `<' to its `>' (in a text with no quotes
\* and no comments).
Markup(k) == \E b \in 0 .. k : At(b) = "<" /\ \A c \in b .. k - 1 : At(c) # ">"

StartsTag(b) == At(b) = "<" /\ (b = 0 \/ At(b - 1) = ">" \/ ~Markup(b - 1))

Opens(b) == StartsTag(b) /\ Name(b + 1) \in KeepTags

\* At b ends the element with the name n.
EndsElement(b, n) ==
  /\ b + Len(n) + 3 <= size
  /\ At(b + 1) = "/" /\ SubSeq(text, b + 3, b + Len(n) + 2) = n /\ At(b + Len(n) + 2) = ">"

Closes(b) == StartsTag(b) /\ \E n \in KeepTags : EndsElement(b, n)

\* A position in the content of a kept element (in a text with one kind of them).
KeptFrom(b, k) == Opens(b) /\ \A c \in b + 1 .. k - 1 : ~Closes(c)
Kept(k) == \E b \in 0 .. k - 1 : KeptFrom(b, k)

Hidden(k) == Markup(k) \/ Kept(k)

SimpleMarkup == mode.html /\ \A k \in Positions : At(k) \notin {"\"", "'", "!"}

\* Nothing follows the end of a kept element.
KeptLast ==
  \A b \in Positions : StartsTag(b) =>
    \A n \in KeepTags : EndsElement(b, n) => size = b + Len(n) + 3

\* The m-th of a set of positions.
Nth(S, m) == CHOOSE p \in {x \in S : Cardinality({y \in S : y <= x}) = m} : TRUE

\* What a reader sees of the n characters from k on.
Shown(k, n) == {p \in k .. k + n - 1 : ~Hidden(p)}
VisibleText(k, n) == [m \in 1 .. Cardinality(Shown(k, n)) |-> At(Nth(Shown(k, n), m))]

\* What is recorded for k starts in visible text, and what is visible of it is
\* the word that was found.
VisibleMatch(k) ==
  /\ ~Hidden(k)
  /\ VisibleText(k, w[k]) \in DOMAIN dict
  /\ v[k] = dict[VisibleText(k, w[k])]

VisibleMatches == \A k \in Positions : w[k] # 0 /\ k + w[k] <= RING => VisibleMatch(k)

\* With MODE_HTML a match that ends in the first round of the ring is one of the
\* visible text.  (A slot that a tag keeps from being dropped outlives the bit it
\* shares with a later one, misses what is read meanwhile and, when the next round
\* raises a bit of its group again, goes on as if it had not.)
MatchesVisibleText ==
  Scanned /\ SimpleMarkup /\ KeptLast => VisibleMatches

\* In the first round the scan is always in visible text or at a `<', it knows
\* whether it is in a kept element, and every slot that will be seen again holds
\* what is visible since its start.
MarkupFollowed ==
  phase = "scan" /\ SimpleMarkup /\ KeptLast =>
    /\ VisibleMatches
    /\ i < size =>
         /\ i = 0 \/ ~Markup(i - 1) \/ At(i - 1) = ">"
         /\ IF keep = None THEN \A b \in 0 .. i - 1 : ~Opens(b)
            ELSE At(i) = "<" /\ \E b \in 0 .. i - 1 : KeptFrom(b, i)
    /\ i < size /\ i < RING =>
         \A j \in 0 .. RING - 1 : ring[j].f =>
           /\ j < i /\ ~Hidden(j)
           /\ flg[j \div GROUP] # {} \/ i \div GROUP = j \div GROUP =>
                ring[j].chars = VisibleText(j, i - j)

\* The invariants behind FindsLongestWords and MatchesVisibleText.
Followed == PlainFollowed /\ MarkupFollowed

\* The scan and the two loops come to an end on every text: each skip in
\* MODE_HTML goes forward, whatever is left open.
Terminates == <>(phase \in {"done", "failed"})

\* "mask: Bitmask of all matched category keys" (iword-server-spec.md:106).
MaskIsOfMatches ==
  phase = "done" /\ mode.fbid /\ limit = Unlimited =>
    app = {q[n].key : n \in DOMAIN q}
=============================================================================
