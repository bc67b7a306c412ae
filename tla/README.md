# iWord in TLA+

A model of iWord: the dictionary in shared memory, the text scan, `iwordserver`
with its threads, the clients that talk to it and the script that keeps it alive.
The modules are translated from the source; TLC checks them on small instances,
and TLAPS proves their safety properties for every value of the constants.

## The system and its parts

| part | code | state | operations |
|---|---|---|---|
| dictionary file and hash list | `include/iword.c`: `iword_load`, `iword_makelist`, `iword_hashcmp`, `iword_seekhash`, `iword_mask` | the words of a file, the hashes in blocks, the headers of the blocks, the mask | parse, register words and prefixes, sort, store; look up |
| shared memory | `iword_shmget`, `iword_unload`, `iword_alloc`, `iword_free` | one System V segment under `iword_key`, and older ones still attached | load, unload; attach, read, detach |
| text scan | `iword_map` | 256 hash slots, flag words, matches by position | one character, one tag; count; store |
| server threads | `tool/iwordserver.c`: `accept_loop`, `conn_thread`, `worker_thread` | work queue, one work slot per connection | accept, read, enqueue, wait, write; dequeue, dispatch |
| server framing | `conn_thread` | a line buffer of `MAX_LINE` bytes | read, take a line, shift |
| server requests | `json_str`, `json_int`, `handle_*` | none between requests | parse, call the library, build the reply |
| server start | `main` | listening sockets: a path, a port | open, park in `pause` |
| supervisor | `tool/iwordd` | the server it waits for | start the server again unless it exits with 0 |
| clients | `bindings/go/iwordserver.go`, `bindings/node/iwordserver.js`, `bindings/python/iword/server.py` | Go, Python: a lock; Node: a queue of promises; encoder, decoder and reader with their sticky errors | call, receive, time out, close |
| in-process bindings | `bindings/*/`, `pecl/` | none of their own | the library's |
| command line | `tool/iwordctl.c` and others | a temporary file | load, stop, seek, mask, view |

`iwordctl load` (or a binding) builds the hash list and publishes it in shared
memory; every process that scans or looks words up attaches the segment for the
time of one call. `iwordserver` is one such process: because the library keeps
its state in globals, one worker thread makes all the calls, and connection
threads hand it their requests. Nothing synchronises loaders with readers.

What is hard about it:

- **threads.** The work slot, its mutex and its condition variable are on the
  stack of the connection's thread, and the worker still holds them when the
  owner may go on. Clients stop reading, hang up, send ahead.
- **framing.** Lines arrive in pieces, several at once, or longer than the
  buffer. One reply too many or too few shifts all later ones.
- **shared memory.** A segment is visible before it is filled; it is removed
  while it is read; two loaders may get the same one; a loader may die half way.
- **the scan.** A ring of slots that are dropped early by prefixes, flags that
  are bits of an int, and index arithmetic around tags left open.
- **the list.** Blocks without a hash, words listed twice, words that are
  prefixes of others; files joined into one list.
- **clients.** A reply does not say what it answers. Callers share a connection,
  and a timeout, an error event, a close or a lost connection may come between
  any two steps of a call.
- **requests.** A parser that searches for names in a line that a real JSON
  encoder wrote, and a reply built in an array of fixed size.
- **restarts.** A path that outlives its server, a port that does not, calls that
  fail half way through the start, an orphan that nobody waits for.

`PROJECT.json` lists these hazards one by one with the lines where they bite and
the properties that cover them.

## The modules

**IwordServer** has one program counter for each connection's thread and one for
the worker. `enqueue` and `dequeue_blocking` are single critical sections under
`queue_mu`, and so single steps; `slot.mu` is held by the worker over
`LockSlot`, `Dispatch`, `UnlockSlot`, and `CheckSlot` waits for it. A signal moves
a thread that waits back to its test; spurious wakeups are steps of their own.
`slot[c].live` says that the block that declares the slot is being executed. A
request is named `<<connection, number>>` and its reply by the same name. Clients
may send ahead, shut one direction, hang up and stall; sockets hold `SockBuf`
replies.

**SerialService** is what the server promises, without threads: questions stand
in one line, are served from its head, and each answer goes to the client that
asked. IwordServer implements it under the mapping at its end: the line is the
queue with the worker's unanswered job in front.

**ConnBuffer** is the same thread seen byte by byte: a byte is its position in
the stream, so that an invariant can say which bytes a request is made of. The
answer is one step here; how it is computed is IwordServer's subject, where a
read brings whole lines.

**Dictionary** says what a lookup answers: the key of a word, 15 for a prefix
whose length is a multiple of `CHUNK`, -1 otherwise. It stands between
**HashList**, which builds the list and searches it, and is shown to answer so
(`LookupsAgree`), and **Scanner**, whose every lookup is `Lookup`.

**HashList** follows `iword_load` line by line and `iword_makelist` hash by hash.
Hash functions are a parameter, so that residues and order can be anything; two
strings with the same 60 bits are left out by assumption (`HashAssumption`). A file
may have any length; a word fits in the 256 bytes of `ss`, 16 chunks
(`StringsAssumption`). A hash carries the string it was made of, which only properties
read. `Sorted` is `qsort`: it orders by how many hashes come before each. A header not
written is `None`, whatever malloc left there: a property that would read it fails. An
offset is cut to the 24 bits a header has for it. That none loses bits, and that the
count of a block stays below 256, which the code has as an assertion it does not
compile (iword.c:292), are the hypotheses `OffsetsFit` and `CountsFit` of
`LookupsAgree`. Lines that begin with `#` are entries like any other: the modules
follow `iword_load`, not what the documents say of it (see below).

**Scanner** is `iword_map`: a step for a character (all slots at once, as the
inner loop does), for each of the ways a `<` is handled, and for a turn of the
two loops that count and store. A call that returns NULL, because no dictionary is
attached or memory is short, ends in "failed" (`Refuse`, `AllocateFails`). A hash is
the string it was made of. `CHUNK`,
`WIDTH`, `GROUP`, `RING` are 16, 32, 64, 256 in the code; `WIDTH` is the number
of bits `1 << n` tells apart on an int.

**ShmDict** has loaders and readers as processes that take one system call, or
copy or read one cell, in a step, and may die at any of them. A cell holds the
dictionary it was copied from, or `None` for zero. A lookup reads the block count
(`ReadCount`; zero is a SIGFPE), then the word that the count and the hash choose, as a
header (`ReadHeader`), then places it leads to (`ReadPlace`). A header leads into its
own dictionary. A word that is not one, because it is a hash of another dictionary, or
belongs to an empty block behind the last hash and was never written, leads to any
place up to `Far`, inside the segment or not; outside the process may get garbage or die
(`SegFault`). `Blocks` and `Reached` say how many blocks a dictionary has and how many
of their headers were written, `Sound` that there are some and it is all of them.
`alone` records that loads have not overlapped so far, `settled` which whole dictionary
was in force when a call began; both are only read by properties.

**CtlLoad** is `iwordctl load` in front of HashList: it joins the files of the
command line into one, with the key of each put before its newlines. Nothing else
sees the temporary file, so it is an initial state of the lists HashList builds.

**Requests** has no state: what the encoders of the three clients make of a
request, what `json_str` and `json_int` find in the line, and what the handlers
reply. A line is a sequence of pieces, such as a quote, a field name or a word, so
that the search for a name in quotes and the treatment of backslashes are those of
the code; pieces have a width in bytes, so that positions and the size of a reply
are, too. Words of the dictionary are single pieces, at most 31 bytes long (longer
ones are `scan_longword`'s subject). A handler's replies are a set: the library
may fail, which looks like no match.

**Clients** has one client object with its callers, one of the three bindings
from the start on, and its connection: bytes that a cut send left behind, lines on
their way, replies on their way. The server's side is what IwordServer and
ConnBuffer show of it, one reply for each line, in order, with Requests for its
content; each line and reply carries the caller it belongs to, which only the
properties read. In Go and Python a call holds a lock from `Lock` to its end. A
read timeout in Python leaves the reply in the stream, and the reader refuses
every later read; Go's encoder and decoder keep their first error. In Node a call
puts its promise in the queue and returns; `OnData`, `OnError`, `OnClose` are the
event handlers. `close` in Python has no step: `makefile` keeps the descriptor
open until the reader is closed, and nothing closes it.

**Supervisor** has `main` of each server process as a program counter, the sockets
as the two names where processes meet (the path stays when its server dies, the
port goes back to the kernel), and the loop of `iwordd`. The calls of `main` may fail:
`pthread_create` and `unlink` in actions of their own, calls whose failures have one
outcome in one action (`ListenFails` is `listen` and `malloc`, `TcpFails` every call in
front of the port's thread; a `setsockopt` that fails shows only in a `bind` that is
refused). A signal may kill any process, and `iwordd` may
die without its server. Where `pthread_detach` is given a thread that was never
set, the process either goes on or dies.

**MC\*** modules give the constants values for TLC; IwordServer, ConnBuffer and
Supervisor need none.
**\*Proofs** modules hold the theorems. A definition whose comment begins with
"Fault:" is a plausible mistake in the code, used to test the properties: with it
in place of the definition that follows, TLC finds the property violated.

## What the runs check

| run | instance | shows |
|---|---|---|
| `server` | a patient client and one that promises nothing, 2 lines each, a socket that holds one reply | `IndInv`, `SlotAlive`: no use of a slot whose owner has left it. `NoLostWakeup`. `RepliesInOrder`. `ServiceSafe`: every step is one of SerialService. `Answered`: whatever the other does, the patient client gets its replies. `Reclaimed`: a gone client's thread ends. `ServiceSpec`: while a question waits, questions are served |
| `framing` | all streams up to 11 bytes, buffer of 5 | `LinePerRequest`: request n is line n, whole if it fits. `Drained`: a full buffer is never taken for the end of the stream |
| `scan` | texts up to 6 characters, periodic ones of 18, texts of four pieces of HTML | `FindsLongestWords` at every position in plain text. `MatchesVisibleText`: in markup what is visible of a match is the word. `MatchesInText`, `NothingUncovered`, `FitsBuffer`: what is returned. `Followed`: a start is not dropped while a word may still begin there, and a slot holds what is visible since its start. `IndInv`: the two loops agree. `Terminates` |
| `dictionary` | all files up to 4 characters, files of 4 lines out of 6, pairs of files joined under key options; 6 hash functions | `LinesParsed`: every line with a word is an entry, in order, of the characters before the first tab and the low bits of the one behind it. `LookupsAgree`: the list answers as the dictionary, and has no blocks only for a file without words. `StoredOnce`. `IndInv`: lines, hashes, their order and the headers, step by step. `Ends`. `CategoriesKept`: joined files keep their words apart and their keys |
| `shm` | 2 loaders, 1 reader, 2 loads, dictionaries of 1 block in 3 cells and of 2 in 4, misread headers lead to 5 | `ReadsInside`, `OneDictionary`, `SettledRead`, `LoadReports`: while loads do not overlap, a reader stays in its segment and sees one dictionary, and a load that succeeds is in force. `Reclaimed`: old segments are freed, overlap or not |
| `clients` | each binding; one caller with every text of up to 2 pieces out of 9 (for a map also of 3 out of 5), and two texts full of words; 2 callers with any of 4 requests; 3 callers | `AnswerIsOwn`: no call gets the reply of another. `RightAnswers`: what ends well is the answer to what was asked, through the encoder, the parser and the handlers. `RepliesFit`: the reply never outgrows its array. `CloseLosesNothing` (Node). `IndInv`: lines and replies on their way match the calls that wait and say what was asked. `CallsEnd` |
| `supervisor` | 3 server processes, 3 faults, every command line, a stale path or none | `ReachableOnceUp`: a server that came up undisturbed is the one behind its path and port. `ComesBack`: after the last fault the service is up for good. `IndInv` ties names to processes |

Why these bounds are enough to meet the interesting cases. *server*: the worker
can be at one slot while the other is queued, two lines make a connection use a
second slot while the socket holds the first reply, and the proofs hold for any
number of connections. *framing*: a line can take more than two buffers, exactly
one, or leave one byte of room; 2^11 placements of line ends, all cuts. *scan*:
`CHUNK` 2, `WIDTH` 4, `GROUP` 8, `RING` 16: words longer than a chunk, texts longer
than the ring, more than one group. *dictionary*: up to 4 blocks, with empty ones
at every place, duplicates and prefixes. *shm*: a second load can meet every step
of the first, of different sizes in both orders; header 1 shares a cell with the block
count and header 2 does not, and a place behind both segments can be named. *clients*: two characters reach
every escape and every place where a text meets a field name; three callers let
one fail, one be late and one come after; `RSZ` 140 is scaled from 131072 so that
six matches do not fit, with the 64 bytes the code leaves free unscaled.
*supervisor*: an orphan, a server that dies and the one that follows it are three
processes; three faults can lose `iwordd`, make the next server fail, and kill it.

`CHECK_DEADLOCK FALSE` is set in all configurations: bounded clients run out of
lines, a scan ends, loads run out.

**Fairness.** A thread that can take its next step does so (`ConnFairness`,
`WorkerFairness`): the scheduler's promise. The worker's wait loop may wake
spuriously but owes nothing there. `Accept`, clients that are not patient, new
loads and crashes are never owed. A patient client reads its replies. In ShmDict
a call that has begun goes on, and ends because a text is finite (strong fairness of
`Free`, which a reader can take between any two lookups and is kept from during one;
a binary search ends after eight comparisons wherever it was led). Scanner and HashList are
sequential loops: weak fairness of `Next`. In Clients a caller that can go on does,
the server answers, and Node's event loop delivers data and close events; error
events, timeouts, broken connections and closes are never owed. In Supervisor
processes run and what started `iwordd` starts it again (`Restart=always`); no fault
is owed, and their number is bounded.

## Where the code and its documents disagree

Each of these runs is expected to find its property violated.

- `scan_longword` (iword.c:536): the flag bits of slots 32 apart are the same
  bit. Pruning one slot hides the other, and a word of more than 32 bytes may
  not be found. README.md:192: "returning all matches".
- `scan_mask` (iword.c:563): `mask` of a map reply is made from the key recorded
  at the last character of each match. Spec, line 106: "Bitmask of all matched
  category keys".
- `shm_seek` (iword.c:366): a reader that attaches before the block count is
  copied divides by zero. The comment at iword.c:381 promises -1 on failure.
- `dict_heap` (iword.c:299): without a duplicate the list is one word longer than
  its memory, whose size the comment at iword.c:300 repeats.

- `client_text` (iwordserver.c:61): `json_str` drops the backslash of an escape and
  keeps the rest. Go's encoder writes `<` as `\u003c`, so the server scans a
  longer text and `FilterText` indexes the original with its positions. Spec, line
  104: "Byte offset of match in `text`".

Noticed and not run:

- The character after the end tag of a kept element is skipped (iword.c:469), so a
  tag that follows at once is scanned as text, and words lose a character;
  `MatchesVisibleText` is about texts that end with such a tag or have none
  (`KeptLast`).
- Slots are dropped as characters are read, and the characters of a tag are not. A
  slot that a long tag has carried past its turn outlives the flag bit it shares with
  a later slot; it misses what is read while the bits of its group are zero, and goes
  on, with characters left out, when the next round of the ring raises one (iword.c:
  526). So a word may be recorded that is not in the text, at a start reckoned wrong
  (iword.c:539). `MatchesVisibleText` is about matches that end in the first round.
- No header is written for blocks behind the last hash (iword.c:283): what malloc
  found there is copied into the segment, and `iword_mask`, `iword_len` and lookups in
  such a block read it, and may be led out of the segment. `LookupsAgree` says which
  headers are written, and `ReadsInside` is about dictionaries with all of them.
  `iword_data` calls `iword_len` twice (iword.c:141), and a segment that is being
  filled may change between the two.
- Loads that overlap may get the same segment and copy into it together (iword.c:218):
  then a header may be sought where a hash of the other dictionary lies, whose upper
  bits lead anywhere. Of the safety properties of `shm` nothing is left in that case.
- A file of blank lines is loaded with success as a list of no blocks (iword.c:264).
  Every lookup in it divides by zero (iword.c:367), and the mask is written behind an
  allocation of one word. `LookupsAgree` says that no other file makes such a list.
- Lines that begin with `#` are loaded as words. dict/README.md:21 says "stripped by
  iwordctl", README.md:47 "ignored"; neither `iwordctl load` nor `iword_load` looks at
  the character. `LinesParsed` and `CategoriesKept` are what the code does.
- Entities are not decoded (README.md:14 says they are); a key of two digits is cut to
  its first, although iword-server-spec.md:167 has keys 10 to 14; `status` always
  answers `loaded: true`.
- `iword_map` returns NULL for a negative size with the segment still attached
  (iword.c:434), and it stays so until the next call attaches another over it. Sizes
  in Scanner are not negative, and a call in ShmDict always detaches.
- The last line of a file given to `iwordctl load -spam` gets key 9 when it has no
  newline (`CategoriesKept` says so).
- A newline reaches the server as `n`, and Python's `\u00e9` as `u00e9`. Where the
  mode stands behind the text, a text that ends in `"mode` is taken for the mode's
  name, and the default mode is used. `Plain` names these texts.
- A map reply tells as many matches as fit and does not say that there are more.
- Python's `close` keeps the connection open as long as the client object lives.
- A listener that leaves `accept_loop`, or whose thread could not be started, is
  never replaced; a port that could not be bound is not tried again as long as the
  Unix socket works; `iwordd` restarts a server for ever that rejects its options.
  `ComesBack` states the conditions.

## What is proved

For all values of the constants, from the named assumptions in the modules.

**IwordServerProofs.** `Invariance`: `Spec => []IndInv`. The conjuncts say that a
connection has at most one node, in the queue or with the worker
(`OneNodeEach`); that a slot exists exactly while its thread is in the block
(`SlotShape`); that the worker owes an answer to exactly the slots that have none
(`OwedIffOpen`); what the worker's position implies (`WorkerShape`); and that
replies keep count (`RepliesCounted`). `SlotAlive` is not inductive: that the
owner cannot leave while the worker is in "unlock" follows from `WorkerShape`,
and that a queued slot is unanswered from `OwedIffOpen`. From the invariant
follow `SlotsStayAlive`, `WakeupsNotLost`, `RepliesStayInOrder`, `TypeCorrect`,
and `Implements`: every step maps to a step of SerialService or to none.

**ShmDictProofs.** `Fits` holds whatever overlaps: what is in a segment or on its way
into it is no larger than the segment. As long as loads do not overlap, `OneLoader` (the
one loader at work has the key to itself) and `Unmixed` (a segment holds nothing but the
dictionary it was made for) hold too, and `ReaderShape` carries them to what a reader
has read before and to where the header it goes by leads it. `ReadersStayInside` needs
all of it: a count of the dictionary, a header within that count, and one that was
written (`Sound`) or is still zero. `CallsSeeOneDictionary`, `SettledReads` and
`LoadsReport` follow from the same conjuncts.

**ConnBufferProofs.** `BufferShape`: the buffer holds the last bytes read, in
order, and whatever lies between the last line taken and the buffer was dropped
a buffer at a time, which is why a line that fits is never cut. `RequestsAreLines`
and `LeavesDrained` follow.

**ClientsProofs.** `OwnAnswer`: no call gets the reply of another, for any number of
callers, although replies bear no number. `UnderLock` is why in Go and Python: the
call under way holds the lock, and unless the reader refuses for good nothing is on
its way but the line or the reply of that call. `InStep` is why in Node: the callers
of the replies and then of the lines on their way are, in order, the first of the
queue, and all of it while the connection stands. `Contents` adds what they say: a
line that is not glued to one cut off is the encoder's, and a reply one that
dispatch makes of its line.

The rest is about one line. The encoder's pieces stand one behind the other, each at
the sum of the lengths in front of it (`Offsets`, `TextPlaced`). No place in front of
a field looks like its name in quotes (`HeadIs`, `NoneBefore`), and in a text, where a
quote is always escaped, only one that is the name of the mode or ends in `"mode` does
(`ModeInText`); so `json_str` and `json_int` find the value (`ValueFound`), and read
back what was written, one escape at a time (`ReadBack`). `Answers` puts it together:
every reply dispatch may give to the line of a request is one to that request.
`AnswersAreRight` follows, for all plain texts, and `CloseWaits`: as no reply says
"error", the server's end finds Node's queue empty. `RepliesFitSlot`: an entry takes 37
bytes with its comma (`DigitsRange`, `MatchesAre`), the entries written are those
before the first for which 64 bytes are not left (`LowerInterval`, `ShownAre`), and
64 are enough for one more, the end and the '\0'; it needs only that keys have two
digits and words 31 bytes (`RequestAssumption`), and holds for any line.

**ScannerProofs.** `Invariance` is about what is recorded and returned, and says nothing
of the slots: what was found
lies in the text, the loop that counts and the one that stores take the same turns
(`Tallied`), and behind the index of the second nothing is left uncovered (`Behind`);
`ResultInText`, `ResultFits` and `ResultComplete` follow. `WordsFollowed` is the hard
one. The bits of slots `WIDTH` apart are shared, so that dropping one start may hide
another; `Followed` says that the starts alive are those of the last `WIDTH`
characters, each in a slot and with a bit of its own, and that one that may still
become a word is alive. A start is dropped only where a prefix whose length is a
multiple of `CHUNK` is not in the dictionary, and then no word begins there. That
needs `ShortWords`, a hypothesis about the dictionaries (no word has `WIDTH` characters
or more; `scan_longword` shows what happens without it), and `AlignAssumption`
(`CHUNK` divides `WIDTH`, and `WIDTH` divides `RING`: 16, 32, 256).
`LongestWordsFound` follows: every position of a plain text gets the longest word.

`VisibleTextMatched` is about tags, for any dictionary, in texts without quotes and
comments (`SimpleMarkup`) in which nothing follows the end of a kept element
(`KeptLast`): there the theorem says that no match starts in a tag or in a kept element,
and that what is visible of it is its word. The properties say from the
text alone what is hidden: between a `<` and the next `>`, and in a kept element up to
its end. The scan works that out as it goes, with a flag and jumps. `MarkupFollowed`
is the invariant that ties the two: between steps the scan stands in visible text or
at a `<`; it is in a kept element exactly when one has been opened and not closed
(`CloseKeptMarkup`, `SkipTagMarkup`); and a slot that will be looked at again holds the
visible characters since its start, none missed and none twice (`CharVisible`,
`CharAdded`). A slot is looked at again when a bit of its group is set, or when the
group is the one being filled. That chain holds as long as slot and position are the
same number, in the first round of the ring; what goes wrong behind it is told above.
It needs that the names of kept elements are of letters and `>` is not one
(`ScannerAssumption`). `GoesForward` is what `Terminates` rests on: no step reads a
character twice, even where a tag, a comment or a kept element is left open.

**HashListProofs.** For files of any length, with words of up to 256 bytes. The inductive
invariant follows the file into the list. `LinesSoFar`
counts the lines in front of the index, which gives `FileRead`. `HashesMade` says that
the hashes are those the entries register, and that sorting keeps them and orders them:
the ranks of a strict weak order, ties broken by place, are a permutation (`Ranks`).
`ListSoFar` says that the first ones of equal hashes are stored, at the places their
numbers give, and that the header of each block reached counts the hashes of the block
(`Own`) and those in front of it (`InFront`). Equal hashes stand side by side, which gives
`EachStoredOnce`. `ListAnswers` is the whole of it: the hashes of a block lie in
order from its offset (`BlockStored`), a binary search in such a block finds what is
there (`SearchFinds`, by the smallest range for which it would not), the first of equal
hashes has the smallest key (`FirstKey`), and a string without a hash is neither a word
nor a prefix (`NoFirst`).

`CategoriesStay` is about the file that `iwordctl load` joins. `LayoutExists` gives each
character of each file its place in the joined one: files stand one behind the other at
the sums of the lengths in front (`OffsetsGrow`, `Layout`), and within a file every newline is
preceded by two characters more (`MarkedFacts`). Places rise with file and position
(`LayoutOrder`), lines begin where lines of the files begin and nowhere else
(`StartPlaced`, `StartCovered`), so they have the same numbers (`Numbered`), and the entry
of a line, which `LinesParsed` gives, is the one its file had written (`WordPlaced`).
That joined files are files HashList may be given is an assumption on the instance
(`LoadAssumption`), which asks nothing of their length. `GoesOnward` is
what `Ends` rests on: each loop moves its index on to a bound it does not change.

**SupervisorProofs.** `CleanStartIsReached` for any set of server processes. `Names`
says that a name is bound by a process that lives and listens, and what each program
counter of `main` has opened; `Waiting` that only the server `iwordd` waits for can be
dead and unreaped; `Undisturbed` carries from step to step that nobody takes a name from
a server for which nothing has gone wrong.

**SharedLemmas** has what the others share: induction up and down to a bound, recursive
functions, sums, ranks, division, least members, and where the parts of a flattened
sequence stand.

Only model-checked:

- liveness (`Answered`, both `Reclaimed`, `Terminates`, `Ends`, `CallsEnd`, `ComesBack`,
  the fair half of `ServiceSpec`), which TLAPS does not reach here: it would need
  ENABLED. For the two sequential programs `GoesForward` and `GoesOnward` prove that no
  run can go on for ever; that one does not stop early is TLC's part.

Every invariant of a passing run is stated by a theorem.

## What is not modelled

- Fields longer than the handlers' arrays (`word[1024]`, `op[64]`), modes with more
  than one digit, and lines longer than the server's buffer together with a client
  (ConnBuffer has them alone).
- Connecting, and the connect timeout of the Node client.
- The code behind `pause` in `main`: it is not reached.
- Hash collisions, the MMX variant, words longer than 256 bytes.
- What `iword_mask` reads of a segment that is being filled: over a block count of zero
  it answers with the first cell, and nothing fails. ShmDict has `iword_seekhash`'s reads alone.
- `iword_set_key`, `iword_set_strkey`, `iword_construct`, `iword_needed_size`: no
  state that a property is about. `iword_data` copies what ShmDict's readers read.
- In-process bindings, the other commands and tools: conversions around library
  calls. The PHP extension also keeps the matches of the last text between calls and
  frees them when the request ends; it does not reset the library's limit and key.

## Plan

Done: IwordServer with SerialService; ConnBuffer; Scanner; ShmDict; HashList with
Dictionary and CtlLoad; Clients with Requests; Supervisor; the proofs above.

Next: **PhpExtension**, the matches kept between calls of one request, against the
dictionary, limit and key that may change under them.
