------------------------------ MODULE Requests ------------------------------
(***************************************************************************)
(* What one request means on its way: a client library makes a line of it  *)
(* (bindings/go, node, python), dispatch in tool/iwordserver.c takes the   *)
(* fields out of the line by searching for their names, calls the library, *)
(* and builds the reply.                                                   *)
(*                                                                         *)
(* Texts, words and lines are sequences of pieces: a character, a field    *)
(* name, the letters a server is left with when it drops the backslash of  *)
(* \u00e9, or a stretch of text without any word.  Width gives the bytes   *)
(* of a piece.  Words of the dictionary are single pieces here: how        *)
(* iword_map finds them is Scanner's subject.  There is no ">", so a tag   *)
(* that is opened hides the rest of the text.  The mask of a reply is      *)
(* Scanner's subject, too.  Fields that are longer than the server's       *)
(* arrays, and lines longer than its buffer (ConnBuffer), are left out.    *)
(***************************************************************************)
EXTENDS Integers, Sequences, FiniteSets, FiniteSetsExt, SequencesExt

CONSTANTS
  Dict,               \* the dictionary: the key of each piece that is a word
  Width,              \* the bytes of every piece
  RSZ                 \* sizeof(slot->resp)

Quote     == "\""
Backslash == "\\"
Newline   == "\n"
Accent    == "e'"     \* a character beyond ASCII
Open      == "<"
Space     == " "
Comma     == ","

\* The pieces lines are made of.
Pieces ==
  DOMAIN Width
  \union {Quote, Backslash, Newline, Accent, Open, "n", "u00e9", "u003c", ":", Space, Comma,
          "op", "text", "word", "mode", "seek", "map", "mask", "status", "ping", "0", "1", "2", "3"}

Bindings == {"go", "node", "python"}

\* The modes, as they are written.
Digit == [x \in {"0", "1", "2", "3"} |-> CASE x = "0" -> 0 [] x = "1" -> 1 [] x = "2" -> 2 [] OTHER -> 3]

FORBID_NUM == 5       \* IWORD_FORBID_NUM

DEFAULT_MODE == 3     \* IWORD_MODE_HTML | IWORD_MODE_FORBID

ASSUME RequestAssumption ==
  /\ {Quote, Backslash, Newline, Accent, Open} \subseteq DOMAIN Width
  /\ DOMAIN Dict \subseteq DOMAIN Width \ {Open}
  /\ \A x \in DOMAIN Width : Width[x] \in Nat
  /\ \A x \in DOMAIN Dict : Dict[x] \in 0 .. 14 /\ Width[x] \in 1 .. 31
  /\ RSZ \in Nat /\ 64 < RSZ

-----------------------------------------------------------------------------
(* The clients: a request [op, arg, mode] becomes a line.                  *)

\* What the JSON encoders write for one piece of a string: Python's escapes all
\* that is not ASCII, Go's escapes "<" too.
Escaped(binding, x) ==
  CASE x \in {Quote, Backslash}             -> <<Backslash, x>>
    [] x = Newline                          -> <<Backslash, "n">>
    [] x = Accent /\ binding = "python"     -> <<Backslash, "u00e9">>
    [] x = Open /\ binding = "go"           -> <<Backslash, "u003c">>
    [] OTHER                                -> <<x>>

String(binding, s) ==
  <<Quote>> \o FlattenSeq([k \in DOMAIN s |-> Escaped(binding, s[k])]) \o <<Quote>>

\* Python's encoder puts a space behind a colon.
Field(binding, name, value) ==
  <<Quote, name, Quote, ":">> \o (IF binding = "python" THEN <<Space>> ELSE <<>>) \o value

\* The fields of a request in the order of the line: Go sorts them.
Encode(binding, r) ==
  LET op   == Field(binding, "op", <<Quote, r.op, Quote>>)
      text == Field(binding, "text", String(binding, r.arg))
      word == Field(binding, "word", String(binding, r.arg))
      mode == Field(binding, "mode", <<r.mode>>)
      comma == <<Comma>>
  IN  CASE r.op = "seek" -> op \o comma \o word
        [] r.op = "map" /\ binding = "go" -> mode \o comma \o op \o comma \o text
        [] r.op = "map" /\ binding # "go" -> op \o comma \o text \o comma \o mode
        [] OTHER -> op

-----------------------------------------------------------------------------
(* json_str and json_int                                                   *)

\* The places of a line behind the name in quotes.
Behind(line, name) ==
  {k \in 4 .. Len(line) + 1 : line[k - 2] = name /\ line[k - 3] = Quote /\ line[k - 1] = Quote}

\* Where the value of the first of them begins: strstr finds no other.
ValueAt(line, name) ==
  {Min({m \in Min(ks) .. Len(line) : line[m] \notin {Space, ":"}} \union {Len(line) + 1}) :
     ks \in {Behind(line, name)} \ {{}}}
  \intersect DOMAIN line

\* Fault: a backslash does not take the next character with it.
UnescapedPlain(line, at) ==
  LET U[k \in 1 .. Len(line) + 2] ==
        IF k > Len(line) \/ line[k] = Quote THEN <<>>
        ELSE IF line[k] = Backslash THEN U[k + 1]
        ELSE <<line[k]>> \o U[k + 1]
  IN  U[at]

\* From there to the next quote, every backslash dropped and what follows it
\* kept as it is.
Unescaped(line, at) ==
  LET U[k \in 1 .. Len(line) + 2] ==
        IF k > Len(line) \/ line[k] = Quote THEN <<>>
        ELSE IF line[k] = Backslash /\ k < Len(line) THEN <<line[k + 1]>> \o U[k + 2]
        ELSE <<line[k]>> \o U[k + 1]
  IN  U[at]

\* The value, if there is one.
json_str(line, name) ==
  {Unescaped(line, m + 1) : m \in {n \in ValueAt(line, name) : line[n] = Quote}}

json_int(line, name, def) ==
  LET digits == {line[m] : m \in ValueAt(line, name)} \intersect DOMAIN Digit
  IN  IF digits = {} THEN def ELSE Digit[CHOOSE d \in digits : TRUE]

-----------------------------------------------------------------------------
(* The library, as the handlers use it.                                    *)

Bytes(s) == MapThenSumSet(LAMBDA k : Width[s[k]], DOMAIN s)

\* iword_seek
Seek(word) == IF Len(word) = 1 /\ word[1] \in DOMAIN Dict THEN Dict[word[1]] ELSE -1

\* iword_map: bit 0 of the mode hides what follows a "<"; without bit 1 the words
\* whose key is below FORBID_NUM are not returned.
Matched(text, mode, k) ==
  /\ text[k] \in DOMAIN Dict
  /\ mode % 2 = 1 => \A n \in 1 .. k - 1 : text[n] # Open
  /\ mode < 2 => Dict[text[k]] >= FORBID_NUM

Matches(text, mode) ==
  LET ks == {k \in DOMAIN text : Matched(text, mode, k)}
      Entry(k) == [pos |-> Bytes(SubSeq(text, 1, k - 1)), len |-> Width[text[k]], key |-> Dict[text[k]]]
  IN  [n \in 1 .. Cardinality(ks) |->
         Entry(CHOOSE k \in ks : Cardinality({m \in ks : m <= k}) = n)]

-----------------------------------------------------------------------------
(* dispatch and its handlers                                               *)

Powers == <<10, 100, 1000, 10000, 100000, 1000000, 10000000, 100000000, 1000000000>>

\* What %d makes of an int that is not negative.
Digits(n) == 1 + Cardinality({d \in DOMAIN Powers : n >= Powers[d]})

\* The bytes of {"pos":N,"len":N,"key":N}, and of the reply around such entries,
\* with the five digits the mask may have.
EntryBytes(x) == 22 + Digits(x.pos) + Digits(x.len) + Digits(x.key)
HeadBytes == 12
TailBytes == 16

\* What the reply has filled when the first n entries are in it.
Filled(found, n) ==
  LET F[k \in 0 .. n] ==
        IF k = 0 THEN HeadBytes ELSE F[k - 1] + (IF k > 1 THEN 1 ELSE 0) + EntryBytes(found[k])
  IN  F[n]

\* Fault: the loop does not leave room for a whole entry.
ShownAll(found) == Cardinality({n \in DOMAIN found : Filled(found, n - 1) < RSZ - 16})

\* The entries for which there is room: each is written while more than 64 bytes
\* are left, and the others are not mentioned.
Shown(found) == Cardinality({n \in DOMAIN found : Filled(found, n - 1) < RSZ - 64})

\* The replies a handler may give.  `null' marks those it gives when the call of
\* the library fails: there is no dictionary, or no memory.
Error == [kind |-> "error"]

Or(replies) == IF replies = {} THEN {Error} ELSE replies

handle_seek(line) ==
  Or({[kind |-> "seek", key |-> Seek(word), null |-> FALSE] : word \in json_str(line, "word")}
     \union {[kind |-> "seek", key |-> -1, null |-> TRUE] : word \in json_str(line, "word")})

MapReply(found) ==
  [kind |-> "map", matches |-> SubSeq(found, 1, Shown(found)),
   bytes |-> Filled(found, Shown(found)) + TailBytes, null |-> FALSE]

NullReply ==
  [kind |-> "map", matches |-> <<>>, bytes |-> HeadBytes + TailBytes, null |-> TRUE]

handle_map(line) ==
  LET texts == json_str(line, "text")
      mode  == json_int(line, "mode", DEFAULT_MODE)
  IN  Or({MapReply(found) : found \in {Matches(text, mode) : text \in texts}}
         \union {NullReply : text \in texts})

handle_mask == {[kind |-> "mask"]}

dispatch(line) ==
  LET op == json_str(line, "op")
  IN  CASE op = {<<"seek">>}   -> handle_seek(line)
        [] op = {<<"map">>}    -> handle_map(line)
        [] op = {<<"mask">>}   -> handle_mask
        [] op = {<<"status">>} -> {[kind |-> "status"]}
        [] op = {<<"ping">>}   -> {[kind |-> "ping"]}
        [] OTHER               -> {Error}
=============================================================================
