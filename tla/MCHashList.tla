----------------------------- MODULE MCHashList -----------------------------
(***************************************************************************)
(* Instances of HashList behind CtlLoad for TLC: CHUNK and BSIZE scaled    *)
(* down from 16 and 6.                                                     *)
(***************************************************************************)
EXTENDS CtlLoad

Letters == {"x", "y"}

\* "y" as a key is 15, as "o", "/" and "?" are.
LowBits ==
  "x" :> 2 @@ "y" :> 15 @@ Tab :> 9 @@ Newline :> 10
  @@ "1" :> 1 @@ "2" :> 2 @@ "9" :> 9 @@ "@" :> 0

\* -16 is a key too: its character is "@".  That of -218 is a newline.
KeyChars == 1 :> "1" @@ 2 :> "2" @@ 9 :> "9" @@ 16 :> "@" @@ 218 :> Newline

Texts(C, n) == UNION {[1 .. m -> C] : m \in 0 .. n}

UpToFive == Texts(Letters, 5) \ {<<>>}

\* Each string's number, and hash functions that spread the numbers.
Code(s) == FoldLeft(LAMBDA c, x : 2 * c + (IF x = "x" THEN 1 ELSE 2), 0, s)

Spread(k, m) ==
  [a |-> [s \in UpToFive |-> (Code(s) * k) % 61],
   b |-> [s \in UpToFive |-> (16 * ((Code(s) * m) % 67)) + ((Code(s) * 5) % 16)]]

SomeHashes ==
  <<Spread(1, 1), Spread(7, 1), Spread(24, 1), Spread(1, 29), Spread(7, 29), Spread(24, 29)>>

\* Every short file.
ShortFiles == Texts({"x", "y", Tab, Newline}, 4)

\* Files of up to four lines, with words that are prefixes of each other, or
\* that are there twice under different keys.
Lines == {<<"x">>, <<"x", "y", Tab, "x">>, <<"x", "y">>, <<"x", "y", "x">>,
          <<"y", "y", "x", "y", "x", Tab, "x">>, <<"y", Tab, "y">>}

LineFiles ==
  {l1 \o <<Newline>> \o l2 \o <<Newline>> \o l3 \o <<Newline>> \o l4 : l1, l2, l3, l4 \in Lines}

\* Files to be joined, with and without a newline at the end.
Parts ==
  {[file |-> f] : f \in {<<"x">>, <<Newline, "x", Newline>>, <<"y", Newline, "x", "y">>,
                        <<"x", Tab, "y", Newline, "y", Newline>>}}

SomeCommands ==
  {<<[file |-> f]>> : f \in ShortFiles \union LineFiles}
  \union Parts \X Parts
  \union {<<p, f, o, g>> : p \in {[key |-> 2], [other |-> None]}, o \in {[key |-> 1], [key |-> 16], [key |-> 218]},
                          f, g \in Parts}

AllFiles == {Loaded(c) : c \in SomeCommands}
=============================================================================
