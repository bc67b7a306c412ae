---------------------------- MODULE Dictionary ----------------------------
(***************************************************************************)
(* What a lookup in a loaded dictionary answers.  Scanner's searches rely  *)
(* on it, and HashList shows that the list iword_makelist builds and the   *)
(* search of iword_seekhash answer so.                                     *)
(*                                                                         *)
(* A dictionary is a function from words, which are sequences of           *)
(* characters, to keys.                                                    *)
(***************************************************************************)
EXTENDS Integers, Sequences

CONSTANT CHUNK          \* 16 in the code

ASSUME ChunkAssumption == CHUNK \in Nat \ {0}

\* Fault: the prefixes are registered one character short.
RegisteredShort(dict, h) ==
  /\ h # <<>> /\ (Len(h) + 1) % CHUNK = 0
  /\ \E x \in DOMAIN dict : Len(h) < Len(x) /\ SubSeq(x, 1, Len(h)) = h

\* The proper prefixes of words that are registered beside the words.
Registered(dict, h) ==
  /\ h # <<>> /\ Len(h) % CHUNK = 0
  /\ \E x \in DOMAIN dict : Len(h) < Len(x) /\ SubSeq(x, 1, Len(h)) = h

\* The key of a word, 15 for a prefix that is registered and is no word, -1 for
\* anything else.
Lookup(dict, h) ==
  IF h \in DOMAIN dict THEN dict[h] ELSE IF Registered(dict, h) THEN 15 ELSE -1
=============================================================================
