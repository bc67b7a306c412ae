----------------------------- MODULE MCClients -----------------------------
(***************************************************************************)
(* Instances of Clients for TLC: one caller with any short text, or two    *)
(* and three callers with a few requests.                                  *)
(***************************************************************************)
EXTENDS Clients

\* A word of one byte that every mode returns, a long one, and one whose key is
\* below FORBID_NUM.
Words == "w" :> 9 @@ "W" :> 14 @@ Accent :> 2

\* "pad" is a stretch of text that holds no word.
Bytewidth ==
  "w" :> 1 @@ "W" :> 30 @@ "pad" :> 60000 @@ "op" :> 2 @@ "text" :> 4 @@ "mode" :> 4
  @@ "n" :> 1 @@ "u00e9" :> 5 @@ "u003c" :> 5
  @@ Quote :> 1 @@ Backslash :> 1 @@ Newline :> 1 @@ Accent :> 2 @@ Open :> 1

Ask(op, arg, mode) == [op |-> op, arg |-> arg, mode |-> mode]

Alphabet == {"w", "op", "text", "mode", Quote, Backslash, Newline, Accent, Open}

ShortTexts == UNION {[1 .. n -> Alphabet] : n \in 0 .. 2}

\* A text of three pieces may hold the name of a field in quotes.
Texts == ShortTexts \union [1 .. 3 -> {"w", "mode", Quote, Backslash, Accent}]

\* Texts with so many words that not all of their matches are told.
FullTexts == {<<"pad", "W", "W", "W", "W", "W", "W">>, <<"w", "w", "w", "w", "w", "w">>}

\* Mode 3 is what the server takes when it finds none.
OneCaller ==
  {<<Ask("map", t, "0")>> : t \in Texts \union FullTexts} \union {<<Ask("seek", t, "0")>> : t \in ShortTexts}

Ping == Ask("ping", <<>>, "0")

Menu == {Ask("seek", <<"w">>, "0"), Ask("map", <<Quote, "w">>, "3"), Ask("mask", <<>>, "0"), Ping}

TwoCallers == Menu \X Menu

ThreeCallers == {<<Ping, Ping, Ask("seek", <<"w">>, "0")>>}

SomeScripts == OneCaller \union TwoCallers \union ThreeCallers

OneMap == {<<Ask("map", t, "0")>> : t \in Texts}
=============================================================================
