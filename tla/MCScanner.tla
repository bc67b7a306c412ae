----------------------------- MODULE MCScanner -----------------------------
(***************************************************************************)
(* Instances of Scanner for TLC: CHUNK, WIDTH, GROUP and RING scaled down  *)
(* from 16, 32, 64, 256 with their order kept.                             *)
(***************************************************************************)
EXTENDS Scanner

Strings(C, n) == UNION {[1 .. m -> C] : m \in 0 .. n}

Calls(T, D, M, L) == [text : T, dict : D, mode : M, limit : L]

Mode(h, f, e) == [html |-> h, fbid |-> f, eng |-> e]

\* One category that is forbidden and one that is public.
Keyed(x, y) == [z \in {x, y} |-> IF z = x THEN 2 ELSE 9]

\* All short texts over two letters, and periodic ones longer than the ring.
LetterTexts ==
  Strings({"a", "b"}, 6) \union {p \o p \o p : p \in [1 .. 6 -> {"a", "b"}]}

\* Words of one to three letters: prefixes, suffixes and overlaps of each other.
LetterDicts == {
  Keyed(<<"a">>, <<"a", "b">>),
  Keyed(<<"a", "b">>, <<"b", "a">>),
  Keyed(<<"a", "b", "a">>, <<"b">>),
  Keyed(<<"a", "b", "b">>, <<"a", "b">>),
  Keyed(<<"b", "b">>, <<"a", "a", "b">>)}

Plain == Calls(LetterTexts, LetterDicts, {Mode(FALSE, TRUE, FALSE)}, {0})
           \union Calls(LetterTexts, LetterDicts, {Mode(FALSE, FALSE, FALSE)}, {1})

\* MODE_ENGLISH on texts with blanks.
English == Calls(Strings({"a", "b", " "}, 5), LetterDicts, {Mode(FALSE, TRUE, TRUE)}, {0})

\* MODE_HTML on texts put together from pieces, whole tags and broken ones.
Pieces == {<<>>, <<"a">>, <<"b">>, <<"<">>, <<">">>,
  <<"<", "a", ">">>, <<"<", "/", "a", ">">>, <<"<", "b", ">">>,
  <<"<", "b", "\"", ">", "\"">>, <<"<", "!", "-", "-", "a", "-", "-", ">">>}

HtmlTexts ==
  {p1 \o p2 \o p3 \o p4 : p1, p2, p3 \in Pieces, p4 \in {<<>>, <<"a">>, <<"<", "/", "a", ">">>}}

Html == Calls(HtmlTexts, {Keyed(<<"a">>, <<"a", "b">>), Keyed(<<"b">>, <<"b", "a">>)},
              {Mode(TRUE, TRUE, FALSE)}, {0})

AllInputs == Plain \union English \union Html

OneKeepTag == {<<"a">>}

-----------------------------------------------------------------------------
(* Inputs of the runs that show where the code and its documents disagree. *)

\* A word longer than WIDTH next to short ones.
LongWords == Calls([1 .. 10 -> {"a", "b"}], {Keyed(<<"a", "a", "a", "a", "b">>, <<"b", "b", "a">>)},
                   {Mode(FALSE, TRUE, FALSE)}, {0})

ShortTexts == Calls(Strings({"a", "b"}, 3), LetterDicts, {Mode(FALSE, TRUE, FALSE)}, {0})
=============================================================================
