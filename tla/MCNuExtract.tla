----------------------------- MODULE MCNuExtract -----------------------------
(* Pages of NuExtract for TLC: short blocks, a heading, one long line, wide *)
(* runes, and a heading glued to its text.                                  *)
EXTENDS NuExtract

MCRunes == {"a", "b", "w", "_", "#", "\n"}

MCBlocks ==
  { <<"a", "a">>, <<"w", "w", "w">>, <<"a", "\n", "b", "b">>,
    <<"#", "_", "b">>, <<"b", "b", "b", "w", "b", "b">>,
    <<"a", "\n", "#", "_", "a", "\n", "w", "a">> }

\* Without the field, with a number or a text in it, or with a list: an empty
\* one, and lists of numbers, of texts and brackets, and of lists.
MCObjects ==
  LET Member(value) == <<"lbrace", "'", "x", "'", ":">> \o value \o <<"rbrace">>
  IN  {<<"lbrace", "rbrace">>, Member(<<"1">>),
       Member(<<"'", "x", "comma", "]", "'">>), Member(<<"[", "]">>),
       Member(<<"[", "1", "comma", "1", "]">>),
       Member(<<"[", "'", "\\", "'", "comma", "'", "comma", "lbrace", "rbrace", "]">>),
       Member(<<"[", "[", "1", "comma", "1", "]", "comma", "[", "]", "]">>)}
=============================================================================
