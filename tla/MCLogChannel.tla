---------------------------- MODULE MCLogChannel ----------------------------
(***************************************************************************)
(* One line of plain text, and one that ends in a two-byte character.      *)
(***************************************************************************)
EXTENDS LogChannel

MCLines == {<<"a", "nl">>, <<"a", "hi", "lo", "nl">>}
=============================================================================
