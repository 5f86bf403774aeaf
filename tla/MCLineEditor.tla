---------------------------- MODULE MCLineEditor ----------------------------
(* LineEditor on a screen of a few cells, smaller than the longest line is *)
(* long in rows, so that a line wraps and the screen scrolls under it.     *)
EXTENDS LineEditor

MCPrompt == <<Text>>
MCOutput == {<<>>, <<Text, Newline>>, <<Text, Text>>}
=============================================================================
