---------------------------- MODULE MCReadContentV ----------------------------
(* Small instances of the reader for TLC.                                  *)
EXTENDS ReadContentV

\* Part 1 fits on one page; the server lists no picture for part 0.
MCPages == [p \in Parts |-> CASE p = 0 -> 0 [] p = 1 -> 1 [] OTHER -> 2]

\* The user turns pages both ways.
BothWays == {-1, 1}
===============================================================================
