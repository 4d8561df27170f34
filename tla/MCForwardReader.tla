---------------------------- MODULE MCForwardReader ----------------------------
(* Small instances of the reader paged forward, and of the reader opened in *)
(* the middle of a book, for TLC.                                          *)
EXTENDS ForwardReader

\* The opened part fits on one page, and so does a later one.
MCPages == [p \in Parts |-> IF p \in {PartCount - 1, 1} THEN 1 ELSE 2]

Forward == {1}
BothWays == {-1, 1}
===============================================================================
