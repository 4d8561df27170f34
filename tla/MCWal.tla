------------------------------- MODULE MCWal -------------------------------
(* Two connections of one process on a database of two pages.               *)
EXTENDS Wal, TLC

CONSTANTS c1, c2

MCConn == {c1, c2}
Alike  == Permutations(MCConn)
=============================================================================
