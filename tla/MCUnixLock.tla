----------------------------- MODULE MCUnixLock -----------------------------
(* Two connections of one process and one of another.                      *)
EXTENDS UnixLock, TLC

CONSTANTS c1, c2, c3, p1, p2

MCConn == {c1, c2, c3}
MCProc == {p1, p2}
MCHome == c1 :> p1 @@ c2 :> p1 @@ c3 :> p2
MCMain == {c2}
=============================================================================
