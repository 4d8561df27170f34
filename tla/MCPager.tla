------------------------------ MODULE MCPager ------------------------------
(* Two connections, each in a process of its own or both in one.           *)
EXTENDS Pager, TLC

CONSTANTS c1, c2, p1, p2

MCConn  == {c1, c2}
Apart   == c1 :> p1 @@ c2 :> p2
Together == c1 :> p1 @@ c2 :> p1
=============================================================================
