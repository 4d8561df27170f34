----------------------------- MODULE MCComickInfo -----------------------------
(* Small instances of the detail screen for TLC.                           *)
EXTENDS ComickInfo

\* Up to three volumes of up to two parts, some unreadable, or none at all.
MCBooks == BoundedSeq(0 .. 2, 3)
===============================================================================
