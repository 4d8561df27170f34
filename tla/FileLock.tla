------------------------------ MODULE FileLock ------------------------------
(***************************************************************************)
(* What the lock ladder of a database file promises to the connections     *)
(* that climb it, whatever process they live in and whatever the system    *)
(* calls underneath.  The levels are those of os.h; a connection with a    *)
(* level reads, the one with RESERVED_LOCK prepares a change, the one with *)
(* PENDING_LOCK keeps new readers out, the one with EXCLUSIVE_LOCK is      *)
(* alone and may write the file.                                           *)
(***************************************************************************)
EXTENDS Naturals

CONSTANTS Conn,          \* the connections to one database file
          Home           \* the process of each

VARIABLE held            \* the lock each connection may rely on

NO_LOCK        == 0
SHARED_LOCK    == 1
RESERVED_LOCK  == 2
PENDING_LOCK   == 3
EXCLUSIVE_LOCK == 4
Level == NO_LOCK .. EXCLUSIVE_LOCK

Others(c) == Conn \ {c}

Init == held = [c \in Conn |-> NO_LOCK]

Siblings(c) == {d \in Others(c) : Home[d] = Home[c]}

\* A new reader: refused once somebody waits for the readers to go, unless it
\* comes in beside a reader of its own process.
Share(c) ==
  /\ held[c] = NO_LOCK
  /\ \A d \in Others(c) : held[d] # EXCLUSIVE_LOCK
  /\ \/ \A d \in Others(c) : held[d] < PENDING_LOCK
     \/ /\ \E d \in Siblings(c) : held[d] >= SHARED_LOCK
        /\ \A d \in Siblings(c) : held[d] < PENDING_LOCK
  /\ held' = [held EXCEPT ![c] = SHARED_LOCK]

\* The intent to write: one connection at a time, next to any readers.
Reserve(c) ==
  /\ held[c] = SHARED_LOCK
  /\ \A d \in Others(c) : held[d] \notin {RESERVED_LOCK, EXCLUSIVE_LOCK}
  /\ held' = [held EXCEPT ![c] = RESERVED_LOCK]

\* An attempt at EXCLUSIVE_LOCK that found readers keeps new ones out.
Pend(c) ==
  /\ held[c] \in {SHARED_LOCK, RESERVED_LOCK}
  /\ \A d \in Others(c) : held[d] < PENDING_LOCK
  /\ held' = [held EXCEPT ![c] = PENDING_LOCK]

Exclude(c) ==
  /\ held[c] \in SHARED_LOCK .. PENDING_LOCK
  /\ \A d \in Others(c) : held[d] = NO_LOCK
  /\ held' = [held EXCEPT ![c] = EXCLUSIVE_LOCK]

Release(c, to) ==
  /\ held[c] > to
  /\ held' = [held EXCEPT ![c] = to]

\* The end of a process takes every lock of its connections.
Abandon(S) == held' = [c \in Conn |-> IF c \in S THEN NO_LOCK ELSE held[c]]

Next == \/ \E c \in Conn : \/ Share(c) \/ Reserve(c) \/ Pend(c) \/ Exclude(c)
                           \/ \E to \in {NO_LOCK, SHARED_LOCK} : Release(c, to)
        \/ \E S \in SUBSET Conn : Abandon(S)

Spec == Init /\ [][Next]_held
=============================================================================
