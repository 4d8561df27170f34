--------------------------- MODULE SnapshotStore ---------------------------
(***************************************************************************)
(* What the pager promises to the connections of a database: each works on *)
(* the committed image, one of them changes a copy of it that nobody else  *)
(* sees, a commit replaces the image as a whole, and neither the end of a  *)
(* process nor a loss of power leaves anything but a committed image.  A   *)
(* loss of power may take back the last commit, and no more than that.     *)
(***************************************************************************)
CONSTANTS Conn,          \* the connections
          Page,          \* the pages of the database
          Content,       \* what a page may hold
          NoConn,        \* nobody writes
          NoView         \* a connection outside a transaction sees nothing

VARIABLES current,       \* the committed image
          durable,       \* the images a loss of power may leave
          view,          \* the image each connection sees
          writer         \* the connection that may change its view

vars == <<current, durable, view, writer>>

Image == [Page -> Content]

Init == /\ current \in Image
        /\ durable = {current}
        /\ view = [c \in Conn |-> NoView]
        /\ writer = NoConn

Begin(c) == /\ view[c] = NoView
            /\ view' = [view EXCEPT ![c] = current]
            /\ UNCHANGED <<current, durable, writer>>

End(c) == /\ writer # c
          /\ view' = [view EXCEPT ![c] = NoView]
          /\ UNCHANGED <<current, durable, writer>>

BeginWrite(c) == /\ writer = NoConn
                 /\ view[c] = current
                 /\ writer' = c
                 /\ UNCHANGED <<current, durable, view>>

Write(c) == /\ writer = c
            /\ view'[c] \in Image
            /\ \E p \in Page : view' = [view EXCEPT ![c][p] = view'[c][p]]
            /\ UNCHANGED <<current, durable, writer>>

\* Readers of the old image have left, and the commit before is durable.
Commit(c) == /\ writer = c
             /\ \A d \in Conn \ {c} : view[d] = NoView
             /\ durable = {current}
             /\ current' = view[c]
             /\ durable' = {current, view[c]}
             /\ writer' = NoConn
             /\ UNCHANGED view

Rollback(c) == /\ writer = c
               /\ view' = [view EXCEPT ![c] = current]
               /\ writer' = NoConn
               /\ UNCHANGED <<current, durable>>

\* The last commit can no longer be lost.
Settle == /\ durable' = {current}
          /\ UNCHANGED <<current, view, writer>>

\* A process ends, or a connection gives up after an I/O error.
Abandon(S) == /\ view' = [c \in Conn |-> IF c \in S THEN NoView ELSE view[c]]
              /\ writer' = IF writer \in S THEN NoConn ELSE writer
              /\ UNCHANGED <<current, durable>>

PowerLoss == /\ current' \in durable
             /\ durable' = {current'}
             /\ view' = [c \in Conn |-> NoView]
             /\ writer' = NoConn

Next == \/ \E c \in Conn : \/ Begin(c) \/ End(c) \/ BeginWrite(c)
                           \/ Write(c) \/ Commit(c) \/ Rollback(c)
        \/ Settle
        \/ \E S \in SUBSET Conn : Abandon(S)
        \/ PowerLoss

Spec == Init /\ [][Next]_vars
=============================================================================
