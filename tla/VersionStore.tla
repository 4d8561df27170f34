---------------------------- MODULE VersionStore ----------------------------
(***************************************************************************)
(* What the write-ahead log promises to the connections of a database:     *)
(* each works on an image that was committed when it began and stays with  *)
(* it whatever others commit, one of them at a time changes the latest     *)
(* image, and a commit replaces that as a whole.  The end of the process   *)
(* loses no commit, and at most completes the one that was under way.  The *)
(* image a loss of power leaves is not described here: Wal says what it is *)
(* by the files (SyncedCommitsSurvive).                                    *)
(***************************************************************************)
CONSTANTS Conn,          \* the connections
          Page,          \* the pages of the database
          Content,       \* what a page may hold
          NoConn,        \* nobody writes
          NoView         \* a connection outside a transaction sees nothing

VARIABLES current,       \* the latest committed image
          view,          \* the image each connection sees
          writer         \* the connection that may change its view

vars == <<writer, view, current>>

Image == [Page -> Content]

Init == /\ current \in Image
        /\ view = [c \in Conn |-> NoView]
        /\ writer = NoConn

\* A connection reads what it sees.
Look == UNCHANGED vars

Begin(c) == /\ view[c] = NoView
            /\ view' = [view EXCEPT ![c] = current]
            /\ UNCHANGED <<writer, current>>

End(c) == /\ writer # c
          /\ view' = [view EXCEPT ![c] = NoView]
          /\ UNCHANGED <<writer, current>>

\* Only who sees the latest image may change it.
BeginWrite(c) == /\ writer = NoConn
                 /\ writer' = c
                 /\ view[c] = current
                 /\ UNCHANGED <<view, current>>

Write(c) == /\ writer = c
            /\ view'[c] \in Image
            /\ \E p \in Page : view' = [view EXCEPT ![c][p] = view'[c][p]]
            /\ UNCHANGED <<writer, current>>

Commit(c) == /\ writer = c
             /\ writer' = NoConn
             /\ current' = view[c]
             /\ UNCHANGED view

Rollback(c) == /\ writer = c
               /\ writer' = NoConn
               /\ view' = [view EXCEPT ![c] = current]
               /\ UNCHANGED current

Ended == /\ writer' = NoConn
         /\ view' = [c \in Conn |-> NoView]

Restart == /\ Ended
           /\ \/ current' = current
              \/ writer # NoConn /\ current' = view[writer]

PowerLoss == Ended /\ current' \in Image

Next == \/ Look \/ Restart \/ PowerLoss
        \/ \E c \in Conn : \/ Begin(c) \/ End(c) \/ BeginWrite(c) \/ Write(c)
                           \/ Commit(c) \/ Rollback(c)

Spec == Init /\ [][Next]_vars
=============================================================================
