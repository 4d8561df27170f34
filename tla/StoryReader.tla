------------------------------ MODULE StoryReader ------------------------------
(***************************************************************************)
(* What the reader promises its user, without sections, requests or UIKit: *)
(* an interval of the book is loaded, one page of it is being read, and    *)
(* the two change independently.  A part that arrives extends the interval *)
(* at one of its ends and leaves the page alone; turning a page moves to a *)
(* neighbour in the order of the story.                                    *)
(***************************************************************************)
EXTENDS Integers

CONSTANTS
  PartCount,   \* parts of the book, the newest first
  Pages,       \* Pages[p]: number of pages of part p
  StartIndex   \* the part the reader is opened on

Parts == 0 .. PartCount - 1

VARIABLES
  newest, oldest,   \* the parts newest .. oldest are loaded
  page              \* the page being read: [part, row]

storyVars == <<newest, oldest, page>>

Loaded == newest .. oldest
Page(part, row) == [part |-> part, row |-> row]

Init ==
  /\ newest = 0 /\ oldest = -1
  /\ page = Page(StartIndex, 0)

Open ==
  /\ Loaded = {}
  /\ newest' = StartIndex /\ oldest' = StartIndex
  /\ UNCHANGED page

LoadNewer ==
  /\ Loaded # {} /\ newest > 0
  /\ newest' = newest - 1
  /\ UNCHANGED <<oldest, page>>

LoadOlder ==
  /\ Loaded # {} /\ oldest < PartCount - 1
  /\ oldest' = oldest + 1
  /\ UNCHANGED <<newest, page>>

\* q follows p in the story.  The index falls as the story goes on.
Follows(q, p) ==
  \/ q.part = p.part /\ q.row = p.row + 1
  \/ q.part = p.part - 1 /\ q.row = 0 /\ p.row = Pages[p.part] - 1

Turn ==
  \E part \in Loaded : \E row \in 0 .. Pages[part] - 1 :
    /\ Follows(Page(part, row), page) \/ Follows(page, Page(part, row))
    /\ page' = Page(part, row)
    /\ UNCHANGED <<newest, oldest>>

Next == Open \/ LoadNewer \/ LoadOlder \/ Turn

Spec == Init /\ [][Next]_storyVars
===============================================================================
