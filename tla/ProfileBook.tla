---------------------------- MODULE ProfileBook ----------------------------
(***************************************************************************)
(* What the profiles promise: a book with one profile for each id, that    *)
(* one entry at a time is written to or taken from, and a saved book that  *)
(* is always the whole of what the open book was after some change.        *)
(***************************************************************************)
CONSTANTS Ids, Contents, None

VARIABLES open, book, saved
vars == <<open, book, saved>>

Books == [Ids -> Contents \cup {None}]
Empty == [id \in Ids |-> None]

Init == open = FALSE /\ book = Empty /\ saved = Empty

\* The saved book, or nothing when it cannot be read.
Open ==
  /\ ~open /\ open' = TRUE
  /\ book' \in {saved, Empty}
  /\ UNCHANGED saved

\* One entry changes; the book as it is then is saved, or that fails.
Change ==
  /\ open
  /\ book' \in Books
  /\ \E id \in Ids : \A other \in Ids \ {id} : book'[other] = book[other]
  /\ saved' = saved \/ saved' = book'
  /\ UNCHANGED open

Close == open /\ open' = FALSE /\ book' = Empty /\ UNCHANGED saved

Next == Open \/ Change \/ Close
Spec == Init /\ [][Next]_vars
=============================================================================
