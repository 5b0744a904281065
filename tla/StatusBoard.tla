----------------------------- MODULE StatusBoard -----------------------------
(***************************************************************************)
(* What ProductStatusPage promises, without its mechanism: a board for one *)
(* selected product at a time.  Every choice or refresh asks about the     *)
(* product now selected and wipes the board; every answer to a question    *)
(* still open is put on the board as a whole; a closed board is blank      *)
(* and asks nothing any more.  Questions are never withdrawn and are       *)
(* answered in any order: the promise does not include that the board      *)
(* shows the product selected last, because the page does not keep that.   *)
(***************************************************************************)
EXTENDS Naturals

CONSTANTS Codes, Tickets, Blank, Nothing

VARIABLES
  open,       \* the page is mounted
  selection,  \* the product the user asked for last
  pending,    \* questions without an answer: <<ticket, code>>
  used,       \* tickets given out so far
  board       \* Blank, Nothing ("No statuses available.") or the product described

boardVars == <<open, selection, pending, used, board>>

BoardTypeOK ==
  /\ open \in BOOLEAN
  /\ selection \in Codes
  /\ pending \subseteq Tickets \X Codes
  /\ used \subseteq Tickets
  /\ board \in Codes \cup {Blank, Nothing}

BoardInit ==
  /\ open = TRUE
  /\ selection \in Codes
  /\ pending = {} /\ used = {}
  /\ board = Blank

Ask(t, c) ==
  /\ open /\ t \in Tickets \ used
  /\ selection' = c
  /\ pending' = pending \cup {<<t, c>>}
  /\ used' = used \cup {t}
  /\ board' = Blank
  /\ UNCHANGED open

Answer(t, c) ==
  /\ open /\ <<t, c>> \in pending
  /\ pending' = pending \ {<<t, c>>}
  /\ board' \in {c, Nothing}
  /\ UNCHANGED <<open, selection, used>>

\* An answer for a closed board is thrown away.
Discard(t, c) ==
  /\ ~open /\ <<t, c>> \in pending
  /\ pending' = pending \ {<<t, c>>}
  /\ UNCHANGED <<open, selection, used, board>>

Close ==
  /\ open /\ open' = FALSE
  /\ board' = Blank
  /\ UNCHANGED <<selection, pending, used>>

BoardNext ==
  \/ \E t \in Tickets, c \in Codes : Ask(t, c) \/ Answer(t, c) \/ Discard(t, c)
  \/ Close

BoardSpec == BoardInit /\ [][BoardNext]_boardVars

\* Every question is answered or thrown away.
FairBoardSpec ==
  /\ BoardSpec
  /\ \A t \in Tickets, c \in Codes : WF_boardVars(Answer(t, c) \/ Discard(t, c))
==============================================================================
