-------------------------- MODULE ConversationView --------------------------
(***************************************************************************)
(* What a console that follows a conversation promises to show: nothing,   *)
(* or a run of the conversation's records in their order, none of them     *)
(* left out.  Records are added at the end, and a title may be put before  *)
(* others: a view that reaches beyond it is closed with it.  The view may  *)
(* be extended or replaced, by one that ends no earlier, until it is       *)
(* closed.                                                                 *)
(* JournalStream implements it over a stream, pages and reconnections      *)
(* (dshwire/session.go, dshstream/follow.go and gateway/client.js).        *)
(***************************************************************************)
EXTENDS Integers, Sequences

CONSTANTS Records  \* what can be logged
VARIABLES log,     \* the conversation
          view     \* what is shown of it: the number of its first record, and its records

vars == <<log, view>>

Closed == [open |-> FALSE, first |-> 0, recs |-> <<>>]
End(v) == v.first + Len(v.recs) - 1

Init == log = <<>> /\ view = Closed

Write ==
  /\ Len(log') = Len(log) + 1
  /\ \E r \in Records, place \in 0 .. Len(log) :
       /\ log' = SubSeq(log, 1, place) \o <<r>> \o SubSeq(log, place + 1, Len(log))
       /\ view' = IF End(view) <= place THEN view ELSE Closed

\* A view of no records is one of an empty log, numbered 0.
Show ==
  /\ UNCHANGED log
  /\ LET first == view'.first
         last == End(view')
     IN  /\ first \in 0 .. Len(log) /\ last \in -1 .. Len(log)
         /\ IF first = 0 THEN last = -1 ELSE first <= last
         /\ view' = [open |-> TRUE, first |-> first, recs |-> SubSeq(log, first, last)]
  /\ view.open => End(view') >= End(view)

Close == view' = Closed /\ UNCHANGED log

Next == Write \/ Show \/ Close

Spec == Init /\ [][Next]_vars
=============================================================================
