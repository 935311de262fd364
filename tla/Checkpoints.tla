----------------------------- MODULE Checkpoints -----------------------------
(***************************************************************************)
(* The checkpoints of one run, what processes ask of their store and what  *)
(* it answers (checkpoint/interface.go).                                   *)
(***************************************************************************)
EXTENDS Naturals, Sequences

CONSTANTS Procs,     \* the processes that use the store
          Contents,  \* what a checkpoint can hold
          MaxSeq     \* bound on the sequence number of a checkpoint

Checkpoints == [seq : 1 .. MaxSeq, content : Contents]

\* The answer ErrNotFound.
NotFound == [seq |-> 0, content |-> "none"]

\* A request of a process; a load of 0 asks for the newest checkpoint, a load
\* of n for the newest one at or below n.
NoRequest == [op |-> "none"]
Requests ==
  [op : {"save"}, cp : Checkpoints] \cup [op : {"load"}, seq : 0 .. MaxSeq]
    \cup {[op |-> "delete"]}

Replies == [to : Procs, kind : {"saved", "stale", "loaded", "deleted", "error"},
            cp : Checkpoints \cup {NotFound}]
NoReply == [kind |-> "none"]

Newest(lines) == IF lines = <<>> THEN NotFound ELSE lines[Len(lines)]

\* The first line among those with the greatest number at or below seq.
NewestAt(lines, seq) ==
  LET old == {i \in DOMAIN lines : lines[i].seq <= seq}
      best == {i \in old : \A j \in old : \/ lines[j].seq < lines[i].seq
                                          \/ lines[j].seq = lines[i].seq /\ i <= j}
  IN  IF old = {} THEN NotFound ELSE lines[CHOOSE i \in best : TRUE]
=============================================================================
