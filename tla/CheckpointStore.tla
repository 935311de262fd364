--------------------------- MODULE CheckpointStore ---------------------------
(***************************************************************************)
(* What checkpoint.HistoricalStore promises the agents of one run: an      *)
(* increasing sequence of checkpoints.  A Save takes effect at one instant *)
(* between its call and its return, or never; an answer tells the truth at *)
(* the instant it is given; a process that dies forgets its call and       *)
(* nothing else.  A Delete that is cut short promises nothing until it has *)
(* been repeated to its end.                                               *)
(***************************************************************************)
EXTENDS Checkpoints

VARIABLES saved,    \* the checkpoints the run has, oldest first
          request,  \* what each process asks for
          reply,    \* the last answer
          cut       \* a Delete has begun and not ended

vars == <<saved, request, reply, cut>>

Init ==
  /\ saved = <<>> /\ request = [p \in Procs |-> NoRequest]
  /\ reply = NoReply /\ cut = FALSE

Call(p) ==
  /\ request[p] = NoRequest
  /\ \E r \in Requests : request' = [request EXCEPT ![p] = r]
  /\ UNCHANGED <<saved, reply, cut>>

\* The instant a Save takes effect.
Commit(p) ==
  /\ request[p].op = "save" /\ request[p].cp.seq > Newest(saved).seq
  /\ saved' = Append(saved, request[p].cp)
  /\ UNCHANGED <<request, reply, cut>>

Answer(p, kind, cp) ==
  /\ request[p] # NoRequest
  /\ reply' = [to |-> p, kind |-> kind, cp |-> cp]
  /\ request' = [request EXCEPT ![p] = NoRequest]
  /\ UNCHANGED <<saved, cut>>

Saved(p) ==
  request[p].op = "save" /\ request[p].cp = Newest(saved) /\ Answer(p, "saved", request[p].cp)
Stale(p) ==
  request[p].op = "save" /\ request[p].cp.seq <= Newest(saved).seq /\ Answer(p, "stale", NotFound)
Loaded(p) ==
  /\ request[p].op = "load"
  /\ Answer(p, "loaded", IF request[p].seq = 0 THEN Newest(saved)
                         ELSE NewestAt(saved, request[p].seq))
Deleted(p) ==
  request[p].op = "delete" /\ saved = <<>> /\ Answer(p, "deleted", NotFound)
Fails(p) == Answer(p, "error", NotFound)

\* A Delete leaves the promised states, and comes back when nothing is left.
BeginDelete(p) ==
  /\ request[p].op = "delete" /\ saved # <<>>
  /\ cut' = TRUE /\ UNCHANGED <<request, reply>>
EndDelete(p) ==
  request[p].op = "delete" /\ saved' = <<>> /\ ~cut' /\ UNCHANGED <<request, reply>>

Die(p) ==
  request' = [request EXCEPT ![p] = NoRequest] /\ UNCHANGED <<saved, reply, cut>>

Step(p) ==
  \/ Call(p) \/ Commit(p) \/ Saved(p) \/ Stale(p) \/ Loaded(p) \/ Deleted(p)
  \/ Fails(p) \/ BeginDelete(p) \/ EndDelete(p) \/ Die(p)

Next == (\E p \in Procs : Step(p)) \/ (cut /\ cut')

Spec == Init /\ [][Next]_vars
=============================================================================
