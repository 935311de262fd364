------------------------------ MODULE Approvals ------------------------------
(***************************************************************************)
(* One approval request: the run that asks, the broker it asks through and *)
(* the operators who answer (approval/broker.go, store_broker.go, the      *)
(* inboxes of approval/memory and approval/sqlite, and agent.go where it   *)
(* asks and where it resumes a run that waits).                            *)
(*                                                                         *)
(* A host has either broker: the PendingBroker, whose requests live in the *)
(* process, alone or behind WithTimeout; or the StoreBroker, which polls   *)
(* an inbox that outlives it, for a request with or without an expiry.     *)
(* The text of a request is left out but for the time it was made, which   *)
(* the inbox compares; a decision is its action.                           *)
(***************************************************************************)
EXTENDS Naturals, FiniteSets

CONSTANTS Operators,   \* those who answer
          MaxCrashes,  \* bound on the crashes of the run's process
          TimedInbox   \* a host may put WithTimeout around the StoreBroker

ASSUME ApprovalAssumption == MaxCrashes \in Nat /\ TimedInbox \in BOOLEAN

VARIABLES
  broker,    \* the host's broker: "pending" or "inbox"
  limit,     \* what bounds the wait: "none", the "request" or a "timeout"
  past,      \* it is past
  inbox,     \* the durable record of the request
  entry,     \* the wait is in the PendingBroker's map
  channel,   \* the decision in its channel
  run,       \* the run's goroutine
  saved,     \* the run's checkpoint
  cancelled, \* the run's context
  oper,      \* the operators' calls of Submit
  crashes

host == <<broker, limit>>
pending == <<entry, channel>>
vars == <<host, past, inbox, pending, run, saved, cancelled, oper, crashes>>

Answers == {"approve", "reject"}
None == "none"
Decisions == Answers \cup {"expired"}

NoRecord == [status |-> "none", made |-> 0, decision |-> None]
Idle == [at |-> "idle", decision |-> None, past |-> FALSE]

Init ==
  /\ \/ broker = "pending" /\ limit \in {"none", "timeout"}
     \/ broker = "inbox" /\ limit \in {"none", "request"}
     \/ broker = "inbox" /\ limit = "timeout" /\ TimedInbox
  /\ past = FALSE /\ inbox = NoRecord /\ entry = FALSE /\ channel = None
  /\ run = [at |-> "start", made |-> 0, decision |-> None]
  /\ saved = "nothing" /\ cancelled = FALSE
  /\ oper = [o \in Operators |-> Idle] /\ crashes = 0

-----------------------------------------------------------------------------
\* Resolve, one transaction of the inbox: the first decision stays, and after the
\* expiry the only one to come is that the request has expired.
\* Mutant: a later decision replaces the first.
ResolvableAnyway(d, isPast) == isPast => d = "expired"

Resolvable(d, isPast) == inbox.status = "pending" /\ (isPast => d = "expired")
Resolved(d) == inbox' = [inbox EXCEPT !.status = "resolved", !.decision = d]

\* The context the broker waits under, which WithTimeout bounds.
Done == cancelled \/ (limit = "timeout" /\ past)

Goes(place) == run' = [run EXCEPT !.at = place]
Returns(d) == run' = [run EXCEPT !.at = "answered", !.decision = d]

\* Request ends without a decision: as a rejection if the time is up, else the run ends.
GivesUp == IF cancelled THEN Goes("stopped") ELSE Returns("expired")

-----------------------------------------------------------------------------
\* The run checkpoints that it waits, and registers the request with an inbox before
\* it tells of it.
AskFirst ==
  /\ run.at = "start"
  /\ run' = [run EXCEPT !.at = "register", !.made = crashes + 1] /\ saved' = "waiting"
  /\ UNCHANGED <<host, past, inbox, pending, cancelled, oper, crashes>>

\* Registering again is idempotent for the same request, which includes its time.
Register ==
  /\ run.at = "register"
  /\ \/ broker = "pending" /\ Goes("ask") /\ UNCHANGED inbox
     \/ /\ broker = "inbox" /\ inbox.status = "none"
        /\ inbox' = [status |-> "pending", made |-> run.made, decision |-> None] /\ Goes("ask")
     \/ /\ broker = "inbox" /\ inbox.status # "none" /\ UNCHANGED inbox
        /\ Goes(IF inbox.made = run.made THEN "ask" ELSE "refused")
  /\ UNCHANGED <<host, past, pending, saved, cancelled, oper, crashes>>

\* Request: past its deadline WithTimeout does not ask.
Ask ==
  /\ run.at = "ask"
  /\ \/ Done /\ GivesUp /\ UNCHANGED entry
     \/ ~Done /\ broker = "pending" /\ entry' = TRUE /\ Goes("wait")
     \/ ~Done /\ broker = "inbox" /\ Goes("poll") /\ UNCHANGED entry
  /\ UNCHANGED <<host, past, inbox, channel, saved, cancelled, oper, crashes>>

-----------------------------------------------------------------------------
\* PendingBroker.Request.
Receive ==
  /\ run.at \in {"wait", "owed"} /\ channel # None
  /\ Returns(channel) /\ channel' = None
  /\ UNCHANGED <<host, past, inbox, entry, saved, cancelled, oper, crashes>>

\* Mutant: the map is not asked whether a decision has been accepted.
WithdrawUnchecked ==
  /\ run.at = "wait" /\ Done
  /\ entry' = FALSE /\ GivesUp
  /\ UNCHANGED <<host, past, inbox, channel, saved, cancelled, oper, crashes>>

\* Mutant: the wait is left in the map.
WithdrawOnly ==
  /\ run.at = "wait" /\ Done
  /\ IF entry THEN GivesUp ELSE Goes("owed")
  /\ UNCHANGED <<host, past, inbox, pending, saved, cancelled, oper, crashes>>

\* A wait that Submit has taken out of the map is owed its decision.
Withdraw ==
  /\ run.at = "wait" /\ Done
  /\ IF entry THEN entry' = FALSE /\ GivesUp ELSE Goes("owed") /\ UNCHANGED entry
  /\ UNCHANGED <<host, past, inbox, channel, saved, cancelled, oper, crashes>>

\* StoreBroker.Request: read the record, look at the clock, sleep.
\* Mutant: the timer is not set again.
PollOnce ==
  /\ run.at = "poll" /\ ~Done
  /\ IF inbox.status = "resolved" THEN Returns(inbox.decision)
     ELSE Goes(IF limit = "request" THEN "clock" ELSE "asleep")
  /\ UNCHANGED <<host, past, inbox, pending, saved, cancelled, oper, crashes>>

Poll ==
  /\ run.at = "poll" /\ ~Done
  /\ IF inbox.status = "resolved" THEN Returns(inbox.decision)
     ELSE Goes(IF limit = "request" THEN "clock" ELSE "poll")
  /\ UNCHANGED <<host, past, inbox, pending, saved, cancelled, oper, crashes>>

\* An expiry that comes second goes back to the top of the loop, where the timer that
\* brought it here is not set again.
Expire ==
  /\ run.at = "clock" /\ ~Done
  /\ \/ ~past /\ Goes("poll") /\ UNCHANGED inbox
     \/ past /\ Resolvable("expired", past) /\ Resolved("expired") /\ Returns("expired")
     \/ /\ past /\ ~Resolvable("expired", past) /\ UNCHANGED inbox
        /\ IF inbox.decision = "expired" THEN Returns("expired") ELSE Goes("asleep")
  /\ UNCHANGED <<host, past, pending, saved, cancelled, oper, crashes>>

\* The context ends the loop; the record stays as it is.
LeaveInbox ==
  /\ run.at \in {"poll", "clock", "asleep"} /\ Done /\ GivesUp
  /\ UNCHANGED <<host, past, inbox, pending, saved, cancelled, oper, crashes>>

\* The decision is checkpointed before it has an effect.
SaveDecision ==
  /\ run.at = "answered" /\ Goes("decided") /\ saved' = run.decision
  /\ UNCHANGED <<host, past, inbox, pending, cancelled, oper, crashes>>

\* A request that is refused, or a wait that is cancelled, ends the run.
SaveEnd ==
  /\ run.at \in {"stopped", "refused"} /\ saved # "ended" /\ saved' = "ended"
  /\ UNCHANGED <<host, past, inbox, pending, run, cancelled, oper, crashes>>

-----------------------------------------------------------------------------
\* Submit.  The inbox of SQLite reads the clock before it waits for its transaction.
Submit(o, d) ==
  /\ oper[o].at = "idle" /\ (broker = "inbox" => inbox.status # "none")
  /\ oper' = [oper EXCEPT ![o] = [at |-> "resolve", decision |-> d, past |-> past]]
  /\ UNCHANGED <<host, past, inbox, pending, run, saved, cancelled, crashes>>

Told(o, what) == oper' = [oper EXCEPT ![o].at = what]

\* The PendingBroker takes the wait out of its map and then sends.
Take(o) ==
  /\ oper[o].at = "resolve" /\ broker = "pending"
  /\ entry' = FALSE /\ Told(o, IF entry THEN "send" ELSE "not found")
  /\ UNCHANGED <<host, past, inbox, channel, run, saved, cancelled, crashes>>

Send(o) ==
  /\ oper[o].at = "send"
  /\ channel' = oper[o].decision /\ Told(o, "accepted")
  /\ UNCHANGED <<host, past, inbox, entry, run, saved, cancelled, crashes>>

\* The operator's clock, as it was read, may find the request expired.
Resolve(o) ==
  LET d == oper[o].decision
      expires == limit = "request" /\ oper[o].past
  IN  /\ oper[o].at = "resolve" /\ broker = "inbox"
      /\ IF Resolvable(d, expires) THEN Resolved(d) /\ Told(o, "accepted")
         ELSE /\ UNCHANGED inbox
              /\ Told(o, IF inbox.status = "pending" THEN "expired"
                         ELSE IF inbox.decision = d THEN "accepted" ELSE "conflict")
      /\ UNCHANGED <<host, past, pending, run, saved, cancelled, crashes>>

-----------------------------------------------------------------------------
Cancel ==
  /\ ~cancelled /\ cancelled' = TRUE
  /\ UNCHANGED <<host, past, inbox, pending, run, saved, oper, crashes>>

TimePasses ==
  /\ limit # "none" /\ ~past /\ past' = TRUE
  /\ UNCHANGED <<host, inbox, pending, run, saved, cancelled, oper, crashes>>

\* The process stops.  The PendingBroker and its callers were in it; an operator of the
\* inbox may be in another.
Crash ==
  /\ run.at # "down" /\ crashes < MaxCrashes
  /\ crashes' = crashes + 1 /\ Goes("down") /\ cancelled' = FALSE
  /\ entry' = FALSE /\ channel' = None
  /\ oper' = IF broker = "pending" THEN [o \in Operators |-> Idle] ELSE oper
  /\ UNCHANGED <<host, past, inbox, saved>>

\* A run that waits asks again, with the time of now.  One that was saved as ended, failed
\* or cancelled, reports that before it looks whether it waits (runner.go:171).
Resume ==
  /\ run.at = "down"
  /\ \/ saved = "nothing" /\ Goes("start")
     \/ saved = "waiting" /\ run' = [at |-> "register", made |-> crashes + 1, decision |-> None]
     \/ saved \in Decisions /\ run' = [run EXCEPT !.at = "decided", !.decision = saved]
     \/ saved = "ended" /\ Goes("stopped")
  /\ UNCHANGED <<host, past, inbox, pending, saved, cancelled, oper, crashes>>

-----------------------------------------------------------------------------
Asking == AskFirst \/ Register \/ Ask
Waiting == Receive \/ Withdraw \/ Poll \/ Expire \/ LeaveInbox
Submitting(o) == Take(o) \/ Send(o) \/ Resolve(o)

Next ==
  \/ Asking \/ Waiting \/ SaveDecision \/ SaveEnd
  \/ (\E o \in Operators : Submitting(o) \/ \E d \in Answers : Submit(o, d))
  \/ Cancel \/ TimePasses \/ Crash \/ Resume

\* The run's goroutine and the operators' calls go on.
Fairness == WF_vars(Asking) /\ WF_vars(Waiting) /\ \A o \in Operators : WF_vars(Submitting(o))

Spec == Init /\ [][Next]_vars /\ Fairness

-----------------------------------------------------------------------------
\* Every variable holds what the code may store in it, and the map of the PendingBroker
\* holds no wait that has ended.
TypeOK ==
  /\ broker \in {"pending", "inbox"} /\ limit \in {"none", "request", "timeout"} /\ past \in BOOLEAN
  /\ inbox.status \in {"none", "pending", "resolved"} /\ inbox.made \in 0 .. MaxCrashes + 1
  /\ inbox.decision \in Decisions \cup {None} /\ (inbox.status = "resolved" <=> inbox.decision # None)
  /\ entry \in BOOLEAN /\ (entry => run.at = "wait" /\ channel = None)
  /\ channel \in Answers \cup {None} /\ run.decision \in Decisions \cup {None}
  /\ run.at \in {"start", "register", "ask", "wait", "owed", "poll", "clock", "asleep",
                 "answered", "decided", "stopped", "refused", "down"}
  /\ saved \in Decisions \cup {"nothing", "waiting", "ended"} /\ cancelled \in BOOLEAN
  /\ \A o \in Operators :
       oper[o].at \in {"idle", "resolve", "send", "accepted", "not found", "conflict", "expired"}
  /\ crashes \in 0 .. MaxCrashes

\* The inbox has one decision: what an operator was told and what the run was given,
\* before a crash or after, over the expiry too, agree with it (the inboxes' Resolve,
\* store_broker.go Request).
OneDecision ==
  broker = "inbox" =>
    /\ \A o \in Operators :
         /\ oper[o].at = "accepted" => inbox.decision = oper[o].decision
         /\ oper[o].at = "conflict" => inbox.decision \in Decisions \ {oper[o].decision}
         /\ oper[o].at = "expired" => limit = "request" /\ past
    /\ run.decision # None => run.decision = inbox.decision

\* A decision the PendingBroker has accepted is the run's: whatever cancels the wait or
\* ends its time in between, the run takes that decision, and no second one is accepted
\* (broker.go Request, Submit and WithTimeout).
AcceptedReachesRun ==
  broker = "pending" =>
    \A o \in Operators :
      oper[o].at \in {"send", "accepted"} =>
        /\ \/ run.at \in {"wait", "owed"} /\ channel \in {None, oper[o].decision}
           \/ oper[o].at = "accepted" /\ run.decision = oper[o].decision
        /\ \A p \in Operators \ {o} : oper[p].at \notin {"send", "accepted"}

\* A run that waits for a request that is answered returns, except where the answer
\* came while the broker was about to resolve the expired request itself: that wait
\* sleeps until it is cancelled (store_broker.go Request's loop).
Waits == run.at \in {"wait", "owed", "poll", "clock", "asleep"}
Overslept == run.at = "asleep" /\ limit = "request" /\ past
AnswersArrive ==
  (Waits /\ (channel # None \/ inbox.status = "resolved")) ~> (~Waits \/ Overslept)

\* A resumed run can consume the decision that was submitted while it was gone
\* (docs/approval-guide.md): it is not refused the request it waits for.
ResumeConsumes == ~(run.at = "refused" /\ inbox.decision \in Answers)
=============================================================================
