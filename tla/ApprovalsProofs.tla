---------------------------- MODULE ApprovalsProofs ----------------------------
(***************************************************************************)
(* Proofs about Approvals for any set of operators and any number of       *)
(* crashes.  The invariant says of each broker where its answer is at every *)
(* step between the operator and the checkpoint.                           *)
(***************************************************************************)
EXTENDS Approvals, TLAPS

Places == {"start", "register", "ask", "wait", "owed", "poll", "clock", "asleep",
           "answered", "decided", "stopped", "refused", "down"}
Outcomes == {"idle", "resolve", "send", "accepted", "not found", "conflict", "expired"}

Numbers == 0 .. MaxCrashes + 1
Records == [status : {"none", "pending", "resolved"}, made : Numbers, decision : Decisions \cup {None}]
Runs == [at : Places, made : Numbers, decision : Decisions \cup {None}]
Calls == [at : Outcomes, decision : Answers \cup {None}, past : BOOLEAN]

\* The shape of every variable.
Shape ==
  /\ broker \in {"pending", "inbox"} /\ limit \in {"none", "request", "timeout"} /\ past \in BOOLEAN
  /\ inbox \in Records
  /\ entry \in BOOLEAN /\ channel \in Answers \cup {None}
  /\ run \in Runs
  /\ saved \in Decisions \cup {"nothing", "waiting", "ended"} /\ cancelled \in BOOLEAN
  /\ oper \in [Operators -> Calls]
  /\ crashes \in 0 .. MaxCrashes

\* A record is resolved when it has a decision, a call of Submit has one from the
\* start, and a run that was answered knows the answer.
AnswersAreKnown ==
  /\ inbox.status = "resolved" <=> inbox.decision # None
  /\ \A o \in Operators : oper[o].at # "idle" => oper[o].decision \in Answers
  /\ run.at = "answered" => run.decision # None

\* The PendingBroker: the one operator who took the wait out of the map holds the
\* answer, then the channel does, then the run.
Busy(o) == oper[o].at \in {"send", "accepted"}
Holds(o) ==
  \/ oper[o].at = "send" /\ run.at \in {"wait", "owed"} /\ channel = None
  \/ oper[o].at = "accepted" /\ run.at \in {"wait", "owed"} /\ channel = oper[o].decision
  \/ oper[o].at = "accepted" /\ run.at \in {"answered", "decided"} /\ run.decision = oper[o].decision
PendingIsSound ==
  /\ entry => run.at = "wait" /\ channel = None
  /\ channel # None => run.at \in {"wait", "owed"}
  /\ broker = "pending" =>
       \A o \in Operators : Busy(o) => /\ ~entry /\ Holds(o)
                                       /\ \A p \in Operators \ {o} : ~Busy(p)

\* The StoreBroker: what an operator was told, what the run was given and what it
\* saved is the record's decision.
InboxIsSound ==
  broker = "inbox" =>
    /\ run.at \notin {"wait", "owed"}
    /\ \A o \in Operators :
         /\ oper[o].past => past
         /\ oper[o].at # "idle" => inbox.status # "none"
         /\ oper[o].at # "send"
         /\ oper[o].at = "accepted" => inbox.decision = oper[o].decision
         /\ oper[o].at = "conflict" => inbox.decision \in Decisions \ {oper[o].decision}
         /\ oper[o].at = "expired" => limit = "request" /\ past

\* The run's part of the last, which WithTimeout around the StoreBroker would break.
RunIsGivenIt ==
  broker = "inbox" =>
    /\ limit # "timeout"
    /\ run.decision # None => run.decision = inbox.decision
    /\ saved \in Decisions => saved = inbox.decision

Inv == Shape /\ AnswersAreKnown /\ PendingIsSound /\ InboxIsSound

-----------------------------------------------------------------------------
\* What the updates of the run, the record and a call leave of their shape.
LEMMA RunShapes ==
  ASSUME NEW r \in Runs, NEW a \in Places, NEW m \in Numbers, NEW d \in Decisions \cup {None}
  PROVE  /\ [r EXCEPT !.at = a] \in Runs
         /\ [r EXCEPT !.at = a, !.decision = d] \in Runs
         /\ [r EXCEPT !.at = a, !.made = m] \in Runs
<1> DEFINE q == [r EXCEPT !.at = a]
<1>1. q \in Runs
  BY DEF Runs
<1> HIDE DEF q
<1>2. [q EXCEPT !.decision = d] \in Runs /\ [q EXCEPT !.made = m] \in Runs
  BY <1>1 DEF Runs
<1> QED
  BY <1>1, <1>2 DEF q

LEMMA RunFields ==
  ASSUME NEW r \in Runs, NEW a \in Places, NEW v
  PROVE  /\ [r EXCEPT !.at = a, !.decision = v].at = a
         /\ [r EXCEPT !.at = a, !.made = v].at = a
BY DEF Runs

LEMMA RecordShapes ==
  ASSUME NEW i \in Records, NEW d \in Decisions
  PROVE  [i EXCEPT !.status = "resolved", !.decision = d] \in Records
<1> DEFINE q == [i EXCEPT !.status = "resolved"]
<1>1. q \in Records
  BY DEF Records
<1> HIDE DEF q
<1>2. [q EXCEPT !.decision = d] \in Records
  BY <1>1 DEF Records
<1> QED
  BY <1>2 DEF q

LEMMA CallShapes ==
  ASSUME NEW f \in [Operators -> Calls], NEW o \in Operators, NEW what \in Outcomes
  PROVE  [f EXCEPT ![o].at = what] \in [Operators -> Calls]
<1>1. [f[o] EXCEPT !.at = what] \in Calls
  BY DEF Calls
<1> QED
  BY <1>1

\* The number a request is made with.
LEMMA NumberShapes == Shape => crashes + 1 \in Numbers /\ 0 \in Numbers
BY ApprovalAssumption DEF Shape, Numbers

\* What the shape says of the fields.
LEMMA Fields ==
  ASSUME Shape
  PROVE  /\ run.at \in Places /\ run.decision \in Decisions \cup {None}
         /\ inbox.status \in {"none", "pending", "resolved"} /\ inbox.decision \in Decisions \cup {None}
         /\ inbox.made \in Numbers
         /\ \A o \in Operators : /\ oper[o].at \in Outcomes /\ oper[o].decision \in Answers \cup {None}
                                 /\ oper[o].past \in BOOLEAN
BY DEF Shape, Runs, Records, Calls

-----------------------------------------------------------------------------
\* Initially every part holds.
LEMMA Initially == Init => Inv
<1> SUFFICES ASSUME Init PROVE Inv
  OBVIOUS
<1>1. Shape
  <2>1. 0 \in Numbers /\ 0 \in 0 .. MaxCrashes
    BY ApprovalAssumption DEF Numbers
  <2>2. inbox \in Records /\ run \in Runs
    BY <2>1 DEF Init, NoRecord, Records, Runs, Places
  <2>3. Idle \in Calls
    BY DEF Idle, Calls, Outcomes
  <2>4. oper \in [Operators -> Calls]
    BY <2>3 DEF Init
  <2> QED
    BY <2>1, <2>2, <2>4 DEF Init, Shape
<1>2. AnswersAreKnown
  BY DEF Init, AnswersAreKnown, NoRecord, Idle, None
<1>3. PendingIsSound
  BY DEF Init, PendingIsSound, Busy, Idle, None
<1>4. InboxIsSound
  BY DEF Init, InboxIsSound, Idle
<1> QED
  BY <1>1, <1>2, <1>3, <1>4 DEF Inv

\* What a move of the run, a decision in the record and a word to an operator change.
LEMMA MoveFields ==
  ASSUME Shape
  PROVE  /\ \A a \in Places : Goes(a) => run'.at = a /\ run'.decision = run.decision
         /\ \A d \in Decisions \cup {None} : Returns(d) => run'.at = "answered" /\ run'.decision = d
BY DEF Shape, Runs, Goes, Returns

LEMMA RecordFields ==
  ASSUME Shape, NEW d \in Decisions, Resolved(d)
  PROVE  inbox'.status = "resolved" /\ inbox'.decision = d
BY DEF Shape, Records, Resolved

LEMMA CallFields ==
  ASSUME Shape, NEW o \in Operators, NEW what \in Outcomes, Told(o, what)
  PROVE  /\ oper'[o].at = what /\ oper'[o].decision = oper[o].decision /\ oper'[o].past = oper[o].past
         /\ \A p \in Operators \ {o} : oper'[p] = oper[p]
BY DEF Shape, Calls, Told

\* How the run's goroutine moves keeps its shape.
LEMMA MoveShapes ==
  ASSUME Shape
  PROVE  /\ \A a \in Places : Goes(a) => run' \in Runs
         /\ \A d \in Decisions \cup {None} : Returns(d) => run' \in Runs
         /\ GivesUp => run' \in Runs
<1>1. run \in Runs
  BY DEF Shape
<1>2. \A a \in Places : Goes(a) => run' \in Runs
  BY <1>1, RunShapes, NumberShapes DEF Goes
<1>3. \A d \in Decisions \cup {None} : Returns(d) => run' \in Runs
  <2>1. "answered" \in Places
    BY DEF Places
  <2> SUFFICES ASSUME NEW d \in Decisions \cup {None}, Returns(d) PROVE run' \in Runs
    OBVIOUS
  <2>2. [run EXCEPT !.at = "answered", !.decision = d] \in Runs
    BY <1>1, <2>1, RunShapes, NumberShapes
  <2> QED
    BY <2>2 DEF Returns
<1>4. "expired" \in Decisions /\ "stopped" \in Places
  BY DEF Decisions, Places
<1> QED
  BY <1>2, <1>3, <1>4 DEF GivesUp

-----------------------------------------------------------------------------
\* The shape survives every step.
LEMMA ShapeStep == Inv /\ [Next]_vars => Shape'
<1> SUFFICES ASSUME Inv, [Next]_vars PROVE Shape'
  OBVIOUS
<1>0. Shape /\ AnswersAreKnown /\ run \in Runs
  BY DEF Inv, Shape
<1> USE DEF host, pending
<1>1. CASE AskFirst
  <2>1. run' \in Runs
    BY <1>0, <1>1, RunShapes, NumberShapes DEF AskFirst, Places
  <2> QED
    BY <1>0, <1>1, <2>1 DEF AskFirst, Shape
<1>2. CASE Register
  <2>1. "ask" \in Places /\ "refused" \in Places
    BY DEF Places
  <2>2. run' \in Runs
    BY <1>0, <1>2, <2>1, MoveShapes DEF Register
  <2>3. inbox' \in Records
    BY <1>0, <1>2 DEF Register, Shape, Runs, Records
  <2> QED
    BY <1>0, <1>2, <2>2, <2>3 DEF Register, Shape
<1>3. CASE Ask
  <2>1. "wait" \in Places /\ "poll" \in Places
    BY DEF Places
  <2>2. run' \in Runs
    BY <1>0, <1>3, <2>1, MoveShapes DEF Ask
  <2>3. entry' \in BOOLEAN
    BY <1>0, <1>3 DEF Ask, Shape
  <2> QED
    BY <1>0, <1>3, <2>2, <2>3 DEF Ask, Shape
<1>4. CASE Receive
  <2>1. channel \in Decisions \cup {None}
    BY <1>0 DEF Shape, Decisions
  <2>2. Returns(channel)
    BY <1>4 DEF Receive
  <2>3. run' \in Runs
    BY <1>0, <2>1, <2>2, MoveShapes
  <2>4. channel' = None /\ UNCHANGED <<host, past, inbox, entry, saved, cancelled, oper, crashes>>
    BY <1>4 DEF Receive
  <2> QED
    BY <1>0, <2>3, <2>4 DEF Shape
<1>5. CASE Withdraw
  <2>1. "owed" \in Places
    BY DEF Places
  <2>2. run' \in Runs
    BY <1>0, <1>5, <2>1, MoveShapes DEF Withdraw
  <2>3. entry' \in BOOLEAN
    BY <1>0, <1>5 DEF Withdraw, Shape
  <2> QED
    BY <1>0, <1>5, <2>2, <2>3 DEF Withdraw, Shape
<1>6. CASE Poll
  <2>1. "clock" \in Places /\ "poll" \in Places /\ inbox.decision \in Decisions \cup {None}
    BY <1>0, Fields DEF Places
  <2>2. run' \in Runs
    BY <1>0, <1>6, <2>1, MoveShapes DEF Poll
  <2> QED
    BY <1>0, <1>6, <2>2 DEF Poll, Shape
<1>7. CASE Expire
  <2>1. "asleep" \in Places /\ "poll" \in Places /\ "expired" \in Decisions
    BY DEF Places, Decisions
  <2>2. run' \in Runs
    BY <1>0, <1>7, <2>1, MoveShapes DEF Expire
  <2>3. inbox' \in Records
    BY <1>0, <1>7, <2>1, RecordShapes DEF Expire, Resolved, Shape
  <2> QED
    BY <1>0, <1>7, <2>2, <2>3 DEF Expire, Shape
<1>8. CASE LeaveInbox
  <2>1. run' \in Runs
    BY <1>0, <1>8, MoveShapes DEF LeaveInbox
  <2> QED
    BY <1>0, <1>8, <2>1 DEF LeaveInbox, Shape
<1>9. CASE SaveDecision
  <2>1. "decided" \in Places
    BY DEF Places
  <2>2. run' \in Runs
    BY <1>0, <1>9, <2>1, MoveShapes DEF SaveDecision
  <2>3. run.decision \in Decisions
    BY <1>0, <1>9, Fields DEF SaveDecision, AnswersAreKnown
  <2> QED
    BY <1>0, <1>9, <2>2, <2>3 DEF SaveDecision, Shape
<1>10. CASE SaveEnd
  BY <1>0, <1>10 DEF SaveEnd, Shape
<1>11. ASSUME NEW o \in Operators, Take(o) PROVE Shape'
  <2>1. "send" \in Outcomes /\ "not found" \in Outcomes
    BY DEF Outcomes
  <2>2. oper' \in [Operators -> Calls]
    BY <1>0, <1>11, <2>1, CallShapes DEF Take, Told, Shape
  <2> QED
    BY <1>0, <1>11, <2>2 DEF Take, Shape
<1>12. ASSUME NEW o \in Operators, Send(o) PROVE Shape'
  <2>1. "accepted" \in Outcomes /\ oper[o].decision \in Answers \cup {None}
    BY <1>0, Fields DEF Outcomes
  <2>2. oper' \in [Operators -> Calls]
    BY <1>0, <1>12, <2>1, CallShapes DEF Send, Told, Shape
  <2> QED
    BY <1>0, <1>12, <2>1, <2>2 DEF Send, Shape
<1>13. ASSUME NEW o \in Operators, Resolve(o) PROVE Shape'
  <2>1. "accepted" \in Outcomes /\ "expired" \in Outcomes /\ "conflict" \in Outcomes
    BY DEF Outcomes
  <2>2. oper' \in [Operators -> Calls]
    BY <1>0, <1>13, <2>1, CallShapes DEF Resolve, Told, Shape
  <2>3. oper[o].decision \in Decisions
    BY <1>0, <1>13 DEF Resolve, AnswersAreKnown, Decisions
  <2>4. inbox' \in Records
    BY <1>0, <1>13, <2>3, RecordShapes DEF Resolve, Resolved, Shape
  <2> QED
    BY <1>0, <1>13, <2>2, <2>4 DEF Resolve, Shape
<1>14. ASSUME NEW o \in Operators, NEW d \in Answers, Submit(o, d) PROVE Shape'
  <2>1. [at |-> "resolve", decision |-> d, past |-> past] \in Calls
    BY <1>0 DEF Shape, Calls, Outcomes
  <2>2. oper' \in [Operators -> Calls]
    BY <1>0, <1>14, <2>1 DEF Submit, Shape
  <2> QED
    BY <1>0, <1>14, <2>2 DEF Submit, Shape
<1>15. CASE Cancel
  BY <1>0, <1>15 DEF Cancel, Shape
<1>16. CASE TimePasses
  BY <1>0, <1>16 DEF TimePasses, Shape
<1>17. CASE Crash
  <2>1. "down" \in Places /\ Idle \in Calls
    BY DEF Places, Idle, Calls, Outcomes
  <2>2. run' \in Runs
    BY <1>0, <1>17, <2>1, MoveShapes DEF Crash
  <2>3. oper' \in [Operators -> Calls]
    BY <1>0, <1>17, <2>1 DEF Crash, Shape
  <2>4. crashes' \in 0 .. MaxCrashes
    BY <1>0, <1>17, ApprovalAssumption DEF Crash, Shape
  <2> QED
    BY <1>0, <1>17, <2>2, <2>3, <2>4 DEF Crash, Shape
<1>18. CASE Resume
  <2>1. "start" \in Places /\ "decided" \in Places /\ "stopped" \in Places /\ "register" \in Places
    BY DEF Places
  <2>2. [at |-> "register", made |-> crashes + 1, decision |-> None] \in Runs
    BY <1>0, <2>1, NumberShapes DEF Runs
  <2>3. saved \in Decisions => [run EXCEPT !.at = "decided", !.decision = saved] \in Runs
    BY <1>0, <2>1, RunShapes, NumberShapes
  <2>4. run' \in Runs
    BY <1>0, <1>18, <2>1, <2>2, <2>3, MoveShapes DEF Resume
  <2> QED
    BY <1>0, <1>18, <2>4 DEF Resume, Shape
<1>19. CASE UNCHANGED vars
  BY <1>0, <1>19 DEF vars, Shape
<1> QED
  BY <1>1, <1>2, <1>3, <1>4, <1>5, <1>6, <1>7, <1>8, <1>9, <1>10, <1>11, <1>12, <1>13, <1>14,
     <1>15, <1>16, <1>17, <1>18, <1>19
  DEF Next, Asking, Waiting, Submitting

-----------------------------------------------------------------------------
\* Who has an answer has it after every step.
LEMMA KnownStep == Inv /\ [Next]_vars => AnswersAreKnown'
<1> SUFFICES ASSUME Inv, [Next]_vars PROVE AnswersAreKnown'
  OBVIOUS
<1>0. Shape /\ AnswersAreKnown /\ PendingIsSound
  BY DEF Inv
<1>a. /\ run.at \in Places /\ run.decision \in Decisions \cup {None}
      /\ inbox.decision \in Decisions \cup {None} /\ channel \in Answers \cup {None}
  BY <1>0, Fields DEF Shape
<1>b. None \notin Decisions /\ Answers \subseteq Decisions /\ "expired" \in Decisions
  BY DEF None, Decisions, Answers
<1>1. (inbox.status = "resolved" <=> inbox.decision # None)'
  <2>1. CASE UNCHANGED inbox
    BY <1>0, <2>1 DEF AnswersAreKnown
  <2>2. CASE Register
    BY <1>0, <2>2 DEF Register, AnswersAreKnown
  <2>3. CASE Expire
    BY <1>0, <1>b, <2>3, RecordFields DEF Expire, AnswersAreKnown
  <2>4. ASSUME NEW o \in Operators, Resolve(o)
        PROVE  (inbox.status = "resolved" <=> inbox.decision # None)'
    <3>1. oper[o].decision \in Decisions
      BY <1>0, <1>b, <2>4 DEF Resolve, AnswersAreKnown
    <3> QED
      BY <1>0, <1>b, <2>4, <3>1, RecordFields DEF Resolve, AnswersAreKnown
  <2> QED
    BY <2>1, <2>2, <2>3, <2>4
    DEF Next, Asking, Waiting, Submitting, vars, host, AskFirst, Ask, Receive, Withdraw, Poll,
        LeaveInbox, SaveDecision, SaveEnd, Take, Send, Submit, Cancel, TimePasses, Crash, Resume
<1>2. \A o \in Operators : (oper[o].at # "idle" => oper[o].decision \in Answers)'
  <2>1. CASE UNCHANGED oper
    BY <1>0, <2>1 DEF AnswersAreKnown
  <2>2. ASSUME NEW o \in Operators, NEW w \in Outcomes, Told(o, w), oper[o].at # "idle"
        PROVE  \A p \in Operators : (oper[p].at # "idle" => oper[p].decision \in Answers)'
    BY <1>0, <2>2, CallFields DEF AnswersAreKnown
  <2>3. ASSUME NEW o \in Operators, Submitting(o)
        PROVE  \A p \in Operators : (oper[p].at # "idle" => oper[p].decision \in Answers)'
    BY <2>2, <2>3 DEF Submitting, Take, Send, Resolve, Outcomes
  <2>4. ASSUME NEW o \in Operators, NEW d \in Answers, Submit(o, d)
        PROVE  \A p \in Operators : (oper[p].at # "idle" => oper[p].decision \in Answers)'
    BY <1>0, <2>4 DEF Submit, AnswersAreKnown, Shape
  <2>5. CASE Crash
    BY <1>0, <2>5 DEF Crash, AnswersAreKnown, Idle
  <2> QED
    BY <2>1, <2>3, <2>4, <2>5
    DEF Next, Asking, Waiting, vars, AskFirst, Register, Ask, Receive, Withdraw, Poll, Expire,
        LeaveInbox, SaveDecision, SaveEnd, Cancel, TimePasses, Resume
<1>3. (run.at = "answered" => run.decision # None)'
  <2>1. ASSUME NEW a \in Places \ {"answered"}, Goes(a)
        PROVE  (run.at = "answered" => run.decision # None)'
    BY <1>0, <2>1, MoveFields
  <2>2. ASSUME NEW d \in Decisions, Returns(d)
        PROVE  (run.at = "answered" => run.decision # None)'
    BY <1>0, <1>b, <2>2, MoveFields
  <2>3. GivesUp => (run.at = "answered" => run.decision # None)'
    BY <1>b, <2>1, <2>2 DEF GivesUp, Places
  <2>4. CASE UNCHANGED run
    BY <1>0, <2>4 DEF AnswersAreKnown
  <2>5. CASE Asking
    BY <1>0, <2>1, <2>3, <2>5 DEF Asking, AskFirst, Register, Ask, Places, Shape, Runs
  <2>6. CASE Receive \/ Withdraw \/ LeaveInbox
    BY <1>a, <1>b, <2>1, <2>2, <2>3, <2>6 DEF Receive, Withdraw, LeaveInbox, Places
  <2>7. CASE Poll \/ Expire
    BY <1>0, <1>a, <1>b, <2>1, <2>2, <2>7 DEF Poll, Expire, Places, AnswersAreKnown
  <2>8. CASE SaveDecision \/ Crash
    BY <2>1, <2>8 DEF SaveDecision, Crash, Places
  <2>9. CASE Resume
    <3>1. \A a \in Places : Goes(a) => run'.at = a
      BY <1>0, MoveFields
    <3>2. run' = [run EXCEPT !.at = "decided", !.decision = saved] => run'.at = "decided"
      BY <1>0, RunFields DEF Shape, Places
    <3>3. run'.at # "answered"
      BY <2>9, <3>1, <3>2 DEF Resume, Places
    <3> QED
      BY <3>3
  <2> QED
    BY <2>4, <2>5, <2>6, <2>7, <2>8, <2>9
    DEF Next, Waiting, Submitting, host, pending, vars, SaveEnd, Take, Send, Resolve, Submit, Cancel, TimePasses
<1> QED
  BY <1>1, <1>2, <1>3 DEF AnswersAreKnown

-----------------------------------------------------------------------------
\* Where a step of the run through the PendingBroker takes the answer.
LEMMA PendingStep == Inv /\ [Next]_vars => PendingIsSound'
<1> SUFFICES ASSUME Inv, [Next]_vars PROVE PendingIsSound'
  OBVIOUS
<1>0. Shape /\ AnswersAreKnown /\ PendingIsSound /\ InboxIsSound
  BY DEF Inv
<1>a. /\ run.at \in Places /\ run.decision \in Decisions \cup {None} /\ inbox.decision \in Decisions \cup {None}
      /\ channel \in Answers \cup {None} /\ broker \in {"pending", "inbox"}
  BY <1>0, Fields DEF Shape
<1>b. None \notin Decisions /\ Answers \subseteq Decisions /\ "expired" \in Decisions /\ "expired" \notin Answers
  BY DEF None, Decisions, Answers
\* A step of a run that waits for no channel, to a place where it does not.
<1>1. ASSUME UNCHANGED <<host, pending, oper>>, run.at \notin {"wait", "owed", "answered"},
             run.at = "decided" => run'.at = "decided" /\ run'.decision = run.decision,
             run'.at # "wait"
      PROVE  PendingIsSound'
  BY <1>0, <1>1 DEF PendingIsSound, Busy, Holds, host, pending
<1>2. CASE AskFirst
  <2>1. run'.at = "register"
    BY <1>0, <1>2, RunFields DEF AskFirst, Shape, Places
  <2> QED
    BY <1>1, <1>2, <2>1 DEF AskFirst
<1>3. CASE Register
  <2>1. run'.at \in {"ask", "refused"}
    BY <1>0, <1>3, MoveFields DEF Register, Places
  <2> QED
    BY <1>1, <1>3, <2>1 DEF Register
<1>4. CASE Ask
  <2>1. GivesUp => run'.at # "wait"
    BY <1>0, <1>b, MoveFields DEF GivesUp, Places
  <2>2. Goes("poll") => run'.at # "wait"
    BY <1>0, MoveFields DEF Places
  <2>3. CASE ((Done /\ GivesUp) \/ Goes("poll")) /\ UNCHANGED entry
    BY <1>1, <1>4, <2>1, <2>2, <2>3 DEF Ask, pending
  <2>4. CASE ~Done /\ broker = "pending" /\ entry' = TRUE /\ Goes("wait")
    <3>1. run'.at = "wait" /\ channel = None
      BY <1>0, <1>4, <2>4, MoveFields DEF Ask, Places, PendingIsSound
    <3>2. \A o \in Operators : ~Busy(o)
      BY <1>0, <1>4, <2>4 DEF Ask, PendingIsSound, Holds
    <3> QED
      BY <1>4, <3>1, <3>2 DEF Ask, PendingIsSound, Busy
  <2> QED
    BY <1>4, <2>3, <2>4 DEF Ask
<1>5. CASE Receive
  <2>1. run'.at = "answered" /\ run'.decision = channel /\ channel' = None
    BY <1>0, <1>5, <1>a, <1>b, MoveFields DEF Receive
  <2>2. ~entry
    BY <1>0, <1>5 DEF Receive, PendingIsSound
  <2> QED
    BY <1>0, <1>5, <2>1, <2>2 DEF Receive, PendingIsSound, Busy, Holds, host
<1>6. CASE Withdraw
  <2>1. CASE entry
    <3>1. \A o \in Operators : broker = "pending" => ~Busy(o)
      BY <1>0, <2>1 DEF PendingIsSound
    <3>2. channel = None
      BY <1>0, <2>1 DEF PendingIsSound
    <3> QED
      BY <1>6, <2>1, <3>1, <3>2 DEF Withdraw, PendingIsSound, Busy, host
  <2>2. CASE ~entry
    <3>1. run'.at = "owed" /\ run'.decision = run.decision
      BY <1>0, <1>6, <2>2, MoveFields DEF Withdraw, Places
    <3> QED
      BY <1>0, <1>6, <2>2, <3>1 DEF Withdraw, PendingIsSound, Busy, Holds, host
  <2> QED
    BY <2>1, <2>2
<1>7. CASE Poll \/ Expire \/ LeaveInbox
  <2>1. GivesUp => run'.at # "wait"
    BY <1>0, <1>b, MoveFields DEF GivesUp, Places
  <2>2. \A a \in Places : Goes(a) /\ a # "wait" => run'.at # "wait"
    BY <1>0, MoveFields
  <2>3. \A d \in Decisions \cup {None} : Returns(d) => run'.at # "wait"
    BY <1>0, MoveFields
  <2>4. run'.at # "wait"
    BY <1>7, <1>a, <1>b, <2>1, <2>2, <2>3 DEF Poll, Expire, LeaveInbox, Places
  <2> QED
    BY <1>1, <1>7, <2>4 DEF Poll, Expire, LeaveInbox
<1>8. CASE SaveDecision
  <2>1. run'.at = "decided" /\ run'.decision = run.decision
    BY <1>0, <1>8, MoveFields DEF SaveDecision, Places
  <2> QED
    BY <1>0, <1>8, <2>1 DEF SaveDecision, PendingIsSound, Busy, Holds, host, pending
<1>9. ASSUME NEW o \in Operators, Take(o) PROVE PendingIsSound'
  <2>1. /\ oper'[o].at = (IF entry THEN "send" ELSE "not found")
        /\ \A p \in Operators \ {o} : oper'[p] = oper[p]
    BY <1>0, <1>9, CallFields DEF Take, Outcomes
  <2>2. UNCHANGED <<host, channel, run>> /\ entry' = FALSE /\ oper[o].at = "resolve"
    BY <1>9 DEF Take
  <2>3. CASE entry
    <3>1. run.at = "wait" /\ channel = None /\ (broker = "pending" => \A p \in Operators : ~Busy(p))
      BY <1>0, <2>3 DEF PendingIsSound
    <3> QED
      BY <2>1, <2>2, <2>3, <3>1 DEF PendingIsSound, Busy, Holds, host
  <2>4. CASE ~entry
    BY <1>0, <2>1, <2>2, <2>4 DEF PendingIsSound, Busy, Holds, host
  <2> QED
    BY <2>3, <2>4
<1>10. ASSUME NEW o \in Operators, Send(o) PROVE PendingIsSound'
  <2>1. /\ oper'[o].at = "accepted" /\ oper'[o].decision = oper[o].decision
        /\ \A p \in Operators \ {o} : oper'[p] = oper[p]
    BY <1>0, <1>10, CallFields DEF Send, Outcomes
  <2>2. UNCHANGED <<host, entry, run>> /\ channel' = oper[o].decision /\ oper[o].at = "send"
    BY <1>10 DEF Send
  <2>3. broker = "pending"
    BY <1>0, <1>a, <2>2 DEF InboxIsSound
  <2>4. /\ ~entry /\ run.at \in {"wait", "owed"} /\ \A p \in Operators \ {o} : ~Busy(p)
    BY <1>0, <2>2, <2>3 DEF PendingIsSound, Busy, Holds
  <2> QED
    BY <2>1, <2>2, <2>4 DEF PendingIsSound, Busy, Holds, host
<1>11. ASSUME NEW o \in Operators, Resolve(o) PROVE PendingIsSound'
  BY <1>0, <1>11 DEF Resolve, PendingIsSound, host, pending
<1>12. ASSUME NEW o \in Operators, NEW d \in Answers, Submit(o, d) PROVE PendingIsSound'
  <2>1. oper'[o].at = "resolve" /\ \A p \in Operators \ {o} : oper'[p] = oper[p]
    BY <1>0, <1>12 DEF Submit, Shape
  <2> QED
    BY <1>0, <1>12, <2>1 DEF Submit, PendingIsSound, Busy, Holds, host, pending
<1>13. CASE Crash
  <2>1. broker = "pending" => \A o \in Operators : oper'[o].at = "idle"
    BY <1>13 DEF Crash, Idle
  <2> QED
    BY <1>13, <2>1 DEF Crash, PendingIsSound, Busy, host
<1>14. CASE Resume
  <2>1. run'.at # "wait"
    <3>1. \A a \in Places : Goes(a) => run'.at = a
      BY <1>0, MoveFields
    <3>2. run' = [run EXCEPT !.at = "decided", !.decision = saved] => run'.at = "decided"
      BY <1>0, RunFields DEF Shape, Places
    <3> QED
      BY <1>14, <3>1, <3>2 DEF Resume, Places
  <2> QED
    BY <1>1, <1>14, <2>1 DEF Resume
<1>15. CASE SaveEnd \/ Cancel \/ TimePasses \/ UNCHANGED vars
  BY <1>0, <1>15 DEF SaveEnd, Cancel, TimePasses, vars, PendingIsSound, Busy, Holds, host, pending
<1> QED
  BY <1>2, <1>3, <1>4, <1>5, <1>6, <1>7, <1>8, <1>9, <1>10, <1>11, <1>12, <1>13, <1>14, <1>15
  DEF Next, Asking, Waiting, Submitting

-----------------------------------------------------------------------------
\* Once the record is resolved no step changes its decision, and until then only
\* Resolve does.
LEMMA RecordStep ==
  ASSUME Inv, [Next]_vars
  PROVE  /\ inbox.status # "none" => inbox'.status # "none"
         /\ inbox.decision # None => inbox'.decision = inbox.decision
<1>0. Shape /\ AnswersAreKnown
  BY DEF Inv
<1>1. CASE UNCHANGED inbox
  BY <1>1
<1>2. ASSUME NEW d \in Decisions, inbox.status = "pending", Resolved(d)
      PROVE  /\ inbox.status # "none" => inbox'.status # "none"
             /\ inbox.decision # None => inbox'.decision = inbox.decision
  BY <1>0, <1>2, RecordFields DEF AnswersAreKnown
<1>3. CASE Register
  BY <1>0, <1>3 DEF Register, AnswersAreKnown
<1>4. CASE Expire
  BY <1>1, <1>2, <1>4 DEF Expire, Resolvable, Decisions
<1>5. ASSUME NEW o \in Operators, Resolve(o)
      PROVE  /\ inbox.status # "none" => inbox'.status # "none"
             /\ inbox.decision # None => inbox'.decision = inbox.decision
  <2>1. oper[o].decision \in Decisions
    BY <1>0, <1>5 DEF Resolve, AnswersAreKnown, Decisions
  <2> QED
    BY <1>1, <1>2, <1>5, <2>1 DEF Resolve, Resolvable
<1> QED
  BY <1>1, <1>3, <1>4, <1>5
  DEF Next, Asking, Waiting, Submitting, vars, AskFirst, Ask, Receive, Withdraw, Poll,
      LeaveInbox, SaveDecision, SaveEnd, Take, Send, Submit, Cancel, TimePasses, Crash, Resume

\* What the operators were told agrees with the record after every step.
LEMMA InboxStep == Inv /\ [Next]_vars => InboxIsSound'
<1> SUFFICES ASSUME Inv, [Next]_vars, broker' = "inbox" PROVE InboxIsSound'
  BY DEF InboxIsSound
<1>0. Shape /\ AnswersAreKnown /\ InboxIsSound
  BY DEF Inv
<1>a. UNCHANGED host
  BY DEF Next, Asking, Waiting, Submitting, vars, host, AskFirst, Register, Ask, Receive, Withdraw, Poll, Expire,
      LeaveInbox, SaveDecision, SaveEnd, Take, Send, Resolve, Submit, Cancel, TimePasses, Crash, Resume
<1>b. broker = "inbox" /\ limit' = limit
  BY <1>a DEF host
<1>c. past => past'
  BY DEF Next, Asking, Waiting, Submitting, vars, AskFirst, Register, Ask, Receive, Withdraw, Poll, Expire,
      LeaveInbox, SaveDecision, SaveEnd, Take, Send, Resolve, Submit, Cancel, TimePasses, Crash, Resume
<1>d. run.at \in Places /\ run.decision \in Decisions \cup {None} /\ inbox.decision \in Decisions \cup {None}
  BY <1>0, Fields
<1>e. None \notin Decisions /\ Answers \subseteq Decisions /\ "expired" \in Decisions
  BY DEF None, Decisions, Answers
<1>f. /\ inbox.status # "none" => inbox'.status # "none"
      /\ inbox.decision # None => inbox'.decision = inbox.decision
  BY RecordStep
<1>1. run'.at \notin {"wait", "owed"}
  <2>1. \A a \in Places : Goes(a) => run'.at = a
    BY <1>0, MoveFields
  <2>2. \A d \in Decisions \cup {None} : Returns(d) => run'.at = "answered"
    BY <1>0, MoveFields
  <2>3. GivesUp => run'.at \notin {"wait", "owed"}
    BY <1>e, <2>1, <2>2 DEF GivesUp, Places
  <2>4. run.at \notin {"wait", "owed"}
    BY <1>0, <1>b DEF InboxIsSound
  <2>5. CASE UNCHANGED run
    BY <2>4, <2>5
  <2>6. CASE AskFirst
    BY <1>0, <2>6, RunFields DEF AskFirst, Shape, Places
  <2>7. CASE Register \/ Ask
    BY <1>b, <2>1, <2>3, <2>7 DEF Register, Ask, Places
  <2>8. CASE Receive \/ Withdraw
    BY <2>4, <2>8 DEF Receive, Withdraw
  <2>9. CASE Poll \/ Expire \/ LeaveInbox
    BY <1>d, <1>e, <2>1, <2>2, <2>3, <2>9 DEF Poll, Expire, LeaveInbox, Places
  <2>10. CASE SaveDecision \/ Crash
    BY <2>1, <2>10 DEF SaveDecision, Crash, Places
  <2>11. CASE Resume
    <3>1. run' = [run EXCEPT !.at = "decided", !.decision = saved] => run'.at = "decided"
      BY <1>0, RunFields DEF Shape, Places
    <3> QED
      BY <2>1, <2>11, <3>1 DEF Resume, Places
  <2> QED
    BY <2>5, <2>6, <2>7, <2>8, <2>9, <2>10, <2>11
    DEF Next, Asking, Waiting, Submitting, vars, host, pending, SaveEnd, Take, Send, Resolve, Submit, Cancel, TimePasses
<1> DEFINE ToldRight(o) ==
       /\ oper[o].past => past
       /\ oper[o].at # "idle" => inbox.status # "none"
       /\ oper[o].at # "send"
       /\ oper[o].at = "accepted" => inbox.decision = oper[o].decision
       /\ oper[o].at = "conflict" => inbox.decision \in Decisions \ {oper[o].decision}
       /\ oper[o].at = "expired" => limit = "request" /\ past
<1>2. \A o \in Operators : ToldRight(o)
  BY <1>0, <1>b DEF InboxIsSound
\* A word that was right stays right.
<1>3. ASSUME NEW o \in Operators, oper'[o] = oper[o] PROVE ToldRight(o)'
  <2>1. oper[o].at = "accepted" => oper[o].decision \in Answers
    BY <1>0 DEF AnswersAreKnown
  <2>2. oper[o].at \in {"accepted", "conflict"} => inbox'.decision = inbox.decision
    BY <1>2, <1>e, <1>f, <2>1
  <2> QED
    BY <1>2, <1>3, <1>b, <1>c, <1>f, <2>2
<1>4. ASSUME NEW o \in Operators, Resolve(o) PROVE ToldRight(o)'
  <2> DEFINE d == oper[o].decision
             expires == limit = "request" /\ oper[o].past
  <2>0. d \in Answers /\ oper[o].at = "resolve" /\ inbox.status \in {"none", "pending", "resolved"}
    BY <1>0, <1>4, Fields DEF Resolve, AnswersAreKnown
  <2>1. \A w \in Outcomes : Told(o, w) => oper'[o].at = w /\ oper'[o].decision = d /\ oper'[o].past = oper[o].past
    BY <1>0, CallFields
  <2>2. CASE Resolvable(d, expires)
    <3>1. Resolved(d) /\ Told(o, "accepted")
      BY <1>4, <2>2 DEF Resolve
    <3>2. inbox'.decision = d
      BY <1>0, <1>e, <2>0, <3>1, RecordFields
    <3>3. oper'[o].at = "accepted" /\ oper'[o].decision = d /\ oper'[o].past = oper[o].past
      BY <2>1, <3>1 DEF Outcomes
    <3> QED
      BY <1>2, <1>c, <1>f, <2>0, <3>2, <3>3
  <2>3. CASE ~Resolvable(d, expires)
    <3>1. /\ inbox' = inbox /\ past' = past
          /\ Told(o, IF inbox.status = "pending" THEN "expired"
                     ELSE IF inbox.decision = d THEN "accepted" ELSE "conflict")
      BY <1>4, <2>3 DEF Resolve
    <3>2. CASE inbox.status = "pending"
      <4>1. oper'[o].at = "expired" /\ oper'[o].past = oper[o].past
        BY <2>1, <3>1, <3>2 DEF Outcomes
      <4>2. expires
        BY <2>3, <3>2 DEF Resolvable
      <4> QED
        BY <1>2, <1>b, <2>0, <3>1, <3>2, <4>1, <4>2
    <3>3. CASE inbox.status = "resolved"
      <4>1. /\ oper'[o].at = (IF inbox.decision = d THEN "accepted" ELSE "conflict")
            /\ oper'[o].decision = d /\ oper'[o].past = oper[o].past
        BY <2>1, <3>1, <3>3 DEF Outcomes
      <4>2. inbox.decision \in Decisions
        BY <1>0, <1>d, <3>3 DEF AnswersAreKnown
      <4> QED
        BY <1>2, <1>b, <2>0, <3>1, <3>3, <4>1, <4>2
    <3> QED
      BY <1>2, <2>0, <3>2, <3>3
  <2> QED
    BY <2>2, <2>3
<1>5. ASSUME NEW o \in Operators, NEW d \in Answers, Submit(o, d) PROVE ToldRight(o)'
  <2>1. oper'[o] = [at |-> "resolve", decision |-> d, past |-> past]
    BY <1>0, <1>5 DEF Submit, Shape
  <2> QED
    BY <1>5, <1>b, <2>1 DEF Submit
<1>6. \A o \in Operators : ToldRight(o)'
  <2>1. CASE UNCHANGED oper
    BY <1>3, <2>1
  <2>2. ASSUME NEW p \in Operators, Resolve(p) \/ \E d \in Answers : Submit(p, d)
        PROVE  \A o \in Operators : ToldRight(o)'
    <3>1. \A o \in Operators \ {p} : oper'[o] = oper[o]
      <4>1. ASSUME NEW d \in Answers, Submit(p, d) PROVE \A o \in Operators \ {p} : oper'[o] = oper[o]
        BY <1>0, <4>1 DEF Submit, Shape
      <4>2. CASE Resolve(p)
        BY <1>0, <4>2, CallFields DEF Resolve, Outcomes
      <4> QED
        BY <2>2, <4>1, <4>2
    <3> QED
      BY <1>3, <1>4, <1>5, <2>2, <3>1
  <2>3. ASSUME NEW p \in Operators PROVE ~Take(p) /\ ~Send(p)
    BY <1>2, <1>b DEF Take, Send
  <2> QED
    BY <1>b, <2>1, <2>2, <2>3
    DEF Next, Asking, Waiting, Submitting, vars, AskFirst, Register, Ask, Receive, Withdraw, Poll,
        Expire, LeaveInbox, SaveDecision, SaveEnd, Cancel, TimePasses, Crash, Resume
<1> QED
  BY <1>1, <1>6 DEF InboxIsSound

-----------------------------------------------------------------------------
\* Where no WithTimeout bounds the wait on the inbox, what the run was given, now or
\* before a crash, is the record's decision.
LEMMA GivenStep == Inv /\ RunIsGivenIt /\ [Next]_vars => RunIsGivenIt'
<1> SUFFICES ASSUME Inv, RunIsGivenIt, [Next]_vars, broker' = "inbox" PROVE RunIsGivenIt'
  BY DEF RunIsGivenIt
<1>0. Shape /\ AnswersAreKnown /\ InboxIsSound
  BY DEF Inv
<1>a. UNCHANGED host
  BY DEF Next, Asking, Waiting, Submitting, vars, host, AskFirst, Register, Ask, Receive, Withdraw, Poll, Expire,
      LeaveInbox, SaveDecision, SaveEnd, Take, Send, Resolve, Submit, Cancel, TimePasses, Crash, Resume
<1>b. broker = "inbox" /\ limit' = limit /\ limit # "timeout"
  BY <1>a DEF host, RunIsGivenIt
<1>c. /\ run.decision # None => run.decision = inbox.decision
      /\ saved \in Decisions => saved = inbox.decision
  BY <1>b DEF RunIsGivenIt
<1>d. run.at \in Places /\ run.decision \in Decisions \cup {None} /\ inbox.decision \in Decisions \cup {None}
  BY <1>0, Fields
<1>e. None \notin Decisions /\ Answers \subseteq Decisions /\ "expired" \in Decisions
      /\ {"nothing", "waiting", "ended"} \cap Decisions = {}
  BY DEF None, Decisions, Answers
<1>f. inbox.decision # None => inbox'.decision = inbox.decision
  BY RecordStep
<1>g. run.at \notin {"wait", "owed"}
  BY <1>0, <1>b DEF InboxIsSound
<1>1. Done => cancelled
  BY <1>b DEF Done
<1>2. (run.decision # None => run.decision = inbox.decision)'
  <2>1. CASE run'.decision = run.decision
    BY <1>c, <1>f, <2>1
  <2>2. CASE run'.decision \in {None, inbox'.decision}
    BY <2>2
  <2>3. \A a \in Places : Goes(a) => run'.decision = run.decision
    BY <1>0, MoveFields
  <2>4. \A d \in Decisions \cup {None} : Returns(d) => run'.decision = d
    BY <1>0, MoveFields
  <2>5. CASE UNCHANGED run
    BY <2>1, <2>5
  <2>6. CASE AskFirst
    <3>1. run'.decision = run.decision
      BY <1>0, <2>6 DEF AskFirst, Shape, Runs
    <3> QED
      BY <2>1, <3>1
  <2>7. CASE Register
    BY <1>b, <2>1, <2>3, <2>7 DEF Register, Places
  <2>8. CASE Ask \/ LeaveInbox
    BY <1>b, <1>1, <2>1, <2>3, <2>8 DEF Ask, LeaveInbox, GivesUp, Places
  <2>9. CASE Receive \/ Withdraw
    BY <1>g, <2>9 DEF Receive, Withdraw
  <2>10. CASE Poll
    BY <1>d, <2>1, <2>2, <2>3, <2>4, <2>10 DEF Poll, Places
  <2>11. CASE Expire
    <3>1. CASE Resolved("expired") /\ Returns("expired")
      BY <1>0, <1>e, <2>2, <2>4, <3>1, RecordFields
    <3>2. CASE UNCHANGED inbox /\ inbox.decision = "expired" /\ Returns("expired")
      BY <1>e, <2>2, <2>4, <3>2
    <3>3. CASE Goes("poll") \/ Goes("asleep")
      BY <2>1, <2>3, <3>3 DEF Places
    <3> QED
      BY <2>11, <3>1, <3>2, <3>3 DEF Expire
  <2>12. CASE SaveDecision \/ Crash
    BY <2>1, <2>3, <2>12 DEF SaveDecision, Crash, Places
  <2>13. CASE Resume
    <3>1. run' = [at |-> "register", made |-> crashes + 1, decision |-> None] => run'.decision = None
      OBVIOUS
    <3>2. run' = [run EXCEPT !.at = "decided", !.decision = saved] => run'.decision = saved
      BY <1>0 DEF Shape, Runs
    <3>3. inbox' = inbox
      BY <2>13 DEF Resume
    <3> QED
      BY <1>c, <2>1, <2>2, <2>3, <2>13, <3>1, <3>2, <3>3 DEF Resume, Places
  <2> QED
    BY <2>5, <2>6, <2>7, <2>8, <2>9, <2>10, <2>11, <2>12, <2>13
    DEF Next, Asking, Waiting, Submitting, vars, host, pending, SaveEnd, Take, Send, Resolve, Submit, Cancel, TimePasses
<1>3. (saved \in Decisions => saved = inbox.decision)'
  <2>1. CASE UNCHANGED saved
    BY <1>c, <1>e, <1>f, <2>1
  <2>2. CASE AskFirst \/ SaveEnd
    BY <1>e, <2>2 DEF AskFirst, SaveEnd
  <2>3. CASE SaveDecision
    <3>1. saved' = run.decision /\ run.decision # None /\ inbox' = inbox
      BY <1>0, <2>3 DEF SaveDecision, AnswersAreKnown
    <3> QED
      BY <1>c, <3>1
  <2> QED
    BY <2>1, <2>2, <2>3
    DEF Next, Asking, Waiting, Submitting, vars, Register, Ask, Receive, Withdraw, Poll, Expire,
        LeaveInbox, Take, Send, Resolve, Submit, Cancel, TimePasses, Crash, Resume
<1> QED
  BY <1>b, <1>2, <1>3 DEF RunIsGivenIt

-----------------------------------------------------------------------------
\* Every state of the request keeps the invariant: the answer is with one operator, in
\* the channel, in the record or with the run (broker.go, store_broker.go, agent.go).
THEOREM Invariance == Spec => []Inv
<1>1. Init => Inv
  BY Initially
<1>2. Inv /\ [Next]_vars => Inv'
  BY ShapeStep, KnownStep, PendingStep, InboxStep DEF Inv
<1> QED
  BY <1>1, <1>2, PTL DEF Spec

\* The state keeps its shape, and the PendingBroker's map holds no wait that has ended
\* (broker.go Request, Submit), for any operators and crashes.
THEOREM TypeCorrect == Spec => []TypeOK
<1>1. Inv => TypeOK
  BY Fields DEF Inv, Shape, AnswersAreKnown, PendingIsSound, TypeOK, Places, Outcomes, Numbers
<1> QED
  BY <1>1, Invariance, PTL

\* What the PendingBroker's Submit accepted is what its Request returns, and it accepts
\* one answer (broker.go Request, Submit and WithTimeout).
THEOREM AcceptedAnswersReachTheRun == Spec => []AcceptedReachesRun
<1>1. Inv => AcceptedReachesRun
  BY DEF Inv, PendingIsSound, Busy, Holds, AcceptedReachesRun
<1> QED
  BY <1>1, Invariance, PTL

\* Without WithTimeout around the StoreBroker, what the operators were told and what
\* the run was given is the one decision of the inbox (the inboxes' Resolve,
\* store_broker.go Request).
THEOREM DecisionIsOne == ASSUME ~TimedInbox PROVE Spec => []OneDecision
<1>1. Init => RunIsGivenIt
  BY DEF Init, RunIsGivenIt, Decisions, Answers, None
<1>2. Inv /\ RunIsGivenIt /\ [Next]_vars => RunIsGivenIt'
  BY GivenStep
<1>3. Inv /\ RunIsGivenIt => OneDecision
  BY DEF Inv, InboxIsSound, RunIsGivenIt, OneDecision
<1> QED
  BY <1>1, <1>2, <1>3, Invariance, PTL DEF Spec
=============================================================================
