------------------------------ MODULE HarnessRun ------------------------------
(***************************************************************************)
(* One durable agent run: the loop of harness/runner.go with the model,    *)
(* tool and approval boundaries of agent.go, the checkpoint store that a   *)
(* resume starts from and the lifecycle events of the run's log.           *)
(*                                                                         *)
(* A process may stop between any two steps: that is a crash, and it is    *)
(* also what a failed append to the event log comes to, since the runner   *)
(* then returns without another durable write.  A checkpoint write may     *)
(* report an error and may then have been stored or not.                   *)
(*                                                                         *)
(* The transcript is kept as what the properties tell apart: the kind of   *)
(* its newest message, the calls the model asked for, and how many results *)
(* each of them was given.  A call is named by the turn that asked for it  *)
(* and its position in that assistant message.                             *)
(*                                                                         *)
(* Configured: one agent in the react mode, no run controller, no hooks    *)
(* but Stop, no planner, sub-agent or compactor.                           *)
(***************************************************************************)
EXTENDS Integers, Sequences

CONSTANTS
  MaxSteps,      \* Runner.MaxSteps
  MaxTurns,      \* bound: model answers that ask for tool calls
  MaxCalls,      \* bound: tool calls in one model answer
  Gated,         \* the calls whose tool asks for an approval
  GrantKey,      \* what a standing approval of a call is keyed by in each scope
  MaxRefusals,   \* Runner.MaxStopHookRetries
  MaxRetries,    \* model retries the retry policy allows in one step
  HistoryLimit,  \* ModelAttemptHistoryLimit
  MaxLaunches,   \* bound: processes that ever work on the run
  MaxFaults      \* bound: checkpoint writes that report an error

CallIds == (1 .. MaxTurns) \X (1 .. MaxCalls)
NoCall == <<0, 0>>

\* A standing approval holds for the requests with the same key: the request's
\* fingerprint in scope "run", its rule key in scope "rule".
Scopes == {"run", "rule"}
Grant(c, scope) == <<scope, GrantKey[c][scope]>>
GrantsOf(c) == {Grant(c, scope) : scope \in Scopes}
Grants == UNION {GrantsOf(c) : c \in CallIds}

ASSUME BoundsAssumption ==
  /\ MaxSteps \in Nat \ {0} /\ MaxTurns \in Nat /\ MaxCalls \in Nat
  /\ MaxRefusals \in Nat /\ MaxRetries \in Nat
  /\ MaxLaunches \in Nat /\ MaxFaults \in Nat
ASSUME HistoryAssumption == HistoryLimit \in Nat \ {0}
ASSUME GatedAssumption == Gated \subseteq CallIds

VARIABLES
  ckpt,       \* durable: the newest checkpoint, of phase "none" before the first
  lifecycle,  \* durable: the newest lifecycle event of the run's log
  done,       \* durable: the log holds a run.done
  execs,      \* the world: how often each call's tool has taken effect
  consents,   \* the world: the calls an operator has approved
  standing,   \* the world: the standing approvals operators have given
  verdict,    \* the world: the Stop hook's answer on the newest model answer
  st,         \* process: the RunState in memory
  pc,         \* process: where the run loop is
  cancelled,  \* process: the run's context is cancelled
  broker,     \* process: an approval broker is configured
  final,      \* process: in the loop of the final turn (resumeFinalizing too)
  refusals,   \* process: stopRetries
  retries,    \* process: retriesDone of the current model call
  launches, faults

durable == <<ckpt, lifecycle, done>>
world == <<execs, consents, standing, verdict>>
local == <<cancelled, broker, final, refusals, retries>>
vars == <<ckpt, lifecycle, done, execs, consents, standing, verdict, st, pc,
          cancelled, broker, final, refusals, retries, launches, faults>>

-----------------------------------------------------------------------------
Terminal == {"completed", "failed", "cancelled"}
Phases == {"created", "model", "tool", "approval", "finalizing"} \cup Terminal
Statuses == {"idle", "running", "streaming", "tool", "waiting"} \cup Terminal

NoAttempt ==
  [id |-> 0, step |-> 0, status |-> "none", replaces |-> 0, replacement |-> 0]

Attempts ==
  [id : Nat, step : 0 .. MaxSteps,
   status : {"none", "started", "streaming", "interrupted", "superseded", "committed"},
   replaces : Nat, replacement : Nat]

\* The durable state of a run, harness.RunState.
RunStates ==
  [phase : Phases \cup {"none"}, status : Statuses, step : 0 .. MaxSteps,
   last : {"user", "text", "calls", "tool"},
   turn : 0 .. MaxTurns, asked : SUBSET CallIds, answers : [CallIds -> Nat],
   pending : Seq(CallIds), active : CallIds \cup {NoCall},
   approved : SUBSET CallIds, waiting : BOOLEAN, granted : SUBSET Grants,
   attempt : Attempts, history : Seq(Attempts)]

FreshState ==
  [phase |-> "created", status |-> "idle", step |-> 0, last |-> "user",
   turn |-> 0, asked |-> {}, answers |-> [c \in CallIds |-> 0],
   pending |-> <<>>, active |-> NoCall,
   approved |-> {}, waiting |-> FALSE, granted |-> {},
   attempt |-> NoAttempt, history |-> <<>>]

NoCheckpoint == [FreshState EXCEPT !.phase = "none"]

Init ==
  /\ ckpt = NoCheckpoint /\ lifecycle = "none" /\ done = FALSE
  /\ execs = [c \in CallIds |-> 0] /\ consents = {} /\ standing = {}
  /\ verdict = "none"
  /\ st = FreshState /\ pc = "down"
  /\ cancelled = FALSE /\ broker = FALSE /\ final = FALSE
  /\ refusals = 0 /\ retries = 0 /\ launches = 0 /\ faults = 0

-----------------------------------------------------------------------------
\* An error ends the run (runner.fail): as cancelled if it is that of a context, the
\* run's own or one whose deadline has passed in a model, a hook or a broker.  A store
\* is under the run's own.
ErrorExits == {"fail", "cancel"}
StoreExits == {"fail"} \cup (IF cancelled THEN {"cancel"} ELSE {})

\* A checkpoint of state s, after which the loop goes on at next.
Save(s, next) ==
  /\ st' = s
  /\ \/ ckpt' = s /\ pc' = next /\ UNCHANGED faults
     \/ /\ faults < MaxFaults /\ faults' = faults + 1
        /\ ckpt' \in {ckpt, s} /\ pc' \in StoreExits
  /\ UNCHANGED <<lifecycle, done, launches>>

Goto(next) ==
  /\ pc' = next
  /\ UNCHANGED <<durable, world, st, local, launches, faults>>

\* The process is gone, and with it everything it held in memory.
Exit ==
  /\ pc' = "down" /\ st' = FreshState
  /\ cancelled' = FALSE /\ broker' = FALSE /\ final' = FALSE
  /\ refusals' = 0 /\ retries' = 0

\* The last lifecycle event of this process.
Conclude(event) ==
  /\ lifecycle' = event /\ done' = (done \/ event = "run.done")
  /\ Exit
  /\ UNCHANGED <<ckpt, launches, faults>>

TerminalEvent(phase) ==
  CASE phase = "completed" -> "run.done"
    [] phase = "failed" -> "run.error"
    [] phase = "cancelled" -> "run.cancelled"

-----------------------------------------------------------------------------
\* Attempt history (harness/state.go).

\* Mutant: the oldest attempt keeps its link to the one that was dropped.
AppendKeepingLink(history, a) ==
  LET all == Append(history, a)
  IN  IF Len(all) <= HistoryLimit THEN all
      ELSE SubSeq(all, Len(all) - HistoryLimit + 1, Len(all))

AppendAttempt(history, a) ==
  LET all == Append(history, a)
  IN  IF Len(all) <= HistoryLimit THEN all
      ELSE [SubSeq(all, Len(all) - HistoryLimit + 1, Len(all))
              EXCEPT ![1].replaces = 0]

\* Attempt identities are time stamps.  Only those still in the state matter,
\* so HistoryLimit + 2 stamps go round.
NextAttemptId(s) ==
  LET newest == IF s.attempt # NoAttempt THEN s.attempt.id
                ELSE IF s.history # <<>> THEN s.history[Len(s.history)].id
                ELSE 0
  IN  IF newest >= HistoryLimit + 2 THEN 1 ELSE newest + 1

Superseded(s) == s.attempt.status = "superseded"

WithNewAttempt(s) ==
  LET id == NextAttemptId(s)
      old == [s.attempt EXCEPT !.replacement = id]
  IN  [s EXCEPT
        !.history = IF Superseded(s) THEN AppendAttempt(@, old) ELSE @,
        !.attempt = [id |-> id, step |-> s.step, status |-> "started",
                     replaces |-> IF Superseded(s) THEN s.attempt.id ELSE 0,
                     replacement |-> 0]]

WithCommittedAttempt(s) ==
  [s EXCEPT !.history = AppendAttempt(@, [s.attempt EXCEPT !.status = "committed"]),
            !.attempt = NoAttempt]

\* What a load demands of the attempts it reads back (ValidateRunState).
Linked(a, b) == a.replaces = b.id /\ b.replacement = a.id
ValidRunState(s) ==
  LET held == {s.history[i] : i \in DOMAIN s.history}
              \cup (IF s.attempt = NoAttempt THEN {} ELSE {s.attempt})
  IN  /\ Len(s.history) <= HistoryLimit
      /\ \A i \in DOMAIN s.history :
           /\ s.history[i].status \in {"committed", "superseded"}
           /\ s.history[i].step <= s.step
           /\ s.history[i].id # s.attempt.id
           /\ \A j \in DOMAIN s.history :
                s.history[i].id = s.history[j].id => i = j
           /\ s.history[i].status = "superseded" => s.history[i].replacement # 0
      /\ s.attempt # NoAttempt =>
           /\ s.attempt.status \in {"started", "streaming", "interrupted", "superseded"}
           /\ s.attempt.step = s.step
      /\ \A a \in held :
           /\ a.replaces # 0 => \E b \in held : Linked(a, b)
           /\ a.replacement # 0 => \E b \in held : Linked(b, a)

-----------------------------------------------------------------------------
\* Mutant: a run whose log has events may be started anew.
LaunchAnew ==
  /\ pc = "down" /\ launches < MaxLaunches
  /\ st' = FreshState /\ pc' = "enter" /\ launches' = launches + 1
  /\ cancelled' = FALSE /\ broker' \in BOOLEAN /\ final' = FALSE
  /\ refusals' = 0 /\ retries' = 0
  /\ UNCHANGED <<durable, world, faults>>

\* A process takes the run up: Agent.Stream for a run without events,
\* Agent.Resume for one whose newest checkpoint can be loaded.
Launch ==
  /\ pc = "down" /\ launches < MaxLaunches
  /\ \/ lifecycle = "none" /\ ckpt = NoCheckpoint /\ st' = FreshState
     \/ ckpt.phase # "none" /\ ValidRunState(ckpt) /\ st' = ckpt
  /\ pc' = "enter" /\ launches' = launches + 1
  /\ cancelled' = FALSE /\ broker' \in BOOLEAN
  /\ final' = (ckpt.phase = "finalizing")
  /\ refusals' = 0 /\ retries' = 0
  /\ UNCHANGED <<durable, world, faults>>

\* The head of Runner.Run: a context that is already cancelled wins over
\* everything the checkpoint says.
Enter ==
  /\ pc = "enter"
  /\ \/ cancelled /\ Goto("cancel")
     \/ /\ ~cancelled
        /\ lifecycle' = IF st.phase = "created" THEN "run.started" ELSE "run.resumed"
        /\ pc' = IF st.phase = "created" THEN "loop" ELSE "resume"
        /\ UNCHANGED <<ckpt, done, world, st, local, launches, faults>>

\* A run that has ended reports its stored outcome and does nothing else.
ResumeTerminal ==
  /\ pc = "resume" /\ st.phase \in Terminal
  /\ Conclude(TerminalEvent(st.phase))
  /\ UNCHANGED world

\* The request is registered with the broker and published; registering may
\* fail, and without a broker the run pauses here.
Requested(next) ==
  \/ /\ broker /\ lifecycle' = "approval.requested" /\ pc' = next
     /\ UNCHANGED <<ckpt, done, world, st, local, launches, faults>>
  \/ broker /\ \E e \in ErrorExits : Goto(e)
  \/ ~broker /\ Conclude("approval.requested") /\ UNCHANGED world

\* A run that waited for an operator asks again.
ResumeWaiting ==
  /\ pc = "resume" /\ st.phase \notin Terminal /\ st.waiting
  /\ Requested("reawait")

\* Mutant: the interrupted call is cleared but not put back.
RequeueForgets ==
  /\ pc = "resume" /\ st.phase \notin Terminal /\ ~st.waiting
  /\ \/ st.active # NoCall
        /\ Save([st EXCEPT !.active = NoCall, !.status = "running"], "attempt")
        /\ UNCHANGED <<world, local>>
     \/ st.active = NoCall /\ Goto("attempt")

\* A call that was active when the process stopped is pending again.
Requeue ==
  /\ pc = "resume" /\ st.phase \notin Terminal /\ ~st.waiting
  /\ \/ /\ st.active # NoCall
        /\ Save([st EXCEPT !.pending = <<st.active>> \o @, !.active = NoCall,
                           !.status = "running"], "attempt")
        /\ UNCHANGED <<world, local>>
     \/ st.active = NoCall /\ Goto("attempt")

\* A model attempt that was under way is interrupted, then superseded.
SettleAttempt ==
  /\ pc = "attempt" /\ st.attempt.status \in {"started", "streaming", "interrupted"}
  /\ IF st.attempt.status = "interrupted"
     THEN Save([st EXCEPT !.attempt.status = "superseded"], "attempt")
     ELSE Save([st EXCEPT !.attempt.status = "interrupted"], "attempt")
  /\ UNCHANGED <<world, local>>

AnswerCommitted ==
  /\ st.phase = "model" /\ st.status = "running" /\ st.attempt = NoAttempt
  /\ st.pending = <<>> /\ st.last = "text"

\* The answer was committed before the process stopped: nothing is left to
\* do but finish.
ResumeAnswer ==
  /\ pc = "attempt" /\ AnswerCommitted
  /\ Save([st EXCEPT !.phase = "completed", !.status = "completed"], "rehook")
  /\ UNCHANGED <<world, local>>

ResumeLoop ==
  /\ pc = "attempt" /\ ~AnswerCommitted
  /\ st.attempt.status \notin {"started", "streaming", "interrupted"}
  /\ Goto(IF final THEN "call" ELSE "loop")

-----------------------------------------------------------------------------
\* One turn of the loop: pending tools, or the next step, or the final turn.
Loop ==
  /\ pc = "loop"
  /\ \/ cancelled /\ Goto("cancel")
     \/ ~cancelled /\ st.pending # <<>> /\ Goto("tools")
     \/ ~cancelled /\ st.pending = <<>>
        /\ Goto(IF st.step >= MaxSteps /\ ~Superseded(st) THEN "limit" ELSE "step")

\* Mutant: repeating a superseded turn counts as a step.
BeginStepAgain ==
  /\ pc = "step"
  /\ Save([st EXCEPT !.step = @ + 1, !.phase = "model", !.status = "streaming"], "call")
  /\ UNCHANGED <<world, local>>

BeginStep ==
  /\ pc = "step"
  /\ Save([st EXCEPT !.step = IF Superseded(st) THEN @ ELSE @ + 1,
                     !.phase = "model", !.status = "streaming"], "call")
  /\ UNCHANGED <<world, local>>

\* The step limit: one notice, then a turn without tools.
BeginFinalTurn ==
  /\ pc = "limit" /\ final' = TRUE
  /\ Save([st EXCEPT !.phase = "finalizing", !.status = "streaming",
                     !.last = "user"], "call")
  /\ UNCHANGED <<world, cancelled, broker, refusals, retries>>

StartAttempt ==
  /\ pc = "call"
  /\ Save(WithNewAttempt(st), "stream")
  /\ UNCHANGED <<world, local>>

\* Each accepted chunk is checkpointed before it is published.
Chunk ==
  /\ pc = "stream" /\ st.attempt.status = "started"
  /\ Save([st EXCEPT !.attempt.status = "streaming"], "stream")
  /\ UNCHANGED <<world, local>>

\* The state after an answer that asks for n calls.
WithAnswer(s, n) ==
  LET turn == s.turn + (IF n = 0 THEN 0 ELSE 1)
  IN  [WithCommittedAttempt(s) EXCEPT
        !.last = IF n = 0 THEN "text" ELSE "calls",
        !.turn = turn,
        !.asked = @ \cup {<<turn, i>> : i \in 1 .. n},
        !.pending = [i \in 1 .. n |-> <<turn, i>>],
        !.phase = IF final THEN "completed" ELSE "model",
        !.status = IF final THEN "completed" ELSE "running"]

\* The stream ends with an answer: it is committed with its usage and its
\* calls in one checkpoint.  An empty one is taken when no retry is left.
ModelAnswers ==
  /\ pc = "stream" /\ (st.attempt.status = "started" => retries >= MaxRetries)
  /\ \E n \in 0 .. (IF st.attempt.status = "started" THEN 0 ELSE MaxCalls) :
       IF final /\ n > 0
       THEN Goto("fail")
       ELSE /\ n > 0 => st.turn < MaxTurns
            /\ Save(WithAnswer(st, n),
                    IF final THEN "hook" ELSE IF n = 0 THEN "complete" ELSE "loop")
            /\ verdict' = "none" /\ retries' = 0
            /\ UNCHANGED <<execs, consents, standing, cancelled, broker, final, refusals>>

\* Mutant: a retry is not counted.
ModelFailsUncounted ==
  /\ pc = "stream"
  /\ \/ \E e \in ErrorExits : Goto(e)
     \/ /\ retries < MaxRetries
        /\ Save([st EXCEPT !.attempt.status = "superseded"], "call")
        /\ UNCHANGED <<world, local>>

\* The stream ends with an error, or empty: the attempt is superseded and
\* tried again while the retry policy allows, else the run fails (or takes what is empty
\* for the answer, ModelAnswers).
ModelFails ==
  /\ pc = "stream"
  /\ \/ \E e \in ErrorExits : Goto(e)
     \/ /\ retries < MaxRetries /\ retries' = retries + 1
        /\ Save([st EXCEPT !.attempt.status = "superseded"], "call")
        /\ UNCHANGED <<world, cancelled, broker, final, refusals>>

CancelledBackoff ==
  /\ pc = "call" /\ retries > 0 /\ cancelled /\ Goto("cancel")

\* Mutant: the outcome is not stored before the run ends.
CompleteUnsaved == pc = "complete" /\ Goto("hook")

\* A step without calls ends the run: the outcome is stored first.
Complete ==
  /\ pc = "complete"
  /\ Save([st EXCEPT !.phase = "completed", !.status = "completed"], "hook")
  /\ UNCHANGED <<world, local>>

-----------------------------------------------------------------------------
\* The Stop hook is asked after the outcome is stored.
HookAllows ==
  /\ pc \in {"hook", "rehook"} /\ verdict' = "allowed"
  /\ Conclude("run.done")
  /\ UNCHANGED <<execs, consents, standing>>

\* Its refusal becomes the newest instruction and the run goes on.
HookRefuses ==
  /\ pc \in {"hook", "rehook"}
  /\ pc = "hook" => refusals < MaxRefusals
  /\ st' = [st EXCEPT !.phase = "model", !.status = "running",
                      !.pending = <<>>, !.last = "user"]
  /\ refusals' = refusals + 1 /\ verdict' = "refused" /\ lifecycle' = "stop.blocked"
  /\ final' = (final /\ pc = "hook")
  /\ pc' = IF pc = "hook" THEN "blocked" ELSE "loop"
  /\ UNCHANGED <<ckpt, done, execs, consents, standing, cancelled, broker, retries,
                 launches, faults>>

\* ... but only so often in one process.
HookExhausted ==
  /\ pc = "hook" /\ refusals >= MaxRefusals /\ verdict' = "exhausted"
  /\ Conclude("run.done")
  /\ UNCHANGED <<execs, consents, standing>>

HookFails == pc \in {"hook", "rehook"} /\ \E e \in ErrorExits : Goto(e)

SaveRefusal ==
  /\ pc = "blocked"
  /\ Save(st, IF final THEN "call" ELSE "loop")
  /\ UNCHANGED <<world, local>>

-----------------------------------------------------------------------------
\* Mutant: the call is made active in memory only.
PopCallUnsaved ==
  /\ pc = "tools" /\ ~cancelled /\ st.pending # <<>>
  /\ st' = [st EXCEPT !.pending = Tail(@), !.active = Head(st.pending),
                     !.phase = "tool", !.status = "tool"]
  /\ pc' = "invoke"
  /\ UNCHANGED <<durable, world, local, launches, faults>>

\* Pending tools, one after the other.  The call is active in the checkpoint
\* before its tool is invoked.
PopCall ==
  /\ pc = "tools" /\ ~cancelled /\ st.pending # <<>>
  /\ Save([st EXCEPT !.pending = Tail(@), !.active = Head(st.pending),
                     !.phase = "tool", !.status = "tool"], "invoke")
  /\ UNCHANGED <<world, local>>

ToolsDone ==
  /\ pc = "tools"
  /\ \/ cancelled /\ st.pending # <<>> /\ Goto("cancel")
     \/ st.pending = <<>> /\ Goto("loop")

NeedsApproval(c) == c \in Gated /\ c \notin st.approved

\* The tool is let loose on the world; whether it succeeds does not matter.
Execute ==
  /\ \/ pc = "invoke" /\ ~NeedsApproval(st.active)
     \/ pc = "execute"
  /\ execs' = [execs EXCEPT ![st.active] = @ + 1]
  /\ pc' = "record"
  /\ UNCHANGED <<durable, consents, standing, verdict, st, local, launches, faults>>

\* Mutant: a grant is reused for every later request.
ReusableByAny(c) == st.granted # {}

Reusable(c) == st.granted \cap GrantsOf(c) # {}

\* A standing approval answers in the operator's place (reusedApprovalDecision).
ReuseGrant ==
  /\ pc = "invoke" /\ NeedsApproval(st.active) /\ Reusable(st.active)
  /\ Save([st EXCEPT !.waiting = FALSE], "execute")
  /\ UNCHANGED <<world, local>>

AskApproval ==
  /\ pc = "invoke" /\ NeedsApproval(st.active) /\ ~Reusable(st.active)
  /\ Save([st EXCEPT !.waiting = TRUE, !.phase = "approval", !.status = "waiting"], "ask")
  /\ UNCHANGED <<world, local>>

PublishRequest == pc = "ask" /\ Requested("await")

\* The operator approves once, or from now on (resolveApproval).
Approve(given) ==
  /\ pc \in {"await", "reawait"}
  /\ consents' = consents \cup {st.active}
  /\ standing' = standing \cup given
  /\ Save([st EXCEPT !.waiting = FALSE, !.status = "running",
                     !.granted = @ \cup given],
          IF pc = "await" THEN "execute" ELSE "requeue")
  /\ UNCHANGED <<execs, verdict, local>>

\* A run that was resumed to wait puts the approved call back first in line,
\* with the decision on it.
RequeueApproved ==
  /\ pc = "requeue"
  /\ Save([st EXCEPT !.pending = <<st.active>> \o @, !.active = NoCall,
                     !.approved = @ \cup {st.active}, !.status = "running"], "resume")
  /\ UNCHANGED <<world, local>>

Resolved(next) ==
  /\ Save([st EXCEPT !.waiting = FALSE, !.status = "running"], next)
  /\ UNCHANGED <<world, local>>

Reject ==
  /\ pc \in {"await", "reawait"}
  /\ Resolved(IF pc = "await" THEN "record" ELSE "rerecord")

Abort == pc \in {"await", "reawait"} /\ Resolved("cancel")

BrokerFails == pc \in {"await", "reawait"} /\ \E e \in ErrorExits : Goto(e)

\* Mutant: the recorded call stays active.
RecordStillActive ==
  /\ pc \in {"record", "rerecord"}
  /\ Save([st EXCEPT !.answers[st.active] = @ + 1, !.last = "tool", !.status = "running"],
          IF pc = "record" THEN "tools" ELSE "resume")
  /\ UNCHANGED <<world, local>>

\* The result joins the transcript and the call is no longer active.
Record ==
  /\ pc \in {"record", "rerecord"}
  /\ Save([st EXCEPT !.active = NoCall, !.answers[st.active] = @ + 1,
                     !.last = "tool", !.status = "running"],
          IF pc = "record" THEN "tools" ELSE "resume")
  /\ UNCHANGED <<world, local>>

-----------------------------------------------------------------------------
\* Outcome is "failed" or "cancelled"; a checkpoint that cannot be written
\* leaves the stored state as it was and the run reports the write's error.
Finish(outcome, at, next) ==
  /\ pc = at
  /\ LET s == [st EXCEPT !.phase = outcome, !.status = outcome]
     IN  \/ /\ ckpt' = s /\ st' = s /\ pc' = next
            /\ UNCHANGED <<lifecycle, done, local, launches, faults>>
         \/ /\ faults < MaxFaults /\ faults' = faults + 1
            /\ ckpt' \in {ckpt, s} /\ lifecycle' = "run.error"
            /\ Exit /\ UNCHANGED <<done, launches>>
  /\ UNCHANGED world

FailRun == Finish("failed", "fail", "report")
CancelRun == Finish("cancelled", "cancel", "report")

Report ==
  /\ pc = "report" /\ Conclude(TerminalEvent(st.phase)) /\ UNCHANGED world

\* The environment: a cancellation, a crash.
Cancel ==
  /\ pc # "down" /\ ~cancelled /\ cancelled' = TRUE
  /\ UNCHANGED <<durable, world, st, pc, broker, final, refusals, retries, launches, faults>>

\* Bound: the process stops only while another one may follow.
Crash ==
  /\ pc # "down" /\ launches < MaxLaunches
  /\ Exit
  /\ UNCHANGED <<durable, world, launches, faults>>

Resume == ResumeTerminal \/ ResumeWaiting \/ Requeue \/ SettleAttempt \/ ResumeAnswer \/ ResumeLoop
Model == BeginStep \/ BeginFinalTurn \/ StartAttempt \/ Chunk \/ ModelAnswers
         \/ ModelFails \/ CancelledBackoff \/ Complete
Hook == HookAllows \/ HookRefuses \/ HookExhausted \/ HookFails \/ SaveRefusal
Tool == PopCall \/ ToolsDone \/ Execute \/ ReuseGrant \/ Record
Approval == AskApproval \/ PublishRequest \/ RequeueApproved
Operator ==
  \/ Approve({}) \/ \E scope \in Scopes : Approve({Grant(st.active, scope)})
  \/ Reject \/ Abort \/ BrokerFails

\* Everything that happens without an operator: a cancelled run does not wait
\* for an answer.
Driven == Launch \/ Enter \/ Resume \/ Loop \/ Model \/ Hook \/ Tool \/ Approval
          \/ (cancelled /\ BrokerFails) \/ FailRun \/ CancelRun \/ Report

Next == Driven \/ Operator \/ Cancel \/ Crash

Spec == Init /\ [][Next]_vars
FairSpec == Spec /\ WF_vars(Driven)
-----------------------------------------------------------------------------
Events == {"none", "run.started", "run.resumed", "approval.requested", "stop.blocked",
           "run.done", "run.error", "run.cancelled"}
Verdicts == {"none", "allowed", "refused", "exhausted"}
Places == {"down", "enter", "resume", "attempt", "requeue", "reawait", "rerecord",
           "rehook", "loop", "tools", "limit", "step", "call", "stream", "complete",
           "hook", "blocked", "invoke", "execute", "ask", "await", "record",
           "fail", "cancel", "report"}

\* The durable state (harness.RunState) and the loop's own variables keep their
\* shape: no step beyond MaxSteps, every call one that a model answer asked for.
TypeOK ==
  /\ ckpt \in RunStates /\ st \in RunStates
  /\ lifecycle \in Events /\ done \in BOOLEAN
  /\ execs \in [CallIds -> Nat] /\ consents \subseteq CallIds /\ standing \subseteq Grants
  /\ verdict \in Verdicts /\ pc \in Places
  /\ cancelled \in BOOLEAN /\ broker \in BOOLEAN /\ final \in BOOLEAN
  /\ refusals \in Nat /\ retries \in Nat /\ launches \in Nat /\ faults \in Nat

\* A provider refuses a request whose transcript leaves a tool call without a
\* result or gives it two.  Whatever crashes, approvals and resumes lie behind
\* it, every model request (callModelAttemptDurable) carries exactly one result
\* for every call the model ever asked for.
TranscriptIsAnswered ==
  pc = "stream" => \A c \in CallIds : st.answers[c] = (IF c \in st.asked THEN 1 ELSE 0)

\* A tool may be invoked again only because a process stopped while it was
\* active (docs/failure-modes.md, Active Tool Interrupted): each launch lets
\* a call loose at most once, and never once its result is in the stored
\* transcript.
InvokedOncePerLaunch ==
  /\ \A c \in CallIds : execs[c] <= launches
  /\ \A c \in CallIds : ckpt.answers[c] > 0 => c \notin
       {ckpt.active} \cup {ckpt.pending[i] : i \in DOMAIN ckpt.pending}

\* Write-ahead: when a tool is let loose, the newest checkpoint already names
\* it as the active call and holds no result for it, so no crash can hide
\* that it may have run.
ToolsAreWrittenAhead ==
  [][\A c \in CallIds : execs'[c] # execs[c] =>
        ckpt.active = c /\ ckpt.answers[c] = 0]_vars

Backed(c) == c \in consents \/ standing \cap GrantsOf(c) # {}

\* A gated tool never runs unless an operator approved this very call, or gave
\* a standing approval with this call's fingerprint or rule key, in whatever
\* process that was.
EffectsAreApproved == \A c \in Gated : execs[c] > 0 => Backed(c)

\* Save checks the frame of a checkpoint only, Load checks the attempts inside
\* too (checkpoint.ValidateForLoad): a state the run saves is never one that
\* it could not be resumed from.
SavedStateLoads == ckpt.phase # "none" => ValidRunState(ckpt)

\* A run.done in the log is backed by a stored outcome; only a cancellation
\* that reaches a later resume can replace it.
DoneIsStored == done => ckpt.phase \in {"completed", "cancelled"}

\* Work that reached a checkpoint is never lost to a crash and a resume: the
\* step does not go back, a call stays asked for, a result stays in place.
CommittedWorkSurvives ==
  [][ckpt.phase # "none" =>
       /\ ckpt'.step >= ckpt.step
       /\ ckpt.asked \subseteq ckpt'.asked
       /\ \A c \in CallIds : ckpt'.answers[c] >= ckpt.answers[c]
       /\ ckpt.approved \subseteq ckpt'.approved
       /\ ckpt.granted \subseteq ckpt'.granted]_vars

\* A run whose processes stop only finitely often comes to an end for good: one
\* that the log reports, or an approval request that nobody answers, or it
\* stopped before its first checkpoint, when there is nothing to resume from.
Settled ==
  \/ pc \in {"await", "reawait"} /\ ~cancelled
  \/ pc = "down" /\ lifecycle \in {"run.done", "run.error", "run.cancelled",
                                   "approval.requested"}
  \/ pc = "down" /\ ckpt = NoCheckpoint /\ lifecycle # "none"
RunSettles == <>[]Settled
=============================================================================
