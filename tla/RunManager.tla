----------------------------- MODULE RunManager -----------------------------
(***************************************************************************)
(* The run managers of several processes and the registry they share       *)
(* (server/harnesshttp/run_manager.go, run_registry_sqlite.go), for one    *)
(* run: admission and the claim of a lease, the goroutine that drains the  *)
(* agent's stream, the heartbeat, cancellation from any process, Forget,   *)
(* the retention of terminal records and Close.                            *)
(*                                                                         *)
(* The agent is seen from here: it logs events and sends them, ends with a *)
(* terminal event or without one, and stops when its context is cancelled  *)
(* (HarnessRun has the inside).  Of the log, its last event is kept; the   *)
(* terminal statuses and events are not told apart.                        *)
(***************************************************************************)
EXTENDS Naturals, Sequences, FiniteSets

CONSTANTS Managers,   \* the processes
          MaxClaims,  \* bound on the leases of the run
          MaxCrashes, \* bound on the processes that die
          Capacity    \* events the agent's stream holds

ASSUME ManagerAssumption == MaxClaims \in Nat /\ MaxCrashes \in Nat /\ Capacity \in Nat \ {0}

VARIABLES
  reg,      \* the registry's record of the run
  end,      \* the kind of the last event in the log
  run,      \* each manager's record of the run: its entry in m.runs
  worker,   \* the goroutine that starts the run and drains its stream
  beat,     \* its heartbeat
  agent,    \* the agent that executes it
  out,      \* the agent's stream
  closing,  \* Close of the manager
  forget,   \* a call of Forget
  claims, crashes,
  late      \* a lease has expired under a manager whose heartbeats run

vars == <<reg, end, run, worker, beat, agent, out, closing, forget, claims, crashes, late>>

\* ctx is the run's context: it is cancelled by Cancel, Close, a lost lease and the end.
NoRun == [status |-> "none", token |-> 0, ctx |-> "live", resume |-> FALSE]
NoRecord == [status |-> "none", token |-> 0, cancel |-> FALSE, expired |-> FALSE]

Init ==
  /\ reg = NoRecord /\ end = "nothing"
  /\ run = [m \in Managers |-> NoRun] /\ worker = [m \in Managers |-> "idle"]
  /\ beat = [m \in Managers |-> "off"] /\ agent = [m \in Managers |-> "none"]
  /\ out = [m \in Managers |-> <<>>] /\ closing = [m \in Managers |-> "open"]
  /\ forget = [m \in Managers |-> "idle"]
  /\ claims = 0 /\ crashes = 0 /\ late = FALSE

\* The registry's conditions.  A lease is named by its token.
Active == reg.status = "active"
\* Mutant: a resume may claim what another has claimed.
ClaimableAnyway == TRUE
Claimable == Active => reg.expired
Holds(m) == Active /\ reg.token = run[m].token
Cancelled(m) == [run EXCEPT ![m].ctx = "cancelled"]
Ended(m) == [run EXCEPT ![m].status = "ended", ![m].ctx = "cancelled"]
Finished(m) == run[m].status = "ended"

-----------------------------------------------------------------------------
\* Start and Resume look at the log and then claim the lease, under the manager's own
\* mutex (worker "claim").
Admit(m, resume) ==
  /\ worker[m] = "idle" /\ forget[m] = "idle" /\ closing[m] = "open" /\ run[m] = NoRun
  /\ resume <=> end # "nothing"
  /\ claims < MaxClaims
  /\ worker' = [worker EXCEPT ![m] = "claim"] /\ run' = [run EXCEPT ![m].resume = resume]
  /\ UNCHANGED <<reg, end, beat, agent, out, closing, forget, claims, crashes, late>>

\* A resuming claim keeps the request to cancel that it finds.
Claim(m) ==
  /\ worker[m] = "claim"
  /\ IF Claimable /\ claims < MaxClaims
     THEN /\ claims' = claims + 1
          /\ reg' = [status |-> "active", token |-> claims + 1, expired |-> FALSE,
                     cancel |-> reg.cancel /\ run[m].resume]
          /\ run' = [run EXCEPT ![m] = [NoRun EXCEPT !.status = "active", !.token = claims + 1]]
          /\ worker' = [worker EXCEPT ![m] = "check"]
     ELSE /\ worker' = [worker EXCEPT ![m] = "idle"] /\ run' = [run EXCEPT ![m] = NoRun]
          /\ UNCHANGED <<reg, claims>>
  /\ UNCHANGED <<end, beat, agent, out, closing, forget, crashes, late>>

\* An inherited cancellation is looked for before the agent is opened.
CheckCancel(m) ==
  /\ worker[m] = "check"
  /\ worker' = [worker EXCEPT ![m] = IF Holds(m) THEN "open" ELSE "persist"]
  /\ run' = IF Holds(m) /\ ~reg.cancel THEN run ELSE Cancelled(m)
  /\ UNCHANGED <<reg, end, beat, agent, out, closing, forget, claims, crashes, late>>

OpenAgent(m) ==
  /\ worker[m] = "open"
  /\ worker' = [worker EXCEPT ![m] = "drain"] /\ beat' = [beat EXCEPT ![m] = "wait"]
  /\ agent' = [agent EXCEPT ![m] = "live"]
  /\ UNCHANGED <<reg, end, run, out, closing, forget, claims, crashes, late>>

OpenFails(m) ==
  /\ worker[m] = "open"
  /\ worker' = [worker EXCEPT ![m] = "persist"] /\ run' = Cancelled(m)
  /\ UNCHANGED <<reg, end, beat, agent, out, closing, forget, claims, crashes, late>>

-----------------------------------------------------------------------------
\* sendEvent: a full stream makes the agent wait, unless its context is cancelled.
Sent(m, kind) ==
  \/ Len(out[m]) < Capacity /\ out' = [out EXCEPT ![m] = Append(@, kind)]
  \/ Len(out[m]) = Capacity /\ run[m].ctx = "cancelled" /\ UNCHANGED out

\* The agent logs an event and sends it; the last one is the terminal event.
AgentStep(m) ==
  /\ agent[m] = "live"
  /\ end' = "event" /\ Sent(m, "event")
  /\ UNCHANGED <<reg, run, worker, beat, agent, closing, forget, claims, crashes, late>>

AgentEnds(m) ==
  /\ agent[m] = "live" /\ agent' = [agent EXCEPT ![m] = "closed"]
  /\ end' = "end" /\ Sent(m, "end")
  /\ UNCHANGED <<reg, run, worker, beat, closing, forget, claims, crashes, late>>

\* A run that waits for an approval in the inbox ends its stream without one.
AgentPauses(m) ==
  /\ agent[m] = "live"
  /\ agent' = [agent EXCEPT ![m] = "closed"]
  /\ UNCHANGED <<reg, end, run, worker, beat, out, closing, forget, claims, crashes, late>>

-----------------------------------------------------------------------------
\* drain and observe.  A change of status is also written to the registry, where the
\* loss of the lease shows.
Observe(m) ==
  /\ worker[m] = "drain" /\ out[m] # <<>>
  /\ out' = [out EXCEPT ![m] = Tail(@)]
  /\ \/ Finished(m) /\ UNCHANGED <<run, worker>>
     \/ /\ ~Finished(m) /\ Head(out[m]) = "event"
        /\ run' \in {run, IF Holds(m) THEN run ELSE Cancelled(m)} /\ UNCHANGED worker
     \/ /\ ~Finished(m) /\ Head(out[m]) = "end"
        /\ run' = Ended(m) /\ worker' = [worker EXCEPT ![m] = "publish"]
  /\ UNCHANGED <<reg, end, beat, agent, closing, forget, claims, crashes, late>>

\* The end of the stream.
StreamClosed(m) ==
  /\ worker[m] = "drain" /\ out[m] = <<>> /\ agent[m] = "closed"
  /\ agent' = [agent EXCEPT ![m] = "none"]
  /\ worker' = [worker EXCEPT ![m] = IF Finished(m) THEN "idle" ELSE "persist"]
  /\ UNCHANGED <<reg, end, run, beat, out, closing, forget, claims, crashes, late>>

\* persistTerminal and finishLocked: the log ends with a terminal event, its own or one
\* that is there.
FinishRun(m) ==
  /\ worker[m] = "persist"
  /\ worker' = [worker EXCEPT ![m] = "release"]
  /\ end' = "end" /\ run' = Ended(m)
  /\ UNCHANGED <<reg, beat, agent, out, closing, forget, claims, crashes, late>>

\* Release publishes the terminal status and ends the lease, if it is still this one.
Released(m) == IF Holds(m) THEN [reg EXCEPT !.status = "ended", !.token = 0, !.expired = FALSE] ELSE reg

\* Mutant: the worker's goroutine ends with the terminal event.
ReleaseAndGo(m) ==
  /\ worker[m] \in {"publish", "release"}
  /\ reg' = Released(m)
  /\ worker' = [worker EXCEPT ![m] = "idle"]
  /\ UNCHANGED <<end, run, beat, agent, out, closing, forget, claims, crashes, late>>

\* After a terminal event the stream is drained to its end ("publish").
Release(m) ==
  /\ worker[m] \in {"publish", "release"}
  /\ reg' = Released(m)
  /\ worker' = [worker EXCEPT ![m] = IF @ = "publish" THEN "drain" ELSE "idle"]
  /\ UNCHANGED <<end, run, beat, agent, out, closing, forget, claims, crashes, late>>

-----------------------------------------------------------------------------
\* The heartbeat refreshes the lease, and then asks for a request to cancel.
\* Mutant: the loss of the lease ends the heartbeat and not the run.
StopNothing(m) == run' = run

StopIfActive(m) == run' = IF Finished(m) THEN run ELSE Cancelled(m)

Refresh(m) ==
  /\ beat[m] = "wait" /\ ~Finished(m) /\ closing[m] = "open"
  /\ IF Holds(m)
     THEN /\ reg' = [reg EXCEPT !.expired = FALSE]
          /\ beat' = [beat EXCEPT ![m] = "ask"] /\ UNCHANGED run
     ELSE beat' = [beat EXCEPT ![m] = "off"] /\ StopIfActive(m) /\ UNCHANGED reg
  /\ UNCHANGED <<end, worker, agent, out, closing, forget, claims, crashes, late>>

\* Mutant: the heartbeat does not ask for a request to cancel.
AskNothing(m) ==
  /\ beat[m] = "ask"
  /\ beat' = [beat EXCEPT ![m] = "wait"]
  /\ UNCHANGED <<reg, end, run, worker, agent, out, closing, forget, claims, crashes, late>>

AskCancel(m) ==
  /\ beat[m] = "ask"
  /\ IF Holds(m) /\ ~reg.cancel
     THEN beat' = [beat EXCEPT ![m] = "wait"] /\ UNCHANGED run
     ELSE beat' = [beat EXCEPT ![m] = "off"] /\ StopIfActive(m)
  /\ UNCHANGED <<reg, end, worker, agent, out, closing, forget, claims, crashes, late>>

BeatStops(m) ==
  /\ beat[m] = "wait" /\ (Finished(m) \/ closing[m] # "open")
  /\ beat' = [beat EXCEPT ![m] = "off"]
  /\ UNCHANGED <<reg, end, run, worker, agent, out, closing, forget, claims, crashes, late>>

-----------------------------------------------------------------------------
\* Cancel: a run of this manager is cancelled here too, once the registry has the
\* request; a run of another only in the registry.
Cancel(m) ==
  /\ worker[m] # "claim" /\ ~Finished(m)
  /\ Active /\ reg' = [reg EXCEPT !.cancel = TRUE]
  /\ run' = IF run[m].status = "active" THEN Cancelled(m) ELSE run
  /\ UNCHANGED <<end, worker, beat, agent, out, closing, forget, claims, crashes, late>>

\* Forget releases the lease itself, for a client may be faster than the worker.  The
\* worker's last steps, which can change nothing any more, are taken to be over when the
\* record goes.
Forget(m) ==
  /\ forget[m] = "idle" /\ Finished(m)
  /\ forget' = [forget EXCEPT ![m] = "delete"] /\ reg' = Released(m)
  /\ UNCHANGED <<end, run, worker, beat, agent, out, closing, claims, crashes, late>>

ForgetDelete(m) ==
  /\ forget[m] = "delete"
  /\ IF reg.status = "ended"
     THEN reg' = NoRecord /\ worker[m] = "idle" /\ beat[m] = "off" /\ run' = [run EXCEPT ![m] = NoRun]
     ELSE UNCHANGED <<reg, run>>
  /\ forget' = [forget EXCEPT ![m] = "idle"]
  /\ UNCHANGED <<end, worker, beat, agent, out, closing, claims, crashes, late>>

\* The retention of a terminal record is over.  It is taken to be longer than the
\* worker's last steps.
Retire(m) ==
  /\ Finished(m) /\ forget[m] = "idle" /\ worker[m] = "idle" /\ beat[m] = "off"
  /\ run' = [run EXCEPT ![m] = NoRun]
  /\ UNCHANGED <<reg, end, worker, beat, agent, out, closing, forget, claims, crashes, late>>

\* Close takes the mutex, cancels every run and waits for the goroutines.
Close(m) ==
  /\ closing[m] = "open" /\ worker[m] # "claim"
  /\ closing' = [closing EXCEPT ![m] = "closing"]
  /\ run' = IF run[m].status = "active" THEN Cancelled(m) ELSE run
  /\ UNCHANGED <<reg, end, worker, beat, agent, out, forget, claims, crashes, late>>

\* Mutant: a start that is under way is not waited for.
CloseAtOnce(m) ==
  /\ closing[m] = "closing" /\ beat[m] = "off" /\ agent[m] = "none"
  /\ closing' = [closing EXCEPT ![m] = "closed"]
  /\ UNCHANGED <<reg, end, run, worker, beat, agent, out, forget, claims, crashes, late>>

CloseReturns(m) ==
  /\ closing[m] = "closing" /\ worker[m] = "idle" /\ beat[m] = "off"
  /\ closing' = [closing EXCEPT ![m] = "closed"]
  /\ UNCHANGED <<reg, end, run, worker, beat, agent, out, forget, claims, crashes, late>>

-----------------------------------------------------------------------------
\* The process dies and another takes its place.
Crash(m) ==
  /\ crashes < MaxCrashes /\ crashes' = crashes + 1
  /\ run' = [run EXCEPT ![m] = NoRun] /\ worker' = [worker EXCEPT ![m] = "idle"]
  /\ beat' = [beat EXCEPT ![m] = "off"] /\ agent' = [agent EXCEPT ![m] = "none"]
  /\ out' = [out EXCEPT ![m] = <<>>] /\ closing' = [closing EXCEPT ![m] = "open"]
  /\ forget' = [forget EXCEPT ![m] = "idle"]
  /\ UNCHANGED <<reg, end, claims, late>>

\* Time passes: the lease expires.  It is late for a holder that has yet to open its
\* agent or whose heartbeats run.
Punctual(m) == worker[m] \in {"check", "open"} \/ beat[m] # "off"
Expire ==
  /\ Active /\ ~reg.expired
  /\ reg' = [reg EXCEPT !.expired = TRUE]
  /\ late' = (late \/ \E m \in Managers : Holds(m) /\ Punctual(m))
  /\ UNCHANGED <<end, run, worker, beat, agent, out, closing, forget, claims, crashes>>

-----------------------------------------------------------------------------
WorkerStep(m) ==
  \/ Claim(m) \/ CheckCancel(m) \/ OpenAgent(m) \/ OpenFails(m) \/ Observe(m)
  \/ StreamClosed(m) \/ FinishRun(m) \/ Release(m)
BeatStep(m) == Refresh(m) \/ AskCancel(m) \/ BeatStops(m)
AgentStops(m) == run[m].ctx = "cancelled" /\ (AgentEnds(m) \/ AgentPauses(m))
Call(m) ==
  \/ (\E resume \in BOOLEAN : Admit(m, resume)) \/ Cancel(m) \/ Forget(m) \/ ForgetDelete(m) \/ Retire(m)
  \/ Close(m) \/ CloseReturns(m)

Next ==
  \/ \E m \in Managers :
       WorkerStep(m) \/ BeatStep(m) \/ AgentStep(m) \/ AgentEnds(m) \/ AgentPauses(m) \/ Call(m) \/ Crash(m)
  \/ Expire

\* The goroutines of a manager run, an agent whose context is cancelled stops, and the
\* lease of a process that is gone expires.
LeaseRunsOut == Expire /\ \A m \in Managers : ~Holds(m)
Fairness ==
  /\ WF_vars(LeaseRunsOut)
  /\ \A m \in Managers : WF_vars(WorkerStep(m)) /\ WF_vars(BeatStep(m)) /\ WF_vars(AgentStops(m))

Spec == Init /\ [][Next]_vars /\ Fairness

-----------------------------------------------------------------------------
\* Every variable holds what the code may store in it: an agent is drained by a worker,
\* heartbeats are those of a run that was opened, and no manager has a token to come.
TypeOK ==
  /\ reg.status \in {"none", "active", "ended"} /\ reg.token \in 0 .. claims
  /\ reg.cancel \in BOOLEAN /\ reg.expired \in BOOLEAN
  /\ Active <=> reg.token > 0
  /\ end \in {"nothing", "event", "end"}
  /\ claims \in 0 .. MaxClaims /\ crashes \in 0 .. MaxCrashes /\ late \in BOOLEAN
  /\ \A m \in Managers :
       /\ run[m].status \in {"none", "active", "ended"} /\ run[m].token \in 0 .. claims
       /\ run[m].ctx \in {"live", "cancelled"}
       /\ agent[m] \in {"none", "live", "closed"}
       /\ agent[m] # "none" => worker[m] \in {"drain", "publish"}
       /\ beat[m] \in {"off", "wait", "ask"}
       /\ beat[m] # "off" => run[m].status # "none"
       /\ Len(out[m]) <= Capacity

\* As long as leases outlive the heartbeats' delay, an agent without the run's lease has
\* been told to stop: no process works on a run that another has claimed (run_manager.go
\* heartbeat, updateRegistry; the registry's Claim and Update).
Fenced == \A m \in Managers : agent[m] = "live" /\ run[m].ctx = "live" => late \/ Holds(m)

\* Once Close has returned nothing of the manager runs, and no lease of its is left for
\* others to wait for (run_manager.go start, drain and Close: wg, closed, Release).
ClosedIsQuiet ==
  \A m \in Managers :
    closing[m] = "closed" => agent[m] = "none" /\ worker[m] = "idle" /\ beat[m] = "off" /\ ~Holds(m)

\* However late, a process whose lease was taken stops working on the run.
StolenOwnerStops ==
  \A m \in Managers : (agent[m] = "live" /\ ~Holds(m)) ~> agent[m] # "live"

\* A request to cancel that the registry has accepted ends the run, unless the process
\* that holds the lease is gone and the lease expires.
CancelIsConsumed == (Active /\ reg.cancel) ~> (~Active \/ reg.expired)
=============================================================================
