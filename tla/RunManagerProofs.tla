--------------------------- MODULE RunManagerProofs ---------------------------
(***************************************************************************)
(* Proofs about RunManager for any processes, any number of leases and     *)
(* crashes and any capacity of the agent's stream: who works on the run,   *)
(* and what Close leaves.                                                  *)
(***************************************************************************)
EXTENDS RunManager, TLAPS

Records == [status : {"none", "active", "ended"}, token : Nat, cancel : BOOLEAN, expired : BOOLEAN]
Runs == [status : {"none", "active", "ended"}, token : Nat, ctx : {"live", "cancelled"}, resume : BOOLEAN]
Places == {"idle", "claim", "check", "open", "drain", "publish", "persist", "release"}

\* The shape of every variable.
Shape ==
  /\ reg \in Records /\ end \in {"nothing", "event", "end"}
  /\ run \in [Managers -> Runs] /\ worker \in [Managers -> Places]
  /\ beat \in [Managers -> {"off", "wait", "ask"}] /\ agent \in [Managers -> {"none", "live", "closed"}]
  /\ out \in [Managers -> Seq({"event", "end"})]
  /\ closing \in [Managers -> {"open", "closing", "closed"}] /\ forget \in [Managers -> {"idle", "delete"}]
  /\ claims \in 0 .. MaxClaims /\ crashes \in 0 .. MaxCrashes /\ late \in BOOLEAN

\* What a manager's goroutines know of each other and of the record of the run.
Phase(m) ==
  /\ run[m].status = "none" => worker[m] \in {"idle", "claim"}
  /\ worker[m] = "claim" => run[m].status = "none"
  /\ worker[m] = "idle" => run[m].status # "active"
  /\ worker[m] \in {"check", "open", "persist"} => run[m].status = "active"
  /\ worker[m] \in {"publish", "release"} => run[m].status = "ended"
  /\ worker[m] \in {"claim", "check", "open"} => beat[m] = "off"
  /\ agent[m] # "none" => worker[m] \in {"drain", "publish"}
  /\ run[m].status = "none" => beat[m] = "off" /\ run[m].token = 0
  /\ run[m].status = "ended" => run[m].ctx = "cancelled"
  /\ worker[m] = "drain" /\ run[m].ctx = "live" => beat[m] # "off"
  /\ closing[m] # "open" => worker[m] # "claim" /\ (run[m].status = "active" => run[m].ctx = "cancelled")
  /\ closing[m] = "closed" => worker[m] = "idle" /\ beat[m] = "off"
  /\ Len(out[m]) <= Capacity

\* Tokens name leases: each has one, and the newest is the highest.
TokensAreApart ==
  /\ reg.token <= claims /\ (Active <=> reg.token > 0)
  /\ \A m \in Managers : run[m].token <= claims
  /\ \A m, n \in Managers : m # n /\ run[m].token = run[n].token => run[m].token = 0

\* Who works on the run, from its claim on, holds the lease or was overtaken by its
\* expiry; whose run is over gives the lease back before it goes.
Working(m) == worker[m] \in {"check", "open", "drain"} /\ run[m].ctx = "live"
Lease(m) ==
  /\ Working(m) => late \/ (Holds(m) /\ ~reg.expired)
  /\ run[m].status = "ended" /\ worker[m] \in {"drain", "idle"} => ~Holds(m)

Inv == Shape /\ TokensAreApart /\ (\A m \in Managers : Phase(m)) /\ (\A m \in Managers : Lease(m))

-----------------------------------------------------------------------------
\* Initially every part holds.
LEMMA Initially == Init => Inv
<1> SUFFICES ASSUME Init PROVE Inv
  OBVIOUS
<1>1. Shape
  <2>1. NoRecord \in Records /\ NoRun \in Runs
    BY DEF NoRecord, NoRun, Records, Runs
  <2>2. claims \in 0 .. MaxClaims /\ crashes \in 0 .. MaxCrashes
    BY ManagerAssumption DEF Init
  <2>3. out \in [Managers -> Seq({"event", "end"})]
    <3>1. <<>> \in Seq({"event", "end"})
      OBVIOUS
    <3> QED
      BY <3>1 DEF Init
  <2>4. worker \in [Managers -> Places]
    BY DEF Init, Places
  <2> QED
    BY <2>1, <2>2, <2>3, <2>4 DEF Init, Shape
<1>2. TokensAreApart
  BY DEF Init, TokensAreApart, Active, NoRecord, NoRun
<1>3. \A m \in Managers : Phase(m)
  <2> SUFFICES ASSUME NEW m \in Managers PROVE Phase(m)
    OBVIOUS
  <2>1. Len(out[m]) <= Capacity
    BY ManagerAssumption DEF Init
  <2> QED
    BY <2>1 DEF Init, Phase, NoRun
<1>4. \A m \in Managers : Lease(m)
  BY DEF Init, Lease, Working, NoRun
<1> QED
  BY <1>1, <1>2, <1>3, <1>4 DEF Inv

-----------------------------------------------------------------------------
\* What the updates of a manager's record of the run, and of the registry's, do.
LEMMA RunUpdates ==
  ASSUME Shape, NEW m \in Managers
  PROVE  /\ Cancelled(m) \in [Managers -> Runs] /\ Ended(m) \in [Managers -> Runs]
         /\ Cancelled(m)[m].status = run[m].status /\ Ended(m)[m].status = "ended"
         /\ Cancelled(m)[m].ctx = "cancelled" /\ Ended(m)[m].ctx = "cancelled"
         /\ Cancelled(m)[m].token = run[m].token /\ Ended(m)[m].token = run[m].token
         /\ \A n \in Managers \ {m} : Cancelled(m)[n] = run[n] /\ Ended(m)[n] = run[n]
<1> DEFINE c == [run[m] EXCEPT !.ctx = "cancelled"]
           e == [run[m] EXCEPT !.status = "ended"]
           f == [run EXCEPT ![m].status = "ended"]
<1>1. run[m] \in Runs
  BY DEF Shape
<1>2. c \in Runs /\ c.status = run[m].status /\ c.token = run[m].token /\ c.ctx = "cancelled"
  BY <1>1 DEF Runs
<1>3. Cancelled(m) = [run EXCEPT ![m] = c]
  BY DEF Cancelled
<1>4. e \in Runs /\ e.status = "ended" /\ e.token = run[m].token
  BY <1>1 DEF Runs
<1>5. f = [run EXCEPT ![m] = e]
  OBVIOUS
<1>6. f \in [Managers -> Runs] /\ f[m] = e /\ \A n \in Managers \ {m} : f[n] = run[n]
  BY <1>4, <1>5 DEF Shape
<1> HIDE DEF e, f
<1> DEFINE x == [e EXCEPT !.ctx = "cancelled"]
<1>7. x \in Runs /\ x.status = "ended" /\ x.token = run[m].token /\ x.ctx = "cancelled"
  BY <1>4 DEF Runs
<1>8. Ended(m) = [f EXCEPT ![m] = x]
  BY <1>6 DEF Ended, f
<1> HIDE DEF x, c
<1> QED
  BY <1>2, <1>3, <1>6, <1>7, <1>8 DEF Shape

LEMMA ReleaseUpdates ==
  ASSUME Shape, NEW m \in Managers
  PROVE  /\ Released(m) \in Records /\ Released(m).cancel = reg.cancel
         /\ Holds(m) => /\ Released(m).status = "ended" /\ Released(m).token = 0
         /\ ~Holds(m) => Released(m) = reg
<1> DEFINE a == [reg EXCEPT !.status = "ended"]
           b == [a EXCEPT !.token = 0]
           c == [b EXCEPT !.expired = FALSE]
<1>1. a \in Records /\ a.status = "ended" /\ a.cancel = reg.cancel
  BY DEF Shape, Records
<1> HIDE DEF a
<1>2. b \in Records /\ b.status = "ended" /\ b.token = 0 /\ b.cancel = reg.cancel
  BY <1>1 DEF Records
<1> HIDE DEF b
<1>3. c \in Records /\ c.status = "ended" /\ c.token = 0 /\ c.cancel = reg.cancel
  BY <1>2 DEF Records
<1>4. Released(m) = IF Holds(m) THEN c ELSE reg
  BY DEF Released, a, b
<1> HIDE DEF c
<1> QED
  BY <1>3, <1>4 DEF Shape

\* What a claim writes.
LEMMA ClaimUpdates ==
  ASSUME Shape, NEW m \in Managers, Claim(m), Claimable /\ claims < MaxClaims
  PROVE  /\ run' \in [Managers -> Runs] /\ reg' \in Records
         /\ run'[m].status = "active" /\ run'[m].ctx = "live" /\ run'[m].token = claims + 1
         /\ reg'.status = "active" /\ reg'.token = claims + 1 /\ reg'.expired = FALSE
         /\ claims' = claims + 1 /\ worker'[m] = "check"
         /\ \A n \in Managers \ {m} : run'[n] = run[n] /\ worker'[n] = worker[n]
<1> DEFINE a == [NoRun EXCEPT !.status = "active"]
           b == [a EXCEPT !.token = claims + 1]
<1>0. claims + 1 \in Nat
  BY ManagerAssumption DEF Shape
<1>1. a \in Runs /\ a.status = "active" /\ a.ctx = "live"
  BY DEF NoRun, Runs
<1> HIDE DEF a
<1>2. b \in Runs /\ b.status = "active" /\ b.ctx = "live" /\ b.token = claims + 1
  BY <1>0, <1>1 DEF Runs
<1>3. run' = [run EXCEPT ![m] = b]
  BY DEF Claim, a
<1>4. run[m] \in Runs /\ reg \in Records
  BY DEF Shape
<1>5. /\ reg' = [status |-> "active", token |-> claims + 1, expired |-> FALSE,
                 cancel |-> reg.cancel /\ run[m].resume]
      /\ claims' = claims + 1 /\ worker' = [worker EXCEPT ![m] = "check"]
  BY DEF Claim
<1>6. (reg.cancel /\ run[m].resume) \in BOOLEAN
  BY <1>4 DEF Runs, Records
<1> HIDE DEF b
<1>7. reg' \in Records
  BY <1>0, <1>5, <1>6 DEF Records
<1> QED
  BY <1>2, <1>3, <1>5, <1>7 DEF Shape

-----------------------------------------------------------------------------
\* The shape survives every step.
LEMMA ShapeStep == Inv /\ [Next]_vars => Shape'
<1> SUFFICES ASSUME Inv, [Next]_vars PROVE Shape'
  OBVIOUS
<1>0. Shape
  BY DEF Inv
<1>a. reg \in Records /\ run \in [Managers -> Runs] /\ out \in [Managers -> Seq({"event", "end"})]
  BY <1>0 DEF Shape
<1>1. ASSUME NEW m \in Managers, NEW resume \in BOOLEAN, Admit(m, resume) PROVE Shape'
  <2>1. [run[m] EXCEPT !.resume = resume] \in Runs
    BY <1>a DEF Runs
  <2>2. run' \in [Managers -> Runs] /\ worker' \in [Managers -> Places]
    BY <1>0, <1>1, <2>1 DEF Admit, Shape, Places
  <2> QED
    BY <1>0, <1>1, <2>2 DEF Admit, Shape
<1>2. ASSUME NEW m \in Managers, Claim(m) PROVE Shape'
  <2>1. CASE Claimable /\ claims < MaxClaims
    <3>1. run' \in [Managers -> Runs] /\ reg' \in Records /\ claims' = claims + 1
      BY <1>0, <1>2, <2>1, ClaimUpdates
    <3>2. worker' \in [Managers -> Places]
      <4>1. worker' = [worker EXCEPT ![m] = "check"]
        BY <1>2, <2>1 DEF Claim
      <4> QED
        BY <1>0, <4>1 DEF Shape, Places
    <3>3. claims' \in 0 .. MaxClaims
      BY <1>0, <2>1, <3>1, ManagerAssumption DEF Shape
    <3> QED
      BY <1>0, <1>2, <3>1, <3>2, <3>3 DEF Claim, Shape
  <2>2. CASE ~(Claimable /\ claims < MaxClaims)
    <3>1. NoRun \in Runs
      BY DEF NoRun, Runs
    <3>2. run' \in [Managers -> Runs] /\ worker' \in [Managers -> Places]
      BY <1>0, <1>2, <2>2, <3>1 DEF Claim, Shape, Places
    <3> QED
      BY <1>0, <1>2, <2>2, <3>2 DEF Claim, Shape
  <2> QED
    BY <2>1, <2>2
<1>3. ASSUME NEW m \in Managers, CheckCancel(m) PROVE Shape'
  <2>1. run' \in [Managers -> Runs] /\ worker' \in [Managers -> Places]
    BY <1>0, <1>3, RunUpdates DEF CheckCancel, Shape, Places
  <2> QED
    BY <1>0, <1>3, <2>1 DEF CheckCancel, Shape
<1>4. ASSUME NEW m \in Managers, OpenAgent(m) PROVE Shape'
  BY <1>0, <1>4 DEF OpenAgent, Shape, Places
<1>5. ASSUME NEW m \in Managers, OpenFails(m) PROVE Shape'
  <2>1. run' \in [Managers -> Runs] /\ worker' \in [Managers -> Places]
    BY <1>0, <1>5, RunUpdates DEF OpenFails, Shape, Places
  <2> QED
    BY <1>0, <1>5, <2>1 DEF OpenFails, Shape
<1>6. ASSUME NEW m \in Managers, NEW kind \in {"event", "end"}, Sent(m, kind)
      PROVE  out' \in [Managers -> Seq({"event", "end"})]
  <2>1. Append(out[m], kind) \in Seq({"event", "end"})
    BY <1>a
  <2> QED
    BY <1>a, <1>6, <2>1 DEF Sent
<1>7. ASSUME NEW m \in Managers, AgentStep(m) PROVE Shape'
  BY <1>0, <1>6, <1>7 DEF AgentStep, Shape
<1>8. ASSUME NEW m \in Managers, AgentEnds(m) PROVE Shape'
  BY <1>0, <1>6, <1>8 DEF AgentEnds, Shape
<1>9. ASSUME NEW m \in Managers, AgentPauses(m) PROVE Shape'
  BY <1>0, <1>9 DEF AgentPauses, Shape
<1>10. ASSUME NEW m \in Managers, Observe(m) PROVE Shape'
  <2>1. Tail(out[m]) \in Seq({"event", "end"})
    BY <1>a, <1>10 DEF Observe
  <2>2. out' \in [Managers -> Seq({"event", "end"})]
    BY <1>a, <1>10, <2>1 DEF Observe
  <2>3. run' \in [Managers -> Runs] /\ worker' \in [Managers -> Places]
    BY <1>0, <1>10, RunUpdates DEF Observe, Shape, Places
  <2> QED
    BY <1>0, <1>10, <2>2, <2>3 DEF Observe, Shape
<1>11. ASSUME NEW m \in Managers, StreamClosed(m) PROVE Shape'
  <2>1. worker' \in [Managers -> Places]
    BY <1>0, <1>11 DEF StreamClosed, Shape, Places
  <2> QED
    BY <1>0, <1>11, <2>1 DEF StreamClosed, Shape
<1>12. ASSUME NEW m \in Managers, FinishRun(m) PROVE Shape'
  <2>1. run' \in [Managers -> Runs] /\ worker' \in [Managers -> Places]
    BY <1>0, <1>12, RunUpdates DEF FinishRun, Shape, Places
  <2> QED
    BY <1>0, <1>12, <2>1 DEF FinishRun, Shape
<1>13. ASSUME NEW m \in Managers, Release(m) PROVE Shape'
  <2>1. reg' \in Records /\ worker' \in [Managers -> Places]
    BY <1>0, <1>13, ReleaseUpdates DEF Release, Shape, Places
  <2> QED
    BY <1>0, <1>13, <2>1 DEF Release, Shape
<1>14. ASSUME NEW m \in Managers, StopIfActive(m) PROVE run' \in [Managers -> Runs]
  BY <1>0, <1>a, <1>14, RunUpdates DEF StopIfActive
<1>15. ASSUME NEW m \in Managers, Refresh(m) PROVE Shape'
  <2>1. [reg EXCEPT !.expired = FALSE] \in Records
    BY <1>a DEF Records
  <2> QED
    BY <1>0, <1>14, <1>15, <2>1 DEF Refresh, Shape
<1>16. ASSUME NEW m \in Managers, AskCancel(m) PROVE Shape'
  <2>1. run' \in [Managers -> Runs]
    BY <1>a, <1>14, <1>16 DEF AskCancel
  <2> QED
    BY <1>0, <1>16, <2>1 DEF AskCancel, Shape
<1>17. ASSUME NEW m \in Managers, BeatStops(m) PROVE Shape'
  BY <1>0, <1>17 DEF BeatStops, Shape
<1>18. ASSUME NEW m \in Managers, Cancel(m) PROVE Shape'
  <2>1. [reg EXCEPT !.cancel = TRUE] \in Records
    BY <1>a DEF Records
  <2>2. run' \in [Managers -> Runs]
    BY <1>0, <1>a, <1>18, RunUpdates DEF Cancel
  <2> QED
    BY <1>0, <1>18, <2>1, <2>2 DEF Cancel, Shape
<1>19. ASSUME NEW m \in Managers, Forget(m) PROVE Shape'
  BY <1>0, <1>19, ReleaseUpdates DEF Forget, Shape
<1>20. ASSUME NEW m \in Managers, ForgetDelete(m) PROVE Shape'
  <2>1. NoRun \in Runs /\ NoRecord \in Records
    BY DEF NoRun, Runs, NoRecord, Records
  <2> QED
    BY <1>0, <1>20, <2>1 DEF ForgetDelete, Shape
<1>21. ASSUME NEW m \in Managers, Retire(m) PROVE Shape'
  <2>1. NoRun \in Runs
    BY DEF NoRun, Runs
  <2> QED
    BY <1>0, <1>21, <2>1 DEF Retire, Shape
<1>22. ASSUME NEW m \in Managers, Close(m) PROVE Shape'
  <2>1. run' \in [Managers -> Runs]
    BY <1>0, <1>a, <1>22, RunUpdates DEF Close
  <2> QED
    BY <1>0, <1>22, <2>1 DEF Close, Shape
<1>23. ASSUME NEW m \in Managers, CloseReturns(m) PROVE Shape'
  BY <1>0, <1>23 DEF CloseReturns, Shape
<1>24. ASSUME NEW m \in Managers, Crash(m) PROVE Shape'
  <2>1. NoRun \in Runs /\ <<>> \in Seq({"event", "end"})
    BY DEF NoRun, Runs
  <2>2. out' \in [Managers -> Seq({"event", "end"})]
    BY <1>a, <1>24, <2>1 DEF Crash
  <2>3. crashes' \in 0 .. MaxCrashes
    BY <1>0, <1>24, ManagerAssumption DEF Crash, Shape
  <2>4. run' \in [Managers -> Runs] /\ worker' \in [Managers -> Places]
    BY <1>0, <1>24, <2>1 DEF Crash, Shape, Places
  <2> QED
    BY <1>0, <1>24, <2>2, <2>3, <2>4 DEF Crash, Shape
<1>25. CASE Expire
  <2>1. [reg EXCEPT !.expired = TRUE] \in Records
    BY <1>a DEF Records
  <2>2. late' \in BOOLEAN
    BY <1>0, <1>25 DEF Expire, Shape
  <2> QED
    BY <1>0, <1>25, <2>1, <2>2 DEF Expire, Shape
<1>26. CASE UNCHANGED vars
  BY <1>0, <1>26 DEF vars, Shape
<1> QED
  BY <1>1, <1>2, <1>3, <1>4, <1>5, <1>7, <1>8, <1>9, <1>10, <1>11, <1>12, <1>13, <1>15, <1>16,
     <1>17, <1>18, <1>19, <1>20, <1>21, <1>22, <1>23, <1>24, <1>25, <1>26
  DEF Next, WorkerStep, BeatStep, Call

-----------------------------------------------------------------------------
\* A step of one manager leaves the goroutines of the others alone.
Step(m) ==
  WorkerStep(m) \/ BeatStep(m) \/ AgentStep(m) \/ AgentEnds(m) \/ AgentPauses(m) \/ Call(m) \/ Crash(m)
Same(n) ==
  /\ run'[n] = run[n] /\ worker'[n] = worker[n] /\ beat'[n] = beat[n] /\ agent'[n] = agent[n]
  /\ out'[n] = out[n] /\ closing'[n] = closing[n]

LEMMA OthersStay ==
  ASSUME Shape, NEW m \in Managers, Step(m), NEW n \in Managers \ {m}
  PROVE  Same(n)
<1>1. Cancelled(m)[n] = run[n] /\ Ended(m)[n] = run[n]
  BY RunUpdates
<1>2. StopIfActive(m) => run'[n] = run[n]
  BY <1>1 DEF StopIfActive
<1>3. \A kind : Sent(m, kind) => out'[n] = out[n]
  BY DEF Sent, Shape
<1>4. ASSUME NEW resume \in BOOLEAN, Admit(m, resume) PROVE Same(n)
  BY <1>4 DEF Admit, Same, Shape
<1>5. CASE Claim(m)
  BY <1>5 DEF Claim, Same, Shape
<1>6. CASE CheckCancel(m) \/ OpenAgent(m) \/ OpenFails(m)
  BY <1>1, <1>6 DEF CheckCancel, OpenAgent, OpenFails, Same, Shape
<1>7. CASE AgentStep(m) \/ AgentEnds(m) \/ AgentPauses(m)
  BY <1>3, <1>7 DEF AgentStep, AgentEnds, AgentPauses, Same, Shape
<1>8. CASE Observe(m)
  BY <1>1, <1>8 DEF Observe, Same, Shape
<1>9. CASE StreamClosed(m) \/ FinishRun(m) \/ Release(m)
  BY <1>1, <1>9 DEF StreamClosed, FinishRun, Release, Same, Shape
<1>10. CASE BeatStep(m)
  BY <1>2, <1>10 DEF BeatStep, Refresh, AskCancel, BeatStops, Same, Shape
<1>11. CASE Cancel(m) \/ Forget(m) \/ Close(m) \/ CloseReturns(m)
  BY <1>1, <1>11 DEF Cancel, Forget, Close, CloseReturns, Same, Shape
<1>12. CASE ForgetDelete(m) \/ Retire(m) \/ Crash(m)
  BY <1>12 DEF ForgetDelete, Retire, Crash, Same, Shape
<1> QED
  BY <1>4, <1>5, <1>6, <1>7, <1>8, <1>9, <1>10, <1>11, <1>12 DEF Step, WorkerStep, Call

\* A manager's goroutines know what they know after each of its own steps.
LEMMA OwnPhase ==
  ASSUME Shape, NEW m \in Managers, Phase(m), Step(m)
  PROVE  Phase(m)'
<1>0. /\ run[m].status \in {"none", "active", "ended"} /\ run[m].ctx \in {"live", "cancelled"}
      /\ worker[m] \in Places /\ beat[m] \in {"off", "wait", "ask"} /\ agent[m] \in {"none", "live", "closed"}
      /\ closing[m] \in {"open", "closing", "closed"} /\ out[m] \in Seq({"event", "end"})
  BY DEF Shape, Runs
<1>a. /\ Cancelled(m)[m].status = run[m].status /\ Ended(m)[m].status = "ended"
      /\ Cancelled(m)[m].ctx = "cancelled" /\ Ended(m)[m].ctx = "cancelled"
      /\ Cancelled(m)[m].token = run[m].token /\ Ended(m)[m].token = run[m].token
  BY RunUpdates
<1>b. StopIfActive(m) =>
        /\ run'[m].status = run[m].status /\ run'[m].token = run[m].token
        /\ \/ run'[m].ctx = "cancelled"
           \/ run'[m].ctx = run[m].ctx /\ run[m].status = "ended"
  BY <1>a DEF StopIfActive, Finished
<1>1. ASSUME NEW resume \in BOOLEAN, Admit(m, resume) PROVE Phase(m)'
  <2>1. run'[m].status = run[m].status /\ run'[m].token = run[m].token /\ run'[m].ctx = run[m].ctx
    BY <1>1 DEF Admit, Shape, Runs
  <2>2. worker'[m] = "claim" /\ UNCHANGED <<beat, agent, out, closing>> /\ closing[m] = "open"
    BY <1>1 DEF Admit, Shape
  <2>3. run[m].status = "none" /\ worker[m] = "idle"
    BY <1>1 DEF Admit, NoRun
  <2> QED
    BY <2>1, <2>2, <2>3 DEF Phase
<1>2. CASE Claim(m)
  <2>1. CASE Claimable /\ claims < MaxClaims
    <3>1. run'[m].status = "active" /\ run'[m].ctx = "live" /\ worker'[m] = "check"
      BY <1>2, <2>1, ClaimUpdates
    <3>2. UNCHANGED <<beat, agent, out, closing>> /\ worker[m] = "claim"
      BY <1>2 DEF Claim
    <3> QED
      BY <3>1, <3>2 DEF Phase
  <2>2. CASE ~(Claimable /\ claims < MaxClaims)
    <3>1. run'[m] = NoRun /\ worker'[m] = "idle"
      BY <1>2, <2>2 DEF Claim, Shape
    <3>2. UNCHANGED <<beat, agent, out, closing>> /\ worker[m] = "claim"
      BY <1>2 DEF Claim
    <3> QED
      BY <3>1, <3>2 DEF Phase, NoRun
  <2> QED
    BY <2>1, <2>2
<1>3. CASE CheckCancel(m)
  <2>1. run'[m] = run[m] \/ run'[m] = Cancelled(m)[m]
    BY <1>3 DEF CheckCancel
  <2>2. /\ worker'[m] \in {"open", "persist"} /\ worker[m] = "check" /\ UNCHANGED <<beat, agent, out, closing>>
    BY <1>3 DEF CheckCancel, Shape
  <2> QED
    BY <1>a, <2>1, <2>2 DEF Phase
<1>4. CASE OpenAgent(m)
  <2>1. /\ worker'[m] = "drain" /\ beat'[m] = "wait" /\ agent'[m] = "live" /\ worker[m] = "open"
        /\ UNCHANGED <<run, out, closing>>
    BY <1>4 DEF OpenAgent, Shape
  <2> QED
    BY <2>1 DEF Phase
<1>5. CASE OpenFails(m)
  <2>1. /\ worker'[m] = "persist" /\ run'[m] = Cancelled(m)[m] /\ worker[m] = "open"
        /\ UNCHANGED <<beat, agent, out, closing>>
    BY <1>5 DEF OpenFails, Shape
  <2> QED
    BY <1>a, <2>1 DEF Phase
<1>6. ASSUME NEW kind \in {"event", "end"}, Sent(m, kind) PROVE Len(out'[m]) <= Capacity
  <2>1. CASE Len(out[m]) < Capacity /\ out' = [out EXCEPT ![m] = Append(@, kind)]
    <3>1. out'[m] = Append(out[m], kind)
      BY <2>1 DEF Shape
    <3>2. Len(out'[m]) = Len(out[m]) + 1
      BY <1>0, <3>1
    <3> QED
      BY <1>0, <2>1, <3>2, ManagerAssumption
  <2>2. CASE UNCHANGED out
    BY <2>2 DEF Phase
  <2> QED
    BY <1>6, <2>1, <2>2 DEF Sent
<1>7. CASE AgentStep(m) \/ AgentEnds(m) \/ AgentPauses(m)
  <2>1. /\ agent[m] = "live" /\ agent'[m] \in {"live", "closed"} /\ UNCHANGED <<run, worker, beat, closing>>
    BY <1>7 DEF AgentStep, AgentEnds, AgentPauses, Shape
  <2>2. Len(out'[m]) <= Capacity
    BY <1>6, <1>7 DEF AgentStep, AgentEnds, AgentPauses, Phase
  <2> QED
    BY <2>1, <2>2 DEF Phase
<1>8. CASE Observe(m)
  <2>1. worker[m] = "drain" /\ UNCHANGED <<beat, agent, closing>>
    BY <1>8 DEF Observe
  <2>2. Len(out'[m]) <= Capacity
    <3>1. out'[m] = Tail(out[m]) /\ out[m] # <<>>
      BY <1>8 DEF Observe, Shape
    <3>2. Len(out'[m]) = Len(out[m]) - 1 /\ Len(out[m]) \in Nat
      BY <1>0, <3>1
    <3> QED
      BY <3>2, ManagerAssumption DEF Phase
  <2>3. CASE worker' = worker /\ (run' = run \/ run' = Cancelled(m))
    BY <1>a, <2>1, <2>2, <2>3 DEF Phase
  <2>4. CASE run' = Ended(m) /\ worker'[m] = "publish"
    BY <1>a, <2>1, <2>2, <2>4 DEF Phase
  <2> QED
    BY <1>8, <2>3, <2>4 DEF Observe, Shape
<1>9. CASE StreamClosed(m)
  <2>1. /\ worker[m] = "drain" /\ agent'[m] = "none" /\ UNCHANGED <<run, beat, out, closing>>
        /\ worker'[m] = (IF Finished(m) THEN "idle" ELSE "persist")
    BY <1>9 DEF StreamClosed, Shape
  <2> QED
    BY <1>0, <2>1 DEF Phase, Finished
<1>10. CASE FinishRun(m)
  <2>1. /\ worker[m] = "persist" /\ worker'[m] = "release" /\ run'[m] = Ended(m)[m]
        /\ UNCHANGED <<beat, agent, out, closing>>
    BY <1>10 DEF FinishRun, Shape
  <2> QED
    BY <1>a, <2>1 DEF Phase
<1>11. CASE Release(m)
  <2>1. /\ worker[m] \in {"publish", "release"} /\ UNCHANGED <<run, beat, agent, out, closing>>
        /\ worker'[m] = (IF worker[m] = "publish" THEN "drain" ELSE "idle")
    BY <1>11 DEF Release, Shape
  <2> QED
    BY <2>1 DEF Phase
<1>12. CASE Refresh(m) \/ AskCancel(m)
  <2>1. /\ UNCHANGED <<worker, agent, out, closing>> /\ beat[m] # "off"
        /\ \/ beat'[m] \in {"wait", "ask"} /\ UNCHANGED run
           \/ beat'[m] = "off" /\ StopIfActive(m)
    BY <1>12 DEF Refresh, AskCancel, Shape
  <2> QED
    BY <1>b, <2>1 DEF Phase
<1>13. CASE BeatStops(m)
  <2>1. /\ UNCHANGED <<run, worker, agent, out, closing>> /\ beat'[m] = "off"
        /\ run[m].status = "ended" \/ closing[m] # "open"
    BY <1>13 DEF BeatStops, Shape, Finished
  <2>2. worker[m] = "drain" => run[m].ctx = "cancelled"
    BY <1>0, <2>1 DEF Phase
  <2> QED
    BY <1>0, <2>1, <2>2 DEF Phase
<1>14. CASE Cancel(m)
  <2>1. /\ UNCHANGED <<worker, beat, agent, out, closing>>
        /\ (run' = run \/ run' = Cancelled(m))
    BY <1>14 DEF Cancel
  <2> QED
    BY <1>a, <2>1 DEF Phase
<1>15. CASE Forget(m)
  BY <1>15 DEF Forget, Phase
<1>16. CASE ForgetDelete(m) \/ Retire(m)
  <2>1. CASE run'[m] = NoRun /\ worker[m] = "idle" /\ beat[m] = "off" /\ UNCHANGED <<worker, beat, agent, out, closing>>
    BY <2>1 DEF Phase, NoRun
  <2>2. CASE UNCHANGED <<run, worker, beat, agent, out, closing>>
    BY <2>2 DEF Phase
  <2> QED
    BY <1>16, <2>1, <2>2 DEF ForgetDelete, Retire, Shape
<1>17. CASE Close(m)
  <2>1. /\ UNCHANGED <<worker, beat, agent, out>> /\ closing'[m] = "closing" /\ worker[m] # "claim"
        /\ run' = IF run[m].status = "active" THEN Cancelled(m) ELSE run
    BY <1>17 DEF Close, Shape
  <2> QED
    BY <1>a, <2>1 DEF Phase
<1>18. CASE CloseReturns(m)
  <2>1. /\ UNCHANGED <<run, worker, beat, agent, out>> /\ closing'[m] = "closed"
        /\ closing[m] = "closing" /\ worker[m] = "idle" /\ beat[m] = "off"
    BY <1>18 DEF CloseReturns, Shape
  <2> QED
    BY <2>1 DEF Phase
<1>19. CASE Crash(m)
  <2>1. /\ run'[m] = NoRun /\ worker'[m] = "idle" /\ beat'[m] = "off" /\ agent'[m] = "none"
        /\ out'[m] = <<>> /\ closing'[m] = "open"
    BY <1>19 DEF Crash, Shape
  <2>2. Len(out'[m]) <= Capacity
    BY <2>1, ManagerAssumption
  <2> QED
    BY <2>1, <2>2 DEF Phase, NoRun
<1> QED
  BY <1>1, <1>2, <1>3, <1>4, <1>5, <1>7, <1>8, <1>9, <1>10, <1>11, <1>12, <1>13, <1>14, <1>15,
     <1>16, <1>17, <1>18, <1>19 DEF Step, WorkerStep, BeatStep, Call

LEMMA PhaseStep == Inv /\ [Next]_vars => \A m \in Managers : Phase(m)'
<1> SUFFICES ASSUME Inv, [Next]_vars, NEW n \in Managers PROVE Phase(n)'
  OBVIOUS
<1>0. Shape /\ Phase(n)
  BY DEF Inv
<1>1. CASE Step(n)
  BY <1>0, <1>1, OwnPhase
<1>2. CASE Same(n)
  BY <1>0, <1>2 DEF Same, Phase
<1>3. ASSUME NEW m \in Managers \ {n}, Step(m) PROVE Phase(n)'
  BY <1>0, <1>2, <1>3, OthersStay
<1>4. CASE Expire \/ UNCHANGED vars
  BY <1>2, <1>4 DEF Expire, vars, Same
<1> QED
  BY <1>1, <1>3, <1>4 DEF Next, Step

-----------------------------------------------------------------------------
\* What a step does to the registry's record: it claims the run for a manager, ends the
\* lease of a manager whose run has ended, or leaves the lease what it is.
Claims(m) == Claim(m) /\ Claimable /\ claims < MaxClaims
Gives(m) == run[m].status = "ended" /\ reg' = Released(m) /\ UNCHANGED <<claims, late>>
Keeps ==
  /\ reg'.status = reg.status /\ reg'.token = reg.token
  /\ reg'.expired => reg.expired
  /\ UNCHANGED <<claims, late>>
Drops ==
  /\ reg.status = "ended" /\ reg' = NoRecord /\ UNCHANGED <<claims, late>>

LEMMA RecordSteps ==
  ASSUME Shape, NEW m \in Managers, Phase(m), Step(m)
  PROVE  Claims(m) \/ Gives(m) \/ Keeps \/ Drops
<1>0. reg \in Records
  BY DEF Shape
<1>1. CASE UNCHANGED <<reg, claims, late>>
  BY <1>1 DEF Keeps
<1>2. CASE Claim(m)
  BY <1>1, <1>2 DEF Claim, Claims
<1>3. CASE Release(m)
  BY <1>3 DEF Release, Gives, Phase
<1>4. CASE Forget(m)
  BY <1>4 DEF Forget, Gives, Finished
<1>5. CASE ForgetDelete(m)
  BY <1>1, <1>5 DEF ForgetDelete, Drops
<1>6. CASE Refresh(m)
  <2>1. CASE reg' = [reg EXCEPT !.expired = FALSE]
    BY <1>0, <1>6, <2>1 DEF Refresh, Keeps, Records
  <2> QED
    BY <1>1, <1>6, <2>1 DEF Refresh
<1>7. CASE Cancel(m)
  <2>1. reg' = [reg EXCEPT !.cancel = TRUE]
    BY <1>7 DEF Cancel
  <2> QED
    BY <1>0, <1>7, <2>1 DEF Cancel, Keeps, Records
<1> QED
  BY <1>1, <1>2, <1>3, <1>4, <1>5, <1>6, <1>7
  DEF Step, WorkerStep, BeatStep, Call, Admit, CheckCancel, OpenAgent, OpenFails, Observe, StreamClosed,
      FinishRun, AskCancel, BeatStops, AgentStep, AgentEnds, AgentPauses, Retire, Close, CloseReturns, Crash

\* Only a claim gives a manager a new token.
LEMMA OwnToken ==
  ASSUME Shape, NEW m \in Managers, Step(m), ~Claims(m)
  PROVE  run'[m].token \in {0, run[m].token}
<1>0. run[m] \in Runs /\ run \in [Managers -> Runs]
  BY DEF Shape
<1>1. Cancelled(m)[m].token = run[m].token /\ Ended(m)[m].token = run[m].token
  BY RunUpdates
<1>2. CASE run' \in {run, Cancelled(m), Ended(m)}
  BY <1>1, <1>2
<1>3. CASE run' = [run EXCEPT ![m] = NoRun]
  BY <1>0, <1>3 DEF NoRun
<1>4. ASSUME NEW resume \in BOOLEAN, Admit(m, resume) PROVE run'[m].token = run[m].token
  BY <1>0, <1>4 DEF Admit, Runs
<1>5. CASE Claim(m)
  BY <1>3, <1>5 DEF Claim, Claims
<1> QED
  BY <1>2, <1>3, <1>4, <1>5
  DEF Step, WorkerStep, BeatStep, Call, CheckCancel, OpenAgent, OpenFails, Observe, StreamClosed, FinishRun,
      Release, Refresh, AskCancel, BeatStops, StopIfActive, AgentStep, AgentEnds, AgentPauses, Cancel, Forget,
      ForgetDelete, Retire, Close, CloseReturns, Crash

LEMMA TokenStep == Inv /\ [Next]_vars => TokensAreApart'
<1> SUFFICES ASSUME Inv, [Next]_vars PROVE TokensAreApart'
  OBVIOUS
<1>0. Shape /\ TokensAreApart /\ (\A m \in Managers : Phase(m))
  BY DEF Inv
<1>a. claims \in Nat /\ reg.token \in Nat /\ (\A m \in Managers : run[m].token \in Nat)
  BY <1>0 DEF Shape, Records, Runs
<1>1. ASSUME NEW m \in Managers, Step(m) PROVE TokensAreApart'
  <2>1. \A n \in Managers \ {m} : run'[n].token = run[n].token
    BY <1>0, <1>1, OthersStay DEF Same
  <2>2. CASE Claims(m)
    <3>1. run'[m].token = claims + 1 /\ reg'.token = claims + 1 /\ reg'.status = "active" /\ claims' = claims + 1
      BY <1>0, <2>2, ClaimUpdates DEF Claims
    <3> QED
      BY <1>0, <1>a, <2>1, <3>1 DEF TokensAreApart, Active
  <2>3. CASE ~Claims(m)
    <3>1. run'[m].token \in {0, run[m].token}
      BY <1>0, <1>1, <2>3, OwnToken
    <3>2. claims' = claims /\ reg'.token \in {0, reg.token} /\ (Active' <=> reg'.token > 0)
      <4>1. CASE Gives(m)
        BY <1>0, <1>a, <4>1, ReleaseUpdates DEF Gives, TokensAreApart, Active
      <4>2. CASE Keeps
        BY <1>0, <4>2 DEF Keeps, TokensAreApart, Active
      <4>3. CASE Drops
        BY <4>3 DEF Drops, NoRecord, Active
      <4> QED
        BY <1>0, <1>1, <2>3, <4>1, <4>2, <4>3, RecordSteps
    <3> QED
      BY <1>0, <1>a, <2>1, <3>1, <3>2 DEF TokensAreApart
  <2> QED
    BY <2>2, <2>3
<1>2. CASE Expire
  <2>1. reg'.token = reg.token /\ reg'.status = reg.status /\ UNCHANGED <<run, claims>>
    BY <1>0, <1>2 DEF Expire, Shape, Records
  <2> QED
    BY <1>0, <2>1 DEF TokensAreApart, Active
<1>3. CASE UNCHANGED vars
  BY <1>0, <1>3 DEF vars, TokensAreApart, Active
<1> QED
  BY <1>1, <1>2, <1>3 DEF Next, Step

-----------------------------------------------------------------------------
\* A manager works on the run only from a claim on, and under one token.
LEMMA OwnWork ==
  ASSUME Shape, NEW m \in Managers, Phase(m), Step(m), ~Claims(m), Working(m)'
  PROVE  Working(m) /\ run'[m].token = run[m].token
<1>0. run[m] \in Runs /\ run \in [Managers -> Runs] /\ worker[m] \in Places
  BY DEF Shape
<1>a. Cancelled(m)[m].ctx = "cancelled" /\ Ended(m)[m].ctx = "cancelled"
  BY RunUpdates
<1>b. run'[m].ctx = "live" /\ worker'[m] \in {"check", "open", "drain"}
  BY DEF Working
<1>c. run' \notin {Cancelled(m), Ended(m)}
  BY <1>a, <1>b
<1>1. CASE UNCHANGED <<run, worker>>
  BY <1>1 DEF Working
<1>2. ASSUME NEW resume \in BOOLEAN PROVE ~Admit(m, resume)
  BY <1>0, <1>b DEF Admit, Shape
<1>3. ~Claim(m)
  BY <1>b DEF Claim, Claims, Shape
<1>4. CASE CheckCancel(m) \/ OpenAgent(m)
  BY <1>1, <1>4, <1>b, <1>c DEF CheckCancel, OpenAgent, Working
<1>5. CASE Observe(m)
  BY <1>1, <1>5, <1>c DEF Observe
<1>6. ~StreamClosed(m) /\ ~OpenFails(m) /\ ~FinishRun(m)
  BY <1>b, <1>c DEF StreamClosed, OpenFails, FinishRun, Shape
<1>7. ~Release(m)
  BY <1>b DEF Release, Shape, Phase
<1>8. CASE BeatStep(m)
  BY <1>1, <1>8, <1>c DEF BeatStep, Refresh, AskCancel, BeatStops, StopIfActive
<1>9. CASE Cancel(m) \/ Close(m)
  BY <1>1, <1>9, <1>c DEF Cancel, Close
<1>10. CASE ForgetDelete(m)
  BY <1>1, <1>10, <1>b DEF ForgetDelete
<1>11. ~Retire(m) /\ ~Crash(m)
  BY <1>0, <1>b DEF Retire, Crash, Shape
<1> QED
  BY <1>1, <1>2, <1>3, <1>4, <1>5, <1>6, <1>7, <1>8, <1>9, <1>10, <1>11
  DEF Step, WorkerStep, Call, AgentStep, AgentEnds, AgentPauses, Forget, CloseReturns

\* A worker whose run has ended drains or leaves only once it has given up the lease.
GivenUp(m) == run[m].status = "ended" /\ worker[m] \in {"drain", "idle"}
LEMMA OwnEnd ==
  ASSUME Shape, NEW m \in Managers, Phase(m), Step(m), ~Claims(m), GivenUp(m)'
  PROVE  run'[m].token = run[m].token /\ (GivenUp(m) \/ reg' = Released(m))
<1>0. run[m] \in Runs /\ run \in [Managers -> Runs] /\ worker[m] \in Places
  BY DEF Shape
<1>a. /\ Cancelled(m)[m].status = run[m].status /\ Cancelled(m)[m].token = run[m].token
  BY RunUpdates
<1>b. run'[m].status = "ended" /\ worker'[m] \in {"drain", "idle"}
  BY DEF GivenUp
<1>1. CASE UNCHANGED worker /\ (run' = run \/ run' = Cancelled(m))
  BY <1>1, <1>a, <1>b DEF GivenUp
<1>2. run'[m] # NoRun
  BY <1>b DEF NoRun
<1>3. ASSUME NEW resume \in BOOLEAN PROVE ~Admit(m, resume)
  BY <1>0, <1>b DEF Admit, Shape
<1>4. ~Claim(m)
  BY <1>b, <1>2 DEF Claim, Claims, Shape
<1>5. ~CheckCancel(m) /\ ~OpenFails(m) /\ ~FinishRun(m)
  BY <1>b DEF CheckCancel, OpenFails, FinishRun, Shape
<1>6. ~OpenAgent(m)
  BY <1>b DEF OpenAgent, Phase
<1>7. CASE Observe(m)
  <2>1. worker'[m] # "publish"
    BY <1>b
  <2> QED
    BY <1>1, <1>7, <2>1 DEF Observe, Shape
<1>8. CASE StreamClosed(m)
  BY <1>8, <1>b DEF StreamClosed, GivenUp
<1>9. CASE Release(m)
  BY <1>9 DEF Release
<1>10. CASE BeatStep(m) \/ Cancel(m) \/ Close(m)
  BY <1>1, <1>10 DEF BeatStep, Refresh, AskCancel, BeatStops, StopIfActive, Cancel, Close
<1>11. CASE ForgetDelete(m)
  BY <1>0, <1>1, <1>2, <1>11 DEF ForgetDelete, Shape
<1>12. ~Retire(m) /\ ~Crash(m)
  BY <1>2 DEF Retire, Crash, Shape
<1> QED
  BY <1>1, <1>3, <1>4, <1>5, <1>6, <1>7, <1>8, <1>9, <1>10, <1>11, <1>12
  DEF Step, WorkerStep, Call, AgentStep, AgentEnds, AgentPauses, Forget, CloseReturns

\* What a step that claims nothing leaves of a lease that was not there, or that a
\* manager with another token holds.
LEMMA NoNewLease ==
  ASSUME Shape, TokensAreApart, NEW m \in Managers, Gives(m) \/ Keeps \/ Drops,
         NEW n \in Managers, run'[n].token = run[n].token, ~Holds(n)
  PROVE  ~Holds(n)'
<1>1. CASE Gives(m)
  BY <1>1, ReleaseUpdates DEF Gives, Holds, Active
<1>2. CASE Keeps \/ Drops
  BY <1>2 DEF Keeps, Drops, Holds, Active, NoRecord
<1> QED
  BY <1>1, <1>2

LEMMA LeaseStep == Inv /\ [Next]_vars => \A n \in Managers : Lease(n)'
<1> SUFFICES ASSUME Inv, [Next]_vars, NEW n \in Managers PROVE Lease(n)'
  OBVIOUS
<1>0. Shape /\ TokensAreApart /\ Phase(n) /\ Lease(n) /\ reg \in Records
  BY DEF Inv, Shape
<1>a. claims \in Nat /\ reg.token \in Nat /\ (\A m \in Managers : run[m].token \in Nat)
  BY <1>0 DEF Shape, Records, Runs
<1>1. ASSUME NEW m \in Managers, Step(m), m # n PROVE Lease(n)'
  <2>0. Phase(m) /\ Same(n)
    BY <1>0, <1>1, OthersStay DEF Inv
  <2>1. (Working(n)' <=> Working(n)) /\ run'[n].token = run[n].token /\ run'[n].status = run[n].status
        /\ worker'[n] = worker[n]
    BY <2>0 DEF Same, Working
  <2>2. CASE Claims(m)
    <3>1. reg'.token = claims + 1 /\ late' = late
      BY <1>0, <2>2, ClaimUpdates DEF Claims, Claim
    <3>2. run[n].token # claims + 1
      BY <1>0, <1>a DEF TokensAreApart
    <3>3. Working(n) => late
      BY <1>0, <2>2 DEF Claims, Claimable, Lease, Holds
    <3> QED
      BY <2>1, <3>1, <3>2, <3>3 DEF Lease, Holds
  <2>3. CASE Gives(m) \/ Keeps \/ Drops
    <3>1. ~Holds(n) => ~Holds(n)'
      BY <1>0, <2>1, <2>3, NoNewLease
    <3>2. late' = late
      BY <2>3 DEF Gives, Keeps, Drops
    <3>3. Holds(n) /\ ~reg.expired => (Holds(n)' /\ ~reg'.expired) \/ run[n].status = "ended"
      <4>1. CASE Gives(m)
        <5>1. Holds(n) => ~Holds(m)
          BY <1>0, <1>1, <1>a DEF TokensAreApart, Holds
        <5> QED
          BY <1>0, <2>1, <4>1, <5>1, ReleaseUpdates DEF Gives, Holds, Active
      <4>2. CASE Keeps \/ Drops
        BY <2>1, <4>2 DEF Keeps, Drops, Holds, Active
      <4> QED
        BY <2>3, <4>1, <4>2
    <3>4. Working(n) => run[n].status # "ended"
      BY <1>0 DEF Working, Phase
    <3> QED
      BY <1>0, <2>1, <3>1, <3>2, <3>3, <3>4 DEF Lease
  <2> QED
    BY <1>0, <1>1, <2>0, <2>2, <2>3, RecordSteps
<1>2. CASE Step(n) /\ Claims(n)
  <2>1. /\ reg'.token = run'[n].token /\ reg'.status = "active" /\ ~reg'.expired
        /\ run'[n].status = "active"
    BY <1>0, <1>2, ClaimUpdates DEF Claims
  <2> QED
    BY <2>1 DEF Lease, Holds, Active
<1>3. CASE Step(n) /\ ~Claims(n)
  <2>0. Gives(n) \/ Keeps \/ Drops
    BY <1>0, <1>3, RecordSteps
  <2>1. ASSUME Working(n)' PROVE (late \/ (Holds(n) /\ ~reg.expired))'
    <3>1. Working(n) /\ run'[n].token = run[n].token
      BY <1>0, <1>3, <2>1, OwnWork
    <3>2. late \/ (Holds(n) /\ ~reg.expired)
      BY <1>0, <3>1 DEF Lease
    <3>3. ~Gives(n)
      BY <1>0, <3>1 DEF Gives, Working, Phase
    <3> QED
      BY <2>0, <3>1, <3>2, <3>3 DEF Keeps, Drops, Holds, Active
  <2>2. ASSUME GivenUp(n)' PROVE ~Holds(n)'
    <3>1. run'[n].token = run[n].token /\ (GivenUp(n) \/ reg' = Released(n))
      BY <1>0, <1>3, <2>2, OwnEnd
    <3>2. CASE GivenUp(n)
      <4>1. ~Holds(n)
        BY <1>0, <3>2 DEF Lease, GivenUp
      <4> QED
        BY <1>0, <2>0, <3>1, <4>1, NoNewLease
    <3>3. CASE reg' = Released(n)
      BY <1>0, <3>1, <3>3, ReleaseUpdates DEF Holds, Active
    <3> QED
      BY <3>1, <3>2, <3>3
  <2> QED
    BY <2>1, <2>2 DEF Lease, GivenUp
<1>4. CASE Expire
  <2>1. /\ reg'.token = reg.token /\ reg'.status = reg.status /\ UNCHANGED <<run, worker>>
        /\ late' = (late \/ \E m \in Managers : Holds(m) /\ Punctual(m))
    BY <1>0, <1>4 DEF Expire, Records
  <2>2. Working(n) => Punctual(n)
    BY <1>0 DEF Working, Punctual, Phase
  <2> QED
    BY <1>0, <2>1, <2>2 DEF Lease, Working, Holds, Active
<1>5. CASE UNCHANGED vars
  BY <1>0, <1>5 DEF vars, Lease, Working, Holds, Active
<1> QED
  BY <1>1, <1>2, <1>3, <1>4, <1>5 DEF Next, Step

-----------------------------------------------------------------------------
\* Every state of the managers and their registry keeps the invariant (run_manager.go,
\* run_registry_sqlite.go).
THEOREM Invariance == Spec => []Inv
<1>1. Init => Inv
  BY Initially
<1>2. Inv /\ [Next]_vars => Inv'
  BY ShapeStep, TokenStep, PhaseStep, LeaseStep DEF Inv
<1> QED
  BY <1>1, <1>2, PTL DEF Spec

\* The state keeps its shape, and no manager works on an agent without a worker to
\* drain it (run_manager.go run and drain).
THEOREM TypeCorrect == Spec => []TypeOK
<1>1. ASSUME Inv PROVE TypeOK
  <2>1. Shape /\ TokensAreApart /\ (\A m \in Managers : Phase(m))
    BY <1>1 DEF Inv
  <2>2. reg \in Records /\ (\A m \in Managers : run[m] \in Runs)
    BY <2>1 DEF Shape
  <2>3. /\ reg.status \in {"none", "active", "ended"} /\ reg.token \in 0 .. claims
        /\ reg.cancel \in BOOLEAN /\ reg.expired \in BOOLEAN
    BY <2>1, <2>2 DEF TokensAreApart, Records, Shape
  <2>4. \A m \in Managers : /\ run[m].status \in {"none", "active", "ended"} /\ run[m].token \in 0 .. claims
                            /\ run[m].ctx \in {"live", "cancelled"}
    BY <2>1, <2>2 DEF TokensAreApart, Runs, Shape
  <2> QED
    BY <2>1, <2>3, <2>4 DEF TokensAreApart, Shape, Phase, TypeOK
<1> QED
  BY <1>1, Invariance, PTL

\* While leases outlive the delay of the heartbeats, only the process that holds the
\* lease works on the run (run_manager.go heartbeat; the registry's Claim).
THEOREM AgentsAreFenced == Spec => []Fenced
<1>1. ASSUME Inv PROVE Fenced
  <2>1. ASSUME NEW m \in Managers, agent[m] = "live", run[m].ctx = "live" PROVE late \/ Holds(m)
    <3>1. Phase(m) /\ Lease(m) /\ run[m] \in Runs
      BY <1>1 DEF Inv, Shape
    <3>2. worker[m] = "drain"
      BY <2>1, <3>1 DEF Phase
    <3> QED
      BY <2>1, <3>1, <3>2 DEF Lease, Working
  <2> QED
    BY <2>1 DEF Fenced
<1> QED
  BY <1>1, Invariance, PTL

\* After Close nothing of the manager runs and it holds no lease (run_manager.go Close,
\* start and drain).
THEOREM ClosedManagersAreQuiet == Spec => []ClosedIsQuiet
<1>1. ASSUME Inv PROVE ClosedIsQuiet
  <2>1. ASSUME NEW m \in Managers, closing[m] = "closed"
        PROVE  agent[m] = "none" /\ worker[m] = "idle" /\ beat[m] = "off" /\ ~Holds(m)
    <3>1. Phase(m) /\ Lease(m) /\ run[m].status \in {"none", "active", "ended"} /\ TokensAreApart
      BY <1>1 DEF Inv, Shape, Runs
    <3>2. worker[m] = "idle" /\ beat[m] = "off" /\ agent[m] = "none"
      BY <2>1, <3>1 DEF Phase
    <3>3. CASE run[m].status = "ended"
      BY <3>1, <3>2, <3>3 DEF Lease
    <3>4. CASE run[m].status = "none"
      <4>1. run[m].token = 0
        BY <3>1, <3>4 DEF Phase
      <4> QED
        BY <3>1, <3>2, <4>1 DEF TokensAreApart, Holds
    <3> QED
      BY <3>1, <3>2, <3>3, <3>4 DEF Phase
  <2> QED
    BY <2>1 DEF ClosedIsQuiet
<1> QED
  BY <1>1, Invariance, PTL
=============================================================================
