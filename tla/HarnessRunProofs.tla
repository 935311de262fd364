--------------------------- MODULE HarnessRunProofs ---------------------------
(***************************************************************************)
(* What holds of every run of HarnessRun, for any number of steps, calls,  *)
(* launches and faults, with the proofs TLAPS checks.                      *)
(***************************************************************************)
EXTENDS HarnessRun, SequenceTheorems, TLAPS

-----------------------------------------------------------------------------
\* Putting a call in front of the pending ones, taking the first one off.

LEMMA PushFront ==
  ASSUME NEW S, NEW p \in Seq(S), NEW c \in S
  PROVE  /\ <<c>> \o p \in Seq(S)
         /\ Len(<<c>> \o p) = Len(p) + 1
         /\ (<<c>> \o p)[1] = c
         /\ \A i \in 2 .. Len(p) + 1 : (<<c>> \o p)[i] = p[i - 1]
BY ConcatProperties

LEMMA PopFront ==
  ASSUME NEW S, NEW p \in Seq(S), p # <<>>
  PROVE  /\ Head(p) \in S /\ Head(p) = p[1]
         /\ Tail(p) \in Seq(S) /\ Len(Tail(p)) = Len(p) - 1
         /\ \A i \in 1 .. Len(p) - 1 : Tail(p)[i] = p[i + 1]
BY HeadTailProperties, ElementOfSeq, EmptySeq, LenProperties

-----------------------------------------------------------------------------
\* The attempt bookkeeping returns well-formed states.

LEMMA AttemptInHistory ==
  ASSUME NEW h \in Seq(Attempts), NEW i \in 1 .. Len(h)
  PROVE  /\ h[i] \in Attempts /\ h[i].id \in Nat
         /\ [h[i] EXCEPT !.replaces = 0] \in Attempts
<1>1. h[i] \in Attempts
  BY ElementOfSeq
<1> QED BY <1>1 DEF Attempts

LEMMA UnlinkType ==
  ASSUME NEW h \in Seq(Attempts), 1 \in 1 .. Len(h)
  PROVE  [h EXCEPT ![1].replaces = 0] \in Seq(Attempts)
<1>1. [h[1] EXCEPT !.replaces = 0] \in Attempts
  BY AttemptInHistory
<1> QED BY <1>1, ExceptSeq

LEMMA AppendAttemptType ==
  ASSUME NEW h \in Seq(Attempts), NEW a \in Attempts
  PROVE  AppendAttempt(h, a) \in Seq(Attempts)
<1> DEFINE all == Append(h, a)
           kept == SubSeq(all, Len(all) - HistoryLimit + 1, Len(all))
<1>1. all \in Seq(Attempts) /\ Len(all) \in Nat /\ HistoryLimit \in Nat \ {0}
  BY AppendProperties, LenProperties, HistoryAssumption
<1>2. CASE Len(all) <= HistoryLimit
  BY <1>1, <1>2 DEF AppendAttempt
<1>3. CASE ~(Len(all) <= HistoryLimit)
  <2>1. \A i \in Len(all) - HistoryLimit + 1 .. Len(all) : all[i] \in Attempts
    <3> HIDE DEF all
    <3> QED BY <1>1, <1>3, ElementOfSeq
  <2>2. kept \in Seq(Attempts) /\ 1 \in 1 .. Len(kept)
    <3> HIDE DEF all
    <3> QED BY <1>1, <1>3, <2>1, SubSeqProperties
  <2>3. [kept EXCEPT ![1].replaces = 0] \in Seq(Attempts)
    <3> HIDE DEF kept
    <3> QED BY <2>2, UnlinkType
  <2> QED BY <1>3, <2>3 DEF AppendAttempt
<1> QED BY <1>2, <1>3

LEMMA NextAttemptIdType ==
  ASSUME NEW s \in RunStates
  PROVE  NextAttemptId(s) \in Nat
<1>1. s.attempt.id \in Nat
  BY DEF RunStates, Attempts
<1>2. s.history \in Seq(Attempts)
  BY DEF RunStates
<1>3. s.history # <<>> => s.history[Len(s.history)].id \in Nat
  <2> HAVE s.history # <<>>
  <2>1. Len(s.history) \in 1 .. Len(s.history)
    BY <1>2, EmptySeq, LenProperties
  <2> QED BY <1>2, <2>1, AttemptInHistory
<1> QED BY <1>1, <1>3, HistoryAssumption DEF NextAttemptId

LEMMA NewAttemptType ==
  ASSUME NEW s \in RunStates
  PROVE  WithNewAttempt(s) \in RunStates
<1> DEFINE id == NextAttemptId(s)
           old == [s.attempt EXCEPT !.replacement = id]
           new == [id |-> id, step |-> s.step, status |-> "started",
                   replaces |-> IF Superseded(s) THEN s.attempt.id ELSE 0,
                   replacement |-> 0]
           history == IF Superseded(s) THEN AppendAttempt(s.history, old) ELSE s.history
<1>1. s.attempt \in Attempts /\ s.history \in Seq(Attempts) /\ s.step \in 0 .. MaxSteps
  BY DEF RunStates
<1>2. id \in Nat
  BY NextAttemptIdType
<1>3. old \in Attempts /\ new \in Attempts
  BY <1>1, <1>2 DEF Attempts
<1>4. history \in Seq(Attempts)
  BY <1>1, <1>3, AppendAttemptType
<1>5. WithNewAttempt(s) = [s EXCEPT !.history = history, !.attempt = new]
  BY DEF WithNewAttempt
<1> HIDE DEF old, new, history, id
<1> QED BY <1>3, <1>4, <1>5 DEF RunStates

LEMMA NoAttemptType == NoAttempt \in Attempts
BY BoundsAssumption DEF NoAttempt, Attempts

LEMMA CommittedAttemptType ==
  ASSUME NEW s \in RunStates
  PROVE  WithCommittedAttempt(s) \in RunStates
<1> DEFINE a == [s.attempt EXCEPT !.status = "committed"]
<1>1. a \in Attempts /\ s.history \in Seq(Attempts)
  BY DEF RunStates, Attempts
<1>2. AppendAttempt(s.history, a) \in Seq(Attempts)
  BY <1>1, AppendAttemptType
<1> QED BY <1>2, NoAttemptType DEF WithCommittedAttempt, RunStates

-----------------------------------------------------------------------------
(***************************************************************************)
(* The inductive invariant.  TranscriptIsAnswered speaks of model requests *)
(* only; what carries it through crashes and resumes is that in memory and *)
(* in the checkpoint each call asked for is in exactly one place: pending, *)
(* active, or answered.  The others follow from what is known at each      *)
(* place of the loop.                                                      *)
(***************************************************************************)
Pending(s) == {s.pending[i] : i \in DOMAIN s.pending}

\* Every call that was asked for is pending, active or answered once.
Accounted(s) ==
  /\ \A i, j \in DOMAIN s.pending : s.pending[i] = s.pending[j] => i = j
  /\ Pending(s) \subseteq s.asked /\ s.active \notin Pending(s)
  /\ s.active # NoCall => s.active \in s.asked
  /\ s.asked \subseteq (1 .. s.turn) \X (1 .. MaxCalls)
  /\ \A c \in CallIds :
       s.answers[c] = IF c \in s.asked /\ c \notin Pending(s) /\ c # s.active THEN 1 ELSE 0
  /\ s.waiting => s.active # NoCall
  /\ s.phase \in {"created", "finalizing"} => s.pending = <<>> /\ s.active = NoCall

\* A decision on record was made by an operator.
Consented(s) == s.approved \subseteq consents /\ s.granted \subseteq standing

Resuming == {"enter", "resume", "attempt", "reawait", "requeue", "rerecord"}
EmptyHanded == {"step", "limit", "call", "stream", "complete", "hook", "rehook", "blocked"}
AtTool == {"invoke", "execute", "ask", "await"}

\* What is known at place p, with state s in memory and k in the checkpoint.
At(p, s, k, f, d) ==
  /\ p \in EmptyHanded => s.pending = <<>> /\ s.active = NoCall
  /\ p \in {"attempt", "loop", "tools"} => s.active = NoCall
  /\ p \in AtTool => s.active # NoCall /\ k.active = s.active
  /\ p \in {"record", "reawait", "requeue", "rerecord"} => s.active # NoCall
  /\ p \in {"invoke", "execute", "record", "requeue", "rerecord"} => ~s.waiting
  /\ p = "step" /\ ~Superseded(s) => s.step < MaxSteps
  /\ p \in Resuming /\ f => s.phase = "finalizing"
  /\ p = "enter" => s = k \/ (s = FreshState /\ k = NoCheckpoint)
  /\ p = "resume" => s = k
  /\ p = "report" => s.phase \in {"failed", "cancelled"}
  /\ p \in {"hook", "rehook"} => k.phase = "completed"
  /\ d => /\ p \in {"down", "enter", "resume", "cancel", "report"}
          /\ p \in {"enter", "resume"} => s.phase \in {"completed", "cancelled"}
          /\ p = "report" => s.phase = "cancelled"

Stopping == {"down", "fail", "cancel", "report"}

\* Call c has not been let loose by this process.
Unspent(c) ==
  pc \notin Stopping /\ st.answers[c] = 0 /\ ~(pc = "record" /\ st.active = c)

LaunchBound ==
  \A c \in CallIds : execs[c] <= launches /\ (Unspent(c) => execs[c] < launches)

EffectsBacked ==
  /\ EffectsAreApproved
  /\ pc = "execute" => Backed(st.active)
  /\ pc = "requeue" => st.active \in consents

Inv ==
  /\ TypeOK
  /\ Accounted(st) /\ Accounted(ckpt)
  /\ Consented(st) /\ Consented(ckpt)
  /\ At(pc, st, ckpt, final, done)
  /\ DoneIsStored
  /\ LaunchBound
  /\ EffectsBacked

-----------------------------------------------------------------------------
\* Steps have three forms: a checkpoint, a move inside the process, the end of
\* the process.  Each keeps Inv if what it needs at its own place holds.

LEMMA FreshStateKept ==
  /\ FreshState \in RunStates /\ NoCheckpoint \in RunStates
  /\ Accounted(FreshState) /\ Accounted(NoCheckpoint)
  /\ Pending(FreshState) = {}
<1>1. [c \in CallIds |-> 0] \in [CallIds -> Nat] /\ NoCall \notin CallIds
  BY BoundsAssumption DEF CallIds, NoCall
<1>2. <<>> \in Seq(CallIds) /\ <<>> \in Seq(Attempts)
  OBVIOUS
<1>3. FreshState \in RunStates
  BY <1>1, <1>2, NoAttemptType, BoundsAssumption DEF FreshState, RunStates, Phases, Terminal, Statuses
<1>4. NoCheckpoint \in RunStates
  BY <1>3 DEF NoCheckpoint, RunStates
<1>5. Accounted(FreshState) /\ Accounted(NoCheckpoint) /\ Pending(FreshState) = {}
  BY <1>1 DEF Accounted, Pending, FreshState, NoCheckpoint
<1> QED BY <1>3, <1>4, <1>5

LEMMA AccountedSame ==
  ASSUME NEW s, NEW t, s = t, Accounted(s)
  PROVE  Accounted(t)
OBVIOUS

LEMMA SaveKeepsInv ==
  ASSUME Inv, NEW s \in RunStates, NEW next \in Places, Save(s, next),
         verdict' \in Verdicts, cancelled' \in BOOLEAN, broker' \in BOOLEAN,
         final' \in BOOLEAN, refusals' \in Nat, retries' \in Nat,
         execs' = execs, consents' \subseteq CallIds, consents \subseteq consents',
         standing' \subseteq Grants, standing \subseteq standing',
         Accounted(s), s.approved \subseteq consents', s.granted \subseteq standing',
         At(next, s, s, final', FALSE), ~done,
         next = "execute" => s.active \in consents' \/ standing' \cap GrantsOf(s.active) # {},
         next = "requeue" => s.active \in consents',
         \A c \in CallIds : next \notin Stopping /\ s.answers[c] = 0
                            /\ ~(next = "record" /\ s.active = c) => Unspent(c)
  PROVE  Inv'
<1>1. /\ st' = s /\ ckpt' \in {ckpt, s} /\ faults' \in Nat
      /\ lifecycle' = lifecycle /\ done' = done /\ launches' = launches
      /\ (ckpt' = s /\ pc' = next) \/ pc' \in {"fail", "cancel"}
  BY DEF Save, StoreExits, Inv, TypeOK
<1>2. TypeOK'
  BY <1>1 DEF Inv, TypeOK, Places
<1>3. Accounted(st)' /\ Accounted(ckpt)'
  <2>1. Accounted(st)'
    BY <1>1 DEF Accounted, Pending
  <2>2. CASE ckpt' = s
    <3>1. Accounted(ckpt')
      BY <2>2, AccountedSame
    <3> QED BY <2>1, <3>1 DEF Accounted, Pending
  <2>3. CASE ckpt' = ckpt
    <3>1. Accounted(ckpt)
      BY DEF Inv
    <3>2. Accounted(ckpt')
      BY <2>3, <3>1, AccountedSame
    <3> QED BY <2>1, <3>2 DEF Accounted, Pending
  <2> QED BY <1>1, <2>1, <2>2, <2>3
<1>4. Consented(st)' /\ Consented(ckpt)'
  BY <1>1 DEF Inv, Consented
<1>5. At(pc, st, ckpt, final, done)'
  <2>1. CASE ckpt' = s /\ pc' = next
    BY <1>1, <2>1 DEF At
  <2>2. CASE pc' \in {"fail", "cancel"}
    BY <1>1, <2>2 DEF At, Resuming, EmptyHanded, AtTool
  <2> QED BY <1>1, <2>1, <2>2
<1>6. DoneIsStored'
  BY <1>1 DEF DoneIsStored
<1>7. LaunchBound'
  <2> SUFFICES ASSUME NEW c \in CallIds
               PROVE  (execs[c] <= launches)' /\ (Unspent(c)' => (execs[c] < launches)')
    BY DEF LaunchBound
  <2>1. execs[c] <= launches /\ (Unspent(c) => execs[c] < launches)
    BY DEF Inv, LaunchBound
  <2>2. Unspent(c)' => Unspent(c)
    BY <1>1 DEF Unspent, Stopping
  <2> QED BY <1>1, <2>1, <2>2
<1>8. EffectsBacked'
  BY <1>1, GatedAssumption DEF Inv, EffectsBacked, EffectsAreApproved, Backed
<1> QED BY <1>2, <1>3, <1>4, <1>5, <1>6, <1>7, <1>8 DEF Inv

LEMMA GotoKeepsInv ==
  ASSUME Inv, NEW next \in Places \ {"down", "report", "requeue"}, Goto(next), At(next, st, ckpt, final, done),
         next # "execute", next # "record", pc \notin Stopping \cup {"record"}
  PROVE  Inv'
<1>1. /\ pc' = next /\ st' = st /\ ckpt' = ckpt /\ execs' = execs /\ consents' = consents
      /\ standing' = standing /\ launches' = launches /\ done' = done /\ final' = final
  BY DEF Goto, durable, world, local
<1>2. TypeOK'
  BY <1>1 DEF Inv, TypeOK, Goto, durable, world, local
<1>3. Accounted(st)' /\ Accounted(ckpt)' /\ Consented(st)' /\ Consented(ckpt)'
  BY <1>1 DEF Inv, Accounted, Pending, Consented
<1>4. At(pc, st, ckpt, final, done)' /\ DoneIsStored'
  BY <1>1 DEF Inv, DoneIsStored, At, Superseded
<1>5. LaunchBound'
  BY <1>1 DEF Inv, LaunchBound, Unspent, Stopping
<1>6. EffectsBacked'
  BY <1>1 DEF Inv, EffectsBacked, EffectsAreApproved, Backed
<1> QED BY <1>2, <1>3, <1>4, <1>5, <1>6 DEF Inv

LEMMA ExitKeepsInv ==
  ASSUME Inv, Exit, ckpt' \in RunStates, Accounted(ckpt'), Consented(ckpt'),
         UNCHANGED <<execs, consents, standing, launches>>,
         lifecycle' \in Events, done' \in BOOLEAN, verdict' \in Verdicts, faults' \in Nat,
         done' => ckpt'.phase \in {"completed", "cancelled"}
  PROVE  Inv'
<1>1. pc' = "down" /\ st' = FreshState /\ final' = FALSE
  BY DEF Exit
<1>2. TypeOK'
  BY <1>1, FreshStateKept DEF Inv, TypeOK, Exit, Places
<1>3. Accounted(st)' /\ Accounted(ckpt)'
  BY <1>1, FreshStateKept DEF Accounted, Pending
<1>4. Consented(st)' /\ Consented(ckpt)'
  BY <1>1 DEF Consented, FreshState
<1>5. At(pc, st, ckpt, final, done)' /\ DoneIsStored'
  BY <1>1 DEF DoneIsStored, At, Resuming, EmptyHanded, AtTool
<1>6. LaunchBound'
  BY <1>1 DEF Inv, LaunchBound, Unspent, Stopping
<1>7. EffectsBacked'
  BY <1>1 DEF Inv, EffectsBacked, EffectsAreApproved, Backed
<1> QED BY <1>2, <1>3, <1>4, <1>5, <1>6, <1>7 DEF Inv

LEMMA ConcludeKeepsInv ==
  ASSUME Inv, NEW event \in Events, Conclude(event), verdict' \in Verdicts,
         UNCHANGED <<execs, consents, standing>>,
         event = "run.done" => ckpt.phase = "completed"
  PROVE  Inv'
<1>1. /\ Exit /\ ckpt' = ckpt /\ launches' = launches /\ faults' = faults
      /\ lifecycle' \in Events /\ done' \in BOOLEAN /\ (done' => done \/ event = "run.done")
  BY DEF Conclude, Inv, TypeOK
<1>2. Accounted(ckpt') /\ Consented(ckpt') /\ ckpt' \in RunStates
  BY <1>1 DEF Inv, Accounted, Pending, Consented, TypeOK
<1>3. faults' \in Nat /\ (done' => ckpt'.phase \in {"completed", "cancelled"})
  BY <1>1 DEF Inv, TypeOK, DoneIsStored
<1> QED BY <1>1, <1>2, <1>3, ExitKeepsInv

-----------------------------------------------------------------------------
\* The actions, one by one.

LEMMA LaunchKeepsInv == Inv /\ Launch => Inv'
<1> SUFFICES ASSUME Inv, Launch PROVE Inv'
  OBVIOUS
<1>1. /\ pc' = "enter" /\ ckpt' = ckpt /\ done' = done /\ lifecycle' = lifecycle
      /\ (st' = ckpt \/ (st' = FreshState /\ ckpt = NoCheckpoint))
      /\ final' = (ckpt.phase = "finalizing")
      /\ launches' = launches + 1 /\ execs' = execs /\ consents' = consents
      /\ standing' = standing
  BY DEF Launch, durable, world
<1>2. TypeOK'
  <2>1. /\ st' \in RunStates /\ ckpt' \in RunStates /\ pc' \in Places
        /\ launches' \in Nat
    BY <1>1, FreshStateKept DEF Inv, TypeOK, Places
  <2>2. /\ cancelled' \in BOOLEAN /\ broker' \in BOOLEAN /\ refusals' \in Nat
        /\ retries' \in Nat
    BY DEF Launch
  <2>3. final' \in BOOLEAN
    BY <1>1
  <2>4. UNCHANGED <<lifecycle, done, execs, consents, standing, verdict, faults>>
    BY DEF Launch, durable, world
  <2> QED BY <2>1, <2>2, <2>3, <2>4 DEF Inv, TypeOK
<1>3. Accounted(st)' /\ Accounted(ckpt)'
  <2>1. Accounted(ckpt) /\ Accounted(FreshState)
    BY FreshStateKept DEF Inv
  <2>2. Accounted(ckpt)'
    BY <1>1, <2>1 DEF Accounted, Pending
  <2>3. CASE st' = ckpt
    <3>1. Accounted(st')
      BY <2>1, <2>3, AccountedSame
    <3> QED BY <2>2, <3>1 DEF Accounted, Pending
  <2>4. CASE st' = FreshState
    <3>1. Accounted(st')
      BY <2>1, <2>4, AccountedSame
    <3> QED BY <2>2, <3>1 DEF Accounted, Pending
  <2> QED BY <1>1, <2>2, <2>3, <2>4
<1>4. Consented(st)' /\ Consented(ckpt)'
  BY <1>1 DEF Inv, Consented, FreshState
<1>5. At(pc, st, ckpt, final, done)' /\ DoneIsStored'
  <2>1. ckpt = NoCheckpoint => ckpt.phase = "none"
    BY DEF NoCheckpoint, FreshState
  <2> QED BY <1>1, <2>1 DEF Inv, DoneIsStored, At, Resuming, EmptyHanded, AtTool
<1>6. LaunchBound'
  BY <1>1 DEF Inv, TypeOK, LaunchBound, Unspent, Stopping
<1>7. EffectsBacked'
  BY <1>1 DEF Inv, EffectsBacked, EffectsAreApproved, Backed
<1> QED BY <1>2, <1>3, <1>4, <1>5, <1>6, <1>7 DEF Inv

LEMMA EnterKeepsInv == Inv /\ Enter => Inv'
<1> SUFFICES ASSUME Inv, Enter PROVE Inv'
  OBVIOUS
<1>1. CASE cancelled /\ Goto("cancel")
  <2>1. At("cancel", st, ckpt, final, done)
    BY DEF Enter, Inv, At, Resuming, EmptyHanded, AtTool
  <2> QED BY <1>1, <2>1, GotoKeepsInv DEF Enter, Places, Stopping
<1>2. CASE ~(cancelled /\ Goto("cancel"))
  <2>1. /\ pc = "enter" /\ pc' = IF st.phase = "created" THEN "loop" ELSE "resume"
        /\ lifecycle' \in Events
        /\ UNCHANGED <<ckpt, done, world, st, local, launches, faults>>
    BY <1>2 DEF Enter, Events
  <2>2. TypeOK'
    BY <2>1 DEF Inv, TypeOK, world, local, Places
  <2>3. Accounted(st)' /\ Accounted(ckpt)' /\ Consented(st)' /\ Consented(ckpt)'
    BY <2>1 DEF Inv, Accounted, Pending, Consented, world
  <2>4. At(pc, st, ckpt, final, done)'
    <3>1. st = ckpt \/ (st = FreshState /\ ckpt = NoCheckpoint)
      BY <2>1 DEF Inv, At
    <3>2. st.phase = "created" => st.active = NoCall
      BY DEF Inv, Accounted
    <3>3. st = ckpt \/ st.phase = "created"
      BY <3>1 DEF FreshState
    <3>4. /\ final => st.phase = "finalizing"
          /\ done => st.phase \in {"completed", "cancelled"}
      BY <2>1 DEF Inv, At, Resuming
    <3>5. st' = st /\ ckpt' = ckpt /\ final' = final /\ done' = done
      BY <2>1 DEF local
    <3>6. CASE st.phase = "created"
      BY <2>1, <3>2, <3>4, <3>5, <3>6 DEF At, Resuming, EmptyHanded, AtTool
    <3>7. CASE st.phase # "created"
      BY <2>1, <3>3, <3>4, <3>5, <3>7 DEF At, Resuming, EmptyHanded, AtTool
    <3> QED BY <3>6, <3>7
  <2>5. DoneIsStored' /\ LaunchBound' /\ EffectsBacked'
    BY <2>1 DEF Inv, DoneIsStored, LaunchBound, Unspent, Stopping, EffectsBacked,
                EffectsAreApproved, Backed, world
  <2> QED BY <2>2, <2>3, <2>4, <2>5 DEF Inv
<1> QED BY <1>1, <1>2

LEMMA ResumeTerminalKeepsInv == Inv /\ ResumeTerminal => Inv'
<1> SUFFICES ASSUME Inv, ResumeTerminal PROVE Inv'
  OBVIOUS
<1>1. TerminalEvent(st.phase) \in Events /\ (TerminalEvent(st.phase) = "run.done" => st.phase = "completed")
  BY DEF ResumeTerminal, Terminal, TerminalEvent, Events
<1>2. st = ckpt
  BY DEF Inv, At, ResumeTerminal
<1>3. verdict' \in Verdicts /\ UNCHANGED <<execs, consents, standing>>
  BY DEF ResumeTerminal, world, Inv, TypeOK
<1> QED BY <1>1, <1>2, <1>3, ConcludeKeepsInv DEF ResumeTerminal

\* Facts of the state before a step from place p that every step uses.
LEMMA NotDoneThere ==
  ASSUME Inv, pc \notin Stopping, pc = "enter" => FALSE, pc = "resume" => st.phase \notin Terminal
  PROVE  ~done
BY DEF Inv, At, Stopping, Terminal

\* A failing step goes where nothing more is known.
LEMMA ErrorKeepsInv ==
  ASSUME Inv, NEW e \in ErrorExits, Goto(e), ~done, pc \notin Stopping \cup {"record"}
  PROVE  Inv'
<1>1. PICK p \in {"fail", "cancel"} : p = e
  BY DEF ErrorExits
<1>2. At(p, st, ckpt, final, done)
  BY <1>1 DEF At, Resuming, EmptyHanded, AtTool
<1>3. p \in Places \ {"down", "report", "requeue"} /\ p # "execute" /\ p # "record" /\ Goto(p)
  BY <1>1 DEF Places
<1> QED BY <1>2, <1>3, GotoKeepsInv

LEMMA RequestedKeepsInv ==
  ASSUME Inv, NEW next \in {"reawait", "await"}, Requested(next), ~done,
         pc \notin Stopping \cup {"record"}, At(next, st, ckpt, final, FALSE)
  PROVE  Inv'
<1>1. CASE broker /\ lifecycle' = "approval.requested" /\ pc' = next
           /\ UNCHANGED <<ckpt, done, world, st, local, launches, faults>>
  <2>1. TypeOK'
    BY <1>1 DEF Inv, TypeOK, world, local, Places, Events
  <2>2. Accounted(st)' /\ Accounted(ckpt)' /\ Consented(st)' /\ Consented(ckpt)'
    BY <1>1 DEF Inv, Accounted, Pending, Consented, world
  <2>3. At(pc, st, ckpt, final, done)' /\ DoneIsStored'
    BY <1>1 DEF Inv, DoneIsStored, At, local, Superseded
  <2>4. LaunchBound' /\ EffectsBacked'
    BY <1>1 DEF Inv, LaunchBound, Unspent, Stopping, EffectsBacked, EffectsAreApproved, Backed, world
  <2> QED BY <2>1, <2>2, <2>3, <2>4 DEF Inv
<1>2. CASE \E e \in ErrorExits : Goto(e)
  BY <1>2, ErrorKeepsInv
<1>3. CASE Conclude("approval.requested") /\ UNCHANGED world
  <2>1. verdict' \in Verdicts /\ UNCHANGED <<execs, consents, standing>>
    BY <1>3 DEF Inv, TypeOK, world
  <2> QED BY <1>3, <2>1, ConcludeKeepsInv DEF Events
<1> QED BY <1>1, <1>2, <1>3 DEF Requested

LEMMA ResumeWaitingKeepsInv == Inv /\ ResumeWaiting => Inv'
<1> SUFFICES ASSUME Inv, ResumeWaiting PROVE Inv'
  OBVIOUS
<1>1. pc = "resume" /\ st.phase \notin Terminal /\ st.waiting /\ Requested("reawait")
  BY DEF ResumeWaiting
<1>2. ~done
  BY <1>1, NotDoneThere DEF Stopping
<1>3. st.active # NoCall /\ (final => st.phase = "finalizing")
  BY <1>1 DEF Inv, Accounted, At, Resuming
<1>4. At("reawait", st, ckpt, final, FALSE)
  BY <1>3 DEF At, Resuming, EmptyHanded, AtTool
<1> QED BY <1>1, <1>2, <1>4, RequestedKeepsInv DEF Stopping

\* An active call put back in front of the pending ones.
LEMMA PutBack ==
  ASSUME NEW s \in RunStates, Accounted(s), s.active # NoCall,
         NEW t \in RunStates, t.pending = <<s.active>> \o s.pending, t.active = NoCall,
         t.asked = s.asked, t.answers = s.answers, t.turn = s.turn, t.phase = s.phase,
         ~t.waiting
  PROVE  Accounted(t)
<1>1. s.active \in CallIds /\ s.pending \in Seq(CallIds) /\ NoCall \notin CallIds
  BY DEF RunStates, CallIds, NoCall
<1>2. /\ Len(s.pending) \in Nat /\ DOMAIN s.pending = 1 .. Len(s.pending)
      /\ t.pending \in Seq(CallIds) /\ Len(t.pending) = Len(s.pending) + 1
      /\ t.pending[1] = s.active
      /\ \A i \in 2 .. Len(s.pending) + 1 : t.pending[i] = s.pending[i - 1]
  BY <1>1, PushFront, LenProperties
<1>3. DOMAIN t.pending = 1 .. Len(s.pending) + 1
  BY <1>2, LenProperties
<1>4. Pending(t) = Pending(s) \cup {s.active}
  <2>1. ASSUME NEW i \in 1 .. Len(s.pending) + 1
        PROVE  t.pending[i] = s.active \/ t.pending[i] \in Pending(s)
    <3>1. i = 1 \/ (i \in 2 .. Len(s.pending) + 1 /\ i - 1 \in DOMAIN s.pending)
      BY <1>2
    <3>2. i \in 2 .. Len(s.pending) + 1 => t.pending[i] = s.pending[i - 1]
      BY <1>2
    <3> QED BY <1>2, <3>1, <3>2 DEF Pending
  <2>2. ASSUME NEW i \in 1 .. Len(s.pending)
        PROVE  i + 1 \in DOMAIN t.pending /\ t.pending[i + 1] = s.pending[i]
    BY <1>2, <1>3
  <2>3. Pending(t) \subseteq Pending(s) \cup {s.active}
    BY <1>3, <2>1 DEF Pending
  <2>4. Pending(s) \subseteq Pending(t)
    <3> SUFFICES ASSUME NEW i \in 1 .. Len(s.pending) PROVE s.pending[i] \in Pending(t)
      BY <1>2 DEF Pending
    <3> QED BY <2>2 DEF Pending
  <2>5. s.active \in Pending(t)
    <3>1. 1 \in DOMAIN t.pending /\ t.pending[1] = s.active
      BY <1>2, <1>3
    <3> QED BY <3>1 DEF Pending
  <2> QED BY <2>3, <2>4, <2>5
<1>5. \A i, j \in DOMAIN t.pending : t.pending[i] = t.pending[j] => i = j
  <2> SUFFICES ASSUME NEW i \in 1 .. Len(s.pending) + 1, NEW j \in 1 .. Len(s.pending) + 1,
                      t.pending[i] = t.pending[j]
               PROVE  i = j
    BY <1>3
  <2>1. \A n \in 2 .. Len(s.pending) + 1 :
          n - 1 \in DOMAIN s.pending /\ t.pending[n] = s.pending[n - 1] /\ t.pending[n] \in Pending(s)
    <3> SUFFICES ASSUME NEW n \in 2 .. Len(s.pending) + 1
                 PROVE  n - 1 \in DOMAIN s.pending /\ t.pending[n] = s.pending[n - 1]
                        /\ t.pending[n] \in Pending(s)
      OBVIOUS
    <3>1. n - 1 \in DOMAIN s.pending
      BY <1>2
    <3>2. t.pending[n] = s.pending[n - 1]
      BY <1>2
    <3> QED BY <3>1, <3>2 DEF Pending
  <2>2. s.active \notin Pending(s)
    BY DEF Accounted
  <2>3. CASE i = 1 \/ j = 1
    BY <1>2, <2>1, <2>2, <2>3
  <2>4. CASE i # 1 /\ j # 1
    <3>1. i \in 2 .. Len(s.pending) + 1 /\ j \in 2 .. Len(s.pending) + 1
      BY <1>2, <2>4
    <3>2. s.pending[i - 1] = s.pending[j - 1]
      BY <2>1, <3>1
    <3>3. i - 1 = j - 1
      BY <2>1, <3>1, <3>2 DEF Accounted
    <3> QED BY <3>1, <3>3
  <2> QED BY <2>3, <2>4
<1>6. t.phase \notin {"created", "finalizing"}
  BY DEF Accounted, RunStates
<1> QED BY <1>1, <1>4, <1>5, <1>6 DEF Accounted, RunStates

\* A checkpoint that leaves the calls and the decisions as they are.
SameCalls(s) ==
  /\ s.pending = st.pending /\ s.active = st.active /\ s.asked = st.asked /\ s.turn = st.turn
  /\ s.answers = st.answers /\ s.approved = st.approved /\ s.granted = st.granted

LEMMA QuietSaveKeepsInv ==
  ASSUME Inv, NEW s \in RunStates, NEW next \in Places \ {"execute", "record", "requeue"}, Save(s, next),
         UNCHANGED <<execs, consents, standing>>,
         verdict' \in Verdicts, cancelled' \in BOOLEAN, broker' \in BOOLEAN,
         final' \in BOOLEAN, refusals' \in Nat, retries' \in Nat,
         SameCalls(s), s.waiting => st.active # NoCall,
         s.phase \in {"created", "finalizing"} => st.pending = <<>> /\ st.active = NoCall,
         At(next, s, s, final', FALSE), ~done, pc \notin Stopping \cup {"record"}
  PROVE  Inv'
<1>1. Accounted(s)
  BY DEF Inv, Accounted, Pending, SameCalls
<1>2. /\ s.approved \subseteq consents' /\ s.granted \subseteq standing'
      /\ consents' \subseteq CallIds /\ consents \subseteq consents'
      /\ standing' \subseteq Grants /\ standing \subseteq standing'
  BY DEF Inv, Consented, TypeOK, SameCalls
<1>3. \A c \in CallIds : s.answers[c] = 0 => Unspent(c)
  BY DEF Unspent, SameCalls
<1> QED BY <1>1, <1>2, <1>3, SaveKeepsInv

\* What the steps that leave world and local alone say of the other variables.
LEMMA TheRestIsTyped ==
  ASSUME Inv, UNCHANGED local
  PROVE  /\ cancelled' \in BOOLEAN /\ broker' \in BOOLEAN /\ final' \in BOOLEAN
         /\ refusals' \in Nat /\ retries' \in Nat /\ final' = final
BY DEF Inv, TypeOK, local

LEMMA TheWorldIsTyped ==
  ASSUME Inv, UNCHANGED world
  PROVE  /\ verdict' \in Verdicts /\ UNCHANGED <<execs, consents, standing>>
         /\ consents' \subseteq CallIds /\ standing' \subseteq Grants
         /\ consents \subseteq consents' /\ standing \subseteq standing'
BY DEF Inv, TypeOK, world

LEMMA RequeueKeepsInv == Inv /\ Requeue => Inv'
<1> SUFFICES ASSUME Inv, Requeue PROVE Inv'
  OBVIOUS
<1>1. pc = "resume" /\ st.phase \notin Terminal /\ ~st.waiting /\ ~done
      /\ (final => st.phase = "finalizing")
  BY NotDoneThere DEF Requeue, Stopping, Inv, At, Resuming
<1>2. CASE st.active # NoCall
  <2> DEFINE s == [st EXCEPT !.pending = <<st.active>> \o @, !.active = NoCall,
                             !.status = "running"]
  <2>1. Save(s, "attempt") /\ UNCHANGED <<world, local>>
    BY <1>2 DEF Requeue
  <2>2. st.active \in CallIds /\ st.pending \in Seq(CallIds)
    BY <1>2 DEF Inv, TypeOK, RunStates
  <2>3. <<st.active>> \o st.pending \in Seq(CallIds)
    BY <2>2, PushFront
  <2>4. s \in RunStates
    BY <2>3 DEF Inv, TypeOK, RunStates, Statuses
  <2>5. Accounted(s)
    BY <1>1, <1>2, <2>4, PutBack DEF Inv, TypeOK, RunStates
  <2>6. At("attempt", s, s, final', FALSE)
    BY <1>1, <2>1, TheRestIsTyped DEF At, Resuming, EmptyHanded, AtTool, Inv, TypeOK, RunStates
  <2>7. s.approved = st.approved /\ s.granted = st.granted /\ s.answers = st.answers
    BY DEF Inv, TypeOK, RunStates
  <2> HIDE DEF s
  <2>8. s.approved \subseteq consents' /\ s.granted \subseteq standing'
    BY <2>1, <2>7, TheWorldIsTyped DEF Inv, Consented
  <2>9. \A c \in CallIds : s.answers[c] = 0 => Unspent(c)
    BY <1>1, <2>7 DEF Unspent, Stopping
  <2> QED BY <1>1, <2>1, <2>4, <2>5, <2>6, <2>8, <2>9, TheRestIsTyped, TheWorldIsTyped,
             SaveKeepsInv DEF Places
<1>3. CASE st.active = NoCall
  <2>1. Goto("attempt")
    BY <1>3 DEF Requeue
  <2>2. At("attempt", st, ckpt, final, done)
    BY <1>1, <1>3 DEF At, Resuming, EmptyHanded, AtTool
  <2> QED BY <1>1, <2>1, <2>2, GotoKeepsInv DEF Places, Stopping
<1> QED BY <1>2, <1>3

LEMMA SettleAttemptKeepsInv == Inv /\ SettleAttempt => Inv'
<1> SUFFICES ASSUME Inv, SettleAttempt PROVE Inv'
  OBVIOUS
<1>1. pc = "attempt" /\ ~done /\ st.active = NoCall /\ (final => st.phase = "finalizing")
  BY NotDoneThere DEF SettleAttempt, Stopping, Inv, At, Resuming
<1>2. PICK status \in {"superseded", "interrupted"} :
        Save([st EXCEPT !.attempt.status = status], "attempt") /\ UNCHANGED <<world, local>>
  BY DEF SettleAttempt
<1> DEFINE s == [st EXCEPT !.attempt.status = status]
<1>3. s \in RunStates
  BY DEF Inv, TypeOK, RunStates, Attempts
<1>4. SameCalls(s) /\ s.waiting = st.waiting /\ s.phase = st.phase
  BY DEF Inv, TypeOK, RunStates, SameCalls
<1>5. Save(s, "attempt")
  BY <1>2
<1> HIDE DEF s
<1>6. At("attempt", s, s, final', FALSE)
  BY <1>1, <1>2, <1>4, TheRestIsTyped DEF At, Resuming, EmptyHanded, AtTool, SameCalls
<1>7. /\ s.waiting => st.active # NoCall
      /\ s.phase \in {"created", "finalizing"} => st.pending = <<>> /\ st.active = NoCall
  BY <1>4 DEF Inv, Accounted
<1> QED BY <1>1, <1>2, <1>3, <1>4, <1>5, <1>6, <1>7, TheRestIsTyped, TheWorldIsTyped,
           QuietSaveKeepsInv DEF Places, Stopping

LEMMA ResumeAnswerKeepsInv == Inv /\ ResumeAnswer => Inv'
<1> SUFFICES ASSUME Inv, ResumeAnswer PROVE Inv'
  OBVIOUS
<1> DEFINE s == [st EXCEPT !.phase = "completed", !.status = "completed"]
<1>1. /\ pc = "attempt" /\ ~done /\ st.active = NoCall /\ st.pending = <<>>
      /\ Save(s, "rehook") /\ UNCHANGED <<world, local>>
  BY NotDoneThere DEF ResumeAnswer, AnswerCommitted, Stopping, Inv, At
<1>2. s \in RunStates /\ SameCalls(s) /\ s.waiting = st.waiting /\ s.phase = "completed"
  <2>1. st \in RunStates /\ "completed" \in Phases \cup {"none"} /\ "completed" \in Statuses
    BY DEF Inv, TypeOK, Phases, Terminal, Statuses
  <2>2. s \in RunStates
    BY <2>1 DEF RunStates
  <2>3. SameCalls(s) /\ s.waiting = st.waiting /\ s.phase = "completed"
    BY <2>1 DEF RunStates, SameCalls
  <2> QED BY <2>2, <2>3
<1> HIDE DEF s
<1>3. At("rehook", s, s, final', FALSE)
  BY <1>1, <1>2 DEF At, Resuming, EmptyHanded, AtTool, SameCalls
<1>4. s.waiting => st.active # NoCall
  BY <1>2 DEF Inv, Accounted
<1> QED BY <1>1, <1>2, <1>3, <1>4, TheRestIsTyped, TheWorldIsTyped,
           QuietSaveKeepsInv DEF Places, Stopping

LEMMA ResumeLoopKeepsInv == Inv /\ ResumeLoop => Inv'
<1> SUFFICES ASSUME Inv, ResumeLoop PROVE Inv'
  OBVIOUS
<1>1. pc = "attempt" /\ ~done /\ st.active = NoCall /\ (final => st.phase = "finalizing")
  BY NotDoneThere DEF ResumeLoop, Stopping, Inv, At, Resuming
<1>2. final => st.pending = <<>>
  BY <1>1 DEF Inv, Accounted
<1>3. PICK p \in {"call", "loop"} : Goto(p) /\ (p = "call" => final)
  BY DEF ResumeLoop
<1>4. At(p, st, ckpt, final, done)
  BY <1>1, <1>2, <1>3 DEF At, Resuming, EmptyHanded, AtTool
<1> QED BY <1>1, <1>3, <1>4, GotoKeepsInv DEF Places, Stopping

LEMMA LoopKeepsInv == Inv /\ Loop => Inv'
<1> SUFFICES ASSUME Inv, Loop PROVE Inv'
  OBVIOUS
<1>1. pc = "loop" /\ ~done /\ st.active = NoCall
  BY NotDoneThere DEF Loop, Stopping, Inv, At
<1>2. PICK p \in {"cancel", "tools", "limit", "step"} :
        /\ Goto(p)
        /\ p \in {"limit", "step"} => st.pending = <<>>
        /\ p = "step" => ~(st.step >= MaxSteps /\ ~Superseded(st))
  BY DEF Loop
<1>3. st.step \in Nat /\ MaxSteps \in Nat
  BY BoundsAssumption DEF Inv, TypeOK, RunStates
<1>4. At(p, st, ckpt, final, done)
  BY <1>1, <1>2, <1>3 DEF At, Resuming, EmptyHanded, AtTool
<1> QED BY <1>1, <1>2, <1>4, GotoKeepsInv DEF Places, Stopping

LEMMA BeginStepKeepsInv == Inv /\ BeginStep => Inv'
<1> SUFFICES ASSUME Inv, BeginStep PROVE Inv'
  OBVIOUS
<1> DEFINE s == [st EXCEPT !.step = IF Superseded(st) THEN @ ELSE @ + 1,
                           !.phase = "model", !.status = "streaming"]
<1>1. /\ pc = "step" /\ ~done /\ st.active = NoCall /\ st.pending = <<>>
      /\ Save(s, "call") /\ UNCHANGED <<world, local>>
      /\ ~Superseded(st) => st.step < MaxSteps
  BY NotDoneThere DEF BeginStep, Stopping, Inv, At, EmptyHanded
<1>2. st.step \in 0 .. MaxSteps /\ MaxSteps \in Nat
  BY BoundsAssumption DEF Inv, TypeOK, RunStates
<1>3. (IF Superseded(st) THEN st.step ELSE st.step + 1) \in 0 .. MaxSteps
  BY <1>1, <1>2
<1>4. s \in RunStates /\ SameCalls(s) /\ s.waiting = st.waiting /\ s.phase = "model"
  <2>1. st \in RunStates /\ "model" \in Phases /\ "streaming" \in Statuses
    BY DEF Inv, TypeOK, Phases, Statuses
  <2>2. s \in RunStates
    BY <1>3, <2>1 DEF RunStates
  <2> QED BY <2>1, <2>2 DEF RunStates, SameCalls
<1> HIDE DEF s
<1>5. At("call", s, s, final', FALSE)
  BY <1>1, <1>4 DEF At, Resuming, EmptyHanded, AtTool, SameCalls
<1>6. s.waiting => st.active # NoCall
  BY <1>4 DEF Inv, Accounted
<1> QED BY <1>1, <1>4, <1>5, <1>6, TheRestIsTyped, TheWorldIsTyped,
           QuietSaveKeepsInv DEF Places, Stopping

LEMMA BeginFinalTurnKeepsInv == Inv /\ BeginFinalTurn => Inv'
<1> SUFFICES ASSUME Inv, BeginFinalTurn PROVE Inv'
  OBVIOUS
<1> DEFINE s == [st EXCEPT !.phase = "finalizing", !.status = "streaming", !.last = "user"]
<1>1. /\ pc = "limit" /\ ~done /\ st.active = NoCall /\ st.pending = <<>>
      /\ Save(s, "call") /\ UNCHANGED world
  BY NotDoneThere DEF BeginFinalTurn, Stopping, Inv, At, EmptyHanded
<1>2. /\ cancelled' \in BOOLEAN /\ broker' \in BOOLEAN /\ final' \in BOOLEAN
      /\ refusals' \in Nat /\ retries' \in Nat
  BY DEF BeginFinalTurn, Inv, TypeOK
<1>3. s \in RunStates /\ SameCalls(s) /\ s.waiting = st.waiting
  BY DEF Inv, TypeOK, RunStates, Phases, Statuses, SameCalls
<1> HIDE DEF s
<1>4. At("call", s, s, final', FALSE)
  BY <1>1, <1>3 DEF At, Resuming, EmptyHanded, AtTool, SameCalls
<1>5. s.waiting => st.active # NoCall
  BY <1>3 DEF Inv, Accounted
<1> QED BY <1>1, <1>2, <1>3, <1>4, <1>5, TheWorldIsTyped, QuietSaveKeepsInv DEF Places, Stopping

LEMMA StartAttemptKeepsInv == Inv /\ StartAttempt => Inv'
<1> SUFFICES ASSUME Inv, StartAttempt PROVE Inv'
  OBVIOUS
<1> DEFINE s == WithNewAttempt(st)
<1>1. /\ pc = "call" /\ ~done /\ st.active = NoCall /\ st.pending = <<>>
      /\ Save(s, "stream") /\ UNCHANGED <<world, local>>
  BY NotDoneThere DEF StartAttempt, Stopping, Inv, At, EmptyHanded
<1>2. s \in RunStates
  BY NewAttemptType DEF Inv, TypeOK
<1>3. SameCalls(s) /\ s.waiting = st.waiting
  BY DEF WithNewAttempt, SameCalls, Inv, TypeOK, RunStates
<1> HIDE DEF s
<1>4. At("stream", s, s, final', FALSE)
  BY <1>1, <1>3 DEF At, Resuming, EmptyHanded, AtTool, SameCalls
<1>5. s.waiting => st.active # NoCall
  BY <1>3 DEF Inv, Accounted
<1> QED BY <1>1, <1>2, <1>3, <1>4, <1>5, TheRestIsTyped, TheWorldIsTyped,
           QuietSaveKeepsInv DEF Places, Stopping

LEMMA ChunkKeepsInv == Inv /\ Chunk => Inv'
<1> SUFFICES ASSUME Inv, Chunk PROVE Inv'
  OBVIOUS
<1> DEFINE s == [st EXCEPT !.attempt.status = "streaming"]
<1>1. /\ pc = "stream" /\ ~done /\ st.active = NoCall /\ st.pending = <<>>
      /\ Save(s, "stream") /\ UNCHANGED <<world, local>>
  BY NotDoneThere DEF Chunk, Stopping, Inv, At, EmptyHanded
<1>2. s \in RunStates /\ SameCalls(s) /\ s.waiting = st.waiting
  BY DEF Inv, TypeOK, RunStates, Attempts, SameCalls
<1> HIDE DEF s
<1>3. At("stream", s, s, final', FALSE)
  BY <1>1, <1>2 DEF At, Resuming, EmptyHanded, AtTool, SameCalls
<1>4. s.waiting => st.active # NoCall
  BY <1>2 DEF Inv, Accounted
<1> QED BY <1>1, <1>2, <1>3, <1>4, TheRestIsTyped, TheWorldIsTyped,
           QuietSaveKeepsInv DEF Places, Stopping

\* The calls of a new answer have names of their own.
LEMMA WithAnswerOK ==
  ASSUME NEW s \in RunStates, Accounted(s), s.pending = <<>>, s.active = NoCall,
         NEW n \in 0 .. MaxCalls, n > 0 => s.turn < MaxTurns, final \in BOOLEAN
  PROVE  LET t == WithAnswer(s, n)
         IN  /\ t \in RunStates /\ Accounted(t)
             /\ t.active = NoCall /\ (n = 0 => t.pending = <<>>)
             /\ t.approved = s.approved /\ t.granted = s.granted /\ t.answers = s.answers
             /\ t.phase = IF final THEN "completed" ELSE "model"
<1> DEFINE u == WithCommittedAttempt(s)
           t == WithAnswer(s, n)
           turn == s.turn + (IF n = 0 THEN 0 ELSE 1)
           new == {<<turn, i>> : i \in 1 .. n}
           pending == [i \in 1 .. n |-> <<turn, i>>]
<1>1. u \in RunStates
  BY CommittedAttemptType
<1>2. /\ u.asked = s.asked /\ u.answers = s.answers /\ u.active = s.active
      /\ u.approved = s.approved /\ u.granted = s.granted /\ u.waiting = s.waiting
  BY DEF WithCommittedAttempt, RunStates
<1>3. s.turn \in 0 .. MaxTurns /\ MaxTurns \in Nat /\ MaxCalls \in Nat
  BY BoundsAssumption DEF RunStates
<1>4. turn \in 0 .. MaxTurns /\ (n > 0 => turn = s.turn + 1) /\ (n = 0 => turn = s.turn)
  BY <1>3
<1>5. new \subseteq (1 .. turn) \X (1 .. MaxCalls) /\ new \subseteq CallIds
  <2> SUFFICES ASSUME NEW i \in 1 .. n
               PROVE  <<turn, i>> \in (1 .. turn) \X (1 .. MaxCalls) /\ <<turn, i>> \in CallIds
    OBVIOUS
  <2>1. n > 0 /\ turn \in 1 .. MaxTurns /\ turn \in 1 .. turn /\ i \in 1 .. MaxCalls
    BY <1>3, <1>4
  <2> QED BY <2>1 DEF CallIds
<1>6. pending \in Seq(CallIds) /\ DOMAIN pending = 1 .. n /\ (n = 0 => pending = <<>>)
  <2>1. \A i \in 1 .. n : <<turn, i>> \in CallIds
    BY <1>5
  <2>2. n \in Nat /\ pending \in [1 .. n -> CallIds]
    BY <1>3, <2>1
  <2>3. n = 0 => 1 .. n = {}
    OBVIOUS
  <2>4. pending \in Seq(CallIds)
    <3> HIDE DEF pending
    <3> QED BY <2>2
  <2>5. n = 0 => Len(pending) = 0
    BY <2>2
  <2> QED BY <2>2, <2>4, <2>5, EmptySeq
<1>7. t = [u EXCEPT !.last = IF n = 0 THEN "text" ELSE "calls", !.turn = turn,
                    !.asked = s.asked \cup new, !.pending = pending,
                    !.phase = IF final THEN "completed" ELSE "model",
                    !.status = IF final THEN "completed" ELSE "running"]
  BY <1>1, <1>2 DEF WithAnswer, RunStates
<1>8. s.asked \cup new \in SUBSET CallIds
  BY <1>5 DEF RunStates
<1> HIDE DEF u, new, pending, turn
<1>9. t \in RunStates
  <2>1. (IF n = 0 THEN "text" ELSE "calls") \in {"user", "text", "calls", "tool"}
    OBVIOUS
  <2>2. /\ (IF final THEN "completed" ELSE "model") \in Phases \cup {"none"}
        /\ (IF final THEN "completed" ELSE "running") \in Statuses
    BY DEF Phases, Statuses, Terminal
  <2>3. u \in RunStates /\ turn \in 0 .. MaxTurns
    BY <1>1, <1>4
  <2> HIDE DEF t
  <2> QED BY <1>6, <1>7, <1>8, <2>1, <2>2, <2>3, ZenonT(40) DEF RunStates
<1>10. /\ t.turn = turn /\ t.asked = s.asked \cup new /\ t.pending = pending
       /\ t.active = NoCall /\ t.answers = s.answers /\ t.waiting = s.waiting
       /\ t.approved = s.approved /\ t.granted = s.granted
       /\ t.phase = IF final THEN "completed" ELSE "model"
  <2> HIDE DEF t
  <2> QED BY <1>1, <1>2, <1>7 DEF RunStates
<1>11. Accounted(t)
  <2>1. \A i, j \in DOMAIN pending : pending[i] = pending[j] => i = j
    BY <1>6 DEF pending
  <2>2. Pending(t) = new
    BY <1>6, <1>10 DEF Pending, pending, new
  <2>3. NoCall \notin new
    BY <1>5, <1>3 DEF NoCall, CallIds
  <2>4. \A c \in new : c \notin s.asked
    <3> SUFFICES ASSUME NEW c \in new, c \in s.asked PROVE FALSE
      OBVIOUS
    <3>1. PICK i \in 1 .. n : c = <<turn, i>>
      BY DEF new
    <3>2. turn \in 1 .. s.turn
      BY <3>1 DEF Accounted
    <3> QED BY <1>3, <1>4, <3>1, <3>2
  <2>5. s.asked \cup new \subseteq (1 .. turn) \X (1 .. MaxCalls)
    <3>1. 1 .. s.turn \subseteq 1 .. turn
      BY <1>3, <1>4
    <3>2. s.asked \subseteq (1 .. turn) \X (1 .. MaxCalls)
      BY <3>1 DEF Accounted
    <3> QED BY <1>5, <3>2
  <2>6. Pending(s) = {} /\ ~s.waiting
    BY DEF Accounted, Pending
  <2>7. \A c \in CallIds : s.answers[c] = IF c \in s.asked THEN 1 ELSE 0
    <3>1. NoCall \notin CallIds
      BY DEF NoCall, CallIds
    <3> QED BY <2>6, <3>1 DEF Accounted
  <2>8. \A c \in CallIds : t.answers[c] =
          IF c \in t.asked /\ c \notin Pending(t) /\ c # t.active THEN 1 ELSE 0
    <3>1. NoCall \notin CallIds
      BY DEF NoCall, CallIds
    <3> QED BY <1>10, <2>2, <2>4, <2>7, <3>1
  <2>9. t.phase \notin {"created", "finalizing"}
    BY <1>10
  <2> QED BY <1>10, <2>1, <2>2, <2>3, <2>5, <2>6, <2>8, <2>9 DEF Accounted
<1> QED BY <1>6, <1>9, <1>10, <1>11

LEMMA ModelAnswersKeepsInv == Inv /\ ModelAnswers => Inv'
<1> SUFFICES ASSUME Inv, ModelAnswers PROVE Inv'
  OBVIOUS
<1>1. pc = "stream" /\ ~done /\ st.active = NoCall /\ st.pending = <<>>
  BY NotDoneThere DEF ModelAnswers, Stopping, Inv, At, EmptyHanded
<1>2. CASE Goto("fail")
  BY <1>1, <1>2, ErrorKeepsInv DEF ErrorExits, Stopping
<1>3. ASSUME NEW n \in 0 .. MaxCalls, ~(final /\ n > 0), n > 0 => st.turn < MaxTurns,
             Save(WithAnswer(st, n),
                  IF final THEN "hook" ELSE IF n = 0 THEN "complete" ELSE "loop"),
             verdict' = "none", retries' = 0,
             UNCHANGED <<execs, consents, standing, cancelled, broker, final, refusals>>
      PROVE  Inv'
  <2> DEFINE t == WithAnswer(st, n)
             next == IF final THEN "hook" ELSE IF n = 0 THEN "complete" ELSE "loop"
  <2>1. final \in BOOLEAN /\ st \in RunStates /\ Accounted(st)
    BY DEF Inv, TypeOK
  <2>2. /\ t \in RunStates /\ Accounted(t)
        /\ t.active = NoCall /\ (n = 0 => t.pending = <<>>)
        /\ t.approved = st.approved /\ t.granted = st.granted /\ t.answers = st.answers
        /\ t.phase = IF final THEN "completed" ELSE "model"
    BY <1>1, <1>3, <2>1, WithAnswerOK
  <2>3. Save(t, next)
    BY <1>3
  <2>4. n \in Nat /\ (final => n = 0)
    BY <1>3, BoundsAssumption
  <2>5. /\ next \in {"hook", "complete", "loop"} /\ (next = "hook" => final)
        /\ next \in {"hook", "complete"} => n = 0
    BY <2>4
  <2> HIDE DEF t, next
  <2>6. At(next, t, t, final', FALSE)
    BY <2>2, <2>5 DEF At, Resuming, EmptyHanded, AtTool
  <2>7. /\ t.approved \subseteq consents' /\ t.granted \subseteq standing'
        /\ consents' \subseteq CallIds /\ consents \subseteq consents'
        /\ standing' \subseteq Grants /\ standing \subseteq standing'
    BY <1>3, <2>2 DEF Inv, Consented, TypeOK
  <2>8. \A c \in CallIds : t.answers[c] = 0 => Unspent(c)
    BY <1>1, <2>2 DEF Unspent, Stopping
  <2>9. /\ verdict' \in Verdicts /\ cancelled' \in BOOLEAN /\ broker' \in BOOLEAN
        /\ final' \in BOOLEAN /\ refusals' \in Nat /\ retries' \in Nat /\ execs' = execs
    BY <1>3 DEF Inv, TypeOK, Verdicts
  <2> QED BY <1>1, <2>2, <2>3, <2>5, <2>6, <2>7, <2>8, <2>9, SaveKeepsInv DEF Places
<1>4. 0 .. (IF st.attempt.status = "started" THEN 0 ELSE MaxCalls) \subseteq 0 .. MaxCalls
  BY BoundsAssumption
<1> QED BY <1>2, <1>3, <1>4 DEF ModelAnswers

LEMMA ModelFailsKeepsInv == Inv /\ ModelFails => Inv'
<1> SUFFICES ASSUME Inv, ModelFails PROVE Inv'
  OBVIOUS
<1> DEFINE s == [st EXCEPT !.attempt.status = "superseded"]
<1>1. pc = "stream" /\ ~done /\ st.active = NoCall /\ st.pending = <<>>
  BY NotDoneThere DEF ModelFails, Stopping, Inv, At, EmptyHanded
<1>2. CASE \E e \in ErrorExits : Goto(e)
  BY <1>1, <1>2, ErrorKeepsInv DEF ErrorExits, Stopping
<1>3. CASE /\ retries' = retries + 1 /\ Save(s, "call")
           /\ UNCHANGED <<world, cancelled, broker, final, refusals>>
  <2>1. s \in RunStates /\ SameCalls(s) /\ s.waiting = st.waiting
    BY DEF Inv, TypeOK, RunStates, Attempts, SameCalls
  <2>2. /\ cancelled' \in BOOLEAN /\ broker' \in BOOLEAN /\ final' \in BOOLEAN
        /\ refusals' \in Nat /\ retries' \in Nat
    BY <1>3 DEF Inv, TypeOK
  <2> HIDE DEF s
  <2>3. At("call", s, s, final', FALSE)
    BY <1>1, <2>1 DEF At, Resuming, EmptyHanded, AtTool, SameCalls
  <2>4. s.waiting => st.active # NoCall
    BY <2>1 DEF Inv, Accounted
  <2> QED BY <1>1, <1>3, <2>1, <2>2, <2>3, <2>4, TheWorldIsTyped,
             QuietSaveKeepsInv DEF Places, Stopping
<1> QED BY <1>2, <1>3 DEF ModelFails

LEMMA CancelledBackoffKeepsInv == Inv /\ CancelledBackoff => Inv'
<1> SUFFICES ASSUME Inv, CancelledBackoff PROVE Inv'
  OBVIOUS
<1>1. pc = "call" /\ cancelled /\ Goto("cancel") /\ ~done
  BY NotDoneThere DEF CancelledBackoff, Stopping
<1> QED BY <1>1, ErrorKeepsInv DEF ErrorExits, Stopping

LEMMA CompleteKeepsInv == Inv /\ Complete => Inv'
<1> SUFFICES ASSUME Inv, Complete PROVE Inv'
  OBVIOUS
<1> DEFINE s == [st EXCEPT !.phase = "completed", !.status = "completed"]
<1>1. /\ pc = "complete" /\ ~done /\ st.active = NoCall /\ st.pending = <<>>
      /\ Save(s, "hook") /\ UNCHANGED <<world, local>>
  BY NotDoneThere DEF Complete, Stopping, Inv, At, EmptyHanded
<1>2. s \in RunStates /\ SameCalls(s) /\ s.waiting = st.waiting /\ s.phase = "completed"
  <2>1. st \in RunStates /\ "completed" \in Phases \cup {"none"} /\ "completed" \in Statuses
    BY DEF Inv, TypeOK, Phases, Terminal, Statuses
  <2>2. s \in RunStates
    BY <2>1 DEF RunStates
  <2>3. SameCalls(s) /\ s.waiting = st.waiting /\ s.phase = "completed"
    BY <2>1 DEF RunStates, SameCalls
  <2> QED BY <2>2, <2>3
<1> HIDE DEF s
<1>3. At("hook", s, s, final', FALSE)
  BY <1>1, <1>2 DEF At, Resuming, EmptyHanded, AtTool, SameCalls
<1>4. s.waiting => st.active # NoCall
  BY <1>2 DEF Inv, Accounted
<1> QED BY <1>1, <1>2, <1>3, <1>4, TheRestIsTyped, TheWorldIsTyped,
           QuietSaveKeepsInv DEF Places, Stopping

-----------------------------------------------------------------------------
LEMMA HookAllowsKeepsInv == Inv /\ (HookAllows \/ HookExhausted) => Inv'
<1> SUFFICES ASSUME Inv, HookAllows \/ HookExhausted PROVE Inv'
  OBVIOUS
<1>1. /\ pc \in {"hook", "rehook"} /\ verdict' \in Verdicts /\ Conclude("run.done")
      /\ UNCHANGED <<execs, consents, standing>>
  BY DEF HookAllows, HookExhausted, Verdicts
<1>2. ckpt.phase = "completed"
  BY <1>1 DEF Inv, At
<1> QED BY <1>1, <1>2, ConcludeKeepsInv DEF Events

LEMMA HookRefusesKeepsInv == Inv /\ HookRefuses => Inv'
<1> SUFFICES ASSUME Inv, HookRefuses PROVE Inv'
  OBVIOUS
<1> DEFINE s == [st EXCEPT !.phase = "model", !.status = "running",
                           !.pending = <<>>, !.last = "user"]
<1>1. /\ pc \in {"hook", "rehook"} /\ ~done /\ st.active = NoCall /\ st.pending = <<>>
      /\ st' = s /\ pc' \in {"blocked", "loop"}
      /\ lifecycle' \in Events /\ verdict' \in Verdicts
      /\ UNCHANGED <<ckpt, done, execs, consents, standing, cancelled, broker, retries,
                     launches, faults>>
  BY NotDoneThere DEF HookRefuses, Stopping, Inv, At, EmptyHanded, Events, Verdicts
<1>2. s \in RunStates /\ SameCalls(s) /\ s.waiting = st.waiting /\ s.phase = "model"
  BY <1>1 DEF Inv, TypeOK, RunStates, Phases, Statuses, SameCalls
<1> HIDE DEF s
<1>3. final' \in BOOLEAN /\ refusals' \in Nat
  BY DEF HookRefuses, Inv, TypeOK
<1>4. TypeOK'
  BY <1>1, <1>2, <1>3 DEF Inv, TypeOK, Places
<1>5. Accounted(st)' /\ Accounted(ckpt)' /\ Consented(st)' /\ Consented(ckpt)'
  BY <1>1, <1>2 DEF Inv, Accounted, Pending, Consented, SameCalls
<1>6. At(pc, st, ckpt, final, done)' /\ DoneIsStored'
  BY <1>1, <1>2 DEF Inv, DoneIsStored, At, Resuming, EmptyHanded, AtTool, SameCalls
<1>7. LaunchBound' /\ EffectsBacked'
  BY <1>1, <1>2 DEF Inv, LaunchBound, Unspent, Stopping, EffectsBacked, EffectsAreApproved, Backed,
                    SameCalls
<1> QED BY <1>4, <1>5, <1>6, <1>7 DEF Inv

LEMMA HookFailsKeepsInv == Inv /\ HookFails => Inv'
<1> SUFFICES ASSUME Inv, HookFails PROVE Inv'
  OBVIOUS
<1>1. ~done /\ pc \notin Stopping \cup {"record"}
  BY NotDoneThere DEF HookFails, Stopping
<1> QED BY <1>1, ErrorKeepsInv DEF HookFails

LEMMA SaveRefusalKeepsInv == Inv /\ SaveRefusal => Inv'
<1> SUFFICES ASSUME Inv, SaveRefusal PROVE Inv'
  OBVIOUS
<1>1. /\ pc = "blocked" /\ ~done /\ st.active = NoCall /\ st.pending = <<>>
      /\ UNCHANGED <<world, local>>
  BY NotDoneThere DEF SaveRefusal, Stopping, Inv, At, EmptyHanded
<1>2. PICK p \in {"call", "loop"} : Save(st, p)
  BY DEF SaveRefusal
<1>3. At(p, st, st, final', FALSE)
  BY <1>1, <1>2 DEF At, Resuming, EmptyHanded, AtTool
<1>4. /\ st \in RunStates /\ SameCalls(st) /\ (st.waiting => st.active # NoCall)
  BY DEF Inv, TypeOK, Accounted, SameCalls
<1> QED BY <1>1, <1>2, <1>3, <1>4, TheRestIsTyped, TheWorldIsTyped,
           QuietSaveKeepsInv DEF Places, Stopping

-----------------------------------------------------------------------------
\* The first pending call becomes the active one.
LEMMA PopOK ==
  ASSUME NEW s \in RunStates, Accounted(s), s.active = NoCall, s.pending # <<>>,
         NEW t \in RunStates, t.pending = Tail(s.pending), t.active = Head(s.pending),
         t.asked = s.asked, t.answers = s.answers, t.turn = s.turn, t.phase = "tool",
         t.waiting = s.waiting
  PROVE  Accounted(t) /\ t.active # NoCall
<1>1. s.pending \in Seq(CallIds) /\ NoCall \notin CallIds
  BY DEF RunStates, CallIds, NoCall
<1>2. /\ t.active \in CallIds /\ t.active = s.pending[1]
      /\ t.pending \in Seq(CallIds) /\ Len(t.pending) = Len(s.pending) - 1
      /\ \A i \in 1 .. Len(s.pending) - 1 : t.pending[i] = s.pending[i + 1]
  BY <1>1, PopFront
<1>3. /\ Len(s.pending) \in Nat \ {0} /\ DOMAIN s.pending = 1 .. Len(s.pending)
      /\ DOMAIN t.pending = 1 .. Len(s.pending) - 1
  BY <1>1, <1>2, EmptySeq, LenProperties
<1>4. \A i \in DOMAIN t.pending : i + 1 \in DOMAIN s.pending /\ t.pending[i] = s.pending[i + 1]
  BY <1>2, <1>3
<1>5. \A i, j \in DOMAIN t.pending : t.pending[i] = t.pending[j] => i = j
  <2> SUFFICES ASSUME NEW i \in DOMAIN t.pending, NEW j \in DOMAIN t.pending,
                      t.pending[i] = t.pending[j]
               PROVE  i = j
    OBVIOUS
  <2>1. i + 1 = j + 1
    BY <1>4 DEF Accounted
  <2> QED BY <2>1, <1>3
<1>6. t.active \notin Pending(t)
  <2> SUFFICES ASSUME NEW i \in DOMAIN t.pending, t.pending[i] = t.active PROVE FALSE
    BY DEF Pending
  <2>1. s.pending[i + 1] = s.pending[1] /\ 1 \in DOMAIN s.pending
    BY <1>2, <1>3, <1>4
  <2>2. i + 1 = 1
    BY <1>4, <2>1 DEF Accounted
  <2> QED BY <1>3, <2>2
<1>7. Pending(s) = Pending(t) \cup {t.active}
  <2>1. Pending(t) \cup {t.active} \subseteq Pending(s)
    BY <1>2, <1>3, <1>4 DEF Pending
  <2>2. ASSUME NEW i \in DOMAIN s.pending
        PROVE  s.pending[i] = t.active \/ s.pending[i] \in Pending(t)
    <3>1. CASE i = 1
      BY <1>2, <3>1
    <3>2. CASE i # 1
      <4>1. i - 1 \in DOMAIN t.pending /\ (i - 1) + 1 = i
        BY <1>3, <3>2
      <4>2. t.pending[i - 1] = s.pending[i]
        BY <1>4, <4>1
      <4> QED BY <4>1, <4>2 DEF Pending
    <3> QED BY <3>1, <3>2
  <2>3. Pending(s) \subseteq Pending(t) \cup {t.active}
    BY <2>2 DEF Pending
  <2> QED BY <2>1, <2>3
<1>8. s.active \notin CallIds
  BY <1>1
<1> QED BY <1>1, <1>2, <1>5, <1>6, <1>7, <1>8 DEF Accounted

LEMMA PopCallKeepsInv == Inv /\ PopCall => Inv'
<1> SUFFICES ASSUME Inv, PopCall PROVE Inv'
  OBVIOUS
<1> DEFINE s == [st EXCEPT !.pending = Tail(@), !.active = Head(st.pending),
                           !.phase = "tool", !.status = "tool"]
<1>1. /\ pc = "tools" /\ ~done /\ st.active = NoCall /\ st.pending # <<>>
      /\ Save(s, "invoke") /\ UNCHANGED <<world, local>>
  BY NotDoneThere DEF PopCall, Stopping, Inv, At
<1>2. st \in RunStates /\ st.pending \in Seq(CallIds) /\ Accounted(st)
  BY DEF Inv, TypeOK, RunStates
<1>3. Head(st.pending) \in CallIds /\ Tail(st.pending) \in Seq(CallIds)
  BY <1>1, <1>2, PopFront
<1>4. s \in RunStates
  BY <1>2, <1>3 DEF RunStates, Phases, Statuses
<1>5. /\ s.pending = Tail(st.pending) /\ s.active = Head(st.pending) /\ s.asked = st.asked
      /\ s.answers = st.answers /\ s.turn = st.turn /\ s.phase = "tool"
      /\ s.waiting = st.waiting /\ s.approved = st.approved /\ s.granted = st.granted
  BY <1>2 DEF RunStates
<1> HIDE DEF s
<1>6. Accounted(s) /\ s.active # NoCall /\ ~s.waiting
  <2>1. ~st.waiting
    BY <1>1, <1>2 DEF Accounted
  <2> QED BY <1>1, <1>2, <1>4, <1>5, <2>1, PopOK
<1>7. At("invoke", s, s, final', FALSE)
  BY <1>6 DEF At, Resuming, EmptyHanded, AtTool
<1>8. s.approved \subseteq consents' /\ s.granted \subseteq standing'
  BY <1>1, <1>5, TheWorldIsTyped DEF Inv, Consented
<1>9. \A c \in CallIds : s.answers[c] = 0 => Unspent(c)
  BY <1>1, <1>5 DEF Unspent, Stopping
<1> QED BY <1>1, <1>4, <1>6, <1>7, <1>8, <1>9, TheRestIsTyped, TheWorldIsTyped,
           SaveKeepsInv DEF Places

LEMMA ToolsDoneKeepsInv == Inv /\ ToolsDone => Inv'
<1> SUFFICES ASSUME Inv, ToolsDone PROVE Inv'
  OBVIOUS
<1>1. pc = "tools" /\ ~done /\ st.active = NoCall
  BY NotDoneThere DEF ToolsDone, Stopping, Inv, At
<1>2. PICK p \in {"cancel", "loop"} : Goto(p)
  BY DEF ToolsDone
<1>3. At(p, st, ckpt, final, done)
  BY <1>1, <1>2 DEF At, Resuming, EmptyHanded, AtTool
<1> QED BY <1>1, <1>2, <1>3, GotoKeepsInv DEF Places, Stopping

LEMMA ExecuteKeepsInv == Inv /\ Execute => Inv'
<1> SUFFICES ASSUME Inv, Execute PROVE Inv'
  OBVIOUS
<1> DEFINE a == st.active
<1>1. /\ pc \in {"invoke", "execute"} /\ ~done /\ pc' = "record"
      /\ execs' = [execs EXCEPT ![a] = @ + 1]
      /\ UNCHANGED <<durable, consents, standing, verdict, st, local, launches, faults>>
  BY NotDoneThere DEF Execute, Stopping
<1>2. a \in CallIds /\ a # NoCall /\ st.answers[a] = 0
  BY <1>1 DEF Inv, At, AtTool, Accounted, TypeOK, RunStates
<1>3. a \in Gated => Backed(a)
  BY <1>1 DEF Execute, NeedsApproval, Inv, EffectsBacked, Consented, Backed
<1>4. execs[a] \in Nat /\ execs \in [CallIds -> Nat] /\ launches \in Nat
  BY <1>2 DEF Inv, TypeOK
<1> HIDE DEF a
<1>5. TypeOK'
  <2>1. execs' \in [CallIds -> Nat]
    BY <1>1, <1>2, <1>4
  <2> QED BY <1>1, <2>1 DEF Inv, TypeOK, Places, durable, local
<1>6. Accounted(st)' /\ Accounted(ckpt)' /\ Consented(st)' /\ Consented(ckpt)'
  BY <1>1 DEF Inv, Accounted, Pending, Consented, durable
<1>7. At(pc, st, ckpt, final, done)' /\ DoneIsStored'
  BY <1>1, <1>2 DEF Inv, DoneIsStored, At, Resuming, EmptyHanded, AtTool, durable, local, a
<1>8. LaunchBound'
  <2> SUFFICES ASSUME NEW c \in CallIds
               PROVE  (execs[c] <= launches)' /\ (Unspent(c)' => (execs[c] < launches)')
    BY DEF LaunchBound
  <2>1. execs[c] <= launches /\ (Unspent(c) => execs[c] < launches) /\ execs[c] \in Nat
    BY <1>4 DEF Inv, LaunchBound
  <2>2. CASE c = a
    <3>1. Unspent(c)
      BY <1>1, <1>2, <2>2 DEF Unspent, Stopping
    <3>2. ~Unspent(c)'
      BY <1>1, <2>2 DEF Unspent, a
    <3> QED BY <1>1, <1>2, <1>4, <2>1, <2>2, <3>1, <3>2
  <2>3. CASE c # a
    <3>1. Unspent(c)' => Unspent(c)
      BY <1>1 DEF Unspent, Stopping
    <3> QED BY <1>1, <1>4, <2>1, <2>3, <3>1
  <2> QED BY <2>2, <2>3
<1>9. EffectsBacked'
  <2>1. ASSUME NEW c \in Gated, execs'[c] > 0 PROVE Backed(c)
    <3>1. c \in CallIds
      BY GatedAssumption
    <3>2. CASE c = a
      BY <1>3, <3>2
    <3>3. CASE c # a
      BY <1>1, <1>4, <2>1, <3>1, <3>3 DEF Inv, EffectsBacked, EffectsAreApproved, Backed
    <3> QED BY <3>2, <3>3
  <2> QED BY <1>1, <2>1 DEF EffectsBacked, EffectsAreApproved, Backed
<1> QED BY <1>5, <1>6, <1>7, <1>8, <1>9 DEF Inv

\* A checkpoint while a tool call is active, which it stays.
LEMMA ToolSaveKeepsInv ==
  ASSUME Inv, NEW s \in RunStates, NEW next \in Places \ Resuming, Save(s, next),
         next \in AtTool \cup {"record", "cancel"},
         UNCHANGED <<execs, consents, standing>>,
         verdict' \in Verdicts, cancelled' \in BOOLEAN, broker' \in BOOLEAN,
         final' \in BOOLEAN, refusals' \in Nat, retries' \in Nat,
         SameCalls(s), st.active # NoCall, s.phase \in {st.phase, "approval"}, ~done,
         pc \notin Stopping \cup {"record"}, next \in {"execute", "record", "invoke"} => ~s.waiting,
         next = "execute" => Backed(st.active)
  PROVE  Inv'
<1>1. st.phase \notin {"created", "finalizing"}
  BY DEF Inv, Accounted
<1>2. Accounted(s)
  BY <1>1 DEF Inv, Accounted, Pending, SameCalls
<1>3. /\ s.approved \subseteq consents' /\ s.granted \subseteq standing'
      /\ consents' \subseteq CallIds /\ consents \subseteq consents'
      /\ standing' \subseteq Grants /\ standing \subseteq standing'
      /\ next = "execute" => s.active \in consents' \/ standing' \cap GrantsOf(s.active) # {}
  BY DEF Inv, Consented, TypeOK, SameCalls, Backed
<1>4. \A c \in CallIds : s.answers[c] = 0 => Unspent(c)
  BY DEF Unspent, SameCalls
<1>5. At(next, s, s, final', FALSE)
  BY DEF At, Resuming, EmptyHanded, AtTool, SameCalls
<1>6. next # "requeue" /\ next \in Places
  BY DEF Resuming
<1> QED BY <1>2, <1>3, <1>4, <1>5, <1>6, SaveKeepsInv

LEMMA ReuseGrantKeepsInv == Inv /\ ReuseGrant => Inv'
<1> SUFFICES ASSUME Inv, ReuseGrant PROVE Inv'
  OBVIOUS
<1> DEFINE s == [st EXCEPT !.waiting = FALSE]
<1>1. /\ pc = "invoke" /\ ~done /\ st.active # NoCall /\ Reusable(st.active)
      /\ Save(s, "execute") /\ UNCHANGED <<world, local>>
  BY NotDoneThere DEF ReuseGrant, Stopping, Inv, At, AtTool
<1>2. s \in RunStates /\ SameCalls(s) /\ s.phase = st.phase /\ ~s.waiting
  BY DEF Inv, TypeOK, RunStates, SameCalls
<1>3. Backed(st.active)
  BY <1>1 DEF Inv, Consented, Reusable, Backed
<1> HIDE DEF s
<1> QED BY <1>1, <1>2, <1>3, TheRestIsTyped, TheWorldIsTyped, ToolSaveKeepsInv
        DEF Places, Stopping, AtTool, Resuming

LEMMA AskApprovalKeepsInv == Inv /\ AskApproval => Inv'
<1> SUFFICES ASSUME Inv, AskApproval PROVE Inv'
  OBVIOUS
<1> DEFINE s == [st EXCEPT !.waiting = TRUE, !.phase = "approval", !.status = "waiting"]
<1>1. /\ pc = "invoke" /\ ~done /\ st.active # NoCall
      /\ Save(s, "ask") /\ UNCHANGED <<world, local>>
  BY NotDoneThere DEF AskApproval, Stopping, Inv, At, AtTool
<1>2. s \in RunStates /\ SameCalls(s) /\ s.phase = "approval"
  BY DEF Inv, TypeOK, RunStates, Phases, Statuses, SameCalls
<1> HIDE DEF s
<1> QED BY <1>1, <1>2, TheRestIsTyped, TheWorldIsTyped, ToolSaveKeepsInv
        DEF Places, Stopping, AtTool, Resuming

LEMMA PublishRequestKeepsInv == Inv /\ PublishRequest => Inv'
<1> SUFFICES ASSUME Inv, PublishRequest PROVE Inv'
  OBVIOUS
<1>1. pc = "ask" /\ ~done /\ st.active # NoCall /\ ckpt.active = st.active /\ Requested("await")
  BY NotDoneThere DEF PublishRequest, Stopping, Inv, At, AtTool
<1>2. At("await", st, ckpt, final, FALSE)
  BY <1>1 DEF At, Resuming, EmptyHanded, AtTool
<1> QED BY <1>1, <1>2, RequestedKeepsInv DEF Stopping

\* Where an operator's answer is awaited.
LEMMA AwaitFacts ==
  ASSUME Inv, pc \in {"await", "reawait"}
  PROVE  /\ ~done /\ st.active # NoCall /\ st.active \in CallIds
         /\ st.phase \notin {"created", "finalizing"}
         /\ pc = "reawait" => ~final
         /\ st \in RunStates /\ pc \notin Stopping \cup {"record"}
<1>1. ~done /\ pc \notin Stopping \cup {"record"}
  BY NotDoneThere DEF Stopping
<1>2. st.active # NoCall /\ (pc = "reawait" /\ final => st.phase = "finalizing")
  BY DEF Inv, At, AtTool, Resuming
<1>3. st \in RunStates /\ st.phase \notin {"created", "finalizing"}
  BY <1>2 DEF Inv, TypeOK, Accounted
<1> QED BY <1>1, <1>2, <1>3 DEF RunStates

LEMMA ApproveKeepsInv ==
  ASSUME NEW given, given \subseteq Grants, Inv, Approve(given)
  PROVE  Inv'
<1> DEFINE s == [st EXCEPT !.waiting = FALSE, !.status = "running",
                           !.granted = @ \cup given]
           next == IF pc = "await" THEN "execute" ELSE "requeue"
<1>1. /\ pc \in {"await", "reawait"} /\ Save(s, next)
      /\ consents' = consents \cup {st.active} /\ standing' = standing \cup given
      /\ execs' = execs /\ verdict' = verdict /\ UNCHANGED local
  BY DEF Approve
<1>2. /\ ~done /\ st.active # NoCall /\ st.active \in CallIds
      /\ st.phase \notin {"created", "finalizing"} /\ (pc = "reawait" => ~final)
      /\ st \in RunStates /\ pc \notin Stopping \cup {"record"}
  BY <1>1, AwaitFacts
<1>3. st.granted \cup given \subseteq Grants
  BY <1>2 DEF RunStates
<1>4. s \in RunStates
  BY <1>2, <1>3 DEF RunStates, Statuses
<1>5. /\ s.pending = st.pending /\ s.active = st.active /\ s.asked = st.asked /\ s.turn = st.turn
      /\ s.answers = st.answers /\ s.approved = st.approved /\ s.phase = st.phase
      /\ s.waiting = FALSE /\ s.granted = st.granted \cup given
  BY <1>2 DEF RunStates
<1>6. next \in {"execute", "requeue"} /\ (next = "requeue" => pc = "reawait")
  BY <1>1
<1> HIDE DEF s, next
<1>7. Accounted(s)
  BY <1>2, <1>5 DEF Inv, Accounted, Pending
<1>8. At(next, s, s, final', FALSE)
  BY <1>1, <1>2, <1>5, <1>6, TheRestIsTyped DEF At, Resuming, EmptyHanded, AtTool
<1>9. consents \subseteq CallIds /\ st.approved \subseteq consents /\ st.granted \subseteq standing
  BY DEF Inv, TypeOK, Consented
<1>10. /\ s.approved \subseteq consents' /\ consents' \subseteq CallIds
       /\ consents \subseteq consents' /\ s.active \in consents'
  BY <1>1, <1>2, <1>5, <1>9
<1>11. standing \subseteq standing' /\ standing' \subseteq Grants
  BY <1>1 DEF Inv, TypeOK
<1>12. s.granted \subseteq standing'
  BY <1>1, <1>5, <1>9
<1>13. \A c \in CallIds : s.answers[c] = 0 => Unspent(c)
  BY <1>2, <1>5 DEF Unspent
<1>14. verdict' \in Verdicts
  BY <1>1 DEF Inv, TypeOK
<1> QED BY <1>1, <1>2, <1>4, <1>6, <1>7, <1>8, <1>10, <1>11, <1>12, <1>13, <1>14,
           TheRestIsTyped, SaveKeepsInv DEF Places

LEMMA RequeueApprovedKeepsInv == Inv /\ RequeueApproved => Inv'
<1> SUFFICES ASSUME Inv, RequeueApproved PROVE Inv'
  OBVIOUS
<1> DEFINE s == [st EXCEPT !.pending = <<st.active>> \o @, !.active = NoCall,
                           !.approved = @ \cup {st.active}, !.status = "running"]
<1>1. /\ pc = "requeue" /\ ~done /\ st.active # NoCall /\ ~st.waiting
      /\ Save(s, "resume") /\ UNCHANGED <<world, local>>
      /\ final => st.phase = "finalizing"
  BY NotDoneThere DEF RequeueApproved, Stopping, Inv, At, Resuming
<1>2. st \in RunStates /\ Accounted(st) /\ st.active \in CallIds /\ st.pending \in Seq(CallIds)
  BY <1>1 DEF Inv, TypeOK, RunStates

<1>3. s \in RunStates
  <2>1. <<st.active>> \o st.pending \in Seq(CallIds)
    BY <1>2, PushFront
  <2> QED BY <1>2, <2>1 DEF RunStates, Statuses
<1>4. /\ s.pending = <<st.active>> \o st.pending /\ s.active = NoCall /\ s.asked = st.asked
      /\ s.turn = st.turn /\ s.answers = st.answers /\ s.phase = st.phase
      /\ s.waiting = st.waiting /\ s.granted = st.granted
      /\ s.approved = st.approved \cup {st.active}
  BY <1>2 DEF RunStates
<1> HIDE DEF s
<1>5. Accounted(s)
  BY <1>1, <1>2, <1>3, <1>4, PutBack
<1>6. At("resume", s, s, final', FALSE)
  BY <1>1, <1>4, TheRestIsTyped DEF At, Resuming, EmptyHanded, AtTool
<1>7. st.active \in consents
  BY <1>1 DEF Inv, EffectsBacked
<1>8. s.approved \subseteq consents' /\ s.granted \subseteq standing'
  BY <1>1, <1>4, <1>7, TheWorldIsTyped DEF Inv, Consented
<1>9. \A c \in CallIds : s.answers[c] = 0 => Unspent(c)
  BY <1>1, <1>4 DEF Unspent, Stopping
<1> QED BY <1>1, <1>3, <1>5, <1>6, <1>8, <1>9, TheRestIsTyped, TheWorldIsTyped,
           SaveKeepsInv DEF Places

LEMMA ResolvedKeepsInv ==
  ASSUME Inv, pc \in {"await", "reawait"}, NEW next \in {"record", "rerecord", "cancel"},
         Resolved(next), next = "rerecord" => pc = "reawait"
  PROVE  Inv'
<1> DEFINE s == [st EXCEPT !.waiting = FALSE, !.status = "running"]
<1>1. /\ ~done /\ st.active # NoCall /\ st.phase \notin {"created", "finalizing"}
      /\ (pc = "reawait" => ~final) /\ st \in RunStates /\ pc \notin Stopping \cup {"record"}
  BY AwaitFacts
<1>2. Save(s, next) /\ UNCHANGED <<world, local>>
  BY DEF Resolved
<1>3. s \in RunStates /\ SameCalls(s) /\ s.phase = st.phase /\ ~s.waiting
  BY <1>1 DEF RunStates, Statuses, SameCalls
<1> HIDE DEF s
<1>4. Accounted(s)
  BY <1>1, <1>3 DEF Inv, Accounted, Pending, SameCalls
<1>5. At(next, s, s, final', FALSE)
  BY <1>1, <1>2, <1>3, TheRestIsTyped DEF At, Resuming, EmptyHanded, AtTool, SameCalls
<1>6. s.approved \subseteq consents' /\ s.granted \subseteq standing'
  BY <1>2, <1>3, TheWorldIsTyped DEF Inv, Consented, SameCalls
<1>7. \A c \in CallIds : s.answers[c] = 0 => Unspent(c)
  BY <1>1, <1>3 DEF Unspent, SameCalls
<1> QED BY <1>1, <1>2, <1>3, <1>4, <1>5, <1>6, <1>7, TheRestIsTyped, TheWorldIsTyped,
           SaveKeepsInv DEF Places

LEMMA RejectAbortKeepsInv == Inv /\ (Reject \/ Abort) => Inv'
<1> SUFFICES ASSUME Inv, Reject \/ Abort PROVE Inv'
  OBVIOUS
<1>1. pc \in {"await", "reawait"}
  BY DEF Reject, Abort
<1>2. PICK p \in {"record", "rerecord", "cancel"} : Resolved(p) /\ (p = "rerecord" => pc = "reawait")
  BY DEF Reject, Abort
<1> QED BY <1>1, <1>2, ResolvedKeepsInv

LEMMA BrokerFailsKeepsInv == Inv /\ BrokerFails => Inv'
<1> SUFFICES ASSUME Inv, BrokerFails PROVE Inv'
  OBVIOUS
<1>1. ~done /\ pc \notin Stopping \cup {"record"}
  BY AwaitFacts DEF BrokerFails
<1> QED BY <1>1, ErrorKeepsInv DEF BrokerFails

\* The active call's one result.
LEMMA RecordKeepsInv == Inv /\ Record => Inv'
<1> SUFFICES ASSUME Inv, Record PROVE Inv'
  OBVIOUS
<1> DEFINE s == [st EXCEPT !.active = NoCall, !.answers[st.active] = @ + 1,
                           !.last = "tool", !.status = "running"]
           next == IF pc = "record" THEN "tools" ELSE "resume"
<1>1. /\ pc \in {"record", "rerecord"} /\ ~done /\ st.active # NoCall
      /\ Save(s, next) /\ UNCHANGED <<world, local>>
      /\ pc = "rerecord" /\ final => st.phase = "finalizing"
  BY NotDoneThere DEF Record, Stopping, Inv, At, Resuming
<1>2. st \in RunStates /\ Accounted(st) /\ st.active \in CallIds
      /\ st.answers \in [CallIds -> Nat] /\ st.answers[st.active] = 0
      /\ st.phase \notin {"created", "finalizing"}
  BY <1>1 DEF Inv, TypeOK, RunStates, Accounted
<1>3. [st.answers EXCEPT ![st.active] = @ + 1] \in [CallIds -> Nat]
  BY <1>2
<1>4. s \in RunStates
  BY <1>2, <1>3 DEF RunStates, Statuses
<1>5. /\ s.pending = st.pending /\ s.active = NoCall /\ s.asked = st.asked /\ s.turn = st.turn
      /\ s.answers = [st.answers EXCEPT ![st.active] = @ + 1] /\ s.phase = st.phase
      /\ s.waiting = st.waiting /\ s.granted = st.granted /\ s.approved = st.approved
  BY <1>2 DEF RunStates
<1>6. next \in {"tools", "resume"} /\ (next = "resume" => pc = "rerecord")
  BY <1>1
<1> HIDE DEF s, next
<1>7. \A c \in CallIds : s.answers[c] = IF c = st.active THEN 1 ELSE st.answers[c]
  BY <1>2, <1>5
<1>8. ~st.waiting
  BY <1>1 DEF Inv, At
<1>9. Accounted(s)
  <2>1. Pending(s) = Pending(st) /\ st.active \notin Pending(st) /\ NoCall \notin Pending(st)
    <3>1. \A i \in DOMAIN st.pending : st.pending[i] \in CallIds
      BY <1>2, ElementOfSeq, LenProperties DEF RunStates
    <3> QED BY <1>2, <1>5, <3>1 DEF Pending, Accounted, CallIds, NoCall
  <2>2. NoCall \notin CallIds
    BY DEF CallIds, NoCall
  <2>3. \A c \in CallIds : s.answers[c] =
          IF c \in s.asked /\ c \notin Pending(s) /\ c # s.active THEN 1 ELSE 0
    BY <1>2, <1>5, <1>7, <2>1, <2>2 DEF Accounted
  <2> QED BY <1>2, <1>5, <1>8, <2>1, <2>3 DEF Accounted
<1>10. At(next, s, s, final', FALSE)
  BY <1>1, <1>2, <1>5, <1>6, TheRestIsTyped DEF At, Resuming, EmptyHanded, AtTool
<1>11. s.approved \subseteq consents' /\ s.granted \subseteq standing'
  BY <1>1, <1>5, TheWorldIsTyped DEF Inv, Consented
<1>12. \A c \in CallIds : s.answers[c] = 0 => Unspent(c)
  BY <1>1, <1>7 DEF Unspent, Stopping
<1> QED BY <1>1, <1>4, <1>6, <1>9, <1>10, <1>11, <1>12, TheRestIsTyped, TheWorldIsTyped,
           SaveKeepsInv DEF Places

-----------------------------------------------------------------------------
\* How a run fails or is cancelled, and what the environment does.
LEMMA FinishKeepsInv ==
  ASSUME Inv, NEW outcome \in {"failed", "cancelled"}, NEW at \in {"fail", "cancel"},
         outcome = "failed" <=> at = "fail", Finish(outcome, at, "report")
  PROVE  Inv'
<1> DEFINE s == [st EXCEPT !.phase = outcome, !.status = outcome]
<1>1. pc = at /\ UNCHANGED world /\ (done => outcome = "cancelled")
  BY DEF Finish, Inv, At
<1>2. s \in RunStates /\ SameCalls(s) /\ s.waiting = st.waiting /\ s.phase = outcome
  <2>1. outcome \in Phases \cup {"none"} /\ outcome \in Statuses
    BY DEF Phases, Terminal, Statuses
  <2>2. st \in RunStates
    BY DEF Inv, TypeOK
  <2> QED BY <2>1, <2>2 DEF RunStates, SameCalls
<1>3. \/ /\ ckpt' = s /\ st' = s /\ pc' = "report"
         /\ UNCHANGED <<lifecycle, done, local, launches, faults>>
      \/ /\ faults' = faults + 1 /\ ckpt' \in {ckpt, s} /\ lifecycle' = "run.error"
         /\ Exit /\ UNCHANGED <<done, launches>>
  BY DEF Finish
<1> HIDE DEF s
<1>4. Accounted(s) /\ Consented(s)
  BY <1>2 DEF Inv, Accounted, Pending, Consented, SameCalls
<1>5. CASE /\ ckpt' = s /\ st' = s /\ pc' = "report"
           /\ UNCHANGED <<lifecycle, done, local, launches, faults>>
  <2>1. TypeOK'
    BY <1>1, <1>2, <1>5 DEF Inv, TypeOK, Places, world, local
  <2>2. Accounted(st)' /\ Accounted(ckpt)'
    BY <1>4, <1>5 DEF Accounted, Pending
  <2>3. Consented(st)' /\ Consented(ckpt)'
    BY <1>1, <1>4, <1>5 DEF Consented, world
  <2>4. At(pc, st, ckpt, final, done)' /\ DoneIsStored'
    BY <1>1, <1>2, <1>5 DEF At, Resuming, EmptyHanded, AtTool, DoneIsStored
  <2>5. LaunchBound' /\ EffectsBacked'
    BY <1>1, <1>5 DEF Inv, LaunchBound, Unspent, Stopping, EffectsBacked, EffectsAreApproved, Backed, world
  <2> QED BY <2>1, <2>2, <2>3, <2>4, <2>5 DEF Inv
<1>6. CASE /\ faults' = faults + 1 /\ ckpt' \in {ckpt, s} /\ lifecycle' = "run.error"
           /\ Exit /\ UNCHANGED <<done, launches>>
  <2>1. /\ ckpt' \in RunStates /\ Accounted(ckpt') /\ Consented(ckpt')
        /\ lifecycle' \in Events /\ done' \in BOOLEAN /\ verdict' \in Verdicts /\ faults' \in Nat
        /\ UNCHANGED <<execs, consents, standing, launches>>
    BY <1>1, <1>2, <1>4, <1>6 DEF Inv, TypeOK, Events, world
  <2>2. done' => ckpt'.phase \in {"completed", "cancelled"}
    BY <1>1, <1>2, <1>6 DEF Inv, DoneIsStored
  <2> QED BY <1>6, <2>1, <2>2, ExitKeepsInv
<1> QED BY <1>3, <1>5, <1>6

LEMMA FailCancelKeepsInv == Inv /\ (FailRun \/ CancelRun) => Inv'
BY FinishKeepsInv DEF FailRun, CancelRun

LEMMA ReportKeepsInv == Inv /\ Report => Inv'
<1> SUFFICES ASSUME Inv, Report PROVE Inv'
  OBVIOUS
<1>1. st.phase \in {"failed", "cancelled"}
  BY DEF Report, Inv, At
<1>2. TerminalEvent(st.phase) \in Events /\ TerminalEvent(st.phase) # "run.done"
  BY <1>1 DEF TerminalEvent, Events
<1>3. verdict' \in Verdicts /\ UNCHANGED <<execs, consents, standing>>
  BY TheWorldIsTyped DEF Report
<1> QED BY <1>2, <1>3, ConcludeKeepsInv DEF Report

LEMMA CancelKeepsInv == Inv /\ Cancel => Inv'
<1> SUFFICES ASSUME Inv, Cancel PROVE Inv'
  OBVIOUS
<1>1. /\ cancelled' = TRUE
      /\ UNCHANGED <<durable, world, st, pc, broker, final, refusals, retries, launches, faults>>
  BY DEF Cancel
<1>2. TypeOK'
  BY <1>1 DEF Inv, TypeOK, durable, world
<1>3. Accounted(st)' /\ Accounted(ckpt)' /\ Consented(st)' /\ Consented(ckpt)'
  BY <1>1 DEF Inv, Accounted, Pending, Consented, durable, world
<1>4. At(pc, st, ckpt, final, done)' /\ DoneIsStored'
  BY <1>1 DEF Inv, At, Superseded, DoneIsStored, durable
<1>5. LaunchBound' /\ EffectsBacked'
  BY <1>1 DEF Inv, LaunchBound, Unspent, EffectsBacked, EffectsAreApproved, Backed, world
<1> QED BY <1>2, <1>3, <1>4, <1>5 DEF Inv

LEMMA CrashKeepsInv == Inv /\ Crash => Inv'
<1> SUFFICES ASSUME Inv, Crash PROVE Inv'
  OBVIOUS
<1>1. Exit /\ UNCHANGED <<durable, world, launches, faults>>
  BY DEF Crash
<1>2. UNCHANGED <<ckpt, lifecycle, done, execs, consents, standing, verdict, launches, faults>>
  BY <1>1 DEF durable, world
<1>3. /\ ckpt' \in RunStates /\ Accounted(ckpt') /\ Consented(ckpt')
  BY <1>2 DEF Inv, TypeOK
<1>4. /\ lifecycle' \in Events /\ done' \in BOOLEAN /\ verdict' \in Verdicts /\ faults' \in Nat
      /\ done' => ckpt'.phase \in {"completed", "cancelled"}
  BY <1>2 DEF Inv, TypeOK, DoneIsStored
<1> QED BY <1>1, <1>2, <1>3, <1>4, ExitKeepsInv

-----------------------------------------------------------------------------
LEMMA InitInv == Init => Inv
<1> SUFFICES ASSUME Init PROVE Inv
  OBVIOUS
<1>1. TypeOK
  <2>1. [c \in CallIds |-> 0] \in [CallIds -> Nat]
    OBVIOUS
  <2> QED BY <2>1, FreshStateKept DEF Init, TypeOK, Events, Verdicts, Places
<1>2. Accounted(st) /\ Accounted(ckpt) /\ Consented(st) /\ Consented(ckpt)
  BY FreshStateKept DEF Init, Consented, FreshState, NoCheckpoint
<1>3. At(pc, st, ckpt, final, done) /\ DoneIsStored
  BY DEF Init, At, DoneIsStored, Resuming, EmptyHanded, AtTool
<1>4. LaunchBound /\ EffectsBacked
  BY GatedAssumption DEF Init, LaunchBound, Unspent, Stopping, EffectsBacked, EffectsAreApproved, Backed
<1> QED BY <1>1, <1>2, <1>3, <1>4 DEF Inv

LEMMA NextInv == Inv /\ [Next]_vars => Inv'
<1> SUFFICES ASSUME Inv, [Next]_vars PROVE Inv'
  OBVIOUS
<1>1. CASE Launch \/ Enter
  BY <1>1, LaunchKeepsInv, EnterKeepsInv
<1>2. CASE Resume
  BY <1>2, ResumeTerminalKeepsInv, ResumeWaitingKeepsInv, RequeueKeepsInv,
     SettleAttemptKeepsInv, ResumeAnswerKeepsInv, ResumeLoopKeepsInv DEF Resume
<1>3. CASE Loop \/ Model
  BY <1>3, LoopKeepsInv, BeginStepKeepsInv, BeginFinalTurnKeepsInv, StartAttemptKeepsInv,
     ChunkKeepsInv, ModelAnswersKeepsInv, ModelFailsKeepsInv, CancelledBackoffKeepsInv,
     CompleteKeepsInv DEF Model
<1>4. CASE Hook
  BY <1>4, HookAllowsKeepsInv, HookRefusesKeepsInv, HookFailsKeepsInv, SaveRefusalKeepsInv
  DEF Hook
<1>5. CASE Tool
  BY <1>5, PopCallKeepsInv, ToolsDoneKeepsInv, ExecuteKeepsInv, ReuseGrantKeepsInv,
     RecordKeepsInv DEF Tool
<1>6. CASE Approval \/ Reject \/ Abort \/ BrokerFails
  BY <1>6, AskApprovalKeepsInv, PublishRequestKeepsInv, RequeueApprovedKeepsInv,
     RejectAbortKeepsInv, BrokerFailsKeepsInv DEF Approval
<1>10. CASE Approve({}) \/ \E scope \in Scopes : Approve({Grant(st.active, scope)})
  <2>1. st.active \in CallIds
    BY <1>10, AwaitFacts DEF Approve
  <2>2. ASSUME NEW scope \in Scopes PROVE {Grant(st.active, scope)} \subseteq Grants
    BY <2>1 DEF Grants, GrantsOf
  <2> QED BY <1>10, <2>2, ApproveKeepsInv
<1>7. CASE FailRun \/ CancelRun \/ Report
  BY <1>7, FailCancelKeepsInv, ReportKeepsInv
<1>8. CASE Cancel \/ Crash
  BY <1>8, CancelKeepsInv, CrashKeepsInv
<1>9. CASE UNCHANGED vars
  BY <1>9 DEF vars, Inv, TypeOK, Accounted, Pending, Consented, At, Superseded, DoneIsStored,
              LaunchBound, Unspent, EffectsBacked, EffectsAreApproved, Backed
<1> QED BY <1>1, <1>2, <1>3, <1>4, <1>5, <1>6, <1>7, <1>8, <1>9, <1>10 DEF Next, Driven, Operator

\* Inv is an invariant of every run.
THEOREM Invariance == Spec => []Inv
BY InitInv, NextInv, PTL DEF Spec

\* The durable state and the loop's variables keep their shape, for any bounds.
THEOREM TypeCorrect == Spec => []TypeOK
<1>1. Inv => TypeOK
  BY DEF Inv
<1> QED BY <1>1, Invariance, PTL

\* Every model request carries one result for each call asked for before it,
\* however often the run crashed, was resumed or waited for an operator.
THEOREM TranscriptAnswered == Spec => []TranscriptIsAnswered
<1>1. Inv => TranscriptIsAnswered
  <2> SUFFICES ASSUME Inv, pc = "stream", NEW c \in CallIds
               PROVE  st.answers[c] = (IF c \in st.asked THEN 1 ELSE 0)
    BY DEF TranscriptIsAnswered
  <2>1. st.pending = <<>> /\ st.active = NoCall /\ NoCall \notin CallIds
    BY DEF Inv, At, EmptyHanded, CallIds, NoCall
  <2>2. Pending(st) = {}
    BY <2>1 DEF Pending
  <2> QED BY <2>1, <2>2 DEF Inv, Accounted
<1> QED BY <1>1, Invariance, PTL

\* No launch lets a call loose twice, and a call whose result is stored is
\* never let loose again.
THEOREM InvokedOnce == Spec => []InvokedOncePerLaunch
<1>1. Inv => InvokedOncePerLaunch
  <2> SUFFICES ASSUME Inv, NEW c \in CallIds
               PROVE  /\ execs[c] <= launches
                      /\ ckpt.answers[c] > 0 =>
                           c # ckpt.active /\ c \notin Pending(ckpt)
    BY DEF InvokedOncePerLaunch, Pending
  <2> QED BY DEF Inv, LaunchBound, Accounted
<1> QED BY <1>1, Invariance, PTL

\* A gated tool acts only with an operator's approval.
THEOREM EffectsApproved == Spec => []EffectsAreApproved
<1>1. Inv => EffectsAreApproved
  BY DEF Inv, EffectsBacked
<1> QED BY <1>1, Invariance, PTL

\* A run.done in the log is backed by a stored outcome.
THEOREM DoneStored == Spec => []DoneIsStored
<1>1. Inv => DoneIsStored
  BY DEF Inv
<1> QED BY <1>1, Invariance, PTL

LEMMA OnlyExecuteActs == Next /\ ~Execute => execs' = execs
<1> SUFFICES ASSUME Next, ~Execute PROVE execs' = execs
  OBVIOUS
<1>1. CASE Launch \/ Enter \/ Resume \/ Loop
  BY <1>1 DEF Launch, Enter, Resume, Loop, ResumeTerminal, ResumeWaiting, Requested, Requeue,
              SettleAttempt, ResumeAnswer, ResumeLoop, Goto, world
<1>2. CASE Model \/ Hook
  BY <1>2 DEF Model, Hook, BeginStep, BeginFinalTurn, StartAttempt, Chunk, ModelAnswers,
              ModelFails, CancelledBackoff, Complete, HookAllows, HookRefuses, HookExhausted,
              HookFails, SaveRefusal, Goto, world
<1>3. CASE Tool
  BY <1>3 DEF Tool, PopCall, ToolsDone, ReuseGrant, Record, Goto, world
<1>4. CASE Approval \/ Operator \/ (cancelled /\ BrokerFails)
  BY <1>4 DEF Approval, Operator, AskApproval, PublishRequest, Requested, RequeueApproved,
              Approve, Reject, Abort, Resolved, BrokerFails, Goto, world
<1>5. CASE FailRun \/ CancelRun \/ Report \/ Cancel \/ Crash
  BY <1>5 DEF FailRun, CancelRun, Finish, Report, Cancel, Crash, world
<1> QED BY <1>1, <1>2, <1>3, <1>4, <1>5 DEF Next, Driven

\* A tool is let loose only once the checkpoint names its call as active and
\* holds no result for it.
THEOREM WrittenAhead == Spec => ToolsAreWrittenAhead
<1>1. Inv /\ [Next]_vars =>
        [\A c \in CallIds : execs'[c] # execs[c] => ckpt.active = c /\ ckpt.answers[c] = 0]_vars
  <2> SUFFICES ASSUME Inv, Next, NEW c \in CallIds, execs'[c] # execs[c]
               PROVE  ckpt.active = c /\ ckpt.answers[c] = 0
    BY DEF vars
  <2>1. Execute
    BY OnlyExecuteActs
  <2>2. ckpt.active = st.active /\ st.active # NoCall
    BY <2>1 DEF Execute, Inv, At, AtTool
  <2>3. c = st.active
    BY <2>1 DEF Execute, Inv, TypeOK
  <2> QED BY <2>2, <2>3 DEF Inv, Accounted
<1> QED BY <1>1, Invariance, PTL DEF Spec, ToolsAreWrittenAhead

=============================================================================
