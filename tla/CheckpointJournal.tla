-------------------------- MODULE CheckpointJournal --------------------------
(***************************************************************************)
(* The file checkpoint store (checkpoint/jsonl/store.go): the directory of *)
(* one run, used by several processes under one lock.  A Save first makes  *)
(* its intent durable (.pending.json), then appends a line to              *)
(* checkpoints.jsonl, replaces latest.json and removes the intent; every   *)
(* later access completes an intent it finds before doing anything else.   *)
(* A step may fail, a process may die between two steps or in the middle   *)
(* of a write, and the power may fail, which keeps of every file and name  *)
(* any version since its last sync.                                        *)
(***************************************************************************)
EXTENDS Checkpoints, FiniteSets

CONSTANTS MaxFaults,       \* bound on failing steps and deaths
          MaxPowerLosses,  \* bound on power failures
          MaxDeletes       \* bound on calls of Delete

ASSUME JournalAssumption ==
  /\ MaxSeq \in Nat /\ MaxFaults \in Nat /\ MaxPowerLosses \in Nat /\ MaxDeletes \in Nat
  /\ "nobody" \notin Procs

VARIABLES history,  \* checkpoints.jsonl, line by line
          latest,   \* latest.json
          pending,  \* .pending.json
          risk,     \* what a power failure can leave of each of the three
          lock,     \* who holds the mutex and the file lock of the root
          pc,       \* where each process is in its call
          request,  \* what it was called for
          txn,      \* the pending save it is completing, or has repaired
          repairing, \* who is completing a save found on disk, not its own
          reply,    \* the last answer of the store
          known,    \* the checkpoints a Save or a Load has reported stored
          cut,      \* a Delete has removed some files and not all
          spent     \* faults, power failures and deletes so far

disk == <<history, latest, pending, risk, cut>>
local == <<request, txn, repairing>>
vars == <<disk, lock, pc, local, reply, known, spent>>

Nobody == "nobody"
NoIntent == [cp |-> NotFound, offset |-> 0]
Intents == [cp : Checkpoints, offset : Nat]

\* What a write that was cut short leaves, and all that is appended behind it.
Torn == [seq |-> 0, content |-> "torn"]

Places == {"idle", "recover", "apply", "write", "flush", "latest", "synclatest", "unlink",
           "syncunlink", "check", "intent", "syncintent", "read", "delete"}

Init ==
  /\ history = <<>> /\ latest = NotFound /\ pending = NoIntent
  /\ risk = [history |-> {<<>>}, latest |-> {NotFound}, pending |-> {NoIntent}]
  /\ lock = Nobody /\ pc = [p \in Procs |-> "idle"]
  /\ request = [p \in Procs |-> NoRequest] /\ txn = [p \in Procs |-> NoIntent]
  /\ repairing = {} /\ reply = NoReply /\ known = {} /\ cut = FALSE
  /\ spent = [faults |-> 0, power |-> 0, deletes |-> 0]

-----------------------------------------------------------------------------
\* Control.

At(p, place) == pc[p] = place
Goto(p, place) == pc' = [pc EXCEPT ![p] = place] /\ UNCHANGED <<lock, reply, known>>

\* The end of a call, and what its caller now knows to be stored.
Leave(p) ==
  /\ pc' = [pc EXCEPT ![p] = "idle"] /\ lock' = IF lock = p THEN Nobody ELSE lock
  /\ request' = [request EXCEPT ![p] = NoRequest] /\ txn' = [txn EXCEPT ![p] = NoIntent]
  /\ repairing' = repairing \ {p}

Answer(p, kind, cp) ==
  /\ Leave(p)
  /\ reply' = [to |-> p, kind |-> kind, cp |-> cp]
  /\ known' = IF request[p].op = "load" /\ request[p].seq > 0 THEN known
              ELSE known \cup ({cp} \ {NotFound})

\* Replacing a name in the directory, and making all its names durable.  A
\* history file that is empty holds nothing but its name.
RiskLatest(cp) == risk' = [risk EXCEPT !.latest = @ \cup {cp}]
RiskPending(intent) == risk' = [risk EXCEPT !.pending = @ \cup {intent}]
RiskHistory(files) == risk' = [risk EXCEPT !.history = @ \cup files]
SyncDir ==
  risk' = [history |-> IF history = <<>> THEN {<<>>} ELSE risk.history,
           latest |-> {latest}, pending |-> {pending}]

-----------------------------------------------------------------------------
\* Mutant: nobody waits for the lock.
EnterUnlocked(p) ==
  /\ lock' = p
  /\ \E r \in Requests :
       /\ r.op = "save"
       /\ request' = [request EXCEPT ![p] = r] /\ pc' = [pc EXCEPT ![p] = "recover"]
  /\ pc[p] = "idle" /\ UNCHANGED <<disk, txn, repairing, reply, known, spent>>

\* A call takes the lock.  A Delete repairs nothing before it removes.
Enter(p) ==
  /\ lock = Nobody /\ lock' = p
  /\ \E r \in Requests :
       /\ r.op = "delete" => spent.deletes < MaxDeletes
       /\ request' = [request EXCEPT ![p] = r]
       /\ pc' = [pc EXCEPT ![p] = IF r.op = "delete" THEN "delete" ELSE "recover"]
       /\ spent' = IF r.op = "delete" THEN [spent EXCEPT !.deletes = @ + 1] ELSE spent
  /\ UNCHANGED <<disk, txn, repairing, reply, known>>

\* What follows the repair.
Onward(p) == IF request[p].op = "save" THEN "check" ELSE "read"

\* Mutant: only a Save repairs.
RecoverForSave(p) ==
  /\ At(p, "recover")
  /\ LET due == pending # NoIntent /\ request[p].op = "save"
     IN  /\ txn' = [txn EXCEPT ![p] = IF due THEN pending ELSE NoIntent]
         /\ repairing' = IF due THEN repairing \cup {p} ELSE repairing
         /\ Goto(p, IF due THEN "apply" ELSE Onward(p))
  /\ UNCHANGED <<disk, request, spent>>

\* recoverPending: txn stays NoIntent when there is nothing to repair.
Recover(p) ==
  /\ At(p, "recover")
  /\ txn' = [txn EXCEPT ![p] = pending]
  /\ repairing' = IF pending = NoIntent THEN repairing ELSE repairing \cup {p}
  /\ Goto(p, IF pending = NoIntent THEN Onward(p) ELSE "apply")
  /\ UNCHANGED <<disk, request, spent>>

\* finishPending.  The line may be there already; whatever else follows the
\* offset is cut off and written again.
HasLine(intent) ==
  Len(history) = intent.offset + 1 /\ history[intent.offset + 1] = intent.cp

\* Mutant: what follows the offset is kept.
KeptWhole(p) == history

Kept(p) == SubSeq(history, 1, txn[p].offset)

Shrunk(p) ==
  /\ At(p, "apply") /\ Len(history) < txn[p].offset
  /\ Answer(p, "error", NotFound) /\ UNCHANGED <<disk, spent>>

\* Mutant: a line that is there stands for a save that is complete.
SkipLineAndLatest(p) ==
  /\ At(p, "apply") /\ HasLine(txn[p])
  /\ Goto(p, "unlink") /\ UNCHANGED <<disk, local, spent>>

SkipLine(p) ==
  /\ At(p, "apply") /\ HasLine(txn[p])
  /\ Goto(p, "flush") /\ UNCHANGED <<disk, local, spent>>

Truncate(p) ==
  /\ At(p, "apply") /\ Len(history) >= txn[p].offset /\ ~HasLine(txn[p])
  /\ history' = Kept(p) /\ RiskHistory({Kept(p), Append(Kept(p), Torn)})
  /\ Goto(p, "write") /\ UNCHANGED <<latest, pending, cut, local, spent>>

WriteLine(p) ==
  /\ At(p, "write")
  /\ history' = Append(history, txn[p].cp)
  /\ RiskHistory({history'})
  /\ Goto(p, "flush") /\ UNCHANGED <<latest, pending, cut, local, spent>>

\* Mutant: the history is not synced.
FlushNothing(p) ==
  /\ At(p, "flush") /\ Goto(p, "latest") /\ UNCHANGED <<disk, local, spent>>

Flush(p) ==
  /\ At(p, "flush")
  /\ risk' = [risk EXCEPT !.history = {history}]
  /\ Goto(p, "latest") /\ UNCHANGED <<history, latest, pending, cut, local, spent>>

ReplaceLatest(p) ==
  /\ At(p, "latest")
  /\ latest' = txn[p].cp /\ RiskLatest(txn[p].cp)
  /\ Goto(p, "synclatest") /\ UNCHANGED <<history, pending, cut, local, spent>>

SyncLatest(p) ==
  /\ At(p, "synclatest") /\ SyncDir
  /\ Goto(p, "unlink") /\ UNCHANGED <<history, latest, pending, cut, local, spent>>

RemovePending(p) ==
  /\ At(p, "unlink")
  /\ pending' = NoIntent /\ RiskPending(NoIntent)
  /\ Goto(p, "syncunlink") /\ UNCHANGED <<history, latest, cut, local, spent>>

\* The last sync ends the repair before a call, or the caller's own Save.
Repaired(p) ==
  /\ At(p, "syncunlink") /\ p \in repairing /\ SyncDir
  /\ repairing' = repairing \ {p} /\ Goto(p, Onward(p))
  /\ UNCHANGED <<history, latest, pending, cut, request, txn, spent>>

Saved(p) ==
  /\ At(p, "syncunlink") /\ p \notin repairing /\ SyncDir
  /\ Answer(p, "saved", request[p].cp) /\ UNCHANGED <<history, latest, pending, cut, spent>>

-----------------------------------------------------------------------------
\* Mutant: a retry is told by its number alone.
RetriedBySeq(p) ==
  /\ At(p, "check") /\ txn[p].cp.seq = request[p].cp.seq
  /\ Answer(p, "saved", request[p].cp) /\ UNCHANGED <<disk, spent>>

\* Save after the repair: a retry of what was just repaired is done, a number
\* that does not increase is refused, anything else declares its intent.
Retried(p) ==
  /\ At(p, "check") /\ txn[p].cp = request[p].cp
  /\ Answer(p, "saved", request[p].cp) /\ UNCHANGED <<disk, spent>>

Stale(p) ==
  /\ At(p, "check") /\ txn[p].cp # request[p].cp
  /\ latest # NotFound /\ request[p].cp.seq <= latest.seq
  /\ Answer(p, "stale", NotFound) /\ UNCHANGED <<disk, spent>>

Prepare(p) ==
  /\ At(p, "check") /\ txn[p].cp # request[p].cp
  /\ latest = NotFound \/ request[p].cp.seq > latest.seq
  /\ txn' = [txn EXCEPT ![p] = [cp |-> request[p].cp, offset |-> Len(history)]]
  /\ Goto(p, "intent") /\ UNCHANGED <<disk, request, repairing, spent>>

Declare(p) ==
  /\ At(p, "intent")
  /\ pending' = txn[p] /\ RiskPending(txn[p])
  /\ Goto(p, "syncintent") /\ UNCHANGED <<history, latest, cut, local, spent>>

SyncIntent(p) ==
  /\ At(p, "syncintent") /\ SyncDir
  /\ Goto(p, "apply") /\ UNCHANGED <<history, latest, pending, cut, local, spent>>

\* Load reads latest.json, LoadAt scans the history and fails on a torn line.
Load(p) ==
  /\ At(p, "read") /\ request[p].seq = 0
  /\ Answer(p, "loaded", latest) /\ UNCHANGED <<disk, spent>>

\* Mutant: a line that does not parse is taken for a checkpoint.
LoadAtUnparsed(p) ==
  /\ At(p, "read") /\ request[p].seq > 0
  /\ Answer(p, "loaded", NewestAt(history, request[p].seq)) /\ UNCHANGED <<disk, spent>>

LoadAt(p) ==
  /\ At(p, "read") /\ request[p].seq > 0
  /\ IF \E i \in DOMAIN history : history[i] = Torn THEN Answer(p, "error", NotFound)
     ELSE Answer(p, "loaded", NewestAt(history, request[p].seq))
  /\ UNCHANGED <<disk, spent>>

-----------------------------------------------------------------------------
\* Delete removes the files in the order the directory lists them, and syncs
\* nothing.
Unlinked(h, l, i) ==
  /\ history' = h /\ latest' = l /\ pending' = i
  /\ cut' = (h # <<>> \/ l # NotFound \/ i # NoIntent)
  /\ known' = IF cut' THEN known ELSE {}
  /\ risk' = [history |-> risk.history \cup {h}, latest |-> risk.latest \cup {l},
              pending |-> risk.pending \cup {i}]

Unlink(p) ==
  /\ At(p, "delete")
  /\ \/ history # <<>> /\ Unlinked(<<>>, latest, pending)
     \/ latest # NotFound /\ Unlinked(history, NotFound, pending)
     \/ pending # NoIntent /\ Unlinked(history, latest, NoIntent)
  /\ UNCHANGED <<lock, pc, local, reply, spent>>

Deleted(p) ==
  /\ At(p, "delete") /\ history = <<>> /\ latest = NotFound /\ pending = NoIntent
  /\ Answer(p, "deleted", NotFound) /\ UNCHANGED <<disk, spent>>

-----------------------------------------------------------------------------
\* What goes wrong.  A write that fails or is cut short may leave a torn line.
Fault == spent.faults < MaxFaults /\ spent' = [spent EXCEPT !.faults = @ + 1]

TornBy(p) ==
  /\ history' \in IF At(p, "write") THEN {history, Append(history, Torn)} ELSE {history}
  /\ UNCHANGED <<latest, pending, risk, cut>>

Fail(p) == ~At(p, "idle") /\ Fault /\ TornBy(p) /\ Answer(p, "error", NotFound)

Die(p) == ~At(p, "idle") /\ Fault /\ TornBy(p) /\ Leave(p) /\ UNCHANGED <<reply, known>>

PowerFails ==
  /\ spent.power < MaxPowerLosses /\ spent' = [spent EXCEPT !.power = @ + 1]
  /\ history' \in risk.history /\ latest' \in risk.latest /\ pending' \in risk.pending
  /\ risk' = [history |-> {history'}, latest |-> {latest'}, pending |-> {pending'}]
  /\ lock' = Nobody /\ pc' = [p \in Procs |-> "idle"]
  /\ request' = [p \in Procs |-> NoRequest] /\ txn' = [p \in Procs |-> NoIntent]
  /\ repairing' = {} /\ UNCHANGED <<reply, known, cut>>

Step(p) ==
  \/ Enter(p) \/ Recover(p) \/ Shrunk(p) \/ SkipLine(p) \/ Truncate(p) \/ WriteLine(p)
  \/ Flush(p) \/ ReplaceLatest(p) \/ SyncLatest(p) \/ RemovePending(p) \/ Repaired(p)
  \/ Saved(p) \/ Retried(p) \/ Stale(p) \/ Prepare(p) \/ Declare(p) \/ SyncIntent(p)
  \/ Load(p) \/ LoadAt(p) \/ Unlink(p) \/ Deleted(p) \/ Fail(p) \/ Die(p)

Next == (\E p \in Procs : Step(p)) \/ PowerFails

Spec == Init /\ [][Next]_vars

-----------------------------------------------------------------------------
\* Types, and that a failure of the power can leave what is there now.
TypeOK ==
  /\ history \in Seq(Checkpoints \cup {Torn}) /\ history \in risk.history
  /\ latest \in Checkpoints \cup {NotFound} /\ latest \in risk.latest
  /\ pending \in Intents \cup {NoIntent} /\ pending \in risk.pending
  /\ lock \in Procs \cup {Nobody} /\ pc \in [Procs -> Places]
  /\ request \in [Procs -> Requests \cup {NoRequest}]
  /\ txn \in [Procs -> Intents \cup {NoIntent}] /\ repairing \subseteq Procs
  /\ reply \in Replies \cup {NoReply} /\ known \subseteq Checkpoints /\ cut \in BOOLEAN

\* A directory nobody is working on, with no repair due.
AtRest == lock = Nobody /\ pending = NoIntent /\ ~cut

\* The two ways of asking for the newest checkpoint agree: LoadAt of zero reads
\* latest.json, any other number scans the history (store.go:167-171).  A resume
\* and a fork of the newest state start from the same one.
NewestIsNewest == AtRest => latest = NewestAt(history, MaxSeq)

\* The history is strictly increasing: no retry and no repair appends twice,
\* and nothing is appended behind a newer checkpoint.
HistoryIncreases ==
  ~cut => \A i, j \in DOMAIN history : i < j /\ Torn # history[j] => history[i].seq < history[j].seq

\* What a caller was told is stored stays in the history, and a resume finds it
\* or something newer, whatever fails afterwards.
KnownIsKept ==
  ~cut => \A cp \in known :
            /\ pending.cp = cp \/ \E i \in DOMAIN history : history[i] = cp
            /\ cp.seq <= latest.seq \/ cp.seq <= pending.cp.seq

\* A repair never finds the history shorter than the intent says, and no line
\* is appended to or read behind a torn one.
RepairIsPossible ==
  ~cut => /\ pending # NoIntent => Len(history) >= pending.offset
          /\ \A p \in Procs : pc[p] \in {"check", "intent", "read"} =>
                                \A i \in DOMAIN history : history[i] # Torn

\* The checkpoints the directory stands for: a declared intent counts.
SavedLines ==
  IF pending = NoIntent \/ cut THEN history
  ELSE Append(SubSeq(history, 1, pending.offset), pending.cp)

\* Without power failures the directory keeps the promise of CheckpointStore: a
\* Save takes effect when its intent is declared, and the repair of another
\* process completes it without anyone seeing two states.
Promise == INSTANCE CheckpointStore WITH saved <- SavedLines
KeepsPromise == Promise!Spec
=============================================================================
