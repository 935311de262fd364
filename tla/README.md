# ZenForge: a verification development

TLA+ models of the durable parts of ZenForge, TLC configurations that check
them on small instances, and TLAPS proofs of what matters most for any size.

ZenForge runs agents that survive crashes: a run is a loop of model calls and
tool calls whose state is checkpointed before and after everything that
matters, whose history is an append-only event log, and which any process may
take up again from the newest checkpoint. The models follow that core outwards:
the loop, the stores it writes, the readers that follow it, the operators that
approve its tools, the managers that own it and the console that shows it.

## Inventory

| Part | State | Operations | What makes it hard | What makes it correct |
|---|---|---|---|---|
| Run loop (`harness/runner.go`, `harness/state.go`, `agent.go`) | `RunState` in memory and in the newest checkpoint; the run's lifecycle events | start, resume, step, model attempt, retry, tool call, approval, Stop hook, finish, fail, cancel | a crash, a cancellation or a failed write between any two steps; retries and resumes that repeat work | one result for each call, no call repeated without a crash, no effect without approval, no committed work lost, a run that ends |
| File checkpoint store (`checkpoint/jsonl`) | history file, `latest.json`, pending record, locks | Save, Load, LoadAt, Delete, List, repair | four durable steps per save, two processes, power loss, failing steps | an increasing history, all or nothing, a repair that is safe to repeat |
| File event log (`eventlog/jsonl`) | lines of `events.jsonl`, a cached tail per process | Append, Read, LatestSeq | readers take no file lock, torn lines | gapless sequence numbers |
| Bus and follower (`eventlog/bus.go`, `follow.go`) | subscriptions with bounded channels, closed runs, a follower's position | Publish, Subscribe, CloseRun, Follow | overflow, closing and appends between watermark and subscription | every event once, in order, to the end |
| Approval brokers and inbox (`approval`) | pending requests and their channels, the durable record and its one decision | Request, Submit, expire, poll, Register, Resolve | an answer that races expiry, cancellation or another answer; a crash while the run waits | an accepted decision reaches the run, and only one does |
| Grant stores (`approval/store.go`, `approval/sqlite/store.go`) | grants by namespace and key | Get, Put, Revoke, List | expiry | a grant answers only its own key |
| Run manager and registry (`server/harnesshttp`) | managed runs and their goroutines, leases, tokens, cancel requests | Start, Resume, drain, Cancel, heartbeat, Release, Forget, Close, recovery | expiring leases, two managers, process death, calls that race the end of a run | one owner at a time, a cancel that is consumed, a Close that leaves nothing behind |
| Session log and follow host (`internal/dshwire/session.go`, `internal/dshstream/follow.go`, `internal/dshapi/session.go`) | the turns of a conversation as one numbered log, a stream's turn and offset | follow, page, prompt, rename | turns that start and end while a stream goes from one to the next | one number for each record |
| Browser journal stream (`webui/.../gateway/client.js`, `session-controller/client.js`, `connection/client.js`) | the window of records, the applied cursor, retries, a repair or an older page being read | open, receive, repair, retry, rebaseline, load earlier | losses, gaps and pages that cross each other | the window is a run of the log and catches up |
| Run control (`harness/control.go`) | queues of steers | Open, Enqueue, Drain, Replace, Remove, Close | a steer that races the end of the run or a crash | an accepted steer reaches the transcript |
| Jobs (`jobs`) | processes, buffers, statuses | Start, Kill, wait, Output, Close | kill, exit and drain race | a final status after the whole output |
| Sub-agents and workflows (`subagent`, `workflow`) | child runs, promises | Invoke, agent, parallel, pipeline, cancel | concurrency limit, cancellation, fail-fast | every child settles, the cause is reported |
| Goals and schedules (`goals`, `schedule`) | goal state, entries | Create, Edit, Pause, Resume, Complete, Block, AdmitRound, RunGoal; Add, Due, RecordRun | no compare-and-swap; arithmetic of windows | a pause holds; no window is run twice |
| Retry and compaction (`modelretry`, `compaction`) | none | Delay, Prune, RetainBoundary | boundaries | bounds |

They interact in one direction: a manager starts an agent's run; the loop calls
the model, the tools, the broker and the Stop hook, and writes the checkpoint
store and the event log; the log's fan-out publishes to the bus, where
followers listen. A resume reads the checkpoint store only; managers and
followers read the log. The session API joins the followers of a conversation's
runs into one stream, and the browser keeps a window over it.

The other parts (tools, sandbox, skills, memory, adapters, the command line,
the views of the web UI) transform data or talk to other programs and are not
modelled; `PROJECT.json` lists each with its reason, and under `hazards` what
is hard to test and which property covers it.

## Modules

| Module | Models | Composed with |
|---|---|---|
| `HarnessRun` | the run loop, its resume paths, model attempts, tools, approvals, the Stop hook, cancellation and crashes; the checkpoint store as one durable cell, the event log as its newest lifecycle event | |
| `HarnessRunProofs` | theorems about it | extends `HarnessRun` |
| `HarnessStateProofs` | theorems about what it stores: the attempts of a state, and that nothing stored is lost | extends `HarnessRunProofs` |
| `Checkpoints` | what is saved, asked and answered | |
| `CheckpointStore` | the abstract promise of a checkpoint store; the memory and sqlite stores step by step | extends `Checkpoints` |
| `CheckpointJournal` | the file store, one system call at a time | extends `Checkpoints`, implements `CheckpointStore` (`Promise`) |
| `CheckpointJournalProofs` | theorems about it, the refinement among them | extends `CheckpointJournal` |
| `EventFollow` | the bus, the fan-out of appends and the followers of one run | |
| `EventFollowProofs` | theorems about it | extends `EventFollow` |
| `EventLog` | the file log of one run, in several processes | |
| `EventLogProofs` | theorems about it | extends `EventLog` |
| `Approvals` | one approval request through the `PendingBroker` or the `StoreBroker`, its inbox, its operators, and the run that waits, crashes and resumes | |
| `ApprovalsProofs` | theorems about it | extends `Approvals` |
| `RunManager` | the managers of several processes and the registry they share, for one run | |
| `RunManagerProofs` | theorems about it | extends `RunManager` |
| `ConversationView` | what a console promises to show: nothing, or a run of the conversation's records that never ends earlier than before | |
| `JournalStream` | the session's log, its host and the browser's stream and window over it | implements `ConversationView` (`View`) |
| `JournalStreamProofs` | theorems about it, the refinement among them | extends `JournalStream` |
| `MC...` | values of the constants for TLC | |

Inside a module, a definition called `Mutant: ...` is a plausible wrong version
of the one below it. It is no part of the specification: it serves to see that
a property notices when the code is changed in that way.

### HarnessRun

`st` is `harness.RunState` in memory and `ckpt` the newest checkpoint; `pc` says
where `Runner.Run` and the functions of `agent.go` it calls are. One action is
one stretch of code between two points where something else may happen: a
checkpoint, an append, a call of the model, a tool or the broker. `Save` is
`saveCheckpointAfterLatest`: it stores the state, or reports an error and has
stored it or not (the file store may complete a failed save later). What
happens to the process is `Exit`: everything in memory is gone, and `Launch` is
`Agent.Stream` for a run without events or `Agent.Resume` for one with a
checkpoint that loads. `Enter`, `Resume...` and `Requeue` follow the resume map
(`docs/harness-state-machine.md`) as `Runner.Run` and `agent.go` implement it.

The transcript is kept as the calls that were asked for (`asked`), how many
results each has (`answers`) and the kind of the newest message; the order of
messages and their text are not. The world outside is `execs` (how often each
tool took effect), `consents` and `standing` (what operators approved) and
`verdict` (what the Stop hook last said).

Not in the module: the grant store that outlives a run, compaction, steers,
environment updates, hooks other than Stop, the plan and sub-agent modes. Reads
of the store before the loop succeed. A failed append to the event log is a
crash, because the runner then returns without another durable write. Attempt
identities are time stamps in the code; here `HistoryLimit + 2` of them go
round, enough because only those in the state are compared.

### CheckpointStore and CheckpointJournal

The store's promise is a sequence `saved` that grows at one instant of each
`Save`. `CheckpointJournal` is the directory of one run: `history`
(`checkpoints.jsonl`, line by line), `latest` (`latest.json`) and `pending`
(`.pending.json`, the declared intent). A process walks through `recoverPending`,
the checks of `Save`, `atomicWriteFile` and `finishPending` by its `pc`; every
rename, write, sync and remove is an action, and `Fail` or `Die` may take the
place of any. `Torn` is what a write that was cut short leaves. `risk` holds, of
each file, every version a loss of power may leave: a write or a rename adds
one, `fsync` of the file or of the directory leaves one.

The refinement mapping is short: the promised sequence is the history if there
is no intent, else the history up to the intent's offset followed by the intent
(`SavedLines`). So a `Save` takes effect when its intent is renamed into place,
whoever completes it, and the five steps of completing it change nothing.

Assumed: the run's directory and its parent are durable; the process mutex and
the file lock are one lock; a sync that succeeds covers every earlier write of
the file, also those whose own sync failed; the files are not edited by others.
A context that expires fails a call before the intent is declared, which `Fail`
covers; after it the code does not look at the context.
`Delete`, which is offered to hosts and has no caller in the program, removes
files one by one: while it is cut short (`cut`) nothing is promised until it is
repeated, and losses of power are not combined with it.

### EventFollow

An event is its place in the log, which is taken as correct and append-only
(`EventLog` says when the file log is);
`"end"` stands for `run.done`, `run.error` and `run.cancelled`. `fanout` is what
`FanoutStore.Append` is doing while it holds its mutex; `DirectAppend` is another
process, which does not reach this bus. `subscribed`, `channel` and `closed` are
the bus. Each follower walks through the loop of `follow`: `Mark` takes the
watermark, `Deliver` hands one event to the client, `Replayed` looks at the event
at the watermark, and the `select` is `Receive`, `Tick`, `RunClosed` or
`Overflowed`. How many events a read returns makes no difference, for what is
in the log stays there. `told` is no variable of the code: it records which followers
had an end ahead of them when they subscribed, or were sent one.

An end is not the last event of a log: a title may be appended behind it at any time
(`internal/dshapi/session.go:757`), and so do resumptions of the run, which end it
again. So `Extend` appends whatever it likes, and the properties speak of an end ahead
of the cursor or of one that is the newest event. A follower that is attached at
or behind an end with something behind it, on a bus that has not closed the run, waits
for an end that may never come; `StreamsEnd` promises it nothing.

### EventLog

`file` is `events.jsonl` line by line; `Torn` is a line that is being written or
was cut short. `flock` is the file lock, `cache` the tail each `Store` remembers,
`pc` the place of each process in `Append` or `LatestSeq`; the process mutex
allows it one call at a time. `Size` stands for the file's size: it changes with
every line and tells a torn line from a whole one. A write is two steps, `Write`
and `Finish`, because a lookup without the lock can see the first half. `Fail` is
a write or a sync that reports an error, and every other early return; `synced`
is what a loss of power leaves for certain.

Every process appends and asks, as `Agent.emit`, `FanoutStore.Append` and
`appendTitle` do before each append. A process that asks beside another writer may note
the new size with the old number, which is finding 1, and then repeat a number or write
behind half a line. `overtaken` is no variable of the code: it records who has done
so. The properties say what holds all the same, and that nothing else does harm: a
line that is wrong was written by such a process, what was acknowledged stays where
it was written, and while no process is overtaken the log is whole and no tail is
ahead of it.

### Approvals

One request, whose host has either broker (`broker`) and one bound on the wait
(`limit`); both are chosen in `Init`. `entry` and `channel` are the
`PendingBroker`'s map entry and the channel of the wait; `inbox` is the durable
record of `memory` and `sqlite`. `run` walks through `checkpointApproval`,
`registerApproval`, `Request` and the checkpoint of the decision in `agent.go`;
`saved` is that checkpoint, from which `Resume` starts over after a `Crash`. An
operator's `Submit` is `Take` and `Send` with the `PendingBroker`, and one
transaction, `Resolve`, with an inbox, whose clock was read before.

What the inbox compares of a request is the time it was made (`made`); the other
fields are the same in a request and its repetition. Operators of the
`PendingBroker` are in the run's process and end with it. `WithTimeout` around a
`StoreBroker` is left out of the runs (`TimedInbox`): it answers for the
operator without telling the inbox, so that there are two decisions by
construction.

### RunManager

One run and any number of processes. `reg` is the row of the registry, `run` the
entry of `m.runs`, `worker` the goroutine of `start` and `drain`, `beat` the
heartbeat, `out` the agent's channel. Each of the registry's methods is one SQL
statement and one part of an action: `Claim`, `Refresh` (`Update`), `Released`
(`Release`), `AskCancel` (`CancelRequested`), `Cancel` (`RequestCancel`),
`ForgetDelete` (`Delete`). A lease is named by its token, a number that `Claim`
draws; `Expire` may come at any time, and `late` remembers that it came under a
holder that was on time.

Abstractions: a manager has one worker, so a new start waits until the last one
is gone, and `Forget` and `Retire` wait for the worker's last steps, which can
change nothing; the append of a terminal event in `persistTerminal` succeeds; the
terminal statuses are not told apart; the agent is what can be seen of it from
here. Listings, recovery by listing and the limit on active runs are left out.

### ConversationView and JournalStream

A record is a number, given in the order of writing; its place in `log` is the
number it is served under. `starts` and `ends` say where the turns are and how
many records each had at its end. `srv` is the goroutine of `runFollow`: `Pump`
sends the records of a turn with the offset the turn had when the stream came to
it, `await` and `locate` go to the next one. Inside a turn it is a follower, and
`EndTurn` and `CutTurn` are what `EventFollow` says of its end: attached before
the end (`ahead`) it stops with it, or, by finding 2, without it once its channel has
overflowed and the run is closed; attached behind it, when the run is closed here or
the end is the last event. On the
browser's side `phase`, `attempt` and `why` are `RemoteStream`, `base`, `win`,
`last`, `more` the window of `RemoteJournalStream` and the session over it,
`repair` and `older` the two pages that can be under way, and `ready` is
`Connection`'s Host generation, which is cleared before or after the stream
notices that the socket is lost (`seen`).

Renames, prompts and restarts come at any time, and two things then make numbers wrong.
A title goes behind the first turn, in front of every later record, also of those the
stream, the window or an older page has numbered already (finding 3); and a prompt
between the two reads of `awaitSessionTurn` and its caller gives one turn the offset of
another. `skew` is no variable of the code: it records which of the two has befallen
the stream, the window or the older page, and is empty again when each is read
anew. The properties of the window hold while `skew` of the window is empty, so that they
say what these two steps cost and that nothing else costs anything. A restart of the
host (`Lose(TRUE)`) forgets which runs it has closed and leaves a running turn without
an end (`Orphaned`). A stream that comes to such a turn, or behind an end that a
title follows, waits on it for ever (`Stranded`), and one whose turn was cut
short waits for the next turn without a word of what it has not sent (`CutShort`):
these are the exceptions of `CatchesUp`.

`ConversationView` knows the log and the view only: a record is added at the end or,
a title, in front of others; the view is extended or replaced by one that ends no
earlier, or closed, as it must be when a record is put in front of part of it. The
refinement mapping takes the window while the session is open and not askew.

The text of records, projections, the cells of the console and the queue of prompts
are left out; so are the recovery of an orphaned turn (`RecoverStale` is offered to
hosts and no part of the console), a run whose end cannot be logged, and the resumption
of a turn that has ended.

## Runs

| Run | What it shows | Bounds |
|---|---|---|
| `harness` | the nine properties of the run loop | 2 steps, 3 model answers with up to 2 calls, one refusal, one retry, history of 2 attempts, 2 processes, one failing checkpoint write |
| `checkpoint_journal` | the directory stays in order and keeps the abstract promise | 2 processes, 2 contents, numbers up to 3, 2 failures or deaths, 1 delete |
| `checkpoint_power` | what a caller knows to be stored survives a loss of power | as above, one loss of power, no delete |
| `event_follow` | the bus is sound, no false alarm, every event arrives and every stream ends | 1 follower, 4 events, any of them an end, channel of 1, 2 failures, appends by others |
| `event_overflow` | finding 2 | as above, no failures, no appends by others |
| `event_log` | only an overtaken process spoils the numbers, nothing acknowledged is lost, no tail ahead of the file | 2 processes that append and ask, 3 events, 2 failures, deaths or losses of power |
| `event_log_cache` | finding 1 | 2 processes that append and ask, 3 events, no failures |
| `journal_stream` | the console's window is a run of the log, never moves back and catches up, and what a rename, a prompt or a cut turn costs | 3 turns, 3 records (beyond them only the first of each turn), pages of 2, 2 losses, restarts, cut turns, failing pages or rebaselines, renames and prompts at any time |
| `journal_numbers` | finding 3 | 2 turns, 3 records, renames at any time |
| `run_manager` | a lease fences its agents, a stolen owner stops, a cancel is consumed, Close leaves nothing | 2 managers, 2 leases, one death, a stream of one event, leases that expire at any time |
| `approvals` | one decision, and the run is given it | 2 operators, 2 crashes, either broker, each kind of bound on the wait |
| `approvals_resume` | finding 4 | as above |

Why the bounds suffice. `harness`: two steps are the least at which a turn of
the loop, the step limit and the final turn all happen; two calls give a batch
that is interrupted in the middle; in each of the first two turns one call is
gated and one is not, and keys are shared across turns, so that a grant can be
used, and misused, later; two processes give every resume path once, and a
third would start from states of the same kind; a history of two with an
attempt, a repeat and a commit reaches the point where the oldest is dropped.
`checkpoint_*`: an overtaken number, a repeated one and a free one need three;
two failures allow one in the save and one in its repair; two contents tell a
retry from a different save with the same number. `event_*`: a channel of one
overflows with two events, the third is received after it, and the fourth may be an
end or stand behind one; a second follower would matter only through the bus, which `BusSound`
proves sound for any number. `event_log`: two processes contend for the lock and
overtake each other, and with three events one append can be cut short or fail
between two that are not.
`journal_stream`: a page of two is smaller than the log, so there is older history
and a repair can be incomplete; three turns let a stream miss one and find the
newest, and are the least at which what is left out can be met twice during one repair;
a third record lets a title fall between records that were numbered; two losses make
the second retry give up, or the host restart behind a cut turn. `run_manager`: a second lease
is one that another manager takes or that a resume takes after the end; the
theorems cover any number. `approvals`: two operators differ; the second crash is
one after a resume.

`CHECK_DEADLOCK FALSE` stands where the system may stop: a run that has ended, a
store that is not called, followers that have left, a request that is answered,
managers that are closed.

The actions and properties of each module name the code they are about; the
deeper ones are these.

* `TranscriptIsAnswered`: each model request has one result for each call,
  over any interruption of a batch. A provider rejects anything else.
* `ToolsAreWrittenAhead`, `InvokedOncePerLaunch`: a tool is repeated only after a
  crash while it was active.
* `EffectsAreApproved`: no path through requeues, standing approvals and crashes
  lets a gated call through that nobody approved.
* `SavedStateLoads`: the run saves nothing that the stricter check of a load
  would refuse.
* `CommittedWorkSurvives`, `DoneIsStored`, `RunSettles`: nothing committed is
  lost, and with finitely many crashes the run comes to an end.
* `HistoryIncreases`, `NewestIsNewest`, `KnownIsKept`, `RepairIsPossible`,
  `KeepsPromise`: the file store under failures.
* `Gapless`, `AckedIsKept`, `CacheIsNotAhead`: the caches and the lock of the
  event log, whatever fails in between: an overtaken lookup is the only thing that
  can spoil the log, and it does not take back what was acknowledged.
* `BusIsSound`: channels are closed from three sides and must be closed once.
* `ToldIsServed`, `EverythingArrives`, `StreamsEnd`: what a stream owes its
  client.
* `OneDecision`, `AcceptedReachesRun`, `AnswersArrive`: whom an operator's "accepted"
  binds, over cancellation, expiry, a second operator and crashes.
* `Fenced`, `StolenOwnerStops`, `CancelIsConsumed`, `ClosedIsQuiet`: what leases and
  heartbeats are for.
* `WindowIsLog`, `NoFalseAlarm`, `CatchesUp`, `ShowsTheConversation`: gaps, repairs,
  retries and older pages together keep one faithful window, which a title or a
  prompt between two reads spoils and the next opening repairs. `NoFalseAlarm` says of
  the stream's refusals that one for a violation needs such a prompt (`PagesReach`),
  and one for gaps after the second read three turns (`RepairsSuffice`). `CatchesUp`
  names every way in which a console may stay behind without being told.

### Fairness

`HarnessRun`: weak fairness of all that the process does by itself (`Driven`):
the goroutine runs, the model and the tools return (with an answer or an
error), the Stop hook returns, and a process that stopped is followed by
another one. Operators owe nothing: a run that waits for an approval counts as
settled, unless it is cancelled, when the broker returns by the context. No
fairness of crashes or cancellations. `EventFollow`: weak fairness of each
follower's steps: its goroutine runs, its ticker ticks, its client reads (one
that leaves is `Stop`); and strong fairness of the case of its `select` that reads the
channel: Go chooses among the cases that are ready by chance, and the ticker, which
is not ready each time, cannot be chosen for ever. Nothing is owed by the writers.

`Approvals`: the run's goroutine and each operator's call go on; nobody is made
to answer, and time need not pass. `RunManager`: each worker and each heartbeat
goes on, an agent whose context is cancelled stops, and the lease of a process
that is gone runs out; no agent is made to end, and no lease of a living process
is made to expire. `JournalStream`: the host's goroutine and the browser's
callbacks run, the connection tries again for ever, and a turn that was accepted
writes its first event (the run manager logs `run.started`); no turn is made to
end and no user to load or reopen. The checkpoint modules and `EventLog` state
safety only.

## Proofs

TLAPS proves, for every value of the constants that the named assumptions allow:

* of `HarnessRun` (`HarnessRunProofs`): `TypeCorrect`, `TranscriptAnswered`,
  `InvokedOnce`, `EffectsApproved`, `DoneStored` as invariants and `WrittenAhead`
  as an action property; and, of what it stores (`HarnessStateProofs`),
  `SavedStatesLoad` and the action property `WorkSurvives`;
* of `EventFollow` (`EventFollowProofs`): `TypeCorrect`, `BusSound`,
  `NoFalseAlarms`, `ToldAreServed`;
* of `EventLog` (`EventLogProofs`): `TypeCorrect`,
  `NumbersAreGapless`, `AckedAreKept`, `CachesAreNotAhead`;
* of `CheckpointJournal` (`CheckpointJournalProofs`), where the power does not fail
  (`MaxPowerLosses = 0`): `TypeCorrect`, `NewestAgree`, `HistoryIsIncreasing`,
  `ReportedCheckpointsAreKept`, `RepairsSucceed`, and the refinement `Implements`;
  where it may fail any number of times and nothing is deleted (`MaxDeletes = 0`),
  `ReportedCheckpointsSurvive`;
* of `RunManager` (`RunManagerProofs`): `TypeCorrect`, `AgentsAreFenced`,
  `ClosedManagersAreQuiet`;
* of `Approvals` (`ApprovalsProofs`): `TypeCorrect`, `AcceptedAnswersReachTheRun`,
  and under `~TimedInbox` `DecisionIsOne`;
* of `JournalStream` (`JournalStreamProofs`): `TypeCorrect`, `WindowIsSound`,
  `PagesAlwaysReach`, `NoFalseAlarms`, and the refinement `Implements`, with renames,
  prompts and restarts at any time.

`HarnessRunProofs`. None of the properties is inductive. `Inv` adds to `TypeOK`:
what each place of the loop knows about the state (`At`); that each call asked
for is pending, active or answered, and exactly one of the three, in memory and
in the checkpoint (`Accounted`); that every approval noted in either was an
operator's (`Consented`); that effects do not outnumber launches, with room for
one while a call is active (`LaunchBound`); that effects are backed by consents
(`EffectsBacked`); and that a logged `run.done` is stored (`DoneIsStored`). The
parts need each other: that an execution is approved follows from what the
place knows, which a resume has from the checkpoint, whose approvals are
operators'. There is a lemma for each operator that builds a new state
(`PushFront`, `AppendAttemptType`, ...) and one for each action.

`HarnessStateProofs`. A load demands more of a state than a save: identities of
attempts must differ, and a retry and the attempt it replaces must name each other.
Both are facts about pairs of attempts anywhere in a bounded history that loses
its head, so the invariant (`StateInv`) says that the history with the current
attempt behind it is a chain (`Chained`): an attempt's identity is that of an
earlier one counted on around the round (`After`), and neighbours are linked exactly
if the first was superseded (`Succeeds`). It grows at its end (`ChainGrows`), and its
head can be dropped if the next attempt's link is cut. That two attempts of a
chain never share an identity follows from the round being longer than the
history. The checkpoint is never ahead of the run's state while the process lives
(`Ahead`), which is why the next checkpoint loses nothing.

`EventFollowProofs`. `Inv` adds to `TypeOK` and `BusIsSound`: what is being
published is in the log (`LogIsSound`), and so are messages and targets
(`MessagesAreStored`); and for each follower that was told of an end, either it has
left, at an end if it says that it is done, or an end that is still ahead of its cursor
will be met: its message is in the channel, or it is about to take a watermark,
or it is replaying up to the end or beyond (`EndsAreAhead`). The last one is what makes
`ToldIsServed` inductive: in none of these cases is the channel of a waiting
follower empty, so neither `RunClosed` nor `Overflowed` can happen to it. Nothing
is assumed of what follows an end.

`EventLogProofs`. `Inv` adds to the properties what each process knows
(`ProcsKnow`): under the lock, where its torn line or its event is; and, unless it has
been overtaken, that its tail was noted for a file that ended with it, so that a
hit is right whatever others did since, and that the end of the file is where its
lookup found it. Only `Remember` outside the lock can overtake a process, and only
one that has been can write a line under a wrong number or behind half a line. What was
acknowledged is whole and synced (`AckedIsSynced`). A step either touches no
line (`QuietStep`) or is made by the holder of the lock and keeps every whole line,
overtaken or not (`GrowingStep`); a loss of power starts all processes anew.

`CheckpointJournalProofs`. `Inv` says that one process is in a call and knows its
request (`Calls`); that the files stand for one increasing sequence,
`SavedLines`, which holds all that is known, with nothing behind an intent's
offset but its line, a torn one or nothing (`Directory`); and what each place of
a call has established (`Progress`). The two last are promised only while no
Delete is under way (`InOrder`). All work between a declared intent and its removal
is behind the offset and leaves `SavedLines` alone (`BehindTheOffset`), removing
the intent changes the form and not the sequence (`RemovePendingSettles`), and
`Declare` alone makes it grow (`DeclareCommits`): the same lemmas give the
invariant and the step simulation of `CheckpointStore`. That `LoadAt` finds a line
among lines that need not increase, when a Delete was cut short, rests on the
least element of a set of numbers (`LeastOf`).

Under losses of power `Inv` fails: they leave torn lines where no repair will cut, and a
history behind latest.json. What is kept of each file is independent of the others, so
`PowerInv` speaks of every combination at risk (`Survives`) and of what limits them:
with no repair due, only the removal of an intent whose line is there is at risk
(`Settled`); an intent whose name is not durable has been told to nobody and starts
behind all older ones, and if it can be lost, whatever latest.json is left names a
line that is left (`Declared`). The last clause is what a repair relies on that
meets an intent its dead writer never synced: it works on it all the same, and the
order of its syncs makes that safe. `MaxDeletes = 0` is needed: TLC finds a Delete
whose removals, synced by nothing, come back in part.

`RunManagerProofs`. `Inv` adds what the goroutines of one manager know of each
other (`Phase`), that a token names one lease and at most one manager has it
(`TokensAreApart`), and that whoever works from its claim on holds the unexpired
lease or was overtaken by an expiry that came under its heartbeats, while whoever is
over has given it back (`Lease`). The reason for `Fenced` is that a lease is lost
only by `Release`, which ends the run first, by `Forget` of a finished run, or by
a claim after `Expire`.

`ApprovalsProofs`. `Inv` follows the one answer of a request. With the
`PendingBroker` the operator who took the wait out of the map has it, then the
channel, then the run, and while the entry is there the run waits and the channel is
empty (`PendingIsSound`), so that `Withdraw` cannot give up what was accepted. With
the `StoreBroker` it is the record's decision that an operator was told and the
run saved (`InboxIsSound`). That the run was given it too (`RunIsGivenIt`) needs that
no `WithTimeout` is around the inbox: its timer answers in the run's place.

`JournalStreamProofs`. `Inv` says that everything that has been read off the log is
part of it, unless `skew` says what has made its numbers wrong: a page goes back without
a gap (`PageOf`), an entry has its own number (`EntryOf`, `Wire`), the window
is a run up to the cursor (`Window`), and what is being read is read for the window
that is shown (`Reading`). What was read stays part of the log if it lies before
the place where a record is added (`PagesStay`, `EntriesStay`, `WindowsStay`), and
`Rename` marks as askew whatever reaches beyond its place (`RenameIs`). Two facts
are needed beside that. A stream that is still in the first turn has numbered
nothing behind it (`Early`), so the title that is added there cannot be in front of it; and
an entry's number is right because the goroutine has its turn's offset (`Server`), or too
low if titles have come since, but too high only after a prompt between two
reads (the clauses with `"prompt"`). So a page always reaches the entry it is
asked for, and only such a prompt raises a violation (`Alarm`). That a merged page
and its queue have no gap is `MergedIsWindow`. For the refinement, the applied cursor
never goes back while the session is open (`CursorAdvances`); a record that is
added maps to a `Write`, which closes a view that reaches beyond its place
(`WriteMaps`), and every other step to a `Show`, a `Close` or a stutter
(`ShowMaps`).

That a repair never gives up for gaps with two turns (`GapInv`) needs no right
numbers, only their order: the entries of one turn that are in flight, those that
wait for a page and those on the wire, are numbered without a gap, at whatever
offset, and turns go upwards (`Chain`); what the goroutine sends next goes on where
they end (`Sending`). The first read goes up to the first entry that waits. If that was not
enough there is a jump among them, so an entry of a later turn than the first, and the
second read goes up to the newest that waits (`Asked`): a jump behind it leads to a
third turn.

Only model-checked: the liveness properties (`RunSettles`, `EverythingArrives`,
`StreamsEnd`, `CatchesUp`, `StolenOwnerStops`, `CancelIsConsumed`, `AnswersArrive`),
as TLAPS has no rule for fairness and `ENABLED`. Every safety property, action property
and refinement of a passing run is a theorem. No induction over data and no
recursive operator is needed anywhere.

## Findings

1. `event_log_cache`: a lookup takes no file lock, so an append can fall between
   its scan and the note of the file's size. The process then answers with an old
   number until the file grows again; if it appends itself, it repeats a number
   and the log can no longer be read.
2. `event_overflow`: a subscription that overflows just before the run closes
   is not replaced. The stream ends without an error and without the last
   events.
3. `journal_numbers`: a rename appends to the run of the conversation's first
   turn, also when later turns have begun, and every later record is served under
   another number than before.
4. `approvals_resume`: a run that waited on the durable inbox and crashed is
   refused its own request when it is resumed, because the request it rebuilds
   has a new time; the operator's answer stays where it is and the run fails.

`PROJECT.json` quotes the sentences of the code and the documentation that each
one contradicts.

Met while modelling, and not made runs:

* a crash between the completed checkpoint and the Stop hook ends the run without
  the hook (`harness/runner.go:346`, `docs/adr/0045`);
* a cancellation that reaches the resume of a completed run turns its stored
  outcome into a cancelled one (`runner.go:155`);
* the repair of an interrupted save takes the intent it reads for durable, also
  when its writer stopped before the sync of the directory
  (`checkpoint/jsonl/store.go:363`); where nothing is deleted this loses nothing
  (`ReportedCheckpointsSurvive`);
* the `StoreBroker` that loses its expiry against an answer goes back to a timer
  that is not set again and sleeps until it is cancelled (`Overslept`);
* a manager that is closing, or has consumed a request to cancel, stops its
  heartbeats while the agent winds down, so that its lease may expire and be
  claimed (`run_manager.go:918`; `late` counts only leases whose heartbeats run);
* a comment of the stream says of a new turn that "the first frame it projects is
  one past the cursor the console holds" (`dshstream/follow.go:275`), which is not
  so when a turn was skipped or a title came between two turns; the browser repairs
  the gap, but if left-out records are met twice during one repair, which takes
  three turns, `replaceThrough` refuses the stream after its second read
  (`gateway/client.js:1156`) though nothing is wrong (`why = "gaps"`);
* a console whose follower returned without the end of its turn (finding 2) is told
  of nothing and shows what is missing only when it meets the next turn (`CutShort`);
  one that reconnects to a restarted host behind an end that a title follows, or in a
  turn the old host left without an end, waits on that turn and never moves to the
  next (`Stranded`; `dshstream/follow.go:323`, `eventlog/follow.go:193`);
* an older page that no longer meets the window ends "load earlier" for good
  (`gateway/client.js:1034`).

## Not modelled

`PROJECT.json` gives each part's reason; in short:

* run control, time travel and the recorder: steers leave the controller's queue
  before the checkpoint that has them, which is plain from the code; forks and
  recorders add writers to the stores that are modelled, and no new order;
* jobs, sandbox, tools: what matters there is what pipes, signals and processes
  do;
* workflows: an embedded interpreter decides what may happen;
* sub-agents, goals: runs over runs, each of which is `HarnessRun`; the goal store
  has no compare-and-swap and one driver;
* schedules, retry delays, compaction: arithmetic on calendar time, delays and
  estimates of text;
* `HarnessRun` leaves out plan and sub-agent modes, compaction, steers and hooks
  other than Stop; two processes on one run meet in `RunManager` (who may work) and
  in `CheckpointJournal` (what the store does with both), not in one module;
* the web UI comes built into the repository as bundles of some 100,000 lines, nearly all
  of it views, editors and libraries. Its stream, window and connection are
  `JournalStream`; the rest renders what the host sends and keeps no state that
  another part relies on. By lines the models therefore cover a small part of the
  JavaScript; ZenForge itself is the Go code.
